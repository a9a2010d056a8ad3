------------------------------ MODULE MCTickets ------------------------------
(* Tickets with two answers in progress at a time, on one ticket or on two. *)
EXTENDS Tickets, TLC

CONSTANTS t1, t2, k1, r1, r2

ReviewerSymmetry == Permutations(Reviewers)
=============================================================================
