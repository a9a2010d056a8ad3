------------------------------ MODULE AgentRun ------------------------------
(***************************************************************************)
(* What an agent run promises to those who wait for it and to those who     *)
(* read about it afterwards: it reaches one verdict and keeps it, it is      *)
(* filed at most once and only after its verdict, and it is filed as         *)
(* complete only if it finished or nobody was left to be told.              *)
(***************************************************************************)
CONSTANT Unfiled     \* no trace
VARIABLES verdict,   \* "running", what the stream told its consumer, or "cut"
          filed      \* the outcome in the case's trace

Verdict == {"finished", "stopped", "failed", "cut"}
Outcome == {"complete", "cancelled", "error", "unknown"}

Init == verdict = "running" /\ filed = Unfiled

Conclude(v) ==
  /\ verdict = "running"
  /\ verdict' = v
  /\ UNCHANGED filed

File(o) ==
  /\ verdict # "running" /\ filed = Unfiled
  /\ o = "complete" => verdict \in {"finished", "cut"}
  /\ o = "unknown"  => verdict = "cut"
  /\ filed' = o
  /\ UNCHANGED verdict

Next == \/ \E v \in Verdict : Conclude(v)
        \/ \E o \in Outcome : File(o)

Spec == Init /\ [][Next]_<<verdict, filed>>
=============================================================================
