--------------------------- MODULE MCCasePipeline ---------------------------
(* CasePipeline on small instances: one case with every hazard switched on, two
   cases that share one invoker, and one case with a second spelling of its id. *)
EXTENDS CasePipeline, TLC

CONSTANTS c1, c2, a1, p1, p2

NoAlias == [a \in {} |-> c1]
OneAlias == [a \in {a1} |-> c1]

(* "detected" is the poller's alone: no prompt or SOP tells the agent to set it. *)
EveryOutcome == CaseStatus \ {"detected"}
FewOutcomes == {"processing", "awaiting_human_input", "complete"}
TwoOutcomes == {"processing", "complete"}

PollerSymmetry == Permutations(Pollers)
=============================================================================
