------------------------------ MODULE TraceStore ------------------------------
(***************************************************************************)
(* agent_traces and traces_dropped of one case's row. A finished agent run    *)
(* appends its trace, looks at the list the append returned and, if that is   *)
(* over the cap, writes the newest part of it back. The console appends too.  *)
(***************************************************************************)
EXTENDS Naturals, Sequences, FiniteSets

CONSTANTS
  Runs,           \* agent runs on the case, each with one trace
  Posts,          \* traces the console posts
  MaxTraces,      \* MAX_TRACES, at which the list is cut
  MaxConcurrent,  \* runs that may save at the same time: the queue gives a case one,
                  \* interactive chat and runs their invoker gave up on come on top
  MaxFaults       \* bound: failed requests and dying runtimes

ASSUME TraceStoreAssumption ==
  /\ Runs \cap Posts = {}
  /\ MaxTraces \in Nat \ {0}
  /\ {MaxConcurrent, MaxFaults} \subseteq Nat

Traces == Runs \cup Posts

VARIABLES
  traces,     \* agent_traces
  dropped,    \* traces_dropped
  summary,    \* the row has a cost_summary for the append to add to
  save,       \* where each run stands in saving its trace
  seen,       \* per run, the list its append returned
  history,    \* history: every trace ever appended, in order
  overtaken,  \* history: runs whose list was changed after their append returned it
  raced,      \* history: such a run has written its list back
  faults

tvars == <<traces, dropped, summary, save, seen, history, overtaken, raced, faults>>

Saving == {"idle", "prepared", "capping", "done"}

TraceTypeOK ==
  /\ traces \in Seq(Traces)
  /\ dropped \in Nat
  /\ summary \in BOOLEAN
  /\ save \in [Runs -> Saving]
  /\ seen \in [Runs -> Seq(Traces)]
  /\ \A r \in Runs : save[r] = "capping" => Len(seen[r]) > MaxTraces
  /\ history \in Seq(Traces)
  /\ overtaken \subseteq Runs
  /\ raced \in BOOLEAN
  /\ faults \in Nat

TraceInit ==
  /\ traces = <<>>
  /\ dropped = 0
  /\ summary = FALSE
  /\ save = [r \in Runs |-> "idle"]
  /\ seen = [r \in Runs |-> <<>>]
  /\ history = <<>>
  /\ overtaken = {}
  /\ raced = FALSE
  /\ faults = MaxFaults

Fault == faults > 0 /\ faults' = faults - 1
Advance(r, from, to) == save[r] = from /\ save' = [save EXCEPT ![r] = to]
Active == {r \in Runs : save[r] \in {"prepared", "capping"}}
Capping == {r \in Runs : save[r] = "capping"}

-----------------------------------------------------------------------------
(* The first update makes cost_summary if it is not there; its failure is ignored. *)
Prepare(r) ==
  /\ Cardinality(Active) < MaxConcurrent
  /\ Advance(r, "idle", "prepared")
  /\ \/ summary' = TRUE /\ UNCHANGED faults
     \/ Fault /\ UNCHANGED summary
  /\ UNCHANGED <<traces, dropped, seen, history, overtaken, raced>>

(* Add a trace to the list; whoever holds an older copy of it is overtaken. *)
Push(x) ==
  /\ traces' = Append(traces, x)
  /\ history' = Append(history, x)
  /\ overtaken' = overtaken \cup Capping

Excess(list) == IF Len(list) > MaxTraces THEN Len(list) - MaxTraces ELSE 0

AppendTrace(r) ==
  /\ summary
  /\ Push(r)
  /\ seen' = [seen EXCEPT ![r] = traces']
  /\ Advance(r, "prepared", IF Excess(traces') > 0 THEN "capping" ELSE "done")
  /\ UNCHANGED <<dropped, summary, raced, faults>>

(* Mutant of CapTraces: the slice is taken from the wrong end. *)
CapKeepsOldest(r) ==
  LET n == Excess(seen[r]) IN
  /\ Advance(r, "capping", "done")
  /\ traces' = SubSeq(seen[r], 1, Len(seen[r]) - n)
  /\ dropped' = dropped + n
  /\ overtaken' = overtaken \cup (Capping \ {r})
  /\ raced' = (raced \/ r \in overtaken)
  /\ UNCHANGED <<summary, seen, history, faults>>

(* cap_traces and the write of what it keeps. *)
CapTraces(r) ==
  LET n == Excess(seen[r]) IN
  /\ Advance(r, "capping", "done")
  /\ traces' = SubSeq(seen[r], n + 1, Len(seen[r]))
  /\ dropped' = dropped + n
  /\ overtaken' = overtaken \cup (Capping \ {r})
  /\ raced' = (raced \/ r \in overtaken)
  /\ UNCHANGED <<summary, seen, history, faults>>

(* A request fails and the exception ends the save, or the runtime dies. Without a
   cost_summary the append itself is what fails. *)
SaveFails(r) ==
  /\ r \in Active
  /\ IF save[r] = "prepared" /\ ~summary THEN UNCHANGED faults ELSE Fault
  /\ save' = [save EXCEPT ![r] = "done"]
  /\ UNCHANGED <<traces, dropped, summary, seen, history, overtaken, raced>>

(* POST /cases/{id}/traces: an append, and no look at the cap. *)
PostTrace(p) ==
  /\ \A i \in DOMAIN history : history[i] # p
  /\ Push(p)
  /\ UNCHANGED <<dropped, summary, save, seen, raced, faults>>

Save(r) == Prepare(r) \/ AppendTrace(r) \/ CapTraces(r) \/ SaveFails(r)

TraceNext ==
  \/ \E r \in Runs : Save(r)
  \/ \E p \in Posts : PostTrace(p)

TraceSpec == TraceInit /\ [][TraceNext]_tvars

-----------------------------------------------------------------------------
(* As long as no run has written back a list that somebody else had changed, the row
   holds exactly the newest traces and the counter says how many came before them,
   whatever crashed on the way and however far past the cap the list has grown. *)
NewestAreKept ==
  ~raced => traces = SubSeq(history, dropped + 1, Len(history))

(* Even when runs race, the list stays in the order in which the traces were saved
   and holds none of them twice. *)
Before(x, y) ==
  \E i, j \in DOMAIN history : i < j /\ history[i] = x /\ history[j] = y
TracesStayInOrder ==
  \A i, j \in DOMAIN traces : i < j => Before(traces[i], traces[j])

(* Once the cap is reached the list never shrinks below it: a run that caps a list it
   read before others wrote may lose their traces, but never more than it adds. *)
CapKeepsAFullList ==
  [][Len(traces) >= MaxTraces => Len(traces') >= MaxTraces]_tvars

-----------------------------------------------------------------------------
(* basic_agent.py:1014: the write-back is "safe because SQS FIFO serialises invocations
   per case_id". Chat runs on the case save through the same code and are not queued. *)
DropsAreCounted == Len(traces) + dropped = Len(history)
=============================================================================
