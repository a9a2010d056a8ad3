----------------------------- MODULE AgentStream -----------------------------
(***************************************************************************)
(* One request to the agent runtime, from the first check to the saved      *)
(* trace. event_generator sets the run up, starts a producer task that      *)
(* pulls events out of the adapter, forwards what it queues, and files the  *)
(* trace whichever way the run ends. The producer may be ahead of the       *)
(* consumer; the hooks run with the producer, the bookkeeping with the      *)
(* consumer; the peer may leave at any moment. Heartbeats are comments on   *)
(* the wire that change nothing here.                                       *)
(***************************************************************************)
EXTENDS AgentRequest, Evidence, EventFolds

CONSTANTS
  Requests,   \* requests the runtime may be sent
  MaxCalls,   \* bound: tool calls of a run
  MaxLag,     \* bound: events the producer is ahead of the consumer
  Work,       \* what a call may be: its tool, the sentences its result shows,
              \* and the spans quoted in its arguments
  Injected,   \* sentences of the SOP document a run is given
  TurnLimit,  \* max_turns of the skill
  MaxFaults,  \* bound: adapter failures, hook failures, failed saves
  MaxNoise    \* bound: text fragments of the model

ASSUME StreamAssumption ==
  /\ TurnLimit \in Nat /\ MaxCalls \in Nat /\ MaxLag \in Nat
  /\ MaxFaults \in Nat /\ MaxNoise \in Nat
  /\ \A w \in Work : w.tool \in STRING /\ \A s \in w.spans : s.chars \in Nat

VARIABLES
  req,       \* the request in hand
  pc,        \* where event_generator stands
  source,    \* the adapter and the producer task that drains it
  calls,     \* the calls made so far, by id, and what came of them
  turns,     \* MaxTurnsHook: model calls, and whether it cancelled the agent
  hook,      \* EvidenceHook: records by call id, and the citation baseline
  queue,     \* the asyncio queue between the tasks and the consumer
  run,       \* started_emitted, terminal_emitted, outcome
  segments,  \* segments accumulated for the trace
  wire,      \* events the peer has received
  console,   \* the projection a console peer holds
  link,      \* "open", or "cut" once the peer is gone
  flagged,   \* the case was moved to manual review
  saved,     \* the trace in the cases table
  budget     \* what the bounds leave

tasks == <<source, calls, turns, hook>>
vars  == <<req, pc, source, calls, turns, hook, queue, run, segments, wire,
           console, link, flagged, saved, budget>>

Codes == {"STRANDS_ERROR", "STRANDS_MAX_TOKENS", "MAX_TURNS_REACHED",
          "MAX_TOKENS_REACHED", "AGENT_INTERNAL_ERROR", "AGENT_STREAM_INCOMPLETE",
          "SOP_LOAD_ERROR", "ERP_AGENT_ERROR"}
End == [type |-> "END"]
NoTrace == [outcome |-> "unfiled", segments |-> <<>>]

TypeOK ==
  /\ req \in Requests
  /\ pc \in {"starting", "streaming", "saving", "ended"}
  /\ source \in {"idle", "opened", "model", "tools", "closed", "ended", "raised", "cancelled"}
  /\ Len(calls) <= MaxCalls
  /\ turns.count \in 0..TurnLimit + 1 /\ turns.cancelled \in BOOLEAN
  /\ DOMAIN hook.seen \subseteq DOMAIN calls
  /\ run.outcome \in {"unknown", "complete", "cancelled", "error"}
  /\ run.started \in BOOLEAN /\ run.terminal \in BOOLEAN
  /\ \A i \in DOMAIN wire : wire[i].type = "ERROR" => wire[i].code \in Codes
  /\ link \in {"open", "cut"} /\ flagged \in BOOLEAN
  /\ saved = NoTrace \/ saved.segments # <<>>

Init ==
  /\ req \in Requests
  /\ pc = "starting" /\ source = "idle"
  /\ calls = <<>>
  /\ turns = [count |-> 0, cancelled |-> FALSE]
  /\ hook = [seen |-> <<>>, baseline |-> {}]
  /\ queue = <<>> /\ segments = <<>> /\ wire = <<>>
  /\ run = [started |-> FALSE, terminal |-> FALSE, outcome |-> "unknown"]
  /\ console = NoProjection
  /\ link = "open" /\ flagged = FALSE
  /\ saved = NoTrace
  /\ budget = [faults |-> MaxFaults, noise |-> MaxNoise]

Fault == budget.faults > 0 /\ budget' = [budget EXCEPT !.faults = @ - 1]
Noise == budget.noise > 0 /\ budget' = [budget EXCEPT !.noise = @ - 1]

-----------------------------------------------------------------------------
(* What reaches the peer. The flags are set before the yield they announce, so a peer
   that leaves at the yield has missed an event the bookkeeping has counted. *)

Cancelled == IF source \in {"ended", "raised", "idle"} THEN source ELSE "cancelled"

Send(es, next) ==
  \/ /\ wire' = wire \o es
     /\ console' = FoldLeft(Reduce, console, es)
     /\ pc' = next
     /\ UNCHANGED <<source, link>>
  \/ /\ es # <<>>
     /\ \E n \in 0..Len(es) - 1 : /\ wire' = wire \o SubSeq(es, 1, n)
                                  /\ console' = FoldLeft(Reduce, console, SubSeq(es, 1, n))
     /\ link' = "cut" /\ pc' = "saving" /\ source' = Cancelled

(* Mutants of Closing: a failure is announced whatever was sent before; a stream that
   ends without a terminal event is left as it is. *)
ClosingAgain(code) ==
  (IF run.started THEN <<>> ELSE <<Started>>) \o <<Error(code)>>
ClosingSilently(code) ==
  IF code = "AGENT_STREAM_INCOMPLETE" \/ run.terminal THEN <<>>
  ELSE (IF run.started THEN <<>> ELSE <<Started>>) \o <<Error(code)>>

(* What an ending without the adapter's help adds: the start if there was none, and
   the error if no terminal event has been sent. *)
Closing(code) ==
  (IF run.started \/ code = "AGENT_STREAM_INCOMPLETE" THEN <<>> ELSE <<Started>>)
    \o (IF run.terminal THEN <<>> ELSE <<Error(code)>>)

(* The three endings of the try block that the code itself announces. *)
Fail(code) ==
  /\ run' = [started |-> TRUE, terminal |-> TRUE, outcome |-> "error"]
  /\ Send(Closing(code), "saving")

Unreadable == SetUp(req).why = "sop_unreadable"

(* A SOP that cannot be read also flags the case the payload names, best effort. *)
SetUpFails ==
  /\ pc = "starting" /\ ~SetUp(req).ok
  /\ Fail(IF Unreadable THEN "SOP_LOAD_ERROR" ELSE "ERP_AGENT_ERROR")
  /\ \/ flagged' = (Unreadable /\ FiledCase(req) # "none") /\ UNCHANGED budget
     \/ Unreadable /\ Fault /\ UNCHANGED flagged
  /\ UNCHANGED <<req, calls, turns, hook, queue, segments, saved>>

(* What the run is given to read: the document in the assembled prompt; on the
   discovery path nothing. *)
Given == IF SetUp(req).ok /\ SetUp(req).skill = "sop" THEN Injected ELSE {}

(* The agent exists and both tasks run. *)
BeginStream ==
  /\ pc = "starting" /\ SetUp(req).ok
  /\ pc' = "streaming" /\ source' = "opened"
  /\ UNCHANGED <<req, calls, turns, hook, queue, run, segments, wire, console, link,
                 flagged, saved, budget>>

-----------------------------------------------------------------------------
(* The adapter, as _produce drains it. *)

Pending == {t \in DOMAIN calls : calls[t].stage # "answered"}
Put(es) == Len(queue) < MaxLag /\ queue' = queue \o es
Consumer == <<req, pc, run, segments, wire, console, link, flagged, saved>>

(* Containers are warm: each invocation resets both hooks. *)
AdapterStarts ==
  /\ source = "opened"
  /\ source' = "tools"
  /\ Put(<<Started>>)
  /\ turns' = [count |-> 0, cancelled |-> FALSE]
  /\ hook' = [seen |-> <<>>, baseline |-> Given]
  /\ UNCHANGED <<calls, budget, Consumer>>

(* Before every model call the turn hook counts it, and cancels the agent past the limit. *)
ModelCall ==
  LET over == turns.count + 1 > TurnLimit IN
  /\ source = "tools" /\ Pending = {} /\ ~turns.cancelled
  /\ turns' = [count |-> turns.count + 1, cancelled |-> over]
  /\ source' = IF over THEN "tools" ELSE "model"
  /\ UNCHANGED <<calls, hook, queue, budget, Consumer>>

Say ==
  /\ source = "model" /\ Noise
  /\ Put(<<Text>>)
  /\ UNCHANGED <<tasks, Consumer>>

Call(w) ==
  LET t == Len(calls) + 1 IN
  /\ source = "model" /\ t <= MaxCalls
  /\ calls' = Append(calls, [work |-> w, stage |-> "called", status |-> "none"])
  /\ Put(<<Start(t), Args(t)>>)
  /\ UNCHANGED <<source, turns, hook, budget, Consumer>>

ModelStops ==
  /\ source = "model" /\ Pending # {}
  /\ source' = "tools"
  /\ UNCHANGED <<calls, turns, hook, queue, budget, Consumer>>

(* The sentences in a result; the text of a failure quotes no SOP. *)
Shows(t, s) == IF s = "success" THEN calls[t].work.shows ELSE {}
Seen(t, s) ==
  [u \in DOMAIN hook.seen \cup {t} |->
     IF u # t THEN hook.seen[u]
     ELSE [status   |-> s,
           evidence |-> Extract(calls[t].work.tool, calls[t].work.spans, s, FALSE,
                                hook.baseline)]]

(* Mutant of HookSees: whatever a tool returns joins the baseline. *)
HookSeesAll(t, s) == hook' = [seen |-> Seen(t, s), baseline |-> hook.baseline \cup Shows(t, s)]

(* on_tool_call: the evidence is graded against what was shown before this call ended,
   and a lookup's result, a failed one's too, then joins the baseline. *)
HookSees(t, s) ==
  hook' = [seen |-> Seen(t, s),
           baseline |-> IF KindOf(calls[t].work.tool) = "sop_lookup"
                        THEN hook.baseline \cup Shows(t, s) ELSE hook.baseline]

(* A tool returns; a hook that raises is swallowed and records nothing. *)
ToolReturns(t, s) ==
  /\ source = "tools" /\ t \in Pending /\ calls[t].stage = "called"
  /\ calls' = [calls EXCEPT ![t].stage = "returned", ![t].status = s]
  /\ \/ HookSees(t, s) /\ UNCHANGED budget
     \/ Fault /\ UNCHANGED hook
  /\ UNCHANGED <<source, turns, queue, Consumer>>

(* The adapter emits the result and splices a snapshot of the answered calls after it. *)
Answers(t) ==
  /\ source = "tools" /\ t \in Pending /\ calls[t].stage = "returned"
  /\ calls' = [calls EXCEPT ![t].stage = "answered"]
  /\ Put(<<Result(t, "none"),
           Snapshot({u \in DOMAIN calls : calls[u].stage = "answered"} \cup {t})>>)
  /\ UNCHANGED <<source, turns, hook, budget, Consumer>>

Finish ==
  /\ \/ source = "model" /\ Pending = {}
     \/ source = "tools" /\ turns.cancelled
  /\ source' = "closed"
  /\ Put(<<Finished>>)
  /\ UNCHANGED <<calls, turns, hook, budget, Consumer>>

AdapterFails(code) ==
  /\ source \in {"model", "tools"} /\ Fault
  /\ source' = "closed"
  /\ Put(<<Error(code)>>)
  /\ UNCHANGED <<calls, turns, hook, Consumer>>

(* Mutant of Drained: the sentinel is put after the loop, not in its finally. *)
DrainedOnSuccess(how) ==
  /\ source' = how
  /\ IF how = "ended" THEN Put(<<End>>) ELSE UNCHANGED queue

(* The producer's finally clause: the sentinel is put however the adapter ended. *)
Drained(how) == source' = how /\ Put(<<End>>)

AdapterEnds ==
  /\ source = "closed"
  /\ Drained("ended")
  /\ UNCHANGED <<calls, turns, hook, budget, Consumer>>

(* An exception out of the adapter, before its first event or after its last one, or an
   end without a terminal event. *)
AdapterBreaks(how) ==
  /\ source \in {"opened", "model", "tools", "closed"} /\ Fault
  /\ how = "ended" => source \in {"model", "tools"}
  /\ Drained(how)
  /\ UNCHANGED <<calls, turns, hook, Consumer>>

-----------------------------------------------------------------------------
(* The consumer: the body of the loop over _with_keepalive. *)

(* Mutant of Rewritten: the turn limit's end passes for a finish. *)
RewrittenNever(e) == e

(* A finish after the turn hook cancelled the agent is a deliberate stop. *)
Rewritten(e) == IF e.type = "FINISHED" /\ turns.cancelled
                THEN Error("MAX_TURNS_REACHED") ELSE e

(* _sanitized_run_error: the adapter's own codes never reach the peer. *)
Sanitized(e) ==
  CASE e.code = "STRANDS_ERROR"      -> Error("AGENT_INTERNAL_ERROR")
    [] e.code = "STRANDS_MAX_TOKENS" -> Error("MAX_TOKENS_REACHED")
    [] OTHER                         -> e

StatusFor(t) == IF t \in DOMAIN hook.seen THEN hook.seen[t].status ELSE "none"

Outgoing(e) ==
  CASE e.type = "ERROR"  -> Sanitized(e)
    [] e.type = "RESULT" -> Result(e.id, StatusFor(e.id))
    [] OTHER             -> e

Bookkeeping(e) ==
  CASE e.type = "STARTED"  -> [run EXCEPT !.started = TRUE]
    [] e.type = "FINISHED" -> [run EXCEPT !.outcome = "complete", !.terminal = TRUE]
    [] e.type = "ERROR"    -> [run EXCEPT !.terminal = TRUE, !.outcome =
                                 IF turns.cancelled THEN "cancelled" ELSE "error"]
    [] OTHER               -> run

Forward ==
  LET e == Rewritten(Head(queue)) IN
  /\ pc = "streaming" /\ queue # <<>> /\ Head(queue) # End
  /\ queue' = Tail(queue)
  /\ segments' = Accumulate(segments, e)
  /\ run' = Bookkeeping(e)
  /\ Send(<<Outgoing(e)>>, "streaming")
  /\ UNCHANGED <<req, calls, turns, hook, flagged, saved, budget>>

(* The sentinel: a failure of the source is raised here, a source that ended without a
   terminal event gets one. *)
LoopEnds ==
  /\ pc = "streaming" /\ queue # <<>> /\ Head(queue) = End
  /\ queue' = Tail(queue)
  /\ CASE source = "raised" -> Fail("ERP_AGENT_ERROR")
       [] source # "raised" /\ ~run.terminal -> Fail("AGENT_STREAM_INCOMPLETE")
       [] OTHER -> /\ pc' = "saving"
                   /\ UNCHANGED <<run, wire, console, source, link>>
  /\ UNCHANGED <<req, calls, turns, hook, segments, flagged, saved, budget>>

(* The peer leaves while the generator waits: the producer is cancelled. *)
PeerLeaves ==
  /\ pc = "streaming"
  /\ link' = "cut" /\ pc' = "saving" /\ source' = Cancelled
  /\ UNCHANGED <<req, calls, turns, hook, queue, run, segments, wire, console, flagged,
                 saved, budget>>

(* The finally clause: a trace is filed if anything was accumulated and the payload
   named a case, with whatever outcome the bookkeeping has reached. *)
Save ==
  /\ pc = "saving" /\ pc' = "ended"
  /\ IF segments # <<>> /\ FiledCase(req) # "none"
     THEN \/ /\ saved' = [outcome |-> run.outcome, segments |-> Merge(segments, hook.seen)]
             /\ UNCHANGED budget
          \/ Fault /\ UNCHANGED saved
     ELSE UNCHANGED <<saved, budget>>
  /\ UNCHANGED <<req, tasks, queue, run, segments, wire, console, link, flagged>>

-----------------------------------------------------------------------------
Adapter ==
  \/ AdapterStarts
  \/ ModelCall
  \/ Say
  \/ \E w \in Work : Call(w)
  \/ ModelStops
  \/ \E t \in 1..MaxCalls, s \in {"success", "error"} : ToolReturns(t, s)
  \/ \E t \in 1..MaxCalls : Answers(t)
  \/ Finish
  \/ AdapterEnds

Failures ==
  \/ \E code \in {"STRANDS_ERROR", "STRANDS_MAX_TOKENS"} : AdapterFails(code)
  \/ \E how \in {"raised", "ended"} : AdapterBreaks(how)
  \/ PeerLeaves

Generator == SetUpFails \/ BeginStream \/ Forward \/ LoopEnds \/ Save

Next == Adapter \/ Failures \/ Generator

Spec == Init /\ [][Next]_vars

(* Fairness: the event loop runs its ready tasks, and the adapter goes on until it
   ends: its tool calls time out and its model calls are bounded by the turn hook. The
   model speaks and fails as it likes. *)
FairSpec == Spec /\ WF_vars(Generator) /\ WF_vars(Adapter)

-----------------------------------------------------------------------------
(* AG-UI has three events a client relies on: a run starts once, first, and ends once,
   last. Nothing follows the terminal event, whether the adapter's, the turn limit's or
   one the except clauses add, and however late an exception comes. *)
WireIsWellFormed ==
  \A i \in DOMAIN wire : /\ IsTerminal(wire[i]) => i = Len(wire)
                         /\ wire[i].type = "STARTED" <=> i = 1

(* The trace an auditor reads and the stream the invoker acted on tell one story. With a
   peer that stayed: a run cut short by the turn limit never reads as finished, and
   the trace says complete exactly if the stream said finished and nothing broke after. *)
VerdictsAgree ==
  pc = "ended" /\ link = "open" =>
    /\ Drain(wire) = "finished" => ~turns.cancelled
    /\ saved # NoTrace =>
         (saved.outcome = "complete" <=> Drain(wire) = "finished" /\ source # "raised")

(* "... so a failed call renders as failed while streaming, not only after a reload":
   once the run is over, a call whose result was streamed and recorded looks the same in
   the live console and in the case's timeline, and one without a result is not green. *)
LiveAgrees ==
  pc = "ended" /\ link = "open" =>
    \A i \in DOMAIN saved.segments :
      LET seg == saved.segments[i] IN
      seg.type = "tool" =>
        /\ seg.result /\ seg.status # "none" => console.calls[seg.id] = Timeline(seg)
        /\ ~seg.result => console.calls[seg.id] \in {"streaming", "executing", "incomplete"}

(* A quotation counts as verified exactly if some gradeable span of it is in the SOP the
   run was given or in what a lookup of this run had returned by then; text a run got
   from SAP never vouches for it. The ground truth is calls, not the hook's baseline. *)
Lookups == {t \in DOMAIN calls : KindOf(calls[t].work.tool) = "sop_lookup"
                                 /\ calls[t].status = "success"}
CitationsAreShown ==
  \A t \in DOMAIN hook.seen :
    LET cited == hook.seen[t].evidence.citation
        sound == {s.says : s \in {x \in calls[t].work.spans : Gradeable(x)}}
    IN /\ cited.verified =>
            cited.quote \in sound \cap (Given \cup UNION {calls[u].work.shows : u \in Lookups})
       /\ hook.seen[t].evidence.kind = "notification" /\ sound \cap Given # {} =>
            cited.verified

(* Every request ends, with its producer drained or cancelled: no failure of the adapter,
   of a hook or of the peer leaves the consumer waiting on its queue for ever. *)
StreamEnds == <>(pc = "ended" /\ source \in {"idle", "ended", "raised", "cancelled"})

(* The stream implements what the rest of the system is promised of a run. *)
Promise == INSTANCE AgentRun WITH
  Unfiled <- "unfiled",
  verdict <- IF Drain(wire) # "none" THEN Drain(wire)
             ELSE IF link = "cut" THEN "cut" ELSE "running",
  filed   <- saved.outcome
KeepsItsPromise == Promise!Spec

=============================================================================
