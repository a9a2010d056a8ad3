----------------------------- MODULE EventFolds -----------------------------
(***************************************************************************)
(* The four readers of a run's AG-UI events. The runtime folds them into    *)
(* the trace's segments, the console folds them into live tool calls, the   *)
(* invoker scans them for the terminal marker; the chat page later replays  *)
(* the persisted segments. Text is one event however long, so what a        *)
(* message says is not kept; which calls there are, what became of them and *)
(* how the run ended is.                                                    *)
(***************************************************************************)
EXTENDS Naturals, Sequences, SequencesExt

Text         == [type |-> "TEXT"]
Start(t)     == [type |-> "START", id |-> t]
Args(t)      == [type |-> "ARGS", id |-> t]
Result(t, s) == [type |-> "RESULT", id |-> t, status |-> s]
Snapshot(T)  == [type |-> "SNAPSHOT", answered |-> T]
Started      == [type |-> "STARTED"]
Finished     == [type |-> "FINISHED"]
Error(c)     == [type |-> "ERROR", code |-> c]

IsTerminal(e) == e.type \in {"FINISHED", "ERROR"}
DeliberateStop == {"MAX_TURNS_REACHED", "MAX_TOKENS_REACHED"}

-----------------------------------------------------------------------------
(* Segments of the trace. *)

ToolSegment(t) == [type |-> "tool", id |-> t, input |-> FALSE, result |-> FALSE,
                   status |-> "none", evidence |-> "none"]
TextSegment == [type |-> "text"]

LastMatch(segs, t) ==
  SelectLastInSeq(segs, LAMBDA s : s.type = "tool" /\ s.id = t)

(* A fragment of text joins the text before it, a call opens a segment, and what comes
   for a call nobody opened is dropped. *)
Accumulate(segs, e) ==
  CASE e.type = "TEXT"  -> IF segs # <<>> /\ Last(segs).type = "text" THEN segs
                           ELSE Append(segs, TextSegment)
    [] e.type = "START" -> Append(segs, ToolSegment(e.id))
    [] e.type \in {"ARGS", "RESULT"} /\ LastMatch(segs, e.id) > 0 ->
         IF e.type = "ARGS" THEN [segs EXCEPT ![LastMatch(segs, e.id)].input = TRUE]
                            ELSE [segs EXCEPT ![LastMatch(segs, e.id)].result = TRUE]
    [] OTHER -> segs

(* merge_evidence: what the hook collected for a call is attached to its segment. *)
Merge(segs, hook) ==
  [i \in DOMAIN segs |->
     IF segs[i].type = "tool" /\ segs[i].id \in DOMAIN hook
     THEN [segs[i] EXCEPT !.status = hook[segs[i].id].status,
                          !.evidence = hook[segs[i].id].evidence]
     ELSE segs[i]]

-----------------------------------------------------------------------------
(* The console's live projection: the status of each call, and the error shown. *)

NoProjection == [calls |-> <<>>, error |-> "none"]

Shown(p, t, s) == [p EXCEPT !.calls = [u \in DOMAIN p.calls \cup {t} |->
                                         IF u = t THEN s ELSE p.calls[u]]]
Unresolved == {"streaming", "executing"}
SettleCalls(p) == [p EXCEPT !.calls = [t \in DOMAIN p.calls |->
                     IF p.calls[t] \in Unresolved THEN "incomplete" ELSE p.calls[t]]]

(* Mutant of Answer: a snapshot reports every answered call as complete. *)
AnswerErases(p, t) == "complete"

(* A tool message carries no status; a failure already reported stays. *)
Answer(p, t) == IF p.calls[t] = "error" THEN "error" ELSE "complete"

(* reduceAguiEvent; a stream that breaks is settled the same way. The adapter's
   snapshot repeats the calls answered so far. *)
Reduce(p, e) ==
  CASE e.type = "START" -> IF e.id \in DOMAIN p.calls THEN p ELSE Shown(p, e.id, "streaming")
    [] e.type = "RESULT" -> Shown(p, e.id, IF e.status = "error" THEN "error" ELSE "complete")
    [] e.type = "SNAPSHOT" ->
         [p EXCEPT !.calls = [t \in DOMAIN p.calls |->
            IF t \in e.answered THEN Answer(p, t) ELSE p.calls[t]]]
    [] e.type = "ERROR" -> [SettleCalls(p) EXCEPT !.error =
                              IF p.error = "none" THEN e.code ELSE p.error]
    [] e.type = "FINISHED" -> SettleCalls(p)
    [] OTHER -> p

-----------------------------------------------------------------------------
(* _drain_stream: the markers seen, a deliberate stop outranking a failure and a failure
   outranking a completion. *)
Drain(wire) ==
  LET codes == {wire[i].code : i \in {j \in DOMAIN wire : wire[j].type = "ERROR"}}
      types == {wire[i].type : i \in DOMAIN wire}
  IN CASE codes \cap DeliberateStop # {} -> "stopped"
       [] codes \cap DeliberateStop = {} /\ "ERROR" \in types -> "failed"
       [] "ERROR" \notin types /\ "FINISHED" \in types -> "finished"
       [] OTHER -> "none"

(* segmentStatus: the status the case timeline gives it. *)
Timeline(seg) == IF seg.status = "error" THEN "error" ELSE "complete"
=============================================================================
