-------------------------- MODULE AgentStream_proofs --------------------------
(***************************************************************************)
(* For every set of requests, every work a call may be and every bound: the  *)
(* wire of a run is well formed, the trace agrees with the wire, the stream   *)
(* keeps what AgentRun promises of a run, and the live console shows a call   *)
(* as the saved timeline does. One picture carries all of it: what the peer   *)
(* has received followed by what is still queued for it is one sequence of    *)
(* events, which starts once, first, and ends once, last.                     *)
(***************************************************************************)
EXTENDS AgentStream, SequenceTheorems, FiniteSetTheorems, WellFoundedInduction, TLAPS

(* Everything that is ever queued or sent. *)
Statuses == {"none", "success", "error"}
Event ==
  {Text, Started, Finished, End}
    \cup {Start(t) : t \in Nat} \cup {Args(t) : t \in Nat}
    \cup {Result(t, s) : t \in Nat, s \in Statuses}
    \cup {Snapshot(T) : T \in SUBSET Nat} \cup {Error(c) : c \in Codes}

Segment ==
  {TextSegment} \cup [type : {"tool"}, id : Nat, input : BOOLEAN, result : BOOLEAN,
                     status : {"none"}, evidence : {"none"}]

Producing == {"opened", "model", "tools", "closed", "ended", "raised"}
Settled   == {"idle", "ended", "raised", "cancelled"}

CallState == [work : Work, stage : {"called", "returned", "answered"}, status : Statuses]

(* The values of the variables, as far as the proofs need them. *)
StreamTypes ==
  /\ req \in Requests
  /\ pc \in {"starting", "streaming", "saving", "ended"}
  /\ source \in {"idle", "cancelled"} \cup Producing
  /\ calls \in Seq(CallState)
  /\ Len(calls) <= MaxCalls
  /\ turns \in [count : 0..TurnLimit + 1, cancelled : BOOLEAN]
  /\ ~turns.cancelled => turns.count <= TurnLimit
  /\ DOMAIN hook.seen \subseteq DOMAIN calls
  /\ \A t \in DOMAIN hook.seen : hook.seen[t].status \in Statuses
  /\ queue \in Seq(Event) /\ wire \in Seq(Event)
  /\ run \in [started : BOOLEAN, terminal : BOOLEAN,
              outcome : {"unknown", "complete", "cancelled", "error"}]
  /\ segments \in Seq(Segment)
  /\ link \in {"open", "cut"} /\ flagged \in BOOLEAN

Ended(w)  == Len(w) > 0 /\ IsTerminal(w[Len(w)])
EndsOk(w) == Len(w) > 0 /\ w[Len(w)].type = "FINISHED"

(* Nothing has happened before the run is set up. *)
StartingInv ==
  pc = "starting" =>
    /\ source = "idle" /\ wire = <<>> /\ queue = <<>> /\ link = "open"
    /\ ~run.started /\ ~run.terminal /\ run.outcome = "unknown" /\ ~turns.cancelled

(* While it streams, wire and queue are the two parts of one run's events, and how far
   they go is where the source stands. *)
QueueInv ==
  /\ \A j \in 1..Len(queue) :
       /\ queue[j].type = "STARTED" => j = 1 /\ Len(wire) = 0
       /\ IsTerminal(queue[j]) => \/ j = Len(queue)
                                  \/ j = Len(queue) - 1 /\ queue[Len(queue)] = End
       /\ queue[j] = End => j = Len(queue) /\ source \in {"ended", "raised"}
  /\ Len(wire) = 0 /\ Len(queue) > 0 => queue[1].type \in {"STARTED", "END"}
  /\ Ended(wire) => Len(queue) = 0 \/ (Len(queue) = 1 /\ queue[1] = End)

SourceInv ==
  /\ source \in Producing
  /\ source = "opened" => Len(wire) = 0 /\ Len(queue) = 0
  /\ source \in {"model", "tools"} =>
       ~Ended(wire) /\ \A j \in 1..Len(queue) : ~IsTerminal(queue[j])
  /\ source \in {"model", "tools", "closed"} => Len(wire) > 0 \/ Len(queue) > 0
  /\ source \in {"ended", "raised"} => Len(queue) > 0 /\ queue[Len(queue)] = End
  /\ source = "ended" => Len(wire) > 0 \/ Len(queue) > 1

(* The flags of the generator tell what the peer has received. *)
FlagsInv ==
  /\ run.started <=> Len(wire) > 0
  /\ run.terminal <=> Ended(wire)
  /\ run.outcome = "complete" <=> EndsOk(wire)

StreamingInv ==
  pc = "streaming" => link = "open" /\ QueueInv /\ SourceInv /\ FlagsInv

(* Afterwards both tasks are over, and a peer that stayed has its terminal event. *)
OverInv ==
  pc \in {"saving", "ended"} =>
    /\ source \in Settled
    /\ link = "open" => /\ Ended(wire)
                        /\ run.outcome = "complete" <=> EndsOk(wire) /\ source # "raised"

OutcomeInv ==
  /\ run.outcome = "unknown" => ~Ended(wire)
  /\ run.outcome = "complete" /\ Ended(wire) => EndsOk(wire)
  /\ EndsOk(wire) => ~turns.cancelled

SavedInv ==
  /\ pc # "ended" => saved = NoTrace
  /\ saved # NoTrace => saved.outcome = run.outcome /\ saved.segments # <<>>

WireInv == /\ WireIsWellFormed
           /\ \A i \in 1..Len(wire) : wire[i] # End

StreamInv == /\ StreamTypes /\ WireInv /\ StartingInv /\ StreamingInv /\ OverInv
             /\ OutcomeInv /\ SavedInv

-----------------------------------------------------------------------------
(* Numbers and sequences. *)

LEMMA NatHasLeast ==
  ASSUME NEW T \in SUBSET Nat, T # {}
  PROVE  \E x \in T : \A y \in T : x <= y
<1> DEFINE U == {0..x : x \in T}
<1>1. \A x \in Nat : 0..x \in FiniteSubsetsOf(Nat)
  BY FS_Interval DEF FiniteSubsetsOf
<1>2. U \subseteq FiniteSubsetsOf(Nat) /\ U # {}
  BY <1>1
<1>3. \E u \in U : \A v \in U : <<v, u>> \notin StrictSubsetOrdering(Nat)
  <2> HIDE DEF U
  <2> QED BY <1>2, FS_StrictSubsetOrderingWellFounded, WFMin
<1>4. PICK x \in T : \A y \in T : <<0..y, 0..x>> \notin StrictSubsetOrdering(Nat)
  BY <1>3
<1>5. ASSUME NEW y \in T, ~ (x <= y) PROVE FALSE
  <2>1. 0..y \subseteq 0..x /\ 0..y # 0..x
    <3>1. x \in 0..x /\ x \notin 0..y
      BY <1>5
    <3> QED BY <3>1, <1>5
  <2>2. 0..y \in FiniteSubsetsOf(Nat) /\ 0..x \in FiniteSubsetsOf(Nat)
    BY <1>1
  <2>3. 0..y \in SUBSET Nat /\ 0..x \in SUBSET Nat
    OBVIOUS
  <2> QED BY <1>4, <2>1, <2>2, <2>3 DEF StrictSubsetOrdering
<1> QED BY <1>5

LEMMA MaxIn ==
  ASSUME NEW n \in Nat, NEW I \in SUBSET (1..n), I # {}
  PROVE  Max(I) \in I /\ \A y \in I : Max(I) >= y
<1> DEFINE T == {n - i : i \in I}
<1>0. PICK k \in I : TRUE
  OBVIOUS
<1>1. T \in SUBSET Nat /\ T # {}
  <2>1. n - k \in T
    BY <1>0
  <2>2. \A i \in I : n - i \in Nat
    OBVIOUS
  <2> QED BY <2>1, <2>2
<1>2. PICK x \in T : \A y \in T : x <= y
  BY <1>1, NatHasLeast
<1>3. PICK i \in I : x = n - i
  BY <1>2
<1>4. \A j \in I : i >= j
  <2> TAKE j \in I
  <2>1. n - j \in T
    OBVIOUS
  <2>2. n - i <= n - j
    BY <1>2, <1>3, <2>1
  <2>3. i \in Int /\ j \in Int
    OBVIOUS
  <2> QED BY <2>2, <2>3
<1>5. QED BY <1>4 DEF Max

LEMMA ConcatParts ==
  ASSUME NEW S, NEW s \in Seq(S), NEW t \in Seq(S)
  PROVE  /\ s \o t \in Seq(S)
         /\ Len(s \o t) = Len(s) + Len(t)
         /\ \A i \in 1..Len(s) : (s \o t)[i] = s[i]
         /\ \A j \in 1..Len(t) : (s \o t)[Len(s) + j] = t[j]
<1>1. Len(s) \in Nat /\ Len(t) \in Nat
  OBVIOUS
<1>2. \A i \in 1..Len(s) + Len(t) :
        (s \o t)[i] = IF i <= Len(s) THEN s[i] ELSE t[i - Len(s)]
  BY ConcatProperties
<1>3. \A j \in 1..Len(t) : /\ Len(s) + j \in 1..Len(s) + Len(t)
                           /\ ~(Len(s) + j <= Len(s)) /\ Len(s) + j - Len(s) = j
  BY <1>1
<1> QED BY <1>1, <1>2, <1>3, ConcatProperties

-----------------------------------------------------------------------------
(* Events, and what becomes of one on its way out. *)

LEMMA EventKind ==
  ASSUME NEW e \in Event
  PROVE  /\ e.type = "END" <=> e = End
         /\ e.type = "ERROR" => e.code \in Codes
         /\ IsTerminal(e) => e.type \notin {"STARTED", "END"}
BY DEF Event, Text, Started, Finished, End, Start, Args, Result, Snapshot, Error, IsTerminal

LEMMA ErrorEvent ==
  ASSUME NEW c \in Codes
  PROVE  Error(c) \in Event /\ Error(c).type = "ERROR" /\ IsTerminal(Error(c)) /\ Error(c) # End
BY DEF Event, Error, IsTerminal, End

LEMMA RewrittenKind ==
  ASSUME NEW e \in Event
  PROVE  LET r == Rewritten(e)
         IN  /\ r \in Event
             /\ r.type = "FINISHED" <=> e.type = "FINISHED" /\ ~turns.cancelled
             /\ IsTerminal(r) <=> IsTerminal(e)
             /\ r.type = "STARTED" <=> e.type = "STARTED"
             /\ r = End <=> e = End
<1>1. CASE e.type = "FINISHED" /\ turns.cancelled
  <2>1. Rewritten(e) = Error("MAX_TURNS_REACHED")
    BY <1>1 DEF Rewritten
  <2>2. QED BY <1>1, <2>1, ErrorEvent, EventKind DEF Codes, IsTerminal, End
<1>2. CASE ~(e.type = "FINISHED" /\ turns.cancelled)
  BY <1>2 DEF Rewritten
<1>3. QED BY <1>1, <1>2

LEMMA OutgoingKind ==
  ASSUME NEW e \in Event,
         \A t \in DOMAIN hook.seen : hook.seen[t].status \in Statuses
  PROVE  LET o == Outgoing(e)
         IN  /\ o \in Event
             /\ o.type = e.type
             /\ IsTerminal(o) <=> IsTerminal(e)
             /\ o = End <=> e = End
<1>1. CASE e.type = "ERROR"
  <2>1. Outgoing(e) = Sanitized(e)
    BY <1>1 DEF Outgoing
  <2>2. Sanitized(e) \in {Error("AGENT_INTERNAL_ERROR"), Error("MAX_TOKENS_REACHED"), e}
    BY DEF Sanitized
  <2>3. QED BY <1>1, <2>1, <2>2, ErrorEvent, EventKind DEF Codes, IsTerminal, End
<1>2. CASE e.type = "RESULT"
  <2>1. Outgoing(e) = Result(e.id, StatusFor(e.id))
    BY <1>2 DEF Outgoing
  <2>2. e.id \in Nat
    BY <1>2 DEF Event, Text, Started, Finished, End, Start, Args, Result, Snapshot, Error
  <2>3. StatusFor(e.id) \in Statuses
    BY DEF StatusFor, Statuses
  <2>4. QED BY <1>2, <2>1, <2>2, <2>3 DEF Event, Result, IsTerminal, End
<1>3. CASE e.type \notin {"ERROR", "RESULT"}
  BY <1>3 DEF Outgoing
<1>4. QED BY <1>1, <1>2, <1>3

-----------------------------------------------------------------------------
(* The two ways in which events travel. *)

(* An event or two are queued behind the others. *)
LEMMA PutEffect ==
  ASSUME queue \in Seq(Event), NEW es \in Seq(Event), Put(es)
  PROVE  /\ queue' \in Seq(Event)
         /\ Len(queue') = Len(queue) + Len(es)
         /\ \A j \in 1..Len(queue) : queue'[j] = queue[j]
         /\ \A j \in 1..Len(es) : queue'[Len(queue) + j] = es[j]
BY ConcatParts DEF Put

LEMMA PutOne ==
  ASSUME queue \in Seq(Event), NEW e \in Event, Put(<<e>>)
  PROVE  /\ queue' \in Seq(Event)
         /\ Len(queue') = Len(queue) + 1
         /\ \A j \in 1..Len(queue) : queue'[j] = queue[j]
         /\ queue'[Len(queue) + 1] = e
<1> DEFINE es == <<e>>
<1>1. es \in Seq(Event) /\ Len(es) = 1 /\ es[1] = e /\ Put(es)
  OBVIOUS
<1> HIDE DEF es
<1>2. /\ queue' \in Seq(Event)
      /\ Len(queue') = Len(queue) + Len(es)
      /\ \A j \in 1..Len(queue) : queue'[j] = queue[j]
      /\ \A j \in 1..Len(es) : queue'[Len(queue) + j] = es[j]
  BY <1>1, PutEffect
<1> QED BY <1>1, <1>2

(* A peer that stays gets all of them, one that leaves some of them, in order. *)
LEMMA SendEffect ==
  ASSUME wire \in Seq(Event), NEW es \in Seq(Event), NEW next, Send(es, next)
  PROVE  \E n \in 0..Len(es) :
           /\ wire' \in Seq(Event)
           /\ Len(wire') = Len(wire) + n
           /\ \A i \in 1..Len(wire) : wire'[i] = wire[i]
           /\ \A i \in 1..n : wire'[Len(wire) + i] = es[i]
           /\ \/ n = Len(es) /\ pc' = next /\ UNCHANGED <<source, link>>
              \/ n < Len(es) /\ pc' = "saving" /\ link' = "cut" /\ source' = Cancelled
<1>1. CASE wire' = wire \o es /\ pc' = next /\ UNCHANGED <<source, link>>
  <2>1. Len(es) \in 0..Len(es)
    OBVIOUS
  <2>2. QED BY <1>1, <2>1, ConcatParts
<1>2. ASSUME NEW n \in 0..Len(es) - 1, wire' = wire \o SubSeq(es, 1, n),
             link' = "cut", pc' = "saving", source' = Cancelled
      PROVE  \E k \in 0..Len(es) :
               /\ wire' \in Seq(Event)
               /\ Len(wire') = Len(wire) + k
               /\ \A i \in 1..Len(wire) : wire'[i] = wire[i]
               /\ \A i \in 1..k : wire'[Len(wire) + i] = es[i]
               /\ k < Len(es) /\ pc' = "saving" /\ link' = "cut" /\ source' = Cancelled
  <2> DEFINE ds == SubSeq(es, 1, n)
  <2>1. /\ ds \in Seq(Event) /\ Len(ds) = n
        /\ \A i \in 1..n : ds[i] = es[i]
    BY SubSeqProperties
  <2>2. wire' = wire \o ds
    BY <1>2
  <2>3. /\ wire' \in Seq(Event) /\ Len(wire') = Len(wire) + n
        /\ \A i \in 1..Len(wire) : wire'[i] = wire[i]
        /\ \A i \in 1..n : wire'[Len(wire) + i] = es[i]
    <3> HIDE DEF ds
    <3>1. /\ wire \o ds \in Seq(Event) /\ Len(wire \o ds) = Len(wire) + Len(ds)
          /\ \A i \in 1..Len(wire) : (wire \o ds)[i] = wire[i]
          /\ \A i \in 1..Len(ds) : (wire \o ds)[Len(wire) + i] = ds[i]
      <4>1. wire \in Seq(Event) /\ ds \in Seq(Event)
        BY <2>1
      <4> QED BY ONLY <4>1, ConcatParts
    <3> QED BY <2>1, <2>2, <3>1
  <2>4. n \in 0..Len(es) /\ n < Len(es)
    OBVIOUS
  <2>5. QED BY <1>2, <2>3, <2>4
<1>3. QED BY <1>1, <1>2 DEF Send

(* A call's last segment is one of its own. *)
LEMMA LastMatchIn ==
  ASSUME NEW segs \in Seq(Segment), NEW t, LastMatch(segs, t) > 0
  PROVE  /\ LastMatch(segs, t) \in 1..Len(segs)
         /\ segs[LastMatch(segs, t)].type = "tool"
         /\ segs[LastMatch(segs, t)].id = t
<1> DEFINE I == {i \in 1..Len(segs) : segs[i].type = "tool" /\ segs[i].id = t}
<1>1. LastMatch(segs, t) = IF I # {} THEN Max(I) ELSE 0
  BY DEF LastMatch, SelectLastInSeq
<1>2. I # {} => Max(I) \in I
  <2>1. Len(segs) \in Nat /\ I \in SUBSET (1..Len(segs))
    OBVIOUS
  <2> HIDE DEF I
  <2> QED BY <2>1, MaxIn
<1>3. Max(I) \in I /\ LastMatch(segs, t) = Max(I)
  BY <1>1, <1>2
<1> QED BY <1>3

LEMMA AccumulateType ==
  ASSUME NEW segs \in Seq(Segment), NEW e \in Event
  PROVE  Accumulate(segs, e) \in Seq(Segment)
<1>1. CASE e.type = "TEXT"
  <2>1. Accumulate(segs, e) \in {segs, Append(segs, TextSegment)}
    BY <1>1 DEF Accumulate
  <2> QED BY <2>1 DEF Segment
<1>2. CASE e.type = "START"
  <2>1. e.id \in Nat
    BY <1>2 DEF Event, Text, Started, Finished, End, Start, Args, Result, Snapshot, Error
  <2>2. ToolSegment(e.id) \in Segment
    BY <2>1 DEF ToolSegment, Segment
  <2> QED BY <1>2, <2>2 DEF Accumulate
<1>3. CASE e.type \in {"ARGS", "RESULT"} /\ LastMatch(segs, e.id) > 0
  <2> DEFINE k == LastMatch(segs, e.id)
  <2>1. k \in 1..Len(segs) /\ segs[k].type = "tool"
    BY <1>3, LastMatchIn
  <2>2. segs[k] \in Segment /\ segs[k] # TextSegment
    BY <2>1 DEF TextSegment
  <2>3. /\ [segs[k] EXCEPT !.input = TRUE] \in Segment
        /\ [segs[k] EXCEPT !.result = TRUE] \in Segment
    BY <2>2 DEF Segment
  <2>4. Accumulate(segs, e) \in {[segs EXCEPT ![k] = [segs[k] EXCEPT !.input = TRUE]],
                                 [segs EXCEPT ![k] = [segs[k] EXCEPT !.result = TRUE]]}
    BY <1>3 DEF Accumulate
  <2>5. \A x \in Segment : [segs EXCEPT ![k] = x] \in Seq(Segment)
    <3> HIDE DEF k
    <3> QED BY <2>1, ExceptSeq
  <2> QED BY <2>3, <2>4, <2>5
<1>4. CASE /\ e.type \notin {"TEXT", "START"}
           /\ ~(e.type \in {"ARGS", "RESULT"} /\ LastMatch(segs, e.id) > 0)
  BY <1>4 DEF Accumulate
<1> QED BY <1>1, <1>2, <1>3, <1>4

-----------------------------------------------------------------------------
(* The adapter and the producer. *)

LEMMA TypesAdapter ==
  ASSUME StreamTypes, Adapter
  PROVE  StreamTypes'
<1> USE StreamAssumption DEF StreamTypes, Consumer, Producing
<1>1. CASE AdapterStarts
  <2>1. <<Started>> \in Seq(Event)
    BY DEF Event
  <2>2. queue' \in Seq(Event)
    BY <1>1, <2>1, PutEffect DEF AdapterStarts
  <2>3. hook'.seen = <<>> /\ DOMAIN hook'.seen = {}
    BY <1>1 DEF AdapterStarts
  <2>4. turns' \in [count : 0..TurnLimit + 1, cancelled : BOOLEAN] /\ turns'.count <= TurnLimit
    BY <1>1 DEF AdapterStarts
  <2> QED BY <1>1, <2>2, <2>3, <2>4 DEF AdapterStarts
<1>2. CASE ModelCall
  <2>1. turns.count + 1 \in 0..TurnLimit + 1
    BY <1>2 DEF ModelCall
  <2>2. turns' = [count |-> turns.count + 1, cancelled |-> turns.count + 1 > TurnLimit]
    BY <1>2 DEF ModelCall
  <2>3. /\ turns' \in [count : 0..TurnLimit + 1, cancelled : BOOLEAN]
        /\ ~turns'.cancelled => turns'.count <= TurnLimit
    <3>1. CASE turns.count + 1 > TurnLimit
      <4>1. turns' = [count |-> turns.count + 1, cancelled |-> TRUE]
        BY <2>2, <3>1
      <4> QED BY <2>1, <4>1
    <3>2. CASE ~(turns.count + 1 > TurnLimit)
      <4>0. (turns.count + 1 > TurnLimit) = FALSE
        BY <3>2
      <4>1. turns' = [count |-> turns.count + 1, cancelled |-> FALSE]
        BY ONLY <2>2, <4>0, Zenon
      <4> QED BY <2>1, <3>2, <4>1
    <3> QED BY <3>1, <3>2
  <2> QED BY <1>2, <2>3 DEF ModelCall
<1>3. CASE Say
  <2>1. <<Text>> \in Seq(Event)
    BY DEF Event
  <2> QED BY <1>3, <2>1, PutEffect DEF Say, tasks
<1>4. ASSUME NEW w \in Work, Call(w) PROVE StreamTypes'
  <2> DEFINE t == Len(calls) + 1
             c == [work |-> w, stage |-> "called", status |-> "none"]
  <2>1. t \in Nat /\ <<Start(t), Args(t)>> \in Seq(Event)
    BY DEF Event
  <2>2. queue' \in Seq(Event)
    BY <1>4, <2>1, PutEffect DEF Call
  <2>3. /\ calls' \in Seq(CallState)
        /\ Len(calls') <= MaxCalls /\ DOMAIN calls \subseteq DOMAIN calls'
    <3>1. c \in CallState
      BY DEF CallState, Statuses
    <3> QED BY <1>4, <3>1 DEF Call
  <2> QED BY <1>4, <2>2, <2>3 DEF Call
<1>5. CASE ModelStops
  BY <1>5 DEF ModelStops
<1>6. ASSUME NEW t \in 1..MaxCalls, NEW s \in {"success", "error"}, ToolReturns(t, s)
      PROVE  StreamTypes'
  <2>1. t \in 1..Len(calls) /\ t \in DOMAIN calls
    BY <1>6 DEF ToolReturns, Pending
  <2>2. /\ calls' \in Seq(CallState)
        /\ Len(calls') <= MaxCalls /\ DOMAIN calls' = DOMAIN calls
    <3> DEFINE c == [calls[t] EXCEPT !.stage = "returned", !.status = s]
    <3>0. calls[t] \in CallState
      BY <2>1
    <3>1. c \in CallState
      BY <3>0 DEF CallState, Statuses
    <3>2. calls' = [calls EXCEPT ![t] = c]
      BY <1>6, <2>1 DEF ToolReturns
    <3> QED BY <2>1, <3>1, <3>2
  <2>3. CASE UNCHANGED hook
    BY <1>6, <2>2, <2>3 DEF ToolReturns
  <2>4. CASE HookSees(t, s)
    <3>1. hook'.seen = Seen(t, s)
      BY <2>4 DEF HookSees
    <3>2. DOMAIN hook'.seen = DOMAIN hook.seen \cup {t}
      BY <3>1 DEF Seen
    <3>3. \A u \in DOMAIN hook'.seen : hook'.seen[u].status \in Statuses
      BY <3>1, <3>2 DEF Seen, Statuses
    <3> QED BY <1>6, <2>1, <2>2, <3>2, <3>3 DEF ToolReturns
  <2> QED BY <1>6, <2>3, <2>4 DEF ToolReturns
<1>7. ASSUME NEW t \in 1..MaxCalls, Answers(t) PROVE StreamTypes'
  <2> DEFINE T == {u \in DOMAIN calls : calls[u].stage = "answered"} \cup {t}
  <2>1. t \in 1..Len(calls) /\ DOMAIN calls = 1..Len(calls) /\ Len(calls) \in Nat
    BY <1>7 DEF Answers, Pending
  <2>2. T \in SUBSET Nat
    BY <2>1
  <2>3. <<Result(t, "none"), Snapshot(T)>> \in Seq(Event)
    <3> HIDE DEF T
    <3>1. Result(t, "none") \in Event /\ Snapshot(T) \in Event
      BY <2>1, <2>2 DEF Event, Statuses
    <3> QED BY <3>1
  <2>4. queue' \in Seq(Event)
    BY <1>7, <2>3, PutEffect DEF Answers
  <2>5. /\ calls' \in Seq(CallState)
        /\ Len(calls') <= MaxCalls /\ DOMAIN calls' = DOMAIN calls
    <3> DEFINE c == [calls[t] EXCEPT !.stage = "answered"]
    <3>0. calls[t] \in CallState
      BY <2>1
    <3>1. c \in CallState
      BY <3>0 DEF CallState
    <3>2. calls' = [calls EXCEPT ![t] = c]
      BY <1>7, <2>1 DEF Answers
    <3> QED BY <2>1, <3>1, <3>2
  <2> QED BY <1>7, <2>4, <2>5 DEF Answers
<1>8. CASE Finish
  <2>1. <<Finished>> \in Seq(Event)
    BY DEF Event
  <2> QED BY <1>8, <2>1, PutEffect DEF Finish
<1>9. CASE AdapterEnds
  <2>1. <<End>> \in Seq(Event)
    BY DEF Event
  <2> QED BY <1>9, <2>1, PutEffect DEF AdapterEnds, Drained
<1> QED BY <1>1, <1>2, <1>3, <1>4, <1>5, <1>6, <1>7, <1>8, <1>9 DEF Adapter

(* What a step of the producer does to the queue, by what it queues: the first event, *)
LEMMA QueuesStart ==
  ASSUME StreamTypes, StreamingInv, pc = "streaming", Put(<<Started>>),
         source = "opened", source' \in {"model", "tools"}, UNCHANGED <<pc, run, wire, link>>
  PROVE  StreamingInv'
<1>1. Started \in Event
  BY DEF Event
<1>2. /\ queue' \in Seq(Event) /\ Len(queue') = Len(queue) + 1
      /\ queue'[Len(queue) + 1] = Started
  BY <1>1, PutOne DEF StreamTypes
<1>3. Len(queue) = 0 /\ Len(wire) = 0
  BY DEF StreamingInv, SourceInv
<1> QED BY <1>2, <1>3 DEF StreamingInv, QueueInv, SourceInv, FlagsInv, Producing, Ended, EndsOk,
                          Started, End, IsTerminal

(* one or two in the middle, *)
LEMMA QueuesMore ==
  ASSUME StreamTypes, StreamingInv, pc = "streaming", NEW es \in Seq(Event), Put(es),
         \A j \in 1..Len(es) : es[j].type \notin {"STARTED", "FINISHED", "ERROR", "END"},
         {source, source'} \subseteq {"model", "tools"}, UNCHANGED <<pc, run, wire, link>>
  PROVE  StreamingInv'
<1>1. /\ queue' \in Seq(Event) /\ Len(queue') = Len(queue) + Len(es)
      /\ \A j \in 1..Len(queue) : queue'[j] = queue[j]
      /\ \A j \in 1..Len(es) : queue'[Len(queue) + j] = es[j]
  BY PutEffect DEF StreamTypes
<1>2. Len(queue) \in Nat /\ Len(es) \in Nat /\ Len(wire) \in Nat
  BY DEF StreamTypes
<1>3. \A j \in 1..Len(queue') :
        \/ j \in 1..Len(queue) /\ queue'[j] = queue[j]
        \/ j > Len(queue) /\ queue'[j].type \notin {"STARTED", "FINISHED", "ERROR", "END"}
  <2> TAKE j \in 1..Len(queue')
  <2>1. CASE j <= Len(queue)
    BY <1>1, <1>2, <2>1
  <2>2. CASE j > Len(queue)
    <3>1. j - Len(queue) \in 1..Len(es) /\ Len(queue) + (j - Len(queue)) = j
      BY <1>1, <1>2, <2>2
    <3> QED BY <1>1, <2>2, <3>1
  <2> QED BY <1>1, <1>2, <2>1, <2>2
<1>4. \A j \in 1..Len(queue) : queue[j] # End /\ ~IsTerminal(queue[j])
  BY DEF StreamingInv, QueueInv, SourceInv
<1>5. \A j \in 1..Len(queue') : queue'[j] # End /\ ~IsTerminal(queue'[j])
  BY <1>3, <1>4 DEF End, IsTerminal
<1>6. QueueInv'
  <2>1. \A j \in 1..Len(queue') : queue'[j].type = "STARTED" => j = 1 /\ Len(wire) = 0
    BY <1>3 DEF StreamingInv, QueueInv
  <2>2. Len(wire) = 0 /\ Len(queue') > 0 => queue'[1].type \in {"STARTED", "END"}
    <3>1. Len(wire) = 0 => Len(queue) > 0 /\ queue[1].type \in {"STARTED", "END"}
      BY <1>2 DEF StreamingInv, QueueInv, SourceInv
    <3> QED BY <1>1, <1>2, <3>1
  <2>3. ~Ended(wire)
    BY DEF StreamingInv, SourceInv
  <2> QED BY <1>5, <2>1, <2>2, <2>3 DEF QueueInv, Ended
<1>7. SourceInv'
  <2>1. Len(wire) > 0 \/ Len(queue') > 0
    BY <1>1, <1>2 DEF StreamingInv, SourceInv
  <2> QED BY <1>5, <2>1 DEF StreamingInv, SourceInv, Producing, Ended
<1> QED BY <1>6, <1>7 DEF StreamingInv, FlagsInv, Ended, EndsOk

(* the terminal event, *)
LEMMA QueuesTerminal ==
  ASSUME StreamTypes, StreamingInv, pc = "streaming", NEW e \in Event, Put(<<e>>), IsTerminal(e),
         source \in {"model", "tools"}, source' = "closed", UNCHANGED <<pc, run, wire, link>>
  PROVE  StreamingInv'
<1>2. /\ queue' \in Seq(Event) /\ Len(queue') = Len(queue) + 1
      /\ \A j \in 1..Len(queue) : queue'[j] = queue[j]
      /\ queue'[Len(queue) + 1] = e
  BY PutOne DEF StreamTypes
<1>3. e.type \notin {"STARTED", "END"} /\ e # End
  BY EventKind
<1>4. Len(queue) \in Nat /\ Len(wire) \in Nat
  BY DEF StreamTypes
<1>5. ~Ended(wire) /\ \A j \in 1..Len(queue) : queue[j] # End /\ ~IsTerminal(queue[j])
  BY DEF StreamingInv, QueueInv, SourceInv
<1>6. Len(wire) = 0 => Len(queue) > 0 /\ queue[1].type \in {"STARTED", "END"}
  BY <1>4 DEF StreamingInv, QueueInv, SourceInv
<1>7. \A j \in 1..Len(queue') : j \in 1..Len(queue) \/ j = Len(queue')
  BY <1>2, <1>4
<1>8. QueueInv'
  BY <1>2, <1>3, <1>4, <1>5, <1>6, <1>7 DEF StreamingInv, QueueInv, Ended
<1>9. SourceInv'
  BY <1>2, <1>4 DEF SourceInv, Producing
<1> QED BY <1>8, <1>9 DEF StreamingInv, FlagsInv, Ended, EndsOk

(* and the sentinel. *)
LEMMA QueuesEnd ==
  ASSUME StreamTypes, StreamingInv, pc = "streaming", Put(<<End>>),
         source \in {"opened", "model", "tools", "closed"}, source' \in {"ended", "raised"},
         source = "opened" => source' = "raised", UNCHANGED <<pc, run, wire, link>>
  PROVE  StreamingInv'
<1>1. End \in Event
  BY DEF Event
<1>2. /\ queue' \in Seq(Event) /\ Len(queue') = Len(queue) + 1
      /\ \A j \in 1..Len(queue) : queue'[j] = queue[j]
      /\ queue'[Len(queue) + 1] = End
  BY <1>1, PutOne DEF StreamTypes
<1>3. Len(queue) \in Nat /\ Len(wire) \in Nat
  BY DEF StreamTypes
<1>4. /\ \A j \in 1..Len(queue) : /\ queue[j] # End
                                  /\ IsTerminal(queue[j]) => j = Len(queue)
                                  /\ queue[j].type = "STARTED" => j = 1 /\ Len(wire) = 0
      /\ Ended(wire) => Len(queue) = 0
  BY <1>3 DEF StreamingInv, QueueInv
<1>5. \A j \in 1..Len(queue') : j \in 1..Len(queue) \/ j = Len(queue')
  BY <1>2, <1>3
<1>6. Len(queue') = Len(queue) + 1 /\ queue'[Len(queue')] = End
      /\ ~IsTerminal(End) /\ End.type = "END"
  BY <1>2 DEF End, IsTerminal
<1>7. QueueInv'
  <2>1. \A j \in 1..Len(queue') :
          /\ queue'[j].type = "STARTED" => j = 1 /\ Len(wire) = 0
          /\ IsTerminal(queue'[j]) => j = Len(queue') - 1
          /\ queue'[j] = End => j = Len(queue')
    BY <1>2, <1>3, <1>4, <1>5, <1>6
  <2>2. Len(wire) = 0 => queue'[1].type \in {"STARTED", "END"}
    BY <1>2, <1>3, <1>6 DEF StreamingInv, QueueInv
  <2>3. Ended(wire) => Len(queue') = 1 /\ queue'[1] = End
    BY <1>2, <1>4, <1>6
  <2> QED BY <1>6, <2>1, <2>2, <2>3 DEF QueueInv, Ended
<1>8. SourceInv'
  <2>1. source # "opened" => Len(wire) > 0 \/ Len(queue') > 1
    BY <1>3, <1>6 DEF StreamingInv, SourceInv
  <2> QED BY <1>3, <1>6, <2>1 DEF SourceInv, Producing
<1> QED BY <1>7, <1>8 DEF StreamingInv, FlagsInv, Ended, EndsOk

(* What the consumer does not see leaves its part of the invariant alone. *)
LEMMA ConsumerKept ==
  ASSUME StreamInv, pc = "streaming", UNCHANGED Consumer, StreamTypes', StreamingInv',
         EndsOk(wire) => turns' = turns
  PROVE  StreamInv'
BY DEF StreamInv, Consumer, WireInv, WireIsWellFormed, StartingInv, OverInv, OutcomeInv, SavedInv,
       Ended, EndsOk

(* Only a run that streams has an adapter at work. *)
LEMMA AdapterAtWork ==
  ASSUME StreamInv, source \in {"opened", "model", "tools", "closed"}
  PROVE  /\ pc = "streaming"
         /\ EndsOk(wire) => source = "closed"
BY DEF StreamInv, StreamTypes, StartingInv, StreamingInv, SourceInv, OverInv, Settled, Producing,
       Ended, EndsOk, IsTerminal

LEMMA AdapterStep ==
  ASSUME StreamInv, Adapter
  PROVE  StreamInv'
<1>0. StreamTypes /\ StreamTypes' /\ StreamingInv
  BY TypesAdapter DEF StreamInv
<1> USE <1>0
<1> USE DEF Consumer
<1>1. CASE AdapterStarts
  <2>1. pc = "streaming" /\ (EndsOk(wire) => turns' = turns)
    BY <1>1, AdapterAtWork DEF AdapterStarts
  <2>2. StreamingInv'
    BY <1>1, <2>1, QueuesStart DEF AdapterStarts
  <2> QED BY <1>1, <2>1, <2>2, ConsumerKept DEF AdapterStarts
<1>2. CASE ModelCall
  <2>1. pc = "streaming" /\ (EndsOk(wire) => turns' = turns)
    BY <1>2, AdapterAtWork DEF ModelCall
  <2>2. StreamingInv'
    BY <1>2, <2>1 DEF ModelCall, StreamingInv, QueueInv, SourceInv, FlagsInv, Ended, EndsOk, Producing
  <2> QED BY <1>2, <2>1, <2>2, ConsumerKept DEF ModelCall
<1>3. CASE Say
  <2>1. pc = "streaming" /\ (EndsOk(wire) => turns' = turns)
    BY <1>3, AdapterAtWork DEF Say, tasks
  <2> DEFINE es == <<Text>>
  <2>2. es \in Seq(Event) /\ Len(es) = 1 /\ es[1] = Text
    BY DEF Event
  <2>3. \A j \in 1..Len(es) : es[j].type \notin {"STARTED", "FINISHED", "ERROR", "END"}
    BY <2>2 DEF Text
  <2>4. Put(es)
    BY <1>3 DEF Say
  <2>5. StreamingInv'
    <3> HIDE DEF es
    <3> QED BY <1>3, <2>1, <2>2, <2>3, <2>4, QueuesMore DEF Say, tasks
  <2> QED BY <1>3, <2>1, <2>5, ConsumerKept DEF Say, tasks
<1>4. ASSUME NEW w \in Work, Call(w) PROVE StreamInv'
  <2>1. pc = "streaming" /\ (EndsOk(wire) => turns' = turns)
    BY <1>4, AdapterAtWork DEF Call
  <2> DEFINE t == Len(calls) + 1
             es == <<Start(t), Args(t)>>
  <2>2. es \in Seq(Event) /\ Len(es) = 2 /\ es[1] = Start(t) /\ es[2] = Args(t)
    <3>1. t \in Nat
      BY DEF StreamTypes
    <3> QED BY <3>1 DEF Event
  <2>3. \A j \in 1..Len(es) : es[j].type \notin {"STARTED", "FINISHED", "ERROR", "END"}
    BY <2>2 DEF Start, Args
  <2>4. Put(es)
    BY <1>4 DEF Call
  <2>5. StreamingInv'
    <3> HIDE DEF es
    <3> QED BY <1>4, <2>1, <2>2, <2>3, <2>4, QueuesMore DEF Call
  <2> QED BY <1>4, <2>1, <2>5, ConsumerKept DEF Call
<1>5. CASE ModelStops
  <2>1. pc = "streaming" /\ (EndsOk(wire) => turns' = turns)
    BY <1>5, AdapterAtWork DEF ModelStops
  <2>2. StreamingInv'
    BY <1>5, <2>1 DEF ModelStops, StreamingInv, QueueInv, SourceInv, FlagsInv, Ended, EndsOk, Producing
  <2> QED BY <1>5, <2>1, <2>2, ConsumerKept DEF ModelStops
<1>6. ASSUME NEW t \in 1..MaxCalls, NEW s \in {"success", "error"}, ToolReturns(t, s)
      PROVE  StreamInv'
  <2>1. pc = "streaming" /\ (EndsOk(wire) => turns' = turns)
    BY <1>6, AdapterAtWork DEF ToolReturns
  <2>2. StreamingInv'
    BY <1>6, <2>1 DEF ToolReturns, StreamingInv, QueueInv, SourceInv, FlagsInv, Ended, EndsOk
  <2> QED BY <1>6, <2>1, <2>2, ConsumerKept DEF ToolReturns
<1>7. ASSUME NEW t \in 1..MaxCalls, Answers(t) PROVE StreamInv'
  <2>1. pc = "streaming" /\ (EndsOk(wire) => turns' = turns)
    BY <1>7, AdapterAtWork DEF Answers
  <2> DEFINE T == {u \in DOMAIN calls : calls[u].stage = "answered"} \cup {t}
             es == <<Result(t, "none"), Snapshot(T)>>
  <2>2. t \in Nat /\ T \in SUBSET Nat
    BY <1>7 DEF Answers, Pending, StreamTypes
  <2>3. es \in Seq(Event) /\ Len(es) = 2 /\ es[1] = Result(t, "none") /\ es[2] = Snapshot(T)
    <3> HIDE DEF T
    <3>1. Result(t, "none") \in Event /\ Snapshot(T) \in Event
      BY <2>2 DEF Event, Statuses
    <3> QED BY <3>1
  <2>4. \A j \in 1..Len(es) : es[j].type \notin {"STARTED", "FINISHED", "ERROR", "END"}
    BY <2>3 DEF Result, Snapshot
  <2>5. Put(es)
    BY <1>7 DEF Answers
  <2>6. StreamingInv'
    <3> HIDE DEF es
    <3> QED BY <1>7, <2>1, <2>3, <2>4, <2>5, QueuesMore DEF Answers
  <2> QED BY <1>7, <2>1, <2>6, ConsumerKept DEF Answers
<1>8. CASE Finish
  <2>1. pc = "streaming" /\ (EndsOk(wire) => turns' = turns)
    BY <1>8, AdapterAtWork DEF Finish
  <2>2. Finished \in Event /\ IsTerminal(Finished)
    BY DEF Event, Finished, IsTerminal
  <2>3. StreamingInv'
    BY <1>8, <2>1, <2>2, QueuesTerminal DEF Finish
  <2> QED BY <1>8, <2>1, <2>3, ConsumerKept DEF Finish
<1>9. CASE AdapterEnds
  <2>1. pc = "streaming" /\ (EndsOk(wire) => turns' = turns)
    BY <1>9, AdapterAtWork DEF AdapterEnds
  <2>2. StreamingInv'
    BY <1>9, <2>1, QueuesEnd DEF AdapterEnds, Drained
  <2> QED BY <1>9, <2>1, <2>2, ConsumerKept DEF AdapterEnds
<1> QED BY <1>1, <1>2, <1>3, <1>4, <1>5, <1>6, <1>7, <1>8, <1>9 DEF Adapter

LEMMA FailureStep ==
  ASSUME StreamInv, Failures
  PROVE  StreamInv'
<1>0. StreamTypes /\ StreamingInv
  BY DEF StreamInv
<1> USE <1>0
<1>1. ASSUME NEW code \in {"STRANDS_ERROR", "STRANDS_MAX_TOKENS"}, AdapterFails(code)
      PROVE  StreamInv'
  <2>1. pc = "streaming" /\ (EndsOk(wire) => turns' = turns)
    BY <1>1, AdapterAtWork DEF AdapterFails
  <2>2. Error(code) \in Event /\ IsTerminal(Error(code))
    BY <1>1, ErrorEvent DEF Codes
  <2>3. StreamingInv'
    BY <1>1, <2>1, <2>2, QueuesTerminal DEF AdapterFails, Consumer
  <2>4. StreamTypes'
    BY <1>1, <2>2, PutOne DEF AdapterFails, Consumer, StreamTypes, Producing
  <2> QED BY <1>1, <2>1, <2>3, <2>4, ConsumerKept DEF AdapterFails
<1>2. ASSUME NEW how \in {"raised", "ended"}, AdapterBreaks(how) PROVE StreamInv'
  <2>1. pc = "streaming" /\ (EndsOk(wire) => turns' = turns)
    BY <1>2, AdapterAtWork DEF AdapterBreaks
  <2>2. StreamingInv'
    BY <1>2, <2>1, QueuesEnd DEF AdapterBreaks, Drained, Consumer
  <2>3. StreamTypes'
    <3>1. End \in Event
      BY DEF Event
    <3> QED BY <1>2, <3>1, PutOne DEF AdapterBreaks, Drained, Consumer, StreamTypes, Producing
  <2> QED BY <1>2, <2>1, <2>2, <2>3, ConsumerKept DEF AdapterBreaks
<1>3. CASE PeerLeaves
  BY <1>3 DEF PeerLeaves, StreamInv, StreamTypes, WireInv, WireIsWellFormed, StartingInv,
              StreamingInv, FlagsInv, OverInv, OutcomeInv, SavedInv, Ended, EndsOk, IsTerminal,
              Cancelled, Settled, Producing
<1> QED BY <1>1, <1>2, <1>3 DEF Failures

-----------------------------------------------------------------------------
(* The generator. *)

LEMMA ShortConcat ==
  ASSUME NEW a, NEW b
  PROVE  /\ <<>> \o <<>> = <<>>
         /\ <<>> \o <<b>> = <<b>>
         /\ <<a>> \o <<b>> = <<a, b>>
<1> DEFINE S == {a, b}
           s == <<a>>
           t == <<b>>
           u == <<a, b>>
<1>1. s \in Seq(S) /\ t \in Seq(S) /\ u \in Seq(S) /\ <<>> \in Seq(S)
  OBVIOUS
<1>2. /\ Len(s) = 1 /\ s[1] = a /\ Len(t) = 1 /\ t[1] = b
      /\ Len(u) = 2 /\ u[1] = a /\ u[2] = b
  OBVIOUS
<1> HIDE DEF S, s, t, u
<1>3. <<>> \o <<>> = <<>> /\ <<>> \o t = t
  BY <1>1, ConcatEmptySeq
<1>4. /\ s \o t \in Seq(S) /\ Len(s \o t) = 2
      /\ (s \o t)[1] = a /\ (s \o t)[2] = b
  BY <1>1, <1>2, ConcatProperties
<1>5. s \o t = u
  <2>1. \A i \in 1..2 : (s \o t)[i] = u[i]
    BY <1>2, <1>4
  <2> QED BY <1>1, <1>2, <1>4, <2>1, SeqEqual
<1> QED BY <1>3, <1>5 DEF s, t, u

(* An ending the code announces adds what was missing and nothing else. *)
LEMMA FailEffect ==
  ASSUME StreamTypes, WireInv, FlagsInv, link = "open", NEW code \in Codes, Fail(code),
         code = "AGENT_STREAM_INCOMPLETE" => Len(wire) > 0
  PROVE  /\ wire' \in Seq(Event) /\ WireInv'
         /\ pc' = "saving"
         /\ EndsOk(wire') => EndsOk(wire)
         /\ \/ link' = "open" /\ source' = source /\ Ended(wire')
            \/ link' = "cut" /\ source' = Cancelled
         /\ run' = [started |-> TRUE, terminal |-> TRUE, outcome |-> "error"]
         /\ Len(wire') >= Len(wire) /\ \A i \in 1..Len(wire) : wire'[i] = wire[i]
         /\ Ended(wire) => wire' = wire
<1> DEFINE es == Closing(code)
<1>1. /\ Error(code) \in Event /\ Error(code).type = "ERROR" /\ IsTerminal(Error(code))
      /\ Error(code) # End
  BY ErrorEvent
<1>2. Started \in Event /\ Started.type = "STARTED" /\ ~IsTerminal(Started) /\ Started # End
  BY DEF Event, Started, IsTerminal, End
<1>3. Len(wire) \in Nat
  BY DEF StreamTypes
<1>4. \/ Ended(wire) /\ es = <<>>
      \/ Len(wire) > 0 /\ ~Ended(wire) /\ es = <<Error(code)>>
      \/ Len(wire) = 0 /\ es = <<Started, Error(code)>>
  <2>1. CASE Ended(wire)
    <3>1. run.started /\ run.terminal
      BY <2>1 DEF FlagsInv, Ended
    <3> QED BY <2>1, <3>1, ShortConcat DEF Closing
  <2>2. CASE Len(wire) > 0 /\ ~Ended(wire)
    <3>1. run.started /\ ~run.terminal
      BY <2>2 DEF FlagsInv
    <3> QED BY <2>2, <3>1, ShortConcat DEF Closing
  <2>3. CASE Len(wire) = 0
    <3>1. ~run.started /\ ~run.terminal /\ code # "AGENT_STREAM_INCOMPLETE"
      BY <2>3 DEF FlagsInv, Ended
    <3> QED BY <2>3, <3>1, ShortConcat DEF Closing
  <2> QED BY <1>3, <2>1, <2>2, <2>3
<1>5. es \in Seq(Event)
  <2>1. <<>> \in Seq(Event) /\ <<Error(code)>> \in Seq(Event) /\ <<Started, Error(code)>> \in Seq(Event)
    BY <1>1, <1>2
  <2> QED BY <1>4, <2>1
<1>6. Send(es, "saving") /\ run' = [started |-> TRUE, terminal |-> TRUE, outcome |-> "error"]
  BY DEF Fail
<1>7. PICK n \in 0..Len(es) :
         /\ wire' \in Seq(Event)
         /\ Len(wire') = Len(wire) + n
         /\ \A i \in 1..Len(wire) : wire'[i] = wire[i]
         /\ \A i \in 1..n : wire'[Len(wire) + i] = es[i]
         /\ \/ n = Len(es) /\ pc' = "saving" /\ UNCHANGED <<source, link>>
            \/ n < Len(es) /\ pc' = "saving" /\ link' = "cut" /\ source' = Cancelled
  <2> HIDE DEF es
  <2> QED BY <1>5, <1>6, SendEffect DEF StreamTypes
<1>8. /\ DOMAIN wire = 1..Len(wire) /\ DOMAIN wire' = 1..Len(wire')
      /\ wire \in Seq(Event)
  BY <1>7 DEF StreamTypes
<1>9. CASE Ended(wire) /\ es = <<>>
  <2>1. n = 0 /\ Len(es) = 0
    BY <1>9
  <2>2. wire' = wire
    BY <1>3, <1>7, <1>8, <2>1, SeqEqual
  <2> QED BY <1>6, <1>7, <1>9, <2>1, <2>2 DEF WireInv, WireIsWellFormed
<1>10. CASE Len(wire) > 0 /\ ~Ended(wire) /\ es = <<Error(code)>>
  <2>1. Len(es) = 1 /\ es[1] = Error(code)
    BY <1>10
  <2>2. \A i \in 1..Len(wire) : ~IsTerminal(wire[i])
    BY <1>8, <1>10 DEF WireInv, WireIsWellFormed, Ended
  <2>3. \A i \in 1..Len(wire') : \/ i \in 1..Len(wire)
                                 \/ i = Len(wire') /\ i = Len(wire) + 1 /\ n = 1
                                    /\ wire'[i] = Error(code)
    BY <1>3, <1>7, <2>1
  <2>4. WireInv'
    BY <1>1, <1>3, <1>7, <1>8, <1>10, <2>2, <2>3 DEF WireInv, WireIsWellFormed
  <2>5. ~EndsOk(wire') /\ (n = 1 => Ended(wire'))
    BY <1>1, <1>3, <1>7, <1>10, <2>1, <2>2, <2>3 DEF EndsOk, Ended, IsTerminal
  <2> QED BY <1>3, <1>6, <1>7, <1>10, <2>1, <2>4, <2>5
<1>11. CASE Len(wire) = 0 /\ es = <<Started, Error(code)>>
  <2>1. Len(es) = 2 /\ es[1] = Started /\ es[2] = Error(code)
    BY <1>11
  <2>2. /\ Len(wire') = n /\ n \in 0..2
        /\ n > 0 => wire'[1] = Started
        /\ n > 1 => wire'[2] = Error(code)
    BY <1>7, <1>11, <2>1
  <2>3. WireInv'
    BY <1>1, <1>2, <1>8, <2>2 DEF WireInv, WireIsWellFormed
  <2>4. ~EndsOk(wire') /\ (n = 2 => Ended(wire'))
    BY <1>1, <1>2, <2>2 DEF EndsOk, Ended
  <2> QED BY <1>6, <1>7, <1>11, <2>1, <2>3, <2>4 DEF Ended
<1> QED BY <1>4, <1>9, <1>10, <1>11

LEMMA SetUpFailsStep ==
  ASSUME StreamInv, SetUpFails
  PROVE  StreamInv'
<1> DEFINE code == IF Unreadable THEN "SOP_LOAD_ERROR" ELSE "ERP_AGENT_ERROR"
<1>1. /\ StreamTypes /\ WireInv /\ pc = "starting" /\ source = "idle"
      /\ Len(wire) = 0 /\ link = "open" /\ saved = NoTrace
  BY DEF SetUpFails, StreamInv, StartingInv, SavedInv
<1>2. FlagsInv
  BY <1>1 DEF StreamInv, StartingInv, FlagsInv, Ended, EndsOk
<1>3. Fail(code) /\ code \in Codes /\ code # "AGENT_STREAM_INCOMPLETE"
  BY DEF SetUpFails, Codes
<1>4. /\ wire' \in Seq(Event) /\ WireInv'
      /\ pc' = "saving"
      /\ EndsOk(wire') => EndsOk(wire)
      /\ \/ link' = "open" /\ source' = source /\ Ended(wire')
         \/ link' = "cut" /\ source' = Cancelled
      /\ run' = [started |-> TRUE, terminal |-> TRUE, outcome |-> "error"]
  <2> HIDE DEF code
  <2> QED BY <1>1, <1>2, <1>3, FailEffect
<1>5. ~EndsOk(wire')
  BY <1>1, <1>4 DEF EndsOk
<1>6. flagged' \in BOOLEAN
  BY <1>1 DEF SetUpFails, StreamTypes, Unreadable, FiledCase
<1>7. StreamTypes'
  BY <1>1, <1>4, <1>6 DEF SetUpFails, StreamTypes, Cancelled
<1> QED BY <1>1, <1>4, <1>5, <1>7 DEF SetUpFails, StreamInv, StartingInv, StreamingInv, OverInv,
      OutcomeInv, SavedInv, Cancelled, Settled

LEMMA BeginStreamStep ==
  ASSUME StreamInv, BeginStream
  PROVE  StreamInv'
<1>1. /\ StreamTypes /\ WireInv /\ pc = "starting" /\ source = "idle" /\ wire = <<>> /\ queue = <<>>
      /\ Len(wire) = 0 /\ Len(queue) = 0 /\ link = "open"
  BY DEF BeginStream, StreamInv, StartingInv
<1>2. StreamingInv'
  BY <1>1 DEF StreamInv, StartingInv, BeginStream, StreamingInv, QueueInv, SourceInv, FlagsInv,
              Ended, EndsOk, Producing
<1> QED BY <1>1, <1>2 DEF BeginStream, StreamInv, StreamTypes, WireInv, WireIsWellFormed, StartingInv,
      OverInv, OutcomeInv, SavedInv, Producing, Ended, EndsOk

LEMMA SaveStep ==
  ASSUME StreamInv, Save
  PROVE  StreamInv'
<1>1. pc = "saving" /\ pc' = "ended" /\ saved = NoTrace
  BY DEF Save, StreamInv, SavedInv
<1>2. UNCHANGED <<req, source, calls, turns, hook, queue, run, segments, wire, link, flagged>>
  BY DEF Save, tasks
<1>3. saved' = saved \/ (saved'.outcome = run.outcome /\ saved'.segments # <<>>)
  <2>1. ASSUME segments # <<>>,
               saved' = [outcome |-> run.outcome, segments |-> Merge(segments, hook.seen)]
        PROVE  saved'.outcome = run.outcome /\ saved'.segments # <<>>
    <3>1. DOMAIN Merge(segments, hook.seen) = DOMAIN segments
      BY DEF Merge
    <3>2. 1 \in DOMAIN segments
      BY <2>1 DEF StreamInv, StreamTypes
    <3> QED BY <2>1, <3>1, <3>2
  <2> QED BY <2>1 DEF Save
<1> QED BY <1>1, <1>2, <1>3 DEF StreamInv, StreamTypes, WireInv, WireIsWellFormed, StartingInv,
      StreamingInv, OverInv, OutcomeInv, SavedInv

LEMMA HeadOfQueue ==
  ASSUME StreamTypes, queue # <<>>
  PROVE  /\ Len(queue) \in Nat \ {0} /\ Head(queue) = queue[1] /\ queue[1] \in Event
         /\ Tail(queue) \in Seq(Event) /\ Len(Tail(queue)) = Len(queue) - 1
         /\ \A j \in 1..Len(queue) - 1 : Tail(queue)[j] = queue[j + 1]
<1>1. queue \in Seq(Event) /\ queue # <<>>
  BY DEF StreamTypes
<1> QED BY <1>1, HeadTailProperties

LEMMA LoopEndsStep ==
  ASSUME StreamInv, LoopEnds
  PROVE  StreamInv'
<1>1. /\ StreamTypes /\ WireInv /\ QueueInv /\ SourceInv /\ FlagsInv /\ OutcomeInv
      /\ link = "open" /\ saved = NoTrace /\ pc = "streaming"
  BY DEF LoopEnds, StreamInv, StreamingInv, SavedInv
<1>2. /\ Len(queue) \in Nat \ {0} /\ queue[1] = End
      /\ queue' \in Seq(Event)
  BY <1>1, HeadOfQueue DEF LoopEnds
<1>3. Len(queue) = 1 /\ source \in {"ended", "raised"}
  <2>1. 1 \in 1..Len(queue)
    BY <1>2
  <2> QED BY <1>1, <1>2, <2>1 DEF QueueInv
<1>4. Len(wire) \in Nat
  BY <1>1 DEF StreamTypes
<1>5. ASSUME NEW code \in Codes, Fail(code), source = "raised" \/ ~Ended(wire),
             code = "AGENT_STREAM_INCOMPLETE" => Len(wire) > 0
      PROVE  StreamInv'
  <2>1. /\ wire' \in Seq(Event) /\ WireInv'
        /\ pc' = "saving"
        /\ EndsOk(wire') => EndsOk(wire)
        /\ \/ link' = "open" /\ source' = source /\ Ended(wire')
           \/ link' = "cut" /\ source' = Cancelled
        /\ run' = [started |-> TRUE, terminal |-> TRUE, outcome |-> "error"]
    BY <1>1, <1>5, FailEffect
  <2>2. Cancelled \in Settled
    BY <1>3 DEF Cancelled, Settled
  <2>3. StreamTypes'
    BY <1>1, <1>2, <1>3, <2>1, <2>2 DEF LoopEnds, StreamTypes, Settled, Producing
  <2>4. OverInv'
    <3>1. EndsOk(wire) => source = "raised"
      BY <1>5 DEF EndsOk, Ended, IsTerminal
    <3> QED BY <1>3, <2>1, <2>2, <3>1 DEF OverInv, Settled
  <2>5. OutcomeInv'
    BY <1>1, <2>1 DEF OutcomeInv, LoopEnds
  <2> QED BY <1>1, <2>1, <2>3, <2>4, <2>5 DEF LoopEnds, StreamInv, StartingInv, StreamingInv, SavedInv
<1>6. CASE source = "raised"
  <2>1. Fail("ERP_AGENT_ERROR")
    BY <1>6 DEF LoopEnds
  <2> QED BY <1>5, <1>6, <2>1 DEF Codes
<1>7. CASE source # "raised" /\ ~run.terminal
  <2>1. Fail("AGENT_STREAM_INCOMPLETE") /\ ~Ended(wire)
    BY <1>1, <1>7 DEF LoopEnds, FlagsInv
  <2>2. Len(wire) > 0
    BY <1>1, <1>3, <1>7 DEF SourceInv
  <2> QED BY <1>5, <2>1, <2>2 DEF Codes
<1>8. CASE source # "raised" /\ run.terminal
  <2>1. pc' = "saving" /\ UNCHANGED <<run, wire, console, source, link>>
    BY <1>8 DEF LoopEnds
  <2>2. Ended(wire) /\ source = "ended"
    BY <1>1, <1>3, <1>8 DEF FlagsInv
  <2> QED BY <1>1, <1>2, <2>1, <2>2 DEF LoopEnds, StreamInv, StreamTypes, WireInv, WireIsWellFormed,
        StartingInv, StreamingInv, FlagsInv, OverInv, OutcomeInv, SavedInv, Settled, Ended, EndsOk
<1> QED BY <1>6, <1>7, <1>8

LEMMA BookkeepingEffect ==
  ASSUME StreamTypes, NEW e \in Event
  PROVE  LET r == Bookkeeping(e)
         IN  /\ r \in [started : BOOLEAN, terminal : BOOLEAN,
                        outcome : {"unknown", "complete", "cancelled", "error"}]
             /\ r.started <=> run.started \/ e.type = "STARTED"
             /\ r.terminal <=> run.terminal \/ IsTerminal(e)
             /\ ~IsTerminal(e) => r.outcome = run.outcome
             /\ e.type = "FINISHED" => r.outcome = "complete"
             /\ e.type = "ERROR" => r.outcome \in {"cancelled", "error"}
<1> USE DEF Bookkeeping, IsTerminal, StreamTypes
<1>1. CASE e.type = "STARTED"
  BY <1>1
<1>2. CASE e.type = "FINISHED"
  BY <1>2
<1>3. CASE e.type = "ERROR"
  <2> DEFINE o == IF turns.cancelled THEN "cancelled" ELSE "error"
  <2>1. Bookkeeping(e) = [run EXCEPT !.terminal = TRUE, !.outcome = o]
    BY <1>3
  <2>2. o \in {"cancelled", "error"}
    OBVIOUS
  <2> HIDE DEF o
  <2> QED BY <1>3, <2>1, <2>2
<1>4. CASE e.type \notin {"STARTED", "FINISHED", "ERROR"}
  BY <1>4
<1> QED BY <1>1, <1>2, <1>3, <1>4

LEMMA ForwardStep ==
  ASSUME StreamInv, Forward
  PROVE  StreamInv'
<1> DEFINE h == queue[1]
           e == Rewritten(h)
           o == Outgoing(e)
           es == <<o>>
<1>1. /\ StreamTypes /\ WireInv /\ QueueInv /\ SourceInv /\ FlagsInv /\ OutcomeInv
      /\ link = "open" /\ saved = NoTrace /\ pc = "streaming" /\ queue # <<>>
  BY DEF Forward, StreamInv, StreamingInv, SavedInv
<1>2. /\ Len(queue) \in Nat \ {0} /\ Head(queue) = h /\ h \in Event /\ h # End
      /\ queue' \in Seq(Event) /\ Len(queue') = Len(queue) - 1
      /\ \A j \in 1..Len(queue') : queue'[j] = queue[j + 1]
  BY <1>1, HeadOfQueue DEF Forward
<1>3. /\ e \in Event /\ o \in Event /\ o # End /\ o.type = e.type
      /\ IsTerminal(o) <=> IsTerminal(h)
      /\ IsTerminal(e) <=> IsTerminal(h)
      /\ o.type = "STARTED" <=> h.type = "STARTED"
      /\ o.type = "FINISHED" => ~turns.cancelled
  <2>1. /\ e \in Event
        /\ e.type = "FINISHED" <=> h.type = "FINISHED" /\ ~turns.cancelled
        /\ IsTerminal(e) <=> IsTerminal(h)
        /\ e.type = "STARTED" <=> h.type = "STARTED"
        /\ e = End <=> h = End
    BY <1>2, RewrittenKind
  <2>2. \A t \in DOMAIN hook.seen : hook.seen[t].status \in Statuses
    BY <1>1 DEF StreamTypes
  <2> HIDE DEF e
  <2>3. o \in Event /\ o.type = e.type /\ (IsTerminal(o) <=> IsTerminal(e)) /\ (o = End <=> e = End)
    BY <2>1, <2>2, OutgoingKind
  <2> QED BY <1>2, <2>1, <2>3
<1>4. /\ segments' = Accumulate(segments, e) /\ run' = Bookkeeping(e) /\ Send(es, "streaming")
      /\ UNCHANGED <<req, calls, turns, hook, flagged, saved>>
  BY <1>2 DEF Forward
<1> HIDE DEF h, e, o
<1>5. es \in Seq(Event) /\ Len(es) = 1 /\ es[1] = o
  BY <1>3
<1>6. PICK n \in 0..Len(es) :
         /\ wire' \in Seq(Event)
         /\ Len(wire') = Len(wire) + n
         /\ \A i \in 1..Len(wire) : wire'[i] = wire[i]
         /\ \A i \in 1..n : wire'[Len(wire) + i] = es[i]
         /\ \/ n = Len(es) /\ pc' = "streaming" /\ UNCHANGED <<source, link>>
            \/ n < Len(es) /\ pc' = "saving" /\ link' = "cut" /\ source' = Cancelled
  <2> HIDE DEF es
  <2> QED BY <1>1, <1>4, <1>5, SendEffect DEF StreamTypes
<1>7. /\ run' \in [started : BOOLEAN, terminal : BOOLEAN,
                   outcome : {"unknown", "complete", "cancelled", "error"}]
      /\ run'.started <=> run.started \/ o.type = "STARTED"
      /\ run'.terminal <=> run.terminal \/ IsTerminal(o)
      /\ ~IsTerminal(o) => run'.outcome = run.outcome
      /\ o.type = "FINISHED" => run'.outcome = "complete"
      /\ o.type = "ERROR" => run'.outcome \in {"cancelled", "error"}
  BY <1>1, <1>3, <1>4, BookkeepingEffect
<1>8. Cancelled \in Settled
  BY <1>1 DEF Cancelled, Settled, SourceInv, Producing
<1>9. StreamTypes'
  <2>1. segments' \in Seq(Segment)
    BY <1>1, <1>3, <1>4, AccumulateType DEF StreamTypes
  <2>2. wire' \in Seq(Event) /\ pc' \in {"streaming", "saving"} /\ link' \in {"open", "cut"}
        /\ source' \in {"idle", "cancelled"} \cup Producing
    <3>1. source \in Producing /\ Cancelled \in {"idle", "cancelled"} \cup Producing
      BY <1>1, <1>8 DEF SourceInv, Settled, Producing
    <3> QED BY <1>1, <1>6, <3>1
  <2> QED BY <1>1, <1>2, <1>4, <1>7, <2>1, <2>2 DEF StreamTypes
<1>10. /\ Len(wire) \in Nat /\ ~Ended(wire) /\ DOMAIN wire = 1..Len(wire)
       /\ DOMAIN wire' = 1..Len(wire') /\ Len(queue) \in Nat
       /\ \A i \in 1..Len(wire) : ~IsTerminal(wire[i])
  <2>1. wire \in Seq(Event) /\ wire' \in Seq(Event)
    BY <1>1, <1>6 DEF StreamTypes
  <2>2. ~Ended(wire)
    BY <1>1, <1>2 DEF QueueInv, h
  <2> QED BY <1>1, <1>2, <2>1, <2>2 DEF WireInv, WireIsWellFormed, Ended
<1>11. CASE n = 0
  <2>1. wire' = wire
    BY <1>1, <1>6, <1>10, <1>11, SeqEqual DEF StreamTypes
  <2>2. pc' = "saving" /\ link' = "cut" /\ source' = Cancelled
    BY <1>5, <1>6, <1>11
  <2>3. ~EndsOk(wire)
    BY <1>10 DEF EndsOk, Ended, IsTerminal
  <2> QED BY <1>1, <1>4, <1>8, <1>9, <1>10, <2>1, <2>2, <2>3 DEF StreamInv, WireInv, WireIsWellFormed,
        StartingInv, StreamingInv, OverInv, OutcomeInv, SavedInv
<1>12. CASE n = 1
  <2>1. /\ pc' = "streaming" /\ link' = "open" /\ source' = source
        /\ Len(wire') = Len(wire) + 1 /\ wire'[Len(wire')] = o
    BY <1>1, <1>5, <1>6, <1>10, <1>12
  <2>2. \A i \in 1..Len(wire') : i \in 1..Len(wire) \/ i = Len(wire')
    BY <1>10, <2>1
  <2>3. /\ o.type = "STARTED" <=> Len(wire) = 0
        /\ IsTerminal(o) => Len(queue') = 0 \/ (Len(queue') = 1 /\ queue'[1] = End)
    <3>1. h.type # "END"
      BY <1>2, EventKind
    <3> QED BY <1>1, <1>2, <1>3, <1>10, <3>1 DEF QueueInv, h
  <2>4. /\ Ended(wire') <=> IsTerminal(o)
        /\ EndsOk(wire') <=> o.type = "FINISHED"
    BY <1>10, <2>1 DEF Ended, EndsOk
  <2>5. WireInv'
    BY <1>1, <1>3, <1>6, <1>10, <2>1, <2>2, <2>3 DEF WireInv, WireIsWellFormed
  <2>6. QueueInv'
    <3>1. \A j \in 1..Len(queue') : /\ queue'[j] = queue[j + 1] /\ j + 1 \in 1..Len(queue) /\ j + 1 # 1
                                    /\ j + 1 = Len(queue) <=> j = Len(queue')
                                    /\ j + 1 = Len(queue) - 1 <=> j = Len(queue') - 1
      BY <1>2
    <3>2. Len(queue') > 0 => queue'[Len(queue')] = queue[Len(queue)]
      BY <1>2
    <3>3. \A j \in 1..Len(queue') :
            /\ queue'[j].type # "STARTED"
            /\ IsTerminal(queue'[j]) => \/ j = Len(queue')
                                        \/ j = Len(queue') - 1 /\ queue'[Len(queue')] = End
            /\ queue'[j] = End => j = Len(queue') /\ source \in {"ended", "raised"}
      BY <1>1, <3>1, <3>2 DEF QueueInv
    <3> QED BY <1>10, <2>1, <2>3, <2>4, <3>3 DEF QueueInv
  <2>7. SourceInv'
    <3>1. source \in {"model", "tools"} => /\ ~IsTerminal(o)
                                           /\ \A j \in 1..Len(queue') : ~IsTerminal(queue'[j])
      BY <1>1, <1>2, <1>3 DEF SourceInv, h
    <3>2. source \in {"ended", "raised"} => Len(queue') > 0 /\ queue'[Len(queue')] = End
      BY <1>1, <1>2 DEF SourceInv, h
    <3>3. source # "opened"
      BY <1>1, <1>2 DEF SourceInv
    <3> QED BY <1>1, <1>10, <2>1, <2>4, <3>1, <3>2, <3>3 DEF SourceInv
  <2>8. FlagsInv'
    <3>1. ~EndsOk(wire) /\ run.outcome # "complete" /\ ~run.terminal
      BY <1>1, <1>10 DEF FlagsInv, EndsOk, Ended, IsTerminal
    <3>2. run'.outcome = "complete" <=> o.type = "FINISHED"
      BY <1>7, <3>1 DEF IsTerminal
    <3> QED BY <1>1, <1>7, <1>10, <2>1, <2>3, <2>4, <3>1, <3>2 DEF FlagsInv
  <2>9. OutcomeInv'
    <3>1. run'.outcome = "unknown" => ~IsTerminal(o)
      BY <1>7 DEF IsTerminal
    <3> QED BY <1>3, <1>4, <2>4, <2>8, <3>1 DEF OutcomeInv, FlagsInv
  <2> QED BY <1>1, <1>4, <1>9, <2>1, <2>5, <2>6, <2>7, <2>8, <2>9 DEF StreamInv, StartingInv, StreamingInv,
        OverInv, SavedInv
<1> QED BY <1>5, <1>11, <1>12

-----------------------------------------------------------------------------
LEMMA StreamInit ==
  ASSUME Init
  PROVE  StreamInv
<1>1. <<>> \in Seq(Event) /\ <<>> \in Seq(Segment) /\ <<>> \in Seq(CallState) /\ Len(<<>>) = 0
  OBVIOUS
<1>2. StreamTypes
  <2>1. turns \in [count : 0..TurnLimit + 1, cancelled : BOOLEAN] /\ turns.count <= TurnLimit
    BY StreamAssumption DEF Init
  <2>2. hook.seen = <<>> /\ DOMAIN hook.seen = {}
    BY DEF Init
  <2>3. /\ calls \in Seq(CallState) /\ Len(calls) <= MaxCalls
        /\ queue \in Seq(Event) /\ wire \in Seq(Event) /\ segments \in Seq(Segment)
    BY <1>1, StreamAssumption DEF Init
  <2>4. run \in [started : BOOLEAN, terminal : BOOLEAN,
                outcome : {"unknown", "complete", "cancelled", "error"}]
    BY DEF Init
  <2>5. /\ req \in Requests /\ pc = "starting" /\ source = "idle" /\ link = "open" /\ flagged = FALSE
    BY DEF Init
  <2> QED BY <2>1, <2>2, <2>3, <2>4, <2>5 DEF StreamTypes
<1> QED BY <1>1, <1>2 DEF Init, StreamInv, WireInv, WireIsWellFormed, StartingInv, StreamingInv, OverInv,
      OutcomeInv, SavedInv, Ended, EndsOk

LEMMA StreamStep ==
  ASSUME StreamInv, [Next]_vars
  PROVE  StreamInv'
<1>1. CASE Adapter
  BY <1>1, AdapterStep
<1>2. CASE Failures
  BY <1>2, FailureStep
<1>3. CASE Generator
  BY <1>3, SetUpFailsStep, BeginStreamStep, ForwardStep, LoopEndsStep, SaveStep DEF Generator
<1>4. CASE UNCHANGED vars
  BY <1>4 DEF vars, StreamInv, StreamTypes, WireInv, WireIsWellFormed, StartingInv, StreamingInv,
              QueueInv, SourceInv, FlagsInv, OverInv, OutcomeInv, SavedInv, Ended, EndsOk
<1> QED BY <1>1, <1>2, <1>3, <1>4 DEF Next

-----------------------------------------------------------------------------
(* What a reader of the whole stream makes of it. *)

LEMMA DrainTells ==
  ASSUME StreamTypes, WireIsWellFormed
  PROVE  /\ Drain(wire) \in {"stopped", "failed", "finished", "none"}
         /\ Drain(wire) = "finished" <=> EndsOk(wire)
         /\ Drain(wire) = "none" <=> ~Ended(wire)
<1> DEFINE codes == {wire[i].code : i \in {j \in DOMAIN wire : wire[j].type = "ERROR"}}
           types == {wire[i].type : i \in DOMAIN wire}
<1>1. wire \in Seq(Event) /\ Len(wire) \in Nat /\ DOMAIN wire = 1..Len(wire)
  BY DEF StreamTypes
<1>2. \A i \in DOMAIN wire : IsTerminal(wire[i]) => i = Len(wire)
  BY DEF WireIsWellFormed
<1>3. Len(wire) > 0 => Len(wire) \in DOMAIN wire
  BY <1>1
<1>4. "ERROR" \in types <=> Len(wire) > 0 /\ wire[Len(wire)].type = "ERROR"
  BY <1>1, <1>2, <1>3 DEF IsTerminal
<1>5. "FINISHED" \in types <=> EndsOk(wire)
  BY <1>1, <1>2, <1>3 DEF IsTerminal, EndsOk
<1>6. codes \cap DeliberateStop # {} => "ERROR" \in types
  OBVIOUS
<1>7. Drain(wire) = CASE codes \cap DeliberateStop # {} -> "stopped"
       [] codes \cap DeliberateStop = {} /\ "ERROR" \in types -> "failed"
       [] "ERROR" \notin types /\ "FINISHED" \in types -> "finished"
       [] OTHER -> "none"
  BY DEF Drain
<1>8. Ended(wire) <=> "ERROR" \in types \/ "FINISHED" \in types
  BY <1>4, <1>5 DEF Ended, EndsOk, IsTerminal
<1>9. ~("ERROR" \in types /\ "FINISHED" \in types)
  BY <1>4, <1>5 DEF EndsOk
<1> HIDE DEF codes, types
<1>10. CASE codes \cap DeliberateStop # {}
  BY <1>10, <1>5, <1>6, <1>7, <1>8, <1>9
<1>11. CASE codes \cap DeliberateStop = {} /\ "ERROR" \in types
  BY <1>11, <1>5, <1>7, <1>8, <1>9
<1>12. CASE "ERROR" \notin types /\ "FINISHED" \in types
  <2>1. codes \cap DeliberateStop = {}
    BY <1>6, <1>12
  <2> QED BY <2>1, <1>12, <1>5, <1>7, <1>8
<1>13. CASE "ERROR" \notin types /\ "FINISHED" \notin types
  <2>1. codes \cap DeliberateStop = {}
    BY <1>6, <1>13
  <2> QED BY <2>1, <1>13, <1>5, <1>7, <1>8
<1> QED BY <1>10, <1>11, <1>12, <1>13

-----------------------------------------------------------------------------
(* Every reachable state has the shape above: what was sent and what is queued are one
   run's events, the flags tell what the peer has, and the trace repeats the outcome. *)
THEOREM AgentStreamInvariant == Spec => []StreamInv
BY StreamInit, StreamStep, PTL DEF Spec

(* The variables of a run keep their types; every error the peer sees has a code of the
   contract. *)
THEOREM AgentStreamTypeOK == Spec => []TypeOK
<1>1. StreamInv => TypeOK
  <2> SUFFICES ASSUME StreamInv PROVE TypeOK
    OBVIOUS
  <2>1. ASSUME NEW i \in DOMAIN wire, wire[i].type = "ERROR" PROVE wire[i].code \in Codes
    <3>1. wire[i] \in Event
      BY DEF StreamInv, StreamTypes
    <3> QED BY <3>1, <2>1, EventKind
  <2>2. saved = NoTrace \/ saved.segments # <<>>
    BY DEF StreamInv, SavedInv
  <2> QED BY <2>1, <2>2 DEF StreamInv, StreamTypes, TypeOK, Producing
<1> QED BY <1>1, AgentStreamInvariant, PTL

(* A run's events start once, first, and end once, last, whoever ended it and however
   late an exception came. *)
THEOREM AgentStreamWire == Spec => []WireIsWellFormed
<1>1. StreamInv => WireIsWellFormed
  BY DEF StreamInv, WireInv
<1> QED BY <1>1, AgentStreamInvariant, PTL

(* With a peer that stayed, the trace says complete exactly if the stream said finished
   and nothing broke after, and a run the turn limit cut short never reads as finished. *)
THEOREM AgentStreamVerdicts == Spec => []VerdictsAgree
<1>1. StreamInv => VerdictsAgree
  <2> SUFFICES ASSUME StreamInv, pc = "ended", link = "open"
               PROVE  /\ Drain(wire) = "finished" => ~turns.cancelled
                      /\ saved # NoTrace =>
                           (saved.outcome = "complete"
                              <=> Drain(wire) = "finished" /\ source # "raised")
    BY DEF VerdictsAgree
  <2>1. Drain(wire) = "finished" <=> EndsOk(wire)
    BY DrainTells DEF StreamInv, WireInv
  <2>2. EndsOk(wire) => ~turns.cancelled
    BY DEF StreamInv, OutcomeInv
  <2>3. run.outcome = "complete" <=> EndsOk(wire) /\ source # "raised"
    BY DEF StreamInv, OverInv
  <2>4. saved # NoTrace => saved.outcome = run.outcome
    BY DEF StreamInv, SavedInv
  <2> QED BY <2>1, <2>2, <2>3, <2>4
<1> QED BY <1>1, AgentStreamInvariant, PTL


-----------------------------------------------------------------------------
(* The stream implements AgentRun: a step of a run concludes it, files it, or is none
   of AgentRun's business. *)

(* Nothing is sent after the end or to a peer that left, and only Save files a trace. *)
LEMMA WhatStays ==
  ASSUME StreamInv, Next
  PROVE  /\ Ended(wire) => wire' = wire
         /\ link = "cut" => wire' = wire /\ link' = link
         /\ Save \/ saved' = saved
         /\ pc \in {"saving", "ended"} => Save
<1>1. CASE Adapter
  <2>1. UNCHANGED <<wire, link, saved>> /\ source \in {"opened", "model", "tools", "closed"}
    BY <1>1 DEF Adapter, AdapterStarts, ModelCall, Say, Call, ModelStops, ToolReturns, Answers,
                Finish, AdapterEnds, Consumer
  <2> QED BY <2>1 DEF StreamInv, OverInv, Settled
<1>2. CASE Failures
  <2>1. UNCHANGED <<wire, saved>>
    BY <1>2 DEF Failures, AdapterFails, AdapterBreaks, PeerLeaves, Consumer
  <2>2. /\ pc \notin {"saving", "ended"}
        /\ link' \in {link, "cut"}
    BY <1>2 DEF Failures, AdapterFails, AdapterBreaks, PeerLeaves, Consumer, StreamInv, OverInv, Settled
  <2> QED BY <2>1, <2>2
<1>3. CASE SetUpFails \/ BeginStream
  <2>1. pc = "starting" /\ wire = <<>> /\ link = "open" /\ saved' = saved
    BY <1>3 DEF SetUpFails, BeginStream, StreamInv, StartingInv
  <2> QED BY <2>1 DEF Ended
<1>4. CASE Forward
  <2>1. pc = "streaming" /\ link = "open" /\ QueueInv /\ queue \in Seq(Event) /\ saved' = saved
    BY <1>4 DEF Forward, StreamInv, StreamingInv, StreamTypes
  <2>2. queue # <<>> /\ Head(queue) # End
    BY <1>4 DEF Forward
  <2>3. Len(queue) \in Nat \ {0} /\ queue[1] # End
    BY <2>1, <2>2
  <2>4. ~Ended(wire)
    BY <2>1, <2>3 DEF QueueInv
  <2> QED BY <2>1, <2>4
<1>5. CASE LoopEnds
  <2>1. /\ StreamTypes /\ WireInv /\ FlagsInv /\ QueueInv /\ SourceInv
        /\ link = "open" /\ pc = "streaming" /\ saved' = saved
    BY <1>5 DEF LoopEnds, StreamInv, StreamingInv
  <2>2. ASSUME NEW code \in Codes, Fail(code), code = "AGENT_STREAM_INCOMPLETE" => Len(wire) > 0
        PROVE  Ended(wire) => wire' = wire
    BY <2>1, <2>2, FailEffect
  <2>3. CASE source = "raised"
    BY <1>5, <2>1, <2>2, <2>3 DEF LoopEnds, Codes
  <2>4. CASE source # "raised" /\ ~run.terminal
    BY <2>1, <2>4 DEF FlagsInv
  <2>5. CASE source # "raised" /\ run.terminal
    BY <1>5, <2>1, <2>5 DEF LoopEnds
  <2> QED BY <2>1, <2>3, <2>4, <2>5
<1>6. CASE Save
  <2>1. UNCHANGED <<wire, link>>
    BY <1>6 DEF Save
  <2> QED BY <1>6, <2>1
<1> QED BY <1>1, <1>2, <1>3, <1>4, <1>5, <1>6 DEF Next, Generator

LEMMA PromiseStep ==
  ASSUME StreamInv, Next,
         /\ Drain(wire) \in {"stopped", "failed", "finished", "none"}
         /\ Drain(wire) = "finished" <=> EndsOk(wire)
         /\ Drain(wire) = "none" <=> ~Ended(wire),
         Drain(wire)' \in {"stopped", "failed", "finished", "none"},
         link' \in {"open", "cut"}
  PROVE  Promise!Next \/ UNCHANGED <<IF Drain(wire) # "none" THEN Drain(wire)
                                     ELSE IF link = "cut" THEN "cut" ELSE "running",
                                     saved.outcome>>
<1> DEFINE verdict == IF Drain(wire) # "none" THEN Drain(wire)
                      ELSE IF link = "cut" THEN "cut" ELSE "running"
<1>1. /\ Ended(wire) => wire' = wire
      /\ link = "cut" => wire' = wire /\ link' = link
      /\ Save \/ saved' = saved
      /\ pc \in {"saving", "ended"} => Save
  BY WhatStays
<1>2. link \in {"open", "cut"}
  BY DEF StreamInv, StreamTypes
<1>3. CASE verdict = "running"
  <2>1. ~Ended(wire) /\ link = "open"
    BY <1>2, <1>3
  <2>2. pc \notin {"saving", "ended"}
    BY <2>1 DEF StreamInv, OverInv
  <2>3. saved' = saved
    BY <1>1, <2>2 DEF Save
  <2>4. verdict' \in Promise!Verdict \cup {"running"}
    BY DEF Promise!Verdict
  <2>5. CASE verdict' = "running"
    BY <1>3, <2>3, <2>5
  <2>6. CASE verdict' \in Promise!Verdict
    <3>1. Promise!Conclude(verdict')
      BY <1>3, <2>3 DEF Promise!Conclude
    <3> QED BY <2>6, <3>1 DEF Promise!Next
  <2> QED BY <2>4, <2>5, <2>6
<1>4. CASE verdict # "running"
  <2>1. verdict' = verdict
    <3>1. CASE Ended(wire)
      <4>1. wire' = wire /\ Drain(wire) # "none"
        BY <1>1, <3>1
      <4>2. Drain(wire)' = Drain(wire)
        BY <4>1
      <4> QED BY <4>1, <4>2
    <3>2. CASE ~Ended(wire)
      <4>1. link = "cut"
        BY <1>2, <1>4, <3>2
      <4>2. wire' = wire /\ link' = link
        BY <1>1, <4>1
      <4> QED BY <4>2
    <3> QED BY <3>1, <3>2
  <2>2. CASE saved' = saved
    BY <2>1, <2>2
  <2>3. CASE saved' # saved
    <3>1. Save
      BY <1>1, <2>3
    <3>2. saved'.outcome = run.outcome /\ pc = "saving"
      BY <2>3, <3>1 DEF Save
    <3>3. saved.outcome = "unfiled"
      BY <3>2 DEF StreamInv, SavedInv, NoTrace
    <3>4. run.outcome \in Promise!Outcome
      BY DEF StreamInv, StreamTypes, Promise!Outcome
    <3>5. run.outcome = "complete" => verdict \in {"finished", "cut"}
      <4>1. CASE link = "open"
        BY <3>2, <4>1 DEF StreamInv, OverInv
      <4>2. CASE link = "cut"
        BY <4>2 DEF StreamInv, OutcomeInv
      <4> QED BY <1>2, <4>1, <4>2
    <3>6. run.outcome = "unknown" => verdict = "cut"
      <4>1. run.outcome = "unknown" => ~Ended(wire)
        BY DEF StreamInv, OutcomeInv
      <4> QED BY <1>4, <4>1
    <3>7. Promise!File(run.outcome)
      BY <1>4, <2>1, <3>2, <3>3, <3>5, <3>6 DEF Promise!File
    <3> QED BY <3>4, <3>7 DEF Promise!Next
  <2> QED BY <2>2, <2>3
<1> QED BY <1>3, <1>4

(* The refinement: a run reaches one verdict and keeps it, its trace is filed at most
   once and after the verdict, and as complete only if it finished or nobody was left. *)
THEOREM AgentStreamKeepsPromise == Spec => KeepsItsPromise
<1> DEFINE verdict == IF Drain(wire) # "none" THEN Drain(wire)
                      ELSE IF link = "cut" THEN "cut" ELSE "running"
<1>1. StreamInv => /\ Drain(wire) \in {"stopped", "failed", "finished", "none"}
                   /\ Drain(wire) = "finished" <=> EndsOk(wire)
                   /\ Drain(wire) = "none" <=> ~Ended(wire)
                   /\ link \in {"open", "cut"}
  BY DrainTells DEF StreamInv, WireInv, StreamTypes
<1>2. Init => Promise!Init
  <2> SUFFICES ASSUME Init PROVE Promise!Init
    OBVIOUS
  <2>1. StreamInv
    BY StreamInit
  <2>2. ~Ended(wire) /\ link = "open" /\ saved = NoTrace
    BY DEF Init, Ended
  <2>3. Drain(wire) = "none"
    BY <1>1, <2>1, <2>2
  <2> QED BY <2>2, <2>3 DEF Promise!Init, NoTrace
<1>3. StreamInv /\ StreamInv' /\ [Next]_vars => [Promise!Next]_<<verdict, saved.outcome>>
  <2> SUFFICES ASSUME StreamInv, StreamInv', [Next]_vars
               PROVE  Promise!Next \/ UNCHANGED <<verdict, saved.outcome>>
    OBVIOUS
  <2>1. CASE UNCHANGED vars
    BY <2>1 DEF vars
  <2>2. CASE Next
    <3>1. (Drain(wire) \in {"stopped", "failed", "finished", "none"} /\ link \in {"open", "cut"})'
      BY <1>1, PTL
    <3> QED BY <1>1, <2>2, <3>1, PromiseStep
  <2> QED BY <2>1, <2>2
<1> QED BY <1>2, <1>3, AgentStreamInvariant, PTL DEF Spec, KeepsItsPromise, Promise!Spec


-----------------------------------------------------------------------------
(* Citations. What a run was shown so far: its SOP, and what its lookups returned. The
   hook's baseline stays within that, and holds the SOP once the adapter has started. *)

ShownText == Given \cup UNION {calls[u].work.shows : u \in Lookups}

BaselineInv ==
  /\ \A t \in DOMAIN calls : calls[t].stage = "called" => calls[t].status = "none"
  /\ hook.baseline \subseteq ShownText
  /\ source \in {"model", "tools"} => Given \subseteq hook.baseline

CitationInv == BaselineInv /\ CitationsAreShown

LEMMA LongestIn ==
  ASSUME NEW S, S # {}, \A s \in S : s.chars \in Nat /\ s.chars <= QuoteMaxChars
  PROVE  Longest(S) \in S
<1> DEFINE T == {QuoteMaxChars - s.chars : s \in S}
<1>1. QuoteMaxChars \in Nat
  BY DEF QuoteMaxChars
<1>2. \A s \in S : QuoteMaxChars - s.chars \in Nat
  BY <1>1
<1>3. T \in SUBSET Nat /\ T # {}
  BY <1>2
<1>4. PICK x \in T : \A y \in T : x <= y
  BY <1>3, NatHasLeast
<1>5. PICK s \in S : x = QuoteMaxChars - s.chars
  BY <1>4
<1>6. ASSUME NEW r \in S PROVE s.chars >= r.chars
  <2>1. QuoteMaxChars - s.chars <= QuoteMaxChars - r.chars
    BY <1>4, <1>5
  <2> QED BY <1>1, <2>1
<1> QED BY <1>6 DEF Longest

(* A verified quotation is a gradeable span that was shown, and if there is one the
   citation is verified. *)
LEMMA CitationGrades ==
  ASSUME NEW spans, NEW baseline, \A s \in spans : s.chars \in Nat
  PROVE  LET v     == VerifyCitation(spans, baseline)
             sound == {s.says : s \in {x \in spans : Gradeable(x)}}
         IN  /\ v.verified \in BOOLEAN
             /\ v.verified => v.quote \in sound \cap baseline
             /\ sound \cap baseline # {} => v.verified
<1> DEFINE graded == {s \in spans : Gradeable(s)}
           found  == {s \in graded : s.says \in baseline}
           sound  == {s.says : s \in graded}
<1>1. \A s \in graded : s.chars \in Nat /\ s.chars <= QuoteMaxChars
  BY DEF Gradeable
<1>2. found # {} => Longest(found) \in found
  <2>1. \A s \in found : s.chars \in Nat /\ s.chars <= QuoteMaxChars
    BY <1>1
  <2> HIDE DEF found
  <2> QED BY <2>1, LongestIn
<1>3. found = {} <=> sound \cap baseline = {}
  OBVIOUS
<1>4. VerifyCitation(spans, baseline) =
        CASE graded = {} -> [quote |-> "none", verified |-> FALSE]
          [] found # {}  -> [quote |-> Longest(found).says, verified |-> TRUE]
          [] OTHER       -> [quote |-> Longest(graded).says, verified |-> FALSE]
  BY DEF VerifyCitation
<1>5. CASE found # {}
  <2>1. graded # {}
    BY <1>5
  <2>2. Longest(found).says \in sound \cap baseline
    BY <1>2, <1>5
  <2>3. VerifyCitation(spans, baseline) = [quote |-> Longest(found).says, verified |-> TRUE]
    <3> HIDE DEF graded, found
    <3> QED BY <1>4, <1>5, <2>1
  <2> QED BY <2>2, <2>3
<1>6. CASE found = {}
  <2>1. \E q : VerifyCitation(spans, baseline) = [quote |-> q, verified |-> FALSE]
    <3> HIDE DEF graded, found
    <3> QED BY <1>4, <1>6
  <2> QED BY <1>3, <1>6, <2>1
<1> QED BY <1>5, <1>6

(* A step that leaves the hook alone and loses no call and no lookup changes nothing. *)
LEMMA CitationsKept ==
  ASSUME CitationInv, DOMAIN hook.seen \subseteq DOMAIN calls, UNCHANGED <<req, hook>>,
         DOMAIN calls \subseteq DOMAIN calls',
         \A t \in DOMAIN calls :
           /\ calls'[t].work = calls[t].work
           /\ calls[t].status = "success" => calls'[t].status = "success",
         \A t \in DOMAIN calls' : calls'[t].stage = "called" => calls'[t].status = "none",
         source' \in {"model", "tools"} => source \in {"model", "tools"}
  PROVE  CitationInv'
<1>1. Given' = Given
  BY DEF Given
<1>2. Lookups \subseteq Lookups'
  BY DEF Lookups
<1>3. \A u \in Lookups : calls'[u].work.shows = calls[u].work.shows
  BY DEF Lookups
<1>4. UNION {calls[u].work.shows : u \in Lookups} \subseteq UNION {calls'[u].work.shows : u \in Lookups'}
  BY <1>2, <1>3
<1>5. ShownText \subseteq ShownText'
  BY <1>1, <1>4 DEF ShownText
<1>6. BaselineInv'
  BY <1>1, <1>5 DEF CitationInv, BaselineInv
<1>7. CitationsAreShown'
  BY <1>1, <1>5 DEF CitationInv, CitationsAreShown, ShownText
<1> QED BY <1>6, <1>7 DEF CitationInv

LEMMA CitationsReturned ==
  ASSUME StreamTypes, CitationInv, NEW t \in 1..MaxCalls, NEW s \in {"success", "error"},
         ToolReturns(t, s)
  PROVE  CitationInv'
<1> DEFINE old == {calls[u].work.shows : u \in Lookups}
           new == {calls'[u].work.shows : u \in Lookups'}
<1>1. /\ t \in DOMAIN calls /\ calls[t] \in CallState /\ calls[t].status = "none"
      /\ calls[t].work \in Work /\ source = "tools"
  <2>1. t \in DOMAIN calls /\ calls[t].stage = "called"
    BY DEF ToolReturns, Pending
  <2>2. calls[t] \in CallState
    BY <2>1 DEF StreamTypes
  <2> QED BY <2>1, <2>2 DEF CitationInv, BaselineInv, CallState, ToolReturns
<1>2. /\ DOMAIN calls' = DOMAIN calls
      /\ \A u \in DOMAIN calls : u # t => calls'[u] = calls[u]
      /\ calls'[t].work = calls[t].work /\ calls'[t].status = s /\ calls'[t].stage = "returned"
  BY <1>1 DEF ToolReturns, CallState
<1>3. UNCHANGED <<req, source>> /\ Given' = Given
  BY DEF ToolReturns, Consumer, Given
<1>4. \A u \in DOMAIN calls' : calls'[u].stage = "called" => calls'[u].status = "none"
  BY <1>2 DEF CitationInv, BaselineInv
<1>5. CASE UNCHANGED hook
  BY <1>1, <1>2, <1>3, <1>4, <1>5, CitationsKept DEF StreamTypes
<1>6. CASE HookSees(t, s)
  <2>1. Lookups \subseteq Lookups'
    BY <1>1, <1>2 DEF Lookups
  <2>2. \A u \in Lookups : calls'[u].work.shows = calls[u].work.shows
    BY <1>2 DEF Lookups
  <2>3. UNION old \subseteq UNION new
    BY <2>1, <2>2
  <2>4. ShownText \subseteq ShownText'
    BY <1>3, <2>3 DEF ShownText
  <2>5. KindOf(calls[t].work.tool) = "sop_lookup" => Shows(t, s) \subseteq UNION new
    <3>1. CASE s = "success" /\ KindOf(calls[t].work.tool) = "sop_lookup"
      <4>1. t \in Lookups'
        BY <1>1, <1>2, <3>1 DEF Lookups
      <4>2. calls'[t].work.shows \in new
        BY <4>1
      <4> QED BY <1>2, <4>2, <3>1 DEF Shows
    <3> QED BY <3>1 DEF Shows
  <2>6. /\ hook'.baseline = IF KindOf(calls[t].work.tool) = "sop_lookup"
                            THEN hook.baseline \cup Shows(t, s) ELSE hook.baseline
        /\ hook'.seen = Seen(t, s)
    BY <1>6 DEF HookSees
  <2>7. hook'.baseline \subseteq ShownText'
    <3>1. UNION new \subseteq ShownText'
      BY DEF ShownText
    <3>2. hook.baseline \subseteq ShownText
      BY DEF CitationInv, BaselineInv
    <3> QED BY ONLY <2>4, <2>5, <2>6, <3>1, <3>2
  <2>8. Given \subseteq hook.baseline
    BY <1>1 DEF CitationInv, BaselineInv
  <2>9. BaselineInv'
    BY <1>3, <1>4, <2>6, <2>7, <2>8 DEF BaselineInv
  <2>10. DOMAIN hook'.seen = DOMAIN hook.seen \cup {t}
    BY <2>6 DEF Seen
  <2>11. ASSUME NEW u \in DOMAIN hook'.seen
         PROVE  LET cited == hook'.seen[u].evidence.citation
                    sound == {x.says : x \in {y \in calls'[u].work.spans : Gradeable(y)}}
                IN /\ cited.verified => cited.quote \in sound \cap ShownText'
                   /\ hook'.seen[u].evidence.kind = "notification" /\ sound \cap Given # {} =>
                        cited.verified
    <3>1. CASE u # t
      <4>1. u \in DOMAIN hook.seen /\ u \in DOMAIN calls /\ hook'.seen[u] = hook.seen[u]
        BY <2>6, <2>10, <3>1 DEF Seen, StreamTypes
      <4>2. calls'[u].work.spans = calls[u].work.spans
        BY <1>2, <3>1, <4>1
      <4> QED BY <2>4, <4>1, <4>2 DEF CitationInv, CitationsAreShown, ShownText
    <3>2. CASE u = t
      <4> DEFINE w == calls[t].work
                 e == Extract(w.tool, w.spans, s, FALSE, hook.baseline)
                 sound == {x.says : x \in {y \in w.spans : Gradeable(y)}}
      <4>1. hook'.seen[u].evidence = e /\ calls'[u].work = w
        <5>1. t \in DOMAIN hook.seen \cup {t}
          OBVIOUS
        <5>2. Seen(t, s)[t] = [status |-> s, evidence |-> e]
          BY <5>1 DEF Seen
        <5> QED BY <1>2, <2>6, <3>2, <5>2
      <4>2. /\ e.kind = KindOf(w.tool)
            /\ e.citation = IF KindOf(w.tool) \in {"case_update", "notification"}
                            THEN VerifyCitation(w.spans, hook.baseline)
                            ELSE [quote |-> "none", verified |-> FALSE]
        BY DEF Extract
      <4>3. \A x \in w.spans : x.chars \in Nat
        BY <1>1, StreamAssumption
      <4>4. LET v == VerifyCitation(w.spans, hook.baseline)
            IN  /\ v.verified => v.quote \in sound \cap hook.baseline
                /\ sound \cap hook.baseline # {} => v.verified
        BY <4>3, CitationGrades
      <4>5. hook.baseline \subseteq ShownText'
        BY <2>4 DEF CitationInv, BaselineInv
      <4> HIDE DEF w, e, sound
      <4>6. e.citation.verified => e.citation.quote \in sound \cap ShownText'
        BY <4>2, <4>4, <4>5
      <4>7. e.kind = "notification" /\ sound \cap Given # {} => e.citation.verified
        BY <2>8, <4>2, <4>4
      <4> QED BY <4>1, <4>6, <4>7 DEF sound
    <3> QED BY <3>1, <3>2
  <2>12. CitationsAreShown'
    BY <1>3, <2>11 DEF CitationsAreShown, ShownText
  <2> QED BY <2>9, <2>12 DEF CitationInv
<1> QED BY <1>5, <1>6 DEF ToolReturns

LEMMA CitationsStep ==
  ASSUME StreamTypes, CitationInv, [Next]_vars
  PROVE  CitationInv'
<1>1. /\ DOMAIN hook.seen \subseteq DOMAIN calls
      /\ \A t \in DOMAIN calls : calls[t].stage = "called" => calls[t].status = "none"
  BY DEF StreamTypes, CitationInv, BaselineInv
<1>2. ASSUME UNCHANGED <<req, calls, hook>>,
             source' \in {"model", "tools"} => source \in {"model", "tools"}
      PROVE  CitationInv'
  BY <1>1, <1>2, CitationsKept
<1>3. CASE AdapterStarts
  <2>1. /\ UNCHANGED <<req, calls>> /\ Given' = Given
        /\ hook'.baseline = Given /\ hook'.seen = <<>> /\ DOMAIN hook'.seen = {}
    BY <1>3 DEF AdapterStarts, Consumer, Given
  <2> QED BY <1>1, <2>1 DEF CitationInv, BaselineInv, CitationsAreShown, ShownText
<1>4. ASSUME NEW w \in Work, Call(w) PROVE CitationInv'
  <2> DEFINE c == [work |-> w, stage |-> "called", status |-> "none"]
  <2>1. /\ calls \in Seq(CallState) /\ calls' = Append(calls, c) /\ UNCHANGED <<req, hook, source>>
    BY <1>4 DEF Call, Consumer, StreamTypes
  <2>2. /\ DOMAIN calls \subseteq DOMAIN calls'
        /\ \A t \in DOMAIN calls : calls'[t] = calls[t]
        /\ \A t \in DOMAIN calls' : t \in DOMAIN calls \/ calls'[t] = c
    BY <2>1
  <2> QED BY <1>1, <2>1, <2>2, CitationsKept
<1>5. ASSUME NEW t \in 1..MaxCalls, NEW s \in {"success", "error"}, ToolReturns(t, s)
      PROVE  CitationInv'
  BY <1>5, CitationsReturned
<1>6. ASSUME NEW t \in 1..MaxCalls, Answers(t) PROVE CitationInv'
  <2>1. t \in DOMAIN calls /\ calls[t] \in CallState
    BY <1>6 DEF Answers, Pending, StreamTypes
  <2>2. /\ DOMAIN calls' = DOMAIN calls /\ UNCHANGED <<req, hook, source>>
        /\ \A u \in DOMAIN calls : u # t => calls'[u] = calls[u]
        /\ calls'[t].work = calls[t].work /\ calls'[t].status = calls[t].status
        /\ calls'[t].stage = "answered"
    BY <1>6, <2>1 DEF Answers, Consumer, CallState
  <2> QED BY <1>1, <2>2, CitationsKept
<1>7. CASE ModelCall \/ Say \/ ModelStops \/ Finish \/ AdapterEnds
  <2>1. /\ UNCHANGED <<req, calls, hook>>
        /\ source' \in {"model", "tools"} => source \in {"model", "tools"}
    BY <1>7 DEF ModelCall, Say, ModelStops, Finish, AdapterEnds, Drained, Consumer, tasks
  <2> QED BY <1>2, <2>1
<1>8. CASE Failures
  <2>1. /\ UNCHANGED <<req, calls, hook>>
        /\ source' \in {"model", "tools"} => source \in {"model", "tools"}
    BY <1>8 DEF Failures, AdapterFails, AdapterBreaks, PeerLeaves, Drained, Consumer, Cancelled
  <2> QED BY <1>2, <2>1
<1>9. CASE Generator
  <2>1. /\ UNCHANGED <<req, calls, hook>>
        /\ source' \in {"model", "tools"} => source \in {"model", "tools"}
    BY <1>9 DEF Generator, SetUpFails, BeginStream, Forward, LoopEnds, Save, Fail, Send, Cancelled, tasks
  <2> QED BY <1>2, <2>1
<1>10. CASE UNCHANGED vars
  BY <1>2, <1>10 DEF vars
<1> QED BY <1>3, <1>4, <1>5, <1>6, <1>7, <1>8, <1>9, <1>10 DEF Next, Adapter

(* A quotation is recorded as verified exactly if some gradeable span of it is in the SOP
   the run was given or in what a successful lookup of the run had returned. *)
THEOREM AgentStreamCitations == Spec => []CitationsAreShown
<1>1. Init => CitationInv
  <2> SUFFICES ASSUME Init PROVE CitationInv
    OBVIOUS
  <2>1. calls = <<>> /\ DOMAIN calls = {} /\ hook.seen = <<>> /\ DOMAIN hook.seen = {}
        /\ hook.baseline = {} /\ source = "idle"
    BY DEF Init
  <2> QED BY <2>1 DEF CitationInv, BaselineInv, CitationsAreShown
<1>2. StreamInv /\ CitationInv /\ [Next]_vars => CitationInv'
  BY CitationsStep DEF StreamInv
<1>3. CitationInv => CitationsAreShown
  BY DEF CitationInv
<1> QED BY <1>1, <1>2, <1>3, AgentStreamInvariant, PTL DEF Spec

-----------------------------------------------------------------------------
(* The live console and the timeline. A result is queued behind its call and before any
   snapshot that counts it, so whenever a snapshot arrives the segments of the calls it
   names have their results. *)

(* The maximum of one number. *)
LEMMA MaxOfOne == Max({1}) = 1 BY DEF Max

(* Nothing folded leaves the projection as it is, and one event is one step. *)
LEMMA ReduceNone == ASSUME NEW p PROVE FoldLeft(Reduce, p, <<>>) = p
<1> DEFINE G(it) == [s \in SUBSET {} |-> IF s = {} THEN p ELSE Reduce(it[s \ {Max(s)}], <<>>[Max(s)])]
           iter == CHOOSE it : it = G(it)
<1>1. DOMAIN <<>> = {} OBVIOUS
<1>2. FoldLeft(Reduce, p, <<>>) = iter[{}] BY <1>1 DEF FoldLeft, MapThenFoldSet
<1>3. \A it : G(it) = [s \in {{}} |-> p] BY SUBSET {} = {{}}
<1>4. iter = G(iter)
  <2> HIDE DEF G
  <2>1. \E it : it = G(it) BY <1>3
  <2> QED BY <2>1
<1>5. iter[{}] = p
  <2>1. iter = [s \in {{}} |-> p] BY <1>3, <1>4
  <2> HIDE DEF iter
  <2> QED BY <2>1
<1> QED BY <1>2, <1>5

LEMMA ReduceOne == ASSUME NEW p, NEW e PROVE FoldLeft(Reduce, p, <<e>>) = Reduce(p, e)
<1> DEFINE G(it) == [s \in SUBSET {1} |-> IF s = {} THEN p ELSE Reduce(it[s \ {Max(s)}], <<e>>[Max(s)])]
           iter == CHOOSE it : it = G(it)
           fix == [s \in SUBSET {1} |-> IF s = {} THEN p ELSE Reduce(p, e)]
<1>1. DOMAIN <<e>> = {1} OBVIOUS
<1>2. FoldLeft(Reduce, p, <<e>>) = iter[{1}] BY <1>1 DEF FoldLeft, MapThenFoldSet
<1>3. \A s \in SUBSET {1} : s = {} \/ s = {1} OBVIOUS
<1>4. <<e>>[Max({1})] = e BY MaxOfOne
<1>5. fix = G(fix)
  <2>1. fix[{}] = p OBVIOUS
  <2>2. {1} \ {Max({1})} = {} BY MaxOfOne
  <2>3. \A s \in SUBSET {1} : s # {} => fix[s \ {Max(s)}] = p /\ <<e>>[Max(s)] = e
    BY <1>3, <1>4, <2>1, <2>2
  <2> QED BY <2>3
<1>6. iter = G(iter)
  <2> HIDE DEF G, fix
  <2> QED BY <1>5
<1>7. iter[{1}] = Reduce(p, e)
  <2>1. iter[{}] = p /\ iter[{1}] = Reduce(iter[{1} \ {Max({1})}], <<e>>[Max({1})])
    <3> HIDE DEF iter
    <3> QED BY <1>6
  <2>2. {1} \ {Max({1})} = {} BY MaxOfOne
  <2> QED BY <1>4, <2>1, <2>2
<1> QED BY <1>2, <1>7

(* A queue q, segments segs, calls cs, a projection p and the records of the hook. *)
Starts(q, u)  == \E j \in 1..Len(q) : q[j].type = "START" /\ q[j].id = u
Told(q, u, n) == \E k \in 1..n : q[k].type = "RESULT" /\ q[k].id = u
IsTool(s)     == s.type = "tool"
Filled(segs, u) ==
  \A i \in 1..Len(segs) : IsTool(segs[i]) /\ segs[i].id = u => segs[i].result

(* Once n of the queued events have been read, the segment of u, if there is one, has its
   result. *)
Caught(q, segs, u, n) == Told(q, u, n) \/ (~Starts(q, u) /\ Filled(segs, u))

(* A call is queued before it is shown, its result once it is answered, and a snapshot
   behind the results it counts. *)
QueueLive(q, segs, cs, p) ==
  /\ p = [calls |-> p.calls, error |-> p.error]
  /\ DOMAIN p.calls \subseteq DOMAIN cs
  /\ \A j \in 1..Len(q) :
       /\ q[j].type \in {"START", "RESULT"} => q[j].id \in DOMAIN cs
       /\ q[j].type = "START" => q[j].id \notin DOMAIN p.calls
       /\ q[j].type = "RESULT" => cs[q[j].id].stage = "answered"
       /\ q[j].type = "SNAPSHOT" =>
            \A u \in q[j].answered : u \in DOMAIN cs /\ Caught(q, segs, u, j - 1)
  /\ \A j, k \in 1..Len(q) :
       q[j].type \in {"START", "RESULT"} /\ q[k].type = "START" /\ q[j].id = q[k].id => k <= j
  /\ \A u \in DOMAIN cs : cs[u].stage = "answered" => Caught(q, segs, u, Len(q))

Waiting == Unresolved \cup {"incomplete"}
Recorded(seen, u) == IF u \in DOMAIN seen THEN seen[u].status ELSE "none"
Colour(seen, u)   == IF Recorded(seen, u) = "error" THEN "error" ELSE "complete"

(* A call has one segment, and the console shows what the segment says of it. *)
SegmentsLive(segs, cs, p, seen) ==
  /\ \A i, j \in 1..Len(segs) :
       IsTool(segs[i]) /\ IsTool(segs[j]) /\ segs[i].id = segs[j].id => i = j
  /\ \A i \in 1..Len(segs) : IsTool(segs[i]) =>
       /\ segs[i].id \in DOMAIN p.calls
       /\ segs[i].result => /\ cs[segs[i].id].stage = "answered"
                            /\ p.calls[segs[i].id] = Colour(seen, segs[i].id)
       /\ ~segs[i].result => p.calls[segs[i].id] \in Waiting

LiveInv ==
  /\ source \in {"idle", "opened"} => calls = <<>>
  /\ pc = "starting" => console = NoProjection
  /\ link = "open" => /\ SegmentsLive(segments, calls, console, hook.seen)
                      /\ Len(wire) = 0 => segments = <<>>
  /\ pc = "streaming" => QueueLive(queue, segments, calls, console)
  /\ pc = "ended" => saved = NoTrace \/ saved.segments = Merge(segments, hook.seen)

(* What is queued behind does not undo it, unless it is the call itself. *)
LEMMA CaughtStays ==
  ASSUME NEW q \in Seq(Event), NEW r \in Seq(Event), Len(q) <= Len(r),
         \A j \in 1..Len(q) : r[j] = q[j], NEW segs,
         NEW u, \A j \in 1..Len(r) : j > Len(q) => ~(r[j].type = "START" /\ r[j].id = u),
         NEW n \in 0..Len(q), NEW m \in 0..Len(r), n <= m, Caught(q, segs, u, n)
  PROVE  Caught(r, segs, u, m)
<1>1. Len(q) \in Nat /\ Len(r) \in Nat OBVIOUS
<1>2. CASE Told(q, u, n)
  <2>1. PICK k \in 1..n : q[k].type = "RESULT" /\ q[k].id = u BY <1>2 DEF Told
  <2>2. k \in 1..m /\ k \in 1..Len(q) BY <1>1, <2>1
  <2>3. r[k] = q[k] BY <2>2
  <2> QED BY <2>1, <2>2, <2>3 DEF Caught, Told
<1>3. CASE ~Starts(q, u) /\ Filled(segs, u)
  <2>1. ~Starts(r, u)
    <3> SUFFICES ASSUME NEW j \in 1..Len(r), r[j].type = "START", r[j].id = u PROVE FALSE
      BY DEF Starts
    <3>1. j \in 1..Len(q) \/ j > Len(q) BY <1>1
    <3> QED BY <1>3, <3>1 DEF Starts
  <2> QED BY <1>3, <2>1 DEF Caught
<1> QED BY <1>2, <1>3 DEF Caught

(* Events that are neither a call nor an answer may be queued at any time. *)
LEMMA PlainKeeps ==
  ASSUME NEW q \in Seq(Event), NEW r \in Seq(Event), Len(q) <= Len(r),
         \A j \in 1..Len(q) : r[j] = q[j],
         \A j \in 1..Len(r) : j > Len(q) => r[j].type \notin {"START", "RESULT", "SNAPSHOT"},
         NEW segs, NEW cs, NEW ds, NEW p, QueueLive(q, segs, cs, p), DOMAIN ds = DOMAIN cs,
         \A u \in DOMAIN cs : ds[u].stage = "answered" <=> cs[u].stage = "answered"
  PROVE  QueueLive(r, segs, ds, p)
<1>1. Len(q) \in Nat /\ Len(r) \in Nat OBVIOUS
<1>2. ASSUME NEW u, NEW n \in 0..Len(q), NEW m \in 0..Len(r), n <= m, Caught(q, segs, u, n)
      PROVE  Caught(r, segs, u, m)
  BY <1>1, <1>2, CaughtStays
<1>3. ASSUME NEW j \in 1..Len(r), r[j].type \in {"START", "RESULT", "SNAPSHOT"}
      PROVE  j \in 1..Len(q) /\ r[j] = q[j]
  BY <1>1, <1>3
<1>4. \A j \in 1..Len(r) :
       /\ r[j].type \in {"START", "RESULT"} => r[j].id \in DOMAIN ds
       /\ r[j].type = "START" => r[j].id \notin DOMAIN p.calls
       /\ r[j].type = "RESULT" => ds[r[j].id].stage = "answered"
  BY <1>3 DEF QueueLive
<1>5. ASSUME NEW j \in 1..Len(r), r[j].type = "SNAPSHOT", NEW u \in r[j].answered
      PROVE  u \in DOMAIN ds /\ Caught(r, segs, u, j - 1)
  <2>1. j \in 1..Len(q) /\ r[j] = q[j] BY <1>3, <1>5
  <2>2. j - 1 \in 0..Len(q) /\ j - 1 \in 0..Len(r) /\ j - 1 <= j - 1 BY <1>1, <2>1
  <2>3. u \in DOMAIN cs /\ Caught(q, segs, u, j - 1) BY <1>5, <2>1 DEF QueueLive
  <2> QED BY <1>2, <2>2, <2>3
<1>6. ASSUME NEW j \in 1..Len(r), NEW k \in 1..Len(r),
             r[j].type \in {"START", "RESULT"}, r[k].type = "START", r[j].id = r[k].id
      PROVE  k <= j
  <2>1. j \in 1..Len(q) /\ r[j] = q[j] /\ k \in 1..Len(q) /\ r[k] = q[k]
    BY <1>3, <1>6
  <2> QED BY <1>6, <2>1 DEF QueueLive
<1>7. ASSUME NEW u \in DOMAIN ds, ds[u].stage = "answered" PROVE Caught(r, segs, u, Len(r))
  <2>1. Caught(q, segs, u, Len(q)) BY <1>7 DEF QueueLive
  <2>2. Len(q) \in 0..Len(q) /\ Len(r) \in 0..Len(r) BY <1>1
  <2> QED BY <1>2, <2>1, <2>2
<1>8. p = [calls |-> p.calls, error |-> p.error] /\ DOMAIN p.calls \subseteq DOMAIN ds
  BY DEF QueueLive
<1> QED BY <1>4, <1>5, <1>6, <1>7, <1>8 DEF QueueLive

(* A new call: its segment is not there yet and nothing speaks of it. *)
LEMMA CallKeeps ==
  ASSUME NEW q \in Seq(Event), NEW r \in Seq(Event), NEW t \in Nat, Len(r) = Len(q) + 2,
         \A j \in 1..Len(q) : r[j] = q[j],
         r[Len(q) + 1] = Start(t), r[Len(q) + 2] = Args(t),
         NEW segs, NEW cs, NEW ds, NEW p, QueueLive(q, segs, cs, p),
         t \notin DOMAIN cs, DOMAIN ds = DOMAIN cs \cup {t},
         \A u \in DOMAIN cs : ds[u] = cs[u], ds[t].stage # "answered"
  PROVE  QueueLive(r, segs, ds, p)
<1>1. Len(q) \in Nat /\ Len(r) \in Nat OBVIOUS
<1>2. \A j \in 1..Len(r) : \/ j \in 1..Len(q) /\ r[j] = q[j]
                           \/ j = Len(q) + 1 /\ r[j].type = "START" /\ r[j].id = t
                           \/ j = Len(q) + 2 /\ r[j].type = "ARGS"
  <2>1. /\ r[Len(q) + 1].type = "START" /\ r[Len(q) + 1].id = t
        /\ r[Len(q) + 2].type = "ARGS"
    BY DEF Start, Args
  <2>2. \A j \in 1..Len(r) : j \in 1..Len(q) \/ j = Len(q) + 1 \/ j = Len(q) + 2
    BY <1>1
  <2> QED BY <2>1, <2>2
<1>3. \A j \in 1..Len(q) : q[j].type \in {"START", "RESULT"} => q[j].id \in DOMAIN cs
  BY DEF QueueLive
<1>4. ASSUME NEW u \in DOMAIN cs, NEW n \in 0..Len(q), NEW m \in 0..Len(r), n <= m,
             Caught(q, segs, u, n)
      PROVE  Caught(r, segs, u, m)
  <2>1. \A j \in 1..Len(r) : j > Len(q) => ~(r[j].type = "START" /\ r[j].id = u)
    BY <1>1, <1>2
  <2> QED BY <1>1, <1>4, <2>1, CaughtStays
<1>5. \A j \in 1..Len(r) :
       /\ r[j].type \in {"START", "RESULT"} => r[j].id \in DOMAIN ds
       /\ r[j].type = "START" => r[j].id \notin DOMAIN p.calls
       /\ r[j].type = "RESULT" => ds[r[j].id].stage = "answered"
  BY <1>2, <1>3 DEF QueueLive
<1>7. ASSUME NEW j \in 1..Len(r), r[j].type = "SNAPSHOT", NEW u \in r[j].answered
      PROVE  u \in DOMAIN ds /\ Caught(r, segs, u, j - 1)
  <2>1. j \in 1..Len(q) /\ r[j] = q[j] BY <1>2, <1>7
  <2>2. j - 1 \in 0..Len(q) /\ j - 1 \in 0..Len(r) /\ j - 1 <= j - 1 BY <1>1, <2>1
  <2>3. u \in DOMAIN cs /\ Caught(q, segs, u, j - 1) BY <1>7, <2>1 DEF QueueLive
  <2> QED BY <1>4, <2>2, <2>3
<1>8. ASSUME NEW j \in 1..Len(r), NEW k \in 1..Len(r),
             r[j].type \in {"START", "RESULT"}, r[k].type = "START", r[j].id = r[k].id
      PROVE  k <= j
  <2>1. CASE k \in 1..Len(q)
    <3>1. r[k] = q[k] /\ r[k].id \in DOMAIN cs BY <1>2, <1>3, <1>8, <2>1, <1>1
    <3>2. j \in 1..Len(q) /\ r[j] = q[j] BY <1>2, <1>8, <3>1
    <3> QED BY <1>8, <2>1, <3>1, <3>2 DEF QueueLive
  <2>2. CASE k \notin 1..Len(q)
    <3>1. k = Len(q) + 1 /\ r[j].id = t BY <1>2, <1>8, <2>2
    <3>2. j \notin 1..Len(q) BY <1>2, <1>3, <1>8, <3>1
    <3> QED BY <1>1, <3>1, <3>2
  <2> QED BY <2>1, <2>2
<1>9. ASSUME NEW u \in DOMAIN ds, ds[u].stage = "answered" PROVE Caught(r, segs, u, Len(r))
  <2>1. u \in DOMAIN cs /\ cs[u].stage = "answered" BY <1>9
  <2>2. Caught(q, segs, u, Len(q)) BY <2>1 DEF QueueLive
  <2>3. Len(q) \in 0..Len(q) /\ Len(r) \in 0..Len(r) /\ Len(q) <= Len(r) BY <1>1
  <2> QED BY <1>4, <2>1, <2>2, <2>3
<1>10. p = [calls |-> p.calls, error |-> p.error] /\ DOMAIN p.calls \subseteq DOMAIN ds
  BY DEF QueueLive
<1> QED BY <1>5, <1>7, <1>8, <1>9, <1>10 DEF QueueLive

(* An answer: the result, and behind it a snapshot that counts it. *)
AnswerQueued(q, r, t, cs, ds) ==
  /\ Len(r) = Len(q) + 2 /\ \A j \in 1..Len(q) : r[j] = q[j]
  /\ r[Len(q) + 1] = Result(t, "none")
  /\ r[Len(q) + 2] = Snapshot({u \in DOMAIN cs : cs[u].stage = "answered"} \cup {t})
  /\ t \in DOMAIN cs /\ DOMAIN ds = DOMAIN cs
  /\ \A u \in DOMAIN cs : u # t => ds[u] = cs[u]
  /\ ds[t].stage = "answered"

LEMMA AnswerKeeps ==
  ASSUME NEW q \in Seq(Event), NEW r \in Seq(Event), NEW t \in Nat, NEW segs, NEW cs, NEW ds, NEW p,
         QueueLive(q, segs, cs, p), AnswerQueued(q, r, t, cs, ds)
  PROVE  QueueLive(r, segs, ds, p)
<1> DEFINE T == {u \in DOMAIN cs : cs[u].stage = "answered"} \cup {t}
<1> USE DEF AnswerQueued
<1>1. Len(q) \in Nat /\ Len(r) \in Nat OBVIOUS
<1>2. \A j \in 1..Len(r) :
        \/ j \in 1..Len(q) /\ r[j] = q[j]
        \/ j = Len(q) + 1 /\ r[j].type = "RESULT" /\ r[j].id = t
        \/ j = Len(q) + 2 /\ r[j].type = "SNAPSHOT" /\ r[j].answered = T
  <2>1. /\ r[Len(q) + 1].type = "RESULT" /\ r[Len(q) + 1].id = t
        /\ r[Len(q) + 2].type = "SNAPSHOT" /\ r[Len(q) + 2].answered = T
    BY DEF Result, Snapshot
  <2>2. \A j \in 1..Len(r) : j \in 1..Len(q) \/ j = Len(q) + 1 \/ j = Len(q) + 2
    BY <1>1
  <2> QED BY <2>1, <2>2
<1>3. ASSUME NEW u, NEW n \in 0..Len(q), NEW m \in 0..Len(r), n <= m, Caught(q, segs, u, n)
      PROVE  Caught(r, segs, u, m)
  <2>1. \A j \in 1..Len(r) : j > Len(q) => ~(r[j].type = "START" /\ r[j].id = u)
    BY <1>1, <1>2
  <2>2. /\ q \in Seq(Event) /\ r \in Seq(Event) /\ Len(q) <= Len(r)
        /\ \A j \in 1..Len(q) : r[j] = q[j]
    OBVIOUS
  <2> QED BY ONLY <1>3, <2>1, <2>2, CaughtStays
<1>4. \A m \in 0..Len(r) : m > Len(q) => Caught(r, segs, t, m)
  <2> SUFFICES ASSUME NEW m \in 0..Len(r), m > Len(q) PROVE Caught(r, segs, t, m)
    OBVIOUS
  <2>1. Len(q) + 1 \in 1..m /\ Len(q) + 1 \in 1..Len(r) BY <1>1
  <2>2. r[Len(q) + 1].type = "RESULT" /\ r[Len(q) + 1].id = t BY DEF Result
  <2> QED BY <2>1, <2>2 DEF Caught, Told
<1>5. \A j \in 1..Len(q) : q[j].type \in {"START", "RESULT"} => q[j].id \in DOMAIN cs
  BY DEF QueueLive
<1>6. \A j \in 1..Len(r) :
       /\ r[j].type \in {"START", "RESULT"} => r[j].id \in DOMAIN ds
       /\ r[j].type = "START" => r[j].id \notin DOMAIN p.calls
       /\ r[j].type = "RESULT" => ds[r[j].id].stage = "answered"
  <2> TAKE j \in 1..Len(r)
  <2>1. CASE j \in 1..Len(q) /\ r[j] = q[j]
    <3>1. r[j].type = "RESULT" => cs[r[j].id].stage = "answered" BY <2>1 DEF QueueLive
    <3> QED BY <1>5, <2>1, <3>1 DEF QueueLive
  <2> QED BY <1>2, <2>1
<1>7. ASSUME NEW u \in DOMAIN ds, ds[u].stage = "answered", NEW m \in 0..Len(r), m > Len(q)
      PROVE  Caught(r, segs, u, m)
  <2>1. CASE u = t BY <1>4, <1>7, <2>1
  <2>2. CASE u # t
    <3>1. Caught(q, segs, u, Len(q)) BY <1>7, <2>2 DEF QueueLive
    <3>2. Len(q) \in 0..Len(q) /\ Len(q) <= m BY <1>1, <1>7
    <3> QED BY <1>3, <3>1, <3>2
  <2> QED BY <2>1, <2>2
<1>8. ASSUME NEW j \in 1..Len(r), r[j].type = "SNAPSHOT", NEW u \in r[j].answered
      PROVE  u \in DOMAIN ds /\ Caught(r, segs, u, j - 1)
  <2>1. CASE j \in 1..Len(q)
    <3>1. r[j] = q[j] BY <1>2, <2>1
    <3>2. j - 1 \in 0..Len(q) /\ j - 1 \in 0..Len(r) /\ j - 1 <= j - 1 BY <1>1, <2>1
    <3>3. u \in DOMAIN cs /\ Caught(q, segs, u, j - 1) BY <1>8, <2>1, <3>1 DEF QueueLive
    <3> QED BY <1>3, <3>2, <3>3
  <2>2. CASE j \notin 1..Len(q)
    <3>1. j = Len(q) + 2 /\ u \in T BY <1>2, <1>8, <2>2
    <3>2. j - 1 \in 0..Len(r) /\ j - 1 > Len(q) BY <1>1, <3>1
    <3>3. u \in DOMAIN ds /\ ds[u].stage = "answered" BY <3>1
    <3> QED BY <1>7, <3>2, <3>3
  <2> QED BY <2>1, <2>2
<1>9. ASSUME NEW j \in 1..Len(r), NEW k \in 1..Len(r),
             r[j].type \in {"START", "RESULT"}, r[k].type = "START", r[j].id = r[k].id
      PROVE  k <= j
  <2>1. k \in 1..Len(q) /\ r[k] = q[k] BY <1>2, <1>9
  <2>2. CASE j \in 1..Len(q)
    <3>1. r[j] = q[j] BY <1>2, <2>2, <1>1
    <3> QED BY <1>9, <2>1, <2>2, <3>1 DEF QueueLive
  <2>3. CASE j \notin 1..Len(q) BY <1>1, <2>1, <2>3
  <2> QED BY <2>2, <2>3
<1>10. ASSUME NEW u \in DOMAIN ds, ds[u].stage = "answered" PROVE Caught(r, segs, u, Len(r))
  <2>1. Len(r) \in 0..Len(r) /\ Len(r) > Len(q) BY <1>1
  <2> QED BY <1>7, <1>10, <2>1
<1>11. p = [calls |-> p.calls, error |-> p.error] /\ DOMAIN p.calls \subseteq DOMAIN ds
  BY DEF QueueLive
<1> QED BY <1>6, <1>8, <1>9, <1>10, <1>11 DEF QueueLive

(* What an event does to the segments: the old ones keep what they are, a result is marked
   on the segment of its call and on no other, and a new tool segment is a new call's. *)
OneEach(segs) ==
  \A i, j \in 1..Len(segs) :
    IsTool(segs[i]) /\ IsTool(segs[j]) /\ segs[i].id = segs[j].id => i = j

(* A tool call that has a segment is found by its id. *)
LEMMA LastMatchFound ==
  ASSUME NEW segs \in Seq(Segment), NEW i \in 1..Len(segs), IsTool(segs[i])
  PROVE  LastMatch(segs, segs[i].id) > 0
<1> DEFINE I == {k \in 1..Len(segs) : segs[k].type = "tool" /\ segs[k].id = segs[i].id}
<1>1. LastMatch(segs, segs[i].id) = IF I # {} THEN Max(I) ELSE 0
  BY DEF LastMatch, SelectLastInSeq
<1>2. i \in I BY DEF IsTool
<1>3. Len(segs) \in Nat /\ I \in SUBSET (1..Len(segs)) OBVIOUS
<1> HIDE DEF I
<1>4. Max(I) \in 1..Len(segs) BY <1>2, <1>3, MaxIn
<1> QED BY <1>1, <1>2, <1>4

Accumulated(segs, e, s) ==
  /\ Len(s) \in {Len(segs), Len(segs) + 1}
  /\ \A i \in 1..Len(segs) :
       /\ IsTool(s[i]) <=> IsTool(segs[i])
       /\ IsTool(segs[i]) =>
            /\ s[i].id = segs[i].id
            /\ s[i].result = (segs[i].result \/ (e.type = "RESULT" /\ e.id = segs[i].id))
  /\ Len(s) > Len(segs) /\ IsTool(s[Len(s)]) =>
       e.type = "START" /\ s[Len(s)].id = e.id /\ s[Len(s)].result = FALSE

LEMMA AccumulateEffect ==
  ASSUME NEW segs \in Seq(Segment), NEW e \in Event, OneEach(segs)
  PROVE  Accumulated(segs, e, Accumulate(segs, e))
<1> SUFFICES ASSUME NEW s, s = Accumulate(segs, e) PROVE Accumulated(segs, e, s)
  OBVIOUS
<1> USE DEF Accumulated
<1>1. /\ Len(segs) \in Nat
      /\ \A i \in 1..Len(segs) :
           segs[i] \in Segment /\ (IsTool(segs[i]) => segs[i].result \in BOOLEAN)
  <2>1. \A i \in 1..Len(segs) : segs[i] \in Segment OBVIOUS
  <2>2. \A x \in Segment : IsTool(x) => x.result \in BOOLEAN
    BY DEF Segment, TextSegment, IsTool
  <2> QED BY <2>1, <2>2
<1>2. ASSUME s = segs, e.type # "RESULT" \/ (e.type = "RESULT" /\ ~(LastMatch(segs, e.id) > 0))
      PROVE  /\ Len(s) = Len(segs)
             /\ \A i \in 1..Len(segs) :
                  /\ IsTool(s[i]) <=> IsTool(segs[i])
                  /\ IsTool(segs[i]) =>
                       /\ s[i].id = segs[i].id
                       /\ s[i].result = (segs[i].result \/ (e.type = "RESULT" /\ e.id = segs[i].id))
  <2>1. ASSUME NEW i \in 1..Len(segs), IsTool(segs[i]), e.type = "RESULT", e.id = segs[i].id
        PROVE  LastMatch(segs, e.id) > 0
    BY <1>1, <2>1, LastMatchFound
  <2>2. \A i \in 1..Len(segs) : IsTool(segs[i]) => ~(e.type = "RESULT" /\ e.id = segs[i].id)
    BY <1>2, <2>1
  <2>3. \A i \in 1..Len(segs) : IsTool(segs[i]) =>
           s[i].result = (segs[i].result \/ (e.type = "RESULT" /\ e.id = segs[i].id))
    BY <1>1, <1>2, <2>2
  <2> QED BY <1>2, <2>3
<1>3. ASSUME NEW x \in Segment, s = Append(segs, x), e.type # "RESULT"
      PROVE  /\ Len(s) = Len(segs) + 1 /\ s[Len(s)] = x
             /\ \A i \in 1..Len(segs) :
                  /\ IsTool(s[i]) <=> IsTool(segs[i])
                  /\ IsTool(segs[i]) =>
                       /\ s[i].id = segs[i].id
                       /\ s[i].result = (segs[i].result \/ (e.type = "RESULT" /\ e.id = segs[i].id))
  <2>1. Len(s) = Len(segs) + 1 /\ s[Len(s)] = x /\ \A i \in 1..Len(segs) : s[i] = segs[i]
    BY <1>3
  <2>2. \A i \in 1..Len(segs) : IsTool(segs[i]) =>
           s[i].result = (segs[i].result \/ (e.type = "RESULT" /\ e.id = segs[i].id))
    BY <1>1, <1>3, <2>1
  <2> QED BY <2>1, <2>2
<1>4. CASE e.type = "TEXT"
  <2>1. s = segs \/ s = Append(segs, TextSegment) BY <1>4 DEF Accumulate
  <2>2. TextSegment \in Segment /\ ~IsTool(TextSegment) BY DEF Segment, TextSegment, IsTool
  <2>3. CASE s = segs BY <1>1, <1>2, <1>4, <2>3
  <2>4. CASE s = Append(segs, TextSegment) BY <1>1, <1>3, <1>4, <2>2, <2>4
  <2> QED BY <2>1, <2>3, <2>4
<1>5. CASE e.type = "START"
  <2>1. e.id \in Nat
    BY <1>5 DEF Event, Text, Started, Finished, End, Start, Args, Result, Snapshot, Error
  <2>2. ToolSegment(e.id) \in Segment /\ ToolSegment(e.id).id = e.id
        /\ ToolSegment(e.id).result = FALSE
    BY <2>1 DEF ToolSegment, Segment
  <2>3. s = Append(segs, ToolSegment(e.id)) BY <1>5 DEF Accumulate
  <2> QED BY <1>1, <1>3, <1>5, <2>2, <2>3
<1>6. CASE e.type \in {"ARGS", "RESULT"} /\ LastMatch(segs, e.id) > 0
  <2> DEFINE k == LastMatch(segs, e.id)
  <2>1. k \in 1..Len(segs) /\ segs[k].type = "tool" /\ segs[k].id = e.id
    BY <1>6, LastMatchIn
  <2>2. segs[k] \in Segment /\ segs[k] # TextSegment BY <2>1 DEF TextSegment
  <2>3. CASE e.type = "ARGS"
    <3>1. s = [segs EXCEPT ![k] = [segs[k] EXCEPT !.input = TRUE]] BY <1>6, <2>3 DEF Accumulate
    <3>2. LET x == [segs[k] EXCEPT !.input = TRUE]
          IN  x.type = "tool" /\ x.id = segs[k].id /\ x.result = segs[k].result
      BY <2>1, <2>2 DEF Segment
    <3> HIDE DEF k
    <3>3. /\ Len(s) = Len(segs) /\ \A i \in 1..Len(segs) : i # k => s[i] = segs[i]
          /\ s[k] = [segs[k] EXCEPT !.input = TRUE]
      <4> DEFINE x == [segs[k] EXCEPT !.input = TRUE]
      <4>1. x \in Segment BY <2>2 DEF Segment
      <4>2. s = [segs EXCEPT ![k] = x] BY <3>1
      <4> HIDE DEF x
      <4>3. /\ Len(s) = Len(segs) /\ s[k] = x
            /\ \A i \in 1..Len(segs) : i # k => s[i] = segs[i]
        BY <2>1, <4>1, <4>2, ExceptSeq
      <4> QED BY <4>3 DEF x
    <3>4. \A i \in 1..Len(segs) : IsTool(segs[i]) => s[i].result = segs[i].result /\ s[i].id = segs[i].id
      BY <3>2, <3>3
    <3>5. \A i \in 1..Len(segs) : IsTool(s[i]) <=> IsTool(segs[i])
      BY <2>1, <3>2, <3>3 DEF IsTool
    <3>6. \A i \in 1..Len(segs) : IsTool(segs[i]) =>
             s[i].result = (segs[i].result \/ (e.type = "RESULT" /\ e.id = segs[i].id))
      BY <1>1, <2>3, <3>4
    <3> QED BY <1>1, <3>3, <3>4, <3>5, <3>6
  <2>4. CASE e.type = "RESULT"
    <3>1. s = [segs EXCEPT ![k] = [segs[k] EXCEPT !.result = TRUE]] BY <1>6, <2>4 DEF Accumulate
    <3>2. LET x == [segs[k] EXCEPT !.result = TRUE]
          IN  x.type = "tool" /\ x.id = segs[k].id /\ x.result = TRUE
      BY <2>1, <2>2 DEF Segment
    <3> HIDE DEF k
    <3>3. /\ Len(s) = Len(segs) /\ \A i \in 1..Len(segs) : i # k => s[i] = segs[i]
          /\ s[k] = [segs[k] EXCEPT !.result = TRUE]
      <4> DEFINE x == [segs[k] EXCEPT !.result = TRUE]
      <4>1. x \in Segment BY <2>2 DEF Segment
      <4>2. s = [segs EXCEPT ![k] = x] BY <3>1
      <4> HIDE DEF x
      <4>3. /\ Len(s) = Len(segs) /\ s[k] = x
            /\ \A i \in 1..Len(segs) : i # k => s[i] = segs[i]
        BY <2>1, <4>1, <4>2, ExceptSeq
      <4> QED BY <4>3 DEF x
    <3>4. \A i \in 1..Len(segs) : IsTool(segs[i]) => s[i].id = segs[i].id
      BY <3>2, <3>3
    <3>5. \A i \in 1..Len(segs) : IsTool(s[i]) <=> IsTool(segs[i])
      BY <2>1, <3>2, <3>3 DEF IsTool
    <3>6. \A i \in 1..Len(segs) : IsTool(segs[i]) /\ e.id = segs[i].id => i = k
      BY <2>1 DEF OneEach, IsTool
    <3>7. ASSUME NEW i \in 1..Len(segs), IsTool(segs[i])
          PROVE  s[i].result = (segs[i].result \/ (e.type = "RESULT" /\ e.id = segs[i].id))
      <4>1. CASE i = k BY <2>1, <2>4, <3>2, <3>3, <4>1
      <4>2. CASE i # k BY <1>1, <3>3, <3>6, <3>7, <4>2
      <4> QED BY <4>1, <4>2
    <3> QED BY <1>1, <3>3, <3>4, <3>5, <3>7
  <2> QED BY <1>6, <2>3, <2>4
<1>7. CASE /\ e.type \notin {"TEXT", "START"}
           /\ ~(e.type \in {"ARGS", "RESULT"} /\ LastMatch(segs, e.id) > 0)
  <2>1. s = segs BY <1>7 DEF Accumulate
  <2> QED BY <1>1, <1>2, <1>7, <2>1
<1> QED BY <1>4, <1>5, <1>6, <1>7

(* What an event does to the console's projection. *)
Reduced(p, e, r) ==
  /\ r = [calls |-> r.calls, error |-> r.error]
  /\ DOMAIN r.calls = IF e.type \in {"START", "RESULT"} THEN DOMAIN p.calls \cup {e.id}
                                                        ELSE DOMAIN p.calls
  /\ e.type = "START" => r.calls[e.id] = "streaming"
  /\ e.type = "RESULT" => r.calls[e.id] = IF e.status = "error" THEN "error" ELSE "complete"
  /\ e.type \in {"START", "RESULT"} =>
       \A u \in DOMAIN p.calls : u # e.id => r.calls[u] = p.calls[u]
  /\ e.type = "SNAPSHOT" => \A u \in DOMAIN p.calls :
       r.calls[u] = IF u \in e.answered
                    THEN IF p.calls[u] = "error" THEN "error" ELSE "complete" ELSE p.calls[u]
  /\ IsTerminal(e) => \A u \in DOMAIN p.calls :
       r.calls[u] = IF p.calls[u] \in Unresolved THEN "incomplete" ELSE p.calls[u]
  /\ e.type \in {"TEXT", "ARGS", "STARTED", "END"} => r = p

LEMMA ReduceEffect ==
  ASSUME NEW p, p = [calls |-> p.calls, error |-> p.error], NEW e \in Event,
         e.type = "START" => e.id \notin DOMAIN p.calls
  PROVE  Reduced(p, e, Reduce(p, e))
<1> DEFINE c == p.calls
           x == p.error
           r == Reduce(p, e)
<1> HIDE DEF c, x
<1>0. p = [calls |-> c, error |-> x] BY DEF c, x
<1>1. p.calls = c /\ p.error = x /\ \A f : [p EXCEPT !.calls = f] = [calls |-> f, error |-> x]
  BY <1>0
<1>2. ASSUME NEW t, NEW s
      PROVE  Shown(p, t, s) = [calls |-> [u \in DOMAIN c \cup {t} |-> IF u = t THEN s ELSE c[u]],
                               error |-> x]
  BY <1>0, <1>1 DEF Shown
<1>3. CASE e.type = "START"
  <2>1. r = Shown(p, e.id, "streaming") BY <1>3 DEF Reduce
  <2> DEFINE f == [u \in DOMAIN c \cup {e.id} |-> IF u = e.id THEN "streaming" ELSE c[u]]
  <2>2. r = [calls |-> f, error |-> x] BY <1>2, <2>1
  <2>3. DOMAIN f = DOMAIN c \cup {e.id} /\ f[e.id] = "streaming"
        /\ \A u \in DOMAIN c : u # e.id => f[u] = c[u]
    OBVIOUS
  <2> HIDE DEF f, r
  <2> QED BY <1>1, <1>3, <2>2, <2>3 DEF r, IsTerminal, Reduced
<1>4. CASE e.type = "RESULT"
  <2> DEFINE s == IF e.status = "error" THEN "error" ELSE "complete"
             f == [u \in DOMAIN c \cup {e.id} |-> IF u = e.id THEN s ELSE c[u]]
  <2>1. r = Shown(p, e.id, s) BY <1>4 DEF Reduce
  <2> HIDE DEF s
  <2>2. r = [calls |-> f, error |-> x] BY <1>2, <2>1
  <2>3. DOMAIN f = DOMAIN c \cup {e.id} /\ f[e.id] = s
        /\ \A u \in DOMAIN c : u # e.id => f[u] = c[u]
    OBVIOUS
  <2> HIDE DEF f, r
  <2> QED BY <1>1, <1>4, <2>2, <2>3 DEF r, s, IsTerminal, Reduced
<1>5. CASE e.type = "SNAPSHOT"
  <2> DEFINE f == [u \in DOMAIN c |-> IF u \in e.answered
                      THEN IF c[u] = "error" THEN "error" ELSE "complete" ELSE c[u]]
  <2>1. r = [calls |-> f, error |-> x] BY <1>1, <1>5 DEF Reduce, Answer
  <2>2. DOMAIN f = DOMAIN c OBVIOUS
  <2>3. \A u \in DOMAIN c : f[u] = IF u \in e.answered
                      THEN IF c[u] = "error" THEN "error" ELSE "complete" ELSE c[u]
    OBVIOUS
  <2> HIDE DEF f, r
  <2> QED BY <1>1, <1>5, <2>1, <2>2, <2>3 DEF r, IsTerminal, Reduced
<1>6. CASE IsTerminal(e)
  <2> DEFINE f == [u \in DOMAIN c |-> IF c[u] \in Unresolved THEN "incomplete" ELSE c[u]]
  <2>1. SettleCalls(p) = [calls |-> f, error |-> x] BY <1>1 DEF SettleCalls
  <2>2. \A y : [SettleCalls(p) EXCEPT !.error = y] = [calls |-> f, error |-> y] BY <2>1
  <2>3. \E y : r = [calls |-> f, error |-> y]
    <3> HIDE DEF f
    <3>1. CASE e.type = "ERROR" BY <2>2, <3>1 DEF Reduce
    <3>2. CASE e.type = "FINISHED" BY <2>1, <3>2 DEF Reduce
    <3> QED BY <1>6, <3>1, <3>2 DEF IsTerminal
  <2>4. DOMAIN f = DOMAIN c OBVIOUS
  <2>5. \A u \in DOMAIN c : f[u] = IF c[u] \in Unresolved THEN "incomplete" ELSE c[u]
    OBVIOUS
  <2> HIDE DEF f, r
  <2>6. r = [calls |-> r.calls, error |-> r.error] /\ r.calls = f BY <2>3
  <2> QED BY <1>1, <1>6, <2>4, <2>5, <2>6 DEF r, IsTerminal, Reduced
<1>7. CASE e.type \notin {"START", "RESULT", "SNAPSHOT"} /\ ~IsTerminal(e)
  <2>1. r = p BY <1>7 DEF Reduce, IsTerminal
  <2> HIDE DEF r
  <2> QED BY <1>0, <1>1, <1>7, <2>1 DEF r, Reduced
<1> QED BY <1>3, <1>4, <1>5, <1>6, <1>7

(* The event at the head is read. It was rewritten to e on the way and goes out as o. *)
Read(q, r, e, o, seen) ==
  /\ Len(q) > 0 /\ Len(r) = Len(q) - 1
  /\ \A j \in 1..Len(r) : r[j] = q[j + 1]
  /\ e = q[1] \/ (IsTerminal(e) /\ IsTerminal(q[1]))
  /\ o.type = e.type
  /\ e.type = "RESULT" => o = Result(e.id, Recorded(seen, e.id))
  /\ e.type # "RESULT" /\ ~IsTerminal(e) => o = e

LEMMA CaughtForward ==
  ASSUME NEW q \in Seq(Event), NEW r \in Seq(Event), NEW segs \in Seq(Segment),
         NEW e \in Event, NEW o \in Event, NEW seen, Read(q, r, e, o, seen), OneEach(segs),
         \A k \in 1..Len(q) : q[1].type \in {"START", "RESULT"} /\ q[k].type = "START"
                              /\ q[k].id = q[1].id => k <= 1,
         NEW s \in Seq(Segment), s = Accumulate(segs, e),
         NEW u, NEW n \in 1..Len(q), Caught(q, segs, u, n)
  PROVE  Caught(r, s, u, n - 1)
<1>1. Len(q) \in Nat /\ Len(r) \in Nat /\ Len(segs) \in Nat /\ Len(s) \in Nat OBVIOUS
<1>2. Accumulated(segs, e, s) BY AccumulateEffect
<1>3. \A i \in 1..Len(s) : i \in 1..Len(segs) \/ (i = Len(s) /\ Len(s) > Len(segs))
  BY <1>1, <1>2 DEF Accumulated
<1>4. \A j \in 1..Len(r) : r[j] = q[j + 1] /\ j + 1 \in 1..Len(q)
  BY <1>1 DEF Read
<1>5. e.type \in {"START", "RESULT"} => e = q[1]
  BY DEF Read, IsTerminal
<1>6. Starts(r, u) => \E k \in 1..Len(q) : k > 1 /\ q[k].type = "START" /\ q[k].id = u
  <2> SUFFICES ASSUME NEW j \in 1..Len(r), r[j].type = "START", r[j].id = u
               PROVE  \E k \in 1..Len(q) : k > 1 /\ q[k].type = "START" /\ q[k].id = u
    BY DEF Starts
  <2>1. j + 1 \in 1..Len(q) /\ j + 1 > 1 /\ q[j + 1] = r[j] BY <1>1, <1>4
  <2> QED BY <2>1
<1>7. CASE Told(q, u, n)
  <2>1. PICK k \in 1..n : q[k].type = "RESULT" /\ q[k].id = u BY <1>7 DEF Told
  <2>2. CASE k > 1
    <3>1. k - 1 \in 1..n - 1 /\ k - 1 \in 1..Len(r) /\ k - 1 + 1 = k
      BY <1>1, <2>2 DEF Read
    <3>2. r[k - 1] = q[k] BY <1>4, <3>1
    <3> QED BY <2>1, <3>1, <3>2 DEF Caught, Told
  <2>3. CASE k = 1
    <3>1. e = q[1] /\ e.type = "RESULT" /\ e.id = u
      BY <2>1, <2>3 DEF Read, IsTerminal
    <3>2. ~Starts(r, u) BY <1>1, <1>6, <3>1
    <3>3. Filled(s, u)
      <4> SUFFICES ASSUME NEW i \in 1..Len(s), IsTool(s[i]), s[i].id = u PROVE s[i].result
        BY DEF Filled
      <4>1. i \in 1..Len(segs) BY <1>2, <1>3, <3>1 DEF Accumulated
      <4>2. IsTool(segs[i]) /\ segs[i].id = u
            /\ s[i].result = (segs[i].result \/ (e.type = "RESULT" /\ e.id = segs[i].id))
        BY <1>2, <4>1 DEF Accumulated
      <4> QED BY <3>1, <4>2
    <3> QED BY <3>2, <3>3 DEF Caught
  <2>4. k > 1 \/ k = 1 BY <1>1, <2>1
  <2> QED BY <2>2, <2>3, <2>4
<1>8. CASE ~Starts(q, u) /\ Filled(segs, u)
  <2>1. ~Starts(r, u) BY <1>6, <1>8 DEF Starts
  <2>2. ~(e.type = "START" /\ e.id = u)
    <3>1. 1 \in 1..Len(q) BY <1>1 DEF Read
    <3> QED BY <1>5, <1>8, <3>1 DEF Starts
  <2>3. Filled(s, u)
    <3> SUFFICES ASSUME NEW i \in 1..Len(s), IsTool(s[i]), s[i].id = u PROVE s[i].result
      BY DEF Filled
    <3>1. i \in 1..Len(segs) BY <1>2, <1>3, <2>2 DEF Accumulated
    <3>2. IsTool(segs[i]) /\ segs[i].id = u
          /\ s[i].result = (segs[i].result \/ (e.type = "RESULT" /\ e.id = segs[i].id))
      BY <1>2, <3>1 DEF Accumulated
    <3>3. segs[i].result BY <1>8, <3>1, <3>2 DEF Filled
    <3> QED BY <3>2, <3>3
  <2> QED BY <2>1, <2>3 DEF Caught
<1> QED BY <1>7, <1>8 DEF Caught

LEMMA ForwardKeeps ==
  ASSUME NEW q \in Seq(Event), NEW r \in Seq(Event), NEW segs \in Seq(Segment),
         NEW e \in Event, NEW o \in Event, NEW seen, Read(q, r, e, o, seen),
         NEW s \in Seq(Segment), s = Accumulate(segs, e), NEW cs, NEW p,
         QueueLive(q, segs, cs, p), SegmentsLive(segs, cs, p, seen)
  PROVE  /\ QueueLive(r, s, cs, Reduce(p, o))
         /\ SegmentsLive(s, cs, Reduce(p, o), seen)
<1> DEFINE pp == Reduce(p, o)
<1>1. Len(q) \in Nat /\ Len(r) \in Nat /\ Len(segs) \in Nat /\ Len(s) \in Nat OBVIOUS
<1>2. /\ 1 \in 1..Len(q) /\ Len(q) > 0 /\ Len(r) = Len(q) - 1
      /\ \A j \in 1..Len(r) : r[j] = q[j + 1] /\ j + 1 \in 1..Len(q) /\ j + 1 > 1
  BY <1>1 DEF Read
<1>3. OneEach(segs) BY DEF OneEach, SegmentsLive
<1>4. /\ e.type \in {"START", "RESULT", "SNAPSHOT"} => e = q[1]
      /\ e.type \in {"START", "SNAPSHOT", "TEXT", "ARGS", "STARTED", "END"} => o = e
      /\ e.type = "RESULT" => o.id = e.id /\ o.status = Recorded(seen, e.id)
      /\ o.type = e.type /\ (IsTerminal(o) <=> IsTerminal(e))
  BY DEF Read, IsTerminal, Result
<1>5. Accumulated(segs, e, s) BY <1>3, AccumulateEffect
<1>6. /\ p = [calls |-> p.calls, error |-> p.error]
      /\ DOMAIN p.calls \subseteq DOMAIN cs
      /\ q[1].type \in {"START", "RESULT"} => q[1].id \in DOMAIN cs
      /\ q[1].type = "START" => q[1].id \notin DOMAIN p.calls
      /\ q[1].type = "RESULT" => cs[q[1].id].stage = "answered"
      /\ q[1].type = "SNAPSHOT" =>
           \A u \in q[1].answered : u \in DOMAIN cs /\ Caught(q, segs, u, 1 - 1)
      /\ \A k \in 1..Len(q) : q[1].type \in {"START", "RESULT"} /\ q[k].type = "START"
                              /\ q[k].id = q[1].id => k <= 1
  BY <1>2 DEF QueueLive
<1>7. o.type = "START" => o.id \notin DOMAIN p.calls BY <1>4, <1>6
<1>8. /\ pp = [calls |-> pp.calls, error |-> pp.error]
      /\ DOMAIN pp.calls = IF e.type \in {"START", "RESULT"} THEN DOMAIN p.calls \cup {e.id}
                                                            ELSE DOMAIN p.calls
      /\ e.type = "START" => pp.calls[e.id] = "streaming"
      /\ e.type = "RESULT" => pp.calls[e.id] = Colour(seen, e.id)
      /\ e.type \in {"START", "RESULT"} =>
           \A u \in DOMAIN p.calls : u # e.id => pp.calls[u] = p.calls[u]
      /\ e.type = "SNAPSHOT" => \A u \in DOMAIN p.calls :
           pp.calls[u] = IF u \in e.answered
                         THEN IF p.calls[u] = "error" THEN "error" ELSE "complete" ELSE p.calls[u]
      /\ IsTerminal(e) => \A u \in DOMAIN p.calls :
           pp.calls[u] = IF p.calls[u] \in Unresolved THEN "incomplete" ELSE p.calls[u]
      /\ e.type \in {"TEXT", "ARGS", "STARTED", "END"} => pp = p
  <2>1. Reduced(p, o, pp) BY <1>6, <1>7, ReduceEffect
  <2> HIDE DEF pp
  <2>2. e.type \in {"START", "RESULT"} => o.id = e.id BY <1>4
  <2> QED BY <1>4, <2>1, <2>2 DEF Reduced, Colour
<1> HIDE DEF pp
<1>9. e.type \in {"START", "RESULT", "SNAPSHOT", "TEXT", "ARGS", "STARTED", "END"} \/ IsTerminal(e)
  BY DEF Event, Text, Started, Finished, End, Start, Args, Result, Snapshot, Error, IsTerminal
<1>10. ASSUME NEW u, NEW n \in 1..Len(q), Caught(q, segs, u, n)
       PROVE  Caught(r, s, u, n - 1)
  <2>1. \A k \in 1..Len(q) : q[1].type \in {"START", "RESULT"} /\ q[k].type = "START"
                             /\ q[k].id = q[1].id => k <= 1
    BY <1>6
  <2> QED BY <1>3, <1>10, <2>1, CaughtForward
<1>11. QueueLive(r, s, cs, pp)
  <2>1. DOMAIN pp.calls \subseteq DOMAIN cs BY <1>4, <1>6, <1>8
  <2>2. ASSUME NEW j \in 1..Len(r)
        PROVE  /\ r[j].type \in {"START", "RESULT"} => r[j].id \in DOMAIN cs
               /\ r[j].type = "START" => r[j].id \notin DOMAIN pp.calls
               /\ r[j].type = "RESULT" => cs[r[j].id].stage = "answered"
               /\ r[j].type = "SNAPSHOT" =>
                    \A u \in r[j].answered : u \in DOMAIN cs /\ Caught(r, s, u, j - 1)
    <3> DEFINE k == j + 1
    <3>1. k \in 1..Len(q) /\ k > 1 /\ r[j] = q[k] /\ j = k - 1 BY <1>1, <1>2
    <3> HIDE DEF k
    <3>2. /\ q[k].type \in {"START", "RESULT"} => q[k].id \in DOMAIN cs
          /\ q[k].type = "START" => q[k].id \notin DOMAIN p.calls
          /\ q[k].type = "RESULT" => cs[q[k].id].stage = "answered"
          /\ q[k].type = "SNAPSHOT" =>
               \A u \in q[k].answered : u \in DOMAIN cs /\ Caught(q, segs, u, k - 1)
      BY <3>1 DEF QueueLive
    <3>3. q[k].type = "START" => q[k].id \notin DOMAIN pp.calls
      <4>1. q[k].type = "START" /\ e.type \in {"START", "RESULT"} => q[k].id # e.id
        BY <1>1, <1>4, <1>6, <3>1
      <4> QED BY <1>8, <3>2, <4>1
    <3>4. ASSUME q[k].type = "SNAPSHOT", NEW u \in q[k].answered PROVE Caught(r, s, u, j - 1)
      <4>1. k - 1 \in 1..Len(q) BY <1>1, <3>1
      <4>2. Caught(q, segs, u, k - 1) BY <3>2, <3>4
      <4>3. Caught(r, s, u, k - 1 - 1) BY <1>10, <4>1, <4>2
      <4> QED BY <3>1, <4>3
    <3> QED BY <3>1, <3>2, <3>3, <3>4
  <2>3. ASSUME NEW j \in 1..Len(r), NEW k \in 1..Len(r),
               r[j].type \in {"START", "RESULT"}, r[k].type = "START", r[j].id = r[k].id
        PROVE  k <= j
    <3>1. j + 1 \in 1..Len(q) /\ k + 1 \in 1..Len(q) /\ r[j] = q[j + 1] /\ r[k] = q[k + 1]
      BY <1>2
    <3>2. k + 1 <= j + 1 BY <2>3, <3>1 DEF QueueLive
    <3> QED BY <1>1, <3>2
  <2>4. ASSUME NEW u \in DOMAIN cs, cs[u].stage = "answered" PROVE Caught(r, s, u, Len(r))
    <3>1. Caught(q, segs, u, Len(q)) BY <2>4 DEF QueueLive
    <3>2. Len(q) \in 1..Len(q) BY <1>1, <1>2
    <3>3. Caught(r, s, u, Len(q) - 1) BY <1>10, <3>1, <3>2
    <3> QED BY <1>2, <3>3
  <2> QED BY <1>8, <2>1, <2>2, <2>3, <2>4 DEF QueueLive
<1>12. \A i \in 1..Len(s) : \/ i \in 1..Len(segs)
                            \/ /\ i = Len(s) /\ i = Len(segs) + 1
                               /\ IsTool(s[i]) => e.type = "START" /\ s[i].id = e.id /\ s[i].result = FALSE
  BY <1>1, <1>5 DEF Accumulated
<1>13. \A i \in 1..Len(segs) : IsTool(segs[i]) =>
         /\ segs[i].id \in DOMAIN p.calls
         /\ segs[i].result => /\ cs[segs[i].id].stage = "answered"
                              /\ p.calls[segs[i].id] = Colour(seen, segs[i].id)
         /\ ~segs[i].result => p.calls[segs[i].id] \in Waiting
  BY DEF SegmentsLive
<1>14. ASSUME NEW i \in 1..Len(s), NEW j \in 1..Len(s), IsTool(s[i]), IsTool(s[j]), s[i].id = s[j].id
       PROVE  i = j
  <2>1. ASSUME NEW k \in 1..Len(segs), IsTool(s[k])
        PROVE  IsTool(segs[k]) /\ s[k].id = segs[k].id /\ ~(e.type = "START" /\ segs[k].id = e.id)
    BY <1>4, <1>5, <1>6, <1>13, <2>1 DEF Accumulated
  <2>2. CASE i \in 1..Len(segs) /\ j \in 1..Len(segs)
    BY <1>3, <1>14, <2>1, <2>2 DEF OneEach
  <2>3. CASE i \notin 1..Len(segs) \/ j \notin 1..Len(segs)
    BY <1>12, <1>14, <2>1, <2>3
  <2> QED BY <2>2, <2>3
<1>15. \A x : ~(Colour(seen, x) \in Unresolved) /\ Colour(seen, x) \in {"error", "complete"}
  BY DEF Colour, Unresolved
<1>16. "streaming" \in Waiting /\ "incomplete" \in Waiting BY DEF Waiting, Unresolved
<1>17. ASSUME NEW i \in 1..Len(s), IsTool(s[i])
       PROVE  /\ s[i].id \in DOMAIN pp.calls
              /\ s[i].result => /\ cs[s[i].id].stage = "answered"
                                /\ pp.calls[s[i].id] = Colour(seen, s[i].id)
              /\ ~s[i].result => pp.calls[s[i].id] \in Waiting
  <2>1. CASE i \notin 1..Len(segs)
    BY <1>8, <1>12, <1>16, <1>17, <2>1
  <2>2. CASE i \in 1..Len(segs)
    <3> DEFINE u == s[i].id
    <3>1. /\ IsTool(segs[i]) /\ u = segs[i].id
          /\ s[i].result = (segs[i].result \/ (e.type = "RESULT" /\ e.id = u))
      BY <1>5, <1>17, <2>2 DEF Accumulated
    <3>2. /\ u \in DOMAIN p.calls
          /\ segs[i].result => cs[u].stage = "answered" /\ p.calls[u] = Colour(seen, u)
          /\ ~segs[i].result => p.calls[u] \in Waiting
      BY <1>13, <2>2, <3>1
    <3> HIDE DEF u
    <3>3. CASE e.type = "START"
      <4>1. u # e.id BY <1>4, <1>6, <3>2, <3>3
      <4> QED BY <1>8, <3>1, <3>2, <3>3, <4>1 DEF u
    <3>4. CASE e.type = "RESULT"
      <4>1. CASE u = e.id
        <5>1. s[i].result BY <3>1, <3>4, <4>1
        <5>2. pp.calls[u] = Colour(seen, u) /\ cs[u].stage = "answered" /\ u \in DOMAIN pp.calls
          BY <1>4, <1>6, <1>8, <3>4, <4>1
        <5> QED BY <5>1, <5>2 DEF u
      <4>2. CASE u # e.id
        <5>1. pp.calls[u] = p.calls[u] /\ u \in DOMAIN pp.calls BY <1>8, <3>2, <3>4, <4>2
        <5> QED BY <3>1, <3>2, <4>2, <5>1 DEF u
      <4> QED BY <4>1, <4>2
    <3>5. CASE e.type = "SNAPSHOT"
      <4>1. u \in DOMAIN pp.calls
            /\ pp.calls[u] = IF u \in e.answered
                             THEN IF p.calls[u] = "error" THEN "error" ELSE "complete" ELSE p.calls[u]
        BY <1>8, <3>2, <3>5
      <4>2. u \in e.answered => segs[i].result
        <5> SUFFICES ASSUME u \in e.answered PROVE segs[i].result
          OBVIOUS
        <5>1. Caught(q, segs, u, 1 - 1) BY <1>4, <1>6, <3>5
        <5>2. ~Told(q, u, 1 - 1)
          <6>1. 1..(1 - 1) = {} OBVIOUS
          <6> QED BY <6>1 DEF Told
        <5>3. Filled(segs, u) BY <5>1, <5>2 DEF Caught
        <5> QED BY <2>2, <3>1, <5>3 DEF Filled
      <4>3. s[i].result = segs[i].result
        <5>1. segs[i] \in Segment BY <2>2
        <5>2. segs[i].result \in BOOLEAN BY <3>1, <5>1 DEF Segment, TextSegment, IsTool
        <5> QED BY <3>1, <3>5, <5>2
      <4>4. segs[i].result => pp.calls[u] = p.calls[u] BY <1>15, <3>2, <4>1
      <4>5. ~segs[i].result => pp.calls[u] = p.calls[u] BY <4>1, <4>2
      <4> QED BY <3>2, <4>1, <4>3, <4>4, <4>5 DEF u
    <3>6. CASE e.type \notin {"START", "RESULT", "SNAPSHOT"}
      <4>1. u \in DOMAIN pp.calls
            /\ (pp.calls[u] = p.calls[u]
                \/ pp.calls[u] = IF p.calls[u] \in Unresolved THEN "incomplete" ELSE p.calls[u])
        BY <1>8, <1>9, <3>2, <3>6
      <4>2. s[i].result = segs[i].result
        <5>1. segs[i] \in Segment BY <2>2
        <5>2. segs[i].result \in BOOLEAN BY <3>1, <5>1 DEF Segment, TextSegment, IsTool
        <5> QED BY <3>1, <3>6, <5>2
      <4>3. segs[i].result => pp.calls[u] = p.calls[u] BY <1>15, <3>2, <4>1
      <4>4. ~segs[i].result => pp.calls[u] \in Waiting BY <1>16, <3>2, <4>1
      <4> QED BY <3>2, <4>1, <4>2, <4>3, <4>4 DEF u
    <3> QED BY <3>3, <3>4, <3>5, <3>6
  <2> QED BY <2>1, <2>2
<1>18. SegmentsLive(s, cs, pp, seen)
  BY <1>14, <1>17 DEF SegmentsLive
<1> QED BY <1>11, <1>18 DEF pp

(* A step of the adapter leaves the segments alone, and what it records of a call concerns
   one that has not been answered. *)
LEMMA SegmentsKept ==
  ASSUME NEW segs, NEW cs, NEW p, NEW seen, SegmentsLive(segs, cs, p, seen),
         NEW ds, NEW saw, DOMAIN p.calls \subseteq DOMAIN cs,
         \A u \in DOMAIN cs : cs[u].stage = "answered" =>
           ds[u].stage = "answered" /\ Recorded(saw, u) = Recorded(seen, u)
  PROVE  SegmentsLive(segs, ds, p, saw)
<1>1. \A u \in DOMAIN cs : cs[u].stage = "answered" =>
        ds[u].stage = "answered" /\ Colour(saw, u) = Colour(seen, u)
  BY DEF Colour
<1> QED BY <1>1 DEF SegmentsLive

(* What an adapter step has to show. *)
LEMMA AdapterKeepsLive ==
  ASSUME StreamInv, LiveInv, pc = "streaming", UNCHANGED <<pc, segments, wire, console, link, saved>>,
         source' \in {"idle", "opened"} => calls' = <<>>,
         QueueLive(queue', segments, calls', console),
         \A u \in DOMAIN calls : calls[u].stage = "answered" =>
           calls'[u].stage = "answered" /\ Recorded(hook'.seen, u) = Recorded(hook.seen, u)
  PROVE  LiveInv'
<1>1. DOMAIN console.calls \subseteq DOMAIN calls BY DEF LiveInv, QueueLive
<1>2. link = "open" => SegmentsLive(segments, calls', console, hook'.seen)
  <2> SUFFICES ASSUME link = "open" PROVE SegmentsLive(segments, calls', console, hook'.seen)
    OBVIOUS
  <2>1. SegmentsLive(segments, calls, console, hook.seen) BY DEF LiveInv
  <2> QED BY <1>1, <2>1, SegmentsKept
<1> QED BY <1>2 DEF LiveInv

LEMMA PutKeepsLive ==
  ASSUME StreamInv, LiveInv, pc = "streaming", UNCHANGED <<pc, segments, wire, console, link, saved>>,
         UNCHANGED <<calls, hook>>, source' \notin {"idle", "opened"},
         NEW e \in Event, Put(<<e>>), e.type \notin {"START", "RESULT", "SNAPSHOT"}
  PROVE  LiveInv'
<1>1. queue \in Seq(Event) BY DEF StreamInv, StreamTypes
<1>2. /\ queue' \in Seq(Event) /\ Len(queue') = Len(queue) + 1
      /\ \A j \in 1..Len(queue) : queue'[j] = queue[j]
      /\ queue'[Len(queue) + 1] = e
  BY <1>1, PutOne
<1>3. \A j \in 1..Len(queue') : j > Len(queue) => queue'[j].type \notin {"START", "RESULT", "SNAPSHOT"}
  <2>1. \A j \in 1..Len(queue') : j > Len(queue) => j = Len(queue) + 1 BY <1>1, <1>2
  <2> QED BY <1>2, <2>1
<1>4. QueueLive(queue, segments, calls, console) BY DEF LiveInv
<1>5. Len(queue) <= Len(queue') BY <1>1, <1>2
<1>6. QueueLive(queue', segments, calls, console) BY <1>1, <1>2, <1>3, <1>4, <1>5, PlainKeeps
<1> QED BY <1>6, AdapterKeepsLive

LEMMA AdapterLive ==
  ASSUME StreamInv, LiveInv, Adapter
  PROVE  LiveInv'
<1> USE DEF Consumer
<1>0. /\ source \in {"opened", "model", "tools", "closed"}
      /\ pc = "streaming" /\ link = "open" /\ StreamTypes
      /\ QueueLive(queue, segments, calls, console)
  <2>1. source \in {"opened", "model", "tools", "closed"}
    BY DEF Adapter, AdapterStarts, ModelCall, Say, Call, ModelStops, ToolReturns, Answers, Finish,
           AdapterEnds
  <2> QED BY <2>1, AdapterAtWork DEF StreamInv, StreamingInv, LiveInv
<1>1. CASE AdapterStarts
  <2>1. /\ Put(<<Started>>) /\ UNCHANGED <<pc, segments, wire, console, link, saved, calls>>
        /\ source' = "tools" /\ source = "opened"
    BY <1>1 DEF AdapterStarts
  <2>2. calls = <<>> /\ DOMAIN calls = {} BY <2>1 DEF LiveInv
  <2>3. Started \in Event /\ Started.type \notin {"START", "RESULT", "SNAPSHOT"}
    BY DEF Event, Started
  <2>4. queue \in Seq(Event) BY <1>0 DEF StreamTypes
  <2>5. /\ queue' \in Seq(Event) /\ Len(queue') = Len(queue) + 1
        /\ \A j \in 1..Len(queue) : queue'[j] = queue[j]
        /\ queue'[Len(queue) + 1] = Started
    BY <2>1, <2>3, <2>4, PutOne
  <2>6. \A j \in 1..Len(queue') : j > Len(queue) => queue'[j].type \notin {"START", "RESULT", "SNAPSHOT"}
    <3>1. \A j \in 1..Len(queue') : j > Len(queue) => j = Len(queue) + 1 BY <2>4, <2>5
    <3> QED BY <2>3, <2>5, <3>1
  <2>7. Len(queue) <= Len(queue') BY <2>4, <2>5
  <2>8. QueueLive(queue', segments, calls, console) BY <1>0, <2>4, <2>5, <2>6, <2>7, PlainKeeps
  <2> QED BY <1>0, <2>1, <2>2, <2>8, AdapterKeepsLive
<1>2. CASE ModelCall \/ ModelStops
  <2>1. /\ UNCHANGED <<pc, segments, wire, console, link, saved, calls, hook, queue>>
        /\ source' \notin {"idle", "opened"}
    BY <1>2 DEF ModelCall, ModelStops
  <2> QED BY <1>0, <2>1, AdapterKeepsLive
<1>3. CASE Say
  <2>1. /\ UNCHANGED <<pc, segments, wire, console, link, saved, calls, hook>>
        /\ source' \notin {"idle", "opened"} /\ Put(<<Text>>)
    BY <1>3 DEF Say, tasks
  <2>2. Text \in Event /\ Text.type \notin {"START", "RESULT", "SNAPSHOT"} BY DEF Event, Text
  <2> QED BY <1>0, <2>1, <2>2, PutKeepsLive
<1>4. CASE Finish
  <2>1. /\ UNCHANGED <<pc, segments, wire, console, link, saved, calls, hook>>
        /\ source' \notin {"idle", "opened"} /\ Put(<<Finished>>)
    BY <1>4 DEF Finish
  <2>2. Finished \in Event /\ Finished.type \notin {"START", "RESULT", "SNAPSHOT"}
    BY DEF Event, Finished
  <2> QED BY <1>0, <2>1, <2>2, PutKeepsLive
<1>5. CASE AdapterEnds
  <2>1. /\ UNCHANGED <<pc, segments, wire, console, link, saved, calls, hook>>
        /\ source' \notin {"idle", "opened"} /\ Put(<<End>>)
    BY <1>5 DEF AdapterEnds, Drained
  <2>2. End \in Event /\ End.type \notin {"START", "RESULT", "SNAPSHOT"} BY DEF Event, End
  <2> QED BY <1>0, <2>1, <2>2, PutKeepsLive
<1>6. ASSUME NEW w \in Work, Call(w) PROVE LiveInv'
  <2> DEFINE t == Len(calls) + 1
             c == [work |-> w, stage |-> "called", status |-> "none"]
             es == <<Start(t), Args(t)>>
  <2>1. /\ UNCHANGED <<pc, segments, wire, console, link, saved, hook, source>>
        /\ source = "model" /\ Put(es) /\ calls' = Append(calls, c)
    BY <1>6 DEF Call
  <2>2. calls \in Seq(CallState) /\ queue \in Seq(Event) /\ t \in Nat BY <1>0 DEF StreamTypes
  <2>3. /\ t \notin DOMAIN calls /\ DOMAIN calls' = DOMAIN calls \cup {t}
        /\ \A u \in DOMAIN calls : calls'[u] = calls[u]
        /\ calls'[t].stage # "answered"
    BY <2>1, <2>2
  <2>4. es \in Seq(Event) /\ Len(es) = 2 /\ es[1] = Start(t) /\ es[2] = Args(t)
    BY <2>2 DEF Event
  <2> HIDE DEF t, c, es
  <2>5. /\ queue' \in Seq(Event) /\ Len(queue') = Len(queue) + Len(es)
        /\ \A j \in 1..Len(queue) : queue'[j] = queue[j]
        /\ \A j \in 1..Len(es) : queue'[Len(queue) + j] = es[j]
    BY <2>1, <2>2, <2>4, PutEffect
  <2>6. /\ Len(queue') = Len(queue) + 2
        /\ queue'[Len(queue) + 1] = Start(t) /\ queue'[Len(queue) + 2] = Args(t)
    <3>1. 1 \in 1..Len(es) /\ 2 \in 1..Len(es) BY <2>4
    <3> QED BY <2>4, <2>5, <3>1
  <2>7. QueueLive(queue', segments, calls', console)
    BY <1>0, <2>2, <2>3, <2>5, <2>6, CallKeeps
  <2> QED BY <1>0, <2>1, <2>3, <2>7, AdapterKeepsLive
<1>7. ASSUME NEW t \in 1..MaxCalls, NEW s \in {"success", "error"}, ToolReturns(t, s)
      PROVE  LiveInv'
  <2>1. /\ UNCHANGED <<pc, segments, wire, console, link, saved, source, queue>>
        /\ source = "tools" /\ t \in DOMAIN calls /\ calls[t].stage = "called"
        /\ calls' = [calls EXCEPT ![t].stage = "returned", ![t].status = s]
        /\ hook' = hook \/ hook'.seen = Seen(t, s)
    BY <1>7 DEF ToolReturns, HookSees, Pending
  <2>2. calls \in Seq(CallState) /\ queue \in Seq(Event) BY <1>0 DEF StreamTypes
  <2>3. calls[t] \in CallState BY <2>1, <2>2
  <2>4. /\ DOMAIN calls' = DOMAIN calls
        /\ \A u \in DOMAIN calls : u # t => calls'[u] = calls[u]
        /\ calls'[t].stage = "returned"
    BY <2>1, <2>3 DEF CallState
  <2>5. \A u \in DOMAIN calls : calls'[u].stage = "answered" <=> calls[u].stage = "answered"
    BY <2>1, <2>4
  <2>6. \A u \in DOMAIN calls : u # t => Recorded(hook'.seen, u) = Recorded(hook.seen, u)
    BY <2>1 DEF Recorded, Seen
  <2>7. QueueLive(queue', segments, calls', console)
    <3>1. Len(queue) \in Nat BY <2>2
    <3>2. \A j \in 1..Len(queue) : ~(j > Len(queue)) BY <3>1
    <3>3. Len(queue) <= Len(queue) BY <3>1
    <3>4. QueueLive(queue, segments, calls', console)
      BY <1>0, <2>2, <2>4, <2>5, <3>2, <3>3, PlainKeeps
    <3> QED BY <2>1, <3>4
  <2>8. \A u \in DOMAIN calls : calls[u].stage = "answered" => u # t BY <2>1
  <2> QED BY <1>0, <2>1, <2>5, <2>6, <2>7, <2>8, AdapterKeepsLive
<1>8. ASSUME NEW t \in 1..MaxCalls, Answers(t) PROVE LiveInv'
  <2> DEFINE T == {u \in DOMAIN calls : calls[u].stage = "answered"} \cup {t}
             es == <<Result(t, "none"), Snapshot(T)>>
  <2>1. /\ UNCHANGED <<pc, segments, wire, console, link, saved, source, hook>>
        /\ source = "tools" /\ t \in DOMAIN calls /\ Put(es)
        /\ calls' = [calls EXCEPT ![t].stage = "answered"]
    BY <1>8 DEF Answers, Pending
  <2>2. calls \in Seq(CallState) /\ queue \in Seq(Event) BY <1>0 DEF StreamTypes
  <2>3. calls[t] \in CallState /\ t \in Nat /\ T \in SUBSET Nat BY <2>1, <2>2
  <2>4. /\ DOMAIN calls' = DOMAIN calls
        /\ \A u \in DOMAIN calls : u # t => calls'[u] = calls[u]
        /\ calls'[t].stage = "answered"
    BY <2>1, <2>3 DEF CallState
  <2>5. T = {u \in DOMAIN calls : calls[u].stage = "answered"} \cup {t} OBVIOUS
  <2>6. es \in Seq(Event) /\ Len(es) = 2 /\ es[1] = Result(t, "none") /\ es[2] = Snapshot(T)
    <3> HIDE DEF T
    <3>1. Result(t, "none") \in Event /\ Snapshot(T) \in Event BY <2>3 DEF Event, Statuses
    <3> QED BY <3>1
  <2> HIDE DEF T, es
  <2>7. /\ queue' \in Seq(Event) /\ Len(queue') = Len(queue) + Len(es)
        /\ \A j \in 1..Len(queue) : queue'[j] = queue[j]
        /\ \A j \in 1..Len(es) : queue'[Len(queue) + j] = es[j]
    BY <2>1, <2>2, <2>6, PutEffect
  <2>8. /\ Len(queue') = Len(queue) + 2
        /\ queue'[Len(queue) + 1] = Result(t, "none") /\ queue'[Len(queue) + 2] = Snapshot(T)
    <3>1. 1 \in 1..Len(es) /\ 2 \in 1..Len(es) BY <2>6
    <3> QED BY <2>6, <2>7, <3>1
  <2>9. QueueLive(queue', segments, calls', console)
    <3>1. AnswerQueued(queue, queue', t, calls, calls')
      BY <2>1, <2>4, <2>5, <2>7, <2>8 DEF AnswerQueued
    <3> QED BY <1>0, <2>2, <2>3, <2>7, <3>1, AnswerKeeps
  <2>10. \A u \in DOMAIN calls : calls[u].stage = "answered" => calls'[u].stage = "answered"
    BY <2>4
  <2> QED BY <1>0, <2>1, <2>9, <2>10, AdapterKeepsLive
<1> QED BY <1>1, <1>2, <1>3, <1>4, <1>5, <1>6, <1>7, <1>8 DEF Adapter

LEMMA FailuresLive ==
  ASSUME StreamInv, LiveInv, Failures
  PROVE  LiveInv'
<1> USE DEF Consumer
<1>1. ASSUME NEW code \in {"STRANDS_ERROR", "STRANDS_MAX_TOKENS"}, AdapterFails(code)
      PROVE  LiveInv'
  <2>1. /\ UNCHANGED <<pc, segments, wire, console, link, saved, calls, hook>>
        /\ source' \notin {"idle", "opened"} /\ Put(<<Error(code)>>) /\ pc = "streaming"
    BY <1>1, AdapterAtWork DEF AdapterFails
  <2>2. Error(code) \in Event /\ Error(code).type \notin {"START", "RESULT", "SNAPSHOT"}
    BY <1>1, ErrorEvent DEF Codes, Error
  <2> QED BY <2>1, <2>2, PutKeepsLive
<1>2. ASSUME NEW how \in {"raised", "ended"}, AdapterBreaks(how) PROVE LiveInv'
  <2>1. /\ UNCHANGED <<pc, segments, wire, console, link, saved, calls, hook>>
        /\ source' \notin {"idle", "opened"} /\ Put(<<End>>) /\ pc = "streaming"
    BY <1>2, AdapterAtWork DEF AdapterBreaks, Drained
  <2>2. End \in Event /\ End.type \notin {"START", "RESULT", "SNAPSHOT"} BY DEF Event, End
  <2> QED BY <2>1, <2>2, PutKeepsLive
<1>3. CASE PeerLeaves
  <2>1. /\ link' = "cut" /\ pc' = "saving" /\ UNCHANGED calls
        /\ source' \in {"idle", "opened"} => source = "idle"
    BY <1>3 DEF PeerLeaves, Cancelled
  <2> QED BY <2>1 DEF LiveInv
<1> QED BY <1>1, <1>2, <1>3 DEF Failures

(* An error settles the calls that have no result and no others. *)
LEMMA ErrorSettles ==
  ASSUME NEW segs, NEW cs, NEW p, NEW seen, NEW c \in Codes,
         p = [calls |-> p.calls, error |-> p.error], SegmentsLive(segs, cs, p, seen)
  PROVE  SegmentsLive(segs, cs, Reduce(p, Error(c)), seen)
<1> DEFINE pp == Reduce(p, Error(c))
<1>1. Error(c) \in Event /\ IsTerminal(Error(c)) /\ Error(c).type = "ERROR" BY ErrorEvent
<1>2. Reduced(p, Error(c), pp) BY <1>1, ReduceEffect
<1> HIDE DEF pp
<1>3. /\ DOMAIN pp.calls = DOMAIN p.calls
      /\ \A u \in DOMAIN p.calls :
           pp.calls[u] = IF p.calls[u] \in Unresolved THEN "incomplete" ELSE p.calls[u]
  BY <1>1, <1>2 DEF Reduced
<1>4. \A x : ~(Colour(seen, x) \in Unresolved)
  BY DEF Colour, Unresolved
<1>5. "incomplete" \in Waiting BY DEF Waiting
<1>6. ASSUME NEW i \in 1..Len(segs), IsTool(segs[i])
      PROVE  /\ segs[i].id \in DOMAIN pp.calls
             /\ segs[i].result => /\ cs[segs[i].id].stage = "answered"
                                  /\ pp.calls[segs[i].id] = Colour(seen, segs[i].id)
             /\ ~segs[i].result => pp.calls[segs[i].id] \in Waiting
  BY <1>3, <1>4, <1>5, <1>6 DEF SegmentsLive
<1> QED BY <1>6 DEF SegmentsLive, pp

LEMMA NoSegments ==
  ASSUME NEW cs, NEW p, NEW seen
  PROVE  SegmentsLive(<<>>, cs, p, seen)
<1>1. 1..Len(<<>>) = {} OBVIOUS
<1> QED BY <1>1 DEF SegmentsLive

LEMMA LoopEndsLive ==
  ASSUME StreamInv, LiveInv, LoopEnds
  PROVE  LiveInv'
<1>1. /\ pc = "streaming" /\ link = "open" /\ StreamTypes /\ FlagsInv /\ SourceInv
      /\ UNCHANGED <<calls, hook, segments, saved>>
  BY DEF LoopEnds, StreamInv, StreamingInv
<1>2. /\ SegmentsLive(segments, calls, console, hook.seen)
      /\ Len(wire) = 0 => segments = <<>>
      /\ console = [calls |-> console.calls, error |-> console.error]
  BY <1>1 DEF LiveInv, QueueLive
<1>3. Len(wire) \in Nat BY <1>1 DEF StreamTypes
<1>4. ASSUME NEW code \in Codes, Fail(code), code = "AGENT_STREAM_INCOMPLETE" => Len(wire) > 0
      PROVE  pc' = "saving" /\ source' \in {source, "cancelled"}
             /\ (link' = "open" => /\ SegmentsLive(segments, calls, console', hook.seen)
                                   /\ Len(wire') = 0 => segments = <<>>)
  <2>1. pc' = "saving" /\ source' \in {source, "cancelled"} /\ Len(wire') >= Len(wire) /\ wire' \in Seq(Event)
    <3>1. WireInv BY DEF StreamInv
    <3> QED BY <1>1, <1>4, <3>1, FailEffect DEF Cancelled
  <2>2. Len(wire') = 0 => segments = <<>>
    <3>1. Len(wire') \in Nat BY <2>1
    <3> QED BY <1>2, <1>3, <2>1, <3>1
  <2>3. link' = "open" => console' = FoldLeft(Reduce, console, Closing(code))
    BY <1>4 DEF Fail, Send
  <2>4. CASE Len(wire) = 0
    <3>1. segments = <<>> BY <1>2, <2>4
    <3> QED BY <2>1, <2>2, <3>1, NoSegments
  <2>5. CASE Len(wire) > 0
    <3>1. Closing(code) = <<>> \/ Closing(code) = <<Error(code)>>
      <4>1. run.started BY <1>1, <2>5 DEF FlagsInv
      <4> QED BY <4>1, ShortConcat DEF Closing
    <3>2. CASE Closing(code) = <<>>
      <4>1. link' = "open" => console' = console BY <2>3, <3>2, ReduceNone
      <4> QED BY <1>2, <2>1, <2>2, <4>1
    <3>3. CASE Closing(code) = <<Error(code)>>
      <4>1. link' = "open" => console' = Reduce(console, Error(code)) BY <2>3, <3>3, ReduceOne
      <4>2. SegmentsLive(segments, calls, Reduce(console, Error(code)), hook.seen)
        BY <1>2, <1>4, ErrorSettles
      <4> QED BY <2>1, <2>2, <4>1, <4>2
    <3> QED BY <3>1, <3>2, <3>3
  <2> QED BY <1>3, <2>4, <2>5
<1>5. pc' = "saving" /\ source' \in {source, "cancelled"}
      /\ (link' = "open" => /\ SegmentsLive(segments, calls, console', hook.seen)
                            /\ Len(wire') = 0 => segments = <<>>)
  <2>1. CASE source = "raised"
    <3>1. Fail("ERP_AGENT_ERROR") BY <2>1 DEF LoopEnds
    <3> QED BY <1>4, <3>1 DEF Codes
  <2>2. CASE source # "raised" /\ ~run.terminal
    <3>1. Fail("AGENT_STREAM_INCOMPLETE") BY <2>2 DEF LoopEnds
    <3>2. Len(wire) > 0
      <4>1. /\ Len(queue) \in Nat \ {0} /\ queue[1] = End
        BY <1>1, HeadOfQueue DEF LoopEnds
      <4>2. QueueInv BY <1>1 DEF StreamInv, StreamingInv
      <4>3. 1 \in 1..Len(queue) BY <4>1
      <4>4. Len(queue) = 1 /\ source \in {"ended", "raised"} BY <4>1, <4>2, <4>3 DEF QueueInv
      <4> QED BY <1>1, <2>2, <4>4 DEF SourceInv
    <3> QED BY <1>4, <3>1, <3>2 DEF Codes
  <2>3. CASE source # "raised" /\ run.terminal
    <3>1. pc' = "saving" /\ UNCHANGED <<run, wire, console, source, link>> BY <2>3 DEF LoopEnds
    <3> QED BY <1>2, <3>1
  <2> QED BY <2>1, <2>2, <2>3
<1>6. source' \in {"idle", "opened"} => calls' = <<>> BY <1>1, <1>5 DEF LiveInv
<1> QED BY <1>1, <1>5, <1>6 DEF LiveInv

LEMMA ForwardLive ==
  ASSUME StreamInv, LiveInv, Forward
  PROVE  LiveInv'
<1> DEFINE h == queue[1]
           e == Rewritten(h)
           o == Outgoing(e)
           es == <<o>>
<1>1. /\ pc = "streaming" /\ link = "open" /\ StreamTypes /\ queue # <<>>
      /\ UNCHANGED <<calls, hook, saved>>
  BY DEF Forward, StreamInv, StreamingInv
<1>2. /\ Len(queue) \in Nat \ {0} /\ Head(queue) = h /\ h \in Event /\ queue \in Seq(Event)
      /\ queue' = Tail(queue) /\ queue' \in Seq(Event) /\ Len(queue') = Len(queue) - 1
      /\ \A j \in 1..Len(queue') : queue'[j] = queue[j + 1]
  BY <1>1, HeadOfQueue DEF Forward, StreamTypes
<1>3. segments' = Accumulate(segments, e) /\ Send(es, "streaming")
  BY <1>2 DEF Forward
<1>4. /\ e \in Event /\ o \in Event
      /\ e = h \/ (IsTerminal(e) /\ IsTerminal(h))
  <2>1. e \in Event /\ (IsTerminal(e) <=> IsTerminal(h)) BY <1>2, RewrittenKind
  <2>2. \A t \in DOMAIN hook.seen : hook.seen[t].status \in Statuses BY <1>1 DEF StreamTypes
  <2>3. e = h \/ h.type = "FINISHED" BY DEF Rewritten
  <2> HIDE DEF e
  <2>4. o \in Event BY <2>1, <2>2, OutgoingKind
  <2> QED BY <2>1, <2>3, <2>4 DEF IsTerminal
<1>5. /\ o.type = e.type
      /\ e.type = "RESULT" => o = Result(e.id, Recorded(hook.seen, e.id))
      /\ e.type # "RESULT" /\ ~IsTerminal(e) => o = e
  <2>1. \A t \in DOMAIN hook.seen : hook.seen[t].status \in Statuses BY <1>1 DEF StreamTypes
  <2> HIDE DEF e
  <2>2. o.type = e.type BY <1>4, <2>1, OutgoingKind
  <2>3. \A t : StatusFor(t) = Recorded(hook.seen, t) BY DEF StatusFor, Recorded
  <2>4. e.type = "RESULT" => o = Result(e.id, Recorded(hook.seen, e.id)) BY <2>3 DEF Outgoing
  <2>5. e.type # "RESULT" /\ ~IsTerminal(e) => o = e BY DEF Outgoing, IsTerminal
  <2> QED BY <2>2, <2>4, <2>5
<1>6. segments \in Seq(Segment) /\ segments' \in Seq(Segment)
  <2> HIDE DEF e
  <2> QED BY <1>1, <1>3, <1>4, AccumulateType DEF StreamTypes
<1>7. /\ QueueLive(queue, segments, calls, console)
      /\ SegmentsLive(segments, calls, console, hook.seen)
  BY <1>1 DEF LiveInv
<1>8. /\ QueueLive(queue', segments', calls, Reduce(console, o))
      /\ SegmentsLive(segments', calls, Reduce(console, o), hook.seen)
  <2> HIDE DEF e, o
  <2>1. Read(queue, queue', e, o, hook.seen) BY <1>2, <1>4, <1>5 DEF Read, h
  <2> QED BY <1>2, <1>3, <1>4, <1>6, <1>7, <2>1, ForwardKeeps
<1> HIDE DEF e, o
<1>9. \/ /\ wire' = wire \o es /\ console' = FoldLeft(Reduce, console, es)
         /\ pc' = "streaming" /\ UNCHANGED <<source, link>>
      \/ link' = "cut" /\ pc' = "saving" /\ source' = Cancelled
  BY <1>3 DEF Send
<1>10. CASE link' = "cut" /\ pc' = "saving" /\ source' = Cancelled
  <2>1. source' \in {"idle", "opened"} => source = "idle" BY <1>10 DEF Cancelled
  <2> QED BY <1>1, <1>10, <2>1 DEF LiveInv
<1>11. CASE /\ wire' = wire \o es /\ console' = FoldLeft(Reduce, console, es)
            /\ pc' = "streaming" /\ UNCHANGED <<source, link>>
  <2>1. console' = Reduce(console, o) BY <1>11, ReduceOne
  <2>2. Len(wire') # 0
    <3>1. wire \in Seq(Event) /\ es \in Seq(Event) /\ Len(es) = 1 BY <1>1, <1>4 DEF StreamTypes
    <3> HIDE DEF es
    <3>2. Len(wire \o es) = Len(wire) + Len(es) BY <3>1, ConcatProperties
    <3> QED BY <1>11, <3>1, <3>2
  <2> QED BY <1>1, <1>8, <1>11, <2>1, <2>2 DEF LiveInv
<1> QED BY <1>9, <1>10, <1>11

LEMMA LiveStep ==
  ASSUME StreamInv, LiveInv, [Next]_vars
  PROVE  LiveInv'
<1>1. CASE Adapter BY <1>1, AdapterLive
<1>2. CASE Failures BY <1>2, FailuresLive
<1>3. CASE SetUpFails
  <2>1. /\ pc = "starting" /\ source = "idle" /\ link = "open" /\ wire = <<>>
        /\ UNCHANGED <<calls, segments, hook>>
    BY <1>3 DEF SetUpFails, StreamInv, StartingInv
  <2>2. calls = <<>> /\ segments = <<>> BY <2>1 DEF LiveInv
  <2>3. pc' = "saving" BY <1>3 DEF SetUpFails, Fail, Send
  <2>4. SegmentsLive(segments', calls', console', hook'.seen)
    BY <2>1, <2>2, NoSegments
  <2> QED BY <2>1, <2>2, <2>3, <2>4 DEF LiveInv
<1>4. CASE BeginStream
  <2>1. /\ pc = "starting" /\ source = "idle" /\ pc' = "streaming" /\ queue = <<>>
        /\ UNCHANGED <<calls, segments, hook, queue, console, wire, link>>
    BY <1>4 DEF BeginStream, StreamInv, StartingInv
  <2>2. calls = <<>> /\ console = NoProjection BY <2>1 DEF LiveInv
  <2>3. QueueLive(<<>>, segments, <<>>, NoProjection)
    <3>1. 1..Len(<<>>) = {} /\ DOMAIN <<>> = {} OBVIOUS
    <3> QED BY <3>1 DEF QueueLive, NoProjection
  <2> QED BY <2>1, <2>2, <2>3 DEF LiveInv
<1>5. CASE Forward BY <1>5, ForwardLive
<1>6. CASE LoopEnds BY <1>6, LoopEndsLive
<1>7. CASE Save
  <2>1. /\ pc = "saving" /\ pc' = "ended"
        /\ UNCHANGED <<source, calls, hook, segments, wire, console, link>>
        /\ saved' = saved \/ saved' = [outcome |-> run.outcome, segments |-> Merge(segments, hook.seen)]
    BY <1>7 DEF Save, tasks
  <2>2. saved = NoTrace BY <2>1 DEF StreamInv, SavedInv
  <2>3. saved' = NoTrace \/ saved'.segments = Merge(segments, hook.seen) BY <2>1, <2>2
  <2> QED BY <2>1, <2>3 DEF LiveInv
<1>8. CASE UNCHANGED vars
  BY <1>8 DEF vars, LiveInv
<1> QED BY <1>1, <1>2, <1>3, <1>4, <1>5, <1>6, <1>7, <1>8 DEF Next, Generator

(* A merged timeline keeps a segment as the run folded it, except that a tool *)
(* call the hooks saw takes its status and its evidence from them.            *)
LEMMA MergedAt ==
  ASSUME NEW segs, NEW seen, NEW i \in DOMAIN segs
  PROVE  Merge(segs, seen)[i] =
           IF segs[i].type = "tool" /\ segs[i].id \in DOMAIN seen
           THEN [segs[i] EXCEPT !.status = seen[segs[i].id].status,
                                !.evidence = seen[segs[i].id].evidence]
           ELSE segs[i]
  BY DEF Merge

(* A call whose result was streamed and recorded looks the same in the live console and in
   the timeline that is read from the trace, and one without a result is green in neither. *)
THEOREM AgentStreamLive == Spec => []LiveAgrees
<1>1. Init => LiveInv
  <2> SUFFICES ASSUME Init PROVE LiveInv
    OBVIOUS
  <2>1. /\ calls = <<>> /\ console = NoProjection /\ segments = <<>> /\ pc = "starting"
    BY DEF Init
  <2>2. SegmentsLive(segments, calls, console, hook.seen) BY <2>1, NoSegments
  <2> QED BY <2>1, <2>2 DEF LiveInv
<1>2. StreamInv /\ LiveInv /\ [Next]_vars => LiveInv'
  BY LiveStep
<1>3. StreamInv /\ LiveInv => LiveAgrees
  <2> SUFFICES ASSUME StreamInv, LiveInv, pc = "ended", link = "open",
                      NEW i \in DOMAIN saved.segments, saved.segments[i].type = "tool"
               PROVE  LET seg == saved.segments[i]
                      IN  /\ seg.result /\ seg.status # "none" =>
                               console.calls[seg.id] = Timeline(seg)
                          /\ ~seg.result =>
                               console.calls[seg.id] \in {"streaming", "executing", "incomplete"}
    BY DEF LiveAgrees
  <2>1. segments \in Seq(Segment) /\ SegmentsLive(segments, calls, console, hook.seen)
    BY DEF StreamInv, StreamTypes, LiveInv
  <2>2. saved # NoTrace
    <3>1. NoTrace.segments = <<>> /\ DOMAIN <<>> = {} BY DEF NoTrace
    <3> QED BY <3>1
  <2>3. saved.segments = Merge(segments, hook.seen) BY <2>2 DEF LiveInv
  <2> DEFINE old == segments[i]
             seg == saved.segments[i]
  <2>4. i \in 1..Len(segments) /\ old \in Segment
    <3>1. DOMAIN Merge(segments, hook.seen) = DOMAIN segments BY DEF Merge
    <3> QED BY <2>1, <2>3, <3>1
  <2>5. seg = IF old.type = "tool" /\ old.id \in DOMAIN hook.seen
              THEN [old EXCEPT !.status = hook.seen[old.id].status,
                               !.evidence = hook.seen[old.id].evidence]
              ELSE old
    <3>1. i \in DOMAIN segments BY <2>1, <2>4
    <3>2. Merge(segments, hook.seen)[i] = seg BY <2>3
    <3>3. Merge(segments, hook.seen)[i] =
            IF segments[i].type = "tool" /\ segments[i].id \in DOMAIN hook.seen
            THEN [segments[i] EXCEPT !.status = hook.seen[segments[i].id].status,
                                     !.evidence = hook.seen[segments[i].id].evidence]
            ELSE segments[i]
      BY ONLY <3>1, MergedAt, Zenon
    <3> QED BY ONLY <3>2, <3>3, Zenon
  <2>6. old.type = "tool"
    <3>1. old.type \in {"tool", "text"} BY <2>4 DEF Segment, TextSegment
    <3> QED BY <2>5, <3>1
  <2>7. old \in [type : {"tool"}, id : Nat, input : BOOLEAN, result : BOOLEAN,
                 status : {"none"}, evidence : {"none"}]
    BY <2>4, <2>6 DEF Segment, TextSegment
  <2>8. seg.id = old.id /\ seg.result = old.result /\ seg.status = Recorded(hook.seen, old.id)
    BY <2>5, <2>6, <2>7 DEF Recorded
  <2>9. /\ old.result => console.calls[old.id] = Colour(hook.seen, old.id)
        /\ ~old.result => console.calls[old.id] \in Waiting
    BY <2>1, <2>4, <2>6 DEF SegmentsLive, IsTool
  <2> HIDE DEF old, seg
  <2>10. console.calls[seg.id] = Colour(hook.seen, old.id) => console.calls[seg.id] = Timeline(seg)
    BY <2>8 DEF Timeline, Colour
  <2>11. Waiting = {"streaming", "executing", "incomplete"} BY DEF Waiting, Unresolved
  <2> QED BY <2>8, <2>9, <2>10, <2>11 DEF seg
<1> QED BY <1>1, <1>2, <1>3, AgentStreamInvariant, PTL DEF Spec
=============================================================================
