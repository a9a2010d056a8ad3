------------------------- MODULE CasePipeline_proofs -------------------------
(***************************************************************************)
(* For every number of cases, aliases, pollers, concurrent invokers and      *)
(* receives, and whatever the fault budget: the pipeline is well typed, a     *)
(* case in processing is owned by a message, and a waiting case is stamped.  *)
(***************************************************************************)
EXTENDS CasePipeline, SequenceTheorems, TLAPS

USE DEF Groups, CaseOf

-----------------------------------------------------------------------------
(* The row writes, one lemma per DynamoDB request. *)

LEMMA PutNewRow ==
  ASSUME NEW row \in Row \cup {NoRow}
  PROVE  /\ PutNew(row) \in Row
         /\ PutNew(row).status \in {row.status, "detected"}
         /\ PutNew(row).status = "awaiting_human_input" => PutNew(row) = row
BY DEF PutNew, Exists, Row, NoRow, CaseStatus, Stamp, Origin

LEMMA SetStatusRow ==
  ASSUME NEW row \in Row \cup {NoRow}, NEW s \in CaseStatus
  PROVE  /\ SetStatus(row, s) \in Row \cup {NoRow}
         /\ SetStatus(row, s).status \in {s, "absent"}
<1>1. CASE row = NoRow
  BY <1>1 DEF SetStatus, Exists, NoRow
<1>2. CASE row \in Row
  <2>1. Exists(row) /\ row.inquiry \in Stamp /\ row.origin \in Origin
    BY <1>2 DEF Exists, Row, CaseStatus
  <2>2. SetStatus(row, s) = [status |-> s, origin |-> row.origin,
            inquiry |-> IF row.inquiry = "none" THEN "none" ELSE "earlier"]
    BY <1>2, <2>1 DEF SetStatus, Row
  <2>3. QED BY <2>1, <2>2 DEF Row, Stamp
<1>3. QED BY <1>1, <1>2

LEMMA AgentUpdateRow ==
  ASSUME NEW row \in Row \cup {NoRow}, NEW s \in CaseStatus
  PROVE  /\ AgentUpdate(row, s) \in Row
         /\ AgentUpdate(row, s).status = s
         /\ s = "awaiting_human_input" => AgentUpdate(row, s).inquiry # "none"
BY DEF AgentUpdate, Now, Exists, Row, NoRow, CaseStatus, Stamp, Origin

-----------------------------------------------------------------------------
(* Every actor keeps the state well typed. *)

LEMMA SendType ==
  ASSUME TypeOK, NEW g \in Groups \cup {"none"}, NEW t \in Trigger, Send(g, t)
  PROVE  /\ queue' \in [Groups -> Seq(Trigger)]
         /\ receives' \in [Groups -> 0..MaxReceive]
         /\ recent' \in [Groups -> SUBSET Trigger]
         /\ dlq' \subseteq Cases
<1>1. receives' \in [Groups -> 0..MaxReceive] /\ dlq' \subseteq Cases
  BY DEF TypeOK, Send
<1>2. recent' \in [Groups -> SUBSET Trigger]
  <2>1. \A h \in Groups : recent[h] \cup {t} \in SUBSET Trigger
    BY DEF TypeOK
  <2>2. QED BY <2>1 DEF TypeOK, Send
<1>3. queue' \in [Groups -> Seq(Trigger)]
  <2>1. \A h \in Groups : Append(queue[h], t) \in Seq(Trigger)
    BY DEF TypeOK
  <2>2. QED BY <2>1 DEF TypeOK, Send
<1>4. QED BY <1>1, <1>2, <1>3

LEMMA TypeInit == Init => TypeOK
BY PipelineAssumption DEF Init, TypeOK, NoPoll, PollerState, Stage, Row, NoRow

LEMMA FaultType ==
  ASSUME TypeOK, Fault
  PROVE  budget' \in [human : Nat, faults : Nat, flips : Nat]
<1>1. budget.faults - 1 \in Nat
  BY DEF TypeOK, Fault
<1>2. QED BY <1>1 DEF TypeOK, Fault

LEMMA PollType ==
  ASSUME TypeOK, NEW p \in Pollers, Poll(p)
  PROVE  TypeOK'
<1> USE DEF TypeOK, sqs, feed
<1>1. CASE \E c \in Cases : PollCheck(p, c)
  <2>1. PICK c \in Cases : PollCheck(p, c)
    BY <1>1
  <2>2. poller[p].cached \in Mode \cup {"unset"}
    BY DEF PollerState
  <2>3. poller' = [poller EXCEPT ![p] = [@ EXCEPT !.pc = "checked", !.case = c]]
    BY <2>1 DEF PollCheck
  <2>4. [poller[p] EXCEPT !.pc = "checked", !.case = c] \in PollerState
    BY <2>2 DEF PollerState
  <2>5. QED BY <2>1, <2>3, <2>4 DEF PollCheck
<1>2. CASE PollPut(p)
  <2>1. poller[p].case \in Cases /\ poller[p].cached \in Mode \cup {"unset"}
    BY <1>2 DEF PollPut, PollerState
  <2>2. cases' \in [Cases -> Row \cup {NoRow}]
    BY <1>2, <2>1, PutNewRow DEF PollPut
  <2>3. poller'[p] \in PollerState
    BY <1>2, <2>1 DEF PollPut, PollerState, NoPoll
  <2>4. QED BY <1>2, <2>2, <2>3 DEF PollPut
<1>3. CASE PollEnqueue(p)
  BY <1>3, SendType DEF PollEnqueue, PollerState, NoPoll, ModeSeen, Mode, Trigger
<1>4. CASE PollModeUnreadable(p)
  BY <1>4, FaultType DEF PollModeUnreadable, PollerState, NoPoll, Mode
<1>5. CASE PollRequestFails(p)
  BY <1>5, FaultType DEF PollRequestFails, PollerState, NoPoll, Mode
<1>6. CASE PollerDies(p)
  BY <1>6, FaultType DEF PollerDies, PollerState, NoPoll
<1>7. QED BY <1>1, <1>2, <1>3, <1>4, <1>5, <1>6 DEF Poll

LEMMA SweepType ==
  ASSUME TypeOK, Sweep
  PROVE  TypeOK'
<1> USE DEF TypeOK, sqs, feed
<1>1. CASE SweepStart
  BY <1>1 DEF SweepStart, StaleDetected
<1>2. ASSUME NEW c \in Cases, RowAges(c) PROVE TypeOK'
  BY <1>2 DEF RowAges
<1>3. ASSUME NEW c \in Cases, SweepSend(c) PROVE TypeOK'
  BY <1>3, SendType DEF SweepSend, Trigger
<1>4. ASSUME NEW c \in Cases, SweepSendFails(c) PROVE TypeOK'
  BY <1>4, FaultType DEF SweepSendFails
<1>5. QED BY <1>1, <1>2, <1>3, <1>4 DEF Sweep

LEMMA PeopleType ==
  ASSUME TypeOK, People
  PROVE  TypeOK'
<1> USE DEF TypeOK, sqs, feed
<1>1. ASSUME NEW g \in Groups, NEW t \in Trigger, HumanSend(g, t) PROVE TypeOK'
  <2>1. budget.human - 1 \in Nat
    BY <1>1 DEF HumanSend
  <2>2. QED BY <1>1, <2>1, SendType DEF HumanSend
<1>2. CASE FlipMode
  <2>1. budget.flips - 1 \in Nat
    BY <1>2 DEF FlipMode
  <2>2. QED BY <1>2, <2>1 DEF FlipMode
<1>3. QED BY <1>1, <1>2 DEF People

LEMMA CaseOfGroup ==
  ASSUME NEW g \in Groups
  PROVE  CaseOf(g) \in Cases
BY PipelineAssumption

LEMMA StepType ==
  ASSUME TypeOK, NEW g \in Groups, NEW from, NEW to \in Stage, Step(g, from, to)
  PROVE  delivery' \in [Groups -> Stage]
BY DEF TypeOK, Step

(* The two ways a status write can go, for the handler of any group. *)
LEMMA WriteType ==
  ASSUME TypeOK, NEW g \in Groups, NEW s \in CaseStatus, WriteStatus(g, s) \/ LoseWrite
  PROVE  /\ cases' \in [Cases -> Row \cup {NoRow}]
         /\ budget' \in [human : Nat, faults : Nat, flips : Nat]
<1>1. CASE WriteStatus(g, s)
  BY <1>1, SetStatusRow, CaseOfGroup DEF TypeOK, WriteStatus
<1>2. CASE LoseWrite
  BY <1>2, FaultType DEF TypeOK, LoseWrite
<1>3. QED BY <1>1, <1>2

(* The two kinds of status writes, by what they do with one that fails. *)
LEMMA TryType ==
  ASSUME TypeOK, NEW g \in Groups, NEW s \in CaseStatus, TryStatus(g, s) \/ LastStatus(g, s)
  PROVE  /\ cases' \in [Cases -> Row \cup {NoRow}]
         /\ budget' \in [human : Nat, faults : Nat, flips : Nat]
         /\ hurt' \subseteq Cases
<1>1. WriteStatus(g, s) \/ LoseWrite
  BY DEF TryStatus, LastStatus
<1>2. hurt' \subseteq Cases
  <2>1. hurt' \in {hurt, hurt \cup {CaseOf(g)}, hurt \ {CaseOf(g)}}
    BY DEF TryStatus, LastStatus, Heal, Hurt
  <2>2. CaseOf(g) \in Cases /\ hurt \subseteq Cases
    BY CaseOfGroup DEF TypeOK
  <2> HIDE DEF CaseOf
  <2> QED BY ONLY <2>1, <2>2
<1> QED BY <1>1, <1>2, WriteType

LEMMA DeleteHeadType ==
  ASSUME TypeOK, NEW g \in Groups, queue[g] # <<>>, DeleteHead(g)
  PROVE  /\ queue' \in [Groups -> Seq(Trigger)]
         /\ receives' \in [Groups -> 0..MaxReceive]
         /\ Len(queue'[g]) = Len(queue[g]) - 1
BY PipelineAssumption, HeadTailProperties DEF TypeOK, DeleteHead

(* A message is in flight only while it is in the queue. *)
InFlightIsQueued == \A g \in Groups : delivery[g] # "idle" => queue[g] # <<>>

LEMMA HandleType ==
  ASSUME TypeOK, InFlightIsQueued, NEW g \in Groups, Handle(g)
  PROVE  TypeOK'
<1> USE DEF TypeOK, sqs, feed
<1> USE CaseOfGroup
<1>1. CASE MarkProcessing(g)
  <2>1. "processing" \in CaseStatus BY DEF CaseStatus
  <2>2. QED BY <1>1, <2>1, TryType DEF MarkProcessing, Step, Stage
<1>2. ASSUME NEW how \in Stage, RunEnds(g, how) PROVE TypeOK'
  BY <1>2 DEF RunEnds, Step
<1> "manual_review_required" \in CaseStatus BY DEF CaseStatus
<1>3. CASE RunLacksSop(g)
  BY <1>3, TryType DEF RunLacksSop, Step, Stage
<1>4. CASE RunTimesOut(g)
  BY <1>4 DEF RunTimesOut, Step, Stage, Abandon
<1>5. CASE Verify(g)
  BY <1>5 DEF Verify, Step, Stage
<1>6. CASE RouteToReview(g)
  <2>1. WriteStatus(g, "manual_review_required") \/ LoseWrite
    BY <1>6 DEF RouteToReview
  <2>2. delivery' \in [Groups -> Stage]
    BY <1>6, StepType DEF RouteToReview, Stage
  <2>3. hurt' \subseteq Cases
    BY <1>6 DEF RouteToReview, Heal
  <2>4. QED BY <1>6, <2>1, <2>2, <2>3, WriteType DEF RouteToReview
<1>7. CASE StopToReview(g)
  <2>1. delivery' \in [Groups -> Stage]
    BY <1>7, StepType DEF StopToReview, Stage
  <2>2. QED BY <1>7, <2>1, TryType DEF StopToReview
<1>8. CASE Acknowledge(g)
  <2>1. queue[g] # <<>>
    BY <1>8 DEF InFlightIsQueued, Acknowledge, Step
  <2>2. QED BY <1>8, <2>1, DeleteHeadType DEF Acknowledge, Step, Stage
<1>9. CASE GiveBack(g)
  <2>1. \/ LastStatus(g, "manual_review_required")
        \/ UNCHANGED <<cases, hurt, budget>>
    BY <1>9 DEF GiveBack
  <2>2. delivery' \in [Groups -> Stage]
    BY <1>9, StepType DEF GiveBack, Stage
  <2>3. QED BY <1>9, <2>1, <2>2, TryType DEF GiveBack
<1>10. CASE VerifyFails(g)
  BY <1>10, FaultType DEF VerifyFails, Step, Stage
<1>11. QED BY <1>1, <1>2, <1>3, <1>4, <1>5, <1>6, <1>7, <1>8, <1>9, <1>10 DEF Handle

LEMMA DeliverType ==
  ASSUME TypeOK, InFlightIsQueued, NEW g \in Groups, Deliver(g)
  PROVE  TypeOK'
<1> USE DEF TypeOK, sqs, feed
<1> USE CaseOfGroup
<1>1. CASE Receive(g)
  <2>1. receives[g] + 1 \in 0..MaxReceive
    BY <1>1, PipelineAssumption DEF Receive
  <2>2. delivery' \in [Groups -> Stage]
    BY <1>1, StepType DEF Receive, Stage
  <2>3. QED BY <1>1, <2>1, <2>2 DEF Receive
<1>2. CASE Redrive(g)
  BY <1>2, DeleteHeadType DEF Redrive
<1>3. CASE Handle(g)
  BY <1>3, HandleType
<1>4. ASSUME NEW s \in CaseStatus, RunUpdatesCase(g, s) PROVE TypeOK'
  BY <1>4, AgentUpdateRow DEF RunUpdatesCase, Heal
<1>5. CASE InvokerDies(g)
  <2>1. budget' \in [human : Nat, faults : Nat, flips : Nat]
    BY <1>5, FaultType DEF InvokerDies
  <2>2. delivery' \in [Groups -> Stage]
    BY <1>5 DEF InvokerDies, Stage
  <2>3. hurt' \subseteq Cases /\ loose' \in [Cases -> Nat]
    <3>1. hurt' \in {hurt, hurt \cup {CaseOf(g)}}
      BY <1>5 DEF InvokerDies, Hurt
    <3>2. UNCHANGED loose \/ Abandon(g)
      BY <1>5 DEF InvokerDies
    <3>3. CaseOf(g) \in Cases /\ hurt \subseteq Cases /\ loose \in [Cases -> Nat]
      OBVIOUS
    <3>4. hurt' \subseteq Cases
      <4> HIDE DEF CaseOf
      <4> QED BY ONLY <3>1, <3>3
    <3>5. loose' \in [Cases -> Nat]
      <4> HIDE DEF CaseOf
      <4> QED BY ONLY <3>2, <3>3 DEF Abandon
    <3> QED BY <3>4, <3>5
  <2>4. QED BY <1>5, <2>1, <2>2, <2>3 DEF InvokerDies
<1>6. QED BY <1>1, <1>2, <1>3, <1>4, <1>5 DEF Deliver

LEMMA LooseType ==
  ASSUME TypeOK, NEW c \in Cases, Loose(c)
  PROVE  TypeOK'
<1> USE DEF TypeOK, sqs, feed
<1>1. CASE ChatStarts(c)
  BY <1>1 DEF ChatStarts
<1>2. ASSUME NEW s \in CaseStatus, LooseUpdatesCase(c, s) PROVE TypeOK'
  BY <1>2, AgentUpdateRow DEF LooseUpdatesCase
<1>3. CASE LooseEnds(c)
  BY <1>3 DEF LooseEnds
<1>4. QED BY <1>1, <1>2, <1>3 DEF Loose

-----------------------------------------------------------------------------
(***************************************************************************)
(* Ownership. A group answers for its case while it holds a message whose    *)
(* handling is still to come: one behind the head, or a head that is neither *)
(* about to be deleted nor waiting for its redrive. ProcessingIsOwned alone   *)
(* is not inductive: the last message of a group may be deleted, and only    *)
(* the stage of its delivery says that the case was settled first.           *)
(***************************************************************************)
Answers(g) ==
  /\ queue[g] # <<>>
  /\ \/ Len(queue[g]) > 1
     \/ /\ delivery[g] # "acking"
        /\ ~(delivery[g] = "idle" /\ receives[g] = MaxReceive)

Answered(c) == \E g \in GroupsOf(c) : Answers(g)

OwnedInv ==
  /\ TypeOK
  /\ InFlightIsQueued
  /\ \A c \in Cases : Status(c) = "processing" /\ c \notin hurt => Answered(c)

LEMMA OwnedInit == Init => OwnedInv
<1> SUFFICES ASSUME Init PROVE OwnedInv
  OBVIOUS
<1>1. TypeOK
  BY TypeInit
<1>2. InFlightIsQueued
  BY DEF Init, InFlightIsQueued
<1>3. \A c \in Cases : Status(c) # "processing"
  BY DEF Init, Status, NoRow
<1>4. QED BY <1>1, <1>2, <1>3 DEF OwnedInv

(* A step keeps ownership if every case it leaves in processing and not hurt was so
   before and loses no group that answers, or is answered. *)
LEMMA OwnedStep ==
  ASSUME OwnedInv, TypeOK',
         \A g \in Groups : delivery'[g] # "idle" => queue'[g] # <<>>,
         \A c \in Cases :
           Status(c)' = "processing" /\ c \notin hurt' =>
             \/ /\ Status(c) = "processing" /\ c \notin hurt
                /\ \A g \in GroupsOf(c) : Answers(g) => Answers(g)'
             \/ \E g \in GroupsOf(c) : Answers(g)'
  PROVE  OwnedInv'
<1>1. InFlightIsQueued'
  BY DEF InFlightIsQueued
<1>2. ASSUME NEW c \in Cases, Status(c)' = "processing", c \notin hurt'
      PROVE  Answered(c)'
  BY <1>2 DEF OwnedInv, Answered, GroupsOf
<1>3. QED BY <1>1, <1>2 DEF OwnedInv

(* Sending only adds work to a group. *)
LEMMA SendAnswers ==
  ASSUME TypeOK, NEW g \in Groups, NEW t \in Trigger, Send(g, t), UNCHANGED delivery
  PROVE  /\ \A h \in Groups : queue[h] # <<>> => queue'[h] # <<>>
         /\ \A h \in Groups : Answers(h) => Answers(h)'
<1>1. ASSUME NEW h \in Groups
      PROVE  Len(queue'[h]) \geq Len(queue[h]) /\ queue'[h] \in Seq(Trigger)
  BY AppendProperties DEF TypeOK, Send
<1>2. ASSUME NEW h \in Groups, queue[h] # <<>>
      PROVE  queue'[h] # <<>>
  <2>1. Len(queue[h]) \in Nat \ {0}
    BY <1>2, EmptySeq DEF TypeOK
  <2>2. Len(queue'[h]) # 0
    BY <1>1, <2>1
  <2>3. QED BY <2>2, EmptySeq
<1>3. UNCHANGED <<delivery, receives>>
  BY DEF Send
<1>4. ASSUME NEW h \in Groups, Answers(h) PROVE Answers(h)'
  <2>1. queue'[h] # <<>>
    BY <1>2, <1>4 DEF Answers
  <2>2. Len(queue[h]) > 1 => Len(queue'[h]) > 1
    BY <1>1, LenProperties DEF TypeOK
  <2>3. QED BY <1>3, <1>4, <2>1, <2>2 DEF Answers
<1>5. QED BY <1>2, <1>4

LEMMA OwnedFeed ==
  ASSUME OwnedInv, TypeOK', (\E p \in Pollers : Poll(p)) \/ Sweep \/ People \/ DedupWindowCloses
  PROVE  OwnedInv'
<1> USE DEF sqs, feed
<1>1. UNCHANGED <<delivery, hurt>>
  BY DEF Poll, PollCheck, PollPut, PollEnqueue, PollModeUnreadable, PollRequestFails,
         PollerDies, Sweep, SweepStart, RowAges, SweepSend, SweepSendFails, People,
         HumanSend, FlipMode, DedupWindowCloses
<1>2. \/ UNCHANGED <<queue, receives>>
      \/ \E g \in Groups, t \in Trigger : Send(g, t)
  <2>1. ASSUME NEW p \in Pollers, PollEnqueue(p)
        PROVE  UNCHANGED sqs \/ Send(poller[p].case, "poller")
    BY <2>1 DEF PollEnqueue
  <2>2. ASSUME NEW p \in Pollers, PollEnqueue(p)
        PROVE  poller[p].case \in Groups
    BY <2>2 DEF PollEnqueue, OwnedInv, TypeOK, PollerState
  <2>3. QED
    BY <2>1, <2>2 DEF Poll, PollCheck, PollPut, PollModeUnreadable, PollRequestFails,
         PollerDies, Sweep, SweepStart, RowAges, SweepSend, SweepSendFails, People,
         HumanSend, FlipMode, DedupWindowCloses, Trigger
<1>3. \A g \in Groups : /\ queue[g] # <<>> => queue'[g] # <<>>
                        /\ Answers(g) => Answers(g)'
  BY <1>1, <1>2, SendAnswers DEF OwnedInv, Answers
<1>4. \A c \in Cases : Status(c)' \in {Status(c), "detected"}
  <2>1. ASSUME NEW p \in Pollers, PollPut(p), NEW c \in Cases
        PROVE  Status(c)' \in {Status(c), "detected"}
    BY <2>1, PutNewRow DEF PollPut, Status, OwnedInv, TypeOK
  <2>2. (\E p \in Pollers : PollPut(p)) \/ UNCHANGED cases
    BY DEF Poll, PollCheck, PollEnqueue, PollModeUnreadable, PollRequestFails,
         PollerDies, Sweep, SweepStart, RowAges, SweepSend, SweepSendFails, People,
         HumanSend, FlipMode, DedupWindowCloses
  <2>3. QED BY <2>1, <2>2 DEF Status
<1>5. QED
  BY <1>1, <1>3, <1>4, OwnedStep
     DEF OwnedInv, InFlightIsQueued, GroupsOf

(* A step of the delivery of g touches no other case. *)
Aside(g) == \A c \in Cases : c # CaseOf(g) => Status(c)' = Status(c) /\ (c \in hurt' <=> c \in hurt)

(* What a status write of the handler of g does to the table: the case of g ends in
   the status written or stays absent, and no other row is touched. *)
LEMMA WriteEffect ==
  ASSUME TypeOK, NEW g \in Groups, NEW s \in CaseStatus, WriteStatus(g, s)
  PROVE  /\ Status(CaseOf(g))' \in {s, "absent"}
         /\ \A c \in Cases : c # CaseOf(g) => Status(c)' = Status(c)
BY SetStatusRow, CaseOfGroup DEF TypeOK, WriteStatus, Status

LEMMA TryEffect ==
  ASSUME TypeOK, NEW g \in Groups, NEW s \in CaseStatus, TryStatus(g, s) \/ LastStatus(g, s)
  PROVE  Aside(g)
<1>1. \A c \in Cases : c # CaseOf(g) => (c \in hurt' <=> c \in hurt)
  BY DEF TryStatus, LastStatus, Heal, Hurt
<1>2. \A c \in Cases : c # CaseOf(g) => Status(c)' = Status(c)
  BY WriteEffect DEF TryStatus, LastStatus, LoseWrite, Status
<1> QED BY <1>1, <1>2 DEF Aside

(* After the last write the row is settled, absent, or hurt. *)
LEMMA LastEffect ==
  ASSUME TypeOK, NEW g \in Groups, LastStatus(g, "manual_review_required")
  PROVE  Status(CaseOf(g))' \in {"manual_review_required", "absent"} \/ CaseOf(g) \in hurt'
<1>1. "manual_review_required" \in CaseStatus
  BY DEF CaseStatus
<1>2. CASE WriteStatus(g, "manual_review_required")
  BY <1>1, <1>2, WriteEffect
<1>3. CASE Hurt(g)
  BY <1>3 DEF Hurt
<1> QED BY <1>2, <1>3 DEF LastStatus

(* Steps of one delivery that leave the queue alone and keep the delivery alive. *)
LEMMA OwnedAlive ==
  ASSUME OwnedInv, TypeOK', NEW g \in Groups, UNCHANGED <<queue, receives>>,
         delivery[g] # "idle",
         NEW to \in Stage \ {"idle", "acking"},
         delivery' = [delivery EXCEPT ![g] = to], Aside(g)
  PROVE  OwnedInv'
<1>1. \A h \in Groups : delivery'[h] # "idle" => queue'[h] # <<>>
  BY DEF OwnedInv, TypeOK, InFlightIsQueued
<1>2. \A h \in Groups : Answers(h) => Answers(h)'
  BY DEF OwnedInv, TypeOK, Answers
<1>3. Answers(g)' /\ g \in GroupsOf(CaseOf(g))
  BY <1>1 DEF OwnedInv, TypeOK, Answers, GroupsOf
<1>4. QED BY <1>1, <1>2, <1>3, OwnedStep DEF GroupsOf, Aside

(* Steps after which g no longer answers, and which settle its case or hurt it. *)
LEMMA OwnedSettled ==
  ASSUME OwnedInv, TypeOK', NEW g \in Groups, UNCHANGED <<queue, receives>>,
         delivery[g] # "idle",
         NEW to \in Stage,
         delivery' = [delivery EXCEPT ![g] = to],
         Status(CaseOf(g))' # "processing" \/ CaseOf(g) \in hurt', Aside(g)
  PROVE  OwnedInv'
<1>1. \A h \in Groups : delivery'[h] # "idle" => queue'[h] # <<>>
  BY DEF OwnedInv, TypeOK, InFlightIsQueued
<1>2. \A h \in Groups : h # g /\ Answers(h) => Answers(h)'
  BY DEF OwnedInv, TypeOK, Answers
<1>3. \A c \in Cases : c # CaseOf(g) => g \notin GroupsOf(c)
  BY DEF GroupsOf
<1>4. QED BY <1>1, <1>2, <1>3, OwnedStep DEF GroupsOf, Aside

(* The message goes back to the queue with receives to spare: it still answers. *)
LEMMA OwnedGivenBack ==
  ASSUME OwnedInv, TypeOK', NEW g \in Groups, UNCHANGED <<queue, receives, cases, hurt>>,
         delivery[g] # "idle", receives[g] < MaxReceive,
         delivery' = [delivery EXCEPT ![g] = "idle"]
  PROVE  OwnedInv'
<1>1. \A h \in Groups : delivery'[h] # "idle" => queue'[h] # <<>>
  BY DEF OwnedInv, TypeOK, InFlightIsQueued
<1>2. \A h \in Groups : Answers(h) => Answers(h)'
  BY PipelineAssumption DEF OwnedInv, TypeOK, Answers
<1>3. QED BY <1>1, <1>2, OwnedStep DEF OwnedInv, GroupsOf, Status

(* The head of g is deleted: whoever waits behind it answers now. *)
LEMMA OwnedDelete ==
  ASSUME OwnedInv, TypeOK', NEW g \in Groups, queue[g] # <<>>, ~Answers(g) \/ Len(queue[g]) > 1,
         DeleteHead(g), delivery' = [delivery EXCEPT ![g] = "idle"],
         UNCHANGED <<cases, hurt>>
  PROVE  OwnedInv'
<1>1. Len(queue[g]) > 1 => queue'[g] # <<>>
  BY DeleteHeadType, EmptySeq DEF OwnedInv
<1>2. receives'[g] # MaxReceive
  BY PipelineAssumption DEF OwnedInv, TypeOK, DeleteHead
<1>3. \A h \in Groups : Answers(h) => Answers(h)'
  BY <1>1, <1>2 DEF OwnedInv, TypeOK, DeleteHead, Answers
<1>4. \A h \in Groups : delivery'[h] # "idle" => queue'[h] # <<>>
  BY DEF OwnedInv, TypeOK, InFlightIsQueued, DeleteHead
<1>5. QED
  BY <1>3, <1>4, OwnedStep DEF OwnedInv, GroupsOf, Status

LEMMA OwnedHandle ==
  ASSUME OwnedInv, TypeOK', NEW g \in Groups, Handle(g)
  PROVE  OwnedInv'
<1> USE DEF sqs, feed, Step
<1>0. TypeOK /\ InFlightIsQueued /\ {"processing", "manual_review_required"} \subseteq CaseStatus
  BY DEF OwnedInv, CaseStatus
<1>1. CASE MarkProcessing(g)
  <2>1. Aside(g)
    BY <1>0, <1>1, TryEffect DEF MarkProcessing
  <2>2. QED BY <1>0, <1>1, <2>1, OwnedAlive DEF MarkProcessing, Stage
<1>2. ASSUME NEW how \in Stage, RunEnds(g, how) PROVE OwnedInv'
  BY <1>0, <1>2, OwnedAlive DEF RunEnds, Status, Aside
<1>3. CASE RunLacksSop(g)
  <2>1. Aside(g)
    BY <1>0, <1>3, TryEffect DEF RunLacksSop
  <2>2. QED BY <1>0, <1>3, <2>1, OwnedAlive DEF RunLacksSop, Stage
<1>4. CASE RunTimesOut(g)
  BY <1>4, OwnedAlive DEF RunTimesOut, Stage, Status, Aside
<1>5. CASE Verify(g)
  <2>0. Aside(g)
    BY <1>5 DEF Verify, Aside, Status
  <2>1. CASE Status(CaseOf(g)) \in BusinessTerminal
    BY <1>5, <2>0, <2>1, OwnedSettled DEF Verify, Status, BusinessTerminal, Stage
  <2>2. CASE Status(CaseOf(g)) \notin BusinessTerminal
    <3>1. PICK to \in {"failed", "unverified"} : delivery' = [delivery EXCEPT ![g] = to]
      BY <1>5, <2>2 DEF Verify, Status, BusinessTerminal
    <3>2. QED BY <1>0, <1>5, <2>0, <3>1, OwnedAlive DEF Verify, Stage
  <2>3. QED BY <2>1, <2>2
<1>6. CASE RouteToReview(g)
  <2>1. CASE /\ WriteStatus(g, "manual_review_required") /\ Heal(g)
             /\ delivery' = [delivery EXCEPT ![g] = "acking"]
    <3>1. Aside(g)
      BY <1>0, <2>1, TryEffect DEF TryStatus
    <3>2. Status(CaseOf(g))' # "processing"
      BY <1>0, <2>1, WriteEffect
    <3> QED BY <1>0, <1>6, <2>1, <3>1, <3>2, OwnedSettled DEF RouteToReview, Stage
  <2>2. CASE LoseWrite /\ UNCHANGED hurt /\ delivery' = [delivery EXCEPT ![g] = "failed"]
    BY <1>0, <1>6, <2>2, OwnedAlive DEF RouteToReview, LoseWrite, Stage, Status, Aside
  <2>3. QED BY <1>6, <2>1, <2>2 DEF RouteToReview
<1>7. CASE StopToReview(g)
  <2>1. Aside(g) /\ (Status(CaseOf(g))' # "processing" \/ CaseOf(g) \in hurt')
    BY <1>0, <1>7, TryEffect, LastEffect DEF StopToReview
  <2>2. QED BY <1>0, <1>7, <2>1, OwnedSettled DEF StopToReview, Stage
<1>8. CASE Acknowledge(g)
  <2>1. ~Answers(g) \/ Len(queue[g]) > 1
    BY <1>8 DEF Acknowledge, Answers
  <2>2. QED BY <1>0, <1>8, <2>1, OwnedDelete DEF Acknowledge, InFlightIsQueued
<1>9. CASE GiveBack(g)
  <2>1. CASE LastStatus(g, "manual_review_required")
    <3>1. Aside(g) /\ (Status(CaseOf(g))' # "processing" \/ CaseOf(g) \in hurt')
      BY <1>0, <2>1, TryEffect, LastEffect
    <3> QED BY <1>0, <1>9, <3>1, OwnedSettled DEF GiveBack, Stage
  <2>2. CASE receives[g] < MaxReceive /\ UNCHANGED <<cases, hurt, budget>>
    BY <1>0, <1>9, <2>2, OwnedGivenBack DEF GiveBack
  <2>3. QED
    BY <1>0, <1>9, <2>1, <2>2, PipelineAssumption DEF GiveBack, TypeOK
<1>10. CASE VerifyFails(g)
  BY <1>0, <1>10, OwnedAlive DEF VerifyFails, Stage, Status, Aside
<1>11. QED BY <1>1, <1>2, <1>3, <1>4, <1>5, <1>6, <1>7, <1>8, <1>9, <1>10 DEF Handle

LEMMA OwnedDeliver ==
  ASSUME OwnedInv, TypeOK', NEW g \in Groups, Deliver(g)
  PROVE  OwnedInv'
<1> USE DEF sqs, feed, Step
<1>0. TypeOK /\ InFlightIsQueued
  BY DEF OwnedInv
<1>1. CASE Receive(g)
  <2>1. \A h \in Groups : Answers(h) => Answers(h)'
    BY <1>0, <1>1 DEF Receive, Answers, TypeOK
  <2>2. \A h \in Groups : delivery'[h] # "idle" => queue'[h] # <<>>
    BY <1>0, <1>1 DEF Receive, InFlightIsQueued, TypeOK
  <2>3. QED BY <1>0, <1>1, <2>1, <2>2, OwnedStep DEF Receive, GroupsOf, Status
<1>2. CASE Redrive(g)
  <2>1. ~Answers(g) \/ Len(queue[g]) > 1
    BY <1>2 DEF Redrive, Answers
  <2>2. delivery' = [delivery EXCEPT ![g] = "idle"]
    BY <1>0, <1>2 DEF Redrive, TypeOK
  <2>3. QED BY <1>0, <1>2, <2>1, <2>2, OwnedDelete DEF Redrive
<1>3. CASE Handle(g)
  BY <1>3, OwnedHandle
<1>4. ASSUME NEW s \in CaseStatus, RunUpdatesCase(g, s) PROVE OwnedInv'
  <2>1. Aside(g)
    BY <1>0, <1>4 DEF RunUpdatesCase, Status, TypeOK, Aside, Heal
  <2>2. delivery' = [delivery EXCEPT ![g] = "running"]
    BY <1>0, <1>4 DEF RunUpdatesCase, TypeOK
  <2>3. QED BY <1>0, <1>4, <2>1, <2>2, OwnedAlive DEF RunUpdatesCase, Stage
<1>5. CASE InvokerDies(g)
  <2>1. CASE receives[g] >= MaxReceive /\ Hurt(g)
    <3>1. Aside(g)
      BY <1>5, <2>1 DEF InvokerDies, Hurt, Aside, Status
    <3> QED BY <1>0, <1>5, <2>1, <3>1, OwnedSettled DEF InvokerDies, Hurt, Stage
  <2>2. CASE receives[g] < MaxReceive /\ UNCHANGED hurt
    BY <1>0, <1>5, <2>2, OwnedGivenBack DEF InvokerDies
  <2>3. QED
    BY <1>0, <1>5, <2>1, <2>2, PipelineAssumption DEF InvokerDies, TypeOK
<1>6. QED BY <1>1, <1>2, <1>3, <1>4, <1>5 DEF Deliver

LEMMA OwnedLoose ==
  ASSUME OwnedInv, TypeOK', NEW c \in Cases, Loose(c)
  PROVE  OwnedInv'
<1> USE DEF sqs, feed
<1>1. UNCHANGED <<queue, receives, delivery>>
  BY DEF Loose, ChatStarts, LooseUpdatesCase, LooseEnds
<1>2. \A d \in Cases : d \in hurt' \/ (d \notin hurt /\ Status(d)' = Status(d))
  BY DEF Loose, ChatStarts, LooseUpdatesCase, LooseEnds, OwnedInv, TypeOK, Status
<1>3. QED
  BY <1>1, <1>2, OwnedStep DEF OwnedInv, InFlightIsQueued, Answers, GroupsOf

LEMMA OwnedNext == OwnedInv /\ [Next]_vars => OwnedInv'
<1> SUFFICES ASSUME OwnedInv, [Next]_vars PROVE OwnedInv'
  OBVIOUS
<1>0. TypeOK /\ InFlightIsQueued
  BY DEF OwnedInv
<1>1. CASE (\E p \in Pollers : Poll(p)) \/ Sweep \/ People \/ DedupWindowCloses
  <2>1. TypeOK'
    BY <1>0, <1>1, PollType, SweepType, PeopleType DEF DedupWindowCloses, TypeOK, feed
  <2>2. QED BY <1>1, <2>1, OwnedFeed
<1>2. ASSUME NEW g \in Groups, Deliver(g) PROVE OwnedInv'
  BY <1>0, <1>2, DeliverType, OwnedDeliver
<1>3. ASSUME NEW c \in Cases, Loose(c) PROVE OwnedInv'
  BY <1>0, <1>3, LooseType, OwnedLoose
<1>4. CASE UNCHANGED vars
  <2>1. TypeOK'
    BY <1>0, <1>4 DEF vars, TypeOK
  <2>2. QED
    BY <1>4, <2>1, OwnedStep
       DEF vars, OwnedInv, InFlightIsQueued, Answers, GroupsOf, Status
<1>5. QED BY <1>1, <1>2, <1>3, <1>4 DEF Next

LEMMA OwnedAlways == Spec => []OwnedInv
BY OwnedInit, OwnedNext, PTL DEF Spec

(* The pipeline's state is well typed in every behaviour; in particular no receive
   count passes maxReceiveCount and no row leaves the schema's statuses. *)
THEOREM PipelineTypeOK == Spec => []TypeOK
<1>1. OwnedInv => TypeOK BY DEF OwnedInv
<1>2. QED BY <1>1, OwnedAlways, PTL

(* Whatever fails, and however deliveries, people and the sweeper interleave, a case
   in processing that is not in hurt has a message in one of its groups. *)
THEOREM PipelineOwnsProcessing == Spec => []ProcessingIsOwned
<1>1. OwnedInv => ProcessingIsOwned
  BY DEF OwnedInv, ProcessingIsOwned, Answered, Answers
<1>2. QED BY <1>1, OwnedAlways, PTL

-----------------------------------------------------------------------------
(* The writes a step may make to one row: the poller's put, a status write of the
   invoker or the runtime, or the agent's update. *)

StatusWritten == {"processing", "manual_review_required"}

RowWrites(c) ==
  \/ cases'[c] = cases[c]
  \/ cases'[c] = PutNew(cases[c])
  \/ \E s \in StatusWritten : cases'[c] = SetStatus(cases[c], s)
  \/ \E s \in AgentStatuses : cases'[c] = AgentUpdate(cases[c], s)

LEMMA RowsAreWritten ==
  ASSUME TypeOK, [Next]_vars, NEW c \in Cases
  PROVE  RowWrites(c)
<1> USE DEF RowWrites, TypeOK
<1>1. ASSUME NEW p \in Pollers, Poll(p) PROVE RowWrites(c)
  BY <1>1 DEF Poll, PollCheck, PollPut, PollEnqueue, PollModeUnreadable,
              PollRequestFails, PollerDies
<1>2. CASE Sweep \/ People \/ DedupWindowCloses \/ UNCHANGED vars
  BY <1>2 DEF Sweep, SweepStart, RowAges, SweepSend, SweepSendFails, People,
              HumanSend, FlipMode, DedupWindowCloses, vars
<1>3. ASSUME NEW g \in Groups, Deliver(g) PROVE RowWrites(c)
  <2>1. CASE Handle(g)
    BY <2>1 DEF Handle, MarkProcessing, RunEnds, RunLacksSop, RunTimesOut, Verify,
                VerifyFails, RouteToReview, StopToReview, Acknowledge, GiveBack, TryStatus,
                LastStatus, WriteStatus, LoseWrite, StatusWritten
  <2>2. ASSUME NEW s \in CaseStatus, RunUpdatesCase(g, s) PROVE RowWrites(c)
    BY <2>2 DEF RunUpdatesCase
  <2>3. CASE Receive(g) \/ Redrive(g) \/ InvokerDies(g)
    BY <2>3 DEF Receive, Redrive, InvokerDies
  <2>4. QED BY <1>3, <2>1, <2>2, <2>3 DEF Deliver
<1>4. ASSUME NEW d \in Cases, Loose(d) PROVE RowWrites(c)
  BY <1>4 DEF Loose, ChatStarts, LooseUpdatesCase, LooseEnds
<1>5. QED BY <1>1, <1>2, <1>3, <1>4 DEF Next

(* What such a write makes of a row that has a stamp whenever it waits. *)
LEMMA StampSurvives ==
  ASSUME TypeOK, WaitingIsStamped, NEW c \in Cases, RowWrites(c)
  PROVE  Waiting(c)' => /\ cases'[c].inquiry # "none"
                        /\ Waiting(c) => cases'[c].inquiry = cases[c].inquiry
<1> DEFINE row == cases[c]
<1>1. row \in Row \cup {NoRow} /\ (Waiting(c) => row.inquiry # "none")
  BY DEF TypeOK, WaitingIsStamped
<1>2. CASE cases'[c] = row
  BY <1>1, <1>2 DEF Waiting, Status
<1>3. CASE cases'[c] = PutNew(row)
  <2>1. PutNew(row).status = "awaiting_human_input" => PutNew(row) = row
    BY <1>1, PutNewRow
  <2>2. QED BY <1>1, <1>3, <2>1 DEF Waiting, Status
<1>4. ASSUME NEW s \in StatusWritten, cases'[c] = SetStatus(row, s)
      PROVE  ~Waiting(c)'
  <2>1. SetStatus(row, s).status \in {s, "absent"}
    BY <1>1, SetStatusRow DEF StatusWritten, CaseStatus
  <2>2. QED BY <1>4, <2>1 DEF Waiting, Status, StatusWritten
<1>5. ASSUME NEW s \in AgentStatuses, cases'[c] = AgentUpdate(row, s), Waiting(c)'
      PROVE  /\ cases'[c].inquiry # "none"
             /\ Waiting(c) => cases'[c].inquiry = row.inquiry
  <2>1. s = "awaiting_human_input"
    BY <1>5 DEF Waiting, Status, AgentUpdate
  <2>2. cases'[c].inquiry = IF row.inquiry = "none" THEN Now(row) ELSE row.inquiry
    BY <1>5, <2>1 DEF AgentUpdate
  <2>3. QED BY <1>1, <2>2 DEF Now
<1>6. QED BY <1>2, <1>3, <1>4, <1>5 DEF RowWrites

(* The invariant behind both facts about waits. *)
StampInv == TypeOK /\ WaitingIsStamped

LEMMA StampAlways == Spec => []StampInv
<1>1. Init => WaitingIsStamped
  BY DEF Init, WaitingIsStamped, Waiting, Status, NoRow
<1>2. TypeOK /\ WaitingIsStamped /\ [Next]_vars => WaitingIsStamped'
  <2> SUFFICES ASSUME TypeOK, WaitingIsStamped, [Next]_vars, NEW c \in Cases, Waiting(c)'
               PROVE  cases'[c].inquiry # "none"
    BY DEF WaitingIsStamped
  <2>1. QED BY RowsAreWritten, StampSurvives
<1>3. QED BY <1>1, <1>2, PipelineTypeOK, PTL DEF Spec, StampInv

(* Whoever writes the case, a row in awaiting_human_input carries inquiry_sent_at. *)
THEOREM PipelineStampsWaits == Spec => []WaitingIsStamped
BY StampAlways, PTL DEF StampInv

(* While a wait lasts no writer restarts its age: not a redelivered run, not a chat
   that asks again, not a run its invoker gave up on. *)
THEOREM PipelineKeepsStamps == Spec => WaitKeepsItsStamp
<1>1. StampInv /\ [Next]_vars =>
        \A c \in Cases : Waiting(c) /\ Waiting(c)' => cases[c].inquiry' = cases[c].inquiry
  BY RowsAreWritten, StampSurvives DEF StampInv
<1>2. QED BY <1>1, StampAlways, PTL DEF Spec, WaitKeepsItsStamp

-----------------------------------------------------------------------------
(***************************************************************************)
(* One handoff per detection. OnePollerHandoff says nothing of the pollers   *)
(* that are about to send; the invariant does: the right to send a case's    *)
(* poller message is held by the one poller whose put made the row, or was    *)
(* spent on the message that is in the queue, and a row is never made twice.  *)
(***************************************************************************)
Handing(p, c) == poller[p].pc = "created" /\ poller[p].case = c

HandoffInv ==
  /\ \A p \in Pollers, c \in Cases : Handing(p, c) => Exists(cases[c])
  /\ \A p, q \in Pollers, c \in Cases : Handing(p, c) /\ Handing(q, c) => p = q
  /\ \A c \in Cases : \A i \in 1..Len(queue[c]) : queue[c][i] = "poller" =>
       Exists(cases[c]) /\ \A p \in Pollers : ~Handing(p, c)
  /\ \A c \in Cases : \A i, j \in 1..Len(queue[c]) :
       queue[c][i] = "poller" /\ queue[c][j] = "poller" => i = j

(* No request deletes a row. *)
LEMMA RowsStay ==
  ASSUME TypeOK, [Next]_vars, NEW c \in Cases, Exists(cases[c])
  PROVE  Exists(cases'[c])
<1>1. cases[c] \in Row \cup {NoRow} /\ cases[c] \in Row
  BY DEF TypeOK, Exists, NoRow
<1>2. RowWrites(c)
  BY RowsAreWritten
<1>3. CASE cases'[c] = cases[c]
  BY <1>3
<1>4. CASE cases'[c] = PutNew(cases[c])
  BY <1>4 DEF PutNew
<1>5. ASSUME NEW s \in StatusWritten, cases'[c] = SetStatus(cases[c], s)
      PROVE  Exists(cases'[c])
  BY <1>1, <1>5 DEF SetStatus, Exists, Row, StatusWritten
<1>6. ASSUME NEW s \in AgentStatuses, cases'[c] = AgentUpdate(cases[c], s)
      PROVE  Exists(cases'[c])
  BY <1>6, PipelineAssumption DEF AgentUpdate, Exists, CaseStatus
<1> QED BY <1>2, <1>3, <1>4, <1>5, <1>6 DEF RowWrites

(* A queue that lost its head or got another kind of message has no new handoff. *)
LEMMA HandoffKept ==
  ASSUME TypeOK, HandoffInv,
         \A c \in Cases : Exists(cases[c]) => Exists(cases'[c]),
         \A p \in Pollers, c \in Cases : Handing(p, c)' => Handing(p, c),
         \A c \in Cases : \/ queue'[c] = queue[c]
                          \/ queue[c] # <<>> /\ queue'[c] = Tail(queue[c])
                          \/ \E t \in Trigger \ {"poller"} : queue'[c] = Append(queue[c], t)
  PROVE  HandoffInv'
<1>1. ASSUME NEW c \in Cases
      PROVE  \E d \in {0, 1} : \A i \in 1..Len(queue'[c]) :
               queue'[c][i] = "poller" => /\ i + d \in 1..Len(queue[c])
                                          /\ queue[c][i + d] = "poller"
  <2>0. queue[c] \in Seq(Trigger) /\ Len(queue[c]) \in Nat
    BY DEF TypeOK
  <2>1. CASE queue'[c] = queue[c]
    BY <2>0, <2>1
  <2>2. CASE queue[c] # <<>> /\ queue'[c] = Tail(queue[c])
    <3>1. /\ Len(queue'[c]) = Len(queue[c]) - 1
          /\ \A i \in 1..Len(queue'[c]) : queue'[c][i] = queue[c][i + 1]
      BY <2>0, <2>2, HeadTailProperties
    <3>2. \A i \in 1..Len(queue'[c]) : i + 1 \in 1..Len(queue[c])
      BY <2>0, <3>1
    <3> QED BY <3>1, <3>2
  <2>3. ASSUME NEW t \in Trigger \ {"poller"}, queue'[c] = Append(queue[c], t)
        PROVE  \A i \in 1..Len(queue'[c]) : queue'[c][i] = "poller" =>
                 i + 0 \in 1..Len(queue[c]) /\ queue[c][i + 0] = "poller"
    <3>1. /\ Len(queue'[c]) = Len(queue[c]) + 1
          /\ \A i \in 1..Len(queue[c]) : queue'[c][i] = queue[c][i]
          /\ queue'[c][Len(queue[c]) + 1] = t
      BY <2>0, <2>3, AppendProperties
    <3> QED BY <2>0, <3>1
  <2> QED BY <2>1, <2>2, <2>3
<1>2. ASSUME NEW c \in Cases, NEW i \in 1..Len(queue'[c]), queue'[c][i] = "poller"
      PROVE  Exists(cases'[c]) /\ \A p \in Pollers : ~Handing(p, c)'
  BY <1>1, <1>2 DEF HandoffInv
<1>3. ASSUME NEW c \in Cases, NEW i \in 1..Len(queue'[c]), NEW j \in 1..Len(queue'[c]),
             queue'[c][i] = "poller", queue'[c][j] = "poller"
      PROVE  i = j
  <2>1. PICK d \in {0, 1} : \A k \in 1..Len(queue'[c]) :
               queue'[c][k] = "poller" => /\ k + d \in 1..Len(queue[c])
                                          /\ queue[c][k + d] = "poller"
    BY <1>1
  <2>2. i + d = j + d
    BY <1>3, <2>1 DEF HandoffInv
  <2>3. i \in Int /\ j \in Int
    OBVIOUS
  <2> QED BY <2>2, <2>3
<1>4. /\ \A p \in Pollers, c \in Cases : Handing(p, c)' => Exists(cases'[c])
      /\ \A p, q \in Pollers, c \in Cases : Handing(p, c)' /\ Handing(q, c)' => p = q
  BY DEF HandoffInv
<1> QED BY <1>2, <1>3, <1>4 DEF HandoffInv

(* What the senders but a poller, and the deliveries, do to the queue of a case. *)
LEMMA SentByOthers ==
  ASSUME TypeOK, NEW g \in Groups, NEW t \in Trigger, Send(g, t)
  PROVE  \A c \in Cases : queue'[c] = queue[c] \/ (c = g /\ queue'[c] = Append(queue[c], t))
BY DEF TypeOK, Send

LEMMA HandoffPoll ==
  ASSUME TypeOK, HandoffInv, NEW p \in Pollers, Poll(p)
  PROVE  HandoffInv'
<1> USE DEF sqs, feed
<1>0. /\ \A c \in Cases : Exists(cases[c]) => Exists(cases'[c])
      /\ poller[p] \in PollerState
  BY RowsStay DEF Next, TypeOK
<1>1. ASSUME NEW c \in Cases, PollCheck(p, c) PROVE HandoffInv'
  <2>1. /\ UNCHANGED queue
        /\ \A q \in Pollers, d \in Cases : Handing(q, d)' => Handing(q, d)
    BY <1>0, <1>1 DEF PollCheck, Handing, TypeOK, PollerState
  <2> QED BY <1>0, <2>1, HandoffKept
<1>2. CASE PollPut(p)
  <2> DEFINE c == poller[p].case
  <2>1. c \in Cases /\ poller[p].pc = "checked" /\ UNCHANGED queue
    BY <1>0, <1>2 DEF PollPut, PollerState
  <2>2. CASE Exists(cases[c])
    <3>1. \A q \in Pollers, d \in Cases : Handing(q, d)' => Handing(q, d)
      BY <1>2, <2>1, <2>2 DEF PollPut, Handing, TypeOK, NoPoll
    <3> QED BY <1>0, <2>1, <3>1, HandoffKept
  <2>3. CASE ~Exists(cases[c])
    <3>1. /\ Exists(cases'[c])
          /\ \A q \in Pollers, d \in Cases : Handing(q, d)' => Handing(q, d) \/ (q = p /\ d = c)
          /\ \A q \in Pollers : ~Handing(q, c)
          /\ \A i \in 1..Len(queue[c]) : queue[c][i] # "poller"
      BY <1>2, <2>1, <2>3 DEF PollPut, Handing, TypeOK, HandoffInv, PutNew, Exists
    <3> QED BY <1>0, <2>1, <3>1 DEF HandoffInv
  <2> QED BY <2>2, <2>3
<1>3. CASE PollEnqueue(p)
  <2>0. PICK c \in Cases : c = poller[p].case
    BY <1>0, <1>3 DEF PollEnqueue, PollerState
  <2>1. /\ Handing(p, c) /\ UNCHANGED cases
        /\ \A q \in Pollers, d \in Cases : Handing(q, d)' => Handing(q, d) /\ q # p
    BY <1>0, <1>3, <2>0 DEF PollEnqueue, PollerState, Handing, TypeOK, NoPoll
  <2>2. /\ Exists(cases[c]) /\ \A q \in Pollers : ~Handing(q, c)'
        /\ \A i \in 1..Len(queue[c]) : queue[c][i] # "poller"
    BY <2>1 DEF HandoffInv
  <2>3. \A d \in Cases : queue'[d] = queue[d] \/ (d = c /\ queue'[d] = Append(queue[d], "poller"))
    BY <1>3, <2>0, SentByOthers DEF PollEnqueue, Trigger
  <2>4. CASE queue'[c] = queue[c]
    <3>1. \A d \in Cases : queue'[d] = queue[d]
      BY <2>3, <2>4
    <3> QED BY <1>0, <2>1, <3>1, HandoffKept
  <2>5. CASE queue'[c] = Append(queue[c], "poller")
    <3>1. /\ queue[c] \in Seq(Trigger) /\ Len(queue[c]) \in Nat
          /\ Len(queue'[c]) = Len(queue[c]) + 1
          /\ \A i \in 1..Len(queue[c]) : queue'[c][i] = queue[c][i]
      BY <2>1, <2>5, AppendProperties DEF TypeOK
    <3>2. \A i \in 1..Len(queue'[c]) : queue'[c][i] = "poller" => i = Len(queue[c]) + 1
      BY <2>2, <3>1
    <3>3. \A d \in Cases : d # c => queue'[d] = queue[d]
      BY <2>3
    <3>4. /\ \A d \in Cases : \A i \in 1..Len(queue'[d]) : queue'[d][i] = "poller" =>
               Exists(cases'[d]) /\ \A q \in Pollers : ~Handing(q, d)'
          /\ \A d \in Cases : \A i, j \in 1..Len(queue'[d]) :
               queue'[d][i] = "poller" /\ queue'[d][j] = "poller" => i = j
      BY <2>1, <2>2, <3>2, <3>3 DEF HandoffInv
    <3>5. /\ \A q \in Pollers, d \in Cases : Handing(q, d)' => Exists(cases'[d])
          /\ \A q, r \in Pollers, d \in Cases : Handing(q, d)' /\ Handing(r, d)' => q = r
      BY <2>1 DEF HandoffInv
    <3> QED BY <3>4, <3>5 DEF HandoffInv
  <2> QED BY <2>1, <2>3, <2>4, <2>5
<1>4. CASE PollModeUnreadable(p) \/ PollRequestFails(p) \/ PollerDies(p)
  <2>1. /\ UNCHANGED queue
        /\ \A q \in Pollers, d \in Cases : Handing(q, d)' => Handing(q, d)
    <3>1. /\ poller'[p].pc = "idle" /\ \A q \in Pollers : q # p => poller'[q] = poller[q]
          /\ UNCHANGED queue
      <4>1. CASE PollModeUnreadable(p)
        BY <4>1 DEF PollModeUnreadable, TypeOK, NoPoll
      <4>2. CASE PollRequestFails(p)
        BY <4>2 DEF PollRequestFails, TypeOK, NoPoll
      <4>3. CASE PollerDies(p)
        BY <4>3 DEF PollerDies, TypeOK, NoPoll
      <4> QED BY <1>4, <4>1, <4>2, <4>3
    <3> QED BY <3>1 DEF Handing
  <2> QED BY <1>0, <2>1, HandoffKept
<1> QED BY <1>1, <1>2, <1>3, <1>4 DEF Poll

LEMMA HandoffNext ==
  ASSUME TypeOK, InFlightIsQueued, HandoffInv, [Next]_vars
  PROVE  HandoffInv'
<1> USE DEF sqs, feed
<1>0. \A c \in Cases : Exists(cases[c]) => Exists(cases'[c])
  BY RowsStay
<1>1. ASSUME NEW p \in Pollers, Poll(p) PROVE HandoffInv'
  BY <1>1, HandoffPoll
<1>2. ASSUME UNCHANGED poller,
             \A c \in Cases : \/ queue'[c] = queue[c]
                              \/ queue[c] # <<>> /\ queue'[c] = Tail(queue[c])
                              \/ \E t \in Trigger \ {"poller"} : queue'[c] = Append(queue[c], t)
      PROVE  HandoffInv'
  <2>1. \A q \in Pollers, d \in Cases : Handing(q, d)' => Handing(q, d)
    BY <1>2 DEF Handing
  <2> QED BY <1>0, <1>2, <2>1, HandoffKept
<1>3. CASE Sweep
  <2>1. UNCHANGED poller /\ (UNCHANGED queue \/ \E c \in Cases : Send(c, "batch"))
    BY <1>3 DEF Sweep, SweepStart, RowAges, SweepSend, SweepSendFails
  <2> QED BY <1>2, <2>1, SentByOthers DEF Trigger
<1>4. CASE People
  <2>1. UNCHANGED poller /\ (UNCHANGED queue
          \/ \E g \in Groups, t \in {"manual", "reply"} : Send(g, t))
    BY <1>4 DEF People, HumanSend, FlipMode
  <2> QED BY <1>2, <2>1, SentByOthers DEF Trigger
<1>5. ASSUME NEW g \in Groups, Deliver(g) PROVE HandoffInv'
  <2>1. UNCHANGED poller /\ (UNCHANGED queue \/ (queue[g] # <<>> /\ DeleteHead(g)))
    BY <1>5 DEF Deliver, Receive, Redrive, Handle, MarkProcessing, RunEnds, RunLacksSop,
         RunTimesOut, Verify, VerifyFails, RouteToReview, StopToReview, Acknowledge, GiveBack,
         RunUpdatesCase, InvokerDies, InFlightIsQueued, Step
  <2> QED BY <1>2, <2>1 DEF DeleteHead, TypeOK
<1>6. ASSUME NEW c \in Cases, Loose(c) PROVE HandoffInv'
  BY <1>2, <1>6 DEF Loose, ChatStarts, LooseUpdatesCase, LooseEnds
<1>7. CASE DedupWindowCloses \/ UNCHANGED vars
  BY <1>2, <1>7 DEF DedupWindowCloses, vars
<1> QED BY <1>1, <1>3, <1>4, <1>5, <1>6, <1>7 DEF Next

(* However many pollers see one SAP item and however stale their reads, a group never
   holds two poller messages: one detection is one handoff. *)
THEOREM PipelineHandsOverOnce == Spec => []OnePollerHandoff
<1>1. Init => HandoffInv
  <2> SUFFICES ASSUME Init PROVE HandoffInv
    OBVIOUS
  <2>1. \A c \in Cases : queue[c] = <<>> /\ Len(queue[c]) = 0
    BY DEF Init
  <2>2. \A p \in Pollers, c \in Cases : ~Handing(p, c)
    BY DEF Init, Handing, NoPoll
  <2> QED BY <2>1, <2>2 DEF HandoffInv
<1>2. OwnedInv /\ HandoffInv /\ [Next]_vars => HandoffInv'
  BY HandoffNext DEF OwnedInv
<1>3. OwnedInv /\ HandoffInv => OnePollerHandoff
  BY DEF OwnedInv, TypeOK, HandoffInv, OnePollerHandoff
<1> QED BY <1>1, <1>2, <1>3, OwnedAlways, PTL DEF Spec

-----------------------------------------------------------------------------
(* Who moves the row of a case that is not hurt, or heals it: the poller that puts it, or
   a delivery the case has in flight. *)
LEMMA RowMoves ==
  ASSUME TypeOK, [Next]_vars, NEW c \in Cases, c \notin hurt'
  PROVE  \/ c \notin hurt /\ Status(c)' \in {Status(c), "detected"}
         \/ \E g \in InFlight : CaseOf(g) = c /\ Deliver(g)
<1> USE DEF sqs, feed
<1>1. ASSUME NEW p \in Pollers, Poll(p)
      PROVE  UNCHANGED hurt /\ Status(c)' \in {Status(c), "detected"}
  <2>1. UNCHANGED hurt
    BY <1>1 DEF Poll, PollCheck, PollPut, PollEnqueue, PollModeUnreadable, PollRequestFails,
                PollerDies
  <2>2. UNCHANGED cases \/ PollPut(p)
    BY <1>1 DEF Poll, PollCheck, PollEnqueue, PollModeUnreadable, PollRequestFails, PollerDies
  <2>3. PollPut(p) => cases'[c] \in {cases[c], PutNew(cases[c])}
    BY DEF PollPut, TypeOK
  <2>4. cases[c] \in Row \cup {NoRow}
    BY DEF TypeOK
  <2> QED BY <2>1, <2>2, <2>3, <2>4, PutNewRow DEF Status
<1>2. CASE Sweep \/ People \/ DedupWindowCloses \/ UNCHANGED vars
  BY <1>2 DEF Sweep, SweepStart, RowAges, SweepSend, SweepSendFails, People, HumanSend, FlipMode,
              DedupWindowCloses, vars, Status
<1>3. ASSUME NEW g \in Groups, Deliver(g)
      PROVE  \/ c \notin hurt /\ Status(c)' = Status(c)
             \/ g \in InFlight /\ CaseOf(g) = c
  <2>1. CASE g \notin InFlight
    BY <1>3, <2>1 DEF InFlight, Deliver, Receive, Redrive, Handle, MarkProcessing, RunEnds,
         RunLacksSop, RunTimesOut, Verify, VerifyFails, RouteToReview, StopToReview, Acknowledge,
         GiveBack, RunUpdatesCase, InvokerDies, Step, Status
  <2>2. CASE CaseOf(g) # c
    <3>1. cases'[c] = cases[c] /\ c \notin hurt
      BY <1>3, <2>2 DEF Deliver, Receive, Redrive, Handle, MarkProcessing, RunEnds,
           RunLacksSop, RunTimesOut, Verify, VerifyFails, RouteToReview, StopToReview, Acknowledge,
           GiveBack, RunUpdatesCase, InvokerDies, TryStatus, LastStatus, Heal, Hurt, WriteStatus,
           LoseWrite, TypeOK
    <3> QED BY <3>1 DEF Status
  <2> QED BY <2>1, <2>2
<1>4. ASSUME NEW d \in Cases, Loose(d) PROVE c \notin hurt /\ Status(c)' = Status(c)
  BY <1>4 DEF Loose, ChatStarts, LooseUpdatesCase, LooseEnds, Status, TypeOK
<1> QED BY <1>1, <1>2, <1>3, <1>4 DEF Next

(* Only its own delivery moves a group's stage and its head's receive count. *)
LEMMA StageMoves ==
  ASSUME TypeOK, [Next]_vars, NEW g \in Groups, ~Deliver(g)
  PROVE  delivery'[g] = delivery[g] /\ receives'[g] = receives[g]
<1> USE DEF sqs, feed
<1>1. ASSUME NEW h \in Groups, h # g, Deliver(h)
      PROVE  delivery'[g] = delivery[g] /\ receives'[g] = receives[g]
  BY <1>1 DEF Deliver, Receive, Redrive, Handle, MarkProcessing, RunEnds, RunLacksSop,
       RunTimesOut, Verify, VerifyFails, RouteToReview, StopToReview, Acknowledge, GiveBack,
       RunUpdatesCase, InvokerDies, Step, DeleteHead, TypeOK
<1>2. CASE \E p \in Pollers : Poll(p)
  BY <1>2 DEF Poll, PollCheck, PollPut, PollEnqueue, PollModeUnreadable, PollRequestFails,
              PollerDies, Send
<1>3. CASE Sweep \/ People \/ DedupWindowCloses \/ UNCHANGED vars \/ \E c \in Cases : Loose(c)
  BY <1>3 DEF Sweep, SweepStart, RowAges, SweepSend, SweepSendFails, People, HumanSend,
       FlipMode, DedupWindowCloses, vars, Loose, ChatStarts, LooseUpdatesCase, LooseEnds, Send
<1> QED BY <1>1, <1>2, <1>3 DEF Next

-----------------------------------------------------------------------------
(***************************************************************************)
(* What an acknowledgement rests on, where a case has one delivery at a time. *)
(* The stage of a delivery then tells what its case's row says, unless a run  *)
(* that no delivery waits for has written it.                                *)
(***************************************************************************)
SettledInv ==
  \A g \in Groups : CaseOf(g) \notin hurt /\ delivery[g] = "acking" =>
    Status(CaseOf(g)) \in BusinessTerminal \cup {"absent", "detected"}

LEMMA SettledDeliver ==
  ASSUME TypeOK, NEW g \in Groups, Deliver(g), CaseOf(g) \notin hurt', delivery'[g] = "acking"
  PROVE  Status(CaseOf(g))' \in BusinessTerminal \cup {"absent", "detected"}
<1> USE DEF sqs, feed
<1>0. "manual_review_required" \in CaseStatus \cap BusinessTerminal
  BY DEF CaseStatus, BusinessTerminal
<1>1. CASE Verify(g)
  BY <1>1 DEF Verify, Step, Status, TypeOK
<1>2. CASE RouteToReview(g)
  <2>1. WriteStatus(g, "manual_review_required")
    BY <1>2 DEF RouteToReview, Step, TypeOK
  <2> QED BY <1>0, <2>1, WriteEffect
<1>3. CASE StopToReview(g)
  BY <1>0, <1>3, LastEffect DEF StopToReview
<1>4. CASE ~(Verify(g) \/ RouteToReview(g) \/ StopToReview(g))
  <2>1. Redrive(g) \/ (\E s \in CaseStatus : RunUpdatesCase(g, s))
    BY <1>4 DEF Deliver, Receive, Handle, MarkProcessing, RunEnds, RunLacksSop, RunTimesOut,
         VerifyFails, Acknowledge, GiveBack, InvokerDies, Step, TypeOK
  <2>2. delivery'[g] \in {"idle", "running"}
    BY <2>1 DEF Redrive, RunUpdatesCase
  <2> QED BY <2>2
<1> QED BY <1>1, <1>2, <1>3, <1>4

LEMMA SettledNext ==
  ASSUME TypeOK, OneDeliveryPerCase, SettledInv, [Next]_vars
  PROVE  SettledInv'
<1> SUFFICES ASSUME NEW g \in Groups, CaseOf(g) \notin hurt', delivery'[g] = "acking"
             PROVE  Status(CaseOf(g))' \in BusinessTerminal \cup {"absent", "detected"}
  BY DEF SettledInv
<1>1. CASE Deliver(g)
  BY <1>1, SettledDeliver
<1>2. CASE ~Deliver(g)
  <2>1. delivery[g] = "acking"
    BY <1>2, StageMoves
  <2>2. g \in InFlight /\ CaseOf(g) \in Cases
    BY <2>1, CaseOfGroup DEF InFlight
  <2>3. \A h \in InFlight : CaseOf(h) = CaseOf(g) => ~Deliver(h)
    BY <1>2, <2>2 DEF OneDeliveryPerCase
  <2>4. CaseOf(g) \notin hurt /\ Status(CaseOf(g))' \in {Status(CaseOf(g)), "detected"}
    <3> HIDE DEF CaseOf
    <3> QED BY <2>2, <2>3, RowMoves
  <2> QED BY <2>1, <2>4 DEF SettledInv
<1> QED BY <1>1, <1>2

LEMMA SettledAlways == Spec /\ []OneDeliveryPerCase => []SettledInv
<1>1. Init => SettledInv
  BY DEF Init, SettledInv
<1>2. OwnedInv /\ OneDeliveryPerCase /\ SettledInv /\ [Next]_vars => SettledInv'
  BY SettledNext DEF OwnedInv
<1> QED BY <1>1, <1>2, OwnedAlways, PTL DEF Spec

(* The case is serialised in the queue if its id has one spelling. *)
LEMMA SerialWithoutAliases == Aliases = {} => OneDeliveryPerCase
BY DEF OneDeliveryPerCase, InFlight

(* Where a case has one delivery at a time, an acknowledgement means that the outcome of
   the run is in the row. The hypothesis is what a second spelling of the case's id
   breaks; without one it holds. *)
THEOREM PipelineSettlesFirst ==
  /\ Spec /\ []OneDeliveryPerCase => AcknowledgedIsSettled
  /\ Aliases = {} => (Spec => AcknowledgedIsSettled)
<1>1. SettledInv /\ [Next]_vars =>
        \A g \in Groups :
          delivery[g] = "acking" /\ queue'[g] # queue[g] /\ CaseOf(g) \notin hurt =>
            Status(CaseOf(g)) \in BusinessTerminal \cup {"absent", "detected"}
  BY DEF SettledInv
<1>2. Spec /\ []OneDeliveryPerCase => AcknowledgedIsSettled
  BY <1>1, SettledAlways, PTL DEF Spec, AcknowledgedIsSettled
<1>3. Aliases = {} => OneDeliveryPerCase
  BY SerialWithoutAliases
<1>4. Aliases = {} => (Spec => AcknowledgedIsSettled)
  <2>1. SUFFICES ASSUME Aliases = {} PROVE Spec => AcknowledgedIsSettled
    OBVIOUS
  <2>2. OneDeliveryPerCase
    BY <1>3, <2>1
  <2> QED BY <1>2, <2>2, PTL
<1> QED BY <1>2, <1>4

-----------------------------------------------------------------------------
(***************************************************************************)
(* What a dead letter leaves behind. A head that waits for its redrive had    *)
(* its last receive, and the handler's last act on it was to write a review: *)
(* if that was lost, or the handler died before it, the case is hurt, and so  *)
(* it is once a run that no delivery waits for has written the row again.    *)
(***************************************************************************)
Spent(g) == delivery[g] = "idle" /\ receives[g] = MaxReceive
Alone(g) == GroupsOf(CaseOf(g)) = {g}
Reviewed == {"manual_review_required", "absent", "detected"}

ReviewedInv ==
  \A g \in Groups : Spent(g) /\ Alone(g) /\ CaseOf(g) \notin hurt => Status(CaseOf(g)) \in Reviewed

LEMMA SpentDeliver ==
  ASSUME TypeOK, NEW g \in Groups, Deliver(g), Spent(g)', CaseOf(g) \notin hurt'
  PROVE  Status(CaseOf(g))' \in Reviewed
<1> USE DEF sqs, feed, Spent
<1>0. MaxReceive # 0
  BY PipelineAssumption
<1>1. CASE GiveBack(g)
  <2>1. receives[g] >= MaxReceive
    BY <1>1, PipelineAssumption DEF GiveBack, TypeOK
  <2>2. LastStatus(g, "manual_review_required")
    BY <1>1, <2>1 DEF GiveBack
  <2> QED BY <2>2, LastEffect DEF Reviewed
<1>2. CASE InvokerDies(g)
  <2>1. receives[g] >= MaxReceive
    BY <1>2, PipelineAssumption DEF InvokerDies, TypeOK
  <2> QED BY <1>2, <2>1 DEF InvokerDies, Hurt
<1>3. CASE Redrive(g) \/ Acknowledge(g)
  BY <1>0, <1>3 DEF Redrive, Acknowledge, DeleteHead, TypeOK
<1>4. CASE \E s \in CaseStatus : RunUpdatesCase(g, s)
  BY <1>4 DEF RunUpdatesCase
<1>5. CASE Receive(g) \/ (Handle(g) /\ ~GiveBack(g) /\ ~Acknowledge(g))
  BY <1>5 DEF Receive, Handle, MarkProcessing, RunEnds, RunLacksSop, RunTimesOut, Verify,
       VerifyFails, RouteToReview, StopToReview, Step, TypeOK
<1> QED BY <1>1, <1>2, <1>3, <1>4, <1>5 DEF Deliver

LEMMA ReviewedNext ==
  ASSUME TypeOK, ReviewedInv, [Next]_vars
  PROVE  ReviewedInv'
<1> SUFFICES ASSUME NEW g \in Groups, Spent(g)', Alone(g), CaseOf(g) \notin hurt'
             PROVE  Status(CaseOf(g))' \in Reviewed
  BY DEF ReviewedInv, Alone, GroupsOf
<1>1. CASE Deliver(g)
  BY <1>1, SpentDeliver
<1>2. CASE ~Deliver(g)
  <2>1. Spent(g) /\ CaseOf(g) \in Cases
    BY <1>2, StageMoves, CaseOfGroup DEF Spent
  <2>2. \A h \in InFlight : CaseOf(h) = CaseOf(g) => ~Deliver(h)
    BY <1>2 DEF Alone, GroupsOf, InFlight
  <2>3. CaseOf(g) \notin hurt /\ Status(CaseOf(g))' \in {Status(CaseOf(g)), "detected"}
    <3> HIDE DEF CaseOf
    <3> QED BY <2>1, <2>2, RowMoves
  <2> QED BY <2>1, <2>3 DEF ReviewedInv, Reviewed
<1> QED BY <1>1, <1>2

(* For any number of receives, retries, faults and runs on the case: a message that is
   given up leaves its case in review, if nobody else works on the case and nothing that
   the handler wrote last was lost or written over. *)
THEOREM PipelineReviewsDeadLetters == Spec => DeadLetterIsReviewed
<1>1. Init => ReviewedInv
  BY PipelineAssumption DEF Init, ReviewedInv, Spent
<1>2. OwnedInv /\ ReviewedInv /\ [Next]_vars => ReviewedInv'
  BY ReviewedNext DEF OwnedInv
<1>3. ReviewedInv /\ [Next]_vars =>
        \A g \in Groups :
          GivenUp(g) /\ CaseOf(g) \notin hurt /\ GroupsOf(CaseOf(g)) = {g} =>
            Status(CaseOf(g)) \in {"manual_review_required", "absent", "detected"}
  BY DEF ReviewedInv, Spent, Alone, Reviewed, GivenUp
<1> QED BY <1>1, <1>2, <1>3, OwnedAlways, PTL DEF Spec, DeadLetterIsReviewed

=============================================================================
