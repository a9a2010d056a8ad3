----------------------------- MODULE CasePipeline -----------------------------
(***************************************************************************)
(* The autonomous pipeline: the poller and the people who hand cases to the  *)
(* agent, the batch sweeper that recovers missed handoffs, the FIFO queue,   *)
(* and the invoker that runs the agent on the head of a message group and    *)
(* answers for what the run left in the cases table.                        *)
(*                                                                         *)
(* Each request to DynamoDB, SQS or SSM is a step of its own, and between    *)
(* any two steps of one handler every other actor may move or the handler's  *)
(* Lambda may die.                                                          *)
(***************************************************************************)
EXTENDS CaseRow, Naturals, Sequences, FiniteSets

CONSTANTS
  Cases,           \* canonical case ids
  Aliases,         \* spellings of a case id that normalise to a canonical one
  AliasOf,         \* the case each alias is a spelling of
  Pollers,         \* poller containers that may be warm at the same time
  AgentStatuses,   \* statuses the model passes to update_case_state
  MaxConcurrency,  \* concurrent invoker Lambdas of the event source mapping
  MaxReceive,      \* maxReceiveCount of the queue, receive_count of the handler
  MaxCases,        \* BATCH_MAX_CASES
  StaleReads,      \* TRUE: _case_exists may miss a row (weak read, read error)
  MaxQueue,        \* bound: messages waiting in one group
  MaxHuman,        \* bound: messages sent by people
  MaxFaults,       \* bound: crashes, lost writes and failed sends
  MaxLoose,        \* bound: agent runs on one case that no delivery owns
  MaxFlips         \* bound: changes of the trigger mode

ASSUME PipelineAssumption ==
  /\ Aliases \cap Cases = {}
  /\ AliasOf \in [Aliases -> Cases]
  /\ AgentStatuses \subseteq CaseStatus
  /\ MaxReceive \in Nat \ {0}
  /\ {MaxConcurrency, MaxCases, MaxQueue, MaxHuman, MaxFaults, MaxLoose, MaxFlips}
       \subseteq Nat
  /\ StaleReads \in BOOLEAN

Groups == Cases \cup Aliases
CaseOf(g) == IF g \in Cases THEN g ELSE AliasOf[g]
GroupsOf(c) == {g \in Groups : CaseOf(g) = c}

(* Who sent a message. "reply" stands for whatever people send whose body differs from
   those before: ticket answers, mail, another user's Process button. The other bodies
   depend on the case alone. *)
Trigger == {"poller", "batch", "manual", "reply"}
Mode == {"auto", "manual"}

(* Where a delivery of the head of a group stands in the invoker's handler. *)
Stage == {"idle",        \* no delivery in flight
          "received",    \* handler entered, case id normalised
          "running",     \* status write tried, agent invoked
          "finished",    \* stream drained: RUN_FINISHED
          "stopped",     \* stream drained: a deliberate stop code
          "unverified",  \* case read, not in a business-terminal status
          "failed",      \* in the except clause
          "acking"}      \* returned {}: the event source will delete the message

VARIABLES
  cases,     \* the cases table
  stale,     \* cases whose row is older than BATCH_MIN_AGE_MINUTES
  queue,     \* per message group, the triggers of the messages not yet deleted
  receives,  \* per group, ApproximateReceiveCount of its head
  recent,    \* per group, the bodies sent within the deduplication window
  delivery,  \* per group, the stage of the delivery of its head
  loose,     \* per case, live agent runs no delivery waits for
  dlq,       \* cases with a message in the dead-letter queue
  poller,    \* per poller container: the case in hand, and the cached mode
  sweep,     \* cases the running sweep has read and not yet sent
  mode,      \* the trigger-mode parameter
  hurt,      \* history: cases whose row does not hold the pipeline's last word: a run
             \* that no delivery waits for has updated it since, the last receive
             \* died, or a last status write was lost
  budget     \* what the bounds leave: messages by people, faults, mode flips

sqs   == <<queue, receives, recent, dlq>>
feed  == <<poller, sweep, mode>>
vars  == <<cases, stale, queue, receives, recent, delivery, loose, dlq, poller,
           sweep, mode, hurt, budget>>

NoPoll == [pc |-> "idle", case |-> "none", cached |-> "unset"]
PollerState ==
  [pc : {"idle"}, case : {"none"}, cached : Mode \cup {"unset"}]
    \cup [pc : {"checked", "created"}, case : Cases, cached : Mode \cup {"unset"}]

TypeOK ==
  /\ cases \in [Cases -> Row \cup {NoRow}]
  /\ stale \subseteq Cases
  /\ queue \in [Groups -> Seq(Trigger)]
  /\ receives \in [Groups -> 0..MaxReceive]
  /\ recent \in [Groups -> SUBSET Trigger]
  /\ delivery \in [Groups -> Stage]
  /\ loose \in [Cases -> Nat]
  /\ dlq \subseteq Cases
  /\ poller \in [Pollers -> PollerState]
  /\ sweep \subseteq Cases
  /\ mode \in Mode
  /\ hurt \subseteq Cases
  /\ budget \in [human : Nat, faults : Nat, flips : Nat]

Init ==
  /\ cases = [c \in Cases |-> NoRow]
  /\ stale = {}
  /\ queue = [g \in Groups |-> <<>>]
  /\ receives = [g \in Groups |-> 0]
  /\ recent = [g \in Groups |-> {}]
  /\ delivery = [g \in Groups |-> "idle"]
  /\ loose = [c \in Cases |-> 0]
  /\ dlq = {}
  /\ poller = [p \in Pollers |-> NoPoll]
  /\ sweep = {}
  /\ mode \in Mode
  /\ hurt = {}
  /\ budget = [human |-> MaxHuman, faults |-> MaxFaults, flips |-> MaxFlips]

Fault == /\ budget.faults > 0
         /\ budget' = [budget EXCEPT !.faults = @ - 1]

-----------------------------------------------------------------------------
(* The queue, as the producers use it. *)

(* SendMessage to group g: content-based deduplication drops a body that was sent
   within the window, whether or not the earlier message is still in the queue. *)
Send(g, t) ==
  /\ Len(queue[g]) < MaxQueue
  /\ queue' = IF t \in recent[g] THEN queue
              ELSE [queue EXCEPT ![g] = Append(@, t)]
  /\ recent' = IF t = "reply" THEN recent
               ELSE [recent EXCEPT ![g] = @ \cup {t}]
  /\ UNCHANGED <<receives, dlq>>

(* Five minutes pass: the queue forgets the bodies it has seen. *)
DedupWindowCloses ==
  /\ recent # [g \in Groups |-> {}]
  /\ recent' = [g \in Groups |-> {}]
  /\ UNCHANGED <<cases, stale, queue, receives, dlq, delivery, loose, feed, hurt, budget>>

DeleteHead(g) ==
  /\ queue' = [queue EXCEPT ![g] = Tail(@)]
  /\ receives' = [receives EXCEPT ![g] = 0]

(* Mutant of Redrive: the head is never received often enough. *)
RedriveOffByOne(g) ==
  /\ delivery[g] = "idle" /\ queue[g] # <<>> /\ receives[g] > MaxReceive
  /\ DeleteHead(g)
  /\ dlq' = dlq \cup {CaseOf(g)}
  /\ UNCHANGED <<cases, stale, recent, delivery, loose, feed, hurt, budget>>

(* A head that was received MaxReceive times without being deleted is redriven. *)
Redrive(g) ==
  /\ delivery[g] = "idle" /\ queue[g] # <<>> /\ receives[g] = MaxReceive
  /\ DeleteHead(g)
  /\ dlq' = dlq \cup {CaseOf(g)}
  /\ UNCHANGED <<cases, stale, recent, delivery, loose, feed, hurt, budget>>

-----------------------------------------------------------------------------
(* The poller: poll_domain's loop body for one SAP item. *)

PollCheck(p, c) ==
  /\ poller[p].pc = "idle"
  /\ StaleReads \/ cases[c].status \in {"absent", "detected"}
  /\ poller' = [poller EXCEPT ![p].pc = "checked", ![p].case = c]
  /\ UNCHANGED <<cases, stale, sqs, delivery, loose, sweep, mode, hurt, budget>>

(* Mutant of PollPut: the result of the conditional put is not looked at. *)
PollPutIgnoresConflict(p) ==
  /\ poller[p].pc = "checked"
  /\ cases' = [cases EXCEPT ![poller[p].case] = PutNew(@)]
  /\ poller' = [poller EXCEPT ![p].pc = "created"]
  /\ UNCHANGED <<stale, sqs, delivery, loose, sweep, mode, hurt, budget>>

PollPut(p) ==
  LET c == poller[p].case IN
  /\ poller[p].pc = "checked"
  /\ cases' = [cases EXCEPT ![c] = PutNew(@)]
  /\ poller' = [poller EXCEPT ![p] = IF Exists(cases[c])
                                     THEN [NoPoll EXCEPT !.cached = poller[p].cached]
                                     ELSE [poller[p] EXCEPT !.pc = "created"]]
  /\ UNCHANGED <<stale, sqs, delivery, loose, sweep, mode, hurt, budget>>

(* _get_trigger_mode answers from the container's cache once it has one. *)
ModeSeen(p) == IF poller[p].cached = "unset" THEN mode ELSE poller[p].cached

PollEnqueue(p) ==
  LET seen == ModeSeen(p) IN
  /\ poller[p].pc = "created"
  /\ IF seen = "auto" THEN Send(poller[p].case, "poller") ELSE UNCHANGED sqs
  /\ poller' = [poller EXCEPT ![p] = [NoPoll EXCEPT !.cached = seen]]
  /\ UNCHANGED <<cases, stale, delivery, loose, sweep, mode, hurt, budget>>

(* The parameter cannot be read: "manual" is cached, and nothing is sent. *)
PollModeUnreadable(p) ==
  /\ poller[p].pc = "created" /\ poller[p].cached = "unset"
  /\ Fault
  /\ poller' = [poller EXCEPT ![p] = [NoPoll EXCEPT !.cached = "manual"]]
  /\ UNCHANGED <<cases, stale, sqs, delivery, loose, sweep, mode, hurt>>

(* The put or the send fails, and poll_domain goes on to the next item. *)
PollRequestFails(p) ==
  /\ \/ poller[p].pc = "checked"
     \/ poller[p].pc = "created" /\ ModeSeen(p) = "auto"
  /\ Fault
  /\ poller' = [poller EXCEPT ![p] = [NoPoll EXCEPT !.cached =
                   IF poller[p].pc = "created" THEN "auto" ELSE poller[p].cached]]
  /\ UNCHANGED <<cases, stale, sqs, delivery, loose, sweep, mode, hurt>>

(* The container dies, or is retired between two polls. *)
PollerDies(p) ==
  /\ poller[p] # NoPoll
  /\ IF poller[p].pc = "idle" THEN UNCHANGED budget ELSE Fault
  /\ poller' = [poller EXCEPT ![p] = NoPoll]
  /\ UNCHANGED <<cases, stale, sqs, delivery, loose, sweep, mode, hurt>>

-----------------------------------------------------------------------------
(* The batch sweeper. *)

RowAges(c) ==
  /\ cases[c].origin = "poller" /\ c \notin stale
  /\ stale' = stale \cup {c}
  /\ UNCHANGED <<cases, sqs, delivery, loose, feed, hurt, budget>>

(* Mutant of StaleDetected: created_at is compared with the cutoff the wrong way. *)
FreshDetected == {c \in Cases \ stale : cases[c].status = "detected"}

StaleDetected == {c \in stale : cases[c].status = "detected"}

SweepStart ==
  /\ sweep = {} /\ mode = "auto" /\ StaleDetected # {}
  /\ \E S \in SUBSET StaleDetected :
       /\ Cardinality(S) = IF Cardinality(StaleDetected) < MaxCases
                           THEN Cardinality(StaleDetected) ELSE MaxCases
       /\ sweep' = S
  /\ UNCHANGED <<cases, stale, sqs, delivery, loose, poller, mode, hurt, budget>>

SweepSend(c) ==
  /\ c \in sweep
  /\ Send(c, "batch")
  /\ sweep' = sweep \ {c}
  /\ UNCHANGED <<cases, stale, delivery, loose, poller, mode, hurt, budget>>

SweepSendFails(c) ==
  /\ c \in sweep
  /\ Fault
  /\ sweep' = sweep \ {c}
  /\ UNCHANGED <<cases, stale, sqs, delivery, loose, poller, mode, hurt>>

-----------------------------------------------------------------------------
(* People: the Process button, the autonomy API, ticket actions, inbound mail. *)

(* Only the autonomy API passes on an id as the caller spelt it. *)
HumanSend(g, t) ==
  /\ budget.human > 0
  /\ t \in IF g \in Cases THEN {"manual", "reply"} ELSE {"manual"}
  /\ Send(g, t)
  /\ budget' = [budget EXCEPT !.human = @ - 1]
  /\ UNCHANGED <<cases, stale, delivery, loose, feed, hurt>>

FlipMode ==
  /\ budget.flips > 0
  /\ mode' \in Mode \ {mode}
  /\ budget' = [budget EXCEPT !.flips = @ - 1]
  /\ UNCHANGED <<cases, stale, sqs, delivery, loose, poller, sweep, hurt>>

-----------------------------------------------------------------------------
(* The invoker's handler, one delivery of the head of group g at a time. *)

Step(g, from, to) ==
  /\ delivery[g] = from
  /\ delivery' = [delivery EXCEPT ![g] = to]

InFlight == {g \in Groups : delivery[g] # "idle"}

Receive(g) ==
  /\ queue[g] # <<>> /\ receives[g] < MaxReceive
  /\ Cardinality(InFlight) < MaxConcurrency
  /\ Step(g, "idle", "received")
  /\ receives' = [receives EXCEPT ![g] = @ + 1]
  /\ UNCHANGED <<cases, stale, queue, recent, dlq, loose, feed, hurt, budget>>

(* _update_status: written if the row exists, or the exception is swallowed. *)
WriteStatus(g, s) ==
  /\ cases' = [cases EXCEPT ![CaseOf(g)] = SetStatus(@, s)]
  /\ UNCHANGED budget
LoseWrite == Fault /\ UNCHANGED cases

(* What is lost for good hurts the case; what is written makes its row good again. *)
Hurt(g) == hurt' = hurt \cup {CaseOf(g)}
Heal(g) == hurt' = hurt \ {CaseOf(g)}

(* A write the handler does not depend on. *)
TryStatus(g, s) ==
  \/ WriteStatus(g, s) /\ Heal(g)
  \/ LoseWrite /\ UNCHANGED hurt

(* The write after which the handler never comes back to the message. *)
LastStatus(g, s) ==
  \/ WriteStatus(g, s) /\ Heal(g)
  \/ LoseWrite /\ Hurt(g)

MarkProcessing(g) ==
  /\ Step(g, "received", "running")
  /\ TryStatus(g, "processing")
  /\ UNCHANGED <<stale, sqs, loose, feed>>

(* update_case_state called by the run this delivery is streaming. *)
RunUpdatesCase(g, s) ==
  /\ delivery[g] = "running" /\ s \in AgentStatuses
  /\ cases' = [cases EXCEPT ![CaseOf(g)] = AgentUpdate(@, s)]
  /\ Heal(g)
  /\ UNCHANGED <<stale, sqs, delivery, loose, feed, budget>>

(* The SOP cannot be loaded: the runtime flags the case and ends with RUN_ERROR. *)
RunLacksSop(g) ==
  /\ Step(g, "running", "failed")
  /\ TryStatus(g, "manual_review_required")
  /\ UNCHANGED <<stale, sqs, loose, feed>>

(* The stream ends: a finish, a deliberate stop, or anything else. *)
RunEnds(g, how) ==
  /\ how \in {"finished", "stopped", "failed"}
  /\ Step(g, "running", how)
  /\ UNCHANGED <<cases, stale, sqs, loose, feed, hurt, budget>>

(* The invoker gives up on the stream while the run goes on without it. *)
Abandon(g) ==
  /\ loose[CaseOf(g)] < MaxLoose
  /\ loose' = [loose EXCEPT ![CaseOf(g)] = @ + 1]

RunTimesOut(g) ==
  /\ Step(g, "running", "failed")
  /\ Abandon(g)
  /\ UNCHANGED <<cases, stale, sqs, feed, hurt, budget>>

(* Mutant of Verify: error passes for an outcome. *)
VerifyTakesError(g) ==
  LET s == cases[CaseOf(g)].status IN
  /\ Step(g, "finished", IF s = "absent" THEN "failed"
                         ELSE IF s \in BusinessTerminal \cup {"error"} THEN "acking"
                         ELSE "unverified")
  /\ UNCHANGED <<cases, stale, sqs, loose, feed, hurt, budget>>

(* _verify_business_outcome: the consistent read, then the write it may call for. *)
Verify(g) ==
  LET s == cases[CaseOf(g)].status IN
  /\ Step(g, "finished", IF s = "absent" THEN "failed"
                         ELSE IF s \in BusinessTerminal THEN "acking"
                         ELSE "unverified")
  /\ UNCHANGED <<cases, stale, sqs, loose, feed, hurt, budget>>

(* The row cannot be read: nothing is known that would be safe to acknowledge. *)
VerifyFails(g) ==
  /\ Step(g, "finished", "failed")
  /\ Fault
  /\ UNCHANGED <<cases, stale, sqs, loose, feed, hurt>>

RouteToReview(g) ==
  /\ \/ Step(g, "unverified", "acking") /\ WriteStatus(g, "manual_review_required") /\ Heal(g)
     \/ Step(g, "unverified", "failed") /\ LoseWrite /\ UNCHANGED hurt
  /\ UNCHANGED <<stale, sqs, loose, feed>>

(* A deliberate stop goes to review and is acknowledged whether or not the write
   was persisted: nobody looks at what _update_status returned. *)
StopToReview(g) ==
  /\ Step(g, "stopped", "acking")
  /\ LastStatus(g, "manual_review_required")
  /\ UNCHANGED <<stale, sqs, loose, feed>>

Acknowledge(g) ==
  /\ Step(g, "acking", "idle")
  /\ DeleteHead(g)
  /\ UNCHANGED <<cases, stale, recent, dlq, loose, feed, hurt, budget>>

(* Mutant of GiveBack: the last receive is taken for one more try. *)
GiveBackOffByOne(g) ==
  /\ Step(g, "failed", "idle")
  /\ IF receives[g] > MaxReceive
     THEN LastStatus(g, "manual_review_required")
     ELSE UNCHANGED <<cases, hurt, budget>>
  /\ UNCHANGED <<stale, sqs, loose, feed>>

(* Mutant of GiveBack: the last receive only moves a case that is still in processing. *)
GiveBackIfStuck(g) ==
  /\ Step(g, "failed", "idle")
  /\ IF receives[g] >= MaxReceive /\ cases[CaseOf(g)].status = "processing"
     THEN LastStatus(g, "manual_review_required")
     ELSE UNCHANGED <<cases, hurt, budget>>
  /\ UNCHANGED <<stale, sqs, loose, feed>>

(* The except clause: the last receive writes manual review, then the batch failure
   is returned and the message stays. *)
GiveBack(g) ==
  /\ Step(g, "failed", "idle")
  /\ IF receives[g] >= MaxReceive
     THEN LastStatus(g, "manual_review_required")
     ELSE UNCHANGED <<cases, hurt, budget>>
  /\ UNCHANGED <<stale, sqs, loose, feed>>

(* The invoker's Lambda dies; what it was streaming may go on. *)
InvokerDies(g) ==
  /\ delivery[g] # "idle"
  /\ Fault
  /\ delivery' = [delivery EXCEPT ![g] = "idle"]
  /\ IF receives[g] >= MaxReceive THEN Hurt(g) ELSE UNCHANGED hurt
  /\ UNCHANGED loose \/ (delivery[g] = "running" /\ Abandon(g))
  /\ UNCHANGED <<cases, stale, sqs, feed>>

-----------------------------------------------------------------------------
(* Agent runs no delivery waits for: interactive chat on a case, a webhook whose
   case the agent resolved itself, a run its invoker gave up on. *)

ChatStarts(c) ==
  /\ loose[c] < MaxLoose
  /\ loose' = [loose EXCEPT ![c] = @ + 1]
  /\ UNCHANGED <<cases, stale, sqs, delivery, feed, hurt, budget>>

LooseUpdatesCase(c, s) ==
  /\ loose[c] > 0 /\ s \in AgentStatuses
  /\ cases' = [cases EXCEPT ![c] = AgentUpdate(@, s)]
  /\ hurt' = hurt \cup {c}
  /\ UNCHANGED <<stale, sqs, delivery, loose, feed, budget>>

LooseEnds(c) ==
  /\ loose[c] > 0
  /\ loose' = [loose EXCEPT ![c] = @ - 1]
  /\ UNCHANGED <<cases, stale, sqs, delivery, feed, hurt, budget>>

-----------------------------------------------------------------------------
Poll(p) ==
  \/ \E c \in Cases : PollCheck(p, c)
  \/ PollPut(p)
  \/ PollEnqueue(p)
  \/ PollModeUnreadable(p)
  \/ PollRequestFails(p)
  \/ PollerDies(p)

Sweep ==
  \/ SweepStart
  \/ \E c \in Cases : RowAges(c) \/ SweepSend(c) \/ SweepSendFails(c)

People ==
  \/ \E g \in Groups, t \in Trigger : HumanSend(g, t)
  \/ FlipMode

Handle(g) ==
  \/ MarkProcessing(g)
  \/ \E how \in Stage : RunEnds(g, how)
  \/ RunLacksSop(g)
  \/ RunTimesOut(g)
  \/ Verify(g)
  \/ VerifyFails(g)
  \/ RouteToReview(g)
  \/ StopToReview(g)
  \/ Acknowledge(g)
  \/ GiveBack(g)

Deliver(g) ==
  \/ Receive(g)
  \/ Redrive(g)
  \/ Handle(g)
  \/ \E s \in CaseStatus : RunUpdatesCase(g, s)
  \/ InvokerDies(g)

Loose(c) ==
  \/ ChatStarts(c)
  \/ \E s \in CaseStatus : LooseUpdatesCase(c, s)
  \/ LooseEnds(c)

Next ==
  \/ DedupWindowCloses
  \/ \E p \in Pollers : Poll(p)
  \/ Sweep
  \/ People
  \/ \E g \in Groups : Deliver(g)
  \/ \E c \in Cases : Loose(c)

Spec == Init /\ [][Next]_vars

(***************************************************************************)
(* Fairness: SQS delivers and redrives, a handler that lives goes on (the    *)
(* run ends at the latest at the turn limit or the Lambda's deadline), the   *)
(* sweeper's schedule fires, rows age and the deduplication window closes.   *)
(* Nobody promises that people act, that the poller finds anything, or that  *)
(* faults stop: the fault budget is what bounds them.                       *)
(***************************************************************************)
FairSpec ==
  /\ Spec
  /\ WF_vars(DedupWindowCloses)
  /\ WF_vars(SweepStart)
  /\ \A c \in Cases : WF_vars(RowAges(c)) /\ WF_vars(SweepSend(c))
  /\ \A g \in Groups : /\ WF_vars(Receive(g))
                       /\ WF_vars(Redrive(g))
                       /\ WF_vars(Handle(g))

-----------------------------------------------------------------------------
Status(c) == cases[c].status
Waiting(c) == Status(c) = "awaiting_human_input"

(* "... instead of leaving the case stuck in processing": a case that says an agent
   is at work on it has a message that will bring the handler back to it, whatever
   mixture of failures, redeliveries and later messages got it there. The exceptions
   are the cases in hurt: a run nobody waits for may write any status after everybody
   has gone. Violating it takes a delivery to end without settling
   the case, on any of its six ways out. *)
ProcessingIsOwned ==
  \A c \in Cases : Status(c) = "processing" /\ c \notin hurt =>
     \E g \in GroupsOf(c) : queue[g] # <<>>

(* A message is deleted, other than by redrive, only if its case is settled: an
   acknowledgement means the run's outcome was persisted in the row, not just that
   the stream ended. (A message may name a case that has no row; the poller may
   detect that case while the run is being stopped.) *)
AcknowledgedIsSettled ==
  [][\A g \in Groups :
       delivery[g] = "acking" /\ queue'[g] # queue[g] /\ CaseOf(g) \notin hurt =>
         Status(CaseOf(g)) \in BusinessTerminal \cup {"absent", "detected"}]_vars

(* A message that is given up, to a queue no handler reads, leaves its case to people:
   whatever its agent runs had written, and however its deliveries died or were retried,
   the row asks for a review, unless the row was not there when the last receive wrote
   it, or a run nobody waits for has written it since. (Another spelling of the id may be
   at work on the case.) *)
GivenUp(g) == delivery[g] = "idle" /\ receives[g] = MaxReceive /\ Len(queue'[g]) < Len(queue[g])
DeadLetterIsReviewed ==
  [][\A g \in Groups :
       GivenUp(g) /\ CaseOf(g) \notin hurt /\ GroupsOf(CaseOf(g)) = {g} =>
         Status(CaseOf(g)) \in {"manual_review_required", "absent", "detected"}]_vars

(* However many pollers see the same SAP item, and however stale their existence check, a
   case is handed to the agent by the poller that created it and by no other, so one
   detection is never two poller messages. *)
OnePollerHandoff ==
  \A c \in Cases : \A i, j \in DOMAIN queue[c] :
     queue[c][i] = "poller" /\ queue[c][j] = "poller" => i = j

(* The handover's age can be shown for every waiting case, and while the wait lasts
   nothing the case's other writers do restarts it. *)
WaitingIsStamped == \A c \in Cases : Waiting(c) => cases[c].inquiry # "none"
WaitKeepsItsStamp ==
  [][\A c \in Cases : Waiting(c) /\ Waiting(c)' => cases[c].inquiry' = cases[c].inquiry]_vars

(* No message, however its deliveries fail, blocks its case's group for good. *)
HeadsMoveOn == \A g \in Groups : receives[g] > 0 ~> receives[g] = 0

(* ADR-015: a case whose handoff was missed, under manual mode or because the send
   failed, is recovered once the mode stays auto. *)
DetectedIsRecovered ==
  <>[](mode = "auto") =>
    \A c \in Cases : Status(c) = "detected" ~> Status(c) # "detected"

-----------------------------------------------------------------------------
(* What the documentation says and the code does not do; each is a run that is
   expected to find it violated. *)

(* ADR-017: "leaving awaiting_human_input removes inquiry_sent_at", so that "a later,
   separate escalation starts a new interval". *)
WaitIsAgedFromItsOwnInquiry ==
  \A c \in Cases : Waiting(c) => cases[c].inquiry = "current"

(* AUTONOMY_CONTROLS.md:10: trigger-mode, which "operators can flip without
   redeployment", "gates every unattended enqueue path". *)
PollerObeysMode ==
  [][\A c \in Cases : queue'[c] = Append(queue[c], "poller") => mode = "auto"]_vars

(* backend-stack.ts:2107-2109: every producer "groups one case identically, which is
   what keeps a case serialized in the queue". *)
OneDeliveryPerCase ==
  \A g, h \in InFlight : CaseOf(g) = CaseOf(h) => g = h
=============================================================================
