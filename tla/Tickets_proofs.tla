---------------------------- MODULE Tickets_proofs ----------------------------
(***************************************************************************)
(* Proofs about Tickets, for any tickets, cases, reviewers and bounds. The    *)
(* inductive invariant says what a request knows between its three calls:     *)
(* its decision still fits the ticket's question, and once it has recorded it *)
(* the ticket carries it. Nothing it relies on can be taken back, because no   *)
(* request changes a ticket's type or case or removes an answer.             *)
(***************************************************************************)
EXTENDS Tickets, TLAPS

(* What is appended is in the sequence, and what was in it stays. *)
LEMMA InAppend ==
  ASSUME NEW s \in Seq(Decision), NEW e \in Decision, NEW d \in Decision
  PROVE  In(d, Append(s, e)) <=> In(d, s) \/ d = e
<1>1. ASSUME In(d, Append(s, e)) PROVE In(d, s) \/ d = e
  <2>1. PICK i \in DOMAIN Append(s, e) : Append(s, e)[i] = d
    BY <1>1 DEF In
  <2>2. QED BY <2>1 DEF In
<1>2. ASSUME In(d, s) PROVE In(d, Append(s, e))
  <2>1. PICK i \in DOMAIN s : s[i] = d
    BY <1>2 DEF In
  <2>2. i \in DOMAIN Append(s, e) /\ Append(s, e)[i] = d
    BY <2>1
  <2>3. QED BY <2>2 DEF In
<1>3. ASSUME d = e PROVE In(d, Append(s, e))
  <2>1. Len(s) + 1 \in DOMAIN Append(s, e) /\ Append(s, e)[Len(s) + 1] = d
    BY <1>3
  <2>2. QED BY <2>1 DEF In
<1>4. QED BY <1>1, <1>2, <1>3

-----------------------------------------------------------------------------
(* Type correctness. *)

LEMMA FaultType ==
  ASSUME TypeOK, Fault
  PROVE  budget' \in [updates : Nat, faults : Nat]
<1>1. budget.faults - 1 \in Nat
  BY DEF TypeOK, Fault
<1>2. QED BY <1>1 DEF TypeOK, Fault

LEMMA OpenType ==
  ASSUME TypeOK, NEW t \in Tickets, Open(t)
  PROVE  TypeOK'
<1>1. PICK type \in ResponseType, c \in Cases \cup {NoCase} :
         ConsoleOpens(t, type, c) \/ AgentOpens(t, type, c)
  BY DEF Open
<1>2. [Blank EXCEPT !.type = type, !.case = c] \in Ticket
  <2>1. Blank \in Ticket
    BY DEF Blank, Ticket, Status, Decision, ResponseType
  <2>2. QED BY <2>1 DEF Ticket
<1>3. PutTicket(t, type, c) /\ linking' \subseteq opened'
  BY <1>1 DEF ConsoleOpens, AgentOpens, PutTicket, TypeOK
<1>4. tickets' \in [Tickets -> Ticket] /\ opened' \subseteq Tickets /\ opened \subseteq opened'
  BY <1>2, <1>3 DEF TypeOK, PutTicket
<1>5. UNCHANGED <<caseTicket, request, sent, overtaken, budget>>
  BY <1>1 DEF ConsoleOpens, AgentOpens
<1>6. QED BY <1>3, <1>4, <1>5 DEF TypeOK

LEMMA LinkType ==
  ASSUME TypeOK, NEW t \in Tickets, tickets[t].case \in Cases \/ LinkFails(t),
         AgentLinks(t) \/ LinkFails(t)
  PROVE  TypeOK'
<1>1. CASE AgentLinks(t) /\ tickets[t].case \in Cases
  BY <1>1 DEF TypeOK, AgentLinks
<1>2. CASE LinkFails(t)
  BY <1>2, FaultType DEF TypeOK, LinkFails
<1>3. QED BY <1>1, <1>2

LEMMA UpdateType ==
  ASSUME TypeOK, NEW t \in Tickets, NEW status \in Status, Update(t, status)
  PROVE  TypeOK'
<1>1. tickets' \in [Tickets -> Ticket]
  BY DEF TypeOK, Update, Ticket
<1>2. budget' \in [updates : Nat, faults : Nat]
  <2>1. budget.updates - 1 \in Nat
    BY DEF TypeOK, Update
  <2>2. QED BY <2>1 DEF TypeOK, Update
<1>3. overtaken' \subseteq Reviewers
  BY DEF TypeOK, Update, Overtake
<1>4. QED BY <1>1, <1>2, <1>3 DEF TypeOK, Update

(* A request that is not idle names an opened ticket and a decision. *)
LEMMA BusyRequest ==
  ASSUME TypeOK, NEW r \in Reviewers, request[r].pc # "idle"
  PROVE  /\ request[r] \in [pc : {"accepted", "recorded"}, ticket : Tickets, action : Decision]
         /\ request[r].ticket \in opened
BY DEF TypeOK, Request, Idle

LEMMA AcceptType ==
  ASSUME TypeOK, NEW r \in Reviewers, NEW t \in Tickets, NEW action \in Decision,
         Accept(r, t, action)
  PROVE  TypeOK'
<1>1. [pc |-> "accepted", ticket |-> t, action |-> action] \in Request
  BY DEF Request
<1>2. request' \in [Reviewers -> Request] /\ overtaken' \subseteq Reviewers
  BY <1>1 DEF TypeOK, Accept
<1>3. \A q \in Reviewers : request'[q].pc # "idle" => request'[q].ticket \in opened
  BY DEF TypeOK, Accept, Acceptable
<1>4. QED BY <1>2, <1>3 DEF TypeOK, Accept

LEMMA RecordType ==
  ASSUME TypeOK, NEW r \in Reviewers, Record(r)
  PROVE  TypeOK'
<1> DEFINE t == request[r].ticket
           action == request[r].action
<1>1. request[r].pc = "accepted" /\ t \in opened /\ t \in Tickets /\ action \in Decision
  BY BusyRequest DEF Record
<1>2. tickets[t] \in Ticket
  BY <1>1 DEF TypeOK
<1>3. [tickets[t] EXCEPT !.status = action, !.answers = Append(@, action)] \in Ticket
  <2>1. action \in Status /\ Append(tickets[t].answers, action) \in Seq(Decision)
    BY <1>1, <1>2 DEF Ticket, Status
  <2> HIDE DEF t, action
  <2>2. QED BY <1>2, <2>1 DEF Ticket
<1>4. tickets' = [tickets EXCEPT ![t] = [tickets[t] EXCEPT !.status = action,
                                                          !.answers = Append(@, action)]]
  BY <1>1 DEF Record, TypeOK
<1>5. tickets' \in [Tickets -> Ticket]
  BY <1>1, <1>3, <1>4 DEF TypeOK
<1>6. [request[r] EXCEPT !.pc = "recorded"] \in Request
  BY <1>1, BusyRequest DEF Request
<1>7. request' \in [Reviewers -> Request]
  BY <1>6 DEF TypeOK, Record
<1>8. \A q \in Reviewers : request'[q].pc # "idle" => request'[q].ticket \in opened
  BY <1>1 DEF TypeOK, Record
<1>9. overtaken' \subseteq Reviewers
  BY DEF TypeOK, Record, Overtake
<1>10. QED BY <1>5, <1>7, <1>8, <1>9 DEF TypeOK, Record

LEMMA ResumeType ==
  ASSUME TypeOK, NEW r \in Reviewers, Resume(r) \/ RequestFails(r)
  PROVE  TypeOK'
<1>1. request' \in [Reviewers -> Request]
  BY DEF TypeOK, Resume, RequestFails, Request
<1>2. \A q \in Reviewers : request'[q].pc # "idle" => request'[q].ticket \in opened
  BY DEF TypeOK, Resume, RequestFails, Idle
<1>3. CASE Resume(r)
  <2>1. request[r].ticket \in Tickets /\ request[r].action \in Decision
    BY <1>3, BusyRequest DEF Resume
  <2>2. sent' \in [Tickets -> Seq(Decision)]
    BY <1>3, <2>1 DEF TypeOK, Resume
  <2>3. QED BY <1>1, <1>2, <1>3, <2>2 DEF TypeOK, Resume
<1>4. CASE RequestFails(r)
  BY <1>1, <1>2, <1>4, FaultType DEF TypeOK, RequestFails
<1>5. QED BY <1>3, <1>4

-----------------------------------------------------------------------------
(* The inductive invariant. *)

(* A ticket waiting to be linked is about a case. *)
Linked == \A t \in linking : tickets[t].case \in Cases

(* Nothing is sent for a ticket that was never opened, so opening one starts afresh. *)
SentOpened == \A t \in Tickets : t \notin opened => sent[t] = <<>>

(* A request in progress still fits its ticket, and a recorded one is on record. *)
Fits(d, t) == d \in Answers(tickets[t].type) /\ tickets[t].case # NoCase
Owed ==
  \A r \in Reviewers :
    /\ request[r].pc # "idle" => Fits(request[r].action, request[r].ticket)
    /\ request[r].pc = "recorded" =>
         In(request[r].action, tickets[request[r].ticket].answers)

(* What a request read still holds unless the ticket was written since. *)
Fresh ==
  \A r \in Reviewers : request[r].pc = "accepted" /\ r \notin overtaken =>
    Answerable(tickets[request[r].ticket].status, request[r].action)

SentInv == SentOpened /\ ResumeIsRecorded /\ ResumeFitsQuestion
LinkInv == Linked /\ LinkNamesTicket
TicketsInv == TypeOK /\ SentInv /\ LinkInv /\ Owed /\ Fresh

(* No step changes the type or case of an opened ticket, or takes an answer back. *)
TicketsKept ==
  \A t \in opened :
    /\ tickets'[t].type = tickets[t].type
    /\ tickets'[t].case = tickets[t].case
    /\ \A d \in Decision : In(d, tickets[t].answers) => In(d, tickets'[t].answers)

LEMMA SentStep ==
  ASSUME TicketsInv, TicketsKept, opened \subseteq opened', UNCHANGED sent
  PROVE  SentInv'
<1>1. SentOpened'
  BY DEF TicketsInv, SentInv, SentOpened
<1>2. ASSUME NEW t \in Tickets, NEW i \in DOMAIN sent[t]
      PROVE  /\ In(sent[t][i], tickets'[t].answers)
             /\ sent[t][i] \in Answers(tickets'[t].type) /\ tickets'[t].case # NoCase
  <2>1. t \in opened /\ sent[t][i] \in Decision
    BY <1>2 DEF TicketsInv, SentInv, SentOpened, TypeOK
  <2>2. In(sent[t][i], tickets[t].answers) /\ Fits(sent[t][i], t)
    BY <2>1 DEF TicketsInv, SentInv, ResumeIsRecorded, ResumeFitsQuestion, Fits
  <2>3. QED BY <2>1, <2>2 DEF TicketsKept, Fits
<1>3. QED BY <1>1, <1>2 DEF SentInv, ResumeIsRecorded, ResumeFitsQuestion

LEMMA OwedStep ==
  ASSUME TicketsInv, TicketsKept, \A r \in Reviewers : request'[r] \in {request[r], Idle}
  PROVE  Owed'
<1> DEFINE t(r) == request[r].ticket
<1>1. ASSUME NEW r \in Reviewers, request'[r].pc # "idle"
      PROVE  /\ request'[r] = request[r]
             /\ request[r].action \in Answers(tickets'[t(r)].type)
             /\ tickets'[t(r)].case # NoCase
             /\ request[r].pc = "recorded" =>
                  In(request[r].action, tickets'[t(r)].answers)
  <2>1. request'[r] = request[r]
    BY <1>1 DEF Idle
  <2>2. request[r].ticket \in opened /\ request[r].action \in Decision
    BY <1>1, <2>1, BusyRequest DEF TicketsInv
  <2>3. QED BY <1>1, <2>1, <2>2 DEF TicketsInv, Owed, TicketsKept, Fits
<1>2. QED BY <1>1 DEF Owed, Fits

LEMMA LinkStep ==
  ASSUME TicketsInv, TicketsKept, opened \subseteq opened', linking' \subseteq linking,
         UNCHANGED caseTicket
  PROVE  LinkInv'
BY DEF TicketsInv, LinkInv, Linked, LinkNamesTicket, TicketsKept, TypeOK

(* A step that leaves the tickets alone keeps them. *)
LEMMA SameTickets ==
  ASSUME UNCHANGED tickets
  PROVE  TicketsKept
BY DEF TicketsKept

LEMMA InitInv == Init => TicketsInv
<1>1. ASSUME Init PROVE TicketsInv
  <2>1. Blank \in Ticket
    BY DEF Blank, Ticket, Status, Decision, ResponseType
  <2>2. TypeOK
    BY <1>1, <2>1, TicketsAssumption DEF Init, TypeOK, Request, Idle
  <2>3. SentInv
    BY <1>1 DEF Init, SentInv, SentOpened, ResumeIsRecorded, ResumeFitsQuestion
  <2>4. LinkInv
    BY <1>1 DEF Init, LinkInv, Linked, LinkNamesTicket
  <2>5. Owed /\ Fresh
    BY <1>1 DEF Init, Owed, Fresh, Idle
  <2>6. QED BY <2>2, <2>3, <2>4, <2>5 DEF TicketsInv
<1>2. QED BY <1>1

LEMMA OpenInv ==
  ASSUME TicketsInv, NEW t \in Tickets, Open(t)
  PROVE  TicketsInv'
<1>1. PICK type \in ResponseType, c \in Cases \cup {NoCase} :
         ConsoleOpens(t, type, c) \/ AgentOpens(t, type, c)
  BY DEF Open
<1>2. PutTicket(t, type, c) /\ UNCHANGED <<caseTicket, request, sent, overtaken>>
  BY <1>1 DEF ConsoleOpens, AgentOpens
<1>3. \A u \in opened : tickets'[u] = tickets[u]
  BY <1>2 DEF PutTicket, TicketsInv, TypeOK
<1>4. TicketsKept /\ opened \subseteq opened'
  BY <1>2, <1>3 DEF TicketsKept, PutTicket
<1>5. LinkInv'
  <2>1. \A u \in linking' : u \in linking \/ (u = t /\ c # NoCase)
    BY <1>1 DEF ConsoleOpens, AgentOpens
  <2>2. tickets'[t].case = c
    BY <1>2 DEF PutTicket, TicketsInv, TypeOK, Blank
  <2>3. QED
    BY <1>2, <1>3, <1>4, <2>1, <2>2 DEF TicketsInv, LinkInv, Linked, LinkNamesTicket, TypeOK
<1>6. Fresh'
  BY <1>2, <1>3, BusyRequest DEF TicketsInv, Fresh
<1>7. QED
  BY <1>2, <1>4, <1>5, <1>6, OpenType, SentStep, OwedStep DEF TicketsInv

LEMMA LinkingInv ==
  ASSUME TicketsInv, NEW t \in Tickets, AgentLinks(t) \/ LinkFails(t)
  PROVE  TicketsInv'
<1>1. UNCHANGED <<tickets, opened, request, sent, overtaken>> /\ t \in linking
  BY DEF AgentLinks, LinkFails
<1>2. TypeOK'
  BY <1>1, LinkType DEF TicketsInv, LinkInv, Linked
<1>3. LinkInv'
  <2>1. CASE AgentLinks(t)
    BY <1>1, <2>1, TicketsAssumption DEF AgentLinks, TicketsInv, LinkInv, Linked,
       LinkNamesTicket, TypeOK
  <2>2. CASE LinkFails(t)
    BY <1>1, <2>2, LinkStep, SameTickets DEF LinkFails
  <2>3. QED BY <2>1, <2>2
<1>4. Fresh'
  BY <1>1 DEF TicketsInv, Fresh
<1>5. QED
  BY <1>1, <1>2, <1>3, <1>4, SameTickets, SentStep, OwedStep DEF TicketsInv

LEMMA UpdateInv ==
  ASSUME TicketsInv, NEW t \in Tickets, NEW status \in Status, Update(t, status)
  PROVE  TicketsInv'
<1>1. UNCHANGED <<opened, linking, caseTicket, request, sent>>
  BY DEF Update
<1>2. TypeOK'
  BY UpdateType DEF TicketsInv
<1>3. \A u \in Tickets : /\ u # t => tickets'[u] = tickets[u]
                         /\ tickets'[u].type = tickets[u].type
                         /\ tickets'[u].case = tickets[u].case
                         /\ tickets'[u].answers = tickets[u].answers
  BY DEF Update, TicketsInv, TypeOK, Ticket
<1>4. TicketsKept
  BY <1>3 DEF TicketsKept, TicketsInv, TypeOK
<1>5. Fresh'
  <2>1. ASSUME NEW r \in Reviewers, request[r].pc = "accepted", r \notin overtaken'
        PROVE  r \notin overtaken /\ tickets'[request[r].ticket] = tickets[request[r].ticket]
    BY <1>3, <2>1, BusyRequest DEF Update, Overtake, TicketsInv
  <2>2. QED BY <1>1, <2>1 DEF TicketsInv, Fresh
<1>6. QED
  BY <1>1, <1>2, <1>4, <1>5, SentStep, OwedStep, LinkStep DEF TicketsInv

LEMMA AcceptInv ==
  ASSUME TicketsInv, NEW r \in Reviewers, NEW t \in Tickets, NEW action \in Decision,
         Accept(r, t, action)
  PROVE  TicketsInv'
<1>1. UNCHANGED <<tickets, opened, linking, caseTicket, sent>> /\ TicketsKept
  BY SameTickets DEF Accept
<1>2. TypeOK'
  BY AcceptType DEF TicketsInv
<1>3. /\ request'[r] = [pc |-> "accepted", ticket |-> t, action |-> action]
      /\ \A q \in Reviewers \ {r} : request'[q] = request[q]
  BY DEF Accept, TicketsInv, TypeOK
<1>4. Owed'
  BY <1>1, <1>3 DEF Accept, Acceptable, TicketsInv, Owed, Fits
<1>5. Fresh'
  BY <1>1, <1>3 DEF Accept, Acceptable, TicketsInv, Fresh
<1>6. QED
  BY <1>1, <1>2, <1>4, <1>5, SentStep, LinkStep DEF TicketsInv

LEMMA RecordInv ==
  ASSUME TicketsInv, NEW r \in Reviewers, Record(r)
  PROVE  TicketsInv'
<1> DEFINE t == request[r].ticket
           action == request[r].action
<1>1. request[r].pc = "accepted" /\ t \in opened /\ t \in Tickets /\ action \in Decision
  BY BusyRequest DEF Record, TicketsInv
<1>2. UNCHANGED <<opened, linking, caseTicket, sent>>
  BY DEF Record
<1>3. TypeOK'
  BY RecordType DEF TicketsInv
<1>4. \A u \in Tickets : u # t => tickets'[u] = tickets[u]
  BY DEF Record, TicketsInv, TypeOK
<1>5. /\ tickets'[t].type = tickets[t].type
      /\ tickets'[t].case = tickets[t].case
      /\ tickets'[t].answers = Append(tickets[t].answers, action)
  BY <1>1 DEF Record, TicketsInv, TypeOK, Ticket
<1>6. tickets[t].answers \in Seq(Decision)
  BY <1>1 DEF TicketsInv, TypeOK, Ticket
<1>7. \A d \in Decision : In(d, tickets[t].answers) \/ d = action => In(d, tickets'[t].answers)
  BY <1>1, <1>5, <1>6, InAppend
<1>8. TicketsKept
  BY <1>4, <1>5, <1>7 DEF TicketsKept, TicketsInv, TypeOK
<1>9. /\ request'[r].pc = "recorded" /\ request'[r].ticket = t /\ request'[r].action = action
      /\ \A q \in Reviewers \ {r} : request'[q] = request[q]
  BY <1>1, BusyRequest DEF Record, TicketsInv, TypeOK
<1>10. Owed'
  <2>1. Fits(action, t)
    BY <1>1 DEF TicketsInv, Owed
  <2>2. ASSUME NEW q \in Reviewers, q # r, request[q].pc # "idle"
        PROVE  /\ Fits(request[q].action, request[q].ticket)'
               /\ request[q].pc = "recorded" =>
                    In(request[q].action, tickets'[request[q].ticket].answers)
    <3>1. request[q].ticket \in opened /\ request[q].action \in Decision
      BY <2>2, BusyRequest DEF TicketsInv
    <3>2. request'[q] = request[q]
      BY <1>9, <2>2
    <3>3. QED BY <1>8, <2>2, <3>1, <3>2 DEF TicketsInv, Owed, Fits, TicketsKept
  <2>3. QED
    BY <1>1, <1>5, <1>7, <1>9, <2>1, <2>2 DEF Owed, Fits
<1>11. Fresh'
  <2>1. ASSUME NEW q \in Reviewers, request'[q].pc = "accepted", q \notin overtaken'
        PROVE  /\ request'[q] = request[q] /\ q \notin overtaken
               /\ tickets'[request[q].ticket] = tickets[request[q].ticket]
    <3>1. q # r /\ request'[q] = request[q]
      BY <1>9, <2>1
    <3>2. q \notin overtaken /\ request[q].ticket # t
      BY <2>1, <3>1 DEF Record, Overtake
    <3>3. request[q].ticket \in Tickets
      BY <2>1, <3>1, BusyRequest DEF TicketsInv
    <3>4. QED BY <1>4, <3>1, <3>2, <3>3
  <2>2. QED BY <2>1 DEF TicketsInv, Fresh
<1>12. QED
  BY <1>2, <1>3, <1>8, <1>10, <1>11, SentStep, LinkStep DEF TicketsInv

LEMMA ResumeInv ==
  ASSUME TicketsInv, NEW r \in Reviewers, Resume(r) \/ RequestFails(r)
  PROVE  TicketsInv'
<1>1. UNCHANGED <<tickets, opened, linking, caseTicket, overtaken>> /\ TicketsKept
  BY SameTickets DEF Resume, RequestFails
<1>2. TypeOK'
  BY ResumeType DEF TicketsInv
<1>3. \A q \in Reviewers : request'[q] \in {request[q], Idle}
  BY DEF Resume, RequestFails, TicketsInv, TypeOK
<1>4. Owed' /\ LinkInv'
  BY <1>1, <1>3, OwedStep, LinkStep
<1>5. Fresh'
  BY <1>1, <1>3 DEF TicketsInv, Fresh, Idle
<1>6. SentInv'
  <2>1. CASE RequestFails(r)
    BY <1>1, <2>1, SentStep DEF RequestFails
  <2>2. CASE Resume(r)
    <3> DEFINE t == request[r].ticket
               action == request[r].action
    <3>1. request[r].pc = "recorded" /\ t \in opened /\ t \in Tickets /\ action \in Decision
      BY <2>2, BusyRequest DEF Resume, TicketsInv
    <3>2. In(action, tickets[t].answers) /\ Fits(action, t)
      BY <3>1 DEF TicketsInv, Owed
    <3>3. sent' = [sent EXCEPT ![t] = Append(sent[t], action)] /\ sent[t] \in Seq(Decision)
      BY <2>2, <3>1 DEF Resume, TicketsInv, TypeOK
    <3>4. \A u \in Tickets : u # t => sent'[u] = sent[u]
      BY <3>3 DEF TicketsInv, TypeOK
    <3>5. \A i \in DOMAIN sent'[t] : sent'[t][i] = action \/ (i \in DOMAIN sent[t] /\ sent'[t][i] = sent[t][i])
      <4>1. sent'[t] = Append(sent[t], action)
        BY <3>1, <3>3 DEF TicketsInv, TypeOK
      <4>2. QED BY <3>1, <3>3, <4>1
    <3>6. SentOpened'
      BY <1>1, <3>1, <3>4 DEF TicketsInv, SentInv, SentOpened
    <3>7. ResumeIsRecorded'
      BY <1>1, <3>2, <3>4, <3>5 DEF TicketsInv, SentInv, ResumeIsRecorded
    <3>8. ResumeFitsQuestion'
      BY <1>1, <3>2, <3>4, <3>5 DEF TicketsInv, SentInv, ResumeFitsQuestion, Fits
    <3>9. QED BY <3>6, <3>7, <3>8 DEF SentInv
  <2>3. QED BY <2>1, <2>2
<1>7. QED BY <1>2, <1>4, <1>5, <1>6 DEF TicketsInv

LEMMA NextInv == TicketsInv /\ [Next]_vars => TicketsInv'
<1>1. ASSUME TicketsInv, Next PROVE TicketsInv'
  <2>1. CASE \E t \in Tickets : Open(t) \/ AgentLinks(t) \/ LinkFails(t)
    BY <1>1, <2>1, OpenInv, LinkingInv
  <2>2. CASE \E t \in Tickets, status \in Status : Update(t, status)
    BY <1>1, <2>2, UpdateInv
  <2>3. CASE \E r \in Reviewers : Answer(r)
    BY <1>1, <2>3, AcceptInv, RecordInv, ResumeInv DEF Answer
  <2>4. QED BY <1>1, <2>1, <2>2, <2>3 DEF Next
<1>2. ASSUME TicketsInv, UNCHANGED vars PROVE TicketsInv'
  BY <1>2 DEF vars, TicketsInv, TypeOK, SentInv, LinkInv, SentOpened, ResumeIsRecorded,
     ResumeFitsQuestion, Linked, LinkNamesTicket, Owed, Fits, Fresh
<1>3. QED BY <1>1, <1>2

-----------------------------------------------------------------------------
(* The theorems. *)

(* The inductive invariant: the types, what each request knows between its calls, the links. *)
THEOREM TicketsInvariant == Spec => []TicketsInv
BY InitInv, NextInv, PTL DEF Spec

(* Every reachable state of the tickets is well typed: in particular no request
   leaves a ticket in a status or with an answer the API does not know. *)
THEOREM TicketsTypeOK == Spec => []TypeOK
<1>1. TicketsInv => TypeOK BY DEF TicketsInv
<1>2. QED BY <1>1, TicketsInvariant, PTL

(* The agent is resumed only on decisions the ticket carries, whatever requests fail
   between recording and sending, and whatever PUT does in between. *)
THEOREM TicketsResumeRecorded == Spec => []ResumeIsRecorded
<1>1. TicketsInv => ResumeIsRecorded BY DEF TicketsInv, SentInv
<1>2. QED BY <1>1, TicketsInvariant, PTL

(* A resume answers the question its ticket asked, and the ticket has a case. *)
THEOREM TicketsResumeFits == Spec => []ResumeFitsQuestion
<1>1. TicketsInv => ResumeFitsQuestion BY DEF TicketsInv, SentInv
<1>2. QED BY <1>1, TicketsInvariant, PTL

(* ticket_id of a case is an opened ticket about that case. *)
THEOREM TicketsLinkNames == Spec => []LinkNamesTicket
<1>1. TicketsInv => LinkNamesTicket BY DEF TicketsInv, LinkInv
<1>2. QED BY <1>1, TicketsInvariant, PTL

(* The check-then-write of an answer loses a decision only to a concurrent write. *)
THEOREM TicketsDecisionStands == Spec => DecisionStandsUnlessOvertaken
<1>1. TicketsInv => Fresh BY DEF TicketsInv
<1>2. ASSUME Fresh
      PROVE  [\A r \in Reviewers :
                request[r].pc = "accepted" /\ request'[r].pc = "recorded" /\ r \notin overtaken =>
                  Answerable(tickets[request[r].ticket].status, request[r].action)]_vars
  BY <1>2 DEF Fresh
<1>3. QED BY <1>1, <1>2, TicketsInvariant, PTL DEF DecisionStandsUnlessOvertaken
=============================================================================
