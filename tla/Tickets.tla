------------------------------- MODULE Tickets -------------------------------
(***************************************************************************)
(* The escalation tickets: the agent or a person opens one for a case, people *)
(* answer it, and the answer is stored on the ticket and sent to the case's   *)
(* message group, where it resumes the agent. A request reads the ticket,     *)
(* writes it and sends, three calls that other requests may come between.     *)
(***************************************************************************)
EXTENDS Naturals, Sequences, FiniteSets

CONSTANTS
  Tickets,      \* ticket ids
  Cases,        \* case ids tickets are opened for
  NoCase,       \* the case of a ticket that is linked to none
  NoTicket,     \* the ticket of a case that has none
  Reviewers,    \* answers that may be in progress at the same time
  MaxAnswers,   \* bound: answers recorded on one ticket
  MaxUpdates,   \* bound: PUT /tickets/{id} requests
  MaxFaults     \* bound: failed calls and dying requests

ASSUME TicketsAssumption ==
  /\ NoCase \notin Cases /\ NoTicket \notin Tickets
  /\ {MaxAnswers, MaxUpdates, MaxFaults} \subseteq Nat

Decision == {"approved", "denied", "replied"}
Status == {"open", "assigned", "closed"} \cup Decision
ResponseType == {"approval", "free_text"}

(* What a ticket asks for is what it may be answered with. *)
Answers(type) == IF type = "free_text" THEN {"replied"} ELSE {"approved", "denied"}

Ticket == [status : Status, type : ResponseType, case : Cases \cup {NoCase},
           answers : Seq(Decision)]

VARIABLES
  tickets,     \* the tickets table: answers is the ticket's comments by reviewers
  opened,      \* tickets that exist
  linking,     \* tickets whose id the agent's tool has not yet written to the case
  caseTicket,  \* ticket_id of each case's row
  request,     \* the answers in progress
  sent,        \* per ticket, the decisions sent to its case's message group (the
               \* queue may still drop one whose body it saw within five minutes)
  overtaken,   \* history: requests whose ticket changed after they read it
  budget

vars == <<tickets, opened, linking, caseTicket, request, sent, overtaken, budget>>

Idle == [pc |-> "idle", ticket |-> NoTicket, action |-> "none"]
Request == {Idle} \cup
  [pc : {"accepted", "recorded"}, ticket : Tickets, action : Decision]

TypeOK ==
  /\ opened \subseteq Tickets
  /\ tickets \in [Tickets -> Ticket]
  /\ linking \subseteq opened
  /\ caseTicket \in [Cases -> Tickets \cup {NoTicket}]
  /\ request \in [Reviewers -> Request]
  /\ \A r \in Reviewers : request[r].pc # "idle" => request[r].ticket \in opened
  /\ sent \in [Tickets -> Seq(Decision)]
  /\ overtaken \subseteq Reviewers
  /\ budget \in [updates : Nat, faults : Nat]

Blank == [status |-> "open", type |-> "approval", case |-> NoCase, answers |-> <<>>]

Init ==
  /\ tickets = [t \in Tickets |-> Blank]
  /\ opened = {}
  /\ linking = {}
  /\ caseTicket = [c \in Cases |-> NoTicket]
  /\ request = [r \in Reviewers |-> Idle]
  /\ sent = [t \in Tickets |-> <<>>]
  /\ overtaken = {}
  /\ budget = [updates |-> MaxUpdates, faults |-> MaxFaults]

Fault == /\ budget.faults > 0
         /\ budget' = [budget EXCEPT !.faults = @ - 1]

-----------------------------------------------------------------------------
(* Opening a ticket. *)

PutTicket(t, type, c) ==
  /\ t \notin opened
  /\ opened' = opened \cup {t}
  /\ tickets' = [tickets EXCEPT ![t] = [Blank EXCEPT !.type = type, !.case = c]]

(* The console's POST /tickets writes the ticket and nothing else. *)
ConsoleOpens(t, type, c) ==
  /\ PutTicket(t, type, c)
  /\ UNCHANGED <<linking, caseTicket, request, sent, overtaken, budget>>

(* Mutant of AgentOpens: the case's row is written first, and the put is lost. *)
AgentLinksFirst(t, type, c) ==
  /\ t \notin opened /\ c # NoCase
  /\ caseTicket' = [caseTicket EXCEPT ![c] = t]
  /\ UNCHANGED <<tickets, opened, linking, request, sent, overtaken, budget>>

(* The agent's tool writes the ticket, then its id to the case's row. *)
AgentOpens(t, type, c) ==
  /\ PutTicket(t, type, c)
  /\ linking' = IF c = NoCase THEN linking ELSE linking \cup {t}
  /\ UNCHANGED <<caseTicket, request, sent, overtaken, budget>>

AgentLinks(t) ==
  /\ t \in linking
  /\ linking' = linking \ {t}
  /\ caseTicket' = [caseTicket EXCEPT ![tickets[t].case] = t]
  /\ UNCHANGED <<tickets, opened, request, sent, overtaken, budget>>

(* The case's row is missing or the write fails; the tool reports success. *)
LinkFails(t) ==
  /\ t \in linking
  /\ Fault
  /\ linking' = linking \ {t}
  /\ UNCHANGED <<tickets, opened, caseTicket, request, sent, overtaken>>

-----------------------------------------------------------------------------
(* Answering a ticket. *)

(* Whoever has read t and not yet written it no longer knows what it says. *)
Overtake(t) ==
  overtaken' = overtaken \cup {r \in Reviewers : request[r].pc = "accepted" /\ request[r].ticket = t}

(* PUT /tickets/{id}: any valid status over any other. *)
Update(t, status) ==
  /\ t \in opened
  /\ budget.updates > 0
  /\ budget' = [budget EXCEPT !.updates = @ - 1]
  /\ tickets' = [tickets EXCEPT ![t].status = status]
  /\ Overtake(t)
  /\ UNCHANGED <<opened, linking, caseTicket, request, sent>>

(* Statuses over which an answer may be given: nobody has decided, or the same
   decision was made before and its message may have been lost. *)
Answerable(status, action) == status \in {"open", "assigned", action}

(* Mutants of Acceptable: the response type is not looked at; only closed is final. *)
AcceptableForAnyType(t, action) ==
  /\ t \in opened
  /\ Answerable(tickets[t].status, action)
  /\ tickets[t].case # NoCase

AcceptableUnlessClosed(t, action) ==
  /\ t \in opened
  /\ tickets[t].status # "closed"
  /\ action \in Answers(tickets[t].type)
  /\ tickets[t].case # NoCase

Acceptable(t, action) ==
  /\ t \in opened
  /\ Answerable(tickets[t].status, action)
  /\ action \in Answers(tickets[t].type)
  /\ tickets[t].case # NoCase

(* Mutant of Accept: a decision that is there already is sent again at once. *)
AcceptShortcut(r, t, action) ==
  /\ request[r] = Idle
  /\ Acceptable(t, action)
  /\ request' = [request EXCEPT ![r] =
       [pc |-> IF tickets[t].status = action THEN "recorded" ELSE "accepted",
        ticket |-> t, action |-> action]]
  /\ overtaken' = overtaken \ {r}
  /\ UNCHANGED <<tickets, opened, linking, caseTicket, sent, budget>>

(* POST /tickets/{id}/action reads the ticket; what is not acceptable is refused and
   changes nothing. *)
Accept(r, t, action) ==
  /\ request[r] = Idle
  /\ Len(tickets[t].answers) < MaxAnswers
  /\ Acceptable(t, action)
  /\ request' = [request EXCEPT ![r] = [pc |-> "accepted", ticket |-> t, action |-> action]]
  /\ overtaken' = overtaken \ {r}
  /\ UNCHANGED <<tickets, opened, linking, caseTicket, sent, budget>>

(* The write asks only that the ticket exist. *)
Record(r) ==
  LET t == request[r].ticket
      action == request[r].action IN
  /\ request[r].pc = "accepted"
  /\ tickets' = [tickets EXCEPT ![t].status = action,
                                ![t].answers = Append(@, action)]
  /\ request' = [request EXCEPT ![r].pc = "recorded"]
  /\ Overtake(t)
  /\ UNCHANGED <<opened, linking, caseTicket, sent, budget>>

Resume(r) ==
  /\ request[r].pc = "recorded"
  /\ sent' = [sent EXCEPT ![request[r].ticket] = Append(@, request[r].action)]
  /\ request' = [request EXCEPT ![r] = Idle]
  /\ UNCHANGED <<tickets, opened, linking, caseTicket, overtaken, budget>>

(* A call fails or the request dies: what was done stays done. *)
RequestFails(r) ==
  /\ request[r] # Idle
  /\ Fault
  /\ request' = [request EXCEPT ![r] = Idle]
  /\ UNCHANGED <<tickets, opened, linking, caseTicket, sent, overtaken>>

-----------------------------------------------------------------------------
Open(t) ==
  \E type \in ResponseType, c \in Cases \cup {NoCase} :
     ConsoleOpens(t, type, c) \/ AgentOpens(t, type, c)

Answer(r) ==
  \/ \E t \in Tickets, action \in Decision : Accept(r, t, action)
  \/ Record(r)
  \/ Resume(r)
  \/ RequestFails(r)

Next ==
  \/ \E t \in Tickets : Open(t) \/ AgentLinks(t) \/ LinkFails(t)
  \/ \E t \in Tickets, status \in Status : Update(t, status)
  \/ \E r \in Reviewers : Answer(r)

Spec == Init /\ [][Next]_vars

-----------------------------------------------------------------------------
In(d, seq) == \E i \in DOMAIN seq : seq[i] = d

(* The agent is never resumed on a decision the ticket does not carry under its
   reviewer's name: the record comes first, whatever is retried or overwritten. *)
ResumeIsRecorded ==
  \A t \in Tickets : \A i \in DOMAIN sent[t] : In(sent[t][i], tickets[t].answers)

(* Nothing PUT and POST do to a ticket between them makes a question for approval
   resume its case with free text, or the other way round, or resume a case that the
   ticket is not linked to. *)
ResumeFitsQuestion ==
  \A t \in Tickets : \A i \in DOMAIN sent[t] :
     sent[t][i] \in Answers(tickets[t].type) /\ tickets[t].case # NoCase

(* The case's ticket_id names a ticket that exists and is about that case. *)
LinkNamesTicket ==
  \A c \in Cases : caseTicket[c] # NoTicket =>
     caseTicket[c] \in opened /\ tickets[caseTicket[c]].case = c

(* An answer replaces a different decision, or re-opens a closed ticket, only if some
   other request wrote the ticket after this one had read it. *)
DecisionStandsUnlessOvertaken ==
  [][\A r \in Reviewers :
       request[r].pc = "accepted" /\ request'[r].pc = "recorded" /\ r \notin overtaken =>
         Answerable(tickets[request[r].ticket].status, request[r].action)]_vars

-----------------------------------------------------------------------------
(* demo_tickets/index.py:302-312 and the test at test_ticket_response_wiring.py:286:
   "Ticket already has decision ...; cannot change it to ...". *)
DecisionStands ==
  [][\A r \in Reviewers :
       request[r].pc = "accepted" /\ request'[r].pc = "recorded" =>
         Answerable(tickets[request[r].ticket].status, request[r].action)]_vars
=============================================================================
