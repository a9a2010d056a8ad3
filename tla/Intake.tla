------------------------------- MODULE Intake -------------------------------
(***************************************************************************)
(* How a human's answer finds its case again. The webhook processor turns    *)
(* e-mails and ticket-system events into messages of the agent queue; the     *)
(* case a message names decides its FIFO group, and the invoker derives the   *)
(* agent's session from it. Free text is abstracted to what _extract_case_id  *)
(* finds in it: a "Case ID:" with some spelling, a word that begins with      *)
(* "case", an order or invoice number. A word of an id is a stem and the      *)
(* zeros it ends in, because session ids are padded with zeros.              *)
(***************************************************************************)
EXTENDS Naturals, Sequences, FiniteSets, SequencesExt

CONSTANTS
  Spellings,   \* values a "Case ID:" or a correlation_id may have: [words, sep]
  Texts,       \* texts: [explicit, word, order]; the first two a spelling or None
  Records,     \* inbound events: [source, body, subject, field]
  None,
  WebhookSettings,   \* deployments: [secret, channel, queue], whether a webhook secret is
                     \* configured, NOTIFICATION_CHANNEL, whether AGENT_QUEUE_URL is set
  MinLength    \* RUNTIME_SESSION_MIN_LENGTH less the prefix

Separators == {"-", "#", "/"}
Canonical(id) == [words |-> id, sep |-> "-"]

(* A spelling is cut at its separators. *)
ASSUME IntakeAssumption ==
  /\ MinLength \in Nat
  /\ WebhookSettings \subseteq
       [secret : BOOLEAN, channel : {"ses", "servicenow", "jira"}, queue : BOOLEAN]
  /\ \A s \in Spellings :
       /\ s.words \in Seq([stem : STRING, chars : Nat, zeros : Nat, legal : BOOLEAN])
       /\ s.sep \in Separators /\ None # s /\ None # s.words /\ None # Canonical(s.words)
  /\ \A t \in Texts : {t.explicit, t.word} \subseteq Spellings \cup {None} /\ t.order \in BOOLEAN
  /\ \A r \in Records : r.body \in Texts /\ r.subject \in Texts
                        /\ r.field \in Spellings \cup {None}

VARIABLES
  inbound,   \* the invocation in hand: how many records it brought, those left to process
  results,   \* what the response says of each record
  sent,      \* the messages sent, in order: case, group, session, and their record
  setting    \* the deployment

ivars == <<inbound, results, sent, setting>>

IntakeInit ==
  /\ setting \in WebhookSettings
  /\ inbound = [given |-> 0, left |-> <<>>] /\ results = <<>> /\ sent = <<>>

-----------------------------------------------------------------------------
(* The codec. *)

(* Mutant of NormalizeCaseId: the separators of older notifications are not known. *)
NormalizeCanonical(s) == IF s # None /\ Len(s.words) = 2 /\ s.sep = "-" THEN s.words ELSE None

(* try_normalize_case_id: two words, neither empty nor with a character no id has,
   whichever separator stands between them. *)
NormalizeCaseId(s) ==
  IF s # None /\ Len(s.words) = 2 /\ s.sep \in Separators
     /\ \A i \in {1, 2} : s.words[i].chars + s.words[i].zeros > 0 /\ s.words[i].legal
  THEN s.words ELSE None

Chars(id) == id[1].chars + id[1].zeros + 1 + id[2].chars + id[2].zeros

(* Mutant of ToRuntimeSessionId: padded without the separator. *)
PaddedWithZeros(id) ==
  IF Chars(id) < MinLength THEN <<id[1], [id[2] EXCEPT !.zeros = @ + (MinLength - Chars(id))]>>
  ELSE id

(* The id itself, or with one more word, of zeros, that fills it up. *)
ToRuntimeSessionId(id) ==
  IF Chars(id) < MinLength
  THEN Append(id, [stem |-> "", chars |-> 0, legal |-> TRUE,
                   zeros |-> MinLength - Chars(id) - 1])
  ELSE id

-----------------------------------------------------------------------------
(* The texts. *)

Order == Canonical(<<>>)     \* "PO 4500012345": no id, but not nothing

(* The explicit id if it is one; else the word that begins with "case", else the order
   number, as found. *)
ExtractCaseId(t) ==
  CASE NormalizeCaseId(t.explicit) # None -> Canonical(NormalizeCaseId(t.explicit))
    [] NormalizeCaseId(t.explicit) = None /\ t.word # None -> t.word
    [] NormalizeCaseId(t.explicit) = None /\ t.word = None /\ t.order -> Order
    [] OTHER -> None

(* _normalize_email and _normalize_webhook: an e-mail's body before its subject, the field
   ServiceNow keeps for the id before the description, a Jira issue's key and summary. *)
CaseOf(r) ==
  CASE r.source = "ses" /\ ExtractCaseId(r.body) # None -> ExtractCaseId(r.body)
    [] r.source = "servicenow" /\ r.field # None -> r.field
    [] OTHER -> ExtractCaseId(r.subject)

(* _enqueue: what normalises is the case and its group; anything else goes to a fresh
   group with no case. The agent's session follows from the id. *)
Message(r) ==
  LET id == NormalizeCaseId(CaseOf(r)) IN
  [case_id |-> id, from |-> r,
   group   |-> [case |-> id, fresh |-> IF id # None THEN 0 ELSE Len(sent) + 1],
   session |-> IF id # None THEN ToRuntimeSessionId(id) ELSE None]

-----------------------------------------------------------------------------
(* An S3 event brings several e-mails. *)
Mails(a, b) ==
  /\ inbound.given = 0 /\ results = <<>>
  /\ a.source = "ses" /\ b.source = "ses"
  /\ inbound' = [given |-> 2, left |-> <<a, b>>]
  /\ UNCHANGED <<results, sent, setting>>

(* Only the two channels that are webhooks know a signature. *)
Guarded == setting.secret /\ setting.channel \in {"servicenow", "jira"}

(* A webhook brings one event, on whatever channel is configured; one that is not signed
   as its channel demands is answered 401, one that is neither ServiceNow's nor Jira's is
   ignored. *)
Webhook(r, signed) ==
  /\ inbound.given = 0 /\ results = <<>>
  /\ r.source # "ses"
  /\ IF (Guarded /\ ~signed) \/ r.source = "other"
     THEN results' = <<"ignored">> /\ UNCHANGED inbound
     ELSE inbound' = [given |-> 1, left |-> <<r>>] /\ UNCHANGED results
  /\ UNCHANGED <<sent, setting>>

(* One record that cannot be read, parsed or sent is reported, and the next is tried.
   Without a queue nothing is sent, and the answer is the same. *)
Failed == Tail(inbound.left)

Process ==
  /\ inbound.left # <<>>
  /\ \/ /\ sent' = IF setting.queue THEN Append(sent, Message(Head(inbound.left))) ELSE sent
        /\ results' = Append(results, "enqueued")
        /\ inbound' = [inbound EXCEPT !.left = Tail(@)]
     \/ /\ inbound' = [inbound EXCEPT !.left = Failed]
        /\ results' = Append(results, "error")
        /\ UNCHANGED sent
  /\ UNCHANGED setting

IntakeNext ==
  \/ \E a, b \in Records : Mails(a, b)
  \/ \E r \in Records, signed \in BOOLEAN : Webhook(r, signed)
  \/ Process

IntakeSpec == IntakeInit /\ [][IntakeNext]_ivars

-----------------------------------------------------------------------------
(* The footer of a notification is a promise that the answer comes back: a reply whose
   body still shows the case's id, in the spelling of any version, joins that case's
   group, and so does one that only shows it in a subject beneath an empty body; and what
   happens to one e-mail of an event leaves the others alone. *)
Means(x) == IF /\ x # None /\ Len(x.words) = 2
               /\ \A i \in {1, 2} : x.words[i].chars + x.words[i].zeros > 0 /\ x.words[i].legal
            THEN x.words ELSE None
RepliesFindTheirCase ==
  /\ \A i \in DOMAIN sent :
       LET r    == sent[i].from
           body == Means(r.body.explicit)
           subj == Means(r.subject.explicit)
       IN r.source = "ses" =>
            /\ body # None => sent[i].group.case = body
            /\ r.body.explicit = None /\ r.body.word = None /\ ~r.body.order /\ subj # None
                 => sent[i].group.case = subj
  /\ inbound.given > 0 /\ inbound.left = <<>> =>
       /\ Len(results) = inbound.given
       /\ setting.queue => Len(sent) = Cardinality({i \in DOMAIN results : results[i] = "enqueued"})

(* What two messages say of the same case meets in one FIFO group and one session, and
   what they say of different cases, or of none, does not: not even when the ids differ
   in trailing zeros, which is what sessions are padded with. *)
OneGroupPerCase ==
  \A i, j \in DOMAIN sent : i # j =>
    /\ sent[i].group = sent[j].group <=> sent[i].case_id = sent[j].case_id /\ sent[i].case_id # None
    /\ sent[i].case_id # None /\ sent[j].case_id # None =>
         (sent[i].session = sent[j].session <=> sent[i].case_id = sent[j].case_id)
=============================================================================
