--------------------------- MODULE Casework_proofs --------------------------
(***************************************************************************)
(* What is proved of what comes to a case from outside, the messages of the   *)
(* webhook processor (Intake) and the records of a poll (SapFeed), of what a  *)
(* resolved case leaves to later ones (Precedents), and of what the console   *)
(* tells a reviewer about a SAP write (WriteReview).                          *)
(***************************************************************************)
EXTENDS Intake, SapFeed, Precedents, WriteReview, FiniteSetTheorems, SequenceTheorems, TLAPS

-----------------------------------------------------------------------------
(* Sequences. *)

LEMMA AddedAtTheEnd ==
  ASSUME NEW S, NEW s \in Seq(S), NEW x \in S, NEW t, t = Append(s, x)
  PROVE  /\ t \in Seq(S) /\ Len(t) = Len(s) + 1 /\ Len(s) \in Nat
         /\ DOMAIN s = 1..Len(s) /\ DOMAIN t = DOMAIN s \cup {Len(s) + 1}
         /\ \A i \in DOMAIN s : t[i] = s[i]
         /\ t[Len(s) + 1] = x
OBVIOUS

LEMMA ThirdWord ==
  ASSUME NEW S, NEW s \in Seq(S), NEW x \in S, Len(s) = 2
  PROVE  Len(Append(s, x)) = 3 /\ Append(s, x)[1] = s[1] /\ Append(s, x)[2] = s[2]
<1>1. PICK t : t = Append(s, x) OBVIOUS
<1>2. Len(t) = Len(s) + 1 /\ DOMAIN s = 1..Len(s) /\ \A i \in DOMAIN s : t[i] = s[i]
  BY ONLY <1>1, AddedAtTheEnd, s \in Seq(S), x \in S
<1>3. 1 \in DOMAIN s /\ 2 \in DOMAIN s BY <1>2
<1> QED BY ONLY <1>1, <1>2, <1>3, Len(s) = 2

LEMMA TakenFromTheFront ==
  ASSUME NEW S, NEW s \in Seq(S), s # <<>>
  PROVE  Head(s) \in S /\ Tail(s) \in Seq(S) /\ Len(Tail(s)) = Len(s) - 1 /\ Len(s) \in Nat \ {0}
OBVIOUS

-----------------------------------------------------------------------------
(* Ids and what is made of them. *)

IdWord == [stem : STRING, chars : Nat, zeros : Nat, legal : BOOLEAN]
CaseIds == {id \in Seq(IdWord) : Len(id) = 2}

LEMMA NormalisedIsAnId ==
  ASSUME NEW s, s \in Spellings \cup {None} \/ \E id \in Seq(IdWord) : s = Canonical(id)
  PROVE  NormalizeCaseId(s) \in CaseIds \cup {None}
<1>1. CASE s \in Spellings
  <2>1. s.words \in Seq(IdWord) BY <1>1, IntakeAssumption DEF IdWord
  <2> QED BY <2>1 DEF NormalizeCaseId, CaseIds
<1>2. CASE s = None BY <1>2 DEF NormalizeCaseId
<1>3. ASSUME NEW id \in Seq(IdWord), s = Canonical(id) PROVE NormalizeCaseId(s) \in CaseIds \cup {None}
  <2>1. s.words = id BY <1>3 DEF Canonical
  <2> QED BY <2>1 DEF NormalizeCaseId, CaseIds
<1> QED BY <1>1, <1>2, <1>3

(* What is extracted from a text is a spelling, an id in its canonical form, an order or
   nothing. *)
LEMMA ExtractedIsSpelt ==
  ASSUME NEW t \in Texts
  PROVE  ExtractCaseId(t) \in Spellings \cup {None} \/ \E id \in Seq(IdWord) : ExtractCaseId(t) = Canonical(id)
<1>1. {t.explicit, t.word} \subseteq Spellings \cup {None} BY IntakeAssumption
<1>2. NormalizeCaseId(t.explicit) \in CaseIds \cup {None} BY <1>1, NormalisedIsAnId
<1>3. <<>> \in Seq(IdWord) OBVIOUS
<1> QED BY <1>1, <1>2, <1>3 DEF ExtractCaseId, CaseIds, Order

LEMMA CaseIsAnId ==
  ASSUME NEW r \in Records
  PROVE  NormalizeCaseId(CaseOf(r)) \in CaseIds \cup {None}
<1>1. r.body \in Texts /\ r.subject \in Texts /\ r.field \in Spellings \cup {None} BY IntakeAssumption
<1>2. CaseOf(r) \in {ExtractCaseId(r.body), ExtractCaseId(r.subject), r.field} BY DEF CaseOf
<1> QED BY <1>1, <1>2, ExtractedIsSpelt, NormalisedIsAnId

(* Two ids never share a session, however many zeros they end in: an id that is long
   enough is its own session of two words, a shorter one has a third. *)
LEMMA SessionsTellIdsApart ==
  ASSUME NEW a \in CaseIds, NEW b \in CaseIds, ToRuntimeSessionId(a) = ToRuntimeSessionId(b)
  PROVE  a = b
<1> DEFINE Padded(id) == [stem |-> "", chars |-> 0, legal |-> TRUE, zeros |-> MinLength - Chars(id) - 1]
<1>1. ASSUME NEW id \in CaseIds, NEW x
      PROVE  Len(Append(id, x)) = 3 /\ Len(id) = 2 /\ Append(id, x)[1] = id[1] /\ Append(id, x)[2] = id[2]
  <2> DEFINE S == IdWord \cup {x}
  <2>1. id \in Seq(S) /\ x \in S /\ Len(id) = 2 BY DEF CaseIds
  <2> HIDE DEF S
  <2> QED BY <2>1, ThirdWord
<1>2. \A id \in CaseIds : ToRuntimeSessionId(id) = IF Chars(id) < MinLength THEN Append(id, Padded(id)) ELSE id
  BY DEF ToRuntimeSessionId
<1> HIDE DEF Padded
<1>3. a[1] = b[1] /\ a[2] = b[2]
  <2>1. CASE Chars(a) < MinLength /\ Chars(b) < MinLength
    <3>1. Append(a, Padded(a)) = Append(b, Padded(b)) BY <1>2, <2>1
    <3> QED BY <3>1, <1>1
  <2>2. CASE Chars(a) < MinLength /\ ~(Chars(b) < MinLength)
    <3>1. Append(a, Padded(a)) = b BY <1>2, <2>2
    <3> QED BY <3>1, <1>1
  <2>3. CASE ~(Chars(a) < MinLength) /\ Chars(b) < MinLength
    <3>1. a = Append(b, Padded(b)) BY <1>2, <2>3
    <3> QED BY <3>1, <1>1
  <2>4. CASE ~(Chars(a) < MinLength) /\ ~(Chars(b) < MinLength)
    BY <1>2, <2>4
  <2> QED BY <2>1, <2>2, <2>3, <2>4
<1>4. a \in Seq(IdWord) /\ b \in Seq(IdWord) /\ Len(a) = 2 /\ Len(b) = 2 BY DEF CaseIds
<1>5. \A i \in 1..2 : i = 1 \/ i = 2 OBVIOUS
<1> QED BY <1>3, <1>4, <1>5

-----------------------------------------------------------------------------
(* The messages. *)

MessageOf(r, n) ==
  LET id == NormalizeCaseId(CaseOf(r)) IN
  [case_id |-> id, from |-> r,
   group   |-> [case |-> id, fresh |-> IF id # None THEN 0 ELSE n],
   session |-> IF id # None THEN ToRuntimeSessionId(id) ELSE None]
Messages == {MessageOf(r, n) : r \in Records, n \in Nat}
Enqueued == {i \in DOMAIN results : results[i] = "enqueued"}

IntakeInv ==
  /\ inbound \in [given : Nat, left : Seq(Records)]
  /\ results \in Seq({"enqueued", "error", "ignored"}) /\ sent \in Seq(Messages)
  /\ \A i \in DOMAIN sent : sent[i].from \in Records /\ sent[i] = MessageOf(sent[i].from, i)
  /\ inbound.given = 0 => inbound.left = <<>> /\ sent = <<>>
  /\ inbound.given > 0 => inbound.given = Len(results) + Len(inbound.left)
  /\ IsFiniteSet(Enqueued) /\ (setting.queue => Len(sent) = Cardinality(Enqueued))

LEMMA IntakeInitially == IntakeInit => IntakeInv
<1> SUFFICES ASSUME IntakeInit PROVE IntakeInv OBVIOUS
<1>1. inbound = [given |-> 0, left |-> <<>>] /\ results = <<>> /\ sent = <<>> BY DEF IntakeInit
<1>2. Enqueued = {} BY <1>1 DEF Enqueued
<1>3. IsFiniteSet({}) /\ Cardinality({}) = 0 BY FS_EmptySet
<1> QED BY <1>1, <1>2, <1>3 DEF IntakeInv

(* A result that is not "enqueued" adds nothing, the other one. *)
LEMMA OneMoreResult ==
  ASSUME IntakeInv, NEW x \in {"enqueued", "error", "ignored"}, results' = Append(results, x)
  PROVE  /\ results' \in Seq({"enqueued", "error", "ignored"}) /\ Len(results') = Len(results) + 1
         /\ Len(results) \in Nat /\ IsFiniteSet(Enqueued')
         /\ Cardinality(Enqueued') = IF x = "enqueued" THEN Cardinality(Enqueued) + 1 ELSE Cardinality(Enqueued)
<1> DEFINE S == {"enqueued", "error", "ignored"}
<1>1. /\ results' \in Seq(S) /\ Len(results') = Len(results) + 1 /\ Len(results) \in Nat
      /\ DOMAIN results = 1..Len(results) /\ DOMAIN results' = DOMAIN results \cup {Len(results) + 1}
      /\ \A i \in DOMAIN results : results'[i] = results[i]
      /\ results'[Len(results) + 1] = x
  <2>1. results \in Seq(S) BY DEF IntakeInv
  <2> HIDE DEF S
  <2>2. x \in S BY DEF S
  <2> QED BY <2>1, <2>2, AddedAtTheEnd
<1>2. Len(results) + 1 \notin Enqueued BY <1>1 DEF Enqueued
<1>3. Enqueued' = IF x = "enqueued" THEN Enqueued \cup {Len(results) + 1} ELSE Enqueued
  BY <1>1 DEF Enqueued
<1>4. IsFiniteSet(Enqueued) BY DEF IntakeInv
<1>5. /\ IsFiniteSet(Enqueued \cup {Len(results) + 1})
      /\ Cardinality(Enqueued \cup {Len(results) + 1}) = Cardinality(Enqueued) + 1
  BY <1>2, <1>4, FS_AddElement
<1> QED BY <1>1, <1>3, <1>4, <1>5

LEMMA IntakeInductive == IntakeInv /\ [IntakeNext]_ivars => IntakeInv'
<1> SUFFICES ASSUME IntakeInv, [IntakeNext]_ivars PROVE IntakeInv' OBVIOUS
<1>1. /\ inbound \in [given : Nat, left : Seq(Records)] /\ sent \in Seq(Messages)
      /\ results \in Seq({"enqueued", "error", "ignored"}) /\ setting' = setting
  BY DEF IntakeInv, IntakeNext, Mails, Webhook, Process, ivars
<1>2. ASSUME NEW a \in Records, NEW b \in Records, Mails(a, b) PROVE IntakeInv'
  <2>1. /\ inbound' = [given |-> 2, left |-> <<a, b>>] /\ results' = results /\ sent' = sent
        /\ results = <<>>
    BY <1>2 DEF Mails
  <2>2. <<a, b>> \in Seq(Records) /\ Len(<<a, b>>) = 2 OBVIOUS
  <2> QED BY <1>1, <2>1, <2>2 DEF IntakeInv, Enqueued
<1>3. ASSUME NEW r \in Records, NEW signed \in BOOLEAN, Webhook(r, signed) PROVE IntakeInv'
  <2>1. sent' = sent /\ results = <<>> /\ inbound.given = 0 BY <1>3 DEF Webhook
  <2>2. CASE results' = <<"ignored">> /\ inbound' = inbound
    <3>1. results' = Append(results, "ignored") BY <2>1, <2>2
    <3>2. IsFiniteSet(Enqueued') /\ Cardinality(Enqueued') = Cardinality(Enqueued)
          /\ results' \in Seq({"enqueued", "error", "ignored"})
      BY <3>1, OneMoreResult
    <3> QED BY <1>1, <2>1, <2>2, <3>2 DEF IntakeInv
  <2>3. CASE inbound' = [given |-> 1, left |-> <<r>>] /\ results' = results
    <3>1. <<r>> \in Seq(Records) /\ Len(<<r>>) = 1 OBVIOUS
    <3> QED BY <1>1, <2>1, <2>3, <3>1 DEF IntakeInv, Enqueued
  <2> QED BY <1>3, <2>2, <2>3 DEF Webhook
<1>4. ASSUME Process PROVE IntakeInv'
  <2>1. inbound.left \in Seq(Records) /\ inbound.left # <<>> BY <1>1, <1>4 DEF Process
  <2>2. /\ Head(inbound.left) \in Records /\ Tail(inbound.left) \in Seq(Records)
        /\ Len(Tail(inbound.left)) = Len(inbound.left) - 1 /\ Len(inbound.left) \in Nat \ {0}
    BY <2>1, TakenFromTheFront
  <2>3. inbound.given > 0 /\ inbound.given = Len(results) + Len(inbound.left)
    BY <1>1, <2>1 DEF IntakeInv
  <2>4. inbound' = [inbound EXCEPT !.left = Tail(inbound.left)]
    BY <1>4 DEF Process, Failed
  <2>5. inbound' \in [given : Nat, left : Seq(Records)] /\ inbound'.given = inbound.given
        /\ inbound'.left = Tail(inbound.left)
    BY <1>1, <2>2, <2>4
  <2>6. CASE /\ setting.queue /\ sent' = Append(sent, Message(Head(inbound.left)))
             /\ results' = Append(results, "enqueued")
    <3>1. PICK r \in Records : r = Head(inbound.left) BY <2>2
    <3>2. Len(sent) \in Nat /\ DOMAIN sent = 1..Len(sent) BY <1>1
    <3>3. PICK m : m = MessageOf(r, Len(sent) + 1) OBVIOUS
    <3>4. m \in Messages /\ sent' = Append(sent, m) /\ m.from = r
      BY <2>6, <3>1, <3>2, <3>3 DEF Message, MessageOf, Messages
    <3>5. /\ sent' \in Seq(Messages) /\ Len(sent') = Len(sent) + 1
          /\ DOMAIN sent' = DOMAIN sent \cup {Len(sent) + 1}
          /\ \A i \in DOMAIN sent : sent'[i] = sent[i]
          /\ sent'[Len(sent) + 1] = m
      BY <1>1, <3>4, AddedAtTheEnd
    <3>6. \A i \in DOMAIN sent' : sent'[i].from \in Records /\ sent'[i] = MessageOf(sent'[i].from, i)
      BY <3>3, <3>4, <3>5 DEF IntakeInv
    <3>7. /\ results' \in Seq({"enqueued", "error", "ignored"}) /\ Len(results') = Len(results) + 1
          /\ Len(results) \in Nat /\ IsFiniteSet(Enqueued') /\ Cardinality(Enqueued') = Cardinality(Enqueued) + 1
      BY <2>6, OneMoreResult
    <3>8. Len(sent') = Cardinality(Enqueued') BY <2>6, <3>5, <3>7 DEF IntakeInv
    <3> QED BY <1>1, <2>2, <2>3, <2>5, <3>5, <3>6, <3>7, <3>8 DEF IntakeInv
  <2>7. CASE results' = Append(results, "error") /\ sent' = sent
    <3>1. /\ results' \in Seq({"enqueued", "error", "ignored"}) /\ Len(results') = Len(results) + 1
          /\ Len(results) \in Nat /\ IsFiniteSet(Enqueued') /\ Cardinality(Enqueued') = Cardinality(Enqueued)
      BY <2>7, OneMoreResult
    <3> QED BY <1>1, <2>2, <2>3, <2>5, <2>7, <3>1 DEF IntakeInv
  <2>8. CASE ~setting.queue /\ sent' = sent /\ results' = Append(results, "enqueued")
    <3>1. /\ results' \in Seq({"enqueued", "error", "ignored"}) /\ Len(results') = Len(results) + 1
          /\ Len(results) \in Nat /\ IsFiniteSet(Enqueued')
      BY <2>8, OneMoreResult
    <3> QED BY <1>1, <2>2, <2>3, <2>5, <2>8, <3>1 DEF IntakeInv
  <2> QED BY <1>4, <2>6, <2>7, <2>8 DEF Process
<1>5. CASE UNCHANGED ivars BY <1>5 DEF ivars, IntakeInv, Enqueued
<1> QED BY <1>2, <1>3, <1>4, <1>5 DEF IntakeNext

(* Every message is what its record makes it, in a group that no other record without a
   case shares, and every record is answered once (webhook_processor/index.py). *)
THEOREM IntakeInvariant == IntakeSpec => []IntakeInv
BY IntakeInitially, IntakeInductive, PTL DEF IntakeSpec

(* Messages of one case meet in one group and one session, others never do. *)
THEOREM IntakeOneGroupPerCase == IntakeSpec => []OneGroupPerCase
<1>1. IntakeInv => OneGroupPerCase
  <2> SUFFICES ASSUME IntakeInv, NEW i \in DOMAIN sent, NEW j \in DOMAIN sent, i # j
               PROVE  /\ sent[i].group = sent[j].group
                           <=> sent[i].case_id = sent[j].case_id /\ sent[i].case_id # None
                      /\ sent[i].case_id # None /\ sent[j].case_id # None =>
                           (sent[i].session = sent[j].session <=> sent[i].case_id = sent[j].case_id)
    BY DEF OneGroupPerCase
  <2>1. PICK a \in Records : sent[i] = MessageOf(a, i) BY DEF IntakeInv
  <2>2. PICK b \in Records : sent[j] = MessageOf(b, j) BY DEF IntakeInv
  <2>3. PICK x : x = NormalizeCaseId(CaseOf(a)) OBVIOUS
  <2>4. PICK y : y = NormalizeCaseId(CaseOf(b)) OBVIOUS
  <2>5. x \in CaseIds \cup {None} /\ y \in CaseIds \cup {None} BY <2>3, <2>4, CaseIsAnId
  <2>6. i \in Nat \ {0} /\ j \in Nat \ {0} BY DEF IntakeInv
  <2>7. /\ sent[i].case_id = x /\ sent[i].group = [case |-> x, fresh |-> IF x # None THEN 0 ELSE i]
        /\ sent[i].session = IF x # None THEN ToRuntimeSessionId(x) ELSE None
    BY <2>1, <2>3 DEF MessageOf
  <2>8. /\ sent[j].case_id = y /\ sent[j].group = [case |-> y, fresh |-> IF y # None THEN 0 ELSE j]
        /\ sent[j].session = IF y # None THEN ToRuntimeSessionId(y) ELSE None
    BY <2>2, <2>4 DEF MessageOf
  <2>9. sent[i].group = sent[j].group <=> x = y /\ x # None
    <3>1. sent[i].group.case = x /\ sent[j].group.case = y BY <2>7, <2>8
    <3>2. /\ sent[i].group.fresh = IF x # None THEN 0 ELSE i
          /\ sent[j].group.fresh = IF y # None THEN 0 ELSE j
      BY <2>7, <2>8
    <3> QED BY <3>1, <3>2, <2>6, <2>7, <2>8
  <2>10. ASSUME x # None, y # None PROVE sent[i].session = sent[j].session <=> x = y
    BY <2>5, <2>7, <2>8, <2>10, SessionsTellIdsApart
  <2> QED BY <2>7, <2>8, <2>9, <2>10
<1> QED BY <1>1, IntakeInvariant, PTL

(* A reply that still shows its case's id joins the case's group, and every record of an
   event is answered and counted. *)
THEOREM IntakeRepliesFindTheirCase == IntakeSpec => []RepliesFindTheirCase
<1>1. ASSUME NEW x \in Spellings \cup {None}, Means(x) # None
      PROVE  /\ NormalizeCaseId(x) = Means(x) /\ Canonical(Means(x)) # None
             /\ NormalizeCaseId(Canonical(Means(x))) = Means(x)
  <2>1. x # None /\ x \in Spellings /\ Means(x) = x.words BY <1>1 DEF Means
  <2>2. NormalizeCaseId(x) = x.words BY <1>1, <2>1, IntakeAssumption DEF Means, NormalizeCaseId
  <2>3. Canonical(x.words) # None BY <2>1, IntakeAssumption
  <2>4. Canonical(x.words).words = x.words /\ Canonical(x.words).sep \in Separators
    BY DEF Canonical, Separators
  <2>5. NormalizeCaseId(Canonical(x.words)) = x.words
    BY <1>1, <2>1, <2>3, <2>4 DEF Means, NormalizeCaseId
  <2> QED BY <2>1, <2>2, <2>3, <2>5
<1>2. ASSUME NEW t \in Texts, Means(t.explicit) # None
      PROVE  ExtractCaseId(t) = Canonical(Means(t.explicit)) /\ ExtractCaseId(t) # None
             /\ NormalizeCaseId(ExtractCaseId(t)) = Means(t.explicit)
  <2>1. t.explicit \in Spellings \cup {None} BY IntakeAssumption
  <2>2. ExtractCaseId(t) = Canonical(Means(t.explicit)) BY <1>1, <1>2, <2>1 DEF ExtractCaseId
  <2> QED BY <1>1, <1>2, <2>1, <2>2
<1>3. ASSUME NEW r \in Records, r.source = "ses", Means(r.body.explicit) # None
      PROVE  NormalizeCaseId(CaseOf(r)) = Means(r.body.explicit)
  <2>1. r.body \in Texts BY IntakeAssumption
  <2> QED BY <1>2, <1>3, <2>1 DEF CaseOf
<1>4. ASSUME NEW r \in Records, r.source = "ses", r.body.explicit = None, r.body.word = None, ~r.body.order,
             Means(r.subject.explicit) # None
      PROVE  NormalizeCaseId(CaseOf(r)) = Means(r.subject.explicit)
  <2>1. r.body \in Texts /\ r.subject \in Texts BY IntakeAssumption
  <2>2. NormalizeCaseId(None) = None BY DEF NormalizeCaseId
  <2>3. ExtractCaseId(r.body) = None BY <1>4, <2>2 DEF ExtractCaseId
  <2>4. CaseOf(r) = ExtractCaseId(r.subject) BY <1>4, <2>3 DEF CaseOf
  <2> QED BY <1>2, <1>4, <2>1, <2>4
<1>5. IntakeInv => RepliesFindTheirCase
  <2> SUFFICES ASSUME IntakeInv PROVE RepliesFindTheirCase OBVIOUS
  <2>1. ASSUME NEW i \in DOMAIN sent
        PROVE  sent[i].from \in Records /\ sent[i].group.case = NormalizeCaseId(CaseOf(sent[i].from))
    <3>1. PICK r \in Records : sent[i] = MessageOf(r, i) BY DEF IntakeInv
    <3> QED BY <3>1 DEF MessageOf
  <2>2. inbound.given > 0 /\ inbound.left = <<>> =>
          /\ Len(results) = inbound.given
          /\ setting.queue => Len(sent) = Cardinality({i \in DOMAIN results : results[i] = "enqueued"})
    BY DEF IntakeInv, Enqueued
  <2> QED BY <1>3, <1>4, <2>1, <2>2 DEF RepliesFindTheirCase
<1> QED BY <1>5, IntakeInvariant, PTL

-----------------------------------------------------------------------------
(* SapFeed. A line has its case, or is none's. *)

KeyedBy(e, n) == <<ResolveKey(Config.document, ParentOf(e), Whole(e, n), n),
                   ResolveKey(Config.item, ParentOf(e), Whole(e, n), n)>>
Usable(e, n) ==
  /\ \A c \in Config.skip_when : ~Applies(c, ParentOf(e), LineOf(e, n))
  /\ Legal(KeyedBy(e, n)[1]) /\ Legal(KeyedBy(e, n)[2])
HasCase(e, n) == Usable(e, n) => \/ \E i \in DOMAIN created : created[i].id = KeyedBy(e, n)
                                 \/ KeyedBy(e, n) \in polls.failed
PollType == [left : Nat, stage : {"idle", "running", "ended", "raised"}, failed : {polls.failed}]

(* What the loop has been through: whole entities, and lines of the one it is at. *)
Passed(e, n) == e < at[1] \/ (e = at[1] /\ n < at[2])

FeedInv ==
  /\ polls \in PollType
  /\ feed \in Feeds \cup {<<>>}
  /\ at \in (1..(Len(feed) + 1)) \X (Nat \ {0})
  /\ \E Rows : created \in Seq(Rows)
  /\ \A i, j \in DOMAIN created : created[i].id = created[j].id => i = j
  /\ \A e \in DOMAIN feed : \A n \in DOMAIN Lines(feed[e]) : Passed(e, n) => HasCase(e, n)
  /\ polls.stage = "ended" => at[1] = Len(feed) + 1

LEMMA FeedsAreLists ==
  ASSUME NEW f \in Feeds \cup {<<>>}
  PROVE  /\ Len(f) \in Nat /\ DOMAIN f = 1..Len(f)
         /\ \A e \in DOMAIN f : Len(Lines(f[e])) \in Nat /\ DOMAIN Lines(f[e]) = 1..Len(Lines(f[e]))
<1>1. CASE f = <<>> BY <1>1
<1>2. CASE f \in Feeds
  <2>1. IsList(f) /\ \A e \in DOMAIN f : IsList(f[e].lines) BY <1>2, FeedAssumption
  <2>2. ASSUME NEW e \in DOMAIN f PROVE Lines(f[e]) \in {<<f[e].fields>>, <<NoFields>>, f[e].lines}
    BY DEF Lines
  <2>3. \A x : Len(<<x>>) = 1 /\ DOMAIN <<x>> = 1..1 OBVIOUS
  <2> QED BY <2>1, <2>2, <2>3 DEF IsList
<1> QED BY <1>1, <1>2

(* The loop moves on from a line that has its case, or from an entity without lines. *)
LEMMA OnwardPasses ==
  ASSUME FeedInv, Ready, Onward,
         \E Rows : created' \in Seq(Rows),
         \A i, j \in DOMAIN created' : created'[i].id = created'[j].id => i = j,
         \A i \in DOMAIN created : i \in DOMAIN created' /\ created'[i] = created[i],
         polls' \in PollType', polls'.stage = polls.stage, polls.failed \subseteq polls'.failed,
         at[2] \in DOMAIN Lines(feed[at[1]]) /\ Usable(at[1], at[2])
           => \/ \E i \in DOMAIN created' : created'[i].id = KeyedBy(at[1], at[2])
              \/ KeyedBy(at[1], at[2]) \in polls'.failed
  PROVE  FeedInv'
<1>1. /\ feed' = feed /\ polls'.stage = "running" /\ polls.stage = "running" /\ at[1] \in DOMAIN feed
      /\ at[1] \in Nat /\ at[2] \in Nat \ {0}
      /\ at' = IF at[2] < Len(Lines(feed[at[1]])) THEN <<at[1], at[2] + 1>> ELSE <<at[1] + 1, 1>>
      /\ feed \in Feeds \cup {<<>>}
  <2>1. feed \in Feeds \cup {<<>>} BY DEF FeedInv
  <2>2. Len(feed) \in Nat /\ DOMAIN feed = 1..Len(feed) BY <2>1, FeedsAreLists
  <2> QED BY <2>1, <2>2 DEF FeedInv, Ready, Onward
<1>2. /\ Len(feed) \in Nat /\ DOMAIN feed = 1..Len(feed)
      /\ \A e \in DOMAIN feed : Len(Lines(feed[e])) \in Nat /\ DOMAIN Lines(feed[e]) = 1..Len(Lines(feed[e]))
  BY <1>1, FeedsAreLists
<1>3. at' \in (1..(Len(feed) + 1)) \X (Nat \ {0}) BY <1>1, <1>2
<1>4. ASSUME NEW e \in DOMAIN feed, NEW n \in DOMAIN Lines(feed[e]),
             e < at'[1] \/ (e = at'[1] /\ n < at'[2])
      PROVE  (e < at[1] \/ (e = at[1] /\ n < at[2])) \/ (e = at[1] /\ n = at[2])
  BY <1>1, <1>2, <1>4
<1>5. ASSUME NEW e \in DOMAIN feed, NEW n \in DOMAIN Lines(feed[e]),
             e < at'[1] \/ (e = at'[1] /\ n < at'[2]), Usable(e, n)
      PROVE  \/ \E i \in DOMAIN created' : created'[i].id = KeyedBy(e, n)
             \/ KeyedBy(e, n) \in polls'.failed
  <2>1. CASE e < at[1] \/ (e = at[1] /\ n < at[2])
    <3>1. \/ \E i \in DOMAIN created : created[i].id = KeyedBy(e, n)
          \/ KeyedBy(e, n) \in polls.failed
      BY <1>5, <2>1 DEF FeedInv, Passed, HasCase
    <3> QED BY <3>1
  <2>2. CASE e = at[1] /\ n = at[2] BY <1>5, <2>2
  <2> QED BY <1>4, <1>5, <2>1, <2>2
<1>6. \A e, n : Usable(e, n)' <=> Usable(e, n)
  BY <1>1 DEF Usable, KeyedBy, ParentOf, Whole, LineOf
<1>7. \A e, n : KeyedBy(e, n)' = KeyedBy(e, n) BY <1>1 DEF KeyedBy, ParentOf, Whole, LineOf
<1>8. \A e \in DOMAIN feed' : \A n \in DOMAIN Lines(feed'[e]) : Passed(e, n)' => HasCase(e, n)'
  BY <1>1, <1>5, <1>6, <1>7 DEF Passed, HasCase
<1> QED BY <1>1, <1>3, <1>8 DEF FeedInv

LEMMA FeedInitially == FeedInit => FeedInv
<1> SUFFICES ASSUME FeedInit PROVE FeedInv OBVIOUS
<1>1. feed = <<>> /\ at = <<1, 1>> /\ created = <<>>
      /\ polls = [left |-> MaxPolls, stage |-> "idle", failed |-> {}]
  BY DEF FeedInit
<1>2. created \in Seq({}) BY <1>1
<1> QED BY <1>1, <1>2, FeedAssumption DEF FeedInv, PollType

LEMMA FeedInductive == FeedInv /\ [FeedNext]_fvars => FeedInv'
<1> SUFFICES ASSUME FeedInv, [FeedNext]_fvars PROVE FeedInv' OBVIOUS
<1>1. ASSUME NEW answer \in Feeds, StartPoll(answer) PROVE FeedInv'
  <2>1. /\ polls' = [left |-> polls.left - 1, stage |-> "running", failed |-> {}]
        /\ feed' = answer /\ at' = <<1, 1>>
        /\ created' = created /\ polls.left > 0
    BY <1>1 DEF StartPoll
  <2>2. /\ Len(answer) \in Nat /\ DOMAIN answer = 1..Len(answer)
        /\ \A e \in DOMAIN answer : DOMAIN Lines(answer[e]) = 1..Len(Lines(answer[e])) /\ Len(Lines(answer[e])) \in Nat
    BY FeedsAreLists
  <2>3. polls' \in PollType' /\ polls'.stage = "running"
    BY <2>1 DEF FeedInv, PollType
  <2>4. at' \in (1..(Len(feed') + 1)) \X (Nat \ {0}) BY <2>1, <2>2
  <2>5. \A e \in DOMAIN feed' : \A n \in DOMAIN Lines(feed'[e]) : ~Passed(e, n)'
    BY <2>1, <2>2 DEF Passed
  <2> QED BY <2>1, <2>3, <2>4, <2>5 DEF FeedInv
<1>2. CASE PassOver
  <2>1. /\ Ready /\ Onward /\ created' = created /\ polls' = polls
        /\ Lines(feed[at[1]]) = <<>> \/ Skipped \/ Known
    BY <1>2 DEF PassOver
  <2>2. ASSUME at[2] \in DOMAIN Lines(feed[at[1]]), Usable(at[1], at[2])
        PROVE  \/ \E i \in DOMAIN created' : created'[i].id = KeyedBy(at[1], at[2])
               \/ KeyedBy(at[1], at[2]) \in polls'.failed
    <3>1. Lines(feed[at[1]]) # <<>> BY <2>2
    <3>2. ~Skipped BY <2>2 DEF Usable, Skipped, KeyedBy, Doc, Item, Entity, Line
    <3> QED BY <2>1, <3>1, <3>2 DEF Known, Id, KeyedBy, Doc, Item, Entity, Line
  <2>3. /\ \E Rows : created' \in Seq(Rows)
        /\ \A i, j \in DOMAIN created' : created'[i].id = created'[j].id => i = j
        /\ \A i \in DOMAIN created : i \in DOMAIN created' /\ created'[i] = created[i]
        /\ polls' \in PollType'
    BY <2>1 DEF FeedInv, PollType
  <2> QED BY <2>1, <2>2, <2>3, OnwardPasses
<1>3. ASSUME Create, NEW row,
             row = [id |-> Id, type |-> ProcessType(Entity, Line), mapped |-> Mapped(Entity, Line)],
             created' = Append(created, row), UNCHANGED polls
      PROVE  FeedInv'
  <2>1. Ready /\ Onward /\ ~Known BY <1>3 DEF Create, Unmade
  <2>2. PICK Rows : created \in Seq(Rows) BY DEF FeedInv
  <2>3. created \in Seq(Rows \cup {row}) /\ row \in Rows \cup {row} BY <2>2
  <2>4. /\ created' \in Seq(Rows \cup {row}) /\ Len(created) \in Nat /\ DOMAIN created = 1..Len(created)
        /\ DOMAIN created' = DOMAIN created \cup {Len(created) + 1}
        /\ \A i \in DOMAIN created : created'[i] = created[i]
        /\ created'[Len(created) + 1] = row
    <3> DEFINE S == Rows \cup {row}
    <3>1. created \in Seq(S) /\ row \in S BY <2>3
    <3> HIDE DEF S
    <3>2. /\ created' \in Seq(S) /\ Len(created) \in Nat /\ DOMAIN created = 1..Len(created)
          /\ DOMAIN created' = DOMAIN created \cup {Len(created) + 1}
          /\ \A i \in DOMAIN created : created'[i] = created[i]
          /\ created'[Len(created) + 1] = row
      BY <1>3, <3>1, AddedAtTheEnd
    <3> QED BY <3>2 DEF S
  <2>5. row.id = Id /\ Id = KeyedBy(at[1], at[2]) BY <1>3 DEF Id, KeyedBy, Doc, Item, Entity, Line
  <2>6. \A i \in DOMAIN created : created[i].id # row.id BY <2>1, <2>5 DEF Known
  <2>7. \A i, j \in DOMAIN created' : created'[i].id = created'[j].id => i = j
    BY <2>4, <2>6 DEF FeedInv
  <2>8. Len(created) + 1 \in DOMAIN created' /\ created'[Len(created) + 1].id = KeyedBy(at[1], at[2])
    BY <2>4, <2>5
  <2>9. \E S : created' \in Seq(S) BY <2>4
  <2>10. \A i \in DOMAIN created : i \in DOMAIN created' /\ created'[i] = created[i] BY <2>4
  <2>11. polls' \in PollType' /\ polls'.stage = polls.stage /\ polls.failed \subseteq polls'.failed
    BY <1>3 DEF FeedInv, PollType
  <2> QED BY <2>1, <2>7, <2>8, <2>9, <2>10, <2>11, OnwardPasses
<1>4. ASSUME Create, polls' = [polls EXCEPT !.failed = @ \cup {Id}], UNCHANGED created
      PROVE  FeedInv'
  <2>1. Ready /\ Onward BY <1>4 DEF Create, Unmade
  <2>2. Id = KeyedBy(at[1], at[2]) BY DEF Id, KeyedBy, Doc, Item, Entity, Line
  <2>3. /\ polls' \in PollType' /\ polls'.stage = polls.stage
        /\ polls'.failed = polls.failed \cup {Id}
    BY <1>4 DEF FeedInv, PollType
  <2>4. /\ \E Rows : created' \in Seq(Rows)
        /\ \A i, j \in DOMAIN created' : created'[i].id = created'[j].id => i = j
        /\ \A i \in DOMAIN created : i \in DOMAIN created' /\ created'[i] = created[i]
    BY <1>4 DEF FeedInv
  <2> QED BY <2>1, <2>2, <2>3, <2>4, OnwardPasses
<1>5. Create => \E row : /\ row = [id |-> Id, type |-> ProcessType(Entity, Line), mapped |-> Mapped(Entity, Line)]
                         /\ \/ created' = Append(created, row) /\ UNCHANGED polls
                            \/ polls' = [polls EXCEPT !.failed = @ \cup {Id}] /\ UNCHANGED created
  BY DEF Create
<1>6. ASSUME Raise \/ EndPoll PROVE FeedInv'
  <2>1. /\ feed' = feed /\ at' = at /\ created' = created
        /\ polls' = [polls EXCEPT !.stage = "raised"] \/ (polls' = [polls EXCEPT !.stage = "ended"] /\ at[1] > Len(feed))
    BY <1>6 DEF Raise, EndPoll
  <2>2. /\ polls' \in PollType' /\ polls'.failed = polls.failed
        /\ polls'.stage = "ended" => at[1] > Len(feed)
    BY <2>1, <1>6 DEF FeedInv, PollType, Raise, EndPoll, Unmade, Ready
  <2>3. feed \in Feeds \cup {<<>>} /\ at[1] \in 1..(Len(feed) + 1) BY DEF FeedInv
  <2>4. Len(feed) \in Nat BY <2>3, FeedsAreLists
  <2>5. polls'.stage = "ended" => at'[1] = Len(feed') + 1 BY <2>1, <2>2, <2>3, <2>4
  <2>6. \A e, n : (Usable(e, n)' <=> Usable(e, n)) /\ KeyedBy(e, n)' = KeyedBy(e, n)
    BY <2>1 DEF Usable, KeyedBy, ParentOf, Whole, LineOf
  <2>7. \A e, n : (Passed(e, n)' <=> Passed(e, n)) /\ (HasCase(e, n)' <=> HasCase(e, n))
    BY <2>1, <2>2, <2>6 DEF Passed, HasCase
  <2> QED BY <2>1, <2>2, <2>5, <2>7 DEF FeedInv
<1>7. CASE UNCHANGED fvars
  <2>1. feed' = feed /\ at' = at /\ created' = created /\ polls' = polls BY <1>7 DEF fvars
  <2>6. \A e, n : (Usable(e, n)' <=> Usable(e, n)) /\ KeyedBy(e, n)' = KeyedBy(e, n)
    BY <2>1 DEF Usable, KeyedBy, ParentOf, Whole, LineOf
  <2>7. \A e, n : (Passed(e, n)' <=> Passed(e, n)) /\ (HasCase(e, n)' <=> HasCase(e, n))
    BY <2>1, <2>6 DEF Passed, HasCase
  <2> QED BY <2>1, <2>7 DEF FeedInv, PollType
<1>8. CASE Create
  <2>1. PICK row : /\ row = [id |-> Id, type |-> ProcessType(Entity, Line), mapped |-> Mapped(Entity, Line)]
                   /\ \/ created' = Append(created, row) /\ UNCHANGED polls
                      \/ polls' = [polls EXCEPT !.failed = @ \cup {Id}] /\ UNCHANGED created
    BY <1>5, <1>8
  <2> QED BY <1>3, <1>4, <1>8, <2>1
<1> QED BY <1>1, <1>2, <1>6, <1>7, <1>8 DEF FeedNext

(* No usable line that a poll has passed is without its case, unless the poll could not
   write it, and no invoice has two (odata_poller/polling_engine.py). *)
THEOREM FeedInvariant == FeedSpec => []FeedInv
BY FeedInitially, FeedInductive, PTL DEF FeedSpec

(* A poll misses nothing it passed and could write, whatever the polls before it could
   not. *)
THEOREM FeedPollMissesNothing == FeedSpec => []PollMissesNothing
<1>1. FeedInv => PollMissesNothing
  <2> SUFFICES ASSUME FeedInv PROVE PollMissesNothing OBVIOUS
  <2>1. IsInjective([i \in DOMAIN created |-> created[i].id]) BY DEF FeedInv, IsInjective
  <2>2. feed \in Feeds \cup {<<>>} BY DEF FeedInv
  <2>3. Len(feed) \in Nat /\ DOMAIN feed = 1..Len(feed) BY <2>2, FeedsAreLists
  <2>4. ASSUME NEW e \in 1..Len(feed), e < at[1], NEW n \in DOMAIN Lines(feed[e]) PROVE HasCase(e, n)
    BY <2>3, <2>4 DEF FeedInv, Passed
  <2>5. polls.stage = "ended" => at[1] = Len(feed) + 1 BY DEF FeedInv
  <2> QED BY <2>1, <2>4, <2>5 DEF PollMissesNothing, HasCase, Usable, KeyedBy
<1> QED BY <1>1, FeedInvariant, PTL

-----------------------------------------------------------------------------
(* Precedents. *)

(* What a build has still to write of a case that was rejected when it began says so, and
   so does what it has written. *)
BuildSaysRejected ==
  /\ \A one \in build.todo : one.case \in heard.rejected => one.rating = "negative"
  /\ \A c \in heard.rejected \cap heard.written : c \in DOMAIN rows /\ rows[c] = "negative"

PrecedentsInv ==
  /\ build = [stage |-> build.stage, todo |-> build.todo, done |-> build.done]
  /\ heard = [rejected |-> heard.rejected, written |-> heard.written, whole |-> heard.whole]
  /\ BuildSaysRejected

LEMMA RestIsLess ==
  ASSUME NEW one, NEW d, build = [stage |-> build.stage, todo |-> build.todo, done |-> build.done],
         build' = Rest(one) \/ build' = [Rest(one) EXCEPT !.done = d]
  PROVE  /\ build' = [stage |-> build'.stage, todo |-> build'.todo, done |-> build'.done]
         /\ build'.todo = build.todo \ {one}
<1>1. PICK stage, todo, done : build = [stage |-> stage, todo |-> todo, done |-> done] OBVIOUS
<1> QED BY <1>1 DEF Rest

LEMMA PrecedentsInductive == PrecedentsInv /\ [PrecedentsNext]_pvars => PrecedentsInv'
<1> SUFFICES ASSUME PrecedentsInv, [PrecedentsNext]_pvars PROVE PrecedentsInv' OBVIOUS
<1>1. CASE UNCHANGED <<build, rows, heard>> BY <1>1 DEF PrecedentsInv, BuildSaysRejected
<1>2. ASSUME NEW c \in Cases, ResolveCase(c) \/ Reopen(c) \/ GrowOld(c) PROVE PrecedentsInv'
  BY <1>1, <1>2 DEF ResolveCase, Reopen, GrowOld
<1>3. ASSUME NEW c \in Cases, NEW r, SaveRating(c, r) PROVE PrecedentsInv'
  BY <1>1, <1>3 DEF SaveRating
<1>4. CASE BuildStarts
  <2>1. /\ build'.todo = Picked /\ heard'.rejected = {c \in Cases : cases[c].rating = "negative"}
        /\ heard'.written = {}
        /\ build' = [stage |-> build'.stage, todo |-> build'.todo, done |-> build'.done]
        /\ heard' = [rejected |-> heard'.rejected, written |-> heard'.written, whole |-> heard'.whole]
    BY <1>4 DEF BuildStarts
  <2>2. ASSUME NEW one \in Picked PROVE one.rating = cases[one.case].rating BY DEF Picked
  <2> QED BY <2>1, <2>2 DEF PrecedentsInv, BuildSaysRejected
<1>5. ASSUME NEW one \in build.todo, WriteRow(one) PROVE PrecedentsInv'
  <2>1. build' = Rest(one) BY <1>5 DEF WriteRow
  <2>2. /\ build' = [stage |-> build'.stage, todo |-> build'.todo, done |-> build'.done]
        /\ build'.todo = build.todo \ {one}
    BY <2>1, RestIsLess DEF PrecedentsInv
  <2>3. CASE rows' = Upsert(one.case, one.rating) /\ heard' = [heard EXCEPT !.written = @ \cup {one.case}]
    <3>1. /\ heard'.rejected = heard.rejected /\ heard'.written = heard.written \cup {one.case}
          /\ heard' = [rejected |-> heard'.rejected, written |-> heard'.written, whole |-> heard'.whole]
      <4>1. PICK a, b, w : heard = [rejected |-> a, written |-> b, whole |-> w] BY DEF PrecedentsInv
      <4> QED BY <2>3, <4>1
    <3>2. /\ DOMAIN rows' = DOMAIN rows \cup {one.case}
          /\ \A x \in DOMAIN rows' : rows'[x] = IF x = one.case THEN one.rating ELSE rows[x]
      BY <2>3 DEF Upsert
    <3>3. ASSUME NEW c \in heard'.rejected \cap heard'.written
          PROVE  c \in DOMAIN rows' /\ rows'[c] = "negative"
      BY <3>1, <3>2, <1>5 DEF PrecedentsInv, BuildSaysRejected
    <3>4. \A x \in build'.todo : x.case \in heard'.rejected => x.rating = "negative"
      BY <2>2, <3>1 DEF PrecedentsInv, BuildSaysRejected
    <3> QED BY <2>2, <3>1, <3>3, <3>4 DEF PrecedentsInv, BuildSaysRejected
  <2>4. CASE rows' = rows /\ heard' = [heard EXCEPT !.whole = FALSE]
    <3>1. /\ heard'.rejected = heard.rejected /\ heard'.written = heard.written
          /\ heard' = [rejected |-> heard'.rejected, written |-> heard'.written, whole |-> heard'.whole]
      <4>1. PICK a, b, w : heard = [rejected |-> a, written |-> b, whole |-> w] BY DEF PrecedentsInv
      <4> QED BY <2>4, <4>1
    <3> QED BY <2>2, <2>4, <3>1 DEF PrecedentsInv, BuildSaysRejected
  <2> QED BY <1>5, <2>3, <2>4 DEF WriteRow
<1>6. ASSUME NEW one \in build.todo, CondenseOne(one) PROVE PrecedentsInv'
  <2>1. PICK d : build' = [Rest(one) EXCEPT !.done = d] BY <1>6 DEF CondenseOne
  <2>2. /\ build' = [stage |-> build'.stage, todo |-> build'.todo, done |-> build'.done]
        /\ build'.todo = build.todo \ {one}
    BY <2>1, RestIsLess DEF PrecedentsInv
  <2>3. rows' = rows /\ heard' = heard BY <1>6 DEF CondenseOne
  <2> QED BY <2>2, <2>3 DEF PrecedentsInv, BuildSaysRejected
<1>7. CASE UNCHANGED pvars BY <1>1, <1>7 DEF pvars
<1> QED BY <1>2, <1>3, <1>4, <1>5, <1>6, <1>7 DEF PrecedentsNext

(* A build writes of every case it found rejected that it was, over whatever its row said
   (exemplar_builder/index.py). *)
THEOREM PrecedentsInvariant == PrecedentsSpec => []PrecedentsInv
<1>1. PrecedentsInit => PrecedentsInv BY DEF PrecedentsInit, PrecedentsInv, BuildSaysRejected
<1> QED BY <1>1, PrecedentsInductive, PTL DEF PrecedentsSpec

(* A case that was rejected when a build began guides no other once the build has written
   its row. *)
THEOREM PrecedentsRejectionIsHeeded == PrecedentsSpec => []RejectionIsHeeded
<1>1. PrecedentsInv => RejectionIsHeeded
  <2> SUFFICES ASSUME PrecedentsInv, NEW c \in heard.rejected \cap heard.written, c \in Guiding PROVE FALSE
    BY DEF RejectionIsHeeded
  <2>1. rows[c] = "negative" BY DEF PrecedentsInv, BuildSaysRejected
  <2>2. ASSUME NEW p, NEW sup, NEW a, c \in GetPrecedent(p, sup, a) PROVE rows[c] # "negative"
    <3>1. Matches(c, p, sup, a) BY <2>2 DEF GetPrecedent
    <3> QED BY <3>1 DEF Matches
  <2>3. \E p, sup, a : c \in GetPrecedent(p, sup, a) BY DEF Guiding
  <2> QED BY <2>1, <2>2, <2>3
<1> QED BY <1>1, PrecedentsInvariant, PTL

-----------------------------------------------------------------------------
(* Least and greatest numbers of a set. The intervals up to its members are finite, and
   finite sets are well founded by inclusion. *)

LEMMA LeastOf ==
  ASSUME NEW S, S \subseteq Nat, S # {}
  PROVE  \E m \in S : \A k \in S : m <= k
<1> DEFINE T == {1..n : n \in S}
<1>1. IsWellFoundedOn(StrictSubsetOrdering(Nat), FiniteSubsetsOf(Nat))
  BY FS_StrictSubsetOrderingWellFounded
<1>2. T \subseteq FiniteSubsetsOf(Nat) /\ T # {}
  <2>1. \A n \in S : IsFiniteSet(1..n) BY FS_Interval
  <2>2. ASSUME NEW x \in T PROVE x \subseteq Nat /\ IsFiniteSet(x) BY <2>1
  <2> QED BY <2>2 DEF FiniteSubsetsOf
<1>3. PICK x \in T : \A y \in T : ~ (<<y, x>> \in StrictSubsetOrdering(Nat))
  <2> HIDE DEF T
  <2> QED BY <1>1, <1>2, WFMin
<1>4. PICK m \in S : x = 1..m BY <1>3
<1>5. ASSUME NEW k \in S, k < m PROVE FALSE
  <2>1. 1..k \in T /\ 1..k \subseteq Nat /\ 1..m \subseteq Nat BY <1>5
  <2>2. 1..k \subseteq 1..m /\ m \in 1..m /\ m \notin 1..k BY <1>5
  <2>3. <<1..k, 1..m>> \in StrictSubsetOrdering(Nat) BY <2>1, <2>2 DEF StrictSubsetOrdering
  <2> QED BY <1>3, <1>4, <2>1, <2>3
<1> QED BY <1>5

LEMMA EarliestIsLeast ==
  ASSUME NEW S, S \subseteq Nat, S # {}
  PROVE  Earliest(S) \in S /\ \A k \in S : Earliest(S) <= k
<1>1. \E m \in S : \A k \in S : m <= k BY LeastOf
<1> QED BY <1>1 DEF Earliest

LEMMA LatestIsGreatest ==
  ASSUME NEW n \in Nat, NEW S, S \subseteq 1..n, S # {}
  PROVE  Latest(S) \in S /\ \A k \in S : k <= Latest(S)
<1> DEFINE T == {n - k : k \in S}
<1>1. T \subseteq Nat /\ T # {} OBVIOUS
<1>2. PICK m \in T : \A k \in T : m <= k
  <2> HIDE DEF T
  <2> QED BY <1>1, LeastOf
<1>3. PICK x \in S : m = n - x OBVIOUS
<1>4. ASSUME NEW k \in S PROVE k <= x
  <2>1. n - k \in T OBVIOUS
  <2>2. m <= n - k BY <1>2, <2>1
  <2> QED BY <1>3, <2>2
<1>5. \E m1 \in S : \A k \in S : k <= m1 BY <1>4
<1> QED BY <1>5 DEF Latest

-----------------------------------------------------------------------------
(* WriteReview. *)

OfARecord(step) == step.kind \in {"read", "write"}

(* Of two calls on one document, the earlier one saw no later state of it, and the same
   state if nobody changed it in between. *)
InOrder(steps) ==
  \A i, j \in DOMAIN steps :
    i <= j /\ OfARecord(steps[i]) /\ OfARecord(steps[j])
      /\ KeyOf[steps[i].key] = KeyOf[steps[j].key] =>
    /\ steps[i].saw.at <= steps[j].saw.at
    /\ steps[i].saw.at = steps[j].saw.at => steps[i].saw.has = steps[j].saw.has

(* No call saw a state of its document later than the one it is in now. *)
OfThePast(step) ==
  OfARecord(step) =>
    /\ step.key \in DOMAIN KeyOf /\ step.saw.at \in Nat
    /\ step.saw.at <= sap[KeyOf[step.key]].at
    /\ step.saw.at = sap[KeyOf[step.key]].at => step.saw.has = sap[KeyOf[step.key]].has

(* What the runtime keeps of an answer is what SAP held. *)
FieldsAreSeen(step) ==
  step.kind = "read" => \A x \in step.fields : x.value = step.saw.has[x.name]

Documents == {KeyOf[k] : k \in DOMAIN KeyOf}

SapIsWhole ==
  /\ sap = [d \in Documents |-> sap[d]]
  /\ \A d \in Documents :
       /\ sap[d] = [at |-> sap[d].at, has |-> sap[d].has]
       /\ sap[d].at \in Nat
       /\ sap[d].has = [f \in Columns |-> sap[d].has[f]]

ReviewInv ==
  /\ SapIsWhole
  /\ \E S : casetraces \in Seq(Seq(S))
  /\ \A n \in DOMAIN casetraces :
       /\ InOrder(casetraces[n])
       /\ \A i \in DOMAIN casetraces[n] :
            OfThePast(casetraces[n][i]) /\ FieldsAreSeen(casetraces[n][i])

(* A step changes a document only by counting the change. *)
SapMovesOn ==
  /\ SapIsWhole'
  /\ \A d \in Documents :
       /\ sap[d].at <= sap'[d].at
       /\ sap[d].at = sap'[d].at => sap[d].has = sap'[d].has

LEMMA StaysOfThePast ==
  ASSUME SapIsWhole, SapMovesOn, NEW step, OfThePast(step)
  PROVE  OfThePast(step)'
<1> SUFFICES ASSUME OfARecord(step)
             PROVE  /\ step.saw.at <= sap'[KeyOf[step.key]].at
                    /\ step.saw.at = sap'[KeyOf[step.key]].at => step.saw.has = sap'[KeyOf[step.key]].has
  BY DEF OfThePast, OfARecord
<1> DEFINE d == KeyOf[step.key]
<1>1. /\ step.key \in DOMAIN KeyOf /\ step.saw.at \in Nat
      /\ step.saw.at <= sap[d].at
      /\ step.saw.at = sap[d].at => step.saw.has = sap[d].has
  BY DEF OfThePast
<1>2. d \in Documents BY <1>1 DEF Documents
<1>3. sap[d].at \in Nat /\ sap'[d].at \in Nat BY <1>2 DEF SapMovesOn, SapIsWhole
<1>4. sap[d].at <= sap'[d].at /\ (sap[d].at = sap'[d].at => sap[d].has = sap'[d].has)
  BY <1>2 DEF SapMovesOn
<1> HIDE DEF d
<1>5. step.saw.at <= sap'[d].at /\ (step.saw.at = sap'[d].at => step.saw.at = sap[d].at)
  BY <1>1, <1>3, <1>4
<1> QED BY <1>1, <1>4, <1>5 DEF d

LEMMA ReviewGoesOn ==
  ASSUME ReviewInv, SapMovesOn, casetraces' = casetraces
  PROVE  ReviewInv'
<1>1. ASSUME NEW n \in DOMAIN casetraces, NEW i \in DOMAIN casetraces[n]
      PROVE  OfThePast(casetraces[n][i])'
  <2>1. PICK step : step = casetraces[n][i] OBVIOUS
  <2>2. OfThePast(step) BY <1>1, <2>1 DEF ReviewInv
  <2>3. OfThePast(step)' BY <2>2, StaysOfThePast DEF ReviewInv
  <2> QED BY <2>1, <2>3 DEF OfThePast, OfARecord
<1> QED BY <1>1 DEF ReviewInv, SapMovesOn, InOrder, FieldsAreSeen, OfARecord

(* A run's new step is the latest call, on its document as it was. *)
LEMMA ReviewTakesStep ==
  ASSUME ReviewInv, SapMovesOn, Going, NEW s, Step(s), FieldsAreSeen(s),
         OfARecord(s) => s.key \in DOMAIN KeyOf /\ s.saw = sap[KeyOf[s.key]]
  PROVE  ReviewInv'
<1>1. PICK S : casetraces \in Seq(Seq(S)) BY DEF ReviewInv
<1> DEFINE last == Len(casetraces)
           new == Append(casetraces[last], s)
<1>2. casetraces # <<>> BY DEF Going
<1>3. last \in DOMAIN casetraces /\ DOMAIN casetraces = 1..last /\ last \in Nat BY <1>1, <1>2
<1>4. casetraces[last] \in Seq(S) BY <1>1, <1>3
<1>5. casetraces' = [casetraces EXCEPT ![last] = new] BY DEF Step
<1>6. DOMAIN casetraces' = DOMAIN casetraces
      /\ \A n \in DOMAIN casetraces : casetraces'[n] = IF n = last THEN new ELSE casetraces[n]
  BY <1>5, <1>1
<1> DEFINE T == S \cup {s}
           before == casetraces[last]
<1>7. before \in Seq(T) /\ s \in T BY <1>4
<1>8. /\ new \in Seq(T) /\ Len(before) \in Nat /\ DOMAIN before = 1..Len(before)
      /\ DOMAIN new = DOMAIN before \cup {Len(before) + 1}
      /\ \A i \in DOMAIN before : new[i] = before[i]
      /\ new[Len(before) + 1] = s
  <2> HIDE DEF T
  <2> QED BY <1>7, AddedAtTheEnd
<1>9. casetraces' \in Seq(Seq(T))
  <2>1. casetraces \in Seq(Seq(T)) BY <1>1
  <2> HIDE DEF T, new, last
  <2>2. casetraces' \in Seq(Seq(T)) BY <2>1, <1>5, <1>8, <1>3
  <2> QED BY <2>2
<1> HIDE DEF T, new, before
<1>10. ASSUME NEW i \in DOMAIN before PROVE OfThePast(before[i]) /\ FieldsAreSeen(before[i])
  BY <1>3 DEF ReviewInv, before
<1>11. OfThePast(s)
  <2> SUFFICES ASSUME OfARecord(s) PROVE OfThePast(s) BY DEF OfThePast
  <2>1. KeyOf[s.key] \in Documents BY DEF Documents
  <2>2. sap[KeyOf[s.key]].at \in Nat BY <2>1 DEF ReviewInv, SapIsWhole
  <2> QED BY <2>2 DEF OfThePast
<1>12. ASSUME NEW i \in DOMAIN new PROVE OfThePast(new[i]) /\ FieldsAreSeen(new[i])
  BY <1>8, <1>10, <1>11
<1>13. InOrder(before) BY <1>3 DEF ReviewInv, before
<1>14. InOrder(new)
  <2> SUFFICES ASSUME NEW i \in DOMAIN new, NEW j \in DOMAIN new, i <= j,
                      OfARecord(new[i]), OfARecord(new[j]),
                      KeyOf[new[i].key] = KeyOf[new[j].key]
               PROVE  /\ new[i].saw.at <= new[j].saw.at
                      /\ new[i].saw.at = new[j].saw.at => new[i].saw.has = new[j].saw.has
    BY DEF InOrder
  <2>1. CASE j \in DOMAIN before
    <3>1. i \in DOMAIN before BY <1>8, <2>1
    <3>2. new[i] = before[i] /\ new[j] = before[j] BY <1>8, <2>1, <3>1
    <3> QED BY <1>13, <2>1, <3>1, <3>2 DEF InOrder
  <2>2. CASE j = Len(before) + 1
    <3>1. new[j] = s BY <1>8, <2>2
    <3>2. OfThePast(new[i]) BY <1>12
    <3>3. s.saw = sap[KeyOf[new[i].key]] BY <3>1
    <3>4. new[i].saw.at \in Nat BY <3>2 DEF OfThePast
    <3> QED BY <3>1, <3>2, <3>3, <3>4 DEF OfThePast
  <2> QED BY <1>8, <2>1, <2>2
<1>15. ASSUME NEW n \in DOMAIN casetraces'
       PROVE  /\ InOrder(casetraces'[n])
              /\ \A i \in DOMAIN casetraces'[n] :
                   OfThePast(casetraces'[n][i]) /\ FieldsAreSeen(casetraces'[n][i])
  BY <1>6, <1>12, <1>14 DEF ReviewInv
<1>16. ASSUME NEW n \in DOMAIN casetraces', NEW i \in DOMAIN casetraces'[n]
       PROVE  OfThePast(casetraces[n][i])'
  <2>1. PICK step : step = casetraces'[n][i] OBVIOUS
  <2>2. OfThePast(step) BY <1>15, <1>16, <2>1
  <2>3. OfThePast(step)' BY <2>2, StaysOfThePast DEF ReviewInv
  <2> QED BY <2>1, <2>3 DEF OfThePast, OfARecord
<1> QED BY <1>9, <1>15, <1>16 DEF ReviewInv, SapMovesOn, InOrder, FieldsAreSeen, OfARecord

LEMMA ReviewInitially == ReviewInit => ReviewInv
<1> SUFFICES ASSUME ReviewInit PROVE ReviewInv OBVIOUS
<1>1. PICK v \in Figures : sap = [d \in Documents |-> [at |-> 0, has |-> [f \in Columns |-> v]]]
  BY DEF ReviewInit, Documents
<1>2. casetraces = <<>> BY DEF ReviewInit
<1>3. casetraces \in Seq(Seq({})) BY <1>2
<1> QED BY <1>1, <1>2, <1>3 DEF ReviewInv, SapIsWhole

LEMMA ReviewInductive == ReviewInv /\ [ReviewNext]_rvars => ReviewInv'
<1> SUFFICES ASSUME ReviewInv, [ReviewNext]_rvars PROVE ReviewInv' OBVIOUS
<1>0. SapIsWhole BY DEF ReviewInv
<1>1. ASSUME sap' = sap PROVE SapMovesOn
  <2>1. SapIsWhole' BY <1>0, <1>1 DEF SapIsWhole, Documents
  <2>2. \A d \in Documents : sap[d].at \in Nat BY <1>0 DEF SapIsWhole
  <2>3. \A d \in Documents : sap[d].at <= sap[d].at BY <2>2
  <2> QED BY <1>1, <2>1, <2>3 DEF SapMovesOn
<1>2. CASE StartRun
  <2>1. sap' = sap /\ casetraces' = Append(casetraces, <<>>) BY <1>2 DEF StartRun
  <2>2. PICK S : casetraces \in Seq(Seq(S)) BY DEF ReviewInv
  <2>3. /\ casetraces' \in Seq(Seq(S)) /\ DOMAIN casetraces = 1..Len(casetraces)
        /\ DOMAIN casetraces' = DOMAIN casetraces \cup {Len(casetraces) + 1}
        /\ \A i \in DOMAIN casetraces : casetraces'[i] = casetraces[i]
        /\ casetraces'[Len(casetraces) + 1] = <<>>
    <3>1. PICK X : X = Seq(S) OBVIOUS
    <3>2. casetraces \in Seq(X) /\ <<>> \in X BY <2>2, <3>1
    <3>3. /\ casetraces' \in Seq(X) /\ DOMAIN casetraces = 1..Len(casetraces)
          /\ DOMAIN casetraces' = DOMAIN casetraces \cup {Len(casetraces) + 1}
          /\ \A i \in DOMAIN casetraces : casetraces'[i] = casetraces[i]
          /\ casetraces'[Len(casetraces) + 1] = <<>>
      BY ONLY <2>1, <3>2, AddedAtTheEnd
    <3> QED BY <3>1, <3>3
  <2>4. SapIsWhole' BY <1>0, <2>1 DEF SapIsWhole, Documents
  <2>5. ASSUME NEW n \in DOMAIN casetraces', NEW i \in DOMAIN casetraces'[n]
        PROVE  /\ n \in DOMAIN casetraces /\ casetraces'[n] = casetraces[n]
    BY <2>3, <2>5
  <2>6. ASSUME NEW n \in DOMAIN casetraces' PROVE InOrder(casetraces'[n])
    <3>1. CASE n \in DOMAIN casetraces BY <2>3, <3>1 DEF ReviewInv
    <3>2. CASE n = Len(casetraces) + 1
      <4>1. casetraces'[n] = <<>> BY <2>3, <3>2
      <4>2. InOrder(<<>>) BY DEF InOrder
      <4> QED BY <4>1, <4>2
    <3> QED BY <2>3, <3>1, <3>2
  <2>7. ASSUME NEW n \in DOMAIN casetraces', NEW i \in DOMAIN casetraces'[n]
        PROVE  OfThePast(casetraces[n][i])' /\ FieldsAreSeen(casetraces[n][i])'
    <3>1. OfThePast(casetraces[n][i]) /\ FieldsAreSeen(casetraces[n][i]) BY <2>5, <2>7 DEF ReviewInv
    <3>2. casetraces[n] = casetraces'[n] BY <2>5, <2>7
    <3> QED BY <2>1, <3>1, <3>2 DEF OfThePast, OfARecord, FieldsAreSeen
  <2> QED BY <2>3, <2>4, <2>6, <2>7 DEF ReviewInv, InOrder, OfARecord
<1>3. ASSUME NEW k \in DOMAIN KeyOf, NEW order \in Answers, ReadRecord(k, order) PROVE ReviewInv'
  <2> DEFINE d == sap[KeyOf[k]]
             s == [kind |-> "read", key |-> k, fields |-> ScalarFields(order, d.has), saw |-> d]
  <2>1. Going /\ Step(s) /\ sap' = sap BY <1>3 DEF ReadRecord
  <2>2. s.kind = "read" /\ s.key = k /\ s.saw = sap[KeyOf[s.key]] /\ s.fields = ScalarFields(order, s.saw.has)
    OBVIOUS
  <2> HIDE DEF s
  <2>3. FieldsAreSeen(s)
    <3>1. ASSUME NEW x \in ScalarFields(order, s.saw.has) PROVE x.value = s.saw.has[x.name]
      <4>1. \E i \in DOMAIN order : x = [name |-> order[i], value |-> s.saw.has[order[i]]]
        BY <3>1 DEF ScalarFields
      <4> QED BY <4>1
    <3> QED BY <2>2, <3>1 DEF FieldsAreSeen
  <2> QED BY <1>1, <2>1, <2>2, <2>3, ReviewTakesStep
<1>4. ASSUME NEW w \in Payloads, NEW ok \in BOOLEAN, WriteRecord(w, ok) PROVE ReviewInv'
  <2> DEFINE d == KeyOf[w.key]
             sets == IF ok /\ w.op = "update" THEN w.sets ELSE <<>>
             kept == ScalarFields(SetToSeq(DOMAIN w.sets), w.sets)
             s == [kind |-> "write", op |-> w.op, key |-> w.key, ok |-> ok, saw |-> sap[d], fields |-> kept]
  <2>1. Going /\ Step(s) BY <1>4 DEF WriteRecord
  <2>2. s.kind = "write" /\ s.key = w.key /\ s.saw = sap[KeyOf[s.key]] OBVIOUS
  <2>3. w.key \in DOMAIN KeyOf /\ d \in Documents BY ReviewAssumption DEF Documents
  <2>4. sap' = [sap EXCEPT ![d].at = IF sets = <<>> THEN @ ELSE @ + 1,
                           ![d].has = [f \in Columns |-> IF f \in DOMAIN sets THEN sets[f] ELSE sap[d].has[f]]]
    BY <1>4 DEF WriteRecord
  <2> HIDE DEF s, sets, d
  <2>5. SapMovesOn
    <3>1. /\ sap'[d] = [at |-> IF sets = <<>> THEN sap[d].at ELSE sap[d].at + 1,
                        has |-> [f \in Columns |-> IF f \in DOMAIN sets THEN sets[f] ELSE sap[d].has[f]]]
          /\ \A x \in Documents : x # d => sap'[x] = sap[x]
          /\ sap' = [x \in Documents |-> sap'[x]]
      <4>1. PICK a, h : sap[d] = [at |-> a, has |-> h] BY <1>0, <2>3 DEF SapIsWhole
      <4>2. d \in DOMAIN sap /\ DOMAIN sap = Documents BY <1>0, <2>3 DEF SapIsWhole
      <4> QED BY <2>4, <4>1, <4>2
    <3>2. sap[d].at \in Nat /\ sap[d].has = [f \in Columns |-> sap[d].has[f]]
      BY <1>0, <2>3 DEF SapIsWhole
    <3>3. sets = <<>> => sap'[d].has = sap[d].has
      <4>1. ASSUME sets = <<>> PROVE sap'[d].has = [f \in Columns |-> sap[d].has[f]]
        <5>1. \A f : f \notin DOMAIN sets BY <4>1
        <5> QED BY <3>1, <5>1
      <4> QED BY <4>1, <3>2
    <3>4. /\ sap[d].at <= sap'[d].at
          /\ sap[d].at = sap'[d].at => sap[d].has = sap'[d].has
      <4>1. sap'[d].at = IF sets = <<>> THEN sap[d].at ELSE sap[d].at + 1 BY <3>1
      <4> QED BY <3>2, <3>3, <4>1
    <3>5. /\ sap'[d] = [at |-> sap'[d].at, has |-> sap'[d].has]
          /\ sap'[d].at \in Nat
          /\ sap'[d].has = [f \in Columns |-> sap'[d].has[f]]
      BY <3>1, <3>2
    <3>6. SapIsWhole' BY <1>0, <3>1, <3>5 DEF SapIsWhole, Documents
    <3>7. \A x \in Documents : sap[x].at \in Nat BY <1>0 DEF SapIsWhole
    <3> QED BY <3>1, <3>4, <3>6, <3>7 DEF SapMovesOn
  <2>6. FieldsAreSeen(s) BY <2>2 DEF FieldsAreSeen
  <2> QED BY <2>1, <2>2, <2>3, <2>5, <2>6, ReviewTakesStep
<1>5. ASSUME NEW p, AskHuman(p) PROVE ReviewInv'
  <2> DEFINE s == [kind |-> "ask", proposal |-> IF p = Unsaid THEN Unsaid ELSE ProposedWrite(p)]
  <2>1. Going /\ Step(s) /\ sap' = sap BY <1>5 DEF AskHuman
  <2>2. s.kind = "ask" OBVIOUS
  <2> HIDE DEF s
  <2>3. FieldsAreSeen(s) /\ ~OfARecord(s) BY <2>2 DEF FieldsAreSeen, OfARecord
  <2> QED BY <1>1, <2>1, <2>3, ReviewTakesStep
<1>6. ASSUME NEW d \in DOMAIN sap, NEW f \in Columns, NEW v \in Figures, SapChanges(d, f, v) PROVE ReviewInv'
  <2>1. sap' = [sap EXCEPT ![d].at = @ + 1, ![d].has[f] = v] /\ casetraces' = casetraces
    BY <1>6 DEF SapChanges
  <2>2. d \in Documents /\ DOMAIN sap = Documents BY <1>0 DEF SapIsWhole
  <2>20. /\ sap[d] = [at |-> sap[d].at, has |-> sap[d].has] /\ sap[d].at \in Nat
         /\ sap[d].has = [x \in Columns |-> sap[d].has[x]]
    BY <1>0, <2>2 DEF SapIsWhole
  <2>3. PICK a, h : a = sap[d].at /\ h = sap[d].has /\ sap[d] = [at |-> a, has |-> h] BY <2>20
  <2>4. a \in Nat /\ h = [x \in Columns |-> h[x]] BY <2>20, <2>3
  <2>5. /\ sap'[d] = [at |-> a + 1, has |-> [h EXCEPT ![f] = v]]
        /\ \A x \in Documents : x # d => sap'[x] = sap[x]
        /\ sap' = [x \in Documents |-> sap'[x]]
    BY <2>1, <2>2, <2>3
  <2>6. /\ sap'[d] = [at |-> sap'[d].at, has |-> sap'[d].has]
        /\ sap'[d].at \in Nat
        /\ sap'[d].has = [x \in Columns |-> sap'[d].has[x]]
    <3>1. PICK g : g = [h EXCEPT ![f] = v] OBVIOUS
    <3>2. g = [x \in Columns |-> g[x]] BY ONLY <2>4, <3>1
    <3>3. sap'[d].has = g /\ sap'[d].at = a + 1 /\ sap'[d] = [at |-> a + 1, has |-> g]
      BY ONLY <2>5, <3>1
    <3> QED BY <2>4, <3>2, <3>3
  <2>7. SapIsWhole' BY <1>0, <2>5, <2>6 DEF SapIsWhole, Documents
  <2>8. \A x \in Documents : sap[x].at \in Nat BY <1>0 DEF SapIsWhole
  <2>9. sap[d].at < sap'[d].at BY <2>3, <2>4, <2>5
  <2>10. SapMovesOn BY <2>5, <2>7, <2>8, <2>9, <2>6 DEF SapMovesOn
  <2> QED BY <2>1, <2>10, ReviewGoesOn
<1>7. CASE UNCHANGED rvars
  <2>1. sap' = sap /\ casetraces' = casetraces BY <1>7 DEF rvars
  <2> QED BY <1>1, <2>1, ReviewGoesOn
<1> QED BY <1>2, <1>3, <1>4, <1>5, <1>6, <1>7 DEF ReviewNext

(* The excerpts of a run tell, in order, states its documents were in
   (evidence.py, writeDiff.ts). *)
THEOREM ReviewInvariant == ReviewSpec => []ReviewInv
BY ReviewInitially, ReviewInductive, PTL DEF ReviewSpec

LEMMA ListedIsSeen ==
  ASSUME NEW step, step.kind = "read", FieldsAreSeen(step), NEW f, Lists(step, f)
  PROVE  Listed(step, f) = step.saw.has[f]
<1>1. PICK z \in step.fields : z.name = f BY DEF Lists
<1>2. PICK y : y = CHOOSE x \in step.fields : x.name = f OBVIOUS
<1>3. y \in step.fields /\ y.name = f BY <1>1, <1>2
<1>4. Listed(step, f) = y.value BY <1>2 DEF Listed
<1> QED BY <1>3, <1>4 DEF FieldsAreSeen

(* A before value is one the run has read, and what stood there if it had read the record
   as it was. *)
THEOREM ReviewBeforeIsWhatStood == ReviewSpec => []BeforeIsWhatStood
<1>1. ReviewInv => BeforeIsWhatStood
  <2> SUFFICES ASSUME ReviewInv, NEW n \in DOMAIN casetraces, NEW steps, steps = casetraces[n],
                      NEW i \in DOMAIN steps, steps[i].kind = "write",
                      NEW row \in AppliedRows(steps, i), row.state # "no-baseline"
               PROVE  /\ \E j \in ReadsBefore(steps, i) : steps[j].saw.has[row.name] = row.before
                      /\ (\E j \in ReadsBefore(steps, i) : steps[j].saw.at = steps[i].saw.at)
                           => row.before = steps[i].saw.has[row.name]
    BY DEF BeforeIsWhatStood
  <2>1. PICK S : steps \in Seq(S) BY DEF ReviewInv
  <2>2. DOMAIN steps = 1..Len(steps) /\ Len(steps) \in Nat /\ i \in Nat /\ i \in 1..Len(steps) BY <2>1
  <2> DEFINE R == ReadsBefore(steps, i)
             b == BaselineFor(steps, i)
  <2>3. /\ R \subseteq 1..i - 1 /\ i - 1 \in Nat
        /\ \A j \in R : /\ steps[j].kind = "read" /\ KeyOf[steps[j].key] = KeyOf[steps[i].key]
                         /\ j \in DOMAIN steps /\ j <= i /\ j \in Nat
    <3>1. i - 1 \in Nat BY ONLY <2>2
    <3>2. R \subseteq 1..i - 1 /\ \A j \in R : steps[j].kind = "read" /\ steps[j].key = steps[i].key
      BY ONLY DEF ReadsBefore
    <3>3. ASSUME NEW j \in 1..i - 1 PROVE j \in DOMAIN steps /\ j <= i /\ j \in Nat
      BY ONLY <2>2, <3>3
    <3> QED BY <3>1, <3>2, <3>3
  <2>4. PICK f \in steps[i].fields :
          /\ ~(b = 0 \/ ~Lists(steps[b], f.name))
          /\ row.name = f.name /\ row.before = Listed(steps[b], f.name)
    BY DEF AppliedRows
  <2>5. R # {} /\ b = Latest(R) BY <2>4 DEF BaselineFor
  <2> HIDE DEF R, b
  <2>6. b \in R /\ \A k \in R : k <= b BY <2>3, <2>5, LatestIsGreatest
  <2>7. /\ steps[b].kind = "read" /\ KeyOf[steps[b].key] = KeyOf[steps[i].key]
        /\ b \in DOMAIN steps /\ b <= i /\ b \in Nat
    BY <2>3, <2>6
  <2>8. row.before = steps[b].saw.has[row.name]
    <3>1. FieldsAreSeen(steps[b]) BY <2>7 DEF ReviewInv
    <3> QED BY <2>4, <2>7, <3>1, ListedIsSeen
  <2>9. ASSUME NEW j \in R, steps[j].saw.at = steps[i].saw.at PROVE row.before = steps[i].saw.has[row.name]
    <3>1. /\ steps[j].kind = "read" /\ KeyOf[steps[j].key] = KeyOf[steps[i].key]
          /\ j \in DOMAIN steps /\ j <= b /\ j \in Nat
      BY <2>3, <2>6
    <3>2. InOrder(steps) BY DEF ReviewInv
    <3>3. OfARecord(steps[j]) /\ OfARecord(steps[b]) /\ OfARecord(steps[i]) BY <2>7, <3>1 DEF OfARecord
    <3>4. /\ steps[j].saw.at <= steps[b].saw.at /\ steps[b].saw.at <= steps[i].saw.at
          /\ steps[b].saw.at = steps[i].saw.at => steps[b].saw.has = steps[i].saw.has
      BY <2>7, <3>1, <3>2, <3>3 DEF InOrder
    <3>5. OfThePast(steps[b]) /\ OfThePast(steps[i]) BY <2>7 DEF ReviewInv
    <3>6. steps[b].saw.at \in Nat /\ steps[i].saw.at \in Nat BY <3>3, <3>5 DEF OfThePast
    <3>7. steps[b].saw.at = steps[i].saw.at BY <2>9, <3>4, <3>6
    <3> QED BY <2>8, <3>4, <3>7
  <2> QED BY <2>6, <2>8, <2>9 DEF R
<1> QED BY <1>1, ReviewInvariant, PTL

LEMMA ClaimsChecked ==
  ASSUME ReviewInv, PendingRun # 0,
         NEW steps, steps = casetraces[PendingRun], NEW p,
         NEW row \in ProposedRows(p, steps)
  PROVE  /\ row.state = "verified" =>
              \E j \in ReadsFor(p, steps) : steps[j].saw.has[row.name] = row.before
         /\ row.state = "mismatch" =>
              \E j \in ReadsFor(p, steps) : steps[j].saw.has[row.name] # row.before
<1>1. PICK S : casetraces \in Seq(Seq(S)) BY DEF ReviewInv
<1>2. DOMAIN casetraces = 1..Len(casetraces) /\ Len(casetraces) \in Nat BY ONLY <1>1
<1>3. PendingRun \in DOMAIN casetraces
  <2> DEFINE some == {n \in DOMAIN casetraces : Proposing(casetraces[n]) # {}}
  <2>1. some # {} /\ PendingRun = Latest(some) BY DEF PendingRun
  <2>2. some \subseteq DOMAIN casetraces OBVIOUS
  <2> HIDE DEF some
  <2>3. Latest(some) \in some BY ONLY <1>2, <2>1, <2>2, LatestIsGreatest
  <2> QED BY <2>1, <2>2, <2>3
<1>4. steps \in Seq(S) BY <1>1, <1>3
<1>5. DOMAIN steps \subseteq Nat BY ONLY <1>4
<1>6. ReadsFor(p, steps) \subseteq DOMAIN steps
      /\ \A j \in ReadsFor(p, steps) : steps[j].kind = "read"
  BY DEF ReadsFor
<1>7. \A j \in ReadsFor(p, steps) : FieldsAreSeen(steps[j]) BY <1>3, <1>6 DEF ReviewInv
<1> DEFINE Seen(f) == {j \in ReadsFor(p, steps) : Lists(steps[j], f.name)}
           State(f) == IF f.current = Unsaid THEN "no-baseline"
                       ELSE IF Seen(f) = {} THEN "unverified"
                       ELSE IF Listed(steps[Earliest(Seen(f))], f.name) = f.current THEN "verified"
                       ELSE "mismatch"
<1>8. PICK n \in DOMAIN p.fields :
        row = [name |-> p.fields[n].name, before |-> p.fields[n].current, state |-> State(p.fields[n])]
  BY DEF ProposedRows
<1>9. PICK T : T = Seen(p.fields[n]) OBVIOUS
<1>10. /\ row.name = p.fields[n].name /\ row.before = p.fields[n].current
       /\ row.state = IF p.fields[n].current = Unsaid THEN "no-baseline"
                      ELSE IF T = {} THEN "unverified"
                      ELSE IF Listed(steps[Earliest(T)], p.fields[n].name) = p.fields[n].current THEN "verified"
                      ELSE "mismatch"
  BY <1>8, <1>9
<1>11. T \subseteq ReadsFor(p, steps) /\ T \subseteq Nat /\ \A j \in T : Lists(steps[j], row.name)
  BY <1>5, <1>6, <1>9, <1>10
<1>12. CASE T # {}
  <2>1. Earliest(T) \in T BY ONLY <1>11, <1>12, EarliestIsLeast
  <2>2. Listed(steps[Earliest(T)], row.name) = steps[Earliest(T)].saw.has[row.name]
    BY <1>6, <1>7, <1>11, <2>1, ListedIsSeen
  <2>3. /\ row.state = "verified" => Listed(steps[Earliest(T)], row.name) = row.before
        /\ row.state = "mismatch" => Listed(steps[Earliest(T)], row.name) # row.before
    BY ONLY <1>10, <1>12
  <2> QED BY <1>11, <2>1, <2>2, <2>3
<1>13. CASE T = {}
  <2>1. row.state \notin {"verified", "mismatch"} BY ONLY <1>10, <1>13
  <2> QED BY <2>1
<1> QED BY <1>12, <1>13

(* A claim shown as verified is what SAP held when the run read it, one shown as a mismatch
   is one SAP contradicted. *)
THEOREM ReviewClaimsAreChecked == ReviewSpec => []ClaimsAreCheckedInSap
<1>1. ReviewInv => ClaimsAreCheckedInSap
  <2> SUFFICES ASSUME ReviewInv, PendingRun # 0 PROVE ClaimsAreCheckedInSap
    BY DEF ClaimsAreCheckedInSap
  <2> DEFINE steps == casetraces[PendingRun]
             p == PendingProposal
  <2>2. ASSUME NEW row \in ProposedRows(p, steps)
        PROVE  /\ row.state = "verified" =>
                    \E j \in ReadsFor(p, steps) : steps[j].saw.has[row.name] = row.before
               /\ row.state = "mismatch" =>
                    \E j \in ReadsFor(p, steps) : steps[j].saw.has[row.name] # row.before
    BY <2>2, ClaimsChecked
  <2>3. ReadsFor(p, steps) =
          {j \in DOMAIN steps : steps[j].kind = "read" /\ (p.key # "" => steps[j].key = p.key)}
    BY DEF ReadsFor
  <2>4. ASSUME NEW row \in ProposedRows(p, steps)
        PROVE  /\ row.state = "verified" =>
                    \E j \in {j \in DOMAIN steps : steps[j].kind = "read" /\ (p.key # "" => steps[j].key = p.key)} :
                      steps[j].saw.has[row.name] = row.before
               /\ row.state = "mismatch" =>
                    \E j \in {j \in DOMAIN steps : steps[j].kind = "read" /\ (p.key # "" => steps[j].key = p.key)} :
                      steps[j].saw.has[row.name] # row.before
    BY <2>2, <2>3, Zenon
  <2> QED BY <2>4, Zenon DEF ClaimsAreCheckedInSap
<1> QED BY <1>1, ReviewInvariant, PTL
=============================================================================
