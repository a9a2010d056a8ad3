-------------------------- MODULE Knowledge_proofs --------------------------
(***************************************************************************)
(* Proofs, for every value of the constants, about what a run is told        *)
(* (Guidance): configuration edits, the SOP and the settings of a prompt and  *)
(* of its reload; and about the vendors check_vendor_risk names (VendorRisk). *)
(***************************************************************************)
EXTENDS Guidance, VendorRisk, FiniteSetTheorems, SequenceTheorems, WellFoundedInduction, TLAPS

USE DEF Query

-----------------------------------------------------------------------------
(* The edits: their plans. *)

LEMMA SeqOfSet ==
  ASSUME NEW S, IsFiniteSet(S)
  PROVE  /\ SetToSeq(S) \in Seq(S)
         /\ \A i, j \in DOMAIN SetToSeq(S) : SetToSeq(S)[i] = SetToSeq(S)[j] => i = j
         /\ \A x \in S : \E i \in DOMAIN SetToSeq(S) : SetToSeq(S)[i] = x
<1> DEFINE n == Cardinality(S)
           q == SetToSeq(S)
<1>1. n \in Nat /\ ExistsBijection(1..n, S) BY FS_CardinalityType
<1>2. PICK f : f \in Bijection(1..n, S) BY <1>1 DEF ExistsBijection
<1>3. f \in [1..n -> S] /\ IsInjective(f) BY <1>2 DEF Bijection, Injection, IsInjective
<1>4. q \in [1..n -> S] /\ IsInjective(q) BY <1>3 DEF SetToSeq
<1>5. q \in Injection(1..n, S) BY <1>4 DEF Injection, IsInjective
<1>6. IsFiniteSet(1..n) /\ Cardinality(1..n) = n BY <1>1, FS_Interval
<1>7. q \in Surjection(1..n, S) BY <1>5, <1>6, FS_Injection
<1> HIDE DEF n, q
<1>8. \A x \in S : \E i \in 1..n : q[i] = x BY <1>7 DEF Surjection
<1>9. q \in Seq(S) BY <1>1, <1>4
<1>10. DOMAIN q = 1..n BY <1>4
<1> QED BY <1>4, <1>8, <1>9, <1>10 DEF q, IsInjective

LEMMA PlansAreWhole ==
  ASSUME NEW body \in Bodies
  PROVE  LET plan == PlanWrites(body) IN
         /\ plan \in Seq(Settings)
         /\ plan # <<>> =>
              /\ Sound(body)
              /\ ToSet(plan) = DOMAIN body
              /\ \A i, j \in DOMAIN plan : plan[i] = plan[j] => i = j
<1> DEFINE A == DOMAIN body \cap Contacts
           B == DOMAIN body \cap Symbols
           a == SetToSeq(A)
           b == SetToSeq(B)
           plan == PlanWrites(body)
<1>1. /\ IsFiniteSet(A) /\ IsFiniteSet(B) /\ A \cup B = DOMAIN body /\ A \cap B = {}
      /\ A \subseteq Settings /\ B \subseteq Settings
  BY GuidanceAssumption, FS_Subset DEF Settings
<1>2. /\ a \in Seq(A) /\ \A i, j \in DOMAIN a : a[i] = a[j] => i = j
      /\ \A x \in A : \E i \in DOMAIN a : a[i] = x
  BY <1>1, SeqOfSet
<1>3. /\ b \in Seq(B) /\ \A i, j \in DOMAIN b : b[i] = b[j] => i = j
      /\ \A x \in B : \E i \in DOMAIN b : b[i] = x
  BY <1>1, SeqOfSet
<1>4. plan = IF Sound(body) THEN a \o b ELSE <<>> BY DEF PlanWrites
<1>5. CASE ~Sound(body) BY <1>4, <1>5
<1>6. CASE Sound(body)
  <2> HIDE DEF a, b, A, B, plan
  <2>1. plan = a \o b BY <1>4, <1>6
  <2>2. a \in Seq(Settings) /\ b \in Seq(Settings) BY <1>1, <1>2, <1>3
  <2>3. /\ plan \in Seq(Settings) /\ Len(plan) = Len(a) + Len(b)
        /\ \A i \in 1..(Len(a) + Len(b)) : plan[i] = IF i <= Len(a) THEN a[i] ELSE b[i - Len(a)]
    BY <2>1, <2>2, ConcatProperties
  <2>4. DOMAIN plan = 1..(Len(a) + Len(b)) /\ DOMAIN a = 1..Len(a) /\ DOMAIN b = 1..Len(b)
        /\ Len(a) \in Nat /\ Len(b) \in Nat
    BY <2>2, <2>3
  <2>5. \A i \in DOMAIN a : i \in DOMAIN plan /\ plan[i] = a[i] /\ a[i] \in A BY <2>3, <2>4, <1>2
  <2>6. \A i \in DOMAIN b : Len(a) + i \in DOMAIN plan /\ plan[Len(a) + i] = b[i] /\ b[i] \in B
    <3> TAKE i \in DOMAIN b
    <3>1. Len(a) + i \in 1..(Len(a) + Len(b)) /\ ~(Len(a) + i <= Len(a)) /\ (Len(a) + i) - Len(a) = i BY <2>4
    <3>2. plan[Len(a) + i] = b[(Len(a) + i) - Len(a)] BY <3>1, <2>3
    <3> QED BY <3>1, <3>2, <2>4, <1>3
  <2>7. \A i \in DOMAIN plan : i \in DOMAIN a \/ \E j \in DOMAIN b : i = Len(a) + j
    <3> TAKE i \in DOMAIN plan
    <3>1. CASE i <= Len(a) BY <3>1, <2>4
    <3>2. CASE ~(i <= Len(a))
      <4>1. i - Len(a) \in DOMAIN b /\ i = Len(a) + (i - Len(a)) BY <3>2, <2>4
      <4> QED BY <4>1
    <3> QED BY <3>1, <3>2
  <2>8. ToSet(plan) = DOMAIN body
    <3>1. ASSUME NEW x \in DOMAIN body PROVE \E i \in DOMAIN plan : plan[i] = x
      <4>1. CASE x \in A BY <4>1, <1>2, <2>5
      <4>2. CASE x \in B BY <4>2, <1>3, <2>6
      <4> QED BY <4>1, <4>2, <1>1
    <3>2. \A i \in DOMAIN plan : plan[i] \in DOMAIN body BY <2>5, <2>6, <2>7, <1>1
    <3> QED BY <3>1, <3>2 DEF ToSet
  <2>9. \A i, j \in DOMAIN plan : plan[i] = plan[j] => i = j
    <3> SUFFICES ASSUME NEW i \in DOMAIN plan, NEW j \in DOMAIN plan, plan[i] = plan[j] PROVE i = j
      OBVIOUS
    <3>1. CASE i \in DOMAIN a /\ j \in DOMAIN a BY <3>1, <2>5, <1>2
    <3>2. CASE i \in DOMAIN a /\ \E k \in DOMAIN b : j = Len(a) + k BY <3>2, <2>5, <2>6, <1>1
    <3>3. CASE j \in DOMAIN a /\ \E k \in DOMAIN b : i = Len(a) + k BY <3>3, <2>5, <2>6, <1>1
    <3>4. CASE (\E k \in DOMAIN b : i = Len(a) + k) /\ (\E k \in DOMAIN b : j = Len(a) + k)
      <4>1. PICK k \in DOMAIN b : i = Len(a) + k BY <3>4
      <4>2. PICK l \in DOMAIN b : j = Len(a) + l BY <3>4
      <4>3. b[k] = b[l] BY <4>1, <4>2, <2>6
      <4> QED BY <4>1, <4>2, <4>3, <1>3
    <3> QED BY <3>1, <3>2, <3>3, <3>4, <2>7
  <2> QED BY <1>6, <2>3, <2>8, <2>9 DEF plan
<1> QED BY <1>5, <1>6

-----------------------------------------------------------------------------
(* The edits: their invariant. *)

Edit == [stage : {"new", "writing", "saved", "refused", "broken"}, body : Bodies \cup {<<>>},
         left : Seq(Settings), alone : BOOLEAN]

EditTypes ==
  table \in [Settings -> Values \cup {Unset}] /\ edits \in [Editors -> Edit] /\ order \in Seq(Editors)

(* A request is in the order from when it is accepted; it was without error then, and what
   it has left to write are keys of its body, each once. *)
AcceptedInOrder ==
  \A e \in Editors :
    /\ e \in ToSet(order) <=> edits[e].stage \in {"writing", "saved", "broken"}
    /\ e \in ToSet(order) => edits[e].body \in Bodies /\ Sound(edits[e].body)
    /\ edits[e].stage = "writing" => /\ edits[e].left # <<>> /\ ToSet(edits[e].left) \subseteq DOMAIN edits[e].body
                                     /\ \A i, j \in DOMAIN edits[e].left : edits[e].left[i] = edits[e].left[j] => i = j
    /\ edits[e].stage = "saved" => edits[e].left = <<>>

(* A request that overlaps no other is the last that was accepted. *)
AloneIsLast ==
  \A e \in Editors : edits[e].stage = "writing" /\ edits[e].alone =>
    InFlight = {e} /\ Len(order) \in DOMAIN order /\ order[Len(order)] = e

WasAsked ==
  \A k \in Settings : table[k] # Unset =>
    \E e \in ToSet(order) : /\ k \in DOMAIN edits[e].body /\ edits[e].body[k] = table[k]
                            /\ Sound(edits[e].body)

(* What the accepted requests have written so far: the last word on a setting stands. *)
Told(k) == {i \in DOMAIN order : k \in DOMAIN edits[order[i]].body /\ k \notin ToSet(edits[order[i]].left)}
LastWordStands ==
  (\A e \in ToSet(order) : edits[e].stage \in {"saved", "writing"} /\ edits[e].alone) =>
    \A k \in Settings :
      /\ Told(k) = {} => table[k] = Unset
      /\ \A i \in Told(k) : (\A j \in Told(k) : j <= i) => table[k] = Asked(order[i], k)

EditsInv == EditTypes /\ AcceptedInOrder /\ AloneIsLast /\ WasAsked /\ LastWordStands

LEMMA EditsInitially == GuidanceInit => EditsInv
<1> SUFFICES ASSUME GuidanceInit PROVE EditsInv OBVIOUS
<1>1. NoEdit \in Edit BY DEF NoEdit, Edit
<1>2. order = <<>> /\ DOMAIN order = {} /\ ToSet(order) = {} BY DEF GuidanceInit, ToSet
<1>3. \A e \in Editors : edits[e].stage = "new" BY DEF GuidanceInit, NoEdit
<1>4. EditTypes BY <1>1, <1>2 DEF GuidanceInit, EditTypes
<1>5. \A k \in Settings : table[k] = Unset BY DEF GuidanceInit
<1>6. \A k : Told(k) = {} BY <1>2 DEF Told
<1> QED BY <1>2, <1>3, <1>4, <1>5, <1>6 DEF EditsInv, AcceptedInOrder, AloneIsLast, WasAsked, LastWordStands

(* Nothing but the edits' own steps touches them. *)
LEMMA EditsAsTheyWere == EditsInv /\ UNCHANGED <<table, edits, order>> => EditsInv'
BY DEF EditsInv, EditTypes, AcceptedInOrder, AloneIsLast, WasAsked, LastWordStands, InFlight, Told, Asked

(* A request that is refused leaves every other as it was. *)
LEMMA RefusedKeeps ==
  ASSUME EditsInv, NEW e \in Editors, NEW body \in Bodies, edits[e].stage = "new",
         PlanWrites(body) = <<>>, PutConfig(e, body)
  PROVE  EditsInv'
<1> DEFINE new == [stage |-> "refused", body |-> body, left |-> <<>>, alone |-> InFlight = {}]
<1>1. edits' = [x \in Editors |-> IF x = e THEN new ELSE edits[x]] /\ UNCHANGED <<table, order>>
  BY DEF PutConfig
<1>2. new \in Edit BY DEF Edit
<1>3. new.stage = "refused" /\ new.body = body /\ new.left = <<>> OBVIOUS
<1> HIDE DEF new
<1>4. /\ edits \in [Editors -> Edit] /\ order \in Seq(Editors) /\ table \in [Settings -> Values \cup {Unset}]
      /\ \A x \in ToSet(order) : x \in Editors
  BY DEF EditsInv, EditTypes, ToSet
<1>5. e \notin ToSet(order) BY <1>4 DEF EditsInv, AcceptedInOrder
<1>6. \A x \in Editors : x # e => edits'[x] = edits[x] BY <1>1
<1>7. edits'[e] = new BY <1>1
<1>8. \A i \in DOMAIN order : order[i] \in Editors /\ order[i] # e /\ edits'[order[i]] = edits[order[i]]
  BY <1>4, <1>5, <1>6 DEF ToSet
<1>9. EditTypes' BY <1>1, <1>2, <1>4 DEF EditTypes
<1>10. AcceptedInOrder' BY <1>1, <1>3, <1>5, <1>6, <1>7 DEF EditsInv, AcceptedInOrder
<1>11. InFlight' = InFlight BY <1>3, <1>6, <1>7 DEF InFlight
<1>12. AloneIsLast' BY <1>1, <1>3, <1>6, <1>7, <1>11 DEF EditsInv, AloneIsLast
<1>13. WasAsked' BY <1>1, <1>4, <1>5, <1>6 DEF EditsInv, WasAsked
<1>14. \A k : Told(k)' = Told(k) BY <1>1, <1>8 DEF Told
<1>15. \A k : \A i \in DOMAIN order : Asked(order[i], k)' = Asked(order[i], k) BY <1>1, <1>8 DEF Asked
<1>16. LastWordStands'
  <2> SUFFICES ASSUME \A x \in ToSet(order) : edits'[x].stage \in {"saved", "writing"} /\ edits'[x].alone,
                      NEW k \in Settings
               PROVE  /\ Told(k) = {} => table[k] = Unset
                      /\ \A i \in Told(k) : (\A j \in Told(k) : j <= i) => table[k] = Asked(order[i], k)'
    BY <1>1, <1>14 DEF LastWordStands
  <2>1. \A x \in ToSet(order) : edits[x].stage \in {"saved", "writing"} /\ edits[x].alone
    BY <1>4, <1>5, <1>6
  <2>2. /\ Told(k) = {} => table[k] = Unset
        /\ \A i \in Told(k) : (\A j \in Told(k) : j <= i) => table[k] = Asked(order[i], k)
    BY <2>1 DEF EditsInv, LastWordStands
  <2>3. \A i \in Told(k) : i \in DOMAIN order BY DEF Told
  <2> QED BY <2>2, <2>3, <1>15
<1> QED BY <1>9, <1>10, <1>12, <1>13, <1>16 DEF EditsInv

(* A request that is accepted comes last, and has written nothing yet. *)
LEMMA AcceptedKeeps ==
  ASSUME EditsInv, NEW e \in Editors, NEW body \in Bodies, edits[e].stage = "new",
         PlanWrites(body) # <<>>, PutConfig(e, body)
  PROVE  EditsInv'
<1> DEFINE plan == PlanWrites(body)
           new == [stage |-> "writing", body |-> body, left |-> plan, alone |-> InFlight = {}]
<1>1. /\ edits' = [x \in Editors |-> IF x = e THEN new
                                     ELSE IF x \in InFlight THEN [edits[x] EXCEPT !.alone = FALSE] ELSE edits[x]]
      /\ order' = Append(order, e) /\ table' = table
  <2>1. \A x \in Editors : x # e \/ x = e OBVIOUS
  <2> QED BY DEF PutConfig
<1>2. /\ plan \in Seq(Settings) /\ plan # <<>> /\ Sound(body) /\ ToSet(plan) = DOMAIN body
      /\ \A i, j \in DOMAIN plan : plan[i] = plan[j] => i = j
  BY PlansAreWhole
<1> HIDE DEF plan
<1>3. new \in Edit BY <1>2 DEF Edit
<1>4. new.stage = "writing" /\ new.body = body /\ new.left = plan OBVIOUS
<1>5. (new.alone = TRUE) => InFlight = {} OBVIOUS
<1> HIDE DEF new
<1>6. /\ edits \in [Editors -> Edit] /\ order \in Seq(Editors) /\ table \in [Settings -> Values \cup {Unset}]
      /\ DOMAIN order = 1..Len(order) /\ Len(order) \in Nat
      /\ \A x \in ToSet(order) : x \in Editors
  BY DEF EditsInv, EditTypes, ToSet
<1>7. e \notin ToSet(order) BY <1>6 DEF EditsInv, AcceptedInOrder
<1>8. edits'[e] = new BY <1>1
<1>9. \A x \in Editors : x # e =>
        /\ edits'[x] \in Edit
        /\ edits'[x].stage = edits[x].stage /\ edits'[x].body = edits[x].body /\ edits'[x].left = edits[x].left
        /\ edits'[x].alone => edits[x].alone /\ x \notin InFlight
  <2> SUFFICES ASSUME NEW x \in Editors, x # e
               PROVE  /\ edits'[x] \in Edit
                      /\ edits'[x].stage = edits[x].stage /\ edits'[x].body = edits[x].body
                      /\ edits'[x].left = edits[x].left
                      /\ edits'[x].alone => edits[x].alone /\ x \notin InFlight
    OBVIOUS
  <2>1. edits[x] \in Edit BY <1>6
  <2>2. CASE x \in InFlight
    <3>1. edits'[x] = [edits[x] EXCEPT !.alone = FALSE] BY <1>1, <2>2
    <3> QED BY <2>1, <3>1 DEF Edit
  <2>3. CASE x \notin InFlight BY <1>1, <2>1, <2>3
  <2> QED BY <2>2, <2>3
<1>10. /\ order' \in Seq(Editors) /\ Len(order') = Len(order) + 1 /\ DOMAIN order' = 1..(Len(order) + 1)
       /\ order'[Len(order) + 1] = e /\ \A i \in DOMAIN order : order'[i] = order[i]
  BY <1>1, <1>6
<1>11. ToSet(order') = ToSet(order) \cup {e}
  BY <1>6, <1>10 DEF ToSet
<1>12. EditTypes'
  <2>1. \A x \in Editors : edits'[x] \in Edit BY <1>3, <1>8, <1>9
  <2>2. edits' \in [Editors -> Edit] BY <2>1, <1>1
  <2> QED BY <1>1, <1>6, <1>10, <2>2 DEF EditTypes
<1>13. AcceptedInOrder'
  <2> SUFFICES ASSUME NEW x \in Editors
               PROVE  /\ x \in ToSet(order') <=> edits'[x].stage \in {"writing", "saved", "broken"}
                      /\ x \in ToSet(order') => edits'[x].body \in Bodies /\ Sound(edits'[x].body)
                      /\ edits'[x].stage = "writing" =>
                           /\ edits'[x].left # <<>> /\ ToSet(edits'[x].left) \subseteq DOMAIN edits'[x].body
                           /\ \A i, j \in DOMAIN edits'[x].left : edits'[x].left[i] = edits'[x].left[j] => i = j
                      /\ edits'[x].stage = "saved" => edits'[x].left = <<>>
    BY DEF AcceptedInOrder, Sound
  <2>1. CASE x = e BY <2>1, <1>2, <1>4, <1>8, <1>11
  <2>2. CASE x # e BY <2>2, <1>9, <1>11 DEF EditsInv, AcceptedInOrder
  <2> QED BY <2>1, <2>2
<1>14. InFlight' = InFlight \cup {e} BY <1>4, <1>8, <1>9 DEF InFlight
<1>15. AloneIsLast'
  <2> SUFFICES ASSUME NEW x \in Editors, edits'[x].stage = "writing", edits'[x].alone
               PROVE  InFlight' = {x} /\ Len(order') \in DOMAIN order' /\ order'[Len(order')] = x
    BY DEF AloneIsLast
  <2>1. x = e
    <3> SUFFICES ASSUME x # e PROVE FALSE OBVIOUS
    <3>1. x \notin InFlight /\ edits[x].stage = "writing" BY <1>9
    <3> QED BY <3>1 DEF InFlight
  <2>2. new.alone = TRUE BY <2>1, <1>8, <1>3 DEF Edit
  <2>3. InFlight = {} BY <2>2, <1>5
  <2> QED BY <2>1, <2>3, <1>6, <1>10, <1>14
<1>16. WasAsked'
  <2>t. table' = table BY <1>1
  <2> SUFFICES ASSUME NEW k \in Settings, table'[k] # Unset
               PROVE  \E x \in ToSet(order') : /\ k \in DOMAIN edits'[x].body /\ edits'[x].body[k] = table'[k]
                                              /\ Sound(edits'[x].body)
    BY DEF WasAsked, Sound
  <2>1. PICK x \in ToSet(order) : k \in DOMAIN edits[x].body /\ edits[x].body[k] = table[k] /\ Sound(edits[x].body)
    BY <2>t DEF EditsInv, WasAsked
  <2>2. edits'[x].body = edits[x].body /\ x \in ToSet(order') BY <2>1, <1>6, <1>7, <1>9, <1>11
  <2> QED BY <2>1, <2>2, <2>t
<1>17. \A i \in DOMAIN order : order[i] \in Editors /\ order[i] # e
  BY <1>6, <1>7 DEF ToSet
<1>18. \A k \in Settings : Told(k)' = Told(k)
  <2> SUFFICES ASSUME NEW k \in Settings, NEW i
               PROVE  i \in Told(k)' <=> i \in Told(k)
    OBVIOUS
  <2>1. CASE i \in DOMAIN order
    <3>1. i \in DOMAIN order' /\ order'[i] = order[i] BY <2>1, <1>6, <1>10
    <3> QED BY <2>1, <3>1, <1>9, <1>17 DEF Told
  <2>2. CASE i = Len(order) + 1
    <3>1. edits'[order'[i]] = new BY <2>2, <1>8, <1>10
    <3>2. i \notin Told(k)' BY <3>1, <1>2, <1>4 DEF Told
    <3>3. i \notin DOMAIN order BY <2>2, <1>6
    <3> QED BY <3>2, <3>3 DEF Told
  <2>3. CASE i \notin DOMAIN order /\ i # Len(order) + 1
    <3>1. i \notin DOMAIN order' BY <2>3, <1>6, <1>10
    <3> QED BY <2>3, <3>1 DEF Told
  <2> QED BY <2>1, <2>2, <2>3
<1>19. \A k : \A i \in DOMAIN order : Asked(order[i], k)' = Asked(order[i], k)
  BY <1>9, <1>10, <1>17 DEF Asked
<1>20. LastWordStands'
  <2> SUFFICES ASSUME \A x \in ToSet(order') : edits'[x].stage \in {"saved", "writing"} /\ edits'[x].alone,
                      NEW k \in Settings
               PROVE  /\ Told(k) = {} => table[k] = Unset
                      /\ \A i \in Told(k) : (\A j \in Told(k) : j <= i) => table[k] = Asked(order[i], k)'
    BY <1>1, <1>18 DEF LastWordStands
  <2>1. \A x \in ToSet(order) : edits[x].stage \in {"saved", "writing"} /\ edits[x].alone
    BY <1>6, <1>7, <1>9, <1>11
  <2>2. /\ Told(k) = {} => table[k] = Unset
        /\ \A i \in Told(k) : (\A j \in Told(k) : j <= i) => table[k] = Asked(order[i], k)
    BY <2>1 DEF EditsInv, LastWordStands
  <2>3. \A i \in Told(k) : i \in DOMAIN order BY DEF Told
  <2> QED BY <2>2, <2>3, <1>19
<1> QED BY <1>12, <1>13, <1>15, <1>16, <1>20 DEF EditsInv

(* One setting is written, or the request breaks off. *)
LEMMA WritingKeeps == ASSUME EditsInv, NEW e \in Editors, WriteOne(e) PROVE EditsInv'
<1> DEFINE left == edits[e].left
           body == edits[e].body
           k == Head(left)
<1>1. /\ edits \in [Editors -> Edit] /\ order \in Seq(Editors) /\ table \in [Settings -> Values \cup {Unset}]
      /\ DOMAIN order = 1..Len(order) /\ Len(order) \in Nat
      /\ \A x \in ToSet(order) : x \in Editors
  BY DEF EditsInv, EditTypes, ToSet
<1>2. edits[e] \in Edit /\ edits[e].stage = "writing" /\ order' = order BY <1>1 DEF WriteOne
<1>3. /\ left \in Seq(Settings) /\ left # <<>> /\ ToSet(left) \subseteq DOMAIN body
      /\ \A i, j \in DOMAIN left : left[i] = left[j] => i = j
      /\ e \in ToSet(order) /\ body \in Bodies /\ Sound(body)
  BY <1>2 DEF EditsInv, AcceptedInOrder, Edit
<1>4. /\ k \in Settings /\ k \in DOMAIN body /\ Tail(left) \in Seq(Settings) /\ k \in ToSet(left)
      /\ ToSet(left) = ToSet(Tail(left)) \cup {k} /\ k \notin ToSet(Tail(left))
      /\ \A i, j \in DOMAIN Tail(left) : Tail(left)[i] = Tail(left)[j] => i = j
      /\ Len(left) = 1 <=> Tail(left) = <<>>
  <2> HIDE DEF left, body
  <2>1. /\ DOMAIN left = 1..Len(left) /\ Len(left) \in Nat \ {0} /\ k = left[1]
        /\ Tail(left) \in Seq(Settings) /\ Len(Tail(left)) = Len(left) - 1
        /\ DOMAIN Tail(left) = 1..(Len(left) - 1)
        /\ \A i \in 1..(Len(left) - 1) : Tail(left)[i] = left[i + 1]
    BY <1>3
  <2>2. k \in Settings /\ 1 \in DOMAIN left BY <1>3, <2>1
  <2>3. \A i \in DOMAIN Tail(left) : i + 1 \in DOMAIN left /\ Tail(left)[i] = left[i + 1] /\ i + 1 # 1 BY <2>1
  <2>4. \A i \in DOMAIN left : i = 1 \/ (i - 1 \in DOMAIN Tail(left) /\ Tail(left)[i - 1] = left[i])
    BY <2>1
  <2>5. k \in ToSet(left) BY <2>1, <2>2 DEF ToSet
  <2>6. ToSet(left) = ToSet(Tail(left)) \cup {k} BY <2>1, <2>2, <2>3, <2>4 DEF ToSet
  <2>7. k \notin ToSet(Tail(left))
    <3> SUFFICES ASSUME NEW i \in DOMAIN Tail(left), Tail(left)[i] = k PROVE FALSE BY DEF ToSet
    <3> QED BY <2>1, <2>2, <2>3, <1>3
  <2>8. \A i, j \in DOMAIN Tail(left) : Tail(left)[i] = Tail(left)[j] => i = j
    <3> SUFFICES ASSUME NEW i \in DOMAIN Tail(left), NEW j \in DOMAIN Tail(left), Tail(left)[i] = Tail(left)[j]
                 PROVE  i = j
      OBVIOUS
    <3>1. i + 1 = j + 1 BY <2>3, <1>3
    <3> QED BY <3>1, <2>1
  <2>9. Len(left) = 1 <=> Tail(left) = <<>> BY <2>1
  <2> QED BY <2>2, <2>5, <2>6, <2>7, <2>8, <2>9, <2>1, <1>3
<1>5. CASE edits' = [edits EXCEPT ![e].stage = "broken"] /\ table' = table
  <2>1. [edits[e] EXCEPT !.stage = "broken"] \in Edit BY <1>2 DEF Edit
  <2>2. /\ edits'[e].stage = "broken" /\ edits'[e].body = body /\ edits'[e].left = left
        /\ edits'[e].alone = edits[e].alone
    BY <1>1, <1>2, <1>5 DEF Edit
  <2>3. \A x \in Editors : x # e => edits'[x] = edits[x] BY <1>1, <1>5
  <2>4. edits' \in [Editors -> Edit] BY <1>1, <1>5, <2>1
  <2>5. EditTypes' BY <1>1, <1>2, <1>5, <2>4 DEF EditTypes
  <2>6. AcceptedInOrder'
    <3> SUFFICES ASSUME NEW x \in Editors
                 PROVE  /\ x \in ToSet(order) <=> edits'[x].stage \in {"writing", "saved", "broken"}
                        /\ x \in ToSet(order) => edits'[x].body \in Bodies /\ Sound(edits'[x].body)
                        /\ edits'[x].stage = "writing" =>
                             /\ edits'[x].left # <<>> /\ ToSet(edits'[x].left) \subseteq DOMAIN edits'[x].body
                             /\ \A i, j \in DOMAIN edits'[x].left : edits'[x].left[i] = edits'[x].left[j] => i = j
                        /\ edits'[x].stage = "saved" => edits'[x].left = <<>>
      BY <1>2 DEF AcceptedInOrder, Sound
    <3>1. CASE x = e BY <3>1, <2>2, <1>3
    <3>2. CASE x # e BY <3>2, <2>3 DEF EditsInv, AcceptedInOrder
    <3> QED BY <3>1, <3>2
  <2>7. AloneIsLast'
    <3> SUFFICES ASSUME NEW x \in Editors, edits'[x].stage = "writing", edits'[x].alone
                 PROVE  InFlight' = {x} /\ Len(order) \in DOMAIN order /\ order[Len(order)] = x
      BY <1>2 DEF AloneIsLast
    <3>1. x # e BY <2>2
    <3>2. InFlight = {x} BY <3>1, <2>3 DEF EditsInv, AloneIsLast
    <3>3. e \in InFlight BY <1>2 DEF InFlight
    <3> QED BY <3>1, <3>2, <3>3
  <2>8. \A x \in Editors : edits'[x].body = edits[x].body BY <2>2, <2>3
  <2>9. WasAsked'
    <3> SUFFICES ASSUME NEW q \in Settings, table[q] # Unset
                 PROVE  \E x \in ToSet(order) : /\ q \in DOMAIN edits'[x].body /\ edits'[x].body[q] = table[q]
                                               /\ Sound(edits'[x].body)
      BY <1>2, <1>5 DEF WasAsked, Sound
    <3> QED BY <2>8, <1>1 DEF EditsInv, WasAsked
  <2>10. LastWordStands' BY <2>2, <1>2, <1>3 DEF LastWordStands
  <2> QED BY <2>5, <2>6, <2>7, <2>9, <2>10 DEF EditsInv
<1>6. CASE /\ table' = [table EXCEPT ![k] = Written(body[k], @)]
           /\ edits' = [edits EXCEPT ![e].left = Tail(@), ![e].stage = IF Len(left) = 1 THEN "saved" ELSE @]
  <2> DEFINE new == [edits[e] EXCEPT !.left = Tail(left), !.stage = IF Len(left) = 1 THEN "saved" ELSE "writing"]
             v == IF body[k] = "null" THEN Unset ELSE body[k]
  <2>1. /\ new \in Edit /\ new.body = body /\ new.left = Tail(left) /\ new.alone = edits[e].alone
        /\ new.stage = IF Tail(left) = <<>> THEN "saved" ELSE "writing"
    BY <1>2, <1>4 DEF Edit
  <2>2. edits' = [edits EXCEPT ![e] = new]
    <3>1. \A x \in Editors : x # e => edits'[x] = edits[x] BY <1>1, <1>6
    <3>2. edits'[e] = new BY <1>1, <1>2, <1>6 DEF Edit
    <3>3. edits' = [x \in Editors |-> edits'[x]] BY <1>1, <1>6
    <3> QED BY <3>1, <3>2, <3>3, <1>1
  <2> HIDE DEF new
  <2>3. edits'[e] = new /\ \A x \in Editors : x # e => edits'[x] = edits[x] BY <1>1, <2>2
  <2>4. edits' \in [Editors -> Edit] BY <1>1, <2>1, <2>2
  <2>5. body[k] \in Values \cup {"null"} BY <1>3, <1>4, GuidanceAssumption
  <2>6. table'[k] = v /\ (\A q \in Settings : q # k => table'[q] = table[q]) /\ table' \in [Settings -> Values \cup {Unset}]
    BY <1>1, <1>4, <1>6, <2>5 DEF Written
  <2>7. EditTypes' BY <1>1, <1>2, <2>4, <2>6 DEF EditTypes
  <2>8. AcceptedInOrder'
    <3> SUFFICES ASSUME NEW x \in Editors
                 PROVE  /\ x \in ToSet(order) <=> edits'[x].stage \in {"writing", "saved", "broken"}
                        /\ x \in ToSet(order) => edits'[x].body \in Bodies /\ Sound(edits'[x].body)
                        /\ edits'[x].stage = "writing" =>
                             /\ edits'[x].left # <<>> /\ ToSet(edits'[x].left) \subseteq DOMAIN edits'[x].body
                             /\ \A i, j \in DOMAIN edits'[x].left : edits'[x].left[i] = edits'[x].left[j] => i = j
                        /\ edits'[x].stage = "saved" => edits'[x].left = <<>>
      BY <1>2 DEF AcceptedInOrder, Sound
    <3>1. CASE x = e
      <4> HIDE DEF left, body, k
      <4> QED BY <3>1, <2>1, <2>3, <1>3, <1>4
    <3>2. CASE x # e BY <3>2, <2>3 DEF EditsInv, AcceptedInOrder
    <3> QED BY <3>1, <3>2
  <2>9. AloneIsLast'
    <3> SUFFICES ASSUME NEW x \in Editors, edits'[x].stage = "writing", edits'[x].alone
                 PROVE  InFlight' = {x} /\ Len(order) \in DOMAIN order /\ order[Len(order)] = x
      BY <1>2 DEF AloneIsLast
    <3>1. edits[x].stage = "writing" /\ edits[x].alone BY <2>1, <2>3, <1>2
    <3>2. InFlight = {x} /\ Len(order) \in DOMAIN order /\ order[Len(order)] = x
      BY <3>1 DEF EditsInv, AloneIsLast
    <3>3. x = e BY <3>2, <1>2 DEF InFlight
    <3>4. \A y \in Editors : y # e => edits'[y].stage # "writing" BY <3>2, <3>3, <2>3 DEF InFlight
    <3> QED BY <3>2, <3>3, <3>4 DEF InFlight
  <2>10. \A x \in Editors : edits'[x].body = edits[x].body BY <2>1, <2>3
  <2>11. WasAsked'
    <3> SUFFICES ASSUME NEW q \in Settings, table'[q] # Unset
                 PROVE  \E x \in ToSet(order) : /\ q \in DOMAIN edits'[x].body /\ edits'[x].body[q] = table'[q]
                                               /\ Sound(edits'[x].body)
      BY <1>2 DEF WasAsked, Sound
    <3>1. CASE q = k
      <4>1. table'[q] = body[q] BY <3>1, <2>6
      <4> QED BY <3>1, <4>1, <2>10, <1>3, <1>4
    <3>2. CASE q # k BY <3>2, <2>6, <2>10, <1>1 DEF EditsInv, WasAsked
    <3> QED BY <3>1, <3>2
  <2>12. LastWordStands'
    <3> SUFFICES ASSUME \A x \in ToSet(order) : edits'[x].stage \in {"saved", "writing"} /\ edits'[x].alone,
                        NEW q \in Settings
                 PROVE  /\ Told(q)' = {} => table'[q] = Unset
                        /\ \A i \in Told(q)' : (\A j \in Told(q)' : j <= i) => table'[q] = Asked(order[i], q)'
      BY <1>2 DEF LastWordStands
    <3>1. \A x \in ToSet(order) : edits[x].stage \in {"saved", "writing"} /\ edits[x].alone
      BY <2>1, <2>3, <1>1, <1>2
    <3>2. Len(order) \in DOMAIN order /\ order[Len(order)] = e
      BY <3>1, <1>2, <1>3 DEF EditsInv, AloneIsLast
    <3>3. \A i \in DOMAIN order : order[i] \in Editors BY <1>1
    <3>4. \A i \in DOMAIN order : Asked(order[i], q)' = Asked(order[i], q) BY <1>2, <2>10, <3>3 DEF Asked
    <3>5. CASE q = k
      <4> HIDE DEF k, left, body
      <4>1. edits'[order[Len(order)]] = new BY <3>2, <2>3
      <4>2. Len(order) \in Told(q)'
        <5>1. q \in DOMAIN new.body /\ q \notin ToSet(new.left) BY <2>1, <1>4, <3>5
        <5> QED BY <3>2, <4>1, <5>1, <1>2 DEF Told
      <4>3. ASSUME NEW i \in Told(q)', \A j \in Told(q)' : j <= i PROVE i = Len(order)
        <5>1. i \in DOMAIN order BY <4>3, <1>2 DEF Told
        <5>2. Len(order) <= i BY <4>2, <4>3
        <5> QED BY <5>1, <5>2, <1>1
      <4>4. Asked(order[Len(order)], q) = v BY <3>2, <3>5 DEF Asked, body
      <4>5. ASSUME NEW i \in Told(q)', \A j \in Told(q)' : j <= i PROVE table'[q] = Asked(order[i], q)'
        <5>1. i = Len(order) BY <4>3, <4>5
        <5>2. i \in DOMAIN order BY <5>1, <3>2
        <5>3. Asked(order[i], q)' = Asked(order[i], q) BY <5>2, <3>4
        <5> QED BY <5>1, <5>3, <4>4, <2>6, <3>5
      <4> QED BY <4>2, <4>5
    <3>6. CASE q # k
      <4>1. Told(q)' = Told(q)
        <5> SUFFICES ASSUME NEW i PROVE i \in Told(q)' <=> i \in Told(q) OBVIOUS
        <5>1. CASE i \in DOMAIN order /\ order[i] = e
          <6> HIDE DEF k
          <6>1. edits'[order[i]] = new BY <5>1, <2>3
          <6>2. q \in ToSet(left) <=> q \in ToSet(Tail(left)) BY <1>4, <3>6
          <6> QED BY <5>1, <6>1, <6>2, <2>1, <1>2 DEF Told
        <5>2. CASE i \in DOMAIN order /\ order[i] # e
          <6>1. edits'[order[i]] = edits[order[i]] BY <5>2, <2>3, <3>3
          <6> QED BY <5>2, <6>1, <1>2 DEF Told
        <5>3. CASE i \notin DOMAIN order BY <5>3, <1>2 DEF Told
        <5> QED BY <5>1, <5>2, <5>3
      <4>2. /\ Told(q) = {} => table[q] = Unset
            /\ \A i \in Told(q) : (\A j \in Told(q) : j <= i) => table[q] = Asked(order[i], q)
        BY <3>1 DEF EditsInv, LastWordStands
      <4>3. \A i \in Told(q) : i \in DOMAIN order BY DEF Told
      <4>4. table'[q] = table[q] BY <3>6, <2>6
      <4> QED BY <3>4, <4>1, <4>2, <4>3, <4>4
    <3> QED BY <3>5, <3>6
  <2> QED BY <2>7, <2>8, <2>9, <2>11, <2>12 DEF EditsInv
<1>7. \/ table' = table /\ edits' = [edits EXCEPT ![e].stage = "broken"]
      \/ /\ table' = [table EXCEPT ![k] = Written(body[k], @)]
         /\ edits' = [edits EXCEPT ![e].left = Tail(@), ![e].stage = IF Len(left) = 1 THEN "saved" ELSE @]
  BY DEF WriteOne
<1> QED BY <1>5, <1>6, <1>7

LEMMA EditsInductive == EditsInv /\ [GuidanceNext]_gvars => EditsInv'
<1> SUFFICES ASSUME EditsInv, [GuidanceNext]_gvars PROVE EditsInv' OBVIOUS
<1>1. ASSUME NEW e \in Editors, NEW body \in Bodies, PutConfig(e, body) PROVE EditsInv'
  <2>1. edits[e].stage = "new" BY <1>1 DEF PutConfig
  <2>2. CASE PlanWrites(body) = <<>> BY <1>1, <2>1, <2>2, RefusedKeeps
  <2>3. CASE PlanWrites(body) # <<>> BY <1>1, <2>1, <2>3, AcceptedKeeps
  <2> QED BY <2>2, <2>3
<1>2. CASE UNCHANGED <<table, edits, order>> BY <1>2, EditsAsTheyWere
<1>3. ASSUME NEW c \in Corpora, Publish(c) PROVE UNCHANGED <<table, edits, order>> BY <1>3 DEF Publish
<1>4. ASSUME NEW r \in Readers, NEW n \in {1, 2}, NEW how, Begin(r, n, how) PROVE UNCHANGED <<table, edits, order>>
  BY <1>4 DEF Begin
<1>5. ASSUME NEW r \in Readers, NEW n \in {1, 2}, Fetch(r, n) \/ NoCandidate(r, n) \/ Substitute(r, n)
      PROVE  UNCHANGED <<table, edits, order>>
  BY <1>5 DEF Fetch, NoCandidate, Substitute
<1>6. CASE UNCHANGED gvars BY <1>6, <1>2 DEF gvars
<1> QED BY <1>1, <1>2, <1>3, <1>4, <1>5, <1>6, WritingKeeps DEF GuidanceNext

(* However edits of the configuration overlap and fail, the table holds what the accepted
   ones have asked for so far (config_api/index.py). *)
THEOREM EditsInvariant == GuidanceSpec => []EditsInv
BY EditsInitially, EditsInductive, PTL DEF GuidanceSpec

(* Nothing is in the table that a request without error did not ask for, and requests that
   neither overlap nor fail add up, the last word on each setting standing: for any number
   of requests and settings. *)
THEOREM GuidanceEditsAreWhole == GuidanceSpec => []EditsAreWhole
<1>1. EditsInv => EditsAreWhole
  <2> SUFFICES ASSUME EditsInv PROVE EditsAreWhole OBVIOUS
  <2>1. ASSUME \A e \in ToSet(order) : edits[e].stage = "saved" /\ edits[e].alone, NEW k \in Settings
        PROVE  /\ Naming(k) = {} => table[k] = Unset
               /\ \A i \in Naming(k) : (\A j \in Naming(k) : j <= i) => table[k] = Asked(order[i], k)
    <3>1. \A i \in DOMAIN order : order[i] \in ToSet(order) /\ order[i] \in Editors
      BY DEF ToSet, EditsInv, EditTypes
    <3>2. \A i \in DOMAIN order : edits[order[i]].left = <<>> BY <2>1, <3>1 DEF EditsInv, AcceptedInOrder
    <3>3. \A i \in DOMAIN order : ToSet(edits[order[i]].left) = {} BY <3>2 DEF ToSet
    <3>4. Naming(k) = Told(k) BY <3>3 DEF Naming, Told
    <3> QED BY <2>1, <3>4 DEF EditsInv, LastWordStands
  <2> QED BY <2>1 DEF EditsInv, WasAsked, EditsAreWhole
<1> QED BY <1>1, EditsInvariant, PTL

-----------------------------------------------------------------------------
(* The reads. What is said of one read is said of its record and of the moments that it,
   and the run's first read, have seen. *)

Read == [stage : {"idle", "sop", "contacts", "constants", "done", "failed"},
         how : {"none", "prompt", "reload", "search"}, left : Seq(Extensions),
         sop : {"none", "rule", "empty"},
         states : [Settings -> Values \cup {Default, Verbatim}], failed : BOOLEAN]

Fresh(read, seen, k) ==
  \/ \E m \in seen : read.states[k] = Stated(k, m[1][k], read.how)
  \/ read.failed /\ read.states[k] = Stated(k, Unset, read.how)

FreshSoFar(read, seen) ==
  /\ read.stage = "constants" => \A k \in Contacts : Fresh(read, seen, k)
  /\ read.stage = "done" => \A k \in Settings : Fresh(read, seen, k)

WasAbsent(x, seen) == \E m \in seen : m[2][x] = "absent"

(* A candidate that was dropped was absent; what a read without a rule stands on. *)
NoneSoFar(read, seen) ==
  /\ read.stage = "sop" => \A x \in Extensions : x \in ToSet(read.left) \/ WasAbsent(x, seen)
  /\ read.stage \in {"contacts", "constants", "done"} =>
       /\ read.sop = "none" => \A x \in Extensions : WasAbsent(x, seen)
       /\ read.sop = "empty" => \E m \in seen, x \in Extensions : m[2][x] = "empty"

Candidates(how) == IF how = "prompt" THEN SopKeyCandidates ELSE SopKeys

(* The document that the candidates, in their order, resolve to in one state of the corpus. *)
Resolves(c, keys, document) ==
  \/ /\ document \in {"rule", "empty"}
     /\ \E i \in DOMAIN keys : c[keys[i]] = document /\ \A j \in 1..(i - 1) : c[keys[j]] = "absent"
  \/ document = "none" /\ \A i \in DOMAIN keys : c[keys[i]] = "absent"

(* In the one moment that a run has seen, a read has got as far as p in its candidates. *)
OneMoment(seen) == \A m, l \in seen : m = l
Reached(c, keys, left, p) ==
  /\ p \in 0..Len(keys) /\ Len(left) = Len(keys) - p
  /\ \A i \in 1..Len(left) : left[i] = keys[p + i]
  /\ \A j \in 1..p : c[keys[j]] = "absent"

DocumentSoFar(read, seen) ==
  \A m \in seen : OneMoment(seen) /\ read.how \in {"prompt", "reload"} /\ ~read.failed =>
    /\ read.stage = "sop" => \E p \in Nat : Reached(m[2], Candidates(read.how), read.left, p)
    /\ read.stage \in {"contacts", "constants", "done", "failed"} =>
         Resolves(m[2], Candidates(read.how), read.sop)

HowOf(n, read) ==
  /\ read.stage \in {"idle", "sop"} => read.sop = "none"
  /\ read.stage = "idle" => ~read.failed
  /\ read.stage # "idle" => read.how \in IF n = 1 THEN {"prompt"} ELSE {"reload", "search"}

ReadOK(n, read, first, seen) ==
  /\ HowOf(n, read) /\ FreshSoFar(read, seen)
  /\ n = 1 => NoneSoFar(read, seen)
  /\ DocumentSoFar(read, first)

Moments == [Settings -> Values \cup {Unset}] \X Corpora

LEMMA ReadOutlasts ==
  ASSUME NEW n \in {1, 2}, NEW read, NEW first, NEW seen, ReadOK(n, read, first, seen),
         NEW x, NEW first2, NEW seen2, first \subseteq first2, first2 \subseteq first \cup {x},
         seen \subseteq seen2, first # {} \/ read.stage = "idle"
  PROVE  ReadOK(n, read, first2, seen2)
<1>1. \A k : Fresh(read, seen, k) => Fresh(read, seen2, k) BY DEF Fresh
<1>2. FreshSoFar(read, seen2) BY <1>1 DEF ReadOK, FreshSoFar
<1>3. NoneSoFar(read, seen) => NoneSoFar(read, seen2) BY DEF NoneSoFar, WasAbsent
<1>4. DocumentSoFar(read, first2)
  <2>1. CASE read.stage = "idle" BY <2>1 DEF DocumentSoFar
  <2>2. CASE first # {}
    <3> SUFFICES ASSUME OneMoment(first2), NEW m \in first2 PROVE m \in first /\ OneMoment(first)
      BY DEF DocumentSoFar, ReadOK
    <3> QED BY <2>2 DEF OneMoment
  <2> QED BY <2>1, <2>2
<1> QED BY <1>2, <1>3, <1>4 DEF ReadOK

(* A read begins. *)
LEMMA KeysAreExtensions ==
  /\ SopKeyCandidates \in Seq(Extensions) /\ SopKeys \in Seq(Extensions)
  /\ ToSet(SopKeyCandidates) = Extensions
<1>1. CASE Key = "pdf"
  <2>1. SopKeyCandidates = <<"pdf", "txt", "md">> /\ SopKeys = <<"txt", "md">>
    BY <1>1 DEF SopKeyCandidates, Alternates, SopKeys
  <2> QED BY <2>1 DEF Extensions, ToSet
<1>2. CASE Key = "txt"
  <2>1. SopKeyCandidates = <<"txt", "pdf", "md">> /\ SopKeys = <<"txt", "txt", "md">>
    BY <1>2 DEF SopKeyCandidates, Alternates, SopKeys
  <2> QED BY <2>1 DEF Extensions, ToSet
<1>3. CASE Key = "md"
  <2>1. SopKeyCandidates = <<"md", "txt", "pdf">> /\ SopKeys = <<"md", "txt", "md">>
    BY <1>3 DEF SopKeyCandidates, Alternates, SopKeys
  <2> QED BY <2>1 DEF Extensions, ToSet
<1> QED BY <1>1, <1>2, <1>3, GuidanceAssumption

Begun(read, how) ==
  [read EXCEPT !.how = how, !.stage = IF how = "search" THEN "contacts" ELSE "sop",
               !.left = CASE how = "prompt" -> SopKeyCandidates
                          [] how = "reload" -> SopKeys
                          [] how = "search" -> <<>>]

LEMMA BegunIsOK ==
  ASSUME NEW n \in {1, 2}, NEW read \in Read, NEW first, NEW seen, ReadOK(n, read, first, seen),
         read.stage = "idle", NEW how, n = 1 => how = "prompt", n = 2 => how \in {"reload", "search"},
         NEW next, next = Begun(read, how)
  PROVE  next \in Read /\ ReadOK(n, next, first, seen)
<1> DEFINE left == CASE how = "prompt" -> SopKeyCandidates [] how = "reload" -> SopKeys [] how = "search" -> <<>>
<1>1. how \in {"prompt", "reload", "search"} OBVIOUS
<1>2. /\ how # "search" => left = Candidates(how)
      /\ left \in Seq(Extensions)
      /\ how = "prompt" => ToSet(left) = Extensions
  BY <1>1, KeysAreExtensions DEF Candidates
<1> HIDE DEF left
<1>3. next = [read EXCEPT !.how = how, !.stage = IF how = "search" THEN "contacts" ELSE "sop", !.left = left]
  BY DEF left, Begun
<1>4. /\ next \in Read /\ next.how = how /\ next.left = left /\ next.sop = read.sop /\ next.failed = read.failed
      /\ next.stage = IF how = "search" THEN "contacts" ELSE "sop"
  BY <1>1, <1>2, <1>3 DEF Read
<1>5. read.sop = "none" BY DEF ReadOK, HowOf
<1>6. HowOf(n, next) BY <1>1, <1>4, <1>5 DEF HowOf
<1>7. FreshSoFar(next, seen) BY <1>4 DEF FreshSoFar
<1>8. n = 1 => NoneSoFar(next, seen) BY <1>2, <1>4 DEF NoneSoFar
<1>9. DocumentSoFar(next, first)
  <2> SUFFICES ASSUME NEW m \in first, how \in {"prompt", "reload"}
               PROVE  Reached(m[2], Candidates(how), left, 0)
    BY <1>4 DEF DocumentSoFar
  <2>1. left = Candidates(how) /\ Len(left) \in Nat BY <1>2
  <2> QED BY <2>1 DEF Reached
<1> QED BY <1>4, <1>6, <1>7, <1>8, <1>9 DEF ReadOK

(* One object is read. *)
LEMMA FetchedIsOK ==
  ASSUME NEW n \in {1, 2}, NEW read \in Read, NEW first, NEW seen, ReadOK(n, read, first, seen),
         seen \subseteq first, NEW t, NEW c \in Corpora, <<t, c>> \in seen,
         read.stage = "sop", read.left # <<>>, NEW next, next = Fetched(read, c[Head(read.left)])
  PROVE  next \in Read /\ ReadOK(n, next, first, seen)
<1> DEFINE x == Head(read.left)
           left == read.left
<1>1. /\ left \in Seq(Extensions) /\ x \in Extensions /\ Tail(left) \in Seq(Extensions)
      /\ ToSet(left) = ToSet(Tail(left)) \cup {x}
      /\ DOMAIN left = 1..Len(left) /\ Len(left) \in Nat \ {0} /\ x = left[1]
      /\ Len(Tail(left)) = Len(left) - 1
      /\ \A i \in 1..Len(Tail(left)) : Tail(left)[i] = left[i + 1]
  <2>1. left \in Seq(Extensions) /\ left # <<>> BY DEF Read
  <2> HIDE DEF left
  <2>2. /\ x \in Extensions /\ Tail(left) \in Seq(Extensions) /\ x = left[1]
        /\ DOMAIN left = 1..Len(left) /\ Len(left) \in Nat \ {0}
        /\ Len(Tail(left)) = Len(left) - 1 /\ DOMAIN Tail(left) = 1..(Len(left) - 1)
        /\ \A i \in 1..(Len(left) - 1) : Tail(left)[i] = left[i + 1]
    BY <2>1 DEF left
  <2>3. \A i \in DOMAIN left : i = 1 \/ (i - 1 \in DOMAIN Tail(left) /\ Tail(left)[i - 1] = left[i])
    BY <2>2
  <2>4. \A i \in DOMAIN Tail(left) : i + 1 \in DOMAIN left /\ Tail(left)[i] = left[i + 1] BY <2>2
  <2>5. ToSet(left) = ToSet(Tail(left)) \cup {x}
    <3> HIDE DEF x
    <3>1. 1 \in DOMAIN left BY <2>2
    <3>2. \A i \in DOMAIN left : left[i] \in ToSet(Tail(left)) \cup {x} BY <2>2, <2>3 DEF ToSet
    <3>3. \A i \in DOMAIN Tail(left) : Tail(left)[i] \in ToSet(left) BY <2>4 DEF ToSet
    <3>4. x \in ToSet(left) BY <3>1, <2>2 DEF ToSet
    <3> QED BY ONLY <3>2, <3>3, <3>4 DEF ToSet
  <2> QED BY <2>1, <2>2, <2>5
<1>2. c[x] \in {"absent", "empty", "rule", "denied"} BY <1>1, GuidanceAssumption DEF Extensions
<1>3. read.how \in (IF n = 1 THEN {"prompt"} ELSE {"reload", "search"}) /\ read.sop = "none"
  BY DEF ReadOK, HowOf
<1>4. \A m \in first : OneMoment(first) => m[2] = c BY DEF OneMoment
<1> HIDE DEF x, left
<1>5. CASE c[x] \in {"rule", "empty"}
  <2>1. next = [read EXCEPT !.sop = c[x], !.stage = "contacts"] BY <1>5 DEF Fetched, x
  <2>2. /\ next \in Read /\ next.stage = "contacts" /\ next.sop = c[x] /\ next.how = read.how
        /\ next.failed = read.failed
    BY <2>1, <1>5 DEF Read
  <2>3. HowOf(n, next) BY <1>3, <2>2 DEF HowOf
  <2>4. FreshSoFar(next, seen) BY <2>2 DEF FreshSoFar
  <2>5. NoneSoFar(next, seen)
    <3>1. <<t, c>>[2][x] = c[x] OBVIOUS
    <3> QED BY <3>1, <2>2, <1>1, <1>5 DEF NoneSoFar
  <2>6. DocumentSoFar(next, first)
    <3> SUFFICES ASSUME NEW m \in first, OneMoment(first), read.how \in {"prompt", "reload"}, ~read.failed
                 PROVE  Resolves(c, Candidates(read.how), c[x])
      BY <1>4, <2>2 DEF DocumentSoFar
    <3> DEFINE keys == Candidates(read.how)
    <3>1. PICK p \in Nat : Reached(c, keys, left, p) BY <1>4 DEF ReadOK, DocumentSoFar, left
    <3>2. keys \in Seq(Extensions) BY KeysAreExtensions DEF Candidates
    <3> HIDE DEF keys
    <3>3. p + 1 \in DOMAIN keys /\ keys[p + 1] = x /\ \A j \in 1..p : c[keys[j]] = "absent"
      BY <3>1, <3>2, <1>1 DEF Reached
    <3>4. \A j \in 1..((p + 1) - 1) : c[keys[j]] = "absent" BY <3>3
    <3> QED BY <3>3, <3>4, <1>5 DEF Resolves, keys
  <2> QED BY <2>2, <2>3, <2>4, <2>5, <2>6 DEF ReadOK
<1>6. CASE c[x] = "absent"
  <2>1. next = [read EXCEPT !.left = Tail(left)] BY <1>6 DEF Fetched, x, left
  <2>2. /\ next \in Read /\ next.stage = "sop" /\ next.sop = "none" /\ next.how = read.how
        /\ next.failed = read.failed /\ next.left = Tail(left)
    BY <2>1, <1>1, <1>3 DEF Read
  <2>3. HowOf(n, next) BY <1>3, <2>2 DEF HowOf
  <2>4. FreshSoFar(next, seen) BY <2>2 DEF FreshSoFar
  <2>5. n = 1 => NoneSoFar(next, seen)
    <3>1. WasAbsent(x, seen)
      <4>1. <<t, c>>[2][x] = "absent" BY <1>6
      <4> QED BY <4>1 DEF WasAbsent
    <3> QED BY <3>1, <2>2, <1>1 DEF ReadOK, NoneSoFar, left
  <2>6. DocumentSoFar(next, first)
    <3> SUFFICES ASSUME NEW m \in first, OneMoment(first), read.how \in {"prompt", "reload"}, ~read.failed
                 PROVE  \E p \in Nat : Reached(c, Candidates(read.how), Tail(left), p)
      BY <1>4, <2>2 DEF DocumentSoFar
    <3> DEFINE keys == Candidates(read.how)
    <3>1. PICK p \in Nat : Reached(c, keys, left, p) BY <1>4 DEF ReadOK, DocumentSoFar, left
    <3>2. keys \in Seq(Extensions) /\ Len(keys) \in Nat BY KeysAreExtensions DEF Candidates
    <3> HIDE DEF keys
    <3>3. p + 1 \in 0..Len(keys) /\ Len(Tail(left)) = Len(keys) - (p + 1) /\ keys[p + 1] = x
      BY <3>1, <3>2, <1>1 DEF Reached
    <3>4. \A i \in 1..Len(Tail(left)) : Tail(left)[i] = keys[(p + 1) + i]
      <4> TAKE i \in 1..Len(Tail(left))
      <4>1. i + 1 \in 1..Len(left) /\ Tail(left)[i] = left[i + 1] /\ p + (i + 1) = (p + 1) + i BY <1>1
      <4> QED BY <4>1, <3>1 DEF Reached
    <3>5. \A j \in 1..(p + 1) : c[keys[j]] = "absent"
      <4> TAKE j \in 1..(p + 1)
      <4>1. j \in 1..p \/ j = p + 1 OBVIOUS
      <4> QED BY <4>1, <3>1, <3>3, <1>6 DEF Reached
    <3> QED BY <3>3, <3>4, <3>5 DEF Reached, keys
  <2> QED BY <2>2, <2>3, <2>4, <2>5, <2>6 DEF ReadOK
<1>7. CASE c[x] = "denied"
  <2>1. next = [read EXCEPT !.stage = "failed", !.failed = TRUE] BY <1>7 DEF Fetched, x
  <2>2. next \in Read /\ next.stage = "failed" /\ next.failed /\ next.how = read.how /\ next.sop = "none"
    BY <2>1, <1>3 DEF Read
  <2> QED BY <2>2, <1>3 DEF ReadOK, HowOf, FreshSoFar, NoneSoFar, DocumentSoFar
<1> QED BY <1>2, <1>5, <1>6, <1>7

(* There is no candidate left. *)
LEMMA ExhaustedIsOK ==
  ASSUME NEW n \in {1, 2}, NEW read \in Read, NEW first, NEW seen, ReadOK(n, read, first, seen),
         read.stage = "sop", read.left = <<>>, NEW next,
         next = [read EXCEPT !.stage = IF read.how = "prompt" THEN "contacts" ELSE "failed"]
  PROVE  next \in Read /\ ReadOK(n, next, first, seen)
<1>1. read.how \in (IF n = 1 THEN {"prompt"} ELSE {"reload", "search"}) /\ read.sop = "none"
  BY DEF ReadOK, HowOf
<1>2. /\ next \in Read /\ next.stage = IF read.how = "prompt" THEN "contacts" ELSE "failed"
      /\ next.how = read.how /\ next.sop = "none" /\ next.failed = read.failed
  BY <1>1 DEF Read
<1>3. HowOf(n, next) /\ FreshSoFar(next, seen) BY <1>1, <1>2 DEF HowOf, FreshSoFar
<1>4. n = 1 => NoneSoFar(next, seen)
  <2>1. ToSet(read.left) = {} BY DEF ToSet
  <2> QED BY <2>1, <1>2 DEF ReadOK, NoneSoFar
<1>5. DocumentSoFar(next, first)
  <2> SUFFICES ASSUME NEW m \in first, OneMoment(first), read.how \in {"prompt", "reload"}, ~read.failed
               PROVE  Resolves(m[2], Candidates(read.how), "none")
    BY <1>2 DEF DocumentSoFar
  <2> DEFINE keys == Candidates(read.how)
  <2>1. PICK p \in Nat : Reached(m[2], keys, <<>>, p) BY DEF ReadOK, DocumentSoFar
  <2>2. keys \in Seq(Extensions) BY KeysAreExtensions DEF Candidates
  <2> HIDE DEF keys
  <2>3. p = Len(keys) /\ DOMAIN keys = 1..p BY <2>1, <2>2 DEF Reached
  <2> QED BY <2>1, <2>3 DEF Reached, Resolves, keys
<1> QED BY <1>2, <1>3, <1>4, <1>5 DEF ReadOK

(* One namespace of settings is filled in. *)
FilledFrom(read, t, fails) ==
  LET now == IF read.stage = "contacts" THEN Contacts ELSE Symbols
  IN [read EXCEPT
        !.stage  = IF read.stage = "contacts" THEN "constants" ELSE "done",
        !.failed = @ \/ fails,
        !.states = [k \in Settings |->
           IF k \in now THEN Stated(k, IF fails THEN Unset ELSE t[k], read.how)
           ELSE read.states[k]]]

LEMMA FilledIsOK ==
  ASSUME NEW n \in {1, 2}, NEW read \in Read, NEW first, NEW seen, ReadOK(n, read, first, seen),
         NEW t \in [Settings -> Values \cup {Unset}], NEW c, <<t, c>> \in seen,
         read.stage \in {"contacts", "constants"}, NEW fails \in BOOLEAN,
         NEW next, next = FilledFrom(read, t, fails)
  PROVE  next \in Read /\ ReadOK(n, next, first, seen)
<1> DEFINE now == IF read.stage = "contacts" THEN Contacts ELSE Symbols
           said == [k \in Settings |->
                      IF k \in now THEN Stated(k, IF fails THEN Unset ELSE t[k], read.how)
                      ELSE read.states[k]]
<1>1. ASSUME NEW k \in Settings, NEW o \in Values \cup {Unset}, NEW how
      PROVE  Stated(k, o, how) \in Values \cup {Default, Verbatim}
  BY GuidanceAssumption DEF Stated, Settings
<1>2. said \in [Settings -> Values \cup {Default, Verbatim}]
  <2> SUFFICES ASSUME NEW k \in Settings
               PROVE  (IF k \in now THEN Stated(k, IF fails THEN Unset ELSE t[k], read.how) ELSE read.states[k])
                        \in Values \cup {Default, Verbatim}
    OBVIOUS
  <2>1. (IF fails THEN Unset ELSE t[k]) \in Values \cup {Unset} OBVIOUS
  <2>2. read.states[k] \in Values \cup {Default, Verbatim} BY DEF Read
  <2> QED BY <2>1, <2>2, <1>1
<1>3. \A k \in Settings : said[k] = IF k \in now THEN Stated(k, IF fails THEN Unset ELSE t[k], read.how)
                                    ELSE read.states[k]
  OBVIOUS
<1> HIDE DEF said
<1>4. next = [read EXCEPT !.stage = IF read.stage = "contacts" THEN "constants" ELSE "done",
                          !.failed = @ \/ fails, !.states = said]
  BY DEF said, FilledFrom
<1> HIDE DEF now
<1>5. /\ next.stage = (IF read.stage = "contacts" THEN "constants" ELSE "done") /\ next.states = said
      /\ next.how = read.how /\ next.sop = read.sop
  BY <1>4 DEF Read
<1>6. (next.failed = TRUE) <=> (read.failed = TRUE \/ fails = TRUE)
  BY <1>4 DEF Read
<1>7. next \in Read
  <2>1. (read.failed \/ fails) \in BOOLEAN OBVIOUS
  <2> QED BY <1>2, <1>4, <2>1 DEF Read
<1>8. read.failed \in BOOLEAN /\ next.failed \in BOOLEAN BY <1>7 DEF Read
<1>9. HowOf(n, next) BY <1>5 DEF ReadOK, HowOf
<1>10. ASSUME NEW k \in Settings, k \in now PROVE Fresh(next, seen, k)
  <2>1. CASE fails
    <3>1. next.states[k] = Stated(k, Unset, next.how) BY <1>3, <1>5, <1>10, <2>1
    <3> QED BY <3>1, <1>6, <2>1 DEF Fresh
  <2>2. CASE ~fails
    <3>1. next.states[k] = Stated(k, t[k], next.how) BY <1>3, <1>5, <1>10, <2>2
    <3>2. <<t, c>>[1][k] = t[k] OBVIOUS
    <3> QED BY <3>1, <3>2 DEF Fresh
  <2> QED BY <2>1, <2>2
<1>11. ASSUME NEW k \in Settings, k \notin now, Fresh(read, seen, k) PROVE Fresh(next, seen, k)
  <2>1. next.states[k] = read.states[k] BY <1>3, <1>5, <1>11
  <2>2. read.failed => next.failed BY <1>6, <1>8
  <2> QED BY <2>1, <2>2, <1>5, <1>11 DEF Fresh
<1>12. FreshSoFar(next, seen)
  <2>1. CASE read.stage = "contacts"
    <3>1. now = Contacts /\ Contacts \subseteq Settings /\ next.stage = "constants" BY <2>1, <1>5 DEF Settings, now
    <3>2. \A k \in Contacts : Fresh(next, seen, k) BY <3>1, <1>10
    <3> QED BY <3>1, <3>2 DEF FreshSoFar
  <2>2. CASE read.stage = "constants"
    <3>1. \A k \in Contacts : Fresh(read, seen, k) BY <2>2 DEF ReadOK, FreshSoFar
    <3>2. now = Symbols /\ next.stage = "done" BY <2>2, <1>5 DEF now
    <3>3. \A k \in Settings : k \in now \/ k \in Contacts BY <3>2 DEF Settings
    <3>4. \A k \in Settings : Fresh(next, seen, k) BY <3>1, <3>3, <1>10, <1>11
    <3> QED BY <3>2, <3>4 DEF FreshSoFar
  <2> QED BY <2>1, <2>2
<1>13. n = 1 => NoneSoFar(next, seen) BY <1>5 DEF ReadOK, NoneSoFar
<1>14. DocumentSoFar(next, first)
  <2>1. ~next.failed => ~read.failed BY <1>6, <1>8
  <2> QED BY <2>1, <1>5 DEF ReadOK, DocumentSoFar
<1> QED BY <1>7, <1>9, <1>12, <1>13, <1>14 DEF ReadOK

-----------------------------------------------------------------------------
(* The reads: their invariant. *)

ReadTypes ==
  /\ corpus \in Corpora
  /\ reads \in [Readers -> [{1, 2} -> Read]]
  /\ \A r \in Readers, n \in {1, 2} : IsFiniteSet(since[r][n])

(* A read that is going on has seen the present moment, and the run's first read whatever
   its second has. *)
MomentsAreSeen ==
  \A r \in Readers :
    /\ since[r][2] \subseteq since[r][1]
    /\ reads[r][2].stage # "idle" => reads[r][1].stage = "done"
    /\ \A n \in {1, 2} : /\ Reading(reads, r, n) => <<table, corpus>> \in since[r][n]
                         /\ reads[r][n].stage # "idle" => since[r][n] # {}

ReadsInv ==
  /\ ReadTypes /\ MomentsAreSeen
  /\ \A r \in Readers, n \in {1, 2} : ReadOK(n, reads[r][n], since[r][1], since[r][n])

LEMMA WhatIsSeen ==
  ASSUME ReadsInv, NEW r \in Readers, NEW n \in {1, 2}
  PROVE  /\ Reading(reads, r, n) => <<table, corpus>> \in since[r][n]
         /\ reads[r][n].stage # "idle" => since[r][n] # {}
         /\ since[r][n] \subseteq since[r][1]
<1> DEFINE Seen(k) == /\ Reading(reads, r, k) => <<table, corpus>> \in since[r][k]
                      /\ reads[r][k].stage # "idle" => since[r][k] # {}
<1>1. since[r][2] \subseteq since[r][1] /\ \A k \in {1, 2} : Seen(k) BY Zenon DEF ReadsInv, MomentsAreSeen
<1>2. Seen(n) BY <1>1
<1>3. since[r][n] \subseteq since[r][1]
  <2>1. n = 1 \/ n = 2 OBVIOUS
  <2> QED BY ONLY <1>1, <2>1
<1> QED BY ONLY <1>2, <1>3 DEF Seen

LEMMA ReadsInitially == GuidanceInit => ReadsInv
<1> SUFFICES ASSUME GuidanceInit PROVE ReadsInv OBVIOUS
<1>1. NoRead \in Read BY DEF NoRead, Read
<1>2. \A r \in Readers, n \in {1, 2} : reads[r][n] = NoRead /\ since[r][n] = {} BY DEF GuidanceInit
<1>3. reads \in [Readers -> [{1, 2} -> Read]]
  <2>1. <<NoRead, NoRead>> \in [{1, 2} -> Read]
    <3>1. <<NoRead, NoRead>> \in [1..2 -> Read] BY <1>1
    <3>2. 1..2 = {1, 2} OBVIOUS
    <3> QED BY <3>1, <3>2
  <2> QED BY <2>1 DEF GuidanceInit
<1>4. NoRead.stage = "idle" /\ NoRead.sop = "none" /\ NoRead.failed = FALSE BY DEF NoRead
<1>5. ReadTypes BY <1>2, <1>3, FS_EmptySet, GuidanceAssumption DEF GuidanceInit, ReadTypes
<1>6. MomentsAreSeen BY <1>2, <1>4 DEF MomentsAreSeen, Reading
<1>7. \A n \in {1, 2} : ReadOK(n, NoRead, {}, {})
  BY <1>4 DEF ReadOK, HowOf, FreshSoFar, NoneSoFar, DocumentSoFar
<1> QED BY <1>2, <1>5, <1>6, <1>7 DEF ReadsInv

(* What every step has to say of the reads; the moment it leads to is Witness's. *)
LEMMA SinceGrows ==
  ASSUME ReadsInv, Witness, corpus' \in Corpora,
         reads' \in [Readers -> [{1, 2} -> Read]],
         \A r \in Readers : reads'[r][2].stage # "idle" => reads'[r][1].stage = "done",
         \A r \in Readers, n \in {1, 2} : reads'[r][n].stage # "idle" =>
                                           reads[r][n].stage # "idle" \/ Reading(reads', r, n)
  PROVE  /\ ReadTypes' /\ MomentsAreSeen'
         /\ \A r \in Readers, n \in {1, 2} :
              /\ Reading(reads, r, n) => <<table', corpus'>> \in since'[r][n]
              /\ ReadOK(n, reads[r][n], since'[r][1], since'[r][n])
<1> DEFINE x == <<table', corpus'>>
<1>1. \A r \in Readers, n \in {1, 2} :
        since'[r][n] = IF Reading(reads', r, n) \/ Reading(reads, r, n) THEN since[r][n] \cup {x} ELSE since[r][n]
  BY DEF Witness
<1> HIDE DEF x
<1>2. \A r \in Readers, n \in {1, 2} : since[r][n] \subseteq since'[r][n] /\ since'[r][n] \subseteq since[r][n] \cup {x}
  BY <1>1
<1>3. ReadTypes'
  <2>1. \A r \in Readers, n \in {1, 2} : IsFiniteSet(since'[r][n])
    <3> TAKE r \in Readers, n \in {1, 2}
    <3>1. IsFiniteSet(since[r][n]) BY DEF ReadsInv, ReadTypes
    <3>2. IsFiniteSet(since[r][n] \cup {x}) BY <3>1, FS_AddElement
    <3> QED BY <3>1, <3>2, <1>1
  <2> QED BY <2>1 DEF ReadTypes
<1>4. ASSUME NEW r \in Readers PROVE since'[r][2] \subseteq since'[r][1]
  <2>1. since[r][2] \subseteq since[r][1] /\ (reads[r][2].stage # "idle" => reads[r][1].stage = "done")
    BY DEF ReadsInv, MomentsAreSeen
  <2>2. Reading(reads, r, 2) => Reading(reads, r, 1) BY <2>1 DEF Reading
  <2>3. Reading(reads', r, 2) => Reading(reads', r, 1) BY DEF Reading
  <2> QED BY <2>1, <2>2, <2>3, <1>1
<1>5. \A r \in Readers, n \in {1, 2} : (Reading(reads', r, n) \/ Reading(reads, r, n)) => x \in since'[r][n]
  BY <1>1
<1>6. \A r \in Readers, n \in {1, 2} : reads'[r][n].stage # "idle" => since'[r][n] # {}
  <2> TAKE r \in Readers, n \in {1, 2}
  <2>1. reads[r][n].stage # "idle" => since[r][n] # {} BY WhatIsSeen
  <2>2. since[r][n] \subseteq since'[r][n] BY <1>2
  <2> QED BY <2>1, <2>2, <1>5
<1>7. MomentsAreSeen'
  <2> SUFFICES ASSUME NEW r \in Readers
               PROVE  /\ since'[r][2] \subseteq since'[r][1]
                      /\ reads'[r][2].stage # "idle" => reads'[r][1].stage = "done"
                      /\ \A n \in {1, 2} : /\ Reading(reads', r, n) => <<table', corpus'>> \in since'[r][n]
                                           /\ reads'[r][n].stage # "idle" => since'[r][n] # {}
    BY DEF MomentsAreSeen, Reading
  <2> QED BY <1>4, <1>5, <1>6 DEF x
<1>8. ASSUME NEW r \in Readers, NEW n \in {1, 2} PROVE ReadOK(n, reads[r][n], since'[r][1], since'[r][n])
  <2>1. since[r][1] # {} \/ reads[r][n].stage = "idle"
    <3>1. reads[r][1].stage # "idle" => since[r][1] # {} BY WhatIsSeen
    <3>2. reads[r][2].stage # "idle" => reads[r][1].stage = "done" BY DEF ReadsInv, MomentsAreSeen
    <3> QED BY <3>1, <3>2
  <2>2. ReadOK(n, reads[r][n], since[r][1], since[r][n]) BY DEF ReadsInv
  <2>3. /\ since[r][1] \subseteq since'[r][1] /\ since'[r][1] \subseteq since[r][1] \cup {x}
        /\ since[r][n] \subseteq since'[r][n]
    BY <1>2
  <2> QED BY <2>1, <2>2, <2>3, ReadOutlasts
<1> QED BY <1>3, <1>5, <1>7, <1>8 DEF x

(* A step of one read. *)
LEMMA ReadMoves ==
  ASSUME ReadsInv, Witness, corpus' \in Corpora, NEW r \in Readers, NEW n \in {1, 2},
         NEW next \in Read, reads' = [reads EXCEPT ![r][n] = next],
         n = 2 => reads[r][1].stage = "done", n = 1 => reads[r][1].stage # "done",
         next.stage # "idle",
         reads[r][n].stage # "idle" \/ next.stage \notin {"done", "failed"},
         ReadOK(n, reads[r][n], since'[r][1], since'[r][n])
           /\ since'[r][2] \subseteq since'[r][1]
           /\ (reads[r][n].stage \notin {"idle", "done", "failed"} => <<table', corpus'>> \in since'[r][n])
           => ReadOK(n, next, since'[r][1], since'[r][n])
  PROVE  ReadsInv'
<1>1. reads \in [Readers -> [{1, 2} -> Read]] BY DEF ReadsInv, ReadTypes
<1>2. /\ reads' \in [Readers -> [{1, 2} -> Read]] /\ reads'[r][n] = next
      /\ \A q \in Readers, k \in {1, 2} : <<q, k>> # <<r, n>> => reads'[q][k] = reads[q][k]
  BY <1>1
<1>3. \A q \in Readers : reads'[q][2].stage # "idle" => reads'[q][1].stage = "done"
  <2> TAKE q \in Readers
  <2>1. reads[q][2].stage # "idle" => reads[q][1].stage = "done" BY DEF ReadsInv, MomentsAreSeen
  <2>2. CASE q # r BY <2>1, <2>2, <1>2
  <2>3. CASE q = r /\ n = 1 BY <2>1, <2>3, <1>2
  <2>4. CASE q = r /\ n = 2 BY <2>4, <1>2
  <2> QED BY <2>2, <2>3, <2>4
<1>4. \A q \in Readers, k \in {1, 2} : reads'[q][k].stage # "idle" =>
                                       reads[q][k].stage # "idle" \/ Reading(reads', q, k)
  <2> SUFFICES ASSUME NEW q \in Readers, NEW k \in {1, 2}, reads'[q][k].stage # "idle", reads[q][k].stage = "idle"
               PROVE  Reading(reads', q, k)
    OBVIOUS
  <2>1. q = r /\ k = n BY <1>2
  <2>2. CASE n = 2 BY <2>1, <2>2, <1>2 DEF Reading
  <2>3. CASE n = 1
    <3>1. reads'[r][2] = reads[r][2] BY <2>3, <1>2
    <3>2. reads[r][2].stage = "idle" BY <2>3 DEF ReadsInv, MomentsAreSeen
    <3> QED BY <2>1, <2>3, <3>1, <3>2, <1>2 DEF Reading
  <2> QED BY <2>2, <2>3
<1>5. /\ ReadTypes' /\ MomentsAreSeen'
      /\ \A q \in Readers, k \in {1, 2} :
           /\ Reading(reads, q, k) => <<table', corpus'>> \in since'[q][k]
           /\ ReadOK(k, reads[q][k], since'[q][1], since'[q][k])
  BY <1>2, <1>3, <1>4, SinceGrows
<1>6. reads[r][n].stage \notin {"idle", "done", "failed"} => Reading(reads, r, n)
  <2>1. n = 1 => reads[r][2].stage = "idle" BY DEF ReadsInv, MomentsAreSeen
  <2> QED BY <2>1 DEF Reading
<1>7. since'[r][2] \subseteq since'[r][1] BY <1>5 DEF MomentsAreSeen
<1>8. ReadOK(n, next, since'[r][1], since'[r][n]) BY <1>5, <1>6, <1>7
<1>9. \A q \in Readers, k \in {1, 2} : ReadOK(k, reads'[q][k], since'[q][1], since'[q][k])
  BY <1>2, <1>5, <1>8
<1> QED BY <1>5, <1>9 DEF ReadsInv, ReadOK, HowOf, FreshSoFar, Fresh, NoneSoFar, WasAbsent, DocumentSoFar

LEMMA ReadsInductive == ReadsInv /\ EditsInv /\ EditsInv' /\ [GuidanceNext]_gvars => ReadsInv'
<1> SUFFICES ASSUME ReadsInv, EditsInv, EditsInv', [GuidanceNext]_gvars PROVE ReadsInv' OBVIOUS
<1>1. /\ corpus \in Corpora /\ reads \in [Readers -> [{1, 2} -> Read]]
      /\ table \in [Settings -> Values \cup {Unset}]
      /\ \A r \in Readers, n \in {1, 2} : reads[r][n] \in Read
      /\ \A r \in Readers : reads[r][2].stage # "idle" => reads[r][1].stage = "done"
  BY DEF ReadsInv, ReadTypes, MomentsAreSeen, EditsInv, EditTypes
<1>2. ASSUME UNCHANGED reads, corpus' \in Corpora, Witness PROVE ReadsInv'
  <2>1. \A r \in Readers, n \in {1, 2} : reads'[r][n].stage # "idle" =>
                                          reads[r][n].stage # "idle" \/ Reading(reads', r, n)
    BY <1>2
  <2>2. /\ ReadTypes' /\ MomentsAreSeen'
        /\ \A r \in Readers, n \in {1, 2} : ReadOK(n, reads[r][n], since'[r][1], since'[r][n])
    BY <1>1, <1>2, <2>1, SinceGrows
  <2>3. \A r \in Readers, n \in {1, 2} : ReadOK(n, reads'[r][n], since'[r][1], since'[r][n])
    BY <1>2, <2>2
  <2> QED BY <2>2, <2>3 DEF ReadsInv, ReadOK, HowOf, FreshSoFar, Fresh, NoneSoFar, WasAbsent, DocumentSoFar
<1>3. ASSUME NEW e \in Editors, NEW body \in Bodies, PutConfig(e, body) PROVE ReadsInv'
  <2>1. UNCHANGED reads /\ corpus' = corpus /\ Witness BY <1>3 DEF PutConfig
  <2> QED BY <1>1, <1>2, <2>1
<1>4. ASSUME NEW e \in Editors, WriteOne(e) PROVE ReadsInv'
  <2>1. UNCHANGED reads /\ corpus' = corpus /\ Witness BY <1>4 DEF WriteOne
  <2> QED BY <1>1, <1>2, <2>1
<1>5. ASSUME NEW c \in Corpora, Publish(c) PROVE ReadsInv'
  <2>1. UNCHANGED reads /\ corpus' = c /\ Witness BY <1>5 DEF Publish
  <2> QED BY <1>1, <1>2, <2>1
<1>6. ASSUME NEW r \in Readers, NEW n \in {1, 2}, NEW how, Begin(r, n, how) PROVE ReadsInv'
  <2> DEFINE read == reads[r][n]
  <2>1. PICK next : next = Begun(read, how) OBVIOUS
  <2>2. /\ read \in Read /\ read.stage = "idle" /\ (n = 1 => how = "prompt")
        /\ (n = 2 => how \in {"reload", "search"} /\ reads[r][1].stage = "done")
        /\ corpus' = corpus /\ Witness
    BY <1>1, <1>6 DEF Begin
  <2>3. reads' = [reads EXCEPT ![r][n] = next]
    <3>1. reads' = [reads EXCEPT ![r][n] = Begun(@, how)] BY <1>6 DEF Begin, Begun
    <3> QED BY <3>1, <2>1, <1>1
  <2>4. ASSUME NEW first, NEW seen, ReadOK(n, read, first, seen) PROVE next \in Read /\ ReadOK(n, next, first, seen)
    <3> HIDE DEF read
    <3> QED BY ONLY <2>1, <2>2, <2>4, BegunIsOK, n \in {1, 2}
  <2>5. next.stage = IF how = "search" THEN "contacts" ELSE "sop" BY <2>1, <2>2 DEF Read, Begun
  <2>6. next \in Read BY <2>4 DEF ReadsInv
  <2> QED BY <1>1, <2>2, <2>3, <2>4, <2>5, <2>6, ReadMoves
<1>7. ASSUME NEW r \in Readers, NEW n \in {1, 2}, Fetch(r, n) PROVE ReadsInv'
  <2> DEFINE read == reads[r][n]
  <2>1. PICK next : next = Fetched(read, corpus[Head(read.left)]) OBVIOUS
  <2>2. /\ read \in Read /\ read.stage = "sop" /\ read.left # <<>> /\ reads' = [reads EXCEPT ![r][n] = next]
        /\ table' = table /\ corpus' = corpus /\ Witness
    BY <1>1, <1>7, <2>1 DEF Fetch
  <2>3. ASSUME NEW first, NEW seen, seen \subseteq first, <<table, corpus>> \in seen, ReadOK(n, read, first, seen)
        PROVE  next \in Read /\ ReadOK(n, next, first, seen)
    BY <1>1, <2>1, <2>2, <2>3, FetchedIsOK
  <2>4. Reading(reads, r, n) /\ since[r][n] \subseteq since[r][1] /\ <<table, corpus>> \in since[r][n]
    <3>1. reads[r][2].stage \notin {"done", "failed"} BY <1>1, <2>2
    <3>2. Reading(reads, r, n) BY <2>2, <3>1 DEF Reading
    <3> QED BY <3>2, WhatIsSeen
  <2>5. next \in Read BY <2>3, <2>4 DEF ReadsInv
  <2>6. next.stage # "idle"
    <3>1. Head(read.left) \in Extensions BY <2>2 DEF Read
    <3>2. corpus[Head(read.left)] \in {"absent", "empty", "rule", "denied"}
      BY <3>1, <1>1, GuidanceAssumption DEF Extensions
    <3> QED BY <3>2, <2>1, <2>2 DEF Fetched, Read
  <2>7. (n = 2 => reads[r][1].stage = "done") /\ (n = 1 => reads[r][1].stage # "done") BY <1>1, <2>2
  <2>8. ReadOK(n, read, since'[r][1], since'[r][n]) /\ since'[r][2] \subseteq since'[r][1]
          /\ (read.stage \notin {"idle", "done", "failed"} => <<table', corpus'>> \in since'[r][n])
          => ReadOK(n, next, since'[r][1], since'[r][n])
    <3> SUFFICES ASSUME ReadOK(n, read, since'[r][1], since'[r][n]), since'[r][2] \subseteq since'[r][1],
                        <<table', corpus'>> \in since'[r][n]
                 PROVE  ReadOK(n, next, since'[r][1], since'[r][n])
      BY <2>2
    <3>1. since'[r][n] \subseteq since'[r][1] OBVIOUS
    <3>2. <<table, corpus>> \in since'[r][n] BY <2>2
    <3> QED BY <3>1, <3>2, <2>3
  <2> HIDE DEF read
  <2>9. reads[r][n] = read /\ corpus' \in Corpora BY <1>1, <2>2 DEF read
  <2> QED BY <2>2, <2>5, <2>6, <2>7, <2>8, <2>9, ReadMoves
<1>8. ASSUME NEW r \in Readers, NEW n \in {1, 2}, NoCandidate(r, n) PROVE ReadsInv'
  <2> DEFINE read == reads[r][n]
  <2>1. PICK next : next = [read EXCEPT !.stage = IF read.how = "prompt" THEN "contacts" ELSE "failed"] OBVIOUS
  <2>2. /\ read \in Read /\ read.stage = "sop" /\ read.left = <<>> /\ corpus' = corpus /\ Witness
    BY <1>1, <1>8 DEF NoCandidate
  <2>3. reads' = [reads EXCEPT ![r][n] = next]
    <3>1. reads' = [reads EXCEPT ![r][n].stage = IF reads[r][n].how = "prompt" THEN "contacts" ELSE "failed"]
      BY <1>8 DEF NoCandidate
    <3> QED BY <3>1, <2>1, <1>1
  <2>4. ASSUME NEW first, NEW seen, ReadOK(n, read, first, seen) PROVE next \in Read /\ ReadOK(n, next, first, seen)
    BY <2>1, <2>2, <2>4, ExhaustedIsOK
  <2>5. next \in Read BY <2>4 DEF ReadsInv
  <2>6. next.stage \in {"contacts", "failed"} BY <2>1, <2>2 DEF Read
  <2>7. (n = 2 => reads[r][1].stage = "done") /\ (n = 1 => reads[r][1].stage # "done") BY <1>1, <2>2
  <2> QED BY <1>1, <2>2, <2>3, <2>4, <2>5, <2>6, <2>7, ReadMoves
<1>9. ASSUME NEW r \in Readers, NEW n \in {1, 2}, Substitute(r, n) PROVE ReadsInv'
  <2> DEFINE read == reads[r][n]
  <2>1. PICK fails \in BOOLEAN : reads' = [reads EXCEPT ![r][n] = FilledFrom(read, table, fails)]
    BY <1>9 DEF Substitute, FilledFrom, Query
  <2>3. PICK next : next = FilledFrom(read, table, fails) OBVIOUS
  <2>4. /\ read \in Read /\ read.stage \in {"contacts", "constants"} /\ reads' = [reads EXCEPT ![r][n] = next]
        /\ table' = table /\ corpus' = corpus /\ Witness
    BY <1>1, <1>9, <2>1, <2>3 DEF Substitute
  <2>5. ASSUME NEW first, NEW seen, <<table, corpus>> \in seen, ReadOK(n, read, first, seen)
        PROVE  next \in Read /\ ReadOK(n, next, first, seen)
    <3> HIDE DEF read
    <3> QED BY ONLY <1>1, <2>1, <2>3, <2>4, <2>5, FilledIsOK, n \in {1, 2}, fails \in BOOLEAN
  <2>6. <<table, corpus>> \in since[r][n]
    <3>1. reads[r][2].stage \notin {"done", "failed"} BY <1>1, <2>4
    <3>2. Reading(reads, r, n) BY <2>4, <3>1 DEF Reading
    <3> QED BY <3>2, WhatIsSeen
  <2>7. next \in Read BY <2>5, <2>6 DEF ReadsInv
  <2>8. next.stage \in {"constants", "done"} BY <2>3, <2>4 DEF Read, FilledFrom
  <2>9. (n = 2 => reads[r][1].stage = "done") /\ (n = 1 => reads[r][1].stage # "done") BY <1>1, <2>4
  <2>10. ReadOK(n, read, since'[r][1], since'[r][n])
           /\ (read.stage \notin {"idle", "done", "failed"} => <<table', corpus'>> \in since'[r][n])
           => ReadOK(n, next, since'[r][1], since'[r][n])
    <3> SUFFICES ASSUME ReadOK(n, read, since'[r][1], since'[r][n]), <<table', corpus'>> \in since'[r][n]
                 PROVE  ReadOK(n, next, since'[r][1], since'[r][n])
      BY <2>4
    <3>1. <<table, corpus>> \in since'[r][n] BY <2>4
    <3> QED BY <3>1, <2>5
  <2> HIDE DEF read
  <2>11. reads[r][n] = read /\ corpus' \in Corpora BY <1>1, <2>4 DEF read
  <2> QED BY <2>4, <2>7, <2>8, <2>9, <2>10, <2>11, ReadMoves
<1>10. CASE UNCHANGED gvars
  <2>1. UNCHANGED <<table, corpus, reads, since>> BY <1>10 DEF gvars
  <2>2. ReadTypes' /\ MomentsAreSeen'
    BY <2>1 DEF ReadsInv, ReadTypes, MomentsAreSeen, Reading
  <2>3. \A r \in Readers, n \in {1, 2} : ReadOK(n, reads'[r][n], since'[r][1], since'[r][n])
    BY <2>1 DEF ReadsInv
  <2> QED BY <2>2, <2>3 DEF ReadsInv, ReadOK, HowOf, FreshSoFar, Fresh, NoneSoFar, WasAbsent, DocumentSoFar
<1> QED BY <1>3, <1>4, <1>5, <1>6, <1>7, <1>8, <1>9, <1>10 DEF GuidanceNext

(* Whatever is edited, published or fails while runs read, each read states what it saw
   (skill_router.py, knowledge_base_lambda.py, config_overrides.py). *)
THEOREM ReadsInvariant == GuidanceSpec => []ReadsInv
BY ReadsInitially, ReadsInductive, EditsInvariant, PTL DEF GuidanceSpec

(* Every value of a finished read was in force at some moment since it began. *)
THEOREM GuidanceReadsAreFresh == GuidanceSpec => []ReadsAreFresh
<1>1. ReadsInv => ReadsAreFresh
  BY DEF ReadsInv, ReadOK, FreshSoFar, Fresh, ReadsAreFresh
<1> QED BY <1>1, ReadsInvariant, PTL

(* A run works without a SOP only if there was none to read. *)
THEOREM GuidanceNoSopMeansNone == GuidanceSpec => []NoSopMeansNone
<1>1. ReadsInv => NoSopMeansNone
  <2> SUFFICES ASSUME ReadsInv, NEW r \in Readers, reads[r][1].stage = "done", reads[r][1].sop # "rule"
               PROVE  IF reads[r][1].sop = "empty"
                      THEN \E m \in since[r][1], x \in Extensions : m[2][x] = "empty"
                      ELSE \A x \in Extensions : \E m \in since[r][1] : m[2][x] = "absent"
    BY DEF NoSopMeansNone
  <2>1. reads[r][1] \in Read BY DEF ReadsInv, ReadTypes
  <2>2. NoneSoFar(reads[r][1], since[r][1]) BY DEF ReadsInv, ReadOK
  <2> QED BY <2>1, <2>2 DEF Read, NoneSoFar, WasAbsent
<1> QED BY <1>1, ReadsInvariant, PTL

(* What two candidates, and three, resolve to. *)
Says(a, b, d) == \/ d \in {"rule", "empty"} /\ (a = d \/ (a = "absent" /\ b = d))
                 \/ d = "none" /\ a = "absent" /\ b = "absent"

LEMMA TwoCandidates ==
  ASSUME NEW c, NEW x, NEW y, NEW d, Resolves(c, <<x, y>>, d)
  PROVE  Says(c[x], c[y], d)
<1> DEFINE keys == <<x, y>>
<1>1. DOMAIN keys = 1..2 /\ keys[1] = x /\ keys[2] = y OBVIOUS
<1> HIDE DEF keys
<1>2. CASE d = "none" /\ \A i \in DOMAIN keys : c[keys[i]] = "absent"
  <2>1. 1 \in DOMAIN keys /\ 2 \in DOMAIN keys BY <1>1
  <2> QED BY <2>1, <1>1, <1>2 DEF Says
<1>3. ASSUME d \in {"rule", "empty"}, NEW i \in DOMAIN keys, c[keys[i]] = d,
             \A j \in 1..(i - 1) : c[keys[j]] = "absent"
      PROVE  Says(c[x], c[y], d)
  <2>1. i = 1 \/ (i = 2 /\ 1 \in 1..(i - 1)) BY <1>1
  <2> QED BY <2>1, <1>1, <1>3 DEF Says
<1> QED BY <1>2, <1>3 DEF Resolves, keys

LEMMA ThreeCandidates ==
  ASSUME NEW c, NEW x, NEW y, NEW z, NEW d, Resolves(c, <<x, y, z>>, d)
  PROVE  \/ d # "none" /\ Says(c[x], c[y], d)
         \/ c[x] = "absent" /\ c[y] = "absent" /\ Says(c[y], c[z], d)
<1> DEFINE keys == <<x, y, z>>
<1>1. DOMAIN keys = 1..3 /\ keys[1] = x /\ keys[2] = y /\ keys[3] = z OBVIOUS
<1> HIDE DEF keys
<1>2. CASE d = "none" /\ \A i \in DOMAIN keys : c[keys[i]] = "absent"
  <2>1. 1 \in DOMAIN keys /\ 2 \in DOMAIN keys BY <1>1
  <2> QED BY <2>1, <1>1, <1>2 DEF Says
<1>3. ASSUME d \in {"rule", "empty"}, NEW i \in DOMAIN keys, c[keys[i]] = d,
             \A j \in 1..(i - 1) : c[keys[j]] = "absent"
      PROVE  \/ d # "none" /\ Says(c[x], c[y], d)
             \/ c[x] = "absent" /\ c[y] = "absent" /\ Says(c[y], c[z], d)
  <2>1. i = 1 \/ (i = 2 /\ 1 \in 1..(i - 1)) \/ (i = 3 /\ 1 \in 1..(i - 1) /\ 2 \in 1..(i - 1)) BY <1>1
  <2> QED BY <2>1, <1>1, <1>3 DEF Says
<1> QED BY <1>2, <1>3 DEF Resolves, keys

(* Without a PDF, the prompt's candidates and the tool's resolve to the same document. *)
LEMMA SameDocument ==
  ASSUME NEW c, c["pdf"] = "absent", NEW d, NEW e,
         Resolves(c, SopKeyCandidates, d), Resolves(c, SopKeys, e)
  PROVE  d = e
<1>1. CASE Key = "pdf"
  <2>1. SopKeyCandidates = <<"pdf", "txt", "md">> /\ SopKeys = <<"txt", "md">>
    BY <1>1 DEF SopKeyCandidates, Alternates, SopKeys
  <2> QED BY <2>1, ThreeCandidates, TwoCandidates DEF Says
<1>2. CASE Key = "txt"
  <2>1. SopKeyCandidates = <<"txt", "pdf", "md">> /\ SopKeys = <<"txt", "txt", "md">>
    BY <1>2 DEF SopKeyCandidates, Alternates, SopKeys
  <2> QED BY <2>1, ThreeCandidates DEF Says
<1>3. CASE Key = "md"
  <2>1. SopKeyCandidates = <<"md", "txt", "pdf">> /\ SopKeys = <<"md", "txt", "md">>
    BY <1>3 DEF SopKeyCandidates, Alternates, SopKeys
  <2> QED BY <2>1, ThreeCandidates DEF Says
<1> QED BY <1>1, <1>2, <1>3, GuidanceAssumption

(* A reload in an undisturbed run returns the document and the values of its prompt. *)
THEOREM GuidanceReloadAgrees == GuidanceSpec => []ReloadAgrees
<1>1. ReadsInv => ReloadAgrees
  <2> SUFFICES ASSUME ReadsInv, NEW r \in Readers,
                      reads[r][2].how = "reload", reads[r][2].stage \in {"done", "failed"},
                      Cardinality(since[r][1]) = 1, ~reads[r][1].failed, ~reads[r][2].failed,
                      \A m \in since[r][1] : m[2].pdf = "absent"
               PROVE  /\ reads[r][2].sop = reads[r][1].sop
                      /\ reads[r][2].stage = "done" => reads[r][2].states = reads[r][1].states
    BY DEF ReloadAgrees
  <2>1. IsFiniteSet(since[r][1]) /\ since[r][2] \subseteq since[r][1] BY DEF ReadsInv, ReadTypes, MomentsAreSeen
  <2>2. PICK m : since[r][1] = {m}
    <3> HIDE DEF ReadsInv
    <3> QED BY <2>1, FS_Singleton
  <2>3. OneMoment(since[r][1]) /\ m[2]["pdf"] = "absent" BY <2>2 DEF OneMoment
  <2>4. /\ reads[r][1] \in Read /\ reads[r][2] \in Read /\ reads[r][1].stage = "done"
        /\ ReadOK(1, reads[r][1], since[r][1], since[r][1])
        /\ ReadOK(2, reads[r][2], since[r][1], since[r][2])
    BY DEF ReadsInv, ReadTypes, MomentsAreSeen
  <2>5. reads[r][1].how = "prompt" BY <2>4 DEF ReadOK, HowOf
  <2>6. Resolves(m[2], SopKeyCandidates, reads[r][1].sop)
    BY <2>2, <2>3, <2>4, <2>5 DEF ReadOK, DocumentSoFar, Candidates
  <2>7. Resolves(m[2], SopKeys, reads[r][2].sop)
    BY <2>2, <2>3, <2>4 DEF ReadOK, DocumentSoFar, Candidates
  <2>8. reads[r][2].sop = reads[r][1].sop BY <2>3, <2>6, <2>7, SameDocument
  <2>9. ASSUME reads[r][2].stage = "done", NEW k \in Settings
        PROVE  reads[r][2].states[k] = reads[r][1].states[k]
    <3>1. reads[r][1].states[k] = Stated(k, m[1][k], "prompt")
      BY <2>2, <2>4, <2>5 DEF ReadOK, FreshSoFar, Fresh
    <3>2. reads[r][2].states[k] = Stated(k, m[1][k], "reload")
      BY <2>1, <2>2, <2>4, <2>9 DEF ReadOK, FreshSoFar, Fresh
    <3> QED BY <3>1, <3>2 DEF Stated
  <2>10. /\ reads[r][1].states \in [Settings -> Values \cup {Default, Verbatim}]
         /\ reads[r][2].states \in [Settings -> Values \cup {Default, Verbatim}]
    BY <2>4 DEF Read
  <2> QED BY <2>8, <2>9, <2>10
<1> QED BY <1>1, ReadsInvariant, PTL
-----------------------------------------------------------------------------
(* Vendor risk. The query's rounds are the simple chains of the graph, hop by hop; the
   traversal's queue holds chains one after the other by length. *)

Root == <<Supplier>>

(* A simple chain of n vendors from the one asked about. *)
Chain(p, n) ==
  /\ p \in Seq(Vendors) /\ Len(p) = n /\ p[1] = Supplier
  /\ \A i \in 1..(n - 1) : <<p[i], p[i + 1]>> \in edges
  /\ \A i, j \in 1..n : p[i] = p[j] => i = j

LEMMA LeastOf ==
  ASSUME NEW S \in SUBSET Nat, S # {}
  PROVE  \E m \in S : \A k \in S : m <= k
<1> DEFINE T == {1..n : n \in S}
<1>1. IsWellFoundedOn(StrictSubsetOrdering(Nat), FiniteSubsetsOf(Nat))
  BY FS_StrictSubsetOrderingWellFounded
<1>2. T \subseteq FiniteSubsetsOf(Nat) /\ T # {}
  <2>1. \A n \in S : IsFiniteSet(1..n) BY FS_Interval
  <2>2. ASSUME NEW x \in T PROVE x \subseteq Nat /\ IsFiniteSet(x) BY <2>1
  <2> QED BY <2>2 DEF FiniteSubsetsOf
<1>3. PICK x \in T : \A y \in T : ~ (<<y, x>> \in StrictSubsetOrdering(Nat))
  <2> HIDE DEF T
  <2> QED BY <1>1, <1>2, WFMin
<1>4. PICK m \in S : x = 1..m BY <1>3
<1>5. ASSUME NEW k \in S, k < m PROVE FALSE
  <2>1. 1..k \subseteq 1..m /\ m \in 1..m /\ m \notin 1..k BY <1>5
  <2>2. <<1..k, 1..m>> \in StrictSubsetOrdering(Nat) BY <2>1 DEF StrictSubsetOrdering
  <2> QED BY <1>3, <1>4, <2>2
<1> QED BY <1>5

(* A chain is made longer by an edge from its end to a vendor that is not on it. *)
LEMMA ChainGrows ==
  ASSUME NEW n \in Nat, NEW p, Chain(p, n), n > 0,
         NEW v \in Vendors, <<Last(p), v>> \in edges, v \notin ToSet(p)
  PROVE  Chain(Append(p, v), n + 1)
<1>1. p \in Seq(Vendors) /\ Len(p) = n BY DEF Chain
<1>2. PICK q : q = Append(p, v) OBVIOUS
<1>3. /\ q \in Seq(Vendors) /\ Len(q) = n + 1 /\ q[n + 1] = v
      /\ \A i \in 1..n : q[i] = p[i]
  BY <1>1, <1>2
<1>4. q[1] = Supplier BY <1>3 DEF Chain
<1>5. ASSUME NEW i \in 1..n PROVE <<q[i], q[i + 1]>> \in edges
  <2>1. CASE i = n BY <1>1, <1>3, <2>1 DEF Last
  <2>2. CASE i # n
    <3>1. i \in 1..(n - 1) /\ i + 1 \in 1..n BY <2>2
    <3> QED BY <1>3, <3>1 DEF Chain
  <2> QED BY <2>1, <2>2
<1>6. ASSUME NEW i \in 1..n PROVE q[i] # v
  <2>1. i \in DOMAIN p BY <1>1
  <2> QED BY <1>3, <2>1 DEF ToSet
<1>7. ASSUME NEW i \in 1..(n + 1), NEW j \in 1..(n + 1), q[i] = q[j] PROVE i = j
  <2>1. CASE i \in 1..n /\ j \in 1..n BY <1>3, <1>7, <2>1 DEF Chain
  <2>2. CASE i = n + 1 /\ j \in 1..n BY <1>3, <1>6, <1>7, <2>2
  <2>3. CASE i \in 1..n /\ j = n + 1 BY <1>3, <1>6, <1>7, <2>3
  <2>4. CASE i = n + 1 /\ j = n + 1 BY <2>4
  <2> QED BY <2>1, <2>2, <2>3, <2>4
<1> QED BY <1>2, <1>3, <1>4, <1>5, <1>7 DEF Chain

(* A chain of more than one vendor is a shorter one and an edge. *)
LEMMA ChainShrinks ==
  ASSUME NEW n \in Nat, n > 0, NEW q, Chain(q, n + 1)
  PROVE  \E p : /\ Chain(p, n) /\ q = Append(p, q[n + 1])
                /\ q[n + 1] \in Vendors /\ Last(q) = q[n + 1]
                /\ <<Last(p), q[n + 1]>> \in edges /\ q[n + 1] \notin ToSet(p)
<1>1. q \in Seq(Vendors) /\ Len(q) = n + 1 BY DEF Chain
<1>2. PICK p : p = SubSeq(q, 1, n) OBVIOUS
<1>3. p \in Seq(Vendors) /\ Len(p) = n /\ \A i \in 1..n : p[i] = q[i]
  BY <1>1, <1>2
<1>4. q = Append(p, q[n + 1])
  <2>1. Append(p, q[n + 1]) \in Seq(Vendors) /\ Len(Append(p, q[n + 1])) = n + 1 BY <1>1, <1>3
  <2>2. \A i \in 1..(n + 1) : Append(p, q[n + 1])[i] = q[i] BY <1>1, <1>3
  <2> QED BY <1>1, <2>1, <2>2, SeqEqual
<1>5. Last(p) = q[n] /\ Last(q) = q[n + 1] BY <1>1, <1>3 DEF Last
<1>6. <<q[n], q[n + 1]>> \in edges BY DEF Chain
<1>7. q[n + 1] \notin ToSet(p)
  <2> SUFFICES ASSUME NEW i \in 1..n, p[i] = q[n + 1] PROVE FALSE BY <1>3 DEF ToSet
  <2>1. i \in 1..(n + 1) /\ n + 1 \in 1..(n + 1) /\ q[i] = q[n + 1] BY <1>3
  <2> QED BY <2>1 DEF Chain
<1>8. Chain(p, n)
  <2>1. p[1] = Supplier BY <1>3 DEF Chain
  <2>2. ASSUME NEW i \in 1..(n - 1) PROVE <<p[i], p[i + 1]>> \in edges
    <3>1. i \in 1..n /\ i + 1 \in 1..n BY <2>2
    <3> QED BY <1>3, <3>1 DEF Chain
  <2>3. \A i, j \in 1..n : p[i] = p[j] => i = j BY <1>3 DEF Chain
  <2> QED BY <1>3, <2>1, <2>2, <2>3 DEF Chain
<1>9. q[n + 1] \in Vendors BY <1>1
<1>10. /\ Chain(p, n) /\ q = Append(p, q[n + 1])
       /\ q[n + 1] \in Vendors /\ Last(q) = q[n + 1]
       /\ <<Last(p), q[n + 1]>> \in edges /\ q[n + 1] \notin ToSet(p)
  BY ONLY <1>4, <1>5, <1>6, <1>7, <1>8, <1>9
<1> QED BY ONLY <1>10

(* What the recursion of Ring yields, round by round. *)
Rounds(ring) == ring = [d \in 0..MaxDepth |-> IF d = 0 THEN {<<Supplier>>} ELSE Longer(ring[d - 1])]

LEMMA ChainsGrow ==
  ASSUME edges \subseteq Vendors \X Vendors, NEW n \in Nat, n > 0
  PROVE  Longer({p \in Seq(Vendors) : Chain(p, n)}) = {p \in Seq(Vendors) : Chain(p, n + 1)}
<1> DEFINE C == {p \in Seq(Vendors) : Chain(p, n)}
<1>1. ASSUME NEW q \in Longer(C) PROVE q \in Seq(Vendors) /\ Chain(q, n + 1)
  <2>1. PICK j \in C \X edges : /\ Last(j[1]) = j[2][1] /\ j[2][2] \notin ToSet(j[1])
                                /\ q = Append(j[1], j[2][2])
    BY <1>1 DEF Longer
  <2>2. PICK p \in C, e \in edges : j = <<p, e>> BY <2>1
  <2>3. /\ Chain(p, n) /\ e[2] \in Vendors /\ e = <<e[1], e[2]>>
        /\ Last(p) = e[1] /\ e[2] \notin ToSet(p) /\ q = Append(p, e[2])
    BY <2>1, <2>2
  <2>4. <<Last(p), e[2]>> \in edges BY <2>3
  <2>5. Chain(q, n + 1) BY <2>3, <2>4, ChainGrows
  <2> QED BY <2>5 DEF Chain
<1>2. ASSUME NEW q \in Seq(Vendors), Chain(q, n + 1) PROVE q \in Longer(C)
  <2>1. PICK p : /\ Chain(p, n) /\ q = Append(p, q[n + 1])
                 /\ <<Last(p), q[n + 1]>> \in edges /\ q[n + 1] \notin ToSet(p)
    BY <1>2, ChainShrinks
  <2>2. PICK v : v = q[n + 1] OBVIOUS
  <2>3. p \in C BY <2>1 DEF Chain
  <2>4. PICK j : j = <<p, <<Last(p), v>>>> OBVIOUS
  <2>5. /\ j \in C \X edges /\ j[1] = p /\ j[2][1] = Last(p) /\ j[2][2] = v
    BY <2>1, <2>2, <2>3, <2>4
  <2>6. q = Append(j[1], j[2][2]) /\ Last(j[1]) = j[2][1] /\ j[2][2] \notin ToSet(j[1])
    BY <2>1, <2>2, <2>5
  <2> HIDE DEF C
  <2> QED BY <2>5, <2>6 DEF Longer
<1> QED BY <1>1, <1>2

LEMMA FirstRound ==
  {p \in Seq(Vendors) : Chain(p, 1)} = {<<Supplier>>}
<1>1. ASSUME NEW p \in Seq(Vendors), Chain(p, 1) PROVE p = <<Supplier>>
  <2>1. Len(p) = 1 /\ p[1] = Supplier BY <1>1 DEF Chain
  <2>2. <<Supplier>> \in Seq(Vendors) /\ Len(<<Supplier>>) = 1 BY VendorAssumption
  <2> QED BY <2>1, <2>2, SeqEqual
<1>2. <<Supplier>> \in Seq(Vendors) /\ Chain(<<Supplier>>, 1)
  BY VendorAssumption DEF Chain
<1> QED BY <1>1, <1>2

LEMMA RoundsAreChains ==
  ASSUME edges \subseteq Vendors \X Vendors, NEW ring, Rounds(ring)
  PROVE  \A d \in 0..MaxDepth : ring[d] = {p \in Seq(Vendors) : Chain(p, d + 1)}
<1> DEFINE C(n) == {p \in Seq(Vendors) : Chain(p, n)}
           Bad == {d \in 0..MaxDepth : ring[d] # C(d + 1)}
<1>1. ring[0] = {<<Supplier>>} /\ \A d \in 1..MaxDepth : ring[d] = Longer(ring[d - 1])
  <2>1. /\ 0 \in 0..MaxDepth
        /\ \A d \in 1..MaxDepth : d \in 0..MaxDepth /\ d # 0
    BY VendorAssumption
  <2>2. \A d \in 0..MaxDepth : ring[d] = IF d = 0 THEN {<<Supplier>>} ELSE Longer(ring[d - 1])
    BY DEF Rounds
  <2>3. ring[0] = {<<Supplier>>} BY <2>1, <2>2
  <2>4. \A d \in 1..MaxDepth : ring[d] = Longer(ring[d - 1]) BY <2>1, <2>2
  <2> QED BY <2>3, <2>4
<1>2. C(1) = {<<Supplier>>} BY FirstRound
<1>3. \A n \in Nat : n > 0 => Longer(C(n)) = C(n + 1) BY ChainsGrow
<1> HIDE DEF C
<1>4. SUFFICES ASSUME Bad # {} PROVE FALSE BY DEF C
<1>5. Bad \in SUBSET Nat BY VendorAssumption
<1>6. PICK d \in Bad : \A k \in Bad : d <= k
  <2> HIDE DEF Bad
  <2> QED BY <1>4, <1>5, LeastOf
<1>7. d \in 0..MaxDepth /\ ring[d] # C(d + 1) BY <1>6
<1>8. d # 0
  <2> SUFFICES ASSUME d = 0 PROVE FALSE OBVIOUS
  <2>1. d + 1 = 1 OBVIOUS
  <2>2. ring[d] = C(1) BY <1>1, <1>2
  <2> QED BY <1>7, <2>1, <2>2
<1>9. d \in 1..MaxDepth /\ d - 1 \in 0..MaxDepth /\ (d - 1) + 1 = d /\ d \in Nat /\ d > 0
  BY <1>7, <1>8, VendorAssumption
<1>10. ring[d - 1] = C(d)
  <2>1. d - 1 \notin Bad BY <1>6, <1>9
  <2> QED BY <1>9, <2>1
<1> QED BY <1>1, <1>3, <1>7, <1>9, <1>10

(* The query's rounds hold exactly the simple chains of at most MaxDepth hops. *)
LEMMA RingIsChains ==
  ASSUME edges \subseteq Vendors \X Vendors
  PROVE  \A p : p \in Ring <=> Len(p) - 1 \in 1..MaxDepth /\ Chain(p, Len(p))
<1> DEFINE C(n) == {p \in Seq(Vendors) : Chain(p, n)}
           fix == [d \in 0..MaxDepth |-> C(d + 1)]
           ring == CHOOSE r : Rounds(r)
<1>1. Rounds(fix)
  <2>1. C(1) = {<<Supplier>>} BY FirstRound
  <2>2. \A n \in Nat : n > 0 => Longer(C(n)) = C(n + 1) BY ChainsGrow
  <2>3. ASSUME NEW d \in 0..MaxDepth
        PROVE  C(d + 1) = IF d = 0 THEN {<<Supplier>>} ELSE Longer(fix[d - 1])
    <3> HIDE DEF C
    <3>1. CASE d = 0 BY <2>1, <3>1
    <3>2. CASE d # 0
      <4>1. d - 1 \in 0..MaxDepth /\ (d - 1) + 1 = d /\ d \in Nat /\ d > 0
        BY <3>2, VendorAssumption
      <4>2. fix[d - 1] = C(d) BY <4>1
      <4> QED BY <2>2, <3>2, <4>1, <4>2
    <3> QED BY <3>1, <3>2
  <2> HIDE DEF C
  <2> QED BY <2>3 DEF Rounds
<1>2. Rounds(ring) BY <1>1
<1>3. \A d \in 0..MaxDepth : ring[d] = C(d + 1)
  <2> HIDE DEF ring
  <2> QED BY <1>2, RoundsAreChains
<1>4. Ring = UNION {ring[d] : d \in 1..MaxDepth} BY DEF Ring, Rounds
<1> HIDE DEF ring, fix
<1>5. \A d \in 1..MaxDepth : ring[d] = C(d + 1) /\ d + 1 \in Nat /\ (d + 1) - 1 = d
  BY <1>3, VendorAssumption
<1>6. ASSUME NEW p \in Ring PROVE Len(p) - 1 \in 1..MaxDepth /\ Chain(p, Len(p))
  <2>1. PICK d \in 1..MaxDepth : p \in ring[d] BY <1>4
  <2>2. Chain(p, d + 1) BY <1>5, <2>1
  <2>3. Len(p) = d + 1 BY <2>2 DEF Chain
  <2> QED BY <1>5, <2>2, <2>3
<1>7. ASSUME NEW p, Len(p) - 1 \in 1..MaxDepth, Chain(p, Len(p)) PROVE p \in Ring
  <2>1. p \in Seq(Vendors) BY <1>7 DEF Chain
  <2>2. Len(p) \in Nat /\ (Len(p) - 1) + 1 = Len(p) BY <2>1
  <2>3. p \in ring[Len(p) - 1] BY <1>5, <1>7, <2>1, <2>2
  <2> QED BY <1>4, <1>7, <2>3
<1> QED BY <1>6, <1>7

(* What the traversal knows: the answers, and the supplier itself at depth zero. *)
Known == found \cup {Root}

(* Every answer is a simple chain no longer than the bound, one per vendor met. *)
KnownChains ==
  /\ \A p \in Known : Len(p) \in 1..(MaxDepth + 1) /\ Chain(p, Len(p))
  /\ \A p \in found : Last(p) # Supplier /\ Len(p) > 1
  /\ \A p, q \in Known : Last(p) = Last(q) => p = q
  /\ met = {Last(p) : p \in Known}
  /\ \A p \in Known : ToSet(p) \subseteq met

(* The queue holds answers by length, of two lengths at most; no answer is longer than the
   next turn would make one. *)
QueueByLength ==
  /\ frontier \in Seq(Known)
  /\ \A i, j \in DOMAIN frontier :
       i < j => Len(frontier[i]) <= Len(frontier[j]) /\ Len(frontier[j]) <= Len(frontier[i]) + 1
  /\ frontier # <<>> => \A p \in Known : Len(p) <= Len(frontier[1]) + 1

(* An answer that has left the queue has passed every edge of its end on. *)
Relaxed ==
  \A p \in Known \ ToSet(frontier) :
    Len(p) <= MaxDepth =>
      \A v \in Vendors : <<Last(p), v>> \in edges => \E q \in Known : Last(q) = v /\ Len(q) <= Len(p) + 1

RiskInv ==
  /\ edges \subseteq Vendors \X Vendors
  /\ met = {} => frontier = <<>> /\ found = {}
  /\ met # {} => KnownChains /\ QueueByLength /\ Relaxed

LEMMA RootIsChain ==
  Len(Root) = 1 /\ Last(Root) = Supplier /\ ToSet(Root) = {Supplier} /\ Chain(Root, 1)
<1>1. Len(Root) = 1 /\ Last(Root) = Supplier BY DEF Root, Last
<1>2. ToSet(Root) = {Supplier} BY DEF Root, ToSet
<1>3. Chain(Root, 1) BY VendorAssumption DEF Root, Chain
<1> QED BY <1>1, <1>2, <1>3

LEMMA AskKeeps == ASSUME RiskInv, Ask PROVE RiskInv'
<1>1. /\ edges' \subseteq Vendors \X Vendors
      /\ met' = {Supplier} /\ frontier' = <<Root>> /\ Known' = {Root} /\ found' = {}
  BY DEF Ask, Known, Root
<1>2. Len(Root) = 1 /\ Last(Root) = Supplier /\ ToSet(Root) = {Supplier} BY RootIsChain
<1>3. Chain(Root, 1)' BY VendorAssumption DEF Root, Chain
<1>4. KnownChains'
  <2>1. 1 \in 1..(MaxDepth + 1) BY VendorAssumption
  <2>2. \A p \in Known' : Len(p) \in 1..(MaxDepth + 1) /\ Chain(p, Len(p))' BY <1>1, <1>2, <1>3, <2>1
  <2>3. met' = {Last(p) : p \in Known'} BY <1>1, <1>2
  <2>4. \A p \in Known' : ToSet(p) \subseteq met' BY <1>1, <1>2
  <2>5. \A p, q \in Known' : Last(p) = Last(q) => p = q BY <1>1
  <2>6. \A p \in found' : Last(p) # Supplier /\ Len(p) > 1 BY <1>1
  <2> QED BY <2>2, <2>3, <2>4, <2>5, <2>6 DEF KnownChains
<1>5. QueueByLength'
  <2>1. frontier' \in Seq(Known') /\ DOMAIN frontier' = {1} /\ frontier'[1] = Root BY <1>1
  <2> QED BY <1>1, <1>2, <2>1 DEF QueueByLength
<1>6. Relaxed'
  <2>1. Known' \ ToSet(frontier') = {} BY <1>1 DEF ToSet
  <2> QED BY <2>1 DEF Relaxed
<1> QED BY <1>1, <1>4, <1>5, <1>6 DEF RiskInv

(* One turn: the paths it adds, and what becomes of the three parts of the invariant. *)
Extended(path, on) == {Append(path, v) : v \in on}

LEMMA VisitAdds ==
  ASSUME RiskInv, Visit
  PROVE  \E path, on :
           /\ met # {} /\ frontier # <<>> /\ path = frontier[1] /\ path \in Known
           /\ on \subseteq Vendors /\ on \cap met = {} /\ IsFiniteSet(on)
           /\ Len(path) \in Nat
           /\ on # {} => Len(path) <= MaxDepth
           /\ \A v \in on : /\ Chain(Append(path, v), Len(path) + 1)
                            /\ Len(Append(path, v)) = Len(path) + 1
                            /\ Last(Append(path, v)) = v
                            /\ ToSet(Append(path, v)) = ToSet(path) \cup {v}
           /\ Len(path) <= MaxDepth =>
                \A v \in Vendors : <<Last(path), v>> \in edges => v \in on \/ v \in met
           /\ met' = met \cup on /\ edges' = edges
           /\ found' = found \cup Extended(path, on)
           /\ Known' = Known \cup Extended(path, on)
           /\ frontier' = Tail(frontier) \o SetToSeq(Extended(path, on))
<1> DEFINE path == Head(frontier)
           on == IF Len(path) > MaxDepth THEN {} ELSE Unmet(path)
<1>1. /\ frontier # <<>> /\ met' = met \cup on /\ edges' = edges
      /\ found' = found \cup Extended(path, on)
      /\ frontier' = Tail(frontier) \o SetToSeq(Extended(path, on))
  BY DEF Visit, Extended
<1>2. met # {} /\ KnownChains /\ QueueByLength BY <1>1 DEF RiskInv
<1>3. path = frontier[1] /\ path \in Known
  <2>1. frontier \in Seq(Known) /\ frontier # <<>> BY <1>1, <1>2 DEF QueueByLength
  <2> QED BY <2>1
<1>4. on \subseteq Vendors /\ on \cap met = {} BY DEF Unmet
<1>5. IsFiniteSet(on) BY <1>4, FS_Subset, VendorAssumption
<1>6. Known' = Known \cup Extended(path, on) BY <1>1 DEF Known
<1>7. /\ Len(path) \in Nat /\ Len(path) > 0 /\ Chain(path, Len(path)) /\ ToSet(path) \subseteq met
      /\ path \in Seq(Vendors)
  BY <1>2, <1>3, VendorAssumption DEF KnownChains, Chain
<1>8. on # {} => Len(path) <= MaxDepth BY <1>7, VendorAssumption
<1>9. \A v \in on : <<Last(path), v>> \in edges BY DEF Unmet
<1>10. Len(path) <= MaxDepth => \A v \in Vendors : <<Last(path), v>> \in edges => v \in on \/ v \in met
  <2>1. SUFFICES ASSUME Len(path) <= MaxDepth PROVE on = Unmet(path) BY DEF Unmet
  <2> QED BY <2>1, <1>7, VendorAssumption
<1>11. PICK w, new : w = path /\ new = on OBVIOUS
<1> HIDE DEF path, on
<1>12. ASSUME NEW v \in on
       PROVE  /\ Chain(Append(path, v), Len(path) + 1)
              /\ Len(Append(path, v)) = Len(path) + 1
              /\ Last(Append(path, v)) = v
              /\ ToSet(Append(path, v)) = ToSet(path) \cup {v}
  <2>1. v \in Vendors /\ v \notin ToSet(path) /\ <<Last(path), v>> \in edges
    BY <1>4, <1>7, <1>9, <1>12
  <2>2. Chain(Append(path, v), Len(path) + 1) BY <1>7, <2>1, ChainGrows
  <2>3. PICK q : q = Append(path, v) OBVIOUS
  <2>4. /\ q \in Seq(Vendors) /\ Len(q) = Len(path) + 1 /\ q[Len(path) + 1] = v
        /\ \A i \in 1..Len(path) : q[i] = path[i]
    BY <1>7, <2>1, <2>3
  <2>5. Last(q) = v BY <2>4 DEF Last
  <2>6. ToSet(q) = ToSet(path) \cup {v}
    <3>1. /\ DOMAIN q = 1..(Len(path) + 1) /\ DOMAIN path = 1..Len(path)
          /\ 1..(Len(path) + 1) = (1..Len(path)) \cup {Len(path) + 1}
      BY <1>7, <2>4
    <3> QED BY <2>4, <3>1 DEF ToSet
  <2> QED BY <2>2, <2>3, <2>4, <2>5, <2>6
<1> QED BY <1>1, <1>2, <1>3, <1>4, <1>5, <1>6, <1>7, <1>8, <1>10, <1>12, Zenon

LEMMA VisitKeeps == ASSUME RiskInv, Visit PROVE RiskInv'
<1>1. PICK path, on :
           /\ met # {} /\ frontier # <<>> /\ path = frontier[1] /\ path \in Known
           /\ on \subseteq Vendors /\ on \cap met = {} /\ IsFiniteSet(on)
           /\ Len(path) \in Nat
           /\ on # {} => Len(path) <= MaxDepth
           /\ \A v \in on : /\ Chain(Append(path, v), Len(path) + 1)
                            /\ Len(Append(path, v)) = Len(path) + 1
                            /\ Last(Append(path, v)) = v
                            /\ ToSet(Append(path, v)) = ToSet(path) \cup {v}
           /\ Len(path) <= MaxDepth =>
                \A v \in Vendors : <<Last(path), v>> \in edges => v \in on \/ v \in met
           /\ met' = met \cup on /\ edges' = edges
           /\ found' = found \cup Extended(path, on)
           /\ Known' = Known \cup Extended(path, on)
           /\ frontier' = Tail(frontier) \o SetToSeq(Extended(path, on))
  BY VisitAdds
<1> DEFINE new == Extended(path, on)
           n == Len(path)
           rest == Tail(frontier)
           more == SetToSeq(new)
<1>2. KnownChains /\ QueueByLength /\ Relaxed BY <1>1 DEF RiskInv
<1>3. \A p \in new : \E v \in on : p = Append(path, v) BY DEF Extended
<1>4. \A p \in new : /\ Len(p) = n + 1 /\ Chain(p, n + 1) /\ Last(p) \in on
                     /\ p = Append(path, Last(p)) /\ ToSet(p) = ToSet(path) \cup {Last(p)}
  <2> TAKE p \in new
  <2>1. PICK v \in on : p = Append(path, v) BY <1>3
  <2>2. /\ Chain(Append(path, v), Len(path) + 1)
        /\ Len(Append(path, v)) = Len(path) + 1
        /\ Last(Append(path, v)) = v
        /\ ToSet(Append(path, v)) = ToSet(path) \cup {v}
    BY <1>1
  <2>3. Last(p) = v BY <2>1, <2>2
  <2> QED BY <2>1, <2>2, <2>3
<1>5. \A v \in on : Append(path, v) \in new /\ Last(Append(path, v)) = v BY <1>1 DEF Extended
<1>6. new # {} => n <= MaxDepth BY <1>1, <1>3
<1>7. IsFiniteSet(new) 
  <2> DEFINE f == [v \in on |-> Append(path, v)]
  <2>1. f \in Surjection(on, new) BY DEF Surjection, Extended
  <2> QED BY <1>1, <2>1, FS_Surjection
<1>8. more \in Seq(new) /\ \A x \in new : \E i \in DOMAIN more : more[i] = x BY <1>7, SeqOfSet
<1>9. n \in 1..(MaxDepth + 1) BY <1>1, <1>2 DEF KnownChains
<1>10. \A p, m : Chain(p, m) => Chain(p, m)' BY <1>1 DEF Chain
<1> HIDE DEF new, n, rest, more
<1>11. /\ met' = met \cup on /\ edges' = edges /\ found' = found \cup new /\ Known' = Known \cup new
       /\ frontier' = rest \o more
  BY <1>1 DEF new, rest, more
<1>12. KnownChains'
  <2>1. ASSUME NEW p \in Known' PROVE Len(p) \in 1..(MaxDepth + 1) /\ Chain(p, Len(p))'
    <3>1. CASE p \in Known BY <1>2, <1>10, <3>1 DEF KnownChains
    <3>2. CASE p \in new
      <4>1. n + 1 \in 1..(MaxDepth + 1) BY <1>6, <1>9, <3>2, VendorAssumption
      <4> QED BY <1>4, <1>10, <3>2, <4>1
    <3> QED BY <1>11, <3>1, <3>2
  <2>2. ASSUME NEW p \in found' PROVE Last(p) # Supplier /\ Len(p) > 1
    <3>1. CASE p \in found BY <1>2, <3>1 DEF KnownChains
    <3>2. CASE p \in new
      <4>1. Root \in Known /\ Last(Root) = Supplier BY RootIsChain DEF Known
      <4>2. Supplier \in met BY <1>2, <4>1 DEF KnownChains
      <4>3. Len(p) > 1 BY <1>4, <1>9, <3>2, VendorAssumption
      <4> QED BY <1>1, <1>4, <3>2, <4>2, <4>3
    <3> QED BY <1>11, <3>1, <3>2
  <2>3. ASSUME NEW p \in Known', NEW q \in Known', Last(p) = Last(q) PROVE p = q
    <3>1. \A x \in Known : Last(x) \in met BY <1>2 DEF KnownChains
    <3>2. \A x \in new : Last(x) \notin met BY <1>1, <1>4
    <3>3. CASE p \in Known /\ q \in Known BY <1>2, <2>3, <3>3 DEF KnownChains
    <3>4. CASE p \in new /\ q \in new BY <1>4, <2>3, <3>4
    <3> QED BY <1>11, <2>3, <3>1, <3>2, <3>3, <3>4
  <2>4. met' = {Last(p) : p \in Known'}
    <3>1. met = {Last(p) : p \in Known} BY <1>2 DEF KnownChains
    <3>2. on = {Last(p) : p \in new} BY <1>4, <1>5
    <3> QED BY <1>11, <3>1, <3>2
  <2>5. ASSUME NEW p \in Known' PROVE ToSet(p) \subseteq met'
    <3>1. CASE p \in Known BY <1>2, <1>11, <3>1 DEF KnownChains
    <3>2. CASE p \in new
      <4>1. ToSet(path) \subseteq met BY <1>1, <1>2 DEF KnownChains
      <4> QED BY <1>4, <1>11, <3>2, <4>1
    <3> QED BY <1>11, <3>1, <3>2
  <2> QED BY <2>1, <2>2, <2>3, <2>4, <2>5 DEF KnownChains
<1>13. /\ frontier \in Seq(Known) /\ rest \in Seq(Known) /\ Len(rest) = Len(frontier) - 1
       /\ \A i \in 1..Len(rest) : rest[i] = frontier[i + 1] /\ i + 1 \in DOMAIN frontier
       /\ DOMAIN rest = 1..Len(rest) /\ DOMAIN frontier = 1..Len(frontier)
       /\ Len(frontier) \in Nat /\ Len(frontier) > 0 /\ Len(rest) \in Nat
  <2>1. frontier \in Seq(Known) /\ frontier # <<>> BY <1>1, <1>2 DEF QueueByLength
  <2> QED BY <2>1 DEF rest
<1>14. /\ frontier' \in Seq(Known') /\ DOMAIN frontier' = 1..(Len(rest) + Len(more))
       /\ \A i \in 1..(Len(rest) + Len(more)) :
            frontier'[i] = IF i <= Len(rest) THEN rest[i] ELSE more[i - Len(rest)]
       /\ Len(more) \in Nat /\ DOMAIN more = 1..Len(more)
  <2>1. rest \in Seq(Known') /\ more \in Seq(Known') BY <1>8, <1>11, <1>13
  <2>2. /\ rest \o more \in Seq(Known') /\ Len(rest \o more) = Len(rest) + Len(more)
        /\ \A i \in 1..(Len(rest) + Len(more)) :
            (rest \o more)[i] = IF i <= Len(rest) THEN rest[i] ELSE more[i - Len(rest)]
    BY <2>1, ConcatProperties
  <2> QED BY <1>8, <1>11, <2>2
<1>15. \A p \in Known : Len(p) \in Nat /\ Len(p) <= n + 1
  <2>1. \A p \in Known : Len(p) <= n + 1 BY <1>1, <1>2 DEF QueueByLength, n
  <2>2. \A p \in Known : Len(p) \in Nat BY <1>2, VendorAssumption DEF KnownChains
  <2> QED BY <2>1, <2>2
<1>16. \A i \in 1..Len(rest) : Len(rest[i]) \in Nat /\ n <= Len(rest[i]) /\ Len(rest[i]) <= n + 1
  <2> TAKE i \in 1..Len(rest)
  <2>1. 1 \in DOMAIN frontier /\ i + 1 \in DOMAIN frontier /\ 1 < i + 1 /\ rest[i] = frontier[i + 1]
    BY <1>13
  <2>2. n <= Len(rest[i]) /\ Len(rest[i]) <= n + 1 BY <1>1, <1>2, <2>1 DEF QueueByLength, n
  <2>3. rest[i] \in Known BY <1>13
  <2> QED BY <1>15, <2>2, <2>3
<1>17. \A i \in 1..Len(more) : Len(more[i]) = n + 1 BY <1>4, <1>8, <1>14
<1>18. \A i \in DOMAIN frontier' : \/ i \in 1..Len(rest) /\ frontier'[i] = rest[i]
                                   \/ i \notin 1..Len(rest) /\ Len(frontier'[i]) = n + 1
  <2> TAKE i \in DOMAIN frontier'
  <2>1. CASE i <= Len(rest) BY <1>13, <1>14, <2>1
  <2>2. CASE ~(i <= Len(rest))
    <3>1. i - Len(rest) \in 1..Len(more) /\ i \notin 1..Len(rest) BY <1>13, <1>14, <2>2
    <3> QED BY <1>14, <1>17, <2>2, <3>1
  <2> QED BY <2>1, <2>2
<1>19. n \in Nat BY <1>1 DEF n
<1>20. QueueByLength'
  <2>1. ASSUME NEW i \in DOMAIN frontier', NEW j \in DOMAIN frontier', i < j
        PROVE  Len(frontier'[i]) <= Len(frontier'[j]) /\ Len(frontier'[j]) <= Len(frontier'[i]) + 1
    <3>1. CASE i \in 1..Len(rest) /\ j \in 1..Len(rest)
      <4>1. frontier'[i] = rest[i] /\ frontier'[j] = rest[j] BY ONLY <1>18, <3>1, <2>1
      <4>2. rest[i] = frontier[i + 1] /\ rest[j] = frontier[j + 1] BY ONLY <1>13, <3>1
      <4>3. i + 1 \in DOMAIN frontier /\ j + 1 \in DOMAIN frontier BY ONLY <1>13, <3>1
      <4>4. i + 1 < j + 1 BY ONLY <1>13, <2>1, <3>1
      <4> QED BY <1>2, <4>1, <4>2, <4>3, <4>4 DEF QueueByLength
    <3>2. CASE i \in 1..Len(rest) /\ ~(j \in 1..Len(rest))
      <4>1. Len(frontier'[j]) = n + 1 BY <1>18, <3>2
      <4>2. frontier'[i] = rest[i] BY <1>13, <1>14, <3>2
      <4> QED BY <1>16, <1>19, <3>2, <4>1, <4>2
    <3>3. CASE ~(i \in 1..Len(rest))
      <4>1. ~(j \in 1..Len(rest)) BY <1>13, <1>14, <2>1, <3>3
      <4> QED BY <1>18, <1>19, <3>3, <4>1
    <3> QED BY <3>1, <3>2, <3>3
  <2>2. ASSUME frontier' # <<>>, NEW p \in Known' PROVE Len(p) <= Len(frontier'[1]) + 1
    <3>1. 1 \in DOMAIN frontier' BY <1>14, <2>2
    <3>2. n <= Len(frontier'[1]) /\ Len(frontier'[1]) \in Nat BY <1>16, <1>18, <1>19, <3>1
    <3>3. Len(p) <= n + 1 /\ Len(p) \in Nat BY <1>4, <1>11, <1>15, <1>19
    <3> QED BY <1>19, <3>2, <3>3
  <2> QED BY <1>14, <2>1, <2>2 DEF QueueByLength
<1>21. Relaxed'
  <2> SUFFICES ASSUME NEW p \in Known' \ ToSet(frontier'), Len(p) <= MaxDepth,
                      NEW v \in Vendors, <<Last(p), v>> \in edges
               PROVE  \E q \in Known' : Last(q) = v /\ Len(q) <= Len(p) + 1
    BY <1>11 DEF Relaxed
  <2>1. p \notin new
    <3> SUFFICES ASSUME p \in new PROVE p \in ToSet(frontier') OBVIOUS
    <3>1. PICK i \in DOMAIN more : more[i] = p BY <1>8
    <3>2. i + Len(rest) \in DOMAIN frontier' /\ ~(i + Len(rest) <= Len(rest)) /\ (i + Len(rest)) - Len(rest) = i
      BY <1>13, <1>14
    <3>3. frontier'[i + Len(rest)] = p BY <1>14, <3>1, <3>2
    <3> QED BY <3>2, <3>3 DEF ToSet
  <2>2. p \in Known BY <1>11, <2>1
  <2>3. CASE p \notin ToSet(frontier)
    <3>1. \E q \in Known : Last(q) = v /\ Len(q) <= Len(p) + 1 BY <1>2, <2>2, <2>3 DEF Relaxed
    <3> QED BY <1>11, <3>1
  <2>4. CASE p \in ToSet(frontier)
    <3>1. PICK i \in DOMAIN frontier : frontier[i] = p BY <2>4 DEF ToSet
    <3>2. i = 1
      <4> SUFFICES ASSUME i # 1 PROVE p \in ToSet(frontier') OBVIOUS
      <4>1. i - 1 \in 1..Len(rest) /\ (i - 1) + 1 = i BY <1>13
      <4>2. i - 1 \in DOMAIN frontier' /\ i - 1 <= Len(rest) BY <1>13, <1>14, <4>1
      <4>3. frontier'[i - 1] = p BY <1>13, <1>14, <3>1, <4>1, <4>2
      <4> QED BY <4>2, <4>3 DEF ToSet
    <3>3. p = path /\ Len(p) = n BY <1>1, <3>1, <3>2 DEF n
    <3>4. v \in on \/ v \in met BY <1>1, <3>3
    <3>5. CASE v \in on
      <4>1. Append(path, v) \in new /\ Last(Append(path, v)) = v BY <1>5, <3>5 DEF new
      <4>2. Len(Append(path, v)) <= n + 1 BY <1>4, <1>19, <4>1
      <4> QED BY <1>11, <3>3, <4>1, <4>2
    <3>6. CASE v \in met
      <4>1. PICK q \in Known : Last(q) = v BY <1>2, <3>6 DEF KnownChains
      <4> QED BY <1>11, <1>15, <3>3, <4>1
    <3> QED BY <3>4, <3>5, <3>6
  <2> QED BY <2>3, <2>4
<1> QED BY <1>1, <1>11, <1>12, <1>20, <1>21 DEF RiskInv

(* When the queue is empty, a vendor some chain ends in has an answer that is no longer. *)
LEMMA EveryChainAnswered ==
  ASSUME RiskInv, met # {}, frontier = <<>>
  PROVE  \A n \in 1..(MaxDepth + 1) : \A q :
           Chain(q, n) => \E p \in Known : Last(p) = Last(q) /\ Len(p) <= n
<1> DEFINE Fine(n) == \A q : Chain(q, n) => \E p \in Known : Last(p) = Last(q) /\ Len(p) <= n
           Bad == {n \in 1..(MaxDepth + 1) : ~Fine(n)}
<1>1. SUFFICES ASSUME Bad # {} PROVE FALSE OBVIOUS
<1>2. Bad \in SUBSET Nat BY VendorAssumption
<1>3. PICK n \in Bad : \A k \in Bad : n <= k
  <2> HIDE DEF Bad
  <2> QED BY <1>1, <1>2, LeastOf
<1>4. n \in 1..(MaxDepth + 1) /\ n \in Nat BY <1>3, <1>2
<1>5. PICK q : Chain(q, n) /\ ~\E p \in Known : Last(p) = Last(q) /\ Len(p) <= n BY <1>3
<1>6. KnownChains /\ Relaxed BY DEF RiskInv
<1>7. n # 1
  <2> SUFFICES ASSUME n = 1 PROVE FALSE OBVIOUS
  <2>1. Last(q) = Supplier BY <1>5 DEF Chain, Last
  <2>2. Root \in Known /\ Last(Root) = Supplier /\ Len(Root) = 1 BY RootIsChain DEF Known
  <2>3. Root \in Known /\ Last(Root) = Last(q) /\ Len(Root) <= n BY <2>1, <2>2
  <2> QED BY ONLY <1>5, <2>3
<1>8. PICK m : m = n - 1 OBVIOUS
<1>9. m \in 1..MaxDepth /\ m \in 1..(MaxDepth + 1) /\ m \in Nat /\ m > 0 /\ n = m + 1 /\ ~(n <= m)
  BY <1>4, <1>7, <1>8, VendorAssumption
<1>10. Fine(m)
  <2>1. m \notin Bad BY <1>3, <1>9
  <2> QED BY <1>9, <2>1
<1>11. PICK r : Chain(r, m) /\ q[n] \in Vendors /\ Last(q) = q[n] /\ <<Last(r), q[n]>> \in edges
  BY <1>5, <1>9, ChainShrinks
<1>12. PICK p \in Known : Last(p) = Last(r) /\ Len(p) <= m BY <1>10, <1>11
<1>13. Len(p) \in Nat /\ Len(p) <= MaxDepth BY <1>6, <1>9, <1>12, VendorAssumption DEF KnownChains
<1>14. p \in Known \ ToSet(frontier) BY DEF ToSet
<1>15. PICK s \in Known : Last(s) = q[n] /\ Len(s) <= Len(p) + 1 BY <1>6, <1>11, <1>12, <1>13, <1>14 DEF Relaxed
<1>16. Len(s) \in Nat BY <1>6, VendorAssumption DEF KnownChains
<1>17. Len(s) <= n BY <1>9, <1>12, <1>13, <1>15, <1>16
<1>18. Last(s) = Last(q) /\ s \in Known BY <1>11, <1>15
<1> QED BY ONLY <1>5, <1>17, <1>18

LEMMA RiskInvImplies == ASSUME RiskInv PROVE QueryAgrees
<1> SUFFICES ASSUME met # {}, frontier = <<>>
             PROVE  /\ found \subseteq Shortest
                    /\ {Last(p) : p \in Shortest} = {Last(p) : p \in found}
                    /\ \A p, q \in found : Last(p) = Last(q) => p = q
  BY DEF QueryAgrees
<1>1. KnownChains /\ edges \subseteq Vendors \X Vendors /\ found \subseteq Known BY DEF RiskInv, Known
<1>2. \A p : p \in Ring <=> Len(p) - 1 \in 1..MaxDepth /\ Chain(p, Len(p)) BY <1>1, RingIsChains
<1>3. \A p : Chain(p, Len(p)) => Len(p) \in Nat BY DEF Chain
<1>4. \A q \in Ring : /\ Len(q) \in 1..(MaxDepth + 1) /\ Len(q) > 1 /\ Chain(q, Len(q))
  <2> TAKE q \in Ring
  <2>1. Len(q) - 1 \in 1..MaxDepth /\ Chain(q, Len(q)) /\ Len(q) \in Nat BY <1>2, <1>3
  <2> QED BY <2>1, VendorAssumption
<1>5. \A q \in Ring : \E p \in Known : Last(p) = Last(q) /\ Len(p) <= Len(q)
  BY <1>4, EveryChainAnswered
<1>6. ASSUME NEW p \in found PROVE p \in Shortest
  <2>1. Len(p) \in 1..(MaxDepth + 1) /\ Chain(p, Len(p)) /\ Len(p) > 1 BY <1>1 DEF KnownChains
  <2>2. Len(p) - 1 \in 1..MaxDepth BY <2>1, VendorAssumption
  <2>3. p \in Ring BY <1>2, <2>1, <2>2
  <2>4. ASSUME NEW q \in Ring, Last(q) = Last(p) PROVE Len(p) <= Len(q)
    <3>1. PICK r \in Known : Last(r) = Last(q) /\ Len(r) <= Len(q) BY <1>5
    <3>2. r = p BY <1>1, <2>4, <3>1 DEF KnownChains
    <3> QED BY <3>1, <3>2
  <2> QED BY <2>3, <2>4 DEF Shortest
<1>7. ASSUME NEW p \in Shortest PROVE \E r \in found : Last(r) = Last(p)
  <2>1. p \in Ring BY DEF Shortest
  <2>2. PICK r \in Known : Last(r) = Last(p) BY <1>5, <2>1
  <2>3. Last(p) # Supplier
    <3>1. Chain(p, Len(p)) /\ Len(p) > 1 /\ Len(p) \in Nat BY <1>3, <1>4, <2>1
    <3>2. p[1] = Supplier /\ 1 \in 1..Len(p) /\ Len(p) \in 1..Len(p) /\ Len(p) # 1 BY <3>1 DEF Chain
    <3>3. p[Len(p)] # p[1] BY <3>1, <3>2 DEF Chain
    <3> QED BY <3>2, <3>3 DEF Last
  <2>4. r # Root BY <2>2, <2>3, RootIsChain
  <2> QED BY <2>2, <2>4 DEF Known
<1>8. {Last(p) : p \in Shortest} = {Last(p) : p \in found} BY <1>6, <1>7
<1> QED BY <1>1, <1>6, <1>8 DEF KnownChains

(* In every reachable state of the traversal (traverse of queries.py) each vendor met has one
   simple chain within the bound, the queue holds chains by length, and a chain that has left
   it has passed every edge of its end on. *)
THEOREM RiskInvariant == RiskSpec => []RiskInv
<1>1. RiskInit => RiskInv BY DEF RiskInit, RiskInv
<1>2. RiskInv /\ [RiskNext]_vvars => RiskInv'
  <2> SUFFICES ASSUME RiskInv, [RiskNext]_vvars PROVE RiskInv' OBVIOUS
  <2>1. CASE Ask BY <2>1, AskKeeps
  <2>2. CASE Visit BY <2>2, VisitKeeps
  <2>3. CASE UNCHANGED vvars
    BY <2>3 DEF vvars, RiskInv, KnownChains, QueueByLength, Relaxed, Known, Chain
  <2> QED BY <2>1, <2>2, <2>3 DEF RiskNext
<1> QED BY <1>1, <1>2, PTL DEF RiskSpec

(* On every graph, whatever its cycles and the depth bound, the traversal queries.py calls its
   reference and the SQL query find the same vendors, each by one chain, a shortest one. *)
THEOREM RiskQueryAgrees == RiskSpec => []QueryAgrees
<1>1. RiskInv => QueryAgrees BY RiskInvImplies
<1> QED BY <1>1, RiskInvariant, PTL
=============================================================================
