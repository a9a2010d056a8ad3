--------------------------- MODULE TraceStore_proofs ---------------------------
(***************************************************************************)
(* Proofs about TraceStore, for any runs, posts, cap and concurrency. Two     *)
(* facts carry everything: the list, and every copy a run still holds of it,  *)
(* is in the order of the history; and until a run has written back a copy    *)
(* that somebody else had outdated, the list is what is left of the history   *)
(* when the first traces_dropped of it are gone.                             *)
(***************************************************************************)
EXTENDS TraceStore, SequenceTheorems, TLAPS

(* Every trace of s is in h, and s is in the order of h. *)
BeforeIn(h, x, y) == \E i, j \in DOMAIN h : i < j /\ h[i] = x /\ h[j] = y
OrderedIn(s, h) ==
  /\ \A i \in DOMAIN s : \E k \in DOMAIN h : h[k] = s[i]
  /\ \A i, j \in DOMAIN s : i < j => BeforeIn(h, s[i], s[j])

(* s is what is left of h without its first d elements, element by element. *)
SuffixOf(s, h, d) ==
  /\ d \in 0..Len(h) /\ Len(s) = Len(h) - d
  /\ \A i \in 1..Len(s) : s[i] = h[d + i]

CopiesInv ==
  \A r \in Capping : OrderedIn(seen[r], history) /\ (r \notin overtaken => seen[r] = traces)
SuffixInv == ~raced => SuffixOf(traces, history, dropped)
TraceInv == TraceTypeOK /\ OrderedIn(traces, history) /\ CopiesInv /\ SuffixInv

-----------------------------------------------------------------------------
(* Sequences. *)

LEMMA SuffixIsSubSeq ==
  ASSUME NEW S, NEW s \in Seq(S), NEW h \in Seq(S), NEW d, SuffixOf(s, h, d)
  PROVE  s = SubSeq(h, d + 1, Len(h))
<1> DEFINE t == SubSeq(h, d + 1, Len(h))
<1>1. /\ t \in Seq(S)
      /\ Len(t) = Len(h) - d
      /\ \A i \in 1..(Len(h) - (d + 1) + 1) : t[i] = h[d + 1 + i - 1]
  BY SubSeqProperties DEF SuffixOf
<1>2. \A i \in 1..Len(s) : s[i] = t[i]
  BY <1>1 DEF SuffixOf
<1>3. QED BY <1>1, <1>2, SeqEqual DEF SuffixOf

(* What CapTraces writes back: the last MaxTraces elements of a longer list. *)
LEMMA Capped ==
  ASSUME NEW s \in Seq(Traces), Len(s) > MaxTraces
  PROVE  LET n == Excess(s)
             kept == SubSeq(s, n + 1, Len(s))
         IN  /\ n \in Nat /\ n = Len(s) - MaxTraces
             /\ kept \in Seq(Traces) /\ Len(kept) = MaxTraces
             /\ \A i \in 1..MaxTraces : kept[i] = s[n + i]
<1>1. MaxTraces \in Nat /\ Len(s) \in Nat
  BY TraceStoreAssumption
<1>2. Excess(s) = Len(s) - MaxTraces
  BY <1>1 DEF Excess
<1>3. \A i \in (Excess(s) + 1)..Len(s) : s[i] \in Traces
  BY <1>1, <1>2
<1>4. QED BY <1>1, <1>2, <1>3, SubSeqProperties

(* An ordered copy stays ordered when the history grows, *)
LEMMA OrderedKept ==
  ASSUME NEW s, NEW h \in Seq(Traces), NEW x \in Traces, OrderedIn(s, h)
  PROVE  OrderedIn(s, Append(h, x))
<1> DEFINE g == Append(h, x)
<1>1. \A k \in DOMAIN h : k \in DOMAIN g /\ g[k] = h[k]
  OBVIOUS
<1>2. \A y, z : BeforeIn(h, y, z) => BeforeIn(g, y, z)
  BY <1>1 DEF BeforeIn
<1>3. QED BY <1>1, <1>2 DEF OrderedIn

(* so does the list when the new trace is added to both, *)
LEMMA OrderedAppend ==
  ASSUME NEW s \in Seq(Traces), NEW h \in Seq(Traces), NEW x \in Traces, OrderedIn(s, h)
  PROVE  OrderedIn(Append(s, x), Append(h, x))
<1> DEFINE g == Append(h, x)
           t == Append(s, x)
           n == Len(s)
           last == Len(h) + 1
<1>1. OrderedIn(s, g)
  BY OrderedKept
<1>2. last \in DOMAIN g /\ g[last] = x
  OBVIOUS
<1>3. /\ n \in Nat /\ DOMAIN t = 1..(n + 1) /\ t[n + 1] = x
      /\ \A i \in 1..n : i \in DOMAIN s /\ t[i] = s[i]
  OBVIOUS
<1>4. \A i \in DOMAIN s : \E k \in DOMAIN g : k < last /\ g[k] = s[i]
  <2>1. \A k \in DOMAIN h : k \in DOMAIN g /\ k < last /\ g[k] = h[k]
    OBVIOUS
  <2>2. QED BY <2>1 DEF OrderedIn
<1> HIDE DEF g, t, n, last
<1>5. \A i \in 1..n : BeforeIn(g, t[i], x)
  BY <1>2, <1>3, <1>4 DEF BeforeIn
<1>6. \A i, j \in 1..n : i < j => BeforeIn(g, t[i], t[j])
  BY <1>1, <1>3 DEF OrderedIn
<1>7. \A i, j \in DOMAIN t : i < j => BeforeIn(g, t[i], t[j])
  <2>1. ASSUME NEW i \in DOMAIN t, NEW j \in DOMAIN t, i < j PROVE BeforeIn(g, t[i], t[j])
    <3>1. i \in 1..n /\ (j \in 1..n \/ j = n + 1)
      BY <1>3, <2>1
    <3>2. QED BY <1>3, <1>5, <1>6, <2>1, <3>1
  <2>2. QED BY <2>1
<1>8. \A i \in DOMAIN t : \E k \in DOMAIN g : g[k] = t[i]
  BY <1>2, <1>3, <1>4
<1>9. OrderedIn(t, g)
  BY <1>7, <1>8 DEF OrderedIn
<1>10. QED BY <1>9 DEF t, g

(* and so does what CapTraces keeps of a copy. *)
LEMMA OrderedCapped ==
  ASSUME NEW s \in Seq(Traces), NEW h, Len(s) > MaxTraces, OrderedIn(s, h)
  PROVE  OrderedIn(SubSeq(s, Excess(s) + 1, Len(s)), h)
<1> DEFINE n == Excess(s)
           t == SubSeq(s, n + 1, Len(s))
<1>0. MaxTraces \in Nat /\ Len(s) \in Nat
  BY TraceStoreAssumption
<1>1. /\ n \in Nat /\ n = Len(s) - MaxTraces
      /\ t \in Seq(Traces) /\ Len(t) = MaxTraces
      /\ \A i \in 1..MaxTraces : t[i] = s[n + i]
  BY Capped
<1> HIDE DEF n, t
<1>2. \A i \in DOMAIN t : i \in Nat /\ n + i \in DOMAIN s /\ t[i] = s[n + i]
  BY <1>0, <1>1
<1>3. OrderedIn(t, h)
  <2>1. \A i \in DOMAIN t : \E k \in DOMAIN h : h[k] = t[i]
    BY <1>2 DEF OrderedIn
  <2>2. ASSUME NEW i \in DOMAIN t, NEW j \in DOMAIN t, i < j PROVE BeforeIn(h, t[i], t[j])
    <3>1. n + i < n + j
      BY <1>1, <1>2, <2>2
    <3>2. QED BY <1>2, <3>1 DEF OrderedIn
  <2>3. QED BY <2>1, <2>2 DEF OrderedIn
<1>4. QED BY <1>3 DEF n, t

(* The newest traces stay the newest when one is added to both lists, *)
LEMMA SuffixAppend ==
  ASSUME NEW s \in Seq(Traces), NEW h \in Seq(Traces), NEW x \in Traces, NEW d,
         SuffixOf(s, h, d)
  PROVE  SuffixOf(Append(s, x), Append(h, x), d)
<1> DEFINE t == Append(s, x)
           g == Append(h, x)
<1>1. /\ Len(s) \in Nat /\ Len(h) \in Nat /\ d \in 0..Len(h) /\ Len(s) = Len(h) - d
      /\ Len(t) = Len(s) + 1 /\ Len(g) = Len(h) + 1
  <2>1. d \in 0..Len(h) /\ Len(s) = Len(h) - d
    BY DEF SuffixOf
  <2>2. Len(s) \in Nat /\ Len(h) \in Nat /\ Len(t) = Len(s) + 1 /\ Len(g) = Len(h) + 1
    OBVIOUS
  <2>3. QED BY <2>1, <2>2
<1>2. /\ \A i \in 1..Len(s) : t[i] = s[i]
      /\ \A i \in 1..Len(h) : g[i] = h[i]
      /\ t[Len(s) + 1] = x /\ g[Len(h) + 1] = x
  OBVIOUS
<1>3. \A i \in 1..Len(s) : s[i] = h[d + i]
  BY DEF SuffixOf
<1> HIDE DEF t, g
<1>4. ASSUME NEW i \in 1..Len(t) PROVE t[i] = g[d + i]
  <2>1. CASE i \in 1..Len(s)
    <3>1. d + i \in 1..Len(h)
      BY <1>1, <2>1
    <3>2. QED BY <1>2, <1>3, <2>1, <3>1
  <2>2. CASE i = Len(s) + 1
    <3>1. d + i = Len(h) + 1
      BY <1>1, <2>2
    <3>2. QED BY <1>2, <2>2, <3>1
  <2>3. QED BY <1>1, <2>1, <2>2
<1>5. SuffixOf(t, g, d)
  BY <1>1, <1>4 DEF SuffixOf
<1>6. QED BY <1>5 DEF t, g

(* and when the oldest of them are dropped and counted. *)
LEMMA SuffixCapped ==
  ASSUME NEW s \in Seq(Traces), NEW h \in Seq(Traces), NEW d,
         Len(s) > MaxTraces, SuffixOf(s, h, d)
  PROVE  SuffixOf(SubSeq(s, Excess(s) + 1, Len(s)), h, d + Excess(s))
<1> DEFINE n == Excess(s)
           t == SubSeq(s, n + 1, Len(s))
<1>1. /\ n \in Nat /\ n = Len(s) - MaxTraces /\ MaxTraces \in Nat /\ Len(s) \in Nat
      /\ t \in Seq(Traces) /\ Len(t) = MaxTraces
      /\ \A i \in 1..MaxTraces : t[i] = s[n + i]
  BY Capped, TraceStoreAssumption
<1> HIDE DEF n, t
<1>2. Len(h) \in Nat /\ d \in 0..Len(h) /\ Len(s) = Len(h) - d
  BY DEF SuffixOf
<1>3. d + n \in 0..Len(h) /\ Len(t) = Len(h) - (d + n)
  BY <1>1, <1>2
<1>4. ASSUME NEW i \in 1..Len(t) PROVE t[i] = h[d + n + i]
  <2>1. n + i \in 1..Len(s) /\ t[i] = s[n + i]
    BY <1>1
  <2>2. s[n + i] = h[d + (n + i)]
    BY <2>1 DEF SuffixOf
  <2>3. d + (n + i) = d + n + i
    BY <1>1, <1>2
  <2>4. QED BY <2>1, <2>2, <2>3
<1>5. SuffixOf(t, h, d + n)
  BY <1>3, <1>4 DEF SuffixOf
<1>6. QED BY <1>5 DEF n, t

-----------------------------------------------------------------------------
(* Type correctness. *)

LEMMA PushType ==
  ASSUME TraceTypeOK, NEW x \in Traces, Push(x)
  PROVE  /\ traces' \in Seq(Traces) /\ history' \in Seq(Traces)
         /\ overtaken' \subseteq Runs
         /\ traces' = Append(traces, x) /\ history' = Append(history, x)
BY DEF TraceTypeOK, Push, Capping

LEMMA FaultType ==
  ASSUME TraceTypeOK, Fault
  PROVE  faults' \in Nat
BY DEF TraceTypeOK, Fault

LEMMA NextType == TraceTypeOK /\ [TraceNext]_tvars => TraceTypeOK'
<1> SUFFICES ASSUME TraceTypeOK, [TraceNext]_tvars PROVE TraceTypeOK'
  OBVIOUS
<1>1. ASSUME NEW r \in Runs, Prepare(r) PROVE TraceTypeOK'
  <2>1. faults' \in Nat /\ summary' \in BOOLEAN
    BY <1>1, FaultType DEF TraceTypeOK, Prepare
  <2>2. save' \in [Runs -> Saving]
    BY <1>1 DEF TraceTypeOK, Prepare, Advance, Saving
  <2>3. \A q \in Runs : save'[q] = "capping" => save[q] = "capping"
    BY <1>1 DEF TraceTypeOK, Prepare, Advance
  <2>4. QED BY <1>1, <2>1, <2>2, <2>3 DEF TraceTypeOK, Prepare
<1>2. ASSUME NEW r \in Runs, AppendTrace(r) PROVE TraceTypeOK'
  <2>1. r \in Traces
    BY DEF Traces
  <2>2. traces' \in Seq(Traces) /\ history' \in Seq(Traces) /\ overtaken' \subseteq Runs
    BY <1>2, <2>1, PushType DEF AppendTrace
  <2>3. save' \in [Runs -> Saving] /\ seen' \in [Runs -> Seq(Traces)]
    BY <1>2, <2>2 DEF TraceTypeOK, AppendTrace, Advance, Saving
  <2>4. ASSUME NEW q \in Runs, save'[q] = "capping" PROVE Len(seen'[q]) > MaxTraces
    <3>1. CASE q = r
      <4>1. Excess(traces') > 0
        BY <1>2, <2>4, <3>1 DEF AppendTrace, Advance, TraceTypeOK
      <4>2. Len(traces') \in Nat /\ MaxTraces \in Nat
        BY <2>2, TraceStoreAssumption
      <4>3. seen'[q] = traces'
        BY <1>2, <3>1 DEF AppendTrace, TraceTypeOK
      <4>4. QED BY <4>1, <4>2, <4>3 DEF Excess
    <3>2. CASE q # r
      BY <1>2, <2>4, <3>2 DEF AppendTrace, Advance, TraceTypeOK
    <3>3. QED BY <3>1, <3>2
  <2>5. QED BY <1>2, <2>2, <2>3, <2>4 DEF TraceTypeOK, AppendTrace
<1>3. ASSUME NEW r \in Runs, CapTraces(r) PROVE TraceTypeOK'
  <2>1. seen[r] \in Seq(Traces) /\ Len(seen[r]) > MaxTraces
    BY <1>3 DEF CapTraces, Advance, TraceTypeOK
  <2>2. traces' \in Seq(Traces) /\ dropped' \in Nat
    BY <1>3, <2>1, Capped DEF CapTraces, TraceTypeOK
  <2>3. save' \in [Runs -> Saving] /\ \A q \in Runs : save'[q] = "capping" => save[q] = "capping"
    BY <1>3 DEF CapTraces, Advance, TraceTypeOK, Saving
  <2>4. overtaken' \subseteq Runs /\ raced' \in BOOLEAN
    BY <1>3 DEF CapTraces, Capping, TraceTypeOK
  <2>5. QED BY <1>3, <2>2, <2>3, <2>4 DEF CapTraces, TraceTypeOK
<1>4. ASSUME NEW r \in Runs, SaveFails(r) PROVE TraceTypeOK'
  <2>1. faults' \in Nat
    BY <1>4, FaultType DEF TraceTypeOK, SaveFails
  <2>2. QED BY <1>4, <2>1 DEF TraceTypeOK, SaveFails, Saving
<1>5. ASSUME NEW p \in Posts, PostTrace(p) PROVE TraceTypeOK'
  <2>1. p \in Traces
    BY DEF Traces
  <2>2. QED BY <1>5, <2>1, PushType DEF PostTrace, TraceTypeOK
<1>6. CASE UNCHANGED tvars
  BY <1>6 DEF tvars, TraceTypeOK
<1>7. QED BY <1>1, <1>2, <1>3, <1>4, <1>5, <1>6 DEF TraceNext, Save

-----------------------------------------------------------------------------
(* The inductive invariant. *)

LEMMA InitInv == TraceInit => TraceInv
<1> SUFFICES ASSUME TraceInit PROVE TraceInv
  OBVIOUS
<1>1. TraceTypeOK
  <2>1. MaxFaults \in Nat /\ <<>> \in Seq(Traces)
    BY TraceStoreAssumption, EmptySeq
  <2>2. save \in [Runs -> Saving] /\ \A r \in Runs : save[r] # "capping"
    BY DEF TraceInit, Saving
  <2>3. QED BY <2>1, <2>2 DEF TraceInit, TraceTypeOK
<1>2. OrderedIn(traces, history) /\ CopiesInv
  <2>1. OrderedIn(traces, history)
    BY DEF TraceInit, OrderedIn
  <2>2. Capping = {}
    BY DEF TraceInit, Capping
  <2>3. QED BY <2>1, <2>2 DEF CopiesInv
<1>3. SuffixInv
  BY DEF TraceInit, SuffixInv, SuffixOf
<1>4. QED BY <1>1, <1>2, <1>3 DEF TraceInv

(* Somebody appends: every run that holds a copy is overtaken. *)
LEMMA PushInv ==
  ASSUME TraceInv, NEW x \in Traces, Push(x), UNCHANGED <<dropped, raced>>
  PROVE  OrderedIn(traces, history)' /\ SuffixInv'
<1>1. /\ traces' = Append(traces, x) /\ history' = Append(history, x)
      /\ traces \in Seq(Traces) /\ history \in Seq(Traces)
  BY PushType DEF TraceInv, TraceTypeOK
<1>2. OrderedIn(traces', history')
  BY <1>1, OrderedAppend DEF TraceInv
<1>3. ~raced => SuffixOf(traces', history', dropped)
  BY <1>1, SuffixAppend DEF TraceInv, SuffixInv
<1>4. QED BY <1>2, <1>3 DEF SuffixInv

LEMMA NextInv == TraceInv /\ [TraceNext]_tvars => TraceInv'
<1> SUFFICES ASSUME TraceInv, [TraceNext]_tvars PROVE TraceInv'
  OBVIOUS
<1>0. TraceTypeOK /\ TraceTypeOK'
  BY NextType DEF TraceInv
<1>1. ASSUME NEW r \in Runs, Prepare(r) \/ SaveFails(r) PROVE TraceInv'
  <2>1. UNCHANGED <<traces, dropped, seen, history, overtaken, raced>>
    BY <1>1 DEF Prepare, SaveFails
  <2>2. Capping' \subseteq Capping
    BY <1>0, <1>1 DEF Prepare, SaveFails, Advance, Capping, TraceTypeOK
  <2>3. QED BY <1>0, <2>1, <2>2 DEF TraceInv, CopiesInv, SuffixInv
<1>2. ASSUME NEW r \in Runs, AppendTrace(r) PROVE TraceInv'
  <2>1. r \in Traces /\ Push(r)
    BY <1>2 DEF AppendTrace, Traces
  <2>2. OrderedIn(traces, history)' /\ SuffixInv'
    BY <1>2, <2>1, PushInv DEF AppendTrace
  <2>3. ASSUME NEW q \in Capping' PROVE OrderedIn(seen'[q], history') /\ (q \notin overtaken' => seen'[q] = traces')
    <3>1. CASE q = r
      BY <1>0, <1>2, <2>2, <3>1 DEF AppendTrace, TraceTypeOK
    <3>2. CASE q # r
      <4>1. q \in Capping /\ seen'[q] = seen[q]
        BY <1>0, <1>2, <3>2 DEF AppendTrace, Advance, Capping, TraceTypeOK
      <4>2. q \in overtaken'
        BY <2>1, <4>1 DEF Push
      <4>3. OrderedIn(seen[q], history) /\ history' = Append(history, r) /\ history \in Seq(Traces)
        BY <1>0, <2>1, <4>1 DEF TraceInv, CopiesInv, Push, TraceTypeOK
      <4>4. QED BY <2>1, <4>1, <4>2, <4>3, OrderedKept
    <3>3. QED BY <3>1, <3>2
  <2>4. QED BY <1>0, <2>2, <2>3 DEF TraceInv, CopiesInv
<1>3. ASSUME NEW r \in Runs, CapTraces(r) PROVE TraceInv'
  <2>1. r \in Capping /\ seen[r] \in Seq(Traces) /\ Len(seen[r]) > MaxTraces
    BY <1>0, <1>3 DEF CapTraces, Advance, Capping, TraceTypeOK
  <2>2. /\ traces' = SubSeq(seen[r], Excess(seen[r]) + 1, Len(seen[r]))
        /\ dropped' = dropped + Excess(seen[r])
        /\ UNCHANGED <<seen, history>>
    BY <1>3 DEF CapTraces
  <2>3. OrderedIn(traces', history')
    BY <2>1, <2>2, OrderedCapped DEF TraceInv, CopiesInv
  <2>4. SuffixInv'
    <3>1. SUFFICES ASSUME ~raced' PROVE SuffixOf(traces', history', dropped')
      BY DEF SuffixInv
    <3>2. ~raced /\ r \notin overtaken
      BY <1>0, <1>3, <3>1 DEF CapTraces, TraceTypeOK
    <3>3. seen[r] = traces /\ SuffixOf(seen[r], history, dropped)
      BY <2>1, <3>2 DEF TraceInv, CopiesInv, SuffixInv
    <3>4. QED BY <1>0, <2>1, <2>2, <3>3, SuffixCapped DEF TraceTypeOK
  <2>5. \A q \in Capping' : q \in Capping /\ q # r /\ q \in overtaken'
    BY <1>0, <1>3 DEF CapTraces, Advance, Capping, TraceTypeOK
  <2>6. CopiesInv'
    BY <2>2, <2>5 DEF TraceInv, CopiesInv
  <2>7. QED BY <1>0, <2>3, <2>4, <2>6 DEF TraceInv
<1>4. ASSUME NEW p \in Posts, PostTrace(p) PROVE TraceInv'
  <2>1. p \in Traces /\ Push(p)
    BY <1>4 DEF PostTrace, Traces
  <2>2. OrderedIn(traces, history)' /\ SuffixInv'
    BY <1>4, <2>1, PushInv DEF PostTrace
  <2>3. ASSUME NEW q \in Capping' PROVE OrderedIn(seen'[q], history') /\ q \in overtaken'
    <3>1. q \in Capping /\ seen'[q] = seen[q]
      BY <1>4 DEF PostTrace, Capping
    <3>2. OrderedIn(seen[q], history) /\ history' = Append(history, p) /\ history \in Seq(Traces)
      BY <1>0, <2>1, <3>1 DEF TraceInv, CopiesInv, Push, TraceTypeOK
    <3>3. QED BY <2>1, <3>1, <3>2, OrderedKept DEF Push
  <2>4. QED BY <1>0, <2>2, <2>3 DEF TraceInv, CopiesInv
<1>5. CASE UNCHANGED tvars
  BY <1>0, <1>5 DEF tvars, TraceInv, CopiesInv, Capping, SuffixInv
<1>6. QED BY <1>1, <1>2, <1>3, <1>4, <1>5 DEF TraceNext, Save

-----------------------------------------------------------------------------
(* The theorems. *)

(* The inductive invariant: the list and every copy of it keep the order of the saves. *)
THEOREM TraceInvariant == TraceSpec => []TraceInv
BY InitInv, NextInv, PTL DEF TraceSpec

(* The store is well typed: a run writes a list back only when it is over the cap. *)
THEOREM TraceStoreTypeOK == TraceSpec => []TraceTypeOK
<1>1. TraceInv => TraceTypeOK BY DEF TraceInv
<1>2. QED BY <1>1, TraceInvariant, PTL

(* Without a racing write-back _save_trace_to_ddb keeps the newest traces and counts
   the others, whatever fails in between. *)
THEOREM TraceStoreKeepsNewest == TraceSpec => []NewestAreKept
<1>1. TraceInv => NewestAreKept
  BY SuffixIsSubSeq DEF TraceInv, SuffixInv, TraceTypeOK, NewestAreKept
<1>2. QED BY <1>1, TraceInvariant, PTL

(* With or without races the list stays in the order the traces were saved in. *)
THEOREM TraceStoreKeepsOrder == TraceSpec => []TracesStayInOrder
<1>1. TraceInv => TracesStayInOrder
  BY DEF TraceInv, OrderedIn, BeforeIn, TracesStayInOrder, Before
<1>2. QED BY <1>1, TraceInvariant, PTL

(* A write-back leaves exactly MAX_TRACES traces, so a full list stays full. *)
THEOREM TraceStoreStaysFull == TraceSpec => CapKeepsAFullList
<1>1. ASSUME TraceTypeOK, [TraceNext]_tvars, Len(traces) >= MaxTraces PROVE Len(traces') >= MaxTraces
  <2>0. MaxTraces \in Nat /\ Len(traces) \in Nat
    BY <1>1, TraceStoreAssumption DEF TraceTypeOK
  <2>1. ASSUME NEW x \in Traces, Push(x) PROVE Len(traces') >= MaxTraces
    BY <1>1, <2>0, <2>1, PushType DEF TraceTypeOK
  <2>2. ASSUME NEW r \in Runs, CapTraces(r) PROVE Len(traces') >= MaxTraces
    <3>1. seen[r] \in Seq(Traces) /\ Len(seen[r]) > MaxTraces
      BY <1>1, <2>2 DEF CapTraces, Advance, TraceTypeOK
    <3>2. QED BY <2>0, <2>2, <3>1, Capped DEF CapTraces
  <2>3. CASE UNCHANGED traces
    BY <1>1, <2>3
  <2>4. QED
    BY <1>1, <2>1, <2>2, <2>3 DEF TraceNext, Save, Prepare, AppendTrace, SaveFails, PostTrace,
       Traces, tvars
<1>2. QED BY <1>1, TraceStoreTypeOK, PTL DEF TraceSpec, CapKeepsAFullList
=============================================================================
