--------------------------- MODULE Console_proofs ---------------------------
(***************************************************************************)
(* Proofs about the console, for every value of the constants: of the         *)
(* conversation (ChatClient), that what the console shows as going on has a   *)
(* live run behind it and that a Process run's messages outlive the case's    *)
(* own record; of the figures (CaseFigures), that the funnel credits a case   *)
(* to the run that put it where it stands, and that funnel, handover and      *)
(* dashboard agree; of the byte stream (SseReader), that where the network    *)
(* cuts it changes nothing.                                                   *)
(***************************************************************************)
EXTENDS ChatClient, CaseFigures, SseReader, FiniteSetTheorems, SequenceTheorems, WellFoundedInduction, TLAPS

USE DEF ClaimReplay

Place == Files \cup {NoFile}

Message ==
  [kind : {"replay", "user", "turn", "notice"}, file : Place, run : Nat, garbled : BOOLEAN]

Run ==
  [kind : {"send", "process", "resume"}, file : Place,
   session : {"chat", "case"} \X (Chats \cup Files),
   stage : {"token", "stream", "over", "refused"}, aborted : BOOLEAN,
   history : SUBSET Place, stayed : BOOLEAN]

ChatTypes ==
  /\ context \in Place /\ chat \in Chats /\ seeded \in Place
  /\ runs \in Seq(Run) /\ transcript \in Seq(Message)
  /\ abort \in 0..Len(runs) /\ pending \in 0..Len(runs)
  /\ \A i \in DOMAIN transcript : transcript[i].run \in 0..Len(runs)

IsTurn(m, r) == m.kind = "turn" /\ m.run = r
IsLine(m, r) == m.kind \in {"user", "notice"} /\ m.run = r

(* A Process run that stayed is one whose case is in the address bar and has been seeded. *)
StayedIsSeeded ==
  \A r \in DOMAIN runs : runs[r].kind = "process" /\ runs[r].stayed =>
    context \in Files /\ seeded = context

TurnsAreSingle ==
  \A i, j \in DOMAIN transcript, r \in DOMAIN runs :
    IsTurn(transcript[i], r) /\ IsTurn(transcript[j], r) => i = j

TurnsHaveBegun ==
  \A r \in DOMAIN runs : runs[r].stage \in {"token", "refused"} =>
    \A i \in DOMAIN transcript : ~IsTurn(transcript[i], r)

StayedIsThere ==
  \A r \in DOMAIN runs : runs[r].kind = "process" /\ runs[r].stayed =>
    /\ \E i \in DOMAIN transcript : IsLine(transcript[i], r)
    /\ runs[r].stage \in {"stream", "over"} => \E i \in DOMAIN transcript : IsTurn(transcript[i], r)

ChatInv ==
  /\ ChatTypes
  /\ StayedIsSeeded /\ TurnsAreSingle /\ TurnsHaveBegun /\ StayedIsThere

-----------------------------------------------------------------------------
(* Sequences: one element put in the place of another, one put at the end. *)

LEMMA Replaced ==
  ASSUME NEW S, NEW s \in Seq(S), NEW n \in DOMAIN s, NEW x \in S
  PROVE  /\ [s EXCEPT ![n] = x] \in Seq(S) /\ Len([s EXCEPT ![n] = x]) = Len(s)
         /\ DOMAIN [s EXCEPT ![n] = x] = DOMAIN s
         /\ \A i \in DOMAIN s : [s EXCEPT ![n] = x][i] = IF i = n THEN x ELSE s[i]
OBVIOUS

LEMMA Appended ==
  ASSUME NEW S, NEW s \in Seq(S), NEW x \in S, NEW t, t = Append(s, x)
  PROVE  /\ t \in Seq(S) /\ DOMAIN t = DOMAIN s \cup {Len(s) + 1}
         /\ \A i \in DOMAIN s : t[i] = s[i]
         /\ t[Len(s) + 1] = x
OBVIOUS

-----------------------------------------------------------------------------
(* The transcript less the turn of a run: what is left is what was there, once. *)

LEMMA OthersAreLeft ==
  ASSUME ChatInv, NEW r \in DOMAIN runs
  PROVE  /\ Others(r) \in Seq(Message)
         /\ \A j \in DOMAIN Others(r) : \E i \in DOMAIN transcript \ Owned(r) : Others(r)[j] = transcript[i]
         /\ \A i \in DOMAIN transcript \ Owned(r) : \E j \in DOMAIN Others(r) : Others(r)[j] = transcript[i]
         /\ \A j, k \in DOMAIN Others(r), q \in DOMAIN runs :
              IsTurn(Others(r)[j], q) /\ IsTurn(Others(r)[k], q) => j = k
<1> DEFINE s == transcript
<1>s. s \in Seq(Message) BY DEF ChatInv, ChatTypes
<1>1. CASE Owned(r) = {}
  <2>1. Others(r) = s BY <1>1 DEF Others
  <2> QED BY <2>1, <1>1, <1>s DEF ChatInv, TurnsAreSingle
<1>2. CASE Owned(r) # {}
  <2> DEFINE n == CHOOSE i \in Owned(r) : TRUE
             o == Others(r)
  <2>1. n \in Owned(r) BY <1>2
  <2>2. n \in 1..Len(s) /\ IsTurn(s[n], r) BY <2>1, <1>s DEF Owned, IsTurn
  <2>3. \A i \in DOMAIN s : i # n => i \notin Owned(r)
    BY <2>2, <1>s DEF ChatInv, TurnsAreSingle, Owned, IsTurn
  <2> DEFINE a == SubSeq(s, 1, n - 1)
             b == SubSeq(s, n + 1, Len(s))
  <2>4. o = a \o b BY <1>2 DEF Others, RemoveAt
  <2> HIDE DEF n, o
  <2>5. a \in Seq(Message) /\ Len(a) = n - 1 /\ \A i \in 1..(n - 1) : a[i] = s[i]
    BY <2>2, <1>s
  <2>6. b \in Seq(Message) /\ Len(b) = Len(s) - n /\ \A i \in 1..(Len(s) - n) : b[i] = s[n + i]
    BY <2>2, <1>s
  <2>len. n \in Nat \ {0} /\ Len(s) \in Nat /\ n <= Len(s) BY <2>2, <1>s
  <2> HIDE DEF s, a, b
  <2>7. /\ o \in Seq(Message) /\ Len(o) = Len(s) - 1
        /\ \A i \in 1..(n - 1) : o[i] = s[i]
        /\ \A i \in n..(Len(s) - 1) : o[i] = s[i + 1]
    <3>1. o \in Seq(Message) /\ Len(o) = Len(s) - 1
      <4>1. o \in Seq(Message) /\ Len(o) = Len(a) + Len(b) BY <2>4, <2>5, <2>6, ConcatProperties, Zenon
      <4> QED BY <4>1, <2>5, <2>6, <2>len
    <3>2. \A i \in 1..(Len(a) + Len(b)) : o[i] = IF i <= Len(a) THEN a[i] ELSE b[i - Len(a)]
      BY <2>4, <2>5, <2>6, ConcatProperties
    <3>3. \A i \in 1..(n - 1) : o[i] = s[i] BY <3>2, <2>5, <2>6, <2>len
    <3>4. ASSUME NEW i \in n..(Len(s) - 1) PROVE o[i] = s[i + 1]
      <4>1. PICK k \in 1..(Len(s) - n) : k = i - (n - 1) BY <2>len
      <4>2. o[i] = b[k] BY <3>2, <2>5, <2>6, <2>len, <4>1
      <4>3. n + k = i + 1 BY <4>1, <2>len
      <4> QED BY <4>2, <4>3, <2>6
    <3> QED BY <3>1, <3>3, <3>4
  <2> DEFINE f == [j \in DOMAIN o |-> IF j < n THEN j ELSE j + 1]
  <2>8. \A j \in DOMAIN o : f[j] \in 1..Len(s) /\ f[j] # n /\ o[j] = s[f[j]]
    BY <2>7, <2>len
  <2>9. \A j, k \in DOMAIN o : f[j] = f[k] => j = k
    BY <2>7, <2>len
  <2>10. \A i \in 1..Len(s) : i # n => \E j \in DOMAIN o : f[j] = i
    <3> TAKE i \in 1..Len(s)
    <3>1. CASE i < n BY <3>1, <2>7, <2>len
    <3>2. CASE i > n
      <4>1. i - 1 \in DOMAIN o /\ ~(i - 1 < n) BY <3>2, <2>7, <2>len
      <4>2. f[i - 1] = i BY <4>1, <2>len
      <4> QED BY <4>1, <4>2
    <3> QED BY <3>1, <3>2, <2>len
  <2> HIDE DEF f
  <2>11. DOMAIN s = 1..Len(s) BY <1>s
  <2>12. n \in Owned(r) BY <2>1
  <2>13. \A j, k \in DOMAIN o, q \in DOMAIN runs : IsTurn(o[j], q) /\ IsTurn(o[k], q) => j = k
    BY <2>8, <2>9, <2>11 DEF ChatInv, TurnsAreSingle, s
  <2>14. \A j \in DOMAIN o : \E i \in DOMAIN s \ Owned(r) : o[j] = s[i]
    BY <2>8, <2>11, <2>3
  <2>15. \A i \in DOMAIN s \ Owned(r) : \E j \in DOMAIN o : o[j] = s[i]
    BY <2>8, <2>10, <2>11, <2>12
  <2> QED BY <2>7, <2>13, <2>14, <2>15 DEF o, s
<1> QED BY <1>1, <1>2

LEMMA SplicedIsWhole ==
  ASSUME ChatInv, NEW r \in DOMAIN runs
  PROVE  /\ Spliced(r) \in Seq(Message)
         /\ \E j \in DOMAIN Spliced(r) : IsTurn(Spliced(r)[j], r)
         /\ \A j \in DOMAIN Spliced(r) : \/ IsTurn(Spliced(r)[j], r)
                                         \/ \E i \in DOMAIN transcript : Spliced(r)[j] = transcript[i]
         /\ \A i \in DOMAIN transcript :
              ~IsTurn(transcript[i], r) => \E j \in DOMAIN Spliced(r) : Spliced(r)[j] = transcript[i]
         /\ \A j, k \in DOMAIN Spliced(r), q \in DOMAIN runs :
              IsTurn(Spliced(r)[j], q) /\ IsTurn(Spliced(r)[k], q) => j = k
<1> DEFINE o == Others(r)
           m == Saying("turn", runs[r].file, r)
           p == Spliced(r)
<1>1. runs[r] \in Run /\ r \in Nat BY DEF ChatInv, ChatTypes
<1>2. m \in Message /\ IsTurn(m, r) /\ \A q : IsTurn(m, q) => q = r
  BY <1>1 DEF Saying, Message, IsTurn, Run
<1>3. p = Append(o, m) BY DEF Spliced
<1>4. /\ o \in Seq(Message)
      /\ \A j \in DOMAIN o : \E i \in DOMAIN transcript \ Owned(r) : o[j] = transcript[i]
      /\ \A i \in DOMAIN transcript \ Owned(r) : \E j \in DOMAIN o : o[j] = transcript[i]
      /\ \A j, k \in DOMAIN o, q \in DOMAIN runs : IsTurn(o[j], q) /\ IsTurn(o[k], q) => j = k
  BY OthersAreLeft
<1> HIDE DEF o, m, p
<1>5. /\ p \in Seq(Message) /\ Len(p) = Len(o) + 1 /\ p[Len(o) + 1] = m
      /\ \A i \in 1..Len(o) : p[i] = o[i]
  BY <1>2, <1>3, <1>4
<1>6. DOMAIN o = 1..Len(o) /\ DOMAIN p = 1..(Len(o) + 1) /\ Len(o) \in Nat BY <1>4, <1>5
<1>7. \A j \in DOMAIN o : ~IsTurn(o[j], r) BY <1>4 DEF Owned, IsTurn
<1>8. \E j \in DOMAIN p : IsTurn(p[j], r) BY <1>2, <1>5, <1>6
<1>9. ASSUME NEW j \in DOMAIN p
      PROVE  IsTurn(p[j], r) \/ \E i \in DOMAIN transcript : p[j] = transcript[i]
  <2>1. CASE j = Len(o) + 1 BY <2>1, <1>5, <1>2
  <2>2. CASE j # Len(o) + 1
    <3>1. j \in DOMAIN o /\ p[j] = o[j] BY <2>2, <1>5, <1>6
    <3> QED BY <3>1, <1>4
  <2> QED BY <2>1, <2>2
<1>10. ASSUME NEW i \in DOMAIN transcript, ~IsTurn(transcript[i], r)
       PROVE  \E j \in DOMAIN p : p[j] = transcript[i]
  <2>1. i \in DOMAIN transcript \ Owned(r) BY <1>10 DEF Owned, IsTurn
  <2>2. PICK j \in DOMAIN o : o[j] = transcript[i] BY <2>1, <1>4
  <2>3. j \in DOMAIN p /\ p[j] = o[j] BY <1>5, <1>6
  <2> QED BY <2>2, <2>3
<1>11. ASSUME NEW j \in DOMAIN p, NEW k \in DOMAIN p, NEW q \in DOMAIN runs,
              IsTurn(p[j], q), IsTurn(p[k], q)
       PROVE  j = k
  <2>1. CASE j = Len(o) + 1 /\ k # Len(o) + 1
    <3>1. q = r BY <2>1, <1>11, <1>5, <1>2
    <3>2. k \in DOMAIN o /\ p[k] = o[k] BY <2>1, <1>5, <1>6
    <3> QED BY <3>1, <3>2, <1>7, <1>11
  <2>2. CASE k = Len(o) + 1 /\ j # Len(o) + 1
    <3>1. q = r BY <2>2, <1>11, <1>5, <1>2
    <3>2. j \in DOMAIN o /\ p[j] = o[j] BY <2>2, <1>5, <1>6
    <3> QED BY <3>1, <3>2, <1>7, <1>11
  <2>3. CASE j # Len(o) + 1 /\ k # Len(o) + 1
    <3>1. j \in DOMAIN o /\ p[j] = o[j] /\ k \in DOMAIN o /\ p[k] = o[k] BY <2>3, <1>5, <1>6
    <3> QED BY <3>1, <1>4, <1>11
  <2> QED BY <2>1, <2>2, <2>3
<1> QED BY <1>5, <1>8, <1>9, <1>10, <1>11 DEF p

-----------------------------------------------------------------------------
(* The steps. *)

LEMMA ChatInitially == ChatInit => ChatInv
<1> SUFFICES ASSUME ChatInit PROVE ChatInv OBVIOUS
<1>1. chat \in Chats BY ChatAssumption DEF ChatInit
<1>2. runs = <<>> /\ transcript = <<>> /\ DOMAIN runs = {} /\ DOMAIN transcript = {} BY DEF ChatInit
<1>3. ChatTypes BY <1>1, <1>2 DEF ChatInit, ChatTypes, Place
<1> QED BY <1>2, <1>3 DEF ChatInv, StayedIsSeeded, TurnsAreSingle,
                         TurnsHaveBegun, StayedIsThere

(* A run that begins, goes on or ends. *)
LEMMA SplicingKeeps ==
  ASSUME ChatInv, NEW r \in DOMAIN runs, NEW st \in {"stream", "over"},
         runs[r].stage \in {"token", "stream"},
         runs' = [runs EXCEPT ![r].stage = st], transcript' = Spliced(r),
         UNCHANGED <<context, chat, seeded>>, abort' \in 0..Len(runs), pending' \in 0..Len(runs)
  PROVE  ChatInv'
<1> DEFINE p == Spliced(r)
<1>1. runs \in Seq(Run) /\ DOMAIN runs = 1..Len(runs) /\ Len(runs) \in Nat BY DEF ChatInv, ChatTypes
<1>2. /\ p \in Seq(Message)
      /\ \E j \in DOMAIN p : IsTurn(p[j], r)
      /\ \A j \in DOMAIN p : \/ IsTurn(p[j], r)
                              \/ \E i \in DOMAIN transcript : p[j] = transcript[i]
      /\ \A i \in DOMAIN transcript :
           ~IsTurn(transcript[i], r) => \E j \in DOMAIN p : p[j] = transcript[i]
      /\ \A j, k \in DOMAIN p, q \in DOMAIN runs : IsTurn(p[j], q) /\ IsTurn(p[k], q) => j = k
  BY SplicedIsWhole
<1>3. transcript' = p OBVIOUS
<1> HIDE DEF p
<1>4. /\ runs' \in Seq(Run) /\ Len(runs') = Len(runs) /\ DOMAIN runs' = DOMAIN runs
      /\ runs'[r] = [runs[r] EXCEPT !.stage = st]
      /\ \A q \in DOMAIN runs : q # r => runs'[q] = runs[q]
  <2>1. runs[r] \in Run BY <1>1
  <2>2. [runs[r] EXCEPT !.stage = st] \in Run BY <2>1 DEF Run
  <2> QED BY <1>1, <2>2
<1>5. \A q \in DOMAIN runs : /\ runs'[q].kind = runs[q].kind /\ runs'[q].file = runs[q].file
                             /\ runs'[q].session = runs[q].session /\ runs'[q].stayed = runs[q].stayed
                             /\ q # r => runs'[q].stage = runs[q].stage
  <2>1. runs[r] \in Run BY <1>1
  <2> QED BY <1>4, <2>1 DEF Run
<1>6. runs'[r].stage = st BY <1>4, <1>1 DEF Run
<1>7. \A i \in DOMAIN p : p[i].run \in 0..Len(runs)
  <2> TAKE i \in DOMAIN p
  <2>1. CASE IsTurn(p[i], r) BY <2>1, <1>1 DEF IsTurn
  <2>2. CASE \E k \in DOMAIN transcript : p[i] = transcript[k] BY <2>2 DEF ChatInv, ChatTypes
  <2> QED BY <2>1, <2>2, <1>2
<1>8. ChatTypes'
  BY <1>2, <1>3, <1>4, <1>7 DEF ChatInv, ChatTypes
<1>10. StayedIsSeeded' BY <1>4, <1>5 DEF ChatInv, StayedIsSeeded
<1>11. TurnsAreSingle' BY <1>2, <1>3, <1>4 DEF TurnsAreSingle
<1>12. TurnsHaveBegun'
  <2> SUFFICES ASSUME NEW q \in DOMAIN runs, runs'[q].stage \in {"token", "refused"},
                      NEW i \in DOMAIN p, IsTurn(p[i], q)
               PROVE  FALSE
    BY <1>3, <1>4 DEF TurnsHaveBegun
  <2>1. q # r BY <1>6
  <2>2. runs[q].stage \in {"token", "refused"} BY <2>1, <1>5
  <2>3. ~IsTurn(p[i], r) BY <2>1 DEF IsTurn
  <2>4. PICK k \in DOMAIN transcript : p[i] = transcript[k] BY <2>3, <1>2
  <2> QED BY <2>2, <2>4 DEF ChatInv, TurnsHaveBegun
<1>13. StayedIsThere'
  <2> SUFFICES ASSUME NEW q \in DOMAIN runs, runs[q].kind = "process", runs[q].stayed
               PROVE  /\ \E i \in DOMAIN p : IsLine(p[i], q)
                      /\ runs'[q].stage \in {"stream", "over"} => \E i \in DOMAIN p : IsTurn(p[i], q)
    BY <1>3, <1>4, <1>5 DEF StayedIsThere
  <2>1. PICK i \in DOMAIN transcript : IsLine(transcript[i], q) BY DEF ChatInv, StayedIsThere
  <2>2. ~IsTurn(transcript[i], r) BY <2>1 DEF IsLine, IsTurn
  <2>3. \E j \in DOMAIN p : IsLine(p[j], q) BY <2>1, <2>2, <1>2
  <2>4. ASSUME q # r, runs[q].stage \in {"stream", "over"}
        PROVE  \E j \in DOMAIN p : IsTurn(p[j], q)
    <3>1. PICK k \in DOMAIN transcript : IsTurn(transcript[k], q) BY <2>4 DEF ChatInv, StayedIsThere
    <3>2. ~IsTurn(transcript[k], r) BY <3>1, <2>4 DEF IsTurn
    <3> QED BY <3>1, <3>2, <1>2
  <2> QED BY <2>3, <2>4, <1>2, <1>5
<1> QED BY <1>8, <1>10, <1>11, <1>12, <1>13 DEF ChatInv

(* The replay of a case leaves the transcript as it is or leaves the replay alone. *)
LEMMA ReplayLeaves ==
  ASSUME NEW c \in Place, NEW here \in Place, NEW known, NEW s \in Seq(Message), Replay(c, here, known, s)
  PROVE  /\ seeded' \in Place
         /\ transcript' = s \/ transcript' = <<Saying("replay", c, 0)>>
         /\ c \in Files /\ here = c => seeded' = c /\ transcript' = s
BY ChatAssumption DEF Replay, Place

LEMMA ReplayedIsNobodys ==
  ASSUME NEW c \in Place
  PROVE  LET p == <<Saying("replay", c, 0)>>
         IN /\ p \in Seq(Message) /\ DOMAIN p = {1}
            /\ p[1].run = 0 /\ \A q : ~IsTurn(p[1], q) /\ ~IsLine(p[1], q)
<1> DEFINE m == Saying("replay", c, 0)
<1>1. m \in Message /\ m.run = 0 /\ m.kind = "replay" BY DEF Saying, Message
<1> HIDE DEF m
<1> QED BY <1>1 DEF IsTurn, IsLine, m

LEMMA StayingRuns ==
  ASSUME ChatInv, NEW c
  PROVE  /\ Staying(c) \in Seq(Run) /\ Len(Staying(c)) = Len(runs) /\ DOMAIN Staying(c) = DOMAIN runs
         /\ \A r \in DOMAIN runs :
              /\ Staying(c)[r].kind = runs[r].kind /\ Staying(c)[r].stage = runs[r].stage
              /\ Staying(c)[r].aborted = runs[r].aborted
              /\ Staying(c)[r].stayed = (runs[r].stayed /\ c = context)
<1>1. runs \in Seq(Run) /\ DOMAIN runs = 1..Len(runs) /\ Len(runs) \in Nat BY DEF ChatInv, ChatTypes
<1>2. ASSUME NEW r \in DOMAIN runs
      PROVE  LET x == [runs[r] EXCEPT !.stayed = @ /\ c = context]
             IN  /\ x \in Run /\ x.kind = runs[r].kind /\ x.stage = runs[r].stage
                 /\ x.aborted = runs[r].aborted /\ x.stayed = (runs[r].stayed /\ c = context)
  <2>1. runs[r] \in Run BY <1>1
  <2>2. (runs[r].stayed /\ c = context) \in BOOLEAN OBVIOUS
  <2> QED BY <2>1, <2>2 DEF Run
<1>3. Staying(c) \in Seq(Run) /\ Len(Staying(c)) = Len(runs) /\ DOMAIN Staying(c) = DOMAIN runs
  BY <1>1, <1>2 DEF Staying
<1> QED BY <1>2, <1>3 DEF Staying

(* The operator goes elsewhere, comes back, or clears the transcript: a run that stays saw
   nothing of it. *)
LEMMA LeavingKeeps ==
  ASSUME ChatInv, NEW c \in Place,
         runs' \in Seq(Run), Len(runs') = Len(runs), DOMAIN runs' = DOMAIN runs,
         \A r \in DOMAIN runs : runs'[r].kind = runs[r].kind /\ runs'[r].stage = runs[r].stage,
         \A r \in DOMAIN runs : runs[r].kind = "process" /\ runs'[r].stayed =>
           runs[r].stayed /\ UNCHANGED <<context, seeded, transcript>>,
         transcript' = transcript \/ transcript' = <<>> \/ transcript' = <<Saying("replay", c, 0)>>,
         context' \in Place, chat' \in Chats, seeded' \in Place,
         abort' \in 0..Len(runs), pending' \in 0..Len(runs)
  PROVE  ChatInv'
<1>1. runs \in Seq(Run) /\ DOMAIN runs = 1..Len(runs) /\ Len(runs) \in Nat BY DEF ChatInv, ChatTypes
<1>4. /\ transcript' \in Seq(Message)
      /\ \A i \in DOMAIN transcript' : transcript'[i].run \in 0..Len(runs)
      /\ \A i, j \in DOMAIN transcript', r \in DOMAIN runs :
           IsTurn(transcript'[i], r) /\ IsTurn(transcript'[j], r) => i = j
      /\ \A i \in DOMAIN transcript', r \in DOMAIN runs :
           IsTurn(transcript'[i], r) => i \in DOMAIN transcript /\ transcript'[i] = transcript[i]
  <2>1. CASE transcript' = transcript BY <2>1 DEF ChatInv, ChatTypes, TurnsAreSingle
  <2>2. CASE transcript' = <<>> BY <2>2
  <2>3. CASE transcript' = <<Saying("replay", c, 0)>> BY <2>3, <1>1, ReplayedIsNobodys
  <2> QED BY <2>1, <2>2, <2>3
<1>5. ChatTypes' BY <1>4 DEF ChatTypes
<1>6. StayedIsSeeded'
  <2> SUFFICES ASSUME NEW r \in DOMAIN runs, runs'[r].kind = "process", runs'[r].stayed
               PROVE  context' \in Files /\ seeded' = context'
    BY DEF StayedIsSeeded
  <2> QED BY DEF ChatInv, StayedIsSeeded
<1>7. StayedIsThere'
  <2> SUFFICES ASSUME NEW r \in DOMAIN runs, runs'[r].kind = "process", runs'[r].stayed
               PROVE  /\ \E i \in DOMAIN transcript' : IsLine(transcript'[i], r)
                      /\ runs'[r].stage \in {"stream", "over"} => \E i \in DOMAIN transcript' : IsTurn(transcript'[i], r)
    BY DEF StayedIsThere
  <2>1. runs[r].kind = "process" /\ runs[r].stayed /\ transcript' = transcript /\ runs'[r].stage = runs[r].stage
    OBVIOUS
  <2> QED BY <2>1 DEF ChatInv, StayedIsThere
<1>8. TurnsAreSingle' BY <1>4 DEF TurnsAreSingle
<1>9. TurnsHaveBegun' BY <1>4 DEF ChatInv, TurnsHaveBegun
<1> QED BY <1>5, <1>6, <1>7, <1>8, <1>9 DEF ChatInv

(* A run begins, or is refused at once: it is the last of the runs. *)
LEMMA NewRuns ==
  ASSUME ChatInv, NEW k \in {"send", "process", "resume"}, NEW c \in Place,
         NEW sess \in {"chat", "case"} \X (Chats \cup Files), NEW h \in SUBSET Place,
         NewRun(k, c, sess, h), NEW n, n = Len(runs) + 1
  PROVE  /\ runs' \in Seq(Run) /\ Len(runs') = n /\ DOMAIN runs' = DOMAIN runs \cup {n}
         /\ n \notin DOMAIN runs /\ n \in Nat
         /\ runs'[n].kind = k /\ runs'[n].stage = IF ready THEN "token" ELSE "refused"
         /\ ~runs'[n].aborted /\ runs'[n].stayed
         /\ \A r \in DOMAIN runs :
              /\ runs'[r].kind = runs[r].kind /\ runs'[r].stage = runs[r].stage
              /\ runs'[r].aborted = runs[r].aborted
              /\ runs'[r].stayed = (runs[r].stayed /\ context' = context)
<1> DEFINE x == [kind |-> k, file |-> c, session |-> sess, aborted |-> FALSE, history |-> h,
                 stage |-> IF ready THEN "token" ELSE "refused", stayed |-> TRUE]
           old == Staying(context')
<1>1. x \in Run BY DEF Run
<1>2. /\ old \in Seq(Run) /\ Len(old) = Len(runs) /\ DOMAIN old = DOMAIN runs
      /\ \A r \in DOMAIN runs : /\ old[r].kind = runs[r].kind /\ old[r].stage = runs[r].stage
                                /\ old[r].aborted = runs[r].aborted
                                /\ old[r].stayed = (runs[r].stayed /\ context' = context)
  BY StayingRuns
<1>3. runs' = Append(old, x) BY DEF NewRun
<1>4. /\ x.kind = k /\ x.stage = IF ready THEN "token" ELSE "refused"
      /\ x.aborted = FALSE /\ x.stayed = TRUE
  OBVIOUS
<1>5. runs \in Seq(Run) /\ DOMAIN runs = 1..Len(runs) /\ Len(runs) \in Nat BY DEF ChatInv, ChatTypes
<1> HIDE DEF x, old
<1>6. /\ runs' \in Seq(Run) /\ DOMAIN runs' = DOMAIN old \cup {Len(old) + 1}
      /\ \A i \in DOMAIN old : runs'[i] = old[i]
      /\ runs'[Len(old) + 1] = x
  BY ONLY <1>1, <1>2, <1>3, Appended
<1>7. Len(runs') = n BY <1>1, <1>2, <1>3
<1>8. n \in Nat /\ n \notin DOMAIN runs BY <1>5
<1> QED BY <1>2, <1>4, <1>6, <1>7, <1>8

(* It has a line of its own or none, and the rest of the transcript stays. *)
LEMMA StartingKeeps ==
  ASSUME ChatInv, NEW k \in {"send", "process", "resume"}, NEW c \in Place,
         NEW sess \in {"chat", "case"} \X (Chats \cup Files), NEW h \in SUBSET Place,
         NewRun(k, c, sess, h),
         NEW t, t = transcript \/ t = Append(transcript, Saying("user", c, ThisRun)),
         k = "process" => /\ t = Append(transcript, Saying("user", c, ThisRun))
                          /\ c \in Files /\ context' = c /\ seeded' = c /\ chat' = chat,
         k # "process" => UNCHANGED <<context, chat, seeded>>,
         transcript' = t, abort' \in 0..Len(runs), pending' = 0
  PROVE  ChatInv'
<1> DEFINE n == Len(runs) + 1
           m == Saying("user", c, n)
<1>1. /\ runs \in Seq(Run) /\ DOMAIN runs = 1..Len(runs) /\ Len(runs) \in Nat
      /\ transcript \in Seq(Message) /\ DOMAIN transcript = 1..Len(transcript) /\ Len(transcript) \in Nat
      /\ \A i \in DOMAIN transcript : transcript[i].run \in 0..Len(runs)
  BY DEF ChatInv, ChatTypes
<1>3. /\ runs' \in Seq(Run) /\ Len(runs') = n /\ DOMAIN runs' = DOMAIN runs \cup {n}
      /\ n \notin DOMAIN runs /\ n \in Nat
      /\ runs'[n].kind = k /\ runs'[n].stage \in {"token", "refused"}
      /\ \A r \in DOMAIN runs : /\ runs'[r].kind = runs[r].kind /\ runs'[r].stage = runs[r].stage
                                /\ runs'[r].stayed = (runs[r].stayed /\ context' = context)
  <2>1. n = Len(runs) + 1 OBVIOUS
  <2> HIDE DEF n
  <2> QED BY ONLY <2>1, ChatInv, NewRun(k, c, sess, h), k \in {"send", "process", "resume"}, c \in Place,
                  sess \in {"chat", "case"} \X (Chats \cup Files), h \in SUBSET Place, NewRuns
<1>4. m \in Message /\ m.run = n /\ IsLine(m, n) /\ \A r : ~IsTurn(m, r)
  BY <1>1 DEF Saying, Message, IsLine, IsTurn
<1>6. t = transcript \/ t = Append(transcript, m) BY DEF ThisRun
<1>7. k = "process" => t = Append(transcript, m) BY DEF ThisRun
<1> HIDE DEF m, n
<1>8. /\ t \in Seq(Message)
      /\ \A i \in DOMAIN transcript : i \in DOMAIN t /\ t[i] = transcript[i]
      /\ \A i \in DOMAIN t : i \in DOMAIN transcript \/ t[i] = m
  <2>1. CASE t = transcript BY ONLY <2>1, <1>1
  <2>2. CASE t = Append(transcript, m)
    <3>1. /\ t \in Seq(Message) /\ DOMAIN t = DOMAIN transcript \cup {Len(transcript) + 1}
          /\ \A i \in DOMAIN transcript : t[i] = transcript[i]
          /\ t[Len(transcript) + 1] = m
      BY ONLY <2>2, <1>1, <1>4, Appended
    <3> QED BY ONLY <3>1
  <2> QED BY <2>1, <2>2, <1>6
<1>9. k = "process" => \E i \in DOMAIN t : t[i] = m
  <2> SUFFICES ASSUME t = Append(transcript, m) PROVE \E i \in DOMAIN t : t[i] = m BY <1>7
  <2>1. DOMAIN t = DOMAIN transcript \cup {Len(transcript) + 1} /\ t[Len(transcript) + 1] = m
    BY ONLY t = Append(transcript, m), <1>1, <1>4, Appended
  <2> QED BY ONLY <2>1
<1>10. \A i \in DOMAIN t : t[i].run \in 0..n
  <2>1. n = Len(runs) + 1 BY DEF n
  <2> QED BY <2>1, <1>1, <1>4, <1>8
<1>11. \A i \in DOMAIN t : \A r : IsTurn(t[i], r) => i \in DOMAIN transcript /\ transcript[i] = t[i]
  BY <1>4, <1>8
<1>12. \A i \in DOMAIN transcript : ~IsTurn(transcript[i], n)
  BY <1>1 DEF IsTurn, n
<1>13. ChatTypes'
  <2>1. context' \in Place /\ chat' \in Chats /\ seeded' \in Place
    BY DEF ChatInv, ChatTypes
  <2>2. abort' \in 0..n /\ pending' \in 0..n BY <1>1 DEF n
  <2> QED BY <2>1, <2>2, <1>3, <1>8, <1>10 DEF ChatTypes
<1>15. StayedIsSeeded'
  <2> SUFFICES ASSUME NEW r \in DOMAIN runs', runs'[r].kind = "process", runs'[r].stayed
               PROVE  context' \in Files /\ seeded' = context'
    BY DEF StayedIsSeeded
  <2>1. CASE k = "process" BY <2>1
  <2>2. CASE k # "process"
    <3>1. r \in DOMAIN runs /\ runs[r].kind = "process" /\ runs[r].stayed BY <2>2, <1>3
    <3> QED BY <2>2, <3>1 DEF ChatInv, StayedIsSeeded
  <2> QED BY <2>1, <2>2
<1>16. TurnsAreSingle'
  <2> SUFFICES ASSUME NEW i \in DOMAIN t, NEW j \in DOMAIN t, NEW r \in DOMAIN runs',
                      IsTurn(t[i], r), IsTurn(t[j], r)
               PROVE  i = j
    BY DEF TurnsAreSingle
  <2>1. i \in DOMAIN transcript /\ IsTurn(transcript[i], r) /\ j \in DOMAIN transcript /\ IsTurn(transcript[j], r)
    BY <1>11
  <2>2. r # n BY <2>1, <1>12
  <2> QED BY <2>1, <2>2, <1>3 DEF ChatInv, TurnsAreSingle
<1>17. TurnsHaveBegun'
  <2> SUFFICES ASSUME NEW r \in DOMAIN runs', runs'[r].stage \in {"token", "refused"},
                      NEW i \in DOMAIN t, IsTurn(t[i], r)
               PROVE  FALSE
    BY DEF TurnsHaveBegun
  <2>1. i \in DOMAIN transcript /\ IsTurn(transcript[i], r) BY <1>11
  <2>2. r # n BY <2>1, <1>12
  <2> QED BY <2>1, <2>2, <1>3 DEF ChatInv, TurnsHaveBegun
<1>18. StayedIsThere'
  <2> SUFFICES ASSUME NEW r \in DOMAIN runs', runs'[r].kind = "process", runs'[r].stayed
               PROVE  /\ \E i \in DOMAIN t : IsLine(t[i], r)
                      /\ runs'[r].stage \in {"stream", "over"} => \E i \in DOMAIN t : IsTurn(t[i], r)
    BY DEF StayedIsThere
  <2>1. CASE r = n
    <3>1. \E i \in DOMAIN t : IsLine(t[i], n) BY <2>1, <1>3, <1>4, <1>9
    <3> QED BY <3>1, <2>1, <1>3
  <2>2. CASE r # n
    <3>1. r \in DOMAIN runs /\ runs[r].kind = "process" /\ runs[r].stayed /\ runs'[r].stage = runs[r].stage
      BY <2>2, <1>3
    <3> QED BY <3>1, <1>8 DEF ChatInv, StayedIsThere
  <2> QED BY <2>1, <2>2
<1> QED BY <1>13, <1>15, <1>16, <1>17, <1>18 DEF ChatInv

(* A run gets no token: its last line, or nobody's, is garbled, or a notice is left. *)
LEMMA RefusingKeeps == ASSUME ChatInv, NEW r \in DOMAIN runs, NoToken(r) PROVE ChatInv'
<1>1. /\ runs \in Seq(Run) /\ DOMAIN runs = 1..Len(runs) /\ Len(runs) \in Nat /\ runs[r] \in Run
      /\ transcript \in Seq(Message) /\ DOMAIN transcript = 1..Len(transcript) /\ Len(transcript) \in Nat
      /\ \A i \in DOMAIN transcript : transcript[i].run \in 0..Len(runs)
  BY DEF ChatInv, ChatTypes
<1>2. runs[r].stage = "token" /\ runs' = [runs EXCEPT ![r].stage = "refused"] BY DEF NoToken
<1> DEFINE x == [runs[r] EXCEPT !.stage = "refused"]
<1>3. /\ x \in Run /\ x.kind = runs[r].kind /\ x.file = runs[r].file /\ x.session = runs[r].session
      /\ x.stayed = runs[r].stayed /\ x.stage = "refused"
  BY <1>1 DEF Run
<1>3a. runs' = [runs EXCEPT ![r] = x] BY <1>1, <1>2
<1> HIDE DEF x
<1>4. /\ runs' \in Seq(Run) /\ Len(runs') = Len(runs) /\ DOMAIN runs' = DOMAIN runs
      /\ \A q \in DOMAIN runs : /\ runs'[q].kind = runs[q].kind /\ runs'[q].file = runs[q].file
                               /\ runs'[q].session = runs[q].session /\ runs'[q].stayed = runs[q].stayed
                               /\ runs'[q].stage = IF q = r THEN "refused" ELSE runs[q].stage
  <2>1. /\ runs' \in Seq(Run) /\ Len(runs') = Len(runs) /\ DOMAIN runs' = DOMAIN runs
        /\ \A q \in DOMAIN runs : runs'[q] = IF q = r THEN x ELSE runs[q]
    BY <1>1, <1>3, <1>3a, Replaced
  <2> QED BY <2>1, <1>3
<1> DEFINE m == Saying("notice", runs[r].file, r)
           g == [transcript EXCEPT ![Len(transcript)].garbled = TRUE]
           t == transcript'
<1>5. m \in Message /\ m.run = r /\ \A q : ~IsTurn(m, q)
  BY <1>1 DEF Saying, Message, IsTurn, Run
<1>6. \/ transcript' = transcript
      \/ transcript # <<>> /\ transcript' = g
      \/ transcript' = Append(transcript, m)
  BY DEF NoToken
<1>7. /\ t \in Seq(Message)
      /\ \A i \in DOMAIN transcript : i \in DOMAIN t /\ t[i].kind = transcript[i].kind /\ t[i].run = transcript[i].run
      /\ \A i \in DOMAIN t : i \in DOMAIN transcript \/ t[i] = m
  <2> HIDE DEF m
  <2>1. CASE transcript' = transcript BY <2>1, <1>1
  <2>2. CASE transcript # <<>> /\ transcript' = g
    <3>1. PICK n \in DOMAIN transcript : n = Len(transcript) BY <2>2, <1>1
    <3> DEFINE y == [transcript[n] EXCEPT !.garbled = TRUE]
    <3>2. transcript[n] \in Message BY <1>1
    <3>3. y \in Message /\ y.kind = transcript[n].kind /\ y.run = transcript[n].run BY <3>2 DEF Message
    <3>4. t = [transcript EXCEPT ![n] = y] BY <2>2, <3>1
    <3> HIDE DEF y
    <3>5. /\ t \in Seq(Message) /\ DOMAIN t = DOMAIN transcript
          /\ \A i \in DOMAIN transcript : t[i] = IF i = n THEN y ELSE transcript[i]
      BY <3>3, <3>4, <1>1, Replaced
    <3> QED BY <3>3, <3>5
  <2>3. CASE transcript' = Append(transcript, m)
    <3>1. /\ t \in Seq(Message) /\ DOMAIN t = DOMAIN transcript \cup {Len(transcript) + 1}
          /\ \A i \in DOMAIN transcript : t[i] = transcript[i]
          /\ t[Len(transcript) + 1] = m
      BY ONLY <2>3, <1>1, <1>5, Appended
    <3> QED BY ONLY <3>1
  <2> QED BY <1>6, <2>1, <2>2, <2>3
<1>8. \A i \in DOMAIN t : t[i].run \in 0..Len(runs)
  BY <1>1, <1>5, <1>7
<1> HIDE DEF m, t, g
<1>9. \A i \in DOMAIN t : \A q : IsTurn(t[i], q) => i \in DOMAIN transcript /\ IsTurn(transcript[i], q)
  BY <1>5, <1>7 DEF IsTurn
<1>10. \A i \in DOMAIN transcript : \A q : /\ IsTurn(transcript[i], q) => i \in DOMAIN t /\ IsTurn(t[i], q)
                                           /\ IsLine(transcript[i], q) => i \in DOMAIN t /\ IsLine(t[i], q)
  BY <1>7 DEF IsTurn, IsLine
<1>11. transcript' = t BY DEF t
<1>12. ChatTypes'
  <2>1. context' = context /\ chat' = chat /\ seeded' = seeded /\ pending' = pending /\ abort' \in {0, abort}
    BY DEF NoToken
  <2> QED BY <2>1, <1>1, <1>4, <1>7, <1>8, <1>11 DEF ChatInv, ChatTypes
<1>14. StayedIsSeeded' BY <1>4 DEF ChatInv, StayedIsSeeded, NoToken
<1>15. TurnsAreSingle' BY <1>4, <1>9, <1>11 DEF ChatInv, TurnsAreSingle
<1>16. TurnsHaveBegun' BY <1>2, <1>4, <1>9, <1>11 DEF ChatInv, TurnsHaveBegun
<1>17. StayedIsThere' BY <1>2, <1>4, <1>10, <1>11 DEF ChatInv, StayedIsThere
<1> QED BY <1>12, <1>14, <1>15, <1>16, <1>17 DEF ChatInv

(* The record of the case in context arrives: it is not replayed over a run that stayed. *)
LEMMA ArrivingKeeps == ASSUME ChatInv, NEW c \in Files, RecordArrives(c) PROVE ChatInv'
<1>1. c = context /\ context \in Place /\ seeded \in Place /\ transcript \in Seq(Message) /\ runs \in Seq(Run)
  BY DEF ChatInv, ChatTypes, RecordArrives
<1>2. UNCHANGED <<context, chat, runs, abort, pending>> BY DEF RecordArrives
<1>3. /\ seeded' \in Place
      /\ transcript' = transcript \/ transcript' = <<Saying("replay", c, 0)>>
      /\ seeded = c => seeded' = c /\ transcript' = transcript
  BY <1>1, ReplayLeaves DEF RecordArrives
<1>4. /\ transcript' \in Seq(Message)
      /\ \A i \in DOMAIN transcript' : transcript'[i].run \in 0..Len(runs)
      /\ \A i, j \in DOMAIN transcript', r \in DOMAIN runs :
           IsTurn(transcript'[i], r) /\ IsTurn(transcript'[j], r) => i = j
      /\ \A i \in DOMAIN transcript', r \in DOMAIN runs :
           IsTurn(transcript'[i], r) => i \in DOMAIN transcript /\ transcript'[i] = transcript[i]
  <2>1. CASE transcript' = transcript BY <2>1 DEF ChatInv, ChatTypes, TurnsAreSingle
  <2>2. CASE transcript' = <<Saying("replay", c, 0)>> BY <2>2, <1>1, ReplayedIsNobodys
  <2> QED BY <2>1, <2>2, <1>3
<1>5. ChatTypes' BY <1>2, <1>3, <1>4 DEF ChatInv, ChatTypes
<1>7. TurnsAreSingle' /\ TurnsHaveBegun' BY <1>2, <1>4 DEF ChatInv, TurnsAreSingle, TurnsHaveBegun
<1>8. StayedIsSeeded' /\ StayedIsThere'
  <2>1. CASE \E r \in DOMAIN runs : runs[r].kind = "process" /\ runs[r].stayed
    <3>1. seeded = c BY <2>1, <1>1 DEF ChatInv, StayedIsSeeded
    <3>2. transcript' = transcript /\ seeded' = seeded BY <3>1, <1>3
    <3> QED BY <3>2, <1>2 DEF ChatInv, StayedIsSeeded, StayedIsThere
  <2>2. CASE ~\E r \in DOMAIN runs : runs[r].kind = "process" /\ runs[r].stayed
    BY <2>2, <1>2 DEF StayedIsSeeded, StayedIsThere
  <2> QED BY <2>1, <2>2
<1> QED BY <1>5, <1>7, <1>8 DEF ChatInv

(* Stop aborts a run, which leaves the transcript as it is. *)
LEMMA StoppingKeeps == ASSUME ChatInv, StopRun PROVE ChatInv'
<1>1. runs \in Seq(Run) /\ DOMAIN runs = 1..Len(runs) /\ Len(runs) \in Nat /\ abort \in 0..Len(runs)
  BY DEF ChatInv, ChatTypes
<1>2. /\ runs' \in Seq(Run) /\ Len(runs') = Len(runs) /\ DOMAIN runs' = DOMAIN runs
      /\ \A q \in DOMAIN runs : /\ runs'[q].kind = runs[q].kind /\ runs'[q].file = runs[q].file
                               /\ runs'[q].session = runs[q].session /\ runs'[q].stayed = runs[q].stayed
                               /\ runs'[q].stage = runs[q].stage
  <2>1. CASE abort = 0 BY <2>1, <1>1 DEF StopRun
  <2>2. CASE abort # 0
    <3>1. abort \in DOMAIN runs /\ runs[abort] \in Run BY <2>2, <1>1
    <3> DEFINE x == [runs[abort] EXCEPT !.aborted = TRUE]
    <3>2. /\ x \in Run /\ x.kind = runs[abort].kind /\ x.file = runs[abort].file /\ x.stage = runs[abort].stage
          /\ x.session = runs[abort].session /\ x.stayed = runs[abort].stayed
      BY <3>1 DEF Run
    <3>3. runs' = [runs EXCEPT ![abort] = x] BY <2>2, <3>1 DEF StopRun
    <3> HIDE DEF x
    <3>4. /\ runs' \in Seq(Run) /\ Len(runs') = Len(runs) /\ DOMAIN runs' = DOMAIN runs
          /\ \A q \in DOMAIN runs : runs'[q] = IF q = abort THEN x ELSE runs[q]
      BY <3>1, <3>2, <3>3, <1>1, Replaced
    <3> QED BY <3>2, <3>4
  <2> QED BY <2>1, <2>2
<1>3. UNCHANGED <<context, chat, seeded, transcript>> /\ abort' = 0 /\ pending' = 0 BY DEF StopRun
<1>4. ChatTypes' BY <1>1, <1>2, <1>3 DEF ChatInv, ChatTypes
<1> QED BY <1>2, <1>3, <1>4 DEF ChatInv, StayedIsSeeded, TurnsAreSingle,
                              TurnsHaveBegun, StayedIsThere

LEMMA SessionsAreTyped ==
  ASSUME ChatInv, NEW c \in Place
  PROVE  SessionOf(c) \in {"chat", "case"} \X (Chats \cup Files)
<1>1. chat \in Chats BY DEF ChatInv, ChatTypes
<1> QED BY <1>1 DEF SessionOf, Place

LEMMA HistoryIsTyped == ChatInv => History \in SUBSET Place
<1> SUFFICES ASSUME ChatInv, NEW i \in DOMAIN transcript PROVE transcript[i].file \in Place BY DEF History
<1>1. transcript[i] \in Message BY DEF ChatInv, ChatTypes
<1> QED BY <1>1 DEF Message

LEMMA ChatInductive == ChatInv /\ [ChatNext]_chatvars => ChatInv'
<1> SUFFICES ASSUME ChatInv, [ChatNext]_chatvars PROVE ChatInv' OBVIOUS
<1> USE DEF ChatTypes
<1>1. /\ context \in Place /\ chat \in Chats /\ seeded \in Place /\ transcript \in Seq(Message)
      /\ abort \in 0..Len(runs) /\ pending \in 0..Len(runs) /\ Len(runs) \in Nat /\ runs \in Seq(Run)
  BY DEF ChatInv
<1>2. ASSUME NEW c \in Files \cup {NoFile}, NEW leaves \in BOOLEAN, Navigate(c, leaves) PROVE ChatInv'
  <2>1. c \in Place BY DEF Place
  <2>2. /\ seeded' \in Place /\ (transcript' = transcript \/ transcript' = <<Saying("replay", c, 0)>>)
        /\ c \in Files /\ seeded = c => seeded' = c /\ transcript' = transcript
    BY <1>1, <1>2, <2>1, ReplayLeaves DEF Navigate
  <2>3. runs' = Staying(c) /\ context' = c /\ chat' = chat /\ abort' = abort /\ pending' = pending
    BY <1>2 DEF Navigate
  <2>4. /\ runs' \in Seq(Run) /\ Len(runs') = Len(runs) /\ DOMAIN runs' = DOMAIN runs
        /\ \A r \in DOMAIN runs : /\ runs'[r].kind = runs[r].kind /\ runs'[r].stage = runs[r].stage
                                  /\ runs'[r].stayed = (runs[r].stayed /\ c = context)
    BY <2>3, StayingRuns
  <2>5. ASSUME NEW r \in DOMAIN runs, runs[r].kind = "process", runs'[r].stayed
        PROVE  runs[r].stayed /\ UNCHANGED <<context, seeded, transcript>>
    <3>1. runs[r].stayed /\ c = context BY <2>4, <2>5
    <3>2. context \in Files /\ seeded = context BY <3>1, <2>5 DEF ChatInv, StayedIsSeeded
    <3> QED BY <3>1, <3>2, <2>2, <2>3
  <2> QED BY <1>1, <2>1, <2>2, <2>3, <2>4, <2>5, LeavingKeeps
<1>3. ASSUME Clear PROVE ChatInv'
  <2>1. /\ runs' = [r \in DOMAIN runs |-> [runs[r] EXCEPT !.stayed = FALSE]]
        /\ context' = context /\ seeded' = seeded /\ abort' = abort /\ pending' = 0
        /\ transcript' = <<>> /\ chat' \in Chats
    BY <1>1, <1>3 DEF Clear
  <2>2. NoFile \in Place BY DEF Place
  <2>3. ASSUME NEW r \in DOMAIN runs
        PROVE  LET x == [runs[r] EXCEPT !.stayed = FALSE]
               IN x \in Run /\ x.kind = runs[r].kind /\ x.stage = runs[r].stage /\ ~x.stayed
    <3>1. runs[r] \in Run BY <1>1
    <3> QED BY <3>1 DEF Run
  <2>4. runs' \in Seq(Run) /\ Len(runs') = Len(runs) /\ DOMAIN runs' = DOMAIN runs
    <3>1. DOMAIN runs = 1..Len(runs) /\ \A r \in 1..Len(runs) : [runs[r] EXCEPT !.stayed = FALSE] \in Run
      BY <1>1, <2>3
    <3> QED BY ONLY <3>1, <2>1, <1>1
  <2>5. \A r \in DOMAIN runs : /\ runs'[r].kind = runs[r].kind /\ runs'[r].stage = runs[r].stage
                               /\ ~runs'[r].stayed
    BY <2>1, <2>3
  <2> QED BY <1>1, <2>1, <2>2, <2>4, <2>5, LeavingKeeps
<1>4. ASSUME NEW c \in Files, ProcessCase(c) PROVE ChatInv'
  <2> DEFINE t == Append(transcript, Saying("user", c, ThisRun))
  <2>1. c \in Place /\ c # NoFile BY ChatAssumption DEF Place
  <2>2. Saying("user", c, ThisRun) \in Message BY <1>1, <2>1 DEF Saying, Message, ThisRun
  <2>3. t \in Seq(Message) BY <1>1, <2>2
  <2>4. Replay(c, c, loaded, t) BY <1>4 DEF ProcessCase
  <2> HIDE DEF t
  <2>5. seeded' = c /\ transcript' = t BY <2>1, <2>3, <2>4, ReplayLeaves
  <2>6. NewRun("process", c, <<"case", c>>, History) BY <1>4 DEF ProcessCase
  <2>7. context' = c /\ chat' = chat /\ abort' = abort /\ pending' = 0 BY <1>4 DEF ProcessCase
  <2>8. <<"case", c>> \in {"chat", "case"} \X (Chats \cup Files) /\ History \in SUBSET Place
    BY HistoryIsTyped
  <2>9. t = Append(transcript, Saying("user", c, ThisRun)) BY DEF t
  <2> QED BY <1>1, <2>1, <2>5, <2>6, <2>7, <2>8, <2>9, StartingKeeps
<1>5. ASSUME SendLine PROVE ChatInv'
  <2>1. NewRun("send", context, SessionOf(context), History) BY <1>5 DEF SendLine
  <2>2. /\ transcript' = Append(transcript, Saying("user", context, ThisRun))
        /\ UNCHANGED <<context, chat, seeded>> /\ abort' = abort /\ pending' = 0
    BY <1>5 DEF SendLine
  <2> QED BY <1>1, <2>1, <2>2, SessionsAreTyped, HistoryIsTyped, StartingKeeps
<1>6. ASSUME ReplayRequest PROVE ChatInv'
  <2>1. pending \in DOMAIN runs /\ runs[pending] \in Run BY <1>1, <1>6 DEF ReplayRequest
  <2>2. runs[pending].file \in Place /\ runs[pending].history \in SUBSET Place BY <2>1 DEF Run
  <2>3. NewRun("resume", runs[pending].file, SessionOf(context), runs[pending].history)
    BY <1>6 DEF ReplayRequest
  <2>4. UNCHANGED <<context, chat, seeded, transcript>> /\ abort' = abort /\ pending' = 0
    BY <1>6 DEF ReplayRequest
  <2> QED BY <1>1, <2>2, <2>3, <2>4, SessionsAreTyped, StartingKeeps
<1>7. ASSUME NEW r \in DOMAIN runs, BeginRun(r) PROVE ChatInv'
  <2>1. /\ runs[r].stage \in {"token", "stream"} /\ runs' = [runs EXCEPT ![r].stage = "stream"]
        /\ transcript' = Spliced(r) /\ UNCHANGED <<context, chat, seeded>>
        /\ abort' \in 0..Len(runs) /\ pending' = pending
    BY <1>1, <1>7 DEF BeginRun
  <2> QED BY <1>1, <2>1, SplicingKeeps
<1>8. ASSUME NEW r \in DOMAIN runs, EndRun(r) PROVE ChatInv'
  <2>1. /\ runs[r].stage \in {"token", "stream"} /\ runs' = [runs EXCEPT ![r].stage = "over"]
        /\ transcript' = Spliced(r) /\ UNCHANGED <<context, chat, seeded>>
        /\ abort' \in 0..Len(runs) /\ pending' \in 0..Len(runs)
    BY <1>1, <1>8 DEF EndRun, Over
  <2> QED BY <1>1, <2>1, SplicingKeeps
<1>9. ASSUME NEW r \in DOMAIN runs, NEW signin \in BOOLEAN, StreamEvent(r, signin) PROVE ChatInv'
  <2>1. /\ runs[r].stage = "stream" /\ runs' = runs /\ transcript' = Spliced(r)
        /\ UNCHANGED <<context, chat, seeded>> /\ abort' = abort /\ pending' \in {r, pending}
        /\ r \in 0..Len(runs)
    BY <1>1, <1>9 DEF StreamEvent
  <2>2. [runs EXCEPT ![r].stage = "stream"] = runs
    <3>1. runs[r] \in Run /\ runs = [q \in 1..Len(runs) |-> runs[q]] BY <1>1
    <3>2. [runs[r] EXCEPT !.stage = "stream"] = runs[r] BY <2>1, <3>1 DEF Run
    <3> QED BY <3>1, <3>2
  <2> QED BY <1>1, <2>1, <2>2, SplicingKeeps
<1>10. CASE ConfigArrives
  BY <1>10 DEF ConfigArrives, ChatInv, StayedIsSeeded, TurnsAreSingle, TurnsHaveBegun, StayedIsThere
<1>11. CASE UNCHANGED chatvars
  BY <1>11 DEF chatvars, ChatInv, StayedIsSeeded, TurnsAreSingle,
               TurnsHaveBegun, StayedIsThere
<1> QED BY <1>2, <1>3, <1>4, <1>5, <1>6, <1>7, <1>8, <1>9, <1>10, <1>11,
           RefusingKeeps, ArrivingKeeps, StoppingKeeps DEF ChatNext

(* Whatever the operator opens, stops, clears or sends again while runs go on, the
   transcript and the runs stay in step (useAgentChat.ts). *)
THEOREM ChatInvariant == ChatSpec => []ChatInv
BY ChatInitially, ChatInductive, PTL DEF ChatSpec

(* A run that is under way was asked for when the runtime was known, and so was a request
   that waits for a sign-in; Stop reaches no run before its stream. *)
ControlsInv ==
  /\ ControlsFollowRuns
  /\ \A r \in DOMAIN runs : /\ runs[r].stage # "refused" => ready
                            /\ runs[r].stage = "token" => ~runs[r].aborted
  /\ pending # 0 => ready

(* The operator opens a page, clears, or the configuration arrives: the runs go on. *)
LEMMA ControlsStay ==
  ASSUME ControlsInv, DOMAIN runs' = DOMAIN runs,
         \A r \in DOMAIN runs : /\ runs'[r].kind = runs[r].kind /\ runs'[r].stage = runs[r].stage
                                /\ runs'[r].aborted = runs[r].aborted,
         UNCHANGED <<rail, abort, loading>>, processing' \in {0, processing},
         pending' \in {0, pending}, ready => ready'
  PROVE  ControlsInv'
BY DEF ControlsInv, ControlsFollowRuns, Live

(* A run begins: what was shown of another goes on being shown of it. *)
LEMMA ControlsBegin ==
  ASSUME ChatInv, ControlsInv, NEW k \in {"send", "process", "resume"}, NEW c \in Place,
         NEW sess \in {"chat", "case"} \X (Chats \cup Files), NEW h \in SUBSET Place,
         NewRun(k, c, sess, h), UNCHANGED <<abort, ready>>, pending' = 0, loading' => ready,
         rail' \in {0, rail},
         processing' = processing \/ (k = "process" /\ processing' = IF ready THEN Len(runs) + 1 ELSE 0)
  PROVE  ControlsInv'
<1>1. PICK n : n = Len(runs) + 1 OBVIOUS
<1>2. /\ DOMAIN runs' = DOMAIN runs \cup {n}
      /\ n \notin DOMAIN runs /\ n \in Nat
      /\ runs'[n].kind = k /\ runs'[n].stage = IF ready THEN "token" ELSE "refused"
      /\ ~runs'[n].aborted
      /\ \A r \in DOMAIN runs : /\ runs'[r].kind = runs[r].kind /\ runs'[r].stage = runs[r].stage
                                /\ runs'[r].aborted = runs[r].aborted
  BY <1>1, NewRuns
<1>3. processing' = processing \/ (k = "process" /\ processing' = IF ready THEN n ELSE 0) BY <1>1
<1> QED BY <1>2, <1>3 DEF ControlsInv, ControlsFollowRuns, Live

(* A run goes on or ends: what it ends is reset, and nothing else is shown of it. *)
LEMMA ControlsMove ==
  ASSUME ChatInv, ControlsInv, NEW r \in DOMAIN runs, NEW st \in {"stream", "over", "refused"},
         runs[r].stage \in {"token", "stream"}, runs' = [runs EXCEPT ![r].stage = st],
         UNCHANGED ready, pending' \in {0, r, pending},
         st = "stream" => UNCHANGED <<loading, processing>>
                          /\ rail' = r /\ (abort' = abort \/ (abort' = r /\ ~runs[r].aborted)),
         st # "stream" => rail' = 0 /\ loading' = FALSE /\ processing' = Released(r)
                          /\ (abort' = 0 \/ (abort' = abort /\ runs[r].stage = "token"))
  PROVE  ControlsInv'
<1>1. runs \in Seq(Run) /\ runs[r] \in Run BY DEF ChatInv, ChatTypes
<1>2. /\ DOMAIN runs' = DOMAIN runs
      /\ \A q \in DOMAIN runs : /\ runs'[q].kind = runs[q].kind /\ runs'[q].aborted = runs[q].aborted
                                /\ runs'[q].stage = IF q = r THEN st ELSE runs[q].stage
  BY <1>1 DEF Run
<1>3. ready BY DEF ControlsInv
<1>4. CASE st = "stream"
  BY <1>2, <1>3, <1>4 DEF ControlsInv, ControlsFollowRuns, Live
<1>5. CASE st # "stream"
  <2>0. r # 0 BY <1>1
  <2>1. processing' \in {0, processing} /\ processing' # r BY <1>5, <2>0 DEF Released
  <2>2. abort' # 0 => abort' = abort /\ abort # r
    BY <1>5 DEF ControlsInv, ControlsFollowRuns
  <2> QED BY <1>2, <1>3, <1>5, <2>1, <2>2 DEF ControlsInv, ControlsFollowRuns, Live
<1> QED BY <1>4, <1>5

LEMMA ControlsInductive == ChatInv /\ ControlsInv /\ [ChatNext]_chatvars => ControlsInv'
<1> SUFFICES ASSUME ChatInv, ControlsInv, [ChatNext]_chatvars PROVE ControlsInv' OBVIOUS
<1>1. /\ context \in Place /\ abort \in 0..Len(runs) /\ pending \in 0..Len(runs)
      /\ Len(runs) \in Nat /\ runs \in Seq(Run)
  BY DEF ChatInv, ChatTypes
<1>2. ASSUME NEW c \in Files \cup {NoFile}, NEW leaves \in BOOLEAN, Navigate(c, leaves) PROVE ControlsInv'
  <2>1. /\ runs' = Staying(c) /\ UNCHANGED <<rail, abort, loading, pending, ready>>
        /\ processing' \in {0, processing}
    BY <1>2 DEF Navigate
  <2>2. /\ DOMAIN runs' = DOMAIN runs
        /\ \A r \in DOMAIN runs : /\ runs'[r].kind = runs[r].kind /\ runs'[r].stage = runs[r].stage
                                  /\ runs'[r].aborted = runs[r].aborted
    BY <2>1, StayingRuns
  <2> QED BY <2>1, <2>2, ControlsStay
<1>3. ASSUME Clear PROVE ControlsInv'
  <2>1. /\ runs' = [r \in DOMAIN runs |-> [runs[r] EXCEPT !.stayed = FALSE]]
        /\ UNCHANGED <<rail, abort, loading, processing, ready>> /\ pending' = 0
    BY <1>3 DEF Clear
  <2>2. ASSUME NEW r \in DOMAIN runs
        PROVE  LET x == [runs[r] EXCEPT !.stayed = FALSE]
               IN x.kind = runs[r].kind /\ x.stage = runs[r].stage /\ x.aborted = runs[r].aborted
    <3>1. runs[r] \in Run BY <1>1
    <3> QED BY <3>1 DEF Run
  <2>3. /\ DOMAIN runs' = DOMAIN runs
        /\ \A r \in DOMAIN runs : /\ runs'[r].kind = runs[r].kind /\ runs'[r].stage = runs[r].stage
                                  /\ runs'[r].aborted = runs[r].aborted
    BY <2>1, <2>2
  <2> QED BY <2>1, <2>3, ControlsStay
<1>4. ASSUME NEW c \in Files, RecordArrives(c) PROVE ControlsInv'
  BY <1>4 DEF RecordArrives, ControlsInv, ControlsFollowRuns, Live
<1>5. CASE ConfigArrives BY <1>5 DEF ConfigArrives, ControlsInv, ControlsFollowRuns, Live
<1>6. ASSUME NEW c \in Files, ProcessCase(c) PROVE ControlsInv'
  <2>1. c \in Place /\ <<"case", c>> \in {"chat", "case"} \X (Chats \cup Files) /\ History \in SUBSET Place
    BY HistoryIsTyped DEF Place
  <2>2. /\ NewRun("process", c, <<"case", c>>, History) /\ UNCHANGED <<abort, ready>> /\ pending' = 0
        /\ (loading' => ready) /\ rail' \in {0, rail} /\ processing' = IF ready THEN Len(runs) + 1 ELSE 0
    BY <1>6 DEF ProcessCase, ThisRun
  <2> QED BY <2>1, <2>2, ControlsBegin
<1>7. ASSUME SendLine PROVE ControlsInv'
  <2>1. /\ NewRun("send", context, SessionOf(context), History) /\ UNCHANGED <<abort, ready, rail, processing>>
        /\ pending' = 0 /\ ready /\ loading' = TRUE
    BY <1>7 DEF SendLine
  <2> QED BY <1>1, <2>1, SessionsAreTyped, HistoryIsTyped, ControlsBegin
<1>8. ASSUME ReplayRequest PROVE ControlsInv'
  <2>1. pending \in DOMAIN runs /\ runs[pending] \in Run BY <1>1, <1>8 DEF ReplayRequest
  <2>2. runs[pending].file \in Place /\ runs[pending].history \in SUBSET Place BY <2>1 DEF Run
  <2>3. /\ NewRun("resume", runs[pending].file, SessionOf(context), runs[pending].history)
        /\ UNCHANGED <<abort, ready, rail, processing>> /\ pending' = 0 /\ loading' = TRUE
    BY <1>8 DEF ReplayRequest
  <2>4. ready BY <1>8 DEF ReplayRequest, ControlsInv
  <2> QED BY <1>1, <2>2, <2>3, <2>4, SessionsAreTyped, ControlsBegin
<1>9. ASSUME NEW r \in DOMAIN runs, BeginRun(r) PROVE ControlsInv'
  <2>1. /\ runs[r].stage = "token" /\ runs' = [runs EXCEPT ![r].stage = "stream"] /\ rail' = r /\ abort' = r
        /\ UNCHANGED <<pending, loading, processing, ready>>
    BY <1>9 DEF BeginRun
  <2>2. ~runs[r].aborted BY <2>1 DEF ControlsInv
  <2> QED BY <2>1, <2>2, ControlsMove
<1>10. ASSUME NEW r \in DOMAIN runs, NoToken(r) PROVE ControlsInv'
  <2>1. /\ runs[r].stage = "token" /\ runs' = [runs EXCEPT ![r].stage = "refused"] /\ rail' = 0
        /\ loading' = FALSE /\ abort' \in {0, abort} /\ processing' = Released(r)
        /\ UNCHANGED <<pending, ready>>
    BY <1>10 DEF NoToken
  <2> QED BY <2>1, ControlsMove
<1>11. ASSUME NEW r \in DOMAIN runs, EndRun(r) PROVE ControlsInv'
  <2>1. /\ runs[r].stage = "stream" /\ runs' = [runs EXCEPT ![r].stage = "over"] /\ rail' = 0
        /\ loading' = FALSE /\ abort' = 0 /\ processing' = Released(r) /\ UNCHANGED <<pending, ready>>
    BY <1>11 DEF EndRun, Over
  <2> QED BY <2>1, ControlsMove
<1>12. ASSUME NEW r \in DOMAIN runs, NEW signin \in BOOLEAN, StreamEvent(r, signin) PROVE ControlsInv'
  <2>1. /\ runs[r].stage = "stream" /\ rail' = r /\ pending' \in {r, pending}
        /\ UNCHANGED <<runs, abort, loading, processing, ready>>
    BY <1>12 DEF StreamEvent
  <2>2. ready BY <2>1 DEF ControlsInv
  <2> QED BY <2>1, <2>2 DEF ControlsInv, ControlsFollowRuns, Live
<1>13. ASSUME StopRun PROVE ControlsInv'
  <2>1. /\ DOMAIN runs' = DOMAIN runs
        /\ \A q \in DOMAIN runs : /\ runs'[q].kind = runs[q].kind /\ runs'[q].stage = runs[q].stage
                                  /\ runs'[q].aborted = runs[q].aborted \/ q = abort
    <3>1. CASE abort = 0 BY <3>1, <1>13 DEF StopRun
    <3>2. CASE abort # 0
      <4>1. abort \in DOMAIN runs /\ runs[abort] \in Run BY <3>2, <1>1
      <4>2. runs' = [runs EXCEPT ![abort].aborted = TRUE] BY <3>2, <1>13 DEF StopRun
      <4> QED BY <4>1, <4>2, <1>1 DEF Run
    <3> QED BY <3>1, <3>2
  <2>2. UNCHANGED <<loading, processing, ready, rail>> /\ abort' = 0 /\ pending' = 0 BY <1>13 DEF StopRun
  <2>3. abort \in DOMAIN runs => runs[abort].stage = "stream" \/ abort = 0 BY DEF ControlsInv, ControlsFollowRuns
  <2>4. 0 \notin DOMAIN runs BY <1>1
  <2> QED BY <2>1, <2>2, <2>3, <2>4 DEF ControlsInv, ControlsFollowRuns, Live
<1>14. CASE UNCHANGED chatvars BY <1>14 DEF chatvars, ControlsInv, ControlsFollowRuns, Live
<1> QED BY <1>2, <1>3, <1>4, <1>5, <1>6, <1>7, <1>8, <1>9, <1>10, <1>11, <1>12, <1>13, <1>14 DEF ChatNext

(* Whichever runs overlap, whatever is stopped, refused, sent again or left: the rail and
   Stop belong to a run that streams, a disabled Process button to a Process run that is
   not over, and the console waits only while some run goes on, for any number of cases,
   runs and clicks. *)
THEOREM ChatControlsFollow == ChatSpec => []ControlsFollowRuns
<1>1. ChatInit => ControlsInv
  <2> SUFFICES ASSUME ChatInit PROVE ControlsInv OBVIOUS
  <2>1. runs = <<>> /\ DOMAIN runs = {} BY DEF ChatInit
  <2> QED BY <2>1 DEF ChatInit, ControlsInv, ControlsFollowRuns
<1>2. ControlsInv => ControlsFollowRuns BY DEF ControlsInv
<1> QED BY <1>1, <1>2, ControlsInductive, ChatInvariant, PTL DEF ChatSpec

(* The line that started a Process run, and its one turn, stay in the transcript while its
   case stays in context. *)
THEOREM ChatTurnSurvives == ChatSpec => []TurnSurvives
<1>1. ChatInv => TurnSurvives
  <2> SUFFICES ASSUME ChatInv, NEW r \in DOMAIN runs, runs[r].kind = "process", runs[r].stayed
               PROVE  /\ \E i \in DOMAIN transcript : transcript[i].run = r /\ transcript[i].kind \in {"user", "notice"}
                      /\ Cardinality(Owned(r)) = IF runs[r].stage \in {"token", "refused"} THEN 0 ELSE 1
    BY DEF TurnSurvives
  <2>1. \E i \in DOMAIN transcript : transcript[i].run = r /\ transcript[i].kind \in {"user", "notice"}
    BY DEF ChatInv, StayedIsThere, IsLine
  <2>2. runs[r] \in Run BY DEF ChatInv, ChatTypes
  <2>3. CASE runs[r].stage \in {"token", "refused"}
    <3>1. Owned(r) = {} BY <2>3 DEF ChatInv, TurnsHaveBegun, Owned, IsTurn
    <3>2. Cardinality(Owned(r)) = 0 BY <3>1, FS_EmptySet
    <3> QED BY ONLY <2>1, <2>3, <3>2
  <2>4. CASE runs[r].stage \in {"stream", "over"}
    <3>1. PICK i \in DOMAIN transcript : IsTurn(transcript[i], r) BY <2>4 DEF ChatInv, StayedIsThere
    <3>2. Owned(r) = {i} BY <3>1 DEF ChatInv, TurnsAreSingle, Owned, IsTurn
    <3>3. Cardinality(Owned(r)) = 1 BY <3>2, FS_Singleton
    <3> QED BY ONLY <2>1, <2>4, <3>3
  <2> QED BY <2>2, <2>3, <2>4 DEF Run
<1> QED BY <1>1, ChatInvariant, PTL

-----------------------------------------------------------------------------
(* Figures. A row's newest trace is its last; runs that did not meet on a case ran, wrote
   and filed one after the other. *)

Statuses == {"detected", "processing", "manual_review_required"} \cup Reports
Early    == {"none", "queued", "chat", "working", "talking"}
Session  == [item : Items \cup {"none"}, poller : BOOLEAN,
             stage : Early \cup {"told", "failed", "over"},
             wrote : BOOLEAN, filed : BOOLEAN, crossed : BOOLEAN]
Trace    == [run : Nat, poller : BOOLEAN, at : Nat, ok : BOOLEAN]

FiguresTypeOK ==
  /\ moment \in Nat /\ losses \in Nat /\ points \in SUBSET [run : Invocations, at : Nat]
  /\ session \in [Invocations -> Session]
  /\ board \in [Items -> [status : Statuses, updated : Nat, log : Seq(Trace), by : Nat]]

(* Runs begin in the order of their numbers, and file when they are over. *)
RunsBegin ==
  \A i \in Invocations :
    /\ session[i].stage # "none" =>
         session[i].item \in Items /\ \A j \in 1..(i - 1) : session[j].stage # "none"
    /\ session[i].stage = "none" => ~session[i].wrote
    /\ session[i].stage \in Early => ~session[i].filed

Alone(i, j) == ~session[i].crossed \/ ~session[j].crossed

Apart ==
  \A i, j \in Invocations :
    i < j /\ session[i].item = session[j].item /\ session[j].stage # "none" /\ Alone(i, j) =>
      session[i].stage = "over"

(* A case's list of traces holds those of its runs that filed one, each once it was over, in the
   order of their time and, of runs that were alone, of their numbers. *)
LogFits(c, log) ==
  /\ \A n \in DOMAIN log :
       /\ log[n].run \in Invocations /\ log[n].at < moment
       /\ session[log[n].run].item = c /\ session[log[n].run].filed
       /\ session[log[n].run].poller <=> log[n].poller
  /\ \A n, k \in DOMAIN log : n < k => log[n].at < log[k].at
  /\ \A n, k \in DOMAIN log :
       log[n].run < log[k].run /\ Alone(log[n].run, log[k].run) => n < k
  /\ \A i \in Invocations : session[i].item = c /\ session[i].filed =>
       \E n \in DOMAIN log : log[n].run = i

LogsAreTheRuns == \A c \in Items : LogFits(c, Log(c))

(* Nobody has written after the run that wrote the status last, if that was alone. *)
WroteLast(c, w) ==
  w # 0 =>
    /\ w \in Invocations /\ session[w].item = c /\ session[w].stage # "none"
    /\ \A j \in Invocations :
         j > w /\ session[j].item = c /\ ~session[w].crossed => ~session[j].wrote

LastWrites == \A c \in Items : WroteLast(c, board[c].by)

FiguresInv == FiguresTypeOK /\ RunsBegin /\ Apart /\ LogsAreTheRuns /\ LastWrites

Touches(i) == board' = [board EXCEPT ![session[i].item].updated = moment]

(* A run that is on its case moves on, and may write the status, or touch the row. *)
LEMMA MoveKeeps ==
  ASSUME FiguresInv, NEW i \in Invocations, session[i].stage \notin {"none", "over"},
         NEW e \in Session, session' = [session EXCEPT ![i] = e],
         e.item = session[i].item, e.poller = session[i].poller,
         e.crossed = session[i].crossed, e.filed = session[i].filed,
         e.stage # "none", e.filed => e.stage \notin Early,
         \/ (board' = board \/ Touches(i)) /\ e.wrote = session[i].wrote
         \/ \E st \in Statuses : Writes(i, st),
         moment' = moment, losses' \in Nat, points' \in SUBSET [run : Invocations, at : Nat]
  PROVE  FiguresInv'
<1> DEFINE c == session[i].item
<1>1. /\ FiguresTypeOK /\ RunsBegin /\ Apart /\ LogsAreTheRuns /\ LastWrites BY DEF FiguresInv
<1>2. c \in Items /\ session \in [Invocations -> Session] BY <1>1 DEF RunsBegin, FiguresTypeOK
<1>3. /\ session' \in [Invocations -> Session] /\ session'[i] = e
      /\ \A j \in Invocations \ {i} : session'[j] = session[j]
  BY <1>2
<1>4. \A j \in Invocations :
        /\ session'[j].item = session[j].item
        /\ session'[j].poller <=> session[j].poller
        /\ session'[j].crossed <=> session[j].crossed
        /\ session'[j].filed <=> session[j].filed
        /\ session'[j].stage = "none" <=> session[j].stage = "none"
  BY <1>3
<1>5. /\ board' \in [Items -> [status : Statuses, updated : Nat, log : Seq(Trace), by : Nat]]
      /\ \A d \in Items : board'[d].log = board[d].log
      /\ \A d \in Items \ {c} : board'[d].by = board[d].by
      /\ board'[c].by = i \/ (board'[c].by = board[c].by /\ (session'[i].wrote <=> session[i].wrote))
  <2>1. CASE board' = board /\ e.wrote = session[i].wrote BY <1>1, <1>3, <2>1 DEF FiguresTypeOK
  <2>2. ASSUME NEW st \in Statuses, Writes(i, st)
        PROVE  /\ board' \in [Items -> [status : Statuses, updated : Nat, log : Seq(Trace), by : Nat]]
               /\ \A d \in Items : board'[d].log = board[d].log
               /\ \A d \in Items \ {c} : board'[d].by = board[d].by
               /\ board'[c].by = i
    <3>1. board' = [board EXCEPT ![c] = [board[c] EXCEPT !.status = st, !.updated = moment, !.by = i]]
      BY <1>4, <2>2 DEF Writes
    <3>2. i \in Nat /\ moment \in Nat BY <1>1 DEF Invocations, FiguresTypeOK
    <3> QED BY <1>1, <1>2, <3>1, <3>2 DEF FiguresTypeOK
  <2>3. CASE Touches(i) /\ e.wrote = session[i].wrote
    <3>1. board' = [board EXCEPT ![c] = [board[c] EXCEPT !.updated = moment]] BY <2>3 DEF Touches
    <3>2. moment \in Nat BY <1>1 DEF FiguresTypeOK
    <3>3. /\ board' \in [Items -> [status : Statuses, updated : Nat, log : Seq(Trace), by : Nat]]
          /\ \A d \in Items : board'[d].log = board[d].log /\ board'[d].by = board[d].by
      BY <1>1, <1>2, <3>1, <3>2 DEF FiguresTypeOK
    <3>4. session'[i].wrote <=> session[i].wrote BY <1>3, <2>3
    <3> QED BY <1>2, <3>3, <3>4
  <2> QED BY <2>1, <2>2, <2>3
<1>6. FiguresTypeOK' BY <1>1, <1>3, <1>5 DEF FiguresTypeOK
<1>7. RunsBegin' 
  <2> SUFFICES ASSUME NEW j \in Invocations
               PROVE  /\ session'[j].stage # "none" =>
                           session'[j].item \in Items /\ \A k \in 1..(j - 1) : session'[k].stage # "none"
                      /\ session'[j].stage = "none" => ~session'[j].wrote
                      /\ session'[j].stage \in Early => ~session'[j].filed
    BY DEF RunsBegin, Invocations
  <2>1. \A k \in 1..(j - 1) : k \in Invocations BY FiguresAssumption DEF Invocations
  <2>2. CASE j = i BY <1>1, <1>3, <1>4, <2>1, <2>2 DEF RunsBegin
  <2>3. CASE j # i BY <1>1, <1>3, <1>4, <2>1, <2>3 DEF RunsBegin
  <2> QED BY <2>2, <2>3
<1>8. Apart'
  <2> SUFFICES ASSUME NEW j \in Invocations, NEW k \in Invocations, j < k,
                      session'[j].item = session'[k].item, session'[k].stage # "none", Alone(j, k)'
               PROVE  session'[j].stage = "over"
    BY DEF Apart, Invocations
  <2>1. session[j].stage = "over" BY <1>1, <1>4 DEF Apart, Alone
  <2> QED BY <1>3, <2>1
<1>9. LogsAreTheRuns'
  <2>1. \A d \in Items : Log(d)' = Log(d) BY <1>5 DEF Log
  <2>2. \A j, k \in Invocations : Alone(j, k)' <=> Alone(j, k) BY <1>4 DEF Alone
  <2> QED BY <1>1, <1>4, <2>1, <2>2 DEF LogsAreTheRuns, LogFits, Invocations
<1>10. LastWrites'
  <2> SUFFICES ASSUME NEW d \in Items, NEW w, w = board'[d].by, w # 0
               PROVE  /\ w \in Invocations /\ session'[w].item = d /\ session'[w].stage # "none"
                      /\ \A j \in Invocations :
                           j > w /\ session'[j].item = d /\ ~session'[w].crossed => ~session'[j].wrote
    BY DEF LastWrites, WroteLast, Invocations
  <2>1. CASE w = i /\ d = c
    <3>1. ASSUME NEW j \in Invocations, j > i, session'[j].item = d, ~session'[i].crossed
          PROVE  ~session'[j].wrote
      <4>1. i < j /\ i \in Nat /\ j \in Nat /\ j # i BY <3>1 DEF Invocations
      <4>2. session[j].stage = "none"
        BY <1>1, <1>4, <2>1, <3>1, <4>1 DEF Apart, Alone
      <4> QED BY <1>1, <1>3, <4>1, <4>2 DEF RunsBegin
    <3> QED BY <1>3, <1>4, <2>1, <3>1
  <2>2. CASE w = board[d].by /\ (d = c => (session'[i].wrote <=> session[i].wrote))
    <3>2. /\ w \in Invocations /\ session[w].item = d /\ session[w].stage # "none"
          /\ \A j \in Invocations :
               j > w /\ session[j].item = d /\ ~session[w].crossed => ~session[j].wrote
      BY <1>1, <2>2 DEF LastWrites, WroteLast
    <3>3. ASSUME NEW j \in Invocations, j > w, session'[j].item = d, ~session'[w].crossed
          PROVE  ~session'[j].wrote
      <4>1. ~session[j].wrote BY <1>4, <3>2, <3>3
      <4>2. CASE j = i
        <5>1. d = c BY <1>4, <3>3, <4>2
        <5> QED BY <2>2, <4>1, <4>2, <5>1
      <4>3. CASE j # i BY <1>3, <4>1, <4>3
      <4> QED BY <4>2, <4>3
    <3> QED BY <1>4, <3>2, <3>3
  <2> QED BY <1>5, <2>1, <2>2
<1> QED BY <1>6, <1>7, <1>8, <1>9, <1>10 DEF FiguresInv

(* A run that is on its case files its trace. *)
LEMMA FilingKeeps ==
  ASSUME FiguresInv, NEW i \in Invocations, session[i].stage \in Early \ {"none"},
         NEW e \in Session, session' = [session EXCEPT ![i] = e],
         e.item = session[i].item, e.poller = session[i].poller,
         e.crossed = session[i].crossed, e.wrote = session[i].wrote, e.filed = TRUE,
         e.stage \notin Early,
         NEW ok \in BOOLEAN,
         board' = [board EXCEPT ![session[i].item].log =
                     Append(@, [run |-> i, poller |-> session[i].poller, at |-> moment, ok |-> ok])],
         moment' = moment + 1, losses' \in Nat, points' \in SUBSET [run : Invocations, at : Nat]
  PROVE  FiguresInv'
<1>0. PICK c : c = session[i].item OBVIOUS
<1>1. FiguresTypeOK /\ RunsBegin /\ Apart /\ LogsAreTheRuns /\ LastWrites BY DEF FiguresInv
<1>2. c \in Items /\ session \in [Invocations -> Session] /\ moment \in Nat /\ i \in Nat
  BY <1>0, <1>1 DEF RunsBegin, FiguresTypeOK, Invocations, Early
<1>3. /\ session' \in [Invocations -> Session] /\ session'[i] = e
      /\ \A j \in Invocations \ {i} : session'[j] = session[j]
  BY <1>2
<1>4. \A j \in Invocations :
        /\ session'[j].item = session[j].item
        /\ session'[j].poller <=> session[j].poller
        /\ session'[j].crossed <=> session[j].crossed
        /\ session'[j].wrote <=> session[j].wrote
        /\ session'[j].stage = "none" <=> session[j].stage = "none"
        /\ session[j].filed => session'[j].filed
  BY <1>3 DEF Early
<1>5. PICK t : t = [run |-> i, poller |-> session[i].poller, at |-> moment, ok |-> ok] OBVIOUS
<1>6. t \in Trace /\ t.run = i /\ t.at = moment /\ (t.poller <=> session[i].poller)
  <2>1. session[i].poller \in BOOLEAN BY <1>2 DEF Session
  <2> QED BY <1>2, <1>5, <2>1 DEF Trace
<1>7. PICK old : old = Log(c) OBVIOUS
<1>8. PICK new : new = Append(old, t) OBVIOUS
<1>9. old \in Seq(Trace) BY <1>1, <1>2, <1>7 DEF FiguresTypeOK, Log
<1>10. /\ new \in Seq(Trace) /\ DOMAIN new = DOMAIN old \cup {Len(old) + 1} /\ DOMAIN old = 1..Len(old)
       /\ Len(old) \in Nat /\ new[Len(old) + 1] = t /\ \A n \in DOMAIN old : new[n] = old[n]
  BY ONLY <1>6, <1>8, <1>9, Appended
<1>11. board' = [board EXCEPT ![c].log = new] BY <1>0, <1>5, <1>7, <1>8 DEF Log
<1>12. /\ board' \in [Items -> [status : Statuses, updated : Nat, log : Seq(Trace), by : Nat]]
       /\ \A d \in Items : board'[d].by = board[d].by
       /\ Log(c)' = new /\ \A d \in Items \ {c} : Log(d)' = Log(d)
  <2>1. board \in [Items -> [status : Statuses, updated : Nat, log : Seq(Trace), by : Nat]]
    BY <1>1 DEF FiguresTypeOK
  <2>2. [board[c] EXCEPT !.log = new] \in [status : Statuses, updated : Nat, log : Seq(Trace), by : Nat]
    BY <1>2, <1>10, <2>1
  <2>3. board' = [board EXCEPT ![c] = [board[c] EXCEPT !.log = new]] BY <1>11
  <2>4. /\ board'[c] = [board[c] EXCEPT !.log = new] /\ \A d \in Items \ {c} : board'[d] = board[d]
        /\ board' \in [Items -> [status : Statuses, updated : Nat, log : Seq(Trace), by : Nat]]
    BY ONLY <1>2, <2>1, <2>2, <2>3
  <2>5. board'[c].log = new /\ board'[c].by = board[c].by BY <1>2, <2>1, <2>4
  <2>6. \A d \in Items : board'[d].by = board[d].by BY <2>4, <2>5
  <2>7. \A d \in Items : Log(d)' = IF d = c THEN new ELSE Log(d) BY <2>4, <2>5 DEF Log
  <2> QED BY <1>2, <2>4, <2>6, <2>7
<1>13. FiguresTypeOK'
  <2>1. moment' \in Nat BY <1>2
  <2> QED BY <1>3, <1>12, <2>1 DEF FiguresTypeOK
<1>14. RunsBegin'
  <2> SUFFICES ASSUME NEW j \in Invocations
               PROVE  /\ session'[j].stage # "none" =>
                           session'[j].item \in Items /\ \A k \in 1..(j - 1) : session'[k].stage # "none"
                      /\ session'[j].stage = "none" => ~session'[j].wrote
                      /\ session'[j].stage \in Early => ~session'[j].filed
    BY DEF RunsBegin, Invocations
  <2>1. \A k \in 1..(j - 1) : k \in Invocations BY FiguresAssumption DEF Invocations
  <2>2. CASE j = i BY <1>1, <1>3, <1>4, <2>1, <2>2 DEF RunsBegin, Early
  <2>3. CASE j # i BY <1>1, <1>3, <1>4, <2>1, <2>3 DEF RunsBegin
  <2> QED BY <2>2, <2>3
<1>15. Apart'
  <2> SUFFICES ASSUME NEW j \in Invocations, NEW k \in Invocations, j < k,
                      session'[j].item = session'[k].item, session'[k].stage # "none", Alone(j, k)'
               PROVE  session'[j].stage = "over"
    BY DEF Apart, Invocations
  <2>1. session[j].stage = "over" BY <1>1, <1>4 DEF Apart, Alone
  <2> QED BY <1>3, <2>1 DEF Early
<1>16. LastWrites'
  <2> SUFFICES ASSUME NEW d \in Items, NEW w, w = board'[d].by, w # 0
               PROVE  /\ w \in Invocations /\ session'[w].item = d /\ session'[w].stage # "none"
                      /\ \A j \in Invocations :
                           j > w /\ session'[j].item = d /\ ~session'[w].crossed => ~session'[j].wrote
    BY DEF LastWrites, WroteLast, Invocations
  <2>1. w = board[d].by BY <1>12
  <2>2. /\ w \in Invocations /\ session[w].item = d /\ session[w].stage # "none"
        /\ \A j \in Invocations :
             j > w /\ session[j].item = d /\ ~session[w].crossed => ~session[j].wrote
    BY <1>1, <2>1 DEF LastWrites, WroteLast
  <2> QED BY <1>4, <2>1, <2>2
<1>17. \A j, k \in Invocations : Alone(j, k)' <=> Alone(j, k) BY <1>4 DEF Alone
<1>18. ASSUME NEW d \in Items
       PROVE  /\ LogFits(d, Log(d))
              /\ \A n \in DOMAIN Log(d) : Log(d)[n].at \in Nat
  <2>1. PICK s \in Seq(Trace) : s = Log(d) BY <1>1 DEF FiguresTypeOK, Log
  <2>2. ASSUME NEW n \in DOMAIN s PROVE s[n].at \in Nat
    <3>1. s[n] \in Trace BY <2>1
    <3> QED BY <3>1 DEF Trace
  <2> QED BY <1>1, <2>1, <2>2 DEF LogsAreTheRuns
<1>19. ASSUME NEW d \in Items, NEW log, log = Log(d)' PROVE LogFits(d, log)'
  <2>1. CASE d # c
    <3>1. log = Log(d) BY <1>12, <1>19, <2>1
    <3>2. \A n \in DOMAIN Log(d) : Log(d)[n].at < moment' BY <1>2, <1>18 DEF LogFits
    <3>3. \A j \in Invocations : session'[j].item = d /\ session'[j].filed => session[j].filed
      BY <1>0, <1>3, <1>4, <2>1
    <3> QED BY <1>4, <1>17, <1>18, <3>1, <3>2, <3>3 DEF LogFits, Invocations
  <2>2. CASE d = c
    <3> DEFINE l == Len(old) + 1
    <3>1. log = new /\ Log(d) = old BY <1>7, <1>12, <1>19, <2>2
    <3>2. \A n \in DOMAIN new : n = l \/ (n \in DOMAIN old /\ new[n] = old[n] /\ n < l /\ n \in Nat)
      BY <1>10
    <3>3. new[l] = t /\ l \in DOMAIN new /\ l \in Nat BY <1>10
    <3> HIDE DEF l
    <3>4. ASSUME NEW n \in DOMAIN new
          PROVE  /\ new[n].run \in Invocations /\ new[n].at < moment'
                 /\ session'[new[n].run].item = d /\ session'[new[n].run].filed
                 /\ session'[new[n].run].poller <=> new[n].poller
      <4>1. CASE n = l BY <1>0, <1>2, <1>3, <1>4, <1>6, <2>2, <3>3, <4>1
      <4>2. CASE n # l
        <5>1. n \in DOMAIN old /\ new[n] = old[n] BY <3>2, <4>2
        <5>2. old[n].at < moment' BY <1>2, <1>18, <3>1, <5>1 DEF LogFits
        <5> QED BY <1>4, <1>18, <3>1, <5>1, <5>2 DEF LogFits
      <4> QED BY <4>1, <4>2
    <3>5. ASSUME NEW n \in DOMAIN new, NEW k \in DOMAIN new, n < k PROVE new[n].at < new[k].at
      <4>1. n \in DOMAIN old /\ new[n] = old[n] BY <3>2, <3>3, <3>5
      <4>2. CASE k = l BY <1>6, <1>18, <3>1, <3>3, <4>1, <4>2 DEF LogFits
      <4>3. CASE k # l BY <1>18, <3>1, <3>2, <4>1, <4>3, <3>5 DEF LogFits
      <4> QED BY <4>2, <4>3
    <3>6. ASSUME NEW n \in DOMAIN new, NEW k \in DOMAIN new,
                 new[n].run < new[k].run, Alone(new[n].run, new[k].run)'
          PROVE  n < k
      <4>1. CASE n # l /\ k # l
        <5>1. n \in DOMAIN old /\ k \in DOMAIN old /\ new[n] = old[n] /\ new[k] = old[k] BY <3>2, <4>1
        <5> QED BY <1>17, <1>18, <3>1, <3>6, <5>1 DEF LogFits
      <4>2. CASE k = l /\ n # l BY <3>2, <4>2
      <4>3. CASE n = l /\ k = l BY <1>2, <1>6, <3>3, <3>6, <4>3
      <4>4. CASE n = l /\ k # l
        <5>1. k \in DOMAIN old /\ new[k] = old[k] BY <3>2, <4>4
        <5>2. PICK j \in Invocations : j = old[k].run /\ session[j].item = d /\ session[j].filed
          BY <1>18, <3>1, <5>1 DEF LogFits
        <5>3. i < j /\ Alone(i, j) BY <1>6, <1>17, <3>3, <3>6, <4>4, <5>1, <5>2
        <5>4. session[j].stage # "none" BY <1>1, <5>2 DEF RunsBegin, Early
        <5>5. session[i].stage = "over" BY <1>0, <1>1, <2>2, <5>2, <5>3, <5>4 DEF Apart
        <5> QED BY <5>5 DEF Early
      <4> QED BY <4>1, <4>2, <4>3, <4>4
    <3>7. ASSUME NEW j \in Invocations, session'[j].item = d, session'[j].filed
          PROVE  \E n \in DOMAIN new : new[n].run = j
      <4>1. CASE j = i BY <1>6, <3>3, <4>1
      <4>2. CASE j # i
        <5>1. session[j].item = d /\ session[j].filed BY <1>3, <3>7, <4>2
        <5>2. PICK n \in DOMAIN old : old[n].run = j BY <1>18, <3>1, <5>1 DEF LogFits
        <5>3. n \in DOMAIN new /\ new[n] = old[n] BY <1>10
        <5> QED BY <5>2, <5>3
      <4> QED BY <4>1, <4>2
    <3> QED BY <3>1, <3>4, <3>5, <3>6, <3>7 DEF LogFits, Invocations
  <2> QED BY <2>1, <2>2
<1>20. LogsAreTheRuns' BY <1>19 DEF LogsAreTheRuns, LogFits, Invocations
<1> QED BY <1>13, <1>14, <1>15, <1>16, <1>20 DEF FiguresInv

(* The next run begins. *)
LEMMA BeginKeeps ==
  ASSUME FiguresInv, NEW i \in Invocations, NEW d \in Items, NEW poller \in BOOLEAN,
         NEW stage \in {"queued", "chat"}, NEW wrote \in BOOLEAN,
         Begins(i, d, poller, stage, wrote),
         \/ wrote /\ Writes(i, "processing")
         \/ ~wrote /\ board' = board,
         losses' \in Nat
  PROVE  FiguresInv'
<1>1. FiguresTypeOK /\ RunsBegin /\ Apart /\ LogsAreTheRuns /\ LastWrites BY DEF FiguresInv
<1>2. /\ session[i].stage = "none" /\ moment' = moment /\ points' = points
      /\ \A j \in 1..(i - 1) : session[j].stage # "none"
  BY DEF Begins
<1>3. PICK others : others = {j \in Invocations :
                       session[j].item = d /\ session[j].stage \notin {"none", "over"}}
  OBVIOUS
<1>4. PICK e : e = [NoRun EXCEPT !.item = d, !.poller = poller, !.stage = stage,
                                 !.wrote = wrote, !.crossed = (others # {})]
  OBVIOUS
<1>5. session' = [j \in Invocations |->
        IF j = i THEN e ELSE [session[j] EXCEPT !.crossed = session[j].crossed \/ j \in others]]
  BY <1>3, <1>4 DEF Begins
<1>6. e = [item |-> d, poller |-> poller, stage |-> stage, wrote |-> wrote, filed |-> FALSE,
           crossed |-> others # {}]
  BY <1>4 DEF NoRun
<1>7. e \in Session BY <1>6 DEF Session, Early
<1>8. session \in [Invocations -> Session] BY <1>1 DEF FiguresTypeOK
<1>9. session' \in [Invocations -> Session] /\ session'[i] = e
  <2>1. ASSUME NEW j \in Invocations
        PROVE  [session[j] EXCEPT !.crossed = session[j].crossed \/ j \in others] \in Session
    BY <1>8 DEF Session
  <2> QED BY <1>5, <1>7, <2>1
<1>10. ASSUME NEW j \in Invocations \ {i}
       PROVE  /\ session'[j].item = session[j].item /\ session'[j].stage = session[j].stage
              /\ session'[j].poller = session[j].poller
              /\ session'[j].wrote = session[j].wrote
              /\ session'[j].filed = session[j].filed
              /\ session'[j].crossed = (session[j].crossed \/ j \in others)
  BY <1>5, <1>8 DEF Session
<1>11. \A j \in Invocations : j > i => session[j].stage = "none"
  <2> SUFFICES ASSUME NEW j \in Invocations, j > i, session[j].stage # "none" PROVE FALSE
    OBVIOUS
  <2>1. i \in 1..(j - 1) BY FiguresAssumption DEF Invocations
  <2> QED BY <1>1, <1>2, <2>1 DEF RunsBegin
<1>12. \A j \in Invocations : session[j].filed => j # i
  BY <1>1, <1>2 DEF RunsBegin, Early
<1>13. /\ board' \in [Items -> [status : Statuses, updated : Nat, log : Seq(Trace), by : Nat]]
       /\ \A c \in Items : board'[c].log = board[c].log
       /\ \A c \in Items \ {d} : board'[c].by = board[c].by
       /\ board'[d].by = i \/ (board'[d].by = board[d].by /\ ~wrote)
  <2>1. CASE ~wrote /\ board' = board BY <1>1, <2>1 DEF FiguresTypeOK
  <2>2. CASE wrote /\ Writes(i, "processing")
    <3>1. session'[i].item = d BY <1>6, <1>9
    <3>2. board' = [board EXCEPT ![d] = [board[d] EXCEPT !.status = "processing", !.updated = moment, !.by = i]]
      BY <2>2, <3>1 DEF Writes
    <3>3. i \in Nat /\ moment \in Nat /\ "processing" \in Statuses
      BY <1>1 DEF Invocations, FiguresTypeOK, Statuses
    <3> QED BY <1>1, <3>2, <3>3 DEF FiguresTypeOK
  <2> QED BY <2>1, <2>2
<1>14. FiguresTypeOK' BY <1>1, <1>2, <1>9, <1>13 DEF FiguresTypeOK
<1>15. RunsBegin'
  <2> SUFFICES ASSUME NEW j \in Invocations
               PROVE  /\ session'[j].stage # "none" =>
                           session'[j].item \in Items /\ \A k \in 1..(j - 1) : session'[k].stage # "none"
                      /\ session'[j].stage = "none" => ~session'[j].wrote
                      /\ session'[j].stage \in Early => ~session'[j].filed
    BY DEF RunsBegin, Invocations
  <2>1. \A k \in 1..(j - 1) : k \in Invocations BY FiguresAssumption DEF Invocations
  <2>2. \A k \in Invocations : session[k].stage # "none" => session'[k].stage # "none"
    BY <1>2, <1>10
  <2>3. CASE j = i BY <1>2, <1>6, <1>9, <2>1, <2>2, <2>3
  <2>4. CASE j # i BY <1>1, <1>10, <2>1, <2>2, <2>4 DEF RunsBegin
  <2> QED BY <2>3, <2>4
<1>16. \A j, k \in Invocations \ {i} : Alone(j, k)' => Alone(j, k)
  BY <1>10 DEF Alone
<1>17. Apart'
  <2> SUFFICES ASSUME NEW j \in Invocations, NEW k \in Invocations, j < k,
                      session'[j].item = session'[k].item, session'[k].stage # "none", Alone(j, k)'
               PROVE  session'[j].stage = "over"
    BY DEF Apart, Invocations
  <2>1. CASE j = i
    <3>1. k > i /\ k # i BY <2>1 DEF Invocations
    <3> QED BY <1>10, <1>11, <3>1
  <2>2. CASE j # i /\ k # i BY <1>1, <1>10, <1>16, <2>2 DEF Apart
  <2>3. CASE j # i /\ k = i
    <3>1. session[j].item = d BY <1>6, <1>9, <1>10, <2>3
    <3>2. j \notin others
      <4>1. j \in others => session'[j].crossed BY <1>10, <2>3
      <4>2. j \in others => session'[k].crossed
        <5>1. session'[i].crossed = (others # {}) BY <1>6, <1>9
        <5> QED BY <5>1, <2>3, Zenon
      <4> QED BY <4>1, <4>2 DEF Alone
    <3>3. session[j].stage \in {"none", "over"} BY <1>3, <3>1, <3>2
    <3>4. j \in 1..(i - 1) BY <2>3 DEF Invocations
    <3> QED BY <1>2, <1>10, <2>3, <3>3, <3>4
  <2> QED BY <2>1, <2>2, <2>3
<1>18. LogsAreTheRuns'
  <2> SUFFICES ASSUME NEW c \in Items, NEW log, log = Log(c)' PROVE LogFits(c, log)'
    BY DEF LogsAreTheRuns, LogFits, Invocations
  <2>1. log = Log(c) BY <1>13 DEF Log
  <2>2. LogFits(c, log) BY <1>1, <2>1 DEF LogsAreTheRuns
  <2>3. \A n \in DOMAIN log : log[n].run \in Invocations \ {i} BY <1>12, <2>2 DEF LogFits
  <2>4. \A j \in Invocations : session'[j].filed => j # i BY <1>6, <1>9
  <2>5. \A n, k \in DOMAIN log :
          log[n].run < log[k].run /\ Alone(log[n].run, log[k].run)' => n < k
    BY <1>16, <2>2, <2>3 DEF LogFits
  <2>6. \A j \in Invocations : session'[j].item = c /\ session'[j].filed =>
          \E n \in DOMAIN log : log[n].run = j
    BY <1>10, <2>2, <2>4 DEF LogFits
  <2>7. \A n \in DOMAIN log :
          /\ log[n].run \in Invocations /\ log[n].at < moment'
          /\ session'[log[n].run].item = c /\ session'[log[n].run].filed
          /\ session'[log[n].run].poller <=> log[n].poller
    BY <1>2, <1>10, <2>2, <2>3 DEF LogFits
  <2> QED BY <2>2, <2>5, <2>6, <2>7 DEF LogFits, Invocations
<1>19. LastWrites'
  <2> SUFFICES ASSUME NEW c \in Items, NEW w, w = board'[c].by, w # 0
               PROVE  /\ w \in Invocations /\ session'[w].item = c /\ session'[w].stage # "none"
                      /\ \A j \in Invocations :
                           j > w /\ session'[j].item = c /\ ~session'[w].crossed => ~session'[j].wrote
    BY DEF LastWrites, WroteLast, Invocations
  <2>1. CASE c = d /\ w = i
    <3>1. ASSUME NEW j \in Invocations, j > i PROVE ~session'[j].wrote
      <4>1. j # i BY <3>1 DEF Invocations
      <4> QED BY <1>1, <1>10, <1>11, <3>1, <4>1 DEF RunsBegin
    <3> QED BY <1>6, <1>9, <2>1, <3>1
  <2>2. CASE w = board[c].by /\ (c = d => ~wrote)
    <3>2. /\ w \in Invocations /\ session[w].item = c /\ session[w].stage # "none"
          /\ \A j \in Invocations :
               j > w /\ session[j].item = c /\ ~session[w].crossed => ~session[j].wrote
      BY <1>1, <2>2 DEF LastWrites, WroteLast
    <3>3. w # i BY <1>2, <3>2
    <3>4. ASSUME NEW j \in Invocations, j > w, session'[j].item = c, ~session'[w].crossed
          PROVE  ~session'[j].wrote
      <4>1. CASE j = i BY <1>6, <1>9, <2>2, <3>4, <4>1
      <4>2. CASE j # i
        <5>1. ~session[w].crossed BY <1>10, <3>2, <3>3, <3>4
        <5>2. ~session[j].wrote BY <1>10, <3>2, <3>4, <4>2, <5>1
        <5> QED BY <1>10, <4>2, <5>2
      <4> QED BY <4>1, <4>2
    <3> QED BY <1>10, <3>2, <3>3, <3>4
  <2> QED BY <1>13, <2>1, <2>2
<1> QED BY <1>14, <1>15, <1>17, <1>18, <1>19 DEF FiguresInv

(* One lemma for each action of the next-state relation. *)
LEMMA QueuedBeginKeeps ==
  ASSUME FiguresInv, NEW i \in Invocations, NEW c \in Items, NEW p \in BOOLEAN, BeginQueued(i, c, p)
  PROVE  FiguresInv'
<1>1. losses \in Nat BY DEF FiguresInv, FiguresTypeOK
<1>2. CASE Begins(i, c, p, "queued", TRUE) /\ Writes(i, "processing") /\ UNCHANGED losses
  BY ONLY <1>1, <1>2, BeginKeeps, FiguresInv, i \in Invocations, c \in Items, p \in BOOLEAN
<1>3. CASE Begins(i, c, p, "queued", FALSE) /\ Lose(1) /\ UNCHANGED board
  <2>1. losses' \in Nat BY <1>1, <1>3 DEF Lose
  <2> QED
    BY ONLY <1>3, <2>1, BeginKeeps, FiguresInv, i \in Invocations, c \in Items, p \in BOOLEAN
<1> QED BY <1>2, <1>3 DEF BeginQueued

LEMMA ChatBeginKeeps ==
  ASSUME FiguresInv, NEW i \in Invocations, NEW c \in Items, BeginChat(i, c)
  PROVE  FiguresInv'
<1>1. losses \in Nat BY DEF FiguresInv, FiguresTypeOK
<1>2. Begins(i, c, FALSE, "chat", FALSE) /\ board' = board /\ losses' \in Nat
  BY <1>1 DEF BeginChat
<1> QED BY ONLY <1>2, BeginKeeps, FiguresInv, i \in Invocations, c \in Items

LEMMA ReportKeeps ==
  ASSUME FiguresInv, NEW i \in Invocations, NEW st \in Reports, ReportStatus(i, st)
  PROVE  FiguresInv'
<1>1. /\ FiguresTypeOK /\ RunsBegin BY DEF FiguresInv
<1>2. session[i].stage \in {"queued", "working", "chat", "talking"} BY DEF ReportStatus, Reporting
<1>3. PICK next : next = Reporting[session[i].stage] OBVIOUS
<1>4. next \in {"working", "talking"} BY <1>2, <1>3 DEF Reporting
<1>5. PICK e : e = [session[i] EXCEPT !.wrote = TRUE, !.stage = next] OBVIOUS
<1>6. session[i] \in Session BY <1>1 DEF FiguresTypeOK
<1>7. /\ e \in Session /\ e.item = session[i].item /\ e.poller = session[i].poller
      /\ e.crossed = session[i].crossed /\ e.filed = session[i].filed /\ e.stage = next
  BY <1>4, <1>5, <1>6 DEF Session, Early
<1>8. session' = [session EXCEPT ![i] = e] BY <1>3, <1>5 DEF ReportStatus
<1>9. ~session[i].filed BY <1>1, <1>2 DEF RunsBegin, Early
<1>10. st \in Statuses /\ Writes(i, st) BY DEF Statuses, ReportStatus
<1>11. /\ moment' = moment /\ losses' \in Nat /\ points' \in SUBSET [run : Invocations, at : Nat]
  BY <1>1 DEF ReportStatus, FiguresTypeOK
<1> QED BY <1>2, <1>4, <1>7, <1>8, <1>9, <1>10, <1>11, MoveKeeps

LEMMA EditKeeps ==
  ASSUME FiguresInv, NEW i \in Invocations, EditCase(i)
  PROVE  FiguresInv'
<1>1. /\ FiguresTypeOK /\ RunsBegin BY DEF FiguresInv
<1>2. session[i].stage \in {"queued", "working", "chat", "talking"} BY DEF EditCase, Reporting
<1>3. PICK next : next = Reporting[session[i].stage] OBVIOUS
<1>4. next \in {"working", "talking"} BY <1>2, <1>3 DEF Reporting
<1>5. PICK e : e = [session[i] EXCEPT !.stage = next] OBVIOUS
<1>6. session[i] \in Session BY <1>1 DEF FiguresTypeOK
<1>7. /\ e \in Session /\ e.item = session[i].item /\ e.poller = session[i].poller
      /\ e.crossed = session[i].crossed /\ e.filed = session[i].filed /\ e.stage = next
      /\ e.wrote = session[i].wrote
  BY <1>4, <1>5, <1>6 DEF Session, Early
<1>8. session' = [session EXCEPT ![i] = e] BY <1>3, <1>5 DEF EditCase
<1>9. ~session[i].filed BY <1>1, <1>2 DEF RunsBegin, Early
<1>10. Touches(i) BY DEF Touches, EditCase
<1>11. /\ moment' = moment /\ losses' \in Nat /\ points' \in SUBSET [run : Invocations, at : Nat]
  BY <1>1 DEF EditCase, FiguresTypeOK
<1> QED BY <1>2, <1>4, <1>7, <1>8, <1>9, <1>10, <1>11, MoveKeeps

LEMMA PointsAreTyped ==
  ASSUME FiguresTypeOK, NEW i \in Invocations, NEW n \in Nat, MayEmit(i, n)
  PROVE  points' \in SUBSET [run : Invocations, at : Nat] /\ losses' \in Nat
<1>1. losses' \in Nat BY DEF MayEmit, Lose, FiguresTypeOK
<1>2. points' \in SUBSET [run : Invocations, at : Nat] BY DEF MayEmit, Emitted, FiguresTypeOK
<1> QED BY <1>1, <1>2

LEMMA StoppingEarlyKeeps ==
  ASSUME FiguresInv, NEW i \in Invocations, StopEarly(i)
  PROVE  FiguresInv'
<1>1. /\ FiguresTypeOK /\ RunsBegin BY DEF FiguresInv
<1>2. session[i].stage \in {"queued", "chat"} BY DEF StopEarly
<1>3. PICK next : next = Afterwards(i, FALSE) OBVIOUS
<1>4. next \in {"over", "failed"} BY <1>3 DEF Afterwards
<1>5. session[i] \in Session BY <1>1 DEF FiguresTypeOK
<1>6. ~session[i].filed BY <1>1, <1>2 DEF RunsBegin, Early
<1>7. /\ moment' = moment /\ losses' \in Nat /\ points' \in SUBSET [run : Invocations, at : Nat]
  <2>1. MayEmit(i, 0) /\ moment' = moment BY DEF StopEarly
  <2> QED BY <1>1, <2>1, PointsAreTyped DEF FiguresTypeOK
<1>8. CASE /\ session' = [session EXCEPT ![i].stage = Afterwards(i, FALSE), ![i].wrote = TRUE]
           /\ Writes(i, "manual_review_required")
  <2>1. PICK e : e = [session[i] EXCEPT !.stage = next, !.wrote = TRUE] OBVIOUS
  <2>2. /\ e \in Session /\ e.item = session[i].item /\ e.poller = session[i].poller
        /\ e.crossed = session[i].crossed /\ e.filed = session[i].filed /\ e.stage = next
    BY <1>4, <1>5, <2>1 DEF Session, Early
  <2>3. session' = [session EXCEPT ![i] = e] BY <1>3, <1>8, <2>1
  <2>4. "manual_review_required" \in Statuses BY DEF Statuses
  <2> QED BY <1>2, <1>4, <1>6, <1>7, <1>8, <2>2, <2>3, <2>4, MoveKeeps
<1>9. CASE session' = [session EXCEPT ![i].stage = Afterwards(i, FALSE)] /\ UNCHANGED board
  <2>1. PICK e : e = [session[i] EXCEPT !.stage = next] OBVIOUS
  <2>2. /\ e \in Session /\ e.item = session[i].item /\ e.poller = session[i].poller
        /\ e.crossed = session[i].crossed /\ e.filed = session[i].filed /\ e.stage = next
        /\ e.wrote = session[i].wrote
    BY <1>4, <1>5, <2>1 DEF Session, Early
  <2>3. session' = [session EXCEPT ![i] = e] BY <1>3, <1>9, <2>1
  <2> QED BY <1>2, <1>4, <1>6, <1>7, <1>9, <2>2, <2>3, MoveKeeps
<1> QED BY <1>8, <1>9 DEF StopEarly

LEMMA FileRunKeeps ==
  ASSUME FiguresInv, NEW i \in Invocations, NEW ok \in BOOLEAN, FileRun(i, ok)
  PROVE  FiguresInv'
<1>1. /\ FiguresTypeOK /\ RunsBegin BY DEF FiguresInv
<1>2. session[i].stage \in {"queued", "working", "chat", "talking"} BY DEF FileRun, Reporting
<1>3. PICK next : next = Afterwards(i, ok) OBVIOUS
<1>4. next \in {"over", "told", "failed"} BY <1>3 DEF Afterwards
<1>5. session[i] \in Session BY <1>1 DEF FiguresTypeOK
<1>6. ~session[i].filed BY <1>1, <1>2 DEF RunsBegin, Early
<1>7. points' \in SUBSET [run : Invocations, at : Nat] /\ losses' \in Nat
  <2>1. MayEmit(i, 0) \/ MayEmit(i, 1) BY DEF FileRun
  <2> QED BY <1>1, <2>1, PointsAreTyped
<1>8. CASE /\ board' = [board EXCEPT ![session[i].item].log =
                          Append(@, [run |-> i, poller |-> session[i].poller, at |-> moment, ok |-> ok])]
           /\ session' = [session EXCEPT ![i].stage = Afterwards(i, ok), ![i].filed = TRUE]
           /\ moment' = moment + 1 /\ MayEmit(i, 0)
  <2>1. PICK e : e = [session[i] EXCEPT !.stage = next, !.filed = TRUE] OBVIOUS
  <2>2. /\ e \in Session /\ e.item = session[i].item /\ e.poller = session[i].poller
        /\ e.crossed = session[i].crossed /\ e.wrote = session[i].wrote /\ e.stage = next
        /\ e.filed = TRUE
    BY <1>4, <1>5, <2>1 DEF Session, Early
  <2>3. session' = [session EXCEPT ![i] = e] BY <1>3, <1>8, <2>1
  <2>4. session[i].stage \in Early \ {"none"} /\ e.stage \notin Early
    BY <1>2, <1>4, <2>2 DEF Early
  <2>5. /\ board' = [board EXCEPT ![session[i].item].log =
                       Append(@, [run |-> i, poller |-> session[i].poller, at |-> moment, ok |-> ok])]
        /\ moment' = moment + 1
    BY <1>8
  <2> QED BY <1>7, <2>2, <2>3, <2>4, <2>5, FilingKeeps
<1>9. CASE /\ MayEmit(i, 1)
           /\ session' = [session EXCEPT ![i].stage = Afterwards(i, ok)]
           /\ UNCHANGED <<board, moment>>
  <2>1. PICK e : e = [session[i] EXCEPT !.stage = next] OBVIOUS
  <2>2. /\ e \in Session /\ e.item = session[i].item /\ e.poller = session[i].poller
        /\ e.crossed = session[i].crossed /\ e.filed = session[i].filed /\ e.stage = next
        /\ e.wrote = session[i].wrote
    BY <1>4, <1>5, <2>1 DEF Session, Early
  <2>3. session' = [session EXCEPT ![i] = e] BY <1>3, <1>9, <2>1
  <2> QED BY <1>2, <1>4, <1>6, <1>7, <1>9, <2>2, <2>3, MoveKeeps
<1> QED BY <1>8, <1>9 DEF FileRun

LEMMA SettlingKeeps ==
  ASSUME FiguresInv, NEW i \in Invocations, SettleRun(i)
  PROVE  FiguresInv'
<1>1. /\ FiguresTypeOK /\ RunsBegin BY DEF FiguresInv
<1>2. session[i].stage \in {"told", "failed"} BY DEF SettleRun
<1>3. session[i] \in Session BY <1>1 DEF FiguresTypeOK
<1>4. PICK e : e = [session[i] EXCEPT !.stage = "over"] OBVIOUS
<1>5. /\ e \in Session /\ e.item = session[i].item /\ e.poller = session[i].poller
      /\ e.crossed = session[i].crossed /\ e.filed = session[i].filed /\ e.stage = "over"
      /\ e.wrote = session[i].wrote
  BY <1>3, <1>4 DEF Session, Early
<1>6. session' = [session EXCEPT ![i] = e] BY <1>4 DEF SettleRun
<1>7. \/ board' = board
      \/ \E st \in Statuses : Writes(i, st)
  BY DEF SettleRun, Statuses
<1>8. /\ moment' = moment /\ losses' \in Nat /\ points' \in SUBSET [run : Invocations, at : Nat]
  BY <1>1 DEF SettleRun, FiguresTypeOK
<1>9. "over" \notin Early BY DEF Early
<1> QED BY <1>2, <1>5, <1>6, <1>7, <1>8, <1>9, MoveKeeps

LEMMA TimeKeeps == ASSUME FiguresInv, TimePasses PROVE FiguresInv'
<1>1. FiguresTypeOK /\ RunsBegin /\ Apart /\ LogsAreTheRuns /\ LastWrites BY DEF FiguresInv
<1>2. moment' = moment + 1 /\ board' = board /\ points' = points /\ session' = session /\ losses' = losses
  BY DEF TimePasses
<1>3. FiguresTypeOK' BY <1>1, <1>2 DEF FiguresTypeOK
<1>4. RunsBegin' /\ Apart' /\ LastWrites'
  BY <1>1, <1>2 DEF RunsBegin, Apart, LastWrites, WroteLast, Alone, Invocations
<1>5. ASSUME NEW c \in Items, NEW log, log = Log(c) PROVE LogFits(c, log)'
  <2>1. LogFits(c, log) BY <1>1, <1>5 DEF LogsAreTheRuns
  <2>2. moment \in Nat /\ log \in Seq(Trace) BY <1>1, <1>5 DEF FiguresTypeOK, Log
  <2>3. ASSUME NEW n \in DOMAIN log PROVE log[n].at < moment'
    <3>1. log[n] \in Trace BY <2>2
    <3>2. log[n].at \in Nat BY <3>1 DEF Trace
    <3> QED BY <1>2, <2>1, <2>2, <3>2 DEF LogFits
  <2> QED BY <1>2, <2>1, <2>3 DEF LogFits, Alone, Invocations
<1>6. LogsAreTheRuns'
  <2>1. \A c \in Items : Log(c)' = Log(c) BY <1>2 DEF Log
  <2> QED BY <1>5, <2>1 DEF LogsAreTheRuns, LogFits, Alone, Invocations
<1> QED BY <1>3, <1>4, <1>6 DEF FiguresInv

LEMMA FiguresInitially == FiguresInit => FiguresInv
<1> SUFFICES ASSUME FiguresInit PROVE FiguresInv OBVIOUS
<1>1. FiguresTypeOK
  <2>1. \A i \in Invocations : session[i] \in Session BY DEF FiguresInit, NoRun, Session, Early
  <2>2. \A c \in Items : board[c] \in [status : Statuses, updated : Nat, log : Seq(Trace), by : Nat]
    <3>1. <<>> \in Seq(Trace) OBVIOUS
    <3> QED BY <3>1 DEF FiguresInit, Statuses
  <2> QED BY <2>1, <2>2, FiguresAssumption DEF FiguresInit, FiguresTypeOK
<1>2. \A i \in Invocations : session[i].stage = "none" /\ ~session[i].wrote /\ ~session[i].filed
  BY DEF FiguresInit, NoRun
<1>3. RunsBegin /\ Apart BY <1>2 DEF RunsBegin, Apart
<1>4. \A c \in Items : DOMAIN Log(c) = {} /\ board[c].by = 0 BY DEF FiguresInit, Log
<1>5. LogsAreTheRuns BY <1>2, <1>4 DEF LogsAreTheRuns, LogFits
<1>6. LastWrites BY <1>4 DEF LastWrites, WroteLast
<1> QED BY <1>1, <1>3, <1>5, <1>6 DEF FiguresInv

LEMMA FiguresInductive == FiguresInv /\ [FiguresNext]_zvars => FiguresInv'
<1> SUFFICES ASSUME FiguresInv, [FiguresNext]_zvars PROVE FiguresInv' OBVIOUS
<1>1. CASE UNCHANGED zvars
  BY <1>1 DEF zvars, FiguresInv, FiguresTypeOK, RunsBegin, Apart, LogsAreTheRuns, LogFits, LastWrites,
              WroteLast, Alone, Log
<1>2. CASE FiguresNext
  BY <1>2, QueuedBeginKeeps, ChatBeginKeeps, ReportKeeps, EditKeeps, StoppingEarlyKeeps, FileRunKeeps,
     SettlingKeeps, TimeKeeps DEF FiguresNext
<1> QED BY <1>1, <1>2

(* A case's list of traces holds those of its runs that filed one, in the order of their time
   and, of runs that did not meet, of their numbers; and a run that was alone on the case and
   wrote its status last is the last that wrote it. *)
THEOREM FiguresInvariant == FiguresSpec => []FiguresInv
BY FiguresInitially, FiguresInductive, PTL DEF FiguresSpec

(* The newest trace of a list is its last, and there is one only. *)
LEMMA NewestIsLast ==
  ASSUME FiguresInv, NEW c \in Items, NEW k \in DOMAIN Log(c)
  PROVE  /\ Max(Newest(c)) \in DOMAIN Log(c)
         /\ \A n \in DOMAIN Log(c) : n <= Max(Newest(c)) /\ Log(c)[n].at <= Log(c)[Max(Newest(c))].at
         /\ Min(Newest(c)) = Max(Newest(c))
<1>1. PICK log \in Seq(Trace) : log = Log(c) BY DEF FiguresInv, FiguresTypeOK, Log
<1>2. DOMAIN log = 1..Len(log) /\ Len(log) \in Nat /\ Len(log) \in DOMAIN log BY <1>1
<1>3. \A n, m \in DOMAIN log : n < m => log[n].at < log[m].at
  BY <1>1 DEF FiguresInv, LogsAreTheRuns, LogFits
<1>4. ASSUME NEW n \in DOMAIN log PROVE log[n].at \in Nat
  <2>1. log[n] \in Trace BY <1>1
  <2> QED BY <2>1 DEF Trace
<1>5. \A n \in DOMAIN log : log[n].at <= log[Len(log)].at /\ n <= Len(log)
  BY <1>2, <1>3, <1>4
<1>6. Newest(c) = {Len(log)}
  <2>1. Newest(c) = {n \in DOMAIN log : \A m \in DOMAIN log : log[m].at <= log[n].at}
    BY <1>1 DEF Newest
  <2>2. ASSUME NEW n \in DOMAIN log, n # Len(log) PROVE ~ (log[Len(log)].at <= log[n].at)
    <3>1. n < Len(log) BY <1>2, <2>2
    <3>2. log[n].at < log[Len(log)].at BY <1>2, <1>3, <3>1
    <3> QED BY <1>2, <1>4, <3>2
  <2> QED BY <1>2, <1>5, <2>1, <2>2
<1>7. Max(Newest(c)) = Len(log) BY <1>2, <1>6 DEF Max
<1>8. Min(Newest(c)) = Len(log) BY <1>2, <1>6 DEF Min
<1> QED BY <1>1, <1>2, <1>5, <1>7, <1>8

(* On an uncontested case the newest trace is that of the run behind its status. *)
LEMMA NewestIsTheWriters ==
  ASSUME FiguresInv, NEW c \in Items, Uncontested(c)
  PROVE  LET last == Max(Newest(c))
         IN  /\ last \in DOMAIN Log(c) /\ Min(Newest(c)) = last
             /\ \A n \in DOMAIN Log(c) : Log(c)[n].at <= Log(c)[last].at
             /\ Log(c)[last].run = board[c].by
             /\ Log(c)[last].poller <=> session[board[c].by].poller
<1>1. PICK w : w = board[c].by OBVIOUS
<1>2. /\ w # 0 /\ session[w].filed /\ ~session[w].crossed
      /\ \A j \in Invocations : j > w /\ session[j].item = c /\ session[j].filed => session[j].wrote
  BY <1>1 DEF Uncontested
<1>3. /\ w \in Invocations /\ session[w].item = c
      /\ \A j \in Invocations : j > w /\ session[j].item = c => ~session[j].wrote
  BY <1>1, <1>2 DEF FiguresInv, LastWrites, WroteLast
<1>4. PICK log \in Seq(Trace) : log = Log(c) BY DEF FiguresInv, FiguresTypeOK, Log
<1>5. LogFits(c, log) BY <1>4 DEF FiguresInv, LogsAreTheRuns
<1>6. PICK k \in DOMAIN log : log[k].run = w BY <1>2, <1>3, <1>5 DEF LogFits
<1>7. PICK last \in DOMAIN log :
        /\ last = Max(Newest(c)) /\ last = Min(Newest(c))
        /\ \A n \in DOMAIN log : n <= last /\ log[n].at <= log[last].at
  BY <1>4, <1>6, NewestIsLast
<1>8. PICK j \in Invocations : j = log[last].run /\ session[j].item = c /\ session[j].filed
  BY <1>5, <1>7 DEF LogFits
<1>9. j = w
  <2>1. ~ (j > w) BY <1>2, <1>3, <1>8
  <2>2. ~ (j < w)
    <3>1. Alone(j, w) BY <1>2 DEF Alone
    <3>2. j < w => last < k BY <1>5, <1>6, <1>8, <3>1 DEF LogFits
    <3>3. k <= last BY <1>6, <1>7
    <3>4. k \in Nat /\ last \in Nat BY <1>4, <1>6, <1>7
    <3> QED BY <3>2, <3>3, <3>4
  <2> QED BY <1>3, <1>8, <2>1, <2>2 DEF Invocations
<1>10. log[last].poller <=> session[w].poller BY <1>5, <1>7, <1>8, <1>9 DEF LogFits
<1> QED BY <1>1, <1>4, <1>7, <1>8, <1>9, <1>10

LEMMA FunnelFollows ==
  ASSUME FiguresInv, NEW c \in Items, NEW cutoff \in Nat, Uncontested(c)
  PROVE  Started(c, cutoff) <=>
           /\ session[board[c].by].poller
           /\ \E n \in DOMAIN Log(c) : Log(c)[n].run = board[c].by /\ Log(c)[n].at >= cutoff
<1>1. PICK log \in Seq(Trace) : log = Log(c) BY DEF FiguresInv, FiguresTypeOK, Log
<1>2. PICK last \in DOMAIN log :
        /\ last = Max(Newest(c))
        /\ \A n \in DOMAIN log : log[n].at <= log[last].at
        /\ log[last].run = board[c].by
        /\ log[last].poller <=> session[board[c].by].poller
  BY <1>1, NewestIsTheWriters
<1>3. \A n \in DOMAIN log : log[n].at >= cutoff => log[last].at >= cutoff
  <2> SUFFICES ASSUME NEW n \in DOMAIN log, log[n].at >= cutoff PROVE log[last].at >= cutoff OBVIOUS
  <2>1. log[n] \in Trace /\ log[last] \in Trace BY <1>1
  <2>2. log[n].at \in Nat /\ log[last].at \in Nat BY <2>1 DEF Trace
  <2> QED BY <1>2, <2>2
<1>4. Started(c, cutoff) <=> log[last].poller /\ log[last].at >= cutoff
  BY <1>1, <1>2, <1>3 DEF Started, PollerRunSince
<1>5. (\E n \in DOMAIN log : log[n].run = board[c].by /\ log[n].at >= cutoff)
        <=> log[last].at >= cutoff
  BY <1>2, <1>3
<1> QED BY <1>1, <1>2, <1>4, <1>5

(* Whatever runs in whatever order, and whatever is lost: an uncontested case is in the
   autonomy funnel if, and only if, the run that put it where it stands was the poller's and
   was filed in the window (autonomyFunnel.ts). *)
THEOREM FiguresFunnelFollows == FiguresSpec => []FunnelFollowsTheAgent
<1>1. 0..MaxMoments \subseteq Nat BY FiguresAssumption
<1>2. FiguresInv => FunnelFollowsTheAgent BY <1>1, FunnelFollows DEF FunnelFollowsTheAgent
<1> QED BY <1>2, FiguresInvariant, PTL

-----------------------------------------------------------------------------
(* The readers side by side. Time is bounded and the datapoints are finitely many, so that
   what the readers count can be counted. *)

ReadersInv == moment <= MaxMoments /\ IsFiniteSet(points)

(* A run that begins has no datapoint and takes no time. *)
LEMMA BeginsBeside ==
  ASSUME NEW i, NEW c, NEW p, NEW stage, NEW wrote, Begins(i, c, p, stage, wrote)
  PROVE  moment' = moment /\ points' = points
BY Zenon DEF Begins

(* A run adds one datapoint at most. *)
LEMMA PointsAreFew ==
  ASSUME ReadersInv, NEW i, NEW n, MayEmit(i, n)
  PROVE  IsFiniteSet(points')
<1>1. IsFiniteSet(points) BY DEF ReadersInv
<1>2. IsFiniteSet(Emitted(i)) BY <1>1, FS_AddElement DEF Emitted
<1> QED BY <1>1, <1>2 DEF MayEmit

LEMMA ReadersInitially == FiguresInit => ReadersInv
BY FiguresAssumption, FS_EmptySet DEF FiguresInit, ReadersInv

LEMMA ReadersInductive == FiguresInv /\ ReadersInv /\ [FiguresNext]_zvars => ReadersInv'
<1> SUFFICES ASSUME FiguresInv, ReadersInv, [FiguresNext]_zvars PROVE ReadersInv' OBVIOUS
<1>1. IsFiniteSet(points) /\ moment <= MaxMoments /\ moment \in Nat /\ MaxMoments \in Nat
  BY FiguresAssumption DEF ReadersInv, FiguresInv, FiguresTypeOK
<1>2. CASE moment' \in {moment, moment + 1} /\ (moment' = moment + 1 => moment < MaxMoments) /\ points' = points
  BY <1>1, <1>2 DEF ReadersInv
<1>3. CASE UNCHANGED zvars BY <1>1, <1>3 DEF zvars, ReadersInv
<1>4. ASSUME NEW i \in Invocations, NEW c \in Items, NEW p \in BOOLEAN, BeginQueued(i, c, p) PROVE ReadersInv'
  <2>1. Begins(i, c, p, "queued", TRUE) \/ Begins(i, c, p, "queued", FALSE) BY <1>4 DEF BeginQueued
  <2> QED BY <1>1, <2>1, BeginsBeside DEF ReadersInv
<1>5. ASSUME NEW i \in Invocations, NEW c \in Items, BeginChat(i, c) PROVE ReadersInv'
  <2>1. Begins(i, c, FALSE, "chat", FALSE) BY <1>5 DEF BeginChat
  <2> QED BY <1>1, <2>1, BeginsBeside DEF ReadersInv
<1>6. ASSUME NEW i \in Invocations, NEW st \in Reports, ReportStatus(i, st) PROVE ReadersInv'
  BY <1>1, <1>6 DEF ReportStatus, ReadersInv
<1>7. ASSUME NEW i \in Invocations, EditCase(i) PROVE ReadersInv'
  BY <1>1, <1>7 DEF EditCase, ReadersInv
<1>8. ASSUME NEW i \in Invocations, StopEarly(i) PROVE ReadersInv'
  <2>1. moment' = moment /\ MayEmit(i, 0) BY <1>8 DEF StopEarly
  <2> QED BY <1>1, <2>1, PointsAreFew DEF ReadersInv
<1>9. ASSUME NEW i \in Invocations, SettleRun(i) PROVE ReadersInv'
  BY <1>1, <1>9 DEF SettleRun, ReadersInv
<1>10. ASSUME NEW i \in Invocations, NEW ok \in BOOLEAN, FileRun(i, ok) PROVE ReadersInv'
  <2>1. /\ moment < MaxMoments /\ (moment' = moment \/ moment' = moment + 1)
        /\ MayEmit(i, 0) \/ MayEmit(i, 1)
    BY <1>10 DEF FileRun
  <2>2. IsFiniteSet(points') BY <2>1, PointsAreFew
  <2>3. moment' <= MaxMoments BY ONLY <1>1, <2>1
  <2> QED BY <2>2, <2>3 DEF ReadersInv
<1>11. CASE TimePasses BY <1>2, <1>11 DEF TimePasses
<1> QED BY <1>3, <1>4, <1>5, <1>6, <1>7, <1>8, <1>9, <1>10, <1>11 DEF FiguresNext

(* Counting. *)

LEMMA LeastNumber ==
  ASSUME NEW S \in SUBSET Nat, S # {}
  PROVE  \E m \in S : \A k \in S : m <= k
<1> DEFINE T == {1..n : n \in S}
<1>1. IsWellFoundedOn(StrictSubsetOrdering(Nat), FiniteSubsetsOf(Nat))
  BY FS_StrictSubsetOrderingWellFounded
<1>2. T \subseteq FiniteSubsetsOf(Nat) /\ T # {}
  <2>1. \A n \in S : IsFiniteSet(1..n) BY FS_Interval
  <2>2. ASSUME NEW x \in T PROVE x \subseteq Nat /\ IsFiniteSet(x) BY <2>1
  <2> QED BY <2>2 DEF FiniteSubsetsOf
<1>3. PICK x \in T : \A y \in T : ~ (<<y, x>> \in StrictSubsetOrdering(Nat))
  <2> HIDE DEF T
  <2> QED BY <1>1, <1>2, WFMin
<1>4. PICK m \in S : x = 1..m BY <1>3
<1>5. ASSUME NEW k \in S, k < m PROVE FALSE
  <2>1. 1..k \subseteq 1..m /\ m \in 1..m /\ m \notin 1..k BY <1>5
  <2>2. <<1..k, 1..m>> \in StrictSubsetOrdering(Nat) BY <2>1 DEF StrictSubsetOrdering
  <2> QED BY <1>3, <1>4, <2>2
<1> QED BY <1>5

(* What can be told apart by what it is counted for is counted once. *)
LEMMA CountedOnce ==
  ASSUME NEW D, NEW B, IsFiniteSet(B), NEW F \in [D -> B], \A d, e \in D : F[d] = F[e] => d = e
  PROVE  IsFiniteSet(D) /\ Cardinality(D) \in Nat /\ Cardinality(D) <= Cardinality(B)
<1>1. F \in Injection(D, B) BY DEF Injection, IsInjective
<1>2. IsFiniteSet(D) /\ Cardinality(D) <= Cardinality(B) BY <1>1, FS_Injection
<1> QED BY <1>2, FS_CardinalityType

Beyond(S, at, x)      == {h \in S : at[h] > x}
PageOf(S, at, limit) == {g \in S : Cardinality({h \in S : at[h] > at[g]}) < limit}

(* Of a finite set ordered by a number, a page takes those that fewer than limit others
   precede: who is not on it is preceded by a full page. *)
LEMMA PageIsFull ==
  ASSUME NEW S, IsFiniteSet(S), NEW bound \in Nat, NEW at \in [S -> 0..bound], NEW limit \in Nat,
         NEW f \in S, f \notin PageOf(S, at, limit)
  PROVE  Cardinality(Beyond(PageOf(S, at, limit), at, at[f])) >= limit
<1>0. PICK page : page = PageOf(S, at, limit) OBVIOUS
<1> page = {g \in S : Cardinality({h \in S : at[h] > at[g]}) < limit} /\ f \notin page
  BY <1>0 DEF PageOf
<1> DEFINE Above(g) == {h \in S : at[h] > at[g]}
           full == {g \in page : at[g] > at[f]}
<1>1. \A g \in S : IsFiniteSet(Above(g)) /\ Cardinality(Above(g)) \in Nat
  <2> TAKE g \in S
  <2>1. Above(g) \in SUBSET S OBVIOUS
  <2> HIDE DEF Above
  <2> QED BY <2>1, FS_Subset, FS_CardinalityType
<1>2. page \in SUBSET S /\ full \in SUBSET S OBVIOUS
<1>3. IsFiniteSet(full) /\ Cardinality(full) \in Nat
  <2> HIDE DEF full
  <2> QED BY <1>2, FS_Subset, FS_CardinalityType
<1>4. SUFFICES ASSUME Cardinality(full) < limit PROVE FALSE
  <2>1. Beyond(PageOf(S, at, limit), at, at[f]) = full BY <1>0 DEF Beyond
  <2> HIDE DEF full
  <2> QED BY <1>3, <2>1
<1>5. Cardinality(Above(f)) >= limit
  <2>1. ~(Cardinality(Above(f)) < limit) OBVIOUS
  <2>2. Cardinality(Above(f)) \in Nat BY <1>1
  <2> HIDE DEF Above
  <2> QED BY <2>1, <2>2
<1>6. full \subseteq Above(f) BY <1>2
<1>7. Above(f) # full BY <1>1, <1>3, <1>4, <1>5
<1> DEFINE rest == Above(f) \ full
           T == {bound - at[g] : g \in rest}
<1>8. T \in SUBSET Nat /\ T # {}
  <2>1. rest # {} BY <1>6, <1>7
  <2>2. \A g \in rest : g \in S /\ bound - at[g] \in Nat OBVIOUS
  <2> HIDE DEF rest
  <2> QED BY <2>1, <2>2
<1>9. PICK m \in T : \A k \in T : m <= k
  <2> HIDE DEF T
  <2> QED BY <1>8, LeastNumber
<1>10. PICK h \in rest : m = bound - at[h] BY <1>9
<1>11. \A g \in rest : at[g] <= at[h]
  <2> TAKE g \in rest
  <2>1. bound - at[g] \in T OBVIOUS
  <2>2. bound - at[h] <= bound - at[g] BY ONLY <1>9, <1>10, <2>1
  <2>3. at[g] \in 0..bound /\ at[h] \in 0..bound OBVIOUS
  <2> QED BY <2>2, <2>3
<1>12. h \in S /\ at[h] > at[f] /\ h \notin full OBVIOUS
<1>13. Above(h) \subseteq full
  <2> SUFFICES ASSUME NEW g \in Above(h) PROVE g \in full OBVIOUS
  <2>1. g \in S /\ at[g] > at[h] OBVIOUS
  <2>2. at[g] \in Nat /\ at[h] \in Nat /\ at[f] \in Nat BY <1>12, <2>1
  <2>3. at[g] > at[f] BY <1>12, <2>1, <2>2
  <2>4. g \notin rest BY <1>11, <2>1, <2>2
  <2> QED BY <2>1, <2>3, <2>4
<1>14. Cardinality(Above(h)) < limit
  <2>1. Cardinality(Above(h)) <= Cardinality(full)
    <3> HIDE DEF Above, full
    <3> QED BY <1>3, <1>13, FS_Subset
  <2>2. Cardinality(Above(h)) \in Nat BY <1>1, <1>12
  <2> QED BY <1>3, <1>4, <2>1, <2>2
<1>15. h \in page BY <1>12, <1>14
<1> QED BY <1>12, <1>15

(* A case that is posted by a run of the window is landed in the funnel, and the other way
   round if it was touched in the window: both look at its one newest trace. *)
LEMMA PostedIsFunnelled ==
  ASSUME FiguresInv, NEW cutoff \in Nat
  PROVE  PostedByRun(cutoff) = FunnelCounts(cutoff, Landed) \cap InWindow(cutoff)
<1>1. ASSUME NEW c \in Items, NEW k \in DOMAIN Log(c)
      PROVE  /\ Max(Newest(c)) \in DOMAIN Log(c) /\ LastTrace(c) = Log(c)[Max(Newest(c))]
             /\ LastTrace(c).at \in Nat
             /\ \A n \in DOMAIN Log(c) : Log(c)[n].at \in Nat /\ Log(c)[n].at <= LastTrace(c).at
  <2>1. /\ Max(Newest(c)) \in DOMAIN Log(c) /\ Min(Newest(c)) = Max(Newest(c))
        /\ \A n \in DOMAIN Log(c) : Log(c)[n].at <= Log(c)[Max(Newest(c))].at
    BY NewestIsLast
  <2>2. ASSUME NEW n \in DOMAIN Log(c) PROVE Log(c)[n].at \in Nat
    <3>1. Log(c) \in Seq(Trace) BY DEF FiguresInv, FiguresTypeOK, Log
    <3>2. Log(c)[n] \in Trace BY <3>1
    <3> QED BY <3>2 DEF Trace
  <2> QED BY <2>1, <2>2 DEF LastTrace
<1>2. ASSUME NEW c \in PostedByRun(cutoff) PROVE c \in FunnelCounts(cutoff, Landed) \cap InWindow(cutoff)
  <2>1. /\ c \in Items /\ c \in InWindow(cutoff) /\ board[c].status \in Landed /\ Log(c) # <<>>
        /\ LastTrace(c).poller /\ LastTrace(c).at >= cutoff
    BY DEF PostedByRun, Posted, InWindow
  <2>2. Log(c) \in Seq(Trace) BY <2>1 DEF FiguresInv, FiguresTypeOK, Log
  <2>3. PICK k : k \in DOMAIN Log(c)
    <3>1. PICK log \in Seq(Trace) : log = Log(c) BY <2>2
    <3>2. 1 \in DOMAIN log BY <2>1, <3>1
    <3> QED BY <3>1, <3>2
  <2>4. Max(Newest(c)) \in DOMAIN Log(c) /\ LastTrace(c) = Log(c)[Max(Newest(c))] BY <1>1, <2>1, <2>3
  <2>5. Started(c, cutoff) BY <2>1, <2>4 DEF Started, PollerRunSince
  <2> QED BY <2>1, <2>5 DEF FunnelCounts
<1>3. ASSUME NEW c \in FunnelCounts(cutoff, Landed) \cap InWindow(cutoff) PROVE c \in PostedByRun(cutoff)
  <2>1. c \in Items /\ Started(c, cutoff) /\ board[c].status \in Landed /\ c \in InWindow(cutoff)
    BY DEF FunnelCounts
  <2>2. PICK n \in DOMAIN Log(c) : Log(c)[n].at >= cutoff BY <2>1 DEF Started, PollerRunSince
  <2>3. /\ LastTrace(c) = Log(c)[Max(Newest(c))] /\ LastTrace(c).at \in Nat
        /\ Log(c)[n].at \in Nat /\ Log(c)[n].at <= LastTrace(c).at
    BY <1>1, <2>1, <2>2
  <2>4. LastTrace(c).at >= cutoff BY <2>2, <2>3
  <2>5. LastTrace(c).poller BY <2>1, <2>3 DEF Started
  <2>6. Log(c) # <<>> BY <2>2
  <2> QED BY <2>1, <2>4, <2>5, <2>6 DEF PostedByRun, Posted
<1> QED BY <1>2, <1>3

(* What the API finds: finitely many traces, each of some moment that has passed. *)
LEMMA FoundIsFinite ==
  ASSUME FiguresInv, ReadersInv, NEW cutoff
  PROVE  /\ IsFiniteSet(Found(cutoff))
         /\ \A f \in Found(cutoff) : f.trace.at \in 0..MaxMoments
<1> DEFINE S == Invocations \X (BOOLEAN \X ((0..MaxMoments) \X BOOLEAN))
           G == [s \in S |->
                  [of |-> session[s[1]].item,
                   trace |-> [run |-> s[1], poller |-> s[2][1], at |-> s[2][2][1], ok |-> s[2][2][2]]]]
<1>1. IsFiniteSet(S)
  <2>1. IsFiniteSet(Invocations) /\ IsFiniteSet(0..MaxMoments)
    BY FS_Interval, FiguresAssumption DEF Invocations
  <2>2. IsFiniteSet(BOOLEAN)
    <3>1. IsFiniteSet({TRUE}) /\ IsFiniteSet({FALSE}) BY FS_Singleton
    <3>2. IsFiniteSet({TRUE} \cup {FALSE}) BY <3>1, FS_Union
    <3>3. BOOLEAN = {TRUE} \cup {FALSE} OBVIOUS
    <3> QED BY <3>2, <3>3, Zenon
  <2>3. IsFiniteSet((0..MaxMoments) \X BOOLEAN) BY <2>1, <2>2, FS_Product
  <2>4. IsFiniteSet(BOOLEAN \X ((0..MaxMoments) \X BOOLEAN)) BY <2>2, <2>3, FS_Product
  <2> QED BY <2>1, <2>4, FS_Product
<1>2. ASSUME NEW f \in Found(cutoff)
      PROVE  f.trace.at \in 0..MaxMoments /\ \E s \in S : f = G[s]
  <2>0. PICK c \in Items : \E n \in DOMAIN Log(c) : f = [of |-> c, trace |-> Log(c)[n]]
    BY DEF Found, InWindow
  <2>1. PICK n \in DOMAIN Log(c) : f = [of |-> c, trace |-> Log(c)[n]] BY <2>0
  <2>2. PICK x : x = Log(c)[n] OBVIOUS
  <2>3. Log(c) \in Seq(Trace) BY DEF FiguresInv, FiguresTypeOK, Log
  <2>4. x \in Trace BY <2>2, <2>3
  <2>5. x.run \in Invocations /\ x.at < moment /\ session[x.run].item = c
    BY <2>2 DEF FiguresInv, LogsAreTheRuns, LogFits
  <2>6. x.at \in 0..MaxMoments
    BY <2>4, <2>5, FiguresAssumption DEF Trace, FiguresInv, FiguresTypeOK, ReadersInv
  <2>7. PICK s : s = <<x.run, <<x.poller, <<x.at, x.ok>>>>>> OBVIOUS
  <2>8. s \in S
    <3>1. x.poller \in BOOLEAN /\ x.ok \in BOOLEAN BY <2>4 DEF Trace
    <3> QED BY <2>5, <2>6, <2>7, <3>1
  <2>9. f = G[s]
    <3>1. x = [run |-> x.run, poller |-> x.poller, at |-> x.at, ok |-> x.ok] BY <2>4 DEF Trace
    <3>2. G[s] = [of |-> session[x.run].item,
                  trace |-> [run |-> x.run, poller |-> x.poller, at |-> x.at, ok |-> x.ok]]
      BY <2>7, <2>8
    <3> QED BY <2>1, <2>2, <2>5, <3>1, <3>2
  <2>10. f.trace = x BY <2>1, <2>2
  <2> QED BY <2>6, <2>8, <2>9, <2>10
<1>3. IsFiniteSet({G[s] : s \in S})
  <2> DEFINE R == {G[s] : s \in S}
  <2>1. G \in Surjection(S, R)
    <3>1. G \in [S -> R] OBVIOUS
    <3>2. \A r \in R : \E s \in S : G[s] = r OBVIOUS
    <3> HIDE DEF G, R, S
    <3> QED BY <3>1, <3>2 DEF Surjection
  <2> HIDE DEF G, R, S
  <2>2. IsFiniteSet(R) BY <1>1, <2>1, FS_Surjection
  <2> QED BY <2>2 DEF R
<1>4. Found(cutoff) \in SUBSET {G[s] : s \in S}
  <2> HIDE DEF G, S
  <2> QED BY <1>2
<1> HIDE DEF G, S
<1> QED BY <1>2, <1>3, <1>4, FS_Subset

(* The traces of a set of cases that were posted in the window, each its newest, are found. *)
LEMMA PostedAreFound ==
  ASSUME FiguresInv, ReadersInv, NEW cutoff, NEW D \in SUBSET Posted(cutoff),
         NEW B \in SUBSET Found(cutoff), \A d \in D : [of |-> d, trace |-> LastTrace(d)] \in B
  PROVE  /\ IsFiniteSet(B) /\ Cardinality(B) \in Nat
         /\ Cardinality(D) \in Nat /\ Cardinality(D) <= Cardinality(B)
<1>1. IsFiniteSet(B) BY FoundIsFinite, FS_Subset
<1> DEFINE F == [d \in D |-> [of |-> d, trace |-> LastTrace(d)]]
<1>2. F \in [D -> B] OBVIOUS
<1>3. ASSUME NEW d \in D, NEW e \in D, F[d] = F[e] PROVE d = e
  <2>1. F[d].of = d /\ F[e].of = e OBVIOUS
  <2> QED BY <1>3, <2>1
<1> HIDE DEF F
<1>4. Cardinality(D) \in Nat /\ Cardinality(D) <= Cardinality(B) BY <1>1, <1>2, <1>3, CountedOnce
<1> QED BY <1>1, <1>4, FS_CardinalityType

(* The newest trace of a case with traces is one of its traces. *)
LEMMA LastIsFound ==
  ASSUME FiguresInv, NEW cutoff, NEW d \in Posted(cutoff)
  PROVE  [of |-> d, trace |-> LastTrace(d)] \in Found(cutoff)
<1>1. d \in Items /\ d \in InWindow(cutoff) /\ Log(d) # <<>> BY DEF Posted, InWindow
<1>2. Log(d) \in Seq(Trace) BY <1>1 DEF FiguresInv, FiguresTypeOK, Log
<1>3. PICK k : k \in DOMAIN Log(d) BY <1>1, <1>2
<1>4. Min(Newest(d)) \in DOMAIN Log(d) BY <1>1, <1>3, NewestIsLast
<1>5. [of |-> d, trace |-> Log(d)[Min(Newest(d))]]
        \in {[of |-> d, trace |-> Log(d)[n]] : n \in DOMAIN Log(d)}
  BY <1>4
<1> QED BY <1>1, <1>5 DEF LastTrace, Found

(* A page of the API: the run behind a posted case is listed, or a full page is newer. *)
LEMMA PageListsPosted ==
  ASSUME FiguresInv, ReadersInv, NEW cutoff, NEW f \in Found(cutoff), f \notin FirstPage(cutoff)
  PROVE  Cardinality({g \in FirstPage(cutoff) : g.trace.at > f.trace.at}) >= PageLimit
<1>1. PICK S : S = Found(cutoff) OBVIOUS
<1>2. IsFiniteSet(S) /\ \A g \in S : g.trace.at \in 0..MaxMoments BY <1>1, FoundIsFinite
<1>3. PICK at : at = [g \in S |-> g.trace.at] OBVIOUS
<1>4. at \in [S -> 0..MaxMoments] /\ \A g \in S : at[g] = g.trace.at BY <1>2, <1>3
<1>5. PICK page : page = FirstPage(cutoff) OBVIOUS
<1>6. page = {g \in S : Cardinality({h \in S : at[h] > at[g]}) < PageLimit}
  <2>1. \A g \in S : {h \in S : h.trace.at > g.trace.at} = {h \in S : at[h] > at[g]} BY <1>4
  <2> QED BY <1>1, <1>5, <2>1 DEF FirstPage
<1>7. PageLimit \in Nat /\ MaxMoments \in Nat BY FiguresAssumption
<1>8. f \in S /\ f \notin page BY <1>1, <1>5
<1>9. page = PageOf(S, at, PageLimit) BY <1>6 DEF PageOf
<1>10. Cardinality(Beyond(page, at, at[f])) >= PageLimit
  BY ONLY <1>2, <1>4, <1>7, <1>8, <1>9, PageIsFull
<1>11. Beyond(page, at, at[f]) = {g \in page : g.trace.at > f.trace.at}
  BY <1>4, <1>6, <1>8 DEF Beyond
<1> QED BY <1>5, <1>10, <1>11

(* A chart of datapoints has a point if there is a datapoint in its window. *)
LEMMA MetricOf ==
  ASSUME ReadersInv, FiguresInv, NEW since, NEW period
  PROVE  /\ GetMetric(since, period) # <<>> <=> \E d \in points : d.at >= since
         /\ \A b \in DOMAIN GetMetric(since, period) : GetMetric(since, period)[b] \in Nat
<1> DEFINE of == {d \in points : d.at >= since}
           at(b) == {d \in of : d.at \div period = b}
           M == [b \in {d.at \div period : d \in of} |-> Cardinality(at(b))]
<1>1. GetMetric(since, period) = M BY DEF GetMetric
<1>2. \A b : Cardinality(at(b)) \in Nat
  <2> TAKE b
  <2>1. at(b) \in SUBSET points /\ IsFiniteSet(points) BY DEF ReadersInv
  <2> HIDE DEF at
  <2> QED BY <2>1, FS_Subset, FS_CardinalityType
<1>3. DOMAIN M = {d.at \div period : d \in of}
  <2> HIDE DEF of, at
  <2> QED OBVIOUS
<1>4. M # <<>> <=> of # {}
  <2>1. DOMAIN <<>> = {} OBVIOUS
  <2>2. of = {} => M = <<>>
    <3> SUFFICES ASSUME of = {} PROVE M = <<>> OBVIOUS
    <3>1. M = [b \in {} |-> Cardinality(at(b))] OBVIOUS
    <3> HIDE DEF M, of, at
    <3> QED BY <3>1
  <2>3. of # {} => DOMAIN M # {}
    <3> HIDE DEF M, of
    <3> QED BY <1>3
  <2> HIDE DEF M, of
  <2> QED BY <2>1, <2>2, <2>3
<1>5. \A b \in DOMAIN M : M[b] \in Nat
  <2> HIDE DEF at
  <2> QED BY <1>2, <1>3
<1> HIDE DEF M
<1> QED BY <1>1, <1>4, <1>5

(* An hour of the dashboard counts no fewer runs than posted cases filed in it. *)
LEMMA SeriesCounts ==
  ASSUME FiguresInv, ReadersInv, NEW cutoff \in Nat, NEW c \in PostedByRun(cutoff),
         NEW h, h = Hour(LastTrace(c).at)
  PROVE  /\ h \in DOMAIN Series(cutoff)
         /\ Series(cutoff)[h].cases > 0
         /\ Series(cutoff)[h].cases >=
              Cardinality({d \in PostedByRun(cutoff) : Hour(LastTrace(d).at) = h})
<1>1. PICK B : B = {f \in Found(cutoff) : f.trace.at >= cutoff /\ Hour(f.trace.at) = h} OBVIOUS
<1>2. PICK D : D = {d \in PostedByRun(cutoff) : Hour(LastTrace(d).at) = h} OBVIOUS
<1>3. ASSUME NEW d \in D PROVE [of |-> d, trace |-> LastTrace(d)] \in B
  <2>1. d \in PostedByRun(cutoff) /\ Hour(LastTrace(d).at) = h BY <1>2
  <2>3. d \in Posted(cutoff) /\ LastTrace(d).at >= cutoff BY <2>1 DEF PostedByRun
  <2>4. PICK f : f = [of |-> d, trace |-> LastTrace(d)] OBVIOUS
  <2>5. f \in Found(cutoff) BY <2>3, <2>4, LastIsFound
  <2>6. f.trace = LastTrace(d) BY <2>4
  <2> QED BY <1>1, <2>1, <2>3, <2>4, <2>5, <2>6
<1>4. D \in SUBSET Posted(cutoff) /\ B \in SUBSET Found(cutoff) BY <1>1, <1>2 DEF PostedByRun
<1>5. /\ IsFiniteSet(B) /\ Cardinality(B) \in Nat
      /\ Cardinality(D) \in Nat /\ Cardinality(D) <= Cardinality(B)
  BY <1>3, <1>4, PostedAreFound
<1>6. c \in D BY <1>2
<1>7. Cardinality(B) > 0
  <2>1. B # {} BY <1>3, <1>6
  <2>2. Cardinality(B) # 0 BY <1>5, <2>1, FS_EmptySet
  <2> QED BY <1>5, <2>2
<1>8. h \in {Hour(t) : t \in 0..MaxMoments}
  <2>1. PICK f : f = [of |-> c, trace |-> LastTrace(c)] OBVIOUS
  <2>2. f \in Found(cutoff) BY <2>1, LastIsFound DEF PostedByRun
  <2>3. f.trace.at \in 0..MaxMoments BY <2>2, FoundIsFinite
  <2>4. LastTrace(c).at \in 0..MaxMoments BY <2>1, <2>3
  <2> QED BY <2>4
<1>9. /\ DOMAIN Series(cutoff) = {Hour(t) : t \in 0..MaxMoments}
      /\ Series(cutoff)[h].cases = Cardinality(B)
  BY <1>1, <1>8 DEF Series
<1> QED BY <1>2, <1>5, <1>7, <1>8, <1>9

(* The total of a day is positive only if the day has a datapoint. *)
LEMMA TotalOfTheDay ==
  ASSUME FiguresInv, ReadersInv
  PROVE  /\ DayAgo \in Nat /\ DayTotal \in Nat
         /\ DayTotal > 0 => \E d \in points : d.at >= DayAgo
<1>1. moment \in Nat /\ Day \in Nat \ {0} BY FiguresAssumption DEF FiguresInv, FiguresTypeOK
<1>2. DayAgo \in Nat BY <1>1 DEF DayAgo
<1>3. PICK days : days = GetMetric(DayAgo, Day) OBVIOUS
<1>4. DayTotal = IF days = <<>> THEN 0 ELSE days[Min(DOMAIN days)] BY <1>3 DEF DayTotal
<1>5. /\ days # <<>> <=> \E d \in points : d.at >= DayAgo
      /\ \A b \in DOMAIN days : days[b] \in Nat
  BY <1>3, MetricOf
<1>6. days # <<>> => Min(DOMAIN days) \in DOMAIN days
  <2>1. DOMAIN days = {d.at \div Day : d \in {d \in points : d.at >= DayAgo}} BY <1>3 DEF GetMetric
  <2>2. \A d \in points : d.at \in Nat BY DEF FiguresInv, FiguresTypeOK
  <2>3. \A x \in Nat : x \div Day \in Nat BY <1>1
  <2>4. DOMAIN days \in SUBSET Nat BY <2>1, <2>2, <2>3
  <2>5. days # <<>> => DOMAIN days # {} BY <1>5, <2>1
  <2>6. PICK T : T = DOMAIN days OBVIOUS
  <2>7. days # <<>> => \E m \in T : \A k \in T : m <= k BY <2>4, <2>5, <2>6, LeastNumber
  <2> QED BY <2>6, <2>7 DEF Min
<1> QED BY <1>2, <1>4, <1>5, <1>6

(* The dashboard beside a case posted in its window. *)
LEMMA DashboardShows ==
  ASSUME FiguresInv, ReadersInv, NEW cutoff \in Nat, NEW c \in PostedByRun(cutoff)
  PROVE  LET shown == HandleMetrics(cutoff) IN
         /\ shown.total >= IF shown.traced THEN Cardinality(PostedByRun(cutoff)) ELSE 1
         /\ cutoff <= DayAgo => shown.chart # <<>>
<1>1. PICK filed : filed = {f \in Found(cutoff) : f.trace.at >= cutoff} OBVIOUS
<1>2. PICK D : D = PostedByRun(cutoff) OBVIOUS
<1>3. PICK chart : chart = GetMetric(cutoff, 2) OBVIOUS
<1>4. PICK hours : hours = {h \in DOMAIN Series(cutoff) : Series(cutoff)[h].cases > 0} OBVIOUS
<1>5. ASSUME NEW d \in D PROVE [of |-> d, trace |-> LastTrace(d)] \in filed
  <2>1. d \in Posted(cutoff) /\ LastTrace(d).at >= cutoff BY <1>2 DEF PostedByRun
  <2>2. PICK f : f = [of |-> d, trace |-> LastTrace(d)] OBVIOUS
  <2>3. f \in Found(cutoff) /\ f.trace = LastTrace(d) BY <2>1, <2>2, LastIsFound
  <2> QED BY <1>1, <2>1, <2>2, <2>3
<1>6. Cardinality(D) <= Cardinality(filed) /\ Cardinality(D) \in Nat /\ Cardinality(filed) \in Nat
  <2>1. D \in SUBSET Posted(cutoff) /\ filed \in SUBSET Found(cutoff) BY <1>1, <1>2 DEF PostedByRun
  <2> QED BY <1>5, <2>1, PostedAreFound
<1>7. filed # {} BY <1>2, <1>5
<1>8. hours # {} BY <1>4, SeriesCounts
<1>9. HandleMetrics(cutoff) =
        IF DayTotal > 0 THEN [total |-> DayTotal, traced |-> FALSE, chart |-> chart]
        ELSE [total |-> Cardinality(filed), traced |-> TRUE,
              chart |-> IF chart # <<>> THEN chart ELSE [h \in hours |-> Series(cutoff)[h].cases]]
  <2>1. HandleMetrics(cutoff) =
          IF DayTotal > 0 \/ filed = {} THEN [total |-> DayTotal, traced |-> FALSE, chart |-> chart]
          ELSE [total |-> Cardinality(filed), traced |-> TRUE,
                chart |-> IF chart # <<>> THEN chart ELSE [h \in hours |-> Series(cutoff)[h].cases]]
    BY <1>1, <1>3, <1>4 DEF HandleMetrics
  <2> QED BY <1>7, <2>1
<1>10. CASE DayTotal > 0
  <2>1. PICK shown : shown = HandleMetrics(cutoff) OBVIOUS
  <2>2. shown.total = DayTotal /\ shown.traced = FALSE /\ shown.chart = chart BY <1>9, <1>10, <2>1
  <2>3. DayTotal >= 1 BY <1>10, TotalOfTheDay
  <2>4. ASSUME cutoff <= DayAgo PROVE chart # <<>>
    <3>1. DayAgo \in Nat BY TotalOfTheDay
    <3>2. PICK d \in points : d.at >= DayAgo BY <1>10, TotalOfTheDay
    <3>3. d.at \in Nat BY <3>2 DEF FiguresInv, FiguresTypeOK
    <3>4. d.at >= cutoff BY <2>4, <3>1, <3>2, <3>3
    <3> QED BY <1>3, <3>2, <3>4, MetricOf
  <2> QED BY <2>1, <2>2, <2>3, <2>4
<1>11. CASE ~(DayTotal > 0)
  <2>1. PICK shown : shown = HandleMetrics(cutoff) OBVIOUS
  <2>2. PICK bars : bars = [h \in hours |-> Series(cutoff)[h].cases] OBVIOUS
  <2>3. /\ shown.total = Cardinality(filed) /\ shown.traced = TRUE
        /\ shown.chart = IF chart # <<>> THEN chart ELSE bars
    BY <1>9, <1>11, <2>1, <2>2
  <2>4. bars # <<>>
    <3>1. DOMAIN bars = hours /\ DOMAIN <<>> = {} BY <2>2
    <3> QED BY <1>8, <3>1
  <2>5. shown.chart # <<>> BY <2>3, <2>4
  <2>6. shown.total >= Cardinality(D) BY <1>6, <2>3
  <2> QED BY <1>2, <2>1, <2>3, <2>5, <2>6
<1> QED BY <1>10, <1>11

(* The funnel, the handover and the dashboard use different times and different traces, and
   agree in the same window on what was posted by a run of it, whatever is lost, whatever is
   edited and whatever runs in whatever order. *)
THEOREM FiguresReadersAgree == FiguresSpec => []ReadersAgree
<1>1. ASSUME FiguresInv, ReadersInv, NEW cutoff \in 0..MaxMoments, NEW c \in PostedByRun(cutoff),
             NEW f, f = [of |-> c, trace |-> LastTrace(c)], NEW h, h = Hour(f.trace.at)
      PROVE  /\ \/ f \in FirstPage(cutoff)
                \/ Cardinality({g \in FirstPage(cutoff) : g.trace.at > f.trace.at}) >= PageLimit
             /\ Series(cutoff)[h].cases >=
                  Cardinality({d \in PostedByRun(cutoff) : Hour(LastTrace(d).at) = h})
  <2>1. cutoff \in Nat BY FiguresAssumption
  <2>2. f \in Found(cutoff) BY <1>1, LastIsFound DEF PostedByRun
  <2>3. h = Hour(LastTrace(c).at) BY <1>1
  <2>4. Series(cutoff)[h].cases >=
          Cardinality({d \in PostedByRun(cutoff) : Hour(LastTrace(d).at) = h})
    BY <1>1, <2>1, <2>3, SeriesCounts
  <2>5. \/ f \in FirstPage(cutoff)
        \/ Cardinality({g \in FirstPage(cutoff) : g.trace.at > f.trace.at}) >= PageLimit
    BY <1>1, <2>2, PageListsPosted
  <2> QED BY <2>4, <2>5
<1>2. ASSUME FiguresInv, ReadersInv, NEW cutoff \in 0..MaxMoments, NEW c \in PostedByRun(cutoff)
      PROVE  LET shown == HandleMetrics(cutoff) IN
             /\ shown.total >= IF shown.traced THEN Cardinality(PostedByRun(cutoff)) ELSE 1
             /\ cutoff <= DayAgo => shown.chart # <<>>
  <2>1. cutoff \in Nat BY FiguresAssumption
  <2> QED BY <1>2, <2>1, DashboardShows
<1>3. FiguresInv /\ ReadersInv => ReadersAgree
  <2> SUFFICES ASSUME FiguresInv, ReadersInv, NEW cutoff \in 0..MaxMoments
      PROVE  /\ PostedByRun(cutoff) = FunnelCounts(cutoff, Landed) \cap InWindow(cutoff)
             /\ \A c \in PostedByRun(cutoff) :
                  LET f == [of |-> c, trace |-> LastTrace(c)]
                      h == Hour(f.trace.at)
                      shown == HandleMetrics(cutoff)
                  IN /\ \/ f \in FirstPage(cutoff)
                        \/ Cardinality({g \in FirstPage(cutoff) : g.trace.at > f.trace.at}) >= PageLimit
                     /\ Series(cutoff)[h].cases >=
                          Cardinality({d \in PostedByRun(cutoff) : Hour(LastTrace(d).at) = h})
                     /\ shown.total >= IF shown.traced THEN Cardinality(PostedByRun(cutoff)) ELSE 1
                     /\ cutoff <= DayAgo => shown.chart # <<>>
    BY DEF ReadersAgree
  <2>1. cutoff \in Nat BY FiguresAssumption
  <2>2. PostedByRun(cutoff) = FunnelCounts(cutoff, Landed) \cap InWindow(cutoff) BY <2>1, PostedIsFunnelled
  <2> QED BY <1>1, <1>2, <2>2
<1> QED BY <1>3, ReadersInitially, ReadersInductive, FiguresInvariant, PTL DEF FiguresSpec

-----------------------------------------------------------------------------
(* The byte stream. What a scan yields, token by token; what a filter keeps, element by
   element. *)

Folded(iter, s, step, base) ==
  iter = [d \in SUBSET (DOMAIN s) |->
            IF d = {} THEN base ELSE step[iter[d \ {Max(d)}]][s[Max(d)]]]

(* The greatest of a set that has one. *)
LEMMA MaxOf ==
  ASSUME NEW n \in Nat, NEW d \in SUBSET (1..n), n \in d PROVE Max(d) = n
<1>1. \A y \in d : n >= y OBVIOUS
<1>2. PICK x : x = Max(d) OBVIOUS
<1>3. x \in d /\ \A y \in d : x >= y
  <2>1. \E z \in d : \A y \in d : z >= y BY <1>1
  <2> QED BY <1>2, <2>1 DEF Max
<1>4. x \in Nat /\ x >= n /\ n >= x BY <1>1, <1>3
<1> QED BY <1>2, <1>4

LEMMA FoldExists ==
  ASSUME NEW step, NEW base, NEW s, NEW n \in Nat, DOMAIN s = 1..n
  PROVE  \E iter : Folded(iter, s, step, base)
<1> DEFINE Part(iter, k) ==
             iter = [d \in SUBSET (1..k) |->
                       IF d = {} THEN base ELSE step[iter[d \ {Max(d)}]][s[Max(d)]]]
           Bad == {k \in 0..n : ~\E iter : Part(iter, k)}
<1>1. SUFFICES ASSUME Bad # {} PROVE FALSE
  <2> SUFFICES ASSUME Bad = {} PROVE \E iter : Folded(iter, s, step, base) OBVIOUS
  <2>1. n \in 0..n /\ n \notin Bad
    <3>1. n \in 0..n OBVIOUS
    <3> HIDE DEF Bad
    <3> QED BY <3>1
  <2>2. PICK iter : Part(iter, n) BY <2>1
  <2>3. Folded(iter, s, step, base) BY <2>2 DEF Folded
  <2> QED BY <2>3
<1>2. Bad \in SUBSET Nat OBVIOUS
<1>3. PICK k \in Bad : \A j \in Bad : k <= j
  <2> HIDE DEF Bad
  <2> QED BY <1>1, <1>2, LeastNumber
<1>4. k # 0
  <2>0. \E iter : Part(iter, 0)
    <3>1. SUBSET (1..0) = {{}} OBVIOUS
    <3>2. PICK iter : iter = [d \in SUBSET (1..0) |-> base] OBVIOUS
    <3>3. Part(iter, 0) BY <3>1, <3>2
    <3> QED BY <3>3
  <2>1. 0 \notin Bad
    <3> HIDE DEF Part
    <3> QED BY <2>0
  <2> HIDE DEF Bad
  <2> QED BY <1>3, <2>1
<1>5. k \in 0..n /\ k - 1 \in 0..n /\ k \in Nat /\ k - 1 \in Nat /\ ~(k <= k - 1)
  <2>1. k \in 0..n /\ k # 0 BY <1>3, <1>4
  <2> QED BY ONLY <2>1, n \in Nat
<1>6. PICK it : Part(it, k - 1)
  <2>1. k - 1 \notin Bad
    <3> HIDE DEF Bad
    <3> QED BY <1>3, <1>5
  <2> QED BY <1>5, <2>1
<1>7. PICK iter : iter = [d \in SUBSET (1..k) |-> IF k \in d THEN step[it[d \ {k}]][s[k]] ELSE it[d]]
  OBVIOUS
<1>8. \A d \in SUBSET (1..(k - 1)) :
        /\ it[d] = IF d = {} THEN base ELSE step[it[d \ {Max(d)}]][s[Max(d)]]
        /\ iter[d] = it[d] /\ d \in SUBSET (1..k)
  <2> TAKE d \in SUBSET (1..(k - 1))
  <2>1. k \notin d /\ d \in SUBSET (1..k) BY <1>5
  <2>2. iter[d] = it[d] BY <1>7, <2>1
  <2> QED BY <1>6, <2>1, <2>2
<1>9. ASSUME NEW d \in SUBSET (1..k)
      PROVE  iter[d] = IF d = {} THEN base ELSE step[iter[d \ {Max(d)}]][s[Max(d)]]
  <2>1. CASE k \in d
    <3>1. Max(d) = k BY <1>5, <2>1, MaxOf
    <3>2. d \ {k} \in SUBSET (1..(k - 1)) BY <1>5
    <3>3. iter[d \ {k}] = it[d \ {k}] BY <1>8, <3>2
    <3>4. iter[d] = step[it[d \ {k}]][s[k]] BY <1>7, <2>1
    <3> QED BY <2>1, <3>1, <3>3, <3>4
  <2>2. CASE k \notin d
    <3>1. d \in SUBSET (1..(k - 1)) BY <1>5, <2>2
    <3>2. d \ {Max(d)} \in SUBSET (1..(k - 1)) BY <3>1
    <3>3. iter[d] = it[d] /\ iter[d \ {Max(d)}] = it[d \ {Max(d)}] BY <1>8, <3>1, <3>2
    <3> QED BY <1>8, <3>1, <3>3
  <2> QED BY <2>1, <2>2
<1>10. Part(iter, k) BY <1>7, <1>9
<1> QED BY <1>3, <1>10

Indexed(s, n) == n \in Nat /\ DOMAIN s = 1..n

LEMMA ScanUnfolds ==
  ASSUME NEW step, NEW base, NEW s, NEW n, Indexed(s, n)
  PROVE  \E iter : Folded(iter, s, step, base) /\ Scan(step, base, s) = iter[1..n]
<1> DEFINE it == CHOOSE iter : Folded(iter, s, step, base)
<1>1. Folded(it, s, step, base) BY FoldExists DEF Indexed
<1>2. Scan(step, base, s) = it[DOMAIN s] BY DEF Scan, FoldLeft, MapThenFoldSet, Folded
<1> QED BY <1>1, <1>2 DEF Indexed

(* A scan passes through one stage for each token. *)
Stages(at, s, n, step, base) ==
  at[0] = base /\ \A k \in 1..n : at[k] = step[at[k - 1]][s[k]]

Staged(s, n, step, base) ==
  \E at : Stages(at, s, n, step, base) /\ Scan(step, base, s) = at[n]

LEMMA ScanIsStaged ==
  ASSUME NEW step, NEW base, NEW s, NEW n, Indexed(s, n) PROVE Staged(s, n, step, base)
<1>1. PICK iter : Folded(iter, s, step, base) /\ Scan(step, base, s) = iter[1..n] BY ScanUnfolds
<1>2. iter[1..0] = base
  <2>1. 1..0 = {} /\ {} \in SUBSET (DOMAIN s) OBVIOUS
  <2> QED BY <1>1, <2>1 DEF Folded
<1>5. ASSUME NEW k \in 1..n PROVE iter[1..k] = step[iter[1..(k - 1)]][s[k]]
  <2>1. k \in Nat /\ k \in 1..k /\ 1..k \in SUBSET (DOMAIN s) /\ 1..k # {} /\ (1..k) \ {k} = 1..(k - 1)
    BY DEF Indexed
  <2>2. Max(1..k) = k BY <2>1, MaxOf
  <2>3. PICK d : d = 1..k OBVIOUS
  <2>4. iter[d] = step[iter[d \ {Max(d)}]][s[Max(d)]] BY <1>1, <2>1, <2>3 DEF Folded
  <2> QED BY <2>1, <2>2, <2>3, <2>4
<1>3. PICK at : at = [k \in 0..n |-> iter[1..k]] OBVIOUS
<1>4. /\ at[0] = iter[1..0] /\ at[n] = iter[1..n]
      /\ \A k \in 1..n : at[k] = iter[1..k] /\ at[k - 1] = iter[1..(k - 1)]
  BY <1>3 DEF Indexed
<1> QED BY <1>1, <1>2, <1>4, <1>5 DEF Staged, Stages

(* A scan of nothing is its base, one token more is one step more. *)
LEMMA ScanNothing == ASSUME NEW step, NEW base PROVE Scan(step, base, <<>>) = base
<1>1. Indexed(<<>>, 0) BY DEF Indexed
<1>2. Staged(<<>>, 0, step, base) BY ONLY <1>1, ScanIsStaged
<1> QED BY <1>2 DEF Staged, Stages

LEMMA ScanSnoc ==
  ASSUME NEW step, NEW base, NEW T, NEW s \in Seq(T), NEW c \in T
  PROVE  Scan(step, base, Append(s, c)) = step[Scan(step, base, s)][c]
<1>1. PICK n \in Nat : n = Len(s) /\ DOMAIN s = 1..n OBVIOUS
<1>2. PICK t : t = Append(s, c) OBVIOUS
<1>3. DOMAIN t = 1..(n + 1) /\ n + 1 \in Nat /\ t[n + 1] = c /\ \A i \in 1..n : t[i] = s[i]
  BY <1>1, <1>2
<1>4. Indexed(s, n) /\ Indexed(t, n + 1) BY <1>1, <1>3 DEF Indexed
<1>5. Staged(s, n, step, base) BY ONLY <1>4, ScanIsStaged
<1>6. Staged(t, n + 1, step, base) BY ONLY <1>4, ScanIsStaged
<1>7. PICK at : Stages(at, s, n, step, base) /\ Scan(step, base, s) = at[n] BY <1>5 DEF Staged
<1>8. PICK it : Stages(it, t, n + 1, step, base) /\ Scan(step, base, t) = it[n + 1]
  BY <1>6 DEF Staged
<1> DEFINE Bad == {k \in 0..n : at[k] # it[k]}
<1>9. Bad \in SUBSET Nat OBVIOUS
<1>10. ASSUME Bad # {} PROVE FALSE
  <2>1. PICK k \in Bad : \A j \in Bad : k <= j
    <3> HIDE DEF Bad
    <3> QED BY <1>9, <1>10, LeastNumber
  <2>2. k \in 0..n /\ at[k] # it[k] BY <2>1
  <2>3. k # 0 BY <1>7, <1>8, <2>2 DEF Stages
  <2>4. k \in 1..n /\ k \in 1..(n + 1) /\ k - 1 \in 0..n /\ ~(k <= k - 1) BY <2>2, <2>3
  <2>5. at[k - 1] = it[k - 1] BY <2>1, <2>4
  <2>6. at[k] = step[at[k - 1]][s[k]] /\ it[k] = step[it[k - 1]][t[k]] BY <1>7, <1>8, <2>4 DEF Stages
  <2> QED BY <1>3, <2>2, <2>4, <2>5, <2>6
<1>11. at[n] = it[n]
  <2>1. n \in 0..n OBVIOUS
  <2> QED BY <1>10, <2>1
<1>12. n + 1 \in 1..(n + 1) /\ (n + 1) - 1 = n BY <1>1
<1>13. it[n + 1] = step[it[n]][c] BY <1>3, <1>8, <1>12 DEF Stages
<1> QED BY <1>2, <1>7, <1>8, <1>11, <1>13

Steps(step, A, T) == step \in [A -> [T -> A]]

LEMMA ScanTyped ==
  ASSUME NEW step, NEW A, NEW T, Steps(step, A, T), NEW base \in A, NEW s \in Seq(T)
  PROVE  Scan(step, base, s) \in A
<1>1. PICK n \in Nat : n = Len(s) /\ DOMAIN s = 1..n OBVIOUS
<1>2. Indexed(s, n) BY <1>1 DEF Indexed
<1>3. Staged(s, n, step, base) BY ONLY <1>2, ScanIsStaged
<1>4. PICK at : Stages(at, s, n, step, base) /\ Scan(step, base, s) = at[n] BY <1>3 DEF Staged
<1> DEFINE Bad == {k \in 0..n : at[k] \notin A}
<1>5. Bad \in SUBSET Nat OBVIOUS
<1>6. ASSUME Bad # {} PROVE FALSE
  <2>1. PICK k \in Bad : \A j \in Bad : k <= j
    <3> HIDE DEF Bad
    <3> QED BY <1>5, <1>6, LeastNumber
  <2>2. k \in 0..n /\ at[k] \notin A BY <2>1
  <2>3. k # 0 BY <1>4, <2>2 DEF Stages
  <2>4. k \in 1..n /\ k - 1 \in 0..n /\ ~(k <= k - 1) BY <2>2, <2>3
  <2>5. at[k - 1] \in A BY <2>1, <2>4
  <2>6. s[k] \in T BY <1>1, <2>4
  <2> QED BY <1>4, <2>2, <2>4, <2>5, <2>6 DEF Stages, Steps
<1>7. at[n] \in A
  <2>1. n \in 0..n OBVIOUS
  <2> QED BY <1>6, <2>1
<1> QED BY <1>4, <1>7

-----------------------------------------------------------------------------
(* Sequences grow at their end. *)

LEMMA Grown ==
  ASSUME NEW T, NEW s \in Seq(T), NEW c \in T
  PROVE  /\ Append(s, c) \in Seq(T) /\ Append(s, c) # <<>>
         /\ Front(Append(s, c)) = s /\ Last(Append(s, c)) = c
<1>1. PICK t : t = Append(s, c) OBVIOUS
<1>2. /\ t \in Seq(T) /\ Len(t) = Len(s) + 1 /\ t[Len(s) + 1] = c
      /\ \A i \in 1..Len(s) : t[i] = s[i]
  BY <1>1
<1>3. SubSeq(t, 1, Len(t) - 1) = s
  <2>1. Len(t) - 1 = Len(s) /\ Len(s) \in Nat BY <1>2
  <2>2. /\ SubSeq(t, 1, Len(s)) \in Seq(T) /\ Len(SubSeq(t, 1, Len(s))) = Len(s)
        /\ \A i \in 1..Len(s) : SubSeq(t, 1, Len(s))[i] = t[i]
    BY <1>2, <2>1
  <2> QED BY <1>2, <2>1, <2>2, SeqEqual
<1>4. Front(t) = s /\ Last(t) = c BY <1>2, <1>3 DEF Front, Last
<1>5. t # <<>> BY <1>2
<1> QED BY <1>1, <1>2, <1>4, <1>5, Zenon

LEMMA Shortened ==
  ASSUME NEW T, NEW s \in Seq(T), s # <<>>
  PROVE  /\ Front(s) \in Seq(T) /\ Last(s) \in T /\ s = Append(Front(s), Last(s))
         /\ Len(Front(s)) = Len(s) - 1
<1>1. PICK n \in Nat : n + 1 = Len(s)
  <2>1. Len(s) \in Nat /\ Len(s) # 0 OBVIOUS
  <2>2. PICK m : m = Len(s) - 1 OBVIOUS
  <2>3. m \in Nat /\ m + 1 = Len(s) BY <2>1, <2>2
  <2> QED BY <2>3
<1>2. PICK t : t = SubSeq(s, 1, n) OBVIOUS
<1>3. t \in Seq(T) /\ Len(t) = n /\ \A i \in 1..n : t[i] = s[i] BY <1>1, <1>2
<1>4. Front(s) = t /\ Last(s) = s[n + 1] /\ s[n + 1] \in T BY <1>1, <1>2 DEF Front, Last
<1>5. s = Append(t, s[n + 1])
  <2>1. PICK u : u = Append(t, s[n + 1]) OBVIOUS
  <2>2. u \in Seq(T) /\ Len(u) = n + 1 /\ \A i \in 1..(n + 1) : u[i] = s[i] BY <1>3, <1>4, <2>1
  <2>3. u = s BY <1>1, <2>2, SeqEqual
  <2> QED BY <2>1, <2>3
<1> QED BY <1>1, <1>3, <1>4, <1>5

(* A set of sequences that has the empty one and with each all that are one longer has all. *)
LEMMA SnocInduction ==
  ASSUME NEW T, NEW S, <<>> \in S, \A s \in S \cap Seq(T), c \in T : Append(s, c) \in S
  PROVE  Seq(T) \subseteq S
<1> DEFINE Bad == {Len(s) : s \in Seq(T) \ S}
<1>1. SUFFICES ASSUME Bad # {} PROVE FALSE OBVIOUS
<1>2. Bad \in SUBSET Nat OBVIOUS
<1>3. PICK n \in Bad : \A k \in Bad : n <= k
  <2> HIDE DEF Bad
  <2> QED BY <1>1, <1>2, LeastNumber
<1>4. PICK s \in Seq(T) \ S : Len(s) = n BY <1>3
<1>5. s # <<>> BY <1>4
<1>6. /\ Front(s) \in Seq(T) /\ Last(s) \in T /\ s = Append(Front(s), Last(s))
      /\ Len(Front(s)) = n - 1
  BY <1>4, <1>5, Shortened
<1>7. n \in Nat /\ n - 1 \notin Bad
  <2>1. n \in Nat /\ ~(n <= n - 1) BY <1>2, <1>3
  <2> HIDE DEF Bad
  <2> QED BY <1>3, <2>1
<1>8. Front(s) \in S BY <1>6, <1>7
<1> QED BY <1>4, <1>6, <1>8

LEMMA ConcatSnoc ==
  ASSUME NEW T, NEW s \in Seq(T), NEW t \in Seq(T), NEW c \in T
  PROVE  s \o Append(t, c) = Append(s \o t, c)
<1>1. PICK u, w : u = s \o Append(t, c) /\ w = Append(s \o t, c) OBVIOUS
<1>2. Append(t, c) \in Seq(T) /\ Len(Append(t, c)) = Len(t) + 1 /\ s \o t \in Seq(T)
      /\ Len(s \o t) = Len(s) + Len(t)
  OBVIOUS
<1>3. u \in Seq(T) /\ Len(u) = Len(s) + Len(t) + 1 /\ w \in Seq(T) /\ Len(w) = Len(s) + Len(t) + 1
  BY <1>1, <1>2
<1>4. ASSUME NEW i \in 1..(Len(s) + Len(t) + 1) PROVE u[i] = w[i]
  <2>1. CASE i <= Len(s) BY <1>1, <1>2, <2>1
  <2>2. CASE i > Len(s) /\ i <= Len(s) + Len(t)
    <3>1. i - Len(s) \in 1..Len(t) BY <2>2
    <3> QED BY <1>1, <1>2, <2>2, <3>1
  <2>3. CASE i = Len(s) + Len(t) + 1 BY <1>1, <1>2, <2>3
  <2> QED BY <2>1, <2>2, <2>3
<1> QED BY <1>1, <1>3, <1>4, SeqEqual

(* A scan goes on from where another stopped. *)
LEMMA ScanConcat ==
  ASSUME NEW step, NEW base, NEW T, NEW s \in Seq(T), NEW t \in Seq(T)
  PROVE  Scan(step, base, s \o t) = Scan(step, Scan(step, base, s), t)
<1>1. PICK mid : mid = Scan(step, base, s) OBVIOUS
<1> DEFINE S == {u \in Seq(T) : Scan(step, base, s \o u) = Scan(step, mid, u)}
<1>2. <<>> \in S
  <2>1. s \o <<>> = s /\ <<>> \in Seq(T) OBVIOUS
  <2>2. Scan(step, mid, <<>>) = mid BY ScanNothing
  <2> QED BY <1>1, <2>1, <2>2
<1>3. ASSUME NEW u \in S \cap Seq(T), NEW c \in T PROVE Append(u, c) \in S
  <2>0. u \in Seq(T) /\ Scan(step, base, s \o u) = Scan(step, mid, u) OBVIOUS
  <2> HIDE DEF S
  <2>1. s \o Append(u, c) = Append(s \o u, c) BY <2>0, ConcatSnoc
  <2>4. s \o u \in Seq(T) /\ Append(u, c) \in Seq(T) BY <2>0
  <2>5. PICK w \in Seq(T) : w = s \o u BY <2>4
  <2>6. Scan(step, base, Append(w, c)) = step[Scan(step, base, w)][c] BY ScanSnoc
  <2>2. Scan(step, base, Append(s \o u, c)) = step[Scan(step, base, s \o u)][c] BY ONLY <2>5, <2>6
  <2>3. Scan(step, mid, Append(u, c)) = step[Scan(step, mid, u)][c] BY <2>0, ScanSnoc
  <2> USE DEF S
  <2> QED BY <2>0, <2>1, <2>2, <2>3, <2>4
<1>4. Seq(T) \subseteq S
  <2> HIDE DEF S
  <2> QED BY <1>2, <1>3, SnocInduction
<1> QED BY <1>1, <1>4

-----------------------------------------------------------------------------
(* What readAguiStream has cut of a string: its blocks, and the rest. *)

USE DEF Strings

LEMMA BlocksSnoc ==
  ASSUME NEW b \in Seq(Strings), NEW d \in Seq(Strings), NEW x \in Strings
  PROVE  b \o Append(d, x) = Append(b \o d, x)
<1>1. PICK T : T = Strings OBVIOUS
<1>2. b \in Seq(T) /\ d \in Seq(T) /\ x \in T BY <1>1
<1> QED BY ONLY <1>2, ConcatSnoc

LEMMA StringSnoc ==
  ASSUME NEW s \in Strings, NEW t \in Strings, NEW c \in Tokens
  PROVE  s \o Append(t, c) = Append(s \o t, c)
<1>1. s \in Seq(Tokens) /\ t \in Seq(Tokens) /\ c \in Tokens OBVIOUS
<1> QED BY ONLY <1>1, ConcatSnoc

Join(s) == Scan(JoinLineEnd, <<>>, s)

CutOf(s) == Cut(Join(s))

LEMMA EndsGrown ==
  ASSUME NEW T, NEW s \in Seq(T), NEW c \in T, NEW x PROVE EndsIn(Append(s, c), x) <=> c = x
BY Grown DEF EndsIn

LEMMA EndsShortened ==
  ASSUME NEW T, NEW s \in Seq(T), NEW x, EndsIn(s, x)
  PROVE  Front(s) \in Seq(T) /\ s = Append(Front(s), x)
BY Shortened DEF EndsIn

LEMMA SettledIsString ==
  ASSUME NEW t \in Strings PROVE Settled(t) \in Strings /\ ~EndsIn(Settled(t), "CR")
<1>1. "LF" \in Tokens BY DEF Tokens
<1>2. CASE EndsIn(t, "CR")
  <2>1. PICK u \in Strings : u = Front(t) BY <1>2, EndsShortened
  <2>2. Settled(t) = Append(u, "LF") BY <1>2, <2>1 DEF Settled
  <2>3. Append(u, "LF") \in Strings /\ ~EndsIn(Append(u, "LF"), "CR") BY <1>1, Grown, EndsGrown
  <2> QED BY <2>2, <2>3
<1>3. CASE ~EndsIn(t, "CR") BY <1>3 DEF Settled
<1> QED BY <1>2, <1>3

LEMMA JoinLineEndAt ==
  ASSUME NEW t \in Strings, NEW c \in Tokens
  PROVE  /\ JoinLineEnd[t][c] = IF EndsIn(t, "CR") /\ c = "LF" THEN Settled(t) ELSE Append(Settled(t), c)
         /\ JoinLineEnd[t][c] \in Strings
<1>1. JoinLineEnd[t][c] = IF EndsIn(t, "CR") /\ c = "LF" THEN Settled(t) ELSE Append(Settled(t), c)
  BY DEF JoinLineEnd
<1>2. Settled(t) \in Strings BY SettledIsString
<1>3. Append(Settled(t), c) \in Strings BY <1>2, Grown
<1> QED BY <1>1, <1>2, <1>3

LEMMA JoinSteps == Steps(JoinLineEnd, Strings, Tokens)
<1>1. ASSUME NEW t \in Strings, NEW c \in Tokens PROVE JoinLineEnd[t][c] \in Strings
  BY JoinLineEndAt
<1>2. PICK step : step = JoinLineEnd OBVIOUS
<1>3. /\ step = [t \in Strings |-> step[t]]
      /\ \A t \in Strings : step[t] = [c \in Tokens |-> step[t][c]]
  BY <1>2 DEF JoinLineEnd
<1>4. \A t \in Strings, c \in Tokens : step[t][c] \in Strings BY <1>1, <1>2
<1>5. step \in [Strings -> [Tokens -> Strings]] BY ONLY <1>3, <1>4
<1> QED BY <1>2, <1>5 DEF Steps

LEMMA JoinSnoc ==
  ASSUME NEW s \in Strings, NEW c \in Tokens
  PROVE  /\ Join(s) \in Strings
         /\ Join(Append(s, c)) = IF EndsIn(Join(s), "CR") /\ c = "LF" THEN Settled(Join(s))
                                 ELSE Append(Settled(Join(s)), c)
<1>1. <<>> \in Strings OBVIOUS
<1>2. Join(s) \in Strings BY <1>1, JoinSteps, ScanTyped DEF Join
<1>3. Join(Append(s, c)) = JoinLineEnd[Join(s)][c] BY ScanSnoc DEF Join
<1> QED BY <1>2, <1>3, JoinLineEndAt

LEMMA JoinNothing == Join(<<>>) = <<>>
BY ScanNothing DEF Join

LEMMA JoinEnds ==
  ASSUME NEW s \in Strings PROVE Join(s) \in Strings /\ (EndsIn(Join(s), "CR") <=> EndsIn(s, "CR"))
<1>1. CASE s = <<>> BY <1>1, JoinNothing DEF EndsIn
<1>2. CASE s # <<>>
  <2>1. PICK t \in Strings, c \in Tokens : s = Append(t, c) BY <1>2, Shortened
  <2>2. PICK j \in Strings : j = Settled(Join(t)) /\ ~EndsIn(j, "CR") BY JoinSnoc, SettledIsString
  <2>3. EndsIn(s, "CR") <=> c = "CR" BY <2>1, EndsGrown
  <2>4. Append(j, c) \in Strings /\ (EndsIn(Append(j, c), "CR") <=> c = "CR") BY Grown, EndsGrown
  <2>5. Join(s) = IF EndsIn(Join(t), "CR") /\ c = "LF" THEN j ELSE Append(j, c)
    BY <2>1, <2>2, JoinSnoc
  <2>6. CASE EndsIn(Join(t), "CR") /\ c = "LF" BY <2>2, <2>3, <2>5, <2>6
  <2>7. CASE ~(EndsIn(Join(t), "CR") /\ c = "LF")
    <3>1. Join(s) = Append(j, c) BY <2>5, <2>7
    <3> QED BY <2>3, <2>4, <3>1
  <2> QED BY <2>6, <2>7
<1> QED BY <1>1, <1>2

(* A chunk's line ends are those of a scan that has not come to the end. *)
LEMMA LineEndsJoin == ASSUME NEW s \in Strings PROVE LineEnds(s) = Join(s)
<1>1. CASE ~EndsIn(s, "CR")
  <2>1. ~EndsIn(Join(s), "CR") BY <1>1, JoinEnds
  <2> QED BY <1>1, <2>1 DEF LineEnds, LineEndsOf, Settled, Join
<1>2. CASE EndsIn(s, "CR")
  <2>1. PICK t \in Strings : t = Front(s) /\ s = Append(t, "CR") BY <1>2, EndsShortened
  <2>2. "CR" \in Tokens BY DEF Tokens
  <2>3. Join(s) = Append(Settled(Join(t)), "CR") BY <2>1, <2>2, JoinSnoc
  <2>4. LineEnds(s) = Append(Settled(Join(t)), "CR") BY <1>2, <2>1 DEF LineEnds, LineEndsOf, Join
  <2> QED BY <2>3, <2>4
<1> QED BY <1>1, <1>2

CutFirst == [blocks |-> <<>>, rest |-> <<>>]

LEMMA SameCut ==
  ASSUME NEW a \in Cuts, NEW b \in Cuts, a.blocks = b.blocks, a.rest = b.rest PROVE a = b
BY DEF Cuts

LEMMA CutAtIs ==
  ASSUME NEW a \in Cuts, NEW c \in Tokens
  PROVE  /\ CutAt[a][c] \in Cuts
         /\ c = "LF" /\ EndsIn(a.rest, "LF") =>
              CutAt[a][c].blocks = Append(a.blocks, Front(a.rest)) /\ CutAt[a][c].rest = <<>>
         /\ ~(c = "LF" /\ EndsIn(a.rest, "LF")) =>
              CutAt[a][c].blocks = a.blocks /\ CutAt[a][c].rest = Append(a.rest, c)
<1>1. CutAt[a][c] = IF c = "LF" /\ EndsIn(a.rest, "LF")
                    THEN [blocks |-> Append(a.blocks, Front(a.rest)), rest |-> <<>>]
                    ELSE [blocks |-> a.blocks, rest |-> Append(a.rest, c)]
  BY DEF CutAt, Cuts
<1>2. a.blocks \in Seq(Strings) /\ a.rest \in Strings /\ <<>> \in Strings BY DEF Cuts
<1>3. CASE c = "LF" /\ EndsIn(a.rest, "LF")
  <2>1. PICK u \in Strings : u = Front(a.rest) BY <1>2, <1>3, EndsShortened
  <2>2. Append(a.blocks, u) \in Seq(Strings) BY <1>2
  <2>3. CutAt[a][c] = [blocks |-> Append(a.blocks, u), rest |-> <<>>] BY <1>1, <1>3, <2>1
  <2>4. CutAt[a][c] \in Cuts BY <1>2, <2>2, <2>3 DEF Cuts
  <2> QED BY <1>3, <2>1, <2>3, <2>4
<1>4. CASE ~(c = "LF" /\ EndsIn(a.rest, "LF"))
  <2>1. Append(a.rest, c) \in Strings BY <1>2
  <2>2. CutAt[a][c] = [blocks |-> a.blocks, rest |-> Append(a.rest, c)] BY <1>1, <1>4
  <2>3. CutAt[a][c] \in Cuts BY <1>2, <2>1, <2>2 DEF Cuts
  <2> QED BY <1>4, <2>2, <2>3
<1> QED BY <1>3, <1>4

LEMMA CutSteps == Steps(CutAt, Cuts, Tokens)
<1>1. ASSUME NEW a \in Cuts, NEW c \in Tokens PROVE CutAt[a][c] \in Cuts BY CutAtIs
<1>2. PICK step : step = CutAt OBVIOUS
<1>3. /\ step = [a \in Cuts |-> step[a]]
      /\ \A a \in Cuts : step[a] = [c \in Tokens |-> step[a][c]]
  BY <1>2 DEF CutAt, Cuts
<1>4. \A a \in Cuts, c \in Tokens : step[a][c] \in Cuts BY <1>1, <1>2
<1>5. step \in [Cuts -> [Tokens -> Cuts]] BY ONLY <1>3, <1>4
<1> QED BY <1>2, <1>5 DEF Steps

LEMMA CutSnoc ==
  /\ Cut(<<>>) = CutFirst /\ CutFirst \in Cuts
  /\ \A s \in Strings : /\ Cut(s) \in Cuts
                        /\ \A c \in Tokens : Cut(Append(s, c)) = CutAt[Cut(s)][c]
<1>1. CutFirst \in Cuts
  <2>1. <<>> \in Strings /\ <<>> \in Seq(Strings) OBVIOUS
  <2> QED BY <2>1 DEF CutFirst, Cuts
<1>2. Cut(<<>>) = CutFirst BY ScanNothing DEF Cut, CutFirst
<1>3. ASSUME NEW s \in Strings PROVE Cut(s) \in Cuts
  BY <1>1, CutSteps, ScanTyped DEF Cut, CutFirst
<1>4. ASSUME NEW s \in Strings, NEW c \in Tokens PROVE Cut(Append(s, c)) = CutAt[Cut(s)][c]
  BY ScanSnoc DEF Cut
<1> QED BY <1>1, <1>2, <1>3, <1>4

(* Only an LF ends a block, so a CR at the end of a string is at the end of the rest. *)
LEMMA RestEnds ==
  ASSUME NEW s \in Strings PROVE EndsIn(Cut(s).rest, "CR") <=> EndsIn(s, "CR")
<1>1. CASE s = <<>> BY <1>1, CutSnoc DEF EndsIn, CutFirst
<1>2. CASE s # <<>>
  <2>1. PICK t \in Strings, c \in Tokens : s = Append(t, c) BY <1>2, Shortened
  <2>2. PICK a \in Cuts : a = Cut(t) BY CutSnoc
  <2>3. Cut(s) = CutAt[a][c] BY <2>1, <2>2, CutSnoc
  <2>4. EndsIn(s, "CR") <=> c = "CR" BY <2>1, EndsGrown
  <2>5. CASE c = "LF" /\ EndsIn(a.rest, "LF")
    <3>1. Cut(s).rest = <<>> BY <2>3, <2>5, CutAtIs
    <3> QED BY <2>4, <2>5, <3>1 DEF EndsIn
  <2>6. CASE ~(c = "LF" /\ EndsIn(a.rest, "LF"))
    <3>1. Cut(s).rest = Append(a.rest, c) BY <2>3, <2>6, CutAtIs
    <3>2. a.rest \in Strings BY DEF Cuts
    <3>3. EndsIn(Append(a.rest, c), "CR") <=> c = "CR" BY <3>2, EndsGrown
    <3> QED BY <2>4, <3>1, <3>3
  <2> QED BY <2>5, <2>6
<1> QED BY <1>1, <1>2

(* A cut whose last CR is taken for a line end; and the cut of one token more. *)
SettledCut(a) ==
  IF EndsIn(a.rest, "CR") THEN CutAt[[blocks |-> a.blocks, rest |-> Front(a.rest)]]["LF"] ELSE a

NextCut(a, c) ==
  IF EndsIn(a.rest, "CR") /\ c = "LF" THEN SettledCut(a) ELSE CutAt[SettledCut(a)][c]

LEMMA SettledCutIs ==
  ASSUME NEW a \in Cuts
  PROVE  /\ SettledCut(a) \in Cuts /\ ~EndsIn(SettledCut(a).rest, "CR")
         /\ \A c \in Tokens : NextCut(a, c) \in Cuts
<1>1. a.blocks \in Seq(Strings) /\ a.rest \in Strings BY DEF Cuts
<1>2. SettledCut(a) \in Cuts /\ ~EndsIn(SettledCut(a).rest, "CR")
  <2>1. CASE ~EndsIn(a.rest, "CR") BY <2>1 DEF SettledCut
  <2>2. CASE EndsIn(a.rest, "CR")
    <3>1. PICK u \in Strings : u = Front(a.rest) BY <1>1, <2>2, EndsShortened
    <3>2. PICK b \in Cuts : b = [blocks |-> a.blocks, rest |-> u] BY <1>1 DEF Cuts
    <3>3. SettledCut(a) = CutAt[b]["LF"] /\ b.rest = u BY <2>2, <3>1, <3>2 DEF SettledCut
    <3>4. "LF" \in Tokens BY DEF Tokens
    <3>5. CutAt[b]["LF"] \in Cuts BY <3>4, CutAtIs
    <3>6. CutAt[b]["LF"].rest = <<>> \/ CutAt[b]["LF"].rest = Append(u, "LF") BY <3>3, <3>4, CutAtIs
    <3>7. ~EndsIn(Append(u, "LF"), "CR") /\ ~EndsIn(<<>>, "CR")
      <4>1. ~EndsIn(Append(u, "LF"), "CR") BY <3>4, EndsGrown
      <4>2. ~EndsIn(<<>>, "CR") BY DEF EndsIn
      <4> QED BY <4>1, <4>2
    <3> QED BY <3>3, <3>5, <3>6, <3>7
  <2> QED BY <2>1, <2>2
<1>3. ASSUME NEW c \in Tokens PROVE NextCut(a, c) \in Cuts BY <1>2, CutAtIs DEF NextCut
<1> QED BY <1>2, <1>3

(* What is cut of a string is found token by token. *)
LEMMA CutOfSnoc ==
  /\ CutOf(<<>>) = CutFirst
  /\ \A s \in Strings : /\ CutOf(s) \in Cuts
                        /\ \A c \in Tokens : CutOf(Append(s, c)) = NextCut(CutOf(s), c)
<1>1. CutOf(<<>>) = CutFirst BY CutSnoc, JoinNothing DEF CutOf
<1>2. ASSUME NEW s \in Strings PROVE CutOf(s) \in Cuts BY JoinEnds, CutSnoc DEF CutOf
<1>3. ASSUME NEW s \in Strings, NEW c \in Tokens PROVE CutOf(Append(s, c)) = NextCut(CutOf(s), c)
  <2>1. PICK t \in Strings : t = Join(s) BY JoinEnds
  <2>2. PICK a \in Cuts : a = Cut(t) /\ a = CutOf(s) BY <2>1, CutSnoc DEF CutOf
  <2>3. EndsIn(a.rest, "CR") <=> EndsIn(t, "CR") BY <2>2, RestEnds
  <2>4. PICK w \in Strings : w = Settled(t) BY SettledIsString
  <2>5. Join(Append(s, c)) = IF EndsIn(t, "CR") /\ c = "LF" THEN w ELSE Append(w, c)
    BY <2>1, <2>4, JoinSnoc
  <2>6. SettledCut(a) = Cut(w)
    <3>1. CASE ~EndsIn(t, "CR") BY <2>2, <2>3, <2>4, <3>1 DEF SettledCut, Settled
    <3>2. CASE EndsIn(t, "CR")
      <4>1. PICK u \in Strings : u = Front(t) /\ t = Append(u, "CR") BY <3>2, EndsShortened
      <4>2. w = Append(u, "LF") BY <2>4, <3>2, <4>1 DEF Settled
      <4>3. "CR" \in Tokens /\ "LF" \in Tokens BY DEF Tokens
      <4>4. PICK b \in Cuts : b = Cut(u) BY CutSnoc
      <4>5. a = CutAt[b]["CR"] BY <2>2, <4>1, <4>3, <4>4, CutSnoc
      <4>6. a.blocks = b.blocks /\ a.rest = Append(b.rest, "CR") BY <4>3, <4>5, CutAtIs
      <4>7. b.rest \in Strings BY DEF Cuts
      <4>8. Front(a.rest) = b.rest BY <4>3, <4>6, <4>7, Grown
      <4>9. [blocks |-> a.blocks, rest |-> Front(a.rest)] = b BY <4>6, <4>8 DEF Cuts
      <4>10. SettledCut(a) = CutAt[b]["LF"] BY <2>3, <3>2, <4>9 DEF SettledCut
      <4> QED BY <4>2, <4>3, <4>4, <4>10, CutSnoc
    <3> QED BY <3>1, <3>2
  <2>7. CASE EndsIn(t, "CR") /\ c = "LF"
    BY <2>2, <2>3, <2>5, <2>6, <2>7 DEF NextCut, CutOf
  <2>8. CASE ~(EndsIn(t, "CR") /\ c = "LF")
    <3>1. CutOf(Append(s, c)) = Cut(Append(w, c)) BY <2>5, <2>8 DEF CutOf
    <3>2. NextCut(a, c) = CutAt[Cut(w)][c] BY <2>3, <2>6, <2>8 DEF NextCut
    <3> QED BY <2>2, <3>1, <3>2, CutSnoc
  <2> QED BY <2>7, <2>8
<1> QED BY <1>1, <1>2, <1>3

(* A string nothing is cut of: what is left in the buffer is one. *)
Uncut(r) == r \in Strings /\ CutOf(r) = [blocks |-> <<>>, rest |-> r]

LEMMA UncutGrows ==
  ASSUME NEW u \in Strings, Uncut(u), ~EndsIn(u, "CR"), NEW c \in Tokens, ~(c = "LF" /\ EndsIn(u, "LF"))
  PROVE  Uncut(Append(u, c))
<1>1. PICK a \in Cuts : a = CutOf(u) /\ a.blocks = <<>> /\ a.rest = u BY CutOfSnoc DEF Uncut
<1>2. CutOf(Append(u, c)) = NextCut(a, c) BY <1>1, CutOfSnoc
<1>3. NextCut(a, c) = CutAt[a][c] BY <1>1 DEF NextCut, SettledCut
<1>4. ~(c = "LF" /\ EndsIn(a.rest, "LF")) BY <1>1
<1>5. CutAt[a][c] \in Cuts BY CutAtIs
<1>6. CutAt[a][c].blocks = a.blocks /\ CutAt[a][c].rest = Append(a.rest, c) BY <1>4, CutAtIs
<1>7. CutAt[a][c] \in Cuts /\ CutAt[a][c].blocks = <<>> /\ CutAt[a][c].rest = Append(u, c)
  BY <1>1, <1>5, <1>6
<1>8. PICK w \in Strings : w = Append(u, c) BY Grown
<1>9. PICK b \in Cuts : b = CutAt[a][c] /\ b.blocks = <<>> /\ b.rest = w BY <1>7, <1>8
<1>10. b = [blocks |-> <<>>, rest |-> w] BY ONLY <1>9 DEF Cuts
<1> QED BY <1>2, <1>3, <1>8, <1>9, <1>10 DEF Uncut

LEMMA NothingUncut == Uncut(<<>>)
<1>1. <<>> \in Strings OBVIOUS
<1> QED BY <1>1, CutOfSnoc DEF Uncut, CutFirst

LEMMA RestIsUncut ==
  ASSUME NEW s \in Strings
  PROVE  /\ Uncut(CutOf(s).rest)
         /\ EndsIn(CutOf(s).rest, "CR") =>
              Uncut(Front(CutOf(s).rest)) /\ ~EndsIn(Front(CutOf(s).rest), "CR")
<1> DEFINE Good(r) == Uncut(r) /\ (EndsIn(r, "CR") => Uncut(Front(r)) /\ ~EndsIn(Front(r), "CR"))
           S == {t \in Strings : Good(CutOf(t).rest)}
<1>0. Good(<<>>) BY NothingUncut DEF EndsIn
<1>1. <<>> \in S
  <2>1. CutOf(<<>>).rest = <<>> BY CutOfSnoc DEF CutFirst
  <2>2. <<>> \in Strings OBVIOUS
  <2> HIDE DEF Good
  <2> QED BY <1>0, <2>1, <2>2
<1>2. ASSUME NEW t \in S \cap Seq(Tokens), NEW c \in Tokens PROVE Append(t, c) \in S
  <2>0. t \in Strings /\ Good(CutOf(t).rest) OBVIOUS
  <2> HIDE DEF S
  <2>1. PICK a \in Cuts : a = CutOf(t) BY <2>0, CutOfSnoc
  <2>2. PICK r \in Strings : r = a.rest BY DEF Cuts
  <2>3. Good(r) BY <2>0, <2>1, <2>2
  <2>4. PICK b \in Cuts : b = SettledCut(a) /\ ~EndsIn(b.rest, "CR") BY SettledCutIs
  <2>5. "LF" \in Tokens BY DEF Tokens
  <2>6. PICK v \in Strings : v = b.rest BY DEF Cuts
  <2>7. Uncut(v) /\ ~EndsIn(v, "CR")
    <3>1. CASE ~EndsIn(r, "CR")
      <4>1. b = a BY <2>2, <2>4, <3>1 DEF SettledCut
      <4> QED BY <2>2, <2>3, <2>6, <3>1, <4>1
    <3>2. CASE EndsIn(r, "CR")
      <4>1. PICK u \in Strings : u = Front(r) BY <3>2, EndsShortened
      <4>2. Uncut(u) /\ ~EndsIn(u, "CR") BY <2>3, <3>2, <4>1
      <4>3. PICK d \in Cuts : d = [blocks |-> a.blocks, rest |-> u] BY DEF Cuts
      <4>4. b = CutAt[d]["LF"] /\ d.rest = u BY <2>2, <2>4, <3>2, <4>1, <4>3 DEF SettledCut
      <4>5. CASE EndsIn(u, "LF")
        <5>1. v = <<>> BY <2>5, <2>6, <4>4, <4>5, CutAtIs
        <5> QED BY <5>1, NothingUncut DEF EndsIn
      <4>6. CASE ~EndsIn(u, "LF")
        <5>1. v = Append(u, "LF") BY <2>5, <2>6, <4>4, <4>6, CutAtIs
        <5> QED BY <2>4, <2>5, <2>6, <4>2, <4>6, <5>1, UncutGrows
      <4> QED BY <4>5, <4>6
    <3> QED BY <3>1, <3>2
  <2>8. CutOf(Append(t, c)) = NextCut(a, c) BY <2>0, <2>1, CutOfSnoc
  <2>9. Good(NextCut(a, c).rest)
    <3>1. CASE EndsIn(r, "CR") /\ c = "LF"
      <4>1. NextCut(a, c).rest = v BY <2>2, <2>4, <2>6, <3>1 DEF NextCut
      <4> QED BY <2>7, <4>1
    <3>2. CASE ~(EndsIn(r, "CR") /\ c = "LF")
      <4>1. NextCut(a, c) = CutAt[b][c] BY <2>2, <2>4, <3>2 DEF NextCut
      <4>2. CASE c = "LF" /\ EndsIn(v, "LF")
        <5>1. CutAt[b][c].rest = <<>> BY <2>6, <4>2, CutAtIs
        <5> HIDE DEF Good
        <5> QED BY <1>0, <4>1, <5>1
      <4>3. CASE ~(c = "LF" /\ EndsIn(v, "LF"))
        <5>1. CutAt[b][c].rest = Append(v, c) BY <2>6, <4>3, CutAtIs
        <5>2. Uncut(Append(v, c)) BY <2>7, <4>3, UncutGrows
        <5>3. Front(Append(v, c)) = v BY Grown
        <5> QED BY <2>7, <4>1, <5>1, <5>2, <5>3
      <4> QED BY <4>2, <4>3
    <3> QED BY <3>1, <3>2
  <2>10. Append(t, c) \in Strings BY <2>0
  <2> HIDE DEF Good
  <2> QED BY <2>8, <2>9, <2>10 DEF S
<1>3. Seq(Tokens) \subseteq S
  <2> HIDE DEF S
  <2> QED BY <1>1, <1>2, SnocInduction
<1> QED BY <1>3

(* What is cut after more has arrived: first what was cut before, then what is cut of the
   rest and the arrivals. *)
Onto(blocks, a) == [blocks |-> blocks \o a.blocks, rest |-> a.rest]

LEMMA OntoCutAt ==
  ASSUME NEW B \in Seq(Strings), NEW a \in Cuts, NEW c \in Tokens
  PROVE  Onto(B, a) \in Cuts /\ CutAt[Onto(B, a)][c] = Onto(B, CutAt[a][c])
<1>1. a.blocks \in Seq(Strings) /\ a.rest \in Strings BY DEF Cuts
<1>2. PICK d \in Cuts : d = Onto(B, a) /\ d.blocks = B \o a.blocks /\ d.rest = a.rest
  <2>1. PICK X \in Seq(Strings) : X = B \o a.blocks
    <3>1. PICK b \in Seq(Strings) : b = a.blocks BY <1>1
    <3>2. B \o b \in Seq(Strings) BY ONLY <3>1, B \in Seq(Strings), ConcatProperties
    <3> QED BY <3>1, <3>2
  <2>2. PICK r \in Strings : r = a.rest BY <1>1
  <2>3. PICK d \in Cuts : d = [blocks |-> X, rest |-> r] BY DEF Cuts
  <2>4. d = Onto(B, a) BY <2>1, <2>2, <2>3 DEF Onto
  <2>5. d.blocks = X /\ d.rest = r BY <2>3
  <2> QED BY <2>1, <2>2, <2>4, <2>5
<1>3. PICK b \in Cuts : b = CutAt[a][c] BY CutAtIs
<1>4. PICK e \in Cuts : e = CutAt[d][c] BY CutAtIs
<1>5. CASE c = "LF" /\ EndsIn(a.rest, "LF")
  <2>1. PICK u \in Strings : u = Front(a.rest) BY <1>1, <1>5, EndsShortened
  <2>2. b.blocks = Append(a.blocks, u) /\ b.rest = <<>> BY <1>3, <1>5, <2>1, CutAtIs
  <2>3. e.blocks = Append(B \o a.blocks, u) /\ e.rest = <<>>
    <3>1. EndsIn(d.rest, "LF") /\ Front(d.rest) = u BY <1>2, <1>5, <2>1
    <3>2. e.blocks = Append(d.blocks, Front(d.rest)) /\ e.rest = <<>> BY <1>4, <1>5, <3>1, CutAtIs
    <3> QED BY <1>2, <3>1, <3>2
  <2>4. B \o Append(a.blocks, u) = Append(B \o a.blocks, u) BY <1>1, BlocksSnoc
  <2>5. e.blocks = B \o b.blocks /\ e.rest = b.rest BY <2>2, <2>3, <2>4
  <2>6. e = [blocks |-> B \o b.blocks, rest |-> b.rest] BY <2>5 DEF Cuts
  <2> QED BY <1>2, <1>3, <1>4, <2>6 DEF Onto
<1>6. CASE ~(c = "LF" /\ EndsIn(a.rest, "LF"))
  <2>1. b.blocks = a.blocks /\ b.rest = Append(a.rest, c) BY <1>3, <1>6, CutAtIs
  <2>2. e.blocks = B \o a.blocks /\ e.rest = Append(a.rest, c)
    <3>1. ~(c = "LF" /\ EndsIn(d.rest, "LF")) BY <1>2, <1>6
    <3>2. e.blocks = d.blocks /\ e.rest = Append(d.rest, c) BY <1>4, <3>1, CutAtIs
    <3> QED BY <1>2, <3>2
  <2>3. e.blocks = B \o b.blocks /\ e.rest = b.rest BY <2>1, <2>2
  <2>4. e = [blocks |-> B \o b.blocks, rest |-> b.rest] BY <2>3 DEF Cuts
  <2> QED BY <1>2, <1>3, <1>4, <2>4 DEF Onto
<1> QED BY <1>2, <1>5, <1>6

LEMMA OntoNextCut ==
  ASSUME NEW B \in Seq(Strings), NEW a \in Cuts, NEW c \in Tokens
  PROVE  NextCut(Onto(B, a), c) = Onto(B, NextCut(a, c))
<1>1. a.blocks \in Seq(Strings) /\ a.rest \in Strings BY DEF Cuts
<1>2. Onto(B, a).rest = a.rest /\ Onto(B, a).blocks = B \o a.blocks BY DEF Onto
<1>3. "LF" \in Tokens BY DEF Tokens
<1>4. PICK b \in Cuts : b = SettledCut(a) BY SettledCutIs
<1>5. SettledCut(Onto(B, a)) = Onto(B, b)
  <2>1. CASE ~EndsIn(a.rest, "CR") BY <1>2, <1>4, <2>1 DEF SettledCut
  <2>2. CASE EndsIn(a.rest, "CR")
    <3>1. PICK u \in Strings : u = Front(a.rest) BY <1>1, <2>2, EndsShortened
    <3>2. PICK d \in Cuts : d = [blocks |-> a.blocks, rest |-> u] BY <1>1 DEF Cuts
    <3>3. b = CutAt[d]["LF"] BY <1>4, <2>2, <3>1, <3>2 DEF SettledCut
    <3>4. [blocks |-> Onto(B, a).blocks, rest |-> Front(Onto(B, a).rest)] = Onto(B, d)
      BY <1>2, <3>1, <3>2 DEF Onto
    <3>5. SettledCut(Onto(B, a)) = CutAt[Onto(B, d)]["LF"] BY <1>2, <2>2, <3>4 DEF SettledCut
    <3> QED BY <1>3, <3>3, <3>5, OntoCutAt
  <2> QED BY <2>1, <2>2
<1>6. CASE EndsIn(a.rest, "CR") /\ c = "LF" BY <1>2, <1>4, <1>5, <1>6 DEF NextCut
<1>7. CASE ~(EndsIn(a.rest, "CR") /\ c = "LF")
  <2>1. NextCut(Onto(B, a), c) = CutAt[Onto(B, b)][c] BY <1>2, <1>5, <1>7 DEF NextCut
  <2>2. NextCut(a, c) = CutAt[b][c] BY <1>4, <1>7 DEF NextCut
  <2> QED BY <2>1, <2>2, OntoCutAt
<1> QED BY <1>6, <1>7

LEMMA CutResumes ==
  ASSUME NEW s \in Strings, NEW w \in Strings
  PROVE  CutOf(s \o w) = Onto(CutOf(s).blocks, CutOf(CutOf(s).rest \o w))
<1>1. PICK a \in Cuts : a = CutOf(s) BY CutOfSnoc
<1>2. PICK B \in Seq(Strings), r \in Strings : B = a.blocks /\ r = a.rest BY DEF Cuts
<1>3. Uncut(r) BY <1>1, <1>2, RestIsUncut
<1> DEFINE S == {t \in Strings : CutOf(s \o t) = Onto(B, CutOf(r \o t))}
<1>4. <<>> \in S
  <2>1. s \o <<>> = s /\ r \o <<>> = r /\ <<>> \in Strings OBVIOUS
  <2>2. B \o <<>> = B OBVIOUS
  <2>3. Onto(B, CutOf(r)) = [blocks |-> B, rest |-> r] BY <1>3, <2>2 DEF Onto, Uncut
  <2>4. a = [blocks |-> B, rest |-> r] BY <1>2 DEF Cuts
  <2> QED BY <1>1, <2>1, <2>3, <2>4
<1>5. ASSUME NEW t \in S \cap Seq(Tokens), NEW c \in Tokens PROVE Append(t, c) \in S
  <2>1. t \in Strings /\ CutOf(s \o t) = Onto(B, CutOf(r \o t)) OBVIOUS
  <2> HIDE DEF S
  <2>2. s \o Append(t, c) = Append(s \o t, c) /\ r \o Append(t, c) = Append(r \o t, c)
    BY <2>1, StringSnoc
  <2>0. s \o t \in Strings /\ r \o t \in Strings BY <2>1
  <2>9. PICK x \in Strings : x = s \o t BY <2>0
  <2>10. PICK y \in Strings : y = r \o t BY <2>0
  <2>4. CutOf(Append(x, c)) = NextCut(CutOf(x), c) /\ CutOf(Append(y, c)) = NextCut(CutOf(y), c)
    BY CutOfSnoc
  <2>5. CutOf(y) \in Cuts BY CutOfSnoc
  <2>6. NextCut(Onto(B, CutOf(y)), c) = Onto(B, NextCut(CutOf(y), c)) BY <2>5, OntoNextCut
  <2>7. CutOf(s \o Append(t, c)) = Onto(B, CutOf(r \o Append(t, c)))
    BY ONLY <2>1, <2>2, <2>9, <2>10, <2>4, <2>6
  <2>8. Append(t, c) \in Strings BY <2>1
  <2> QED BY <2>7, <2>8 DEF S
<1>6. Seq(Tokens) \subseteq S
  <2> HIDE DEF S
  <2> QED BY <1>4, <1>5, SnocInduction
<1>7. CutOf(s \o w) = Onto(B, CutOf(r \o w)) BY <1>6
<1> QED BY <1>1, <1>2, <1>7

-----------------------------------------------------------------------------
(* The format read one token at a time goes along with what is cut. *)

Lines(block) == Scan(BreakAt, << <<>> >>, block)
Some == Seq(Strings) \ {<<>>}
DataIn(lines) == Scan(KeepData, <<>>, lines)
Passed(blocks) == Scan(PassOn, <<>>, blocks)

LEMMA LinesSnoc ==
  /\ Lines(<<>>) = << <<>> >>
  /\ \A s \in Strings : /\ Lines(s) \in Some
                        /\ \A c \in Tokens :
                             Lines(Append(s, c)) = IF c = "LF" THEN Append(Lines(s), <<>>)
                               ELSE Append(Front(Lines(s)), Append(Last(Lines(s)), c))
<1>1. Lines(<<>>) = << <<>> >> BY ScanNothing DEF Lines
<1>2. ASSUME NEW ls \in Some, NEW c \in Tokens
      PROVE  /\ BreakAt[ls][c] = IF c = "LF" THEN Append(ls, <<>>)
                                 ELSE Append(Front(ls), Append(Last(ls), c))
             /\ BreakAt[ls][c] \in Some
  <2>1. BreakAt[ls][c] = IF c = "LF" THEN Append(ls, <<>>)
                         ELSE Append(Front(ls), Append(Last(ls), c))
    BY DEF BreakAt, Some
  <2>2. Front(ls) \in Seq(Strings) /\ Last(ls) \in Strings BY Shortened DEF Some
  <2>3. PICK f \in Seq(Strings) : f = Front(ls) BY <2>2
  <2>4. PICK l \in Strings : l = Append(Last(ls), c) BY <2>2, Grown
  <2>5. <<>> \in Strings /\ ls \in Seq(Strings) BY DEF Some
  <2>6. Append(ls, <<>>) \in Some
    <3>1. PICK x \in Strings : x = <<>> BY <2>5
    <3>2. Append(ls, x) \in Seq(Strings) /\ Append(ls, x) # <<>> BY <2>5, Grown
    <3> QED BY <3>1, <3>2 DEF Some
  <2>7. Append(f, l) \in Some BY Grown DEF Some
  <2> QED BY <2>1, <2>3, <2>4, <2>6, <2>7
<1>3. Steps(BreakAt, Some, Tokens)
  <2>1. PICK step : step = BreakAt OBVIOUS
  <2>2. /\ step = [ls \in Some |-> step[ls]]
        /\ \A ls \in Some : step[ls] = [c \in Tokens |-> step[ls][c]]
    BY <2>1 DEF BreakAt, Some
  <2>3. \A ls \in Some, c \in Tokens : step[ls][c] \in Some BY <1>2, <2>1
  <2>4. step \in [Some -> [Tokens -> Some]] BY ONLY <2>2, <2>3
  <2> QED BY <2>1, <2>4 DEF Steps
<1>4. << <<>> >> \in Some
  <2>1. <<>> \in Strings OBVIOUS
  <2> QED BY <2>1 DEF Some
<1>5. ASSUME NEW s \in Strings PROVE Lines(s) \in Some BY <1>3, <1>4, ScanTyped DEF Lines
<1>6. ASSUME NEW s \in Strings, NEW c \in Tokens PROVE Lines(Append(s, c)) = BreakAt[Lines(s)][c]
  BY ScanSnoc DEF Lines
<1> QED BY <1>1, <1>2, <1>5, <1>6

LEMMA DataSnoc ==
  /\ DataIn(<<>>) = <<>>
  /\ \A ls \in Seq(Strings) : /\ DataIn(ls) \in Seq(Data)
                              /\ \A l \in Strings :
                                   DataIn(Append(ls, l)) = IF l \in Data THEN Append(DataIn(ls), l)
                                                           ELSE DataIn(ls)
<1>1. DataIn(<<>>) = <<>> BY ScanNothing DEF DataIn
<1>2. ASSUME NEW k \in Seq(Data), NEW l \in Strings
      PROVE  KeepData[k][l] = (IF l \in Data THEN Append(k, l) ELSE k) /\ KeepData[k][l] \in Seq(Data)
  <2>1. KeepData[k][l] = IF l \in Data THEN Append(k, l) ELSE k BY DEF KeepData
  <2>2. l \in Data => Append(k, l) \in Seq(Data) BY Grown
  <2> QED BY <2>1, <2>2
<1>3. Steps(KeepData, Seq(Data), Strings)
  <2>1. PICK step : step = KeepData OBVIOUS
  <2>2. /\ step = [k \in Seq(Data) |-> step[k]]
        /\ \A k \in Seq(Data) : step[k] = [l \in Strings |-> step[k][l]]
    BY <2>1 DEF KeepData
  <2>3. \A k \in Seq(Data), l \in Strings : step[k][l] \in Seq(Data) BY <1>2, <2>1
  <2>4. step \in [Seq(Data) -> [Strings -> Seq(Data)]] BY ONLY <2>2, <2>3
  <2> QED BY <2>1, <2>4 DEF Steps
<1>4. <<>> \in Seq(Data) OBVIOUS
<1>5. ASSUME NEW ls \in Seq(Strings) PROVE DataIn(ls) \in Seq(Data) BY <1>3, <1>4, ScanTyped DEF DataIn
<1>6. ASSUME NEW ls \in Seq(Strings), NEW l \in Strings
      PROVE  DataIn(Append(ls, l)) = KeepData[DataIn(ls)][l]
  BY ScanSnoc DEF DataIn
<1> QED BY <1>1, <1>2, <1>5, <1>6

LEMMA DecodeIs == ASSUME NEW b \in Strings PROVE Decode(b) = DataIn(Lines(b)) /\ Decode(b) \in Seq(Data)
<1>1. Decode(b) = DataIn(Lines(b)) BY DEF Decode, DataIn, Lines
<1>2. Lines(b) \in Seq(Strings) BY LinesSnoc DEF Some
<1> QED BY <1>1, <1>2, DataSnoc

LEMMA PassOnIs ==
  ASSUME NEW e \in Seq(Seq(Data)), NEW b \in Strings
  PROVE  /\ PassOn[e][b] = IF Decode(b) = <<>> THEN e ELSE Append(e, Decode(b))
         /\ PassOn[e][b] \in Seq(Seq(Data))
<1>1. PassOn[e][b] = IF Decode(b) = <<>> THEN e ELSE Append(e, Decode(b)) BY DEF PassOn
<1>2. PICK d \in Seq(Data) : d = Decode(b) BY DecodeIs
<1>3. Append(e, d) \in Seq(Seq(Data)) BY Grown
<1> QED BY <1>1, <1>2, <1>3

LEMMA PassedSnoc ==
  /\ Passed(<<>>) = <<>>
  /\ Steps(PassOn, Seq(Seq(Data)), Strings)
  /\ \A bs \in Seq(Strings) : /\ Passed(bs) \in Seq(Seq(Data))
                              /\ \A b \in Strings : Passed(Append(bs, b)) = PassOn[Passed(bs)][b]
<1>1. Passed(<<>>) = <<>> BY ScanNothing DEF Passed
<1>2. Steps(PassOn, Seq(Seq(Data)), Strings)
  <2>1. PICK step : step = PassOn OBVIOUS
  <2>2. /\ step = [e \in Seq(Seq(Data)) |-> step[e]]
        /\ \A e \in Seq(Seq(Data)) : step[e] = [b \in Strings |-> step[e][b]]
    BY <2>1 DEF PassOn
  <2>3. \A e \in Seq(Seq(Data)), b \in Strings : step[e][b] \in Seq(Seq(Data)) BY <2>1, PassOnIs
  <2>4. step \in [Seq(Seq(Data)) -> [Strings -> Seq(Seq(Data))]] BY ONLY <2>2, <2>3
  <2> QED BY <2>1, <2>4 DEF Steps
<1>3. <<>> \in Seq(Seq(Data)) OBVIOUS
<1>4. ASSUME NEW bs \in Seq(Strings) PROVE Passed(bs) \in Seq(Seq(Data))
  BY <1>2, <1>3, ScanTyped DEF Passed
<1>5. ASSUME NEW bs \in Seq(Strings), NEW b \in Strings
      PROVE  Passed(Append(bs, b)) = PassOn[Passed(bs)][b]
  BY ScanSnoc DEF Passed
<1> QED BY <1>1, <1>2, <1>4, <1>5

(* What the last line of a block holds, and the data of the lines before it. *)
Open(s) == Last(Lines(s))
Held(s) == DataIn(Front(Lines(s)))

LEMMA OpenHeld ==
  /\ Open(<<>>) = <<>> /\ Held(<<>>) = <<>> /\ <<>> \in Strings /\ <<>> \notin Data
  /\ \A s \in Strings :
       /\ Open(s) \in Strings /\ Held(s) \in Seq(Data)
       /\ Decode(s) = IF Open(s) \in Data THEN Append(Held(s), Open(s)) ELSE Held(s)
       /\ Open(Append(s, "LF")) = <<>> /\ Held(Append(s, "LF")) = Decode(s)
       /\ \A c \in Tokens \ {"LF"} :
            Open(Append(s, c)) = Append(Open(s), c) /\ Held(Append(s, c)) = Held(s)
<1>1. <<>> \in Strings /\ <<>> \notin Data BY DEF Data
<1>2. Open(<<>>) = <<>> /\ Held(<<>>) = <<>>
  <2>1. PICK x \in Strings : x = <<>> BY <1>1
  <2>6. <<>> \in Seq(Strings) OBVIOUS
  <2>2. PICK z \in Seq(Strings) : z = <<>> BY ONLY <2>6
  <2>3. Lines(x) = Append(z, x) BY <2>1, <2>2, LinesSnoc
  <2>4. Front(Append(z, x)) = z /\ Last(Append(z, x)) = x BY Grown
  <2>5. DataIn(z) = <<>> BY <2>2, DataSnoc
  <2> QED BY <2>1, <2>2, <2>3, <2>4, <2>5 DEF Open, Held
<1>3. ASSUME NEW s \in Strings
      PROVE  /\ Open(s) \in Strings /\ Held(s) \in Seq(Data)
             /\ Decode(s) = IF Open(s) \in Data THEN Append(Held(s), Open(s)) ELSE Held(s)
             /\ Open(Append(s, "LF")) = <<>> /\ Held(Append(s, "LF")) = Decode(s)
             /\ \A c \in Tokens \ {"LF"} :
                  Open(Append(s, c)) = Append(Open(s), c) /\ Held(Append(s, c)) = Held(s)
  <2>1. PICK ls \in Seq(Strings) : ls = Lines(s) /\ ls # <<>> BY LinesSnoc DEF Some
  <2>2. PICK f \in Seq(Strings), l \in Strings : f = Front(ls) /\ l = Last(ls) /\ ls = Append(f, l)
    BY <2>1, Shortened
  <2>3. Open(s) = l /\ Held(s) = DataIn(f) BY <2>1, <2>2 DEF Open, Held
  <2>4. DataIn(f) \in Seq(Data) BY DataSnoc
  <2>5. DataIn(ls) = IF l \in Data THEN Append(DataIn(f), l) ELSE DataIn(f)
    <3>1. DataIn(Append(f, l)) = IF l \in Data THEN Append(DataIn(f), l) ELSE DataIn(f) BY DataSnoc
    <3> QED BY <2>2, <3>1
  <2>6. Decode(s) = DataIn(ls) BY <2>1, DecodeIs
  <2>7. Open(Append(s, "LF")) = <<>> /\ Held(Append(s, "LF")) = Decode(s)
    <3>1. "LF" \in Tokens BY DEF Tokens
    <3>2. PICK x \in Strings : x = <<>> BY <1>1
    <3>3. Lines(Append(s, "LF")) = Append(ls, x) BY <2>1, <3>1, <3>2, LinesSnoc
    <3>4. Front(Append(ls, x)) = ls /\ Last(Append(ls, x)) = x BY Grown
    <3> QED BY <2>6, <3>2, <3>3, <3>4 DEF Open, Held
  <2>8. ASSUME NEW c \in Tokens \ {"LF"}
        PROVE  Open(Append(s, c)) = Append(Open(s), c) /\ Held(Append(s, c)) = Held(s)
    <3>1. PICK x \in Strings : x = Append(l, c) BY Grown
    <3>2. Lines(Append(s, c)) = Append(Front(ls), Append(Last(ls), c)) BY <2>1, LinesSnoc
    <3>3. Lines(Append(s, c)) = Append(f, x) BY <2>2, <3>1, <3>2
    <3>4. Front(Append(f, x)) = f /\ Last(Append(f, x)) = x BY Grown
    <3> QED BY <2>3, <3>1, <3>3, <3>4 DEF Open, Held
  <2> QED BY <2>3, <2>4, <2>5, <2>6, <2>7, <2>8
<1> QED BY <1>1, <1>2, <1>3

(* A line is empty just where the string is, or after an LF. *)
LEMMA OpenEmpty ==
  ASSUME NEW s \in Strings PROVE Open(s) = <<>> <=> s = <<>> \/ EndsIn(s, "LF")
<1>1. CASE s = <<>> BY <1>1, OpenHeld
<1>2. CASE s # <<>>
  <2>1. PICK t \in Strings, c \in Tokens : s = Append(t, c) BY <1>2, Shortened
  <2>2. EndsIn(s, "LF") <=> c = "LF" BY <2>1, EndsGrown
  <2>3. CASE c = "LF" BY <2>1, <2>2, <2>3, OpenHeld
  <2>4. CASE c # "LF"
    <3>1. c \in Tokens \ {"LF"} BY <2>4
    <3>2. PICK o \in Strings : o = Open(t) BY OpenHeld
    <3>3. Open(s) = Append(o, c) BY <2>1, <3>1, <3>2, OpenHeld
    <3>4. Append(o, c) # <<>> BY Grown
    <3> QED BY <1>2, <2>2, <2>4, <3>3, <3>4
  <2> QED BY <2>3, <2>4
<1> QED BY <1>1, <1>2

(* The reader and a cut say the same: the events passed on, the data held, the line open. *)
InStep(r, a) ==
  r.events = Passed(a.blocks) /\ r.line = Open(a.rest) /\ r.data = Held(a.rest)

LEMMA ReaderParts ==
  ASSUME NEW r \in Reader
  PROVE  /\ r.events \in Seq(Seq(Data)) /\ r.data \in Seq(Data) /\ r.line \in Strings
         /\ r.last \in Tokens
BY DEF Reader

LEMMA ReaderMade ==
  ASSUME NEW e \in Seq(Seq(Data)), NEW d \in Seq(Data), NEW l \in Strings, NEW c \in Tokens
  PROVE  \E q \in Reader :
           /\ q = [events |-> e, data |-> d, line |-> l, last |-> c]
           /\ q.events = e /\ q.data = d /\ q.line = l /\ q.last = c
<1>1. PICK q : q = [events |-> e, data |-> d, line |-> l, last |-> c] OBVIOUS
<1>2. q.events = e /\ q.data = d /\ q.line = l /\ q.last = c BY <1>1
<1>3. q \in Reader BY <1>1 DEF Reader
<1> QED BY <1>1, <1>2, <1>3

WithLast(r, c) == [r EXCEPT !.last = c]
WithLine(r, l) == [r EXCEPT !.line = l]

LEMMA LastSet ==
  ASSUME NEW r \in Reader, NEW c \in Tokens
  PROVE  /\ WithLast(r, c) \in Reader /\ WithLast(r, c).last = c
         /\ WithLast(r, c).events = r.events /\ WithLast(r, c).data = r.data
         /\ WithLast(r, c).line = r.line
BY DEF Reader, WithLast

LEMMA LineSet ==
  ASSUME NEW r \in Reader, NEW l \in Strings
  PROVE  /\ WithLine(r, l) \in Reader /\ WithLine(r, l).line = l
         /\ WithLine(r, l).events = r.events /\ WithLine(r, l).data = r.data
BY DEF Reader, WithLine

LEMMA DispatchIs ==
  ASSUME NEW r \in Reader
  PROVE  /\ Dispatch(r) \in Reader /\ Dispatch(r).line = r.line /\ Dispatch(r).data = <<>>
         /\ Dispatch(r).events = IF r.data = <<>> THEN r.events ELSE Append(r.events, r.data)
<1>1. CASE r.data = <<>> BY <1>1 DEF Dispatch
<1>2. CASE r.data # <<>>
  <2>1. PICK e \in Seq(Seq(Data)) : e = Append(r.events, r.data)
    <3>1. PICK ev \in Seq(Seq(Data)), d \in Seq(Data) : ev = r.events /\ d = r.data BY ReaderParts
    <3>2. Append(ev, d) \in Seq(Seq(Data)) BY Grown
    <3> QED BY <3>1, <3>2
  <2>6. <<>> \in Seq(Data) OBVIOUS
  <2>2. PICK z \in Seq(Data) : z = <<>> BY ONLY <2>6
  <2>3. Dispatch(r) = [r EXCEPT !.events = e, !.data = z] BY <1>2, <2>1, <2>2 DEF Dispatch
  <2>4. PICK q \in Reader : /\ q = [events |-> e, data |-> z, line |-> r.line, last |-> r.last]
                            /\ q.events = e /\ q.data = z /\ q.line = r.line
    BY ReaderMade, ReaderParts
  <2>5. Dispatch(r) = q BY <2>3, <2>4 DEF Reader
  <2> QED BY <1>2, <2>1, <2>2, <2>4, <2>5
<1> QED BY <1>1, <1>2

(* What a line read does: it is data, or nothing is kept of it, or it ends an event. *)
LEMMA EndLineIs ==
  ASSUME NEW r \in Reader
  PROVE  /\ EndLine(r) \in Reader /\ EndLine(r).line = <<>>
         /\ r.line = <<>> => EndLine(r) = Dispatch(r)
         /\ r.line # <<>> /\ r.line \in Data =>
              EndLine(r).events = r.events /\ EndLine(r).data = Append(r.data, r.line)
         /\ r.line # <<>> /\ r.line \notin Data =>
              EndLine(r).events = r.events /\ EndLine(r).data = r.data
<1>1. PICK e \in Seq(Seq(Data)), d \in Seq(Data), l \in Strings, c \in Tokens :
        e = r.events /\ d = r.data /\ l = r.line /\ c = r.last
  BY ReaderParts
<1>2. CASE l = <<>>
  <2>1. EndLine(r) = Dispatch(r)
    <3>1. r.line = <<>> /\ r.line \notin Data BY <1>1, <1>2, OpenHeld
    <3> QED BY <3>1 DEF EndLine
  <2> QED BY <1>1, <1>2, <2>1, DispatchIs
<1>3. CASE l # <<>> /\ l \in Data
  <2>1. PICK k \in Seq(Data) : k = Append(d, l) BY <1>3, Grown
  <2>2. PICK z \in Strings : z = <<>> BY OpenHeld
  <2>3. EndLine(r) = [r EXCEPT !.data = k, !.line = z] BY <1>1, <1>3, <2>1, <2>2 DEF EndLine
  <2>4. PICK q \in Reader : /\ q = [events |-> e, data |-> k, line |-> z, last |-> c]
                            /\ q.events = e /\ q.data = k /\ q.line = z
    BY ReaderMade
  <2>5. EndLine(r) = q BY <1>1, <2>3, <2>4 DEF Reader
  <2> QED BY <1>1, <1>3, <2>1, <2>2, <2>4, <2>5
<1>4. CASE l # <<>> /\ l \notin Data
  <2>2. PICK z \in Strings : z = <<>> BY OpenHeld
  <2>3. EndLine(r) = [r EXCEPT !.line = z] BY <1>1, <1>4, <2>2 DEF EndLine
  <2>4. PICK q \in Reader : /\ q = [events |-> e, data |-> d, line |-> z, last |-> c]
                            /\ q.events = e /\ q.data = d /\ q.line = z
    BY ReaderMade
  <2>5. EndLine(r) = q BY <1>1, <2>3, <2>4 DEF Reader
  <2> QED BY <1>1, <1>4, <2>2, <2>4, <2>5
<1> QED BY <1>2, <1>3, <1>4

LEMMA CutParts ==
  ASSUME NEW a \in Cuts PROVE a.blocks \in Seq(Strings) /\ a.rest \in Strings
BY DEF Cuts

(* A line end read is an LF cut. *)
LEMMA LineInStep ==
  ASSUME NEW r \in Reader, NEW a \in Cuts, InStep(r, a)
  PROVE  EndLine(r) \in Reader /\ InStep(EndLine(r), CutAt[a]["LF"])
<1>0. "LF" \in Tokens BY DEF Tokens
<1>1. PICK B \in Seq(Strings), v \in Strings : B = a.blocks /\ v = a.rest BY CutParts
<1>2. r.events = Passed(B) /\ r.line = Open(v) /\ r.data = Held(v) BY <1>1 DEF InStep
<1>3. PICK q \in Reader : q = EndLine(r) /\ q.line = <<>> BY EndLineIs
<1>4. PICK b \in Cuts : b = CutAt[a]["LF"] BY <1>0, CutAtIs
<1>5. CASE EndsIn(v, "LF")
  <2>1. PICK u \in Strings : u = Front(v) /\ v = Append(u, "LF") BY <1>5, EndsShortened
  <2>2. b.blocks = Append(B, u) /\ b.rest = <<>> BY <1>0, <1>1, <1>4, <1>5, <2>1, CutAtIs
  <2>3. Open(v) = <<>> /\ Held(v) = Decode(u) BY <2>1, OpenHeld
  <2>4. q = Dispatch(r) BY <1>2, <1>3, <2>3, EndLineIs
  <2>5. /\ q.data = <<>>
        /\ q.events = IF Decode(u) = <<>> THEN Passed(B) ELSE Append(Passed(B), Decode(u))
    BY <1>2, <2>3, <2>4, DispatchIs
  <2>6. Passed(Append(B, u)) = PassOn[Passed(B)][u] /\ Passed(B) \in Seq(Seq(Data)) BY PassedSnoc
  <2>7. Passed(Append(B, u)) = q.events BY <2>5, <2>6, PassOnIs
  <2>8. InStep(q, b) BY <1>3, <2>2, <2>5, <2>7, OpenHeld DEF InStep
  <2> QED BY <1>3, <1>4, <2>8
<1>6. CASE ~EndsIn(v, "LF")
  <2>1. b.blocks = B /\ b.rest = Append(v, "LF") BY <1>0, <1>1, <1>4, <1>6, CutAtIs
  <2>2. Open(b.rest) = <<>> /\ Held(b.rest) = Decode(v) BY <2>1, OpenHeld
  <2>3. Open(v) \in Strings /\ Decode(v) = IF Open(v) \in Data THEN Append(Held(v), Open(v)) ELSE Held(v)
    BY OpenHeld
  <2>4. q.events = Passed(B) /\ q.data = Decode(v)
    <3>1. CASE v = <<>>
      <4>1. Open(v) = <<>> /\ Held(v) = <<>> /\ Decode(v) = <<>> BY <2>3, <3>1, OpenHeld
      <4>2. q = Dispatch(r) BY <1>2, <1>3, <4>1, EndLineIs
      <4> QED BY <1>2, <4>1, <4>2, DispatchIs
    <3>2. CASE v # <<>>
      <4>1. Open(v) # <<>> BY <1>6, <3>2, OpenEmpty
      <4>2. CASE Open(v) \in Data BY <1>2, <1>3, <2>3, <4>1, <4>2, EndLineIs
      <4>3. CASE Open(v) \notin Data BY <1>2, <1>3, <2>3, <4>1, <4>3, EndLineIs
      <4> QED BY <4>2, <4>3
    <3> QED BY <3>1, <3>2
  <2>5. InStep(q, b) BY <1>3, <2>1, <2>2, <2>4 DEF InStep
  <2> QED BY <1>3, <1>4, <2>5
<1> QED BY <1>5, <1>6

(* Any other token is one more of the line. *)
LEMMA TokenInStep ==
  ASSUME NEW r \in Reader, NEW a \in Cuts, InStep(r, a), NEW c \in Tokens \ {"LF"}
  PROVE  /\ WithLine(r, Append(r.line, c)) \in Reader
         /\ InStep(WithLine(r, Append(r.line, c)), CutAt[a][c])
<1>1. PICK B \in Seq(Strings), v \in Strings : B = a.blocks /\ v = a.rest BY CutParts
<1>2. r.events = Passed(B) /\ r.line = Open(v) /\ r.data = Held(v) BY <1>1 DEF InStep
<1>3. PICK l \in Strings : l = Open(v) BY OpenHeld
<1>4. PICK k \in Strings : k = Append(l, c) BY Grown
<1>5. PICK q \in Reader :
        /\ q = WithLine(r, Append(r.line, c))
        /\ q.events = r.events /\ q.data = r.data /\ q.line = k
  <2>1. Append(r.line, c) = k BY <1>2, <1>3, <1>4
  <2>2. WithLine(r, k) \in Reader /\ WithLine(r, k).line = k
        /\ WithLine(r, k).events = r.events /\ WithLine(r, k).data = r.data
    BY LineSet
  <2> QED BY <2>1, <2>2
<1>7. PICK b \in Cuts : b = CutAt[a][c] BY CutAtIs
<1>8. b.blocks = B /\ b.rest = Append(v, c) BY <1>1, <1>7, CutAtIs
<1>9. Open(b.rest) = k /\ Held(b.rest) = Held(v) BY <1>3, <1>4, <1>8, OpenHeld
<1>10. InStep(q, b) BY <1>2, <1>5, <1>8, <1>9 DEF InStep
<1> QED BY <1>5, <1>7, <1>10

(* Whatever the next token, what it leaves unsettled is a CR of its own. *)
LEMMA SettledNext ==
  ASSUME NEW e \in Cuts, ~EndsIn(e.rest, "CR"), NEW c \in Tokens
  PROVE  /\ SettledCut(CutAt[e][c]) = CutAt[e][IF c = "CR" THEN "LF" ELSE c]
         /\ EndsIn(CutAt[e][c].rest, "CR") <=> c = "CR"
<1>1. PICK B \in Seq(Strings), v \in Strings : B = e.blocks /\ v = e.rest BY CutParts
<1>2. PICK b \in Cuts : b = CutAt[e][c] BY CutAtIs
<1>3. EndsIn(b.rest, "CR") <=> c = "CR"
  <2>1. CASE c = "LF" /\ EndsIn(v, "LF") BY <1>1, <1>2, <2>1, CutAtIs DEF EndsIn
  <2>2. CASE ~(c = "LF" /\ EndsIn(v, "LF"))
    <3>1. b.rest = Append(v, c) BY <1>1, <1>2, <2>2, CutAtIs
    <3> QED BY <3>1, EndsGrown
  <2> QED BY <2>1, <2>2
<1>4. CASE c # "CR" BY <1>2, <1>3, <1>4 DEF SettledCut
<1>5. CASE c = "CR"
  <2>1. b.blocks = B /\ b.rest = Append(v, c) BY <1>1, <1>2, <1>5, CutAtIs
  <2>2. Front(b.rest) = v BY <2>1, Grown
  <2>3. [blocks |-> b.blocks, rest |-> Front(b.rest)] = e BY <1>1, <2>1, <2>2 DEF Cuts
  <2> QED BY <1>2, <1>3, <1>5, <2>3 DEF SettledCut
<1> QED BY <1>2, <1>3, <1>4, <1>5

FirstReader == [events |-> <<>>, data |-> <<>>, line |-> <<>>, last |-> "d"]

LEMMA ReadNothing == ReadOver(<<>>) = FirstReader /\ FirstReader \in Reader /\ FirstReader.last = "d"
<1>1. ReadOver(<<>>) = FirstReader BY ScanNothing DEF ReadOver, FirstReader
<1>2. <<>> \in Seq(Seq(Data)) /\ <<>> \in Seq(Data) /\ <<>> \in Strings /\ "d" \in Tokens BY DEF Tokens
<1> QED BY <1>1, <1>2 DEF FirstReader, Reader

LEMMA TakeIs ==
  ASSUME NEW r \in Reader, NEW c \in Tokens
  PROVE  Take[r][c] = IF c \notin {"LF", "CR"} THEN WithLast(WithLine(r, Append(r.line, c)), c)
                      ELSE IF c = "LF" /\ r.last = "CR" THEN WithLast(r, c)
                      ELSE WithLast(EndLine(r), c)
<1>1. Take[r][c] = [CASE c \notin {"LF", "CR"}     -> [r EXCEPT !.line = Append(@, c)]
                      [] c = "LF" /\ r.last = "CR" -> r
                      [] OTHER                     -> EndLine(r)
                    EXCEPT !.last = c]
  BY DEF Take
<1>2. CASE c = "LF" /\ r.last = "CR" BY <1>1, <1>2 DEF WithLast
<1>3. CASE c = "CR" \/ (c = "LF" /\ r.last # "CR") BY <1>1, <1>3 DEF WithLast
<1>4. CASE c \notin {"LF", "CR"} BY <1>1, <1>4 DEF WithLast, WithLine
<1> QED BY <1>2, <1>3, <1>4

LEMMA LineThen ==
  ASSUME NEW r \in Reader, NEW a \in Cuts, InStep(r, a), NEW c \in Tokens
  PROVE  WithLast(EndLine(r), c) \in Reader /\ InStep(WithLast(EndLine(r), c), CutAt[a]["LF"])
<1>1. PICK q \in Reader : q = EndLine(r) /\ InStep(q, CutAt[a]["LF"]) BY LineInStep
<1>2. InStep(WithLast(q, c), CutAt[a]["LF"]) BY <1>1, LastSet DEF InStep
<1> QED BY <1>1, <1>2, LastSet

(* The reader has read as far as what is cut, its last CR taken for a line end. *)
Together(s) ==
  /\ ReadOver(s) \in Reader /\ InStep(ReadOver(s), SettledCut(CutOf(s)))
  /\ ReadOver(s).last = "CR" <=> EndsIn(CutOf(s).rest, "CR")

LEMMA TogetherGrows ==
  ASSUME NEW s \in Strings, Together(s), NEW c \in Tokens PROVE Together(Append(s, c))
<1>1. PICK r \in Reader : r = ReadOver(s) BY DEF Together
<1>2. PICK a \in Cuts : a = CutOf(s) BY CutOfSnoc
<1>3. PICK e \in Cuts : e = SettledCut(a) /\ ~EndsIn(e.rest, "CR") BY SettledCutIs
<1>4. InStep(r, e) /\ (r.last = "CR" <=> EndsIn(a.rest, "CR")) BY <1>1, <1>2, <1>3 DEF Together
<1>5. ReadOver(Append(s, c)) = Take[r][c] BY <1>1, ScanSnoc DEF ReadOver
<1>6. CutOf(Append(s, c)) = NextCut(a, c) BY <1>2, CutOfSnoc
<1>7. SUFFICES /\ Take[r][c] \in Reader /\ InStep(Take[r][c], SettledCut(NextCut(a, c)))
               /\ Take[r][c].last = "CR" <=> EndsIn(NextCut(a, c).rest, "CR")
  BY <1>5, <1>6 DEF Together
<1>8. CASE EndsIn(a.rest, "CR") /\ c = "LF"
  <2>1. NextCut(a, c) = e BY <1>3, <1>8 DEF NextCut
  <2>2. SettledCut(e) = e BY <1>3 DEF SettledCut
  <2>3. PICK q \in Reader : q = WithLast(r, c) /\ q.last = c BY LastSet
  <2>4. Take[r][c] = q BY <1>4, <1>8, <2>3, TakeIs
  <2>5. InStep(q, e) BY <1>4, <2>3, LastSet DEF InStep
  <2> QED BY <1>3, <1>8, <2>1, <2>2, <2>3, <2>4, <2>5
<1>9. CASE ~(EndsIn(a.rest, "CR") /\ c = "LF")
  <2>1. NextCut(a, c) = CutAt[e][c] BY <1>3, <1>9 DEF NextCut
  <2>2. /\ SettledCut(CutAt[e][c]) = CutAt[e][IF c = "CR" THEN "LF" ELSE c]
        /\ EndsIn(CutAt[e][c].rest, "CR") <=> c = "CR"
    BY <1>3, SettledNext
  <2>3. CASE c \in {"LF", "CR"}
    <3>1. Take[r][c] = WithLast(EndLine(r), c) BY <1>4, <1>9, <2>3, TakeIs
    <3>2. PICK q \in Reader : q = EndLine(r) BY <1>4, LineInStep
    <3>3. Take[r][c].last = c BY <3>1, <3>2, LastSet
    <3>4. Take[r][c] \in Reader /\ InStep(Take[r][c], CutAt[e]["LF"]) BY <1>4, <3>1, LineThen
    <3>5. SettledCut(CutAt[e][c]) = CutAt[e]["LF"] BY <2>2, <2>3
    <3> QED BY <2>1, <2>2, <3>3, <3>4, <3>5
  <2>4. CASE c \notin {"LF", "CR"}
    <3>1. PICK k \in Reader : k = WithLine(r, Append(r.line, c)) /\ InStep(k, CutAt[e][c])
      BY <1>4, <2>4, TokenInStep
    <3>2. Take[r][c] = WithLast(k, c) BY <2>4, <3>1, TakeIs
    <3>3. InStep(WithLast(k, c), CutAt[e][c]) BY <3>1, LastSet DEF InStep
    <3>4. WithLast(k, c) \in Reader /\ WithLast(k, c).last = c BY LastSet
    <3>5. SettledCut(CutAt[e][c]) = CutAt[e][c] BY <2>2, <2>4
    <3> QED BY <2>1, <2>2, <3>2, <3>3, <3>4, <3>5
  <2> QED BY <2>3, <2>4
<1> QED BY <1>8, <1>9

LEMMA AllTogether == \A s \in Strings : Together(s)
<1> DEFINE S == {t \in Strings : Together(t)}
<1>1. <<>> \in S
  <2>1. CutOf(<<>>) = CutFirst /\ CutFirst \in Cuts BY CutOfSnoc, CutSnoc
  <2>2. CutFirst.blocks = <<>> /\ CutFirst.rest = <<>> BY DEF CutFirst
  <2>3. ~EndsIn(CutFirst.rest, "CR") BY <2>2 DEF EndsIn
  <2>4. SettledCut(CutFirst) = CutFirst BY <2>3 DEF SettledCut
  <2>5. Open(<<>>) = <<>> /\ Held(<<>>) = <<>> /\ <<>> \in Strings BY OpenHeld
  <2>6. Passed(<<>>) = <<>> BY PassedSnoc
  <2>7. FirstReader.events = <<>> /\ FirstReader.data = <<>> /\ FirstReader.line = <<>> BY DEF FirstReader
  <2>8. InStep(FirstReader, CutFirst) BY <2>2, <2>5, <2>6, <2>7 DEF InStep
  <2>9. ReadOver(<<>>) = FirstReader /\ FirstReader \in Reader /\ FirstReader.last = "d" BY ReadNothing
  <2>10. Together(<<>>) BY <2>1, <2>3, <2>4, <2>8, <2>9 DEF Together
  <2> QED BY <2>5, <2>10
<1>2. ASSUME NEW t \in S \cap Seq(Tokens), NEW c \in Tokens PROVE Append(t, c) \in S
  <2>1. t \in Strings /\ Together(t) OBVIOUS
  <2>2. Append(t, c) \in Strings /\ Together(Append(t, c)) BY <2>1, Grown, TogetherGrows
  <2> QED BY <2>2
<1>3. Seq(Tokens) \subseteq S
  <2> HIDE DEF S
  <2> QED BY <1>1, <1>2, SnocInduction
<1> QED BY <1>3

(* A cut without a block is the string. *)
LEMMA CutWhole == \A s \in Strings : Cut(s).blocks = <<>> => Cut(s).rest = s
<1> DEFINE S == {t \in Strings : Cut(t).blocks = <<>> => Cut(t).rest = t}
<1>1. <<>> \in S
  <2>1. <<>> \in Strings /\ CutFirst.rest = <<>> BY OpenHeld DEF CutFirst
  <2> QED BY <2>1, CutSnoc
<1>2. ASSUME NEW t \in S \cap Seq(Tokens), NEW c \in Tokens PROVE Append(t, c) \in S
  <2>1. t \in Strings /\ (Cut(t).blocks = <<>> => Cut(t).rest = t) OBVIOUS
  <2>2. PICK a \in Cuts : a = Cut(t) BY <2>1, CutSnoc
  <2>3. Cut(Append(t, c)) = CutAt[a][c] BY <2>1, <2>2, CutSnoc
  <2>4. PICK B \in Seq(Strings), v \in Strings : B = a.blocks /\ v = a.rest BY CutParts
  <2>5. CutAt[a][c].blocks = <<>> => CutAt[a][c].rest = Append(t, c)
    <3>1. CASE c = "LF" /\ EndsIn(v, "LF")
      <4>1. PICK u \in Strings : u = Front(v) BY <3>1, EndsShortened
      <4>2. CutAt[a][c].blocks = Append(B, u) BY <2>4, <3>1, <4>1, CutAtIs
      <4>3. Append(B, u) # <<>> BY Grown
      <4> QED BY <4>2, <4>3
    <3>2. CASE ~(c = "LF" /\ EndsIn(v, "LF"))
      <4>1. CutAt[a][c].blocks = B /\ CutAt[a][c].rest = Append(v, c) BY <2>4, <3>2, CutAtIs
      <4> QED BY <2>1, <2>2, <2>4, <4>1
    <3> QED BY <3>1, <3>2
  <2>6. Append(t, c) \in Strings BY <2>1, Grown
  <2> QED BY <2>3, <2>5, <2>6
<1>3. Seq(Tokens) \subseteq S
  <2> HIDE DEF S
  <2> QED BY <1>1, <1>2, SnocInduction
<1> QED BY <1>3

LEMMA UncutSettles == ASSUME NEW r, Uncut(r) PROVE LineEndsOf(r) = Settled(r)
<1>1. r \in Strings /\ CutOf(r) = [blocks |-> <<>>, rest |-> r] BY DEF Uncut
<1>2. PICK j \in Strings : j = Join(r) BY <1>1, JoinEnds
<1>3. Cut(j).blocks = <<>> /\ Cut(j).rest = r BY <1>1, <1>2 DEF CutOf
<1>4. j = r BY <1>3, CutWhole
<1> QED BY <1>2, <1>4 DEF LineEndsOf, Join

(* At the close what is left is one block more, whatever the reader still holds. *)
LEMMA ReferenceIs ==
  ASSUME NEW s \in Strings
  PROVE  Reference(s) = PassOn[Passed(SettledCut(CutOf(s)).blocks)][SettledCut(CutOf(s)).rest]
<1>0. "LF" \in Tokens BY DEF Tokens
<1>1. PICK r \in Reader : r = ReadOver(s) BY AllTogether DEF Together
<1>2. PICK e \in Cuts : e = SettledCut(CutOf(s)) BY CutOfSnoc, SettledCutIs
<1>3. InStep(r, e) BY <1>1, <1>2, AllTogether DEF Together
<1>4. PICK q \in Reader : q = EndLine(r) /\ InStep(q, CutAt[e]["LF"]) BY <1>3, LineInStep
<1>5. PICK b \in Cuts : b = CutAt[e]["LF"] BY <1>0, CutAtIs
<1>6. PICK B \in Seq(Strings), v \in Strings : B = e.blocks /\ v = e.rest BY CutParts
<1>7. PICK P \in Seq(Seq(Data)) : P = Passed(B) BY PassedSnoc
<1>8. Reference(s) = IF q.data = <<>> THEN q.events ELSE Append(q.events, q.data)
  <2>1. Reference(s) = Dispatch(q).events BY <1>1, <1>4 DEF Reference
  <2> QED BY <2>1, DispatchIs
<1>9. q.events = Passed(b.blocks) /\ q.data = Held(b.rest) BY <1>4, <1>5 DEF InStep
<1>10. PassOn[P][v] = IF Decode(v) = <<>> THEN P ELSE Append(P, Decode(v)) BY PassOnIs
<1>11. CASE EndsIn(v, "LF")
  <2>1. PICK u \in Strings : u = Front(v) /\ v = Append(u, "LF") BY <1>11, EndsShortened
  <2>2. b.blocks = Append(B, u) /\ b.rest = <<>> BY <1>0, <1>5, <1>6, <1>11, <2>1, CutAtIs
  <2>3. q.data = <<>> BY <1>9, <2>2, OpenHeld
  <2>4. Passed(Append(B, u)) = PassOn[P][u] BY <1>7, PassedSnoc
  <2>5. PassOn[P][u] = IF Decode(u) = <<>> THEN P ELSE Append(P, Decode(u)) BY PassOnIs
  <2>6. Decode(v) = Decode(u)
    <3>1. Open(v) = <<>> /\ Held(v) = Decode(u) BY <2>1, OpenHeld
    <3>2. Decode(v) = IF Open(v) \in Data THEN Append(Held(v), Open(v)) ELSE Held(v) BY OpenHeld
    <3> QED BY <3>1, <3>2, OpenHeld
  <2> QED BY <1>2, <1>6, <1>7, <1>8, <1>9, <1>10, <2>2, <2>3, <2>4, <2>5, <2>6
<1>12. CASE ~EndsIn(v, "LF")
  <2>1. b.blocks = B /\ b.rest = Append(v, "LF") BY <1>0, <1>5, <1>6, <1>12, CutAtIs
  <2>2. q.events = P /\ q.data = Decode(v) BY <1>7, <1>9, <2>1, OpenHeld
  <2> QED BY <1>2, <1>6, <1>7, <1>8, <1>10, <2>2
<1> QED BY <1>11, <1>12

(* What readAguiStream passes on of a whole string is what the reader does. *)
LEMMA CloseIsReference ==
  ASSUME NEW s \in Strings
  PROVE  /\ LineEndsOf(CutOf(s).rest) \in Strings
         /\ Reference(s) = PassOn[Passed(CutOf(s).blocks)][LineEndsOf(CutOf(s).rest)]
<1>1. PICK a \in Cuts : a = CutOf(s) BY CutOfSnoc
<1>2. PICK A \in Seq(Strings), r \in Strings : A = a.blocks /\ r = a.rest BY CutParts
<1>3. PICK w \in Strings : w = LineEndsOf(r) /\ w = Settled(r)
  <2>1. Uncut(r) BY <1>1, <1>2, RestIsUncut
  <2> QED BY <2>1, UncutSettles, SettledIsString
<1>4. PICK e \in Cuts : e = SettledCut(a) BY SettledCutIs
<1>5. Reference(s) = PassOn[Passed(e.blocks)][e.rest] BY <1>1, <1>4, ReferenceIs
<1>6. Reference(s) = PassOn[Passed(A)][w]
  <2>1. CASE ~EndsIn(r, "CR")
    <3>1. w = r /\ e = a BY <1>2, <1>3, <1>4, <2>1 DEF Settled, SettledCut
    <3> QED BY <1>2, <1>5, <3>1
  <2>2. CASE EndsIn(r, "CR")
    <3>0. "LF" \in Tokens BY DEF Tokens
    <3>1. PICK u \in Strings : u = Front(r) BY <2>2, EndsShortened
    <3>2. w = Append(u, "LF") BY <1>3, <2>2, <3>1 DEF Settled
    <3>7. PICK d \in Cuts : d = [blocks |-> A, rest |-> u] BY DEF Cuts
    <3>3. d = [blocks |-> A, rest |-> u] /\ d.blocks = A /\ d.rest = u BY ONLY <3>7
    <3>4. e = CutAt[d]["LF"] BY <1>2, <1>4, <2>2, <3>1, <3>3 DEF SettledCut
    <3>5. CASE ~EndsIn(u, "LF")
      <4>1. e.blocks = A /\ e.rest = w BY <3>0, <3>2, <3>3, <3>4, <3>5, CutAtIs
      <4> QED BY <1>5, <4>1
    <3>6. CASE EndsIn(u, "LF")
      <4>1. PICK x \in Strings : x = Front(u) /\ u = Append(x, "LF") BY <3>6, EndsShortened
      <4>2. e.blocks = Append(A, x) /\ e.rest = <<>> BY <3>0, <3>3, <3>4, <3>6, <4>1, CutAtIs
      <4>3. PICK P \in Seq(Seq(Data)) : P = Passed(A) BY PassedSnoc
      <4>4. Passed(Append(A, x)) = PassOn[P][x] BY <4>3, PassedSnoc
      <4>5. PICK Q \in Seq(Seq(Data)) : Q = PassOn[P][x] BY PassOnIs
      <4>6. Decode(<<>>) = <<>>
        <5>1. <<>> \in Strings /\ Open(<<>>) = <<>> /\ Held(<<>>) = <<>> /\ <<>> \notin Data BY OpenHeld
        <5>2. PICK z \in Strings : z = <<>> BY <5>1
        <5>3. Decode(z) = IF Open(z) \in Data THEN Append(Held(z), Open(z)) ELSE Held(z) BY OpenHeld
        <5> QED BY <5>1, <5>2, <5>3
      <4>7. PICK z \in Strings : z = <<>> BY OpenHeld
      <4>8. PassOn[Q][z] = Q BY <4>6, <4>7, PassOnIs
      <4>9. Reference(s) = PassOn[P][x] BY <1>5, <4>2, <4>4, <4>5, <4>7, <4>8
      <4>10. Decode(u) = Decode(x)
        <5>1. Open(u) = <<>> /\ Held(u) = Decode(x) BY <4>1, OpenHeld
        <5>2. Decode(u) = IF Open(u) \in Data THEN Append(Held(u), Open(u)) ELSE Held(u) BY OpenHeld
        <5> QED BY <5>1, <5>2, OpenHeld
      <4>11. Decode(w) = Decode(u)
        <5>1. Open(w) = <<>> /\ Held(w) = Decode(u) BY <3>2, OpenHeld
        <5>2. Decode(w) = IF Open(w) \in Data THEN Append(Held(w), Open(w)) ELSE Held(w) BY OpenHeld
        <5> QED BY <5>1, <5>2, OpenHeld
      <4>12. PassOn[P][x] = IF Decode(x) = <<>> THEN P ELSE Append(P, Decode(x)) BY PassOnIs
      <4>13. PassOn[P][w] = IF Decode(w) = <<>> THEN P ELSE Append(P, Decode(w)) BY PassOnIs
      <4> QED BY <4>3, <4>9, <4>10, <4>11, <4>12, <4>13
    <3> QED BY <3>5, <3>6
  <2> QED BY <2>1, <2>2
<1> QED BY <1>1, <1>2, <1>3, <1>6

-----------------------------------------------------------------------------
(* What has been passed on stays: more blocks only add to it. *)

LEMMA PrefixItself == ASSUME NEW T, NEW e \in Seq(T) PROVE IsPrefix(e, e)
BY DEF IsPrefix

LEMMA PrefixGrows ==
  ASSUME NEW T, NEW e \in Seq(T), NEW f \in Seq(T), IsPrefix(e, f), NEW x \in T
  PROVE  IsPrefix(e, Append(f, x))
<1>1. PICK g : g = Append(f, x) OBVIOUS
<1>2. g \in Seq(T) /\ Len(g) = Len(f) + 1 /\ \A i \in 1..Len(f) : g[i] = f[i] BY <1>1
<1>3. Len(e) \in Nat /\ Len(f) \in Nat /\ Len(e) <= Len(f) BY DEF IsPrefix
<1>4. SubSeq(e, 1, Len(e)) = SubSeq(f, 1, Len(e)) BY DEF IsPrefix
<1>5. SubSeq(g, 1, Len(e)) = SubSeq(f, 1, Len(e))
  <2>1. PICK n \in Nat : n = Len(e) /\ n <= Len(f) BY <1>3
  <2>2. PICK p \in Seq(T) : p = SubSeq(g, 1, n) /\ Len(p) = n /\ \A i \in 1..n : p[i] = g[i]
    <3>1. n <= Len(g) BY <1>2, <1>3, <2>1
    <3>2. /\ SubSeq(g, 1, n) \in Seq(T) /\ Len(SubSeq(g, 1, n)) = n
          /\ \A i \in 1..n : SubSeq(g, 1, n)[i] = g[i]
      BY <1>2, <3>1
    <3> QED BY <3>2
  <2>3. PICK q \in Seq(T) : q = SubSeq(f, 1, n) /\ Len(q) = n /\ \A i \in 1..n : q[i] = f[i]
    <3>1. n <= Len(f) BY <1>2, <1>3, <2>1
    <3>2. /\ SubSeq(f, 1, n) \in Seq(T) /\ Len(SubSeq(f, 1, n)) = n
          /\ \A i \in 1..n : SubSeq(f, 1, n)[i] = f[i]
      BY <1>2, <3>1
    <3> QED BY <3>2
  <2>4. \A i \in 1..n : p[i] = q[i]
    <3>1. \A i \in 1..n : i \in 1..Len(f) BY <1>3, <2>1
    <3> QED BY <1>2, <2>2, <2>3, <3>1
  <2>5. p = q BY ONLY <2>2, <2>3, <2>4, SeqEqual
  <2> QED BY <2>1, <2>2, <2>3, <2>5
<1> QED BY <1>1, <1>2, <1>3, <1>4, <1>5 DEF IsPrefix

LEMMA ScanExtends ==
  ASSUME NEW e \in Seq(Seq(Data)), NEW bs \in Seq(Strings)
  PROVE  Scan(PassOn, e, bs) \in Seq(Seq(Data)) /\ IsPrefix(e, Scan(PassOn, e, bs))
<1> DEFINE S == {t \in Seq(Strings) : Scan(PassOn, e, t) \in Seq(Seq(Data)) /\ IsPrefix(e, Scan(PassOn, e, t))}
<1>1. <<>> \in S
  <2>1. Scan(PassOn, e, <<>>) = e BY ScanNothing
  <2>2. IsPrefix(e, e) BY PrefixItself
  <2>3. <<>> \in Seq(Strings) OBVIOUS
  <2> QED BY <2>1, <2>2, <2>3
<1>2. ASSUME NEW t \in S \cap Seq(Strings), NEW b \in Strings PROVE Append(t, b) \in S
  <2>1. t \in Seq(Strings) /\ Scan(PassOn, e, t) \in Seq(Seq(Data)) /\ IsPrefix(e, Scan(PassOn, e, t)) OBVIOUS
  <2>2. PICK f \in Seq(Seq(Data)) : f = Scan(PassOn, e, t) BY <2>1
  <2>3. Scan(PassOn, e, Append(t, b)) = PassOn[f][b] BY <2>1, <2>2, ScanSnoc
  <2>4. PICK d \in Seq(Data) : d = Decode(b) BY DecodeIs
  <2>5. PassOn[f][b] \in Seq(Seq(Data)) /\ PassOn[f][b] = IF d = <<>> THEN f ELSE Append(f, d)
    BY <2>4, PassOnIs
  <2>6. IsPrefix(e, f) BY <2>1, <2>2
  <2>7. IsPrefix(e, Append(f, d)) BY <2>6, PrefixGrows
  <2>8. Append(t, b) \in Seq(Strings) BY <2>1, Grown
  <2> QED BY <2>3, <2>5, <2>6, <2>7, <2>8
<1>3. Seq(Strings) \subseteq S
  <2> HIDE DEF S
  <2> QED BY <1>1, <1>2, SnocInduction
<1> QED BY <1>3

-----------------------------------------------------------------------------
(* How far the console is: what it has passed on and what it keeps are what is cut of the part
   of the stream that has arrived. *)
Arrived == SubSeq(stream, 1, taken)

SseIInv ==
  /\ stream \in Strings /\ taken \in 0..Len(stream) /\ closed \in BOOLEAN
  /\ ~closed => buffer = CutOf(Arrived).rest /\ events = Passed(CutOf(Arrived).blocks)
  /\ closed => events = Reference(stream)

LEMMA PartIs ==
  ASSUME NEW T, NEW s \in Seq(T), NEW k \in 0..Len(s), NEW n \in 0..(Len(s) - k)
  PROVE  /\ SubSeq(s, 1, k) \in Seq(T) /\ SubSeq(s, k + 1, k + n) \in Seq(T)
         /\ SubSeq(s, 1, k + n) = SubSeq(s, 1, k) \o SubSeq(s, k + 1, k + n)
<1>0. k \in Nat /\ n \in Nat /\ k <= Len(s) /\ k + n <= Len(s) OBVIOUS
<1>1. PICK a \in Seq(T) : a = SubSeq(s, 1, k) /\ Len(a) = k /\ \A i \in 1..k : a[i] = s[i]
  <2>1. /\ SubSeq(s, 1, k) \in Seq(T) /\ Len(SubSeq(s, 1, k)) = k
        /\ \A i \in 1..k : SubSeq(s, 1, k)[i] = s[i]
    BY <1>0
  <2> QED BY <2>1
<1>2. PICK b \in Seq(T) : b = SubSeq(s, k + 1, k + n) /\ Len(b) = n /\ \A i \in 1..n : b[i] = s[k + i]
  <2>1. /\ SubSeq(s, k + 1, k + n) \in Seq(T) /\ Len(SubSeq(s, k + 1, k + n)) = n
        /\ \A i \in 1..n : SubSeq(s, k + 1, k + n)[i] = s[k + i]
    BY <1>0
  <2> QED BY <2>1
<1>3. PICK w \in Seq(T) : w = SubSeq(s, 1, k + n) /\ Len(w) = k + n /\ \A i \in 1..(k + n) : w[i] = s[i]
  <2>1. /\ SubSeq(s, 1, k + n) \in Seq(T) /\ Len(SubSeq(s, 1, k + n)) = k + n
        /\ \A i \in 1..(k + n) : SubSeq(s, 1, k + n)[i] = s[i]
    BY <1>0
  <2> QED BY <2>1
<1>4. PICK v \in Seq(T) : v = a \o b
  <2>1. a \o b \in Seq(T) BY ConcatProperties
  <2> QED BY <2>1
<1>5. Len(v) = k + n
  <2>1. Len(a \o b) = Len(a) + Len(b) BY ConcatProperties
  <2> QED BY ONLY <2>1, <1>1, <1>2, <1>4
<1>6. Len(a) = k /\ Len(b) = n BY ONLY <1>1, <1>2
<1>7. ASSUME NEW i \in 1..(k + n) PROVE v[i] = w[i]
  <2>0. i \in Nat /\ 1 <= i /\ i <= k + n /\ k \in Nat /\ n \in Nat
    BY ONLY <1>0, i \in 1..(k + n)
  <2>1. CASE i <= k
    <3>1. i \in 1..k BY <2>1
    <3>2. v[i] = a[i]
      <4>1. /\ Len(a \o b) = Len(a) + Len(b)
            /\ \A j \in 1..(Len(a) + Len(b)) : (a \o b)[j] = IF j <= Len(a) THEN a[j] ELSE b[j - Len(a)]
        BY ConcatProperties
      <4>2. i \in 1..(Len(a) + Len(b)) /\ i <= Len(a) BY ONLY <1>6, <2>0, <2>1
      <4>3. (a \o b)[i] = a[i] BY ONLY <4>1, <4>2
      <4> QED BY <1>4, <4>3
    <3> QED BY <1>1, <1>3, <3>1, <3>2
  <2>2. CASE ~(i <= k)
    <3>1. i - k \in 1..n /\ k + (i - k) = i BY ONLY <2>0, <2>2
    <3>2. v[i] = b[i - k]
      <4>1. Len(a) = k /\ Len(b) = n /\ i > Len(a) /\ i <= Len(a) + Len(b) BY ONLY <1>6, <2>0, <2>2
      <4>2. (a \o b)[i] = b[i - Len(a)]
        <5>1. /\ Len(a \o b) = Len(a) + Len(b)
              /\ \A j \in 1..(Len(a) + Len(b)) : (a \o b)[j] = IF j <= Len(a) THEN a[j] ELSE b[j - Len(a)]
          BY ConcatProperties
        <5>2. i \in 1..(Len(a) + Len(b)) /\ ~(i <= Len(a)) BY ONLY <1>6, <2>0, <2>2
        <5> QED BY ONLY <5>1, <5>2
      <4> QED BY <1>4, <4>1, <4>2
    <3> QED BY <1>2, <1>3, <3>1, <3>2
  <2> QED BY <2>1, <2>2
<1>8. v = w BY <1>3, <1>5, <1>7, SeqEqual
<1> QED BY <1>1, <1>2, <1>3, <1>4, <1>8

LEMMA WholePart == ASSUME NEW s \in Strings PROVE SubSeq(s, 1, Len(s)) = s /\ SubSeq(s, 1, 0) = <<>>
OBVIOUS

LEMMA SseInitInv == SseInit => SseIInv
<1> SUFFICES ASSUME SseInit PROVE SseIInv OBVIOUS
<1>1. stream \in Strings
  <2>1. PICK m \in 0..MaxTokens : stream \in [1..m -> Tokens] BY DEF SseInit, BoundedSeq, SeqOf
  <2>2. m \in Nat BY SseAssumption
  <2> QED BY <2>1, <2>2
<1>2. Arrived = <<>> BY <1>1, WholePart DEF SseInit, Arrived
<1>3. CutOf(<<>>).rest = <<>> /\ CutOf(<<>>).blocks = <<>> BY CutOfSnoc DEF CutFirst
<1>4. Passed(<<>>) = <<>> BY PassedSnoc
<1>5. taken \in 0..Len(stream)
  <2>1. Len(stream) \in Nat BY <1>1
  <2> QED BY <2>1 DEF SseInit
<1> QED BY <1>1, <1>2, <1>3, <1>4, <1>5 DEF SseInit, SseIInv

LEMMA ChunkKeeps ==
  ASSUME SseIInv, NEW n \in 1..(Len(stream) - taken), Chunk(n) PROVE SseIInv'
<1>1. ~closed /\ ~closed' /\ stream' = stream /\ taken' = taken + n BY DEF Chunk
<1>2. PICK s \in Strings, k \in 0..Len(stream) : s = stream /\ k = taken BY DEF SseIInv
<1>3. n \in 0..(Len(s) - k) /\ k \in 0..Len(s) /\ k + n \in 0..Len(s) BY <1>2
<1>4. PICK P \in Strings, w \in Strings :
        P = SubSeq(s, 1, k) /\ w = SubSeq(s, k + 1, k + n) /\ SubSeq(s, 1, k + n) = P \o w
  <2>1. /\ SubSeq(s, 1, k) \in Strings /\ SubSeq(s, k + 1, k + n) \in Strings
        /\ SubSeq(s, 1, k + n) = SubSeq(s, 1, k) \o SubSeq(s, k + 1, k + n)
    BY <1>3, PartIs
  <2> QED BY <2>1
<1>5. Arrived = P /\ Arrived' = P \o w BY <1>1, <1>2, <1>4 DEF Arrived
<1>6. PICK a \in Cuts : a = CutOf(P) BY CutOfSnoc
<1>7. PICK B \in Seq(Strings), r \in Strings : B = a.blocks /\ r = a.rest BY CutParts
<1>8. buffer = r /\ events = Passed(B) BY <1>1, <1>5, <1>6, <1>7 DEF SseIInv
<1>9. PICK x \in Strings : x = r \o w BY ConcatProperties
<1>10. PICK d \in Cuts : d = CutOf(x) BY CutOfSnoc
<1>11. Cut(LineEnds(buffer \o SubSeq(stream, taken + 1, taken + n))) = d
  <2>1. buffer \o SubSeq(stream, taken + 1, taken + n) = x BY <1>2, <1>4, <1>8, <1>9
  <2>2. Cut(LineEnds(x)) = d BY <1>10, LineEndsJoin DEF CutOf
  <2> QED BY <2>1, <2>2
<1>12. buffer' = d.rest /\ events' = Scan(PassOn, events, d.blocks) BY <1>11 DEF Chunk, Consume
<1>13. CutOf(P \o w) = Onto(B, d) BY <1>6, <1>7, <1>9, <1>10, CutResumes
<1>14. Onto(B, d).blocks = B \o d.blocks /\ Onto(B, d).rest = d.rest BY DEF Onto
<1>15. PICK D \in Seq(Strings) : D = d.blocks BY CutParts
<1>16. Passed(B \o D) = Scan(PassOn, Passed(B), D) BY ScanConcat DEF Passed
<1>17. buffer' = CutOf(Arrived').rest /\ events' = Passed(CutOf(Arrived').blocks)
  BY <1>5, <1>8, <1>12, <1>13, <1>14, <1>15, <1>16
<1>18. taken' \in 0..Len(stream') BY <1>1, <1>2, <1>3
<1>19. stream' \in Strings /\ closed' \in BOOLEAN BY <1>1, <1>2 DEF SseIInv, Chunk
<1>20. (CutOf(Arrived))' = CutOf(Arrived') /\ (Passed(CutOf(Arrived).blocks))' = Passed(CutOf(Arrived').blocks)
  OBVIOUS
<1> QED BY <1>1, <1>17, <1>18, <1>19, <1>20 DEF SseIInv

LEMMA CloseKeeps == ASSUME SseIInv, Close PROVE SseIInv'
<1>1. ~closed /\ closed' = TRUE /\ stream' = stream /\ taken' = taken /\ taken = Len(stream) BY DEF Close
<1>2. PICK s \in Strings : s = stream BY DEF SseIInv
<1>3. Arrived = s BY <1>1, <1>2, WholePart DEF Arrived
<1>4. PICK a \in Cuts : a = CutOf(s) BY CutOfSnoc
<1>5. PICK B \in Seq(Strings), r \in Strings : B = a.blocks /\ r = a.rest BY CutParts
<1>6. buffer = r /\ events = Passed(B) BY <1>1, <1>3, <1>4, <1>5 DEF SseIInv
<1>7. PICK x \in Strings : x = LineEndsOf(r) /\ Reference(s) = PassOn[Passed(B)][x]
  BY <1>4, <1>5, CloseIsReference
<1>8. events' = Scan(PassOn, Passed(B), <<x>>) BY <1>6, <1>7 DEF Close, Consume
<1>9. PICK z \in Seq(Strings) : z = <<>>
  <2>1. <<>> \in Seq(Strings) OBVIOUS
  <2> QED BY <2>1
<1>10. Append(z, x) = <<x>> BY <1>9
<1>11. Scan(PassOn, Passed(B), Append(z, x)) = PassOn[Scan(PassOn, Passed(B), z)][x] BY ScanSnoc
<1>12. Scan(PassOn, Passed(B), z) = Passed(B) BY <1>9, ScanNothing
<1>13. events' = Reference(s) BY <1>7, <1>8, <1>10, <1>11, <1>12
<1>14. (Reference(stream))' = Reference(stream') OBVIOUS
<1>15. stream' \in Strings /\ taken' \in 0..Len(stream') /\ closed' \in BOOLEAN
  BY <1>1 DEF SseIInv
<1> QED BY <1>1, <1>2, <1>13, <1>14, <1>15 DEF SseIInv

LEMMA SseNextInv == SseIInv /\ [SseNext]_svars => SseIInv'
<1> SUFFICES ASSUME SseIInv, [SseNext]_svars PROVE SseIInv' OBVIOUS
<1>1. CASE Close BY <1>1, CloseKeeps
<1>2. ASSUME NEW n \in 1..(Len(stream) - taken), Chunk(n) PROVE SseIInv' BY <1>2, ChunkKeeps
<1>3. CASE UNCHANGED svars
  <2>1. stream' = stream /\ taken' = taken /\ buffer' = buffer /\ events' = events /\ closed' = closed
    BY <1>3 DEF svars
  <2>2. Arrived' = Arrived BY <2>1 DEF Arrived
  <2> QED BY <2>1, <2>2 DEF SseIInv
<1> QED BY <1>1, <1>2, <1>3 DEF SseNext

LEMMA SseInvImplies == SseIInv => ChunkingIsInvisible
<1> SUFFICES ASSUME SseIInv PROVE ChunkingIsInvisible OBVIOUS
<1>1. PICK s \in Strings : s = stream BY DEF SseIInv
<1>2. PICK a \in Cuts : a = CutOf(s) BY CutOfSnoc
<1>3. PICK A \in Seq(Strings), r \in Strings : A = a.blocks /\ r = a.rest BY CutParts
<1>4. PICK x \in Strings : x = LineEndsOf(r) /\ Reference(s) = PassOn[Passed(A)][x]
  BY <1>2, <1>3, CloseIsReference
<1>5. Reference(s) = Passed(Append(A, x)) /\ Reference(s) \in Seq(Seq(Data)) BY <1>4, PassedSnoc, PassOnIs
<1>6. CASE closed
  <2>1. events = Reference(s) BY <1>1, <1>6 DEF SseIInv
  <2>2. IsPrefix(Reference(s), Reference(s)) BY <1>5, PrefixItself
  <2> QED BY <1>1, <2>1, <2>2 DEF ChunkingIsInvisible
<1>7. CASE ~closed
  <2>1. PICK k \in 0..Len(s) : k = taken BY <1>1 DEF SseIInv
  <2>2. PICK n \in 0..(Len(s) - k) : n = Len(s) - k /\ k + n = Len(s)
    <3>1. Len(s) \in Nat OBVIOUS
    <3>2. PICK n : n = Len(s) - k OBVIOUS
    <3>3. n \in 0..(Len(s) - k) /\ k + n = Len(s) BY <3>1, <3>2
    <3> QED BY <3>2, <3>3
  <2>3. PICK P \in Strings, w \in Strings : P = SubSeq(s, 1, k) /\ SubSeq(s, 1, k + n) = P \o w
    <3>1. /\ SubSeq(s, 1, k) \in Strings /\ SubSeq(s, k + 1, k + n) \in Strings
          /\ SubSeq(s, 1, k + n) = SubSeq(s, 1, k) \o SubSeq(s, k + 1, k + n)
      BY PartIs
    <3> QED BY <3>1
  <2>4. s = P \o w BY <2>2, <2>3, WholePart
  <2>5. PICK b \in Cuts : b = CutOf(P) BY CutOfSnoc
  <2>6. PICK B \in Seq(Strings), q \in Strings : B = b.blocks /\ q = b.rest BY CutParts
  <2>7. PICK y \in Strings : y = q \o w BY ConcatProperties
  <2>8. PICK d \in Cuts : d = CutOf(y) BY CutOfSnoc
  <2>9. PICK D \in Seq(Strings) : D = d.blocks BY CutParts
  <2>10. A = B \o D
    <3>1. a = Onto(B, d) BY <1>2, <2>4, <2>5, <2>6, <2>7, <2>8, CutResumes
    <3> QED BY <1>3, <2>9, <3>1 DEF Onto
  <2>11. Append(A, x) = B \o Append(D, x)
    <3>1. B \o Append(D, x) = Append(B \o D, x) BY BlocksSnoc
    <3> QED BY <2>10, <3>1
  <2>12. PICK E \in Seq(Strings) : E = Append(D, x) BY Grown
  <2>13. PICK F \in Seq(Seq(Data)) : F = Passed(B) BY PassedSnoc
  <2>14. Passed(B \o E) = Scan(PassOn, F, E) BY <2>13, ScanConcat DEF Passed
  <2>15. IsPrefix(F, Reference(s)) BY <1>5, <2>11, <2>12, <2>14, ScanExtends
  <2>16. events = F BY <1>1, <1>7, <2>1, <2>3, <2>5, <2>6, <2>13 DEF SseIInv, Arrived
  <2> QED BY <1>1, <1>7, <2>15, <2>16 DEF ChunkingIsInvisible
<1> QED BY <1>6, <1>7

(* Whatever the agent sends and wherever the network cuts it, the console passes on the events
   the event-stream format has in it, in order, and at the close all of them. *)
THEOREM SseChunkingIsInvisible == SseSpec => []ChunkingIsInvisible
<1>1. SseInit => SseIInv BY SseInitInv
<1>2. SseIInv /\ [SseNext]_svars => SseIInv' BY SseNextInv
<1>3. SseIInv => ChunkingIsInvisible BY SseInvImplies
<1> QED BY <1>1, <1>2, <1>3, PTL DEF SseSpec
=============================================================================
