------------------------------ MODULE SseReader ------------------------------
(***************************************************************************)
(* How the console cuts the agent's byte stream into events. Chunks arrive   *)
(* at any boundary; line ends may be LF, CR or CRLF; a blank line ends an     *)
(* event, a line that is not data is a comment, and what is left when the     *)
(* stream closes is an event too. Within a line, "d" is the word of data     *)
(* and ":" of a comment: what its first token is, the line is.               *)
(***************************************************************************)
EXTENDS Naturals, Sequences, SequencesExt

CONSTANT MaxTokens   \* bound: tokens of a stream

ASSUME SseAssumption == MaxTokens \in Nat

Tokens == {"d", ":", "LF", "CR"}

VARIABLES
  stream,   \* what the agent sends
  taken,    \* how much of it has arrived
  buffer,   \* received and not yet cut
  events,   \* the events passed on, each its lines of data
  closed

svars == <<stream, taken, buffer, events, closed>>

SseInit ==
  /\ stream \in BoundedSeq(Tokens, MaxTokens)
  /\ taken = 0 /\ buffer = <<>> /\ events = <<>> /\ closed = FALSE

EndsIn(s, c) == s # <<>> /\ Last(s) = c

(* A sequence taken from left to right. *)
Scan(step, base, s) == FoldLeft(LAMBDA a, c : step[a][c], base, s)

Strings == Seq(Tokens)
Data == {line \in Strings : line # <<>> /\ line[1] = "d"}

-----------------------------------------------------------------------------
(* readAguiStream. *)

(* CRLF is one line end, CR another: a CR is settled by what comes after it. *)
Settled(t) == IF EndsIn(t, "CR") THEN Append(Front(t), "LF") ELSE t

JoinLineEnd[t \in Strings] ==
  [c \in Tokens |->
    IF EndsIn(t, "CR") /\ c = "LF" THEN Settled(t) ELSE Append(Settled(t), c)]

LineEndsOf(s) == Settled(Scan(JoinLineEnd, <<>>, s))

(* Mutant of LineEnds: a CR at the end of a chunk does not wait for the next chunk. *)
EagerLineEnds(s) == LineEndsOf(s)

(* The line ends of a chunk: a CR at its end stays, its LF may be still to come. *)
LineEnds(s) ==
  IF EndsIn(s, "CR") THEN Append(LineEndsOf(Front(s)), "CR") ELSE LineEndsOf(s)

(* What an LF LF ends, and the rest. *)
Cuts == [blocks : Seq(Strings), rest : Strings]

CutAt[a \in Cuts] ==
  [c \in Tokens |->
    IF c = "LF" /\ EndsIn(a.rest, "LF")
    THEN [blocks |-> Append(a.blocks, Front(a.rest)), rest |-> <<>>]
    ELSE [blocks |-> a.blocks, rest |-> Append(a.rest, c)]]

Cut(s) == Scan(CutAt, [blocks |-> <<>>, rest |-> <<>>], s)

(* decodeEvent: the lines of a block, and which of them are data. *)
BreakAt[ls \in Seq(Strings) \ {<<>>}] ==
  [c \in Tokens |->
    IF c = "LF" THEN Append(ls, <<>>) ELSE Append(Front(ls), Append(Last(ls), c))]

KeepData[kept \in Seq(Data)] ==
  [line \in Strings |-> IF line \in Data THEN Append(kept, line) ELSE kept]

Decode(block) == Scan(KeepData, <<>>, Scan(BreakAt, << <<>> >>, block))

(* consume, block by block: one without data is not passed on. *)
PassOn[passed \in Seq(Seq(Data))] ==
  [block \in Strings |->
    IF Decode(block) = <<>> THEN passed ELSE Append(passed, Decode(block))]

Consume(blocks) == events' = Scan(PassOn, events, blocks)

Chunk(n) ==
  /\ ~closed
  /\ LET cut == Cut(LineEnds(buffer \o SubSeq(stream, taken + 1, taken + n)))
     IN Consume(cut.blocks) /\ buffer' = cut.rest
  /\ taken' = taken + n
  /\ UNCHANGED <<stream, closed>>

Close ==
  /\ ~closed /\ taken = Len(stream)
  /\ Consume(<<LineEndsOf(buffer)>>)
  /\ closed' = TRUE /\ buffer' = <<>>
  /\ UNCHANGED <<stream, taken>>

SseNext == Close \/ \E n \in 1..(Len(stream) - taken) : Chunk(n)

SseSpec == SseInit /\ [][SseNext]_svars

-----------------------------------------------------------------------------
(* The event-stream format read one token at a time: a line ends at CR, LF or CRLF, a blank
   line dispatches the lines of data before it. *)

Reader == [events : Seq(Seq(Data)), data : Seq(Data), line : Strings, last : Tokens]

Dispatch(r) ==
  IF r.data = <<>> THEN r ELSE [r EXCEPT !.events = Append(@, r.data), !.data = <<>>]

EndLine(r) ==
  CASE r.line = <<>>   -> Dispatch(r)
    [] r.line \in Data -> [r EXCEPT !.data = Append(@, r.line), !.line = <<>>]
    [] OTHER           -> [r EXCEPT !.line = <<>>]

Take[r \in Reader] ==
  [c \in Tokens |->
    [CASE c \notin {"LF", "CR"}     -> [r EXCEPT !.line = Append(@, c)]
       [] c = "LF" /\ r.last = "CR" -> r
       [] OTHER                     -> EndLine(r)
     EXCEPT !.last = c]]

ReadOver(s) == Scan(Take, [events |-> <<>>, data |-> <<>>, line |-> <<>>, last |-> "d"], s)

Reference(s) == Dispatch(EndLine(ReadOver(s))).events

(* Wherever the network cuts the stream, readAguiStream has passed on the first of its events,
   and when it closes all of them: none split at a CRLF that two chunks share, none joined,
   none made of a heartbeat. *)
ChunkingIsInvisible ==
  /\ IsPrefix(events, Reference(stream))
  /\ closed => events = Reference(stream)
=============================================================================
