----------------------------- MODULE ChatClient -----------------------------
(***************************************************************************)
(* The console's conversation with the agent: one transcript, one abort      *)
(* handle and one loading flag, shared by every run the operator starts while *)
(* the case in the address bar moves under them. A run goes on through its    *)
(* awaits (a token, the stream); opening a case replays its traces into the   *)
(* transcript; a sign-in on another tab replays the request that asked for it. *)
(* A message is known by whom it is of: a replayed case, or a run.            *)
(***************************************************************************)
EXTENDS Naturals, Sequences, FiniteSets, SequencesExt

CONSTANTS
  Files,      \* cases the operator may open
  Chats,      \* sessions of conversations on no case
  NoFile,     \* no case in the address bar
  MaxRuns,    \* bound: runs started
  MaxClicks   \* bound: navigations, clears and stops

ASSUME ChatAssumption ==
  /\ Files # {} /\ Chats # {} /\ NoFile \notin Files
  /\ MaxRuns \in Nat \ {0} /\ MaxClicks \in Nat

VARIABLES
  context,     \* the case in the address bar
  chat,        \* ephemeralSessionId
  loaded,      \* cases whose record the query has
  seeded,      \* seededForRef: the case whose traces are in the transcript
  transcript,  \* messages [kind, file, run, garbled], kind replay, user, turn or notice
  runs,        \* [kind, file, session, stage, aborted, history, stayed]
  abort,       \* abortRef: the run that Stop reaches, or 0
  pending,     \* pendingAuthResumeRef: the run to replay after a sign-in, or 0
  loading,     \* isLoading
  processing,  \* the run for which the workspace's Process buttons are disabled, or 0
  ready,       \* the runtime's ARN is known
  rail,        \* the activity shown: the run that published it, or 0
  clicks

chatvars == <<context, chat, loaded, seeded, transcript, runs, abort, pending, loading,
              processing, ready, rail, clicks>>

ChatInit ==
  /\ context = NoFile /\ chat = (CHOOSE s \in Chats : TRUE) /\ loaded = {} /\ seeded = NoFile
  /\ transcript = <<>> /\ runs = <<>> /\ abort = 0 /\ pending = 0
  /\ loading = FALSE /\ processing = 0 /\ ready = FALSE /\ rail = 0 /\ clicks = MaxClicks

SessionOf(c) == IF c = NoFile THEN <<"chat", chat>> ELSE <<"case", c>>
Saying(k, c, r) == [kind |-> k, file |-> c, run |-> r, garbled |-> FALSE]
Click == clicks > 0 /\ clicks' = clicks - 1

-----------------------------------------------------------------------------
(* The address bar and the replay effect. *)

(* An effect runs after the render: a case that is not seeded yet and whose record is
   there replaces the transcript; no case forgets what was seeded. *)
Replay(c, here, known, messages) ==
  IF c = NoFile THEN seeded' = NoFile /\ transcript' = messages
  ELSE IF here = c \/ c \notin known THEN seeded' = here /\ transcript' = messages
  ELSE seeded' = c /\ transcript' = <<Saying("replay", c, 0)>>

Staying(c) == [r \in DOMAIN runs |-> [runs[r] EXCEPT !.stayed = @ /\ c = context]]

(* A page that is left loses its own state, which knows of the run in hand; the run goes
   on. Coming back to the workspace takes no step of its own. *)
Navigate(c, leaves) ==
  /\ c # context \/ (leaves /\ processing # 0)
  /\ Click
  /\ context' = c
  /\ Replay(c, seeded, loaded, transcript)
  /\ runs' = Staying(c)
  /\ processing' = IF leaves THEN 0 ELSE processing
  /\ UNCHANGED <<chat, loaded, abort, pending, loading, ready, rail>>

RecordArrives(c) ==
  /\ c = context /\ c \in Files \ loaded
  /\ loaded' = loaded \cup {c}
  /\ Replay(c, seeded, loaded \cup {c}, transcript)
  /\ UNCHANGED <<context, chat, runs, abort, pending, loading, processing, ready, rail, clicks>>

ConfigArrives ==
  /\ ~ready /\ ready' = TRUE
  /\ UNCHANGED <<context, chat, loaded, seeded, transcript, runs, abort, pending, loading,
                 processing, rail, clicks>>

-----------------------------------------------------------------------------
(* Starting a run. *)

History == {transcript[i].file : i \in DOMAIN transcript}

(* A run asked for before the runtime is known is refused at once. *)
NewRun(k, c, s, h) ==
  runs' = Append(Staying(context'),
                 [kind |-> k, file |-> c, session |-> s, aborted |-> FALSE, history |-> h,
                  stage |-> IF ready THEN "token" ELSE "refused", stayed |-> TRUE])
ThisRun == Len(runs) + 1

(* A message to the agent; the box is disabled while anything is loading. *)
SendLine ==
  /\ ready /\ ~loading /\ Len(runs) < MaxRuns
  /\ UNCHANGED <<context, chat, loaded, seeded, abort, processing, ready, rail, clicks>>
  /\ NewRun("send", context, SessionOf(context), History)
  /\ transcript' = Append(transcript, Saying("user", context, ThisRun))
  /\ pending' = 0 /\ loading' = TRUE

(* Mutant of ClaimReplay: the slot is left to the effect. *)
LeaveReplay(k) == seeded

(* The replay slot is claimed before the record can land. *)
ClaimReplay(k) == k

(* Process one case: the workspace focuses it in the same click, its own buttons are the
   only ones it disables, and the session is derived from the case. The history is what the
   transcript holds at the click. Without a runtime all this is done, and no run begins. *)
ProcessCase(k) ==
  /\ processing = 0 /\ Len(runs) < MaxRuns
  /\ context' = k
  /\ NewRun("process", k, <<"case", k>>, History)
  /\ LET said == Append(transcript, Saying("user", k, ThisRun))
     IN Replay(k, ClaimReplay(k), loaded, said)
  /\ pending' = 0 /\ loading' = ready /\ processing' = IF ready THEN ThisRun ELSE 0
  /\ rail' = IF ready THEN rail ELSE 0
  /\ UNCHANGED <<chat, loaded, abort, ready, clicks>>

(* The sign-in is done: the request is sent again, to the session now in context, which is
   not always the one it was made in. *)
ReplayRequest ==
  /\ pending # 0 /\ ~loading /\ Len(runs) < MaxRuns
  /\ UNCHANGED <<context, chat, loaded, seeded, transcript, abort, processing, ready, rail, clicks>>
  /\ NewRun("resume", runs[pending].file, SessionOf(context), runs[pending].history)
  /\ pending' = 0 /\ loading' = TRUE

-----------------------------------------------------------------------------
(* A run's stream. *)

Owned(r) == {i \in DOMAIN transcript : transcript[i].kind = "turn" /\ transcript[i].run = r}

(* spliceTurnIntoHistory: the turn's own messages, which are one here, leave their place for
   the end, whatever the transcript has become. *)
Others(r) == IF Owned(r) = {} THEN transcript
             ELSE RemoveAt(transcript, CHOOSE i \in Owned(r) : TRUE)
Spliced(r) == Append(Others(r), Saying("turn", runs[r].file, r))

(* The token is there: the placeholder is shown and Stop now reaches this run. *)
BeginRun(r) ==
  /\ runs[r].stage = "token"
  /\ runs' = [runs EXCEPT ![r].stage = "stream"]
  /\ transcript' = Spliced(r) /\ rail' = r /\ abort' = r
  /\ UNCHANGED <<context, chat, loaded, seeded, pending, loading, processing, ready, clicks>>

(* The page forgets its run when that is over; another run's page has its own. *)
Released(r) == IF processing = r THEN 0 ELSE processing

(* Mutant of Over: a stream that was stopped returns before the rail is reset. *)
OverUnlessStopped(r) ==
  /\ runs' = [runs EXCEPT ![r].stage = "over"]
  /\ rail' = (IF runs[r].aborted THEN r ELSE 0) /\ abort' = 0 /\ loading' = FALSE
  /\ processing' = Released(r)

(* What the caller does when the stream is over, however it ended. *)
Over(r) ==
  /\ runs' = [runs EXCEPT ![r].stage = "over"]
  /\ rail' = 0 /\ abort' = 0 /\ loading' = FALSE
  /\ processing' = Released(r)

(* No token: after a message the last line is overwritten, whatever it is by now, a
   Process run leaves a notice. *)
NoToken(r) ==
  /\ runs[r].stage = "token"
  /\ runs' = [runs EXCEPT ![r].stage = "refused"]
  /\ rail' = 0 /\ loading' = FALSE
  /\ abort' = IF runs[r].kind = "send" THEN 0 ELSE abort
  /\ processing' = Released(r)
  /\ transcript' = CASE runs[r].kind = "send" /\ transcript # <<>> ->
                          [transcript EXCEPT ![Len(transcript)].garbled = TRUE]
                     [] runs[r].kind = "process" ->
                          Append(transcript, Saying("notice", runs[r].file, r))
                     [] OTHER -> transcript
  /\ UNCHANGED <<context, chat, loaded, seeded, pending, ready, clicks>>

(* An event of the stream; a tool result may ask for a sign-in. *)
StreamEvent(r, signin) ==
  /\ runs[r].stage = "stream" /\ ~runs[r].aborted
  /\ transcript' = Spliced(r) /\ rail' = r
  /\ pending' = IF signin THEN r ELSE pending
  /\ UNCHANGED <<context, chat, loaded, seeded, runs, abort, loading, processing, ready, clicks>>

(* The stream ends, breaks, is refused or was stopped; a notice goes into the turn. *)
EndRun(r) ==
  /\ runs[r].stage = "stream"
  /\ transcript' = Spliced(r)
  /\ Over(r)
  /\ UNCHANGED <<context, chat, loaded, seeded, pending, ready, clicks>>

(* Stop aborts the run that abortRef names and asks the service to stop the session of the
   case in context. *)
StopRun ==
  /\ loading /\ Click
  /\ runs' = IF abort = 0 THEN runs ELSE [runs EXCEPT ![abort].aborted = TRUE]
  /\ abort' = 0 /\ pending' = 0
  /\ UNCHANGED <<context, chat, loaded, seeded, transcript, loading, processing, ready, rail>>

Clear ==
  /\ transcript # <<>> /\ Click
  /\ transcript' = <<>> /\ pending' = 0
  /\ runs' = [r \in DOMAIN runs |-> [runs[r] EXCEPT !.stayed = FALSE]]
  /\ chat' \in IF context = NoFile /\ Chats # {chat} THEN Chats \ {chat} ELSE {chat}
  /\ UNCHANGED <<context, loaded, seeded, abort, loading, processing, ready, rail>>

ChatNext ==
  \/ \E c \in Files \cup {NoFile}, leaves \in BOOLEAN : Navigate(c, leaves)
  \/ \E c \in Files : RecordArrives(c) \/ ProcessCase(c)
  \/ ConfigArrives \/ SendLine \/ ReplayRequest \/ StopRun \/ Clear
  \/ \E r \in DOMAIN runs : BeginRun(r) \/ NoToken(r) \/ EndRun(r)
  \/ \E r \in DOMAIN runs, signin \in BOOLEAN : StreamEvent(r, signin)

ChatSpec == ChatInit /\ [][ChatNext]_chatvars

-----------------------------------------------------------------------------
(* The rail, the Stop handle, the loading flag and the disabled buttons are set by one run
   and reset by another, or by a page that is left. Whatever of them says that something is
   going on has a live run behind it that will end it: the rail one that streams, Stop one
   that it can still stop, the buttons a Process run; the console is never left waiting for
   a run that is over. *)
Live(r) == r \in DOMAIN runs /\ runs[r].stage \in {"token", "stream"}
ControlsFollowRuns ==
  /\ rail # 0 => Live(rail) /\ runs[rail].stage = "stream"
  /\ abort # 0 => Live(abort) /\ runs[abort].stage = "stream" /\ ~runs[abort].aborted
  /\ loading => \E r \in DOMAIN runs : Live(r)
  /\ processing # 0 => Live(processing) /\ runs[processing].kind = "process"

(* The line that started a Process run, and its turn, stay in the transcript, the turn
   once, while its case stays in context: a record that lands meanwhile is not replayed
   over them. *)
TurnSurvives ==
  \A r \in DOMAIN runs : runs[r].kind = "process" /\ runs[r].stayed =>
    /\ \E i \in DOMAIN transcript : transcript[i].run = r /\ transcript[i].kind \in {"user", "notice"}
    /\ Cardinality(Owned(r)) = IF runs[r].stage \in {"token", "refused"} THEN 0 ELSE 1

(* "The transcript is already seeded from this case's agent_traces by the effect above"
   (useAgentChat.ts:457): what a Process run tells the agent of the conversation so far is
   about its case. *)
HistoryIsOfTheCase ==
  \A r \in DOMAIN runs : runs[r].kind = "process" => runs[r].history \subseteq {runs[r].file}
=============================================================================
