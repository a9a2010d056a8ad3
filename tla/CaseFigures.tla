---------------------------- MODULE CaseFigures ----------------------------
(***************************************************************************)
(* What the console says the agent did. A run writes the case's status while *)
(* it works and its trace when it is over, in two requests of which only the *)
(* first sets updated_at, as an edit of any other field does; its invoker     *)
(* may write the status once more. Three readers put the two together: the   *)
(* autonomy funnel (autonomyFunnel.ts), the handover's digest (digest.ts),   *)
(* and the observability API, which finds its cases by updated_at and        *)
(* answers with their traces. Its metrics are those the runs sent to          *)
(* CloudWatch, and only if there are none of the last day what the traces    *)
(* say. Fetching is left out: a scan reads each row in one piece, and every   *)
(* figure is a sum over rows.                                                *)
(***************************************************************************)
EXTENDS Naturals, Sequences, FiniteSets, FiniteSetsExt

CONSTANTS
  Items,        \* cases of the table
  Reports,      \* statuses the agent may write
  PageLimit,    \* traces in one answer of the API (50)
  Day,          \* moments in a day
  MaxInvocations, MaxMoments, MaxLosses   \* bounds: runs, the clock, lost writes

ASSUME FiguresAssumption ==
  {PageLimit, Day} \subseteq Nat \ {0} /\ {MaxInvocations, MaxMoments, MaxLosses} \subseteq Nat

Invocations == 1..MaxInvocations

VARIABLES
  board,    \* the row of each case: status, updated (updated_at), log (agent_traces), and,
            \* for the record, the run that wrote the status last
  points,   \* datapoints in CloudWatch: the run and when it ended
  session,  \* the runs: case, whether the poller triggered it, stage, and, for the record,
            \* whether it wrote a status, filed its trace, met another run on the case
  moment,   \* the time
  losses    \* writes that may still be lost

zvars == <<board, points, session, moment, losses>>

NoRun == [item |-> "none", poller |-> FALSE, stage |-> "none",
          wrote |-> FALSE, filed |-> FALSE, crossed |-> FALSE]

FiguresInit ==
  /\ board = [c \in Items |-> [status |-> "detected", updated |-> 0, log |-> <<>>, by |-> 0]]
  /\ points = {}
  /\ session = [i \in Invocations |-> NoRun]
  /\ moment = 0
  /\ losses = MaxLosses

Lose(n) == losses >= n /\ losses' = losses - n

-----------------------------------------------------------------------------
(* A run, or its invoker, writes a status; the moment becomes the row's updated_at. *)
Writes(i, st) ==
  board' = [board EXCEPT ![session'[i].item] = [@ EXCEPT !.status = st, !.updated = moment, !.by = i]]

(* The next run begins. Whoever is on the case already is from now on not alone. *)
Begins(i, c, poller, stage, wrote) ==
  LET others == {j \in Invocations : session[j].item = c /\ session[j].stage \notin {"none", "over"}}
  IN /\ session[i].stage = "none" /\ \A j \in 1..(i - 1) : session[j].stage # "none"
     /\ session' = [j \in Invocations |->
          IF j = i THEN [NoRun EXCEPT !.item = c, !.poller = poller, !.stage = stage,
                                      !.wrote = wrote, !.crossed = others # {}]
          ELSE [session[j] EXCEPT !.crossed = @ \/ j \in others]]
     /\ UNCHANGED <<moment, points>>

(* A run from the queue: its invoker writes processing, or fails to. *)
BeginQueued(i, c, poller) ==
  \/ Begins(i, c, poller, "queued", TRUE) /\ Writes(i, "processing") /\ UNCHANGED losses
  \/ Begins(i, c, poller, "queued", FALSE) /\ Lose(1) /\ UNCHANGED board

(* A chat has no invoker. *)
BeginChat(i, c) == Begins(i, c, FALSE, "chat", FALSE) /\ UNCHANGED <<board, losses>>

(* update_case_state with a status. *)
Reporting == [queued |-> "working", working |-> "working", chat |-> "talking", talking |-> "talking"]
ReportStatus(i, st) ==
  /\ session[i].stage \in DOMAIN Reporting
  /\ session' = [session EXCEPT ![i].wrote = TRUE, ![i].stage = Reporting[@]]
  /\ Writes(i, st)
  /\ UNCHANGED <<moment, points, losses>>

(* update_case_state that names no status: a field edit sets updated_at all the same. *)
EditCase(i) ==
  /\ session[i].stage \in DOMAIN Reporting
  /\ session' = [session EXCEPT ![i].stage = Reporting[@]]
  /\ board' = [board EXCEPT ![session[i].item].updated = moment]
  /\ UNCHANGED <<moment, points, losses>>

(* MetricsHook.on_end: a datapoint of the run, best-effort, so that it may be lost as well as
   n writes beside it. *)
Emitted(i) == points \cup {[run |-> i, at |-> moment]}
MayEmit(i, n) ==
  \/ points' = Emitted(i) /\ Lose(n)
  \/ UNCHANGED points /\ Lose(n + 1)

(* The stage of a run that is over: its invoker, if it has one, is told how it ended. *)
Afterwards(i, ok) ==
  IF session[i].stage \in {"chat", "talking"} THEN "over" ELSE IF ok THEN "told" ELSE "failed"

(* A run that fails before there is an agent has a datapoint as well, and no trace. If it
   was for its SOP it sends the case to review itself. *)
StopEarly(i) ==
  /\ session[i].stage \in {"queued", "chat"}
  /\ MayEmit(i, 0)
  /\ \/ /\ session' = [session EXCEPT ![i].stage = Afterwards(i, FALSE), ![i].wrote = TRUE]
        /\ Writes(i, "manual_review_required")
     \/ session' = [session EXCEPT ![i].stage = Afterwards(i, FALSE)] /\ UNCHANGED board
  /\ UNCHANGED moment

(* _save_trace_to_ddb: the trace is appended, which leaves updated_at as it is, or lost. The
   requests one by one, and the cap, are TraceStore's. Saving takes time: no two traces bear
   the same moment. *)
FileRun(i, ok) ==
  LET trace == [run |-> i, poller |-> session[i].poller, at |-> moment, ok |-> ok]
      next  == Afterwards(i, ok)
  IN /\ session[i].stage \in DOMAIN Reporting /\ moment < MaxMoments
     /\ \/ /\ board' = [board EXCEPT ![session[i].item].log = Append(@, trace)]
           /\ session' = [session EXCEPT ![i].stage = next, ![i].filed = TRUE]
           /\ moment' = moment + 1 /\ MayEmit(i, 0)
        \/ /\ MayEmit(i, 1)
           /\ session' = [session EXCEPT ![i].stage = next]
           /\ UNCHANGED <<board, moment>>

(* The invoker, told how the run ended. The case of a run that finished goes to review unless
   its status is safe, that of one that failed for the last time goes there whatever it says;
   or the message goes back, or the invoker is gone. *)
SafeOutcomes == {"complete", "sap_updated", "awaiting_human_input", "manual_review_required"}
SettleRun(i) ==
  /\ session[i].stage \in {"told", "failed"}
  /\ session' = [session EXCEPT ![i].stage = "over"]
  /\ \/ /\ session[i].stage = "told" => board[session[i].item].status \notin SafeOutcomes
        /\ Writes(i, "manual_review_required")
     \/ UNCHANGED board
  /\ UNCHANGED <<moment, points, losses>>

TimePasses ==
  moment < MaxMoments /\ moment' = moment + 1 /\ UNCHANGED <<board, points, session, losses>>

FiguresNext ==
  \/ \E i \in Invocations, c \in Items :
       (\E p \in BOOLEAN : BeginQueued(i, c, p)) \/ BeginChat(i, c)
  \/ \E i \in Invocations :
       \/ \E st \in Reports : ReportStatus(i, st)
       \/ EditCase(i)
       \/ StopEarly(i)
       \/ \E ok \in BOOLEAN : FileRun(i, ok)
       \/ SettleRun(i)
  \/ TimePasses

FiguresSpec == FiguresInit /\ [][FiguresNext]_zvars

-----------------------------------------------------------------------------
(* autonomyFunnel. The newest trace is the last in the list of those no other is newer
   than, and counts whatever its age; the window is for the poller's own. *)
Log(c) == board[c].log
Newest(c) == {n \in DOMAIN Log(c) : \A k \in DOMAIN Log(c) : Log(c)[k].at <= Log(c)[n].at}
PollerRunSince(c, cutoff) == \E n \in DOMAIN Log(c) : Log(c)[n].poller /\ Log(c)[n].at >= cutoff

(* Mutant of Started: a case stays the agent's when somebody else has run on it since. *)
StartedOnce(c, cutoff) == PollerRunSince(c, cutoff)

Started(c, cutoff) == PollerRunSince(c, cutoff) /\ Log(c)[Max(Newest(c))].poller

Landed    == {"sap_updated", "complete"}
Escalated == {"awaiting_human_input", "manual_review_required"}

FunnelCounts(cutoff, statuses) == {c \in Items : Started(c, cutoff) /\ board[c].status \in statuses}

(* digest. Cases are in the window by updated_at; the last trace is the first in the list
   of those no other is newer than. *)
InWindow(cutoff) == {c \in Items : board[c].updated >= cutoff}

(* Mutant of LastTrace: the list is taken to begin with the newest. *)
HeadTrace(c) == Log(c)[1]

LastTrace(c) == Log(c)[Min(Newest(c))]

Posted(cutoff)  == {c \in InWindow(cutoff) :
                      board[c].status \in Landed /\ Log(c) # <<>> /\ LastTrace(c).poller}
Waiting(cutoff) == {c \in InWindow(cutoff) : board[c].status = "awaiting_human_input"}
Blocked(cutoff) == {c \in InWindow(cutoff) : board[c].status = "manual_review_required"}

(* The observability API. Its scan filters by updated_at as well. GET /traces answers with
   the newest PageLimit traces of the cases found, whatever their age; the metrics derived
   from traces count, hour by hour, those within the window and the complete ones among them. *)
Found(cutoff) == UNION {{[of |-> c, trace |-> Log(c)[n]] : n \in DOMAIN Log(c)} : c \in InWindow(cutoff)}
FirstPage(cutoff) ==
  {f \in Found(cutoff) : Cardinality({g \in Found(cutoff) : g.trace.at > f.trace.at}) < PageLimit}

Hour(t) == t \div 2
Series(cutoff) ==
  [h \in {Hour(t) : t \in 0..MaxMoments} |->
     LET bucket == {f \in Found(cutoff) : f.trace.at >= cutoff /\ Hour(f.trace.at) = h}
     IN [cases |-> Cardinality(bucket), successes |-> Cardinality({f \in bucket : f.trace.ok})]]

(* GET /metrics. CloudWatch answers with a count for each period that has datapoints, summed
   over whatever dimensions they bear. *)
GetMetric(since, period) ==
  LET of == {d \in points : d.at >= since}
  IN [b \in {d.at \div period : d \in of} |-> Cardinality({d \in of : d.at \div period = b})]

(* The summary looks back a day whatever the window, and takes the first period of the two
   the day may lie in. *)
DayAgo == IF moment > Day THEN moment - Day ELSE 0
DayTotal ==
  LET days == GetMetric(DayAgo, Day) IN IF days = <<>> THEN 0 ELSE days[Min(DOMAIN days)]

(* The total, and the chart of cases: from the traces if the day has no datapoint, the chart
   only if the window has none either. *)
HandleMetrics(cutoff) ==
  LET filed == {f \in Found(cutoff) : f.trace.at >= cutoff}
      chart == GetMetric(cutoff, 2)
      hours == {h \in DOMAIN Series(cutoff) : Series(cutoff)[h].cases > 0}
  IN IF DayTotal > 0 \/ filed = {} THEN [total |-> DayTotal, traced |-> FALSE, chart |-> chart]
     ELSE [total |-> Cardinality(filed), traced |-> TRUE,
           chart |-> IF chart # <<>> THEN chart ELSE [h \in hours |-> Series(cutoff)[h].cases]]

-----------------------------------------------------------------------------
(* A case is uncontested if the run that wrote its status last was alone on it while it
   ran and has its trace in the list, and no run since filed a trace without having
   written a status. *)
Uncontested(c) ==
  LET w == board[c].by IN
  /\ w # 0
  /\ session[w].filed /\ ~session[w].crossed
  /\ \A j \in Invocations : j > w /\ session[j].item = c /\ session[j].filed => session[j].wrote

(* autonomyFunnel.ts credits a status, which is the case's, to a trigger, which is a
   trace's. On an uncontested case that is right both ways, whatever the window: the case
   is in the funnel if, and only if, the run that put it where it stands was the poller's
   and was filed in the window. *)
FunnelFollowsTheAgent ==
  \A c \in Items : Uncontested(c) =>
    \A cutoff \in 0..MaxMoments :
      Started(c, cutoff) <=>
        /\ session[board[c].by].poller
        /\ \E n \in DOMAIN Log(c) : Log(c)[n].run = board[c].by /\ Log(c)[n].at >= cutoff

(* The three readers use different times and different traces, and are shown side by side.
   They differ by nothing else, whoever ran on the case and whatever was lost: of two
   figures for the same window, the handover counts a case as posted and the funnel as
   landed together, unless the case was touched in the window and last run before it, or
   run in it and last touched before; the run behind a posted case of the window is listed
   unless a full page is newer, and each hour counts no fewer runs than such cases filed in
   it. The dashboard is never empty beside one: its total counts something, every one of
   them if it is made from the traces, and so does its chart if the window is a day or
   more, lost datapoints or not. *)
PostedByRun(cutoff) == {c \in Posted(cutoff) : LastTrace(c).at >= cutoff}

ReadersAgree ==
  \A cutoff \in 0..MaxMoments :
    /\ PostedByRun(cutoff) = FunnelCounts(cutoff, Landed) \cap InWindow(cutoff)
    /\ \A c \in PostedByRun(cutoff) :
         LET f == [of |-> c, trace |-> LastTrace(c)]
             h == Hour(f.trace.at)
             shown == HandleMetrics(cutoff)
         IN /\ \/ f \in FirstPage(cutoff)
               \/ Cardinality({g \in FirstPage(cutoff) : g.trace.at > f.trace.at}) >= PageLimit
            /\ Series(cutoff)[h].cases >=
                 Cardinality({d \in PostedByRun(cutoff) : Hour(LastTrace(d).at) = h})
            /\ shown.total >= IF shown.traced THEN Cardinality(PostedByRun(cutoff)) ELSE 1
            /\ cutoff <= DayAgo => shown.chart # <<>>
=============================================================================
