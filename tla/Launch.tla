------------------------------- MODULE Launch -------------------------------
(***************************************************************************)
(* The launcher: one command at a time, each a row of phases that stops at   *)
(* the first error. It deploys the stacks, rewrites one variable of every    *)
(* Lambda so that it starts cold and reads the new settings, ships the site, *)
(* stores SAP credentials and restarts their readers, publishes the          *)
(* knowledge base. Any AWS call may fail, the operator may decline or        *)
(* interrupt, and others edit Lambdas meanwhile.                             *)
(***************************************************************************)
EXTENDS Naturals, Sequences, FiniteSets

CONSTANTS
  AlwaysDeployed,  \* stacks every configuration has
  Optional,        \* stacks a configuration may have
  Enabled,         \* those this one has
  HomeOf,          \* the stack of each Lambda
  CredReaders,     \* the Lambdas that carry the SAP auth layer
  LocalDocs,       \* the documents of each corpus in this checkout
  StrayDocs,       \* what else its bucket may hold
  MaxCommands,     \* bound: commands started, source edits and edits by others
  MaxBadLuck       \* bound: calls that fail, and interrupts

FunctionNames == DOMAIN HomeOf
Corps == DOMAIN LocalDocs
Expected == AlwaysDeployed \cup Enabled

ASSUME LaunchAssumption ==
  /\ Enabled \subseteq Optional /\ AlwaysDeployed # {}
  /\ \A f \in FunctionNames : HomeOf[f] \in AlwaysDeployed \cup Optional
  /\ CredReaders \subseteq FunctionNames /\ {"", "next"} \cap FunctionNames = {}
  /\ MaxCommands \in Nat /\ MaxBadLuck \in Nat

VARIABLES
  source,    \* the checkout's version
  stacks,    \* status and version of each stack
  settings,  \* how often a deployment has rewritten the SSM parameters
  creds,     \* how often SAP credentials were stored; 0 is the placeholder
  lambdas,   \* each function's own variables, what a warm instance of it has read and, for
             \* the record, how often it was edited since it was deployed
  site,      \* the version of the site
  docs,      \* the objects in each corpus's bucket
  run,       \* the command in hand
  exit,      \* history: the command that last ended, if nothing happened since: exit
             \* code, what it skipped, who else wrote between its read and its write, what
             \* had lost its variables before
  work, luck \* what the bounds leave

lvars == <<source, stacks, settings, creds, lambdas, site, docs, run, exit, work, luck>>

Cold == [settings |-> 0, creds |-> 0]   \* nothing read yet; settings count from 1
Own(v, n) == [version |-> v, edits |-> n]  \* a version's variables, edited n times
Idle == [cmd |-> "none", plan |-> <<>>, todo |-> {}, name |-> "", env |-> Own(0, 0), code |-> 0,
         version |-> 0, skipped |-> {}, failed |-> {}, lost |-> {}, astray |-> {}]

LaunchInit ==
  /\ source = 1
  /\ stacks = [s \in AlwaysDeployed \cup Optional |-> [status |-> "not deployed", version |-> 0]]
  /\ settings = 1 /\ creds = 0
  /\ lambdas = [f \in FunctionNames |-> [own |-> Own(0, 0), warm |-> Cold, edited |-> 0]]
  /\ site = 0
  /\ docs = [c \in Corps |-> StrayDocs[c]]
  /\ run = Idle /\ exit = Idle
  /\ work = MaxCommands /\ luck = MaxBadLuck

Luck(ok) == (ok \/ luck > 0) /\ luck' = IF ok THEN luck ELSE luck - 1
Exit(r, code) == run' = Idle /\ exit' = [r EXCEPT !.code = code]
GoOn(r) == run' = r /\ exit' = exit
(* The phase is over: the next, or the end of the command. *)
NextPhase(r) == IF Tail(r.plan) = <<>> THEN Exit(r, r.code) ELSE GoOn([r EXCEPT !.plan = Tail(@)])
Phase(p) == run.plan # <<>> /\ Head(run.plan) = p
Quiet == UNCHANGED <<source, stacks, settings, creds, lambdas, site, docs, work>>

-----------------------------------------------------------------------------
(* status.collect and overall. *)

(* describe_stack: a stack that does not exist is no error. *)
DescribeStack(s) == stacks[s].status
Present == {s \in DOMAIN stacks : s \in AlwaysDeployed \/ DescribeStack(s) # "not deployed"}
Broken == {"ROLLBACK_COMPLETE", "ROLLBACK_FAILED", "UPDATE_FAILED"}
Statuses == {DescribeStack(s) : s \in Present}
Verdict ==
  IF Statuses \subseteq {"not deployed"} THEN "not started"
  ELSE IF "IN_PROGRESS" \in Statuses     THEN "in progress"
  ELSE IF Statuses \cap Broken # {}      THEN "failed"
  ELSE IF "not deployed" \in Statuses    THEN "partial"
  ELSE "complete"

-----------------------------------------------------------------------------
(* Commands. *)

(* The refresh sits between the stacks and the site. *)
Redeploy == <<"confirm", "stacks", "lambdas", "site">>
Plan(cmd) ==
  CASE cmd = "redeploy" -> Redeploy
    [] cmd = "guided"   -> Redeploy \o <<"sap", "kb">>
    [] cmd = "resume"   -> <<"resume">> \o Redeploy \o <<"sap", "kb">>
    [] cmd = "refresh"  -> <<"lambdas">>
    [] cmd = "sync-sap" -> <<"sap">>
    [] cmd = "sync-kb"  -> <<"kb">>
Commands == {"redeploy", "guided", "resume", "refresh", "sync-sap", "sync-kb"}

Start(cmd) ==
  /\ run = Idle /\ work > 0 /\ work' = work - 1
  /\ run' = [Idle EXCEPT !.cmd = cmd, !.plan = Plan(cmd)] /\ exit' = Idle
  /\ UNCHANGED <<source, stacks, settings, creds, lambdas, site, docs, luck>>

EditSource ==
  /\ work > 0 /\ work' = work - 1 /\ source' = source + 1
  /\ exit' = Idle
  /\ UNCHANGED <<stacks, settings, creds, lambdas, site, docs, run, luck>>

(* The variables a function would have had nobody written old ones back. *)
Deployed(f) == Own(stacks[HomeOf[f]].version, lambdas[f].edited)

(* What is in the checkout then is what is deployed. *)
Confirm ==
  /\ Phase("confirm")
  /\ NextPhase([run EXCEPT !.todo = Expected, !.version = source,
                            !.astray = {f \in FunctionNames : lambdas[f].own # Deployed(f)}])
  /\ Quiet /\ UNCHANGED luck

(* A failed check, a missing configuration, a "no", Ctrl-C; a stack stays under way. *)
Stop ==
  /\ run # Idle /\ luck > 0 /\ luck' = luck - 1
  /\ \/ stacks' = stacks
     \/ Phase("stacks") /\ \E s \in run.todo :
          stacks[s].status \notin Broken /\ stacks' = [stacks EXCEPT ![s].status = "IN_PROGRESS"]
  /\ Exit(run, 1)
  /\ UNCHANGED <<source, settings, creds, lambdas, site, docs, work>>

(* CloudFormation is asked, not the state file. What is complete is deployed again only if
   the operator says so, and the site likewise. *)
Resume(again, page) ==
  /\ Phase("resume")
  /\ CASE Verdict = "in progress" -> Exit([run EXCEPT !.cmd = "wait"], 0)
       [] Verdict = "complete" /\ ~again ->
            IF page THEN GoOn([run EXCEPT !.cmd = "site", !.plan = <<"site">>])
                    ELSE Exit([run EXCEPT !.cmd = "none"], 0)
       [] OTHER -> NextPhase(run)
  /\ Quiet /\ UNCHANGED luck

-----------------------------------------------------------------------------
(* infra.deploy: dependencies, bootstrap, then cdk deploy, one stack after the other; it
   waits for a stack that is under way. *)

(* A new version rewrites the parameters and the variables of the stack's functions. *)
StackGets(s, v) ==
  /\ stacks' = [stacks EXCEPT ![s] = [status |-> "COMPLETE", version |-> v]]
  /\ settings' = IF stacks[s].version = v THEN settings ELSE settings + 1
  /\ lambdas' = [f \in FunctionNames |-> IF HomeOf[f] = s /\ stacks[s].version # v
                                     THEN [own |-> Own(v, 0), warm |-> Cold, edited |-> 0]
                                     ELSE lambdas[f]]
StackFails(s) ==
  /\ stacks' = [stacks EXCEPT ![s].status = CASE stacks[s].version = 0 -> "ROLLBACK_COMPLETE"
                                              [] @ \in Broken          -> @
                                              [] OTHER -> "UPDATE_ROLLBACK_COMPLETE"]
  /\ UNCHANGED <<settings, lambdas>>

DeployOne(s, ok) ==
  /\ Phase("stacks") /\ s \in run.todo /\ stacks[s].status # "IN_PROGRESS"
  /\ IF stacks[s].status \in Broken
     THEN ~ok /\ UNCHANGED <<stacks, settings, lambdas, luck>>
     ELSE Luck(ok) /\ IF ok THEN StackGets(s, run.version) ELSE StackFails(s)
  /\ IF ok THEN LET r == [run EXCEPT !.todo = @ \ {s}]
                IN IF r.todo = {} THEN NextPhase(r) ELSE GoOn(r)
           ELSE Exit(run, 1)
  /\ UNCHANGED <<source, creds, site, docs, work>>

(* A deployment that was left alone ends by itself, with the version it was given. *)
StackSettles(s, v, ok) ==
  /\ stacks[s].status = "IN_PROGRESS"
  /\ Luck(ok) /\ IF ok THEN StackGets(s, v) ELSE StackFails(s)
  /\ exit' = Idle
  /\ UNCHANGED <<source, creds, site, docs, run, work>>

-----------------------------------------------------------------------------
(* refresh: list the functions, then for each read, write and wait. *)

Targets == IF Head(run.plan) = "readers" THEN CredReaders ELSE FunctionNames
Alive(f) == stacks[HomeOf[f]].version # 0

(* A list that cannot be had reads as empty, and nothing matching is no error. *)
ListFunctions(ok) ==
  /\ Phase("lambdas") \/ Phase("readers")
  /\ run.name = ""
  /\ Luck(ok)
  /\ LET names == {f \in Targets : ok /\ Alive(f)} IN
     IF names = {} THEN NextPhase([run EXCEPT !.skipped = FunctionNames])
     ELSE GoOn([run EXCEPT !.todo = names, !.name = "next"])
  /\ Quiet

Bounced(r) == IF r.todo = {} THEN NextPhase([r EXCEPT !.name = ""]) ELSE GoOn([r EXCEPT !.name = "next"])

(* Mutant of ReadFailed: the function counts as one without variables. *)
ReadAsEmpty(f) == GoOn([run EXCEPT !.name = f, !.env = Own(0, 0), !.todo = @ \ {f}])

(* A function whose environment cannot be read is left alone. *)
ReadFailed(f) == Bounced([run EXCEPT !.skipped = @ \cup {f}, !.todo = @ \ {f}])

ReadEnv(f, ok) ==
  /\ run.name = "next" /\ f \in run.todo
  /\ Luck(ok)
  /\ IF ok THEN GoOn([run EXCEPT !.name = f, !.env = lambdas[f].own, !.todo = @ \ {f}])
           ELSE ReadFailed(f)
  /\ Quiet

(* The whole map is written back; a write or a wait that fails is reported at the end,
   by a command that refreshes, not by one that stores credentials. *)
WriteEnv(f, written, settled) ==
  /\ run.name = f
  /\ Luck(written /\ settled) /\ (settled => written)
  /\ lambdas' = IF written THEN [lambdas EXCEPT ![f].own = run.env, ![f].warm = Cold] ELSE lambdas
  /\ Bounced(IF written /\ settled THEN run
             ELSE [run EXCEPT !.failed = @ \cup {f}, !.code = IF Phase("lambdas") THEN 2 ELSE @])
  /\ UNCHANGED <<source, stacks, settings, creds, site, docs, work>>

(* An instance starts, or one that is warm serves on. *)
Invoke(f) ==
  /\ Alive(f) /\ lambdas[f].warm = Cold
  /\ lambdas' = [lambdas EXCEPT ![f].warm = [settings |-> settings, creds |-> creds]]
  /\ UNCHANGED <<source, stacks, settings, creds, site, docs, run, exit, work, luck>>

(* Somebody edits a function's variables in the console. *)
EditLambda(f) ==
  /\ Alive(f) /\ work > 0 /\ work' = work - 1
  /\ lambdas' = [lambdas EXCEPT ![f].own.edits = @ + 1, ![f].edited = @ + 1,
                                    ![f].warm = Cold]
  /\ run' = IF run.name = f THEN [run EXCEPT !.lost = @ \cup {f}] ELSE run
  /\ exit' = Idle
  /\ UNCHANGED <<source, stacks, settings, creds, site, docs, luck>>

-----------------------------------------------------------------------------
(* The site needs the outputs of its stack. *)
DeploySite(ok) ==
  /\ Phase("site")
  /\ Luck(ok)
  /\ ok => \A s \in AlwaysDeployed : stacks[s].version # 0
  /\ site' = IF ok THEN source ELSE site
  /\ IF ok THEN NextPhase(run) ELSE Exit(run, 1)
  /\ UNCHANGED <<source, stacks, settings, creds, lambdas, docs, work>>

(* sync_sap: what is set stays unless forced; new credentials restart their readers. An
   operator may decline the phase within the guided flow. *)
SyncSap(ok, offered, force, changed) ==
  /\ Phase("sap")
  /\ offered \/ run.cmd # "sync-sap"
  /\ Luck(ok)
  /\ LET stored == offered /\ ok /\ (creds = 0 \/ force)
     IN /\ creds' = IF stored /\ changed THEN creds + 1 ELSE creds
        /\ CASE ~offered -> ok /\ NextPhase(run)
             [] offered /\ ~ok -> Exit(run, 1)
             [] stored /\ (changed \/ force) -> GoOn([run EXCEPT !.plan = <<"readers">> \o Tail(@)])
             [] OTHER -> NextPhase(run)
  /\ UNCHANGED <<source, stacks, settings, lambdas, site, docs, work>>

(* knowledge.run: each corpus is uploaded, what has no local counterpart deleted only if
   the operator says so. The guided flow drops the code, but not an error that is raised:
   no role to assume. *)
PublishDocs(delete, ok, raised) ==
  /\ Phase("kb") /\ ~(ok /\ raised)
  /\ \E served \in IF ok THEN {Corps} ELSE IF raised THEN {{}} ELSE SUBSET Corps :
       docs' = [c \in Corps |-> IF c \notin served THEN docs[c]
                                ELSE IF delete THEN LocalDocs[c] ELSE docs[c] \cup LocalDocs[c]]
  /\ Luck(ok)
  /\ IF ok \/ (run.cmd # "sync-kb" /\ ~raised) THEN NextPhase(run) ELSE Exit(run, 2)
  /\ UNCHANGED <<source, stacks, settings, creds, lambdas, site, work>>

LaunchNext ==
  \/ \E c \in Commands : Start(c)
  \/ EditSource \/ Stop \/ Confirm
  \/ \E again, page \in BOOLEAN : Resume(again, page)
  \/ \E s \in DOMAIN stacks, ok \in BOOLEAN :
       DeployOne(s, ok) \/ \E v \in 1..source : StackSettles(s, v, ok)
  \/ \E ok \in BOOLEAN : ListFunctions(ok) \/ DeploySite(ok)
  \/ \E f \in FunctionNames, ok \in BOOLEAN : ReadEnv(f, ok)
  \/ \E f \in FunctionNames, written, settled \in BOOLEAN : WriteEnv(f, written, settled)
  \/ \E f \in FunctionNames : Invoke(f) \/ EditLambda(f)
  \/ \E ok, offered, force, changed \in BOOLEAN : SyncSap(ok, offered, force, changed)
  \/ \E delete, ok, raised \in BOOLEAN : PublishDocs(delete, ok, raised)

LaunchSpec == LaunchInit /\ [][LaunchNext]_lvars

-----------------------------------------------------------------------------
(* When a deployment exits with 0, everything it was to deploy is in force together: every
   stack of the configuration has the confirmed version, the site was built from it or a
   later edit, and no function whose environment it could read serves settings or
   credentials older than it deployed or has lost variables of its own. A function it skipped,
   or whose listing failed, is not covered: the code reports neither. Nor is one that an
   earlier refresh had given old variables back, having read them before a stack under way
   settled: a stack that has its version already is not deployed again. *)
ExitZeroIsInForce ==
  exit.cmd \in {"redeploy", "guided", "resume"} /\ exit.code = 0 =>
    /\ \A s \in Expected : stacks[s] = [status |-> "COMPLETE", version |-> exit.version]
    /\ site >= exit.version
    /\ \A f \in {g \in FunctionNames : Alive(g)} \ exit.skipped :
         /\ lambdas[f].warm # Cold => lambdas[f].warm.settings = settings
         /\ lambdas[f].warm # Cold /\ f \in CredReaders \ exit.failed => lambdas[f].warm.creds = creds
         /\ f \notin exit.lost \cup exit.astray => lambdas[f].own = Deployed(f)
=============================================================================
