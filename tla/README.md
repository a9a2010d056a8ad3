# Verification of the SAP exception automation

TLA+ specifications of the parts of this repository where an interleaving, a lost
write, a retry or a stale value decides whether an exception case is handled once,
handled at all, and recorded truthfully. Every definition is translated from the source;
`PROJECT.json` maps each one to the lines it stands for. TLC checks the modules on small
instances; TLAPS proves all safety properties the passing runs check, not the liveness, for
every value of the constants (section 4 says which and how).

    tlc -workers 2 -config MCCasePipeline_deliver.cfg MCCasePipeline.tla
    tlc -workers 2 -config MCPlatform.cfg MCPlatform.tla
    tlapm CasePipeline_proofs.tla      # and the other modules *_proofs

## 1. The system and its parts

SAP documents with exceptions become *cases*. A case is one row of a DynamoDB table;
an agent works on it with tools, people answer its questions through tickets, and the
result is written to SAP. Nothing in the system holds a lock. Order comes from one
SQS FIFO queue, whose message group is the case id, and from conditions on single
DynamoDB requests.

| Part | State it keeps | Operations | Talks to | Hard behaviour | Correct when |
|---|---|---|---|---|---|
| Cases table | `status`, `inquiry_sent_at`, `agent_traces`, `ticket_id` per case | five independent writers, one request each | all | unconditioned writes, writers that do not know of each other | a status means what it says; audit fields agree with it |
| OData poller (`lambdas/odata_poller`) | the container's cached trigger mode | read the feed, map, check, conditional put, enqueue | SAP, table, SSM, queue | overlapping polls, weak existence check, crash between put and send, unusable lines | each detection is handed over at most once, never resets a case, and none is missed |
| Batch sweeper (`lambdas/batch_runner`) | none | query stale `detected` cases, enqueue each | table, SSM, queue | its age floor is the only guard against a second run | a missed handoff is recovered |
| Agent queue (`cdk/lib/backend-stack.ts`) | FIFO groups, receive counts, deduplication window, dead-letter queue | send, receive, delete, redrive | all producers, invoker | at-least-once, a failing head blocks its group | every message is processed or redriven |
| Agent invoker (`lambdas/agent_invoker`) | the delivery in hand | mark processing, stream the run, verify the outcome, acknowledge or give back | table, agent runtime | timeouts with the run still alive, swallowed write errors, crash at any step | no case is left in `processing` with nobody to come back; an acknowledgement means an outcome |
| Agent runtime (`agentcore/agent/basic_agent.py`) | queue of events, segments, evidence, terminal event of the run | set up or refuse, stream events, keep alive, flag for review, save the trace | tools, table, its consumer | producer and consumer, exceptions after the terminal event, turn limit, a peer that leaves | one terminal event; wire, trace and console tell one story |
| Evidence (`utils/evidence.py`, `utils/segments.py`) | a record per tool call | extract, verify citations, merge, cap | runtime, console | what had been shown by when | what is cited was shown |
| SOP and skill routing (`utils/skill_router.py`, `gateway/tools/knowledge_base`) | none | resolve the SOP, inject it, reload it | S3, config table | absent and unreadable look alike; two programs with one rule | a run without a SOP had none to read |
| Configuration overrides (`lambdas/config_api`, `config_overrides.py`) | override rows | validate, write in a loop, read | config table | writes are not a transaction | no half-applied edit; a value told is a value held |
| Case tool (`gateway/tools/case_management`) | none | `update_case_state` | table | no existence condition, stamp kept or removed by status | a wait is aged from its own inquiry |
| Agent knowledge (`lambdas/exemplar_builder`, `gateway/tools/agent_knowledge`) | precedent rows, exemplar documents, vendor graph | nightly build, `get_precedent`, `check_vendor_risk` | table, Aurora, S3 | ratings that change after a build; a SQL query with a reference traversal | a rejected case does not guide; the two agree |
| Autonomy API (`lambdas/autonomy_api`) | the trigger-mode parameter | flip, enqueue one case | SSM, queue | cached readers, ids as the caller spells them | the switch gates unattended work |
| Tickets API and tool (`lambdas/demo_tickets`, `gateway/tools/demo_ticket_management`) | ticket status, type, case, comments | create, update, answer | tickets and cases tables, queue | read, write, send as three calls | the agent is resumed on what was decided and recorded |
| Trace store (`_save_trace_to_ddb`, `cap_traces`, `POST /traces`) | `agent_traces`, `traces_dropped` | append, cap and write back, console append | table | read-modify-write without a version | the newest traces are kept, the rest counted |
| Webhook processor and case identity (`lambdas/webhook_processor`, `case_key.py`) | none | authenticate, find the case, enqueue | queue, invoker | free text with several hints, old spellings | each reply reaches its case |
| Console chat (`useAgentChat.ts`, `agentRuntimeService.ts`) | transcript, abort handle, replay slot | send, process, stop, clear, replay | runtime, APIs | runs that wait while the address bar moves; a byte stream cut anywhere | a run reaches its case, its turn survives |
| Console reducer (`aguiReducer.ts`) | live tool calls | reduce events | runtime | partial streams | live and reloaded views agree |
| Write review (`writeDiff.ts`, `evidence.py`) | none | before and after of a write, verification of a proposal | traces | excerpts, missing keys, others' changes | a before stood there; a verified value was read there |
| Custom resources (`lambdas/*_cr`) | policy engine, OAuth provider, packaged code | create, update, delete | CloudFormation, AgentCore | any call may fail, rollback is an update | a stack at rest is in force |
| Launcher (`launcher`) | the command in hand | deploy, resume, refresh, ship the site, sync credentials, publish documents | AWS | failures and edits between read and write | exit code 0 means in force |
| Authentication profiles (`auth_profiles.py`, `run_emit.py`, `cdk/bin/app.ts`) | `.auth-profile-resolved.json` | resolve, synthesise, plan, export | CDK, Terraform, console | absence is a value; files left behind | what stands is what was selected |
| Deployment scripts (`scripts/deploy`, `terraform/scripts`) | staging bucket, Amplify jobs, temporary role and project | deploy the site, deploy through CodeBuild | AWS | two deployers, partial clean-up | done means served; nothing is left without a reason |
| Figures of the console (`autonomyFunnel.ts`, `digest.ts`, `lambdas/observability_api`) | none | derive from status, traces and their times | cases table | status and trace are written apart, by whoever is on the case | a figure credits the run that wrote the status; the readers agree |
| Feedback API, notification, Cedar policies, other views, Terraform modules, evaluations | none, or one put | read, forward, declare | | low | not modelled, see section 6 |

How they interact: the poller, the sweeper, the autonomy API, the enqueue route, ticket
answers and inbound mail all send to the queue; the invoker is its only consumer. The
invoker, the case tool, the agent runtime, the poller and the ticket tool write the same
row. Interactive chat runs the same agent without the queue, so it writes rows that a
queued run may be working on. The invoker and the console consume the same kind of
stream; the trace filed by the runtime is what the console replays and the reviewer reads.

`PROJECT.json` lists the hazards at the lines where they bite, including those no
property covers, with the reason.

## 2. Modules

| Module | Models |
|---|---|
| `CaseRow` | one row and each writer's request as a function on it: `PutNew` (poller), `SetStatus` (invoker and runtime), `AgentUpdate` (case tool) |
| `CasePipeline` | poller, sweeper, people, queue and invoker over a table of `CaseRow`s |
| `Tickets` | tickets, answers in progress, the case's link |
| `TraceStore` | the trace list of one case and the runs that save to it |
| `AgentRequest` | what a request resolves to before the model runs |
| `Evidence` | the record of one tool call, its citation, its permission |
| `EventFolds` | the four readers of a run's events: segments, console, invoker, replay |
| `AgentStream` | one request, from the first check to the saved trace; extends the three above |
| `AgentRun` | abstract: what a run promises to those who wait for it and those who read about it |
| `Guidance` | overrides, SOP corpus, prompt and reload |
| `Precedents`, `VendorRisk` | the exemplar build with `get_precedent`; `check_vendor_risk` |
| `Intake`, `SapFeed` | webhook correlation and case identity; a poll over the records SAP answers with |
| `WriteReview`, `ChatClient`, `SseReader` | the console: review of writes, conversation, byte stream |
| `Provision`, `Launch`, `AuthProfile`, `SiteDeploy`, `CodeBuild` | deployment: custom resources, launcher, profiles, the console's site, the temporary project |
| `CaseFigures` | what the autonomy funnel, the handover and the observability API say of the agent's runs |
| `Platform` | the parts that share no state with the case pipeline, side by side |
| `MCCasePipeline`, `MCTickets`, `MCTraceStore`, `MCAgentStream`, `MCPlatform` | the instances TLC checks |
| `CasePipeline_proofs`, `Tickets_proofs`, `TraceStore_proofs`, `AgentStream_proofs` | the theorems about these modules |
| `Knowledge_proofs`, `Casework_proofs` | those about `Guidance`, `VendorRisk`; about `Intake`, `SapFeed`, `Precedents`, `WriteReview` |
| `Console_proofs`, `Deployment_proofs` | those about `ChatClient`, `CaseFigures`, `SseReader`; about `CodeBuild`, `AuthProfile`, `SiteDeploy`, `Provision`, `Launch` |

Operators whose comment starts with *Mutant of* are broken variants of the code, each
of which one property must catch; they are not part of any specification.

### CasePipeline

Each request to DynamoDB, SQS or SSM is a step. A delivery of the head of group `g` goes
through the stages of the handler: `received` (handler entered), `running` (`processing`
written or the write lost), then how the stream ended: `finished` (RUN_FINISHED),
`stopped` (a deliberate stop code), `failed` (the except clause); `unverified` (the
outcome was read and is not terminal), `acking` (the handler returned `{}`).

* `Verify` / `VerifyFails` / `RouteToReview` are `_verify_business_outcome`: the read and
  the write are separate steps, so anybody may write between them.
* `WriteStatus` is `_update_status` succeeding, `LoseWrite` its swallowed exception;
  `StopToReview` acknowledges either way because the handler ignores the result.
* `GiveBack` is the except clause: on the last receive it writes the review, and the
  batch failure leaves the message in the queue. `Redrive` is the queue's `maxReceiveCount`.
* `Abandon` is the deadline or a crash while the agent goes on: the run stays in `loose`
  and may update the case at any later time.
* `Send` has the content deduplication of the queue: a body seen within the window is
  dropped even if the first message has been processed. Bodies of the kinds `poller`,
  `batch` and `manual` depend on the case alone; `reply` stands for everything that
  differs each time (ticket answers, mail, another user's button).
* `PollCheck`, `PollPut`, `PollEnqueue` are the body of the poller's loop for one item.
  `ModeSeen` is the container's cache.

`hurt` is a history variable: the cases whose row does not hold the pipeline's last word,
because a run no delivery waits for has written it since, because the last status write was
lost, or because the invoker died on the last receive. A later status write of the pipeline,
by the invoker or by the run it is streaming, takes the case out again. For those in it the
code has nothing left that could answer, and the properties about settling say so by name.

Abstractions. `inquiry_sent_at` has four values: none, the start of the current wait, a
later moment of it, or a moment of an earlier wait. A `stale` case is one older than the
sweep's age floor. The index behind the sweep is taken to be up to date; a sweep's reading
of the mode and its query are one step, as nothing the properties tell apart can happen
between them. Messages do not expire (seven days). Updates that name no status are left
out here: they touch neither field of the row (`CaseFigures` has them,
for `updated_at`). An id that has no row may be updated into
existence (`upsert`), which no sweep finds because it has no `created_at`.

### Tickets

A request for `POST /tickets/{id}/action` is `accepted` after the consistent read and all
the checks, `recorded` after the write, and gone after the send. `Update` is `PUT`, of any
valid status over any other. `AgentOpens`, `AgentLinks`, `LinkFails` are the tool's two
writes. `overtaken` is a history variable: the requests whose ticket somebody wrote after
they had read it. Comments are the answers only; `PUT`s that change no status are left out.
`sent` is what was handed to the queue, before its deduplication.

### TraceStore

A run's save is three requests: make `cost_summary`, append (whose response carries the
whole list), and write back if the list is over the cap. Without `cost_summary` the append
itself fails, so `AppendTrace` needs it and `SaveFails` is free then. The cost counters
are left out. The console's `POST` appends and never caps. `history`, `overtaken` and
`raced` are history variables.

### AgentStream

`event_generator` of `basic_agent.py`. `SetUp` runs the checks in the order in which they
raise (`AgentRequest`): workload token, bearer, skill, SOP, topology, memory. The adapter
(producer) puts events in a queue, at most `MaxLag` ahead; the hooks write statuses and
evidence when the producer gets to a call, the consumer folds the events into segments and
sends them. `Closing` is the terminal bookkeeping: the turn limit rewrites RUN_FINISHED,
the except clauses add an error only if none was sent. The peer may leave at any yield.
Whichever way the run ends the trace is filed once, or the save fails. `EventFolds` holds
what each reader makes of the events: the runtime's segments, the console's calls
(`aguiReducer.ts`), the invoker's `Drain`, and the replay from segments.

`AgentRun` is the abstract specification: one verdict, kept; one filing, after the verdict;
`complete` only for a run that finished or that nobody was left to be told of. `Promise` in
`AgentStream` is the refinement mapping: the verdict is what `Drain` says of the wire, or
`cut` once the peer has left. Heartbeats and the wording of messages are left out, text of
any length is one event, and a quotable span is its number of words, sentence ends and
characters and what it says.

### Guidance

The SOP of one skill and the values it cites. `PutConfig` validates a whole request, then
`WriteOne` writes one key at a time and may fail. A read is a row of steps: `Fetch` tries
one candidate object after the other (the configured key, then `.txt`, `.md`), `Substitute`
queries the overrides and fills them in. A run reads twice, in its prompt and later through
`load_sop` or a search. `since` is a history variable: the states table and corpus had
during a read. Publishing replaces the corpus in one step.

### Precedents, VendorRisk

A build takes the completed cases of the lookback, scores them by length and rating, keeps
the best of each type and writes them one by one, as rows (upserts) or as one condensed
document; in which order is left open, since no property depends on it. A
rating is accepted in any status; the build reads it of completed cases. `heard` is a history
variable: who was rejected when the build began, and whose row it has written.

`VendorRisk` states the recursive SQL query as a formula (`Longer` is one round of the
recursive term) and runs the breadth-first traversal that `queries.py` calls its reference,
on every graph.

### Intake, SapFeed

`Intake`: an event carries up to two e-mails, or a ticket system's webhook, signed or not;
only the two channels that are webhooks ask for the signature, and a processor without a queue
answers as if it had sent.
Text is what `_extract_case_id` can find in it. Ids are words with a stem and the zeros they
end in, because `to_runtime_session_id` pads with zeros. `SapFeed`: one domain's
configuration (entities, lines, skip conditions, key fields with fallbacks, type rules,
casts) applied to feeds with blank, skipped, illegal, duplicate and unparsable records. A
field that cannot be cast raises out of the whole poll (`Raise`); a put that raises is printed, and the loop goes
on to the next line (`Create`, `polls.failed`). Interleaving with other
polls is `CasePipeline`'s.

### WriteReview, ChatClient, SseReader

`WriteReview`: runs read, write and ask; others change SAP (`SapChanges`). `saw` in a step
is a history variable, what SAP held; the console's definitions use only what the runtime
recorded: the first `MAX_FIELDS` scalar fields, the key if the call named one, the proposal
if the model filled one in.

`ChatClient`: a message of the transcript is known by whom it is of (a replayed case, or a
run). A run is at `token` (awaiting it), `stream`, `over` or `refused`. `Replay` is the effect
that runs when the case's record has arrived, and `seeded` is the ref it tests;
`ProcessCase` claims it. `processing` is the workspace page's own state: leaving the page
loses it while the run goes on, so that two Process runs may be in flight, and a run that ends
resets only its own page's. Before the runtime's ARN is known (`ConfigArrives`) a click on
Process does all it does except to begin a run. A request that is repeated after a sign-in goes
to the session then in context (`useAgentChat.ts:353`), where the comments at lines 112 and 170
say the same session; the model has what the code does, and no property is about it. The
workspace's button for several cases, which queues them and disables the others meanwhile, is
left out. React's batching is taken as given: the state a callback reads is
that of its last render, a ref is read as it is.

`SseReader`: a stream is any sequence of data, comment, CR and LF; the network cuts it
anywhere. What the code does with a whole string (its two replacements of line ends, the split
at blank lines, the lines of a block, the blocks consumed) is a scan from left to right of one
step each: `JoinLineEnd`, `CutAt`, `BreakAt`, `KeepData`, `PassOn`. `Reference` reads the stream
one token at a time, by the rule of server-sent events, and knows neither chunks nor blocks.

### Provision, Launch

`Provision`: CloudFormation sends Create, Update and Delete to three Lambdas, in any order;
a failure rolls back with the old properties, a changed physical id deletes the former one.
`EngineCreate(n)` and `EngineUpdate(d, n)` stop at the n-th call. `spared` is a history
variable: the clean-up of an update swallowed an error. Not claimed: a failed create leaves
its engine behind, unused, because no physical id was answered; on_delete of NOT_AVAILABLE
answers another id; the provider's role lacks the permission to update
(`backend-stack.ts:2671`), which the model has as `granted`, either way.

`Launch`: one command at a time, each a row of phases that stops at the first error. A
Lambda has variables of its own (`own`: the version they were deployed with and how often they
were edited since) and what a warm instance has read. `ReadEnv` and `WriteEnv` are two calls,
so another's edit in between is lost. `edited` and `exit` are history variables: how often a
function was edited since it was deployed, and the last command with its exit code and what it
skipped, failed at and lost, which is forgotten as soon as anything else happens. What the
launcher does not report (functions it could not read, a listing that failed) is named in
`ExitZeroIsInForce` and not covered by it. Nor is `exit.astray`, which the proof attempt
brought out: a refresh that reads a function's variables while a stack left in progress is
still updating, and writes them after the stack has settled, puts the former version's
variables back; a later deployment of the same version does not touch that stack, exits with 0
and leaves them.

### AuthProfile, SiteDeploy, CodeBuild

`AuthProfile`: a profile is a value on each of four axes. `RunEmit` is what the script
leaves for one profile: a block per axis that is not at its default, no file if there is
none. `Synth` clears the file first, `ExportSite` (the console's script) and
`TerraformPlan` do not. What stands is what CDK's constructs read from the file. Without
Python only the default profile goes on, and then without a file; if the adapter is on, its
service target is missing, which `StacksFollowProfile` names as its exception.

`SiteDeploy`: deployers from separate checkouts share stacks, staging bucket and Amplify
application. `ZipKey` is the second of the clock; Amplify takes the jobs in turn, and a job
fetches its package when its turn comes. CDK's script and Terraform's are copies of each other
from the build on; where an action stands for both, the map names one for the action and the
other for an operator it is made of. `CodeBuild`: one call at a time, each may fail before or after it took effect or
run into its timeout, which the exit handler does not catch; `toDelete` are the names
recorded so far. The build itself is CodeBuild's.

### CaseFigures

A run writes statuses while it works and edits other fields (`EditCase`); both set `updated_at`,
and the trace it files at the end does not; its invoker writes `processing` before and possibly a review after. Runs of
one case may overlap, a trace or the first write may be lost. The readers are operators on the
table, with the cutoff of their window as parameter: the funnel (status, newest trace, the
poller's trace in the window), the digest (`updated_at`, last trace), the API (a scan by
`updated_at`, then traces, and a dashboard that counts the datapoints runs sent to CloudWatch
and falls back on the traces if the last day has none). Their paged scans read each row in one piece and every figure is a
sum over rows, so reading is no step of its own. `Uncontested` says when a status and a trace
belong together, and is the exception the comment at `autonomyFunnel.ts:105` does not make: a
person's run that has written `complete` and is still going on is credited to the agent until its
trace is filed. A datapoint is sent best-effort, before the trace, and also by a run that fails
before there is an agent (`points`). `backlog`, `partial`, amounts, spend and latencies are left
out. A case
picked up by the batch sweeper has a trace of trigger `batch`, which the funnel does not count as
started; the model's `poller` means that trigger alone.

### Platform

These fifteen parts share no variable with the pipeline or with one another, in the
program as in the model. `Platform` conjoins them and `part` says which one a behaviour is
about: since what one part does leaves all others unchanged, every interleaving of them
projects to these behaviours, and their states add up instead of multiplying. Where two
parts do meet in the code the meeting is inside one module (prompt and overrides in
`Guidance`, runtime, console and invoker in `AgentStream`, ratings and builds in
`Precedents`, profile, stacks and console in `AuthProfile`).

## 3. Runs

| Run | Instance | Question | Result |
|---|---|---|---|
| `deliver` | 1 case, every status the agent may write, 2 poller containers, stale checks, 2 receives, 2 queued messages, 1 fault, 1 loose run | is every case settled or still owned, handed over once, and is its stamp right | holds, 2.4M states |
| `live` | 1 case, 2 receives, 2 faults, 1 flip, fairness | do heads move on, are missed handoffs recovered | holds, 104k states |
| `tickets` | 2 tickets, 2 reviewers, 1 `PUT`, 1 fault | what may resume the agent, and over what | holds, 2.2M states |
| `stream` | 8 requests, 2 calls of 3 kinds, producer 2 ahead, 1 fault, fairness | does a run end, with one terminal event, and do its readers agree; does it implement `AgentRun` | holds, 614k states |
| `platform` | the fifteen parts, below | what each part promises | holds, 0.98M states |
| `wait` | 1 case, 1 reply | is a wait aged from its own inquiry (ADR-017) | violated |
| `mode` | 2 cases, 1 flip | does the switch gate the poller (AUTONOMY_CONTROLS.md) | violated |
| `serial` | 1 case, 2 spellings | is one case delivered once at a time (backend-stack.ts) | violated |
| `conflict` | 1 ticket, 2 reviewers | does a decision stand (409 and its test) | violated |
| `chat` | 4 runs, 2 at once | are dropped traces counted (basic_agent.py) | violated |
| `rejected` | the part `precedents` alone | does a rejected disposition never guide (queries.py) | violated |
| `history` | the part `chat` alone | is the history a Process run tells about its case (useAgentChat.ts) | violated |

The seven violations are disagreements between what the repository says and what its code
does. They are listed, with the quotations, under `findings`.

* **wait.** A case waits, is answered, and the invoker's own `processing` write leaves
  `inquiry_sent_at` in place; the next escalation keeps it. The handover then shows the age
  of the first inquiry.
* **mode.** `_trigger_mode_cache` is never invalidated: a poller that is warm at the flip
  goes on sending.
* **serial.** `PUT /autonomy` uses the id as given for the message group, the consumer
  normalises it afterwards.
* **conflict.** The 409 is decided on an item read before the write, whose condition is
  existence only. `DecisionStandsUnlessOvertaken` states exactly what remains true.
* **chat.** The read-modify-write is safe under the queue, but chat does not use the queue.
  `NewestAreKept` states what holds without such a race, and two theorems (section 4) what
  holds even with it.
* **rejected.** A row is only rewritten by a build that picks its case, and a rejected case
  is the last to be picked. `RejectionIsHeeded` states what remains true.
* **history.** The Process button focuses the case in the same click, so the transcript from
  which the history is taken is that of the case looked at before.

What the passing runs show of each part:

* `deliver`: `ProcessingIsOwned` (a case in processing has a message that brings the handler
  back), `AcknowledgedIsSettled`, `DeadLetterIsReviewed` (what is given up is left to people),
 
  `WaitKeepsItsStamp`, `OnePollerHandoff` (two containers, weak checks, one handoff).
* `live`: `HeadsMoveOn`, `DetectedIsRecovered`.
* `tickets`: `ResumeIsRecorded`, `ResumeFitsQuestion`, `LinkNamesTicket`,
  `DecisionStandsUnlessOvertaken`.
* `stream`: `WireIsWellFormed`, `VerdictsAgree`, `LiveAgrees`, `CitationsAreShown`;
  `StreamEnds` under fairness; `KeepsItsPromise`, the refinement of `AgentRun`.
* `platform`: `EditsAreWhole`, `ReadsAreFresh`, `NoSopMeansNone`, `ReloadAgrees` (guidance);
  `RejectionIsHeeded` (precedents); `QueryAgrees` (vendor risk);
  `RepliesFindTheirCase`, `OneGroupPerCase` (intake); `PollMissesNothing` (feed);
  `NewestAreKept` (traces); `BeforeIsWhatStood`, `ClaimsAreCheckedInSap` (write review);
  `SettledIsInForce` (provision); `ExitZeroIsInForce` (launch); `ControlsFollowRuns`,
  `TurnSurvives` (chat); `ChunkingIsInvisible` (byte stream); `StacksFollowProfile`,
  `SiteFollowsProfile` (profiles); `DoneMeansServed` (site); `LeftoversHaveReasons`
  (CodeBuild); `FunnelFollowsTheAgent`, `ReadersAgree` (figures).

Some of these hold by design only with an exception, which the property names rather than
hides: `ReloadAgrees` where the corpus holds no PDF (the prompt parses them, the reload cannot), `ExitZeroIsInForce` without the functions the
command skipped, lost an edit of or found astray, `SettledIsInForce` with leftover policies after a swallowed error,
`SiteFollowsProfile` right after a synthesis, `LeftoversHaveReasons` with its list of reasons.
Others say less than their names may suggest:

* `AcknowledgedIsSettled` and `DeadLetterIsReviewed` say nothing of cases in `hurt`, the latter
  nothing of cases with two spellings either. The review written after `Verify` may cover up an
  outcome somebody else wrote between its read and its write (`agent_invoker/index.py:200`); code
  and model both allow it, and no property rules it out.
* `EditsAreWhole` speaks of the settings as a whole only where no two edits overlap and no write
  of the loop has failed; otherwise only its first clause is left: what is in the table was asked
  for by a request without an error.
* `RejectionIsHeeded` says nothing of the rows a build leaves out, which is the violated
  `rejected`; `PollMissesNothing` nothing of a line whose put raised, until a later poll.
* `ExitZeroIsInForce` excepts `exit.failed` as well: the readers whose restart failed, which
  `secrets.py:143-147` reports without failing the command.
* `TurnSurvives` knows a line by whom it is of. A message for which there is no token overwrites
  the line that is last by then, whosever it is; the model marks that line `garbled`, and the
  property still takes it for the line it was.
* `FunnelFollowsTheAgent` is about uncontested cases: runs that met, or whose trace was lost, are
  exempted, and so is what the console's own `POST /traces` (`cases_api/index.py:157-175`) appends
  without a run, which `TraceStore` has and `CaseFigures` does not. `ReadersAgree` needs no such
  exemption; it compares the cases last run in the window and touched in it.

### Bounds

*Pipeline.* The handler distinguishes the last receive from the others and nothing else, so
two receives (the code has three) give both. One case is enough for the delivery properties
because no step of the pipeline reads a second case except through the concurrency limit,
which only disables steps (the proofs cover any number). Two messages in a group give a
successor to a failing head; one fault at any of its places plus one loose run give every
single failure; `live` has two faults. `MaxLoose`, `MaxHuman`, `MaxFlips`, `MaxFaults` and
`MaxQueue` bound counters of the environment, not of the code. The agent never writes
`detected`: no prompt or SOP asks for it.

*Stream.* Two calls give a lookup before and after a citation, and one that never returns;
a turn limit of two is passed by a third turn; a lag of two lets the producer be past a
call's result, or the end, while the consumer is before it. One fault is enough for every
single failure of adapter, hook or save, at any point, with or without the peer.

*Platform.* Guidance: two overlapping edits over a declared, an undeclared and a
constant key, one run with its two reads, a corpus that may change once between candidates.
Precedents: two cases that compete for one place and one of another type, two builds, three
turns (resolve, rate, reopen, age), one failure. Vendor risk: every graph over four vendors at
depth two, so long and short ways, cycles and vendors out of reach. Intake: two e-mails per
event over all pairs of seven texts, two ids that differ in trailing zeros. Feed: all feeds of
two out of six invoices, two polls. Traces: three savers at once over a cap of two, a console
post and two faults. Review: two documents, one of them reached without a key, an excerpt of
one field out of two, three steps, one change by others. Provision: three templates, three
changes, two failing calls (one may hit the rollback of the other). Launch: two Lambdas, two
commands or edits, one failure or interrupt. Chat: two cases and no case, two runs, two clicks.
Byte stream: every stream of five tokens, cut in every way. Profiles: every combination of two
providers, all modes and two flows, and one profile for each remaining value; three edits or
commands. Site: two deployers on CDK and one on Terraform, two seconds, one failure. Figures: two
cases, two runs, three moments, one lost write or datapoint, a page of one trace, a day of one moment so that
datapoints can be older than it. CodeBuild:
three troubles, as many as a clean-up needs to fail in each of its blocks.

`MaxMishaps`, `MaxBuilds`, `MaxFailures`, `MaxTurns`, `MaxPolls`, `MaxSteps`, `MaxAsides`,
`MaxChanges`, `MaxOutages`, `MaxCommands`, `MaxBadLuck`, `MaxRuns`, `MaxClicks`, `MaxTokens`,
`MaxDeploys`, `MaxSeconds`, `MaxDrops`, `MaxInvocations`, `MaxMoments`, `MaxLosses` and `MaxTrouble` bound the environment. `MaxFields`,
`MaxDepth`, `MaxTraces`, `MaxExemplars`, `MaxPrecedents`, `Page`, `PageLimit` and `TurnLimit` are limits of
the code or of a service, small. Deadlock is not checked because the bounded environments run
out of inputs.

Symmetry is used in `deliver` (containers) and `tickets` (reviewers), neither of which checks
liveness.

### Fairness

`FairSpec` of the pipeline is what AWS and the configuration promise: SQS delivers and
redrives a head that is waiting; a handler that lives goes on, at the latest when its
deadline, derived from the Lambda's own budget, passes; the sweep's schedule fires; rows age;
the deduplication window closes. People, the poller and faults are under no fairness, and
`DetectedIsRecovered` assumes that the mode stays `auto` from some point on.

`FairSpec` of the stream is the scheduling of one event loop: the generator, if it can go on,
is resumed, and the producer task, if it can go on, is run. The adapter's own steps include
the model's and the tools' answers; the Strands client and the tools have timeouts, after which
they answer with an error. Nothing assumes that the peer stays or that nothing fails.

## 4. Proofs

All theorems hold for any sets of cases, spellings, pollers, tickets, reviewers, requests, runs,
functions and so on, and for any bounds, from the named assumptions on the constants alone; TLC
evaluates those assumptions on every run. `PROJECT.json` lists the theorems that state a property
a run checks, and each was checked by TLC before it was proved. The inductive invariants are
described here; each proof has one lemma per action, or per pattern that several actions follow.

Where a proof does need induction over numbers or sequences it goes by a least counterexample:
`LeastNumber` takes the least of a set of numbers that is not empty, from the library's facts on
well-founded orders, and `SnocInduction` says on top of it that a set of sequences which has the
empty one, and with each all that are one longer, has all.

**The case pipeline** (`CasePipeline_proofs`).

* `PipelineTypeOK`, `PipelineOwnsProcessing`. `ProcessingIsOwned` says that a case in
  `processing`, and not in `hurt`, has a message in some group of its own. It is not
  inductive: an acknowledgement deletes a message, and whether that is fine depends on what
  the row says at that time. The strengthening (`OwnedInv`) says which messages *answer* for
  a case: those not about to be deleted, by an acknowledgement or by redrive with the
  receive count exhausted. A case in processing has an answering message; a delivery in
  flight has its message in the queue. Each way out of
  the handler has a lemma for the pattern it follows: the delivery goes on (`OwnedAlive`),
  the case is settled first (`OwnedSettled`), the message goes back with receives to spare
  (`OwnedGivenBack`), the head is deleted (`OwnedDelete`).
* `PipelineStampsWaits`, `PipelineKeepsStamps`. Every step changes a row, if at all, by
  one of the operators of `CaseRow` (`RowsAreWritten`), and each of these keeps the stamp of
  a row that goes on waiting. What the proofs do not give is that the stamp is the wait's
  own, which is the violated `wait`.
* `PipelineHandsOverOnce`. `HandoffInv` counts: of the pollers that have put a row and not yet
  sent, and the poller messages of that case, there is at most one together, because only the
  conditional put admits a poller to the send, and a row never disappears.
* `PipelineSettlesFirst` needs that a case has one delivery at a time
  (`[]OneDeliveryPerCase`), which the code does not guarantee: it is the violated `serial`.
  The hypothesis is named in the theorem; it holds where no second spelling of an id is in use
  (`SerialWithoutAliases`), and the theorem states that instance too. `SettledInv` says what the
  row holds once a delivery is being acknowledged.
* `PipelineReviewsDeadLetters`. `ReviewedInv` says it of every head that has had its last receive
  and waits for its redrive: its case is in review, or has no row or one only just detected, or is
  in `hurt`. Only the last receive makes such a head (`SpentDeliver`), and with one spelling
  whoever writes the row before the redrive is outside the queue.

**Tickets.** `TicketsInv` adds to the properties what a request knows between its calls:
its decision fits the ticket's question and case (which nobody changes), once recorded it
is among the answers (which nobody removes), and what it read still holds unless it was
overtaken. `TicketsKept` is the frame every action is shown to respect.

**TraceStore.** `TraceInv` says that the list and every copy a run still holds are in the
order of the history, that a copy not overtaken is the list, and that until a racing
write-back the list is a suffix of the history. Lemmas about appending and capping
sequences (`OrderedAppend`, `SuffixCapped` and their neighbours) carry the steps.
`TraceStoreKeepsOrder` (the list stays in the order of saving) and `TraceStoreStaysFull` (no
write takes a full list below its cap) hold races or not; they are proved and no longer run.

**The agent's stream** (`AgentStream_proofs`). One picture carries it: what the peer has
received followed by what is still queued is one sequence of events, which starts once, first,
and ends once, last. `StreamInv` says where in that sequence the source stands (`QueueInv`,
`SourceInv`), that the generator's flags tell what the peer has received (`FlagsInv`), and what
is left of both once the run is over. From it follow `AgentStreamWire` and `AgentStreamVerdicts`,
and the refinement `AgentStreamKeepsPromise`: the initial state maps to one of `AgentRun`, each
step concludes, files or stutters. `AgentStreamCitations` has an invariant of its own: the
hook's baseline stays within what the lookups that have answered show. What a citation compares
is maximal over a set; `LongestIn` finds the maximum from the well-foundedness of sets under
inclusion.

`AgentStreamLive` compares three folds over the same events: the accumulator's segments with the
hook's records merged in, the console's live calls, and the timeline read back. None needs
induction, because each event is folded in one step (`AccumulateEffect`, `ReduceEffect`).
`LiveInv` says what the segments and the console hold of the events read so far, and of those
still queued that a result is behind its call, and before any snapshot that counts it. So when a
snapshot arrives, which colours every call it counts as complete, the console has been told which
of them failed.

**What a run is told** (`Knowledge_proofs`). `EditsInv` keeps the accepted requests in the order
of their acceptance and, while none has overlapped or failed, what each setting was last told.
`ReadsInv` says of each read what it has looked at so far and at which moments since it began,
so that a value filled in, an object found absent and an error can each be traced to a moment of
the table or the corpus. `GuidanceEditsAreWhole`, `GuidanceReadsAreFresh`,
`GuidanceNoSopMeansNone`, `GuidanceReloadAgrees` follow.

`RiskQueryAgrees` compares the traversal of `VendorRisk` with the query. `RiskInv` says three
things of it: a vendor met has one chain, simple and within the bound (`KnownChains`); the queue
holds chains by length, of two lengths at most, so that what is found next is never shorter than
what was found (`QueueByLength`); a chain that has left the queue has passed every edge of its
end on (`Relaxed`). With the queue empty, a shortest vendor the traversal had missed, or had by a
longer chain, would have a predecessor on its chain of which the same is true; so there is none.

**Casework** (`Casework_proofs`).

* `Intake`: a message is a function of its record, and the padding of a session id is injective
  on legal ids of at least the runtime's length; `IntakeOneGroupPerCase` and
  `IntakeRepliesFindTheirCase` rest on the shape of ids that the assumption states.
* `SapFeed`: `FeedInv` says that what the loop has passed has its case, or is among the lines
  this poll could not write. `FeedPollMissesNothing`.
* `Precedents`: `BuildSaysRejected` carries the rating a build has read from the query to the row.
* `WriteReview`: the steps of a run are in the order of SAP's history, and what a step shows was
  there at its time (`ReviewInv`); `ReviewBeforeIsWhatStood` and `ReviewClaimsAreChecked` compare
  two steps of it.

**The console** (`Console_proofs`). `ChatInv` relates transcript and runs: a run's messages and
its one turn are there as long as its case is in context and has been seeded (`StayedIsThere`,
`TurnsAreSingle`). `ChatControlsFollow` adds `ControlsInv`: a run that was not refused, or a
request that waits for a sign-in, was asked for when the runtime was known, and a run still
awaiting its token is not one that Stop has reached. `FiguresInv` describes the traces of a case: each once its run was over, in the
order of their times and, of runs that did not meet, of the runs; a run that was alone on its case
and wrote the status last is the last that wrote it. `FiguresFunnelFollows` follows: the newest
trace of an uncontested case is that of the run behind its status. `FiguresReadersAgree` rests on the order
of the traces: as no two bear the same moment, the funnel's newest and the digest's last are one
(`PostedIsFunnelled`). `ReadersInv` adds that there are finitely many datapoints, so that what
the readers count can be compared: posted cases map one to one to traces that are found (`PostedAreFound`), and who is not on a page is preceded
by a full one (`PageIsFull`).

`SseChunkingIsInvisible` is about folds over strings of any length. A fold goes through one
stage per token (`ScanIsStaged`), so one token more is one step more (`ScanSnoc`). `CutOf(s)` is
what `readAguiStream` has cut of `s` when `s` came at once. Two facts carry the proof. Cutting
resumes: what is cut of `s` followed by `w` is what was cut of `s`, then what is cut of its rest
followed by `w` (`CutResumes`), because a rest has nothing more to cut (`RestIsUncut`). And the
reader of single tokens keeps step with the cut whose trailing CR is taken for a line end
(`Together`, kept by `TogetherGrows`): the same events, the same data held, the same open line.
The invariant `SseIInv` then says that events and buffer are what is cut of the part that has
arrived; the close turns the rest into the reader's last event (`CloseIsReference`).

**Deployment** (`Deployment_proofs`).

* `CodeBuild`: `BuildInv` says for each call what stands in the account before it, what the exit
  handler knows the names of, and what the clean-up has already settled or recorded as amiss.
* `AuthProfile`: `FileIsOfTheSynthesis`, from what emission leaves for each axis. That the basic
  profile offers both SAP modes is an assumption on the constants, read off `auth-profiles.yaml`.
* `SiteDeploy`: a key of the staging bucket holds one of the packages placed under it, and so
  does the package a job has served (`SiteInv`).
* `Provision`: `SoFar` says of each phase which resources have the old template in force and
  which the new one; `EngineKept` what the policy engine keeps while its calls fail.
* `Launch`: `Achieved` says, phase by phase, what a deployment has behind it: the stacks with the
  confirmed version, then the functions that are cold or have read what was written since, then
  the site. Between two phases only others move, and whatever they do to it is recorded in the
  command (`lost`) or ends the claim (`exit`).

Only model-checked: the liveness properties `HeadsMoveOn`, `DetectedIsRecovered`, `StreamEnds`.
There is no reasoning about fairness and ENABLED in the prover. Every invariant and action
property of a passing run has its theorem.

## 5. Plan

Done: `CaseRow`, `CasePipeline`, `Tickets`, `TraceStore`; `AgentStream` and its refinement of
`AgentRun`; `Guidance`, `Precedents`, `VendorRisk`, `Intake`, `SapFeed`; the console's
`WriteReview`, `ChatClient`, `SseReader`; deployment's `Provision`, `Launch`, `AuthProfile`,
`SiteDeploy`, `CodeBuild`; `CaseFigures`; their composition; the proofs of section 4.

Next: a run that is retried after it has reached SAP. The pipeline's model knows the row and
not what the tools did in SAP, so nothing can be said yet of the second run; `WriteReview` has
that history, of one run at a time. Composing the two would say which retries repeat a booking.

## 6. Not modelled

* **The health route of the observability API, its averages and its costs.** The route reports
  what AWS says and keeps nothing; averages of averages and estimated dollars are arithmetic on
  floats without a state.
* **JWT authorizer, demo test data.** The one verifies the token of a request, the other makes
  documents in SAP for a demonstration; neither keeps a state of the system.
* **Feedback API, notification and retrieval tools.** One call to a service per request,
  no state and no order between requests.
* **Token caches** (`sap_auth`, the invoker's and the runtime's): what matters of them to a
  run, whose token it carries, is in `AgentRequest`; expiry is a clock against an identity
  provider's.
* **Cedar policies** are evaluated by the gateway; that they are in force is `Provision`'s.
* **Prompts, model output, retrieval results and the SAP system** appear as what the code
  tells apart of them.
* **Views of the console other than the write review, the funnel and the handover** render what they are given.
* **Deleting and listing tickets, the resolution write of the cases API, the cost counters**:
  single requests or counters that no other part reads.
* **Launcher's doctor, context and configuration editing**: local files and questions.
* **CDK and Terraform resources other than those named**: declarations. Wiring that no state
  machine shows: the observability Lambda's `AGENT_DLQ_URL` (`backend-stack.ts:2260`) names a
  queue (`…-agent-queue-dlq.fifo`) other than the dead-letter queue (`…-agent-dlq.fifo`,
  line 1310), and `deploy-with-codebuild.py:56` packs `scripts/` alone while the build it
  starts changes into `cdk/`.
* **The legacy layout of one stack's outputs** in `deploy-frontend.py`, and two site
  deployments from one checkout, which would share the build directory.
* **Evaluations, seed data, test scripts**: run by hand around the system.
