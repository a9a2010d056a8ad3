---------------------------- MODULE SiteDeploy ----------------------------
(***************************************************************************)
(* Deploying the console: a script reads what the stacks put out, builds the *)
(* site around it, leaves the package in the staging bucket under the second *)
(* of the clock, asks Amplify to deploy what is there and watches the job.   *)
(* Several people may be at it, from CDK's outputs or from Terraform's, for  *)
(* one application; any call may fail, also one that has taken effect.       *)
(***************************************************************************)
EXTENDS Naturals, Sequences, FiniteSets

CONSTANTS
  Operators,    \* runs of the script
  OnTerraform,  \* those of terraform/scripts/deploy-frontend.py
  Issuers,      \* whether a run's profile brings its own login issuer
  MaxSeconds,   \* bound: the clock
  MaxDrops      \* bound: calls that fail

ASSUME SiteAssumption ==
  /\ OnTerraform \subseteq Operators
  /\ Issuers \in [Operators -> BOOLEAN]
  /\ \A o \in OnTerraform : ~Issuers[o]
  /\ MaxSeconds \in Nat /\ MaxDrops \in Nat

(* The stacks a run looks at, and the one it may do without. *)
SubStacks == {"frontend", "cognito", "backend", "demo"}

VARIABLES
  inCloud,   \* the stacks that are deployed
  deployers, \* each run: where it is, the stacks it saw, its second and its job
  staged,    \* the staging bucket: the package under each key
  jobs,      \* Amplify's deployment jobs of the branch, oldest first
  live,      \* the package that is served
  second,    \* the clock
  drops      \* what the bound leaves

wvars == <<inCloud, deployers, staged, jobs, live, second, drops>>

NoPackage == [by |-> "nobody", sees |-> {}]
Start0 == [pc |-> "start", sees |-> {}, at |-> 0, key |-> 0, job |-> 0]

Drop == drops > 0 /\ drops' = drops - 1

Become(o, pc) == deployers' = [deployers EXCEPT ![o].pc = pc]

(* What a run that has read these stacks puts in the site. *)
SitePackage(o) == [by |-> o, sees |-> deployers[o].sees]

-----------------------------------------------------------------------------
(* Reading the outputs. *)

(* The application's id, its bucket and the region are the frontend stack's, the runtime
   and the API the backend's, the login the pool's unless the profile brings its own. *)
Suffices(o, sees) ==
  /\ {"frontend", "backend"} \subseteq sees
  /\ Issuers[o] \/ "cognito" \in sees

WithOutputs(o, sees) ==
  deployers' = [deployers EXCEPT ![o].sees = sees,
                                 ![o].pc = IF Suffices(o, sees) THEN "read" ELSE "failed"]

(* A tool, credentials or the stack's name is missing, or a call fails that cannot be
   done without. *)
GivesUp(o) == Become(o, "failed") /\ Drop

(* A stack that is not there and one whose description fails are the same to the script:
   both are left out. The region is read from the frontend stack once more. The older
   layout in one stack is not modelled. *)
CollectOutputs(o) ==
  /\ deployers[o].pc = "start" /\ o \notin OnTerraform
  /\ \/ WithOutputs(o, inCloud) /\ UNCHANGED drops
     \/ \E s \in inCloud : WithOutputs(o, inCloud \ {s}) /\ Drop
     \/ GivesUp(o)
  /\ UNCHANGED <<inCloud, staged, jobs, live, second>>

(* The settings of a site made from Terraform's outputs never have the demo's pages. *)
TerraformSees == inCloud \ {"demo"}

(* One command tells all of the outputs or none. *)
TerraformOutputs(o) ==
  /\ deployers[o].pc = "start" /\ o \in OnTerraform
  /\ \/ WithOutputs(o, TerraformSees) /\ UNCHANGED drops
     \/ GivesUp(o)
  /\ UNCHANGED <<inCloud, staged, jobs, live, second>>

-----------------------------------------------------------------------------
(* Building and handing over. From here on the two scripts are two copies of one. *)

(* Mutant of ZipKey: every deployment has the same key. *)
OneZipKey(sec) == 0

(* amplify-deploy-<seconds>.zip *)
ZipKey(sec) == sec

WithPackage(o) == [staged EXCEPT ![ZipKey(second)] = SitePackage(o)]

(* npm installs and builds, the settings are copied in, and the package goes up: a copy
   may have gone up although the command failed. *)
BuildAndUpload(o) ==
  /\ deployers[o].pc = "read"
  /\ \/ /\ staged' = WithPackage(o)
        /\ deployers' = [deployers EXCEPT ![o].pc = "uploaded", ![o].at = second,
                                          ![o].key = ZipKey(second)]
        /\ UNCHANGED drops
     \/ /\ Drop
        /\ staged' \in {staged, WithPackage(o)}
        /\ deployers' = [deployers EXCEPT ![o].pc = "failed", ![o].at = second]
  /\ UNCHANGED <<inCloud, jobs, live, second>>

Pending(key) == [key |-> key, status |-> "RUNNING", served |-> NoPackage]

(* start-deployment with the address of the package. *)
WithJob(o) == Append(jobs, Pending(deployers[o].key))

StartDeployment(o) ==
  /\ deployers[o].pc = "uploaded"
  /\ \/ /\ jobs' = WithJob(o)
        /\ deployers' = [deployers EXCEPT ![o].pc = "watching", ![o].job = Len(jobs) + 1]
        /\ UNCHANGED drops
     \/ jobs' \in {jobs, WithJob(o)} /\ GivesUp(o)
  /\ UNCHANGED <<inCloud, staged, live, second>>

(* Amplify takes the jobs in turn, and a job fetches its package when its turn comes. *)
JobEnds(j) ==
  /\ jobs[j].status = "RUNNING"
  /\ \A k \in 1..(j - 1) : jobs[k].status # "RUNNING"
  /\ \/ /\ live' = staged[jobs[j].key]
        /\ jobs' = [jobs EXCEPT ![j].status = "SUCCEED", ![j].served = staged[jobs[j].key]]
        /\ UNCHANGED drops
     \/ /\ Drop
        /\ jobs' = [jobs EXCEPT ![j].status = "FAILED"]
        /\ UNCHANGED live
  /\ UNCHANGED <<inCloud, deployers, staged, second>>

(* get-job of the job the run started. *)
JobStatus(o) == jobs[deployers[o].job].status

JobVerdict(status) ==
  CASE status = "RUNNING" -> "watching"
    [] status = "SUCCEED" -> "done"
    [] OTHER              -> "failed"

(* A status that cannot be had ends the script, not the job. *)
Watch(o) ==
  /\ deployers[o].pc = "watching"
  /\ \/ /\ JobStatus(o) # "RUNNING"
        /\ Become(o, JobVerdict(JobStatus(o)))
        /\ UNCHANGED drops
     \/ GivesUp(o)
  /\ UNCHANGED <<inCloud, staged, jobs, live, second>>

SecondPasses ==
  /\ second < MaxSeconds
  /\ second' = second + 1
  /\ UNCHANGED <<inCloud, deployers, staged, jobs, live, drops>>

SiteInit ==
  /\ inCloud \in SUBSET SubStacks
  /\ deployers = [o \in Operators |-> Start0]
  /\ staged = [k \in 0..MaxSeconds |-> NoPackage]
  /\ jobs = <<>>
  /\ live = NoPackage
  /\ second = 0
  /\ drops = MaxDrops

SiteNext ==
  \/ \E o \in Operators :
       \/ CollectOutputs(o) \/ TerraformOutputs(o) \/ BuildAndUpload(o)
       \/ StartDeployment(o) \/ Watch(o)
  \/ \E j \in DOMAIN jobs : JobEnds(j)
  \/ SecondPasses

SiteSpec == SiteInit /\ [][SiteNext]_wvars

-----------------------------------------------------------------------------
(* A script that ends well has had its own package served by the job it started, however
   many deployments overlapped: the only package that may have stood in for it is one
   uploaded in the same second. What it served names the stacks it needs. *)
DoneMeansServed ==
  \A o \in Operators : deployers[o].pc = "done" =>
    LET job == jobs[deployers[o].job] IN
    /\ job.status = "SUCCEED"
    /\ \/ job.served = SitePackage(o)
       \/ \E q \in Operators \ {o} : deployers[q].at = deployers[o].at /\ job.served.by = q
    /\ {"frontend", "backend"} \subseteq job.served.sees
=============================================================================
