------------------------- MODULE Deployment_proofs -------------------------
(***************************************************************************)
(* What is proved of the deployment: of a build through a temporary project  *)
(* (CodeBuild), that what it leaves behind has a reason; of the profile that  *)
(* is deployed (AuthProfile), that the stacks and the site follow it; of the  *)
(* console's deployment (SiteDeploy), that a script that ends well has had    *)
(* its own package served; of the custom resources (Provision), that a stack  *)
(* at rest is in force; of the launcher (Launch), that what exits with 0 is in *)
(* force together.                                                           *)
(***************************************************************************)
EXTENDS CodeBuild, AuthProfile, SiteDeploy, Provision, Launch, FiniteSetTheorems, SequenceTheorems, TLAPS

-----------------------------------------------------------------------------
(* The temporary build project.                                             *)

Things   == {"bucket", "source", "boundary", "role", "admin", "project"}
Groups   == {"bucket", "role", "boundary"}
Cleaning == {"rm", "delete_bucket", "detach", "delete_role", "delete_policy"}

(* What there is in the account when the script is about to make a call. *)
Standing ==
  [create_s3_bucket |-> {},
   upload           |-> {"bucket"},
   create_policy    |-> {"bucket", "source"},
   create_role      |-> {"bucket", "source", "boundary"},
   attach_policy    |-> {"bucket", "source", "boundary", "role"},
   create_project   |-> {"bucket", "source", "boundary", "role", "admin"},
   start_build      |-> Things,
   stream           |-> Things]

BuildTypeOK ==
  /\ call \in DOMAIN Standing \cup Cleaning \cup {"check", "gone"}
  /\ toDelete \in SUBSET Groups /\ account \in SUBSET Things
  /\ amiss \in SUBSET (Groups \cup {"killed"})
  /\ theBuild \in {"none", "IN_PROGRESS", "FAILED", "STOPPED"}
  /\ trouble \in Nat

(* Nothing is there without what it hangs on. *)
HangsTogether ==
  /\ "source" \in account => "bucket" \in account
  /\ "admin" \in account => "role" \in account
  /\ "role" \in account => "boundary" \in account

(* While the script still makes things nothing has gone wrong, and the exit handler knows
   the names of what is there. *)
NothingAmissYet ==
  /\ call = "check" => account = {} /\ toDelete = {}
  /\ call \in DOMAIN Standing =>
       /\ account = Standing[call]
       /\ toDelete = {"bucket", "role"} \cup ({"boundary"} \cap account)
  /\ call \in DOMAIN Standing \cup {"check"} => amiss = {}
  /\ call \in (DOMAIN Standing \cup {"check"}) \ {"stream"} => theBuild = "none"

(* What each call of the exit handler can rely on, and what it has already settled. *)
CleanedSoFar ==
  /\ call \in Cleaning => "killed" \notin amiss /\ {"bucket", "role"} \subseteq toDelete
  /\ call = "delete_bucket" => "bucket" \in account /\ "source" \notin account
  /\ call \in {"rm", "delete_bucket", "detach"} /\ theBuild # "none" => "admin" \in account
  /\ call \in {"detach", "delete_role", "delete_policy"} /\ "bucket" \in account => "bucket" \in amiss
  /\ call = "delete_role" => "role" \in account /\ "admin" \notin account
  /\ call = "delete_policy" =>
       /\ "admin" \in account => {"bucket", "role"} \cap amiss # {}
       /\ "role" \in account => {"bucket", "role"} \cap amiss # {} \/ theBuild = "none"

BuildInv == BuildTypeOK /\ HangsTogether /\ NothingAmissYet /\ CleanedSoFar /\ LeftoversHaveReasons

LEMMA StandingIs ==
  /\ DOMAIN Standing = {"create_s3_bucket", "upload", "create_policy", "create_role",
                        "attach_policy", "create_project", "start_build", "stream"}
  /\ Standing["create_s3_bucket"] = {}
  /\ Standing["upload"] = {"bucket"}
  /\ Standing["create_policy"] = {"bucket", "source"}
  /\ Standing["create_role"] = {"bucket", "source", "boundary"}
  /\ Standing["attach_policy"] = {"bucket", "source", "boundary", "role"}
  /\ Standing["create_project"] = {"bucket", "source", "boundary", "role", "admin"}
  /\ Standing["start_build"] = Things
  /\ Standing["stream"] = Things
BY DEF Standing

(* Making brings the account on to where the next call expects it. *)
LEMMA StandingGrows ==
  ASSUME NEW s \in DOMAIN Makes
  PROVE  /\ s \in DOMAIN Standing /\ After(s) \in DOMAIN Standing /\ s # "stream" /\ After(s) # "stream"
         /\ Standing[After(s)] = Standing[s] \cup {Makes[s]}
         /\ Makes[s] \in Things
         /\ Makes[s] = "boundary" <=> s = "create_policy"
<1>1. s \in {"create_s3_bucket", "upload", "create_policy", "create_role", "attach_policy",
             "create_project"}
  BY DEF Makes
<1>2. /\ Makes["create_s3_bucket"] = "bucket" /\ Makes["upload"] = "source"
      /\ Makes["create_policy"] = "boundary" /\ Makes["create_role"] = "role"
      /\ Makes["attach_policy"] = "admin" /\ Makes["create_project"] = "project"
  BY DEF Makes
<1>3. CASE s = "create_s3_bucket"
  BY <1>2, <1>3, StandingIs DEF After, Things
<1>4. CASE s = "upload"
  BY <1>2, <1>4, StandingIs DEF After, Things
<1>5. CASE s = "create_policy"
  BY <1>2, <1>5, StandingIs DEF After, Things
<1>6. CASE s = "create_role"
  BY <1>2, <1>6, StandingIs DEF After, Things
<1>7. CASE s = "attach_policy"
  BY <1>2, <1>7, StandingIs DEF After, Things
<1>8. CASE s = "create_project"
  BY <1>2, <1>8, StandingIs DEF After, Things
<1> QED
  BY <1>1, <1>3, <1>4, <1>5, <1>6, <1>7, <1>8

LEMMA StandingHangs ==
  \A s \in DOMAIN Standing :
    /\ Standing[s] \in SUBSET Things
    /\ "source" \in Standing[s] => "bucket" \in Standing[s]
    /\ "admin" \in Standing[s] => "role" \in Standing[s]
    /\ "role" \in Standing[s] => "boundary" \in Standing[s]
BY StandingIs DEF Things

(* Each of the script's own calls finds the account as the calls before it left it, and
   a call that goes wrong starts the exit handler with nothing settled yet. *)
LEMMA MakeKeeps ==
  ASSUME CodeBuildAssumption, BuildInv, NEW s \in DOMAIN Makes, Make(s)
  PROVE  BuildInv'
<1>1. /\ call = s /\ account = Standing[s] /\ amiss = {} /\ theBuild = "none"
      /\ toDelete = {"bucket", "role"} \cup ({"boundary"} \cap account)
  BY StandingGrows DEF Make, BuildInv, NothingAmissYet
<1>2. CASE /\ account' = account \cup {Makes[s]} /\ call' = After(s) /\ UNCHANGED trouble
           /\ toDelete' = IF s = "create_policy" THEN toDelete \cup {"boundary"} ELSE toDelete
  <2>1. account' = Standing[call'] /\ call' \in DOMAIN Standing /\ call' # "stream"
    BY <1>1, <1>2, StandingGrows
  <2>2. toDelete' = {"bucket", "role"} \cup ({"boundary"} \cap account')
    BY <1>1, <1>2, StandingGrows
  <2>3. BuildTypeOK'
    BY <1>1, <1>2, <2>1, <2>2, StandingHangs DEF Make, BuildInv, BuildTypeOK, Groups
  <2>4. HangsTogether'
    BY <2>1, StandingHangs DEF HangsTogether
  <2>5. NothingAmissYet' /\ CleanedSoFar' /\ LeftoversHaveReasons'
    BY <1>1, <2>1, <2>2, StandingIs
       DEF Make, NothingAmissYet, CleanedSoFar, Cleaning, LeftoversHaveReasons
  <2> QED
    BY <2>3, <2>4, <2>5 DEF BuildInv
<1>3. CASE Trouble /\ account' \in {account, account \cup {Makes[s]}} /\ ToCleanUp /\ UNCHANGED toDelete
  <2>1. PICK q \in DOMAIN Standing : account' = Standing[q]
    BY <1>1, <1>3, StandingGrows
  <2>2. BuildTypeOK'
    BY <1>1, <1>3, <2>1, StandingHangs
       DEF Make, BuildInv, BuildTypeOK, Groups, Trouble, ToCleanUp, Cleaning
  <2>3. HangsTogether'
    BY <2>1, StandingHangs DEF HangsTogether
  <2>4. NothingAmissYet' /\ CleanedSoFar' /\ LeftoversHaveReasons'
    BY <1>1, <1>3, StandingIs
       DEF Make, NothingAmissYet, CleanedSoFar, Cleaning, LeftoversHaveReasons, ToCleanUp
  <2> QED
    BY <2>2, <2>3, <2>4 DEF BuildInv
<1> QED
  BY <1>2, <1>3 DEF Make

LEMMA MakingKeeps ==
  ASSUME CodeBuildAssumption, BuildInv,
         Refused \/ create_source_zip \/ start_codebuild \/ BuildEnds \/ stream_build_logs
  PROVE  BuildInv'
<1> USE StandingIs
    DEF BuildInv, BuildTypeOK, HangsTogether, NothingAmissYet, CleanedSoFar, Things, Groups,
        Cleaning, LeftoversHaveReasons, Trouble, ToCleanUp
<1>1. CASE Refused
  BY <1>1 DEF Refused
<1>2. CASE create_source_zip
  <2>1. account = {} /\ amiss = {} /\ theBuild = "none"
    BY <1>2 DEF create_source_zip
  <2>2. account' = {} /\ amiss' = {} /\ theBuild' = "none" /\ toDelete' = {"bucket", "role"}
    BY <1>2, <2>1 DEF create_source_zip
  <2>3. CASE call' = "create_s3_bucket" /\ UNCHANGED trouble
    BY <2>2, <2>3
  <2>4. CASE Trouble /\ ToCleanUp
    BY <2>2, <2>4
  <2> QED
    BY <1>2, <2>3, <2>4 DEF create_source_zip
<1>3. CASE start_codebuild
  <2>1. account = Things /\ amiss = {} /\ theBuild = "none" /\ toDelete = Groups
    BY <1>3 DEF start_codebuild
  <2>2. account' = Things /\ amiss' = {} /\ toDelete' = Groups
    BY <1>3, <2>1 DEF start_codebuild
  <2>3. CASE theBuild' = "IN_PROGRESS" /\ call' = "stream" /\ UNCHANGED trouble
    BY <2>2, <2>3
  <2>4. CASE Trouble /\ theBuild' \in {theBuild, "IN_PROGRESS"} /\ ToCleanUp
    BY <2>1, <2>2, <2>4
  <2> QED
    BY <1>3, <2>3, <2>4 DEF start_codebuild
<1>4. CASE BuildEnds
  BY <1>4 DEF BuildEnds
<1>5. CASE stream_build_logs
  BY <1>5 DEF stream_build_logs
<1> QED
  BY <1>1, <1>2, <1>3, <1>4, <1>5

(* Each call of the exit handler settles its own thing or records that it went wrong. *)
LEMMA CleaningKeeps ==
  ASSUME CodeBuildAssumption, BuildInv,
         EmptyBucket \/ DeleteBucket \/ DetachPolicy \/ DeleteRole \/ DeletePolicy
  PROVE  BuildInv'
<1> USE DEF BuildInv, BuildTypeOK, HangsTogether, NothingAmissYet, CleanedSoFar, Things, Groups,
            Cleaning, LeftoversHaveReasons, Trouble, Undo, GroupAfter
<1> USE StandingIs
<1>1. CASE EmptyBucket
  BY <1>1 DEF EmptyBucket
<1>2. CASE DeleteBucket
  BY <1>2 DEF DeleteBucket
<1>3. CASE DetachPolicy
  BY <1>3 DEF DetachPolicy
<1>4. CASE DeleteRole
  BY <1>4 DEF DeleteRole
<1>5. CASE DeletePolicy
  BY <1>5 DEF DeletePolicy
<1> QED
  BY <1>1, <1>2, <1>3, <1>4, <1>5

(* The invariant, for any number of calls that go wrong: what the script knows the names of
   and what there is in the account keep in step until the exit handler has been through. *)
THEOREM BuildInvariant == BuildSpec => []BuildInv
<1>1. BuildInit => BuildInv
  BY CodeBuildAssumption
     DEF BuildInit, BuildInv, BuildTypeOK, HangsTogether, NothingAmissYet, CleanedSoFar, Things,
         Groups, Cleaning, Standing, LeftoversHaveReasons
<1>2. BuildInv /\ [BuildNext]_bvars => BuildInv'
  <2> SUFFICES ASSUME BuildInv, [BuildNext]_bvars
               PROVE  BuildInv'
    OBVIOUS
  <2>1. CASE Killed
    BY <2>1 DEF Killed, BuildInv, BuildTypeOK, HangsTogether, NothingAmissYet, CleanedSoFar, Things,
                Groups, Cleaning, Standing, LeftoversHaveReasons, Trouble
  <2>2. CASE UNCHANGED bvars
    BY <2>2 DEF bvars, BuildInv, BuildTypeOK, HangsTogether, NothingAmissYet, CleanedSoFar,
                LeftoversHaveReasons
  <2> QED
    BY <2>1, <2>2, MakeKeeps, MakingKeeps, CleaningKeeps, CodeBuildAssumption DEF BuildNext
<1> QED
  BY <1>1, <1>2, PTL DEF BuildSpec

(* However the script went, the account keeps nothing of it for which there is no reason. *)
THEOREM BuildLeavesWithReasons == BuildSpec => []LeftoversHaveReasons
BY BuildInvariant, PTL DEF BuildInv

-----------------------------------------------------------------------------
(* The profile that is deployed.                                             *)

Exports(env) == env = {} \/ \E e \in Exported : env = {e}

(* A configuration and an environment make a choice like any other. *)
LEMMA InputsAreAChoice ==
  ASSUME ProfileAssumption, choice \in Choice, NEW env, Exports(env)
  PROVE  Inputs(env) \in Choice
<1>1. CASE env = {}
  BY <1>1 DEF Inputs
<1>2. ASSUME NEW e \in Exported, env = {e}
      PROVE  Inputs(env) \in Choice
  <2>1. (CHOOSE x \in env : TRUE) = e
    BY <1>2
  <2>2. e.profile \in Selectable /\ e.clients \in BOOLEAN
    BY DEF ProfileAssumption
  <2>3. Inputs(env) = [choice EXCEPT !.profile = e.profile, !.clients = e.clients]
    BY <1>2, <2>1 DEF Inputs
  <2> QED
    BY <2>2, <2>3 DEF Choice
<1> QED
  BY <1>1, <1>2 DEF Exports

LEMMA ChoiceFits ==
  ASSUME ProfileAssumption, NEW c \in Choice
  PROVE  /\ c.profile \in Profile /\ c.mcp \in BOOLEAN
         /\ c.profile.modes \in (SUBSET {"autonomous", "live", "batch"}) \ {{}}
         /\ c.profile.inbound \in {"cognito", "entra", "okta"}
         /\ c.profile.frontend \in {"cognito", "cognito+federated", "direct-entra", "direct-okta"}
         /\ Flow(c.profile) \in {"BASIC", "M2M", "USER_FEDERATION", "OBO"}
         /\ LoginIssuer(c.profile) \in {"cognito", "entra", "okta"}
<1>1. c.profile \in Profile /\ c.mcp \in BOOLEAN
  BY DEF Choice, ProfileAssumption
<1> QED
  BY <1>1 DEF Profile, Flow, LoginIssuer

(* A file that is gone is as good as one that says nothing. *)
LEMMA FreshFile ==
  ASSUME NEW c, NEW mcp, NEW withLogin
  PROVE  RunEmit(Blank, c, mcp, withLogin) = Emission(c, mcp, withLogin)
BY DEF RunEmit

(* Most values of an axis leave no block; what is stood up from the blocks that are there
   is nevertheless what the profile says. *)
LEMMA BlocksSayTheProfile ==
  ASSUME ProfileAssumption, NEW c \in Choice, NEW withLogin
  PROVE  LET e == Emission(c, c.mcp, withLogin)
         IN Stands(e, c.mcp) = Selected(c.profile, c.mcp) \/ SynthRefuses(e, c)
<1> DEFINE e == Emission(c, c.mcp, withLogin)
<1> DEFINE p == c.profile
<1>1. /\ e.inbound = InboundBlock(p) /\ e.modes = ModeBlock(p)
      /\ e.outbound = OutboundBlock(p, c.mcp)
  BY DEF Emission
<1>2. /\ p.modes \in (SUBSET {"autonomous", "live", "batch"}) \ {{}}
      /\ p.inbound \in {"cognito", "entra", "okta"} /\ c.mcp \in BOOLEAN
      /\ Flow(p) \in {"BASIC", "M2M", "USER_FEDERATION", "OBO"}
  BY ChoiceFits
<1> HIDE DEF e, p
<1>3. Authorizer(e) = p.inbound
  BY <1>1, <1>2 DEF Authorizer, InboundBlock
<1>4. "batch" \in e.modes <=> "batch" \in p.modes
  BY <1>1, <1>2 DEF ModeBlock
<1>5. Provisions(e) <=> "autonomous" \in p.modes
  <2>1. e.modes \in SUBSET {"autonomous", "live", "batch"}
    BY <1>1, <1>2 DEF ModeBlock
  <2>2. CASE "autonomous" \in p.modes
    <3>1. e.modes = {} \/ e.modes = p.modes
      BY <1>1 DEF ModeBlock
    <3> QED
      BY <2>2, <3>1 DEF Provisions
  <2>3. CASE "autonomous" \notin p.modes
    <3>1. e.modes = p.modes
      BY <1>1, <2>3 DEF ModeBlock
    <3>2. p.modes # {}
      BY <1>2
    <3> QED
      BY <2>3, <3>1, <3>2 DEF Provisions
  <2> QED
    BY <2>2, <2>3
<1>6. ("batch" \in e.modes) = ("batch" \in p.modes) /\ Provisions(e) = ("autonomous" \in p.modes)
  <2>1. Provisions(e) \in BOOLEAN
    BY Zenon DEF Provisions
  <2> QED
    BY <1>4, <1>5, <2>1
<1>7. Target(e, c.mcp) = Selected(p, c.mcp).target
  <2>1. CASE ~c.mcp
    BY <2>1 DEF Target, Selected
  <2>2. CASE c.mcp
    <3>1. e.outbound = Flow(p)
      BY <1>1, <2>2 DEF OutboundBlock
    <3>2. CASE Flow(p) \in {"BASIC", "M2M"}
      BY <2>2, <3>1, <3>2 DEF Target, Selected
    <3>3. CASE Flow(p) = "USER_FEDERATION"
      BY <2>2, <3>1, <3>3 DEF Target, Selected
    <3>4. CASE Flow(p) = "OBO"
      BY <2>2, <3>1, <3>4 DEF Target, Selected
    <3> QED
      BY <1>2, <3>2, <3>3, <3>4
  <2> QED
    BY <1>2, <2>1, <2>2
<1>8. Stands(e, c.mcp) = Selected(p, c.mcp)
  <2>1. Selected(p, c.mcp) = [authorizer |-> p.inbound, autonomous |-> "autonomous" \in p.modes,
                              batch |-> "batch" \in p.modes,
                              target |-> Selected(p, c.mcp).target]
    BY DEF Selected
  <2> QED
    BY <1>3, <1>6, <1>7, <2>1 DEF Stands
<1> QED
  BY <1>8 DEF e, p

(* Without Python only the default is stood up, and no file says just that. *)
LEMMA BlankSaysTheDefault ==
  ASSUME ProfileAssumption
  PROVE  Stands(Blank, FALSE) = Selected(Basic, FALSE)
<1>1. Provisions(Blank) = TRUE
  BY DEF Provisions, Blank
<1>2. ("autonomous" \in Basic.modes) = TRUE /\ ("batch" \in Basic.modes) = FALSE
  BY DEF ProfileAssumption
<1>3. Authorizer(Blank) = Basic.inbound /\ ("batch" \in Blank.modes) = FALSE
  BY DEF ProfileAssumption, Authorizer, Blank
<1>4. Target(Blank, FALSE) = "none"
  BY DEF Target
<1>5. Selected(Basic, FALSE) = [authorizer |-> Basic.inbound, autonomous |-> TRUE, batch |-> FALSE,
                                target |-> "none"]
  BY <1>2 DEF Selected
<1> QED
  BY <1>1, <1>3, <1>4, <1>5 DEF Stands

(* The file is of the profile last synthesised, as long as nothing else ran: in particular
   its login block is. *)
FileIsOfTheSynthesis ==
  synthed # {} => \E p \in Profile : synthed = {p} /\ artifact.frontend = LoginBlock(p)

AuthInv ==
  /\ choice \in Choice
  /\ FileIsOfTheSynthesis
  /\ StacksFollowProfile
  /\ SiteFollowsProfile

LEMMA SynthKeeps ==
  ASSUME ProfileAssumption, AuthInv, NEW env, Exports(env), Synth(env)
  PROVE  AuthInv'
<1> DEFINE c == Inputs(env)
           e == Emission(c, c.mcp, TRUE)
<1>1. c \in Choice
  BY InputsAreAChoice DEF AuthInv
<1>2. RunEmit(Cleared(artifact), c, c.mcp, TRUE) = e
  BY FreshFile DEF Cleared
<1>3. UNCHANGED <<choice, spa>>
  BY DEF Synth
<1>4. SiteFollowsProfile'
  BY <1>3 DEF AuthInv, SiteFollowsProfile
<1>5. CASE ~Emits(c, TRUE)
  <2>1. synthed' = {} /\ standing' = standing
    BY <1>5 DEF Synth
  <2> QED
    BY <1>3, <1>4, <2>1 DEF AuthInv, FileIsOfTheSynthesis, StacksFollowProfile
<1>6. CASE Emits(c, TRUE)
  <2>1. artifact' = e /\ synthed' = {c.profile} /\ c.profile \in Catalog
    BY <1>2, <1>6 DEF Synth, Emits
  <2>2. FileIsOfTheSynthesis'
    <3>1. e.frontend = LoginBlock(c.profile)
      BY DEF Emission
    <3> QED
      BY <1>1, <2>1, <3>1, ChoiceFits DEF FileIsOfTheSynthesis
  <2>3. CASE SynthRefuses(e, c)
    <3>1. standing' = standing
      BY <1>2, <1>6, <2>3 DEF Synth
    <3> QED
      BY <1>3, <1>4, <2>2, <3>1 DEF AuthInv, StacksFollowProfile
  <2>4. CASE ~SynthRefuses(e, c)
    <3>1. standing' = [by |-> "cdk", stands |-> Stands(e, c.mcp), choice |-> c]
      BY <1>2, <1>6, <2>4 DEF Synth
    <3>2. Stands(e, c.mcp) = Selected(c.profile, c.mcp)
      BY <1>1, <2>4, BlocksSayTheProfile
    <3>3. StacksFollowProfile'
      <4> HIDE DEF c, e
      <4>1. (c.mcp /\ "cdk" # "terraform") = c.mcp
        BY <1>1, ChoiceFits
      <4> QED
        BY <2>1, <3>1, <3>2, <4>1 DEF StacksFollowProfile
    <3> QED
      BY <1>3, <1>4, <2>2, <3>3 DEF AuthInv
  <2> QED
    BY <2>3, <2>4
<1> QED
  BY <1>5, <1>6

LEMMA FallbackKeeps ==
  ASSUME ProfileAssumption, AuthInv, NEW env, Exports(env), SynthWithoutPython(env)
  PROVE  AuthInv'
<1> DEFINE c == Inputs(env)
<1>1. c \in Choice
  BY InputsAreAChoice DEF AuthInv
<1>2. UNCHANGED <<choice, spa>> /\ synthed' = {}
  BY DEF SynthWithoutPython
<1>3. StacksFollowProfile'
  <2>1. CASE c.profile # Basic
    <3>1. standing' = standing
      BY <2>1 DEF SynthWithoutPython
    <3> QED
      BY <3>1 DEF AuthInv, StacksFollowProfile
  <2>2. CASE c.profile = Basic
    <3>1. standing' = [by |-> "fallback", stands |-> Stands(Blank, c.mcp), choice |-> c]
      BY <2>2 DEF SynthWithoutPython, Cleared
    <3>2. c.mcp \in BOOLEAN
      BY <1>1, ChoiceFits
    <3>3. LoginIssuer(Basic) = "cognito" /\ Basic \in Catalog
      BY DEF ProfileAssumption, LoginIssuer
    <3> HIDE DEF c
    <3>4. CASE c.mcp = FALSE
      <4>1. Stands(Blank, c.mcp) = Selected(c.profile, FALSE)
        BY <2>2, <3>4, BlankSaysTheDefault
      <4>2. (c.mcp /\ "fallback" # "terraform") = FALSE
        BY <3>4
      <4> QED
        BY <2>2, <3>1, <3>3, <4>1, <4>2 DEF StacksFollowProfile
    <3>5. CASE c.mcp = TRUE
      BY <2>2, <3>1, <3>3, <3>5 DEF StacksFollowProfile
    <3> QED
      BY <3>2, <3>4, <3>5
  <2> QED
    BY <2>1, <2>2
<1> QED
  BY <1>2, <1>3 DEF AuthInv, FileIsOfTheSynthesis, SiteFollowsProfile

(* The part of a profile that Terraform can build is the part it stands up. *)
LEMMA TerraformKeeps ==
  ASSUME ProfileAssumption, AuthInv, NEW x \in Exported, TerraformPlan(x.profile, x.clients)
  PROVE  AuthInv'
<1> DEFINE c == [choice EXCEPT !.profile = x.profile, !.clients = x.clients]
<1>1. c \in Choice /\ c.profile = x.profile
  BY DEF AuthInv, Choice, ProfileAssumption
<1>2. UNCHANGED <<choice, spa>> /\ synthed' = {}
  BY DEF TerraformPlan
<1>3. StacksFollowProfile'
  <2>1. CASE ~(Emits(c, FALSE) /\ ~CdkOnly(x.profile))
    <3>1. standing' = standing
      BY <2>1 DEF TerraformPlan
    <3> QED
      BY <3>1 DEF AuthInv, StacksFollowProfile
  <2>2. CASE Emits(c, FALSE) /\ ~CdkOnly(x.profile)
    <3> DEFINE t == [authorizer |-> Authorizer(Emission(c, c.mcp, FALSE)),
                     autonomous |-> TRUE, batch |-> FALSE, target |-> "none"]
    <3>1. standing' = [by |-> "terraform", choice |-> c, stands |-> t]
      BY <2>2 DEF TerraformPlan
    <3>2. c.profile \in Catalog /\ LoginIssuer(c.profile) = "cognito"
      BY <1>1, <2>2 DEF Emits, CdkOnly
    <3>3. ("autonomous" \in c.profile.modes) = TRUE /\ ("batch" \in c.profile.modes) = FALSE
      BY <1>1, <2>2 DEF CdkOnly
    <3>4. Authorizer(Emission(c, c.mcp, FALSE)) = c.profile.inbound
      <4>1. Emission(c, c.mcp, FALSE).inbound = InboundBlock(c.profile)
        BY DEF Emission
      <4>2. c.profile.inbound \in {"cognito", "entra", "okta"}
        BY <1>1, ChoiceFits
      <4> QED
        BY <4>1, <4>2 DEF Authorizer, InboundBlock
    <3>5. t = Selected(c.profile, FALSE)
      BY <3>3, <3>4 DEF Selected
    <3> HIDE DEF c, t
    <3>6. (c.mcp /\ "terraform" # "terraform") = FALSE
      OBVIOUS
    <3> QED
      BY <3>1, <3>2, <3>5, <3>6 DEF StacksFollowProfile
  <2> QED
    BY <2>1, <2>2
<1> QED
  BY <1>2, <1>3 DEF AuthInv, FileIsOfTheSynthesis, SiteFollowsProfile

(* The site's deployment writes the same login block again or, with nothing to say, finds
   the one of the synthesis: either is the profile's. *)
LEMMA ExportKeeps ==
  ASSUME ProfileAssumption, AuthInv, NEW env, Exports(env), ExportSite(env)
  PROVE  AuthInv'
<1> DEFINE c == Inputs(env)
           e == Emission(c, FALSE, TRUE)
           file == RunEmit(artifact, c, FALSE, TRUE)
<1>1. c \in Choice
  BY InputsAreAChoice DEF AuthInv
<1>2. UNCHANGED <<choice, standing>> /\ synthed' = {}
  BY DEF ExportSite
<1>3. SiteFollowsProfile'
  <2>1. CASE ~Emits(c, TRUE)
    BY <2>1 DEF ExportSite, AuthInv, SiteFollowsProfile
  <2>2. CASE Emits(c, TRUE)
    <3>1. spa' = [issuer |-> IF file.frontend = "none" THEN "cognito" ELSE file.frontend,
                  profile |-> {c.profile}, inOrder |-> synthed = {c.profile}]
      BY <2>2 DEF ExportSite
    <3>2. e.frontend = LoginBlock(c.profile)
      BY DEF Emission
    <3>3. synthed = {c.profile} => artifact.frontend = LoginBlock(c.profile)
      BY DEF AuthInv, FileIsOfTheSynthesis
    <3>4. synthed = {c.profile} => file.frontend = LoginBlock(c.profile)
      <4>1. file = artifact \/ file = e
        BY DEF RunEmit
      <4> QED
        BY <3>2, <3>3, <4>1
    <3>5. LoginIssuer(c.profile) \in {"cognito", "entra", "okta"}
      BY <1>1, ChoiceFits
    <3> HIDE DEF c, file, e
    <3>6. synthed = {c.profile} =>
            (IF file.frontend = "none" THEN "cognito" ELSE file.frontend) = LoginIssuer(c.profile)
      BY <3>4, <3>5 DEF LoginBlock
    <3> QED
      BY <3>1, <3>6 DEF SiteFollowsProfile
  <2> QED
    BY <2>1, <2>2
<1> QED
  BY <1>2, <1>3 DEF AuthInv, FileIsOfTheSynthesis, StacksFollowProfile

(* The invariant, for any catalog and any sequence of edits and commands. *)
THEOREM AuthInvariant == AuthSpec => []AuthInv
<1>1. AuthInit => AuthInv
  BY DEF AuthInit, AuthInv, FileIsOfTheSynthesis, StacksFollowProfile, SiteFollowsProfile,
         NotStanding
<1>2. AuthInv /\ [AuthNext]_avars => AuthInv'
  <2> SUFFICES ASSUME AuthInv, [AuthNext]_avars
               PROVE  AuthInv'
    OBVIOUS
  <2>1. CASE Reconfigure
    BY <2>1, ProfileAssumption
       DEF Reconfigure, ProfileAssumption, AuthInv, FileIsOfTheSynthesis, StacksFollowProfile,
           SiteFollowsProfile
  <2>2. CASE UNCHANGED avars
    BY <2>2 DEF avars, AuthInv, FileIsOfTheSynthesis, StacksFollowProfile, SiteFollowsProfile
  <2>3. \A env \in Environments : Exports(env)
    BY DEF Environments, Exports
  <2> QED
    BY <2>1, <2>2, <2>3, SynthKeeps, FallbackKeeps, TerraformKeeps, ExportKeeps, ProfileAssumption
       DEF AuthNext
<1> QED
  BY <1>1, <1>2, PTL DEF AuthSpec

(* What goes through stands up what the profile selects on every axis. *)
THEOREM AuthStacksFollow == AuthSpec => []StacksFollowProfile
BY AuthInvariant, PTL DEF AuthInv

(* In the documented order the site sends people to the issuer of the profile. *)
THEOREM AuthSiteFollows == AuthSpec => []SiteFollowsProfile
BY AuthInvariant, PTL DEF AuthInv

-----------------------------------------------------------------------------
(* The console's deployment.                                                 *)

Seconds  == 0..MaxSeconds
Package0 == [by : Operators \cup {"nobody"}, sees : SUBSET SubStacks]
Deployer == [pc : {"start", "read", "uploaded", "watching", "done", "failed"},
             sees : SUBSET SubStacks, at : Seconds, key : Seconds, job : Nat]
Job      == [key : Seconds, status : {"RUNNING", "SUCCEED", "FAILED"}, served : Package0]

SiteTypeOK ==
  /\ inCloud \in SUBSET SubStacks
  /\ deployers \in [Operators -> Deployer]
  /\ staged \in [Seconds -> Package0]
  /\ jobs \in Seq(Job)
  /\ live \in Package0
  /\ second \in Seconds /\ drops \in Nat

(* A run whose package has gone up is past reading. *)
Sent(q) == deployers[q].pc \in {"uploaded", "watching", "done", "failed"}

(* The packages of the runs that had what they need and sent it in that second. *)
Placed ==
  [k \in Seconds |->
     {SitePackage(q) : q \in {o \in Operators :
        /\ Sent(o) /\ deployers[o].at = k
        /\ {"frontend", "backend"} \subseteq deployers[o].sees}}]

(* A run knows the key it used, and watches the job it started for that key. *)
RunKept(o) ==
  LET d == deployers[o] IN
  /\ d.pc \in {"read", "uploaded"} => {"frontend", "backend"} \subseteq d.sees
  /\ d.pc \in {"uploaded", "watching", "done"} =>
       d.key = d.at /\ staged[d.key] \in Placed[d.key]
  /\ d.pc \in {"watching", "done"} => d.job \in 1..Len(jobs) /\ jobs[d.job].key = d.key
  /\ d.pc = "done" => jobs[d.job].status = "SUCCEED"

(* Nothing is in a job or served but what some run sent in that second. *)
JobKept(j) ==
  /\ staged[jobs[j].key] \in Placed[jobs[j].key]
  /\ jobs[j].status = "SUCCEED" => jobs[j].served \in Placed[jobs[j].key]

SiteInv ==
  /\ SiteTypeOK
  /\ \A o \in Operators : RunKept(o)
  /\ \A j \in 1..Len(jobs) : JobKept(j)

LEMMA SiteTypes ==
  ASSUME SiteTypeOK
  PROVE  /\ \A o \in Operators : /\ deployers[o] \in Deployer
                                /\ deployers[o].key \in Seconds /\ deployers[o].at \in Seconds
         /\ \A j \in 1..Len(jobs) : /\ jobs[j] \in Job /\ jobs[j].key \in Seconds
                                     /\ jobs[j].status \in {"RUNNING", "SUCCEED", "FAILED"}
         /\ Len(jobs) \in Nat /\ DOMAIN jobs = 1..Len(jobs)
<1>1. deployers \in [Operators -> Deployer] /\ jobs \in Seq(Job)
  BY DEF SiteTypeOK
<1>2. \A j \in 1..Len(jobs) : jobs[j] \in Job
  BY <1>1, ElementOfSeq
<1> QED
  BY <1>1, <1>2, LenProperties DEF Deployer, Job

(* Whoever watched a job to its success had a package served that was sent in his second. *)
LEMMA SiteInvSays == SiteInv => DoneMeansServed
<1> SUFFICES ASSUME SiteInv, NEW o \in Operators, deployers[o].pc = "done"
             PROVE  LET job == jobs[deployers[o].job] IN
                    /\ job.status = "SUCCEED"
                    /\ \/ job.served = SitePackage(o)
                       \/ \E q \in Operators \ {o} :
                            deployers[q].at = deployers[o].at /\ job.served.by = q
                    /\ {"frontend", "backend"} \subseteq job.served.sees
  BY DEF DoneMeansServed
<1> DEFINE job == jobs[deployers[o].job]
<1>1. /\ job.status = "SUCCEED" /\ job.key = deployers[o].at
      /\ job.served \in Placed[job.key] /\ job.key \in Seconds
  <2>1. RunKept(o) /\ SiteTypeOK
    BY DEF SiteInv
  <2>2. deployers[o].job \in 1..Len(jobs) /\ job.key = deployers[o].key /\ job.status = "SUCCEED"
    BY <2>1 DEF RunKept
  <2>3. deployers[o].key = deployers[o].at
    BY <2>1 DEF RunKept
  <2>4. JobKept(deployers[o].job)
    BY <2>2 DEF SiteInv
  <2> QED
    BY <2>1, <2>2, <2>3, <2>4, SiteTypes DEF JobKept
<1>2. PICK q \in Operators : /\ job.served = SitePackage(q) /\ deployers[q].at = job.key
                             /\ {"frontend", "backend"} \subseteq deployers[q].sees
  BY <1>1 DEF Placed
<1>3. job.served.by = q /\ job.served.sees = deployers[q].sees
  BY <1>2 DEF SitePackage
<1> QED
  BY <1>1, <1>2, <1>3

SentStays ==
  \A q \in Operators : Sent(q) =>
    Sent(q)' /\ deployers'[q].sees = deployers[q].sees /\ deployers'[q].at = deployers[q].at

(* What was sent stays what it is, whatever anybody does next. *)
LEMMA PlacedStays ==
  ASSUME SentStays
  PROVE  \A k \in Seconds : Placed[k] \subseteq Placed'[k]
BY DEF SentStays, Placed, SitePackage

(* A run that reads, gives up or is done leaves the jobs and the bucket alone. *)
LEMMA MoveKeeps ==
  ASSUME SiteAssumption, SiteInv, NEW o \in Operators, NEW d \in Deployer,
         deployers' = [deployers EXCEPT ![o] = d],
         d.pc \in {"read", "done", "failed"},
         Sent(o) => d.sees = deployers[o].sees /\ d.at = deployers[o].at /\ d.pc # "read",
         d.pc = "read" => {"frontend", "backend"} \subseteq d.sees,
         d.pc = "done" => /\ deployers[o].pc = "watching" /\ d.key = deployers[o].key
                          /\ d.job = deployers[o].job /\ jobs[d.job].status = "SUCCEED",
         drops' \in Nat, UNCHANGED <<inCloud, staged, jobs, live, second>>
  PROVE  SiteInv'
<1>1. SiteTypeOK'
  BY DEF SiteInv, SiteTypeOK
<1>2. /\ deployers'[o] = d
      /\ \A q \in Operators \ {o} : deployers'[q] = deployers[q]
  BY DEF SiteInv, SiteTypeOK
<1>3. SentStays
  BY <1>2 DEF SentStays, Sent
<1>4. \A k \in Seconds : Placed[k] \subseteq Placed'[k]
  BY <1>3, PlacedStays
<1>5. \A q \in Operators : deployers[q].key \in Seconds /\ deployers[q].at \in Seconds
  BY DEF SiteInv, SiteTypeOK, Deployer
<1>6. \A j \in 1..Len(jobs) : JobKept(j)'
  BY <1>4, SiteTypes DEF SiteInv, JobKept
<1>7. \A q \in Operators \ {o} : RunKept(q)'
  BY <1>2, <1>4, <1>5 DEF SiteInv, RunKept
<1>8. RunKept(o)'
  <2>1. CASE d.pc = "done"
    BY <1>2, <1>4, <1>5, <2>1 DEF SiteInv, RunKept, Sent
  <2>2. CASE d.pc # "done"
    BY <1>2, <2>2 DEF RunKept
  <2> QED
    BY <2>1, <2>2
<1> QED
  BY <1>1, <1>6, <1>7, <1>8 DEF SiteInv

LEMMA OutputsKeep ==
  ASSUME SiteAssumption, SiteInv, NEW o \in Operators, CollectOutputs(o) \/ TerraformOutputs(o)
  PROVE  SiteInv'
<1>1. /\ deployers[o].pc = "start" /\ ~Sent(o) /\ drops' \in Nat
      /\ UNCHANGED <<inCloud, staged, jobs, live, second>>
  <2>1. drops \in Nat
    BY DEF SiteInv, SiteTypeOK
  <2>2. CASE CollectOutputs(o)
    <3>1. deployers[o].pc = "start" /\ UNCHANGED <<inCloud, staged, jobs, live, second>>
      BY <2>2 DEF CollectOutputs, GivesUp
    <3>2. drops' = drops \/ Drop
      BY <2>2 DEF CollectOutputs, GivesUp
    <3> QED
      BY <2>1, <3>1, <3>2 DEF Drop, Sent
  <2>3. CASE TerraformOutputs(o)
    BY <2>1, <2>3 DEF TerraformOutputs, GivesUp, Drop, Sent
  <2> QED
    BY <2>2, <2>3
<1>2. inCloud \in SUBSET SubStacks /\ SiteTypeOK
  BY DEF SiteInv, SiteTypeOK
<1>3. ASSUME NEW sees \in SUBSET SubStacks, WithOutputs(o, sees)
      PROVE  SiteInv'
  <2> DEFINE d == [deployers[o] EXCEPT !.sees = sees,
                                       !.pc = IF Suffices(o, sees) THEN "read" ELSE "failed"]
  <2>1. deployers' = [deployers EXCEPT ![o] = d]
    BY <1>2, <1>3 DEF WithOutputs, SiteTypeOK
  <2>2. /\ d \in Deployer /\ d.pc \in {"read", "failed"} /\ d.sees = sees
        /\ d.pc = "read" => Suffices(o, sees)
    <3>1. PICK pc \in {"read", "failed"} : /\ pc = IF Suffices(o, sees) THEN "read" ELSE "failed"
      OBVIOUS
    <3>2. d = [deployers[o] EXCEPT !.sees = sees, !.pc = pc]
      BY <3>1
    <3>3. d \in Deployer /\ d.pc = pc /\ d.sees = sees
      <4>1. deployers[o] \in Deployer
        BY <1>2, SiteTypes
      <4> QED
        BY <3>2, <4>1 DEF Deployer
    <3> QED
      BY <3>1, <3>3
  <2>3. d.pc = "read" => {"frontend", "backend"} \subseteq d.sees
    BY <2>2 DEF Suffices
  <2> HIDE DEF d
  <2> QED
    BY <1>1, <2>1, <2>2, <2>3, MoveKeeps
<1>4. CASE Become(o, "failed")
  <2> DEFINE d == [deployers[o] EXCEPT !.pc = "failed"]
  <2>1. deployers' = [deployers EXCEPT ![o] = d]
    BY <1>2, <1>4 DEF Become, SiteTypeOK
  <2>2. d \in Deployer /\ d.pc = "failed"
    <3>1. deployers[o] \in Deployer
      BY <1>2, SiteTypes
    <3> QED
      BY <3>1 DEF Deployer
  <2> HIDE DEF d
  <2> QED
    BY <1>1, <2>1, <2>2, MoveKeeps
<1> QED
  BY <1>2, <1>3, <1>4 DEF CollectOutputs, TerraformOutputs, GivesUp, TerraformSees

LEMMA WatchKeeps ==
  ASSUME SiteAssumption, SiteInv, NEW o \in Operators, Watch(o)
  PROVE  SiteInv'
<1>1. /\ deployers[o].pc = "watching" /\ drops' \in Nat
      /\ UNCHANGED <<inCloud, staged, jobs, live, second>>
  BY DEF Watch, GivesUp, SiteInv, SiteTypeOK, Drop
<1>2. SiteTypeOK /\ deployers[o].job \in 1..Len(jobs)
  BY <1>1 DEF SiteInv, RunKept
<1>3. jobs[deployers[o].job].status \in {"RUNNING", "SUCCEED", "FAILED"}
  BY <1>2, SiteTypes
<1>4. PICK pc \in {"done", "failed"} : /\ Become(o, pc)
                                       /\ pc = "done" => jobs[deployers[o].job].status = "SUCCEED"
  BY <1>3 DEF Watch, GivesUp, JobStatus, JobVerdict
<1> DEFINE d == [deployers[o] EXCEPT !.pc = pc]
<1>5. deployers' = [deployers EXCEPT ![o] = d]
  BY <1>2, <1>4 DEF Become, SiteTypeOK
<1>6. /\ d \in Deployer /\ d.pc = pc /\ d.sees = deployers[o].sees /\ d.at = deployers[o].at
      /\ d.key = deployers[o].key /\ d.job = deployers[o].job
  <2>1. deployers[o] \in Deployer
    BY <1>2, SiteTypes
  <2> QED
    BY <2>1 DEF Deployer
<1> HIDE DEF d
<1> QED
  BY <1>1, <1>4, <1>5, <1>6, MoveKeeps

(* A package that goes up takes the place of what was sent in the same second. *)
LEMMA UploadKeeps ==
  ASSUME SiteAssumption, SiteInv, NEW o \in Operators, BuildAndUpload(o)
  PROVE  SiteInv'
<1>1. /\ SiteTypeOK /\ deployers[o].pc = "read" /\ ~Sent(o)
      /\ {"frontend", "backend"} \subseteq deployers[o].sees
      /\ UNCHANGED <<inCloud, jobs, live, second>>
  BY DEF SiteInv, RunKept, BuildAndUpload, Sent
<1>2. /\ second \in Seconds /\ deployers[o] \in Deployer /\ SitePackage(o) \in Package0
      /\ drops' \in Nat /\ staged \in [Seconds -> Package0]
  <2>1. deployers[o] \in Deployer /\ drops \in Nat /\ second \in Seconds
    BY <1>1, SiteTypes DEF SiteTypeOK
  <2>2. drops' = drops \/ Drop
    BY DEF BuildAndUpload, WithPackage
  <2> QED
    BY <1>1, <2>1, <2>2 DEF SitePackage, Deployer, Package0, Drop, SiteTypeOK
<1>3. PICK pc \in {"uploaded", "failed"} :
        /\ \/ staged' = [staged EXCEPT ![second] = SitePackage(o)]
           \/ pc = "failed" /\ staged' = staged
        /\ deployers'[o] \in Deployer /\ deployers'[o].pc = pc /\ deployers'[o].at = second
        /\ deployers'[o].sees = deployers[o].sees
        /\ pc = "uploaded" => deployers'[o].key = second
  <2>1. CASE /\ staged' = [staged EXCEPT ![ZipKey(second)] = SitePackage(o)]
             /\ deployers' = [deployers EXCEPT ![o].pc = "uploaded", ![o].at = second,
                                               ![o].key = ZipKey(second)]
    BY <1>1, <1>2, <2>1 DEF ZipKey, SiteTypeOK, Deployer
  <2>2. CASE /\ staged' \in {staged, [staged EXCEPT ![ZipKey(second)] = SitePackage(o)]}
             /\ deployers' = [deployers EXCEPT ![o].pc = "failed", ![o].at = second]
    BY <1>1, <1>2, <2>2 DEF ZipKey, SiteTypeOK, Deployer
  <2> QED
    BY <2>1, <2>2 DEF BuildAndUpload, WithPackage
<1>4. \A q \in Operators \ {o} : deployers'[q] = deployers[q]
  BY <1>1 DEF BuildAndUpload, WithPackage, SiteTypeOK
<1>5. deployers' \in [Operators -> Deployer]
  <2>1. DOMAIN deployers' = Operators /\ deployers' = [q \in Operators |-> deployers'[q]]
    BY <1>1 DEF BuildAndUpload, WithPackage, SiteTypeOK
  <2>2. \A q \in Operators : deployers'[q] \in Deployer
    BY <1>1, <1>3, <1>4, SiteTypes
  <2> QED
    BY <2>1, <2>2
<1>6. SentStays
  BY <1>1, <1>4 DEF SentStays, Sent
<1>7. \A k \in Seconds : Placed[k] \subseteq Placed'[k]
  BY <1>6, PlacedStays
<1>8. SitePackage(o) \in Placed'[second]
  <2>1. SitePackage(o) = SitePackage(o)'
    BY <1>3 DEF SitePackage
  <2>2. Sent(o)' /\ deployers'[o].at = second /\ {"frontend", "backend"} \subseteq deployers'[o].sees
    BY <1>1, <1>3 DEF Sent
  <2> QED
    BY <1>2, <2>1, <2>2 DEF Placed
<1>9. /\ staged' \in [Seconds -> Package0]
      /\ \A k \in Seconds : staged'[k] = staged[k] \/ (k = second /\ staged'[k] = SitePackage(o))
      /\ pc = "uploaded" => staged'[second] = SitePackage(o)
  BY <1>2, <1>3
<1>10. SiteTypeOK'
  BY <1>1, <1>2, <1>5, <1>9 DEF SiteTypeOK
<1>11. \A j \in 1..Len(jobs) : JobKept(j)'
  BY <1>1, <1>7, <1>8, <1>9, SiteTypes DEF SiteInv, JobKept
<1>12. RunKept(o)'
  BY <1>1, <1>3, <1>8, <1>9 DEF RunKept
<1>13. ASSUME NEW q \in Operators \ {o}
       PROVE  RunKept(q)'
  <2>1. RunKept(q) /\ deployers'[q] = deployers[q] /\ deployers[q].key \in Seconds
    BY <1>1, <1>4, SiteTypes DEF SiteInv
  <2> QED
    BY <1>1, <1>7, <1>8, <1>9, <2>1 DEF RunKept
<1> QED
  BY <1>1, <1>10, <1>11, <1>12, <1>13 DEF SiteInv

LEMMA StartKeeps ==
  ASSUME SiteAssumption, SiteInv, NEW o \in Operators, StartDeployment(o)
  PROVE  SiteInv'
<1> DEFINE J == Pending(deployers[o].key)
<1>1. /\ SiteTypeOK /\ deployers[o].pc = "uploaded" /\ Sent(o)
      /\ deployers[o].key \in Seconds /\ staged[deployers[o].key] \in Placed[deployers[o].key]
      /\ deployers[o].key = deployers[o].at /\ deployers[o] \in Deployer
      /\ UNCHANGED <<inCloud, staged, live, second>>
  BY SiteTypes DEF SiteInv, RunKept, StartDeployment, GivesUp, Sent
<1>2. J \in Job /\ J.key = deployers[o].key /\ J.status = "RUNNING"
  BY <1>1 DEF Pending, Job, NoPackage, Package0
<1>3. drops' \in Nat
  <2>1. drops' = drops \/ Drop
    BY DEF StartDeployment, GivesUp
  <2> QED
    BY <1>1, <2>1 DEF Drop, SiteTypeOK
<1>4. /\ jobs' \in {jobs, Append(jobs, J)}
      /\ \/ /\ jobs' = Append(jobs, J)
            /\ deployers' = [deployers EXCEPT ![o].pc = "watching", ![o].job = Len(jobs) + 1]
         \/ deployers' = [deployers EXCEPT ![o].pc = "failed"]
  BY DEF StartDeployment, GivesUp, WithJob, Become
<1> HIDE DEF J
<1>5. jobs \in Seq(Job)
  BY <1>1 DEF SiteTypeOK
<1>6. /\ jobs' \in Seq(Job)
      /\ \A j \in 1..Len(jobs) : j \in 1..Len(jobs') /\ jobs'[j] = jobs[j]
      /\ \A j \in 1..Len(jobs') : j \in 1..Len(jobs) \/ jobs'[j] = J
      /\ jobs' = Append(jobs, J) => Len(jobs) + 1 \in 1..Len(jobs') /\ jobs'[Len(jobs) + 1] = J
  <2>1. CASE jobs' = jobs
    <3>1. Append(jobs, J) # jobs
      BY <1>2, <1>5, AppendProperties
    <3> QED
      BY <1>5, <2>1, <3>1
  <2>2. CASE jobs' = Append(jobs, J)
    <3>1. /\ Append(jobs, J) \in Seq(Job) /\ Len(Append(jobs, J)) = Len(jobs) + 1
          /\ \A i \in 1..Len(jobs) : Append(jobs, J)[i] = jobs[i]
          /\ Append(jobs, J)[Len(jobs) + 1] = J
      BY <1>2, <1>5, AppendProperties
    <3>2. Len(jobs) \in Nat
      BY <1>5, LenProperties
    <3> QED
      BY <2>2, <3>1, <3>2
  <2> QED
    BY <1>4, <2>1, <2>2
<1>7. /\ deployers'[o] \in Deployer /\ deployers'[o].sees = deployers[o].sees
      /\ deployers'[o].at = deployers[o].at /\ deployers'[o].key = deployers[o].key
      /\ \/ deployers'[o].pc = "failed"
         \/ /\ deployers'[o].pc = "watching" /\ deployers'[o].job = Len(jobs) + 1
            /\ jobs' = Append(jobs, J)
  <2>1. Len(jobs) + 1 \in Nat
    BY <1>5, LenProperties
  <2>2. CASE deployers' = [deployers EXCEPT ![o].pc = "watching", ![o].job = Len(jobs) + 1]
             /\ jobs' = Append(jobs, J)
    <3>1. PICK n \in Nat : n = Len(jobs) + 1
      BY <2>1
    <3>2. deployers'[o] = [deployers[o] EXCEPT !.pc = "watching", !.job = n]
      BY <1>1, <2>2, <3>1 DEF SiteTypeOK
    <3>3. /\ deployers'[o] \in Deployer /\ deployers'[o].pc = "watching"
          /\ deployers'[o].job = n /\ deployers'[o].sees = deployers[o].sees
          /\ deployers'[o].at = deployers[o].at /\ deployers'[o].key = deployers[o].key
      BY <1>1, <3>2 DEF Deployer
    <3> QED
      BY <2>2, <3>1, <3>3
  <2>3. CASE deployers' = [deployers EXCEPT ![o].pc = "failed"]
    BY <1>1, <2>3 DEF SiteTypeOK, Deployer
  <2> QED
    BY <1>4, <2>2, <2>3
<1>8. /\ \A q \in Operators \ {o} : deployers'[q] = deployers[q]
      /\ DOMAIN deployers' = Operators /\ deployers' = [q \in Operators |-> deployers'[q]]
  BY <1>1, <1>4 DEF SiteTypeOK
<1>9. deployers' \in [Operators -> Deployer]
  <2>1. \A q \in Operators : deployers'[q] \in Deployer
    BY <1>1, <1>7, <1>8, SiteTypes
  <2> QED
    BY <1>8, <2>1
<1>10. SiteTypeOK'
  BY <1>1, <1>3, <1>6, <1>9 DEF SiteTypeOK
<1>11. SentStays
  BY <1>1, <1>7, <1>8 DEF SentStays, Sent
<1>12. \A k \in Seconds : Placed[k] \subseteq Placed'[k]
  BY <1>11, PlacedStays
<1>13. ASSUME NEW j \in 1..Len(jobs')
       PROVE  JobKept(j)'
  <2>1. CASE j \in 1..Len(jobs)
    <3>1. JobKept(j) /\ jobs[j].key \in Seconds /\ jobs'[j] = jobs[j]
      BY <1>1, <1>6, <2>1, SiteTypes DEF SiteInv
    <3> QED
      BY <1>1, <1>12, <3>1 DEF JobKept
  <2>2. CASE jobs'[j] = J
    BY <1>1, <1>2, <1>12, <2>2 DEF JobKept
  <2> QED
    BY <1>6, <2>1, <2>2
<1>14. RunKept(o)'
  BY <1>1, <1>2, <1>6, <1>7, <1>12 DEF RunKept
<1>15. ASSUME NEW q \in Operators \ {o}
       PROVE  RunKept(q)'
  <2>1. RunKept(q) /\ deployers'[q] = deployers[q] /\ deployers[q].key \in Seconds
    BY <1>1, <1>8, SiteTypes DEF SiteInv
  <2> QED
    BY <1>1, <1>6, <1>12, <2>1 DEF RunKept
<1> QED
  BY <1>10, <1>13, <1>14, <1>15 DEF SiteInv

(* A job serves what is under its key when its turn comes. *)
LEMMA JobKeeps ==
  ASSUME SiteAssumption, SiteInv, NEW i \in DOMAIN jobs, JobEnds(i)
  PROVE  SiteInv'
<1>1. /\ SiteTypeOK /\ i \in 1..Len(jobs) /\ jobs[i] \in Job /\ jobs[i].key \in Seconds
      /\ jobs[i].status = "RUNNING" /\ UNCHANGED <<inCloud, deployers, staged, second>>
  BY SiteTypes DEF SiteInv, JobEnds
<1>2. staged[jobs[i].key] \in Package0 /\ staged[jobs[i].key] \in Placed[jobs[i].key]
  BY <1>1 DEF SiteInv, JobKept, SiteTypeOK
<1>3. drops' \in Nat
  <2>1. drops' = drops \/ Drop
    BY DEF JobEnds
  <2> QED
    BY <1>1, <2>1 DEF Drop, SiteTypeOK
<1>4. PICK J \in Job :
        /\ jobs' = [jobs EXCEPT ![i] = J] /\ J.key = jobs[i].key
        /\ J.status = "SUCCEED" => J.served = staged[jobs[i].key]
        /\ live' \in Package0
  <2>1. CASE /\ live' = staged[jobs[i].key]
             /\ jobs' = [jobs EXCEPT ![i].status = "SUCCEED", ![i].served = staged[jobs[i].key]]
    <3> DEFINE J == [jobs[i] EXCEPT !.status = "SUCCEED", !.served = staged[jobs[i].key]]
    <3>1. J \in Job /\ J.key = jobs[i].key /\ J.served = staged[jobs[i].key]
      BY <1>1, <1>2 DEF Job
    <3>2. jobs' = [jobs EXCEPT ![i] = J]
      BY <2>1
    <3> QED
      BY <1>2, <2>1, <3>1, <3>2
  <2>2. CASE live' = live /\ jobs' = [jobs EXCEPT ![i].status = "FAILED"]
    <3> DEFINE J == [jobs[i] EXCEPT !.status = "FAILED"]
    <3>1. J \in Job /\ J.key = jobs[i].key /\ J.status = "FAILED"
      BY <1>1 DEF Job
    <3>2. jobs' = [jobs EXCEPT ![i] = J]
      BY <2>2
    <3> QED
      BY <1>1, <2>2, <3>1, <3>2 DEF SiteTypeOK
  <2> QED
    BY <2>1, <2>2 DEF JobEnds
<1>5. /\ jobs' \in Seq(Job) /\ Len(jobs') = Len(jobs) /\ jobs'[i] = J
      /\ \A j \in 1..Len(jobs) \ {i} : jobs'[j] = jobs[j]
  <2>1. jobs \in Seq(Job)
    BY <1>1 DEF SiteTypeOK
  <2> QED
    BY <1>1, <1>4, <2>1, ExceptSeq
<1>6. SiteTypeOK'
  BY <1>1, <1>3, <1>4, <1>5 DEF SiteTypeOK
<1>7. Placed' = Placed
  BY <1>1 DEF Placed, Sent, SitePackage
<1>8. \A j \in 1..Len(jobs') : JobKept(j)'
  BY <1>1, <1>2, <1>4, <1>5, <1>7, SiteTypes DEF SiteInv, JobKept
<1>9. ASSUME NEW o \in Operators
      PROVE  RunKept(o)'
  <2>1. RunKept(o) /\ deployers'[o] = deployers[o]
    BY <1>1 DEF SiteInv
  <2> QED
    BY <1>1, <1>4, <1>5, <1>7, <2>1 DEF RunKept
<1> QED
  BY <1>6, <1>8, <1>9 DEF SiteInv

(* The invariant, for any number of people deploying at once. *)
THEOREM SiteInvariant == SiteSpec => []SiteInv
<1>1. SiteInit => SiteInv
  <2> SUFFICES ASSUME SiteInit
               PROVE  SiteInv
    OBVIOUS
  <2>1. 0 \in Seconds /\ NoPackage \in Package0 /\ Start0 \in Deployer
    BY SiteAssumption DEF SiteAssumption, Seconds, NoPackage, Package0, Start0, Deployer
  <2>2. SiteTypeOK
    BY <2>1, SiteAssumption DEF SiteInit, SiteTypeOK, SiteAssumption, Seconds
  <2>3. \A o \in Operators : RunKept(o)
    BY DEF SiteInit, RunKept, Start0
  <2>4. Len(jobs) = 0
    BY DEF SiteInit
  <2> QED
    BY <2>2, <2>3, <2>4 DEF SiteInv
<1>2. SiteInv /\ [SiteNext]_wvars => SiteInv'
  <2> SUFFICES ASSUME SiteInv, [SiteNext]_wvars
               PROVE  SiteInv'
    OBVIOUS
  <2>1. CASE SecondPasses \/ UNCHANGED wvars
    <3>1. UNCHANGED <<inCloud, deployers, staged, jobs, live, drops>> /\ second' \in Seconds
      BY <2>1, SiteAssumption DEF SecondPasses, wvars, SiteInv, SiteTypeOK, Seconds, SiteAssumption
    <3>2. Placed' = Placed
      BY <3>1 DEF Placed, Sent, SitePackage
    <3> QED
      BY <3>1, <3>2 DEF SiteInv, SiteTypeOK, RunKept, JobKept
  <2> QED
    BY <2>1, OutputsKeep, UploadKeeps, StartKeeps, WatchKeeps, JobKeeps, SiteAssumption DEF SiteNext
<1> QED
  BY <1>1, <1>2, PTL DEF SiteSpec

(* A script that ends well has had its own package served. *)
THEOREM SiteDoneIsServed == SiteSpec => []DoneMeansServed
BY SiteInvariant, SiteInvSays, PTL

-----------------------------------------------------------------------------
(* The custom resources.                                                     *)

ProvisionTypeOK ==
  /\ phase \in {"none", "creating", "settled", "updating", "reverting", "deleting", "stuck"}
  /\ template \in Templates /\ target \in Templates
  /\ todo \in SUBSET Resources /\ touched \in SUBSET Resources
  /\ IsFiniteSet(DOMAIN engines) /\ engines \in [DOMAIN engines -> Seq(STRING)]
  /\ sdk \in BOOLEAN /\ spared \in BOOLEAN

(* What it means that a resource is as a template has it. *)
EngineInForce(t) ==
  id # NoApi =>
    /\ id \in DOMAIN engines
    /\ gateway = Guarding(id, t)
    /\ IF spared THEN ToSet(t.policies) \subseteq ToSet(engines[id]) ELSE engines[id] = t.policies

InForce(r, t) ==
  /\ r = "package" => bucket = t.code
  /\ r = "provider" => vault.discovery = Discovery(t)
  /\ r = "engine" => EngineInForce(t)

(* An engine has an id only where there is an API; the operation in hand began with it,
   or with none. *)
EngineKept ==
  /\ ~sdk => id = NoApi
  /\ phase \in {"settled", "updating", "reverting"} /\ id # NoApi => id \in DOMAIN engines
  /\ phase \in {"updating", "reverting"} /\ former # NoApi => id = former

(* How far the operation has come: what it has handled is as the template it moves to has
   it, what it has yet to handle as the one it comes from; a rollback has yet to handle
   all that the update touched or broke. *)
SoFar ==
  /\ phase = "settled" => \A r \in Resources : InForce(r, template)
  /\ phase = "creating" => \A r \in Resources \ todo : InForce(r, template)
  /\ phase = "updating" => /\ \A r \in Resources \ touched : InForce(r, template)
                           /\ \A r \in Resources \ todo : InForce(r, target)
  /\ phase = "reverting" => \A r \in Resources \ todo : InForce(r, template)

ProvisionInv == ProvisionTypeOK /\ EngineKept /\ SoFar

LEMMA SettledSays == ProvisionInv => SettledIsInForce
BY DEF ProvisionInv, SoFar, InForce, EngineInForce, SettledIsInForce, Resources

(* The engine a creation makes is a new one, and has an id. *)
LEMMA FreshIsFresh ==
  ASSUME ProvisionTypeOK
  PROVE  FreshEngine \in Nat \ {NoApi} /\ FreshEngine \notin DOMAIN engines
<1> DEFINE n == Cardinality(DOMAIN engines)
<1>1. n \in Nat /\ IsFiniteSet(DOMAIN engines)
  BY FS_CardinalityType DEF ProvisionTypeOK
<1>2. \E e \in 1..n + 1 : e \notin DOMAIN engines
  <2> SUFFICES ASSUME 1..n + 1 \in SUBSET DOMAIN engines
               PROVE  FALSE
    OBVIOUS
  <2>1. Cardinality(1..n + 1) <= n
    BY <1>1, FS_Subset
  <2>2. Cardinality(1..n + 1) = n + 1
    BY <1>1, FS_Interval
  <2> QED
    BY <1>1, <2>1, <2>2
<1> HIDE DEF n
<1>3. FreshEngine = CHOOSE e \in 1..n + 1 : e \notin DOMAIN engines
  BY DEF FreshEngine, n
<1>4. FreshEngine \in 1..n + 1 /\ FreshEngine \notin DOMAIN engines
  BY <1>2, <1>3
<1> QED
  BY <1>1, <1>4 DEF NoApi

(* A template's policies, from the first on: all of them are all of them. *)
LEMMA SomePolicies ==
  ASSUME ProvisionAssumption, NEW t \in Templates, NEW k \in 0..Len(t.policies)
  PROVE  /\ SubSeq(t.policies, 1, k) \in Seq(STRING)
         /\ k = Len(t.policies) => SubSeq(t.policies, 1, k) = t.policies
         /\ t.policies \in Seq(STRING) /\ Len(t.policies) \in Nat
<1>1. t.policies \in Seq(STRING) /\ Len(t.policies) \in Nat
  BY LenProperties DEF ProvisionAssumption
<1>2. \A i \in 1..k : t.policies[i] \in STRING
  BY <1>1, ElementOfSeq
<1>3. SubSeq(t.policies, 1, k) \in Seq(STRING)
  BY <1>1, <1>2, SubSeqProperties
<1> QED
  BY <1>1, <1>3, SubSeqFull

(* The answer to a request keeps account of what is in force, if the handler changed no
   other resource and a success means that its own is in force. *)
LEMMA ReplyKeeps ==
  ASSUME ProvisionInv, NEW r \in Resources, NEW ok \in BOOLEAN, NEW t, t = Wanted,
         Wants(r, {"creating", "updating", "reverting"}), Reply(r, ok),
         \A q \in Resources \ {r} : \A u \in Templates : InForce(q, u) => InForce(q, u)',
         ok => InForce(r, t)'
  PROVE  /\ SoFar'
         /\ phase' \in {"creating", "updating", "reverting", "deleting", "stuck"}
         /\ phase' \in {"updating", "reverting"} => phase \in {"updating", "reverting"}
         /\ template' \in Templates /\ target' \in Templates
         /\ todo' \in SUBSET Resources /\ touched' \in SUBSET Resources
<1>1. /\ template' = template /\ target' = target
      /\ template \in Templates /\ target \in Templates
      /\ r \in todo /\ phase \in {"creating", "updating", "reverting"}
      /\ todo \in SUBSET Resources /\ touched \in SUBSET Resources
  BY DEF ProvisionInv, ProvisionTypeOK, Wants, Reply
<1>2. CASE ok
  <2>1. phase' = phase /\ todo' = todo \ {r} /\ touched' = touched \cup {r}
    BY <1>2 DEF Reply
  <2>2. CASE phase = "creating" \/ phase = "reverting"
    <3>1. t = template /\ \A q \in Resources \ todo : InForce(q, template)
      BY <2>2 DEF Wanted, ProvisionInv, SoFar
    <3>2. \A q \in Resources \ todo' : InForce(q, template)'
      BY <1>1, <1>2, <2>1, <3>1
    <3> QED
      BY <1>1, <2>1, <2>2, <3>2 DEF SoFar
  <2>3. CASE phase = "updating"
    <3>1. /\ t = target /\ \A q \in Resources \ todo : InForce(q, target)
          /\ \A q \in Resources \ touched : InForce(q, template)
      BY <2>3 DEF Wanted, ProvisionInv, SoFar
    <3>2. \A q \in Resources \ todo' : InForce(q, target)'
      BY <1>1, <1>2, <2>1, <3>1
    <3>3. \A q \in Resources \ touched' : InForce(q, template)'
      BY <1>1, <2>1, <3>1
    <3> QED
      BY <1>1, <2>1, <2>3, <3>2, <3>3 DEF SoFar
  <2> QED
    BY <1>1, <2>2, <2>3
<1>3. CASE ~ok
  <2>1. FailsOn(r)
    BY <1>3 DEF Reply
  <2>2. CASE phase = "updating"
    <3>1. phase' = "reverting" /\ todo' = (touched \cup {r}) \cap Resources /\ touched' = {}
      BY <2>1, <2>2 DEF FailsOn
    <3>2. \A q \in Resources \ touched : InForce(q, template)
      BY <2>2 DEF ProvisionInv, SoFar
    <3>3. \A q \in Resources \ todo' : InForce(q, template)'
      BY <1>1, <3>1, <3>2
    <3> QED
      BY <1>1, <2>2, <3>1, <3>3 DEF SoFar
  <2>3. CASE phase # "updating"
    <3>1. phase' \in {"deleting", "stuck"} /\ todo' \in SUBSET Resources /\ touched' = {}
      BY <1>1, <2>1, <2>3 DEF FailsOn, Resources
    <3> QED
      BY <1>1, <3>1 DEF SoFar
  <2> QED
    BY <2>2, <2>3
<1> QED
  BY <1>2, <1>3

LEMMA EngineUntouched ==
  ASSUME UNCHANGED enginevars
  PROVE  \A u : EngineInForce(u) => EngineInForce(u)'
BY DEF enginevars, EngineInForce, Guarding

LEMMA PackageKeeps ==
  ASSUME ProvisionInv, NEW uploaded \in BOOLEAN, NEW ok \in BOOLEAN, Package(uploaded, ok)
  PROVE  ProvisionInv'
<1>1. /\ Wants("package", {"creating", "updating", "reverting"}) /\ Reply("package", ok)
      /\ UNCHANGED <<enginevars, vault, sdk>> /\ "package" \in Resources
      /\ ok => bucket' = Wanted.code
  BY DEF Package, Resources
<1>2. PICK t : t = Wanted
  OBVIOUS
<1>3. \A q \in Resources \ {"package"} : \A u \in Templates : InForce(q, u) => InForce(q, u)'
  BY <1>1, EngineUntouched DEF InForce, Discovery
<1>4. ok => InForce("package", t)'
  BY <1>1, <1>2 DEF InForce
<1>5. /\ SoFar'
      /\ phase' \in {"creating", "updating", "reverting", "deleting", "stuck"}
      /\ phase' \in {"updating", "reverting"} => phase \in {"updating", "reverting"}
      /\ template' \in Templates /\ target' \in Templates
      /\ todo' \in SUBSET Resources /\ touched' \in SUBSET Resources
  BY <1>1, <1>2, <1>3, <1>4, ReplyKeeps
<1> QED
  BY <1>1, <1>5 DEF ProvisionInv, ProvisionTypeOK, EngineKept, enginevars

LEMMA ProviderKeeps ==
  ASSUME ProvisionInv, NEW ok \in BOOLEAN, Provider(ok)
  PROVE  ProvisionInv'
<1>1. /\ Wants("provider", {"creating", "updating", "reverting"}) /\ Reply("provider", ok)
      /\ UNCHANGED <<enginevars, bucket, sdk>> /\ "provider" \in Resources
      /\ ok => vault' = ProviderConfig(Wanted)
  BY DEF Provider, Resources
<1>2. PICK t : t = Wanted
  OBVIOUS
<1>3. \A q \in Resources \ {"provider"} : \A u \in Templates : InForce(q, u) => InForce(q, u)'
  BY <1>1, EngineUntouched DEF InForce
<1>4. ok => InForce("provider", t)'
  <2>1. ProviderConfig(t).discovery = Discovery(t)
    BY DEF ProviderConfig
  <2>2. ok => vault'.discovery = Discovery(t)
    BY <1>1, <1>2, <2>1
  <2> QED
    BY <2>2 DEF InForce, Discovery
<1>5. /\ SoFar'
      /\ phase' \in {"creating", "updating", "reverting", "deleting", "stuck"}
      /\ phase' \in {"updating", "reverting"} => phase \in {"updating", "reverting"}
      /\ template' \in Templates /\ target' \in Templates
      /\ todo' \in SUBSET Resources /\ touched' \in SUBSET Resources
  BY <1>1, <1>2, <1>3, <1>4, ReplyKeeps
<1> QED
  BY <1>1, <1>5 DEF ProvisionInv, ProvisionTypeOK, EngineKept, enginevars

(* Whatever handles a deletion: nothing is claimed of a stack that is going. *)
LEMMA GoingKeeps ==
  ASSUME ProvisionInv, NEW r \in Resources, NEW ok \in BOOLEAN, Wants(r, {"deleting"}), Reply(r, ok),
         IsFiniteSet(DOMAIN engines'), engines' \in [DOMAIN engines' -> Seq(STRING)],
         spared' \in BOOLEAN, sdk' = sdk, id' \in {id, NoApi}
  PROVE  ProvisionInv'
<1>1. /\ template' = template /\ target' = target /\ phase = "deleting"
      /\ phase' \in {"deleting", "stuck"}
      /\ todo' \in SUBSET Resources /\ touched' \in SUBSET Resources
  BY DEF ProvisionInv, ProvisionTypeOK, Wants, Reply, FailsOn
<1> QED
  BY <1>1 DEF ProvisionInv, ProvisionTypeOK, EngineKept, SoFar

LEMMA DeletionsKeep ==
  ASSUME ProvisionInv,
         Unpackage \/ EngineDeleteNone \/ (\E ok \in BOOLEAN : DeleteProvider(ok))
  PROVE  ProvisionInv'
<1>1. IsFiniteSet(DOMAIN engines) /\ engines \in [DOMAIN engines -> Seq(STRING)] /\ spared \in BOOLEAN
  BY DEF ProvisionInv, ProvisionTypeOK
<1>2. "package" \in Resources /\ "provider" \in Resources /\ "engine" \in Resources
  BY DEF Resources
<1>3. CASE Unpackage
  BY <1>1, <1>2, <1>3, GoingKeeps DEF Unpackage, enginevars
<1>4. CASE EngineDeleteNone
  BY <1>1, <1>2, <1>4, GoingKeeps DEF EngineDeleteNone, enginevars
<1>5. ASSUME NEW ok \in BOOLEAN, DeleteProvider(ok)
      PROVE  ProvisionInv'
  BY <1>1, <1>2, <1>5, GoingKeeps DEF DeleteProvider, enginevars
<1> QED
  BY <1>3, <1>4, <1>5

(* What an engine's handler answers for: its own resource, and the ids' bookkeeping. *)
LEMMA EngineReplyKeeps ==
  ASSUME ProvisionInv, NEW ok \in BOOLEAN, NEW t, t = Wanted,
         Wants("engine", {"creating", "updating", "reverting"}), Reply("engine", ok),
         UNCHANGED <<former, vault, bucket, sdk>>,
         IsFiniteSet(DOMAIN engines'), engines' \in [DOMAIN engines' -> Seq(STRING)],
         spared' \in BOOLEAN,
         ok => EngineInForce(t)',
         ~sdk => id' = NoApi,
         phase \in {"updating", "reverting"} =>
           /\ former # NoApi => id' = former
           /\ id' # NoApi => id' \in DOMAIN engines'
  PROVE  ProvisionInv'
<1>1. \A q \in Resources \ {"engine"} : \A u \in Templates : InForce(q, u) => InForce(q, u)'
  BY DEF InForce, Discovery
<1>2. ok => InForce("engine", t)'
  BY DEF InForce
<1>3. /\ SoFar'
      /\ phase' \in {"creating", "updating", "reverting", "deleting", "stuck"}
      /\ phase' \in {"updating", "reverting"} => phase \in {"updating", "reverting"}
      /\ template' \in Templates /\ target' \in Templates
      /\ todo' \in SUBSET Resources /\ touched' \in SUBSET Resources
  BY <1>1, <1>2, ReplyKeeps DEF Resources
<1>4. phase' # "settled"
  BY <1>3
<1> QED
  BY <1>3, <1>4 DEF ProvisionInv, ProvisionTypeOK, EngineKept

LEMMA WithoutApiKeeps == ASSUME ProvisionInv, EngineWithoutApi PROVE ProvisionInv'
<1>1. PICK t : t = Wanted
  OBVIOUS
<1>2. /\ Wants("engine", {"creating", "updating", "reverting"}) /\ Reply("engine", TRUE) /\ ~sdk
      /\ UNCHANGED <<former, vault, bucket, sdk, engines, spared>> /\ id' \in {id, NoApi}
  BY DEF EngineWithoutApi
<1>3. id = NoApi /\ id' = NoApi
  BY <1>2 DEF ProvisionInv, EngineKept
<1>4. /\ IsFiniteSet(DOMAIN engines') /\ engines' \in [DOMAIN engines' -> Seq(STRING)]
      /\ spared' \in BOOLEAN
  BY <1>2 DEF ProvisionInv, ProvisionTypeOK
<1>5. phase \in {"updating", "reverting"} => former = NoApi
  BY <1>3 DEF ProvisionInv, EngineKept
<1>6. EngineInForce(t)'
  BY <1>3 DEF EngineInForce
<1> QED
  BY <1>1, <1>2, <1>3, <1>4, <1>5, <1>6, EngineReplyKeeps

LEMMA CreateKeeps ==
  ASSUME ProvisionAssumption, ProvisionInv, NEW n \in 0..Len(Wanted.policies) + 2, EngineCreate(n)
  PROVE  ProvisionInv'
<1>1. PICK t \in Templates : t = Wanted
  BY DEF ProvisionInv, ProvisionTypeOK, Wanted
<1>2. PICK e : e = FreshEngine
  OBVIOUS
<1>3. e \in Nat \ {NoApi} /\ e \notin DOMAIN engines
  BY <1>2, FreshIsFresh DEF ProvisionInv
<1>4. t.policies \in Seq(STRING) /\ Len(t.policies) \in Nat
  BY LenProperties DEF ProvisionAssumption
<1> DEFINE made == Len(t.policies) + 2
           k == IF n = made THEN n - 2 ELSE n - 1
<1>5. PICK ok \in BOOLEAN : ok = (n = made)
  OBVIOUS
<1>6. /\ Wants("engine", {"creating", "updating", "reverting"}) /\ Reply("engine", ok) /\ sdk
      /\ phase = "creating" \/ id = NoApi
      /\ UNCHANGED <<former, vault, bucket, sdk>>
      /\ CreateEngine(t, n)
  BY <1>1, <1>5 DEF EngineCreate
<1>7. CASE n = 0
  <2>1. engines' = engines /\ id' = id /\ spared' = FALSE /\ ~ok
    <3>1. n # made
      BY <1>4, <1>7
    <3>2. ~ok
      BY <1>5, <3>1
    <3> QED
      BY <1>6, <1>7, <3>1, <3>2 DEF CreateEngine
  <2>2. /\ IsFiniteSet(DOMAIN engines') /\ engines' \in [DOMAIN engines' -> Seq(STRING)]
        /\ phase \in {"updating", "reverting"} =>
              (former # NoApi => id' = former) /\ (id' # NoApi => id' \in DOMAIN engines')
    BY <2>1 DEF ProvisionInv, ProvisionTypeOK, EngineKept
  <2> QED
    BY <1>1, <1>6, <2>1, <2>2, EngineReplyKeeps
<1>8. CASE n # 0
  <2>1. k \in 0..Len(t.policies) /\ (n = made => k = Len(t.policies))
    <3>1. n \in 1..Len(t.policies) + 2
      BY <1>1, <1>4, <1>8
    <3> QED
      BY <1>4, <3>1
  <2>2. PICK policies \in Seq(STRING) :
          policies = SubSeq(t.policies, 1, k) /\ (n = made => policies = t.policies)
    BY <2>1, SomePolicies
  <2>3. engines' = WithEngine(e, policies) /\ spared' = FALSE
    BY <1>2, <1>4, <1>6, <1>8, <2>2 DEF CreateEngine
  <2>4. /\ DOMAIN engines' = DOMAIN engines \cup {e} /\ engines'[e] = policies
        /\ engines' \in [DOMAIN engines' -> Seq(STRING)]
    BY <2>2, <2>3 DEF WithEngine, ProvisionInv, ProvisionTypeOK
  <2>5. IsFiniteSet(DOMAIN engines')
    <3>1. IsFiniteSet(DOMAIN engines)
      BY DEF ProvisionInv, ProvisionTypeOK
    <3>2. PICK D : D = DOMAIN engines
      OBVIOUS
    <3>3. IsFiniteSet(D \cup {e})
      BY ONLY <3>1, <3>2, FS_AddElement
    <3> QED
      BY <2>4, <3>2, <3>3
  <2>6. CASE n = made
    <3>1. id' = e /\ gateway' = Guarding(e, t) /\ engines'[e] = t.policies
      BY <1>2, <1>6, <2>2, <2>4, <2>6 DEF CreateEngine
    <3>2. EngineInForce(t)'
      BY <2>3, <2>4, <3>1 DEF EngineInForce, Guarding
    <3>3. phase \in {"updating", "reverting"} => former = NoApi
      BY <1>6 DEF ProvisionInv, EngineKept
    <3> QED
      BY <1>1, <1>6, <2>3, <2>4, <2>5, <3>1, <3>2, <3>3, EngineReplyKeeps
  <2>7. CASE n # made
    <3>1. id' = id /\ ~ok
      BY <1>5, <1>6, <2>7 DEF CreateEngine
    <3>2. phase \in {"updating", "reverting"} =>
            (former # NoApi => id' = former) /\ (id' # NoApi => id' \in DOMAIN engines')
      BY <2>4, <3>1 DEF ProvisionInv, EngineKept
    <3> QED
      BY <1>1, <1>6, <2>3, <2>4, <2>5, <3>1, <3>2, EngineReplyKeeps
  <2> QED
    BY <2>6, <2>7
<1> QED
  BY <1>7, <1>8

(* After the policies of the first page have gone, all the new ones are there; with none
   left over they are all there is. *)
LEMMA Refreshed ==
  ASSUME NEW S, NEW old \in Seq(S), NEW fresh \in Seq(S), NEW d \in 0..Len(old)
  PROVE  LET rest == SubSeq(old, d + 1, Len(old)) IN
         /\ rest \in Seq(S) /\ rest \o fresh \in Seq(S)
         /\ ToSet(fresh) \subseteq ToSet(rest \o fresh)
         /\ d = Len(old) => rest \o fresh = fresh
<1> DEFINE rest == SubSeq(old, d + 1, Len(old))
<1>1. Len(old) \in Nat /\ Len(fresh) \in Nat /\ d + 1 \in Int /\ d \in Nat
  BY LenProperties
<1>2. \A i \in d + 1..Len(old) : old[i] \in S
  BY <1>1, ElementOfSeq
<1>3. rest \in Seq(S)
  BY <1>1, <1>2, SubSeqProperties
<1>4. d = Len(old) => rest = <<>>
  BY <1>1, SubSeqEmpty
<1> HIDE DEF rest
<1>5. /\ rest \o fresh \in Seq(S) /\ Len(rest \o fresh) = Len(rest) + Len(fresh)
      /\ \A i \in 1..Len(rest) + Len(fresh) :
           (rest \o fresh)[i] = IF i <= Len(rest) THEN rest[i] ELSE fresh[i - Len(rest)]
  BY <1>3, ConcatProperties
<1>6. ToSet(fresh) \subseteq ToSet(rest \o fresh)
  <2> SUFFICES ASSUME NEW x \in ToSet(fresh)
               PROVE  x \in ToSet(rest \o fresh)
    OBVIOUS
  <2>1. DOMAIN fresh = 1..Len(fresh) /\ DOMAIN (rest \o fresh) = 1..Len(rest \o fresh)
        /\ Len(rest) \in Nat
    BY <1>3, <1>5, LenProperties
  <2>2. PICK i \in 1..Len(fresh) : fresh[i] = x
    BY <2>1 DEF ToSet
  <2>3. Len(rest) + i \in 1..Len(rest) + Len(fresh) /\ ~(Len(rest) + i <= Len(rest))
        /\ (Len(rest) + i) - Len(rest) = i
    BY <1>1, <2>1
  <2>4. (rest \o fresh)[Len(rest) + i] = x
    BY <1>5, <2>2, <2>3
  <2> QED
    BY <1>5, <2>1, <2>3, <2>4 DEF ToSet
<1>7. d = Len(old) => rest \o fresh = fresh
  BY <1>4, ConcatEmptySeq
<1> QED
  BY <1>3, <1>5, <1>6, <1>7 DEF rest

LEMMA UpdateKeeps ==
  ASSUME ProvisionAssumption, ProvisionInv,
         NEW d \in 0..Page, NEW n \in 0..Len(Wanted.policies) + 1, EngineUpdate(d, n)
  PROVE  ProvisionInv'
<1>1. PICK t \in Templates : t = Wanted
  BY DEF ProvisionInv, ProvisionTypeOK, Wanted
<1>2. t.policies \in Seq(STRING) /\ Len(t.policies) \in Nat
  BY LenProperties DEF ProvisionAssumption
<1>3. PICK ok \in BOOLEAN : ok = (n = Len(t.policies) + 1)
  OBVIOUS
<1>4. /\ Wants("engine", {"updating", "reverting"}) /\ Reply("engine", ok) /\ sdk
      /\ id # NoApi /\ id = former /\ UNCHANGED <<former, vault, bucket, sdk>>
      /\ RefreshEngine(t, d, n)
  BY <1>1, <1>3 DEF EngineUpdate
<1>5. Wants("engine", {"creating", "updating", "reverting"}) /\ phase \in {"updating", "reverting"}
  BY <1>4 DEF Wants
<1>6. id \in DOMAIN engines /\ engines[id] \in Seq(STRING)
      /\ IsFiniteSet(DOMAIN engines) /\ engines \in [DOMAIN engines -> Seq(STRING)]
  BY <1>4, <1>5 DEF ProvisionInv, EngineKept, ProvisionTypeOK
<1>7. PICK old \in Seq(STRING) : old = engines[id]
  BY <1>6
<1>8. d \in 0..Len(old) /\ spared' = (d < Len(old)) /\ id' = id /\ n \in 0..Len(t.policies) + 1
  BY <1>4, <1>7 DEF RefreshEngine
<1> DEFINE k == IF n > Len(t.policies) THEN n - 1 ELSE n
<1>9. k \in 0..Len(t.policies) /\ (ok => k = Len(t.policies))
  <2>1. ok => n = Len(t.policies) + 1
    BY ONLY <1>3, Zenon
  <2> QED
    BY <1>2, <1>8, <2>1
<1>10. PICK fresh \in Seq(STRING) :
         fresh = SubSeq(t.policies, 1, k) /\ (ok => fresh = t.policies)
  BY <1>9, SomePolicies
<1>11. PICK new : new = SubSeq(old, d + 1, Len(old)) \o fresh
  OBVIOUS
<1>12. /\ new \in Seq(STRING) /\ ToSet(fresh) \subseteq ToSet(new)
       /\ d = Len(old) => new = fresh
  BY <1>8, <1>11, Refreshed
<1>13. engines' = [engines EXCEPT ![id] = new]
  BY <1>4, <1>7, <1>10, <1>11 DEF RefreshEngine
<1>14. /\ DOMAIN engines' = DOMAIN engines /\ engines'[id] = new
       /\ engines' \in [DOMAIN engines' -> Seq(STRING)]
  BY <1>6, <1>12, <1>13
<1>15. ok => EngineInForce(t)'
  <2> SUFFICES ASSUME ok
               PROVE  EngineInForce(t)'
    OBVIOUS
  <2>1. gateway' = Guarding(id, t)
    BY <1>3, <1>4 DEF RefreshEngine
  <2>2. IF spared' THEN ToSet(t.policies) \subseteq ToSet(engines'[id]) ELSE engines'[id] = t.policies
    <3>1. Len(old) \in Nat
      BY LenProperties
    <3>2. CASE d < Len(old)
      BY <1>8, <1>10, <1>12, <1>14, <3>2
    <3>3. CASE ~(d < Len(old))
      <4>1. d = Len(old)
        BY <1>8, <3>1, <3>3
      <4>2. spared' = FALSE
        <5>1. spared' = (d < Len(old))
          BY <1>8
        <5>2. (d < Len(old)) = FALSE
          BY <3>3
        <5> QED
          BY ONLY <5>1, <5>2, Zenon
      <4> QED
        BY <1>10, <1>12, <1>14, <4>1, <4>2
    <3> QED
      BY <3>2, <3>3
  <2> QED
    BY <1>6, <1>8, <1>14, <2>1, <2>2 DEF EngineInForce, Guarding
<1>16. spared' \in BOOLEAN
  BY <1>8
<1> QED
  BY <1>1, <1>4, <1>5, <1>6, <1>8, <1>14, <1>15, <1>16, EngineReplyKeeps

LEMMA DeleteKeeps ==
  ASSUME ProvisionInv, NEW apart \in BOOLEAN, NEW d \in 0..Page, EngineDelete(apart, d)
  PROVE  ProvisionInv'
<1>1. /\ id # NoApi /\ d \in 0..Listing /\ Reply("engine", TRUE)
      /\ UNCHANGED <<former, spared, vault, bucket, sdk>>
      /\ engines' = IF d = Len(engines[id]) THEN Restrict(engines, DOMAIN engines \ {id})
                    ELSE [engines EXCEPT ![id] = SubSeq(@, d + 1, Len(@))]
  BY DEF EngineDelete
<1>2. IsFiniteSet(DOMAIN engines) /\ engines \in [DOMAIN engines -> Seq(STRING)] /\ spared \in BOOLEAN
  BY DEF ProvisionInv, ProvisionTypeOK
<1>3. IsFiniteSet(DOMAIN engines') /\ engines' \in [DOMAIN engines' -> Seq(STRING)]
  <2>1. CASE d = Len(engines[id])
    <3>1. engines' = Restrict(engines, DOMAIN engines \ {id})
      BY <1>1, <2>1
    <3>2. DOMAIN engines' = DOMAIN engines \ {id} /\ engines' \in [DOMAIN engines' -> Seq(STRING)]
      BY <1>2, <3>1 DEF Restrict
    <3> QED
      BY <1>2, <3>2, FS_RemoveElement
  <2>2. CASE d # Len(engines[id])
    <3>1. engines' = [engines EXCEPT ![id] = SubSeq(engines[id], d + 1, Len(engines[id]))]
      BY <1>1, <2>2
    <3>2. DOMAIN engines' = DOMAIN engines
      BY <3>1
    <3>3. ASSUME id \in DOMAIN engines
          PROVE  SubSeq(engines[id], d + 1, Len(engines[id])) \in Seq(STRING)
      <4>1. engines[id] \in Seq(STRING) /\ Len(engines[id]) \in Nat
        BY <1>2, <3>3, LenProperties
      <4>2. d + 1 \in Int /\ \A i \in d + 1..Len(engines[id]) : engines[id][i] \in STRING
        <5>1. d \in Nat
          BY <1>1
        <5> QED
          BY <4>1, <5>1, ElementOfSeq
      <4> QED
        BY <4>1, <4>2, SubSeqProperties
    <3>4. engines' \in [DOMAIN engines -> Seq(STRING)]
      BY <1>2, <3>1, <3>3
    <3> QED
      BY <1>2, <3>2, <3>4
  <2> QED
    BY <2>1, <2>2
<1>4. CASE Wants("engine", {"deleting"}) /\ id' = NoApi
  BY <1>1, <1>2, <1>3, <1>4, GoingKeeps DEF Resources
<1>5. CASE Wants("engine", {"reverting"}) /\ id # former /\ id' = former
  <2>1. PICK t : t = Wanted
    OBVIOUS
  <2>2. Wants("engine", {"creating", "updating", "reverting"}) /\ former = NoApi
    BY <1>5 DEF Wants, ProvisionInv, EngineKept
  <2>3. EngineInForce(t)'
    BY <1>5, <2>2 DEF EngineInForce
  <2> QED
    BY <1>1, <1>2, <1>3, <1>5, <2>1, <2>2, <2>3, EngineReplyKeeps
<1> QED
  BY <1>4, <1>5 DEF EngineDelete

(* CloudFormation's own steps. What an update does not handle is what the two templates
   agree on. *)
LEMMA SameProperties ==
  ASSUME NEW r \in Resources, NEW t, NEW u, Properties(r, t) = Properties(r, u), InForce(r, u)
  PROVE  InForce(r, t)
<1>1. r \in {"package", "provider", "engine"}
  BY DEF Resources
<1>2. CASE r = "package"
  BY <1>2 DEF Properties, InForce
<1>3. CASE r = "provider"
  BY <1>3 DEF Properties, InForce, Discovery
<1>4. CASE r = "engine"
  BY <1>4 DEF Properties, InForce, EngineInForce, Guarding
<1> QED
  BY <1>1, <1>2, <1>3, <1>4

LEMMA StackKeeps ==
  ASSUME ProvisionInv,
         (\E t \in Templates : DeployStack(t) \/ UpdateStack(t)) \/ DeleteStack \/ Finish
           \/ OtherFails \/ SdkGainsApi \/ (\E s \in Secrets : Rotate(s)) \/ UNCHANGED cvars
  PROVE  ProvisionInv'
<1>1. ASSUME NEW t \in Templates, DeployStack(t)
      PROVE  ProvisionInv'
  BY <1>1 DEF DeployStack, enginevars, ProvisionInv, ProvisionTypeOK, EngineKept, SoFar
<1>2. ASSUME NEW t \in Templates, UpdateStack(t)
      PROVE  ProvisionInv'
  <2>1. /\ phase = "settled" /\ phase' = "updating" /\ target' = t /\ touched' = {}
        /\ todo' = {r \in Resources : Properties(r, t) # Properties(r, template)}
        /\ former' = id
        /\ UNCHANGED <<template, id, engines, gateway, spared, vault, bucket, sdk>>
    BY <1>2 DEF UpdateStack
  <2>2. \A r \in Resources : InForce(r, template)
    BY <2>1 DEF ProvisionInv, SoFar
  <2>3. \A r \in Resources \ todo' : InForce(r, t)
    BY <2>1, <2>2, SameProperties
  <2>4. \A r, u : InForce(r, u)' <=> InForce(r, u)
    BY <2>1 DEF InForce, EngineInForce, Guarding, Discovery
  <2>5. SoFar'
    BY <2>1, <2>2, <2>3, <2>4 DEF SoFar
  <2>6. todo' \in SUBSET Resources
    BY <2>1
  <2>7. id # NoApi => id \in DOMAIN engines
    BY <2>1 DEF ProvisionInv, EngineKept
  <2>8. ProvisionTypeOK'
    BY <2>1, <2>6 DEF ProvisionInv, ProvisionTypeOK
  <2>9. EngineKept'
    BY <2>1, <2>7 DEF ProvisionInv, EngineKept
  <2> QED
    BY <2>5, <2>8, <2>9 DEF ProvisionInv
<1>3. CASE DeleteStack
  BY <1>3 DEF DeleteStack, enginevars, ProvisionInv, ProvisionTypeOK, EngineKept, SoFar
<1>4. CASE Finish
  <2>1. UNCHANGED <<target, todo, touched, id, former, engines, spared, vault, secret, sdk>> /\ todo = {}
    BY <1>4 DEF Finish
  <2>2. CASE phase = "deleting"
    <3>1. phase' = "none" /\ template' = template
      BY <1>4, <2>2 DEF Finish
    <3> QED
      BY <2>1, <3>1 DEF ProvisionInv, ProvisionTypeOK, EngineKept, SoFar
  <2>3. CASE phase # "deleting"
    <3>1. /\ phase' = "settled" /\ gateway' = gateway /\ bucket' = bucket
          /\ \/ phase \in {"creating", "reverting"} /\ template' = template
             \/ phase = "updating" /\ template' = target
      BY <1>4, <2>3 DEF Finish
    <3>2. PICK t \in Templates : template' = t /\ \A r \in Resources : InForce(r, t)
      BY <2>1, <3>1 DEF ProvisionInv, SoFar, ProvisionTypeOK
    <3>3. \A r : InForce(r, t) => InForce(r, t)'
      BY <2>1, <3>1 DEF InForce, EngineInForce, Guarding, Discovery
    <3>4. id # NoApi => id \in DOMAIN engines
      BY <3>2 DEF InForce, EngineInForce, Resources
    <3> QED
      BY <2>1, <3>1, <3>2, <3>3, <3>4 DEF ProvisionInv, ProvisionTypeOK, EngineKept, SoFar
  <2> QED
    BY <2>2, <2>3
<1>5. CASE OtherFails
  <2>1. /\ phase \in {"creating", "updating"} /\ FailsOn("elsewhere")
        /\ UNCHANGED <<template, target, enginevars, vault, bucket, sdk>>
    BY <1>5 DEF OtherFails
  <2>2. /\ phase' = IF phase = "creating" THEN "deleting" ELSE "reverting"
        /\ touched' = {} /\ todo' \in SUBSET Resources
        /\ phase = "updating" => todo' = touched
    <3>1. touched \in SUBSET Resources /\ "elsewhere" \notin Resources
      BY DEF ProvisionInv, ProvisionTypeOK, Resources
    <3> QED
      BY <2>1, <3>1 DEF FailsOn
  <2>3. \A r, u : InForce(r, u) => InForce(r, u)'
    BY <2>1, EngineUntouched DEF InForce, Discovery
  <2>4. SoFar'
    BY <2>1, <2>2, <2>3 DEF ProvisionInv, SoFar
  <2> QED
    BY <2>1, <2>2, <2>4 DEF ProvisionInv, ProvisionTypeOK, EngineKept, enginevars
<1>6. CASE SdkGainsApi \/ (\E s \in Secrets : Rotate(s)) \/ UNCHANGED cvars
  <2>1. /\ UNCHANGED <<stackvars, enginevars, vault, bucket>> /\ sdk' \in BOOLEAN /\ (~sdk' => ~sdk)
    BY <1>6 DEF SdkGainsApi, Rotate, cvars, ProvisionInv, ProvisionTypeOK
  <2>2. \A r, u : InForce(r, u) => InForce(r, u)'
    BY <2>1, EngineUntouched DEF InForce, Discovery
  <2>3. SoFar'
    BY <2>1, <2>2 DEF stackvars, ProvisionInv, SoFar
  <2> QED
    BY <2>1, <2>3 DEF stackvars, enginevars, ProvisionInv, ProvisionTypeOK, EngineKept
<1> QED
  BY <1>1, <1>2, <1>3, <1>4, <1>5, <1>6

(* The invariant, for any templates, any page size and any calls that fail. *)
THEOREM ProvisionInvariant == ProvisionSpec => []ProvisionInv
<1>1. ProvisionInit => ProvisionInv
  <2> SUFFICES ASSUME ProvisionInit
               PROVE  ProvisionInv
    OBVIOUS
  <2>1. template \in Templates /\ target \in Templates
    BY ProvisionAssumption DEF ProvisionInit, ProvisionAssumption
  <2>2. DOMAIN engines = {} /\ IsFiniteSet({})
    <3>1. engines = <<>> /\ <<>> \in Seq(STRING)
      BY EmptySeq DEF ProvisionInit
    <3>2. DOMAIN engines = 1..Len(engines) /\ Len(engines) = 0
      BY <3>1, LenProperties, EmptySeq
    <3> QED
      BY <3>2, FS_EmptySet
  <2>3. engines \in [{} -> Seq(STRING)]
    <3>1. <<>> = [e \in 1..0 |-> <<>>]
      OBVIOUS
    <3> QED
      BY <2>2, <3>1 DEF ProvisionInit
  <2>4. id = NoApi /\ phase = "none" /\ todo = {} /\ touched = {} /\ sdk \in BOOLEAN /\ spared = FALSE
    BY DEF ProvisionInit
  <2> QED
    BY <2>1, <2>2, <2>3, <2>4 DEF ProvisionInv, ProvisionTypeOK, EngineKept, SoFar
<1>2. ProvisionInv /\ [ProvisionNext]_cvars => ProvisionInv'
  <2> SUFFICES ASSUME ProvisionInv, [ProvisionNext]_cvars
               PROVE  ProvisionInv'
    OBVIOUS
  <2>1. CASE \E uploaded, ok \in BOOLEAN : Package(uploaded, ok)
    BY <2>1, PackageKeeps
  <2>2. CASE \E ok \in BOOLEAN : Provider(ok)
    BY <2>2, ProviderKeeps
  <2>3. CASE EngineWithoutApi
    BY <2>3, WithoutApiKeeps
  <2>4. CASE \E n \in 0..Len(Wanted.policies) + 2 : EngineCreate(n)
    BY <2>4, CreateKeeps, ProvisionAssumption
  <2>5. CASE \E d \in 0..Page, n \in 0..Len(Wanted.policies) + 1 : EngineUpdate(d, n)
    BY <2>5, UpdateKeeps, ProvisionAssumption
  <2>6. CASE \E apart \in BOOLEAN, d \in 0..Page : EngineDelete(apart, d)
    BY <2>6, DeleteKeeps
  <2>7. CASE Unpackage \/ EngineDeleteNone \/ (\E ok \in BOOLEAN : DeleteProvider(ok))
    BY <2>7, DeletionsKeep
  <2>8. CASE \/ \E t \in Templates : DeployStack(t) \/ UpdateStack(t)
             \/ DeleteStack \/ Finish \/ OtherFails \/ SdkGainsApi
             \/ \E s \in Secrets : Rotate(s)
             \/ UNCHANGED cvars
    BY <2>8, StackKeeps
  <2> QED
    BY <2>1, <2>2, <2>3, <2>4, <2>5, <2>6, <2>7, <2>8 DEF ProvisionNext
<1> QED
  BY <1>1, <1>2, PTL DEF ProvisionSpec

(* A stack at rest is in force, whatever failed and was rolled back on the way. *)
THEOREM ProvisionSettles == ProvisionSpec => []SettledIsInForce
BY ProvisionInvariant, SettledSays, PTL

-----------------------------------------------------------------------------
(* The launcher. *)

Long == {"redeploy", "guided", "resume"}

(* What is left of a deployment's row of phases, and of any other command's. *)
LongPlans ==
  {<<"resume", "confirm", "stacks", "lambdas", "site", "sap", "kb">>,
   <<"confirm", "stacks", "lambdas", "site", "sap", "kb">>,
   <<"stacks", "lambdas", "site", "sap", "kb">>, <<"lambdas", "site", "sap", "kb">>,
   <<"site", "sap", "kb">>, <<"sap", "kb">>, <<"readers", "kb">>, <<"kb">>,
   <<"confirm", "stacks", "lambdas", "site">>, <<"stacks", "lambdas", "site">>,
   <<"lambdas", "site">>, <<"site">>}

ShortPlans == {<<>>, <<"lambdas">>, <<"sap">>, <<"readers">>, <<"kb">>, <<"site">>}

PlanFits(r) == r.plan \in IF r.cmd \in Long THEN LongPlans ELSE ShortPlans

(* The phase after the one at the head of a plan. *)
Coming(p) == IF Tail(p) = <<>> THEN "done" ELSE Head(Tail(p))

Phases == {"resume", "confirm", "stacks", "lambdas", "site", "sap", "readers", "kb"}
StackStatus == Broken \cup {"not deployed", "IN_PROGRESS", "COMPLETE", "UPDATE_ROLLBACK_COMPLETE"}
Variables == [version : Nat, edits : Nat]
Commanded ==
  [cmd : Commands \cup {"none", "wait", "site"}, plan : Seq(Phases), todo : SUBSET (AlwaysDeployed \cup Optional \cup FunctionNames),
   name : FunctionNames \cup {"", "next"}, env : Variables, code : Nat, version : Nat,
   skipped : SUBSET FunctionNames, failed : SUBSET FunctionNames, lost : SUBSET FunctionNames,
   astray : SUBSET FunctionNames]

LaunchTypeOK ==
  /\ source \in Nat /\ settings \in Nat /\ creds \in Nat /\ site \in Nat
  /\ stacks \in [AlwaysDeployed \cup Optional -> [status : StackStatus, version : Nat]]
  /\ lambdas \in [FunctionNames -> [own : Variables, warm : [settings : Nat, creds : Nat], edited : Nat]]

CommandsTypeOK == run \in Commanded /\ exit \in Commanded

(* A stack the configuration does not have is never touched. *)
OthersAbsent ==
  \A s \in (AlwaysDeployed \cup Optional) \ Expected :
    stacks[s].status # "IN_PROGRESS" /\ stacks[s].version = 0

Confirmed  == {"stacks", "lambdas", "site", "sap", "readers", "kb", "done"}
Refreshing == {"lambdas", "readers"}

(* A refresh has not come to the function yet. *)
Waits(r, f) == r.name = "" \/ r.name = f \/ f \in r.todo
SettingsRead(f) == lambdas[f].warm # Cold => lambdas[f].warm.settings = settings
CredsRead(f)    == lambdas[f].warm # Cold => lambdas[f].warm.creds = creds

(* What a deployment has achieved when it comes to a phase. *)
StacksKept(r, ph) ==
  /\ r.version <= source
  /\ ph = "stacks" => r.todo \subseteq Expected
  /\ \A s \in Expected :
       (ph = "stacks" /\ s \in r.todo) \/ stacks[s] = [status |-> "COMPLETE", version |-> r.version]
OwnKept(r) ==
  \A f \in FunctionNames \ (r.lost \cup r.astray) :
    lambdas[f].own = Deployed(f) /\ (r.name = f => r.env = lambdas[f].own)
FreshKept(r, ph) ==
  r.code = 0 => \A f \in FunctionNames \ r.skipped : Alive(f) =>
    /\ (ph = "lambdas" /\ Waits(r, f)) \/ SettingsRead(f)
    /\ f \in CredReaders \ r.failed => (ph \in Refreshing /\ Waits(r, f)) \/ CredsRead(f)
Achieved(r, ph) ==
  /\ ph \notin Refreshing => r.name = ""
  /\ ph \in Confirmed => StacksKept(r, ph) /\ OwnKept(r)
  /\ ph \in Confirmed \ {"stacks"} => FreshKept(r, ph)
  /\ ph \in {"sap", "readers", "kb", "done"} => site >= r.version

LaunchInv ==
  /\ LaunchTypeOK /\ CommandsTypeOK /\ OthersAbsent
  /\ PlanFits(run) /\ (run # Idle => exit = Idle /\ run.plan # <<>>)
  /\ run.cmd \in Long => Achieved(run, Head(run.plan))
  /\ ExitZeroIsInForce

(* The phase after each. *)
Follows ==
  [resume |-> {"confirm"}, confirm |-> {"stacks"}, stacks |-> {"lambdas"}, lambdas |-> {"site"},
   site |-> {"sap", "done"}, sap |-> {"kb"}, readers |-> {"kb"}, kb |-> {"done"}]
Steps(p) ==
  /\ p \in Seq(Phases) /\ p # <<>> /\ Head(p) \in DOMAIN Follows
  /\ Tail(p) # <<>> => Tail(p) \in LongPlans
  /\ Coming(p) \in Follows[Head(p)]

LEMMA LongStep == ASSUME NEW p \in LongPlans PROVE Steps(p)
<1>1. CASE p = <<"resume", "confirm", "stacks", "lambdas", "site", "sap", "kb">>
  <2>1. p \in Seq(Phases) /\ p # <<>> /\ Head(p) = "resume" /\ Tail(p) = <<"confirm", "stacks", "lambdas", "site", "sap", "kb">>
    BY <1>1 DEF Phases
  <2>2. Tail(p) # <<>> /\ Head(Tail(p)) = "confirm" BY <1>1
  <2>3. Tail(p) \in LongPlans BY <2>1 DEF LongPlans
  <2> QED BY <2>1, <2>2, <2>3 DEF Steps, Follows, Coming
<1>2. CASE p = <<"confirm", "stacks", "lambdas", "site", "sap", "kb">>
  <2>1. p \in Seq(Phases) /\ p # <<>> /\ Head(p) = "confirm" /\ Tail(p) = <<"stacks", "lambdas", "site", "sap", "kb">>
    BY <1>2 DEF Phases
  <2>2. Tail(p) # <<>> /\ Head(Tail(p)) = "stacks" BY <1>2
  <2>3. Tail(p) \in LongPlans BY <2>1 DEF LongPlans
  <2> QED BY <2>1, <2>2, <2>3 DEF Steps, Follows, Coming
<1>3. CASE p = <<"stacks", "lambdas", "site", "sap", "kb">>
  <2>1. p \in Seq(Phases) /\ p # <<>> /\ Head(p) = "stacks" /\ Tail(p) = <<"lambdas", "site", "sap", "kb">>
    BY <1>3 DEF Phases
  <2>2. Tail(p) # <<>> /\ Head(Tail(p)) = "lambdas" BY <1>3
  <2>3. Tail(p) \in LongPlans BY <2>1 DEF LongPlans
  <2> QED BY <2>1, <2>2, <2>3 DEF Steps, Follows, Coming
<1>4. CASE p = <<"lambdas", "site", "sap", "kb">>
  <2>1. p \in Seq(Phases) /\ p # <<>> /\ Head(p) = "lambdas" /\ Tail(p) = <<"site", "sap", "kb">>
    BY <1>4 DEF Phases
  <2>2. Tail(p) # <<>> /\ Head(Tail(p)) = "site" BY <1>4
  <2>3. Tail(p) \in LongPlans BY <2>1 DEF LongPlans
  <2> QED BY <2>1, <2>2, <2>3 DEF Steps, Follows, Coming
<1>5. CASE p = <<"site", "sap", "kb">>
  <2>1. p \in Seq(Phases) /\ p # <<>> /\ Head(p) = "site" /\ Tail(p) = <<"sap", "kb">>
    BY <1>5 DEF Phases
  <2>2. Tail(p) # <<>> /\ Head(Tail(p)) = "sap" BY <1>5
  <2>3. Tail(p) \in LongPlans BY <2>1 DEF LongPlans
  <2> QED BY <2>1, <2>2, <2>3 DEF Steps, Follows, Coming
<1>6. CASE p = <<"sap", "kb">>
  <2>1. p \in Seq(Phases) /\ p # <<>> /\ Head(p) = "sap" /\ Tail(p) = <<"kb">>
    BY <1>6 DEF Phases
  <2>2. Tail(p) # <<>> /\ Head(Tail(p)) = "kb" BY <1>6
  <2>3. Tail(p) \in LongPlans BY <2>1 DEF LongPlans
  <2> QED BY <2>1, <2>2, <2>3 DEF Steps, Follows, Coming
<1>7. CASE p = <<"readers", "kb">>
  <2>1. p \in Seq(Phases) /\ p # <<>> /\ Head(p) = "readers" /\ Tail(p) = <<"kb">>
    BY <1>7 DEF Phases
  <2>2. Tail(p) # <<>> /\ Head(Tail(p)) = "kb" BY <1>7
  <2>3. Tail(p) \in LongPlans BY <2>1 DEF LongPlans
  <2> QED BY <2>1, <2>2, <2>3 DEF Steps, Follows, Coming
<1>8. CASE p = <<"kb">>
  <2>1. p \in Seq(Phases) /\ p # <<>> /\ Head(p) = "kb" /\ Tail(p) = <<>>
    BY <1>8 DEF Phases
  <2>2. Coming(p) = "done" BY <2>1 DEF Coming
  <2>3. Tail(p) # <<>> => Tail(p) \in LongPlans BY <2>1 DEF LongPlans
  <2> QED BY <2>1, <2>2, <2>3 DEF Steps, Follows
<1>9. CASE p = <<"confirm", "stacks", "lambdas", "site">>
  <2>1. p \in Seq(Phases) /\ p # <<>> /\ Head(p) = "confirm" /\ Tail(p) = <<"stacks", "lambdas", "site">>
    BY <1>9 DEF Phases
  <2>2. Tail(p) # <<>> /\ Head(Tail(p)) = "stacks" BY <1>9
  <2>3. Tail(p) \in LongPlans BY <2>1 DEF LongPlans
  <2> QED BY <2>1, <2>2, <2>3 DEF Steps, Follows, Coming
<1>10. CASE p = <<"stacks", "lambdas", "site">>
  <2>1. p \in Seq(Phases) /\ p # <<>> /\ Head(p) = "stacks" /\ Tail(p) = <<"lambdas", "site">>
    BY <1>10 DEF Phases
  <2>2. Tail(p) # <<>> /\ Head(Tail(p)) = "lambdas" BY <1>10
  <2>3. Tail(p) \in LongPlans BY <2>1 DEF LongPlans
  <2> QED BY <2>1, <2>2, <2>3 DEF Steps, Follows, Coming
<1>11. CASE p = <<"lambdas", "site">>
  <2>1. p \in Seq(Phases) /\ p # <<>> /\ Head(p) = "lambdas" /\ Tail(p) = <<"site">>
    BY <1>11 DEF Phases
  <2>2. Tail(p) # <<>> /\ Head(Tail(p)) = "site" BY <1>11
  <2>3. Tail(p) \in LongPlans BY <2>1 DEF LongPlans
  <2> QED BY <2>1, <2>2, <2>3 DEF Steps, Follows, Coming
<1>12. CASE p = <<"site">>
  <2>1. p \in Seq(Phases) /\ p # <<>> /\ Head(p) = "site" /\ Tail(p) = <<>>
    BY <1>12 DEF Phases
  <2>2. Coming(p) = "done" BY <2>1 DEF Coming
  <2>3. Tail(p) # <<>> => Tail(p) \in LongPlans BY <2>1 DEF LongPlans
  <2> QED BY <2>1, <2>2, <2>3 DEF Steps, Follows
<1> QED BY <1>1, <1>2, <1>3, <1>4, <1>5, <1>6, <1>7, <1>8, <1>9, <1>10, <1>11, <1>12 DEF LongPlans

LEMMA ShortStep ==
  ASSUME NEW p \in ShortPlans
  PROVE  /\ p \in Seq(Phases)
         /\ p # <<>> => Tail(p) = <<>> /\ Head(p) \in {"lambdas", "sap", "readers", "kb", "site"}
<1>1. CASE p = <<>> BY <1>1
<1>2. ASSUME NEW w \in {"lambdas", "sap", "readers", "kb", "site"}, p = <<w>>
      PROVE  p \in Seq(Phases) /\ Tail(p) = <<>> /\ Head(p) = w
  BY <1>2 DEF Phases
<1> QED BY <1>1, <1>2 DEF ShortPlans

LEMMA IdleIs ==
  /\ Idle \in Commanded /\ Idle.cmd \notin Long /\ Idle.plan = <<>> /\ PlanFits(Idle)
  /\ Idle.name = ""
<1>1. Idle.cmd \notin Long /\ Idle.plan = <<>> /\ Idle.name = "" BY DEF Idle, Long
<1>2. <<>> \in ShortPlans /\ <<>> \in Seq(Phases) BY DEF ShortPlans
<1>3. Own(0, 0) \in Variables BY DEF Own, Variables
<1>4. Idle \in Commanded BY <1>2, <1>3 DEF Idle, Commanded, Commands
<1> QED BY <1>1, <1>2, <1>4 DEF PlanFits

(* A command that ends, goes on or comes to its next phase keeps the invariant. *)
LEMMA ExitKeeps ==
  ASSUME NEW r \in Commanded, NEW code \in Nat, Exit(r, code),
         LaunchTypeOK', OthersAbsent',
         r.cmd \in Long /\ code = 0 => Achieved(r, "done")' /\ r.code = 0
  PROVE  LaunchInv'
<1>1. run' = Idle /\ exit' = [r EXCEPT !.code = code] BY DEF Exit
<1>2. run' \in Commanded /\ PlanFits(run)' /\ run'.cmd \notin Long BY <1>1, IdleIs DEF PlanFits
<1>3. exit' \in Commanded /\ exit'.cmd = r.cmd /\ exit'.code = code /\ exit'.version = r.version
      /\ exit'.skipped = r.skipped /\ exit'.failed = r.failed /\ exit'.lost = r.lost
      /\ exit'.astray = r.astray
  BY <1>1 DEF Commanded
<1>4. ExitZeroIsInForce'
  <2> SUFFICES ASSUME r.cmd \in Long, code = 0
               PROVE  ExitZeroIsInForce'
    BY <1>3 DEF ExitZeroIsInForce, Long
  <2>1. StacksKept(r, "done")' /\ OwnKept(r)' /\ FreshKept(r, "done")' /\ site' >= r.version
        /\ r.code = 0
    BY DEF Achieved, Confirmed
  <2>2. \A s \in Expected : stacks'[s] = [status |-> "COMPLETE", version |-> exit'.version]
    BY <2>1, <1>3 DEF StacksKept, Expected
  <2>3. ASSUME NEW f \in {g \in FunctionNames : Alive(g)'} \ exit'.skipped
        PROVE  /\ lambdas'[f].warm # Cold => lambdas'[f].warm.settings = settings'
               /\ lambdas'[f].warm # Cold /\ f \in CredReaders \ exit'.failed
                    => lambdas'[f].warm.creds = creds'
               /\ f \notin exit'.lost \cup exit'.astray => lambdas'[f].own = Deployed(f)'
    BY <2>1, <2>3, <1>3 DEF OwnKept, FreshKept, SettingsRead, CredsRead, Refreshing
  <2> QED BY <2>1, <2>2, <2>3, <1>3 DEF ExitZeroIsInForce
<1> QED BY <1>1, <1>2, <1>3, <1>4 DEF LaunchInv, CommandsTypeOK

LEMMA GoOnKeeps ==
  ASSUME NEW r \in Commanded, GoOn(r), exit = Idle,
         LaunchTypeOK', OthersAbsent', PlanFits(r), r.plan # <<>>,
         r.cmd \in Long => Achieved(r, Head(r.plan))'
  PROVE  LaunchInv'
<1>1. run' = r /\ exit' = Idle BY DEF GoOn
<1>2. ExitZeroIsInForce' BY <1>1 DEF ExitZeroIsInForce, Idle
<1>3. (run.cmd \in Long => Achieved(run, Head(run.plan)))'
  BY <1>1 DEF Achieved, StacksKept, OwnKept, FreshKept, Waits, SettingsRead, CredsRead
<1> QED BY <1>1, <1>2, <1>3, IdleIs DEF LaunchInv, CommandsTypeOK, PlanFits

LEMMA NextKeeps ==
  ASSUME NEW r \in Commanded, NextPhase(r), exit = Idle,
         LaunchTypeOK', OthersAbsent', PlanFits(r), r.plan # <<>>,
         r.cmd \in Long => Achieved(r, Coming(r.plan))'
  PROVE  LaunchInv'
<1>1. CASE Tail(r.plan) = <<>>
  <2>1. Exit(r, r.code) /\ r.code \in Nat BY <1>1 DEF NextPhase, Commanded
  <2>2. r.cmd \in Long /\ r.code = 0 => Achieved(r, "done")' /\ r.code = 0 BY <1>1 DEF Coming
  <2> QED BY <2>1, <2>2, ExitKeeps
<1>2. CASE Tail(r.plan) # <<>>
  <2>1. PICK q : q = [r EXCEPT !.plan = Tail(r.plan)] OBVIOUS
  <2>2. GoOn(q) BY <1>2, <2>1 DEF NextPhase
  <2>3. r.cmd \in Long /\ r.plan \in LongPlans
    BY <1>2, ShortStep DEF PlanFits
  <2>4. Tail(r.plan) \in LongPlans /\ Tail(r.plan) \in Seq(Phases)
    BY <1>2, <2>3, LongStep DEF Steps
  <2>5. q \in Commanded /\ q.cmd = r.cmd /\ q.plan = Tail(r.plan) BY <2>1, <2>4 DEF Commanded
  <2>6. q.name = r.name /\ q.todo = r.todo /\ q.env = r.env /\ q.code = r.code
        /\ q.version = r.version /\ q.skipped = r.skipped /\ q.failed = r.failed
        /\ q.lost = r.lost /\ q.astray = r.astray
    BY <2>1 DEF Commanded
  <2>7. Achieved(r, Head(q.plan))' BY <1>2, <2>3, <2>5 DEF Coming
  <2>8. Achieved(q, Head(q.plan))'
    BY <2>7, <2>6 DEF Achieved, StacksKept, OwnKept, FreshKept, Waits
  <2>9. PlanFits(q) /\ q.plan # <<>> BY <1>2, <2>3, <2>4, <2>5 DEF PlanFits
  <2> QED BY <2>2, <2>5, <2>8, <2>9, GoOnKeeps
<1> QED BY <1>1, <1>2

(* What the invariant says of the phase a command is in. *)
LEMMA InPhase ==
  ASSUME LaunchInv, NEW ph, Phase(ph)
  PROVE  /\ run \in Commanded /\ run.plan # <<>> /\ Head(run.plan) = ph /\ exit = Idle
         /\ run.cmd \in Long => Steps(run.plan) /\ Achieved(run, ph) /\ Coming(run.plan) \in Follows[ph]
         /\ run.cmd \notin Long => Tail(run.plan) = <<>> /\ ph \notin {"resume", "confirm", "stacks"}
<1>1. run \in Commanded /\ run.plan # <<>> /\ Head(run.plan) = ph BY DEF Phase, LaunchInv, CommandsTypeOK
<1>2. run # Idle BY <1>1, IdleIs
<1>3. exit = Idle BY <1>2 DEF LaunchInv
<1>4. run.cmd \in Long => Steps(run.plan) /\ Achieved(run, ph) /\ Coming(run.plan) \in Follows[ph]
  BY <1>1, LongStep DEF LaunchInv, PlanFits, Steps
<1>5. run.cmd \notin Long => Tail(run.plan) = <<>> /\ ph \notin {"resume", "confirm", "stacks"}
  BY <1>1, ShortStep DEF LaunchInv, PlanFits
<1> QED BY <1>1, <1>3, <1>4, <1>5

(* The rows that are put together from others. *)
LEMMA Guided ==
  <<"confirm", "stacks", "lambdas", "site">> \o <<"sap", "kb">>
    = <<"confirm", "stacks", "lambdas", "site", "sap", "kb">>
<1> DEFINE p == <<"confirm", "stacks", "lambdas", "site">>
           q == <<"sap", "kb">>
           pq == p \o q
<1>1. /\ p \in Seq(Phases) /\ Len(p) = 4
      /\ p[1] = "confirm" /\ p[2] = "stacks" /\ p[3] = "lambdas" /\ p[4] = "site"
  BY DEF Phases
<1>2. q \in Seq(Phases) /\ Len(q) = 2 /\ q[1] = "sap" /\ q[2] = "kb" BY DEF Phases
<1> HIDE DEF p, q
<1>3. /\ pq \in Seq(Phases) /\ Len(pq) = 4 + 2
      /\ \A n \in 1..(4 + 2) : pq[n] = IF n <= 4 THEN p[n] ELSE q[n - 4]
  <2>1. /\ pq \in Seq(Phases) /\ Len(pq) = Len(p) + Len(q)
        /\ \A n \in 1..(Len(p) + Len(q)) : pq[n] = IF n <= Len(p) THEN p[n] ELSE q[n - Len(p)]
    BY <1>1, <1>2, ConcatProperties
  <2> QED BY <1>1, <1>2, <2>1
<1>4. pq[1] = "confirm" /\ pq[2] = "stacks" /\ pq[3] = "lambdas" /\ pq[4] = "site"
      /\ pq[5] = "sap" /\ pq[6] = "kb"
  BY <1>1, <1>2, <1>3
<1> HIDE DEF pq
<1>5. pq = <<"confirm", "stacks", "lambdas", "site", "sap", "kb">> BY <1>3, <1>4
<1> QED BY <1>5 DEF p, q, pq

LEMMA Resumed ==
  <<"resume">> \o <<"confirm", "stacks", "lambdas", "site", "sap", "kb">>
    = <<"resume", "confirm", "stacks", "lambdas", "site", "sap", "kb">>
<1> DEFINE p == <<"resume">>
           q == <<"confirm", "stacks", "lambdas", "site", "sap", "kb">>
           pq == p \o q
<1>1. p \in Seq(Phases) /\ Len(p) = 1 /\ p[1] = "resume" BY DEF Phases
<1>2. /\ q \in Seq(Phases) /\ Len(q) = 6 /\ q[1] = "confirm" /\ q[2] = "stacks"
      /\ q[3] = "lambdas" /\ q[4] = "site" /\ q[5] = "sap" /\ q[6] = "kb"
  BY DEF Phases
<1> HIDE DEF p, q
<1>3. /\ pq \in Seq(Phases) /\ Len(pq) = 1 + 6
      /\ \A n \in 1..(1 + 6) : pq[n] = IF n <= 1 THEN p[n] ELSE q[n - 1]
  <2>1. /\ pq \in Seq(Phases) /\ Len(pq) = Len(p) + Len(q)
        /\ \A n \in 1..(Len(p) + Len(q)) : pq[n] = IF n <= Len(p) THEN p[n] ELSE q[n - Len(p)]
    BY <1>1, <1>2, ConcatProperties
  <2> QED BY <1>1, <1>2, <2>1
<1>4. pq[1] = "resume" /\ pq[2] = "confirm" /\ pq[3] = "stacks" /\ pq[4] = "lambdas"
      /\ pq[5] = "site" /\ pq[6] = "sap" /\ pq[7] = "kb"
  BY <1>1, <1>2, <1>3
<1> HIDE DEF pq
<1>5. pq = <<"resume", "confirm", "stacks", "lambdas", "site", "sap", "kb">> BY <1>3, <1>4
<1> QED BY <1>5 DEF p, q, pq

LEMMA StartKeepsLaunch == ASSUME LaunchInv, NEW cmd \in Commands, Start(cmd) PROVE LaunchInv'
<1>1. PICK p : p = Plan(cmd) OBVIOUS
<1>2. /\ p \in IF cmd \in Long THEN LongPlans ELSE ShortPlans
      /\ p # <<>>
      /\ cmd \in Long => Head(p) \in {"resume", "confirm"}
  <2>1. CASE cmd = "redeploy" BY <1>1, <2>1 DEF Plan, Redeploy, LongPlans, Long
  <2>2. CASE cmd = "guided" BY <1>1, <2>2, Guided DEF Plan, Redeploy, LongPlans, Long
  <2>3. CASE cmd = "resume"
    <3>1. p = <<"resume">> \o (Redeploy \o <<"sap", "kb">>) \/ p = <<"resume">> \o Redeploy \o <<"sap", "kb">>
      BY <1>1, <2>3 DEF Plan
    <3> QED BY <3>1, <2>3, Guided, Resumed DEF Redeploy, LongPlans, Long
  <2>4. CASE cmd \in {"refresh", "sync-sap", "sync-kb"} BY <1>1, <2>4 DEF Plan, ShortPlans, Long
  <2> QED BY <2>1, <2>2, <2>3, <2>4 DEF Commands
<1>3. p \in Seq(Phases) BY <1>2, LongStep, ShortStep DEF Steps
<1>4. run' = [Idle EXCEPT !.cmd = cmd, !.plan = p] /\ exit' = Idle BY <1>1 DEF Start
<1>5. run' \in Commanded /\ run'.cmd = cmd /\ run'.plan = p /\ run'.name = ""
  BY <1>3, <1>4, IdleIs DEF Commanded
<1>6. (run.cmd \in Long => Achieved(run, Head(run.plan)))'
  BY <1>2, <1>5 DEF Achieved, Confirmed, Refreshing
<1>7. LaunchTypeOK' /\ OthersAbsent' BY DEF Start, LaunchInv, LaunchTypeOK, OthersAbsent
<1>8. ExitZeroIsInForce' BY <1>4 DEF ExitZeroIsInForce, Idle
<1> QED BY <1>2, <1>4, <1>5, <1>6, <1>7, <1>8, IdleIs DEF LaunchInv, CommandsTypeOK, PlanFits

LEMMA EditSourceKeeps == ASSUME LaunchInv, EditSource PROVE LaunchInv'
<1>1. source' = source + 1 /\ exit' = Idle /\ run' = run
      /\ UNCHANGED <<stacks, settings, creds, lambdas, site>>
  BY DEF EditSource
<1>2. LaunchTypeOK' /\ OthersAbsent' /\ source <= source'
  BY <1>1 DEF LaunchInv, LaunchTypeOK, OthersAbsent
<1>3. run.version \in Nat /\ source \in Nat
  BY DEF LaunchInv, LaunchTypeOK, CommandsTypeOK, Commanded
<1>4. ASSUME run.cmd \in Long PROVE Achieved(run, Head(run.plan))'
  <2> PICK ph : ph = Head(run.plan) OBVIOUS
  <2>1. Achieved(run, ph) /\ run'.version = run.version BY <1>1, <1>4 DEF LaunchInv
  <2>2. OwnKept(run) => OwnKept(run)' BY <1>1 DEF OwnKept, Deployed
  <2>3. FreshKept(run, ph) => FreshKept(run, ph)'
    BY <1>1 DEF FreshKept, Alive, SettingsRead, CredsRead, Waits
  <2>4. StacksKept(run, ph) => StacksKept(run, ph)' BY <1>1, <1>2, <1>3 DEF StacksKept, LaunchTypeOK
  <2>5. Achieved(run, ph)' BY <1>1, <2>1, <2>2, <2>3, <2>4 DEF Achieved
  <2> QED BY <1>1, <2>5
<1>5. ExitZeroIsInForce' BY <1>1 DEF ExitZeroIsInForce, Idle
<1> QED BY <1>1, <1>2, <1>4, <1>5, IdleIs DEF LaunchInv, CommandsTypeOK, PlanFits

LEMMA ConfirmKeeps == ASSUME LaunchInv, Confirm PROVE LaunchInv'
<1>1. Phase("confirm") BY DEF Confirm
<1>2. run.cmd \in Long /\ run \in Commanded /\ run.plan # <<>> /\ exit = Idle
      /\ Coming(run.plan) = "stacks" /\ run.name = ""
  <2>1. run.cmd \in Long /\ run \in Commanded /\ run.plan # <<>> /\ exit = Idle BY <1>1, InPhase
  <2>2. Achieved(run, "confirm") /\ Coming(run.plan) \in Follows["confirm"] BY <1>1, <2>1, InPhase
  <2> QED BY <2>1, <2>2 DEF Follows, Achieved, Refreshing
<1>3. PICK r : r = [run EXCEPT !.todo = Expected, !.version = source,
                               !.astray = {f \in FunctionNames : lambdas[f].own # Deployed(f)}]
  OBVIOUS
<1>4. NextPhase(r) /\ UNCHANGED <<source, stacks, settings, creds, lambdas, site>>
  BY <1>3 DEF Confirm, Quiet
<1>5. source \in Nat /\ Expected \subseteq AlwaysDeployed \cup Optional
  BY LaunchAssumption DEF LaunchInv, LaunchTypeOK, Expected
<1>6. /\ r \in Commanded /\ r.cmd = run.cmd /\ r.plan = run.plan /\ r.name = "" /\ r.todo = Expected
      /\ r.version = source /\ r.astray = {f \in FunctionNames : lambdas[f].own # Deployed(f)}
  BY <1>2, <1>3, <1>5 DEF Commanded
<1>7. Achieved(r, "stacks")'
  <2>1. OwnKept(r)' BY <1>4, <1>6, LaunchAssumption DEF OwnKept, Deployed
  <2>2. StacksKept(r, "stacks")'
    <3>0. r.version = source /\ source' = source /\ source \in Nat BY <1>4, <1>5, <1>6
    <3>1. r.version <= source' BY ONLY <3>0
    <3>2. r.todo \subseteq Expected BY <1>6
    <3>3. \A s \in Expected : s \in r.todo BY <1>6
    <3> QED BY <3>1, <3>2, <3>3 DEF StacksKept, Expected
  <2> QED BY <1>6, <2>1, <2>2 DEF Achieved
<1>8. LaunchTypeOK' /\ OthersAbsent' BY <1>4 DEF LaunchInv, LaunchTypeOK, OthersAbsent
<1> QED BY <1>2, <1>4, <1>6, <1>7, <1>8, NextKeeps DEF LaunchInv, PlanFits

LEMMA StopKeeps == ASSUME LaunchInv, Stop PROVE LaunchInv'
<1>1. Exit(run, 1) /\ run \in Commanded
      /\ UNCHANGED <<source, settings, creds, lambdas, site>>
  BY DEF Stop, LaunchInv, CommandsTypeOK
<1>2. LaunchTypeOK' /\ OthersAbsent'
  <2>1. CASE stacks' = stacks BY <1>1, <2>1 DEF LaunchInv, LaunchTypeOK, OthersAbsent
  <2>2. ASSUME Phase("stacks"), NEW s \in run.todo, stacks' = [stacks EXCEPT ![s].status = "IN_PROGRESS"]
        PROVE  LaunchTypeOK' /\ OthersAbsent'
    <3>1. s \in Expected /\ Expected \subseteq AlwaysDeployed \cup Optional
      BY <2>2, InPhase, LaunchAssumption DEF Achieved, StacksKept, Confirmed, Expected
    <3> QED BY <1>1, <2>2, <3>1 DEF LaunchInv, LaunchTypeOK, OthersAbsent, StackStatus
  <2> QED BY <2>1, <2>2 DEF Stop
<1> QED BY <1>1, <1>2, ExitKeeps

LEMMA ResumeKeeps == ASSUME LaunchInv, NEW again \in BOOLEAN, NEW page \in BOOLEAN, Resume(again, page) PROVE LaunchInv'
<1>1. Phase("resume") /\ UNCHANGED <<source, stacks, settings, creds, lambdas, site>> BY DEF Resume, Quiet
<1>2. run.cmd \in Long /\ run \in Commanded /\ run.plan # <<>> /\ exit = Idle
      /\ Coming(run.plan) = "confirm" /\ run.name = ""
  <2>1. run.cmd \in Long /\ run \in Commanded /\ run.plan # <<>> /\ exit = Idle BY <1>1, InPhase
  <2>2. Achieved(run, "resume") /\ Coming(run.plan) \in Follows["resume"] BY <1>1, <2>1, InPhase
  <2> QED BY <2>1, <2>2 DEF Follows, Achieved, Refreshing
<1>3. LaunchTypeOK' /\ OthersAbsent' BY <1>1 DEF LaunchInv, LaunchTypeOK, OthersAbsent
<1>4. CASE NextPhase(run)
  <2>2. PICK r : r = run OBVIOUS
  <2>3. Achieved(r, "confirm")' BY <1>2, <2>2 DEF Achieved, Confirmed, Refreshing
  <2>4. NextPhase(r) /\ PlanFits(r) /\ r \in Commanded /\ r.plan # <<>>
        /\ Coming(r.plan) = "confirm"
    BY <1>2, <1>4, <2>2 DEF LaunchInv
  <2>5. r.cmd \in Long => Achieved(r, Coming(r.plan))' BY <2>3, <2>4
  <2>6. exit = Idle BY <1>2
  <2> QED BY ONLY <1>3, <2>4, <2>5, <2>6, NextKeeps
<1>5. ASSUME NEW cmd \in {"wait", "none"}, Exit([run EXCEPT !.cmd = cmd], 0) PROVE LaunchInv'
  <2>1. PICK r : r = [run EXCEPT !.cmd = cmd] OBVIOUS
  <2>2. r \in Commanded /\ r.cmd \notin Long BY <1>2, <2>1 DEF Commanded, Long
  <2> QED BY <1>3, <1>5, <2>1, <2>2, ExitKeeps
<1>6. CASE GoOn([run EXCEPT !.cmd = "site", !.plan = <<"site">>])
  <2>1. PICK r : r = [run EXCEPT !.cmd = "site", !.plan = <<"site">>] OBVIOUS
  <2>2. <<"site">> \in ShortPlans /\ <<"site">> \in Seq(Phases) BY DEF ShortPlans, Phases
  <2>3. r \in Commanded /\ r.cmd \notin Long /\ r.plan = <<"site">> BY <1>2, <2>1, <2>2 DEF Commanded, Long
  <2>4. GoOn(r) BY <1>6, <2>1
  <2>5. PlanFits(r) /\ r.plan # <<>> BY <2>2, <2>3 DEF PlanFits
  <2>6. exit = Idle BY <1>2
  <2> QED BY ONLY <1>3, <2>3, <2>4, <2>5, <2>6, GoOnKeeps
<1>7. NextPhase(run) \/ Exit([run EXCEPT !.cmd = "wait"], 0) \/ Exit([run EXCEPT !.cmd = "none"], 0)
      \/ GoOn([run EXCEPT !.cmd = "site", !.plan = <<"site">>])
  BY DEF Resume
<1> QED BY <1>4, <1>5, <1>6, <1>7

(* A stack that ends one way or the other leaves the other stacks and every function's own
   variables what they were to be. *)
LEMMA StackChanges ==
  ASSUME LaunchInv, NEW s \in Expected, NEW v \in Nat, StackGets(s, v) \/ StackFails(s),
         UNCHANGED <<source, creds, site>>
  PROVE  /\ LaunchTypeOK' /\ OthersAbsent'
         /\ \A t \in Expected \ {s} : stacks'[t] = stacks[t]
         /\ StackGets(s, v) => stacks'[s] = [status |-> "COMPLETE", version |-> v]
         /\ \A f \in FunctionNames : lambdas[f].own = Deployed(f) => lambdas'[f].own = Deployed(f)'
<1>1. s \in DOMAIN stacks /\ Expected \subseteq DOMAIN stacks
      /\ DOMAIN stacks = AlwaysDeployed \cup Optional
  BY LaunchAssumption DEF Expected, LaunchInv, LaunchTypeOK
<1>2. stacks[s].status \in StackStatus /\ stacks[s].version \in Nat
  BY <1>1 DEF LaunchInv, LaunchTypeOK
<1>3. CASE StackGets(s, v)
  <2>1. /\ stacks' \in [AlwaysDeployed \cup Optional -> [status : StackStatus, version : Nat]]
        /\ stacks'[s] = [status |-> "COMPLETE", version |-> v]
        /\ \A t \in DOMAIN stacks : t # s => stacks'[t] = stacks[t]
    BY <1>1, <1>3 DEF StackGets, LaunchInv, LaunchTypeOK, StackStatus
  <2>2. settings' \in Nat BY <1>3 DEF StackGets, LaunchInv, LaunchTypeOK
  <2>3. Own(v, 0) \in Variables /\ Cold \in [settings : Nat, creds : Nat]
    BY DEF Own, Variables, Cold
  <2>4. lambdas' \in [FunctionNames -> [own : Variables, warm : [settings : Nat, creds : Nat], edited : Nat]]
    BY <1>3, <2>3 DEF StackGets, LaunchInv, LaunchTypeOK
  <2>5. ASSUME NEW f \in FunctionNames, lambdas[f].own = Deployed(f)
        PROVE  lambdas'[f].own = Deployed(f)'
    <3>1. HomeOf[f] \in DOMAIN stacks BY <1>1, LaunchAssumption
    <3>2. CASE HomeOf[f] = s /\ stacks[s].version # v
      <4>1. lambdas'[f] = [own |-> Own(v, 0), warm |-> Cold, edited |-> 0]
        BY <1>3, <3>2 DEF StackGets
      <4> QED BY <4>1, <2>1, <3>2 DEF Deployed
    <3>3. CASE ~(HomeOf[f] = s /\ stacks[s].version # v)
      <4>1. lambdas'[f] = lambdas[f] BY <1>3, <3>3 DEF StackGets
      <4>2. stacks'[HomeOf[f]].version = stacks[HomeOf[f]].version BY <2>1, <3>1, <3>3
      <4> QED BY <4>1, <4>2, <2>5 DEF Deployed
    <3> QED BY <3>2, <3>3
  <2>6. LaunchTypeOK' BY <2>1, <2>2, <2>4 DEF LaunchInv, LaunchTypeOK
  <2>7. OthersAbsent' BY <1>1, <2>1 DEF LaunchInv, OthersAbsent
  <2> QED BY <1>1, <2>1, <2>5, <2>6, <2>7
<1>4. CASE StackFails(s)
  <2>1. PICK st : st = CASE stacks[s].version = 0 -> "ROLLBACK_COMPLETE"
                         [] stacks[s].status \in Broken -> stacks[s].status
                         [] OTHER -> "UPDATE_ROLLBACK_COMPLETE"
    OBVIOUS
  <2>2. st \in StackStatus BY <1>2, <2>1 DEF StackStatus, Broken
  <2>3. stacks' = [stacks EXCEPT ![s].status = st] /\ UNCHANGED <<settings, lambdas>>
    BY <1>4, <2>1 DEF StackFails
  <2>4. /\ stacks' \in [AlwaysDeployed \cup Optional -> [status : StackStatus, version : Nat]]
        /\ \A t \in DOMAIN stacks : t # s => stacks'[t] = stacks[t]
        /\ \A t \in DOMAIN stacks : stacks'[t].version = stacks[t].version
    BY <1>1, <2>2, <2>3 DEF LaunchInv, LaunchTypeOK
  <2>5. LaunchTypeOK' BY <2>3, <2>4 DEF LaunchInv, LaunchTypeOK
  <2>6. OthersAbsent' BY <1>1, <2>4 DEF LaunchInv, OthersAbsent
  <2>7. \A f \in FunctionNames : lambdas[f].own = Deployed(f) => lambdas'[f].own = Deployed(f)'
    BY <1>1, <2>3, <2>4, LaunchAssumption DEF Deployed
  <2>8. ~StackGets(s, v) \/ stacks'[s] = [status |-> "COMPLETE", version |-> v]
    BY <1>1, <2>3 DEF StackGets, LaunchInv, LaunchTypeOK
  <2> QED BY <1>1, <2>4, <2>5, <2>6, <2>7, <2>8
<1> QED BY <1>3, <1>4

LEMMA DeployOneKeeps ==
  ASSUME LaunchInv, NEW s \in DOMAIN stacks, NEW ok \in BOOLEAN, DeployOne(s, ok)
  PROVE  LaunchInv'
<1>1. Phase("stacks") /\ s \in run.todo /\ UNCHANGED <<source, creds, site>> BY DEF DeployOne
<1>2. run \in Commanded /\ run.plan # <<>> /\ Head(run.plan) = "stacks" /\ exit = Idle
      /\ run.cmd \in Long /\ Coming(run.plan) = "lambdas"
  <2>1. run \in Commanded /\ run.plan # <<>> /\ Head(run.plan) = "stacks" /\ exit = Idle
        /\ run.cmd \in Long
    BY <1>1, InPhase
  <2>2. Coming(run.plan) \in Follows["stacks"] BY <1>1, <2>1, InPhase
  <2> QED BY <2>1, <2>2 DEF Follows
<1>3. StacksKept(run, "stacks") /\ OwnKept(run) /\ run.name = ""
  <2>1. Achieved(run, "stacks") BY <1>1, <1>2, InPhase
  <2> QED BY <2>1 DEF Achieved, Confirmed, Refreshing
<1>4. s \in Expected /\ run.version \in Nat BY <1>1, <1>2, <1>3 DEF StacksKept, Commanded
<1>5. CASE ~ok
  <2>1. Exit(run, 1) BY <1>5 DEF DeployOne
  <2>2. UNCHANGED <<stacks, settings, lambdas>> \/ StackFails(s) BY <1>5 DEF DeployOne
  <2>3. LaunchTypeOK' /\ OthersAbsent'
    <3>1. CASE UNCHANGED <<stacks, settings, lambdas>>
      BY <1>1, <3>1 DEF LaunchInv, LaunchTypeOK, OthersAbsent
    <3>2. CASE StackFails(s) BY <1>1, <1>4, <3>2, StackChanges
    <3> QED BY <2>2, <3>1, <3>2
  <2> QED BY <1>2, <2>1, <2>3, ExitKeeps
<1>6. CASE ok
  <2>1. PICK r : r = [run EXCEPT !.todo = run.todo \ {s}] OBVIOUS
  <2>2. StackGets(s, run.version) /\ IF r.todo = {} THEN NextPhase(r) ELSE GoOn(r)
    BY <1>6, <2>1 DEF DeployOne
  <2>3. /\ r \in Commanded /\ r.todo = run.todo \ {s} /\ r.plan = run.plan /\ r.cmd = run.cmd
        /\ r.name = "" /\ r.version = run.version /\ r.lost = run.lost /\ r.astray = run.astray
    BY <1>2, <1>3, <2>1 DEF Commanded
  <2>4. /\ LaunchTypeOK' /\ OthersAbsent'
        /\ \A t \in Expected \ {s} : stacks'[t] = stacks[t]
        /\ stacks'[s] = [status |-> "COMPLETE", version |-> run.version]
        /\ \A f \in FunctionNames : lambdas[f].own = Deployed(f) => lambdas'[f].own = Deployed(f)'
    BY <1>1, <1>4, <2>2, StackChanges
  <2>5. OwnKept(r)' BY <1>3, <2>3, <2>4, LaunchAssumption DEF OwnKept
  <2>6. /\ r.version <= source' /\ r.todo \subseteq Expected
        /\ \A t \in Expected : t \in r.todo \/ stacks'[t] = [status |-> "COMPLETE", version |-> r.version]
    <3>1. source' = source BY <1>1
    <3> QED BY <3>1, <1>3, <2>3, <2>4 DEF StacksKept
  <2>7. Achieved(r, "stacks")'
    <3>1. StacksKept(r, "stacks")' BY <2>6 DEF StacksKept, Expected
    <3> QED BY <2>3, <2>5, <3>1 DEF Achieved
  <2>8. CASE r.todo = {}
    <3>1. StacksKept(r, "lambdas")' BY <2>6, <2>8 DEF StacksKept, Expected
    <3>2. FreshKept(r, "lambdas")' BY <2>3 DEF FreshKept, Waits, Refreshing
    <3>3. Achieved(r, "lambdas")' BY <2>5, <3>1, <3>2 DEF Achieved, Refreshing
    <3>4. NextPhase(r) /\ PlanFits(r) /\ r.plan # <<>> /\ Coming(r.plan) = "lambdas"
      BY <1>2, <2>2, <2>3, <2>8 DEF LaunchInv, PlanFits
    <3> QED BY <1>2, <2>3, <2>4, <3>3, <3>4, NextKeeps
  <2>9. CASE r.todo # {}
    <3>1. GoOn(r) /\ PlanFits(r) /\ r.plan # <<>> /\ Head(r.plan) = "stacks"
      BY <1>2, <2>2, <2>3, <2>9 DEF LaunchInv, PlanFits
    <3> QED BY <1>2, <2>3, <2>4, <2>7, <3>1, GoOnKeeps
  <2> QED BY <2>8, <2>9
<1> QED BY <1>5, <1>6

LEMMA StackSettlesKeeps ==
  ASSUME LaunchInv, NEW s \in DOMAIN stacks, NEW v \in 1..source, NEW ok \in BOOLEAN,
         StackSettles(s, v, ok)
  PROVE  LaunchInv'
<1>1. /\ stacks[s].status = "IN_PROGRESS" /\ exit' = Idle /\ run' = run
      /\ UNCHANGED <<source, creds, site>> /\ (StackGets(s, v) \/ StackFails(s))
  BY DEF StackSettles
<1>2. s \in Expected /\ v \in Nat BY <1>1 DEF LaunchInv, LaunchTypeOK, OthersAbsent
<1>3. /\ LaunchTypeOK' /\ OthersAbsent'
      /\ \A t \in Expected \ {s} : stacks'[t] = stacks[t]
      /\ \A f \in FunctionNames : lambdas[f].own = Deployed(f) => lambdas'[f].own = Deployed(f)'
  BY <1>1, <1>2, StackChanges
<1>4. ExitZeroIsInForce' BY <1>1 DEF ExitZeroIsInForce, Idle
<1>5. ASSUME run.cmd \in Long PROVE Achieved(run, Head(run.plan))'
  <2> PICK ph : ph = Head(run.plan) OBVIOUS
  <2>1. Achieved(run, ph) BY <1>5 DEF LaunchInv
  <2>2. CASE ph \in Confirmed
    <3>1. StacksKept(run, ph) /\ OwnKept(run) BY <2>1, <2>2 DEF Achieved
    <3>2. ph = "stacks" /\ s \in run.todo /\ run.todo \subseteq Expected
      BY <1>1, <1>2, <3>1 DEF StacksKept
    <3>3. run.name = "" BY <2>1, <3>2 DEF Achieved, Refreshing
    <3>4. PICK r : r = run OBVIOUS
    <3>5. OwnKept(r)' BY <1>3, <3>1, <3>3, <3>4, LaunchAssumption DEF OwnKept
    <3>6. r.version <= source' /\ r.todo \subseteq Expected
          /\ \A t \in Expected : t \in r.todo \/ stacks'[t] = [status |-> "COMPLETE", version |-> r.version]
      <4>1. source' = source BY <1>1
      <4> QED BY <4>1, <1>3, <3>1, <3>2, <3>4 DEF StacksKept
    <3>7. StacksKept(r, "stacks")' BY <3>6 DEF StacksKept, Expected
    <3>8. Achieved(r, "stacks")' BY <3>3, <3>4, <3>5, <3>7 DEF Achieved
    <3>9. r = run' BY <1>1, <3>4
    <3> QED BY <1>1, <3>2, <3>8, <3>9
  <2>3. CASE ph \notin Confirmed
    BY <1>1, <2>1, <2>3 DEF Achieved, Confirmed
  <2> QED BY <2>2, <2>3
<1> QED BY <1>1, <1>3, <1>4, <1>5, IdleIs DEF LaunchInv, CommandsTypeOK, PlanFits

(* Between two functions of a refresh. *)
Between(r, ph) ==
  /\ StacksKept(r, ph)
  /\ \A f \in FunctionNames \ (r.lost \cup r.astray) : lambdas[f].own = Deployed(f)
  /\ r.code = 0 => \A f \in FunctionNames \ r.skipped : Alive(f) =>
       /\ (ph = "lambdas" /\ f \in r.todo) \/ SettingsRead(f)
       /\ f \in CredReaders \ r.failed => f \in r.todo \/ CredsRead(f)
  /\ ph = "readers" => site >= r.version

LEMMA BouncedKeeps ==
  ASSUME NEW r \in Commanded, Bounced(r), exit = Idle, LaunchTypeOK', OthersAbsent',
         PlanFits(r), r.plan # <<>>,
         r.cmd \in Long => Head(r.plan) \in Refreshing /\ Between(r, Head(r.plan))'
  PROVE  LaunchInv'
<1> PICK ph : ph = Head(r.plan) OBVIOUS
<1>1. r.cmd \in Long => ph \in {"lambdas", "readers"} BY DEF Refreshing
<1>2. CASE r.todo = {}
  <2>1. PICK q : q = [r EXCEPT !.name = ""] OBVIOUS
  <2>2. q \in Commanded /\ q.plan = r.plan /\ q.cmd = r.cmd /\ q.name = "" /\ q.todo = {}
        /\ q.env = r.env /\ q.code = r.code /\ q.version = r.version /\ q.skipped = r.skipped
        /\ q.failed = r.failed /\ q.lost = r.lost /\ q.astray = r.astray
    BY <1>2, <2>1 DEF Commanded
  <2>3. NextPhase(q) /\ PlanFits(q) /\ q.plan # <<>>
    <3>1. NextPhase(q) BY <1>2, <2>1 DEF Bounced
    <3>2. PlanFits(q) BY <2>2 DEF PlanFits
    <3> QED BY <2>2, <3>1, <3>2
  <2>4. ASSUME q.cmd \in Long PROVE Achieved(q, Coming(q.plan))'
    <3>1. PICK c : c = Coming(q.plan) OBVIOUS
    <3>2. /\ c \in {"site", "kb"} /\ (c = "kb" => ph = "readers")
      <4>1. Coming(q.plan) \in Follows[ph] BY <2>2, <2>4, LongStep DEF PlanFits, Steps
      <4>2. Follows["lambdas"] = {"site"} /\ Follows["readers"] = {"kb"} BY DEF Follows
      <4>3. ph \in {"lambdas", "readers"} BY <1>1, <2>2, <2>4
      <4> QED BY ONLY <3>1, <4>1, <4>2, <4>3
    <3>3. Between(r, ph)' BY <2>2, <2>4
    <3>4. StacksKept(q, c)' BY <1>1, <2>2, <2>4, <3>2, <3>3 DEF Between, StacksKept
    <3>5. OwnKept(q)' BY <2>2, <3>3, LaunchAssumption DEF Between, OwnKept
    <3>6. FreshKept(q, c)' BY <1>1, <1>2, <2>2, <2>4, <3>2, <3>3 DEF Between, FreshKept, Refreshing
    <3>7. c = "kb" => site' >= q.version BY <2>2, <3>2, <3>3 DEF Between
    <3>8. Achieved(q, c)' BY <2>2, <3>2, <3>4, <3>5, <3>6, <3>7 DEF Achieved
    <3> QED BY <3>1, <3>8
  <2> QED BY <2>2, <2>3, <2>4, NextKeeps
<1>3. CASE r.todo # {}
  <2>1. PICK q : q = [r EXCEPT !.name = "next"] OBVIOUS
  <2>2. q \in Commanded /\ q.plan = r.plan /\ q.cmd = r.cmd /\ q.name = "next" /\ q.todo = r.todo
        /\ q.env = r.env /\ q.code = r.code /\ q.version = r.version /\ q.skipped = r.skipped
        /\ q.failed = r.failed /\ q.lost = r.lost /\ q.astray = r.astray
    BY <2>1 DEF Commanded
  <2>3. GoOn(q) /\ PlanFits(q) /\ q.plan # <<>>
    <3>1. GoOn(q) BY <1>3, <2>1 DEF Bounced
    <3>2. PlanFits(q) BY <2>2 DEF PlanFits
    <3> QED BY <2>2, <3>1, <3>2
  <2>4. ASSUME q.cmd \in Long PROVE Achieved(q, Head(q.plan))'
    <3>1. Between(r, ph)' BY <2>2, <2>4
    <3>2. StacksKept(q, ph)' BY <1>1, <2>2, <2>4, <3>1 DEF Between, StacksKept
    <3>3. OwnKept(q)' BY <2>2, <3>1, LaunchAssumption DEF Between, OwnKept
    <3>4. FreshKept(q, ph)' BY <1>1, <2>2, <2>4, <3>1 DEF Between, FreshKept, Refreshing, Waits
    <3>5. ph = "readers" => site' >= q.version BY <2>2, <3>1 DEF Between
    <3>6. Achieved(q, ph)' BY <1>1, <2>2, <2>4, <3>2, <3>3, <3>4, <3>5 DEF Achieved, Refreshing
    <3> QED BY <2>2, <3>6
  <2> QED BY <2>2, <2>3, <2>4, GoOnKeeps
<1> QED BY <1>2, <1>3

(* A function is being read or written. *)
LEMMA InRefresh ==
  ASSUME LaunchInv, run.name # ""
  PROVE  /\ run \in Commanded /\ run.plan # <<>> /\ exit = Idle /\ PlanFits(run)
         /\ run.cmd \in Long => Head(run.plan) \in Refreshing /\ Achieved(run, Head(run.plan))
<1>1. run \in Commanded /\ exit = Idle /\ run.plan # <<>> /\ PlanFits(run)
  BY IdleIs DEF LaunchInv, CommandsTypeOK
<1>2. ASSUME run.cmd \in Long PROVE Head(run.plan) \in Refreshing /\ Achieved(run, Head(run.plan))
  <2>1. Achieved(run, Head(run.plan)) BY <1>2 DEF LaunchInv
  <2> QED BY <2>1 DEF Achieved
<1> QED BY <1>1, <1>2

LEMMA ListFunctionsKeeps ==
  ASSUME LaunchInv, NEW ok \in BOOLEAN, ListFunctions(ok) PROVE LaunchInv'
<1>1. PICK ph \in {"lambdas", "readers"} : Phase(ph) BY DEF ListFunctions
<1>2. run.name = "" /\ UNCHANGED <<source, stacks, settings, creds, lambdas, site>>
  BY DEF ListFunctions, Quiet
<1>3. LaunchTypeOK' /\ OthersAbsent' BY <1>2 DEF LaunchInv, LaunchTypeOK, OthersAbsent
<1>4. run \in Commanded /\ run.plan # <<>> /\ Head(run.plan) = ph /\ exit = Idle /\ PlanFits(run)
  BY <1>1, InPhase DEF LaunchInv
<1>5. run.cmd \in Long =>
        /\ StacksKept(run, ph) /\ OwnKept(run) /\ FreshKept(run, ph)
        /\ ph = "readers" => site >= run.version
  <2>1. run.cmd \in Long => Achieved(run, ph) BY <1>1, InPhase
  <2> QED BY <2>1 DEF Achieved, Confirmed
<1>6. PICK names : names = {f \in Targets : ok /\ Alive(f)} OBVIOUS
<1>7. names \subseteq FunctionNames BY <1>6, LaunchAssumption DEF Targets
<1>8. CASE names = {}
  <2>1. PICK r : r = [run EXCEPT !.skipped = FunctionNames] OBVIOUS
  <2>2. NextPhase(r) BY <1>6, <1>8, <2>1 DEF ListFunctions
  <2>3. /\ r \in Commanded /\ r.cmd = run.cmd /\ r.plan = run.plan /\ r.name = ""
        /\ r.version = run.version /\ r.env = run.env /\ r.skipped = FunctionNames
        /\ r.lost = run.lost /\ r.astray = run.astray
    BY <1>2, <1>4, <2>1 DEF Commanded
  <2>4. PlanFits(r) /\ r.plan # <<>> BY <1>4, <2>3 DEF PlanFits
  <2>5. ASSUME r.cmd \in Long PROVE Achieved(r, Coming(r.plan))'
    <3>1. PICK c : c = Coming(r.plan) OBVIOUS
    <3>2. c \in {"site", "kb"} /\ (c = "kb" => ph = "readers")
      <4>1. Coming(run.plan) \in Follows[ph] BY <1>1, <2>3, <2>5, InPhase
      <4>2. Follows["lambdas"] = {"site"} /\ Follows["readers"] = {"kb"} BY DEF Follows
      <4>3. c \in Follows[ph] BY <2>3, <3>1, <4>1
      <4> QED BY ONLY <1>1, <4>2, <4>3
    <3>3. StacksKept(r, c)' BY <1>2, <1>5, <2>3, <2>5, <3>2 DEF StacksKept
    <3>4. OwnKept(r)' BY <1>2, <1>5, <2>3, <2>5, LaunchAssumption DEF OwnKept, Deployed
    <3>5. FreshKept(r, c)' BY <2>3 DEF FreshKept
    <3>6. c = "kb" => site' >= r.version BY <1>2, <1>5, <2>3, <2>5, <3>2
    <3>7. Achieved(r, c)' BY <2>3, <3>2, <3>3, <3>4, <3>5, <3>6 DEF Achieved
    <3> QED BY <3>1, <3>7
  <2> QED BY <1>3, <1>4, <2>2, <2>3, <2>4, <2>5, NextKeeps
<1>9. CASE names # {}
  <2>1. PICK r : r = [run EXCEPT !.todo = names, !.name = "next"] OBVIOUS
  <2>2. GoOn(r) BY <1>6, <1>9, <2>1 DEF ListFunctions
  <2>3. /\ r \in Commanded /\ r.cmd = run.cmd /\ r.plan = run.plan /\ r.name = "next" /\ r.todo = names
        /\ r.version = run.version /\ r.env = run.env /\ r.skipped = run.skipped /\ r.code = run.code
        /\ r.failed = run.failed /\ r.lost = run.lost /\ r.astray = run.astray
    BY <1>4, <1>7, <2>1 DEF Commanded
  <2>4. PlanFits(r) /\ r.plan # <<>> BY <1>4, <2>3 DEF PlanFits
  <2>5. ASSUME r.cmd \in Long PROVE Achieved(r, Head(r.plan))'
    <3>1. StacksKept(r, ph)' BY <1>2, <1>5, <2>3, <2>5 DEF StacksKept
    <3>2. OwnKept(r)' BY <1>2, <1>5, <2>3, <2>5, LaunchAssumption DEF OwnKept, Deployed
    <3>3. names = {f \in FunctionNames : Alive(f) /\ (ph = "readers" => f \in CredReaders)}
      <4>1. ok BY <1>6, <1>9
      <4>2. Targets = IF ph = "readers" THEN CredReaders ELSE FunctionNames BY <1>4 DEF Targets
      <4> QED BY <1>1, <1>6, <4>1, <4>2, LaunchAssumption
    <3>4. ASSUME r.code = 0, NEW f \in FunctionNames \ r.skipped, Alive(f)'
          PROVE  /\ (ph = "lambdas" /\ f \in r.todo) \/ SettingsRead(f)'
                 /\ f \in CredReaders \ r.failed => f \in r.todo
      <4>1. Alive(f) BY <1>2, <3>4 DEF Alive
      <4>2. ph = "readers" => SettingsRead(f)'
        <5>1. ph = "readers" => SettingsRead(f) BY <1>5, <2>3, <2>5, <3>4, <4>1 DEF FreshKept
        <5> QED BY <1>2, <5>1 DEF SettingsRead
      <4> QED BY <1>1, <2>3, <3>3, <4>1, <4>2
    <3>5. FreshKept(r, ph)' BY <1>1, <3>4 DEF FreshKept, Waits, Refreshing
    <3>6. ph = "readers" => site' >= r.version BY <1>2, <1>5, <2>3, <2>5
    <3>7. Achieved(r, ph)' BY <1>1, <3>1, <3>2, <3>5, <3>6 DEF Achieved, Refreshing
    <3> QED BY <1>4, <2>3, <3>7
  <2> QED BY <1>3, <1>4, <2>2, <2>3, <2>4, <2>5, GoOnKeeps
<1> QED BY <1>8, <1>9

LEMMA ReadEnvKeeps ==
  ASSUME LaunchInv, NEW f \in FunctionNames, NEW ok \in BOOLEAN, ReadEnv(f, ok)
  PROVE  LaunchInv'
<1>1. /\ run.name = "next" /\ f \in run.todo
      /\ UNCHANGED <<source, stacks, settings, creds, lambdas, site>>
  BY DEF ReadEnv, Quiet
<1>2. LaunchTypeOK' /\ OthersAbsent' BY <1>1 DEF LaunchInv, LaunchTypeOK, OthersAbsent
<1>3. PICK ph : ph = Head(run.plan) OBVIOUS
<1>4. run \in Commanded /\ run.plan # <<>> /\ exit = Idle /\ PlanFits(run) BY <1>1, InRefresh
<1>5. run.cmd \in Long =>
        /\ ph \in Refreshing /\ StacksKept(run, ph) /\ OwnKept(run) /\ FreshKept(run, ph)
        /\ ph = "readers" => site >= run.version
  <2>1. run.cmd \in Long => ph \in Refreshing /\ Achieved(run, ph) BY <1>1, <1>3, InRefresh
  <2> QED BY <2>1 DEF Achieved, Confirmed, Refreshing
<1>6. lambdas[f].own \in Variables BY DEF LaunchInv, LaunchTypeOK
<1>7. CASE ok
  <2>1. PICK r : r = [run EXCEPT !.name = f, !.env = lambdas[f].own, !.todo = run.todo \ {f}] OBVIOUS
  <2>2. GoOn(r) BY <1>7, <2>1 DEF ReadEnv
  <2>3. /\ r \in Commanded /\ r.cmd = run.cmd /\ r.plan = run.plan /\ r.name = f
        /\ r.todo = run.todo \ {f} /\ r.env = lambdas[f].own
        /\ r.version = run.version /\ r.skipped = run.skipped /\ r.code = run.code
        /\ r.failed = run.failed /\ r.lost = run.lost /\ r.astray = run.astray
    BY <1>4, <1>6, <2>1 DEF Commanded
  <2>4. PlanFits(r) /\ r.plan # <<>> BY <1>4, <2>3 DEF PlanFits
  <2>5. ASSUME r.cmd \in Long PROVE Achieved(r, Head(r.plan))'
    <3>1. StacksKept(r, ph)' BY <1>1, <1>5, <2>3, <2>5 DEF StacksKept, Refreshing
    <3>2. OwnKept(r)' BY <1>1, <1>5, <2>3, <2>5 DEF OwnKept, Deployed
    <3>3. \A g \in FunctionNames : Waits(run, g) => Waits(r, g)
      BY <1>1, <2>3, LaunchAssumption DEF Waits
    <3>4. FreshKept(r, ph)'
      BY <1>1, <1>5, <2>3, <2>5, <3>3 DEF FreshKept, Alive, SettingsRead, CredsRead
    <3>5. Achieved(r, ph)' BY <1>1, <1>5, <2>3, <2>5, <3>1, <3>2, <3>4 DEF Achieved, Refreshing
    <3> QED BY <1>3, <2>3, <3>5
  <2> QED BY <1>2, <1>4, <2>2, <2>3, <2>4, <2>5, GoOnKeeps
<1>8. CASE ~ok
  <2>1. PICK r : r = [run EXCEPT !.skipped = run.skipped \cup {f}, !.todo = run.todo \ {f}] OBVIOUS
  <2>2. Bounced(r) BY <1>8, <2>1 DEF ReadEnv, ReadFailed
  <2>3. /\ r \in Commanded /\ r.cmd = run.cmd /\ r.plan = run.plan
        /\ r.todo = run.todo \ {f} /\ r.env = run.env
        /\ r.version = run.version /\ r.skipped = run.skipped \cup {f} /\ r.code = run.code
        /\ r.failed = run.failed /\ r.lost = run.lost /\ r.astray = run.astray
    BY <1>4, <2>1 DEF Commanded
  <2>4. PlanFits(r) /\ r.plan # <<>> BY <1>4, <2>3 DEF PlanFits
  <2>5. ASSUME r.cmd \in Long PROVE Head(r.plan) \in Refreshing /\ Between(r, Head(r.plan))'
    <3>1. StacksKept(r, ph)' BY <1>1, <1>5, <2>3, <2>5 DEF StacksKept, Refreshing
    <3>2. \A g \in FunctionNames \ (r.lost \cup r.astray) : lambdas'[g].own = Deployed(g)'
      BY <1>1, <1>5, <2>3, <2>5 DEF OwnKept, Deployed
    <3>3. \A g \in FunctionNames \ {f} : Waits(run, g) => g \in r.todo
      BY <1>1, <2>3, LaunchAssumption DEF Waits
    <3>4. r.code = 0 => \A g \in FunctionNames \ r.skipped : Alive(g)' =>
            /\ (ph = "lambdas" /\ g \in r.todo) \/ SettingsRead(g)'
            /\ g \in CredReaders \ r.failed => g \in r.todo \/ CredsRead(g)'
      BY <1>1, <1>5, <2>3, <2>5, <3>3 DEF FreshKept, Alive, SettingsRead, CredsRead
    <3>5. ph = "readers" => site' >= r.version BY <1>1, <1>5, <2>3, <2>5
    <3>6. Between(r, ph)' BY <3>1, <3>2, <3>4, <3>5 DEF Between
    <3> QED BY <1>3, <1>5, <2>3, <2>5, <3>6
  <2> QED BY <1>2, <1>4, <2>2, <2>3, <2>4, <2>5, BouncedKeeps
<1> QED BY <1>7, <1>8

LEMMA WriteEnvKeeps ==
  ASSUME LaunchInv, NEW f \in FunctionNames, NEW written \in BOOLEAN, NEW settled \in BOOLEAN,
         WriteEnv(f, written, settled)
  PROVE  LaunchInv'
<1>1. run.name = f /\ f # "" /\ f # "next" /\ UNCHANGED <<source, stacks, settings, creds, site>>
  BY LaunchAssumption DEF WriteEnv
<1>2. PICK ph : ph = Head(run.plan) OBVIOUS
<1>3. run \in Commanded /\ run.plan # <<>> /\ exit = Idle /\ PlanFits(run) BY <1>1, InRefresh
<1>4. run.cmd \in Long =>
        /\ ph \in Refreshing /\ StacksKept(run, ph) /\ OwnKept(run) /\ FreshKept(run, ph)
        /\ ph = "readers" => site >= run.version
  <2>1. run.cmd \in Long => ph \in Refreshing /\ Achieved(run, ph) BY <1>1, <1>2, InRefresh
  <2> QED BY <2>1 DEF Achieved, Confirmed, Refreshing
<1>5. /\ lambdas' \in [FunctionNames -> [own : Variables, warm : [settings : Nat, creds : Nat], edited : Nat]]
      /\ \A g \in FunctionNames \ {f} : lambdas'[g] = lambdas[g]
      /\ lambdas'[f].edited = lambdas[f].edited
      /\ written => lambdas'[f].own = run.env /\ lambdas'[f].warm = Cold
      /\ ~written => lambdas'[f] = lambdas[f]
  <2>1. run.env \in Variables /\ Cold \in [settings : Nat, creds : Nat] BY <1>3 DEF Commanded, Cold
  <2>2. lambdas \in [FunctionNames -> [own : Variables, warm : [settings : Nat, creds : Nat], edited : Nat]]
    BY DEF LaunchInv, LaunchTypeOK
  <2>3. lambdas' = IF written THEN [lambdas EXCEPT ![f].own = run.env, ![f].warm = Cold] ELSE lambdas
    BY DEF WriteEnv
  <2> QED BY ONLY <2>1, <2>2, <2>3, f \in FunctionNames, written \in BOOLEAN
<1>6. LaunchTypeOK' /\ OthersAbsent' BY <1>1, <1>5 DEF LaunchInv, LaunchTypeOK, OthersAbsent
<1>7. PICK r : r = IF written /\ settled THEN run
                   ELSE [run EXCEPT !.failed = run.failed \cup {f},
                                    !.code = IF Phase("lambdas") THEN 2 ELSE run.code]
  OBVIOUS
<1>8. Bounced(r) BY <1>7 DEF WriteEnv
<1>9. /\ r \in Commanded /\ r.cmd = run.cmd /\ r.plan = run.plan /\ r.todo = run.todo
      /\ r.version = run.version /\ r.skipped = run.skipped
      /\ r.lost = run.lost /\ r.astray = run.astray
  BY <1>3, <1>7 DEF Commanded
<1>10. /\ run.failed \subseteq r.failed /\ (written \/ f \in r.failed)
       /\ r.code = 0 => run.code = 0 /\ (written \/ ~Phase("lambdas"))
  <2>1. CASE written /\ settled BY <1>7, <2>1
  <2>2. CASE ~(written /\ settled)
    <3>1. PICK code : code = IF Phase("lambdas") THEN 2 ELSE run.code OBVIOUS
    <3>2. r.failed = run.failed \cup {f} /\ r.code = code BY <1>3, <1>7, <2>2, <3>1 DEF Commanded
    <3>3. code = 0 => run.code = 0 /\ ~Phase("lambdas") BY <3>1
    <3> QED BY <3>2, <3>3
  <2> QED BY <2>1, <2>2
<1>11. PlanFits(r) /\ r.plan # <<>> BY <1>3, <1>9 DEF PlanFits
<1>12. ASSUME r.cmd \in Long PROVE Head(r.plan) \in Refreshing /\ Between(r, Head(r.plan))'
  <2>1. StacksKept(r, ph)' BY <1>1, <1>4, <1>9, <1>12 DEF StacksKept, Refreshing
  <2>2. ASSUME NEW g \in FunctionNames \ (r.lost \cup r.astray)
        PROVE  lambdas'[g].own = Deployed(g)'
    <3>1. lambdas[g].own = Deployed(g) /\ (run.name = g => run.env = lambdas[g].own)
      BY <1>4, <1>9, <1>12 DEF OwnKept
    <3> QED BY <1>1, <1>5, <3>1 DEF Deployed
  <2>3. ASSUME r.code = 0, NEW g \in FunctionNames \ r.skipped, Alive(g)'
        PROVE  /\ (ph = "lambdas" /\ g \in r.todo) \/ SettingsRead(g)'
               /\ g \in CredReaders \ r.failed => g \in r.todo \/ CredsRead(g)'
    <3>1. Alive(g) BY <1>1, <2>3 DEF Alive
    <3>2. /\ (ph = "lambdas" /\ Waits(run, g)) \/ SettingsRead(g)
          /\ g \in CredReaders \ run.failed => (ph \in Refreshing /\ Waits(run, g)) \/ CredsRead(g)
      BY <1>4, <1>9, <1>10, <1>12, <2>3, <3>1 DEF FreshKept
    <3>3. CASE g # f
      <4>1. SettingsRead(g) => SettingsRead(g)' BY <1>1, <1>5, <3>3 DEF SettingsRead
      <4>2. CredsRead(g) => CredsRead(g)' BY <1>1, <1>5, <3>3 DEF CredsRead
      <4>3. Waits(run, g) => g \in r.todo BY <1>1, <1>9, <3>3 DEF Waits
      <4> QED BY <1>10, <3>2, <4>1, <4>2, <4>3
    <3>4. CASE g = f /\ written
      <4>1. SettingsRead(f)' /\ CredsRead(f)' BY <1>5, <3>4 DEF SettingsRead, CredsRead
      <4> QED BY <3>4, <4>1
    <3>5. CASE g = f /\ ~written
      <4>1. f \in r.failed /\ ph # "lambdas" BY <1>2, <1>3, <1>10, <2>3, <3>5 DEF Phase
      <4>2. SettingsRead(g)' BY <1>1, <1>5, <3>2, <3>5, <4>1 DEF SettingsRead
      <4> QED BY <3>5, <4>1, <4>2
    <3> QED BY <3>3, <3>4, <3>5
  <2>4. ph = "readers" => site' >= r.version BY <1>1, <1>4, <1>9, <1>12
  <2>5. Between(r, ph)' BY <2>1, <2>2, <2>3, <2>4 DEF Between
  <2> QED BY <1>2, <1>4, <1>9, <1>12, <2>5
<1> QED BY <1>3, <1>6, <1>8, <1>9, <1>11, <1>12, BouncedKeeps

LEMMA InvokeKeeps == ASSUME LaunchInv, NEW f \in FunctionNames, Invoke(f) PROVE LaunchInv'
<1>1. /\ lambdas' = [lambdas EXCEPT ![f].warm = [settings |-> settings, creds |-> creds]]
      /\ UNCHANGED <<source, stacks, settings, creds, site, run, exit>>
  BY DEF Invoke
<1>2. LaunchTypeOK /\ CommandsTypeOK BY DEF LaunchInv
<1>3. /\ \A g \in FunctionNames \ {f} : lambdas'[g] = lambdas[g]
      /\ \A g \in FunctionNames : lambdas'[g].own = lambdas[g].own /\ lambdas'[g].edited = lambdas[g].edited
      /\ lambdas'[f].warm = [settings |-> settings, creds |-> creds]
  BY <1>1, <1>2 DEF LaunchTypeOK
<1>4. LaunchTypeOK' /\ OthersAbsent' BY <1>1, <1>2 DEF LaunchInv, LaunchTypeOK, OthersAbsent
<1>5. ASSUME NEW g \in FunctionNames
      PROVE  /\ SettingsRead(g) => SettingsRead(g)'
             /\ CredsRead(g) => CredsRead(g)'
             /\ Alive(g)' = Alive(g)
             /\ Deployed(g)' = Deployed(g)
  <2>1. CASE g = f BY <1>1, <1>3, <2>1 DEF SettingsRead, CredsRead, Alive, Deployed
  <2>2. CASE g # f BY <1>1, <1>3, <2>2 DEF SettingsRead, CredsRead, Alive, Deployed
  <2> QED BY <2>1, <2>2
<1>6. ASSUME run.cmd \in Long PROVE Achieved(run, Head(run.plan))'
  <2> PICK ph : ph = Head(run.plan) OBVIOUS
  <2> PICK r : r = run OBVIOUS
  <2>1. Achieved(r, ph) BY <1>6 DEF LaunchInv
  <2>2. StacksKept(r, ph) => StacksKept(r, ph)' BY <1>1 DEF StacksKept
  <2>3. OwnKept(r) => OwnKept(r)' BY <1>3, <1>5 DEF OwnKept
  <2>4. FreshKept(r, ph) => FreshKept(r, ph)' BY <1>5 DEF FreshKept
  <2>5. Achieved(r, ph)' BY <1>1, <2>1, <2>2, <2>3, <2>4 DEF Achieved
  <2> QED BY <1>1, <2>5
<1>7. ExitZeroIsInForce'
  <2> SUFFICES ASSUME exit.cmd \in Long, exit.code = 0 PROVE ExitZeroIsInForce'
    BY <1>1 DEF ExitZeroIsInForce, Long
  <2>1. /\ \A s \in Expected : stacks'[s] = [status |-> "COMPLETE", version |-> exit'.version]
        /\ site' >= exit'.version
    BY <1>1 DEF LaunchInv, ExitZeroIsInForce, Long
  <2>2. ASSUME NEW g \in {h \in FunctionNames : Alive(h)'} \ exit'.skipped
        PROVE  /\ lambdas'[g].warm # Cold => lambdas'[g].warm.settings = settings'
               /\ lambdas'[g].warm # Cold /\ g \in CredReaders \ exit'.failed
                    => lambdas'[g].warm.creds = creds'
               /\ g \notin exit'.lost \cup exit'.astray => lambdas'[g].own = Deployed(g)'
    <3>1. /\ SettingsRead(g)
          /\ g \in CredReaders \ exit.failed => CredsRead(g)
          /\ g \notin exit.lost \cup exit.astray => lambdas[g].own = Deployed(g)
      BY <1>1, <1>5, <2>2 DEF LaunchInv, ExitZeroIsInForce, Long, SettingsRead, CredsRead
    <3>2. /\ SettingsRead(g)'
          /\ g \in CredReaders \ exit.failed => CredsRead(g)'
          /\ g \notin exit.lost \cup exit.astray => lambdas'[g].own = Deployed(g)'
      BY <1>3, <1>5, <3>1
    <3> QED BY <1>1, <3>2 DEF SettingsRead, CredsRead
  <2> QED BY <2>1, <2>2 DEF ExitZeroIsInForce
<1> QED BY <1>1, <1>4, <1>6, <1>7 DEF LaunchInv, CommandsTypeOK, PlanFits

LEMMA EditLambdaKeeps == ASSUME LaunchInv, NEW f \in FunctionNames, EditLambda(f) PROVE LaunchInv'
<1>1. /\ lambdas' = [lambdas EXCEPT ![f].own.edits = lambdas[f].own.edits + 1,
                                    ![f].edited = lambdas[f].edited + 1, ![f].warm = Cold]
      /\ run' = IF run.name = f THEN [run EXCEPT !.lost = run.lost \cup {f}] ELSE run
      /\ exit' = Idle /\ UNCHANGED <<source, stacks, settings, creds, site>>
  BY DEF EditLambda
<1>2. LaunchTypeOK /\ CommandsTypeOK BY DEF LaunchInv
<1>3. /\ lambdas' \in [FunctionNames -> [own : Variables, warm : [settings : Nat, creds : Nat], edited : Nat]]
      /\ \A g \in FunctionNames \ {f} : lambdas'[g] = lambdas[g]
      /\ lambdas'[f].edited = lambdas[f].edited + 1 /\ lambdas'[f].warm = Cold
      /\ lambdas'[f].own = [lambdas[f].own EXCEPT !.edits = lambdas[f].own.edits + 1]
  BY <1>1, <1>2 DEF LaunchTypeOK, Cold, Variables
<1>4. LaunchTypeOK' /\ OthersAbsent' BY <1>1, <1>2, <1>3 DEF LaunchInv, LaunchTypeOK, OthersAbsent
<1>5. lambdas[f].own = Deployed(f) => lambdas'[f].own = Deployed(f)'
  <2> SUFFICES ASSUME lambdas[f].own = Deployed(f) PROVE lambdas'[f].own = Deployed(f)'
    OBVIOUS
  <2>1. lambdas[f].own = [version |-> stacks[HomeOf[f]].version, edits |-> lambdas[f].edited]
    BY DEF Deployed, Own
  <2>2. lambdas'[f].own = [version |-> stacks[HomeOf[f]].version, edits |-> lambdas[f].edited + 1]
    BY <1>3, <2>1
  <2> QED BY <1>1, <1>3, <2>2 DEF Deployed, Own
<1>6. /\ run' \in Commanded /\ run'.cmd = run.cmd /\ run'.plan = run.plan /\ run'.name = run.name
      /\ run'.todo = run.todo /\ run'.env = run.env /\ run'.code = run.code
      /\ run'.version = run.version /\ run'.skipped = run.skipped /\ run'.failed = run.failed
      /\ run'.astray = run.astray /\ run.lost \subseteq run'.lost
      /\ run.name = f => f \in run'.lost
  BY <1>1, <1>2 DEF CommandsTypeOK, Commanded
<1>7. ASSUME run.cmd \in Long PROVE Achieved(run, Head(run.plan))'
  <2> PICK ph : ph = Head(run.plan) OBVIOUS
  <2> PICK r : r = run' OBVIOUS
  <2>1. Achieved(run, ph) BY <1>7 DEF LaunchInv
  <2>2. StacksKept(run, ph) => StacksKept(r, ph)' BY <1>1, <1>6 DEF StacksKept
  <2>3. ASSUME OwnKept(run) PROVE OwnKept(r)'
    <3> SUFFICES ASSUME NEW g \in FunctionNames \ (r.lost \cup r.astray)
                 PROVE  lambdas'[g].own = Deployed(g)' /\ (r.name = g => r.env = lambdas'[g].own)
      BY DEF OwnKept
    <3>1. lambdas[g].own = Deployed(g) /\ (run.name = g => run.env = lambdas[g].own)
      BY <1>6, <2>3 DEF OwnKept
    <3>2. CASE g = f BY <1>5, <1>6, <3>1, <3>2
    <3>3. CASE g # f BY <1>1, <1>3, <1>6, <3>1, <3>3 DEF Deployed
    <3> QED BY <3>2, <3>3
  <2>4. ASSUME FreshKept(run, ph) PROVE FreshKept(r, ph)'
    <3>1. ASSUME NEW g \in FunctionNames
          PROVE  /\ SettingsRead(g) => SettingsRead(g)'
                 /\ CredsRead(g) => CredsRead(g)'
                 /\ Alive(g)' = Alive(g) /\ (Waits(run, g) => Waits(r, g))
      BY <1>1, <1>3, <1>6 DEF SettingsRead, CredsRead, Alive, Waits
    <3> QED BY <1>6, <2>4, <3>1 DEF FreshKept
  <2>5. Achieved(r, ph)' BY <1>1, <1>6, <2>1, <2>2, <2>3, <2>4 DEF Achieved
  <2> QED BY <1>6, <2>5
<1>8. ExitZeroIsInForce' BY <1>1 DEF ExitZeroIsInForce, Idle
<1>9. PlanFits(run)' /\ (run' # Idle => run'.plan # <<>>)
  <2>1. PlanFits(run) /\ (run # Idle => run.plan # <<>>) BY DEF LaunchInv
  <2>2. CASE run = Idle BY <1>1, <2>1, <2>2, IdleIs, LaunchAssumption
  <2>3. CASE run # Idle BY <1>6, <2>1, <2>3 DEF PlanFits
  <2> QED BY <2>2, <2>3
<1> QED BY <1>1, <1>4, <1>6, <1>7, <1>8, <1>9, IdleIs DEF LaunchInv, CommandsTypeOK

(* A phase other than a refresh is over and nothing it kept has moved. *)
LEMMA MovesOn ==
  ASSUME LaunchInv, NEW ph \in {"site", "sap", "kb"}, Phase(ph), NextPhase(run),
         UNCHANGED <<source, stacks, settings, creds, lambdas>>, LaunchTypeOK',
         site' = site \/ (ph = "site" /\ site' = source),
         ph = "site" => site' = source
  PROVE  LaunchInv'
<1>1. run \in Commanded /\ run.plan # <<>> /\ exit = Idle /\ PlanFits(run)
  BY InPhase DEF LaunchInv
<1>2. OthersAbsent' BY DEF LaunchInv, OthersAbsent
<1>3. PICK r : r = run OBVIOUS
<1>4. ASSUME r.cmd \in Long PROVE Achieved(r, Coming(r.plan))'
  <2>1. Achieved(r, ph) /\ Coming(r.plan) \in Follows[ph] BY <1>3, <1>4, InPhase
  <2>2. PICK c : c = Coming(r.plan) OBVIOUS
  <2>3. c \in {"sap", "kb", "done"}
    <3>1. Follows["site"] = {"sap", "done"} /\ Follows["sap"] = {"kb"} /\ Follows["kb"] = {"done"}
      BY DEF Follows
    <3> QED BY <2>1, <2>2, <3>1
  <2>4. StacksKept(r, ph) /\ OwnKept(r) /\ FreshKept(r, ph) /\ r.name = ""
        /\ (ph # "site" => site >= r.version)
    BY <2>1 DEF Achieved, Confirmed, Refreshing
  <2>5. StacksKept(r, c)' BY <2>3, <2>4 DEF StacksKept
  <2>6. OwnKept(r)' BY <2>4 DEF OwnKept, Deployed
  <2>7. FreshKept(r, c)'
    BY <2>3, <2>4 DEF FreshKept, Alive, SettingsRead, CredsRead, Refreshing
  <2>8. site' >= r.version
    <3>1. CASE ph = "site"
      <4>1. r.version <= source BY <2>4 DEF StacksKept
      <4>2. r.version \in Nat /\ source \in Nat
        BY <1>1, <1>3 DEF LaunchInv, LaunchTypeOK, Commanded
      <4> QED BY <3>1, <4>1, <4>2
    <3>2. CASE ph # "site" BY <2>4, <3>2
    <3> QED BY <3>1, <3>2
  <2>9. Achieved(r, c)' BY <2>3, <2>4, <2>5, <2>6, <2>7, <2>8 DEF Achieved, Refreshing
  <2> QED BY <2>2, <2>9
<1>5. NextPhase(r) /\ r \in Commanded /\ PlanFits(r) /\ r.plan # <<>> BY <1>1, <1>3
<1> QED BY <1>1, <1>2, <1>4, <1>5, NextKeeps

LEMMA DeploySiteKeeps == ASSUME LaunchInv, NEW ok \in BOOLEAN, DeploySite(ok) PROVE LaunchInv'
<1>1. Phase("site") /\ UNCHANGED <<source, stacks, settings, creds, lambdas>> BY DEF DeploySite
<1>2. LaunchTypeOK' /\ OthersAbsent'
  BY <1>1 DEF DeploySite, LaunchInv, LaunchTypeOK, OthersAbsent
<1>3. CASE ok
  <2>1. NextPhase(run) /\ site' = source BY <1>3 DEF DeploySite
  <2> QED BY <1>1, <1>2, <2>1, MovesOn
<1>4. CASE ~ok
  <2>1. Exit(run, 1) BY <1>4 DEF DeploySite
  <2>2. run \in Commanded BY DEF LaunchInv, CommandsTypeOK
  <2> QED BY <1>2, <2>1, <2>2, ExitKeeps
<1> QED BY <1>3, <1>4

LEMMA PublishDocsKeeps ==
  ASSUME LaunchInv, NEW delete \in BOOLEAN, NEW ok \in BOOLEAN, NEW raised \in BOOLEAN,
         PublishDocs(delete, ok, raised)
  PROVE  LaunchInv'
<1>1. Phase("kb") /\ UNCHANGED <<source, stacks, settings, creds, lambdas, site>> BY DEF PublishDocs
<1>2. LaunchTypeOK' /\ OthersAbsent' BY <1>1 DEF LaunchInv, LaunchTypeOK, OthersAbsent
<1>3. CASE NextPhase(run) BY <1>1, <1>2, <1>3, MovesOn
<1>4. CASE Exit(run, 2)
  <2>1. run \in Commanded BY DEF LaunchInv, CommandsTypeOK
  <2> QED BY <1>2, <1>4, <2>1, ExitKeeps
<1> QED BY <1>3, <1>4 DEF PublishDocs

LEMMA SapPlans ==
  /\ \A p \in LongPlans : Head(p) = "sap" => p = <<"sap", "kb">>
  /\ <<"readers">> \o <<"kb">> = <<"readers", "kb">>
  /\ <<"readers">> \o <<>> = <<"readers">>
<1>1. ASSUME NEW p \in LongPlans, Head(p) = "sap" PROVE p = <<"sap", "kb">>
  BY <1>1 DEF LongPlans
<1>2. <<"readers">> \o <<"kb">> = <<"readers", "kb">>
  <2> DEFINE p == <<"readers">>
             q == <<"kb">>
             pq == p \o q
  <2>1. p \in Seq(Phases) /\ Len(p) = 1 /\ p[1] = "readers" BY DEF Phases
  <2>2. q \in Seq(Phases) /\ Len(q) = 1 /\ q[1] = "kb" BY DEF Phases
  <2> HIDE DEF p, q
  <2>3. /\ pq \in Seq(Phases) /\ Len(pq) = Len(p) + Len(q)
        /\ \A n \in 1..(Len(p) + Len(q)) : pq[n] = IF n <= Len(p) THEN p[n] ELSE q[n - Len(p)]
    BY <2>1, <2>2, ConcatProperties
  <2>4. pq \in Seq(Phases) /\ Len(pq) = 2 /\ pq[1] = "readers" /\ pq[2] = "kb" BY <2>1, <2>2, <2>3
  <2> HIDE DEF pq
  <2>5. pq = <<"readers", "kb">> BY <2>4
  <2> QED BY <2>5 DEF p, q, pq
<1>3. <<"readers">> \o <<>> = <<"readers">>
  <2>1. <<"readers">> \in Seq(Phases) BY DEF Phases
  <2> QED BY <2>1, ConcatEmptySeq
<1> QED BY <1>1, <1>2, <1>3

LEMMA SyncSapKeeps ==
  ASSUME LaunchInv, NEW ok \in BOOLEAN, NEW offered \in BOOLEAN, NEW force \in BOOLEAN,
         NEW changed \in BOOLEAN, SyncSap(ok, offered, force, changed)
  PROVE  LaunchInv'
<1>1. Phase("sap") /\ UNCHANGED <<source, stacks, settings, lambdas, site>> BY DEF SyncSap
<1>2. LaunchTypeOK' /\ OthersAbsent'
  <2>1. creds' \in Nat BY DEF SyncSap, LaunchInv, LaunchTypeOK
  <2> QED BY <1>1, <2>1 DEF LaunchInv, LaunchTypeOK, OthersAbsent
<1>3. run \in Commanded /\ run.plan # <<>> /\ Head(run.plan) = "sap" /\ exit = Idle /\ PlanFits(run)
  BY <1>1, InPhase DEF LaunchInv
<1>4. PICK stored \in BOOLEAN : stored = (offered /\ ok /\ (creds = 0 \/ force)) OBVIOUS
<1>5. \/ ~(stored /\ changed) /\ NextPhase(run)
      \/ Exit(run, 1)
      \/ GoOn([run EXCEPT !.plan = <<"readers">> \o Tail(run.plan)])
  BY <1>4 DEF SyncSap
<1>6. CASE ~(stored /\ changed) /\ NextPhase(run)
  <2>1. creds' = creds BY <1>4, <1>6 DEF SyncSap
  <2> QED BY <1>1, <1>2, <1>6, <2>1, MovesOn
<1>7. CASE Exit(run, 1) BY <1>2, <1>3, <1>7, ExitKeeps
<1>8. CASE GoOn([run EXCEPT !.plan = <<"readers">> \o Tail(run.plan)])
  <2>1. PICK p : p = <<"readers">> \o Tail(run.plan) OBVIOUS
  <2>2. PICK r : r = [run EXCEPT !.plan = p] OBVIOUS
  <2>3. /\ p \in Seq(Phases) /\ p # <<>> /\ Head(p) = "readers"
        /\ p \in IF run.cmd \in Long THEN LongPlans ELSE ShortPlans
    <3>1. CASE run.cmd \in Long
      <4>1. run.plan = <<"sap", "kb">> BY <1>3, <3>1, SapPlans DEF PlanFits
      <4>2. Tail(run.plan) = <<"kb">> BY <4>1
      <4>3. p = <<"readers", "kb">> BY <2>1, <4>2, SapPlans
      <4> QED BY <3>1, <4>3 DEF LongPlans, Phases
    <3>2. CASE run.cmd \notin Long
      <4>1. Tail(run.plan) = <<>> BY <1>1, <3>2, InPhase
      <4>2. p = <<"readers">> BY <2>1, <4>1, SapPlans
      <4> QED BY <3>2, <4>2 DEF ShortPlans, Phases
    <3> QED BY <3>1, <3>2
  <2>4. /\ r \in Commanded /\ r.cmd = run.cmd /\ r.plan = p /\ r.name = run.name /\ r.todo = run.todo
        /\ r.env = run.env /\ r.code = run.code /\ r.version = run.version /\ r.skipped = run.skipped
        /\ r.failed = run.failed /\ r.lost = run.lost /\ r.astray = run.astray
    BY <1>3, <2>2, <2>3 DEF Commanded
  <2>5. GoOn(r) /\ PlanFits(r) /\ r.plan # <<>>
    <3>1. GoOn(r) BY <1>8, <2>1, <2>2
    <3>2. PlanFits(r) BY <2>3, <2>4 DEF PlanFits
    <3> QED BY <2>3, <2>4, <3>1, <3>2
  <2>6. ASSUME r.cmd \in Long PROVE Achieved(r, Head(r.plan))'
    <3>1. Achieved(run, "sap") BY <1>1, <2>4, <2>6, InPhase
    <3>2. StacksKept(run, "sap") /\ OwnKept(run) /\ FreshKept(run, "sap") /\ run.name = ""
          /\ site >= run.version
      BY <3>1 DEF Achieved, Confirmed, Refreshing
    <3>3. StacksKept(r, "readers")' BY <1>1, <2>4, <3>2 DEF StacksKept
    <3>4. OwnKept(r)' BY <1>1, <2>4, <3>2 DEF OwnKept, Deployed
    <3>5. FreshKept(r, "readers")'
      BY <1>1, <2>4, <3>2 DEF FreshKept, Alive, SettingsRead, Waits, Refreshing
    <3>6. Achieved(r, "readers")' BY <1>1, <2>4, <3>2, <3>3, <3>4, <3>5 DEF Achieved
    <3> QED BY <2>3, <2>4, <3>6
  <2> QED BY <1>2, <1>3, <2>4, <2>5, <2>6, GoOnKeeps
<1> QED BY <1>5, <1>6, <1>7, <1>8

LEMMA LaunchStep == LaunchInv /\ [LaunchNext]_lvars => LaunchInv'
<1> SUFFICES ASSUME LaunchInv, [LaunchNext]_lvars PROVE LaunchInv' OBVIOUS
<1>1. CASE UNCHANGED lvars
  BY <1>1 DEF lvars, LaunchInv, LaunchTypeOK, CommandsTypeOK, OthersAbsent, PlanFits, Achieved,
     StacksKept, OwnKept, FreshKept, Waits, SettingsRead, CredsRead, Deployed, Alive, ExitZeroIsInForce
<1>2. CASE LaunchNext
  BY <1>2, StartKeepsLaunch, EditSourceKeeps, StopKeeps, ConfirmKeeps, ResumeKeeps, DeployOneKeeps,
     StackSettlesKeeps, ListFunctionsKeeps, DeploySiteKeeps, ReadEnvKeeps, WriteEnvKeeps,
     InvokeKeeps, EditLambdaKeeps, SyncSapKeeps, PublishDocsKeeps
     DEF LaunchNext
<1> QED BY <1>1, <1>2

(* A command's row of phases fits the command, and what a deployment has achieved when it comes
   to a phase stands while it is in that phase, whoever else acts. *)
THEOREM LaunchInvariant == LaunchSpec => []LaunchInv
<1>1. LaunchInit => LaunchInv
  <2> SUFFICES ASSUME LaunchInit PROVE LaunchInv OBVIOUS
  <2>1. Own(0, 0) \in Variables /\ Cold \in [settings : Nat, creds : Nat]
    BY DEF Own, Variables, Cold
  <2>2. LaunchTypeOK BY <2>1 DEF LaunchInit, LaunchTypeOK, StackStatus
  <2>3. OthersAbsent BY DEF LaunchInit, OthersAbsent
  <2>4. run = Idle /\ exit = Idle BY DEF LaunchInit
  <2>5. ExitZeroIsInForce BY <2>4 DEF ExitZeroIsInForce, Idle
  <2> QED BY <2>2, <2>3, <2>4, <2>5, IdleIs DEF LaunchInv, CommandsTypeOK
<1> QED BY <1>1, LaunchStep, PTL DEF LaunchSpec

(* When a deployment exits with 0, everything it was to deploy is in force together. *)
THEOREM LaunchExitZero == LaunchSpec => []ExitZeroIsInForce
<1>1. LaunchInv => ExitZeroIsInForce BY DEF LaunchInv
<1> QED BY <1>1, LaunchInvariant, PTL
=============================================================================
