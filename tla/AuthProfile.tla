---------------------------- MODULE AuthProfile ----------------------------
(***************************************************************************)
(* Which identity provider and which way to SAP a deployment gets. A profile *)
(* is a value on each of four axes; a script validates it and leaves what    *)
(* differs from the default in one file of the checkout, for whoever deploys *)
(* next: CDK's synthesis, a Terraform plan or the console's deployment. A    *)
(* default leaves no file, and an absent block is a value too.               *)
(***************************************************************************)
EXTENDS Naturals, FiniteSets

Profile == [frontend : {"cognito", "cognito+federated", "direct-entra", "direct-okta"},
            inbound  : {"cognito", "entra", "okta"},
            modes    : (SUBSET {"autonomous", "live", "batch"}) \ {{}},
            outbound : {"basic", "m2m-sap", "m2m-oidc", "user-federation", "obo", "obo-okta"}]

CONSTANTS
  Selectable,   \* profiles that a configuration names, in the catalog or not
  Catalog,      \* those the catalog has, or its enabled custom entry spells
  Basic,        \* the default one
  Edited,       \* what an operator may change the configuration to
  Exported,     \* what the environment may say instead of the configuration
  MaxDeploys    \* bound: edits and commands

(* clients and login: whether the overrides of the inbound and of the frontend axis are
   complete; mcp: whether the SAP MCP adapter is on; runtime: the flow of the external
   stack the adapter points at. *)
Choice == {c \in [profile : Selectable, clients : BOOLEAN, login : BOOLEAN, mcp : BOOLEAN,
                  runtime : {"M2M", "OBO"}] : c.runtime = "OBO" => c.mcp}

ASSUME ProfileAssumption ==
  /\ Selectable \subseteq Profile /\ Catalog \subseteq Selectable /\ Basic \in Catalog
  /\ Basic.frontend = "cognito" /\ Basic.inbound = "cognito" /\ Basic.outbound = "basic"
  /\ Basic.modes = {"autonomous", "live"}
  /\ Edited \subseteq Choice
  /\ Exported \subseteq [profile : Selectable, clients : BOOLEAN]
  /\ MaxDeploys \in Nat

VARIABLES
  choice,     \* the configuration
  artifact,   \* .auth-profile-resolved.json
  standing,   \* what the last synthesis or plan that went through stands up, and for whom
  spa,        \* the issuer in the console's aws-exports.json, and for whom
  synthed,    \* history: the profile of the last synthesis, if nothing else ran since
  deploys     \* what the bound leaves

avars == <<choice, artifact, standing, spa, synthed, deploys>>

-----------------------------------------------------------------------------
(* The catalog's facts about the values. *)

LoginIssuer(p) ==
  CASE p.frontend = "direct-entra" -> "entra"
    [] p.frontend = "direct-okta"  -> "okta"
    [] OTHER                       -> "cognito"

Flow(p) ==
  CASE p.outbound = "basic"                    -> "BASIC"
    [] p.outbound \in {"m2m-sap", "m2m-oidc"}  -> "M2M"
    [] p.outbound = "user-federation"          -> "USER_FEDERATION"
    [] p.outbound \in {"obo", "obo-okta"}      -> "OBO"

Exchanger(p) == IF p.outbound = "obo" THEN "entra" ELSE "okta"
ActsForUser(p) == Flow(p) \in {"USER_FEDERATION", "OBO"}
Refreshes(p) == Flow(p) = "USER_FEDERATION"

(* An exchanged token has one issuer end to end; a user's identity needs a mode in which
   a user was there; acting for an absent one needs a token that refreshes. A flow the
   gateway cannot carry is let through because it goes past the gateway. *)
Validated(p) ==
  /\ Flow(p) = "OBO" => p.inbound = Exchanger(p) /\ LoginIssuer(p) = Exchanger(p)
  /\ ActsForUser(p) => p.modes \cap {"live", "batch"} # {}
  /\ "batch" \in p.modes /\ ActsForUser(p) => Refreshes(p)

-----------------------------------------------------------------------------
(* The file: a block per axis that is not at its default. *)

Blank == [inbound |-> "none", outbound |-> "none", frontend |-> "none", modes |-> {}]

InboundBlock(p) == IF p.inbound = "cognito" THEN "none" ELSE p.inbound

OutboundBlock(p, mcp) == IF Flow(p) = "BASIC" /\ ~mcp THEN "none" ELSE Flow(p)

LoginBlock(p) == IF LoginIssuer(p) = "cognito" THEN "none" ELSE LoginIssuer(p)

(* Mutant of ModeBlock: only a mode that builds something is worth a block. *)
ModeBlockOfBuilders(p) == IF "batch" \in p.modes THEN p.modes ELSE {}

(* Left out when the pipeline is declared and there is nothing to add to it. *)
ModeBlock(p) ==
  IF "batch" \notin p.modes /\ "autonomous" \in p.modes THEN {} ELSE p.modes

(* Unknown names, broken rules and overrides that are not there raise before the file is
   written. Only a deployment of the console asks for the frontend's. *)
Emits(c, withLogin) ==
  /\ c.profile \in Catalog
  /\ Validated(c.profile)
  /\ InboundBlock(c.profile) # "none" => c.clients
  /\ withLogin /\ LoginBlock(c.profile) # "none" => c.login

Emission(c, mcp, withLogin) ==
  [inbound  |-> InboundBlock(c.profile),
   outbound |-> OutboundBlock(c.profile, mcp),
   frontend |-> IF withLogin THEN LoginBlock(c.profile) ELSE "none",
   modes    |-> ModeBlock(c.profile)]

(* Nothing to say writes nothing: what was there stays. *)
RunEmit(file, c, mcp, withLogin) ==
  LET e == Emission(c, mcp, withLogin) IN IF e = Blank THEN file ELSE e

(* AUTH_PROFILE in the environment wins over the configuration, and its overrides with it. *)
Inputs(env) ==
  IF env = {} THEN choice
  ELSE LET e == CHOOSE x \in env : TRUE
       IN [choice EXCEPT !.profile = e.profile, !.clients = e.clients]

-----------------------------------------------------------------------------
(* What reads it. *)

Authorizer(file) == IF file.inbound = "none" THEN "cognito" ELSE file.inbound

Target(file, mcp) ==
  IF ~mcp \/ file.outbound = "none" THEN "none"
  ELSE CASE file.outbound \in {"BASIC", "M2M"} -> "service"
         [] file.outbound = "USER_FEDERATION"  -> "user"
         [] file.outbound = "OBO"              -> "direct"

(* No block is no statement: the pipeline is provisioned. *)
Provisions(file) == file.modes = {} \/ "autonomous" \in file.modes

(* The sweeper needs the pipeline; the flow must be the one of the external runtime. *)
SynthRefuses(file, c) ==
  \/ "batch" \in file.modes /\ ~Provisions(file)
  \/ c.mcp /\ (file.outbound = "OBO") # (c.runtime = "OBO")

Stands(file, mcp) ==
  [authorizer |-> Authorizer(file), autonomous |-> Provisions(file),
   batch |-> "batch" \in file.modes, target |-> Target(file, mcp)]

NotStanding == [by |-> "none"]

-----------------------------------------------------------------------------
(* The commands, one at a time in a checkout. *)

Spend == deploys > 0 /\ deploys' = deploys - 1

Reconfigure ==
  /\ Spend
  /\ choice' \in Edited
  /\ UNCHANGED <<artifact, standing, spa, synthed>>

(* Mutant of Cleared: the last deployment's file is there when the script runs. *)
NotCleared(file) == file

(* cdk/bin/app.ts removes the file before it runs the script. *)
Cleared(file) == Blank

Synth(env) ==
  LET c == Inputs(env)
      file == RunEmit(Cleared(artifact), c, c.mcp, TRUE)
  IN /\ Spend
     /\ IF ~Emits(c, TRUE)
        THEN artifact' = Cleared(artifact) /\ synthed' = {} /\ UNCHANGED standing
        ELSE /\ artifact' = file
             /\ synthed' = {c.profile}
             /\ IF SynthRefuses(file, c) THEN UNCHANGED standing
                ELSE standing' = [by |-> "cdk", stands |-> Stands(file, c.mcp), choice |-> c]
     /\ UNCHANGED <<choice, spa>>

(* Without Python only the default goes on, with no file at all. *)
SynthWithoutPython(env) ==
  LET c == Inputs(env)
      file == Cleared(artifact)
  IN /\ Spend
     /\ artifact' = file
     /\ synthed' = {}
     /\ IF c.profile # Basic THEN UNCHANGED standing
        ELSE standing' = [by |-> "fallback", stands |-> Stands(file, c.mcp), choice |-> c]
     /\ UNCHANGED <<choice, spa>>

(* Terraform builds an authorizer and the pipeline, and has no module for the rest. *)
CdkOnly(p) ==
  \/ Flow(p) # "BASIC"
  \/ "batch" \in p.modes
  \/ "autonomous" \notin p.modes
  \/ LoginIssuer(p) # "cognito"

(* The profile is Terraform's own variable. The file is written before the refusal, and
   what the plan uses is the script's answer, not the file. *)
TerraformPlan(p, clients) ==
  LET c == [choice EXCEPT !.profile = p, !.clients = clients] IN
  /\ Spend
  /\ synthed' = {}
  /\ artifact' = IF Emits(c, FALSE) THEN RunEmit(artifact, c, c.mcp, FALSE) ELSE artifact
  /\ standing' = IF Emits(c, FALSE) /\ ~CdkOnly(p)
                 THEN [by |-> "terraform", choice |-> c,
                       stands |-> [authorizer |-> Authorizer(Emission(c, c.mcp, FALSE)),
                                   autonomous |-> TRUE, batch |-> FALSE, target |-> "none"]]
                 ELSE standing
  /\ UNCHANGED <<choice, spa>>

(* The console's deployment runs the script without removing the file, and believes what
   it then finds there. *)
ExportSite(env) ==
  LET c == Inputs(env)
      file == RunEmit(artifact, c, FALSE, TRUE)
  IN /\ Spend
     /\ synthed' = {}
     /\ IF Emits(c, TRUE)
        THEN /\ artifact' = file
             /\ spa' = [issuer |-> IF file.frontend = "none" THEN "cognito" ELSE file.frontend,
                        profile |-> {c.profile}, inOrder |-> synthed = {c.profile}]
        ELSE UNCHANGED <<artifact, spa>>
     /\ UNCHANGED <<choice, standing>>

AuthInit ==
  /\ choice \in Choice
  /\ artifact = Blank
  /\ standing = NotStanding
  /\ spa = [issuer |-> "none", profile |-> {}, inOrder |-> FALSE]
  /\ synthed = {}
  /\ deploys = MaxDeploys

Environments == {{}} \cup {{e} : e \in Exported}

AuthNext ==
  \/ Reconfigure
  \/ \E env \in Environments : Synth(env) \/ SynthWithoutPython(env) \/ ExportSite(env)
  \/ \E e \in Exported : TerraformPlan(e.profile, e.clients)

AuthSpec == AuthInit /\ [][AuthNext]_avars

-----------------------------------------------------------------------------
(* What a profile says, read off its axes. The adapter is CDK's alone, and a Terraform
   deployment has none whatever its variable says. *)
Selected(p, mcp) ==
  [authorizer |-> p.inbound, autonomous |-> "autonomous" \in p.modes,
   batch |-> "batch" \in p.modes,
   target |-> IF ~mcp THEN "none"
              ELSE CASE Flow(p) = "USER_FEDERATION" -> "user"
                     [] Flow(p) = "OBO" -> "direct"
                     [] OTHER -> "service"]

(* Whatever file an earlier command left, and although most axes leave no block for most
   of their values, a synthesis or plan that goes through stands up what the profile it
   was given selects on every axis, or it does not go through. The one exception is a
   machine without Python whose configuration has the adapter on. *)
StacksFollowProfile ==
  standing.by # "none" =>
    LET c == standing.choice
        mcp == c.mcp /\ standing.by # "terraform"
    IN /\ c.profile \in Catalog
       /\ (standing.by = "fallback" /\ mcp) \/ standing.stands = Selected(c.profile, mcp)
       /\ standing.by = "terraform" => LoginIssuer(c.profile) = "cognito"

(* A console deployed right after a synthesis of the same profile, in the documented
   order, sends people to the issuer of that profile. *)
SiteFollowsProfile ==
  spa.inOrder => \A p \in spa.profile : spa.issuer = LoginIssuer(p)
=============================================================================
