------------------------------ MODULE Provision ------------------------------
(***************************************************************************)
(* The custom resources of the backend stack: the packaged agent code, the   *)
(* OAuth provider the runtime signs in with, and the policy engine in front  *)
(* of the gateway. Each is a Lambda that makes a row of calls, any of which  *)
(* may fail; CloudFormation sends it Create, Update and Delete, turns a      *)
(* failure into a rollback (an Update with the old properties) and a changed *)
(* physical id into a Delete of the old one.                                 *)
(***************************************************************************)
EXTENDS Naturals, Sequences, SequencesExt, FiniteSets, Functions

CONSTANTS
  Templates,    \* [code, endpoints, url, client, policies, mode]
  Secrets,      \* what the client secret may hold: [client, value]; client "" if plain text
  Page,         \* policies list_policies returns at most
  MaxChanges,   \* bound: deployments and rotations
  MaxOutages    \* bound: calls that fail

ASSUME ProvisionAssumption ==
  /\ Templates # {} /\ \A t \in Templates : t.policies \in Seq(STRING) \ {<<>>}
  /\ Page \in Nat \ {0} /\ MaxChanges \in Nat /\ MaxOutages \in Nat

NoApi == 0       \* the physical id NOT_AVAILABLE
NoProvider == [client |-> "", secret |-> "", discovery |-> <<"", "">>]
Unguarded == [engine |-> NoApi, mode |-> ""]
Resources == {"package", "provider", "engine"}

VARIABLES
  phase,      \* what CloudFormation is doing
  template,   \* the template that stands, or is being created or deleted
  target,     \* the one an update moves to
  todo,       \* resources the operation has yet to handle
  touched,    \* those it has handled, or failed on
  id,         \* the engine's physical id
  former,     \* the id it had before the operation
  engines,    \* live policy engines: the policies of each, oldest first
  gateway,    \* the engine in front of the gateway and its mode
  vault,      \* the OAuth provider's configuration
  bucket,     \* the packaged code
  secret,     \* the client secret as it reads now
  sdk,        \* the runtime's SDK has the policy API
  granted,    \* the provider's Lambda may update
  spared,     \* history: the last update of the engine swallowed an error
  changes, outages

stackvars == <<phase, template, target, todo, touched>>
enginevars == <<id, former, engines, gateway, spared>>
cvars == <<stackvars, enginevars, vault, bucket, secret, sdk, granted, changes, outages>>

ProvisionInit ==
  /\ phase = "none" /\ todo = {} /\ touched = {}
  /\ template = CHOOSE t \in Templates : TRUE
  /\ target = template
  /\ id = NoApi /\ former = NoApi
  /\ engines = <<>> /\ gateway = Unguarded /\ vault = NoProvider /\ bucket = ""
  /\ secret = CHOOSE s \in Secrets : TRUE
  /\ sdk \in BOOLEAN /\ granted \in BOOLEAN /\ spared = FALSE
  /\ changes = MaxChanges /\ outages = MaxOutages

-----------------------------------------------------------------------------
(* CloudFormation. *)

Change == changes > 0 /\ changes' = changes - 1

Properties(r, t) ==
  CASE r = "package"  -> <<t.code>>
    [] r = "provider" -> <<t.endpoints, t.url, t.client>>
    [] r = "engine"   -> <<t.policies, t.mode>>

DeployStack(t) ==
  /\ phase = "none" /\ Change
  /\ phase' = "creating" /\ template' = t /\ target' = t
  /\ todo' = Resources /\ touched' = {}
  /\ UNCHANGED <<enginevars, vault, bucket, secret, sdk, granted, outages>>

UpdateStack(t) ==
  /\ phase = "settled" /\ Change /\ t # template
  /\ phase' = "updating" /\ target' = t
  /\ todo' = {r \in Resources : Properties(r, t) # Properties(r, template)} /\ touched' = {}
  /\ former' = id
  /\ UNCHANGED <<template, id, engines, gateway, spared, vault, bucket, secret, sdk, granted,
                 outages>>

DeleteStack ==
  /\ phase = "settled" /\ Change
  /\ phase' = "deleting" /\ todo' = Resources /\ touched' = {}
  /\ UNCHANGED <<template, target, enginevars, vault, bucket, secret, sdk, granted, outages>>

(* Nothing is left to do. The gateway and the bucket go with the stack. *)
Finish ==
  /\ todo = {}
  /\ \/ /\ phase = "creating" /\ phase' = "settled" /\ template' = template
     \/ /\ phase = "updating" /\ phase' = "settled" /\ template' = target
     \/ /\ phase = "reverting" /\ phase' = "settled" /\ template' = template
     \/ /\ phase = "deleting" /\ phase' = "none" /\ template' = template
  /\ gateway' = IF phase = "deleting" THEN Unguarded ELSE gateway
  /\ bucket' = IF phase = "deleting" THEN "" ELSE bucket
  /\ UNCHANGED <<target, todo, touched, id, former, engines, spared, vault, secret, sdk, granted,
                 changes, outages>>

(* A failure, of a resource here or of another of the stack: a creation deletes what it
   has made (not what failed, whose id is a marker), an update goes back, and a rollback
   or a deletion that fails is stuck. *)
FailsOn(r) ==
  /\ phase' = CASE phase = "creating" -> "deleting"
                [] phase = "updating" -> "reverting"
                [] OTHER              -> "stuck"
  /\ todo' = IF phase = "creating" THEN touched \ {r} ELSE (touched \cup {r}) \cap Resources
  /\ touched' = {}

OtherFails ==
  /\ phase \in {"creating", "updating"} /\ outages > 0 /\ outages' = outages - 1
  /\ FailsOn("elsewhere")
  /\ UNCHANGED <<template, target, enginevars, vault, bucket, secret, sdk, granted, changes>>

Rotate(s) ==
  /\ Change /\ secret' = s /\ s # secret
  /\ UNCHANGED <<stackvars, enginevars, vault, bucket, sdk, granted, outages>>

SdkGainsApi ==
  /\ ~sdk /\ Change /\ sdk' = TRUE
  /\ UNCHANGED <<stackvars, enginevars, vault, bucket, secret, granted, outages>>

(* The answer of resource r's Lambda to the request in hand. *)
Wants(r, phases) == r \in todo /\ phase \in phases
Wanted == IF phase = "updating" THEN target ELSE template
Reply(r, ok) ==
  /\ IF ok THEN phase' = phase /\ todo' = todo \ {r} /\ touched' = touched \cup {r}
           ELSE FailsOn(r)
  /\ UNCHANGED <<template, target>>
Outage(ok) == outages' = IF ok THEN outages ELSE outages - 1
MayFail(ok) == ok \/ outages > 0

-----------------------------------------------------------------------------
(* The packager: upload to the one key, then answer. *)

Package(uploaded, ok) ==
  /\ Wants("package", {"creating", "updating", "reverting"})
  /\ MayFail(ok) /\ Outage(ok) /\ (ok => uploaded)
  /\ bucket' = IF uploaded THEN Wanted.code ELSE bucket
  /\ Reply("package", ok)
  /\ UNCHANGED <<enginevars, vault, secret, sdk, granted, changes>>

(* Nothing to clean up: the package stays. *)
Unpackage ==
  /\ Wants("package", {"deleting"})
  /\ Reply("package", TRUE)
  /\ UNCHANGED <<enginevars, vault, bucket, secret, sdk, granted, changes, outages>>

-----------------------------------------------------------------------------
(* The OAuth provider. *)

(* Explicit endpoints, or else the discovery URL. *)
Discovery(t) == IF t.endpoints # "" THEN <<"endpoints", t.endpoints>> ELSE <<"url", t.url>>
ProviderConfig(t) ==
  [client    |-> IF t.client # "" THEN t.client ELSE secret.client,
   secret    |-> secret.value,
   discovery |-> Discovery(t)]

(* A name that is taken cannot be created; one without permission cannot be updated. *)
Provider(ok) ==
  /\ Wants("provider", {"creating", "updating", "reverting"})
  /\ LET allowed == IF phase = "creating" THEN vault = NoProvider ELSE granted
     IN /\ ok => allowed
        /\ allowed => MayFail(ok)
        /\ outages' = IF ok \/ ~allowed THEN outages ELSE outages - 1
  /\ vault' = IF ok THEN ProviderConfig(Wanted) ELSE vault
  /\ Reply("provider", ok)
  /\ UNCHANGED <<enginevars, bucket, secret, sdk, granted, changes>>

DeleteProvider(ok) ==
  /\ Wants("provider", {"deleting"})
  /\ MayFail(ok) /\ Outage(ok)
  /\ vault' = IF ok THEN NoProvider ELSE vault
  /\ Reply("provider", ok)
  /\ UNCHANGED <<enginevars, bucket, secret, sdk, granted, changes>>

-----------------------------------------------------------------------------
(* The policy engine. *)

FreshEngine == CHOOSE e \in 1..Cardinality(DOMAIN engines) + 1 : e \notin DOMAIN engines
WithEngine(e, policies) ==
  [f \in DOMAIN engines \cup {e} |-> IF f = e THEN policies ELSE engines[f]]
Guarding(e, t) == [engine |-> e, mode |-> t.mode]

(* on_create, of whose calls the first n succeed: the engine, each policy, the gateway. *)
CreateEngine(t, n) ==
  LET made == Len(t.policies) + 2 IN
  /\ n \in 0..made
  /\ engines' = IF n = 0 THEN engines
                ELSE WithEngine(FreshEngine, SubSeq(t.policies, 1, IF n = made THEN n - 2 ELSE n - 1))
  /\ gateway' = IF n = made THEN Guarding(FreshEngine, t) ELSE gateway
  /\ id' = IF n = made THEN FreshEngine ELSE id
  /\ spared' = FALSE

(* Mutant of RefreshEngine: the gateway is not told. *)
RefreshWithoutGateway(t, d, n) ==
  LET old == engines[id] IN
  /\ n \in 0..Len(t.policies) + 1 /\ d \in 0..Len(old)
  /\ engines' = [engines EXCEPT ![id] = SubSeq(old, d + 1, Len(old))
                   \o SubSeq(t.policies, 1, IF n > Len(t.policies) THEN n - 1 ELSE n)]
  /\ spared' = (d < Len(old))
  /\ UNCHANGED <<id, gateway>>

(* on_update: the policies of the first page go, an error after d of them is swallowed;
   then n calls succeed, each policy and the gateway. *)
RefreshEngine(t, d, n) ==
  LET old == engines[id] IN
  /\ n \in 0..Len(t.policies) + 1 /\ d \in 0..Len(old)
  /\ engines' = [engines EXCEPT ![id] = SubSeq(old, d + 1, Len(old))
                   \o SubSeq(t.policies, 1, IF n > Len(t.policies) THEN n - 1 ELSE n)]
  /\ gateway' = IF n = Len(t.policies) + 1 THEN Guarding(id, t) ELSE gateway
  /\ spared' = (d < Len(old))
  /\ id' = id

Listing == IF Len(engines[id]) < Page THEN Len(engines[id]) ELSE Page

(* Without the API the resource is a name and nothing else. *)
EngineWithoutApi ==
  /\ Wants("engine", {"creating", "updating", "reverting"}) /\ ~sdk
  /\ id' = IF phase = "creating" THEN NoApi ELSE id
  /\ Reply("engine", TRUE)
  /\ UNCHANGED <<former, engines, gateway, spared, vault, bucket, secret, sdk, granted, changes,
                 outages>>

(* Create, or an Update of the id NOT_AVAILABLE, which replaces it. *)
EngineCreate(n) ==
  /\ Wants("engine", {"creating", "updating", "reverting"}) /\ sdk
  /\ phase = "creating" \/ id = NoApi
  /\ LET ok == n = Len(Wanted.policies) + 2
     IN MayFail(ok) /\ Outage(ok) /\ Reply("engine", ok)
  /\ CreateEngine(Wanted, n)
  /\ UNCHANGED <<former, vault, bucket, secret, sdk, granted, changes>>

EngineUpdate(d, n) ==
  /\ Wants("engine", {"updating", "reverting"}) /\ sdk /\ id # NoApi /\ id = former
  /\ LET ok == n = Len(Wanted.policies) + 1
         failed == (IF ok THEN 0 ELSE 1) + (IF d < Listing THEN 1 ELSE 0)
     IN /\ d <= Listing /\ failed <= outages /\ outages' = outages - failed
        /\ Reply("engine", ok)
  /\ RefreshEngine(Wanted, d, n)
  /\ UNCHANGED <<former, vault, bucket, secret, sdk, granted, changes>>

(* on_delete of an engine: take it from the gateway, then delete policies and engine; what
   fails is swallowed. The deletion of an engine that still has policies is refused. *)
EngineDelete(apart, d) ==
  LET whole == d = Len(engines[id])
      failed == (IF apart THEN 0 ELSE 1) + (IF d < Listing THEN 1 ELSE 0)
  IN /\ id # NoApi /\ d \in 0..Listing
     /\ failed <= outages /\ outages' = outages - failed
     /\ \/ Wants("engine", {"deleting"}) /\ id' = NoApi
        \/ Wants("engine", {"reverting"}) /\ id # former /\ id' = former  \* replaced, and back
     /\ gateway' = IF apart THEN Unguarded ELSE gateway
     /\ engines' = IF whole THEN Restrict(engines, DOMAIN engines \ {id})
                   ELSE [engines EXCEPT ![id] = SubSeq(@, d + 1, Len(@))]
     /\ Reply("engine", TRUE)
     /\ UNCHANGED <<former, spared, vault, bucket, secret, sdk, granted, changes>>

(* on_delete of NOT_AVAILABLE answers with another id, which a deletion may not. *)
EngineDeleteNone ==
  /\ Wants("engine", {"deleting"}) /\ id = NoApi
  /\ Reply("engine", FALSE)
  /\ UNCHANGED <<enginevars, vault, bucket, secret, sdk, granted, changes, outages>>

ProvisionNext ==
  \/ \E t \in Templates : DeployStack(t) \/ UpdateStack(t)
  \/ DeleteStack \/ Finish \/ OtherFails \/ SdkGainsApi
  \/ \E s \in Secrets : Rotate(s)
  \/ \E uploaded, ok \in BOOLEAN : Package(uploaded, ok)
  \/ \E ok \in BOOLEAN : Provider(ok) \/ DeleteProvider(ok)
  \/ Unpackage
  \/ EngineWithoutApi \/ EngineDeleteNone
  \/ \E n \in 0..Len(Wanted.policies) + 2 : EngineCreate(n)
  \/ \E d \in 0..Page, n \in 0..Len(Wanted.policies) + 1 : EngineUpdate(d, n)
  \/ \E apart \in BOOLEAN, d \in 0..Page : EngineDelete(apart, d)

ProvisionSpec == ProvisionInit /\ [][ProvisionNext]_cvars

-----------------------------------------------------------------------------
(* A stack at rest is in force, whatever failed and was rolled back on the way: the code
   in the bucket and the provider are the template's; an engine that exists stands before
   the gateway in the template's mode with all of the template's policies, and with no
   other unless an error was swallowed or the policies did not fit on a page. *)
SettledIsInForce ==
  phase = "settled" =>
    /\ bucket = template.code
    /\ vault.discovery = Discovery(template)
    /\ id # NoApi =>
         /\ id \in DOMAIN engines
         /\ gateway = Guarding(id, template)
         /\ IF spared THEN ToSet(template.policies) \subseteq ToSet(engines[id])
                      ELSE engines[id] = template.policies
=============================================================================
