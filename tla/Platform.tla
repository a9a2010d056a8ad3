------------------------------ MODULE Platform ------------------------------
(***************************************************************************)
(* The parts of the platform that share no state with the case pipeline or  *)
(* with one another: what one of them does is UNCHANGED for all the rest, so *)
(* a behaviour is the behaviour of one part, and the states of the parts add *)
(* up. Which part it is, `part' says; nothing of the program does.           *)
(***************************************************************************)
EXTENDS Guidance, Precedents, VendorRisk, Intake, SapFeed, TraceStore, WriteReview,
        Provision, Launch, ChatClient, SseReader, AuthProfile, SiteDeploy, CodeBuild,
        CaseFigures

CONSTANT Parts   \* the parts to look at

PartNames == {"guidance", "precedents", "risk", "intake", "feed", "traces", "review",
              "provision", "launch", "chat", "sse", "profile", "site", "codebuild", "figures"}
ASSUME PlatformAssumption == Parts \subseteq PartNames

VARIABLE part

servervars == <<gvars, pvars, vvars, ivars, fvars, tvars>>
toolvars   == <<rvars, cvars, lvars, chatvars, svars>>
deployvars == <<avars, wvars, bvars>>
allvars    == <<part, servervars, toolvars, deployvars, zvars>>

FirstChoice == CHOOSE c \in Choice : c.profile = Basic

(* A part that is not looked at has one initial state. *)
PlatformInit ==
  /\ part \in Parts
  /\ GuidanceInit
  /\ part # "guidance" => corpus = CHOOSE c \in Corpora : TRUE
  /\ PrecedentsInit
  /\ part # "precedents" => knowledge
  /\ RiskInit /\ IntakeInit /\ FeedInit /\ TraceInit
  /\ part # "intake" => setting = CHOOSE s \in WebhookSettings : TRUE
  /\ ReviewInit
  /\ part # "review" => \A d \in DOMAIN sap : sap[d].has = [f \in Columns |-> CHOOSE v \in Figures : TRUE]
  /\ ProvisionInit
  /\ part # "provision" => sdk /\ granted
  /\ LaunchInit /\ ChatInit
  /\ SseInit
  /\ part # "sse" => stream = <<>>
  /\ AuthInit
  /\ part # "profile" => choice = FirstChoice
  /\ SiteInit
  /\ part # "site" => inCloud = {}
  /\ BuildInit /\ FiguresInit

PlatformNext ==
  \/ part = "guidance"   /\ GuidanceNext   /\ UNCHANGED <<part, zvars, pvars, vvars, ivars, fvars, tvars, toolvars, deployvars>>
  \/ part = "precedents" /\ PrecedentsNext /\ UNCHANGED <<part, zvars, gvars, vvars, ivars, fvars, tvars, toolvars, deployvars>>
  \/ part = "risk"       /\ RiskNext       /\ UNCHANGED <<part, zvars, gvars, pvars, ivars, fvars, tvars, toolvars, deployvars>>
  \/ part = "intake"     /\ IntakeNext     /\ UNCHANGED <<part, zvars, gvars, pvars, vvars, fvars, tvars, toolvars, deployvars>>
  \/ part = "feed"       /\ FeedNext       /\ UNCHANGED <<part, zvars, gvars, pvars, vvars, ivars, tvars, toolvars, deployvars>>
  \/ part = "traces"     /\ TraceNext      /\ UNCHANGED <<part, zvars, gvars, pvars, vvars, ivars, fvars, toolvars, deployvars>>
  \/ part = "review"     /\ ReviewNext     /\ UNCHANGED <<part, zvars, cvars, lvars, chatvars, svars, servervars, deployvars>>
  \/ part = "provision"  /\ ProvisionNext  /\ UNCHANGED <<part, zvars, rvars, lvars, chatvars, svars, servervars, deployvars>>
  \/ part = "launch"     /\ LaunchNext     /\ UNCHANGED <<part, zvars, rvars, cvars, chatvars, svars, servervars, deployvars>>
  \/ part = "chat"       /\ ChatNext       /\ UNCHANGED <<part, zvars, rvars, cvars, lvars, svars, servervars, deployvars>>
  \/ part = "sse"        /\ SseNext        /\ UNCHANGED <<part, zvars, rvars, cvars, lvars, chatvars, servervars, deployvars>>
  \/ part = "profile"    /\ AuthNext       /\ UNCHANGED <<part, zvars, wvars, bvars, toolvars, servervars>>
  \/ part = "site"       /\ SiteNext       /\ UNCHANGED <<part, zvars, avars, bvars, toolvars, servervars>>
  \/ part = "codebuild"  /\ BuildNext      /\ UNCHANGED <<part, zvars, avars, wvars, toolvars, servervars>>
  \/ part = "figures"    /\ FiguresNext    /\ UNCHANGED <<part, servervars, toolvars, deployvars>>

PlatformSpec == PlatformInit /\ [][PlatformNext]_allvars
=============================================================================
