----------------------------- MODULE CodeBuild -----------------------------
(***************************************************************************)
(* Deploying through a temporary CodeBuild project: the script packs the     *)
(* source, makes a bucket, a permission boundary, an administrator's role    *)
(* under it and a project, watches the build, and whatever ends it, an exit  *)
(* handler takes the bucket, the role and the boundary away again. A call    *)
(* may fail before or after it took effect, run into its timeout, which the  *)
(* exit handler does not catch, and the process may be killed.               *)
(***************************************************************************)
EXTENDS Naturals

CONSTANT MaxTrouble   \* bound: calls that go wrong, and kills

ASSUME CodeBuildAssumption == MaxTrouble \in Nat

VARIABLES
  call,       \* the call the script makes next
  toDelete,   \* the names the exit handler will go by
  account,    \* what there is in the account, the bucket's source and the role's policy too
  theBuild,   \* the build
  amiss,      \* history: calls of the exit handler that went wrong, and "killed"
  trouble     \* what the bound leaves

bvars == <<call, toDelete, account, theBuild, amiss, trouble>>

(* The script's calls in their order, with what each brings about. *)
Makes ==
  [create_s3_bucket |-> "bucket", upload |-> "source", create_policy |-> "boundary",
   create_role |-> "role", attach_policy |-> "admin", create_project |-> "project"]

After(s) ==
  CASE s = "create_s3_bucket" -> "upload"
    [] s = "upload"           -> "create_policy"
    [] s = "create_policy"    -> "create_role"
    [] s = "create_role"      -> "attach_policy"
    [] s = "attach_policy"    -> "create_project"
    [] s = "create_project"   -> "start_build"

Trouble == trouble > 0 /\ trouble' = trouble - 1

ToCleanUp == call' = "rm"

-----------------------------------------------------------------------------
(* Making. *)

(* Credentials, region and stack name are looked at first, and nothing has been made. *)
Refused ==
  /\ call = "check"
  /\ call' = "gone"
  /\ UNCHANGED <<toDelete, account, theBuild, amiss, trouble>>

(* Mutant of create_source_zip: the bucket is to be recorded once there is one, and is not. *)
ZipRecordsRole ==
  /\ call = "check"
  /\ toDelete' = {"role"}
  /\ \/ call' = "create_s3_bucket" /\ UNCHANGED trouble
     \/ Trouble /\ ToCleanUp
  /\ UNCHANGED <<account, theBuild, amiss>>

(* Bucket and role are known by the names they are going to have. Zipping the files that
   git lists has no other effect, but it can fail. *)
create_source_zip ==
  /\ call = "check"
  /\ toDelete' = {"bucket", "role"}
  /\ \/ call' = "create_s3_bucket" /\ UNCHANGED trouble
     \/ Trouble /\ ToCleanUp
  /\ UNCHANGED <<account, theBuild, amiss>>

(* The boundary is known by its ARN, once the call has returned it. *)
Make(s) ==
  /\ call = s
  /\ \/ /\ account' = account \cup {Makes[s]}
        /\ toDelete' = IF s = "create_policy" THEN toDelete \cup {"boundary"} ELSE toDelete
        /\ call' = After(s)
        /\ UNCHANGED trouble
     \/ /\ Trouble
        /\ account' \in {account, account \cup {Makes[s]}}
        /\ ToCleanUp
        /\ UNCHANGED toDelete
  /\ UNCHANGED <<theBuild, amiss>>

start_codebuild ==
  /\ call = "start_build"
  /\ \/ theBuild' = "IN_PROGRESS" /\ call' = "stream" /\ UNCHANGED trouble
     \/ Trouble /\ theBuild' \in {theBuild, "IN_PROGRESS"} /\ ToCleanUp
  /\ UNCHANGED <<toDelete, account, amiss>>

(* The files were listed below scripts/, so that the source has no cdk directory for the
   build to enter: it comes to no other end than one of these. *)
BuildEnds ==
  /\ theBuild = "IN_PROGRESS"
  /\ theBuild' \in {"FAILED", "STOPPED"}
  /\ UNCHANGED <<call, toDelete, account, amiss, trouble>>

(* The script looks every five seconds; a look that fails ends it, not the build. *)
stream_build_logs ==
  /\ call = "stream"
  /\ \/ theBuild # "IN_PROGRESS" /\ UNCHANGED trouble
     \/ Trouble
  /\ ToCleanUp
  /\ UNCHANGED <<toDelete, account, theBuild, amiss>>

-----------------------------------------------------------------------------
(* Cleaning up. *)

(* A call that fails is logged and its group given up; a timeout ends the handler. *)
GroupAfter(group) ==
  CASE group = "bucket" -> "detach" [] group = "role" -> "delete_policy" [] group = "boundary" -> "gone"

(* A call whose object is not there, or in use, is an error like any other. *)
Undo(s, group, allowed, thing, onto) ==
  /\ call = s
  /\ \/ /\ group \in toDelete /\ allowed
        /\ account' = account \ {thing} /\ call' = onto
        /\ UNCHANGED <<amiss, trouble>>
     \/ /\ group \notin toDelete \/ ~allowed
        /\ call' = GroupAfter(group)
        /\ UNCHANGED <<account, amiss, trouble>>
     \/ /\ group \in toDelete /\ Trouble
        /\ amiss' = amiss \cup {group}
        /\ account' \in IF allowed THEN {account, account \ {thing}} ELSE {account}
        /\ call' \in {GroupAfter(group), "gone"}
  /\ UNCHANGED <<toDelete, theBuild>>

EmptyBucket  == Undo("rm", "bucket", "bucket" \in account, "source", "delete_bucket")
DeleteBucket == Undo("delete_bucket", "bucket", {"bucket", "source"} \cap account = {"bucket"},
                     "bucket", "detach")

DetachPolicy == Undo("detach", "role", "admin" \in account, "admin", "delete_role")
DeleteRole   == Undo("delete_role", "role", {"role", "admin"} \cap account = {"role"},
                     "role", "delete_policy")
DeletePolicy == Undo("delete_policy", "boundary", {"boundary", "role"} \cap account = {"boundary"},
                     "boundary", "gone")

(* The exit handler does not run for a process that is killed. *)
Killed ==
  /\ call \notin {"check", "gone"}
  /\ Trouble
  /\ call' = "gone"
  /\ amiss' = amiss \cup {"killed"}
  /\ UNCHANGED <<toDelete, account, theBuild>>

BuildInit ==
  /\ call = "check" /\ toDelete = {} /\ account = {} /\ theBuild = "none"
  /\ amiss = {} /\ trouble = MaxTrouble

BuildNext ==
  \/ Refused \/ create_source_zip
  \/ \E s \in DOMAIN Makes : Make(s)
  \/ start_codebuild \/ BuildEnds \/ stream_build_logs
  \/ EmptyBucket \/ DeleteBucket \/ DetachPolicy \/ DeleteRole \/ DeletePolicy
  \/ Killed

BuildSpec == BuildInit /\ [][BuildNext]_bvars

-----------------------------------------------------------------------------
(* Once the script is gone, however it went, the account keeps nothing of it for which
   there is no reason: a bucket or an administrator's role only where the exit handler was
   killed or a call of it went wrong, a bare role also where the policy had never been
   attached, and a boundary also where such a role holds it or its creation was lost. *)
LeftoversHaveReasons ==
  call = "gone" =>
    \/ "killed" \in amiss
    \/ /\ "bucket" \in account => "bucket" \in amiss
       /\ "admin" \in account => {"bucket", "role"} \cap amiss # {}
       /\ "role" \in account => {"bucket", "role"} \cap amiss # {} \/ theBuild = "none"
       /\ "boundary" \in account => amiss # {} \/ "role" \in account \/ "boundary" \notin toDelete
=============================================================================
