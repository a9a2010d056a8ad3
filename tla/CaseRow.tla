------------------------------- MODULE CaseRow -------------------------------
(***************************************************************************)
(* One row of the cases table and the writes the program makes to it.      *)
(* Every writer (poller, invoker, agent tools, agent runtime) changes a row *)
(* through exactly one of these operators, each the effect of one DynamoDB  *)
(* request: its ConditionExpression first, its SET and REMOVE clauses next. *)
(***************************************************************************)

(* CaseStatus of types/cases.schema.json. *)
CaseStatus == {"detected", "processing", "awaiting_human_input", "sap_updated",
               "complete", "manual_review_required", "error"}

(* The outcomes on which the invoker may acknowledge a finished run. *)
BusinessTerminal == {"awaiting_human_input", "complete",
                     "manual_review_required", "sap_updated"}

(* inquiry_sent_at, as far as anybody can tell two values apart: absent, the moment the
   row entered the wait it is in (or last was in, until it is left), a later moment of
   that wait, or a moment of a wait the row has since left. *)
Stamp == {"none", "current", "late", "earlier"}

(* Who made the row: the poller's put, which carries created_at, or the update of
   a case id that had none, which DynamoDB turns into an insert. *)
Origin == {"poller", "upsert"}

Row == [status : CaseStatus, inquiry : Stamp, origin : Origin]
NoRow == [status |-> "absent", inquiry |-> "none", origin |-> "upsert"]

Exists(row) == row.status # "absent"

-----------------------------------------------------------------------------
(* put_item with attribute_not_exists(case_id): the poller's new row. *)
PutNew(row) ==
  IF Exists(row) THEN row
  ELSE [status |-> "detected", inquiry |-> "none", origin |-> "poller"]

(* The invoker's and the runtime's own status write, attribute_exists(case_id):
   it sets the status and nothing else, so a stamp outlives the wait it was for. *)
SetStatus(row, s) ==
  IF ~Exists(row) THEN row
  ELSE [row EXCEPT !.status = s,
                   !.inquiry = IF @ = "none" THEN "none" ELSE "earlier"]

(* The moment of an update that leaves the row waiting. *)
Now(row) == IF row.status = "awaiting_human_input" THEN "late" ELSE "current"

(* Mutant of AgentUpdate: a plain SET restarts the wait at every update. *)
AgentUpdateRestamps(row, s) ==
  [status  |-> s,
   inquiry |-> IF s = "awaiting_human_input" THEN Now(row) ELSE "none",
   origin  |-> row.origin]

(* update_case_state with a status: no condition, so an unknown id becomes a row;
   if_not_exists keeps a stamp that is there, any other status removes it. *)
AgentUpdate(row, s) ==
  [status  |-> s,
   inquiry |-> CASE s # "awaiting_human_input" -> "none"
                 [] row.inquiry = "none"       -> Now(row)
                 [] OTHER                      -> row.inquiry,
   origin  |-> row.origin]
=============================================================================
