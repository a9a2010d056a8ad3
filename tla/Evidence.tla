------------------------------ MODULE Evidence ------------------------------
(***************************************************************************)
(* What the runtime records about one tool call, as far as the runs of a    *)
(* request tell it apart: the kind of the call, whether it was permitted, and *)
(* whether the SOP sentence quoted in it is one the run was shown. Text is    *)
(* abstracted to what the code measures of it: a span has a number of words,  *)
(* of sentence ends and of characters, and says one thing. The SAP fields of   *)
(* a call and what is made of them are in WriteReview.                        *)
(***************************************************************************)
EXTENDS Naturals, Sequences

QuoteMinWords      == 6
QuoteMaxSentences  == 2
QuoteMaxChars      == 320

LocalTools == {"calculator", "current_time"}
Kind ==
  [odata_read |-> "sap_read", odata_count |-> "sap_read",
   odata_update |-> "sap_write", odata_create |-> "sap_write",
   odata_function_import |-> "sap_write",
   search_sap_sops |-> "sop_lookup", search_sap_api_docs |-> "sop_lookup",
   load_sop |-> "sop_lookup", skills |-> "sop_lookup",
   update_case_state |-> "case_update",
   send_notification |-> "notification", demo_create_ticket |-> "notification"]

(* Anything the table does not list is a computation, without a source. *)
KindOf(tool) == IF tool \in DOMAIN Kind THEN Kind[tool] ELSE "computation"

-----------------------------------------------------------------------------
(* Citations. *)

Gradeable(span) ==
  /\ span.words >= QuoteMinWords
  /\ span.ends <= QuoteMaxSentences
  /\ span.chars <= QuoteMaxChars

(* The spans are tried longest first; the sort does not order those of one length. *)
Longest(S) == CHOOSE s \in S : \A r \in S : s.chars >= r.chars

(* The first span found in what the run was shown, or else the longest one that could
   have been found; nothing if no span is worth grading. *)
VerifyCitation(spans, baseline) ==
  LET graded == {s \in spans : Gradeable(s)}
      found  == {s \in graded : s.says \in baseline}
  IN CASE graded = {} -> [quote |-> "none", verified |-> FALSE]
       [] found # {}  -> [quote |-> Longest(found).says, verified |-> TRUE]
       [] OTHER       -> [quote |-> Longest(graded).says, verified |-> FALSE]

-----------------------------------------------------------------------------
(* Permission, and the record. *)

(* What can be stated about permission: a success was permitted, a failure that reads
   like a denial was rejected, any other failure says nothing. *)
Authz(tool, status, denial) ==
  CASE tool \in LocalTools                         -> "none"
    [] tool \notin LocalTools /\ status = "success" -> "permitted"
    [] tool \notin LocalTools /\ status = "error" /\ denial -> "rejected"
    [] OTHER                                       -> "unstated"

(* extract_evidence, as far as later readers tell two records apart. *)
Extract(tool, spans, status, denial, baseline) ==
  [kind     |-> KindOf(tool),
   citation |-> IF KindOf(tool) \in {"case_update", "notification"}
                THEN VerifyCitation(spans, baseline)
                ELSE [quote |-> "none", verified |-> FALSE],
   authz    |-> Authz(tool, status, denial)]
=============================================================================
