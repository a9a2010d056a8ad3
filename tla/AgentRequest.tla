---------------------------- MODULE AgentRequest ----------------------------
(***************************************************************************)
(* What one request to the agent runtime resolves to before the model runs: *)
(* whose token it carries, which case it is about, which SOP the run is      *)
(* given, what the prompt asks for and which way its tools are reached. A    *)
(* request is a record of what the code reads, from the request itself and   *)
(* from the stores it consults.                                             *)
(***************************************************************************)
EXTENDS Naturals

(* Claims of the caller's bearer: whom sub names, and what else the token says. *)
Bearer == [sub : {"absent", "client", "person"}, app : BOOLEAN, named : BOOLEAN]

(* A human subject: not the application's own id, no app marker, and a claim that
   names a user. Anything unfamiliar is a service caller. *)
IsUserBearer(b) == b.sub = "person" /\ ~b.app /\ b.named

(* Where a request can name its case: the payload's case_id, the pair of document and
   item, the free text. "bad" is present and does not normalise, "none" is absent. *)
Named(id) == id \notin {"none", "bad"}

(* The first place that names a case well enough, as the router looks for it. *)
RoutedCase(req) ==
  CASE Named(req.field) -> req.field
    [] Named(req.pair)  -> req.pair
    [] Named(req.text)  -> req.text
    [] OTHER            -> "none"

(* The case the trace is filed under: the payload's own field and nothing else. *)
FiledCase(req) == IF Named(req.field) THEN req.field ELSE "none"

(* process_type, from the payload or from the row of the routed case; a lookup that
   fails is indistinguishable from a row without one. *)
ProcessType(req) ==
  CASE req.type # "none" -> req.type
    [] req.type = "none" /\ RoutedCase(req) # "none" /\ req.row \notin {"none", "fails"}
         -> req.row
    [] OTHER -> "none"

(* resolve_skill on the type, or the discovery prompt when there is none. A SOP that
   is absent leaves the run on a placeholder, one that cannot be read stops it. *)
Skill(req) ==
  LET type == ProcessType(req) IN
  CASE type = "none"                               -> "discovery"
    [] type = "unmapped"                           -> "unresolvable"
    [] type = "mapped" /\ req.sop = "unreadable"   -> "sop_unreadable"
    [] type = "mapped" /\ req.sop = "absent"       -> "placeholder"
    [] OTHER                                       -> "sop"

(* The topology asks for a user's own token only under the token-exchange flow; an
   unreadable flow parameter means the gateway. *)
Topology(req) == IF req.flow = "obo" THEN "direct" ELSE "gateway"

(* What goes out as the tool server's Authorization. *)
OutboundToken(req) == IF Topology(req) = "direct" THEN "caller" ELSE "machine"

(* The two headers a request must bring: the workload's token, which is bound for the tools
   (a local run brings none, and is not modelled), and a bearer with a readable subject. *)
Bound(req)     == req.workload
HasBearer(req) == req.bearer.sub # "absent"

(* The checks that raise before the agent exists, whatever their order. *)
Admitted(req) ==
  /\ Bound(req) /\ HasBearer(req)
  /\ req.memory                         \* MEMORY_ID is configured
  /\ Topology(req) = "direct" => IsUserBearer(req.bearer)

(* _build_prompt: what the model is asked to do. *)
Prompt(req) ==
  CASE req.trigger = "ticket-action" /\ req.decision = "replied" /\ req.reply
                                                      -> "resume with the reply"
    [] req.trigger = "ticket-action" /\ req.decision = "replied" /\ ~req.reply
                                                      -> "resume, read the reply"
    [] req.trigger = "ticket-action" /\ req.decision # "replied"
                                                      -> "resume on the decision"
    [] req.trigger = "webhook" /\ req.field # "none"  -> "process the message's case"
    [] req.trigger = "webhook" /\ req.field = "none"  -> "find the message's case"
    [] req.trigger = "manual" /\ req.said             -> "answer the user"
    [] req.trigger \in {"manual", "poller"} /\ ~(req.trigger = "manual" /\ req.said)
         /\ req.field # "none"                        -> "process the case"
    [] req.trigger = "poller" /\ req.field = "none" /\ req.said -> "answer the user"
    [] OTHER                                          -> "nothing to do"

(* Everything before the first event: a run, or the reason there is none. The order is
   the code's: identity, then the skill, then the agent. *)
SetUp(req) ==
  LET skill == Skill(req) IN
  CASE ~Bound(req) \/ ~HasBearer(req) -> [ok |-> FALSE, why |-> "refused"]
    [] skill = "sop_unreadable" -> [ok |-> FALSE, why |-> "sop_unreadable"]
    [] skill = "unresolvable"   -> [ok |-> FALSE, why |-> "refused"]
    [] ~Admitted(req)           -> [ok |-> FALSE, why |-> "refused"]
    [] OTHER -> [ok |-> TRUE, skill |-> skill, prompt |-> Prompt(req),
                 token |-> OutboundToken(req)]
=============================================================================
