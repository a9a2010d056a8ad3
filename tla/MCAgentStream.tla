--------------------------- MODULE MCAgentStream ---------------------------
(* Values for TLC: a poller's case, a chat that names one in its text only, and
   requests that are refused in each of the ways there are. *)
EXTENDS AgentStream

UserBearer    == [sub |-> "person", app |-> FALSE, named |-> TRUE]
MachineBearer == [sub |-> "client", app |-> FALSE, named |-> FALSE]
NoBearer      == [sub |-> "absent", app |-> FALSE, named |-> FALSE]

Queued == [workload |-> TRUE, bearer |-> MachineBearer, field |-> "case", pair |-> "none",
           text |-> "none", type |-> "none", row |-> "mapped", sop |-> "loaded",
           flow |-> "m2m", memory |-> TRUE, trigger |-> "poller", decision |-> "none",
           reply |-> FALSE, said |-> FALSE]
Chat == [Queued EXCEPT !.bearer = UserBearer, !.field = "none", !.text = "case",
                       !.row = "fails", !.flow = "obo", !.trigger = "manual", !.said = TRUE]

MCRequests ==
  {Queued, Chat,
   [Queued EXCEPT !.workload = FALSE], [Queued EXCEPT !.bearer = NoBearer],
   [Queued EXCEPT !.sop = "unreadable"], [Chat EXCEPT !.type = "unmapped"],
   [Queued EXCEPT !.memory = FALSE], [Queued EXCEPT !.flow = "obo"]}

Span(w, c, s) == [words |-> w, ends |-> 1, chars |-> c, says |-> s]
MCWork ==
  {[tool |-> "load_sop", shows |-> {"rule"}, spans |-> {}],
   [tool |-> "odata_read", shows |-> {"data"}, spans |-> {}],
   [tool |-> "send_notification", shows |-> {},
    spans |-> {Span(9, 90, "data"), Span(8, 70, "rule"), Span(7, 50, "given"),
               Span(2, 10, "data")}]}
MCInjected == {"given"}
=============================================================================
