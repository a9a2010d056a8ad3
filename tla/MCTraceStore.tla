----------------------------- MODULE MCTraceStore -----------------------------
(* TraceStore at a cap of two traces, with more runs than fit under it. *)
EXTENDS TraceStore

CONSTANTS r1, r2, r3, r4
=============================================================================
