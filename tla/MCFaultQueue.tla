----------------------------- MODULE MCFaultQueue -----------------------------
(* Small instances of the fault queue. *)
EXTENDS FaultQueue

CONSTANTS e1, e2, e3
=============================================================================
