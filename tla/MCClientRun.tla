----------------------------- MODULE MCClientRun -----------------------------
(* Small instances of a run of the client. *)
EXTENDS ClientRun
=============================================================================
