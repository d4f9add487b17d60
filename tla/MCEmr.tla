--------------------------------- MODULE MCEmr ---------------------------------
(* Small instances of the EMR dispatch. *)
EXTENDS Emr

CONSTANTS j1, j2, k1, k2
=============================================================================
