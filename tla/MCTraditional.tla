---------------------------- MODULE MCTraditional ----------------------------
(* Small instances of the traditional mode. *)
EXTENDS Traditional
=============================================================================
