------------------------------- MODULE MCAlerts -------------------------------
(* Small instances of the alerts. *)
EXTENDS Alerts, TLC

CONSTANTS primary, backup, t1, t2, p1, p2

(* Servers, tokens and pushes are interchangeable; only for safety. *)
MCSymmetry ==
  Permutations(Servers) \cup Permutations(Tokens) \cup Permutations(Pushes)
=============================================================================
