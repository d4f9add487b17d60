------------------------------ MODULE MCGateway ------------------------------
(* Small instances of the gateway. *)
EXTENDS Gateway

CONSTANTS r1, r2, r3, p1, plain, big

(* r2 and r3 ask for the same Big Data task. *)
MCTaskOf == [r \in Requests |-> IF r = r1 THEN plain ELSE big]
=============================================================================
