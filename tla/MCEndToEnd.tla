------------------------------ MODULE MCEndToEnd ------------------------------
(* Small instances of the gateway with the two servers. *)
EXTENDS EndToEnd, TaskIds, TLC

CONSTANTS f1, f2, big

MCTypeOf(f) == IF f = big THEN TASK_CRIMINAL_CLASSIFICATION ELSE "Model_Training"
MCTaskOf  == [f \in Forwards |-> <<MCTypeOf(f), TaskId(MCTypeOf(f), 7)>>]
Retransmissions == Permutations({f1, f2})
MCBigType == TASK_CRIMINAL_CLASSIFICATION
=============================================================================
