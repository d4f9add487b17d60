---------------------------- MODULE MCTaskServers ----------------------------
(* Small instances of the two task servers. *)
EXTENDS TaskServers, TaskIds

CONSTANTS c1, c2, c3, c4, primary, backup

(* c1 and c2 are two deliveries of one request, c3 asks for a task of      *)
(* another type that was given the same number, c4 is a Big Data task.     *)
MCTypeOf ==
  [c \in Calls |-> CASE c = c3 -> "Model_Inference"
                     [] c = c4 -> TASK_CRIMINAL_CLASSIFICATION
                     [] OTHER  -> "Model_Training"]

MCTaskOf  == [c \in Calls |-> TaskId(MCTypeOf[c], 7)]
MCTasks   == {TaskId(type, 7) : type \in ML_TASK_TYPES}
MCBigType == TASK_CRIMINAL_CLASSIFICATION
=============================================================================
