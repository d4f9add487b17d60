------------------------------- MODULE TaskIds -------------------------------
(***************************************************************************)
(* The identifiers under which clients submit tasks: ML-<prefix>-<number>, *)
(* the prefix being the first four letters of the task type in upper case. *)
(* The number is drawn at random from 1 .. REQUEST_TIMES.                  *)
(***************************************************************************)

TASK_CRIMINAL_CLASSIFICATION == "Big_Data_Task"

ML_TASK_TYPES_TRADITIONAL ==
  {"Data_Preprocessing", "Feature_Extraction", "Model_Training",
   "Model_Inference", "Model_Deployment"}

ML_TASK_TYPES == ML_TASK_TYPES_TRADITIONAL \cup {TASK_CRIMINAL_CLASSIFICATION}

Prefix ==
  [type \in ML_TASK_TYPES |->
     CASE type = "Data_Preprocessing" -> "DATA"
       [] type = "Feature_Extraction" -> "FEAT"
       [] type = TASK_CRIMINAL_CLASSIFICATION -> "BIG_"
       [] OTHER -> "MODE"]

TaskId(type, n) == <<Prefix[type], n>>
=============================================================================
