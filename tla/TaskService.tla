----------------------------- MODULE TaskService -----------------------------
(***************************************************************************)
(* What gateway and servers together promise a client about the tasks the  *)
(* servers compute themselves, with no word about attempts, breakers,      *)
(* stores or which server: a success told to a client is remembered, and a *)
(* remembered task is never begun again.                                   *)
(***************************************************************************)
CONSTANTS
  Tasks,
  Works, WorkTask,      \* executions, and the task each is one of
  Asks, AskTask,        \* what clients ask, and the task each is about
  NoReply

VARIABLES
  begun,                \* the executions that were begun
  remembered,           \* the tasks known to be done
  told                  \* what was told to each who asked

vars == <<begun, remembered, told>>

Init ==
  /\ begun = {}
  /\ remembered = {}
  /\ told = [a \in Asks |-> NoReply]

Begin(w) ==
  /\ w \in Works
  /\ WorkTask[w] \notin remembered
  /\ begun' = begun \cup {w}
  /\ UNCHANGED <<remembered, told>>

Remember(t) ==
  /\ t \in Tasks
  /\ \E w \in begun : WorkTask[w] = t
  /\ remembered' = remembered \cup {t}
  /\ UNCHANGED <<begun, told>>

(* An answer is given once.  Other answers than success promise nothing. *)
Tell(a, answer) ==
  /\ told[a] = NoReply
  /\ answer = "success" => AskTask[a] \in remembered
  /\ told' = [told EXCEPT ![a] = answer]
  /\ UNCHANGED <<begun, remembered>>

(* Each step is read off what it adds. *)
Next ==
  \/ \E w \in begun' \ begun : Begin(w)
  \/ \E t \in remembered' \ remembered : Remember(t)
  \/ told' # told /\ \E a \in Asks : Tell(a, told'[a])

Spec == Init /\ [][Next]_vars
=============================================================================
