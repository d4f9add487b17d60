------------------------------- MODULE EndToEnd -------------------------------
(***************************************************************************)
(* The gateway and the two task servers joined: Gateway and TaskServers    *)
(* with the replies of the one being the answers of the other.             *)
(*                                                                         *)
(* A forward is a transmission of a request that reaches the gateway: the  *)
(* first one of the client's pool, an automatic retry after a timeout, or  *)
(* one of the worker.  They come in any number and order, and overlap, as  *)
(* the client gives up after REQUEST_TIMEOUT while the gateway goes on.    *)
(* Each attempt of a forward is one call <<forward, n>>; the gateway may   *)
(* give up on it at any time, before it arrives, while it is worked on, or *)
(* by an injected fault although it was answered.                          *)
(*                                                                         *)
(* The span is that of an experiment: servers find Redis when they start,  *)
(* and no key reaches its expiry.  Links to Redis break and return.        *)
(***************************************************************************)
EXTENDS Integers, Sequences, FiniteSets

CONSTANTS
  Forwards,
  TaskOf,               \* of each forward: <<task_type, task_id>>
  Types, BigType,
  WINDOW_SIZE, ATTEMPT_TIMES, FAIL_NUM, FAIL_DEN,
  MaxForwards,          \* bound: how many of the forwards come at all
  None

(* TaskOf is a function on the forwards.  No Big Data task has the task_id *)
(* of another type.  None is an ordinary value of no kind.                 *)
ASSUME EndToEndAssumption ==
  /\ TaskOf = [f \in Forwards |-> TaskOf[f]]
  /\ \A f \in Forwards : TaskOf[f][1] \in Types
  /\ \A f, g \in Forwards :
       TaskOf[f][2] = TaskOf[g][2] /\ TaskOf[f][1] = BigType => TaskOf[g][1] = BigType
  /\ WINDOW_SIZE \in Nat \ {0}
  /\ ATTEMPT_TIMES \in Nat \ {0}
  /\ FAIL_NUM \in Nat /\ FAIL_DEN \in Nat \ {0}
  /\ None \notin Forwards \X (1 .. ATTEMPT_TIMES)
  /\ None \notin {"primary", "backup"}

VARIABLES
  is_circuit_open, req_window, halvings, pc, attempt, target,
  success_response, post, table, outcomes,                      \* Gateway
  redis_up, IS_REDIS_CONNECTED, store, server, call_pc, answer, result,
  steps, computed, acked, served                                \* TaskServers

gateway == <<is_circuit_open, req_window, halvings, pc, attempt, target,
             success_response, post, table, outcomes>>
servers == <<redis_up, IS_REDIS_CONNECTED, store, server, call_pc, answer,
             result, steps, computed, acked, served>>
vars    == <<gateway, servers>>

Calls   == Forwards \X (1 .. ATTEMPT_TIMES)
Tasks   == {TaskOf[f] : f \in Forwards}
Servers == {"primary", "backup"}

BigForwards == {f \in Forwards : TaskOf[f][1] = BigType}

G == INSTANCE Gateway WITH
       Requests <- Forwards, Posts <- {},
       BigTasks <- {TaskOf[f] : f \in BigForwards},
       HasBackup <- TRUE, DbMayFail <- TRUE

(* The parameters of each call: task_id, by which the servers go, and type. *)
KeyOf  == [c \in Calls |-> TaskOf[c[1]][2]]
TypeOf == [c \in Calls |-> TaskOf[c[1]][1]]
Keys   == {t[2] : t \in Tasks}

S == INSTANCE TaskServers WITH
       Tasks <- Keys, TaskOf <- KeyOf, pc <- call_pc

Init ==
  /\ G!Init /\ table = {}
  /\ S!Init
  /\ redis_up /\ \A s \in Servers : IS_REDIS_CONNECTED[s]

-----------------------------------------------------------------------------
(* The steps either side takes by itself. *)

ForwardArrives(f) ==
  /\ Cardinality({g \in Forwards : pc[g] # "idle"}) < MaxForwards
  /\ G!Forward(f)
  /\ UNCHANGED servers

GatewayStep(f) ==
  /\ \/ G!Fail(f) \/ G!Succeed(f) \/ G!Retry(f)
     \/ G!Fallback(f) \/ G!Wake(f)
  /\ UNCHANGED servers

ServerStep(c) ==
  /\ S!Finish(c) \/ S!AddStep(c) \/ S!Submit(c)
  /\ UNCHANGED gateway

(* A server may die under its calls and start again. *)
ServerRestarts(s) ==
  /\ redis_up
  /\ S!Restart(s)
  /\ UNCHANGED gateway

RedisToggles ==
  /\ S!RedisToggle
  /\ UNCHANGED gateway

(* An attempt arrives at the server its forward was bound to. *)
CallArrives(f, n) ==
  /\ n <= attempt[f]
  /\ S!Receive(target[f], <<f, n>>)
  /\ UNCHANGED gateway

-----------------------------------------------------------------------------
(* The call a forward waits for. *)
Current(f) == <<f, attempt[f]>>

(* Mutant for StepBehindSuccess: any reply of status 200 is a success, as   *)
(* the client counts them.                                                 *)
StatusOfAny(a) == "success"

(* The status field of a reply that is JSON. *)
StatusOf(a) == IF a = "failed" THEN "failed" ELSE "success"

(* The answer of a server is heard while the gateway waits for it.  The    *)
(* text of a status 500 is no JSON and ends the attempt (G!Fail).          *)
GatewayHears(f) ==
  /\ pc[f] = "sent"
  /\ answer[Current(f)] \in {"own", "hit", "emr", "failed"}
  /\ G!Reply(f)
  /\ success_response'[f] = StatusOf(answer[Current(f)])
  /\ UNCHANGED servers

Next ==
  \/ \E f \in Forwards : ForwardArrives(f) \/ GatewayStep(f) \/ GatewayHears(f)
  \/ \E f \in Forwards, n \in 1 .. ATTEMPT_TIMES : CallArrives(f, n)
  \/ \E c \in Calls : ServerStep(c)
  \/ \E s \in Servers : ServerRestarts(s)
  \/ RedisToggles

Spec == Init /\ [][Next]_vars

-----------------------------------------------------------------------------
(* Properties *)

PlainForwards == Forwards \ BigForwards
PlainCalls    == PlainForwards \X (1 .. ATTEMPT_TIMES)

(* Calls whose work was begun: they are at it, or it was the end of it that *)
(* answered, failed or was cut short.                                      *)
Begun == {c \in PlainCalls :
            \/ call_pc[c] = "working"
            \/ answer[c] \in {"own", "failed", "lost"}
            \/ c \in computed}

PlainKeys == {KeyOf[c] : c \in PlainCalls}
AskKey    == [f \in PlainForwards |-> TaskOf[f][2]]

Remembered == {k \in PlainKeys : store[k] # None}

TS == INSTANCE TaskService WITH
        Tasks <- PlainKeys,    Works <- PlainCalls, WorkTask <- KeyOf,
        Asks <- PlainForwards, AskTask <- AskKey,   NoReply <- "none",
        begun <- Begun,        remembered <- Remembered,
        told <- [f \in PlainForwards |-> success_response[f]]

(* Through overlapping transmissions, attempts given up or answered in     *)
(* vain, the switch to the backup, crashes of a server and outages of      *)
(* Redis: whoever is told of a success is told of a remembered one, and    *)
(* once it is remembered neither server begins the task again              *)
(* (gateway.py:239-289 over server.py:277-323, server_backup.py:341-385).  *)
ServiceKeepsItsWord == TS!Spec

(* A client that is told its Big Data task was submitted is told so about  *)
(* a step EMR has taken in for this very forward (gateway.py:252,          *)
(* server.py:293-309).                                                     *)
StepBehindSuccess ==
  \A f \in BigForwards :
    success_response[f] = "success" => Current(f) \in steps
=============================================================================
