----------------------------- MODULE TaskServers -----------------------------
(***************************************************************************)
(* GET /api/process on the primary and the backup server                   *)
(* (distributed/server/server.py and server_backup.py): the idempotency    *)
(* check against the Redis both servers share, the work, and the SET NX    *)
(* that publishes a success.  A server is one event loop; a call suspends  *)
(* only while it works (TASK_COST) or submits an EMR step.                 *)
(*                                                                         *)
(* A result is named by the call that computed it.                         *)
(***************************************************************************)
EXTENDS Integers, FiniteSets

CONSTANTS
  Servers,
  Calls,           \* the requests that reach /api/process
  Tasks,           \* the values of task_id
  Types,           \* the values of task_type
  TaskOf, TypeOf,  \* the parameters of each call
  BigType,         \* TASK_CRIMINAL_CLASSIFICATION
  None

ASSUME ServersAssumption ==
  /\ TaskOf \in [Calls -> Tasks]
  /\ TypeOf \in [Calls -> Types]
  /\ None \notin Calls
  /\ None \notin Servers

VARIABLES
  redis_up,             \* whether Redis can be reached now
  IS_REDIS_CONNECTED,   \* what each server found when it started
  store,                \* Redis: idem:task:<task_id> to the published result
  server, pc, answer,   \* of each call: where it runs, while it does, its
                        \* state, its reply
  result,               \* whose result a successful reply carries
  steps,                \* EMR: the calls for which a step was added
  (* History: *)
  computed,             \* the calls whose work succeeded
  acked,                \* of each task, since its key was last lost: the calls
                        \* that answered success and published it first
  served                \* of each task, likewise: the results served from Redis

calls   == <<server, pc, answer, result>>
history == <<computed, acked, served>>
vars    == <<redis_up, IS_REDIS_CONNECTED, store, calls, steps, history>>

PCs     == {"idle", "working", "submitting", "done"}
Answers == {"none",
            "own",      \* success, computed by this call
            "hit",      \* success, from the idempotency cache
            "emr",      \* success, step submitted
            "failed",   \* a reply whose status is failed
            "http500",  \* the handler raised
            "lost"}     \* the server died under the call

TypeOK ==
  /\ redis_up \in BOOLEAN
  /\ IS_REDIS_CONNECTED \in [Servers -> BOOLEAN]
  /\ store \in [Tasks -> Calls \cup {None}]
  /\ server \in [Calls -> Servers \cup {None}]
  /\ pc \in [Calls -> PCs]
  /\ answer \in [Calls -> Answers]
  /\ result \in [Calls -> Calls \cup {None}]
  /\ steps \in SUBSET Calls
  /\ computed \in SUBSET Calls
  /\ acked \in [Tasks -> SUBSET Calls]
  /\ served \in [Tasks -> SUBSET Calls]

(* The servers start one after the other and Redis may come and go between. *)
Init ==
  /\ redis_up \in BOOLEAN
  /\ IS_REDIS_CONNECTED \in [Servers -> BOOLEAN]
  /\ store = [t \in Tasks |-> None]
  /\ server = [c \in Calls |-> None]
  /\ pc = [c \in Calls |-> "idle"]
  /\ answer = [c \in Calls |-> "none"]
  /\ result = [c \in Calls |-> None]
  /\ steps = {}
  /\ computed = {}
  /\ acked = [t \in Tasks |-> {}]
  /\ served = [t \in Tasks |-> {}]

-----------------------------------------------------------------------------
UsesRedis(s) == IS_REDIS_CONNECTED[s]

Respond(c, a, res) ==
  /\ server' = [server EXCEPT ![c] = None]
  /\ pc' = [pc EXCEPT ![c] = "done"]
  /\ answer' = [answer EXCEPT ![c] = a]
  /\ result' = [result EXCEPT ![c] = res]

(* Mutant for NoLaterExecution: Redis is not asked, as in the traditional  *)
(* server.                                                                 *)
ReceiveAnew(s, c) ==
  /\ server' = [server EXCEPT ![c] = s]
  /\ pc' = [pc EXCEPT ![c] =
              IF TypeOf[c] = BigType THEN "submitting" ELSE "working"]
  /\ UNCHANGED <<answer, result, served>>

(* redis_client.get raises: the flag was set at start and is never checked. *)
ReceiveError(s, c) ==
  /\ UsesRedis(s) /\ ~redis_up
  /\ Respond(c, "http500", None)
  /\ UNCHANGED served

(* Mutant for TypeOK: the key is handed out instead of what is stored. *)
ReceiveHitKey(s, c) ==
  /\ UsesRedis(s) /\ redis_up
  /\ store[TaskOf[c]] # None
  /\ Respond(c, "hit", TaskOf[c])
  /\ UNCHANGED served

ReceiveHit(s, c) ==
  /\ UsesRedis(s) /\ redis_up
  /\ store[TaskOf[c]] # None
  /\ Respond(c, "hit", store[TaskOf[c]])
  /\ served' = [served EXCEPT ![TaskOf[c]] = @ \cup {store[TaskOf[c]]}]

ReceiveMiss(s, c) ==
  /\ UsesRedis(s) => redis_up /\ store[TaskOf[c]] = None
  /\ server' = [server EXCEPT ![c] = s]
  /\ pc' = [pc EXCEPT ![c] =
              IF TypeOf[c] = BigType THEN "submitting" ELSE "working"]
  /\ UNCHANGED <<answer, result, served>>

Receive(s, c) ==
  /\ pc[c] = "idle"
  /\ ReceiveError(s, c) \/ ReceiveHit(s, c) \/ ReceiveMiss(s, c)
  /\ UNCHANGED <<redis_up, IS_REDIS_CONNECTED, store, steps, computed, acked>>

(* Mutants: SET without NX (HitsAgree); SET XX (SuccessIsRemembered). *)
SetAlways(t, c) == store' = [store EXCEPT ![t] = c]
SetXX(t, c) ==
  store' = IF store[t] # None THEN [store EXCEPT ![t] = c] ELSE store

(* SET key NX: the first result stays. *)
SetNX(t, c) ==
  store' = IF store[t] = None THEN [store EXCEPT ![t] = c] ELSE store

(* Mutant for HitIsASuccess: a failure is published too. *)
FinishFailedPublished(c) ==
  /\ IF UsesRedis(server[c]) /\ redis_up
       THEN SetNX(TaskOf[c], c) ELSE UNCHANGED store
  /\ Respond(c, "failed", None)
  /\ UNCHANGED <<computed, acked>>

(* makeup_response succeeds or fails by a coin; only a success is          *)
(* published, and the reply is the call's own result even when another one *)
(* stands.                                                                 *)
FinishFailed(c) ==
  /\ Respond(c, "failed", None)
  /\ UNCHANGED <<store, computed, acked>>

FinishPublish(c) ==
  /\ UsesRedis(server[c]) /\ redis_up
  /\ SetNX(TaskOf[c], c)
  /\ Respond(c, "own", c)
  /\ computed' = computed \cup {c}
  /\ acked' = [acked EXCEPT ![TaskOf[c]] = @ \cup {c}]

FinishUnpublished(c) ==
  /\ ~UsesRedis(server[c])
  /\ Respond(c, "own", c)
  /\ computed' = computed \cup {c}
  /\ UNCHANGED <<store, acked>>

(* The link to Redis is lost: SET raises, carried out or not. *)
FinishError(c) ==
  /\ UsesRedis(server[c]) /\ ~redis_up
  /\ Respond(c, "http500", None)
  /\ computed' = computed \cup {c}
  /\ SetNX(TaskOf[c], c) \/ UNCHANGED store
  /\ UNCHANGED acked

Finish(c) ==
  /\ pc[c] = "working"
  /\ \/ FinishFailed(c)
     \/ FinishPublish(c)
     \/ FinishUnpublished(c)
     \/ FinishError(c)
  /\ UNCHANGED <<redis_up, IS_REDIS_CONNECTED, steps, served>>

(* submit_emr_spark_job, in a thread: EMR takes the step in ...            *)
AddStep(c) ==
  /\ pc[c] = "submitting"
  /\ c \notin steps
  /\ steps' = steps \cup {c}
  /\ UNCHANGED <<redis_up, IS_REDIS_CONNECTED, store, calls, history>>

(* ... and its id comes back.  Or no cluster was found, or the call of EMR *)
(* raised, the step taken in or not: None, or the handler raises too, as   *)
(* the EMR client knows no ValidationException to compare with.  Nothing   *)
(* is published.                                                           *)
Submit(c) ==
  /\ pc[c] = "submitting"
  /\ \/ c \in steps /\ Respond(c, "emr", c)
     \/ Respond(c, "failed", None)
     \/ Respond(c, "http500", None)
  /\ UNCHANGED <<redis_up, IS_REDIS_CONNECTED, store, steps, history>>

-----------------------------------------------------------------------------
(* The environment: Redis drops off and comes back, a key reaches          *)
(* IDEMPOTENCY_EXPIRE or is lost with Redis, a server dies and starts      *)
(* again.                                                                  *)

RedisToggle ==
  /\ redis_up' = ~redis_up
  /\ UNCHANGED <<IS_REDIS_CONNECTED, store, calls, steps, history>>

Expire(t) ==
  /\ store[t] # None
  /\ store' = [store EXCEPT ![t] = None]
  /\ acked' = [acked EXCEPT ![t] = {}]
  /\ served' = [served EXCEPT ![t] = {}]
  /\ UNCHANGED <<redis_up, IS_REDIS_CONNECTED, calls, steps, computed>>

Restart(s) ==
  LET dead == {c \in Calls : server[c] = s} IN
  /\ IS_REDIS_CONNECTED' = [IS_REDIS_CONNECTED EXCEPT ![s] = redis_up]
  /\ pc' = [c \in Calls |-> IF c \in dead THEN "done" ELSE pc[c]]
  /\ answer' = [c \in Calls |-> IF c \in dead THEN "lost" ELSE answer[c]]
  /\ server' = [c \in Calls |-> IF c \in dead THEN None ELSE server[c]]
  /\ UNCHANGED <<redis_up, store, result, steps, history>>

Next ==
  \/ \E c \in Calls :
       Finish(c) \/ AddStep(c) \/ Submit(c) \/ \E s \in Servers : Receive(s, c)
  \/ RedisToggle
  \/ \E t \in Tasks : Expire(t)
  \/ \E s \in Servers : Restart(s)

Spec == Init /\ [][Next]_vars

-----------------------------------------------------------------------------
(* Properties *)

(* All answers served from the cache for one task are the same answer, and *)
(* it is the one Redis holds, whichever server publishes or serves         *)
(* (server.py:281-287 and 319-320, server_backup.py:345-351 and 381-382).  *)
HitsAgree ==
  \A t \in Tasks : served[t] \subseteq {store[t]} \ {None}

(* A success that a server published before it answered stays on record    *)
(* until its key is lost, however the calls of the task overlap and fail,  *)
(* on whichever server, and whatever becomes of the link to Redis          *)
(* (server.py:315-323, server_backup.py:378-385).                          *)
SuccessIsRemembered ==
  \A t \in Tasks : acked[t] # {} => store[t] # None

(* What idempotency amounts to: once a task was answered with a published  *)
(* success, no server that uses Redis executes it again before its key is  *)
(* lost (server.py:277-287, server_backup.py:341-351).                     *)
NoLaterExecution ==
  [][\A c \in Calls :
       pc[c] = "idle" /\ pc'[c] \in {"working", "submitting"}
         /\ UsesRedis(server'[c])
       => acked[TaskOf[c]] = {}]_vars

(* What a hit hands out is a result some call of the same task_id computed *)
(* with success, never a failure and never an EMR submission, even after   *)
(* keys expired, links broke and servers restarted (server.py:281-287 and  *)
(* 311-320).                                                               *)
HitIsASuccess ==
  \A c \in Calls :
    answer[c] = "hit" =>
      /\ result[c] \in computed
      /\ TaskOf[result[c]] = TaskOf[c]
      /\ TypeOf[result[c]] # BigType

-----------------------------------------------------------------------------
(* Statements of the documentation that the code does not keep *)

(* "Prevents duplicate task executions caused by client network retries"   *)
(* (README.md:19): with Redis in use, one call of a task executes it.      *)
NoDuplicateExecution ==
  \A t \in Tasks : \A c, d \in acked[t] : c = d

(* "Prevents duplicate task executions" by "a task_id locking mechanism"   *)
(* (README.md:19): an answer from the cache is the answer to this task and *)
(* not to one of another type.                                             *)
HitHasOwnType ==
  \A c \in Calls : answer[c] = "hit" => TypeOf[result[c]] = TypeOf[c]
=============================================================================
