-------------------------- MODULE TaskServersProofs --------------------------
(***************************************************************************)
(* Proofs about GET /api/process, for any number of servers, calls and     *)
(* tasks.                                                                  *)
(***************************************************************************)
EXTENDS TaskServers, TaskIds, TLAPS

(* Publishing keeps the store well typed and never replaces a result. *)
LEMMA SetNXKeeps ==
  ASSUME TypeOK, NEW c \in Calls, SetNX(TaskOf[c], c)
  PROVE  /\ store' \in [Tasks -> Calls \cup {None}]
         /\ store'[TaskOf[c]] # None
         /\ \A t \in Tasks : store[t] # None => store'[t] = store[t]
         /\ \A t \in Tasks :
              store'[t] # store[t] => t = TaskOf[c] /\ store'[t] = c
BY ServersAssumption DEF SetNX, TypeOK

(* What the four ends of a call's work have in common. *)
LEMMA FinishStep ==
  ASSUME TypeOK, NEW c \in Calls, Finish(c)
  PROVE  /\ pc[c] = "working"
         /\ pc' = [pc EXCEPT ![c] = "done"]
         /\ \/ UNCHANGED store
            \/ SetNX(TaskOf[c], c) /\ c \in computed'
         /\ computed' \in {computed, computed \cup {c}}
         /\ \/ UNCHANGED acked
            \/ /\ acked' = [acked EXCEPT ![TaskOf[c]] = @ \cup {c}]
               /\ SetNX(TaskOf[c], c)
         /\ \E a \in {"failed", "own", "http500"} : answer' = [answer EXCEPT ![c] = a]
         /\ \E o \in {c, None} : result' = [result EXCEPT ![c] = o]
         /\ server' = [server EXCEPT ![c] = None]
         /\ UNCHANGED <<redis_up, IS_REDIS_CONNECTED, steps, served>>
BY DEF Finish, FinishFailed, FinishPublish, FinishUnpublished, FinishError, Respond

(* Each step keeps the types. *)
LEMMA TypeInductive == TypeOK /\ [Next]_vars => TypeOK'
<1> SUFFICES ASSUME TypeOK, [Next]_vars PROVE TypeOK'
  OBVIOUS
<1>1. ASSUME NEW c \in Calls, NEW s \in Servers, Receive(s, c) PROVE TypeOK'
  <2>1. TaskOf[c] \in Tasks
    BY ServersAssumption
  <2>2. CASE ReceiveError(s, c)
    BY <1>1, <2>2 DEF Receive, ReceiveError, Respond, TypeOK, PCs, Answers
  <2>3. CASE ReceiveHit(s, c)
    BY <1>1, <2>1, <2>3 DEF Receive, ReceiveHit, Respond, TypeOK, PCs, Answers
  <2>4. CASE ReceiveMiss(s, c)
    BY <1>1, <2>4 DEF Receive, ReceiveMiss, TypeOK, PCs
  <2> QED BY <1>1, <2>2, <2>3, <2>4 DEF Receive
<1>2. ASSUME NEW c \in Calls, Finish(c) PROVE TypeOK'
  <2>1. TaskOf[c] \in Tasks
    BY ServersAssumption
  <2>2. store' \in [Tasks -> Calls \cup {None}]
    BY <1>2, FinishStep, SetNXKeeps DEF TypeOK
  <2>3. acked' \in [Tasks -> SUBSET Calls]
    BY <1>2, <2>1, FinishStep DEF TypeOK
  <2>4. answer' \in [Calls -> Answers] /\ result' \in [Calls -> Calls \cup {None}]
    BY <1>2, FinishStep DEF TypeOK, Answers
  <2>5. pc' \in [Calls -> PCs] /\ computed' \in SUBSET Calls
    BY <1>2, FinishStep DEF TypeOK, PCs
  <2> QED BY <1>2, <2>2, <2>3, <2>4, <2>5, FinishStep DEF TypeOK
<1>3. ASSUME NEW c \in Calls, AddStep(c) PROVE TypeOK'
  BY <1>3 DEF AddStep, TypeOK, calls, history
<1>4. ASSUME NEW c \in Calls, Submit(c) PROVE TypeOK'
  BY <1>4 DEF Submit, Respond, TypeOK, PCs, Answers, history
<1>5. CASE RedisToggle
  BY <1>5 DEF RedisToggle, TypeOK, calls, history
<1>6. ASSUME NEW t \in Tasks, Expire(t) PROVE TypeOK'
  BY <1>6 DEF Expire, TypeOK, calls
<1>7. ASSUME NEW s \in Servers, Restart(s) PROVE TypeOK'
  BY <1>7 DEF Restart, TypeOK, PCs, Answers, history
<1>8. CASE UNCHANGED vars
  BY <1>8 DEF TypeOK, vars, calls, history
<1> QED BY <1>1, <1>2, <1>3, <1>4, <1>5, <1>6, <1>7, <1>8 DEF Next

(* Every call, answer and record keeps its shape through losses of Redis   *)
(* and restarts of servers (server.py:272-323).                            *)
THEOREM TypeCorrect == Spec => []TypeOK
<1>1. Init => TypeOK
  BY DEF Init, TypeOK, PCs, Answers
<1> QED BY <1>1, TypeInductive, PTL DEF Spec

-----------------------------------------------------------------------------
(* The inductive invariant: what Redis holds was computed with success for *)
(* that very key, and what was acknowledged or served is still there.      *)

StoreIsComputed ==
  \A t \in Tasks :
    store[t] # None =>
      store[t] \in computed /\ TaskOf[store[t]] = t /\ TypeOf[store[t]] # BigType

WorkIsNotBig ==
  \A c \in Calls : pc[c] = "working" => TypeOf[c] # BigType

IInv ==
  /\ TypeOK
  /\ StoreIsComputed
  /\ WorkIsNotBig
  /\ HitsAgree
  /\ SuccessIsRemembered
  /\ HitIsASuccess

LEMMA IInvInit == Init => IInv
<1>1. Init => TypeOK
  BY DEF Init, TypeOK, PCs, Answers
<1> QED BY <1>1 DEF Init, IInv, StoreIsComputed, WorkIsNotBig, HitsAgree,
                    SuccessIsRemembered, HitIsASuccess

LEMMA ReceiveKeeps ==
  ASSUME IInv, NEW c \in Calls, NEW s \in Servers, Receive(s, c)
  PROVE  /\ StoreIsComputed' /\ WorkIsNotBig' /\ HitsAgree'
         /\ SuccessIsRemembered' /\ HitIsASuccess'
<1>1. TaskOf[c] \in Tasks
  BY ServersAssumption
<1>2. UNCHANGED <<store, computed, acked>>
  BY DEF Receive
<1>3. StoreIsComputed' /\ SuccessIsRemembered'
  BY <1>2 DEF IInv, StoreIsComputed, SuccessIsRemembered
<1>4. WorkIsNotBig'
  BY DEF Receive, ReceiveError, ReceiveHit, ReceiveMiss, Respond,
         IInv, TypeOK, WorkIsNotBig
<1>5. HitsAgree'
  <2>1. CASE ReceiveHit(s, c)
    BY <1>1, <1>2, <2>1 DEF ReceiveHit, IInv, TypeOK, HitsAgree
  <2>2. CASE UNCHANGED served
    BY <1>2, <2>2 DEF IInv, HitsAgree
  <2> QED BY <2>1, <2>2 DEF Receive, ReceiveError, ReceiveMiss
<1>6. HitIsASuccess'
  <2>1. CASE ReceiveHit(s, c)
    <3>1. /\ store[TaskOf[c]] \in computed
          /\ TaskOf[store[TaskOf[c]]] = TaskOf[c]
          /\ TypeOf[store[TaskOf[c]]] # BigType
      BY <1>1, <2>1 DEF ReceiveHit, IInv, StoreIsComputed
    <3>2. /\ answer' = [answer EXCEPT ![c] = "hit"]
          /\ result' = [result EXCEPT ![c] = store[TaskOf[c]]]
      BY <2>1 DEF ReceiveHit, Respond
    <3> QED BY <1>2, <3>1, <3>2 DEF IInv, TypeOK, HitIsASuccess
  <2>2. CASE ReceiveError(s, c)
    BY <1>2, <2>2 DEF ReceiveError, Respond, IInv, TypeOK, HitIsASuccess
  <2>3. CASE ReceiveMiss(s, c)
    BY <1>2, <2>3 DEF ReceiveMiss, IInv, HitIsASuccess
  <2> QED BY <2>1, <2>2, <2>3 DEF Receive
<1> QED BY <1>3, <1>4, <1>5, <1>6

LEMMA FinishKeeps ==
  ASSUME IInv, NEW c \in Calls, Finish(c)
  PROVE  /\ StoreIsComputed' /\ WorkIsNotBig' /\ HitsAgree'
         /\ SuccessIsRemembered' /\ HitIsASuccess'
<1>0. TypeOK /\ TaskOf[c] \in Tasks
  BY ServersAssumption DEF IInv
<1>1. /\ \A t \in Tasks : store[t] # None => store'[t] = store[t]
      /\ \A t \in Tasks :
           store'[t] # store[t] =>
             t = TaskOf[c] /\ store'[t] = c /\ c \in computed'
      /\ computed \subseteq computed'
  BY <1>0, FinishStep, SetNXKeeps
<1>2. TypeOf[c] # BigType
  BY <1>0, FinishStep DEF IInv, WorkIsNotBig
<1>3. StoreIsComputed'
  BY <1>1, <1>2 DEF IInv, StoreIsComputed
<1>4. WorkIsNotBig'
  BY <1>0, FinishStep DEF IInv, TypeOK, WorkIsNotBig
<1>5. HitsAgree'
  <2>1. served' = served
    BY <1>0, FinishStep
  <2> QED BY <1>1, <2>1 DEF IInv, HitsAgree
<1>6. SuccessIsRemembered'
  <2> SUFFICES ASSUME NEW t \in Tasks, acked'[t] # {}
               PROVE  store'[t] # None
    BY DEF SuccessIsRemembered
  <2>1. CASE acked[t] # {}
    BY <1>1, <2>1 DEF IInv, SuccessIsRemembered
  <2>2. CASE acked[t] = {}
    <3>1. t = TaskOf[c] /\ SetNX(TaskOf[c], c)
      BY <1>0, <2>2, FinishStep DEF TypeOK
    <3> QED BY <1>0, <3>1, SetNXKeeps
  <2> QED BY <2>1, <2>2
<1>7. HitIsASuccess'
  <2> SUFFICES ASSUME NEW d \in Calls, answer'[d] = "hit"
               PROVE  /\ result'[d] \in computed'
                      /\ TaskOf[result'[d]] = TaskOf[d]
                      /\ TypeOf[result'[d]] # BigType
    BY DEF HitIsASuccess
  <2>1. d # c /\ answer[d] = "hit" /\ result'[d] = result[d]
    BY <1>0, FinishStep DEF TypeOK
  <2> QED BY <1>1, <2>1 DEF IInv, HitIsASuccess
<1> QED BY <1>3, <1>4, <1>5, <1>6, <1>7

LEMMA OthersKeep ==
  ASSUME IInv,
         \/ \E c \in Calls : AddStep(c) \/ Submit(c)
         \/ RedisToggle
         \/ \E t \in Tasks : Expire(t)
         \/ \E s \in Servers : Restart(s)
         \/ UNCHANGED vars
  PROVE  /\ StoreIsComputed' /\ WorkIsNotBig' /\ HitsAgree'
         /\ SuccessIsRemembered' /\ HitIsASuccess'
<1> USE DEF StoreIsComputed, WorkIsNotBig, HitsAgree, SuccessIsRemembered,
            HitIsASuccess
<1>1. ASSUME NEW c \in Calls, AddStep(c)
      PROVE  /\ StoreIsComputed' /\ WorkIsNotBig' /\ HitsAgree'
             /\ SuccessIsRemembered' /\ HitIsASuccess'
  BY <1>1 DEF AddStep, calls, history, IInv
<1>2. ASSUME NEW c \in Calls, Submit(c)
      PROVE  /\ StoreIsComputed' /\ WorkIsNotBig' /\ HitsAgree'
             /\ SuccessIsRemembered' /\ HitIsASuccess'
  BY <1>2 DEF Submit, Respond, history, IInv, TypeOK
<1>3. ASSUME RedisToggle \/ UNCHANGED vars
      PROVE  /\ StoreIsComputed' /\ WorkIsNotBig' /\ HitsAgree'
             /\ SuccessIsRemembered' /\ HitIsASuccess'
  BY <1>3 DEF RedisToggle, calls, history, vars, IInv
<1>4. ASSUME NEW t \in Tasks, Expire(t)
      PROVE  /\ StoreIsComputed' /\ WorkIsNotBig' /\ HitsAgree'
             /\ SuccessIsRemembered' /\ HitIsASuccess'
  BY <1>4 DEF Expire, calls, IInv, TypeOK
<1>5. ASSUME NEW s \in Servers, Restart(s)
      PROVE  /\ StoreIsComputed' /\ WorkIsNotBig' /\ HitsAgree'
             /\ SuccessIsRemembered' /\ HitIsASuccess'
  BY <1>5 DEF Restart, history, IInv
<1> QED BY <1>1, <1>2, <1>3, <1>4, <1>5

LEMMA IInvInductive == IInv /\ [Next]_vars => IInv'
<1>1. IInv /\ [Next]_vars => TypeOK'
  BY TypeInductive DEF IInv
<1> QED BY <1>1, ReceiveKeeps, FinishKeeps, OthersKeep DEF Next, IInv

LEMMA IInvInvariant == Spec => []IInv
BY IInvInit, IInvInductive, PTL DEF Spec

(* All hits on a task are one answer, the one Redis holds, whichever       *)
(* servers published and served it (server.py:281-287, 319-320).           *)
THEOREM HitsAlwaysAgree == Spec => []HitsAgree
BY IInvInvariant, PTL DEF IInv

(* A success published and answered stays on record until its key is lost  *)
(* (server.py:315-323).                                                    *)
THEOREM SuccessStays == Spec => []SuccessIsRemembered
BY IInvInvariant, PTL DEF IInv

(* A hit hands out a success computed for the same task_id                 *)
(* (server.py:281-287, 311-320).                                           *)
THEOREM HitsAreSuccesses == Spec => []HitIsASuccess
BY IInvInvariant, PTL DEF IInv

(* After a published success no server that uses Redis executes the task   *)
(* again (server.py:277-287).                                              *)
THEOREM NeverExecutedLater == Spec => NoLaterExecution
<1> DEFINE A == \A c \in Calls :
                  pc[c] = "idle" /\ pc'[c] \in {"working", "submitting"}
                    /\ UsesRedis(server'[c])
                  => acked[TaskOf[c]] = {}
<1>1. IInv /\ [Next]_vars => [A]_vars
  <2> SUFFICES ASSUME IInv, Next, NEW c \in Calls,
                      pc[c] = "idle", pc'[c] \in {"working", "submitting"},
                      UsesRedis(server'[c])
               PROVE  acked[TaskOf[c]] = {}
    OBVIOUS
  <2>1. TypeOK /\ TaskOf[c] \in Tasks
    BY ServersAssumption DEF IInv
  <2>2. ASSUME NEW d \in Calls, NEW s \in Servers, Receive(s, d)
        PROVE  acked[TaskOf[c]] = {}
    <3>1. c = d
      BY <2>1, <2>2 DEF Receive, ReceiveError, ReceiveHit, ReceiveMiss, Respond, TypeOK
    <3>2. ReceiveMiss(s, c) /\ UsesRedis(s)
      <4>1. ReceiveMiss(s, c)
        BY <2>1, <2>2, <3>1 DEF Receive, ReceiveError, ReceiveHit, Respond, TypeOK
      <4>2. server'[c] = s
        BY <2>1, <4>1 DEF ReceiveMiss, TypeOK
      <4> QED BY <4>1, <4>2
    <3>3. store[TaskOf[c]] = None
      BY <3>2 DEF ReceiveMiss
    <3> QED BY <2>1, <3>3 DEF IInv, SuccessIsRemembered
  <2>3. ASSUME NEW d \in Calls, Finish(d) PROVE FALSE
    BY <2>1, <2>3, FinishStep DEF TypeOK
  <2>4. ASSUME NEW d \in Calls, AddStep(d) \/ Submit(d) PROVE FALSE
    BY <2>1, <2>4 DEF AddStep, Submit, Respond, calls, TypeOK
  <2>5. ASSUME RedisToggle PROVE FALSE
    BY <2>5 DEF RedisToggle, calls
  <2>6. ASSUME NEW t \in Tasks, Expire(t) PROVE FALSE
    BY <2>6 DEF Expire, calls
  <2>7. ASSUME NEW s \in Servers, Restart(s) PROVE FALSE
    BY <2>7 DEF Restart
  <2> QED BY <2>2, <2>3, <2>4, <2>5, <2>6, <2>7 DEF Next
<1> QED BY <1>1, IInvInvariant, PTL DEF Spec, NoLaterExecution

-----------------------------------------------------------------------------
(* How far the statements of README.md:19 hold *)

(* No two calls of one task are being executed at the same time. *)
OneAtATime ==
  \A c, d \in Calls :
    TaskOf[c] = TaskOf[d] /\ pc[c] = "working" /\ pc[d] = "working" => c = d

(* A call that a server with Redis executes has no predecessor on record. *)
WorkIsNew ==
  \A c \in Calls :
    pc[c] = "working" /\ UsesRedis(server[c]) => acked[TaskOf[c]] = {}

LEMMA ExecutedOnce ==
  ASSUME IInv, OneAtATime, WorkIsNew, NoDuplicateExecution, [Next]_vars
  PROVE  WorkIsNew' /\ NoDuplicateExecution'
<1> TypeOK /\ \A c \in Calls : TaskOf[c] \in Tasks
  BY ServersAssumption DEF IInv
<1>1. ASSUME NEW c \in Calls, NEW s \in Servers, Receive(s, c)
      PROVE  WorkIsNew' /\ NoDuplicateExecution'
  <2>1. UNCHANGED <<acked, IS_REDIS_CONNECTED>>
    BY <1>1 DEF Receive
  <2>2. \A d \in Calls : d # c => pc'[d] = pc[d] /\ server'[d] = server[d]
    BY <1>1 DEF Receive, ReceiveError, ReceiveHit, ReceiveMiss, Respond, TypeOK
  <2>3. pc'[c] = "working" /\ UsesRedis(server'[c]) => acked[TaskOf[c]] = {}
    <3> SUFFICES ASSUME pc'[c] = "working", UsesRedis(server'[c])
                 PROVE  acked[TaskOf[c]] = {}
      OBVIOUS
    <3>1. ReceiveMiss(s, c)
      BY <1>1 DEF Receive, ReceiveError, ReceiveHit, Respond, TypeOK
    <3>2. server'[c] = s
      BY <3>1 DEF ReceiveMiss, TypeOK
    <3>3. store[TaskOf[c]] = None
      BY <3>1, <3>2 DEF ReceiveMiss
    <3> QED BY <3>3 DEF IInv, SuccessIsRemembered
  <2> QED BY <2>1, <2>2, <2>3 DEF WorkIsNew, NoDuplicateExecution, UsesRedis
<1>2. ASSUME NEW c \in Calls, Finish(c)
      PROVE  WorkIsNew' /\ NoDuplicateExecution'
  <2>1. /\ pc[c] = "working" /\ pc' = [pc EXCEPT ![c] = "done"]
        /\ server' = [server EXCEPT ![c] = None]
        /\ UNCHANGED IS_REDIS_CONNECTED
    BY <1>2, FinishStep
  <2>2. CASE UNCHANGED acked
    BY <2>1, <2>2 DEF WorkIsNew, NoDuplicateExecution, UsesRedis, TypeOK
  <2>3. CASE FinishPublish(c)
    <3>1. acked[TaskOf[c]] = {} /\ acked' = [acked EXCEPT ![TaskOf[c]] = @ \cup {c}]
      BY <2>1, <2>3 DEF FinishPublish, WorkIsNew
    <3>2. acked'[TaskOf[c]] = {c} /\ \A t \in Tasks : t # TaskOf[c] => acked'[t] = acked[t]
      BY <3>1 DEF TypeOK
    <3>3. \A d \in Calls : pc'[d] = "working" =>
            d # c /\ pc[d] = "working" /\ TaskOf[d] # TaskOf[c] /\ server'[d] = server[d]
      BY <2>1 DEF OneAtATime, TypeOK
    <3>4. WorkIsNew'
      BY <2>1, <3>2, <3>3 DEF WorkIsNew, UsesRedis
    <3>5. NoDuplicateExecution'
      BY <3>2 DEF NoDuplicateExecution
    <3> QED BY <3>4, <3>5
  <2> QED BY <1>2, <2>2, <2>3 DEF Finish, FinishFailed, FinishUnpublished, FinishError
<1>3. ASSUME NEW c \in Calls, AddStep(c) \/ Submit(c)
      PROVE  WorkIsNew' /\ NoDuplicateExecution'
  <2>1. UNCHANGED <<acked, IS_REDIS_CONNECTED>>
    BY <1>3 DEF AddStep, Submit, history
  <2>2. \A d \in Calls : pc'[d] = "working" => pc[d] = "working" /\ server'[d] = server[d]
    BY <1>3 DEF AddStep, Submit, Respond, calls, TypeOK
  <2> QED BY <2>1, <2>2 DEF WorkIsNew, NoDuplicateExecution, UsesRedis
<1>4. CASE RedisToggle \/ UNCHANGED vars
  BY <1>4 DEF RedisToggle, vars, calls, history, WorkIsNew, NoDuplicateExecution, UsesRedis
<1>5. ASSUME NEW t \in Tasks, Expire(t)
      PROVE  WorkIsNew' /\ NoDuplicateExecution'
  <2>1. \A u \in Tasks : acked'[u] \in {acked[u], {}}
    BY <1>5 DEF Expire, TypeOK
  <2> QED BY <1>5, <2>1 DEF Expire, calls, WorkIsNew, NoDuplicateExecution, UsesRedis
<1>6. ASSUME NEW s \in Servers, Restart(s)
      PROVE  WorkIsNew' /\ NoDuplicateExecution'
  <2>1. /\ UNCHANGED acked
        /\ IS_REDIS_CONNECTED' = [IS_REDIS_CONNECTED EXCEPT ![s] = redis_up]
        /\ \A d \in Calls : pc'[d] = "working" =>
             pc[d] = "working" /\ server[d] # s /\ server'[d] = server[d]
    BY <1>6 DEF Restart, history
  <2>2. \A d \in Calls : pc'[d] = "working" =>
          IS_REDIS_CONNECTED'[server[d]] = IS_REDIS_CONNECTED[server[d]]
    BY <2>1 DEF TypeOK
  <2> QED BY <2>1, <2>2 DEF WorkIsNew, NoDuplicateExecution, UsesRedis
<1> QED BY <1>1, <1>2, <1>3, <1>4, <1>5, <1>6 DEF Next

(* README.md:19 holds as long as the calls of a task do not overlap: then  *)
(* no task is answered with two published successes before its key is      *)
(* lost, whichever servers the calls reach.  What breaks it is only the    *)
(* time between the check and the SET (server.py:281-320).                 *)
THEOREM OnlyOverlapDuplicates == Spec /\ []OneAtATime => []NoDuplicateExecution
<1>1. Init => WorkIsNew /\ NoDuplicateExecution
  BY ServersAssumption DEF Init, WorkIsNew, NoDuplicateExecution
<1>2. IInv /\ OneAtATime /\ WorkIsNew /\ NoDuplicateExecution /\ [Next]_vars
        => (WorkIsNew /\ NoDuplicateExecution)'
  BY ExecutedOnce
<1> QED BY <1>1, <1>2, IInvInvariant, PTL DEF Spec

(* Calls that agree in their task_id agree in their type. *)
IdsTellTypes ==
  \A c, d \in Calls : TaskOf[c] = TaskOf[d] => TypeOf[c] = TypeOf[d]

(* A hit answers a task of another type only when two types come to the    *)
(* same task_id (server.py:277-287).                                       *)
THEOREM OnlyEqualIdsMixTypes == IdsTellTypes => (Spec => []HitHasOwnType)
<1> SUFFICES ASSUME IdsTellTypes PROVE Spec => []HitHasOwnType
  OBVIOUS
<1>1. IInv => HitHasOwnType
  BY DEF IInv, TypeOK, HitIsASuccess, IdsTellTypes, HitHasOwnType
<1> QED BY <1>1, IInvInvariant, PTL

(* The types whose first four letters are the same. *)
ModelTypes == {"Model_Training", "Model_Inference", "Model_Deployment"}

(* The identifiers of the clients tell types apart but for these three:    *)
(* no other type shares one with them, Big Data tasks in particular.       *)
LEMMA IdsTellMostTypes ==
  ASSUME NEW t \in ML_TASK_TYPES, NEW u \in ML_TASK_TYPES, NEW m, NEW n,
         TaskId(t, m) = TaskId(u, n)
  PROVE  t = u \/ (t \in ModelTypes /\ u \in ModelTypes)
<1>1. Prefix[t] = Prefix[u]
  BY DEF TaskId
<1> DEFINE P(v) == CASE v = "Data_Preprocessing" -> "DATA"
                     [] v = "Feature_Extraction" -> "FEAT"
                     [] v = "Big_Data_Task"      -> "BIG_"
                     [] OTHER                    -> "MODE"
<1>2. \A v \in ML_TASK_TYPES : Prefix[v] = P(v)
  BY DEF Prefix, TASK_CRIMINAL_CLASSIFICATION
<1>3. \A v \in ML_TASK_TYPES :
        v \in {"Data_Preprocessing", "Feature_Extraction", "Big_Data_Task"} \cup ModelTypes
  BY DEF ML_TASK_TYPES, ML_TASK_TYPES_TRADITIONAL, TASK_CRIMINAL_CLASSIFICATION, ModelTypes
<1>4. P(t) = P(u)
  BY <1>1, <1>2
<1> QED BY <1>3, <1>4 DEF ModelTypes

(* Every call comes under an identifier made by a client (client.py:188).  *)
IdsOfClients ==
  \A c \in Calls : TypeOf[c] \in ML_TASK_TYPES /\ \E n \in Nat : TaskOf[c] = TaskId(TypeOf[c], n)

(* With the identifiers the clients make, a hit has its own type unless it *)
(* asks for one of the three types named Model_: what the run finds mixed  *)
(* is all that can be (server.py:277-287).                                 *)
THEOREM OnlyModelTypesMix ==
  IdsOfClients =>
    (Spec => [](\A c \in Calls :
                  answer[c] = "hit" =>
                    \/ TypeOf[result[c]] = TypeOf[c]
                    \/ TypeOf[c] \in ModelTypes /\ TypeOf[result[c]] \in ModelTypes))
<1> DEFINE I == \A c \in Calls :
                  answer[c] = "hit" =>
                    \/ TypeOf[result[c]] = TypeOf[c]
                    \/ TypeOf[c] \in ModelTypes /\ TypeOf[result[c]] \in ModelTypes
<1> SUFFICES ASSUME IdsOfClients PROVE Spec => []I
  OBVIOUS
<1>1. IInv => I
  <2> SUFFICES ASSUME IInv, NEW c \in Calls, answer[c] = "hit"
               PROVE  \/ TypeOf[result[c]] = TypeOf[c]
                      \/ TypeOf[c] \in ModelTypes /\ TypeOf[result[c]] \in ModelTypes
    OBVIOUS
  <2>1. result[c] \in Calls /\ TaskOf[result[c]] = TaskOf[c]
    BY DEF IInv, TypeOK, HitIsASuccess
  <2> QED BY <2>1, IdsTellMostTypes DEF IdsOfClients
<1> HIDE DEF I
<1> QED BY <1>1, IInvInvariant, PTL
=============================================================================
