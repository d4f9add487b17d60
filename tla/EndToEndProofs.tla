---------------------------- MODULE EndToEndProofs ----------------------------
(***************************************************************************)
(* Proofs about gateway and servers together, for any number of forwards,  *)
(* attempts and types, any window and threshold: they implement            *)
(* TaskService, and behind a submission lies a step.  The invariant of the *)
(* servers is that of TaskServersProofs.                                   *)
(***************************************************************************)
EXTENDS EndToEnd, TLAPS

SP == INSTANCE TaskServersProofs WITH
        Tasks <- Keys, TaskOf <- KeyOf, pc <- call_pc

GP == INSTANCE GatewayProofs WITH
        Requests <- Forwards, Posts <- {},
        BigTasks <- {TaskOf[f] : f \in BigForwards},
        HasBackup <- TRUE, DbMayFail <- TRUE

(* The names of a call are those of its forward. *)
LEMMA CallFacts ==
  /\ \A f \in Forwards, n \in 1 .. ATTEMPT_TIMES :
       /\ <<f, n>> \in Calls
       /\ KeyOf[<<f, n>>] = TaskOf[f][2]
       /\ TypeOf[<<f, n>>] = TaskOf[f][1]
  /\ \A f \in Forwards : f \in BigForwards <=> TaskOf[f][1] = BigType
  /\ \A c \in Calls : KeyOf[c] \in Keys
  /\ \A c \in Calls : c \in PlainCalls <=> TypeOf[c] # BigType
<1>1. \A f \in Forwards, n \in 1 .. ATTEMPT_TIMES :
        /\ <<f, n>> \in Calls
        /\ KeyOf[<<f, n>>] = TaskOf[f][2]
        /\ TypeOf[<<f, n>>] = TaskOf[f][1]
  BY DEF Calls, KeyOf, TypeOf
<1>2. \A f \in Forwards : f \in BigForwards <=> TaskOf[f][1] = BigType
  BY DEF BigForwards
<1>3. \A c \in Calls :
        c[1] \in Forwards /\ c[2] \in 1 .. ATTEMPT_TIMES /\ c = <<c[1], c[2]>>
  BY DEF Calls
<1>4. \A c \in Calls : KeyOf[c] \in Keys
  BY <1>3 DEF KeyOf, Keys, Tasks
<1>5. \A c \in Calls : c \in PlainCalls <=> TypeOf[c] # BigType
  BY <1>2, <1>3 DEF TypeOf, PlainCalls, PlainForwards
<1> QED BY <1>1, <1>2, <1>4, <1>5

(* Tasks of one key are all Big Data tasks or none is. *)
LEMMA BigKeys ==
  \A c, d \in Calls : KeyOf[c] = KeyOf[d] /\ TypeOf[c] = BigType => TypeOf[d] = BigType
<1>1. \A c \in Calls :
        c[1] \in Forwards /\ KeyOf[c] = TaskOf[c[1]][2] /\ TypeOf[c] = TaskOf[c[1]][1]
  BY DEF Calls, KeyOf, TypeOf
<1> QED BY <1>1, EndToEndAssumption

LEMMA ServersAssumed == SP!ServersAssumption
<1>1. KeyOf \in [Calls -> Keys]
  BY CallFacts DEF KeyOf
<1>2. TypeOf \in [Calls -> Types]
  BY EndToEndAssumption DEF Calls, TypeOf
<1>3. None \notin Calls /\ None \notin Servers
  BY EndToEndAssumption DEF Calls, Servers
<1> QED BY <1>1, <1>2, <1>3 DEF SP!ServersAssumption

-----------------------------------------------------------------------------
(* The servers' part of a behaviour is one of TaskServers *)

LEMMA ServersBegin == Init => SP!Init
BY DEF Init, S!Init, SP!Init

LEMMA ServersInit == Init => SP!IInv
BY ServersBegin, ServersAssumed, SP!IInvInit

(* The two instances of TaskServers have the same actions. *)
LEMMA SameServers ==
  /\ \A s \in Servers, c \in Calls : S!Receive(s, c) <=> SP!Receive(s, c)
  /\ \A c \in Calls : S!Finish(c) <=> SP!Finish(c)
  /\ \A c \in Calls : S!AddStep(c) <=> SP!AddStep(c)
  /\ \A c \in Calls : S!Submit(c) <=> SP!Submit(c)
  /\ S!RedisToggle <=> SP!RedisToggle
  /\ \A s \in Servers : S!Restart(s) <=> SP!Restart(s)
<1>1. \A s \in Servers, c \in Calls : S!Receive(s, c) <=> SP!Receive(s, c)
  BY DEF S!Receive, SP!Receive, S!ReceiveError, SP!ReceiveError, S!ReceiveHit,
         SP!ReceiveHit, S!ReceiveMiss, SP!ReceiveMiss, S!Respond, SP!Respond,
         S!UsesRedis, SP!UsesRedis
<1>2. \A c \in Calls : S!Finish(c) <=> SP!Finish(c)
  BY DEF S!Finish, SP!Finish, S!FinishFailed, SP!FinishFailed, S!FinishPublish,
         SP!FinishPublish, S!FinishUnpublished, SP!FinishUnpublished, S!FinishError,
         SP!FinishError, S!Respond, SP!Respond, S!UsesRedis, SP!UsesRedis, S!SetNX, SP!SetNX
<1>3. \A c \in Calls : S!AddStep(c) <=> SP!AddStep(c)
  BY DEF S!AddStep, SP!AddStep, S!calls, SP!calls, S!history, SP!history
<1>4. \A c \in Calls : S!Submit(c) <=> SP!Submit(c)
  BY DEF S!Submit, SP!Submit, S!Respond, SP!Respond, S!history, SP!history
<1>5. S!RedisToggle <=> SP!RedisToggle
  BY DEF S!RedisToggle, SP!RedisToggle, S!calls, SP!calls, S!history, SP!history
<1>6. \A s \in Servers : S!Restart(s) <=> SP!Restart(s)
  BY DEF S!Restart, SP!Restart, S!history, SP!history
<1> QED BY <1>1, <1>2, <1>3, <1>4, <1>5, <1>6

(* An attempt is forwarded to the server the forward was bound to. *)
LEMMA Arrival ==
  ASSUME NEW f \in Forwards, NEW n \in 1 .. ATTEMPT_TIMES, CallArrives(f, n),
         target[f] \in Servers
  PROVE  SP!Receive(target[f], <<f, n>>)
BY CallFacts, SameServers DEF CallArrives

LEMMA ServersMove ==
  ASSUME [Next]_vars,
         \A f \in Forwards : attempt[f] \in Nat /\ (attempt[f] > 0 => target[f] \in Servers)
  PROVE  [SP!Next]_(SP!vars)
<1>1. ASSUME UNCHANGED servers PROVE UNCHANGED SP!vars
  BY <1>1 DEF servers, SP!vars, SP!calls, SP!history
<1>2. CASE UNCHANGED vars
  BY <1>1, <1>2 DEF vars
<1>3. ASSUME NEW f \in Forwards, ForwardArrives(f) \/ GatewayStep(f) \/ GatewayHears(f)
      PROVE  UNCHANGED servers
  BY <1>3 DEF ForwardArrives, GatewayStep, GatewayHears
<1>4. ASSUME NEW f \in Forwards, NEW n \in 1 .. ATTEMPT_TIMES, CallArrives(f, n)
      PROVE  SP!Next
  <2>1. target[f] \in Servers
    BY <1>4 DEF CallArrives
  <2> QED BY <1>4, <2>1, Arrival, CallFacts DEF SP!Next
<1>5. ASSUME NEW c \in Calls, ServerStep(c) PROVE SP!Next
  BY <1>5, SameServers DEF ServerStep, SP!Next
<1>6. ASSUME NEW s \in Servers, ServerRestarts(s) PROVE SP!Next
  BY <1>6, SameServers DEF ServerRestarts, SP!Next
<1>7. CASE RedisToggles
  BY <1>7, SameServers DEF RedisToggles, SP!Next
<1> QED BY <1>1, <1>2, <1>3, <1>4, <1>5, <1>6, <1>7 DEF Next

LEMMA ServersInductive ==
  ASSUME SP!IInv, [Next]_vars,
         \A f \in Forwards : attempt[f] \in Nat /\ (attempt[f] > 0 => target[f] \in Servers)
  PROVE  SP!IInv'
BY ServersMove, ServersAssumed, SP!IInvInductive

-----------------------------------------------------------------------------
(* The invariant of the composition *)

(* The servers find Redis when they start, also when they start again. *)
Connected == \A s \in Servers : IS_REDIS_CONNECTED[s]

(* A call lives on a server while it is at work there; a success of a      *)
(* plain call is backed by the store, one of a Big Data call by EMR.       *)
CallInv(c) ==
  /\ server[c] # None <=> call_pc[c] \in {"working", "submitting"}
  /\ call_pc[c] = "idle" => c \notin computed
  /\ call_pc[c] # "done" => answer[c] = "none"
  /\ call_pc[c] = "working" => TypeOf[c] # BigType
  /\ call_pc[c] = "submitting" => TypeOf[c] = BigType
  /\ answer[c] \in {"own", "hit"} => store[KeyOf[c]] # None
  /\ answer[c] = "own" => TypeOf[c] # BigType
  /\ answer[c] = "emr" => TypeOf[c] = BigType /\ c \in steps

(* A forward has no response before one is kept; its attempts are counted  *)
(* and bound to a server; the success it was told is backed as above.      *)
ForwardInv(f) ==
  /\ pc[f] \in {"idle", "sent", "backoff"} => success_response[f] = "none"
  /\ pc[f] # "idle" => attempt[f] > 0
  /\ attempt[f] > 0 => target[f] \in Servers
  /\ success_response[f] = "success" =>
       /\ f \in PlainForwards => store[TaskOf[f][2]] # None
       /\ f \in BigForwards => Current(f) \in steps

LocalsType ==
  /\ pc \in [Forwards -> {"idle", "sent", "reading", "backoff", "stalled", "done"}]
  /\ attempt \in [Forwards -> 0 .. ATTEMPT_TIMES]
  /\ target \in [Forwards -> {"none", "primary", "backup"}]
  /\ success_response \in
       [Forwards -> {"none", "success", "failed", "cached", "makeup"}]

IInv ==
  /\ SP!IInv
  /\ Connected
  /\ LocalsType
  /\ \A c \in Calls : CallInv(c)
  /\ \A f \in Forwards : ForwardInv(f)

(* What the servers' invariant says of the shape of their variables. *)
LEMMA ServersTypes ==
  ASSUME SP!IInv
  PROVE  /\ IS_REDIS_CONNECTED \in [Servers -> BOOLEAN]
         /\ store \in [Keys -> Calls \cup {None}]
         /\ server \in [Calls -> Servers \cup {None}]
         /\ call_pc \in [Calls -> {"idle", "working", "submitting", "done"}]
         /\ answer \in [Calls ->
              {"none", "own", "hit", "emr", "failed", "http500", "lost"}]
         /\ steps \in SUBSET Calls
BY DEF SP!IInv, SP!TypeOK, SP!PCs, SP!Answers

(* A key in the store stays, and so does a step: nothing expires here. *)
Grows ==
  /\ \A k \in Keys : store[k] # None => store'[k] # None
  /\ steps \subseteq steps'

(* A call keeps its part through the steps of others, and so does a        *)
(* forward.                                                                *)
LEMMA QuietCall ==
  ASSUME NEW c \in Calls, CallInv(c), Grows,
         server'[c] = server[c], call_pc'[c] = call_pc[c], answer'[c] = answer[c],
         c \in computed' => c \in computed
  PROVE  CallInv(c)'
BY CallFacts DEF CallInv, Grows

LEMMA QuietForward ==
  ASSUME NEW f \in Forwards, ForwardInv(f), Grows,
         pc'[f] = pc[f], attempt'[f] = attempt[f], target'[f] = target[f],
         success_response'[f] = success_response[f]
  PROVE  ForwardInv(f)'
<1>1. TaskOf[f][2] \in Keys
  BY DEF Keys, Tasks
<1> QED BY <1>1 DEF ForwardInv, Grows, Current

LEMMA IInvInit == Init => IInv
<1> SUFFICES ASSUME Init PROVE IInv
  OBVIOUS
<1>1. SP!IInv
  BY ServersInit
<1>2. Connected
  BY DEF Init, Connected
<1>3. LocalsType
  <2>1. 0 \in 0 .. ATTEMPT_TIMES
    BY EndToEndAssumption
  <2> QED BY <2>1 DEF Init, G!Init, LocalsType
<1>4. \A c \in Calls : CallInv(c)
  BY DEF Init, S!Init, CallInv
<1>5. \A f \in Forwards : ForwardInv(f)
  BY DEF Init, G!Init, ForwardInv
<1> QED BY <1>1, <1>2, <1>3, <1>4, <1>5 DEF IInv

-----------------------------------------------------------------------------
(* Steps of the servers *)

(* What the servers do leaves every forward its part. *)
LEMMA ForwardsKeep ==
  ASSUME IInv, Grows, UNCHANGED gateway
  PROVE  LocalsType' /\ \A f \in Forwards : ForwardInv(f)'
<1>1. UNCHANGED <<pc, attempt, target, success_response>>
  BY DEF gateway
<1> QED BY <1>1, QuietForward DEF IInv, LocalsType

(* With Redis found, a call either meets its key, misses it or fails.      *)
LEMMA ReceiveFacts ==
  ASSUME IInv, NEW s \in Servers, NEW c \in Calls, S!Receive(s, c)
  PROVE  /\ call_pc[c] = "idle"
         /\ UNCHANGED <<IS_REDIS_CONNECTED, store, steps, computed>>
         /\ \A d \in Calls \ {c} :
              /\ server'[d] = server[d]
              /\ call_pc'[d] = call_pc[d]
              /\ answer'[d] = answer[d]
         /\ \/ /\ call_pc'[c] = "done" /\ server'[c] = None
               /\ answer'[c] = "http500" \/ (answer'[c] = "hit" /\ store[KeyOf[c]] # None)
            \/ /\ server'[c] = s /\ answer'[c] = answer[c] /\ store[KeyOf[c]] = None
               /\ call_pc'[c] = IF TypeOf[c] = BigType THEN "submitting" ELSE "working"
<1>1. /\ server \in [Calls -> Servers \cup {None}]
      /\ call_pc \in [Calls -> {"idle", "working", "submitting", "done"}]
      /\ answer \in [Calls ->
           {"none", "own", "hit", "emr", "failed", "http500", "lost"}]
  BY ServersTypes DEF IInv
<1>2. call_pc[c] = "idle" /\ UNCHANGED <<IS_REDIS_CONNECTED, store, steps, computed>>
  BY DEF S!Receive
<1>3. CASE S!ReceiveError(s, c)
  BY <1>1, <1>2, <1>3 DEF S!ReceiveError, S!Respond
<1>4. CASE S!ReceiveHit(s, c)
  BY <1>1, <1>2, <1>4 DEF S!ReceiveHit, S!Respond
<1>5. CASE S!ReceiveMiss(s, c)
  <2>1. store[KeyOf[c]] = None
    BY <1>5 DEF S!ReceiveMiss, S!UsesRedis, IInv, Connected
  <2> QED BY <1>1, <1>2, <1>5, <2>1 DEF S!ReceiveMiss
<1> QED BY <1>3, <1>4, <1>5 DEF S!Receive

(* The end of work: a success of one's own is in the store. *)
LEMMA FinishFacts ==
  ASSUME IInv, NEW c \in Calls, S!Finish(c)
  PROVE  /\ call_pc[c] = "working" /\ call_pc'[c] = "done" /\ server'[c] = None
         /\ \/ answer'[c] = "failed"
            \/ answer'[c] = "own" /\ store'[KeyOf[c]] # None
            \/ answer'[c] = "http500" /\ c \in computed'
         /\ computed' \in {computed, computed \cup {c}}
         /\ \/ store' = store
            \/ store[KeyOf[c]] = None /\ store' = [store EXCEPT ![KeyOf[c]] = c]
         /\ UNCHANGED <<IS_REDIS_CONNECTED, steps>>
         /\ \A d \in Calls \ {c} :
              /\ server'[d] = server[d]
              /\ call_pc'[d] = call_pc[d]
              /\ answer'[d] = answer[d]
<1>1. /\ server \in [Calls -> Servers \cup {None}]
      /\ call_pc \in [Calls -> {"idle", "working", "submitting", "done"}]
      /\ answer \in [Calls ->
           {"none", "own", "hit", "emr", "failed", "http500", "lost"}]
      /\ store \in [Keys -> Calls \cup {None}]
  BY ServersTypes DEF IInv
<1>2. /\ call_pc[c] = "working" /\ UNCHANGED <<IS_REDIS_CONNECTED, steps>>
      /\ KeyOf[c] \in Keys /\ None \notin Calls
  BY CallFacts, EndToEndAssumption DEF S!Finish, Calls
<1>3. S!UsesRedis(server[c])
  <2>1. server[c] \in Servers
    BY <1>1, <1>2 DEF IInv, CallInv
  <2> QED BY <2>1 DEF S!UsesRedis, IInv, Connected
<1>4. ASSUME S!SetNX(KeyOf[c], c)
      PROVE  /\ store'[KeyOf[c]] # None
             /\ \/ store' = store
                \/ store[KeyOf[c]] = None /\ store' = [store EXCEPT ![KeyOf[c]] = c]
  BY <1>1, <1>2, <1>4 DEF S!SetNX
<1>5. CASE S!FinishFailed(c)
  BY <1>1, <1>2, <1>5 DEF S!FinishFailed, S!Respond
<1>6. CASE S!FinishPublish(c)
  BY <1>1, <1>2, <1>4, <1>6 DEF S!FinishPublish, S!Respond
<1>7. CASE S!FinishUnpublished(c)
  BY <1>3, <1>7 DEF S!FinishUnpublished
<1>8. CASE S!FinishError(c)
  BY <1>1, <1>2, <1>4, <1>8 DEF S!FinishError, S!Respond
<1> QED BY <1>5, <1>6, <1>7, <1>8 DEF S!Finish

(* EMR takes a step in, and its end comes back or not. *)
LEMMA SubmitFacts ==
  ASSUME IInv, NEW c \in Calls, S!AddStep(c) \/ S!Submit(c)
  PROVE  /\ call_pc[c] = "submitting"
         /\ UNCHANGED <<IS_REDIS_CONNECTED, store, computed>> /\ steps \subseteq steps'
         /\ \A d \in Calls \ {c} :
              /\ server'[d] = server[d]
              /\ call_pc'[d] = call_pc[d]
              /\ answer'[d] = answer[d]
         /\ \/ UNCHANGED <<server, call_pc, answer>>
            \/ /\ call_pc'[c] = "done" /\ server'[c] = None
               /\ answer'[c] \in {"failed", "http500"} \/ (answer'[c] = "emr" /\ c \in steps)
<1>1. /\ server \in [Calls -> Servers \cup {None}]
      /\ call_pc \in [Calls -> {"idle", "working", "submitting", "done"}]
      /\ answer \in [Calls ->
           {"none", "own", "hit", "emr", "failed", "http500", "lost"}]
  BY ServersTypes DEF IInv
<1>2. CASE S!AddStep(c)
  BY <1>2 DEF S!AddStep, S!calls, S!history
<1>3. CASE S!Submit(c)
  BY <1>1, <1>3 DEF S!Submit, S!Respond, S!history
<1> QED BY <1>2, <1>3

LEMMA CallArrivesKeeps ==
  ASSUME IInv, NEW f \in Forwards, NEW n \in 1 .. ATTEMPT_TIMES, CallArrives(f, n)
  PROVE  Connected' /\ Grows /\ \A c \in Calls : CallInv(c)'
<1> DEFINE s == target[f]
           c == <<f, n>>
<1>1. s \in Servers /\ c \in Calls /\ S!Receive(s, c)
  <2>1. attempt[f] > 0
    BY DEF CallArrives, IInv, LocalsType
  <2> QED BY <2>1, CallFacts DEF CallArrives, IInv, ForwardInv
<1> HIDE DEF s, c
<1>2. s # None
  BY <1>1, EndToEndAssumption DEF Servers
<1>3. Connected' /\ Grows
  BY <1>1, ReceiveFacts DEF IInv, Connected, Grows
<1>4. ASSUME NEW d \in Calls, d # c PROVE CallInv(d)'
  BY <1>1, <1>3, <1>4, ReceiveFacts, QuietCall DEF IInv
<1>5. CallInv(c)'
  BY <1>1, <1>2, ReceiveFacts DEF IInv, CallInv
<1> QED BY <1>3, <1>4, <1>5

LEMMA ServerStepKeeps ==
  ASSUME IInv, NEW c \in Calls, ServerStep(c)
  PROVE  Connected' /\ Grows /\ \A d \in Calls : CallInv(d)'
<1>0. KeyOf[c] \in Keys /\ None \notin Calls /\ store \in [Keys -> Calls \cup {None}]
  BY CallFacts, EndToEndAssumption, ServersTypes DEF Calls, IInv
<1>1. CASE S!Finish(c)
  <2>1. Connected' /\ Grows
    BY <1>0, <1>1, FinishFacts DEF IInv, Connected, Grows
  <2>2. ASSUME NEW d \in Calls, d # c PROVE CallInv(d)'
    BY <1>1, <2>1, <2>2, FinishFacts, QuietCall DEF IInv
  <2>3. CallInv(c)'
    BY <1>1, FinishFacts DEF IInv, CallInv
  <2> QED BY <2>1, <2>2, <2>3
<1>2. CASE S!AddStep(c) \/ S!Submit(c)
  <2>1. Connected' /\ Grows
    BY <1>2, SubmitFacts DEF IInv, Connected, Grows
  <2>2. ASSUME NEW d \in Calls, d # c PROVE CallInv(d)'
    BY <1>2, <2>1, <2>2, SubmitFacts, QuietCall DEF IInv
  <2>3. CallInv(c)'
    <3>1. CASE UNCHANGED <<server, call_pc, answer>>
      BY <1>2, <2>1, <3>1, SubmitFacts, QuietCall DEF IInv
    <3>2. CASE ~UNCHANGED <<server, call_pc, answer>>
      BY <1>2, <2>1, <3>2, SubmitFacts DEF IInv, CallInv, Grows
    <3> QED BY <3>1, <3>2
  <2> QED BY <2>1, <2>2, <2>3
<1> QED BY <1>1, <1>2 DEF ServerStep

LEMMA ServerRestartsKeeps ==
  ASSUME IInv, NEW s \in Servers, ServerRestarts(s)
  PROVE  Connected' /\ Grows /\ \A d \in Calls : CallInv(d)'
<1>1. IS_REDIS_CONNECTED \in [Servers -> BOOLEAN] /\ s # None
  BY ServersTypes, EndToEndAssumption DEF IInv, Servers
<1>2. /\ redis_up /\ UNCHANGED <<store, steps, computed>>
      /\ IS_REDIS_CONNECTED' = [IS_REDIS_CONNECTED EXCEPT ![s] = redis_up]
      /\ \A d \in Calls :
           IF server[d] = s
             THEN call_pc'[d] = "done" /\ answer'[d] = "lost" /\ server'[d] = None
             ELSE /\ call_pc'[d] = call_pc[d]
                  /\ answer'[d] = answer[d]
                  /\ server'[d] = server[d]
  BY DEF ServerRestarts, S!Restart, S!history
<1>3. Connected' /\ Grows
  BY <1>1, <1>2 DEF IInv, Connected, Grows
<1>4. ASSUME NEW d \in Calls, server[d] # s PROVE CallInv(d)'
  BY <1>2, <1>3, <1>4, QuietCall DEF IInv
<1>5. ASSUME NEW d \in Calls, server[d] = s PROVE CallInv(d)'
  BY <1>1, <1>2, <1>5 DEF IInv, CallInv
<1> QED BY <1>3, <1>4, <1>5

-----------------------------------------------------------------------------
(* Steps of the gateway *)

(* What it keeps or returns to forward f, the others being left alone. *)
LEMMA GatewayFacts ==
  ASSUME IInv, NEW f \in Forwards,
         ForwardArrives(f) \/ GatewayStep(f) \/ GatewayHears(f)
  PROVE  /\ LocalsType'
         /\ \A g \in Forwards \ {f} :
              /\ pc'[g] = pc[g]
              /\ attempt'[g] = attempt[g]
              /\ target'[g] = target[g]
              /\ success_response'[g] = success_response[g]
         /\ \/ (* bound to a server, or the next attempt *)
               /\ pc[f] \in {"idle", "backoff"} /\ pc'[f] = "sent"
               /\ attempt'[f] > 0
               /\ target'[f] = target[f] \/ target'[f] \in Servers
               /\ pc[f] = "idle" => target'[f] \in Servers
               /\ success_response' = success_response
            \/ (* given up, returned or woken up *)
               /\ \/ pc[f] = "sent" /\ pc'[f] = "backoff"
                  \/ pc[f] \in {"reading", "stalled"} /\ pc'[f] \in {"stalled", "done"}
               /\ UNCHANGED <<attempt, target, success_response>>
            \/ (* attempts exhausted *)
               /\ pc[f] = "backoff" /\ pc'[f] \in {"stalled", "done"}
               /\ UNCHANGED <<attempt, target>>
               /\ success_response'[f] \in {"cached", "makeup"}
            \/ (* the answer of the server is heard *)
               /\ pc[f] = "sent" /\ pc'[f] = "reading"
               /\ UNCHANGED <<attempt, target>>
               /\ answer[Current(f)] \in {"own", "hit", "emr", "failed"}
               /\ success_response'[f] = StatusOf(answer[Current(f)])
<1>0. LocalsType /\ ATTEMPT_TIMES \in Nat \ {0}
  BY EndToEndAssumption DEF IInv
<1>1. CASE ForwardArrives(f)
  <2>1. G!Forward(f) /\ G!TargetUrl \in Servers
    BY <1>1 DEF ForwardArrives, G!TargetUrl, Servers
  <2> QED BY <1>0, <2>1 DEF G!Forward, LocalsType, Servers
<1>2. CASE G!Fail(f)
  BY <1>0, <1>2 DEF G!Fail, LocalsType
<1>3. CASE G!Succeed(f)
  BY <1>0, <1>3 DEF G!Succeed, G!Return, LocalsType
<1>4. CASE G!Retry(f)
  BY <1>0, <1>4 DEF G!Retry, LocalsType
<1>5. CASE G!Fallback(f)
  BY <1>0, <1>5 DEF G!Fallback, G!Return, G!CacheLookup, LocalsType
<1>6. CASE G!Wake(f)
  BY <1>0, <1>6 DEF G!Wake, LocalsType
<1>7. CASE GatewayHears(f)
  BY <1>0, <1>7 DEF GatewayHears, G!Reply, G!Replies, LocalsType
<1> QED BY <1>1, <1>2, <1>3, <1>4, <1>5, <1>6, <1>7 DEF GatewayStep

(* Behind a success that is heard lies the store or EMR. *)
LEMMA HeardIsBacked ==
  ASSUME IInv, NEW f \in Forwards, pc[f] = "sent",
         answer[Current(f)] \in {"own", "hit", "emr"}
  PROVE  /\ f \in PlainForwards => store[TaskOf[f][2]] # None
         /\ f \in BigForwards => Current(f) \in steps
<1> DEFINE c == Current(f)
<1>1. c \in Calls /\ KeyOf[c] = TaskOf[f][2] /\ TypeOf[c] = TaskOf[f][1]
  <2>1. attempt[f] \in 1 .. ATTEMPT_TIMES
    BY EndToEndAssumption DEF IInv, LocalsType, ForwardInv
  <2> QED BY <2>1, CallFacts DEF Current
<1> HIDE DEF c
<1>2. CallInv(c) /\ answer[c] \in {"own", "hit", "emr"}
  BY <1>1 DEF IInv, c
<1>3. f \in BigForwards <=> TypeOf[c] = BigType
  BY <1>1, CallFacts
<1>4. CASE f \in PlainForwards
  BY <1>1, <1>2, <1>3, <1>4 DEF CallInv, PlainForwards
<1>5. CASE f \in BigForwards
  <2>1. ASSUME answer[c] = "hit" PROVE FALSE
    <3>1. store[KeyOf[c]] # None /\ KeyOf[c] \in Keys
      BY <1>1, <1>2, <2>1, CallFacts DEF CallInv
    <3>2. store[KeyOf[c]] \in Calls
      BY <3>1, ServersTypes DEF IInv
    <3>3. KeyOf[store[KeyOf[c]]] = KeyOf[c] /\ TypeOf[store[KeyOf[c]]] # BigType
      BY <3>1 DEF IInv, SP!IInv, SP!StoreIsComputed
    <3> QED BY <1>1, <1>3, <1>5, <3>2, <3>3, BigKeys
  <2> QED BY <1>2, <1>3, <1>5, <2>1 DEF CallInv, PlainForwards, c
<1> QED BY <1>4, <1>5 DEF PlainForwards

LEMMA GatewayKeeps ==
  ASSUME IInv, NEW f \in Forwards,
         ForwardArrives(f) \/ GatewayStep(f) \/ GatewayHears(f)
  PROVE  /\ Connected' /\ LocalsType'
         /\ \A c \in Calls : CallInv(c)'
         /\ \A g \in Forwards : ForwardInv(g)'
<1>1. UNCHANGED servers
  BY DEF ForwardArrives, GatewayStep, GatewayHears
<1>2. Connected' /\ Grows
  BY <1>1 DEF servers, IInv, Connected, Grows
<1>3. \A c \in Calls : CallInv(c)'
  BY <1>1, <1>2, QuietCall DEF servers, IInv
<1>4. LocalsType'
  BY GatewayFacts
<1>5. ASSUME NEW g \in Forwards, g # f PROVE ForwardInv(g)'
  BY <1>2, <1>5, GatewayFacts, QuietForward DEF IInv
<1>6. ForwardInv(f)'
  <2>1. ForwardInv(f) /\ UNCHANGED <<store, steps>>
    BY <1>1 DEF IInv, servers
  <2>2. CASE success_response'[f] # "success"
    BY <2>1, <2>2, GatewayFacts DEF ForwardInv
  <2>3. CASE success_response'[f] = "success" /\ pc[f] = "sent" /\ pc'[f] = "reading"
    <3>1. answer[Current(f)] \in {"own", "hit", "emr"} /\ UNCHANGED <<attempt, target>>
      BY <2>1, <2>3, GatewayFacts DEF ForwardInv, StatusOf
    <3> QED BY <2>1, <2>3, <3>1, HeardIsBacked DEF ForwardInv, Current
  <2>4. CASE success_response'[f] = "success" /\ ~(pc[f] = "sent" /\ pc'[f] = "reading")
    BY <2>1, <2>4, GatewayFacts DEF ForwardInv, Current
  <2> QED BY <2>2, <2>3, <2>4
<1> QED BY <1>2, <1>3, <1>4, <1>5, <1>6

LEMMA IInvInductive == IInv /\ [Next]_vars => IInv'
<1> SUFFICES ASSUME IInv, [Next]_vars PROVE IInv'
  OBVIOUS
<1>1. SP!IInv'
  <2>1. \A f \in Forwards : attempt[f] \in Nat /\ (attempt[f] > 0 => target[f] \in Servers)
    BY DEF IInv, LocalsType, ForwardInv
  <2> QED BY <2>1, ServersInductive DEF IInv
<1> DEFINE Rest == /\ Connected' /\ LocalsType'
                   /\ \A c \in Calls : CallInv(c)'
                   /\ \A g \in Forwards : ForwardInv(g)'
<1>2. ASSUME NEW f \in Forwards, ForwardArrives(f) \/ GatewayStep(f) \/ GatewayHears(f)
      PROVE  Rest
  BY <1>2, GatewayKeeps
<1>3. ASSUME NEW f \in Forwards, NEW n \in 1 .. ATTEMPT_TIMES, CallArrives(f, n)
      PROVE  Rest
  <2>1. UNCHANGED gateway
    BY <1>3 DEF CallArrives
  <2> QED BY <1>3, <2>1, CallArrivesKeeps, ForwardsKeep
<1>4. ASSUME NEW c \in Calls, ServerStep(c) PROVE Rest
  <2>1. UNCHANGED gateway
    BY <1>4 DEF ServerStep
  <2> QED BY <1>4, <2>1, ServerStepKeeps, ForwardsKeep
<1>5. ASSUME NEW s \in Servers, ServerRestarts(s) PROVE Rest
  <2>1. UNCHANGED gateway
    BY <1>5 DEF ServerRestarts
  <2> QED BY <1>5, <2>1, ServerRestartsKeeps, ForwardsKeep
<1>6. ASSUME RedisToggles \/ UNCHANGED vars PROVE Rest
  <2>1. /\ UNCHANGED gateway
        /\ UNCHANGED <<IS_REDIS_CONNECTED, store, server, call_pc, answer, steps, computed>>
    BY <1>6 DEF RedisToggles, S!RedisToggle, S!calls, S!history, vars, servers
  <2>2. Connected' /\ Grows
    BY <2>1 DEF IInv, Connected, Grows
  <2>3. \A c \in Calls : CallInv(c)'
    BY <2>1, <2>2, QuietCall DEF IInv
  <2> QED BY <2>1, <2>2, <2>3, ForwardsKeep
<1>7. Rest
  <2> HIDE DEF Rest
  <2>1. ASSUME Next PROVE Rest
    BY <1>2, <1>3, <1>4, <1>5, <1>6, <2>1 DEF Next
  <2> QED BY <1>6, <2>1
<1> QED BY <1>1, <1>7 DEF IInv

(* Who is told that a Big Data task was submitted has a step at EMR, of    *)
(* this very attempt (gateway.py:252, server.py:293-309).                  *)
THEOREM SubmissionsAreReal == Spec => []StepBehindSuccess
<1>1. IInv => StepBehindSuccess
  BY DEF IInv, ForwardInv, StepBehindSuccess, BigForwards
<1> QED BY <1>1, IInvInit, IInvInductive, PTL DEF Spec

-----------------------------------------------------------------------------
(* What is proved of each part by itself holds of it here *)

(* Whatever the gateway sends them, the servers behave as TaskServers says *)
(* (server.py:277-323 under gateway.py:246).                               *)
THEOREM ServersRun == Spec => SP!Spec
<1>1. IInv /\ [Next]_vars => [SP!Next]_(SP!vars)
  <2> SUFFICES ASSUME IInv, [Next]_vars PROVE [SP!Next]_(SP!vars)
    OBVIOUS
  <2>1. \A f \in Forwards : attempt[f] \in Nat /\ (attempt[f] > 0 => target[f] \in Servers)
    BY DEF IInv, LocalsType, ForwardInv
  <2> QED BY <2>1, ServersMove
<1> QED BY <1>1, ServersBegin, IInvInit, IInvInductive, PTL DEF Spec, SP!Spec

(* So, with the retries, the switch to the backup and the attempts the     *)
(* gateway has given up: answers from the store agree, each is a success   *)
(* of the same task_id, a published success is not forgotten, and no       *)
(* server that uses Redis executes the task after it (server.py:277-323).  *)
THEOREM ServersAtTheGateway ==
  Spec => /\ [](SP!HitsAgree /\ SP!SuccessIsRemembered /\ SP!HitIsASuccess)
          /\ SP!NoLaterExecution
<1>1. SP!Spec => []SP!HitsAgree
  BY ServersAssumed, SP!HitsAlwaysAgree
<1>2. SP!Spec => []SP!SuccessIsRemembered
  BY ServersAssumed, SP!SuccessStays
<1>3. SP!Spec => []SP!HitIsASuccess
  BY ServersAssumed, SP!HitsAreSuccesses
<1>4. SP!Spec => SP!NoLaterExecution
  BY ServersAssumed, SP!NeverExecutedLater
<1> QED BY <1>1, <1>2, <1>3, <1>4, ServersRun, PTL

(* The gateway waits for a call as long as a server works for it. *)
GatewayWaits ==
  \A f \in Forwards, n \in 1 .. ATTEMPT_TIMES :
    call_pc[<<f, n>>] = "working" => pc[f] = "sent" /\ n = attempt[f]

(* The next transmission of a task comes when no other one is waiting. *)
OneByOne ==
  \A f, g \in Forwards :
    TaskOf[f][2] = TaskOf[g][2] /\ pc[f] = "sent" /\ pc[g] = "sent" => f = g

(* With patience on both hops README.md:19 holds: no task is answered with *)
(* two published successes before its key is lost, whichever servers its   *)
(* attempts reach.  What breaks it is work that goes on when gateway or    *)
(* client have given up, and requests that share an identifier             *)
(* (gateway.py:245-269, client.py:188-199).                                *)
THEOREM PatienceExecutesOnce ==
  Spec /\ []GatewayWaits /\ []OneByOne => []SP!NoDuplicateExecution
<1>1. GatewayWaits /\ OneByOne => SP!OneAtATime
  <2> SUFFICES ASSUME GatewayWaits, OneByOne, NEW c \in Calls, NEW d \in Calls,
                      KeyOf[c] = KeyOf[d], call_pc[c] = "working", call_pc[d] = "working"
               PROVE  c = d
    BY DEF SP!OneAtATime
  <2>1. PICK f \in Forwards, n \in 1 .. ATTEMPT_TIMES : c = <<f, n>>
    BY DEF Calls
  <2>2. PICK g \in Forwards, m \in 1 .. ATTEMPT_TIMES : d = <<g, m>>
    BY DEF Calls
  <2>3. /\ pc[f] = "sent" /\ n = attempt[f] /\ pc[g] = "sent" /\ m = attempt[g]
        /\ TaskOf[f][2] = TaskOf[g][2]
    BY <2>1, <2>2, CallFacts DEF GatewayWaits
  <2> QED BY <2>1, <2>2, <2>3 DEF OneByOne
<1>2. SP!Spec /\ []SP!OneAtATime => []SP!NoDuplicateExecution
  BY ServersAssumed, SP!OnlyOverlapDuplicates
<1> QED BY <1>1, <1>2, ServersRun, PTL

(* The gateway's steps are those of Gateway, a reply being the answer of a *)
(* server.                                                                 *)
LEMMA GatewayAssumed == GP!GatewayAssumption
<1>1. TaskOf \in [Forwards -> Tasks]
  BY EndToEndAssumption DEF Tasks
<1>2. {TaskOf[f] : f \in BigForwards} \subseteq Tasks
  BY DEF Tasks, BigForwards
<1> QED BY <1>1, <1>2, EndToEndAssumption DEF GP!GatewayAssumption

LEMMA SameGateway ==
  /\ G!Init => GP!Init
  /\ \A f \in Forwards :
       /\ G!Forward(f) => GP!Step(f)
       /\ G!Reply(f) => GP!Step(f)
       /\ G!Fail(f) => GP!Step(f)
       /\ G!Succeed(f) => GP!Step(f)
       /\ G!Retry(f) => GP!Step(f)
       /\ G!Fallback(f) => GP!Step(f)
       /\ G!Wake(f) => GP!Step(f)
<1>1. G!Init => GP!Init
  BY DEF G!Init, GP!Init
<1> SUFFICES ASSUME NEW f \in Forwards
             PROVE  /\ G!Forward(f) => GP!Step(f)
                    /\ G!Reply(f) => GP!Step(f)
                    /\ G!Fail(f) => GP!Step(f)
                    /\ G!Succeed(f) => GP!Step(f)
                    /\ G!Retry(f) => GP!Step(f)
                    /\ G!Fallback(f) => GP!Step(f)
                    /\ G!Wake(f) => GP!Step(f)
  BY <1>1
<1>2. \A ok \in BOOLEAN : G!UpdateCircuitState(ok) <=> GP!UpdateCircuitState(ok)
  <2>1. \A w : G!Trips(w) <=> GP!Trips(w)
    BY DEF G!Trips, GP!Trips, G!Failures, GP!Failures, G!Cardinality, GP!Cardinality
  <2>2. \A w, ok : G!Push(w, ok) = GP!Push(w, ok)
    BY DEF G!Push, GP!Push
  <2> QED BY <2>1, <2>2
    DEF G!UpdateCircuitState, GP!UpdateCircuitState, G!breaker, GP!breaker
<1>3. G!Return(f) <=> GP!Return(f)
  BY DEF G!Return, GP!Return
<1>4. G!Forward(f) => GP!Forward(f)
  BY DEF G!Forward, GP!Forward, G!TargetUrl, GP!TargetUrl, G!breaker, GP!breaker
<1>5. G!Reply(f) => GP!Reply(f)
  BY DEF G!Reply, GP!Reply, G!Replies, GP!Replies, G!breaker, GP!breaker
<1>6. G!Fail(f) => GP!Fail(f)
  BY <1>2 DEF G!Fail, GP!Fail
<1>7. G!Succeed(f) => GP!Succeed(f)
  BY <1>2, <1>3 DEF G!Succeed, GP!Succeed
<1>8. G!Retry(f) => GP!Retry(f)
  BY DEF G!Retry, GP!Retry, G!breaker, GP!breaker
<1>9. G!Fallback(f) => GP!Fallback(f)
  BY <1>3
  DEF G!Fallback, GP!Fallback, G!CacheLookup, GP!CacheLookup, G!breaker, GP!breaker
<1>10. G!Wake(f) => GP!Wake(f)
  BY DEF G!Wake, GP!Wake, G!breaker, GP!breaker
<1> QED BY <1>4, <1>5, <1>6, <1>7, <1>8, <1>9, <1>10 DEF GP!Step

(* Joined to the servers, the gateway goes on behaving as Gateway says     *)
(* (gateway.py:213-289 over server.py:277-323).                            *)
THEOREM GatewayRuns == Spec => GP!Spec
<1>1. Init => GP!Init
  BY SameGateway DEF Init
<1>2. [Next]_vars => [GP!Next]_(GP!vars)
  <2> SUFFICES ASSUME [Next]_vars PROVE [GP!Next]_(GP!vars)
    OBVIOUS
  <2>1. ASSUME UNCHANGED gateway PROVE UNCHANGED GP!vars
    BY <2>1 DEF gateway, GP!vars, GP!breaker, GP!locals
  <2>2. ASSUME NEW f \in Forwards,
               ForwardArrives(f) \/ GatewayStep(f) \/ GatewayHears(f)
        PROVE  GP!Step(f)
    BY <2>2, SameGateway DEF ForwardArrives, GatewayStep, GatewayHears
  <2>3. CASE UNCHANGED vars
    BY <2>1, <2>3 DEF vars
  <2>4. ASSUME NEW f \in Forwards, NEW n \in 1 .. ATTEMPT_TIMES, CallArrives(f, n)
        PROVE  UNCHANGED gateway
    BY <2>4 DEF CallArrives
  <2>5. ASSUME NEW c \in Calls, ServerStep(c) PROVE UNCHANGED gateway
    BY <2>5 DEF ServerStep
  <2>6. ASSUME NEW s \in Servers, ServerRestarts(s) PROVE UNCHANGED gateway
    BY <2>6 DEF ServerRestarts
  <2>7. CASE RedisToggles
    BY <2>1, <2>7 DEF RedisToggles
  <2> QED BY <2>1, <2>2, <2>3, <2>4, <2>5, <2>6, <2>7 DEF Next, GP!Next
<1> QED BY <1>1, <1>2, PTL DEF Spec, GP!Spec

(* So, with answers that may be those of a server that died or of a retry: *)
(* the breaker is the sliding window over the outcomes of the primary, an  *)
(* open one drains the primary, and every forward runs down to a response  *)
(* (gateway.py:213-289).                                                   *)
THEOREM GatewayAtTheServers ==
  Spec => /\ GP!SlidingWindow /\ GP!CountsPrimaryOnly
          /\ GP!PrimaryDrains /\ GP!ForwardRunsDown
<1>1. GP!Spec => GP!SlidingWindow
  BY GatewayAssumed, GP!WindowRefinement
<1>2. GP!Spec => GP!CountsPrimaryOnly
  BY GatewayAssumed, GP!PrimaryOnly
<1>3. GP!Spec => GP!PrimaryDrains
  BY GatewayAssumed, GP!PrimaryIsDrained
<1>4. GP!Spec => GP!ForwardRunsDown
  BY GatewayAssumed, GP!RunsDown
<1> QED BY <1>1, <1>2, <1>3, <1>4, GatewayRuns, PTL

-----------------------------------------------------------------------------
(* The refinement of TaskService *)

told == [f \in PlainForwards |-> success_response[f]]

(* What is begun and remembered is read off the calls and the store. *)
LEMMA SameBegun ==
  ASSUME NEW c \in PlainCalls,
         call_pc'[c] = call_pc[c], answer'[c] = answer[c],
         c \in computed' <=> c \in computed
  PROVE  c \in Begun' <=> c \in Begun
BY DEF Begun

LEMMA SameRemembered ==
  UNCHANGED store => Remembered' = Remembered
BY DEF Remembered

LEMMA SameTold == UNCHANGED gateway => told' = told
BY DEF gateway, told

LEMMA InitMaps == Init => TS!Init
<1> SUFFICES ASSUME Init PROVE TS!Init
  OBVIOUS
<1>1. PlainCalls \subseteq Calls
  BY DEF PlainCalls, PlainForwards, Calls
<1>2. Begun = {}
  BY <1>1 DEF Init, S!Init, Begun
<1>3. Remembered = {}
  BY <1>1, CallFacts DEF Init, S!Init, Remembered, PlainKeys
<1>4. told = [f \in PlainForwards |-> "none"]
  BY DEF Init, G!Init, told, PlainForwards
<1> QED BY <1>2, <1>3, <1>4 DEF TS!Init, told

(* A step of the gateway tells one forward at most. *)
LEMMA GatewayMaps ==
  ASSUME IInv, NEW f \in Forwards,
         ForwardArrives(f) \/ GatewayStep(f) \/ GatewayHears(f)
  PROVE  [TS!Next]_(TS!vars)
<1>1. Begun' = Begun /\ Remembered' = Remembered
  <2>1. UNCHANGED servers
    BY DEF ForwardArrives, GatewayStep, GatewayHears
  <2> QED BY <2>1 DEF servers, Begun, Remembered
<1>2. /\ \A g \in PlainForwards \ {f} : told'[g] = told[g]
      /\ told \in [PlainForwards -> {"none", "success", "failed", "cached", "makeup"}]
      /\ told' \in [PlainForwards -> {"none", "success", "failed", "cached", "makeup"}]
  BY GatewayFacts DEF told, PlainForwards, IInv, LocalsType
<1>3. CASE told' = told
  BY <1>1, <1>3 DEF TS!vars, told
<1>4. CASE told' # told
  <2>1. f \in PlainForwards /\ told'[f] # told[f]
    BY <1>2, <1>4
  <2>2. told[f] = success_response[f] /\ told'[f] = success_response'[f]
    BY <2>1 DEF told
  <2>3. told[f] = "none"
    BY <2>1, <2>2, GatewayFacts DEF IInv, ForwardInv
  <2>4. told'[f] = "success" => AskKey[f] \in Remembered
    <3> SUFFICES ASSUME told'[f] = "success" PROVE AskKey[f] \in Remembered
      OBVIOUS
    <3>1. pc[f] = "sent" /\ answer[Current(f)] \in {"own", "hit", "emr"}
      BY <2>1, <2>2, GatewayFacts DEF StatusOf
    <3>2. store[TaskOf[f][2]] # None
      BY <2>1, <3>1, HeardIsBacked
    <3>3. TaskOf[f][2] \in PlainKeys
      <4>1. 1 \in 1 .. ATTEMPT_TIMES
        BY EndToEndAssumption
      <4>2. <<f, 1>> \in PlainCalls /\ KeyOf[<<f, 1>>] = TaskOf[f][2]
        BY <2>1, <4>1, CallFacts DEF PlainCalls
      <4> QED BY <4>2 DEF PlainKeys
    <3> QED BY <2>1, <3>2, <3>3 DEF AskKey, Remembered
  <2>5. told' = [told EXCEPT ![f] = told'[f]]
    BY <1>2, <2>1
  <2>6. TS!Tell(f, told'[f])
    BY <1>1, <2>1, <2>3, <2>4, <2>5 DEF TS!Tell, told
  <2>7. told' # told /\ \E a \in PlainForwards : TS!Tell(a, told'[a])
    BY <1>4, <2>1, <2>6 DEF TS!Tell
  <2> QED BY Zenon, <2>7 DEF TS!Next, told
<1> QED BY <1>3, <1>4

(* An attempt that arrives begins work on a task that is not remembered,   *)
(* or none.                                                                *)
LEMMA ArrivalMaps ==
  ASSUME IInv, NEW f \in Forwards, NEW n \in 1 .. ATTEMPT_TIMES, CallArrives(f, n)
  PROVE  [TS!Next]_(TS!vars)
<1> DEFINE s == target[f]
           c == <<f, n>>
<1>1. s \in Servers /\ c \in Calls /\ S!Receive(s, c)
  <2>1. attempt[f] > 0
    BY DEF CallArrives, IInv, LocalsType
  <2> QED BY <2>1, CallFacts DEF CallArrives, IInv, ForwardInv
<1>2. UNCHANGED gateway
  BY DEF CallArrives
<1> HIDE DEF s, c
<1>3. told' = told /\ Remembered' = Remembered
  BY <1>1, <1>2, SameTold, SameRemembered, ReceiveFacts
<1>4. \A d \in PlainCalls \ {c} : d \in Begun' <=> d \in Begun
  <2>1. PlainCalls \subseteq Calls
    BY DEF PlainCalls, PlainForwards, Calls
  <2> QED BY <1>1, <2>1, ReceiveFacts, SameBegun
<1>5. c \notin Begun
  BY <1>1, ReceiveFacts DEF Begun, IInv, CallInv
<1>6. CASE c \in Begun'
  <2>1. c \in PlainCalls
    BY <1>6 DEF Begun
  <2>2. KeyOf[c] \notin Remembered
    BY <1>1, <1>5, <1>6, ReceiveFacts DEF Begun, Remembered, IInv, CallInv
  <2>3. Begun' = Begun \cup {c}
    BY <1>4, <1>6, <2>1 DEF Begun
  <2>4. TS!Begin(c)
    BY <1>3, <2>1, <2>2, <2>3 DEF TS!Begin, told
  <2> QED BY <1>5, <1>6, <2>4 DEF TS!Next
<1>7. CASE c \notin Begun'
  <2>1. Begun' = Begun
    BY <1>4, <1>5, <1>7 DEF Begun
  <2> QED BY <1>3, <2>1 DEF TS!vars, told
<1> QED BY <1>6, <1>7

(* A step of a server begins nothing; the end of work may be remembered.   *)
LEMMA ServerStepMaps ==
  ASSUME IInv, NEW c \in Calls, ServerStep(c)
  PROVE  [TS!Next]_(TS!vars)
<1>1. told' = told
  BY SameTold DEF ServerStep
<1>2. PlainCalls \subseteq Calls
  BY DEF PlainCalls, PlainForwards, Calls
<1>3. CASE S!Finish(c)
  <2>1. c \in PlainCalls /\ KeyOf[c] \in Keys /\ None \notin Calls
    BY <1>3, FinishFacts, CallFacts, EndToEndAssumption DEF IInv, CallInv, Calls
  <2>2. c \in Begun /\ c \in Begun'
    BY <1>3, <2>1, FinishFacts DEF Begun
  <2>3. \A d \in PlainCalls \ {c} : d \in Begun' <=> d \in Begun
    BY <1>2, <1>3, FinishFacts, SameBegun
  <2>4. Begun' = Begun
    BY <2>2, <2>3 DEF Begun
  <2>5. CASE UNCHANGED store
    BY <1>1, <2>4, <2>5, SameRemembered DEF TS!vars, told
  <2>6. CASE ~UNCHANGED store
    <3>1. store[KeyOf[c]] = None /\ store' = [store EXCEPT ![KeyOf[c]] = c]
      BY <1>3, <2>6, FinishFacts
    <3>2. store \in [Keys -> Calls \cup {None}]
      BY ServersTypes DEF IInv
    <3>3. KeyOf[c] \in PlainKeys /\ PlainKeys \subseteq Keys
      BY <1>2, <2>1, CallFacts DEF PlainKeys
    <3>4. Remembered' = Remembered \cup {KeyOf[c]} /\ KeyOf[c] \notin Remembered
      BY <2>1, <3>1, <3>2, <3>3 DEF Remembered
    <3>5. TS!Remember(KeyOf[c])
      BY <1>1, <2>2, <2>4, <3>3, <3>4 DEF TS!Remember, told
    <3> QED BY <3>4, <3>5 DEF TS!Next
  <2> QED BY <2>5, <2>6
<1>4. CASE S!AddStep(c) \/ S!Submit(c)
  <2>1. c \notin PlainCalls
    BY <1>4, SubmitFacts, CallFacts DEF IInv, CallInv
  <2>2. \A d \in PlainCalls : d \in Begun' <=> d \in Begun
    BY <1>2, <1>4, <2>1, SubmitFacts, SameBegun
  <2>3. Begun' = Begun
    BY <2>2 DEF Begun
  <2>4. Remembered' = Remembered
    BY <1>4, SubmitFacts, SameRemembered
  <2> QED BY <1>1, <2>3, <2>4 DEF TS!vars, told
<1> QED BY <1>3, <1>4 DEF ServerStep

(* What a server had begun when it died stays begun. *)
LEMMA RestartMaps ==
  ASSUME IInv, NEW s \in Servers, ServerRestarts(s)
  PROVE  UNCHANGED TS!vars
<1>1. told' = told
  BY SameTold DEF ServerRestarts
<1>2. PlainCalls \subseteq Calls /\ s # None
  BY EndToEndAssumption DEF PlainCalls, PlainForwards, Calls, Servers
<1>3. /\ UNCHANGED <<store, computed>>
      /\ \A d \in Calls :
           IF server[d] = s
             THEN call_pc'[d] = "done" /\ answer'[d] = "lost"
             ELSE call_pc'[d] = call_pc[d] /\ answer'[d] = answer[d]
  BY DEF ServerRestarts, S!Restart, S!history
<1>4. ASSUME NEW d \in PlainCalls, server[d] = s PROVE d \in Begun /\ d \in Begun'
  BY <1>2, <1>3, <1>4, CallFacts DEF Begun, IInv, CallInv
<1>5. ASSUME NEW d \in PlainCalls, server[d] # s PROVE d \in Begun' <=> d \in Begun
  BY <1>2, <1>3, <1>5, SameBegun
<1>6. Begun' = Begun
  BY <1>4, <1>5 DEF Begun
<1> QED BY <1>1, <1>3, <1>6, SameRemembered DEF TS!vars, told

LEMMA StepMaps == IInv /\ [Next]_vars => [TS!Next]_(TS!vars)
<1> SUFFICES ASSUME IInv, [Next]_vars PROVE [TS!Next]_(TS!vars)
  OBVIOUS
<1>1. CASE RedisToggles \/ UNCHANGED vars
  <2>1. /\ UNCHANGED gateway
        /\ UNCHANGED <<store, call_pc, answer, computed>>
    BY <1>1 DEF RedisToggles, S!RedisToggle, S!calls, S!history, vars, servers
  <2>2. Begun' = Begun /\ Remembered' = Remembered
    BY <2>1 DEF Begun, Remembered
  <2> QED BY <2>1, <2>2, SameTold DEF TS!vars, told
<1> QED BY <1>1, GatewayMaps, ArrivalMaps, ServerStepMaps, RestartMaps DEF Next

(* Whoever is told of a success is told of a remembered one, and what is   *)
(* remembered is not begun again, through lost attempts, the switch to the *)
(* backup, crashes and outages (gateway.py:239-289, server.py:277-323).    *)
THEOREM ServiceRefinement == Spec => ServiceKeepsItsWord
BY InitMaps, StepMaps, IInvInit, IInvInductive, PTL DEF Spec, ServiceKeepsItsWord, TS!Spec
=============================================================================
