----------------------------- MODULE AlertsProofs -----------------------------
(***************************************************************************)
(* Proofs about Alerts, for every set of servers, tokens and pushes and    *)
(* any outages, refusals and restarts: the type invariant, that only a     *)
(* refusal ends an acknowledged registration, that a push which returns    *)
(* has tried every one it was to reach, that the tokens it was refused are *)
(* gone, and what alone lets the cleanup cut a push short.                 *)
(***************************************************************************)
EXTENDS Alerts, TLAPS

(* Where the server of a push keeps its tokens, and the registrations that *)
(* are acknowledged there.                                                 *)
Store(p) ==
  IF shared[p] THEN redis_tokens ELSE alert_system_token_set[server[p]]
Promised(p) ==
  IF shared[p] THEN acked_redis ELSE acked_local[server[p]]

(* What is due is tried or still to come; what was refused is out of the   *)
(* store but for the one token that is being removed, and that one, just   *)
(* tried, is not promised to anybody.                                      *)
PushInv(p) ==
  /\ pc[p] = "idle" => refused[p] = {}
  /\ pc[p] # "idle" => server[p] \in Servers
  /\ pc[p] \in {"sending", "removing"} => due[p] \subseteq tried[p] \cup current_tokens[p]
  /\ pc[p] = "returned" => due[p] \subseteq tried[p]
  /\ pc[p] = "removing" => token[p] \in tried[p] \ Promised(p)
  /\ pc[p] \in {"sending", "returned"} => refused[p] \cap Store(p) = {}
  /\ pc[p] = "removing" => refused[p] \cap Store(p) \subseteq {token[p]}

IInv == TypeOK /\ RegistrationsLast /\ \A p \in Pushes : PushInv(p)

(* A push that takes no step keeps its part when none of its refused       *)
(* tokens comes back and the one it is removing is not promised anew.      *)
LEMMA QuietPush ==
  ASSUME NEW p \in Pushes, PushInv(p),
         pc'[p] = pc[p], server'[p] = server[p], shared'[p] = shared[p],
         current_tokens'[p] = current_tokens[p], token'[p] = token[p],
         due'[p] = due[p], tried'[p] = tried[p], refused'[p] \subseteq refused[p],
         pc[p] # "idle" =>
           /\ Store(p)' \cap refused'[p] \subseteq Store(p)
           /\ token[p] \in Promised(p)' => pc[p] # "removing" \/ token[p] \in Promised(p)
  PROVE  PushInv(p)'
BY DEF PushInv

LEMMA IInvInit == Init => IInv
<1> SUFFICES ASSUME Init PROVE IInv
  OBVIOUS
<1>1. TypeOK
  BY DEF Init, TypeOK, PCs
<1>2. RegistrationsLast /\ \A p \in Pushes : PushInv(p)
  BY DEF Init, RegistrationsLast, PushInv
<1> QED BY <1>1, <1>2 DEF IInv

-----------------------------------------------------------------------------
(* Each action keeps it *)

LEMMA RegisterKeeps ==
  ASSUME IInv, NEW s \in Servers, NEW t \in Tokens, Register(s, t)
  PROVE  IInv'
<1> USE DEF IInv
<1>1. UNCHANGED <<redis_up, IS_REDIS_CONNECTED, server, shared, pc, current_tokens,
                  token, due, tried>>
  BY DEF Register, pushes
<1>2. CASE UNCHANGED <<redis_tokens, alert_system_token_set, acked_redis, acked_local,
                       refused>>
  <2>1. TypeOK' /\ RegistrationsLast'
    BY <1>1, <1>2 DEF TypeOK, RegistrationsLast
  <2>2. ASSUME NEW p \in Pushes PROVE PushInv(p)'
    BY <1>1, <1>2, QuietPush DEF Store, Promised
  <2> QED BY <2>1, <2>2
<1>3. CASE /\ redis_tokens' = redis_tokens \cup {t} /\ PutBack(t, OverRedis)
           /\ \/ acked_redis' = acked_redis
              \/ /\ acked_redis' = acked_redis \cup {t}
                 /\ ~BeingRemoved(t, OverRedis)
           /\ UNCHANGED <<alert_system_token_set, acked_local>>
  <2>1. TypeOK' /\ RegistrationsLast'
    BY <1>1, <1>3 DEF TypeOK, RegistrationsLast, PutBack
  <2>2. ASSUME NEW p \in Pushes PROVE PushInv(p)'
    <3>1. /\ refused'[p] \subseteq refused[p]
          /\ shared[p] => refused'[p] = refused[p] \ {t}
      BY <1>3 DEF TypeOK, PutBack, OverRedis
    <3>2. shared[p] /\ pc[p] = "removing" /\ token[p] \in acked_redis'
          => token[p] \in acked_redis
      BY <1>3 DEF BeingRemoved, OverRedis
    <3>3. /\ Store(p)' \cap refused'[p] \subseteq Store(p)
          /\ token[p] \in Promised(p)' => pc[p] # "removing" \/ token[p] \in Promised(p)
      BY <1>1, <1>3, <3>1, <3>2 DEF Store, Promised
    <3> QED BY <1>1, <3>1, <3>3, QuietPush
  <2> QED BY <2>1, <2>2
<1>4. CASE RegisterLocal(s, t)
  <2>1. TypeOK' /\ RegistrationsLast'
    BY <1>1, <1>4 DEF TypeOK, RegistrationsLast, RegisterLocal, PutBack
  <2>2. ASSUME NEW p \in Pushes PROVE PushInv(p)'
    <3>1. /\ refused'[p] \subseteq refused[p]
          /\ ~shared[p] /\ server[p] = s => refused'[p] = refused[p] \ {t}
      BY <1>4 DEF TypeOK, RegisterLocal, PutBack, InMemory
    <3>2. ~shared[p] /\ server[p] = s /\ pc[p] = "removing" /\ token[p] \in acked_local'[s]
          => token[p] \in acked_local[s]
      BY <1>4 DEF TypeOK, RegisterLocal, BeingRemoved, InMemory
    <3>3. /\ redis_tokens' = redis_tokens /\ acked_redis' = acked_redis
          /\ alert_system_token_set'[s] = alert_system_token_set[s] \cup {t}
          /\ \A r \in Servers \ {s} :
               /\ alert_system_token_set'[r] = alert_system_token_set[r]
               /\ acked_local'[r] = acked_local[r]
      BY <1>4 DEF TypeOK, RegisterLocal
    <3>4. ASSUME pc[p] # "idle"
          PROVE  /\ Store(p)' \cap refused'[p] \subseteq Store(p)
                 /\ token[p] \in Promised(p)'
                      => pc[p] # "removing" \/ token[p] \in Promised(p)
      <4>1. server[p] \in Servers
        BY <3>4 DEF PushInv
      <4> QED BY <1>1, <3>1, <3>2, <3>3, <4>1 DEF Store, Promised
    <3> QED BY <1>1, <3>1, <3>4, QuietPush
  <2> QED BY <2>1, <2>2
<1> QED BY <1>2, <1>3, <1>4 DEF Register, RegisterShared, RegisterError

LEMMA BeginKeeps ==
  ASSUME IInv, NEW p \in Pushes, NEW s \in Servers, Begin(p, s)
  PROVE  IInv'
<1> USE DEF IInv
<1>1. TypeOK'
  BY DEF TypeOK, PCs, Begin, TokensFor, storage
<1>2. RegistrationsLast'
  BY DEF RegistrationsLast, Begin, storage
<1>3. ASSUME NEW q \in Pushes \ {p} PROVE PushInv(q)'
  <2>1. /\ server'[q] = server[q] /\ shared'[q] = shared[q] /\ pc'[q] = pc[q]
        /\ current_tokens'[q] = current_tokens[q] /\ due'[q] = due[q]
        /\ UNCHANGED <<redis_tokens, alert_system_token_set, token, acked_redis,
                       acked_local, tried, refused>>
    BY <1>3 DEF TypeOK, Begin, storage
  <2> QED BY <1>3, <2>1, QuietPush DEF Store, Promised
<1>4. PushInv(p)'
  <2>1. /\ pc'[p] \in {"raised", "sending", "returned"}
        /\ server'[p] = s /\ shared'[p] = IS_REDIS_CONNECTED[s]
        /\ refused'[p] = {}
    BY DEF TypeOK, Begin, PushInv
  <2>2. due'[p] \subseteq TokensFor(s)
    BY DEF TypeOK, Begin, RegistrationsLast, TokensFor
  <2>3. /\ pc'[p] = "sending" => current_tokens'[p] = TokensFor(s)
        /\ pc'[p] = "returned" => TokensFor(s) = {}
    BY DEF TypeOK, Begin
  <2> QED BY <2>1, <2>2, <2>3 DEF PushInv
<1> QED BY <1>1, <1>2, <1>3, <1>4

(* A refusal ends the promise of its token, and of no other. *)
LEMMA RefusedFacts ==
  ASSUME TypeOK, NEW p \in Pushes, NEW t \in Tokens, Refused(p, t),
         server[p] \in Servers, UNCHANGED <<server, shared>>
  PROVE  /\ refused' \in [Pushes -> SUBSET Tokens]
         /\ refused'[p] = refused[p] \cup {t}
         /\ \A q \in Pushes \ {p} : refused'[q] = refused[q]
         /\ acked_redis' \subseteq acked_redis
         /\ acked_local' \in [Servers -> SUBSET Tokens]
         /\ \A s \in Servers : acked_local'[s] \subseteq acked_local[s]
         /\ t \notin Promised(p)'
BY DEF TypeOK, Refused, Promised

LEMMA SendKeeps ==
  ASSUME IInv, NEW p \in Pushes, Send(p)
  PROVE  IInv'
<1> USE DEF IInv
<1>1. PICK t \in current_tokens[p] :
        /\ tried' = [tried EXCEPT ![p] = @ \cup {t}]
        /\ SendPasses(p, t) \/ SendRefused(p, t)
  BY DEF Send
<1>2. /\ t \in Tokens /\ pc[p] = "sending" /\ server[p] \in Servers
      /\ UNCHANGED <<redis_up, IS_REDIS_CONNECTED, redis_tokens, alert_system_token_set,
                     server, shared, due>>
  BY <1>1 DEF TypeOK, PushInv, Send, storage
<1>3. /\ refused' \in [Pushes -> SUBSET Tokens]
      /\ \A q \in Pushes \ {p} : refused'[q] = refused[q]
      /\ acked_redis' \subseteq acked_redis
      /\ acked_local' \in [Servers -> SUBSET Tokens]
      /\ \A s \in Servers : acked_local'[s] \subseteq acked_local[s]
  <2>1. CASE SendPasses(p, t)
    BY <2>1 DEF SendPasses, TypeOK
  <2>2. CASE SendRefused(p, t)
    BY <1>2, <2>2, RefusedFacts DEF SendRefused
  <2> QED BY <1>1, <2>1, <2>2
<1>4. TypeOK'
  <2>1. /\ pc' \in [Pushes -> PCs]
        /\ current_tokens' \in [Pushes -> SUBSET Tokens]
        /\ token' \in [Pushes -> Tokens \cup {None}]
    <3>1. CASE Continue(p, t)
      BY <3>1 DEF TypeOK, PCs, Continue
    <3>2. CASE /\ token' = [token EXCEPT ![p] = t]
               /\ pc' = [pc EXCEPT ![p] = "removing"]
               /\ UNCHANGED current_tokens
      BY <1>2, <3>2 DEF TypeOK, PCs
    <3> QED BY <1>1, <3>1, <3>2 DEF SendPasses, SendRefused
  <2>2. tried' \in [Pushes -> SUBSET Tokens]
    BY <1>1, <1>2 DEF TypeOK
  <2>3. acked_redis' \in SUBSET Tokens
    BY <1>3 DEF TypeOK
  <2> QED BY <1>2, <1>3, <2>1, <2>2, <2>3 DEF TypeOK
<1>5. RegistrationsLast'
  BY <1>2, <1>3 DEF RegistrationsLast
<1>6. ASSUME NEW q \in Pushes \ {p} PROVE PushInv(q)'
  <2>1. /\ pc'[q] = pc[q] /\ current_tokens'[q] = current_tokens[q]
        /\ token'[q] = token[q] /\ tried'[q] = tried[q]
    BY <1>1, <1>6 DEF TypeOK, SendPasses, SendRefused, Continue
  <2>2. pc[q] # "idle" => server[q] \in Servers
    BY <1>6 DEF PushInv
  <2> QED BY <1>2, <1>3, <1>6, <2>1, <2>2, QuietPush DEF Store, Promised
<1>7. PushInv(p)'
  <2>1. tried'[p] = tried[p] \cup {t} /\ Store(p)' = Store(p)
    BY <1>1, <1>2 DEF TypeOK, Store
  <2>2. CASE SendPasses(p, t)
    <3>1. /\ pc'[p] \in {"sending", "returned"} /\ refused'[p] = refused[p]
          /\ current_tokens'[p] = current_tokens[p] \ {t}
          /\ pc'[p] = "returned" => current_tokens[p] = {t}
      BY <2>2 DEF TypeOK, SendPasses, Continue
    <3> QED BY <1>2, <2>1, <3>1 DEF PushInv
  <2>3. CASE SendRefused(p, t)
    <3>1. refused'[p] = refused[p] \cup {t} /\ t \notin Promised(p)'
      BY <1>2, <2>3, RefusedFacts DEF SendRefused
    <3>2. CASE pc'[p] = "removing" /\ token'[p] = t
                 /\ current_tokens' = current_tokens
      BY <1>2, <2>1, <3>1, <3>2 DEF PushInv
    <3>3. CASE /\ ~shared[p] /\ t \notin alert_system_token_set[server[p]]
               /\ Continue(p, t)
      <4>1. /\ pc'[p] \in {"sending", "returned"} /\ t \notin Store(p)
            /\ current_tokens'[p] = current_tokens[p] \ {t}
            /\ pc'[p] = "returned" => current_tokens[p] = {t}
        BY <3>3 DEF TypeOK, Continue, Store
      <4> QED BY <1>2, <2>1, <3>1, <4>1 DEF PushInv
    <3> QED BY <2>3, <3>2, <3>3 DEF TypeOK, SendRefused
  <2> QED BY <1>1, <2>2, <2>3
<1> QED BY <1>4, <1>5, <1>6, <1>7

LEMMA RemoveKeeps ==
  ASSUME IInv, NEW p \in Pushes, Remove(p)
  PROVE  IInv'
<1> USE DEF IInv
<1>1. /\ pc[p] = "removing" /\ token[p] \in tried[p] \ Promised(p) /\ server[p] \in Servers
      /\ UNCHANGED <<redis_up, IS_REDIS_CONNECTED, server, shared, acked_redis,
                     acked_local, due, tried, refused>>
  BY DEF Remove, PushInv, history
<1>2. /\ redis_tokens' \subseteq redis_tokens
      /\ alert_system_token_set' \in [Servers -> SUBSET Tokens]
      /\ \A s \in Servers : alert_system_token_set'[s] \subseteq alert_system_token_set[s]
      /\ redis_tokens \ redis_tokens' \subseteq IF shared[p] THEN {token[p]} ELSE {}
      /\ \A s \in Servers :
           alert_system_token_set[s] \ alert_system_token_set'[s]
             \subseteq IF ~shared[p] /\ s = server[p] THEN {token[p]} ELSE {}
  BY <1>1 DEF TypeOK, Remove, RemoveShared, RemoveLocal, RemoveError
<1>3. RegistrationsLast'
  BY <1>1, <1>2 DEF RegistrationsLast, Promised
<1>4. \A q \in Pushes : pc[q] # "idle" =>
        Store(q)' \subseteq Store(q) /\ Promised(q)' = Promised(q)
  BY <1>1, <1>2 DEF Store, Promised, PushInv
<1>5. CASE RemoveError(p)
  <2>1. current_tokens' = current_tokens /\ token' = token
    BY <1>5 DEF RemoveError
  <2>2. PICK x \in {"raised", "key_error"} : pc' = [pc EXCEPT ![p] = x]
    BY <1>5 DEF RemoveError
  <2>3. TypeOK'
    BY <1>1, <1>2, <2>1, <2>2 DEF TypeOK, PCs
  <2>4. ASSUME NEW q \in Pushes \ {p} PROVE PushInv(q)'
    BY <1>1, <1>4, <2>1, <2>2, <2>4, QuietPush DEF TypeOK
  <2>5. PushInv(p)'
    BY <1>1, <2>2 DEF TypeOK, PushInv
  <2> QED BY <1>3, <2>3, <2>4, <2>5
<1>6. CASE ~RemoveError(p)
  <2>1. Continue(p, token[p])
    BY <1>6 DEF Remove, RemoveShared, RemoveLocal
  <2>2. Store(p)' = Store(p) \ {token[p]}
    BY <1>1, <1>6 DEF TypeOK, Remove, RemoveShared, RemoveLocal, Store
  <2>3. TypeOK'
    BY <1>1, <1>2, <2>1 DEF TypeOK, PCs, Continue
  <2>4. ASSUME NEW q \in Pushes \ {p} PROVE PushInv(q)'
    <3>1. /\ pc'[q] = pc[q] /\ current_tokens'[q] = current_tokens[q]
          /\ token'[q] = token[q]
      BY <2>1, <2>4 DEF TypeOK, Continue
    <3> QED BY <1>1, <1>4, <2>4, <3>1, QuietPush
  <2>5. PushInv(p)'
    <3>1. /\ pc'[p] \in {"sending", "returned"}
          /\ current_tokens'[p] = current_tokens[p] \ {token[p]}
          /\ pc'[p] = "returned" => current_tokens[p] = {token[p]}
      BY <2>1 DEF TypeOK, Continue
    <3> QED BY <1>1, <2>2, <3>1 DEF PushInv
  <2> QED BY <1>3, <2>3, <2>4, <2>5
<1> QED BY <1>5, <1>6

LEMMA RestartKeeps ==
  ASSUME IInv, NEW s \in Servers, Restart(s)
  PROVE  IInv'
<1> USE DEF IInv
<1>1. TypeOK'
  BY DEF TypeOK, PCs, Restart
<1>2. RegistrationsLast'
  BY DEF TypeOK, RegistrationsLast, Restart
<1>3. ASSUME NEW p \in Pushes PROVE PushInv(p)'
  <2>1. CASE pc'[p] = "lost"
    BY <2>1 DEF PushInv, Restart
  <2>2. CASE pc'[p] # "lost"
    <3>1. /\ pc'[p] = pc[p] /\ current_tokens'[p] = current_tokens[p]
          /\ token'[p] = token[p]
          /\ UNCHANGED <<server, shared, due, tried, refused, redis_tokens, acked_redis>>
      BY <2>2 DEF TypeOK, Restart
    <3>2. \A r \in Servers : /\ alert_system_token_set'[r] \subseteq alert_system_token_set[r]
                             /\ acked_local'[r] \subseteq acked_local[r]
      BY DEF TypeOK, Restart
    <3>3. pc[p] # "idle" => server[p] \in Servers
      BY DEF PushInv
    <3> QED BY <3>1, <3>2, <3>3, QuietPush DEF Store, Promised
  <2> QED BY <2>1, <2>2
<1> QED BY <1>1, <1>2, <1>3

LEMMA IInvInductive == IInv /\ [Next]_vars => IInv'
<1> SUFFICES ASSUME IInv, [Next]_vars PROVE IInv'
  OBVIOUS
<1>1. CASE UNCHANGED vars \/ RedisToggle
  <2>1. /\ redis_up' \in BOOLEAN
        /\ UNCHANGED <<IS_REDIS_CONNECTED, redis_tokens, alert_system_token_set,
                      server, shared, pc, current_tokens, token,
                      acked_redis, acked_local, due, tried, refused>>
    BY <1>1 DEF vars, storage, pushes, history, RedisToggle, IInv, TypeOK
  <2>2. TypeOK' /\ RegistrationsLast'
    BY <2>1 DEF IInv, TypeOK, RegistrationsLast
  <2>3. ASSUME NEW p \in Pushes PROVE PushInv(p)'
    BY <2>1, QuietPush DEF IInv, Store, Promised
  <2> QED BY <2>2, <2>3 DEF IInv
<1> QED BY <1>1, SendKeeps, RemoveKeeps, BeginKeeps, RegisterKeeps, RestartKeeps DEF Next

-----------------------------------------------------------------------------
(* The locals and stores of servers and pushes keep their ranges           *)
(* (server.py:55, 69-124, 348-361).                                        *)
THEOREM TypeCorrect == Spec => []TypeOK
<1>1. IInv => TypeOK
  BY DEF IInv
<1> QED BY <1>1, IInvInit, IInvInductive, PTL DEF Spec

(* Through any overlap of pushes and registrations, outages of Redis and   *)
(* restarts, an acknowledged registration is stored until a send to the    *)
(* very device is refused (server.py:70-119, 348-361).                     *)
THEOREM OnlyRefusalEnds == Spec => []RegistrationsLast
<1>1. IInv => RegistrationsLast
  BY DEF IInv
<1> QED BY <1>1, IInvInit, IInvInductive, PTL DEF Spec

(* A push that returned has tried every device whose registration stood    *)
(* when it began (server.py:70-107).                                       *)
THEOREM NobodySkipped == Spec => []PushReachesAll
<1>1. IInv => PushReachesAll
  BY DEF IInv, PushInv, PushReachesAll
<1> QED BY <1>1, IInvInit, IInvInductive, PTL DEF Spec

(* What a push that returned was refused is out of its server's store for  *)
(* as long as nobody registers it again (server.py:111-119, 348-361).      *)
THEOREM CleanupLasts == Spec => []DeadTokensGo
<1>1. IInv => DeadTokensGo
  BY DEF IInv, PushInv, DeadTokensGo, Store
<1> QED BY <1>1, IInvInit, IInvInductive, PTL DEF Spec

-----------------------------------------------------------------------------
(* The one way in which the cleanup cuts a push short *)

(* Another push at the same server has sent to the token of this one. *)
Another(p) ==
  \E q \in Pushes \ {p} : server[q] = server[p] /\ token[p] \in tried[q]

(* The token a push without Redis is about to remove is in the set, or     *)
(* another push has been at it.                                            *)
CutInv ==
  \A p \in Pushes :
    /\ pc[p] = "idle" => tried[p] = {}
    /\ pc[p] = "removing" /\ ~shared[p] =>
         token[p] \in alert_system_token_set[server[p]] \/ Another(p)
    /\ pc[p] = "key_error" => Another(p)

(* What a push has sent to it has sent to at the same server ever since. *)
LEMMA AnotherStays ==
  ASSUME NEW p \in Pushes, Another(p),
         server'[p] = server[p], token'[p] = token[p],
         \A q \in Pushes : tried[q] # {} => server'[q] = server[q] /\ tried[q] \subseteq tried'[q]
  PROVE  Another(p)'
BY DEF Another

LEMMA CutInvStep ==
  ASSUME IInv, CutInv, [Next]_vars
  PROVE  CutInv'
<1> USE DEF IInv
<1>1. \A q \in Pushes : tried[q] # {} => server'[q] = server[q] /\ tried[q] \subseteq tried'[q]
  <2>1. ASSUME NEW p \in Pushes, NEW s \in Servers, Begin(p, s)
        PROVE  \A q \in Pushes : tried[q] # {} => server'[q] = server[q] /\ tried'[q] = tried[q]
    <3>1. tried[p] = {} /\ tried' = tried
      BY <2>1 DEF Begin, CutInv
    <3> QED BY <2>1, <3>1 DEF TypeOK, Begin
  <2>2. ASSUME NEW p \in Pushes, Send(p)
        PROVE  server' = server /\ \A q \in Pushes : tried[q] \subseteq tried'[q]
    BY <2>2 DEF TypeOK, Send
  <2>3. CASE \/ \E p \in Pushes : Remove(p)
             \/ \E t \in Tokens, s \in Servers : Register(s, t)
             \/ RedisToggle \/ (\E s \in Servers : Restart(s)) \/ UNCHANGED vars
    BY <2>3 DEF Remove, Register, RedisToggle, Restart, vars, pushes, history
  <2> QED BY <2>1, <2>2, <2>3 DEF Next
<1>2. ASSUME NEW p \in Pushes,
             pc'[p] = pc[p], server'[p] = server[p], shared'[p] = shared[p],
             token'[p] = token[p], tried'[p] = tried[p],
             pc[p] = "removing" /\ ~shared[p]
                 /\ token[p] \in alert_system_token_set[server[p]]
               => token[p] \in alert_system_token_set'[server[p]] \/ Another(p)'
      PROVE  /\ pc'[p] = "idle" => tried'[p] = {}
             /\ pc'[p] = "removing" /\ ~shared'[p] =>
                  token'[p] \in alert_system_token_set'[server'[p]] \/ Another(p)'
             /\ pc'[p] = "key_error" => Another(p)'
  BY <1>1, <1>2, AnotherStays DEF CutInv
<1>3. CASE RedisToggle \/ UNCHANGED vars
  BY <1>2, <1>3 DEF RedisToggle, vars, storage, pushes, history, CutInv
<1>4. ASSUME NEW s \in Servers, NEW t \in Tokens, Register(s, t) PROVE CutInv'
  <2>1. \A r \in Servers : alert_system_token_set[r] \subseteq alert_system_token_set'[r]
    BY <1>4 DEF TypeOK, Register, RegisterShared, RegisterLocal, RegisterError
  <2>2. \A p \in Pushes : pc[p] = "removing" => server[p] \in Servers
    BY DEF PushInv
  <2> QED BY <1>2, <1>4, <2>1, <2>2 DEF Register, pushes, CutInv
<1>5. ASSUME NEW p \in Pushes, NEW s \in Servers, Begin(p, s) PROVE CutInv'
  <2>1. pc'[p] \in {"raised", "returned", "sending"}
    BY <1>5 DEF TypeOK, Begin
  <2>2. \A q \in Pushes \ {p} :
          pc'[q] = pc[q] /\ server'[q] = server[q] /\ shared'[q] = shared[q]
    BY <1>5 DEF TypeOK, Begin
  <2> QED BY <1>2, <1>5, <2>1, <2>2 DEF Begin, storage, CutInv
<1>6. ASSUME NEW p \in Pushes, Send(p) PROVE CutInv'
  <2>1. PICK t \in current_tokens[p] : SendPasses(p, t) \/ SendRefused(p, t)
    BY <1>6 DEF Send
  <2>2. UNCHANGED <<server, shared, alert_system_token_set>>
    BY <1>6 DEF Send, storage
  <2>3. \A q \in Pushes \ {p} :
          pc'[q] = pc[q] /\ token'[q] = token[q] /\ tried'[q] = tried[q]
    BY <1>6, <2>1 DEF TypeOK, Send, SendPasses, SendRefused, Continue
  <2>4. \/ pc'[p] \in {"sending", "returned"}
        \/ /\ pc'[p] = "removing" /\ token'[p] = t
           /\ shared[p] \/ t \in alert_system_token_set[server[p]]
    BY <2>1 DEF TypeOK, SendPasses, SendRefused, Continue
  <2> QED BY <1>2, <2>2, <2>3, <2>4 DEF CutInv
<1>7. ASSUME NEW p \in Pushes, Remove(p) PROVE CutInv'
  <2>1. /\ UNCHANGED <<server, shared, tried>> /\ pc[p] = "removing"
        /\ server[p] \in Servers /\ token[p] \in tried[p]
    BY <1>7 DEF Remove, PushInv, history
  <2>2. \A q \in Pushes \ {p} : pc'[q] = pc[q] /\ token'[q] = token[q]
    BY <1>7 DEF TypeOK, Remove, RemoveShared, RemoveLocal, RemoveError, Continue
  <2>3. \A r \in Servers :
          alert_system_token_set[r] \ alert_system_token_set'[r]
            \subseteq IF r = server[p] THEN {token[p]} ELSE {}
    BY <1>7, <2>1 DEF TypeOK, Remove, RemoveShared, RemoveLocal, RemoveError
  <2>4. ASSUME NEW q \in Pushes \ {p}, pc[q] = "removing",
               token[q] \in alert_system_token_set[server[q]]
        PROVE  token[q] \in alert_system_token_set'[server[q]] \/ Another(q)'
    <3>1. server[q] \in Servers
      BY <2>4 DEF PushInv
    <3>2. token[q] # token[p] \/ server[q] # server[p]
          => token[q] \in alert_system_token_set'[server[q]]
      BY <2>3, <2>4, <3>1
    <3>3. token[q] = token[p] /\ server[q] = server[p] => Another(q)'
      BY <2>1, <2>2 DEF Another
    <3> QED BY <3>2, <3>3
  <2>5. \/ pc'[p] \in {"sending", "returned", "raised"}
        \/ /\ pc'[p] = "key_error" /\ token'[p] = token[p] /\ ~shared[p]
           /\ token[p] \notin alert_system_token_set[server[p]]
    BY <1>7 DEF TypeOK, Remove, RemoveShared, RemoveLocal, RemoveError, Continue
  <2>6. pc'[p] = "key_error" => Another(p)'
    <3>1. pc'[p] = "key_error" => Another(p) /\ token'[p] = token[p]
      BY <2>1, <2>5 DEF CutInv
    <3> QED BY <1>1, <2>1, <3>1, AnotherStays
  <2> QED BY <1>2, <2>1, <2>2, <2>4, <2>5, <2>6 DEF CutInv
<1>8. ASSUME NEW s \in Servers, Restart(s) PROVE CutInv'
  <2>1. UNCHANGED <<server, shared, tried>>
    BY <1>8 DEF Restart
  <2>2. ASSUME NEW p \in Pushes, pc'[p] # "lost"
        PROVE  /\ pc'[p] = pc[p] /\ token'[p] = token[p]
               /\ pc[p] = "removing" => server[p] \in Servers \ {s}
    BY <1>8, <2>2 DEF TypeOK, PushInv, Restart
  <2>3. \A r \in Servers \ {s} : alert_system_token_set'[r] = alert_system_token_set[r]
    BY <1>8 DEF Restart, TypeOK
  <2> QED BY <1>2, <2>1, <2>2, <2>3 DEF CutInv
<1> QED BY <1>3, <1>4, <1>5, <1>6, <1>7, <1>8 DEF Next

(* The removal of a token raises only where another push at the same       *)
(* server has been at that token (server.py:117-119).                      *)
THEOREM OnlyAnotherCutsShort == Spec => []CutShortByAnother
<1>1. Init => CutInv
  BY DEF Init, CutInv
<1>2. IInv /\ CutInv /\ [Next]_vars => CutInv'
  BY CutInvStep
<1>3. CutInv => CutShortByAnother
  BY DEF CutInv, Another, CutShortByAnother
<1> QED BY <1>1, <1>2, <1>3, IInvInit, IInvInductive, PTL DEF Spec

AtWork(p) == pc[p] \in {"sending", "removing"}

(* No server is at two pushes at a time. *)
OnePushEach ==
  \A p, q \in Pushes : AtWork(p) /\ AtWork(q) /\ server[p] = server[q] => p = q

(* The token a push without Redis is about to remove is in the set. *)
StillThere ==
  \A p \in Pushes :
    /\ pc[p] # "key_error"
    /\ pc[p] = "removing" /\ ~shared[p] => token[p] \in alert_system_token_set[server[p]]

(* Only another push at the same server takes a token out under one. *)
LEMMA StillThereStep ==
  ASSUME IInv, OnePushEach, StillThere, [Next]_vars
  PROVE  StillThere'
<1> USE DEF IInv
<1>1. ASSUME NEW p \in Pushes,
             pc'[p] = pc[p], server'[p] = server[p], shared'[p] = shared[p],
             token'[p] = token[p],
             pc[p] = "removing" /\ ~shared[p]
               => alert_system_token_set[server[p]] \subseteq alert_system_token_set'[server[p]]
      PROVE  /\ pc'[p] # "key_error"
             /\ pc'[p] = "removing" /\ ~shared'[p]
                  => token'[p] \in alert_system_token_set'[server'[p]]
  BY <1>1 DEF StillThere
<1>2. CASE RedisToggle \/ UNCHANGED vars
  BY <1>1, <1>2 DEF RedisToggle, vars, storage, pushes, StillThere
<1>3. ASSUME NEW s \in Servers, NEW t \in Tokens, Register(s, t) PROVE StillThere'
  <2>1. \A r \in Servers : alert_system_token_set[r] \subseteq alert_system_token_set'[r]
    BY <1>3 DEF TypeOK, Register, RegisterShared, RegisterLocal, RegisterError, storage
  <2>2. \A p \in Pushes : pc[p] = "removing" => server[p] \in Servers
    BY DEF PushInv
  <2> QED BY <1>1, <1>3, <2>1, <2>2 DEF Register, pushes, StillThere
<1>4. ASSUME NEW p \in Pushes, NEW s \in Servers, Begin(p, s) PROVE StillThere'
  <2>1. pc'[p] \in {"raised", "returned", "sending"}
    BY <1>4 DEF TypeOK, Begin
  <2>2. \A q \in Pushes \ {p} :
          pc'[q] = pc[q] /\ server'[q] = server[q] /\ shared'[q] = shared[q]
    BY <1>4 DEF TypeOK, Begin
  <2> QED BY <1>1, <1>4, <2>1, <2>2 DEF Begin, storage, StillThere
<1>5. ASSUME NEW p \in Pushes, Send(p) PROVE StillThere'
  <2>1. PICK t \in current_tokens[p] : SendPasses(p, t) \/ SendRefused(p, t)
    BY <1>5 DEF Send
  <2>2. UNCHANGED <<server, shared, alert_system_token_set>>
    BY <1>5 DEF Send, storage
  <2>3. \A q \in Pushes \ {p} : pc'[q] = pc[q] /\ token'[q] = token[q]
    BY <2>1 DEF TypeOK, SendPasses, SendRefused, Continue
  <2>4. \/ pc'[p] \in {"sending", "returned"}
        \/ /\ pc'[p] = "removing" /\ token'[p] = t
           /\ shared[p] \/ t \in alert_system_token_set[server[p]]
    BY <2>1 DEF TypeOK, SendPasses, SendRefused, Continue
  <2> QED BY <1>1, <2>2, <2>3, <2>4 DEF StillThere
<1>6. ASSUME NEW p \in Pushes, Remove(p) PROVE StillThere'
  <2>1. UNCHANGED <<server, shared>> /\ pc[p] = "removing" /\ server[p] \in Servers
    BY <1>6 DEF Remove, PushInv
  <2>2. \A q \in Pushes \ {p} : pc'[q] = pc[q] /\ token'[q] = token[q]
    BY <1>6 DEF TypeOK, Remove, RemoveShared, RemoveLocal, RemoveError, Continue
  <2>3. pc'[p] \in {"sending", "returned", "raised"}
    BY <1>6 DEF TypeOK, StillThere, Remove, RemoveShared, RemoveLocal, RemoveError, Continue
  <2>4. \A r \in Servers \ {server[p]} :
          alert_system_token_set'[r] = alert_system_token_set[r]
    BY <1>6 DEF TypeOK, Remove, RemoveShared, RemoveLocal, RemoveError, storage
  <2>5. \A q \in Pushes \ {p} :
          pc[q] = "removing" => server[q] \in Servers \ {server[p]}
    BY <2>1 DEF OnePushEach, AtWork, PushInv
  <2> QED BY <1>1, <2>1, <2>2, <2>3, <2>4, <2>5 DEF StillThere
<1>7. ASSUME NEW s \in Servers, Restart(s) PROVE StillThere'
  <2>1. \A p \in Pushes :
          /\ pc'[p] \in {"lost", pc[p]}
          /\ pc'[p] = "removing" => server[p] # s /\ server[p] \in Servers
    BY <1>7 DEF Restart, PushInv
  <2>2. /\ UNCHANGED <<server, shared>>
        /\ \A p \in Pushes : pc'[p] # "lost" => token'[p] = token[p] /\ pc'[p] = pc[p]
    BY <1>7 DEF Restart, TypeOK
  <2>3. \A r \in Servers \ {s} : alert_system_token_set'[r] = alert_system_token_set[r]
    BY <1>7 DEF Restart, TypeOK
  <2> QED BY <2>1, <2>2, <2>3 DEF StillThere
<1> QED BY <1>2, <1>3, <1>4, <1>5, <1>6, <1>7 DEF Next

(* As long as no server is at two pushes at a time, the cleanup never      *)
(* raises: without Redis a push then reaches its end unless its server     *)
(* dies.  What cuts one short is only the time another push has between    *)
(* the test for the token and its removal (server.py:115-119).             *)
THEOREM OnlyOverlapCutsShort ==
  Spec /\ []OnePushEach => [](\A p \in Pushes : pc[p] # "key_error")
<1> DEFINE NeverCut == \A p \in Pushes : pc[p] # "key_error"
<1>1. Init => StillThere
  BY DEF Init, StillThere
<1>2. IInv /\ OnePushEach /\ StillThere /\ [Next]_vars => StillThere'
  BY StillThereStep
<1>3. StillThere => NeverCut
  BY DEF StillThere
<1> HIDE DEF NeverCut
<1>4. Spec /\ []OnePushEach => []NeverCut
  BY <1>1, <1>2, <1>3, IInvInit, IInvInductive, PTL DEF Spec
<1> QED BY <1>4 DEF NeverCut
=============================================================================
