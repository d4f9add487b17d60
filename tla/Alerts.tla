-------------------------------- MODULE Alerts --------------------------------
(***************************************************************************)
(* Device tokens and the pushes to them (_push_to_alert_system, POST       *)
(* /api/register_device and POST /api/report_fault of                      *)
(* distributed/server/server.py and server_backup.py).  A server keeps     *)
(* tokens in the Redis set both servers share or, when it did not find     *)
(* Redis at its start, in a set of its own.  The handlers run in a thread  *)
(* pool, so pushes overlap each other and registrations.                   *)
(*                                                                         *)
(* A send is refused when the text of its exception contains "not found"   *)
(* or "unregistered".  Which sends that is, of a token whose app is gone   *)
(* or of one in use, is not the server's to know: any send may be refused, *)
(* and any token registered, at any time.                                  *)
(***************************************************************************)
EXTENDS Integers, FiniteSets

CONSTANTS
  Servers, Tokens,
  Pushes,            \* the calls of _push_to_alert_system
  None

ASSUME AlertsAssumption == None \notin Servers /\ None \notin Tokens

VARIABLES
  redis_up,                \* whether Redis can be reached now
  IS_REDIS_CONNECTED,      \* what each server found when it started
  redis_tokens,            \* Redis: alert_system:tokens
  alert_system_token_set,  \* the set each server keeps itself
  server, shared,          \* of each push: where it runs, and whether that
                           \* server uses Redis, fixed for as long as it lives
  pc, current_tokens, token,   \* the locals of each push
  (* History: *)
  acked_redis,             \* tokens whose registration answered "redis" and
                           \* that no send was refused for since
  acked_local,             \* of each server, since its start: "local", likewise
  due,                     \* of each push: the registrations it is to reach
  tried,                   \* of each push: the tokens a send was made for
  refused                  \* of each push: the tokens refused, and not
                           \* registered again since

storage == <<redis_tokens, alert_system_token_set>>
pushes  == <<server, shared, pc, current_tokens, token>>
history == <<acked_redis, acked_local, due, tried, refused>>
vars    == <<redis_up, IS_REDIS_CONNECTED, storage, pushes, history>>

PCs == {"idle", "sending", "removing", "returned",
        "raised",      \* a call of Redis raised: HTTP 500
        "key_error",   \* set.remove raised: HTTP 500
        "lost"}        \* the server died under the push

TypeOK ==
  /\ redis_up \in BOOLEAN
  /\ IS_REDIS_CONNECTED \in [Servers -> BOOLEAN]
  /\ redis_tokens \in SUBSET Tokens
  /\ alert_system_token_set \in [Servers -> SUBSET Tokens]
  /\ server \in [Pushes -> Servers \cup {None}]
  /\ shared \in [Pushes -> BOOLEAN]
  /\ pc \in [Pushes -> PCs]
  /\ current_tokens \in [Pushes -> SUBSET Tokens]
  /\ token \in [Pushes -> Tokens \cup {None}]
  /\ acked_redis \in SUBSET Tokens
  /\ acked_local \in [Servers -> SUBSET Tokens]
  /\ due \in [Pushes -> SUBSET Tokens]
  /\ tried \in [Pushes -> SUBSET Tokens]
  /\ refused \in [Pushes -> SUBSET Tokens]

Init ==
  /\ redis_up \in BOOLEAN
  /\ IS_REDIS_CONNECTED \in [Servers -> BOOLEAN]
  /\ redis_tokens = {}
  /\ alert_system_token_set = [s \in Servers |-> {}]
  /\ server = [p \in Pushes |-> None]
  /\ shared = [p \in Pushes |-> FALSE]
  /\ pc = [p \in Pushes |-> "idle"]
  /\ current_tokens = [p \in Pushes |-> {}]
  /\ token = [p \in Pushes |-> None]
  /\ acked_redis = {}
  /\ acked_local = [s \in Servers |-> {}]
  /\ due = [p \in Pushes |-> {}]
  /\ tried = [p \in Pushes |-> {}]
  /\ refused = [p \in Pushes |-> {}]

-----------------------------------------------------------------------------
(* POST /api/register_device *)

(* A push has been refused the token and is about to take it out.  The     *)
(* answer of a registration that comes then promises nothing for long.     *)
BeingRemoved(t, pushers) ==
  \E p \in pushers : pc[p] = "removing" /\ token[p] = t

(* The tokens of a store are refused no longer once they are put back.     *)
PutBack(t, pushers) ==
  refused' = [p \in Pushes |-> refused[p] \ (IF p \in pushers THEN {t} ELSE {})]

OverRedis == {p \in Pushes : shared[p]}
InMemory(s) == {p \in Pushes : ~shared[p] /\ server[p] = s}

RegisterShared(s, t) ==
  /\ IS_REDIS_CONNECTED[s] /\ redis_up
  /\ redis_tokens' = redis_tokens \cup {t}
  /\ acked_redis' = acked_redis \cup IF BeingRemoved(t, OverRedis) THEN {} ELSE {t}
  /\ PutBack(t, OverRedis)
  /\ UNCHANGED <<alert_system_token_set, acked_local>>

RegisterLocal(s, t) ==
  /\ ~IS_REDIS_CONNECTED[s]
  /\ alert_system_token_set' = [alert_system_token_set EXCEPT ![s] = @ \cup {t}]
  /\ acked_local' = [acked_local EXCEPT ![s] =
                       @ \cup IF BeingRemoved(t, InMemory(s)) THEN {} ELSE {t}]
  /\ PutBack(t, InMemory(s))
  /\ UNCHANGED <<redis_tokens, acked_redis>>

(* SADD raises, carried out or not. *)
RegisterError(s, t) ==
  /\ IS_REDIS_CONNECTED[s] /\ ~redis_up
  /\ \/ redis_tokens' = redis_tokens \cup {t} /\ PutBack(t, OverRedis)
     \/ UNCHANGED <<redis_tokens, refused>>
  /\ UNCHANGED <<alert_system_token_set, acked_redis, acked_local>>

Register(s, t) ==
  /\ RegisterShared(s, t) \/ RegisterLocal(s, t) \/ RegisterError(s, t)
  /\ UNCHANGED <<redis_up, IS_REDIS_CONNECTED, pushes, due, tried>>

-----------------------------------------------------------------------------
(* _push_to_alert_system *)

(* Mutant for PushReachesAll: the degraded tokens are not merged in. *)
TokensOfRedis(s) == IF IS_REDIS_CONNECTED[s] THEN redis_tokens ELSE {}

TokensFor(s) ==
  (IF IS_REDIS_CONNECTED[s] THEN redis_tokens ELSE {})
    \cup alert_system_token_set[s]

(* SMEMBERS raises, nobody is registered, or the loop over a copy begins. *)
Begin(p, s) ==
  /\ pc[p] = "idle"
  /\ server' = [server EXCEPT ![p] = s]
  /\ shared' = [shared EXCEPT ![p] = IS_REDIS_CONNECTED[s]]
  /\ due' = [due EXCEPT ![p] =
               (IF IS_REDIS_CONNECTED[s] THEN acked_redis ELSE {})
                 \cup acked_local[s]]
  /\ \/ /\ IS_REDIS_CONNECTED[s] /\ ~redis_up
        /\ pc' = [pc EXCEPT ![p] = "raised"]
        /\ UNCHANGED current_tokens
     \/ /\ IS_REDIS_CONNECTED[s] => redis_up
        /\ current_tokens' = [current_tokens EXCEPT ![p] = TokensFor(s)]
        /\ pc' = [pc EXCEPT ![p] =
                    IF TokensFor(s) = {} THEN "returned" ELSE "sending"]
  /\ UNCHANGED <<redis_up, IS_REDIS_CONNECTED, storage, token,
                 acked_redis, acked_local, tried, refused>>

(* On with the loop, its current token done. *)
Continue(p, t) ==
  /\ current_tokens' = [current_tokens EXCEPT ![p] = @ \ {t}]
  /\ token' = [token EXCEPT ![p] = None]
  /\ pc' = [pc EXCEPT ![p] =
              IF current_tokens[p] = {t} THEN "returned" ELSE "sending"]

(* Mutant for RegistrationsLast: any failed send removes its token. *)
SendFailsRemoving(p, t) ==
  /\ token' = [token EXCEPT ![p] = t]
  /\ pc' = [pc EXCEPT ![p] = "removing"]
  /\ UNCHANGED <<current_tokens, acked_redis, acked_local, refused>>

(* The message is taken, or the send fails for another reason. *)
SendPasses(p, t) ==
  /\ Continue(p, t)
  /\ UNCHANGED <<acked_redis, acked_local, refused>>

(* From here on the registration of the token counts for nothing. *)
Refused(p, t) ==
  /\ refused' = [refused EXCEPT ![p] = @ \cup {t}]
  /\ IF shared[p]
       THEN /\ acked_redis' = acked_redis \ {t}
            /\ UNCHANGED acked_local
       ELSE /\ acked_local' = [acked_local EXCEPT ![server[p]] = @ \ {t}]
            /\ UNCHANGED acked_redis

(* Mutant for TypeOK: srem is handed all tokens instead of the dead one. *)
SendRefusedWhole(p, t) ==
  /\ Refused(p, t)
  /\ token' = [token EXCEPT ![p] = current_tokens[p]]
  /\ pc' = [pc EXCEPT ![p] = "removing"]
  /\ UNCHANGED current_tokens

(* Firebase does not know the token, by the text of the exception.  A      *)
(* server with Redis removes it there; one without first looks whether it  *)
(* is in its own set.                                                      *)
SendRefused(p, t) ==
  /\ Refused(p, t)
  /\ \/ /\ \/ shared[p]
           \/ t \in alert_system_token_set[server[p]]
        /\ token' = [token EXCEPT ![p] = t]
        /\ pc' = [pc EXCEPT ![p] = "removing"]
        /\ UNCHANGED current_tokens
     \/ /\ ~shared[p]
        /\ t \notin alert_system_token_set[server[p]]
        /\ Continue(p, t)

Send(p) ==
  /\ pc[p] = "sending"
  /\ \E t \in current_tokens[p] :
       /\ tried' = [tried EXCEPT ![p] = @ \cup {t}]
       /\ SendPasses(p, t) \/ SendRefused(p, t)
  /\ UNCHANGED <<redis_up, IS_REDIS_CONNECTED, storage, server, shared, due>>

(* Mutant for DeadTokensGo: nothing is taken out of Redis. *)
RemoveSharedNot(p) ==
  /\ redis_up
  /\ Continue(p, token[p])
  /\ UNCHANGED storage

RemoveShared(p) ==
  /\ redis_up
  /\ redis_tokens' = redis_tokens \ {token[p]}
  /\ Continue(p, token[p])
  /\ UNCHANGED alert_system_token_set

(* Mutant for CutShortByAnother: the set is emptied. *)
RemoveLocalAll(p) ==
  /\ token[p] \in alert_system_token_set[server[p]]
  /\ alert_system_token_set' = [alert_system_token_set EXCEPT ![server[p]] = {}]
  /\ Continue(p, token[p])
  /\ UNCHANGED redis_tokens

RemoveLocal(p) ==
  /\ token[p] \in alert_system_token_set[server[p]]
  /\ alert_system_token_set' =
       [alert_system_token_set EXCEPT ![server[p]] = @ \ {token[p]}]
  /\ Continue(p, token[p])
  /\ UNCHANGED redis_tokens

(* SREM raises, carried out or not, or remove does: another push has taken *)
(* the token out since this one looked.  The rest of the loop is not run.  *)
RemoveError(p) ==
  /\ \/ /\ shared[p] /\ ~redis_up
        /\ pc' = [pc EXCEPT ![p] = "raised"]
        /\ redis_tokens' = redis_tokens \ {token[p]} \/ UNCHANGED redis_tokens
     \/ /\ ~shared[p] /\ token[p] \notin alert_system_token_set[server[p]]
        /\ pc' = [pc EXCEPT ![p] = "key_error"]
        /\ UNCHANGED redis_tokens
  /\ UNCHANGED <<alert_system_token_set, current_tokens, token>>

Remove(p) ==
  /\ pc[p] = "removing"
  /\ \/ shared[p] /\ RemoveShared(p)
     \/ ~shared[p] /\ RemoveLocal(p)
     \/ RemoveError(p)
  /\ UNCHANGED <<redis_up, IS_REDIS_CONNECTED, server, shared, history>>

-----------------------------------------------------------------------------
(* The environment *)

RedisToggle ==
  /\ redis_up' = ~redis_up
  /\ UNCHANGED <<IS_REDIS_CONNECTED, storage, pushes, history>>

Restart(s) ==
  LET dead == {p \in Pushes : server[p] = s /\ pc[p] \in {"sending", "removing"}} IN
  /\ IS_REDIS_CONNECTED' = [IS_REDIS_CONNECTED EXCEPT ![s] = redis_up]
  /\ alert_system_token_set' = [alert_system_token_set EXCEPT ![s] = {}]
  /\ acked_local' = [acked_local EXCEPT ![s] = {}]
  /\ pc' = [p \in Pushes |-> IF p \in dead THEN "lost" ELSE pc[p]]
  /\ current_tokens' = [p \in Pushes |-> IF p \in dead THEN {} ELSE current_tokens[p]]
  /\ token' = [p \in Pushes |-> IF p \in dead THEN None ELSE token[p]]
  /\ UNCHANGED <<redis_up, redis_tokens, server, shared, acked_redis, due, tried, refused>>

Next ==
  \/ \E p \in Pushes : Send(p) \/ Remove(p) \/ \E s \in Servers : Begin(p, s)
  \/ \E t \in Tokens, s \in Servers : Register(s, t)
  \/ RedisToggle
  \/ \E s \in Servers : Restart(s)

Spec == Init /\ [][Next]_vars

-----------------------------------------------------------------------------
(* Properties *)

(* An acknowledged registration stays stored until a send to that very     *)
(* device is refused: no other push, on either server, removes it on a     *)
(* copy it took before or for another device's failure, and only a restart *)
(* of a server without Redis forgets it (server.py:70-119, 348-361).  One  *)
(* that arrives between a refusal of its token and the removal is lost     *)
(* with the removal, though it was acknowledged.                           *)
RegistrationsLast ==
  /\ acked_redis \subseteq redis_tokens
  /\ \A s \in Servers : acked_local[s] \subseteq alert_system_token_set[s]

(* A push that returns has tried every device whose registration with this *)
(* server, or with Redis through any server, was acknowledged before the   *)
(* push began and was not refused a send by then: no registration, removal *)
(* or restart of others makes it skip one (server.py:70-107, 348-361).     *)
PushReachesAll ==
  \A p \in Pushes : pc[p] = "returned" => due[p] \subseteq tried[p]

(* After a push that returned, the tokens it was refused are gone from     *)
(* where its server keeps them, and no push that runs beside it, on a copy *)
(* that still has them, brings them back: only a registration of the very  *)
(* token does (server.py:78-119, 348-361).                                 *)
DeadTokensGo ==
  \A p \in Pushes :
    pc[p] = "returned" =>
      IF shared[p] THEN refused[p] \cap redis_tokens = {}
      ELSE refused[p] \cap alert_system_token_set[server[p]] = {}

(* The cleanup itself ends a push, before the devices left in its loop are *)
(* reached, only where another push at the same server has sent to the     *)
(* same token: neither other removals nor registrations nor restarts take  *)
(* a token from under the test before its removal (server.py:117-119).     *)
CutShortByAnother ==
  \A p \in Pushes :
    pc[p] = "key_error" =>
      \E q \in Pushes \ {p} : server[q] = server[p] /\ token[p] \in tried[q]
=============================================================================
