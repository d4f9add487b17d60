------------------------------- MODULE Gateway -------------------------------
(***************************************************************************)
(* The API gateway (distributed/gateway/gateway.py): the circuit breaker,  *)
(* the coroutine that serves GET /api/forward with its retries and its     *)
(* fallback to the RDS table, and the two endpoints that pass a POST on.   *)
(*                                                                         *)
(* The gateway is one asyncio event loop, so the code between two awaits   *)
(* is one step.  A forward suspends while the server works on it (pc       *)
(* "sent"), while the executor reads the RDS table ("reading"), in the     *)
(* pause after a failed attempt ("backoff") and in the simulated           *)
(* downstream loss ("stalled").                                            *)
(***************************************************************************)
EXTENDS Integers, Sequences, FiniteSets

CONSTANTS
  Requests,             \* the calls of /api/forward
  Posts,                \* the calls of /api/report and /api/register_device
  Tasks,                \* (task_type, task_id) pairs, the key of the RDS table
  TaskOf,               \* the task each request asks for
  BigTasks,             \* the tasks of type TASK_CRIMINAL_CLASSIFICATION
  WINDOW_SIZE, ATTEMPT_TIMES,
  FAIL_NUM, FAIL_DEN,   \* FAIL_THRESHOLD as a fraction
  HasBackup,            \* whether backup_server_url was given
  DbMayFail             \* whether a query of the RDS table can raise

ASSUME GatewayAssumption ==
  /\ TaskOf \in [Requests -> Tasks]
  /\ BigTasks \subseteq Tasks
  /\ WINDOW_SIZE \in Nat \ {0}
  /\ ATTEMPT_TIMES \in Nat \ {0}
  /\ FAIL_NUM \in Nat
  /\ FAIL_DEN \in Nat \ {0}
  /\ HasBackup \in BOOLEAN
  /\ DbMayFail \in BOOLEAN

VARIABLES
  is_circuit_open, req_window,
  halvings,          \* how often local_upstream_fault_prob has been halved
  pc, attempt, target, success_response,     \* the locals of each forward
  post,              \* the URL each POST is passed on to, then its result
  table,             \* the tasks that have a row in the RDS table
  outcomes           \* history: every outcome given to the breaker, in order

breaker == <<is_circuit_open, req_window, halvings, outcomes>>
locals  == <<pc, attempt, target, success_response>>
vars    == <<breaker, locals, post, table>>

Urls      == {"primary", "backup", "no_url"}
Replies   == {"success", "failed"}              \* status field of a server reply
Responses == Replies \cup {"cached", "makeup"}  \* what a forward can return
PCs       == {"idle", "sent", "reading", "backoff", "stalled", "done"}

TypeOK ==
  /\ is_circuit_open \in BOOLEAN
  /\ req_window \in Seq(BOOLEAN) /\ Len(req_window) <= WINDOW_SIZE
  /\ halvings \in Nat
  /\ pc \in [Requests -> PCs]
  /\ attempt \in [Requests -> 0 .. ATTEMPT_TIMES]
  /\ target \in [Requests -> {"none", "primary", "backup"}]
  /\ success_response \in [Requests -> Responses \cup {"none"}]
  /\ post \in [Posts -> Urls \cup {"idle", "ok", "error"}]
  /\ table \in SUBSET Tasks
  /\ outcomes \in Seq(BOOLEAN)

Init ==
  /\ is_circuit_open = FALSE
  /\ req_window = << >>
  /\ halvings = 0
  /\ pc = [r \in Requests |-> "idle"]
  /\ attempt = [r \in Requests |-> 0]
  /\ target = [r \in Requests |-> "none"]
  /\ success_response = [r \in Requests |-> "none"]
  /\ post = [p \in Posts |-> "idle"]
  /\ table \in SUBSET Tasks
  /\ outcomes = << >>

-----------------------------------------------------------------------------
(* The breaker: a deque of bounded length, checked after every append. *)

Failures(w) == Cardinality({i \in DOMAIN w : ~w[i]})

Trips(w) ==
  /\ Len(w) = WINDOW_SIZE
  /\ FAIL_DEN * Failures(w) >= FAIL_NUM * WINDOW_SIZE

(* Mutants: a deque without maxlen (TypeOK); one that drops the newest     *)
(* outcome instead of the oldest (SlidingWindow).                          *)
PushUnbounded(w, ok) == Append(w, ok)
PushKeepsOldest(w, ok) == IF Len(w) < WINDOW_SIZE THEN Append(w, ok) ELSE w

Push(w, ok) == Append(IF Len(w) < WINDOW_SIZE THEN w ELSE Tail(w), ok)

(* Mutant for CountsPrimaryOnly: an open breaker goes on counting. *)
UpdateCircuitStateAlways(ok) ==
  /\ req_window' = Push(req_window, ok)
  /\ outcomes' = Append(outcomes, ok)
  /\ is_circuit_open' = (is_circuit_open \/ Trips(req_window'))
  /\ UNCHANGED halvings

UpdateCircuitState(ok) ==
  \/ /\ is_circuit_open
     /\ UNCHANGED breaker
  \/ /\ ~is_circuit_open
     /\ req_window' = Push(req_window, ok)
     /\ outcomes' = Append(outcomes, ok)
     /\ is_circuit_open' = Trips(req_window')
     /\ halvings' = IF is_circuit_open' THEN halvings + 1 ELSE halvings

-----------------------------------------------------------------------------
(* GET /api/forward *)

(* Mutant for PrimaryDrains: the state of the breaker is not consulted. *)
TargetUrlAlways == "primary"

TargetUrl == IF is_circuit_open /\ HasBackup THEN "backup" ELSE "primary"

(* The server is chosen once, here, for every attempt of this call. *)
Forward(r) ==
  /\ pc[r] = "idle"
  /\ target' = [target EXCEPT ![r] = TargetUrl]
  /\ attempt' = [attempt EXCEPT ![r] = 1]
  /\ pc' = [pc EXCEPT ![r] = "sent"]
  /\ UNCHANGED <<breaker, success_response, post, table>>

(* A reply arrives and is kept; the outcome is not recorded before the     *)
(* executor has read the RDS table.                                        *)
Reply(r) ==
  /\ pc[r] = "sent"
  /\ \E reply \in Replies :
       success_response' = [success_response EXCEPT ![r] = reply]
  /\ pc' = [pc EXCEPT ![r] = "reading"]
  /\ UNCHANGED <<breaker, attempt, target, post, table>>

(* A timeout, a connection error, a reply that is no JSON or a simulated   *)
(* upstream loss: all reach the same except clause.                        *)
Fail(r) ==
  /\ pc[r] = "sent"
  /\ UpdateCircuitState(FALSE)
  /\ pc' = [pc EXCEPT ![r] = "backoff"]
  /\ UNCHANGED <<attempt, target, success_response, post, table>>

(* The response goes out at once or after TIME_SLEEP: the simulated        *)
(* downstream loss, which Big Data tasks are spared.                       *)
Return(r) ==
  \/ pc' = [pc EXCEPT ![r] = "done"]
  \/ /\ TaskOf[r] \notin BigTasks
     /\ pc' = [pc EXCEPT ![r] = "stalled"]

Succeed(r) ==
  /\ pc[r] = "reading"
  /\ UpdateCircuitState(TRUE)
  /\ Return(r)
  /\ UNCHANGED <<attempt, target, success_response, post, table>>

(* Mutant for EveryForwardAnswered and ForwardRunsDown: the attempt is not *)
(* counted.                                                               *)
RetryUncounted(r) ==
  /\ pc[r] = "backoff"
  /\ attempt[r] < ATTEMPT_TIMES
  /\ pc' = [pc EXCEPT ![r] = "sent"]
  /\ UNCHANGED <<breaker, attempt, target, success_response, post, table>>

Retry(r) ==
  /\ pc[r] = "backoff"
  /\ attempt[r] < ATTEMPT_TIMES
  /\ attempt' = [attempt EXCEPT ![r] = @ + 1]
  /\ pc' = [pc EXCEPT ![r] = "sent"]
  /\ UNCHANGED <<breaker, target, success_response, post, table>>

(* _get_from_cache returns None on a miss and on any error of the query. *)
CacheLookup(t) ==
  (IF t \in table THEN {"cached"} ELSE {"makeup"})
    \cup (IF DbMayFail THEN {"makeup"} ELSE {})

(* Attempts exhausted: one query of the RDS table, on the event loop. *)
Fallback(r) ==
  /\ pc[r] = "backoff"
  /\ attempt[r] = ATTEMPT_TIMES
  /\ \E answer \in CacheLookup(TaskOf[r]) :
       success_response' = [success_response EXCEPT ![r] = answer]
  /\ Return(r)
  /\ UNCHANGED <<breaker, attempt, target, post, table>>

Wake(r) ==
  /\ pc[r] = "stalled"
  /\ pc' = [pc EXCEPT ![r] = "done"]
  /\ UNCHANGED <<breaker, attempt, target, success_response, post, table>>

-----------------------------------------------------------------------------
(* POST /api/report and POST /api/register_device.  The attribute always   *)
(* exists, so getattr never falls back to the primary: without a backup    *)
(* the URL of an open circuit is None.                                     *)

(* Mutant for PostsFollowForwards: posts always go to the primary. *)
PostUrlAlways == "primary"

PostUrl ==
  IF ~is_circuit_open THEN "primary"
  ELSE IF HasBackup THEN "backup" ELSE "no_url"

Post(p) ==
  /\ post[p] = "idle"
  /\ post' = [post EXCEPT ![p] = PostUrl]
  /\ UNCHANGED <<breaker, locals, table>>

PostDone(p) ==
  /\ post[p] \in Urls
  /\ \/ post[p] # "no_url" /\ post' = [post EXCEPT ![p] = "ok"]
     \/ post' = [post EXCEPT ![p] = "error"]
  /\ UNCHANGED <<breaker, locals, table>>

-----------------------------------------------------------------------------
(* Every call is answered: the loop waits for the next one. *)
Quiet ==
  /\ \A r \in Requests : pc[r] = "done"
  /\ \A p \in Posts : post[p] \in {"ok", "error"}
  /\ UNCHANGED vars

Step(r) ==
  \/ Forward(r) \/ Reply(r) \/ Fail(r) \/ Succeed(r)
  \/ Retry(r) \/ Fallback(r) \/ Wake(r)

Next ==
  \/ \E r \in Requests : Step(r)
  \/ \E p \in Posts : Post(p) \/ PostDone(p)
  \/ Quiet

(* The event loop runs every coroutine it can.  An await ends: httpx gives *)
(* up after GATEWAY_FORWARD_RESPONSE_TIMEOUT, sleeps are finite, and the   *)
(* database driver is assumed to return or to raise.  Calls need not come. *)
Progress(r) ==
  Reply(r) \/ Fail(r) \/ Succeed(r) \/ Retry(r) \/ Fallback(r) \/ Wake(r)

Spec     == Init /\ [][Next]_vars
FairSpec == Spec /\ \A r \in Requests : WF_vars(Progress(r))

-----------------------------------------------------------------------------
(* Properties *)

(* The deque, its length check and the early return of an open breaker     *)
(* implement the sliding window over all recorded outcomes, and the breaker*)
(* opens at the first window that calls for it (gateway.py:213-229).       *)
CB == INSTANCE CircuitBreaker WITH open <- is_circuit_open
SlidingWindow == CB!Spec

(* An outcome is only counted when the attempt went to the primary, however *)
(* forwards that started before and after the trip interleave              *)
(* (gateway.py:256, "only count when accessing primary node").             *)
CountsPrimaryOnly ==
  [][outcomes' # outcomes =>
       \E r \in Requests : pc'[r] # pc[r] /\ target[r] = "primary"]_vars

(* Once any forward has been sent to the backup, reports and registrations *)
(* go there too: a device is not registered at a node no alert leaves from *)
(* (gateway.py:240, 296, 303).                                             *)
PostsFollowForwards ==
  [][\A p \in Posts :
       post[p] = "idle" /\ post'[p] # "idle"
         /\ (\E r \in Requests : target[r] = "backup")
       => post'[p] = "backup"]_vars

(* The attempts a forward bound to the primary may still make there. *)
PrimaryBudget(r) ==
  {i \in 1 .. ATTEMPT_TIMES :
     target[r] = "primary" /\ attempt[r] < i /\ pc[r] \in {"sent", "backoff"}}

(* With the circuit open and a backup configured the primary is drained:   *)
(* what it can still be sent only shrinks, although forwards that began    *)
(* before the trip keep retrying it (gateway.py:240 against 242-269).      *)
PrimaryDrains ==
  [][is_circuit_open /\ HasBackup =>
       \A r \in Requests : PrimaryBudget(r)' \subseteq PrimaryBudget(r)]_vars

(* The awaits a forward still has before it, at most, with the one it      *)
(* stands at.                                                              *)
AwaitsFrom == [idle |-> 4, sent |-> 3, reading |-> 2, backoff |-> 2,
               stalled |-> 1, done |-> 0]
AwaitsLeft(r) == 4 * (ATTEMPT_TIMES - attempt[r]) + AwaitsFrom[pc[r]]

(* Every step of a forward brings its end nearer, through all retries and  *)
(* for every result of its awaits, and it does not end without a response: *)
(* the core of EveryForwardAnswered that needs no fairness                 *)
(* (gateway.py:242-289).                                                   *)
ForwardRunsDown ==
  [][\A r \in Requests :
       pc'[r] # pc[r] \/ attempt'[r] # attempt[r] =>
         /\ AwaitsLeft(r)' < AwaitsLeft(r)
         /\ pc'[r] = "done" => success_response'[r] # "none"]_vars

(* Every forward that was accepted is answered, whatever its attempts and  *)
(* the fallback query come to (gateway.py:242-289).                        *)
EveryForwardAnswered ==
  \A r \in Requests :
    pc[r] = "sent" ~> pc[r] = "done" /\ success_response[r] # "none"
=============================================================================
