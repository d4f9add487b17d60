# Formal models of the distributed ML task system

TLA+ models of the resilient mode of this repository (`src/distributed/`) and of
the baseline it is compared with (`src/traditional/`), TLC configurations that
check them on small instances, and TLAPS proofs of their main properties for
every instance. `src/README.md` describes the program; below, `gateway.py`,
`server.py`, `server_backup.py` and `client.py` are the files under
`src/distributed/` unless the traditional mode is named, and `README.md:n` is a
line of the program's README.

Contents: [the system](#the-system), [the modules](#the-modules),
[the runs](#the-runs), [bounds](#bounds), [fairness](#fairness),
[the proofs](#the-proofs), [disagreements](#where-code-and-documentation-disagree),
[what is not modelled](#what-is-not-modelled), [plan](#plan), [how to run](#how-to-run).

## The system

A client sends thirty task requests through an API gateway to a primary or a
backup server. Each part keeps a little state, and each has its own remedy
against faults; the remedies meet in shared state (Redis, a file, the breaker).

```
 client.py                gateway.py                 server.py / server_backup.py
 run(), thread pool  -->  GET /api/forward      -->  GET /api/process  --> Redis idem:task:*
   | _enqueue               breaker, attempts                          --> EMR step + monitor
   v                        fallback: RDS table                                |
 fault_queue.json                                                              v
   ^                                                                     _push_to_alert_system
   v                                                                     --> Firebase
 _async_worker       -->  POST /api/report      -->  POST /api/report_fault ---^
 (mobile app)        -->  POST /api/register_device --> POST /api/register_device --> Redis tokens
```

| Component | State it keeps | Operations | What makes it correct |
|---|---|---|---|
| Gateway: breaker and forwarding (`gateway.py:33-63, 213-315`) | `is_circuit_open`, the deque `req_window`, the halved fault probability; per call the target, the attempt, the response | `_update_circuit_state`, `forward` with its attempts and fallback, `report`, `register_device` | The breaker trips at the first full window that calls for it and only on outcomes of the primary; calls go where it says; every call is answered |
| Gateway: RDS cache (`gateway.py:65-211`) | table `task_cache` | `_get_from_cache`; `_save_to_cache`, `_clear_cache_table`, export: no caller | The fallback hands out an earlier success of the same task |
| Servers: `/api/process` (`server.py:270-323`, `server_backup.py:334-385`) | Redis `idem:task:<task_id>`; `IS_REDIS_CONNECTED`, found once at start | idempotency check, work, `SET NX EX`, EMR submission | One task has one stored result, which stays until its key is lost and is a success; a stored task is not executed again |
| Servers: device tokens and pushes (`server.py:70-119, 325-361`) | Redis set `alert_system:tokens`; a process-local set without Redis | `register_device`, `_push_to_alert_system` with its cleanup | Every registered device is tried; a registration lasts until a send to that device is refused |
| Servers: EMR dispatch (`server.py:121-265`) | `_cached_cluster_id`; one background task per step; the steps at EMR | `_get_cluster_id`, `submit_emr_spark_job`, `_check_emr_status_sync`, `_monitor_emr_task` | Alerts tell the truth about the step; monitors end, and push once |
| Client: fault queue (`client.py:44-131, 264-296`) | file `fault_queue.json`, which survives the process; `running`; counters | `_enqueue` (main thread), `_async_worker` (daemon thread) | A failed request stays queued, once, until it is settled; rotation starves nobody |
| Client: request run (`client.py:133-296`, `LoggedRetry.py`) | thread pool, HTTP session with retries, counters | `_send_single_request`, `run`, `_save_result`, `LoggedRetry.increment` | The run ends, and its report counts every request once; without a race on the file each failure is settled or still queued |
| Gateway and servers together | all of the above but the client's | a transmission and the calls it causes | Who is told of a success is told of a remembered one, and a remembered task is not begun again |
| Traditional mode (`src/traditional/`) | counters of the client; nothing shared | send, forward, process, report: one attempt each, no store | The report ends and calls nothing a success that was not computed |
| PySpark scripts, logging, `*_main.py` | none of the protocol | | |

**Interaction.** Gateway and servers are asyncio event loops: code between two
awaits is atomic, and coroutines interleave at awaits (the forwarded call, the
executor that reads RDS, sleeps, `to_thread`). The POST handlers of a server
are plain functions and run in FastAPI's thread pool, so they interleave
anywhere. The client has a main thread, a pool, and a daemon thread. The two
servers share Redis and nothing else. Servers and clients restart; only Redis,
RDS, EMR and the queue file outlive them.

**The hard behaviours** (listed line by line under `hazards` in
`PROJECT.json`): a target chosen before attempts that span the trip of the
breaker; outcomes recorded after an await; GET, work and SET NX as separate
steps of calls that overlap on two servers; a Redis flag that is read once at
start; a SET that was carried out although its reply was lost; a file that two
threads read, truncate and rewrite without a lock; processes that die between
truncation and write; check-then-remove on a set shared by threads; a cluster
id that is cached for ever; a monitor that lives in memory only; a wall clock
that is looked at once a round, between queries and sleeps; answers that come when whoever asked has given
up, at each of three hops; a report that is written by one thread from counters
kept by three.

## The modules

| Module | Models | Role |
|---|---|---|
| `CircuitBreaker` | what the breaker promises | abstract specification |
| `Gateway` | breaker, forward, posts | component; implements `CircuitBreaker` |
| `GatewayProofs` | | six theorems about `Gateway` |
| `TaskIds` | `baseline.py:62-65`, `client.py:183-189` | how a client names tasks |
| `TaskServers` | `/api/process` on servers that share Redis | component |
| `TaskServersProofs` | | eight theorems about `TaskServers` |
| `Alerts`, `AlertsProofs` | tokens, pushes, cleanup | component, six theorems |
| `Emr`, `EmrProofs` | cluster id, submission, monitor | component, five theorems |
| `FaultQueue`, `FaultQueueProofs` | the queue file and its two threads | component, seven theorems |
| `ClientRun`, `ClientRunProofs` | pool, retries, collection, report | composes the run with `FaultQueue`; five theorems |
| `TaskService` | what gateway and servers promise together | abstract specification |
| `EndToEnd`, `EndToEndProofs` | transmissions through the gateway to both servers | composes `Gateway` and `TaskServers`; implements `TaskService`; seven theorems |
| `Traditional`, `TraditionalProofs` | the traditional mode, all three hops | component, three theorems |
| `MC*` | | instances for TLC, one per component, each with its `.cfg` files |

Mutants are operators named in a comment right before the definition they
alter: each shows that a property would notice a plausible mistake in the code.
They are used by no action.

### Gateway

One forward is one coroutine. `pc` names the await it rests at:

| Action | Code |
|---|---|
| `Forward` | `gateway.py:233-245`: the URL is chosen once, the first attempt is sent |
| `Reply` | `252-254`: a reply is parsed; the coroutine suspends in the read of the RDS table |
| `Succeed` | `256-261`, then `285-289`: outcome recorded if the target is the primary, response returned or stalled |
| `Fail` | `262-269`: timeout, connection error, bad JSON and injected fault end in one except clause |
| `Retry`, `Fallback` | `242-245`, `271-283`: next attempt, or one lookup of the RDS table and a made-up failure |
| `Wake` | the end of the simulated downstream loss |
| `Post`, `PostDone` | `293-315`: report and register_device |

`UpdateCircuitState` is `_update_circuit_state` with its early return, its
bounded append and its test on a full window. `success_response` can hold any
reply; its content is abstracted to success, failed, from the table, made up.
The injected fault probability is a counter of its halvings, because any
probability allows each outcome. `outcomes` is a history variable: every
outcome the deque was given. `CircuitBreaker` speaks about that unbounded log
only, and `SlidingWindow` (`CB!Spec`) says that the deque of fifteen, its
length test and the early return amount to it.

### TaskServers

A call is named by itself and so is the result it computes: `store[t]` is the
call whose result Redis holds for task `t`. `Receive` is the code from the GET
to the first await (hit, miss, or an exception of the client when Redis is
gone); `Finish` is the code after the sleep (coin, `SET NX`, answer, or an
exception after a SET that was or was not carried out); `AddStep` and `Submit`
are the two halves of an EMR submission as the handler sees them. `Restart`
reads the flag anew, and the calls a server was working on are lost.
`Expire` is the expiry of a key or its loss with Redis. `acked` and `served`
are histories of a task since its key was last lost; `computed` of all
successes. `TaskIds` gives the key: four letters of the type and the number,
so that the three `Model_*` types share keys.

### Alerts

`Register` is the handler with its three outcomes, for any token at any time. A
push copies the tokens (`Begin`), then takes them in any order (`Send`), and
removes a refused token in a second step (`Remove`), as other threads can run
between the test at `server.py:115` or the send and the removal. The handler
tells a dead token by the words "not found" or "unregistered" in the text of
any exception, which need not mean that the app is gone; so any send may be
refused, of any token, and what Firebase really knows is no part of the model.
`acked_redis` and `acked_local` are histories of the registrations: acknowledged
and not refused since. A registration that is acknowledged between the refusal
of its token and the removal is lost with the removal; that is what the code
does, and `BeingRemoved` keeps it out of what is promised. `due` is, of each
push, what was promised when it began. `shared` is the server's flag as the push
sees it, which cannot change while the push lives. SADD and SREM that raise may
have been carried out.

### Emr

One server (the two share nothing here). `GetClusterId`, `Store` and
`ReturnClusterId` are `_get_cluster_id` in a thread; the split lets two first
submissions overlap. `AddStep`, `Accept` and `SubmitFails` are the rest of the
submission. `Timeout`, `Query` and `Wake` are one round of `_monitor_emr_task`.
`elapsed` is the wall clock in ticks as the round last looked at it: between two
looks pass the sleep and a delay of one to `MaxDelay` ticks, which is the time
of the query and what the sleep and the event loop take too long. So a round
can begin just within the limit, and the next one beyond it.

`known` says whether the EMR client has an exception `InvalidStepIdException`
(`server.py:199`); it depends on the installed SDK, is left open at the start
and never changes. If it has, a step asked of another cluster than its own is
FAILED and any other failing call UNKNOWN; if it has not, the except clause
itself raises and every failing call ends the monitor. The branch for a missing
cluster id (`server.py:188-190`) is never taken: the id is cached before the
step is added and only a restart clears it, which takes the monitors with it
(`ClusterKept` in `EmrProofs`). `Push` tells the devices or nobody, because no
token is registered (`81-83`) or every send fails (`108-109`), and may raise
before or after; `pushes` counts its calls and `alert` is what a device was
told. `chance` is history: whether the step ended in a round that could still be
followed by another one within the limit, and no query failed.

### FaultQueue

`file` is the list the file holds, or `Truncated` (opened for writing, nothing
written yet), or `Garbled` (two overlapping writes). `EnqueueRead`,
`EnqueueTruncate`, `EnqueueWrite` are the three moments of `_enqueue`;
`Poll`, the outcomes of report and retry, `WorkerTruncate` and `WorkerWrite`
those of `_async_worker`. A retry that answers 200 is counted as healed before
its body is parsed; when that raises, the entry goes to the tail
(`RetryUnread`, `client.py:111-126`). `Overlay` says what two writes from the
start of one file leave behind, from the lengths of their texts. `Exit` and
`Start` end and start the process; `Start` leaves an existing file as it is
(`client.py:45-46`). `raced` is history: the one thread rewrites the file from a
read the other has overtaken, or the end of the process cut a rewrite short. A
failure queued while the worker waits for a report that then fails is no race.
`healed` are the entries this run has dropped as healed and not written back.

### ClientRun

The requests are numbered in the order the pool takes them. `Send` is a free
thread taking the next one, and `TryFails`, `TryRefused`, `TryAnswered` are the
ends of one transmission: an error or a status urllib3 retries (`LoggedRetry`
notes it before it decides whether a try is left), any other status, or 200,
which is a success whatever its body says. `CollectSuccess` and
`CollectFailure` are one turn of the loop over `as_completed`; the failure's
turn goes on into `_enqueue`, so it is joined with `FaultQueue`'s
`EnqueueRead`. `CollectEnd`, the wait of fixed length, `SaveResult` and `Exit`
are the rest of `run()`; a broken file leaves `run()` by an exception when the
pool is done. Everything that touches the file is an action of the instance
`Q == INSTANCE FaultQueue`, with one start and no kills.

### EndToEnd and TaskService

`EndToEnd` instantiates `Gateway` (without posts) and `TaskServers` over the
same transmissions. A *forward* is one transmission that reaches the gateway:
the first, an automatic retry or one of the worker. Attempt `n` of forward `f`
is the call `<<f, n>>`; it may arrive at the server the forward was bound to
whenever it has been sent, even after the gateway gave up on it
(`CallArrives`). `GatewayHears` is the one joint step: the answer of the current
attempt becomes the reply. A status 500 has no JSON body and ends the attempt.

`TaskService` has three variables and no attempts, breakers or stores: work
that was *begun*, tasks that are *remembered*, answers that were *told*. Work is
begun only for what is not remembered, only begun work is remembered, and a
success is told only of something remembered. `ServiceKeepsItsWord` (`TS!Spec`)
maps `begun` to the calls at work or beyond, `remembered` to the keys Redis
holds and `told` to the gateway's responses.

### Traditional

Client pool, gateway handler and server handler of one request are three
program counters. Whoever waits may leave by its timeout at any time
(`Unanswered`, `ForwardFails`), and what was sent may arrive after that, so the
server also works for requests nobody waits for. `Hear` keeps the server's reply
and picks the simulated losses; `Answered` tells success from failure by the
status in the body.

## The runs

Passing runs (each also checks the module's `TypeOK`, except that `endtoend`
leaves the types to the runs of its parts):

| Run | Properties | What it shows |
|---|---|---|
| `gateway` | `SlidingWindow` | refinement: the bounded deque implements the abstract window |
| | `CountsPrimaryOnly` | no outcome of the backup is counted, also by forwards that outlive the trip |
| | `PostsFollowForwards` | devices and reports do not go to another node than forwards went to |
| | `PrimaryDrains` | an open breaker leaves the primary a bounded, shrinking number of attempts |
| | `ForwardRunsDown` | every step of a forward lowers the awaits it has left; it does not end without a response |
| | `EveryForwardAnswered` | liveness through retries, fallback and stalls |
| `servers` | `HitsAgree`, `SuccessIsRemembered`, `HitIsASuccess` | what the store holds and hands out, under overlap, expiry, outage and restart |
| | `NoLaterExecution` | after a published success no server with Redis executes the task again |
| `queue` | `NoDuplicates` | no race puts a request into a list twice |
| | `IntactUnlessRaced` | without overlap the file is exactly the unsettled failures |
| | `BrokenFileStays` | a broken file is repaired by no `_enqueue`, worker or restart, and nothing is queued or settled any more |
| | `TurnsInOrder` | without a race every turn of the head brings each other failure one place forward, and nothing else changes their order |
| | `HealedOnce` | a failure is counted as healed twice in a run only when an `_enqueue` had written it back or a reply could not be parsed |
| | `NoStarvation` | liveness: if reports go on being answered, each entry gets its turn while retries fail |
| `alerts` | `RegistrationsLast` | an acknowledged registration stays stored until a send to that device is refused |
| | `PushReachesAll` | a push that returns tried every device whose registration stood when it began |
| | `DeadTokensGo` | what a push was refused stays out of the store until it is registered again |
| | `CutShortByAnother` | the cleanup ends a push early only where another push was at the same token |
| `emr` | `AlertTellsTruth` | no failed query, lost cluster or restart makes an alert lie; only the id of another cluster stored over the first one can make a step look failed |
| | `TimeoutsAreLate` | no step that ended a round before the limit is reported as timed out, unless a query failed |
| | `OnePush` | a monitor that comes to its end has pushed exactly once, a live one not yet, and what a device was told came from that push |
| | `MonitorRunsDown` | every step of a monitor lowers the time it has left, however its queries fail |
| | `MonitorEnds` | liveness: the clock ends every monitor |
| `client_run` | `ReportAddsUp` | the saved report counts each request once, as success or failure, and each failure was written to the queue, whatever overlaps; the retries it names are the requests transmitted twice. Without overlapping rewrites each failure is also settled or still in the file, and no more are named healed than failed |
| | `SilentEndSkipsOne` | a run without a report ended in `_enqueue`, and one failure, the one it was called for, was never queued (what became of the others in the file is not said) |
| | `RunEnds` | liveness: the run ends although the worker may hang for ever |
| `endtoend` | `ServiceKeepsItsWord` | refinement: gateway and servers implement `TaskService` |
| | `StepBehindSuccess` | who is told that a Big Data task was submitted has a step at EMR, of this very attempt |
| `traditional` | `SuccessesWereComputed` | no made-up, failed or late answer is counted as success |
| | `ReportAddsUp` | a saved report has each request in it once and stays true, whatever late work still goes on |
| | `RunEnds` | liveness: the report comes, with every request in it |

The other four runs each check one statement of the documentation, and TLC
finds it violated; see [disagreements](#where-code-and-documentation-disagree).

Eight runs and four counterexamples, rather than one run per property: each
component has one state space on which all its properties are asked.

## Bounds

| Run | Instance | Why it is enough |
|---|---|---|
| `gateway` | 3 forwards (2 of one Big Data task, 1 plain), 1 post, 2 attempts, window 3, threshold 1/2 | Six outcomes against a window of three: it fills, slides and trips in the middle of other forwards' attempts. An odd window makes the threshold fall between counts as 15 does. With one request per role and the last trip possible at any attempt, a further request repeats a role. |
| `servers` | 2 servers, 4 calls (2 deliveries of one request, 1 call of another type with the same key, 1 Big Data task) | Three calls on one key are the least for which NX matters: one publishes, one hits, and one that missed before publishes after. The fourth is never stored. Redis toggles, keys expire and servers restart without bound. The proofs cover more calls and servers. |
| `servers_wrong_type` | a `Model_Training` and a `Model_Inference` call with one number | the smallest collision of keys |
| `queue` | 3 entries, 2 starts (`Runs`), 1 unparsed reply (`MaxUnread`), kills allowed | Three entries make rotation differ from swapping; a second start is where a broken or stale file is met again. `Runs` bounds the starts; the violation run needs 2 entries and 1 start. |
| `alerts` | 2 servers, 2 tokens, 2 pushes, symmetric in each | two pushes race on one refused token while another device waits in both loops; no refusal, restart or registration is bounded |
| `client_run` | 3 requests, 2 threads, 1 automatic retry, `MaxUnread` = 0 | Two threads make results come out of order and leave a request waiting for a thread; three requests allow a success, a healed and an unhealed failure in one report, and an `_enqueue` while the worker holds a list of two. |
| `endtoend` | 2 transmissions (`MaxForwards`) of a pool of 3 (2 of one request, symmetric; 1 of a Big Data task), 2 attempts, window 2, 2 servers | Two transmissions of one request with two attempts each are four executions that can overlap on both servers. A window of 2 trips between the attempts. `EndToEndAssumption` has no Big Data task share its `task_id` with a task of another type: the four letters differ (`baseline.py:62-65`). The servers find Redis when they start and no key expires, which is the span of one experiment; links to Redis break and return, and servers die and start again without bound. |
| `traditional` | 3 requests, 2 threads | as in `client_run`, without retries |
| `emr` | 2 tasks, 2 clusters, `QUERY_INTERVAL` = 1, `MaxDelay` = 1, `TIMEOUT` = 2 | Two submissions can cache different clusters. A round takes 2 ticks, or 3 after a failed query: a monitor queries at 0 and at 2, or oversteps the limit with one sleep of 60 s, and a step that ends after the query at 2 is the one a timeout misses. The proofs are for all numbers. |

`DbMayFail` (gateway) and `MayBeKilled` (queue) only switch a fault on or off;
the passing runs have them on. Two counters are bounded by the instance itself:
attempts by `ATTEMPT_TIMES`, elapsed time by `MaxElapsed`, `TIMEOUT` plus one
sleep and its delays. Two bounds limit the environment: `MaxDelay` the delay of
a round, `MaxUnread` the replies to a run's retries that cannot be parsed.
`halvings`, `outcomes` and `self_healed_success` grow only with calls that are
finite in number.

No run switches deadlock checking off. `Quiet` in the gateway and `AllDown` in
the queue are the states where all is done.

## Fairness

Safety properties need none. For liveness:

* `Gateway`: weak fairness of what a forward does once it was accepted. The
  event loop runs every coroutine that is ready; httpx gives up after
  `GATEWAY_FORWARD_RESPONSE_TIMEOUT`, sleeps are finite, and the database
  driver is assumed to return or to raise. No call has to arrive.
* `Emr`: weak fairness of each monitor: sleeps end, and `describe_step` returns
  or raises. Nothing is assumed of EMR; a step may run for ever.
* `FaultQueue`: none. The report has no timeout (`client.py:71`), so nothing
  makes the worker go on; `NoStarvation` says that if reports are answered again
  and again, every entry gets its turn, unless the run ends or the entry is one
  the file does not hold any more.
* `ClientRun`: weak fairness of the pool's threads, of each transmission
  (`session.get` has a timeout) and of the main thread. Nothing is assumed of
  the worker, whose report has no timeout (`client.py:71`); `RunEnds` is about
  just that.
* `Traditional`: weak fairness of the client's threads, whose one GET has a
  timeout. Nothing is assumed of gateway and server.
* `TaskServers`, `Alerts` and `EndToEnd` state safety only.

## The proofs

Eight modules of theorems are checked by `tlapm` with SMT, Zenon and PTL:
`GatewayProofs` (470 obligations), `TaskServersProofs` (351),
`FaultQueueProofs` (827), `AlertsProofs` (501), `EmrProofs` (625),
`TraditionalProofs` (302), `ClientRunProofs` (691) and `EndToEndProofs` (825).
Except where a theorem states a hypothesis of its own, they rest on nothing but
the assumptions on constants:

* `GatewayAssumption`: each request asks for a task; window, attempts and the
  threshold's denominator are positive numbers.
* `ServersAssumption`: each call has a task and a type, and `None` is neither a
  call nor a server.
* `QueueAssumption`: there is a first start, `MaxUnread` is a number, and an emptied file, a garbled file
  and a list are three different things.
* `AlertsAssumption`, `EmrAssumption`: `None` is no server, token or cluster;
  the interval and the largest delay are positive numbers, the limit is a number.
* `TraditionalAssumption`: the requests are counted and the pool has a thread.
* `ClientAssumption`: likewise, the retries are counted, and it implies
  `QueueAssumption` for the run's queue (`QueueAssumed`).
* `EndToEndAssumption`: every forward has a task and a type; window, attempts
  and the threshold's denominator are positive; no Big Data task has the
  `task_id` of another type; `None` is no call and no server. It implies
  `ServersAssumption` (`ServersAssumed`) and `GatewayAssumption`
  (`GatewayAssumed`) for the two instances. That Big Data tasks have ids of
  their own is what `IdsTellMostTypes` proves of the ids the clients make.

| Theorem | Argument |
|---|---|
| `GatewayProofs!TypeCorrect` | `TypeOK` is inductive; `PushType` and `UpdateType` say what the deque's append keeps |
| `GatewayProofs!WindowRefinement` | `TypeOK` is too weak: that `Trips(req_window)` is `Trips(Recent(outcomes))` needs the deque to be the tail of the log. The strengthening is `WindowExact`, `req_window = Recent(outcomes)`; that an append on both sides keeps it is a lemma about sequences. Then a recorded outcome is `CB!Record`, and every other step a stutter |
| `GatewayProofs!PrimaryOnly` | per action, from the guards of `Succeed` and `Fail` and the early return of the open breaker; needs `Bound`: a forward bound to the backup implies an open breaker |
| `GatewayProofs!PostsGoAlong` | from the same invariant: with a forward at the backup the breaker is open and a backup exists |
| `GatewayProofs!PrimaryIsDrained` | per action: with the breaker open `Forward` chooses the backup, and `Retry` uses up what `PrimaryBudget` counts |
| `GatewayProofs!RunsDown` | per action, with the measure `AwaitsLeft` (four per attempt left, and what the present await still leads to); `Answered` is the invariant that a forward past its attempts holds a response |
| `TaskServersProofs!TypeCorrect` | `TypeOK` is inductive; `SetNXKeeps` and `FinishStep` describe publishing and the ends of work |
| `TaskServersProofs!HitsAlwaysAgree`, `SuccessStays`, `HitsAreSuccesses` | one inductive invariant `IInv`. To the properties it adds `StoreIsComputed` (what Redis holds was computed, for this key and by no Big Data call: it is where hits get their result from, also through a SET whose reply was lost) and `WorkIsNotBig` (a call at work is no Big Data task, so what it publishes is none) |
| `TaskServersProofs!NeverExecutedLater` | from `SuccessStays` in the state before the step: a miss means an empty key, hence nothing acknowledged |
| `TaskServersProofs!OnlyOverlapDuplicates` | from `[]OneAtATime`, that no two calls of a task are at work together, a second invariant: `WorkIsNew`, that a task at work on a server with Redis has no acknowledged success: it had none when its key was missed, and nobody else was at work to gain one |
| `TaskServersProofs!OnlyEqualIdsMixTypes`, `OnlyModelTypesMix` | a hit's result was computed for the same key (`IInv`); the second adds `IdsTellMostTypes`, a lemma about `TaskId`: equal ids mean equal types or two of the three `Model_` types |
| `FaultQueueProofs!TypeCorrect`, `NeverTwice`, `ExactWithoutRace` | One invariant `IInv`. `NoDuplicates` alone is not inductive: that an append adds a new entry needs `Known`, which says that a list in the file or in the worker's hands holds only entries whose `_enqueue` has returned, and the list of the main thread one more. `Calm` describes a run without a race: one thread at most is bound to rewrite the file, and what each then holds against `Pending`. `AppendFacts`, `TailFacts` and `RotateFacts` say what the three list operations do to entries and injectivity, `WriteFacts` what a write can leave |
| `FaultQueueProofs!NoRepair` | per action: an `_enqueue` or a poll that finds the file broken leaves `run()` or goes on polling, so no thread comes by a list to write, and only such a list is queued, confirmed or healed from |
| `FaultQueueProofs!NeverHealedTwice` | `Gone`: what the run has healed is not in the worker's list and not in a file it could read next; an `_enqueue` that writes a stale list takes from `healed` what it writes back |
| `FaultQueueProofs!NobodyIsOvertaken` | from `Calm`: the file, or the worker's list, is what the queue holds; and from `Copied`: the list `run()` is about to write is the file with one more failure at its end. `BeforeAppend` and `BeforeTail` say what an append and a removed head do to the entries in front of one; `TurnOrder` is the turn of the head, `OtherOrder` every other step |
| `FaultQueueProofs!OnlyRacesLose` | from `ExactWithoutRace`'s invariant: while `raced` is false the file holds exactly the pending entries when nobody is inside |
| `AlertsProofs!TypeCorrect`, `OnlyRefusalEnds`, `NobodySkipped`, `CleanupLasts` | One invariant. `RegistrationsLast` is not inductive alone: that a removal takes no promised token needs `PushInv`, by which the token a push is about to remove is not promised where it is stored. `PushInv` also says that what a push is due is tried or still in its copy, and that what it was refused is out of the store but for the token being removed |
| `AlertsProofs!OnlyAnotherCutsShort` | `CutInv`: the token a push without Redis is about to remove is still in the set, or another push at the server has sent to it; what was sent stays sent (`AnotherStays`) |
| `AlertsProofs!OnlyOverlapCutsShort` | from `[]OnePushEach`, that no server is at two pushes together, the invariant `StillThere`: the token a push without Redis is about to remove is in the set. Only another push at the same server could take it out |
| `EmrProofs!TypeCorrect`, `AlertsAreTrue`, `NoEarlyTimeout`, `PushedOnce` | One invariant. `SleepsInTime` bounds the clock by the limit plus one sleep and its delays; `InOrder` says that a step, an end, a push and an alert come in this order and that a monitor that came to its end has pushed; `SeenInTime`, the heart of `NoEarlyTimeout`, that a monitor of a step that ended in time still has a query left, unless one failed; `ClusterKept`, that of `AlertsAreTrue`, that a monitor's step is of the cached cluster until another id replaces it |
| `EmrProofs!MonitorsRunDown` | per action, with the measure `TimeLeft`; that it stays positive before each step is the bound of the clock in `TypeOK` |
| `TraditionalProofs!ReportIsComplete` | `Reported`: the report holds the counters of a main thread that has collected everything, and those do not change any more; `AddsUp` and `SuccessesWereComputed` then carry over to it |
| `TraditionalProofs!TypeCorrect`, `SuccessesAreReal` | `AddsUp` (the counters are the number of counted requests), `Founded` (behind a success on each hop lies a success on the hop below) and `CountedSuccess`, with the cardinality theorems of the library: counting one more request adds one to both sides |
| `ClientRunProofs!TypeCorrect`, `EveryRequestAccounted` | `QueueSteps` shows that every step of a run is one of the queue or leaves it alone, so the invariant of `FaultQueueProofs` holds here without being proved again. To it are added `Books` (the counters are sizes of sets of requests: those counted as success, those as failure), `Notes` (the retries noted are those of requests sent twice), `Stations` (what the main thread's position says about the requests: none uncounted once it waits, and every counted failure then enqueued) and `Healed` (without a race the healed and the unparsed are what the counter counts). `ReportAddsUp` then follows with the cardinality theorems: the list in the file is as long as the set of its entries (`LengthIsSize`), which is the failures without the settled ones (`DisjointSizes`) |
| `ClientRunProofs!RunsTheQueue`, `QueueInARun` | `QueueSteps` again, now as a refinement: a run is a behaviour of `FaultQueue`, so every theorem about the queue is one about the run. Five are stated |
| `ClientRunProofs!SilenceSkipsOne` | `OneSkipped`: the main thread crashes in `_enqueue` only, with the request it has just collected, and `Stations` says that all earlier failures were written to the queue |
| `EndToEndProofs!ServersRun`, `ServersAtTheGateway` | `ServersMove`: each step is one of `TaskServers` or leaves the servers alone, as an attempt goes to the server its forward was bound to (`ForwardInv`). So a behaviour of the composition is one of `TaskServers`, and its theorems are cited |
| `EndToEndProofs!PatienceExecutesOnce` | `OneAtATime` traced back to the two hops before the servers: `GatewayWaits` (no server works for an attempt the gateway has given up) and `OneByOne` (no two forwards of one `task_id` wait together) imply it, and `OnlyOverlapDuplicates` carries over by `ServersRun` |
| `EndToEndProofs!GatewayRuns`, `GatewayAtTheServers` | the same for `Gateway`: hearing an answer is a `Reply`. `SameServers` and `SameGateway` identify the operators of the model's instances with those of the proofs' |
| `EndToEndProofs!SubmissionsAreReal`, `ServiceRefinement` | The servers' steps are steps of `TaskServers` (`ServersInductive`), so its invariant carries over. To it are added `Connected` (every server found Redis), `CallInv` (a success a plain call answered has its key in the store, a submission its step) and `ForwardInv` (the same of a success the gateway has kept, and that nothing is kept before an answer is heard). `HeardIsBacked` joins them: the hit of a Big Data call is excluded, as the store holds no such result. A key never leaves the store (`Grows`), so what was backed stays backed (`QuietCall`, `QuietForward`). Then each step is one of `TaskService` or a stutter: an arrival that misses is `Begin`, the SET of a finished call, its reply lost or not, is `Remember`, what the gateway keeps or makes up is `Tell` |

**Safety cores of the liveness properties.** That something ends needs
fairness and stays with TLC. What does not need it is proved for every
instance: a forward and a monitor have a measure in the natural numbers that
every step of theirs lowers (`RunsDown`, `MonitorsRunDown`), so neither can go
round for ever, and neither leaves without what it owes, a response or a push
(`RunsDown`, `PushedOnce`). In the queue, turns come in order
(`NobodyIsOvertaken`): an entry at place `k` is at the head after `k - 1` turns.
What fairness adds is that the next step comes.

**What lies behind the counterexamples.** A violated statement of the
documentation does not say how much of it is left. For three of the four runs
that end in a violation, and for the `KeyError` of overlapping cleanups, a
theorem says what they need: overlapping calls of one task
(`OnlyOverlapDuplicates`; seen from the gateway, an attempt given up while its
server works or two forwards of one `task_id` at a time,
`PatienceExecutesOnce`), two of the three `Model_` types
(`OnlyModelTypesMix`), overlapping or broken rewrites of the file
(`OnlyRacesLose`), overlapping pushes at one server (`OnlyOverlapCutsShort`,
and more exactly `OnlyAnotherCutsShort`). For the fourth, `PushedOnce` says
where a promised alert that does not come has gone: the monitor died of an
exception, or with its server, or its one push reached nobody. The hypotheses can hold together with the interesting
cases: with them as constraints, TLC still reaches a hit beside a failed call
of its task, two failures settled of which one was healed by its retry, and a
push that has removed a token while another one is under way.

**What compositions inherit.** `EndToEnd` and `ClientRun` are proved to be
behaviours of the modules they compose (`ServersRun`, `GatewayRuns`,
`RunsTheQueue`), so that the components' theorems hold in them without being
proved again, and their runs need not repeat the components' properties.

What TLC alone shows: the liveness properties (`EveryForwardAnswered`,
`NoStarvation`, `MonitorEnds`, the two `RunEnds`), as liveness
under fairness and `ENABLED` are out of the prover's reach. Every other
property of a passing run is a theorem. That the measures above reach zero after
that many steps is an induction over their value and is left to the reader. The
violations are counterexamples and need no proof.

## Where code and documentation disagree

Each with a run, its counterexample and the line quoted in `PROJECT.json`:

| Run | Said | Done |
|---|---|---|
| `servers_duplicate` | README.md:19, 59: no duplicate execution | two overlapping deliveries both miss and both execute; SET NX only decides whose result is kept |
| `servers_wrong_type` | README.md:19: `task_id` identifies the task | four letters of the type: a `Model_Inference` call is answered with a `Model_Training` result |
| `queue_lost` | README.md:24: failures are stored | the worker rewrites the file from a read made before its HTTP calls |
| `emr_notified` | server.py:307: "You will be notified" | the monitor is lost with the server, or dies of an exception, or its push reaches nobody |

Others were met while modelling and have no run of their own. TLC confirmed
these on the same models: nothing calls `_save_to_cache`, so no success is ever
written to RDS (README.md:16, `gateway.py:118`); a server that found Redis at
its start answers 500 while it is lost, instead of executing the task
(README.md:5, `server.py:56, 282, 320`); without Redis, the second of two
overlapping cleanups raises `KeyError` and cuts its push short (README.md:21,
`server.py:115-119`); a device that registers again between the refusal of its
token and the removal is answered "success" and forgotten (`server.py:110-119,
349-361`); with a client that knows `InvalidStepIdException`, a step submitted
beside a first submission that stored another cluster is reported as failed
while it runs (`server.py:134, 187-201`); a step that ends in the last round
before the limit is reported as timed out (`server.py:215-226`). A forward that was bound to the primary goes on retrying it after the
trip (README.md:15; `PrimaryDrains` bounds how often). Every delivery of a Big
Data task adds an EMR step (README.md:19). `_enqueue` can read the truncated
file, and the JSON error ends `run()` (README.md:24). An `_enqueue` that read
before the worker removed an entry writes it back (client.py:81). The last
wait of the run ends by the clock with failures still queued (client.py:293);
`ReportAddsUp` counts them.

Two more are seen by comparing the modes. README.md:59 says that the
traditional mode duplicates tasks on retry and the distributed one never does;
the traditional client sends each request once (`Traditional!Send`), while the
distributed mode is the one whose retries can overlap (`servers_duplicate`). And
the distributed client counts every reply of status 200 as a success, or as
self-healed, also one whose status says failed (client.py:108, 201-206), while
the traditional client looks at the status (traditional/client/client.py:54), so
the two success rates do not measure the same thing.

## What is not modelled

* `_save_to_cache`, `_clear_cache_table`, CSV export: no caller.
* The client's sums of latencies and bytes: arithmetic on measurements. (The
  traditional client's count of answers with bytes is kept.)
* The content of messages, results and alerts, Firebase delivery after a send
  was accepted, network latencies: no property depends on them.
* `crime_classification.py`, `Big_Data_Task.py`: computations inside Spark.
* `logger_config.py`, the `*_main.py` entry points: no protocol state. The
  deployment they fix (a backup is configured) is `HasBackup`.
* Errors of the client's disk, which `_async_worker` would take for a failed
  retry (`client.py:115-126`) or a failed report (`83, 128`); a write that reaches the file in several pieces
  (the queue's text fits one buffer of the file object).

## Plan

Done: the components with their runs, the compositions `EndToEnd` and
`ClientRun`, both abstract specifications, the proofs about the six components
and about both compositions, the safety cores of the liveness properties, what
lies behind the counterexamples, and that the compositions implement their
parts. Left:

1. The dead end of a cached cluster id (`Emr`): after a submission stored a
   cluster that is gone, every later submission fails until a restart.
2. `EndToEnd` with expiry of keys, where the promise has to be weakened to the
   life of a key as in `SuccessIsRemembered`.

Considered and left out: `Alerts` and `Emr` composed. They meet in one function
call, and what one could say of the whole is the conjunction of what is proved
of the halves (`NobodySkipped`, `AlertsAreTrue`, `PushedOnce`).

## How to run

```
tlc -workers 2 -config MCGateway.cfg MCGateway.tla
tlapm GatewayProofs.tla
```

`PROJECT.json` lists the components with their status, the runs with what they
are expected to show, the mutants, the source lines of every definition, the
hazards with the properties that cover them, and the theorems. With two
workers `endtoend`, `client_run`, `alerts` and `emr` take two to three minutes
each, `gateway` about a minute and a half, the others less than half a minute.
