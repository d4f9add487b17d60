---------------------------------- MODULE Emr ----------------------------------
(***************************************************************************)
(* Big Data tasks on EMR (_get_cluster_id, submit_emr_spark_job,           *)
(* _check_emr_status_sync and _monitor_emr_task of distributed/server/     *)
(* server.py and server_backup.py): a step is added to the cluster in a    *)
(* thread, and a background task of the server then polls its state until  *)
(* it can alert the devices.  The two servers share nothing of this; the   *)
(* module is one of them.                                                  *)
(*                                                                         *)
(* Time is the wall clock in ticks.  It passes in every round of a monitor *)
(* by the sleep that ends the round and by a delay: the time of the query  *)
(* and what the sleep and the event loop take too long.                    *)
(***************************************************************************)
EXTENDS Integers

CONSTANTS
  Jobs,        \* the Big Data tasks that pass the idempotency check
  Clusters,    \* the ids EMR gives to clusters named EMR_CLUSTER_NAME
  QUERY_INTERVAL,  \* 30 s, in ticks; the sleep of 60 s is twice as long
  TIMEOUT,         \* EMR_TIMEOUT, in ticks
  MaxDelay,        \* bounds the delay of a round
  None

ASSUME EmrAssumption ==
  /\ QUERY_INTERVAL \in Nat \ {0} /\ MaxDelay \in Nat \ {0}
  /\ TIMEOUT \in Nat
  /\ None \notin Clusters

VARIABLES
  known,               \* whether the client has an InvalidStepIdException
  clusters,            \* EMR: "new", "active" (RUNNING, WAITING) or "ended"
  home, step,          \* EMR: the cluster and the state of each job's step
  _cached_cluster_id,
  pc, cluster_id,      \* of each job: its state, the local of its submission
  answer,              \* the reply to the client
  elapsed,             \* since its monitor's start_time, at its last look
  alert,               \* what a device was told of it
  (* History: *)
  pushes,              \* the pushes of its monitor
  chance,              \* "open"; "due": the step ended in time to be seen;
                       \* "gone": it ended later, or a query failed
  overwritten          \* a cached id was replaced by another one

emr     == <<known, clusters, home, step>>
cache   == <<_cached_cluster_id, overwritten>>
job     == <<cluster_id, answer, elapsed, alert, pushes, chance>>
vars    == <<emr, cache, pc, job>>

PCs == {"idle",
        "storing", "returning", "adding", "added",    \* submit_emr_spark_job
        "polling", "sleeping", "sleeping60",          \* _monitor_emr_task
        "ended", "died", "refused", "lost"}

Submitting == {"storing", "returning", "adding", "added"}
Monitoring == {"polling", "sleeping", "sleeping60"}

(* "active" stands for PENDING, RUNNING and CANCEL_PENDING, "CANCELLED"    *)
(* for CANCELLED and INTERRUPTED.                                          *)
BadEnds == {"FAILED", "CANCELLED"}
Steps   == BadEnds \cup {"none", "active", "COMPLETED"}

(* The last round begins within the limit. *)
MaxElapsed == TIMEOUT + 2 * QUERY_INTERVAL + MaxDelay

TypeOK ==
  /\ known \in BOOLEAN /\ overwritten \in BOOLEAN
  /\ clusters \in [Clusters -> {"new", "active", "ended"}]
  /\ home \in [Jobs -> Clusters \cup {None}]
  /\ step \in [Jobs -> Steps]
  /\ _cached_cluster_id \in Clusters \cup {None}
  /\ pc \in [Jobs -> PCs]
  /\ cluster_id \in [Jobs -> Clusters \cup {None}]
  /\ answer \in [Jobs -> {"none", "emr", "failed", "lost"}]
  /\ elapsed \in [Jobs -> 0 .. MaxElapsed]
  /\ alert \in [Jobs -> {"none", "completed", "failed", "timeout"}]
  /\ pushes \in [Jobs -> {0, 1}]
  /\ chance \in [Jobs -> {"open", "due", "gone"}]

Init ==
  /\ known \in BOOLEAN /\ overwritten = FALSE
  /\ clusters = [c \in Clusters |-> "new"]
  /\ home = [j \in Jobs |-> None]
  /\ step = [j \in Jobs |-> "none"]
  /\ _cached_cluster_id = None
  /\ pc = [j \in Jobs |-> "idle"]
  /\ cluster_id = [j \in Jobs |-> None]
  /\ answer = [j \in Jobs |-> "none"]
  /\ elapsed = [j \in Jobs |-> 0]
  /\ alert = [j \in Jobs |-> "none"]
  /\ pushes = [j \in Jobs |-> 0]
  /\ chance = [j \in Jobs |-> "open"]

-----------------------------------------------------------------------------
(* submit_emr_spark_job, in a thread of its own *)

(* A failed result, or an exception, which is an error 500. *)
Refuse(j) ==
  /\ pc' = [pc EXCEPT ![j] = "refused"]
  /\ answer' = [answer EXCEPT ![j] = "failed"]
  /\ cluster_id' = [cluster_id EXCEPT ![j] = None]

(* _get_cluster_id: the cached id; or one that list_clusters names; or     *)
(* none, when it names none or raises.                                     *)
GetClusterId(j) ==
  /\ pc[j] = "idle"
  /\ \/ /\ _cached_cluster_id # None
        /\ cluster_id' = [cluster_id EXCEPT ![j] = _cached_cluster_id]
        /\ pc' = [pc EXCEPT ![j] = "adding"]
        /\ UNCHANGED answer
     \/ /\ _cached_cluster_id = None
        /\ \/ \E c \in Clusters :
                /\ clusters[c] = "active"
                /\ cluster_id' = [cluster_id EXCEPT ![j] = c]
                /\ pc' = [pc EXCEPT ![j] = "storing"]
                /\ UNCHANGED answer
           \/ Refuse(j)
  /\ UNCHANGED <<emr, cache, elapsed, alert, pushes, chance>>

(* Mutant for TypeOK: what is kept is the list of clusters. *)
StoreList(j) ==
  /\ pc[j] = "storing"
  /\ _cached_cluster_id' = {cluster_id[j]}
  /\ pc' = [pc EXCEPT ![j] = "returning"]
  /\ UNCHANGED <<emr, overwritten, job>>

Store(j) ==
  /\ pc[j] = "storing"
  /\ _cached_cluster_id' = cluster_id[j]
  /\ overwritten' =
       (overwritten \/ _cached_cluster_id \notin {None, cluster_id[j]})
  /\ pc' = [pc EXCEPT ![j] = "returning"]
  /\ UNCHANGED <<emr, job>>

(* What is returned is the attribute, which another thread may have set. *)
ReturnClusterId(j) ==
  /\ pc[j] = "returning"
  /\ cluster_id' = [cluster_id EXCEPT ![j] = _cached_cluster_id]
  /\ pc' = [pc EXCEPT ![j] = "adding"]
  /\ UNCHANGED <<emr, cache, answer, elapsed, alert, pushes, chance>>

(* add_job_flow_steps: EMR takes the step in ... *)
AddStep(j) ==
  /\ pc[j] = "adding"
  /\ clusters[cluster_id[j]] = "active"
  /\ home' = [home EXCEPT ![j] = cluster_id[j]]
  /\ step' = [step EXCEPT ![j] = "active"]
  /\ cluster_id' = [cluster_id EXCEPT ![j] = None]
  /\ pc' = [pc EXCEPT ![j] = "added"]
  /\ UNCHANGED <<known, clusters, cache,
                 answer, elapsed, alert, pushes, chance>>

(* ... and its id comes back: the monitor starts after the answer. *)
Accept(j) ==
  /\ pc[j] = "added"
  /\ answer' = [answer EXCEPT ![j] = "emr"]
  /\ pc' = [pc EXCEPT ![j] = "polling"]
  /\ UNCHANGED <<emr, cache, cluster_id, elapsed, alert, pushes, chance>>

(* The call raises, its step taken in or not: None is returned, or the     *)
(* names in the except clauses, which the EMR client need not know, raise. *)
SubmitFails(j) ==
  /\ pc[j] \in {"adding", "added"}
  /\ Refuse(j)
  /\ UNCHANGED <<emr, cache, elapsed, alert, pushes, chance>>

-----------------------------------------------------------------------------
(* _monitor_emr_task *)

(* _push_to_alert_system tells the devices, or nobody: no token is         *)
(* registered, or every send failed.  Either way it may raise, before its  *)
(* first send or after one.                                                *)
Push(j, verdict) ==
  /\ pushes' = [pushes EXCEPT ![j] = @ + 1]
  /\ alert' \in {alert, [alert EXCEPT ![j] = verdict]}
  /\ \E end \in {"ended", "died"} : pc' = [pc EXCEPT ![j] = end]
  /\ elapsed' = [elapsed EXCEPT ![j] = 0]

(* Mutant for OnePush: the loop is left before the push. *)
TimeoutSilent(j) ==
  /\ pc[j] = "polling"
  /\ elapsed[j] > TIMEOUT
  /\ pc' = [pc EXCEPT ![j] = "ended"]
  /\ elapsed' = [elapsed EXCEPT ![j] = 0]
  /\ UNCHANGED <<emr, cache, cluster_id, answer, alert, pushes, chance>>

Timeout(j) ==
  /\ pc[j] = "polling"
  /\ elapsed[j] > TIMEOUT
  /\ Push(j, "timeout")
  /\ UNCHANGED <<emr, cache, cluster_id, answer, chance>>

(* Mutants: a failed query is taken for a failed step (AlertTellsTruth);   *)
(* cancelled steps are forgotten (TimeoutsAreLate).                        *)
FailedOrUnknown == {"FAILED", "CANCELLED", "UNKNOWN"}
FailedOnly      == {"FAILED"}

FailedStates == {"FAILED", "CANCELLED"}

React(j, state) ==
  CASE state = "COMPLETED"      -> Push(j, "completed")
    [] state \in FailedStates   -> Push(j, "failed")
    [] state = "UNKNOWN"        -> /\ pc' = [pc EXCEPT ![j] = "sleeping60"]
                                   /\ UNCHANGED <<alert, pushes, elapsed>>
    [] OTHER                    -> /\ pc' = [pc EXCEPT ![j] = "sleeping"]
                                   /\ UNCHANGED <<alert, pushes, elapsed>>

(* _check_emr_status_sync asks the cluster of the cached id, which is set  *)
(* as long as a monitor runs: only a restart clears it.  Asked of another  *)
(* cluster, the step is an invalid one, which is FAILED.  Any call may     *)
(* also fail, which is UNKNOWN; but when the client has no exception of    *)
(* that name, the except clause raises and ends the monitor.               *)
Query(j) ==
  /\ pc[j] = "polling"
  /\ elapsed[j] <= TIMEOUT
  /\ \/ /\ _cached_cluster_id = home[j]
        /\ React(j, step[j])
        /\ UNCHANGED chance
     \/ /\ _cached_cluster_id # home[j] /\ known
        /\ React(j, "FAILED")
        /\ UNCHANGED chance
     \/ /\ known
        /\ React(j, "UNKNOWN")
        /\ chance' = [chance EXCEPT ![j] = "gone"]
     \/ /\ ~known
        /\ pc' = [pc EXCEPT ![j] = "died"]
        /\ elapsed' = [elapsed EXCEPT ![j] = 0]
        /\ UNCHANGED <<alert, pushes, chance>>
  /\ UNCHANGED <<emr, cache, cluster_id, answer>>

(* Mutant for MonitorEnds and MonitorRunsDown: start_time is taken in      *)
(* every round.                                                            *)
ElapsedOfRound(j, pause) == {pause + delay : delay \in 1 .. MaxDelay}

ElapsedAfter(j, pause) == {elapsed[j] + pause + delay : delay \in 1 .. MaxDelay}

Pause(j) == IF pc[j] = "sleeping" THEN QUERY_INTERVAL ELSE 2 * QUERY_INTERVAL

Wake(j) ==
  /\ pc[j] \in {"sleeping", "sleeping60"}
  /\ elapsed' \in {[elapsed EXCEPT ![j] = now] : now \in ElapsedAfter(j, Pause(j))}
  /\ pc' = [pc EXCEPT ![j] = "polling"]
  /\ UNCHANGED <<emr, cache, cluster_id, answer, alert, pushes, chance>>

-----------------------------------------------------------------------------
(* The environment: EMR runs steps and clusters come and go; the server    *)
(* dies, with its threads and background tasks, and starts again.          *)

(* The latest end of the round that j's monitor is in, or has before it. *)
RoundEnds(j) == elapsed[j] + QUERY_INTERVAL + MaxDelay

(* A step completes only while its cluster is there. *)
StepEnds(j) ==
  /\ step[j] = "active"
  /\ step' \in {[step EXCEPT ![j] = state] : state \in
                  IF clusters[home[j]] = "active"
                    THEN BadEnds \cup {"COMPLETED"} ELSE BadEnds}
  /\ chance' = [chance EXCEPT ![j] =
                  IF /\ chance[j] = "open" /\ RoundEnds(j) <= TIMEOUT
                     /\ pc[j] \in Submitting \cup Monitoring
                    THEN "due" ELSE "gone"]
  /\ UNCHANGED <<known, clusters, home, cache, pc,
                 cluster_id, answer, elapsed, alert, pushes>>

ClusterStarts(c) ==
  /\ clusters[c] = "new"
  /\ clusters' = [clusters EXCEPT ![c] = "active"]
  /\ UNCHANGED <<known, home, step, cache, pc, job>>

ClusterEnds(c) ==
  /\ clusters[c] = "active"
  /\ clusters' = [clusters EXCEPT ![c] = "ended"]
  /\ UNCHANGED <<known, home, step, cache, pc, job>>

Restart ==
  LET dead == {j \in Jobs : pc[j] \in Submitting \cup Monitoring} IN
  /\ _cached_cluster_id' = None
  /\ pc' = [j \in Jobs |-> IF j \in dead THEN "lost" ELSE pc[j]]
  /\ answer' = [j \in Jobs |->
                  IF pc[j] \in Submitting THEN "lost" ELSE answer[j]]
  /\ cluster_id' = [j \in Jobs |-> None]
  /\ elapsed' = [j \in Jobs |-> 0]
  /\ UNCHANGED <<emr, overwritten, alert, pushes, chance>>

Submission(j) ==
  \/ GetClusterId(j) \/ Store(j) \/ ReturnClusterId(j)
  \/ AddStep(j) \/ Accept(j) \/ SubmitFails(j)
Monitor(j) == Timeout(j) \/ Query(j) \/ Wake(j)

Next ==
  \/ \E j \in Jobs : Submission(j) \/ Monitor(j) \/ StepEnds(j)
  \/ \E c \in Clusters : ClusterStarts(c) \/ ClusterEnds(c)
  \/ Restart

(* The event loop resumes a monitor whose sleep or query has ended. *)
Spec     == Init /\ [][Next]_vars
FairSpec == Spec /\ \A j \in Jobs : WF_vars(Monitor(j))

-----------------------------------------------------------------------------
(* Properties *)

(* The devices are told the truth: an alert of success only of a step that *)
(* completed, one of failure only of a step that did not, through failed   *)
(* queries, clusters that are gone and restarts.  Only when two first      *)
(* submissions overlapped and the id of one cluster replaced that of       *)
(* another may a step be called failed that is not: it is asked of a       *)
(* cluster that does not know it (server.py:123-136, 184-204, 233-256).    *)
AlertTellsTruth ==
  \A j \in Jobs :
    /\ alert[j] = "completed" => step[j] = "COMPLETED"
    /\ alert[j] = "failed" => step[j] \in BadEnds \/ (known /\ overwritten)

(* A step that ended in a round whose end was within EMR_TIMEOUT is not    *)
(* reported as timed out, unless a query failed on the way: only the last  *)
(* sleep and the delays of its round can take the chance to see the end    *)
(* (server.py:211-265).                                                    *)
TimeoutsAreLate ==
  \A j \in Jobs : alert[j] = "timeout" => chance[j] # "due"

(* The rounds a monitor still has before it, at most, in half ticks. *)
TimeLeft(j) ==
  IF pc[j] \notin Monitoring THEN 0
  ELSE 2 * (MaxElapsed + 1 - elapsed[j]) + (IF pc[j] = "polling" THEN 1 ELSE 0)

(* Every step of a monitor brings its end nearer, whatever its queries     *)
(* return, however they fail and however long they take: the core of       *)
(* MonitorEnds that needs no fairness (server.py:211-265).                 *)
MonitorRunsDown ==
  [][\A j \in Jobs :
       pc[j] \in Monitoring /\ (pc'[j] # pc[j] \/ elapsed'[j] # elapsed[j])
       => TimeLeft(j)' < TimeLeft(j)]_vars

(* A client that was promised a notification gets one push: none while its *)
(* step is watched, exactly one from a monitor that came to its end, at    *)
(* most one from a monitor that died, by itself or with the server.  What  *)
(* a device was told came from that push, which may also have reached      *)
(* nobody (server.py:81-83, 105-119, 206-265, 291-311).                    *)
OnePush ==
  \A j \in Jobs : answer[j] = "emr" =>
    /\ pc[j] \in Monitoring \cup {"ended", "died", "lost"}
    /\ pc[j] \in Monitoring => pushes[j] = 0
    /\ pc[j] = "ended" => pushes[j] = 1
    /\ alert[j] # "none" => pushes[j] = 1

(* No monitor polls for ever: it pushes, or dies of an exception or with   *)
(* its server, however often queries fail (server.py:213-265).             *)
MonitorEnds ==
  \A j \in Jobs : pc[j] = "polling" ~> pc[j] \in {"ended", "died", "lost"}

-----------------------------------------------------------------------------
(* A statement of the code's own reply that the code does not keep *)

(* "Task submitted to EMR. You will be notified via Firebase upon          *)
(* completion." (server.py:307)                                            *)
Notified == \A j \in Jobs : answer[j] = "emr" ~> alert[j] # "none"
=============================================================================
