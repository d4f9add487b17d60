------------------------------ MODULE EmrProofs ------------------------------
(***************************************************************************)
(* Proofs about Big Data tasks on EMR, for any number of tasks and         *)
(* clusters, any intervals and any time limit.                             *)
(***************************************************************************)
EXTENDS Emr, TLAPS

Ended == BadEnds \cup {"COMPLETED"}

(* A monitor sleeps only within the limit, and for 60 s only after a query *)
(* that failed.                                                            *)
SleepsInTime ==
  \A j \in Jobs :
    /\ pc[j] \in {"sleeping", "sleeping60"} => elapsed[j] <= TIMEOUT
    /\ pc[j] = "sleeping60" => chance[j] = "gone"
    /\ pc[j] \notin Monitoring => elapsed[j] = 0

(* A job has no step, no end, no push and no alert before it could have    *)
(* one; a monitor that came to its end has pushed.                         *)
InOrder ==
  \A j \in Jobs :
    /\ pc[j] \in {"idle", "storing", "returning", "adding"} =>
         step[j] = "none" /\ chance[j] = "open"
    /\ pc[j] \notin {"ended", "died"} => pushes[j] = 0 /\ alert[j] = "none"
    /\ pc[j] = "ended" => pushes[j] = 1
    /\ alert[j] # "none" => pushes[j] = 1
    /\ chance[j] = "due" => step[j] \in Ended
    /\ answer[j] = "emr" => pc[j] \in Monitoring \cup {"ended", "died", "lost"}

(* With a step that ended in time there is time for one more query. *)
SeenInTime ==
  \A j \in Jobs :
    chance[j] = "due" =>
      /\ pc[j] = "polling" => elapsed[j] <= TIMEOUT
      /\ pc[j] = "sleeping" => RoundEnds(j) <= TIMEOUT

(* The id a submission has read stays cached while the server runs, and    *)
(* until another id replaces it the steps are of that cluster.             *)
ClusterKept ==
  \A j \in Jobs :
    /\ pc[j] = "storing" => cluster_id[j] # None
    /\ pc[j] \in {"returning", "adding", "added"} \cup Monitoring =>
         _cached_cluster_id # None
    /\ pc[j] = "adding" => overwritten \/ cluster_id[j] = _cached_cluster_id
    /\ pc[j] \in {"added"} \cup Monitoring => overwritten \/ home[j] = _cached_cluster_id

IInv == TypeOK /\ SleepsInTime /\ InOrder /\ SeenInTime /\ ClusterKept
          /\ AlertTellsTruth /\ TimeoutsAreLate

(* The clock in numbers. *)
LEMMA Clock ==
  /\ QUERY_INTERVAL \in Nat \ {0} /\ MaxDelay \in Nat \ {0} /\ TIMEOUT \in Nat
  /\ MaxElapsed \in Nat /\ TIMEOUT + QUERY_INTERVAL + MaxDelay <= MaxElapsed
  /\ TIMEOUT + 2 * QUERY_INTERVAL + MaxDelay = MaxElapsed
  /\ 0 \in 0 .. MaxElapsed
BY EmrAssumption DEF MaxElapsed

LEMMA TypeInit == Init => TypeOK
<1> SUFFICES ASSUME Init PROVE TypeOK
  OBVIOUS
<1>1. known \in BOOLEAN /\ overwritten \in BOOLEAN
  BY Zenon DEF Init
<1>2. /\ clusters \in [Clusters -> {"new", "active", "ended"}]
      /\ home \in [Jobs -> Clusters \cup {None}]
      /\ step \in [Jobs -> Steps]
      /\ _cached_cluster_id \in Clusters \cup {None}
      /\ pc \in [Jobs -> PCs]
      /\ cluster_id \in [Jobs -> Clusters \cup {None}]
  BY DEF Init, Steps, PCs
<1>3. /\ answer \in [Jobs -> {"none", "emr", "failed", "lost"}]
      /\ elapsed \in [Jobs -> 0 .. MaxElapsed]
      /\ alert \in [Jobs -> {"none", "completed", "failed", "timeout"}]
      /\ pushes \in [Jobs -> {0, 1}]
      /\ chance \in [Jobs -> {"open", "due", "gone"}]
  BY Clock DEF Init
<1> QED BY <1>1, <1>2, <1>3 DEF TypeOK

(* The submission of a job is no matter of any monitor. *)
LEMMA SubmissionKeeps ==
  ASSUME IInv, NEW j \in Jobs, Submission(j)
  PROVE  IInv'
<1> USE DEF IInv
<1>1. TypeOK'
  <2>1. CASE GetClusterId(j)
    BY <2>1 DEF GetClusterId, Refuse, TypeOK, PCs, emr, cache
  <2>2. CASE Store(j)
    BY <2>2 DEF Store, TypeOK, PCs, emr, job
  <2>3. CASE ReturnClusterId(j)
    BY <2>3 DEF ReturnClusterId, TypeOK, PCs, emr, cache
  <2>4. CASE AddStep(j)
    BY <2>4 DEF AddStep, TypeOK, PCs, Steps, cache
  <2>5. CASE Accept(j)
    BY <2>5 DEF Accept, TypeOK, PCs, emr, cache
  <2>6. CASE SubmitFails(j)
    BY <2>6 DEF SubmitFails, Refuse, TypeOK, PCs, emr, cache
  <2> QED BY <2>1, <2>2, <2>3, <2>4, <2>5, <2>6 DEF Submission
<1>2. UNCHANGED <<elapsed, alert, pushes, chance, known>> /\ (overwritten => overwritten')
  <2>1. UNCHANGED <<elapsed, alert, pushes, chance, known>>
    BY DEF Submission, GetClusterId, Store, ReturnClusterId, AddStep, Accept, SubmitFails,
           emr, job
  <2>2. UNCHANGED overwritten
        \/ overwritten' = (overwritten \/ _cached_cluster_id \notin {None, cluster_id[j]})
    BY DEF Submission, GetClusterId, Store, ReturnClusterId, AddStep, Accept, SubmitFails,
           cache
  <2>3. overwritten => overwritten'
    BY ONLY <2>2, Zenon
  <2> QED BY <2>1, <2>3
<1>3. /\ pc[j] \in {"idle", "storing", "returning", "adding", "added"}
      /\ pc'[j] \in {"storing", "returning", "adding", "added", "polling", "refused"}
      /\ \A k \in Jobs : k # j =>
           /\ pc'[k] = pc[k] /\ step'[k] = step[k] /\ answer'[k] = answer[k]
           /\ home'[k] = home[k] /\ cluster_id'[k] = cluster_id[k]
  BY DEF Submission, GetClusterId, Refuse, Store, ReturnClusterId, AddStep, Accept,
         SubmitFails, TypeOK, emr, job
<1>4. /\ \/ UNCHANGED step /\ pc'[j] # "added"
         \/ pc[j] = "adding" /\ pc'[j] = "added"
      /\ pc'[j] \in {"storing", "returning", "adding"} =>
           pc[j] \in {"idle", "storing", "returning"}
      /\ pc'[j] = "polling" => pc[j] = "added"
      /\ answer'[j] = "emr" => answer[j] = "emr" \/ pc'[j] = "polling"
  <2>1. CASE GetClusterId(j)
    <3>1. pc'[j] \in {"storing", "adding", "refused"} /\ pc[j] = "idle"
      BY <2>1 DEF GetClusterId, Refuse, IInv, TypeOK
    <3> QED BY <2>1, <3>1 DEF GetClusterId, Refuse, TypeOK, emr
  <2>2. CASE Store(j)
    BY <2>2 DEF Store, TypeOK, emr, job
  <2>3. CASE ReturnClusterId(j)
    BY <2>3 DEF ReturnClusterId, TypeOK, emr
  <2>4. CASE AddStep(j)
    BY <2>4 DEF AddStep, TypeOK
  <2>5. CASE Accept(j)
    BY <2>5 DEF Accept, TypeOK, emr
  <2>6. CASE SubmitFails(j)
    <3>1. pc'[j] = "refused"
      BY <2>6 DEF SubmitFails, Refuse, TypeOK
    <3> QED BY <2>6, <3>1 DEF SubmitFails, Refuse, TypeOK, emr
  <2> QED BY <2>1, <2>2, <2>3, <2>4, <2>5, <2>6 DEF Submission
<1>5. elapsed[j] = 0
  BY <1>3 DEF SleepsInTime, Monitoring
<1>6. SleepsInTime'
  BY <1>2, <1>3, <1>5 DEF SleepsInTime, Monitoring
<1>7. alert[j] = "none" /\ pushes[j] = 0
  BY <1>3 DEF InOrder
<1>8. InOrder'
  <2>1. answer'[j] = "emr" => pc'[j] = "polling"
    BY <1>3, <1>4 DEF InOrder, Monitoring
  <2> QED BY <1>2, <1>3, <1>4, <1>7, <2>1 DEF InOrder, Monitoring
<1>9. SeenInTime'
  BY <1>2, <1>3, <1>5, EmrAssumption DEF SeenInTime, RoundEnds
<1>10. ClusterKept'
  <2>1. CASE GetClusterId(j)
    <3>1. /\ UNCHANGED <<home, cache>>
          /\ \/ pc'[j] = "adding" /\ cluster_id'[j] = _cached_cluster_id
                /\ _cached_cluster_id # None
             \/ pc'[j] = "storing" /\ cluster_id'[j] \in Clusters
             \/ pc'[j] = "refused"
      BY <2>1 DEF GetClusterId, Refuse, TypeOK, emr
    <3> QED BY <1>3, <3>1, EmrAssumption DEF ClusterKept, Monitoring, cache
  <2>2. CASE Store(j)
    <3>1. /\ UNCHANGED <<home, cluster_id>> /\ pc'[j] = "returning"
          /\ _cached_cluster_id' = cluster_id[j] /\ cluster_id[j] # None
          /\ overwritten' \/ _cached_cluster_id \in {None, cluster_id[j]}
      BY <2>2 DEF Store, TypeOK, ClusterKept, emr, job
    <3> QED BY <1>2, <1>3, <3>1 DEF ClusterKept, Monitoring
  <2>3. CASE ReturnClusterId(j)
    <3>1. /\ UNCHANGED <<home, cache>> /\ pc'[j] = "adding"
          /\ cluster_id'[j] = _cached_cluster_id /\ pc[j] = "returning"
      BY <2>3 DEF ReturnClusterId, TypeOK, emr
    <3> QED BY <1>3, <3>1 DEF ClusterKept, Monitoring, cache
  <2>4. CASE AddStep(j)
    <3>1. /\ UNCHANGED cache /\ pc'[j] = "added" /\ pc[j] = "adding"
          /\ home'[j] = cluster_id[j]
      BY <2>4 DEF AddStep, TypeOK
    <3> QED BY <1>3, <3>1 DEF ClusterKept, Monitoring, cache
  <2>5. CASE Accept(j)
    <3>1. UNCHANGED <<home, cache>> /\ pc'[j] = "polling" /\ pc[j] = "added"
      BY <2>5 DEF Accept, TypeOK, emr
    <3> QED BY <1>3, <3>1 DEF ClusterKept, Monitoring, cache
  <2>6. CASE SubmitFails(j)
    <3>1. UNCHANGED <<home, cache>> /\ pc'[j] = "refused"
      BY <2>6 DEF SubmitFails, Refuse, TypeOK, emr
    <3> QED BY <1>3, <3>1 DEF ClusterKept, Monitoring, cache
  <2> QED BY <2>1, <2>2, <2>3, <2>4, <2>5, <2>6 DEF Submission
<1>11. AlertTellsTruth' /\ TimeoutsAreLate'
  BY <1>2, <1>3, <1>7 DEF AlertTellsTruth, TimeoutsAreLate
<1> QED BY <1>1, <1>6, <1>8, <1>9, <1>10, <1>11

(* What a push leaves behind, whether it raises or not. *)
LEMMA PushEnds ==
  ASSUME TypeOK, NEW j \in Jobs, NEW v \in {"completed", "failed", "timeout"},
         pushes[j] = 0, Push(j, v)
  PROVE  /\ pc' \in [Jobs -> PCs] /\ pc'[j] \in {"ended", "died"}
         /\ elapsed' \in [Jobs -> 0 .. MaxElapsed] /\ elapsed'[j] = 0
         /\ alert' \in [Jobs -> {"none", "completed", "failed", "timeout"}]
         /\ alert'[j] \in {alert[j], v}
         /\ pushes' \in [Jobs -> {0, 1}] /\ pushes'[j] = 1
         /\ \A k \in Jobs : k # j =>
              /\ pc'[k] = pc[k] /\ elapsed'[k] = elapsed[k]
              /\ alert'[k] = alert[k] /\ pushes'[k] = pushes[k]
<1>1. elapsed' = [elapsed EXCEPT ![j] = 0] /\ pushes' = [pushes EXCEPT ![j] = @ + 1]
  BY DEF Push
<1>2. PICK end \in {"ended", "died"} : pc' = [pc EXCEPT ![j] = end]
  BY DEF Push
<1>3. alert' = alert \/ alert' = [alert EXCEPT ![j] = v]
  BY DEF Push
<1>4. pc' \in [Jobs -> PCs] /\ pc'[j] = end
  BY <1>2 DEF TypeOK, PCs
<1>5. elapsed' \in [Jobs -> 0 .. MaxElapsed] /\ elapsed'[j] = 0
  BY <1>1, Clock DEF TypeOK
<1>6. pushes' \in [Jobs -> {0, 1}] /\ pushes'[j] = 1
  BY <1>1 DEF TypeOK
<1>7. /\ alert' \in [Jobs -> {"none", "completed", "failed", "timeout"}]
      /\ alert'[j] \in {alert[j], v}
  BY <1>3 DEF TypeOK
<1>8. ASSUME NEW k \in Jobs, k # j
      PROVE  /\ pc'[k] = pc[k] /\ elapsed'[k] = elapsed[k]
             /\ alert'[k] = alert[k] /\ pushes'[k] = pushes[k]
  BY <1>1, <1>2, <1>3, <1>8 DEF TypeOK
<1> QED BY <1>4, <1>5, <1>6, <1>7, <1>8

(* A monitor asks for the cluster and never changes it. *)
LEMMA MonitorKeepsCluster ==
  ASSUME ClusterKept, NEW j \in Jobs, pc[j] \in Monitoring,
         UNCHANGED <<emr, cache, cluster_id>>,
         pc'[j] \in Monitoring \cup {"ended", "died"},
         \A k \in Jobs : k # j => pc'[k] = pc[k]
  PROVE  ClusterKept'
BY DEF ClusterKept, Monitoring, emr, cache

(* A push of a verdict that is true, or a timeout that is due, keeps all. *)
LEMMA PushKeeps ==
  ASSUME IInv, NEW j \in Jobs, NEW v \in {"completed", "failed", "timeout"},
         pc[j] = "polling", Push(j, v),
         UNCHANGED <<emr, cache, cluster_id, answer, chance>>,
         v = "completed" => step[j] = "COMPLETED",
         v = "failed" => step[j] \in BadEnds \/ (known /\ overwritten),
         v = "timeout" => chance[j] # "due"
  PROVE  IInv'
<1>1. alert[j] = "none" /\ pushes[j] = 0
  BY DEF IInv, InOrder
<1>2. /\ pc' \in [Jobs -> PCs] /\ pc'[j] \in {"ended", "died"}
      /\ elapsed' \in [Jobs -> 0 .. MaxElapsed] /\ elapsed'[j] = 0
      /\ alert' \in [Jobs -> {"none", "completed", "failed", "timeout"}]
      /\ alert'[j] \in {alert[j], v}
      /\ pushes' \in [Jobs -> {0, 1}] /\ pushes'[j] = 1
      /\ \A k \in Jobs : k # j =>
           /\ pc'[k] = pc[k] /\ elapsed'[k] = elapsed[k]
           /\ alert'[k] = alert[k] /\ pushes'[k] = pushes[k]
  BY <1>1, PushEnds DEF IInv
<1>3. TypeOK'
  BY <1>2 DEF IInv, TypeOK, emr, cache
<1>4. SleepsInTime'
  BY <1>2 DEF IInv, SleepsInTime, Monitoring
<1>5. InOrder'
  BY <1>2 DEF IInv, InOrder, Monitoring, emr
<1>6. SeenInTime'
  BY <1>2 DEF IInv, SeenInTime, RoundEnds
<1>7. ClusterKept'
  BY <1>2, MonitorKeepsCluster DEF IInv, Monitoring
<1>8. AlertTellsTruth' /\ TimeoutsAreLate'
  BY <1>1, <1>2 DEF IInv, AlertTellsTruth, TimeoutsAreLate, emr, cache
<1> QED BY <1>3, <1>4, <1>5, <1>6, <1>7, <1>8 DEF IInv

LEMMA TimeoutKeeps ==
  ASSUME IInv, NEW j \in Jobs, Timeout(j)
  PROVE  IInv'
<1>1. /\ pc[j] = "polling" /\ elapsed[j] > TIMEOUT /\ Push(j, "timeout")
      /\ UNCHANGED <<emr, cache, cluster_id, answer, chance>>
  BY DEF Timeout
<1>2. chance[j] # "due"
  BY <1>1, Clock DEF IInv, SeenInTime, TypeOK
<1> QED BY <1>1, <1>2, PushKeeps

LEMMA QueryKeeps ==
  ASSUME IInv, NEW j \in Jobs, Query(j)
  PROVE  IInv'
<1>1. /\ pc[j] = "polling" /\ elapsed[j] <= TIMEOUT
      /\ UNCHANGED <<emr, cache, cluster_id, answer>>
  BY DEF Query
<1>2. alert[j] = "none" /\ step[j] \in Steps
  BY <1>1 DEF IInv, InOrder, TypeOK
<1>3. ASSUME UNCHANGED <<alert, pushes, elapsed>>,
             chance' \in [Jobs -> {"open", "due", "gone"}],
             pc' \in {[pc EXCEPT ![j] = s] : s \in {"sleeping", "sleeping60"}},
             pc'[j] = "sleeping60" => chance'[j] = "gone",
             chance'[j] # "due",
             \A k \in Jobs : k # j => chance'[k] = chance[k]
      PROVE  IInv'
  <2>1. /\ pc'[j] \in {"sleeping", "sleeping60"} /\ pc' \in [Jobs -> PCs]
        /\ \A k \in Jobs : k # j => pc'[k] = pc[k]
    BY <1>3 DEF IInv, TypeOK, PCs
  <2>2. TypeOK'
    BY <1>1, <1>3, <2>1 DEF IInv, TypeOK, emr, cache
  <2>3. SleepsInTime'
    BY <1>1, <1>3, <2>1 DEF IInv, SleepsInTime, Monitoring
  <2>4. InOrder'
    BY <1>1, <1>2, <1>3, <2>1 DEF IInv, InOrder, Monitoring, emr
  <2>5. SeenInTime'
    BY <1>3, <2>1 DEF IInv, SeenInTime, RoundEnds
  <2>6. ClusterKept'
    BY <1>1, <2>1, MonitorKeepsCluster DEF IInv, Monitoring
  <2>7. AlertTellsTruth' /\ TimeoutsAreLate'
    BY <1>1, <1>2, <1>3 DEF IInv, AlertTellsTruth, TimeoutsAreLate, emr, cache
  <2> QED BY <2>2, <2>3, <2>4, <2>5, <2>6, <2>7 DEF IInv
<1>4. CASE React(j, step[j]) /\ UNCHANGED chance
  <2>1. CASE step[j] = "COMPLETED"
    <3>1. Push(j, "completed")
      BY <1>4, <2>1 DEF React, FailedStates
    <3> QED BY <1>1, <1>4, <2>1, <3>1, PushKeeps
  <2>2. CASE step[j] \in BadEnds
    <3>1. Push(j, "failed")
      BY <1>4, <2>2 DEF React, BadEnds, FailedStates
    <3> QED BY <1>1, <1>4, <2>2, <3>1, PushKeeps
  <2>3. CASE step[j] \in {"none", "active"}
    <3>1. pc' = [pc EXCEPT ![j] = "sleeping"] /\ UNCHANGED <<alert, pushes, elapsed>>
      BY <1>4, <2>3 DEF React, FailedStates
    <3>2. chance[j] # "due"
      BY <2>3 DEF IInv, InOrder, Ended, BadEnds
    <3>3. pc'[j] = "sleeping" /\ chance \in [Jobs -> {"open", "due", "gone"}]
      BY <3>1 DEF IInv, TypeOK
    <3> QED BY <1>3, <1>4, <3>1, <3>2, <3>3
  <2> QED BY <1>2, <2>1, <2>2, <2>3 DEF Steps
<1>5. CASE _cached_cluster_id # home[j] /\ known /\ React(j, "FAILED") /\ UNCHANGED chance
  <2>1. Push(j, "failed")
    BY <1>5 DEF React, FailedStates
  <2>2. overwritten
    BY <1>1, <1>5 DEF IInv, ClusterKept, Monitoring
  <2> QED BY <1>1, <1>5, <2>1, <2>2, PushKeeps
<1>6. CASE React(j, "UNKNOWN") /\ chance' = [chance EXCEPT ![j] = "gone"]
  <2>1. pc' = [pc EXCEPT ![j] = "sleeping60"] /\ UNCHANGED <<alert, pushes, elapsed>>
    BY <1>6 DEF React, FailedStates
  <2>2. chance'[j] = "gone" /\ chance' \in [Jobs -> {"open", "due", "gone"}]
    BY <1>6 DEF IInv, TypeOK
  <2>3. \A k \in Jobs : k # j => chance'[k] = chance[k]
    BY <1>6 DEF IInv, TypeOK
  <2> QED BY <1>3, <2>1, <2>2, <2>3
<1>7. CASE /\ pc' = [pc EXCEPT ![j] = "died"]
           /\ elapsed' = [elapsed EXCEPT ![j] = 0]
           /\ UNCHANGED <<alert, pushes, chance>>
  <2>1. /\ pc'[j] = "died" /\ pc' \in [Jobs -> PCs] /\ elapsed'[j] = 0
        /\ elapsed' \in [Jobs -> 0 .. MaxElapsed]
        /\ \A k \in Jobs : k # j => pc'[k] = pc[k] /\ elapsed'[k] = elapsed[k]
    BY <1>7, Clock DEF IInv, TypeOK, PCs
  <2>2. TypeOK'
    BY <1>1, <1>7, <2>1 DEF IInv, TypeOK, emr, cache
  <2>3. SleepsInTime' /\ SeenInTime'
    BY <1>7, <2>1 DEF IInv, SleepsInTime, SeenInTime, RoundEnds, Monitoring
  <2>4. InOrder'
    BY <1>1, <1>2, <1>7, <2>1 DEF IInv, InOrder, Monitoring, emr
  <2>5. ClusterKept'
    BY <1>1, <2>1, MonitorKeepsCluster DEF IInv, Monitoring
  <2>6. AlertTellsTruth' /\ TimeoutsAreLate'
    BY <1>1, <1>7 DEF IInv, AlertTellsTruth, TimeoutsAreLate, emr, cache
  <2> QED BY <2>2, <2>3, <2>4, <2>5, <2>6 DEF IInv
<1> QED BY <1>4, <1>5, <1>6, <1>7 DEF Query

(* How far a sleep takes the clock. *)
LEMMA WakeTime ==
  ASSUME TypeOK, SleepsInTime, NEW j \in Jobs, Wake(j)
  PROVE  /\ pc[j] \in {"sleeping", "sleeping60"} /\ pc' = [pc EXCEPT ![j] = "polling"]
         /\ elapsed' \in [Jobs -> 0 .. MaxElapsed] /\ elapsed'[j] > elapsed[j]
         /\ pc[j] = "sleeping" => elapsed'[j] <= RoundEnds(j)
         /\ \A k \in Jobs : k # j => elapsed'[k] = elapsed[k]
<1>1. pc[j] \in {"sleeping", "sleeping60"} /\ pc' = [pc EXCEPT ![j] = "polling"]
  BY DEF Wake
<1>2. PICK delay \in 1 .. MaxDelay :
        elapsed' = [elapsed EXCEPT ![j] = elapsed[j] + Pause(j) + delay]
  BY DEF Wake, ElapsedAfter
<1>3. elapsed[j] \in 0 .. TIMEOUT
  BY <1>1, Clock DEF TypeOK, SleepsInTime
<1>4. Pause(j) \in {QUERY_INTERVAL, 2 * QUERY_INTERVAL}
      /\ (pc[j] = "sleeping" => Pause(j) = QUERY_INTERVAL)
  BY DEF Pause
<1>5. /\ elapsed[j] + Pause(j) + delay \in 0 .. MaxElapsed
      /\ elapsed[j] + Pause(j) + delay > elapsed[j]
      /\ pc[j] = "sleeping" => elapsed[j] + Pause(j) + delay <= RoundEnds(j)
  BY <1>2, <1>3, <1>4, Clock DEF RoundEnds
<1>6. elapsed'[j] = elapsed[j] + Pause(j) + delay
      /\ \A k \in Jobs : k # j => elapsed'[k] = elapsed[k]
  BY <1>2 DEF TypeOK
<1>7. elapsed' \in [Jobs -> 0 .. MaxElapsed]
  BY <1>2, <1>5 DEF TypeOK
<1> QED BY <1>1, <1>5, <1>6, <1>7

LEMMA WakeKeeps ==
  ASSUME IInv, NEW j \in Jobs, Wake(j)
  PROVE  IInv'
<1>1. UNCHANGED <<emr, cache, cluster_id, answer, alert, pushes, chance>>
  BY DEF Wake
<1>2. /\ pc[j] \in {"sleeping", "sleeping60"} /\ pc' = [pc EXCEPT ![j] = "polling"]
      /\ elapsed' \in [Jobs -> 0 .. MaxElapsed]
      /\ pc[j] = "sleeping" => elapsed'[j] <= RoundEnds(j)
      /\ \A k \in Jobs : k # j => elapsed'[k] = elapsed[k]
  BY WakeTime DEF IInv
<1>3. /\ pc'[j] = "polling" /\ pc' \in [Jobs -> PCs]
      /\ \A k \in Jobs : k # j => pc'[k] = pc[k]
  BY <1>2 DEF IInv, TypeOK, PCs
<1>4. TypeOK'
  BY <1>1, <1>2, <1>3 DEF IInv, TypeOK, emr, cache
<1>5. SleepsInTime'
  BY <1>1, <1>2, <1>3 DEF IInv, SleepsInTime, Monitoring
<1>6. InOrder'
  BY <1>1, <1>2, <1>3 DEF IInv, InOrder, Monitoring, emr
<1>7. SeenInTime'
  <2>1. chance[j] = "due" => elapsed'[j] <= TIMEOUT
    <3> SUFFICES ASSUME chance[j] = "due" PROVE elapsed'[j] <= TIMEOUT
      OBVIOUS
    <3>1. pc[j] = "sleeping"
      BY <1>2 DEF IInv, SleepsInTime
    <3>2. elapsed'[j] <= RoundEnds(j) /\ RoundEnds(j) <= TIMEOUT
      BY <1>2, <3>1 DEF IInv, SeenInTime
    <3>3. elapsed'[j] \in Nat /\ RoundEnds(j) \in Nat
      BY <1>2, Clock DEF IInv, TypeOK, RoundEnds
    <3> QED BY <3>2, <3>3, Clock
  <2> QED BY <1>1, <1>2, <1>3, <2>1 DEF IInv, SeenInTime, RoundEnds
<1>8. ClusterKept'
  BY <1>1, <1>2, <1>3, MonitorKeepsCluster DEF IInv, Monitoring
<1>9. AlertTellsTruth' /\ TimeoutsAreLate'
  BY <1>1 DEF IInv, AlertTellsTruth, TimeoutsAreLate, emr, cache
<1> QED BY <1>4, <1>5, <1>6, <1>7, <1>8, <1>9 DEF IInv

LEMMA StepEndsKeeps ==
  ASSUME IInv, NEW j \in Jobs, StepEnds(j)
  PROVE  IInv'
<1>1. /\ step[j] = "active"
      /\ UNCHANGED <<known, clusters, home, cache, pc,
                     cluster_id, answer, elapsed, alert, pushes>>
      /\ \/ /\ chance' = [chance EXCEPT ![j] = "due"]
            /\ pc[j] \in Submitting \cup Monitoring /\ RoundEnds(j) <= TIMEOUT
         \/ chance' = [chance EXCEPT ![j] = "gone"]
  BY DEF StepEnds
<1>2. PICK state \in Ended : step' = [step EXCEPT ![j] = state]
  BY DEF StepEnds, Ended
<1>3. /\ chance' \in [Jobs -> {"open", "due", "gone"}] /\ chance'[j] \in {"due", "gone"}
      /\ chance'[j] = "due" =>
           pc[j] \in Submitting \cup Monitoring /\ RoundEnds(j) <= TIMEOUT
      /\ \A k \in Jobs : k # j => chance'[k] = chance[k]
  BY <1>1 DEF IInv, TypeOK
<1>4. /\ step'[j] \in Ended /\ step' \in [Jobs -> Steps]
      /\ \A k \in Jobs : k # j => step'[k] = step[k]
  BY <1>2 DEF IInv, TypeOK, Steps, Ended, BadEnds
<1>5. TypeOK'
  BY <1>1, <1>3, <1>4 DEF IInv, TypeOK, cache
<1>6. chance[j] # "due" /\ pc[j] \notin {"idle", "storing", "returning", "adding"}
  BY <1>1 DEF IInv, InOrder, Ended, BadEnds
<1>7. SleepsInTime'
  <2>1. ASSUME pc[j] = "sleeping60" PROVE chance'[j] = "gone"
    <3>1. chance[j] = "gone"
      BY <2>1 DEF IInv, SleepsInTime
    <3> QED BY <3>1 DEF StepEnds, IInv, TypeOK
  <2> QED BY <1>1, <1>3, <2>1 DEF IInv, SleepsInTime
<1>8. InOrder'
  BY <1>1, <1>3, <1>4, <1>6 DEF IInv, InOrder
<1>9. SeenInTime'
  <2>1. RoundEnds(j) <= TIMEOUT => elapsed[j] <= TIMEOUT
    BY Clock DEF IInv, TypeOK, RoundEnds
  <2> QED BY <1>1, <1>3, <2>1 DEF IInv, SeenInTime, RoundEnds
<1>10. ClusterKept'
  BY <1>1 DEF IInv, ClusterKept, cache
<1>11. AlertTellsTruth'
  BY <1>1, <1>4 DEF IInv, AlertTellsTruth, BadEnds, cache
<1>12. TimeoutsAreLate'
  BY <1>1, <1>3 DEF IInv, TimeoutsAreLate, InOrder, Submitting, Monitoring
<1> QED BY <1>5, <1>7, <1>8, <1>9, <1>10, <1>11, <1>12 DEF IInv

LEMMA RestartKeeps ==
  ASSUME IInv, Restart
  PROVE  IInv'
<1>1. /\ UNCHANGED <<emr, overwritten, alert, pushes, chance>>
      /\ elapsed' = [k \in Jobs |-> 0]
      /\ pc' = [k \in Jobs |-> IF pc[k] \in Submitting \cup Monitoring
                                 THEN "lost" ELSE pc[k]]
      /\ answer' = [k \in Jobs |-> IF pc[k] \in Submitting THEN "lost" ELSE answer[k]]
      /\ cluster_id' = [k \in Jobs |-> None]
      /\ _cached_cluster_id' = None
  BY DEF Restart
<1>2. TypeOK'
  <2>1. pc' \in [Jobs -> PCs]
    BY <1>1 DEF IInv, TypeOK, PCs
  <2>2. answer' \in [Jobs -> {"none", "emr", "failed", "lost"}]
    BY <1>1 DEF IInv, TypeOK
  <2> QED BY <1>1, <2>1, <2>2, Clock DEF IInv, TypeOK, emr
<1>3. \A k \in Jobs : \/ pc'[k] = "lost" /\ pc[k] \notin {"ended", "died"}
                      \/ pc'[k] = pc[k] /\ pc[k] \notin Submitting \cup Monitoring
  BY <1>1 DEF Submitting, Monitoring
<1>4. \A k \in Jobs : answer'[k] \in {answer[k], "lost"}
  BY <1>1
<1>5. SleepsInTime' /\ SeenInTime'
  BY <1>1, <1>3 DEF SleepsInTime, SeenInTime, Monitoring
<1>6. InOrder'
  BY <1>1, <1>3, <1>4 DEF IInv, InOrder, emr
<1>7. ClusterKept'
  BY <1>3 DEF ClusterKept, Submitting, Monitoring
<1>8. AlertTellsTruth' /\ TimeoutsAreLate'
  BY <1>1 DEF IInv, AlertTellsTruth, TimeoutsAreLate, emr
<1> QED BY <1>2, <1>5, <1>6, <1>7, <1>8 DEF IInv

LEMMA IInvInductive == IInv /\ [Next]_vars => IInv'
<1> SUFFICES ASSUME IInv, [Next]_vars PROVE IInv'
  OBVIOUS
<1>1. ASSUME UNCHANGED <<known, step, home, cache, pc, job>>, TypeOK' PROVE IInv'
  <2>1. SleepsInTime' /\ InOrder' /\ SeenInTime'
    BY <1>1 DEF IInv, SleepsInTime, InOrder, SeenInTime, RoundEnds, job
  <2>2. ClusterKept' /\ AlertTellsTruth' /\ TimeoutsAreLate'
    BY <1>1 DEF IInv, ClusterKept, AlertTellsTruth, TimeoutsAreLate, job, cache
  <2> QED BY <1>1, <2>1, <2>2 DEF IInv
<1>2. ASSUME NEW c \in Clusters, ClusterStarts(c) \/ ClusterEnds(c) PROVE IInv'
  <2>1. TypeOK'
    BY <1>2 DEF IInv, TypeOK, ClusterStarts, ClusterEnds, job, cache
  <2> QED BY <1>1, <1>2, <2>1 DEF ClusterStarts, ClusterEnds
<1>3. CASE UNCHANGED vars
  <2>1. TypeOK'
    BY <1>3 DEF IInv, TypeOK, vars, emr, job, cache
  <2> QED BY <1>1, <1>3, <2>1 DEF vars, emr
<1> QED BY <1>2, <1>3, SubmissionKeeps, TimeoutKeeps, QueryKeeps, WakeKeeps,
           StepEndsKeeps, RestartKeeps DEF Next, Monitor

LEMMA IInvInit == Init => IInv
BY TypeInit, EmrAssumption DEF Init, IInv, SleepsInTime, InOrder, SeenInTime, ClusterKept,
   AlertTellsTruth, TimeoutsAreLate, Monitoring

(* Every job, step and monitor keeps its range; in particular a monitor    *)
(* never runs further past the limit than one sleep and its delays         *)
(* (server.py:211-265).                                                    *)
THEOREM TypeCorrect == Spec => []TypeOK
<1>1. IInv => TypeOK
  BY DEF IInv
<1> QED BY <1>1, IInvInit, IInvInductive, PTL DEF Spec

(* An alert tells what became of the step, for any number of submissions,  *)
(* clusters and restarts, whether the client knows an invalid step or not: *)
(* only an id that replaced another one's can make a step look failed      *)
(* (server.py:123-136, 184-204, 233-256).                                  *)
THEOREM AlertsAreTrue == Spec => []AlertTellsTruth
<1>1. IInv => AlertTellsTruth
  BY DEF IInv
<1> QED BY <1>1, IInvInit, IInvInductive, PTL DEF Spec

(* A step that ended a round before the limit is never reported as timed   *)
(* out by a monitor whose queries all succeeded, whatever the limit, the   *)
(* interval and the delays (server.py:211-265).                            *)
THEOREM NoEarlyTimeout == Spec => []TimeoutsAreLate
<1>1. IInv => TimeoutsAreLate
  BY DEF IInv
<1> QED BY <1>1, IInvInit, IInvInductive, PTL DEF Spec

(* A monitor pushes once, and a promised client is passed over only by a   *)
(* push that reached nobody, a monitor that died or a server that did: how *)
(* far the reply of server.py:307 holds, for any number of tasks           *)
(* (server.py:81-83, 105-119, 206-265, 291-311).                           *)
THEOREM PushedOnce == Spec => []OnePush
<1>1. IInv => OnePush
  BY DEF IInv, InOrder, OnePush, Monitoring
<1> QED BY <1>1, IInvInit, IInvInductive, PTL DEF Spec

-----------------------------------------------------------------------------
(* What becomes of a monitor *)

(* Every step of a monitor brings its end nearer, for any time limit and   *)
(* whatever its queries return (server.py:211-265).                        *)
THEOREM MonitorsRunDown == Spec => MonitorRunsDown
<1> DEFINE A == \A j \in Jobs :
                  pc[j] \in Monitoring /\ (pc'[j] # pc[j] \/ elapsed'[j] # elapsed[j])
                  => TimeLeft(j)' < TimeLeft(j)
<1>1. IInv /\ IInv' /\ [Next]_vars => [A]_vars
  <2> SUFFICES ASSUME IInv, IInv', Next, NEW j \in Jobs, pc[j] \in Monitoring,
                      pc'[j] # pc[j] \/ elapsed'[j] # elapsed[j]
               PROVE  TimeLeft(j)' < TimeLeft(j)
    OBVIOUS
  <2>1. /\ elapsed[j] \in Nat /\ elapsed[j] <= MaxElapsed
        /\ elapsed'[j] \in Nat /\ elapsed'[j] <= MaxElapsed
        /\ MaxElapsed \in Nat
    BY Clock DEF IInv, TypeOK
  <2>2. TimeLeft(j) > 0
    BY <2>1 DEF TimeLeft
  <2>3. CASE pc'[j] \notin Monitoring
    BY <2>2, <2>3 DEF TimeLeft
  <2>4. CASE pc[j] = "polling" /\ pc'[j] \in {"sleeping", "sleeping60"}
                /\ elapsed'[j] = elapsed[j]
    <3>1. TimeLeft(j)' = 2 * (MaxElapsed + 1 - elapsed[j])
      BY <2>1, <2>4 DEF TimeLeft, Monitoring
    <3>2. TimeLeft(j) = 2 * (MaxElapsed + 1 - elapsed[j]) + 1
      BY <2>4 DEF TimeLeft, Monitoring
    <3> QED BY <2>1, <3>1, <3>2
  <2>5. CASE /\ pc[j] \in {"sleeping", "sleeping60"} /\ pc'[j] = "polling"
             /\ elapsed'[j] > elapsed[j]
    <3>1. TimeLeft(j)' = 2 * (MaxElapsed + 1 - elapsed'[j]) + 1
      BY <2>5 DEF TimeLeft, Monitoring
    <3>2. TimeLeft(j) = 2 * (MaxElapsed + 1 - elapsed[j])
      BY <2>1, <2>5 DEF TimeLeft, Monitoring
    <3> QED BY <2>1, <2>5, <3>1, <3>2
  <2>6. ASSUME NEW k \in Jobs, Submission(k) PROVE FALSE
    <3>1. k # j
      BY <2>6 DEF Submission, GetClusterId, Store, ReturnClusterId, AddStep, Accept,
                  SubmitFails, Monitoring
    <3> QED BY <2>6, <3>1 DEF Submission, GetClusterId, Refuse, Store, ReturnClusterId,
                              AddStep, Accept, SubmitFails, IInv, TypeOK, job
  <2>7. ASSUME NEW k \in Jobs, NEW v \in {"completed", "failed", "timeout"},
               pc[k] = "polling", Push(k, v)
        PROVE  TimeLeft(j)' < TimeLeft(j)
    <3>1. k = j /\ pc'[k] \in {"ended", "died"}
      BY <2>7, PushEnds DEF IInv, InOrder
    <3> QED BY <2>3, <3>1 DEF Monitoring
  <2>8. ASSUME NEW k \in Jobs, Timeout(k) PROVE TimeLeft(j)' < TimeLeft(j)
    BY <2>7, <2>8 DEF Timeout
  <2>9. ASSUME NEW k \in Jobs, Query(k) PROVE TimeLeft(j)' < TimeLeft(j)
    <3>1. pc[k] = "polling"
      BY <2>9 DEF Query
    <3>2. ASSUME NEW s \in {"sleeping", "sleeping60"}, pc' = [pc EXCEPT ![k] = s],
                 UNCHANGED elapsed
          PROVE  TimeLeft(j)' < TimeLeft(j)
      <4>1. k = j /\ pc'[k] = s
        BY <3>2 DEF IInv, TypeOK
      <4> QED BY <2>4, <3>1, <3>2, <4>1
    <3>3. ASSUME NEW state \in Steps \cup {"UNKNOWN"}, React(k, state)
          PROVE  TimeLeft(j)' < TimeLeft(j)
      <4>1. \/ Push(k, "completed") \/ Push(k, "failed")
            \/ /\ UNCHANGED elapsed
               /\ \E s \in {"sleeping", "sleeping60"} : pc' = [pc EXCEPT ![k] = s]
        BY <3>3 DEF React, FailedStates
      <4> QED BY <2>7, <3>1, <3>2, <4>1
    <3>4. CASE pc' = [pc EXCEPT ![k] = "died"] /\ elapsed' = [elapsed EXCEPT ![k] = 0]
      <4>1. k = j /\ pc'[k] = "died"
        BY <3>4 DEF IInv, TypeOK
      <4> QED BY <2>3, <4>1 DEF Monitoring
    <3>5. step[k] \in Steps /\ "FAILED" \in Steps
      BY DEF IInv, TypeOK, Steps, BadEnds
    <3> QED BY <2>9, <3>3, <3>4, <3>5 DEF Query
  <2>10. ASSUME NEW k \in Jobs, Wake(k) PROVE TimeLeft(j)' < TimeLeft(j)
    <3>1. /\ pc[k] \in {"sleeping", "sleeping60"} /\ pc' = [pc EXCEPT ![k] = "polling"]
          /\ elapsed'[k] > elapsed[k] /\ (k # j => elapsed'[j] = elapsed[j])
      BY <2>10, WakeTime DEF IInv
    <3>2. k = j /\ pc'[j] = "polling"
      BY <3>1 DEF IInv, TypeOK
    <3> QED BY <2>5, <3>1, <3>2
  <2>11. ASSUME NEW k \in Jobs, StepEnds(k) PROVE FALSE
    BY <2>11 DEF StepEnds
  <2>12. ASSUME NEW c \in Clusters, ClusterStarts(c) \/ ClusterEnds(c) PROVE FALSE
    BY <2>12 DEF ClusterStarts, ClusterEnds, job
  <2>13. CASE Restart
    <3>1. pc'[j] = "lost"
      BY <2>13 DEF Restart
    <3> QED BY <2>3, <3>1 DEF Monitoring
  <2> QED BY <2>6, <2>8, <2>9, <2>10, <2>11, <2>12, <2>13 DEF Next, Monitor
<1> QED BY <1>1, IInvInit, IInvInductive, PTL DEF Spec, MonitorRunsDown
=============================================================================
