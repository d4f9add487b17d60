---------------------------- MODULE GatewayProofs ----------------------------
(***************************************************************************)
(* Proofs about the gateway, for any number of requests, any window, any   *)
(* threshold and any number of attempts.                                   *)
(***************************************************************************)
EXTENDS Gateway, SequenceTheorems, TLAPS

(* The deque keeps its bound and holds outcomes only. *)
LEMMA PushType ==
  ASSUME NEW w \in Seq(BOOLEAN), Len(w) <= WINDOW_SIZE, NEW ok \in BOOLEAN
  PROVE  Push(w, ok) \in Seq(BOOLEAN) /\ Len(Push(w, ok)) <= WINDOW_SIZE
<1>1. CASE Len(w) < WINDOW_SIZE
  BY <1>1, GatewayAssumption DEF Push
<1>2. CASE Len(w) = WINDOW_SIZE
  <2>1. w # << >>
    BY <1>2, GatewayAssumption
  <2>2. Tail(w) \in Seq(BOOLEAN) /\ Len(Tail(w)) = WINDOW_SIZE - 1
    BY <1>2, <2>1
  <2>3. Push(w, ok) = Append(Tail(w), ok)
    BY <1>2, GatewayAssumption DEF Push
  <2> QED BY <2>2, <2>3, GatewayAssumption
<1> QED BY <1>1, <1>2, GatewayAssumption

(* A record of an outcome keeps the breaker's variables well typed. *)
LEMMA UpdateType ==
  ASSUME TypeOK, NEW ok \in BOOLEAN, UpdateCircuitState(ok)
  PROVE  /\ is_circuit_open' \in BOOLEAN
         /\ req_window' \in Seq(BOOLEAN) /\ Len(req_window') <= WINDOW_SIZE
         /\ halvings' \in Nat
         /\ outcomes' \in Seq(BOOLEAN)
<1>1. CASE is_circuit_open
  BY <1>1 DEF UpdateCircuitState, TypeOK, breaker
<1>2. CASE ~is_circuit_open
  <2>1. /\ req_window' = Push(req_window, ok)
        /\ outcomes' = Append(outcomes, ok)
        /\ is_circuit_open' = Trips(req_window')
        /\ halvings' = IF is_circuit_open' THEN halvings + 1 ELSE halvings
    BY <1>2 DEF UpdateCircuitState
  <2>2. is_circuit_open' \in BOOLEAN
    BY <2>1 DEF Trips
  <2>3. req_window' \in Seq(BOOLEAN) /\ Len(req_window') <= WINDOW_SIZE
    BY <2>1, PushType DEF TypeOK
  <2>4. halvings' \in Nat /\ outcomes' \in Seq(BOOLEAN)
    BY <2>1 DEF TypeOK
  <2> QED BY <2>2, <2>3, <2>4
<1> QED BY <1>1, <1>2

(* Every value a forward, a post and the breaker can hold, in every        *)
(* reachable state: the deque never outgrows its bound, no attempt is      *)
(* counted beyond ATTEMPT_TIMES (gateway.py:45-48, 213-289).               *)
THEOREM TypeCorrect == Spec => []TypeOK
<1>1. Init => TypeOK
  <2> SUFFICES ASSUME Init PROVE TypeOK
    OBVIOUS
  <2>1. req_window \in Seq(BOOLEAN) /\ Len(req_window) <= WINDOW_SIZE
    BY GatewayAssumption DEF Init
  <2>2. outcomes \in Seq(BOOLEAN)
    BY DEF Init
  <2>3. /\ is_circuit_open \in BOOLEAN
        /\ halvings \in Nat
    BY DEF Init
  <2>4. attempt \in [Requests -> 0 .. ATTEMPT_TIMES]
    <3>1. 0 \in 0 .. ATTEMPT_TIMES
      BY GatewayAssumption
    <3> QED BY <3>1 DEF Init
  <2>5. /\ pc \in [Requests -> PCs]
        /\ target \in [Requests -> {"none", "primary", "backup"}]
        /\ success_response \in [Requests -> Responses \cup {"none"}]
        /\ post \in [Posts -> Urls \cup {"idle", "ok", "error"}]
    BY DEF Init, PCs
  <2>6. table \in SUBSET Tasks
    BY DEF Init
  <2> QED BY <2>1, <2>2, <2>3, <2>4, <2>5, <2>6 DEF TypeOK
<1>2. TypeOK /\ [Next]_vars => TypeOK'
  <2> SUFFICES ASSUME TypeOK, [Next]_vars PROVE TypeOK'
    OBVIOUS
  <2>1. ASSUME NEW r \in Requests, Forward(r) PROVE TypeOK'
    BY <2>1, GatewayAssumption
    DEF Forward, TypeOK, TargetUrl, PCs, breaker
  <2>2. ASSUME NEW r \in Requests, Reply(r) PROVE TypeOK'
    BY <2>2 DEF Reply, TypeOK, PCs, Responses, Replies, breaker
  <2>3. ASSUME NEW r \in Requests, Fail(r) PROVE TypeOK'
    BY <2>3, UpdateType DEF Fail, TypeOK, PCs
  <2>4. ASSUME NEW r \in Requests, Succeed(r) PROVE TypeOK'
    BY <2>4, UpdateType DEF Succeed, Return, TypeOK, PCs
  <2>5. ASSUME NEW r \in Requests, Retry(r) PROVE TypeOK'
    BY <2>5, GatewayAssumption DEF Retry, TypeOK, PCs, breaker
  <2>6. ASSUME NEW r \in Requests, Fallback(r) PROVE TypeOK'
    <3>1. CacheLookup(TaskOf[r]) \subseteq Responses
      BY DEF CacheLookup, Responses
    <3> QED BY <2>6, <3>1 DEF Fallback, Return, TypeOK, PCs, breaker
  <2>7. ASSUME NEW r \in Requests, Wake(r) PROVE TypeOK'
    BY <2>7 DEF Wake, TypeOK, PCs, breaker
  <2>8. ASSUME NEW p \in Posts, Post(p) PROVE TypeOK'
    BY <2>8 DEF Post, PostUrl, TypeOK, Urls, breaker, locals
  <2>9. ASSUME NEW p \in Posts, PostDone(p) PROVE TypeOK'
    BY <2>9 DEF PostDone, TypeOK, Urls, breaker, locals
  <2>10. CASE UNCHANGED vars
    BY <2>10 DEF TypeOK, vars, breaker, locals
  <2> QED BY <2>1, <2>2, <2>3, <2>4, <2>5, <2>6, <2>7, <2>8, <2>9, <2>10
          DEF Next, Step, Quiet
<1> QED BY <1>1, <1>2, PTL DEF Spec

-----------------------------------------------------------------------------
(* The sliding window *)

(* The last WINDOW_SIZE entries of a longer log are those of the log with  *)
(* its first entry dropped and the new one appended.                       *)
LEMMA PushKeepsRecent ==
  ASSUME NEW log \in Seq(BOOLEAN), NEW ok \in BOOLEAN
  PROVE  CB!Recent(Append(log, ok)) = Push(CB!Recent(log), ok)
<1> DEFINE new == Append(log, ok)
           old == CB!Recent(log)
<1>1. /\ WINDOW_SIZE \in Nat /\ WINDOW_SIZE > 0
      /\ Len(log) \in Nat
      /\ new \in Seq(BOOLEAN) /\ Len(new) = Len(log) + 1
      /\ \A i \in 1 .. Len(log) : new[i] = log[i]
      /\ new[Len(log) + 1] = ok
  BY GatewayAssumption
<1>2. CASE Len(log) < WINDOW_SIZE
  <2> HIDE DEF new
  <2>1. CB!Recent(log) = log
    BY <1>1, <1>2 DEF CB!Recent
  <2>2. CB!Recent(new) = new
    BY <1>1, <1>2 DEF CB!Recent
  <2>3. Push(log, ok) = new
    BY <1>2 DEF Push, new
  <2> QED BY <2>1, <2>2, <2>3 DEF new
<1>3. CASE Len(log) >= WINDOW_SIZE
  <2> DEFINE d == Len(log) - WINDOW_SIZE
  <2>1. d \in Nat /\ d + 1 \in 1 .. Len(log) /\ d + 2 \in 1 .. Len(log) + 1
    BY <1>1, <1>3
  <2>2. CB!Recent(new) = SubSeq(new, d + 2, Len(log) + 1)
    <3> HIDE DEF new
    <3>1. Len(new) > WINDOW_SIZE /\ Len(new) - WINDOW_SIZE + 1 = d + 2
      BY <1>1, <1>3
    <3> QED BY <1>1, <3>1 DEF CB!Recent
  <2>3. /\ CB!Recent(new) \in Seq(BOOLEAN)
        /\ Len(CB!Recent(new)) = WINDOW_SIZE
        /\ \A i \in 1 .. WINDOW_SIZE : CB!Recent(new)[i] = new[d + 1 + i]
    <3> HIDE DEF new, d
    <3>1. /\ d + 2 \in Int /\ Len(log) + 1 \in Int
          /\ Len(log) + 1 - (d + 2) + 1 = WINDOW_SIZE
          /\ d + 2 <= Len(log) + 1
          /\ \A i \in (d + 2) .. (Len(log) + 1) : new[i] \in BOOLEAN
      BY <1>1, <2>1 DEF d
    <3>2. \A i \in 1 .. WINDOW_SIZE : (d + 2) + i - 1 = d + 1 + i
      BY <1>1, <2>1
    <3> QED BY <2>2, <3>1, <3>2, SubSeqProperties
  <2>4. /\ old \in Seq(BOOLEAN) /\ Len(old) = WINDOW_SIZE
        /\ \A i \in 1 .. WINDOW_SIZE : old[i] = log[d + i]
    <3>1. CASE Len(log) = WINDOW_SIZE
      BY <1>1, <3>1 DEF CB!Recent
    <3>2. CASE Len(log) > WINDOW_SIZE
      <4>1. old = SubSeq(log, d + 1, Len(log))
        BY <1>1, <3>2 DEF CB!Recent
      <4> QED BY <1>1, <2>1, <4>1
    <3> QED BY <1>1, <1>3, <3>1, <3>2
  <2>5. /\ Tail(old) \in Seq(BOOLEAN) /\ Len(Tail(old)) = WINDOW_SIZE - 1
        /\ \A i \in 1 .. WINDOW_SIZE - 1 : Tail(old)[i] = old[i + 1]
    BY <1>1, <2>4
  <2>6. Push(old, ok) = Append(Tail(old), ok)
    BY <1>1, <2>4 DEF Push
  <2>7. /\ Push(old, ok) \in Seq(BOOLEAN) /\ Len(Push(old, ok)) = WINDOW_SIZE
        /\ \A i \in 1 .. WINDOW_SIZE - 1 : Push(old, ok)[i] = old[i + 1]
        /\ Push(old, ok)[WINDOW_SIZE] = ok
    <3> HIDE DEF old
    <3> QED BY <1>1, <2>5, <2>6
  <2>8. \A i \in 1 .. WINDOW_SIZE : CB!Recent(new)[i] = Push(old, ok)[i]
    <3> SUFFICES ASSUME NEW i \in 1 .. WINDOW_SIZE
                 PROVE  CB!Recent(new)[i] = Push(old, ok)[i]
      OBVIOUS
    <3>1. CASE i = WINDOW_SIZE
      BY <3>1, <1>1, <2>1, <2>3, <2>7
    <3>2. CASE i < WINDOW_SIZE
      <4>1. old[i + 1] = log[d + (i + 1)] /\ Push(old, ok)[i] = old[i + 1]
        BY <3>2, <1>1, <2>4, <2>7
      <4>2. CB!Recent(new)[i] = new[d + 1 + i] /\ d + 1 + i \in 1 .. Len(log)
        BY <3>2, <1>1, <2>1, <2>3
      <4> QED BY <4>1, <4>2, <1>1, <2>1
    <3> QED BY <3>1, <3>2, <1>1
  <2> QED BY <2>3, <2>7, <2>8, SeqEqual
<1> QED BY <1>1, <1>2, <1>3

(* The deque holds the most recent outcomes; its length check at each      *)
(* append is the breaker's whole state.                                    *)
WindowExact == req_window = CB!Recent(outcomes)

LEMMA SameTest ==
  ASSUME NEW w
  PROVE  CB!Trips(w) = Trips(w)
<1>1. CB!Failures(w) = Failures(w)
  BY DEF CB!Failures, Failures, CB!Cardinality, Cardinality
<1> QED BY <1>1 DEF CB!Trips, Trips

(* An outcome given to the code's breaker is one recorded by the abstract  *)
(* one, or the breaker is open and neither changes.                        *)
LEMMA UpdateRefines ==
  ASSUME TypeOK, WindowExact, NEW ok \in BOOLEAN, UpdateCircuitState(ok)
  PROVE  /\ WindowExact'
         /\ [CB!Next]_<<outcomes, is_circuit_open>>
<1>1. CASE is_circuit_open
  BY <1>1 DEF UpdateCircuitState, breaker, WindowExact, CB!Recent
<1>2. CASE ~is_circuit_open
  <2>1. /\ req_window' = Push(req_window, ok)
        /\ outcomes' = Append(outcomes, ok)
        /\ is_circuit_open' = Trips(req_window')
    BY <1>2 DEF UpdateCircuitState
  <2>2. req_window' = CB!Recent(outcomes')
    BY <2>1, PushKeepsRecent DEF WindowExact, TypeOK
  <2>3. is_circuit_open' = CB!Trips(CB!Recent(outcomes'))
    BY <2>1, <2>2, SameTest
  <2>4. CB!Record(ok)
    BY <1>2, <2>1, <2>3 DEF CB!Record
  <2>5. WindowExact'
    BY <2>2 DEF WindowExact, CB!Recent
  <2> QED BY <2>4, <2>5 DEF CB!Next
<1> QED BY <1>1, <1>2

LEMMA StepRefines ==
  ASSUME TypeOK, WindowExact, [Next]_vars
  PROVE  /\ WindowExact'
         /\ [CB!Next]_<<outcomes, is_circuit_open>>
<1>1. ASSUME NEW r \in Requests, Fail(r)
      PROVE  WindowExact' /\ [CB!Next]_<<outcomes, is_circuit_open>>
  BY <1>1, UpdateRefines DEF Fail
<1>2. ASSUME NEW r \in Requests, Succeed(r)
      PROVE  WindowExact' /\ [CB!Next]_<<outcomes, is_circuit_open>>
  BY <1>2, UpdateRefines DEF Succeed
<1>3. CASE UNCHANGED breaker
  BY <1>3 DEF breaker, WindowExact, CB!Recent
<1>4. ASSUME NEW r \in Requests,
             Forward(r) \/ Reply(r) \/ Retry(r) \/ Fallback(r) \/ Wake(r)
      PROVE  UNCHANGED breaker
  BY <1>4 DEF Forward, Reply, Retry, Fallback, Wake
<1>5. ASSUME NEW p \in Posts, Post(p) \/ PostDone(p)
      PROVE  UNCHANGED breaker
  BY <1>5 DEF Post, PostDone
<1>6. CASE UNCHANGED vars
  BY <1>3, <1>6 DEF vars
<1> QED BY <1>1, <1>2, <1>3, <1>4, <1>5, <1>6 DEF Next, Step, Quiet

(* The gateway's deque, its length check and the early return of an open   *)
(* breaker implement the sliding window over everything ever recorded, for *)
(* every window size and threshold (gateway.py:45-48, 213-229).            *)
THEOREM WindowRefinement == Spec => SlidingWindow
<1>1. Init => WindowExact /\ CB!Init
  BY GatewayAssumption DEF Init, WindowExact, CB!Recent, CB!Init
<1>2. TypeOK /\ WindowExact /\ [Next]_vars => WindowExact'
  BY StepRefines
<1>3. TypeOK /\ WindowExact /\ [Next]_vars
        => [CB!Next]_<<outcomes, is_circuit_open>>
  BY StepRefines
<1> QED BY <1>1, <1>2, <1>3, TypeCorrect, PTL DEF Spec, SlidingWindow, CB!Spec

-----------------------------------------------------------------------------
(* Where the calls go *)

(* A forward is only bound to the backup once the breaker is open, and a   *)
(* forward under way is bound to a server.                                 *)
Bound ==
  \A r \in Requests :
    /\ target[r] = "backup" => is_circuit_open /\ HasBackup
    /\ pc[r] # "idle" => target[r] # "none"

(* The breaker never closes. *)
LEMMA StaysOpen ==
  ASSUME NEW ok \in BOOLEAN, UpdateCircuitState(ok), is_circuit_open
  PROVE  is_circuit_open'
BY DEF UpdateCircuitState, breaker

LEMMA BoundStep ==
  ASSUME TypeOK, Bound, [Next]_vars
  PROVE  Bound'
<1>1. ASSUME NEW r \in Requests, Forward(r) PROVE Bound'
  BY <1>1 DEF Forward, TargetUrl, Bound, TypeOK, breaker
<1>2. ASSUME NEW r \in Requests, Fail(r) PROVE Bound'
  BY <1>2, StaysOpen DEF Fail, Bound, TypeOK
<1>3. ASSUME NEW r \in Requests, Succeed(r) PROVE Bound'
  BY <1>3, StaysOpen DEF Succeed, Return, Bound, TypeOK
<1>4. ASSUME NEW r \in Requests, Reply(r) \/ Retry(r) \/ Wake(r) PROVE Bound'
  BY <1>4 DEF Reply, Retry, Wake, Bound, TypeOK, breaker
<1>5. ASSUME NEW r \in Requests, Fallback(r) PROVE Bound'
  BY <1>5 DEF Fallback, Return, Bound, TypeOK, breaker
<1>6. ASSUME NEW p \in Posts, Post(p) \/ PostDone(p) PROVE Bound'
  BY <1>6 DEF Post, PostDone, Bound, breaker, locals
<1>7. CASE UNCHANGED vars
  BY <1>7 DEF Bound, vars, breaker, locals
<1> QED BY <1>1, <1>2, <1>3, <1>4, <1>5, <1>6, <1>7 DEF Next, Step, Quiet

LEMMA BoundInvariant == Spec => [](TypeOK /\ Bound)
<1>1. Init => Bound
  BY DEF Init, Bound
<1>2. TypeOK /\ Bound /\ [Next]_vars => Bound'
  BY BoundStep
<1> QED BY <1>1, <1>2, TypeCorrect, PTL DEF Spec

(* However the forwards that began before and after the trip interleave,   *)
(* only outcomes of the primary are counted (gateway.py:256-258, 266-267). *)
THEOREM PrimaryOnly == Spec => CountsPrimaryOnly
<1> DEFINE A == outcomes' # outcomes =>
                  \E r \in Requests : pc'[r] # pc[r] /\ target[r] = "primary"
<1>1. TypeOK /\ Bound /\ [Next]_vars => [A]_vars
  <2> SUFFICES ASSUME TypeOK, Bound, Next, outcomes' # outcomes
               PROVE  \E r \in Requests : pc'[r] # pc[r] /\ target[r] = "primary"
    OBVIOUS
  <2>1. ASSUME NEW r \in Requests, Fail(r) \/ Succeed(r)
        PROVE  pc'[r] # pc[r] /\ target[r] = "primary"
    <3>1. ~is_circuit_open
      BY <2>1 DEF Fail, Succeed, UpdateCircuitState, breaker
    <3>2. target[r] = "primary"
      BY <2>1, <3>1 DEF Fail, Succeed, Bound, TypeOK
    <3>3. pc'[r] # pc[r]
      BY <2>1 DEF Fail, Succeed, Return, TypeOK
    <3> QED BY <3>2, <3>3
  <2>2. ASSUME NEW r \in Requests,
               Forward(r) \/ Reply(r) \/ Retry(r) \/ Fallback(r) \/ Wake(r)
        PROVE  FALSE
    BY <2>2 DEF Forward, Reply, Retry, Fallback, Wake, breaker
  <2>3. ASSUME NEW p \in Posts, Post(p) \/ PostDone(p)
        PROVE  FALSE
    BY <2>3 DEF Post, PostDone, breaker
  <2>4. ASSUME Quiet PROVE FALSE
    BY <2>4 DEF Quiet, vars, breaker
  <2> QED BY <2>1, <2>2, <2>3, <2>4 DEF Next, Step
<1> QED BY <1>1, BoundInvariant, PTL DEF Spec, CountsPrimaryOnly

(* No report and no registration is left at the primary once a forward has *)
(* gone to the backup (gateway.py:240, 296, 303).                          *)
THEOREM PostsGoAlong == Spec => PostsFollowForwards
<1> DEFINE A == \A p \in Posts :
                  post[p] = "idle" /\ post'[p] # "idle"
                    /\ (\E r \in Requests : target[r] = "backup")
                  => post'[p] = "backup"
<1>1. TypeOK /\ Bound /\ [Next]_vars => [A]_vars
  <2> SUFFICES ASSUME TypeOK, Bound, Next,
                      NEW p \in Posts, post[p] = "idle", post'[p] # "idle",
                      NEW q \in Requests, target[q] = "backup"
               PROVE  post'[p] = "backup"
    OBVIOUS
  <2>1. is_circuit_open /\ HasBackup
    BY DEF Bound
  <2>2. ASSUME NEW o \in Posts, Post(o) PROVE post'[p] = "backup"
    BY <2>1, <2>2 DEF Post, PostUrl, TypeOK
  <2>3. ASSUME NEW o \in Posts, PostDone(o) PROVE FALSE
    BY <2>3 DEF PostDone, TypeOK, Urls
  <2>4. ASSUME NEW r \in Requests, Step(r) PROVE FALSE
    BY <2>4 DEF Step, Forward, Reply, Fail, Succeed, Retry, Fallback, Wake
  <2>5. ASSUME Quiet PROVE FALSE
    BY <2>5 DEF Quiet, vars
  <2> QED BY <2>2, <2>3, <2>4, <2>5 DEF Next
<1> QED BY <1>1, BoundInvariant, PTL DEF Spec, PostsFollowForwards

(* What an open breaker lets through to the primary only shrinks           *)
(* (gateway.py:240 against 242-269).                                       *)
THEOREM PrimaryIsDrained == Spec => PrimaryDrains
<1> DEFINE A == is_circuit_open /\ HasBackup =>
                  \A r \in Requests : PrimaryBudget(r)' \subseteq PrimaryBudget(r)
<1>1. TypeOK /\ [Next]_vars => [A]_vars
  <2> SUFFICES ASSUME TypeOK, Next, is_circuit_open, HasBackup,
                      NEW r \in Requests
               PROVE  PrimaryBudget(r)' \subseteq PrimaryBudget(r)
    OBVIOUS
  <2>1. ASSUME NEW q \in Requests, Forward(q)
        PROVE  PrimaryBudget(r)' \subseteq PrimaryBudget(r)
    BY <2>1 DEF Forward, TargetUrl, PrimaryBudget, TypeOK
  <2>2. ASSUME NEW q \in Requests, Retry(q)
        PROVE  PrimaryBudget(r)' \subseteq PrimaryBudget(r)
    <3>1. CASE r = q
      <4>1. /\ target' = target /\ pc[r] = "backoff"
            /\ attempt'[r] = attempt[r] + 1 /\ attempt[r] \in Int
        BY <2>2, <3>1 DEF Retry, TypeOK
      <4> QED BY <4>1 DEF PrimaryBudget
    <3>2. CASE r # q
      BY <2>2, <3>2 DEF Retry, PrimaryBudget, TypeOK
    <3> QED BY <3>1, <3>2
  <2>3. ASSUME NEW q \in Requests,
               Reply(q) \/ Fail(q) \/ Succeed(q) \/ Fallback(q) \/ Wake(q)
        PROVE  PrimaryBudget(r)' \subseteq PrimaryBudget(r)
    BY <2>3 DEF Reply, Fail, Succeed, Return, Fallback, Wake,
                PrimaryBudget, TypeOK
  <2>4. ASSUME NEW p \in Posts, Post(p) \/ PostDone(p)
        PROVE  PrimaryBudget(r)' \subseteq PrimaryBudget(r)
    BY <2>4 DEF Post, PostDone, PrimaryBudget, locals
  <2>5. ASSUME Quiet PROVE PrimaryBudget(r)' \subseteq PrimaryBudget(r)
    BY <2>5 DEF Quiet, vars, locals, PrimaryBudget
  <2> QED BY <2>1, <2>2, <2>3, <2>4, <2>5 DEF Next, Step
<1> QED BY <1>1, TypeCorrect, PTL DEF Spec, PrimaryDrains

-----------------------------------------------------------------------------
(* The end of a forward *)

(* A forward makes no attempt before it begins, and holds a response once  *)
(* it has left its attempts behind.                                        *)
Answered ==
  \A r \in Requests :
    /\ pc[r] = "idle" => attempt[r] = 0
    /\ pc[r] \in {"reading", "stalled", "done"} => success_response[r] # "none"

LEMMA AnsweredStep ==
  ASSUME TypeOK, Answered, [Next]_vars
  PROVE  Answered'
<1>1. ASSUME NEW r \in Requests, Reply(r) PROVE Answered'
  BY <1>1 DEF Reply, Replies, Answered, TypeOK
<1>2. ASSUME NEW r \in Requests, Fallback(r) PROVE Answered'
  <2>1. PICK answer \in CacheLookup(TaskOf[r]) :
          success_response' = [success_response EXCEPT ![r] = answer]
    BY <1>2 DEF Fallback
  <2>2. answer # "none"
    BY DEF CacheLookup
  <2> QED BY <1>2, <2>1, <2>2 DEF Fallback, Return, Answered, TypeOK
<1>3. ASSUME NEW r \in Requests,
             Forward(r) \/ Fail(r) \/ Succeed(r) \/ Retry(r) \/ Wake(r)
      PROVE  Answered'
  BY <1>3 DEF Forward, Fail, Succeed, Return, Retry, Wake, Answered, TypeOK
<1>4. ASSUME NEW p \in Posts, Post(p) \/ PostDone(p) PROVE Answered'
  BY <1>4 DEF Post, PostDone, Answered, locals
<1>5. CASE UNCHANGED vars
  BY <1>5 DEF Answered, vars, locals
<1> QED BY <1>1, <1>2, <1>3, <1>4, <1>5 DEF Next, Step, Quiet

(* Whatever an await of a forward brings, its end is nearer afterwards. *)
LEMMA StepRunsDown ==
  ASSUME TypeOK, Answered, NEW r \in Requests, Step(r)
  PROVE  /\ AwaitsLeft(r)' < AwaitsLeft(r)
         /\ \A q \in Requests : q # r => pc'[q] = pc[q] /\ attempt'[q] = attempt[q]
<1>1. /\ attempt[r] \in Nat /\ attempt[r] <= ATTEMPT_TIMES
      /\ ATTEMPT_TIMES \in Nat \ {0}
  BY GatewayAssumption DEF TypeOK
<1>2. CASE Forward(r)
  <2>1. pc[r] = "idle" /\ attempt[r] = 0 /\ pc'[r] = "sent" /\ attempt'[r] = 1
    BY <1>2 DEF Forward, Answered, TypeOK
  <2>2. AwaitsLeft(r)' < AwaitsLeft(r)
    BY <1>1, <2>1 DEF AwaitsLeft, AwaitsFrom
  <2>3. \A q \in Requests : q # r => pc'[q] = pc[q] /\ attempt'[q] = attempt[q]
    BY <1>2 DEF Forward, TypeOK
  <2> QED BY <2>2, <2>3
<1>3. CASE Retry(r)
  <2>1. pc[r] = "backoff" /\ pc'[r] = "sent" /\ attempt'[r] = attempt[r] + 1
    BY <1>3 DEF Retry, TypeOK
  <2>2. AwaitsLeft(r)' < AwaitsLeft(r)
    BY <1>1, <2>1 DEF AwaitsLeft, AwaitsFrom
  <2>3. \A q \in Requests : q # r => pc'[q] = pc[q] /\ attempt'[q] = attempt[q]
    BY <1>3 DEF Retry, TypeOK
  <2> QED BY <2>2, <2>3
<1>4. CASE Reply(r) \/ Fail(r)
  <2>1. pc[r] = "sent" /\ pc'[r] \in {"reading", "backoff"} /\ UNCHANGED attempt
    BY <1>4 DEF Reply, Fail, TypeOK
  <2>2. AwaitsLeft(r)' < AwaitsLeft(r)
    BY <1>1, <2>1 DEF AwaitsLeft, AwaitsFrom
  <2>3. \A q \in Requests : q # r => pc'[q] = pc[q]
    BY <1>4 DEF Reply, Fail, TypeOK
  <2> QED BY <2>1, <2>2, <2>3
<1>5. CASE Succeed(r) \/ Fallback(r)
  <2>1. /\ pc[r] \in {"reading", "backoff"} /\ pc'[r] \in {"stalled", "done"}
        /\ UNCHANGED attempt
    BY <1>5 DEF Succeed, Fallback, Return, TypeOK
  <2>2. AwaitsLeft(r)' < AwaitsLeft(r)
    BY <1>1, <2>1 DEF AwaitsLeft, AwaitsFrom
  <2>3. \A q \in Requests : q # r => pc'[q] = pc[q]
    BY <1>5 DEF Succeed, Fallback, Return, TypeOK
  <2> QED BY <2>1, <2>2, <2>3
<1>6. CASE Wake(r)
  <2>1. pc[r] = "stalled" /\ pc'[r] = "done" /\ UNCHANGED attempt
    BY <1>6 DEF Wake, TypeOK
  <2> QED BY <1>1, <1>6, <2>1 DEF Wake, AwaitsLeft, AwaitsFrom, TypeOK
<1> QED BY <1>2, <1>3, <1>4, <1>5, <1>6 DEF Step

(* Every step of a forward brings its end nearer and the end carries a     *)
(* response, for any number of attempts and whatever the server and the    *)
(* table answer: what EveryForwardAnswered needs beside fairness           *)
(* (gateway.py:242-289).                                                   *)
THEOREM RunsDown == Spec => ForwardRunsDown
<1> DEFINE A == \A r \in Requests :
                  pc'[r] # pc[r] \/ attempt'[r] # attempt[r] =>
                    /\ AwaitsLeft(r)' < AwaitsLeft(r)
                    /\ pc'[r] = "done" => success_response'[r] # "none"
<1>1. TypeOK /\ Answered /\ [Next]_vars => [A]_vars
  <2> SUFFICES ASSUME TypeOK, Answered, Next,
                      NEW r \in Requests, pc'[r] # pc[r] \/ attempt'[r] # attempt[r]
               PROVE  /\ AwaitsLeft(r)' < AwaitsLeft(r)
                      /\ pc'[r] = "done" => success_response'[r] # "none"
    OBVIOUS
  <2>1. Answered'
    BY AnsweredStep
  <2>2. ASSUME NEW q \in Requests, Step(q) PROVE AwaitsLeft(r)' < AwaitsLeft(r)
    <3>1. CASE q = r
      BY <2>2, <3>1, StepRunsDown
    <3>2. CASE q # r
      BY <2>2, <3>2, StepRunsDown
    <3> QED BY <3>1, <3>2
  <2>3. ASSUME NEW p \in Posts, Post(p) \/ PostDone(p) PROVE FALSE
    BY <2>3 DEF Post, PostDone, locals
  <2>4. ASSUME Quiet PROVE FALSE
    BY <2>4 DEF Quiet, vars, locals
  <2> QED BY <2>1, <2>2, <2>3, <2>4 DEF Next, Answered
<1>2. Init => Answered
  BY DEF Init, Answered
<1>3. TypeOK /\ Answered /\ [Next]_vars => Answered'
  BY AnsweredStep
<1> QED BY <1>1, <1>2, <1>3, TypeCorrect, PTL DEF Spec, ForwardRunsDown
=============================================================================
