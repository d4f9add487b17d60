-------------------------- MODULE TraditionalProofs --------------------------
(***************************************************************************)
(* Proofs about the traditional mode, for any number of requests and of    *)
(* threads.                                                                *)
(***************************************************************************)
EXTENDS Traditional, FiniteSetTheorems, TLAPS

Counted  == {r \in Requests : client[r] = "counted"}
Computed == {r \in Requests : server[r] = "success"}

(* What the main thread has counted adds up. *)
AddsUp ==
  /\ success \in Nat /\ failed \in Nat
  /\ success + failed = Cardinality(Counted)
  /\ bytes_received \in 0 .. success + failed

(* The answer of a success lies behind it on each hop. *)
Founded ==
  \A r \in Requests :
    /\ gateway[r] \in {"upstream_loss", "downstream", "done"} => result[r] # "none"
    /\ result[r] = "success" => server[r] = "success"
    /\ client[r] = "heard_success" => server[r] = "success"

(* Only what was computed and counted is a success. *)
CountedSuccess ==
  success <= Cardinality({r \in Counted : server[r] = "success"})

Shape ==
  /\ client \in [Requests -> ClientPCs]
  /\ gateway \in [Requests -> GatewayPCs]
  /\ server \in [Requests -> ServerPCs]
  /\ result \in [Requests -> Statuses \cup {"none"}]
  /\ Cardinality(Pool) <= MAX_WORKERS
  /\ report = NoReport \/ report.saved

IInv == Shape /\ AddsUp /\ Founded /\ CountedSuccess

(* Sets of requests are finite, and no larger than all of them. *)
LEMMA Finite ==
  ASSUME NEW S \in SUBSET Requests
  PROVE  /\ IsFiniteSet(S)
         /\ Cardinality(S) \in Nat
         /\ Cardinality(S) <= REQUEST_TIMES
<1>1. IsFiniteSet(Requests) /\ Cardinality(Requests) = REQUEST_TIMES
  BY FS_Interval, TraditionalAssumption DEF Requests
<1>2. IsFiniteSet(S) /\ Cardinality(S) <= Cardinality(Requests)
  BY <1>1, FS_Subset
<1> QED BY <1>1, <1>2, FS_CardinalityType

LEMMA IInvInit == Init => IInv
<1> SUFFICES ASSUME Init PROVE IInv
  OBVIOUS
<1>1. Pool = {} /\ Counted = {} /\ {r \in Counted : server[r] = "success"} = {}
  BY DEF Init, Pool, Counted
<1>2. Shape
  BY <1>1, FS_EmptySet, TraditionalAssumption
     DEF Init, Shape, ClientPCs, GatewayPCs, ServerPCs, Statuses
<1> QED BY <1>1, <1>2, FS_EmptySet DEF Init, IInv, AddsUp, Founded, CountedSuccess

(* Steps of the gateway and of the server leave the client alone. *)
LEMMA BehindKeeps ==
  ASSUME IInv, NEW r \in Requests,
         Process(r) \/ Processed(r) \/ Forward(r) \/ Hear(r) \/ ForwardFails(r) \/ Wake(r)
  PROVE  IInv'
<1>1. UNCHANGED <<client, success, failed, bytes_received, report>>
  BY DEF Process, Processed, Forward, Hear, ForwardFails, Wake, counters
<1>2. \A q \in Requests : server[q] = "success" => server'[q] = "success"
  BY DEF Process, Processed, Forward, Hear, ForwardFails, Wake, IInv, Shape
<1>3. Shape'
  <2>1. Pool' = Pool
    BY <1>1 DEF Pool
  <2>2. gateway' \in [Requests -> GatewayPCs]
    BY DEF Process, Processed, Forward, Hear, ForwardFails, Wake, IInv, Shape, GatewayPCs
  <2>3. server' \in [Requests -> ServerPCs]
    BY DEF Process, Processed, Forward, Hear, ForwardFails, Wake, IInv, Shape, ServerPCs
  <2>4. result' \in [Requests -> Statuses \cup {"none"}]
    BY DEF Process, Processed, Forward, Hear, ForwardFails, Wake, IInv, Shape, Statuses
  <2> QED BY <1>1, <2>1, <2>2, <2>3, <2>4 DEF IInv, Shape, NoReport
<1>4. AddsUp'
  BY <1>1 DEF IInv, AddsUp, Counted
<1>5. Founded'
  <2>1. CASE Process(r) \/ Processed(r) \/ Forward(r)
    BY <1>1, <1>2, <2>1 DEF Process, Processed, Forward, IInv, Shape, Founded
  <2>2. CASE Hear(r)
    BY <1>1, <1>2, <2>2 DEF Hear, IInv, Shape, Founded, Statuses
  <2>3. CASE ForwardFails(r)
    BY <1>1, <1>2, <2>3 DEF ForwardFails, IInv, Shape, Founded
  <2>4. CASE Wake(r)
    BY <1>1, <1>2, <2>4 DEF Wake, IInv, Shape, Founded
  <2> QED BY <2>1, <2>2, <2>3, <2>4
<1>6. CountedSuccess'
  <2> DEFINE A == {q \in Counted : server[q] = "success"}
             B == {q \in Counted' : server'[q] = "success"}
  <2>1. A \subseteq B /\ B \subseteq Requests
    BY <1>1, <1>2 DEF Counted
  <2>2. Cardinality(A) <= Cardinality(B)
    BY <2>1, Finite, FS_Subset
  <2>3. Cardinality(A) \in Nat /\ Cardinality(B) \in Nat
    BY <2>1, Finite
  <2> QED BY <1>1, <2>2, <2>3 DEF IInv, CountedSuccess, AddsUp
<1> QED BY <1>3, <1>4, <1>5, <1>6 DEF IInv

(* Sending and hearing count nothing. *)
LEMMA TransmitKeeps ==
  ASSUME IInv, NEW r \in Requests, Send(r) \/ Answered(r) \/ Unanswered(r)
  PROVE  IInv'
<1>1. UNCHANGED <<gateway, server, result, success, failed, bytes_received, report>>
  BY DEF Send, Answered, Unanswered, counters
<1>2. Counted' = Counted
  BY DEF Send, Answered, Unanswered, Counted, IInv, Shape
<1>3. Shape'
  <2>1. client' \in [Requests -> ClientPCs]
    BY DEF Send, Answered, Unanswered, IInv, Shape, ClientPCs
  <2>2. Cardinality(Pool') <= MAX_WORKERS
    <3>1. CASE Send(r)
      <4>1. Pool' = Pool \cup {r} /\ r \notin Pool
        BY <3>1 DEF Send, Pool, IInv, Shape
      <4>2. IsFiniteSet(Pool) /\ Cardinality(Pool) \in Nat
        BY Finite DEF Pool
      <4>3. Cardinality(Pool') = Cardinality(Pool) + 1
        BY <4>1, <4>2, FS_AddElement
      <4>4. Cardinality(Pool') \in Nat
        BY Finite DEF Pool
      <4> QED BY <3>1, <4>2, <4>3, <4>4, TraditionalAssumption DEF Send
    <3>2. CASE Answered(r) \/ Unanswered(r)
      <4>1. Pool' \subseteq Pool
        BY <3>2 DEF Answered, Unanswered, Pool, IInv, Shape
      <4>2. IsFiniteSet(Pool) /\ Cardinality(Pool) \in Nat /\ Cardinality(Pool') \in Nat
        BY Finite DEF Pool
      <4>3. Cardinality(Pool') <= Cardinality(Pool)
        BY <4>1, <4>2, FS_Subset
      <4> QED BY <4>2, <4>3, TraditionalAssumption DEF IInv, Shape
    <3> QED BY <3>1, <3>2
  <2> QED BY <1>1, <2>1, <2>2 DEF IInv, Shape, NoReport
<1>4. AddsUp' /\ CountedSuccess'
  BY <1>1, <1>2 DEF IInv, AddsUp, CountedSuccess
<1>5. Founded'
  BY <1>1 DEF Send, Answered, Unanswered, IInv, Shape, Founded, Statuses
<1> QED BY <1>3, <1>4, <1>5 DEF IInv

LEMMA CollectKeeps ==
  ASSUME IInv, NEW r \in Requests, Collect(r)
  PROVE  IInv'
<1>1. UNCHANGED <<gateway, server, result, report>>
  BY DEF Collect
<1>2. client' = [client EXCEPT ![r] = "counted"] /\ client[r] # "counted"
  BY DEF Collect
<1>3. Counted' = Counted \cup {r} /\ r \notin Counted
  BY <1>2 DEF Counted, IInv, Shape
<1>4. /\ IsFiniteSet(Counted)
      /\ Cardinality(Counted) \in Nat
      /\ Cardinality(Counted') = Cardinality(Counted) + 1
  <2>1. IsFiniteSet(Counted) /\ Cardinality(Counted) \in Nat
    BY Finite DEF Counted
  <2> QED BY <1>3, <2>1, FS_AddElement
<1>5. Shape'
  <2>1. Pool' \subseteq Pool
    BY <1>2 DEF Pool, IInv, Shape
  <2>2. IsFiniteSet(Pool) /\ Cardinality(Pool) \in Nat /\ Cardinality(Pool') \in Nat
    BY Finite DEF Pool
  <2>3. Cardinality(Pool') <= Cardinality(Pool)
    BY <2>1, <2>2, FS_Subset
  <2>4. Cardinality(Pool') <= MAX_WORKERS
    BY <2>2, <2>3, TraditionalAssumption DEF IInv, Shape
  <2>5. client' \in [Requests -> ClientPCs]
    BY <1>2 DEF IInv, Shape, ClientPCs
  <2> QED BY <1>1, <2>4, <2>5 DEF IInv, Shape, NoReport
<1>6. AddsUp'
  BY <1>4 DEF Collect, IInv, AddsUp
<1>7. Founded'
  BY <1>1, <1>2 DEF IInv, Shape, Founded
<1>8. CountedSuccess'
  <2> DEFINE A == {q \in Counted : server[q] = "success"}
             B == {q \in Counted' : server'[q] = "success"}
  <2>1. A \subseteq Requests /\ B \subseteq Requests
    BY DEF Counted
  <2>2. /\ IsFiniteSet(A) /\ IsFiniteSet(B)
        /\ Cardinality(A) \in Nat /\ Cardinality(B) \in Nat
    BY <2>1, Finite
  <2>3. CASE client[r] = "heard_success"
    <3>1. B = A \cup {r} /\ r \notin A
      BY <1>1, <1>3, <2>3 DEF IInv, Founded
    <3>2. Cardinality(B) = Cardinality(A) + 1
      BY <2>2, <3>1, FS_AddElement
    <3>3. success' = success + 1
      BY <2>3 DEF Collect
    <3> QED BY <2>2, <3>2, <3>3 DEF IInv, AddsUp, CountedSuccess
  <2>4. CASE client[r] # "heard_success"
    <3>1. A \subseteq B
      BY <1>1, <1>3
    <3>2. Cardinality(A) <= Cardinality(B)
      BY <2>2, <3>1, FS_Subset
    <3>3. success' = success
      BY <2>4 DEF Collect
    <3> QED BY <2>2, <3>2, <3>3 DEF IInv, AddsUp, CountedSuccess
  <2> QED BY <2>3, <2>4
<1> QED BY <1>5, <1>6, <1>7, <1>8 DEF IInv

LEMMA IInvInductive == IInv /\ [Next]_vars => IInv'
<1> SUFFICES ASSUME IInv, [Next]_vars PROVE IInv'
  OBVIOUS
<1>1. CASE SaveResult
  <2>1. report'.saved
    BY <1>1 DEF SaveResult
  <2> QED BY <1>1, <2>1 DEF SaveResult, IInv, Shape, AddsUp, Founded, CountedSuccess,
            Pool, Counted
<1>2. CASE UNCHANGED vars
  BY <1>2 DEF vars, IInv, Shape, AddsUp, Founded, CountedSuccess, Pool, Counted, NoReport
<1>3. CASE Idle
  BY <1>2, <1>3 DEF Idle
<1> QED BY <1>1, <1>2, <1>3, BehindKeeps, TransmitKeeps, CollectKeeps DEF Next, ClientStep

LEMMA IInvMeans == IInv => TypeOK /\ SuccessesWereComputed
<1> SUFFICES ASSUME IInv PROVE TypeOK /\ SuccessesWereComputed
  OBVIOUS
<1>1. Cardinality(Counted) \in Nat /\ Cardinality(Counted) <= REQUEST_TIMES
  BY Finite DEF Counted
<1>2. {success, failed, bytes_received} \subseteq 0 .. REQUEST_TIMES
  BY <1>1, TraditionalAssumption DEF IInv, AddsUp
<1>3. TypeOK
  BY <1>2 DEF IInv, Shape, TypeOK
<1>4. SuccessesWereComputed
  <2> DEFINE A == {q \in Counted : server[q] = "success"}
  <2>1. A \subseteq Computed /\ Computed \subseteq Requests
    BY DEF Counted, Computed
  <2>2. Cardinality(A) <= Cardinality(Computed)
    BY <2>1, Finite, FS_Subset
  <2>3. Cardinality(A) \in Nat /\ Cardinality(Computed) \in Nat
    BY <2>1, Finite
  <2>4. success <= Cardinality(Computed)
    BY <2>2, <2>3 DEF IInv, AddsUp, CountedSuccess
  <2> QED BY <2>4 DEF SuccessesWereComputed, Computed
<1> QED BY <1>3, <1>4

(* Every request, answer and counter keeps its range, and the pool its     *)
(* size (traditional/client/client.py:68-94).                              *)
THEOREM TypeCorrect == Spec => []TypeOK
BY IInvInit, IInvInductive, IInvMeans, PTL DEF Spec

(* The client never calls more requests successful than the server         *)
(* computed with success, whatever is lost or late on the way.             *)
THEOREM SuccessesAreReal == Spec => []SuccessesWereComputed
BY IInvInit, IInvInductive, IInvMeans, PTL DEF Spec

-----------------------------------------------------------------------------
(* The report *)

(* The report is a copy of the counters, taken when all was counted. *)
Reported ==
  report # NoReport =>
    /\ Counted = Requests
    /\ report.success = success /\ report.failed = failed

LEMMA ReportedStep ==
  ASSUME IInv, Reported, [Next]_vars
  PROVE  Reported'
<1>1. ASSUME UNCHANGED <<report, success, failed>>, Counted \subseteq Counted'
      PROVE  Reported'
  BY <1>1 DEF Reported, Counted, NoReport
<1>2. ASSUME NEW r \in Requests,
             \/ Process(r) \/ Processed(r) \/ Forward(r) \/ Hear(r) \/ ForwardFails(r)
             \/ Wake(r) \/ Send(r) \/ Answered(r) \/ Unanswered(r)
      PROVE  Reported'
  <2>1. UNCHANGED <<report, success, failed>>
    BY <1>2 DEF Process, Processed, Forward, Hear, ForwardFails, Wake, Send, Answered,
                Unanswered, counters
  <2>2. Counted \subseteq Counted'
    <3>1. CASE Send(r) \/ Answered(r) \/ Unanswered(r)
      BY <3>1 DEF Send, Answered, Unanswered, Counted, IInv, Shape
    <3>2. CASE UNCHANGED client
      BY <3>2 DEF Counted
    <3> QED BY <1>2, <3>1, <3>2 DEF Process, Processed, Forward, Hear, ForwardFails, Wake
  <2> QED BY <1>1, <2>1, <2>2
<1>3. ASSUME NEW r \in Requests, Collect(r) PROVE Reported'
  <2>1. r \notin Counted
    BY <1>3 DEF Collect, Counted
  <2>2. report = NoReport /\ UNCHANGED report
    BY <1>3, <2>1 DEF Collect, Reported
  <2> QED BY <2>2 DEF Reported, NoReport
<1>4. CASE SaveResult
  <2>1. /\ UNCHANGED <<client, success, failed>> /\ Counted = Requests
        /\ report'.success = success /\ report'.failed = failed
    BY <1>4 DEF SaveResult, Counted
  <2> QED BY <2>1 DEF Reported, Counted
<1>5. CASE Idle \/ UNCHANGED vars
  BY <1>1, <1>5 DEF Idle, vars, counters, Counted
<1> QED BY <1>2, <1>3, <1>4, <1>5 DEF Next, ClientStep

(* The report adds up to all requests and never claims a success that was  *)
(* not computed, for any number of requests (client.py:68-99).             *)
THEOREM ReportIsComplete == Spec => []ReportAddsUp
<1>1. Init => Reported
  BY DEF Init, Reported
<1>2. IInv /\ Reported /\ [Next]_vars => Reported'
  BY ReportedStep
<1>3. IInv /\ Reported => ReportAddsUp
  <2> SUFFICES ASSUME IInv, Reported, report # NoReport PROVE ReportAddsUp
    BY DEF ReportAddsUp
  <2>1. Cardinality(Requests) = REQUEST_TIMES
    BY FS_Interval, TraditionalAssumption DEF Requests
  <2>2. success + failed = REQUEST_TIMES
    BY <2>1 DEF IInv, AddsUp, Reported
  <2>3. success <= Cardinality({r \in Requests : server[r] = "success"})
    BY IInvMeans DEF SuccessesWereComputed
  <2> QED BY <2>2, <2>3 DEF Reported, ReportAddsUp
<1> QED BY <1>1, <1>2, <1>3, IInvInit, IInvInductive, PTL DEF Spec
=============================================================================
