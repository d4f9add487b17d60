---------------------------- MODULE ClientRunProofs ----------------------------
(***************************************************************************)
(* Proofs about a run of the client, for any number of requests, threads   *)
(* and retries.  What FaultQueueProofs shows of the queue is used here:    *)
(* the steps of a run are steps of the queue or leave it alone.            *)
(***************************************************************************)
EXTENDS ClientRun, FiniteSetTheorems, TLAPS

QP == INSTANCE FaultQueueProofs WITH
        Entries <- Requests, Runs <- 1, MayBeKilled <- FALSE

LEMMA QueueAssumed == QP!QueueAssumption
BY ClientAssumption DEF QP!QueueAssumption, Requests

-----------------------------------------------------------------------------
(* A run is a behaviour of the queue *)

LEMMA QueueInit == Init => QP!IInv
<1>1. QP!Init => QP!IInv
  BY QueueAssumed, QP!IInvInit
<1>2. Init => QP!Init
  BY DEF Init, Q!Init, QP!Init
<1> QED BY <1>1, <1>2

(* The two instances of FaultQueue have the same actions. *)
LEMMA SameMain ==
  /\ \A r \in Requests : Q!EnqueueRead(r) <=> QP!EnqueueRead(r)
  /\ Q!EnqueueTruncate <=> QP!EnqueueTruncate
  /\ Q!EnqueueWrite <=> QP!EnqueueWrite
  /\ Q!CollectEnd <=> QP!CollectEnd
  /\ Q!WaitEnd <=> QP!WaitEnd
  /\ Q!Exit <=> QP!Exit
<1>1. \A r \in Requests : Q!EnqueueRead(r) <=> QP!EnqueueRead(r)
  BY DEF Q!EnqueueRead, QP!EnqueueRead, Q!Readable, QP!Readable, Q!Lists, QP!Lists,
         Q!WorkerBound, QP!WorkerBound, Q!worker, QP!worker
<1>2. Q!EnqueueTruncate <=> QP!EnqueueTruncate
  BY DEF Q!EnqueueTruncate, QP!EnqueueTruncate, Q!Truncate, QP!Truncate,
         Q!worker, QP!worker, Q!history, QP!history
<1>3. Q!EnqueueWrite <=> QP!EnqueueWrite
  BY DEF Q!EnqueueWrite, QP!EnqueueWrite, Q!Write, QP!Write, Q!Overlay, QP!Overlay,
         Q!Lists, QP!Lists, Q!Last, QP!Last, Q!Range, QP!Range, Q!worker, QP!worker
<1>4. /\ Q!CollectEnd <=> QP!CollectEnd
      /\ Q!WaitEnd <=> QP!WaitEnd
      /\ Q!Exit <=> QP!Exit
  BY DEF Q!CollectEnd, QP!CollectEnd, Q!WaitEnd, QP!WaitEnd, Q!Exit, QP!Exit,
         Q!worker, QP!worker, Q!history, QP!history
<1> QED BY <1>1, <1>2, <1>3, <1>4

LEMMA SameWorker == Q!Worker <=> QP!Worker
<1>1. Q!Poll <=> QP!Poll
  BY DEF Q!Poll, QP!Poll, Q!Readable, QP!Readable, Q!Lists, QP!Lists, Q!main, QP!main,
         Q!worker, QP!worker, Q!history, QP!history
<1>2. Q!ReportFails <=> QP!ReportFails
  BY DEF Q!ReportFails, QP!ReportFails, Q!main, QP!main, Q!history, QP!history
<1>3. Q!Report <=> QP!Report
  BY DEF Q!Report, QP!Report, Q!ReportConfirmed, QP!ReportConfirmed, Q!ReportRetry,
         QP!ReportRetry, Q!Answered, QP!Answered, Q!MainInside, QP!MainInside, Q!main, QP!main
<1>4. /\ Q!RetryHeals <=> QP!RetryHeals
      /\ Q!RetryUnread <=> QP!RetryUnread
      /\ Q!RetryFails <=> QP!RetryFails
  BY DEF Q!RetryUnread, QP!RetryUnread, Q!RetryHeals, QP!RetryHeals, Q!RetryFails,
         QP!RetryFails, Q!Rotate, QP!Rotate, Q!main, QP!main, Q!history, QP!history
<1>5. Q!WorkerTruncate <=> QP!WorkerTruncate
  BY DEF Q!WorkerTruncate, QP!WorkerTruncate, Q!Truncate, QP!Truncate, Q!main, QP!main,
         Q!history, QP!history
<1>6. Q!WorkerWrite <=> QP!WorkerWrite
  BY DEF Q!WorkerWrite, QP!WorkerWrite, Q!Write, QP!Write, Q!Overlay, QP!Overlay,
         Q!Lists, QP!Lists, Q!Range, QP!Range, Q!main, QP!main, Q!history, QP!history
<1> QED BY <1>1, <1>2, <1>3, <1>4, <1>5, <1>6 DEF Q!Worker, QP!Worker

LEMMA QueueSteps == [Next]_vars => [QP!Next]_(QP!vars)
<1> SUFFICES ASSUME [Next]_vars PROVE [QP!Next]_(QP!vars)
  OBVIOUS
<1>1. CASE UNCHANGED queue
  BY <1>1 DEF queue, QP!vars, QP!main, QP!worker, QP!history
<1>2. ASSUME NEW r \in Requests, CollectFailure(r) PROVE QP!Next
  BY <1>2, SameMain DEF CollectFailure, QP!Next, QP!Main
<1>3. CASE CollectEnd \/ Exit \/ Queue(Q!EnqueueTruncate \/ Q!EnqueueWrite \/ Q!WaitEnd)
  BY <1>3, SameMain DEF CollectEnd, Exit, Queue, QP!Next, QP!Main
<1>4. CASE Worker
  BY <1>4, SameWorker DEF Worker, Queue, QP!Next
<1>5. CASE Down \/ UNCHANGED vars
  BY <1>1, <1>5 DEF Down, vars
<1>6. ASSUME NEW r \in Requests, Send(r) \/ Transmission(r) \/ CollectSuccess(r)
      PROVE  UNCHANGED queue
  BY <1>6 DEF Send, Transmission, TryFails, TryRefused, TryAnswered, CollectSuccess
<1>7. CASE SaveResult
  BY <1>1, <1>7 DEF SaveResult
<1> QED BY <1>1, <1>2, <1>3, <1>4, <1>5, <1>6, <1>7 DEF Next, Main

LEMMA QueueInductive == QP!IInv /\ [Next]_vars => QP!IInv'
<1>1. QP!IInv /\ [QP!Next]_(QP!vars) => QP!IInv'
  BY QueueAssumed, QP!IInvInductive
<1> QED BY <1>1, QueueSteps

(* A race is never forgotten. *)
LEMMA RacedStays ==
  ASSUME QP!IInv, [Next]_vars, raced
  PROVE  raced'
<1>1. raced \in BOOLEAN
  BY DEF QP!IInv, QP!TypeOK
<1>2. CASE QP!Main
  BY <1>1, <1>2 DEF QP!Main, QP!EnqueueRead, QP!EnqueueTruncate, QP!EnqueueWrite,
     QP!CollectEnd, QP!WaitEnd, QP!history
<1>3. CASE QP!Worker
  BY <1>1, <1>3 DEF QP!Worker, QP!Poll, QP!ReportFails, QP!Report, QP!ReportConfirmed,
     QP!ReportRetry, QP!Answered, QP!RetryHeals, QP!RetryUnread, QP!RetryFails,
     QP!WorkerTruncate, QP!WorkerWrite, QP!history
<1>4. CASE QP!Exit \/ QP!Start
  BY <1>1, <1>4 DEF QP!Exit, QP!Start, QP!history
<1>5. CASE QP!AllDown \/ UNCHANGED QP!vars
  BY <1>5 DEF QP!AllDown, QP!vars, QP!history
<1> QED BY <1>2, <1>3, <1>4, <1>5, QueueSteps DEF QP!Next

-----------------------------------------------------------------------------
(* The inductive invariant *)

Counted == {r \in Requests : stage[r] = "counted"}
Direct  == {r \in Counted : reply[r] # "error"}
Errors  == {r \in Counted : reply[r] = "error"}
Twice   == {r \in Requests : tries[r] > 1}

Shape ==
  /\ stage \in [Requests -> Stages]
  /\ tries \in [Requests -> 0 .. RETRY_TIMES + 1]
  /\ reply \in [Requests -> Answers \cup {"none", "error"}]
  /\ Cardinality(Sending) <= MAX_WORKERS
  /\ retried_requests \in SUBSET Requests
  /\ report = NoReport \/ report.saved

(* The counters say what was collected, and the failures are the queue's. *)
Books ==
  /\ success = Cardinality(Direct)
  /\ failed = Cardinality(Errors)
  /\ server_cache_hits \in 0 .. success
  /\ gateway_degrade_hits \in 0 .. success
  /\ reported = Errors

(* The note of a retry is taken of whatever is transmitted again. *)
Notes ==
  /\ \A r \in Requests : stage[r] = "submitted" => r \notin retried_requests /\ tries[r] = 0
  /\ \A r \in Requests : stage[r] # "submitted" => tries[r] > 0
  /\ RETRY_TIMES > 0 => retried_requests = Twice

(* Where the main thread is, and what it has then done. *)
Stations ==
  /\ mpc \in {"collect", "wait", "leaving"} => enqueued = reported
  /\ mpc \in {"truncate", "write"} => reported \subseteq enqueued \cup {QP!Last(mq)}
  /\ mpc \in {"wait", "leaving"} => Counted = Requests
  /\ report # NoReport =>
       /\ mpc \in {"leaving", "down"}
       /\ Counted = Requests /\ enqueued = reported
       /\ report.success = success /\ report.failed = failed
       /\ report.healed \in Nat /\ report.healed <= self_healed_success
       /\ report.retries = Cardinality(retried_requests)

(* Without a race what was healed stays healed, and is counted once. *)
Healed == ~raced => self_healed_success = Cardinality(healed) + unread

IInv == QP!IInv /\ Shape /\ Books /\ Notes /\ Stations /\ Healed

(* Sets of requests are finite, and no larger than all of them. *)
LEMMA Finite ==
  ASSUME NEW S \in SUBSET Requests
  PROVE  /\ IsFiniteSet(S)
         /\ Cardinality(S) \in Nat
         /\ Cardinality(S) <= REQUEST_TIMES
<1>1. IsFiniteSet(Requests) /\ Cardinality(Requests) = REQUEST_TIMES
  BY FS_Interval, ClientAssumption DEF Requests
<1>2. IsFiniteSet(S) /\ Cardinality(S) <= Cardinality(Requests)
  BY <1>1, FS_Subset
<1> QED BY <1>1, <1>2, FS_CardinalityType

(* A part of a set of requests is no larger, and one more counts for one.  *)
LEMMA Sizes ==
  ASSUME NEW S \in SUBSET Requests
  PROVE  /\ \A T \in SUBSET S : Cardinality(T) <= Cardinality(S)
         /\ \A r \in Requests \ S : Cardinality(S \cup {r}) = Cardinality(S) + 1
<1>1. IsFiniteSet(S)
  BY Finite
<1>2. \A T \in SUBSET S : Cardinality(T) <= Cardinality(S)
  BY <1>1, FS_Subset
<1>3. \A r \in Requests \ S : Cardinality(S \cup {r}) = Cardinality(S) + 1
  BY <1>1, FS_AddElement
<1> QED BY <1>2, <1>3

LEMMA IInvInit == Init => IInv
<1> SUFFICES ASSUME Init PROVE IInv
  OBVIOUS
<1>1. Counted = {} /\ Direct = {} /\ Errors = {} /\ Sending = {}
  BY DEF Init, Counted, Direct, Errors, Sending
<1>2. QP!IInv
  BY QueueInit
<1>3. Shape
  BY <1>1, FS_EmptySet, ClientAssumption DEF Init, Shape, Stages
<1>4. reported = {} /\ enqueued = {} /\ healed = {} /\ unread = 0
      /\ mpc = "collect" /\ self_healed_success = 0
  BY DEF Init, Q!Init
<1>5. Books /\ Healed
  BY <1>1, <1>4, FS_EmptySet DEF Init, Books, Healed
<1>6. Notes
  BY DEF Init, Notes, Twice
<1>7. Stations
  BY <1>4 DEF Init, Stations
<1> QED BY <1>2, <1>3, <1>5, <1>6, <1>7 DEF IInv

-----------------------------------------------------------------------------
(* Each action keeps it *)

(* The threads of the pool change no book, and there are never too many. *)
LEMMA PoolKeeps ==
  ASSUME IInv, NEW r \in Requests, Send(r) \/ Transmission(r)
  PROVE  IInv'
<1> USE DEF IInv
<1>1. UNCHANGED <<counters, report, queue>>
  BY DEF Send, Transmission, TryFails, TryRefused, TryAnswered
<1>2. /\ stage[r] \in {"submitted", "sending"} /\ stage'[r] \in {"sending", "returned"}
      /\ \A q \in Requests : q # r => stage'[q] = stage[q] /\ reply'[q] = reply[q]
  BY DEF Shape, Send, Transmission, TryFails, TryRefused, TryAnswered
<1>3. Counted' = Counted /\ Direct' = Direct /\ Errors' = Errors /\ r \notin Counted
  BY <1>2 DEF Counted, Direct, Errors
<1>4. QP!IInv'
  BY QueueInductive DEF Next
<1>5. Shape'
  <2>1. Cardinality(Sending') <= MAX_WORKERS
    <3>1. Sending \in SUBSET Requests /\ Sending' \in SUBSET Requests
      BY DEF Sending
    <3>2. Cardinality(Sending) \in Nat /\ Cardinality(Sending') \in Nat
      BY <3>1, Finite
    <3>3. CASE Send(r)
      <4>1. Sending' = Sending \cup {r} /\ r \notin Sending
        BY <3>3 DEF Send, Sending, Shape
      <4>2. Cardinality(Sending') = Cardinality(Sending) + 1
        BY <3>1, <4>1, Sizes
      <4> QED BY <3>2, <3>3, <4>2, ClientAssumption DEF Send
    <3>4. CASE Transmission(r)
      <4>1. Sending' \subseteq Sending
        BY <1>2, <3>4 DEF Transmission, TryFails, TryRefused, TryAnswered, Sending, Shape
      <4>2. Cardinality(Sending') <= Cardinality(Sending)
        BY <3>1, <4>1, Sizes
      <4> QED BY <3>2, <4>2, ClientAssumption DEF Shape
    <3> QED BY <3>3, <3>4
  <2>2. /\ stage' \in [Requests -> Stages]
        /\ reply' \in [Requests -> Answers \cup {"none", "error"}]
        /\ retried_requests' \in SUBSET Requests
    BY DEF Send, Transmission, TryFails, TryRefused, TryAnswered, Shape, Stages, Answers
  <2>3. tries' \in [Requests -> 0 .. RETRY_TIMES + 1]
    BY ClientAssumption DEF Send, Transmission, TryFails, TryRefused, TryAnswered, Shape
  <2> QED BY <1>1, <2>1, <2>2, <2>3 DEF Shape, NoReport
<1>6. Books' /\ Healed'
  BY <1>1, <1>3 DEF Books, Healed, counters, queue
<1>7. Notes'
  <2>1. CASE Send(r)
    BY <2>1, ClientAssumption DEF Send, Shape, Notes, Twice
  <2>2. CASE TryFails(r)
    BY <2>2, ClientAssumption DEF TryFails, Shape, Notes, Twice
  <2>3. CASE TryRefused(r) \/ \E a \in Answers : TryAnswered(r, a)
    BY <2>3 DEF TryRefused, TryAnswered, Shape, Notes, Twice
  <2> QED BY <2>1, <2>2, <2>3 DEF Transmission
<1>8. Stations'
  <2>1. Counted # Requests
    BY <1>3
  <2>2. report = NoReport /\ mpc \notin {"wait", "leaving"}
    BY <2>1 DEF Stations
  <2>3. QP!Last(mq)' = QP!Last(mq)
    BY <1>1 DEF queue, QP!Last
  <2> QED BY <1>1, <2>2, <2>3 DEF Stations, queue, NoReport
<1> QED BY <1>4, <1>5, <1>6, <1>7, <1>8

(* What collecting does to the sets that are counted. *)
LEMMA CollectFacts ==
  ASSUME IInv, NEW r \in Requests, Collected(r), UNCHANGED <<tries, reply>>
  PROVE  /\ r \notin Counted
         /\ reply[r] = "error" => Errors' = Errors \cup {r} /\ Direct' = Direct
         /\ reply[r] # "error" => Errors' = Errors /\ Direct' = Direct \cup {r}
         /\ stage' \in [Requests -> Stages]
         /\ Cardinality(Sending') <= MAX_WORKERS
<1>1. /\ stage[r] = "returned" /\ stage'[r] = "counted"
      /\ \A q \in Requests : q # r => stage'[q] = stage[q]
      /\ stage' \in [Requests -> Stages]
  BY DEF IInv, Shape, Collected, Stages
<1>2. Sending' = Sending
  BY <1>1 DEF Sending
<1> QED BY <1>1, <1>2 DEF IInv, Shape, Counted, Direct, Errors

LEMMA CollectKeeps ==
  ASSUME IInv, NEW r \in Requests, CollectSuccess(r) \/ CollectFailure(r)
  PROVE  IInv'
<1> USE DEF IInv
<1>1. /\ Collected(r) /\ mpc = "collect"
      /\ UNCHANGED <<tries, reply, retried_requests, report, enqueued, settled,
                     healed, unread, self_healed_success>>
  BY DEF CollectSuccess, CollectFailure, Q!EnqueueRead, queue
<1>2. QP!IInv'
  BY QueueInductive DEF Next, Main
<1>3. Shape'
  BY <1>1, CollectFacts DEF Shape, NoReport
<1>4. Notes'
  BY <1>1 DEF Collected, Shape, Notes, Twice, Stages
<1>5. Healed'
  BY <1>1, RacedStays DEF Healed, Next, Main
<1>6. /\ Direct \in SUBSET Requests /\ Errors \in SUBSET Requests
      /\ Cardinality(Direct) \in Nat /\ Cardinality(Errors) \in Nat
  <2>1. Direct \in SUBSET Requests /\ Errors \in SUBSET Requests
    BY DEF Direct, Errors, Counted
  <2> QED BY <2>1, Finite
<1>7. r \notin Direct /\ r \notin Errors
  BY <1>1, CollectFacts DEF Direct, Errors
<1>8. Books' /\ Stations'
  <2>1. CASE CollectSuccess(r)
    <3>1. Errors' = Errors /\ Direct' = Direct \cup {r}
      BY <1>1, <2>1, CollectFacts DEF CollectSuccess
    <3>2. Cardinality(Direct') = Cardinality(Direct) + 1
      BY <1>6, <1>7, <3>1, Sizes
    <3>3. Books'
      BY <1>6, <2>1, <3>1, <3>2 DEF CollectSuccess, Books, queue
    <3> QED BY <1>1, <2>1, <3>3 DEF CollectSuccess, Stations, queue
  <2>2. CASE CollectFailure(r)
    <3>1. Errors' = Errors \cup {r} /\ Direct' = Direct
      BY <1>1, <2>2, CollectFacts DEF CollectFailure
    <3>2. Cardinality(Errors') = Cardinality(Errors) + 1
      BY <1>6, <1>7, <3>1, Sizes
    <3>3. reported' = reported \cup {r}
      BY <2>2 DEF CollectFailure, Q!EnqueueRead
    <3>4. Books'
      BY <1>6, <2>2, <3>1, <3>2, <3>3 DEF CollectFailure, Books
    <3>5. mpc' = "crashed" \/ (mpc' = "truncate" /\ QP!Last(mq)' = r)
      <4>1. QP!EnqueueRead(r)
        BY <2>2, SameMain DEF CollectFailure
      <4>2. mpc' = "crashed" \/ (mpc' = "truncate" /\ file \in QP!Lists /\ mq' = Append(file, r))
        BY <4>1 DEF QP!EnqueueRead, QP!Readable
      <4>3. file \in QP!Lists => QP!Last(Append(file, r)) = r
        BY QueueAssumed, QP!AppendFacts
      <4>4. mq' = Append(file, r) => QP!Last(mq)' = QP!Last(Append(file, r))
        BY DEF QP!Last
      <4> QED BY <4>2, <4>3, <4>4
    <3> QED BY <1>1, <3>3, <3>4, <3>5 DEF Stations
  <2> QED BY <2>1, <2>2
<1> QED BY <1>2, <1>3, <1>4, <1>5, <1>8

(* Steps that only the queue sees: what they do to the books. *)
LEMMA QueueOnlyKeeps ==
  ASSUME IInv, UNCHANGED <<pool, counters, report>>, QP!IInv',
         UNCHANGED reported, raced => raced',
         Healed', Stations'
  PROVE  IInv'
BY DEF IInv, Shape, Books, Notes, Counted, Direct, Errors, Sending, Twice, NoReport,
       pool, counters

(* Without a race _enqueue writes nothing back that was healed. *)
LEMMA WritesNoHealed ==
  ASSUME IInv, QP!EnqueueWrite, ~raced
  PROVE  healed' = healed
<1>1. /\ healed \subseteq settled /\ settled \subseteq enqueued
      /\ healed' = healed \ QP!Range(mq) /\ mpc = "write"
  BY DEF IInv, QP!IInv, QP!TypeOK, QP!EnqueueWrite
<1>2. /\ QP!Range(mq) = QP!Pending \cup {QP!Last(mq)}
      /\ QP!Last(mq) \notin enqueued
  BY <1>1 DEF IInv, QP!IInv, QP!Calm, QP!Known, QP!MainInside
<1> QED BY <1>1, <1>2 DEF QP!Pending

LEMMA MainKeeps ==
  ASSUME IInv,
         \/ CollectEnd \/ Exit
         \/ Queue(Q!EnqueueTruncate \/ Q!EnqueueWrite \/ Q!WaitEnd)
  PROVE  IInv'
<1> USE DEF IInv
<1>1. UNCHANGED <<pool, counters, report, reported, unread, self_healed_success>>
  BY DEF CollectEnd, Exit, Queue, Q!CollectEnd, Q!Exit, Q!EnqueueTruncate,
         Q!EnqueueWrite, Q!WaitEnd, Q!history
<1>2. QP!IInv'
  BY QueueInductive DEF Next, Main
<1>3. (raced => raced') /\ Healed'
  <2>1. raced => raced'
    BY RacedStays DEF Next, Main
  <2>2. ~raced => healed' = healed
    <3>1. CASE Q!EnqueueWrite
      BY <3>1, SameMain, WritesNoHealed
    <3>2. CASE ~Q!EnqueueWrite
      BY <3>2 DEF CollectEnd, Exit, Queue, Q!CollectEnd, Q!Exit, Q!EnqueueTruncate,
                  Q!WaitEnd, Q!history
    <3> QED BY <3>1, <3>2
  <2> QED BY <1>1, <2>1, <2>2 DEF Healed
<1>4. Counted' = Counted
  BY <1>1 DEF Counted, pool
<1>5. Stations'
  <2>1. CASE CollectEnd
    <3>1. Counted = Requests
      BY <2>1 DEF CollectEnd, Counted
    <3> QED BY <1>1, <1>4, <2>1, <3>1
            DEF CollectEnd, Q!CollectEnd, Q!history, Stations, counters, pool, NoReport
  <2>2. CASE Exit
    BY <1>1, <1>4, <2>2 DEF Exit, Q!Exit, Stations, counters, pool, NoReport
  <2>3. CASE Q!EnqueueTruncate
    BY <1>1, <1>4, <2>3
       DEF Q!EnqueueTruncate, Q!history, Stations, counters, pool, NoReport, QP!Last
  <2>4. CASE Q!EnqueueWrite
    <3>1. /\ mpc = "write" /\ mpc' = "collect"
          /\ enqueued' = enqueued \cup {QP!Last(mq)} /\ reported' = reported
      BY <2>4, SameMain DEF QP!EnqueueWrite
    <3>2. enqueued' \subseteq reported'
      BY <1>2 DEF QP!IInv, QP!TypeOK
    <3> QED BY <1>1, <1>4, <3>1, <3>2 DEF Stations, counters, pool, NoReport
  <2>5. CASE Q!WaitEnd
    BY <1>1, <1>4, <2>5 DEF Q!WaitEnd, Q!history, Stations, counters, pool, NoReport
  <2> QED BY <2>1, <2>2, <2>3, <2>4, <2>5 DEF Queue
<1> QED BY <1>1, <1>2, <1>3, <1>5, QueueOnlyKeeps

(* The worker settles, and heals only what was not healed, if none raced. *)
LEMMA WorkerKeeps ==
  ASSUME IInv, Worker
  PROVE  IInv'
<1> USE DEF IInv
<1>1. QP!Worker /\ UNCHANGED <<pool, counters, report>>
  BY SameWorker DEF Worker, Queue
<1>2. /\ UNCHANGED <<reported, enqueued, mpc, mq>>
      /\ raced => raced'
  <2>1. UNCHANGED <<reported, enqueued, mpc, mq>>
    BY <1>1 DEF QP!Worker, QP!Poll, QP!ReportFails, QP!Report, QP!ReportConfirmed,
       QP!ReportRetry, QP!Answered, QP!RetryHeals, QP!RetryUnread, QP!RetryFails,
       QP!WorkerTruncate, QP!WorkerWrite, QP!main, QP!history
  <2> QED BY <2>1, RacedStays DEF Next
<1>3. QP!IInv'
  BY QueueInductive DEF Next
<1>4. Counted' = Counted
  BY <1>1 DEF Counted, pool
<1>5. Stations'
  <2>1. self_healed_success \in Nat
    BY DEF QP!IInv, QP!TypeOK
  <2>2. self_healed_success' \in {self_healed_success, self_healed_success + 1}
    BY <1>1 DEF QP!Worker, QP!Poll, QP!ReportFails, QP!Report, QP!ReportConfirmed,
       QP!ReportRetry, QP!Answered, QP!RetryHeals, QP!RetryUnread, QP!RetryFails,
       QP!WorkerTruncate, QP!WorkerWrite
  <2>3. report # NoReport /\ report.healed \in Nat /\ report.healed <= self_healed_success
        => report.healed <= self_healed_success'
    BY <2>1, <2>2
  <2> QED BY <1>1, <1>2, <1>4, <2>3 DEF Stations, counters, pool, NoReport, QP!Last
<1>6. Healed'
  <2>1. /\ healed \in SUBSET Requests /\ self_healed_success \in Nat /\ unread \in Nat
    BY ClientAssumption DEF QP!IInv, QP!TypeOK
  <2>2. Cardinality(healed) \in Nat
    BY <2>1, Finite
  <2>3. CASE QP!RetryHeals
    <3>1. /\ healed' = healed \cup {Head(wq)} /\ unread' = unread
          /\ self_healed_success' = self_healed_success + 1
      BY <2>3 DEF QP!RetryHeals
    <3> SUFFICES ASSUME ~raced' PROVE self_healed_success' = Cardinality(healed') + unread'
      BY DEF Healed
    <3>2. wpc = "retry" /\ wq # << >> /\ wq \in QP!Lists /\ QP!IsInjective(wq)
      BY <2>3 DEF QP!RetryHeals, QP!IInv, QP!Known, QP!TypeOK, QP!NoDuplicates
    <3>3. QP!Range(wq) = QP!Pending
      BY <1>2, <3>2 DEF QP!IInv, QP!Calm, QP!MainInside, QP!WorkerBound
    <3>4. Head(wq) \in Requests \ healed
      <4>1. Head(wq) \in QP!Range(wq)
        BY <3>2, QueueAssumed, QP!TailFacts
      <4> QED BY <3>3, <4>1 DEF QP!Pending, QP!IInv, QP!TypeOK
    <3>5. Cardinality(healed') = Cardinality(healed) + 1
      BY <2>1, <3>1, <3>4, Sizes
    <3>6. ~raced
      BY <1>2
    <3>7. self_healed_success = Cardinality(healed) + unread
      BY <3>6 DEF Healed
    <3> QED BY <2>1, <2>2, <3>1, <3>5, <3>7
  <2>4. CASE QP!RetryUnread
    BY <1>2, <2>1, <2>2, <2>4 DEF QP!RetryUnread, Healed
  <2>5. CASE ~QP!RetryHeals /\ ~QP!RetryUnread
    <3>1. UNCHANGED <<healed, unread, self_healed_success>>
      BY <1>1, <2>5 DEF QP!Worker, QP!Poll, QP!ReportFails, QP!Report, QP!ReportConfirmed,
         QP!ReportRetry, QP!Answered, QP!RetryFails, QP!WorkerTruncate, QP!WorkerWrite,
         QP!history
    <3> QED BY <1>2, <3>1 DEF Healed
  <2> QED BY <2>3, <2>4, <2>5
<1> QED BY <1>1, <1>2, <1>3, <1>5, <1>6, QueueOnlyKeeps

LEMMA SaveKeeps ==
  ASSUME IInv, SaveResult
  PROVE  IInv'
<1> USE DEF IInv
<1>1. UNCHANGED <<pool, counters, queue>> /\ mpc = "leaving"
  BY DEF SaveResult
<1>2. QP!IInv'
  BY QueueInductive DEF Next, Main
<1>3. /\ report'.saved
      /\ report'.success = success /\ report'.failed = failed
      /\ report'.retries = Cardinality(retried_requests)
      /\ report'.healed = self_healed_success
  BY DEF SaveResult
<1>4. /\ UNCHANGED <<stage, tries, reply, retried_requests, success, failed,
                     server_cache_hits, gateway_degrade_hits, mpc, mq, enqueued,
                     reported, settled, healed, unread, raced, self_healed_success>>
  BY <1>1 DEF pool, counters, queue
<1>5. UNCHANGED <<Counted, Direct, Errors, Sending, Twice, QP!Last(mq)>>
  BY <1>4 DEF Counted, Direct, Errors, Sending, Twice, QP!Last
<1>6. Shape' /\ Books' /\ Notes' /\ Healed'
  BY <1>3, <1>4, <1>5 DEF Shape, Books, Notes, Healed
<1>7. Stations'
  <2>1. self_healed_success \in Nat
    BY DEF QP!IInv, QP!TypeOK
  <2> QED BY <1>1, <1>3, <1>4, <1>5, <2>1 DEF Stations
<1> QED BY <1>2, <1>6, <1>7

LEMMA IInvInductive == IInv /\ [Next]_vars => IInv'
<1> SUFFICES ASSUME IInv, [Next]_vars PROVE IInv'
  OBVIOUS
<1>1. CASE Down \/ UNCHANGED vars
  <2>1. UNCHANGED <<pool, counters, report, queue>>
    BY <1>1 DEF Down, vars
  <2>2. QP!IInv'
    BY QueueInductive DEF IInv
  <2>3. Healed' /\ Stations'
    BY <2>1 DEF IInv, Healed, Stations, Counted, pool, counters, queue, NoReport, QP!Last
  <2> QED BY <2>1, <2>2, <2>3, QueueOnlyKeeps DEF queue
<1> QED BY <1>1, PoolKeeps, CollectKeeps, MainKeeps, WorkerKeeps, SaveKeeps DEF Next, Main

-----------------------------------------------------------------------------
(* What the report adds up *)

(* A list without duplicates is as long as it has entries. *)
LEMMA LengthIsSize ==
  ASSUME NEW q \in Seq(Requests), QP!IsInjective(q)
  PROVE  Len(q) = Cardinality(QP!Range(q))
<1>1. Len(q) \in Nat /\ DOMAIN q = 1 .. Len(q)
  OBVIOUS
<1>2. IsFiniteSet(1 .. Len(q)) /\ Cardinality(1 .. Len(q)) = Len(q)
  BY <1>1, FS_Interval
<1>3. q \in Bijection(1 .. Len(q), QP!Range(q))
  <2>1. q \in [1 .. Len(q) -> QP!Range(q)]
    BY <1>1 DEF QP!Range
  <2> QED BY <1>1, <2>1 DEF QP!Range, QP!IsInjective, Bijection, Injection, Surjection,
             IsInjective
<1> QED BY <1>2, <1>3, FS_Bijection DEF ExistsBijection

LEMMA DisjointSizes ==
  ASSUME NEW S \in SUBSET Requests, NEW T \in SUBSET Requests, S \cap T = {}
  PROVE  Cardinality(S \cup T) = Cardinality(S) + Cardinality(T)
<1>1. /\ IsFiniteSet(S) /\ Cardinality(S) \in Nat
      /\ IsFiniteSet(T) /\ Cardinality(T) \in Nat
  BY Finite
<1>2. Cardinality(S \cup T) = Cardinality(S) + Cardinality(T) - Cardinality(S \cap T)
  BY <1>1, FS_Union
<1>3. Cardinality(S \cap T) = 0
  BY FS_EmptySet
<1> QED BY <1>1, <1>2, <1>3

(* Every request is a direct success or an error once all are counted. *)
LEMMA AllCounted ==
  ASSUME IInv, Counted = Requests
  PROVE  success \in Nat /\ failed \in Nat /\ success + failed = REQUEST_TIMES
<1>1. /\ Direct \in SUBSET Requests /\ Cardinality(Direct) \in Nat
      /\ Errors \in SUBSET Requests /\ Cardinality(Errors) \in Nat
  <2>1. Direct \in SUBSET Requests /\ Errors \in SUBSET Requests
    BY DEF Direct, Errors, Counted
  <2> QED BY <2>1, Finite
<1>2. Direct \cup Errors = Requests /\ Direct \cap Errors = {}
  BY DEF Direct, Errors
<1>3. Cardinality(Requests) = Cardinality(Direct) + Cardinality(Errors)
  BY <1>1, <1>2, DisjointSizes
<1>4. Cardinality(Requests) = REQUEST_TIMES
  BY FS_Interval, ClientAssumption DEF Requests
<1> QED BY <1>1, <1>3, <1>4 DEF IInv, Books

LEMMA IInvMeans == IInv => TypeOK /\ ReportAddsUp
<1> SUFFICES ASSUME IInv PROVE TypeOK /\ ReportAddsUp
  OBVIOUS
<1>1. /\ settled \in SUBSET Requests /\ settled \subseteq Errors /\ Errors \in SUBSET Requests
      /\ enqueued \in SUBSET Requests /\ settled \subseteq enqueued
      /\ healed \subseteq Errors /\ healed \in SUBSET Requests
      /\ self_healed_success \in Nat /\ unread \in Nat
  BY ClientAssumption DEF IInv, QP!IInv, QP!TypeOK, Books, Errors, Counted
<1>2. /\ Cardinality(settled) \in Nat /\ Cardinality(healed) \in Nat
      /\ Cardinality(Errors) \in Nat /\ Cardinality(Errors) <= REQUEST_TIMES
      /\ Cardinality(Direct) \in Nat /\ Cardinality(Direct) <= REQUEST_TIMES
  BY <1>1, Finite DEF Direct, Counted
<1>3. TypeOK
  <2>1. {success, failed, server_cache_hits, gateway_degrade_hits} \subseteq 0 .. REQUEST_TIMES
    BY <1>2, ClientAssumption DEF IInv, Books
  <2> QED BY <2>1 DEF IInv, Shape, TypeOK
<1>5. ReportAddsUp
  <2> SUFFICES ASSUME report # NoReport PROVE ReportAddsUp
    BY DEF ReportAddsUp
  <2>1. /\ Counted = Requests
        /\ report.success = success /\ report.failed = failed
        /\ report.retries = Cardinality(retried_requests)
    BY DEF IInv, Stations
  <2>2. success \in Nat /\ failed \in Nat /\ success + failed = REQUEST_TIMES
    BY <2>1, AllCounted
  <2>3. ASSUME RETRY_TIMES > 0
        PROVE  report.retries = Cardinality({r \in Requests : tries[r] > 1})
    BY <2>1, <2>3 DEF IInv, Notes, Twice
  <2>5. report.failed = Cardinality(enqueued)
    BY <2>1 DEF IInv, Stations, Books
  <2>6. ASSUME ~raced PROVE report.healed <= report.failed + unread
    <3>1. Cardinality(healed) <= Cardinality(Errors)
      BY <1>1, Sizes
    <3>2. /\ report.healed \in Nat /\ report.healed <= self_healed_success
          /\ self_healed_success = Cardinality(healed) + unread
          /\ report.failed = Cardinality(Errors)
      BY <2>1, <2>6 DEF IInv, Stations, Healed, Books
    <3> QED BY <1>1, <1>2, <3>1, <3>2
  <2>4. ASSUME mpc = "leaving", ~raced
        PROVE  report.success + Cardinality(settled) + Len(Left) = REQUEST_TIMES
    <3>1. /\ Left \in Seq(Requests) /\ QP!IsInjective(Left)
          /\ QP!Range(Left) = enqueued \ settled
      <4>1. CASE wpc \in {"truncate", "write"}
        BY <2>4, <4>1 DEF Left, IInv, QP!IInv, QP!TypeOK, QP!NoDuplicates, QP!Calm,
           QP!Pending, QP!Lists
      <4>2. CASE wpc \notin {"truncate", "write"}
        <5>1. Left = file
          BY <4>2 DEF Left
        <5>2. file \in QP!Lists /\ QP!Range(file) = QP!Pending
          BY <2>4, <4>2 DEF IInv, QP!IInv, QP!Calm
        <5>3. QP!IsInjective(file)
          BY <5>2 DEF IInv, QP!IInv, QP!NoDuplicates
        <5> QED BY <5>1, <5>2, <5>3 DEF QP!Lists, QP!Pending
      <4> QED BY <4>1, <4>2
    <3>2. Len(Left) = Cardinality(enqueued \ settled)
      BY <3>1, LengthIsSize
    <3>3. enqueued = Errors
      BY <2>4 DEF IInv, Stations, Books
    <3>4. Cardinality(enqueued) = Cardinality(settled) + Cardinality(enqueued \ settled)
      <4>1. /\ settled \cup (enqueued \ settled) = enqueued
            /\ settled \cap (enqueued \ settled) = {}
            /\ enqueued \ settled \in SUBSET Requests
        BY <1>1
      <4> QED BY <1>1, <4>1, DisjointSizes
    <3>5. Cardinality(enqueued \ settled) \in Nat
      BY <1>1, Finite
    <3> QED BY <1>2, <2>1, <2>2, <3>2, <3>3, <3>4, <3>5 DEF IInv, Books
  <2> QED BY <2>1, <2>2, <2>3, <2>4, <2>5, <2>6 DEF ReportAddsUp
<1> QED BY <1>3, <1>5

-----------------------------------------------------------------------------
(* Counters and report keep their ranges and the pool its size             *)
(* (client.py:257-296).                                                    *)
THEOREM TypeCorrect == Spec => []TypeOK
BY IInvInit, IInvInductive, IInvMeans, PTL DEF Spec

(* The saved report counts each request once and its failures are those    *)
(* handed to the queue, with any overlaps; without overlapping rewrites    *)
(* each is settled or left in the file, and the healed ones are no more    *)
(* than the failed (client.py:98-126, 133-181, 264-296, LoggedRetry.py:28). *)
THEOREM EveryRequestAccounted == Spec => []ReportAddsUp
BY IInvInit, IInvInductive, IInvMeans, PTL DEF Spec

-----------------------------------------------------------------------------
(* A run that leaves no report *)

OneSkipped ==
  mpc \in {"crashed", "down"} /\ report = NoReport =>
    \E r \in reported \ enqueued : reported = enqueued \cup {r}

LEMMA OneSkippedStep ==
  ASSUME IInv, OneSkipped, [Next]_vars
  PROVE  OneSkipped'
<1>1. ASSUME UNCHANGED <<mpc, report, reported, enqueued>> PROVE OneSkipped'
  BY <1>1 DEF OneSkipped, NoReport
<1>2. ASSUME mpc' \notin {"crashed", "down"} PROVE OneSkipped'
  BY <1>2 DEF OneSkipped
<1>3. ASSUME NEW r \in Requests, Send(r) \/ Transmission(r) \/ CollectSuccess(r)
      PROVE  OneSkipped'
  BY <1>1, <1>3 DEF Send, Transmission, TryFails, TryRefused, TryAnswered, CollectSuccess,
                    queue
<1>4. ASSUME NEW r \in Requests, CollectFailure(r) PROVE OneSkipped'
  <2>1. /\ mpc = "collect" /\ r \notin reported /\ reported' = reported \cup {r}
        /\ UNCHANGED enqueued
    BY <1>4 DEF CollectFailure, Q!EnqueueRead
  <2>2. enqueued = reported
    BY <2>1 DEF IInv, Stations
  <2> QED BY <2>1, <2>2 DEF OneSkipped
<1>5. CASE CollectEnd \/ Queue(Q!EnqueueTruncate \/ Q!EnqueueWrite \/ Q!WaitEnd)
  <2>1. mpc' \in {"wait", "write", "collect", "leaving"}
    BY <1>5 DEF CollectEnd, Queue, Q!CollectEnd, Q!EnqueueTruncate, Q!EnqueueWrite, Q!WaitEnd
  <2> QED BY <1>2, <2>1
<1>6. CASE SaveResult
  <2>1. report'.saved /\ ~NoReport.saved
    BY <1>6 DEF SaveResult, NoReport
  <2> QED BY <2>1 DEF OneSkipped, NoReport
<1>7. CASE Exit
  <2>1. /\ mpc = "crashed" \/ report # NoReport
        /\ UNCHANGED <<report, reported, enqueued>>
    BY <1>7 DEF Exit, Q!Exit
  <2> QED BY <2>1 DEF OneSkipped, NoReport
<1>8. CASE Worker
  <2>1. UNCHANGED <<mpc, report, reported, enqueued>>
    BY <1>8, SameWorker DEF Worker, Queue, QP!Worker, QP!Poll, QP!ReportFails, QP!Report,
       QP!ReportConfirmed, QP!ReportRetry, QP!Answered, QP!RetryHeals, QP!RetryUnread,
       QP!RetryFails, QP!WorkerTruncate, QP!WorkerWrite, QP!main, QP!history
  <2> QED BY <1>1, <2>1
<1>9. CASE Down \/ UNCHANGED vars
  BY <1>1, <1>9 DEF Down, vars, queue
<1> QED BY <1>3, <1>4, <1>5, <1>6, <1>7, <1>8, <1>9 DEF Next, Main

(* No report is missing but for one failure that _enqueue could not queue, *)
(* the only one collected and never queued, for any number of requests and *)
(* threads (client.py:51-55, 264-296).                                     *)
THEOREM SilenceSkipsOne == Spec => []SilentEndSkipsOne
<1>1. Init => OneSkipped
  BY DEF Init, Q!Init, OneSkipped
<1>2. IInv /\ OneSkipped /\ [Next]_vars => OneSkipped'
  BY OneSkippedStep
<1>3. IInv /\ OneSkipped => SilentEndSkipsOne
  BY DEF IInv, Books, Errors, Counted, OneSkipped, SilentEndSkipsOne
<1> QED BY <1>1, <1>2, <1>3, IInvInit, IInvInductive, PTL DEF Spec

-----------------------------------------------------------------------------
(* What a run inherits from the queue *)

(* Every run of the client is a behaviour of the fault queue, its main     *)
(* thread and its worker those of FaultQueue (client.py:44-131, 257-296).  *)
THEOREM RunsTheQueue == Spec => QP!Spec
<1>1. Init => QP!Init
  BY DEF Init, Q!Init, QP!Init
<1>2. [Next]_vars => [QP!Next]_(QP!vars)
  BY QueueSteps
<1> QED BY <1>1, <1>2, PTL DEF Spec, QP!Spec

(* So a run keeps what the queue keeps: no duplicates, an exact queue      *)
(* unless a race broke it, an order nobody is overtaken in, a broken file  *)
(* that stays broken and no second healing of what was not written back,   *)
(* between any collected results (client.py:51-126 within 264-296).        *)
THEOREM QueueInARun ==
  Spec => /\ [](QP!NoDuplicates /\ QP!IntactUnlessRaced)
          /\ QP!TurnsInOrder
          /\ QP!BrokenFileStays
          /\ QP!HealedOnce
<1>1. QP!Spec => []QP!NoDuplicates
  BY QueueAssumed, QP!NeverTwice
<1>2. QP!Spec => []QP!IntactUnlessRaced
  BY QueueAssumed, QP!ExactWithoutRace
<1>3. QP!Spec => QP!TurnsInOrder
  BY QueueAssumed, QP!NobodyIsOvertaken
<1>4. QP!Spec => QP!BrokenFileStays
  BY QueueAssumed, QP!NoRepair
<1>5. QP!Spec => QP!HealedOnce
  BY QueueAssumed, QP!NeverHealedTwice
<1> QED BY <1>1, <1>2, <1>3, <1>4, <1>5, RunsTheQueue, PTL
=============================================================================
