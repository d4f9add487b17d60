--------------------------- MODULE FaultQueueProofs ---------------------------
(***************************************************************************)
(* Proofs about the client's fault queue, for any number of failures and   *)
(* of starts of the client.                                                *)
(***************************************************************************)
EXTENDS FaultQueue, TLAPS

-----------------------------------------------------------------------------
(* What the list operations do to the entries of a list. *)

LEMMA AppendFacts ==
  ASSUME NEW q \in Lists, NEW e \in Entries
  PROVE  /\ Append(q, e) \in Lists /\ Append(q, e) # << >>
         /\ Last(Append(q, e)) = e
         /\ Range(Append(q, e)) = Range(q) \cup {e}
         /\ IsInjective(q) /\ e \notin Range(q) => IsInjective(Append(q, e))
<1> DEFINE t == Append(q, e)
<1>1. /\ DOMAIN q = 1 .. Len(q) /\ DOMAIN t = 1 .. Len(q) + 1 /\ Len(q) \in Nat
      /\ t[Len(q) + 1] = e
      /\ \A i \in 1 .. Len(q) : t[i] = q[i]
  BY DEF Lists
<1>2. Range(t) \subseteq Range(q) \cup {e}
  BY <1>1 DEF Range
<1>3. Range(q) \subseteq Range(t)
  <2>1. ASSUME NEW i \in DOMAIN q PROVE i \in DOMAIN t /\ t[i] = q[i]
    BY <1>1
  <2> QED BY <2>1 DEF Range
<1>4. e \in Range(t)
  <2>1. Len(q) + 1 \in DOMAIN t
    BY <1>1
  <2> QED BY <1>1, <2>1 DEF Range
<1>5. IsInjective(q) /\ e \notin Range(q) => IsInjective(t)
  BY <1>1 DEF IsInjective, Range
<1>6. t \in Lists /\ t # << >> /\ Last(t) = e
  BY DEF Lists, Last
<1> QED BY <1>2, <1>3, <1>4, <1>5, <1>6

LEMMA TailFacts ==
  ASSUME NEW q \in Lists, q # << >>, IsInjective(q)
  PROVE  /\ Tail(q) \in Lists /\ IsInjective(Tail(q))
         /\ Head(q) \in Range(q)
         /\ Range(Tail(q)) = Range(q) \ {Head(q)}
<1> DEFINE t == Tail(q)
<1>1. /\ Len(q) \in Nat \ {0} /\ DOMAIN q = 1 .. Len(q) /\ DOMAIN t = 1 .. Len(q) - 1
      /\ \A i \in 1 .. Len(q) - 1 : t[i] = q[i + 1]
  BY DEF Lists
<1>2. ASSUME NEW i \in DOMAIN t PROVE t[i] \in Range(q) \ {Head(q)}
  <2>1. i + 1 \in DOMAIN q /\ i + 1 # 1 /\ 1 \in DOMAIN q
    BY <1>1
  <2>2. q[i + 1] # q[1]
    BY <2>1 DEF IsInjective
  <2> QED BY <1>1, <2>1, <2>2 DEF Range, Lists
<1>3. ASSUME NEW i \in DOMAIN q, q[i] # Head(q) PROVE q[i] \in Range(t)
  <2>1. i # 1
    BY <1>3 DEF Lists
  <2>2. i - 1 \in DOMAIN t /\ t[i - 1] = q[i]
    BY <1>1, <2>1
  <2> QED BY <2>2 DEF Range
<1>4. Range(t) = Range(q) \ {Head(q)}
  BY <1>2, <1>3 DEF Range
<1>5. t \in Lists /\ IsInjective(t)
  BY <1>1 DEF Lists, IsInjective
<1>6. Head(q) \in Range(q)
  <2>1. 1 \in DOMAIN q /\ Head(q) = q[1]
    BY <1>1 DEF Lists
  <2> QED BY <2>1 DEF Range
<1> QED BY <1>4, <1>5, <1>6

(* Rotation keeps the entries and puts none in twice. *)
LEMMA RotateFacts ==
  ASSUME NEW q \in Lists, q # << >>, IsInjective(q)
  PROVE  /\ Rotate(q) \in Lists /\ IsInjective(Rotate(q))
         /\ Range(Rotate(q)) = Range(q)
<1>1. Head(q) \in Entries
  BY DEF Lists
<1>2. Head(q) \notin Range(Tail(q))
  BY TailFacts
<1>3. /\ Rotate(q) \in Lists /\ IsInjective(Rotate(q))
      /\ Range(Rotate(q)) = Range(Tail(q)) \cup {Head(q)}
  BY <1>1, <1>2, TailFacts, AppendFacts DEF Rotate
<1> QED BY <1>3, TailFacts

(* A write leaves the list or no list at all. *)
LEMMA WriteFacts ==
  ASSUME NEW q \in Lists, Write(q)
  PROVE  /\ file' \in {q, Garbled}
         /\ file = Truncated => file' = q
         /\ file' \in Lists => file' = q
BY QueueAssumption DEF Write, Overlay, Lists

-----------------------------------------------------------------------------
(* The inductive invariant *)

(* Only what was enqueued is in the file or in the worker's hands, and one *)
(* entry more in those of run() while it rewrites the file.                *)
Known ==
  /\ file \in Lists => Range(file) \subseteq enqueued
  /\ Range(wq) \subseteq enqueued
  /\ wpc \in {"report", "retry"} => wq # << >>
  /\ MainInside => /\ mq # << >>
                   /\ Last(mq) \in reported \ enqueued
                   /\ Range(mq) \subseteq enqueued \cup {Last(mq)}
  /\ mpc = "down" => wpc = "stopped"

(* Without a race one thread at most is bound to rewrite the file, and the *)
(* file is between truncation and write only while that thread is.         *)
Calm ==
  ~raced =>
    /\ ~(MainInside /\ WorkerBound)
    /\ mpc = "write" \/ wpc = "write" => file = Truncated
    /\ mpc # "write" /\ wpc # "write" => file \in Lists
    /\ mpc # "write" /\ wpc \notin {"truncate", "write"} => Range(file) = Pending
    /\ wpc = "retry" => wq = file
    /\ wpc \in {"truncate", "write"} => Range(wq) = Pending
    /\ MainInside => Range(mq) = Pending \cup {Last(mq)}

IInv == TypeOK /\ Known /\ NoDuplicates /\ Calm

LEMMA IInvInit == Init => IInv
<1> SUFFICES ASSUME Init PROVE IInv
  OBVIOUS
<1>1. << >> \in Lists /\ IsInjective(<< >>) /\ Range(<< >>) = {}
  BY DEF Lists, IsInjective, Range
<1>2. TypeOK
  <2>1. file \in Texts /\ mq \in Lists /\ wq \in Lists
    BY <1>1 DEF Init, Texts
  <2>2. run \in 1 .. Runs /\ self_healed_success \in Nat
    BY QueueAssumption DEF Init
  <2>3. /\ mpc \in MainPCs /\ wpc \in WorkerPCs
        /\ running \in BOOLEAN /\ raced \in BOOLEAN
    BY DEF Init, MainPCs, WorkerPCs
  <2>4. /\ reported \in SUBSET Entries /\ enqueued \in SUBSET reported
        /\ settled \in SUBSET enqueued /\ turns \in SUBSET enqueued
        /\ healed \in SUBSET settled /\ unread \in 0 .. MaxUnread
    BY QueueAssumption DEF Init
  <2> QED BY <2>1, <2>2, <2>3, <2>4 DEF TypeOK
<1>3. Known
  BY <1>1 DEF Init, Known, MainInside
<1>4. NoDuplicates
  BY <1>1 DEF Init, NoDuplicates
<1>5. Calm
  BY <1>1 DEF Init, Calm, Pending, MainInside, WorkerBound
<1> QED BY <1>2, <1>3, <1>4, <1>5 DEF IInv

LEMMA EnqueueReadKeeps ==
  ASSUME IInv, NEW e \in Entries, EnqueueRead(e)
  PROVE  IInv'
<1> USE DEF IInv
<1>1. /\ mpc = "collect" /\ e \notin reported
      /\ reported' = reported \cup {e}
      /\ UNCHANGED <<file, run, wpc, wq, running, self_healed_success,
                     enqueued, settled, turns, healed, unread>>
  BY DEF EnqueueRead, worker
<1>2. Pending' = Pending /\ WorkerBound' = WorkerBound
  BY <1>1 DEF Pending, WorkerBound
<1>3. CASE Readable /\ mq' = Append(file, e) /\ mpc' = "truncate"
             /\ raced' = (raced \/ WorkerBound)
  <2>1. /\ file \in Lists /\ e \notin Range(file) /\ e \notin enqueued
        /\ Range(file) \subseteq enqueued
    BY <1>1, <1>3 DEF Known, Readable, TypeOK
  <2>2. /\ mq' \in Lists /\ mq' # << >> /\ Last(mq') = e
        /\ Range(mq') = Range(file) \cup {e} /\ IsInjective(mq')
    BY <1>3, <2>1, AppendFacts DEF NoDuplicates
  <2>3. TypeOK'
    BY <1>1, <1>3, <2>2 DEF TypeOK, MainPCs, WorkerBound
  <2>4. Known'
    BY <1>1, <1>3, <2>1, <2>2 DEF Known, MainInside
  <2>5. NoDuplicates'
    BY <1>1, <2>2 DEF NoDuplicates
  <2>6. Calm'
    <3> SUFFICES ASSUME ~raced' PROVE Calm'
      BY DEF Calm
    <3>1. ~raced /\ ~WorkerBound
      BY <1>3
    <3>2. Range(file) = Pending /\ wpc # "write"
      BY <1>1, <3>1 DEF Calm, WorkerBound
    <3> QED BY <1>1, <1>2, <1>3, <2>1, <2>2, <3>1, <3>2
            DEF Calm, MainInside, WorkerBound
  <2> QED BY <2>3, <2>4, <2>5, <2>6
<1>4. CASE ~Readable /\ mpc' = "crashed" /\ UNCHANGED <<mq, raced>>
  <2>1. TypeOK'
    BY <1>1, <1>4 DEF TypeOK, MainPCs
  <2>2. Known' /\ NoDuplicates'
    BY <1>1, <1>4 DEF Known, NoDuplicates, MainInside
  <2>3. Calm'
    BY <1>1, <1>2, <1>4 DEF Calm, MainInside, WorkerBound
  <2> QED BY <2>1, <2>2, <2>3
<1> QED BY <1>3, <1>4 DEF EnqueueRead

LEMMA EnqueueTruncateKeeps ==
  ASSUME IInv, EnqueueTruncate
  PROVE  IInv'
<1> USE DEF IInv
<1>1. /\ mpc = "truncate" /\ mpc' = "write" /\ file' = Truncated
      /\ UNCHANGED <<run, mq, wpc, wq, running, self_healed_success,
                     reported, enqueued, settled, turns, healed, unread, raced>>
  BY DEF EnqueueTruncate, Truncate, worker, history
<1>2. file' \notin Lists
  BY <1>1, QueueAssumption DEF Lists
<1>3. TypeOK'
  BY <1>1 DEF TypeOK, Texts, MainPCs
<1>4. Known' /\ NoDuplicates'
  BY <1>1, <1>2 DEF Known, NoDuplicates, MainInside
<1>5. Calm'
  BY <1>1 DEF Calm, MainInside, WorkerBound, Pending
<1> QED BY <1>3, <1>4, <1>5

LEMMA EnqueueWriteKeeps ==
  ASSUME IInv, EnqueueWrite
  PROVE  IInv'
<1> USE DEF IInv
<1>1. /\ mpc = "write" /\ mpc' = "collect" /\ Write(mq)
      /\ enqueued' = enqueued \cup {Last(mq)} /\ healed' \subseteq healed
      /\ UNCHANGED <<run, mq, wpc, wq, running, self_healed_success,
                     reported, settled, turns, unread, raced>>
  BY DEF EnqueueWrite, worker
<1>2. mq \in Lists /\ Last(mq) \in reported \ enqueued
      /\ Range(mq) \subseteq enqueued'
  BY <1>1 DEF TypeOK, Known, MainInside
<1>3. /\ file' \in {mq, Garbled}
      /\ file = Truncated => file' = mq
      /\ file' \in Lists => file' = mq
  BY <1>1, <1>2, WriteFacts
<1>4. TypeOK'
  BY <1>1, <1>2, <1>3 DEF TypeOK, Texts, MainPCs
<1>5. Known'
  BY <1>1, <1>2, <1>3 DEF Known, MainInside
<1>6. NoDuplicates'
  BY <1>1, <1>3 DEF NoDuplicates
<1>7. Calm'
  <2> SUFFICES ASSUME ~raced PROVE Calm'
    BY <1>1 DEF Calm
  <2>1. /\ ~WorkerBound /\ file = Truncated
        /\ Range(mq) = Pending \cup {Last(mq)}
    BY <1>1 DEF Calm, MainInside
  <2>2. Pending' = Pending \cup {Last(mq)}
    BY <1>1, <1>2 DEF Pending, TypeOK
  <2> QED BY <1>1, <1>2, <1>3, <2>1, <2>2 DEF Calm, MainInside, WorkerBound
<1> QED BY <1>4, <1>5, <1>6, <1>7

(* The end of the requests and of the last wait touch no list. *)
LEMMA RunEndKeeps ==
  ASSUME IInv, CollectEnd \/ WaitEnd
  PROVE  IInv'
<1>1. /\ mpc \in {"collect", "wait"} /\ mpc' \in {"wait", "leaving"}
      /\ running' \in {running, FALSE}
      /\ UNCHANGED <<file, run, mq, wpc, wq, self_healed_success,
                     reported, enqueued, settled, turns, healed, unread, raced>>
  BY DEF CollectEnd, WaitEnd, worker, history
<1>2. TypeOK'
  BY <1>1 DEF IInv, TypeOK, MainPCs
<1>3. Known' /\ NoDuplicates'
  BY <1>1 DEF IInv, Known, NoDuplicates, MainInside
<1>4. Calm'
  BY <1>1 DEF IInv, Calm, MainInside, WorkerBound, Pending
<1> QED BY <1>2, <1>3, <1>4 DEF IInv

LEMMA PollKeeps ==
  ASSUME IInv, Poll
  PROVE  IInv'
<1> USE DEF IInv
<1>1. /\ wpc = "poll"
      /\ UNCHANGED <<file, run, mpc, mq, running, self_healed_success,
                     reported, enqueued, settled, turns, healed, unread, raced>>
  BY DEF Poll, main, history
<1>2. MainInside' = MainInside /\ Pending' = Pending
  BY <1>1 DEF MainInside, Pending
<1>3. CASE wpc' \in {"poll", "stopped"} /\ UNCHANGED wq
  <2>1. TypeOK'
    BY <1>1, <1>3 DEF TypeOK, WorkerPCs
  <2>2. Known' /\ NoDuplicates'
    BY <1>1, <1>3 DEF Known, NoDuplicates, MainInside
  <2>3. Calm'
    BY <1>1, <1>2, <1>3 DEF Calm, MainInside, WorkerBound
  <2> QED BY <2>1, <2>2, <2>3
<1>4. CASE Readable /\ file # << >> /\ wq' = file /\ wpc' = "report"
  <2>1. TypeOK'
    BY <1>1, <1>4 DEF TypeOK, WorkerPCs, Readable
  <2>2. mpc # "down"
    BY <1>1 DEF Known
  <2>3. Known'
    BY <1>1, <1>4, <2>2 DEF Known, MainInside, Readable
  <2>4. NoDuplicates'
    BY <1>1, <1>4 DEF NoDuplicates, Readable
  <2>5. Calm'
    BY <1>1, <1>2, <1>4 DEF Calm, MainInside, WorkerBound
  <2> QED BY <2>1, <2>3, <2>4, <2>5
<1> QED BY <1>1, <1>3, <1>4 DEF Poll, worker

(* The report or the retry settles the head, rotates it, or does neither.  *)
LEMMA ReportKeeps ==
  ASSUME IInv,
         ReportFails \/ ReportConfirmed \/ ReportRetry \/ RetryHeals \/ RetryUnread \/ RetryFails
  PROVE  IInv'
<1> USE DEF IInv
<1>1. /\ wpc \in {"report", "retry"} /\ wq # << >> /\ wq \in Lists /\ IsInjective(wq)
      /\ UNCHANGED <<file, run, mpc, mq, running, reported, enqueued>>
      /\ raced' \in BOOLEAN /\ (raced => raced')
  BY DEF ReportFails, ReportConfirmed, ReportRetry, Answered, RetryHeals, RetryUnread,
         RetryFails, main, history, Known, TypeOK, NoDuplicates, MainInside
<1>2. /\ Head(wq) \in Range(wq) /\ Head(wq) \in enqueued
      /\ Tail(wq) \in Lists /\ IsInjective(Tail(wq))
      /\ Range(Tail(wq)) = Range(wq) \ {Head(wq)}
      /\ Rotate(wq) \in Lists /\ IsInjective(Rotate(wq)) /\ Range(Rotate(wq)) = Range(wq)
  BY <1>1, TailFacts, RotateFacts DEF Known
<1>3. /\ self_healed_success' \in Nat
      /\ turns' \in SUBSET enqueued
      /\ mpc # "down"
  BY <1>1, <1>2 DEF ReportFails, ReportConfirmed, ReportRetry, Answered, RetryHeals,
         RetryUnread, RetryFails, history, Known, TypeOK
<1>4. unread' \in 0 .. MaxUnread
  BY QueueAssumption DEF ReportFails, ReportConfirmed, ReportRetry, Answered, RetryHeals,
     RetryUnread, RetryFails, history, TypeOK
<1>5. \/ wpc = "report" /\ wpc' = "poll" /\ UNCHANGED <<wq, settled, healed, raced>>
      \/ ReportRetry
      \/ /\ wpc' = "truncate" /\ wq' = Tail(wq) /\ settled' = settled \cup {Head(wq)}
         /\ healed' \in {healed, healed \cup {Head(wq)}}
      \/ wpc' = "truncate" /\ wq' = Rotate(wq) /\ UNCHANGED <<settled, healed>>
  BY DEF ReportFails, ReportConfirmed, Answered, RetryHeals, RetryUnread, RetryFails, history
<1>6. ~raced' /\ ~ReportFails => ~MainInside /\ file \in Lists /\ wq = file
  BY <1>1 DEF ReportConfirmed, ReportRetry, Answered, RetryHeals, RetryUnread,
     RetryFails, history, Calm, WorkerBound, MainInside
<1>7. CASE wpc = "report" /\ wpc' = "poll" /\ UNCHANGED <<wq, settled, healed, raced>>
  <2>1. TypeOK'
    BY <1>1, <1>3, <1>4, <1>7 DEF TypeOK, WorkerPCs
  <2>2. Known' /\ NoDuplicates'
    BY <1>1, <1>3, <1>7 DEF Known, NoDuplicates, MainInside
  <2>3. Calm'
    BY <1>1, <1>7 DEF Calm, MainInside, WorkerBound, Pending
  <2> QED BY <2>1, <2>2, <2>3
<1>8. CASE ReportRetry
  <2>1. /\ wpc' = "retry" /\ wpc = "report"
        /\ UNCHANGED <<wq, settled, healed>> /\ ~ReportFails
    BY <1>8 DEF ReportRetry, Answered, ReportFails
  <2>2. TypeOK'
    BY <1>1, <1>3, <1>4, <2>1 DEF TypeOK, WorkerPCs
  <2>3. Known' /\ NoDuplicates'
    BY <1>1, <1>3, <2>1 DEF Known, NoDuplicates, MainInside
  <2>4. Calm'
    BY <1>1, <1>6, <2>1 DEF Calm, MainInside, WorkerBound, Pending
  <2> QED BY <2>2, <2>3, <2>4
<1>9. ASSUME wpc' = "truncate"
      PROVE  ~raced' => /\ ~raced /\ ~MainInside /\ file \in Lists
                        /\ Range(wq) = Pending
  <2>1. ~ReportFails
    BY <1>9 DEF ReportFails
  <2> QED BY <1>1, <1>6, <2>1 DEF Calm, MainInside
<1>10. CASE /\ wpc' = "truncate" /\ wq' = Tail(wq) /\ settled' = settled \cup {Head(wq)}
            /\ healed' \in {healed, healed \cup {Head(wq)}}
  <2>1. TypeOK'
    BY <1>1, <1>2, <1>3, <1>4, <1>10 DEF TypeOK, WorkerPCs
  <2>2. Known' /\ NoDuplicates'
    BY <1>1, <1>2, <1>3, <1>10 DEF Known, NoDuplicates, MainInside
  <2>3. Pending' = Pending \ {Head(wq)}
    BY <1>1, <1>10 DEF Pending
  <2>4. Calm'
    BY <1>1, <1>2, <1>9, <1>10, <2>3 DEF Calm, MainInside, WorkerBound
  <2> QED BY <2>1, <2>2, <2>4
<1>11. CASE wpc' = "truncate" /\ wq' = Rotate(wq) /\ UNCHANGED <<settled, healed>>
  <2>1. TypeOK'
    BY <1>1, <1>2, <1>3, <1>4, <1>11 DEF TypeOK, WorkerPCs
  <2>2. Known' /\ NoDuplicates'
    BY <1>1, <1>2, <1>3, <1>11 DEF Known, NoDuplicates, MainInside
  <2>3. Pending' = Pending
    BY <1>1, <1>11 DEF Pending
  <2>4. Calm'
    BY <1>1, <1>2, <1>9, <1>11, <2>3 DEF Calm, MainInside, WorkerBound
  <2> QED BY <2>1, <2>2, <2>4
<1> QED BY <1>5, <1>7, <1>8, <1>10, <1>11

LEMMA WorkerTruncateKeeps ==
  ASSUME IInv, WorkerTruncate
  PROVE  IInv'
<1> USE DEF IInv
<1>1. /\ wpc = "truncate" /\ wpc' = "write" /\ file' = Truncated
      /\ UNCHANGED <<run, mpc, mq, wq, running, self_healed_success,
                     reported, enqueued, settled, turns, healed, unread, raced>>
  BY DEF WorkerTruncate, Truncate, main, history
<1>2. file' \notin Lists
  BY <1>1, QueueAssumption DEF Lists
<1>3. TypeOK'
  BY <1>1 DEF TypeOK, Texts, WorkerPCs
<1>4. Known' /\ NoDuplicates'
  BY <1>1, <1>2 DEF Known, NoDuplicates, MainInside
<1>5. Calm'
  BY <1>1 DEF Calm, MainInside, WorkerBound, Pending
<1> QED BY <1>3, <1>4, <1>5

LEMMA WorkerWriteKeeps ==
  ASSUME IInv, WorkerWrite
  PROVE  IInv'
<1> USE DEF IInv
<1>1. /\ wpc = "write" /\ wpc' = "poll" /\ Write(wq) /\ wq \in Lists
      /\ UNCHANGED <<run, mpc, mq, wq, running, self_healed_success,
                     reported, enqueued, settled, turns, healed, unread, raced>>
  BY DEF WorkerWrite, main, history, TypeOK
<1>2. /\ file' \in {wq, Garbled}
      /\ file = Truncated => file' = wq
      /\ file' \in Lists => file' = wq
  BY <1>1, WriteFacts
<1>3. TypeOK'
  BY <1>1, <1>2 DEF TypeOK, Texts, WorkerPCs
<1>4. Known' /\ NoDuplicates'
  BY <1>1, <1>2 DEF Known, NoDuplicates, MainInside
<1>5. Calm'
  BY <1>1, <1>2 DEF Calm, MainInside, WorkerBound, Pending
<1> QED BY <1>3, <1>4, <1>5

LEMMA ExitKeeps ==
  ASSUME IInv, Exit
  PROVE  IInv'
<1> USE DEF IInv
<1>1. /\ mpc' = "down" /\ wpc' = "stopped" /\ running' = FALSE
      /\ raced' = (raced \/ wpc \in {"truncate", "write"} \/ mpc = "write")
      /\ UNCHANGED <<file, run, mq, wq, self_healed_success,
                     reported, enqueued, settled, turns, healed, unread>>
  BY DEF Exit
<1>2. TypeOK'
  BY <1>1 DEF TypeOK, MainPCs, WorkerPCs
<1>3. Known' /\ NoDuplicates'
  BY <1>1 DEF Known, NoDuplicates, MainInside
<1>4. Calm'
  BY <1>1 DEF Calm, MainInside, WorkerBound, Pending
<1> QED BY <1>2, <1>3, <1>4

LEMMA StartKeeps ==
  ASSUME IInv, Start
  PROVE  IInv'
<1> USE DEF IInv
<1>1. /\ mpc = "down" /\ run' = run + 1 /\ run < Runs
      /\ mpc' = "collect" /\ mq' = << >> /\ wpc' = "poll" /\ wq' = << >>
      /\ running' = TRUE /\ self_healed_success' = 0
      /\ healed' = {} /\ unread' = 0
      /\ UNCHANGED <<file, reported, enqueued, settled, turns, raced>>
  BY DEF Start
<1>2. << >> \in Lists /\ IsInjective(<< >>) /\ Range(<< >>) = {}
  BY DEF Lists, IsInjective, Range
<1>3. TypeOK'
  BY <1>1, <1>2, QueueAssumption DEF TypeOK, MainPCs, WorkerPCs
<1>4. Known' /\ NoDuplicates'
  BY <1>1, <1>2 DEF Known, NoDuplicates, MainInside
<1>5. Calm'
  BY <1>1 DEF Calm, Known, MainInside, WorkerBound, Pending
<1> QED BY <1>3, <1>4, <1>5

LEMMA IInvInductive == IInv /\ [Next]_vars => IInv'
<1> SUFFICES ASSUME IInv, [Next]_vars PROVE IInv'
  OBVIOUS
<1>1. CASE UNCHANGED vars
  BY <1>1 DEF vars, main, worker, history, IInv, TypeOK, Known, NoDuplicates, Calm,
              MainInside, WorkerBound, Pending
<1>2. CASE AllDown
  BY <1>1, <1>2 DEF AllDown
<1> QED BY <1>1, <1>2, EnqueueReadKeeps, EnqueueTruncateKeeps, EnqueueWriteKeeps,
           RunEndKeeps, PollKeeps, ReportKeeps, WorkerTruncateKeeps,
           WorkerWriteKeeps, ExitKeeps, StartKeeps
        DEF Next, Main, Worker, Report

-----------------------------------------------------------------------------
(* The texts, lists and books of both threads keep their ranges, and only  *)
(* what was enqueued is ever settled (client.py:44-131, 264-296).          *)
THEOREM TypeCorrect == Spec => []TypeOK
<1>1. IInv => TypeOK
  BY DEF IInv
<1> QED BY <1>1, IInvInit, IInvInductive, PTL DEF Spec

(* No failed request is in a list twice, for any number of failures,       *)
(* starts, kills and races (client.py:53, 82, 114, 118-125).               *)
THEOREM NeverTwice == Spec => []NoDuplicates
<1>1. IInv => NoDuplicates
  BY DEF IInv
<1> QED BY <1>1, IInvInit, IInvInductive, PTL DEF Spec

(* Without a race the queue is exactly what is still to be settled         *)
(* (client.py:51-55, 60-126).                                              *)
THEOREM ExactWithoutRace == Spec => []IntactUnlessRaced
<1>1. IInv => IntactUnlessRaced
  <2> SUFFICES ASSUME IInv, ~raced PROVE IntactUnlessRaced
    BY DEF IntactUnlessRaced
  <2>1. Garbled \notin Lists /\ Truncated \notin Lists
    BY QueueAssumption DEF Lists
  <2>2. file # Garbled
    BY <2>1, QueueAssumption DEF IInv, Calm
  <2> QED BY <2>1, <2>2 DEF IInv, Calm, IntactUnlessRaced, MainInside
<1> QED BY <1>1, IInvInit, IInvInductive, PTL DEF Spec

(* What no thread can rewrite from a list of its own and is no JSON stays  *)
(* so through every later run: nothing is queued, confirmed or healed any  *)
(* more (client.py:45-46, 52, 60, 128-129).                                *)
THEOREM NoRepair == Spec => BrokenFileStays
<1> DEFINE A == Broken => Broken' /\ UNCHANGED <<enqueued, turns, settled>>
<1>1. ASSUME [Next]_vars, Broken PROVE A
  <2>1. ASSUME NEW e \in Entries, EnqueueRead(e) PROVE A
    BY <1>1, <2>1 DEF EnqueueRead, Broken, Readable, MainInside, WorkerInside, worker
  <2>2. CASE CollectEnd \/ WaitEnd \/ Exit \/ Start
    BY <1>1, <2>2 DEF CollectEnd, WaitEnd, Exit, Start, Broken, Readable, MainInside,
                      WorkerInside, worker, history
  <2>3. CASE Poll
    BY <1>1, <2>3 DEF Poll, Broken, Readable, MainInside, WorkerInside, worker, main, history
  <2>4. ~(EnqueueTruncate \/ EnqueueWrite \/ ReportFails \/ Report \/ RetryHeals
          \/ RetryUnread \/ RetryFails \/ WorkerTruncate \/ WorkerWrite)
    BY <1>1 DEF Broken, MainInside, WorkerInside, EnqueueTruncate, EnqueueWrite, ReportFails,
       Report, ReportConfirmed, ReportRetry, Answered, RetryHeals, RetryUnread, RetryFails,
       WorkerTruncate, WorkerWrite
  <2>5. CASE AllDown \/ UNCHANGED vars
    BY <1>1, <2>5 DEF AllDown, vars, Broken, Readable, MainInside, WorkerInside,
                      main, worker, history
  <2> QED BY <1>1, <2>1, <2>2, <2>3, <2>4, <2>5 DEF Next, Main, Worker
<1>2. [Next]_vars => [A]_vars
  BY <1>1
<1> QED BY <1>2, PTL DEF Spec, BrokenFileStays

-----------------------------------------------------------------------------
(* What is healed *)

(* What this run has healed is neither in the worker's list nor, while the *)
(* worker has not read it or may read it again, in the file.               *)
Gone ==
  /\ wpc \in {"poll", "report"} /\ file \in Lists => healed \cap Range(file) = {}
  /\ WorkerInside => healed \cap Range(wq) = {}

LEMMA GoneStep ==
  ASSUME IInv, Gone, [Next]_vars
  PROVE  Gone' /\ (self_healed_success' > self_healed_success => Head(wq) \notin healed)
<1> DEFINE Once == self_healed_success' > self_healed_success => Head(wq) \notin healed
<1> USE DEF IInv
<1>0. self_healed_success \in Nat
  BY DEF TypeOK
<1>1. ASSUME UNCHANGED self_healed_success PROVE Once
  BY <1>0, <1>1
<1>2. CASE UNCHANGED vars \/ AllDown \/ CollectEnd \/ WaitEnd \/ \E e \in Entries : EnqueueRead(e)
  <2>1. UNCHANGED <<file, wpc, wq, healed, self_healed_success>>
    BY <1>2 DEF vars, AllDown, CollectEnd, WaitEnd, EnqueueRead, worker, history
  <2> QED BY <1>1, <2>1 DEF Gone, WorkerInside
<1>3. CASE EnqueueTruncate
  <2>1. file' \notin Lists
    BY <1>3, QueueAssumption DEF EnqueueTruncate, Truncate, Lists
  <2> QED BY <1>1, <1>3, <2>1 DEF EnqueueTruncate, worker, history, Gone, WorkerInside
<1>4. CASE EnqueueWrite
  <2>1. mq \in Lists /\ Write(mq)
    BY <1>4 DEF EnqueueWrite, TypeOK
  <2>2. file' \in Lists => file' = mq
    BY <2>1, WriteFacts
  <2>3. healed' = healed \ Range(mq) /\ UNCHANGED <<wpc, wq, self_healed_success>>
    BY <1>4 DEF EnqueueWrite, worker
  <2> QED BY <1>1, <2>2, <2>3 DEF Gone, WorkerInside
<1>5. CASE Poll
  BY <1>1, <1>5 DEF Poll, worker, history, Gone, WorkerInside, Readable
<1>6. CASE ReportFails \/ ReportRetry
  BY <1>1, <1>6 DEF ReportFails, ReportRetry, Answered, history, Gone, WorkerInside
<1>7. CASE ReportConfirmed \/ RetryHeals \/ RetryUnread \/ RetryFails
  <2>1. /\ wq \in Lists /\ wq # << >> /\ IsInjective(wq) /\ healed \cap Range(wq) = {}
        /\ wpc' = "truncate"
    BY <1>7 DEF ReportConfirmed, Answered, RetryHeals, RetryUnread, RetryFails, Gone,
                WorkerInside, TypeOK, Known, NoDuplicates
  <2>2. /\ Head(wq) \in Range(wq)
        /\ Range(Tail(wq)) = Range(wq) \ {Head(wq)} /\ Range(Rotate(wq)) = Range(wq)
    BY <2>1, TailFacts, RotateFacts
  <2>3. /\ healed' \subseteq healed \cup {Head(wq)}
        /\ wq' = Tail(wq) \/ (wq' = Rotate(wq) /\ healed' = healed)
    BY <1>7 DEF ReportConfirmed, Answered, RetryHeals, RetryUnread, RetryFails, history
  <2>4. healed' \cap Range(wq') = {} /\ Head(wq) \notin healed
    BY <2>1, <2>2, <2>3
  <2> QED BY <2>1, <2>4 DEF Gone
<1>8. CASE WorkerTruncate
  BY <1>1, <1>8 DEF WorkerTruncate, history, Gone, WorkerInside
<1>9. CASE WorkerWrite
  <2>1. wq \in Lists /\ Write(wq)
    BY <1>9 DEF WorkerWrite, TypeOK
  <2>2. file' \in Lists => file' = wq
    BY <2>1, WriteFacts
  <2> QED BY <1>1, <1>9, <2>2 DEF WorkerWrite, history, Gone, WorkerInside
<1>10. CASE Exit
  BY <1>1, <1>10 DEF Exit, Gone, WorkerInside
<1>11. CASE Start
  <2>1. healed' = {} /\ self_healed_success' = 0
    BY <1>11 DEF Start
  <2>2. Once
    BY <1>0, <2>1
  <2>3. Gone'
    BY <2>1 DEF Gone
  <2> QED BY <2>2, <2>3
<1> QED BY <1>2, <1>3, <1>4, <1>5, <1>6, <1>7, <1>8, <1>9, <1>10, <1>11
        DEF Next, Main, Worker, Report

(* A second healing of a failure in one run has an _enqueue that wrote it  *)
(* back, or a reply that could not be parsed, before it, for any number of *)
(* failures and with any overlaps (client.py:104-126, against 51-55).      *)
THEOREM NeverHealedTwice == Spec => HealedOnce
<1> DEFINE A == self_healed_success' > self_healed_success => Head(wq) \notin healed
<1>1. Init => Gone
  BY DEF Init, Gone, WorkerInside
<1>2. IInv /\ Gone /\ [Next]_vars => Gone' /\ [A]_vars
  BY GoneStep
<1> QED BY <1>1, <1>2, IInvInit, IInvInductive, PTL DEF Spec, HealedOnce

-----------------------------------------------------------------------------
(* The order of the queue *)

(* What is appended comes after everything else, and nothing else moves. *)
LEMMA BeforeAppend ==
  ASSUME NEW q \in Lists, NEW x \in Entries, x \notin Range(q)
  PROVE  /\ Before(Append(q, x), x) = Range(q)
         /\ \A e : e # x => Before(Append(q, x), e) \subseteq Before(q, e)
<1> DEFINE t == Append(q, x)
<1>1. /\ DOMAIN q = 1 .. Len(q) /\ DOMAIN t = 1 .. Len(q) + 1 /\ Len(q) \in Nat
      /\ t[Len(q) + 1] = x
      /\ \A i \in DOMAIN q : i \in DOMAIN t /\ t[i] = q[i]
  BY DEF Lists
<1>2. Range(t) = Range(q) \cup {x}
  BY AppendFacts
<1>3. \A i \in DOMAIN t : i \in DOMAIN q \/ i = Len(q) + 1
  BY <1>1
<1>4. \A i \in DOMAIN q : q[i] # x /\ q[i] \in Range(q)
  BY DEF Range
<1> HIDE DEF t
<1>5. ASSUME NEW d \in Range(q) PROVE d \in Before(t, x)
  <2>1. PICK i \in DOMAIN q : q[i] = d
    BY <1>5 DEF Range
  <2>2. i < Len(q) + 1 /\ Len(q) + 1 \in DOMAIN t
    BY <1>1, <2>1
  <2> QED BY <1>1, <1>2, <2>1, <2>2 DEF Before
<1>6. ASSUME NEW e, NEW d \in Before(t, e)
      PROVE  d \in Range(q) /\ (e # x => d \in Before(q, e))
  <2>1. PICK i \in DOMAIN t, j \in DOMAIN t : i < j /\ t[i] = d /\ t[j] = e
    BY <1>6 DEF Before
  <2>2. i \in DOMAIN q
    BY <1>1, <2>1
  <2>3. d = q[i] /\ d \in Range(q)
    BY <1>1, <1>4, <2>1, <2>2
  <2>4. ASSUME e # x PROVE d \in Before(q, e)
    <3>1. j \in DOMAIN q /\ q[j] = e
      BY <1>1, <1>3, <2>1, <2>4
    <3> QED BY <2>1, <2>2, <2>3, <3>1 DEF Before
  <2> QED BY <2>3, <2>4
<1>7. Before(t, x) = Range(q)
  BY <1>5, <1>6
<1> QED BY <1>6, <1>7 DEF t

(* Without its head every entry of a list is one place further on. *)
LEMMA BeforeTail ==
  ASSUME NEW q \in Lists, q # << >>, IsInjective(q)
  PROVE  \A e : Before(Tail(q), e) \subseteq Before(q, e) \ {Head(q)}
<1> DEFINE t == Tail(q)
<1>1. \A i \in DOMAIN t : i \in Nat /\ i + 1 \in DOMAIN q /\ t[i] = q[i + 1]
  BY DEF Lists
<1>2. Range(t) = Range(q) \ {Head(q)}
  BY TailFacts
<1> HIDE DEF t
<1>3. ASSUME NEW e, NEW d \in Before(t, e) PROVE d \in Before(q, e) \ {Head(q)}
  <2>1. d \in Range(t)
    BY <1>3 DEF Before
  <2>2. PICK i \in DOMAIN t, j \in DOMAIN t : i < j /\ t[i] = d /\ t[j] = e
    BY <1>3 DEF Before
  <2>3. i + 1 \in DOMAIN q /\ j + 1 \in DOMAIN q /\ i + 1 < j + 1
        /\ q[i + 1] = d /\ q[j + 1] = e
    BY <1>1, <2>2
  <2>4. d \in Before(q, e)
    BY <1>2, <2>1, <2>3 DEF Before
  <2> QED BY <1>2, <2>1, <2>4
<1> QED BY <1>3 DEF t

(* While run() is about to truncate the file, its list is the file with    *)
(* the new failure at the end, unless there is a race.                     *)
Copied == ~raced /\ mpc = "truncate" => mq = Append(file, Last(mq))

LEMMA CopiedStep ==
  ASSUME IInv, Copied, [Next]_vars
  PROVE  Copied'
<1>1. ASSUME NEW e \in Entries, EnqueueRead(e) PROVE Copied'
  <2>1. CASE Readable /\ mq' = Append(file, e) /\ mpc' = "truncate"
    <3>1. Last(mq') = e
      BY <2>1, AppendFacts DEF Readable
    <3> QED BY <1>1, <2>1, <3>1 DEF EnqueueRead, Copied
  <2>2. CASE mpc' = "crashed"
    BY <2>2 DEF Copied
  <2> QED BY <1>1, <2>1, <2>2 DEF EnqueueRead
<1>2. CASE EnqueueTruncate \/ EnqueueWrite \/ CollectEnd \/ WaitEnd \/ Exit \/ Start
  BY <1>2 DEF EnqueueTruncate, EnqueueWrite, CollectEnd, WaitEnd, Exit, Start, Copied
<1>3. CASE Poll \/ ReportFails \/ ReportConfirmed \/ ReportRetry
  BY <1>3 DEF Poll, ReportFails, ReportConfirmed, ReportRetry, Answered, main, history,
              Copied, IInv, TypeOK
<1>6. CASE RetryHeals \/ RetryUnread \/ RetryFails
  BY <1>6 DEF RetryHeals, RetryUnread, RetryFails, main, history, Copied
<1>4. CASE WorkerTruncate \/ WorkerWrite
  <2>1. ~raced => mpc # "truncate"
    BY <1>4 DEF IInv, Calm, WorkerTruncate, WorkerWrite, MainInside, WorkerBound
  <2> QED BY <1>4, <2>1 DEF WorkerTruncate, WorkerWrite, main, history, Copied
<1>5. CASE UNCHANGED vars
  BY <1>5 DEF vars, main, history, Copied
<1> QED BY <1>1, <1>2, <1>3, <1>4, <1>5, <1>6 DEF Next, Main, Worker, Report, AllDown

(* A turn takes the head away or puts it behind all the others. *)
LEMMA TurnOrder ==
  ASSUME IInv, Next, ~raced', TurnEnds, NEW e \in Pending \cap Pending'
  PROVE  IF e = Head(wq)
           THEN Before(Held, e)' = Pending' \ {e}
           ELSE Before(Held, e)' \subseteq Before(Held, e) \ {Head(wq)}
<1>1. /\ wpc \in {"report", "retry"} /\ wpc' = "truncate"
      /\ ReportConfirmed \/ RetryHeals \/ RetryUnread \/ RetryFails
  BY DEF TurnEnds, Next, Main, Worker, Report, EnqueueRead, EnqueueTruncate, EnqueueWrite,
         CollectEnd, WaitEnd, Poll, ReportFails, ReportRetry, Answered, WorkerTruncate,
         WorkerWrite, Exit, Start, AllDown, vars, worker
<1>2. ~raced
  BY <1>1 DEF ReportConfirmed, Answered, RetryHeals, RetryUnread, RetryFails, history
<1>3. /\ wq \in Lists /\ wq # << >> /\ IsInjective(wq) /\ wq = file
      /\ mpc # "write" /\ Range(wq) = Pending
  <2>1. wq = file /\ ~MainInside
    BY <1>1, <1>2 DEF ReportConfirmed, Answered, RetryHeals, RetryUnread, RetryFails, IInv,
                      Calm, WorkerBound
  <2> QED BY <1>1, <1>2, <2>1 DEF IInv, TypeOK, Known, NoDuplicates, Calm, MainInside
<1>4. Held = wq /\ Held' = wq'
  BY <1>1, <1>3 DEF Held
<1>5. CASE wq' = Tail(wq) /\ settled' = settled \cup {Head(wq)}
  <2>1. e # Head(wq)
    BY <1>5 DEF Pending
  <2>2. Before(Tail(wq), e) \subseteq Before(wq, e) \ {Head(wq)}
    BY <1>3, BeforeTail
  <2>3. Before(Held, e)' = Before(Tail(wq), e) /\ Before(Held, e) = Before(wq, e)
    BY <1>4, <1>5 DEF Before
  <2> QED BY <2>1, <2>2, <2>3
<1>6. CASE wq' = Rotate(wq) /\ Pending' = Pending
  <2>1. /\ Tail(wq) \in Lists /\ Head(wq) \in Entries /\ Head(wq) \notin Range(Tail(wq))
        /\ Range(Tail(wq)) = Pending \ {Head(wq)}
    BY <1>3, TailFacts DEF Lists
  <2>2. /\ Before(Rotate(wq), Head(wq)) = Range(Tail(wq))
        /\ e # Head(wq) => Before(Rotate(wq), e) \subseteq Before(Tail(wq), e)
    BY <2>1, BeforeAppend DEF Rotate
  <2>3. Before(Tail(wq), e) \subseteq Before(wq, e) \ {Head(wq)}
    BY <1>3, BeforeTail
  <2>4. Before(Held, e)' = Before(Rotate(wq), e) /\ Before(Held, e) = Before(wq, e)
    BY <1>4, <1>6 DEF Before
  <2> QED BY <1>6, <2>1, <2>2, <2>3, <2>4
<1> QED BY <1>1, <1>5, <1>6 DEF ReportConfirmed, Answered, RetryHeals, RetryUnread, RetryFails,
                                Pending, history

(* Every other step leaves the queue as it is or appends to it. *)
LEMMA OtherOrder ==
  ASSUME IInv, Copied, Next, ~raced', ~TurnEnds, NEW e \in Pending \cap Pending'
  PROVE  Before(Held, e)' \subseteq Before(Held, e)
<1>1. ASSUME Held' = Held PROVE Before(Held, e)' \subseteq Before(Held, e)
  BY <1>1 DEF Before
<1>2. ASSUME NEW x \in Entries, EnqueueRead(x) PROVE Held' = Held
  BY <1>2 DEF EnqueueRead, Held, worker
<1>3. CASE EnqueueTruncate
  <2>1. /\ mpc = "truncate" /\ mpc' = "write" /\ ~raced
        /\ UNCHANGED <<mq, wpc, wq, reported, enqueued, settled>>
    BY <1>3 DEF EnqueueTruncate, worker, history
  <2>2. /\ wpc \notin {"truncate", "write"} /\ mq = Append(file, Last(mq))
        /\ file \in Lists /\ Range(file) = Pending
        /\ Last(mq) \in reported \ enqueued /\ Last(mq) \in Entries
    BY <2>1 DEF IInv, TypeOK, Known, Calm, Copied, MainInside, WorkerBound
  <2>3. Last(mq) \notin Range(file) /\ e # Last(mq)
    BY <2>2 DEF Pending
  <2>4. Before(mq, e) \subseteq Before(file, e)
    BY <2>2, <2>3, BeforeAppend
  <2>5. Held = file /\ Held' = mq
    BY <2>1, <2>2 DEF Held
  <2> QED BY <2>4, <2>5 DEF Before
<1>4. CASE EnqueueWrite
  <2>1. mpc = "write" /\ mpc' = "collect" /\ ~raced /\ Write(mq) /\ UNCHANGED <<mq, wpc, wq>>
    BY <1>4 DEF EnqueueWrite, worker
  <2>2. file' = mq /\ wpc \notin {"truncate", "write"}
    BY <2>1, WriteFacts DEF IInv, TypeOK, Calm, MainInside, WorkerBound
  <2> QED BY <1>1, <2>1, <2>2 DEF Held
<1>5. CASE CollectEnd \/ WaitEnd
  BY <1>1, <1>5 DEF CollectEnd, WaitEnd, Held, worker
<1>6. CASE Poll
  BY <1>1, <1>6 DEF Poll, Held, main, worker
<1>7. CASE ReportFails \/ ReportRetry
  BY <1>1, <1>7 DEF ReportFails, ReportRetry, Answered, Held, main
<1>8. CASE ReportConfirmed \/ RetryHeals \/ RetryUnread \/ RetryFails
  BY <1>8 DEF ReportConfirmed, Answered, RetryHeals, RetryUnread, RetryFails, TurnEnds
<1>9. CASE WorkerTruncate
  BY <1>1, <1>9 DEF WorkerTruncate, Held, main
<1>10. CASE WorkerWrite
  <2>1. wpc = "write" /\ wpc' = "poll" /\ ~raced /\ Write(wq) /\ UNCHANGED <<mpc, mq, wq>>
    BY <1>10 DEF WorkerWrite, main, history
  <2>2. file' = wq /\ mpc # "write"
    BY <2>1, WriteFacts DEF IInv, TypeOK, Calm, MainInside, WorkerBound
  <2> QED BY <1>1, <2>1, <2>2 DEF Held
<1>11. CASE Exit
  <2>1. mpc # "write" /\ wpc \notin {"truncate", "write"}
    BY <1>11 DEF Exit
  <2> QED BY <1>1, <1>11, <2>1 DEF Exit, Held
<1>12. CASE Start
  <2>1. wpc = "stopped"
    BY <1>12 DEF Start, IInv, Known
  <2> QED BY <1>1, <1>12, <2>1 DEF Start, Held
<1>13. CASE AllDown
  BY <1>1, <1>13 DEF AllDown, vars, main, worker, Held
<1> QED BY <1>1, <1>2, <1>3, <1>4, <1>5, <1>6, <1>7, <1>8, <1>9, <1>10, <1>11, <1>12, <1>13
        DEF Next, Main, Worker, Report

(* Nobody is overtaken in the queue, for any number of failures, starts    *)
(* and ends: without a race each turn brings all the others one place      *)
(* forward (client.py:53, 60-126).                                         *)
THEOREM NobodyIsOvertaken == Spec => TurnsInOrder
<1> DEFINE A == ~raced' =>
                  \A e \in Pending \cap Pending' :
                    IF TurnEnds /\ e = Head(wq)
                      THEN Before(Held, e)' = Pending' \ {e}
                      ELSE Before(Held, e)' \subseteq
                             Before(Held, e) \ (IF TurnEnds THEN {Head(wq)} ELSE {})
<1>1. IInv /\ Copied /\ [Next]_vars => [A]_vars
  <2> SUFFICES ASSUME IInv, Copied, Next, ~raced', NEW e \in Pending \cap Pending'
               PROVE  IF TurnEnds /\ e = Head(wq)
                        THEN Before(Held, e)' = Pending' \ {e}
                        ELSE Before(Held, e)' \subseteq
                               Before(Held, e) \ (IF TurnEnds THEN {Head(wq)} ELSE {})
    OBVIOUS
  <2> QED BY TurnOrder, OtherOrder
<1>2. Init => Copied
  BY DEF Init, Copied
<1>3. IInv /\ Copied /\ [Next]_vars => Copied'
  BY CopiedStep
<1> QED BY <1>1, <1>2, <1>3, IInvInit, IInvInductive, PTL DEF Spec, TurnsInOrder

(* How far README.md:24 holds: a failure that is not settled is            *)
(* only ever lost to a race on the file (client.py:51-55, 60-126).         *)
THEOREM OnlyRacesLose == Spec => [](~raced => \A e \in Pending : ~Dropped(e))
<1>1. IInv => (~raced => \A e \in Pending : ~Dropped(e))
  <2> SUFFICES ASSUME IInv, ~raced, AtRest PROVE file \in Lists /\ Range(file) = Pending
    BY DEF Dropped, Readable
  <2> QED BY DEF IInv, Calm, AtRest, MainInside
<1> QED BY <1>1, IInvInit, IInvInductive, PTL DEF Spec
=============================================================================
