------------------------------ MODULE FaultQueue ------------------------------
(***************************************************************************)
(* The client's fault queue, fault_queue.json (distributed/client/         *)
(* client.py).  Two threads of one process read, change and rewrite the    *)
(* whole file with no lock: run() appends a failed request in _enqueue,    *)
(* the daemon thread of _async_worker reports the head of the list to the  *)
(* gateway and then drops it or moves it to the tail.  The file outlives   *)
(* the process.                                                            *)
(*                                                                         *)
(* Opening the file for writing truncates it; the new text, which fits     *)
(* the buffer of the file object, reaches it when it is closed.  A read of *)
(* so small a file sees one state of it.  Errors of the disk are left out. *)
(***************************************************************************)
EXTENDS Integers, SequencesExt

CONSTANTS
  Entries,      \* failed requests, each with the timestamp of its failure
  Runs,         \* bound: how often the client is started
  MaxUnread,    \* bound: replies of a run to retries that cannot be parsed
  MayBeKilled,  \* whether the process can be killed besides leaving by itself
  Truncated,    \* the text of a file just opened for writing: ""
  Garbled       \* the text of two overlapping writes: no JSON document

ASSUME QueueAssumption ==
  /\ Runs \in Nat \ {0}
  /\ MaxUnread \in Nat
  /\ MayBeKilled \in BOOLEAN
  /\ Truncated \notin Seq(Entries) /\ Garbled \notin Seq(Entries)
  /\ Truncated # Garbled

VARIABLES
  file,             \* the text of fault_queue.json: a list, or no JSON at all
  run,              \* the number of the current start of the process
  mpc, mq,          \* run(): where it is, its list, last the one it enqueues
  wpc, wq,          \* the worker: where it is, its list
  running,
  self_healed_success,
  (* History: *)
  reported,         \* entries given to _enqueue
  enqueued,         \* entries whose _enqueue has returned
  settled,          \* entries confirmed (outcome 1) or sent again with success
  turns,            \* entries whose report was answered
  healed,           \* entries dropped as healed by this run, and not written
                    \* back by an _enqueue since
  unread,           \* healings of this run whose reply could not be parsed
  raced             \* two rewrites overlapped, or a rewrite was cut short

main    == <<mpc, mq>>
worker  == <<wpc, wq>>
history == <<reported, enqueued, settled, turns, healed, unread, raced>>
vars    == <<file, run, main, worker, running, self_healed_success, history>>

Lists == Seq(Entries)
Texts == Lists \cup {Truncated, Garbled}

MainPCs   == {"collect", "truncate", "write", "wait", "leaving", "crashed", "down"}
WorkerPCs == {"poll", "report", "retry", "truncate", "write", "stopped"}

TypeOK ==
  /\ file \in Texts
  /\ run \in 1 .. Runs
  /\ mpc \in MainPCs /\ mq \in Lists
  /\ wpc \in WorkerPCs /\ wq \in Lists
  /\ running \in BOOLEAN
  /\ self_healed_success \in Nat
  /\ reported \in SUBSET Entries
  /\ enqueued \in SUBSET reported
  /\ settled \in SUBSET enqueued
  /\ turns \in SUBSET enqueued
  /\ healed \in SUBSET settled
  /\ unread \in 0 .. MaxUnread
  /\ raced \in BOOLEAN

(* The first start has created the file. *)
Init ==
  /\ file = << >>
  /\ run = 1
  /\ mpc = "collect" /\ mq = << >>
  /\ wpc = "poll" /\ wq = << >>
  /\ running = TRUE
  /\ self_healed_success = 0
  /\ reported = {} /\ enqueued = {} /\ settled = {} /\ turns = {}
  /\ healed = {} /\ unread = 0
  /\ raced = FALSE

-----------------------------------------------------------------------------
(* The file *)

Readable == file \in Lists

(* Writing a list from the start of the file over what is there: nothing   *)
(* unless the other thread wrote since this one truncated.  Text that is   *)
(* longer stays behind as a tail.  Entries differ a little in length, so   *)
(* lists of as many, but other, entries may or may not cover each other.   *)
Overlay(old, new) ==
  IF old \notin Lists THEN {new}
  ELSE IF Len(new) > Len(old) THEN {new}
  ELSE IF Len(new) < Len(old) THEN {Garbled}
  ELSE IF Range(new) = Range(old) THEN {new}
  ELSE {new, Garbled}

Truncate == file' = Truncated

Write(q) == file' \in Overlay(file, q)

-----------------------------------------------------------------------------
(* _enqueue, called by run() as the failed requests complete *)

MainInside   == mpc \in {"truncate", "write"}
WorkerInside == wpc \in {"report", "retry", "truncate", "write"}

(* Once its report is answered the worker will rewrite the file. *)
WorkerBound  == wpc \in {"retry", "truncate", "write"}

(* Mutant for TypeOK: the entry is wrapped in a list of its own. *)
EnqueueReadNested(e) ==
  /\ mpc = "collect"
  /\ e \notin reported
  /\ reported' = reported \cup {e}
  /\ Readable
  /\ mq' = Append(file, <<e>>)
  /\ mpc' = "truncate"
  /\ UNCHANGED <<file, run, worker, running, self_healed_success,
                 enqueued, settled, turns, healed, unread, raced>>

(* Mutant for BrokenFileStays: a file that is no JSON counts as empty. *)
EnqueueReadAnew(e) ==
  /\ mpc = "collect"
  /\ e \notin reported
  /\ reported' = reported \cup {e}
  /\ mq' = Append(IF Readable THEN file ELSE << >>, e)
  /\ mpc' = "truncate"
  /\ raced' = (raced \/ WorkerBound)
  /\ UNCHANGED <<file, run, worker, running, self_healed_success,
                 enqueued, settled, turns, healed, unread>>

EnqueueRead(e) ==
  /\ mpc = "collect"
  /\ e \notin reported
  /\ reported' = reported \cup {e}
  /\ \/ /\ Readable
        /\ mq' = Append(file, e)
        /\ mpc' = "truncate"
        /\ raced' = (raced \/ WorkerBound)
     \/ /\ ~Readable             \* the JSON error ends run()
        /\ mpc' = "crashed"
        /\ UNCHANGED <<mq, raced>>
  /\ UNCHANGED <<file, run, worker, running, self_healed_success,
                 enqueued, settled, turns, healed, unread>>

EnqueueTruncate ==
  /\ mpc = "truncate"
  /\ Truncate
  /\ mpc' = "write"
  /\ UNCHANGED <<run, mq, worker, running, self_healed_success, history>>

EnqueueWrite ==
  /\ mpc = "write"
  /\ Write(mq)
  /\ mpc' = "collect"
  /\ enqueued' = enqueued \cup {Last(mq)}
  /\ healed' = healed \ Range(mq)
  /\ UNCHANGED <<run, mq, worker, running, self_healed_success,
                 reported, settled, turns, unread, raced>>

(* All requests are done: a last sleep of WAIT_QUEUE_REPORT_TIME. *)
CollectEnd ==
  /\ mpc = "collect"
  /\ mpc' = "wait"
  /\ UNCHANGED <<file, run, mq, worker, running, self_healed_success, history>>

(* Mutant for ClientRun's RunEnds: the wait is for the worker. *)
WaitDrained ==
  /\ mpc = "wait"
  /\ wpc = "poll" /\ file = << >>
  /\ running' = FALSE
  /\ mpc' = "leaving"
  /\ UNCHANGED <<file, run, mq, worker, self_healed_success, history>>

WaitEnd ==
  /\ mpc = "wait"
  /\ running' = FALSE
  /\ mpc' = "leaving"
  /\ UNCHANGED <<file, run, mq, worker, self_healed_success, history>>

-----------------------------------------------------------------------------
(* _async_worker *)

(* The top of the loop.  A file that is no JSON is logged and tried again; *)
(* with an empty list there is nothing to do before the next poll.         *)
Poll ==
  /\ wpc = "poll"
  /\ \/ ~running /\ wpc' = "stopped" /\ UNCHANGED wq
     \/ /\ running
        /\ IF Readable /\ file # << >>
             THEN wq' = file /\ wpc' = "report"
             ELSE UNCHANGED worker
  /\ UNCHANGED <<file, run, main, running, self_healed_success, history>>

(* POST /api/report raises, or answers another status than 200. *)
ReportFails ==
  /\ wpc = "report"
  /\ wpc' = "poll"
  /\ UNCHANGED <<file, run, main, wq, running, self_healed_success, history>>

(* The report is answered.  It raced if run() is rewriting the file or has *)
(* rewritten it since the worker read it.                                  *)
Answered ==
  /\ wpc = "report"
  /\ raced' = (raced \/ MainInside \/ file # wq)
  /\ turns' = turns \cup {Head(wq)}
  /\ UNCHANGED <<file, run, main, running, self_healed_success,
                 reported, enqueued, healed, unread>>

(* Outcome 1: the head is dropped. *)
ReportConfirmed ==
  /\ Answered
  /\ settled' = settled \cup {Head(wq)}
  /\ wq' = Tail(wq)
  /\ wpc' = "truncate"

(* Outcome 0: the request is sent again. *)
ReportRetry ==
  /\ Answered
  /\ wpc' = "retry"
  /\ UNCHANGED <<wq, settled>>

(* Mutants: the head is not popped (NoDuplicates), not appended again      *)
(* (IntactUnlessRaced), or left where it is (NoStarvation, TurnsInOrder).  *)
RotateCopies(q) == Append(q, Head(q))
RotateDrops(q)  == Tail(q)
RotateNot(q)    == q

Rotate(q) == Append(Tail(q), Head(q))

(* Mutant for HealedOnce: the healed entry stays. *)
RetryHealsKept ==
  /\ wpc = "retry"
  /\ self_healed_success' = self_healed_success + 1
  /\ settled' = settled \cup {Head(wq)}
  /\ healed' = healed \cup {Head(wq)}
  /\ wpc' = "truncate"
  /\ UNCHANGED <<file, run, main, wq, running, reported, enqueued, turns, unread, raced>>

(* Any reply with status 200 counts as healed. *)
RetryHeals ==
  /\ wpc = "retry"
  /\ self_healed_success' = self_healed_success + 1
  /\ settled' = settled \cup {Head(wq)}
  /\ healed' = healed \cup {Head(wq)}
  /\ wq' = Tail(wq)
  /\ wpc' = "truncate"
  /\ UNCHANGED <<file, run, main, running, reported, enqueued, turns, unread, raced>>

(* It is counted before its body is parsed: when that raises, the handler  *)
(* of failed retries keeps the entry.                                      *)
RetryUnread ==
  /\ wpc = "retry"
  /\ unread < MaxUnread
  /\ unread' = unread + 1
  /\ self_healed_success' = self_healed_success + 1
  /\ wq' = Rotate(wq)
  /\ wpc' = "truncate"
  /\ UNCHANGED <<file, run, main, running, reported, enqueued, settled, turns, healed, raced>>

RetryFails ==
  /\ wpc = "retry"
  /\ wq' = Rotate(wq)
  /\ wpc' = "truncate"
  /\ UNCHANGED <<file, run, main, running, self_healed_success, history>>

WorkerTruncate ==
  /\ wpc = "truncate"
  /\ Truncate
  /\ wpc' = "write"
  /\ UNCHANGED <<run, main, wq, running, self_healed_success, history>>

WorkerWrite ==
  /\ wpc = "write"
  /\ Write(wq)
  /\ wpc' = "poll"
  /\ UNCHANGED <<run, main, wq, running, self_healed_success, history>>

-----------------------------------------------------------------------------
(* The end of the process takes the daemon thread with it, wherever it is. *)
Exit ==
  /\ \/ mpc \in {"leaving", "crashed"}
     \/ MayBeKilled /\ mpc # "down"
  /\ mpc' = "down"
  /\ wpc' = "stopped"
  /\ running' = FALSE
  /\ raced' = (raced \/ wpc \in {"truncate", "write"} \/ mpc = "write")
  /\ UNCHANGED <<file, run, mq, wq, self_healed_success,
                 reported, enqueued, settled, turns, healed, unread>>

(* __init__ leaves a file that exists as it is. *)
Start ==
  /\ mpc = "down"
  /\ run < Runs
  /\ run' = run + 1
  /\ mpc' = "collect" /\ mq' = << >>
  /\ wpc' = "poll" /\ wq' = << >>
  /\ running' = TRUE
  /\ self_healed_success' = 0
  /\ healed' = {} /\ unread' = 0
  /\ UNCHANGED <<file, reported, enqueued, settled, turns, raced>>

AllDown == mpc = "down" /\ run = Runs /\ UNCHANGED vars

Main   == (\E e \in Entries : EnqueueRead(e)) \/ EnqueueTruncate \/ EnqueueWrite
          \/ CollectEnd \/ WaitEnd
Report == ReportConfirmed \/ ReportRetry
Worker == \/ Poll \/ ReportFails \/ Report \/ RetryHeals \/ RetryUnread \/ RetryFails
          \/ WorkerTruncate \/ WorkerWrite

Next == Main \/ Worker \/ Exit \/ Start \/ AllDown

Spec == Init /\ [][Next]_vars

-----------------------------------------------------------------------------
(* Properties *)

(* No race, no restart and no rotation ever puts a failed request into a   *)
(* list twice: neither into the file nor into what a thread is about to    *)
(* write, so no later confirmation of one copy leaves another behind       *)
(* (client.py:53, 82, 114, 118-119, 124-125).                              *)
NoDuplicates ==
  /\ file \in Lists => IsInjective(file)
  /\ IsInjective(mq)
  /\ IsInjective(wq)

Pending == enqueued \ settled

(* As long as no thread rewrites the file from a read that the other has   *)
(* overtaken, and no end of a process cuts a rewrite short, nothing is     *)
(* lost and nothing comes back, whatever is queued while a report is under *)
(* way that then fails: the queue holds exactly the failures still to be   *)
(* settled, through any rotations and restarts, and no reader can be left  *)
(* with a broken file (client.py:51-55, 60-126).                           *)
IntactUnlessRaced ==
  ~raced =>
    /\ file # Garbled
    /\ file = Truncated => mpc = "write" \/ wpc = "write"
    /\ file \in Lists /\ wpc # "truncate" => Range(file) = Pending
    /\ wpc \in {"truncate", "write"} => Range(wq) = Pending
    /\ mpc \in {"truncate", "write"} => Range(mq) = Pending \cup {Last(mq)}

(* A file that is no JSON while no thread holds a list of its own is never *)
(* mended: neither reader writes what it could not read, and a start of    *)
(* the client creates the file only where there is none.  From then on no  *)
(* failure is queued, confirmed or healed any more, in this run or a later *)
(* one (client.py:45-46, 52, 60, 128-129).                                 *)
Broken == ~Readable /\ ~MainInside /\ ~WorkerInside

BrokenFileStays ==
  [][Broken => Broken' /\ UNCHANGED <<enqueued, turns, settled>>]_vars

(* The queue: what the file holds, or the list that is to replace it once  *)
(* the worker has dealt with the head or run() has truncated the file.     *)
Held ==
  IF wpc \in {"truncate", "write"} THEN wq
  ELSE IF mpc = "write" THEN mq ELSE file

Before(q, e) ==
  {d \in Range(q) : \E i, j \in DOMAIN q : i < j /\ q[i] = d /\ q[j] = e}

TurnEnds == wpc \in {"report", "retry"} /\ wpc' = "truncate"

(* Nobody is overtaken: without a race each turn of the head brings every  *)
(* other failure one place forward, a head that is to be retried goes      *)
(* behind all of them, and no other step of either thread, no end and no   *)
(* start of the process changes the order (client.py:53, 60-126).          *)
TurnsInOrder ==
  [][~raced' =>
       \A e \in Pending \cap Pending' :
         IF TurnEnds /\ e = Head(wq)
           THEN Before(Held, e)' = Pending' \ {e}
           ELSE Before(Held, e)' \subseteq
                  Before(Held, e) \ (IF TurnEnds THEN {Head(wq)} ELSE {})]_vars

(* No failure is counted as healed twice in a run, however report, retry  *)
(* and new failures interleave and whatever overlaps, but for two reasons: *)
(* an _enqueue that had read the file before has written it back after, or *)
(* the reply could not be parsed (client.py:104-126, against 51-55).       *)
HealedOnce ==
  [][self_healed_success' > self_healed_success => Head(wq) \notin healed]_vars

AtRest == ~MainInside /\ wpc \in {"poll", "stopped"}

(* No thread holds the failure and the file does not either. *)
Dropped(e) == AtRest /\ ~(Readable /\ e \in Range(file))

(* While the worker gets reports answered, a failed request whose retries  *)
(* keep failing does not keep the others from their turn: each gets it,    *)
(* through whatever overlaps, unless a race has dropped this very one or   *)
(* the client ends first.  Nothing is assumed of the threads or of the     *)
(* report, which has no timeout: a worker that hangs, or is refused for    *)
(* ever, is the other side of the implication (client.py:71, 116-126).     *)
NoStarvation ==
  []<><<Report>>_vars =>
    \A e \in Entries :
      e \in enqueued ~> e \in turns \/ Dropped(e) \/ mpc \notin {"collect", "wait"}

-----------------------------------------------------------------------------
(* Statements of the documentation that the code does not keep *)

(* "Failed or timed-out requests are stored locally in fault_queue.json"   *)
(* (README.md:24): while the client is up and no thread is at work on the  *)
(* file, it holds every failure that is not settled.                       *)
NoLostReport == mpc # "down" => \A e \in Pending : ~Dropped(e)
=============================================================================
