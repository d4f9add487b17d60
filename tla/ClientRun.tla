------------------------------ MODULE ClientRun ------------------------------
(***************************************************************************)
(* One run of the client (distributed/client/client.py run, LoggedRetry):  *)
(* the thread pool that sends the requests with their automatic retries,   *)
(* the main thread that collects the results, counts them, queues the      *)
(* failures and saves the report, beside the worker of FaultQueue.  What   *)
(* the threads do to the file is FaultQueue's, of which this module is a   *)
(* client.                                                                 *)
(*                                                                         *)
(* The requests are numbered as they are submitted; the pool takes them in *)
(* that order and results are collected in any.                            *)
(***************************************************************************)
EXTENDS Integers, Sequences, FiniteSets

CONSTANTS
  REQUEST_TIMES, MAX_WORKERS, RETRY_TIMES,
  MaxUnread, Truncated, Garbled     \* of FaultQueue

ASSUME ClientAssumption ==
  /\ REQUEST_TIMES \in Nat
  /\ MAX_WORKERS \in Nat \ {0}
  /\ RETRY_TIMES \in Nat
  /\ MaxUnread \in Nat
  /\ Truncated \notin Seq(1 .. REQUEST_TIMES) /\ Garbled \notin Seq(1 .. REQUEST_TIMES)
  /\ Truncated # Garbled

VARIABLES
  stage, tries,          \* of each request: where it is, its transmissions
  reply,                 \* what its caller got of it
  success, failed, server_cache_hits, gateway_degrade_hits,
  retried_requests,
  report,                \* what _save_result wrote, or NoReport
  file, run, mpc, mq, wpc, wq, running, self_healed_success,
  reported, enqueued, settled, turns, healed, unread, raced     \* of FaultQueue

Requests == 1 .. REQUEST_TIMES

Q == INSTANCE FaultQueue WITH
       Entries <- Requests, Runs <- 1, MayBeKilled <- FALSE

pool     == <<stage, tries, reply, retried_requests>>
counters == <<success, failed, server_cache_hits, gateway_degrade_hits>>
queue    == <<file, run, mpc, mq, wpc, wq, running, self_healed_success,
              reported, enqueued, settled, turns, healed, unread, raced>>
vars     == <<pool, counters, report, queue>>

Stages  == {"submitted", "sending", "returned", "counted"}

(* A reply of status 200, as far as run() looks into it: the notes of the  *)
(* server and of the gateway.                                              *)
Answers == {"plain", "server_note", "gateway_note"}

NoReport == [saved |-> FALSE]

Sending == {r \in Requests : stage[r] = "sending"}

TypeOK ==
  /\ stage \in [Requests -> Stages]
  /\ tries \in [Requests -> 0 .. RETRY_TIMES + 1]
  /\ reply \in [Requests -> Answers \cup {"none", "error"}]
  /\ Cardinality(Sending) <= MAX_WORKERS
  /\ {success, failed, server_cache_hits, gateway_degrade_hits}
       \subseteq 0 .. REQUEST_TIMES
  /\ retried_requests \in SUBSET Requests
  /\ report = NoReport \/ report.saved

Init ==
  /\ stage = [r \in Requests |-> "submitted"]
  /\ tries = [r \in Requests |-> 0]
  /\ reply = [r \in Requests |-> "none"]
  /\ success = 0 /\ failed = 0
  /\ server_cache_hits = 0 /\ gateway_degrade_hits = 0
  /\ retried_requests = {}
  /\ report = NoReport
  /\ Q!Init

-----------------------------------------------------------------------------
(* The threads of the pool *)

(* Mutant for TypeOK: a thread for every request. *)
SendAtOnce(r) ==
  /\ stage[r] = "submitted"
  /\ stage' = [stage EXCEPT ![r] = "sending"]
  /\ tries' = [tries EXCEPT ![r] = 1]
  /\ UNCHANGED <<reply, retried_requests, counters, report, queue>>

(* A free thread takes the next request. *)
Send(r) ==
  /\ stage[r] = "submitted"
  /\ \A q \in Requests : q < r => stage[q] # "submitted"
  /\ Cardinality(Sending) < MAX_WORKERS
  /\ stage' = [stage EXCEPT ![r] = "sending"]
  /\ tries' = [tries EXCEPT ![r] = 1]
  /\ UNCHANGED <<reply, retried_requests, counters, report, queue>>

(* A connection error, a timeout or a status of the retry list.  The note  *)
(* is taken before urllib3 decides whether there is a try left.            *)
TryFails(r) ==
  /\ stage[r] = "sending"
  /\ retried_requests' = retried_requests \cup {r}
  /\ IF tries[r] <= RETRY_TIMES
       THEN /\ tries' = [tries EXCEPT ![r] = @ + 1]
            /\ UNCHANGED <<stage, reply>>
       ELSE /\ stage' = [stage EXCEPT ![r] = "returned"]
            /\ reply' = [reply EXCEPT ![r] = "error"]
            /\ UNCHANGED tries
  /\ UNCHANGED <<counters, report, queue>>

(* Another status than those and 200, or 200 with a body that is no JSON:  *)
(* an exception of requests, and no retry.                                 *)
TryRefused(r) ==
  /\ stage[r] = "sending"
  /\ stage' = [stage EXCEPT ![r] = "returned"]
  /\ reply' = [reply EXCEPT ![r] = "error"]
  /\ UNCHANGED <<tries, retried_requests, counters, report, queue>>

(* Status 200: is_success, whatever the JSON body says. *)
TryAnswered(r, a) ==
  /\ stage[r] = "sending"
  /\ stage' = [stage EXCEPT ![r] = "returned"]
  /\ reply' = [reply EXCEPT ![r] = a]
  /\ UNCHANGED <<tries, retried_requests, counters, report, queue>>

Transmission(r) ==
  TryFails(r) \/ TryRefused(r) \/ \E a \in Answers : TryAnswered(r, a)

-----------------------------------------------------------------------------
(* run(), on the main thread *)

Collected(r) ==
  /\ stage[r] = "returned"
  /\ stage' = [stage EXCEPT ![r] = "counted"]

CollectSuccess(r) ==
  /\ mpc = "collect"
  /\ Collected(r)
  /\ reply[r] # "error"
  /\ success' = success + 1
  /\ server_cache_hits' = server_cache_hits + IF reply[r] = "server_note" THEN 1 ELSE 0
  /\ gateway_degrade_hits' =
       gateway_degrade_hits + IF reply[r] = "gateway_note" THEN 1 ELSE 0
  /\ UNCHANGED <<failed, tries, reply, retried_requests, report, queue>>

(* Counted, then queued: the read of _enqueue is part of the same step. *)
CollectFailure(r) ==
  /\ Collected(r)
  /\ reply[r] = "error"
  /\ failed' = failed + 1
  /\ Q!EnqueueRead(r)
  /\ UNCHANGED <<success, server_cache_hits, gateway_degrade_hits,
                 tries, reply, retried_requests, report>>

(* Mutant for ReportAddsUp: the loop ends with the first failure queued. *)
CollectEndEarly ==
  /\ \E r \in Requests : stage[r] = "counted"
  /\ Q!CollectEnd
  /\ UNCHANGED <<pool, counters, report>>

CollectEnd ==
  /\ \A r \in Requests : stage[r] = "counted"
  /\ Q!CollectEnd
  /\ UNCHANGED <<pool, counters, report>>

SaveResult ==
  /\ mpc = "leaving"
  /\ report = NoReport
  /\ report' = [saved |-> TRUE, success |-> success, failed |-> failed,
                retries |-> Cardinality(retried_requests),
                hits |-> server_cache_hits,
                healed |-> self_healed_success]
  /\ UNCHANGED <<pool, counters, queue>>

(* Mutant for SilentEndSkipsOne: the process leaves before _save_result. *)
ExitUnsaved ==
  /\ \/ mpc = "leaving"
     \/ mpc = "crashed" /\ \A r \in Requests : stage[r] \in {"returned", "counted"}
  /\ Q!Exit
  /\ UNCHANGED <<pool, counters, report>>

(* The exception of a broken file leaves run() once the pool is done. *)
Exit ==
  /\ \/ mpc = "leaving" /\ report # NoReport
     \/ mpc = "crashed" /\ \A r \in Requests : stage[r] \in {"returned", "counted"}
  /\ Q!Exit
  /\ UNCHANGED <<pool, counters, report>>

Down == Q!AllDown /\ UNCHANGED vars

Queue(A) == A /\ UNCHANGED <<pool, counters, report>>

Main ==
  \/ \E r \in Requests : CollectSuccess(r) \/ CollectFailure(r)
  \/ Queue(Q!EnqueueTruncate \/ Q!EnqueueWrite \/ Q!WaitEnd)
  \/ CollectEnd \/ SaveResult \/ Exit

Worker == Queue(Q!Worker)

Next ==
  \/ \E r \in Requests : Send(r) \/ Transmission(r)
  \/ Main \/ Worker \/ Down

(* The threads of the pool run and each transmission ends: session.get has *)
(* timeouts.  The main thread runs.  Nothing is asked of the worker, whose *)
(* report has no timeout.                                                  *)
Spec     == Init /\ [][Next]_vars
FairSpec == Spec /\ WF_vars(Main)
                 /\ \A r \in Requests : WF_vars(Send(r)) /\ WF_vars(Transmission(r))

-----------------------------------------------------------------------------
(* Properties *)

(* The entries the worker has yet to settle: what it is about to write, or *)
(* what the file holds.                                                    *)
Left == IF wpc \in {"truncate", "write"} THEN wq ELSE file

(* What the saved report says.  Each request is counted as a direct        *)
(* success or as failed, once, and each failed one was written to the      *)
(* queue, through any overlaps; the retries are the requests that were     *)
(* transmitted more than once.  As long as no rewrites of the file have    *)
(* overlapped, whatever was queued beside reports that fail, the failed    *)
(* ones are when the run ends settled by the worker or left in the file    *)
(* for the next start, and no more are named healed than failed, except    *)
(* for those whose reply could not be parsed (client.py:98-126, 133-181,   *)
(* 264-296, LoggedRetry.py:28).                                            *)
ReportAddsUp ==
  report # NoReport =>
    /\ report.success + report.failed = REQUEST_TIMES
    /\ report.failed = Cardinality(enqueued)
    /\ RETRY_TIMES > 0 =>
         report.retries = Cardinality({r \in Requests : tries[r] > 1})
    /\ ~raced => report.healed <= report.failed + unread
    /\ mpc = "leaving" /\ ~raced =>
         report.success + Cardinality(settled) + Len(Left) = REQUEST_TIMES

(* A run leaves no report only when _enqueue raised on a file that is no   *)
(* JSON, and of the failures collected by then exactly one was never       *)
(* queued, the one it was called for; what the file still holds of the     *)
(* others is another matter, and nothing here says that they are safe      *)
(* (client.py:51-55, 264-296).                                             *)
SilentEndSkipsOne ==
  mpc \in {"crashed", "down"} /\ report = NoReport =>
    \E r \in reported \ enqueued :
      reply[r] = "error" /\ reported = enqueued \cup {r}

(* The run comes to its end, with its report or by the exception of a      *)
(* broken file, although the worker may hang in a report for ever, which   *)
(* has no timeout, and whatever the requests come to (client.py:71,        *)
(* 264-296).                                                               *)
RunEnds == <>(mpc = "down" /\ (report = NoReport => enqueued # reported))
=============================================================================
