----------------------------- MODULE Traditional -----------------------------
(***************************************************************************)
(* The traditional mode (traditional/client, gateway, server): the         *)
(* baseline without retries, breaker, stores or queue.  A request is sent  *)
(* once, forwarded once and executed at most once.                         *)
(*                                                                         *)
(* Client pool, gateway and server are threads that only wait for each     *)
(* other by calls with timeouts: whoever waited may have left when the     *)
(* answer is there, and what was sent may arrive after that.               *)
(***************************************************************************)
EXTENDS Integers, FiniteSets

CONSTANTS REQUEST_TIMES, MAX_WORKERS

ASSUME TraditionalAssumption ==
  /\ REQUEST_TIMES \in Nat
  /\ MAX_WORKERS \in Nat \ {0}

VARIABLES
  client,               \* of each request: where its thread of the pool is
  gateway,              \* of each request: where its handler is
  server,               \* of each request: where its execution is
  result,               \* what the handler of the gateway returns
  success, failed, bytes_received,
  report

vars == <<client, gateway, server, result, success, failed, bytes_received, report>>

Requests == 1 .. REQUEST_TIMES

Statuses    == {"success", "failed"}
ClientPCs   == {"submitted", "sending", "heard_success", "heard_failed",
                "no_answer", "counted"}
GatewayPCs  == {"idle", "waiting", "upstream_loss", "downstream", "done"}
ServerPCs   == {"idle", "working"} \cup Statuses

NoReport == [saved |-> FALSE]

Pool == {r \in Requests : client[r] = "sending"}

TypeOK ==
  /\ client \in [Requests -> ClientPCs]
  /\ gateway \in [Requests -> GatewayPCs]
  /\ server \in [Requests -> ServerPCs]
  /\ result \in [Requests -> Statuses \cup {"none"}]
  /\ Cardinality(Pool) <= MAX_WORKERS
  /\ {success, failed, bytes_received} \subseteq 0 .. REQUEST_TIMES
  /\ report = NoReport \/ report.saved

Init ==
  /\ client = [r \in Requests |-> "submitted"]
  /\ gateway = [r \in Requests |-> "idle"]
  /\ server = [r \in Requests |-> "idle"]
  /\ result = [r \in Requests |-> "none"]
  /\ success = 0 /\ failed = 0 /\ bytes_received = 0
  /\ report = NoReport

counters == <<success, failed, bytes_received, report>>

-----------------------------------------------------------------------------
(* The server: TASK_COST of sleep, then the coin of makeup_response. *)

Process(r) ==
  /\ gateway[r] # "idle" /\ server[r] = "idle"
  /\ server' = [server EXCEPT ![r] = "working"]
  /\ UNCHANGED <<client, gateway, result, counters>>

Processed(r) ==
  /\ server[r] = "working"
  /\ \E status \in Statuses : server' = [server EXCEPT ![r] = status]
  /\ UNCHANGED <<client, gateway, result, counters>>

-----------------------------------------------------------------------------
(* The gateway *)

Forward(r) ==
  /\ client[r] # "submitted" /\ gateway[r] = "idle"
  /\ gateway' = [gateway EXCEPT ![r] = "waiting"]
  /\ UNCHANGED <<client, server, result, counters>>

(* The reply is kept; then one loss or both are simulated, each by a sleep *)
(* longer than the client waits.                                           *)
Hear(r) ==
  /\ gateway[r] = "waiting"
  /\ server[r] \in Statuses
  /\ result' = [result EXCEPT ![r] = server[r]]
  /\ \E next \in {"upstream_loss", "downstream", "done"} :
       gateway' = [gateway EXCEPT ![r] = next]
  /\ UNCHANGED <<client, server, counters>>

(* A timeout after 2 s, or the connection fails. *)
ForwardFails(r) ==
  /\ gateway[r] = "waiting"
  /\ result' = [result EXCEPT ![r] = "failed"]
  /\ gateway' = [gateway EXCEPT ![r] = "done"]
  /\ UNCHANGED <<client, server, counters>>

Wake(r) ==
  /\ \/ gateway[r] = "upstream_loss"
          /\ \E next \in {"downstream", "done"} : gateway' = [gateway EXCEPT ![r] = next]
     \/ gateway[r] = "downstream" /\ gateway' = [gateway EXCEPT ![r] = "done"]
  /\ UNCHANGED <<client, server, result, counters>>

-----------------------------------------------------------------------------
(* The client *)

(* Mutant for TypeOK: a thread for each request instead of a pool. *)
SendAtOnce(r) ==
  /\ client[r] = "submitted"
  /\ client' = [client EXCEPT ![r] = "sending"]
  /\ UNCHANGED <<gateway, server, result, counters>>

Send(r) ==
  /\ client[r] = "submitted"
  /\ \A q \in Requests : q < r => client[q] # "submitted"
  /\ Cardinality(Pool) < MAX_WORKERS
  /\ client' = [client EXCEPT ![r] = "sending"]
  /\ UNCHANGED <<gateway, server, result, counters>>

(* Mutant for SuccessesWereComputed: status 200 is enough, as it is in the *)
(* distributed client.                                                     *)
AnsweredAny(r) ==
  /\ client[r] = "sending" /\ gateway[r] = "done"
  /\ client' = [client EXCEPT ![r] = "heard_success"]
  /\ UNCHANGED <<gateway, server, result, counters>>

Answered(r) ==
  /\ client[r] = "sending" /\ gateway[r] = "done"
  /\ client' = [client EXCEPT ![r] =
       IF result[r] = "failed" THEN "heard_failed" ELSE "heard_success"]
  /\ UNCHANGED <<gateway, server, result, counters>>

(* REQUEST_TIMEOUT, or the connection fails: no retry. *)
Unanswered(r) ==
  /\ client[r] = "sending"
  /\ client' = [client EXCEPT ![r] = "no_answer"]
  /\ UNCHANGED <<gateway, server, result, counters>>

(* The loop over as_completed.  Bytes come with every answer. *)
Collect(r) ==
  /\ client[r] \in {"heard_success", "heard_failed", "no_answer"}
  /\ IF client[r] = "heard_success"
       THEN success' = success + 1 /\ UNCHANGED failed
       ELSE failed' = failed + 1 /\ UNCHANGED success
  /\ bytes_received' = bytes_received + IF client[r] = "no_answer" THEN 0 ELSE 1
  /\ client' = [client EXCEPT ![r] = "counted"]
  /\ UNCHANGED <<gateway, server, result, report>>

(* Mutant for RunEnds: the report waits until the server is done with all. *)
SaveResultLate ==
  /\ report = NoReport
  /\ \A r \in Requests : client[r] = "counted" /\ server[r] \in Statuses
  /\ report' = [saved |-> TRUE, success |-> success, failed |-> failed]
  /\ UNCHANGED <<client, gateway, server, result, success, failed, bytes_received>>

(* Mutant for ReportAddsUp: the loop ends when nothing is being sent. *)
SaveResultEarly ==
  /\ report = NoReport
  /\ \A r \in Requests : client[r] \notin {"submitted", "sending"}
  /\ report' = [saved |-> TRUE, success |-> success, failed |-> failed]
  /\ UNCHANGED <<client, gateway, server, result, success, failed, bytes_received>>

SaveResult ==
  /\ report = NoReport
  /\ \A r \in Requests : client[r] = "counted"
  /\ report' = [saved |-> TRUE, success |-> success, failed |-> failed]
  /\ UNCHANGED <<client, gateway, server, result, success, failed, bytes_received>>

(* The client is gone; gateway and server stay. *)
Idle == report # NoReport /\ UNCHANGED vars

ClientStep(r) == Answered(r) \/ Unanswered(r) \/ Collect(r)

Next ==
  \/ \E r \in Requests :
       \/ Process(r) \/ Processed(r)
       \/ Forward(r) \/ Hear(r) \/ ForwardFails(r) \/ Wake(r)
       \/ Send(r) \/ ClientStep(r)
  \/ SaveResult
  \/ Idle

(* The client's threads run, and a GET of theirs ends by its timeout.      *)
(* Nothing is asked of the gateway or of the server.                       *)
Spec     == Init /\ [][Next]_vars
FairSpec == Spec /\ WF_vars(SaveResult)
                 /\ \A r \in Requests : WF_vars(Send(r)) /\ WF_vars(ClientStep(r))

-----------------------------------------------------------------------------
(* Properties *)

(* What the report calls a success was computed with success: no answer    *)
(* made up by the gateway and no failed computation is among them, and     *)
(* late work only makes the report too low (client.py:55-61, 90-95,        *)
(* gateway.py:29-43).                                                      *)
SuccessesWereComputed ==
  success <= Cardinality({r \in Requests : server[r] = "success"})

(* A saved report has every request in it once and stays true: nothing the *)
(* gateway and the server still do changes what it should have said        *)
(* (client.py:68-99).                                                      *)
ReportAddsUp ==
  report # NoReport =>
    /\ report.success + report.failed = REQUEST_TIMES
    /\ report.success <= Cardinality({r \in Requests : server[r] = "success"})

(* The report comes, with every request counted once, although requests    *)
(* hang in the gateway or at the server for ever (client.py:68-99).        *)
RunEnds ==
  <>(report # NoReport /\ report.success + report.failed = REQUEST_TIMES)
=============================================================================
