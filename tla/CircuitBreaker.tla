--------------------------- MODULE CircuitBreaker ---------------------------
(***************************************************************************)
(* What the gateway's breaker promises, with no word about how it keeps    *)
(* its books: over the log of all outcomes reported to it, it opens at the *)
(* first moment at which the most recent WINDOW_SIZE outcomes hold the     *)
(* threshold share of failures, and it never closes again.  Gateway.tla    *)
(* keeps a bounded deque instead of the log and is shown to implement this *)
(* module.                                                                 *)
(***************************************************************************)
EXTENDS Integers, Sequences, FiniteSets

CONSTANTS
  WINDOW_SIZE,          \* outcomes looked at
  FAIL_NUM, FAIL_DEN    \* the threshold share of failures, FAIL_NUM / FAIL_DEN

VARIABLES outcomes, open

(* The last WINDOW_SIZE entries of a log, all of it while it is shorter. *)
Recent(log) ==
  IF Len(log) <= WINDOW_SIZE
    THEN log
    ELSE SubSeq(log, Len(log) - WINDOW_SIZE + 1, Len(log))

Failures(w) == Cardinality({i \in DOMAIN w : ~w[i]})

(* A full window whose failure share reaches the threshold. *)
Trips(w) ==
  /\ Len(w) = WINDOW_SIZE
  /\ FAIL_DEN * Failures(w) >= FAIL_NUM * WINDOW_SIZE

Init == outcomes = << >> /\ open = FALSE

Record(ok) ==
  /\ ~open
  /\ outcomes' = Append(outcomes, ok)
  /\ open' = Trips(Recent(outcomes'))

Next == \E ok \in BOOLEAN : Record(ok)

Spec == Init /\ [][Next]_<<outcomes, open>>
=============================================================================
