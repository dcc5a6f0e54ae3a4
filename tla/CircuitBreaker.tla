---------------------------- MODULE CircuitBreaker ----------------------------
(***************************************************************************)
(* The per-(workspace, vendor) circuit breaker of the transform worker     *)
(* (ingestion-service, domain/transform/circuit_breaker.py), as operators  *)
(* on one breaker cell.  The worker that owns the cells is modelled in     *)
(* TransformGraduation; time is its abstract clock, which starts at 1, so  *)
(* that openedAt = Never (0) stands for the code's opened_at = None.       *)
(***************************************************************************)
EXTENDS Naturals

CONSTANTS
    Threshold,  \* consecutive failures that open the circuit (failure_threshold)
    Recovery    \* clock units before a probe is allowed      (recovery_seconds)

ASSUME BreakerAssumption ==
    /\ Threshold \in Nat \ {0}
    /\ Recovery \in Nat

Never == 0

\* The failure counter never passes the threshold: the cell is open by then.
Cell == [state : {"closed", "open", "half_open"}, failures : 0 .. Threshold, openedAt : Nat]

NewCell == [state |-> "closed", failures |-> 0, openedAt |-> Never]

-----------------------------------------------------------------------------
\* is_open: the answer ...
IsOpen(cell, now) == cell.state = "open" /\ now - cell.openedAt < Recovery

\* ... and the cell it leaves behind: an open cell whose recovery time has
\* elapsed becomes half open and lets the caller probe.
AfterIsOpen(cell, now) ==
    IF cell.state = "open" /\ ~IsOpen(cell, now)
    THEN [cell EXCEPT !.state = "half_open"]
    ELSE cell

Opened(cell, now) == [cell EXCEPT !.state = "open", !.openedAt = now]

\* A bug: the circuit opens one failure late.
RecordFailureLate(cell, now) ==
    LET counted == [cell EXCEPT !.failures = @ + 1]
    IN IF counted.failures > Threshold THEN Opened(counted, now) ELSE counted

\* record_failure: a failed probe opens the circuit again, uncounted.
RecordFailure(cell, now) ==
    IF cell.state = "half_open" THEN Opened(cell, now)
    ELSE LET counted == [cell EXCEPT !.failures = @ + 1]
         IN IF counted.failures >= Threshold THEN Opened(counted, now) ELSE counted

RecordSuccess(cell) == NewCell

-----------------------------------------------------------------------------
\* What every reachable cell satisfies: the state, the counter and the opening
\* time agree (an open cell has been opened, and by Threshold failures).
CellConsistent(cell) ==
    /\ (cell.state = "closed") <=> (cell.failures < Threshold)
    /\ (cell.state = "closed") <=> (cell.openedAt = Never)
=============================================================================
