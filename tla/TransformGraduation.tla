------------------------- MODULE TransformGraduation -------------------------
(***************************************************************************)
(* The transform-graduation worker of ingestion-service                    *)
(* (interfaces/consumers/transform_consumer.py with                        *)
(* application/use_cases/graduate_raw_event.py): it reads bronze rows off  *)
(* a per-stream PG cursor, upserts silver facts, routes what it cannot     *)
(* translate to the dead-letter topic, and advances the cursor.            *)
(*                                                                         *)
(* A stream is a <<tenant, event type>> pair, where a tenant stands for    *)
(* the (workspace, vendor) pair a breaker cell belongs to.  Bronze is      *)
(* append-only and duplicates of a row are normal, so it is a set.  The PG *)
(* connection is modelled in autocommit: one statement, one step.          *)
(***************************************************************************)
EXTENDS CircuitBreaker, FiniteSets

CONSTANTS
    Worker,       \* worker processes (the code takes no lock on the cursors)
    Tenant, EventType, Order,
    Tracked,      \* streams that have a row in raw_event_transform_state
    Kinds,        \* the kinds of payload the environment sends
    BatchSize,    \* LIMIT of the bronze query
    Grace,        \* PROCESSING_GRACE_SECS, in clock units
    StoreFaults,  \* may a ClickHouse or PG statement fail?
    DlqFaults,    \* may the dead-letter produce fail?
    NoFact,       \* a silver key with no row
    MaxTime, MaxEvents, MaxRestarts   \* bounds of the model

Stream == Tenant \X EventType

\* valid: a mapper returns a fact.        unmapped: no mapper, or it returns None.
\* malformed: JSON or mapper ValueError.  broken: the mapper raises anything else.
Kind == {"valid", "unmapped", "malformed", "broken"}

ASSUME TransformAssumption ==
    /\ Tracked \subseteq Stream
    /\ Kinds \subseteq Kind
    /\ BatchSize \in Nat \ {0}
    /\ Grace \in Nat
    /\ StoreFaults \in BOOLEAN /\ DlqFaults \in BOOLEAN
    /\ MaxTime \in Nat \ {0} /\ MaxEvents \in Nat /\ MaxRestarts \in Nat

Event == [stream : Stream, at : 1 .. MaxTime, kind : Kinds, order : Order]

ASSUME NoFactAssumption == NoFact \notin Event

TenantOf(e) == e.stream[1]
SilverKey(e) == <<TenantOf(e), e.order>>

VARIABLES
    now,       \* the wall clock
    bronze,    \* brain.connector_raw_events: the rows archived so far
    cursor,    \* last_processed_received_at of each stream; 0 is NULL
    silver,    \* connector_order_facts: the row each order was last written from
    trail,     \* <<row, verdict>>: the dead-letter topic, the counters, the log
    breaker,   \* worker's CircuitBreaker cells, by tenant
    pc,        \* idle (asleep), streams (between cursors), rows (inside a batch)
    snap,      \* the cursors as read at the start of the tick
    todo,      \* cursors of this tick not looked at yet
    cur,       \* the stream whose batch is in hand
    batch,     \* its rows not processed yet
    last,      \* last_advanced_ts of the batch; 0 is None
    restarts,  \* worker restarts so far
    late       \* history: the rows that landed when the grace period was over

external == <<now, bronze, late>>
tick     == <<snap, todo, cur>>
vars     == <<now, bronze, cursor, silver, trail, breaker, pc, snap, todo, cur, batch, last,
             restarts, late>>

Verdict == {"upserted", "skipped", "dlq_open", "dlq_terminal", "lost_open", "lost_terminal", "retry"}

TypeOK ==
    /\ now \in 1 .. MaxTime + Grace
    /\ bronze \subseteq Event /\ late \subseteq bronze
    /\ cursor \in [Stream -> 0 .. MaxTime]
    /\ silver \in [Tenant \X Order -> Event \cup {NoFact}]
    /\ trail \subseteq bronze \X Verdict
    /\ breaker \in [Worker -> [Tenant -> Cell]]
    /\ pc \in [Worker -> {"idle", "streams", "rows"}]
    /\ snap \in [Worker -> [Stream -> 0 .. MaxTime]]
    /\ todo \in [Worker -> SUBSET Tracked]
    /\ cur \in [Worker -> Stream]
    /\ batch \in [Worker -> SUBSET bronze]
    /\ last \in [Worker -> 0 .. MaxTime]
    /\ restarts \in 0 .. MaxRestarts

NoCursors == [s \in Stream |-> 0]

Init ==
    /\ now = 1
    /\ bronze = {} /\ late = {}
    /\ cursor = NoCursors
    /\ silver = [k \in Tenant \X Order |-> NoFact]
    /\ trail = {}
    /\ breaker = [w \in Worker |-> [t \in Tenant |-> NewCell]]
    /\ pc = [w \in Worker |-> "idle"]
    /\ snap = [w \in Worker |-> NoCursors]
    /\ todo = [w \in Worker |-> {}]
    /\ cur \in [Worker -> Stream]   \* assigned before it is read
    /\ batch = [w \in Worker |-> {}]
    /\ last = [w \in Worker |-> 0]
    /\ restarts = 0

-----------------------------------------------------------------------------
\* The environment: the clock and the raw archiver.

Clock ==
    /\ now < MaxTime + Grace
    /\ now' = now + 1
    /\ UNCHANGED <<bronze, late, cursor, silver, trail, breaker, pc, tick, batch, last, restarts>>

\* The archiver lands a row any time after the instant stamped on it when it was
\* received, which another row of the stream may share.
Archive(e) ==
    /\ Cardinality(bronze) < MaxEvents
    /\ e.at <= now
    /\ bronze' = bronze \cup {e}
    /\ late' = IF e.at + Grace <= now THEN late \cup {e} ELSE late
    /\ UNCHANGED <<now, cursor, silver, trail, breaker, pc, tick, batch, last, restarts>>

-----------------------------------------------------------------------------
\* One tick of a worker.

\* The cursor table answers the health check and is read whole.  When it does
\* not answer, the tick returns stall = 1 having changed nothing: a stutter.
BeginTick(w) ==
    /\ pc[w] = "idle"
    /\ pc' = [pc EXCEPT ![w] = "streams"]
    /\ snap' = [snap EXCEPT ![w] = cursor]
    /\ todo' = [todo EXCEPT ![w] = Tracked]
    /\ UNCHANGED <<external, cursor, silver, trail, breaker, cur, batch, last, restarts>>

\* Bugs: the bronze query forgets the grace period, or the cursor.
CandidatesNoGrace(w, s) == {e \in bronze : e.stream = s /\ e.at > snap[w][s] /\ e.at <= now}
CandidatesFromEpoch(w, s) == {e \in bronze : e.stream = s /\ e.at + Grace <= now}

\* The WHERE clause of the bronze query ...
Candidates(w, s) == {e \in bronze : e.stream = s /\ e.at > snap[w][s] /\ e.at + Grace <= now}

\* ... and its ORDER BY received_at LIMIT: rows that tie come in any order.
FirstRows(rows, b) ==
    /\ b \subseteq rows
    /\ Cardinality(b) = BatchSize \/ (Cardinality(b) < BatchSize /\ b = rows)
    /\ \A x \in b, y \in rows \ b : x.at <= y.at

\* The query returns rows: the loop over them starts.
FetchBatch(w, s) ==
    /\ pc[w] = "streams" /\ s \in todo[w]
    /\ \E b \in SUBSET Candidates(w, s) \ {{}} :
          /\ FirstRows(Candidates(w, s), b)
          /\ batch' = [batch EXCEPT ![w] = b]
    /\ pc' = [pc EXCEPT ![w] = "rows"]
    /\ todo' = [todo EXCEPT ![w] = @ \ {s}]
    /\ cur' = [cur EXCEPT ![w] = s]
    /\ UNCHANGED <<external, cursor, silver, trail, breaker, snap, last, restarts>>

\* The query returns nothing, or fails: on to the next cursor.
SkipStream(w, s) ==
    /\ pc[w] = "streams" /\ s \in todo[w]
    /\ Candidates(w, s) = {} \/ StoreFaults
    /\ todo' = [todo EXCEPT ![w] = @ \ {s}]
    /\ UNCHANGED <<external, cursor, silver, trail, breaker, pc, snap, cur, batch, last, restarts>>

\* Every cursor has been looked at: sleep until the next tick.
EndTick(w) ==
    /\ pc[w] = "streams" /\ todo[w] = {}
    /\ pc' = [pc EXCEPT ![w] = "idle"]
    /\ snap' = [snap EXCEPT ![w] = NoCursors]
    /\ UNCHANGED <<external, cursor, silver, trail, breaker, todo, cur, batch, last, restarts>>

-----------------------------------------------------------------------------
\* One row of the batch, in received_at order.

NextRow(w, e) ==
    /\ pc[w] = "rows"
    /\ e \in batch[w]
    /\ \A b \in batch[w] : e.at <= b.at

Breaker(w, e) == breaker[w][TenantOf(e)]

\* A bug: the probe state is kept for the whole worker, not per tenant.
SetBreakerForAll(w, e, cell) == breaker' = [breaker EXCEPT ![w] = [t \in Tenant |-> cell]]

SetBreaker(w, e, cell) == breaker' = [breaker EXCEPT ![w][TenantOf(e)] = cell]

Note(e, verdict) == trail' = trail \cup {<<e, verdict>>}

\* _send_to_dlq: a failed produce (or no producer) is logged and swallowed.
SendToDlq(e, sent, lost) == Note(e, sent) \/ (DlqFaults /\ Note(e, lost))

\* A bug: a decided row leaves the batch but not the cursor's way.
RowDoneInPlace(w, e) ==
    /\ batch' = [batch EXCEPT ![w] = @ \ {e}]
    /\ UNCHANGED last

\* _process_one_row returned True: the cursor will move past the row.
RowDone(w, e) ==
    /\ batch' = [batch EXCEPT ![w] = @ \ {e}]
    /\ last' = [last EXCEPT ![w] = e.at]

Unmoved == UNCHANGED <<external, cursor, pc, tick, restarts>>

\* The breaker is open: the row is routed to the dead letters untried.
CircuitOpen(w, e) ==
    /\ NextRow(w, e)
    /\ IsOpen(Breaker(w, e), now)
    /\ SendToDlq(e, "dlq_open", "lost_open")
    /\ RowDone(w, e)
    /\ UNCHANGED <<silver, breaker>> /\ Unmoved

\* The breaker lets the row through, ...
Attempt(w, e) == NextRow(w, e) /\ ~IsOpen(Breaker(w, e), now)

\* ... and this is the cell after that check.
Checked(w, e) == AfterIsOpen(Breaker(w, e), now)

\* The mapper gives a fact and the UPSERT overwrites the order's silver row.
Graduate(w, e) ==
    /\ Attempt(w, e)
    /\ e.kind = "valid"
    /\ silver' = [silver EXCEPT ![SilverKey(e)] = e]
    /\ SetBreaker(w, e, RecordSuccess(Checked(w, e)))
    /\ Note(e, "upserted")
    /\ RowDone(w, e)
    /\ Unmoved

\* No mapper for the event type: not an error.
SkipRow(w, e) ==
    /\ Attempt(w, e)
    /\ e.kind = "unmapped"
    /\ SetBreaker(w, e, RecordSuccess(Checked(w, e)))
    /\ Note(e, "skipped")
    /\ RowDone(w, e)
    /\ UNCHANGED silver /\ Unmoved

\* ValueError: terminal, to the dead letters.
Reject(w, e) ==
    /\ Attempt(w, e)
    /\ e.kind = "malformed"
    /\ SetBreaker(w, e, RecordFailure(Checked(w, e), now))
    /\ SendToDlq(e, "dlq_terminal", "lost_terminal")
    /\ RowDone(w, e)
    /\ UNCHANGED silver /\ Unmoved

\* A bug: the row that is put off moves the cursor too.
BreakOffAdvances(w, e) ==
    /\ batch' = [batch EXCEPT ![w] = {}]
    /\ last' = [last EXCEPT ![w] = e.at]

\* _process_one_row returned False: the rest of the batch waits for a later tick.
BreakOff(w, e) ==
    /\ batch' = [batch EXCEPT ![w] = {}]
    /\ UNCHANGED last

\* Any other exception: a mapper error that is no ValueError, or a PG error
\* (raised although the statement was applied, when the reply was lost).
Retry(w, e) ==
    /\ Attempt(w, e)
    /\ \/ e.kind = "broken" /\ UNCHANGED silver
       \/ e.kind = "valid" /\ StoreFaults /\ silver' \in {silver, [silver EXCEPT ![SilverKey(e)] = e]}
    /\ SetBreaker(w, e, RecordFailure(Checked(w, e), now))
    /\ Note(e, "retry")
    /\ BreakOff(w, e)
    /\ Unmoved

ProcessRow(w, e) ==
    CircuitOpen(w, e) \/ Graduate(w, e) \/ SkipRow(w, e) \/ Reject(w, e) \/ Retry(w, e)

\* The batch is over: the cursor goes to its last processed row, if any.  A
\* failed write is logged; the rows are simply processed again.
SaveCursor(w) ==
    /\ pc[w] = "rows" /\ batch[w] = {}
    /\ \/ last[w] # 0 /\ cursor' = [cursor EXCEPT ![cur[w]] = last[w]]
       \/ (last[w] = 0 \/ StoreFaults) /\ UNCHANGED cursor
    /\ pc' = [pc EXCEPT ![w] = "streams"]
    /\ last' = [last EXCEPT ![w] = 0]
    /\ UNCHANGED <<external, silver, trail, breaker, tick, batch, restarts>>

\* The process dies and is started again: everything in memory is gone.
Restart(w) ==
    /\ restarts < MaxRestarts
    /\ restarts' = restarts + 1
    /\ pc' = [pc EXCEPT ![w] = "idle"]
    /\ snap' = [snap EXCEPT ![w] = NoCursors]
    /\ todo' = [todo EXCEPT ![w] = {}]
    /\ batch' = [batch EXCEPT ![w] = {}]
    /\ last' = [last EXCEPT ![w] = 0]
    /\ breaker' = [breaker EXCEPT ![w] = [t \in Tenant |-> NewCell]]
    /\ UNCHANGED <<external, cursor, silver, trail, cur>>

TickStep(w) ==
    \/ BeginTick(w)
    \/ \E s \in Stream : FetchBatch(w, s) \/ SkipStream(w, s)
    \/ \E e \in batch[w] : ProcessRow(w, e)
    \/ SaveCursor(w)
    \/ EndTick(w)

Next ==
    \/ Clock
    \/ \E e \in Event \ bronze : Archive(e)
    \/ \E w \in Worker : TickStep(w) \/ Restart(w)

Spec == Init /\ [][Next]_vars

\* The loop of start_transform_consumer never ends, and the clock runs.  A
\* statement that is tried again and again does not fail for ever.
Fairness ==
    /\ WF_vars(Clock)
    /\ \A w \in Worker :
          /\ WF_vars(TickStep(w))
          /\ \A s \in Stream : SF_vars(FetchBatch(w, s))
          /\ SF_vars(\E e \in batch[w] : Graduate(w, e))
          /\ SF_vars(SaveCursor(w) /\ cursor' # cursor)

FairSpec == Spec /\ Fairness

-----------------------------------------------------------------------------
\* Properties.

Settled(e) == \E v \in Verdict \ {"retry"} : <<e, v>> \in trail

Ties(e, f) == e.stream = f.stream /\ e.at = f.at

\* Safety: no silent gap.  Once a stream's cursor has passed the received_at of a row
\* that landed within the grace period, the worker has decided that row (upserted,
\* skipped or dead-lettered), or one it ties with.  It relates run_transform_tick's
\* cursor write to every row of bronze, those that landed while the batch was in hand
\* included.
NoSilentGap ==
    \A e \in bronze \ late :
        e.at <= cursor[e.stream] => \E f \in bronze : Ties(e, f) /\ Settled(f)

\* Refuted, by a row that lands late, and by rows that tie where a batch ends.
NothingPassedOver == \A e \in bronze : e.at <= cursor[e.stream] => Settled(e)

\* Silver holds row e of its order, a later row of e's stream, or a row of
\* another stream (graduate_raw_event overwrites unconditionally).
ReflectedInSilver(e) ==
    LET fact == silver[SilverKey(e)]
    IN fact # NoFact /\ (fact.stream = e.stream => fact.at >= e.at)

\* Received this long ago a row is no longer too hot to be read.
Edge == IF now >= Grace THEN now - Grace ELSE 0

\* Refinement: the worker implements the ledger of GraduationLedger: a cursor write
\* stays behind the edge, and of the rows that landed ahead of it passes settled ones.
Ledger == INSTANCE GraduationLedger WITH
    Row <- Event, LastMark <- MaxTime,
    arrived <- bronze, settled <- {e \in bronze : Settled(e)}, mark <- cursor, edge <- Edge

ImplementsLedger == Ledger!Spec

DeadLettered(e) == \E v \in Verdict \ {"retry", "upserted", "skipped"} : <<e, v>> \in trail

\* Safety: silver keeps up with the cursor.  When the cursor has passed a row
\* that was upserted, never dead-lettered and ties with no other, silver reflects it,
\* although crashes and lost cursor writes replay older rows over newer ones.
SilverKeepsUp ==
    \A e \in bronze :
        /\ <<e, "upserted">> \in trail /\ ~DeadLettered(e) /\ e.at <= cursor[e.stream]
        /\ \A f \in bronze : Ties(e, f) => f = e
        => ReflectedInSilver(e)

\* Safety: noisy-neighbour isolation.  A row is dead-lettered untried only if
\* some row of its own tenant failed before, whatever other tenants send.
TenantIsolation ==
    \A e \in bronze : <<e, "dlq_open">> \in trail =>
        \E f \in bronze : /\ TenantOf(f) = TenantOf(e)
                          /\ \E v \in {"retry", "dlq_terminal", "lost_terminal"} : <<f, v>> \in trail

\* Safety: in every breaker cell the state, the failure count and the opening
\* time agree: is_open's assertion that an open cell was opened never fails.
BreakerConsistent == \A w \in Worker, t \in Tenant : CellConsistent(breaker[w][t])

\* Invariant: every state is well typed, and every breaker cell consistent.
WellFormed == TypeOK /\ BreakerConsistent

\* Action property: a cursor never moves back (with a single worker).
CursorMonotone == [][\A s \in Stream : cursor'[s] >= cursor[s]]_vars

\* Action property: silver is never rewritten from a row the cursor has passed.
NoStaleUpsert ==
    [][\A k \in Tenant \X Order : silver'[k] # silver[k] => silver'[k].at > cursor[silver'[k].stream]]_vars

\* Liveness: again and again the cursor of a tracked stream is past all its rows
\* (MaxEvents bounds the arrivals): poison rows and outages do not block it for good.
Drained == \A s \in Tracked : []<>(\A e \in bronze : e.stream = s => e.at <= cursor[s])
=============================================================================
