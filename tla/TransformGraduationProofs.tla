----------------------- MODULE TransformGraduationProofs -----------------------
(***************************************************************************)
(* Theorems about TransformGraduation, for every set of workers, tenants,  *)
(* event types and orders, every batch size, threshold and bound.          *)
(***************************************************************************)
EXTENDS TransformGraduation, TLAPS

\* What type correctness rests on beyond TypeOK itself: only a worker inside a
\* batch holds rows or a last_advanced_ts.
Quiet == \A w \in Worker : pc[w] # "rows" => batch[w] = {} /\ last[w] = 0

\* record_failure and record_success keep a cell a cell.
LEMMA CellTypes ==
    ASSUME NEW cell \in Cell, NEW time \in Nat
    PROVE  /\ NewCell \in Cell
           /\ AfterIsOpen(cell, time) \in Cell
           /\ AfterIsOpen(cell, time).failures = cell.failures
           /\ AfterIsOpen(cell, time).state = "closed" <=> cell.state = "closed"
           /\ AfterIsOpen(cell, time).openedAt = cell.openedAt
           /\ ~IsOpen(cell, time) => AfterIsOpen(cell, time).state # "open"
BY BreakerAssumption DEF Cell, NewCell, Never, AfterIsOpen, IsOpen

\* record_failure on a consistent cell that is not open yields a consistent cell.
LEMMA FailureConsistent ==
    ASSUME NEW cell \in Cell, NEW time \in Nat \ {0},
           CellConsistent(cell), cell.state # "open"
    PROVE  RecordFailure(cell, time) \in Cell /\ CellConsistent(RecordFailure(cell, time))
<1> USE BreakerAssumption
<1>1. CASE cell.state = "half_open"
    <2>1. RecordFailure(cell, time) = [state |-> "open", failures |-> cell.failures, openedAt |-> time]
        BY <1>1 DEF RecordFailure, Opened, Cell
    <2>2. cell.failures \in 0 .. Threshold /\ ~(cell.failures < Threshold)
        BY <1>1 DEF Cell, CellConsistent
    <2>3. QED
        BY <2>1, <2>2 DEF Cell, CellConsistent, Never
<1>2. CASE cell.state = "closed"
    <2> DEFINE counted == [cell EXCEPT !.failures = @ + 1]
    <2>1. cell.failures < Threshold /\ cell.openedAt = Never /\ cell.failures + 1 \in 1 .. Threshold
        BY <1>2 DEF Cell, CellConsistent
    <2>2. counted \in Cell /\ counted.state = "closed" /\ counted.openedAt = Never
          /\ counted.failures = cell.failures + 1
        BY <1>2, <2>1 DEF Cell
    <2>3. CASE counted.failures >= Threshold
        <3>1. RecordFailure(cell, time)
                = [state |-> "open", failures |-> counted.failures, openedAt |-> time]
            BY <1>2, <2>2, <2>3 DEF RecordFailure, Opened, Cell
        <3>2. QED
            BY <2>1, <2>2, <2>3, <3>1 DEF Cell, CellConsistent, Never
    <2>4. CASE ~(counted.failures >= Threshold)
        <3>1. RecordFailure(cell, time) = counted
            BY <1>2, <2>4 DEF RecordFailure
        <3>2. QED
            BY <2>1, <2>2, <2>4, <3>1 DEF Cell, CellConsistent, Never
    <2>5. QED
        BY <2>3, <2>4
<1>3. QED
    BY <1>1, <1>2 DEF Cell

LEMMA NewCellConsistent == CellConsistent(NewCell)
BY BreakerAssumption DEF NewCell, Never, CellConsistent

-----------------------------------------------------------------------------
(* Type correctness.  TypeOK is not inductive: a failure counter stays      *)
(* within its type because a cell that reaches the threshold is open, and   *)
(* the worker records nothing on an open cell.                              *)

TypeInv == TypeOK /\ Quiet /\ BreakerConsistent

LEMMA EventTypes ==
    ASSUME NEW e \in Event
    PROVE  /\ e.stream \in Stream /\ TenantOf(e) \in Tenant /\ e.order \in Order
           /\ SilverKey(e) \in Tenant \X Order
           /\ e.at \in Nat /\ e.at > 0 /\ e.at <= MaxTime
BY TransformAssumption DEF Event, Stream, TenantOf, SilverKey

\* What every step on a row needs to know of the row and its breaker cell.
LEMMA RowFacts ==
    ASSUME TypeInv, NEW w \in Worker, NEW e \in batch[w]
    PROVE  /\ e \in bronze /\ e \in Event
           /\ Breaker(w, e) \in Cell /\ CellConsistent(Breaker(w, e))
           /\ now \in Nat \ {0}
           /\ TenantOf(e) \in Tenant /\ SilverKey(e) \in Tenant \X Order
           /\ e.at \in 0 .. MaxTime
<1>1. e \in bronze /\ e \in Event /\ now \in Nat \ {0}
    BY TransformAssumption DEF TypeInv, TypeOK
<1>2. QED
    BY <1>1, EventTypes, TransformAssumption DEF TypeInv, TypeOK, Breaker, BreakerConsistent

\* A row's new breaker cell is as good as the old one.
LEMMA SetBreakerTypes ==
    ASSUME TypeInv, NEW w \in Worker, NEW e \in batch[w],
           NEW cell \in Cell, CellConsistent(cell), SetBreaker(w, e, cell)
    PROVE  /\ breaker' \in [Worker -> [Tenant -> Cell]]
           /\ BreakerConsistent'
<1>1. TenantOf(e) \in Tenant /\ breaker \in [Worker -> [Tenant -> Cell]]
    BY RowFacts DEF TypeInv, TypeOK
<1>2. breaker' = [breaker EXCEPT ![w] = [breaker[w] EXCEPT ![TenantOf(e)] = cell]]
    BY <1>1 DEF SetBreaker
<1>3. [breaker[w] EXCEPT ![TenantOf(e)] = cell] \in [Tenant -> Cell]
    BY <1>1
<1>4. breaker' \in [Worker -> [Tenant -> Cell]]
    BY <1>1, <1>2, <1>3
<1>5. ASSUME NEW v \in Worker, NEW t \in Tenant
      PROVE  CellConsistent(breaker'[v][t])
    <2>1. breaker'[v][t] = IF v = w /\ t = TenantOf(e) THEN cell ELSE breaker[v][t]
        BY <1>1, <1>2, <1>3
    <2>2. QED
        BY <2>1 DEF TypeInv, BreakerConsistent
<1>6. QED
    BY <1>4, <1>5 DEF BreakerConsistent

\* record_failure or record_success after a check that let the row through.
LEMMA RecordTypes ==
    ASSUME TypeInv, NEW w \in Worker, NEW e \in batch[w], Attempt(w, e)
    PROVE  /\ RecordFailure(Checked(w, e), now) \in Cell
           /\ CellConsistent(RecordFailure(Checked(w, e), now))
           /\ RecordSuccess(Checked(w, e)) \in Cell
           /\ CellConsistent(RecordSuccess(Checked(w, e)))
<1>1. Checked(w, e) \in Cell /\ Checked(w, e).state # "open" /\ CellConsistent(Checked(w, e))
    <2> DEFINE cell == Breaker(w, e)
    <2>1. cell \in Cell /\ CellConsistent(cell) /\ now \in Nat /\ ~IsOpen(cell, now)
        BY RowFacts DEF Attempt
    <2>2. Checked(w, e) = AfterIsOpen(cell, now)
        BY DEF Checked
    <2> HIDE DEF cell
    <2>3. /\ AfterIsOpen(cell, now) \in Cell /\ AfterIsOpen(cell, now).state # "open"
          /\ AfterIsOpen(cell, now).failures = cell.failures
          /\ AfterIsOpen(cell, now).state = "closed" <=> cell.state = "closed"
          /\ AfterIsOpen(cell, now).openedAt = cell.openedAt
        BY <2>1, CellTypes
    <2>4. QED
        BY <2>1, <2>2, <2>3 DEF CellConsistent
<1>2. now \in Nat \ {0}
    BY RowFacts
<1>3. RecordFailure(Checked(w, e), now) \in Cell /\ CellConsistent(RecordFailure(Checked(w, e), now))
    BY <1>1, <1>2, FailureConsistent
<1>4. RecordSuccess(Checked(w, e)) \in Cell /\ CellConsistent(RecordSuccess(Checked(w, e)))
    BY <1>1, <1>2, NewCellConsistent, CellTypes DEF RecordSuccess
<1>5. QED
    BY <1>3, <1>4

\* A step on a row keeps the row's worker well typed, whether the row is done
\* with or the batch is broken off.
LEMMA RowStepTypes ==
    ASSUME TypeInv, NEW w \in Worker, NEW e \in batch[w], NextRow(w, e),
           RowDone(w, e) \/ BreakOff(w, e),
           Unmoved,
           trail' \subseteq trail \cup ({e} \X Verdict),
           silver' \in {silver, [silver EXCEPT ![SilverKey(e)] = e]},
           breaker' \in [Worker -> [Tenant -> Cell]], BreakerConsistent'
    PROVE  TypeInv'
<1>1. batch' \in [Worker -> SUBSET bronze] /\ last' \in [Worker -> 0 .. MaxTime]
    <2>1. e.at \in 0 .. MaxTime
        BY RowFacts
    <2>2. batch \in [Worker -> SUBSET bronze] /\ last \in [Worker -> 0 .. MaxTime]
        BY DEF TypeInv, TypeOK
    <2>3. CASE RowDone(w, e)
        <3>1. batch[w] \ {e} \in SUBSET bronze
            BY <2>2
        <3>2. QED
            BY <2>1, <2>2, <2>3, <3>1 DEF RowDone
    <2>4. CASE BreakOff(w, e)
        BY <2>2, <2>4 DEF BreakOff
    <2>5. QED
        BY <2>3, <2>4
<1>2. silver' \in [Tenant \X Order -> Event \cup {NoFact}]
    BY RowFacts DEF TypeInv, TypeOK
<1>3. trail' \subseteq bronze \X Verdict
    BY RowFacts DEF TypeInv, TypeOK
<1>4. TypeOK'
    BY <1>1, <1>2, <1>3 DEF TypeInv, TypeOK, Unmoved, external, tick
<1>5. Quiet'
    BY DEF Quiet, TypeInv, TypeOK, NextRow, RowDone, BreakOff, Unmoved, tick
<1>6. QED
    BY <1>4, <1>5 DEF TypeInv

\* The three ways a row can be done with, and the one it can be put off.
LEMMA ProcessRowTypes ==
    ASSUME TypeInv, NEW w \in Worker, NEW e \in batch[w], ProcessRow(w, e)
    PROVE  TypeInv'
<1> USE DEF SendToDlq, Note, Verdict
<1>1. CASE CircuitOpen(w, e)
    <2>1. BreakerConsistent' /\ breaker' \in [Worker -> [Tenant -> Cell]]
        BY <1>1 DEF CircuitOpen, BreakerConsistent, TypeInv, TypeOK
    <2>2. QED
        BY <1>1, <2>1, RowStepTypes DEF CircuitOpen
<1>2. CASE Graduate(w, e)
    <2>1. BreakerConsistent' /\ breaker' \in [Worker -> [Tenant -> Cell]]
        BY <1>2, RecordTypes, SetBreakerTypes DEF Graduate
    <2>2. NextRow(w, e)
        BY <1>2 DEF Graduate, Attempt
    <2>3. /\ silver' \in {silver, [silver EXCEPT ![SilverKey(e)] = e]}
          /\ trail' \subseteq trail \cup ({e} \X Verdict)
          /\ RowDone(w, e) /\ Unmoved
        BY <1>2 DEF Graduate
    <2>4. QED
        BY <2>1, <2>2, <2>3, RowStepTypes
<1>3. CASE SkipRow(w, e)
    <2>1. BreakerConsistent' /\ breaker' \in [Worker -> [Tenant -> Cell]]
        BY <1>3, RecordTypes, SetBreakerTypes DEF SkipRow
    <2>2. NextRow(w, e)
        BY <1>3 DEF SkipRow, Attempt
    <2>3. QED
        BY <1>3, <2>1, <2>2, RowStepTypes DEF SkipRow
<1>4. CASE Reject(w, e)
    <2>1. BreakerConsistent' /\ breaker' \in [Worker -> [Tenant -> Cell]]
        BY <1>4, RecordTypes, SetBreakerTypes DEF Reject
    <2>2. NextRow(w, e)
        BY <1>4 DEF Reject, Attempt
    <2>3. QED
        BY <1>4, <2>1, <2>2, RowStepTypes DEF Reject
<1>5. CASE Retry(w, e)
    <2>1. BreakerConsistent' /\ breaker' \in [Worker -> [Tenant -> Cell]]
        BY <1>5, RecordTypes, SetBreakerTypes DEF Retry
    <2>2. NextRow(w, e)
        BY <1>5 DEF Retry, Attempt
    <2>3. QED
        BY <1>5, <2>1, <2>2, RowStepTypes DEF Retry
<1>6. QED
    BY <1>1, <1>2, <1>3, <1>4, <1>5 DEF ProcessRow

LEMMA InitTypes == Init => TypeInv
<1> SUFFICES ASSUME Init PROVE TypeInv
    OBVIOUS
<1>1. NewCell \in Cell
    BY BreakerAssumption DEF Cell, NewCell, Never
<1>2. TypeOK
    BY <1>1, TransformAssumption DEF Init, TypeOK, NoCursors
<1>3. Quiet /\ BreakerConsistent
    BY NewCellConsistent DEF Init, Quiet, BreakerConsistent
<1>4. QED
    BY <1>2, <1>3 DEF TypeInv

\* A step that leaves the breakers alone keeps them consistent.
LEMMA BreakersUntouched == BreakerConsistent /\ UNCHANGED breaker => BreakerConsistent'
BY DEF BreakerConsistent

LEMMA NextTypes == TypeInv /\ [Next]_vars => TypeInv'
<1> SUFFICES ASSUME TypeInv, [Next]_vars PROVE TypeInv'
    OBVIOUS
<1> USE DEF TypeInv
<1>1. CASE Clock
    BY <1>1, BreakersUntouched, TransformAssumption DEF Clock, TypeOK, Quiet, tick
<1>2. ASSUME NEW e \in Event \ bronze, Archive(e)
      PROVE  TypeInv'
    BY <1>2, BreakersUntouched DEF Archive, TypeOK, Quiet, tick
<1>3. ASSUME NEW w \in Worker, BeginTick(w)
      PROVE  TypeInv'
    BY <1>3, BreakersUntouched DEF BeginTick, TypeOK, Quiet, external
<1>4. ASSUME NEW w \in Worker, NEW s \in Stream, FetchBatch(w, s)
      PROVE  TypeInv'
    <2>1. PICK b \in SUBSET Candidates(w, s) : batch' = [batch EXCEPT ![w] = b]
        BY <1>4 DEF FetchBatch
    <2>2. b \subseteq bronze
        BY <2>1 DEF Candidates
    <2>3. batch' \in [Worker -> SUBSET bronze]
        BY <2>1, <2>2 DEF TypeOK
    <2>4. TypeOK'
        BY <1>4, <2>3 DEF FetchBatch, TypeOK, external
    <2>5. Quiet'
        BY <1>4 DEF FetchBatch, TypeOK, Quiet
    <2>6. QED
        BY <1>4, <2>4, <2>5, BreakersUntouched DEF FetchBatch
<1>5. ASSUME NEW w \in Worker, NEW s \in Stream, SkipStream(w, s)
      PROVE  TypeInv'
    BY <1>5, BreakersUntouched DEF SkipStream, TypeOK, Quiet, external
<1>6. ASSUME NEW w \in Worker, NEW e \in batch[w], ProcessRow(w, e)
      PROVE  TypeInv'
    BY <1>6, ProcessRowTypes
<1>7. ASSUME NEW w \in Worker, SaveCursor(w)
      PROVE  TypeInv'
    <2>1. cursor' \in [Stream -> 0 .. MaxTime]
        <3>1. last[w] \in 0 .. MaxTime /\ cur[w] \in Stream
            BY DEF TypeOK
        <3>2. QED
            BY <1>7, <3>1 DEF SaveCursor, TypeOK
    <2>2. TypeOK'
        <3>1. /\ pc' \in [Worker -> {"idle", "streams", "rows"}]
              /\ last' \in [Worker -> 0 .. MaxTime]
            BY <1>7, TransformAssumption DEF SaveCursor, TypeOK
        <3>2. UNCHANGED <<now, bronze, late, silver, trail, breaker, snap, todo, cur, batch, restarts>>
            BY <1>7 DEF SaveCursor, external, tick
        <3>3. QED
            BY <2>1, <3>1, <3>2 DEF TypeOK
    <2>3. Quiet'
        BY <1>7 DEF SaveCursor, TypeOK, Quiet
    <2>4. QED
        BY <1>7, <2>2, <2>3, BreakersUntouched DEF SaveCursor
<1>8. ASSUME NEW w \in Worker, EndTick(w)
      PROVE  TypeInv'
    BY <1>8, BreakersUntouched DEF EndTick, TypeOK, Quiet, external, NoCursors
<1>9. ASSUME NEW w \in Worker, Restart(w)
      PROVE  TypeInv'
    <2>1. NewCell \in Cell
        BY BreakerAssumption DEF Cell, NewCell, Never
    <2>2. TypeOK'
        BY <1>9, <2>1, TransformAssumption DEF Restart, TypeOK, external, NoCursors
    <2>3. Quiet'
        BY <1>9 DEF Restart, TypeOK, Quiet
    <2>4. BreakerConsistent'
        BY <1>9, NewCellConsistent DEF Restart, TypeOK, BreakerConsistent
    <2>5. QED
        BY <2>2, <2>3, <2>4
<1>10. CASE UNCHANGED vars
    BY <1>10, BreakersUntouched DEF vars, TypeOK, Quiet
<1>11. QED
    BY <1>1, <1>2, <1>3, <1>4, <1>5, <1>6, <1>7, <1>8, <1>9, <1>10 DEF Next, TickStep

\* Every reachable state is well typed, and every breaker cell consistent.
THEOREM TypeCorrect == Spec => []WellFormed
<1>1. Spec => []TypeInv
    BY InitTypes, NextTypes, PTL DEF Spec
<1>2. TypeInv => WellFormed
    BY DEF TypeInv, WellFormed
<1>3. QED
    BY <1>1, <1>2, PTL

-----------------------------------------------------------------------------
(* No silent gap.  The strengthening says of every position the worker may *)
(* still write to the cursor what NoSilentGap says of the cursor: the       *)
(* snapshot, last_advanced_ts, and the rows left in the batch.              *)

\* t lies behind the hot edge: what still arrives at or below it is late.
Cold(t) == t = 0 \/ t + Grace <= now

AllCold ==
    /\ \A s \in Stream : Cold(cursor[s])
    /\ \A w \in Worker :
          /\ \A s \in Stream : Cold(snap[w][s])
          /\ Cold(last[w])
          /\ \A b \in batch[w] : Cold(b.at)

\* The row is decided, or one of the same instant is.
SettledAt(e) == \E f \in bronze : Ties(e, f) /\ Settled(f)

SettledUpTo(s, t) == \A e \in bronze \ late : e.stream = s /\ e.at <= t => SettledAt(e)

GapFree ==
    /\ \A s \in Stream : SettledUpTo(s, cursor[s])
    /\ \A w \in Worker :
          /\ \A s \in Stream : SettledUpTo(s, snap[w][s])
          /\ SettledUpTo(cur[w], last[w])

\* What is below a row of the batch and not settled is in the batch too, or ties
\* with a row of it.
BatchClosed ==
    \A w \in Worker : \A b \in batch[w] :
        /\ b.stream = cur[w]
        /\ \A e \in bronze \ late : e.stream = cur[w] /\ e.at <= b.at
                => SettledAt(e) \/ \E f \in batch[w] : f.at = e.at

GapInv == TypeInv /\ AllCold /\ GapFree /\ BatchClosed

\* What keeps the rows and their verdicts keeps them settled.
LEMMA SettledStays ==
    ASSUME bronze \subseteq bronze', trail \subseteq trail', NEW e, SettledAt(e)
    PROVE  SettledAt(e)'
BY DEF SettledAt, Settled, Ties

LEMMA InitGap == Init => GapInv
<1> SUFFICES ASSUME Init PROVE GapInv
    OBVIOUS
<1>1. TypeInv
    BY InitTypes
<1>2. GapFree /\ BatchClosed
    BY DEF Init, GapFree, SettledUpTo, BatchClosed
<1>3. AllCold
    BY DEF Init, AllCold, Cold, NoCursors
<1>4. QED
    BY <1>1, <1>2, <1>3 DEF GapInv

LEMMA AllColdRows ==
    ASSUME AllCold PROVE \A w \in Worker : \A b \in batch[w] : Cold(b.at)
BY DEF AllCold

\* A landing row is ahead of everything that is cold, or late.
LEMMA ArriveGap ==
    ASSUME GapInv, NEW e \in Event \ bronze, Archive(e)
    PROVE  AllCold' /\ GapFree' /\ BatchClosed'
<1>1. /\ bronze' = bronze \cup {e} /\ late \subseteq late' /\ (e \notin late' => ~(e.at + Grace <= now))
      /\ UNCHANGED <<now, cursor, trail, snap, cur, batch, last>>
    BY DEF Archive, tick
<1>2. e.at \in Nat /\ e.at > 0 /\ e.stream \in Stream /\ now \in Nat
    BY EventTypes, TransformAssumption DEF GapInv, TypeInv, TypeOK
<1>3. ASSUME NEW t \in Nat, Cold(t), e \notin late' PROVE ~(e.at <= t)
    BY <1>1, <1>2, <1>3, TransformAssumption DEF Cold
<1>4. AllCold'
    BY <1>1 DEF AllCold, Cold, GapInv
<1>5. \A f \in bronze : SettledAt(f) => SettledAt(f)'
    BY <1>1, SettledStays
<1>6. ASSUME NEW s \in Stream, NEW t \in Nat, Cold(t), SettledUpTo(s, t)
      PROVE  \A f \in bronze' \ late' : f.stream = s /\ f.at <= t => SettledAt(f)'
    BY <1>1, <1>3, <1>5, <1>6 DEF SettledUpTo
<1>7. GapFree'
    <2>1. /\ \A s \in Stream : cursor[s] \in Nat
          /\ \A w \in Worker : cur[w] \in Stream /\ last[w] \in Nat /\ \A s \in Stream : snap[w][s] \in Nat
        BY TransformAssumption DEF GapInv, TypeInv, TypeOK
    <2>2. QED
        BY <1>1, <1>6, <2>1 DEF GapFree, SettledUpTo, GapInv, AllCold
<1>8. BatchClosed'
    <2>1. \A w \in Worker : \A b \in batch[w] : b.at \in Nat
        BY EventTypes DEF GapInv, TypeInv, TypeOK
    <2>2. ASSUME NEW w \in Worker, NEW b \in batch[w]
          PROVE  /\ b.stream = cur[w]
                 /\ \A f \in bronze' \ late' : f.stream = cur[w] /\ f.at <= b.at
                        => SettledAt(f)' \/ \E g \in batch[w] : g.at = f.at
        <3>1. b.at \in Nat /\ Cold(b.at)
            BY <2>1, <2>2, AllColdRows DEF GapInv
        <3>2. e \notin late' => ~(e.at <= b.at)
            BY <1>3, <3>1
        <3>3. QED
            BY <1>1, <1>5, <3>2 DEF BatchClosed, GapInv
    <2>3. QED
        BY <1>1, <2>2 DEF BatchClosed
<1>9. QED
    BY <1>4, <1>7, <1>8

\* The query returns the oldest rows past the snapshot: what is older is settled.
LEMMA FetchGap ==
    ASSUME GapInv, NEW w \in Worker, NEW s \in Stream, FetchBatch(w, s)
    PROVE  AllCold' /\ GapFree' /\ BatchClosed'
<1>1. PICK b \in SUBSET Candidates(w, s) :
        /\ FirstRows(Candidates(w, s), b)
        /\ batch' = [batch EXCEPT ![w] = b]
    BY DEF FetchBatch
<1>2. /\ cur' = [cur EXCEPT ![w] = s]
      /\ UNCHANGED <<now, bronze, late, cursor, trail, snap, last>>
      /\ last[w] = 0
    BY DEF FetchBatch, external, GapInv, TypeInv, Quiet
<1>3. /\ \A v \in Worker : cur'[v] = IF v = w THEN s ELSE cur[v]
      /\ \A v \in Worker : batch'[v] = IF v = w THEN b ELSE batch[v]
    BY <1>1, <1>2 DEF GapInv, TypeInv, TypeOK
<1>4. \A e \in bronze : e.at \in Nat /\ e.at > 0 /\ (SettledAt(e)' <=> SettledAt(e))
    BY <1>2, EventTypes DEF GapInv, TypeInv, TypeOK, SettledAt, Settled, Ties
<1>5. AllCold'
    BY <1>1, <1>2, <1>3 DEF AllCold, Cold, GapInv, Candidates
<1>6. GapFree'
    BY <1>2, <1>3, <1>4 DEF GapFree, SettledUpTo, GapInv
<1>7. BatchClosed'
    <2>1. ASSUME NEW r \in b, NEW e \in bronze \ late, e.stream = s, e.at <= r.at
          PROVE  SettledAt(e) \/ \E f \in b : f.at = e.at
        <3>1. r \in bronze /\ r.at \in Nat /\ r.at + Grace <= now /\ now \in Nat /\ snap[w][s] \in Nat
            BY <1>1, <1>4, TransformAssumption DEF Candidates, GapInv, TypeInv, TypeOK
        <3>2. CASE e.at <= snap[w][s]
            BY <2>1, <3>2 DEF GapInv, GapFree, SettledUpTo
        <3>3. CASE ~(e.at <= snap[w][s]) /\ r.at # e.at
            <4>1. e \in Candidates(w, s)
                BY <1>4, <2>1, <3>1, <3>3, TransformAssumption DEF Candidates
            <4>2. QED
                BY <1>1, <1>4, <2>1, <3>1, <3>3, <4>1 DEF FirstRows
        <3>4. QED
            BY <2>1, <3>2, <3>3
    <2>2. \A r \in b : r.stream = s
        BY <1>1 DEF Candidates
    <2>3. QED
        BY <1>2, <1>3, <1>4, <2>1, <2>2 DEF BatchClosed, GapInv
<1>8. QED
    BY <1>5, <1>6, <1>7

\* A row is decided: it is the oldest of the batch, so with it everything at or
\* below its received_at is settled.
LEMMA RowDoneGap ==
    ASSUME GapInv, NEW w \in Worker, NEW e \in batch[w], NEW v \in Verdict \ {"retry"},
           NextRow(w, e), RowDone(w, e), Unmoved, trail' = trail \cup {<<e, v>>}
    PROVE  AllCold' /\ GapFree' /\ BatchClosed'
<1>1. /\ UNCHANGED <<now, bronze, late, cursor, pc, snap, cur>>
      /\ e \in bronze /\ e.at \in Nat /\ e.stream = cur[w]
    BY EventTypes DEF Unmoved, external, tick, GapInv, TypeInv, TypeOK, BatchClosed
<1>2. /\ \A x \in Worker : batch'[x] = IF x = w THEN batch[w] \ {e} ELSE batch[x]
      /\ \A x \in Worker : last'[x] = IF x = w THEN e.at ELSE last[x]
    BY DEF RowDone, GapInv, TypeInv, TypeOK
<1>3. Settled(e)' /\ \A f \in bronze : SettledAt(f) => SettledAt(f)'
    BY <1>1, SettledStays DEF Settled
<1>4. \A f \in bronze : f.at \in Nat
    BY EventTypes DEF GapInv, TypeInv, TypeOK
<1>5. AllCold'
    BY <1>1, <1>2 DEF AllCold, Cold, GapInv
<1>6. ASSUME NEW f \in bronze, f.stream = e.stream, f.at = e.at
      PROVE  SettledAt(f)'
    BY <1>1, <1>3, <1>6 DEF SettledAt, Ties
<1>7. ASSUME NEW f \in bronze \ late, f.stream = cur[w], f.at <= e.at
      PROVE  SettledAt(f)'
    <2>1. SettledAt(f) \/ \E g \in batch[w] : g.at = f.at
        BY <1>7 DEF BatchClosed, GapInv
    <2>2. ASSUME NEW g \in batch[w], g.at = f.at PROVE SettledAt(f)'
        <3>1. e.at <= g.at
            BY DEF NextRow
        <3>2. f.at = e.at
            BY <1>1, <1>4, <1>7, <2>2, <3>1
        <3>3. QED
            BY <1>1, <1>6, <1>7, <3>2
    <2>3. QED
        BY <1>3, <2>1, <2>2
<1>8. GapFree'
    BY <1>1, <1>2, <1>3, <1>7 DEF GapFree, SettledUpTo, GapInv
<1>9. BatchClosed'
    <2>1. ASSUME NEW x \in Worker, NEW b \in batch'[x]
          PROVE  /\ b.stream = cur[x]
                 /\ \A f \in bronze \ late : f.stream = cur[x] /\ f.at <= b.at
                        => SettledAt(f)' \/ \E g \in batch'[x] : g.at = f.at
        <3>1. b \in batch[x]
            BY <1>2, <2>1
        <3>2. \A g \in batch[x] : g = e \/ g \in batch'[x]
            BY <1>2
        <3>3. ASSUME NEW f \in bronze \ late, f.stream = cur[x], NEW g \in batch[x], g.at = f.at
              PROVE  SettledAt(f)' \/ \E h \in batch'[x] : h.at = f.at
            <4>1. g.stream = cur[x]
                BY DEF BatchClosed, GapInv
            <4>2. QED
                BY <1>6, <3>2, <3>3, <4>1
        <3>4. QED
            BY <1>3, <3>1, <3>3 DEF BatchClosed, GapInv
    <2>2. QED
        BY <1>1, <2>1 DEF BatchClosed
<1>10. QED
    BY <1>5, <1>8, <1>9

\* A row is put off: the batch is dropped and last_advanced_ts stays.
LEMMA BreakOffGap ==
    ASSUME GapInv, NEW w \in Worker, NEW e \in batch[w],
           BreakOff(w, e), Unmoved, Note(e, "retry")
    PROVE  AllCold' /\ GapFree' /\ BatchClosed'
<1>1. UNCHANGED <<now, bronze, late, cursor, pc, snap, cur, last>>
    BY DEF Unmoved, external, tick, BreakOff
<1>2. \A x \in Worker : batch'[x] = IF x = w THEN {} ELSE batch[x]
    BY DEF BreakOff, GapInv, TypeInv, TypeOK
<1>3. \A f \in bronze : SettledAt(f) => SettledAt(f)'
    BY <1>1, SettledStays DEF Note
<1>4. AllCold'
    BY <1>1, <1>2 DEF AllCold, Cold, GapInv
<1>5. GapFree' /\ BatchClosed'
    BY <1>1, <1>2, <1>3 DEF GapFree, SettledUpTo, BatchClosed, GapInv
<1>6. QED
    BY <1>4, <1>5

LEMMA ProcessRowGap ==
    ASSUME GapInv, NEW w \in Worker, NEW e \in batch[w], ProcessRow(w, e)
    PROVE  AllCold' /\ GapFree' /\ BatchClosed'
<1>1. CASE Retry(w, e)
    BY <1>1, BreakOffGap DEF Retry
<1>2. CASE ~Retry(w, e)
    <2>1. NextRow(w, e) /\ RowDone(w, e) /\ Unmoved
        BY <1>2 DEF ProcessRow, CircuitOpen, Graduate, SkipRow, Reject, Attempt
    <2>2. PICK v \in Verdict \ {"retry"} : trail' = trail \cup {<<e, v>>}
        BY <1>2 DEF ProcessRow, CircuitOpen, Graduate, SkipRow, Reject, SendToDlq, Note, Verdict
    <2>3. QED
        BY <2>1, <2>2, RowDoneGap
<1>3. QED
    BY <1>1, <1>2

\* The clock moves on: what was behind the hot edge stays behind it.
LEMMA ClockGap ==
    ASSUME GapInv, Clock
    PROVE  AllCold' /\ GapFree' /\ BatchClosed'
<1>1. /\ now \in Nat /\ now' = now + 1
      /\ UNCHANGED <<bronze, late, cursor, trail, snap, cur, batch, last>>
    BY TransformAssumption DEF Clock, tick, GapInv, TypeInv, TypeOK
<1>2. /\ \A s \in Stream : cursor[s] \in Nat
      /\ \A w \in Worker : last[w] \in Nat /\ \A s \in Stream : snap[w][s] \in Nat
      /\ \A w \in Worker : \A b \in batch[w] : b.at \in Nat
    BY EventTypes, TransformAssumption DEF GapInv, TypeInv, TypeOK
<1>3. ASSUME NEW t \in Nat, Cold(t) PROVE t = 0 \/ t + Grace <= now'
    BY <1>1, <1>3, TransformAssumption DEF Cold
<1>4. AllCold'
    <2>1. \A s \in Stream : cursor[s] = 0 \/ cursor[s] + Grace <= now'
        BY <1>2, <1>3 DEF GapInv, AllCold
    <2>2. \A w \in Worker :
            /\ last[w] = 0 \/ last[w] + Grace <= now'
            /\ \A s \in Stream : snap[w][s] = 0 \/ snap[w][s] + Grace <= now'
        BY <1>2, <1>3 DEF GapInv, AllCold
    <2>3. \A w \in Worker : \A b \in batch[w] : b.at = 0 \/ b.at + Grace <= now'
        BY <1>2, <1>3, AllColdRows DEF GapInv
    <2>4. QED
        BY <1>1, <2>1, <2>2, <2>3 DEF AllCold, Cold
<1>5. \A f \in bronze : SettledAt(f) => SettledAt(f)'
    BY <1>1, SettledStays
<1>6. GapFree' /\ BatchClosed'
    BY <1>1, <1>5 DEF GapFree, SettledUpTo, BatchClosed, GapInv
<1>7. QED
    BY <1>4, <1>6

LEMMA SaveCursorGap ==
    ASSUME GapInv, NEW w \in Worker, SaveCursor(w)
    PROVE  AllCold' /\ GapFree' /\ BatchClosed'
<1>1. /\ UNCHANGED <<now, bronze, late, trail, snap, cur, batch>>
      /\ \A x \in Worker : last'[x] = IF x = w THEN 0 ELSE last[x]
      /\ \A s \in Stream : cursor'[s] = cursor[s] \/ (s = cur[w] /\ cursor'[s] = last[w])
    BY DEF SaveCursor, external, tick, GapInv, TypeInv, TypeOK
<1>2. \A f \in bronze : SettledAt(f) => SettledAt(f)'
    BY <1>1, SettledStays
<1>3. AllCold' /\ BatchClosed'
    BY <1>1, <1>2 DEF AllCold, Cold, BatchClosed, GapInv
<1>4. \A s \in Stream : SettledUpTo(s, 0)
    BY EventTypes DEF GapInv, TypeInv, TypeOK, SettledUpTo
<1>5. GapFree'
    <2>1. \A s \in Stream : SettledUpTo(s, cursor'[s])
        BY <1>1 DEF GapFree, GapInv
    <2>2. \A x \in Worker : SettledUpTo(cur[x], last'[x])
        BY <1>1, <1>4 DEF GapFree, GapInv, TypeInv, TypeOK
    <2>3. QED
        BY <1>1, <1>2, <2>1, <2>2 DEF GapFree, SettledUpTo, GapInv
<1>6. QED
    BY <1>3, <1>5

\* What only reads the cursors, or forgets what it had in memory.
LEMMA MemoryGap ==
    ASSUME GapInv, UNCHANGED <<now, bronze, late, cursor, trail, cur>>,
           \A x \in Worker : \A s \in Stream : snap'[x][s] \in {0, snap[x][s], cursor[s]},
           \A x \in Worker : last'[x] \in {0, last[x]},
           \A x \in Worker : batch'[x] \in {{}, batch[x]}
    PROVE  AllCold' /\ GapFree' /\ BatchClosed'
<1>1. \A f \in bronze : SettledAt(f) => SettledAt(f)'
    BY SettledStays
<1>2. AllCold' /\ BatchClosed'
    BY <1>1 DEF AllCold, Cold, BatchClosed, GapInv
<1>3. \A s \in Stream : SettledUpTo(s, 0)
    BY EventTypes DEF GapInv, TypeInv, TypeOK, SettledUpTo
<1>4. GapFree'
    <2>1. \A x \in Worker, s \in Stream : SettledUpTo(s, snap'[x][s])
        BY <1>3 DEF GapFree, GapInv
    <2>2. \A x \in Worker : SettledUpTo(cur[x], last'[x])
        BY <1>3 DEF GapFree, GapInv, TypeInv, TypeOK
    <2>3. QED
        BY <1>1, <2>1, <2>2 DEF GapFree, SettledUpTo, GapInv
<1>5. QED
    BY <1>2, <1>4

LEMMA NextGap == ASSUME GapInv, [Next]_vars PROVE GapInv'
<1>1. TypeInv'
    BY NextTypes DEF GapInv
<1> SUFFICES AllCold' /\ GapFree' /\ BatchClosed'
    BY <1>1 DEF GapInv
<1>2. CASE Clock
    BY <1>2, ClockGap
<1>3. ASSUME NEW e \in Event \ bronze, Archive(e) PROVE AllCold' /\ GapFree' /\ BatchClosed'
    BY <1>3, ArriveGap
<1>4. ASSUME NEW w \in Worker, BeginTick(w) PROVE AllCold' /\ GapFree' /\ BatchClosed'
    <2>1. \A x \in Worker : snap'[x] = IF x = w THEN cursor ELSE snap[x]
        BY <1>4 DEF BeginTick, GapInv, TypeInv, TypeOK
    <2>2. UNCHANGED <<now, bronze, late, cursor, trail, cur, batch, last>>
        BY <1>4 DEF BeginTick, external
    <2>3. QED
        BY <2>1, <2>2, MemoryGap
<1>5. ASSUME NEW w \in Worker, NEW s \in Stream, FetchBatch(w, s)
      PROVE  AllCold' /\ GapFree' /\ BatchClosed'
    BY <1>5, FetchGap
<1>6. ASSUME NEW w \in Worker, NEW s \in Stream, SkipStream(w, s)
      PROVE  AllCold' /\ GapFree' /\ BatchClosed'
    <2>1. UNCHANGED <<now, bronze, late, cursor, trail, cur, snap, batch, last>>
        BY <1>6 DEF SkipStream, external
    <2>2. QED
        BY <2>1, MemoryGap
<1>7. ASSUME NEW w \in Worker, NEW e \in batch[w], ProcessRow(w, e)
      PROVE  AllCold' /\ GapFree' /\ BatchClosed'
    BY <1>7, ProcessRowGap
<1>8. ASSUME NEW w \in Worker, SaveCursor(w) PROVE AllCold' /\ GapFree' /\ BatchClosed'
    BY <1>8, SaveCursorGap
<1>9. ASSUME NEW w \in Worker, EndTick(w) PROVE AllCold' /\ GapFree' /\ BatchClosed'
    <2>1. \A x \in Worker : snap'[x] = IF x = w THEN NoCursors ELSE snap[x]
        BY <1>9 DEF EndTick, GapInv, TypeInv, TypeOK
    <2>2. UNCHANGED <<now, bronze, late, cursor, trail, cur, batch, last>>
        BY <1>9 DEF EndTick, external
    <2>3. QED
        BY <2>1, <2>2, MemoryGap DEF NoCursors
<1>10. ASSUME NEW w \in Worker, Restart(w) PROVE AllCold' /\ GapFree' /\ BatchClosed'
    <2>1. /\ \A x \in Worker : snap'[x] = IF x = w THEN NoCursors ELSE snap[x]
          /\ \A x \in Worker : last'[x] = IF x = w THEN 0 ELSE last[x]
          /\ \A x \in Worker : batch'[x] = IF x = w THEN {} ELSE batch[x]
        BY <1>10 DEF Restart, GapInv, TypeInv, TypeOK
    <2>2. UNCHANGED <<now, bronze, late, cursor, trail, cur>>
        BY <1>10 DEF Restart, external
    <2>3. QED
        BY <2>1, <2>2, MemoryGap DEF NoCursors
<1>11. CASE UNCHANGED vars
    <2>1. UNCHANGED <<now, bronze, late, cursor, trail, cur, snap, batch, last>>
        BY <1>11 DEF vars, tick
    <2>2. QED
        BY <2>1, MemoryGap
<1>12. QED
    BY <1>2, <1>3, <1>4, <1>5, <1>6, <1>7, <1>8, <1>9, <1>10, <1>11 DEF Next, TickStep

\* Of the rows that land within the grace period no cursor ever passes one unless it,
\* or a row of the same instant, was decided, for any number of workers, crashes, lost
\* cursor writes and store failures, and however late other rows are.
THEOREM NoGap == Spec => []NoSilentGap
<1>1. Init => GapInv
    BY InitGap
<1>2. GapInv /\ [Next]_vars => GapInv'
    BY NextGap
<1>3. GapInv => NoSilentGap
    BY EventTypes DEF GapInv, TypeInv, TypeOK, GapFree, SettledUpTo, SettledAt, NoSilentGap
<1>4. QED
    BY <1>1, <1>2, <1>3, PTL DEF Spec
-----------------------------------------------------------------------------
(* Refinement.  The worker implements the ledger: the clock is Advance,    *)
(* archiving is Arrive, deciding a row is Settle, saving the cursor is      *)
(* MoveMark, and every other step is invisible.                             *)

Decided == {e \in bronze : Settled(e)}

\* The edge starts moving when the clock is past the grace period.
LEMMA ClockLedger ==
    ASSUME GapInv, Clock
    PROVE  Ledger!Advance \/ UNCHANGED Ledger!ledger
<1>1. /\ now \in Nat /\ Grace \in Nat /\ now' = now + 1
      /\ UNCHANGED <<bronze, late, cursor, trail>>
    BY TransformAssumption DEF Clock, GapInv, TypeInv, TypeOK
<1>2. Edge' = Edge + 1 \/ Edge' = Edge
    BY <1>1 DEF Edge
<1>3. Decided' = Decided
    BY <1>1 DEF Decided, Settled
<1>4. QED
    BY <1>1, <1>2, <1>3 DEF Ledger!Advance, Ledger!ledger, Decided

\* A row that has just landed has no verdict yet, and is late when it is behind the edge.
LEMMA ArriveLedger ==
    ASSUME GapInv, NEW e \in Event \ bronze, Archive(e)
    PROVE  Ledger!Arrive(e)
<1>1. /\ bronze' = bronze \cup {e} /\ UNCHANGED <<now, cursor, trail>>
      /\ late' = IF e.at + Grace <= now THEN late \cup {e} ELSE late
    BY DEF Archive
<1>2. e.at \in Nat /\ e.at > 0 /\ now \in Nat /\ Grace \in Nat
    BY EventTypes, TransformAssumption DEF GapInv, TypeInv, TypeOK
<1>3. late' = IF e.at <= Edge THEN late \cup {e} ELSE late
    BY <1>1, <1>2 DEF Edge
<1>4. ~Settled(e)
    BY DEF Settled, GapInv, TypeInv, TypeOK
<1>5. Decided' = Decided /\ Edge' = Edge
    BY <1>1, <1>4 DEF Decided, Settled, Edge
<1>6. QED
    BY <1>1, <1>3, <1>5 DEF Ledger!Arrive, Decided

\* A verdict other than retry settles its row; a retry is a stutter.
LEMMA ProcessRowLedger ==
    ASSUME GapInv, NEW w \in Worker, NEW e \in batch[w], ProcessRow(w, e)
    PROVE  Ledger!Settle(e) \/ UNCHANGED Ledger!ledger
<1>1. e \in bronze /\ UNCHANGED <<bronze, late, cursor, Edge>>
    BY DEF ProcessRow, CircuitOpen, Graduate, SkipRow, Reject, Retry, Unmoved, external, Edge,
           GapInv, TypeInv, TypeOK
<1>2. PICK v \in Verdict : trail' = trail \cup {<<e, v>>}
    BY DEF ProcessRow, CircuitOpen, Graduate, SkipRow, Reject, Retry, SendToDlq, Note, Verdict
<1>3. CASE v = "retry"
    <2>1. Decided' = Decided
        BY <1>1, <1>2, <1>3 DEF Decided, Settled
    <2>2. QED
        BY <1>1, <2>1 DEF Ledger!ledger, Decided
<1>4. CASE v # "retry"
    <2>1. Decided' = Decided \cup {e}
        BY <1>1, <1>2, <1>4 DEF Decided, Settled
    <2>2. QED
        BY <1>1, <2>1 DEF Ledger!Settle, Decided
<1>5. QED
    BY <1>3, <1>4

LEMMA SaveCursorLedger ==
    ASSUME GapInv, NEW w \in Worker, SaveCursor(w)
    PROVE  Ledger!MoveMark(cur[w], last[w]) \/ UNCHANGED Ledger!ledger
<1>1. UNCHANGED <<bronze, late, trail, Edge>> /\ Decided' = Decided
    BY DEF SaveCursor, external, Decided, Settled, Edge
<1>2. CASE UNCHANGED cursor
    BY <1>1, <1>2 DEF Ledger!ledger, Decided
<1>3. CASE cursor' = [cursor EXCEPT ![cur[w]] = last[w]]
    <2>1. last[w] <= Edge
        <3>1. now \in Nat /\ Grace \in Nat /\ last[w] \in Nat /\ Cold(last[w])
            BY TransformAssumption DEF GapInv, TypeInv, TypeOK, AllCold
        <3>2. QED
            BY <3>1 DEF Cold, Edge
    <2>2. \A r \in bronze \ late : r.stream = cur[w] /\ r.at <= last[w]
            => \E q \in Decided : q.stream = cur[w] /\ q.at = r.at
        BY DEF GapInv, GapFree, SettledUpTo, SettledAt, Ties, Decided
    <2>3. QED
        BY <1>1, <1>3, <2>1, <2>2 DEF Ledger!MoveMark, Decided
<1>4. QED
    BY <1>2, <1>3 DEF SaveCursor

LEMMA NextLedger ==
    ASSUME GapInv, [Next]_vars
    PROVE  [Ledger!Next]_(Ledger!ledger)
<1>1. ASSUME UNCHANGED <<external, cursor, trail>> PROVE UNCHANGED Ledger!ledger
    BY <1>1 DEF external, Edge, Ledger!ledger, Settled
<1>2. CASE Clock
    BY <1>2, ClockLedger DEF Ledger!Next
<1>3. ASSUME NEW e \in Event \ bronze, Archive(e) PROVE Ledger!Next
    BY <1>3, ArriveLedger DEF Ledger!Next
<1>4. ASSUME NEW w \in Worker, BeginTick(w) \/ EndTick(w) \/ Restart(w) PROVE UNCHANGED Ledger!ledger
    BY <1>1, <1>4 DEF BeginTick, EndTick, Restart
<1>5. ASSUME NEW w \in Worker, NEW s \in Stream, FetchBatch(w, s) \/ SkipStream(w, s)
      PROVE  UNCHANGED Ledger!ledger
    BY <1>1, <1>5 DEF FetchBatch, SkipStream
<1>6. ASSUME NEW w \in Worker, NEW e \in batch[w], ProcessRow(w, e) PROVE [Ledger!Next]_(Ledger!ledger)
    <2>1. e \in Event
        BY DEF GapInv, TypeInv, TypeOK
    <2>2. QED
        BY <1>6, <2>1, ProcessRowLedger DEF Ledger!Next
<1>7. ASSUME NEW w \in Worker, SaveCursor(w) PROVE [Ledger!Next]_(Ledger!ledger)
    <2>1. cur[w] \in Stream /\ last[w] \in 0 .. MaxTime
        BY DEF GapInv, TypeInv, TypeOK
    <2>2. QED
        BY <1>7, <2>1, SaveCursorLedger DEF Ledger!Next
<1>8. CASE UNCHANGED vars
    BY <1>1, <1>8 DEF vars, external
<1>9. QED
    BY <1>2, <1>3, <1>4, <1>5, <1>6, <1>7, <1>8 DEF Next, TickStep

\* Every behaviour of the workers is one of the ledger: the mark stays behind the edge,
\* and of the rows that landed ahead of the edge it passes none that is not settled,
\* nor a row of the same instant, whatever ties, is late, crashes or is lost.
THEOREM Refinement == Spec => ImplementsLedger
<1>1. Init => Ledger!Init
    BY TransformAssumption DEF Init, Ledger!Init, NoCursors, Settled, Edge
<1>2. Init => GapInv
    BY InitGap
<1>3. GapInv /\ [Next]_vars => GapInv'
    BY NextGap
<1>4. GapInv /\ [Next]_vars => [Ledger!Next]_(Ledger!ledger)
    BY NextLedger
<1>5. QED
    BY <1>1, <1>2, <1>3, <1>4, PTL DEF Spec, ImplementsLedger, Ledger!Spec
-----------------------------------------------------------------------------
(* Tenant isolation.  A cell counts failures only of its own tenant's rows, *)
(* and an open cell has counted some.                                       *)

FailedVerdict == {"retry", "dlq_terminal", "lost_terminal"}

HasFailed(t) == \E f \in bronze : TenantOf(f) = t /\ \E v \in FailedVerdict : <<f, v>> \in trail

CountsOwnFailures == \A w \in Worker, t \in Tenant : breaker[w][t].failures > 0 => HasFailed(t)

IsolationInv == TypeInv /\ CountsOwnFailures /\ TenantIsolation

\* What has failed has failed for good, and steps that touch no breaker and
\* decide no row keep the isolation.
LEMMA IsolationKept ==
    ASSUME IsolationInv, bronze \subseteq bronze', trail' = trail,
           \A w \in Worker, t \in Tenant : breaker'[w][t] \in {NewCell, breaker[w][t]}
    PROVE  CountsOwnFailures' /\ TenantIsolation'
<1>1. CountsOwnFailures'
    BY DEF IsolationInv, CountsOwnFailures, HasFailed, NewCell
<1>2. TenantIsolation'
    <2>1. ASSUME NEW e \in bronze', <<e, "dlq_open">> \in trail'
          PROVE  \E f \in bronze' : /\ TenantOf(f) = TenantOf(e)
                                    /\ \E v \in FailedVerdict : <<f, v>> \in trail'
        BY <2>1 DEF IsolationInv, TenantIsolation, TypeInv, TypeOK, FailedVerdict
    <2>2. QED
        BY <2>1 DEF TenantIsolation, FailedVerdict
<1>3. QED
    BY <1>1, <1>2

LEMMA RowIsolation ==
    ASSUME IsolationInv, NEW w \in Worker, NEW e \in batch[w], ProcessRow(w, e)
    PROVE  CountsOwnFailures' /\ TenantIsolation'
<1>1. /\ e \in bronze /\ bronze' = bronze /\ TenantOf(e) \in Tenant
    BY EventTypes DEF ProcessRow, CircuitOpen, Graduate, SkipRow, Reject, Retry, Unmoved, external,
           IsolationInv, TypeInv, TypeOK, TenantOf, Stream
<1>2. PICK v \in Verdict : trail' = trail \cup {<<e, v>>}
    BY DEF ProcessRow, CircuitOpen, Graduate, SkipRow, Reject, Retry, SendToDlq, Note, Verdict
<1>3. \A t \in Tenant : HasFailed(t) => HasFailed(t)'
    BY <1>1, <1>2 DEF HasFailed
<1>4. CountsOwnFailures'
    <2>1. ASSUME UNCHANGED breaker PROVE CountsOwnFailures'
        BY <1>3, <2>1 DEF CountsOwnFailures, IsolationInv
    <2>2. ASSUME NEW c, SetBreaker(w, e, c), c = NewCell \/ HasFailed(TenantOf(e))' PROVE CountsOwnFailures'
        <3>1. \A x \in Worker, t \in Tenant :
                breaker'[x][t] = IF x = w /\ t = TenantOf(e) THEN c ELSE breaker[x][t]
            BY <1>1, <2>2 DEF SetBreaker, IsolationInv, TypeInv, TypeOK
        <3>2. NewCell.failures = 0
            BY DEF NewCell
        <3>3. QED
            BY <1>3, <2>2, <3>1, <3>2 DEF CountsOwnFailures, IsolationInv
    <2>3. CASE CircuitOpen(w, e)
        BY <2>1, <2>3 DEF CircuitOpen
    <2>4. CASE Graduate(w, e) \/ SkipRow(w, e)
        BY <2>2, <2>4 DEF Graduate, SkipRow, RecordSuccess
    <2>5. CASE Reject(w, e) \/ Retry(w, e)
        <3>1. HasFailed(TenantOf(e))'
            BY <1>1, <2>5 DEF Reject, Retry, SendToDlq, Note, HasFailed, FailedVerdict
        <3>2. QED
            BY <2>2, <2>5, <3>1 DEF Reject, Retry
    <2>6. QED
        BY <2>3, <2>4, <2>5 DEF ProcessRow
<1>5. v = "dlq_open" => HasFailed(TenantOf(e))
    <2>1. ASSUME v = "dlq_open", <<e, v>> \notin trail PROVE IsOpen(Breaker(w, e), now)
        BY <1>2, <2>1 DEF ProcessRow, CircuitOpen, Graduate, SkipRow, Reject, Retry, SendToDlq, Note
    <2>2. ASSUME IsOpen(Breaker(w, e), now) PROVE breaker[w][TenantOf(e)].failures > 0
        BY <1>1, <2>2, BreakerAssumption DEF IsOpen, Breaker, IsolationInv, TypeInv, TypeOK, Cell,
               BreakerConsistent, CellConsistent
    <2>3. CASE <<e, v>> \in trail
        BY <1>1, <2>3 DEF IsolationInv, TenantIsolation, HasFailed, FailedVerdict
    <2>4. CASE <<e, v>> \notin trail
        BY <1>1, <2>1, <2>2, <2>4 DEF IsolationInv, CountsOwnFailures
    <2>5. QED
        BY <2>3, <2>4
<1>6. TenantIsolation'
    <2>1. ASSUME NEW r \in bronze, <<r, "dlq_open">> \in trail' PROVE HasFailed(TenantOf(r))
        BY <1>2, <1>5, <2>1 DEF IsolationInv, TenantIsolation, HasFailed, FailedVerdict
    <2>2. QED
        BY <1>1, <1>2, <2>1 DEF TenantIsolation, HasFailed, FailedVerdict
<1>7. QED
    BY <1>4, <1>6

LEMMA NextIsolation == ASSUME IsolationInv, [Next]_vars PROVE IsolationInv'
<1>1. TypeInv'
    BY NextTypes DEF IsolationInv
<1>2. ASSUME NEW w \in Worker, NEW e \in batch[w], ProcessRow(w, e)
      PROVE  CountsOwnFailures' /\ TenantIsolation'
    BY <1>2, RowIsolation
<1>3. ASSUME bronze \subseteq bronze', UNCHANGED <<trail, breaker>>
      PROVE  CountsOwnFailures' /\ TenantIsolation'
    BY <1>3, IsolationKept
<1>4. ASSUME NEW w \in Worker, Restart(w) PROVE CountsOwnFailures' /\ TenantIsolation'
    BY <1>4, IsolationKept DEF Restart, external, IsolationInv, TypeInv, TypeOK
<1>5. ASSUME Clock \/ UNCHANGED vars PROVE CountsOwnFailures' /\ TenantIsolation'
    BY <1>3, <1>5 DEF Clock, vars
<1>6. ASSUME NEW e \in Event \ bronze, Archive(e) PROVE CountsOwnFailures' /\ TenantIsolation'
    BY <1>3, <1>6 DEF Archive
<1>7. ASSUME NEW w \in Worker, BeginTick(w) \/ SaveCursor(w) \/ EndTick(w)
      PROVE  CountsOwnFailures' /\ TenantIsolation'
    BY <1>3, <1>7 DEF BeginTick, SaveCursor, EndTick, external
<1>8. ASSUME NEW w \in Worker, NEW s \in Stream, FetchBatch(w, s) \/ SkipStream(w, s)
      PROVE  CountsOwnFailures' /\ TenantIsolation'
    BY <1>3, <1>8 DEF FetchBatch, SkipStream, external
<1>9. CountsOwnFailures' /\ TenantIsolation'
    BY <1>2, <1>4, <1>5, <1>6, <1>7, <1>8 DEF Next, TickStep
<1>10. QED
    BY <1>1, <1>9 DEF IsolationInv

\* A tenant's rows are dead-lettered untried only after rows of its own failed,
\* for any number of tenants sharing any number of workers.
THEOREM Isolated == Spec => []TenantIsolation
<1>1. Init => IsolationInv
    BY InitTypes DEF Init, IsolationInv, CountsOwnFailures, TenantIsolation, NewCell
<1>2. IsolationInv /\ [Next]_vars => IsolationInv'
    BY NextIsolation
<1>3. IsolationInv => TenantIsolation
    BY DEF IsolationInv
<1>4. QED
    BY <1>1, <1>2, <1>3, PTL DEF Spec
-----------------------------------------------------------------------------
(* One worker.  Its snapshot of a cursor is the cursor until it has looked   *)
(* at the stream, and what it has in hand lies beyond: a cursor never moves  *)
(* back, and silver is not written again from a row the cursor has passed.   *)

\* The deployment the code assumes: nothing locks the cursors.
Solo == \A v, w \in Worker : v = w

FenceAt(w) ==
    /\ \A s \in todo[w] : snap[w][s] = cursor[s]
    /\ pc[w] = "rows" => cur[w] \notin todo[w]
    /\ \A b \in batch[w] : b.stream = cur[w] /\ b.at > cursor[cur[w]]
    /\ last[w] # 0 => last[w] > cursor[cur[w]]

Fence == \A w \in Worker : FenceAt(w)

LEMMA RowFence ==
    ASSUME TypeInv, Fence, NEW w \in Worker, NEW e \in batch[w], ProcessRow(w, e), NEW v \in Worker
    PROVE  FenceAt(v)'
<1>1. UNCHANGED <<cursor, pc, snap, todo, cur>>
    BY DEF ProcessRow, CircuitOpen, Graduate, SkipRow, Reject, Retry, Unmoved, tick
<1>2. /\ batch'[v] \subseteq batch[v]
      /\ last'[v] = last[v] \/ (v = w /\ last'[v] = e.at)
    BY DEF ProcessRow, CircuitOpen, Graduate, SkipRow, Reject, Retry, RowDone, BreakOff, TypeInv, TypeOK
<1>3. QED
    BY <1>1, <1>2 DEF Fence, FenceAt

LEMMA NextFence == ASSUME Solo, TypeInv, Fence, [Next]_vars PROVE Fence'
<1> SUFFICES ASSUME NEW v \in Worker PROVE FenceAt(v)'
    BY DEF Fence
<1>0. FenceAt(v)
    BY DEF Fence
<1>1. CASE Clock \/ UNCHANGED vars
    BY <1>0, <1>1 DEF Clock, vars, tick, FenceAt
<1>2. ASSUME NEW e \in Event \ bronze, Archive(e) PROVE FenceAt(v)'
    BY <1>0, <1>2 DEF Archive, tick, FenceAt
<1>3. ASSUME NEW w \in Worker, BeginTick(w) PROVE FenceAt(v)'
    <2>1. v = w /\ batch[v] = {} /\ last[v] = 0
        BY <1>3 DEF Solo, BeginTick, TypeInv, Quiet
    <2>2. snap'[v] = cursor /\ pc'[v] = "streams" /\ UNCHANGED <<cursor, cur, batch, last>>
        BY <1>3, <2>1 DEF BeginTick, TypeInv, TypeOK
    <2>3. QED
        BY <2>1, <2>2 DEF FenceAt
<1>4. ASSUME NEW w \in Worker, NEW s \in Stream, FetchBatch(w, s) PROVE FenceAt(v)'
    <2>1. PICK b \in SUBSET Candidates(w, s) : batch' = [batch EXCEPT ![w] = b]
        BY <1>4 DEF FetchBatch
    <2>2. /\ v = w /\ last'[v] = 0 /\ snap[v][s] = cursor[s]
          /\ batch'[v] = b /\ todo'[v] = todo[v] \ {s} /\ cur'[v] = s
          /\ UNCHANGED <<cursor, snap>>
        BY <1>0, <1>4, <2>1 DEF Solo, FetchBatch, TypeInv, TypeOK, Quiet, FenceAt
    <2>3. QED
        BY <1>0, <2>2 DEF FenceAt, Candidates
<1>5. ASSUME NEW w \in Worker, NEW s \in Stream, SkipStream(w, s) PROVE FenceAt(v)'
    BY <1>0, <1>5 DEF SkipStream, FenceAt, TypeInv, TypeOK
<1>6. ASSUME NEW w \in Worker, NEW e \in batch[w], ProcessRow(w, e) PROVE FenceAt(v)'
    BY <1>6, RowFence
<1>7. ASSUME NEW w \in Worker, SaveCursor(w) PROVE FenceAt(v)'
    <2>1. v = w /\ batch'[v] = {} /\ last'[v] = 0 /\ pc'[v] = "streams" /\ cur[v] \notin todo[v]
        BY <1>0, <1>7 DEF Solo, SaveCursor, FenceAt, TypeInv, TypeOK
    <2>2. /\ UNCHANGED <<snap, todo>>
          /\ \A s \in Stream : s # cur[v] => cursor'[s] = cursor[s]
        BY <1>7, <2>1 DEF SaveCursor, tick, TypeInv, TypeOK
    <2>3. todo[v] \subseteq Stream
        BY TransformAssumption DEF TypeInv, TypeOK
    <2>4. QED
        BY <1>0, <2>1, <2>2, <2>3 DEF FenceAt
<1>8. ASSUME NEW w \in Worker, EndTick(w) PROVE FenceAt(v)'
    <2>1. v = w /\ todo'[v] = {} /\ batch'[v] = {} /\ last'[v] = 0 /\ pc'[v] = "idle"
        BY <1>8 DEF Solo, EndTick, TypeInv, TypeOK, Quiet
    <2>2. QED
        BY <2>1 DEF FenceAt
<1>9. ASSUME NEW w \in Worker, Restart(w) PROVE FenceAt(v)'
    <2>1. v = w /\ todo'[v] = {} /\ batch'[v] = {} /\ last'[v] = 0 /\ pc'[v] = "idle"
        BY <1>9 DEF Solo, Restart, TypeInv, TypeOK
    <2>2. QED
        BY <2>1 DEF FenceAt
<1>10. QED
    BY <1>1, <1>2, <1>3, <1>4, <1>5, <1>6, <1>7, <1>8, <1>9 DEF Next, TickStep

LEMMA InitFence == Init => Fence
BY DEF Init, Fence, FenceAt

LEMMA StepForward ==
    ASSUME Solo, TypeInv, Fence, [Next]_vars
    PROVE  /\ \A s \in Stream : cursor'[s] >= cursor[s]
           /\ \A k \in Tenant \X Order : silver'[k] # silver[k] => silver'[k].at > cursor[silver'[k].stream]
<1>1. ASSUME NEW w \in Worker, SaveCursor(w), NEW s \in Stream PROVE cursor'[s] >= cursor[s]
    <2>1. cursor[s] \in Nat /\ last[w] \in Nat /\ FenceAt(w)
        BY <1>1, TransformAssumption DEF TypeInv, TypeOK, Fence
    <2>2. cursor'[s] = cursor[s] \/ (s = cur[w] /\ last[w] # 0 /\ cursor'[s] = last[w])
        BY <1>1 DEF SaveCursor, TypeInv, TypeOK
    <2>3. QED
        BY <2>1, <2>2 DEF FenceAt
<1>2. ASSUME NEW w \in Worker, NEW e \in batch[w], ProcessRow(w, e), NEW k \in Tenant \X Order,
             silver'[k] # silver[k]
      PROVE  silver'[k].at > cursor[silver'[k].stream]
    <2>1. silver'[k] = e
        BY <1>2 DEF ProcessRow, CircuitOpen, Graduate, SkipRow, Reject, Retry, TypeInv, TypeOK
    <2>2. e.stream = cur[w] /\ e.at > cursor[cur[w]]
        BY DEF Fence, FenceAt
    <2>3. QED
        BY <2>1, <2>2
<1>3. \A s \in Stream : cursor[s] \in Nat
    BY TransformAssumption DEF TypeInv, TypeOK
<1>4. (\E w \in Worker : SaveCursor(w)) \/ UNCHANGED cursor
    BY DEF Next, TickStep, Clock, Archive, BeginTick, FetchBatch, SkipStream, EndTick, Restart, ProcessRow,
           CircuitOpen, Graduate, SkipRow, Reject, Retry, Unmoved, vars
<1>5. (\E w \in Worker : \E e \in batch[w] : ProcessRow(w, e)) \/ UNCHANGED silver
    BY DEF Next, TickStep, Clock, Archive, BeginTick, FetchBatch, SkipStream, EndTick, Restart, SaveCursor, vars
<1>6. QED
    BY <1>1, <1>2, <1>3, <1>4, <1>5

\* With one worker a cursor never moves back, and no row the cursor has passed is
\* written to silver again, whatever crashes, is lost or ties.
THEOREM OneWriter == ASSUME Solo PROVE Spec => CursorMonotone /\ NoStaleUpsert
<1>1. Init => TypeInv /\ Fence
    BY InitTypes, InitFence
<1>2. TypeInv /\ Fence /\ [Next]_vars => TypeInv' /\ Fence'
    BY NextTypes, NextFence
<1>3. TypeInv /\ Fence /\ [Next]_vars => [\A s \in Stream : cursor'[s] >= cursor[s]]_vars
    BY StepForward
<1>4. TypeInv /\ Fence /\ [Next]_vars =>
        [\A k \in Tenant \X Order : silver'[k] # silver[k] => silver'[k].at > cursor[silver'[k].stream]]_vars
    BY StepForward
<1>5. QED
    BY <1>1, <1>2, <1>3, <1>4, PTL DEF Spec, CursorMonotone, NoStaleUpsert
-----------------------------------------------------------------------------
(* Silver keeps up.  One worker replays rows whose cursor write was lost; it *)
(* does so in order, and all of them, before the cursor passes any.          *)

Upserted(e) == <<e, "upserted">> \in trail

\* Behind the cursor, or about to be when the batch ends.
Passed(e) ==
    e.at <= cursor[e.stream] \/ \E w \in Worker : cur[w] = e.stream /\ e.at <= last[w]

UpsertsValid == \A e \in bronze : Upserted(e) => e.kind = "valid"

\* Another row of the stream has the same received_at.
Tied(e) == \E f \in bronze : Ties(e, f) /\ f # e

Sorted == \A w \in Worker : \A b \in batch[w] : b.at >= last[w]

\* A row upserted before and not passed is in the batch again if a later one is.
Whole ==
    \A w \in Worker : \A b \in batch[w] : \A e \in bronze :
        e.stream = cur[w] /\ e.at <= b.at /\ Upserted(e) /\ ~Tied(e) => e \in batch[w] \/ Passed(e)

Kept == \A e \in bronze : Upserted(e) /\ ~DeadLettered(e) /\ ~Tied(e) /\ Passed(e) => ReflectedInSilver(e)

KeepInv == TypeInv /\ Fence /\ UpsertsValid /\ Sorted /\ Whole /\ Kept

Keeps == UpsertsValid' /\ Sorted' /\ Whole' /\ Kept'

LEMMA RowNumbers ==
    ASSUME TypeInv
    PROVE  /\ \A e \in bronze : e \in Event /\ e.at \in Nat /\ e.at > 0 /\ e.stream \in Stream
           /\ \A s \in Stream : cursor[s] \in Nat
           /\ \A w \in Worker : last[w] \in Nat /\ cur[w] \in Stream /\ batch[w] \subseteq bronze
BY EventTypes, TransformAssumption DEF TypeInv, TypeOK

\* A row of the batch overwrites only what it follows.
LEMMA OverwriteKeeps ==
    ASSUME Solo, KeepInv, NEW w \in Worker, NEW r \in batch[w],
           silver' \in {silver, [silver EXCEPT ![SilverKey(r)] = r]},
           NEW e \in bronze, Passed(e), ReflectedInSilver(e)
    PROVE  ReflectedInSilver(e)'
<1>1. r.stream = cur[w] /\ r.at > cursor[cur[w]] /\ r.at >= last[w]
    BY DEF KeepInv, Fence, FenceAt, Sorted
<1>2. e.stream = r.stream => r.at >= e.at
    BY <1>1, RowNumbers DEF Solo, Passed, KeepInv
<1>3. r \in Event /\ r # NoFact
    BY RowNumbers, NoFactAssumption DEF KeepInv
<1>4. SilverKey(e) \in Tenant \X Order /\ silver \in [Tenant \X Order -> Event \cup {NoFact}]
    BY EventTypes, RowNumbers DEF KeepInv, TypeInv, TypeOK
<1>5. silver'[SilverKey(e)] \in {silver[SilverKey(e)], r}
    BY <1>4
<1>6. QED
    BY <1>2, <1>3, <1>5 DEF ReflectedInSilver

\* The row is done with: what it takes along is itself only.
LEMMA RowDoneKeeps ==
    ASSUME Solo, KeepInv, NEW w \in Worker, NEW r \in batch[w], NEW v \in Verdict,
           NextRow(w, r), RowDone(w, r), Unmoved, trail' = trail \cup {<<r, v>>},
           \/ v = "upserted" /\ r.kind = "valid" /\ silver' = [silver EXCEPT ![SilverKey(r)] = r]
           \/ v = "skipped" /\ r.kind # "valid" /\ UNCHANGED silver
           \/ v \notin {"upserted", "skipped", "retry"} /\ UNCHANGED silver
    PROVE  Keeps
<1>1. /\ UNCHANGED <<bronze, cursor, cur>> /\ r \in bronze /\ r.stream = cur[w]
      /\ r.at >= last[w] /\ r.at > cursor[cur[w]]
    BY RowNumbers DEF Unmoved, external, tick, KeepInv, Fence, FenceAt, Sorted
<1>2. batch'[w] = batch[w] \ {r} /\ last'[w] = r.at /\ \A x \in Worker : x = w
    BY DEF RowDone, Solo, KeepInv, TypeInv, TypeOK
<1>3. \A e \in bronze : e.stream = r.stream /\ e.at = r.at => e = r \/ Tied(e)
    BY <1>1 DEF Tied, Ties
<1>4. \A e \in bronze : /\ Upserted(e)' => Upserted(e) \/ e = r
                        /\ Passed(e) => Passed(e)'
                        /\ Tied(e)' <=> Tied(e)
    BY <1>1, <1>2, RowNumbers DEF Upserted, Passed, Tied, KeepInv
<1>5. Passed(r)'
    BY <1>1, <1>2, RowNumbers DEF Passed, KeepInv
<1>6. UpsertsValid'
    BY <1>1, <1>4 DEF UpsertsValid, Upserted, KeepInv
<1>7. Sorted'
    <2>1. ASSUME NEW b \in batch[w] PROVE b.at >= r.at
        BY <1>1, RowNumbers DEF NextRow, KeepInv
    <2>2. QED
        BY <1>2, <2>1 DEF Sorted
<1>8. Whole'
    BY <1>1, <1>2, <1>4, <1>5 DEF Whole, KeepInv
<1>9. Kept'
    <2> SUFFICES ASSUME NEW e \in bronze, Upserted(e)', ~DeadLettered(e)', ~Tied(e), Passed(e)'
                 PROVE  ReflectedInSilver(e)'
        BY <1>1, <1>4 DEF Kept
    <2>1. CASE e = r
        <3>1. v = "upserted" \/ v = "skipped"
            BY <2>1 DEF DeadLettered, Verdict
        <3>2. v # "skipped"
            BY <2>1 DEF Upserted, UpsertsValid, KeepInv
        <3>3. r # NoFact /\ silver'[SilverKey(r)] = r /\ r.at \in Nat
            BY <1>1, <3>1, <3>2, EventTypes, RowNumbers, NoFactAssumption DEF KeepInv, TypeInv, TypeOK
        <3>4. QED
            BY <2>1, <3>3 DEF ReflectedInSilver
    <2>2. CASE e # r
        <3>1. Upserted(e) /\ ~DeadLettered(e)
            BY <2>2 DEF Upserted, DeadLettered
        <3>2. CASE ~Passed(e)
            <4>1. e.stream = cur[w] /\ e.at <= r.at
                BY <1>1, <1>2, <3>2 DEF Passed
            <4>2. e \in batch[w]
                BY <3>1, <3>2, <4>1 DEF Whole, KeepInv
            <4>3. r.at <= e.at
                BY <4>2 DEF NextRow
            <4>4. QED
                BY <1>1, <1>3, <2>2, <4>1, <4>3, RowNumbers DEF KeepInv
        <3>3. CASE Passed(e)
            <4>1. ReflectedInSilver(e)
                BY <3>1, <3>3 DEF Kept, KeepInv
            <4>2. QED
                BY <3>3, <4>1, OverwriteKeeps
        <3>4. QED
            BY <3>2, <3>3
    <2>3. QED
        BY <2>1, <2>2
<1>10. QED
    BY <1>6, <1>7, <1>8, <1>9 DEF Keeps

\* The row is put off: silver may have it or not.
LEMMA RetryKeeps ==
    ASSUME Solo, KeepInv, NEW w \in Worker, NEW r \in batch[w], Retry(w, r)
    PROVE  Keeps
<1>1. /\ UNCHANGED <<bronze, cursor, cur, last>> /\ trail' = trail \cup {<<r, "retry">>}
      /\ silver' \in {silver, [silver EXCEPT ![SilverKey(r)] = r]}
    BY DEF Retry, BreakOff, Unmoved, external, tick, Note
<1>2. batch'[w] = {} /\ \A x \in Worker : x = w
    BY DEF Retry, BreakOff, Solo, KeepInv, TypeInv, TypeOK
<1>3. \A e \in bronze : /\ Upserted(e)' <=> Upserted(e)
                        /\ DeadLettered(e)' <=> DeadLettered(e)
                        /\ Passed(e)' <=> Passed(e)
                        /\ Tied(e)' <=> Tied(e)
    BY <1>1 DEF Upserted, DeadLettered, Passed, Tied
<1>4. UpsertsValid' /\ Sorted' /\ Whole'
    BY <1>1, <1>2, <1>3 DEF UpsertsValid, Sorted, Whole, KeepInv
<1>5. Kept'
    <2> SUFFICES ASSUME NEW e \in bronze, Upserted(e), ~DeadLettered(e), ~Tied(e), Passed(e)
                 PROVE  ReflectedInSilver(e)'
        BY <1>1, <1>3 DEF Kept
    <2>1. ReflectedInSilver(e)
        BY DEF Kept, KeepInv
    <2>2. QED
        BY <1>1, <2>1, OverwriteKeeps
<1>6. QED
    BY <1>4, <1>5 DEF Keeps

LEMMA ProcessRowKeeps ==
    ASSUME Solo, KeepInv, NEW w \in Worker, NEW r \in batch[w], ProcessRow(w, r)
    PROVE  Keeps
<1>1. ASSUME NEW v \in {"dlq_open", "lost_open", "dlq_terminal", "lost_terminal"}, trail' = trail \cup {<<r, v>>},
             CircuitOpen(w, r) \/ Reject(w, r)
      PROVE  Keeps
    <2>1. NextRow(w, r) /\ RowDone(w, r) /\ Unmoved /\ UNCHANGED silver /\ v \in Verdict
        BY <1>1 DEF CircuitOpen, Reject, Attempt, Verdict
    <2>2. QED
        BY <1>1, <2>1, RowDoneKeeps
<1>2. CASE CircuitOpen(w, r) \/ Reject(w, r)
    BY <1>1, <1>2 DEF CircuitOpen, Reject, SendToDlq, Note
<1>3. CASE Graduate(w, r)
    BY <1>3, RowDoneKeeps DEF Graduate, Attempt, Note, Verdict
<1>4. CASE SkipRow(w, r)
    BY <1>4, RowDoneKeeps DEF SkipRow, Attempt, Note, Verdict
<1>5. QED
    BY <1>2, <1>3, <1>4, RetryKeeps DEF ProcessRow

\* The query returns every row beyond the cursor that is as old as one it returns.
LEMMA FetchKeeps ==
    ASSUME Solo, KeepInv, NEW w \in Worker, NEW s \in Stream, FetchBatch(w, s)
    PROVE  Keeps
<1>1. PICK b \in SUBSET Candidates(w, s) :
        FirstRows(Candidates(w, s), b) /\ batch' = [batch EXCEPT ![w] = b]
    BY DEF FetchBatch
<1>2. /\ UNCHANGED <<now, bronze, cursor, trail, silver, last>>
      /\ batch'[w] = b /\ cur'[w] = s /\ last[w] = 0 /\ snap[w][s] = cursor[s]
      /\ \A x \in Worker : x = w
    BY <1>1 DEF FetchBatch, external, Solo, KeepInv, TypeInv, TypeOK, Quiet, Fence, FenceAt
<1>3. \A e \in bronze : /\ Upserted(e)' <=> Upserted(e)
                        /\ Passed(e)' <=> e.at <= cursor[e.stream]
                        /\ Passed(e)' => Passed(e)
                        /\ Tied(e)' <=> Tied(e)
    BY <1>2, RowNumbers DEF Upserted, Passed, Tied, KeepInv
<1>4. UpsertsValid'
    BY <1>2, <1>3 DEF UpsertsValid, KeepInv
<1>5. Sorted'
    BY <1>1, <1>2, RowNumbers DEF Sorted, Candidates, KeepInv
<1>6. Whole'
    <2>1. ASSUME NEW r \in b, NEW e \in bronze, e.stream = s, e.at <= r.at, ~(e.at <= cursor[s]), ~Tied(e)
          PROVE  e \in b
        <3>1. /\ r \in bronze /\ r.stream = s /\ r.at + Grace <= now /\ now \in Nat
              /\ r.at \in Nat /\ e.at \in Nat /\ cursor[s] \in Nat
            BY <1>1, RowNumbers, TransformAssumption DEF Candidates, KeepInv, TypeInv, TypeOK
        <3>2. e \in Candidates(w, s)
            BY <1>2, <2>1, <3>1, TransformAssumption DEF Candidates
        <3>3. CASE r.at = e.at
            BY <2>1, <3>1, <3>3 DEF Tied, Ties
        <3>4. CASE r.at # e.at
            BY <1>1, <2>1, <3>1, <3>2, <3>4 DEF FirstRows
        <3>5. QED
            BY <3>3, <3>4
    <2>2. QED
        BY <1>2, <1>3, <2>1 DEF Whole
<1>7. Kept'
    BY <1>2, <1>3 DEF Kept, ReflectedInSilver, DeadLettered, KeepInv
<1>8. QED
    BY <1>4, <1>5, <1>6, <1>7 DEF Keeps

\* What drops the batch, and moves the cursor at most to where the batch has come.
LEMMA DropKeeps ==
    ASSUME Solo, KeepInv, NEW w \in Worker, UNCHANGED <<bronze, silver, trail, cur>>,
           batch'[w] = {}, last'[w] \in {0, last[w]},
           \A s \in Stream : cursor'[s] = cursor[s] \/ (s = cur[w] /\ cursor'[s] = last[w])
    PROVE  Keeps
<1>1. \A x \in Worker : x = w
    BY DEF Solo
<1>2. \A e \in bronze : Passed(e)' => Passed(e)
    BY <1>1, RowNumbers DEF Passed, KeepInv
<1>3. QED
    BY <1>1, <1>2 DEF Keeps, UpsertsValid, Sorted, Whole, Kept, Upserted, Tied, DeadLettered,
           ReflectedInSilver, KeepInv

LEMMA SameKeeps ==
    ASSUME KeepInv, UNCHANGED <<bronze, cursor, silver, trail, cur, batch, last>>
    PROVE  Keeps
BY DEF Keeps, UpsertsValid, Sorted, Whole, Kept, Upserted, Passed, Tied, DeadLettered,
       ReflectedInSilver, KeepInv

\* A row that lands has not been upserted.
LEMMA ArriveKeeps ==
    ASSUME KeepInv, NEW r \in Event \ bronze, Archive(r)
    PROVE  Keeps
<1>1. bronze' = bronze \cup {r} /\ UNCHANGED <<cursor, silver, trail, cur, batch, last>>
    BY DEF Archive, tick
<1>2. ~Upserted(r)'
    BY <1>1 DEF Upserted, KeepInv, TypeInv, TypeOK
<1>3. \A e \in bronze : Tied(e) => Tied(e)'
    BY <1>1 DEF Tied
<1>4. QED
    BY <1>1, <1>2, <1>3 DEF Keeps, UpsertsValid, Sorted, Whole, Kept, Upserted, Passed, DeadLettered,
           ReflectedInSilver, KeepInv

LEMMA NextKeeps == ASSUME Solo, KeepInv, [Next]_vars PROVE KeepInv'
<1>1. TypeInv' /\ Fence'
    BY NextTypes, NextFence DEF KeepInv
<1> SUFFICES Keeps
    BY <1>1 DEF KeepInv, Keeps
<1>2. CASE Clock \/ UNCHANGED vars
    BY <1>2, SameKeeps DEF Clock, vars, tick
<1>3. ASSUME NEW e \in Event \ bronze, Archive(e) PROVE Keeps
    BY <1>3, ArriveKeeps
<1>4. ASSUME NEW w \in Worker, BeginTick(w) \/ EndTick(w) PROVE Keeps
    BY <1>4, SameKeeps DEF BeginTick, EndTick, external
<1>5. ASSUME NEW w \in Worker, NEW s \in Stream, FetchBatch(w, s) \/ SkipStream(w, s) PROVE Keeps
    BY <1>5, FetchKeeps, SameKeeps DEF SkipStream, external
<1>6. ASSUME NEW w \in Worker, NEW e \in batch[w], ProcessRow(w, e) PROVE Keeps
    BY <1>6, ProcessRowKeeps
<1>7. ASSUME NEW w \in Worker, SaveCursor(w) PROVE Keeps
    <2>1. /\ UNCHANGED <<bronze, silver, trail, cur>> /\ batch'[w] = {} /\ last'[w] = 0
          /\ \A s \in Stream : cursor'[s] = cursor[s] \/ (s = cur[w] /\ cursor'[s] = last[w])
        BY <1>7 DEF SaveCursor, external, tick, KeepInv, TypeInv, TypeOK
    <2>2. QED
        BY <2>1, DropKeeps
<1>8. ASSUME NEW w \in Worker, Restart(w) PROVE Keeps
    <2>1. UNCHANGED <<bronze, silver, trail, cur, cursor>> /\ batch'[w] = {} /\ last'[w] = 0
        BY <1>8 DEF Restart, external, KeepInv, TypeInv, TypeOK
    <2>2. QED
        BY <2>1, DropKeeps
<1>9. QED
    BY <1>2, <1>3, <1>4, <1>5, <1>6, <1>7, <1>8 DEF Next, TickStep

\* With one worker silver reflects every upserted row the cursor has passed that ties
\* with no other, through late rows, crashes and lost cursor writes that replay older
\* rows over newer ones.
THEOREM KeepsUp == ASSUME Solo PROVE Spec => []SilverKeepsUp
<1>1. Init => KeepInv
    <2>1. Init => UpsertsValid /\ Sorted /\ Whole /\ Kept
        BY DEF Init, UpsertsValid, Sorted, Whole, Kept
    <2>2. QED
        BY <2>1, InitTypes, InitFence DEF KeepInv
<1>2. KeepInv /\ [Next]_vars => KeepInv'
    BY NextKeeps
<1>3. KeepInv => SilverKeepsUp
    BY DEF KeepInv, Kept, Upserted, Passed, Tied, SilverKeepsUp
<1>4. QED
    BY <1>1, <1>2, <1>3, PTL DEF Spec
=============================================================================
