----------------------------- MODULE DailyProofs -----------------------------
(***************************************************************************)
(* Theorems about DailyRecompute, for any runs, dates, edits and           *)
(* interruptions.                                                          *)
(***************************************************************************)
EXTENDS DailyRecompute, TLAPS

LEMMA EmptyHand == Empty \in [Date -> Figure \cup {Nothing}] /\ \A d \in Date : Empty[d] = Nothing
  BY DEF Empty

LEMMA BetweenDates == \A S : Between(S) \subseteq Date
  BY DEF Between

\* What the end of a run does to the runs.
LEMMA Ending ==
    ASSUME TypeOK, NEW r \in Run, NEW written \in SUBSET Date, Ends(r, written)
    PROVE  /\ phase' = [phase EXCEPT ![r] = "idle"]
           /\ window' = [window EXCEPT ![r] = {}]
           /\ hand' = [hand EXCEPT ![r] = Empty]
           /\ phase' \in [Run -> {"idle", "delete", "read", "write"}]
           /\ window' \in [Run -> SUBSET Date]
           /\ expenses' \in [Run -> BOOLEAN]
           /\ hand' \in [Run -> [Date -> Figure \cup {Nothing}]]
           /\ older' \in [Run -> SUBSET Run] /\ beaten' \in [Run -> SUBSET Date]
           /\ \A q \in Run : q # r => /\ older'[q] = older[q] \ {r} /\ hand'[q] = hand[q]
                                      /\ window'[q] = window[q]
                                      /\ beaten[q] \subseteq beaten'[q]
                                      /\ q \in older[r] => written \subseteq beaten'[q]
                                      /\ phase'[q] = phase[q]
           /\ phase'[r] = "idle" /\ older'[r] = {}
  BY EmptyHand DEF TypeOK, Ends

\* What an ending statement leaves in the two tables.
LEMMA Writing ==
    ASSUME TypeOK, NEW r \in Run, WriteBase(r)
    PROVE  /\ Spine(r) \subseteq Date
           /\ base' \subseteq Date /\ gone' \subseteq Date /\ torn' \subseteq Date
<1> QED
  BY DEF TypeOK, WriteBase, Spine

LEMMA NewTable ==
    ASSUME TypeOK, NEW r \in Run, Write(r)
    PROVE  current' \in [Date -> Row \cup {None}] /\ stale' \in [Date -> SUBSET Row]
<1>1. \A d \in Spine(r) : d \in Date /\ RowOf(r, d) \in Row
  BY DEF TypeOK, Spine, RowOf, Row
<1>2. Newest(r) \in [Date -> Row \cup {None}]
  BY <1>1 DEF TypeOK, Newest
<1>3. ASSUME NEW d \in Date PROVE stale'[d] \subseteq Row
  BY <1>1 DEF TypeOK, Write, Rows
<1> QED
  BY <1>2, <1>3 DEF Write

LEMMA NextTypes == TypeOK /\ [Next]_vars => TypeOK'
<1> SUFFICES ASSUME TypeOK, [Next]_vars PROVE TypeOK'
  OBVIOUS
<1>1. CASE UNCHANGED vars
  BY <1>1 DEF vars, table, world, run, TypeOK
<1>2. ASSUME NEW d \in Date, Edit(d) PROVE TypeOK'
  <2>1. edits' \in 0 .. MaxEdits /\ edits + 1 \in Figure
    BY <1>2, DailyAssumption DEF Edit, TypeOK, Figure
  <2>2. facts' = [facts EXCEPT ![d] = edits + 1] \/ facts' = [facts EXCEPT ![d] = Nothing]
    BY <1>2 DEF Edit
  <2>3. facts' \in [Date -> Figure \cup {Nothing}]
    BY <2>1, <2>2 DEF TypeOK
  <2>4. ordered' \subseteq Date
    BY <1>2 DEF Edit, TypeOK
  <2>5. UNCHANGED <<fresh, base, table, run, gone, torn, interruptions>>
    BY <1>2 DEF Edit
  <2> QED
    BY <2>1, <2>3, <2>4, <2>5 DEF run, table, TypeOK
<1>3. ASSUME NEW d \in Date, Emit(d) PROVE TypeOK'
  BY <1>3 DEF Emit, run, table, TypeOK
<1>4. ASSUME NEW r \in Run, NEW dates \in SUBSET Date, Begin(r, dates) PROVE TypeOK'
  <2>1. window' \in [Run -> SUBSET Date]
    BY <1>4, BetweenDates DEF Begin, Gate, TypeOK
  <2>2. /\ expenses' = [expenses EXCEPT ![r] = TRUE] \/ expenses' = [expenses EXCEPT ![r] = FALSE]
        /\ \/ UNCHANGED interruptions
           \/ interruptions < MaxInterruptions /\ interruptions' = interruptions + 1
    BY <1>4 DEF Begin
  <2>5. expenses' \in [Run -> BOOLEAN]
    BY <2>2 DEF TypeOK
  <2>6. interruptions' \in 0 .. MaxInterruptions
    BY <2>2, DailyAssumption DEF TypeOK
  <2>3. phase' \in [Run -> {"idle", "delete", "read", "write"}]
    <3>1. phase' = [phase EXCEPT ![r] = "delete"]
      BY <1>4 DEF Begin
    <3> QED
      BY <3>1 DEF TypeOK
  <2>4. UNCHANGED <<world, base, table, hand, older, beaten, gone, torn>>
    BY <1>4 DEF Begin
  <2> QED
    BY <2>1, <2>3, <2>4, <2>5, <2>6 DEF world, table, TypeOK
<1>5. ASSUME NEW r \in Run, Call(r) \/ CallAll(r) PROVE TypeOK'
  <2>1. AllDates \subseteq Date /\ \A lo, hi \in Date : lo .. hi \subseteq Date
    BY BetweenDates, DailyAssumption DEF AllDates, Date
  <2> QED
    BY <1>4, <1>5, <2>1 DEF Call, CallAll
<1>6. ASSUME NEW r \in Run, Delete(r) PROVE TypeOK'
  BY <1>6 DEF Delete, world, table, TypeOK
<1>7. ASSUME NEW r \in Run, Read(r) PROVE TypeOK'
  BY <1>7 DEF Read, world, table, TypeOK
<1>8. ASSUME NEW r \in Run, Write(r) PROVE TypeOK'
  BY <1>8, Writing, NewTable, Ending DEF Write, world, table, TypeOK
<1>9. ASSUME NEW r \in Run, WriteFailsInView(r) PROVE TypeOK'
  <2>1. /\ WriteBase(r) /\ Ends(r, {}) /\ UNCHANGED <<world, table>>
        /\ interruptions < MaxInterruptions /\ interruptions' = interruptions + 1
    BY <1>9 DEF WriteFailsInView
  <2>2. interruptions' \in 0 .. MaxInterruptions
    BY <2>1, DailyAssumption DEF TypeOK
  <2> QED
    BY <2>1, <2>2, Writing, Ending DEF world, table, TypeOK
<1>10. ASSUME NEW r \in Run, Die(r) PROVE TypeOK'
  <2>1. Ends(r, {}) /\ UNCHANGED <<world, base, table, gone>>
    BY <1>10 DEF Die
  <2>2. torn' \subseteq torn \cup window[r] /\ window[r] \subseteq Date
    BY <1>10 DEF Die, TypeOK
  <2>3. interruptions' = interruptions + 1 /\ interruptions < MaxInterruptions
    BY <1>10 DEF Die
  <2>4. interruptions' \in 0 .. MaxInterruptions
    BY <2>3, DailyAssumption DEF TypeOK
  <2>5. torn' \subseteq Date
    BY <2>2 DEF TypeOK
  <2> QED
    BY <2>1, <2>4, <2>5, Ending DEF world, table, TypeOK
<1>11. ASSUME NEW d \in Date, Merge(d) PROVE TypeOK'
  BY <1>11 DEF Merge, world, run, TypeOK
<1> QED
  BY <1>11, <1>1, <1>2, <1>3, <1>5, <1>6, <1>7, <1>8, <1>9, <1>10 DEF Next, Step

\* Type correctness, for any runs, dates and bounds (TypeOK).
THEOREM TypeCorrect == Spec => []TypeOK
<1>1. Init => TypeOK
  BY EmptyHand, DailyAssumption DEF Init, TypeOK
<1> QED
  BY <1>1, NextTypes, PTL DEF Spec

-----------------------------------------------------------------------------
\* Why the dashboards never go back: facts only grow newer, a statement has read facts
\* of a time between the row shown and now, and of two statements under way one began
\* first and has read no newer facts than the other.
DatedAt(d) ==
    /\ facts[d] <= edits
    /\ current[d] # None => /\ current[d].figure <= edits
                            /\ facts[d] # Nothing => current[d].figure <= facts[d]
    /\ \A r \in Run : /\ hand[r][d] <= edits
                      /\ facts[d] # Nothing => hand[r][d] <= facts[d]

Dated == \A d \in Date : DatedAt(d)

Queued ==
    \A q, r \in Run :
        /\ q \in older[r] => q # r /\ phase[q] = "write" /\ phase[r] = "write"
        /\ q # r /\ phase[q] = "write" /\ phase[r] = "write" => q \in older[r] \/ r \in older[q]
        /\ q \in older[r] => \A d \in Date : hand[r][d] # Nothing => hand[q][d] <= hand[r][d]

Ahead ==
    \A r \in Run, d \in Date :
        phase[r] = "write" /\ hand[r][d] # Nothing /\ d \notin beaten[r] /\ current[d] # None
            => current[d].figure <= hand[r][d]

LEMMA Numbers ==
    ASSUME TypeOK, NEW d \in Date
    PROVE  /\ facts[d] \in Nat /\ edits \in Nat
           /\ \A r \in Run : hand[r][d] \in Nat
           /\ current[d] # None => current[d].figure \in Nat
<1>1. Figure \cup {Nothing} \subseteq Nat /\ Figure \subseteq Nat
  BY DailyAssumption DEF Figure, Nothing
<1>2. current[d] # None => current[d].figure \in Figure
  BY DEF TypeOK, Row
<1>3. facts[d] \in Figure \cup {Nothing} /\ \A r \in Run : hand[r][d] \in Figure \cup {Nothing}
  BY DEF TypeOK
<1>4. edits \in Nat
  BY DailyAssumption DEF TypeOK
<1> QED
  BY <1>1, <1>2, <1>3, <1>4

\* The row a writing statement leaves of a date: its own, if it has read facts of the
\* date and no later statement has written it, or the one that was there.
LEMMA NewRow ==
    ASSUME TypeOK, NEW r \in Run, NEW d \in Date, Write(r)
    PROVE  \/ /\ hand[r][d] # Nothing /\ d \notin beaten[r]
              /\ current'[d] # None /\ current'[d].figure = hand[r][d]
           \/ current'[d] = current[d] /\ (hand[r][d] = Nothing \/ d \in beaten[r])
<1>1. current'[d] = IF d \in Spine(r) \ beaten[r]
                   THEN RowOf(r, d) ELSE current[d]
  BY DEF Write, Newest
<1>2. d \in Spine(r) <=> hand[r][d] # Nothing
  BY DEF Spine
<1>3. hand[r][d] # Nothing => RowOf(r, d) \in Row /\ RowOf(r, d).figure = hand[r][d]
  BY DEF TypeOK, Row, RowOf
<1> QED
  BY <1>1, <1>2, <1>3, NoneAssumption

LEMMA NextDated == TypeOK /\ Dated /\ [Next]_vars => Dated'
<1> SUFFICES ASSUME TypeOK, Dated, [Next]_vars, NEW d \in Date
             PROVE  DatedAt(d)'
  BY DEF Dated
<1>1. CASE UNCHANGED <<facts, edits, current, hand>>
  BY <1>1 DEF Dated, DatedAt
<1>2. ASSUME NEW e \in Date, Edit(e) PROVE DatedAt(d)'
  <2>1. edits' = edits + 1 /\ UNCHANGED <<current, hand>>
    BY <1>2 DEF Edit, run, table
  <2>2. facts'[d] \in {facts[d], edits + 1, Nothing}
    BY <1>2 DEF Edit, TypeOK
  <2> QED
    BY <2>1, <2>2, Numbers DEF Dated, DatedAt, Nothing
<1>3. ASSUME NEW r \in Run, Read(r) PROVE DatedAt(d)'
  <2>1. UNCHANGED <<facts, edits, current>>
    BY <1>3 DEF Read, world, table
  <2>2. \A q \in Run : hand'[q][d] \in {hand[q][d], facts[d], Nothing}
    BY <1>3 DEF Read, TypeOK
  <2> QED
    BY <2>1, <2>2, Numbers DEF Dated, DatedAt, Nothing
<1>4. ASSUME NEW r \in Run, UNCHANGED <<facts, edits>>, Ends(r, {}) \/ Ends(r, Spine(r)),
             current'[d] = current[d] \/ (current'[d] # None /\ current'[d].figure = hand[r][d])
      PROVE  DatedAt(d)'
  <2>1. \A q \in Run : hand'[q][d] \in {hand[q][d], Nothing}
    BY <1>4, EmptyHand DEF Ends, TypeOK
  <2> QED
    BY <1>4, <2>1, Numbers DEF Dated, DatedAt, Nothing
<1>5. ASSUME NEW r \in Run, Write(r) PROVE DatedAt(d)'
  BY <1>4, <1>5, NewRow DEF Write, world
<1>6. ASSUME NEW r \in Run, WriteFailsInView(r) \/ Die(r) PROVE DatedAt(d)'
  BY <1>4, <1>6 DEF WriteFailsInView, Die, world, table
<1> QED
  BY <1>1, <1>2, <1>3, <1>5, <1>6
  DEF Next, Step, Call, CallAll, Begin, Delete, Emit, Merge, vars, run, world, table

LEMMA NextQueued == TypeOK /\ Dated /\ Queued /\ [Next]_vars => Queued'
<1> SUFFICES ASSUME TypeOK, Dated, Queued, [Next]_vars PROVE Queued'
  OBVIOUS
<1>1. ASSUME NEW r \in Run, phase[r] # "write", phase' \in [Run -> STRING], phase'[r] # "write",
             \A q \in Run : q # r => phase'[q] = phase[q], UNCHANGED <<older, hand>>
      PROVE  Queued'
  BY <1>1 DEF Queued
<1>2. ASSUME NEW r \in Run, NEW dates, Begin(r, dates) PROVE Queued'
  BY <1>2 DEF Begin, Queued, TypeOK
<1>3. ASSUME NEW r \in Run, Delete(r) PROVE Queued'
  BY <1>3 DEF Delete, Queued, TypeOK
<1>4. ASSUME NEW r \in Run, Read(r) PROVE Queued'
  <2>1. /\ phase[r] = "read" /\ phase'[r] = "write" /\ older'[r] = {q \in Run : phase[q] = "write"}
        /\ \A q \in Run : q # r => /\ phase'[q] = phase[q] /\ older'[q] = older[q]
                                   /\ hand'[q] = hand[q]
        /\ \A d \in Date : hand'[r][d] # Nothing => hand'[r][d] = facts[d]
    BY <1>4 DEF Read, TypeOK
  <2>2. \A q \in Run : r \notin older[q] /\ r \notin older'[r]
    BY <2>1 DEF Queued
  <2>3. \A q \in Run, d \in Date : hand'[r][d] # Nothing => hand[q][d] <= hand'[r][d]
    BY <2>1 DEF Dated, DatedAt
  <2> QED
    BY <2>1, <2>2, <2>3 DEF Queued
<1>5. ASSUME NEW r \in Run, NEW written \in SUBSET Date, Ends(r, written) PROVE Queued'
  BY <1>5, Ending DEF Queued
<1>6. ASSUME NEW r \in Run, Write(r) \/ WriteFailsInView(r) \/ Die(r) PROVE Queued'
  <2>1. Spine(r) \in SUBSET Date /\ {} \in SUBSET Date
    BY DEF Spine
  <2> QED
    BY <1>5, <1>6, <2>1 DEF Write, WriteFailsInView, Die
<1>7. CASE UNCHANGED run
  BY <1>7 DEF run, Queued
<1> QED
  BY <1>2, <1>3, <1>4, <1>6, <1>7 DEF Next, Step, Call, CallAll, Edit, Emit, Merge, vars

LEMMA NextAhead == TypeOK /\ Dated /\ Queued /\ Ahead /\ [Next]_vars => Ahead'
<1> SUFFICES ASSUME TypeOK, Dated, Queued, Ahead, [Next]_vars PROVE Ahead'
  OBVIOUS
<1>1. ASSUME NEW r \in Run, NEW dates, Begin(r, dates) \/ Delete(r) PROVE Ahead'
  BY <1>1 DEF Begin, Delete, Ahead, TypeOK, table
<1>2. ASSUME NEW r \in Run, Read(r) PROVE Ahead'
  <2>1. /\ UNCHANGED <<current, beaten>>
        /\ \A q \in Run : q # r => phase'[q] = phase[q] /\ hand'[q] = hand[q]
        /\ \A d \in Date : hand'[r][d] # Nothing => hand'[r][d] = facts[d]
    BY <1>2 DEF Read, TypeOK, table
  <2> QED
    BY <2>1 DEF Ahead, Dated, DatedAt
<1>3. ASSUME NEW r \in Run, Write(r), NEW q \in Run, NEW d \in Date,
             phase'[q] = "write", hand'[q][d] # Nothing, d \notin beaten'[q], current'[d] # None
      PROVE  current'[d].figure <= hand'[q][d]
  <2>1. Ends(r, Spine(r)) /\ Spine(r) \in SUBSET Date /\ phase[r] = "write"
    BY <1>3 DEF Write, WriteBase, Spine
  <2>2. /\ q # r /\ phase[q] = "write" /\ hand'[q] = hand[q] /\ d \notin beaten[q]
        /\ q \in older[r] => d \notin Spine(r)
    BY <1>3, <2>1, Ending
  <2>3. CASE current'[d] = current[d]
    BY <1>3, <2>2, <2>3 DEF Ahead
  <2>4. CASE hand[r][d] # Nothing /\ current'[d].figure = hand[r][d]
    <3>1. q \notin older[r]
      BY <2>2, <2>4 DEF Spine
    <3>2. hand[r][d] <= hand[q][d]
      BY <1>3, <2>1, <2>2, <3>1 DEF Queued
    <3> QED
      BY <2>2, <2>4, <3>2
  <2> QED
    BY <1>3, <2>3, <2>4, NewRow
<1>4. ASSUME NEW r \in Run, Ends(r, {}), UNCHANGED current PROVE Ahead'
  <2>1. \A q \in Run : q # r => hand'[q] = hand[q] /\ beaten[q] \subseteq beaten'[q]
            /\ phase'[q] = phase[q]
    BY <1>4, Ending
  <2>2. phase'[r] = "idle"
    BY <1>4, Ending
  <2> QED
    BY <1>4, <2>1, <2>2 DEF Ahead
<1>5. ASSUME NEW r \in Run, WriteFailsInView(r) \/ Die(r) PROVE Ahead'
  BY <1>4, <1>5 DEF WriteFailsInView, Die, table
<1>6. CASE UNCHANGED <<run, current>>
  BY <1>6 DEF run, Ahead
<1>7. ASSUME NEW r \in Run, Write(r) PROVE Ahead'
  BY <1>3, <1>7 DEF Ahead
<1> QED
  BY <1>1, <1>2, <1>5, <1>6, <1>7 DEF Next, Step, Call, CallAll, Edit, Emit, Merge, vars, table

\* The rows a merge has yet to take away are no newer than the one it keeps, and the row of
\* a beaten statement will be none either.
BehindAt(d) ==
    /\ \A x \in stale[d] : current[d] # None /\ x.figure <= current[d].figure
    /\ \A r \in Run : phase[r] = "write" /\ hand[r][d] # Nothing /\ d \in beaten[r]
                        => current[d] # None /\ hand[r][d] <= current[d].figure

Behind ==
    /\ \A d \in Date : BehindAt(d)
    /\ \A r \in Run : phase[r] # "write" => beaten[r] = {}

\* A write leaves a row of the date that is as new as any there was, and as its own.
LEMMA WriteAhead ==
    ASSUME TypeOK, Ahead, Behind, NEW r \in Run, NEW d \in Date, Write(r)
    PROVE  /\ current[d] # None => current'[d] # None /\ current[d].figure <= current'[d].figure
           /\ hand[r][d] # Nothing => current'[d] # None /\ hand[r][d] <= current'[d].figure
           /\ \A x \in stale'[d] : current'[d] # None /\ x.figure <= current'[d].figure
<1>1. phase[r] = "write"
  BY DEF Write, WriteBase
<1>2. current[d] # None => current'[d] # None /\ current[d].figure <= current'[d].figure
  BY <1>1, NewRow, Numbers DEF Ahead
<1>3. hand[r][d] # Nothing => current'[d] # None /\ hand[r][d] <= current'[d].figure
  BY <1>1, NewRow, Numbers DEF Behind, BehindAt
<1>4. ASSUME NEW x \in stale'[d] PROVE current'[d] # None /\ x.figure <= current'[d].figure
  <2>1. x \in Rows(r, d) /\ x # None
    BY <1>4 DEF Write
  <2>2. CASE x = current[d]
    BY <1>2, <2>1, <2>2
  <2>3. CASE x = RowOf(r, d) /\ hand[r][d] # Nothing
    BY <1>3, <2>3 DEF RowOf
  <2>4. CASE x \in stale[d]
    <3>1. current[d] # None /\ x.figure <= current[d].figure
      BY <2>4 DEF Behind, BehindAt
    <3>2. x.figure \in Nat /\ current[d].figure \in Nat /\ current'[d].figure \in Nat
      <4>1. x.figure \in Nat
        BY <2>4, DailyAssumption DEF TypeOK, Row, Figure
      <4>2. current' \in [Date -> Row \cup {None}]
        BY NewTable
      <4>3. current'[d].figure \in Nat
        BY <1>2, <3>1, <4>2, DailyAssumption DEF Row, Figure
      <4> QED
        BY <4>1, <4>3, <3>1, Numbers
    <3> QED
      BY <1>2, <3>1, <3>2
  <2> QED
    BY <2>1, <2>2, <2>3, <2>4 DEF Rows, Spine
<1> QED
  BY <1>2, <1>3, <1>4

LEMMA NextBehind == TypeOK /\ Queued /\ Ahead /\ Behind /\ [Next]_vars => Behind'
<1> SUFFICES ASSUME TypeOK, Queued, Ahead, Behind, [Next]_vars PROVE Behind'
  OBVIOUS
<1>1. ASSUME NEW r \in Run, NEW dates, Begin(r, dates) \/ Delete(r) PROVE Behind'
  <2>1. UNCHANGED <<current, stale, hand, beaten>> /\ phase[r] # "write" /\ phase'[r] # "write"
    BY <1>1 DEF Begin, Delete, TypeOK, table
  <2>2. \A q \in Run : q # r => phase'[q] = phase[q]
    BY <1>1 DEF Begin, Delete, TypeOK
  <2> QED
    BY <2>1, <2>2 DEF Behind, BehindAt
<1>2. ASSUME NEW r \in Run, Read(r) PROVE Behind'
  <2>1. /\ UNCHANGED <<current, stale, beaten>> /\ beaten[r] = {}
        /\ \A q \in Run : q # r => phase'[q] = phase[q] /\ hand'[q] = hand[q]
    BY <1>2 DEF Read, TypeOK, table, Behind
  <2> QED
    BY <2>1 DEF Behind, BehindAt
<1>3. ASSUME NEW r \in Run, Write(r) PROVE Behind'
  <2>1. Ends(r, Spine(r)) /\ phase[r] = "write" /\ Spine(r) \in SUBSET Date
    BY <1>3 DEF Write, WriteBase, Spine
  <2>2. beaten'[r] = {} /\ phase'[r] = "idle"
    BY <2>1 DEF Ends, TypeOK
  <2>3. ASSUME NEW q \in Run, q # r
        PROVE  /\ phase'[q] = phase[q] /\ hand'[q] = hand[q]
               /\ beaten'[q] = IF q \in older[r] THEN beaten[q] \cup Spine(r) ELSE beaten[q]
    BY <2>1, <2>3 DEF Ends, TypeOK
  <2>4. ASSUME NEW q \in Run, phase'[q] # "write" PROVE beaten'[q] = {}
    BY <2>2, <2>3, <2>4 DEF Behind, Queued
  <2>5. ASSUME NEW d \in Date, NEW q \in Run, phase'[q] = "write", hand'[q][d] # Nothing,
            d \in beaten'[q]
        PROVE  current'[d] # None /\ hand'[q][d] <= current'[d].figure
    <3>1. q # r /\ phase[q] = "write" /\ hand'[q] = hand[q]
      BY <2>2, <2>3, <2>5
    <3>2. /\ current[d] # None => current[d].figure \in Nat
          /\ hand[q][d] \in Nat /\ hand[r][d] \in Nat
          /\ current'[d] # None => current'[d].figure \in Nat
      <4>1. current' \in [Date -> Row \cup {None}]
        BY <1>3, NewTable
      <4>2. current'[d] # None => current'[d].figure \in Nat
        BY <4>1, DailyAssumption DEF Row, Figure
      <4> QED
        BY <4>2, Numbers
    <3>3. CASE d \in beaten[q]
      <4>1. current[d] # None /\ hand[q][d] <= current[d].figure
        BY <2>5, <3>1, <3>3 DEF Behind, BehindAt
      <4> QED
        BY <1>3, <3>1, <3>2, <4>1, WriteAhead
    <3>4. CASE q \in older[r] /\ d \in Spine(r)
      <4>1. hand[r][d] # Nothing /\ hand[q][d] <= hand[r][d]
        BY <3>4 DEF Queued, Spine
      <4> QED
        BY <1>3, <3>1, <3>2, <4>1, WriteAhead
    <3> QED
      BY <2>3, <2>5, <3>1, <3>3, <3>4
  <2>6. ASSUME NEW d \in Date
        PROVE  \A x \in stale'[d] : current'[d] # None /\ x.figure <= current'[d].figure
    BY <1>3, WriteAhead
  <2> QED
    BY <2>4, <2>5, <2>6 DEF Behind, BehindAt
<1>4. ASSUME NEW r \in Run, WriteFailsInView(r) \/ Die(r) PROVE Behind'
  <2>1. Ends(r, {}) /\ UNCHANGED <<current, stale>>
    BY <1>4 DEF WriteFailsInView, Die, table
  <2>2. beaten'[r] = {} /\ phase'[r] = "idle"
    BY <2>1 DEF Ends, TypeOK
  <2>3. \A q \in Run : q # r => phase'[q] = phase[q] /\ hand'[q] = hand[q] /\ beaten'[q] = beaten[q]
    BY <2>1 DEF Ends, TypeOK
  <2> QED
    BY <2>1, <2>2, <2>3 DEF Behind, BehindAt
<1>5. ASSUME NEW e \in Date, Merge(e) PROVE Behind'
  <2>1. \A d \in Date : stale'[d] \subseteq stale[d]
    BY <1>5 DEF Merge, TypeOK
  <2> QED
    BY <1>5, <2>1 DEF Merge, run, Behind, BehindAt
<1>6. CASE UNCHANGED <<run, table>>
  BY <1>6 DEF run, table, Behind, BehindAt
<1> QED
  BY <1>1, <1>2, <1>3, <1>4, <1>5, <1>6 DEF Next, Step, Call, CallAll, Edit, Emit, vars

Ind == TypeOK /\ Dated /\ Queued /\ Ahead /\ Behind

LEMMA Invariant == (Init => Ind) /\ (Ind /\ [Next]_vars => Ind')
<1>1. ASSUME Init PROVE Ind
  <2>1. edits = 0 /\ \A d \in Date : facts[d] = 0 /\ current[d] = None /\ stale[d] = {}
    BY <1>1, EmptyHand DEF Init, Nothing
  <2>2. TypeOK
    BY <1>1, EmptyHand, DailyAssumption DEF Init, TypeOK
  <2>3. \A r \in Run : /\ older[r] = {} /\ beaten[r] = {} /\ phase[r] = "idle"
                       /\ \A d \in Date : hand[r][d] = 0
    BY <1>1, EmptyHand DEF Init, Nothing
  <2> QED
    BY <2>1, <2>2, <2>3 DEF Ind, Dated, DatedAt, Queued, Ahead, Behind, BehindAt
<1>2. Ind /\ [Next]_vars => Ind'
  BY NextTypes, NextDated, NextQueued, NextAhead, NextBehind DEF Ind
<1> QED
  BY <1>1, <1>2

\* No write and no merge takes from the dashboards the newest figure they were given of a
\* date, however the runs overlap, die or fail (NeverOlderFigures).
THEOREM Freshness == Spec => NeverOlderFigures
<1>1. Ind /\ [Next]_vars
        => [\A d \in Date : \A x \in Given(d) : \E y \in Given(d)' : y.figure >= x.figure]_vars
  <2> SUFFICES ASSUME Ind, [Next]_vars, NEW d \in Date, NEW x \in Given(d)
               PROVE  \E y \in Given(d)' : y.figure >= x.figure
    OBVIOUS
  <2>1. /\ current[d] # None /\ x.figure <= current[d].figure
        /\ x.figure \in Nat /\ current[d].figure \in Nat
    <3>1. current[d] # None /\ (x = current[d] \/ x.figure <= current[d].figure)
      BY DEF Ind, Behind, BehindAt, Given
    <3>2. x.figure \in Nat /\ current[d].figure \in Nat
      BY <3>1, DailyAssumption DEF Ind, TypeOK, Given, Row, Figure
    <3> QED
      BY <3>1, <3>2
  <2>2. SUFFICES current'[d] # None /\ current'[d].figure >= current[d].figure
    <3>1. current'[d] \in Given(d)' /\ current'[d].figure \in Nat
      <4>1. TypeOK'
        BY NextTypes DEF Ind
      <4>2. current'[d] \in Row
        BY <2>2, <4>1 DEF TypeOK
      <4> QED
        BY <2>2, <4>2, DailyAssumption DEF Given, Row, Figure
    <3> QED
      BY <2>1, <2>2, <3>1
  <2>3. CASE UNCHANGED current
    BY <2>1, <2>3
  <2>4. ASSUME NEW r \in Run, Write(r)
        PROVE  current'[d] # None /\ current'[d].figure >= current[d].figure
    <3>1. phase[r] = "write"
      BY <2>4 DEF Write, WriteBase
    <3> QED
      BY <2>1, <2>4, <3>1, NewRow, Numbers DEF Ind, Ahead
  <2>5. ASSUME NEW r \in Run, \/ Call(r) \/ CallAll(r) \/ Delete(r) \/ Read(r)
                               \/ WriteFailsInView(r) \/ Die(r)
        PROVE  UNCHANGED current
    BY <2>5 DEF Call, CallAll, Begin, Delete, Read, WriteFailsInView, Die, table
  <2>6. ASSUME NEW e \in Date, Edit(e) \/ Emit(e) \/ Merge(e) PROVE UNCHANGED current
    BY <2>6 DEF Edit, Emit, Merge, table
  <2> QED
    BY <2>3, <2>4, <2>5, <2>6 DEF Next, Step, vars, table
<1> QED
  BY <1>1, Invariant, PTL DEF Spec, NeverOlderFigures
-----------------------------------------------------------------------------
\* Why a date is missing.
Explained(d) == Rewriting(d) \/ d \in torn \/ d \in gone

\* A date the dashboards show is missing from workspace_daily_metrics_base only while a
\* run rewrites it, after one that died in between, or because its facts went
\* (GapsExplained).
THEOREM Gaps == Spec => []GapsExplained
<1> DEFINE Gap(d) == current[d] # None /\ d \notin base => Explained(d)
           Kept == \A d \in Date : Gap(d)
<1>1. Init => Kept
  BY DEF Init
<1>2. TypeOK /\ Kept /\ [Next]_vars => Kept'
  <2> SUFFICES ASSUME TypeOK, Kept, [Next]_vars, NEW d \in Date,
                      current'[d] # None, d \notin base'
               PROVE  Explained(d)'
    OBVIOUS
  <2>1. CASE UNCHANGED <<base, current, phase, window, gone, torn>>
    BY <2>1 DEF Explained, Rewriting
  <2>2. ASSUME NEW r \in Run, NEW dates, Begin(r, dates) PROVE Explained(d)'
    BY <2>2 DEF Begin, Explained, Rewriting, TypeOK, table
  <2>3. ASSUME NEW r \in Run, Delete(r) PROVE Explained(d)'
    BY <2>3 DEF Delete, Deleted, Explained, Rewriting, TypeOK, table
  <2>4. ASSUME NEW r \in Run, Read(r) PROVE Explained(d)'
    BY <2>4 DEF Read, Explained, Rewriting, TypeOK, table
  <2>5. ASSUME NEW r \in Run, Write(r) \/ WriteFailsInView(r)
        PROVE  Explained(d)'
    <3>1. PICK written \in SUBSET Date :
            /\ WriteBase(r) /\ Ends(r, written)
            /\ current'[d] # current[d] => d \in Spine(r)
      BY <2>5 DEF Write, WriteFailsInView, Newest, Spine, table
    <3>0. /\ base' = base \cup Spine(r) /\ torn' = torn \ window[r]
          /\ gone' = (gone \ Spine(r)) \cup (window[r] \ Spine(r))
      BY <3>1 DEF WriteBase
    <3>2. d \notin base /\ d \notin Spine(r) /\ current[d] # None
      BY <3>1, <3>0
    <3>3. CASE d \in window[r]
      BY <3>0, <3>2, <3>3 DEF Explained
    <3>4. CASE d \notin window[r]
      <4>1. Explained(d)
        BY <3>2 DEF Explained
      <4>2. ASSUME NEW q \in Run, phase[q] \in {"read", "write"}, d \in window[q]
            PROVE  Rewriting(d)'
        <5>1. Ends(r, written) /\ q # r
          BY <3>1, <3>4, <4>2
        <5>2. phase'[q] = phase[q] /\ window'[q] = window[q]
          BY <5>1, Ending
        <5> QED
          BY <5>2, <4>2 DEF Rewriting
      <4>3. CASE Rewriting(d)
        BY <4>2, <4>3 DEF Explained, Rewriting
      <4>4. CASE d \in torn \cup gone
        BY <3>0, <3>2, <3>4, <4>4 DEF Explained
      <4> QED
        BY <4>1, <4>3, <4>4 DEF Explained
    <3> QED
      BY <3>3, <3>4
  <2>6. ASSUME NEW r \in Run, Die(r) PROVE Explained(d)'
    <3>1. Ends(r, {}) /\ UNCHANGED <<base, current, gone>>
      BY <2>6 DEF Die, table
    <3>2. Explained(d)
      BY <3>1 DEF Explained
    <3>3. CASE phase[r] \in {"read", "write"} /\ d \in window[r]
      BY <2>6, <3>3 DEF Die, Explained
    <3>4. CASE ~(phase[r] \in {"read", "write"} /\ d \in window[r])
      <4>1. ASSUME NEW q \in Run, phase[q] \in {"read", "write"}, d \in window[q]
            PROVE  Rewriting(d)'
        <5>1. Ends(r, {}) /\ q # r /\ {} \in SUBSET Date
          BY <3>1, <3>4, <4>1
        <5>2. phase'[q] = phase[q] /\ window'[q] = window[q]
          BY <5>1, Ending
        <5> QED
          BY <5>2, <4>1 DEF Rewriting
      <4> QED
        BY <2>6, <3>1, <3>2, <4>1 DEF Die, Explained, Rewriting
    <3> QED
      BY <3>3, <3>4
  <2> QED
    BY <2>1, <2>2, <2>3, <2>4, <2>5, <2>6
    DEF Next, Step, Call, CallAll, Edit, Emit, Merge, vars, run, world, table
<1>3. Ind /\ Kept => GapsExplained
  BY DEF Ind, Behind, BehindAt, Given, GapsExplained, Explained
<1> QED
  BY <1>1, <1>2, <1>3, Invariant, TypeCorrect, PTL DEF Spec
=============================================================================
