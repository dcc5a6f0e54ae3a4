---------------------------- MODULE DailyRecompute ----------------------------
(***************************************************************************)
(* The daily rollup of analytics-service (metric_engine/recompute_daily.py *)
(* and silver_freshness.py) for one workspace: runs that delete a window   *)
(* of brain.workspace_daily_metrics_base and insert it again from the fact *)
(* tables, and the materialized view that copies what is inserted to the   *)
(* table the dashboards read.                                              *)
(*                                                                         *)
(* INSERT .. SELECT reads when it starts and its rows are there when it    *)
(* ends; when it merges rows of a date, a table keeps the one of the       *)
(* statement that started last (ReplacingMergeTree on now(), a second      *)
(* apart).  The dashboards read without FINAL: until then they are given   *)
(* the older rows too.                                                     *)
(***************************************************************************)
EXTENDS Integers

CONSTANTS
    Run,              \* invocations of recompute_daily_metrics
    Replay,           \* those called with a replay_run_id
    LastDate,         \* the dates are 1 .. LastDate
    None,             \* no row
    MaxEdits,         \* bound: changes of the facts
    MaxInterruptions  \* bound: runs that die and lookups that fail

ASSUME DailyAssumption ==
    /\ Replay \subseteq Run
    /\ LastDate \in Nat /\ MaxEdits \in Nat /\ MaxInterruptions \in Nat

Date == 1 .. LastDate

\* What a date's facts add up to: known by the edit that made it so, or Nothing
\* when no table has a realized order, line, shipment or spend of the date.
Nothing == 0
Figure == 1 .. MaxEdits

\* A rollup row, with or without the workspace's expenses in it.
Row == [figure : Figure, expenses : BOOLEAN]

ASSUME NoneAssumption == None \notin Row

VARIABLES
    facts,         \* what the fact tables hold of each date
    ordered,       \* dates with an order row, cancelled ones included
    fresh,         \* dates in silver_freshness_log
    base,          \* dates with a row in workspace_daily_metrics_base
    current,       \* the row of each date in .._computed that a merge keeps
    stale,         \* the rows beside it that no merge has taken away yet
    phase,         \* what a run is about to do
    window,        \* the dates it rewrites
    expenses,      \* did its lookup of the expenses work?
    hand,          \* the facts its INSERT .. SELECT has read
    older,         \* the runs whose statement began before and is not over
    beaten,        \* the dates a statement that began later has written meanwhile
    gone,          \* dates without facts when they were last rolled up
    torn,          \* dates deleted by a run that died before it inserted
    edits, interruptions

run == <<phase, window, expenses, hand, older, beaten>>
world == <<facts, ordered, fresh, edits>>
table == <<current, stale>>
vars == <<world, base, table, run, gone, torn, interruptions>>

TypeOK ==
    /\ facts \in [Date -> Figure \cup {Nothing}]
    /\ ordered \subseteq Date /\ fresh \subseteq Date
    /\ base \subseteq Date /\ gone \subseteq Date /\ torn \subseteq Date
    /\ current \in [Date -> Row \cup {None}] /\ stale \in [Date -> SUBSET Row]
    /\ phase \in [Run -> {"idle", "delete", "read", "write"}]
    /\ window \in [Run -> SUBSET Date]
    /\ expenses \in [Run -> BOOLEAN]
    /\ hand \in [Run -> [Date -> Figure \cup {Nothing}]]
    /\ older \in [Run -> SUBSET Run]
    /\ beaten \in [Run -> SUBSET Date]
    /\ edits \in 0 .. MaxEdits
    /\ interruptions \in 0 .. MaxInterruptions

Empty == [d \in Date |-> Nothing]

Init ==
    /\ facts = Empty /\ ordered = {} /\ fresh = {} /\ edits = 0
    /\ base = {} /\ current = [d \in Date |-> None] /\ stale = [d \in Date |-> {}]
    /\ phase = [r \in Run |-> "idle"]
    /\ window = [r \in Run |-> {}] /\ expenses = [r \in Run |-> TRUE]
    /\ hand = [r \in Run |-> Empty]
    /\ older = [r \in Run |-> {}] /\ beaten = [r \in Run |-> {}]
    /\ gone = {} /\ torn = {}
    /\ interruptions = 0

-----------------------------------------------------------------------------
\* The fact tables change: a date gets new facts, or its last orders are cancelled.
Edit(d) ==
    /\ edits < MaxEdits
    /\ edits' = edits + 1
    /\ \/ /\ facts' = [facts EXCEPT ![d] = edits + 1]
          /\ ordered' \in {ordered, ordered \cup {d}}
       \/ /\ d \in ordered
          /\ facts' = [facts EXCEPT ![d] = Nothing]
          /\ UNCHANGED ordered
    /\ UNCHANGED <<fresh, base, table, run, gone, torn, interruptions>>

\* emit_silver_freshness; no entry is ever taken back.
Emit(d) ==
    /\ fresh' = fresh \cup {d}
    /\ UNCHANGED <<facts, ordered, edits, base, table, run, gone, torn, interruptions>>

Between(S) == {d \in Date : \E first, last \in S : first <= d /\ d <= last}

\* The freshness gate: a replay narrows its window to the first and last fresh date.
Gate(dates) == Between(dates \cap fresh)

\* A run begins; without a fresh date a replay returns at once.  A failed lookup
\* of the expenses counts them as 0.
Begin(r, dates) ==
    /\ phase[r] = "idle"
    /\ window' = [window EXCEPT ![r] = IF r \in Replay THEN Gate(dates) ELSE dates]
    /\ window'[r] # {}
    /\ \/ expenses' = [expenses EXCEPT ![r] = TRUE] /\ UNCHANGED interruptions
       \/ /\ interruptions < MaxInterruptions
          /\ interruptions' = interruptions + 1
          /\ expenses' = [expenses EXCEPT ![r] = FALSE]
    /\ phase' = [phase EXCEPT ![r] = "delete"]
    /\ UNCHANGED <<world, base, table, hand, older, beaten, gone, torn>>

Call(r) == \E lo, hi \in Date : lo <= hi /\ Begin(r, lo .. hi)

\* A bug: an exclusive end.
BeforeLast == {d \in Date : \E first, last \in ordered : first <= d /\ d < last}

\* --all: from the first to the last order date.
AllDates == Between(ordered)

CallAll(r) == Begin(r, AllDates)

\* A bug: a DELETE without its window.
WholeTable(r) == Date

\* The window the DELETE names.
Deleted(r) == window[r]

\* DELETE is a mutation: it takes the rows that are there now, whenever it is
\* carried out.  OPTIMIZE makes the run wait for that.
Delete(r) ==
    /\ phase[r] = "delete"
    /\ base' = base \ Deleted(r)
    /\ phase' = [phase EXCEPT ![r] = "read"]
    /\ UNCHANGED <<world, table, window, expenses, hand, older, beaten, gone, torn, interruptions>>

\* INSERT .. SELECT begins: the facts of the window as they are.
Read(r) ==
    /\ phase[r] = "read"
    /\ hand' = [hand EXCEPT ![r] = [d \in Date |-> IF d \in window[r] THEN facts[d] ELSE Nothing]]
    /\ older' = [older EXCEPT ![r] = {q \in Run : phase[q] = "write"}]
    /\ phase' = [phase EXCEPT ![r] = "write"]
    /\ UNCHANGED <<world, base, table, window, expenses, beaten, gone, torn, interruptions>>

\* The date spine: the dates the statement has a row for.
Spine(r) == {d \in Date : hand[r][d] # Nothing}

\* r is over; the dates it wrote are lost to the statements that began before it.
Ends(r, written) ==
    /\ older' = [q \in Run |-> IF q = r THEN {} ELSE older[q] \ {r}]
    /\ beaten' = [q \in Run |-> IF q = r THEN {}
              ELSE IF q \in older[r] THEN beaten[q] \cup written ELSE beaten[q]]
    /\ hand' = [hand EXCEPT ![r] = Empty]
    /\ phase' = [phase EXCEPT ![r] = "idle"]
    /\ window' = [window EXCEPT ![r] = {}]
    /\ expenses' = [expenses EXCEPT ![r] = TRUE]

\* The row of d that r has read.
RowOf(r, d) == [figure |-> hand[r][d], expenses |-> expenses[r]]

\* A bug: a table that keeps the row written last, whenever it was read.
LastWritten(r) == [d \in Date |-> IF d \in Spine(r) THEN RowOf(r, d) ELSE current[d]]

\* The rows that merges keep once r's are there too.
Newest(r) == [d \in Date |-> IF d \in Spine(r) \ beaten[r] THEN RowOf(r, d) ELSE current[d]]

\* What every ending INSERT .. SELECT does to the base table.
WriteBase(r) ==
    /\ phase[r] = "write"
    /\ base' = base \cup Spine(r)
    /\ gone' = (gone \ Spine(r)) \cup (window[r] \ Spine(r))
    /\ torn' = torn \ window[r]

\* The rows of d in the dashboards' table once r's is there too.
Rows(r, d) == stale[d] \cup {current[d]} \cup {RowOf(r, e) : e \in Spine(r) \cap {d}}

\* Its rows are there and, through the view, those of the dashboards.
Write(r) ==
    /\ WriteBase(r)
    /\ current' = Newest(r)
    /\ stale' = [d \in Date |-> Rows(r, d) \ {None, current'[d]}]
    /\ Ends(r, Spine(r))
    /\ UNCHANGED <<world, interruptions>>

\* The view fails: the base table has the rows and the statement raises.
WriteFailsInView(r) ==
    /\ WriteBase(r)
    /\ interruptions < MaxInterruptions
    /\ interruptions' = interruptions + 1
    /\ Ends(r, {})
    /\ UNCHANGED <<world, table>>

\* A run dies, or a statement raises: what it deleted stays deleted.
Die(r) ==
    /\ phase[r] # "idle" /\ interruptions < MaxInterruptions
    /\ interruptions' = interruptions + 1
    /\ torn' = IF phase[r] = "delete" THEN torn ELSE torn \cup window[r]
    /\ Ends(r, {})
    /\ UNCHANGED <<world, base, table, gone>>

\* A background merge takes rows of a date away, and keeps the newest of those it merges.
Merge(d) ==
    /\ \E kept \in SUBSET stale[d] : kept # stale[d] /\ stale' = [stale EXCEPT ![d] = kept]
    /\ UNCHANGED <<world, base, current, run, gone, torn, interruptions>>

Step(r) == Delete(r) \/ Read(r) \/ Write(r)

Next ==
    \/ \E d \in Date : Edit(d) \/ Emit(d) \/ Merge(d)
    \/ \E r \in Run : Call(r) \/ CallAll(r) \/ Step(r) \/ WriteFailsInView(r) \/ Die(r)

Spec == Init /\ [][Next]_vars

\* A run goes on; nothing in the repository calls one.
Fairness == \A r \in Run : WF_vars(Step(r))

FairSpec == Spec /\ Fairness

-----------------------------------------------------------------------------
\* The rows of d that query_metrics returns, the stale ones too.
Given(d) == ({current[d]} \ {None}) \cup stale[d]

\* Action property: no write and no merge takes from the dashboards the newest figure
\* they were given of a date, however runs overlap: what a merge keeps is the row of the
\* statement that read last, not of the one that wrote last.
NeverOlderFigures ==
    [][\A d \in Date : \A x \in Given(d) : \E y \in Given(d)' : y.figure >= x.figure]_vars

\* Safety: a date the dashboards show is missing from the base table only while a
\* run rewrites it, after one that died doing so, or because its facts went.
Rewriting(d) == \E r \in Run : phase[r] \in {"read", "write"} /\ d \in window[r]

GapsExplained ==
    \A d \in Date : Given(d) # {} /\ d \notin base => Rewriting(d) \/ d \in torn \cup gone

\* What the gate promises: a replay writes no date without an entry in the log.  It
\* fails for a stale date between two fresh ones.
ReplayWritesFreshDates ==
    [][\A r \in Replay, d \in Date :
         Write(r) /\ Given(d)' # Given(d) => d \in fresh]_vars

\* Refuted as it stands: what a reader of one row per date takes for granted.
OneRowPerDate == \A d \in Date : \A x, y \in Given(d) : x = y

\* Liveness: if --all is called again and again, and the facts settle, then the row that
\* merges keep comes to show them, on every date between the first and the last with an
\* order: overlapping runs, deaths, gaps and failed lookups are repaired.
Shown(d) == current[d] = [figure |-> facts[d], expenses |-> TRUE]

EventuallyShown ==
    (\E r \in Run \ Replay : []<><<CallAll(r)>>_vars)
        => \A d \in Date : <>[](d \in Between(ordered) /\ facts[d] # Nothing => Shown(d))
=============================================================================
