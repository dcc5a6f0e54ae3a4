--------------------------- MODULE GraduationLedger ---------------------------
(***************************************************************************)
(* What the transform worker promises about bronze, with no batches,       *)
(* breakers or failures in sight: rows are settled once or more, a         *)
(* stream's mark stays behind an edge that moves with time, and of the     *)
(* rows that arrived ahead of the edge it passes none unless it, or a row  *)
(* of the same instant, is settled.                                        *)
(***************************************************************************)
EXTENDS Naturals

CONSTANTS
    Row,      \* records with the fields stream and at
    Stream,
    LastMark  \* the largest mark

VARIABLES
    edge,     \* an instant: marks stay behind it
    arrived,  \* the rows that are there to be settled
    late,     \* those that came when the edge had passed them: nothing is promised
    settled,  \* those decided: upserted, skipped or dead-lettered
    mark      \* per stream: rows up to here need not be looked at again

ledger == <<edge, arrived, late, settled, mark>>

Init ==
    /\ edge \in Nat
    /\ arrived = {} /\ late = {} /\ settled = {}
    /\ mark = [s \in Stream |-> 0]

Advance ==
    /\ edge' = edge + 1
    /\ UNCHANGED <<arrived, late, settled, mark>>

Arrive(r) ==
    /\ r \notin arrived
    /\ arrived' = arrived \cup {r}
    /\ late' = IF r.at <= edge THEN late \cup {r} ELSE late
    /\ UNCHANGED <<edge, settled, mark>>

Settle(r) ==
    /\ r \in arrived
    /\ settled' = settled \cup {r}
    /\ UNCHANGED <<edge, arrived, late, mark>>

\* The mark moves, forward or back, to a point below which all is settled.
MoveMark(s, t) ==
    /\ t <= edge
    /\ \A r \in arrived \ late : r.stream = s /\ r.at <= t
            => \E q \in settled : q.stream = s /\ q.at = r.at
    /\ mark' = [mark EXCEPT ![s] = t]
    /\ UNCHANGED <<edge, arrived, late, settled>>

Next ==
    \/ Advance
    \/ \E r \in Row : Arrive(r) \/ Settle(r)
    \/ \E s \in Stream, t \in 0 .. LastMark : MoveMark(s, t)

Spec == Init /\ [][Next]_ledger
=============================================================================
