-------------------------- MODULE RawArchiverProofs --------------------------
(***************************************************************************)
(* What RawArchiver guarantees for any number of members, partitions and   *)
(* messages: types, the committed offset, and that nothing below it was    *)
(* skipped unseen.                                                         *)
(***************************************************************************)
EXTENDS RawArchiver, FiniteSetTheorems, TLAPS

Busy == \A a \in Archiver : phase[a] = "insert" => hand[a] \in Message

TypeInv == TypeOK /\ Busy

LEMMA OffsetTypes ==
    ASSUME TypeInv
    PROVE  \A p \in Partition :
             /\ pos[p] \in Nat /\ committed[p] \in Nat /\ Len(log[p]) \in Nat
             /\ committed[p] <= pos[p] /\ pos[p] <= Len(log[p]) /\ Len(log[p]) <= MaxMessages
             /\ owner[p] \in Archiver
             /\ \A o \in 1 .. pos[p] : <<p, o>> \in Message
BY ArchiverAssumption DEF TypeInv, TypeOK, Message

LEMMA InitTypes == Init => TypeInv
<1> SUFFICES ASSUME Init PROVE TypeInv
    OBVIOUS
<1>1. TypeOK
    BY ArchiverAssumption DEF Init, TypeOK
<1>2. Busy
    BY DEF Init, Busy
<1>3. QED
    BY <1>1, <1>2 DEF TypeInv

LEMMA ProduceTypes ==
    ASSUME TypeInv, NEW p \in Partition, NEW kind \in Kind, Produce(p, kind)
    PROVE  TypeInv'
<1>1. /\ log[p] \in Seq(Kind)
      /\ Append(log[p], kind) \in Seq(Kind)
      /\ Len(Append(log[p], kind)) = Len(log[p]) + 1
      /\ Len(log[p]) \in Nat
    BY DEF TypeInv, TypeOK
<1>2. log' \in [Partition -> Seq(Kind)]
    BY <1>1 DEF Produce, TypeInv, TypeOK
<1>3. \A q \in Partition : log'[q] = IF q = p THEN Append(log[p], kind) ELSE log[q]
    BY DEF Produce, TypeInv, TypeOK
<1>4. \A q \in Partition : pos[q] <= Len(log'[q]) /\ Len(log'[q]) <= MaxMessages
    BY <1>1, <1>3, ArchiverAssumption DEF Produce, TypeInv, TypeOK
<1>5. UNCHANGED <<owner, pos, committed, phase, hand, copies, s3, failed, interruptions>>
    BY DEF Produce, store
<1>6. QED
    BY <1>2, <1>4, <1>5 DEF TypeInv, TypeOK, Busy

LEMMA PollTypes ==
    ASSUME TypeInv, NEW a \in Archiver, NEW p \in Partition, Poll(a, p)
    PROVE  TypeInv'
<1>1. pos[p] \in Nat /\ Len(log[p]) \in Nat /\ pos[p] + 1 \in 1 .. MaxMessages
    BY ArchiverAssumption DEF Poll, TypeInv, TypeOK
<1>2. /\ pos' \in [Partition -> 0 .. MaxMessages]
      /\ \A q \in Partition : pos'[q] = IF q = p THEN pos[p] + 1 ELSE pos[q]
    BY <1>1 DEF Poll, TypeInv, TypeOK
<1>3. <<p, pos[p] + 1>> \in Message
    BY <1>1 DEF Message
<1>4. hand' \in [Archiver -> Message \cup {None}]
    BY <1>3 DEF Poll, TypeInv, TypeOK
<1>5. phase' \in [Archiver -> {"poll", "insert", "commit", "skip", "dead"}]
    BY DEF Poll, TypeInv, TypeOK
<1>6. UNCHANGED <<log, owner, committed, copies, s3, failed, interruptions>>
    BY DEF Poll, store
<1>7. \A q \in Partition : committed[q] <= pos'[q] /\ pos'[q] <= Len(log[q])
    BY <1>1, <1>2, ArchiverAssumption DEF Poll, TypeInv, TypeOK
<1>8. TypeOK'
    BY <1>2, <1>4, <1>5, <1>6, <1>7 DEF TypeInv, TypeOK
<1>9. Busy'
    BY <1>3 DEF Poll, Busy, TypeInv, TypeOK
<1>10. QED
    BY <1>8, <1>9 DEF TypeInv

LEMMA InsertTypes ==
    ASSUME TypeInv, NEW a \in Archiver, Insert(a) \/ InsertFails(a)
    PROVE  TypeInv'
<1>1. hand[a] \in Message
    BY DEF Insert, InsertFails, TypeInv, Busy
<1>2. copies' \in [Message -> Nat]
    <2>1. [copies EXCEPT ![hand[a]] = @ + 1] \in [Message -> Nat]
        BY <1>1 DEF TypeInv, TypeOK
    <2>2. QED
        BY <2>1 DEF Insert, InsertFails, TypeInv, TypeOK
<1>sets. s3' \subseteq Message /\ failed' \subseteq Message
    <2>1. CASE Insert(a)
        BY <1>1, <2>1 DEF Insert, TypeInv, TypeOK
    <2>2. CASE InsertFails(a)
        BY <1>1, <2>2 DEF InsertFails, TypeInv, TypeOK
    <2>3. QED
        BY <2>1, <2>2
<1>3. /\ phase' \in [Archiver -> {"poll", "insert", "commit", "skip", "dead"}]
      /\ hand' \in [Archiver -> Message \cup {None}]
      /\ UNCHANGED <<log, owner, pos, committed, interruptions>>
    BY DEF Insert, InsertFails, group, TypeInv, TypeOK
<1>4. Busy'
    BY DEF Insert, InsertFails, Busy, TypeInv, TypeOK
<1>5. QED
    BY <1>2, <1>3, <1>4, <1>sets DEF TypeInv, TypeOK

LEMMA CommitTypes ==
    ASSUME TypeInv, NEW a \in Archiver, Commit(a) \/ CommitFails(a)
    PROVE  TypeInv'
<1>1. /\ committed' \in [Partition -> 0 .. MaxMessages]
      /\ \A p \in Partition : committed'[p] \in {committed[p], pos[p]}
    BY DEF Commit, CommitFails, TypeInv, TypeOK
<1>2. \A p \in Partition : committed'[p] <= pos[p]
    BY <1>1, OffsetTypes
<1>3. /\ hand' \in [Archiver -> Message \cup {None}]
      /\ UNCHANGED <<log, owner, pos, copies, s3, failed>>
    BY DEF Commit, CommitFails, group, store, TypeInv, TypeOK
<1>count. interruptions' \in 0 .. MaxInterruptions
    BY ArchiverAssumption DEF Commit, CommitFails, TypeInv, TypeOK
<1>phase. phase' \in [Archiver -> {"poll", "insert", "commit", "skip", "dead"}]
    <2>1. \A x \in {"poll", "dead"} :
            [phase EXCEPT ![a] = x] \in [Archiver -> {"poll", "insert", "commit", "skip", "dead"}]
        BY DEF TypeInv, TypeOK
    <2>2. \E x \in {"poll", "dead"} : phase' = [phase EXCEPT ![a] = x]
        BY DEF Commit, CommitFails, TypeInv, TypeOK
    <2>3. QED
        BY <2>1, <2>2
<1>4. Busy'
    BY DEF Commit, CommitFails, Busy, TypeInv, TypeOK
<1>5. QED
    BY <1>1, <1>2, <1>3, <1>4, <1>phase, <1>count DEF TypeInv, TypeOK

\* Resuming takes a position back to the committed offset, at most.
LEMMA ResumeTypes ==
    ASSUME TypeInv,
           pos' \in [Partition -> 0 .. MaxMessages],
           \A p \in Partition : pos'[p] \in {pos[p], committed[p]},
           UNCHANGED <<log, committed, store>>
    PROVE  \A p \in Partition : committed'[p] <= pos'[p] /\ pos'[p] <= Len(log'[p])
BY OffsetTypes

LEMMA RestartTypes ==
    ASSUME TypeInv, NEW a \in Archiver, Crash(a) \/ StartAgain(a)
    PROVE  TypeInv'
<1>1. /\ pos' \in [Partition -> 0 .. MaxMessages]
      /\ \A p \in Partition : pos'[p] \in {pos[p], committed[p]}
    BY DEF Crash, StartAgain, ResumeAt, group, TypeInv, TypeOK
<1>2. /\ phase' \in [Archiver -> {"poll", "insert", "commit", "skip", "dead"}]
      /\ hand' \in [Archiver -> Message \cup {None}]
      /\ UNCHANGED <<log, owner, committed, copies, s3, failed>>
    BY DEF Crash, StartAgain, group, store, TypeInv, TypeOK
<1>count. interruptions' \in 0 .. MaxInterruptions
    BY ArchiverAssumption DEF Crash, StartAgain, TypeInv, TypeOK
<1>3. \A p \in Partition : committed'[p] <= pos'[p] /\ pos'[p] <= Len(log'[p])
    BY <1>1, <1>2, ResumeTypes DEF store
<1>4. Busy'
    BY DEF Crash, StartAgain, Busy, TypeInv, TypeOK
<1>5. QED
    BY <1>1, <1>2, <1>3, <1>4, <1>count DEF TypeInv, TypeOK

LEMMA RebalanceTypes ==
    ASSUME TypeInv, NEW a \in Archiver, NEW p \in Partition, Rebalance(p, a) \/ Reassign(p, a)
    PROVE  TypeInv'
<1>1. /\ pos' \in [Partition -> 0 .. MaxMessages]
      /\ \A q \in Partition : pos'[q] \in {pos[q], committed[q]}
    BY DEF Rebalance, Reassign, ResumeAt, TypeInv, TypeOK
<1>2. owner' \in [Partition -> Archiver] /\ UNCHANGED <<log, committed, phase, hand, copies, s3, failed>>
    BY DEF Rebalance, Reassign, store, TypeInv, TypeOK
<1>count. interruptions' \in 0 .. MaxInterruptions
    BY ArchiverAssumption DEF Rebalance, Reassign, TypeInv, TypeOK
<1>3. \A q \in Partition : committed'[q] <= pos'[q] /\ pos'[q] <= Len(log'[q])
    BY <1>1, <1>2, ResumeTypes DEF store
<1>4. QED
    BY <1>1, <1>2, <1>3, <1>count DEF TypeInv, TypeOK, Busy

LEMMA NextTypes == TypeInv /\ [Next]_vars => TypeInv'
<1> SUFFICES ASSUME TypeInv, [Next]_vars PROVE TypeInv'
    OBVIOUS
<1>1. CASE UNCHANGED vars
    BY <1>1 DEF vars, TypeInv, TypeOK, Busy
<1>2. QED
    BY <1>1, ProduceTypes, PollTypes, InsertTypes, CommitTypes, RestartTypes, RebalanceTypes DEF Next, Work

\* Every reachable state is well typed: a committed offset never passes the
\* owner's position, nor a position the end of its partition.
THEOREM TypeCorrect == Spec => []TypeOK
<1>1. TypeInv => TypeOK
    BY DEF TypeInv
<1>2. QED
    BY <1>1, InitTypes, NextTypes, PTL DEF Spec

\* The committed offset of a partition never moves back, whoever commits it.
THEOREM Monotone == Spec => CommittedMonotone
<1>1. ASSUME TypeInv, [Next]_vars, NEW p \in Partition PROVE committed'[p] >= committed[p]
    <2>1. committed[p] \in Nat /\ pos[p] \in Nat /\ committed[p] <= pos[p]
        BY <1>1, ArchiverAssumption DEF TypeInv, TypeOK
    <2>2. committed'[p] \in {committed[p], pos[p]}
        BY <1>1 DEF Next, Work, Produce, Poll, Insert, InsertFails, Commit, CommitFails, Crash,
               StartAgain, Rebalance, Reassign, group, vars, TypeInv, TypeOK
    <2>3. QED
        BY <2>1, <2>2
<1>2. TypeInv /\ [Next]_vars => [\A p \in Partition : committed'[p] >= committed[p]]_vars
    BY <1>1
<1>3. QED
    BY <1>2, InitTypes, NextTypes, PTL DEF Spec, CommittedMonotone

-----------------------------------------------------------------------------
(* Nothing skipped.  Up to an owner's position every event has been dealt  *)
(* with, except the one the owner is inserting, which is not committed; or *)
(* the owner is gone, and its successor resumes at the committed offset.   *)

Dealt(m) == Archived(m) \/ m \in failed

InHand(p, o) ==
    /\ committed[p] < o
    /\ \/ phase[owner[p]] = "insert" /\ hand[owner[p]] = <<p, o>>
       \/ phase[owner[p]] = "dead"

Seen ==
    \A p \in Partition : \A o \in 1 .. pos[p] :
        log[p][o] = "event" => Dealt(<<p, o>>) \/ InHand(p, o)

SeenInv == TypeInv /\ Seen

\* Dealing with messages is for good.
LEMMA DealtStays ==
    ASSUME TypeInv, [Next]_vars, NEW m \in Message, Dealt(m)
    PROVE  Dealt(m)'
<1>1. ASSUME NEW a \in Archiver, Insert(a) \/ InsertFails(a) PROVE copies'[m] >= copies[m]
    <2>1. copies' \in {copies, [copies EXCEPT ![hand[a]] = @ + 1]}
        BY <1>1 DEF Insert, InsertFails
    <2>2. copies[m] \in Nat /\ copies \in [Message -> Nat] /\ hand[a] \in Message
        BY <1>1 DEF Insert, InsertFails, TypeInv, TypeOK, Busy
    <2>3. copies'[m] \in {copies[m], copies[m] + 1}
        BY <2>1, <2>2
    <2>4. QED
        BY <2>2, <2>3
<1>2. copies'[m] >= copies[m]
    <2>1. CASE copies' = copies
        BY <2>1 DEF TypeInv, TypeOK
    <2>2. QED
        BY <1>1, <2>1 DEF Next, Work, Produce, Poll, Commit, CommitFails, Crash, StartAgain, Rebalance,
               Reassign, store, vars
<1>3. failed \subseteq failed'
    BY DEF Next, Work, Produce, Poll, Insert, InsertFails, Commit, CommitFails, Crash,
           StartAgain, Rebalance, Reassign, store, vars
<1>4. copies[m] \in Nat /\ copies'[m] \in Nat
    BY NextTypes DEF TypeInv, TypeOK
<1>5. QED
    BY <1>2, <1>3, <1>4 DEF Dealt, Archived

LEMMA NextSeen == SeenInv /\ [Next]_vars => SeenInv'
<1> SUFFICES ASSUME SeenInv, [Next]_vars PROVE SeenInv'
    OBVIOUS
<1>1. TypeInv /\ TypeInv'
    BY NextTypes DEF SeenInv
<1>2. SUFFICES ASSUME NEW p \in Partition, NEW o \in 1 .. pos'[p], log'[p][o] = "event"
               PROVE  Dealt(<<p, o>>)' \/ InHand(p, o)'
    BY <1>1 DEF SeenInv, Seen
<1>bound. pos'[p] \in 0 .. MaxMessages
    BY <1>1 DEF TypeInv, TypeOK
<1>3. /\ pos[p] \in Nat /\ committed[p] \in Nat /\ committed[p] <= pos[p] /\ owner[p] \in Archiver
      /\ pos'[p] \in Nat /\ o \in Nat /\ <<p, o>> \in Message
    BY <1>1, <1>bound, OffsetTypes, ArchiverAssumption DEF Message
<1>4. Dealt(<<p, o>>) => Dealt(<<p, o>>)'
    BY <1>1, <1>3, DealtStays
<1>5. ASSUME o <= pos[p], log[p][o] = "event" PROVE Dealt(<<p, o>>) \/ InHand(p, o)
    BY <1>3, <1>5 DEF SeenInv, Seen
<1>6. ASSUME NEW q \in Partition, NEW kind \in Kind, Produce(q, kind)
      PROVE  Dealt(<<p, o>>)' \/ InHand(p, o)'
    <2>1. pos' = pos /\ o <= Len(log[p]) /\ log[p] \in Seq(Kind)
        BY <1>1, <1>3, <1>6, OffsetTypes DEF Produce, TypeInv, TypeOK
    <2>2. log'[p][o] = log[p][o]
        BY <1>1, <1>3, <1>6, <2>1 DEF Produce, TypeInv, TypeOK
    <2>3. QED
        BY <1>2, <1>3, <1>4, <1>5, <1>6, <2>1, <2>2 DEF Produce, InHand
<1>7. ASSUME NEW a \in Archiver, NEW q \in Partition, Poll(a, q)
      PROVE  Dealt(<<p, o>>)' \/ InHand(p, o)'
    <2>1. UNCHANGED <<log, owner, committed>>
        BY <1>7 DEF Poll
    <2>2. CASE o <= pos[p]
        <3>1. Dealt(<<p, o>>) \/ InHand(p, o)
            BY <1>2, <1>5, <2>1, <2>2
        <3>2. InHand(p, o) => InHand(p, o)'
            BY <1>1, <1>3, <1>7, <2>1 DEF Poll, InHand, TypeInv, TypeOK
        <3>3. QED
            BY <1>4, <3>1, <3>2
    <2>3. CASE ~(o <= pos[p])
        <3>1. q = p /\ o = pos[p] + 1
            BY <1>1, <1>3, <1>7, <2>3 DEF Poll, TypeInv, TypeOK
        <3>2. InHand(p, o)'
            BY <1>1, <1>2, <1>3, <1>7, <2>1, <3>1 DEF Poll, InHand, TypeInv, TypeOK
        <3>3. QED
            BY <3>2
    <2>4. QED
        BY <2>2, <2>3
<1>8. ASSUME NEW a \in Archiver, Insert(a) \/ InsertFails(a)
      PROVE  Dealt(<<p, o>>)' \/ InHand(p, o)'
    <2>1. UNCHANGED <<log, owner, pos, committed>>
        BY <1>8 DEF Insert, InsertFails, group
    <2>2. Dealt(<<p, o>>) \/ InHand(p, o)
        BY <1>2, <1>3, <1>5, <2>1
    <2>3. CASE InHand(p, o) /\ owner[p] = a
        <3>1. hand[a] = <<p, o>> /\ copies[<<p, o>>] \in Nat
            BY <1>1, <1>3, <1>8, <2>3 DEF Insert, InsertFails, InHand, TypeInv, TypeOK
        <3>2. QED
            BY <1>1, <1>3, <1>8, <3>1 DEF Insert, InsertFails, Dealt, Archived, TypeInv, TypeOK
    <2>4. CASE InHand(p, o) /\ owner[p] # a
        BY <1>1, <1>3, <1>8, <2>1, <2>4 DEF Insert, InsertFails, InHand, TypeInv, TypeOK
    <2>5. QED
        BY <1>4, <2>2, <2>3, <2>4
<1>9. ASSUME NEW a \in Archiver, Commit(a) \/ CommitFails(a)
      PROVE  Dealt(<<p, o>>)' \/ InHand(p, o)'
    <2>1. UNCHANGED <<log, owner, pos>>
        BY <1>9 DEF Commit, CommitFails, group
    <2>2. Dealt(<<p, o>>) \/ InHand(p, o)
        BY <1>2, <1>3, <1>5, <2>1
    <2>3. ASSUME InHand(p, o) PROVE InHand(p, o)'
        <3>1. owner[p] # a
            BY <1>9, <2>3 DEF Commit, CommitFails, InHand
        <3>2. committed'[p] = committed[p]
            BY <1>9, <3>1 DEF Commit, CommitFails
        <3>3. phase'[owner[p]] = phase[owner[p]] /\ hand'[owner[p]] = hand[owner[p]]
            BY <1>1, <1>3, <1>9, <3>1 DEF Commit, CommitFails, TypeInv, TypeOK
        <3>4. QED
            BY <2>1, <2>3, <3>2, <3>3 DEF InHand
    <2>4. QED
        BY <1>4, <2>2, <2>3
<1>10. ASSUME NEW a \in Archiver, Crash(a) \/ StartAgain(a)
       PROVE  Dealt(<<p, o>>)' \/ InHand(p, o)'
    <2>1. /\ UNCHANGED <<log, owner, committed>>
          /\ pos'[p] \in {pos[p], committed[p]}
          /\ owner[p] = a => phase'[a] = "dead" \/ pos'[p] = committed[p]
        BY <1>1, <1>3, <1>10 DEF Crash, StartAgain, ResumeAt, group, TypeInv, TypeOK
    <2>2. Dealt(<<p, o>>) \/ InHand(p, o)
        BY <1>2, <1>3, <1>5, <2>1
    <2>3. ASSUME InHand(p, o) PROVE InHand(p, o)'
        <3>1. CASE owner[p] = a
            BY <1>2, <1>3, <2>1, <2>3, <3>1 DEF InHand
        <3>2. CASE owner[p] # a
            BY <1>1, <1>3, <1>10, <2>1, <2>3, <3>2 DEF Crash, StartAgain, InHand, TypeInv, TypeOK
        <3>3. QED
            BY <3>1, <3>2
    <2>4. QED
        BY <1>4, <2>2, <2>3
<1>11. ASSUME NEW a \in Archiver, NEW q \in Partition, Rebalance(q, a) \/ Reassign(q, a)
       PROVE  Dealt(<<p, o>>)' \/ InHand(p, o)'
    <2>1. /\ UNCHANGED <<log, committed, phase, hand>>
          /\ pos'[p] = IF p = q THEN committed[p] ELSE pos[p]
          /\ owner'[p] = IF p = q THEN a ELSE owner[p]
        BY <1>1, <1>11 DEF Rebalance, Reassign, ResumeAt, TypeInv, TypeOK
    <2>2. Dealt(<<p, o>>) \/ InHand(p, o)
        BY <1>2, <1>3, <1>5, <2>1
    <2>3. ASSUME InHand(p, o) PROVE InHand(p, o)'
        BY <1>2, <1>3, <2>1, <2>3 DEF InHand
    <2>4. QED
        BY <1>4, <2>2, <2>3
<1>12. ASSUME UNCHANGED vars PROVE Dealt(<<p, o>>)' \/ InHand(p, o)'
    BY <1>2, <1>3, <1>5, <1>12 DEF vars, Dealt, Archived, InHand
<1>13. QED
    BY <1>6, <1>7, <1>8, <1>9, <1>10, <1>11, <1>12 DEF Next, Work

LEMMA SeenNothingSkipped == SeenInv => NothingSkipped
<1> SUFFICES ASSUME SeenInv, NEW m \in Message, IsEvent(m), Committed(m)
             PROVE  Dealt(m)
    BY DEF NothingSkipped, Dealt
<1>1. PICK p \in Partition, o \in 1 .. MaxMessages : m = <<p, o>>
    BY DEF Message
<1>2. o \in 1 .. pos[p] /\ committed[p] \in Nat /\ o <= committed[p] /\ log[p][o] = "event"
    BY <1>1, OffsetTypes, ArchiverAssumption DEF SeenInv, Committed, IsEvent
<1>3. Dealt(<<p, o>>) \/ InHand(p, o)
    BY <1>2 DEF SeenInv, Seen
<1>4. QED
    BY <1>1, <1>2, <1>3 DEF InHand

LEMMA SpecSeen == Spec => []SeenInv
<1>1. Init => SeenInv
    <2> SUFFICES ASSUME Init PROVE Seen
        BY InitTypes DEF SeenInv
    <2>1. \A p \in Partition : 1 .. pos[p] = {}
        BY DEF Init
    <2>2. QED
        BY <2>1 DEF Seen
<1>2. QED
    BY <1>1, NextSeen, PTL DEF Spec

\* Below a committed offset every event was archived or its insert failed, for
\* any number of members, partitions, rebalances and restarts.
THEOREM NoneSkipped == Spec => []NothingSkipped
<1>1. QED
    BY SpecSeen, SeenNothingSkipped, PTL

-----------------------------------------------------------------------------
(* Duplicates.  A row of bronze may still come of every member that holds   *)
(* the message and of the owner that has yet to be handed it; a member that *)
(* has stopped will begin again at the committed offset.                    *)

Holders(m) == {a \in Archiver : phase[a] = "insert" /\ hand[a] = m}

Ahead(m) == pos[m[1]] < m[2] \/ phase[owner[m[1]]] = "dead"
Due(m) == IF Ahead(m) THEN 1 ELSE 0

Weight(m) == copies[m] + Cardinality(Holders(m)) + Due(m)

BoundedAt(m) == IsFiniteSet(Holders(m)) /\ Weight(m) <= 1 + interruptions

Bounded == \A m \in Message : BoundedAt(m)

\* What a weight is made of.
LEMMA WeightTypes ==
    ASSUME TypeInv, NEW m \in Message, IsFiniteSet(Holders(m))
    PROVE  copies[m] \in Nat /\ Cardinality(Holders(m)) \in Nat /\ Due(m) \in {0, 1} /\ interruptions \in Nat
BY FS_CardinalityType, ArchiverAssumption DEF TypeInv, TypeOK, Due

\* A step that hands the message to nobody and inserts nothing; an interruption pays
\* for one more delivery.
LEMMA NoneHanded ==
    ASSUME TypeInv, TypeInv', NEW m \in Message, BoundedAt(m),
           Holders(m)' \subseteq Holders(m), copies'[m] = copies[m],
           \/ interruptions' = interruptions + 1
           \/ interruptions' = interruptions /\ (Ahead(m)' => Ahead(m))
    PROVE  BoundedAt(m)'
<1>1. IsFiniteSet(Holders(m))' /\ Cardinality(Holders(m)') <= Cardinality(Holders(m))
    BY FS_Subset DEF BoundedAt
<1>2. /\ Cardinality(Holders(m)) \in Nat /\ Due(m) \in {0, 1} /\ interruptions \in Nat /\ copies[m] \in Nat
      /\ Cardinality(Holders(m)') \in Nat /\ Due(m)' \in {0, 1}
    BY <1>1, WeightTypes, FS_CardinalityType DEF BoundedAt, Due
<1>3. interruptions' = interruptions => Due(m)' <= Due(m)
    BY <1>2 DEF Due
<1>4. Weight(m)' <= 1 + interruptions'
    BY <1>1, <1>2, <1>3 DEF BoundedAt, Weight
<1>5. QED
    BY <1>1, <1>4 DEF BoundedAt

\* A delivery: what was due to the owner is in its hand.
LEMMA PollBounded ==
    ASSUME TypeInv, TypeInv', NEW m \in Message, BoundedAt(m),
           NEW a \in Archiver, NEW p \in Partition, Poll(a, p)
    PROVE  BoundedAt(m)'
<1>1. /\ pos[p] \in Nat /\ owner[p] = a /\ owner' = owner
      /\ \A q \in Partition : pos[q] \in Nat /\ pos'[q] = IF q = p THEN pos[p] + 1 ELSE pos[q]
      /\ UNCHANGED <<copies, interruptions>>
    BY OffsetTypes DEF Poll, store, TypeInv, TypeOK
<1>2. \A b \in Archiver : /\ b # a => phase'[b] = phase[b] /\ hand'[b] = hand[b]
                          /\ phase[a] = "poll" /\ phase'[a] \in {"insert", "skip", "poll"}
                          /\ phase'[a] = "insert" => hand'[a] = <<p, pos[p] + 1>>
    BY DEF Poll, TypeInv, TypeOK
<1>3. m[1] \in Partition /\ m[2] \in Nat /\ m = <<m[1], m[2]>> /\ owner[m[1]] \in Archiver
    BY ArchiverAssumption, OffsetTypes DEF Message
<1>4. CASE m # <<p, pos[p] + 1>>
    <2>1. Holders(m)' \subseteq Holders(m)
        BY <1>2, <1>4 DEF Holders
    <2>2. Ahead(m)' => Ahead(m)
        BY <1>1, <1>2, <1>3 DEF Ahead
    <2>3. QED
        BY <1>1, <2>1, <2>2, NoneHanded
<1>5. CASE m = <<p, pos[p] + 1>>
    <2>1. Holders(m)' \subseteq Holders(m) \cup {a}
        BY <1>2 DEF Holders
    <2>2. /\ IsFiniteSet(Holders(m) \cup {a})
          /\ Cardinality(Holders(m) \cup {a}) <= Cardinality(Holders(m)) + 1
          /\ Cardinality(Holders(m)) \in Nat
        <3> DEFINE H == Holders(m)
        <3>1. IsFiniteSet(H)
            BY DEF BoundedAt
        <3> HIDE DEF H
        <3>2. /\ IsFiniteSet(H \cup {a}) /\ Cardinality(H) \in Nat
              /\ Cardinality(H \cup {a}) = IF a \in H THEN Cardinality(H) ELSE Cardinality(H) + 1
            BY <3>1, FS_AddElement, FS_CardinalityType
        <3>3. QED
            BY <3>2 DEF H
    <2>3. IsFiniteSet(Holders(m))' /\ Cardinality(Holders(m)') <= Cardinality(Holders(m) \cup {a})
        BY <2>1, <2>2, FS_Subset
    <2>4. Ahead(m) /\ ~Ahead(m)'
        BY <1>1, <1>2, <1>5 DEF Ahead
    <2>5. Cardinality(Holders(m)') \in Nat /\ Cardinality(Holders(m) \cup {a}) \in Nat
          /\ copies[m] \in Nat /\ interruptions \in Nat
        BY <2>2, <2>3, FS_CardinalityType, WeightTypes DEF BoundedAt
    <2>6. Weight(m)' <= 1 + interruptions'
        BY <1>1, <2>2, <2>3, <2>4, <2>5 DEF BoundedAt, Weight, Due
    <2>7. QED
        BY <2>3, <2>6 DEF BoundedAt
<1>6. QED
    BY <1>4, <1>5

\* An insert: the row comes of the hand that held the message.
LEMMA InsertBounded ==
    ASSUME TypeInv, TypeInv', NEW m \in Message, BoundedAt(m),
           NEW a \in Archiver, Insert(a) \/ InsertFails(a)
    PROVE  BoundedAt(m)'
<1>1. /\ UNCHANGED <<owner, pos, interruptions>> /\ phase[a] = "insert" /\ hand[a] \in Message
      /\ copies' \in {copies, [copies EXCEPT ![hand[a]] = @ + 1]}
    BY DEF Insert, InsertFails, group, TypeInv, Busy
<1>2. /\ phase'[a] \in {"commit", "poll", "skip"}
      /\ \A b \in Archiver : b # a => phase'[b] = phase[b] /\ hand'[b] = hand[b]
    BY DEF Insert, InsertFails, TypeInv, TypeOK
<1>3. m[1] \in Partition /\ owner[m[1]] \in Archiver
    BY OffsetTypes DEF Message
<1>4. Ahead(m)' => Ahead(m)
    BY <1>1, <1>2, <1>3 DEF Ahead
<1>5. Holders(m)' = Holders(m) \ {a}
    BY <1>2 DEF Holders
<1>6. CASE copies'[m] = copies[m]
    BY <1>1, <1>4, <1>5, <1>6, NoneHanded
<1>7. CASE copies'[m] # copies[m]
    <2>1. hand[a] = m /\ copies'[m] = copies[m] + 1 /\ a \in Holders(m)
        BY <1>1, <1>7 DEF Holders, TypeInv, TypeOK
    <2>2. IsFiniteSet(Holders(m))' /\ Cardinality(Holders(m)') = Cardinality(Holders(m)) - 1
        BY <1>5, <2>1, FS_RemoveElement DEF BoundedAt
    <2>3. /\ copies[m] \in Nat /\ Cardinality(Holders(m)) \in Nat /\ Due(m) \in {0, 1} /\ interruptions \in Nat
          /\ Due(m)' \in {0, 1} /\ Due(m)' <= Due(m)
        BY <1>4, WeightTypes DEF BoundedAt, Due
    <2>4. Weight(m)' <= 1 + interruptions'
        BY <1>1, <2>1, <2>2, <2>3 DEF BoundedAt, Weight
    <2>5. QED
        BY <2>2, <2>4 DEF BoundedAt
<1>8. QED
    BY <1>6, <1>7

\* Every other step hands nothing out and inserts nothing.
LEMMA OtherBounded ==
    ASSUME TypeInv, TypeInv', NEW m \in Message, BoundedAt(m),
           \/ \E p \in Partition, kind \in Kind : Produce(p, kind)
           \/ \E a \in Archiver : Commit(a) \/ CommitFails(a) \/ Crash(a) \/ StartAgain(a)
           \/ \E p \in Partition, a \in Archiver : Rebalance(p, a) \/ Reassign(p, a)
           \/ UNCHANGED vars
    PROVE  BoundedAt(m)'
<1>1. copies' = copies
    BY DEF Produce, Commit, CommitFails, Crash, StartAgain, Rebalance, Reassign, store, vars
<1>2. Holders(m)' \subseteq Holders(m)
    BY DEF Produce, Commit, CommitFails, Crash, StartAgain, Rebalance, Reassign, vars, Holders, TypeInv, TypeOK
<1>3. m[1] \in Partition /\ owner[m[1]] \in Archiver
    BY OffsetTypes DEF Message
<1>4. ASSUME NEW a \in Archiver, Commit(a) PROVE Ahead(m)' => Ahead(m)
    BY <1>3, <1>4 DEF Commit, group, Ahead, TypeInv, TypeOK
<1>5. ASSUME NEW a \in Archiver, StartAgain(a) PROVE Ahead(m)' => Ahead(m)
    BY <1>3, <1>5 DEF StartAgain, Ahead, TypeInv, TypeOK
<1>9. ASSUME NEW a \in Archiver, NEW p \in Partition, Reassign(p, a) PROVE Ahead(m)' => Ahead(m)
    BY <1>3, <1>9 DEF Reassign, Ahead, TypeInv, TypeOK
<1>6. ASSUME UNCHANGED <<owner, pos, phase>> PROVE Ahead(m)' => Ahead(m)
    BY <1>6 DEF Ahead
<1>7. \/ interruptions' = interruptions + 1
      \/ interruptions' = interruptions /\ (Ahead(m)' => Ahead(m))
    BY <1>4, <1>5, <1>6, <1>9 DEF Produce, Commit, CommitFails, Crash, StartAgain, Rebalance, Reassign, vars
<1>8. QED
    BY <1>1, <1>2, <1>7, NoneHanded

LEMMA InitBounded == Init => Bounded
<1> SUFFICES ASSUME Init, NEW m \in Message PROVE BoundedAt(m)
    BY DEF Bounded
<1>1. Holders(m) = {} /\ copies[m] = 0 /\ interruptions = 0
    BY DEF Init, Holders
<1>2. QED
    BY <1>1, FS_EmptySet DEF BoundedAt, Weight, Due

\* A message becomes at most one row of bronze, and one more for each rebalance,
\* restart or lost commit, for any number of members and partitions.
THEOREM Duplicates == Spec => []DuplicatesBounded
<1>1. TypeInv /\ Bounded /\ [Next]_vars => Bounded'
    <2> SUFFICES ASSUME TypeInv, Bounded, [Next]_vars, NEW m \in Message PROVE BoundedAt(m)'
        BY DEF Bounded
    <2>1. TypeInv' /\ BoundedAt(m)
        BY NextTypes DEF Bounded
    <2>2. QED
        BY <2>1, PollBounded, InsertBounded, OtherBounded DEF Next, Work
<1>2. TypeInv /\ Bounded => DuplicatesBounded
    <2> SUFFICES ASSUME TypeInv, Bounded, NEW m \in Message PROVE copies[m] <= 1 + interruptions
        BY DEF DuplicatesBounded
    <2>1. BoundedAt(m)
        BY DEF Bounded
    <2>2. QED
        BY <2>1, WeightTypes DEF BoundedAt, Weight
<1>3. QED
    BY <1>1, <1>2, InitTypes, InitBounded, NextTypes, PTL DEF Spec
=============================================================================
