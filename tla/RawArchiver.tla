----------------------------- MODULE RawArchiver -----------------------------
(***************************************************************************)
(* The bronze raw archiver of ingestion-service                            *)
(* (interfaces/consumers/raw_archiver_consumer.py): members of one Kafka   *)
(* consumer group take messages off the integration topics, insert each    *)
(* into ClickHouse bronze, copy it to S3 and commit offsets by hand.       *)
(*                                                                         *)
(* Offsets count from 1: pos[p] is the last offset handed to the owner of  *)
(* partition p, committed[p] the last one it need not see again.  A commit *)
(* names no offsets, so it covers every partition of the committer.        *)
(***************************************************************************)
EXTENDS Naturals, Sequences, FiniteSets

CONSTANTS
    Archiver,         \* group members
    Partition,        \* partitions of the integrations.<vendor>.v1 topics
    None,             \* no message in hand
    MaxMessages,      \* bound: messages per partition
    MaxProduced,      \* bound: messages in all partitions
    MaxInterruptions  \* bound: rebalances, crashes and commits that fail

ASSUME ArchiverAssumption == MaxMessages \in Nat /\ MaxInterruptions \in Nat

\* event: parse_envelope accepts it.  noise: it is empty or does not parse.
Kind == {"event", "noise"}

Message == Partition \X (1 .. MaxMessages)

ASSUME NoneAssumption == None \notin Message

VARIABLES
    log,           \* the messages of each partition
    owner,         \* the group member each partition is assigned to
    pos,           \* the owner's position in it
    committed,     \* the group's committed offset
    phase,         \* what a member is doing; dead: its loop has ended
    hand,          \* the message it is inserting
    copies,        \* bronze: how many rows each message has become
    s3,            \* messages with a copy in S3
    failed,        \* messages whose insert raised
    interruptions

group == <<log, owner, pos>>
store == <<copies, s3, failed>>
vars  == <<log, owner, pos, committed, phase, hand, copies, s3, failed, interruptions>>

TypeOK ==
    /\ log \in [Partition -> Seq(Kind)]
    /\ owner \in [Partition -> Archiver]
    /\ pos \in [Partition -> 0 .. MaxMessages]
    /\ committed \in [Partition -> 0 .. MaxMessages]
    /\ \A p \in Partition : committed[p] <= pos[p] /\ pos[p] <= Len(log[p]) /\ Len(log[p]) <= MaxMessages
    /\ phase \in [Archiver -> {"poll", "insert", "commit", "skip", "dead"}]
    /\ hand \in [Archiver -> Message \cup {None}]
    /\ copies \in [Message -> Nat]
    /\ s3 \subseteq Message /\ failed \subseteq Message
    /\ interruptions \in 0 .. MaxInterruptions

Init ==
    /\ log = [p \in Partition |-> <<>>]
    /\ owner \in [Partition -> Archiver]
    /\ pos = [p \in Partition |-> 0] /\ committed = [p \in Partition |-> 0]
    /\ phase = [a \in Archiver |-> "poll"] /\ hand = [a \in Archiver |-> None]
    /\ copies = [m \in Message |-> 0] /\ s3 = {} /\ failed = {}
    /\ interruptions = 0

-----------------------------------------------------------------------------
Produced(m) == m[2] <= Len(log[m[1]])

\* The producers of the topics.
Produce(p, kind) ==
    /\ Len(log[p]) < MaxMessages /\ Cardinality({m \in Message : Produced(m)}) < MaxProduced
    /\ log' = [log EXCEPT ![p] = Append(@, kind)]
    /\ UNCHANGED <<owner, pos, committed, phase, hand, store, interruptions>>

\* The loop takes the next message of any partition it owns and parses it.  An
\* empty message or a ValueError of the parser is committed over; any other
\* error of the parser (an envelope that is no object) is logged like a failed
\* insert, and the loop goes on.
Poll(a, p) ==
    /\ phase[a] = "poll" /\ owner[p] = a /\ pos[p] < Len(log[p])
    /\ pos' = [pos EXCEPT ![p] = @ + 1]
    /\ \/ /\ log[p][pos[p] + 1] = "event"
          /\ phase' = [phase EXCEPT ![a] = "insert"]
          /\ hand' = [hand EXCEPT ![a] = <<p, pos[p] + 1>>]
       \/ /\ log[p][pos[p] + 1] = "noise"
          /\ phase' \in {phase, [phase EXCEPT ![a] = "skip"]}
          /\ UNCHANGED hand
    /\ UNCHANGED <<log, owner, committed, store, interruptions>>

\* The row is in ClickHouse; the S3 copy comes after it and may fail unnoticed.
Insert(a) ==
    /\ phase[a] = "insert"
    /\ copies' = [copies EXCEPT ![hand[a]] = @ + 1]
    /\ s3' \in {s3, s3 \cup {hand[a]}}
    /\ phase' = [phase EXCEPT ![a] = "commit"]
    /\ hand' = [hand EXCEPT ![a] = None]
    /\ UNCHANGED <<group, committed, failed, interruptions>>

\* A bug: a failed insert is tried until it works.
InsertFailsRetry(a) ==
    /\ phase[a] = "insert"
    /\ copies' \in {copies, [copies EXCEPT ![hand[a]] = @ + 1]}
    /\ failed' = failed \cup {hand[a]}
    /\ UNCHANGED <<group, committed, phase, hand, s3, interruptions>>

\* The insert raises, with or without the row being there (a lost reply).  The
\* loop logs it, commits nothing, and asks for the next message; a ValueError it
\* takes for a parse error, and commits.
InsertFails(a) ==
    /\ phase[a] = "insert"
    /\ copies' \in {copies, [copies EXCEPT ![hand[a]] = @ + 1]}
    /\ failed' = failed \cup {hand[a]}
    /\ \E next \in {"poll", "skip"} : phase' = [phase EXCEPT ![a] = next]
    /\ hand' = [hand EXCEPT ![a] = None]
    /\ UNCHANGED <<group, committed, s3, interruptions>>

\* A bug: consumed offsets are committed before the insert.
CommitEagerly(a) ==
    /\ phase[a] \in {"insert", "commit", "skip"}
    /\ committed' = [p \in Partition |-> IF owner[p] = a THEN pos[p] ELSE committed[p]]
    /\ phase' = [phase EXCEPT ![a] = IF @ = "insert" THEN "insert" ELSE "poll"]
    /\ UNCHANGED <<group, hand, store, interruptions>>

\* commit() without arguments: the positions of all partitions of the member.
Commit(a) ==
    /\ phase[a] \in {"commit", "skip"}
    /\ committed' = [p \in Partition |-> IF owner[p] = a THEN pos[p] ELSE committed[p]]
    /\ phase' = [phase EXCEPT ![a] = "poll"]
    /\ UNCHANGED <<group, hand, store, interruptions>>

\* A commit that raises after an insert is caught like a failed insert; one that
\* raises in the empty or poison branch leaves the loop and stops the consumer.
CommitFails(a) ==
    /\ interruptions < MaxInterruptions
    /\ interruptions' = interruptions + 1
    /\ phase[a] \in {"commit", "skip"}
    /\ phase' = [phase EXCEPT ![a] = IF @ = "commit" THEN "poll" ELSE "dead"]
    /\ UNCHANGED <<group, committed, hand, store>>

\* Bugs: a consumer that ignores the committed offset when it resumes.
ResumeAtEarliest(p) == 0
ResumeAtLatest(p) == Len(log[p])

\* Where the new owner of a partition resumes (auto_offset_reset only matters
\* when the group has no offset, and is then the same as offset 0).
ResumeAt(p) == committed[p]

\* The group moves a partition to another member, or back to the same one.
Rebalance(p, a) ==
    /\ interruptions < MaxInterruptions
    /\ interruptions' = interruptions + 1
    /\ phase[a] # "dead"
    /\ owner' = [owner EXCEPT ![p] = a]
    /\ pos' = [pos EXCEPT ![p] = ResumeAt(p)]
    /\ UNCHANGED <<log, committed, phase, hand, store>>

\* A member dies at any point.
Crash(a) ==
    /\ interruptions < MaxInterruptions
    /\ interruptions' = interruptions + 1
    /\ phase[a] # "dead"
    /\ phase' = [phase EXCEPT ![a] = "dead"]
    /\ hand' = [hand EXCEPT ![a] = None]
    /\ UNCHANGED <<group, committed, store>>

\* The group gives a partition of a member that has left it to one that has not.
Reassign(p, a) ==
    /\ phase[owner[p]] = "dead" /\ phase[a] # "dead"
    /\ owner' = [owner EXCEPT ![p] = a]
    /\ pos' = [pos EXCEPT ![p] = ResumeAt(p)]
    /\ UNCHANGED <<log, committed, phase, hand, store, interruptions>>

\* Somebody starts a consumer again whose process or loop has ended.
StartAgain(a) ==
    /\ phase[a] = "dead"
    /\ phase' = [phase EXCEPT ![a] = "poll"]
    /\ pos' = [p \in Partition |-> IF owner[p] = a THEN ResumeAt(p) ELSE pos[p]]
    /\ UNCHANGED <<log, owner, committed, hand, store, interruptions>>

Work(a) ==
    \/ \E p \in Partition : Poll(a, p)
    \/ Insert(a) \/ InsertFails(a)
    \/ Commit(a) \/ CommitFails(a)

Next ==
    \/ \E p \in Partition, kind \in Kind : Produce(p, kind)
    \/ \E a \in Archiver : Work(a) \/ Crash(a) \/ StartAgain(a)
    \/ \E p \in Partition, a \in Archiver : Rebalance(p, a) \/ Reassign(p, a)

Spec == Init /\ [][Next]_vars

\* A loop that runs is scheduled, no partition of a member starves (the fetcher
\* goes round them), and the group coordinator does its part.  Nothing in the
\* repository starts a consumer again: StartAgain may happen, and need not.
Fairness ==
    /\ \A a \in Archiver :
          /\ WF_vars(Work(a))
          /\ \A p \in Partition : SF_vars(Poll(a, p))
    /\ \A p \in Partition : WF_vars(\E a \in Archiver : Reassign(p, a))

FairSpec == Spec /\ Fairness

-----------------------------------------------------------------------------
IsEvent(m) == Produced(m) /\ log[m[1]][m[2]] = "event"
Committed(m) == m[2] <= committed[m[1]]
Archived(m) == copies[m] > 0

\* Safety: no message is skipped unseen.  Below a committed offset every event
\* was archived or its insert failed and was logged, across the partitions a
\* commit covers, rebalances in mid-message and restarts.
NothingSkipped == \A m \in Message : IsEvent(m) /\ Committed(m) => Archived(m) \/ m \in failed

\* Safety: duplicates are the price of interruptions only: without a rebalance,
\* restart or lost commit a message becomes one bronze row, and every such
\* interruption adds at most one.
DuplicatesBounded == \A m \in Message : copies[m] <= 1 + interruptions

\* Action property: the committed offset never moves back, whoever commits.
CommittedMonotone == [][\A p \in Partition : committed'[p] >= committed[p]]_vars

AllGone == \A a \in Archiver : phase[a] = "dead"

\* Liveness: every event produced is archived, or its insert fails and is logged,
\* or no consumer of the group is left: poison messages, failed inserts, rebalances
\* and members that die hold up no message behind them while one member lives.
EventuallyHandled ==
    \A m \in Message : [](IsEvent(m) => <>(Archived(m) \/ m \in failed \/ []AllGone))
=============================================================================
