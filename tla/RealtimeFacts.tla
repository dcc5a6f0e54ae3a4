----------------------------- MODULE RealtimeFacts -----------------------------
(***************************************************************************)
(* The realtime facts consumer of api-gateway                              *)
(* (infrastructure/realtime-facts-consumer.ts): the members of one group   *)
(* read a partition of integrations.shopify.v1 and write each order to     *)
(* PostgreSQL, where the last write wins, and to ClickHouse, where the     *)
(* highest version wins, the version being the message's timestamp.        *)
(*                                                                         *)
(* kafkajs hands a member one message at a time and commits between two of *)
(* them; a member that lost the partition ends the message it is at.       *)
(***************************************************************************)
EXTENDS Integers, Sequences

CONSTANTS
    Member,           \* gateway processes
    Order,            \* vendor_order_id, of one workspace: one partition
    Nobody,           \* no member, no committed offset
    Times,            \* message timestamps
    MaxLog,           \* bound: messages
    MaxInterruptions  \* bound: failures, deaths and rebalances

ASSUME FactsAssumption ==
    /\ Times \subseteq Nat /\ Times # {}
    /\ MaxLog \in Nat /\ MaxInterruptions \in Nat
    /\ Nobody \notin Member \cup Nat

\* A message: an order as it was, the clock of whoever produced it, and whether it
\* can be parsed and mapped.
Message == [order : Order, time : Times, sound : BOOLEAN]

Offset == 1 .. MaxLog

\* Where a member is with the message in its hand.
Places == {"idle", "postgres", "orders", "lines", "over"}

VARIABLES
    log,         \* the partition
    listening,   \* members that have subscribed to the topic
    owner,       \* the member it is assigned to
    committed,   \* messages the group has committed, or Nobody before its first commit
    position,    \* messages a member is past
    pc,          \* its place
    pg,          \* the message each order shows in PostgreSQL, 0 for none
    ch, lines,   \* the one its order row and its lines show in ClickHouse
    written,     \* messages PostgreSQL has taken
    failed,      \* messages whose transaction failed: logged, never repeated
    passed,      \* messages a new member began behind, nothing being committed
    lapsed,      \* orders an insert into ClickHouse failed for
    overlapped,  \* orders in the hand of a member when it lost the partition
    interruptions

stores == <<pg, ch, lines, written>>
blame == <<failed, passed, lapsed, overlapped>>
factsVars == <<log, listening, owner, committed, position, pc, stores, blame, interruptions>>

FactsTypeOK ==
    /\ log \in Seq(Message) /\ Len(log) <= MaxLog
    /\ listening \subseteq Member /\ owner \in Member \cup {Nobody}
    /\ committed \in {Nobody} \cup Offset
    /\ position \in [Member -> {0} \cup Offset]
    /\ pc \in [Member -> Places]
    /\ pg \in [Order -> {0} \cup Offset]
    /\ ch \in [Order -> {0} \cup Offset] /\ lines \in [Order -> {0} \cup Offset]
    /\ written \subseteq Offset /\ failed \subseteq Offset /\ passed \subseteq Offset
    /\ lapsed \subseteq Order /\ overlapped \subseteq Order
    /\ interruptions \in 0 .. MaxInterruptions

FactsInit ==
    /\ log = <<>> /\ listening = {} /\ owner = Nobody /\ committed = Nobody
    /\ position = [m \in Member |-> 0] /\ pc = [m \in Member |-> "idle"]
    /\ pg = [o \in Order |-> 0] /\ ch = [o \in Order |-> 0] /\ lines = [o \in Order |-> 0]
    /\ written = {} /\ failed = {} /\ passed = {} /\ lapsed = {} /\ overlapped = {}
    /\ interruptions = 0

GoesTo(m, place) == pc' = [pc EXCEPT ![m] = place]

\* The message in a member's hand.
Hand(m) == position[m] + 1
HeldOrder(m) == log[Hand(m)].order

Interrupted ==
    /\ interruptions < MaxInterruptions
    /\ interruptions' = interruptions + 1

-----------------------------------------------------------------------------
\* The webhook intake or a pull produces a message.
ProduceMessage(message) ==
    /\ Len(log) < MaxLog
    /\ log' = Append(log, message)
    /\ UNCHANGED <<listening, owner, committed, position, pc, stores, blame, interruptions>>

\* A bug: always behind the last message.
Latest == Len(log)

\* Where a member begins: fromBeginning is false, so behind the last message if the
\* group has committed nothing.
Start == IF committed = Nobody THEN Len(log) ELSE committed

\* A process boots, connects and subscribes.  If either fails, that is logged, it runs
\* on without the topic and never tries again: to the group it is not there.
Boot(m) ==
    /\ m \notin listening /\ pc[m] = "idle"
    /\ listening' = listening \cup {m}
    /\ UNCHANGED <<log, owner, committed, position, pc, stores, blame, interruptions>>

\* The partition is assigned to a member that has subscribed.
Join(m) ==
    /\ m \in listening /\ owner = Nobody /\ pc[m] = "idle"
    /\ owner' = m
    /\ position' = [position EXCEPT ![m] = Start]
    /\ passed' = IF committed = Nobody THEN passed \cup 1 .. Len(log) ELSE passed
    /\ UNCHANGED <<log, listening, committed, pc, stores, failed, lapsed, overlapped,
              interruptions>>

\* eachMessage; what cannot be parsed or mapped, or is no order, is skipped.
Take(m) ==
    /\ owner = m /\ pc[m] = "idle" /\ position[m] < Len(log)
    /\ GoesTo(m, IF log[Hand(m)].sound THEN "postgres" ELSE "over")
    /\ UNCHANGED <<log, listening, owner, committed, position, stores, blame, interruptions>>

\* ON CONFLICT DO UPDATE of every column, of the order and of its lines: the last write wins.
Upserted(m) == [pg EXCEPT ![HeldOrder(m)] = Hand(m)]

\* The transaction of the order and its lines.
WritePostgres(m) ==
    /\ pc[m] = "postgres"
    /\ pg' = Upserted(m)
    /\ written' = written \cup {Hand(m)}
    /\ GoesTo(m, "orders")
    /\ UNCHANGED <<log, listening, owner, committed, position, ch, lines, blame, interruptions>>

\* It fails, or the reply to its COMMIT is lost: logged, and the offset is passed;
\* ClickHouse is not tried.
PostgresFails(m) ==
    /\ pc[m] = "postgres" /\ Interrupted
    /\ failed' = failed \cup {Hand(m)}
    /\ pg' \in {pg, Upserted(m)}
    /\ GoesTo(m, "over")
    /\ UNCHANGED <<log, listening, owner, committed, position, ch, lines, written, passed,
              lapsed, overlapped>>

\* A bug: of rows with one version the table keeps the first.
FirstOfEquals(row, i) == IF row # 0 /\ log[row].time >= log[i].time THEN row ELSE i

\* ReplacingMergeTree(version): the higher version, and of equals the one inserted last.
Merged(row, i) == IF row # 0 /\ log[row].time > log[i].time THEN row ELSE i

InsertOrders(m) ==
    /\ pc[m] = "orders"
    /\ ch' = [ch EXCEPT ![HeldOrder(m)] = Merged(ch[HeldOrder(m)], Hand(m))]
    /\ GoesTo(m, "lines")
    /\ UNCHANGED <<log, listening, owner, committed, position, pg, lines, written, blame,
              interruptions>>

InsertLines(m) ==
    /\ pc[m] = "lines"
    /\ lines' = [lines EXCEPT ![HeldOrder(m)] = Merged(lines[HeldOrder(m)], Hand(m))]
    /\ GoesTo(m, "over")
    /\ UNCHANGED <<log, listening, owner, committed, position, pg, ch, written, blame,
              interruptions>>

\* An insert fails: logged, and the message counts as done.
InsertFails(m) ==
    /\ pc[m] \in {"orders", "lines"} /\ Interrupted
    /\ lapsed' = lapsed \cup {HeldOrder(m)}
    /\ GoesTo(m, "over")
    /\ UNCHANGED <<log, listening, owner, committed, position, stores, failed, passed, overlapped>>

\* The message is resolved; a member without the partition leaves the batch.
Resolve(m) ==
    /\ pc[m] = "over"
    /\ position' = [position EXCEPT ![m] = Hand(m)]
    /\ GoesTo(m, "idle")
    /\ UNCHANGED <<log, listening, owner, committed, stores, blame, interruptions>>

\* A bug: a commit that counts the message which is next.
OneAhead(m) == IF position[m] < Len(log) THEN position[m] + 1 ELSE position[m]

\* What a commit covers.
Resolved(m) == position[m]

\* kafkajs commits what is resolved, after a batch at the latest.
CommitOffset(m) ==
    /\ owner = m /\ pc[m] = "idle"
    /\ position[m] \notin passed \cup {0, committed}
    /\ committed' = Resolved(m)
    /\ UNCHANGED <<log, listening, owner, position, pc, stores, blame, interruptions>>

\* The group takes the partition from a member, between two messages or during one.
Rebalance(m) ==
    /\ owner = m /\ Interrupted
    /\ owner' = Nobody
    /\ overlapped' = IF pc[m] \in Places \ {"idle",
              "over"} THEN overlapped \cup {HeldOrder(m)} ELSE overlapped
    /\ UNCHANGED <<log, listening, committed, position, pc, stores, failed, passed, lapsed>>

\* A member dies.
Die(m) ==
    /\ m \in listening /\ Interrupted
    /\ listening' = listening \ {m}
    /\ owner' = IF owner = m THEN Nobody ELSE owner
    /\ GoesTo(m, "idle")
    /\ UNCHANGED <<log, committed, position, stores, blame>>

Step(m) ==
    \/ Take(m) \/ WritePostgres(m) \/ InsertOrders(m) \/ InsertLines(m) \/ Resolve(m)

FactsNext ==
    \/ \E message \in Message : ProduceMessage(message)
    \/ \E m \in Member :
         \/ Boot(m) \/ Join(m) \/ Step(m) \/ CommitOffset(m)
         \/ PostgresFails(m) \/ InsertFails(m) \/ Rebalance(m) \/ Die(m)

FactsSpec == FactsInit /\ [][FactsNext]_factsVars

\* A member runs, commits now and then, and the group finds a subscribed one for the
\* partition.  Nothing boots a process, or a second time one whose subscription failed.
FactsFairness ==
    /\ \A m \in Member : WF_factsVars(Step(m)) /\ WF_factsVars(CommitOffset(m))
    /\ WF_factsVars(\E m \in Member : Join(m))

FactsFairSpec == FactsSpec /\ FactsFairness

-----------------------------------------------------------------------------
\* Safety: what the group has committed PostgreSQL has taken, or has failed on and was
\* logged, or nobody could read, or lay behind a member that began when nothing was
\* committed; deaths, rebalances and members that go on without the partition skip no
\* other message.
NothingSkipped ==
    committed # Nobody =>
        \A i \in 1 .. committed : log[i].sound => i \in written \cup failed \cup passed

\* What keeps the stores apart: a failure, a timestamp that goes back, a member that
\* wrote on after it lost the partition, or messages nobody was ever given.
Of(o) == {i \in 1 .. Len(log) : log[i].order = o /\ log[i].sound}

Blamed(o) ==
    \/ o \in lapsed \cup overlapped
    \/ Of(o) \cap (failed \cup passed) # {}
    \/ \E i, j \in Of(o) : i < j /\ log[i].time > log[j].time

Pending(o) == \E i \in Of(o) : committed = Nobody \/ i > committed

\* Safety: otherwise PostgreSQL, whose last write wins, and the two tables of ClickHouse,
\* whose highest version wins, tell of the same message of an order once it is committed,
\* however often it was delivered.
StoresAgree ==
    \A o \in Order : (pg[o] = ch[o] /\ ch[o] = lines[o]) \/ Blamed(o) \/ Pending(o)

\* Liveness: and they come to tell of its newest message, as long as a member is there
\* that has subscribed.
ShowsNewest(o) == \A i \in Of(o) : pg[o] >= i /\ ch[o] >= i /\ lines[o] >= i

EventuallyNewest == \A o \in Order : <>[](ShowsNewest(o) \/ Blamed(o) \/ listening = {})

\* What a comment promises of a failed insert: ClickHouse catches up.  It fails
\* after the last message of an order.
ClickHouseCatchesUp == \A o \in Order : []<>(ch[o] = pg[o])

\* What a comment promises of a subscription that fails at boot: it is tried again.
\* Nothing does.
EventuallyListening == \A m \in Member : <>(m \in listening)
=============================================================================
