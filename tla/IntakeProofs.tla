------------------------------ MODULE IntakeProofs ----------------------------
(***************************************************************************)
(* Theorems about the way of a webhook: WebhookIntake, up to Kafka, for     *)
(* any calls, events, bodies and bounds; RealtimeFacts, from Kafka to       *)
(* PostgreSQL and ClickHouse, for any members, orders, timestamps and       *)
(* bounds.                                                                 *)
(***************************************************************************)
EXTENDS WebhookIntake, RealtimeFacts, TLAPS

-----------------------------------------------------------------------------
(* WebhookIntake. *)

USE WebhookAssumption DEF Body, Delivery, InFlight, Idle, Progress, Failure

\* A busy call carries a delivery of the vendor.
LEMMA Events ==
    ASSUME TypeOK, NEW c \in Call, call[c].at # "idle"
    PROVE  /\ call[c] \in InFlight /\ call[c].event \in Event
           /\ call[c].body \in Body /\ This(c) \in Delivery
  BY DEF TypeOK, This

-----------------------------------------------------------------------------
\* Type correctness of the route, the calls and the stores (TypeOK).
THEOREM Types == Spec => []TypeOK
<1>1. Init => TypeOK
  BY DEF Init, TypeOK
<1>2. TypeOK /\ [Next]_vars => TypeOK'
  <2> SUFFICES ASSUME TypeOK, [Next]_vars PROVE TypeOK'
    OBVIOUS
  <2>1. CASE UNCHANGED vars
    BY <2>1 DEF vars, TypeOK
  <2>2. CASE \E e \in Event : Emit(e)
    BY <2>2 DEF Emit, TypeOK, data
  <2>3. CASE Refill
    <3>1. tokens' \in 0 .. Capacity
      BY <2>3 DEF Refill, Refilled, TypeOK
    <3> QED
      BY <2>3, <3>1 DEF Refill, TypeOK, vendor, data
  <2>6. CASE MapShop
    BY <2>6 DEF MapShop, TypeOK, vendor, data
  <2>4. ASSUME NEW c \in Call, NEW e \in Event, NEW b \in Body, Post(c, e, b) PROVE TypeOK'
    BY <2>4 DEF Post, TypeOK, data
  <2>5. ASSUME NEW c \in Call, Progress(c) \/ Failure(c) PROVE TypeOK'
    <3>1. call[c].at # "idle"
      BY <2>5 DEF Verify, Upsert, Produce, Commit, Reject, MapFails, ProduceFails, Abort, HangUp
    <3>2. call[c] \in InFlight /\ call[c].event \in Event /\ call[c].body \in Body
          /\ This(c) \in Delivery
      BY <3>1, Events
    <3>3. call' \in [Call -> InFlight \cup {Idle}]
      <4>1. \A step \in {"upsert", "produce", "commit"} :
              [call[c] EXCEPT !.at = step] \in InFlight
        BY <3>2
      <4>2. [call[c] EXCEPT !.waited = FALSE] \in InFlight
        BY <3>2
      <4> DEFINE kinds == {Idle, [call[c] EXCEPT !.waited = FALSE],
                [call[c] EXCEPT !.at = "upsert"],
                           [call[c] EXCEPT !.at = "produce"], [call[c] EXCEPT !.at = "commit"]}
      <4>3. \E new \in kinds : call' = [call EXCEPT ![c] = new]
        BY <2>5
           DEF Verify, Upsert, Produce, Commit, Reject, MapFails, ProduceFails, Abort, HangUp,
               Goto, Answer, NotOK, Refuse
      <4>4. kinds \subseteq InFlight \cup {Idle}
        BY <4>1, <4>2
      <4> HIDE DEF kinds
      <4> QED
        BY <4>3, <4>4 DEF TypeOK
    <3>4. answered' \subseteq Delivery /\ parked' \subseteq Delivery /\ stored' \subseteq Delivery
      BY <2>5, <3>2
         DEF Verify, Upsert, Produce, Commit, Reject, MapFails, ProduceFails, Abort, HangUp, Write,
             Answer, NotOK, Refuse, TypeOK, vendor, data
    <3>5. lock' \in [Event -> Call \cup {None}]
      BY <2>5, <3>2
         DEF Verify, Upsert, Produce, Commit, Reject, MapFails, ProduceFails, Abort, HangUp,
             Released, TypeOK, data
    <3>6. row' \in [Event -> 0 .. Bodies] /\ topic' \in [Event -> 0 .. Bodies]
      BY <2>5, <3>2
         DEF Verify, Upsert, Produce, Commit, Reject, MapFails, ProduceFails, Abort, HangUp, Write,
             TypeOK, data
    <3>7. torn' \subseteq Event
      BY <2>5, <3>2
         DEF Verify, Upsert, Produce, Commit, Reject, MapFails, ProduceFails, Abort, HangUp,
             TypeOK, data
    <3>8. faults' \in 0 .. MaxFaults
      BY <2>5
         DEF Verify, Upsert, Produce, Commit, Reject, MapFails, ProduceFails, Abort, HangUp,
             TypeOK, Fault
    <3>9. UNCHANGED <<emitted, repeats, tokens, mapped>>
      BY <2>5
         DEF Verify, Upsert, Produce, Commit, Reject, MapFails, ProduceFails, Abort, HangUp, vendor
    <3> QED
      BY <3>3, <3>4, <3>5, <3>6, <3>7, <3>8, <3>9 DEF TypeOK
  <2> QED
    BY <2>1, <2>2, <2>3, <2>4, <2>5, <2>6 DEF Next
<1> QED
  BY <1>1, <1>2, PTL DEF Spec

-----------------------------------------------------------------------------
\* A committed or parked delivery stays so, and only such a delivery is answered
\* (NothingDropped): the path of every 2xx of the route.
THEOREM Acknowledged == Spec => []NothingDropped
<1>1. Init => NothingDropped
  BY DEF Init, NothingDropped
<1>2. TypeOK /\ NothingDropped /\ [Next]_vars => NothingDropped'
  <2> SUFFICES ASSUME TypeOK, NothingDropped, [Next]_vars PROVE NothingDropped'
    OBVIOUS
  <2>1. CASE UNCHANGED <<answered, stored, parked>>
    BY <2>1 DEF NothingDropped
  <2>2. ASSUME NEW c \in Call, Verify(c) PROVE NothingDropped'
    BY <2>2 DEF Verify, Answer, This, Goto, NothingDropped, data
  <2>3. ASSUME NEW c \in Call, Commit(c) \/ Abort(c) \/ MapFails(c) \/ Reject(c)
        PROVE  NothingDropped'
    BY <2>3 DEF Commit, Abort, MapFails, Reject, Write, Answer, NotOK, Refuse, This,
                NothingDropped, data
  <2>4. \/ UNCHANGED <<answered, stored, parked>>
        \/ \E c \in Call : Verify(c) \/ Commit(c) \/ Abort(c) \/ MapFails(c) \/ Reject(c)
    BY DEF Next, vars, Emit, Refill, MapShop, Post, Upsert, Produce, ProduceFails, HangUp,
           vendor, data
  <2> QED
    BY <2>1, <2>2, <2>3, <2>4
<1> QED
  BY <1>1, <1>2, Types, PTL DEF Spec

-----------------------------------------------------------------------------
(* LogFollowsRow is not inductive: it says nothing of an event while a call *)
(* holds its row.  The strengthening ties a held row to the step its holder *)
(* is at.                                                                  *)

\* A row is held by the one call that is writing it.
Held == {"produce", "commit"}
LockInv ==
    /\ \A e \in Event : lock[e] # None => call[lock[e]].at \in Held /\ call[lock[e]].event = e
    /\ \A c \in Call : call[c].at \in Held => lock[call[c].event] = c

\* What the log should end with: the row, or what is about to be in it.
Expected(e) ==
    IF lock[e] # None /\ call[lock[e]].at = "commit" THEN call[lock[e]].body ELSE row[e]
LogInv == \A e \in Event \ torn : topic[e] = Expected(e)

\* Every held row is held by the call that is writing it, through every step.
THEOREM Locking == Spec => []LockInv
<1>1. Init => LockInv
  BY DEF Init, LockInv, Held
<1>2. TypeOK /\ LockInv /\ [Next]_vars => LockInv'
  <2> SUFFICES ASSUME TypeOK, LockInv, [Next]_vars PROVE LockInv'
    OBVIOUS
  <2>1. CASE UNCHANGED <<call, lock>>
    BY <2>1 DEF LockInv
  <2>2. ASSUME NEW c \in Call, NEW e \in Event, NEW b \in Body, Post(c, e, b) PROVE LockInv'
    BY <2>2 DEF Post, TypeOK, LockInv, Held, data
  <2>3. ASSUME NEW c \in Call, Verify(c) \/ Reject(c) \/ MapFails(c) PROVE LockInv'
    BY <2>3 DEF Verify, Reject, MapFails, Goto, Answer, NotOK, Refuse, TypeOK, LockInv, Held, data
  <2>4. ASSUME NEW c \in Call, Produce(c) \/ ProduceFails(c) \/ HangUp(c) PROVE LockInv'
    BY <2>4 DEF Produce, ProduceFails, HangUp, Goto, TypeOK, LockInv, Held, data
  <2>5. ASSUME NEW c \in Call, Upsert(c) PROVE LockInv'
    BY <2>5, Events DEF Upsert, Unlocked, Goto, TypeOK, LockInv, Held
  <2>6. ASSUME NEW c \in Call, Commit(c) \/ Abort(c) PROVE LockInv'
    <3>1. call' = [call EXCEPT ![c] = Idle] /\ lock' = Released(c)
      BY <2>6 DEF Commit, Abort, Answer, NotOK, Refuse
    <3> QED
      BY <3>1 DEF Released, TypeOK, LockInv, Held
  <2> QED
    BY <2>1, <2>2, <2>3, <2>4, <2>5, <2>6
       DEF Next, vars, Emit, Refill, MapShop, data
<1> QED
  BY <1>1, <1>2, Types, PTL DEF Spec

\* Kafka's last word on an event is the committed row once no call is writing it,
\* unless a produce or a commit of that event went wrong (LogFollowsRow).
THEOREM LogMatchesRow == Spec => []LogFollowsRow
<1>1. Init => LogInv
  BY DEF Init, LogInv, Expected
<1>2. TypeOK /\ LockInv /\ LogInv /\ [Next]_vars => LogInv'
  <2> SUFFICES ASSUME TypeOK, LockInv, LogInv, [Next]_vars PROVE LogInv'
    OBVIOUS
  <2>1. CASE UNCHANGED <<call, lock, row, topic, torn>>
    BY <2>1 DEF LogInv, Expected
  <2>2. ASSUME NEW c \in Call, UNCHANGED <<lock, row, topic, torn>>,
               \A d \in Call \ {c} : call'[d] = call[d], call[c].at \notin Held
        PROVE  LogInv'
    BY <2>2 DEF LogInv, Expected, LockInv, TypeOK
  <2>3. ASSUME NEW c \in Call, HangUp(c) PROVE LogInv'
    BY <2>3 DEF HangUp, LogInv, Expected, LockInv, TypeOK, data
  <2>4. ASSUME NEW c \in Call, Upsert(c) PROVE LogInv'
    BY <2>4, Events DEF Upsert, Unlocked, Goto, LogInv, Expected, LockInv, TypeOK
  <2>5. ASSUME NEW c \in Call, Produce(c) \/ ProduceFails(c) PROVE LogInv'
    BY <2>5, Events DEF Produce, ProduceFails, Goto, LogInv, Expected, LockInv, Held, TypeOK
  <2>6. ASSUME NEW c \in Call, Commit(c) \/ Abort(c) PROVE LogInv'
    <3>1. call' = [call EXCEPT ![c] = Idle] /\ lock' = Released(c) /\ UNCHANGED topic
      BY <2>6 DEF Commit, Abort, Answer, NotOK, Refuse
    <3>2. \A e \in Event : e # call[c].event =>
            lock'[e] = lock[e] /\ row'[e] = row[e] /\ (e \in torn' <=> e \in torn)
      BY <2>6, <3>1, Events DEF Commit, Abort, Write, Released, LockInv, TypeOK
    <3>3. ASSUME NEW e \in Event \ torn', e # call[c].event PROVE topic'[e] = Expected(e)'
      BY <3>1, <3>2, <3>3 DEF LogInv, Expected, LockInv, TypeOK
    <3>4. ASSUME NEW e \in Event \ torn', e = call[c].event PROVE topic'[e] = Expected(e)'
      BY <2>6, <3>1, <3>4, Events
         DEF Commit, Abort, Write, Released, LogInv, Expected, LockInv, Held, TypeOK
    <3> QED
      BY <3>3, <3>4 DEF LogInv
  <2> QED
    BY <2>1, <2>2, <2>3, <2>4, <2>5, <2>6
       DEF Next, vars, Emit, Refill, MapShop, Post, Verify, Reject, MapFails, Goto, Answer, NotOK,
           Refuse, TypeOK, Held, data
<1>3. LogInv => LogFollowsRow
  BY DEF LogInv, Expected, LogFollowsRow
<1> QED
  BY <1>1, <1>2, <1>3, Types, Locking, PTL DEF Spec

HIDE WebhookAssumption DEF Body, Delivery, InFlight, Idle, Progress, Failure

-----------------------------------------------------------------------------
(* RealtimeFacts: the types, and where a member may stand.                  *)

Busy == {"postgres", "orders", "lines"}

\* A member is never past the end of the partition; what it writes it could read; the
\* one that has the partition is not behind what is committed.
PlaceInv ==
    /\ \A m \in Member : pc[m] # "idle" => position[m] < Len(log)
    /\ \A m \in Member : position[m] <= Len(log)
    /\ \A m \in Member : pc[m] \in Busy => log[Hand(m)].sound
    /\ committed # Nobody => committed <= Len(log)
    /\ owner # Nobody /\ committed # Nobody => committed <= position[owner]

FactsInv == FactsTypeOK /\ PlaceInv

\* What the arithmetic of a member is about.
LEMMA Numbers ==
    ASSUME FactsTypeOK
    PROVE  /\ Len(log) \in 0 .. MaxLog /\ MaxLog \in Nat
           /\ \A m \in Member : position[m] \in 0 .. MaxLog /\ Hand(m) = position[m] + 1
           /\ committed # Nobody => committed \in 1 .. MaxLog
           /\ Nobody \notin Member /\ Nobody \notin Nat
BY FactsAssumption DEF FactsTypeOK, Offset, Hand

\* A message in a hand is one of the partition.
LEMMA InHand ==
    ASSUME FactsInv, NEW m \in Member, pc[m] # "idle"
    PROVE  /\ Hand(m) \in 1 .. Len(log) /\ Hand(m) \in Offset
           /\ log[Hand(m)] \in Message /\ HeldOrder(m) \in Order
<1>1. Hand(m) \in 1 .. Len(log)
    BY Numbers DEF FactsInv, PlaceInv
<1>2. log \in Seq(Message) /\ Len(log) <= MaxLog
    BY DEF FactsInv, FactsTypeOK
<1>3. log[Hand(m)] \in Message
    BY <1>1, <1>2
<1>4. QED
    BY <1>1, <1>2, <1>3, Numbers DEF FactsInv, Offset, HeldOrder, Message

\* What was there stays where it was when the partition grows.
LEMMA Grows ==
    ASSUME FactsTypeOK, NEW message \in Message, ProduceMessage(message)
    PROVE  /\ log' \in Seq(Message) /\ Len(log') = Len(log) + 1 /\ Len(log') <= MaxLog
           /\ \A i \in 1 .. Len(log) : log'[i] = log[i]
BY Numbers DEF FactsTypeOK, ProduceMessage

\* The rows a member leaves behind.
LEMMA Rows ==
    ASSUME FactsInv, NEW m \in Member, pc[m] # "idle"
    PROVE  /\ Upserted(m) \in [Order -> {0} \cup Offset]
           /\ \A o \in Order : /\ Merged(ch[o], Hand(m)) \in {0} \cup Offset
                               /\ Merged(lines[o], Hand(m)) \in {0} \cup Offset
BY InHand DEF FactsInv, FactsTypeOK, Upserted, Merged

LEMMA InitFacts == FactsInit => FactsInv
BY FactsAssumption DEF FactsInit, FactsInv, FactsTypeOK, PlaceInv, Places, Offset, Busy

\* A step that leaves the partition, its owner and the commits alone, and moves one
\* member without its position.
Moves(m, place) ==
    /\ m \in Member /\ place \in Places
    /\ place # "idle" => pc[m] # "idle"
    /\ place \in Busy => pc[m] \in Busy
    /\ pc' = [pc EXCEPT ![m] = place]
    /\ UNCHANGED <<log, owner, committed, position>>

LEMMA MovesInPlace ==
    ASSUME FactsInv, NEW m, NEW place, Moves(m, place)
    PROVE  PlaceInv' /\ pc' \in [Member -> Places]
<1>1. /\ \A k \in Member : pc'[k] = IF k = m THEN place ELSE pc[k]
      /\ pc' \in [Member -> Places]
    BY DEF Moves, FactsInv, FactsTypeOK
<1>2. /\ m \in Member /\ UNCHANGED <<log, owner, committed, position>>
      /\ place # "idle" => pc[m] # "idle"
      /\ place \in Busy => pc[m] \in Busy
    BY DEF Moves
<1>3. \A k \in Member : Hand(k)' = Hand(k)
    BY <1>2 DEF Hand
<1>4. \A k \in Member : /\ pc'[k] # "idle" => pc[k] # "idle"
                        /\ pc'[k] \in Busy => pc[k] \in Busy
    BY <1>1, <1>2
<1>5. QED
    BY <1>1, <1>2, <1>3, <1>4 DEF FactsInv, PlaceInv

LEMMA NextFacts == FactsInv /\ [FactsNext]_factsVars => FactsInv'
<1> SUFFICES ASSUME FactsInv, [FactsNext]_factsVars PROVE FactsInv'
    OBVIOUS
<1>1. CASE UNCHANGED factsVars
    BY <1>1 DEF factsVars, stores, blame, FactsInv, FactsTypeOK, PlaceInv, Hand
<1>2. ASSUME NEW message \in Message, ProduceMessage(message) PROVE FactsInv'
    <2>1. FactsTypeOK'
        BY <1>2, Grows DEF ProduceMessage, FactsInv, FactsTypeOK, stores, blame
    <2>2. \A m \in Member : pc[m] \in Busy => log'[Hand(m)] = log[Hand(m)]
        BY <1>2, Grows, InHand DEF FactsInv, Busy
    <2>3. PlaceInv'
        BY <1>2, <2>2, Grows, Numbers DEF ProduceMessage, FactsInv, PlaceInv, Hand
    <2>4. QED
        BY <2>1, <2>3 DEF FactsInv
<1>3. ASSUME NEW m \in Member, Join(m) PROVE FactsInv'
    <2>1. Start \in 0 .. Len(log) /\ Start \in {0} \cup Offset
        BY Numbers DEF Start, FactsInv, PlaceInv, Offset
    <2>2. passed' \subseteq Offset
        <3>1. 1 .. Len(log) \subseteq Offset
            BY Numbers DEF FactsInv, Offset
        <3>2. passed' \in {passed, passed \cup 1 .. Len(log)}
            BY <1>3 DEF Join
        <3>3. QED
            BY <3>1, <3>2 DEF FactsInv, FactsTypeOK
    <2>3. FactsTypeOK'
        BY <1>3, <2>1, <2>2 DEF Join, FactsInv, FactsTypeOK, stores
    <2>4. position' = [position EXCEPT ![m] = Start] /\ owner' = m
              /\ UNCHANGED <<log, pc, committed>>
        BY <1>3 DEF Join
    <2>5. pc[m] = "idle"
        BY <1>3 DEF Join
    <2>6. PlaceInv'
        BY <2>1, <2>4, <2>5, Numbers DEF FactsInv, FactsTypeOK, PlaceInv, Hand, Start, Busy
    <2>7. QED
        BY <2>3, <2>6 DEF FactsInv
<1>4. ASSUME NEW m \in Member, Take(m) PROVE FactsInv'
    <2>1. /\ position[m] < Len(log) /\ UNCHANGED <<log, listening, owner, committed, position,
              stores,
              blame, interruptions>>
          /\ \E place \in {"postgres", "over"} :
                /\ pc' = [pc EXCEPT ![m] = place]
                /\ place = "postgres" => log[Hand(m)].sound
        BY <1>4 DEF Take, GoesTo
    <2>2. PlaceInv'
        BY <2>1 DEF FactsInv, FactsTypeOK, PlaceInv, Hand, Busy
    <2>3. FactsTypeOK'
        BY <2>1 DEF FactsInv, FactsTypeOK, Places, stores, blame
    <2>4. QED
        BY <2>2, <2>3 DEF FactsInv
<1>5. ASSUME NEW m \in Member, WritePostgres(m) \/ PostgresFails(m) \/ InsertOrders(m) \/ InsertLines(m) \/ InsertFails(m)
      PROVE  FactsInv'
    <2>1. /\ pc[m] \in Busy /\ \E place \in {"orders", "lines", "over"} : Moves(m, place)
        BY <1>5 DEF WritePostgres, PostgresFails, InsertOrders, InsertLines, InsertFails,
                  GoesTo, Moves, Busy, Places
    <2>2. PlaceInv' /\ pc' \in [Member -> Places]
        BY <2>1, MovesInPlace
    <2>3. pg' \in {pg, Upserted(m)} /\ pg' \in [Order -> {0} \cup Offset]
        BY <1>5, <2>1, Rows
           DEF WritePostgres, PostgresFails, InsertOrders, InsertLines, InsertFails, stores,
                     FactsInv, FactsTypeOK, Busy
    <2>4. ch' \in [Order -> {0} \cup Offset]
        BY <1>5, <2>1, Rows, InHand
           DEF WritePostgres, PostgresFails, InsertOrders, InsertLines, InsertFails, stores,
                     FactsInv, FactsTypeOK, Busy
    <2>5. lines' \in [Order -> {0} \cup Offset]
        BY <1>5, <2>1, Rows, InHand
           DEF WritePostgres, PostgresFails, InsertOrders, InsertLines, InsertFails, stores,
                     FactsInv, FactsTypeOK, Busy
    <2>6. written' \subseteq Offset /\ failed' \subseteq Offset /\ lapsed' \subseteq Order
          /\ UNCHANGED <<log, listening, owner, committed, position, passed, overlapped>>
        BY <1>5, <2>1, InHand
           DEF WritePostgres, PostgresFails, InsertOrders, InsertLines, InsertFails, stores,
                     blame, FactsInv, FactsTypeOK, Busy
    <2>7. interruptions' \in 0 .. MaxInterruptions
        BY <1>5, FactsAssumption
           DEF WritePostgres, PostgresFails, InsertOrders, InsertLines, InsertFails,
                     Interrupted, FactsInv, FactsTypeOK
    <2>8. FactsTypeOK'
        BY <2>2, <2>3, <2>4, <2>5, <2>6, <2>7 DEF FactsInv, FactsTypeOK
    <2>9. QED
        BY <2>2, <2>8 DEF FactsInv
<1>6. ASSUME NEW m \in Member, Resolve(m) PROVE FactsInv'
    <2>1. /\ pc[m] = "over" /\ position' = [position EXCEPT ![m] = Hand(m)]
              /\ pc' = [pc EXCEPT ![m] = "idle"]
          /\ UNCHANGED <<log, listening, owner, committed, stores, blame, interruptions>>
        BY <1>6 DEF Resolve, GoesTo
    <2>2. Hand(m) \in 1 .. Len(log) /\ Hand(m) \in Offset /\ Hand(m) = position[m] + 1
              /\ position[m] \in Nat
        BY <2>1, InHand, Numbers DEF FactsInv
    <2>3. FactsTypeOK'
        BY <2>1, <2>2 DEF FactsInv, FactsTypeOK, Places, stores, blame
    <2>4. \A k \in Member : k # m => position'[k] = position[k] /\ pc'[k] = pc[k]
              /\ Hand(k)' = Hand(k)
        BY <2>1 DEF FactsInv, FactsTypeOK, Hand
    <2>5. position'[m] = Hand(m) /\ pc'[m] = "idle"
        BY <2>1 DEF FactsInv, FactsTypeOK
    <2>6. PlaceInv'
        BY <2>1, <2>2, <2>4, <2>5, Numbers DEF FactsInv, PlaceInv, Busy
    <2>7. QED
        BY <2>3, <2>6 DEF FactsInv
<1>7. ASSUME NEW m \in Member, CommitOffset(m) PROVE FactsInv'
    <2>1. committed' = position[m] /\ position[m] \in Offset /\ owner = m
          /\ UNCHANGED <<log, listening, owner, position, pc, stores, blame, interruptions>>
        BY <1>7 DEF CommitOffset, Resolved, FactsInv, FactsTypeOK
    <2>2. QED
        BY <2>1, Numbers DEF FactsInv, FactsTypeOK, PlaceInv, Hand, stores, blame
<1>8. ASSUME NEW m \in Member, Rebalance(m) \/ Die(m) PROVE FactsInv'
    <2>1. overlapped' \subseteq Order /\ interruptions' \in 0 .. MaxInterruptions
        BY <1>8, InHand, FactsAssumption DEF Rebalance, Die, Interrupted, blame, FactsInv,
                  FactsTypeOK
    <2>2. /\ listening' \subseteq listening /\ owner' \in {owner, Nobody}
              /\ pc' \in {pc, [pc EXCEPT ![m] = "idle"]}
          /\ UNCHANGED <<log, committed, position, stores, failed, passed, lapsed>>
        BY <1>8 DEF Rebalance, Die, GoesTo, blame
    <2>3. FactsTypeOK'
        BY <2>1, <2>2 DEF FactsInv, FactsTypeOK, Places, stores
    <2>4. PlaceInv'
        BY <2>2 DEF FactsInv, FactsTypeOK, PlaceInv, Hand, Busy
    <2>5. QED
        BY <2>3, <2>4 DEF FactsInv
<1>9. ASSUME NEW m \in Member, Boot(m) PROVE FactsInv'
    BY <1>9 DEF Boot, FactsInv, FactsTypeOK, PlaceInv, Hand, stores, blame
<1>10. QED
    BY <1>1, <1>2, <1>3, <1>4, <1>5, <1>6, <1>7, <1>8, <1>9 DEF FactsNext, Step

\* Types, for any members, orders and bounds (FactsTypeOK), and no member or commit
\* past the end of the partition.
THEOREM FactsTypes == FactsSpec => []FactsInv
BY InitFacts, NextFacts, PTL DEF FactsSpec

-----------------------------------------------------------------------------
(* Nothing is skipped: what a member is past was dealt with, and a commit   *)
(* covers only what a member is past.                                       *)

Dealt(i) == log[i].sound => i \in written \cup failed \cup passed

DealtInv ==
    /\ \A m \in Member : \A i \in 1 .. position[m] : Dealt(i)
    /\ \A m \in Member : pc[m] \in {"orders", "lines", "over"} => Dealt(Hand(m))
    /\ committed # Nobody => \A i \in 1 .. committed : Dealt(i)

\* A message stays dealt with.
LEMMA StaysDealt ==
    ASSUME FactsInv, [FactsNext]_factsVars, NEW i \in 1 .. Len(log), Dealt(i)
    PROVE  Dealt(i)'
<1>1. written \subseteq written' /\ failed \subseteq failed' /\ passed \subseteq passed'
    BY DEF FactsNext, Step, ProduceMessage, Boot, Join, Take, WritePostgres, PostgresFails,
              InsertOrders, InsertLines,
           InsertFails, Resolve, CommitOffset, Rebalance, Die, factsVars, stores, blame
<1>2. log'[i] = log[i]
    <2>1. CASE \E message \in Message : ProduceMessage(message)
        BY <2>1, Grows DEF FactsInv
    <2>2. CASE UNCHANGED log
        BY <2>2
    <2>3. QED
        BY <2>1, <2>2
           DEF FactsNext, Step, Boot, Join, Take, WritePostgres, PostgresFails, InsertOrders,
                     InsertLines,
               InsertFails, Resolve, CommitOffset, Rebalance, Die, factsVars
<1>3. QED
    BY <1>1, <1>2 DEF Dealt

LEMMA NextDealt == FactsInv /\ DealtInv /\ [FactsNext]_factsVars => DealtInv'
<1> SUFFICES ASSUME FactsInv, DealtInv, [FactsNext]_factsVars PROVE DealtInv'
    OBVIOUS
<1>1. \A i \in 1 .. Len(log) : Dealt(i) => Dealt(i)'
    BY StaysDealt
<1>2. /\ \A m \in Member : \A i \in 1 .. position[m] : Dealt(i)'
      /\ \A m \in Member : pc[m] \in {"orders", "lines", "over"} => \A i \in {Hand(m)} : Dealt(i)'
      /\ committed # Nobody => \A i \in 1 .. committed : Dealt(i)'
    <2>1. \A m \in Member : position[m] \in Nat /\ position[m] <= Len(log)
        BY Numbers DEF FactsInv, PlaceInv
    <2>2. committed # Nobody => committed \in Nat /\ committed <= Len(log)
        BY Numbers DEF FactsInv, PlaceInv
    <2>3. \A m \in Member : pc[m] \in {"orders", "lines", "over"} => Hand(m) \in 1 .. Len(log)
        BY InHand
    <2>4. Len(log) \in Nat
        BY Numbers DEF FactsInv
    <2>5. ASSUME NEW m \in Member, NEW i \in 1 .. position[m] PROVE Dealt(i)'
        <3>1. Dealt(i)
            BY <2>5 DEF DealtInv
        <3>2. i \in 1 .. Len(log)
            BY <2>1, <2>4
        <3>3. QED
            BY <1>1, <3>1, <3>2
    <2>6. ASSUME committed # Nobody, NEW i \in 1 .. committed PROVE Dealt(i)'
        <3>1. Dealt(i)
            BY <2>6 DEF DealtInv
        <3>2. i \in 1 .. Len(log)
            BY <2>2, <2>4, <2>6
        <3>3. QED
            BY <1>1, <3>1, <3>2
    <2>7. ASSUME NEW m \in Member, pc[m] \in {"orders", "lines", "over"}, NEW i \in {Hand(m)}
          PROVE  Dealt(i)'
        <3>1. Dealt(i)
            BY <2>7 DEF DealtInv
        <3>2. i \in 1 .. Len(log)
            BY <2>3, <2>7
        <3>3. QED
            BY <1>1, <3>1, <3>2
    <2>8. QED
        BY <2>5, <2>6, <2>7
<1> DEFINE Kept(m) == /\ pc'[m] \in {"orders", "lines", "over"} => (\A i \in {Hand(m)} : Dealt(i)')
                      /\ UNCHANGED <<position, committed>>
                      /\ \A k \in Member : k # m => pc'[k] = pc[k]
<1>3. ASSUME NEW m \in Member, Kept(m) PROVE DealtInv'
    BY <1>2, <1>3 DEF DealtInv, Hand
<1>4. ASSUME UNCHANGED <<position, committed>>,
             \A m \in Member : pc'[m] \in {pc[m], "idle"}
      PROVE  DealtInv'
    BY <1>2, <1>4 DEF DealtInv, Hand
<1>5. CASE UNCHANGED factsVars
    BY <1>4, <1>5 DEF factsVars
<1>6. ASSUME NEW message \in Message, ProduceMessage(message) PROVE DealtInv'
    BY <1>4, <1>6 DEF ProduceMessage
<1>7. ASSUME NEW m \in Member, Join(m) PROVE DealtInv'
    <2>1. /\ position' = [position EXCEPT ![m] = Start] /\ UNCHANGED <<log, pc, committed>>
          /\ pc[m] = "idle"
          /\ committed = Nobody => 1 .. Len(log) \subseteq passed'
        BY <1>7 DEF Join
    <2>2. \A i \in 1 .. Start : Dealt(i)'
        <3>1. CASE committed = Nobody
            BY <2>1, <3>1 DEF Start, Dealt
        <3>2. CASE committed # Nobody
            BY <1>2, <3>2 DEF Start
        <3>3. QED
            BY <3>1, <3>2
    <2>3. \A k \in Member : position'[k] = IF k = m THEN Start ELSE position[k]
        BY <2>1 DEF FactsInv, FactsTypeOK
    <2>4. QED
        BY <1>2, <2>1, <2>2, <2>3 DEF DealtInv, Hand
<1>8. ASSUME NEW m \in Member, Take(m) PROVE DealtInv'
    <2>1. /\ UNCHANGED <<log, position, committed>> /\ pc'[m] \in {"postgres", "over"}
          /\ pc'[m] = "over" => ~ log[Hand(m)].sound
          /\ \A k \in Member : k # m => pc'[k] = pc[k]
        BY <1>8 DEF Take, GoesTo, FactsInv, FactsTypeOK
    <2>2. Kept(m)
        BY <2>1 DEF Dealt, Hand
    <2>3. QED
        BY <1>3, <2>2
<1>9. ASSUME NEW m \in Member, WritePostgres(m) \/ PostgresFails(m) PROVE DealtInv'
    <2>1. /\ UNCHANGED <<position, committed>> /\ Hand(m) \in written' \cup failed'
          /\ \A k \in Member : k # m => pc'[k] = pc[k]
        BY <1>9 DEF WritePostgres, PostgresFails, GoesTo, FactsInv, FactsTypeOK
    <2>2. Kept(m)
        BY <2>1 DEF Dealt, Hand
    <2>3. QED
        BY <1>3, <2>2
<1>10. ASSUME NEW m \in Member, InsertOrders(m) \/ InsertLines(m) \/ InsertFails(m) PROVE DealtInv'
    <2>1. /\ UNCHANGED <<position, committed>> /\ pc[m] \in {"orders", "lines"}
          /\ \A k \in Member : k # m => pc'[k] = pc[k]
        BY <1>10 DEF InsertOrders, InsertLines, InsertFails, GoesTo, FactsInv, FactsTypeOK
    <2>2. Kept(m)
        BY <1>2, <2>1 DEF Hand
    <2>3. QED
        BY <1>3, <2>2
<1>11. ASSUME NEW m \in Member, Resolve(m) PROVE DealtInv'
    <2>1. /\ pc[m] = "over" /\ pc'[m] = "idle" /\ UNCHANGED committed
          /\ \A k \in Member : k # m => pc'[k] = pc[k] /\ position'[k] = position[k]
          /\ position'[m] = position[m] + 1 /\ position[m] \in Nat
        BY <1>11, Numbers DEF Resolve, GoesTo, FactsInv, FactsTypeOK
    <2>2. \A i \in 1 .. position'[m] : Dealt(i)'
        <3>1. \A i \in 1 .. position[m] : Dealt(i)'
            BY <1>2
        <3>2. \A i \in {position[m] + 1} : Dealt(i)'
            BY <1>2, <2>1 DEF Hand
        <3>3. \A i \in 1 .. position'[m] : i \in 1 .. position[m] \/ i \in {position[m] + 1}
            BY <2>1
        <3>4. QED
            BY <3>1, <3>2, <3>3
    <2>3. QED
        BY <1>2, <2>1, <2>2 DEF DealtInv, Hand
<1>12. ASSUME NEW m \in Member, CommitOffset(m) PROVE DealtInv'
    BY <1>2, <1>12 DEF CommitOffset, Resolved, DealtInv, Hand
<1>13. ASSUME NEW m \in Member, Rebalance(m) \/ Die(m) PROVE DealtInv'
    BY <1>4, <1>13 DEF Rebalance, Die, GoesTo, FactsInv, FactsTypeOK
<1>14. ASSUME NEW m \in Member, Boot(m) PROVE DealtInv'
    BY <1>4, <1>14 DEF Boot
<1>15. QED
    BY <1>14, <1>5, <1>6, <1>7, <1>8, <1>9, <1>10, <1>11, <1>12, <1>13 DEF FactsNext, Step

\* Whatever members die, lose the partition or go on without it, what the group has
\* committed was taken, failed, unreadable or behind a first member (NothingSkipped).
THEOREM NoMessageSkipped == FactsSpec => []NothingSkipped
<1>1. FactsInit => DealtInv
    BY FactsAssumption DEF FactsInit, DealtInv, Dealt
<1>2. DealtInv => NothingSkipped
    BY DEF DealtInv, Dealt, NothingSkipped
<1>3. QED
    BY <1>1, <1>2, InitFacts, NextFacts, NextDealt, PTL DEF FactsSpec

-----------------------------------------------------------------------------
(* The stores agree: the property says nothing of an order with messages to *)
(* come.  The strengthening says of an order nothing is to blame for that   *)
(* each store shows a message of it, and none older than those committed or *)
(* those the member with the partition is past.                             *)

\* A member that writes without having the partition writes of an overlapped order.
StrayInv == \A m \in Member : m # owner /\ pc[m] \in Busy => HeldOrder(m) \in overlapped

\* A row shows a message of o, none older than its messages up to n.
Shows(seen, o, n) == seen \in Of(o) \cup {0} /\ \A i \in Of(o) : i <= n => seen >= i

\* The messages a member has dealt with, the one in its hand included once it is at
\* one of the places.
Behind(m, places) == IF pc[m] \in places THEN Hand(m) ELSE position[m]

\* How far each row has come.
Reach(n, k, j, o) == Shows(pg[o], o, n) /\ Shows(ch[o], o, k) /\ Shows(lines[o], o, j)

OwnerReach(o) ==
    Reach(Behind(owner, {"orders", "lines", "over"}), Behind(owner, {"lines", "over"}),
              Behind(owner, {"over"}), o)

ShownAt(o) ==
    /\ Reach(0, 0, 0, o)
    /\ committed # Nobody => Reach(committed, committed, committed, o)
    /\ owner # Nobody => OwnerReach(o)

ShownInv == \A o \in Order : ~Blamed(o) => ShownAt(o)

\* Who wanders off takes the blame for what is in his hand.
LEMMA NextStray == FactsInv /\ StrayInv /\ [FactsNext]_factsVars => StrayInv'
<1> SUFFICES ASSUME FactsInv, StrayInv, [FactsNext]_factsVars PROVE StrayInv'
    OBVIOUS
<1>1. ASSUME NEW m \in Member, pc'[m] \in Busy, pc[m] \in Busy, m # owner
      PROVE  HeldOrder(m)' \in overlapped'
    <2>1. HeldOrder(m) \in overlapped /\ Hand(m) \in 1 .. Len(log)
        BY <1>1, InHand DEF StrayInv, Busy
    <2>2. overlapped \subseteq overlapped'
        BY DEF FactsNext, Step, ProduceMessage, Boot, Join, Take, WritePostgres, PostgresFails,
                  InsertOrders,
               InsertLines, InsertFails, Resolve, CommitOffset, Rebalance, Die, factsVars, blame
    <2>3. position'[m] = position[m]
        BY <1>1 DEF FactsNext, Step, ProduceMessage, Boot, Join, Take, WritePostgres, PostgresFails,
                  InsertOrders,
               InsertLines, InsertFails, Resolve, CommitOffset, Rebalance, Die, factsVars,
                         Busy, FactsInv, FactsTypeOK
    <2>4. log'[Hand(m)] = log[Hand(m)]
        <3>1. CASE \E message \in Message : ProduceMessage(message)
            BY <2>1, <3>1, Grows DEF FactsInv
        <3>2. CASE UNCHANGED log
            BY <3>2
        <3>3. QED
            BY <3>1, <3>2
               DEF FactsNext, Step, Boot, Join, Take, WritePostgres, PostgresFails, InsertOrders,
                         InsertLines,
                   InsertFails, Resolve, CommitOffset, Rebalance, Die, factsVars
    <2>5. QED
        BY <2>1, <2>2, <2>3, <2>4 DEF HeldOrder, Hand
<1>2. ASSUME NEW m \in Member, pc'[m] \in Busy, pc[m] \notin Busy PROVE m = owner'
    BY <1>2 DEF FactsNext, Step, ProduceMessage, Boot, Join, Take, WritePostgres, PostgresFails,
              InsertOrders,
               InsertLines, InsertFails, Resolve, CommitOffset, Rebalance, Die, GoesTo,
                         factsVars, Busy,
               FactsInv, FactsTypeOK
<1>3. ASSUME NEW m \in Member, pc'[m] \in Busy, pc[m] \in Busy, m = owner, m # owner'
      PROVE  HeldOrder(m)' \in overlapped'
    <2>1. owner' # owner
        BY <1>3
    <2>2. PICK k \in Member : Rebalance(k) \/ Die(k)
        BY <1>3, FactsAssumption
           DEF FactsNext, Step, ProduceMessage, Boot, Join, Take, WritePostgres, PostgresFails,
                     InsertOrders,
               InsertLines, InsertFails, Resolve, CommitOffset, factsVars
    <2>3. k = m
        BY <1>3, <2>1, <2>2 DEF Rebalance, Die
    <2>4. Rebalance(m)
        BY <1>3, <2>2, <2>3 DEF Die, GoesTo, Busy, FactsInv, FactsTypeOK
    <2>5. HeldOrder(m) \in overlapped' /\ UNCHANGED <<log, position>>
        BY <1>3, <2>4 DEF Rebalance, Busy, Places
    <2>6. QED
        BY <2>5 DEF HeldOrder, Hand
<1>4. QED
    BY <1>1, <1>2, <1>3 DEF StrayInv

LEMMA FarEnough ==
    ASSUME NEW o, NEW seen, NEW n \in Nat, NEW k \in Nat, Shows(seen, o, n), k <= n
    PROVE  Shows(seen, o, k)
BY DEF Shows, Of

\* A message of another order, or one nobody can read, changes nothing.
LEMMA OfAnother ==
    ASSUME NEW o, NEW seen, NEW n \in Nat, Shows(seen, o, n), n + 1 \notin Of(o)
    PROVE  Shows(seen, o, n + 1)
BY DEF Shows, Of

\* The next message of an order whose timestamps do not go back is shown once written.
LEMMA OfThisOne ==
    ASSUME NEW o, ~Blamed(o), FactsInv, NEW seen, NEW n \in Nat, Shows(seen, o, n), n + 1 \in Of(o)
    PROVE  Shows(n + 1, o, n + 1) /\ Shows(Merged(seen, n + 1), o, n + 1)
<1>1. Shows(n + 1, o, n + 1)
    BY DEF Shows, Of
<1>2. CASE Merged(seen, n + 1) = n + 1
    BY <1>1, <1>2
<1>3. CASE Merged(seen, n + 1) # n + 1
    <2>1. Merged(seen, n + 1) = seen /\ seen # 0 /\ log[seen].time > log[n + 1].time
        BY <1>3 DEF Merged
    <2>2. seen \in Of(o)
        BY <2>1 DEF Shows
    <2>3. seen \in Nat /\ ~(seen < n + 1)
        <3>1. seen \in Nat
            BY <2>2, Numbers DEF Of, FactsInv
        <3>2. log[seen].time \in Nat /\ log[n + 1].time \in Nat
            <4>1. log \in Seq(Message) /\ seen \in 1 .. Len(log) /\ n + 1 \in 1 .. Len(log)
                BY <2>2 DEF Of, FactsInv, FactsTypeOK
            <4>2. log[seen] \in Message /\ log[n + 1] \in Message
                BY <4>1
            <4>3. QED
                BY <4>2, FactsAssumption DEF Message
        <3>3. \A i, j \in Of(o) : i < j => ~(log[i].time > log[j].time)
            BY DEF Blamed
        <3>4. ASSUME seen < n + 1 PROVE FALSE
            BY <2>1, <2>2, <3>3, <3>4
        <3>5. QED
            BY <3>1, <3>4
    <2>4. \A i \in Of(o) : i <= n + 1 => seen >= i
        BY <2>3, Numbers DEF Of, FactsInv
    <2>5. QED
        BY <2>1, <2>2, <2>4 DEF Shows
<1>4. QED
    BY <1>2, <1>3

\* Nobody is cleared again, and the partition grows at its end.
LEMMA BlameStays ==
    ASSUME FactsInv, [FactsNext]_factsVars, NEW o \in Order, ~Blamed(o)'
    PROVE  /\ ~Blamed(o)
           /\ \A n \in 0 .. Len(log), seen \in {0} \cup Nat : Shows(seen, o, n) => Shows(seen,
                     o, n)'
<1>1. failed \subseteq failed' /\ passed \subseteq passed' /\ lapsed \subseteq lapsed'
          /\ overlapped \subseteq overlapped'
    BY DEF FactsNext, Step, ProduceMessage, Boot, Join, Take, WritePostgres, PostgresFails,
              InsertOrders, InsertLines,
           InsertFails, Resolve, CommitOffset, Rebalance, Die, factsVars, blame
<1>2. Len(log) \in Nat /\ Len(log') \in Nat /\ Len(log) <= Len(log')
          /\ \A i \in 1 .. Len(log) : log'[i] = log[i]
    <2>1. CASE \E message \in Message : ProduceMessage(message)
        BY <2>1, Grows, Numbers DEF FactsInv
    <2>2. CASE UNCHANGED log
        BY <2>2, Numbers DEF FactsInv
    <2>3. QED
        BY <2>1, <2>2
           DEF FactsNext, Step, Boot, Join, Take, WritePostgres, PostgresFails, InsertOrders,
                     InsertLines,
               InsertFails, Resolve, CommitOffset, Rebalance, Die, factsVars
<1>3. Of(o) \subseteq Of(o)' /\ \A i \in Of(o)' : i <= Len(log) => i \in Of(o)
    BY <1>2 DEF Of
<1>4. ~Blamed(o)
    <2>1. \A i \in Of(o) : log'[i] = log[i]
        BY <1>2 DEF Of
    <2>2. o \notin lapsed' \cup overlapped' /\ Of(o)' \cap (failed' \cup passed') = {}
          /\ \A i, j \in Of(o)' : i < j => ~(log'[i].time > log'[j].time)
        BY DEF Blamed
    <2>3. o \notin lapsed \cup overlapped /\ Of(o) \cap (failed \cup passed) = {}
        BY <1>1, <1>3, <2>2
    <2>4. \A i, j \in Of(o) : i < j => ~(log[i].time > log[j].time)
        BY <1>3, <2>1, <2>2
    <2>5. QED
        BY <2>3, <2>4 DEF Blamed
<1>5. ASSUME NEW n \in 0 .. Len(log), NEW seen \in {0} \cup Nat, Shows(seen, o, n)
      PROVE  Shows(seen, o, n)'
    <2>1. seen \in Of(o)' \cup {0}
        BY <1>3, <1>5 DEF Shows
    <2>2. \A i \in Of(o)' : i <= n => i \in Of(o)
        BY <1>2, <1>3 DEF Of
    <2>3. QED
        BY <1>5, <2>1, <2>2 DEF Shows
<1>6. QED
    BY <1>4, <1>5

\* The parts of a member's reach are places in the partition.
LEMMA ReachTypes ==
    ASSUME FactsInv
    PROVE  /\ \A m \in Member, places \in SUBSET {"orders", "lines", "over"} :
                  Behind(m, places) \in 0 .. Len(log) /\ position[m] <= Behind(m, places)
           /\ committed # Nobody => committed \in 0 .. Len(log)
           /\ 0 \in 0 .. Len(log)
           /\ \A o \in Order : pg[o] \in {0} \cup Nat /\ ch[o] \in {0} \cup Nat
                     /\ lines[o] \in {0} \cup Nat
           /\ owner # Nobody => owner \in Member
<1>1. Len(log) \in Nat /\ \A m \in Member : position[m] \in Nat /\ position[m] <= Len(log)
          /\ Hand(m) = position[m] + 1
    BY Numbers DEF FactsInv, PlaceInv
<1>2. \A m \in Member : pc[m] # "idle" => Hand(m) \in 1 .. Len(log)
    BY InHand
<1>3. \A m \in Member, places \in SUBSET {"orders", "lines", "over"} :
          Behind(m, places) \in 0 .. Len(log) /\ position[m] <= Behind(m, places)
    BY <1>1, <1>2 DEF Behind
<1>4. committed # Nobody => committed \in 0 .. Len(log)
    BY <1>1, Numbers DEF FactsInv, PlaceInv
<1>5. QED
    BY <1>1, <1>3, <1>4, FactsAssumption DEF FactsInv, FactsTypeOK, Offset

\* The member with the partition keeps it, and is past the same messages.
SameReach ==
    /\ owner' = owner /\ owner # Nobody
    /\ \A places \in SUBSET {"orders", "lines", "over"} :
          "over" \in places => Behind(owner, places)' = Behind(owner, places)

\* What does not touch the rows of an order, nor anybody's reach, leaves it as it is.
LEMMA Untouched ==
    ASSUME FactsInv, [FactsNext]_factsVars, NEW o \in Order, ~Blamed(o)', ShownAt(o),
           pg'[o] = pg[o], ch'[o] = ch[o], lines'[o] = lines[o],
           \/ committed' = committed
           \/ committed' = position[owner] /\ owner # Nobody,
           owner' # Nobody => SameReach
    PROVE  ShownAt(o)'
<1> DEFINE a == Behind(owner, {"orders", "lines", "over"})
           b == Behind(owner, {"lines", "over"})
           c == Behind(owner, {"over"})
<1>1. \A n \in 0 .. Len(log), seen \in {0} \cup Nat : Shows(seen, o, n) => Shows(seen, o, n)'
    BY BlameStays
<1>2. Reach(0, 0, 0, o)'
    BY <1>1, ReachTypes DEF ShownAt, Reach
<1>3. ASSUME owner # Nobody
      PROVE  /\ a \in 0 .. Len(log) /\ b \in 0 .. Len(log) /\ c \in 0 .. Len(log)
             /\ position[owner] <= a /\ position[owner] <= b /\ position[owner] <= c
                       /\ position[owner] \in 0 .. Len(log)
             /\ Shows(pg[o], o, a) /\ Shows(ch[o], o, b) /\ Shows(lines[o], o, c)
    <2>1. owner \in Member
        BY <1>3, ReachTypes
    <2>2. position[owner] \in 0 .. Len(log)
        BY <2>1, Numbers DEF FactsInv, PlaceInv
    <2>3. QED
        BY <1>3, <2>1, <2>2, ReachTypes DEF ShownAt, OwnerReach, Reach
<1>4. ASSUME NEW n \in 0 .. Len(log), Reach(n, n, n, o) PROVE \A k \in {n} : Reach(k, k, k, o)'
    BY <1>1, <1>4, ReachTypes DEF Reach
<1>5. committed' # Nobody => Reach(committed, committed, committed, o)'
    <2>1. CASE committed' = committed /\ committed # Nobody
        <3>1. Reach(committed, committed, committed, o) /\ committed \in 0 .. Len(log)
            BY <2>1, ReachTypes DEF ShownAt
        <3>2. \A k \in {committed} : Reach(k, k, k, o)'
            BY <1>4, <3>1
        <3>3. QED
            BY <2>1, <3>2 DEF Reach
    <2>2. CASE committed' = position[owner] /\ owner # Nobody
        <3> DEFINE p == position[owner]
        <3>1. Reach(p, p, p, o)
            <4>1. p \in Nat /\ a \in Nat /\ b \in Nat /\ c \in Nat
                BY <1>3, <2>2
            <4> HIDE DEF p, a, b, c
            <4>2. QED
                BY <1>3, <2>2, <4>1, FarEnough DEF Reach, p
        <3>2. \A k \in {p} : Reach(k, k, k, o)'
            BY <1>3, <1>4, <2>2, <3>1
        <3>3. QED
            BY <2>2, <3>2 DEF Reach
    <2>3. QED
        BY <2>1, <2>2
<1>6. owner' # Nobody => OwnerReach(o)'
    <2> SUFFICES ASSUME owner' # Nobody PROVE OwnerReach(o)'
        OBVIOUS
    <2>1. owner' = owner /\ owner # Nobody /\ a' = a /\ b' = b /\ c' = c
        BY DEF SameReach
    <2>2. \A i \in {a}, j \in {b}, k \in {c} : Reach(i, j, k, o)'
        <3> HIDE DEF a, b, c
        <3>1. QED
            BY <1>1, <1>3, <2>1, ReachTypes DEF Reach
    <2>3. QED
        BY <2>1, <2>2 DEF OwnerReach, Reach
<1>7. QED
    BY <1>2, <1>5, <1>6 DEF ShownAt

\* How far the member with the partition has come is further than any commit.
LEMMA Reached ==
    ASSUME FactsInv', NEW o \in Order, owner' # Nobody, OwnerReach(o)'
    PROVE  ShownAt(o)'
<1> DEFINE p == position[owner]
           a == Behind(owner, {"orders", "lines", "over"})
           b == Behind(owner, {"lines", "over"})
           c == Behind(owner, {"over"})
<1>1. /\ p' \in Nat /\ a' \in Nat /\ b' \in Nat /\ c' \in Nat
      /\ p' <= a' /\ p' <= b' /\ p' <= c'
    <2>1. owner' \in Member /\ position'[owner'] \in Nat /\ Hand(owner)' = position'[owner'] + 1
        BY FactsAssumption DEF FactsInv, FactsTypeOK, Offset, Hand
    <2>2. QED
        BY <2>1 DEF Behind
<1>2. \A n \in 0 .. p' : Shows(pg[o], o, n)' /\ Shows(ch[o], o, n)' /\ Shows(lines[o], o, n)'
    <2>1. Shows(pg[o], o, a)' /\ Shows(ch[o], o, b)' /\ Shows(lines[o], o, c)'
        BY DEF OwnerReach, Reach
    <2>2. Of(o)' \subseteq Nat
        BY DEF Of
    <2> HIDE DEF p, a, b, c
    <2>3. QED
        BY <1>1, <2>1, <2>2 DEF Shows
<1>3. /\ 0 \in 0 .. p'
      /\ committed' # Nobody => committed' \in 0 .. p'
    <2>1. committed' # Nobody => committed' \in Nat /\ committed' <= p'
        BY DEF FactsInv, FactsTypeOK, PlaceInv, Offset
    <2>2. QED
        BY <1>1, <2>1
<1>4. Reach(0, 0, 0, o)'
    BY <1>2, <1>3 DEF Reach
<1>5. committed' # Nobody => Reach(committed, committed, committed, o)'
    BY <1>2, <1>3 DEF Reach, Shows
<1>6. QED
    BY <1>4, <1>5 DEF ShownAt

\* What a member does with the message in its hand.
Handles(m) ==
    Take(m) \/ WritePostgres(m) \/ PostgresFails(m) \/ InsertOrders(m) \/ InsertLines(m) \/ InsertFails(m)

\* It touches the rows of that message's order only, and itself.
LEMMA Handling ==
    ASSUME FactsInv, NEW m \in Member, Handles(m)
    PROVE  /\ UNCHANGED <<log, owner, committed, position>>
           /\ \A k \in Member : k # m => pc'[k] = pc[k]
           /\ \A o \in Order : o # HeldOrder(m) \/ Take(m) => pg'[o] = pg[o]
                     /\ ch'[o] = ch[o] /\ lines'[o] = lines[o]
           /\ pc[m] \in Busy \/ Take(m)
           /\ Hand(m) = position[m] + 1 /\ position[m] \in Nat
<1>1. /\ UNCHANGED <<log, owner, committed, position>>
      /\ pc[m] \in Busy \/ Take(m)
      /\ \A k \in Member : k # m => pc'[k] = pc[k]
    BY DEF Handles, Take, WritePostgres, PostgresFails, InsertOrders, InsertLines, InsertFails,
              GoesTo, Busy,
           FactsInv, FactsTypeOK
<1>2. \A o \in Order : o # HeldOrder(m) \/ Take(m) => pg'[o] = pg[o]
    BY DEF Handles, Take, WritePostgres, PostgresFails, InsertOrders, InsertLines, InsertFails,
              stores, Upserted,
           FactsInv, FactsTypeOK
<1>3. \A o \in Order : o # HeldOrder(m) \/ Take(m) => ch'[o] = ch[o] /\ lines'[o] = lines[o]
    BY DEF Handles, Take, WritePostgres, PostgresFails, InsertOrders, InsertLines, InsertFails,
              stores,
           FactsInv, FactsTypeOK
<1>4. Hand(m) = position[m] + 1 /\ position[m] \in Nat
    BY Numbers DEF FactsInv
<1>5. QED
    BY <1>1, <1>2, <1>3, <1>4

\* The message is not of the order, or nobody can read it.
LEMMA HandlesAnother ==
    ASSUME FactsInv, FactsInv', NEW o \in Order, ShownAt(o), NEW m \in Member, Handles(m),
              owner = m, Hand(m) \notin Of(o)
    PROVE  ShownAt(o)'
<1>1. /\ UNCHANGED <<log, owner, committed, position>> /\ Hand(m) = position[m] + 1
          /\ position[m] \in Nat
      /\ pc[m] \in Busy \/ Take(m)
    BY Handling
<1>2. pg'[o] = pg[o] /\ ch'[o] = ch[o] /\ lines'[o] = lines[o]
    <2>1. pc[m] \in Busy => HeldOrder(m) # o
        BY InHand DEF Of, HeldOrder, FactsInv, PlaceInv, Busy
    <2>2. QED
        BY <1>1, <2>1, Handling
<1> DEFINE p == position[m]
<1>3. \A seen : \A n \in {p, p + 1} : Shows(seen, o, n) => Shows(seen, o, p)
          /\ Shows(seen, o, p + 1)
    <2>1. p \in Nat /\ p + 1 \in Nat /\ p <= p + 1 /\ p + 1 \notin Of(o)
        BY <1>1
    <2> HIDE DEF p
    <2>2. QED
        BY <2>1, FarEnough, OfAnother
<1>4. \A places \in SUBSET {"orders", "lines", "over"} : Behind(m, places) \in {p, p + 1}
          /\ Behind(m, places)' \in {p, p + 1}
    BY <1>1 DEF Behind, Hand
<1>5. \A n \in {p, p + 1} : Shows(pg[o], o, n) /\ Shows(ch[o], o, n) /\ Shows(lines[o], o, n)
    <2>1. owner # Nobody
        BY FactsAssumption
    <2>2. OwnerReach(o)
        BY <2>1 DEF ShownAt
    <2> HIDE DEF p
    <2>3. QED
        BY <1>3, <1>4, <2>2 DEF OwnerReach, Reach
<1>6. Of(o)' = Of(o)
    BY <1>1 DEF Of
<1>7. \A n \in {p, p + 1} : Shows(pg[o], o, n)' /\ Shows(ch[o], o, n)' /\ Shows(lines[o], o, n)'
    <2> HIDE DEF p
    <2>1. QED
        BY <1>2, <1>5, <1>6 DEF Shows
<1>8. OwnerReach(o)'
    <2> HIDE DEF p
    <2>1. owner' = m
        BY <1>1
    <2>2. QED
        BY <1>4, <1>7, <2>1 DEF OwnerReach, Reach, Shows
<1>9. owner' # Nobody
    BY <1>1, FactsAssumption
<1>10. QED
    BY <1>8, <1>9, Reached

\* It is the next message of the order.
LEMMA HandlesThisOne ==
    ASSUME FactsInv, FactsInv', NEW o \in Order, ShownAt(o), ~Blamed(o), ~Blamed(o)',
              [FactsNext]_factsVars,
           NEW m \in Member, Handles(m), owner = m, Hand(m) \in Of(o)
    PROVE  ShownAt(o)'
<1> DEFINE p == position[m]
<1>1. /\ UNCHANGED <<log, owner, committed, position>> /\ Hand(m) = p + 1 /\ p \in Nat
          /\ p + 1 \in Of(o)
    BY Handling
<1>2. HeldOrder(m) = o /\ log[Hand(m)].sound
    BY DEF HeldOrder, Of
<1>3. Of(o)' = Of(o)
    BY <1>1 DEF Of
<1>4. owner # Nobody /\ OwnerReach(o)
    BY FactsAssumption DEF ShownAt
<1>5. CASE Take(m)
    <2>1. pc[m] = "idle" /\ pc'[m] = "postgres"
        BY <1>2, <1>5 DEF Take, GoesTo, FactsInv, FactsTypeOK
    <2>2. SameReach
        BY <1>1, <1>4, <2>1 DEF SameReach, Behind
    <2>3. pg'[o] = pg[o] /\ ch'[o] = ch[o] /\ lines'[o] = lines[o]
        BY <1>5, Handling
    <2>4. QED
        BY <1>1, <2>2, <2>3, Untouched
<1>6. ASSUME PostgresFails(m) \/ InsertFails(m) PROVE FALSE
    <2>1. Hand(m) \in failed' \/ HeldOrder(m) \in lapsed'
        BY <1>6 DEF PostgresFails, InsertFails
    <2>2. QED
        BY <1>2, <1>3, <2>1 DEF Blamed
<1>7. CASE WritePostgres(m)
    <2>1. /\ pc[m] = "postgres" /\ pc'[m] = "orders" /\ pg'[o] = p + 1 /\ ch'[o] = ch[o]
              /\ lines'[o] = lines[o]
        BY <1>1, <1>2, <1>7 DEF WritePostgres, GoesTo, Upserted, FactsInv, FactsTypeOK
    <2>2. Shows(pg[o], o, p) /\ Shows(ch[o], o, p) /\ Shows(lines[o], o, p)
        BY <1>4, <2>1 DEF OwnerReach, Reach, Behind
    <2>3. Shows(p + 1, o, p + 1)
        BY <1>1, <2>2, OfThisOne
    <2>4. OwnerReach(o)'
        BY <1>1, <1>3, <2>1, <2>2, <2>3 DEF OwnerReach, Reach, Behind, Hand, Shows
    <2>5. QED
        BY <1>1, <1>4, <2>4, Reached
<1>8. CASE InsertOrders(m)
    <2>1. /\ pc[m] = "orders" /\ pc'[m] = "lines" /\ pg'[o] = pg[o]
              /\ ch'[o] = Merged(ch[o], p + 1) /\ lines'[o] = lines[o]
        BY <1>1, <1>2, <1>8 DEF InsertOrders, GoesTo, FactsInv, FactsTypeOK
    <2>2. Shows(pg[o], o, p + 1) /\ Shows(ch[o], o, p) /\ Shows(lines[o], o, p)
        BY <1>1, <1>4, <2>1 DEF OwnerReach, Reach, Behind
    <2>3. Shows(ch'[o], o, p + 1)
        BY <1>1, <2>1, <2>2, OfThisOne
    <2>4. OwnerReach(o)'
        BY <1>1, <1>3, <2>1, <2>2, <2>3 DEF OwnerReach, Reach, Behind, Hand, Shows
    <2>5. QED
        BY <1>1, <1>4, <2>4, Reached
<1>9. CASE InsertLines(m)
    <2>1. /\ pc[m] = "lines" /\ pc'[m] = "over" /\ pg'[o] = pg[o] /\ ch'[o] = ch[o]
              /\ lines'[o] = Merged(lines[o], p + 1)
        BY <1>1, <1>2, <1>9 DEF InsertLines, GoesTo, FactsInv, FactsTypeOK
    <2>2. Shows(pg[o], o, p + 1) /\ Shows(ch[o], o, p + 1) /\ Shows(lines[o], o, p)
        BY <1>1, <1>4, <2>1 DEF OwnerReach, Reach, Behind
    <2>3. Shows(lines'[o], o, p + 1)
        BY <1>1, <2>1, <2>2, OfThisOne
    <2>4. OwnerReach(o)'
        BY <1>1, <1>3, <2>1, <2>2, <2>3 DEF OwnerReach, Reach, Behind, Hand, Shows
    <2>5. QED
        BY <1>1, <1>4, <2>4, Reached
<1>10. QED
    BY <1>5, <1>6, <1>7, <1>8, <1>9 DEF Handles

\* A member without the partition handles messages of blamed orders only.
LEMMA HandlesAstray ==
    ASSUME FactsInv, StrayInv, NEW o \in Order, ShownAt(o), ~Blamed(o), ~Blamed(o)',
              [FactsNext]_factsVars,
           NEW m \in Member, Handles(m), owner # m
    PROVE  ShownAt(o)'
<1>1. pc[m] \in Busy
    BY Handling DEF Take
<1>2. HeldOrder(m) # o
    BY <1>1 DEF StrayInv, Blamed
<1>3. /\ UNCHANGED <<owner, committed, position>>
      /\ pg'[o] = pg[o] /\ ch'[o] = ch[o] /\ lines'[o] = lines[o]
      /\ \A k \in Member : k # m => pc'[k] = pc[k]
    BY <1>2, Handling
<1>4. CASE owner = Nobody
    BY <1>3, <1>4, Untouched
<1>5. CASE owner # Nobody
    <2>1. owner \in Member
        BY <1>5 DEF FactsInv, FactsTypeOK
    <2>2. SameReach
        BY <1>3, <1>5, <2>1 DEF SameReach, Behind, Hand
    <2>3. QED
        BY <1>3, <2>2, Untouched
<1>6. QED
    BY <1>4, <1>5

LEMMA NextShown ==
    FactsInv /\ FactsInv' /\ StrayInv /\ ShownInv /\ [FactsNext]_factsVars => ShownInv'
<1> SUFFICES ASSUME FactsInv, FactsInv', StrayInv, ShownInv, [FactsNext]_factsVars,
          NEW o \in Order, ~Blamed(o)'
             PROVE  ShownAt(o)'
    BY DEF ShownInv
<1>1. ~Blamed(o) /\ ShownAt(o)
    BY BlameStays DEF ShownInv
<1>2. ASSUME NEW m \in Member, Handles(m) PROVE ShownAt(o)'
    BY <1>1, <1>2, HandlesAnother, HandlesThisOne, HandlesAstray
<1>3. CASE UNCHANGED factsVars
    <2>1. owner # Nobody => SameReach
        BY <1>3 DEF factsVars, SameReach, Behind, Hand
    <2>2. QED
        BY <1>1, <1>3, <2>1, Untouched DEF factsVars, stores
<1>4. ASSUME NEW message \in Message, ProduceMessage(message) PROVE ShownAt(o)'
    <2>1. owner # Nobody => SameReach
        BY <1>4 DEF ProduceMessage, SameReach, Behind, Hand
    <2>2. QED
        BY <1>1, <1>4, <2>1, Untouched DEF ProduceMessage, stores
<1>5. ASSUME NEW m \in Member, Join(m) PROVE ShownAt(o)'
    <2>1. /\ UNCHANGED <<log, committed, pc, pg, ch, lines>> /\ owner' = m
              /\ position'[m] = Start /\ pc'[m] = "idle"
          /\ committed = Nobody => 1 .. Len(log) \subseteq passed'
        BY <1>5 DEF Join, stores, FactsInv, FactsTypeOK
    <2>2. /\ Behind(owner, {"orders", "lines", "over"})' = Start
          /\ Behind(owner, {"lines", "over"})' = Start
          /\ Behind(owner, {"over"})' = Start
        BY <2>1 DEF Behind
    <2>3. Reach(Start, Start, Start, o)'
        <3>1. CASE committed # Nobody
            <4>1. Reach(committed, committed, committed, o) /\ Start = committed
                BY <1>1, <3>1 DEF ShownAt, Start
            <4>2. Of(o)' = Of(o) /\ Start' = Start
                BY <2>1 DEF Of, Start
            <4>3. QED
                BY <2>1, <4>1, <4>2 DEF Reach, Shows
        <3>2. CASE committed = Nobody
            <4>1. Of(o)' \cap passed' = {}
                BY DEF Blamed
            <4>2. Of(o)' = Of(o) /\ Of(o) \subseteq 1 .. Len(log)
                BY <2>1 DEF Of
            <4>3. Of(o) = {} /\ Of(o)' = {}
                BY <2>1, <3>2, <4>1, <4>2
            <4>4. Reach(0, 0, 0, o)
                BY <1>1 DEF ShownAt
            <4>5. QED
                BY <2>1, <4>3, <4>4 DEF Reach, Shows
        <3>3. QED
            BY <3>1, <3>2
    <2>4. OwnerReach(o)'
        BY <2>1, <2>2, <2>3 DEF OwnerReach, Reach, Shows, Start
    <2>5. owner' # Nobody
        BY <2>1, FactsAssumption
    <2>6. QED
        BY <2>4, <2>5, Reached
<1>6. ASSUME NEW m \in Member, Resolve(m) PROVE ShownAt(o)'
    <2>1. /\ UNCHANGED <<log, owner, committed, pg, ch, lines>> /\ pc[m] = "over"
              /\ pc'[m] = "idle" /\ position'[m] = Hand(m)
          /\ \A k \in Member : k # m => pc'[k] = pc[k] /\ position'[k] = position[k]
        BY <1>6 DEF Resolve, GoesTo, stores, FactsInv, FactsTypeOK
    <2>2. ASSUME owner # Nobody PROVE SameReach
        <3>1. owner \in Member
            BY <2>2 DEF FactsInv, FactsTypeOK
        <3>2. CASE owner = m
            BY <2>1, <2>2, <3>2 DEF SameReach, Behind
        <3>3. QED
            BY <2>1, <2>2, <3>1, <3>2 DEF SameReach, Behind, Hand
    <2>3. QED
        BY <1>1, <2>1, <2>2, Untouched
<1>7. ASSUME NEW m \in Member, CommitOffset(m) PROVE ShownAt(o)'
    <2>1. /\ UNCHANGED <<owner, position, pc, pg, ch, lines>> /\ owner = m
              /\ committed' = position[m] /\ owner # Nobody
        BY <1>7, FactsAssumption DEF CommitOffset, Resolved, stores
    <2>2. SameReach
        BY <2>1 DEF SameReach, Behind, Hand
    <2>3. QED
        BY <1>1, <2>1, <2>2, Untouched
<1>8. ASSUME NEW m \in Member, Rebalance(m) \/ Die(m) PROVE ShownAt(o)'
    <2>1. UNCHANGED <<committed, position, pg, ch, lines>>
        BY <1>8 DEF Rebalance, Die, stores
    <2>2. owner' # Nobody => SameReach
        BY <1>8 DEF Rebalance, Die, GoesTo, SameReach, Behind, Hand, FactsInv, FactsTypeOK
    <2>3. QED
        BY <1>1, <2>1, <2>2, Untouched
<1>9. ASSUME NEW m \in Member, Boot(m) PROVE ShownAt(o)'
    <2>1. owner # Nobody => SameReach
        BY <1>9 DEF Boot, SameReach, Behind, Hand
    <2>2. QED
        BY <1>1, <1>9, <2>1, Untouched DEF Boot, stores
<1>10. QED
    BY <1>2, <1>3, <1>4, <1>5, <1>6, <1>7, <1>8, <1>9 DEF FactsNext, Step, Handles

\* Once the messages of an order are committed, the three tables show its newest, for
\* any number of deliveries, unless one of the named causes is to blame.
LEMMA ShownMeansAgreed == FactsInv /\ ShownInv => StoresAgree
<1> SUFFICES ASSUME FactsInv, ShownInv, NEW o \in Order, ~Blamed(o), ~Pending(o)
             PROVE  pg[o] = ch[o] /\ ch[o] = lines[o]
    BY DEF StoresAgree
<1>1. Of(o) \subseteq Nat
    BY DEF Of
<1>2. ASSUME NEW seen \in {0} \cup Nat, NEW other \in {0} \cup Nat,
             Shows(seen, o, 0), Shows(other, o, 0), Of(o) # {} => Shows(seen, o, committed)
                       /\ Shows(other, o, committed)
      PROVE  seen = other
    <2>1. CASE Of(o) = {}
        BY <1>2, <2>1 DEF Shows
    <2>2. CASE Of(o) # {}
        <3>1. committed # Nobody /\ committed \in Nat /\ \A i \in Of(o) : i <= committed
            BY <1>1, <2>2, Numbers DEF Pending, FactsInv
        <3>2. \A i \in Of(o) : seen >= i /\ other >= i
            BY <1>2, <2>2, <3>1 DEF Shows
        <3>3. seen \in Of(o) \/ seen = 0
            BY <1>2 DEF Shows
        <3>4. other \in Of(o) \/ other = 0
            BY <1>2 DEF Shows
        <3>5. seen # 0 /\ other # 0
            BY <1>1, <2>2, <3>2 DEF Of
        <3>6. QED
            BY <1>1, <3>2, <3>3, <3>4, <3>5
    <2>3. QED
        BY <2>1, <2>2
<1>3. ShownAt(o) /\ (Of(o) # {} => committed # Nobody)
    BY DEF ShownInv, Pending
<1>4. QED
    BY <1>2, <1>3, ReachTypes DEF ShownAt, Reach

\* PostgreSQL and the two tables of ClickHouse tell of the same message (StoresAgree),
\* for any members, orders, timestamps and number of interruptions.
THEOREM StoresTogether == FactsSpec => []StoresAgree
<1>1. FactsInit => StrayInv /\ ShownInv
    <2>1. FactsInit => StrayInv
        BY DEF FactsInit, StrayInv, Busy
    <2>2. FactsInit => ShownInv
        BY DEF FactsInit, ShownInv, ShownAt, Reach, Shows, Of
    <2>3. QED
        BY <2>1, <2>2
<1>2. QED
    BY <1>1, InitFacts, NextFacts, NextStray, NextShown, ShownMeansAgreed, PTL DEF FactsSpec
=============================================================================
