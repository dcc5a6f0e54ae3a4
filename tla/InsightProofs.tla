---------------------------- MODULE InsightProofs ----------------------------
(***************************************************************************)
(* Theorems about InsightGateway, for any threads, windows, costs, cap and *)
(* timeouts.                                                               *)
(***************************************************************************)
EXTENDS InsightGateway, TLAPS

LEMMA Ages == Oldest \in Nat /\ 2 * Patience \in Nat /\ TTL \in Nat /\ Patience \in Nat
  BY GatewayAssumption DEF Oldest

LEMMA OneOlder ==
    ASSUME NEW limit \in Nat, NEW age \in 0 .. limit + 1
    PROVE  /\ Older(age, limit) \in 0 .. limit + 1 /\ Older(age, limit) <= age + 1
           /\ Older(age, limit) <= limit => Older(age, limit) = age + 1
  BY DEF Older

Places == {"idle"} \cup Asking \cup Running

LEMMA Moves ==
    ASSUME NEW c \in Call, NEW place \in Places, TypeOK, Goto(c, place)
    PROVE  /\ pc' \in [Call -> Places] /\ pc'[c] = place
           /\ \A b \in Call : b # c => pc'[b] = pc[b]
  BY DEF Goto, TypeOK, Places

\* What a tick does to the cache.
LEMMA Ticking ==
    ASSUME TypeOK, Tick
    PROVE  /\ cache' \in [Key -> Entry \cup {None}]
           /\ \A k \in Key : cache'[k] # None =>
                /\ cache[k] # None
                /\ cache'[k].data = Older(cache[k].data, Oldest)
                /\ cache'[k].age = Older(cache[k].age, TTL)
<1>1. ASSUME NEW k \in Key, cache[k] # None
      PROVE  [data |-> Older(cache[k].data, Oldest), age |-> Older(cache[k].age, TTL)] \in Entry
  <2>1. cache[k].data \in 0 .. Oldest + 1 /\ cache[k].age \in 0 .. TTL + 1
    BY <1>1 DEF TypeOK, Entry
  <2> QED
    BY <2>1, OneOlder, Ages DEF Entry
<1>2. cache' = [k \in Key |-> IF cache[k] = None THEN None
                 ELSE [data |-> Older(cache[k].data, Oldest), age |-> Older(cache[k].age, TTL)]]
  BY DEF Tick
<1> QED
  BY <1>1, <1>2

LEMMA NextTypes == TypeOK /\ [Next]_vars => TypeOK'
<1> SUFFICES ASSUME TypeOK, [Next]_vars PROVE TypeOK'
  OBVIOUS
<1>1. CASE UNCHANGED vars
  BY <1>1 DEF vars, thread, TypeOK
<1>2. ASSUME NEW c \in Call, NEW k \in Key, Begin(c, k) PROVE TypeOK'
  <2>1. requests' \in 0 .. MaxRequests
    BY <1>2, GatewayAssumption DEF Begin, TypeOK
  <2>2. pc' \in [Call -> Places]
    BY <1>2, Moves DEF Begin, Places, Running
  <2>3. data' \in [Call -> 0 .. Oldest + 1]
    BY <1>2, Ages DEF Begin, TypeOK
  <2> QED
    BY <1>2, <2>1, <2>2, <2>3 DEF Begin, TypeOK, Places
<1>3. ASSUME NEW c \in Call, Lookup(c) PROVE TypeOK'
  <2>1. \/ UNCHANGED shown
        \/ Fresh(cache[key[c]]) /\ shown' = [shown EXCEPT ![c] = cache[key[c]].data]
    BY <1>3 DEF Lookup
  <2>2. shown' \in [Call -> 0 .. Oldest + 1]
    BY <2>1 DEF TypeOK, Fresh, Entry
  <2>3. pc' \in [Call -> Places]
    BY <1>3, Moves DEF Lookup, Places, Running
  <2> QED
    BY <1>3, <2>2, <2>3 DEF Lookup, TypeOK, Places
<1>4. ASSUME NEW c \in Call, Evict(c) \/ CheckCap(c) PROVE TypeOK'
  <2>1. pc' \in [Call -> Places]
    BY <1>4, Moves DEF Evict, CheckCap, Places, Running, Asking
  <2>2. waiting' \in [Call -> 0 .. Patience] /\ cache' \in [Key -> Entry \cup {None}]
    BY <1>4, Ages DEF Evict, CheckCap, TypeOK
  <2> QED
    BY <1>4, <2>1, <2>2 DEF Evict, CheckCap, TypeOK, Places
<1>5. ASSUME NEW c \in Call, NEW price \in Costs, Answer(c, price) \/ Unfaithful(c, price) PROVE TypeOK'
  <2>1. pc' \in [Call -> Places]
    BY <1>5, Moves DEF Answer, Unfaithful, Places, Running, Asking
  <2>2. price \in Nat
    BY GatewayAssumption
  <2>3. waiting' \in [Call -> 0 .. Patience] /\ cost' \in [Call -> Nat] /\ paid' \in Nat
    BY <1>5, <2>2, Ages DEF Answer, Unfaithful, TypeOK
  <2> QED
    BY <1>5, <2>1, <2>3 DEF Answer, Unfaithful, TypeOK, Places
<1>6. ASSUME NEW c \in Call, Raises(c) PROVE TypeOK'
  <2>1. pc' \in [Call -> Places]
    BY <1>6, Moves DEF Raises, Places
  <2>2. waiting' \in [Call -> 0 .. Patience]
    BY <1>6, Ages DEF Raises, TypeOK
  <2> QED
    BY <1>6, <2>1, <2>2 DEF Raises, TypeOK, Places
<1>7. ASSUME NEW c \in Call, ReadMeter(c) \/ WriteMeter(c) PROVE TypeOK'
  <2>1. pc' \in [Call -> Places]
    BY <1>7, Moves DEF ReadMeter, WriteMeter, Places, Running
  <2>2. seen' \in [Call -> Nat] /\ spend' \in Nat
    BY <1>7 DEF ReadMeter, WriteMeter, Sum, TypeOK
  <2> QED
    BY <1>7, <2>1, <2>2 DEF ReadMeter, WriteMeter, TypeOK, Places
<1>8. ASSUME NEW c \in Call, Log(c) PROVE TypeOK'
  <2>1. pc' \in [Call -> Places]
    BY <1>8, Moves DEF Log, Places, Running
  <2> QED
    BY <1>8, <2>1 DEF Log, TypeOK, Places
<1>9. ASSUME NEW c \in Call, Store(c) PROVE TypeOK'
  <2>1. pc' \in [Call -> Places]
    BY <1>9, Moves DEF Store, Places
  <2>2. [data |-> data[c], age |-> 0] \in Entry
    BY Ages DEF Entry, TypeOK
  <2>3. cache' \in [Key -> Entry \cup {None}] /\ shown' \in [Call -> 0 .. Oldest + 1]
    BY <1>9, <2>2 DEF Store, TypeOK
  <2> QED
    BY <1>9, <2>1, <2>3 DEF Store, TypeOK, Places
<1>10. ASSUME Tick PROVE TypeOK'
  <2>1. data' \in [Call -> 0 .. Oldest + 1]
    <3>1. \A c \in Call : Older(data[c], Oldest) \in 0 .. Oldest + 1
      BY OneOlder, Ages DEF TypeOK
    <3>2. data' = [c \in Call |-> IF pc[c] \in Asking THEN Older(data[c], Oldest) ELSE data[c]]
      BY <1>10 DEF Tick
    <3> QED
      BY <3>1, <3>2 DEF TypeOK
  <2>2. waiting' \in [Call -> 0 .. Patience]
    <3>1. \A c \in Call : waiting[c] \in 0 .. Patience
      BY DEF TypeOK
    <3>2. \A c \in Call : pc[c] \in Asking => waiting[c] + 1 \in 0 .. Patience
      BY <1>10, <3>1, Ages DEF Tick, Over
    <3>3. waiting' = [c \in Call |-> IF pc[c] \in Asking THEN waiting[c] + 1 ELSE waiting[c]]
      BY <1>10 DEF Tick
    <3> QED
      BY <3>1, <3>2, <3>3
  <2> QED
    BY <1>10, <2>1, <2>2, Ticking DEF Tick, TypeOK
<1>11. ASSUME Restart PROVE TypeOK'
  <2>1. restarts' \in 0 .. MaxRestarts
    BY <1>11, GatewayAssumption DEF Restart, TypeOK
  <2> QED
    BY <1>11, <2>1, Ages DEF Restart, TypeOK
<1> QED
  BY <1>1, <1>2, <1>3, <1>4, <1>5, <1>6, <1>7, <1>8, <1>9, <1>10, <1>11
  DEF Next, Step, Model, TimesOut

\* Type correctness, for any threads and bounds (TypeOK).
THEOREM TypeCorrect == Spec => []TypeOK
<1>1. Init => TypeOK
  BY GatewayAssumption, Ages DEF Init, TypeOK
<1> QED
  BY <1>1, NextTypes, PTL DEF Spec

-----------------------------------------------------------------------------
\* How old the data of a thread can be, and that of a cache entry.
Narrated(c) ==
    /\ pc[c] \in {"lookup", "evict", "cap"} => data[c] = 0
    /\ pc[c] = "first" => data[c] <= waiting[c]
    /\ pc[c] = "second" => data[c] <= Patience + waiting[c]
    /\ pc[c] \in {"add", "write", "log", "store"} => data[c] <= 2 * Patience

Kept(k) == cache[k] # None /\ cache[k].age <= TTL => cache[k].data <= cache[k].age + 2 * Patience

AgesKnown == (\A c \in Call : Narrated(c)) /\ \A k \in Key : Kept(k)

LEMMA Counts ==
    ASSUME TypeOK
    PROVE  /\ \A c \in Call : data[c] \in Nat /\ waiting[c] \in Nat /\ waiting[c] <= Patience /\ shown[c] \in Nat
           /\ \A k \in Key : cache[k] # None =>
                cache[k].data \in 0 .. Oldest + 1 /\ cache[k].age \in 0 .. TTL + 1
<1>1. 0 .. Oldest + 1 \subseteq Nat /\ 0 .. Patience \subseteq Nat
  BY Ages
<1>2. \A c \in Call : data[c] \in Nat /\ waiting[c] \in 0 .. Patience /\ shown[c] \in Nat
  BY <1>1 DEF TypeOK
<1>3. \A k \in Key : cache[k] # None => cache[k] \in Entry
  BY DEF TypeOK
<1> QED
  BY <1>1, <1>2, <1>3, Ages DEF Entry

LEMMA NextNarrated ==
    ASSUME TypeOK, AgesKnown, [Next]_vars, NEW b \in Call
    PROVE  Narrated(b)'
<1>1. CASE UNCHANGED vars
  BY <1>1 DEF vars, thread, AgesKnown, Narrated
<1>2. ASSUME NEW c \in Call, NEW k \in Key, Begin(c, k) PROVE Narrated(b)'
  BY <1>2 DEF Begin, Goto, TypeOK, AgesKnown, Narrated
<1>3. ASSUME NEW c \in Call, Lookup(c) \/ Evict(c) PROVE Narrated(b)'
  BY <1>3 DEF Lookup, Evict, Goto, TypeOK, AgesKnown, Narrated
<1>4. ASSUME NEW c \in Call, CheckCap(c) PROVE Narrated(b)'
  BY <1>4 DEF CheckCap, Goto, TypeOK, AgesKnown, Narrated
<1>5. ASSUME NEW c \in Call, NEW price, Answer(c, price) PROVE Narrated(b)'
  <2>1. CASE b # c
    BY <1>5, <2>1 DEF Answer, Goto, TypeOK, AgesKnown, Narrated
  <2>2. CASE b = c
    <3>1. data[c] <= 2 * Patience
      BY <1>5, Counts, Ages DEF Answer, Asking, AgesKnown, Narrated
    <3>2. pc'[c] = "add" /\ data' = data
      BY <1>5 DEF Answer, Goto, TypeOK
    <3> QED
      BY <2>2, <3>1, <3>2 DEF Narrated
  <2> QED
    BY <2>1, <2>2
<1>6. ASSUME NEW c \in Call, NEW price, Unfaithful(c, price) PROVE Narrated(b)'
  <2>1. CASE b # c
    BY <1>6, <2>1 DEF Unfaithful, Goto, TypeOK, AgesKnown, Narrated
  <2>2. CASE b = c /\ pc[c] = "first"
    <3>1. data[c] <= Patience + 0
      BY <2>2, Counts, Ages DEF AgesKnown, Narrated
    <3>2. pc'[c] = "second" /\ data' = data /\ waiting'[c] = 0
      BY <1>6, <2>2 DEF Unfaithful, Goto, TypeOK
    <3> QED
      BY <2>2, <3>1, <3>2 DEF Narrated
  <2>3. CASE b = c /\ pc[c] # "first"
    BY <1>6, <2>3 DEF Unfaithful, Goto, TypeOK, Narrated
  <2> QED
    BY <2>1, <2>2, <2>3
<1>7. ASSUME NEW c \in Call, Raises(c) PROVE Narrated(b)'
  BY <1>7 DEF Raises, Goto, TypeOK, AgesKnown, Narrated
<1>8. ASSUME NEW c \in Call, ReadMeter(c) \/ WriteMeter(c) \/ Log(c) \/ Store(c) PROVE Narrated(b)'
  BY <1>8 DEF ReadMeter, WriteMeter, Log, Store, Goto, TypeOK, AgesKnown, Narrated
<1>9. ASSUME Tick PROVE Narrated(b)'
  <2>1. CASE pc[b] \in Asking
    <3>1. pc' = pc /\ waiting'[b] = waiting[b] + 1 /\ data'[b] = Older(data[b], Oldest)
      BY <1>9, <2>1 DEF Tick
    <3>0. data[b] \in 0 .. Oldest + 1 /\ Oldest \in Nat
      BY Ages DEF TypeOK
    <3>2. data'[b] <= data[b] + 1 /\ data'[b] \in 0 .. Oldest + 1
      BY <3>0, <3>1, OneOlder
    <3>3. data'[b] \in Nat
      BY <3>0, <3>2
    <3>4. /\ pc[b] = "first" => data[b] <= waiting[b]
          /\ pc[b] = "second" => data[b] <= Patience + waiting[b]
      BY DEF AgesKnown, Narrated
    <3>5. /\ pc[b] = "first" => data'[b] <= waiting'[b]
          /\ pc[b] = "second" => data'[b] <= Patience + waiting'[b]
      BY <3>1, <3>2, <3>3, <3>4, Counts, Ages
    <3> QED
      BY <2>1, <3>1, <3>5 DEF Narrated, Asking
  <2>2. CASE pc[b] \notin Asking
    BY <1>9, <2>2 DEF Tick, AgesKnown, Narrated, Asking
  <2> QED
    BY <2>1, <2>2
<1>10. ASSUME Restart PROVE Narrated(b)'
  BY <1>10 DEF Restart, Narrated
<1> QED
  BY <1>1, <1>2, <1>3, <1>4, <1>5, <1>6, <1>7, <1>8, <1>9, <1>10 DEF Next, Step, Model, TimesOut

LEMMA NextKept ==
    ASSUME TypeOK, AgesKnown, [Next]_vars, NEW k \in Key
    PROVE  Kept(k)'
<1>1. ASSUME cache' = cache PROVE Kept(k)'
  BY <1>1 DEF AgesKnown, Kept
<1>2. ASSUME NEW c \in Call, Evict(c) PROVE Kept(k)'
  BY <1>2 DEF Evict, TypeOK, AgesKnown, Kept
<1>3. ASSUME NEW c \in Call, Store(c) PROVE Kept(k)'
  <2>1. data[c] <= 2 * Patience
    BY <1>3 DEF Store, AgesKnown, Narrated
  <2>2. cache'[k] = cache[k] \/ cache'[k] = [data |-> data[c], age |-> 0]
    BY <1>3 DEF Store, TypeOK
  <2>3. CASE cache'[k] = [data |-> data[c], age |-> 0]
    <3>1. cache'[k].data <= cache'[k].age + 2 * Patience
      BY <2>1, <2>3, Ages
    <3> QED
      BY <3>1 DEF Kept
  <2>4. CASE cache'[k] = cache[k]
    BY <2>4 DEF AgesKnown, Kept
  <2> QED
    BY <2>2, <2>3, <2>4
<1>4. ASSUME Tick PROVE Kept(k)'
  <2> SUFFICES ASSUME cache'[k] # None, cache'[k].age <= TTL
               PROVE  cache'[k].data <= cache'[k].age + 2 * Patience
    BY DEF Kept
  <2>1. /\ cache[k] # None /\ cache'[k].data = Older(cache[k].data, Oldest)
        /\ cache'[k].age = Older(cache[k].age, TTL)
    BY <1>4, Ticking
  <2>2. cache[k].data \in 0 .. Oldest + 1 /\ cache[k].age \in 0 .. TTL + 1
    BY <2>1, Counts
  <2>3. cache'[k].age = cache[k].age + 1
    BY <2>1, <2>2, OneOlder, Ages
  <2>4. cache'[k].data \in 0 .. Oldest + 1 /\ cache'[k].data <= cache[k].data + 1
    BY <2>1, <2>2, OneOlder, Ages
  <2>5. cache[k].data <= cache[k].age + 2 * Patience
    BY <2>1, <2>2, <2>3, Ages DEF AgesKnown, Kept
  <2> QED
    BY <2>2, <2>3, <2>4, <2>5, Ages
<1>5. ASSUME Restart PROVE Kept(k)'
  BY <1>5 DEF Restart, Kept
<1> QED
  BY <1>1, <1>2, <1>3, <1>4, <1>5
  DEF Next, Step, Model, TimesOut, Begin, Lookup, CheckCap, Answer, Unfaithful, Raises, ReadMeter,
      WriteMeter, Log, vars

\* No answer, cached or not, tells of data older than the life of a cache entry and the
\* two attempts that narrated it (AnswersAreRecent).
THEOREM Recent == Spec => []AnswersAreRecent
<1> DEFINE Ind == TypeOK /\ AgesKnown /\ AnswersAreRecent
<1>1. Init => Ind
  <2> SUFFICES ASSUME Init PROVE Ind
    OBVIOUS
  <2>1. TypeOK
    BY GatewayAssumption, Ages DEF Init, TypeOK
  <2>2. AgesKnown
    <3>1. \A c \in Call : pc[c] = "idle"
      BY DEF Init
    <3>2. \A k \in Key : cache[k] = None
      BY DEF Init
    <3> QED
      BY <3>1, <3>2 DEF AgesKnown, Narrated, Kept
  <2> QED
    BY <2>1, <2>2, Ages DEF Init, AnswersAreRecent
<1>2. Ind /\ [Next]_vars => Ind'
  <2> SUFFICES ASSUME Ind, [Next]_vars PROVE Ind'
    OBVIOUS
  <2>1. TypeOK'
    BY NextTypes
  <2>2. AgesKnown'
    BY NextNarrated, NextKept DEF AgesKnown
  <2>3. ASSUME shown' = shown PROVE AnswersAreRecent'
    BY <2>3 DEF AnswersAreRecent
  <2>4. ASSUME NEW c \in Call, Lookup(c), shown' # shown PROVE AnswersAreRecent'
    <3>1. Fresh(cache[key[c]]) /\ shown' = [shown EXCEPT ![c] = cache[key[c]].data]
      BY <2>4 DEF Lookup
    <3>2. key[c] \in Key
      BY DEF TypeOK
    <3>3. cache[key[c]].data <= Oldest
      BY <3>1, <3>2, Counts, Ages DEF Fresh, AgesKnown, Kept, Oldest
    <3> QED
      BY <3>1, <3>3 DEF AnswersAreRecent, TypeOK
  <2>5. ASSUME NEW c \in Call, Store(c) PROVE AnswersAreRecent'
    <3>1. data[c] <= Oldest
      BY <2>5, Counts, Ages DEF Store, AgesKnown, Narrated, Oldest
    <3> QED
      BY <2>5, <3>1 DEF Store, AnswersAreRecent, TypeOK
  <2>6. AnswersAreRecent'
    BY <2>3, <2>4, <2>5
    DEF Next, Step, Model, TimesOut, Begin, Evict, CheckCap, Answer, Unfaithful, Raises, ReadMeter,
        WriteMeter, Log, Tick, Restart, vars
  <2> QED
    BY <2>1, <2>2, <2>6
<1> QED
  BY <1>1, <1>2, PTL DEF Spec

-----------------------------------------------------------------------------
\* What the model was paid for answers whose threads have yet to write the meter: a
\* weight of the sets of threads that adds up, so that no sum need be computed.
due == [c \in Call |-> IF pc[c] \in {"add", "write"} THEN cost[c] ELSE 0]

Weighs(f, amount) ==
    /\ f \in [SUBSET Call -> Nat] /\ f[{}] = 0
    /\ \A S \in SUBSET Call, c \in Call : c \notin S => f[S \cup {c}] = f[S] + amount[c]

\* The meter, and what a thread has read of it, with all that is due is at most what
\* was paid.
Covers(f) ==
    /\ spend + f[Call] <= paid
    /\ \A c \in Call : pc[c] = "write" => seen[c] + f[Call] <= paid

Metered == \E f : Weighs(f, due) /\ Covers(f)

\* If one thread's amount changes, the weight of all changes by as much.
LEMMA Reweigh ==
    ASSUME NEW amount \in [Call -> Nat], NEW f, Weighs(f, amount),
           NEW c \in Call, NEW amended \in [Call -> Nat],
           \A b \in Call : b # c => amended[b] = amount[b]
    PROVE  \E g : /\ Weighs(g, amended)
                  /\ g[Call] = f[Call \ {c}] + amended[c] /\ f[Call] = f[Call \ {c}] + amount[c]
                  /\ f[Call \ {c}] \in Nat /\ g[Call] \in Nat /\ f[Call] \in Nat
<1> DEFINE g == [S \in SUBSET Call |-> IF c \in S THEN f[S \ {c}] + amended[c] ELSE f[S]]
<1>1. \A S \in SUBSET Call : f[S] \in Nat /\ S \ {c} \in SUBSET Call
  BY DEF Weighs
<1>2. g \in [SUBSET Call -> Nat] /\ g[{}] = 0
  BY <1>1 DEF Weighs
<1>3. ASSUME NEW S \in SUBSET Call, NEW b \in Call, b \notin S
      PROVE  g[S \cup {b}] = g[S] + amended[b]
  <2>0. S \cup {b} \in SUBSET Call /\ S \ {c} \in SUBSET Call
    OBVIOUS
  <2>1. CASE b = c
    <3>1. (S \cup {b}) \ {c} = S
      BY <1>3, <2>1
    <3>2. g[S \cup {b}] = f[S] + amended[c] /\ g[S] = f[S]
      BY <1>3, <2>0, <2>1, <3>1
    <3> QED
      BY <2>1, <3>2
  <2>2. CASE b # c /\ c \notin S
    <3>1. g[S \cup {b}] = f[S \cup {b}] /\ g[S] = f[S] /\ amended[b] = amount[b]
      BY <2>0, <2>2
    <3>2. f[S \cup {b}] = f[S] + amount[b]
      BY <1>3 DEF Weighs
    <3> QED
      BY <3>1, <3>2
  <2>3. CASE b # c /\ c \in S
    <3>1. (S \cup {b}) \ {c} = (S \ {c}) \cup {b} /\ b \notin S \ {c}
      BY <1>3, <2>3
    <3>2. g[S \cup {b}] = f[(S \ {c}) \cup {b}] + amended[c] /\ g[S] = f[S \ {c}] + amended[c] /\ amended[b] = amount[b]
      BY <2>0, <2>3, <3>1
    <3>3. f[(S \ {c}) \cup {b}] = f[S \ {c}] + amount[b]
      BY <2>0, <3>1 DEF Weighs
    <3>4. f[S \ {c}] \in Nat /\ amount[b] \in Nat /\ amended[c] \in Nat
      BY <1>1
    <3> QED
      BY <3>2, <3>3, <3>4
  <2> QED
    BY <2>1, <2>2, <2>3
<1>4. Weighs(g, amended)
  BY <1>2, <1>3 DEF Weighs
<1>5. Call \in SUBSET Call /\ Call \ {c} \in SUBSET Call /\ c \notin Call \ {c} /\ (Call \ {c}) \cup {c} = Call
  OBVIOUS
<1>6. g[Call] = f[Call \ {c}] + amended[c] /\ f[Call] = f[Call \ {c}] + amount[c]
  BY <1>5 DEF Weighs
<1>7. f[Call \ {c}] \in Nat /\ g[Call] \in Nat /\ f[Call] \in Nat
  BY <1>1, <1>2, <1>5
<1> QED
  BY <1>4, <1>6, <1>7

LEMMA DueTypes == TypeOK => due \in [Call -> Nat]
  BY DEF TypeOK, due

\* A step after which one thread, and no other, owes another amount.
LEMMA OneOwes ==
    ASSUME TypeOK, TypeOK', NEW f, Weighs(f, due), Covers(f), NEW c \in Call,
           \A b \in Call : b # c => pc'[b] = pc[b] /\ cost'[b] = cost[b]
    PROVE  \E g : /\ Weighs(g, due') /\ g[Call] + due[c] = f[Call] + due'[c]
                  /\ g[Call] \in Nat /\ f[Call] \in Nat /\ due[c] \in Nat /\ due'[c] \in Nat
<1>1. due \in [Call -> Nat] /\ due' \in [Call -> Nat]
  BY DEF TypeOK, due
<1>2. \A b \in Call : b # c => due'[b] = due[b]
  BY DEF due
<1>3. PICK now \in [Call -> Nat], next \in [Call -> Nat] : now = due /\ next = due'
  BY <1>1
<1>4. Weighs(f, now) /\ \A b \in Call : b # c => next[b] = now[b]
  BY <1>2, <1>3
<1>5. PICK g : /\ Weighs(g, next)
               /\ g[Call] = f[Call \ {c}] + next[c] /\ f[Call] = f[Call \ {c}] + now[c]
               /\ f[Call \ {c}] \in Nat /\ g[Call] \in Nat /\ f[Call] \in Nat
  BY <1>4, Reweigh
<1>6. next[c] \in Nat /\ now[c] \in Nat
  OBVIOUS
<1>7. g[Call] + now[c] = f[Call] + next[c]
  BY <1>5, <1>6
<1> QED
  BY <1>3, <1>5, <1>6, <1>7

LEMMA NextMetered == TypeOK /\ TypeOK' /\ Metered /\ [Next]_vars => Metered'
<1> SUFFICES ASSUME TypeOK, TypeOK', NEW f, Weighs(f, due), Covers(f), [Next]_vars
             PROVE  Metered'
  BY DEF Metered
<1>0. /\ spend \in Nat /\ paid \in Nat /\ \A c \in Call : seen[c] \in Nat /\ cost[c] \in Nat
      /\ f[Call] \in Nat
  BY DEF TypeOK, Weighs
\* Nobody owes more, nothing is taken back: the old weight, or a smaller one, will do.
<1>1. ASSUME UNCHANGED <<spend, paid>>,
             NEW c \in Call, \A b \in Call : b # c => UNCHANGED <<pc[b], cost[b], seen[b]>>,
             due'[c] <= due[c], pc'[c] = "write" => seen'[c] = spend \/ (pc[c] = "write" /\ seen'[c] = seen[c])
      PROVE  Metered'
  <2>1. PICK g : /\ Weighs(g, due') /\ g[Call] + due[c] = f[Call] + due'[c]
                 /\ g[Call] \in Nat /\ f[Call] \in Nat /\ due[c] \in Nat /\ due'[c] \in Nat
    BY <1>1, OneOwes
  <2>2. g[Call] <= f[Call]
    BY <1>1, <2>1
  <2>3. \A b \in Call : pc'[b] = "write" => seen'[b] + g[Call] <= paid
    BY <1>0, <1>1, <2>1, <2>2 DEF Covers
  <2>4. spend + g[Call] <= paid
    BY <1>0, <2>1, <2>2 DEF Covers
  <2> QED
    BY <1>1, <2>1, <2>3, <2>4 DEF Metered, Covers
<1>2. ASSUME NEW c \in Call, NEW place \in Places \ {"add", "write"}, Goto(c, place),
             UNCHANGED <<spend, cost, seen, paid>>
      PROVE  Metered'
  <2>1. \A b \in Call : b # c => pc'[b] = pc[b]
    BY <1>2, Moves
  <2>2. pc'[c] = place
    BY <1>2, Moves
  <2>3. due'[c] = 0 /\ due[c] \in Nat
    BY <2>2, <1>0 DEF due
  <2> QED
    BY <1>1, <1>2, <2>1, <2>2, <2>3
<1>3. ASSUME NEW c \in Call, ReadMeter(c) PROVE Metered'
  <2>1. \A b \in Call : b # c => pc'[b] = pc[b] /\ seen'[b] = seen[b]
    BY <1>3, Moves DEF ReadMeter, TypeOK, Places, Running
  <2>2. pc[c] = "add" /\ pc'[c] = "write" /\ seen'[c] = spend /\ cost' = cost
    BY <1>3, Moves DEF ReadMeter, TypeOK, Places, Running
  <2>3. due'[c] = due[c] /\ due[c] \in Nat
    BY <2>2, <1>0 DEF due
  <2> QED
    BY <1>1, <1>3, <2>1, <2>2, <2>3 DEF ReadMeter
<1>4. ASSUME NEW c \in Call, WriteMeter(c) PROVE Metered'
  <2>1. \A b \in Call : b # c => pc'[b] = pc[b]
    BY <1>4, Moves DEF WriteMeter, Places, Running
  <2>2. /\ pc[c] = "write" /\ pc'[c] = "log" /\ UNCHANGED <<cost, seen, paid>>
        /\ spend' = seen[c] + cost[c]
    BY <1>4, Moves DEF WriteMeter, Sum, Places, Running
  <2>3. due[c] = cost[c] /\ due'[c] = 0
    BY <2>2 DEF due
  <2>4. PICK g : /\ Weighs(g, due') /\ g[Call] + due[c] = f[Call] + due'[c]
                 /\ g[Call] \in Nat /\ f[Call] \in Nat /\ due[c] \in Nat /\ due'[c] \in Nat
    BY <2>1, <2>2, OneOwes
  <2>5. g[Call] + cost[c] = f[Call]
    BY <2>3, <2>4
  <2>6. spend' + g[Call] <= paid
    BY <1>0, <2>2, <2>4, <2>5 DEF Covers
  <2>7. \A b \in Call : pc'[b] = "write" => seen[b] + g[Call] <= paid
    BY <1>0, <2>1, <2>2, <2>4, <2>5 DEF Covers
  <2> QED
    BY <2>2, <2>4, <2>6, <2>7 DEF Metered, Covers
<1>5. ASSUME NEW c \in Call, NEW price \in Costs, Answer(c, price) PROVE Metered'
  <2>1. \A b \in Call : b # c => pc'[b] = pc[b] /\ cost'[b] = cost[b]
    BY <1>5, Moves DEF Answer, TypeOK, Places, Running
  <2>2. /\ pc[c] \in Asking /\ pc'[c] = "add" /\ cost'[c] = price /\ UNCHANGED <<spend, seen>>
        /\ paid' = paid + price /\ price \in Nat
    BY <1>5, Moves, GatewayAssumption DEF Answer, TypeOK, Places, Running
  <2>3. due[c] = 0 /\ due'[c] = price
    BY <2>2 DEF due, Asking
  <2>4. PICK g : /\ Weighs(g, due') /\ g[Call] + due[c] = f[Call] + due'[c]
                 /\ g[Call] \in Nat /\ f[Call] \in Nat /\ due[c] \in Nat /\ due'[c] \in Nat
    BY <2>1, OneOwes
  <2>5. g[Call] = f[Call] + price
    BY <2>2, <2>3, <2>4
  <2>6. spend + g[Call] <= paid'
    BY <1>0, <2>2, <2>5 DEF Covers
  <2>7. \A b \in Call : pc'[b] = "write" => seen[b] + g[Call] <= paid'
    BY <1>0, <2>1, <2>2, <2>5 DEF Covers
  <2> QED
    BY <2>2, <2>4, <2>6, <2>7 DEF Metered, Covers
<1>6. ASSUME NEW c \in Call, NEW price \in Costs, Unfaithful(c, price) PROVE Metered'
  <2>1. /\ pc' = [pc EXCEPT ![c] = IF pc[c] = "first" THEN "second" ELSE "idle"]
        /\ pc[c] \in Asking /\ UNCHANGED <<spend, cost, seen>> /\ paid' = paid + price /\ price \in Nat
    BY <1>6, GatewayAssumption DEF Unfaithful, Goto
  <2>2. due' = due
    BY <2>1 DEF due, TypeOK, Asking
  <2>3. \A b \in Call : pc'[b] = "write" => pc[b] = "write"
    BY <2>1 DEF TypeOK
  <2>4. spend + f[Call] <= paid'
    BY <1>0, <2>1 DEF Covers
  <2>5. \A b \in Call : pc'[b] = "write" => seen[b] + f[Call] <= paid'
    BY <1>0, <2>1, <2>3 DEF Covers
  <2> QED
    BY <2>1, <2>2, <2>4, <2>5 DEF Metered, Covers
<1>7. ASSUME Restart PROVE Metered'
  <2> DEFINE zero == [S \in SUBSET Call |-> 0]
  <2>1. \A c \in Call : pc'[c] = "idle"
    BY <1>7 DEF Restart
  <2>2. due' = [c \in Call |-> 0]
    BY <2>1 DEF due
  <2>3. Weighs(zero, due')
    BY <2>2 DEF Weighs
  <2>4. spend' = 0 /\ paid' = paid /\ zero[Call] = 0
    BY <1>7 DEF Restart
  <2> QED
    BY <1>0, <2>1, <2>3, <2>4 DEF Metered, Covers
<1>8. CASE UNCHANGED <<pc, spend, cost, seen, paid>>
  BY <1>8 DEF Metered, Covers, due
<1>9. ASSUME NEW c \in Call,
             Lookup(c) \/ Evict(c) \/ CheckCap(c) \/ Raises(c) \/ Log(c) \/ Store(c) \/ \E k \in Key : Begin(c, k)
      PROVE  \E place \in Places \ {"add", "write"} : Goto(c, place) /\ UNCHANGED <<spend, cost, seen, paid>>
  BY <1>9 DEF Lookup, Evict, CheckCap, Raises, Log, Store, Begin, Places, Running, Asking
<1>10. CASE Tick \/ UNCHANGED vars
  BY <1>8, <1>10 DEF Tick, vars, thread
<1> QED
  BY <1>2, <1>3, <1>4, <1>5, <1>6, <1>7, <1>9, <1>10 DEF Next, Step, Model, TimesOut

\* The meter never shows more than the model was paid, however many threads lose each
\* other's updates (NeverOvercharged).
THEOREM Uncharged == Spec => []NeverOvercharged
<1>1. Init => Metered
  <2> SUFFICES ASSUME Init PROVE Metered
    OBVIOUS
  <2> DEFINE zero == [S \in SUBSET Call |-> 0]
  <2>1. due = [c \in Call |-> 0] /\ spend = 0 /\ paid = 0 /\ \A c \in Call : pc[c] = "idle"
    BY DEF Init, due
  <2>2. Weighs(zero, due) /\ zero[Call] = 0
    BY <2>1 DEF Weighs
  <2> QED
    BY <2>1, <2>2 DEF Metered, Covers
<1>2. TypeOK /\ Metered => NeverOvercharged
  <2> SUFFICES ASSUME TypeOK, NEW f, Weighs(f, due), Covers(f) PROVE NeverOvercharged
    BY DEF Metered
  <2>1. spend \in Nat /\ paid \in Nat /\ f[Call] \in Nat
    BY DEF TypeOK, Weighs
  <2> QED
    BY <2>1 DEF Covers, NeverOvercharged
<1> QED
  BY <1>1, <1>2, NextMetered, TypeCorrect, PTL DEF Spec
=============================================================================
