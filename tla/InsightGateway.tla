---------------------------- MODULE InsightGateway ----------------------------
(***************************************************************************)
(* The model gateway of intelligence-service (application/gateway/         *)
(* client.py) as GetMorningBrief uses it: each request runs in a thread of *)
(* its own (asyncio.to_thread), and the threads share the answer cache and *)
(* the spend meter of one workspace without a lock.                        *)
(*                                                                         *)
(* Time is kept as ages in ticks.  A step of a thread takes no time, the   *)
(* answer of the model up to Patience ticks an attempt.                    *)
(***************************************************************************)
EXTENDS Integers

CONSTANTS
    Call,          \* threads
    Key,           \* filters hashes: the windows a brief is asked for
    None,          \* no cache entry
    Cap,           \* the cap of the workspace
    Costs,         \* what one answer of the model may cost
    TTL,           \* ticks a cache entry is served
    Patience,      \* ticks an attempt may last: timeout and LiteLLM's retries
    MaxRequests,   \* bound: requests
    MaxRestarts    \* bound: restarts of the process

ASSUME GatewayAssumption ==
    /\ Cap \in Nat /\ Costs \subseteq Nat /\ Costs # {}
    /\ TTL \in Nat /\ Patience \in Nat
    /\ MaxRequests \in Nat /\ MaxRestarts \in Nat

\* The oldest a cached answer's data may be: the entry may have lived its time, and
\* the data was read before the two attempts that narrated it.
Oldest == TTL + 2 * Patience

\* Ages are counted up to one tick past what matters.
Older(age, limit) == IF age <= limit THEN age + 1 ELSE age

\* A cached answer: the age of the data it tells of and of the entry itself.
Entry == [data : 0 .. Oldest + 1, age : 0 .. TTL + 1]

ASSUME NoneAssumption == None \notin Entry

VARIABLES
    cache,      \* Key -> entry
    spend,      \* the meter
    pc,         \* where a thread is
    key,        \* the window it was asked for
    data,       \* the age of the signals it read
    waiting,    \* how long the model has had its question
    cost,       \* what the answer in hand cost
    seen,       \* the meter when add_spend read it
    shown,      \* the age of the data of the last answer given
    paid,       \* what the model was really paid
    requests, restarts

thread == <<pc, key, data, waiting, cost, seen>>
vars == <<cache, spend, thread, shown, paid, requests, restarts>>

Asking == {"first", "second"}
Running == {"lookup", "evict", "cap", "add", "write", "log", "store"}

TypeOK ==
    /\ cache \in [Key -> Entry \cup {None}]
    /\ spend \in Nat /\ paid \in Nat
    /\ pc \in [Call -> {"idle"} \cup Asking \cup Running]
    /\ key \in [Call -> Key]
    /\ data \in [Call -> 0 .. Oldest + 1]
    /\ waiting \in [Call -> 0 .. Patience]
    /\ cost \in [Call -> Nat] /\ seen \in [Call -> Nat]
    /\ shown \in [Call -> 0 .. Oldest + 1]
    /\ requests \in 0 .. MaxRequests /\ restarts \in 0 .. MaxRestarts

Init ==
    /\ cache = [k \in Key |-> None]
    /\ spend = 0 /\ paid = 0
    /\ pc = [c \in Call |-> "idle"]
    /\ key \in [Call -> Key]
    /\ data = [c \in Call |-> 0] /\ waiting = [c \in Call |-> 0]
    /\ cost = [c \in Call |-> 0] /\ seen = [c \in Call |-> 0]
    /\ shown = [c \in Call |-> 0]
    /\ requests = 0 /\ restarts = 0

Goto(c, place) == pc' = [pc EXCEPT ![c] = place]

-----------------------------------------------------------------------------
\* A request: the signals of the window are read, the gateway is called.
Begin(c, k) ==
    /\ pc[c] = "idle" /\ requests < MaxRequests
    /\ requests' = requests + 1
    /\ key' = [key EXCEPT ![c] = k]
    /\ data' = [data EXCEPT ![c] = 0]
    /\ Goto(c, "lookup")
    /\ UNCHANGED <<cache, spend, waiting, cost, seen, shown, paid, restarts>>

\* A bug: entries that are never too old.
EverFresh(entry) == entry # None

Fresh(entry) == entry # None /\ entry.age <= TTL

\* The cache is read: an answer, none, or one past its time, which is to go.
Lookup(c) ==
    /\ pc[c] = "lookup"
    /\ LET entry == cache[key[c]]
       IN  IF Fresh(entry)
           THEN Goto(c, "idle") /\ shown' = [shown EXCEPT ![c] = entry.data]
           ELSE Goto(c, IF entry = None THEN "cap" ELSE "evict") /\ UNCHANGED shown
    /\ UNCHANGED <<cache, spend, key, data, waiting, cost, seen, paid, requests, restarts>>

\* del self._store[key]: what is there by now goes, and if nothing is there the
\* request ends in a KeyError.
Evict(c) ==
    /\ pc[c] = "evict"
    /\ Goto(c, IF cache[key[c]] = None THEN "idle" ELSE "cap")
    /\ cache' = [cache EXCEPT ![key[c]] = None]
    /\ UNCHANGED <<spend, key, data, waiting, cost, seen, shown, paid, requests, restarts>>

\* The spend cap; at or above it the request raises.
CheckCap(c) ==
    /\ pc[c] = "cap"
    /\ Goto(c, IF spend < Cap THEN "first" ELSE "idle")
    /\ waiting' = [waiting EXCEPT ![c] = 0]
    /\ UNCHANGED <<cache, spend, key, data, cost, seen, shown, paid, requests, restarts>>

\* A faithful answer.
Answer(c, price) ==
    /\ pc[c] \in Asking
    /\ Goto(c, "add")
    /\ cost' = [cost EXCEPT ![c] = price]
    /\ paid' = paid + price
    /\ waiting' = [waiting EXCEPT ![c] = 0]
    /\ UNCHANGED <<cache, spend, key, data, seen, shown, requests, restarts>>

\* One that cites a number it was not given: asked again once, then refused.
Unfaithful(c, price) ==
    /\ pc[c] \in Asking
    /\ Goto(c, IF pc[c] = "first" THEN "second" ELSE "idle")
    /\ paid' = paid + price
    /\ waiting' = [waiting EXCEPT ![c] = 0]
    /\ UNCHANGED <<cache, spend, key, data, cost, seen, shown, requests, restarts>>

\* The attempt has had its time.
Over(c) == waiting[c] = Patience

\* The model raises, or the timeout does: nothing of it is recorded.
Raises(c) ==
    /\ pc[c] \in Asking
    /\ Goto(c, "idle")
    /\ waiting' = [waiting EXCEPT ![c] = 0]
    /\ UNCHANGED <<cache, spend, key, data, cost, seen, shown, paid, requests, restarts>>

\* A bug: a timeout that asks again without end.
AsksAgain(c) ==
    /\ pc[c] \in Asking /\ Over(c)
    /\ waiting' = [waiting EXCEPT ![c] = 0]
    /\ UNCHANGED <<cache, spend, pc, key, data, cost, seen, shown, paid, requests, restarts>>

TimesOut(c) == Over(c) /\ Raises(c)

\* add_spend reads the meter ...
ReadMeter(c) ==
    /\ pc[c] = "add"
    /\ seen' = [seen EXCEPT ![c] = spend]
    /\ Goto(c, "write")
    /\ UNCHANGED <<cache, spend, key, data, waiting, cost, shown, paid, requests, restarts>>

\* A bug: the sum of the meter and the cost of two attempts.
TwoAttempts(c) == seen[c] + 2 * cost[c]

\* ... and writes what it read and the cost of the last attempt.
Sum(c) == seen[c] + cost[c]

WriteMeter(c) ==
    /\ pc[c] = "write"
    /\ spend' = Sum(c)
    /\ Goto(c, "log")
    /\ UNCHANGED <<cache, key, data, waiting, cost, seen, shown, paid, requests, restarts>>

\* The Decision-Log row; a writer that raises ends the request.
Log(c) ==
    /\ pc[c] = "log"
    /\ \E place \in {"store", "idle"} : Goto(c, place)
    /\ UNCHANGED <<cache, spend, key, data, waiting, cost, seen, shown, paid, requests, restarts>>

\* The answer is cached and given.
Store(c) ==
    /\ pc[c] = "store"
    /\ cache' = [cache EXCEPT ![key[c]] = [data |-> data[c], age |-> 0]]
    /\ shown' = [shown EXCEPT ![c] = data[c]]
    /\ Goto(c, "idle")
    /\ UNCHANGED <<spend, key, data, waiting, cost, seen, paid, requests, restarts>>

\* A tick: only the model takes time, and never more than its timeout.
Tick ==
    /\ \A c \in Call : pc[c] \notin Running
    /\ \A c \in Call : pc[c] \in Asking => ~Over(c)
    /\ cache' = [k \in Key |-> IF cache[k] = None THEN None
                               ELSE [data |-> Older(cache[k].data, Oldest), age |-> Older(cache[k].age, TTL)]]
    /\ data' = [c \in Call |-> IF pc[c] \in Asking THEN Older(data[c], Oldest) ELSE data[c]]
    /\ waiting' = [c \in Call |-> IF pc[c] \in Asking THEN waiting[c] + 1 ELSE waiting[c]]
    /\ UNCHANGED <<spend, pc, key, cost, seen, shown, paid, requests, restarts>>

\* The process restarts: cache and meter were in memory.
Restart ==
    /\ restarts < MaxRestarts
    /\ restarts' = restarts + 1
    /\ cache' = [k \in Key |-> None]
    /\ spend' = 0
    /\ pc' = [c \in Call |-> "idle"]
    /\ waiting' = [c \in Call |-> 0]
    /\ UNCHANGED <<key, data, cost, seen, shown, paid, requests>>

Step(c) ==
    \/ Lookup(c) \/ Evict(c) \/ CheckCap(c) \/ ReadMeter(c)
    \/ WriteMeter(c) \/ Log(c) \/ Store(c) \/ TimesOut(c)

Model(c) == Raises(c) \/ \E price \in Costs : Answer(c, price) \/ Unfaithful(c, price)

Next ==
    \/ \E c \in Call : Step(c) \/ Model(c) \/ \E k \in Key : Begin(c, k)
    \/ Tick \/ Restart

Spec == Init /\ [][Next]_vars

\* Threads run and time passes; the model owes nobody an answer.
Fairness == WF_vars(Tick) /\ \A c \in Call : WF_vars(Step(c))

FairSpec == Spec /\ Fairness

-----------------------------------------------------------------------------
\* Safety: no answer, cached or not, tells of data that is older than the life of a
\* cache entry and the two attempts that narrated it: the stamp is that of the entry,
\* the data is that of the request that filled it.
AnswersAreRecent == \A c \in Call : shown[c] <= Oldest

\* Safety: the meter never shows more than the model was paid, however the updates
\* of threads are lost: no workspace meets its cap early.
NeverOvercharged == spend <= paid

\* Liveness: a request ends, also when the model never answers.
EveryRequestEnds == \A c \in Call : pc[c] # "idle" ~> pc[c] = "idle"

\* What complete() says it raises: the cap, an unfaithful answer, a wrong tier; a
\* lookup in the cache is not among them.  It fails where two threads find the same
\* old entry.
LookupNeverFails == \A c \in Call : pc[c] = "evict" => cache[key[c]] # None
=============================================================================
