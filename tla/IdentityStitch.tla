---------------------------- MODULE IdentityStitch ----------------------------
(***************************************************************************)
(* The identity stitcher of core-service (contexts/identity/               *)
(* stitch-clusters.ts) for one workspace: co-occurrence edges are inserted,*)
(* runs of stitchClusters turn them into clusters with a lasting id and    *)
(* stamp it on the customer rows, an erasure takes a subject's edges and   *)
(* stamp away (erase-subject.ts).                                          *)
(*                                                                         *)
(* A run is one READ COMMITTED transaction: its two reads see what was     *)
(* committed when they ran, and its writes take nothing into account that  *)
(* another run has written since.                                          *)
(***************************************************************************)
EXTENDS UnionFind, FiniteSets

CONSTANTS
    Stitcher,     \* runs that may be under way at once
    Id,           \* cluster ids, ordered numbers
    Pair,         \* customers that may turn up together
    Late,         \* customers whose row comes later
    Subject,      \* customers who may ask to be erased
    None,         \* no entry, no id
    NoRow,        \* no customer row
    MaxEdges,     \* bound: edges inserted
    MaxErasures   \* bound: subjects erased

ASSUME StitchAssumption ==
    /\ Id \subseteq Nat /\ Pair \subseteq Edge /\ Late \cup Subject \subseteq Node
    /\ None \notin Id /\ NoRow \notin Id \cup {None}
    /\ MaxEdges \in Nat /\ MaxErasures \in Nat /\ IsFiniteSet(Stitcher)

\* Created_at counts only as an order.
Time == 0 .. LastNode + Cardinality(Stitcher)
Entry == [id : Id, at : Time]

ASSUME NoneAssumption == None \notin Entry

VARIABLES
    edges,      \* identity_cluster_edges
    ever,       \* every edge there has been
    registry,   \* identity_cluster_registry, by min_label
    stamp,      \* identity_cluster_id of the customer rows
    phase,      \* what a run is about to do
    comps,      \* the components it has computed
    plan,       \* the id it will write for each node
    start,      \* now() of its transaction
    calm,       \* no erasure yet, and no two runs at once
    erasures

graph == <<edges, ever>>
stitchRun == <<phase, comps, plan, start>>
stitchVars == <<graph, registry, stamp, stitchRun, calm, erasures>>

StitchTypeOK ==
    /\ edges \subseteq ever /\ ever \subseteq Pair /\ Cardinality(ever) <= MaxEdges
    /\ registry \in [Node -> Entry \cup {None}]
    /\ stamp \in [Node -> Id \cup {None, NoRow}]
    /\ phase \in [Stitcher -> {"idle", "registry", "write"}]
    /\ comps \in [Stitcher -> SUBSET SUBSET Node]
    /\ plan \in [Stitcher -> [Node -> Id \cup {None}]]
    /\ start \in [Stitcher -> Time]
    /\ calm \in BOOLEAN /\ erasures \in 0 .. MaxErasures

NoPlan == [n \in Node |-> None]

StitchInit ==
    /\ edges = {} /\ ever = {}
    /\ registry = [n \in Node |-> None]
    /\ stamp = [n \in Node |-> IF n \in Late THEN NoRow ELSE None]
    /\ phase = [s \in Stitcher |-> "idle"]
    /\ comps = [s \in Stitcher |-> {}]
    /\ plan = [s \in Stitcher |-> NoPlan]
    /\ start = [s \in Stitcher |-> 0]
    /\ calm = TRUE /\ erasures = 0

-----------------------------------------------------------------------------
\* A customer gets a row, without an id; what inserts it is outside of this code.
AddRow(n) ==
    /\ stamp[n] = NoRow
    /\ stamp' = [stamp EXCEPT ![n] = None]
    /\ UNCHANGED <<graph, registry, stitchRun, calm, erasures>>

\* A bug: the edge stays as it was seen.
AsSeen(a, b) == <<a, b>>

\* The smaller node first.
Normal(a, b) == IF a <= b THEN <<a, b>> ELSE <<b, a>>

\* insertIdentityEdge: no loops, and an edge that is there stays.
InsertEdge(a, b) ==
    /\ {<<a, b>>, <<b, a>>} \cap Pair # {}
    /\ edges' = edges \cup {Normal(a, b)}
    /\ ever' = ever \cup {Normal(a, b)}
    /\ Cardinality(ever') <= MaxEdges
    /\ UNCHANGED <<registry, stamp, stitchRun, calm, erasures>>

\* The subject's stamp and edges go in one transaction; the registry stays.
Erase(n) ==
    /\ n \in Subject /\ stamp[n] # NoRow /\ erasures < MaxErasures
    /\ stamp' = [stamp EXCEPT ![n] = None]
    /\ edges' = {e \in edges : n \notin {e[1], e[2]}}
    /\ erasures' = erasures + 1
    /\ calm' = FALSE
    /\ UNCHANGED <<ever, registry, stitchRun>>

\* Times renumbered in their order, so that there are finitely many.
Live == {registry[n].at : n \in {m \in Node : registry[m] # None}}
            \cup {start[s] : s \in {q \in Stitcher : phase[q] # "idle"}}
Rank(t) == Cardinality({u \in Live : u < t})

\* The run is over.
Over(s) ==
    /\ phase' = [phase EXCEPT ![s] = "idle"]
    /\ comps' = [comps EXCEPT ![s] = {}]
    /\ plan' = [plan EXCEPT ![s] = NoPlan]
    /\ start' = [start EXCEPT ![s] = 0]

\* What buildComponentsFromEdges may return for which table: its rows come in any order.
EdgeTable == {E \in SUBSET Pair : Cardinality(E) <= MaxEdges}
Built == UNION {{<<E, BuildComponents(order)>> : order \in SetToSeqs(E)} : E \in EdgeTable}

\* BEGIN, which dates the entries the run will create, and its first statement;
\* without an edge the run is over at once.
ReadEdges(s) ==
    /\ phase[s] = "idle" /\ edges # {}
    /\ \E built \in Built : built[1] = edges /\ comps' = [comps EXCEPT ![s] = built[2]]
    /\ phase' = [phase EXCEPT ![s] = "registry"]
    /\ registry' = [n \in Node |-> IF registry[n] = None THEN None
                                   ELSE [registry[n] EXCEPT !.at = Rank(@)]]
    /\ start' = [q \in Stitcher |-> IF q = s THEN Cardinality(Live)
                                    ELSE IF phase[q] = "idle" THEN 0 ELSE Rank(start[q])]
    /\ calm' = (calm /\ \A q \in Stitcher : phase[q] = "idle")
    /\ UNCHANGED <<graph, stamp, plan, erasures>>

Entries(C) == {registry[n] : n \in {m \in C : registry[m] # None}}

Before(x, y) == x.at < y.at \/ (x.at = y.at /\ x.id <= y.id)

\* A bug: the youngest cluster survives a merge.
Youngest(C) == CHOOSE x \in Entries(C) : \A y \in Entries(C) : Before(y, x)

\* resolveWinningClusterId: the oldest entry survives, the smaller id among equals.
Winner(C) == CHOOSE x \in Entries(C) : \A y \in Entries(C) : Before(x, y)

\* randomUUID: ids that are nowhere in use.
Unused ==
    Id \ ({registry[n].id : n \in {m \in Node : registry[m] # None}}
            \cup Range(stamp) \cup UNION {Range(plan[s]) : s \in Stitcher})

\* A bug: one id drawn for all the new clusters of a run.
OneForAll(s) == {[C \in {D \in comps[s] : Entries(D) = {}} |-> i] : i \in Unused}

\* As many ids for new clusters; their order matters only among themselves, since
\* no other entry will have their created_at.
Fresh(s) ==
    LET new == {C \in comps[s] : Entries(C) = {}}
    IN  Injection(new, {i \in Unused : Cardinality({j \in Unused : j < i}) < Cardinality(new)})

\* The registry is read and every component resolved, in memory.
Resolve(s) ==
    /\ phase[s] = "registry"
    /\ \E fresh \in Fresh(s) :
          plan' = [plan EXCEPT ![s] = [n \in Node |->
                      IF n \notin UNION comps[s] THEN None
                      ELSE LET C == CHOOSE D \in comps[s] : n \in D
                           IN  IF Entries(C) = {} THEN fresh[C] ELSE Winner(C).id]]
    /\ phase' = [phase EXCEPT ![s] = "write"]
    /\ UNCHANGED <<graph, registry, stamp, comps, start, calm, erasures>>

MinLabel(C) == CHOOSE n \in C : \A m \in C : n <= m

Labels(s) == {MinLabel(C) : C \in comps[s]}

\* upsertClusterEntry: an entry that is there keeps its created_at.
Upserted(s) ==
    [n \in Node |-> IF n \notin Labels(s) THEN registry[n]
                    ELSE [id |-> plan[s][n],
                          at |-> IF registry[n] = None THEN start[s] ELSE registry[n].at]]

\* A bug: only the customer the cluster is labelled by is stamped.
StampedLabel(s) ==
    [n \in Node |-> IF n \notin Labels(s) \/ stamp[n] = NoRow THEN stamp[n] ELSE plan[s][n]]

\* stampClusterOnPii: the rows that are there.
Stamped(s) ==
    [n \in Node |-> IF plan[s][n] = None \/ stamp[n] = NoRow THEN stamp[n] ELSE plan[s][n]]

Commit(s) ==
    /\ phase[s] = "write"
    /\ registry' = Upserted(s)
    /\ stamp' = Stamped(s)
    /\ Over(s)
    /\ UNCHANGED <<graph, calm, erasures>>

Abort(s) ==
    /\ phase[s] # "idle"
    /\ Over(s)
    /\ UNCHANGED <<graph, registry, stamp, calm, erasures>>

Step(s) == ReadEdges(s) \/ Resolve(s) \/ Commit(s)

StitchNext ==
    \/ \E n \in Node : AddRow(n) \/ Erase(n)
    \/ \E a, b \in Node : InsertEdge(a, b)
    \/ \E s \in Stitcher : Step(s) \/ Abort(s)

StitchSpec == StitchInit /\ [][StitchNext]_stitchVars

\* The job is run again and again, a run goes on, and failures come to an end.
StitchFairSpec ==
    /\ StitchSpec
    /\ \A s \in Stitcher : WF_stitchVars(Step(s))
    /\ <>[][\A s \in Stitcher : ~Abort(s)]_stitchVars

-----------------------------------------------------------------------------
\* The graph of each table: the pairs a path of edges connects, and the components.
Joined == UNION {{<<E, p>> : p \in {q \in Edge : Linked(E, q[1], q[2])}} : E \in EdgeTable}
Right == {<<E, Components(E)>> : E \in EdgeTable}

\* Safety: whatever the order of the edges, what a run would compute from the table
\* are the connected components of its graph.
ComponentsRight == \A built \in Built : built[1] = edges => built \in Right

\* Safety: two customers carry one id only if the edges seen so far lead from one to
\* the other: no run, however late, hands a cluster the id of a stranger.
SameIdMeansLinked ==
    \A p \in Edge : <<ever, p>> \notin Joined /\ stamp[p[1]] = stamp[p[2]] => stamp[p[1]] \notin Id

\* Action property: as long as runs do not overlap and nobody is erased, a customer
\* leaves its cluster only for one that is as old: the registry still knows both, and
\* the one it joins was created no later.
AgesOf(id) == {registry[n].at : n \in {m \in Node : registry[m] # None /\ registry[m].id = id}}

OlderWins ==
    [][calm' => \A n \in Node : stamp[n] \in Id /\ stamp'[n] # stamp[n] =>
          /\ stamp'[n] \in Id
          /\ \E t \in AgesOf(stamp[n]) : TRUE
          /\ \E t \in AgesOf(stamp'[n]) : \A u \in AgesOf(stamp[n]) : t <= u]_stitchVars

\* Liveness: once edges and rows have settled, the customers a path of edges connects
\* come to carry one id, and keep it.
Apart ==
    {p \in Edge : /\ <<edges, p>> \in Joined
                  /\ NoRow \notin {stamp[p[1]], stamp[p[2]]}
                  /\ stamp[p[1]] = None \/ stamp[p[2]] # stamp[p[1]]}

EventuallyOneId == <>[](Apart = {})
=============================================================================
