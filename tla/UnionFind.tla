------------------------------ MODULE UnionFind ------------------------------
(***************************************************************************)
(* The union-find of core-service (domain/identity/union-find.ts): path    *)
(* compression, union by rank, and the components it emits.  Nodes are     *)
(* customer_refs; only their lexicographic order counts, so they are the   *)
(* numbers 1 .. LastNode.                                                  *)
(***************************************************************************)
EXTENDS Integers, Sequences, SequencesExt, Functions

CONSTANT LastNode

ASSUME UnionFindAssumption == LastNode \in Nat

Node == 1 .. LastNode

\* The edges as the table holds them: the smaller node first.
Edge == {e \in Node \X Node : e[1] < e[2]}

Trees == [parent : [Node -> Node], rank : [Node -> Nat]]

\* A node nobody has added yet is its own parent too.
NoForest == [parent |-> [n \in Node |-> n], rank |-> [n \in Node |-> 0]]

\* The nodes passed on the way up from n.
Way(f, n) ==
    LET up[k \in 0 .. LastNode] == IF k = 0 THEN n ELSE f.parent[up[k - 1]]
    IN  up
Path(f, n) == Range(Way(f, n))

Root(f, n) == CHOOSE r \in Path(f, n) : f.parent[r] = r

\* The parents once the nodes on both ways hang on their roots.
Hung(f, e) ==
    [m \in Node |-> CASE m \in Path(f, e[1]) -> Root(f, e[1])
                     [] m \in Path(f, e[2]) \ Path(f, e[1]) -> Root(f, e[2])
                     [] OTHER -> f.parent[m]]

\* What the two finds of a union leave behind.
Compressed(f, e) == [f EXCEPT !.parent = Hung(f, e)]

Hang(f, child, root) == [f EXCEPT !.parent[child] = root]

Raise(f, root) == [f EXCEPT !.rank[root] = @ + 1]

\* A bug: the nodes are hung on each other without looking for their roots.
UniteNodes(f, e) == Hang(f, e[2], e[1])

\* union, the two finds included: the higher rank wins, the smaller root among equals.
Unite(f, e) ==
    LET a == Root(f, e[1])
        b == Root(f, e[2])
        g == Compressed(f, e)
    IN  CASE a = b -> g
          [] f.rank[a] < f.rank[b] -> Hang(g, a, b)
          [] f.rank[a] > f.rank[b] -> Hang(g, b, a)
          [] a < b /\ f.rank[a] = f.rank[b] -> Raise(Hang(g, b, a), a)
          [] b < a /\ f.rank[a] = f.rank[b] -> Raise(Hang(g, a, b), b)

\* buildComponents: the nodes grouped by their root.
Groups(f, known) == {{m \in known : Root(f, m) = Root(f, n)} : n \in known}

Ends(E) == UNION {{e[1], e[2]} : e \in E}

\* buildComponentsFromEdges; a node without an edge is in no component.
Forest(list) ==
    LET grown[k \in 0 .. Len(list)] == IF k = 0 THEN NoForest ELSE Unite(grown[k - 1], list[k])
    IN  grown[Len(list)]

BuildComponents(list) == Groups(Forest(list), Ends(ToSet(list)))

-----------------------------------------------------------------------------
(* What the algorithm is checked against. *)

Closed(S, E) == \A e \in E : e[1] \in S <=> e[2] \in S

\* A path of edges leads from a to b: no set of nodes closed under E tells them apart.
Linked(E, a, b) == \A S \in SUBSET Node : Closed(S, E) => (a \in S <=> b \in S)
Components(E) == {{m \in Ends(E) : Linked(E, m, n)} : n \in Ends(E)}
=============================================================================
