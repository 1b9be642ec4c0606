------------------------------ MODULE MpcGraph ------------------------------
(***************************************************************************)
(* The persistent dataflow graph of the prover: classes Node, Operation,   *)
(* GraphBase and Graph of src/src/backend.  A graph is a value; every      *)
(* manipulation of the code returns a new graph, and so does every         *)
(* operator here.                                                          *)
(*                                                                         *)
(* An edge is an Operation object.  The code compares edges by pointer;    *)
(* here an edge carries "born", the number of the rewriting that allocated *)
(* it (0 for the edges the builder made), so two edges allocated by        *)
(* different rewritings are different even when they look the same.        *)
(* inEdgesOf and outEdgesOf are sets of edges: the order inside a list is  *)
(* never observed, and an edge that uses a node twice, which the code has  *)
(* twice in the node's list, is counted twice by OutDeg.                   *)
(***************************************************************************)
EXTENDS Integers, Sequences, FiniteSetsExt

\* Node::NodeGenre, and the operators that reach the graph (POLILIZE and
\* INPUT never label an edge).
NodeGenre == {"INPUT", "OUTPUT", "OTHERS"}
Operator == {"TRANSIT", "ADD", "SUB", "MUL", "DIV", "SCALARMUL", "TYPECAST",
             "EVAL", "RECONSTRUCT"}

\* A party is its position in the prover's vector of parties.
Node == [party : Nat \ {0}, type : NodeGenre]

\* nullptr in "nodes": the node has been eliminated.
NullNode == [party |-> 0, type |-> "NONE"]

Edge(ids) == [op : Operator, ins : Seq(ids), out : ids, born : Nat]

Ids(g) == DOMAIN g.nodes
Live(g) == {n \in Ids(g) : g.nodes[n] # NullNode}

SrcsOf(e) == {e.ins[i] : i \in DOMAIN e.ins}

IsIO(g, n) == g.nodes[n].type \in {"INPUT", "OUTPUT"}
IsCorrupted(g, n) == g.nodes[n].party \in g.corrupted

InDeg(g, n) == Cardinality(g.inE[n])

\* outEdgesOf[n].size(): an edge is listed once for each use of n.
OutDeg(g, n) == Cardinality(UNION {{e} \X {i \in DOMAIN e.ins : e.ins[i] = n} : e \in g.outE[n]})

IsRandomNode(g, n) == InDeg(g, n) = 0 /\ ~IsIO(g, n)

RandomNodes(g) == {n \in Live(g) : IsRandomNode(g, n)}

\* A mutant of Bubbles: a computed output of a corrupted party is none.
BubblesOfHonest(g) == {n \in Live(g) : IsIO(g, n) /\ ~IsCorrupted(g, n)}

(***************************************************************************)
(* The nodes the constructor counts as bubbles: the inputs and outputs of  *)
(* honest parties, and those of corrupted parties that are computed from   *)
(* other nodes.                                                            *)
(***************************************************************************)
Bubbles(g) == {n \in Live(g) : IsIO(g, n) /\ (IsCorrupted(g, n) => InDeg(g, n) # 0)}

\* The Graph constructor that is given the two counters.
Graph(nodes, inE, outE, partyCnt, T, corrupted, rnd, bub) ==
    [nodes |-> nodes, inE |-> inE, outE |-> outE, partyCnt |-> partyCnt, T |-> T,
     corrupted |-> corrupted, rnd |-> rnd, bub |-> bub]

\* The Graph constructor that computes them.
NewGraph(base, partyCnt, T, corrupted) ==
    LET g == Graph(base.nodes, base.inE, base.outE, partyCnt, T, corrupted, 0, 0)
    IN Graph(base.nodes, base.inE, base.outE, partyCnt, T, corrupted,
             Cardinality(RandomNodes(g)), Cardinality(Bubbles(g)))

HasBubble(g) == g.bub > 0

-----------------------------------------------------------------------------
(* The manipulations.                                                      *)

CountIf(b) == IF b THEN 1 ELSE 0

\* What a manipulation of g returns: a graph with the same meta data.
Changed(g, nodes, inE, outE, rnd, bub) ==
    Graph(nodes, inE, outE, g.partyCnt, g.T, g.corrupted, rnd, bub)

\* Mutants of EliminateEdge: only the first input's out-list is updated; an
\* output that is no longer computed counts as random.
EliminateEdgeFirstInput(g, e) ==
    Changed(g, g.nodes,
            [g.inE EXCEPT ![e.out] = @ \ {e}], [g.outE EXCEPT ![e.ins[1]] = @ \ {e}],
            g.rnd + CountIf(InDeg(g, e.out) = 1 /\ ~IsIO(g, e.out)),
            g.bub - CountIf(InDeg(g, e.out) = 1 /\ IsIO(g, e.out) /\ IsCorrupted(g, e.out)))
EliminateEdgeAnyTarget(g, e) ==
    Changed(g, g.nodes,
            [g.inE EXCEPT ![e.out] = @ \ {e}],
            [n \in Ids(g) |-> g.outE[n] \ {e}],
            g.rnd + CountIf(InDeg(g, e.out) = 1),
            g.bub - CountIf(InDeg(g, e.out) = 1 /\ IsIO(g, e.out) /\ IsCorrupted(g, e.out)))

\* Graph::eliminateEdge
EliminateEdge(g, e) ==
    LET last == InDeg(g, e.out) = 1
    IN Changed(g, g.nodes,
               [n \in Ids(g) |-> IF n = e.out THEN g.inE[n] \ {e} ELSE g.inE[n]],
               [n \in Ids(g) |-> IF n \in SrcsOf(e) THEN g.outE[n] \ {e} ELSE g.outE[n]],
               g.rnd + CountIf(last /\ ~IsIO(g, e.out)),
               g.bub - CountIf(last /\ IsIO(g, e.out) /\ IsCorrupted(g, e.out)))

\* A mutant of AddEdge: a target with other in-edges stops being random, too.
AddEdgeAnyTarget(g, e) ==
    Changed(g, g.nodes,
            [g.inE EXCEPT ![e.out] = @ \cup {e}],
            [n \in Ids(g) |-> IF n \in SrcsOf(e) THEN g.outE[n] \cup {e} ELSE g.outE[n]],
            g.rnd - CountIf(~IsIO(g, e.out)),
            g.bub + CountIf(InDeg(g, e.out) = 0 /\ IsIO(g, e.out) /\ IsCorrupted(g, e.out)))

\* Graph::addEdge
AddEdge(g, e) ==
    LET first == InDeg(g, e.out) = 0
    IN Changed(g, g.nodes,
               [n \in Ids(g) |-> IF n = e.out THEN g.inE[n] \cup {e} ELSE g.inE[n]],
               [n \in Ids(g) |-> IF n \in SrcsOf(e) THEN g.outE[n] \cup {e} ELSE g.outE[n]],
               g.rnd - CountIf(first /\ ~IsIO(g, e.out)),
               g.bub + CountIf(first /\ IsIO(g, e.out) /\ IsCorrupted(g, e.out)))

\* The overloads of Graph::eliminateEdges and Graph::addEdges: the loops that
\* apply the two operations above to every edge of a list.
EliminateEdges(g, edges) == FoldSet(LAMBDA e, h : EliminateEdge(h, e), g, edges)
AddEdges(g, edges) == FoldSet(LAMBDA e, h : AddEdge(h, e), g, edges)

\* Mutants of EliminateNode: the node's place is erased; the bubbles are not updated.
EliminateNodeErased(g, n) ==
    Changed(g, [m \in Ids(g) \ {n} |-> g.nodes[m]],
            [m \in Ids(g) |-> g.inE[m] \ g.outE[n]], [m \in Ids(g) |-> g.outE[m] \ g.inE[n]],
            g.rnd, g.bub)
EliminateNodeUncounted(g, n) ==
    Changed(g, [g.nodes EXCEPT ![n] = NullNode],
            [m \in Ids(g) |-> IF m = n THEN {} ELSE g.inE[m] \ g.outE[n]],
            [m \in Ids(g) |-> g.outE[m] \ g.inE[n]],
            g.rnd, g.bub)

(***************************************************************************)
(* Graph::eliminateNode.  The edges that leave the node disappear from the *)
(* in-lists of their targets, but not from the out-lists of their other    *)
(* sources; randomNodeCnt is passed on as it is.                           *)
(***************************************************************************)
EliminateNode(g, n) ==
    Changed(g, [m \in Ids(g) |-> IF m = n THEN NullNode ELSE g.nodes[m]],
            [m \in Ids(g) |-> IF m = n THEN {} ELSE g.inE[m] \ g.outE[n]],
            [m \in Ids(g) |-> IF m = n THEN {} ELSE g.outE[m] \ g.inE[n]],
            g.rnd,
            g.bub - CountIf(IsIO(g, n) /\ ~IsCorrupted(g, n)))

-----------------------------------------------------------------------------
(* Graph::potential, the ranking function of the search.                   *)

\* The nodes from which a corrupted party's node is computed, with those
\* nodes themselves: the result of the breadth-first search.
ReachCorrupted(g) ==
    LET seeds == {n \in Live(g) : IsCorrupted(g, n)}
        reach[k \in Nat] ==
            IF k = 0 THEN seeds
            ELSE seeds \cup UNION {SrcsOf(e) : e \in UNION {g.inE[n] : n \in reach[k - 1]}}
    IN reach[Cardinality(Ids(g))]

Potential(g) ==
    LET size == Cardinality(Ids(g))
        honest == {n \in Live(g) : ~IsCorrupted(g, n)}
    IN << g.bub,
          Cardinality(ReachCorrupted(g) \cap honest),
          size,
          MapThenSumSet(LAMBDA n : size - n, {n \in honest : InDeg(g, n) = 0}) >>

\* A graph as module GuidedSearch sees it: without counters and without the
\* places of eliminated nodes; its random nodes and its potential.
Shape(g) == [nodes |-> [n \in Live(g) |-> g.nodes[n]],
             inE |-> [n \in Live(g) |-> g.inE[n]],
             outE |-> [n \in Live(g) |-> g.outE[n]],
             partyCnt |-> g.partyCnt, T |-> g.T, corrupted |-> g.corrupted]
ShapeRandomness(s) == Cardinality(RandomNodes(s))
ShapePotential(s) == Potential(NewGraph(s, s.partyCnt, s.T, s.corrupted))

\* operator< of std::tuple.
Less(p, q) == \E i \in 1 .. 4 : p[i] < q[i] /\ \A j \in 1 .. i - 1 : p[j] = q[j]

-----------------------------------------------------------------------------
(* What makes a graph consistent.                                          *)

Typed(g) ==
    /\ g = Graph(g.nodes, g.inE, g.outE, g.partyCnt, g.T, g.corrupted, g.rnd, g.bub)
    /\ IsFiniteSet(Ids(g))
    /\ Ids(g) \subseteq Nat
    /\ g.nodes \in [Ids(g) -> Node \cup {NullNode}]
    /\ g.inE \in [Ids(g) -> SUBSET Edge(Ids(g))]
    /\ g.outE \in [Ids(g) -> SUBSET Edge(Ids(g))]
    /\ \A n \in Ids(g) : IsFiniteSet(g.inE[n])
    /\ g.rnd \in Int /\ g.bub \in Int

\* Every edge is in the in-list of its output exactly when it is in the
\* out-list of each of its inputs, and no edge touches an eliminated node.
Synced(g) ==
    \A n \in Ids(g) :
        /\ \A e \in g.inE[n] : e.out = n /\ \A m \in SrcsOf(e) : e \in g.outE[m]
        /\ \A e \in g.outE[n] : n \in SrcsOf(e) /\ e \in g.inE[e.out]
        /\ g.nodes[n] = NullNode => g.inE[n] = {} /\ g.outE[n] = {}

\* The two counters kept incrementally are what a recount would give.
RandomCountExact(g) == g.rnd = Cardinality(RandomNodes(g))
BubbleCountExact(g) == g.bub = Cardinality(Bubbles(g))

EdgesOf(g) == UNION {g.inE[n] : n \in Ids(g)}
=============================================================================
