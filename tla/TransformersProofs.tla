------------------------- MODULE TransformersProofs -------------------------
(***************************************************************************)
(* What the manipulations of a graph preserve, and the plans of the        *)
(* rewriters: for any number of nodes, parties and edges.  Every plan      *)
(* eliminates edges of the graph and adds well-shaped edges between its    *)
(* nodes.                                                                  *)
(***************************************************************************)
EXTENDS Transformers, FiniteSetTheorems, TLAPS

-----------------------------------------------------------------------------
(* The manipulations of MpcGraph.                                          *)

\* A new graph has the parts it was given, and counters that are exact.
LEMMA NewGraphTyped ==
    ASSUME NEW base, NEW partyCnt, NEW T, NEW corrupted,
           Typed(Graph(base.nodes, base.inE, base.outE, partyCnt, T, {}, 0, 0))
    PROVE  LET g == NewGraph(base, partyCnt, T, corrupted)
           IN /\ Typed(g) /\ RandomCountExact(g) /\ BubbleCountExact(g)
              /\ g.nodes = base.nodes /\ g.inE = base.inE /\ g.outE = base.outE
<1> DEFINE h == Graph(base.nodes, base.inE, base.outE, partyCnt, T, corrupted, 0, 0)
           rnd == Cardinality(RandomNodes(h))
           bub == Cardinality(Bubbles(h))
           g == Graph(base.nodes, base.inE, base.outE, partyCnt, T, corrupted, rnd, bub)
<1>1. NewGraph(base, partyCnt, T, corrupted) = g
  BY DEF NewGraph
<1>2. RandomNodes(g) = RandomNodes(h) /\ Bubbles(g) = Bubbles(h)
  BY DEF RandomNodes, Bubbles, Live, Ids, IsRandomNode, IsIO, IsCorrupted, InDeg, Graph
<1>3. IsFiniteSet(Ids(h))
  BY DEF Typed, Ids, Graph
<1>4. rnd \in Nat /\ bub \in Nat
  <2>1. RandomNodes(h) \subseteq Ids(h) /\ Bubbles(h) \subseteq Ids(h)
    BY DEF RandomNodes, Bubbles, Live
  <2> QED BY <2>1, <1>3, FS_Subset, FS_CardinalityType
<1> HIDE DEF rnd, bub
<1>5. Typed(g)
  BY <1>4 DEF Typed, Ids, Graph
<1>6. RandomCountExact(g) /\ BubbleCountExact(g)
  BY <1>2 DEF RandomCountExact, BubbleCountExact, Graph, rnd, bub
<1> QED
  BY <1>1, <1>5, <1>6 DEF Graph
\* A degree is 0 when the node has no in-edges.
LEMMA NoInEdges ==
    ASSUME NEW g, NEW n, IsFiniteSet(g.inE[n])
    PROVE  InDeg(g, n) \in Nat /\ (InDeg(g, n) = 0 <=> g.inE[n] = {})
  BY FS_EmptySet, FS_CardinalityType DEF InDeg

\* A degree is 1 when an edge is the node's only in-edge.
LEMMA OnlyInEdge ==
    ASSUME NEW g, NEW n, NEW e \in g.inE[n], IsFiniteSet(g.inE[n])
    PROVE  InDeg(g, n) = 1 <=> g.inE[n] = {e}
<1>1. InDeg(g, n) = 1 => g.inE[n] = {e}
  <2>1. SUFFICES ASSUME InDeg(g, n) = 1 PROVE g.inE[n] = {e}
    OBVIOUS
  <2>2. PICK x : g.inE[n] = {x}
    BY <2>1, FS_Singleton DEF InDeg
  <2> QED BY <2>2
<1>2. g.inE[n] = {e} => InDeg(g, n) = 1
  BY FS_Singleton DEF InDeg
<1> QED BY <1>1, <1>2

\* RandomNodes and Bubbles are finite sets.
LEMMA CountedFinite ==
    ASSUME NEW g, Typed(g)
    PROVE  /\ IsFiniteSet(RandomNodes(g)) /\ IsFiniteSet(Bubbles(g))
           /\ Cardinality(RandomNodes(g)) \in Nat /\ Cardinality(Bubbles(g)) \in Nat
<1>1. RandomNodes(g) \subseteq Ids(g) /\ Bubbles(g) \subseteq Ids(g)
  BY DEF RandomNodes, Bubbles, Live
<1>2. IsFiniteSet(Ids(g))
  BY DEF Typed
<1> QED BY <1>1, <1>2, FS_Subset, FS_CardinalityType

\* Eliminating an edge keeps the types and the nodes.
LEMMA EliminateEdgeTyped ==
    ASSUME NEW g, NEW e, Typed(g)
    PROVE  LET h == EliminateEdge(g, e)
           IN Typed(h) /\ h.nodes = g.nodes /\ h.corrupted = g.corrupted
<1> DEFINE h == EliminateEdge(g, e)
<1>1. /\ h.nodes = g.nodes /\ h.corrupted = g.corrupted
      /\ h.inE = [n \in Ids(g) |-> IF n = e.out THEN g.inE[n] \ {e} ELSE g.inE[n]]
      /\ h.outE = [n \in Ids(g) |-> IF n \in SrcsOf(e) THEN g.outE[n] \ {e} ELSE g.outE[n]]
      /\ h = Graph(h.nodes, h.inE, h.outE, h.partyCnt, h.T, h.corrupted, h.rnd, h.bub)
  BY DEF EliminateEdge, Changed, Graph
<1>2. h.rnd \in Int /\ h.bub \in Int
  BY DEF EliminateEdge, Changed, Graph, CountIf, Typed
<1> HIDE DEF h
<1>3. Ids(h) = Ids(g)
  BY <1>1 DEF Ids
<1>4. h.inE \in [Ids(h) -> SUBSET Edge(Ids(h))] /\ h.outE \in [Ids(h) -> SUBSET Edge(Ids(h))]
  BY <1>1, <1>3 DEF Typed
<1>5. ASSUME NEW n \in Ids(h) PROVE IsFiniteSet(h.inE[n])
  <2>1. IsFiniteSet(g.inE[n]) /\ h.inE[n] \subseteq g.inE[n]
    BY <1>1, <1>3 DEF Typed
  <2> QED BY <2>1, FS_Subset
<1>6. Typed(h)
  BY <1>1, <1>2, <1>3, <1>4, <1>5 DEF Typed
<1> QED BY <1>1, <1>6 DEF h

\* Eliminating an edge keeps the lists synchronised.
LEMMA EliminateEdgeSynced ==
    ASSUME NEW g, NEW e, Typed(g), Synced(g)
    PROVE  Synced(EliminateEdge(g, e))
<1> DEFINE h == EliminateEdge(g, e)
<1>1. /\ h.nodes = g.nodes
      /\ h.inE = [n \in Ids(g) |-> IF n = e.out THEN g.inE[n] \ {e} ELSE g.inE[n]]
      /\ h.outE = [n \in Ids(g) |-> IF n \in SrcsOf(e) THEN g.outE[n] \ {e} ELSE g.outE[n]]
  BY DEF EliminateEdge, Changed, Graph
<1> HIDE DEF h
<1>2. Ids(h) = Ids(g)
  BY <1>1 DEF Ids
<1>3. \A n \in Ids(g) : \A f \in g.inE[n] : f.out \in Ids(g) /\ SrcsOf(f) \subseteq Ids(g)
  BY DEF Typed, Edge, SrcsOf
<1>4. \A n \in Ids(g) : \A f \in g.outE[n] : f.out \in Ids(g) /\ SrcsOf(f) \subseteq Ids(g)
  BY DEF Typed, Edge, SrcsOf
<1>5. ASSUME NEW n \in Ids(h), NEW f \in h.inE[n]
      PROVE  f.out = n /\ \A m \in SrcsOf(f) : f \in h.outE[m]
  BY <1>1, <1>2, <1>3, <1>5 DEF Synced
<1>6. ASSUME NEW n \in Ids(h), NEW f \in h.outE[n]
      PROVE  n \in SrcsOf(f) /\ f \in h.inE[f.out]
  BY <1>1, <1>2, <1>4, <1>6 DEF Synced
<1>7. ASSUME NEW n \in Ids(h), h.nodes[n] = NullNode
      PROVE  h.inE[n] = {} /\ h.outE[n] = {}
  BY <1>1, <1>2, <1>7 DEF Synced
<1>8. Synced(h)
  BY <1>5, <1>6, <1>7 DEF Synced
<1> QED BY <1>8 DEF h

\* Eliminating an edge of the graph keeps the counters exact: the only degree
\* that changes is that of the edge's output.
LEMMA EliminateEdgeCounts ==
    ASSUME NEW g, NEW e, Typed(g), Synced(g), RandomCountExact(g), BubbleCountExact(g),
           e.out \in Ids(g), e \in g.inE[e.out]
    PROVE  RandomCountExact(EliminateEdge(g, e)) /\ BubbleCountExact(EliminateEdge(g, e))
<1> DEFINE h == EliminateEdge(g, e)
           d == e.out
<1>1. /\ h.nodes = g.nodes /\ h.corrupted = g.corrupted
      /\ h.inE = [n \in Ids(g) |-> IF n = d THEN g.inE[n] \ {e} ELSE g.inE[n]]
      /\ h.rnd = g.rnd + CountIf(InDeg(g, d) = 1 /\ ~IsIO(g, d))
      /\ h.bub = g.bub - CountIf(InDeg(g, d) = 1 /\ IsIO(g, d) /\ IsCorrupted(g, d))
  BY DEF EliminateEdge, Changed, Graph
<1> HIDE DEF h
<1>2. Ids(h) = Ids(g) /\ Live(h) = Live(g) /\ d \in Live(g)
  BY <1>1 DEF Ids, Live, Synced
<1>3. Typed(h)
  BY EliminateEdgeTyped DEF h
<1>4. \A n \in Ids(g) : /\ InDeg(g, n) = 0 <=> g.inE[n] = {}
                        /\ InDeg(h, n) = 0 <=> h.inE[n] = {}
  BY <1>2, <1>3, NoInEdges DEF Typed
<1>5. InDeg(g, d) = 1 <=> g.inE[d] = {e}
  BY OnlyInEdge DEF Typed
<1>6. \A n \in Ids(g) : (IsIO(h, n) <=> IsIO(g, n)) /\ (IsCorrupted(h, n) <=> IsCorrupted(g, n))
  BY <1>1 DEF IsIO, IsCorrupted
<1>7. \A n \in Ids(g) \ {d} : h.inE[n] = {} <=> g.inE[n] = {}
  BY <1>1
<1>8. h.inE[d] = {} <=> InDeg(g, d) = 1
  BY <1>1, <1>5
<1>9. g.inE[d] # {}
  OBVIOUS
<1>10. RandomNodes(h) = IF InDeg(g, d) = 1 /\ ~IsIO(g, d) THEN RandomNodes(g) \cup {d}
                                                          ELSE RandomNodes(g)
  BY <1>2, <1>4, <1>6, <1>7, <1>8, <1>9 DEF RandomNodes, IsRandomNode, Live
<1>11. Bubbles(h) = IF InDeg(g, d) = 1 /\ IsIO(g, d) /\ IsCorrupted(g, d)
                    THEN Bubbles(g) \ {d} ELSE Bubbles(g)
  BY <1>2, <1>4, <1>6, <1>7, <1>8, <1>9 DEF Bubbles, Live
<1>12. d \notin RandomNodes(g)
  BY <1>4, <1>9 DEF RandomNodes, IsRandomNode
<1>13. IsIO(g, d) => d \in Bubbles(g)
  BY <1>2, <1>4, <1>9 DEF Bubbles
<1>14. RandomCountExact(h)
  <2>1. CASE InDeg(g, d) = 1 /\ ~IsIO(g, d)
    <3>1. Cardinality(RandomNodes(h)) = Cardinality(RandomNodes(g)) + 1
      BY <2>1, <1>10, <1>12, CountedFinite, FS_AddElement
    <3>2. h.rnd = g.rnd + 1
      BY <2>1, <1>1 DEF CountIf
    <3> QED BY <3>1, <3>2 DEF RandomCountExact
  <2>2. CASE ~(InDeg(g, d) = 1 /\ ~IsIO(g, d))
    BY <2>2, <1>1, <1>10, CountedFinite DEF RandomCountExact, CountIf
  <2> QED BY <2>1, <2>2
<1>15. BubbleCountExact(h)
  <2>1. CASE InDeg(g, d) = 1 /\ IsIO(g, d) /\ IsCorrupted(g, d)
    <3>1. Cardinality(Bubbles(h)) = Cardinality(Bubbles(g)) - 1
      BY <2>1, <1>11, <1>13, CountedFinite, FS_RemoveElement
    <3>2. h.bub = g.bub - 1
      BY <2>1, <1>1 DEF CountIf
    <3> QED BY <3>1, <3>2 DEF BubbleCountExact
  <2>2. CASE ~(InDeg(g, d) = 1 /\ IsIO(g, d) /\ IsCorrupted(g, d))
    BY <2>2, <1>1, <1>11, CountedFinite DEF BubbleCountExact, CountIf
  <2> QED BY <2>1, <2>2
<1> QED BY <1>14, <1>15 DEF h

\* Adding an edge between nodes of the graph keeps the types and the nodes.
LEMMA AddEdgeTyped ==
    ASSUME NEW g, NEW e \in Edge(Ids(g)), Typed(g)
    PROVE  LET h == AddEdge(g, e)
           IN Typed(h) /\ h.nodes = g.nodes /\ h.corrupted = g.corrupted
<1> DEFINE h == AddEdge(g, e)
<1>1. /\ h.nodes = g.nodes /\ h.corrupted = g.corrupted
      /\ h.inE = [n \in Ids(g) |-> IF n = e.out THEN g.inE[n] \cup {e} ELSE g.inE[n]]
      /\ h.outE = [n \in Ids(g) |-> IF n \in SrcsOf(e) THEN g.outE[n] \cup {e} ELSE g.outE[n]]
      /\ h = Graph(h.nodes, h.inE, h.outE, h.partyCnt, h.T, h.corrupted, h.rnd, h.bub)
  BY DEF AddEdge, Changed, Graph
<1>2. h.rnd \in Int /\ h.bub \in Int
  BY DEF AddEdge, Changed, Graph, CountIf, Typed
<1> HIDE DEF h
<1>3. Ids(h) = Ids(g)
  BY <1>1 DEF Ids
<1>4. h.inE \in [Ids(h) -> SUBSET Edge(Ids(h))] /\ h.outE \in [Ids(h) -> SUBSET Edge(Ids(h))]
  BY <1>1, <1>3 DEF Typed
<1>5. ASSUME NEW n \in Ids(h) PROVE IsFiniteSet(h.inE[n])
  <2>1. IsFiniteSet(g.inE[n])
    BY <1>3 DEF Typed
  <2>2. h.inE[n] = g.inE[n] \cup {e} \/ h.inE[n] = g.inE[n]
    BY <1>1, <1>3
  <2> QED BY <2>1, <2>2, FS_AddElement
<1>6. Typed(h)
  BY <1>1, <1>2, <1>3, <1>4, <1>5 DEF Typed
<1> QED BY <1>1, <1>6 DEF h

\* Adding an edge between nodes that are not eliminated keeps the lists
\* synchronised.
LEMMA AddEdgeSynced ==
    ASSUME NEW g, NEW e \in Edge(Ids(g)), Typed(g), Synced(g), Live(g) = Ids(g)
    PROVE  Synced(AddEdge(g, e))
<1> DEFINE h == AddEdge(g, e)
<1>1. /\ h.nodes = g.nodes
      /\ h.inE = [n \in Ids(g) |-> IF n = e.out THEN g.inE[n] \cup {e} ELSE g.inE[n]]
      /\ h.outE = [n \in Ids(g) |-> IF n \in SrcsOf(e) THEN g.outE[n] \cup {e} ELSE g.outE[n]]
  BY DEF AddEdge, Changed, Graph
<1> HIDE DEF h
<1>2. Ids(h) = Ids(g)
  BY <1>1 DEF Ids
<1>3. \A n \in Ids(g) : \A f \in g.inE[n] \cup g.outE[n] : f.out \in Ids(g) /\ SrcsOf(f) \subseteq Ids(g)
  BY DEF Typed, Edge, SrcsOf
<1>4. e.out \in Ids(g) /\ SrcsOf(e) \subseteq Ids(g)
  BY DEF Edge, SrcsOf
<1>5. ASSUME NEW n \in Ids(h), NEW f \in h.inE[n]
      PROVE  f.out = n /\ \A m \in SrcsOf(f) : f \in h.outE[m]
  BY <1>1, <1>2, <1>3, <1>4, <1>5 DEF Synced
<1>6. ASSUME NEW n \in Ids(h), NEW f \in h.outE[n]
      PROVE  n \in SrcsOf(f) /\ f \in h.inE[f.out]
  BY <1>1, <1>2, <1>3, <1>4, <1>6 DEF Synced
<1>7. \A n \in Ids(h) : h.nodes[n] # NullNode
  BY <1>1, <1>2 DEF Live, Ids
<1>8. Synced(h)
  BY <1>5, <1>6, <1>7 DEF Synced
<1> QED BY <1>8 DEF h

\* Adding an edge between nodes that are not eliminated keeps the counters
\* exact.
LEMMA AddEdgeCounts ==
    ASSUME NEW g, NEW e \in Edge(Ids(g)), Typed(g), Live(g) = Ids(g),
           RandomCountExact(g), BubbleCountExact(g)
    PROVE  RandomCountExact(AddEdge(g, e)) /\ BubbleCountExact(AddEdge(g, e))
<1> DEFINE h == AddEdge(g, e)
           d == e.out
<1>1. /\ h.nodes = g.nodes /\ h.corrupted = g.corrupted
      /\ h.inE = [n \in Ids(g) |-> IF n = d THEN g.inE[n] \cup {e} ELSE g.inE[n]]
      /\ h.rnd = g.rnd - CountIf(InDeg(g, d) = 0 /\ ~IsIO(g, d))
      /\ h.bub = g.bub + CountIf(InDeg(g, d) = 0 /\ IsIO(g, d) /\ IsCorrupted(g, d))
  BY DEF AddEdge, Changed, Graph
<1> HIDE DEF h
<1>2. Ids(h) = Ids(g) /\ Live(h) = Live(g) /\ d \in Live(g) /\ d \in Ids(g)
  BY <1>1 DEF Ids, Live, Edge
<1>3. Typed(h)
  BY AddEdgeTyped DEF h
<1>4. \A n \in Ids(g) : /\ InDeg(g, n) = 0 <=> g.inE[n] = {}
                        /\ InDeg(h, n) = 0 <=> h.inE[n] = {}
  BY <1>2, <1>3, NoInEdges DEF Typed
<1>5. \A n \in Ids(g) : (IsIO(h, n) <=> IsIO(g, n)) /\ (IsCorrupted(h, n) <=> IsCorrupted(g, n))
  BY <1>1 DEF IsIO, IsCorrupted
<1>6. \A n \in Ids(g) \ {d} : h.inE[n] = {} <=> g.inE[n] = {}
  BY <1>1
<1>7. h.inE[d] # {}
  BY <1>1, <1>2
<1>8. RandomNodes(h) = RandomNodes(g) \ {d}
  BY <1>2, <1>4, <1>5, <1>6, <1>7 DEF RandomNodes, IsRandomNode, Live
<1>9. d \in RandomNodes(g) <=> InDeg(g, d) = 0 /\ ~IsIO(g, d)
  BY <1>2 DEF RandomNodes, IsRandomNode
<1>10. Bubbles(h) = IF IsIO(g, d) THEN Bubbles(g) \cup {d} ELSE Bubbles(g)
  BY <1>2, <1>4, <1>5, <1>6, <1>7 DEF Bubbles, Live
<1>11. IsIO(g, d) => (d \notin Bubbles(g) <=> InDeg(g, d) = 0 /\ IsCorrupted(g, d))
  BY <1>2 DEF Bubbles
<1>12. RandomCountExact(h)
  <2>1. CASE d \in RandomNodes(g)
    <3>1. Cardinality(RandomNodes(h)) = Cardinality(RandomNodes(g)) - 1
      BY <2>1, <1>8, CountedFinite, FS_RemoveElement
    <3>2. h.rnd = g.rnd - 1
      BY <2>1, <1>1, <1>9 DEF CountIf
    <3> QED BY <3>1, <3>2 DEF RandomCountExact
  <2>2. CASE d \notin RandomNodes(g)
    <3>1. RandomNodes(h) = RandomNodes(g)
      BY <2>2, <1>8
    <3> QED BY <2>2, <3>1, <1>1, <1>9, CountedFinite DEF RandomCountExact, CountIf
  <2> QED BY <2>1, <2>2
<1>13. BubbleCountExact(h)
  <2>1. CASE IsIO(g, d) /\ d \notin Bubbles(g)
    <3>1. Cardinality(Bubbles(h)) = Cardinality(Bubbles(g)) + 1
      BY <2>1, <1>10, CountedFinite, FS_AddElement
    <3>2. h.bub = g.bub + 1
      BY <2>1, <1>1, <1>11 DEF CountIf
    <3> QED BY <3>1, <3>2 DEF BubbleCountExact
  <2>2. CASE ~(IsIO(g, d) /\ d \notin Bubbles(g))
    <3>1. Bubbles(h) = Bubbles(g)
      BY <2>2, <1>10
    <3> QED BY <2>2, <3>1, <1>1, <1>11, CountedFinite DEF BubbleCountExact, CountIf
  <2> QED BY <2>1, <2>2
<1> QED BY <1>12, <1>13 DEF h

\* What EliminateNode does to a node that no edge leaves.
LEMMA EliminateTailNode ==
    ASSUME NEW g, NEW n \in Live(g), Typed(g), Synced(g), g.outE[n] = {}
    PROVE  LET h == EliminateNode(g, n)
           IN /\ Typed(h) /\ Synced(h)
              /\ Ids(h) = Ids(g) /\ Live(h) = Live(g) \ {n}
              /\ h.corrupted = g.corrupted
<1> DEFINE h == EliminateNode(g, n)
<1>1. /\ h.corrupted = g.corrupted /\ h.rnd = g.rnd
      /\ h.nodes = [m \in Ids(g) |-> IF m = n THEN NullNode ELSE g.nodes[m]]
      /\ h.inE = [m \in Ids(g) |-> IF m = n THEN {} ELSE g.inE[m]]
      /\ h.outE = [m \in Ids(g) |-> IF m = n THEN {} ELSE g.outE[m] \ g.inE[n]]
      /\ h = Graph(h.nodes, h.inE, h.outE, h.partyCnt, h.T, h.corrupted, h.rnd, h.bub)
  BY DEF EliminateNode, Changed, Graph
<1>2. h.rnd \in Int /\ h.bub \in Int
  BY DEF EliminateNode, Changed, Graph, CountIf, Typed
<1> HIDE DEF h
<1>3. Ids(h) = Ids(g) /\ n \in Ids(g)
  BY <1>1 DEF Ids, Live
<1>4. Live(h) = Live(g) \ {n}
  BY <1>1, <1>3 DEF Live
<1>5. /\ h.inE \in [Ids(h) -> SUBSET Edge(Ids(h))] /\ h.outE \in [Ids(h) -> SUBSET Edge(Ids(h))]
      /\ h.nodes \in [Ids(h) -> Node \cup {NullNode}]
  BY <1>1, <1>3 DEF Typed
<1>6. ASSUME NEW m \in Ids(h) PROVE IsFiniteSet(h.inE[m])
  <2>1. IsFiniteSet(g.inE[m]) /\ h.inE[m] \subseteq g.inE[m]
    BY <1>1, <1>3 DEF Typed
  <2> QED BY <2>1, FS_Subset
<1>7. Typed(h)
  BY <1>1, <1>2, <1>3, <1>5, <1>6 DEF Typed
<1>8. \A m \in Ids(g) : \A f \in g.inE[m] \cup g.outE[m] : f.out \in Ids(g) /\ SrcsOf(f) \subseteq Ids(g)
  BY DEF Typed, Edge, SrcsOf
<1>9. \A m \in Ids(g) : \A f \in g.inE[m] : f.out = m /\ n \notin SrcsOf(f)
  BY <1>3, <1>8 DEF Synced
<1>10. ASSUME NEW m \in Ids(h), NEW f \in h.inE[m]
       PROVE  f.out = m /\ \A k \in SrcsOf(f) : f \in h.outE[k]
  BY <1>1, <1>3, <1>8, <1>9, <1>10 DEF Synced
<1>11. ASSUME NEW m \in Ids(h), NEW f \in h.outE[m]
       PROVE  m \in SrcsOf(f) /\ f \in h.inE[f.out]
  BY <1>1, <1>3, <1>8, <1>9, <1>11 DEF Synced
<1>12. ASSUME NEW m \in Ids(h), h.nodes[m] = NullNode
       PROVE  h.inE[m] = {} /\ h.outE[m] = {}
  BY <1>1, <1>3, <1>12 DEF Synced
<1>13. Synced(h)
  BY <1>10, <1>11, <1>12 DEF Synced
<1> QED BY <1>1, <1>3, <1>4, <1>7, <1>13 DEF h

\* Eliminating an honest node that no edge leaves keeps bubbleCnt exact, and
\* randomNodeCnt, which is passed on as it is, an upper bound.
LEMMA EliminateTailCounts ==
    ASSUME NEW g, NEW n \in Live(g), Typed(g), Synced(g), g.outE[n] = {}, ~IsCorrupted(g, n),
           BubbleCountExact(g), g.rnd >= Cardinality(RandomNodes(g))
    PROVE  LET h == EliminateNode(g, n)
           IN BubbleCountExact(h) /\ h.rnd >= Cardinality(RandomNodes(h))
<1> DEFINE h == EliminateNode(g, n)
<1>1. /\ h.corrupted = g.corrupted /\ h.rnd = g.rnd
      /\ h.nodes = [m \in Ids(g) |-> IF m = n THEN NullNode ELSE g.nodes[m]]
      /\ h.inE = [m \in Ids(g) |-> IF m = n THEN {} ELSE g.inE[m]]
      /\ h.bub = g.bub - CountIf(IsIO(g, n))
  BY DEF EliminateNode, Changed, Graph, CountIf
<1>2. Typed(h) /\ Ids(h) = Ids(g) /\ Live(h) = Live(g) \ {n}
  BY EliminateTailNode
<1> HIDE DEF h
<1>3. \A m \in Ids(g) \ {n} : /\ InDeg(h, m) = InDeg(g, m)
                              /\ IsIO(h, m) <=> IsIO(g, m)
                              /\ IsCorrupted(h, m) <=> IsCorrupted(g, m)
  BY <1>1 DEF InDeg, IsIO, IsCorrupted
<1>4. RandomNodes(h) \subseteq RandomNodes(g)
  BY <1>2, <1>3 DEF RandomNodes, IsRandomNode, Live
<1>5. Bubbles(h) = Bubbles(g) \ {n}
  BY <1>2, <1>3 DEF Bubbles, Live
<1>6. n \in Bubbles(g) <=> IsIO(g, n)
  BY DEF Bubbles
<1>7. h.rnd >= Cardinality(RandomNodes(h))
  <2>1. Cardinality(RandomNodes(h)) <= Cardinality(RandomNodes(g))
    BY <1>4, CountedFinite, FS_Subset
  <2>2. g.rnd \in Int /\ Cardinality(RandomNodes(g)) \in Int /\ Cardinality(RandomNodes(h)) \in Int
    BY <1>2, CountedFinite DEF Typed
  <2>3. h.rnd = g.rnd /\ g.rnd >= Cardinality(RandomNodes(g))
    BY <1>1
  <2> QED BY <2>1, <2>2, <2>3
<1>8. BubbleCountExact(h)
  <2>1. CASE IsIO(g, n)
    <3>1. Cardinality(Bubbles(h)) = Cardinality(Bubbles(g)) - 1
      BY <2>1, <1>5, <1>6, CountedFinite, FS_RemoveElement
    <3>2. h.bub = g.bub - 1
      BY <2>1, <1>1 DEF CountIf
    <3> QED BY <3>1, <3>2 DEF BubbleCountExact
  <2>2. CASE ~IsIO(g, n)
    <3>1. Bubbles(h) = Bubbles(g)
      BY <2>2, <1>5, <1>6
    <3> QED BY <2>2, <3>1, <1>1, CountedFinite DEF BubbleCountExact, CountIf
  <2> QED BY <2>1, <2>2
<1> QED BY <1>7, <1>8 DEF h

-----------------------------------------------------------------------------
(* The plans.                                                              *)

\* The edges in a node's lists are edges of the graph, between its nodes.
LEMMA ListedEdges ==
    ASSUME NEW g, Typed(g), Synced(g), NEW n \in Ids(g), NEW e \in g.inE[n] \cup g.outE[n]
    PROVE  /\ e \in Edge(Ids(g)) /\ e \in EdgesOf(g)
           /\ e.out \in Ids(g) /\ e \in g.inE[e.out] /\ SrcsOf(e) \subseteq Ids(g)
<1>1. e \in Edge(Ids(g))
  BY DEF Typed
<1>2. e.out \in Ids(g) /\ SrcsOf(e) \subseteq Ids(g)
  BY <1>1 DEF Edge, SrcsOf
<1>3. e \in g.inE[e.out]
  BY DEF Synced
<1> QED BY <1>1, <1>2, <1>3 DEF EdgesOf

\* The same for any edge of the graph.
LEMMA GraphEdges ==
    ASSUME NEW g, Typed(g), Synced(g), NEW e \in EdgesOf(g)
    PROVE  /\ e \in Edge(Ids(g)) /\ e.out \in Ids(g) /\ e \in g.inE[e.out]
           /\ SrcsOf(e) \subseteq Ids(g)
<1>1. PICK n \in Ids(g) : e \in g.inE[n]
  BY DEF EdgesOf
<1> QED BY <1>1, ListedEdges

\* ListOf lists members of its set.
LEMMA ListOfType ==
    ASSUME NEW S, IsFiniteSet(S)
    PROVE  ListOf(S) \in Seq(S)
<1>1. PICK n \in Nat : ExistsBijection(1 .. n, S)
  BY FS_NatBijection
<1>2. Cardinality(S) = n
  BY <1>1, FS_CountingElements
<1>3. PICK f \in [1 .. n -> S] : \A x \in S : \E i \in 1 .. n : f[i] = x
  BY <1>1 DEF ExistsBijection, Bijection, Surjection
<1>4. \E h \in [1 .. Cardinality(S) -> S] : \A x \in S : \E i \in DOMAIN h : h[i] = x
  BY <1>2, <1>3
<1>5. ListOf(S) \in [1 .. n -> S]
  BY <1>2, <1>4 DEF ListOf
<1> QED BY <1>5

\* A new edge between nodes of the graph.
LEMMA NewEdgeType ==
    ASSUME NEW ids, NEW op \in Operator, NEW ins \in Seq(ids), NEW out \in ids, NEW born \in Nat
    PROVE  LET e == NewEdge(op, ins, out, born)
           IN e \in Edge(ids) /\ e.op = op /\ e.ins = ins
  BY DEF NewEdge, Edge

LEMMA NewEvalEdge ==
    ASSUME NEW g, Typed(g), NEW S \in SUBSET Ids(g), NEW out \in Ids(g), NEW born \in Nat
    PROVE  LET e == NewEdge("EVAL", ListOf(S), out, born)
           IN e \in Edge(Ids(g)) /\ WellShaped(e)
<1>1. IsFiniteSet(S)
  BY FS_Subset DEF Typed
<1>2. ListOf(S) \in Seq(Ids(g))
  BY <1>1, ListOfType
<1>3. "EVAL" \in Operator
  BY DEF Operator
<1> QED BY <1>2, <1>3, NewEdgeType DEF WellShaped

LEMMA NewTransitEdge ==
    ASSUME NEW ids, NEW n \in ids, NEW out \in ids, NEW born \in Nat
    PROVE  LET e == NewEdge("TRANSIT", <<n>>, out, born)
           IN e \in Edge(ids) /\ WellShaped(e)
<1> DEFINE ins == <<n>>
           e == NewEdge("TRANSIT", ins, out, born)
<1>1. ins \in Seq(ids) /\ Len(ins) = 1
  OBVIOUS
<1>2. "TRANSIT" \in Operator
  BY DEF Operator
<1> HIDE DEF ins
<1>3. e \in Edge(ids) /\ e.op = "TRANSIT" /\ e.ins = ins
  BY <1>1, <1>2, NewEdgeType
<1>4. WellShaped(e)
  BY <1>1, <1>3 DEF WellShaped
<1> QED BY <1>3, <1>4 DEF ins

\* Following a TRANSIT edge, forwards or backwards, leads to a node.
LEMMA DeliveredType ==
    ASSUME NEW g, Typed(g), Synced(g), NEW share \in Ids(g)
    PROVE  /\ Delivered(g, share) \in Ids(g)
           /\ HasTransit(g, share) => TransitFrom(g, share) \in EdgesOf(g)
<1>1. CASE HasTransit(g, share)
  <2>1. TransitFrom(g, share) \in g.outE[share]
    BY <1>1 DEF HasTransit, TransitFrom
  <2> QED BY <1>1, <2>1, ListedEdges DEF Delivered
<1>2. CASE ~HasTransit(g, share)
  BY <1>2 DEF Delivered
<1> QED BY <1>1, <1>2

LEMMA OriginType ==
    ASSUME NEW g, Typed(g), Synced(g), EdgesShaped(g), NEW share \in Ids(g)
    PROVE  /\ Origin(g, share) \in Ids(g)
           /\ CameByTransit(g, share) => TransitTo(g, share) \in EdgesOf(g)
<1>1. CASE CameByTransit(g, share)
  <2>1. PICK e \in g.inE[share] : e.op = "TRANSIT"
    BY <1>1 DEF CameByTransit
  <2>2. g.inE[share] = {e}
    BY <1>1, <2>1, OnlyInEdge DEF CameByTransit, Typed
  <2>3. TransitTo(g, share) = e
    BY <2>2 DEF TransitTo
  <2>4. e \in EdgesOf(g) /\ e \in Edge(Ids(g))
    BY ListedEdges
  <2>5. e.ins[1] \in Ids(g)
    BY <2>1, <2>4 DEF EdgesShaped, WellShaped, Edge
  <2> QED BY <1>1, <2>3, <2>4, <2>5 DEF Origin
<1>2. CASE ~CameByTransit(g, share)
  BY <1>2 DEF Origin
<1> QED BY <1>1, <1>2

\* A plan that only touches what it may touch.
PlanFits(g, p) ==
    /\ p.node \in Ids(g) /\ p.alt \in {0, 1}
    /\ p.del \subseteq EdgesOf(g)
    /\ p.add \subseteq Edge(Ids(g))
    /\ \A e \in p.add : WellShaped(e)
    /\ IsFiniteSet(p.del) /\ IsFiniteSet(p.add)

\* What a function makes of a finite set is finite.
LEMMA FiniteImage ==
    ASSUME NEW S, IsFiniteSet(S), NEW f
    PROVE  IsFiniteSet({f[x] : x \in S})
<1> DEFINE T == {f[x] : x \in S}
           h == [x \in S |-> f[x]]
<1>1. h \in Surjection(S, T)
  BY DEF Surjection
<1> QED BY <1>1, FS_Surjection

\* A graph has finitely many edges.
LEMMA FiniteEdges ==
    ASSUME NEW g, Typed(g)
    PROVE  IsFiniteSet(EdgesOf(g))
<1>1. IsFiniteSet({g.inE[n] : n \in Ids(g)})
  BY FiniteImage DEF Typed
<1>2. \A E \in {g.inE[n] : n \in Ids(g)} : IsFiniteSet(E)
  BY DEF Typed
<1> QED BY <1>1, <1>2, FS_UNION DEF EdgesOf

LEMMA SharingPlanFits ==
    ASSUME NEW g, Typed(g), Synced(g), NEW s \in Ids(g), NEW srcParties,
           NEW root, root = {} \/ root = {s}, NEW born \in Nat
    PROVE  PlanFits(g, SharingPlan(g, s, srcParties, root, born))
<1> DEFINE p == SharingPlan(g, s, srcParties, root, born)
           sources == SourceShares(g, s, srcParties)
           turned == {share \in sources : HasTransit(g, share)}
           srcs == root \cup sources
           dsts == ({s} \ root) \cup Coefficients(g, s) \cup (Shares(g, s) \ sources)
<1>1. \A e \in Users(g, s) : e \in EdgesOf(g) /\ e.out \in Ids(g) /\ SrcsOf(e) \subseteq Ids(g)
  BY ListedEdges DEF Users
<1>2. sources \subseteq Ids(g) /\ turned \subseteq Ids(g) /\ srcs \subseteq Ids(g) /\ dsts \subseteq Ids(g)
  BY <1>1 DEF SourceShares, Shares, Coefficients
<1>3. p.del \subseteq EdgesOf(g)
  BY <1>1, <1>2, DeliveredType DEF SharingPlan
<1>4. \A share \in turned : LET e == NewEdge("TRANSIT", <<Delivered(g, share)>>, share, born)
                            IN e \in Edge(Ids(g)) /\ WellShaped(e)
  BY <1>2, DeliveredType, NewTransitEdge
<1>5. \A d \in dsts : LET e == NewEdge("EVAL", ListOf(srcs), d, born)
                      IN e \in Edge(Ids(g)) /\ WellShaped(e)
  BY <1>2, NewEvalEdge
<1>6. p.add = {NewEdge("TRANSIT", <<Delivered(g, share)>>, share, born) : share \in turned}
              \cup {NewEdge("EVAL", ListOf(srcs), d, born) : d \in dsts}
  BY DEF SharingPlan
<1>7. IsFiniteSet(turned) /\ IsFiniteSet(dsts) /\ p.node = s /\ p.alt = 0
  BY <1>2, FS_Subset DEF Typed, SharingPlan
<1> HIDE DEF turned, srcs, dsts, p
<1>8. \A e \in p.add : e \in Edge(Ids(g)) /\ WellShaped(e)
  BY <1>4, <1>5, <1>6
<1>9. IsFiniteSet(p.del)
  BY <1>3, FiniteEdges, FS_Subset
<1>10. IsFiniteSet(p.add)
  <2> DEFINE transit == [share \in turned |->
                         NewEdge("TRANSIT", <<Delivered(g, share)>>, share, born)]
             eval == [d \in dsts |-> NewEdge("EVAL", ListOf(srcs), d, born)]
  <2>1. p.add = {transit[share] : share \in turned} \cup {eval[d] : d \in dsts}
    BY <1>6
  <2> DEFINE A == {transit[share] : share \in turned}
             B == {eval[d] : d \in dsts}
  <2>2. IsFiniteSet(A) /\ IsFiniteSet(B)
    <3> HIDE DEF transit, eval
    <3> QED BY <1>7, FiniteImage
  <2>3. p.add = A \cup B
    BY <2>1
  <2> HIDE DEF A, B
  <2> QED BY <2>2, <2>3, FS_Union
<1>11. PlanFits(g, p)
  BY <1>3, <1>7, <1>8, <1>9, <1>10 DEF PlanFits
<1> QED BY <1>11 DEF p

LEMMA AdditionPlanFits ==
    ASSUME NEW g, Typed(g), Synced(g), NEW e \in EdgesOf(g), e.op = "ADD", WellShaped(e),
           NEW alt \in {0, 1}, NEW born \in Nat
    PROVE  PlanFits(g, AdditionPlan(e, alt, born))
<1> DEFINE kept == e.ins[2 - alt]
           turned == e.ins[1 + alt]
           ins == <<e.out, kept>>
           f == NewEdge("SUB", ins, turned, born)
<1>1. e \in Edge(Ids(g)) /\ e.out \in Ids(g)
  BY GraphEdges
<1>2. e.ins \in Seq(Ids(g)) /\ Len(e.ins) = 2
  BY <1>1 DEF WellShaped, Edge
<1>3. kept \in Ids(g) /\ turned \in Ids(g)
  BY <1>2
<1>4. ins \in Seq(Ids(g))
  BY <1>1, <1>3
<1>5. "SUB" \in Operator
  BY DEF Operator
<1> HIDE DEF kept, turned, ins
<1>6. f \in Edge(Ids(g)) /\ f.op = "SUB"
  BY <1>3, <1>4, <1>5, NewEdgeType
<1>7. WellShaped(f)
  BY <1>6 DEF WellShaped
<1>8. /\ AdditionPlan(e, alt, born).del = {e} /\ AdditionPlan(e, alt, born).add = {f}
      /\ AdditionPlan(e, alt, born).node = e.out /\ AdditionPlan(e, alt, born).alt = alt
  BY DEF AdditionPlan, kept, turned, ins
<1> HIDE DEF f
<1>9. IsFiniteSet({e}) /\ IsFiniteSet({f})
  BY FS_Singleton
<1> QED BY <1>1, <1>6, <1>7, <1>8, <1>9 DEF PlanFits

LEMMA ReconstructionPlanFits ==
    ASSUME NEW g, Typed(g), Synced(g), EdgesShaped(g),
           NEW e \in EdgesOf(g), NEW srcParties, NEW born \in Nat
    PROVE  PlanFits(g, ReconstructionPlan(g, e, srcParties, born))
<1> DEFINE p == ReconstructionPlan(g, e, srcParties, born)
           sources == {share \in SrcsOf(e) : PartyOf(g, Origin(g, share)) \in srcParties}
           dsts == SrcsOf(e) \ sources
           turned == {share \in dsts : CameByTransit(g, share)}
           srcs == {e.out} \cup sources
<1>1. e.out \in Ids(g) /\ SrcsOf(e) \subseteq Ids(g)
  BY GraphEdges
<1>2. sources \subseteq Ids(g) /\ turned \subseteq Ids(g) /\ srcs \subseteq Ids(g) /\ dsts \subseteq Ids(g)
  BY <1>1
<1>3. p.del = {e} \cup {TransitTo(g, share) : share \in turned}
  BY DEF ReconstructionPlan
<1>4. p.del \subseteq EdgesOf(g)
  BY <1>2, <1>3, OriginType
<1>5. \A share \in turned : LET f == NewEdge("TRANSIT", <<share>>, Origin(g, share), born)
                            IN f \in Edge(Ids(g)) /\ WellShaped(f)
  BY <1>2, OriginType, NewTransitEdge
<1>6. \A d \in dsts : LET f == NewEdge("EVAL", ListOf(srcs), d, born)
                      IN f \in Edge(Ids(g)) /\ WellShaped(f)
  BY <1>2, NewEvalEdge
<1>7. p.add = {NewEdge("TRANSIT", <<share>>, Origin(g, share), born) : share \in turned}
              \cup {NewEdge("EVAL", ListOf(srcs), d, born) : d \in dsts}
  BY DEF ReconstructionPlan
<1>8. IsFiniteSet(turned) /\ IsFiniteSet(dsts) /\ p.node = e.out /\ p.alt = 0
  BY <1>2, FS_Subset DEF Typed, ReconstructionPlan
<1> HIDE DEF turned, srcs, dsts, p
<1>9. \A f \in p.add : f \in Edge(Ids(g)) /\ WellShaped(f)
  BY <1>5, <1>6, <1>7
<1>10. IsFiniteSet(p.del)
  BY <1>4, FiniteEdges, FS_Subset
<1>11. IsFiniteSet(p.add)
  <2> DEFINE transit == [share \in turned |-> NewEdge("TRANSIT", <<share>>, Origin(g, share), born)]
             eval == [d \in dsts |-> NewEdge("EVAL", ListOf(srcs), d, born)]
  <2>1. p.add = {transit[share] : share \in turned} \cup {eval[d] : d \in dsts}
    BY <1>7
  <2> DEFINE A == {transit[share] : share \in turned}
             B == {eval[d] : d \in dsts}
  <2>2. IsFiniteSet(A) /\ IsFiniteSet(B)
    <3> HIDE DEF transit, eval
    <3> QED BY <1>8, FiniteImage
  <2>3. p.add = A \cup B
    BY <2>1
  <2> HIDE DEF A, B
  <2> QED BY <2>2, <2>3, FS_Union
<1>12. PlanFits(g, p)
  BY <1>1, <1>4, <1>8, <1>9, <1>10, <1>11 DEF PlanFits
<1> QED BY <1>12 DEF p

\* Every plan of every rewriter fits the graph it was made for.
LEMMA PlansFit ==
    ASSUME NEW g, Typed(g), Synced(g), EdgesShaped(g),
           NEW r \in Rewriter, NEW born \in Nat, NEW p \in Plans(g, r, born)
    PROVE  PlanFits(g, p)
<1>1. CASE r = 1
  <2>1. p \in AdditionPlans(g, born)
    BY <1>1 DEF Plans
  <2>2. PICK e \in {f \in EdgesOf(g) : f.op = "ADD"}, alt \in {0, 1} : p = AdditionPlan(e, alt, born)
    BY <2>1 DEF AdditionPlans
  <2> QED BY <2>2, AdditionPlanFits DEF EdgesShaped
<1>2. CASE r \in {2, 3}
  <2>1. \/ p \in SharingPlans(g, ThresholdParties(g), born)
        \/ p \in RandomSharingPlans(g, ThresholdPartiesPlusOne(g), born)
    BY <1>2 DEF Plans
  <2>2. \E s \in Ids(g) : \E srcParties : \/ p = SharingPlan(g, s, srcParties, {s}, born)
                                          \/ p = SharingPlan(g, s, srcParties, {}, born)
    BY <2>1 DEF SharingPlans, RandomSharingPlans, RandomNodes, Live
  <2> QED BY <2>2, SharingPlanFits
<1>3. CASE r \in {4, 5}
  <2>1. \E srcParties : p \in ReconstructionPlans(g, srcParties, born)
    BY <1>3 DEF Plans
  <2>2. \E e \in EdgesOf(g) : \E srcParties : p = ReconstructionPlan(g, e, srcParties, born)
    BY <2>1 DEF ReconstructionPlans, Reconstructions
  <2> QED BY <2>2, ReconstructionPlanFits
<1> QED BY <1>1, <1>2, <1>3 DEF Rewriter

-----------------------------------------------------------------------------
(* A graph that is being rewritten.                                        *)

\* The lemmas about one graph, put together.
Consistent(g) == /\ Typed(g) /\ Synced(g)
                 /\ Live(g) = Ids(g) /\ EdgesShaped(g)
                 /\ RandomCountExact(g) /\ BubbleCountExact(g)

LEMMA EliminateEdgeConsistent ==
    ASSUME NEW g, NEW e \in EdgesOf(g), Consistent(g)
    PROVE  LET h == EliminateEdge(g, e)
           IN Consistent(h) /\ Ids(h) = Ids(g) /\ EdgesOf(g) \ {e} \subseteq EdgesOf(h)
<1> DEFINE h == EliminateEdge(g, e)
<1>1. Typed(h) /\ h.nodes = g.nodes
  BY EliminateEdgeTyped DEF Consistent
<1>2. Synced(h)
  BY EliminateEdgeSynced DEF Consistent
<1>3. RandomCountExact(h) /\ BubbleCountExact(h)
  BY EliminateEdgeCounts, GraphEdges DEF Consistent
<1>4. h.inE = [n \in Ids(g) |-> IF n = e.out THEN g.inE[n] \ {e} ELSE g.inE[n]]
  BY DEF EliminateEdge, Changed, Graph
<1> HIDE DEF h
<1>5. Ids(h) = Ids(g) /\ Live(h) = Live(g)
  BY <1>1 DEF Ids, Live
<1>6. EdgesOf(h) \subseteq EdgesOf(g) /\ EdgesOf(g) \ {e} \subseteq EdgesOf(h)
  BY <1>4, <1>5 DEF EdgesOf
<1>7. Consistent(h)
  BY <1>1, <1>2, <1>3, <1>5, <1>6 DEF Consistent, EdgesShaped
<1> QED BY <1>5, <1>6, <1>7 DEF h

LEMMA AddEdgeConsistent ==
    ASSUME NEW g, NEW e \in Edge(Ids(g)), WellShaped(e), Consistent(g)
    PROVE  Consistent(AddEdge(g, e)) /\ Ids(AddEdge(g, e)) = Ids(g)
<1> DEFINE h == AddEdge(g, e)
<1>1. Typed(h) /\ h.nodes = g.nodes
  BY AddEdgeTyped DEF Consistent
<1>2. Synced(h)
  BY AddEdgeSynced DEF Consistent
<1>3. RandomCountExact(h) /\ BubbleCountExact(h)
  BY AddEdgeCounts DEF Consistent
<1>4. h.inE = [n \in Ids(g) |-> IF n = e.out THEN g.inE[n] \cup {e} ELSE g.inE[n]]
  BY DEF AddEdge, Changed, Graph
<1> HIDE DEF h
<1>5. Ids(h) = Ids(g) /\ Live(h) = Live(g)
  BY <1>1 DEF Ids, Live
<1>6. EdgesOf(h) \subseteq EdgesOf(g) \cup {e}
  BY <1>4, <1>5 DEF EdgesOf
<1>7. Consistent(h)
  BY <1>1, <1>2, <1>3, <1>5, <1>6 DEF Consistent, EdgesShaped
<1> QED BY <1>5, <1>7 DEF h

\* A start graph is consistent, whoever is corrupted.
LEMMA HandedOverConsistent ==
    ASSUME NEW base, NEW partyCnt, NEW T, NEW corrupted,
           HandedOver(Graph(base.nodes, base.inE, base.outE, partyCnt, T, {}, 0, 0))
    PROVE  Consistent(NewGraph(base, partyCnt, T, corrupted))
<1> DEFINE b == Graph(base.nodes, base.inE, base.outE, partyCnt, T, {}, 0, 0)
           g == NewGraph(base, partyCnt, T, corrupted)
<1>1. Typed(b) /\ Synced(b) /\ Live(b) = Ids(b) /\ EdgesShaped(b)
  BY DEF HandedOver
<1>2. b.nodes = base.nodes /\ b.inE = base.inE /\ b.outE = base.outE
  BY DEF Graph
<1>3. /\ Typed(g) /\ RandomCountExact(g) /\ BubbleCountExact(g)
      /\ g.nodes = b.nodes /\ g.inE = b.inE /\ g.outE = b.outE
  BY <1>1, <1>2, NewGraphTyped
<1> HIDE DEF b, g
<1>4. Ids(g) = Ids(b) /\ Live(g) = Live(b) /\ EdgesOf(g) = EdgesOf(b)
  BY <1>3 DEF Ids, Live, EdgesOf
<1>5. Synced(g)
  BY <1>1, <1>3, <1>4 DEF Synced
<1>6. Consistent(g)
  BY <1>1, <1>3, <1>4, <1>5 DEF Consistent, EdgesShaped
<1> QED BY <1>6 DEF g

\* Both ends of an edge are nodes that have not been eliminated.
LEMMA BothEndsLive ==
    ASSUME NEW g, Typed(g), Synced(g), NEW n \in Live(g)
    PROVE  /\ \A e \in g.inE[n] :
                 /\ e.out = n
                 /\ \A i \in DOMAIN e.ins : e.ins[i] \in Live(g) /\ e \in g.outE[e.ins[i]]
           /\ \A e \in g.outE[n] :
                 /\ \E i \in DOMAIN e.ins : e.ins[i] = n
                 /\ e.out \in Live(g) /\ e \in g.inE[e.out]
<1>1. n \in Ids(g)
  BY DEF Live
<1>2. ASSUME NEW e \in g.inE[n]
      PROVE  /\ e.out = n
             /\ \A i \in DOMAIN e.ins : e.ins[i] \in Live(g) /\ e \in g.outE[e.ins[i]]
  <2>1. e \in Edge(Ids(g))
    BY <1>1, <1>2 DEF Typed
  <2>2. e.out = n /\ \A m \in SrcsOf(e) : e \in g.outE[m]
    BY <1>1, <1>2 DEF Synced
  <2>3. ASSUME NEW i \in DOMAIN e.ins
        PROVE  e.ins[i] \in Live(g) /\ e \in g.outE[e.ins[i]]
    <3>1. e.ins[i] \in SrcsOf(e)
      BY DEF SrcsOf
    <3>2. e.ins[i] \in Ids(g)
      BY <2>1, <2>3 DEF Edge
    <3>3. e \in g.outE[e.ins[i]]
      BY <2>2, <3>1
    <3> QED BY <3>2, <3>3 DEF Synced, Live
  <2> QED BY <2>2, <2>3
<1>3. ASSUME NEW e \in g.outE[n]
      PROVE  /\ \E i \in DOMAIN e.ins : e.ins[i] = n
             /\ e.out \in Live(g) /\ e \in g.inE[e.out]
  <2>1. e \in Edge(Ids(g))
    BY <1>1, <1>3 DEF Typed
  <2>2. n \in SrcsOf(e) /\ e \in g.inE[e.out]
    BY <1>1, <1>3 DEF Synced
  <2>3. e.out \in Ids(g)
    BY <2>1 DEF Edge
  <2>4. e.out \in Live(g)
    BY <2>2, <2>3 DEF Synced, Live
  <2> QED BY <2>2, <2>4 DEF SrcsOf
<1> QED BY <1>2, <1>3

\* A recount of the shape gives back the graph.
LEMMA ShapeRecounted ==
    ASSUME NEW g, Consistent(g)
    PROVE  /\ ShapeRandomness(Shape(g)) = g.rnd
           /\ ShapePotential(Shape(g)) = Potential(g)
<1> DEFINE s == Shape(g)
           f == Graph(g.nodes, g.inE, g.outE, g.partyCnt, g.T, g.corrupted, 0, 0)
<1>1. g.nodes = [n \in Ids(g) |-> g.nodes[n]] /\ g.inE = [n \in Ids(g) |-> g.inE[n]]
      /\ g.outE = [n \in Ids(g) |-> g.outE[n]] /\ Live(g) = Ids(g)
  BY DEF Consistent, Typed
<1>2. /\ s.nodes = g.nodes /\ s.inE = g.inE /\ s.outE = g.outE
      /\ s.partyCnt = g.partyCnt /\ s.T = g.T /\ s.corrupted = g.corrupted
  BY <1>1 DEF Shape
<1> HIDE DEF s
<1>3. RandomNodes(s) = RandomNodes(g)
  BY <1>2 DEF RandomNodes, Live, Ids, IsRandomNode, InDeg, IsIO
<1>4. RandomNodes(f) = RandomNodes(g) /\ Bubbles(f) = Bubbles(g)
  <2>1. f.nodes = g.nodes /\ f.inE = g.inE /\ f.corrupted = g.corrupted
    BY DEF Graph
  <2> HIDE DEF f
  <2> QED BY <2>1 DEF RandomNodes, Bubbles, Live, Ids, IsRandomNode, InDeg, IsIO, IsCorrupted
<1>5. NewGraph(s, s.partyCnt, s.T, s.corrupted)
        = Graph(g.nodes, g.inE, g.outE, g.partyCnt, g.T, g.corrupted,
                Cardinality(RandomNodes(f)), Cardinality(Bubbles(f)))
  BY <1>2 DEF NewGraph
<1>6. NewGraph(s, s.partyCnt, s.T, s.corrupted) = g
  BY <1>4, <1>5 DEF Consistent, Typed, RandomCountExact, BubbleCountExact
<1> QED BY <1>3, <1>6 DEF s, ShapeRandomness, ShapePotential, Consistent, RandomCountExact

LEMMA HasBubbles ==
    ASSUME NEW g, Typed(g), BubbleCountExact(g)
    PROVE  HasBubble(g) <=> Bubbles(g) # {}
  BY CountedFinite, FS_EmptySet DEF HasBubble, BubbleCountExact

-----------------------------------------------------------------------------
(* The layout of a graph, which the plans keep.                            *)

\* An edit leaves the parties alone.
LEMMA EditKeeps ==
    ASSUME NEW g, NEW e, NEW h, h = EliminateEdge(g, e) \/ h = AddEdge(g, e)
    PROVE  /\ h.partyCnt = g.partyCnt /\ h.T = g.T /\ Ids(h) = Ids(g)
           /\ EdgesOf(h) \subseteq EdgesOf(g) \cup {e}
<1>1. /\ h.nodes = g.nodes /\ h.partyCnt = g.partyCnt /\ h.T = g.T
      /\ \/ h.inE = [n \in Ids(g) |-> IF n = e.out THEN g.inE[n] \ {e} ELSE g.inE[n]]
         \/ h.inE = [n \in Ids(g) |-> IF n = e.out THEN g.inE[n] \cup {e} ELSE g.inE[n]]
  <2>1. CASE h = EliminateEdge(g, e)
    BY <2>1 DEF EliminateEdge, Changed, Graph
  <2>2. CASE h = AddEdge(g, e)
    BY <2>2 DEF AddEdge, Changed, Graph
  <2> QED BY <2>1, <2>2
<1>2. Ids(h) = Ids(g)
  BY <1>1 DEF Ids
<1>3. \A n \in Ids(g) : h.inE[n] \subseteq g.inE[n] \cup {e}
  BY <1>1
<1>4. EdgesOf(h) \subseteq EdgesOf(g) \cup {e}
  BY <1>2, <1>3 DEF EdgesOf
<1> QED BY <1>1, <1>2, <1>4

\* ListOf lists every member once.
LEMMA ListOfOnce ==
    ASSUME NEW S, IsFiniteSet(S)
    PROVE  \A i, j \in DOMAIN ListOf(S) : ListOf(S)[i] = ListOf(S)[j] => i = j
<1> DEFINE n == Cardinality(S)
<1>1. n \in Nat /\ ExistsBijection(1 .. n, S)
  BY FS_CardinalityType
<1>2. PICK f \in [1 .. n -> S] : \A x \in S : \E i \in 1 .. n : f[i] = x
  BY <1>1 DEF ExistsBijection, Bijection, Surjection
<1>3. \E h \in [1 .. n -> S] : \A x \in S : \E i \in DOMAIN h : h[i] = x
  BY <1>2
<1>4. ListOf(S) \in [1 .. n -> S] /\ \A x \in S : \E i \in 1 .. n : ListOf(S)[i] = x
  BY <1>3 DEF ListOf
<1>5. ListOf(S) \in Surjection(1 .. n, S)
  BY <1>4 DEF Surjection
<1>6. IsFiniteSet(1 .. n) /\ Cardinality(1 .. n) = n
  BY <1>1, FS_Interval
<1>7. ListOf(S) \in Injection(1 .. n, S)
  BY <1>5, <1>6, FS_SurjSameCardinalityImpliesInj DEF n
<1> QED BY <1>4, <1>7 DEF Injection, IsInjective

\* An edge that a rewriter adds opens nothing, and uses no node twice.
LaidOutEdge(e) ==
    /\ e.op = "EVAL" => \A i, j \in DOMAIN e.ins : e.ins[i] = e.ins[j] => i = j
    /\ e.op # "RECONSTRUCT"

LEMMA NewEvalLaidOut ==
    ASSUME NEW g, Typed(g), NEW S \in SUBSET Ids(g), NEW out, NEW born
    PROVE  LaidOutEdge(NewEdge("EVAL", ListOf(S), out, born))
<1>1. IsFiniteSet(S)
  BY FS_Subset DEF Typed
<1> DEFINE e == NewEdge("EVAL", ListOf(S), out, born)
<1>2. e.op = "EVAL" /\ e.ins = ListOf(S)
  BY DEF NewEdge
<1> HIDE DEF e
<1>3. LaidOutEdge(e)
  BY <1>1, <1>2, ListOfOnce DEF LaidOutEdge
<1> QED BY <1>3 DEF e

LEMMA PlansLaidOut ==
    ASSUME NEW g, Typed(g), Synced(g), NEW r \in Rewriter, NEW born \in Nat,
           NEW p \in Plans(g, r, born), NEW f \in p.add
    PROVE  LaidOutEdge(f)
<1>1. ASSUME NEW ins, NEW out, NEW op \in {"TRANSIT", "SUB"}
      PROVE  LaidOutEdge(NewEdge(op, ins, out, born))
  BY <1>1 DEF NewEdge, LaidOutEdge
<1>2. CASE r = 1
  <2>1. PICK e, alt : p = AdditionPlan(e, alt, born)
    BY <1>2 DEF Plans, AdditionPlans
  <2>2. PICK ins, out : f = NewEdge("SUB", ins, out, born)
    BY <2>1 DEF AdditionPlan
  <2> QED BY <1>1, <2>2
<1>3. CASE r \in {2, 3}
  <2>1. \/ p \in SharingPlans(g, ThresholdParties(g), born)
        \/ p \in RandomSharingPlans(g, ThresholdPartiesPlusOne(g), born)
    BY <1>3 DEF Plans
  <2>2. PICK s \in Ids(g) : \E P : \E root \in {{s}, {}} : p = SharingPlan(g, s, P, root, born)
    BY <2>1 DEF SharingPlans, RandomSharingPlans, RandomNodes, Live
  <2> PICK P : \E root \in {{s}, {}} : p = SharingPlan(g, s, P, root, born)
    BY <2>2
  <2> PICK root \in {{s}, {}} : p = SharingPlan(g, s, P, root, born)
    OBVIOUS
  <2> DEFINE srcs == root \cup SourceShares(g, s, P)
  <2>3. srcs \in SUBSET Ids(g)
    BY ListedEdges DEF SourceShares, Shares, Users
  <2>4. (\E ins, out : f = NewEdge("TRANSIT", ins, out, born))
        \/ \E out : f = NewEdge("EVAL", ListOf(srcs), out, born)
    BY DEF SharingPlan
  <2> HIDE DEF srcs
  <2> QED BY <1>1, <2>3, <2>4, NewEvalLaidOut
<1>4. CASE r \in {4, 5}
  <2>1. \E P : p \in ReconstructionPlans(g, P, born)
    BY <1>4 DEF Plans
  <2>2. PICK e \in EdgesOf(g) : \E P : p = ReconstructionPlan(g, e, P, born)
    BY <2>1 DEF ReconstructionPlans, Reconstructions
  <2> PICK P : p = ReconstructionPlan(g, e, P, born)
    BY <2>2
  <2> DEFINE sources == {share \in SrcsOf(e) : PartyOf(g, Origin(g, share)) \in P}
             srcs == {e.out} \cup sources
  <2>3. srcs \in SUBSET Ids(g)
    BY GraphEdges
  <2>4. (\E ins, out : f = NewEdge("TRANSIT", ins, out, born))
        \/ \E out : f = NewEdge("EVAL", ListOf(srcs), out, born)
    BY DEF ReconstructionPlan
  <2> HIDE DEF srcs
  <2> QED BY <1>1, <2>3, <2>4, NewEvalLaidOut
<1> QED BY <1>2, <1>3, <1>4 DEF Rewriter

\* The layout outlives a rewriting.
LEMMA StaysLaidOut ==
    ASSUME NEW g, LaidOut(g), NEW h, h.nodes = g.nodes, h.partyCnt = g.partyCnt,
           NEW E, EdgesOf(h) \subseteq EdgesOf(g) \cup E, \A e \in E : LaidOutEdge(e)
    PROVE  LaidOut(h)
<1>1. Ids(h) = Ids(g) /\ Parties(h) = Parties(g) /\ \A n : PartyOf(h, n) = PartyOf(g, n)
  BY DEF Ids, Parties, PartyOf
<1> QED BY <1>1 DEF LaidOut, LaidOutEdge
=============================================================================
