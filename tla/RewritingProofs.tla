-------------------------- MODULE RewritingProofs --------------------------
(***************************************************************************)
(* The graph data structure is consistent throughout any run of the        *)
(* rewriting, for any protocols, numbers of nodes and parties, thresholds  *)
(* and corrupted sets; and the rewriting, edge by edge and with            *)
(* incremental counters, implements a guided search (module GuidedSearch). *)
(***************************************************************************)
EXTENDS Rewriting, TransformersProofs

Trimming == pc \in {"tail", "done"}

(***************************************************************************)
(* The inductive invariant.  The counters are updated correctly only if    *)
(* the edge eliminated is in the graph, so the edges apply has collected   *)
(* have to stay in the graph under construction until their turn comes;    *)
(* and the lists stay synchronised only if no edge is added to an          *)
(* eliminated node, so no node is eliminated before tail elimination.      *)
(***************************************************************************)
GraphInv == /\ ~Trimming => /\ Live(graph) = Ids(graph)
                            /\ EdgesShaped(graph)
            /\ Live(cand) = Ids(cand)
            /\ EdgesShaped(cand)

TodoInv == /\ todo.del \subseteq EdgesOf(cand)
           /\ \A e \in todo.add : WellShaped(e)

Inv == TypeOK /\ ListsSynced /\ CountersExact /\ GraphInv /\ TodoInv

\* What Inv says about the two graphs while the search is going on.
LEMMA InvConsistent ==
    ASSUME Inv
    PROVE  /\ ~Trimming => Consistent(graph) /\ Consistent(cand)
           /\ Ids(cand) = Ids(graph)
  BY DEF Inv, TypeOK, ListsSynced, CountersExact, GraphInv, Consistent, Trimming

LEMMA StartGraphConsistent ==
    ASSUME NEW p \in Protocols, NEW corrupted
    PROVE  Consistent(StartGraph(p, corrupted))
  BY BaseAssumption, HandedOverConsistent DEF BaseGraph, StartGraph

LEMMA InitInv == Init => Inv
<1> SUFFICES ASSUME Init PROVE Inv
  OBVIOUS
<1>1. PICK C : graph = StartGraph(protocol, C)
  BY DEF Init
<1>2. Consistent(graph) /\ cand = graph
  BY <1>1, StartGraphConsistent DEF Init
<1>3. pc = "search" /\ todo = NoEdits /\ rewritings = 0 /\ protocol \in Protocols
  BY DEF Init
<1>4. todo.del = {} /\ todo.add = {} /\ todo \in [del : SUBSET Edge(Ids(graph)), add : SUBSET Edge(Ids(graph))]
  BY <1>3 DEF NoEdits
<1>5. TypeOK
  BY <1>2, <1>3, <1>4 DEF TypeOK, Consistent
<1>6. ListsSynced /\ CountersExact /\ GraphInv
  BY <1>2, <1>3 DEF ListsSynced, CountersExact, GraphInv, Consistent, Trimming
<1>7. TodoInv
  BY <1>4 DEF TodoInv
<1> QED BY <1>5, <1>6, <1>7 DEF Inv

LEMMA NextInv == Inv /\ [Next]_vars => Inv'
<1> SUFFICES ASSUME Inv, [Next]_vars PROVE Inv'
  OBVIOUS
<1> USE DEF Inv
<1>0. /\ ~Trimming => Consistent(graph) /\ Consistent(cand)
      /\ Ids(cand) = Ids(graph)
  BY InvConsistent
<1>1. CASE Abort
  BY <1>1 DEF Abort, TypeOK, ListsSynced, CountersExact, GraphInv, TodoInv, Trimming
<1>2. CASE Match
  <2>0. PICK r \in Rewriter : \E p \in PlansNow(r) : todo' = [del |-> p.del, add |-> p.add]
    BY <1>2 DEF Match
  <2>1. PICK p \in PlansNow(r) : todo' = [del |-> p.del, add |-> p.add]
    BY <2>0
  <2>2. /\ pc = "search" /\ pc' = "edit" /\ cand' = graph
        /\ UNCHANGED <<protocol, graph, rewritings>>
    BY <1>2 DEF Match
  <2>3. Consistent(graph)
    BY <1>0, <2>2 DEF Trimming
  <2>4. PlanFits(graph, p)
    BY <2>1, <2>3, PlansFit DEF PlansNow, Consistent, EdgesShaped, TypeOK
  <2>5. TypeOK'
    BY <2>1, <2>2, <2>4 DEF PlanFits, TypeOK, EdgesOf, Typed
  <2>6. ListsSynced' /\ CountersExact' /\ GraphInv'
    BY <2>2, <2>3 DEF ListsSynced, CountersExact, GraphInv, Consistent, Trimming
  <2>7. TodoInv'
    BY <2>1, <2>2, <2>4 DEF TodoInv, PlanFits
  <2> QED BY <2>5, <2>6, <2>7
<1>3. CASE EliminateOne
  <2>1. PICK e \in todo.del : /\ cand' = EliminateEdge(cand, e)
                              /\ todo' = [todo EXCEPT !.del = todo.del \ {e}]
    BY <1>3 DEF EliminateOne
  <2>2. pc = "edit" /\ UNCHANGED <<protocol, pc, graph, rewritings>>
    BY <1>3 DEF EliminateOne
  <2>3. Consistent(graph) /\ Consistent(cand)
    BY <1>0, <2>2 DEF Trimming
  <2>4. e \in EdgesOf(cand)
    BY <2>1 DEF TodoInv
  <2>5. /\ Consistent(cand') /\ Ids(cand') = Ids(cand)
        /\ EdgesOf(cand) \ {e} \subseteq EdgesOf(cand')
    BY <2>1, <2>3, <2>4, EliminateEdgeConsistent
  <2>6. todo'.del = todo.del \ {e} /\ todo'.add = todo.add
        /\ todo' \in [del : SUBSET Edge(Ids(graph)), add : SUBSET Edge(Ids(graph))]
    BY <2>1 DEF TypeOK
  <2>7. TypeOK'
    BY <1>0, <2>2, <2>5, <2>6 DEF TypeOK, Consistent
  <2>8. ListsSynced' /\ CountersExact' /\ GraphInv'
    BY <2>2, <2>3, <2>5 DEF ListsSynced, CountersExact, GraphInv, Consistent, Trimming
  <2>9. TodoInv'
    BY <2>5, <2>6 DEF TodoInv
  <2> QED BY <2>7, <2>8, <2>9
<1>4. CASE AddOne
  <2>1. PICK e \in todo.add : /\ cand' = AddEdge(cand, e)
                              /\ todo' = [todo EXCEPT !.add = todo.add \ {e}]
    BY <1>4 DEF AddOne
  <2>2. pc = "edit" /\ todo.del = {} /\ UNCHANGED <<protocol, pc, graph, rewritings>>
    BY <1>4 DEF AddOne
  <2>3. Consistent(graph) /\ Consistent(cand)
    BY <1>0, <2>2 DEF Trimming
  <2>4. e \in Edge(Ids(cand)) /\ WellShaped(e)
    BY <1>0, <2>1 DEF TodoInv, TypeOK
  <2>5. Consistent(cand') /\ Ids(cand') = Ids(cand)
    BY <2>1, <2>3, <2>4, AddEdgeConsistent
  <2>6. todo'.del = {} /\ todo'.add = todo.add \ {e}
        /\ todo' \in [del : SUBSET Edge(Ids(graph)), add : SUBSET Edge(Ids(graph))]
    BY <2>1, <2>2 DEF TypeOK
  <2>7. TypeOK'
    BY <1>0, <2>2, <2>5, <2>6 DEF TypeOK, Consistent
  <2>8. ListsSynced' /\ CountersExact' /\ GraphInv'
    BY <2>2, <2>3, <2>5 DEF ListsSynced, CountersExact, GraphInv, Consistent, Trimming
  <2>9. TodoInv'
    BY <2>6 DEF TodoInv
  <2> QED BY <2>7, <2>8, <2>9
<1>5. CASE Accept
  <2>1. /\ pc = "edit" /\ pc' = "search" /\ graph' = cand
        /\ rewritings' = rewritings + 1 /\ UNCHANGED <<protocol, cand, todo>>
    BY <1>5 DEF Accept, Complete
  <2>2. Consistent(cand)
    BY <1>0, <2>1 DEF Trimming
  <2>3. TypeOK'
    BY <1>0, <2>1, <2>2 DEF TypeOK, Consistent
  <2>4. ListsSynced' /\ CountersExact' /\ GraphInv' /\ TodoInv'
    BY <2>1, <2>2 DEF ListsSynced, CountersExact, GraphInv, TodoInv, Consistent, Trimming
  <2> QED BY <2>3, <2>4
<1>6. CASE Discard
  <2>1. /\ pc = "edit" /\ pc' = "search" /\ cand' = graph /\ todo = NoEdits
        /\ UNCHANGED <<protocol, graph, todo, rewritings>>
    BY <1>6 DEF Discard, Complete
  <2>2. Consistent(graph)
    BY <1>0, <2>1 DEF Trimming
  <2>3. TypeOK'
    BY <1>0, <2>1, <2>2 DEF TypeOK, Consistent
  <2>4. ListsSynced' /\ CountersExact' /\ GraphInv' /\ TodoInv'
    BY <2>1, <2>2 DEF ListsSynced, CountersExact, GraphInv, TodoInv, Consistent, Trimming, NoEdits
  <2> QED BY <2>3, <2>4
<1>7. CASE StopSearch
  <2>1. pc = "search" /\ pc' = "tail" /\ UNCHANGED <<protocol, graph, cand, todo, rewritings>>
    BY <1>7 DEF StopSearch
  <2>2. Consistent(graph) /\ Consistent(cand)
    BY <1>0, <2>1 DEF Trimming
  <2>3. graph.rnd >= Cardinality(RandomNodes(graph))
    BY <2>2, CountedFinite DEF Consistent, RandomCountExact
  <2>4. TypeOK'
    BY <2>1 DEF TypeOK
  <2>5. ListsSynced' /\ CountersExact' /\ GraphInv' /\ TodoInv'
    BY <2>1, <2>2, <2>3 DEF ListsSynced, CountersExact, GraphInv, TodoInv, Consistent, Trimming
  <2> QED BY <2>4, <2>5
<1>8. CASE EliminateTail
  <2>1. PICK n \in Tails(graph) : graph' = EliminateNode(graph, n)
    BY <1>8 DEF EliminateTail
  <2>2. pc = "tail" /\ UNCHANGED <<protocol, pc, cand, todo, rewritings>>
    BY <1>8 DEF EliminateTail
  <2>3. n \in Live(graph) /\ graph.outE[n] = {} /\ ~IsCorrupted(graph, n)
    BY <2>1 DEF Tails
  <2>4. /\ Typed(graph) /\ Synced(graph) /\ BubbleCountExact(graph)
        /\ graph.rnd >= Cardinality(RandomNodes(graph))
    BY <2>2 DEF TypeOK, ListsSynced, CountersExact
  <2>5. Typed(graph') /\ Synced(graph') /\ Ids(graph') = Ids(graph)
    BY <2>1, <2>3, <2>4, EliminateTailNode
  <2>6. BubbleCountExact(graph') /\ graph'.rnd >= Cardinality(RandomNodes(graph'))
    BY <2>1, <2>3, <2>4, EliminateTailCounts
  <2>7. TypeOK'
    BY <2>2, <2>5 DEF TypeOK
  <2>8. ListsSynced' /\ CountersExact' /\ GraphInv' /\ TodoInv'
    BY <2>2, <2>5, <2>6 DEF ListsSynced, CountersExact, GraphInv, TodoInv, Trimming
  <2> QED BY <2>7, <2>8
<1>9. CASE Finish
  <2>1. pc = "tail" /\ pc' = "done" /\ UNCHANGED <<protocol, graph, cand, todo, rewritings>>
    BY <1>9 DEF Finish
  <2> QED BY <2>1 DEF TypeOK, ListsSynced, CountersExact, GraphInv, TodoInv, Trimming
<1>10. CASE UNCHANGED vars
  BY <1>10 DEF vars, TypeOK, ListsSynced, CountersExact, GraphInv, TodoInv, Trimming
<1> QED
  BY <1>1, <1>2, <1>3, <1>4, <1>5, <1>6, <1>7, <1>8, <1>9, <1>10 DEF Next

LEMMA Invariance == Spec => []Inv
<1>1. Init => Inv
  BY InitInv
<1>2. Inv /\ [Next]_vars => Inv'
  BY NextInv
<1> QED BY <1>1, <1>2, PTL DEF Spec

\* Type correctness of the rewriting, for every value of the constants.
THEOREM TypeCorrect == Spec => []TypeOK
<1>1. Inv => TypeOK
  BY DEF Inv
<1> QED BY <1>1, Invariance, PTL

\* The adjacency lists are always synchronised: "Assuming the inEdgesOf and
\* outEdgesOf are correctly synchronized" (graph.hpp:53) is justified.
THEOREM ListsAlwaysSynced == Spec => []ListsSynced
<1>1. Inv => ListsSynced
  BY DEF Inv
<1> QED BY <1>1, Invariance, PTL

\* The counters that are updated incrementally never drift from a recount.
THEOREM CountersAlwaysExact == Spec => []CountersExact
<1>1. Inv => CountersExact
  BY DEF Inv
<1> QED BY <1>1, Invariance, PTL

\* "Proved" says of the final graph what it is taken to say.
THEOREM VerdictAlwaysReadsGraph == Spec => []VerdictReadsGraph
<1>1. Inv => VerdictReadsGraph
  <2> SUFFICES ASSUME Inv PROVE VerdictReadsGraph
    OBVIOUS
  <2>1. Typed(graph) /\ BubbleCountExact(graph)
    BY DEF Inv, TypeOK, CountersExact
  <2>2. IsFiniteSet(Bubbles(graph)) /\ Cardinality(Bubbles(graph)) \in Nat
    BY <2>1, CountedFinite
  <2>3. HasBubble(graph) <=> Bubbles(graph) # {}
    BY <2>1, <2>2, FS_EmptySet DEF HasBubble, BubbleCountExact
  <2>4. \A n \in Live(graph) : InDeg(graph, n) = 0 <=> graph.inE[n] = {}
    BY <2>1, NoInEdges DEF Typed, Live
  <2>5. Bubbles(graph) = {} <=> \A n \in Live(graph) :
                                  IsIO(graph, n) => IsCorrupted(graph, n) /\ graph.inE[n] = {}
    BY <2>4 DEF Bubbles
  <2> QED BY <2>3, <2>5 DEF VerdictReadsGraph, Verdict
<1> QED BY <1>1, Invariance, PTL

-----------------------------------------------------------------------------
(* The search refines module GuidedSearch: shapes of consistent graphs.    *)

LEMMA ShapeParts ==
    ASSUME NEW g
    PROVE  /\ Guided!Nodes(Shape(g)) = Live(g)
           /\ \A n \in Live(g) : /\ Shape(g).nodes[n] = g.nodes[n]
                                 /\ Shape(g).inE[n] = g.inE[n]
                                 /\ Shape(g).outE[n] = g.outE[n]
           /\ Shape(g).corrupted = g.corrupted
  BY DEF Guided!Nodes, Shape

LEMMA ShapeWellFormed ==
    ASSUME NEW g, Typed(g), Synced(g)
    PROVE  Guided!WellFormed(Shape(g))
  BY BothEndsLive, ShapeParts DEF Guided!WellFormed

LEMMA ShapeBubbles ==
    ASSUME NEW g, Typed(g)
    PROVE  /\ Guided!Bubbles(Shape(g)) = Bubbles(g)
           /\ Guided!Unused(Shape(g)) = Tails(g)
<1>1. \A n \in Live(g) : InDeg(g, n) # 0 <=> g.inE[n] # {}
  BY NoInEdges DEF Typed, Live
<1>2. Guided!Bubbles(Shape(g)) = Bubbles(g)
  BY <1>1, ShapeParts DEF Guided!Bubbles, Guided!OfCorrupted, Bubbles, IsIO, IsCorrupted
<1>3. Guided!Unused(Shape(g)) = Tails(g)
  BY ShapeParts DEF Guided!Unused, Guided!OfCorrupted, Tails, IsCorrupted
<1> QED BY <1>2, <1>3

-----------------------------------------------------------------------------
(* Every step of the rewriting is a step of the search, or none.           *)

\* While edges are edited, the search has a bubble to remove, and the graph
\* under construction has the nodes of the one it will replace.
EditInv ==
    pc = "edit" =>
        HasBubble(graph) /\ cand.nodes = graph.nodes /\ cand.corrupted = graph.corrupted

LEMMA EditInvariance == Spec => []EditInv
<1>1. Init => EditInv
  BY DEF Init, EditInv
<1>2. Inv /\ EditInv /\ [Next]_vars => EditInv'
  <2> SUFFICES ASSUME Inv, EditInv, [Next]_vars PROVE EditInv'
    OBVIOUS
  <2>1. CASE Match
    BY <2>1 DEF Match, EditInv
  <2>2. CASE EliminateOne
    <3>1. PICK e \in todo.del : cand' = EliminateEdge(cand, e)
      BY <2>2 DEF EliminateOne
    <3>2. cand'.nodes = cand.nodes /\ cand'.corrupted = cand.corrupted
      BY <3>1, EliminateEdgeTyped DEF Inv, TypeOK
    <3> QED BY <2>2, <3>2 DEF EliminateOne, EditInv
  <2>3. CASE AddOne
    <3>1. PICK e \in todo.add : cand' = AddEdge(cand, e)
      BY <2>3 DEF AddOne
    <3>2. e \in Edge(Ids(cand))
      BY <3>1 DEF Inv, TypeOK
    <3>3. cand'.nodes = cand.nodes /\ cand'.corrupted = cand.corrupted
      BY <3>1, <3>2, AddEdgeTyped DEF Inv, TypeOK
    <3> QED BY <2>3, <3>3 DEF AddOne, EditInv
  <2> QED BY <2>1, <2>2, <2>3
          DEF Next, vars, EditInv, Abort, Accept, Discard, StopSearch, EliminateTail, Finish
<1> QED BY <1>1, <1>2, Invariance, PTL DEF Spec

LEMMA GuidedInit == Init => Guided!Init
<1> SUFFICES ASSUME Init PROVE Guided!Init
  OBVIOUS
<1>1. PICK C : graph = StartGraph(protocol, C)
  BY DEF Init
<1>2. Typed(graph) /\ Synced(graph)
  BY <1>1, StartGraphConsistent DEF Init, Consistent
<1> QED BY <1>2, ShapeWellFormed DEF Guided!Init, Init

LEMMA GuidedNext == Inv /\ Inv' /\ EditInv /\ [Next]_vars => [Guided!Next]_Guided!vars
<1> SUFFICES ASSUME Inv, Inv', EditInv, [Next]_vars PROVE [Guided!Next]_Guided!vars
  OBVIOUS
<1>0. Typed(graph) /\ BubbleCountExact(graph)
  BY DEF Inv, TypeOK, CountersExact
<1>1. CASE Abort
  <2>1. Bubbles(graph) # {}
    BY <1>0, <1>1, HasBubbles DEF Abort
  <2>2. Guided!Abort
    BY <1>0, <1>1, <2>1, ShapeBubbles DEF Abort, Guided!Abort
  <2> QED BY <2>2 DEF Guided!Next
<1>2. CASE Match \/ EliminateOne \/ AddOne \/ Discard
  BY <1>2 DEF Match, EliminateOne, AddOne, Discard, Complete, Guided!vars
<1>3. CASE Accept
  <2>1. /\ pc = "edit" /\ pc' = "search" /\ graph' = cand
        /\ cand.rnd = graph.rnd /\ Less(Potential(cand), Potential(graph))
    BY <1>3 DEF Accept, Complete, PassesFilter
  <2>2. Consistent(graph) /\ Consistent(cand)
    BY <2>1, InvConsistent DEF Trimming
  <2>3. HasBubble(graph) /\ cand.nodes = graph.nodes /\ cand.corrupted = graph.corrupted
    BY <2>1 DEF EditInv
  <2>4. Guided!Bubbles(Shape(graph)) # {}
    BY <1>0, <2>3, HasBubbles, ShapeBubbles
  <2>5. Shape(cand).nodes = Shape(graph).nodes /\ Shape(cand).corrupted = Shape(graph).corrupted
    BY <2>3 DEF Shape, Live, Ids
  <2>6. Guided!WellFormed(Shape(cand))
    BY <2>2, ShapeWellFormed DEF Consistent
  <2>7. /\ ShapeRandomness(Shape(cand)) = ShapeRandomness(Shape(graph))
        /\ Less(ShapePotential(Shape(cand)), ShapePotential(Shape(graph)))
    BY <2>1, <2>2, ShapeRecounted
  <2>8. Guided!Rewrite
    BY <2>1, <2>4, <2>5, <2>6, <2>7 DEF Guided!Rewrite
  <2> QED BY <2>8 DEF Guided!Next
<1>4. CASE StopSearch
  <2>1. Guided!StopSearch
    BY <1>4 DEF StopSearch, Guided!StopSearch
  <2> QED BY <2>1 DEF Guided!Next
<1>5. CASE EliminateTail
  <2>1. PICK n \in Tails(graph) : graph' = EliminateNode(graph, n)
    BY <1>5 DEF EliminateTail
  <2>2. pc = "tail" /\ pc' = "tail"
    BY <1>5 DEF EliminateTail
  <2>3. n \in Live(graph) /\ graph.outE[n] = {}
    BY <2>1 DEF Tails
  <2>4. Typed(graph') /\ Synced(graph') /\ Live(graph') = Live(graph) \ {n}
    BY <1>0, <2>1, <2>3, EliminateTailNode DEF Inv, ListsSynced
  <2>5. /\ graph'.corrupted = graph.corrupted
        /\ \A m \in Live(graph') : /\ graph'.nodes[m] = graph.nodes[m]
                                   /\ graph'.inE[m] = graph.inE[m]
    <3>1. /\ graph'.corrupted = graph.corrupted
          /\ \A m \in Ids(graph) \ {n} : /\ graph'.nodes[m] = graph.nodes[m]
                                         /\ graph'.inE[m] = graph.inE[m] \ graph.outE[n]
      BY <2>1 DEF EliminateNode, Changed, Graph
    <3> QED BY <2>3, <2>4, <3>1 DEF Live
  <2>6. Guided!WellFormed(Shape(graph'))
    BY <2>4, ShapeWellFormed
  <2>7. /\ n \in Guided!Unused(Shape(graph))
        /\ Guided!Nodes(Shape(graph')) = Guided!Nodes(Shape(graph)) \ {n}
    BY <1>0, <2>1, <2>4, ShapeParts, ShapeBubbles
  <2>8. /\ Shape(graph').corrupted = Shape(graph).corrupted
        /\ \A m \in Guided!Nodes(Shape(graph')) :
              /\ Shape(graph').nodes[m] = Shape(graph).nodes[m]
              /\ Shape(graph').inE[m] = Shape(graph).inE[m]
    BY <2>4, <2>5, ShapeParts
  <2>9. Guided!DropUnused
    BY <2>2, <2>6, <2>7, <2>8 DEF Guided!DropUnused
  <2> QED BY <2>9 DEF Guided!Next
<1>6. CASE Finish
  <2>1. pc = "tail" /\ pc' = "done" /\ Tails(graph) = {} /\ graph' = graph
    BY <1>6 DEF Finish
  <2>2. Verdict' <=> Bubbles(graph) = {}
    BY <1>0, <2>1, HasBubbles DEF Verdict
  <2>3. Guided!Answer
    BY <1>0, <2>1, <2>2, ShapeBubbles DEF Guided!Answer
  <2> QED BY <2>3 DEF Guided!Next
<1>7. CASE UNCHANGED vars
  BY <1>7 DEF vars, Guided!vars, Verdict
<1> QED
  BY <1>1, <1>2, <1>3, <1>4, <1>5, <1>6, <1>7 DEF Next

\* What the code does edge by edge, with counters that are only incremented
\* and decremented, is a guided search: for every value of the constants.
THEOREM RewritingIsGuidedSearch == Spec => ImplementsGuidedSearch
<1>1. Init => Guided!Init
  BY GuidedInit
<1>2. Inv /\ Inv' /\ EditInv /\ [Next]_vars => [Guided!Next]_Guided!vars
  BY GuidedNext
<1> QED BY <1>1, <1>2, Invariance, EditInvariance, PTL
        DEF Spec, ImplementsGuidedSearch, Guided!Spec
=============================================================================
