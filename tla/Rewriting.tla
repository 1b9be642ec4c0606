----------------------------- MODULE Rewriting -----------------------------
(***************************************************************************)
(* The equivalent rewriting of one start graph, for any search strategy.   *)
(* tryProving (prover.hpp) repeats two things: a rewriter's apply finds a  *)
(* pattern in the current graph, and builds a new graph by eliminating and *)
(* adding edges one at a time; the search takes the new graph if it passes *)
(* the filter and lowers the potential.  When the search stops, the tail   *)
(* nodes of honest parties are eliminated one at a time.                   *)
(*                                                                         *)
(* Which pattern is tried next and which acceptable result is taken is     *)
(* left open here (module Prover has the strategy of the code), and so is  *)
(* the order of the loops over edges: the targets of the new EVAL edges    *)
(* are kept in an unordered_set.                                           *)
(***************************************************************************)
EXTENDS Transformers

CONSTANTS
    Protocols,     \* names of the protocols to verify
    Base           \* Base[p]: the graph GraphBaseBuilder made of a protocol, with the
                   \* parameters of the prover: [nodes, inE, outE, partyCnt, T]

VARIABLES
    protocol,      \* the protocol under verification
    pc,            \* "search", "edit", "tail", "done", "aborted"
    graph,         \* g of tryProving: the graph accepted last
    cand,          \* the graph under construction in apply
    todo,          \* the edges apply has still to eliminate and to add
    rewritings     \* how many rewritings have been accepted

vars == <<protocol, pc, graph, cand, todo, rewritings>>

NoEdits == [del |-> {}, add |-> {}]

\* The graph before the Graph constructor has counted anything.
BaseGraph(p) ==
    Graph(Base[p].nodes, Base[p].inE, Base[p].outE, Base[p].partyCnt, Base[p].T, {}, 0, 0)

\* The builder's graphs, and a threshold below the number of parties
\* (isRewritableSecret asserts it).
ASSUME BaseAssumption ==
    \A p \in Protocols : /\ HandedOver(BaseGraph(p))
                         /\ Base[p].partyCnt \in Nat /\ Base[p].T \in 0 .. Base[p].partyCnt - 1

StartGraph(p, corrupted) == NewGraph(Base[p], Base[p].partyCnt, Base[p].T, corrupted)

\* The corrupted sets of Prover::prove(): any of at most T parties, not none.
CorruptedSets(p) == {C \in SUBSET (1 .. Base[p].partyCnt) : C # {} /\ Cardinality(C) <= Base[p].T}

Init ==
    /\ protocol \in Protocols
    /\ \E C \in CorruptedSets(protocol) : graph = StartGraph(protocol, C)
    /\ pc = "search"
    /\ cand = graph
    /\ todo = NoEdits
    /\ rewritings = 0

-----------------------------------------------------------------------------

\* The plans of one call of apply; their edges are allocated by the call.
PlansNow(r) == Plans(graph, r, rewritings + 1)

AssertsHold(r) == AssertionsHold(graph, r, rewritings + 1)

\* apply meets an assertion that fails: the program ends.
Abort ==
    /\ pc = "search"
    /\ HasBubble(graph)
    /\ \E r \in Rewriter : ~AssertsHold(r)
    /\ pc' = "aborted"
    /\ UNCHANGED <<protocol, graph, cand, todo, rewritings>>

\* apply has found a pattern and collected the edges.
Match ==
    /\ pc = "search"
    /\ HasBubble(graph)
    /\ \A r \in Rewriter : AssertsHold(r)
    /\ \E r \in Rewriter : \E p \in PlansNow(r) : todo' = [del |-> p.del, add |-> p.add]
    /\ cand' = graph
    /\ pc' = "edit"
    /\ UNCHANGED <<protocol, graph, rewritings>>

\* One iteration of the loop of eliminateEdges ...
EliminateOne ==
    /\ pc = "edit"
    /\ \E e \in todo.del : /\ cand' = EliminateEdge(cand, e)
                           /\ todo' = [todo EXCEPT !.del = @ \ {e}]
    /\ UNCHANGED <<protocol, pc, graph, rewritings>>

\* ... and then of the loop of addEdges.
AddOne ==
    /\ pc = "edit"
    /\ todo.del = {}
    /\ \E e \in todo.add : /\ cand' = AddEdge(cand, e)
                           /\ todo' = [todo EXCEPT !.add = @ \ {e}]
    /\ UNCHANGED <<protocol, pc, graph, rewritings>>

\* The new graph is complete.
Complete == pc = "edit" /\ todo = NoEdits

\* A mutant of PassesFilter: the number of random nodes may change.
PassesFilterAlways == TRUE

\* The filter at the end of every apply.
PassesFilter == cand.rnd = graph.rnd

Accept ==
    /\ Complete
    /\ PassesFilter
    /\ Less(Potential(cand), Potential(graph))
    /\ graph' = cand
    /\ rewritings' = rewritings + 1
    /\ pc' = "search"
    /\ UNCHANGED <<protocol, cand, todo>>

\* The result is filtered out, or the search prefers another one.
Discard ==
    /\ Complete
    /\ cand' = graph
    /\ pc' = "search"
    /\ UNCHANGED <<protocol, graph, todo, rewritings>>

\* The search has no bubble left to remove, or finds nothing to take.
StopSearch ==
    /\ pc = "search"
    /\ HasBubble(graph) => \A r \in Rewriter : AssertsHold(r)
    /\ pc' = "tail"
    /\ UNCHANGED <<protocol, graph, cand, todo, rewritings>>

-----------------------------------------------------------------------------
(* Tail elimination: the honest node without users that has the lowest id, *)
(* again and again.                                                        *)

EliminateTail ==
    /\ pc = "tail"
    /\ \E n \in Tails(graph) : /\ \A m \in Tails(graph) : n <= m
                               /\ graph' = EliminateNode(graph, n)
    /\ UNCHANGED <<protocol, pc, cand, todo, rewritings>>

Finish ==
    /\ pc = "tail"
    /\ Tails(graph) = {}
    /\ pc' = "done"
    /\ UNCHANGED <<protocol, graph, cand, todo, rewritings>>

Verdict == pc = "done" /\ ~HasBubble(graph)

Next ==
    \/ Abort
    \/ Match
    \/ EliminateOne
    \/ AddOne
    \/ Accept
    \/ Discard
    \/ StopSearch
    \/ EliminateTail
    \/ Finish

Spec == Init /\ [][Next]_vars

-----------------------------------------------------------------------------
(* Properties.                                                             *)

\* Type invariant.
TypeOK ==
    /\ protocol \in Protocols
    /\ pc \in {"search", "edit", "tail", "done", "aborted"}
    /\ Typed(graph) /\ Typed(cand)
    /\ Ids(cand) = Ids(graph)
    /\ todo \in [del : SUBSET Edge(Ids(graph)), add : SUBSET Edge(Ids(graph))]
    /\ rewritings \in Nat

\* "Assuming the inEdgesOf and outEdgesOf are correctly synchronized"
\* (graph.hpp:53): the two adjacency lists that every manipulation updates
\* separately agree in the current graph and in every graph under
\* construction, between any two iterations of the edge loops, and during tail
\* elimination, which does not clean the lists of a node's fellow inputs.
ListsSynced == Synced(graph) /\ Synced(cand)

\* randomNodeCnt and bubbleCnt, which the manipulations update by increments
\* (graph.hpp:238-241, 278-282, 340-341), are what a recount of the graph would
\* give, in every intermediate graph too.  The filter of all rewriters compares
\* the one and the verdict is read off the other.  During tail elimination
\* randomNodeCnt is left as it was, so it can only be too large.
CountersExact ==
    /\ BubbleCountExact(graph) /\ BubbleCountExact(cand)
    /\ RandomCountExact(cand)
    /\ IF pc \in {"tail", "done"} THEN graph.rnd >= Cardinality(RandomNodes(graph))
                                  ELSE RandomCountExact(graph)

\* A graph without bubbles is what "Proved" stands for: when tail elimination
\* ends, the bubble counter is 0 exactly when no input or output of an honest
\* party is left and no input or output of a corrupted party is computed.
VerdictReadsGraph ==
    pc = "done" =>
        (Verdict <=> \A n \in Live(graph) :
                        IsIO(graph, n) => IsCorrupted(graph, n) /\ graph.inE[n] = {})

\* What a search promises (module GuidedSearch): it sees neither the counters
\* nor the graph under construction.
Guided == INSTANCE GuidedSearch WITH
    Randomness <- ShapeRandomness,
    Rank <- ShapePotential,
    Lower <- Less,
    phase <- IF pc = "edit" THEN "search" ELSE pc,
    graph <- Shape(graph),
    answer <- IF pc # "done" THEN "none" ELSE IF Verdict THEN "yes" ELSE "unknown"

\* Edge by edge and with counters that are only ever incremented and
\* decremented (prover.hpp:68-170, graph.hpp:218-343), the code does what a
\* guided search promises.
ImplementsGuidedSearch == Guided!Spec
=============================================================================
