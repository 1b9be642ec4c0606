-------------------------- MODULE RewritingMeaning --------------------------
(***************************************************************************)
(* What the rewriting of a graph has to do with the protocol the graph     *)
(* came from: the rewritings are equivalent, and a verdict is right.       *)
(***************************************************************************)
EXTENDS Rewriting, Meaning

CONSTANT
    Value    \* Value[p][n]: the vector node n of protocol p holds

Holding == Value[protocol]

\* "Equivalent" rewriting, first half: after any number of rewritings, in any
\* order, every edge of the graph is still true of what its nodes hold in the
\* protocol (transformer.hpp: the five rewriters).
EdgesStayTrue == pc = "search" => \A e \in EdgesOf(graph) : Holds(Holding, e)

\* "Equivalent" rewriting, second half: the nodes without in-edges that count
\* as random stay uniform and independent of each other, of the inputs and of
\* the outputs that have become sources.  All the rewriters check for it is
\* that their number has not changed (transformer.hpp:144, 230, 315, 430).
\* Where an output depends on random values this fails (see the README).
RandomNodesStayIndependent ==
    pc = "search" /\ OutputsDetermined(Holding, BaseGraph(protocol))
      => RandomsAreRandom(Holding, graph)

\* A "Proved" verdict is right, whatever rewritings the search chose: the
\* protocol hides the inputs of the honest parties from the corrupted ones.
ProvedMeansSecure ==
    Verdict => Secure(Holding, BaseGraph(protocol), graph.corrupted)
=============================================================================
