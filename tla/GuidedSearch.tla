---------------------------- MODULE GuidedSearch ----------------------------
(***************************************************************************)
(* What one search of the prover promises, whatever rewriters it has and   *)
(* however it chooses among their results: a graph loses rank with every   *)
(* rewriting and keeps its nodes, as much randomness and consistent lists; *)
(* then it loses honest nodes that nothing is computed from; and the       *)
(* answer is "yes" when no bubble is left.                                 *)
(*                                                                         *)
(* A graph here is its nodes, with the edges into and out of each one.  It *)
(* has no counters, and a node that is gone is no longer in it.            *)
(***************************************************************************)

CONSTANTS
    Randomness(_), \* what a rewriting has to keep
    Rank(_),       \* what it has to lower ...
    Lower(_, _)    \* ... and the order of the ranks

VARIABLES
    phase,         \* "search", "tail", "done", "aborted"
    graph,         \* the graph accepted last: [nodes, inE, outE, corrupted, ...]
    answer         \* "none", "yes", "unknown"

vars == <<phase, graph, answer>>

Nodes(g) == DOMAIN g.nodes

OfCorrupted(g, n) == g.nodes[n].party \in g.corrupted

\* What has to disappear: inputs and outputs of honest parties, and those of
\* corrupted parties that are computed.
Bubbles(g) ==
    {n \in Nodes(g) : /\ g.nodes[n].type \in {"INPUT", "OUTPUT"}
                      /\ OfCorrupted(g, n) => g.inE[n] # {}}

\* The honest nodes that nothing is computed from.
Unused(g) == {n \in Nodes(g) : g.outE[n] = {} /\ ~OfCorrupted(g, n)}

\* Both ends of every edge are there, and both know the edge.
WellFormed(g) ==
    \A n \in Nodes(g) :
        /\ \A e \in g.inE[n] :
              e.out = n /\ \A i \in DOMAIN e.ins : e.ins[i] \in Nodes(g) /\ e \in g.outE[e.ins[i]]
        /\ \A e \in g.outE[n] :
              /\ \E i \in DOMAIN e.ins : e.ins[i] = n
              /\ e.out \in Nodes(g) /\ e \in g.inE[e.out]

Init ==
    /\ phase = "search"
    /\ WellFormed(graph)
    /\ answer = "none"

\* An equivalent rewriting that brings the search nearer to its end.
Rewrite ==
    /\ phase = "search"
    /\ Bubbles(graph) # {}
    /\ graph'.nodes = graph.nodes /\ graph'.corrupted = graph.corrupted
    /\ Randomness(graph') = Randomness(graph)
    /\ Lower(Rank(graph'), Rank(graph))
    /\ WellFormed(graph')
    /\ UNCHANGED <<phase, answer>>

\* A rewriter refuses the graph it is given.
Abort ==
    /\ phase = "search"
    /\ Bubbles(graph) # {}
    /\ phase' = "aborted"
    /\ UNCHANGED <<graph, answer>>

StopSearch ==
    /\ phase = "search"
    /\ phase' = "tail"
    /\ UNCHANGED <<graph, answer>>

\* One unused node goes; the others, and how they are computed, stay.
DropUnused ==
    /\ phase = "tail"
    /\ \E n \in Unused(graph) : Nodes(graph') = Nodes(graph) \ {n}
    /\ \A m \in Nodes(graph') : /\ graph'.nodes[m] = graph.nodes[m]
                                /\ graph'.inE[m] = graph.inE[m]
    /\ graph'.corrupted = graph.corrupted
    /\ WellFormed(graph')
    /\ UNCHANGED <<phase, answer>>

Answer ==
    /\ phase = "tail"
    /\ Unused(graph) = {}
    /\ phase' = "done"
    /\ answer' = IF Bubbles(graph) = {} THEN "yes" ELSE "unknown"
    /\ UNCHANGED graph

Next == Rewrite \/ Abort \/ StopSearch \/ DropUnused \/ Answer

Spec == Init /\ [][Next]_vars
=============================================================================
