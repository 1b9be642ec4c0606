------------------------------ MODULE Meaning ------------------------------
(***************************************************************************)
(* What a dataflow graph says about the protocol it came from.  Every node *)
(* of a protocol holds a linear combination of the inputs and the random   *)
(* values (protocols without multiplication of shares): v[n] is the vector *)
(* of node n.  Rewriting never changes what a node holds; it changes which *)
(* nodes are said to be computed from which.                               *)
(***************************************************************************)
EXTENDS MpcGraph, LinearAlgebra

CONSTANTS
    FieldSize,    \* a prime above the number of parties
    Scalar        \* the constant of the SCALARMUL edges

Held(v, S) == {v[n] : n \in S}
Dim(S) == Rank(S, FieldSize)

\* The edge says something true about what its nodes hold.  For EVAL and
\* RECONSTRUCT the backend keeps no evaluation points: the output has to be
\* determined by the inputs.
Holds(v, e) ==
    CASE e.op = "TRANSIT" -> v[e.out] = v[e.ins[1]]
      [] e.op = "ADD" -> v[e.out] = Plus(v[e.ins[1]], v[e.ins[2]], FieldSize)
      [] e.op = "SUB" -> v[e.out] = Minus(v[e.ins[1]], v[e.ins[2]], FieldSize)
      [] e.op = "SCALARMUL" -> v[e.out] = Times(Scalar, v[e.ins[1]], FieldSize)
      [] e.op \in {"EVAL", "RECONSTRUCT"} -> InSpan(v[e.out], Held(v, SrcsOf(e)), FieldSize)

InputNodes(g) == {n \in Live(g) : g.nodes[n].type = "INPUT"}

\* The inputs, and the outputs that the graph no longer computes.
Given(g) == InputNodes(g) \cup {n \in Live(g) : IsIO(g, n) /\ g.inE[n] = {}}

\* The random nodes are uniform, and independent of each other and of what is
\* given.
RandomsAreRandom(v, g) ==
    Dim(Held(v, Given(g) \cup RandomNodes(g)))
      = Dim(Held(v, Given(g))) + Cardinality(RandomNodes(g))

\* The outputs are functions of the inputs.
OutputsDetermined(v, g) ==
    \A n \in {m \in Live(g) : IsIO(g, m)} : InSpan(v[n], Held(v, InputNodes(g)), FieldSize)

\* Perfect privacy against a set of corrupted parties, in the graph of the
\* protocol itself: given their own inputs and outputs, what they see is
\* independent of the inputs of the others.
Secure(v, g, corrupted) ==
    LET seen == {n \in Ids(g) : g.nodes[n].party \in corrupted}
        view == Held(v, seen)
        own == Held(v, {n \in seen : IsIO(g, n)})
        all == Held(v, InputNodes(g)) \cup own
    IN Dim(view \cup all) - Dim(all) = Dim(view) - Dim(own)
=============================================================================
