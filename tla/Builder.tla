------------------------------ MODULE Builder ------------------------------
(***************************************************************************)
(* GraphBaseBuilder (graph_builder.hpp): from expressions to the dataflow  *)
(* graph the prover starts from.                                           *)
(*                                                                         *)
(* importFrontend is recursive: it asks for the nodes of an expression's   *)
(* operands, looks every expression up in a map first, and then makes the  *)
(* node.  The recursion itself is in module Frontend.                      *)
(***************************************************************************)
EXTENDS Expressions, MpcGraph

\* What an expression has become: a node of the graph of one build; for a
\* polynomial the inputs of its POLILIZE operation; nothing for a constant.
Imported(build, node, inputs) == [build |-> build, node |-> node, inputs |-> inputs]

\* A builder at work: the three vectors that become the graph, and the static
\* map (frontBackMap, with poly_map for the polynomials).
GraphBaseBuilder(nodes, inE, outE, map, build) ==
    [nodes |-> nodes, inE |-> inE, outE |-> outE, map |-> map, build |-> build]

NoMap == <<>>
Cleared(map, build) == GraphBaseBuilder(<<>>, <<>>, <<>>, map, build)

NextId(b) == Len(b.nodes)

NewNode(b, party, type) ==
    GraphBaseBuilder(Append(b.nodes, [party |-> party, type |-> type]),
                     Append(b.inE, {}), Append(b.outE, {}), b.map, b.build)

\* Edge e joins the in-list of its output, and the out-lists of these inputs.
Linked(b, e, inputs) ==
    GraphBaseBuilder(b.nodes,
                     [i \in DOMAIN b.inE |-> IF i - 1 = e.out THEN b.inE[i] \cup {e} ELSE b.inE[i]],
                     [i \in DOMAIN b.outE |-> IF i - 1 \in inputs THEN b.outE[i] \cup {e} ELSE b.outE[i]],
                     b.map, b.build)

\* A mutant of NewOperation: only the first input knows its user.
NewOperationFirstInput(b, op, ins) ==
    LET e == [op |-> op, ins |-> ins, out |-> NextId(b) - 1, born |-> 0] IN Linked(b, e, {ins[1]})

\* The new node's operation, in the lists of its output and of its inputs.
NewOperation(b, op, ins) ==
    LET e == [op |-> op, ins |-> ins, out |-> NextId(b) - 1, born |-> 0] IN Linked(b, e, SrcsOf(e))

Known(b, x, node, inputs) ==
    GraphBaseBuilder(b.nodes, b.inE, b.outE,
                     [y \in DOMAIN b.map \cup {x} |->
                        IF y = x THEN Imported(b.build, node, inputs) ELSE b.map[y]],
                     b.build)

\* The operands that are not constants, as nodes.
OperandNodes(b, c, x) ==
    LET args == c.exprs[x].args
        nodes[i \in 0 .. Len(args)] ==
            IF i = 0 THEN <<>>
            ELSE IF c.exprs[args[i]].kind = "constant" THEN nodes[i - 1]
            ELSE Append(nodes[i - 1], b.map[args[i]].node)
    IN nodes[Len(args)]

\* The party's own coefficients of a polynomial.
CoefficientNodes(b, party, degree) ==
    LET none == [i \in 1 .. degree |-> {}]
    IN GraphBaseBuilder(b.nodes \o [i \in 1 .. degree |-> [party |-> party, type |-> "OTHERS"]],
                        b.inE \o none, b.outE \o none, b.map, b.build)

(***************************************************************************)
(* The switch of importFrontend, for an expression that is not in the map  *)
(* while its operands are.                                                 *)
(***************************************************************************)
ImportInput(b, c, x) ==
    LET e == c.exprs[x]
    IN IF e.kind = "constant" THEN b
       ELSE Known(NewNode(b, e.party, IF e.kind = "randomness" THEN "OTHERS" ELSE "INPUT"),
                  x, NextId(b), <<>>)

ImportOperation(b, c, x) ==
    LET e == c.exprs[x]
    IN Known(NewOperation(NewNode(b, e.party, "OTHERS"), e.op, OperandNodes(b, c, x)),
             x, NextId(b), <<>>)

\* A mutant of ImportEval: every share is evaluated with coefficients of its own.
ImportEvalFresh(b, c, x) ==
    LET e == c.exprs[x]
        inputs == b.map[e.args[1]].inputs
        own == [j \in DOMAIN inputs |-> IF j = 1 THEN inputs[1] ELSE NextId(b) + j - 2]
        d == NewNode(CoefficientNodes(b, e.party, Len(inputs) - 1), e.party, "OTHERS")
    IN Known(NewOperation(d, "EVAL", own), x, NextId(d) - 1, <<>>)

ImportEval(b, c, x) ==
    LET e == c.exprs[x]
    IN Known(NewOperation(NewNode(b, e.party, "OTHERS"), "EVAL", b.map[e.args[1]].inputs),
             x, NextId(b), <<>>)

\* A mutant of ImportPoly: the constant term is added after the coefficients.
ImportPolyConstantLast(b, c, x, degree) ==
    Known(CoefficientNodes(b, c.exprs[x].party, degree), x, -1,
          [i \in 1 .. degree |-> NextId(b) + i - 1] \o OperandNodes(b, c, x))

ImportPoly(b, c, x, degree) ==
    Known(CoefficientNodes(b, c.exprs[x].party, degree), x, -1,
          OperandNodes(b, c, x) \o [i \in 1 .. degree |-> NextId(b) + i - 1])

Import(b, c, x, degree) ==
    LET op == c.exprs[x].op
    IN IF x \in DOMAIN b.map THEN b
       ELSE IF op = "INPUT" THEN ImportInput(b, c, x)
       ELSE IF op = "EVAL" THEN ImportEval(b, c, x)
       ELSE IF op = "POLILIZE" THEN ImportPoly(b, c, x, degree)
       ELSE ImportOperation(b, c, x)

\* The positions of the operands, constants left aside, that are not known yet.
Unknown(b, c, x) ==
    LET args == c.exprs[x].args
    IN {i \in DOMAIN args : args[i] \notin DOMAIN b.map /\ c.exprs[args[i]].kind # "constant"}

\* The node becomes an output; a node of an earlier build is an object of that
\* build, and this one's vectors do not change.
MarkOutput(b, x) ==
    LET m == b.map[x]
        marked == [i \in DOMAIN b.nodes |->
                     IF i = m.node + 1 THEN [party |-> b.nodes[i].party, type |-> "OUTPUT"]
                     ELSE b.nodes[i]]
    IN IF m.build # b.build THEN b ELSE GraphBaseBuilder(marked, b.inE, b.outE, b.map, b.build)

\* The GraphBase of a build, with the parameters of the prover.
BuiltGraph(b, partyCnt, threshold) ==
    LET at(list) == [n \in 0 .. Len(b.nodes) - 1 |-> list[n + 1]]
    IN [nodes |-> at(b.nodes), inE |-> at(b.inE), outE |-> at(b.outE),
        partyCnt |-> partyCnt, T |-> threshold]
=============================================================================
