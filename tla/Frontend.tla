------------------------------ MODULE Frontend ------------------------------
(***************************************************************************)
(* A whole program: operations on variables, and then builds of the graph  *)
(* its outputs are computed in.                                            *)
(***************************************************************************)
EXTENDS Variables, Builder

CONSTANT
    MaxBuilds      \* bound of the runs: calls of build()

ASSUME BuildAssumption == MaxBuilds \in Nat

VARIABLES
    builder,       \* the builder at work; its map is static and outlives it
    todo,          \* the outputs build() has still to import
    stack,         \* the calls of importFrontend, the innermost one last
    built          \* the results of build(), in order

builderVars == <<builder, todo, stack, built>>
allVars == <<vars, builderVars>>

FrontendInit ==
    /\ Init
    /\ builder = Cleared(NoMap, 0)
    /\ todo = <<>> /\ stack = <<>> /\ built = <<>>

\* The program calls an operation.
Call == builder.build = 0 /\ Operation /\ UNCHANGED builderVars

\* GraphBaseBuilder builder(outputs); builder.build(), perhaps not for the
\* first time.
StartBuild ==
    /\ outputs # <<>> /\ ~ctx.thrown
    /\ builder.build = Len(built) /\ Len(built) < MaxBuilds
    /\ builder' = Cleared(builder.map, builder.build + 1)
    /\ todo' = [i \in DOMAIN outputs |-> outputs[i].expr]
    /\ UNCHANGED <<vars, stack, built>>

Importing == builder.build > Len(built)

\* The loop of build() over the outputs.
CallImport ==
    /\ Importing /\ stack = <<>> /\ todo # <<>>
    /\ stack' = <<Head(todo)>>
    /\ UNCHANGED <<vars, builder, todo, built>>

Innermost == stack[Len(stack)]
Hit == Innermost \in DOMAIN builder.map

\* importFrontend calls itself for the first operand it does not know.
CallOperand ==
    /\ stack # <<>> /\ ~Hit
    /\ \E i \in Unknown(builder, ctx, Innermost) :
          /\ \A j \in Unknown(builder, ctx, Innermost) : i <= j
          /\ stack' = Append(stack, ctx.exprs[Innermost].args[i])
    /\ UNCHANGED <<vars, builder, todo, built>>

\* A call returns: the expression was known, or its node is made now.  After
\* an outermost call the node becomes an output.
Return ==
    /\ stack # <<>> /\ (Hit \/ Unknown(builder, ctx, Innermost) = {})
    /\ LET b == Import(builder, ctx, Innermost, T)
       IN builder' = IF Len(stack) = 1 THEN MarkOutput(b, Innermost) ELSE b
    /\ todo' = IF Len(stack) = 1 THEN Tail(todo) ELSE todo
    /\ stack' = SubSeq(stack, 1, Len(stack) - 1)
    /\ UNCHANGED <<vars, built>>

FinishBuild ==
    /\ Importing /\ todo = <<>>
    /\ built' = Append(built, BuiltGraph(builder, PartyCnt, T))
    /\ UNCHANGED <<vars, builder, todo, stack>>

Next == Call \/ StartBuild \/ CallImport \/ CallOperand \/ Return \/ FinishBuild

Spec == FrontendInit /\ [][Next]_allVars

-----------------------------------------------------------------------------
(* Properties.                                                             *)

\* A base graph as the Graph constructor takes it.
AsGraph(base) == NewGraph(base, base.partyCnt, base.T, {})

\* Type invariant.  Expressions refer to older ones, which is why importFrontend
\* returns; a variable that is assigned once has no share or one of every party.
TypeOK ==
    /\ \A k \in DOMAIN ctx.exprs : \A i \in DOMAIN ctx.exprs[k].args : ctx.exprs[k].args[i] \in 1 .. k - 1
    /\ \A x \in Var : /\ shares[x] \in Seq(DOMAIN ctx.exprs)
                      /\ Reassigned \/ Len(shares[x]) \in {0, PartyCnt}
    /\ \A i \in DOMAIN outputs : outputs[i].expr \in DOMAIN ctx.exprs
    /\ todo \in Seq(DOMAIN ctx.exprs) /\ stack \in Seq(DOMAIN ctx.exprs)
    /\ mulCounter \in Nat /\ steps \in 0 .. MaxSteps /\ Len(built) \in 0 .. MaxBuilds

\* No operation on variables fails the checks of the expressions it makes
\* (share.hpp:48 and 168-183, expression.hpp:116): the i-th shares of all variables
\* are with the same party, and every constant has a new name.
NeverThrows == ~ctx.thrown

\* "In this namespace, every name is kept unique" (context.hpp:23).
NamesUnique ==
    LET registered == {k \in DOMAIN ctx.exprs : ctx.exprs[k].kind = "share"}
    IN Cardinality({ctx.exprs[k].name : k \in registered}) = Cardinality(registered)

\* What build() returns is what the rewriters count on: well-typed, with
\* synchronised lists and every node present, numbered so that a node is
\* computed from earlier ones; a polynomial is evaluated at different
\* coefficients, and every RECONSTRUCT edge opens as many shares as there are
\* parties (the assertion at transformer.hpp:333), all at one party.
BuiltGraphFits ==
    \A b \in DOMAIN built :
        LET g == AsGraph(built[b])
        IN /\ Typed(g) /\ Synced(g) /\ Live(g) = Ids(g)
           /\ \A e \in EdgesOf(g) : /\ \A n \in SrcsOf(e) : n < e.out
                                    /\ e.op = "TRANSIT" => Len(e.ins) = 1
                                    /\ e.op \in {"ADD", "MUL"} => Len(e.ins) = 2
                                    /\ e.op = "EVAL" =>
                                          \A i, j \in DOMAIN e.ins : e.ins[i] = e.ins[j] => i = j
                                    /\ e.op = "RECONSTRUCT" =>
                                          /\ Len(e.ins) = PartyCnt
                                          /\ \A m, n \in SrcsOf(e) : g.nodes[m].party = g.nodes[n].party

\* The random nodes of a built graph are what the program's outputs depend on:
\* T coefficients of each polynomial, once however many shares are evaluated
\* from it, and the random values; and its inputs and outputs are the program's.
EveryRandomnessOnce ==
    \A i \in DOMAIN built :
        LET g == AsGraph(built[i])
            used == {x \in DOMAIN builder.map : builder.map[x].build = i}
            count(kind) == Cardinality({x \in used : ctx.exprs[x].kind = kind})
            ofType(type) == {n \in Ids(g) : g.nodes[n].type = type}
        IN /\ g.rnd = T * count("poly") + count("randomness")
           /\ Cardinality(ofType("INPUT"))
                = count("secret") + Cardinality({x \in used : /\ ctx.exprs[x].kind = "share"
                                                              /\ ctx.exprs[x].op = "INPUT"})
           /\ Cardinality(ofType("OUTPUT")) = Len(outputs)

\* A builder that is used again clears its vectors first ("clear",
\* graph_builder.hpp:145): it makes the same graph again.
BuildsAgree == \A i, j \in DOMAIN built : built[i] = built[j]
=============================================================================
