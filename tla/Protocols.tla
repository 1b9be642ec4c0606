----------------------------- MODULE Protocols -----------------------------
(***************************************************************************)
(* Small protocols to verify, as the graph builder numbers them.  A        *)
(* program lists the nodes in the order of their guid:                     *)
(*      <<operator, inputs, party, genre, evaluation point>>               *)
(* where a node that is not computed has the operator "SOURCE" and only    *)
(* EVAL nodes have an evaluation point (which the backend itself forgets). *)
(***************************************************************************)
EXTENDS Integers, Sequences, FiniteSets, LinearAlgebra
LOCAL INSTANCE SequencesExt

\* One BGW sharing of a secret of party 1, opened to both parties.
Single2 ==
    <<<<"SOURCE", <<>>, 1, "INPUT", 0>>,
      <<"SOURCE", <<>>, 1, "OTHERS", 0>>,
      <<"EVAL", <<0, 1>>, 1, "OTHERS", 1>>,
      <<"EVAL", <<0, 1>>, 1, "OTHERS", 2>>,
      <<"TRANSIT", <<3>>, 2, "OTHERS", 0>>,
      <<"TRANSIT", <<4>>, 1, "OTHERS", 0>>,
      <<"RECONSTRUCT", <<2, 5>>, 1, "OUTPUT", 0>>,
      <<"TRANSIT", <<2>>, 2, "OTHERS", 0>>,
      <<"RECONSTRUCT", <<7, 4>>, 2, "OUTPUT", 0>>>>

\* x + y for a secret of each party, opened to both.
Add2 ==
    <<<<"SOURCE", <<>>, 1, "INPUT", 0>>,
      <<"SOURCE", <<>>, 1, "OTHERS", 0>>,
      <<"EVAL", <<0, 1>>, 1, "OTHERS", 1>>,
      <<"SOURCE", <<>>, 2, "INPUT", 0>>,
      <<"SOURCE", <<>>, 2, "OTHERS", 0>>,
      <<"EVAL", <<3, 4>>, 2, "OTHERS", 1>>,
      <<"TRANSIT", <<5>>, 1, "OTHERS", 0>>,
      <<"ADD", <<2, 6>>, 1, "OTHERS", 0>>,
      <<"EVAL", <<0, 1>>, 1, "OTHERS", 2>>,
      <<"TRANSIT", <<8>>, 2, "OTHERS", 0>>,
      <<"EVAL", <<3, 4>>, 2, "OTHERS", 2>>,
      <<"ADD", <<9, 10>>, 2, "OTHERS", 0>>,
      <<"TRANSIT", <<11>>, 1, "OTHERS", 0>>,
      <<"RECONSTRUCT", <<7, 12>>, 1, "OUTPUT", 0>>,
      <<"TRANSIT", <<7>>, 2, "OTHERS", 0>>,
      <<"RECONSTRUCT", <<14, 11>>, 2, "OUTPUT", 0>>>>

\* x + y opened to party 1 only.
AddToOne2 ==
    <<<<"SOURCE", <<>>, 1, "INPUT", 0>>,
      <<"SOURCE", <<>>, 1, "OTHERS", 0>>,
      <<"EVAL", <<0, 1>>, 1, "OTHERS", 1>>,
      <<"SOURCE", <<>>, 2, "INPUT", 0>>,
      <<"SOURCE", <<>>, 2, "OTHERS", 0>>,
      <<"EVAL", <<3, 4>>, 2, "OTHERS", 1>>,
      <<"TRANSIT", <<5>>, 1, "OTHERS", 0>>,
      <<"ADD", <<2, 6>>, 1, "OTHERS", 0>>,
      <<"EVAL", <<0, 1>>, 1, "OTHERS", 2>>,
      <<"TRANSIT", <<8>>, 2, "OTHERS", 0>>,
      <<"EVAL", <<3, 4>>, 2, "OTHERS", 2>>,
      <<"ADD", <<9, 10>>, 2, "OTHERS", 0>>,
      <<"TRANSIT", <<11>>, 1, "OTHERS", 0>>,
      <<"RECONSTRUCT", <<7, 12>>, 1, "OUTPUT", 0>>>>

\* x + x: the ADD edges use one node twice.
Double2 ==
    <<<<"SOURCE", <<>>, 1, "INPUT", 0>>,
      <<"SOURCE", <<>>, 1, "OTHERS", 0>>,
      <<"EVAL", <<0, 1>>, 1, "OTHERS", 1>>,
      <<"ADD", <<2, 2>>, 1, "OTHERS", 0>>,
      <<"EVAL", <<0, 1>>, 1, "OTHERS", 2>>,
      <<"TRANSIT", <<4>>, 2, "OTHERS", 0>>,
      <<"ADD", <<5, 5>>, 2, "OTHERS", 0>>,
      <<"TRANSIT", <<6>>, 1, "OTHERS", 0>>,
      <<"RECONSTRUCT", <<3, 7>>, 1, "OUTPUT", 0>>,
      <<"TRANSIT", <<3>>, 2, "OTHERS", 0>>,
      <<"RECONSTRUCT", <<9, 6>>, 2, "OUTPUT", 0>>>>

\* x + (x + y): every share of x is used twice.
AddTwice2 ==
    <<<<"SOURCE", <<>>, 1, "INPUT", 0>>,
      <<"SOURCE", <<>>, 1, "OTHERS", 0>>,
      <<"EVAL", <<0, 1>>, 1, "OTHERS", 1>>,
      <<"SOURCE", <<>>, 2, "INPUT", 0>>,
      <<"SOURCE", <<>>, 2, "OTHERS", 0>>,
      <<"EVAL", <<3, 4>>, 2, "OTHERS", 1>>,
      <<"TRANSIT", <<5>>, 1, "OTHERS", 0>>,
      <<"ADD", <<2, 6>>, 1, "OTHERS", 0>>,
      <<"ADD", <<2, 7>>, 1, "OTHERS", 0>>,
      <<"EVAL", <<0, 1>>, 1, "OTHERS", 2>>,
      <<"TRANSIT", <<9>>, 2, "OTHERS", 0>>,
      <<"EVAL", <<3, 4>>, 2, "OTHERS", 2>>,
      <<"ADD", <<10, 11>>, 2, "OTHERS", 0>>,
      <<"ADD", <<10, 12>>, 2, "OTHERS", 0>>,
      <<"TRANSIT", <<13>>, 1, "OTHERS", 0>>,
      <<"RECONSTRUCT", <<8, 14>>, 1, "OUTPUT", 0>>,
      <<"TRANSIT", <<8>>, 2, "OTHERS", 0>>,
      <<"RECONSTRUCT", <<16, 13>>, 2, "OUTPUT", 0>>>>

\* c * x for a constant c.
Scaled2 ==
    <<<<"SOURCE", <<>>, 1, "INPUT", 0>>,
      <<"SOURCE", <<>>, 1, "OTHERS", 0>>,
      <<"EVAL", <<0, 1>>, 1, "OTHERS", 1>>,
      <<"SCALARMUL", <<2>>, 1, "OTHERS", 0>>,
      <<"EVAL", <<0, 1>>, 1, "OTHERS", 2>>,
      <<"TRANSIT", <<4>>, 2, "OTHERS", 0>>,
      <<"SCALARMUL", <<5>>, 2, "OTHERS", 0>>,
      <<"TRANSIT", <<6>>, 1, "OTHERS", 0>>,
      <<"RECONSTRUCT", <<3, 7>>, 1, "OUTPUT", 0>>,
      <<"TRANSIT", <<3>>, 2, "OTHERS", 0>>,
      <<"RECONSTRUCT", <<9, 6>>, 2, "OUTPUT", 0>>>>

\* A sharing of a random value, opened to both parties.
RandomOpened2 ==
    <<<<"SOURCE", <<>>, 1, "OTHERS", 0>>,
      <<"SOURCE", <<>>, 1, "OTHERS", 0>>,
      <<"EVAL", <<0, 1>>, 1, "OTHERS", 1>>,
      <<"EVAL", <<0, 1>>, 1, "OTHERS", 2>>,
      <<"TRANSIT", <<3>>, 2, "OTHERS", 0>>,
      <<"TRANSIT", <<4>>, 1, "OTHERS", 0>>,
      <<"RECONSTRUCT", <<2, 5>>, 1, "OUTPUT", 0>>,
      <<"TRANSIT", <<2>>, 2, "OTHERS", 0>>,
      <<"RECONSTRUCT", <<7, 4>>, 2, "OUTPUT", 0>>>>

\* A sharing of degree T - 1, opened to party 1: party 2 is handed x itself.
LowDegree2 ==
    <<<<"SOURCE", <<>>, 1, "INPUT", 0>>,
      <<"EVAL", <<0>>, 1, "OTHERS", 1>>,
      <<"EVAL", <<0>>, 1, "OTHERS", 2>>,
      <<"TRANSIT", <<2>>, 2, "OTHERS", 0>>,
      <<"TRANSIT", <<3>>, 1, "OTHERS", 0>>,
      <<"RECONSTRUCT", <<1, 4>>, 1, "OUTPUT", 0>>>>

\* x + y opened to party 1, while party 2 keeps the sum of one share of
\* each secret, which x and y do not determine.
MixedShares2 ==
    <<<<"SOURCE", <<>>, 1, "INPUT", 0>>,
      <<"SOURCE", <<>>, 1, "OTHERS", 0>>,
      <<"EVAL", <<0, 1>>, 1, "OTHERS", 1>>,
      <<"SOURCE", <<>>, 2, "INPUT", 0>>,
      <<"SOURCE", <<>>, 2, "OTHERS", 0>>,
      <<"EVAL", <<3, 4>>, 2, "OTHERS", 1>>,
      <<"TRANSIT", <<5>>, 1, "OTHERS", 0>>,
      <<"ADD", <<2, 6>>, 1, "OTHERS", 0>>,
      <<"EVAL", <<0, 1>>, 1, "OTHERS", 2>>,
      <<"TRANSIT", <<8>>, 2, "OTHERS", 0>>,
      <<"EVAL", <<3, 4>>, 2, "OTHERS", 2>>,
      <<"ADD", <<9, 10>>, 2, "OTHERS", 0>>,
      <<"TRANSIT", <<11>>, 1, "OTHERS", 0>>,
      <<"RECONSTRUCT", <<7, 12>>, 1, "OUTPUT", 0>>,
      <<"TRANSIT", <<2>>, 2, "OTHERS", 0>>,
      <<"ADD", <<14, 10>>, 2, "OUTPUT", 0>>>>

\* The same with three parties.
MixedShares3 ==
    <<<<"SOURCE", <<>>, 1, "INPUT", 0>>,
      <<"SOURCE", <<>>, 1, "OTHERS", 0>>,
      <<"EVAL", <<0, 1>>, 1, "OTHERS", 1>>,
      <<"SOURCE", <<>>, 2, "INPUT", 0>>,
      <<"SOURCE", <<>>, 2, "OTHERS", 0>>,
      <<"EVAL", <<3, 4>>, 2, "OTHERS", 1>>,
      <<"TRANSIT", <<5>>, 1, "OTHERS", 0>>,
      <<"ADD", <<2, 6>>, 1, "OTHERS", 0>>,
      <<"EVAL", <<0, 1>>, 1, "OTHERS", 2>>,
      <<"TRANSIT", <<8>>, 2, "OTHERS", 0>>,
      <<"EVAL", <<3, 4>>, 2, "OTHERS", 2>>,
      <<"ADD", <<9, 10>>, 2, "OTHERS", 0>>,
      <<"TRANSIT", <<11>>, 1, "OTHERS", 0>>,
      <<"EVAL", <<0, 1>>, 1, "OTHERS", 3>>,
      <<"TRANSIT", <<13>>, 3, "OTHERS", 0>>,
      <<"EVAL", <<3, 4>>, 2, "OTHERS", 3>>,
      <<"TRANSIT", <<15>>, 3, "OTHERS", 0>>,
      <<"ADD", <<14, 16>>, 3, "OTHERS", 0>>,
      <<"TRANSIT", <<17>>, 1, "OTHERS", 0>>,
      <<"RECONSTRUCT", <<7, 12, 18>>, 1, "OUTPUT", 0>>,
      <<"TRANSIT", <<2>>, 2, "OTHERS", 0>>,
      <<"ADD", <<20, 10>>, 2, "OUTPUT", 0>>>>

\* A random sharing added twice to the same sharing of x.
MaskTwice2 ==
    <<<<"SOURCE", <<>>, 1, "INPUT", 0>>,
      <<"SOURCE", <<>>, 1, "OTHERS", 0>>,
      <<"EVAL", <<0, 1>>, 1, "OTHERS", 1>>,
      <<"SOURCE", <<>>, 2, "OTHERS", 0>>,
      <<"SOURCE", <<>>, 2, "OTHERS", 0>>,
      <<"EVAL", <<3, 4>>, 2, "OTHERS", 1>>,
      <<"TRANSIT", <<5>>, 1, "OTHERS", 0>>,
      <<"ADD", <<2, 6>>, 1, "OTHERS", 0>>,
      <<"EVAL", <<0, 1>>, 1, "OTHERS", 2>>,
      <<"TRANSIT", <<8>>, 2, "OTHERS", 0>>,
      <<"EVAL", <<3, 4>>, 2, "OTHERS", 2>>,
      <<"ADD", <<9, 10>>, 2, "OTHERS", 0>>,
      <<"TRANSIT", <<11>>, 1, "OTHERS", 0>>,
      <<"RECONSTRUCT", <<7, 12>>, 1, "OUTPUT", 0>>,
      <<"ADD", <<2, 6>>, 1, "OTHERS", 0>>,
      <<"TRANSIT", <<14>>, 2, "OTHERS", 0>>,
      <<"ADD", <<9, 10>>, 2, "OTHERS", 0>>,
      <<"RECONSTRUCT", <<15, 16>>, 2, "OUTPUT", 0>>>>

\* One BGW sharing among three parties, opened to all.
Single3 ==
    <<<<"SOURCE", <<>>, 1, "INPUT", 0>>,
      <<"SOURCE", <<>>, 1, "OTHERS", 0>>,
      <<"EVAL", <<0, 1>>, 1, "OTHERS", 1>>,
      <<"EVAL", <<0, 1>>, 1, "OTHERS", 2>>,
      <<"TRANSIT", <<3>>, 2, "OTHERS", 0>>,
      <<"TRANSIT", <<4>>, 1, "OTHERS", 0>>,
      <<"EVAL", <<0, 1>>, 1, "OTHERS", 3>>,
      <<"TRANSIT", <<6>>, 3, "OTHERS", 0>>,
      <<"TRANSIT", <<7>>, 1, "OTHERS", 0>>,
      <<"RECONSTRUCT", <<2, 5, 8>>, 1, "OUTPUT", 0>>,
      <<"TRANSIT", <<2>>, 2, "OTHERS", 0>>,
      <<"TRANSIT", <<7>>, 2, "OTHERS", 0>>,
      <<"RECONSTRUCT", <<10, 4, 11>>, 2, "OUTPUT", 0>>,
      <<"TRANSIT", <<2>>, 3, "OTHERS", 0>>,
      <<"TRANSIT", <<4>>, 3, "OTHERS", 0>>,
      <<"RECONSTRUCT", <<13, 14, 7>>, 3, "OUTPUT", 0>>>>

\* x + y for secrets of parties 1 and 2 of three.
Add3 ==
    <<<<"SOURCE", <<>>, 1, "INPUT", 0>>,
      <<"SOURCE", <<>>, 1, "OTHERS", 0>>,
      <<"EVAL", <<0, 1>>, 1, "OTHERS", 1>>,
      <<"SOURCE", <<>>, 2, "INPUT", 0>>,
      <<"SOURCE", <<>>, 2, "OTHERS", 0>>,
      <<"EVAL", <<3, 4>>, 2, "OTHERS", 1>>,
      <<"TRANSIT", <<5>>, 1, "OTHERS", 0>>,
      <<"ADD", <<2, 6>>, 1, "OTHERS", 0>>,
      <<"EVAL", <<0, 1>>, 1, "OTHERS", 2>>,
      <<"TRANSIT", <<8>>, 2, "OTHERS", 0>>,
      <<"EVAL", <<3, 4>>, 2, "OTHERS", 2>>,
      <<"ADD", <<9, 10>>, 2, "OTHERS", 0>>,
      <<"TRANSIT", <<11>>, 1, "OTHERS", 0>>,
      <<"EVAL", <<0, 1>>, 1, "OTHERS", 3>>,
      <<"TRANSIT", <<13>>, 3, "OTHERS", 0>>,
      <<"EVAL", <<3, 4>>, 2, "OTHERS", 3>>,
      <<"TRANSIT", <<15>>, 3, "OTHERS", 0>>,
      <<"ADD", <<14, 16>>, 3, "OTHERS", 0>>,
      <<"TRANSIT", <<17>>, 1, "OTHERS", 0>>,
      <<"RECONSTRUCT", <<7, 12, 18>>, 1, "OUTPUT", 0>>,
      <<"TRANSIT", <<7>>, 2, "OTHERS", 0>>,
      <<"TRANSIT", <<17>>, 2, "OTHERS", 0>>,
      <<"RECONSTRUCT", <<20, 11, 21>>, 2, "OUTPUT", 0>>,
      <<"TRANSIT", <<7>>, 3, "OTHERS", 0>>,
      <<"TRANSIT", <<11>>, 3, "OTHERS", 0>>,
      <<"RECONSTRUCT", <<23, 24, 17>>, 3, "OUTPUT", 0>>>>

\* x opened to party 1, but its own share travels there by way of party 2,
\* who sees two shares.
Relayed2 ==
    <<<<"SOURCE", <<>>, 1, "INPUT", 0>>,
      <<"SOURCE", <<>>, 1, "OTHERS", 0>>,
      <<"EVAL", <<0, 1>>, 1, "OTHERS", 1>>,
      <<"TRANSIT", <<2>>, 2, "OTHERS", 0>>,
      <<"TRANSIT", <<3>>, 1, "OTHERS", 0>>,
      <<"EVAL", <<0, 1>>, 1, "OTHERS", 2>>,
      <<"TRANSIT", <<5>>, 2, "OTHERS", 0>>,
      <<"TRANSIT", <<6>>, 1, "OTHERS", 0>>,
      <<"RECONSTRUCT", <<4, 7>>, 1, "OUTPUT", 0>>>>

\* (x + r) + r opened to party 2 for a random value r that party 1 has dealt.
\* An addition of a share of r may be turned round so that the share is
\* computed from a node that is computed from it.
DoubleMask2 ==
    <<<<"SOURCE", <<>>, 1, "INPUT", 0>>,
      <<"SOURCE", <<>>, 1, "OTHERS", 0>>,
      <<"EVAL", <<0, 1>>, 1, "OTHERS", 1>>,
      <<"SOURCE", <<>>, 1, "OTHERS", 0>>,
      <<"SOURCE", <<>>, 1, "OTHERS", 0>>,
      <<"EVAL", <<3, 4>>, 1, "OTHERS", 1>>,
      <<"ADD", <<2, 5>>, 1, "OTHERS", 0>>,
      <<"ADD", <<6, 5>>, 1, "OTHERS", 0>>,
      <<"TRANSIT", <<7>>, 2, "OTHERS", 0>>,
      <<"EVAL", <<0, 1>>, 1, "OTHERS", 2>>,
      <<"TRANSIT", <<9>>, 2, "OTHERS", 0>>,
      <<"EVAL", <<3, 4>>, 1, "OTHERS", 2>>,
      <<"TRANSIT", <<11>>, 2, "OTHERS", 0>>,
      <<"ADD", <<10, 12>>, 2, "OTHERS", 0>>,
      <<"ADD", <<13, 12>>, 2, "OTHERS", 0>>,
      <<"RECONSTRUCT", <<8, 14>>, 2, "OUTPUT", 0>>>>

\* x + r opened to party 2 for a random value r that party 2 has dealt.
MaskedOutput2 ==
    <<<<"SOURCE", <<>>, 1, "INPUT", 0>>,
      <<"SOURCE", <<>>, 1, "OTHERS", 0>>,
      <<"EVAL", <<0, 1>>, 1, "OTHERS", 1>>,
      <<"SOURCE", <<>>, 2, "OTHERS", 0>>,
      <<"SOURCE", <<>>, 2, "OTHERS", 0>>,
      <<"EVAL", <<3, 4>>, 2, "OTHERS", 1>>,
      <<"TRANSIT", <<5>>, 1, "OTHERS", 0>>,
      <<"ADD", <<2, 6>>, 1, "OTHERS", 0>>,
      <<"TRANSIT", <<7>>, 2, "OTHERS", 0>>,
      <<"EVAL", <<0, 1>>, 1, "OTHERS", 2>>,
      <<"TRANSIT", <<9>>, 2, "OTHERS", 0>>,
      <<"EVAL", <<3, 4>>, 2, "OTHERS", 2>>,
      <<"ADD", <<10, 11>>, 2, "OTHERS", 0>>,
      <<"RECONSTRUCT", <<8, 12>>, 2, "OUTPUT", 0>>>>

\* A secret of party 2 opened to its owner, and three times it opened to both.
Tripled2 ==
    <<<<"SOURCE", <<>>, 2, "INPUT", 0>>,
      <<"SOURCE", <<>>, 2, "OTHERS", 0>>,
      <<"EVAL", <<0, 1>>, 2, "OTHERS", 1>>,
      <<"TRANSIT", <<2>>, 1, "OTHERS", 0>>,
      <<"TRANSIT", <<3>>, 2, "OTHERS", 0>>,
      <<"EVAL", <<0, 1>>, 2, "OTHERS", 2>>,
      <<"RECONSTRUCT", <<4, 5>>, 2, "OUTPUT", 0>>,
      <<"ADD", <<3, 3>>, 1, "OTHERS", 0>>,
      <<"ADD", <<3, 7>>, 1, "OTHERS", 0>>,
      <<"ADD", <<5, 5>>, 2, "OTHERS", 0>>,
      <<"ADD", <<5, 9>>, 2, "OTHERS", 0>>,
      <<"TRANSIT", <<10>>, 1, "OTHERS", 0>>,
      <<"RECONSTRUCT", <<8, 11>>, 1, "OUTPUT", 0>>,
      <<"TRANSIT", <<8>>, 2, "OTHERS", 0>>,
      <<"RECONSTRUCT", <<13, 10>>, 2, "OUTPUT", 0>>>>

-----------------------------------------------------------------------------
(* From a program to the graph GraphBaseBuilder makes of it.               *)

NodeIds(prog) == 0 .. Len(prog) - 1
EdgeInto(prog, n) == [op |-> prog[n + 1][1], ins |-> prog[n + 1][2], out |-> n, born |-> 0]
InEdges(prog, n) == IF prog[n + 1][1] = "SOURCE" THEN {} ELSE {EdgeInto(prog, n)}

\* newNode appends a node with two empty lists; importFrontend puts the
\* operation into the in-list of its output and the out-list of every input.
GraphOf(prog, parties, T) ==
    [nodes |-> [n \in NodeIds(prog) |-> [party |-> prog[n + 1][3], type |-> prog[n + 1][4]]],
     inE |-> [n \in NodeIds(prog) |-> InEdges(prog, n)],
     outE |-> [n \in NodeIds(prog) |->
                  {e \in UNION {InEdges(prog, m) : m \in NodeIds(prog)} :
                      \E i \in DOMAIN e.ins : e.ins[i] = n}],
     partyCnt |-> parties, T |-> T]

-----------------------------------------------------------------------------
(* What a program computes, over the field of p elements: every node holds *)
(* a linear combination of the sources.                                    *)

Sources(prog) == {n \in NodeIds(prog) : prog[n + 1][1] = "SOURCE"}

\* Lagrange coefficient of share i of k when the points are 1 .. k.
Lagrange(i, k, p) ==
    FoldLeft(LAMBDA acc, j : IF j = i THEN acc
                             ELSE (acc * j * FieldInverse((j - i + p) % p, p)) % p,
             1, [j \in 1 .. k |-> j])

\* The constant c of a SCALARMUL edge; any value other than 0 will do.
ScalarFactor == 2

Values(prog, p) ==
    LET src == Sources(prog)
        dim == Cardinality(src)
        val[n \in NodeIds(prog)] ==
            LET op == prog[n + 1][1]
                ins == prog[n + 1][2]
                arg(i) == val[ins[i]]
                args == [i \in DOMAIN ins |-> arg(i)]
            IN CASE op = "SOURCE" -> Unit(Cardinality({m \in src : m <= n}), dim)
                 [] op = "TRANSIT" -> arg(1)
                 [] op = "ADD" -> Plus(arg(1), arg(2), p)
                 [] op = "SUB" -> Minus(arg(1), arg(2), p)
                 [] op = "SCALARMUL" -> Times(ScalarFactor, arg(1), p)
                 [] op = "EVAL" -> Combine([i \in DOMAIN ins |-> prog[n + 1][5] ^ (i - 1)],
                                           args, dim, p)
                 [] op = "RECONSTRUCT" -> Combine([i \in DOMAIN ins |-> Lagrange(i, Len(ins), p)],
                                                  args, dim, p)
    IN val
=============================================================================
