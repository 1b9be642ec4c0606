-------------------------- MODULE FrontendMeaning --------------------------
(***************************************************************************)
(* What a program's expressions and graphs compute, over a prime field, on *)
(* samples of its inputs and random values.                                *)
(***************************************************************************)
EXTENDS Frontend, Shamir

CONSTANTS
    FieldSize,     \* a prime above PartyCnt
    Samples,       \* the samples the properties are checked on
    Input(_, _),   \* Input(s, k): what input expression k is in sample s
    Coefficient(_, _, _)
                   \* Coefficient(s, k, j): coefficient j of polynomial k

\* The parties are different points of a field: every number of it but 0 has an inverse.
ASSUME MeaningAssumption ==
    /\ FieldSize \in Nat /\ FieldSize > PartyCnt
    /\ \A a \in 1 .. FieldSize - 1 : \E b \in 1 .. FieldSize - 1 : (b * a) % FieldSize = 1

ScaleFactor == 3

Everyone == 1 .. PartyCnt

Plus(a, b) == (a + b) % FieldSize
Times(a, b) == (a * b) % FieldSize

\* A polynomial with constant term a and the coefficients of k, at a point.
PolyAt(s, a, k, point) == Polynomial(FieldSize, a, [j \in 1 .. T |-> Coefficient(s, k, j)], point)

\* The value of expression e, the k-th, given the values of the older ones.
Value(s, e, val, k) ==
    LET arg(i) == val[e.args[i]]
        first == k - e.at + 1
    IN CASE e.kind \in {"secret", "randomness"} -> Input(s, k)
         [] e.kind = "constant" -> IF e.at = 0 THEN ScaleFactor ELSE Weight(FieldSize, PartyCnt, e.at, Everyone)
         [] e.kind = "share" /\ e.op = "INPUT" -> PolyAt(s, Input(s, first), first, e.at)
         [] e.op \in {"POLILIZE", "TRANSIT"} -> arg(1)
         [] e.op = "EVAL" -> PolyAt(s, arg(1), e.args[1], e.at)
         [] e.op = "ADD" -> Plus(arg(1), arg(2))
         [] e.op \in {"MUL", "SCALARMUL"} -> Times(arg(1), arg(2))
         [] e.op = "RECONSTRUCT" -> At0(FieldSize, PartyCnt, [i \in DOMAIN e.args |-> arg(i)], Everyone)

\* The values val of the first expressions, with those of the others added.
Evaluated(s, exprs, val) ==
    LET evaluated[n \in Len(val) .. Len(exprs)] ==
            IF n = Len(val) THEN val
            ELSE LET older == evaluated[n - 1] IN Append(older, Value(s, exprs[n], older, n))
    IN evaluated[Len(exprs)]

VARIABLE
    vals           \* vals[s]: the values of the program's expressions in sample s

MeaningInit == FrontendInit /\ vals = [s \in Samples |-> Evaluated(s, ctx.exprs, <<>>)]
MeaningNext == Next /\ vals' = [s \in Samples |-> Evaluated(s, ctx'.exprs, vals[s])]

MeaningSpec == MeaningInit /\ [][MeaningNext]_<<allVars, vals>>

\* The value of a term, given those of the older ones.
TermValue(s, t, older) ==
    CASE t.op = "input" -> Input(s, t.of[1])
      [] t.op = "c" -> Times(ScaleFactor, older[t.of[1]])
      [] t.op = "+" -> Plus(older[t.of[1]], older[t.of[2]])
      [] t.op = "*" -> Times(older[t.of[1]], older[t.of[2]])

\* The values of the terms ts.
Meant(s, ts) ==
    LET meant[n \in 0 .. Len(ts)] ==
            IF n = 0 THEN <<>>
            ELSE LET older == meant[n - 1] IN Append(older, TermValue(s, ts[n], older))
    IN meant[Len(ts)]

-----------------------------------------------------------------------------
(* Properties.                                                             *)

\* A variable is a Shamir sharing of what it stands for ("creates a Shamir
\* sharing to share its secret", variable.hpp:19): party i holds the i-th
\* share, and any T + 1 of the shares or more determine the value.
SharingsHold ==
    ~Importing =>
        \A s \in Samples, x \in {y \in Var : Shared(y)} :
            LET sh == [i \in Everyone |-> vals[s][shares[x][i]]]
            IN /\ \A i \in Everyone : ctx.exprs[shares[x][i]].party = i
               /\ \A P \in SUBSET Everyone :
                     Cardinality(P) > T => At0(FieldSize, PartyCnt, sh, P) = Meant(s, terms)[stands[x]]

\* What yield returned for a variable has the value the variable stood for.
OutputsOpen ==
    ~Importing =>
        \A s \in Samples, i \in DOMAIN outputs : vals[s][outputs[i].expr] = Meant(s, terms)[outputs[i].term]

\* The expressions that have become nodes of graph i, its polynomials, and the
\* expressions that have become its node n.
Here(i) == {x \in DOMAIN builder.map : builder.map[x].build = i}
Polys(i) == {x \in Here(i) : ctx.exprs[x].kind = "poly"}
Sources(i, n) == {x \in Here(i) \ Polys(i) : builder.map[x].node = n}

\* Where the coefficients of polynomial x are among its inputs.
CoefficientsAt(i, x) ==
    {k \in DOMAIN builder.map[x].inputs : Sources(i, builder.map[x].inputs[k]) = {}}

\* A node is the expression it was made for, or a coefficient of a polynomial.
NodeValue(s, i, n) ==
    IF Sources(i, n) # {} THEN vals[s][CHOOSE x \in Sources(i, n) : TRUE]
    ELSE LET isAt(x, k) == builder.map[x].inputs[k] = n
             x == CHOOSE y \in Polys(i) : \E k \in CoefficientsAt(i, y) : isAt(y, k)
             at == CHOOSE k \in CoefficientsAt(i, x) : isAt(x, k)
         IN Coefficient(s, x, Cardinality({k \in CoefficientsAt(i, x) : k <= at}))

\* Whether an edge computes its output from its inputs, when node is what the nodes are.
Computes(e, node) ==
    LET in(k) == node[e.ins[k]]
        out == node[e.out]
    IN CASE e.op = "TRANSIT" -> out = in(1)
         [] e.op = "ADD" -> out = Plus(in(1), in(2))
         [] e.op = "MUL" -> out = Times(in(1), in(2))
         [] e.op = "SCALARMUL" ->
               \E c \in {ScaleFactor} \cup {Weight(FieldSize, PartyCnt, p, Everyone) : p \in Everyone} :
                   out = Times(in(1), c)
         [] e.op = "EVAL" ->
               \E p \in Everyone : out = Polynomial(FieldSize, in(1), [j \in 1 .. T |-> in(j + 1)], p)
         [] e.op = "RECONSTRUCT" ->
               out = At0(FieldSize, PartyCnt, [k \in DOMAIN e.ins |-> in(k)], Everyone)

\* The graph that is verified computes what the program computes: every edge
\* of it is true of the values of the program's expressions; an EVAL edge is
\* the evaluation of a polynomial, constant term first.
GraphHoldsProgram ==
    \A i \in DOMAIN built : \A s \in Samples :
        LET node == [n \in Ids(built[i]) |-> NodeValue(s, i, n)]
        IN \A e \in EdgesOf(built[i]) : Computes(e, node)
=============================================================================
