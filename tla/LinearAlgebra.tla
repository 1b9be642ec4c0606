--------------------------- MODULE LinearAlgebra ---------------------------
(***************************************************************************)
(* Vectors over the field of p elements, p prime.  The modules about the   *)
(* meaning of a dataflow graph give every node a vector: the linear        *)
(* combination of the inputs and random values that the node holds.        *)
(***************************************************************************)
EXTENDS Shamir
LOCAL INSTANCE SequencesExt
LOCAL INSTANCE FiniteSetsExt

Unit(k, dim) == [i \in 1 .. dim |-> IF i = k THEN 1 ELSE 0]
Zero(dim) == [i \in 1 .. dim |-> 0]

Plus(u, v, p) == [i \in DOMAIN u |-> (u[i] + v[i]) % p]
Times(a, v, p) == [i \in DOMAIN v |-> (a * v[i]) % p]
Minus(u, v, p) == Plus(u, Times(p - 1, v, p), p)

IsZero(v) == \A i \in DOMAIN v : v[i] = 0

\* The combination of a sequence of vectors with a sequence of coefficients.
Combine(coeffs, vecs, dim, p) ==
    FoldLeft(LAMBDA acc, i : Plus(acc, Times(coeffs[i], vecs[i], p), p),
             Zero(dim), [i \in 1 .. Len(vecs) |-> i])

Pivot(v) == CHOOSE i \in DOMAIN v : v[i] # 0 /\ \A j \in 1 .. i - 1 : v[j] = 0

\* What is left of v after subtracting multiples of the vectors of an echelon
\* basis, each of which has a 1 at its pivot.
Reduce(v, basis, p) ==
    FoldLeft(LAMBDA acc, b : Minus(acc, Times(acc[Pivot(b)], b, p), p), v, basis)

\* An echelon basis of the span of a set of vectors.
EchelonBasis(S, p) ==
    FoldSet(LAMBDA v, basis :
                LET r == Reduce(v, basis, p)
                IN IF IsZero(r) THEN basis
                   ELSE Append(basis, Times(FieldInverse(r[Pivot(r)], p), r, p)),
             <<>>, S)

Rank(S, p) == Len(EchelonBasis(S, p))
InSpan(v, S, p) == IsZero(Reduce(v, EchelonBasis(S, p), p))
=============================================================================
