-------------------------- MODULE PipelineMeaning --------------------------
(***************************************************************************)
(* What the verdict on a program means, products of shares included:       *)
(* perfect privacy, in its definition with probabilities.                  *)
(***************************************************************************)
EXTENDS Pipeline
LOCAL INSTANCE SequencesExt
LOCAL INSTANCE Functions

CONSTANTS
    FieldSize,     \* a prime above PartyCnt
    InputValues,   \* the values of the secrets the property is checked on
    MaxRandomness  \* bound: the random values of a program whose distributions are enumerated

Field == 0 .. FieldSize - 1

\* A sample gives a value to every input k, <<k, 0>>, and to every coefficient
\* j of a polynomial k, <<k, j>>, that the graph knows.
SampleInput(s, k) == IF <<k, 0>> \in DOMAIN s THEN s[<<k, 0>>] ELSE 0
SampleCoefficient(s, k, j) == IF <<k, j>> \in DOMAIN s THEN s[<<k, j>>] ELSE 0

M == INSTANCE FrontendMeaning WITH
    Samples <- {}, vals <- <<>>, Input <- SampleInput, Coefficient <- SampleCoefficient

Imports == DOMAIN builder.map
OfKind(kind) == {x \in Imports : ctx.exprs[x].kind = kind}
PartyOfExpr(x) == ctx.exprs[x].party

Secrets == {<<x, 0>> : x \in OfKind("secret")}
Randomness == {<<x, 0>> : x \in OfKind("randomness")}
                \cup {<<x, j>> : x \in OfKind("poly"), j \in 1 .. T}

\* The samples with given secrets; all of them are equally probable.
SamplesOf(secrets) ==
    {[u \in Secrets \cup Randomness |-> IF u \in Secrets THEN secrets[u] ELSE r[u]] :
        r \in [Randomness -> Field]}

\* What the parties of C start from and what they are sent: all else that they
\* hold they compute from that.
View(C) ==
    LET mine(x) == PartyOfExpr(x) \in C
    IN [own |-> SetToSeq({u \in Secrets \cup Randomness : mine(u[1])}),
        sent |-> SetToSeq({x \in OfKind("share") : mine(x) /\ ctx.exprs[x].op \in {"TRANSIT", "INPUT"}})]

Seen(view, s) ==
    LET val == M!Evaluated(s, ctx.exprs, <<>>)
    IN [i \in DOMAIN view.own |-> s[view.own[i]]] \o [i \in DOMAIN view.sent |-> val[view.sent[i]]]

\* Two sets of pairs <<sample, view>> in which every view, by its first k
\* values, is equally frequent.
RECURSIVE Alike(_, _, _)
Alike(R, Q, k) ==
    IF k = 0 \/ R = {} \/ Q = {} THEN Cardinality(R) = Cardinality(Q)
    ELSE \A d \in Field : Alike({r \in R : r[2][k] = d}, {q \in Q : q[2][k] = d}, k - 1)

\* Secrets that the parties of C cannot tell apart by their own and by the
\* outputs they get.  Outputs do not depend on the polynomials.
SameForThem(C, a, b) ==
    /\ \A u \in Secrets : PartyOfExpr(u[1]) \in C => a[u] = b[u]
    /\ LET theirs == {outputs[i].expr : i \in {j \in DOMAIN outputs : PartyOfExpr(outputs[j].expr) \in C}}
           val(s) == M!Evaluated(s, ctx.exprs, <<>>)
       IN [x \in theirs |-> val(a)[x]] = [x \in theirs |-> val(b)[x]]

Private(C) ==
    LET view == View(C)
        size == Len(view.own) + Len(view.sent)
        inputs == [Secrets -> InputValues]
        dist == [a \in inputs |-> {<<s, Seen(view, s)>> : s \in SamplesOf(a)}]
    IN \A a, b \in inputs : a # b /\ SameForThem(C, a, b) => Alike(dist[a], dist[b], size)

\* "verifying the perfect security" (README.md:6): when the prover says
\* "Proved" of a program, what a corrupted set sees has one distribution for
\* all secrets of the others that give it the same outputs.
ProvedMeansPrivate ==
    verdict = "proved" /\ Cardinality(Randomness) <= MaxRandomness
        => \A C \in P!Jobs : Private(C)
=============================================================================
