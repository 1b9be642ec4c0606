---------------------------- MODULE Transformers ----------------------------
(***************************************************************************)
(* The five equivalent rewriters of src/src/backend/transformer.hpp and    *)
(* the way tryProving configures them.  A rewriter looks at every node of  *)
(* a graph; where its pattern matches it collects a list of edges to       *)
(* eliminate and a list of edges to add.  Such a pair, with the node it    *)
(* was found at, is a plan.  Applying a plan is left to the modules that   *)
(* use this one: Rewriting runs the two loops edge by edge.                *)
(***************************************************************************)
EXTENDS MpcGraph

Parties(g) == 1 .. g.partyCnt

PartyOf(g, n) == g.nodes[n].party

\* Some list of the members of a finite set: the order in which the inputs of
\* an EVAL edge are listed is never observed.
ListOf(S) == CHOOSE f \in [1 .. Cardinality(S) -> S] : \A x \in S : \E i \in DOMAIN f : f[i] = x

NewEdge(op, ins, out, born) == [op |-> op, ins |-> ins, out |-> out, born |-> born]

\* The number of inputs the front end gives an operation.
WellShaped(e) ==
    /\ e.op = "TRANSIT" => Len(e.ins) = 1
    /\ e.op = "ADD" => Len(e.ins) = 2

EdgesShaped(g) == \A e \in EdgesOf(g) : WellShaped(e)

\* What the builder hands over: synchronised lists, every node present, and
\* edges that no rewriting made.
HandedOver(g) ==
    /\ Typed(g) /\ Synced(g) /\ Live(g) = Ids(g)
    /\ EdgesShaped(g) /\ \A e \in EdgesOf(g) : e.born = 0

\* What the assertions of the rewriters count on beyond that: every node is some
\* party's, no EVAL edge uses a node twice, and a value is opened by one party
\* from as many shares as there are parties (Share::reconstruct checks the former).
LaidOut(g) ==
    /\ \A n \in Ids(g) : PartyOf(g, n) \in Parties(g)
    /\ \A e \in EdgesOf(g) :
          /\ e.op = "EVAL" => \A i, j \in DOMAIN e.ins : e.ins[i] = e.ins[j] => i = j
          /\ e.op = "RECONSTRUCT" => /\ Len(e.ins) = g.partyCnt
                                     /\ \A m, n \in SrcsOf(e) : PartyOf(g, m) = PartyOf(g, n)

-----------------------------------------------------------------------------
(* A share may be handed to another party over a single TRANSIT edge.      *)

HasTransit(g, share) == OutDeg(g, share) = 1 /\ \E e \in g.outE[share] : e.op = "TRANSIT"
TransitFrom(g, share) == CHOOSE e \in g.outE[share] : TRUE
Delivered(g, share) == IF HasTransit(g, share) THEN TransitFrom(g, share).out ELSE share

CameByTransit(g, share) == InDeg(g, share) = 1 /\ \E e \in g.inE[share] : e.op = "TRANSIT"
TransitTo(g, share) == CHOOSE e \in g.inE[share] : TRUE
Origin(g, share) == IF CameByTransit(g, share) THEN TransitTo(g, share).ins[1] ELSE share

-----------------------------------------------------------------------------
(* Sharings: N EVAL edges from a secret and T random coefficients.         *)

Users(g, s) == g.outE[s]
Coefficients(g, s) == (UNION {SrcsOf(e) : e \in Users(g, s)}) \ {s}
Shares(g, s) == {e.out : e \in Users(g, s)}

\* A mutant of RewritableSecret: the degree of the sharing is not looked at.
RewritableSecretAnyDegree(g, s, srcParties) ==
    /\ OutDeg(g, s) = g.partyCnt
    /\ \A e \in Users(g, s) : e.op = "EVAL"
    /\ \A m \in Coefficients(g, s) : IsRandomNode(g, m)

\* Transformer::isRewritableSecret.  As in the code, an out-edge that is not
\* an EVAL edge is skipped by the checks on its target and not refused.
RewritableSecret(g, s, srcParties) ==
    /\ OutDeg(g, s) = g.partyCnt
    /\ \A e \in Users(g, s) : Len(e.ins) = g.T + 1
    /\ LET evals == {e \in Users(g, s) : e.op = "EVAL"}
           receiver(e) == PartyOf(g, Delivered(g, e.out))
       IN /\ \A e, f \in evals : receiver(e) = receiver(f) => e = f
          /\ \A e \in evals : receiver(e) \in srcParties => InDeg(g, Delivered(g, e.out)) <= 1
    /\ Cardinality(Coefficients(g, s) \cup {s}) = g.T + 1
    /\ \A m \in Coefficients(g, s) : IsRandomNode(g, m)

\* The shares that end up at a source party become the new sources.
SourceShares(g, s, srcParties) ==
    {share \in Shares(g, s) : PartyOf(g, Delivered(g, share)) \in srcParties}

\* The plan of SharingTransformer (root = {s}: the secret stays a source) and
\* of RandomSharingTransformer (root = {}: it becomes a target).
SharingPlan(g, s, srcParties, root, born) ==
    LET sources == SourceShares(g, s, srcParties)
        turned == {share \in sources : HasTransit(g, share)}
        srcs == root \cup sources
        dsts == ({s} \ root) \cup Coefficients(g, s) \cup (Shares(g, s) \ sources)
    IN [node |-> s, alt |-> 0,
        del |-> Users(g, s) \cup {TransitFrom(g, share) : share \in turned},
        add |-> {NewEdge("TRANSIT", <<Delivered(g, share)>>, share, born) : share \in turned}
                \cup {NewEdge("EVAL", ListOf(srcs), d, born) : d \in dsts},
        \* the two assertions of apply: every out-edge of the secret is an EVAL
        \* edge, and there are as many targets as parties
        assertion |-> /\ \A e \in Users(g, s) : e.op = "EVAL"
                      /\ Cardinality(dsts) = g.partyCnt]

SharingPlans(g, srcParties, born) ==
    {SharingPlan(g, s, srcParties, {s}, born) :
        s \in {n \in Live(g) : RewritableSecret(g, n, srcParties)}}

RandomSharingPlans(g, srcParties, born) ==
    {SharingPlan(g, s, srcParties, {}, born) :
        s \in {n \in RandomNodes(g) : RewritableSecret(g, n, srcParties)}}

-----------------------------------------------------------------------------
(* Additions: c = a + b  becomes  a = c - b  or  b = c - a.                *)

\* A mutant of AdditionPlan: the operands are swapped.
AdditionPlanSwapped(e, alt, born) ==
    [node |-> e.out, alt |-> alt, del |-> {e},
     add |-> {NewEdge("SUB", <<e.ins[2 - alt], e.out>>, e.ins[1 + alt], born)},
     assertion |-> TRUE]

AdditionPlan(e, alt, born) ==
    LET kept == e.ins[2 - alt]
        turned == e.ins[1 + alt]
    IN [node |-> e.out, alt |-> alt, del |-> {e},
        add |-> {NewEdge("SUB", <<e.out, kept>>, turned, born)},
        assertion |-> Len(e.ins) = 2]

AdditionPlans(g, born) ==
    {AdditionPlan(e, alt, born) : e \in {f \in EdgesOf(g) : f.op = "ADD"}, alt \in {0, 1}}

-----------------------------------------------------------------------------
(* Reconstructions of a secret from the shares of all parties.             *)

\* ReconstructionTransformer::isRewritableReconstruction
RewritableReconstruction(g, e, srcParties) ==
    LET origins == {Origin(g, share) : share \in SrcsOf(e)}
        holder(i) == PartyOf(g, Origin(g, e.ins[i]))
        becomesRandom == InDeg(g, e.out) = 1 /\ ~IsIO(g, e.out)
    IN /\ \A i, j \in DOMAIN e.ins : holder(i) = holder(j) => i = j
       /\ Cardinality({n \in origins : PartyOf(g, n) \notin srcParties /\ IsRandomNode(g, n)})
            = CountIf(becomesRandom)

\* The shares of other than source parties become targets; one that came by
\* TRANSIT has that edge turned round.
ReconstructionPlan(g, e, srcParties, born) ==
    LET sources == {share \in SrcsOf(e) : PartyOf(g, Origin(g, share)) \in srcParties}
        dsts == SrcsOf(e) \ sources
        turned == {share \in dsts : CameByTransit(g, share)}
        srcs == {e.out} \cup sources
        del == {e} \cup {TransitTo(g, share) : share \in turned}
        add == {NewEdge("TRANSIT", <<share>>, Origin(g, share), born) : share \in turned}
               \cup {NewEdge("EVAL", ListOf(srcs), d, born) : d \in dsts}
    IN [node |-> e.out, alt |-> 0, del |-> del, add |-> add,
        assertion |-> /\ Len(e.ins) = g.partyCnt
                      /\ Cardinality(del) >= g.partyCnt - g.T - 1
                      /\ Cardinality(add) >= 2 * (g.partyCnt - g.T - 1) - 1]

\* The edges apply looks at: a RECONSTRUCT edge that is the only one into its
\* output.
Reconstructions(g) == {e \in EdgesOf(g) : e.op = "RECONSTRUCT" /\ InDeg(g, e.out) = 1}

ReconstructionPlans(g, srcParties, born) ==
    {ReconstructionPlan(g, e, srcParties, born) :
        e \in {f \in Reconstructions(g) : RewritableReconstruction(g, f, srcParties)}}

-----------------------------------------------------------------------------
(* The rewriters tryProving builds, in the order it tries them.            *)

Honest(g) == Parties(g) \ g.corrupted

\* The first k honest parties in the order of the vector of parties.
FirstHonest(g, k) == {p \in Honest(g) : Cardinality({q \in Honest(g) : q < p}) < k}

\* A mutant of ThresholdParties: the loop goes one party too far.
ThresholdPartiesOneMore(g) ==
    g.corrupted \cup FirstHonest(g, g.T + 1 - Cardinality(g.corrupted))

\* The corrupted parties, topped up with honest ones to exactly T.  The loop
\* tests for equality: with more than T corrupted parties it takes everyone.
ThresholdParties(g) ==
    LET c == Cardinality(g.corrupted)
    IN IF c <= g.T THEN g.corrupted \cup FirstHonest(g, g.T - c) ELSE Parties(g)

\* One more honest party, when there is one left.
ThresholdPartiesPlusOne(g) ==
    LET rest == Honest(g) \ ThresholdParties(g)
    IN ThresholdParties(g) \cup {p \in rest : \A q \in rest : p <= q}

Rewriter == 1 .. 5

Plans(g, r, born) ==
    IF r = 1 THEN AdditionPlans(g, born)
    ELSE IF r = 2 THEN SharingPlans(g, ThresholdParties(g), born)
    ELSE IF r = 3 THEN RandomSharingPlans(g, ThresholdPartiesPlusOne(g), born)
    ELSE IF r = 4 THEN ReconstructionPlans(g, ThresholdParties(g), born)
    ELSE ReconstructionPlans(g, ThresholdPartiesPlusOne(g), born)

(***************************************************************************)
(* The assertions that apply evaluates on a graph.  They are active in     *)
(* the Debug and the Release build: neither of their flags in CMakeLists   *)
(* defines NDEBUG.                                                         *)
(***************************************************************************)
AssertionsHold(g, r, born) ==
    /\ r \in {4, 5} => \A e \in Reconstructions(g) : Len(e.ins) = g.partyCnt
    /\ \A p \in Plans(g, r, born) : p.assertion

-----------------------------------------------------------------------------

\* Mutants of Tails: inputs and outputs stay; corrupted nodes go, too.
TailsInside(g) == {n \in Live(g) : g.outE[n] = {} /\ ~IsCorrupted(g, n) /\ ~IsIO(g, n)}
TailsOfAnyone(g) == {n \in Live(g) : g.outE[n] = {}}

\* The honest nodes without users, which tail elimination removes at the end.
Tails(g) == {n \in Live(g) : g.outE[n] = {} /\ ~IsCorrupted(g, n)}
=============================================================================
