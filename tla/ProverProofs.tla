---------------------------- MODULE ProverProofs ----------------------------
(***************************************************************************)
(* The prover, for any protocols, classes of equivalent parties, numbers   *)
(* of corrupted parties and of processors: every job of the parallel loop  *)
(* is a guided search (module GuidedSearch), whatever the other jobs do,   *)
(* and tail elimination leaves what the corrupted parties see as it is.    *)
(*                                                                         *)
(* One step of module Prover is a whole rewriting.  The lemmas on its two  *)
(* loops of edges, and on the breadth-first search of the potential, are   *)
(* inductions over numbers, by a minimal counterexample.                   *)
(***************************************************************************)
EXTENDS Prover, CountingProofs, TransformersProofs

-----------------------------------------------------------------------------
(* The loops of eliminateEdges and addEdges, and the sum in the potential. *)

Eliminating == [op |-> "eliminate"]
Adding == [op |-> "add"]
Summing(size) == [op |-> "sum", size |-> size]

\* One turn of a loop.
Edit(loop, h, e) ==
    IF loop.op = "eliminate" THEN EliminateEdge(h, e)
    ELSE IF loop.op = "add" THEN AddEdge(h, e)
    ELSE loop.size - e + h

\* f[S] is what the loop has made of g after the edges, or nodes, of S.
Loop(loop, g, D, f) ==
    f = [S \in SUBSET D |-> IF S = {} THEN g
                            ELSE LET e == CHOOSE e \in S : TRUE IN Edit(loop, f[S \ {e}], e)]

LEMMA LoopEnds ==
    ASSUME NEW loop, NEW g, NEW D, IsFiniteSet(D)
    PROVE  \E f : Loop(loop, g, D, f)
<1> DEFINE some(S) == CHOOSE e \in S : TRUE
           next(f, S) == IF S = {} THEN g ELSE Edit(loop, f[S \ {some(S)}], some(S))
           Small(k) == {S \in SUBSET D : Cardinality(S) <= k}
           Partial(k, f) == f = [S \in Small(k) |-> next(f, S)]
           Bad == {k \in Nat : ~\E f : Partial(k, f)}
<1>1. \A S \in SUBSET D : /\ Cardinality(S) \in Nat /\ Cardinality(S) <= Cardinality(D)
                          /\ Cardinality(S) = 0 <=> S = {}
                          /\ S # {} => /\ some(S) \in S /\ S \ {some(S)} \in SUBSET D
                                       /\ Cardinality(S \ {some(S)}) = Cardinality(S) - 1
  <2> SUFFICES ASSUME NEW S \in SUBSET D
               PROVE  /\ Cardinality(S) \in Nat /\ Cardinality(S) <= Cardinality(D)
                      /\ Cardinality(S) = 0 <=> S = {}
                      /\ S # {} => /\ some(S) \in S /\ S \ {some(S)} \in SUBSET D
                                   /\ Cardinality(S \ {some(S)}) = Cardinality(S) - 1
    OBVIOUS
  <2>1. IsFiniteSet(S) /\ Cardinality(S) <= Cardinality(D)
    BY FS_Subset
  <2>2. Cardinality(S) \in Nat /\ (Cardinality(S) = 0 <=> S = {})
    BY <2>1, FS_EmptySet, FS_CardinalityType
  <2>3. S # {} => some(S) \in S
    OBVIOUS
  <2> HIDE DEF some
  <2>4. S # {} => Cardinality(S \ {some(S)}) = Cardinality(S) - 1
    BY <2>1, <2>3, FS_RemoveElement
  <2> QED BY <2>1, <2>2, <2>3, <2>4
<1> HIDE DEF some
<1>2. Bad = {}
  <2> SUFFICES ASSUME Bad # {} PROVE FALSE
    OBVIOUS
  <2>1. PICK k \in Bad : \A j \in Bad : k <= j
    <3> HIDE DEF Bad
    <3>1. Bad \in SUBSET Nat
      BY DEF Bad
    <3> QED BY <3>1, Least
  <2>2. k # 0
    <3>1. ASSUME NEW S \in Small(0) PROVE S = {}
      <4>1. S \in SUBSET D /\ Cardinality(S) <= 0
        OBVIOUS
      <4> HIDE DEF Small, Bad
      <4>2. Cardinality(S) \in Nat /\ (Cardinality(S) = 0 <=> S = {})
        BY <1>1, <4>1
      <4> QED BY <4>1, <4>2
    <3>2. Partial(0, [S \in Small(0) |-> g])
      BY <3>1
    <3>3. 0 \notin Bad
      BY <3>2
    <3> HIDE DEF Bad
    <3> QED BY <2>1, <3>3
  <2>3. PICK f : Partial(k - 1, f)
    <3>1. k - 1 \in Nat /\ ~(k <= k - 1)
      BY <2>2
    <3>2. k - 1 \notin Bad
      <4> HIDE DEF Bad
      <4> QED BY <2>1, <3>1
    <3> QED BY <3>1, <3>2
  <2> DEFINE h == [S \in Small(k) |-> IF Cardinality(S) = k THEN next(f, S) ELSE f[S]]
  <2>4. ASSUME NEW S \in Small(k) PROVE h[S] = next(h, S)
    <3>1. S # {} => /\ S \ {some(S)} \in Small(k - 1) /\ S \ {some(S)} \in Small(k)
                    /\ Cardinality(S \ {some(S)}) # k
      BY <1>1, <2>2
    <3>2. S # {} => h[S \ {some(S)}] = f[S \ {some(S)}]
      BY <3>1
    <3>3. next(h, S) = next(f, S)
      <4> HIDE DEF h, Small
      <4> QED BY <3>2
    <3>4. CASE Cardinality(S) = k
      <4>1. h[S] = next(f, S)
        BY <3>4
      <4> QED BY <3>3, <4>1
    <3>5. CASE Cardinality(S) # k
      <4>1. S \in Small(k - 1) /\ h[S] = f[S]
        <5>1. S \in SUBSET D /\ Cardinality(S) <= k /\ h[S] = f[S]
          BY <3>5
        <5>2. Cardinality(S) \in Nat /\ k \in Nat
          BY <1>1, <5>1
        <5>3. Cardinality(S) <= k - 1
          BY <3>5, <5>1, <5>2
        <5> QED BY <5>1, <5>3
      <4>2. f[S] = next(f, S)
        <5>1. f = [R \in Small(k - 1) |-> next(f, R)]
          BY <2>3
        <5> HIDE DEF Small, next, Bad, h, Partial
        <5>2. \A R \in Small(k - 1) : f[R] = next(f, R)
          BY <5>1
        <5> QED BY <4>1, <5>2
      <4> QED BY <3>3, <4>1, <4>2
    <3> QED BY <3>4, <3>5
  <2>5. Partial(k, h)
    <3>1. h = [S \in Small(k) |-> h[S]]
      OBVIOUS
    <3> HIDE DEF h, Small, next
    <3> QED BY <2>4, <3>1
  <2> QED BY <2>1, <2>5
<1>3. Cardinality(D) \in Nat
  BY FS_CardinalityType
<1>4. PICK f : Partial(Cardinality(D), f)
  BY <1>2, <1>3
<1>5. Small(Cardinality(D)) = SUBSET D
  BY <1>1
<1> HIDE DEF Small
<1>6. f = [S \in SUBSET D |-> next(f, S)]
  BY <1>4, <1>5
<1> QED BY <1>6 DEF Loop, some

\* Parties, threshold and nodes are as they were, and no edges are new but those of E.
Kept(g, h, E) ==
    /\ h.partyCnt = g.partyCnt /\ h.T = g.T /\ Ids(h) = Ids(g)
    /\ EdgesOf(h) \subseteq EdgesOf(g) \cup E

LEMMA EditKept ==
    ASSUME NEW g, NEW k, NEW E, Kept(g, k, E), NEW e, NEW loop, loop.op \in {"eliminate", "add"}
    PROVE  Kept(g, Edit(loop, k, e), E \cup {e})
<1> DEFINE h == Edit(loop, k, e)
<1>1. h = EliminateEdge(k, e) \/ h = AddEdge(k, e)
  BY DEF Edit
<1> HIDE DEF h
<1>2. /\ h.partyCnt = k.partyCnt /\ h.T = k.T /\ Ids(h) = Ids(k)
      /\ EdgesOf(h) \subseteq EdgesOf(k) \cup {e}
  BY <1>1, EditKeeps
<1> QED BY <1>2 DEF Kept, h

\* The loops keep a graph consistent: what is still to be eliminated stays in the graph.
LEMMA LoopConsistent ==
    ASSUME NEW loop, NEW g, Consistent(g), NEW D, IsFiniteSet(D),
           \/ loop.op = "eliminate" /\ D \subseteq EdgesOf(g)
           \/ loop.op = "add" /\ D \subseteq Edge(Ids(g)) /\ \A e \in D : WellShaped(e),
           NEW f, Loop(loop, g, D, f)
    PROVE  /\ Consistent(f[D]) /\ f[D].nodes = g.nodes /\ f[D].corrupted = g.corrupted
           /\ Kept(g, f[D], D)
<1> DEFINE Fine(S) == /\ Consistent(f[S])
                      /\ f[S].nodes = g.nodes /\ f[S].corrupted = g.corrupted
                      /\ Kept(g, f[S], S)
                      /\ loop.op = "eliminate" => D \ S \subseteq EdgesOf(f[S])
           Bad == {k \in Nat : \E S \in SUBSET D : Cardinality(S) = k /\ ~Fine(S)}
<1>1. \A S \in SUBSET D : IsFiniteSet(S) /\ Cardinality(S) \in Nat
  BY FS_Subset, FS_CardinalityType
<1>2. Bad = {}
  <2> SUFFICES ASSUME Bad # {} PROVE FALSE
    OBVIOUS
  <2>1. PICK k \in Bad : \A j \in Bad : k <= j
    <3> HIDE DEF Bad
    <3>1. Bad \in SUBSET Nat
      BY DEF Bad
    <3> QED BY <3>1, Least
  <2>2. PICK S \in SUBSET D : Cardinality(S) = k /\ ~Fine(S)
    OBVIOUS
  <2>3. S # {}
    <3>1. f[{}] = g
      BY DEF Loop
    <3>2. Kept(g, g, {})
      BY DEF Kept
    <3>3. Fine({})
      BY <3>1, <3>2
    <3> HIDE DEF Fine
    <3> QED BY <2>2, <3>3
  <2> DEFINE e == CHOOSE x \in S : TRUE
             R == S \ {e}
  <2>4. e \in S /\ R \in SUBSET D /\ f[S] = Edit(loop, f[R], e)
    BY <2>3 DEF Loop
  <2> HIDE DEF e
  <2>5. Fine(R)
    <3>1. Cardinality(R) = k - 1
      BY <1>1, <2>2, <2>4, FS_RemoveElement
    <3>2. Cardinality(R) \in Nat /\ k \in Nat
      BY <1>1, <2>4
    <3>3. ~(k <= Cardinality(R))
      BY <3>1, <3>2
    <3> HIDE DEF Fine, R
    <3>4. Cardinality(R) \notin Bad
      <4> HIDE DEF Bad
      <4> QED BY <2>1, <3>3
    <3> QED BY <2>4, <3>2, <3>4
  <2>6. Ids(f[R]) = Ids(g) /\ Kept(g, f[S], S)
    <3>1. Ids(f[R]) = Ids(g) /\ Kept(g, f[R], R)
      BY <2>5 DEF Ids
    <3>2. Kept(g, f[S], R \cup {e})
      <4> HIDE DEF R
      <4> QED BY <2>4, <3>1, EditKept
    <3>3. R \cup {e} = S
      BY <2>4
    <3> HIDE DEF R
    <3> QED BY <3>1, <3>2, <3>3
  <2>7. CASE loop.op = "eliminate"
    <3>1. e \in EdgesOf(f[R]) /\ f[S] = EliminateEdge(f[R], e)
      BY <2>4, <2>5, <2>7 DEF Edit
    <3>2. Consistent(f[R])
      BY <2>5
    <3>3. /\ Consistent(f[S]) /\ EdgesOf(f[R]) \ {e} \subseteq EdgesOf(f[S])
          /\ f[S].nodes = f[R].nodes /\ f[S].corrupted = f[R].corrupted
      <4>1. Typed(f[R])
        BY <3>2 DEF Consistent
      <4> HIDE DEF R
      <4>2. f[S].nodes = f[R].nodes /\ f[S].corrupted = f[R].corrupted
        BY <3>1, <4>1, EliminateEdgeTyped
      <4>3. Consistent(f[S]) /\ EdgesOf(f[R]) \ {e} \subseteq EdgesOf(f[S])
        BY <3>1, <3>2, EliminateEdgeConsistent
      <4> QED BY <4>2, <4>3
    <3>4. Fine(S)
      BY <2>4, <2>5, <2>6, <3>3
    <3> QED BY <2>2, <3>4
  <2>8. CASE loop.op = "add"
    <3>1. e \in Edge(Ids(f[R])) /\ WellShaped(e) /\ f[S] = AddEdge(f[R], e)
      BY <2>4, <2>6, <2>8 DEF Edit
    <3>2. Consistent(f[R])
      BY <2>5
    <3>3. /\ Consistent(f[S])
          /\ f[S].nodes = f[R].nodes /\ f[S].corrupted = f[R].corrupted
      BY <3>1, <3>2, AddEdgeConsistent, AddEdgeTyped DEF Consistent
    <3>4. Fine(S)
      BY <2>5, <2>6, <2>8, <3>3
    <3> QED BY <2>2, <3>4
  <2> QED BY <2>7, <2>8
<1>3. Fine(D)
  <2> HIDE DEF Fine
  <2> QED BY <1>1, <1>2
<1> QED BY <1>3

\* One whole rewriting: the edges of a plan are eliminated and added.
LEMMA RewrittenConsistent ==
    ASSUME NEW g, Consistent(g), NEW p, PlanFits(g, p)
    PROVE  LET h == Rewritten(g, p)
           IN /\ Consistent(h) /\ h.nodes = g.nodes /\ h.corrupted = g.corrupted
              /\ Kept(g, h, p.add)
<1> DEFINE h == EliminateEdges(g, p.del)
           k == AddEdges(h, p.add)
<1>1. Consistent(h) /\ h.nodes = g.nodes /\ h.corrupted = g.corrupted /\ Kept(g, h, p.del)
  <2> DEFINE f == CHOOSE x : Loop(Eliminating, g, p.del, x)
  <2>1. h = f[p.del]
    BY DEF EliminateEdges, FoldSet, MapThenFoldSet, Loop, Edit, Eliminating
  <2>2. Loop(Eliminating, g, p.del, f)
    BY LoopEnds DEF PlanFits
  <2> HIDE DEF f, h
  <2> QED BY <2>1, <2>2, LoopConsistent DEF PlanFits, Eliminating
<1> HIDE DEF h
<1>2. Consistent(k) /\ k.nodes = h.nodes /\ k.corrupted = h.corrupted /\ Kept(h, k, p.add)
  <2> DEFINE f == CHOOSE x : Loop(Adding, h, p.add, x)
  <2>1. k = f[p.add]
    BY DEF AddEdges, FoldSet, MapThenFoldSet, Loop, Edit, Adding
  <2>2. Loop(Adding, h, p.add, f)
    BY LoopEnds DEF PlanFits
  <2>3. p.add \subseteq Edge(Ids(h))
    BY <1>1 DEF PlanFits, Ids
  <2> HIDE DEF f, k
  <2> QED BY <1>1, <2>1, <2>2, <2>3, LoopConsistent DEF PlanFits, Adding
<1>3. Kept(g, k, p.add)
  BY <1>1, <1>2 DEF Kept, PlanFits
<1> QED BY <1>1, <1>2, <1>3 DEF Rewritten, h

-----------------------------------------------------------------------------
(* Potentials and their order.                                             *)

LEMMA PotentialTyped ==
    ASSUME NEW g, Typed(g)
    PROVE  \A i \in 1 .. 4 : Potential(g)[i] \in Int
<1> DEFINE size == Cardinality(Ids(g))
           honest == {n \in Live(g) : ~IsCorrupted(g, n)}
           free == {n \in honest : InDeg(g, n) = 0}
           f == CHOOSE x : Loop(Summing(size), 0, free, x)
<1>1. size \in Nat /\ Live(g) \in SUBSET Ids(g) /\ Ids(g) \in SUBSET Nat
  BY FS_CardinalityType DEF Typed, Live
<1>2. IsFiniteSet(ReachCorrupted(g) \cap honest) /\ IsFiniteSet(free)
  <2>1. ReachCorrupted(g) \cap honest \in SUBSET Ids(g) /\ free \in SUBSET Ids(g)
    BY <1>1
  <2> QED BY <2>1, FS_Subset DEF Typed
<1>3. Cardinality(ReachCorrupted(g) \cap honest) \in Nat
  BY <1>2, FS_CardinalityType
<1>4. /\ Potential(g)[1] = g.bub
      /\ Potential(g)[2] = Cardinality(ReachCorrupted(g) \cap honest)
      /\ Potential(g)[3] = size
  BY DEF Potential
<1>5. Potential(g)[4] = f[free]
  BY DEF Potential, MapThenSumSet, MapThenFoldSet, Loop, Edit, Summing
<1>6. Loop(Summing(size), 0, free, f)
  BY <1>2, LoopEnds
<1>7. free \in SUBSET Nat
  BY <1>1
<1> HIDE DEF size, honest, free, f
<1>8. \A S \in SUBSET free : f[S] \in Int
  <2> DEFINE Bad == {k \in Nat : \E S \in SUBSET free : Cardinality(S) = k /\ f[S] \notin Int}
  <2>1. \A S \in SUBSET free : IsFiniteSet(S) /\ Cardinality(S) \in Nat
    BY <1>2, FS_Subset, FS_CardinalityType
  <2> SUFFICES ASSUME Bad # {} PROVE FALSE
    BY <2>1
  <2>2. PICK k \in Bad : \A j \in Bad : k <= j
    <3> HIDE DEF Bad
    <3>1. Bad \in SUBSET Nat
      BY DEF Bad
    <3> QED BY <3>1, Least
  <2>3. PICK S \in SUBSET free : Cardinality(S) = k /\ f[S] \notin Int
    OBVIOUS
  <2>4. S # {}
    BY <1>6, <2>3 DEF Loop
  <2> DEFINE e == CHOOSE x \in S : TRUE
             R == S \ {e}
  <2>5. e \in S /\ R \in SUBSET free /\ f[S] = size - e + f[R]
    BY <1>6, <2>4 DEF Loop, Edit, Summing
  <2> HIDE DEF e
  <2>6. f[R] \notin Int
    <3>1. e \in Int /\ size \in Int
      BY <1>1, <1>7, <2>5
    <3> HIDE DEF R
    <3>2. f[R] \in Int => size - e + f[R] \in Int
      BY <3>1
    <3> QED BY <2>3, <2>5, <3>2
  <2>7. Cardinality(R) \in Nat /\ Cardinality(R) = k - 1
    BY <2>1, <2>3, <2>5, FS_RemoveElement
  <2> HIDE DEF R
  <2>8. Cardinality(R) \in Bad /\ ~(k <= Cardinality(R))
    BY <2>5, <2>6, <2>7
  <2> HIDE DEF Bad
  <2> QED BY <2>2, <2>8
<1>9. \A i \in 1 .. 4 : i = 1 \/ i = 2 \/ i = 3 \/ i = 4
  OBVIOUS
<1> QED BY <1>1, <1>3, <1>4, <1>5, <1>8, <1>9 DEF Typed

LEMMA LessTransitive ==
    ASSUME NEW p, NEW q, NEW r, \A i \in 1 .. 4 : p[i] \in Int /\ q[i] \in Int /\ r[i] \in Int,
           Less(p, q), Less(q, r)
    PROVE  Less(p, r)
<1>1. PICK i \in 1 .. 4 : p[i] < q[i] /\ \A j \in 1 .. i - 1 : p[j] = q[j]
  BY DEF Less
<1>2. PICK k \in 1 .. 4 : q[k] < r[k] /\ \A j \in 1 .. k - 1 : q[j] = r[j]
  BY DEF Less
<1>3. CASE i <= k
  <2>1. p[i] < r[i]
    <3>1. CASE i = k
      BY <1>1, <1>2, <3>1
    <3>2. CASE i < k
      <4>1. i \in 1 .. k - 1
        BY <3>2
      <4> QED BY <1>1, <1>2, <4>1
    <3> QED BY <1>3, <3>1, <3>2
  <2>2. \A j \in 1 .. i - 1 : p[j] = r[j]
    BY <1>1, <1>2, <1>3
  <2> QED BY <2>1, <2>2 DEF Less
<1>4. CASE k < i
  <2>1. p[k] < r[k]
    <3>1. k \in 1 .. i - 1
      BY <1>4
    <3> QED BY <1>1, <1>2, <3>1
  <2>2. \A j \in 1 .. k - 1 : p[j] = r[j]
    BY <1>1, <1>2, <1>4
  <2> QED BY <2>1, <2>2 DEF Less
<1> QED BY <1>3, <1>4

-----------------------------------------------------------------------------
(* The assertions of the rewriters.                                        *)

\* Parties and threshold as they are for every start graph.
Sized(g) ==
    /\ g.partyCnt \in Nat /\ g.T \in 0 .. g.partyCnt - 1
    /\ g.corrupted \subseteq Parties(g) /\ Cardinality(g.corrupted) <= g.T

\* The corrupted parties are topped up to T, and to T + 1.
LEMMA SourceParties ==
    ASSUME NEW g, Sized(g)
    PROVE  /\ ThresholdParties(g) \subseteq Parties(g)
           /\ Cardinality(ThresholdParties(g)) = g.T
           /\ ThresholdPartiesPlusOne(g) \subseteq Parties(g)
           /\ Cardinality(ThresholdPartiesPlusOne(g)) = g.T + 1
<1> DEFINE N == g.partyCnt
           T == g.T
           C == g.corrupted
           c == Cardinality(C)
           H == Honest(g)
           F == FirstHonest(g, T - c)
           P == ThresholdParties(g)
           rest == H \ P
<1>1. /\ N \in Nat /\ T \in Nat /\ T < N /\ C \in SUBSET (1 .. N)
      /\ Parties(g) = 1 .. N /\ H = (1 .. N) \ C
  <2>1. N \in Nat /\ T \in 0 .. N - 1
    BY DEF Sized
  <2>2. Parties(g) = 1 .. N /\ H = (1 .. N) \ C
    BY DEF Parties, Honest
  <2>3. C \in SUBSET (1 .. N)
    BY <2>2 DEF Sized
  <2>4. T \in Nat /\ T < N
    BY <2>1
  <2> QED BY <2>1, <2>2, <2>3, <2>4
<1>2. IsFiniteSet(1 .. N) /\ Cardinality(1 .. N) = N
  BY <1>1, FirstNumbers, Zenon
<1>3. IsFiniteSet(C) /\ c \in Nat /\ c <= T
  <2>1. IsFiniteSet(C)
    BY <1>1, <1>2, FS_Subset
  <2>2. c \in Nat
    BY <2>1, FS_CardinalityType
  <2> QED BY <2>1, <2>2 DEF Sized
<1>4. IsFiniteSet(H) /\ Cardinality(H) = N - c /\ H \in SUBSET Nat
  <2>1. (1 .. N) \cap C = C
    BY <1>1
  <2>2. Cardinality((1 .. N) \ C) = Cardinality(1 .. N) - Cardinality((1 .. N) \cap C)
    BY <1>2, FS_Difference, Zenon
  <2>3. IsFiniteSet((1 .. N) \ C)
    BY <1>2, FS_Difference, Zenon
  <2>4. Cardinality(H) = N - c
    BY <1>1, <1>2, <2>1, <2>2, Zenon
  <2>5. IsFiniteSet(H)
    BY <1>1, <2>3, Zenon
  <2>6. H \in SUBSET Nat
    BY <1>1
  <2> QED BY <2>4, <2>5, <2>6
<1> HIDE DEF H
<1>5. T - c \in 0 .. Cardinality(H) /\ F = First(H, T - c)
  BY <1>1, <1>3, <1>4 DEF FirstHonest, First, H
<1>6. F \subseteq H /\ Cardinality(F) = T - c
  <2>1. \A k \in 0 .. Cardinality(H) : First(H, k) \subseteq H /\ Cardinality(First(H, k)) = k
    BY <1>4, FirstSize, Zenon
  <2> QED BY <1>5, <2>1, Zenon
<1>7. P = C \cup F
  BY <1>3 DEF ThresholdParties, Sized
<1> HIDE DEF P, F, c, N, T
<1>8. C \cap F = {} /\ P \in SUBSET (1 .. N) /\ IsFiniteSet(F) /\ IsFiniteSet(P)
  <2>1. C \cap F = {} /\ F \in SUBSET (1 .. N)
    BY <1>1, <1>6
  <2>2. P \in SUBSET (1 .. N)
    BY <1>1, <1>7, <2>1
  <2> QED BY <1>2, <2>1, <2>2, FS_Subset
<1>9. Cardinality(P) = T
  <2>1. Cardinality(C \cup F) = Cardinality(C) + Cardinality(F) - Cardinality(C \cap F)
    BY <1>3, <1>8, FS_Union, Zenon
  <2>2. Cardinality({}) = 0
    BY FS_EmptySet
  <2>3. Cardinality(P) = c + Cardinality(F) - 0
    BY <1>7, <1>8, <2>1, <2>2, Zenon DEF c
  <2> QED BY <1>1, <1>3, <1>6, <2>3
<1>10. rest # {} /\ rest \in SUBSET Nat /\ rest \in SUBSET (1 .. N)
  <2>1. rest \in SUBSET Nat /\ rest \in SUBSET (1 .. N)
    BY <1>1, <1>4
  <2>2. ASSUME rest = {} PROVE FALSE
    <3>1. 1 .. N = P
      BY <1>1, <1>7, <1>8, <2>2
    <3> QED BY <1>1, <1>2, <1>9, <3>1
  <2> QED BY <2>1, <2>2
<1>11. PICK p \in rest : \A q \in rest : p <= q
  <2> HIDE DEF rest
  <2> QED BY <1>10, Least
<1>12. {x \in rest : \A q \in rest : x <= q} = {p}
  <2>1. ASSUME NEW x \in rest, \A q \in rest : x <= q PROVE x = p
    <3>1. x <= p /\ p <= x /\ x \in Nat /\ p \in Nat
      BY <1>10, <1>11, <2>1
    <3> QED BY <3>1
  <2> HIDE DEF rest
  <2> QED BY <1>11, <2>1
<1>13. ThresholdPartiesPlusOne(g) = P \cup {p} /\ p \notin P /\ p \in 1 .. N
  BY <1>10, <1>11, <1>12 DEF ThresholdPartiesPlusOne, P, H
<1>14. Cardinality(P \cup {p}) = T + 1
  BY <1>8, <1>9, <1>13, FS_AddElement
<1> QED BY <1>1, <1>8, <1>9, <1>13, <1>14 DEF P, N, T

\* Sharings: what becomes a target.
Targets(g, s, P, root) ==
    ({s} \ root) \cup Coefficients(g, s) \cup (Shares(g, s) \ SourceShares(g, s, P))

\* A secret that is dealt, and only dealt: its users are as many as there are parties,
\* and so are its shares.
LEMMA DealtShares ==
    ASSUME NEW g, Consistent(g), LaidOut(g), Sized(g), NEW s \in Ids(g), NEW P,
           RewritableSecret(g, s, P), \A e \in Users(g, s) : e.op = "EVAL"
    PROVE  /\ IsFiniteSet(Shares(g, s)) /\ Cardinality(Shares(g, s)) = g.partyCnt
           /\ \A x \in Shares(g, s) : /\ x \in Ids(g) /\ PartyOf(g, Delivered(g, x)) \in Parties(g)
                                      /\ InDeg(g, x) # 0
           /\ \A x, y \in Shares(g, s) :
                 PartyOf(g, Delivered(g, x)) = PartyOf(g, Delivered(g, y)) => x = y
<1> DEFINE U == Users(g, s)
           N == g.partyCnt
           party == [x \in Ids(g) |-> PartyOf(g, Delivered(g, x))]
<1>1. Typed(g) /\ Synced(g)
  BY DEF Consistent
<1>2. /\ U \subseteq EdgesOf(g)
      /\ \A e \in U : e \in Edge(Ids(g)) /\ e.out \in Ids(g) /\ e \in g.inE[e.out] /\ s \in SrcsOf(e)
  BY <1>1, ListedEdges DEF Users, Synced
<1>3. IsFiniteSet(U)
  BY <1>1, <1>2, FiniteEdges, FS_Subset
<1>4. \A x \in Ids(g) : party[x] \in Parties(g)
  BY <1>1, DeliveredType DEF LaidOut
<1>5. \A e, f \in U : party[e.out] = party[f.out] => e = f
  BY <1>2 DEF RewritableSecret
<1>6. Cardinality(U) = N
  <2> DEFINE uses(e) == {e} \X {i \in DOMAIN e.ins : e.ins[i] = s}
             place == [e \in U |-> <<e, CHOOSE i \in DOMAIN e.ins : e.ins[i] = s>>]
  <2>1. ASSUME NEW e \in U PROVE uses(e) = {place[e]}
    <3>1. PICK i \in DOMAIN e.ins : e.ins[i] = s
      BY <1>2 DEF SrcsOf
    <3>2. \A j \in DOMAIN e.ins : e.ins[j] = s => j = i
      <4>1. e.op = "EVAL" /\ e \in EdgesOf(g)
        BY <1>2
      <4> QED BY <3>1, <4>1 DEF LaidOut
    <3>3. {j \in DOMAIN e.ins : e.ins[j] = s} = {i} /\ (CHOOSE j \in DOMAIN e.ins : e.ins[j] = s) = i
      BY <3>1, <3>2
    <3> QED BY <3>3
  <2>2. OutDeg(g, s) = Cardinality(UNION {uses(e) : e \in U})
    BY DEF OutDeg, Users
  <2> HIDE DEF uses
  <2>3. UNION {uses(e) : e \in U} = {place[e] : e \in U}
    BY <2>1
  <2>4. \A e, f \in U : place[e] = place[f] => e = f
    OBVIOUS
  <2> HIDE DEF place, U
  <2>5. Cardinality({place[e] : e \in U}) = Cardinality(U)
    BY <1>3, <2>4, MarkedApart
  <2> QED BY <2>2, <2>3, <2>5 DEF RewritableSecret
<1> DEFINE out == [e \in U |-> e.out]
<1>7. \A e, f \in U : out[e] = out[f] => e = f
  BY <1>5
<1>8. Shares(g, s) = {out[e] : e \in U}
  BY DEF Shares
<1>9. IsFiniteSet(Shares(g, s)) /\ Cardinality(Shares(g, s)) = N
  <2> HIDE DEF out, U
  <2> QED BY <1>3, <1>6, <1>7, <1>8, MarkedApart
<1>10. ASSUME NEW x \in Shares(g, s)
       PROVE  x \in Ids(g) /\ InDeg(g, x) # 0
  <2>1. PICK e \in U : x = e.out
    BY DEF Shares
  <2>2. x \in Ids(g) /\ g.inE[x] # {}
    BY <1>2, <2>1
  <2> QED BY <1>1, <2>2, NoInEdges DEF Typed
<1>11. ASSUME NEW x \in Shares(g, s), NEW y \in Shares(g, s), party[x] = party[y]
       PROVE  x = y
  <2>1. PICK e \in U : x = e.out
    BY DEF Shares
  <2>2. PICK f \in U : y = f.out
    BY DEF Shares
  <2> QED BY <1>5, <1>11, <2>1, <2>2
<1>12. \A x \in Shares(g, s) : party[x] = PartyOf(g, Delivered(g, x)) /\ party[x] \in Parties(g)
  BY <1>4, <1>10
<1> HIDE DEF party, U
<1> QED BY <1>9, <1>10, <1>11, <1>12 DEF N

\* A secret that is dealt: as many shares and coefficients become targets as there are
\* parties, when the source parties are T, or T + 1 with the secret a target, too.
LEMMA DealtTargets ==
    ASSUME NEW g, Consistent(g), LaidOut(g), Sized(g), NEW s \in Ids(g), NEW P \in SUBSET Parties(g),
           RewritableSecret(g, s, P), \A e \in Users(g, s) : e.op = "EVAL",
           NEW root, \/ root = {s} /\ Cardinality(P) = g.T
                     \/ root = {} /\ Cardinality(P) = g.T + 1 /\ InDeg(g, s) = 0
    PROVE  Cardinality(Targets(g, s, P, root)) = g.partyCnt
<1> DEFINE N == g.partyCnt
           T == g.T
           S == Shares(g, s)
           A == ({s} \ root) \cup Coefficients(g, s)
           W == S \ SourceShares(g, s, P)
           party == [x \in S |-> PartyOf(g, Delivered(g, x))]
<1>1. N \in Nat /\ T \in Nat /\ Parties(g) = 1 .. N
  BY DEF Sized, Parties
<1>2. /\ IsFiniteSet(S) /\ Cardinality(S) = N
      /\ \A x \in S : party[x] \in 1 .. N /\ InDeg(g, x) # 0
      /\ \A x, y \in S : party[x] = party[y] => x = y
  BY <1>1, DealtShares
<1>3. W = {x \in S : party[x] \notin P}
  BY DEF SourceShares
<1>4. IsFiniteSet(W) /\ Cardinality(W) = N - Cardinality(P)
  <2> HIDE DEF party, W, S, N
  <2>1. P \in SUBSET (1 .. N)
    BY <1>1
  <2>2. /\ IsFiniteSet({x \in S : party[x] \notin P})
        /\ Cardinality({x \in S : party[x] \notin P}) = N - Cardinality(P)
    BY <1>1, <1>2, <2>1, OnePerParty
  <2> QED BY <1>3, <2>2, Zenon
<1>5. Cardinality(Coefficients(g, s) \cup {s}) = T + 1 /\ s \notin Coefficients(g, s)
  <2>1. Cardinality(Coefficients(g, s) \cup {s}) = T + 1
    BY DEF RewritableSecret
  <2>2. s \notin Coefficients(g, s)
    <3> DEFINE inputs == UNION {SrcsOf(e) : e \in Users(g, s)}
    <3>1. Coefficients(g, s) = inputs \ {s}
      BY DEF Coefficients
    <3> HIDE DEF inputs
    <3> QED BY <3>1
  <2> QED BY <2>1, <2>2
<1>6. IsFiniteSet(Coefficients(g, s))
  <2>1. Coefficients(g, s) \in SUBSET Ids(g)
    BY ListedEdges DEF Coefficients, Users, Consistent
  <2> QED BY <2>1, FS_Subset DEF Consistent, Typed
<1>7. Cardinality(Coefficients(g, s)) = T /\ Cardinality(Coefficients(g, s)) \in Nat
  <2>1. Cardinality(Coefficients(g, s) \cup {s}) = Cardinality(Coefficients(g, s)) + 1
    BY <1>5, <1>6, FS_AddElement
  <2>2. Cardinality(Coefficients(g, s)) \in Nat
    BY <1>6, FS_CardinalityType
  <2> QED BY <1>1, <1>5, <2>1, <2>2
<1>8. /\ IsFiniteSet(A) /\ Cardinality(A) + N - Cardinality(P) = N
      /\ \A x \in A : InDeg(g, x) = 0
  <2>1. \A x \in Coefficients(g, s) : InDeg(g, x) = 0
    BY DEF RewritableSecret, IsRandomNode
  <2>2. CASE root = {s} /\ Cardinality(P) = g.T
    <3>1. A = Coefficients(g, s)
      BY <2>2
    <3> HIDE DEF A
    <3> QED BY <1>1, <1>6, <1>7, <2>1, <2>2, <3>1
  <2>3. CASE root = {} /\ Cardinality(P) = g.T + 1 /\ InDeg(g, s) = 0
    <3>1. A = Coefficients(g, s) \cup {s}
      BY <2>3
    <3>2. IsFiniteSet(A)
      BY <1>6, <3>1, FS_AddElement
    <3> HIDE DEF A
    <3> QED BY <1>1, <1>5, <2>1, <2>3, <3>1, <3>2
  <2> QED BY <2>2, <2>3
<1>9. A \cap W = {}
  BY <1>2, <1>8
<1>10. Targets(g, s, P, root) = A \cup W
  BY DEF Targets
<1> HIDE DEF A, W, S, party
<1>11. Cardinality(A \cup W) = Cardinality(A) + Cardinality(W) - Cardinality(A \cap W)
  BY <1>4, <1>8, FS_Union, Zenon
<1>12. Cardinality({}) = 0 /\ Cardinality(A) \in Nat /\ Cardinality(P) \in Nat
  <2>1. IsFiniteSet(1 .. N)
    BY <1>1, FirstNumbers, Zenon
  <2>2. IsFiniteSet(P)
    BY <1>1, <2>1, FS_Subset
  <2> QED BY <1>8, <2>2, FS_EmptySet, FS_CardinalityType
<1>13. Cardinality(A \cup W) = Cardinality(A) + (N - Cardinality(P)) - 0
  BY <1>4, <1>9, <1>11, <1>12, Zenon
<1>14. Cardinality(A \cup W) = N
  BY <1>1, <1>8, <1>12, <1>13
<1> QED BY <1>10, <1>14

\* A reconstruction: at most one of the shares that become targets did not come by
\* TRANSIT, so nearly every target brings an edge to turn.
LEMMA OpenedShares ==
    ASSUME NEW g, Consistent(g), LaidOut(g), Sized(g), NEW e \in Reconstructions(g),
           NEW P \in SUBSET Parties(g), Cardinality(P) \in {g.T, g.T + 1},
           RewritableReconstruction(g, e, P), NEW born
    PROVE  ReconstructionPlan(g, e, P, born).assertion
<1> DEFINE N == g.partyCnt
           T == g.T
           S == SrcsOf(e)
           at == [x \in S |-> PartyOf(g, Origin(g, x))]
           W == {x \in S : at[x] \notin P}
           turned == {x \in W : CameByTransit(g, x)}
           back == [x \in turned |-> TransitTo(g, x)]
           over == [x \in turned |-> NewEdge("TRANSIT", <<x>>, Origin(g, x), born)]
           srcs == {e.out} \cup {x \in S : at[x] \in P}
           eval == [x \in W |-> NewEdge("EVAL", ListOf(srcs), x, born)]
           del == {e} \cup {back[x] : x \in turned}
           add == {over[x] : x \in turned} \cup {eval[x] : x \in W}
<1>1. /\ N \in Nat /\ T \in Nat /\ Parties(g) = 1 .. N
      /\ Typed(g) /\ Synced(g) /\ EdgesShaped(g) /\ IsFiniteSet(Ids(g))
  BY DEF Sized, Parties, Consistent, Typed
<1>2. e \in EdgesOf(g) /\ e.op = "RECONSTRUCT"
  BY DEF Reconstructions
<1>3. e \in Edge(Ids(g)) /\ S \in SUBSET Ids(g) /\ e.ins \in Seq(Ids(g))
  BY <1>1, <1>2, GraphEdges DEF Edge
<1>4. Len(e.ins) = N /\ \A m, n \in S : PartyOf(g, m) = PartyOf(g, n)
  BY <1>2 DEF LaidOut
<1>5. IsFiniteSet(S) /\ Cardinality(S) = N
  <2> DEFINE in == [i \in 1 .. N |-> e.ins[i]]
  <2>1. DOMAIN e.ins = 1 .. N
    BY <1>3, <1>4
  <2>2. S = {in[i] : i \in 1 .. N}
    BY <2>1 DEF SrcsOf
  <2>3. \A i, j \in 1 .. N : in[i] = in[j] => i = j
    BY <2>1 DEF RewritableReconstruction
  <2>4. IsFiniteSet(1 .. N) /\ Cardinality(1 .. N) = N
    BY <1>1, FirstNumbers, Zenon
  <2> DEFINE places == 1 .. N
  <2> HIDE DEF in, S, N, places
  <2>5. IsFiniteSet(places) /\ \A i, j \in places : in[i] = in[j] => i = j
    BY <2>3, <2>4 DEF places
  <2>6. /\ IsFiniteSet({in[i] : i \in places})
        /\ Cardinality({in[i] : i \in places}) = Cardinality(places)
    BY <2>5, MarkedApart
  <2> QED BY <2>2, <2>4, <2>6, Zenon DEF places
<1>6. \A x \in S : at[x] \in 1 .. N
  BY <1>1, <1>3, OriginType DEF LaidOut
<1>7. \A x, y \in S : at[x] = at[y] => x = y
  <2> SUFFICES ASSUME NEW x \in S, NEW y \in S, at[x] = at[y] PROVE x = y
    OBVIOUS
  <2>1. PICK i \in DOMAIN e.ins : x = e.ins[i]
    BY DEF SrcsOf
  <2>2. PICK j \in DOMAIN e.ins : y = e.ins[j]
    BY DEF SrcsOf
  <2>3. i = j
    BY <2>1, <2>2 DEF RewritableReconstruction
  <2> QED BY <2>1, <2>2, <2>3
<1>8. IsFiniteSet(W) /\ Cardinality(W) = N - Cardinality(P)
  <2> HIDE DEF at, S, N
  <2>1. P \in SUBSET (1 .. N) /\ N \in Nat
    BY <1>1
  <2>2. /\ IsFiniteSet({x \in S : at[x] \notin P})
        /\ Cardinality({x \in S : at[x] \notin P}) = N - Cardinality(P)
    BY <1>5, <1>6, <1>7, <2>1, OnePerParty
  <2> QED BY <2>2
<1>9. IsFiniteSet(turned) /\ turned \in SUBSET W /\ Cardinality(turned) \in Nat
      /\ Cardinality(turned) >= Cardinality(W) - 1 /\ Cardinality(W) \in Nat
  <2>1. turned \in SUBSET W
    OBVIOUS
  <2>2. \A x, y \in W \ turned : x = y
    <3> SUFFICES ASSUME NEW x \in W \ turned, NEW y \in W \ turned PROVE x = y
      OBVIOUS
    <3>1. Origin(g, x) = x /\ Origin(g, y) = y
      BY DEF Origin
    <3>2. at[x] = at[y]
      BY <1>4, <3>1
    <3> QED BY <1>7, <3>2
  <2> HIDE DEF turned, W
  <2>3. IsFiniteSet(turned)
    BY <1>8, <2>1, FS_Subset
  <2>4. Cardinality(turned) \in Nat /\ Cardinality(W) \in Nat
    BY <1>8, <2>3, FS_CardinalityType
  <2>5. CASE W \ turned = {}
    <3>1. W = turned
      BY <2>1, <2>5
    <3> QED BY <2>1, <2>3, <2>4, <3>1
  <2>6. CASE W \ turned # {}
    <3>1. PICK x \in W \ turned : TRUE
      BY <2>6
    <3>2. W = turned \cup {x}
      BY <2>1, <2>2, <3>1
    <3>3. Cardinality(turned \cup {x}) = Cardinality(turned) + 1
      BY <2>3, <3>1, FS_AddElement
    <3> QED BY <2>1, <2>3, <2>4, <3>2, <3>3
  <2> QED BY <2>5, <2>6
<1>10. \A x \in turned : back[x].op = "TRANSIT" /\ back[x].out = x
  <2> SUFFICES ASSUME NEW x \in turned PROVE back[x].op = "TRANSIT" /\ back[x].out = x
    OBVIOUS
  <2>1. x \in Ids(g) /\ IsFiniteSet(g.inE[x])
    BY <1>1, <1>3 DEF Typed
  <2>2. PICK f \in g.inE[x] : f.op = "TRANSIT"
    BY DEF CameByTransit
  <2>3. g.inE[x] = {f}
    BY <2>1, <2>2, OnlyInEdge DEF CameByTransit
  <2>4. back[x] = f
    BY <2>3 DEF TransitTo
  <2> QED BY <1>1, <2>1, <2>2, <2>4 DEF Synced
<1>11. Cardinality(del) = Cardinality(turned) + 1
  <2> DEFINE B == {back[x] : x \in turned}
  <2>1. e \notin B
    BY <1>2, <1>10
  <2>2. \A x, y \in turned : back[x] = back[y] => x = y
    BY <1>10
  <2> HIDE DEF back, turned
  <2>3. IsFiniteSet(B) /\ Cardinality(B) = Cardinality(turned)
    BY <1>9, <2>2, MarkedApart
  <2>4. del = B \cup {e}
    OBVIOUS
  <2> HIDE DEF B, del
  <2>5. Cardinality(B \cup {e}) = Cardinality(B) + 1
    BY <2>1, <2>3, FS_AddElement
  <2> QED BY <2>3, <2>4, <2>5
<1>12. Cardinality(add) = Cardinality(turned) + Cardinality(W)
  <2> DEFINE B == {over[x] : x \in turned}
             D == {eval[x] : x \in W}
  <2>1. \A x \in turned : over[x].op = "TRANSIT" /\ over[x].ins = <<x>>
    BY DEF NewEdge
  <2>2. \A x \in W : eval[x].op = "EVAL" /\ eval[x].out = x
    BY DEF NewEdge
  <2>3. \A x, y \in turned : over[x] = over[y] => x = y
    <3>1. \A x, y : <<x>> = <<y>> => x = y
      OBVIOUS
    <3> HIDE DEF over
    <3> QED BY <2>1, <3>1
  <2>4. \A x, y \in W : eval[x] = eval[y] => x = y
    BY <2>2
  <2> HIDE DEF over, eval, turned, W
  <2>5. B \cap D = {}
    BY <2>1, <2>2
  <2>6. IsFiniteSet(B) /\ Cardinality(B) = Cardinality(turned)
    BY <1>9, <2>3, MarkedApart
  <2>7. IsFiniteSet(D) /\ Cardinality(D) = Cardinality(W)
    BY <1>8, <2>4, MarkedApart
  <2>8. add = B \cup D
    OBVIOUS
  <2> HIDE DEF B, D, add
  <2>9. Cardinality(B \cup D) = Cardinality(B) + Cardinality(D) - Cardinality(B \cap D)
    BY <2>6, <2>7, FS_Union, Zenon
  <2>10. Cardinality({}) = 0
    BY FS_EmptySet
  <2>11. Cardinality(add) = Cardinality(turned) + Cardinality(W) - 0
    BY <2>5, <2>6, <2>7, <2>8, <2>9, <2>10, Zenon
  <2> QED BY <1>9, <2>11
<1>13. /\ Cardinality(del) >= N - T - 1
       /\ Cardinality(add) >= 2 * (N - T - 1) - 1
  <2> HIDE DEF del, add, turned, W, N, T
  <2>1. Cardinality(P) = T \/ Cardinality(P) = T + 1
    BY DEF T
  <2>2. N \in Nat /\ T \in Nat
    BY <1>1
  <2>3. /\ Cardinality(turned) \in Nat /\ Cardinality(W) \in Nat
        /\ Cardinality(turned) >= Cardinality(W) - 1
    BY <1>9
  <2>4. Cardinality(W) = N - Cardinality(P)
    BY <1>8
  <2> QED BY <1>11, <1>12, <2>1, <2>2, <2>3, <2>4
<1>14. ReconstructionPlan(g, e, P, born).assertion
         = (/\ Len(e.ins) = N
            /\ Cardinality(del) >= N - T - 1
            /\ Cardinality(add) >= 2 * (N - T - 1) - 1)
  <2>1. {x \in S : at[x] \in P} = {x \in S : PartyOf(g, Origin(g, x)) \in P}
    OBVIOUS
  <2>2. W = S \ {x \in S : PartyOf(g, Origin(g, x)) \in P}
    OBVIOUS
  <2>3. del = {e} \cup {TransitTo(g, x) : x \in turned}
    OBVIOUS
  <2>4. /\ {over[x] : x \in turned} = {NewEdge("TRANSIT", <<x>>, Origin(g, x), born) : x \in turned}
        /\ {eval[x] : x \in W} = {NewEdge("EVAL", ListOf(srcs), x, born) : x \in W}
    OBVIOUS
  <2> QED BY <2>1, <2>2, <2>3, <2>4 DEF ReconstructionPlan
<1> QED BY <1>4, <1>13, <1>14

\* A graph of any search, as long as no node only looks like a dealt secret.
LEMMA AssertionsKept ==
    ASSUME NEW g, Consistent(g), LaidOut(g), Sized(g), ~LooksDealt(g),
           NEW r \in Rewriter, NEW born
    PROVE  AssertionsHold(g, r, born)
<1> DEFINE P == ThresholdParties(g)
           Q == ThresholdPartiesPlusOne(g)
<1>1. P \in SUBSET Parties(g) /\ Q \in SUBSET Parties(g)
      /\ Cardinality(P) = g.T /\ Cardinality(Q) = g.T + 1
  BY SourceParties
<1>2. \A e \in Reconstructions(g) : Len(e.ins) = g.partyCnt
  BY DEF Reconstructions, LaidOut
<1> HIDE DEF P, Q
<1>3. ASSUME NEW s \in Live(g), NEW R, RewritableSecret(g, s, R)
      PROVE  s \in Ids(g) /\ \A e \in Users(g, s) : e.op = "EVAL"
  <2>1. OutDeg(g, s) = g.partyCnt /\ \A e \in Users(g, s) : Len(e.ins) = g.T + 1
    BY <1>3 DEF RewritableSecret
  <2> QED BY <2>1 DEF LooksDealt, Live
<1>4. ASSUME NEW s \in Live(g), NEW R, NEW root, RewritableSecret(g, s, R),
             Cardinality(Targets(g, s, R, root)) = g.partyCnt
      PROVE  SharingPlan(g, s, R, root, born).assertion
  BY <1>3, <1>4 DEF SharingPlan, Targets
<1>5. ASSUME NEW p \in Plans(g, r, born) PROVE p.assertion
  <2>1. CASE r = 1
    <3>1. PICK e \in EdgesOf(g), alt \in {0, 1} : p = AdditionPlan(e, alt, born) /\ e.op = "ADD"
      BY <1>5, <2>1 DEF Plans, AdditionPlans
    <3> QED BY <3>1 DEF AdditionPlan, Consistent, EdgesShaped, WellShaped
  <2>2. CASE r = 2
    <3>1. PICK s \in Live(g) : p = SharingPlan(g, s, P, {s}, born) /\ RewritableSecret(g, s, P)
      BY <1>5, <2>2 DEF Plans, SharingPlans, P
    <3>2. Cardinality(Targets(g, s, P, {s})) = g.partyCnt
      BY <1>1, <1>3, <3>1, DealtTargets
    <3> QED BY <1>4, <3>1, <3>2
  <2>3. CASE r = 3
    <3>1. PICK s \in RandomNodes(g) : p = SharingPlan(g, s, Q, {}, born) /\ RewritableSecret(g, s, Q)
      BY <1>5, <2>3 DEF Plans, RandomSharingPlans, Q
    <3>2. s \in Live(g) /\ InDeg(g, s) = 0
      BY DEF RandomNodes, IsRandomNode
    <3>3. Cardinality(Targets(g, s, Q, {})) = g.partyCnt
      BY <1>1, <1>3, <3>1, <3>2, DealtTargets
    <3> QED BY <1>4, <3>1, <3>2, <3>3
  <2>4. CASE r = 4
    <3>1. PICK e \in Reconstructions(g) :
             p = ReconstructionPlan(g, e, P, born) /\ RewritableReconstruction(g, e, P)
      BY <1>5, <2>4 DEF Plans, ReconstructionPlans, P
    <3> QED BY <1>1, <3>1, OpenedShares
  <2>5. CASE r = 5
    <3>1. PICK e \in Reconstructions(g) :
             p = ReconstructionPlan(g, e, Q, born) /\ RewritableReconstruction(g, e, Q)
      BY <1>5, <2>5 DEF Plans, ReconstructionPlans, Q
    <3> QED BY <1>1, <3>1, OpenedShares
  <2> QED BY <2>1, <2>2, <2>3, <2>4, <2>5 DEF Rewriter
<1> QED BY <1>2, <1>5 DEF AssertionsHold

-----------------------------------------------------------------------------
(* The choice of the next graph.                                           *)

\* The layout and the numbers of g are those of h.
SameLayout(g, h) ==
    /\ h.partyCnt = g.partyCnt /\ h.T = g.T
    /\ LaidOut(g) => LaidOut(h)

\* What a search may replace g by.
Improved(g, h) ==
    /\ Consistent(h) /\ h.nodes = g.nodes /\ h.corrupted = g.corrupted
    /\ h.rnd = g.rnd /\ Less(Potential(h), Potential(g))
    /\ SameLayout(g, h)

LEMMA ResultConsistent ==
    ASSUME NEW g, Consistent(g), NEW r \in Rewriter, NEW born \in Nat, NEW res \in Results(g, r, born)
    PROVE  /\ Consistent(res.graph) /\ res.graph.nodes = g.nodes
           /\ res.graph.corrupted = g.corrupted /\ res.graph.rnd = g.rnd
           /\ res.rank = Potential(res.graph) /\ SameLayout(g, res.graph)
<1>1. PICK p \in Plans(g, r, born) :
          /\ res.graph = Rewritten(g, p) /\ res.rank = Potential(Rewritten(g, p))
          /\ res.graph.rnd = g.rnd
  BY DEF Results
<1>2. PlanFits(g, p)
  BY PlansFit DEF Consistent
<1> DEFINE h == Rewritten(g, p)
<1>3. Consistent(h) /\ h.nodes = g.nodes /\ h.corrupted = g.corrupted /\ Kept(g, h, p.add)
  BY <1>2, RewrittenConsistent
<1> HIDE DEF h
<1>4. \A e \in p.add : LaidOutEdge(e)
  BY PlansLaidOut DEF Consistent
<1>5. SameLayout(g, h)
  BY <1>3, <1>4, StaysLaidOut DEF SameLayout, Kept
<1> QED BY <1>1, <1>3, <1>5 DEF h

\* Of any results, one is listed before all others.
LEMMA FirstListed ==
    ASSUME NEW g, Consistent(g), NEW r \in Rewriter, NEW born \in Nat,
           NEW R \in SUBSET Results(g, r, born), R # {}
    PROVE  \E p \in R : \A q \in R : ~Precedes(q, p)
<1>1. \A p \in R : p.node \in Nat /\ p.alt \in {0, 1}
  <2> SUFFICES ASSUME NEW p \in R PROVE p.node \in Nat /\ p.alt \in {0, 1}
    OBVIOUS
  <2>1. PICK plan \in Plans(g, r, born) : p.node = plan.node /\ p.alt = plan.alt
    BY DEF Results
  <2>2. plan.node \in Ids(g) /\ plan.alt \in {0, 1}
    BY PlansFit DEF Consistent, PlanFits
  <2> QED BY <2>1, <2>2 DEF Consistent, Typed
<1> DEFINE keys == {2 * p.node + p.alt : p \in R}
<1>2. keys \in SUBSET Nat /\ keys # {}
  BY <1>1
<1>3. PICK m \in keys : \A k \in keys : m <= k
  <2> HIDE DEF keys
  <2> QED BY <1>2, Least
<1>4. PICK p \in R : m = 2 * p.node + p.alt
  OBVIOUS
<1>5. ASSUME NEW q \in R PROVE ~Precedes(q, p)
  <2>1. 2 * p.node + p.alt <= 2 * q.node + q.alt
    BY <1>3, <1>4
  <2> QED BY <1>1, <2>1 DEF Precedes
<1> QED BY <1>5

\* One rewriter's turn in the loop: the results it may take, and what it leaves.
Better(g, considered, born, best, r) ==
    {res \in Results(g, r, born) : Less(res.rank, best.rank) /\ Seen(res.graph) \notin considered}
Turn(g, considered, born, best, r) ==
    LET better == Better(g, considered, born, best, r)
    IN IF better = {} THEN best
       ELSE CHOOSE p \in better : \A q \in better : ~Precedes(q, p)

\* What the loop starts from, and what it has after some turns.
StartOf(g) == [graph |-> g, rank |-> Potential(g)]
Best(g, best) == best = StartOf(g) \/ (best.rank = Potential(best.graph) /\ Improved(g, best.graph))

LEMMA ChosenByTurns ==
    ASSUME NEW g, NEW considered, NEW born
    PROVE  \E b0, b1, b2, b3, b4, b5 :
              /\ b0 = StartOf(g)
              /\ b1 = Turn(g, considered, born, b0, 1) /\ b2 = Turn(g, considered, born, b1, 2)
              /\ b3 = Turn(g, considered, born, b2, 3) /\ b4 = Turn(g, considered, born, b3, 4)
              /\ b5 = Turn(g, considered, born, b4, 5)
              /\ Chosen(g, considered, born) = b5.graph
<1> DEFINE start == [graph |-> g, rank |-> Potential(g)]
           better(best, r) == {res \in Results(g, r, born) : /\ Less(res.rank, best.rank)
                                                             /\ Seen(res.graph) \notin considered}
           turn(best, r) == IF better(best, r) = {} THEN best
                            ELSE CHOOSE p \in better(best, r) :
                                    \A q \in better(best, r) : ~Precedes(q, p)
<1>1. Chosen(g, considered, born) = turn(turn(turn(turn(turn(start, 1), 2), 3), 4), 5).graph
  BY Zenon DEF Chosen
<1>2. \A b, r : turn(b, r) = Turn(g, considered, born, b, r)
  BY DEF Turn, Better
<1>3. start = StartOf(g)
  BY DEF StartOf
<1> HIDE DEF start, better, turn
<1> QED BY <1>1, <1>2, <1>3

\* A turn that finds something takes an improvement.
LEMMA TurnImproves ==
    ASSUME NEW g, Consistent(g), NEW considered, NEW born \in Nat,
           NEW best, Best(g, best), NEW r \in Rewriter
    PROVE  LET next == Turn(g, considered, born, best, r)
               better == Better(g, considered, born, best, r)
           IN /\ better = {} => next = best
              /\ better # {} => next.rank = Potential(next.graph) /\ Improved(g, next.graph)
              /\ Best(g, next)
<1> DEFINE better == Better(g, considered, born, best, r)
           next == Turn(g, considered, born, best, r)
<1>1. CASE better = {}
  <2>1. next = best
    BY <1>1 DEF Turn
  <2> QED BY <1>1, <2>1
<1>2. CASE better # {}
  <2>1. better \in SUBSET Results(g, r, born)
    BY DEF Better
  <2>2. next \in better
    <3>1. \E p \in better : \A q \in better : ~Precedes(q, p)
      <4> HIDE DEF better
      <4> QED BY <1>2, <2>1, FirstListed
    <3>2. next = CHOOSE p \in better : \A q \in better : ~Precedes(q, p)
      BY <1>2 DEF Turn
    <3> HIDE DEF better, next
    <3> QED BY <3>1, <3>2
  <2>3. next \in Results(g, r, born) /\ Less(next.rank, best.rank)
    <3> HIDE DEF next
    <3> QED BY <2>2 DEF Better
  <2> HIDE DEF next
  <2> DEFINE h == next.graph
  <2>4. /\ Consistent(h) /\ h.nodes = g.nodes /\ h.corrupted = g.corrupted /\ h.rnd = g.rnd
        /\ next.rank = Potential(h) /\ SameLayout(g, h)
    BY <2>3, ResultConsistent
  <2>5. Less(Potential(h), Potential(g))
    <3>1. CASE best = StartOf(g)
      BY <2>3, <2>4, <3>1 DEF StartOf
    <3>2. CASE best.rank = Potential(best.graph) /\ Improved(g, best.graph)
      <4>1. Less(Potential(h), Potential(best.graph)) /\ Less(Potential(best.graph), Potential(g))
        BY <2>3, <2>4, <3>2 DEF Improved
      <4>2. Typed(h) /\ Typed(best.graph) /\ Typed(g)
        BY <2>4, <3>2 DEF Improved, Consistent
      <4> HIDE DEF h
      <4>3. \A i \in 1 .. 4 : /\ Potential(h)[i] \in Int /\ Potential(best.graph)[i] \in Int
                             /\ Potential(g)[i] \in Int
        BY <4>2, PotentialTyped
      <4> QED BY <4>1, <4>3, LessTransitive
    <3> QED BY <3>1, <3>2 DEF Best
  <2>6. Improved(g, h)
    BY <2>4, <2>5 DEF Improved
  <2>7. next.rank = Potential(next.graph) /\ Improved(g, next.graph)
    BY <2>4, <2>6
  <2> QED BY <1>2, <2>7 DEF next, Best
<1> QED BY <1>1, <1>2

\* The loop over the rewriters keeps g or an improvement of it.
LEMMA ChosenImproves ==
    ASSUME NEW g, Consistent(g), NEW considered, NEW born \in Nat
    PROVE  LET h == Chosen(g, considered, born) IN h = g \/ Improved(g, h)
<1>1. PICK b0, b1, b2, b3, b4, b5 :
         /\ b0 = StartOf(g)
         /\ b1 = Turn(g, considered, born, b0, 1) /\ b2 = Turn(g, considered, born, b1, 2)
         /\ b3 = Turn(g, considered, born, b2, 3) /\ b4 = Turn(g, considered, born, b3, 4)
         /\ b5 = Turn(g, considered, born, b4, 5)
         /\ Chosen(g, considered, born) = b5.graph
  BY ChosenByTurns
<1>2. \A b : \A r \in {1, 2, 3, 4, 5} : Best(g, b) => Best(g, Turn(g, considered, born, b, r))
  BY TurnImproves DEF Rewriter
<1>3. Best(g, b0)
  BY <1>1 DEF Best
<1>4. Best(g, b1) /\ Best(g, b2) /\ Best(g, b3) /\ Best(g, b4) /\ Best(g, b5)
  BY <1>1, <1>2, <1>3
<1> QED BY <1>1, <1>4 DEF Best, StartOf

LEMMA NotLessThanItself ==
    ASSUME NEW p, \A i \in 1 .. 4 : p[i] \in Int
    PROVE  ~Less(p, p)
  BY DEF Less

\* The loop keeps g exactly when no rewriter has an improvement that the cache lets pass.
LEMMA ChosenKeeps ==
    ASSUME NEW g, Consistent(g), NEW considered, NEW born \in Nat
    PROVE  Chosen(g, considered, born) = g
              <=> \A res \in Improvements(g, born) : Seen(res.graph) \in considered
<1>1. PICK b0, b1, b2, b3, b4, b5 :
         /\ b0 = StartOf(g)
         /\ b1 = Turn(g, considered, born, b0, 1) /\ b2 = Turn(g, considered, born, b1, 2)
         /\ b3 = Turn(g, considered, born, b2, 3) /\ b4 = Turn(g, considered, born, b3, 4)
         /\ b5 = Turn(g, considered, born, b4, 5)
         /\ Chosen(g, considered, born) = b5.graph
  BY ChosenByTurns
<1> DEFINE start == StartOf(g)
           Found(b) == b.rank = Potential(b.graph) /\ Improved(g, b.graph)
           Fresh(r) == Better(g, considered, born, start, r)
<1>2. ASSUME NEW b, b = start \/ Found(b), NEW r \in {1, 2, 3, 4, 5}
      PROVE  LET n == Turn(g, considered, born, b, r)
             IN /\ n = start \/ Found(n)
                /\ Found(b) => Found(n)
                /\ Fresh(r) # {} => Found(n)
                /\ Fresh(r) = {} /\ b = start => n = start
  <2>1. Best(g, b) /\ r \in Rewriter
    BY <1>2 DEF Best, Rewriter
  <2>2. Better(g, considered, born, b, r) = {} => Turn(g, considered, born, b, r) = b
    BY <2>1, TurnImproves
  <2>3. Better(g, considered, born, b, r) # {} => Found(Turn(g, considered, born, b, r))
    BY <2>1, TurnImproves
  <2> HIDE DEF Found, start
  <2> QED BY <1>2, <2>2, <2>3
<1>3. \A res : res \in Improvements(g, born)
                  <=> \E r \in {1, 2, 3, 4, 5} : res \in Results(g, r, born) /\ Less(res.rank, Potential(g))
  BY DEF Improvements, Rewriter
<1>4. \A r : Fresh(r) = {res \in Results(g, r, born) : Less(res.rank, Potential(g))
                                                       /\ Seen(res.graph) \notin considered}
  BY DEF Better, StartOf
<1>5. (\A res \in Improvements(g, born) : Seen(res.graph) \in considered)
         <=> \A r \in {1, 2, 3, 4, 5} : Fresh(r) = {}
  <2> HIDE DEF Fresh
  <2> QED BY <1>3, <1>4
<1>6. ~Found(start)
  <2>1. Typed(g)
    BY DEF Consistent
  <2>2. ~Less(Potential(g), Potential(g))
    BY <2>1, PotentialTyped, NotLessThanItself
  <2> QED BY <2>2 DEF Improved, StartOf
<1>7. Found(b5) => b5.graph # g
  BY <1>6 DEF StartOf, Improved
<1>8. b0 = start /\ start.graph = g
  BY <1>1 DEF StartOf
<1> HIDE DEF Found, start, Fresh
<1>9. CASE \A r \in {1, 2, 3, 4, 5} : Fresh(r) = {}
  <2>1. b1 = start /\ b2 = start /\ b3 = start /\ b4 = start /\ b5 = start
    BY <1>1, <1>2, <1>8, <1>9
  <2> QED BY <1>1, <1>5, <1>8, <1>9, <2>1
<1>10. CASE \E r \in {1, 2, 3, 4, 5} : Fresh(r) # {}
  <2>1. /\ b1 = start \/ Found(b1)
        /\ b2 = start \/ Found(b2)
        /\ b3 = start \/ Found(b3)
        /\ b4 = start \/ Found(b4)
    BY <1>1, <1>2, <1>8
  <2>2. /\ Found(b1) => Found(b2)
        /\ Found(b2) => Found(b3)
        /\ Found(b3) => Found(b4)
        /\ Found(b4) => Found(b5)
    BY <1>1, <1>2, <2>1
  <2>3. /\ Fresh(1) # {} => Found(b1)
        /\ Fresh(2) # {} => Found(b2)
        /\ Fresh(3) # {} => Found(b3)
        /\ Fresh(4) # {} => Found(b4)
        /\ Fresh(5) # {} => Found(b5)
    BY <1>1, <1>2, <1>8, <2>1
  <2>4. Found(b5)
    BY <1>10, <2>2, <2>3
  <2> QED BY <1>1, <1>5, <1>7, <1>10, <2>4
<1> QED BY <1>9, <1>10

-----------------------------------------------------------------------------
(* The start graphs.                                                       *)

\* A choice and the parties still to be taken.
Within(P, quota, c) ==
    /\ c.corrupted \subseteq P
    /\ quota \in Nat /\ IsFiniteSet(P) /\ P \subseteq Nat
         => c.left \in Nat /\ Cardinality(c.corrupted) + c.left <= quota

\* What is taken of a class is subtracted from the quota.
LEMMA ExtendedWithin ==
    ASSUME NEW P, NEW quota, NEW b, Within(P, quota, b), NEW class \in SUBSET P,
           NEW i \in Counts(class, b.left)
    PROVE  Within(P, quota, Extended(b, class, i))
<1> DEFINE F == First(class, i)
<1>1. /\ Extended(b, class, i).corrupted = b.corrupted \cup F
      /\ Extended(b, class, i).left = Unsigned(b.left - i)
  BY DEF Extended
<1>2. F \in SUBSET class /\ b.corrupted \subseteq P
  BY DEF First, Within
<1>3. ASSUME quota \in Nat, IsFiniteSet(P), P \subseteq Nat
      PROVE  /\ Unsigned(b.left - i) \in Nat
             /\ Cardinality(b.corrupted \cup F) + Unsigned(b.left - i) <= quota
  <2>1. b.left \in Nat /\ Cardinality(b.corrupted) + b.left <= quota
    BY <1>3 DEF Within
  <2>2. IsFiniteSet(class) /\ class \in SUBSET Nat
    BY <1>3, FS_Subset
  <2>3. i \in 0 .. Cardinality(class) /\ Cardinality(class) \in Nat
    BY <2>2, FS_CardinalityType DEF Counts
  <2>4. i <= b.left
    <3> SUFFICES ASSUME ~(i <= b.left) PROVE FALSE
      OBVIOUS
    <3>1. b.left + 1 \in 1 .. i /\ (b.left + 1) - 1 = b.left
      BY <2>1, <2>3
    <3> QED BY <3>1 DEF Counts
  <2>5. Cardinality(F) = i
    BY <2>2, <2>3, FirstSize
  <2>6. IsFiniteSet(b.corrupted) /\ IsFiniteSet(F)
    <3>1. b.corrupted \in SUBSET P /\ F \in SUBSET P
      BY <1>2
    <3> HIDE DEF F
    <3> QED BY <1>3, <3>1, FS_Subset
  <2> HIDE DEF F
  <2>7. /\ Cardinality(b.corrupted) \in Nat /\ Cardinality(b.corrupted \cap F) \in Nat
        /\ Cardinality(b.corrupted \cup F) \in Nat
    <3>1. b.corrupted \cap F \in SUBSET F
      OBVIOUS
    <3>2. IsFiniteSet(b.corrupted \cap F)
      BY <2>6, <3>1, FS_Subset
    <3>3. IsFiniteSet(b.corrupted \cup F)
      BY <2>6, FS_Union, Zenon
    <3> QED BY <2>6, <3>2, <3>3, FS_CardinalityType
  <2>8. Cardinality(b.corrupted \cup F)
          = Cardinality(b.corrupted) + Cardinality(F) - Cardinality(b.corrupted \cap F)
    BY <2>6, FS_Union, Zenon
  <2>9. \A n \in Nat : n % 65536 \in Nat /\ n % 65536 <= n
    OBVIOUS
  <2>10. Unsigned(b.left - i) \in Nat /\ Unsigned(b.left - i) <= b.left - i
    <3>1. b.left - i \in Nat
      BY <2>1, <2>3, <2>4
    <3> QED BY <2>9, <3>1 DEF Unsigned, UnsignedMax
  <2> QED BY <1>3, <2>1, <2>3, <2>5, <2>7, <2>8, <2>10
<1> HIDE DEF F
<1> QED BY <1>1, <1>2, <1>3 DEF Within

\* The corrupted parties of a start graph are members of the classes, and no more than
\* the quota.
LEMMA PossibleParties ==
    ASSUME NEW P, NEW classes \in Seq(SUBSET P), NEW quota, NEW strict
    PROVE  \A C \in PossibleSets(classes, quota, strict) :
              /\ C \subseteq P
              /\ quota \in Nat /\ IsFiniteSet(P) /\ P \subseteq Nat => Cardinality(C) <= quota
<1> DEFINE n == Len(classes)
           after(C, k) == UNION {{Extended(c, classes[k], i) : i \in Counts(classes[k], c.left)} : c \in C}
           next(f, k) == IF k = 0 THEN {NoChoice(quota)} ELSE after(f[k - 1], k)
           Calls(k, f) == f = [i \in 0 .. k |-> next(f, i)]
           Bad == {k \in Nat : ~\E f : Calls(k, f)}
<1>1. n \in Nat
  OBVIOUS
<1>2. Bad = {}
  <2> SUFFICES ASSUME Bad # {} PROVE FALSE
    OBVIOUS
  <2>1. PICK k \in Bad : \A j \in Bad : k <= j
    <3> HIDE DEF Bad
    <3>1. Bad \in SUBSET Nat
      BY DEF Bad
    <3> QED BY <3>1, Least
  <2> HIDE DEF after
  <2>2. k # 0
    <3> SUFFICES \E f : Calls(0, f)
      OBVIOUS
    <3>1. Calls(0, [i \in 0 .. 0 |-> {NoChoice(quota)}])
      OBVIOUS
    <3> QED BY <3>1
  <2>3. PICK f : Calls(k - 1, f)
    <3>1. k - 1 \in Nat /\ ~(k <= k - 1)
      BY <2>2
    <3>2. k - 1 \notin Bad
      <4> HIDE DEF Bad
      <4> QED BY <2>1, <3>1
    <3> QED BY <3>1, <3>2
  <2> DEFINE h == [i \in 0 .. k |-> IF i = k THEN next(f, k) ELSE f[i]]
  <2>4. ASSUME NEW i \in 0 .. k PROVE h[i] = next(h, i)
    <3>1. i # 0 => h[i - 1] = f[i - 1]
      OBVIOUS
    <3>2. next(h, i) = next(f, i)
      <4> HIDE DEF h
      <4> QED BY <3>1
    <3>3. i # k => f[i] = next(f, i)
      <4>1. f = [j \in 0 .. k - 1 |-> next(f, j)]
        BY <2>3
      <4> HIDE DEF next, Bad, h, Calls
      <4>2. \A j \in 0 .. k - 1 : f[j] = next(f, j)
        BY <4>1
      <4>3. k \in Nat
        BY DEF Bad
      <4> QED BY <4>2, <4>3
    <3>4. h[i] = next(f, i)
      <4> HIDE DEF next
      <4> QED BY <3>3
    <3> QED BY <3>2, <3>4
  <2>5. Calls(k, h)
    <3>1. h = [i \in 0 .. k |-> h[i]]
      OBVIOUS
    <3> HIDE DEF h, next
    <3> QED BY <2>4, <3>1
  <2> QED BY <2>1, <2>5
<1> DEFINE f == CHOOSE x : Calls(n, x)
           AllWithin(C) == \A c \in C : Within(P, quota, c)
<1>3. Calls(n, f)
  <2> HIDE DEF Calls, n
  <2>1. \E x : Calls(n, x)
    BY <1>1, <1>2
  <2> QED BY <2>1
<1>4. f = [i \in 0 .. n |-> next(f, i)]
  BY <1>3
<1>5. PossibleSets(classes, quota, strict) = {c.corrupted : c \in {d \in f[n] : IsPossible(d, strict)}}
  BY DEF PossibleSets
<1> HIDE DEF f, Calls, Bad
<1>6. \A k \in 0 .. n : AllWithin(f[k])
  <2> DEFINE Wrong == {k \in 0 .. n : ~AllWithin(f[k])}
  <2> SUFFICES ASSUME Wrong # {} PROVE FALSE
    OBVIOUS
  <2>1. PICK k \in Wrong : \A j \in Wrong : k <= j
    <3> HIDE DEF Wrong
    <3>1. Wrong \in SUBSET Nat
      BY DEF Wrong
    <3> QED BY <3>1, Least
  <2>2. k \in 0 .. n /\ ~AllWithin(f[k])
    OBVIOUS
  <2>3. f[k] = next(f, k)
    <3> HIDE DEF next
    <3> QED BY <1>4, <2>2
  <2>4. k # 0
    <3>1. ASSUME quota \in Nat PROVE Cardinality({}) + quota <= quota
      BY <3>1, FS_EmptySet
    <3>2. Within(P, quota, NoChoice(quota))
      BY <3>1 DEF NoChoice, Within
    <3> QED BY <2>2, <2>3, <3>2
  <2>5. AllWithin(f[k - 1])
    <3>1. k - 1 \in 0 .. n /\ ~(k <= k - 1)
      BY <2>2, <2>4
    <3> HIDE DEF AllWithin
    <3> QED BY <2>1, <3>1
  <2>6. f[k] = after(f[k - 1], k) /\ classes[k] \subseteq P
    BY <2>2, <2>3, <2>4
  <2>7. ASSUME NEW c \in f[k] PROVE Within(P, quota, c)
    <3>1. PICK b \in f[k - 1] : \E i \in Counts(classes[k], b.left) : c = Extended(b, classes[k], i)
      BY <2>6
    <3>2. PICK i \in Counts(classes[k], b.left) : c = Extended(b, classes[k], i)
      BY <3>1
    <3> QED BY <2>5, <2>6, <3>2, ExtendedWithin
  <2> QED BY <2>2, <2>7
<1>7. AllWithin(f[n])
  BY <1>1, <1>6
<1>8. ASSUME NEW c \in f[n], quota \in Nat, IsFiniteSet(P), P \subseteq Nat
      PROVE  Cardinality(c.corrupted) <= quota
  <2>1. c.left \in Nat /\ Cardinality(c.corrupted) + c.left <= quota /\ c.corrupted \in SUBSET P
    BY <1>7, <1>8 DEF Within
  <2>2. Cardinality(c.corrupted) \in Nat
    BY <1>8, <2>1, FS_Subset, FS_CardinalityType
  <2> QED BY <1>8, <2>1, <2>2
<1>9. \A c \in f[n] : c.corrupted \subseteq P
  BY <1>7 DEF Within
<1> QED BY <1>5, <1>8, <1>9

-----------------------------------------------------------------------------
(* The breadth-first search from the corrupted parties' nodes.             *)

Seeds(g) == {n \in Live(g) : IsCorrupted(g, n)}

\* The nodes that the nodes of X are computed from.
Sources(g, X) == UNION {SrcsOf(e) : e \in UNION {g.inE[n] : n \in X}}

\* f[k] is what is reached in k rounds.
Rounds(g, f) ==
    f = [k \in Nat |-> IF k = 0 THEN Seeds(g) ELSE Seeds(g) \cup Sources(g, f[k - 1])]

LEMMA RoundsExist ==
    ASSUME NEW g
    PROVE  \E f : Rounds(g, f)
<1> DEFINE next(f, k) == IF k = 0 THEN Seeds(g) ELSE Seeds(g) \cup Sources(g, f[k - 1])
           Partial(k, f) == f = [i \in 0 .. k |-> next(f, i)]
           Bad == {k \in Nat : ~\E f : Partial(k, f)}
<1>1. Bad = {}
  <2> SUFFICES ASSUME Bad # {} PROVE FALSE
    OBVIOUS
  <2>1. PICK k \in Bad : \A j \in Bad : k <= j
    <3> HIDE DEF Bad
    <3>1. Bad \in SUBSET Nat
      BY DEF Bad
    <3> QED BY <3>1, Least
  <2>2. k # 0
    <3> SUFFICES \E f : Partial(0, f)
      OBVIOUS
    <3>1. Partial(0, [i \in 0 .. 0 |-> Seeds(g)])
      OBVIOUS
    <3> QED BY <3>1
  <2>3. PICK f : Partial(k - 1, f)
    <3>1. k - 1 \in Nat /\ ~(k <= k - 1)
      BY <2>2
    <3>2. k - 1 \notin Bad
      <4> HIDE DEF Bad
      <4> QED BY <2>1, <3>1
    <3> QED BY <3>1, <3>2
  <2> DEFINE h == [i \in 0 .. k |-> IF i = k THEN next(f, k) ELSE f[i]]
  <2>4. ASSUME NEW i \in 0 .. k PROVE h[i] = next(h, i)
    <3>1. i # 0 => h[i - 1] = f[i - 1]
      OBVIOUS
    <3>2. next(h, i) = next(f, i)
      <4> HIDE DEF h
      <4> QED BY <3>1
    <3>3. i # k => f[i] = next(f, i)
      <4>1. f = [j \in 0 .. k - 1 |-> next(f, j)]
        BY <2>3
      <4> HIDE DEF next, Bad, h, Partial
      <4>2. \A j \in 0 .. k - 1 : f[j] = next(f, j)
        BY <4>1
      <4>3. k \in Nat
        BY DEF Bad
      <4> QED BY <4>2, <4>3
    <3>4. h[i] = next(f, i)
      <4> HIDE DEF next
      <4> QED BY <3>3
    <3> QED BY <3>2, <3>4
  <2>5. Partial(k, h)
    <3>1. h = [i \in 0 .. k |-> h[i]]
      OBVIOUS
    <3> HIDE DEF h, next
    <3> QED BY <2>4, <3>1
  <2> QED BY <2>1, <2>5
<1> DEFINE part(k) == CHOOSE f : Partial(k, f)
<1>2. ASSUME NEW k \in Nat PROVE Partial(k, part(k))
  <2> HIDE DEF Partial
  <2> QED BY <1>1
<1>3. ASSUME NEW k \in Nat, NEW i \in 0 .. k PROVE part(k)[i] = next(part(k), i)
  <2>1. part(k) = [j \in 0 .. k |-> next(part(k), j)]
    BY <1>2
  <2> HIDE DEF part, next, Bad, Partial
  <2>2. \A j \in 0 .. k : part(k)[j] = next(part(k), j)
    BY <2>1
  <2> QED BY <2>2
<1> HIDE DEF part, Partial, Bad
<1>4. \A i \in Nat : \A k \in Nat : i <= k => part(k)[i] = part(i)[i]
  <2> DEFINE Differ == {i \in Nat : \E k \in Nat : i <= k /\ part(k)[i] # part(i)[i]}
  <2> SUFFICES ASSUME Differ # {} PROVE FALSE
    OBVIOUS
  <2>1. PICK i \in Differ : \A j \in Differ : i <= j
    <3> HIDE DEF Differ
    <3>1. Differ \in SUBSET Nat
      BY DEF Differ
    <3> QED BY <3>1, Least
  <2>2. PICK k \in Nat : i <= k /\ part(k)[i] # part(i)[i]
    OBVIOUS
  <2>3. part(k)[i] = next(part(k), i) /\ part(i)[i] = next(part(i), i)
    <3>1. i \in 0 .. k /\ i \in 0 .. i /\ i \in Nat
      BY <2>2
    <3> HIDE DEF next, Differ
    <3> QED BY <1>3, <3>1
  <2>4. i # 0
    BY <2>2, <2>3
  <2>5. part(k)[i - 1] = part(i)[i - 1]
    <3>1. i - 1 \in Nat /\ ~(i <= i - 1) /\ i - 1 <= k /\ i - 1 <= i /\ i \in Nat
      BY <2>2, <2>4
    <3>2. i - 1 \notin Differ
      <4> HIDE DEF Differ
      <4> QED BY <2>1, <3>1
    <3>3. part(k)[i - 1] = part(i - 1)[i - 1] /\ part(i)[i - 1] = part(i - 1)[i - 1]
      BY <2>2, <3>1, <3>2
    <3> QED BY <3>3
  <2> QED BY <2>2, <2>3, <2>4, <2>5
<1> DEFINE f == [k \in Nat |-> part(k)[k]]
<1>5. ASSUME NEW k \in Nat PROVE f[k] = next(f, k)
  <2>1. f[k] = next(part(k), k)
    <3>1. f[k] = part(k)[k] /\ k \in 0 .. k
      OBVIOUS
    <3> HIDE DEF f, next
    <3> QED BY <1>3, <3>1
  <2>2. k # 0 => f[k - 1] = part(k)[k - 1]
    <3> SUFFICES ASSUME k # 0 PROVE f[k - 1] = part(k)[k - 1]
      OBVIOUS
    <3>1. k - 1 \in Nat /\ k - 1 <= k
      OBVIOUS
    <3>2. part(k)[k - 1] = part(k - 1)[k - 1]
      BY <1>4, <3>1
    <3> QED BY <3>1, <3>2
  <2> HIDE DEF f
  <2> QED BY <2>1, <2>2
<1>6. f = [k \in Nat |-> f[k]]
  OBVIOUS
<1> HIDE DEF f
<1> QED BY <1>5, <1>6 DEF Rounds

LEMMA ReachByRounds ==
    ASSUME NEW g
    PROVE  \E f : Rounds(g, f) /\ ReachCorrupted(g) = f[Cardinality(Ids(g))]
<1> DEFINE f == CHOOSE x : Rounds(g, x)
<1>1. ReachCorrupted(g) = f[Cardinality(Ids(g))]
  BY DEF ReachCorrupted, Rounds, Seeds, Sources
<1>2. Rounds(g, f)
  BY RoundsExist
<1> QED BY <1>1, <1>2

\* An honest node without users is not reached, and without it the same nodes are.
LEMMA TailNotReached ==
    ASSUME NEW g, Typed(g), Synced(g), NEW n \in Tails(g)
    PROVE  LET h == EliminateNode(g, n)
           IN /\ ReachCorrupted(h) = ReachCorrupted(g) /\ n \notin ReachCorrupted(g)
              /\ \A m \in ReachCorrupted(g) : h.inE[m] = g.inE[m]
<1> DEFINE h == EliminateNode(g, n)
<1>1. n \in Live(g) /\ n \in Ids(g) /\ g.outE[n] = {} /\ ~IsCorrupted(g, n)
  BY DEF Tails, Live
<1>2. /\ Ids(h) = Ids(g) /\ Live(h) = Live(g) \ {n} /\ h.corrupted = g.corrupted
      /\ \A m \in Ids(g) \ {n} : h.nodes[m] = g.nodes[m] /\ h.inE[m] = g.inE[m]
  <2>1. Ids(h) = Ids(g) /\ Live(h) = Live(g) \ {n}
    BY <1>1, EliminateTailNode
  <2>2. /\ h.corrupted = g.corrupted
        /\ h.nodes = [m \in Ids(g) |-> IF m = n THEN NullNode ELSE g.nodes[m]]
        /\ h.inE = [m \in Ids(g) |-> IF m = n THEN {} ELSE g.inE[m] \ g.outE[n]]
    BY DEF EliminateNode, Changed, Graph
  <2> HIDE DEF h
  <2> QED BY <1>1, <2>1, <2>2
<1> HIDE DEF h
<1>3. Seeds(h) = Seeds(g) /\ n \notin Seeds(g) /\ Seeds(g) \subseteq Ids(g)
  BY <1>1, <1>2 DEF Seeds, IsCorrupted, Live
<1>4. ASSUME NEW X \in SUBSET Ids(g), n \notin X
      PROVE  Sources(h, X) = Sources(g, X) /\ Sources(g, X) \subseteq Ids(g) /\ n \notin Sources(g, X)
  <2>1. \A m \in X : h.inE[m] = g.inE[m]
    BY <1>2, <1>4
  <2>2. \A m \in X : \A e \in g.inE[m] : SrcsOf(e) \subseteq Ids(g) /\ n \notin SrcsOf(e)
    BY <1>1, ListedEdges DEF Synced
  <2> QED BY <2>1, <2>2 DEF Sources
<1>5. PICK f : Rounds(g, f) /\ ReachCorrupted(g) = f[Cardinality(Ids(g))]
  BY ReachByRounds
<1>6. PICK k : Rounds(h, k) /\ ReachCorrupted(h) = k[Cardinality(Ids(h))]
  BY ReachByRounds
<1> DEFINE Same(i) == f[i] \in SUBSET Ids(g) /\ n \notin f[i] /\ k[i] = f[i]
           Bad == {i \in Nat : ~Same(i)}
<1>7. \A i \in Nat : Same(i)
  <2> SUFFICES ASSUME Bad # {} PROVE FALSE
    OBVIOUS
  <2>1. PICK i \in Bad : \A j \in Bad : i <= j
    <3> HIDE DEF Bad
    <3>1. Bad \in SUBSET Nat
      BY DEF Bad
    <3> QED BY <3>1, Least
  <2>2. /\ f[i] = IF i = 0 THEN Seeds(g) ELSE Seeds(g) \cup Sources(g, f[i - 1])
        /\ k[i] = IF i = 0 THEN Seeds(h) ELSE Seeds(h) \cup Sources(h, k[i - 1])
    BY <1>5, <1>6 DEF Rounds
  <2>3. CASE i = 0
    BY <1>3, <2>2, <2>3
  <2>4. CASE i # 0
    <3>1. i - 1 \in Nat /\ ~(i <= i - 1)
      BY <2>4
    <3>2. i - 1 \notin Bad
      <4> HIDE DEF Bad
      <4> QED BY <2>1, <3>1
    <3>3. Same(i - 1)
      BY <3>1, <3>2
    <3>4. Same(i)
      BY <1>3, <1>4, <2>2, <2>4, <3>3
    <3> QED BY <3>4
  <2> QED BY <2>3, <2>4
<1>8. Cardinality(Ids(g)) \in Nat
  BY FS_CardinalityType DEF Typed
<1>9. Same(Cardinality(Ids(g)))
  BY <1>7, <1>8
<1> QED BY <1>2, <1>5, <1>6, <1>9 DEF h

-----------------------------------------------------------------------------
(* The inductive invariant.                                                *)

\* A job's graph has been consistent since the start, with exact counters and every
\* node in place, until tail elimination begins: a rewriting needs all of it.
JobFits(C, j) ==
    /\ j = [pc |-> j.pc, graph |-> j.graph, considered |-> j.considered, rewritings |-> j.rewritings]
    /\ j.pc \in {"waiting", "search", "tail", "done"}
    /\ j.rewritings \in Nat
    /\ j.graph.corrupted = C
    /\ Typed(j.graph) /\ Synced(j.graph) /\ BubbleCountExact(j.graph)
    /\ j.graph.rnd >= Cardinality(RandomNodes(j.graph))
    /\ j.pc \in {"waiting", "search"} => Consistent(j.graph)

Inv ==
    /\ protocol \in Protocols
    /\ verdict \in {"none", "proved", "unknown", "aborted"}
    /\ job = [C \in Jobs |-> job[C]]
    /\ \A C \in Jobs : C \subseteq 1 .. Base[protocol].partyCnt /\ JobFits(C, job[C])

\* While a job searches, its graph is consistent in every way.
LEMMA SearchFits ==
    ASSUME NEW C, NEW j, j.pc \in {"waiting", "search"}, j.rewritings \in Nat,
           Consistent(j.graph), j.graph.corrupted = C,
           j = [pc |-> j.pc, graph |-> j.graph, considered |-> j.considered, rewritings |-> j.rewritings]
    PROVE  JobFits(C, j)
<1>1. /\ Typed(j.graph) /\ Synced(j.graph) /\ BubbleCountExact(j.graph)
      /\ RandomCountExact(j.graph)
  BY DEF Consistent
<1>2. j.graph.rnd >= Cardinality(RandomNodes(j.graph))
  BY <1>1, CountedFinite DEF RandomCountExact
<1> QED BY <1>1, <1>2 DEF JobFits

LEMMA StartGraphs ==
    ASSUME Init, NEW C \in Jobs
    PROVE  /\ C \subseteq 1 .. Base[protocol].partyCnt /\ JobFits(C, job[C])
           /\ job[C].pc = "waiting"
<1> DEFINE b == Base[protocol]
           g == NewGraph(b, b.partyCnt, b.T, C)
<1>1. /\ protocol \in Protocols
      /\ job = StartJobs(b, Classes[protocol], asked.quota, asked.strict)
  BY DEF Init
<1>2. Classes[protocol] \in Seq(SUBSET (1 .. b.partyCnt))
  BY <1>1, ProverAssumption
<1>3. C \in PossibleSets(Classes[protocol], asked.quota, asked.strict) /\ job[C] = Waiting(g)
  BY <1>1 DEF StartJobs, Jobs
<1>4. C \subseteq 1 .. b.partyCnt
  BY <1>2, <1>3, PossibleParties
<1>5. Consistent(g)
  BY <1>1, ProverAssumption, HandedOverConsistent
<1>6. g.corrupted = C
  BY DEF NewGraph, Graph
<1> HIDE DEF g
<1>7. /\ job[C].pc = "waiting" /\ job[C].graph = g /\ job[C].rewritings = 0
      /\ job[C] = [pc |-> job[C].pc, graph |-> job[C].graph,
                   considered |-> job[C].considered, rewritings |-> job[C].rewritings]
  BY <1>3 DEF Waiting
<1> QED BY <1>4, <1>5, <1>6, <1>7, SearchFits

LEMMA InitInv == Init => Inv
<1> SUFFICES ASSUME Init PROVE Inv
  OBVIOUS
<1>1. protocol \in Protocols /\ verdict = "none"
  BY DEF Init
<1>2. job = [C \in Jobs |-> job[C]]
  BY DEF Init, StartJobs, Jobs
<1> QED BY <1>1, <1>2, StartGraphs DEF Inv

\* One job has changed.
LEMMA OneJob ==
    ASSUME Inv, NEW C \in Jobs, NEW j, JobFits(C, j),
           job' = [job EXCEPT ![C] = j], UNCHANGED <<protocol, verdict>>
    PROVE  Inv'
<1>1. Jobs' = Jobs /\ \A D \in Jobs : job'[D] = IF D = C THEN j ELSE job[D]
  BY DEF Inv, Jobs
<1>2. job' = [D \in Jobs |-> job'[D]]
  BY DEF Inv, Jobs
<1>3. \A D \in Jobs : D \subseteq 1 .. Base[protocol].partyCnt /\ JobFits(D, job'[D])
  BY <1>1 DEF Inv
<1> QED BY <1>1, <1>2, <1>3 DEF Inv

LEMMA FieldChanged ==
    ASSUME NEW j, NEW x,
           j = [pc |-> j.pc, graph |-> j.graph, considered |-> j.considered, rewritings |-> j.rewritings]
    PROVE  /\ [j EXCEPT !.pc = x] = [pc |-> x, graph |-> j.graph, considered |-> j.considered,
                                     rewritings |-> j.rewritings]
           /\ [j EXCEPT !.graph = x] = [pc |-> j.pc, graph |-> x, considered |-> j.considered,
                                        rewritings |-> j.rewritings]
  OBVIOUS

\* What the steps of a job make of it.
LEMMA StartJob ==
    ASSUME Inv, NEW C \in Jobs, Start(C)
    PROVE  \E j : /\ job' = [job EXCEPT ![C] = j] /\ JobFits(C, j)
                  /\ j.pc = "search" /\ j.graph = job[C].graph
<1> DEFINE j == [pc |-> "search", graph |-> job[C].graph,
                 considered |-> job[C].considered, rewritings |-> job[C].rewritings]
<1>1. JobFits(C, job[C]) /\ job[C].pc = "waiting"
  BY DEF Inv, Start
<1>2. job' = [job EXCEPT ![C] = j]
  <2>1. job' = [job EXCEPT ![C] = [job[C] EXCEPT !.pc = "search"]]
    BY DEF Start
  <2>2. [job[C] EXCEPT !.pc = "search"] = j
    BY <1>1, FieldChanged DEF JobFits
  <2> QED BY <2>1, <2>2
<1>3. j.pc = "search" /\ j.graph = job[C].graph /\ j.rewritings = job[C].rewritings
      /\ j = [pc |-> j.pc, graph |-> j.graph, considered |-> j.considered, rewritings |-> j.rewritings]
  OBVIOUS
<1> HIDE DEF j
<1>4. JobFits(C, j)
  BY <1>1, <1>3 DEF JobFits
<1> QED BY <1>2, <1>3, <1>4

LEMMA RewriteJob ==
    ASSUME Inv, NEW C \in Jobs, Rewrite(C)
    PROVE  \E j : /\ job' = [job EXCEPT ![C] = j] /\ JobFits(C, j)
                  /\ j.pc = "search" /\ Improved(job[C].graph, j.graph)
<1>1. /\ JobFits(C, job[C]) /\ job[C].pc = "search" /\ Consistent(job[C].graph)
      /\ job[C].rewritings + 1 \in Nat
  BY DEF Inv, Rewrite, JobFits
<1>2. PICK next \in {Next1(C)} \ {job[C].graph} :
         job' = [job EXCEPT ![C] = [pc |-> "search", graph |-> next,
                                    considered |-> job[C].considered \cup {Seen(next)},
                                    rewritings |-> job[C].rewritings + 1]]
  BY DEF Rewrite
<1>3. Improved(job[C].graph, next)
  BY <1>1, <1>2, ChosenImproves DEF Next1
<1> DEFINE j == [pc |-> "search", graph |-> next,
                 considered |-> job[C].considered \cup {Seen(next)},
                 rewritings |-> job[C].rewritings + 1]
<1>4. job' = [job EXCEPT ![C] = j]
  BY <1>2
<1>5. j.pc = "search" /\ j.graph = next /\ j.rewritings = job[C].rewritings + 1
      /\ j = [pc |-> j.pc, graph |-> j.graph, considered |-> j.considered, rewritings |-> j.rewritings]
  OBVIOUS
<1> HIDE DEF j
<1>6. JobFits(C, j)
  <2>1. Consistent(j.graph) /\ j.graph.corrupted = C
    BY <1>1, <1>3, <1>5 DEF JobFits, Improved
  <2> QED BY <1>1, <1>5, <2>1, SearchFits
<1> QED BY <1>3, <1>4, <1>5, <1>6

LEMMA StopJob ==
    ASSUME Inv, NEW C \in Jobs, StopSearch(C)
    PROVE  \E j : /\ job' = [job EXCEPT ![C] = j] /\ JobFits(C, j)
                  /\ j.pc = "tail" /\ j.graph = job[C].graph
<1> DEFINE j == [pc |-> "tail", graph |-> job[C].graph,
                 considered |-> job[C].considered, rewritings |-> job[C].rewritings]
<1>1. JobFits(C, job[C]) /\ job[C].pc = "search"
  BY DEF Inv, StopSearch
<1>2. job' = [job EXCEPT ![C] = j]
  <2>1. job' = [job EXCEPT ![C] = [job[C] EXCEPT !.pc = "tail"]]
    BY DEF StopSearch
  <2>2. [job[C] EXCEPT !.pc = "tail"] = j
    BY <1>1, FieldChanged DEF JobFits
  <2> QED BY <2>1, <2>2
<1>3. j.pc = "tail" /\ j.graph = job[C].graph /\ j.rewritings = job[C].rewritings
      /\ j = [pc |-> j.pc, graph |-> j.graph, considered |-> j.considered, rewritings |-> j.rewritings]
  OBVIOUS
<1> HIDE DEF j
<1>4. JobFits(C, j)
  BY <1>1, <1>3 DEF JobFits
<1> QED BY <1>2, <1>3, <1>4

LEMMA TailJob ==
    ASSUME Inv, NEW C \in Jobs, EliminateTail(C)
    PROVE  \E j : /\ job' = [job EXCEPT ![C] = j] /\ JobFits(C, j) /\ j.pc = "tail"
                  /\ \E n \in Tails(job[C].graph) : j.graph = EliminateNode(job[C].graph, n)
<1>1. JobFits(C, job[C]) /\ job[C].pc = "tail"
  BY DEF Inv, EliminateTail
<1>2. PICK n \in Tails(job[C].graph) : job' = [job EXCEPT ![C].graph = EliminateNode(@, n)]
  BY DEF EliminateTail
<1> DEFINE h == EliminateNode(job[C].graph, n)
           j == [pc |-> "tail", graph |-> h,
                 considered |-> job[C].considered, rewritings |-> job[C].rewritings]
<1>3. job' = [job EXCEPT ![C] = j]
  <2>1. job' = [job EXCEPT ![C] = [job[C] EXCEPT !.graph = h]]
    BY <1>2
  <2>2. [job[C] EXCEPT !.graph = h] = j
    BY <1>1, FieldChanged DEF JobFits
  <2> QED BY <2>1, <2>2
<1>4. /\ Typed(job[C].graph) /\ Synced(job[C].graph) /\ BubbleCountExact(job[C].graph)
      /\ job[C].graph.rnd >= Cardinality(RandomNodes(job[C].graph))
      /\ n \in Live(job[C].graph) /\ job[C].graph.outE[n] = {} /\ ~IsCorrupted(job[C].graph, n)
  BY <1>1 DEF JobFits, Tails
<1>5. Typed(h) /\ Synced(h) /\ h.corrupted = job[C].graph.corrupted
  BY <1>4, EliminateTailNode
<1>6. BubbleCountExact(h) /\ h.rnd >= Cardinality(RandomNodes(h))
  BY <1>4, EliminateTailCounts
<1>7. j.pc = "tail" /\ j.graph = h /\ j.rewritings = job[C].rewritings
      /\ j = [pc |-> j.pc, graph |-> j.graph, considered |-> j.considered, rewritings |-> j.rewritings]
  OBVIOUS
<1> HIDE DEF h, j
<1>8. JobFits(C, j)
  BY <1>1, <1>5, <1>6, <1>7 DEF JobFits
<1> QED BY <1>3, <1>7, <1>8 DEF h

LEMMA FinishJob ==
    ASSUME Inv, NEW C \in Jobs, Finish(C)
    PROVE  \E j : /\ job' = [job EXCEPT ![C] = j] /\ JobFits(C, j)
                  /\ j.pc = "done" /\ j.graph = job[C].graph
<1> DEFINE j == [pc |-> "done", graph |-> job[C].graph,
                 considered |-> job[C].considered, rewritings |-> job[C].rewritings]
<1>1. JobFits(C, job[C]) /\ job[C].pc = "tail"
  BY DEF Inv, Finish
<1>2. job' = [job EXCEPT ![C] = j]
  <2>1. job' = [job EXCEPT ![C] = [job[C] EXCEPT !.pc = "done"]]
    BY DEF Finish
  <2>2. [job[C] EXCEPT !.pc = "done"] = j
    BY <1>1, FieldChanged DEF JobFits
  <2> QED BY <2>1, <2>2
<1>3. j.pc = "done" /\ j.graph = job[C].graph /\ j.rewritings = job[C].rewritings
      /\ j = [pc |-> j.pc, graph |-> j.graph, considered |-> j.considered, rewritings |-> j.rewritings]
  OBVIOUS
<1> HIDE DEF j
<1>4. JobFits(C, j)
  BY <1>1, <1>3 DEF JobFits
<1> QED BY <1>2, <1>3, <1>4

LEMMA NextInv == Inv /\ [Next]_vars => Inv'
<1> SUFFICES ASSUME Inv, [Next]_vars PROVE Inv'
  OBVIOUS
<1>1. ASSUME NEW C \in Jobs, Start(C) PROVE Inv'
  BY <1>1, StartJob, OneJob DEF Start
<1>2. ASSUME NEW C \in Jobs, Abort(C) PROVE Inv'
  BY <1>2 DEF Abort, Inv, Jobs
<1>3. ASSUME NEW C \in Jobs, Rewrite(C) PROVE Inv'
  BY <1>3, RewriteJob, OneJob DEF Rewrite
<1>4. ASSUME NEW C \in Jobs, StopSearch(C) PROVE Inv'
  BY <1>4, StopJob, OneJob DEF StopSearch
<1>5. ASSUME NEW C \in Jobs, EliminateTail(C) PROVE Inv'
  BY <1>5, TailJob, OneJob DEF EliminateTail
<1>6. ASSUME NEW C \in Jobs, Finish(C) PROVE Inv'
  BY <1>6, FinishJob, OneJob DEF Finish
<1>7. CASE Join
  BY <1>7 DEF Join, Inv, Jobs
<1>8. CASE UNCHANGED vars
  BY <1>8 DEF vars, Inv, Jobs
<1> QED BY <1>1, <1>2, <1>3, <1>4, <1>5, <1>6, <1>7, <1>8 DEF Next, JobStep, Ended

THEOREM Invariance == Spec => []Inv
<1> QED BY InitInv, NextInv, PTL DEF Spec

\* Type correctness: every job has a well-typed graph of its own, with its own corrupted
\* parties, whatever the others do.
THEOREM JobsTyped == Spec => []TypeOK
<1>1. Inv => TypeOK
  BY DEF Inv, JobFits, TypeOK
<1> QED BY <1>1, Invariance, PTL

-----------------------------------------------------------------------------
(* Every job is a guided search.                                           *)

\* The shape of a consistent graph, as GuidedSearch sees it.
LEMMA JobShapes ==
    ASSUME NEW C, NEW g, Typed(g)
    PROVE  /\ Job(C)!Nodes(Shape(g)) = Live(g)
           /\ \A n \in Live(g) : /\ Shape(g).nodes[n] = g.nodes[n]
                                 /\ Shape(g).inE[n] = g.inE[n]
                                 /\ Shape(g).outE[n] = g.outE[n]
           /\ Shape(g).corrupted = g.corrupted
           /\ Job(C)!Bubbles(Shape(g)) = Bubbles(g)
           /\ Job(C)!Unused(Shape(g)) = Tails(g)
           /\ Synced(g) => Job(C)!WellFormed(Shape(g))
<1>1. /\ Job(C)!Nodes(Shape(g)) = Live(g)
      /\ \A n \in Live(g) : /\ Shape(g).nodes[n] = g.nodes[n]
                            /\ Shape(g).inE[n] = g.inE[n]
                            /\ Shape(g).outE[n] = g.outE[n]
      /\ Shape(g).corrupted = g.corrupted
  BY DEF Job!Nodes, Shape
<1>2. \A n \in Live(g) : InDeg(g, n) # 0 <=> g.inE[n] # {}
  BY NoInEdges DEF Typed, Live
<1>3. Job(C)!Bubbles(Shape(g)) = Bubbles(g)
  BY <1>1, <1>2 DEF Job!Bubbles, Job!OfCorrupted, Bubbles, IsIO, IsCorrupted
<1>4. Job(C)!Unused(Shape(g)) = Tails(g)
  BY <1>1 DEF Job!Unused, Job!OfCorrupted, Tails, IsCorrupted
<1>5. Synced(g) => Job(C)!WellFormed(Shape(g))
  BY <1>1, BothEndsLive DEF Job!WellFormed
<1> QED BY <1>1, <1>3, <1>4, <1>5

LEMMA JobInits == Init => \A C \in Jobs : Job(C)!Init
<1> SUFFICES ASSUME Init, NEW C \in Jobs PROVE Job(C)!Init
  OBVIOUS
<1>1. job[C].pc = "waiting" /\ Typed(job[C].graph) /\ Synced(job[C].graph)
  BY StartGraphs DEF JobFits
<1>2. Job(C)!WellFormed(Shape(job[C].graph))
  BY <1>1, JobShapes
<1> QED BY <1>1, <1>2 DEF Job!Init

\* The steps of the job that moves.
LEMMA RewriteGuided ==
    ASSUME Inv, NEW C \in Jobs, Rewrite(C)
    PROVE  Job(C)!Rewrite
<1> DEFINE g == job[C].graph
<1>1. PICK j : /\ job' = [job EXCEPT ![C] = j] /\ JobFits(C, j)
               /\ j.pc = "search" /\ Improved(g, j.graph)
  BY RewriteJob
<1>2. job'[C] = j
  BY <1>1 DEF Inv, Jobs
<1>3. job[C].pc = "search" /\ HasBubble(g) /\ Consistent(g)
  BY DEF Rewrite, Inv, JobFits
<1>4. /\ Consistent(j.graph) /\ j.graph.nodes = g.nodes /\ j.graph.corrupted = g.corrupted
      /\ j.graph.rnd = g.rnd /\ Less(Potential(j.graph), Potential(g))
  BY <1>1 DEF Improved
<1>5. Job(C)!Bubbles(Shape(g)) # {}
  BY <1>3, HasBubbles, JobShapes DEF Consistent
<1>6. /\ Shape(j.graph).nodes = Shape(g).nodes /\ Shape(j.graph).corrupted = Shape(g).corrupted
  BY <1>4 DEF Shape, Live, Ids
<1>7. Job(C)!WellFormed(Shape(j.graph))
  BY <1>4, JobShapes DEF Consistent
<1>8. /\ ShapeRandomness(Shape(j.graph)) = ShapeRandomness(Shape(g))
      /\ Less(ShapePotential(Shape(j.graph)), ShapePotential(Shape(g)))
  BY <1>3, <1>4, ShapeRecounted
<1> QED BY <1>1, <1>2, <1>3, <1>5, <1>6, <1>7, <1>8 DEF Job!Rewrite

LEMMA TailGuided ==
    ASSUME Inv, NEW C \in Jobs, EliminateTail(C)
    PROVE  Job(C)!DropUnused
<1> DEFINE g == job[C].graph
<1>1. PICK j : /\ job' = [job EXCEPT ![C] = j] /\ JobFits(C, j) /\ j.pc = "tail"
               /\ \E n \in Tails(g) : j.graph = EliminateNode(g, n)
  BY TailJob
<1>2. PICK n \in Tails(g) : j.graph = EliminateNode(g, n)
  BY <1>1
<1>3. job'[C] = j /\ job[C].pc = "tail"
  BY <1>1 DEF Inv, Jobs, EliminateTail
<1>4. Typed(g) /\ Synced(g) /\ Typed(j.graph) /\ Synced(j.graph)
  BY <1>1 DEF Inv, JobFits
<1>5. n \in Live(g) /\ g.outE[n] = {}
  BY DEF Tails
<1>6. Live(j.graph) = Live(g) \ {n}
  BY <1>2, <1>4, <1>5, EliminateTailNode
<1>7. /\ j.graph.corrupted = g.corrupted
      /\ \A m \in Live(j.graph) : /\ j.graph.nodes[m] = g.nodes[m]
                                  /\ j.graph.inE[m] = g.inE[m]
  <2>1. /\ j.graph.corrupted = g.corrupted
        /\ \A m \in Ids(g) \ {n} : /\ j.graph.nodes[m] = g.nodes[m]
                                   /\ j.graph.inE[m] = g.inE[m] \ g.outE[n]
    BY <1>2 DEF EliminateNode, Changed, Graph
  <2> QED BY <1>5, <1>6, <2>1 DEF Live
<1>8. n \in Job(C)!Unused(Shape(g)) /\ Job(C)!Nodes(Shape(j.graph)) = Job(C)!Nodes(Shape(g)) \ {n}
  BY <1>4, <1>6, JobShapes
<1>9. /\ Shape(j.graph).corrupted = Shape(g).corrupted
      /\ \A m \in Job(C)!Nodes(Shape(j.graph)) :
            /\ Shape(j.graph).nodes[m] = Shape(g).nodes[m]
            /\ Shape(j.graph).inE[m] = Shape(g).inE[m]
  BY <1>4, <1>6, <1>7, JobShapes
<1>10. Job(C)!WellFormed(Shape(j.graph))
  BY <1>4, JobShapes
<1> QED BY <1>1, <1>3, <1>8, <1>9, <1>10 DEF Job!DropUnused

LEMMA OtherSteps ==
    ASSUME Inv, NEW C \in Jobs, Start(C) \/ StopSearch(C) \/ Finish(C)
    PROVE  [Job(C)!Next]_(Job(C)!vars)
<1>1. CASE Start(C)
  <2>1. PICK j : /\ job' = [job EXCEPT ![C] = j] /\ j.pc = "search" /\ j.graph = job[C].graph
    BY <1>1, StartJob
  <2>2. job'[C] = j /\ job[C].pc = "waiting"
    BY <1>1, <2>1 DEF Inv, Jobs, Start
  <2> QED BY <2>1, <2>2 DEF Job!vars
<1>2. CASE StopSearch(C)
  <2>1. PICK j : /\ job' = [job EXCEPT ![C] = j] /\ j.pc = "tail" /\ j.graph = job[C].graph
    BY <1>2, StopJob
  <2>2. job'[C] = j /\ job[C].pc = "search"
    BY <1>2, <2>1 DEF Inv, Jobs, StopSearch
  <2>3. Job(C)!StopSearch
    BY <2>1, <2>2 DEF Job!StopSearch
  <2> QED BY <2>3 DEF Job!Next
<1>3. CASE Finish(C)
  <2>1. PICK j : /\ job' = [job EXCEPT ![C] = j] /\ j.pc = "done" /\ j.graph = job[C].graph
    BY <1>3, FinishJob
  <2>2. job'[C] = j /\ job[C].pc = "tail" /\ Tails(job[C].graph) = {}
    BY <1>3, <2>1 DEF Inv, Jobs, Finish
  <2>3. Typed(job[C].graph) /\ BubbleCountExact(job[C].graph)
    BY DEF Inv, JobFits
  <2>4. /\ Job(C)!Unused(Shape(job[C].graph)) = {}
        /\ HasBubble(job[C].graph) <=> Job(C)!Bubbles(Shape(job[C].graph)) # {}
    BY <2>2, <2>3, JobShapes, HasBubbles
  <2>5. Job(C)!Answer
    BY <2>1, <2>2, <2>4 DEF Job!Answer
  <2> QED BY <2>5 DEF Job!Next
<1> QED BY <1>1, <1>2, <1>3

LEMMA JobNexts == Inv /\ [Next]_vars => [\A C \in Jobs : [Job(C)!Next]_(Job(C)!vars)]_vars
<1> SUFFICES ASSUME Inv, [Next]_vars, NEW C \in Jobs PROVE [Job(C)!Next]_(Job(C)!vars)
  OBVIOUS
<1>1. CASE job'[C] = job[C]
  BY <1>1 DEF Job!vars
<1>2. CASE job'[C] # job[C]
  <2>1. PICK D \in Jobs : JobStep(D) /\ ~Abort(D)
    BY <1>2 DEF Next, vars, Join, Ended, Abort
  <2>2. \E j : job' = [job EXCEPT ![D] = j]
    BY <2>1, StartJob, RewriteJob, StopJob, TailJob, FinishJob DEF JobStep
  <2>3. D = C
    BY <1>2, <2>2 DEF Inv, Jobs
  <2>4. Start(C) \/ Rewrite(C) \/ StopSearch(C) \/ EliminateTail(C) \/ Finish(C)
    BY <2>1, <2>3 DEF JobStep
  <2>5. CASE Rewrite(C)
    BY <2>5, RewriteGuided DEF Job!Next
  <2>6. CASE EliminateTail(C)
    BY <2>6, TailGuided DEF Job!Next
  <2> QED BY <2>4, <2>5, <2>6, OtherSteps
<1> QED BY <1>1, <1>2

\* Each job does what a guided search promises, in parallel with the others: no order
\* of the steps of different jobs shows in any of them.
THEOREM EveryJobIsGuidedSearch == Spec => JobsAreGuidedSearches
  BY JobInits, JobNexts, Invariance, PTL DEF Spec, JobsAreGuidedSearches

\* Tail elimination keeps the nodes the corrupted parties' nodes are computed from, with
\* all their in-edges.
THEOREM TailsAlwaysKeepTheView == Spec => TailsKeepTheView
<1> DEFINE SameView(C) == job[C].pc = "tail" =>
                        /\ ReachCorrupted(job'[C].graph) = ReachCorrupted(job[C].graph)
                        /\ \A n \in ReachCorrupted(job[C].graph) :
                              job'[C].graph.inE[n] = job[C].graph.inE[n]
<1>1. Inv /\ [Next]_vars => [\A C \in Jobs : SameView(C)]_vars
  <2> SUFFICES ASSUME Inv, [Next]_vars, NEW C \in Jobs, job[C].pc = "tail" PROVE SameView(C)
    OBVIOUS
  <2>1. CASE job'[C].graph = job[C].graph
    BY <2>1
  <2>2. CASE job'[C].graph # job[C].graph
    <3>1. PICK D \in Jobs : JobStep(D) /\ ~Abort(D)
      BY <2>2 DEF Next, vars, Join, Ended, Abort
    <3>2. \E j : job' = [job EXCEPT ![D] = j]
      BY <3>1, StartJob, RewriteJob, StopJob, TailJob, FinishJob DEF JobStep
    <3>3. D = C
      BY <2>2, <3>2 DEF Inv, Jobs
    <3>4. EliminateTail(C) \/ Finish(C)
      BY <3>1, <3>3 DEF JobStep, Start, Rewrite, StopSearch
    <3>5. CASE Finish(C)
      BY <3>5, <2>2, FinishJob DEF Inv, Jobs
    <3>6. CASE EliminateTail(C)
      <4>1. PICK n \in Tails(job[C].graph) : job'[C].graph = EliminateNode(job[C].graph, n)
        BY <3>6, TailJob DEF Inv, Jobs
      <4>2. Typed(job[C].graph) /\ Synced(job[C].graph)
        BY DEF Inv, JobFits
      <4> QED BY <4>1, <4>2, TailNotReached
    <3> QED BY <3>4, <3>5, <3>6
  <2> QED BY <2>1, <2>2
<1> QED BY <1>1, Invariance, PTL DEF Spec, TailsKeepTheView

-----------------------------------------------------------------------------
(* The assertions of the rewriters hold, but for the two cases in which    *)
(* they rely on what is not so.                                            *)

\* No job corrupts more parties than were asked for; up to the end of its search its
\* graph is laid out as the builder's, with the protocol's threshold.
LayoutInv ==
    /\ asked.quota \in Nat
    /\ \A C \in Jobs :
          /\ Cardinality(C) <= asked.quota
          /\ job[C].pc \in {"waiting", "search"} =>
                /\ LaidOut(job[C].graph)
                /\ job[C].graph.partyCnt = Base[protocol].partyCnt
                /\ job[C].graph.T = Base[protocol].T
    /\ AbortsExplained

LEMMA InitLayout == Init => LayoutInv
<1> SUFFICES ASSUME Init PROVE LayoutInv
  OBVIOUS
<1> DEFINE b == Base[protocol]
           N == b.partyCnt
           start == Graph(b.nodes, b.inE, b.outE, b.partyCnt, b.T, {}, 0, 0)
<1>1. /\ protocol \in Protocols /\ verdict = "none"
      /\ job = StartJobs(b, Classes[protocol], asked.quota, asked.strict)
  BY DEF Init
<1>2. /\ Classes[protocol] \in Seq(SUBSET (1 .. N))
      /\ N \in Nat /\ b.T \in 0 .. N - 1 /\ LaidOut(start)
  BY <1>1, ProverAssumption, LayoutAssumption
<1>3. asked.quota \in Nat
  <2>1. b.T \in Nat /\ \A I \in Exactly : I \in Nat
    BY <1>2, ProverAssumption
  <2> QED BY <2>1 DEF Init
<1>4. ASSUME NEW C \in Jobs
      PROVE  /\ Cardinality(C) <= asked.quota
             /\ LaidOut(job[C].graph)
             /\ job[C].graph.partyCnt = N /\ job[C].graph.T = b.T
  <2> DEFINE g == NewGraph(b, b.partyCnt, b.T, C)
  <2>1. C \in PossibleSets(Classes[protocol], asked.quota, asked.strict) /\ job[C].graph = g
    BY <1>1 DEF StartJobs, Jobs, Waiting
  <2>2. Cardinality(C) <= asked.quota
    <3>1. IsFiniteSet(1 .. N) /\ 1 .. N \subseteq Nat
      BY <1>2, FirstNumbers, Zenon
    <3> QED BY <1>2, <1>3, <2>1, <3>1, PossibleParties
  <2>3. /\ g.nodes = start.nodes /\ g.inE = start.inE
        /\ g.partyCnt = start.partyCnt /\ g.partyCnt = N /\ g.T = b.T
    BY DEF NewGraph, Graph
  <2> HIDE DEF g, start
  <2>4. EdgesOf(g) \subseteq EdgesOf(start) \cup {}
    <3>1. EdgesOf(g) = EdgesOf(start)
      BY <2>3, Zenon DEF EdgesOf, Ids
    <3> QED BY <3>1
  <2>5. LaidOut(g)
    <3> DEFINE none == {}
    <3>1. EdgesOf(g) \subseteq EdgesOf(start) \cup none /\ \A e \in none : LaidOutEdge(e)
      BY <2>4
    <3> HIDE DEF none
    <3> QED BY <1>2, <2>3, <3>1, StaysLaidOut
  <2> QED BY <2>1, <2>2, <2>3, <2>5
<1>5. AbortsExplained
  BY <1>1 DEF AbortsExplained
<1> QED BY <1>3, <1>4, <1>5 DEF LayoutInv

\* One job has changed, and none has failed an assertion.
LEMMA OneJobLaidOut ==
    ASSUME Inv, LayoutInv, verdict = "none", NEW C \in Jobs, NEW j,
           job' = [job EXCEPT ![C] = j], UNCHANGED <<protocol, asked, verdict>>,
           j.pc \in {"waiting", "search"} =>
                /\ job[C].pc \in {"waiting", "search"}
                /\ SameLayout(job[C].graph, j.graph)
    PROVE  LayoutInv'
<1>1. Jobs' = Jobs /\ \A D \in Jobs : job'[D] = IF D = C THEN j ELSE job[D]
  BY DEF Inv, Jobs
<1>2. AbortsExplained'
  BY DEF AbortsExplained
<1>3. ASSUME NEW D \in Jobs
      PROVE  /\ Cardinality(D) <= asked.quota
             /\ job'[D].pc \in {"waiting", "search"} =>
                   /\ LaidOut(job'[D].graph)
                   /\ job'[D].graph.partyCnt = Base[protocol].partyCnt
                   /\ job'[D].graph.T = Base[protocol].T
  <2>1. CASE D = C
    BY <1>1, <2>1 DEF LayoutInv, SameLayout
  <2>2. CASE D # C
    BY <1>1, <2>2 DEF LayoutInv
  <2> QED BY <2>1, <2>2
<1> QED BY <1>1, <1>2, <1>3 DEF LayoutInv

\* The step that fails an assertion.
LEMMA AbortLaidOut ==
    ASSUME Inv, LayoutInv, NEW C \in Jobs, Abort(C)
    PROVE  LayoutInv'
<1> DEFINE g == job[C].graph
           b == Base[protocol]
<1>1. /\ job[C].pc = "search" /\ ~AssertsHold(C)
      /\ UNCHANGED <<protocol, asked, job>> /\ Jobs' = Jobs
  BY DEF Abort, Jobs
<1>2. /\ Consistent(g) /\ g.corrupted = C /\ C \subseteq 1 .. b.partyCnt
      /\ LaidOut(g) /\ g.partyCnt = b.partyCnt /\ g.T = b.T
      /\ Cardinality(C) <= asked.quota /\ asked.quota \in Nat
  BY <1>1 DEF Inv, JobFits, LayoutInv
<1>3. b.partyCnt \in Nat /\ b.T \in 0 .. b.partyCnt - 1
  BY LayoutAssumption DEF Inv
<1>4. PICK r \in Rewriter : ~AssertionsHold(g, r, job[C].rewritings + 1)
  BY <1>1 DEF AssertsHold
<1>5. asked.quota > b.T \/ LooksDealt(g)
  <2> SUFFICES ASSUME ~(asked.quota > b.T), ~LooksDealt(g) PROVE FALSE
    OBVIOUS
  <2>1. Cardinality(C) \in Nat
    <3>1. IsFiniteSet(1 .. b.partyCnt)
      BY <1>3, FirstNumbers, Zenon
    <3>2. IsFiniteSet(C)
      BY <1>2, <3>1, FS_Subset
    <3> QED BY <3>2, FS_CardinalityType
  <2>2. Cardinality(C) <= g.T
    BY <1>2, <1>3, <2>1
  <2>3. Sized(g)
    BY <1>2, <1>3, <2>2 DEF Sized, Parties
  <2> QED BY <1>2, <1>4, <2>3, AssertionsKept
<1>6. AbortsExplained'
  BY <1>1, <1>5 DEF AbortsExplained
<1> QED BY <1>1, <1>6 DEF LayoutInv

LEMMA NextLayout == Inv /\ LayoutInv /\ [Next]_vars => LayoutInv'
<1> SUFFICES ASSUME Inv, LayoutInv, [Next]_vars PROVE LayoutInv'
  OBVIOUS
<1>1. \A g : SameLayout(g, g)
  BY DEF SameLayout
<1>2. ASSUME NEW C \in Jobs, JobStep(C), ~Abort(C), verdict = "none" PROVE LayoutInv'
  <2>1. UNCHANGED <<protocol, asked, verdict>>
    BY <1>2 DEF JobStep, Start, Rewrite, StopSearch, EliminateTail, Finish
  <2>2. CASE Start(C)
    <3>1. job[C].pc = "waiting"
      BY <2>2 DEF Start
    <3> QED BY <1>1, <1>2, <2>1, <2>2, <3>1, StartJob, OneJobLaidOut
  <2>3. CASE Rewrite(C)
    <3>1. PICK j : job' = [job EXCEPT ![C] = j] /\ Improved(job[C].graph, j.graph)
      BY <2>3, RewriteJob
    <3>2. job[C].pc = "search" /\ SameLayout(job[C].graph, j.graph)
      BY <2>3, <3>1 DEF Rewrite, Improved
    <3> QED BY <1>2, <2>1, <3>1, <3>2, OneJobLaidOut
  <2>4. ASSUME NEW j, job' = [job EXCEPT ![C] = j], j.pc \in {"tail", "done"} PROVE LayoutInv'
    <3>1. ~(j.pc \in {"waiting", "search"})
      BY <2>4
    <3> QED BY <1>2, <2>1, <2>4, <3>1, OneJobLaidOut
  <2>5. CASE StopSearch(C)
    BY <2>4, <2>5, StopJob
  <2>6. CASE EliminateTail(C)
    BY <2>4, <2>6, TailJob
  <2>7. CASE Finish(C)
    BY <2>4, <2>7, FinishJob
  <2> QED BY <1>2, <2>2, <2>3, <2>5, <2>6, <2>7 DEF JobStep
<1>3. CASE Join
  <2>1. UNCHANGED <<protocol, asked, job>> /\ verdict' # "aborted" /\ Jobs' = Jobs
    BY <1>3 DEF Join, Jobs
  <2> QED BY <2>1 DEF LayoutInv, AbortsExplained
<1>4. CASE UNCHANGED vars
  <2>1. UNCHANGED <<protocol, asked, job, verdict>> /\ Jobs' = Jobs
    BY <1>4 DEF vars, Jobs
  <2> QED BY <2>1 DEF LayoutInv, AbortsExplained
<1> QED BY <1>2, <1>3, <1>4, AbortLaidOut DEF Next, Ended

\* The assertions in the rewriters fail only if more parties are corrupted than the
\* threshold allows, or when a node that is not, or not only, dealt looks like a secret.
THEOREM AbortsAlwaysExplained == Spec => []AbortsExplained
<1>1. LayoutInv => AbortsExplained
  BY DEF LayoutInv
<1> QED BY <1>1, InitLayout, NextLayout, Invariance, PTL DEF Spec
-----------------------------------------------------------------------------
(* What tail elimination leaves.                                           *)

\* The breadth-first search has come to its end after as many rounds as there are nodes:
\* whatever a node it reached is computed from is reached, too.
LEMMA ReachClosed ==
    ASSUME NEW g, Typed(g), Synced(g)
    PROVE  LET R == ReachCorrupted(g)
           IN Seeds(g) \subseteq R /\ R \subseteq Live(g) /\ Sources(g, R) \subseteq R
<1> DEFINE ids == Ids(g)
           size == Cardinality(ids)
<1>1. PICK f : Rounds(g, f) /\ ReachCorrupted(g) = f[size]
  BY ReachByRounds
<1>2. /\ f[0] = Seeds(g)
      /\ \A k \in Nat : f[k + 1] = Seeds(g) \cup Sources(g, f[k])
  <2>1. \A k \in Nat : k + 1 \in Nat /\ k + 1 # 0 /\ (k + 1) - 1 = k
    OBVIOUS
  <2> QED BY <1>1, <2>1 DEF Rounds
<1>3. size \in Nat /\ IsFiniteSet(ids)
  BY FS_CardinalityType DEF Typed
<1>4. ASSUME NEW X \in SUBSET Live(g) PROVE Sources(g, X) \in SUBSET Live(g)
  <2> SUFFICES ASSUME NEW n \in X, NEW e \in g.inE[n], NEW m \in SrcsOf(e) PROVE m \in Live(g)
    BY DEF Sources
  <2>1. n \in ids /\ m \in ids
    BY ListedEdges DEF Live
  <2>2. e \in g.outE[m]
    BY <2>1 DEF Synced
  <2> QED BY <2>1, <2>2 DEF Synced, Live
<1>5. Seeds(g) \in SUBSET Live(g) /\ Live(g) \in SUBSET ids
  BY DEF Seeds, Live
<1> DEFINE Grows(k) == /\ f[k] \in SUBSET f[k + 1] /\ f[k + 1] \in SUBSET Live(g)
                       /\ f[k] = f[k + 1] \/ Cardinality(f[k + 1]) >= k + 1
           Bad == {k \in Nat : ~Grows(k)}
<1>6. ASSUME NEW X \in SUBSET Live(g), NEW Y \in SUBSET X, Y # X
      PROVE  /\ Cardinality(X) \in Nat /\ Cardinality(Y) \in Nat
             /\ Cardinality(X) >= Cardinality(Y) + 1 /\ Cardinality(X) <= size
  <2>1. X \in SUBSET ids
    BY <1>5
  <2>2. IsFiniteSet(X) /\ Cardinality(X) <= size
    BY <1>3, <2>1, FS_Subset
  <2>3. IsFiniteSet(Y) /\ Cardinality(Y) <= Cardinality(X) /\ Cardinality(Y) # Cardinality(X)
    BY <1>6, <2>2, FS_Subset
  <2>4. Cardinality(X) \in Nat /\ Cardinality(Y) \in Nat
    BY <2>2, <2>3, FS_CardinalityType
  <2> QED BY <2>2, <2>3, <2>4
<1>7. \A k \in Nat : Grows(k)
  <2> SUFFICES ASSUME Bad # {} PROVE FALSE
    OBVIOUS
  <2>1. PICK k \in Bad : \A j \in Bad : k <= j
    <3> HIDE DEF Bad
    <3>1. Bad \in SUBSET Nat
      BY DEF Bad
    <3> QED BY <3>1, Least
  <2>2. k \in Nat /\ ~Grows(k)
    OBVIOUS
  <2>3. f[k] \in SUBSET f[k + 1] /\ f[k + 1] \in SUBSET Live(g)
    <3>1. CASE k = 0
      <4>1. f[k] = Seeds(g) /\ f[k + 1] = Seeds(g) \cup Sources(g, Seeds(g))
        BY <1>2, <3>1
      <4> QED BY <1>4, <1>5, <4>1
    <3>2. CASE k # 0
      <4>1. k - 1 \in Nat /\ ~(k <= k - 1) /\ (k - 1) + 1 = k
        BY <2>2, <3>2
      <4>2. k - 1 \notin Bad
        <5> HIDE DEF Bad
        <5> QED BY <2>1, <4>1
      <4>3. Grows(k - 1)
        BY <4>1, <4>2
      <4>4. f[k - 1] \in SUBSET f[k] /\ f[k] \in SUBSET Live(g)
        BY <4>1, <4>3
      <4>5. f[k] = Seeds(g) \cup Sources(g, f[k - 1]) /\ f[k + 1] = Seeds(g) \cup Sources(g, f[k])
        <5> HIDE DEF Bad, Grows
        <5> QED BY <1>2, <2>2, <4>1
      <4>6. Sources(g, f[k - 1]) \subseteq Sources(g, f[k])
        BY <4>4 DEF Sources
      <4> QED BY <1>4, <1>5, <4>4, <4>5, <4>6
    <3> QED BY <3>1, <3>2
  <2>4. f[k] # f[k + 1] /\ ~(Cardinality(f[k + 1]) >= k + 1)
    BY <2>2, <2>3
  <2>5. /\ Cardinality(f[k + 1]) \in Nat /\ Cardinality(f[k]) \in Nat
        /\ Cardinality(f[k + 1]) >= Cardinality(f[k]) + 1
    BY <1>6, <2>3, <2>4
  <2>6. k # 0
    BY <2>4, <2>5
  <2>7. k - 1 \in Nat /\ ~(k <= k - 1) /\ (k - 1) + 1 = k
    BY <2>2, <2>6
  <2>8. k - 1 \notin Bad
    <3> HIDE DEF Bad
    <3> QED BY <2>1, <2>7
  <2>9. f[k - 1] = f[k] \/ Cardinality(f[k]) >= k
    BY <2>7, <2>8
  <2>10. Cardinality(f[k]) >= k
    <3>1. f[k + 1] = Seeds(g) \cup Sources(g, f[k]) /\ f[k] = Seeds(g) \cup Sources(g, f[k - 1])
      <4> HIDE DEF Bad, Grows
      <4> QED BY <1>2, <2>2, <2>7
    <3>2. f[k - 1] # f[k]
      BY <2>4, <3>1
    <3> QED BY <2>9, <3>2
  <2> HIDE DEF Bad, Grows
  <2> QED BY <2>2, <2>4, <2>5, <2>10
<1>8. f[size] = f[size + 1] /\ f[size] \in SUBSET Live(g)
  <2>1. Grows(size)
    BY <1>3, <1>7
  <2>2. f[size] \in SUBSET f[size + 1] /\ f[size + 1] \in SUBSET Live(g)
    BY <2>1
  <2>3. f[size] # f[size + 1] => FALSE
    <3> SUFFICES ASSUME f[size] # f[size + 1] PROVE FALSE
      OBVIOUS
    <3>1. Cardinality(f[size + 1]) >= size + 1
      BY <2>1
    <3>2. Cardinality(f[size + 1]) \in Nat /\ Cardinality(f[size + 1]) <= size
      BY <1>6, <2>2
    <3> HIDE DEF size
    <3> QED BY <1>3, <3>1, <3>2
  <2> QED BY <2>2, <2>3
<1>9. f[size + 1] = Seeds(g) \cup Sources(g, f[size])
  BY <1>2, <1>3
<1> QED BY <1>1, <1>8, <1>9

\* A node that feeds a reached one is reached.
LEMMA UsersOfUnreached ==
    ASSUME NEW g, Typed(g), Synced(g), NEW n \in Live(g) \ ReachCorrupted(g), NEW e \in g.outE[n]
    PROVE  e.out \in Live(g) \ ReachCorrupted(g)
<1> DEFINE R == ReachCorrupted(g)
<1>1. n \in Ids(g)
  BY DEF Live
<1>2. e.out \in Ids(g) /\ e \in g.inE[e.out] /\ n \in SrcsOf(e)
  BY <1>1, ListedEdges DEF Synced
<1>3. e.out \in Live(g)
  BY <1>2 DEF Synced, Live
<1>4. e.out \in R => n \in Sources(g, R)
  BY <1>2 DEF Sources
<1>5. Sources(g, R) \subseteq R
  BY ReachClosed
<1> QED BY <1>3, <1>4, <1>5

\* No tail is left when a job is done.
Finished == \A C \in Jobs : job[C].pc = "done" => Tails(job[C].graph) = {}

LEMMA InitFinished == Init => Finished
<1> SUFFICES ASSUME Init, NEW C \in Jobs PROVE job[C].pc # "done"
  BY DEF Finished
<1>1. job[C].pc = "waiting"
  BY StartGraphs
<1> QED BY <1>1

LEMMA NextFinished == Inv /\ Finished /\ [Next]_vars => Finished'
<1> SUFFICES ASSUME Inv, Finished, [Next]_vars, NEW C \in Jobs', job'[C].pc = "done"
             PROVE  Tails(job'[C].graph) = {}
  BY DEF Finished, Jobs
<1>1. CASE job' = job
  BY <1>1 DEF Finished, Jobs
<1>2. CASE job' # job
  <2>1. PICK D \in Jobs : JobStep(D) /\ ~Abort(D)
    BY <1>2 DEF Next, vars, Join, Ended, Abort
  <2>2. PICK j : job' = [job EXCEPT ![D] = j]
    BY <2>1, StartJob, RewriteJob, StopJob, TailJob, FinishJob DEF JobStep
  <2>3. Jobs' = Jobs /\ \A E \in Jobs : job'[E] = IF E = D THEN j ELSE job[E]
    BY <2>2 DEF Inv, Jobs
  <2>4. CASE D # C
    BY <2>3, <2>4 DEF Finished
  <2>5. CASE D = C
    <3>1. job'[C] = j /\ j.pc = "done"
      BY <2>3, <2>5
    <3>2. CASE Finish(C)
      <4>1. Tails(job[C].graph) = {} /\ job'[C].graph = job[C].graph
        BY <2>3, <3>2, FinishJob DEF Finish, Inv, Jobs
      <4> QED BY <4>1
    <3>3. ~(Start(C) \/ Rewrite(C) \/ StopSearch(C) \/ EliminateTail(C))
      <4>1. ASSUME NEW k, job' = [job EXCEPT ![C] = k] PROVE k.pc = "done"
        <5>1. job'[C] = k
          BY <2>3, <4>1 DEF Inv, Jobs
        <5> QED BY <3>1, <5>1
      <4> QED BY <2>3, <4>1, StartJob, RewriteJob, StopJob, TailJob
    <3> QED BY <2>1, <2>5, <3>2, <3>3 DEF JobStep
  <2> QED BY <2>4, <2>5
<1> QED BY <1>1, <1>2

\* What is left outside the view of the corrupted parties, if anything, is used, and only
\* by nodes that are outside the view, too: it has no end.
LeftoversFeedLeftovers ==
    \A C \in Jobs : job[C].pc = "done" =>
        LET g == job[C].graph
            left == Live(g) \ ReachCorrupted(g)
        IN \A n \in left : g.outE[n] # {} /\ \A e \in g.outE[n] : e.out \in left

\* The edges outside the view lead down, in some numbering: there is no cycle.
NoCycleOutsideTheView ==
    \A C \in Jobs : job[C].pc = "done" =>
        LET g == job[C].graph
            left == Live(g) \ ReachCorrupted(g)
        IN \E height \in [left -> Nat] :
              \A n \in left : \A e \in g.outE[n] : e.out \in left => height[e.out] < height[n]

LEMMA DoneLeftovers == Inv /\ Finished => LeftoversFeedLeftovers
<1> SUFFICES ASSUME Inv, Finished, NEW C \in Jobs, job[C].pc = "done",
                    NEW n \in Live(job[C].graph) \ ReachCorrupted(job[C].graph)
             PROVE  /\ job[C].graph.outE[n] # {}
                    /\ \A e \in job[C].graph.outE[n] :
                          e.out \in Live(job[C].graph) \ ReachCorrupted(job[C].graph)
  BY DEF LeftoversFeedLeftovers
<1> DEFINE g == job[C].graph
<1>1. Typed(g) /\ Synced(g) /\ Tails(g) = {}
  BY DEF Inv, JobFits, Finished
<1>2. n \notin Seeds(g)
  BY <1>1, ReachClosed
<1>3. ~IsCorrupted(g, n)
  BY <1>2 DEF Seeds
<1> QED BY <1>1, <1>3, UsersOfUnreached DEF Tails

LEMMA NothingHighest ==
    ASSUME LeftoversFeedLeftovers, NoCycleOutsideTheView, NEW C \in Jobs, job[C].pc = "done"
    PROVE  Live(job[C].graph) \ ReachCorrupted(job[C].graph) = {}
<1> DEFINE g == job[C].graph
           left == Live(g) \ ReachCorrupted(g)
<1>1. PICK height \in [left -> Nat] :
         \A n \in left : \A e \in g.outE[n] : e.out \in left => height[e.out] < height[n]
  BY DEF NoCycleOutsideTheView
<1>2. \A n \in left : \E e \in g.outE[n] : e.out \in left
  BY DEF LeftoversFeedLeftovers
<1> DEFINE heights == {height[n] : n \in left}
<1> SUFFICES ASSUME left # {} PROVE FALSE
  OBVIOUS
<1>3. heights \in SUBSET Nat /\ heights # {}
  OBVIOUS
<1>4. PICK m \in heights : \A k \in heights : m <= k
  <2> HIDE DEF heights
  <2> QED BY <1>3, Least
<1>5. PICK n \in left : m = height[n]
  OBVIOUS
<1>6. PICK e \in g.outE[n] : e.out \in left
  BY <1>2
<1>7. height[e.out] < height[n] /\ height[e.out] \in heights /\ height[n] \in Nat
      /\ height[e.out] \in Nat
  <2> HIDE DEF left
  <2> QED BY <1>1, <1>5, <1>6
<1> HIDE DEF left, heights
<1> QED BY <1>4, <1>5, <1>7

\* Tail elimination leaves what the corrupted parties see and, outside it, only what
\* feeds itself: the tails it removes one by one are all there is to remove.
THEOREM OnlyCyclesAreLeft == Spec => []LeftoversFeedLeftovers
<1> QED BY InitFinished, NextFinished, DoneLeftovers, Invariance, PTL DEF Spec

\* Where nothing outside the view feeds itself, only the view is left.
THEOREM OnlyTheViewIsLeftWithoutCycles == Spec => [](NoCycleOutsideTheView => OnlyTheViewIsLeft)
<1>1. Inv /\ LeftoversFeedLeftovers /\ NoCycleOutsideTheView => OnlyTheViewIsLeft
  <2> SUFFICES ASSUME Inv, LeftoversFeedLeftovers, NoCycleOutsideTheView,
                      NEW C \in Jobs, job[C].pc = "done"
               PROVE  Live(job[C].graph) = ReachCorrupted(job[C].graph)
    BY DEF OnlyTheViewIsLeft
  <2>1. Live(job[C].graph) \ ReachCorrupted(job[C].graph) = {}
    BY NothingHighest
  <2>2. Typed(job[C].graph) /\ Synced(job[C].graph)
    BY DEF Inv, JobFits
  <2>3. ReachCorrupted(job[C].graph) \subseteq Live(job[C].graph)
    BY <2>2, ReachClosed
  <2> QED BY <2>1, <2>3
<1> QED BY <1>1, OnlyCyclesAreLeft, Invariance, PTL
-----------------------------------------------------------------------------
(* The cache of considered graphs.                                         *)

\* A graph over the same nodes that looks like k to the cache, but has a higher potential.
Collides(g, k) ==
    \E h : /\ Consistent(h) /\ h.nodes = g.nodes /\ h.corrupted = g.corrupted /\ h.rnd = g.rnd
           /\ h.bub >= g.bub
           /\ Seen(h) = Seen(k) /\ Less(Potential(k), Potential(h))

\* What the cache knows of a search at g are graphs the search has been at.
Remembered(g, s) ==
    \E h : /\ Consistent(h) /\ h.nodes = g.nodes /\ h.corrupted = g.corrupted /\ h.rnd = g.rnd
           /\ Seen(h) = s
           /\ h = g \/ Less(Potential(g), Potential(h))

CacheInv ==
    \A C \in Jobs : job[C].pc \in {"waiting", "search"} =>
        \A s \in job[C].considered : Remembered(job[C].graph, s)

LEMMA FewerBubblesFirst ==
    ASSUME NEW g, NEW h, Typed(g), Typed(h), Less(Potential(g), Potential(h))
    PROVE  g.bub <= h.bub
<1>1. \A i \in 1 .. 4 : Potential(g)[i] \in Int /\ Potential(h)[i] \in Int
  BY PotentialTyped
<1>2. Potential(g)[1] = g.bub /\ Potential(h)[1] = h.bub
  BY Zenon DEF Potential
<1>3. Potential(g)[1] <= Potential(h)[1]
  BY <1>1 DEF Less
<1> QED BY <1>2, <1>3

\* Potentials fall along a search.
LEMMA FallsFurther ==
    ASSUME NEW g, NEW h, NEW k, Typed(g), Typed(h), Typed(k),
           Less(Potential(k), Potential(g)), h = g \/ Less(Potential(g), Potential(h))
    PROVE  Less(Potential(k), Potential(h))
<1>1. \A i \in 1 .. 4 : /\ Potential(g)[i] \in Int /\ Potential(h)[i] \in Int
                        /\ Potential(k)[i] \in Int
  BY PotentialTyped
<1>2. CASE h = g
  BY <1>2
<1>3. CASE Less(Potential(g), Potential(h))
  BY <1>1, <1>3, LessTransitive
<1> QED BY <1>2, <1>3

LEMMA InitCache == Init => CacheInv
<1> SUFFICES ASSUME Init, NEW C \in Jobs PROVE job[C].considered = {}
  BY DEF CacheInv
<1> QED BY DEF Init, StartJobs, Jobs, Waiting

LEMMA RewriteCache ==
    ASSUME Inv, CacheInv, NEW C \in Jobs, Rewrite(C)
    PROVE  \A s \in job'[C].considered : Remembered(job'[C].graph, s)
<1> DEFINE g == job[C].graph
<1>1. job[C].pc = "search" /\ Consistent(g) /\ job[C].rewritings + 1 \in Nat
  BY DEF Inv, Rewrite, JobFits
<1>2. PICK next \in {Next1(C)} \ {g} :
         job' = [job EXCEPT ![C] = [pc |-> "search", graph |-> next,
                                    considered |-> job[C].considered \cup {Seen(next)},
                                    rewritings |-> job[C].rewritings + 1]]
  BY DEF Rewrite
<1>3. Improved(g, next)
  BY <1>1, <1>2, ChosenImproves DEF Next1
<1>4. /\ job'[C].graph = next
      /\ job'[C].considered = job[C].considered \cup {Seen(next)}
  BY <1>2 DEF Inv, Jobs
<1>5. Remembered(next, Seen(next))
  BY <1>3 DEF Remembered, Improved
<1>6. ASSUME NEW s \in job[C].considered PROVE Remembered(next, s)
  <2>1. PICK h : /\ Consistent(h) /\ h.nodes = g.nodes /\ h.corrupted = g.corrupted
                 /\ h.rnd = g.rnd /\ Seen(h) = s
                 /\ h = g \/ Less(Potential(g), Potential(h))
    BY <1>1 DEF CacheInv, Remembered
  <2>2. Less(Potential(next), Potential(h))
    BY <1>1, <1>3, <2>1, FallsFurther DEF Improved, Consistent
  <2> QED BY <1>3, <2>1, <2>2 DEF Remembered, Improved
<1> QED BY <1>4, <1>5, <1>6

LEMMA NextCache == Inv /\ CacheInv /\ [Next]_vars => CacheInv'
<1> SUFFICES ASSUME Inv, CacheInv, [Next]_vars, NEW C \in Jobs',
                    job'[C].pc \in {"waiting", "search"},
                    NEW s \in job'[C].considered
             PROVE  Remembered(job'[C].graph, s)
  BY DEF CacheInv, Jobs
<1>1. CASE job' = job
  BY <1>1 DEF CacheInv, Jobs
<1>2. CASE job' # job
  <2>1. PICK D \in Jobs : JobStep(D) /\ ~Abort(D)
    BY <1>2 DEF Next, vars, Join, Ended, Abort
  <2>2. PICK j : job' = [job EXCEPT ![D] = j]
    BY <2>1, StartJob, RewriteJob, StopJob, TailJob, FinishJob DEF JobStep
  <2>3. Jobs' = Jobs /\ \A E \in Jobs : job'[E] = IF E = D THEN j ELSE job[E]
    BY <2>2 DEF Inv, Jobs
  <2>4. CASE D # C
    BY <2>3, <2>4 DEF CacheInv
  <2>5. CASE D = C
    <3>1. CASE Start(C)
      <4>1. job' = [job EXCEPT ![C] = [job[C] EXCEPT !.pc = "search"]] /\ job[C].pc = "waiting"
        BY <3>1 DEF Start
      <4>2. job'[C] = [pc |-> "search", graph |-> job[C].graph,
                       considered |-> job[C].considered, rewritings |-> job[C].rewritings]
        <5>1. job'[C] = [job[C] EXCEPT !.pc = "search"]
          BY <2>3, <4>1 DEF Inv, Jobs
        <5>2. job[C] = [pc |-> job[C].pc, graph |-> job[C].graph,
                        considered |-> job[C].considered, rewritings |-> job[C].rewritings]
          BY <2>3 DEF Inv, JobFits
        <5> QED BY <5>1, <5>2, FieldChanged
      <4>3. job'[C].graph = job[C].graph /\ job'[C].considered = job[C].considered
        BY <4>2
      <4> QED BY <2>3, <4>1, <4>3 DEF CacheInv
    <3>2. CASE Rewrite(C)
      BY <2>3, <3>2, RewriteCache
    <3>3. ~(StopSearch(C) \/ EliminateTail(C) \/ Finish(C))
      <4>1. ASSUME NEW k, job' = [job EXCEPT ![C] = k] PROVE k.pc \in {"waiting", "search"}
        <5>1. job'[C] = k
          BY <2>3, <4>1 DEF Inv, Jobs
        <5> QED BY <5>1
      <4> QED BY <2>3, <4>1, StopJob, TailJob, FinishJob
    <3> QED BY <2>1, <2>5, <3>1, <3>2, <3>3 DEF JobStep
  <2> QED BY <2>4, <2>5
<1> QED BY <1>1, <1>2

THEOREM CacheRemembers == Spec => []CacheInv
<1> QED BY InitCache, NextCache, Invariance, PTL DEF Spec

\* A search that is about to give up, and what it could still do.
GivesUp(C) ==
    /\ job[C].pc = "search" /\ HasBubble(job[C].graph) /\ AssertsHold(C)
    /\ Next1(C) = job[C].graph
Missed(C) == Improvements(job[C].graph, job[C].rewritings + 1)

\* What a search misses when it gives up is mistaken for a graph it has been at, one of
\* higher potential, and has as many bubbles left: what would lower their number is taken.
MissesOnlyCollisions ==
    \A C \in Jobs : GivesUp(C) =>
        \A res \in Missed(C) : /\ Collides(job[C].graph, res.graph)
                               /\ res.graph.bub = job[C].graph.bub

\* The hash tells apart what a search is at and where it has been.
NoCollisions ==
    \A C \in Jobs : job[C].pc = "search" =>
        \A res \in Missed(C) : ~Collides(job[C].graph, res.graph)

LEMMA StuckOrCollision == Inv /\ CacheInv => MissesOnlyCollisions
<1> SUFFICES ASSUME Inv, CacheInv, NEW C \in Jobs, GivesUp(C), NEW res \in Missed(C)
             PROVE  /\ Collides(job[C].graph, res.graph)
                    /\ res.graph.bub = job[C].graph.bub
  BY DEF MissesOnlyCollisions
<1> DEFINE g == job[C].graph
           k == res.graph
           born == job[C].rewritings + 1
<1>1. Consistent(g) /\ born \in Nat /\ job[C].pc = "search"
  BY DEF Inv, JobFits, GivesUp
<1>2. Seen(k) \in job[C].considered
  <2>1. Chosen(g, job[C].considered, born) = g
    BY DEF GivesUp, Next1
  <2>2. res \in Improvements(g, born)
    BY DEF Missed
  <2> HIDE DEF g, born, k
  <2> QED BY <1>1, <2>1, <2>2, ChosenKeeps DEF k
<1>3. PICK h : /\ Consistent(h) /\ h.nodes = g.nodes /\ h.corrupted = g.corrupted /\ h.rnd = g.rnd
               /\ Seen(h) = Seen(k)
               /\ h = g \/ Less(Potential(g), Potential(h))
  BY <1>1, <1>2 DEF CacheInv, Remembered
<1>4. PICK r \in Rewriter : res \in Results(g, r, born) /\ Less(res.rank, Potential(g))
  BY DEF Missed, Improvements
<1>5. Consistent(k) /\ Less(Potential(k), Potential(g))
  BY <1>1, <1>4, ResultConsistent
<1>6. Typed(g) /\ Typed(h) /\ Typed(k)
  BY <1>1, <1>3, <1>5 DEF Consistent
<1> HIDE DEF g, k, born
<1>7. Less(Potential(k), Potential(h))
  BY <1>3, <1>5, <1>6, FallsFurther
<1>8. h.bub = k.bub
  BY <1>3 DEF Seen
<1>9. k.bub <= g.bub /\ g.bub <= h.bub /\ g.bub \in Int /\ h.bub \in Int /\ k.bub \in Int
  <2>1. g.bub \in Int /\ h.bub \in Int /\ k.bub \in Int
    BY <1>6 DEF Typed
  <2>2. k.bub <= g.bub
    BY <1>5, <1>6, FewerBubblesFirst
  <2>3. g.bub <= h.bub
    BY <1>3, <1>6, <2>1, FewerBubblesFirst
  <2> QED BY <2>1, <2>2, <2>3
<1>10. k.bub = g.bub
  BY <1>8, <1>9
<1>11. Collides(g, k)
  BY <1>3, <1>7, <1>9 DEF Collides
<1> QED BY <1>10, <1>11 DEF g, k

\* A search gives up early only when the cache mistakes every improvement for a graph it
\* has been at, and never one that would lower the number of bubbles.
THEOREM EarlyStopsAreCollisions == Spec => []MissesOnlyCollisions
<1> QED BY StuckOrCollision, CacheRemembers, Invariance, PTL

\* As long as the hash tells the graphs of a search apart, it stops only when it is stuck.
THEOREM StopsOnlyWhenStuckWithoutCollisions == Spec => [](NoCollisions => StopsOnlyWhenStuck)
<1>1. Inv /\ MissesOnlyCollisions /\ NoCollisions => StopsOnlyWhenStuck
  <2> SUFFICES ASSUME Inv, MissesOnlyCollisions, NoCollisions, NEW C \in Jobs,
                      job[C].pc = "search" /\ HasBubble(job[C].graph) /\ AssertsHold(C)
               PROVE  Next1(C) = job[C].graph
                         <=> Improvements(job[C].graph, job[C].rewritings + 1) = {}
    BY DEF StopsOnlyWhenStuck
  <2>1. ASSUME Next1(C) = job[C].graph PROVE Missed(C) = {}
    BY <2>1 DEF MissesOnlyCollisions, NoCollisions, GivesUp
  <2>2. ASSUME Missed(C) = {} PROVE Next1(C) = job[C].graph
    <3>1. Consistent(job[C].graph) /\ job[C].rewritings + 1 \in Nat
      BY DEF Inv, JobFits
    <3> QED BY <2>2, <3>1, ChosenKeeps DEF Missed, Next1
  <2> QED BY <2>1, <2>2 DEF Missed
<1> QED BY <1>1, EarlyStopsAreCollisions, Invariance, PTL
-----------------------------------------------------------------------------
(* How long a search can be.                                               *)

\* The ids of the nodes are positions in a vector.
Numbered(g) == Ids(g) \subseteq 0 .. Cardinality(Ids(g))

LEMMA PotentialBounds ==
    ASSUME NEW g, Typed(g), BubbleCountExact(g), Numbered(g)
    PROVE  LET N == Cardinality(Ids(g))
               p == Potential(g)
           IN /\ N \in Nat /\ p[1] \in 0 .. N /\ p[2] \in 0 .. N /\ p[3] = N
              /\ p[4] \in Int /\ 0 <= p[4] /\ p[4] <= N * N
<1> DEFINE size == Cardinality(Ids(g))
           honest == {n \in Live(g) : ~IsCorrupted(g, n)}
           free == {n \in honest : InDeg(g, n) = 0}
           reached == ReachCorrupted(g) \cap honest
           f == CHOOSE x : Loop(Summing(size), 0, free, x)
<1>1. size \in Nat /\ IsFiniteSet(Ids(g))
  BY FS_CardinalityType DEF Typed
<1>2. free \in SUBSET Ids(g) /\ reached \in SUBSET Ids(g) /\ Bubbles(g) \in SUBSET Ids(g)
  BY DEF Live, Bubbles
<1>3. ASSUME NEW S \in SUBSET Ids(g)
      PROVE  IsFiniteSet(S) /\ Cardinality(S) \in 0 .. size
  <2>1. IsFiniteSet(S) /\ Cardinality(S) <= size
    BY <1>1, FS_Subset
  <2>2. Cardinality(S) \in Nat
    BY <2>1, FS_CardinalityType
  <2> HIDE DEF size
  <2> QED BY <1>1, <2>1, <2>2
<1>4. /\ Potential(g)[1] = g.bub
      /\ Potential(g)[2] = Cardinality(reached)
      /\ Potential(g)[3] = size
      /\ Potential(g)[4] = f[free]
  <2>1. /\ Potential(g)[1] = g.bub
        /\ Potential(g)[2] = Cardinality(reached)
        /\ Potential(g)[3] = size
    BY Zenon DEF Potential
  <2>2. Potential(g)[4] = f[free]
    BY DEF Potential, MapThenSumSet, MapThenFoldSet, Loop, Edit, Summing
  <2> QED BY <2>1, <2>2
<1>5. Loop(Summing(size), 0, free, f)
  BY <1>2, <1>3, LoopEnds
<1>6. \A n \in free : size - n \in 0 .. size
  <2> SUFFICES ASSUME NEW n \in free PROVE size - n \in 0 .. size
    OBVIOUS
  <2>1. n \in 0 .. size
    BY <1>2 DEF Numbered
  <2> HIDE DEF size
  <2> QED BY <1>1, <2>1
<1>7. g.bub \in 0 .. size /\ Cardinality(reached) \in 0 .. size
  BY <1>2, <1>3 DEF BubbleCountExact
<1> HIDE DEF size, honest, free, reached, f
<1> DEFINE Small(S) == f[S] \in Int /\ 0 <= f[S] /\ f[S] <= Cardinality(S) * size
           Bad == {k \in Nat : \E S \in SUBSET free : Cardinality(S) = k /\ ~Small(S)}
<1>8. \A S \in SUBSET free : IsFiniteSet(S) /\ Cardinality(S) \in Nat /\ Cardinality(S) <= size
  BY <1>1, <1>2, <1>3
<1>9. \A S \in SUBSET free : Small(S)
  <2> SUFFICES ASSUME Bad # {} PROVE FALSE
    BY <1>8
  <2>1. PICK k \in Bad : \A j \in Bad : k <= j
    <3> HIDE DEF Bad
    <3>1. Bad \in SUBSET Nat
      BY DEF Bad
    <3> QED BY <3>1, Least
  <2>2. PICK S \in SUBSET free : Cardinality(S) = k /\ ~Small(S)
    OBVIOUS
  <2>3. S # {}
    <3>1. f[{}] = 0 /\ Cardinality({}) = 0
      BY <1>5, FS_EmptySet DEF Loop
    <3>2. Small({})
      BY <1>1, <3>1
    <3> HIDE DEF Small
    <3> QED BY <2>2, <3>2
  <2> DEFINE e == CHOOSE x \in S : TRUE
             R == S \ {e}
  <2>4. e \in S /\ R \in SUBSET free /\ f[S] = size - e + f[R]
    BY <1>5, <2>3 DEF Loop, Edit, Summing
  <2> HIDE DEF e
  <2>5. Cardinality(R) \in Nat /\ Cardinality(R) = k - 1 /\ k \in Nat
    BY <1>8, <2>2, <2>4, FS_RemoveElement
  <2> HIDE DEF R
  <2>6. Small(R)
    <3>1. Cardinality(R) \notin Bad
      <4>1. ~(k <= Cardinality(R))
        BY <2>5
      <4> HIDE DEF Bad
      <4> QED BY <2>1, <4>1
    <3> QED BY <2>4, <2>5, <3>1
  <2>7. Small(S)
    <3> DEFINE d == size - e
               c == Cardinality(R)
    <3>1. d \in 0 .. size
      BY <1>6, <2>4
    <3>2. (c + 1) * size = c * size + size /\ c * size \in Int
      BY <1>1, <2>5
    <3>3. f[S] = d + f[R] /\ f[R] \in Int /\ 0 <= f[R] /\ f[R] <= c * size
      BY <2>4, <2>6
    <3>4. Cardinality(S) = c + 1
      BY <2>2, <2>5
    <3> HIDE DEF d, c
    <3>5. f[S] \in Int /\ 0 <= f[S] /\ f[S] <= (c + 1) * size
      BY <1>1, <3>1, <3>2, <3>3
    <3> QED BY <3>4, <3>5
  <2> QED BY <2>2, <2>7
<1>10. f[free] \in Int /\ 0 <= f[free] /\ f[free] <= size * size
  <2>1. Small(free) /\ Cardinality(free) \in Nat /\ Cardinality(free) <= size
    BY <1>8, <1>9
  <2> DEFINE c == Cardinality(free)
  <2>2. c \in Nat /\ c <= size /\ f[free] \in Int /\ 0 <= f[free] /\ f[free] <= c * size
    BY <2>1
  <2> HIDE DEF c
  <2>3. c * size <= size * size /\ c * size \in Int /\ size * size \in Int
    BY <1>1, <2>2
  <2> QED BY <2>2, <2>3
<1> QED BY <1>1, <1>4, <1>7, <1>10 DEF size

\* The potential as one number, for the potentials of graphs of N nodes.
Measure(N, p) == (p[1] * (N + 1) + p[2]) * (N * N + 1) + p[4]

\* As many rewritings as there are such potentials.
MostRewritings(N) == ((N + 1) * (N + 1)) * (N * N + 1)

LEMMA TwoDigits ==
    ASSUME NEW M \in Nat, NEW a \in Int, NEW b \in Int, NEW c \in Int, NEW d \in Int,
           0 <= b, b < M, 0 <= d, d < M, a < c \/ (a = c /\ b < d)
    PROVE  a * M + b < c * M + d /\ a * M + b \in Int /\ c * M + d \in Int
<1>1. a * M \in Int /\ c * M \in Int /\ (a + 1) * M = a * M + M
  OBVIOUS
<1>2. CASE a < c
  <2>1. a + 1 <= c
    BY <1>2
  <2>2. (a + 1) * M <= c * M
    <3>1. PICK k \in Nat : c = (a + 1) + k
      <4>1. c - (a + 1) \in Nat /\ c = (a + 1) + (c - (a + 1))
        BY <2>1
      <4> QED BY <4>1
    <3>2. c * M = (a + 1) * M + k * M /\ k * M >= 0 /\ k * M \in Int /\ (a + 1) * M \in Int
      BY <3>1
    <3> QED BY <3>2
  <2> QED BY <1>1, <2>2
<1>3. CASE a = c /\ b < d
  BY <1>1, <1>3
<1> QED BY <1>2, <1>3

LEMMA MeasureBounds ==
    ASSUME NEW N \in Nat, NEW p, p[1] \in 0 .. N, p[2] \in 0 .. N,
           p[4] \in Int, 0 <= p[4], p[4] <= N * N
    PROVE  Measure(N, p) \in Nat /\ Measure(N, p) < MostRewritings(N)
<1> DEFINE M == N + 1
           K == N * N + 1
           a == p[1] * M + p[2]
<1>1. M \in Nat /\ K \in Nat /\ M > 0 /\ K > 0 /\ N < M
  BY DEF M
<1>2. p[1] * M \in Int /\ p[1] * M >= 0 /\ p[1] < M
  BY <1>1
<1>3. a < M * M /\ a \in Int /\ a >= 0
  <2>1. p[1] * M + p[2] < M * M + 0
    BY <1>1, <1>2, TwoDigits
  <2>2. M * M \in Int
    BY <1>1
  <2> HIDE DEF M
  <2> QED BY <1>1, <1>2, <2>1, <2>2
<1>4. p[4] < K
  <2>1. N * N \in Int
    OBVIOUS
  <2> QED BY <2>1
<1> HIDE DEF M, K, a
<1>5. a * K \in Int /\ a * K >= 0 /\ M * M \in Int /\ (M * M) * K \in Int
  BY <1>1, <1>3
<1>6. a * K + p[4] < (M * M) * K + 0
  BY <1>1, <1>3, <1>4, <1>5, TwoDigits
<1>7. Measure(N, p) = a * K + p[4] /\ MostRewritings(N) = (M * M) * K
  BY DEF Measure, MostRewritings, M, K, a
<1> QED BY <1>5, <1>6, <1>7

LEMMA MeasureFalls ==
    ASSUME NEW N \in Nat, NEW p, NEW q, Less(p, q), p[3] = q[3],
           p[1] \in 0 .. N, p[2] \in 0 .. N, p[4] \in Int, 0 <= p[4], p[4] <= N * N,
           q[1] \in 0 .. N, q[2] \in 0 .. N, q[4] \in Int, 0 <= q[4], q[4] <= N * N,
           p[3] \in Int
    PROVE  Measure(N, p) < Measure(N, q)
<1> DEFINE M == N + 1
           K == N * N + 1
           a == p[1] * M + p[2]
           b == q[1] * M + q[2]
<1>1. \/ p[1] < q[1]
      \/ p[1] = q[1] /\ p[2] < q[2]
      \/ p[1] = q[1] /\ p[2] = q[2] /\ p[4] < q[4]
  <2>1. PICK i \in 1 .. 4 : p[i] < q[i] /\ \A j \in 1 .. i - 1 : p[j] = q[j]
    BY DEF Less
  <2>2. CASE i = 1
    BY <2>1, <2>2
  <2>3. CASE i = 2
    BY <2>1, <2>3
  <2>4. CASE i = 3
    BY <2>1, <2>4
  <2>5. CASE i = 4
    <3>1. 1 \in 1 .. i - 1 /\ 2 \in 1 .. i - 1
      BY <2>5
    <3> QED BY <2>1, <2>5, <3>1
  <2> QED BY <2>2, <2>3, <2>4, <2>5
<1>2. M \in Nat /\ K \in Nat /\ p[4] < K /\ q[4] < K
  <2>1. N * N \in Nat
    OBVIOUS
  <2> QED BY <2>1
<1>3. a \in Int /\ b \in Int
  BY <1>2
<1>4. a < b \/ (a = b /\ p[4] < q[4])
  <2>1. CASE p[1] < q[1] \/ (p[1] = q[1] /\ p[2] < q[2])
    <3>1. /\ p[2] \in Int /\ 0 <= p[2] /\ p[2] < M /\ q[2] \in Int /\ 0 <= q[2] /\ q[2] < M
          /\ p[1] \in Int /\ q[1] \in Int
      OBVIOUS
    <3> HIDE DEF M
    <3> QED BY <1>2, <2>1, <3>1, TwoDigits
  <2>2. CASE p[1] = q[1] /\ p[2] = q[2] /\ p[4] < q[4]
    BY <2>2
  <2> QED BY <1>1, <2>1, <2>2
<1> HIDE DEF M, K, a, b
<1>5. a * K + p[4] < b * K + q[4]
  BY <1>2, <1>3, <1>4, TwoDigits
<1> QED BY <1>5 DEF Measure, M, K, a, b

\* What a search has done and what it can still do.
LengthFits(j) ==
    LET N == Cardinality(Ids(j.graph))
    IN Numbered(j.graph) =>
          /\ N \in Nat /\ j.rewritings < MostRewritings(N)
          /\ j.pc \in {"waiting", "search"} =>
                j.rewritings + Measure(N, Potential(j.graph)) < MostRewritings(N)

LengthInv == \A C \in Jobs : LengthFits(job[C])

LEMMA SameLength ==
    ASSUME NEW j, NEW k, LengthFits(j), k.rewritings = j.rewritings, Ids(k.graph) = Ids(j.graph),
           k.pc \in {"waiting", "search"} => j.pc \in {"waiting", "search"} /\ k.graph = j.graph
    PROVE  LengthFits(k)
  BY DEF LengthFits, Numbered

LEMMA InitLength == Init => LengthInv
<1> SUFFICES ASSUME Init, NEW C \in Jobs PROVE LengthFits(job[C])
  BY DEF LengthInv
<1> DEFINE g == job[C].graph
           N == Cardinality(Ids(g))
           m == Measure(N, Potential(g))
<1>1. JobFits(C, job[C]) /\ job[C].rewritings = 0
  BY StartGraphs DEF Init, StartJobs, Jobs, Waiting
<1>2. SUFFICES ASSUME Numbered(g)
               PROVE  N \in Nat /\ 0 < MostRewritings(N) /\ 0 + m < MostRewritings(N)
  BY <1>1 DEF LengthFits
<1>3. /\ N \in Nat /\ Potential(g)[1] \in 0 .. N /\ Potential(g)[2] \in 0 .. N
      /\ Potential(g)[4] \in Int /\ 0 <= Potential(g)[4] /\ Potential(g)[4] <= N * N
  BY <1>1, <1>2, PotentialBounds DEF JobFits
<1> HIDE DEF N, g
<1>4. m \in Nat /\ m < MostRewritings(N)
  BY <1>3, MeasureBounds
<1> HIDE DEF m
<1>5. MostRewritings(N) \in Int
  <2> DEFINE M == N + 1
             K == N * N + 1
  <2>1. M \in Nat /\ K \in Nat
    BY <1>3
  <2> HIDE DEF M, K
  <2>2. (M * M) * K \in Int
    BY <2>1
  <2> QED BY <2>2 DEF MostRewritings, M, K
<1> QED BY <1>3, <1>4, <1>5

LEMMA RewriteLength ==
    ASSUME Inv, LengthInv, NEW C \in Jobs, Rewrite(C)
    PROVE  LengthFits(job'[C])
<1> DEFINE g == job[C].graph
           h == job'[C].graph
           N == Cardinality(Ids(g))
           p == Potential(g)
           q == Potential(h)
<1>1. /\ JobFits(C, job[C]) /\ LengthFits(job[C])
      /\ job[C].pc = "search" /\ Consistent(g) /\ job[C].rewritings \in Nat
  BY DEF Inv, Rewrite, JobFits, LengthInv
<1>2. PICK next \in {Next1(C)} \ {g} :
         job' = [job EXCEPT ![C] = [pc |-> "search", graph |-> next,
                                    considered |-> job[C].considered \cup {Seen(next)},
                                    rewritings |-> job[C].rewritings + 1]]
  BY DEF Rewrite
<1>3. Improved(g, next)
  BY <1>1, <1>2, ChosenImproves DEF Next1
<1>4. h = next /\ job'[C].rewritings = job[C].rewritings + 1 /\ job'[C].pc = "search"
  BY <1>2 DEF Inv, Jobs
<1>5. Consistent(h) /\ Ids(h) = Ids(g) /\ Less(q, p)
  BY <1>3, <1>4 DEF Improved, Ids
<1> SUFFICES ASSUME Numbered(g)
             PROVE  /\ N \in Nat /\ job'[C].rewritings < MostRewritings(N)
                    /\ job'[C].rewritings + Measure(N, q) < MostRewritings(N)
  BY <1>5 DEF LengthFits, Numbered
<1>6. /\ N \in Nat /\ p[1] \in 0 .. N /\ p[2] \in 0 .. N /\ p[3] = N
      /\ p[4] \in Int /\ 0 <= p[4] /\ p[4] <= N * N
  BY <1>1, PotentialBounds DEF JobFits
<1>7. /\ q[1] \in 0 .. N /\ q[2] \in 0 .. N /\ q[3] = N
      /\ q[4] \in Int /\ 0 <= q[4] /\ q[4] <= N * N
  <2>1. Numbered(h)
    BY <1>5 DEF Numbered
  <2>2. Typed(h) /\ BubbleCountExact(h)
    BY <1>5 DEF Consistent
  <2> HIDE DEF h
  <2> QED BY <1>5, <2>1, <2>2, PotentialBounds
<1>8. job[C].rewritings + Measure(N, p) < MostRewritings(N)
  BY <1>1 DEF LengthFits
<1> HIDE DEF p, q, N, h
<1>9. Measure(N, q) \in Nat /\ Measure(N, p) \in Nat /\ Measure(N, q) < Measure(N, p)
  BY <1>5, <1>6, <1>7, MeasureBounds, MeasureFalls
<1>10. MostRewritings(N) \in Int
  <2> DEFINE M == N + 1
             K == N * N + 1
  <2>1. M \in Nat /\ K \in Nat
    BY <1>6
  <2> HIDE DEF M, K
  <2>2. (M * M) * K \in Int
    BY <2>1
  <2> QED BY <2>2 DEF MostRewritings, M, K
<1> QED BY <1>1, <1>4, <1>6, <1>8, <1>9, <1>10

LEMMA NextLength == Inv /\ LengthInv /\ [Next]_vars => LengthInv'
<1> SUFFICES ASSUME Inv, LengthInv, [Next]_vars, NEW C \in Jobs' PROVE LengthFits(job'[C])
  BY DEF LengthInv, Jobs
<1>1. CASE job' = job
  BY <1>1 DEF LengthInv, Jobs
<1>2. CASE job' # job
  <2>1. PICK D \in Jobs : JobStep(D) /\ ~Abort(D)
    BY <1>2 DEF Next, vars, Join, Ended, Abort
  <2>2. PICK j : job' = [job EXCEPT ![D] = j]
    BY <2>1, StartJob, RewriteJob, StopJob, TailJob, FinishJob DEF JobStep
  <2>3. Jobs' = Jobs /\ \A E \in Jobs : job'[E] = IF E = D THEN j ELSE job[E]
    BY <2>2 DEF Inv, Jobs
  <2>4. CASE D # C
    BY <2>3, <2>4 DEF LengthInv
  <2>5. CASE D = C /\ Rewrite(C)
    BY <2>3, <2>5, RewriteLength
  <2>6. CASE D = C /\ ~Rewrite(C)
    <3>1. JobFits(C, job[C]) /\ LengthFits(job[C])
      BY <2>3 DEF Inv, LengthInv
    <3>2. job[C] = [pc |-> job[C].pc, graph |-> job[C].graph,
                    considered |-> job[C].considered, rewritings |-> job[C].rewritings]
      BY <3>1 DEF JobFits
    <3>3. \A x : job' = [job EXCEPT ![C] = x] => job'[C] = x
      BY <2>3 DEF Inv, Jobs
    <3>4. CASE Start(C) \/ StopSearch(C) \/ Finish(C)
      <4>1. PICK pc : /\ job' = [job EXCEPT ![C] = [job[C] EXCEPT !.pc = pc]]
                      /\ pc \in {"waiting", "search"} => job[C].pc \in {"waiting", "search"}
        <5>1. CASE Start(C)
          <6>1. job' = [job EXCEPT ![C] = [job[C] EXCEPT !.pc = "search"]] /\ job[C].pc = "waiting"
            BY <5>1 DEF Start
          <6> QED BY <6>1
        <5>2. CASE StopSearch(C)
          <6>1. job' = [job EXCEPT ![C] = [job[C] EXCEPT !.pc = "tail"]] /\ job[C].pc = "search"
            BY <5>2 DEF StopSearch
          <6> QED BY <6>1
        <5>3. CASE Finish(C)
          <6>1. job' = [job EXCEPT ![C] = [job[C] EXCEPT !.pc = "done"]]
            BY <5>3 DEF Finish
          <6>2. ~("done" \in {"waiting", "search"})
            OBVIOUS
          <6> QED BY <6>1, <6>2
        <5> QED BY <3>4, <5>1, <5>2, <5>3
      <4>2. job'[C] = [pc |-> pc, graph |-> job[C].graph, considered |-> job[C].considered,
                       rewritings |-> job[C].rewritings]
        BY <3>2, <3>3, <4>1, FieldChanged
      <4>3. /\ job'[C].rewritings = job[C].rewritings /\ job'[C].graph = job[C].graph
            /\ job'[C].pc = pc
        BY <4>2
      <4> QED BY <3>1, <4>1, <4>3, SameLength
    <3>5. CASE EliminateTail(C)
      <4>1. job[C].pc = "tail"
        BY <3>5 DEF EliminateTail
      <4>2. PICK n \in Tails(job[C].graph) :
               job' = [job EXCEPT ![C] = [job[C] EXCEPT !.graph = EliminateNode(job[C].graph, n)]]
        BY <3>5 DEF EliminateTail
      <4>3. job'[C] = [pc |-> job[C].pc, graph |-> EliminateNode(job[C].graph, n),
                       considered |-> job[C].considered, rewritings |-> job[C].rewritings]
        BY <3>2, <3>3, <4>2, FieldChanged
      <4>4. /\ job'[C].rewritings = job[C].rewritings /\ job'[C].pc = "tail"
            /\ job'[C].graph = EliminateNode(job[C].graph, n)
        BY <4>1, <4>3
      <4>5. Ids(job'[C].graph) = Ids(job[C].graph)
        BY <4>4 DEF EliminateNode, Changed, Graph, Ids
      <4> QED BY <3>1, <4>4, <4>5, SameLength
    <3> QED BY <2>1, <2>6, <3>4, <3>5 DEF JobStep
  <2> QED BY <2>4, <2>5, <2>6
<1> QED BY <1>1, <1>2

\* No search is longer than there are potentials: (N + 1) (N + 1) (N N + 1) of them, in a
\* graph of N nodes.
SearchesAreShort ==
    \A C \in Jobs :
        LET N == Cardinality(Ids(job[C].graph))
        IN Numbered(job[C].graph) => job[C].rewritings < MostRewritings(N)

\* The loop of tryProving ends after a number of rewritings that is a polynomial in the
\* number of nodes, whatever the cache of considered graphs does.
THEOREM SearchesStayShort == Spec => []SearchesAreShort
<1>1. LengthInv => SearchesAreShort
  BY DEF LengthInv, LengthFits, SearchesAreShort
<1> QED BY <1>1, InitLength, NextLength, Invariance, PTL DEF Spec
=============================================================================
