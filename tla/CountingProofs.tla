--------------------------- MODULE CountingProofs ---------------------------
(***************************************************************************)
(* Counting and computing: the least number, the first members of a class  *)
(* of parties, one-to-one images of finite sets, remainders, recursive     *)
(* functions and sums.                                                     *)
(***************************************************************************)
EXTENDS CorruptedSets, Shamir, FiniteSetTheorems, WellFoundedInduction, TLAPS

\* Every nonempty set of naturals has a least element; the inductions over positions
\* and classes go through it, by a minimal counterexample.
LEMMA Least ==
    ASSUME NEW S \in SUBSET Nat, S # {}
    PROVE  \E m \in S : \A k \in S : m <= k
<1> DEFINE R == {ss \in Nat \X Nat : ss[1] < ss[2]}
<1>1. OpToRel(<, Nat) = R
  BY Zenon DEF OpToRel
<1>2. IsWellFoundedOn(R, Nat)
  BY <1>1, NatLessThanWellFounded, Zenon
<1> HIDE DEF R
<1>3. PICK m \in S : \A k \in S : ~(<<k, m>> \in R)
  BY <1>2, WFMin, Zenon
<1>4. \A k \in S : ~(k < m)
  BY <1>3 DEF R
<1> QED BY <1>4

LEMMA FirstNumbers ==
    \A k \in Nat : IsFiniteSet(1 .. k) /\ Cardinality(1 .. k) = k /\ 1 .. k \subseteq Nat
BY FS_Interval

\* The loop over a class has taken k parties after k turns.
LEMMA FirstSize ==
    ASSUME NEW S \in SUBSET Nat, IsFiniteSet(S)
    PROVE  \A k \in 0 .. Cardinality(S) :
              First(S, k) \subseteq S /\ Cardinality(First(S, k)) = k
<1> DEFINE rank(p) == Cardinality({q \in S : q < p})
           Bad == {k \in 0 .. Cardinality(S) : Cardinality(First(S, k)) # k}
<1>1. \A k : First(S, k) \subseteq S /\ \A p : p \in First(S, k) <=> p \in S /\ rank(p) < k
  BY DEF First
<1>2. \A p \in S : p \in Nat
  OBVIOUS
<1>3. Cardinality(S) \in Nat
  BY FS_CardinalityType
<1>4. \A p : IsFiniteSet({q \in S : q < p}) /\ rank(p) \in Nat
  <2> SUFFICES ASSUME NEW p PROVE IsFiniteSet({q \in S : q < p}) /\ rank(p) \in Nat
    OBVIOUS
  <2>1. {q \in S : q < p} \in SUBSET S
    OBVIOUS
  <2>2. IsFiniteSet({q \in S : q < p})
    BY <2>1, FS_Subset
  <2> QED BY <2>2, FS_CardinalityType
<1>5. \A p, q \in S : p <= q => rank(p) <= rank(q)
  <2> SUFFICES ASSUME NEW p \in S, NEW q \in S, p <= q PROVE rank(p) <= rank(q)
    OBVIOUS
  <2>1. {r \in S : r < p} \in SUBSET {r \in S : r < q}
    <3>1. \A r \in S : r < p => r < q
      BY <1>2
    <3> QED BY <3>1
  <2> QED BY <1>4, <2>1, FS_Subset
<1>6. \A p, q \in S : p < q => rank(p) < rank(q)
  <2> SUFFICES ASSUME NEW p \in S, NEW q \in S, p < q PROVE rank(p) < rank(q)
    OBVIOUS
  <2>1. p < q
    OBVIOUS
  <2>2. {r \in S : r < p} \cup {p} \in SUBSET {r \in S : r < q} /\ p \notin {r \in S : r < p}
    <3>1. (\A r \in S : r < p => r < q) /\ ~(p < p)
      BY <1>2
    <3> QED BY <2>1, <3>1
  <2>3. Cardinality({r \in S : r < p} \cup {p}) = rank(p) + 1
    BY <1>4, <2>2, FS_AddElement
  <2>4. Cardinality({r \in S : r < p} \cup {p}) <= rank(q)
    BY <1>4, <2>2, FS_Subset
  <2> QED BY <1>4, <2>3, <2>4
<1>7. \A p \in S : rank(p) \in Nat
  BY <1>4
<1> HIDE DEF rank
<1> SUFFICES ASSUME Bad # {} PROVE FALSE
  BY <1>1
<1>8. PICK k \in Bad : \A j \in Bad : k <= j
  <2> HIDE DEF Bad
  <2>1. Bad \in SUBSET Nat
    BY <1>3 DEF Bad
  <2> QED BY <2>1, Least
<1>9. CASE k = 0
  <2>1. First(S, 0) = {}
    <3>1. ASSUME NEW p \in First(S, 0) PROVE FALSE
      <4>1. p \in S /\ rank(p) < 0
        BY <1>1
      <4> QED BY <1>7, <4>1
    <3> QED BY <3>1
  <2> QED BY <1>9, <2>1, FS_EmptySet
<1>10. CASE k # 0
  <2>1. k - 1 \in 0 .. Cardinality(S) /\ k \in Nat /\ k <= Cardinality(S)
    BY <1>3, <1>10
  <2>2. Cardinality(First(S, k - 1)) = k - 1
    <3>1. k - 1 \notin Bad
      <4> HIDE DEF Bad
      <4> QED BY <1>8, <2>1
    <3> QED BY <2>1, <3>1
  <2> DEFINE F == First(S, k - 1)
  <2>3. F \in SUBSET S /\ IsFiniteSet(F) /\ S \ F # {}
    <3>1. F \in SUBSET S
      BY <1>1
    <3>2. IsFiniteSet(F)
      BY <3>1, FS_Subset
    <3> QED BY <2>1, <2>2, <3>1, <3>2
  <2>4. PICK p \in S \ F : \A q \in S \ F : p <= q
    <3>1. S \ F \in SUBSET Nat
      OBVIOUS
    <3> HIDE DEF F
    <3> QED BY <2>3, <3>1, Least
  <2>5. {q \in S : q < p} = F
    <3>1. ASSUME NEW q \in S, q < p PROVE q \in F
      BY <2>4, <3>1
    <3>2. ASSUME NEW q \in F PROVE q < p
      <4>1. q \in S /\ rank(q) < k - 1 /\ ~(rank(p) < k - 1)
        BY <1>1, <2>4
      <4>2. ~(rank(p) <= rank(q))
        BY <1>7, <2>1, <2>4, <4>1
      <4> QED BY <1>5, <4>1, <4>2
    <3> QED BY <2>3, <3>1, <3>2
  <2>6. rank(p) = k - 1
    BY <2>2, <2>5 DEF rank
  <2>7. First(S, k) = F \cup {p}
    <3>1. ASSUME NEW q \in First(S, k), q \notin F PROVE q = p
      <4>1. q \in S \ F /\ rank(q) < k
        BY <1>1, <3>1
      <4>2. p <= q /\ ~(p < q)
        BY <1>2, <1>7, <1>6, <2>1, <2>4, <2>6, <4>1
      <4> QED BY <4>1, <4>2
    <3>2. F \subseteq First(S, k)
      <4>1. ASSUME NEW q \in F PROVE q \in S /\ rank(q) < k
        <5>1. q \in S /\ rank(q) < k - 1
          BY <1>1
        <5> QED BY <1>7, <2>1, <5>1
      <4> HIDE DEF F
      <4> QED BY <1>1, <4>1
    <3>3. p \in First(S, k)
      BY <1>1, <2>1, <2>6
    <3> QED BY <3>1, <3>2, <3>3
  <2>8. Cardinality(First(S, k)) = k
    <3> HIDE DEF F
    <3>1. Cardinality(F \cup {p}) = Cardinality(F) + 1
      BY <2>3, <2>4, FS_AddElement
    <3> QED BY <2>1, <2>2, <2>7, <3>1 DEF F
  <2> QED BY <2>8
<1> QED BY <1>9, <1>10

\* What is counted by distinct marks.
LEMMA MarkedApart ==
    ASSUME NEW S, IsFiniteSet(S), NEW f, \A x, y \in S : f[x] = f[y] => x = y
    PROVE  IsFiniteSet({f[x] : x \in S}) /\ Cardinality({f[x] : x \in S}) = Cardinality(S)
<1> DEFINE I == {f[x] : x \in S}
           h == [x \in S |-> f[x]]
<1>1. h \in Bijection(S, I)
  BY DEF Bijection, Injection, Surjection, IsInjective
<1>2. ExistsBijection(S, I)
  BY <1>1, Zenon DEF ExistsBijection
<1> QED BY <1>2, FS_Bijection

\* As many as there are parties, each with a party of its own: outside of P there are as
\* many of them as there are parties.
LEMMA OnePerParty ==
    ASSUME NEW N \in Nat, NEW S, IsFiniteSet(S), Cardinality(S) = N,
           NEW f, \A x \in S : f[x] \in 1 .. N, \A x, y \in S : f[x] = f[y] => x = y,
           NEW P \in SUBSET (1 .. N)
    PROVE  LET W == {x \in S : f[x] \notin P}
           IN IsFiniteSet(W) /\ Cardinality(W) = N - Cardinality(P)
<1> DEFINE W == {x \in S : f[x] \notin P}
           I == {f[x] : x \in S}
           J == {f[x] : x \in W}
<1>1. IsFiniteSet(1 .. N) /\ Cardinality(1 .. N) = N
  BY FirstNumbers, Zenon
<1>2. IsFiniteSet(I) /\ Cardinality(I) = N
  BY MarkedApart
<1>3. I = 1 .. N
  <2>1. I \in SUBSET (1 .. N)
    OBVIOUS
  <2> HIDE DEF I
  <2> QED BY <1>1, <1>2, <2>1, FS_Subset
<1>4. J = (1 .. N) \ P
  <2>1. ASSUME NEW q \in (1 .. N) \ P PROVE q \in J
    <3>1. PICK x \in S : q = f[x]
      BY <1>3
    <3> QED BY <2>1, <3>1
  <2>2. J \subseteq (1 .. N) \ P
    OBVIOUS
  <2> QED BY <2>1, <2>2
<1>5. W \in SUBSET S /\ IsFiniteSet(W)
  BY FS_Subset
<1>6. Cardinality(J) = Cardinality(W)
  <2>1. \A x, y \in W : f[x] = f[y] => x = y
    OBVIOUS
  <2> HIDE DEF W
  <2> QED BY <1>5, <2>1, MarkedApart
<1>7. Cardinality((1 .. N) \ P) = N - Cardinality(P)
  <2>1. (1 .. N) \cap P = P
    OBVIOUS
  <2>2. Cardinality((1 .. N) \ P) = Cardinality(1 .. N) - Cardinality((1 .. N) \cap P)
    BY <1>1, FS_Difference, Zenon
  <2> QED BY <1>1, <2>1, <2>2
<1> HIDE DEF W, J
<1>8. IsFiniteSet(W) /\ Cardinality(W) = N - Cardinality(P)
  BY <1>4, <1>5, <1>6, <1>7
<1> QED BY <1>8 DEF W

-----------------------------------------------------------------------------
(* Remainders.                                                             *)

LEMMA Division ==
    ASSUME NEW m \in Nat \ {0}, NEW a \in Int
    PROVE  (a % m) \in 0 .. m - 1 /\ a \div m \in Int /\ a = (m * (a \div m)) + (a % m)
OBVIOUS

LEMMA Remainder ==
    ASSUME NEW m \in Nat \ {0}, NEW q \in Int, NEW r \in 0 .. m - 1
    PROVE  ((m * q) + r) % m = r
<1>1. ((q * m) + r) % m = r
  OBVIOUS
<1>2. q * m = m * q
  OBVIOUS
<1> QED BY <1>1, <1>2

\* Numbers with the same remainder differ by a multiple ...
LEMMA SameApart ==
    ASSUME NEW m \in Nat \ {0}, NEW a \in Int, NEW b \in Int, (a % m) = (b % m)
    PROVE  \E k \in Int : a = b + (m * k)
<1> DEFINE p == a \div m
           q == b \div m
           r == a % m
<1>1. p \in Int /\ q \in Int /\ r \in Int /\ a = (m * p) + r /\ b = (m * q) + r
  BY Division
<1> HIDE DEF p, q, r
<1>2. m * (p - q) = (m * p) - (m * q) /\ m * p \in Int /\ m * q \in Int /\ p - q \in Int
  BY <1>1
<1>3. a = b + (m * (p - q))
  BY <1>1, <1>2
<1> QED BY <1>2, <1>3

\* ... and conversely.
LEMMA ApartSame ==
    ASSUME NEW m \in Nat \ {0}, NEW b \in Int, NEW k \in Int
    PROVE  ((b + (m * k)) % m) = (b % m)
<1> DEFINE q == b \div m
           r == b % m
<1>1. q \in Int /\ r \in 0 .. m - 1 /\ b = (m * q) + r
  BY Division
<1> HIDE DEF q, r
<1>2. m * (q + k) = (m * q) + (m * k) /\ m * q \in Int /\ m * k \in Int /\ q + k \in Int
  BY <1>1
<1>3. b + (m * k) = (m * (q + k)) + r /\ b = (m * q) + r
  BY <1>1, <1>2
<1>4. (b + (m * k)) % m = r /\ (b % m) = r
  BY <1>1, <1>2, <1>3, Remainder
<1> QED BY <1>4

Congruent(m, a, b) == (a % m) = (b % m)

\* Remainders may be taken before or after adding, subtracting and multiplying.
LEMMA CongruentOperations ==
    ASSUME NEW m \in Nat \ {0}, NEW a \in Int, NEW b \in Int, NEW c \in Int, NEW d \in Int,
           Congruent(m, a, c), Congruent(m, b, d)
    PROVE  Congruent(m, a + b, c + d) /\ Congruent(m, a - b, c - d) /\ Congruent(m, a * b, c * d)
<1>1. PICK k \in Int : a = c + (m * k)
  BY SameApart DEF Congruent
<1>2. PICK l \in Int : b = d + (m * l)
  BY SameApart DEF Congruent
<1>3. m * k \in Int /\ m * l \in Int
  BY <1>1, <1>2
<1>4. a + b = (c + d) + (m * (k + l)) /\ k + l \in Int
  BY <1>1, <1>2
<1>5. a - b = (c - d) + (m * (k - l)) /\ k - l \in Int
  BY <1>1, <1>2
<1> DEFINE z == (k * d) + (c * l) + (m * (k * l))
<1>6. a * b = (c * d) + (m * z) /\ z \in Int
  <2>1. a * b = (c + (m * k)) * (d + (m * l))
    BY <1>1, <1>2
  <2>2. (c + (m * k)) * (d + (m * l)) = (c * d) + (c * (m * l)) + ((m * k) * d) + ((m * k) * (m * l))
    BY <1>3
  <2>3. c * (m * l) = m * (c * l) /\ (m * k) * d = m * (k * d) /\ (m * k) * (m * l) = m * (m * (k * l))
    BY <1>3
  <2>4. k * d \in Int /\ c * l \in Int /\ m * (k * l) \in Int /\ k * l \in Int
    OBVIOUS
  <2>5. m * z = (m * (k * d)) + (m * (c * l)) + (m * (m * (k * l)))
    BY <2>4
  <2> QED BY <2>1, <2>2, <2>3, <2>4, <2>5
<1>7. a + b \in Int /\ c + d \in Int /\ a - b \in Int /\ c - d \in Int
      /\ a * b \in Int /\ c * d \in Int
  OBVIOUS
<1> HIDE DEF z
<1>8. ((a + b) % m) = ((c + d) % m)
  <2> DEFINE x == a + b
             y == c + d
             w == k + l
  <2>1. x \in Int /\ y \in Int /\ w \in Int /\ x = y + (m * w)
    BY <1>4, <1>7
  <2> HIDE DEF x, y, w
  <2>2. (x % m) = (y % m)
    BY <2>1, ApartSame
  <2> QED BY <2>2 DEF x, y
<1>9. ((a - b) % m) = ((c - d) % m)
  <2> DEFINE x == a - b
             y == c - d
             w == k - l
  <2>1. x \in Int /\ y \in Int /\ w \in Int /\ x = y + (m * w)
    BY <1>5, <1>7
  <2> HIDE DEF x, y, w
  <2>2. (x % m) = (y % m)
    BY <2>1, ApartSame
  <2> QED BY <2>2 DEF x, y
<1>10. ((a * b) % m) = ((c * d) % m)
  <2> DEFINE x == a * b
             y == c * d
  <2>1. x \in Int /\ y \in Int /\ x = y + (m * z)
    BY <1>6, <1>7
  <2> HIDE DEF x, y
  <2>2. (x % m) = (y % m)
    BY <1>6, <2>1, ApartSame
  <2> QED BY <2>2 DEF x, y
<1> QED BY <1>8, <1>9, <1>10 DEF Congruent

LEMMA Reduced == ASSUME NEW m \in Nat \ {0}, NEW r \in 0 .. m - 1 PROVE (r % m) = r
<1>1. (m * 0) + r = r
  OBVIOUS
<1> QED BY <1>1, Remainder

LEMMA RemainderTwice ==
    ASSUME NEW m \in Nat \ {0}, NEW a \in Int
    PROVE  (a % m) \in 0 .. m - 1 /\ (a % m) \in Int /\ Congruent(m, a % m, a)
<1>1. (a % m) \in 0 .. m - 1
  BY Division
<1> QED BY <1>1, Reduced DEF Congruent

-----------------------------------------------------------------------------
(* Recursion over the naturals.                                            *)

\* Induction, for a set of naturals.
LEMMA Inductive ==
    ASSUME NEW G \in SUBSET Nat, 0 \in G, \A n \in G : n + 1 \in G
    PROVE  \A n \in Nat : n \in G
<1> SUFFICES ASSUME Nat \ G # {} PROVE FALSE
  OBVIOUS
<1>1. PICK m \in Nat \ G : \A k \in Nat \ G : m <= k
  BY Least
<1>2. m - 1 \in Nat /\ ~(m <= m - 1) /\ (m - 1) + 1 = m
  BY <1>1
<1>3. m - 1 \in G
  BY <1>1, <1>2
<1> QED BY <1>1, <1>2, <1>3

\* A recursive function exists: next[n] makes its value at n of that at n - 1.
Recursive(S, first, next) ==
    {f \in [Nat -> S] : f[0] = first /\ \A n \in Nat : f[n + 1] = next[n + 1][f[n]]}

LEMMA Recursion ==
    ASSUME NEW S, NEW first \in S, NEW next \in [Nat -> [S -> S]]
    PROVE  Recursive(S, first, next) # {}
<1> DEFINE Partial(k, f) == /\ f \in [0 .. k -> S] /\ f[0] = first
                            /\ \A n \in 0 .. k - 1 : f[n + 1] = next[n + 1][f[n]]
           Unique(k) == \A f, g : Partial(k, f) /\ Partial(k, g) => f[k] = g[k]
           G == {k \in Nat : (\E f : Partial(k, f)) /\ Unique(k)}
<1>1. 0 \in G
  <2>1. Partial(0, [i \in 0 .. 0 |-> first])
    OBVIOUS
  <2> QED BY <2>1
<1>2. ASSUME NEW k \in Nat, NEW f, Partial(k + 1, f) PROVE Partial(k, [i \in 0 .. k |-> f[i]])
  BY <1>2
<1>3. ASSUME NEW k \in G PROVE k + 1 \in G
  <2>1. PICK f : Partial(k, f)
    OBVIOUS
  <2> DEFINE h == [i \in 0 .. k + 1 |-> IF i = k + 1 THEN next[k + 1][f[k]] ELSE f[i]]
  <2>2. Partial(k + 1, h)
    <3>1. f \in [0 .. k -> S] /\ next[k + 1] \in [S -> S] /\ k \in Nat
      BY <2>1
    <3>2. next[k + 1][f[k]] \in S
      BY <3>1
    <3>3. h \in [0 .. k + 1 -> S] /\ h[0] = first
      BY <2>1, <3>1, <3>2
    <3>4. ASSUME NEW n \in 0 .. k PROVE h[n + 1] = next[n + 1][h[n]]
      <4>1. CASE n = k
        BY <3>1, <4>1
      <4>2. CASE n # k
        <5>1. n \in 0 .. k - 1 /\ h[n + 1] = f[n + 1] /\ h[n] = f[n]
          BY <3>1, <4>2
        <5> QED BY <2>1, <5>1
      <4> QED BY <4>1, <4>2
    <3>5. 0 .. (k + 1) - 1 = 0 .. k
      BY <3>1
    <3> QED BY <3>3, <3>4, <3>5
  <2>3. Unique(k + 1)
    <3>1. k \in Nat /\ Unique(k)
      OBVIOUS
    <3>2. ASSUME NEW g1, NEW g2, Partial(k + 1, g1), Partial(k + 1, g2) PROVE g1[k + 1] = g2[k + 1]
      <4>1. Partial(k, [i \in 0 .. k |-> g1[i]]) /\ Partial(k, [i \in 0 .. k |-> g2[i]])
        <5> HIDE DEF Partial
        <5> QED BY <1>2, <3>1, <3>2
      <4>2. [i \in 0 .. k |-> g1[i]][k] = [i \in 0 .. k |-> g2[i]][k]
        <5> HIDE DEF Partial
        <5> QED BY <3>1, <4>1
      <4>3. g1[k] = g2[k]
        BY <3>1, <4>2
      <4> QED BY <3>1, <3>2, <4>3
    <3> HIDE DEF Partial
    <3> QED BY <3>2
  <2> HIDE DEF Partial, h
  <2> QED BY <2>2, <2>3
<1>4. \A k \in Nat : k \in G
  <2> HIDE DEF G
  <2>1. G \in SUBSET Nat
    BY DEF G
  <2> QED BY <1>1, <1>3, <2>1, Inductive
<1> DEFINE p(k) == CHOOSE f : Partial(k, f)
           F == [k \in Nat |-> p(k)[k]]
<1>5. \A k \in Nat : Partial(k, p(k)) /\ Unique(k)
  <2> HIDE DEF Partial
  <2> QED BY <1>4
<1> HIDE DEF p, G
<1>6. ASSUME NEW k \in Nat PROVE F[k] \in S /\ F[k + 1] = next[k + 1][F[k]]
  <2>1. Partial(k, p(k)) /\ Partial(k + 1, p(k + 1)) /\ Unique(k)
    <3> HIDE DEF Partial, Unique
    <3> QED BY <1>5
  <2>2. Partial(k, [i \in 0 .. k |-> p(k + 1)[i]])
    <3> HIDE DEF Partial
    <3> QED BY <1>2, <2>1
  <2>3. [i \in 0 .. k |-> p(k + 1)[i]][k] = p(k)[k]
    <3> HIDE DEF Partial
    <3> QED BY <2>1, <2>2
  <2>4. p(k + 1)[k] = p(k)[k] /\ p(k)[k] \in S
    BY <2>1, <2>3
  <2>5. p(k + 1)[k + 1] = next[k + 1][p(k + 1)[k]]
    <3>1. k \in 0 .. (k + 1) - 1
      OBVIOUS
    <3> QED BY <2>1, <3>1
  <2>6. F[k] = p(k)[k] /\ F[k + 1] = p(k + 1)[k + 1]
    OBVIOUS
  <2> QED BY <2>4, <2>5, <2>6
<1>7. F[0] = first
  <2>1. Partial(0, p(0))
    <3> HIDE DEF Partial
    <3> QED BY <1>5
  <2> QED BY <2>1
<1>8. F \in [Nat -> S]
  BY <1>6
<1> HIDE DEF F
<1> QED BY <1>6, <1>7, <1>8 DEF Recursive

-----------------------------------------------------------------------------
(* Sums over a set.                                                        *)

\* h[S] is the sum of v over S.
Sums(v, h) ==
    /\ h \in [SUBSET DOMAIN v -> Int]
    /\ h[{}] = 0
    /\ \A S \in SUBSET DOMAIN v : \A x \in S : h[S] = v[x] + h[S \ {x}]

LEMMA SumsExist ==
    ASSUME NEW D, IsFiniteSet(D), NEW v \in [D -> Int]
    PROVE  \E h : Sums(v, h)
<1> DEFINE To(E, h) == /\ h \in [SUBSET E -> Int] /\ h[{}] = 0
                       /\ \A S \in SUBSET E : \A x \in S : h[S] = v[x] + h[S \ {x}]
           G == {k \in Nat : \A E \in SUBSET D : Cardinality(E) = k => \E h : To(E, h)}
<1>1. \A E \in SUBSET D : IsFiniteSet(E) /\ Cardinality(E) \in Nat /\ (Cardinality(E) = 0 <=> E = {})
  BY FS_Subset, FS_CardinalityType, FS_EmptySet
<1>2. 0 \in G
  <2>1. To({}, [S \in SUBSET {} |-> 0])
    OBVIOUS
  <2> HIDE DEF To
  <2> QED BY <1>1, <2>1
<1>3. ASSUME NEW k \in G PROVE k + 1 \in G
  <2>0. k \in Nat /\ \A E \in SUBSET D : Cardinality(E) = k => \E h : To(E, h)
    <3> HIDE DEF To
    <3> QED BY <1>3
  <2> HIDE DEF G
  <2> SUFFICES ASSUME NEW E \in SUBSET D, Cardinality(E) = k + 1 PROVE \E h : To(E, h)
    <3> HIDE DEF To
    <3> QED BY <2>0 DEF G
  <2>1. PICK y \in E : TRUE
    BY <1>1, <2>0
  <2> DEFINE F == E \ {y}
  <2>2. F \in SUBSET D /\ Cardinality(F) = k
    <3>1. IsFiniteSet(E) /\ Cardinality(F) = Cardinality(E) - 1
      BY <1>1, <2>1, FS_RemoveElement
    <3> HIDE DEF F
    <3> QED BY <2>0, <3>1 DEF F
  <2>3. PICK f : To(F, f)
    <3> HIDE DEF To, F
    <3> QED BY <2>0, <2>2
  <2> DEFINE h == [S \in SUBSET E |-> IF y \in S THEN v[y] + f[S \ {y}] ELSE f[S]]
  <2>4. \A S \in SUBSET E : S \ {y} \in SUBSET F /\ (y \notin S => S \in SUBSET F)
    OBVIOUS
  <2>5. \A x \in E : v[x] \in Int
    OBVIOUS
  <2>6. ASSUME NEW S \in SUBSET E
        PROVE  h[S] \in Int /\ h[S] = IF y \in S THEN v[y] + f[S \ {y}] ELSE f[S]
    <3>1. S \ {y} \in SUBSET F /\ (y \notin S => S \in SUBSET F)
      BY <2>4
    <3> HIDE DEF F
    <3> QED BY <2>1, <2>3, <2>5, <3>1
  <2>7. h \in [SUBSET E -> Int] /\ h[{}] = 0
    <3>1. h[{}] = f[{}]
      OBVIOUS
    <3> QED BY <2>3, <2>6, <3>1
  <2> HIDE DEF h
  <2>8. ASSUME NEW S \in SUBSET E, NEW x \in S PROVE h[S] = v[x] + h[S \ {x}]
    <3> DEFINE R == S \ {x}
    <3>1. R \in SUBSET E /\ x \in E
      OBVIOUS
    <3>2. CASE x = y
      <4>1. y \notin R /\ h[S] = v[y] + f[R]
        BY <2>6, <3>2
      <4>2. h[R] = f[R]
        BY <2>6, <3>1, <4>1
      <4> HIDE DEF R
      <4> QED BY <3>2, <4>1, <4>2 DEF R
    <3>3. CASE x # y /\ y \in S
      <4> DEFINE U == S \ {y}
                 W == R \ {y}
      <4>1. h[S] = v[y] + f[U] /\ h[R] = v[y] + f[W]
        BY <2>6, <3>1, <3>3
      <4>2. U \in SUBSET F /\ x \in U /\ U \ {x} = W /\ W \in SUBSET F
        BY <3>3
      <4> HIDE DEF R, U, W
      <4>3. f[U] = v[x] + f[W] /\ f[W] \in Int
        <5> HIDE DEF F
        <5> QED BY <2>3, <4>2
      <4>4. v[x] \in Int /\ v[y] \in Int
        BY <2>1, <2>5, <3>1
      <4> QED BY <4>1, <4>3, <4>4 DEF R
    <3>4. CASE y \notin S
      <4>1. S \in SUBSET F /\ y \notin R /\ h[S] = f[S] /\ h[R] = f[R]
        BY <2>6, <3>1, <3>4
      <4>2. f[S] = v[x] + f[S \ {x}]
        BY <2>3, <4>1
      <4> QED BY <4>1, <4>2
    <3> QED BY <3>2, <3>3, <3>4
  <2>9. To(E, h)
    BY <2>7, <2>8
  <2> HIDE DEF To
  <2> QED BY <2>9
<1>4. \A k \in Nat : k \in G
  <2> HIDE DEF G
  <2>1. G \in SUBSET Nat
    BY DEF G
  <2> QED BY <1>2, <1>3, <2>1, Inductive
<1>5. Cardinality(D) \in G
  <2> HIDE DEF G
  <2> QED BY <1>1, <1>4
<1>6. PICK h : To(D, h)
  <2> HIDE DEF To
  <2> QED BY <1>5
<1> QED BY <1>6 DEF Sums

-----------------------------------------------------------------------------
(* Polynomials over the integers.                                          *)

LEMMA PowerStep ==
    ASSUME NEW x \in Int
    PROVE  /\ Power(x, 0) = 1
           /\ \A n \in Nat : Power(x, n) \in Int /\ Power(x, n + 1) = Power(x, n) * x
<1> DEFINE Def(f) == f = [i \in Nat |-> IF i = 0 THEN 1 ELSE f[i - 1] * x]
           next == [i \in Nat |-> [t \in Int |-> t * x]]
           power == CHOOSE f : Def(f)
<1>1. \E f : Def(f)
  <2>1. next \in [Nat -> [Int -> Int]] /\ 1 \in Int
    OBVIOUS
  <2>2. PICK f \in [Nat -> Int] : f[0] = 1 /\ \A n \in Nat : f[n + 1] = next[n + 1][f[n]]
    <3> HIDE DEF next
    <3>1. Recursive(Int, 1, next) # {}
      BY <2>1, Recursion
    <3> QED BY <3>1 DEF Recursive
  <2>3. ASSUME NEW i \in Nat PROVE f[i] = IF i = 0 THEN 1 ELSE f[i - 1] * x
    <3>1. CASE i # 0
      <4>1. i - 1 \in Nat /\ (i - 1) + 1 = i
        BY <3>1
      <4>2. f[(i - 1) + 1] = next[(i - 1) + 1][f[i - 1]] /\ f[i - 1] \in Int
        <5> HIDE DEF next
        <5> QED BY <2>2, <4>1
      <4> QED BY <3>1, <4>1, <4>2
    <3> QED BY <2>2, <3>1
  <2> QED BY <2>2, <2>3
<1>2. Def(power)
  <2> HIDE DEF Def
  <2> QED BY <1>1
<1>3. \A n : Power(x, n) = power[n]
  BY DEF Power
<1> HIDE DEF power
<1>4. power[0] = 1 /\ \A n \in Nat : power[n + 1] = power[n] * x
  BY <1>2
<1>5. \A n \in Nat : power[n] \in Int
  <2> DEFINE G == {n \in Nat : power[n] \in Int}
  <2>1. G \in SUBSET Nat /\ 0 \in G /\ \A n \in G : n + 1 \in G
    BY <1>4
  <2>2. \A n \in Nat : n \in G
    <3> HIDE DEF G
    <3> QED BY <2>1, Inductive
  <2> QED BY <2>2
<1> QED BY <1>3, <1>4, <1>5

\* PowerCoefficients for all powers, and the sums c[0] + c[1] x + ... + c[n] x^n.
PowerCoefficients == [Nat -> Int]

Series(c, x) ==
    LET sum[i \in Nat] == IF i = 0 THEN c[0] ELSE sum[i - 1] + (c[i] * Power(x, i))
    IN sum

LEMMA SeriesStep ==
    ASSUME NEW c \in PowerCoefficients, NEW x \in Int
    PROVE  /\ Series(c, x)[0] = c[0]
           /\ \A n \in Nat : /\ Series(c, x)[n] \in Int
                             /\ Series(c, x)[n + 1] = Series(c, x)[n] + (c[n + 1] * Power(x, n + 1))
<1> DEFINE Def(f) == f = [i \in Nat |-> IF i = 0 THEN c[0] ELSE f[i - 1] + (c[i] * Power(x, i))]
           next == [i \in Nat |-> [t \in Int |-> t + (c[i] * Power(x, i))]]
           sum == CHOOSE f : Def(f)
<1>0. \A i \in Nat : c[i] \in Int /\ c[i] * Power(x, i) \in Int
  BY PowerStep DEF PowerCoefficients
<1>1. \E f : Def(f)
  <2>1. next \in [Nat -> [Int -> Int]] /\ c[0] \in Int
    BY <1>0
  <2>2. PICK f \in [Nat -> Int] : f[0] = c[0] /\ \A n \in Nat : f[n + 1] = next[n + 1][f[n]]
    <3> HIDE DEF next
    <3>1. Recursive(Int, c[0], next) # {}
      BY <2>1, Recursion
    <3> QED BY <3>1 DEF Recursive
  <2>3. ASSUME NEW i \in Nat PROVE f[i] = IF i = 0 THEN c[0] ELSE f[i - 1] + (c[i] * Power(x, i))
    <3>1. CASE i # 0
      <4>1. i - 1 \in Nat /\ (i - 1) + 1 = i
        BY <3>1
      <4>2. f[(i - 1) + 1] = next[(i - 1) + 1][f[i - 1]] /\ f[i - 1] \in Int
        <5> HIDE DEF next
        <5> QED BY <2>2, <4>1
      <4> QED BY <3>1, <4>1, <4>2
    <3> QED BY <2>2, <3>1
  <2> QED BY <2>2, <2>3
<1>2. Def(sum)
  <2> HIDE DEF Def
  <2> QED BY <1>1
<1>3. Series(c, x) = sum
  BY DEF Series
<1> HIDE DEF sum
<1>4. sum[0] = c[0] /\ \A n \in Nat : sum[n + 1] = sum[n] + (c[n + 1] * Power(x, n + 1))
  BY <1>2
<1>5. \A n \in Nat : sum[n] \in Int
  <2> DEFINE G == {n \in Nat : sum[n] \in Int}
  <2>1. G \in SUBSET Nat /\ 0 \in G /\ \A n \in G : n + 1 \in G
    BY <1>0, <1>4
  <2>2. \A n \in Nat : n \in G
    <3> HIDE DEF G
    <3> QED BY <2>1, Inductive
  <2> QED BY <2>2
<1> QED BY <1>3, <1>4, <1>5

LEMMA SeriesLinear ==
    ASSUME NEW a \in Int, NEW c \in PowerCoefficients, NEW d \in PowerCoefficients
    PROVE  LET e == [i \in Nat |-> (a * c[i]) + d[i]]
           IN /\ e \in PowerCoefficients
              /\ \A x \in Int : \A n \in Nat :
                    Series(e, x)[n] = (a * Series(c, x)[n]) + Series(d, x)[n]
<1> DEFINE e == [i \in Nat |-> (a * c[i]) + d[i]]
<1>1. e \in PowerCoefficients /\ \A i \in Nat : /\ c[i] \in Int /\ d[i] \in Int
                                           /\ e[i] = (a * c[i]) + d[i]
  BY DEF PowerCoefficients
<1> HIDE DEF e
<1>2. ASSUME NEW x \in Int PROVE \A n \in Nat : Series(e, x)[n] = (a * Series(c, x)[n]) + Series(d, x)[n]
  <2> DEFINE s == Series(c, x)
             t == Series(d, x)
             u == Series(e, x)
             G == {n \in Nat : u[n] = (a * s[n]) + t[n]}
  <2>1. s[0] = c[0] /\ t[0] = d[0] /\ u[0] = e[0]
    BY <1>1, SeriesStep
  <2>2. ASSUME NEW n \in Nat
        PROVE  /\ s[n] \in Int /\ t[n] \in Int
               /\ s[n + 1] = s[n] + (c[n + 1] * Power(x, n + 1))
               /\ t[n + 1] = t[n] + (d[n + 1] * Power(x, n + 1))
               /\ u[n + 1] = u[n] + (e[n + 1] * Power(x, n + 1))
    BY <1>1, SeriesStep
  <2> HIDE DEF s, t, u
  <2>3. 0 \in G
    BY <1>1, <2>1
  <2>4. ASSUME NEW n \in G PROVE n + 1 \in G
    <3>1. n \in Nat /\ n + 1 \in Nat /\ u[n] = (a * s[n]) + t[n]
      BY <2>4
    <3> DEFINE p == Power(x, n + 1)
               ci == c[n + 1]
               di == d[n + 1]
    <3>2. p \in Int /\ ci \in Int /\ di \in Int /\ e[n + 1] = (a * ci) + di
      BY <1>1, <3>1, PowerStep
    <3>3. /\ s[n] \in Int /\ t[n] \in Int /\ s[n + 1] = s[n] + (ci * p) /\ t[n + 1] = t[n] + (di * p)
          /\ u[n + 1] = u[n] + (((a * ci) + di) * p)
      BY <2>2, <3>1, <3>2
    <3> HIDE DEF p, ci, di
    <3>4. u[n + 1] = (a * s[n + 1]) + t[n + 1]
      <4>1. ((a * ci) + di) * p = (a * (ci * p)) + (di * p)
        BY <3>2
      <4>2. a * (s[n] + (ci * p)) = (a * s[n]) + (a * (ci * p))
        BY <3>2, <3>3
      <4>3. a * s[n] \in Int /\ a * (ci * p) \in Int /\ di * p \in Int
        BY <3>2, <3>3
      <4> QED BY <3>1, <3>3, <4>1, <4>2, <4>3
    <3> QED BY <3>1, <3>4
  <2>5. \A n \in Nat : n \in G
    <3> HIDE DEF G
    <3>1. G \in SUBSET Nat
      BY DEF G
    <3> QED BY <2>3, <2>4, <3>1, Inductive
  <2> QED BY <2>5 DEF s, t, u
<1> QED BY <1>1, <1>2 DEF e

\* A polynomial is its constant coefficient and x times the others.
Others(c) == [i \in Nat |-> c[i + 1]]

LEMMA SeriesShift ==
    ASSUME NEW c \in PowerCoefficients
    PROVE  /\ Others(c) \in PowerCoefficients
           /\ \A x \in Int : \A n \in Nat :
                 Series(c, x)[n + 1] = c[0] + (x * Series(Others(c), x)[n])
<1> DEFINE d == Others(c)
<1>1. d \in PowerCoefficients /\ \A i \in Nat : c[i] \in Int /\ d[i] = c[i + 1] /\ d[i] \in Int
  BY DEF PowerCoefficients, Others
<1> HIDE DEF d
<1>2. ASSUME NEW x \in Int PROVE \A n \in Nat : Series(c, x)[n + 1] = c[0] + (x * Series(d, x)[n])
  <2> DEFINE s == Series(c, x)
             t == Series(d, x)
             G == {n \in Nat : s[n + 1] = c[0] + (x * t[n])}
  <2>1. s[0] = c[0] /\ t[0] = d[0] /\ c[0] \in Int
    BY <1>1, SeriesStep
  <2>2. ASSUME NEW n \in Nat
        PROVE  /\ s[n] \in Int /\ t[n] \in Int
               /\ s[n + 1] = s[n] + (c[n + 1] * Power(x, n + 1))
               /\ t[n + 1] = t[n] + (d[n + 1] * Power(x, n + 1))
    BY <1>1, SeriesStep
  <2> HIDE DEF s, t
  <2>3. 0 \in G
    <3>1. Power(x, 0) = 1 /\ Power(x, 0 + 1) = Power(x, 0) * x /\ 0 + 1 = 1
      BY PowerStep
    <3>2. s[0 + 1] = s[0] + (c[0 + 1] * Power(x, 0 + 1))
      BY <2>2
    <3>3. d[0] = c[1] /\ d[0] \in Int
      BY <1>1
    <3>4. s[1] = c[0] + (d[0] * x)
      BY <2>1, <3>1, <3>2, <3>3
    <3> QED BY <2>1, <3>1, <3>3, <3>4
  <2>4. ASSUME NEW n \in G PROVE n + 1 \in G
    <3>1. n \in Nat /\ n + 1 \in Nat /\ s[n + 1] = c[0] + (x * t[n])
      BY <2>4
    <3> DEFINE p == Power(x, n + 1)
               di == d[n + 1]
    <3>2. p \in Int /\ di \in Int /\ Power(x, (n + 1) + 1) = p * x /\ c[(n + 1) + 1] = di
      BY <1>1, <3>1, PowerStep
    <3>3. t[n] \in Int /\ t[n + 1] = t[n] + (di * p) /\ s[(n + 1) + 1] = s[n + 1] + (di * (p * x))
      <4>1. s[(n + 1) + 1] = s[n + 1] + (c[(n + 1) + 1] * Power(x, (n + 1) + 1))
        BY <2>2, <3>1
      <4> QED BY <2>2, <3>1, <3>2, <4>1
    <3> HIDE DEF p, di
    <3>4. s[(n + 1) + 1] = c[0] + (x * t[n + 1])
      <4>1. x * (t[n] + (di * p)) = (x * t[n]) + (di * (p * x))
        BY <3>2, <3>3
      <4>2. x * t[n] \in Int /\ di * (p * x) \in Int
        BY <3>2, <3>3
      <4> QED BY <2>1, <3>1, <3>3, <4>1, <4>2
    <3> QED BY <3>1, <3>4
  <2>5. \A n \in Nat : n \in G
    <3> HIDE DEF G
    <3>1. G \in SUBSET Nat
      BY DEF G
    <3> QED BY <2>3, <2>4, <3>1, Inductive
  <2> QED BY <2>5 DEF s, t
<1> QED BY <1>1, <1>2 DEF d

\* The polynomials of degree at most n.
UpTo(n) == {c \in PowerCoefficients : \A i \in Nat : i > n => c[i] = 0}

LEMMA SeriesPadded ==
    ASSUME NEW n \in Nat, NEW c \in UpTo(n), NEW x \in Int
    PROVE  \A k \in Nat : Series(c, x)[n + k] = Series(c, x)[n]
<1> DEFINE s == Series(c, x)
           G == {k \in Nat : s[n + k] = s[n]}
<1>1. ASSUME NEW k \in G PROVE k + 1 \in G
  <2>1. k \in Nat /\ n + k \in Nat /\ (n + k) + 1 = n + (k + 1) /\ (n + k) + 1 \in Nat /\ (n + k) + 1 > n
    OBVIOUS
  <2>2. c \in PowerCoefficients /\ c[(n + k) + 1] = 0
    BY <2>1 DEF UpTo
  <2>3. /\ s[(n + k) + 1] = s[n + k] + (c[(n + k) + 1] * Power(x, (n + k) + 1)) /\ s[n + k] \in Int
        /\ Power(x, (n + k) + 1) \in Int
    BY <2>1, <2>2, SeriesStep, PowerStep
  <2> HIDE DEF s
  <2>4. s[(n + k) + 1] = s[n + k]
    BY <2>2, <2>3
  <2> QED BY <2>1, <2>4
<1>2. 0 \in G
  OBVIOUS
<1>3. \A k \in Nat : k \in G
  <2> HIDE DEF G
  <2>1. G \in SUBSET Nat
    BY DEF G
  <2> QED BY <1>1, <1>2, <2>1, Inductive
<1> QED BY <1>3

\* The zero polynomial, and what is constant.
LEMMA SeriesConstant ==
    ASSUME NEW c \in UpTo(0), NEW x \in Int
    PROVE  \A k \in Nat : Series(c, x)[k] = c[0]
<1>1. c \in PowerCoefficients
  BY DEF UpTo
<1>2. \A k \in Nat : Series(c, x)[0 + k] = Series(c, x)[0] /\ 0 + k = k
  BY SeriesPadded
<1> QED BY <1>1, <1>2, SeriesStep

\* Degrees add up when polynomials are multiplied.
LEMMA SeriesProduct ==
    ASSUME NEW m \in Nat, NEW d \in UpTo(m)
    PROVE  \A n \in Nat : \A c \in UpTo(n) : \E e \in UpTo(n + m) :
              /\ e[0] = c[0] * d[0]
              /\ \A x \in Int : Series(e, x)[n + m] = Series(c, x)[n] * Series(d, x)[m]
<1> DEFINE Product(n, c, e) == /\ e[0] = c[0] * d[0]
                               /\ \A x \in Int : Series(e, x)[n + m] = Series(c, x)[n] * Series(d, x)[m]
           G == {n \in Nat : \A c \in UpTo(n) : \E e \in UpTo(n + m) : Product(n, c, e)}
<1>1. d \in PowerCoefficients /\ \A i \in Nat : d[i] \in Int /\ (i > m => d[i] = 0)
  BY DEF UpTo, PowerCoefficients
<1>2. 0 \in G
  <2> SUFFICES ASSUME NEW c \in UpTo(0) PROVE \E e \in UpTo(0 + m) : Product(0, c, e)
    OBVIOUS
  <2> DEFINE zero == [i \in Nat |-> 0]
             e == [i \in Nat |-> (c[0] * d[i]) + zero[i]]
  <2>1. c \in PowerCoefficients /\ c[0] \in Int
    BY DEF UpTo, PowerCoefficients
  <2>2. zero \in UpTo(0) /\ zero \in PowerCoefficients /\ zero[0] = 0
    BY DEF UpTo, PowerCoefficients
  <2>3. /\ e \in PowerCoefficients
        /\ \A x \in Int : \A k \in Nat : Series(e, x)[k] = (c[0] * Series(d, x)[k]) + Series(zero, x)[k]
    <3> HIDE DEF zero
    <3> QED BY <1>1, <2>1, <2>2, SeriesLinear
  <2>4. \A i \in Nat : e[i] = c[0] * d[i]
    BY <1>1, <2>1
  <2> HIDE DEF zero, e
  <2>5. e \in UpTo(0 + m) /\ e[0] = c[0] * d[0]
    <3>1. \A i \in Nat : i > 0 + m => e[i] = 0
      BY <1>1, <2>1, <2>4
    <3> QED BY <2>3, <2>4, <3>1 DEF UpTo
  <2>6. ASSUME NEW x \in Int PROVE Series(e, x)[0 + m] = Series(c, x)[0] * Series(d, x)[m]
    <3>1. Series(e, x)[m] = (c[0] * Series(d, x)[m]) + Series(zero, x)[m] /\ 0 + m = m
      BY <2>3
    <3>2. Series(zero, x)[m] = 0 /\ Series(c, x)[0] = c[0]
      BY <2>1, <2>2, SeriesConstant, SeriesStep
    <3>3. Series(d, x)[m] \in Int
      BY <1>1, SeriesStep
    <3> QED BY <2>1, <3>1, <3>2, <3>3
  <2> QED BY <2>5, <2>6
<1>3. ASSUME NEW n \in G PROVE n + 1 \in G
  <2>0. n \in Nat /\ n + 1 \in Nat
    OBVIOUS
  <2> SUFFICES ASSUME NEW c \in UpTo(n + 1) PROVE \E e \in UpTo((n + 1) + m) : Product(n + 1, c, e)
    BY <2>0
  <2> DEFINE b == Others(c)
  <2>1. c \in PowerCoefficients /\ c[0] \in Int
    BY DEF UpTo, PowerCoefficients
  <2>2. b \in UpTo(n) /\ \A x \in Int : Series(c, x)[n + 1] = c[0] + (x * Series(b, x)[n])
    <3>1. \A i \in Nat : i > n => b[i] = 0
      BY <2>0 DEF UpTo, Others
    <3> QED BY <2>0, <2>1, <3>1, SeriesShift DEF UpTo
  <2> HIDE DEF b
  <2>3. PICK f \in UpTo(n + m) : \A x \in Int : Series(f, x)[n + m] = Series(b, x)[n] * Series(d, x)[m]
    BY <2>2
  <2> DEFINE g == [i \in Nat |-> IF i = 0 THEN 0 ELSE f[i - 1]]
             e == [i \in Nat |-> (c[0] * d[i]) + g[i]]
  <2>4. f \in PowerCoefficients /\ \A i \in Nat : f[i] \in Int /\ (i > n + m => f[i] = 0)
    BY DEF UpTo, PowerCoefficients
  <2>5. /\ g \in PowerCoefficients /\ Others(g) = f /\ g[0] = 0
        /\ \A i \in Nat : i > (n + 1) + m => g[i] = 0
    <3>1. \A i \in Nat : i # 0 => i - 1 \in Nat
      OBVIOUS
    <3>2. g \in PowerCoefficients
      BY <2>4, <3>1 DEF PowerCoefficients
    <3>3. ASSUME NEW i \in Nat, i > (n + 1) + m PROVE g[i] = 0
      BY <2>0, <2>4, <3>3
    <3>4. Others(g) = [i \in Nat |-> f[i]]
      BY DEF Others
    <3>5. f = [i \in Nat |-> f[i]]
      BY <2>4 DEF PowerCoefficients
    <3> QED BY <3>2, <3>3, <3>4, <3>5
  <2>6. /\ e \in PowerCoefficients
        /\ \A x \in Int : \A k \in Nat : Series(e, x)[k] = (c[0] * Series(d, x)[k]) + Series(g, x)[k]
    <3> HIDE DEF g
    <3> QED BY <1>1, <2>1, <2>5, SeriesLinear
  <2>7. \A i \in Nat : e[i] = (c[0] * d[i]) + g[i]
    OBVIOUS
  <2> HIDE DEF g, e
  <2>8. e \in UpTo((n + 1) + m) /\ e[0] = c[0] * d[0]
    <3>1. ASSUME NEW i \in Nat, i > (n + 1) + m PROVE e[i] = 0
      <4>1. d[i] = 0 /\ g[i] = 0 /\ c[0] * 0 = 0
        BY <1>1, <2>0, <2>1, <2>5, <3>1
      <4> QED BY <2>7, <4>1
    <3>2. e[0] = (c[0] * d[0]) + g[0] /\ c[0] * d[0] \in Int
      BY <1>1, <2>1, <2>7
    <3> QED BY <2>5, <2>6, <3>1, <3>2 DEF UpTo
  <2>9. ASSUME NEW x \in Int PROVE Series(e, x)[(n + 1) + m] = Series(c, x)[n + 1] * Series(d, x)[m]
    <3> DEFINE sd == Series(d, x)[m]
               sb == Series(b, x)[n]
    <3>1. sd \in Int /\ sb \in Int
      BY <1>1, <2>0, <2>2, SeriesStep DEF UpTo
    <3>2. Series(d, x)[(n + 1) + m] = sd
      <4> DEFINE k == n + 1
      <4>1. k \in Nat
        BY <2>0
      <4> HIDE DEF k
      <4>2. Series(d, x)[m + k] = sd /\ m + k = k + m
        BY <4>1, SeriesPadded
      <4> QED BY <4>2 DEF k
    <3>3. Series(g, x)[(n + 1) + m] = x * (sb * sd)
      <4>1. Series(g, x)[(n + m) + 1] = g[0] + (x * Series(f, x)[n + m])
        <5> DEFINE k == n + m
        <5>1. k \in Nat
          BY <2>0
        <5> HIDE DEF k
        <5>2. Series(g, x)[k + 1] = g[0] + (x * Series(Others(g), x)[k])
          BY <2>5, <5>1, SeriesShift
        <5> QED BY <2>5, <5>2 DEF k
      <4>2. (n + m) + 1 = (n + 1) + m /\ x * (sb * sd) \in Int
        BY <2>0, <3>1
      <4>3. Series(f, x)[n + m] = sb * sd
        BY <2>3
      <4> HIDE DEF sb, sd
      <4> QED BY <2>5, <4>1, <4>2, <4>3
    <3>4. Series(e, x)[(n + 1) + m] = (c[0] * sd) + (x * (sb * sd))
      <4>1. (n + 1) + m \in Nat
        BY <2>0
      <4>2. Series(e, x)[(n + 1) + m] = (c[0] * Series(d, x)[(n + 1) + m]) + Series(g, x)[(n + 1) + m]
        BY <2>6, <4>1
      <4> QED BY <3>2, <3>3, <4>2
    <3>5. Series(c, x)[n + 1] = c[0] + (x * sb)
      BY <2>2
    <3> HIDE DEF sb, sd
    <3>6. (c[0] + (x * sb)) * sd = (c[0] * sd) + (x * (sb * sd))
      BY <2>1, <3>1
    <3> QED BY <3>4, <3>5, <3>6 DEF sd
  <2> QED BY <2>8, <2>9
<1>4. \A n \in Nat : n \in G
  <2> HIDE DEF G
  <2>1. G \in SUBSET Nat
    BY DEF G
  <2> QED BY <1>2, <1>3, <2>1, Inductive
<1> QED BY <1>4

\* PowerCoefficients may be reduced first.
LEMMA SeriesReduced ==
    ASSUME NEW m \in Nat \ {0}, NEW c \in PowerCoefficients, NEW d \in PowerCoefficients,
           \A i \in Nat : Congruent(m, c[i], d[i]), NEW x \in Int
    PROVE  \A n \in Nat : Congruent(m, Series(c, x)[n], Series(d, x)[n])
<1> DEFINE s == Series(c, x)
           t == Series(d, x)
           G == {n \in Nat : Congruent(m, s[n], t[n])}
<1>1. s[0] = c[0] /\ t[0] = d[0]
  BY SeriesStep
<1>2. ASSUME NEW n \in Nat
      PROVE  /\ s[n] \in Int /\ t[n] \in Int
             /\ s[n + 1] = s[n] + (c[n + 1] * Power(x, n + 1))
             /\ t[n + 1] = t[n] + (d[n + 1] * Power(x, n + 1))
  BY SeriesStep
<1> HIDE DEF s, t
<1>3. 0 \in G
  BY <1>1
<1>4. ASSUME NEW n \in G PROVE n + 1 \in G
  <2>1. n \in Nat /\ n + 1 \in Nat /\ Congruent(m, s[n], t[n])
    BY <1>4
  <2> DEFINE p == Power(x, n + 1)
             ci == c[n + 1]
             di == d[n + 1]
  <2>2. p \in Int /\ ci \in Int /\ di \in Int /\ Congruent(m, ci, di)
    BY <2>1, PowerStep DEF PowerCoefficients
  <2>3. s[n] \in Int /\ t[n] \in Int /\ s[n + 1] = s[n] + (ci * p) /\ t[n + 1] = t[n] + (di * p)
    BY <1>2, <2>1
  <2> HIDE DEF p, ci, di
  <2>4. Congruent(m, ci * p, di * p) /\ ci * p \in Int /\ di * p \in Int
    <3>1. Congruent(m, p, p)
      BY DEF Congruent
    <3> QED BY <2>2, <3>1, CongruentOperations
  <2>5. Congruent(m, s[n] + (ci * p), t[n] + (di * p))
    BY <2>1, <2>3, <2>4, CongruentOperations
  <2> QED BY <2>1, <2>3, <2>5
<1>5. \A n \in Nat : n \in G
  <2> HIDE DEF G
  <2>1. G \in SUBSET Nat
    BY DEF G
  <2> QED BY <1>3, <1>4, <2>1, Inductive
<1> QED BY <1>5 DEF s, t

-----------------------------------------------------------------------------
(* The polynomials that are shared.                                        *)

\* The coefficients of a polynomial, secret first.
Padded(secret, coeffs, n) ==
    [i \in Nat |-> IF i = 0 THEN secret ELSE IF i \in 1 .. n THEN coeffs[i] ELSE 0]

LEMMA PolynomialIsSeries ==
    ASSUME NEW base \in Nat \ {0}, NEW n \in Nat, NEW coeffs \in [1 .. n -> Int],
           NEW secret \in Int, NEW x \in Int
    PROVE  /\ Padded(secret, coeffs, n) \in UpTo(n)
           /\ Polynomial(base, secret, coeffs, x) = Series(Padded(secret, coeffs, n), x)[n] % base
<1> DEFINE c == Padded(secret, coeffs, n)
           s == Series(c, x)
           Def(f) == f = [i \in 0 .. n |-> IF i = 0 THEN secret ELSE f[i - 1] + (coeffs[i] * Power(x, i))]
           sum == CHOOSE f : Def(f)
<1>1. c \in UpTo(n) /\ c \in PowerCoefficients /\ c[0] = secret /\ \A i \in 1 .. n : c[i] = coeffs[i]
  BY DEF Padded, UpTo, PowerCoefficients
<1> HIDE DEF c
<1>2. s[0] = secret /\ \A i \in Nat : s[i + 1] = s[i] + (c[i + 1] * Power(x, i + 1))
  BY <1>1, SeriesStep
<1> HIDE DEF s
<1>3. ASSUME NEW i \in 1 .. n PROVE s[i] = s[i - 1] + (coeffs[i] * Power(x, i))
  <2>1. i - 1 \in Nat /\ (i - 1) + 1 = i /\ c[i] = coeffs[i]
    BY <1>1
  <2> DEFINE j == i - 1
  <2>2. s[j + 1] = s[j] + (c[j + 1] * Power(x, j + 1))
    <3> HIDE DEF j
    <3> QED BY <1>2, <2>1 DEF j
  <2> QED BY <2>1, <2>2
<1>4. Def([i \in 0 .. n |-> s[i]])
  <2> DEFINE f == [i \in 0 .. n |-> s[i]]
  <2>1. ASSUME NEW i \in 0 .. n
        PROVE  f[i] = IF i = 0 THEN secret ELSE f[i - 1] + (coeffs[i] * Power(x, i))
    <3>1. CASE i = 0
      BY <1>2, <3>1
    <3>2. CASE i # 0
      <4>1. i \in 1 .. n /\ i - 1 \in 0 .. n
        BY <3>2
      <4>2. f[i] = s[i] /\ f[i - 1] = s[i - 1]
        BY <4>1
      <4> HIDE DEF f
      <4> QED BY <1>3, <3>2, <4>1, <4>2
    <3> QED BY <3>1, <3>2
  <2>2. f = [i \in 0 .. n |-> f[i]]
    OBVIOUS
  <2> HIDE DEF f
  <2>3. Def(f)
    BY <2>1, <2>2
  <2> QED BY <2>3 DEF f
<1>5. Def(sum)
  <2> HIDE DEF Def
  <2> QED BY <1>4
<1>6. Len(coeffs) = n
  OBVIOUS
<1>7. Polynomial(base, secret, coeffs, x) = sum[n] % base
  BY <1>6 DEF Polynomial
<1> HIDE DEF sum
<1>8. \A i \in 0 .. n : sum[i] = s[i]
  <2> DEFINE G == {i \in Nat : i <= n => sum[i] = s[i]}
  <2>1. 0 \in G
    BY <1>2, <1>5
  <2>2. ASSUME NEW i \in G PROVE i + 1 \in G
    <3> SUFFICES ASSUME i + 1 <= n PROVE sum[i + 1] = s[i + 1]
      OBVIOUS
    <3> DEFINE j == i + 1
    <3>1. j \in 1 .. n /\ j - 1 = i /\ j \in 0 .. n /\ j # 0 /\ sum[i] = s[i]
      OBVIOUS
    <3> HIDE DEF j
    <3>2. sum[j] = sum[j - 1] + (coeffs[j] * Power(x, j))
      BY <1>5, <3>1
    <3>3. s[j] = s[j - 1] + (coeffs[j] * Power(x, j))
      BY <1>3, <3>1
    <3> QED BY <3>1, <3>2, <3>3 DEF j
  <2>3. \A i \in Nat : i \in G
    <3> HIDE DEF G
    <3>1. G \in SUBSET Nat
      BY DEF G
    <3> QED BY <2>1, <2>2, <3>1, Inductive
  <2> QED BY <2>3
<1>9. sum[n] = s[n]
  BY <1>8
<1> QED BY <1>1, <1>7, <1>9 DEF c, s

\* A sharing is a list of values of a polynomial of that degree ...
LEMMA SharingSeries ==
    ASSUME NEW base \in Nat \ {0}, NEW n \in Nat, NEW secret \in Int, NEW values, NEW points,
           \A i \in DOMAIN points : points[i] \in Int,
           IsSharing(base, values, points, n, secret)
    PROVE  \E c \in UpTo(n) : /\ c[0] = secret
                              /\ \A i \in DOMAIN points : values[i] = Series(c, points[i])[n] % base
<1>1. PICK coeffs \in [1 .. n -> 0 .. base - 1] :
         \A i \in DOMAIN points : values[i] = Polynomial(base, secret, coeffs, points[i])
  BY DEF IsSharing
<1>2. coeffs \in [1 .. n -> Int]
  OBVIOUS
<1> DEFINE c == Padded(secret, coeffs, n)
<1>3. c[0] = secret
  BY DEF Padded
<1>4. 0 \in Int
  OBVIOUS
<1>5. c \in UpTo(n) /\ \A i \in DOMAIN points : values[i] = Series(c, points[i])[n] % base
  BY <1>1, <1>2, <1>4, PolynomialIsSeries
<1> HIDE DEF c
<1> QED BY <1>3, <1>5

\* ... and conversely, whatever the polynomial's coefficients.
LEMMA SeriesSharing ==
    ASSUME NEW base \in Nat \ {0}, NEW n \in Nat, NEW secret \in Int, NEW c \in UpTo(n),
           Congruent(base, c[0], secret),
           NEW values, NEW points,
           \A i \in DOMAIN points : points[i] \in Int /\ values[i] = Series(c, points[i])[n] % base
    PROVE  IsSharing(base, values, points, n, secret)
<1> DEFINE coeffs == [i \in 1 .. n |-> c[i] % base]
           d == Padded(secret, coeffs, n)
<1>1. c \in PowerCoefficients /\ \A i \in Nat : c[i] \in Int /\ (i > n => c[i] = 0)
  BY DEF UpTo, PowerCoefficients
<1>2. coeffs \in [1 .. n -> 0 .. base - 1] /\ coeffs \in [1 .. n -> Int]
  <2>1. \A i \in 1 .. n : (c[i] % base) \in 0 .. base - 1
    <3> SUFFICES ASSUME NEW i \in 1 .. n PROVE (c[i] % base) \in 0 .. base - 1
      OBVIOUS
    <3>1. c[i] \in Int /\ base \in Nat \ {0}
      BY <1>1
    <3> QED BY <3>1, RemainderTwice
  <2> QED BY <2>1
<1>3. d \in UpTo(n) /\ d \in PowerCoefficients
      /\ \A x \in Int : Polynomial(base, secret, coeffs, x) = Series(d, x)[n] % base
  BY <1>2, PolynomialIsSeries DEF UpTo
<1>4. ASSUME NEW i \in Nat PROVE Congruent(base, d[i], c[i])
  <2>1. CASE i = 0
    BY <2>1 DEF Padded, Congruent
  <2>2. CASE i \in 1 .. n
    <3>1. d[i] = c[i] % base
      BY <2>2 DEF Padded
    <3> QED BY <1>1, <3>1, RemainderTwice DEF Congruent
  <2>3. CASE i > n
    <3>1. d[i] = 0 /\ c[i] = 0
      BY <1>1, <2>3 DEF Padded
    <3> QED BY <3>1 DEF Congruent
  <2> QED BY <2>1, <2>2, <2>3
<1> HIDE DEF d, coeffs
<1>5. ASSUME NEW i \in DOMAIN points PROVE values[i] = Polynomial(base, secret, coeffs, points[i])
  <2>1. points[i] \in Int /\ values[i] = Series(c, points[i])[n] % base
    OBVIOUS
  <2>2. Congruent(base, Series(d, points[i])[n], Series(c, points[i])[n])
    BY <1>1, <1>3, <1>4, <2>1, SeriesReduced
  <2> QED BY <1>3, <2>1, <2>2 DEF Congruent
<1> QED BY <1>2, <1>5 DEF IsSharing

\* Sharings of one degree can be added and subtracted; when they are multiplied, the
\* degrees add up.
LEMMA SharingsCombine ==
    ASSUME NEW base \in Nat \ {0}, NEW n \in Nat, NEW m \in Nat, NEW s \in Int, NEW t \in Int,
           NEW v, NEW w, NEW r, NEW points, \A i \in DOMAIN points : points[i] \in Int,
           IsSharing(base, v, points, n, s), IsSharing(base, w, points, m, t)
    PROVE  /\ n = m /\ (\A i \in DOMAIN points : r[i] = (v[i] + w[i]) % base)
                => IsSharing(base, r, points, n, s + t)
           /\ n = m /\ (\A i \in DOMAIN points : r[i] = (v[i] - w[i]) % base)
                => IsSharing(base, r, points, n, s - t)
           /\ (\A i \in DOMAIN points : r[i] = (v[i] * w[i]) % base)
                => IsSharing(base, r, points, n + m, s * t)
<1>1. PICK c \in UpTo(n) : /\ c[0] = s
                           /\ \A i \in DOMAIN points : v[i] = Series(c, points[i])[n] % base
  BY SharingSeries
<1>2. PICK d \in UpTo(m) : /\ d[0] = t
                           /\ \A i \in DOMAIN points : w[i] = Series(d, points[i])[m] % base
  BY SharingSeries
<1> DEFINE p(i) == Series(c, points[i])[n]
           q(i) == Series(d, points[i])[m]
<1>3. /\ c \in PowerCoefficients /\ \A i \in Nat : c[i] \in Int /\ (i > n => c[i] = 0)
      /\ d \in PowerCoefficients /\ \A i \in Nat : d[i] \in Int /\ (i > m => d[i] = 0)
  BY DEF UpTo, PowerCoefficients
<1>4. base \in Nat \ {0}
  OBVIOUS
<1>5. ASSUME NEW i \in DOMAIN points
      PROVE  /\ points[i] \in Int /\ p(i) \in Int /\ q(i) \in Int
             /\ v[i] \in Int /\ w[i] \in Int /\ Congruent(base, v[i], p(i)) /\ Congruent(base, w[i], q(i))
  <2>1. points[i] \in Int
    OBVIOUS
  <2>2. p(i) \in Int /\ q(i) \in Int
    BY <1>3, <2>1, SeriesStep
  <2> HIDE DEF p, q
  <2>3. v[i] = p(i) % base /\ w[i] = q(i) % base
    BY <1>1, <1>2 DEF p, q
  <2> QED BY <1>4, <2>1, <2>2, <2>3, RemainderTwice
<1> DEFINE Both(e, k) == e \in UpTo(k)
<1>6. ASSUME n = m, \A i \in DOMAIN points : r[i] = (v[i] + w[i]) % base
      PROVE  IsSharing(base, r, points, n, s + t)
  <2> DEFINE e == [i \in Nat |-> (1 * c[i]) + d[i]]
  <2>1. /\ e \in PowerCoefficients
        /\ \A x \in Int : \A k \in Nat : Series(e, x)[k] = (1 * Series(c, x)[k]) + Series(d, x)[k]
    BY <1>3, SeriesLinear
  <2>2. \A i \in Nat : e[i] = (1 * c[i]) + d[i]
    OBVIOUS
  <2> HIDE DEF e
  <2>3. e \in UpTo(n) /\ e[0] = s + t
    <3>1. \A i \in Nat : i > n => e[i] = 0
      BY <1>3, <1>6, <2>2
    <3> QED BY <1>1, <1>2, <2>1, <2>2, <3>1 DEF UpTo
  <2>4. ASSUME NEW i \in DOMAIN points PROVE points[i] \in Int /\ r[i] = Series(e, points[i])[n] % base
    <3>1. /\ points[i] \in Int /\ p(i) \in Int /\ q(i) \in Int
          /\ v[i] \in Int /\ w[i] \in Int /\ Congruent(base, v[i], p(i)) /\ Congruent(base, w[i], q(i))
      BY <1>5
    <3>2. Series(e, points[i])[n] = (1 * p(i)) + q(i)
      BY <1>6, <2>1, <3>1
    <3> HIDE DEF p, q
    <3>3. Series(e, points[i])[n] = p(i) + q(i)
      BY <3>1, <3>2
    <3>4. Congruent(base, v[i] + w[i], p(i) + q(i))
      BY <1>4, <3>1, CongruentOperations
    <3> QED BY <1>6, <3>1, <3>3, <3>4 DEF Congruent
  <2>5. s + t \in Int /\ Congruent(base, e[0], s + t)
    BY <2>3 DEF Congruent
  <2> QED BY <2>3, <2>4, <2>5, SeriesSharing
<1>7. ASSUME n = m, \A i \in DOMAIN points : r[i] = (v[i] - w[i]) % base
      PROVE  IsSharing(base, r, points, n, s - t)
  <2> DEFINE e == [i \in Nat |-> ((-1) * d[i]) + c[i]]
  <2>1. /\ e \in PowerCoefficients
        /\ \A x \in Int : \A k \in Nat : Series(e, x)[k] = ((-1) * Series(d, x)[k]) + Series(c, x)[k]
    BY <1>3, SeriesLinear
  <2>2. \A i \in Nat : e[i] = ((-1) * d[i]) + c[i]
    OBVIOUS
  <2> HIDE DEF e
  <2>3. e \in UpTo(n) /\ e[0] = s - t
    <3>1. \A i \in Nat : i > n => e[i] = 0
      BY <1>3, <1>7, <2>2
    <3> QED BY <1>1, <1>2, <2>1, <2>2, <3>1 DEF UpTo
  <2>4. ASSUME NEW i \in DOMAIN points PROVE points[i] \in Int /\ r[i] = Series(e, points[i])[n] % base
    <3>1. /\ points[i] \in Int /\ p(i) \in Int /\ q(i) \in Int
          /\ v[i] \in Int /\ w[i] \in Int /\ Congruent(base, v[i], p(i)) /\ Congruent(base, w[i], q(i))
      BY <1>5
    <3>2. Series(e, points[i])[n] = ((-1) * q(i)) + p(i)
      BY <1>7, <2>1, <3>1
    <3> HIDE DEF p, q
    <3>3. Series(e, points[i])[n] = p(i) - q(i)
      BY <3>1, <3>2
    <3>4. Congruent(base, v[i] - w[i], p(i) - q(i))
      BY <1>4, <3>1, CongruentOperations
    <3> QED BY <1>7, <3>1, <3>3, <3>4 DEF Congruent
  <2>5. s - t \in Int /\ Congruent(base, e[0], s - t)
    BY <2>3 DEF Congruent
  <2> QED BY <2>3, <2>4, <2>5, SeriesSharing
<1>8. ASSUME \A i \in DOMAIN points : r[i] = (v[i] * w[i]) % base
      PROVE  IsSharing(base, r, points, n + m, s * t)
  <2>1. PICK e \in UpTo(n + m) :
           /\ e[0] = c[0] * d[0]
           /\ \A x \in Int : Series(e, x)[n + m] = Series(c, x)[n] * Series(d, x)[m]
    BY SeriesProduct
  <2>2. ASSUME NEW i \in DOMAIN points PROVE points[i] \in Int /\ r[i] = Series(e, points[i])[n + m] % base
    <3>1. /\ points[i] \in Int /\ p(i) \in Int /\ q(i) \in Int
          /\ v[i] \in Int /\ w[i] \in Int /\ Congruent(base, v[i], p(i)) /\ Congruent(base, w[i], q(i))
      BY <1>5
    <3>2. Series(e, points[i])[n + m] = p(i) * q(i)
      BY <2>1, <3>1
    <3> HIDE DEF p, q
    <3>3. Congruent(base, v[i] * w[i], p(i) * q(i))
      BY <1>4, <3>1, CongruentOperations
    <3> QED BY <1>8, <3>1, <3>2, <3>3 DEF Congruent
  <2>3. s * t \in Int /\ e[0] = s * t /\ n + m \in Nat
    BY <1>1, <1>2, <2>1
  <2>4. Congruent(base, e[0], s * t)
    BY <2>3 DEF Congruent
  <2> DEFINE st == s * t
             k == n + m
  <2>5. /\ st \in Int /\ Congruent(base, e[0], st) /\ k \in Nat /\ e \in UpTo(k)
        /\ \A i \in DOMAIN points : points[i] \in Int /\ r[i] = Series(e, points[i])[k] % base
    BY <2>2, <2>3, <2>4
  <2> HIDE DEF st, k
  <2>6. IsSharing(base, r, points, k, st)
    BY <2>5, SeriesSharing
  <2> QED BY <2>6 DEF st, k
<1> QED BY <1>6, <1>7, <1>8

-----------------------------------------------------------------------------
(* Interpolation over a field.                                             *)

\* Every number below p but 0 has an inverse: p is a prime.
IsField(p) == p \in Nat \ {0} /\ \A a \in 1 .. p - 1 : \E b \in 1 .. p - 1 : (b * a) % p = 1

LEMMA Inverses ==
    ASSUME NEW p, IsField(p), NEW a \in 1 .. p - 1
    PROVE  FieldInverse(a, p) \in 1 .. p - 1 /\ FieldInverse(a, p) \in Int
           /\ Congruent(p, FieldInverse(a, p) * a, 1)
<1>1. \E x \in 1 .. p - 1 : (x * a) % p = 1
  BY DEF IsField
<1>2. FieldInverse(a, p) \in 1 .. p - 1 /\ (FieldInverse(a, p) * a) % p = 1
  BY <1>1 DEF FieldInverse
<1>3. p \in Nat \ {0} /\ 1 \in 0 .. p - 1
  BY DEF IsField
<1>4. (1 % p) = 1
  BY <1>3, Reduced
<1> QED BY <1>2, <1>3, <1>4 DEF Congruent

\* Different points below p differ by something that has an inverse.
LEMMA PointsApart ==
    ASSUME NEW p, IsField(p), NEW n \in Nat, n < p, NEW i \in 1 .. n, NEW j \in 1 .. n, i # j
    PROVE  \E v \in Int : v = FieldInverse((j - i) % p, p) /\ Congruent(p, v * (j - i), 1)
<1> DEFINE d == j - i
           r == d % p
           q == d \div p
           v == FieldInverse(r, p)
<1>1. p \in Nat \ {0} /\ d \in Int /\ d # 0 /\ -p < d /\ d < p
  BY DEF IsField
<1> HIDE DEF d
<1>2. r \in 0 .. p - 1 /\ q \in Int /\ d = (p * q) + r /\ Congruent(p, r, d)
  BY <1>1, Division, RemainderTwice
<1>3. r # 0
  <2> SUFFICES ASSUME r = 0 PROVE FALSE
    OBVIOUS
  <2> HIDE DEF q, r
  <2>1. d = p * q
    BY <1>1, <1>2
  <2>2. CASE q = 0
    BY <1>1, <2>1, <2>2
  <2>3. CASE q >= 1
    <3>1. p * q >= p
      BY <1>1, <1>2, <2>3
    <3> QED BY <1>1, <2>1, <3>1
  <2>4. CASE q <= -1
    <3> DEFINE e == -q
    <3>1. e \in Int /\ e >= 1 /\ q = -e
      BY <1>2, <2>4
    <3> HIDE DEF e
    <3>2. p * e >= p /\ p * q = -(p * e) /\ p * e \in Int
      BY <1>1, <3>1
    <3> QED BY <1>1, <2>1, <3>2
  <2> QED BY <1>2, <2>2, <2>3, <2>4
<1>4. r \in 1 .. p - 1 /\ r \in Int
  BY <1>1, <1>2, <1>3
<1> HIDE DEF r
<1>5. v \in Int /\ Congruent(p, v * r, 1)
  BY <1>4, Inverses
<1> HIDE DEF v
<1>6. Congruent(p, v * r, v * d)
  <2>1. Congruent(p, v, v)
    BY DEF Congruent
  <2> QED BY <1>1, <1>2, <1>4, <1>5, <2>1, CongruentOperations
<1>7. Congruent(p, v * d, 1)
  BY <1>5, <1>6 DEF Congruent
<1> QED BY <1>5, <1>7 DEF v, r, d

\* A factor that has an inverse may be left out.
LEMMA Cancel ==
    ASSUME NEW p \in Nat \ {0}, NEW a \in Int, NEW b \in Int, NEW d \in Int, NEW v \in Int,
           Congruent(p, v * d, 1), Congruent(p, d * a, d * b)
    PROVE  Congruent(p, a, b)
<1>1. Congruent(p, v, v) /\ Congruent(p, a, a) /\ Congruent(p, b, b)
  BY DEF Congruent
<1>2. d * a \in Int /\ d * b \in Int /\ v * d \in Int /\ 1 \in Int
  OBVIOUS
<1>3. Congruent(p, v * (d * a), v * (d * b))
  BY <1>1, <1>2, CongruentOperations
<1>4. Congruent(p, (v * d) * a, 1 * a) /\ Congruent(p, (v * d) * b, 1 * b)
  BY <1>1, <1>2, CongruentOperations
<1>5. (v * d) * a = v * (d * a) /\ (v * d) * b = v * (d * b) /\ 1 * a = a /\ 1 * b = b
  OBVIOUS
<1> QED BY <1>3, <1>4, <1>5 DEF Congruent

\* The loop that multiplies a weight up.
WeightLoop(p, n, i, P, w) ==
    /\ w[0] = 1
    /\ \A j \in 1 .. n :
          w[j] = IF j \in P \ {i} THEN (w[j - 1] * (j * FieldInverse((j - i) % p, p))) % p ELSE w[j - 1]
    /\ \A j \in 0 .. n : w[j] \in Int

LEMMA WeightLoops ==
    ASSUME NEW p, IsField(p), NEW n \in Nat, n < p, NEW i \in 1 .. n, NEW P \in SUBSET (1 .. n)
    PROVE  \E w : WeightLoop(p, n, i, P, w) /\ Weight(p, n, i, P) = w[n]
<1> DEFINE f(j) == j * FieldInverse((j - i) % p, p)
           Def(w) == w = [j \in 0 .. n |-> IF j = 0 THEN 1
                                           ELSE IF j \in P \ {i} THEN (w[j - 1] * f(j)) % p
                                           ELSE w[j - 1]]
           weight == CHOOSE w : Def(w)
           next == [j \in Nat |-> [t \in Int |-> IF j \in P \ {i} THEN (t * f(j)) % p ELSE t]]
<1>0. p \in Nat \ {0}
  BY DEF IsField
<1>1. \A j \in P \ {i} : f(j) \in Int
  <2> SUFFICES ASSUME NEW j \in P \ {i} PROVE f(j) \in Int
    OBVIOUS
  <2>1. j \in 1 .. n /\ j \in Int
    OBVIOUS
  <2>2. FieldInverse((j - i) % p, p) \in Int
    BY <2>1, PointsApart
  <2> QED BY <2>1, <2>2
<1> HIDE DEF f
<1>2. \A t \in Int : \A j \in P \ {i} : (t * f(j)) % p \in Int
  <2> SUFFICES ASSUME NEW t \in Int, NEW j \in P \ {i} PROVE (t * f(j)) % p \in Int
    OBVIOUS
  <2>1. t * f(j) \in Int
    BY <1>1
  <2> QED BY <1>0, <2>1, RemainderTwice
<1>3. next \in [Nat -> [Int -> Int]] /\ 1 \in Int
  BY <1>2
<1>4. PICK g \in [Nat -> Int] : g[0] = 1 /\ \A k \in Nat : g[k + 1] = next[k + 1][g[k]]
  <2> HIDE DEF next
  <2>1. Recursive(Int, 1, next) # {}
    BY <1>3, Recursion
  <2> QED BY <2>1 DEF Recursive
<1>5. \E w : Def(w)
  <2> DEFINE w == [j \in 0 .. n |-> g[j]]
  <2>1. ASSUME NEW j \in 0 .. n
        PROVE  w[j] = IF j = 0 THEN 1 ELSE IF j \in P \ {i} THEN (w[j - 1] * f(j)) % p ELSE w[j - 1]
    <3>1. CASE j = 0
      BY <1>4, <3>1
    <3>2. CASE j # 0
      <4>1. j - 1 \in Nat /\ j - 1 \in 0 .. n /\ (j - 1) + 1 = j
        BY <3>2
      <4>2. g[(j - 1) + 1] = next[(j - 1) + 1][g[j - 1]]
        <5> HIDE DEF next
        <5> QED BY <1>4, <4>1
      <4>3. w[j] = g[j] /\ w[j - 1] = g[j - 1] /\ g[j - 1] \in Int /\ j \in Nat
        BY <1>4, <4>1
      <4>4. g[j] = next[j][g[j - 1]]
        <5> HIDE DEF next
        <5> QED BY <4>1, <4>2
      <4> HIDE DEF w
      <4>5. g[j] = IF j \in P \ {i} THEN (g[j - 1] * f(j)) % p ELSE g[j - 1]
        BY <4>3, <4>4
      <4> QED BY <3>2, <4>3, <4>5
    <3> QED BY <3>1, <3>2
  <2>2. w = [j \in 0 .. n |-> w[j]]
    OBVIOUS
  <2> HIDE DEF w
  <2>3. Def(w)
    BY <2>1, <2>2
  <2> HIDE DEF Def
  <2> QED BY <2>3
<1>6. Def(weight)
  <2> HIDE DEF Def
  <2> QED BY <1>5
<1>7. Weight(p, n, i, P) = weight[n]
  BY DEF Weight, f
<1> HIDE DEF weight, next
<1>8. /\ weight[0] = 1
      /\ \A j \in 1 .. n :
            weight[j] = IF j \in P \ {i} THEN (weight[j - 1] * f(j)) % p ELSE weight[j - 1]
  BY <1>6
<1>9. \A j \in 0 .. n : weight[j] \in Int
  <2> DEFINE G == {k \in Nat : k <= n => weight[k] \in Int}
  <2>1. 0 \in G
    BY <1>8
  <2>2. ASSUME NEW k \in G PROVE k + 1 \in G
    <3> SUFFICES ASSUME k + 1 <= n PROVE weight[k + 1] \in Int
      OBVIOUS
    <3> DEFINE j == k + 1
    <3>1. j \in 1 .. n /\ j - 1 = k /\ weight[k] \in Int
      OBVIOUS
    <3> HIDE DEF j
    <3>2. weight[j] = IF j \in P \ {i} THEN (weight[k] * f(j)) % p ELSE weight[k]
      BY <1>8, <3>1
    <3> QED BY <1>2, <3>1, <3>2 DEF j
  <2>3. \A k \in Nat : k \in G
    <3> HIDE DEF G
    <3>1. G \in SUBSET Nat
      BY DEF G
    <3> QED BY <2>1, <2>2, <3>1, Inductive
  <2> QED BY <2>3
<1>10. WeightLoop(p, n, i, P, weight)
  BY <1>8, <1>9 DEF WeightLoop, f
<1> QED BY <1>7, <1>10

\* What one point more does to the weight of another.
LEMMA WeightMore ==
    ASSUME NEW p, IsField(p), NEW n \in Nat, n < p, NEW P \in SUBSET (1 .. n),
           NEW i \in P, NEW m \in P, i # m
    PROVE  /\ Weight(p, n, i, P) \in Int /\ Weight(p, n, i, P \ {m}) \in Int
           /\ Congruent(p, Weight(p, n, i, P) * (m - i), Weight(p, n, i, P \ {m}) * m)
<1> DEFINE R == P \ {m}
<1>1. i \in 1 .. n /\ m \in 1 .. n /\ i \in Int /\ m \in Int /\ R \in SUBSET (1 .. n) /\ p \in Nat \ {0}
  BY DEF IsField
<1>2. PICK v \in Int : v = FieldInverse((m - i) % p, p) /\ Congruent(p, v * (m - i), 1)
  BY <1>1, PointsApart
<1>3. PICK w : WeightLoop(p, n, i, P, w) /\ Weight(p, n, i, P) = w[n]
  BY <1>1, WeightLoops
<1>4. PICK x : WeightLoop(p, n, i, R, x) /\ Weight(p, n, i, R) = x[n]
  BY <1>1, WeightLoops
<1> DEFINE f(j) == j * FieldInverse((j - i) % p, p)
           mv == m * v
           G == {k \in Nat : k <= n => Congruent(p, w[k], IF k >= m THEN x[k] * mv ELSE x[k])}
<1>5. f(m) = mv /\ mv \in Int
  BY <1>1, <1>2
<1>6. \A j \in P \ {i} : f(j) \in Int
  <2> SUFFICES ASSUME NEW j \in P \ {i} PROVE f(j) \in Int
    OBVIOUS
  <2>1. j \in 1 .. n /\ j \in Int
    BY <1>1
  <2>2. FieldInverse((j - i) % p, p) \in Int
    BY <1>1, <2>1, PointsApart
  <2> QED BY <2>1, <2>2
<1>7. /\ w[0] = 1 /\ x[0] = 1 /\ \A j \in 0 .. n : w[j] \in Int /\ x[j] \in Int
      /\ \A j \in 1 .. n : w[j] = IF j \in P \ {i} THEN (w[j - 1] * f(j)) % p ELSE w[j - 1]
      /\ \A j \in 1 .. n : x[j] = IF j \in R \ {i} THEN (x[j - 1] * f(j)) % p ELSE x[j - 1]
  BY <1>3, <1>4 DEF WeightLoop
<1> HIDE DEF f, mv
<1>8. 0 \in G
  BY <1>1, <1>7 DEF Congruent
<1>9. ASSUME NEW k \in G PROVE k + 1 \in G
  <2> SUFFICES ASSUME k + 1 <= n
               PROVE  Congruent(p, w[k + 1], IF k + 1 >= m THEN x[k + 1] * mv ELSE x[k + 1])
    BY <1>9
  <2> DEFINE j == k + 1
             wk == w[k]
             xk == x[k]
  <2>1. /\ j \in 1 .. n /\ j - 1 = k /\ j \in Nat /\ k \in 0 .. n /\ wk \in Int /\ xk \in Int
        /\ Congruent(p, wk, IF k >= m THEN xk * mv ELSE xk)
    BY <1>7, <1>9
  <2>2. /\ w[j] = IF j \in P \ {i} THEN (wk * f(j)) % p ELSE wk
        /\ x[j] = IF j \in R \ {i} THEN (xk * f(j)) % p ELSE xk
    <3>1. /\ w[j] = IF j \in P \ {i} THEN (w[j - 1] * f(j)) % p ELSE w[j - 1]
          /\ x[j] = IF j \in R \ {i} THEN (x[j - 1] * f(j)) % p ELSE x[j - 1]
      <4> HIDE DEF j, wk, xk
      <4> QED BY <1>7, <2>1
    <3> QED BY <2>1, <3>1
  <2>a. k >= m <=> j > m
    BY <1>1, <2>1
  <2> HIDE DEF j, wk, xk
  <2>3. CASE j = m
    <3>1. /\ w[j] = (wk * mv) % p /\ x[j] = xk /\ ~(k >= m) /\ j >= m
      BY <1>1, <1>5, <2>1, <2>2, <2>3, <2>a
    <3>2. wk * mv \in Int /\ Congruent(p, wk, xk) /\ Congruent(p, mv, mv)
      BY <1>5, <2>1, <3>1 DEF Congruent
    <3>3. Congruent(p, wk * mv, xk * mv)
      BY <1>1, <1>5, <2>1, <3>2, CongruentOperations
    <3>4. Congruent(p, w[j], wk * mv)
      BY <1>1, <3>1, <3>2, RemainderTwice
    <3>5. Congruent(p, w[j], x[j] * mv)
      BY <3>1, <3>3, <3>4 DEF Congruent
    <3> QED BY <3>1, <3>5 DEF j
  <2>4. CASE j # m /\ j \notin P \ {i}
    <3>1. w[j] = wk /\ x[j] = xk /\ (j >= m <=> k >= m)
      BY <1>1, <2>1, <2>2, <2>4, <2>a
    <3> QED BY <2>1, <3>1 DEF j
  <2>5. CASE j # m /\ j \in P \ {i}
    <3> DEFINE fj == f(j)
               wf == wk * fj
               xf == xk * fj
    <3>1. fj \in Int /\ Congruent(p, fj, fj)
      BY <1>6, <2>5 DEF Congruent
    <3>2. w[j] = wf % p /\ x[j] = xf % p /\ (j >= m <=> k >= m)
      BY <1>1, <2>1, <2>2, <2>5, <2>a
    <3> HIDE DEF fj
    <3>3. wf \in Int /\ xf \in Int
      BY <2>1, <3>1
    <3>4. Congruent(p, wf % p, wf) /\ Congruent(p, xf % p, xf) /\ (xf % p) \in Int
      <4> HIDE DEF wf, xf
      <4> QED BY <1>1, <3>3, RemainderTwice
    <3>5. CASE k >= m
      <4>1. Congruent(p, wk, xk * mv) /\ xk * mv \in Int
        BY <1>5, <2>1, <3>5
      <4>2. Congruent(p, wk * fj, (xk * mv) * fj)
        BY <1>1, <2>1, <3>1, <4>1, CongruentOperations
      <4>3. (xk * mv) * fj = xf * mv
        BY <1>5, <2>1, <3>1
      <4>4. Congruent(p, (xf % p) * mv, xf * mv)
        <5>1. Congruent(p, mv, mv)
          BY DEF Congruent
        <5> HIDE DEF xf
        <5> QED BY <1>1, <1>5, <3>3, <3>4, <5>1, CongruentOperations
      <4>5. Congruent(p, w[j], x[j] * mv)
        BY <3>2, <3>4, <4>2, <4>3, <4>4 DEF Congruent
      <4> QED BY <3>2, <3>5, <4>5 DEF j
    <3>6. CASE ~(k >= m)
      <4>1. Congruent(p, wk, xk)
        BY <2>1, <3>6
      <4>2. Congruent(p, wf, xf)
        BY <1>1, <2>1, <3>1, <4>1, CongruentOperations
      <4>3. Congruent(p, w[j], x[j])
        BY <3>2, <3>4, <4>2 DEF Congruent
      <4> QED BY <3>2, <3>6, <4>3 DEF j
    <3> QED BY <3>5, <3>6
  <2> QED BY <2>3, <2>4, <2>5
<1>10. \A k \in Nat : k \in G
  <2> HIDE DEF G
  <2>1. G \in SUBSET Nat
    BY DEF G
  <2> QED BY <1>8, <1>9, <2>1, Inductive
<1>11. Congruent(p, w[n], x[n] * mv) /\ w[n] \in Int /\ x[n] \in Int
  BY <1>1, <1>7, <1>10
<1> DEFINE d == m - i
           wn == w[n]
           xn == x[n]
<1>12. d \in Int /\ wn \in Int /\ xn \in Int /\ Congruent(p, v * d, 1) /\ Congruent(p, wn, xn * mv)
  BY <1>1, <1>2, <1>11
<1> HIDE DEF d, wn, xn, G
<1>13. Congruent(p, wn * d, (xn * mv) * d)
  <2>1. xn * mv \in Int /\ Congruent(p, d, d)
    BY <1>5, <1>12 DEF Congruent
  <2> QED BY <1>1, <1>12, <2>1, CongruentOperations
<1>14. (xn * mv) * d = (xn * m) * (v * d)
  BY <1>1, <1>2, <1>12 DEF mv
<1>15. Congruent(p, (xn * m) * (v * d), (xn * m) * 1)
  <2>1. xn * m \in Int /\ v * d \in Int /\ Congruent(p, xn * m, xn * m)
    BY <1>1, <1>2, <1>12 DEF Congruent
  <2> QED BY <1>1, <1>12, <2>1, CongruentOperations
<1>16. (xn * m) * 1 = xn * m
  BY <1>1, <1>12
<1>17. Congruent(p, wn * d, xn * m)
  BY <1>13, <1>14, <1>15, <1>16 DEF Congruent
<1> QED BY <1>3, <1>4, <1>12, <1>17 DEF wn, xn, d

LEMMA PowerOfOne == \A k \in Nat : Power(1, k) = 1
<1> DEFINE G == {k \in Nat : Power(1, k) = 1}
<1>1. 0 \in G /\ \A k \in G : k + 1 \in G
  BY PowerStep
<1> QED
  <2>1. \A k \in Nat : k \in G
    <3> HIDE DEF G
    <3>1. G \in SUBSET Nat
      BY DEF G
    <3> QED BY <1>1, <3>1, Inductive
  <2> QED BY <2>1

\* c[0] + ... + c[n].
Total(c, n) == Series(c, 1)[n]

LEMMA TotalStep ==
    ASSUME NEW c \in PowerCoefficients
    PROVE  /\ Total(c, 0) = c[0]
           /\ \A k \in Nat : Total(c, k) \in Int /\ Total(c, k + 1) = Total(c, k) + c[k + 1]
<1>1. /\ Series(c, 1)[0] = c[0]
      /\ \A k \in Nat : /\ Series(c, 1)[k] \in Int
                        /\ Series(c, 1)[k + 1] = Series(c, 1)[k] + (c[k + 1] * Power(1, k + 1))
  BY SeriesStep
<1>2. ASSUME NEW k \in Nat PROVE c[k + 1] * Power(1, k + 1) = c[k + 1]
  <2>1. k + 1 \in Nat /\ c[k + 1] \in Int
    BY DEF PowerCoefficients
  <2> QED BY <2>1, PowerOfOne
<1> QED BY <1>1, <1>2 DEF Total

\* Weighted values, and their sum, which is what At0 computes.
Weighted(p, n, P, g) == [i \in Nat |-> IF i \in P THEN Weight(p, n, i, P) * g[i] ELSE 0]

LEMMA WeightType ==
    ASSUME NEW p, IsField(p), NEW n \in Nat, n < p, NEW i \in 1 .. n, NEW P \in SUBSET (1 .. n)
    PROVE  Weight(p, n, i, P) \in Int
<1>1. PICK w : WeightLoop(p, n, i, P, w) /\ Weight(p, n, i, P) = w[n]
  BY WeightLoops
<1> QED BY <1>1 DEF WeightLoop

\* Values at the points of P.
Numbers(P, g) == \A i \in P : g[i] \in Int

IsWeighted(p, n, P, g, c) ==
    /\ c \in PowerCoefficients
    /\ \A i \in P : c[i] = Weight(p, n, i, P) * g[i] /\ Weight(p, n, i, P) \in Int
    /\ \A i \in Nat \ P : c[i] = 0

LEMMA WeightedType ==
    ASSUME NEW p, IsField(p), NEW n \in Nat, n < p, NEW P \in SUBSET (1 .. n),
           NEW g, Numbers(P, g)
    PROVE  IsWeighted(p, n, P, g, Weighted(p, n, P, g))
<1>1. ASSUME NEW i \in P PROVE i \in 1 .. n /\ i \in Nat /\ Weight(p, n, i, P) \in Int
  BY WeightType
<1>2. ASSUME NEW i \in Nat PROVE (IF i \in P THEN Weight(p, n, i, P) * g[i] ELSE 0) \in Int
  BY <1>1 DEF Numbers
<1> QED BY <1>1, <1>2 DEF Weighted, PowerCoefficients, IsWeighted

LEMMA At0IsTotal ==
    ASSUME NEW p, IsField(p), NEW n \in Nat, n < p, NEW P \in SUBSET (1 .. n),
           NEW g, Numbers(P, g)
    PROVE  At0(p, n, g, P) = Total(Weighted(p, n, P, g), n) % p
<1> DEFINE c == Weighted(p, n, P, g)
           t == [k \in Nat |-> Total(c, k)]
           a(i) == Weight(p, n, i, P) * g[i]
           Def(f) == f = [i \in 0 .. n |-> IF i = 0 THEN 0 ELSE IF i \in P THEN f[i - 1] + a(i) ELSE f[i - 1]]
           sum == CHOOSE f : Def(f)
<1>1. /\ c \in PowerCoefficients /\ \A i \in P : c[i] = a(i)
      /\ \A i \in Nat \ P : c[i] = 0
  BY WeightedType DEF IsWeighted
<1>2. At0(p, n, g, P) = sum[n] % p
  BY DEF At0
<1> HIDE DEF c, a
<1>3. 0 \in Nat \ P
  OBVIOUS
<1>4. t[0] = 0 /\ \A k \in Nat : t[k] \in Int /\ t[k + 1] = t[k] + c[k + 1]
  BY <1>1, <1>3, TotalStep
<1> HIDE DEF t
<1>5. ASSUME NEW i \in 1 .. n PROVE t[i] = IF i \in P THEN t[i - 1] + a(i) ELSE t[i - 1]
  <2> DEFINE k == i - 1
  <2>1. k \in Nat /\ k + 1 = i /\ i \in Nat
    OBVIOUS
  <2> HIDE DEF k
  <2>2. t[i] = t[k] + c[i] /\ t[k] \in Int
    BY <1>4, <2>1
  <2>3. c[i] = IF i \in P THEN a(i) ELSE 0
    BY <1>1, <2>1
  <2>4. t[i] = IF i \in P THEN t[k] + a(i) ELSE t[k]
    BY <2>2, <2>3
  <2> QED BY <2>4 DEF k
<1>6. Def([i \in 0 .. n |-> t[i]])
  <2> DEFINE f == [i \in 0 .. n |-> t[i]]
  <2>1. ASSUME NEW i \in 0 .. n
        PROVE  f[i] = IF i = 0 THEN 0 ELSE IF i \in P THEN f[i - 1] + a(i) ELSE f[i - 1]
    <3>1. CASE i = 0
      BY <1>4, <3>1
    <3>2. CASE i # 0
      <4>1. i \in 1 .. n /\ i - 1 \in 0 .. n
        BY <3>2
      <4>2. f[i] = t[i] /\ f[i - 1] = t[i - 1]
        BY <4>1
      <4> HIDE DEF f
      <4> QED BY <1>5, <3>2, <4>1, <4>2
    <3> QED BY <3>1, <3>2
  <2>2. f = [i \in 0 .. n |-> f[i]]
    OBVIOUS
  <2> HIDE DEF f
  <2>3. Def(f)
    BY <2>1, <2>2
  <2> QED BY <2>3 DEF f
<1>7. Def(sum)
  <2> HIDE DEF Def
  <2> QED BY <1>6
<1> HIDE DEF sum
<1>8. \A i \in 0 .. n : sum[i] = t[i]
  <2> DEFINE G == {i \in Nat : i <= n => sum[i] = t[i]}
  <2>1. 0 \in G
    BY <1>4, <1>7
  <2>2. ASSUME NEW i \in G PROVE i + 1 \in G
    <3> SUFFICES ASSUME i + 1 <= n PROVE sum[i + 1] = t[i + 1]
      OBVIOUS
    <3> DEFINE j == i + 1
    <3>1. j \in 1 .. n /\ j - 1 = i /\ j \in 0 .. n /\ j # 0 /\ sum[i] = t[i]
      OBVIOUS
    <3> HIDE DEF j
    <3>2. sum[j] = IF j \in P THEN sum[j - 1] + a(j) ELSE sum[j - 1]
      BY <1>7, <3>1
    <3>3. t[j] = IF j \in P THEN t[j - 1] + a(j) ELSE t[j - 1]
      BY <1>5, <3>1
    <3> QED BY <3>1, <3>2, <3>3 DEF j
  <2>3. \A i \in Nat : i \in G
    <3> HIDE DEF G
    <3>1. G \in SUBSET Nat
      BY DEF G
    <3> QED BY <2>1, <2>2, <3>1, Inductive
  <2> QED BY <2>3
<1>9. sum[n] = t[n]
  BY <1>8
<1>10. sum[n] = Total(c, n)
  BY <1>9 DEF t
<1> QED BY <1>2, <1>10 DEF c

\* A single number adds up to itself.
LEMMA TotalSingle ==
    ASSUME NEW c \in PowerCoefficients, NEW i \in Nat, i > 0, \A k \in Nat : k # i => c[k] = 0
    PROVE  \A n \in Nat : n >= i => Total(c, n) = c[i]
<1> DEFINE t == [k \in Nat |-> Total(c, k)]
           G == {k \in Nat : t[k] = IF k >= i THEN c[i] ELSE 0}
<1>1. t[0] = 0 /\ (\A k \in Nat : t[k] \in Int /\ t[k + 1] = t[k] + c[k + 1]) /\ c[i] \in Int
  BY TotalStep DEF PowerCoefficients
<1> HIDE DEF t
<1>2. 0 \in G
  BY <1>1
<1>3. ASSUME NEW k \in G PROVE k + 1 \in G
  <2>1. t[k + 1] = t[k] + c[k + 1] /\ t[k] = IF k >= i THEN c[i] ELSE 0
    BY <1>1
  <2>2. k + 1 # i => c[k + 1] = 0
    OBVIOUS
  <2> QED BY <1>1, <2>1, <2>2
<1>4. \A k \in Nat : k \in G
  <2> HIDE DEF G
  <2>1. G \in SUBSET Nat
    BY DEF G
  <2> QED BY <1>2, <1>3, <2>1, Inductive
<1> QED BY <1>4 DEF t

\* The weighted sum of the k-th powers of the points.
Powers(k) == [i \in Nat |-> Power(i, k)]
Moment(p, n, P, k) == Total(Weighted(p, n, P, Powers(k)), n)

LEMMA PowersType ==
    ASSUME NEW k \in Nat
    PROVE  \A i \in Nat : /\ Powers(k)[i] \in Int /\ Powers(k + 1)[i] = Powers(k)[i] * i
                          /\ Powers(0)[i] = 1
BY PowerStep DEF Powers

\* Totals of congruent numbers, and of a multiple.
LEMMA TotalReduced ==
    ASSUME NEW p \in Nat \ {0}, NEW c \in PowerCoefficients, NEW d \in PowerCoefficients,
           \A i \in Nat : Congruent(p, c[i], d[i]), NEW n \in Nat
    PROVE  Congruent(p, Total(c, n), Total(d, n))
BY SeriesReduced DEF Total

LEMMA TotalLinear ==
    ASSUME NEW a \in Int, NEW c \in PowerCoefficients, NEW d \in PowerCoefficients, NEW n \in Nat
    PROVE  LET e == [i \in Nat |-> (a * c[i]) + d[i]]
           IN e \in PowerCoefficients /\ Total(e, n) = (a * Total(c, n)) + Total(d, n)
<1> DEFINE e == [i \in Nat |-> (a * c[i]) + d[i]]
<1>1. e \in PowerCoefficients /\ \A x \in Int : \A k \in Nat : Series(e, x)[k] = (a * Series(c, x)[k]) + Series(d, x)[k]
  BY SeriesLinear
<1>2. 1 \in Int
  OBVIOUS
<1>3. Series(e, 1)[n] = (a * Series(c, 1)[n]) + Series(d, 1)[n]
  <2> HIDE DEF e
  <2> QED BY <1>1, <1>2
<1>4. Total(e, n) = (a * Total(c, n)) + Total(d, n)
  <2> HIDE DEF e
  <2> QED BY <1>3 DEF Total
<1> QED BY <1>1, <1>4

\* Leaving a point out, and one more power.
LEMMA MomentStep ==
    ASSUME NEW p, IsField(p), NEW n \in Nat, n < p, NEW P \in SUBSET (1 .. n), NEW m \in P, NEW k \in Nat
    PROVE  /\ Moment(p, n, P, k) \in Int /\ Moment(p, n, P, k + 1) \in Int
           /\ Moment(p, n, P \ {m}, k) \in Int
           /\ Congruent(p, m * Moment(p, n, P, k),
                           (m * Moment(p, n, P \ {m}, k)) + Moment(p, n, P, k + 1))
<1> DEFINE R == P \ {m}
           c == Weighted(p, n, P, Powers(k))
           b == Weighted(p, n, P, Powers(k + 1))
           d == Weighted(p, n, R, Powers(k))
           zero == [i \in Nat |-> 0]
           left == [i \in Nat |-> (m * c[i]) + zero[i]]
           right == [i \in Nat |-> (m * d[i]) + b[i]]
<1>1. R \in SUBSET (1 .. n) /\ m \in Int /\ p \in Nat \ {0} /\ k + 1 \in Nat /\ R \subseteq P
      /\ \A i \in P : i \in 1 .. n /\ i \in Nat /\ i \in Int
  BY DEF IsField
<1>2. /\ c \in PowerCoefficients /\ b \in PowerCoefficients /\ d \in PowerCoefficients
      /\ \A i \in P : /\ c[i] = Weight(p, n, i, P) * Powers(k)[i] /\ Weight(p, n, i, P) \in Int
                      /\ b[i] = Weight(p, n, i, P) * Powers(k + 1)[i]
      /\ \A i \in R : d[i] = Weight(p, n, i, R) * Powers(k)[i] /\ Weight(p, n, i, R) \in Int
      /\ \A i \in Nat \ P : c[i] = 0 /\ b[i] = 0
      /\ \A i \in Nat \ R : d[i] = 0
  <2>1. \A i \in P : Powers(k)[i] \in Int /\ Powers(k + 1)[i] \in Int
    BY <1>1, PowersType
  <2> DEFINE f == Powers(k)
             h == Powers(k + 1)
  <2>2. Numbers(P, f) /\ Numbers(P, h) /\ Numbers(R, f)
    BY <2>1 DEF Numbers
  <2>3. R \in SUBSET (1 .. n)
    BY <1>1
  <2> HIDE DEF R, f, h
  <2>4. /\ IsWeighted(p, n, P, f, Weighted(p, n, P, f))
        /\ IsWeighted(p, n, P, h, Weighted(p, n, P, h))
        /\ IsWeighted(p, n, R, f, Weighted(p, n, R, f))
    BY <2>2, <2>3, WeightedType
  <2> QED BY <2>4 DEF f, h, IsWeighted
<1>3. zero \in PowerCoefficients /\ \A i \in Nat : zero[i] = 0
  BY DEF PowerCoefficients
<1> HIDE DEF zero
<1>4. Total(zero, n) = 0
  <2>1. zero \in UpTo(0) /\ 1 \in Int
    BY <1>3 DEF UpTo
  <2> QED BY <1>3, <2>1, SeriesConstant DEF Total
<1> HIDE DEF c, b, d
<1>5. /\ Total(c, n) \in Int /\ Total(b, n) \in Int /\ Total(d, n) \in Int
  BY <1>2, TotalStep
<1>6. left \in PowerCoefficients /\ Total(left, n) = (m * Total(c, n)) + Total(zero, n)
  BY <1>1, <1>2, <1>3, TotalLinear
<1>7. right \in PowerCoefficients /\ Total(right, n) = (m * Total(d, n)) + Total(b, n)
  BY <1>1, <1>2, TotalLinear
<1>8. ASSUME NEW i \in Nat PROVE Congruent(p, left[i], right[i])
  <2>0. left[i] = (m * c[i]) + 0 /\ right[i] = (m * d[i]) + b[i]
    BY <1>3
  <2> HIDE DEF left, right
  <2>1. CASE i \notin P
    BY <1>1, <1>2, <2>0, <2>1 DEF Congruent
  <2> DEFINE x == Weight(p, n, i, P)
             y == Weight(p, n, i, R)
             r == Powers(k)[i]
  <2>2. CASE i \in P
    <3>1. /\ i \in Int /\ x \in Int /\ r \in Int /\ c[i] = x * r /\ b[i] = x * (r * i)
      BY <1>1, <1>2, <2>2, PowersType
    <3>2. CASE i = m
      <4>1. d[i] = 0
        BY <1>2, <3>2
      <4> HIDE DEF x, r
      <4>2. left[i] = (i * (x * r)) + 0 /\ right[i] = (i * 0) + (x * (r * i))
        BY <2>0, <3>1, <3>2, <4>1
      <4>3. left[i] = right[i]
        BY <3>1, <4>2
      <4> QED BY <4>3 DEF Congruent
    <3>3. CASE i # m
      <4>1. i \in R
        BY <2>2, <3>3
      <4>2. y \in Int /\ d[i] = y * r /\ Congruent(p, x * (m - i), y * m)
        BY <1>1, <1>2, <2>2, <3>3, <4>1, WeightMore
      <4> HIDE DEF x, y, r
      <4>3. Congruent(p, (x * (m - i)) * r, (y * m) * r)
        <5>1. x * (m - i) \in Int /\ y * m \in Int /\ Congruent(p, r, r)
          BY <1>1, <3>1, <4>2 DEF Congruent
        <5> QED BY <1>1, <3>1, <4>2, <5>1, CongruentOperations
      <4>4. Congruent(p, ((x * (m - i)) * r) + (x * (r * i)), ((y * m) * r) + (x * (r * i)))
        <5>1. (x * (m - i)) * r \in Int /\ (y * m) * r \in Int /\ x * (r * i) \in Int
              /\ Congruent(p, x * (r * i), x * (r * i))
          BY <1>1, <3>1, <4>2 DEF Congruent
        <5> QED BY <1>1, <4>3, <5>1, CongruentOperations
      <4>5. ((x * (m - i)) * r) + (x * (r * i)) = (m * (x * r)) + 0
        BY <1>1, <3>1
      <4>6. ((y * m) * r) + (x * (r * i)) = (m * (y * r)) + (x * (r * i))
        BY <1>1, <3>1, <4>2
      <4> QED BY <2>0, <3>1, <4>2, <4>4, <4>5, <4>6
    <3> QED BY <3>2, <3>3
  <2> QED BY <2>1, <2>2
<1> HIDE DEF left, right
<1>9. Congruent(p, Total(left, n), Total(right, n))
  BY <1>1, <1>6, <1>7, <1>8, TotalReduced
<1>10. Total(left, n) = m * Total(c, n)
  BY <1>1, <1>4, <1>5, <1>6
<1> QED BY <1>5, <1>7, <1>9, <1>10 DEF c, b, d, Moment

\* The weights of any set of d + 1 points add up to 1, and weighted with any power
\* of the points up to the d-th they add up to 0.
LEMMA Moments ==
    ASSUME NEW p, IsField(p), NEW n \in Nat, n < p
    PROVE  \A d \in Nat : \A P \in SUBSET (1 .. n) :
              Cardinality(P) = d + 1 =>
                 /\ Congruent(p, Moment(p, n, P, 0), 1)
                 /\ \A k \in 1 .. d : Congruent(p, Moment(p, n, P, k), 0)
<1> DEFINE Good(d) == \A P \in SUBSET (1 .. n) :
              Cardinality(P) = d + 1 =>
                 /\ Congruent(p, Moment(p, n, P, 0), 1)
                 /\ \A k \in 1 .. d : Congruent(p, Moment(p, n, P, k), 0)
           G == {d \in Nat : Good(d)}
<1>0. p \in Nat \ {0}
  BY DEF IsField
<1>f. \A P \in SUBSET (1 .. n) : IsFiniteSet(P)
  BY FirstNumbers, FS_Subset
<1>1. Good(0)
  <2> SUFFICES ASSUME NEW P \in SUBSET (1 .. n), Cardinality(P) = 1
               PROVE  Congruent(p, Moment(p, n, P, 0), 1)
    OBVIOUS
  <2>1. PICK i : P = {i}
    BY <1>f, FS_Singleton
  <2>2. i \in 1 .. n /\ i \in Nat /\ i > 0 /\ i \in P
    BY <2>1
  <2>3. PICK w : WeightLoop(p, n, i, P, w) /\ Weight(p, n, i, P) = w[n]
    BY <2>2, WeightLoops
  <2>4. w[0] = 1 /\ \A j \in 1 .. n : w[j] = w[j - 1]
    <3>1. \A j : j \notin P \ {i}
      BY <2>1
    <3> QED BY <2>3, <3>1 DEF WeightLoop
  <2>5. w[n] = 1
    <3> DEFINE H == {k \in Nat : k <= n => w[k] = 1}
    <3>1. 0 \in H
      BY <2>4
    <3>2. ASSUME NEW k \in H PROVE k + 1 \in H
      <4> SUFFICES ASSUME k + 1 <= n PROVE w[k + 1] = 1
        OBVIOUS
      <4> DEFINE j == k + 1
      <4>1. j \in 1 .. n /\ j - 1 = k /\ w[k] = 1
        OBVIOUS
      <4> HIDE DEF j
      <4>2. w[j] = 1
        BY <2>4, <4>1
      <4> QED BY <4>2 DEF j
    <3>3. \A k \in Nat : k \in H
      <4> HIDE DEF H
      <4>1. H \in SUBSET Nat
        BY DEF H
      <4> QED BY <3>1, <3>2, <4>1, Inductive
    <3> QED BY <3>3
  <2> DEFINE g == Powers(0)
             c == Weighted(p, n, P, g)
  <2>6. g[i] = 1 /\ Numbers(P, g)
    <3>1. 0 \in Nat
      OBVIOUS
    <3> QED BY <2>1, <2>2, <3>1, PowersType DEF Numbers
  <2> HIDE DEF g
  <2>7. c \in PowerCoefficients /\ c[i] = Weight(p, n, i, P) * g[i] /\ \A j \in Nat \ P : c[j] = 0
    <3>1. IsWeighted(p, n, P, g, c)
      BY <2>6, WeightedType
    <3> QED BY <2>2, <3>1 DEF IsWeighted
  <2>8. c[i] = 1
    BY <2>3, <2>5, <2>6, <2>7
  <2> HIDE DEF c
  <2>9. \A j \in Nat : j # i => c[j] = 0
    BY <2>1, <2>7
  <2>10. Total(c, n) = 1
    BY <2>2, <2>7, <2>8, <2>9, TotalSingle
  <2> QED BY <2>10 DEF Moment, c, g, Congruent
<1>2. ASSUME NEW d \in Nat, Good(d) PROVE Good(d + 1)
  <2> SUFFICES ASSUME NEW P \in SUBSET (1 .. n), Cardinality(P) = d + 2
               PROVE  /\ Congruent(p, Moment(p, n, P, 0), 1)
                      /\ \A k \in 1 .. d + 1 : Congruent(p, Moment(p, n, P, k), 0)
    <3>1. (d + 1) + 1 = d + 2
      OBVIOUS
    <3> QED BY <3>1
  <2>1. IsFiniteSet(P) /\ P # {}
    BY <1>f, FS_EmptySet
  <2>2. PICK m \in P : TRUE
    BY <2>1
  <2>3. Cardinality(P \ {m}) = d + 1 /\ IsFiniteSet(P \ {m})
    BY <2>1, FS_RemoveElement
  <2>4. P \ {m} # {}
    BY <2>3, FS_EmptySet
  <2>5. PICK l \in P \ {m} : TRUE
    BY <2>4
  <2>6. Cardinality(P \ {l}) = d + 1
    BY <2>1, <2>5, FS_RemoveElement
  <2> DEFINE M(k) == Moment(p, n, P, k)
             A(k) == Moment(p, n, P \ {m}, k)
             B(k) == Moment(p, n, P \ {l}, k)
  <2>7. /\ Congruent(p, A(0), 1) /\ Congruent(p, B(0), 1)
        /\ \A k \in 1 .. d : Congruent(p, A(k), 0)
    <3>1. P \ {m} \in SUBSET (1 .. n) /\ P \ {l} \in SUBSET (1 .. n)
      OBVIOUS
    <3> QED BY <1>2, <2>3, <2>6, <3>1
  <2>8. ASSUME NEW k \in Nat
        PROVE  /\ M(k) \in Int /\ M(k + 1) \in Int /\ A(k) \in Int /\ B(k) \in Int
               /\ Congruent(p, m * M(k), (m * A(k)) + M(k + 1))
               /\ Congruent(p, l * M(k), (l * B(k)) + M(k + 1))
    <3>1. l \in P
      BY <2>5
    <3> QED BY <3>1, MomentStep
  <2>9. m \in 1 .. n /\ l \in 1 .. n /\ m \in Int /\ l \in Int /\ m # l
    BY <2>5
  <2> HIDE DEF M, A, B
  <2> DEFINE a == M(0)
             b == M(1)
             x == A(0)
             y == B(0)
  <2>10. /\ a \in Int /\ b \in Int /\ x \in Int /\ y \in Int
         /\ Congruent(p, m * a, (m * x) + b) /\ Congruent(p, l * a, (l * y) + b)
         /\ Congruent(p, x, 1) /\ Congruent(p, y, 1)
    <3>1. 0 \in Nat /\ 0 + 1 = 1
      OBVIOUS
    <3>2. M(0 + 1) = M(1)
      BY <3>1
    <3> QED BY <2>7, <2>8, <3>1, <3>2
  <2> HIDE DEF a, b, x, y
  <2>11. Congruent(p, m * a, m + b) /\ Congruent(p, l * a, l + b)
    <3>1. Congruent(p, m, m) /\ Congruent(p, l, l) /\ Congruent(p, b, b) /\ 1 \in Int
      BY DEF Congruent
    <3>2. Congruent(p, m * x, m * 1) /\ Congruent(p, l * y, l * 1)
      BY <1>0, <2>9, <2>10, <3>1, CongruentOperations
    <3>3. m * 1 = m /\ l * 1 = l /\ m * x \in Int /\ l * y \in Int
      BY <2>9, <2>10
    <3>4. Congruent(p, (m * x) + b, m + b) /\ Congruent(p, (l * y) + b, l + b)
      BY <1>0, <2>9, <2>10, <3>1, <3>2, <3>3, CongruentOperations
    <3> QED BY <2>10, <3>4 DEF Congruent
  <2>12. Congruent(p, a, 1)
    <3> DEFINE e == l - m
    <3>1. PICK v \in Int : Congruent(p, v * e, 1)
      BY <2>9, PointsApart
    <3>2. Congruent(p, (l * a) - (m * a), (l + b) - (m + b))
      <4>1. l * a \in Int /\ m * a \in Int /\ l + b \in Int /\ m + b \in Int
        BY <2>9, <2>10
      <4> QED BY <1>0, <2>11, <4>1, CongruentOperations
    <3>3. (l * a) - (m * a) = e * a /\ (l + b) - (m + b) = e * 1 /\ e \in Int
      BY <2>9, <2>10
    <3>4. Congruent(p, e * a, e * 1)
      BY <3>2, <3>3
    <3>5. 1 \in Int
      OBVIOUS
    <3> HIDE DEF e
    <3> QED BY <1>0, <2>10, <3>1, <3>3, <3>4, <3>5, Cancel
  <2>13. Congruent(p, b, 0)
    <3>1. Congruent(p, m, m) /\ 1 \in Int
      BY DEF Congruent
    <3>2. Congruent(p, m * a, m * 1) /\ m * 1 = m
      BY <1>0, <2>9, <2>10, <2>12, <3>1, CongruentOperations
    <3>3. Congruent(p, m + b, m)
      BY <2>11, <3>2 DEF Congruent
    <3>4. Congruent(p, (m + b) - m, m - m)
      <4>1. m + b \in Int
        BY <2>9, <2>10
      <4> QED BY <1>0, <2>9, <3>1, <3>3, <4>1, CongruentOperations
    <3>5. (m + b) - m = b /\ m - m = 0
      BY <2>9, <2>10
    <3> QED BY <3>4, <3>5
  <2> DEFINE H == {k \in Nat : k <= d => Congruent(p, M(k + 1), 0)}
  <2>14. 0 \in H
    <3>1. 0 + 1 = 1
      OBVIOUS
    <3>2. M(0 + 1) = b
      BY <3>1 DEF b
    <3> QED BY <2>13, <3>2
  <2>15. ASSUME NEW k \in H PROVE k + 1 \in H
    <3> SUFFICES ASSUME k + 1 <= d PROVE Congruent(p, M((k + 1) + 1), 0)
      BY <2>15
    <3> DEFINE j == k + 1
    <3>1. j \in 1 .. d /\ j \in Nat
      BY <2>15
    <3>2. Congruent(p, M(j), 0)
      BY <2>15
    <3> HIDE DEF j
    <3> DEFINE u == M(j)
               w == A(j)
               z == M(j + 1)
    <3>3. /\ u \in Int /\ w \in Int /\ z \in Int /\ Congruent(p, m * u, (m * w) + z)
          /\ Congruent(p, u, 0) /\ Congruent(p, w, 0)
      BY <2>7, <2>8, <3>1, <3>2
    <3> HIDE DEF u, w, z
    <3>4. Congruent(p, m, m) /\ 0 \in Int
      BY DEF Congruent
    <3>5. Congruent(p, m * u, m * 0) /\ Congruent(p, m * w, m * 0) /\ m * 0 = 0
      BY <1>0, <2>9, <3>3, <3>4, CongruentOperations
    <3>6. Congruent(p, (m * w) + z, 0)
      BY <3>3, <3>5 DEF Congruent
    <3>7. Congruent(p, ((m * w) + z) - (m * w), 0 - 0)
      <4>1. (m * w) + z \in Int /\ m * w \in Int
        BY <2>9, <3>3
      <4> QED BY <1>0, <3>4, <3>5, <3>6, <4>1, CongruentOperations
    <3>8. ((m * w) + z) - (m * w) = z /\ 0 - 0 = 0
      <4>1. m * w \in Int
        BY <2>9, <3>3
      <4> QED BY <3>3, <4>1
    <3> QED BY <3>7, <3>8 DEF z, j
  <2>16. \A k \in Nat : k \in H
    <3> HIDE DEF H
    <3>1. H \in SUBSET Nat
      BY DEF H
    <3> QED BY <2>14, <2>15, <3>1, Inductive
  <2>17. ASSUME NEW k \in 1 .. d + 1 PROVE Congruent(p, M(k), 0)
    <3> DEFINE j == k - 1
    <3>1. j \in Nat /\ j <= d /\ j + 1 = k
      OBVIOUS
    <3> HIDE DEF j
    <3>2. Congruent(p, M(j + 1), 0)
      BY <2>16, <3>1
    <3> QED BY <3>1, <3>2
  <2> QED BY <2>12, <2>17 DEF M, a
<1>3. \A d \in Nat : d \in G
  <2>1. 0 \in G /\ \A d \in G : d + 1 \in G
    <3> HIDE DEF Good
    <3> QED BY <1>1, <1>2
  <2> HIDE DEF G
  <2>2. G \in SUBSET Nat
    BY DEF G
  <2> QED BY <2>1, <2>2, Inductive
<1> QED
  <2>1. \A d \in Nat : Good(d)
    <3> HIDE DEF Good
    <3> QED BY <1>3
  <2> QED BY <2>1

\* Totals of weighted values are linear in the values.
LEMMA TotalWeighted ==
    ASSUME NEW p, IsField(p), NEW n \in Nat, n < p, NEW P \in SUBSET (1 .. n), NEW a \in Int,
           NEW f, NEW g, NEW h,
           Numbers(P, f), Numbers(P, g), \A i \in P : h[i] = (a * f[i]) + g[i]
    PROVE  /\ Total(Weighted(p, n, P, f), n) \in Int /\ Total(Weighted(p, n, P, g), n) \in Int
           /\ Total(Weighted(p, n, P, h), n)
                 = (a * Total(Weighted(p, n, P, f), n)) + Total(Weighted(p, n, P, g), n)
<1> DEFINE b == Weighted(p, n, P, f)
           c == Weighted(p, n, P, g)
           d == Weighted(p, n, P, h)
           e == [i \in Nat |-> (a * b[i]) + c[i]]
<1>1. /\ \A i \in P : f[i] \in Int /\ g[i] \in Int /\ h[i] = (a * f[i]) + g[i] /\ h[i] \in Int /\ i \in Nat
      /\ Numbers(P, f) /\ Numbers(P, g) /\ Numbers(P, h)
  BY DEF Numbers
<1>2. /\ b \in PowerCoefficients /\ c \in PowerCoefficients
      /\ \A i \in P : b[i] = Weight(p, n, i, P) * f[i] /\ Weight(p, n, i, P) \in Int
      /\ \A i \in P : c[i] = Weight(p, n, i, P) * g[i]
      /\ \A i \in Nat \ P : b[i] = 0 /\ c[i] = 0
  <2>1. IsWeighted(p, n, P, f, b) /\ IsWeighted(p, n, P, g, c)
    BY <1>1, WeightedType
  <2> QED BY <2>1 DEF IsWeighted
<1>3. /\ d \in PowerCoefficients /\ \A i \in P : d[i] = Weight(p, n, i, P) * h[i]
      /\ \A i \in Nat \ P : d[i] = 0
  <2>1. IsWeighted(p, n, P, h, d)
    BY <1>1, WeightedType
  <2> QED BY <2>1 DEF IsWeighted
<1> HIDE DEF b, c, d
<1>4. e \in PowerCoefficients /\ Total(e, n) = (a * Total(b, n)) + Total(c, n)
  BY <1>2, TotalLinear
<1>5. ASSUME NEW i \in Nat PROVE d[i] = (a * b[i]) + c[i]
  <2>1. CASE i \in P
    <3> DEFINE w == Weight(p, n, i, P)
               x == f[i]
               y == g[i]
    <3>1. w \in Int /\ x \in Int /\ y \in Int /\ b[i] = w * x /\ c[i] = w * y /\ d[i] = w * ((a * x) + y)
      BY <1>1, <1>2, <1>3, <2>1
    <3> HIDE DEF w, x, y
    <3>2. w * ((a * x) + y) = (a * (w * x)) + (w * y)
      BY <3>1
    <3> QED BY <3>1, <3>2
  <2>2. CASE i \notin P
    <3>1. b[i] = 0 /\ c[i] = 0 /\ d[i] = 0
      BY <1>2, <1>3, <2>2
    <3> QED BY <3>1
  <2> QED BY <2>1, <2>2
<1>6. d = e
  BY <1>3, <1>5 DEF PowerCoefficients
<1>7. Total(b, n) \in Int /\ Total(c, n) \in Int
  BY <1>2, TotalStep
<1> QED BY <1>4, <1>6, <1>7 DEF b, c, d

\* Any deg + 1 shares and more determine what is shared.
THEOREM Interpolation ==
    ASSUME NEW p, IsField(p), NEW n \in Nat, n < p, NEW deg \in Nat, NEW secret \in Int,
           NEW values, IsSharing(p, values, [i \in 1 .. n |-> i], deg, secret),
           NEW P \in SUBSET (1 .. n), Cardinality(P) > deg
    PROVE  At0(p, n, values, P) = secret % p
<1> DEFINE points == [i \in 1 .. n |-> i]
<1>0. p \in Nat \ {0}
  BY DEF IsField
<1>1. /\ DOMAIN points = 1 .. n /\ \A i \in 1 .. n : points[i] = i /\ points[i] \in Int
      /\ IsSharing(p, values, points, deg, secret)
  OBVIOUS
<1> HIDE DEF points
<1>2. PICK c \in UpTo(deg) : /\ c[0] = secret
                             /\ \A i \in DOMAIN points : values[i] = Series(c, points[i])[deg] % p
  BY <1>0, <1>1, SharingSeries
<1>3. c \in PowerCoefficients /\ \A i \in Nat : c[i] \in Int
  BY DEF UpTo, PowerCoefficients
<1> DEFINE g(k) == [i \in Nat |-> Series(c, i)[k]]
           Z(k) == Total(Weighted(p, n, P, g(k)), n)
           zero == [i \in Nat |-> 0]
<1>4. ASSUME NEW i \in P
      PROVE  /\ i \in 1 .. n /\ i \in Nat
             /\ g(0)[i] = c[0]
             /\ \A k \in Nat : /\ g(k)[i] \in Int
                               /\ g(k + 1)[i] = (c[k + 1] * Powers(k + 1)[i]) + g(k)[i]
  <2>1. i \in 1 .. n /\ i \in Nat /\ i \in Int
    OBVIOUS
  <2>2. /\ Series(c, i)[0] = c[0]
        /\ \A k \in Nat : /\ Series(c, i)[k] \in Int
                          /\ Series(c, i)[k + 1] = Series(c, i)[k] + (c[k + 1] * Power(i, k + 1))
    BY <1>3, <2>1, SeriesStep
  <2>3. \A k \in Nat : c[k + 1] * Power(i, k + 1) \in Int /\ Powers(k + 1)[i] = Power(i, k + 1)
    <3> SUFFICES ASSUME NEW k \in Nat
                 PROVE  c[k + 1] * Power(i, k + 1) \in Int /\ Powers(k + 1)[i] = Power(i, k + 1)
      OBVIOUS
    <3>1. k + 1 \in Nat /\ c[k + 1] \in Int /\ Power(i, k + 1) \in Int
      <4> DEFINE j == k + 1
      <4>1. j \in Nat
        OBVIOUS
      <4> HIDE DEF j
      <4>2. c[j] \in Int /\ Power(i, j) \in Int
        BY <1>3, <2>1, <4>1, PowerStep
      <4> QED BY <4>1, <4>2 DEF j
    <3> QED BY <2>1, <3>1 DEF Powers
  <2>4. ASSUME NEW k \in Nat
        PROVE  g(k)[i] \in Int /\ g(k + 1)[i] = (c[k + 1] * Powers(k + 1)[i]) + g(k)[i]
    <3> DEFINE x == Series(c, i)[k]
               y == c[k + 1] * Power(i, k + 1)
    <3>1. x \in Int /\ y \in Int /\ Series(c, i)[k + 1] = x + y
      BY <2>2, <2>3
    <3>2. g(k)[i] = x /\ g(k + 1)[i] = Series(c, i)[k + 1] /\ c[k + 1] * Powers(k + 1)[i] = y
      BY <2>1, <2>3
    <3> HIDE DEF x, y, g
    <3> QED BY <3>1, <3>2
  <2>5. g(0)[i] = c[0]
    BY <2>1, <2>2
  <2> HIDE DEF g
  <2> QED BY <2>1, <2>4, <2>5
<1>5. Cardinality(P) \in Nat /\ \A k \in Nat : k <= deg => k <= Cardinality(P) - 1
  <2>1. IsFiniteSet(P)
    BY FirstNumbers, FS_Subset
  <2> QED BY <2>1, FS_CardinalityType
<1>6. /\ Congruent(p, Moment(p, n, P, 0), 1)
      /\ \A k \in 1 .. deg : Congruent(p, Moment(p, n, P, k), 0)
  <2> DEFINE d == Cardinality(P) - 1
  <2>1. d \in Nat /\ Cardinality(P) = d + 1 /\ 1 .. deg \subseteq 1 .. d
    BY <1>5
  <2> HIDE DEF d
  <2>2. /\ Congruent(p, Moment(p, n, P, 0), 1)
        /\ \A k \in 1 .. d : Congruent(p, Moment(p, n, P, k), 0)
    BY <2>1, Moments
  <2> QED BY <2>1, <2>2
<1>7. Congruent(p, Z(0), secret) /\ Z(0) \in Int
  <2>1. \A i \in P : Powers(0)[i] = 1 /\ Powers(0)[i] \in Int
    <3>1. 0 \in Nat
      OBVIOUS
    <3> QED BY <1>4, <3>1, PowersType
  <2> DEFINE f == Powers(0)
             h == g(0)
             M == Total(Weighted(p, n, P, f), n)
             K == Total(Weighted(p, n, P, zero), n)
  <2>2. Numbers(P, f) /\ Numbers(P, zero) /\ \A i \in P : h[i] = (secret * f[i]) + zero[i]
    <3>1. \A i \in P : zero[i] = 0
      BY <1>4
    <3>2. ASSUME NEW i \in P PROVE h[i] = (secret * f[i]) + zero[i]
      <4>1. h[i] = secret /\ f[i] = 1 /\ zero[i] = 0
        BY <1>2, <1>4, <2>1, <3>1
      <4> HIDE DEF f, h, zero
      <4> QED BY <4>1
    <3>3. \A i \in P : f[i] \in Int /\ zero[i] \in Int
      <4> HIDE DEF zero
      <4> QED BY <2>1, <3>1
    <3> HIDE DEF f, h, zero
    <3> QED BY <3>2, <3>3 DEF Numbers
  <2> HIDE DEF f, h
  <2>3. M \in Int /\ K \in Int /\ Total(Weighted(p, n, P, h), n) = (secret * M) + K
    <3> HIDE DEF zero
    <3> QED BY <2>2, TotalWeighted
  <2>4. K = 0
    <3> DEFINE z == Weighted(p, n, P, zero)
    <3>1. /\ z \in PowerCoefficients
          /\ \A i \in P : z[i] = Weight(p, n, i, P) * zero[i] /\ Weight(p, n, i, P) \in Int
          /\ \A i \in Nat \ P : z[i] = 0
      <4>1. Numbers(P, zero)
        BY <2>2
      <4> HIDE DEF zero
      <4>2. IsWeighted(p, n, P, zero, z)
        BY <4>1, WeightedType
      <4> QED BY <4>2 DEF IsWeighted
    <3>2. \A i \in P : z[i] = 0
      <4> HIDE DEF z
      <4> QED BY <1>4, <3>1
    <3> HIDE DEF z
    <3>3. z \in UpTo(0) /\ 1 \in Int /\ z[0] = 0
      BY <3>1, <3>2 DEF UpTo
    <3>4. Series(z, 1)[n] = z[0]
      BY <3>3, SeriesConstant
    <3> QED BY <3>3, <3>4 DEF Total, z
  <2>5. Congruent(p, M, 1)
    BY <1>6 DEF Moment, f
  <2> HIDE DEF M, K
  <2>6. Congruent(p, secret * M, secret * 1) /\ secret * 1 = secret /\ secret * M \in Int
    <3>1. Congruent(p, secret, secret) /\ 1 \in Int
      BY DEF Congruent
    <3> QED BY <1>0, <2>3, <2>5, <3>1, CongruentOperations
  <2>7. Z(0) = secret * M
    BY <2>3, <2>4, <2>6 DEF h
  <2> QED BY <2>6, <2>7
<1>8. ASSUME NEW k \in Nat PROVE Z(k) \in Int /\ Z(k + 1) = (c[k + 1] * Moment(p, n, P, k + 1)) + Z(k)
                                 /\ Moment(p, n, P, k + 1) \in Int
  <2> DEFINE f == Powers(k + 1)
             h == g(k + 1)
             e == g(k)
             a == c[k + 1]
  <2>1. a \in Int /\ Numbers(P, f) /\ Numbers(P, e) /\ \A i \in P : h[i] = (a * f[i]) + e[i]
    <3>1. k + 1 \in Nat
      OBVIOUS
    <3>2. a \in Int
      BY <1>3, <3>1
    <3>3. \A i \in P : f[i] \in Int
      BY <1>4, <3>1, PowersType
    <3>4. \A i \in P : e[i] \in Int /\ h[i] = (a * f[i]) + e[i]
      BY <1>4
    <3> QED BY <3>2, <3>3, <3>4 DEF Numbers
  <2> HIDE DEF f, h, e, a
  <2>2. /\ Total(Weighted(p, n, P, f), n) \in Int /\ Total(Weighted(p, n, P, e), n) \in Int
        /\ Total(Weighted(p, n, P, h), n)
              = (a * Total(Weighted(p, n, P, f), n)) + Total(Weighted(p, n, P, e), n)
    BY <2>1, TotalWeighted
  <2> QED BY <2>2 DEF f, h, e, a, Moment
<1> HIDE DEF Z
<1> DEFINE H == {k \in Nat : k <= deg => Congruent(p, Z(k), secret)}
<1>9. 0 \in H
  BY <1>7
<1>10. ASSUME NEW k \in H PROVE k + 1 \in H
  <2> SUFFICES ASSUME k + 1 <= deg PROVE Congruent(p, Z(k + 1), secret)
    BY <1>10
  <2> DEFINE a == c[k + 1]
             M == Moment(p, n, P, k + 1)
             y == Z(k)
  <2>1. /\ a \in Int /\ M \in Int /\ y \in Int /\ Z(k + 1) = (a * M) + y
        /\ Congruent(p, M, 0) /\ Congruent(p, y, secret)
    <3>1. k \in Nat /\ k + 1 \in Nat /\ k + 1 \in 1 .. deg /\ k <= deg
      BY <1>10
    <3> QED BY <1>3, <1>6, <1>8, <1>10, <3>1
  <2> HIDE DEF a, M, y
  <2>2. Congruent(p, a * M, a * 0) /\ a * 0 = 0 /\ a * M \in Int
    <3>1. Congruent(p, a, a) /\ 0 \in Int
      BY DEF Congruent
    <3> QED BY <1>0, <2>1, <3>1, CongruentOperations
  <2>3. Congruent(p, (a * M) + y, 0 + secret) /\ 0 + secret = secret
    BY <1>0, <2>1, <2>2, CongruentOperations
  <2> QED BY <2>1, <2>3
<1>11. \A k \in Nat : k \in H
  <2> HIDE DEF H
  <2>1. H \in SUBSET Nat
    BY DEF H
  <2> QED BY <1>9, <1>10, <2>1, Inductive
<1>12. Congruent(p, Z(deg), secret) /\ Z(deg) \in Int
  BY <1>8, <1>11
<1> DEFINE f == g(deg)
           b == Weighted(p, n, P, values)
           d == Weighted(p, n, P, f)
<1>13. \A i \in P : f[i] \in Int /\ values[i] = f[i] % p /\ values[i] \in Int /\ Congruent(p, values[i], f[i])
  <2> SUFFICES ASSUME NEW i \in P
               PROVE  f[i] \in Int /\ values[i] = f[i] % p /\ values[i] \in Int /\ Congruent(p, values[i], f[i])
    OBVIOUS
  <2>1. i \in 1 .. n /\ i \in Nat /\ f[i] \in Int
    BY <1>4
  <2>2. values[i] = f[i] % p
    <3>1. values[i] = Series(c, points[i])[deg] % p /\ points[i] = i
      BY <1>1, <1>2, <2>1
    <3> QED BY <2>1, <3>1
  <2> HIDE DEF f
  <2> QED BY <1>0, <2>1, <2>2, RemainderTwice
<1> HIDE DEF f
<1>14. /\ b \in PowerCoefficients /\ d \in PowerCoefficients
       /\ \A i \in P : /\ b[i] = Weight(p, n, i, P) * values[i] /\ Weight(p, n, i, P) \in Int
                       /\ d[i] = Weight(p, n, i, P) * f[i]
       /\ \A i \in Nat \ P : b[i] = 0 /\ d[i] = 0
  <2>1. Numbers(P, f) /\ Numbers(P, values)
    BY <1>13 DEF Numbers
  <2>2. IsWeighted(p, n, P, values, b) /\ IsWeighted(p, n, P, f, d)
    BY <2>1, WeightedType
  <2> QED BY <2>2 DEF IsWeighted
<1> HIDE DEF b, d
<1>15. ASSUME NEW i \in Nat PROVE Congruent(p, b[i], d[i])
  <2>1. CASE i \in P
    <3> DEFINE w == Weight(p, n, i, P)
               x == values[i]
               y == f[i]
    <3>1. w \in Int /\ x \in Int /\ y \in Int /\ b[i] = w * x /\ d[i] = w * y /\ Congruent(p, x, y)
      BY <1>13, <1>14, <2>1
    <3>2. Congruent(p, w, w)
      BY DEF Congruent
    <3> HIDE DEF w, x, y
    <3> QED BY <1>0, <3>1, <3>2, CongruentOperations
  <2>2. CASE i \notin P
    BY <1>14, <2>2 DEF Congruent
  <2> QED BY <2>1, <2>2
<1>16. Congruent(p, Total(b, n), Total(d, n))
  BY <1>0, <1>14, <1>15, TotalReduced
<1>17. At0(p, n, values, P) = Total(b, n) % p
  BY <1>13, At0IsTotal DEF b, Numbers
<1>18. Total(d, n) = Z(deg)
  BY DEF Z, d, f
<1> QED BY <1>12, <1>16, <1>17, <1>18 DEF Congruent
=============================================================================
