-------------------------- MODULE CorruptionProofs --------------------------
(***************************************************************************)
(* The recursion over the classes of equivalent parties verifies every     *)
(* corrupted set it is asked for exactly once, up to equivalent parties,   *)
(* for any number of parties, any classes and any quota an "unsigned" can  *)
(* hold.                                                                   *)
(*                                                                         *)
(* What the results are when the recursion ends says nothing about it half *)
(* way.  The invariant speaks of the pending calls too: each of them leads *)
(* to other sets than every other call and result (ApartInv), and together *)
(* they lead to all (CoverInv).                                            *)
(***************************************************************************)
EXTENDS CorruptionSearch, CountingProofs, SequenceTheorems

-----------------------------------------------------------------------------
(* The inductive invariant.                                                *)

\* The parties of the classes before the k-th.
Below(k) == UNION {classes[m] : m \in 1 .. k - 1}

\* How many of the m-th class are in A.
Size(A, m) == Cardinality(A \cap classes[m])

\* A and B have as many parties of every class before the k-th.
Same(A, B, k) == \A m \in 1 .. k - 1 : Size(A, m) = Size(B, m)

\* A class that both calls have dealt with tells them apart.
Apart(A, k, B, l) == \E m \in 1 .. Len(classes) : m < k /\ m < l /\ Size(A, m) # Size(B, m)

\* The caller of prove() or prove(I) has asked for C.
Asked(C) == C # {} /\ IF strict THEN Cardinality(C) = quota ELSE Cardinality(C) <= quota

Choice == [corrupted : SUBSET Parties, left : Nat]

SearchTyped ==
    /\ classes \in Divisions /\ quota \in 0 .. MaxQuota /\ strict \in BOOLEAN
    /\ calls \in Seq([class : 1 .. Len(classes) + 1, choice : Choice])
    /\ possible \in Seq(SUBSET Parties)

\* What is left of the quota is what the parties taken so far have not spent: this
\* is why "corrupted_quota - i" never wraps.
Spent(call) ==
    /\ call.choice.corrupted \subseteq Below(call.class)
    /\ Cardinality(call.choice.corrupted) + call.choice.left = quota

QuotaInv == /\ \A i \in DOMAIN calls : Spent(calls[i])
            /\ \A i \in DOMAIN possible : Asked(possible[i])

\* No two pending calls or results come to the same numbers of parties of every class.
ApartInv ==
    /\ \A i, j \in DOMAIN calls :
          i # j => Apart(calls[i].choice.corrupted, calls[i].class,
                         calls[j].choice.corrupted, calls[j].class)
    /\ \A i \in DOMAIN calls : \A j \in DOMAIN possible :
          Apart(calls[i].choice.corrupted, calls[i].class, possible[j], Len(classes) + 1)
    /\ \A i, j \in DOMAIN possible :
          i # j => Apart(possible[i], Len(classes) + 1, possible[j], Len(classes) + 1)

\* What is asked for is found already, or on the way of a pending call.
CoverInv ==
    \A C \in SUBSET Parties :
        Asked(C) => \/ \E i \in DOMAIN possible : Same(possible[i], C, Len(classes) + 1)
                    \/ \E i \in DOMAIN calls :
                          Same(calls[i].choice.corrupted, C, calls[i].class)

Inv == SearchTyped /\ QuotaInv /\ ApartInv /\ CoverInv

-----------------------------------------------------------------------------
(* The loop over a class.                                                  *)

\* It goes up to what is left of the quota or to the size of the class, whichever is
\* smaller (prover.hpp:54).
LEMMA CountsFit ==
    ASSUME NEW S, IsFiniteSet(S), NEW left \in Nat
    PROVE  \E n \in 0 .. Cardinality(S) :
              /\ n <= left /\ (n = left \/ n = Cardinality(S))
              /\ Counts(S, left) = 0 .. n /\ Cardinality(Counts(S, left)) = n + 1
<1> DEFINE c == Cardinality(S)
           n == IF left < c THEN left ELSE c
<1>1. c \in Nat
  BY FS_CardinalityType
<1> HIDE DEF c
<1>2. n \in 0 .. c /\ n <= left /\ (n = left \/ n = c)
  BY <1>1
<1>3. Counts(S, left) = {i \in 0 .. c : \A j \in 1 .. i : j - 1 # left}
  BY DEF Counts, c
<1>4. ASSUME NEW i \in 0 .. c
      PROVE  (\A j \in 1 .. i : j - 1 # left) <=> i <= n
  <2>1. ASSUME i <= n PROVE \A j \in 1 .. i : j - 1 # left
    BY <1>1, <1>2, <2>1
  <2>2. ASSUME ~(i <= n) PROVE \E j \in 1 .. i : j - 1 = left
    <3>1. n = left /\ left + 1 \in 1 .. i /\ (left + 1) - 1 = left
      BY <1>1, <1>2, <2>2
    <3> QED BY <3>1
  <2> QED BY <2>1, <2>2
<1> HIDE DEF n
<1>5. Counts(S, left) = 0 .. n
  BY <1>1, <1>2, <1>3, <1>4
<1>6. Cardinality(0 .. n) = n + 1
  BY <1>1, <1>2, FS_Interval
<1> QED BY <1>2, <1>5, <1>6 DEF c

\* The classes divide the parties.
LEMMA DivisionFacts ==
    ASSUME classes \in Divisions
    PROVE  /\ Len(classes) \in Nat /\ DOMAIN classes = 1 .. Len(classes)
           /\ \A m \in 1 .. Len(classes) :
                 classes[m] \in SUBSET Nat /\ classes[m] \subseteq Parties /\ IsFiniteSet(classes[m])
           /\ \A l, m \in 1 .. Len(classes) : l # m => classes[l] \cap classes[m] = {}
           /\ UNION {classes[m] : m \in 1 .. Len(classes)} = Parties
           /\ IsFiniteSet(Parties)
<1>1. PICK k \in 1 .. Cardinality(Parties) :
         /\ classes \in [1 .. k -> (SUBSET Parties) \ {{}}]
         /\ UNION {classes[m] : m \in 1 .. k} = Parties
         /\ \A l, m \in 1 .. k : l # m => classes[l] \cap classes[m] = {}
  BY DEF Divisions
<1>2. k \in Nat /\ IsFiniteSet(Parties) /\ Parties \in SUBSET Nat
  BY CorruptionAssumption, FS_CardinalityType
<1>3. Len(classes) = k /\ DOMAIN classes = 1 .. k
  BY <1>1, <1>2
<1>4. \A m \in 1 .. k : classes[m] \in SUBSET Parties
  BY <1>1
<1>5. \A m \in 1 .. k : IsFiniteSet(classes[m])
  BY <1>2, <1>4, FS_Subset
<1> QED BY <1>1, <1>2, <1>3, <1>4, <1>5

\* The classes before the next one.
LEMMA BelowFacts ==
    ASSUME classes \in Divisions
    PROVE  /\ Below(1) = {} /\ Below(Len(classes) + 1) = Parties
           /\ \A k \in 1 .. Len(classes) + 1 : Below(k) \subseteq Parties
           /\ \A k \in 1 .. Len(classes) :
                 Below(k + 1) = Below(k) \cup classes[k] /\ Below(k) \cap classes[k] = {}
<1>1. /\ Len(classes) \in Nat
      /\ \A m \in 1 .. Len(classes) : classes[m] \subseteq Parties
      /\ \A l, m \in 1 .. Len(classes) : l # m => classes[l] \cap classes[m] = {}
      /\ UNION {classes[m] : m \in 1 .. Len(classes)} = Parties
  BY DivisionFacts
<1>2. \A k, p : p \in Below(k) <=> \E m \in 1 .. k - 1 : p \in classes[m]
  BY DEF Below
<1>3. Below(1) = {}
  <2>1. 1 .. 1 - 1 = {}
    OBVIOUS
  <2> QED BY <1>2, <2>1
<1>4. Below(Len(classes) + 1) = Parties
  <2>1. (Len(classes) + 1) - 1 = Len(classes)
    BY <1>1
  <2> QED BY <1>1, <2>1 DEF Below
<1>5. ASSUME NEW k \in 1 .. Len(classes) + 1 PROVE Below(k) \subseteq Parties
  <2>1. \A m \in 1 .. k - 1 : m \in 1 .. Len(classes)
    BY <1>1
  <2> QED BY <1>1, <1>2, <2>1
<1>6. ASSUME NEW k \in 1 .. Len(classes)
      PROVE  Below(k + 1) = Below(k) \cup classes[k] /\ Below(k) \cap classes[k] = {}
  <2>1. \A m : m \in 1 .. (k + 1) - 1 <=> m \in 1 .. k - 1 \/ m = k
    BY <1>1
  <2>2. \A p : p \in Below(k + 1) <=> p \in Below(k) \/ p \in classes[k]
    BY <1>2, <2>1
  <2>3. \A m \in 1 .. k - 1 : m \in 1 .. Len(classes) /\ m # k
    BY <1>1
  <2>4. Below(k) \cap classes[k] = {}
    BY <1>1, <1>2, <2>3
  <2> QED BY <2>2, <2>4
<1> QED BY <1>3, <1>4, <1>5, <1>6

\* Disjoint sets add up.
LEMMA DisjointCard ==
    ASSUME NEW A, NEW B, IsFiniteSet(A), IsFiniteSet(B), A \cap B = {}
    PROVE  IsFiniteSet(A \cup B) /\ Cardinality(A \cup B) = Cardinality(A) + Cardinality(B)
<1>1. Cardinality(A) \in Nat /\ Cardinality(B) \in Nat /\ Cardinality({}) = 0
  BY FS_CardinalityType, FS_EmptySet
<1>2. /\ IsFiniteSet(A \cup B)
      /\ Cardinality(A \cup B) = Cardinality(A) + Cardinality(B) - Cardinality(A \cap B)
  BY FS_Union
<1>3. Cardinality(A \cap B) = 0
  BY <1>1
<1> QED BY <1>1, <1>2, <1>3

\* Sets with as many parties of every class have as many of all these classes.
LEMMA SameMeansAsMany ==
    ASSUME classes \in Divisions, NEW A \in SUBSET Parties, NEW B \in SUBSET Parties
    PROVE  \A k \in 1 .. Len(classes) + 1 :
              Same(A, B, k) => Cardinality(A \cap Below(k)) = Cardinality(B \cap Below(k))
<1> DEFINE Bad == {k \in 1 .. Len(classes) + 1 :
                      Same(A, B, k) /\ Cardinality(A \cap Below(k)) # Cardinality(B \cap Below(k))}
<1> SUFFICES ASSUME Bad # {} PROVE FALSE
  OBVIOUS
<1>1. Len(classes) \in Nat /\ IsFiniteSet(Parties)
  BY DivisionFacts
<1>2. PICK k \in Bad : \A j \in Bad : k <= j
  <2> HIDE DEF Bad
  <2>1. Bad \in SUBSET Nat
    BY <1>1 DEF Bad
  <2> QED BY <2>1, Least
<1>3. k \in 1 .. Len(classes) + 1 /\ Same(A, B, k)
  BY <1>2
<1>4. k # 1
  <2>1. A \cap Below(1) = B \cap Below(1)
    BY BelowFacts
  <2> QED BY <1>2, <2>1
<1> DEFINE m == k - 1
<1>5. m \in 1 .. Len(classes) /\ m \in 1 .. Len(classes) + 1 /\ m + 1 = k /\ ~(k <= m)
  BY <1>1, <1>3, <1>4
<1> HIDE DEF m
<1>6. Same(A, B, m) /\ Size(A, m) = Size(B, m)
  <2>1. m \in 1 .. k - 1 /\ \A l \in 1 .. m - 1 : l \in 1 .. k - 1
    BY <1>1, <1>3, <1>5
  <2> QED BY <1>3, <2>1 DEF Same
<1>7. Cardinality(A \cap Below(m)) = Cardinality(B \cap Below(m))
  <2>1. m \notin Bad
    <3> HIDE DEF Bad
    <3> QED BY <1>2, <1>5
  <2> QED BY <1>5, <1>6, <2>1
<1>8. \A C \in SUBSET Parties :
         Cardinality(C \cap Below(k)) = Cardinality(C \cap Below(m)) + Size(C, m)
  <2> SUFFICES ASSUME NEW C \in SUBSET Parties
               PROVE  Cardinality(C \cap Below(k)) = Cardinality(C \cap Below(m)) + Size(C, m)
    OBVIOUS
  <2>1. Below(k) = Below(m) \cup classes[m] /\ Below(m) \cap classes[m] = {}
    BY <1>5, BelowFacts
  <2> DEFINE X == C \cap Below(m)
             Y == C \cap classes[m]
  <2>2. C \cap Below(k) = X \cup Y /\ X \cap Y = {} /\ X \in SUBSET Parties /\ Y \in SUBSET Parties
    BY <2>1
  <2>3. IsFiniteSet(X) /\ IsFiniteSet(Y)
    <3> HIDE DEF X, Y
    <3> QED BY <1>1, <2>2, FS_Subset
  <2> HIDE DEF X
  <2>4. Cardinality(X \cup Y) = Cardinality(X) + Cardinality(Y)
    <3> HIDE DEF Y
    <3> QED BY <2>2, <2>3, DisjointCard
  <2> QED BY <2>2, <2>4 DEF X, Size
<1>9. Cardinality(A \cap Below(k)) = Cardinality(B \cap Below(k))
  BY <1>6, <1>7, <1>8
<1> QED BY <1>2, <1>9

\* Taking n more parties of the next class, as long as the quota allows it: the quota
\* is spent by n without wrapping, and nothing changes for the classes before.
LEMMA ExtendedFacts ==
    ASSUME classes \in Divisions, quota \in 0 .. MaxQuota,
           NEW k \in 1 .. Len(classes), NEW choice \in Choice,
           Spent([class |-> k, choice |-> choice]),
           NEW n \in 0 .. Cardinality(classes[k]), n <= choice.left
    PROVE  LET next == Extended(choice, classes[k], n)
           IN /\ next \in Choice /\ Spent([class |-> k + 1, choice |-> next])
              /\ \A m \in 1 .. k - 1 : Size(next.corrupted, m) = Size(choice.corrupted, m)
              /\ Size(next.corrupted, k) = n
<1> DEFINE A == choice.corrupted
           F == First(classes[k], n)
           next == Extended(choice, classes[k], n)
<1>1. /\ Len(classes) \in Nat /\ classes[k] \in SUBSET Nat /\ classes[k] \subseteq Parties
      /\ IsFiniteSet(classes[k]) /\ IsFiniteSet(Parties)
      /\ \A l, m \in 1 .. Len(classes) : l # m => classes[l] \cap classes[m] = {}
  BY DivisionFacts
<1>2. /\ Below(k) \subseteq Parties /\ Below(k + 1) = Below(k) \cup classes[k]
      /\ Below(k) \cap classes[k] = {}
  BY <1>1, BelowFacts
<1>3. F \subseteq classes[k] /\ Cardinality(F) = n
  BY <1>1, FirstSize
<1>4. /\ A \subseteq Below(k) /\ Cardinality(A) + choice.left = quota
      /\ A \in SUBSET Parties /\ choice.left \in Nat
  BY DEF Spent, Choice
<1>5. next.corrupted = A \cup F /\ next.left = Unsigned(choice.left - n)
  BY DEF Extended
<1> HIDE DEF A, F, next
<1>6. IsFiniteSet(A) /\ IsFiniteSet(F) /\ Cardinality(A) \in Nat
  <2>1. F \in SUBSET Parties
    BY <1>1, <1>3
  <2> QED BY <1>1, <1>4, <2>1, FS_Subset, FS_CardinalityType
<1>7. Cardinality(A \cup F) = Cardinality(A) + n
  BY <1>2, <1>3, <1>4, <1>6, DisjointCard
<1>8. next.left = choice.left - n /\ next.left \in Nat
  <2>1. choice.left - n \in 0 .. UnsignedMax /\ UnsignedMax \in Nat
    <3>0. UnsignedMax \in Nat
      BY DEF UnsignedMax
    <3>1. MaxQuota \in 0 .. UnsignedMax /\ UnsignedMax \in Nat
      BY CorruptionAssumption, <3>0
    <3>2. quota \in Nat /\ quota <= UnsignedMax
      BY <3>1
    <3>3. choice.left <= quota
      BY <1>4, <1>6, <3>2
    <3>4. n \in Nat /\ n <= choice.left
      BY <1>1, FS_CardinalityType
    <3> QED BY <1>4, <3>1, <3>2, <3>3, <3>4
  <2> QED BY <1>5, <2>1, SMTT(30) DEF Unsigned
<1>9. next \in Choice
  <2>1. A \cup F \in SUBSET Parties
    BY <1>1, <1>3, <1>4
  <2>2. next = [corrupted |-> A \cup F, left |-> Unsigned(choice.left - n)]
    BY DEF next, Extended, A, F
  <2> QED BY <1>5, <1>8, <2>1, <2>2 DEF Choice
<1>10. Spent([class |-> k + 1, choice |-> next])
  <2>1. A \cup F \subseteq Below(k + 1)
    BY <1>2, <1>3, <1>4
  <2>2. Cardinality(A \cup F) + (choice.left - n) = quota
    BY <1>1, <1>4, <1>6, <1>7, FS_CardinalityType
  <2> QED BY <1>5, <1>8, <2>1, <2>2 DEF Spent
<1>11. ASSUME NEW m \in 1 .. k - 1 PROVE Size(next.corrupted, m) = Size(A, m)
  <2>1. m \in 1 .. Len(classes) /\ m # k
    BY <1>1
  <2>2. (A \cup F) \cap classes[m] = A \cap classes[m]
    BY <1>1, <1>3, <2>1
  <2> QED BY <1>5, <2>2 DEF Size
<1>12. Size(next.corrupted, k) = n
  <2>1. (A \cup F) \cap classes[k] = F
    BY <1>2, <1>3, <1>4
  <2> QED BY <1>3, <1>5, <2>1 DEF Size
<1> QED BY <1>9, <1>10, <1>11, <1>12 DEF next, A

-----------------------------------------------------------------------------
(* Every step keeps the invariant.                                         *)

\* The calls of search_all_possibilities.
Calls == [class : 1 .. Len(classes) + 1, choice : Choice]

\* The call that takes i parties of a class, made by the call for that class.
Kid(c, i) == [class |-> c.class + 1, choice |-> Extended(c.choice, classes[c.class], i)]

\* The call that prove() makes.
LEMMA InitInv == Init => Inv
<1> SUFFICES ASSUME Init PROVE Inv
  OBVIOUS
<1>1. /\ classes \in Divisions /\ quota \in 0 .. MaxQuota /\ strict \in BOOLEAN
      /\ calls = <<[class |-> 1, choice |-> NoChoice(quota)]>> /\ possible = <<>>
  BY DEF Init
<1>2. Len(classes) \in Nat /\ quota \in Nat /\ Cardinality({}) = 0
  BY <1>1, DivisionFacts, FS_EmptySet
<1> DEFINE c == [class |-> 1, choice |-> NoChoice(quota)]
<1>3. c \in Calls /\ Spent(c)
  <2>1. c.class = 1 /\ c.choice.corrupted = {} /\ c.choice.left = quota
    BY DEF NoChoice
  <2>2. c \in Calls
    BY <1>2 DEF Calls, Choice, NoChoice
  <2> HIDE DEF c
  <2> QED BY <1>2, <2>1, <2>2 DEF Spent
<1>4. c.class = 1
  OBVIOUS
<1> HIDE DEF c
<1>5. calls \in Seq(Calls) /\ DOMAIN calls = {1} /\ calls[1] = c /\ DOMAIN possible = {}
  BY <1>1, <1>3 DEF c
<1>6. SearchTyped
  BY <1>1, <1>5 DEF SearchTyped, Calls
<1>7. QuotaInv /\ ApartInv
  BY <1>3, <1>5 DEF QuotaInv, ApartInv
<1>8. CoverInv
  <2>1. \A C : Same(calls[1].choice.corrupted, C, calls[1].class)
    BY <1>4, <1>5 DEF Same
  <2> QED BY <1>5, <2>1 DEF CoverInv
<1> QED BY <1>6, <1>7, <1>8 DEF Inv

\* The call that is next.
LEMMA FirstCall ==
    ASSUME Inv, calls # <<>>
    PROVE  /\ calls \in Seq(Calls) /\ Len(calls) \in Nat \ {0} /\ DOMAIN calls = 1 .. Len(calls)
           /\ Call = calls[1] /\ Call \in Calls /\ Call.choice \in Choice /\ Spent(Call)
           /\ Tail(calls) \in Seq(Calls) /\ Len(Tail(calls)) = Len(calls) - 1
           /\ \A i \in 1 .. Len(calls) - 1 : Tail(calls)[i] = calls[i + 1]
<1>1. calls \in Seq(Calls)
  BY DEF Inv, SearchTyped, Calls
<1>2. /\ Len(calls) \in Nat \ {0} /\ DOMAIN calls = 1 .. Len(calls) /\ Call = calls[1]
      /\ Call \in Calls /\ Tail(calls) \in Seq(Calls) /\ Len(Tail(calls)) = Len(calls) - 1
      /\ \A i \in 1 .. Len(calls) - 1 : Tail(calls)[i] = calls[i + 1]
  BY <1>1, HeadTailProperties DEF Call
<1>3. Spent(Call)
  BY <1>2 DEF Inv, QuotaInv
<1> QED BY <1>1, <1>2, <1>3 DEF Calls

\* What a call for a class does to the stack: it is replaced by one call for each
\* number of parties it may take, and the others stay behind them.
LEMMA Descent ==
    ASSUME Inv, Descend
    PROVE  /\ Call.class \in 1 .. Len(classes)
           /\ UNCHANGED <<classes, quota, strict, possible>>
           /\ \E n \in 0 .. Cardinality(classes[Call.class]) :
                 /\ n <= Call.choice.left
                 /\ n = Call.choice.left \/ n = Cardinality(classes[Call.class])
                 /\ \A i \in 0 .. n : Kid(Call, i) \in Calls
                 /\ calls' \in Seq(Calls) /\ Len(calls') = Len(calls) + n
                 /\ \A i \in 0 .. n : calls'[i + 1] = Kid(Call, i)
                 /\ \A j \in 2 .. Len(calls) : calls'[j + n] = calls[j]
<1> DEFINE c == Call
           S == classes[c.class]
           made == [i \in 1 .. Cardinality(Counts(S, c.choice.left)) |->
                       [class |-> c.class + 1, choice |-> Extended(c.choice, S, i - 1)]]
<1>1. /\ calls # <<>> /\ c.class <= Len(classes) /\ calls' = made \o Tail(calls)
      /\ UNCHANGED <<classes, quota, strict, possible>>
  BY DEF Descend
<1>2. classes \in Divisions /\ quota \in 0 .. MaxQuota
  BY DEF Inv, SearchTyped
<1>3. c.class \in 1 .. Len(classes) /\ c = [class |-> c.class, choice |-> c.choice] /\ Len(classes) \in Nat
  BY <1>1, <1>2, FirstCall, DivisionFacts DEF Calls
<1>4. IsFiniteSet(S) /\ c.choice.left \in Nat /\ c.choice \in Choice /\ Spent(c)
  BY <1>1, <1>2, <1>3, FirstCall, DivisionFacts DEF Choice
<1>5. Spent([class |-> c.class, choice |-> c.choice])
  BY <1>3, <1>4
<1> HIDE DEF c
<1>6. PICK n \in 0 .. Cardinality(S) :
         /\ n <= c.choice.left /\ (n = c.choice.left \/ n = Cardinality(S))
         /\ Cardinality(Counts(S, c.choice.left)) = n + 1
  BY <1>4, CountsFit
<1>7. n \in Nat /\ \A i \in 0 .. n : i \in 0 .. Cardinality(S) /\ i <= c.choice.left
  BY <1>4, <1>6, FS_CardinalityType
<1>8. ASSUME NEW i \in 0 .. n PROVE Kid(c, i) \in Calls
  <2>1. Extended(c.choice, S, i) \in Choice
    BY <1>2, <1>3, <1>4, <1>5, <1>7, ExtendedFacts
  <2>2. c.class + 1 \in 1 .. Len(classes) + 1
    BY <1>3
  <2> QED BY <2>1, <2>2 DEF Calls, Kid
<1>9. made = [i \in 1 .. n + 1 |-> Kid(c, i - 1)]
  BY <1>6 DEF Kid
<1> HIDE DEF made
<1>10. made \in Seq(Calls) /\ Len(made) = n + 1 /\ \A i \in 1 .. n + 1 : made[i] = Kid(c, i - 1)
  <2>1. \A i \in 1 .. n + 1 : i - 1 \in 0 .. n
    BY <1>7
  <2> QED BY <1>7, <1>8, <1>9, <2>1
<1> DEFINE t == Tail(calls)
<1>11. /\ t \in Seq(Calls) /\ Len(calls) \in Nat \ {0} /\ Len(t) = Len(calls) - 1
       /\ \A j \in 1 .. Len(calls) - 1 : t[j] = calls[j + 1]
  BY <1>1, FirstCall
<1> HIDE DEF t
<1>12. /\ calls' \in Seq(Calls) /\ Len(calls') = Len(made) + Len(t)
       /\ \A i \in 1 .. Len(made) + Len(t) : calls'[i] = IF i <= Len(made) THEN made[i] ELSE t[i - Len(made)]
  <2>1. calls' = made \o t
    BY <1>1 DEF t
  <2>2. /\ made \o t \in Seq(Calls) /\ Len(made \o t) = Len(made) + Len(t)
        /\ \A i \in 1 .. Len(made) + Len(t) :
              (made \o t)[i] = IF i <= Len(made) THEN made[i] ELSE t[i - Len(made)]
    BY <1>10, <1>11, ConcatProperties
  <2> QED BY <2>1, <2>2
<1>13. ASSUME NEW i \in 0 .. n PROVE calls'[i + 1] = Kid(c, i)
  <2>1. i + 1 \in 1 .. Len(made) + Len(t) /\ i + 1 <= Len(made) /\ i + 1 \in 1 .. n + 1 /\ (i + 1) - 1 = i
    BY <1>7, <1>10, <1>11
  <2>2. calls'[i + 1] = made[i + 1]
    BY <1>12, <2>1
  <2> QED BY <1>10, <2>1, <2>2
<1>14. ASSUME NEW j \in 2 .. Len(calls) PROVE calls'[j + n] = calls[j]
  <2>1. /\ j + n \in 1 .. Len(made) + Len(t) /\ ~(j + n <= Len(made))
        /\ (j + n) - Len(made) = j - 1 /\ j - 1 \in 1 .. Len(calls) - 1 /\ (j - 1) + 1 = j
    BY <1>7, <1>10, <1>11
  <2>2. calls'[j + n] = t[j - 1]
    BY <1>12, <2>1
  <2> QED BY <1>11, <2>1, <2>2
<1>15. Len(calls') = Len(calls) + n
  BY <1>7, <1>10, <1>11, <1>12
<1> QED BY <1>1, <1>3, <1>6, <1>8, <1>12, <1>13, <1>14, <1>15 DEF c

\* Which of two calls comes first makes no difference.
LEMMA ApartSymmetric == \A A, k, B, l : Apart(A, k, B, l) <=> Apart(B, l, A, k)
BY DEF Apart

\* The calls made for a class differ in that class, and one of them leads to every set
\* that was on the way of the call that makes them.
LEMMA DescendInv == ASSUME Inv, Descend PROVE Inv'
<1> DEFINE c == Call
           S == classes[c.class]
           A(i) == Extended(c.choice, S, i).corrupted
<1>1. /\ calls \in Seq(Calls) /\ Len(calls) \in Nat \ {0} /\ DOMAIN calls = 1 .. Len(calls)
      /\ c = calls[1] /\ c \in Calls /\ c.choice \in Choice /\ Spent(c)
  BY FirstCall DEF Descend
<1>2. c.class \in 1 .. Len(classes) /\ UNCHANGED <<classes, quota, strict, possible>>
  BY Descent
<1>3. PICK n \in 0 .. Cardinality(S) :
         /\ n <= c.choice.left /\ (n = c.choice.left \/ n = Cardinality(S))
         /\ \A i \in 0 .. n : Kid(c, i) \in Calls
         /\ calls' \in Seq(Calls) /\ Len(calls') = Len(calls) + n
         /\ \A i \in 0 .. n : calls'[i + 1] = Kid(c, i)
         /\ \A j \in 2 .. Len(calls) : calls'[j + n] = calls[j]
  BY Descent
<1>4. /\ classes \in Divisions /\ quota \in 0 .. MaxQuota
      /\ IsFiniteSet(S) /\ Len(classes) \in Nat /\ IsFiniteSet(Parties)
  BY <1>2, DivisionFacts DEF Inv, SearchTyped
<1>5. n \in Nat /\ Cardinality(S) \in Nat
  BY <1>3, <1>4, FS_CardinalityType
<1> HIDE DEF c
<1>6. ASSUME NEW i \in 0 .. n
      PROVE  /\ Kid(c, i).class = c.class + 1 /\ Kid(c, i).choice.corrupted = A(i) /\ Spent(Kid(c, i))
             /\ \A m \in 1 .. c.class - 1 : Size(A(i), m) = Size(c.choice.corrupted, m)
             /\ Size(A(i), c.class) = i
  <2>1. i \in 0 .. Cardinality(S) /\ i <= c.choice.left
    BY <1>1, <1>3, <1>5 DEF Choice
  <2>2. Spent([class |-> c.class, choice |-> c.choice])
    BY <1>1 DEF Calls
  <2>3. /\ Spent([class |-> c.class + 1, choice |-> Extended(c.choice, S, i)])
        /\ \A m \in 1 .. c.class - 1 : Size(A(i), m) = Size(c.choice.corrupted, m)
        /\ Size(A(i), c.class) = i
    BY <1>1, <1>2, <1>4, <2>1, <2>2, ExtendedFacts, SMTT(30)
  <2> QED BY <2>3 DEF Kid
<1>7. DOMAIN calls' = 1 .. Len(calls) + n
  BY <1>3
<1>8. ASSUME NEW x \in DOMAIN calls'
      PROVE  \/ \E i \in 0 .. n : x = i + 1 /\ calls'[x] = Kid(c, i)
             \/ \E j \in 2 .. Len(calls) : x = j + n /\ calls'[x] = calls[j]
  <2>1. CASE x <= n + 1
    <3>1. x - 1 \in 0 .. n /\ (x - 1) + 1 = x
      BY <1>5, <1>7, <2>1
    <3> QED BY <1>3, <3>1
  <2>2. CASE ~(x <= n + 1)
    <3>1. x - n \in 2 .. Len(calls) /\ (x - n) + n = x
      BY <1>1, <1>5, <1>7, <2>2
    <3> QED BY <1>3, <3>1
  <2> QED BY <2>1, <2>2
<1> HIDE DEF A, S
<1>9. \A B, l : Apart(c.choice.corrupted, c.class, B, l) => \A i \in 0 .. n : Apart(A(i), c.class + 1, B, l)
  <2> SUFFICES ASSUME NEW B, NEW l, Apart(c.choice.corrupted, c.class, B, l), NEW i \in 0 .. n
               PROVE  Apart(A(i), c.class + 1, B, l)
    OBVIOUS
  <2>1. PICK m \in 1 .. Len(classes) : m < c.class /\ m < l /\ Size(c.choice.corrupted, m) # Size(B, m)
    BY DEF Apart
  <2>2. m \in 1 .. c.class - 1 /\ m < c.class + 1
    BY <1>2, <1>4, <2>1
  <2>3. Size(A(i), m) # Size(B, m)
    BY <1>6, <2>1, <2>2
  <2> QED BY <2>1, <2>2, <2>3 DEF Apart
<1>10. SearchTyped'
  BY <1>2, <1>3 DEF Inv, SearchTyped, Calls
<1>11. QuotaInv'
  <2>1. ASSUME NEW x \in DOMAIN calls' PROVE Spent(calls'[x])
    <3>1. \A j \in 2 .. Len(calls) : Spent(calls[j])
      BY <1>1 DEF Inv, QuotaInv
    <3> QED BY <1>6, <1>8, <3>1
  <2>2. \A call : Spent(call)' <=> Spent(call)
    BY <1>2 DEF Spent, Below
  <2>3. \A C : Asked(C)' <=> Asked(C)
    BY <1>2 DEF Asked
  <2> QED BY <1>2, <2>1, <2>2, <2>3 DEF Inv, QuotaInv
<1>12. ApartInv'
  <2>1. ASSUME NEW x \in DOMAIN calls', NEW y \in DOMAIN calls', x # y
        PROVE  Apart(calls'[x].choice.corrupted, calls'[x].class, calls'[y].choice.corrupted, calls'[y].class)
    <3>1. ASSUME NEW i \in 0 .. n, NEW j \in 0 .. n, i # j PROVE Apart(A(i), c.class + 1, A(j), c.class + 1)
      <4>1. c.class < c.class + 1
        BY <1>2
      <4>2. Size(A(i), c.class) # Size(A(j), c.class)
        BY <1>6, <3>1
      <4> QED BY <1>2, <4>1, <4>2 DEF Apart
    <3>2. ASSUME NEW i \in 0 .. n, NEW j \in 2 .. Len(calls)
          PROVE  Apart(A(i), c.class + 1, calls[j].choice.corrupted, calls[j].class)
      <4>1. 1 \in DOMAIN calls /\ j \in DOMAIN calls /\ j # 1
        BY <1>1
      <4>2. Apart(c.choice.corrupted, c.class, calls[j].choice.corrupted, calls[j].class)
        BY <1>1, <4>1 DEF Inv, ApartInv
      <4> QED BY <1>9, <4>2
    <3>3. ASSUME NEW i \in 2 .. Len(calls), NEW j \in 2 .. Len(calls), i # j
          PROVE  Apart(calls[i].choice.corrupted, calls[i].class, calls[j].choice.corrupted, calls[j].class)
      <4>1. i \in DOMAIN calls /\ j \in DOMAIN calls
        BY <1>1
      <4> QED BY <3>3, <4>1 DEF Inv, ApartInv
    <3>4. CASE \E i \in 0 .. n : x = i + 1 /\ calls'[x] = Kid(c, i)
      <4>1. PICK i \in 0 .. n : x = i + 1 /\ calls'[x] = Kid(c, i)
        BY <3>4
      <4>2. CASE \E j \in 0 .. n : y = j + 1 /\ calls'[y] = Kid(c, j)
        BY <1>6, <2>1, <3>1, <4>1, <4>2
      <4>3. CASE \E j \in 2 .. Len(calls) : y = j + n /\ calls'[y] = calls[j]
        BY <1>6, <3>2, <4>1, <4>3
      <4> QED BY <1>8, <4>2, <4>3
    <3>5. CASE \E i \in 2 .. Len(calls) : x = i + n /\ calls'[x] = calls[i]
      <4>1. PICK i \in 2 .. Len(calls) : x = i + n /\ calls'[x] = calls[i]
        BY <3>5
      <4>2. CASE \E j \in 0 .. n : y = j + 1 /\ calls'[y] = Kid(c, j)
        BY <1>6, <3>2, <4>1, <4>2, ApartSymmetric
      <4>3. CASE \E j \in 2 .. Len(calls) : y = j + n /\ calls'[y] = calls[j]
        BY <2>1, <3>3, <4>1, <4>3
      <4> QED BY <1>8, <4>2, <4>3
    <3> QED BY <1>8, <3>4, <3>5
  <2>2. ASSUME NEW x \in DOMAIN calls', NEW p \in DOMAIN possible
        PROVE  Apart(calls'[x].choice.corrupted, calls'[x].class, possible[p], Len(classes) + 1)
    <3>1. \A j \in DOMAIN calls : Apart(calls[j].choice.corrupted, calls[j].class, possible[p], Len(classes) + 1)
      BY DEF Inv, ApartInv
    <3>2. \A i \in 0 .. n : Apart(A(i), c.class + 1, possible[p], Len(classes) + 1)
      BY <1>1, <1>9, <3>1
    <3>3. \A j \in 2 .. Len(calls) : j \in DOMAIN calls
      BY <1>1
    <3> QED BY <1>6, <1>8, <3>1, <3>2, <3>3
  <2>3. \A A1, k, B1, l : Apart(A1, k, B1, l)' <=> Apart(A1, k, B1, l)
    BY <1>2 DEF Apart, Size
  <2> QED BY <1>2, <2>1, <2>2, <2>3 DEF Inv, ApartInv
<1>13. CoverInv'
  <2> SUFFICES ASSUME NEW C \in SUBSET Parties, Asked(C),
                      ~\E i \in DOMAIN possible : Same(possible[i], C, Len(classes) + 1)
               PROVE  \E x \in DOMAIN calls' : Same(calls'[x].choice.corrupted, C, calls'[x].class)
    <3>1. /\ \A C : Asked(C)' <=> Asked(C)
          /\ \A A1, B1, k : Same(A1, B1, k)' <=> Same(A1, B1, k)
      BY <1>2 DEF Asked, Same, Size
    <3> QED BY <1>2, <3>1 DEF CoverInv
  <2>1. PICK i \in DOMAIN calls : Same(calls[i].choice.corrupted, C, calls[i].class)
    BY DEF Inv, CoverInv
  <2>2. CASE i # 1
    <3>1. i \in 2 .. Len(calls) /\ i + n \in DOMAIN calls'
      BY <1>1, <1>5, <1>7, <2>2
    <3> QED BY <1>3, <2>1, <3>1
  <2>3. CASE i = 1
    <3> DEFINE k == c.class
               s == Size(C, k)
    <3>1. Same(c.choice.corrupted, C, k)
      BY <1>1, <2>1, <2>3
    <3>2. s \in 0 .. n
      <4>1. /\ Below(k) \subseteq Parties /\ Below(k + 1) = Below(k) \cup S
            /\ Below(k) \cap S = {}
        BY <1>2, <1>4, BelowFacts DEF S
      <4> DEFINE X == C \cap Below(k)
                 Y == C \cap S
      <4>2. /\ X \in SUBSET Parties /\ Y \in SUBSET S /\ X \cap Y = {} /\ X \cup Y \in SUBSET C
            /\ s = Cardinality(Y)
        BY <4>1 DEF Size, S
      <4>3. IsFiniteSet(X) /\ IsFiniteSet(Y) /\ IsFiniteSet(C)
        BY <1>4, <4>2, FS_Subset
      <4> HIDE DEF X, Y, k, s
      <4>4. s \in Nat /\ s <= Cardinality(S) /\ Cardinality(X) \in Nat /\ Cardinality(C) \in Nat
        BY <1>4, <4>2, <4>3, FS_Subset, FS_CardinalityType
      <4>5. Cardinality(X) + s <= Cardinality(C)
        <5>1. Cardinality(X \cup Y) = Cardinality(X) + Cardinality(Y)
          BY <4>2, <4>3, DisjointCard
        <5>2. Cardinality(X \cup Y) <= Cardinality(C)
          BY <4>2, <4>3, FS_Subset
        <5> QED BY <4>2, <5>1, <5>2
      <4>6. Cardinality(C) <= quota /\ quota \in Nat
        BY <1>4, CorruptionAssumption DEF Asked
      <4>7. Cardinality(X) = Cardinality(c.choice.corrupted)
        <5>1. c.choice.corrupted \in SUBSET Parties /\ c.choice.corrupted \subseteq Below(k)
          BY <1>1 DEF Spent, Choice, k
        <5>2. c.choice.corrupted \cap Below(k) = c.choice.corrupted
          BY <5>1
        <5>3. k \in 1 .. Len(classes) + 1
          BY <1>2, <1>4 DEF k
        <5> QED BY <1>4, <3>1, <5>1, <5>2, <5>3, SameMeansAsMany DEF X
      <4>8. Cardinality(c.choice.corrupted) + c.choice.left = quota /\ c.choice.left \in Nat
        BY <1>1 DEF Spent, Choice
      <4>9. s <= c.choice.left
        BY <4>4, <4>5, <4>6, <4>7, <4>8
      <4> QED BY <1>3, <1>5, <4>4, <4>9
    <3>3. Same(A(s), C, k + 1)
      <4> SUFFICES ASSUME NEW m \in 1 .. (k + 1) - 1 PROVE Size(A(s), m) = Size(C, m)
        BY DEF Same
      <4>1. CASE m = k
        BY <1>6, <3>2, <4>1
      <4>2. CASE m # k
        <5>1. m \in 1 .. k - 1
          BY <1>2, <1>4, <4>2
        <5>2. Size(c.choice.corrupted, m) = Size(C, m)
          BY <3>1, <5>1 DEF Same
        <5> QED BY <1>6, <3>2, <5>1, <5>2
      <4> QED BY <4>1, <4>2
    <3>4. s + 1 \in DOMAIN calls' /\ calls'[s + 1] = Kid(c, s)
      <4> HIDE DEF s
      <4> QED BY <1>1, <1>3, <1>5, <1>7, <3>2
    <3> HIDE DEF s
    <3> QED BY <1>6, <3>2, <3>3, <3>4
  <2> QED BY <2>2, <2>3
<1> QED BY <1>10, <1>11, <1>12, <1>13 DEF Inv

\* A call past the last class was the way to exactly the sets that have as many parties
\* of every class as its own, which it adds if they were asked for.
LEMMA AddInv == ASSUME Inv, Add PROVE Inv'
<1> DEFINE c == Call
           A == c.choice.corrupted
           last == Len(classes) + 1
<1>1. /\ calls # <<>> /\ c.class > Len(classes) /\ calls' = Tail(calls)
      /\ possible' = IF IsPossible(c.choice, strict) THEN Append(possible, A) ELSE possible
      /\ UNCHANGED <<classes, quota, strict>>
  BY DEF Add
<1>2. /\ calls \in Seq(Calls) /\ Len(calls) \in Nat \ {0} /\ DOMAIN calls = 1 .. Len(calls)
      /\ c = calls[1] /\ c \in Calls /\ c.choice \in Choice /\ Spent(c)
      /\ calls' \in Seq(Calls) /\ Len(calls') = Len(calls) - 1
      /\ \A i \in 1 .. Len(calls) - 1 : calls'[i] = calls[i + 1]
  BY <1>1, FirstCall
<1>3. /\ classes \in Divisions /\ quota \in 0 .. MaxQuota /\ strict \in BOOLEAN
      /\ possible \in Seq(SUBSET Parties) /\ Len(possible) \in Nat
      /\ DOMAIN possible = 1 .. Len(possible)
      /\ Len(classes) \in Nat /\ IsFiniteSet(Parties) /\ Below(last) = Parties
  BY DivisionFacts, BelowFacts DEF Inv, SearchTyped
<1>4. c.class = last /\ last \in 1 .. Len(classes) + 1
  BY <1>1, <1>2, <1>3 DEF Calls
<1>5. A \in SUBSET Parties /\ Cardinality(A) + c.choice.left = quota /\ c.choice.left \in Nat
      /\ IsFiniteSet(A) /\ Cardinality(A) \in Nat
  <2>1. A \in SUBSET Parties /\ Cardinality(A) + c.choice.left = quota /\ c.choice.left \in Nat
    BY <1>2 DEF Choice, Spent
  <2> QED BY <1>3, <2>1, FS_Subset, FS_CardinalityType
<1> HIDE DEF c, A, last
<1>6. IsPossible(c.choice, strict) <=> Asked(A)
  <2>1. quota \in Nat
    BY <1>3, CorruptionAssumption
  <2>2. IsPossible(c.choice, strict) <=> A # {} /\ (strict => c.choice.left = 0)
    BY DEF IsPossible, A
  <2>3. c.choice.left = 0 <=> Cardinality(A) = quota
    BY <1>5, <2>1
  <2>4. Cardinality(A) <= quota
    BY <1>5, <2>1
  <2> QED BY <2>2, <2>3, <2>4 DEF Asked
<1>7. \/ Asked(A) /\ possible' = Append(possible, A)
      \/ ~Asked(A) /\ possible' = possible
  BY <1>1, <1>6
<1>8. /\ possible' \in Seq(SUBSET Parties)
      /\ \A i \in DOMAIN possible : i \in DOMAIN possible' /\ possible'[i] = possible[i]
      /\ \A i \in DOMAIN possible' : \/ i \in DOMAIN possible
                                     \/ i = Len(possible) + 1 /\ Asked(A) /\ possible'[i] = A
      /\ Asked(A) => Len(possible) + 1 \in DOMAIN possible' /\ possible'[Len(possible) + 1] = A
  <2>1. CASE Asked(A) /\ possible' = Append(possible, A)
    <3>1. /\ possible' \in Seq(SUBSET Parties) /\ Len(possible') = Len(possible) + 1
          /\ DOMAIN possible' = 1 .. Len(possible) + 1
          /\ \A i \in 1 .. Len(possible) : possible'[i] = possible[i]
          /\ possible'[Len(possible) + 1] = A
      BY <1>3, <1>5, <2>1, AppendProperties
    <3> QED BY <1>3, <2>1, <3>1
  <2>2. CASE ~Asked(A) /\ possible' = possible
    BY <1>3, <2>2
  <2> QED BY <1>7, <2>1, <2>2
<1>9. \A x \in DOMAIN calls' : x + 1 \in DOMAIN calls /\ x + 1 # 1 /\ calls'[x] = calls[x + 1]
  BY <1>2
<1>10. /\ \A call : Spent(call)' <=> Spent(call)
       /\ \A C : Asked(C)' <=> Asked(C)
       /\ \A A1, B1, k : Same(A1, B1, k)' <=> Same(A1, B1, k)
       /\ \A A1, k, B1, l : Apart(A1, k, B1, l)' <=> Apart(A1, k, B1, l)
  BY <1>1 DEF Spent, Below, Asked, Same, Apart, Size
<1>11. SearchTyped'
  BY <1>1, <1>2, <1>3, <1>8 DEF SearchTyped, Calls
<1>12. QuotaInv'
  <2>1. \A x \in DOMAIN calls' : Spent(calls'[x])
    BY <1>9 DEF Inv, QuotaInv
  <2>2. \A i \in DOMAIN possible' : Asked(possible'[i])
    BY <1>8 DEF Inv, QuotaInv
  <2> QED BY <1>10, <2>1, <2>2 DEF QuotaInv
<1>13. ApartInv'
  <2>1. ASSUME NEW x \in DOMAIN calls', NEW y \in DOMAIN calls', x # y
        PROVE  Apart(calls'[x].choice.corrupted, calls'[x].class, calls'[y].choice.corrupted, calls'[y].class)
    <3>1. x + 1 # y + 1
      BY <1>2, <2>1
    <3> QED BY <1>9, <3>1 DEF Inv, ApartInv
  <2>2. ASSUME NEW x \in DOMAIN calls', NEW p \in DOMAIN possible'
        PROVE  Apart(calls'[x].choice.corrupted, calls'[x].class, possible'[p], last)
    <3>1. CASE p \in DOMAIN possible
      BY <1>8, <1>9, <3>1 DEF Inv, ApartInv, last
    <3>2. CASE possible'[p] = A
      <4>1. 1 \in DOMAIN calls
        BY <1>2
      <4>2. Apart(calls[x + 1].choice.corrupted, calls[x + 1].class, A, last)
        BY <1>2, <1>4, <1>9, <4>1 DEF Inv, ApartInv, A
      <4> QED BY <1>9, <3>2, <4>2
    <3> QED BY <1>8, <3>1, <3>2
  <2>3. ASSUME NEW p \in DOMAIN possible', NEW q \in DOMAIN possible', p # q
        PROVE  Apart(possible'[p], last, possible'[q], last)
    <3>1. \A r \in DOMAIN possible : Apart(A, last, possible[r], last)
      <4>1. 1 \in DOMAIN calls
        BY <1>2
      <4> QED BY <1>2, <1>4, <4>1 DEF Inv, ApartInv, A, last
    <3>2. CASE p \in DOMAIN possible /\ q \in DOMAIN possible
      BY <1>8, <2>3, <3>2 DEF Inv, ApartInv, last
    <3>3. CASE p \in DOMAIN possible /\ q \notin DOMAIN possible
      BY <1>8, <3>1, <3>3, ApartSymmetric
    <3>4. CASE p \notin DOMAIN possible /\ q \in DOMAIN possible
      BY <1>8, <3>1, <3>4
    <3>5. CASE p \notin DOMAIN possible /\ q \notin DOMAIN possible
      BY <1>8, <2>3, <3>5
    <3> QED BY <3>2, <3>3, <3>4, <3>5
  <2>4. Len(classes') + 1 = last
    BY <1>1 DEF last
  <2> QED BY <1>10, <2>1, <2>2, <2>3, <2>4 DEF ApartInv
<1>14. CoverInv'
  <2> SUFFICES ASSUME NEW C \in SUBSET Parties, Asked(C),
                      ~\E i \in DOMAIN possible' : Same(possible'[i], C, last)
               PROVE  \E x \in DOMAIN calls' : Same(calls'[x].choice.corrupted, C, calls'[x].class)
    <3>1. Len(classes') + 1 = last
      BY <1>1 DEF last
    <3> QED BY <1>1, <1>10, <3>1 DEF CoverInv
  <2>1. ~\E i \in DOMAIN possible : Same(possible[i], C, last)
    BY <1>8
  <2>2. PICK i \in DOMAIN calls : Same(calls[i].choice.corrupted, C, calls[i].class)
    BY <2>1 DEF Inv, CoverInv, last
  <2>3. i # 1
    <3> SUFFICES ASSUME i = 1 PROVE FALSE
      OBVIOUS
    <3>1. Same(A, C, last)
      BY <1>2, <1>4, <2>2 DEF A
    <3>2. Cardinality(A) = Cardinality(C)
      <4>1. A \cap Below(last) = A /\ C \cap Below(last) = C
        BY <1>3, <1>5
      <4> QED BY <1>3, <1>4, <1>5, <3>1, <4>1, SameMeansAsMany
    <3>3. A # {}
      <4>1. IsFiniteSet(C) /\ C # {}
        BY <1>3, FS_Subset DEF Asked
      <4>2. Cardinality(C) # 0
        BY <4>1, FS_EmptySet
      <4> QED BY <3>2, <4>2, FS_EmptySet
    <3>4. Asked(A)
      BY <3>2, <3>3 DEF Asked
    <3> QED BY <1>8, <3>1, <3>4
  <2>4. i - 1 \in DOMAIN calls' /\ calls'[i - 1] = calls[i]
    <3>1. i - 1 \in 1 .. Len(calls) - 1 /\ (i - 1) + 1 = i /\ DOMAIN calls' = 1 .. Len(calls) - 1
      BY <1>2, <2>3
    <3> QED BY <1>2, <3>1
  <2> QED BY <2>2, <2>4
<1> QED BY <1>11, <1>12, <1>13, <1>14 DEF Inv

\* Every step of the recursion keeps the invariant.
LEMMA NextInv == Inv /\ [Next]_vars => Inv'
<1> SUFFICES ASSUME Inv, [Next]_vars PROVE Inv'
  OBVIOUS
<1>1. CASE Descend
  BY <1>1, DescendInv
<1>2. CASE Add
  BY <1>2, AddInv
<1>3. CASE UNCHANGED vars
  <2>1. UNCHANGED <<classes, quota, strict, calls, possible>>
    BY <1>3 DEF vars
  <2>2. /\ \A call : Spent(call)' <=> Spent(call)
        /\ \A C : Asked(C)' <=> Asked(C)
        /\ \A A1, B1, k : Same(A1, B1, k)' <=> Same(A1, B1, k)
        /\ \A A1, k, B1, l : Apart(A1, k, B1, l)' <=> Apart(A1, k, B1, l)
    BY <2>1 DEF Spent, Below, Asked, Same, Apart, Size
  <2>3. SearchTyped' /\ QuotaInv' /\ CoverInv'
    BY <2>1, <2>2 DEF Inv, SearchTyped, QuotaInv, CoverInv
  <2>4. ApartInv'
    BY <2>1, <2>2 DEF Inv, ApartInv
  <2> QED BY <2>3, <2>4 DEF Inv
<1> QED BY <1>1, <1>2, <1>3 DEF Next

\* The invariant holds throughout the recursion.
THEOREM Invariance == Spec => []Inv
BY InitInv, NextInv, PTL DEF Spec

\* The corrupted sets are sets of parties, and the quota passed on never wraps
\* (prover.hpp:34, 63).
THEOREM QuotaNeverWraps == Spec => []TypeOK
<1>1. Inv => TypeOK
  <2> SUFFICES ASSUME Inv PROVE TypeOK
    OBVIOUS
  <2>1. /\ classes \in Divisions /\ quota \in 0 .. MaxQuota /\ strict \in BOOLEAN
        /\ calls \in Seq(Calls) /\ possible \in Seq(SUBSET Parties)
    BY DEF Inv, SearchTyped, Calls
  <2>2. ASSUME NEW i \in DOMAIN calls
        PROVE  calls[i].choice.corrupted \in SUBSET Parties /\ calls[i].choice.left \in 0 .. quota
    <3>1. calls[i] \in Calls /\ Spent(calls[i]) /\ quota \in Nat
      BY <2>1, CorruptionAssumption DEF Inv, QuotaInv
    <3>2. calls[i].choice.corrupted \in SUBSET Parties /\ calls[i].choice.left \in Nat
      BY <3>1 DEF Calls, Choice
    <3>3. Cardinality(calls[i].choice.corrupted) \in Nat
      BY <2>1, <3>2, DivisionFacts, FS_Subset, FS_CardinalityType
    <3>4. calls[i].choice.left <= quota
      BY <3>1, <3>2, <3>3 DEF Spent
    <3> QED BY <3>1, <3>2, <3>4
  <2> QED BY <2>1, <2>2 DEF TypeOK
<1> QED BY <1>1, Invariance, PTL

\* The recursion leaves out no corrupted set the caller asked for, up to equivalent
\* parties, for any parties, any division into classes and any quota.
THEOREM EveryOneCovered == Spec => []EveryCorruptionCovered
<1>1. Inv => EveryCorruptionCovered
  <2> SUFFICES ASSUME Inv, calls = <<>>, NEW C \in (SUBSET Parties) \ {{}},
                      IF strict THEN Cardinality(C) = quota ELSE Cardinality(C) <= quota
               PROVE  \E i \in DOMAIN possible : Sizes(possible[i]) = Sizes(C)
    BY DEF EveryCorruptionCovered
  <2>1. DOMAIN classes = 1 .. Len(classes) /\ Len(classes) \in Nat
    BY DivisionFacts DEF Inv, SearchTyped
  <2>2. Asked(C)
    BY DEF Asked
  <2>3. DOMAIN calls = {}
    OBVIOUS
  <2>4. PICK i \in DOMAIN possible : Same(possible[i], C, Len(classes) + 1)
    BY <2>2, <2>3 DEF Inv, CoverInv
  <2>5. \A m \in DOMAIN classes : Cardinality(possible[i] \cap classes[m]) = Cardinality(C \cap classes[m])
    <3>1. \A m \in DOMAIN classes : m \in 1 .. (Len(classes) + 1) - 1
      BY <2>1
    <3> QED BY <2>4, <3>1 DEF Same, Size
  <2> QED BY <2>5 DEF Sizes
<1> QED BY <1>1, Invariance, PTL

\* And it adds only such sets, none of them twice.
THEOREM NoneTwice == Spec => []NothingConsideredTwice
<1>1. Inv => NothingConsideredTwice
  <2> SUFFICES ASSUME Inv, NEW i \in DOMAIN possible, NEW j \in DOMAIN possible
               PROVE  /\ possible[i] # {}
                      /\ IF strict THEN Cardinality(possible[i]) = quota
                                   ELSE Cardinality(possible[i]) <= quota
                      /\ Sizes(possible[i]) = Sizes(possible[j]) => i = j
    BY DEF NothingConsideredTwice
  <2>1. Asked(possible[i])
    BY DEF Inv, QuotaInv
  <2>2. ASSUME i # j PROVE Sizes(possible[i]) # Sizes(possible[j])
    <3>1. DOMAIN classes = 1 .. Len(classes)
      BY DivisionFacts DEF Inv, SearchTyped
    <3>2. PICK m \in 1 .. Len(classes) : Size(possible[i], m) # Size(possible[j], m)
      BY <2>2 DEF Inv, ApartInv, Apart
    <3>3. Sizes(possible[i])[m] # Sizes(possible[j])[m]
      BY <3>1, <3>2 DEF Sizes, Size
    <3> QED BY <3>3
  <2> QED BY <2>1, <2>2 DEF Asked
<1> QED BY <1>1, Invariance, PTL
=============================================================================
