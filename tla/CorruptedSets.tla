--------------------------- MODULE CorruptedSets ---------------------------
(***************************************************************************)
(* Which sets of corrupted parties the prover considers:                   *)
(* Prover::search_all_possibilities (prover.hpp) goes through the classes  *)
(* of equivalent parties, and from each class takes 0, 1, 2, ... parties,  *)
(* always the first ones in the order of the class.                        *)
(*                                                                         *)
(* A choice is what the recursion passes on: the parties taken and what is *)
(* left of the quota.  The order of an unordered_set is unspecified; here  *)
(* it is the order of the parties' positions.                              *)
(***************************************************************************)
EXTENDS Integers, Sequences, FiniteSets

\* Arithmetic of "unsigned".  The type has 32 bits; a quota takes a few of them, and 16
\* show a subtraction that wraps as well.
UnsignedMax == 65535

Unsigned(n) == n % (UnsignedMax + 1)

NoChoice(quota) == [corrupted |-> {}, left |-> quota]

\* The first k parties of a class.
First(class, k) == {p \in class : Cardinality({q \in class : q < p}) < k}

\* Mutants of Counts: the quota is not tested; the call for no party is missing.
CountsOverQuota(class, left) == 0 .. Cardinality(class)
CountsFromOne(class, left) == {i \in 1 .. Cardinality(class) : \A j \in 1 .. i : j - 1 # left}

\* The numbers of parties the loop over one class passes on: none, and then
\* i = 1, 2, ... until i is equal to the quota or the class is exhausted.
Counts(class, left) == {i \in 0 .. Cardinality(class) : \A j \in 1 .. i : j - 1 # left}

\* The choice the call for the next class gets after taking k of the class.
Extended(choice, class, k) ==
    [corrupted |-> choice.corrupted \cup First(class, k), left |-> Unsigned(choice.left - k)]

\* A mutant of IsPossible: a strict quota is not tested.
IsPossibleEver(choice, strict) == choice.corrupted # {}

\* The end of the recursion: what becomes a start graph.
IsPossible(choice, strict) ==
    /\ choice.corrupted # {}
    /\ strict => choice.left = 0

\* Every corrupted set search_all_possibilities(0, quota, {}, strict) adds.
PossibleSets(classes, quota, strict) ==
    LET choices[k \in 0 .. Len(classes)] ==
            IF k = 0 THEN {NoChoice(quota)}
            ELSE UNION {{Extended(c, classes[k], i) : i \in Counts(classes[k], c.left)} :
                           c \in choices[k - 1]}
    IN {c.corrupted : c \in {d \in choices[Len(classes)] : IsPossible(d, strict)}}
=============================================================================
