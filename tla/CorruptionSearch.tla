-------------------------- MODULE CorruptionSearch --------------------------
(***************************************************************************)
(* The recursion of Prover::search_all_possibilities as a machine, for     *)
(* every way of dividing the parties into classes: a stack of the calls    *)
(* still to be made, and the vector possible_start_graphs.                 *)
(***************************************************************************)
EXTENDS CorruptedSets

CONSTANTS
    Parties,       \* positions of the parties
    MaxQuota       \* bound of the runs: the largest quota asked for

ASSUME CorruptionAssumption ==
    Parties \in SUBSET Nat /\ IsFiniteSet(Parties) /\ MaxQuota \in 0 .. UnsignedMax

VARIABLES
    classes,       \* equivalent_classes
    quota,         \* T for prove(), I for prove(I)
    strict,        \* is_quota_strict: prove(I)
    calls,         \* calls of search_all_possibilities still to be made
    possible       \* possible_start_graphs

vars == <<classes, quota, strict, calls, possible>>

\* The divisions of the parties into classes, in any order.
Divisions ==
    UNION {{c \in [1 .. k -> (SUBSET Parties) \ {{}}] :
              /\ UNION {c[i] : i \in 1 .. k} = Parties
              /\ \A i, j \in 1 .. k : i # j => c[i] \cap c[j] = {}} :
           k \in 1 .. Cardinality(Parties)}

Init ==
    /\ classes \in Divisions
    /\ quota \in 0 .. MaxQuota
    /\ strict \in BOOLEAN
    /\ calls = <<[class |-> 1, choice |-> NoChoice(quota)]>>
    /\ possible = <<>>

Call == Head(calls)

\* A call for a class of parties: one call for the next class after another.
Descend ==
    /\ calls # <<>> /\ Call.class <= Len(classes)
    /\ LET class == classes[Call.class]
           counts == Counts(class, Call.choice.left)
           made == [i \in 1 .. Cardinality(counts) |->
                       [class |-> Call.class + 1, choice |-> Extended(Call.choice, class, i - 1)]]
       IN calls' = made \o Tail(calls)
    /\ UNCHANGED <<classes, quota, strict, possible>>

\* A call past the last class.
Add ==
    /\ calls # <<>> /\ Call.class > Len(classes)
    /\ calls' = Tail(calls)
    /\ possible' = IF IsPossible(Call.choice, strict)
                   THEN Append(possible, Call.choice.corrupted) ELSE possible
    /\ UNCHANGED <<classes, quota, strict>>

Next == Descend \/ Add

Spec == Init /\ [][Next]_vars

-----------------------------------------------------------------------------
(* Properties.                                                             *)

Sizes(C) == [i \in DOMAIN classes |-> Cardinality(C \cap classes[i])]

\* Type invariant.
TypeOK ==
    /\ quota \in 0 .. MaxQuota /\ strict \in BOOLEAN
    /\ \A i \in DOMAIN calls : /\ calls[i].choice.corrupted \in SUBSET Parties
                               /\ calls[i].choice.left \in 0 .. quota
    /\ possible \in Seq(SUBSET Parties)

\* Nothing that should be verified is left out (prover.hpp:29-65): a set of
\* corrupted parties the caller asked for, of any parties, has a counterpart
\* with as many parties of every class.
EveryCorruptionCovered ==
    calls = <<>> =>
        \A C \in (SUBSET Parties) \ {{}} :
            (IF strict THEN Cardinality(C) = quota ELSE Cardinality(C) <= quota)
              => \E i \in DOMAIN possible : Sizes(possible[i]) = Sizes(C)

\* And nothing too much: no start graph has more corrupted parties than asked
\* for, or none, and no two of them differ only in equivalent parties.
NothingConsideredTwice ==
    \A i, j \in DOMAIN possible :
        /\ possible[i] # {}
        /\ IF strict THEN Cardinality(possible[i]) = quota ELSE Cardinality(possible[i]) <= quota
        /\ Sizes(possible[i]) = Sizes(possible[j]) => i = j
=============================================================================
