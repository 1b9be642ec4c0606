--------------------------- MODULE ProverMeaning ---------------------------
\* What the prover's verdict has to do with the protocol.
EXTENDS Prover, Meaning

CONSTANT
    Value    \* Value[p][n]: the vector node n of protocol p holds

\* The sets of corrupted parties the caller asks about.
Covered(C) ==
    C # {} /\ IF asked.strict THEN Cardinality(C) = asked.quota ELSE Cardinality(C) <= asked.quota

\* "verifying the perfect security of multiparty computation protocols"
\* (README.md:6): when the prover says "Proved", no set of corrupted parties
\* that the call covers learns more than its own inputs and outputs.
ProvedMeansSecure ==
    verdict = "proved" =>
        \A C \in SUBSET (1 .. Base[protocol].partyCnt) :
            Covered(C) => Secure(Value[protocol], Base[protocol], C)
=============================================================================
