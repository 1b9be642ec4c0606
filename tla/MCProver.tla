------------------------------ MODULE MCProver ------------------------------
\* Instances of ProverMeaning for TLC.
EXTENDS ProverMeaning

P == INSTANCE Protocols

MCFieldSize == 5
MCScalar == P!ScalarFactor

\* Every party a class of its own, as in the programs under example/.
MCClasses == [p \in Protocols |-> [i \in 1 .. Base[p].partyCnt |-> {i}]]

\* Protocols of two and of three parties, threshold 1, by name.
Two ==
    [single |-> P!Single2, sum |-> P!AddToOne2, both |-> P!Add2, double |-> P!Double2,
     twice |-> P!AddTwice2, scaled |-> P!Scaled2, lowdegree |-> P!LowDegree2,
     relayed |-> P!Relayed2, random |-> P!RandomOpened2, mixed |-> P!MixedShares2,
     masked |-> P!MaskedOutput2, masktwice |-> P!MaskTwice2, doublemask |-> P!DoubleMask2, tripled |-> P!Tripled2]
Three == [single3 |-> P!Single3, sum3 |-> P!Add3]

MCBase ==
    [p \in DOMAIN Two \cup DOMAIN Three |->
        IF p \in DOMAIN Two THEN P!GraphOf(Two[p], 2, 1) ELSE P!GraphOf(Three[p], 3, 1)]
MCValue ==
    [p \in DOMAIN Two \cup DOMAIN Three |->
        P!Values(IF p \in DOMAIN Two THEN Two[p] ELSE Three[p], MCFieldSize)]
=============================================================================
