---------------------------- MODULE MCRewriting ----------------------------
\* Instances of RewritingMeaning for TLC.
EXTENDS RewritingMeaning

P == INSTANCE Protocols

MCFieldSize == 5
MCScalar == P!ScalarFactor

\* Protocols of two and of three parties, threshold 1, by name.
Graphs(two, three) ==
    [p \in DOMAIN two \cup DOMAIN three |->
        IF p \in DOMAIN two THEN P!GraphOf(two[p], 2, 1) ELSE P!GraphOf(three[p], 3, 1)]
Meanings(two, three) ==
    [p \in DOMAIN two \cup DOMAIN three |->
        P!Values(IF p \in DOMAIN two THEN two[p] ELSE three[p], MCFieldSize)]

\* In "random", "mixed", "masktwice" and "doublemask" outputs depend on random values.
Two ==
    [single |-> P!Single2, sum |-> P!AddToOne2, both |-> P!Add2, double |-> P!Double2,
     twice |-> P!AddTwice2, scaled |-> P!Scaled2, lowdegree |-> P!LowDegree2,
     relayed |-> P!Relayed2, doublemask |-> P!DoubleMask2, tripled |-> P!Tripled2, random |-> P!RandomOpened2,
     mixed |-> P!MixedShares2, masktwice |-> P!MaskTwice2]
Three == [single3 |-> P!Single3, sum3 |-> P!Add3, mixed3 |-> P!MixedShares3]
MCBase == Graphs(Two, Three)
MCValue == Meanings(Two, Three)
=============================================================================
