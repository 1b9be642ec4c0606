----------------------------- MODULE MCPipeline -----------------------------
\* Instances of PipelineMeaning for TLC.
EXTENDS PipelineMeaning

\* A secret of every party.
MCInputs == <<[kind |-> "secret", party |-> 1, type |-> "arith"],
              [kind |-> "secret", party |-> 2, type |-> "arith"],
              [kind |-> "secret", party |-> 3, type |-> "arith"]>>

Open(x, readers) == [i \in DOMAIN readers |-> Calls("yield", <<x, readers[i]>>)]

\* x op y, opened to some of the parties.
Once(op, readers) ==
    << Calls("assign", <<"x", 1>>), Calls("assign", <<"y", 2>>), Calls(op, <<"x", "x", "y">>) >>
    \o Open("x", readers)

\* x, with the share of party i sent by way of party p.
Relayed(i, p, readers) ==
    << Calls("assign", <<"x", 1>>), Calls("relay", <<"x", i, p>>) >> \o Open("x", readers)

\* The square of a secret, multiplied locally and opened to its owner, who
\* learns nothing new.
OwnSquare ==
    << Calls("assign", <<"x", 1>>), Calls("mulLocally", <<"x", "x", "x">>) >> \o Open("x", <<1>>)

Readers == {<<1>>, <<3>>, <<1, 2, 3>>}

MCPrograms ==
    {TestScalable(ops) : ops \in {<<"add">>, <<"mul">>, <<"mul", "add">>, <<"add", "mul">>, <<"mul", "mul">>}}
      \cup {OwnSquare}
      \cup {Once(op, readers) : op \in {"add", "mul"}, readers \in Readers}
      \cup {Relayed(i, p, readers) : i \in {1, 2}, p \in 1 .. PartyCnt, readers \in Readers}

\* Shares multiplied locally and opened to somebody else.
MCLocalProduct == {Once("mulLocally", <<3>>)}
=============================================================================
