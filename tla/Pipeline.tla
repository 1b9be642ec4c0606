------------------------------ MODULE Pipeline ------------------------------
(***************************************************************************)
(* The whole way of a program such as the ones under example/: it computes *)
(* with variables and opens outputs, has the graph built, and has it       *)
(* proved.  The parts are the machines of modules Variables, Builder and   *)
(* Prover; here they run one after the other, and hand over what the       *)
(* program hands over.                                                     *)
(***************************************************************************)
EXTENDS Frontend
LOCAL INSTANCE SequencesExt

CONSTANTS
    Programs,      \* the programs: sequences of calls
    Processors     \* omp_get_num_procs()

VARIABLES
    program,       \* the program that runs
    asked, job, verdict    \* those of the prover

proverVars == <<asked, job, verdict>>
pipelineVars == <<allVars, program, proverVars>>

\* The prover takes its graph from the builder, not from a list of protocols.
P == INSTANCE Prover WITH
    Protocols <- {}, Base <- <<>>, Classes <- <<>>, Exactly <- {}, protocol <- "built"

PipelineInit ==
    /\ FrontendInit
    /\ program \in Programs
    /\ asked = [quota |-> T, strict |-> FALSE]
    /\ job = <<>>
    /\ verdict = "none"

-----------------------------------------------------------------------------
(* Programs.                                                               *)

\* call with the variables, inputs or parties it is about.
Calls(call, of) == [call |-> call, of |-> of]

\* test_bgw_scalable, with what rand_op draws: the i-th round assigns secret i
\* to the variable it has used before.
TestScalable(ops) ==
    << Calls("assign", <<"var", 1>>), Calls("scale", <<"var", "var">>),
       Calls("copy", <<"protocol", "var">>) >>
    \o FoldLeftDomain(LAMBDA done, i : done \o << Calls("assign", <<"var", i + 1>>),
                                                  Calls(ops[i], <<"protocol", "protocol", "var">>) >>,
                      <<>>, ops)
    \o [p \in 1 .. PartyCnt |-> Calls("yield", <<"protocol", p>>)]

\* A program that multiplies shares itself, without the front end's product:
\* x = y * z, share by share (operator* of Share).
MulLocally(x, y, z) ==
    /\ Running /\ Shared(y) /\ Shared(z)
    /\ Takes(x, ForEach(ctx, PartyCnt, LAMBDA c, i : BinaryOp(c, shares[y][i], shares[z][i], "MUL")))
    /\ StandsFor(x, "*", <<stands[y], stands[z]>>)
    /\ UNCHANGED mulCounter

\* A program that moves shares itself: that of party i travels by way of
\* party p (transfer of Share, called twice).
Relay(x, i, p) ==
    /\ Running /\ Shared(x)
    /\ LET there == Transfer(ctx, shares[x][i], p)
           back == Transfer(there.ctx, there.ids[1], i)
       IN Takes(x, Done(back.ctx, [shares[x] EXCEPT ![i] = back.ids[1]]))
    /\ UNCHANGED <<mulCounter, terms, stands>>

\* The call that is next.
Perform ==
    /\ steps < Len(program)
    /\ LET next == program[steps + 1]
           of == next.of
       IN \/ next.call = "assign" /\ Assign(of[1], of[2])
          \/ next.call = "scale" /\ ConstMul(of[1], of[2])
          \/ next.call = "copy" /\ Copy(of[1], of[2])
          \/ next.call = "add" /\ Add(of[1], of[2], of[3])
          \/ next.call = "mul" /\ Mul(of[1], of[2], of[3])
          \/ next.call = "mulLocally" /\ MulLocally(of[1], of[2], of[3])
          \/ next.call = "relay" /\ Relay(of[1], of[2], of[3])
          \/ next.call = "yield" /\ Yield(of[1], of[2], {})
    /\ UNCHANGED <<builderVars, program, proverVars>>

\* builder.build()
Build ==
    /\ steps = Len(program)
    /\ StartBuild \/ CallImport \/ CallOperand \/ Return \/ FinishBuild
    /\ UNCHANGED <<program, proverVars>>

\* Prover prover(...); prover.prove(): every party is a class of its own.
Prove ==
    /\ built # <<>> /\ job = <<>>
    /\ job' = P!StartJobs(built[1], [p \in 1 .. PartyCnt |-> {p}], asked.quota, asked.strict)
    /\ UNCHANGED <<allVars, program, asked, verdict>>

\* The parallel loop.  Jobs do not touch each other, and module Prover has
\* their interleavings; here they are carried out one after the other.
AtWork ==
    LET running == {C \in P!Jobs : P!Running(C)}
        waiting == {C \in P!Jobs : job[C].pc = "waiting"}
    IN IF running # {} THEN running
       ELSE IF waiting # {} THEN {CHOOSE C \in waiting : TRUE} ELSE {}

Search ==
    /\ job # <<>> /\ verdict = "none"
    /\ P!Join \/ \E C \in AtWork : P!JobStep(C)
    /\ UNCHANGED <<allVars, program>>

PipelineNext == Perform \/ Build \/ Prove \/ Search

PipelineSpec == PipelineInit /\ [][PipelineNext]_pipelineVars

-----------------------------------------------------------------------------
(* Properties.                                                             *)

\* A program that only uses the front end.
PlainBgw == \A i \in DOMAIN program : program[i].call \notin {"mulLocally", "relay"}

\* Programs of BGW are perfectly secure, and the search is strong enough to
\* find that out: they are proved for every corrupted set, whatever they
\* compute and in spite of variables that go stale on the way.
BgwIsProved == PlainBgw => verdict \in {"none", "proved"}
=============================================================================
