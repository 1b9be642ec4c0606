------------------------------- MODULE Prover -------------------------------
(***************************************************************************)
(* The prover: Prover::prove, try_all_possibilities and tryProving of      *)
(* prover.hpp.  For every set of corrupted parties there is a job with a   *)
(* graph of its own; the jobs run in a parallel loop on the processors of  *)
(* the machine, and the verdict is the conjunction of their results.       *)
(*                                                                         *)
(* One rewriting, which module Rewriting takes apart, is one step here.    *)
(***************************************************************************)
EXTENDS Transformers, CorruptedSets

CONSTANTS
    Protocols,     \* names of the protocols to verify
    Base,          \* Base[p]: [nodes, inE, outE, partyCnt, T], as in module Rewriting
    Classes,       \* Classes[p]: the classes of equivalent parties the caller declares
    Exactly,       \* the numbers of corrupted parties the caller passes to prove(I)
    Processors     \* omp_get_num_procs()

\* The builder's graphs, and the parties divided into classes by the caller.
ASSUME ProverAssumption ==
    /\ Processors \in Nat \ {0}
    /\ Exactly \in SUBSET (Nat \ {0})
    /\ \A p \in Protocols :
          /\ HandedOver(Graph(Base[p].nodes, Base[p].inE, Base[p].outE,
                              Base[p].partyCnt, Base[p].T, {}, 0, 0))
          /\ Classes[p] \in Seq(SUBSET (1 .. Base[p].partyCnt))
          /\ UNION {Classes[p][i] : i \in DOMAIN Classes[p]} = 1 .. Base[p].partyCnt

\* The front end's layout; a threshold below the number of parties (the
\* rewriters assert it, transformer.hpp:39).
ASSUME LayoutAssumption ==
    \A p \in Protocols :
        /\ Base[p].partyCnt \in Nat /\ Base[p].T \in 0 .. Base[p].partyCnt - 1
        /\ LaidOut(Graph(Base[p].nodes, Base[p].inE, Base[p].outE,
                         Base[p].partyCnt, Base[p].T, {}, 0, 0))

VARIABLES
    protocol,      \* the protocol under verification
    asked,         \* the call: how many corrupted parties, at most or exactly
    job,           \* job[C]: the state of tryProving for the corrupted set C
    verdict        \* "none", "proved", "unknown", or "aborted"

vars == <<protocol, asked, job, verdict>>

Jobs == DOMAIN job

\* The job has still to be given to a thread.
Waiting(g) == [pc |-> "waiting", graph |-> g, considered |-> {}, rewritings |-> 0]

\* possible_start_graphs, when the parallel loop begins.
StartJobs(base, classes, quota, strict) ==
    [C \in PossibleSets(classes, quota, strict) |->
        Waiting(NewGraph(base, base.partyCnt, base.T, C))]

\* Prover::prove(), for at most T corrupted parties, or Prover::prove(I), for
\* exactly I.
Init ==
    /\ protocol \in Protocols
    /\ \/ asked = [quota |-> Base[protocol].T, strict |-> FALSE]
       \/ \E I \in Exactly : asked = [quota |-> I, strict |-> TRUE]
    /\ job = StartJobs(Base[protocol], Classes[protocol], asked.quota, asked.strict)
    /\ verdict = "none"

-----------------------------------------------------------------------------
(***************************************************************************)
(* considered_graphs: graphs are compared by their hash and two counters.  *)
(*                                                                         *)
(* The hash of a graph mixes one number per node, the exclusive or of the  *)
(* hashes of the node's in-edges; the hash of an edge is made of the       *)
(* operator, the sum of the inputs' ids and the output.  Both are computed *)
(* in a "parallel" region without a work-sharing loop, so each thread of   *)
(* the team does the whole computation and the reduction combines the      *)
(* copies.  On one processor the loop over the jobs is not an active       *)
(* parallel region and the team has the 8 threads asked for; otherwise the *)
(* region is nested in an active one and the team is one thread.  The      *)
(* builder's edges are always made by a team of 8.                         *)
(***************************************************************************)
\* A mutant of HashTeam: nested parallel regions are active.
HashTeamOfEight == 8

HashTeam == IF Processors = 1 THEN 8 ELSE 1

EdgeHash(e) ==
    LET team == IF e.born = 0 THEN 8 ELSE HashTeam
    IN <<e.op, team * MapThenSumSet(LAMBDA i : e.ins[i], DOMAIN e.ins), e.out>>

\* The exclusive or of equal numbers an even number of times is 0.
NodeHash(g, n) ==
    LET hashes == {EdgeHash(e) : e \in g.inE[n]}
        copies(h) == HashTeam * Cardinality({e \in g.inE[n] : EdgeHash(e) = h})
    IN {h \in hashes : copies(h) % 2 = 1}

\* What operator== and Hash let considered_graphs see of a graph.
Seen(g) == [hash |-> [n \in Ids(g) |-> NodeHash(g, n)], rnd |-> g.rnd, bub |-> g.bub]

-----------------------------------------------------------------------------
(* The choice of the next graph.                                           *)

Rewritten(g, p) == AddEdges(EliminateEdges(g, p.del), p.add)

\* What apply returns: the graphs of its plans that pass the filter, with their
\* potential.
Results(g, r, born) ==
    LET result(p) == LET h == Rewritten(g, p)
                     IN [node |-> p.node, alt |-> p.alt, graph |-> h, rank |-> Potential(h)]
    IN {res \in {result(p) : p \in Plans(g, r, born)} : res.graph.rnd = g.rnd}

\* The order in which apply lists them; it lists the results of two additions
\* with the same output in the order of the output's list of in-edges.
Precedes(p, q) == p.node < q.node \/ (p.node = q.node /\ p.alt < q.alt)

\* A mutant of Chosen: only additions are tried.
ChosenAddition(g, considered, born) ==
    LET better == {res \in Results(g, 1, born) : Less(res.rank, Potential(g))}
    IN IF better = {} THEN g
       ELSE (CHOOSE p \in better : \A q \in better : ~Precedes(q, p)).graph

\* min_new_g after the loop over the rewriters, g itself if nothing was found.
\* A rewriter's loop over its results is left as soon as one is taken.
Chosen(g, considered, born) ==
    LET start == [graph |-> g, rank |-> Potential(g)]
        turn(best, r) ==
            LET better == {res \in Results(g, r, born) : /\ Less(res.rank, best.rank)
                                                         /\ Seen(res.graph) \notin considered}
            IN IF better = {} THEN best
               ELSE CHOOSE p \in better : \A q \in better : ~Precedes(q, p)
    IN turn(turn(turn(turn(turn(start, 1), 2), 3), 4), 5).graph

-----------------------------------------------------------------------------
(* The steps of one job.                                                   *)

Running(C) == job[C].pc \in {"search", "tail"}

\* A thread of the parallel loop takes the job.
Start(C) ==
    /\ job[C].pc = "waiting"
    /\ Cardinality({D \in Jobs : Running(D)}) < Processors
    /\ job' = [job EXCEPT ![C].pc = "search"]
    /\ UNCHANGED <<protocol, asked, verdict>>

AssertsHold(C) ==
    \A r \in Rewriter : AssertionsHold(job[C].graph, r, job[C].rewritings + 1)

Next1(C) == Chosen(job[C].graph, job[C].considered, job[C].rewritings + 1)

\* A failing assertion ends the whole program.
Abort(C) ==
    /\ job[C].pc = "search" /\ HasBubble(job[C].graph)
    /\ ~AssertsHold(C)
    /\ verdict' = "aborted"
    /\ UNCHANGED <<protocol, asked, job>>

Rewrite(C) ==
    /\ job[C].pc = "search" /\ HasBubble(job[C].graph)
    /\ AssertsHold(C)
    /\ \E next \in {Next1(C)} \ {job[C].graph} :
          job' = [job EXCEPT ![C] = [pc |-> "search", graph |-> next,
                                     considered |-> @.considered \cup {Seen(next)},
                                     rewritings |-> @.rewritings + 1]]
    /\ UNCHANGED <<protocol, asked, verdict>>

StopSearch(C) ==
    /\ job[C].pc = "search"
    /\ HasBubble(job[C].graph) => AssertsHold(C) /\ Next1(C) = job[C].graph
    /\ job' = [job EXCEPT ![C].pc = "tail"]
    /\ UNCHANGED <<protocol, asked, verdict>>

EliminateTail(C) ==
    /\ job[C].pc = "tail"
    /\ \E n \in Tails(job[C].graph) :
          /\ \A m \in Tails(job[C].graph) : n <= m
          /\ job' = [job EXCEPT ![C].graph = EliminateNode(@, n)]
    /\ UNCHANGED <<protocol, asked, verdict>>

\* A mutant of Finish: a graph with bubbles is searched once more.
FinishAgain(C) ==
    /\ job[C].pc = "tail"
    /\ Tails(job[C].graph) = {}
    /\ job' = [job EXCEPT ![C].pc = IF HasBubble(job[C].graph) THEN "search" ELSE "done"]
    /\ UNCHANGED <<protocol, asked, verdict>>

Finish(C) ==
    /\ job[C].pc = "tail"
    /\ Tails(job[C].graph) = {}
    /\ job' = [job EXCEPT ![C].pc = "done"]
    /\ UNCHANGED <<protocol, asked, verdict>>

\* The end of the parallel loop: the reduction of "proved".
Join ==
    /\ \A C \in Jobs : job[C].pc = "done"
    /\ verdict' = IF \E C \in Jobs : HasBubble(job[C].graph) THEN "unknown" ELSE "proved"
    /\ UNCHANGED <<protocol, asked, job>>

JobStep(C) ==
    Start(C) \/ Abort(C) \/ Rewrite(C) \/ StopSearch(C) \/ EliminateTail(C) \/ Finish(C)

\* The process has ended.
Ended == verdict # "none" /\ UNCHANGED vars

Next ==
    \/ verdict = "none" /\ (Join \/ \E C \in Jobs : JobStep(C))
    \/ Ended

(***************************************************************************)
(* The threads of the process run until there is a verdict.  This is       *)
(* WF_vars(Next), stated without ENABLED Next, which TLC takes too long to *)
(* evaluate: as long as there is no verdict a step is possible (TLC checks *)
(* for deadlocks), and every step but Ended changes the state.             *)
(***************************************************************************)
Fairness == []<>(verdict # "none") \/ []<><<TRUE>>_vars

Spec == Init /\ [][Next]_vars /\ Fairness

-----------------------------------------------------------------------------
(* Properties.                                                             *)

\* Type invariant.
TypeOK ==
    /\ protocol \in Protocols
    /\ verdict \in {"none", "proved", "unknown", "aborted"}
    /\ \A C \in Jobs :
          /\ C \subseteq 1 .. Base[protocol].partyCnt
          /\ job[C].pc \in {"waiting", "search", "tail", "done"}
          /\ Typed(job[C].graph) /\ job[C].graph.corrupted = C
          /\ job[C].rewritings \in Nat

\* "produces YES/UNKNOWN in a push-button style" (README.md:7): every run of the
\* prover comes to an end.
Terminates == <>(verdict # "none")

\* ... and to one of these two answers, not to a failing assertion.
AnswersYesOrUnknown == verdict # "aborted"

\* A node that has as many users as a secret that is dealt, with as many
\* operands each, but is not, or not only, dealt.
LooksDealt(g) ==
    \E s \in Live(g) : /\ OutDeg(g, s) = g.partyCnt
                        /\ \A e \in Users(g, s) : Len(e.ins) = g.T + 1
                        /\ \E f \in Users(g, s) : f.op # "EVAL"

\* The assertions in the rewriters (transformer.hpp:185, 219, 420, 422) rely on
\* T or T + 1 source parties, and on isRewritableSecret.  A search fails one
\* only in the two cases where these let it down: more than T corrupted
\* parties, whom tryProving tops up to all parties (prover.hpp:84-89), or a
\* node that is taken for a dealt secret.
AbortsExplained ==
    verdict = "aborted" =>
        \/ asked.quota > Base[protocol].T
        \/ \E C \in Jobs : job[C].pc = "search" /\ LooksDealt(job[C].graph)

\* The results of all rewriters that lower the potential of a graph.
Improvements(g, born) ==
    {res \in UNION {Results(g, r, born) : r \in Rewriter} : Less(res.rank, Potential(g))}

\* The search gives up on a graph with bubbles only when no rewriter can lower
\* the potential any more: a graph accepted earlier has a higher potential, so
\* considered_graphs should never stand in the way (prover.hpp:124).
StopsOnlyWhenStuck ==
    \A C \in Jobs :
        job[C].pc = "search" /\ HasBubble(job[C].graph) /\ AssertsHold(C)
          => (Next1(C) = job[C].graph
                <=> Improvements(job[C].graph, job[C].rewritings + 1) = {})

\* "eliminating tail nodes won't make difference to the equivalent rewriting"
\* (prover.hpp:147): after the tail nodes are gone, the search would still have
\* nothing to do.
TailsMakeNoDifference ==
    \A C \in Jobs :
        job[C].pc = "done" /\ HasBubble(job[C].graph)
          => Improvements(job[C].graph, job[C].rewritings + 1) = {}

\* Tail elimination keeps every node a corrupted party's nodes are computed
\* from, with all its in-edges ...
TailsKeepTheView ==
    [][\A C \in Jobs : job[C].pc = "tail" =>
          /\ ReachCorrupted(job'[C].graph) = ReachCorrupted(job[C].graph)
          /\ \A n \in ReachCorrupted(job[C].graph) :
                job'[C].graph.inE[n] = job[C].graph.inE[n]]_vars

\* ... and when it ends nothing else is left.
OnlyTheViewIsLeft ==
    \A C \in Jobs :
        job[C].pc = "done" => Live(job[C].graph) = ReachCorrupted(job[C].graph)

\* Each job is a guided search, whatever the other jobs do.  (An assertion
\* that fails ends all jobs where they are.)
Job(C) == INSTANCE GuidedSearch WITH
    Randomness <- ShapeRandomness,
    Rank <- ShapePotential,
    Lower <- Less,
    phase <- IF job[C].pc = "waiting" THEN "search" ELSE job[C].pc,
    graph <- Shape(job[C].graph),
    answer <- IF job[C].pc # "done" THEN "none"
              ELSE IF HasBubble(job[C].graph) THEN "unknown" ELSE "yes"

\* What rewritings with the filter of transformer.hpp:144 and the comparison of
\* prover.hpp:123 do to a graph is the same in every job and in any strategy:
\* randomness kept, potential lowered, lists consistent, the answer right.
JobsAreGuidedSearches ==
    /\ \A C \in Jobs : Job(C)!Init
    /\ [][\A C \in Jobs : [Job(C)!Next]_(Job(C)!vars)]_vars
=============================================================================
