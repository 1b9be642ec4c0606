# TLA+ verification of GAuV

GAuV verifies the perfect security of multiparty computation protocols. A C++ program
describes a protocol with the library's expressions; the library records a dataflow graph;
for every set of corrupted parties the prover rewrites that graph, step by step and
equivalently, until no input or output of an honest party is left. If it succeeds for every
set, the verdict is "Proved" (YES), otherwise unknown.

The prover is the trusted core: a rewriting that is not equivalent, a counter that is off by
one, or a corrupted set that is never considered, and an insecure protocol is called secure.
This project models the way from a program's variables to the verdict, and the library that
executes protocols. It proves, for every value of the constants, the consistency of the prover's data structure, that every
search does what its abstract specification says, that no corrupted set is left out, that programs
of the front end never trip the library's checks, that the graph built of a program is one the search is proved to work with
and has the program's randomness exactly once, that every variable is a Shamir sharing of what the program means and every output opens it, that registered parties run the execution library without failure, and that what they return is a sharing.
Paths below such as `backend/graph.hpp` are relative to `src/src`.

## 1. Inventory of the system

| Component | State | Operations | Module |
|---|---|---|---|
| Dataflow graph (`backend/graph.hpp`, `node.hpp`, `operation.hpp`) | persistent `nodes`, `inEdgesOf`, `outEdgesOf`, the counters `randomNodeCnt`, `bubbleCnt`, the hash, the corrupted set | `eliminateEdge(s)`, `addEdge(s)`, `eliminateNode`, `potential` | `MpcGraph` |
| Equivalent rewriters (`backend/transformer.hpp`) | none; a threshold and a set of source parties | `apply` of the addition, sharing, random-sharing and reconstruction transformers | `Transformers`, `Rewriting` |
| Prover search (`backend/prover.hpp`) | per job: current graph, `considered_graphs`; shared: the results | `prove`, `try_all_possibilities`, `tryProving` | `Prover`; both searches implement `GuidedSearch` |
| Corrupted sets (`backend/prover.hpp`) | the recursion's arguments, `possible_start_graphs` | `search_all_possibilities` | `CorruptedSets`, `CorruptionSearch` |
| Graph builder (`backend/graph_builder.hpp`) | node and edge lists, a *static* map from expressions to nodes | `importFrontend`, `build` | `Builder`, `Frontend`; instances in `Protocols` |
| BGW front end (`bgwfrontend/`) | the shares of every variable | constructors, `+`, `*`, assignments, `yield` | `Variables`, `Frontend` |
| Protocol expressions (`mpcgraph/`) | registries of parties, shares and expressions by name | constructors, operators, `transfer`, `reconstruct`, `gen_poly`, `eval` | `Expressions` |
| Execution library (`mpclib/`, README.md:79: "unfinished") | the singleton context with a queue per pair of parties; each party's pointer to it; field elements | `register_parties`, `send`, `receive`, field, share and bundle arithmetic, `poly::eval`, `protocol` | `Field`, `MessageQueues`, `Execution` |
| Examples and tests (`example/`, `test/`) | – | programs: they compute, build and prove, or run a protocol | `Pipeline` (the scalability benchmark), `Execution` (`test_protocol.cpp`) |
| immer, spdlog (`external/`) | – | vendored | not modelled |

How they interact: the front end creates expressions, which register in the context; the builder
walks from the outputs back and turns expressions into nodes and edges with consecutive ids;
`Prover` takes the base graph, makes one `Graph` per corrupted set, and runs `tryProving` on
each of them in an OpenMP parallel loop; `tryProving` calls the five transformers, which call
the graph's manipulations. Nodes and edges are shared by pointer between all graphs; graphs
themselves are persistent values, so the jobs do not disturb each other. All they combine is
the reduction of their results. The execution library stands by itself: nothing under `backend` uses it.

What is hard here, and what makes it correct:

* **Graph.** Two adjacency lists updated by separate loops, two counters never recounted,
  nodes that are replaced by `nullptr` and lists that `eliminateNode` only partly cleans. Correct: the
  lists agree and the counters are exact in *every* intermediate graph.
* **Rewriters.** The justification of a rewriting is a count: the number of random nodes is the
  same before and after. Correct: each rewriting keeps every edge true, and the nodes that count as random stay
  independent, after *any* sequence of earlier rewritings.
* **Search.** Greedy, with a cache of hashes without equality check, hashes computed in an OpenMP
  region, assertions live in every build. Correct: it ends, answers, gives up only when stuck, and a "Proved" is right.
* **Front end and builder.** A product is a dozen shares per party that must all be with the right party and carry
  the right weight; the builder is a recursion with a static map, and makes operations once that are used often. Correct:
  every variable is a Shamir sharing of what the program means, and the graph has the program's values and its randomness, no
  more and no less.
* **The composition.** The rewriters recognise sharings and products by how the builder lays them out, and the patterns
  do not look at everything. Correct: a BGW program is proved, and a program that is proved is private.
* **Execution library.** The context outlives parties and failed runs; registration fails half-way; subtraction wraps.
  Correct: messages arrive once and in order, a run among registered parties returns, and returns a sharing, unless an earlier
  run has left shares behind.
* **Corrupted sets.** Unsigned arithmetic and an early exit in a recursion over classes. Correct:
  every corrupted set is covered, none twice.

`PROJECT.json` lists the hazards line by line, the ones no property covers yet with the reason.

## 2. The modules

`MpcGraph` — a graph is a record `[nodes, inE, outE, partyCnt, T, corrupted, rnd, bub]`, a node
a record `[party, type]`, an `Operation` a record `[op, ins, out, born]`. The code compares
operations by address; `born`, the number of the rewriting that allocated it, plays the address' part.
`nullptr` in `nodes` is `NullNode`. Every manipulation is an operator from graphs to graphs,
as in the code (`Graph::eliminateEdge` is `EliminateEdge`, and so on). A list of edges is a set:
the code never observes its order, and the one place where multiplicity counts, a node that is
used twice by one edge, is in `OutDeg`. `rnd` and `bub` are updated by the same increments as in
the code, not recomputed. `Potential` is the ranking function, with `Less` the order of tuples.

`Transformers` — the patterns of the five rewriters and, for every match, a *plan*: the edges to
eliminate, the edges to add, and whether the assertions of `apply` hold. `Plans(g, r, born)` is
rewriter `r` as `tryProving` configures it: additions, sharings with T source parties, random
sharings with T+1, reconstructions with T, reconstructions with T+1.

`Rewriting` — the machine of one job, taken apart: matching, every iteration of the two edge
loops, the filter, the acceptance, tail elimination. Which plan is tried and whether a good
result is taken is left open. Everything it shows therefore holds for every search strategy, in
particular for the code's.

`Prover` — the whole prover with the code's own strategy: a job per corrupted set, at most
`Processors` of them running; rewriters in their order; the results of one rewriter in theirs; the
first result better than the best so far ends the loop over a rewriter's results; `considered_graphs` compares what
`Hash` and `operator==` see. One accepted rewriting is one step.

`GuidedSearch` — the abstract specification of one search. It has a graph without counters and without the places of
eliminated nodes, and says: a rewriting keeps the nodes and the amount of randomness, lowers a rank and leaves a well-formed
graph; then unused honest nodes go one by one, and the others stay computed as they are; the answer is "yes" if no bubble is
left. Randomness, rank and order are parameters. `Rewriting` implements it (`ImplementsGuidedSearch`, a refinement in
which the edge-by-edge steps are stutters), and so does every job of `Prover`, with all jobs interleaved
(`JobsAreGuidedSearches`). `MpcGraph!Shape` is the mapping of graphs.

`CorruptedSets` — `search_all_possibilities` as a pure function, used by `Prover`;
`CorruptionSearch` — the same recursion as a machine with a stack of calls.

`Meaning`, `LinearAlgebra` — what a graph says. In a protocol without products of shares every
node holds a linear combination of the inputs and the random values: a vector over a prime field.
An edge is *true* if the vectors satisfy it. `Secure` is perfect privacy, in its linear-algebra form: given its
own inputs and outputs, the corrupted parties' view is independent of everybody else's inputs.
`RewritingMeaning` and `ProverMeaning` join it to the two machines.

`Protocols` — the instances: seventeen small protocols as lists of nodes in the order of the
builder, checked against graphs dumped from the program itself. They are sharing, addition,
doubling, reuse of a share, scaling, relaying, a degree-0 sharing, opening of random values, and masked outputs.

`Expressions` — the `mpcgraph` library: a context is a record of the expressions made so far, in order, and the registered
names; an expression refers to others by position, as the code does by address. Every operation takes a context and returns
the context after it, with the expressions made, or the context with `thrown` set.

`Variables` — the BGW front end. A `Variable` is its vector of shares; the operators are the loops of
`variable.hpp` one by one. Beside the shares is what the program means: `terms`, the terms it has formed of inputs and older
terms, and `stands`, the term each variable stands for. No guard reads them.

`Builder`, `Frontend` — `importFrontend` and `build`. `Builder` has the cases of the switch as operators on the state of a
builder; `Frontend` composes them with `Variables`: first the program's operations, then builds, with the recursion as a
machine with a stack of calls. The code pushes an operation to the out-list of an operand right after importing that operand and
the model when the node is made; nobody reads the out-lists in between. The map survives from one build to the next.

`FrontendMeaning` — evaluates expressions over a prime field, on samples of the inputs and coefficients. The values are kept in a
variable of their own, computed once per expression; `Meant` are the values of the terms. (`Meaning` has vectors of unknowns instead of samples, but no
products; this one has products.)

`Pipeline` — a whole program, as under `example/`: its calls on variables (`Perform`), `build()` (`Build`), the start
graphs (`Prove`), the jobs and the verdict (`Search`). It has no definitions of its own for these: it composes the machines
of `Frontend` and `Prover`, and hands the built graph over. `TestScalable(ops)` is the benchmark
`example/bgw/test_scalable.cpp` with the operations that `rand_op` draws. Besides the front end's operations, a program may multiply
shares itself (`MulLocally`) or send a share by way of another party (`Relay`).

`PipelineMeaning` — perfect privacy in its definition with probabilities, which products need: for any two assignments of secrets
that a corrupted set cannot tell apart by its own inputs and its outputs, what it sees has the same distribution. TLC enumerates
the random values and compares the frequencies.

`Shamir` — Shamir's sharing as mathematics: polynomials over a prime field, what it is to be a sharing, Lagrange weights and the value
at 0 that they put together. It belongs to no code; `FrontendMeaning`, `Execution` and `LinearAlgebra` state what the code computes in its terms.

`Field` — field elements and polynomials of `mpclib`. Arithmetic is on words (`% Word`) before it is reduced (`% Base`).

`MessageQueues` — `_msgs` of `mpc_context` as a function from receivers to functions from senders to queues; operators from maps to
maps, as for graphs.

`Execution` — a program that uses `mpclib`: it registers sets of parties, runs the protocol of `test/mpclib/test_protocol.cpp`
(every party deals a sharing of 0, every party adds up what it gets), combines the bundles it gets back, and may let a
party go out of scope and declare it again. `run.todo` is the list of sends and receives the lambda has still to make; each is one
step and may throw. The singleton context survives everything. Four history variables (what was sent and received, which sets were
registered completely, which calls have thrown) are read by the properties only.

`MCRewriting`, `MCProver`, `MCFrontend`, `MCExecution`, `MCPipeline` give the constants their values.

The proofs: `TransformersProofs` has the lemmas about the manipulations of graphs and about plans, `CountingProofs` those about least elements, sizes of
sets, remainders, recursive functions and sums; `RewritingProofs` and `ProverProofs` are built on them, for the search taken apart with its refinement, and for the whole
prover. `CorruptionProofs` and `ExecutionProofs` count and compute too. `BuilderProofs`, about the graphs, is built on `FrontendProofs`, about the expressions.

Definitions marked "A mutant of ..." stand before the definition they vary. No specification uses them; each is a
plausible mistake in the code that the named property detects.

## 3. The runs

| Run | Module, cfg | States | Question |
|---|---|---|---|
| `graph` | `MCRewriting`, `MCGraph.cfg` | 16 k | any order of rewritings, two and three parties: lists, counters, edges, random nodes, verdict, refinement of `GuidedSearch` |
| `prover` | `MCProver`, `MCProver.cfg` | 6 k | the code's strategy, jobs on two processors, `prove()` and `prove(I)`: answers, termination, tails, soundness, refinement |
| `corruption` | `CorruptionSearch`, `MCCorruption.cfg` | 16 k | every division of 4 parties into classes, every quota, both modes |
| `frontend` | `MCFrontend`, `MCFrontend.cfg` | 286 k | every program of four operations, and its graph |
| `execution` | `MCExecution`, `MCExecution.cfg` | 55 k | every program of five calls of the execution library, with its failures |
| `pipeline` | `MCPipeline`, `MCPipeline.cfg` | 3.6 k | thirty programs from variables to verdict: are BGW programs proved, and is what is proved private? |
| `local_product` | `MCPipeline`, `MCLocalProduct.cfg` | violation | finding 6 |
| `stale_variable` | `MCFrontend`, `MCStaleVariable.cfg` | violation | finding 4 |
| `rebuild` | `MCFrontend`, `MCRebuild.cfg` | violation | finding 5 |
| `abort` | `MCProver`, `MCAbort.cfg` | violation | finding 1 |
| `soundness` | `MCProver`, `MCSoundness.cfg` | violation | finding 2 |
| `one_processor` | `MCProver`, `MCOneProcessor.cfg` | violation | finding 3 |

Properties:

* `TypeOK` — one per machine. In `CorruptionSearch` it includes that the unsigned quota never wraps.
* `ListsSynced`, `CountersExact` — the two adjacency lists agree, and the counters equal a
  recount, between any two iterations of the edge loops. During tail elimination `randomNodeCnt` is allowed
  to be too large: `eliminateNode` passes it on unchanged, and nobody reads it any more.
* `VerdictReadsGraph` — at the end the counter says "no bubble" exactly when there is none.
* `EdgesStayTrue`, `RandomNodesStayIndependent` — the two halves of "equivalent".
* `ProvedMeansSecure` — a verdict "Proved" is right.
* `StopsOnlyWhenStuck` — the cache of considered graphs never stands in the way.
* `TailsMakeNoDifference`, `TailsKeepTheView`, `OnlyTheViewIsLeft` — the comment that allows tail
  elimination to be moved behind the search: it takes exactly what the corrupted nodes are not computed from,
  and no improvement appears afterwards.
* `AbortsExplained` — an assertion fails for two causes only: more than T corrupted parties are asked for, or a node has the users
  of a dealt secret without being one (finding 1).
* `ImplementsGuidedSearch`, `JobsAreGuidedSearches` — the refinements of `GuidedSearch`.
* `Terminates` — every run of the prover gets to a verdict.
* `EveryCorruptionCovered`, `NothingConsideredTwice` — the recursion over classes.
* `NamesUnique` — the names the library makes up for shares never collide with each other.
* `NeverThrows` — no operation on variables trips the checks of the expressions it makes.
* `SharingsHold` — a variable is a Shamir sharing: the i-th share is with party i, and any T + 1 shares give the value
  the program means, after sums, scalings, copies and products. `OutputsOpen` — so do the opened outputs.
* `BuiltGraphFits` — the graph satisfies what the proofs about the rewriters assume of it (`BaseAssumption` of
  `Rewriting`: well typed, synchronised lists, no missing node, two inputs of ADD, one of TRANSIT), its ids are in the order of
  computation, an evaluation uses different coefficients, and a reconstruction opens as many shares as there are parties, all at one party.
* `EveryRandomnessOnce` — T random nodes per polynomial however many shares it is evaluated to.
* `GraphHoldsProgram` — every edge of the graph is true of the program's values.
* `BgwIsProved` — a program that uses the front end only is proved for every corrupted set, stale variables or not.
  `ProvedMeansPrivate` — a program that is proved is perfectly private.
* `QueuesAreFifo` — what a party has got is a prefix of what was sent to it, and the queue holds the rest, in spite of the copy from a
  popped message (`mpclib/context.hpp:83`). `LeftoversFromFailures` — only a run that has thrown leaves messages behind.
  `ChannelsBothWays` — unless a registration has failed half-way, whoever can reach can be reached.
* `BundlesShareZero` — a run that found its channels empty returns a sharing of 0; so are sums of two such bundles, and products,
  of twice the degree. `DifferencesWrap` — differences are, exactly when no subtraction has wrapped in 64 bits: a limit of the code,
  stated as it is, for no document promises subtraction.
* `RegisteredRunsReturn` — a run among parties that one call has registered and that are still there never throws.
  `EveryRunEnds` — every run returns or throws.

### Why these instances

* Two or three parties, threshold 1: the smallest sizes at which a source party, a threshold party plus
  one and (with three) a party that is neither exist. With two parties there are two jobs, so that the
  jobs interleave; with three parties and two processors, a job waits for another to end. `prover` also asks for exactly 2
  corrupted parties, more than T, and for exactly 4, more than there are.
* Protocols of 9 to 30 nodes. In "mixed" and "doublemask" addition rewritings are accepted by
  the search (an addend has to become a random node); in "doublemask" they may make an accepted
  graph cyclic; "relayed" has TRANSIT chains; "double" uses a node twice in one edge; "lowdegree" must be refused by `isRewritableSecret`; "tripled" has the longest
  sequence of rewritings; "random", "mixed", "masktwice" and "doublemask" have outputs that depend on randomness.
* The field has five elements, `MCFieldSize`: a prime above the number of parties, so that shares have distinct
  non-zero evaluation points. The constant of SCALARMUL is 2, neither 0 nor 1.
* `Unsigned` has 16 bits instead of 32: a wrap is a wrap, and values of a small quota never get near either.
  `MaxQuota` is 5, one more than the number of parties.
* `RandomNodesStayIndependent` is claimed of protocols whose outputs the inputs determine only. On the others it is
  false after one rewriting that makes an output a source: the output still depends on random nodes, and it counts
  neither as random nor as computed from them. In "random", "masktwice" and "doublemask" the shortest trace to such a state is a
  reconstruction, in "mixed" an addition. It is the first half of finding 2, whose second half is the equation that tail elimination drops.
  Soundness is checked on all of them; "masked", the protocol of finding 2, is left to the run `soundness`.
* `frontend`: three parties and threshold 1, the smallest case with N = 2T + 1, which products need. Two variables
  and four operations reach a product that is opened, a product of a product, a sum of a variable with itself, and two outputs
  that share subexpressions. The field has seven elements. The two samples are enough to tell wrong sharings from right
  ones: each property's mutant is found on them. Which variable is which makes no difference, so they are symmetric. In this
  run a variable that has shares is not assigned an expression (`Reassigned`), no output has a given name (`GivenNames`), and there
  is one build (`MaxBuilds`): `stale_variable` and `rebuild` lift one restriction each.
* `execution`: three parties at different points of a field of five elements, polynomials of degree 1, with two choices of
  coefficients. `Word` is 64: like 2^64 modulo 31, the base of the test, it is not 0 modulo the base, so a wrap shows. Five calls
  (`MaxCalls`) suffice for a registration that fails after another one, a run that throws after it has sent, a run that meets
  its leftovers, and a combination of two bundles.
* `pipeline`: three parties and T = 1. The programs are sums and products of two secrets opened to one or all parties, a secret
  whose share travels by way of each party, rounds of the benchmark with every short sequence of operations, and the square of a
  secret opened to its owner. `ProvedMeansPrivate` enumerates a field of five elements, three values of every secret
  (`InputValues`), and programs with up to four random values (`MaxRandomness`): all but those with two products or with one product of
  two different secrets. Of the latter, which has five, one program takes TLC four and a half minutes; it was checked by hand, and holds.
  `BgwIsProved` is checked on all of them.
* `CHECK_DEADLOCK FALSE` is said for `Rewriting`, `CorruptionSearch`, `Frontend`, `Execution` and `Pipeline`, which stop when they
  are done (or when an assertion has failed, or the bound of calls is reached). `Prover` is checked for deadlocks: it stutters only after a verdict.

### Fairness

`Prover`: the threads of the process keep running until there is a verdict. It is weak
fairness of `Next`, written without ENABLED: infinitely many steps change the state, or there is a verdict. Nothing is assumed about
*which* job or action gets its turn, so termination rests on the code's own argument, the falling potential,
and not on the scheduler.

`Execution`: weak fairness of `Step`, the sends, receives and the return of a run that has begun. The library is single-threaded
("NOT thread-safe!", `mpclib/context.hpp:14`) and nothing in it waits, so a run that has begun is carried on by the thread that began it. Whether
the program makes another call is left open.

## 4. What is proved

TLAPS checks, for every value of the constants:

| Module | Theorem | Statement |
|---|---|---|
| `RewritingProofs` | `TypeCorrect`, `ListsAlwaysSynced`, `CountersAlwaysExact` | `Spec => []TypeOK`, `[]ListsSynced`, `[]CountersExact`: between any two edge operations of any search |
| | `VerdictAlwaysReadsGraph` | `Spec => []VerdictReadsGraph` |
| | `RewritingIsGuidedSearch` | `Spec => ImplementsGuidedSearch`: the detailed search implements the abstract one |
| `ProverProofs` | `EveryJobIsGuidedSearch` | `Spec => JobsAreGuidedSearches`: so does every job of the prover, with the code's strategy, all jobs interleaved |
| | `TailsAlwaysKeepTheView` | `Spec => TailsKeepTheView`: no tail elimination touches what the view is computed from |
| | `JobsTyped` | `Spec => []TypeOK` |
| | `AbortsAlwaysExplained` | `Spec => []AbortsExplained`: the assertions of the rewriters fail for the two known causes only |
| | `OnlyCyclesAreLeft`, `OnlyTheViewIsLeftWithoutCycles` | `Spec => []LeftoversFeedLeftovers`, `[](NoCycleOutsideTheView => OnlyTheViewIsLeft)` |
| | `EarlyStopsAreCollisions`, `StopsOnlyWhenStuckWithoutCollisions` | `Spec => []MissesOnlyCollisions`, `[](NoCollisions => StopsOnlyWhenStuck)` |
| | `SearchesStayShort` | `Spec => []SearchesAreShort`: a search of N nodes makes fewer than (N + 1)(N + 1)(N N + 1) rewritings |
| `CorruptionProofs` | `EveryOneCovered`, `NoneTwice` | `Spec => []EveryCorruptionCovered`, `[]NothingConsideredTwice` |
| | `QuotaNeverWraps` | `Spec => []TypeOK` |
| `ExecutionProofs` | `RegisteredRunsDoNotThrow` | `Spec => RegisteredRunsReturn` |
| | `Fifo`, `OnlyFailuresLeave`, `BothWays`, `SharesTyped` | `Spec => []QueuesAreFifo`, `[]LeftoversFromFailures`, `[]ChannelsBothWays`, `[]TypeOK` |
| | `RunsShareZero` | `Spec => []BundlesShareZero`, where products of two elements fit into a word |
| | `DifferencesThatDoNotWrap` | the half of `DifferencesWrap` that holds in general: a difference without a wrap is a sharing of 0 |
| | `EvalIsPolynomial` | `poly::eval` computes the polynomial in its comment, of any degree |
| `FrontendProofs` | `OperationsNeverThrow` | `Spec => []NeverThrows`, for programs that assign every variable once |
| | `ShareNamesUnique` | `Spec => []NamesUnique`, if they give no names of their own either |
| | `FrontendTypeOK` | `Spec => []TypeOK`, for programs that assign every variable once |
| | `VariablesStayShared`, `OutputsAreWhatWasMeant` | `MeaningSpec => []SharingsHold`, `[]OutputsOpen`, for the same programs with N >= 2T + 1 |
| `CountingProofs` | `Interpolation` | more values of a polynomial than its degree, weighted, give its value at 0, in any prime field |
| `BuilderProofs` | `GraphsFit` | `Spec => []BuiltGraphFits`, for the same programs, through any number of builds |
| | `BuiltForTheSearch` | every graph that `build()` returns satisfies what `ProverAssumption` and `BaseAssumption` ask of `Base[p]`, and `LayoutAssumption` |
| | `RandomnessOnce` | `Spec => [](Len(built) <= 1 => EveryRandomnessOnce)` |
| | `GraphsComputeTheProgram` | `MeaningSpec => []GraphHoldsProgram`, through any number of builds, for any N and T < N |

### Assumptions

TLC evaluates each of them on the instances of the runs.

* `BaseAssumption`, `ProverAssumption`: the graph the builder hands over is well typed, its lists are finite and agree, no node is missing,
  TRANSIT edges have one and ADD edges two inputs (`HandedOver`; `BuiltForTheSearch` proves it of every graph the builder makes of a front-end program).
  `Rewriting` also needs T to be below the number of parties, which the code asserts; `Prover` needs the caller's classes to
  be sets of parties.
* `LayoutAssumption`, which only `AbortsAlwaysExplained` uses: T is below the number of parties (`transformer.hpp:39` asserts it), every node is some
  party's, no EVAL edge uses a node twice, and a RECONSTRUCT edge has as many inputs as there are parties, all at one party (`LaidOut`).
  `BuiltForTheSearch` proves all of it of the built graphs.
* `CorruptionAssumption`: finitely many parties, and a quota that an `unsigned` can hold (`UnsignedMax`; the type of the argument).
* `FrontendAssumption`, `BuildAssumption`: a party or more, a threshold below their number (the code asserts that too), inputs of some party.
  The theorems of `FrontendProofs` and `BuilderProofs` also suppose `~Reassigned`: no variable that has shares is assigned an expression. With a stale variable (finding 4)
  the vectors of shares grow, and the invariant, a share of every party, is false. `ShareNamesUnique` supposes `GivenNames = {}`: a name given to
  `yield` may be one the library makes up later (section 6).
* `MeaningAssumption`, for the theorems about `MeaningSpec`: every number below `FieldSize` but 0 has an inverse and the
  parties are numbers below it, so that their points differ and are not 0. `VariablesStayShared` and `OutputsAreWhatWasMeant` also suppose
  `EnoughParties` (N >= 2T + 1, which products need and nothing checks), and all three `SamplesInField` (inputs are field elements, coefficients numbers). What a
  sample is is otherwise open, so the theorems hold for all inputs and all random choices.
* `ExecutionAssumption`: what a program of `mpclib` fixes at compile time: the base, the degree, the parties' points. Nothing is assumed about what the
  program does: it may register overlapping sets, run before registering, and redeclare parties at any time. `RunsShareZero`, `DifferencesThatDoNotWrap`
and `EvalIsPolynomial` suppose `ProductsFit`, that the product of two reduced elements is below 2^64: `field::operator*` multiplies before it reduces. The
test's base is 31. Neither that the base is prime nor that the points differ is needed for them.

### The search (`RewritingProofs`)

None of the three invariants is inductive alone: decrementing a counter is right only if the edge
eliminated is really the last one in the in-list, and adding an edge keeps the lists synchronised
only if all its ends are alive. `Inv` adds

* `TodoInv`: the edges still to be eliminated are in the graph under construction; whatever has been added or
  eliminated before. This is why the loops may go in any order;
* `GraphInv`: before tail elimination no node has been eliminated, and TRANSIT and ADD edges keep
  their number of inputs, which the patterns read.

`TransformersProofs` begins with a lemma per manipulation and part (typing, synchronisation, counters).
`EliminateTailNode` is the interesting one: `eliminateNode` does not remove the edges that leave the node from the
out-lists of their other inputs, so it breaks the lists for a general node; the lemma needs that the node has no
users. It goes on to show that each of the five plans consists of finitely many edges of the graph and
well-formed new edges, for a node of the graph (`PlansFit`). `RewritingProofs` puts them together, one step per action.

The second half of the module is the refinement. Matching and the two edge loops are stutters of the abstract search, for they leave `graph`
alone. `Accept` is its `Rewrite`: the candidate has the nodes of the graph, the filter says that the counters of random nodes agree, and
`CountersExact` that they count what is there; well-formedness of the abstract graph is `ListsSynced` seen through `Shape`.
`EliminateTail` is `DropUnused`: that the other nodes keep their in-edges needs that an unused node has no out-edges, and
that the abstract graph stays well-formed needs the invariant again. `Finish` is `Answer`, for the counter of bubbles is exact too. A small invariant of its
own, `EditInv`, says that a candidate has the nodes of the graph it comes from and that there were bubbles when it was begun. So the
invariants are exactly what makes the counters and the partly cleaned lists invisible from outside.

### The whole prover (`ProverProofs`)

Here a rewriting is one step that runs both edge loops to the end, over sets of any size. `LoopEnds` and `LoopConsistent` go through the loop by a minimal
counterexample: of all the sets after which the graph is not consistent, take one of least size. (The library's induction
rules take an operator as a parameter, which no installed prover can instantiate; `Least`, that a nonempty set of naturals has a least
element, does the same work and is used wherever something recursive is reasoned about, mostly through `Inductive` and `Recursion`: a set of naturals that
has 0 and with every number the next has all of them, and a recursive function exists.) `ChosenImproves` says what the strategy adds: the graph it picks is
`g` itself, or one of the results of some rewriter for `g` with a potential below that of `g`: the five turns compare with the best
rank so far, so this needs that `Less` is transitive, which holds of the four numbers `Potential` returns.

The inductive invariant, `JobFits` for every job, has two regimes. Before tail elimination the graph is `Consistent`: typed,
synchronised, counters exact, no node missing, shapes kept. During and after it, only typing, synchronisation and the exact counter of bubbles are left,
and `rnd` is an upper bound, for `eliminateNode` passes it on. The refinement needs the invariant in both: `Rewrite` and `EliminateTail`
are the abstract steps by lemmas like those of `RewritingProofs` (`ShapeRecounted`, `HasBubbles`), and every other job stutters.

`TailsAlwaysKeepTheView` is about the rounds of the loop in `potential()`: after every number of rounds the nodes reached are the same with and
without the tail node (`TailNotReached`), again by a minimal counterexample; the heart is that a node without users is nobody's
source, which is `Synced`.

`AbortsAlwaysExplained` is about the four assertions, which compare lengths of lists that the rewriters have collected from different sides. That
they agree is a matter of counting:

* `SourceParties`: the parties that a rewriter picks are T of them, or T + 1 for a reconstruction. `tryProving` tops the corrupted parties up
  with the first others; that there are enough others needs `Cardinality(C) <= T`, hence the quota in the property.
* `DealtShares`, `DealtTargets`: a dealt secret has one share for every party (`Dealt` says so of its out-edges, and the users are as many as the parties),
  so the targets, the T coefficients, or the secret and the coefficients, plus the shares of the parties that were not picked, are exactly as many
  as the sources.
* `OpenedShares`: among the inputs of a reconstruction, which are as many as the parties and at one party, at most one did not come by a transit, so
  the shares found at the picked parties are as many as the rewriter counts on.
* `AssertionsKept` puts them together: on a consistent graph that is laid out, an assertion can fail only if `LooksDealt`, finding 1.

The invariant for it, `LayoutInv`, adds to `JobFits` that the graph of a job that still searches is `LaidOut` with the T and the number of parties of the protocol, which every
plan preserves (`PlansLaidOut`: a new EVAL edge uses the secret or a coefficient once and no source twice, and no plan makes a RECONSTRUCT edge), and
that no job has more corrupted parties than the quota, which is an invariant of the recursion over classes (`ExtendedWithin`).

Three more results say what the two properties that are not invariants by themselves depend on.

* What is left. When no tail remains, a live node outside the view has users (`Finished`), and its users are outside the view too, since the
  view is closed under sources (`ReachClosed`): what is left beyond the view feeds only what is left (`OnlyCyclesAreLeft`). Where the
  edges out there can be numbered downwards there is nothing of the kind, for the node of least number has no user. A cycle of
  honest nodes does stay; that is why `NoCycleOutsideTheView` is supposed and not proved.
* Giving up. `CacheInv` says that the cache holds what `Seen` keeps of the current graph and of graphs of higher potential, and nothing else. So a
  graph of lower potential that the cache turns down agrees with an earlier, different one (`Collides`), and has as many bubbles as the graph
  the search is at: the ranks compare bubbles first, and they are part of what is kept. Nothing in the code rules collisions out (the hash is an xor over nodes and
  edges), so `NoCollisions` is a condition.
* The length of a search. Every rewriting lowers a rank of four numbers, each bounded by the number of nodes, which rewritings keep. `LengthInv` bounds the
  rewritings made so far by the ranks above the current one.

### The recursion over classes (`CorruptionProofs`)

The machine has a stack of calls. The invariant says of every open call that it has spent what it has corrupted (`Spent`: the quota left and the parties taken add up to the
quota asked, and the parties taken are in classes behind the call), that any two calls and results differ in the size of their share of some class that is
behind both (`Apart`), and that every choice of sizes not yet among the results is still ahead of an open call.
`EveryCorruptionCovered`, about the end, needs the last part; that `corrupted_quota - i` never wraps follows from the first, and so does
that leaving the loop at `i == corrupted_quota` loses no set that was asked for.

### The execution library (`ExecutionProofs`)

That a receive finds its message is not a fact about queues alone: it follows from what the run has still to do. `Inv` therefore relates each queue to
the calls that remain in the lambda: a message of this run waits exactly if its receive remains and its send does not (`WaitInv`, `AgendaInv`), and
parties registered together stay reachable from each other (`GroupInv`). As long as no run has thrown, the queue holds nothing else. A registration that fails
half-way and a party that is declared again are steps like any other; the theorems say what survives them.

That what is returned is a sharing of 0 needs a second invariant, `SumInv`, which TLC confirmed on the instance of the run before it was proved. In a run that
found its channels empty, the queues hold the shares in transit and nothing else, each the value of its dealer's polynomial at the receiver's point
(`UndisturbedInv`), and what a party has added up is the value, at its own point, of the sum of the polynomials of those it has received from
(`DeltaInv`). When nothing remains to be received these are, for all parties, the same sum. That the parties add up in the same order does not matter: `AddedUp`
is a sum over a set (`Sums`, `SumsExist`).

Under it lies the algebra of polynomials. `Series` are polynomials over the integers, by the sums of their first terms; sums and products of series are
series (`SeriesLinear`, `SeriesProduct`, the latter by splitting off the lowest term), and coefficients may be reduced before or after (`SeriesReduced`).
`OperationsExact` says that the operations of `field` on words are those on integers followed by one reduction, unless a difference wraps, and
`EvalIsPolynomial` that the loop of `poly::eval` is a series. So bundles that are added or multiplied share the sum or the product
(`BundlesCombine`), of twice the degree for the product.

### Programs of the front end (`FrontendProofs`)

An operation of the front end is a loop over the parties, and inside it loops again: a product deals N sharings and adds them up. The invariant that
makes the checks pass goes through all of them. `Well` says of a context that every expression has the operands its operator asks for, older than itself
(`Fits`), and that the registered shares are numbered (`Named`); `Grown`, that nothing made earlier is changed. For every operation there is a lemma that says
that it leaves the context well and grown and *what it returns*: `Gives`, a share of that party and type, or `GivesVector`, one share of every party in
their order (`SharingGives`, `SumGives`, `ScaledGives`, `ProductGives`, `OpenedGives`). That the loops keep it is an induction over the parties, done with a
minimal counterexample once (`LoopKeeps`, `LoopExists`) and used by every loop.

The state invariant `Program` has one part that is not about shares: the constants. A product makes a constant for each party, named after `mulCounter` and
the party, and a name that is taken throws. `ConstantNames(mulCounter)` bounds the names so far, so that the next product's are new; it is what the mutant
`MulUncounted` breaks. `Building` says that builds come after the operations and that what importFrontend is called for are expressions there are.

What a variable is worth takes a second invariant, `MeaningInv`: with u the values of the expressions, the shares of every variable are the values of
a polynomial of degree T that hides the value of the term the variable stands for (`IsShared`), and every output has the value
of its term. It is inductive because it says more than that T + 1 shares interpolate: interpolation does not tell which polynomial the shares lie
on, and sums and products are about polynomials. Each `Gives` lemma says, beside what is made, what it is worth (`Worths`), so every operation has its lemma
about sharings: `SharingShares`, `SumSharesReduced`, `ScaledSharesReduced`, `ProductShares`. Values of expressions and terms are recursive
functions; that they exist, and that what is added later changes none (`EvaluatedValues`, `MeantValues`, `NewTerm`), is the loop lemma again.

The product is the heart. The local products of the shares lie on a polynomial of degree 2T. Each party shares its own, weighted with its Lagrange coefficient,
and the N sharings are added up: the sum hides the weighted sum of the local products (`PartSum`, an induction over the parties), on a polynomial of degree T again. By
`Interpolation`, and only if N > 2T, the weighted sum is the product of what was shared.

`Interpolation` itself is in `CountingProofs`. The weights of any d + 1 points add up to 1, and weighted with the k-th powers of the points, 1 <= k <= d, they
add up to 0 (`Moments`): by induction over the number of points, for leaving a point j out multiplies the weights of the others by
a factor linear in the point, which ties a power to the next one (`MomentStep`). A polynomial's value is linear in its powers, so only the constant
term is left. No division is needed but the inverses of differences of points.

### The graphs that are built (`BuilderProofs`)

The recursion of `importFrontend` is a stack of calls in the model, and the invariant `BuilderInv` holds between any two of its steps:

* `Lists`: the vectors of the builder are those of n nodes; the in- and out-lists agree; every operation computes its node from earlier ones, and has
  as many inputs as it asks for (`Shaped`). Each way to make a node has a lemma (`NewNodeLists`, `NewOperationLists`, `CoefficientLists`).
* `MapFits`: every mapped expression has a node that no other expression has, a mapped polynomial the nodes of its inputs; the node of an opened value has an
  in-edge and the node of an input has none, so neither is ever taken for a random node or loses its type when it is marked. Importing leaves what is
  mapped as it is (`Still`), which is why a node may be used again.
* `Counts`: the random nodes are T for each mapped polynomial and one for each mapped random value, the inputs one for each mapped secret and given share.
  It is what makes "once" more than the absence of duplicates: a node that is made twice raises a count that its expression does not account for.
* `SaysProgram`: every operation is that of an expression (`OperationOf`). It takes the nodes of the operands in their order, constants left aside; an
  evaluation takes the inputs of its polynomial, which are the constant term's node and then T nodes that no expression and no other
  polynomial has (`TermFirst`, `ItsOwn`). A node that has an operation is some expression's.
* `Making`: the loop of `build()` over the outputs. In the first build (`FirstBuild`) the outputs before the current call are mapped and marked, and their nodes
  are the OUTPUT nodes, no others. In a later one (`LaterBuild`) all outputs are in the map that the first one left, so every call returns at once
  and the lists stay empty (finding 5).

That the built graphs are `LaidOut` goes through the same parts. `Fits` says that the operands of a RECONSTRUCT expression are `Together`, because
`Share::reconstruct` checks it (`mpcgraph/share.hpp:177`); `MapFits`, that a node is at its expression's party and that a
polynomial's inputs are different (a term that was there before, and new coefficients); so `Lists` can say that what is opened together is at one
place (`Places`).

`ResultsFit` keeps the lists that each result was made of, and the first result's map. `GraphsFit` and `BuiltForTheSearch` carry `Lists` over to the
graph, `RandomnessOnce` the counts, `GraphsComputeTheProgram` what the operations are. With a second build `EveryRandomnessOnce` is false, which is finding 5; this is why the theorem says "at most one".

`GraphsComputeTheProgram` puts two invariants together. `ValuesInv` adds to `BuilderInv` that the samples' values are those the expressions have by
their operators (`ValuesFit`); it needs neither that variables mean anything nor that there are enough parties. In the map of the first build a node is then one
expression (`FirstSources`) or one coefficient of one polynomial (`FirstCoefficients`), so what a node is worth is determined, and each
kind of operation computes its expression's value from its operands' (`OperationComputes`). The later graphs have no nodes (`ResultsFit`). With
`OutputsAreWhatWasMeant`, the graph that is verified has the outputs that the program means.

So for a program that assigns every variable once the theorems join up: the operations do not throw, the graph satisfies the search's assumptions, and every
search on it is a guided search that fails an assertion for the two known causes only.

### What the proofs found

The model took, of the results of one rewriter, the one before all others in the order of node and alternative. Two ADD edges with the same output
make two results at the same place, so there need not be one. `Chosen` now takes one that no other precedes; the code takes the one
whose edge is first in the output's list of in-edges (`Precedes`).

`Coefficients` was written `UNION {..} \ {s}`, which the model checker reads as `(UNION {..}) \ {s}`, as meant, and the prover as
`UNION ({..} \ {s})`. It now has the parentheses.

### Only model-checked, and why

* Liveness: `Terminates`, `EveryRunEnds`.
* `StopsOnlyWhenStuck` and `OnlyTheViewIsLeft` without the conditions `NoCollisions` and `NoCycleOutsideTheView`, under which they are proved. The instances meet
  them; nothing in the code guarantees it.
* `TailsMakeNoDifference`: it compares two searches, each under its own cache and its own order of graphs.
* What graphs mean (`EdgesStayTrue`, `RandomNodesStayIndependent`, `ProvedMeansSecure`, `ProvedMeansPrivate`): the rank of a set of vectors is a
  fold over it, and the frequencies are counts over all assignments of random values.
* `DifferencesWrap` in the direction that a difference that has wrapped is no sharing: that is true of the instance, but not of every choice of points and
  coefficients. Where there are no more parties than the degree, any list of values is a sharing.
* The pipeline (`BgwIsProved`): it is about particular programs, and needs to know which rewriting the strategy takes at every turn.

## 5. Findings

1. **`abort`** (`backend/transformer.hpp:185`). `isRewritableSecret` skips the out-edges of a secret that are not EVAL
   edges, where its comment says every out-edge has to be one; `apply` then asserts it. On "masktwice" the assertion fails and
   the program ends without YES or UNKNOWN. Neither the Debug nor the Release flags that `CMakeLists.txt:17-22` sets define
   `NDEBUG`; the types RelWithDebInfo and MinSizeRel, which CMake has by itself, would.
2. **`soundness`** (`backend/prover.hpp:91`). On "masked", which opens x + r to the party that dealt r and declares
   the sum its output, the verdict is "Proved" although the view gives x and the output alone does not. The trace, for
   corrupted party 2, in the numbers of `Protocols!MaskedOutput2`: the first `ReconstructionTransformer`, whose source parties
   are T, replaces RECONSTRUCT(8, 12) -> 13 and TRANSIT 7 -> 8 by EVAL(12, 13) -> 8 and TRANSIT 8 -> 7. The output 13 is now a
   source, and 7, the sum of party 1, has two in-edges: ADD(2, 6), its own computation, and the TRANSIT. `SharingTransformer` then
   makes the random value of the sharing of x a function of the share that party 2 receives. Every equation is still there and true,
   and no bubble is left in the view. Tail elimination (line 149) removes 7, which no node uses, with both in-edges, and so the
   only equation that ties the output to x and r. What remains reads as if the output were independent of the r that party 2 has dealt. The
   rewriter with T + 1 source parties takes no part in it.
3. **`one_processor`** (`backend/graph.hpp:36`). The hash loops are inside a `parallel` region without a work-sharing
   loop: each of the 8 threads asked for does all the work, and the xor-reduction of an even number of equal values is 0.
   Where the region is active (one processor: the loop over the jobs is not an active region), every graph has hash 0
   and new graphs are taken for considered ones.
4. **`stale_variable`** (`bgwfrontend/variable.hpp:46`). Assigning an expression to a variable that has shares appends the new
   ones, and every later operation reads the first N: the variable goes on sharing its old value. The benchmark
   `example/bgw/test_scalable.cpp:65` does it in its main loop, so all rounds compute with the first secret.
5. **`rebuild`** (`backend/graph_builder.hpp:32`). `build()` clears the lists ("clear", line 145) but not the function-local static
   map: a second `build()` returns an empty graph.
6. **`local_product`** (`backend/transformer.hpp:332`). The reconstruction rewriter never looks at the degree of what is opened. A product of
   shares that is multiplied locally (`operator*` of `Share`) and opened to a third party without being reshared is proved,
   although its shares lie on a polynomial of degree 2T whose coefficients are not independent of the secrets. The program, written against
   the library and run, prints "Proved? true". The front end's product always reshares, so BGW programs are not concerned.

## 6. Limits

* Products of shares have no meaning in `Meaning`; the graph machines treat MUL edges like any other. `PipelineMeaning` has it, for whole
  programs, at the end of the search and not after every rewriting.
* In `Pipeline` the jobs run one after the other; their interleavings are in `Prover`.
* `NamesUnique` is about names the library makes up. A name given to `yield` twice is registered once, and the constructor of
  `Share` ignores that (`mpcgraph/share.hpp:43`); `context.hpp:23` of `mpcgraph` promises otherwise. No run shows it.
* The comment at `backend/prover.hpp:67` promises the steepest step; the loop over a rewriter's results is left at the first improvement.
  `Chosen` models the code; no run is about the difference, which changes no verdict here.
* The hash of `considered_graphs` is modelled as the tuple of what it is computed from; accidental
  collisions of the 64-bit mix itself are not modelled, those by construction (sum of ids, cancelling xor) are. Likewise, the
  execution library's hashes of parties are taken to be distinct, and a party declared again to have the address it had.
* `receive` copies a message from the place it was popped from, which the language leaves undefined. `MessageQueues` models what the
  library's containers do: the message is still there, for it has no destructor. A reference in a message to a party that is gone is not followed.
* Indexing the new lists with ids of an earlier build, which happens when a second build has other outputs than the first, is
  undefined and has no outcome to model.
* SUB, DIV and TypeCast of `mpcgraph` are left out: no front-end operation makes them. So are second `bgw::Context`s, and changes of
  T or of the parties between two operations.
* The commented-out code in `prover.hpp` and `graph.hpp` ("old function, updates required") is not part of the program.
* Printing and logging are left out; names only where they are registered (shares and constants).

## 7. Plan

Next to prove, in this order:

1. That searches on acyclic graphs stay acyclic wherever the rewriters keep the order of computation, towards `OnlyTheViewIsLeft`.
2. The parts of the properties about meaning that do not go through a fold over data.
