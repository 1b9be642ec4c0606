----------------------------- MODULE Execution -----------------------------
(***************************************************************************)
(* The execution library: a program that registers parties with the        *)
(* context and runs protocols among them.  The protocol is the one the     *)
(* repository runs (test/mpclib/test_protocol.cpp): every party deals a    *)
(* random sharing of 0 to all parties; then every party receives a share   *)
(* from each of them, and adds them up.  Its sends and receives are one    *)
(* step each; any of them may throw, and the caller may catch the          *)
(* exception and go on with the same context, which is a singleton.  The   *)
(* bundles that the protocol returns may be combined with each other.      *)
(***************************************************************************)
EXTENDS Field, MessageQueues

CONSTANTS
    Par,           \* the parties
    Alpha,         \* Alpha[p]: the evaluation point of a party
    PartySets,     \* the sets of parties (parset: sequences) the program uses
    Degree,        \* the degree of the polynomials
    Samples,       \* coefficients the parties may draw: functions from Par to
                   \* sequences of length Degree
    MaxCalls       \* bound: how many calls the program makes

ASSUME ExecutionAssumption ==
    /\ Alpha \in [Par -> Element]
    /\ \A ps \in PartySets : ps \in Seq(Par) /\ IsInjective(ps)
    /\ Degree \in Nat
    /\ Samples \subseteq [Par -> [1 .. Degree -> Element]]
    /\ MaxCalls \in Nat

VARIABLES
    msgs,          \* mpc_context::_msgs
    ctx,           \* the parties whose _ctx is set
    run,           \* the protocol's lambda, while it runs
    results,       \* the bundles it has returned, and their sums and differences
    outcome,       \* of the last call: "ok", the exception thrown, or "crashed"
    calls,         \* how many calls the program has made
    \* History, for the properties only:
    sent, got,     \* sent[r][s], got[r][s]: what s has sent to r, what r has received from s
    groups,        \* sets of parties that one call has registered completely
    failed         \* the calls that have thrown

history == <<sent, got, groups, failed>>
vars == <<msgs, ctx, run, results, outcome, calls, history>>

NoRun == [parties |-> <<>>, coeffs |-> <<>>, todo |-> <<>>, delta |-> <<>>, undisturbed |-> TRUE]

Init ==
    /\ msgs = NoQueues
    /\ ctx = {}
    /\ run = NoRun
    /\ results = <<>>
    /\ outcome = "ok"
    /\ calls = 0
    /\ sent = [r \in Par |-> [s \in Par |-> <<>>]] /\ got = sent
    /\ groups = {} /\ failed = {}

\* The program makes its next call.
Calling == run = NoRun /\ outcome # "crashed" /\ calls < MaxCalls

-----------------------------------------------------------------------------
(* Parties.                                                                *)

\* mpc_context::register_parties
Register(ps) ==
    /\ Calling
    /\ msgs' = Registered(msgs, ps)
    /\ ctx' = ctx \cup {ps[i] : i \in 1 .. Registrable(msgs, ps)}
    /\ IF Registrable(msgs, ps) = Len(ps)
       THEN /\ outcome' = "ok"
            /\ groups' = groups \cup {Range(ps)} /\ failed' = failed
       ELSE /\ outcome' = "party_duplicated"
            /\ groups' = groups /\ failed' = failed \cup {"register"}
    /\ calls' = calls + 1
    /\ UNCHANGED <<run, results, sent, got>>

\* The function that declared a party is left and called again: a party with
\* the same address, index and alpha takes its place, without a context.
Recreate(p) ==
    /\ Calling
    /\ p \in ctx
    /\ ctx' = ctx \ {p}
    /\ groups' = {g \in groups : p \notin g}
    /\ calls' = calls + 1
    /\ UNCHANGED <<msgs, run, results, outcome, sent, got, failed>>

-----------------------------------------------------------------------------
(* A run of the protocol.                                                  *)

\* The calls that the lambda makes, in their order.
Calls(op, ps) ==
    LET n == Len(ps)
        party(i) == ps[i + 1]
    IN [k \in 1 .. n * n |->
           [op |-> op, of |-> party((k - 1) \div n), with |-> party((k - 1) % n)]]

\* A mutant of Lambda: the parties wait for their shares before they deal.
LambdaReversed(ps) == Calls("receive", ps) \o Calls("send", ps)

Lambda(ps) == Calls("send", ps) \o Calls("receive", ps)

\* No message waits between two parties of the run.
QuietAmong(ps) ==
    \A p, q \in Range(ps) : Knows(msgs, p, q) => msgs[p][q] = <<>>

\* protocol::operator(); poly_gen draws the coefficients.
Start(ps) ==
    /\ Calling
    /\ \E coeffs \in Samples :
          run' = [parties |-> ps, coeffs |-> coeffs, todo |-> Lambda(ps),
                  delta |-> [p \in Range(ps) |-> 0], undisturbed |-> QuietAmong(ps)]
    /\ calls' = calls + 1
    /\ UNCHANGED <<msgs, ctx, results, outcome, history>>

\* A mutant of Throw: the exception is caught inside, and the call made again.
ThrowRetried(exception) ==
    outcome' = exception /\ UNCHANGED <<run, failed, msgs, sent, got>>

\* An exception leaves the lambda; what has been sent stays in the queues.
Throw(exception) ==
    /\ outcome' = exception
    /\ run' = NoRun
    /\ failed' = failed \cup {"run"}
    /\ UNCHANGED <<msgs, sent, got>>

\* par::send: a party without a context follows a null pointer.
Send ==
    /\ run.todo # <<>> /\ Head(run.todo).op = "send"
    /\ LET sender == Head(run.todo).of
           receiver == Head(run.todo).with
           share == [party |-> receiver, val |-> Eval(0, run.coeffs[sender], Alpha[receiver])]
       IN IF sender \notin ctx THEN Throw("crashed")
          ELSE IF ~Knows(msgs, receiver, sender) THEN Throw("party_nonexist")
          ELSE /\ msgs' = Sent(msgs, sender, receiver, share)
               /\ sent' = [sent EXCEPT ![receiver][sender] = Append(@, share)]
               /\ run' = [run EXCEPT !.todo = Tail(@)]
               /\ UNCHANGED <<outcome, got, failed>>
    /\ UNCHANGED <<ctx, results, calls, groups>>

\* par::receive, and the share is added to delta.
Receive ==
    /\ run.todo # <<>> /\ Head(run.todo).op = "receive"
    /\ LET receiver == Head(run.todo).of
           sender == Head(run.todo).with
           share == FirstMessage(msgs, receiver, sender)
       IN IF receiver \notin ctx THEN Throw("crashed")
          ELSE IF ~Knows(msgs, receiver, sender) THEN Throw("party_nonexist")
          ELSE IF msgs[receiver][sender] = <<>> THEN Throw("empty_message_queue")
          ELSE /\ msgs' = Received(msgs, receiver, sender)
               /\ got' = [got EXCEPT ![receiver][sender] = Append(@, share)]
               /\ run' = [run EXCEPT !.todo = Tail(@),
                                     !.delta[receiver] = Plus(@, share.val)]
               /\ UNCHANGED <<outcome, sent, failed>>
    /\ UNCHANGED <<ctx, results, calls, groups>>

\* The lambda returns a bundle of what the parties have added up.
Return ==
    /\ run # NoRun /\ run.todo = <<>>
    /\ results' = Append(results, [parties |-> run.parties, op |-> "run",
                                   vals |-> [i \in DOMAIN run.parties |-> run.delta[run.parties[i]]],
                                   undisturbed |-> run.undisturbed, wraps |-> FALSE])
    /\ outcome' = "ok"
    /\ run' = NoRun
    /\ UNCHANGED <<msgs, ctx, calls, history>>

-----------------------------------------------------------------------------
(* The program combines two bundles.                                       *)

\* share::operator+, -, *
Apply(op, a, b) ==
    CASE op = "plus" -> Plus(a, b)
      [] op = "minus" -> Minus(a, b)
      [] op = "times" -> Times(a, b)

\* bundle::operator+, -, *, on the bundles of the last two calls.
Combine(op) ==
    /\ Calling
    /\ Len(results) >= 2
    /\ LET a == results[Len(results) - 1]
           b == results[Len(results)]
           wraps(i) == op = "minus" /\ a.vals[i] < b.vals[i]
       IN IF a.parties # b.parties
          THEN outcome' = "party_missmatch" /\ UNCHANGED results
          ELSE /\ outcome' = "ok"
               /\ results' = Append(results,
                     [parties |-> a.parties, op |-> op,
                      vals |-> [i \in DOMAIN a.vals |-> Apply(op, a.vals[i], b.vals[i])],
                      undisturbed |-> /\ a.op = "run" /\ a.undisturbed
                                      /\ b.op = "run" /\ b.undisturbed,
                      wraps |-> \E i \in DOMAIN a.vals : wraps(i)])
    /\ calls' = calls + 1
    /\ UNCHANGED <<msgs, ctx, run, history>>

Step == Send \/ Receive \/ Return

Next ==
    \/ \E ps \in PartySets : Register(ps) \/ Start(ps)
    \/ \E p \in Par : Recreate(p)
    \/ Step
    \/ \E op \in {"plus", "minus", "times"} : Combine(op)

\* A run, once started, is carried on: nothing in the lambda waits.
Spec == Init /\ [][Next]_vars /\ WF_vars(Step)

-----------------------------------------------------------------------------
(* Properties.                                                             *)

Share == [party : Par, val : Element]

\* Every share, wherever it is, is with the party it was made for and holds a
\* reduced element, in spite of arithmetic in 64 bits.
TypeOK ==
    /\ DOMAIN msgs \subseteq Par /\ ctx \subseteq DOMAIN msgs
    /\ \A p \in DOMAIN msgs : \A q \in DOMAIN msgs[p] :
          /\ q \in Par
          /\ \A i \in DOMAIN msgs[p][q] : msgs[p][q][i] \in Share /\ msgs[p][q][i].party = p
    /\ \A p \in DOMAIN run.delta : run.delta[p] \in Element
    /\ \A i \in DOMAIN results : \A j \in DOMAIN results[i].vals : results[i].vals[j] \in Element
    /\ calls \in 0 .. MaxCalls

\* What a party has received from another is what that one sent first, in its
\* order; the rest waits.  No share is lost, repeated or overtaken, through
\* failed runs and failed registrations, although receive() copies a message
\* out of a place it has given up (context.hpp:83-85).
QueuesAreFifo ==
    \A r, s \in Par :
        sent[r][s] = got[r][s] \o (IF Knows(msgs, r, s) THEN msgs[r][s] ELSE <<>>)

\* Only a run that has thrown leaves messages behind.
LeftoversFromFailures ==
    run = NoRun /\ "run" \notin failed =>
        \A p \in DOMAIN msgs : \A q \in DOMAIN msgs[p] : msgs[p][q] = <<>>

\* As long as no registration has thrown, channels are private to pairs: q
\* reaches p exactly if p reaches q (party_queues, context.hpp:32).
ChannelsBothWays ==
    "register" \notin failed =>
        \A p, q \in DOMAIN msgs : Knows(msgs, p, q) <=> Knows(msgs, q, p)

Points(b) == [i \in DOMAIN b.parties |-> Alpha[b.parties[i]]]

\* What the parties add up in a run that found its channels empty is a sharing
\* of 0 of the degree they dealt, over any set of parties; so is the sum of two
\* such bundles, and their product is one of twice the degree.
BundlesShareZero ==
    \A i \in DOMAIN results :
        LET b == results[i]
        IN b.undisturbed /\ b.op # "minus" =>
              IsSharing(Base, b.vals, Points(b), IF b.op = "times" THEN 2 * Degree ELSE Degree, 0)

\* The difference of two such bundles is a sharing of 0 just if no share of
\* the first is smaller than its counterpart: otherwise the subtraction has
\* wrapped in 64 bits, and the residue is another one (field.hpp:31).
DifferencesWrap ==
    \A i \in DOMAIN results :
        LET b == results[i]
        IN b.undisturbed /\ b.op = "minus" =>
              (IsSharing(Base, b.vals, Points(b), Degree, 0) <=> ~b.wraps \/ Word % Base = 0)

\* A run among parties that one call has registered, all of them, and that are
\* still there, returns: whatever failed before, nothing in it throws.
RegisteredRunsReturn ==
    [][run # NoRun /\ run' = NoRun
          /\ (\E g \in groups : Range(run.parties) \subseteq g) => outcome' = "ok"]_vars

\* Every run ends, with a bundle or an exception: no party waits for a message.
EveryRunEnds == (run # NoRun) ~> (run = NoRun)
=============================================================================
