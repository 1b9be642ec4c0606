----------------------------- MODULE Variables -----------------------------
(***************************************************************************)
(* The BGW front end (src/src/bgwfrontend): a program computes with        *)
(* variables, each of them a vector of shares, and declares outputs.       *)
(*                                                                         *)
(* A Variable object is its vector _shares.  What the program means by it  *)
(* is kept beside it in "terms" and "stands", which no step reads to       *)
(* decide anything.                                                        *)
(***************************************************************************)
EXTENDS Expressions

CONSTANTS
    PartyCnt,      \* Context::N
    T,             \* Context::T
    Inputs,        \* the secrets and random values: a sequence of [kind, party, type]
    Var,           \* the program's variables
    Reassigned,    \* whether a variable with shares may be assigned an expression
    GivenNames,    \* names the program may ask for in yield
    MaxSteps       \* bound of the runs: operations of the program

ASSUME FrontendAssumption ==
    /\ PartyCnt \in Nat \ {0} /\ T \in 0 .. PartyCnt - 1
    /\ Inputs \in Seq([kind : {"secret", "randomness"}, party : 1 .. PartyCnt, type : {"arith", "bin"}])
    /\ Reassigned \in BOOLEAN /\ GivenNames \subseteq Nat /\ MaxSteps \in Nat

VARIABLES
    ctx,           \* mpc::Context
    shares,        \* shares[x]: the _shares of variable x
    mulCounter,    \* bgw::Context::mulCounter
    outputs,       \* what yield has returned, in order
    terms,         \* the terms the program has formed, of inputs and older terms
    stands,        \* stands[x]: the term variable x stands for, 0 for none
    steps          \* operations so far

vars == <<ctx, shares, mulCounter, outputs, terms, stands, steps>>

\* The inputs are declared first, and one constant the program uses.
Scale == Len(Inputs) + 1
Declared ==
    NewConstant(ForEach(NewContext, Len(Inputs),
                        LAMBDA c, i : IF Inputs[i].kind = "secret"
                                      THEN NewSecret(c, Inputs[i].party, Inputs[i].type)
                                      ELSE NewRandomness(c, Inputs[i].party, Inputs[i].type)).ctx,
                <<>>, 0).ctx

Init ==
    /\ ctx = Declared
    /\ shares = [x \in Var |-> <<>>]
    /\ mulCounter = 0
    /\ outputs = <<>>
    /\ terms = <<>>
    /\ stands = [x \in Var |-> 0]
    /\ steps = 0

-----------------------------------------------------------------------------
(* The operators on vectors of shares.                                     *)

\* The dealer evaluates a polynomial and hands the shares out: the constructor
\* of Variable and the assignment of an expression.
Sharing(c, term) ==
    LET poly == GenPoly(c, term)
    IN ForEach(poly.ctx, PartyCnt,
               LAMBDA d, p : LET s == Eval(d, poly.ids[1], p) IN Transfer(s.ctx, s.ids[1], p))

InputSharing(c, type) == ForEach(c, PartyCnt, LAMBDA d, p : GenShare(d, p, type))

Sum(c, a, b) == ForEach(c, PartyCnt, LAMBDA d, i : BinaryOp(d, a[i], b[i], "ADD"))

\* A mutant of Scaled: the new shares are appended to the copy.
ScaledAppended(c, a, const) ==
    LET r == ForEach(c, PartyCnt, LAMBDA d, i : ScalarMul(d, a[i], const))
    IN Done(r.ctx, a \o r.ids)

\* A copy of a whose first shares are replaced.
Scaled(c, a, const) ==
    LET r == ForEach(c, PartyCnt, LAMBDA d, i : ScalarMul(d, a[i], const))
    IN Done(r.ctx, r.ids \o SubSeq(a, PartyCnt + 1, Len(a)))

\* A mutant of Product: the products of shares are not shared again.
ProductLocal(c, a, b, k) == ForEach(c, PartyCnt, LAMBDA d, i : BinaryOp(d, a[i], b[i], "MUL"))

\* Party i shares the product of its two shares, weighted with its Lagrange
\* coefficient.
ProductOfParty(c, a, b, k, i) ==
    LET m == BinaryOp(c, a[i], b[i], "MUL")
        inter == Sharing(m.ctx, m.ids[1])
        lambda == NewConstant(inter.ctx, <<k, i>>, i)
    IN Scaled(lambda.ctx, inter.ids, lambda.ids[1])

\* Every party does; the sum is a sharing of the product.
Product(c, a, b, k) ==
    LET sum[i \in 1 .. PartyCnt] ==
            IF i = 1 THEN ProductOfParty(c, a, b, k, 1)
            ELSE LET st == sum[i - 1]
                 IN IF st.ctx.thrown THEN st
                    ELSE LET p == ProductOfParty(st.ctx, a, b, k, i) IN Sum(p.ctx, st.ids, p.ids)
    IN sum[PartyCnt]

\* A mutant of Opened: the party's own share comes first.
OpenedOwnFirst(c, a, party, given) ==
    LET sent == ForEach(c, Len(a), LAMBDA d, i : Transfer(d, a[i], party))
        own(s) == s <= Created(c)
        others(s) == ~own(s)
    IN Reconstruct(sent.ctx, SelectSeq(sent.ids, own) \o SelectSeq(sent.ids, others), party, given)

Opened(c, a, party, given) ==
    LET sent == ForEach(c, Len(a), LAMBDA d, i : Transfer(d, a[i], party))
    IN Reconstruct(sent.ctx, sent.ids, party, given)

-----------------------------------------------------------------------------
(* The operations of a program.                                            *)

Running == steps < MaxSteps /\ ~ctx.thrown

\* Only variables with a share of every party are computed with.
Shared(x) == Len(shares[x]) >= PartyCnt

\* Variable x takes the shares r.ids.
Takes(x, r) ==
    /\ ctx' = r.ctx
    /\ shares' = [shares EXCEPT ![x] = r.ids]
    /\ steps' = steps + 1
    /\ UNCHANGED outputs

\* Variable x stands for a new term, of an input or of older terms.
StandsFor(x, op, of) ==
    /\ terms' = Append(terms, [op |-> op, of |-> of])
    /\ stands' = [stands EXCEPT ![x] = Len(terms) + 1]

\* Variable(Context&, Expression&)
Declare(x, s) ==
    /\ Running /\ shares[x] = <<>>
    /\ Takes(x, Sharing(ctx, s)) /\ StandsFor(x, "input", <<s>>)
    /\ UNCHANGED mulCounter

\* Variable(bgw::Context&, mpc::Context&, Type*)
DeclareInput(x, type) ==
    /\ Running /\ shares[x] = <<>>
    /\ Takes(x, InputSharing(ctx, type)) /\ StandsFor(x, "input", <<Created(ctx) + 1>>)
    /\ UNCHANGED mulCounter

\* operator=(Expression&): the new shares are appended.
Assign(x, s) ==
    /\ Running /\ (shares[x] = <<>> \/ Reassigned)
    /\ LET r == Sharing(ctx, s)
       IN Takes(x, Done(r.ctx, shares[x] \o r.ids))
    /\ StandsFor(x, "input", <<s>>)
    /\ UNCHANGED mulCounter

\* operator=(const Variable&)
Copy(x, y) ==
    /\ Running /\ Shared(y) /\ x # y
    /\ Takes(x, Done(ctx, shares[y]))
    /\ stands' = [stands EXCEPT ![x] = stands[y]]
    /\ UNCHANGED <<mulCounter, terms>>

\* x = y + z
Add(x, y, z) ==
    /\ Running /\ Shared(y) /\ Shared(z)
    /\ Takes(x, Sum(ctx, shares[y], shares[z]))
    /\ StandsFor(x, "+", <<stands[y], stands[z]>>)
    /\ UNCHANGED mulCounter

\* x = y * c
ConstMul(x, y) ==
    /\ Running /\ Shared(y)
    /\ Takes(x, Scaled(ctx, shares[y], Scale)) /\ StandsFor(x, "c", <<stands[y]>>)
    /\ UNCHANGED mulCounter

\* A mutant of Mul: the counter stays.
MulUncounted(x, y, z) ==
    /\ Running /\ Shared(y) /\ Shared(z)
    /\ Takes(x, Product(ctx, shares[y], shares[z], mulCounter))
    /\ StandsFor(x, "*", <<stands[y], stands[z]>>)
    /\ UNCHANGED mulCounter

\* x = y * z
Mul(x, y, z) ==
    /\ Running /\ Shared(y) /\ Shared(z)
    /\ Takes(x, Product(ctx, shares[y], shares[z], mulCounter))
    /\ StandsFor(x, "*", <<stands[y], stands[z]>>)
    /\ mulCounter' = mulCounter + 1

Yield(x, party, given) ==
    /\ Running /\ Shared(x)
    /\ LET r == Opened(ctx, shares[x], party, given)
       IN /\ ctx' = r.ctx
          /\ outputs' = Append(outputs, [expr |-> r.ids[1], term |-> stands[x]])
    /\ steps' = steps + 1
    /\ UNCHANGED <<shares, mulCounter, terms, stands>>

Operation ==
    \/ \E x \in Var, s \in DOMAIN Inputs : Declare(x, s) \/ Assign(x, s)
    \/ \E x \in Var : DeclareInput(x, "arith")
    \/ \E x, y \in Var : Copy(x, y) \/ ConstMul(x, y)
    \/ \E x, y, z \in Var : Add(x, y, z) \/ Mul(x, y, z)
    \/ \E x \in Var, party \in 1 .. PartyCnt :
          \E given \in {{}} \cup {{n} : n \in GivenNames} : Yield(x, party, given)
=============================================================================
