---------------------------- MODULE Expressions ----------------------------
(***************************************************************************)
(* The expressions a program builds (src/src/mpcgraph) and the context     *)
(* they are registered in.  Expressions are created once and never         *)
(* changed, and refer to each other by address; here they are the members  *)
(* of a sequence and refer to each other by position.                      *)
(*                                                                         *)
(* An operation takes a context and returns the context after it, with the *)
(* expressions it has made or found.  A name is the number k of "share_k". *)
(***************************************************************************)
EXTENDS Integers, Sequences, FiniteSets

\* at: the party (poly.eval) or the position (a Lagrange coefficient) the
\* expression was made for; 0 for all others.
Expression(kind, op, args, party, type, name, at) ==
    [kind |-> kind, op |-> op, args |-> args, party |-> party, type |-> type,
     name |-> name, at |-> at]

\* A context: the expressions made so far, the names of registered shares and
\* constants, and whether an exception has left the program.
Context(exprs, shares, constants, thrown) ==
    [exprs |-> exprs, shares |-> shares, constants |-> constants, thrown |-> thrown]
NewContext == Context(<<>>, {}, {}, FALSE)

Done(c, ids) == [ctx |-> c, ids |-> ids]
Created(c) == Len(c.exprs)

\* An exception; what is returned does not matter any more.
Throw(c, ids) == Done(Context(c.exprs, c.shares, c.constants, TRUE), ids)

\* One operation after another, for i from 1 to n, until one throws.
ForEach(c, n, Op(_, _)) ==
    LET after[i \in 0 .. n] ==
            IF i = 0 THEN Done(c, <<>>)
            ELSE LET st == after[i - 1]
                 IN IF st.ctx.thrown THEN st
                    ELSE LET r == Op(st.ctx, i) IN Done(r.ctx, st.ids \o r.ids)
    IN after[n]

New(c, e) ==
    Done(Context(Append(c.exprs, e), c.shares, c.constants, c.thrown), <<Created(c) + 1>>)

-----------------------------------------------------------------------------
(* Placeholders.                                                           *)

NewSecret(c, party, type) == New(c, Expression("secret", "INPUT", <<>>, party, type, 0, 0))
NewRandomness(c, party, type) == New(c, Expression("randomness", "INPUT", <<>>, party, type, 0, 0))

\* The constructor of Constant: a name is used once.
NewConstant(c, name, at) ==
    IF name \in c.constants THEN Throw(c, <<1>>)
    ELSE New(Context(c.exprs, c.shares, c.constants \cup {name}, c.thrown),
             Expression("constant", "INPUT", <<>>, 0, "arith", 0, at))

-----------------------------------------------------------------------------
(* Shares.                                                                 *)

\* A mutant of NShare: n_constant.
NShareOfConstants(c) == Cardinality(c.constants)

\* n_share, which is what a share without a name is named after.
NShare(c) == Cardinality(c.shares)

\* The constructors of Share: a name that is taken is not registered again, and the
\* result of the registration is ignored.
NewShare(c, op, args, party, type, name, at) ==
    New(Context(c.exprs, c.shares \cup {name}, c.constants, c.thrown),
        Expression("share", op, args, party, type, name, at))

GenShare(c, party, type) == NewShare(c, "INPUT", <<>>, party, type, NShare(c), party)

BinaryOp(c, a, b, op) ==
    IF c.exprs[a].party # c.exprs[b].party THEN Throw(c, <<a>>)
    ELSE NewShare(c, op, <<a, b>>, c.exprs[a].party, c.exprs[a].type, NShare(c), 0)

ScalarMul(c, a, const) ==
    NewShare(c, "SCALARMUL", <<a, const>>, c.exprs[a].party, c.exprs[a].type, NShare(c), 0)

Transfer(c, a, party) ==
    IF c.exprs[a].party = party THEN Done(c, <<a>>)
    ELSE NewShare(c, "TRANSIT", <<a>>, party, c.exprs[a].type, NShare(c), 0)

\* given: the name asked for, or the empty set.
Reconstruct(c, args, party, given) ==
    LET first == c.exprs[args[1]]
        name == IF given = {} THEN NShare(c) ELSE CHOOSE n \in given : TRUE
    IN IF \E i \in DOMAIN args : \/ c.exprs[args[i]].type # first.type
                                 \/ c.exprs[args[i]].party # first.party
       THEN Throw(c, args)
       ELSE NewShare(c, "RECONSTRUCT", args, party, first.type, name, 0)

-----------------------------------------------------------------------------
(* Polynomials: a constant term, and coefficients nobody has names for.    *)

GenPoly(c, term) ==
    New(c, Expression("poly", "POLILIZE", <<term>>, c.exprs[term].party, c.exprs[term].type, 0, 0))

\* A share of the dealer's, for party p.
Eval(c, poly, p) ==
    NewShare(c, "EVAL", <<poly>>, c.exprs[poly].party, c.exprs[poly].type, NShare(c), p)
=============================================================================
