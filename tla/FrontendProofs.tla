--------------------------- MODULE FrontendProofs ---------------------------
(***************************************************************************)
(* Programs of the front end and the graphs they are built into, for any   *)
(* number of parties, any threshold, inputs and number of operations.      *)
(***************************************************************************)
EXTENDS FrontendMeaning, Transformers, CountingProofs, SequenceTheorems

-----------------------------------------------------------------------------
(* Loops.                                                                  *)

\* What a loop keeps, it has kept after every turn: loop[i] is what it has made
\* after turn i, and good[i] what may be there.
LEMMA LoopKeeps ==
    ASSUME NEW m \in Nat, NEW n \in Nat, NEW loop, NEW good,
           loop[m] \in good[m],
           \A i \in m + 1 .. n : loop[i - 1] \in good[i - 1] => loop[i] \in good[i]
    PROVE  \A i \in m .. n : loop[i] \in good[i]
<1> DEFINE Bad == {i \in m .. n : loop[i] \notin good[i]}
<1> SUFFICES ASSUME Bad # {} PROVE FALSE
  OBVIOUS
<1>1. PICK i \in Bad : \A j \in Bad : i <= j
  <2> HIDE DEF Bad
  <2>1. Bad \in SUBSET Nat
    BY DEF Bad
  <2> QED BY <2>1, Least
<1>2. i \in m + 1 .. n /\ i - 1 \in m .. n /\ ~(i <= i - 1)
  BY <1>1
<1>3. i - 1 \notin Bad
  <2> HIDE DEF Bad
  <2> QED BY <1>1, <1>2
<1> QED BY <1>1, <1>2, <1>3

\* A loop that starts with "first" and makes something good of something good in
\* every turn; and a function that stands for such a loop.
Turns(m, n, first, good, turn) ==
    /\ first \in good[m]
    /\ \A i \in m + 1 .. n : \A s \in good[i - 1] : turn[<<s, i>>] \in good[i]
Runs(m, n, first, good, turn, f) ==
    /\ f[m] = first /\ \A i \in m + 1 .. n : f[i] = turn[<<f[i - 1], i>>]
    /\ \A i \in m .. n : f[i] \in good[i]

LEMMA LoopExists ==
    ASSUME NEW m \in Nat, NEW n \in Nat, m <= n, NEW first, NEW good, NEW turn,
           Turns(m, n, first, good, turn)
    PROVE  \E f : Runs(m, n, first, good, turn, f)
<1> USE DEF Turns, Runs
<1> DEFINE Loops(k, f) == f = [i \in m .. k |-> IF i = m THEN first ELSE turn[<<f[i - 1], i>>]]
           Bad == {k \in m .. n : ~\E f : Loops(k, f)}
<1>1. \A k \in m .. n : \E f : Loops(k, f)
  <2> SUFFICES ASSUME Bad # {} PROVE FALSE
    OBVIOUS
  <2>1. PICK k \in Bad : \A j \in Bad : k <= j
    <3> HIDE DEF Bad
    <3>1. Bad \in SUBSET Nat
      BY DEF Bad
    <3> QED BY <3>1, Least
  <2>2. k # m
    <3> SUFFICES \E f : Loops(m, f)
      OBVIOUS
    <3>1. Loops(m, [i \in m .. m |-> first])
      OBVIOUS
    <3> QED BY <3>1
  <2>3. PICK f : Loops(k - 1, f)
    <3>1. k - 1 \in m .. n /\ ~(k <= k - 1)
      BY <2>2
    <3>2. k - 1 \notin Bad
      <4> HIDE DEF Bad
      <4> QED BY <2>1, <3>1
    <3> QED BY <3>1, <3>2
  <2> DEFINE g == [i \in m .. k |-> IF i = k THEN turn[<<f[k - 1], k>>] ELSE f[i]]
  <2>4. ASSUME NEW i \in m .. k PROVE g[i] = IF i = m THEN first ELSE turn[<<g[i - 1], i>>]
    <3>1. CASE i = k
      <4>1. k - 1 \in m .. k /\ k - 1 # k
        BY <2>2
      <4>2. g[k - 1] = f[k - 1]
        BY <4>1
      <4>3. g[k] = turn[<<f[k - 1], k>>]
        OBVIOUS
      <4> QED BY <2>2, <3>1, <4>2, <4>3
    <3>2. CASE i # k
      <4>1. g[i] = f[i] /\ i \in m .. k - 1
        BY <3>2
      <4>2. f[i] = IF i = m THEN first ELSE turn[<<f[i - 1], i>>]
        BY <2>3, <4>1
      <4>3. i # m => g[i - 1] = f[i - 1]
        BY <3>2
      <4> QED BY <4>1, <4>2, <4>3
    <3> QED BY <3>1, <3>2
  <2>5. Loops(k, g)
    BY <2>4
  <2> QED BY <2>5
<1>2. PICK f : Loops(n, f)
  BY <1>1
<1>3. f[m] = first /\ \A i \in m + 1 .. n : f[i] = turn[<<f[i - 1], i>>]
  BY <1>2
<1>4. \A i \in m .. n : f[i] \in good[i]
  <2> HIDE DEF Loops
  <2> QED BY <1>3, LoopKeeps
<1> QED BY <1>3, <1>4

-----------------------------------------------------------------------------
(* Contexts.                                                               *)

Kinds == {"secret", "randomness", "constant", "share", "poly"}
Operators == {"INPUT", "POLILIZE", "EVAL", "TRANSIT", "ADD", "MUL", "SCALARMUL", "RECONSTRUCT"}
Expr == [kind : Kinds, op : Operators, args : Seq(Nat), party : 0 .. PartyCnt,
         type : {"arith", "bin"}, name : Nat, at : Nat]

\* No exception has left the program.
Contexts == [exprs : Seq(Expr), shares : SUBSET Nat, constants : SUBSET Seq(Nat), thrown : {FALSE}]

\* An expression that becomes a node.
HasNode(c, a) == c.exprs[a].kind \in {"secret", "randomness", "share"}

\* Expressions of one party.
Together(c, args) == \A i, j \in DOMAIN args : c.exprs[args[i]].party = c.exprs[args[j]].party

\* The operands of an expression are older than it, and what its operator asks for.
Fits(c, e, k) ==
    /\ \A i \in DOMAIN e.args : e.args[i] \in 1 .. k - 1
    /\ e.kind # "constant" => e.party \in 1 .. PartyCnt
    /\ e.kind = "constant" => e.at \in 0 .. PartyCnt
    /\ e.kind \in {"secret", "randomness", "constant"} => e.op = "INPUT"
    /\ e.kind = "poly" <=> e.op = "POLILIZE"
    /\ e.op = "INPUT" => e.args = <<>>
    /\ e.op \in {"POLILIZE", "TRANSIT"} => Len(e.args) = 1 /\ HasNode(c, e.args[1])
    /\ e.op = "EVAL" => Len(e.args) = 1 /\ c.exprs[e.args[1]].kind = "poly" /\ e.at \in 1 .. PartyCnt
    /\ e.op \in {"ADD", "MUL"} => /\ Len(e.args) = 2
                                  /\ HasNode(c, e.args[1]) /\ HasNode(c, e.args[2])
    /\ e.op = "SCALARMUL" => /\ Len(e.args) = 2 /\ HasNode(c, e.args[1])
                             /\ c.exprs[e.args[2]].kind = "constant"
    /\ e.op = "RECONSTRUCT" => /\ Len(e.args) = PartyCnt
                               /\ \A i \in DOMAIN e.args : HasNode(c, e.args[i])
                               /\ Together(c, e.args)

IsShare(c, k) == c.exprs[k].kind = "share"

\* The shares are numbered, as long as the program gives no names itself.
Named(c) ==
    /\ \E n \in Nat : c.shares = 0 .. n - 1
    /\ \A k \in 1 .. Created(c) : IsShare(c, k) => c.exprs[k].name \in c.shares
    /\ \A j, k \in 1 .. Created(c) :
          IsShare(c, j) /\ IsShare(c, k) /\ c.exprs[j].name = c.exprs[k].name => j = k

Well(c) ==
    /\ c \in Contexts /\ IsFiniteSet(c.shares)
    /\ \A k \in 1 .. Created(c) : Fits(c, c.exprs[k], k)
    /\ GivenNames = {} => Named(c)

\* d has the expressions of c, and perhaps more.
Grown(c, d) ==
    /\ Created(c) <= Created(d)
    /\ \A k \in 1 .. Created(c) : d.exprs[k] = c.exprs[k]

LEMMA WellFacts ==
    ASSUME NEW c, Well(c)
    PROVE  /\ Created(c) \in Nat /\ DOMAIN c.exprs = 1 .. Created(c) /\ c.thrown = FALSE
           /\ \A k \in 1 .. Created(c) : c.exprs[k] \in Expr
           /\ Grown(c, c)
<1>1. c.exprs \in Seq(Expr) /\ c.thrown = FALSE
  BY DEF Well, Contexts
<1>2. Created(c) \in Nat /\ DOMAIN c.exprs = 1 .. Created(c)
  BY <1>1 DEF Created
<1> QED BY <1>1, <1>2 DEF Grown

LEMMA GrownTransitive ==
    ASSUME NEW b, NEW c, NEW d, Well(b), Well(c), Well(d), Grown(b, c), Grown(c, d)
    PROVE  Grown(b, d)
<1>1. Created(b) \in Nat /\ Created(c) \in Nat /\ Created(d) \in Nat
  BY WellFacts
<1> QED BY <1>1 DEF Grown

\* Expressions are never changed.
LEMMA FitsStill ==
    ASSUME NEW c, NEW d, NEW e \in Expr, NEW k \in Nat, Fits(c, e, k),
           \A j \in 1 .. k - 1 : d.exprs[j] = c.exprs[j]
    PROVE  Fits(d, e, k)
<1>1. e.args \in Seq(Nat) /\ \A i \in DOMAIN e.args : e.args[i] \in 1 .. k - 1
  BY DEF Expr, Fits
<1>2. \A i \in DOMAIN e.args : d.exprs[e.args[i]] = c.exprs[e.args[i]]
  BY <1>1
<1>3. /\ Len(e.args) = 1 => 1 \in DOMAIN e.args
      /\ Len(e.args) = 2 => 1 \in DOMAIN e.args /\ 2 \in DOMAIN e.args
  BY <1>1
<1>4. Together(c, e.args) => Together(d, e.args)
  BY <1>2 DEF Together
<1> QED BY <1>2, <1>3, <1>4 DEF Fits, HasNode

\* One more expression.
LEMMA OneMore ==
    ASSUME NEW c, Well(c), NEW e \in Expr,
           NEW d \in Contexts, IsFiniteSet(d.shares), d.exprs = Append(c.exprs, e),
           Fits(d, e, Created(c) + 1), GivenNames = {} => Named(d)
    PROVE  /\ Well(d) /\ Grown(c, d) /\ Created(d) = Created(c) + 1
           /\ d.exprs[Created(c) + 1] = e
<1>1. /\ c.exprs \in Seq(Expr) /\ Created(c) \in Nat /\ Created(c) = Len(c.exprs)
      /\ \A k \in 1 .. Created(c) : c.exprs[k] \in Expr /\ Fits(c, c.exprs[k], k)
  BY DEF Well, Contexts, Created
<1>3. /\ Created(d) = Created(c) + 1 /\ d.exprs[Created(c) + 1] = e
      /\ \A k \in 1 .. Created(c) : d.exprs[k] = c.exprs[k]
  <2>1. \A k \in 1 .. Len(c.exprs) : Append(c.exprs, e)[k] = c.exprs[k]
    BY <1>1
  <2>2. Len(Append(c.exprs, e)) = Len(c.exprs) + 1 /\ Append(c.exprs, e)[Len(c.exprs) + 1] = e
    BY <1>1
  <2> QED BY <1>1, <2>1, <2>2 DEF Created
<1>4. Grown(c, d)
  BY <1>1, <1>3 DEF Grown
<1>5. ASSUME NEW k \in 1 .. Created(d) PROVE Fits(d, d.exprs[k], k)
  <2>1. CASE k = Created(c) + 1
    BY <1>3, <2>1
  <2>2. CASE k # Created(c) + 1
    <3>1. k \in 1 .. Created(c) /\ d.exprs[k] = c.exprs[k] /\ Fits(c, c.exprs[k], k)
      BY <1>1, <1>3, <2>2
    <3>2. k \in Nat /\ \A j \in 1 .. k - 1 : d.exprs[j] = c.exprs[j]
      BY <1>1, <1>3, <3>1
    <3>3. c.exprs[k] \in Expr
      BY <1>1, <3>1
    <3>4. Fits(d, c.exprs[k], k)
      BY <3>1, <3>2, <3>3, FitsStill
    <3> QED BY <3>1, <3>4
  <2> QED BY <2>1, <2>2
<1>6. Well(d)
  BY <1>5 DEF Well
<1> QED BY <1>3, <1>4, <1>6

-----------------------------------------------------------------------------
(* What the operations of module Expressions return.                       *)

\* A context with one more expression, and with these constants.
Adds(c, constants, r, e) ==
    /\ Well(r.ctx) /\ Grown(c, r.ctx) /\ r.ctx.constants = constants
    /\ Created(r.ctx) = Created(c) + 1 /\ r.ids = <<Created(c) + 1>>
    /\ r.ctx.exprs[Created(c) + 1] = e

\* A share of a party, and an operation that returns one.
ShareAt(c, k, party, type) ==
    /\ k \in 1 .. Created(c) /\ IsShare(c, k)
    /\ c.exprs[k].party = party /\ c.exprs[k].type = type

Gives(c, r, party, type) ==
    /\ Well(r.ctx) /\ Grown(c, r.ctx) /\ r.ctx.constants = c.constants
    /\ \E k : r.ids = <<k>> /\ ShareAt(r.ctx, k, party, type)

LEMMA ShareFacts ==
    ASSUME NEW c, Well(c), NEW k, NEW party, NEW type, ShareAt(c, k, party, type)
    PROVE  /\ k \in Nat /\ k \in 1 .. Created(c) /\ HasNode(c, k)
           /\ c.exprs[k].party = party /\ c.exprs[k].type = type
           /\ party \in 1 .. PartyCnt /\ type \in {"arith", "bin"}
<1>1. k \in 1 .. Created(c) /\ Created(c) \in Nat /\ c.exprs[k] \in Expr
  BY WellFacts DEF ShareAt
<1>2. c.exprs[k].kind = "share" /\ Fits(c, c.exprs[k], k)
  BY <1>1 DEF ShareAt, IsShare, Well
<1>3. c.exprs[k].party \in 1 .. PartyCnt
  BY <1>2 DEF Fits
<1>4. c.exprs[k].type \in {"arith", "bin"}
  BY <1>1 DEF Expr
<1> QED BY <1>1, <1>2, <1>3, <1>4 DEF ShareAt, HasNode

\* The number n_share names the next share.
LEMMA NextName ==
    ASSUME NEW c, Well(c)
    PROVE  /\ NShare(c) \in Nat
           /\ GivenNames = {} => c.shares = 0 .. NShare(c) - 1
<1>1. IsFiniteSet(c.shares)
  BY DEF Well
<1>2. NShare(c) \in Nat
  BY <1>1, FS_CardinalityType DEF NShare
<1>3. ASSUME GivenNames = {} PROVE c.shares = 0 .. NShare(c) - 1
  <2>1. PICK n \in Nat : c.shares = 0 .. n - 1
    BY <1>3 DEF Well, Named
  <2>2. Cardinality(0 .. n - 1) = n
    BY FS_Interval
  <2> QED BY <2>1, <2>2 DEF NShare
<1> QED BY <1>2, <1>3

LEMMA NewShareAdds ==
    ASSUME NEW c, Well(c), NEW op \in Operators, NEW args \in Seq(Nat), NEW party \in 1 .. PartyCnt,
           NEW type \in {"arith", "bin"}, NEW name \in Nat, NEW at \in Nat,
           GivenNames = {} => name = NShare(c),
           Fits(c, Expression("share", op, args, party, type, name, at), Created(c) + 1)
    PROVE  Adds(c, c.constants, NewShare(c, op, args, party, type, name, at),
                Expression("share", op, args, party, type, name, at))
<1> DEFINE e == Expression("share", op, args, party, type, name, at)
           names == c.shares \cup {name}
           d == Context(Append(c.exprs, e), names, c.constants, FALSE)
<1>1. /\ c \in Contexts /\ Created(c) \in Nat /\ c.exprs \in Seq(Expr) /\ Created(c) = Len(c.exprs)
      /\ IsFiniteSet(c.shares)
  <2>1. c \in Contexts /\ IsFiniteSet(c.shares)
    BY DEF Well
  <2>2. c.exprs \in Seq(Expr)
    BY <2>1 DEF Contexts
  <2> QED BY <2>1, <2>2 DEF Created
<1>2. e \in Expr /\ e.kind = "share" /\ e.name = name
  <2>1. PartyCnt \in Nat
    BY FrontendAssumption
  <2> QED BY <2>1 DEF Expr, Expression, Kinds
<1>3. names \in SUBSET Nat /\ IsFiniteSet(names) /\ c.constants \in SUBSET Seq(Nat)
  BY <1>1, FS_AddElement DEF Contexts
<1>4. NewShare(c, op, args, party, type, name, at) = Done(d, <<Created(c) + 1>>)
  <2>1. c.thrown = FALSE
    BY <1>1 DEF Contexts
  <2> HIDE DEF e
  <2> QED BY <2>1 DEF NewShare, New, Context, Created, e
<1>5. /\ d.exprs = Append(c.exprs, e) /\ d.shares = names /\ d.constants = c.constants
      /\ Created(d) = Created(c) + 1
      /\ \A k \in 1 .. Created(c) : d.exprs[k] = c.exprs[k]
      /\ d.exprs[Created(c) + 1] = e
  <2> HIDE DEF e, names
  <2> QED BY <1>1, <1>2 DEF Created, Context
<1> HIDE DEF e, names
<1>d. d \in Contexts /\ d.exprs = Append(c.exprs, e)
  BY <1>1, <1>2, <1>3 DEF Contexts, Context
<1> HIDE DEF d
<1>6. Fits(d, e, Created(c) + 1)
  <2>1. Fits(c, e, Created(c) + 1)
    BY DEF e
  <2>2. Created(c) + 1 \in Nat /\ \A j \in 1 .. (Created(c) + 1) - 1 : d.exprs[j] = c.exprs[j]
    BY <1>1, <1>5
  <2> QED BY <1>2, <2>1, <2>2, FitsStill
<1>7. ASSUME GivenNames = {} PROVE Named(d)
  <2>1. Named(c) /\ name = NShare(c) /\ NShare(c) \in Nat /\ c.shares = 0 .. NShare(c) - 1
    BY <1>7, NextName DEF Well
  <2>2. d.shares = 0 .. (NShare(c) + 1) - 1
    BY <1>5, <2>1 DEF names
  <2>3. ASSUME NEW k \in 1 .. Created(d), IsShare(d, k)
        PROVE  /\ k \in 1 .. Created(c) => IsShare(c, k) /\ d.exprs[k].name = c.exprs[k].name
               /\ k \notin 1 .. Created(c) => k = Created(c) + 1 /\ d.exprs[k].name = name
    BY <1>1, <1>2, <1>5, <2>3 DEF IsShare
  <2>4. name \notin c.shares /\ c.shares \subseteq d.shares /\ name \in d.shares
    BY <1>5, <2>1 DEF names
  <2>5. \A k \in 1 .. Created(d) : IsShare(d, k) => d.exprs[k].name \in d.shares
    BY <2>1, <2>3, <2>4 DEF Named
  <2>6. ASSUME NEW j \in 1 .. Created(d), NEW k \in 1 .. Created(d),
               IsShare(d, j), IsShare(d, k), d.exprs[j].name = d.exprs[k].name
        PROVE  j = k
    <3>0. \A i \in 1 .. Created(d) : IsShare(d, i) =>
             (i \in 1 .. Created(c) <=> d.exprs[i].name # name)
      <4>1. \A i \in 1 .. Created(c) : IsShare(c, i) => c.exprs[i].name \in c.shares
        BY <2>1 DEF Named
      <4> QED BY <2>3, <2>4, <4>1
    <3>1. j \in 1 .. Created(c) <=> k \in 1 .. Created(c)
      BY <2>6, <3>0
    <3>2. CASE j \in 1 .. Created(c)
      BY <2>1, <2>3, <2>6, <3>1, <3>2 DEF Named
    <3>3. CASE j \notin 1 .. Created(c)
      BY <2>3, <2>6, <3>1, <3>3
    <3> QED BY <3>2, <3>3
  <2>7. \E n \in Nat : d.shares = 0 .. n - 1
    <3>1. NShare(c) + 1 \in Nat
      BY <2>1
    <3> QED BY <2>2, <3>1
  <2>8. \A j, k \in 1 .. Created(d) :
          IsShare(d, j) /\ IsShare(d, k) /\ d.exprs[j].name = d.exprs[k].name => j = k
    BY <2>6
  <2> QED BY <2>5, <2>7, <2>8 DEF Named
<1>8. Well(d) /\ Grown(c, d)
  BY <1>2, <1>3, <1>5, <1>d, <1>6, <1>7, OneMore
<1>9. Adds(c, c.constants, Done(d, <<Created(c) + 1>>), e)
  BY <1>5, <1>8 DEF Adds, Done
<1> QED BY <1>4, <1>9 DEF e

LEMMA Sizes ==
    ASSUME NEW c, Well(c)
    PROVE  Created(c) \in Nat /\ NShare(c) \in Nat /\ c.constants \in SUBSET Seq(Nat)
<1>1. c.constants \in SUBSET Seq(Nat)
  BY DEF Well, Contexts
<1> QED BY <1>1, NextName, WellFacts

LEMMA Tuples ==
    ASSUME NEW a \in Nat, NEW b \in Nat
    PROVE  <<>> \in Seq(Nat) /\ <<a>> \in Seq(Nat) /\ <<a, b>> \in Seq(Nat)
OBVIOUS

LEMMA Ops == \A op \in {"INPUT", "POLILIZE", "EVAL", "TRANSIT", "ADD", "MUL", "SCALARMUL", "RECONSTRUCT"} :
                op \in Operators
BY DEF Operators

LEMMA NewAdds ==
    ASSUME NEW c, Well(c), NEW e \in Expr, e.kind # "share", NEW constants \in SUBSET Seq(Nat),
           Fits(c, e, Created(c) + 1)
    PROVE  Adds(c, constants, New(Context(c.exprs, c.shares, constants, c.thrown), e), e)
<1> DEFINE d == Context(Append(c.exprs, e), c.shares, constants, FALSE)
<1>1. /\ c \in Contexts /\ Created(c) \in Nat /\ c.exprs \in Seq(Expr) /\ Created(c) = Len(c.exprs)
      /\ IsFiniteSet(c.shares) /\ c.thrown = FALSE
  <2>1. c \in Contexts /\ IsFiniteSet(c.shares)
    BY DEF Well
  <2>2. c.exprs \in Seq(Expr) /\ c.thrown = FALSE
    BY <2>1 DEF Contexts
  <2> QED BY <2>1, <2>2 DEF Created
<1>2. d \in Contexts /\ d.exprs = Append(c.exprs, e) /\ d.shares = c.shares /\ d.constants = constants
  BY <1>1 DEF Contexts, Context
<1>3. New(Context(c.exprs, c.shares, constants, c.thrown), e) = Done(d, <<Created(c) + 1>>)
  BY <1>1 DEF New, Context, Created
<1> HIDE DEF d
<1>4. /\ Created(d) = Created(c) + 1 /\ d.exprs[Created(c) + 1] = e
      /\ \A k \in 1 .. Created(c) : d.exprs[k] = c.exprs[k]
  BY <1>1, <1>2 DEF Created
<1>5. Fits(d, e, Created(c) + 1)
  <2>1. Created(c) + 1 \in Nat /\ \A j \in 1 .. (Created(c) + 1) - 1 : d.exprs[j] = c.exprs[j]
    BY <1>1, <1>4
  <2> QED BY <2>1, FitsStill
<1>6. ASSUME GivenNames = {} PROVE Named(d)
  <2>1. Named(c)
    BY <1>6 DEF Well
  <2>2. ASSUME NEW k \in 1 .. Created(d), IsShare(d, k)
        PROVE  k \in 1 .. Created(c) /\ IsShare(c, k) /\ d.exprs[k].name = c.exprs[k].name
    BY <1>1, <1>4, <2>2 DEF IsShare
  <2>3. \A k \in 1 .. Created(d) : IsShare(d, k) => d.exprs[k].name \in d.shares
    BY <1>2, <2>1, <2>2 DEF Named
  <2>4. ASSUME NEW j \in 1 .. Created(d), NEW k \in 1 .. Created(d),
               IsShare(d, j), IsShare(d, k), d.exprs[j].name = d.exprs[k].name
        PROVE  j = k
    BY <2>1, <2>2, <2>4 DEF Named
  <2>5. \E n \in Nat : d.shares = 0 .. n - 1
    BY <1>2, <2>1 DEF Named
  <2> QED BY <2>3, <2>4, <2>5 DEF Named
<1>7. Well(d) /\ Grown(c, d)
  BY <1>1, <1>2, <1>5, <1>6, OneMore
<1>8. Adds(c, constants, Done(d, <<Created(c) + 1>>), e)
  BY <1>2, <1>4, <1>7 DEF Adds, Done
<1> QED BY <1>3, <1>8

LEMMA ContextIs ==
    ASSUME NEW c, Well(c)
    PROVE  c = Context(c.exprs, c.shares, c.constants, c.thrown)
BY DEF Well, Contexts, Context

\* A share that is added is given.
LEMMA AddedShare ==
    ASSUME NEW c, Well(c), NEW r, NEW e, e.kind = "share", Adds(c, c.constants, r, e)
    PROVE  Gives(c, r, e.party, e.type)
<1>1. Created(c) \in Nat /\ Created(r.ctx) = Created(c) + 1
  BY WellFacts DEF Adds
<1>2. ShareAt(r.ctx, Created(c) + 1, e.party, e.type)
  BY <1>1 DEF ShareAt, IsShare, Adds
<1> QED BY <1>2 DEF Gives, Adds

\* What is there stays there.
LEMMA ShareStays ==
    ASSUME NEW c, NEW d, Well(c), Well(d), Grown(c, d), NEW k, NEW party, NEW type,
           ShareAt(c, k, party, type)
    PROVE  ShareAt(d, k, party, type)
<1>1. Created(c) \in Nat /\ Created(d) \in Nat
  BY WellFacts
<1> QED BY <1>1 DEF ShareAt, IsShare, Grown

LEMMA GivesThen ==
    ASSUME NEW c, Well(c), NEW r, NEW s, NEW p, NEW q, NEW t, NEW u,
           Gives(c, r, p, t), Gives(r.ctx, s, q, u)
    PROVE  Gives(c, s, q, u)
BY GrownTransitive DEF Gives

-----------------------------------------------------------------------------
(* What expressions are worth.                                             *)

\* A sample of field elements.
InField(s) ==
    \A k \in Int : /\ Input(s, k) \in 0 .. FieldSize - 1
                   /\ \A j \in Nat : Coefficient(s, k, j) \in Int

\* The values of the expressions of c in sample s, and what one of them is worth.
Evaluates(s, val, c) ==
    /\ InField(s)
    /\ \A k \in 1 .. Created(c) : val[k] \in Int /\ val[k] = Value(s, c.exprs[k], val, k)
Worth(s, val, c, k, x) == Evaluates(s, val, c) => val[k] = x

LEMMA EvaluatesOlder ==
    ASSUME NEW c, NEW d, Well(c), Well(d), Grown(c, d), NEW s, NEW val, Evaluates(s, val, d)
    PROVE  Evaluates(s, val, c)
<1>1. Created(c) \in Nat /\ Created(d) \in Nat
  BY WellFacts
<1> QED BY <1>1 DEF Grown, Evaluates

LEMMA WorthStays ==
    ASSUME NEW c, NEW d, Well(c), Well(d), Grown(c, d), NEW s, NEW val, NEW k, NEW x, Worth(s, val, c, k, x)
    PROVE  Worth(s, val, d, k, x)
BY EvaluatesOlder DEF Worth

LEMMA AddedWorth ==
    ASSUME NEW c, Well(c), NEW constants, NEW r, NEW e, Adds(c, constants, r, e), NEW s, NEW val
    PROVE  Worth(s, val, r.ctx, r.ids[1], Value(s, e, val, r.ids[1]))
<1>1. Created(c) \in Nat /\ Created(c) + 1 \in 1 .. Created(r.ctx)
  <2>1. Created(c) \in Nat
    BY WellFacts
  <2> QED BY <2>1 DEF Adds
<1>2. r.ids[1] = Created(c) + 1 /\ r.ctx.exprs[Created(c) + 1] = e
  BY DEF Adds
<1> QED BY <1>1, <1>2 DEF Worth, Evaluates

\* The cases of Value.
LEMMA PlaceholderValue ==
    ASSUME NEW s, NEW val, NEW e, NEW k, e.kind \in {"secret", "randomness"}, e.op = "INPUT"
    PROVE  Value(s, e, val, k) = Input(s, k)
BY DEF Value

LEMMA ConstantValue ==
    ASSUME NEW s, NEW val, NEW e, NEW k, e.kind = "constant", e.op = "INPUT"
    PROVE  Value(s, e, val, k)
             = IF e.at = 0 THEN ScaleFactor ELSE Weight(FieldSize, PartyCnt, e.at, Everyone)
BY DEF Value

LEMMA InputValue ==
    ASSUME NEW s, NEW val, NEW e, NEW k, e.kind = "share", e.op = "INPUT"
    PROVE  Value(s, e, val, k) = PolyAt(s, Input(s, k - e.at + 1), k - e.at + 1, e.at)
BY DEF Value

LEMMA CopiedValue ==
    ASSUME NEW s, NEW val, NEW e, NEW k, e.kind \in {"share", "poly"}, e.op \in {"POLILIZE", "TRANSIT"},
           NEW a, e.args[1] = a
    PROVE  Value(s, e, val, k) = val[a]
BY DEF Value

LEMMA EvaluatedValue ==
    ASSUME NEW s, NEW val, NEW e, NEW k, e.kind = "share", e.op = "EVAL", NEW a, e.args[1] = a
    PROVE  Value(s, e, val, k) = PolyAt(s, val[a], a, e.at)
BY DEF Value

LEMMA BinaryValue ==
    ASSUME NEW s, NEW val, NEW e, NEW k, e.kind = "share", e.op \in {"ADD", "MUL", "SCALARMUL"},
           NEW a, NEW b, e.args[1] = a, e.args[2] = b
    PROVE  Value(s, e, val, k) = IF e.op = "ADD" THEN Plus(val[a], val[b]) ELSE Times(val[a], val[b])
BY DEF Value

LEMMA ReconstructedValue ==
    ASSUME NEW s, NEW val, NEW e, NEW k, e.kind = "share", e.op = "RECONSTRUCT"
    PROVE  Value(s, e, val, k) = At0(FieldSize, PartyCnt, [i \in DOMAIN e.args |-> val[e.args[i]]], Everyone)
BY DEF Value

LEMMA BinaryGives ==
    ASSUME NEW c, Well(c), NEW a, NEW b, NEW party, NEW t, NEW u, NEW op \in {"ADD", "MUL"},
           ShareAt(c, a, party, t), ShareAt(c, b, party, u)
    PROVE  /\ Gives(c, BinaryOp(c, a, b, op), party, t)
           /\ \A s, val : Worth(s, val, BinaryOp(c, a, b, op).ctx, BinaryOp(c, a, b, op).ids[1],
                             IF op = "ADD" THEN Plus(val[a], val[b]) ELSE Times(val[a], val[b]))
<1> DEFINE e == Expression("share", op, <<a, b>>, party, t, NShare(c), 0)
<1>1. /\ a \in 1 .. Created(c) /\ b \in 1 .. Created(c) /\ a \in Nat /\ b \in Nat
      /\ HasNode(c, a) /\ HasNode(c, b) /\ party \in 1 .. PartyCnt /\ t \in {"arith", "bin"}
      /\ c.exprs[a].party = party /\ c.exprs[a].type = t /\ c.exprs[b].party = party
  BY ShareFacts
<1>2. op \in Operators /\ <<a, b>> \in Seq(Nat) /\ NShare(c) \in Nat /\ Created(c) \in Nat
  BY <1>1, Sizes, Tuples, Ops, Zenon
<1>3. Fits(c, e, Created(c) + 1)
  BY <1>1, <1>2 DEF Fits, Expression
<1>4. Adds(c, c.constants, NewShare(c, op, <<a, b>>, party, t, NShare(c), 0), e)
  <2> HIDE DEF e
  <2> QED BY <1>1, <1>2, <1>3, NewShareAdds DEF e
<1>5. BinaryOp(c, a, b, op) = NewShare(c, op, <<a, b>>, party, t, NShare(c), 0)
  BY <1>1 DEF BinaryOp
<1>6. /\ e.kind = "share" /\ e.op = op /\ e.args[1] = a /\ e.args[2] = b
      /\ e.party = party /\ e.type = t
  BY DEF Expression
<1> HIDE DEF e
<1> DEFINE r == BinaryOp(c, a, b, op)
<1>7. Adds(c, c.constants, r, e)
  BY <1>4, <1>5
<1> HIDE DEF r
<1>8. ASSUME NEW s, NEW val
      PROVE  Worth(s, val, r.ctx, r.ids[1], IF op = "ADD" THEN Plus(val[a], val[b]) ELSE Times(val[a], val[b]))
  <2>1. Worth(s, val, r.ctx, r.ids[1], Value(s, e, val, r.ids[1]))
    BY <1>7, AddedWorth
  <2>2. Value(s, e, val, r.ids[1]) = IF op = "ADD" THEN Plus(val[a], val[b]) ELSE Times(val[a], val[b])
    BY <1>6, BinaryValue
  <2> QED BY <2>1, <2>2
<1>9. Gives(c, r, party, t)
  BY <1>6, <1>7, AddedShare
<1> QED BY <1>8, <1>9 DEF r

LEMMA ScalarGives ==
    ASSUME NEW c, Well(c), NEW a, NEW const \in 1 .. Created(c), NEW party, NEW t,
           ShareAt(c, a, party, t), c.exprs[const].kind = "constant"
    PROVE  /\ Gives(c, ScalarMul(c, a, const), party, t)
           /\ \A s, val : Worth(s, val, ScalarMul(c, a, const).ctx, ScalarMul(c, a, const).ids[1],
                             Times(val[a], val[const]))
<1> DEFINE e == Expression("share", "SCALARMUL", <<a, const>>, party, t, NShare(c), 0)
<1>1. /\ a \in 1 .. Created(c) /\ a \in Nat /\ HasNode(c, a)
      /\ party \in 1 .. PartyCnt /\ t \in {"arith", "bin"}
      /\ c.exprs[a].party = party /\ c.exprs[a].type = t
  BY ShareFacts
<1>2. /\ "SCALARMUL" \in Operators /\ Created(c) \in Nat /\ const \in Nat
      /\ <<a, const>> \in Seq(Nat) /\ NShare(c) \in Nat
  <2>1. const \in Nat
    BY Sizes
  <2> QED BY <1>1, <2>1, Sizes, Tuples, Ops, Zenon
<1>3. Fits(c, e, Created(c) + 1)
  BY <1>1, <1>2 DEF Fits, Expression
<1>4. Adds(c, c.constants, NewShare(c, "SCALARMUL", <<a, const>>, party, t, NShare(c), 0), e)
  <2> HIDE DEF e
  <2> QED BY <1>1, <1>2, <1>3, NewShareAdds DEF e
<1>5. ScalarMul(c, a, const) = NewShare(c, "SCALARMUL", <<a, const>>, party, t, NShare(c), 0)
  BY <1>1 DEF ScalarMul
<1>6. /\ e.kind = "share" /\ e.op = "SCALARMUL" /\ e.args[1] = a /\ e.args[2] = const
      /\ e.party = party /\ e.type = t
  BY DEF Expression
<1> HIDE DEF e
<1> DEFINE r == ScalarMul(c, a, const)
<1>7. Adds(c, c.constants, r, e)
  BY <1>4, <1>5
<1> HIDE DEF r
<1>8. ASSUME NEW s, NEW val PROVE Worth(s, val, r.ctx, r.ids[1], Times(val[a], val[const]))
  <2>1. Worth(s, val, r.ctx, r.ids[1], Value(s, e, val, r.ids[1]))
    BY <1>7, AddedWorth
  <2>2. Value(s, e, val, r.ids[1]) = Times(val[a], val[const])
    BY <1>6, BinaryValue
  <2> QED BY <2>1, <2>2
<1>9. Gives(c, r, party, t)
  BY <1>6, <1>7, AddedShare
<1> QED BY <1>8, <1>9 DEF r

LEMMA TransferGives ==
    ASSUME NEW c, Well(c), NEW a, NEW party \in 1 .. PartyCnt, NEW q, NEW t, ShareAt(c, a, q, t)
    PROVE  /\ Gives(c, Transfer(c, a, party), party, t)
           /\ \A s, val : Worth(s, val, Transfer(c, a, party).ctx, Transfer(c, a, party).ids[1], val[a])
<1> DEFINE e == Expression("share", "TRANSIT", <<a>>, party, t, NShare(c), 0)
<1>1. /\ a \in 1 .. Created(c) /\ a \in Nat /\ HasNode(c, a) /\ t \in {"arith", "bin"}
      /\ c.exprs[a].party = q /\ c.exprs[a].type = t
  BY ShareFacts
<1>2. CASE q = party
  <2>1. Transfer(c, a, party) = Done(c, <<a>>)
    BY <1>1, <1>2 DEF Transfer
  <2>2. /\ Transfer(c, a, party).ctx = c /\ Transfer(c, a, party).ids = <<a>>
        /\ Transfer(c, a, party).ids[1] = a
    BY <2>1 DEF Done
  <2>3. Grown(c, c)
    BY WellFacts
  <2>4. <<a>> = <<a>> /\ ShareAt(c, a, party, t)
    BY <1>2
  <2> QED BY <2>2, <2>3, <2>4, Zenon DEF Gives, Worth
<1>3. CASE q # party
  <2>1. /\ "TRANSIT" \in Operators /\ Created(c) \in Nat
        /\ <<a>> \in Seq(Nat) /\ NShare(c) \in Nat
    BY <1>1, Sizes, Tuples, Ops, Zenon
  <2>2. Fits(c, e, Created(c) + 1)
    BY <1>1, <2>1 DEF Fits, Expression
  <2>3. Adds(c, c.constants, NewShare(c, "TRANSIT", <<a>>, party, t, NShare(c), 0), e)
    <3> HIDE DEF e
    <3> QED BY <1>1, <2>1, <2>2, NewShareAdds DEF e
  <2>4. Transfer(c, a, party) = NewShare(c, "TRANSIT", <<a>>, party, t, NShare(c), 0)
    BY <1>1, <1>3 DEF Transfer
  <2>5. e.kind = "share" /\ e.op = "TRANSIT" /\ e.args[1] = a /\ e.party = party /\ e.type = t
    BY DEF Expression
  <2> HIDE DEF e
  <2> DEFINE r == Transfer(c, a, party)
  <2>6. Adds(c, c.constants, r, e)
    BY <2>3, <2>4
  <2> HIDE DEF r
  <2>7. ASSUME NEW s, NEW val PROVE Worth(s, val, r.ctx, r.ids[1], val[a])
    <3>1. Worth(s, val, r.ctx, r.ids[1], Value(s, e, val, r.ids[1]))
      BY <2>6, AddedWorth
    <3>2. Value(s, e, val, r.ids[1]) = val[a]
      BY <2>5, CopiedValue
    <3> QED BY <3>1, <3>2
  <2>8. Gives(c, r, party, t)
    BY <2>5, <2>6, AddedShare
  <2> QED BY <2>7, <2>8 DEF r
<1> QED BY <1>2, <1>3

LEMMA GenShareGives ==
    ASSUME NEW c, Well(c), NEW party \in 1 .. PartyCnt, NEW t \in {"arith", "bin"}
    PROVE  /\ Gives(c, GenShare(c, party, t), party, t)
           /\ Created(GenShare(c, party, t).ctx) = Created(c) + 1
           /\ \A s, val : Worth(s, val, GenShare(c, party, t).ctx, GenShare(c, party, t).ids[1],
                             PolyAt(s, Input(s, ((Created(c) + 1) - party) + 1),
                                    ((Created(c) + 1) - party) + 1, party))
<1> DEFINE e == Expression("share", "INPUT", <<>>, party, t, NShare(c), party)
<1>1. /\ "INPUT" \in Operators /\ <<>> \in Seq(Nat) /\ NShare(c) \in Nat /\ party \in Nat
      /\ Created(c) \in Nat
  <2>1. party \in Nat /\ <<>> \in Seq(Nat)
    BY FrontendAssumption
  <2> QED BY <2>1, Sizes, Ops
<1>2. Fits(c, e, Created(c) + 1)
  BY <1>1 DEF Fits, Expression
<1>3. Adds(c, c.constants, NewShare(c, "INPUT", <<>>, party, t, NShare(c), party), e)
  <2> HIDE DEF e
  <2> QED BY <1>1, <1>2, NewShareAdds DEF e
<1>4. e.kind = "share" /\ e.op = "INPUT" /\ e.at = party /\ e.party = party /\ e.type = t
  BY DEF Expression
<1> HIDE DEF e
<1> DEFINE r == GenShare(c, party, t)
           k == Created(c) + 1
<1>5. Adds(c, c.constants, r, e)
  BY <1>3 DEF GenShare
<1>6. Created(r.ctx) = k /\ r.ids[1] = k
  BY <1>5 DEF Adds
<1> HIDE DEF r, k
<1>7. ASSUME NEW s, NEW val
      PROVE  Worth(s, val, r.ctx, r.ids[1], PolyAt(s, Input(s, (k - party) + 1), (k - party) + 1, party))
  <2>1. Worth(s, val, r.ctx, r.ids[1], Value(s, e, val, k))
    BY <1>5, <1>6, AddedWorth
  <2>2. Value(s, e, val, k) = PolyAt(s, Input(s, (k - party) + 1), (k - party) + 1, party)
    BY <1>4, InputValue
  <2> QED BY <2>1, <2>2
<1>8. Gives(c, r, party, t)
  BY <1>4, <1>5, AddedShare
<1> QED BY <1>6, <1>7, <1>8 DEF r, k

LEMMA EvalGives ==
    ASSUME NEW c, Well(c), NEW poly \in 1 .. Created(c), c.exprs[poly].kind = "poly", NEW p \in 1 .. PartyCnt
    PROVE  /\ Gives(c, Eval(c, poly, p), c.exprs[poly].party, c.exprs[poly].type)
           /\ \A s, val : Worth(s, val, Eval(c, poly, p).ctx, Eval(c, poly, p).ids[1],
                             PolyAt(s, val[poly], poly, p))
<1> DEFINE party == c.exprs[poly].party
           t == c.exprs[poly].type
           e == Expression("share", "EVAL", <<poly>>, party, t, NShare(c), p)
<1>1. /\ "EVAL" \in Operators /\ Created(c) \in Nat /\ poly \in Nat
      /\ <<poly>> \in Seq(Nat) /\ NShare(c) \in Nat /\ p \in Nat
  <2>1. Created(c) \in Nat /\ NShare(c) \in Nat
    BY Sizes
  <2>2. poly \in Nat
    BY <2>1
  <2>3. p \in Nat
    BY FrontendAssumption
  <2> QED BY <2>1, <2>2, <2>3, Tuples, Ops, Zenon
<1>2. party \in 1 .. PartyCnt /\ t \in {"arith", "bin"}
  <2>1. Fits(c, c.exprs[poly], poly) /\ c.exprs[poly] \in Expr
    BY WellFacts DEF Well
  <2> QED BY <2>1 DEF Fits, Expr
<1> HIDE DEF party, t
<1>3. Fits(c, e, Created(c) + 1)
  BY <1>1, <1>2 DEF Fits, Expression
<1>4. Adds(c, c.constants, NewShare(c, "EVAL", <<poly>>, party, t, NShare(c), p), e)
  <2> HIDE DEF e
  <2> QED BY <1>1, <1>2, <1>3, NewShareAdds DEF e
<1>5. Eval(c, poly, p) = NewShare(c, "EVAL", <<poly>>, party, t, NShare(c), p)
  BY DEF Eval, party, t
<1>6. /\ e.kind = "share" /\ e.op = "EVAL" /\ e.args[1] = poly /\ e.at = p
      /\ e.party = party /\ e.type = t
  BY DEF Expression
<1> HIDE DEF e
<1> DEFINE r == Eval(c, poly, p)
<1>7. Adds(c, c.constants, r, e)
  BY <1>4, <1>5
<1> HIDE DEF r
<1>8. ASSUME NEW s, NEW val PROVE Worth(s, val, r.ctx, r.ids[1], PolyAt(s, val[poly], poly, p))
  <2>1. Worth(s, val, r.ctx, r.ids[1], Value(s, e, val, r.ids[1]))
    BY <1>7, AddedWorth
  <2>2. Value(s, e, val, r.ids[1]) = PolyAt(s, val[poly], poly, p)
    BY <1>6, EvaluatedValue
  <2> QED BY <2>1, <2>2
<1>9. Gives(c, r, party, t)
  BY <1>6, <1>7, AddedShare
<1> QED BY <1>8, <1>9 DEF r, party, t

LEMMA GenPolyAdds ==
    ASSUME NEW c, Well(c), NEW term \in 1 .. Created(c), HasNode(c, term)
    PROVE  Adds(c, c.constants, GenPoly(c, term),
                Expression("poly", "POLILIZE", <<term>>, c.exprs[term].party, c.exprs[term].type, 0, 0))
<1> DEFINE party == c.exprs[term].party
           t == c.exprs[term].type
           e == Expression("poly", "POLILIZE", <<term>>, party, t, 0, 0)
<1>1. /\ Created(c) \in Nat /\ term \in Nat /\ <<term>> \in Seq(Nat)
      /\ c.constants \in SUBSET Seq(Nat)
  <2>1. Created(c) \in Nat /\ c.constants \in SUBSET Seq(Nat)
    BY Sizes
  <2>2. term \in Nat
    BY <2>1
  <2> QED BY <2>1, <2>2, Tuples, Zenon
<1>2. party \in 1 .. PartyCnt /\ t \in {"arith", "bin"}
  <2>1. Fits(c, c.exprs[term], term) /\ c.exprs[term] \in Expr
    BY WellFacts DEF Well
  <2> QED BY <2>1 DEF Fits, Expr, HasNode
<1> HIDE DEF party, t
<1>3. Fits(c, e, Created(c) + 1)
  BY <1>1, <1>2 DEF Fits, Expression
<1>4. e \in Expr /\ e.kind # "share"
  <2>1. PartyCnt \in Nat
    BY FrontendAssumption
  <2> QED BY <1>1, <1>2, <2>1 DEF Expr, Expression, Kinds, Operators
<1>5. GenPoly(c, term) = New(Context(c.exprs, c.shares, c.constants, c.thrown), e)
  BY ContextIs DEF GenPoly, party, t
<1> HIDE DEF e
<1>6. Adds(c, c.constants, New(Context(c.exprs, c.shares, c.constants, c.thrown), e), e)
  BY <1>1, <1>3, <1>4, NewAdds
<1> QED BY <1>5, <1>6 DEF e, party, t

LEMMA NewConstantAdds ==
    ASSUME NEW c, Well(c), NEW name \in Seq(Nat), name \notin c.constants, NEW at \in 0 .. PartyCnt
    PROVE  Adds(c, c.constants \cup {name}, NewConstant(c, name, at),
                Expression("constant", "INPUT", <<>>, 0, "arith", 0, at))
<1> DEFINE e == Expression("constant", "INPUT", <<>>, 0, "arith", 0, at)
<1>1. /\ Created(c) \in Nat /\ c.constants \cup {name} \in SUBSET Seq(Nat)
      /\ at \in Nat /\ at \in 0 .. PartyCnt
  <2>1. Created(c) \in Nat /\ c.constants \cup {name} \in SUBSET Seq(Nat)
    BY WellFacts DEF Well, Contexts
  <2>2. at \in Nat
    BY FrontendAssumption
  <2> QED BY <2>1, <2>2
<1>2. Fits(c, e, Created(c) + 1)
  BY <1>1 DEF Fits, Expression
<1>3. e \in Expr /\ e.kind # "share"
  <2>1. PartyCnt \in Nat
    BY FrontendAssumption
  <2> QED BY <1>1, <2>1 DEF Expr, Expression, Kinds, Operators
<1>4. NewConstant(c, name, at)
        = New(Context(c.exprs, c.shares, c.constants \cup {name}, c.thrown), e)
  BY DEF NewConstant
<1> HIDE DEF e
<1>5. Adds(c, c.constants \cup {name},
           New(Context(c.exprs, c.shares, c.constants \cup {name}, c.thrown), e), e)
  BY <1>1, <1>2, <1>3, NewAdds
<1> QED BY <1>4, <1>5 DEF e

-----------------------------------------------------------------------------
(* Loops that hand out a vector of shares: the i-th turn returns a share   *)
(* of party owner[i].                                                      *)

\* The contexts a loop that started in c gets to.
After(c) == {d \in Contexts : Well(d) /\ Grown(c, d) /\ d.constants = c.constants}

Handed(c, i, owner, type) ==
    {st \in [ctx : After(c), ids : Seq(Nat)] :
        Len(st.ids) = i /\ \A j \in 1 .. i : ShareAt(st.ctx, st.ids[j], owner[j], type)}

LEMMA HandedStart ==
    ASSUME NEW c, Well(c), NEW owner, NEW type
    PROVE  Done(c, <<>>) \in Handed(c, 0, owner, type)
<1>1. c \in After(c)
  BY WellFacts DEF After, Well
<1> QED BY <1>1 DEF Handed, Done

LEMMA HandedMore ==
    ASSUME NEW c, Well(c), NEW owner, NEW type, NEW i \in Nat, i > 0,
           NEW st \in Handed(c, i - 1, owner, type), NEW r, Gives(st.ctx, r, owner[i], type)
    PROVE  Done(r.ctx, st.ids \o r.ids) \in Handed(c, i, owner, type)
<1>1. /\ st.ids \in Seq(Nat) /\ Len(st.ids) = i - 1 /\ Well(st.ctx) /\ Grown(c, st.ctx)
      /\ st.ctx.constants = c.constants
      /\ \A j \in 1 .. i - 1 : ShareAt(st.ctx, st.ids[j], owner[j], type)
  BY DEF Handed, After
<1>2. PICK k : r.ids = <<k>> /\ ShareAt(r.ctx, k, owner[i], type)
  BY DEF Gives
<1>3. Well(r.ctx) /\ Grown(st.ctx, r.ctx) /\ r.ctx.constants = c.constants
  BY <1>1 DEF Gives
<1>4. Grown(c, r.ctx)
  BY <1>1, <1>3, GrownTransitive
<1>5. r.ctx \in After(c)
  BY <1>3, <1>4 DEF After, Well
<1>6. k \in Nat
  BY <1>2, <1>3, ShareFacts
<1> DEFINE ids == st.ids \o <<k>>
<1>7. /\ ids \in Seq(Nat) /\ Len(ids) = i /\ ids[i] = k
      /\ \A j \in 1 .. i - 1 : ids[j] = st.ids[j]
  <2> DEFINE v == st.ids
  <2>1. v \in Seq(Nat) /\ Len(v) = i - 1 /\ k \in Nat
    BY <1>1, <1>6
  <2> HIDE DEF v
  <2>2. /\ v \o <<k>> \in Seq(Nat) /\ Len(v \o <<k>>) = i /\ (v \o <<k>>)[i] = k
        /\ \A j \in 1 .. i - 1 : (v \o <<k>>)[j] = v[j]
    BY <2>1
  <2> QED BY <2>2 DEF v
<1> HIDE DEF ids
<1>8. ASSUME NEW j \in 1 .. i PROVE ShareAt(r.ctx, ids[j], owner[j], type)
  <2>1. CASE j = i
    BY <1>2, <1>7, <2>1
  <2>2. CASE j # i
    <3>1. j \in 1 .. i - 1
      BY <2>2
    <3>2. ShareAt(st.ctx, ids[j], owner[j], type)
      BY <1>1, <1>7, <3>1
    <3> QED BY <1>1, <1>3, <3>2, ShareStays
  <2> QED BY <2>1, <2>2
<1>9. Done(r.ctx, ids) \in Handed(c, i, owner, type)
  BY <1>5, <1>7, <1>8 DEF Handed, Done
<1> QED BY <1>2, <1>9 DEF ids

TurnsGive(c, n, owner, type, turn) ==
    \A d \in After(c) : \A i \in 1 .. n : Gives(d, turn[<<d, i>>], owner[i], type)
HandsAll(c, n, owner, type, turn, f) ==
    /\ f[0] = Done(c, <<>>)
    /\ \A i \in 1 .. n : f[i] = Done(turn[<<f[i - 1].ctx, i>>].ctx,
                                     f[i - 1].ids \o turn[<<f[i - 1].ctx, i>>].ids)
    /\ \A i \in 0 .. n : f[i] \in Handed(c, i, owner, type)

\* Such a loop exists ...
LEMMA HandsOut ==
    ASSUME NEW c, Well(c), NEW n \in Nat, NEW owner, NEW type, NEW turn,
           TurnsGive(c, n, owner, type, turn)
    PROVE  \E f : HandsAll(c, n, owner, type, turn, f)
<1> USE DEF TurnsGive, HandsAll
<1> DEFINE good == [i \in 0 .. n |-> Handed(c, i, owner, type)]
           more(st, i) == Done(turn[<<st.ctx, i>>].ctx, st.ids \o turn[<<st.ctx, i>>].ids)
           States == UNION {good[i] : i \in 0 .. n}
           next == [p \in States \X (1 .. n) |-> more(p[1], p[2])]
           first == Done(c, <<>>)
<1>1. first \in good[0]
  BY HandedStart
<1>2. ASSUME NEW i \in 1 .. n, NEW st \in good[i - 1]
      PROVE  st.ctx.thrown = FALSE /\ more(st, i) \in good[i] /\ next[<<st, i>>] = more(st, i)
  <2>1. i \in Nat /\ i > 0 /\ i - 1 \in 0 .. n /\ i \in 0 .. n
    OBVIOUS
  <2>2. st \in Handed(c, i - 1, owner, type) /\ st \in States
    BY <2>1
  <2>3. st.ctx \in After(c)
    BY <2>2 DEF Handed
  <2>4. Gives(st.ctx, turn[<<st.ctx, i>>], owner[i], type)
    BY <2>3
  <2>5. more(st, i) \in Handed(c, i, owner, type)
    BY <2>1, <2>2, <2>4, HandedMore
  <2>6. next[<<st, i>>] = more(st, i)
    <3> HIDE DEF more, States
    <3> QED BY <2>2
  <2>7. st.ctx.thrown = FALSE
    BY <2>3, WellFacts DEF After
  <2> QED BY <2>1, <2>5, <2>6, <2>7
<1>3. Turns(0, n, first, good, next)
  <2> HIDE DEF good, more, States, next, first
  <2>1. ASSUME NEW i \in 0 + 1 .. n, NEW st \in good[i - 1] PROVE next[<<st, i>>] \in good[i]
    <3>1. i \in 1 .. n
      OBVIOUS
    <3> QED BY <1>2, <3>1, Zenon
  <2> QED BY <1>1, <2>1 DEF Turns
<1>4. PICK f : /\ f[0] = first /\ \A i \in 0 + 1 .. n : f[i] = next[<<f[i - 1], i>>]
               /\ \A i \in 0 .. n : f[i] \in good[i]
  <2> HIDE DEF good, more, States, next, first
  <2>1. 0 \in Nat /\ 0 <= n
    OBVIOUS
  <2>2. \E f : Runs(0, n, first, good, next, f)
    BY <1>3, <2>1, LoopExists
  <2> QED BY <2>2 DEF Runs
<1>5. ASSUME NEW i \in 1 .. n PROVE f[i] = more(f[i - 1], i)
  <2> HIDE DEF good, more, next, first
  <2>1. i \in 1 .. n /\ i - 1 \in 0 .. n /\ i \in 0 + 1 .. n
    OBVIOUS
  <2>2. f[i - 1] \in good[i - 1] /\ f[i] = next[<<f[i - 1], i>>]
    BY <1>4, <2>1, Zenon
  <2> QED BY <1>2, <2>2
<1>6. \A i \in 0 .. n : f[i] \in Handed(c, i, owner, type)
  BY <1>4
<1> QED BY <1>4, <1>5, <1>6

\* ... and whatever runs like it hands out the vector.
LEMMA HandsOutAll ==
    ASSUME NEW c, Well(c), NEW n \in Nat, NEW owner, NEW type, NEW g, g[0] = Done(c, <<>>),
           \A i \in 1 .. n : g[i - 1] \in Handed(c, i - 1, owner, type) =>
              \E r : /\ Gives(g[i - 1].ctx, r, owner[i], type)
                     /\ g[i] = Done(r.ctx, g[i - 1].ids \o r.ids)
    PROVE  g[n] \in Handed(c, n, owner, type)
<1> DEFINE good == [i \in 0 .. n |-> Handed(c, i, owner, type)]
<1>1. g[0] \in good[0]
  BY HandedStart
<1>2. ASSUME NEW i \in 0 + 1 .. n, g[i - 1] \in good[i - 1] PROVE g[i] \in good[i]
  <2>1. i \in 1 .. n /\ i \in Nat /\ i > 0 /\ g[i - 1] \in Handed(c, i - 1, owner, type)
    BY <1>2
  <2>2. PICK r : /\ Gives(g[i - 1].ctx, r, owner[i], type)
                 /\ g[i] = Done(r.ctx, g[i - 1].ids \o r.ids)
    BY <2>1
  <2>3. g[i] \in Handed(c, i, owner, type)
    BY <2>1, <2>2, HandedMore
  <2> QED BY <2>1, <2>3
<1>3. \A i \in 0 .. n : g[i] \in good[i]
  <2> HIDE DEF good
  <2> QED BY <1>1, <1>2, LoopKeeps
<1> QED BY <1>3

TurnsWorth(c, n, owner, type, g, s, val, w) ==
    \A i \in 1 .. n : g[i - 1] \in Handed(c, i - 1, owner, type) =>
        \E r : /\ Gives(g[i - 1].ctx, r, owner[i], type)
               /\ Worth(s, val, r.ctx, r.ids[1], w[i])
               /\ g[i] = Done(r.ctx, g[i - 1].ids \o r.ids)

\* If every turn gives something worth w[i], the members of the vector are worth that.
LEMMA HandedWorth ==
    ASSUME NEW c, Well(c), NEW n \in Nat, NEW owner, NEW type, NEW g, g[0] = Done(c, <<>>),
           NEW s, NEW val, NEW w, TurnsWorth(c, n, owner, type, g, s, val, w)
    PROVE  \A i \in 1 .. n : Worth(s, val, g[n].ctx, g[n].ids[i], w[i])
<1> DEFINE Good(i) == {st \in Handed(c, i, owner, type) :
                          \A j \in 1 .. i : Worth(s, val, st.ctx, st.ids[j], w[j])}
           good == [i \in 0 .. n |-> Good(i)]
<1>1. g[0] \in good[0]
  BY HandedStart
<1>2. ASSUME NEW i \in 0 + 1 .. n, g[i - 1] \in good[i - 1] PROVE g[i] \in good[i]
  <2> DEFINE st == g[i - 1]
  <2>1. /\ i \in 1 .. n /\ i \in Nat /\ i > 0 /\ st \in Handed(c, i - 1, owner, type)
        /\ \A j \in 1 .. i - 1 : Worth(s, val, st.ctx, st.ids[j], w[j])
    BY <1>2
  <2> HIDE DEF st
  <2>2. PICK r : /\ Gives(st.ctx, r, owner[i], type) /\ Worth(s, val, r.ctx, r.ids[1], w[i])
                 /\ g[i] = Done(r.ctx, st.ids \o r.ids)
    BY <2>1 DEF st, TurnsWorth
  <2>3. g[i] \in Handed(c, i, owner, type)
    BY <2>1, <2>2, HandedMore
  <2>4. /\ st.ids \in Seq(Nat) /\ Len(st.ids) = i - 1 /\ Well(st.ctx) /\ Well(r.ctx) /\ Grown(st.ctx, r.ctx)
    BY <2>1, <2>2 DEF Handed, After, Gives
  <2>5. PICK k : r.ids = <<k>>
    BY <2>2 DEF Gives
  <2> DEFINE ids == st.ids \o <<k>>
  <2>6. ids[i] = k /\ \A j \in 1 .. i - 1 : ids[j] = st.ids[j]
    BY <2>1, <2>4
  <2>7. g[i].ctx = r.ctx /\ g[i].ids = ids /\ r.ids[1] = k
    BY <2>2, <2>5 DEF Done
  <2> HIDE DEF ids
  <2>8. ASSUME NEW j \in 1 .. i PROVE Worth(s, val, g[i].ctx, g[i].ids[j], w[j])
    <3>1. CASE j = i
      BY <2>2, <2>6, <2>7, <3>1
    <3>2. CASE j # i
      <4>1. j \in 1 .. i - 1
        BY <3>2
      <4>2. Worth(s, val, st.ctx, st.ids[j], w[j])
        BY <2>1, <4>1
      <4>3. Worth(s, val, r.ctx, st.ids[j], w[j])
        BY <2>4, <4>2, WorthStays
      <4> QED BY <2>6, <2>7, <4>1, <4>3
    <3> QED BY <3>1, <3>2
  <2>9. g[i] \in Good(i)
    BY <2>3, <2>8
  <2> QED BY <2>1, <2>9
<1>3. \A i \in 0 .. n : g[i] \in good[i]
  <2> HIDE DEF good
  <2> QED BY <1>1, <1>2, LoopKeeps
<1>4. g[n] \in Good(n)
  <2> HIDE DEF Good
  <2> QED BY <1>3
<1> QED BY <1>4

-----------------------------------------------------------------------------
(* The operators on vectors.                                               *)

\* The parties in their order, and a vector with a share of each of them.
InOrder == [i \in 1 .. PartyCnt |-> i]
Vector(c, v, type) ==
    /\ v \in Seq(Nat) /\ Len(v) = PartyCnt
    /\ \A i \in 1 .. PartyCnt : ShareAt(c, v[i], i, type)

Results == [ctx : Contexts, ids : Seq(Nat)]
GivesVector(c, r, type) ==
    /\ r \in Results /\ Well(r.ctx) /\ Grown(c, r.ctx) /\ r.ctx.constants = c.constants /\ Vector(r.ctx, r.ids, type)

LEMMA HandedVector ==
    ASSUME NEW c, NEW type, NEW r \in Handed(c, PartyCnt, InOrder, type)
    PROVE  GivesVector(c, r, type)
BY DEF Handed, After, GivesVector, Vector, InOrder, Results

LEMMA VectorStays ==
    ASSUME NEW c, NEW d, Well(c), Well(d), Grown(c, d), NEW v, NEW type, Vector(c, v, type)
    PROVE  Vector(d, v, type)
BY ShareStays DEF Vector

\* What the members of a vector are worth, and the vectors that the operators make.
Worths(s, val, c, v, w) == \A i \in 1 .. PartyCnt : Worth(s, val, c, v[i], w[i])
SumsOf(val, a, b) == [i \in 1 .. PartyCnt |-> Plus(val[a[i]], val[b[i]])]
ProductsOf(val, a, b) == [i \in 1 .. PartyCnt |-> Times(val[a[i]], val[b[i]])]
MultiplesOf(val, a, const) == [i \in 1 .. PartyCnt |-> Times(val[a[i]], val[const])]
PointsOf(s, x, k) == [i \in 1 .. PartyCnt |-> PolyAt(s, x, k, i)]
ValuesOf(val, a) == [i \in 1 .. PartyCnt |-> val[a[i]]]

LEMMA SumGives ==
    ASSUME NEW c, Well(c), NEW a, NEW b, NEW t, NEW u, Vector(c, a, t), Vector(c, b, u)
    PROVE  /\ GivesVector(c, Sum(c, a, b), t)
           /\ \A s, val : Worths(s, val, Sum(c, a, b).ctx, Sum(c, a, b).ids, SumsOf(val, a, b))
<1> DEFINE turn(d, i) == BinaryOp(d, a[i], b[i], "ADD")
           turns == [p \in After(c) \X (1 .. PartyCnt) |-> turn(p[1], p[2])]
           loop(h) == [i \in 0 .. PartyCnt |->
                         IF i = 0 THEN Done(c, <<>>)
                         ELSE IF h[i - 1].ctx.thrown THEN h[i - 1]
                         ELSE Done(turn(h[i - 1].ctx, i).ctx, h[i - 1].ids \o turn(h[i - 1].ctx, i).ids)]
           after == CHOOSE h : h = loop(h)
<1>1. Sum(c, a, b) = after[PartyCnt]
  BY DEF Sum, ForEach
<1>2. ASSUME NEW d \in After(c), NEW i \in 1 .. PartyCnt
      PROVE  /\ Gives(d, turn(d, i), InOrder[i], t)
             /\ \A s, val : Worth(s, val, turn(d, i).ctx, turn(d, i).ids[1], Plus(val[a[i]], val[b[i]]))
  <2>1. ShareAt(d, a[i], i, t) /\ ShareAt(d, b[i], i, u)
    BY ShareStays DEF After, Vector
  <2>2. /\ Gives(d, turn(d, i), i, t)
        /\ \A s, val : Worth(s, val, turn(d, i).ctx, turn(d, i).ids[1], Plus(val[a[i]], val[b[i]]))
    BY <2>1, BinaryGives DEF After
  <2> QED BY <2>2 DEF InOrder
<1> HIDE DEF turn
<1>0. PartyCnt \in Nat
  BY FrontendAssumption
<1>3. PICK f : /\ f[0] = Done(c, <<>>)
               /\ \A i \in 1 .. PartyCnt : f[i] = Done(turns[<<f[i - 1].ctx, i>>].ctx,
                                                f[i - 1].ids \o turns[<<f[i - 1].ctx, i>>].ids)
               /\ \A i \in 0 .. PartyCnt : f[i] \in Handed(c, i, InOrder, t)
  <2>1. TurnsGive(c, PartyCnt, InOrder, t, turns)
    BY <1>2 DEF TurnsGive
  <2> HIDE DEF turns
  <2>2. \E f : HandsAll(c, PartyCnt, InOrder, t, turns, f)
    BY <1>0, <2>1, HandsOut
  <2> QED BY <2>2 DEF HandsAll
<1> DEFINE whole == [i \in 0 .. PartyCnt |-> f[i]]
<1>4. ASSUME NEW i \in 1 .. PartyCnt, NEW st \in Handed(c, i - 1, InOrder, t)
      PROVE  st.ctx \in After(c) /\ st.ctx.thrown = FALSE
  BY WellFacts DEF Handed, After
<1>5. whole = loop(whole)
  <2>1. ASSUME NEW i \in 1 .. PartyCnt
        PROVE  /\ whole[i - 1].ctx.thrown = FALSE
               /\ whole[i] = Done(turn(whole[i - 1].ctx, i).ctx,
                                  whole[i - 1].ids \o turn(whole[i - 1].ctx, i).ids)
    <3>1. whole[i - 1] = f[i - 1] /\ whole[i] = f[i] /\ i - 1 \in 0 .. PartyCnt
      BY <1>0
    <3>2. f[i - 1].ctx \in After(c) /\ f[i - 1].ctx.thrown = FALSE
      BY <1>3, <1>4, <3>1
    <3>3. turns[<<f[i - 1].ctx, i>>] = turn(f[i - 1].ctx, i)
      BY <3>2
    <3> QED BY <1>3, <3>1, <3>2, <3>3
  <2>2. whole[0] = Done(c, <<>>)
    BY <1>0, <1>3
  <2>3. ASSUME NEW i \in 0 .. PartyCnt PROVE whole[i] = loop(whole)[i]
    <3> HIDE DEF whole
    <3>1. i # 0 => i \in 1 .. PartyCnt
      BY <1>0
    <3> QED BY <2>1, <2>2, <3>1
  <2> QED BY <2>3
<1>6. after = loop(after)
  <2> HIDE DEF loop, whole
  <2> QED BY <1>5
<1>7. after[0] = Done(c, <<>>)
  <2> HIDE DEF after
  <2> QED BY <1>0, <1>6
<1>8. ASSUME NEW i \in 1 .. PartyCnt, after[i - 1] \in Handed(c, i - 1, InOrder, t)
      PROVE  /\ after[i - 1].ctx \in After(c)
             /\ after[i] = Done(turn(after[i - 1].ctx, i).ctx,
                                after[i - 1].ids \o turn(after[i - 1].ctx, i).ids)
  <2>1. after[i - 1].ctx \in After(c) /\ after[i - 1].ctx.thrown = FALSE
    BY <1>4, <1>8
  <2> HIDE DEF after
  <2>2. after[i] = Done(turn(after[i - 1].ctx, i).ctx, after[i - 1].ids \o turn(after[i - 1].ctx, i).ids)
    <3>1. i \in 0 .. PartyCnt /\ i # 0
      BY <1>0
    <3>2. after[i] = loop(after)[i]
      BY <1>6
    <3> QED BY <2>1, <3>1, <3>2
  <2> QED BY <2>1, <2>2
<1>9. after[PartyCnt] \in Handed(c, PartyCnt, InOrder, t)
  <2> HIDE DEF after
  <2>1. ASSUME NEW i \in 1 .. PartyCnt, after[i - 1] \in Handed(c, i - 1, InOrder, t)
        PROVE  \E r : /\ Gives(after[i - 1].ctx, r, InOrder[i], t)
                      /\ after[i] = Done(r.ctx, after[i - 1].ids \o r.ids)
    BY <1>2, <1>8, <2>1
  <2> QED BY <1>0, <1>7, <2>1, HandsOutAll
<1>10. ASSUME NEW s, NEW val
       PROVE  Worths(s, val, after[PartyCnt].ctx, after[PartyCnt].ids, SumsOf(val, a, b))
  <2> HIDE DEF after
  <2> DEFINE w == SumsOf(val, a, b)
  <2>1. \A i \in 1 .. PartyCnt : w[i] = Plus(val[a[i]], val[b[i]])
    BY DEF SumsOf
  <2> HIDE DEF w
  <2>2. ASSUME NEW i \in 1 .. PartyCnt, after[i - 1] \in Handed(c, i - 1, InOrder, t)
        PROVE  \E r : /\ Gives(after[i - 1].ctx, r, InOrder[i], t)
                      /\ Worth(s, val, r.ctx, r.ids[1], w[i])
                      /\ after[i] = Done(r.ctx, after[i - 1].ids \o r.ids)
    BY <1>2, <1>8, <2>1, <2>2
  <2>3. TurnsWorth(c, PartyCnt, InOrder, t, after, s, val, w)
    BY <2>2 DEF TurnsWorth
  <2>4. \A i \in 1 .. PartyCnt : Worth(s, val, after[PartyCnt].ctx, after[PartyCnt].ids[i], w[i])
    BY <1>0, <1>7, <2>3, HandedWorth
  <2> QED BY <2>4 DEF Worths, w
<1> HIDE DEF after
<1> QED BY <1>1, <1>9, <1>10, HandedVector

LEMMA StaysThere ==
    ASSUME NEW c, NEW d, Well(c), Well(d), Grown(c, d), NEW k \in 1 .. Created(c)
    PROVE  k \in 1 .. Created(d) /\ d.exprs[k] = c.exprs[k]
<1>1. Created(c) \in Nat /\ Created(d) \in Nat
  BY Sizes
<1> QED BY <1>1 DEF Grown

LEMMA InputSharingGives ==
    ASSUME NEW c, Well(c), NEW t \in {"arith", "bin"}
    PROVE  /\ GivesVector(c, InputSharing(c, t), t)
           /\ \A s, val : Worths(s, val, InputSharing(c, t).ctx, InputSharing(c, t).ids,
                              PointsOf(s, Input(s, Created(c) + 1), Created(c) + 1))
<1> DEFINE turn(d, i) == GenShare(d, i, t)
           turns == [p \in After(c) \X (1 .. PartyCnt) |-> turn(p[1], p[2])]
           loop(h) == [i \in 0 .. PartyCnt |->
                         IF i = 0 THEN Done(c, <<>>)
                         ELSE IF h[i - 1].ctx.thrown THEN h[i - 1]
                         ELSE Done(turn(h[i - 1].ctx, i).ctx, h[i - 1].ids \o turn(h[i - 1].ctx, i).ids)]
           after == CHOOSE h : h = loop(h)
<1>1. InputSharing(c, t) = after[PartyCnt]
  BY DEF InputSharing, ForEach
<1>2. ASSUME NEW d \in After(c), NEW i \in 1 .. PartyCnt
      PROVE  /\ Gives(d, turn(d, i), InOrder[i], t) /\ Created(turn(d, i).ctx) = Created(d) + 1
             /\ \A s, val : Worth(s, val, turn(d, i).ctx, turn(d, i).ids[1],
                               PolyAt(s, Input(s, ((Created(d) + 1) - i) + 1), ((Created(d) + 1) - i) + 1, i))
  BY GenShareGives DEF After, InOrder
<1> HIDE DEF turn
<1>0. PartyCnt \in Nat
  BY FrontendAssumption
<1>3. PICK f : /\ f[0] = Done(c, <<>>)
               /\ \A i \in 1 .. PartyCnt : f[i] = Done(turns[<<f[i - 1].ctx, i>>].ctx,
                                                f[i - 1].ids \o turns[<<f[i - 1].ctx, i>>].ids)
               /\ \A i \in 0 .. PartyCnt : f[i] \in Handed(c, i, InOrder, t)
  <2>1. TurnsGive(c, PartyCnt, InOrder, t, turns)
    BY <1>2 DEF TurnsGive
  <2> HIDE DEF turns
  <2>2. \E f : HandsAll(c, PartyCnt, InOrder, t, turns, f)
    BY <1>0, <2>1, HandsOut
  <2> QED BY <2>2 DEF HandsAll
<1> DEFINE whole == [i \in 0 .. PartyCnt |-> f[i]]
<1>4. ASSUME NEW i \in 1 .. PartyCnt, NEW st \in Handed(c, i - 1, InOrder, t)
      PROVE  st.ctx \in After(c) /\ st.ctx.thrown = FALSE
  BY WellFacts DEF Handed, After
<1>5. whole = loop(whole)
  <2>1. ASSUME NEW i \in 1 .. PartyCnt
        PROVE  /\ whole[i - 1].ctx.thrown = FALSE
               /\ whole[i] = Done(turn(whole[i - 1].ctx, i).ctx,
                                  whole[i - 1].ids \o turn(whole[i - 1].ctx, i).ids)
    <3>1. whole[i - 1] = f[i - 1] /\ whole[i] = f[i] /\ i - 1 \in 0 .. PartyCnt
      BY <1>0
    <3>2. f[i - 1].ctx \in After(c) /\ f[i - 1].ctx.thrown = FALSE
      BY <1>3, <1>4, <3>1
    <3>3. turns[<<f[i - 1].ctx, i>>] = turn(f[i - 1].ctx, i)
      BY <3>2
    <3> QED BY <1>3, <3>1, <3>2, <3>3
  <2>2. whole[0] = Done(c, <<>>)
    BY <1>0, <1>3
  <2>3. ASSUME NEW i \in 0 .. PartyCnt PROVE whole[i] = loop(whole)[i]
    <3> HIDE DEF whole
    <3>1. i # 0 => i \in 1 .. PartyCnt
      BY <1>0
    <3> QED BY <2>1, <2>2, <3>1
  <2> QED BY <2>3
<1>6. after = loop(after)
  <2> HIDE DEF loop, whole
  <2> QED BY <1>5
<1>7. after[0] = Done(c, <<>>)
  <2> HIDE DEF after
  <2> QED BY <1>0, <1>6
<1>8. ASSUME NEW i \in 1 .. PartyCnt, after[i - 1] \in Handed(c, i - 1, InOrder, t)
      PROVE  /\ after[i - 1].ctx \in After(c)
             /\ after[i] = Done(turn(after[i - 1].ctx, i).ctx,
                                after[i - 1].ids \o turn(after[i - 1].ctx, i).ids)
  <2>1. after[i - 1].ctx \in After(c) /\ after[i - 1].ctx.thrown = FALSE
    BY <1>4, <1>8
  <2> HIDE DEF after
  <2>2. after[i] = Done(turn(after[i - 1].ctx, i).ctx, after[i - 1].ids \o turn(after[i - 1].ctx, i).ids)
    <3>1. i \in 0 .. PartyCnt /\ i # 0
      BY <1>0
    <3>2. after[i] = loop(after)[i]
      BY <1>6
    <3> QED BY <2>1, <3>1, <3>2
  <2> QED BY <2>1, <2>2
<1>9. after[PartyCnt] \in Handed(c, PartyCnt, InOrder, t)
  <2> HIDE DEF after
  <2>1. ASSUME NEW i \in 1 .. PartyCnt, after[i - 1] \in Handed(c, i - 1, InOrder, t)
        PROVE  \E r : /\ Gives(after[i - 1].ctx, r, InOrder[i], t)
                      /\ after[i] = Done(r.ctx, after[i - 1].ids \o r.ids)
    BY <1>2, <1>8, <2>1
  <2> QED BY <1>0, <1>7, <2>1, HandsOutAll
<1>10. Created(c) \in Nat
  BY Sizes
<1>11. \A i \in 0 .. PartyCnt : after[i] \in Handed(c, i, InOrder, t) /\ Created(after[i].ctx) = Created(c) + i
  <2> HIDE DEF after
  <2> DEFINE Good(i) == {st \in Handed(c, i, InOrder, t) : Created(st.ctx) = Created(c) + i}
             good == [i \in 0 .. PartyCnt |-> Good(i)]
  <2>1. after[0] \in good[0]
    BY <1>0, <1>7, <1>10, HandedStart DEF Done
  <2>2. ASSUME NEW i \in 0 + 1 .. PartyCnt, after[i - 1] \in good[i - 1] PROVE after[i] \in good[i]
    <3> DEFINE st == after[i - 1]
               r == turn(st.ctx, i)
    <3>1. /\ i \in 1 .. PartyCnt /\ i \in Nat /\ i > 0 /\ st \in Handed(c, i - 1, InOrder, t)
          /\ Created(st.ctx) = Created(c) + (i - 1)
      BY <1>0, <2>2
    <3>2. st.ctx \in After(c) /\ after[i] = Done(r.ctx, st.ids \o r.ids)
      BY <1>8, <3>1
    <3>3. Gives(st.ctx, r, InOrder[i], t) /\ Created(r.ctx) = Created(st.ctx) + 1
      BY <1>2, <3>1, <3>2
    <3> HIDE DEF st, r
    <3>4. after[i] \in Handed(c, i, InOrder, t)
      BY <3>1, <3>2, <3>3, HandedMore
    <3>5. Created(after[i].ctx) = Created(c) + i
      BY <1>10, <3>1, <3>2, <3>3 DEF Done
    <3> QED BY <3>1, <3>4, <3>5
  <2>3. \A i \in 0 .. PartyCnt : after[i] \in good[i]
    <3> HIDE DEF good
    <3> QED BY <1>0, <2>1, <2>2, LoopKeeps
  <2> QED BY <2>3
<1>w. ASSUME NEW s, NEW val
      PROVE  Worths(s, val, after[PartyCnt].ctx, after[PartyCnt].ids,
                    PointsOf(s, Input(s, Created(c) + 1), Created(c) + 1))
  <2> HIDE DEF after
  <2> DEFINE k == Created(c) + 1
             w == PointsOf(s, Input(s, k), k)
  <2>1. \A i \in 1 .. PartyCnt : w[i] = PolyAt(s, Input(s, k), k, i)
    BY DEF PointsOf
  <2>2. ASSUME NEW i \in 1 .. PartyCnt PROVE ((Created(after[i - 1].ctx) + 1) - i) + 1 = k
    BY <1>0, <1>10, <1>11
  <2> HIDE DEF w, k
  <2>3. ASSUME NEW i \in 1 .. PartyCnt, after[i - 1] \in Handed(c, i - 1, InOrder, t)
        PROVE  \E r : /\ Gives(after[i - 1].ctx, r, InOrder[i], t)
                      /\ Worth(s, val, r.ctx, r.ids[1], w[i])
                      /\ after[i] = Done(r.ctx, after[i - 1].ids \o r.ids)
    <3> DEFINE d == after[i - 1].ctx
    <3>1. d \in After(c) /\ after[i] = Done(turn(d, i).ctx, after[i - 1].ids \o turn(d, i).ids)
      BY <1>8, <2>3
    <3>2. ((Created(d) + 1) - i) + 1 = k
      BY <2>2
    <3> HIDE DEF d
    <3>3. /\ Gives(d, turn(d, i), InOrder[i], t)
          /\ Worth(s, val, turn(d, i).ctx, turn(d, i).ids[1], PolyAt(s, Input(s, k), k, i))
      BY <1>2, <3>1, <3>2
    <3> QED BY <2>1, <3>1, <3>3 DEF d
  <2>4. TurnsWorth(c, PartyCnt, InOrder, t, after, s, val, w)
    BY <2>3 DEF TurnsWorth
  <2>5. \A i \in 1 .. PartyCnt : Worth(s, val, after[PartyCnt].ctx, after[PartyCnt].ids[i], w[i])
    BY <1>0, <1>7, <2>4, HandedWorth
  <2> QED BY <2>5 DEF w, k, Worths
<1> HIDE DEF after
<1> QED BY <1>1, <1>9, <1>w, HandedVector

\* A vector that is scaled by a constant.
LEMMA ScaledGives ==
    ASSUME NEW c, Well(c), NEW a, NEW const \in 1 .. Created(c), NEW t, Vector(c, a, t),
           c.exprs[const].kind = "constant"
    PROVE  /\ GivesVector(c, Scaled(c, a, const), t)
           /\ \A s, val : Worths(s, val, Scaled(c, a, const).ctx, Scaled(c, a, const).ids,
                              MultiplesOf(val, a, const))
<1> DEFINE turn(d, i) == ScalarMul(d, a[i], const)
           turns == [p \in After(c) \X (1 .. PartyCnt) |-> turn(p[1], p[2])]
           loop(h) == [i \in 0 .. PartyCnt |->
                         IF i = 0 THEN Done(c, <<>>)
                         ELSE IF h[i - 1].ctx.thrown THEN h[i - 1]
                         ELSE Done(turn(h[i - 1].ctx, i).ctx, h[i - 1].ids \o turn(h[i - 1].ctx, i).ids)]
           after == CHOOSE h : h = loop(h)
<1>1. ForEach(c, PartyCnt, LAMBDA d, i : ScalarMul(d, a[i], const)) = after[PartyCnt]
  BY DEF ForEach
<1>2. ASSUME NEW d \in After(c), NEW i \in 1 .. PartyCnt
      PROVE  /\ Gives(d, turn(d, i), InOrder[i], t)
             /\ \A s, val : Worth(s, val, turn(d, i).ctx, turn(d, i).ids[1], Times(val[a[i]], val[const]))
  <2>1. Well(d) /\ Grown(c, d)
    BY DEF After
  <2>2. ShareAt(d, a[i], i, t)
    BY <2>1, ShareStays DEF Vector
  <2>3. const \in 1 .. Created(d) /\ d.exprs[const].kind = "constant"
    BY <2>1, StaysThere
  <2> HIDE DEF turn
  <2>4. /\ Gives(d, turn(d, i), i, t)
        /\ \A s, val : Worth(s, val, turn(d, i).ctx, turn(d, i).ids[1], Times(val[a[i]], val[const]))
    BY <2>1, <2>2, <2>3, ScalarGives DEF turn
  <2> QED BY <2>4 DEF InOrder
<1> HIDE DEF turn
<1>0. PartyCnt \in Nat
  BY FrontendAssumption
<1>3. PICK f : /\ f[0] = Done(c, <<>>)
               /\ \A i \in 1 .. PartyCnt : f[i] = Done(turns[<<f[i - 1].ctx, i>>].ctx,
                                                f[i - 1].ids \o turns[<<f[i - 1].ctx, i>>].ids)
               /\ \A i \in 0 .. PartyCnt : f[i] \in Handed(c, i, InOrder, t)
  <2>1. TurnsGive(c, PartyCnt, InOrder, t, turns)
    BY <1>2 DEF TurnsGive
  <2> HIDE DEF turns
  <2>2. \E f : HandsAll(c, PartyCnt, InOrder, t, turns, f)
    BY <1>0, <2>1, HandsOut
  <2> QED BY <2>2 DEF HandsAll
<1> DEFINE whole == [i \in 0 .. PartyCnt |-> f[i]]
<1>4. ASSUME NEW i \in 1 .. PartyCnt, NEW st \in Handed(c, i - 1, InOrder, t)
      PROVE  st.ctx \in After(c) /\ st.ctx.thrown = FALSE
  BY WellFacts DEF Handed, After
<1>5. whole = loop(whole)
  <2>1. ASSUME NEW i \in 1 .. PartyCnt
        PROVE  /\ whole[i - 1].ctx.thrown = FALSE
               /\ whole[i] = Done(turn(whole[i - 1].ctx, i).ctx,
                                  whole[i - 1].ids \o turn(whole[i - 1].ctx, i).ids)
    <3>1. whole[i - 1] = f[i - 1] /\ whole[i] = f[i] /\ i - 1 \in 0 .. PartyCnt
      BY <1>0
    <3>2. f[i - 1].ctx \in After(c) /\ f[i - 1].ctx.thrown = FALSE
      BY <1>3, <1>4, <3>1
    <3>3. turns[<<f[i - 1].ctx, i>>] = turn(f[i - 1].ctx, i)
      BY <3>2
    <3> QED BY <1>3, <3>1, <3>2, <3>3
  <2>2. whole[0] = Done(c, <<>>)
    BY <1>0, <1>3
  <2>3. ASSUME NEW i \in 0 .. PartyCnt PROVE whole[i] = loop(whole)[i]
    <3> HIDE DEF whole
    <3>1. i # 0 => i \in 1 .. PartyCnt
      BY <1>0
    <3> QED BY <2>1, <2>2, <3>1
  <2> QED BY <2>3
<1>6. after = loop(after)
  <2> HIDE DEF loop, whole
  <2> QED BY <1>5
<1>7. after[0] = Done(c, <<>>)
  <2> HIDE DEF after
  <2> QED BY <1>0, <1>6
<1>8. ASSUME NEW i \in 1 .. PartyCnt, after[i - 1] \in Handed(c, i - 1, InOrder, t)
      PROVE  /\ after[i - 1].ctx \in After(c)
             /\ after[i] = Done(turn(after[i - 1].ctx, i).ctx,
                                after[i - 1].ids \o turn(after[i - 1].ctx, i).ids)
  <2>1. after[i - 1].ctx \in After(c) /\ after[i - 1].ctx.thrown = FALSE
    BY <1>4, <1>8
  <2> HIDE DEF after
  <2>2. after[i] = Done(turn(after[i - 1].ctx, i).ctx, after[i - 1].ids \o turn(after[i - 1].ctx, i).ids)
    <3>1. i \in 0 .. PartyCnt /\ i # 0
      BY <1>0
    <3>2. after[i] = loop(after)[i]
      BY <1>6
    <3> QED BY <2>1, <3>1, <3>2
  <2> QED BY <2>1, <2>2
<1>9. after[PartyCnt] \in Handed(c, PartyCnt, InOrder, t)
  <2> HIDE DEF after
  <2>1. ASSUME NEW i \in 1 .. PartyCnt, after[i - 1] \in Handed(c, i - 1, InOrder, t)
        PROVE  \E r : /\ Gives(after[i - 1].ctx, r, InOrder[i], t)
                      /\ after[i] = Done(r.ctx, after[i - 1].ids \o r.ids)
    BY <1>2, <1>8, <2>1
  <2> QED BY <1>0, <1>7, <2>1, HandsOutAll
<1>w. ASSUME NEW s, NEW val
      PROVE  \A i \in 1 .. PartyCnt : Worth(s, val, after[PartyCnt].ctx, after[PartyCnt].ids[i], MultiplesOf(val, a, const)[i])
  <2> HIDE DEF after
  <2> DEFINE w == MultiplesOf(val, a, const)
  <2>1. \A i \in 1 .. PartyCnt : w[i] = Times(val[a[i]], val[const])
    BY DEF MultiplesOf
  <2> HIDE DEF w
  <2>2. ASSUME NEW i \in 1 .. PartyCnt, after[i - 1] \in Handed(c, i - 1, InOrder, t)
        PROVE  \E r : /\ Gives(after[i - 1].ctx, r, InOrder[i], t)
                      /\ Worth(s, val, r.ctx, r.ids[1], w[i])
                      /\ after[i] = Done(r.ctx, after[i - 1].ids \o r.ids)
    BY <1>2, <1>8, <2>1, <2>2
  <2>3. TurnsWorth(c, PartyCnt, InOrder, t, after, s, val, w)
    BY <2>2 DEF TurnsWorth
  <2>4. \A i \in 1 .. PartyCnt : Worth(s, val, after[PartyCnt].ctx, after[PartyCnt].ids[i], w[i])
    BY <1>0, <1>7, <2>3, HandedWorth
  <2> QED BY <2>4 DEF w
<1> DEFINE r == ForEach(c, PartyCnt, LAMBDA d, i : ScalarMul(d, a[i], const))
<1>10. /\ GivesVector(c, r, t)
       /\ \A s, val : Worths(s, val, r.ctx, r.ids, MultiplesOf(val, a, const))
  <2> HIDE DEF after, r
  <2>1. r = after[PartyCnt]
    BY <1>1 DEF r
  <2> QED BY <1>9, <1>w, <2>1, HandedVector DEF Worths
<1>11. Scaled(c, a, const) = Done(r.ctx, r.ids \o SubSeq(a, PartyCnt + 1, Len(a)))
  BY DEF Scaled
<1> HIDE DEF r
<1>12. r.ids \o SubSeq(a, PartyCnt + 1, Len(a)) = r.ids
  <2>1. a \in Seq(Nat) /\ Len(a) = PartyCnt /\ r.ids \in Seq(Nat)
    BY <1>10 DEF Vector, GivesVector
  <2>2. SubSeq(a, PartyCnt + 1, Len(a)) = <<>>
    BY <1>0, <2>1
  <2> QED BY <2>1, <2>2
<1>13. GivesVector(c, Done(r.ctx, r.ids), t)
  BY <1>10 DEF GivesVector, Done, Results, Well, Vector
<1>14. Done(r.ctx, r.ids).ctx = r.ctx /\ Done(r.ctx, r.ids).ids = r.ids
  BY DEF Done
<1> QED BY <1>10, <1>11, <1>12, <1>13, <1>14

\* The dealer's shares of something that has a value.
LEMMA SharingGives ==
    ASSUME NEW c, Well(c), NEW term \in 1 .. Created(c), HasNode(c, term)
    PROVE  /\ GivesVector(c, Sharing(c, term), c.exprs[term].type)
           /\ \A s, val : Worths(s, val, Sharing(c, term).ctx, Sharing(c, term).ids,
                              PointsOf(s, val[term], Created(c) + 1))
<1> DEFINE dealer == c.exprs[term].party
           t == c.exprs[term].type
           poly == GenPoly(c, term)
           k == Created(c) + 1
           b == poly.ctx
<1>a. /\ Well(b) /\ Grown(c, b) /\ b.constants = c.constants /\ Created(b) = k /\ poly.ids = <<k>>
      /\ b.exprs[k] = Expression("poly", "POLILIZE", <<term>>, dealer, t, 0, 0)
  BY GenPolyAdds DEF Adds
<1>b. /\ k \in 1 .. Created(b) /\ poly.ids[1] = k
      /\ b.exprs[k].kind = "poly" /\ b.exprs[k].party = dealer /\ b.exprs[k].type = t
  <2>1. Created(c) \in Nat
    BY Sizes
  <2> HIDE DEF dealer, t, b
  <2> QED BY <1>a, <2>1 DEF Expression
<1>c. \A s, val : Worth(s, val, b, k, val[term])
  <2> SUFFICES ASSUME NEW s, NEW val PROVE Worth(s, val, b, k, val[term])
    OBVIOUS
  <2> DEFINE e == Expression("poly", "POLILIZE", <<term>>, dealer, t, 0, 0)
  <2>1. e.kind = "poly" /\ e.op = "POLILIZE" /\ e.args[1] = term
    BY DEF Expression
  <2>2. Adds(c, c.constants, poly, e)
    BY GenPolyAdds
  <2> HIDE DEF e, poly, b
  <2>3. Worth(s, val, poly.ctx, poly.ids[1], Value(s, e, val, poly.ids[1]))
    BY <2>2, AddedWorth
  <2>4. Value(s, e, val, poly.ids[1]) = val[term]
    BY <2>1, CopiedValue
  <2> QED BY <1>b, <2>3, <2>4 DEF b
<1> DEFINE turn(d, i) == Transfer(Eval(d, poly.ids[1], i).ctx, Eval(d, poly.ids[1], i).ids[1], i)
           turns == [p \in After(b) \X (1 .. PartyCnt) |-> turn(p[1], p[2])]
           loop(h) == [i \in 0 .. PartyCnt |->
                         IF i = 0 THEN Done(b, <<>>)
                         ELSE IF h[i - 1].ctx.thrown THEN h[i - 1]
                         ELSE Done(turn(h[i - 1].ctx, i).ctx, h[i - 1].ids \o turn(h[i - 1].ctx, i).ids)]
           after == CHOOSE h : h = loop(h)
<1>1. Sharing(c, term) = after[PartyCnt]
  BY DEF Sharing, ForEach
<1>2. ASSUME NEW d \in After(b), NEW i \in 1 .. PartyCnt
      PROVE  /\ Gives(d, turn(d, i), InOrder[i], t)
             /\ \A s, val : Worth(s, val, turn(d, i).ctx, turn(d, i).ids[1], PolyAt(s, val[term], k, i))
  <2> HIDE DEF b, k, dealer, t, poly
  <2>1. Well(d) /\ Grown(b, d)
    BY DEF After
  <2>2. k \in 1 .. Created(d) /\ d.exprs[k] = b.exprs[k] /\ i \in Nat
    <3>1. i \in Nat
      BY FrontendAssumption
    <3>2. Well(b) /\ k \in 1 .. Created(b)
      BY <1>a, <1>b
    <3> QED BY <2>1, <3>1, <3>2, StaysThere, Zenon
  <2>3. /\ Gives(d, Eval(d, k, i), dealer, t)
        /\ \A s, val : Worth(s, val, Eval(d, k, i).ctx, Eval(d, k, i).ids[1], PolyAt(s, val[k], k, i))
    BY <1>b, <2>1, <2>2, EvalGives
  <2> DEFINE s == Eval(d, k, i)
  <2> HIDE DEF s
  <2>4. /\ Gives(d, s, dealer, t)
        /\ \A u, val : Worth(u, val, s.ctx, s.ids[1], PolyAt(u, val[k], k, i))
    BY <2>3 DEF s
  <2>5. Well(s.ctx) /\ Grown(d, s.ctx) /\ ShareAt(s.ctx, s.ids[1], dealer, t)
    BY <2>4 DEF Gives
  <2> DEFINE r == Transfer(s.ctx, s.ids[1], i)
  <2>6. /\ Gives(s.ctx, r, i, t)
        /\ \A u, val : Worth(u, val, r.ctx, r.ids[1], val[s.ids[1]])
    BY <2>5, TransferGives
  <2>7. Gives(d, r, i, t)
    BY <2>1, <2>4, <2>6, GivesThen
  <2>8. r = turn(d, i)
    BY <1>b DEF s
  <2> HIDE DEF r, turn
  <2>9. ASSUME NEW u, NEW val PROVE Worth(u, val, r.ctx, r.ids[1], PolyAt(u, val[term], k, i))
    <3>1. Well(r.ctx) /\ Grown(s.ctx, r.ctx) /\ Grown(d, r.ctx)
      BY <2>6, <2>7 DEF Gives
    <3>2. Worth(u, val, r.ctx, s.ids[1], PolyAt(u, val[k], k, i))
      BY <2>4, <2>5, <3>1, WorthStays
    <3>3. Grown(b, r.ctx) /\ Well(b) /\ Worth(u, val, b, k, val[term])
      BY <1>a, <1>c, <2>1, <3>1, GrownTransitive
    <3>4. Worth(u, val, r.ctx, k, val[term])
      BY <3>1, <3>3, WorthStays
    <3> QED BY <2>6, <3>2, <3>4 DEF Worth
  <2> QED BY <2>7, <2>8, <2>9 DEF InOrder
<1> HIDE DEF b, k, dealer, t, poly
<1> HIDE DEF turn
<1>0. PartyCnt \in Nat
  BY FrontendAssumption
<1>3. PICK f : /\ f[0] = Done(b, <<>>)
               /\ \A i \in 1 .. PartyCnt : f[i] = Done(turns[<<f[i - 1].ctx, i>>].ctx,
                                                f[i - 1].ids \o turns[<<f[i - 1].ctx, i>>].ids)
               /\ \A i \in 0 .. PartyCnt : f[i] \in Handed(b, i, InOrder, t)
  <2>1. TurnsGive(b, PartyCnt, InOrder, t, turns)
    BY <1>2 DEF TurnsGive
  <2> HIDE DEF turns
  <2>2. \E f : HandsAll(b, PartyCnt, InOrder, t, turns, f)
    BY <1>0, <2>1, <1>a, HandsOut
  <2> QED BY <2>2 DEF HandsAll
<1> DEFINE whole == [i \in 0 .. PartyCnt |-> f[i]]
<1>4. ASSUME NEW i \in 1 .. PartyCnt, NEW st \in Handed(b, i - 1, InOrder, t)
      PROVE  st.ctx \in After(b) /\ st.ctx.thrown = FALSE
  BY <1>a, WellFacts DEF Handed, After
<1>5. whole = loop(whole)
  <2>1. ASSUME NEW i \in 1 .. PartyCnt
        PROVE  /\ whole[i - 1].ctx.thrown = FALSE
               /\ whole[i] = Done(turn(whole[i - 1].ctx, i).ctx,
                                  whole[i - 1].ids \o turn(whole[i - 1].ctx, i).ids)
    <3>1. whole[i - 1] = f[i - 1] /\ whole[i] = f[i] /\ i - 1 \in 0 .. PartyCnt
      BY <1>0
    <3>2. f[i - 1].ctx \in After(b) /\ f[i - 1].ctx.thrown = FALSE
      BY <1>3, <1>4, <3>1
    <3>3. turns[<<f[i - 1].ctx, i>>] = turn(f[i - 1].ctx, i)
      BY <3>2
    <3> QED BY <1>3, <3>1, <3>2, <3>3
  <2>2. whole[0] = Done(b, <<>>)
    BY <1>0, <1>3
  <2>3. ASSUME NEW i \in 0 .. PartyCnt PROVE whole[i] = loop(whole)[i]
    <3> HIDE DEF whole
    <3>1. i # 0 => i \in 1 .. PartyCnt
      BY <1>0
    <3> QED BY <2>1, <2>2, <3>1
  <2> QED BY <2>3
<1>6. after = loop(after)
  <2> HIDE DEF loop, whole
  <2> QED BY <1>5
<1>7. after[0] = Done(b, <<>>)
  <2> HIDE DEF after
  <2> QED BY <1>0, <1>6
<1>8. ASSUME NEW i \in 1 .. PartyCnt, after[i - 1] \in Handed(b, i - 1, InOrder, t)
      PROVE  /\ after[i - 1].ctx \in After(b)
             /\ after[i] = Done(turn(after[i - 1].ctx, i).ctx,
                                after[i - 1].ids \o turn(after[i - 1].ctx, i).ids)
  <2>1. after[i - 1].ctx \in After(b) /\ after[i - 1].ctx.thrown = FALSE
    BY <1>4, <1>8
  <2> HIDE DEF after
  <2>2. after[i] = Done(turn(after[i - 1].ctx, i).ctx, after[i - 1].ids \o turn(after[i - 1].ctx, i).ids)
    <3>1. i \in 0 .. PartyCnt /\ i # 0
      BY <1>0
    <3>2. after[i] = loop(after)[i]
      BY <1>6
    <3> QED BY <2>1, <3>1, <3>2
  <2> QED BY <2>1, <2>2
<1>9. after[PartyCnt] \in Handed(b, PartyCnt, InOrder, t)
  <2> HIDE DEF after
  <2>1. ASSUME NEW i \in 1 .. PartyCnt, after[i - 1] \in Handed(b, i - 1, InOrder, t)
        PROVE  \E r : /\ Gives(after[i - 1].ctx, r, InOrder[i], t)
                      /\ after[i] = Done(r.ctx, after[i - 1].ids \o r.ids)
    BY <1>2, <1>8, <2>1
  <2> QED BY <1>0, <1>7, <2>1, <1>a, HandsOutAll
<1>w. ASSUME NEW s, NEW val
      PROVE  \A i \in 1 .. PartyCnt : Worth(s, val, after[PartyCnt].ctx, after[PartyCnt].ids[i], PointsOf(s, val[term], k)[i])
  <2> HIDE DEF after
  <2> DEFINE w == PointsOf(s, val[term], k)
  <2>1. \A i \in 1 .. PartyCnt : w[i] = PolyAt(s, val[term], k, i)
    BY DEF PointsOf
  <2> HIDE DEF w
  <2>2. ASSUME NEW i \in 1 .. PartyCnt, after[i - 1] \in Handed(b, i - 1, InOrder, t)
        PROVE  \E r : /\ Gives(after[i - 1].ctx, r, InOrder[i], t)
                      /\ Worth(s, val, r.ctx, r.ids[1], w[i])
                      /\ after[i] = Done(r.ctx, after[i - 1].ids \o r.ids)
    BY <1>2, <1>8, <2>1, <2>2
  <2>3. TurnsWorth(b, PartyCnt, InOrder, t, after, s, val, w)
    BY <2>2 DEF TurnsWorth
  <2>4. \A i \in 1 .. PartyCnt : Worth(s, val, after[PartyCnt].ctx, after[PartyCnt].ids[i], w[i])
    BY <1>0, <1>7, <2>3, <1>a, HandedWorth
  <2> QED BY <2>4 DEF w
<1>10. /\ GivesVector(b, Sharing(c, term), t)
       /\ \A s, val : Worths(s, val, Sharing(c, term).ctx, Sharing(c, term).ids, PointsOf(s, val[term], k))
  <2> HIDE DEF after
  <2> QED BY <1>1, <1>9, <1>w, HandedVector DEF Worths
<1>11. GivesVector(c, Sharing(c, term), t)
  <2> DEFINE r == Sharing(c, term)
  <2> HIDE DEF r
  <2>1. GivesVector(b, r, t)
    BY <1>10 DEF r
  <2>2. Grown(c, r.ctx)
    BY <1>a, <2>1, GrownTransitive DEF GivesVector
  <2>3. GivesVector(c, r, t)
    BY <1>a, <2>1, <2>2 DEF GivesVector
  <2> QED BY <2>3 DEF r
<1> QED BY <1>10, <1>11 DEF t, k

\* The shares of a vector, sent to one party and put together there.
LEMMA OpenedGives ==
    ASSUME NEW c, Well(c), NEW a, NEW t, Vector(c, a, t), NEW party \in 1 .. PartyCnt,
           NEW given \in {{}} \cup {{m} : m \in GivenNames}
    PROVE  /\ Well(Opened(c, a, party, given).ctx) /\ Grown(c, Opened(c, a, party, given).ctx)
           /\ Opened(c, a, party, given).ctx.constants = c.constants
           /\ \E k \in Created(c) + 1 .. Created(Opened(c, a, party, given).ctx) :
                 /\ Opened(c, a, party, given).ids = <<k>>
                 /\ Opened(c, a, party, given).ctx.exprs[k].kind = "share"
                 /\ Opened(c, a, party, given).ctx.exprs[k].op = "RECONSTRUCT"
                 /\ \A s, val : Worth(s, val, Opened(c, a, party, given).ctx, k,
                                   At0(FieldSize, PartyCnt, ValuesOf(val, a), Everyone))
<1> DEFINE owner == [i \in 1 .. PartyCnt |-> party]
           sent == ForEach(c, Len(a), LAMBDA d, i : Transfer(d, a[i], party))
<1>a. Len(a) = PartyCnt
  BY DEF Vector
<1> HIDE DEF owner, sent
<1> DEFINE turn(d, i) == Transfer(d, a[i], party)
           turns == [p \in After(c) \X (1 .. Len(a)) |-> turn(p[1], p[2])]
           loop(h) == [i \in 0 .. Len(a) |->
                         IF i = 0 THEN Done(c, <<>>)
                         ELSE IF h[i - 1].ctx.thrown THEN h[i - 1]
                         ELSE Done(turn(h[i - 1].ctx, i).ctx, h[i - 1].ids \o turn(h[i - 1].ctx, i).ids)]
           after == CHOOSE h : h = loop(h)
<1>1. sent = after[Len(a)]
  BY DEF ForEach, sent
<1>2. ASSUME NEW d \in After(c), NEW i \in 1 .. Len(a)
      PROVE  /\ Gives(d, turn(d, i), owner[i], t)
             /\ \A s, val : Worth(s, val, turn(d, i).ctx, turn(d, i).ids[1], val[a[i]])
  <2>1. ShareAt(d, a[i], i, t)
    BY <1>a, ShareStays DEF After, Vector
  <2>2. /\ Gives(d, turn(d, i), party, t)
        /\ \A s, val : Worth(s, val, turn(d, i).ctx, turn(d, i).ids[1], val[a[i]])
    BY <2>1, TransferGives DEF After
  <2> QED BY <1>a, <2>2 DEF owner
<1> HIDE DEF turn
<1>0. Len(a) \in Nat
  BY <1>a, FrontendAssumption
<1>3. PICK f : /\ f[0] = Done(c, <<>>)
               /\ \A i \in 1 .. Len(a) : f[i] = Done(turns[<<f[i - 1].ctx, i>>].ctx,
                                                f[i - 1].ids \o turns[<<f[i - 1].ctx, i>>].ids)
               /\ \A i \in 0 .. Len(a) : f[i] \in Handed(c, i, owner, t)
  <2>1. TurnsGive(c, Len(a), owner, t, turns)
    BY <1>2 DEF TurnsGive
  <2> HIDE DEF turns
  <2>2. \E f : HandsAll(c, Len(a), owner, t, turns, f)
    BY <1>0, <2>1, HandsOut
  <2> QED BY <2>2 DEF HandsAll
<1> DEFINE whole == [i \in 0 .. Len(a) |-> f[i]]
<1>4. ASSUME NEW i \in 1 .. Len(a), NEW st \in Handed(c, i - 1, owner, t)
      PROVE  st.ctx \in After(c) /\ st.ctx.thrown = FALSE
  BY WellFacts DEF Handed, After
<1>5. whole = loop(whole)
  <2>1. ASSUME NEW i \in 1 .. Len(a)
        PROVE  /\ whole[i - 1].ctx.thrown = FALSE
               /\ whole[i] = Done(turn(whole[i - 1].ctx, i).ctx,
                                  whole[i - 1].ids \o turn(whole[i - 1].ctx, i).ids)
    <3>1. whole[i - 1] = f[i - 1] /\ whole[i] = f[i] /\ i - 1 \in 0 .. Len(a)
      BY <1>0
    <3>2. f[i - 1].ctx \in After(c) /\ f[i - 1].ctx.thrown = FALSE
      BY <1>3, <1>4, <3>1
    <3>3. turns[<<f[i - 1].ctx, i>>] = turn(f[i - 1].ctx, i)
      BY <3>2
    <3> QED BY <1>3, <3>1, <3>2, <3>3
  <2>2. whole[0] = Done(c, <<>>)
    BY <1>0, <1>3
  <2>3. ASSUME NEW i \in 0 .. Len(a) PROVE whole[i] = loop(whole)[i]
    <3> HIDE DEF whole
    <3>1. i # 0 => i \in 1 .. Len(a)
      BY <1>0
    <3> QED BY <2>1, <2>2, <3>1
  <2> QED BY <2>3
<1>6. after = loop(after)
  <2> HIDE DEF loop, whole
  <2> QED BY <1>5
<1>7. after[0] = Done(c, <<>>)
  <2> HIDE DEF after
  <2> QED BY <1>0, <1>6
<1>8. ASSUME NEW i \in 1 .. Len(a), after[i - 1] \in Handed(c, i - 1, owner, t)
      PROVE  /\ after[i - 1].ctx \in After(c)
             /\ after[i] = Done(turn(after[i - 1].ctx, i).ctx,
                                after[i - 1].ids \o turn(after[i - 1].ctx, i).ids)
  <2>1. after[i - 1].ctx \in After(c) /\ after[i - 1].ctx.thrown = FALSE
    BY <1>4, <1>8
  <2> HIDE DEF after
  <2>2. after[i] = Done(turn(after[i - 1].ctx, i).ctx, after[i - 1].ids \o turn(after[i - 1].ctx, i).ids)
    <3>1. i \in 0 .. Len(a) /\ i # 0
      BY <1>0
    <3>2. after[i] = loop(after)[i]
      BY <1>6
    <3> QED BY <2>1, <3>1, <3>2
  <2> QED BY <2>1, <2>2
<1>9. after[Len(a)] \in Handed(c, Len(a), owner, t)
  <2> HIDE DEF after
  <2>1. ASSUME NEW i \in 1 .. Len(a), after[i - 1] \in Handed(c, i - 1, owner, t)
        PROVE  \E r : /\ Gives(after[i - 1].ctx, r, owner[i], t)
                      /\ after[i] = Done(r.ctx, after[i - 1].ids \o r.ids)
    BY <1>2, <1>8, <2>1
  <2> QED BY <1>0, <1>7, <2>1, HandsOutAll
<1>w. ASSUME NEW s, NEW val
      PROVE  \A i \in 1 .. Len(a) : Worth(s, val, after[Len(a)].ctx, after[Len(a)].ids[i], ValuesOf(val, a)[i])
  <2> HIDE DEF after
  <2> DEFINE w == ValuesOf(val, a)
  <2>1. \A i \in 1 .. Len(a) : w[i] = val[a[i]]
    BY <1>a DEF ValuesOf
  <2> HIDE DEF w
  <2>2. ASSUME NEW i \in 1 .. Len(a), after[i - 1] \in Handed(c, i - 1, owner, t)
        PROVE  \E r : /\ Gives(after[i - 1].ctx, r, owner[i], t)
                      /\ Worth(s, val, r.ctx, r.ids[1], w[i])
                      /\ after[i] = Done(r.ctx, after[i - 1].ids \o r.ids)
    <3> DEFINE d == after[i - 1].ctx
    <3>1. d \in After(c) /\ after[i] = Done(turn(d, i).ctx, after[i - 1].ids \o turn(d, i).ids)
      BY <1>8, <2>2
    <3> HIDE DEF d
    <3>2. /\ Gives(d, turn(d, i), owner[i], t)
          /\ Worth(s, val, turn(d, i).ctx, turn(d, i).ids[1], val[a[i]])
      BY <1>2, <3>1
    <3> QED BY <2>1, <3>1, <3>2 DEF d
  <2>3. TurnsWorth(c, Len(a), owner, t, after, s, val, w)
    BY <2>2 DEF TurnsWorth
  <2>4. \A i \in 1 .. Len(a) : Worth(s, val, after[Len(a)].ctx, after[Len(a)].ids[i], w[i])
    BY <1>0, <1>7, <2>3, HandedWorth
  <2> QED BY <2>4 DEF w
<1>10. /\ Well(sent.ctx) /\ Grown(c, sent.ctx) /\ sent.ctx.constants = c.constants
       /\ sent.ids \in Seq(Nat) /\ Len(sent.ids) = PartyCnt /\ DOMAIN sent.ids = 1 .. PartyCnt
       /\ \A i \in 1 .. PartyCnt : ShareAt(sent.ctx, sent.ids[i], party, t)
  <2>1. sent \in Handed(c, PartyCnt, owner, t)
    BY <1>1, <1>9, <1>a
  <2>2. /\ sent.ctx \in After(c) /\ sent.ids \in Seq(Nat) /\ Len(sent.ids) = PartyCnt
        /\ \A i \in 1 .. PartyCnt : ShareAt(sent.ctx, sent.ids[i], party, t)
    BY <2>1 DEF Handed, owner
  <2> QED BY <2>2 DEF After
<1>b. ASSUME NEW s, NEW val, NEW i \in 1 .. PartyCnt
      PROVE  Worth(s, val, sent.ctx, sent.ids[i], val[a[i]])
  <2> HIDE DEF after, sent
  <2>1. ValuesOf(val, a)[i] = val[a[i]] /\ i \in 1 .. Len(a)
    BY <1>a DEF ValuesOf
  <2> QED BY <1>1, <1>a, <1>w, <2>1
<1> DEFINE name == IF given = {} THEN NShare(sent.ctx) ELSE CHOOSE m \in given : TRUE
           e == Expression("share", "RECONSTRUCT", sent.ids, party, t, name, 0)
           r == NewShare(sent.ctx, "RECONSTRUCT", sent.ids, party, t, name, 0)
<1>11. name \in Nat /\ (GivenNames = {} => name = NShare(sent.ctx))
  <2>1. NShare(sent.ctx) \in Nat
    BY <1>10, Sizes
  <2>2. CASE given = {}
    BY <2>1, <2>2
  <2>3. CASE given # {}
    <3>1. PICK m \in GivenNames : given = {m}
      BY <2>3
    <3>2. name = m
      BY <3>1
    <3> QED BY <3>1, <3>2, FrontendAssumption
  <2> QED BY <2>2, <2>3
<1> HIDE DEF name
<1>12. /\ t \in {"arith", "bin"} /\ 1 \in 1 .. PartyCnt
       /\ \A i \in 1 .. PartyCnt :
             /\ sent.ids[i] \in 1 .. Created(sent.ctx) /\ HasNode(sent.ctx, sent.ids[i])
             /\ sent.ctx.exprs[sent.ids[i]].party = party
             /\ sent.ctx.exprs[sent.ids[i]].type = t
  <2>1. 1 \in 1 .. PartyCnt
    BY FrontendAssumption
  <2> QED BY <1>10, <2>1, ShareFacts
<1>13. Opened(c, a, party, given) = r
  BY <1>10, <1>12 DEF Opened, Reconstruct, name, sent
<1>14. Created(sent.ctx) \in Nat /\ Created(c) \in Nat
  BY <1>10, Sizes
<1>15. Fits(sent.ctx, e, Created(sent.ctx) + 1)
  <2>1. Together(sent.ctx, sent.ids)
    BY <1>10, <1>12 DEF Together
  <2>2. /\ e.kind = "share" /\ e.op = "RECONSTRUCT" /\ e.args = sent.ids /\ e.party = party
    BY DEF Expression
  <2> HIDE DEF e
  <2>3. \A i \in DOMAIN e.args : e.args[i] \in 1 .. (Created(sent.ctx) + 1) - 1 /\ HasNode(sent.ctx, e.args[i])
    BY <1>10, <1>12, <1>14, <2>2
  <2> QED BY <1>10, <2>1, <2>2, <2>3 DEF Fits
<1>16. Adds(sent.ctx, sent.ctx.constants, r, e)
  <2> HIDE DEF r, e
  <2>1. "RECONSTRUCT" \in Operators /\ 0 \in Nat
    BY Ops
  <2> QED BY <1>10, <1>11, <1>12, <1>15, <2>1, NewShareAdds DEF r, e
<1>17. e.kind = "share" /\ e.op = "RECONSTRUCT" /\ e.args = sent.ids
  BY DEF Expression
<1> HIDE DEF r, e
<1>18. Well(r.ctx) /\ Grown(c, r.ctx) /\ r.ctx.constants = c.constants
  <2>1. Well(r.ctx) /\ Grown(sent.ctx, r.ctx) /\ r.ctx.constants = c.constants
    BY <1>10, <1>16 DEF Adds
  <2> QED BY <1>10, <2>1, GrownTransitive
<1>19. \E k \in Created(c) + 1 .. Created(r.ctx) :
          /\ r.ids = <<k>> /\ r.ctx.exprs[k].kind = "share" /\ r.ctx.exprs[k].op = "RECONSTRUCT"
          /\ \A s, val : Worth(s, val, r.ctx, k, At0(FieldSize, PartyCnt, ValuesOf(val, a), Everyone))
  <2> DEFINE k == Created(sent.ctx) + 1
  <2>1. r.ids = <<k>> /\ r.ctx.exprs[k] = e /\ Created(r.ctx) = k
    BY <1>16 DEF Adds
  <2>2. k \in Created(c) + 1 .. Created(r.ctx)
    BY <1>10, <1>14, <2>1 DEF Grown
  <2>3. r.ids[1] = k
    BY <2>1
  <2> HIDE DEF k
  <2>4. ASSUME NEW s, NEW val
        PROVE  Worth(s, val, r.ctx, k, At0(FieldSize, PartyCnt, ValuesOf(val, a), Everyone))
    <3> SUFFICES ASSUME Evaluates(s, val, r.ctx)
                 PROVE  val[k] = At0(FieldSize, PartyCnt, ValuesOf(val, a), Everyone)
      BY DEF Worth
    <3>1. Worth(s, val, r.ctx, k, Value(s, e, val, k))
      BY <1>10, <1>16, <2>3, AddedWorth
    <3>2. Value(s, e, val, k) = At0(FieldSize, PartyCnt, [i \in DOMAIN e.args |-> val[e.args[i]]], Everyone)
      BY <1>17, ReconstructedValue
    <3>3. Evaluates(s, val, sent.ctx)
      BY <1>10, <1>16, EvaluatesOlder DEF Adds
    <3>4. [i \in DOMAIN e.args |-> val[e.args[i]]] = ValuesOf(val, a)
      BY <1>10, <1>17, <1>b, <3>3 DEF ValuesOf, Worth
    <3> QED BY <3>1, <3>2, <3>4 DEF Worth
  <2> QED BY <1>17, <2>1, <2>2, <2>4
<1> QED BY <1>13, <1>18, <1>19

-----------------------------------------------------------------------------
(* Sharings.                                                               *)

\* The members of v are worth a sharing of m.
IsShared(val, v, m) == IsSharing(FieldSize, ValuesOf(val, v), InOrder, T, m)

LEMMA FieldFacts ==
    /\ IsField(FieldSize) /\ FieldSize \in Nat \ {0}
    /\ PartyCnt \in Nat \ {0} /\ PartyCnt < FieldSize /\ T \in Nat
    /\ DOMAIN InOrder = 1 .. PartyCnt
    /\ \A i \in DOMAIN InOrder : InOrder[i] = i /\ InOrder[i] \in Int /\ i \in 1 .. PartyCnt
<1>1. /\ FieldSize \in Nat /\ FieldSize > PartyCnt
      /\ \A a \in 1 .. FieldSize - 1 : \E b \in 1 .. FieldSize - 1 : (b * a) % FieldSize = 1
  BY MeaningAssumption
<1>2. PartyCnt \in Nat \ {0} /\ T \in Nat
  BY FrontendAssumption
<1>3. FieldSize \in Nat \ {0} /\ PartyCnt < FieldSize
  BY <1>1, <1>2
<1>4. IsField(FieldSize)
  BY <1>1, <1>3 DEF IsField
<1>5. /\ DOMAIN InOrder = 1 .. PartyCnt
      /\ \A i \in DOMAIN InOrder : InOrder[i] = i /\ InOrder[i] \in Int /\ i \in 1 .. PartyCnt
  BY <1>2 DEF InOrder
<1> QED BY <1>2, <1>3, <1>4, <1>5

\* What is shared is known up to its remainder.
LEMMA SameSecret ==
    ASSUME NEW n \in Nat, NEW values, NEW a \in Int, NEW b \in Int, Congruent(FieldSize, a, b),
           IsSharing(FieldSize, values, InOrder, n, a)
    PROVE  IsSharing(FieldSize, values, InOrder, n, b)
<1>1. PICK c \in UpTo(n) : /\ c[0] = a
                           /\ \A i \in DOMAIN InOrder : values[i] = Series(c, InOrder[i])[n] % FieldSize
  BY FieldFacts, SharingSeries
<1> QED BY <1>1, FieldFacts, SeriesSharing

\* A dealer's shares are a sharing.
LEMMA PointsShared ==
    ASSUME NEW s, InField(s), NEW x \in Int, NEW k \in Nat
    PROVE  IsSharing(FieldSize, PointsOf(s, x, k), InOrder, T, x)
<1> DEFINE coeffs == [j \in 1 .. T |-> Coefficient(s, k, j)]
           c == Padded(x, coeffs, T)
<1>0. T \in Nat
  BY FieldFacts
<1>1. coeffs \in [1 .. T -> Int]
  BY <1>0 DEF InField
<1>2. c[0] = x
  BY DEF Padded
<1>3. ASSUME NEW i \in DOMAIN InOrder
      PROVE  PointsOf(s, x, k)[i] = Polynomial(FieldSize, x, coeffs, i) /\ InOrder[i] = i /\ i \in Int
  BY FieldFacts DEF PointsOf, PolyAt
<1> HIDE DEF coeffs
<1>4. c \in UpTo(T)
  <2>1. 0 \in Int
    OBVIOUS
  <2> QED BY <1>0, <1>1, <2>1, FieldFacts, PolynomialIsSeries
<1>5. ASSUME NEW i \in DOMAIN InOrder
      PROVE  InOrder[i] \in Int /\ PointsOf(s, x, k)[i] = Series(c, InOrder[i])[T] % FieldSize
  BY <1>0, <1>1, <1>3, FieldFacts, PolynomialIsSeries
<1>6. Congruent(FieldSize, c[0], x)
  BY <1>2 DEF Congruent
<1> HIDE DEF c
<1> QED BY <1>0, <1>4, <1>5, <1>6, FieldFacts, SeriesSharing

\* Sums and products of sharings.
LEMMA SumsShared ==
    ASSUME NEW n \in Nat, NEW a \in Int, NEW b \in Int, NEW v, NEW w, NEW r,
           IsSharing(FieldSize, v, InOrder, n, a), IsSharing(FieldSize, w, InOrder, n, b),
           \A i \in DOMAIN InOrder : r[i] = (v[i] + w[i]) % FieldSize
    PROVE  IsSharing(FieldSize, r, InOrder, n, a + b)
<1> DEFINE secret == a + b
<1>1. FieldSize \in Nat \ {0} /\ \A i \in DOMAIN InOrder : InOrder[i] \in Int
  BY FieldFacts
<1>2. secret = a + b
  OBVIOUS
<1> HIDE DEF secret
<1>3. (\A i \in DOMAIN InOrder : r[i] = (v[i] + w[i]) % FieldSize)
          => IsSharing(FieldSize, r, InOrder, n, secret)
  BY <1>1, <1>2, SharingsCombine
<1> QED BY <1>2, <1>3

LEMMA ProductsShared ==
    ASSUME NEW n \in Nat, NEW m \in Nat, NEW a \in Int, NEW b \in Int, NEW v, NEW w, NEW r,
           IsSharing(FieldSize, v, InOrder, n, a), IsSharing(FieldSize, w, InOrder, m, b),
           \A i \in DOMAIN InOrder : r[i] = (v[i] * w[i]) % FieldSize
    PROVE  IsSharing(FieldSize, r, InOrder, n + m, a * b)
<1> DEFINE secret == a * b
           deg == n + m
<1>1. FieldSize \in Nat \ {0} /\ \A i \in DOMAIN InOrder : InOrder[i] \in Int
  BY FieldFacts
<1>2. secret = a * b /\ deg = n + m
  OBVIOUS
<1> HIDE DEF secret, deg
<1>3. (\A i \in DOMAIN InOrder : r[i] = (v[i] * w[i]) % FieldSize)
          => IsSharing(FieldSize, r, InOrder, deg, secret)
  BY <1>1, <1>2, SharingsCombine
<1> QED BY <1>2, <1>3

\* A sharing that is scaled is a sharing.
LEMMA MultiplesShared ==
    ASSUME NEW n \in Nat, NEW v, \A i \in 1 .. PartyCnt : v[i] \in Int, NEW m \in Int, NEW x \in Int,
           IsSharing(FieldSize, v, InOrder, n, m),
           NEW r, \A i \in 1 .. PartyCnt : r[i] = (v[i] * x) % FieldSize
    PROVE  IsSharing(FieldSize, r, InOrder, n, m * x)
<1> DEFINE c == [i \in Nat |-> IF i = 0 THEN x ELSE 0]
           w == [i \in 1 .. PartyCnt |-> x % FieldSize]
<1>1. c \in UpTo(0) /\ c[0] = x
  BY DEF UpTo, PowerCoefficients
<1>2. ASSUME NEW i \in DOMAIN InOrder
      PROVE  InOrder[i] \in Int /\ w[i] = Series(c, InOrder[i])[0] % FieldSize
  <2>1. InOrder[i] \in Int /\ w[i] = x % FieldSize
    BY FieldFacts
  <2>2. Series(c, InOrder[i])[0] = x
    BY <1>1, <2>1, SeriesConstant
  <2> QED BY <2>1, <2>2
<1>3. Congruent(FieldSize, c[0], x)
  BY <1>1 DEF Congruent
<1> HIDE DEF c
<1>4. IsSharing(FieldSize, w, InOrder, 0, x)
  <2>1. 0 \in Nat
    OBVIOUS
  <2> HIDE DEF w
  <2> QED BY <1>1, <1>2, <1>3, <2>1, FieldFacts, SeriesSharing
<1>5. ASSUME NEW i \in DOMAIN InOrder PROVE r[i] = (v[i] * w[i]) % FieldSize
  <2>1. i \in 1 .. PartyCnt /\ v[i] \in Int /\ r[i] = (v[i] * x) % FieldSize /\ w[i] = x % FieldSize
    BY FieldFacts
  <2> HIDE DEF w
  <2>2. w[i] \in Int /\ Congruent(FieldSize, w[i], x)
    BY <2>1, FieldFacts, RemainderTwice
  <2>3. Congruent(FieldSize, v[i], v[i])
    BY DEF Congruent
  <2>4. Congruent(FieldSize, v[i] * w[i], v[i] * x)
    BY <2>1, <2>2, <2>3, FieldFacts, CongruentOperations
  <2> QED BY <2>1, <2>4 DEF Congruent
<1> HIDE DEF w
<1>6. IsSharing(FieldSize, r, InOrder, n + 0, m * x)
  <2>1. 0 \in Nat
    OBVIOUS
  <2> QED BY <1>4, <1>5, <2>1, ProductsShared
<1>7. n + 0 = n
  OBVIOUS
<1> QED BY <1>6, <1>7

LEMMA ValuesAre ==
    ASSUME NEW s, NEW val, NEW c, Well(c), NEW v, NEW t, Vector(c, v, t), Evaluates(s, val, c)
    PROVE  \A i \in 1 .. PartyCnt : val[v[i]] \in Int /\ ValuesOf(val, v)[i] = val[v[i]]
<1>1. ASSUME NEW i \in 1 .. PartyCnt PROVE v[i] \in 1 .. Created(c)
  BY DEF Vector, ShareAt
<1> QED BY <1>1 DEF Evaluates, ValuesOf

LEMMA WorthsAre ==
    ASSUME NEW s, NEW val, NEW c, NEW v, NEW w, Worths(s, val, c, v, w), Evaluates(s, val, c)
    PROVE  \A i \in 1 .. PartyCnt : ValuesOf(val, v)[i] = w[i]
BY DEF Worths, Worth, ValuesOf

\* What the operators make of sharings.
LEMMA SumShares ==
    ASSUME NEW c, Well(c), NEW a, NEW b, NEW t, NEW u, Vector(c, a, t), Vector(c, b, u),
           NEW s, NEW val, Evaluates(s, val, Sum(c, a, b).ctx),
           NEW m \in Int, NEW n \in Int, IsShared(val, a, m), IsShared(val, b, n)
    PROVE  IsShared(val, Sum(c, a, b).ids, m + n)
<1> DEFINE r == Sum(c, a, b)
<1>1. Worths(s, val, r.ctx, r.ids, SumsOf(val, a, b))
  BY SumGives
<1> HIDE DEF r
<1>2. ASSUME NEW i \in DOMAIN InOrder
      PROVE  ValuesOf(val, r.ids)[i] = (ValuesOf(val, a)[i] + ValuesOf(val, b)[i]) % FieldSize
  <2>1. i \in 1 .. PartyCnt
    BY FieldFacts
  <2>2. ValuesOf(val, r.ids)[i] = SumsOf(val, a, b)[i]
    BY <1>1, <2>1, WorthsAre DEF r
  <2> QED BY <2>1, <2>2 DEF SumsOf, Plus, ValuesOf
<1>3. IsSharing(FieldSize, ValuesOf(val, r.ids), InOrder, T, m + n)
  BY <1>2, FieldFacts, SumsShared DEF IsShared
<1> QED BY <1>3 DEF IsShared, r

LEMMA ScaledShares ==
    ASSUME NEW c, Well(c), NEW a, NEW const \in 1 .. Created(c), NEW t, Vector(c, a, t),
           c.exprs[const].kind = "constant",
           NEW s, NEW val, Evaluates(s, val, Scaled(c, a, const).ctx),
           NEW m \in Int, IsShared(val, a, m)
    PROVE  IsShared(val, Scaled(c, a, const).ids, m * val[const])
<1> DEFINE r == Scaled(c, a, const)
<1>1. Worths(s, val, r.ctx, r.ids, MultiplesOf(val, a, const)) /\ Well(r.ctx) /\ Grown(c, r.ctx)
  BY ScaledGives DEF GivesVector
<1> HIDE DEF r
<1>2. Evaluates(s, val, c)
  BY <1>1, EvaluatesOlder DEF r
<1>3. val[const] \in Int /\ \A i \in 1 .. PartyCnt : ValuesOf(val, a)[i] \in Int
  BY <1>2, ValuesAre DEF Evaluates
<1>4. ASSUME NEW i \in 1 .. PartyCnt
      PROVE  ValuesOf(val, r.ids)[i] = (ValuesOf(val, a)[i] * val[const]) % FieldSize
  <2>1. ValuesOf(val, r.ids)[i] = MultiplesOf(val, a, const)[i]
    BY <1>1, WorthsAre DEF r
  <2> QED BY <2>1 DEF MultiplesOf, Times, ValuesOf
<1>5. IsSharing(FieldSize, ValuesOf(val, r.ids), InOrder, T, m * val[const])
  BY <1>3, <1>4, FieldFacts, MultiplesShared DEF IsShared
<1> QED BY <1>5 DEF IsShared, r

LEMMA PointsAreShared ==
    ASSUME NEW s, NEW val, NEW c, NEW v, NEW x \in Int, NEW k \in Nat,
           Worths(s, val, c, v, PointsOf(s, x, k)), Evaluates(s, val, c)
    PROVE  IsShared(val, v, x)
<1>1. IsSharing(FieldSize, PointsOf(s, x, k), InOrder, T, x)
  BY PointsShared DEF Evaluates
<1>2. \A i \in DOMAIN InOrder : ValuesOf(val, v)[i] = PointsOf(s, x, k)[i]
  BY WorthsAre, FieldFacts
<1> QED BY <1>1, <1>2 DEF IsShared, IsSharing

LEMMA SharingShares ==
    ASSUME NEW c, Well(c), NEW term \in 1 .. Created(c), HasNode(c, term),
           NEW s, NEW val, Evaluates(s, val, Sharing(c, term).ctx)
    PROVE  IsShared(val, Sharing(c, term).ids, val[term])
<1> DEFINE r == Sharing(c, term)
           k == Created(c) + 1
<1>1. /\ Worths(s, val, r.ctx, r.ids, PointsOf(s, val[term], k)) /\ Well(r.ctx) /\ Grown(c, r.ctx)
  BY SharingGives DEF GivesVector
<1> HIDE DEF r
<1>2. val[term] \in Int
  BY <1>1, EvaluatesOlder DEF Evaluates, r
<1>3. k \in Nat
  BY Sizes
<1> QED BY <1>1, <1>2, <1>3, PointsAreShared DEF r

LEMMA InputSharingShares ==
    ASSUME NEW c, Well(c), NEW t \in {"arith", "bin"},
           NEW s, NEW val, Evaluates(s, val, InputSharing(c, t).ctx)
    PROVE  /\ Input(s, Created(c) + 1) \in Int
           /\ IsShared(val, InputSharing(c, t).ids, Input(s, Created(c) + 1))
<1> DEFINE r == InputSharing(c, t)
           k == Created(c) + 1
           x == Input(s, k)
<1>1. Worths(s, val, r.ctx, r.ids, PointsOf(s, x, k))
  BY InputSharingGives
<1>2. k \in Nat
  BY Sizes
<1>3. x \in Int
  <2>1. x \in 0 .. FieldSize - 1
    BY <1>2 DEF Evaluates, InField
  <2> QED BY <2>1, FieldFacts
<1> HIDE DEF r, k, x
<1>4. IsShared(val, r.ids, x)
  BY <1>1, <1>2, <1>3, PointsAreShared DEF r
<1> QED BY <1>3, <1>4 DEF r, k, x

\* What is put together from all shares of a sharing.
LEMMA OpenedReconstructs ==
    ASSUME NEW val, NEW v, NEW m \in 0 .. FieldSize - 1, IsShared(val, v, m),
           NEW P \in SUBSET Everyone, Cardinality(P) > T
    PROVE  At0(FieldSize, PartyCnt, ValuesOf(val, v), P) = m
<1>1. IsSharing(FieldSize, ValuesOf(val, v), [i \in 1 .. PartyCnt |-> i], T, m)
  BY DEF IsShared, InOrder
<1>2. m \in Int /\ (m % FieldSize) = m
  BY FieldFacts, Reduced
<1>3. P \in SUBSET (1 .. PartyCnt)
  BY DEF Everyone
<1> QED BY <1>1, <1>2, <1>3, FieldFacts, Interpolation

\* A step of the program that makes a vector and uses up a constant name or more.
PartGives(c, r, type, constants) ==
    /\ r \in Results /\ Well(r.ctx) /\ Grown(c, r.ctx) /\ r.ctx.constants = c.constants \cup constants
    /\ Vector(r.ctx, r.ids, type)

\* Party i's share of the product, with its weight; and that r makes a sharing of m.
Part(val, a, b, i) == Weight(FieldSize, PartyCnt, i, Everyone) * ProductsOf(val, a, b)[i]
PartShares(s, val, r, m) == Evaluates(s, val, r.ctx) => IsShared(val, r.ids, m)

LEMMA ProductOfPartyGives ==
    ASSUME NEW c, Well(c), NEW a, NEW b, NEW t, NEW u, Vector(c, a, t), Vector(c, b, u),
           NEW k \in Nat, NEW i \in 1 .. PartyCnt, <<k, i>> \notin c.constants
    PROVE  /\ PartGives(c, ProductOfParty(c, a, b, k, i), t, {<<k, i>>})
           /\ \A s, val : PartShares(s, val, ProductOfParty(c, a, b, k, i), Part(val, a, b, i))
<1> DEFINE m == BinaryOp(c, a[i], b[i], "MUL")
           inter == Sharing(m.ctx, m.ids[1])
           lambda == NewConstant(inter.ctx, <<k, i>>, i)
           r == Scaled(lambda.ctx, inter.ids, lambda.ids[1])
           id == Created(inter.ctx) + 1
           const == Expression("constant", "INPUT", <<>>, 0, "arith", 0, i)
<1>1. ProductOfParty(c, a, b, k, i) = r
  BY DEF ProductOfParty
<1>2. i \in Nat /\ i \in 0 .. PartyCnt /\ <<k, i>> \in Seq(Nat)
  <2>1. i \in Nat /\ i \in 0 .. PartyCnt
    BY FrontendAssumption
  <2> QED BY <2>1, Tuples
<1>3. ShareAt(c, a[i], i, t) /\ ShareAt(c, b[i], i, u)
  BY DEF Vector
<1> HIDE DEF m, inter, lambda, r, id, const
<1>4. Gives(c, m, i, t)
  BY <1>3, BinaryGives DEF m
<1>5. /\ Well(m.ctx) /\ Grown(c, m.ctx) /\ m.ctx.constants = c.constants
      /\ ShareAt(m.ctx, m.ids[1], i, t)
  BY <1>4 DEF Gives
<1>6. m.ids[1] \in 1 .. Created(m.ctx) /\ HasNode(m.ctx, m.ids[1]) /\ m.ctx.exprs[m.ids[1]].type = t
  BY <1>5, ShareFacts
<1>7. GivesVector(m.ctx, inter, t)
  BY <1>5, <1>6, SharingGives DEF inter
<1>8. /\ Well(inter.ctx) /\ Grown(m.ctx, inter.ctx) /\ inter.ctx.constants = c.constants
      /\ Vector(inter.ctx, inter.ids, t) /\ Created(inter.ctx) \in Nat
  BY <1>5, <1>7, Sizes DEF GivesVector
<1>9. Adds(inter.ctx, inter.ctx.constants \cup {<<k, i>>}, lambda, const)
  BY <1>2, <1>8, NewConstantAdds DEF lambda, const
<1>10. /\ Well(lambda.ctx) /\ Grown(inter.ctx, lambda.ctx)
       /\ lambda.ctx.constants = c.constants \cup {<<k, i>>}
       /\ lambda.ids[1] = id /\ Created(lambda.ctx) = id /\ lambda.ctx.exprs[id] = const
  BY <1>8, <1>9 DEF Adds, id
<1>11. /\ id \in 1 .. Created(lambda.ctx) /\ lambda.ctx.exprs[id].kind = "constant"
       /\ Vector(lambda.ctx, inter.ids, t)
  <2>1. id \in 1 .. Created(lambda.ctx)
    BY <1>8, <1>10 DEF id
  <2>2. lambda.ctx.exprs[id].kind = "constant"
    BY <1>10 DEF const, Expression
  <2> QED BY <1>8, <1>10, <2>1, <2>2, VectorStays
<1>12. GivesVector(lambda.ctx, r, t)
  <2>1. r = Scaled(lambda.ctx, inter.ids, id)
    BY <1>10 DEF r
  <2> QED BY <1>10, <1>11, <2>1, ScaledGives
<1>13. /\ r \in Results /\ Well(r.ctx) /\ Grown(lambda.ctx, r.ctx) /\ Vector(r.ctx, r.ids, t)
       /\ r.ctx.constants = c.constants \cup {<<k, i>>}
  BY <1>10, <1>12 DEF GivesVector
<1>14. Grown(c, r.ctx)
  <2>1. Grown(c, inter.ctx)
    BY <1>5, <1>8, GrownTransitive
  <2>2. Grown(c, lambda.ctx)
    BY <1>8, <1>10, <2>1, GrownTransitive
  <2> QED BY <1>10, <1>13, <2>2, GrownTransitive
<1>15. PartGives(c, r, t, {<<k, i>>})
  BY <1>13, <1>14 DEF PartGives
<1>16. ASSUME NEW s, NEW val PROVE PartShares(s, val, r, Part(val, a, b, i))
  <2> SUFFICES ASSUME Evaluates(s, val, r.ctx) PROVE IsShared(val, r.ids, Part(val, a, b, i))
    BY DEF PartShares
  <2>1. Evaluates(s, val, lambda.ctx)
    BY <1>10, <1>13, EvaluatesOlder
  <2>2. Evaluates(s, val, inter.ctx)
    BY <1>8, <1>10, <2>1, EvaluatesOlder
  <2>3. Evaluates(s, val, m.ctx)
    BY <1>5, <1>8, <2>2, EvaluatesOlder
  <2>4. IsShared(val, inter.ids, val[m.ids[1]]) /\ val[m.ids[1]] \in Int
    BY <1>5, <1>6, <2>2, <2>3, SharingShares DEF inter, Evaluates
  <2>5. val[m.ids[1]] = Times(val[a[i]], val[b[i]])
    <3>1. Worth(s, val, m.ctx, m.ids[1], Times(val[a[i]], val[b[i]]))
      BY <1>3, BinaryGives DEF m
    <3> QED BY <2>3, <3>1 DEF Worth
  <2>6. val[id] = Weight(FieldSize, PartyCnt, i, Everyone)
    <3>1. Worth(s, val, lambda.ctx, id, Value(s, const, val, id))
      BY <1>8, <1>9, <1>10, AddedWorth
    <3>2. const.kind = "constant" /\ const.op = "INPUT" /\ const.at = i /\ i # 0
      BY <1>2, FrontendAssumption DEF const, Expression
    <3>3. Value(s, const, val, id) = Weight(FieldSize, PartyCnt, i, Everyone)
      BY <3>2, ConstantValue
    <3> QED BY <2>1, <3>1, <3>3 DEF Worth
  <2>7. IsShared(val, r.ids, val[m.ids[1]] * val[id])
    <3>1. r = Scaled(lambda.ctx, inter.ids, id)
      BY <1>10 DEF r
    <3> QED BY <1>10, <1>11, <2>4, <3>1, ScaledShares
  <2>8. val[id] \in Int
    BY <1>11, <2>1 DEF Evaluates
  <2>9. val[m.ids[1]] * val[id] = Part(val, a, b, i)
    <3> DEFINE x == Times(val[a[i]], val[b[i]])
               y == Weight(FieldSize, PartyCnt, i, Everyone)
    <3>1. x \in Int /\ y \in Int /\ x * y = y * x
      BY <2>4, <2>5, <2>6, <2>8
    <3> QED BY <2>5, <2>6, <3>1 DEF Part, ProductsOf
  <2> QED BY <2>7, <2>9
<1> QED BY <1>1, <1>15, <1>16

\* The sum of the parts of the first i parties.
PartSum(val, a, b, i) == Total(Weighted(FieldSize, PartyCnt, Everyone, ProductsOf(val, a, b)), i)

LEMMA ProductsAre ==
    ASSUME NEW s, NEW val, NEW c, Well(c), NEW a, NEW b, NEW t, NEW u, Vector(c, a, t), Vector(c, b, u),
           Evaluates(s, val, c)
    PROVE  Numbers(Everyone, ProductsOf(val, a, b))
<1>1. ASSUME NEW i \in Everyone PROVE ProductsOf(val, a, b)[i] \in Int
  <2>1. i \in 1 .. PartyCnt /\ val[a[i]] \in Int /\ val[b[i]] \in Int
    BY ValuesAre DEF Everyone
  <2>2. Times(val[a[i]], val[b[i]]) \in Int
    <3> DEFINE x == val[a[i]] * val[b[i]]
    <3>1. x \in Int
      BY <2>1
    <3> HIDE DEF x
    <3>2. (x % FieldSize) \in Int
      BY <3>1, FieldFacts, RemainderTwice
    <3> QED BY <3>2 DEF Times, x
  <2> QED BY <2>1, <2>2 DEF ProductsOf
<1> QED BY <1>1 DEF Numbers

LEMMA PartSums ==
    ASSUME NEW s, NEW val, NEW c, Well(c), NEW a, NEW b, NEW t, NEW u, Vector(c, a, t), Vector(c, b, u),
           Evaluates(s, val, c)
    PROVE  /\ PartSum(val, a, b, 1) = Part(val, a, b, 1)
           /\ \A i \in 2 .. PartyCnt :
                 /\ PartSum(val, a, b, i - 1) \in Int /\ Part(val, a, b, i) \in Int
                 /\ PartSum(val, a, b, i) = PartSum(val, a, b, i - 1) + Part(val, a, b, i)
<1> DEFINE g == ProductsOf(val, a, b)
           w == Weighted(FieldSize, PartyCnt, Everyone, g)
<1>1. Numbers(Everyone, g)
  BY ProductsAre
<1> HIDE DEF g
<1>2. IsWeighted(FieldSize, PartyCnt, Everyone, g, w)
  BY <1>1, FieldFacts, WeightedType DEF Everyone
<1> HIDE DEF w
<1>3. /\ w \in PowerCoefficients /\ w[0] = 0
      /\ \A i \in 1 .. PartyCnt : w[i] = Part(val, a, b, i) /\ w[i] \in Int
  <2>1. 0 \in Nat \ Everyone /\ \A i \in Everyone : i \in Nat
    BY FieldFacts DEF Everyone
  <2> QED BY <1>2, <2>1 DEF IsWeighted, Part, g, Everyone, PowerCoefficients
<1>4. /\ Total(w, 0) = 0
      /\ \A k \in Nat : Total(w, k) \in Int /\ Total(w, k + 1) = Total(w, k) + w[k + 1]
  BY <1>3, TotalStep
<1>5. Total(w, 1) = Part(val, a, b, 1)
  <2>1. 0 \in Nat /\ 0 + 1 = 1 /\ 1 \in 1 .. PartyCnt
    BY FieldFacts
  <2> QED BY <1>3, <1>4, <2>1
<1>6. ASSUME NEW i \in 2 .. PartyCnt
      PROVE  /\ Total(w, i - 1) \in Int /\ Part(val, a, b, i) \in Int
             /\ Total(w, i) = Total(w, i - 1) + Part(val, a, b, i)
  <2> DEFINE k == i - 1
  <2>1. k \in Nat /\ k + 1 = i /\ i \in 1 .. PartyCnt
    BY FieldFacts
  <2> HIDE DEF k
  <2>2. Total(w, k) \in Int /\ Total(w, i) = Total(w, k) + w[i]
    BY <1>4, <2>1
  <2> QED BY <1>3, <2>1, <2>2 DEF k
<1> QED BY <1>5, <1>6 DEF PartSum, w, g

\* The names of the coefficients of the first i parties of product k.
Lambdas(k, i) == {<<k, j>> : j \in 1 .. i}

LEMMA ProductGives ==
    ASSUME NEW c, Well(c), NEW a, NEW b, NEW t, NEW u, Vector(c, a, t), Vector(c, b, u),
           NEW k \in Nat, \A i \in 1 .. PartyCnt : <<k, i>> \notin c.constants
    PROVE  /\ PartGives(c, Product(c, a, b, k), t, Lambdas(k, PartyCnt))
           /\ \A s, val : PartShares(s, val, Product(c, a, b, k), PartSum(val, a, b, PartyCnt))
<1> DEFINE part(d, i) == ProductOfParty(d, a, b, k, i)
           with(st, i) == Sum(part(st.ctx, i).ctx, st.ids, part(st.ctx, i).ids)
           loop(h) == [i \in 1 .. PartyCnt |->
                         IF i = 1 THEN part(c, 1)
                         ELSE IF h[i - 1].ctx.thrown THEN h[i - 1] ELSE with(h[i - 1], i)]
           sum == CHOOSE h : h = loop(h)
           Good(i) == {st \in Results : /\ PartGives(c, st, t, Lambdas(k, i))
                                        /\ \A s, val : PartShares(s, val, st, PartSum(val, a, b, i))}
           good == [i \in 1 .. PartyCnt |-> Good(i)]
           States == UNION {good[i] : i \in 1 .. PartyCnt}
           next == [p \in States \X (2 .. PartyCnt) |-> with(p[1], p[2])]
           first == part(c, 1)
<1>1. Product(c, a, b, k) = sum[PartyCnt]
  BY DEF Product
<1>2. PartyCnt \in Nat /\ 1 \in 1 .. PartyCnt /\ 1 \in Nat /\ 1 <= PartyCnt /\ PartyCnt \in 1 .. PartyCnt
  BY FrontendAssumption
<1> HIDE DEF part, first
<1>3. first \in Good(1)
  <2>1. /\ PartGives(c, first, t, {<<k, 1>>})
        /\ \A s, val : PartShares(s, val, first, Part(val, a, b, 1))
    BY <1>2, ProductOfPartyGives DEF first, part
  <2>2. Lambdas(k, 1) = {<<k, 1>>}
    BY DEF Lambdas
  <2>3. ASSUME NEW s, NEW val PROVE PartShares(s, val, first, PartSum(val, a, b, 1))
    <3> SUFFICES ASSUME Evaluates(s, val, first.ctx) PROVE IsShared(val, first.ids, PartSum(val, a, b, 1))
      BY DEF PartShares
    <3>1. IsShared(val, first.ids, Part(val, a, b, 1))
      BY <2>1 DEF PartShares
    <3>2. Evaluates(s, val, c)
      BY <2>1, EvaluatesOlder DEF PartGives
    <3> QED BY <3>1, <3>2, PartSums
  <2> QED BY <2>1, <2>2, <2>3 DEF PartGives
<1>4. ASSUME NEW i \in 2 .. PartyCnt, NEW st \in Good(i - 1)
      PROVE  st.ctx.thrown = FALSE /\ with(st, i) \in Good(i)
  <2>1. /\ Well(st.ctx) /\ Grown(c, st.ctx) /\ st.ctx.constants = c.constants \cup Lambdas(k, i - 1)
        /\ Vector(st.ctx, st.ids, t) /\ st.ctx.thrown = FALSE
    BY WellFacts DEF PartGives
  <2>2. i \in 1 .. PartyCnt /\ <<k, i>> \notin st.ctx.constants
    BY <1>2, <2>1 DEF Lambdas
  <2>3. Vector(st.ctx, a, t) /\ Vector(st.ctx, b, u)
    BY <2>1, VectorStays
  <2> DEFINE p == part(st.ctx, i)
             r == Sum(p.ctx, st.ids, p.ids)
  <2>4. /\ PartGives(st.ctx, p, t, {<<k, i>>})
        /\ \A s, val : PartShares(s, val, p, Part(val, a, b, i))
    BY <2>1, <2>2, <2>3, ProductOfPartyGives DEF part
  <2> HIDE DEF p, r
  <2>5. /\ Well(p.ctx) /\ Grown(st.ctx, p.ctx) /\ Vector(p.ctx, p.ids, t)
        /\ p.ctx.constants = st.ctx.constants \cup {<<k, i>>}
    BY <2>4 DEF PartGives
  <2>6. GivesVector(p.ctx, r, t)
    <3>1. Vector(p.ctx, st.ids, t)
      BY <2>1, <2>5, VectorStays
    <3> QED BY <2>5, <3>1, SumGives DEF r
  <2>7. /\ r \in Results /\ Well(r.ctx) /\ Grown(p.ctx, r.ctx) /\ Vector(r.ctx, r.ids, t)
        /\ r.ctx.constants = p.ctx.constants
    BY <2>6 DEF GivesVector
  <2>8. Grown(c, r.ctx)
    <3>1. Grown(c, p.ctx)
      BY <2>1, <2>5, GrownTransitive
    <3> QED BY <2>5, <2>7, <3>1, GrownTransitive
  <2>9. r.ctx.constants = c.constants \cup Lambdas(k, i)
    <3>1. Lambdas(k, i) = Lambdas(k, i - 1) \cup {<<k, i>>}
      BY <2>2 DEF Lambdas
    <3> QED BY <2>1, <2>5, <2>7, <3>1
  <2>w. ASSUME NEW s, NEW val PROVE PartShares(s, val, r, PartSum(val, a, b, i))
    <3> SUFFICES ASSUME Evaluates(s, val, r.ctx) PROVE IsShared(val, r.ids, PartSum(val, a, b, i))
      BY DEF PartShares
    <3>1. Evaluates(s, val, p.ctx)
      BY <2>5, <2>7, EvaluatesOlder
    <3>2. Evaluates(s, val, st.ctx)
      BY <2>1, <2>5, <3>1, EvaluatesOlder
    <3>3. Evaluates(s, val, c)
      BY <2>1, <3>2, EvaluatesOlder
    <3>4. IsShared(val, st.ids, PartSum(val, a, b, i - 1)) /\ IsShared(val, p.ids, Part(val, a, b, i))
      BY <2>4, <3>1, <3>2 DEF PartShares
    <3>5. /\ PartSum(val, a, b, i - 1) \in Int /\ Part(val, a, b, i) \in Int
          /\ PartSum(val, a, b, i) = PartSum(val, a, b, i - 1) + Part(val, a, b, i)
      BY <3>3, PartSums
    <3>6. Vector(p.ctx, st.ids, t)
      BY <2>1, <2>5, VectorStays
    <3>7. IsShared(val, r.ids, PartSum(val, a, b, i - 1) + Part(val, a, b, i))
      <4> DEFINE m == PartSum(val, a, b, i - 1)
                 n == Part(val, a, b, i)
      <4>1. m \in Int /\ n \in Int /\ IsShared(val, st.ids, m) /\ IsShared(val, p.ids, n)
        BY <3>4, <3>5
      <4> HIDE DEF m, n
      <4>2. IsShared(val, r.ids, m + n)
        BY <2>5, <3>6, <4>1, SumShares DEF r
      <4> QED BY <4>2 DEF m, n
    <3> QED BY <3>5, <3>7
  <2>10. r \in Good(i)
    BY <2>7, <2>8, <2>9, <2>w DEF PartGives
  <2> QED BY <2>1, <2>10 DEF r, p
<1>5. ASSUME NEW i \in 2 .. PartyCnt, NEW st \in good[i - 1]
      PROVE  next[<<st, i>>] = with(st, i) /\ next[<<st, i>>] \in good[i]
  <2>1. i - 1 \in 1 .. PartyCnt /\ i \in 1 .. PartyCnt
    BY <1>2
  <2>2. st \in Good(i - 1) /\ st \in States
    BY <2>1
  <2>3. with(st, i) \in Good(i)
    BY <1>4, <2>2
  <2>4. next[<<st, i>>] = with(st, i)
    <3> HIDE DEF with, States
    <3> QED BY <2>2
  <2> HIDE DEF with, Good, next
  <2> QED BY <2>1, <2>3, <2>4
<1>6. Turns(1, PartyCnt, first, good, next)
  <2>1. first \in good[1]
    BY <1>2, <1>3
  <2> HIDE DEF good, with, States, next
  <2>2. ASSUME NEW i \in 1 + 1 .. PartyCnt, NEW st \in good[i - 1] PROVE next[<<st, i>>] \in good[i]
    <3>1. i \in 2 .. PartyCnt
      OBVIOUS
    <3> QED BY <1>5, <3>1, Zenon
  <2> QED BY <2>1, <2>2 DEF Turns
<1>7. PICK f : Runs(1, PartyCnt, first, good, next, f)
  <2> HIDE DEF good, with, States, next
  <2> QED BY <1>2, <1>6, LoopExists
<1> DEFINE whole == [i \in 1 .. PartyCnt |-> f[i]]
<1>8. ASSUME NEW i \in 2 .. PartyCnt
      PROVE  whole[i - 1].ctx.thrown = FALSE /\ whole[i] = with(whole[i - 1], i)
  <2>1. i - 1 \in 1 .. PartyCnt /\ i \in 1 .. PartyCnt /\ i \in 1 + 1 .. PartyCnt
    BY <1>2
  <2>2. whole[i - 1] = f[i - 1] /\ whole[i] = f[i]
    BY <2>1
  <2> HIDE DEF with, next, States, Good, whole
  <2>3. f[i - 1] \in good[i - 1] /\ f[i] = next[<<f[i - 1], i>>]
    <3> HIDE DEF good
    <3> QED BY <1>7, <2>1, Zenon DEF Runs
  <2>4. f[i - 1] \in Good(i - 1)
    BY <2>1, <2>3
  <2> HIDE DEF good
  <2>5. f[i] = with(f[i - 1], i)
    BY <1>5, <2>3
  <2>6. f[i - 1].ctx.thrown = FALSE
    BY <1>4, <2>4
  <2> QED BY <2>2, <2>5, <2>6
<1>9. whole = loop(whole)
  <2>1. whole[1] = first
    BY <1>2, <1>7 DEF Runs
  <2>2. ASSUME NEW i \in 1 .. PartyCnt PROVE whole[i] = loop(whole)[i]
    <3> HIDE DEF whole, with
    <3>1. i # 1 => i \in 2 .. PartyCnt
      BY <1>2
    <3> QED BY <1>8, <2>1, <3>1 DEF first
  <2> QED BY <2>2
<1>10. sum = loop(sum)
  <2> HIDE DEF loop, whole
  <2> QED BY <1>9
<1>11. sum[1] \in good[1]
  <2> HIDE DEF sum, Good, with
  <2>1. sum[1] = first
    <3>1. sum[1] = loop(sum)[1]
      BY <1>10
    <3> QED BY <1>2, <3>1 DEF first
  <2> QED BY <1>2, <1>3, <2>1
<1>12. ASSUME NEW i \in 1 + 1 .. PartyCnt, sum[i - 1] \in good[i - 1] PROVE sum[i] \in good[i]
  <2> HIDE DEF sum, Good, with
  <2>1. i - 1 \in 1 .. PartyCnt /\ i \in 1 .. PartyCnt /\ i \in 2 .. PartyCnt /\ i # 1
    BY <1>2
  <2>2. sum[i - 1] \in Good(i - 1)
    BY <1>12, <2>1
  <2>3. sum[i - 1].ctx.thrown = FALSE /\ with(sum[i - 1], i) \in Good(i)
    BY <1>4, <2>1, <2>2
  <2>4. sum[i] = loop(sum)[i]
    BY <1>10
  <2>5. sum[i] = with(sum[i - 1], i)
    BY <2>1, <2>3, <2>4
  <2> QED BY <2>1, <2>3, <2>5
<1>13. \A i \in 1 .. PartyCnt : sum[i] \in good[i]
  <2> HIDE DEF sum, good
  <2> QED BY <1>2, <1>11, <1>12, LoopKeeps
<1>14. /\ PartGives(c, sum[PartyCnt], t, Lambdas(k, PartyCnt))
       /\ \A s, val : PartShares(s, val, sum[PartyCnt], PartSum(val, a, b, PartyCnt))
  <2> HIDE DEF sum
  <2> QED BY <1>2, <1>13
<1> QED BY <1>1, <1>14

\* With parties enough for the degree of a product, the parts are those of the
\* product of what is shared.
EnoughParties == PartyCnt >= (2 * T) + 1

LEMMA ProductShares ==
    ASSUME EnoughParties,
           NEW c, Well(c), NEW a, NEW b, NEW t, NEW u, Vector(c, a, t), Vector(c, b, u),
           NEW k \in Nat, \A i \in 1 .. PartyCnt : <<k, i>> \notin c.constants,
           NEW s, NEW val, Evaluates(s, val, Product(c, a, b, k).ctx),
           NEW m \in Int, NEW n \in Int, IsShared(val, a, m), IsShared(val, b, n)
    PROVE  IsShared(val, Product(c, a, b, k).ids, Times(m, n))
<1> DEFINE r == Product(c, a, b, k)
           g == ProductsOf(val, a, b)
           sum == PartSum(val, a, b, PartyCnt)
<1>1. PartGives(c, r, t, Lambdas(k, PartyCnt)) /\ PartShares(s, val, r, sum)
  BY ProductGives
<1> HIDE DEF r
<1>2. Evaluates(s, val, c)
  BY <1>1, EvaluatesOlder DEF PartGives, r
<1>3. IsShared(val, r.ids, sum)
  BY <1>1 DEF PartShares, r
<1>4. IsSharing(FieldSize, g, InOrder, T + T, m * n)
  <2>1. ASSUME NEW i \in DOMAIN InOrder
        PROVE  g[i] = (ValuesOf(val, a)[i] * ValuesOf(val, b)[i]) % FieldSize
    BY FieldFacts DEF ProductsOf, ValuesOf, Times
  <2> QED BY <2>1, FieldFacts, ProductsShared DEF IsShared
<1>5. Numbers(Everyone, g)
  BY <1>2, ProductsAre
<1>6. At0(FieldSize, PartyCnt, g, Everyone) = sum % FieldSize
  BY <1>5, FieldFacts, At0IsTotal DEF Everyone, PartSum
<1>7. At0(FieldSize, PartyCnt, g, Everyone) = (m * n) % FieldSize
  <2> DEFINE x == m * n
             d == T + T
             P == Everyone
  <2>1. x \in Int /\ d \in Nat /\ IsSharing(FieldSize, g, [i \in 1 .. PartyCnt |-> i], d, x)
    BY <1>4, FieldFacts DEF InOrder
  <2>2. P \in SUBSET (1 .. PartyCnt) /\ Cardinality(P) > d
    <3>1. Cardinality(1 .. PartyCnt) = PartyCnt
      BY FieldFacts, FS_Interval
    <3> QED BY <3>1, FieldFacts DEF Everyone, EnoughParties
  <2> HIDE DEF x, d, P, g
  <2>3. At0(FieldSize, PartyCnt, g, P) = x % FieldSize
    BY <2>1, <2>2, FieldFacts, Interpolation
  <2> QED BY <2>3 DEF x, P
<1>8. sum \in Int
  <2>1. IsWeighted(FieldSize, PartyCnt, Everyone, g, Weighted(FieldSize, PartyCnt, Everyone, g))
    BY <1>5, FieldFacts, WeightedType DEF Everyone
  <2>2. Weighted(FieldSize, PartyCnt, Everyone, g) \in PowerCoefficients /\ PartyCnt \in Nat
    BY <2>1, FieldFacts DEF IsWeighted
  <2> QED BY <2>2, TotalStep DEF PartSum
<1>9. Times(m, n) \in Int /\ Congruent(FieldSize, sum, Times(m, n))
  <2> DEFINE x == m * n
  <2>1. x \in Int /\ (sum % FieldSize) = (x % FieldSize)
    BY <1>6, <1>7
  <2> HIDE DEF x
  <2>2. (x % FieldSize) \in Int /\ Congruent(FieldSize, x % FieldSize, x)
    BY <2>1, FieldFacts, RemainderTwice
  <2>3. Times(m, n) = x % FieldSize
    BY DEF Times, x
  <2> QED BY <2>1, <2>2, <2>3 DEF Congruent
<1> HIDE DEF sum
<1>10. IsSharing(FieldSize, ValuesOf(val, r.ids), InOrder, T, Times(m, n))
  BY <1>3, <1>8, <1>9, FieldFacts, SameSecret DEF IsShared
<1> QED BY <1>10 DEF IsShared, r

\* Sums and multiples, reduced.
LEMMA SumSharesReduced ==
    ASSUME NEW c, Well(c), NEW a, NEW b, NEW t, NEW u, Vector(c, a, t), Vector(c, b, u),
           NEW s, NEW val, Evaluates(s, val, Sum(c, a, b).ctx),
           NEW m \in Int, NEW n \in Int, IsShared(val, a, m), IsShared(val, b, n)
    PROVE  IsShared(val, Sum(c, a, b).ids, Plus(m, n))
<1> DEFINE x == m + n
<1>1. x \in Int /\ Plus(m, n) = x % FieldSize
  BY DEF Plus
<1>2. IsShared(val, Sum(c, a, b).ids, x)
  BY SumShares
<1> HIDE DEF x
<1>3. (x % FieldSize) \in Int /\ Congruent(FieldSize, x, x % FieldSize)
  BY <1>1, FieldFacts, RemainderTwice DEF Congruent
<1> QED BY <1>1, <1>2, <1>3, FieldFacts, SameSecret DEF IsShared

LEMMA ScaledSharesReduced ==
    ASSUME NEW c, Well(c), NEW a, NEW const \in 1 .. Created(c), NEW t, Vector(c, a, t),
           c.exprs[const].kind = "constant",
           NEW s, NEW val, Evaluates(s, val, Scaled(c, a, const).ctx), val[const] = ScaleFactor,
           NEW m \in Int, IsShared(val, a, m)
    PROVE  IsShared(val, Scaled(c, a, const).ids, Times(ScaleFactor, m))
<1> DEFINE x == m * val[const]
<1>1. x \in Int /\ x = ScaleFactor * m /\ Times(ScaleFactor, m) = x % FieldSize
  BY DEF ScaleFactor, Times
<1>2. IsShared(val, Scaled(c, a, const).ids, x)
  BY ScaledShares
<1> HIDE DEF x
<1>3. (x % FieldSize) \in Int /\ Congruent(FieldSize, x, x % FieldSize)
  BY <1>1, FieldFacts, RemainderTwice DEF Congruent
<1> QED BY <1>1, <1>2, <1>3, FieldFacts, SameSecret DEF IsShared

-----------------------------------------------------------------------------
(* What a program starts with.                                             *)

LEMMA NewContextWell == Well(NewContext) /\ Created(NewContext) = 0 /\ NewContext.constants = {}
<1>1. /\ NewContext.exprs = <<>> /\ NewContext.shares = {} /\ NewContext.constants = {}
      /\ NewContext \in Contexts
  BY DEF NewContext, Context, Contexts
<1>2. Created(NewContext) = 0
  BY <1>1 DEF Created
<1>3. IsFiniteSet(NewContext.shares)
  BY <1>1, FS_EmptySet
<1>4. Named(NewContext)
  <2>1. {} = 0 .. 0 - 1 /\ 0 \in Nat
    OBVIOUS
  <2> QED BY <1>1, <1>2, <2>1 DEF Named
<1> QED BY <1>1, <1>2, <1>3, <1>4 DEF Well

LEMMA InputFacts ==
    /\ Len(Inputs) \in Nat /\ DOMAIN Inputs = 1 .. Len(Inputs)
    /\ \A s \in DOMAIN Inputs : /\ Inputs[s].kind \in {"secret", "randomness"}
                               /\ Inputs[s].party \in 1 .. PartyCnt
                               /\ Inputs[s].type \in {"arith", "bin"}
<1> DEFINE In == [kind : {"secret", "randomness"}, party : 1 .. PartyCnt, type : {"arith", "bin"}]
<1>1. Inputs \in Seq(In)
  BY FrontendAssumption
<1>2. \A in \in In : /\ in.kind \in {"secret", "randomness"} /\ in.party \in 1 .. PartyCnt
                     /\ in.type \in {"arith", "bin"}
  OBVIOUS
<1> HIDE DEF In
<1> QED BY <1>1, <1>2

\* The first n inputs are declared.
DeclaredFirst(c, n) ==
    /\ Well(c) /\ Created(c) = n /\ c.constants = {}
    /\ \A j \in 1 .. n : c.exprs[j].kind = Inputs[j].kind /\ c.exprs[j].party = Inputs[j].party

DeclareNext(c, i) == IF Inputs[i].kind = "secret"
                     THEN NewSecret(c, Inputs[i].party, Inputs[i].type)
                     ELSE NewRandomness(c, Inputs[i].party, Inputs[i].type)

LEMMA DeclareNextDeclares ==
    ASSUME NEW i \in 1 .. Len(Inputs), NEW c, DeclaredFirst(c, i - 1)
    PROVE  DeclareNext(c, i).ids = <<i>> /\ DeclaredFirst(DeclareNext(c, i).ctx, i)
<1> DEFINE in == Inputs[i]
           e == Expression(in.kind, "INPUT", <<>>, in.party, in.type, 0, 0)
<1>1. in.kind \in {"secret", "randomness"} /\ in.party \in 1 .. PartyCnt /\ in.type \in {"arith", "bin"}
  BY InputFacts
<1>2. /\ Well(c) /\ Created(c) = i - 1 /\ c.constants = {} /\ i \in Nat /\ i - 1 \in Nat
  BY InputFacts DEF DeclaredFirst
<1> HIDE DEF in
<1>3. e \in Expr /\ e.kind # "share" /\ e.kind = in.kind /\ e.party = in.party
  <2>1. PartyCnt \in Nat
    BY FrontendAssumption
  <2> QED BY <1>1, <2>1 DEF Expr, Expression, Kinds, Operators
<1>4. Fits(c, e, Created(c) + 1)
  BY <1>1, <1>2 DEF Fits, Expression
<1>5. DeclareNext(c, i) = New(Context(c.exprs, c.shares, {}, c.thrown), e)
  <2>1. c = Context(c.exprs, c.shares, {}, c.thrown)
    BY <1>2, ContextIs
  <2>2. DeclareNext(c, i) = New(c, e)
    BY <1>1 DEF DeclareNext, NewSecret, NewRandomness, in
  <2> HIDE DEF e
  <2> QED BY <2>1, <2>2
<1> HIDE DEF e
<1>6. Adds(c, {}, DeclareNext(c, i), e)
  <2>1. {} \in SUBSET Seq(Nat)
    OBVIOUS
  <2> QED BY <1>2, <1>3, <1>4, <1>5, <2>1, NewAdds
<1> DEFINE d == DeclareNext(c, i).ctx
<1>7. /\ DeclareNext(c, i).ids = <<i>> /\ Well(d) /\ Created(d) = i /\ d.constants = {}
      /\ d.exprs[i] = e /\ \A j \in 1 .. i - 1 : d.exprs[j] = c.exprs[j]
  BY <1>2, <1>6 DEF Adds, Grown
<1> HIDE DEF d
<1>8. ASSUME NEW j \in 1 .. i PROVE d.exprs[j].kind = Inputs[j].kind /\ d.exprs[j].party = Inputs[j].party
  <2>1. CASE j = i
    BY <1>3, <1>7, <2>1 DEF in
  <2>2. CASE j # i
    <3>1. j \in 1 .. i - 1
      BY <1>2, <2>2
    <3> QED BY <1>7, <3>1 DEF DeclaredFirst
  <2> QED BY <2>1, <2>2
<1>9. DeclaredFirst(d, i)
  BY <1>7, <1>8 DEF DeclaredFirst
<1> QED BY <1>7, <1>9 DEF d

LEMMA AllDeclared ==
    DeclaredFirst(ForEach(NewContext, Len(Inputs), LAMBDA c, i : DeclareNext(c, i)).ctx, Len(Inputs))
<1> DEFINE n == Len(Inputs)
           with(st, i) == Done(DeclareNext(st.ctx, i).ctx, st.ids \o DeclareNext(st.ctx, i).ids)
           first == Done(NewContext, <<>>)
           loop(h) == [i \in 0 .. n |-> IF i = 0 THEN first
                                        ELSE IF h[i - 1].ctx.thrown THEN h[i - 1] ELSE with(h[i - 1], i)]
           after == CHOOSE h : h = loop(h)
           Good(i) == {st \in Results : DeclaredFirst(st.ctx, i)}
           good == [i \in 0 .. n |-> Good(i)]
           States == UNION {good[i] : i \in 0 .. n}
           next == [p \in States \X (1 .. n) |-> with(p[1], p[2])]
<1>1. ForEach(NewContext, Len(Inputs), LAMBDA c, i : DeclareNext(c, i)) = after[n]
  BY DEF ForEach
<1>2. n \in Nat /\ 0 \in Nat /\ 0 <= n /\ n \in 0 .. n /\ 0 \in 0 .. n
  <2>1. n \in Nat
    BY InputFacts
  <2> QED BY <2>1
<1>3. first \in Good(0)
  <2>1. DeclaredFirst(NewContext, 0)
    BY NewContextWell DEF DeclaredFirst
  <2>2. NewContext \in Contexts
    BY NewContextWell DEF Well
  <2> QED BY <2>1, <2>2 DEF Results, Done
<1>4. ASSUME NEW i \in 1 .. n, NEW st \in Good(i - 1)
      PROVE  st.ctx.thrown = FALSE /\ with(st, i) \in Good(i)
  <2>1. Well(st.ctx) /\ st.ctx.thrown = FALSE /\ st.ids \in Seq(Nat) /\ i \in Nat
    <3>1. DeclaredFirst(st.ctx, i - 1) /\ st \in Results
      OBVIOUS
    <3>2. Well(st.ctx)
      BY <3>1 DEF DeclaredFirst
    <3>3. i \in Nat
      BY <1>2
    <3>4. st.ids \in Seq(Nat)
      BY <3>1 DEF Results
    <3> HIDE DEF Good
    <3> QED BY <3>2, <3>3, <3>4, WellFacts
  <2>2. DeclareNext(st.ctx, i).ids = <<i>> /\ DeclaredFirst(DeclareNext(st.ctx, i).ctx, i)
    BY DeclareNextDeclares
  <2>3. DeclareNext(st.ctx, i).ctx \in Contexts /\ st.ids \o <<i>> \in Seq(Nat)
    BY <2>1, <2>2 DEF DeclaredFirst, Well
  <2> QED BY <2>1, <2>2, <2>3 DEF Results, Done
<1>5. ASSUME NEW i \in 1 .. n, NEW st \in good[i - 1]
      PROVE  next[<<st, i>>] = with(st, i) /\ next[<<st, i>>] \in good[i]
  <2>1. i - 1 \in 0 .. n /\ i \in 0 .. n
    BY <1>2
  <2>2. st \in Good(i - 1) /\ st \in States
    BY <2>1
  <2>3. with(st, i) \in Good(i)
    BY <1>4, <2>2
  <2>4. next[<<st, i>>] = with(st, i)
    <3> HIDE DEF with, States
    <3> QED BY <2>2
  <2> HIDE DEF with, Good, next
  <2> QED BY <2>1, <2>3, <2>4
<1>6. Turns(0, n, first, good, next)
  <2>1. first \in good[0]
    BY <1>2, <1>3
  <2> HIDE DEF good, with, States, next, n, first
  <2>2. ASSUME NEW i \in 0 + 1 .. n, NEW st \in good[i - 1] PROVE next[<<st, i>>] \in good[i]
    <3>1. i \in 1 .. n
      OBVIOUS
    <3> QED BY <1>5, <3>1, Zenon
  <2> QED BY <2>1, <2>2 DEF Turns
<1>7. PICK f : Runs(0, n, first, good, next, f)
  <2> HIDE DEF good, with, States, next, n, first
  <2> QED BY <1>2, <1>6, LoopExists
<1> DEFINE whole == [i \in 0 .. n |-> f[i]]
<1>8. ASSUME NEW i \in 1 .. n
      PROVE  whole[i - 1].ctx.thrown = FALSE /\ whole[i] = with(whole[i - 1], i)
  <2> HIDE DEF with, next, States, Good, n, first
  <2>1. i - 1 \in 0 .. n /\ i \in 0 .. n /\ i \in 0 + 1 .. n
    BY <1>2
  <2>2. whole[i - 1] = f[i - 1] /\ whole[i] = f[i]
    BY <2>1
  <2> HIDE DEF whole
  <2>3. f[i - 1] \in good[i - 1] /\ f[i] = next[<<f[i - 1], i>>]
    <3> HIDE DEF good
    <3> QED BY <1>7, <2>1, Zenon DEF Runs
  <2>4. f[i - 1] \in Good(i - 1)
    BY <2>1, <2>3
  <2> HIDE DEF good
  <2>5. f[i] = with(f[i - 1], i)
    BY <1>5, <2>3
  <2>6. f[i - 1].ctx.thrown = FALSE
    BY <1>4, <2>4
  <2> QED BY <2>2, <2>5, <2>6
<1>9. whole = loop(whole)
  <2> HIDE DEF with, n, first
  <2>1. whole[0] = first
    BY <1>2, <1>7 DEF Runs
  <2>2. ASSUME NEW i \in 0 .. n PROVE whole[i] = loop(whole)[i]
    <3> HIDE DEF whole
    <3>1. i # 0 => i \in 1 .. n
      BY <1>2
    <3> QED BY <1>8, <2>1, <3>1
  <2> QED BY <2>2
<1>10. after = loop(after)
  <2> HIDE DEF loop, whole
  <2> QED BY <1>9
<1>11. after[0] \in good[0]
  <2> HIDE DEF after, Good, with, n, first
  <2>1. after[0] = first
    <3>1. after[0] = loop(after)[0]
      BY <1>10
    <3> QED BY <1>2, <3>1
  <2> QED BY <1>2, <1>3, <2>1
<1>12. ASSUME NEW i \in 0 + 1 .. n, after[i - 1] \in good[i - 1] PROVE after[i] \in good[i]
  <2> HIDE DEF after, Good, with, n, first
  <2>1. i - 1 \in 0 .. n /\ i \in 0 .. n /\ i \in 1 .. n /\ i # 0
    BY <1>2
  <2>2. after[i - 1] \in Good(i - 1)
    BY <1>12, <2>1
  <2>3. after[i - 1].ctx.thrown = FALSE /\ with(after[i - 1], i) \in Good(i)
    BY <1>4, <2>1, <2>2
  <2>4. after[i] = loop(after)[i]
    BY <1>10
  <2>5. after[i] = with(after[i - 1], i)
    BY <2>1, <2>3, <2>4
  <2> QED BY <2>1, <2>3, <2>5
<1>13. \A i \in 0 .. n : after[i] \in good[i]
  <2> HIDE DEF after, good, n
  <2> QED BY <1>2, <1>11, <1>12, LoopKeeps
<1>14. after[n] \in Good(n)
  <2> HIDE DEF after, Good, n
  <2> QED BY <1>2, <1>13
<1> HIDE DEF after
<1> QED BY <1>1, <1>14

LEMMA DeclaredWell ==
    /\ Well(Declared) /\ Scale \in Nat /\ Created(Declared) = Scale /\ Declared.constants = {<<>>}
    /\ \A s \in DOMAIN Inputs : /\ s \in 1 .. Scale - 1 /\ HasNode(Declared, s)
                                /\ Declared.exprs[s].kind = Inputs[s].kind
                                /\ Declared.exprs[s].party = Inputs[s].party
    /\ Declared.exprs[Scale].kind = "constant" /\ Declared.exprs[Scale].at = 0
<1> DEFINE n == Len(Inputs)
           c == ForEach(NewContext, Len(Inputs), LAMBDA d, i : DeclareNext(d, i)).ctx
           e == Expression("constant", "INPUT", <<>>, 0, "arith", 0, 0)
<1>1. Declared = NewConstant(c, <<>>, 0).ctx
  BY DEF Declared, DeclareNext
<1>2. DeclaredFirst(c, n)
  BY AllDeclared
<1> HIDE DEF c
<1>3. n \in Nat /\ Scale = n + 1 /\ DOMAIN Inputs = 1 .. n
  BY InputFacts DEF Scale
<1>4. Well(c) /\ Created(c) = n /\ c.constants = {}
  BY <1>2 DEF DeclaredFirst
<1>5. Adds(c, {<<>>}, NewConstant(c, <<>>, 0), e)
  <2>1. <<>> \in Seq(Nat) /\ 0 \in 0 .. PartyCnt /\ <<>> \notin c.constants /\ c.constants \cup {<<>>} = {<<>>}
    BY <1>4, FrontendAssumption
  <2> QED BY <1>4, <2>1, NewConstantAdds
<1>6. e.kind = "constant" /\ e.at = 0
  BY DEF Expression
<1> HIDE DEF e, n
<1>7. /\ Well(Declared) /\ Created(Declared) = Scale /\ Declared.constants = {<<>>}
      /\ Declared.exprs[Scale] = e /\ Grown(c, Declared)
  BY <1>1, <1>3, <1>4, <1>5 DEF Adds
<1>8. ASSUME NEW s \in DOMAIN Inputs
      PROVE  /\ s \in 1 .. Scale - 1 /\ HasNode(Declared, s)
             /\ Declared.exprs[s].kind = Inputs[s].kind /\ Declared.exprs[s].party = Inputs[s].party
  <2>1. s \in 1 .. n /\ s \in 1 .. Scale - 1
    BY <1>3
  <2>2. Inputs[s].kind \in {"secret", "randomness"}
    BY InputFacts
  <2>3. Declared.exprs[s] = c.exprs[s]
    BY <1>4, <1>7, <2>1 DEF Grown
  <2> QED BY <1>2, <2>1, <2>2, <2>3 DEF HasNode, DeclaredFirst
<1> QED BY <1>3, <1>6, <1>7, <1>8

-----------------------------------------------------------------------------
(* What holds of a program at any time.                                    *)

\* The names of the constants after k products.
ConstantNames(k) == {<<>>} \cup {<<j, i>> : j \in 0 .. k - 1, i \in 1 .. PartyCnt}

\* A variable has no share yet, or one of every party, and they are of one type.
VariablesFit == \A x \in Var : shares[x] = <<>> \/ \E t : Vector(ctx, shares[x], t)

\* An output is opened by an expression of its own.
OutputsFit ==
    /\ \E S : outputs \in Seq(S)
    /\ \A i \in DOMAIN outputs : LET k == outputs[i].expr
                                 IN /\ k \in Scale + 1 .. Created(ctx)
                                    /\ ctx.exprs[k].kind = "share" /\ ctx.exprs[k].op = "RECONSTRUCT"
    /\ \A i, j \in DOMAIN outputs : i < j => outputs[i].expr < outputs[j].expr

Program ==
    /\ Well(ctx) /\ Grown(Declared, ctx)
    /\ mulCounter \in Nat /\ ctx.constants \subseteq ConstantNames(mulCounter)
    /\ steps \in 0 .. MaxSteps
    /\ shares \in [Var -> Seq(Nat)] /\ VariablesFit /\ OutputsFit

LEMMA ProgramInit == Init => Program
<1> SUFFICES ASSUME Init PROVE Program
  OBVIOUS
<1> USE DEF Init
<1>1. Well(ctx) /\ Grown(Declared, ctx) /\ ctx.constants = {<<>>}
  <2>1. Grown(Declared, Declared)
    BY DeclaredWell, WellFacts
  <2> QED BY <2>1, DeclaredWell
<1>2. mulCounter \in Nat /\ steps \in 0 .. MaxSteps
  BY FrontendAssumption
<1>3. shares \in [Var -> Seq(Nat)] /\ VariablesFit
  BY DEF VariablesFit
<1>4. OutputsFit
  <2>1. outputs \in Seq({}) /\ DOMAIN outputs = {}
    OBVIOUS
  <2> QED BY <2>1 DEF OutputsFit
<1> QED BY <1>1, <1>2, <1>3, <1>4 DEF Program, ConstantNames

\* Expressions that the program adds disturb nothing.
LEMMA VariablesStay ==
    ASSUME Program, NEW d, Well(d), Grown(ctx, d), NEW x \in Var
    PROVE  /\ Grown(Declared, d)
           /\ shares[x] = <<>> \/ \E t : Vector(d, shares[x], t)
<1>1. Well(ctx) /\ Grown(Declared, ctx) /\ Well(Declared)
  BY DeclaredWell DEF Program
<1>2. Grown(Declared, d)
  BY <1>1, GrownTransitive
<1>3. shares[x] = <<>> \/ \E t : Vector(ctx, shares[x], t)
  BY DEF Program, VariablesFit
<1> QED BY <1>1, <1>2, <1>3, VectorStays

LEMMA OutputsStay ==
    ASSUME Program, Well(ctx'), Grown(ctx, ctx'), outputs' = outputs
    PROVE  OutputsFit'
<1>1. ASSUME NEW i \in DOMAIN outputs
      PROVE  LET k == outputs[i].expr
             IN /\ k \in Scale + 1 .. Created(ctx')
                /\ ctx'.exprs[k].kind = "share" /\ ctx'.exprs[k].op = "RECONSTRUCT"
  <2> DEFINE k == outputs[i].expr
  <2>1. /\ k \in Scale + 1 .. Created(ctx) /\ Scale \in Nat
        /\ ctx.exprs[k].kind = "share" /\ ctx.exprs[k].op = "RECONSTRUCT"
    BY DeclaredWell DEF Program, OutputsFit
  <2> HIDE DEF k
  <2>2. Well(ctx) /\ Created(ctx) \in Nat /\ Created(ctx') \in Nat
    BY Sizes DEF Program
  <2>3. k \in 1 .. Created(ctx)
    BY <2>1, <2>2
  <2>4. k \in 1 .. Created(ctx') /\ ctx'.exprs[k] = ctx.exprs[k]
    BY <2>2, <2>3, StaysThere
  <2>5. k \in Scale + 1 .. Created(ctx')
    BY <2>1, <2>2, <2>4
  <2> QED BY <2>1, <2>4, <2>5 DEF k
<1>2. /\ \E S : outputs \in Seq(S)
      /\ \A i, j \in DOMAIN outputs : i < j => outputs[i].expr < outputs[j].expr
  BY DEF Program, OutputsFit
<1> QED BY <1>1, <1>2 DEF OutputsFit, Scale

\* A variable takes a vector.
LEMMA TakesKeeps ==
    ASSUME Program, Running, NEW x \in Var, NEW r, NEW t, Takes(x, r),
           Well(r.ctx), Grown(ctx, r.ctx), Vector(r.ctx, r.ids, t),
           mulCounter' \in Nat, r.ctx.constants \subseteq ConstantNames(mulCounter')
    PROVE  Program' /\ Grown(ctx, ctx')
<1>1. /\ ctx' = r.ctx /\ shares' = [shares EXCEPT ![x] = r.ids] /\ steps' = steps + 1
      /\ outputs' = outputs
  BY DEF Takes
<1>2. Well(ctx') /\ Grown(ctx, ctx') /\ ctx'.constants \subseteq ConstantNames(mulCounter')
  BY <1>1
<1>3. Grown(Declared, ctx')
  BY <1>2, VariablesStay
<1>4. steps' \in 0 .. MaxSteps
  BY <1>1, FrontendAssumption DEF Program, Running
<1>5. r.ids \in Seq(Nat) /\ shares \in [Var -> Seq(Nat)]
  BY DEF Vector, Program
<1>6. shares' \in [Var -> Seq(Nat)]
  BY <1>1, <1>5
<1>7. ASSUME NEW y \in Var PROVE shares'[y] = <<>> \/ \E u : Vector(ctx', shares'[y], u)
  <2>1. CASE y = x
    BY <1>1, <1>5, <2>1
  <2>2. CASE y # x
    <3>1. shares'[y] = shares[y]
      BY <1>1, <1>5, <2>2
    <3> QED BY <1>2, <3>1, VariablesStay
  <2> QED BY <2>1, <2>2
<1>8. VariablesFit'
  BY <1>7 DEF VariablesFit
<1>9. OutputsFit'
  BY <1>1, <1>2, OutputsStay
<1> QED BY <1>2, <1>3, <1>4, <1>6, <1>8, <1>9 DEF Program

LEMMA MoreConstants ==
    ASSUME NEW k \in Nat
    PROVE  /\ ConstantNames(k) \cup Lambdas(k, PartyCnt) \subseteq ConstantNames(k + 1)
           /\ \A i \in 1 .. PartyCnt : <<k, i>> \notin ConstantNames(k)
<1>1. \A i \in 1 .. PartyCnt : <<k, i>> # <<>>
  OBVIOUS
<1>2. k \notin 0 .. k - 1 /\ 0 .. k - 1 \subseteq 0 .. (k + 1) - 1 /\ k \in 0 .. (k + 1) - 1
  OBVIOUS
<1> QED BY <1>1, <1>2 DEF ConstantNames, Lambdas

LEMMA VectorOf ==
    ASSUME Program, NEW x \in Var, Shared(x)
    PROVE  \E t : Vector(ctx, shares[x], t)
<1>1. Len(<<>>) = 0 /\ ~(0 >= PartyCnt)
  BY FrontendAssumption
<1> QED BY <1>1 DEF Program, VariablesFit, Shared

\* The inputs have values, and the constant is one.
LEMMA InputsStay ==
    ASSUME Program
    PROVE  /\ \A s \in DOMAIN Inputs : /\ s \in 1 .. Created(ctx) /\ HasNode(ctx, s)
                                       /\ ctx.exprs[s].kind \in {"secret", "randomness"}
           /\ Scale \in 1 .. Created(ctx) /\ ctx.exprs[Scale].kind = "constant" /\ ctx.exprs[Scale].at = 0
<1>1. Well(ctx) /\ Well(Declared) /\ Grown(Declared, ctx) /\ Scale \in Nat /\ Created(Declared) = Scale
  BY DeclaredWell DEF Program
<1>2. Scale \in 1 .. Created(Declared)
  BY <1>1, InputFacts DEF Scale
<1>3. ASSUME NEW s \in DOMAIN Inputs
      PROVE  /\ s \in 1 .. Created(ctx) /\ HasNode(ctx, s)
             /\ ctx.exprs[s].kind \in {"secret", "randomness"}
  <2>1. /\ s \in 1 .. Scale - 1 /\ HasNode(Declared, s)
        /\ Declared.exprs[s].kind \in {"secret", "randomness"}
    BY DeclaredWell, InputFacts
  <2>2. s \in 1 .. Created(Declared)
    BY <1>1, <2>1
  <2> QED BY <1>1, <2>1, <2>2, StaysThere DEF HasNode
<1>4. Scale \in 1 .. Created(ctx) /\ ctx.exprs[Scale].kind = "constant" /\ ctx.exprs[Scale].at = 0
  BY <1>1, <1>2, DeclaredWell, StaysThere
<1> QED BY <1>3, <1>4

LEMMA DeclareKeeps ==
    ASSUME Program, NEW x \in Var, NEW s \in DOMAIN Inputs, Declare(x, s)
    PROVE  Program' /\ Grown(ctx, ctx')
<1> DEFINE r == Sharing(ctx, s)
<1>1. GivesVector(ctx, r, ctx.exprs[s].type)
  BY InputsStay, SharingGives DEF Program
<1>2. Takes(x, r) /\ mulCounter' = mulCounter /\ Running
  BY DEF Declare
<1> HIDE DEF r
<1> QED BY <1>1, <1>2, TakesKeeps DEF GivesVector, Program

LEMMA DeclareInputKeeps ==
    ASSUME Program, NEW x \in Var, DeclareInput(x, "arith")
    PROVE  Program' /\ Grown(ctx, ctx')
<1> DEFINE r == InputSharing(ctx, "arith")
<1>1. GivesVector(ctx, r, "arith")
  BY InputSharingGives DEF Program
<1>2. Takes(x, r) /\ mulCounter' = mulCounter /\ Running
  BY DEF DeclareInput
<1> HIDE DEF r
<1> QED BY <1>1, <1>2, TakesKeeps DEF GivesVector, Program

\* A variable that is assigned an expression has no shares yet.
LEMMA AssignKeeps ==
    ASSUME Program, ~Reassigned, NEW x \in Var, NEW s \in DOMAIN Inputs, Assign(x, s)
    PROVE  Program' /\ Grown(ctx, ctx')
<1> DEFINE r == Sharing(ctx, s)
           v == Done(r.ctx, shares[x] \o r.ids)
           t == ctx.exprs[s].type
<1>1. GivesVector(ctx, r, t)
  BY InputsStay, SharingGives DEF Program
<1>2. Takes(x, v) /\ mulCounter' = mulCounter /\ Running /\ shares[x] = <<>>
  BY DEF Assign
<1>3. r.ids \in Seq(Nat)
  BY <1>1 DEF GivesVector, Vector
<1> HIDE DEF r
<1>4. v.ctx = r.ctx /\ v.ids = r.ids
  BY <1>2, <1>3 DEF Done
<1>5. GivesVector(ctx, r, t) /\ Vector(v.ctx, v.ids, t) /\ Well(v.ctx) /\ Grown(ctx, v.ctx)
      /\ v.ctx.constants = ctx.constants
  BY <1>1, <1>4 DEF GivesVector
<1> HIDE DEF v, t
<1> QED BY <1>2, <1>5, TakesKeeps DEF Program

LEMMA CopyKeeps ==
    ASSUME Program, NEW x \in Var, NEW y \in Var, Copy(x, y)
    PROVE  Program' /\ Grown(ctx, ctx')
<1> DEFINE v == Done(ctx, shares[y])
<1>1. PICK t : Vector(ctx, shares[y], t)
  BY VectorOf DEF Copy
<1>2. v.ctx = ctx /\ v.ids = shares[y] /\ Well(ctx) /\ Grown(ctx, ctx)
  BY WellFacts DEF Done, Program
<1>3. Takes(x, v) /\ mulCounter' = mulCounter /\ Running
  BY DEF Copy
<1> HIDE DEF v
<1> QED BY <1>1, <1>2, <1>3, TakesKeeps DEF Program

LEMMA ConstMulKeeps ==
    ASSUME Program, NEW x \in Var, NEW y \in Var, ConstMul(x, y)
    PROVE  Program' /\ Grown(ctx, ctx')
<1> DEFINE r == Scaled(ctx, shares[y], Scale)
<1>1. PICK t : Vector(ctx, shares[y], t)
  BY VectorOf DEF ConstMul
<1>2. GivesVector(ctx, r, t)
  BY <1>1, InputsStay, ScaledGives DEF Program
<1>3. Takes(x, r) /\ mulCounter' = mulCounter /\ Running
  BY DEF ConstMul
<1> HIDE DEF r
<1> QED BY <1>2, <1>3, TakesKeeps DEF GivesVector, Program

LEMMA AddKeeps ==
    ASSUME Program, NEW x \in Var, NEW y \in Var, NEW z \in Var, Add(x, y, z)
    PROVE  Program' /\ Grown(ctx, ctx')
<1> DEFINE r == Sum(ctx, shares[y], shares[z])
<1>1. PICK t : Vector(ctx, shares[y], t)
  BY VectorOf DEF Add
<1>2. PICK u : Vector(ctx, shares[z], u)
  BY VectorOf DEF Add
<1>3. GivesVector(ctx, r, t)
  BY <1>1, <1>2, SumGives DEF Program
<1>4. Takes(x, r) /\ mulCounter' = mulCounter /\ Running
  BY DEF Add
<1> HIDE DEF r
<1> QED BY <1>3, <1>4, TakesKeeps DEF GivesVector, Program

LEMMA MulKeeps ==
    ASSUME Program, NEW x \in Var, NEW y \in Var, NEW z \in Var, Mul(x, y, z)
    PROVE  Program' /\ Grown(ctx, ctx')
<1> DEFINE r == Product(ctx, shares[y], shares[z], mulCounter)
<1>1. PICK t : Vector(ctx, shares[y], t)
  BY VectorOf DEF Mul
<1>2. PICK u : Vector(ctx, shares[z], u)
  BY VectorOf DEF Mul
<1>3. Well(ctx) /\ mulCounter \in Nat /\ ctx.constants \subseteq ConstantNames(mulCounter)
  BY DEF Program
<1>4. \A i \in 1 .. PartyCnt : <<mulCounter, i>> \notin ctx.constants
  BY <1>3, MoreConstants
<1>5. PartGives(ctx, r, t, Lambdas(mulCounter, PartyCnt))
  BY <1>1, <1>2, <1>3, <1>4, ProductGives
<1>6. Takes(x, r) /\ mulCounter' = mulCounter + 1 /\ Running
  BY DEF Mul
<1> HIDE DEF r
<1>7. r.ctx.constants \subseteq ConstantNames(mulCounter')
  BY <1>3, <1>5, <1>6, MoreConstants DEF PartGives
<1>8. mulCounter' \in Nat
  BY <1>3, <1>6
<1> QED BY <1>5, <1>6, <1>7, <1>8, TakesKeeps DEF PartGives

LEMMA YieldKeeps ==
    ASSUME Program, NEW x \in Var, NEW party \in 1 .. PartyCnt,
           NEW given \in {{}} \cup {{n} : n \in GivenNames}, Yield(x, party, given)
    PROVE  Program' /\ Grown(ctx, ctx')
<1> DEFINE r == Opened(ctx, shares[x], party, given)
           o == [expr |-> r.ids[1], term |-> stands[x]]
<1>1. PICK t : Vector(ctx, shares[x], t)
  BY VectorOf DEF Yield
<1>2. Well(ctx)
  BY DEF Program
<1>3. /\ Well(r.ctx) /\ Grown(ctx, r.ctx) /\ r.ctx.constants = ctx.constants
      /\ \E k \in Created(ctx) + 1 .. Created(r.ctx) :
            r.ids = <<k>> /\ r.ctx.exprs[k].kind = "share" /\ r.ctx.exprs[k].op = "RECONSTRUCT"
  BY <1>1, <1>2, OpenedGives
<1>4. /\ ctx' = r.ctx /\ outputs' = Append(outputs, o) /\ steps' = steps + 1
      /\ shares' = shares /\ mulCounter' = mulCounter /\ Running
  BY DEF Yield
<1> HIDE DEF r
<1>5. PICK k \in Created(ctx) + 1 .. Created(r.ctx) :
         r.ids = <<k>> /\ r.ctx.exprs[k].kind = "share" /\ r.ctx.exprs[k].op = "RECONSTRUCT"
  BY <1>3
<1>6. o.expr = k
  BY <1>5
<1> HIDE DEF o
<1>7. /\ Created(ctx) \in Nat /\ Created(r.ctx) \in Nat /\ Scale \in Nat /\ Scale <= Created(ctx)
  <2>1. Scale \in Nat /\ Created(ctx) \in Nat /\ Created(r.ctx) \in Nat
    BY <1>2, <1>3, Sizes, DeclaredWell
  <2>2. Scale \in 1 .. Created(ctx)
    BY InputsStay
  <2> QED BY <2>1, <2>2
<1>8. PICK S : outputs \in Seq(S)
  BY DEF Program, OutputsFit
<1>9. /\ outputs' \in Seq(S \cup {o}) /\ DOMAIN outputs' = DOMAIN outputs \cup {Len(outputs) + 1}
      /\ Len(outputs) \in Nat /\ DOMAIN outputs = 1 .. Len(outputs)
      /\ \A i \in DOMAIN outputs : outputs'[i] = outputs[i]
      /\ outputs'[Len(outputs) + 1] = o
  <2>1. outputs \in Seq(S \cup {o}) /\ o \in S \cup {o}
    BY <1>8
  <2>2. Append(outputs, o) \in Seq(S \cup {o})
    BY <2>1
  <2>3. /\ Len(outputs) \in Nat /\ DOMAIN outputs = 1 .. Len(outputs)
        /\ DOMAIN Append(outputs, o) = 1 .. Len(outputs) + 1
        /\ \A i \in DOMAIN outputs : Append(outputs, o)[i] = outputs[i]
        /\ Append(outputs, o)[Len(outputs) + 1] = o
    BY <2>1
  <2>4. 1 .. Len(outputs) + 1 = 1 .. Len(outputs) \cup {Len(outputs) + 1}
    BY <2>3
  <2> QED BY <1>4, <2>2, <2>3, <2>4
<1>10. ASSUME NEW i \in DOMAIN outputs
       PROVE  /\ outputs[i].expr \in Scale + 1 .. Created(ctx)
              /\ ctx.exprs[outputs[i].expr].kind = "share"
              /\ ctx.exprs[outputs[i].expr].op = "RECONSTRUCT"
  BY DEF Program, OutputsFit
<1>11. ASSUME NEW i \in DOMAIN outputs'
       PROVE  LET e == outputs'[i].expr
              IN /\ e \in Scale + 1 .. Created(ctx')
                 /\ ctx'.exprs[e].kind = "share" /\ ctx'.exprs[e].op = "RECONSTRUCT"
  <2>1. CASE i \in DOMAIN outputs
    <3> DEFINE e == outputs[i].expr
    <3>1. /\ e \in Scale + 1 .. Created(ctx) /\ ctx.exprs[e].kind = "share"
          /\ ctx.exprs[e].op = "RECONSTRUCT" /\ outputs'[i].expr = e
      BY <1>9, <1>10, <2>1
    <3> HIDE DEF e
    <3>2. e \in 1 .. Created(ctx)
      BY <1>7, <3>1
    <3>3. e \in 1 .. Created(r.ctx) /\ r.ctx.exprs[e] = ctx.exprs[e]
      BY <1>2, <1>3, <3>2, StaysThere
    <3>4. e \in Scale + 1 .. Created(r.ctx)
      BY <1>7, <3>1, <3>3
    <3> QED BY <1>4, <3>1, <3>3, <3>4
  <2>2. CASE i = Len(outputs) + 1
    <3>1. outputs'[i].expr = k
      BY <1>6, <1>9, <2>2
    <3>2. k \in Scale + 1 .. Created(r.ctx)
      BY <1>5, <1>7
    <3> QED BY <1>4, <1>5, <3>1, <3>2
  <2> QED BY <1>9, <2>1, <2>2
<1>12. ASSUME NEW i \in DOMAIN outputs', NEW j \in DOMAIN outputs', i < j
       PROVE  outputs'[i].expr < outputs'[j].expr
  <2>1. i \in DOMAIN outputs
    BY <1>9, <1>12
  <2>2. CASE j \in DOMAIN outputs
    BY <1>9, <1>12, <2>1, <2>2 DEF Program, OutputsFit
  <2>3. CASE j = Len(outputs) + 1
    <3>1. outputs'[j].expr = k /\ outputs'[i].expr \in Scale + 1 .. Created(ctx)
      BY <1>6, <1>9, <1>10, <2>1, <2>3
    <3> QED BY <1>5, <1>7, <3>1
  <2> QED BY <1>9, <2>2, <2>3
<1>13. OutputsFit'
  BY <1>9, <1>11, <1>12 DEF OutputsFit, Scale
<1>14. Well(ctx') /\ Grown(ctx, ctx') /\ ctx'.constants = ctx.constants
  BY <1>3, <1>4
<1>15. Grown(Declared, ctx') /\ VariablesFit'
  BY <1>4, <1>14, VariablesStay, DeclaredWell, GrownTransitive DEF VariablesFit, Program
<1>16. steps' \in 0 .. MaxSteps
  BY <1>4, FrontendAssumption DEF Program, Running
<1> QED BY <1>4, <1>13, <1>14, <1>15, <1>16 DEF Program

LEMMA OperationKeeps ==
    ASSUME Program, ~Reassigned, Operation
    PROVE  Program' /\ Grown(ctx, ctx')
<1>1. CASE \E x \in Var, s \in DOMAIN Inputs : Declare(x, s) \/ Assign(x, s)
  BY <1>1, DeclareKeeps, AssignKeeps
<1>2. CASE \E x \in Var : DeclareInput(x, "arith")
  BY <1>2, DeclareInputKeeps
<1>3. CASE \E x, y \in Var : Copy(x, y) \/ ConstMul(x, y)
  BY <1>3, CopyKeeps, ConstMulKeeps
<1>4. CASE \E x, y, z \in Var : Add(x, y, z) \/ Mul(x, y, z)
  BY <1>4, AddKeeps, MulKeeps
<1>5. CASE \E x \in Var, party \in 1 .. PartyCnt :
              \E given \in {{}} \cup {{n} : n \in GivenNames} : Yield(x, party, given)
  BY <1>5, YieldKeeps
<1> QED BY <1>1, <1>2, <1>3, <1>4, <1>5 DEF Operation

-----------------------------------------------------------------------------
(* The values of all expressions.                                          *)

LEMMA RemainderType ==
    ASSUME NEW x \in Int
    PROVE  (x % FieldSize) \in 0 .. FieldSize - 1 /\ (x % FieldSize) \in Int
BY FieldFacts, RemainderTwice

LEMMA PolyAtType ==
    ASSUME NEW s, InField(s), NEW x \in Int, NEW k \in Int, NEW point \in Int
    PROVE  PolyAt(s, x, k, point) \in Int
<1> DEFINE coeffs == [j \in 1 .. T |-> Coefficient(s, k, j)]
           c == Padded(x, coeffs, T)
<1>1. T \in Nat /\ coeffs \in [1 .. T -> Int]
  BY FieldFacts DEF InField
<1>2. PolyAt(s, x, k, point) = Polynomial(FieldSize, x, coeffs, point)
  BY DEF PolyAt
<1> HIDE DEF coeffs
<1>3. c \in UpTo(T) /\ Polynomial(FieldSize, x, coeffs, point) = Series(c, point)[T] % FieldSize
  BY <1>1, FieldFacts, PolynomialIsSeries
<1> HIDE DEF c
<1>4. Series(c, point)[T] \in Int
  BY <1>1, <1>3, SeriesStep DEF UpTo
<1> QED BY <1>2, <1>3, <1>4, RemainderType

LEMMA At0Type ==
    ASSUME NEW g, Numbers(Everyone, g)
    PROVE  At0(FieldSize, PartyCnt, g, Everyone) \in Int
<1> DEFINE w == Weighted(FieldSize, PartyCnt, Everyone, g)
<1>1. At0(FieldSize, PartyCnt, g, Everyone) = Total(w, PartyCnt) % FieldSize
  BY FieldFacts, At0IsTotal DEF Everyone
<1>2. IsWeighted(FieldSize, PartyCnt, Everyone, g, w)
  BY FieldFacts, WeightedType DEF Everyone
<1> HIDE DEF w
<1>3. Total(w, PartyCnt) \in Int
  BY <1>2, FieldFacts, TotalStep DEF IsWeighted
<1> QED BY <1>1, <1>3, RemainderType

\* The kinds of expressions there are.
LEMMA ExpressionKinds ==
    ASSUME NEW c, NEW k, NEW e \in Expr, Fits(c, e, k)
    PROVE  \/ e.kind \in {"secret", "randomness"} /\ e.op = "INPUT"
           \/ e.kind = "constant" /\ e.op = "INPUT"
           \/ e.kind = "share" /\ e.op = "INPUT"
           \/ e.kind \in {"share", "poly"} /\ e.op \in {"POLILIZE", "TRANSIT"} /\ e.args[1] \in 1 .. k - 1
           \/ e.kind = "share" /\ e.op = "EVAL" /\ e.args[1] \in 1 .. k - 1
           \/ /\ e.kind = "share" /\ e.op \in {"ADD", "MUL", "SCALARMUL"}
              /\ e.args[1] \in 1 .. k - 1 /\ e.args[2] \in 1 .. k - 1
           \/ /\ e.kind = "share" /\ e.op = "RECONSTRUCT"
              /\ DOMAIN e.args = Everyone /\ \A i \in Everyone : e.args[i] \in 1 .. k - 1
<1>1. e.kind \in Kinds /\ e.op \in Operators /\ e.args \in Seq(Nat) /\ DOMAIN e.args = 1 .. Len(e.args)
  BY DEF Expr
<1>2. \A i \in DOMAIN e.args : e.args[i] \in 1 .. k - 1
  BY DEF Fits
<1>3. Len(e.args) = 1 => e.args[1] \in 1 .. k - 1
  BY <1>1, <1>2
<1>4. Len(e.args) = 2 => e.args[1] \in 1 .. k - 1 /\ e.args[2] \in 1 .. k - 1
  BY <1>1, <1>2
<1>5. Len(e.args) = PartyCnt => DOMAIN e.args = Everyone /\ \A i \in Everyone : e.args[i] \in 1 .. k - 1
  BY <1>1, <1>2 DEF Everyone
<1>6. /\ e.op \in {"POLILIZE", "TRANSIT", "EVAL"} => Len(e.args) = 1
      /\ e.op \in {"ADD", "MUL", "SCALARMUL"} => Len(e.args) = 2
      /\ e.op = "RECONSTRUCT" => Len(e.args) = PartyCnt
  BY DEF Fits
<1>7. /\ e.kind \in {"secret", "randomness", "constant"} => e.op = "INPUT"
      /\ e.kind = "poly" <=> e.op = "POLILIZE"
  BY DEF Fits
<1> QED BY <1>1, <1>3, <1>4, <1>5, <1>6, <1>7 DEF Kinds, Operators

\* The value of an expression depends on its operands only ...
LEMMA ValueOfOlder ==
    ASSUME NEW s, NEW c, NEW e \in Expr, NEW k \in Nat, Fits(c, e, k), NEW u, NEW v,
           \A j \in 1 .. k - 1 : u[j] = v[j]
    PROVE  Value(s, e, u, k) = Value(s, e, v, k)
<1>1. CASE e.kind \in {"secret", "randomness"} /\ e.op = "INPUT"
  BY <1>1, PlaceholderValue
<1>2. CASE e.kind = "constant" /\ e.op = "INPUT"
  BY <1>2, ConstantValue
<1>3. CASE e.kind = "share" /\ e.op = "INPUT"
  BY <1>3, InputValue
<1>4. CASE e.kind \in {"share", "poly"} /\ e.op \in {"POLILIZE", "TRANSIT"} /\ e.args[1] \in 1 .. k - 1
  BY <1>4, CopiedValue
<1>5. CASE e.kind = "share" /\ e.op = "EVAL" /\ e.args[1] \in 1 .. k - 1
  BY <1>5, EvaluatedValue
<1>6. CASE /\ e.kind = "share" /\ e.op \in {"ADD", "MUL", "SCALARMUL"}
           /\ e.args[1] \in 1 .. k - 1 /\ e.args[2] \in 1 .. k - 1
  <2>1. u[e.args[1]] = v[e.args[1]] /\ u[e.args[2]] = v[e.args[2]]
    BY <1>6
  <2> QED BY <1>6, <2>1, BinaryValue
<1>7. CASE /\ e.kind = "share" /\ e.op = "RECONSTRUCT"
           /\ DOMAIN e.args = Everyone /\ \A i \in Everyone : e.args[i] \in 1 .. k - 1
  <2> DEFINE f == [i \in DOMAIN e.args |-> u[e.args[i]]]
             g == [i \in DOMAIN e.args |-> v[e.args[i]]]
  <2>1. f = g
    BY <1>7
  <2>2. /\ Value(s, e, u, k) = At0(FieldSize, PartyCnt, f, Everyone)
        /\ Value(s, e, v, k) = At0(FieldSize, PartyCnt, g, Everyone)
    BY <1>7, ReconstructedValue
  <2> HIDE DEF f, g
  <2> QED BY <2>1, <2>2
<1> QED BY <1>1, <1>2, <1>3, <1>4, <1>5, <1>6, <1>7, ExpressionKinds

\* ... and is a number.
LEMMA ValueType ==
    ASSUME NEW s, InField(s), NEW c, NEW e \in Expr, NEW k \in Nat, Fits(c, e, k), NEW v,
           \A j \in 1 .. k - 1 : v[j] \in Int
    PROVE  Value(s, e, v, k) \in Int
<1>0. e.at \in Nat /\ e.at \in Int
  BY DEF Expr
<1>1. CASE e.kind \in {"secret", "randomness"} /\ e.op = "INPUT"
  <2>1. Input(s, k) \in Int
    BY FieldFacts DEF InField
  <2> QED BY <1>1, <2>1, PlaceholderValue
<1>2. CASE e.kind = "constant" /\ e.op = "INPUT"
  <2>1. e.at # 0 => e.at \in 1 .. PartyCnt
    BY <1>0, <1>2 DEF Fits
  <2>2. e.at # 0 => Weight(FieldSize, PartyCnt, e.at, Everyone) \in Int
    BY <2>1, FieldFacts, WeightType DEF Everyone
  <2>3. ScaleFactor \in Int
    BY DEF ScaleFactor
  <2> QED BY <1>2, <2>2, <2>3, ConstantValue
<1>3. CASE e.kind = "share" /\ e.op = "INPUT"
  <2> DEFINE first == k - e.at + 1
  <2>1. first \in Int
    BY <1>0
  <2> HIDE DEF first
  <2>2. Input(s, first) \in Int
    BY <2>1, FieldFacts DEF InField
  <2>3. PolyAt(s, Input(s, first), first, e.at) \in Int
    BY <1>0, <2>1, <2>2, PolyAtType
  <2> QED BY <1>3, <2>3, InputValue DEF first
<1>4. CASE e.kind \in {"share", "poly"} /\ e.op \in {"POLILIZE", "TRANSIT"} /\ e.args[1] \in 1 .. k - 1
  BY <1>4, CopiedValue
<1>5. CASE e.kind = "share" /\ e.op = "EVAL" /\ e.args[1] \in 1 .. k - 1
  <2>1. e.args[1] \in Int /\ v[e.args[1]] \in Int
    BY <1>5
  <2> QED BY <1>0, <1>5, <2>1, PolyAtType, EvaluatedValue
<1>6. CASE /\ e.kind = "share" /\ e.op \in {"ADD", "MUL", "SCALARMUL"}
           /\ e.args[1] \in 1 .. k - 1 /\ e.args[2] \in 1 .. k - 1
  <2> DEFINE x == v[e.args[1]]
             y == v[e.args[2]]
  <2>1. x \in Int /\ y \in Int
    BY <1>6
  <2>2. Value(s, e, v, k) = IF e.op = "ADD" THEN Plus(x, y) ELSE Times(x, y)
    BY <1>6, BinaryValue
  <2> HIDE DEF x, y
  <2>3. Plus(x, y) \in Int /\ Times(x, y) \in Int
    <3>1. x + y \in Int /\ x * y \in Int
      BY <2>1
    <3> QED BY <3>1, RemainderType DEF Plus, Times
  <2> QED BY <2>2, <2>3
<1>7. CASE /\ e.kind = "share" /\ e.op = "RECONSTRUCT"
           /\ DOMAIN e.args = Everyone /\ \A i \in Everyone : e.args[i] \in 1 .. k - 1
  <2> DEFINE g == [i \in DOMAIN e.args |-> v[e.args[i]]]
  <2>1. Numbers(Everyone, g)
    BY <1>7 DEF Numbers
  <2>2. Value(s, e, v, k) = At0(FieldSize, PartyCnt, g, Everyone)
    BY <1>7, ReconstructedValue
  <2> HIDE DEF g
  <2> QED BY <2>1, <2>2, At0Type
<1> QED BY <1>1, <1>2, <1>3, <1>4, <1>5, <1>6, <1>7, ExpressionKinds

\* The first n expressions of c have the values w, of which the first m are those of val.
ValuedUpTo(s, c, val, n) ==
    {w \in Seq(Int) : /\ Len(w) = n /\ \A k \in 1 .. Len(val) : w[k] = val[k]
                      /\ \A k \in 1 .. n : w[k] = Value(s, c.exprs[k], w, k)}

LEMMA ValuedMore ==
    ASSUME NEW s, InField(s), NEW c, Well(c), NEW val \in Seq(Int),
           NEW n \in Nat \ {0}, Len(val) < n, n <= Created(c), NEW w \in ValuedUpTo(s, c, val, n - 1)
    PROVE  Append(w, Value(s, c.exprs[n], w, n)) \in ValuedUpTo(s, c, val, n)
<1> DEFINE x == Value(s, c.exprs[n], w, n)
           r == Append(w, x)
<1>1. /\ w \in Seq(Int) /\ Len(w) = n - 1 /\ \A k \in 1 .. Len(val) : w[k] = val[k]
      /\ \A k \in 1 .. n - 1 : w[k] = Value(s, c.exprs[k], w, k)
  BY DEF ValuedUpTo
<1>2. ASSUME NEW k \in 1 .. n PROVE k \in Nat /\ c.exprs[k] \in Expr /\ Fits(c, c.exprs[k], k)
  <2>1. Created(c) \in Nat
    BY Sizes
  <2>2. k \in Nat /\ k \in 1 .. Created(c)
    BY <2>1
  <2> QED BY <2>2, WellFacts DEF Well
<1>3. x \in Int
  <2>1. \A j \in 1 .. n - 1 : w[j] \in Int
    BY <1>1
  <2>2. n \in Nat /\ c.exprs[n] \in Expr /\ Fits(c, c.exprs[n], n)
    BY <1>2
  <2> QED BY <2>1, <2>2, ValueType
<1> HIDE DEF x
<1>4. r \in Seq(Int) /\ Len(r) = n /\ r[n] = x /\ \A j \in 1 .. n - 1 : r[j] = w[j]
  BY <1>1, <1>3
<1> HIDE DEF r
<1>5. ASSUME NEW k \in 1 .. Len(val) PROVE r[k] = val[k]
  <2>1. k \in 1 .. n - 1
    OBVIOUS
  <2> QED BY <1>1, <1>4, <2>1
<1>6. ASSUME NEW k \in 1 .. n PROVE r[k] = Value(s, c.exprs[k], r, k)
  <2>1. \A j \in 1 .. k - 1 : r[j] = w[j]
    BY <1>4
  <2>2. Value(s, c.exprs[k], r, k) = Value(s, c.exprs[k], w, k)
    BY <1>2, <2>1, ValueOfOlder
  <2>3. CASE k = n
    BY <1>4, <2>2, <2>3 DEF x
  <2>4. CASE k # n
    <3>1. k \in 1 .. n - 1
      BY <2>4
    <3> QED BY <1>1, <1>4, <2>2, <3>1
  <2> QED BY <2>3, <2>4
<1>7. r \in ValuedUpTo(s, c, val, n)
  BY <1>4, <1>5, <1>6 DEF ValuedUpTo
<1> QED BY <1>7 DEF r, x

\* The values of more expressions keep those there are.
LEMMA EvaluatedValues ==
    ASSUME NEW s, InField(s), NEW c, Well(c), NEW val \in Seq(Int), Len(val) <= Created(c),
           val \in ValuedUpTo(s, c, val, Len(val))
    PROVE  Evaluated(s, c.exprs, val) \in ValuedUpTo(s, c, val, Created(c))
<1> DEFINE m == Len(val)
           n == Created(c)
           with(w, i) == Append(w, Value(s, c.exprs[i], w, i))
           loop(h) == [i \in m .. n |-> IF i = m THEN val ELSE with(h[i - 1], i)]
           evaluated == CHOOSE h : h = loop(h)
           Good(i) == ValuedUpTo(s, c, val, i)
           good == [i \in m .. n |-> Good(i)]
           States == UNION {good[i] : i \in m .. n}
           next == [p \in States \X (m + 1 .. n) |-> with(p[1], p[2])]
<1>1. Evaluated(s, c.exprs, val) = evaluated[n]
  BY DEF Evaluated, Created
<1>2. m \in Nat /\ n \in Nat /\ m <= n
  BY Sizes
<1>3. ASSUME NEW i \in m + 1 .. n, NEW w \in Good(i - 1) PROVE with(w, i) \in Good(i)
  <2>1. i \in Nat \ {0} /\ m < i /\ i <= n
    BY <1>2
  <2> QED BY <2>1, ValuedMore
<1>4. val \in Good(m)
  OBVIOUS
<1> HIDE DEF with, Good, m, n
<1>5. ASSUME NEW i \in m + 1 .. n, NEW w \in good[i - 1]
      PROVE  next[<<w, i>>] = with(w, i) /\ next[<<w, i>>] \in good[i]
  <2>1. i - 1 \in m .. n /\ i \in m .. n
    BY <1>2
  <2>2. w \in Good(i - 1) /\ w \in States
    BY <2>1
  <2>3. with(w, i) \in Good(i)
    BY <1>3, <2>2
  <2>4. next[<<w, i>>] = with(w, i)
    <3> HIDE DEF States
    <3> QED BY <2>2
  <2> HIDE DEF next
  <2> QED BY <2>1, <2>3, <2>4
<1>6. Turns(m, n, val, good, next)
  <2>1. val \in good[m]
    BY <1>2, <1>4
  <2> HIDE DEF good, States, next
  <2> QED BY <1>5, <2>1 DEF Turns
<1>7. PICK f : Runs(m, n, val, good, next, f)
  <2> HIDE DEF good, States, next
  <2> QED BY <1>2, <1>6, LoopExists
<1> DEFINE whole == [i \in m .. n |-> f[i]]
<1>8. ASSUME NEW i \in m + 1 .. n PROVE whole[i] = with(whole[i - 1], i)
  <2>1. i - 1 \in m .. n /\ i \in m .. n
    BY <1>2
  <2>2. whole[i - 1] = f[i - 1] /\ whole[i] = f[i]
    BY <2>1
  <2> HIDE DEF next, States, whole
  <2>3. f[i - 1] \in good[i - 1] /\ f[i] = next[<<f[i - 1], i>>]
    <3> HIDE DEF good
    <3> QED BY <1>7, <2>1, Zenon DEF Runs
  <2> HIDE DEF good
  <2>4. f[i] = with(f[i - 1], i)
    BY <1>5, <2>3
  <2> QED BY <2>2, <2>4
<1>9. whole = loop(whole)
  <2>1. whole[m] = val
    BY <1>2, <1>7 DEF Runs
  <2>2. ASSUME NEW i \in m .. n PROVE whole[i] = loop(whole)[i]
    <3> HIDE DEF whole
    <3>1. i # m => i \in m + 1 .. n
      BY <1>2
    <3> QED BY <1>8, <2>1, <3>1
  <2> QED BY <2>2
<1>10. evaluated = loop(evaluated)
  <2> HIDE DEF loop, whole
  <2> QED BY <1>9
<1>11. evaluated[m] \in good[m]
  <2> HIDE DEF evaluated
  <2>1. evaluated[m] = loop(evaluated)[m]
    BY <1>10
  <2> QED BY <1>2, <1>4, <2>1
<1>12. ASSUME NEW i \in m + 1 .. n, evaluated[i - 1] \in good[i - 1] PROVE evaluated[i] \in good[i]
  <2> HIDE DEF evaluated
  <2>1. i - 1 \in m .. n /\ i \in m .. n /\ i # m
    BY <1>2
  <2>2. evaluated[i - 1] \in Good(i - 1)
    BY <1>12, <2>1
  <2>3. evaluated[i] = loop(evaluated)[i]
    BY <1>10
  <2>4. evaluated[i] = with(evaluated[i - 1], i)
    BY <2>1, <2>3
  <2> QED BY <1>3, <2>1, <2>2, <2>4
<1>13. \A i \in m .. n : evaluated[i] \in good[i]
  <2> HIDE DEF evaluated, good
  <2> QED BY <1>2, <1>11, <1>12, LoopKeeps
<1>14. evaluated[n] \in Good(n)
  <2> HIDE DEF evaluated
  <2> QED BY <1>2, <1>13
<1> HIDE DEF evaluated
<1> QED BY <1>1, <1>14 DEF Good, n

-----------------------------------------------------------------------------
(* The values of the terms.                                                *)

\* The n-th term is about an input or older terms.
TermFits(t, n) ==
    /\ t.op \in {"input", "c", "+", "*"}
    /\ t.op = "input" => t.of[1] \in Int
    /\ t.op \in {"c", "+", "*"} => t.of[1] \in 1 .. n - 1
    /\ t.op \in {"+", "*"} => t.of[2] \in 1 .. n - 1

TermsFit(ts) == /\ \E S : ts \in Seq(S)
                /\ \A n \in 1 .. Len(ts) : TermFits(ts[n], n)

LEMMA TermOfOlder ==
    ASSUME NEW s, NEW t, NEW n, TermFits(t, n), NEW u, NEW v, \A j \in 1 .. n - 1 : u[j] = v[j]
    PROVE  TermValue(s, t, u) = TermValue(s, t, v)
BY DEF TermFits, TermValue

LEMMA TermType ==
    ASSUME NEW s, InField(s), NEW t, NEW n, TermFits(t, n), NEW v, \A j \in 1 .. n - 1 : v[j] \in 0 .. FieldSize - 1
    PROVE  TermValue(s, t, v) \in 0 .. FieldSize - 1
<1>0. \A j \in 1 .. n - 1 : v[j] \in Int
  BY FieldFacts
<1>1. CASE t.op = "input"
  BY <1>1 DEF TermFits, TermValue, InField
<1>2. CASE t.op = "c"
  <2> DEFINE x == v[t.of[1]]
  <2>1. x \in Int /\ ScaleFactor * x \in Int
    BY <1>0, <1>2 DEF TermFits, ScaleFactor
  <2>2. TermValue(s, t, v) = Times(ScaleFactor, x)
    BY <1>2 DEF TermValue
  <2> HIDE DEF x
  <2> QED BY <2>1, <2>2, RemainderType DEF Times
<1>3. CASE t.op \in {"+", "*"}
  <2> DEFINE x == v[t.of[1]]
             y == v[t.of[2]]
  <2>1. x \in Int /\ y \in Int
    BY <1>0, <1>3 DEF TermFits
  <2>2. TermValue(s, t, v) = IF t.op = "+" THEN Plus(x, y) ELSE Times(x, y)
    BY <1>3 DEF TermValue
  <2> HIDE DEF x, y
  <2>3. x + y \in Int /\ x * y \in Int
    BY <2>1
  <2>4. Plus(x, y) \in 0 .. FieldSize - 1 /\ Times(x, y) \in 0 .. FieldSize - 1
    BY <2>3, RemainderType DEF Plus, Times
  <2> QED BY <2>2, <2>4
<1> QED BY <1>1, <1>2, <1>3 DEF TermFits

\* Values of the first n terms; there is one list of them.
TermsAre(s, ts, n) ==
    {w \in Seq(0 .. FieldSize - 1) : /\ Len(w) = n
                                     /\ \A k \in 1 .. n : w[k] = TermValue(s, ts[k], w)}

FirstFit(ts, n) == \A k \in 1 .. n : TermFits(ts[k], k)
Solves(s, ts, n, w) == \A k \in 1 .. n : w[k] = TermValue(s, ts[k], w)

LEMMA TermsOnce ==
    ASSUME NEW s, NEW ts, NEW n \in Nat, FirstFit(ts, n),
           NEW u, NEW v, Solves(s, ts, n, u), Solves(s, ts, n, v)
    PROVE  \A k \in 1 .. n : u[k] = v[k]
<1> DEFINE Bad == {k \in 1 .. n : u[k] # v[k]}
<1> SUFFICES ASSUME Bad # {} PROVE FALSE
  OBVIOUS
<1>1. PICK k \in Bad : \A j \in Bad : k <= j
  <2>1. Bad \in SUBSET Nat
    OBVIOUS
  <2> HIDE DEF Bad
  <2> QED BY <2>1, Least
<1>2. ASSUME NEW j \in 1 .. k - 1 PROVE u[j] = v[j]
  <2>1. j \in 1 .. n /\ ~(k <= j)
    OBVIOUS
  <2>2. j \notin Bad
    <3> HIDE DEF Bad
    <3> QED BY <1>1, <2>1
  <2> QED BY <2>1, <2>2
<1>3. TermValue(s, ts[k], u) = TermValue(s, ts[k], v)
  BY <1>2, TermOfOlder DEF FirstFit
<1> QED BY <1>3 DEF Solves

LEMMA TermsMore ==
    ASSUME NEW s, InField(s), NEW ts, NEW n \in Nat \ {0}, \A k \in 1 .. n : TermFits(ts[k], k),
           NEW w \in TermsAre(s, ts, n - 1)
    PROVE  Append(w, TermValue(s, ts[n], w)) \in TermsAre(s, ts, n)
<1> DEFINE x == TermValue(s, ts[n], w)
           r == Append(w, x)
<1>1. /\ w \in Seq(0 .. FieldSize - 1) /\ Len(w) = n - 1
      /\ \A k \in 1 .. n - 1 : w[k] = TermValue(s, ts[k], w)
  BY DEF TermsAre
<1>2. x \in 0 .. FieldSize - 1
  <2>1. \A j \in 1 .. n - 1 : w[j] \in 0 .. FieldSize - 1
    <3> DEFINE S == 0 .. FieldSize - 1
    <3>1. w \in Seq(S) /\ Len(w) = n - 1
      BY <1>1
    <3> HIDE DEF S
    <3>2. \A j \in 1 .. n - 1 : w[j] \in S
      BY <3>1
    <3> QED BY <3>2 DEF S
  <2>2. TermFits(ts[n], n)
    OBVIOUS
  <2> QED BY <2>1, <2>2, TermType
<1> HIDE DEF x
<1>3. r \in Seq(0 .. FieldSize - 1) /\ Len(r) = n /\ r[n] = x /\ \A j \in 1 .. n - 1 : r[j] = w[j]
  BY <1>1, <1>2
<1> HIDE DEF r
<1>4. ASSUME NEW k \in 1 .. n PROVE r[k] = TermValue(s, ts[k], r)
  <2>1. \A j \in 1 .. k - 1 : r[j] = w[j]
    BY <1>3
  <2>2. TermValue(s, ts[k], r) = TermValue(s, ts[k], w)
    BY <2>1, TermOfOlder
  <2>3. CASE k = n
    BY <1>3, <2>2, <2>3 DEF x
  <2>4. CASE k # n
    <3>1. k \in 1 .. n - 1
      BY <2>4
    <3> QED BY <1>1, <1>3, <2>2, <3>1
  <2> QED BY <2>3, <2>4
<1>5. r \in TermsAre(s, ts, n)
  BY <1>3, <1>4 DEF TermsAre
<1> QED BY <1>5 DEF r, x

LEMMA MeantValues ==
    ASSUME NEW s, InField(s), NEW ts, TermsFit(ts)
    PROVE  Meant(s, ts) \in TermsAre(s, ts, Len(ts))
<1> DEFINE n == Len(ts)
           with(w, i) == Append(w, TermValue(s, ts[i], w))
           loop(h) == [i \in 0 .. n |-> IF i = 0 THEN <<>> ELSE with(h[i - 1], i)]
           meant == CHOOSE h : h = loop(h)
           Good(i) == TermsAre(s, ts, i)
           good == [i \in 0 .. n |-> Good(i)]
           States == UNION {good[i] : i \in 0 .. n}
           next == [p \in States \X (1 .. n) |-> with(p[1], p[2])]
<1>1. Meant(s, ts) = meant[n]
  BY DEF Meant
<1>2. n \in Nat /\ 0 \in Nat /\ 0 <= n /\ n \in 0 .. n /\ 0 \in 0 .. n
  <2>1. PICK S : ts \in Seq(S)
    BY DEF TermsFit
  <2> QED BY <2>1
<1>3. ASSUME NEW i \in 1 .. n, NEW w \in Good(i - 1) PROVE with(w, i) \in Good(i)
  <2>1. i \in Nat \ {0} /\ \A k \in 1 .. i : TermFits(ts[k], k)
    BY <1>2 DEF TermsFit
  <2> QED BY <2>1, TermsMore
<1>4. <<>> \in Good(0)
  BY DEF TermsAre
<1> HIDE DEF with, Good, n
<1>5. ASSUME NEW i \in 1 .. n, NEW w \in good[i - 1]
      PROVE  next[<<w, i>>] = with(w, i) /\ next[<<w, i>>] \in good[i]
  <2>1. i - 1 \in 0 .. n /\ i \in 0 .. n
    BY <1>2
  <2>2. w \in Good(i - 1) /\ w \in States
    BY <2>1
  <2>3. with(w, i) \in Good(i)
    BY <1>3, <2>2
  <2>4. next[<<w, i>>] = with(w, i)
    <3> HIDE DEF States
    <3> QED BY <2>2
  <2> HIDE DEF next
  <2> QED BY <2>1, <2>3, <2>4
<1> DEFINE first == <<>>
<1>6. Turns(0, n, first, good, next)
  <2>1. first \in good[0]
    BY <1>2, <1>4
  <2> HIDE DEF good, States, next, first
  <2>2. ASSUME NEW i \in 0 + 1 .. n, NEW w \in good[i - 1] PROVE next[<<w, i>>] \in good[i]
    <3>1. i \in 1 .. n
      OBVIOUS
    <3> QED BY <1>5, <3>1, Zenon
  <2> QED BY <2>1, <2>2 DEF Turns
<1>7. PICK f : Runs(0, n, first, good, next, f)
  <2> HIDE DEF good, States, next, first
  <2> QED BY <1>2, <1>6, LoopExists
<1> DEFINE whole == [i \in 0 .. n |-> f[i]]
<1>8. ASSUME NEW i \in 1 .. n PROVE whole[i] = with(whole[i - 1], i)
  <2>1. i - 1 \in 0 .. n /\ i \in 0 .. n /\ i \in 0 + 1 .. n
    BY <1>2
  <2>2. whole[i - 1] = f[i - 1] /\ whole[i] = f[i]
    BY <2>1
  <2> HIDE DEF next, States, whole, first
  <2>3. f[i - 1] \in good[i - 1] /\ f[i] = next[<<f[i - 1], i>>]
    <3> HIDE DEF good
    <3> QED BY <1>7, <2>1, Zenon DEF Runs
  <2> HIDE DEF good
  <2>4. f[i] = with(f[i - 1], i)
    BY <1>5, <2>3
  <2> QED BY <2>2, <2>4
<1>9. whole = loop(whole)
  <2>1. whole[0] = <<>>
    BY <1>2, <1>7 DEF Runs
  <2>2. ASSUME NEW i \in 0 .. n PROVE whole[i] = loop(whole)[i]
    <3> HIDE DEF whole
    <3>1. i # 0 => i \in 1 .. n
      BY <1>2
    <3> QED BY <1>8, <2>1, <3>1
  <2> QED BY <2>2
<1>10. meant = loop(meant)
  <2> HIDE DEF loop, whole
  <2> QED BY <1>9
<1>11. meant[0] \in good[0]
  <2> HIDE DEF meant
  <2>1. meant[0] = loop(meant)[0]
    BY <1>10
  <2> QED BY <1>2, <1>4, <2>1
<1>12. ASSUME NEW i \in 0 + 1 .. n, meant[i - 1] \in good[i - 1] PROVE meant[i] \in good[i]
  <2> HIDE DEF meant
  <2>1. i - 1 \in 0 .. n /\ i \in 0 .. n /\ i \in 1 .. n /\ i # 0
    BY <1>2
  <2>2. meant[i - 1] \in Good(i - 1)
    BY <1>12, <2>1
  <2>3. meant[i] = loop(meant)[i]
    BY <1>10
  <2>4. meant[i] = with(meant[i - 1], i)
    BY <2>1, <2>3
  <2> QED BY <1>3, <2>1, <2>2, <2>4
<1>13. \A i \in 0 .. n : meant[i] \in good[i]
  <2> HIDE DEF meant, good
  <2> QED BY <1>2, <1>11, <1>12, LoopKeeps
<1>14. meant[n] \in Good(n)
  <2> HIDE DEF meant
  <2> QED BY <1>2, <1>13
<1> HIDE DEF meant
<1> QED BY <1>1, <1>14 DEF Good, n

LEMMA NewTermFits ==
    ASSUME NEW ts, TermsFit(ts), NEW t, TermFits(t, Len(ts) + 1)
    PROVE  /\ TermsFit(Append(ts, t)) /\ Len(Append(ts, t)) = Len(ts) + 1 /\ Len(ts) \in Nat
           /\ Append(ts, t)[Len(ts) + 1] = t /\ \A k \in 1 .. Len(ts) : Append(ts, t)[k] = ts[k]
<1> DEFINE n == Len(ts)
           us == Append(ts, t)
<1>1. PICK S : ts \in Seq(S)
  BY DEF TermsFit
<1>2. n \in Nat /\ ts \in Seq(S \cup {t}) /\ t \in S \cup {t}
  BY <1>1
<1>3. us \in Seq(S \cup {t}) /\ Len(us) = n + 1 /\ us[n + 1] = t /\ \A k \in 1 .. n : us[k] = ts[k]
  BY <1>2
<1>4. \A k \in 1 .. n : TermFits(ts[k], k)
  BY DEF TermsFit
<1> HIDE DEF us
<1>5. ASSUME NEW k \in 1 .. n + 1 PROVE TermFits(us[k], k)
  <2>1. k # n + 1 => k \in 1 .. n
    BY <1>2
  <2> QED BY <1>3, <1>4, <2>1
<1>6. TermsFit(us)
  BY <1>3, <1>5 DEF TermsFit
<1> QED BY <1>2, <1>3, <1>6 DEF us

\* A new term leaves the values of the others alone.
LEMMA NewTerm ==
    ASSUME NEW s, InField(s), NEW ts, TermsFit(ts), NEW t, TermFits(t, Len(ts) + 1)
    PROVE  /\ \A k \in 1 .. Len(ts) : Meant(s, Append(ts, t))[k] = Meant(s, ts)[k]
           /\ Meant(s, Append(ts, t))[Len(ts) + 1] = TermValue(s, t, Meant(s, ts))
<1> DEFINE n == Len(ts)
           us == Append(ts, t)
           u == Meant(s, us)
           v == Meant(s, ts)
<1>2. n \in Nat
  BY NewTermFits
<1>3. Len(us) = n + 1 /\ us[n + 1] = t /\ \A k \in 1 .. n : us[k] = ts[k]
  BY NewTermFits
<1>4. \A k \in 1 .. n : TermFits(ts[k], k)
  BY DEF TermsFit
<1>6. TermsFit(us)
  BY NewTermFits
<1> HIDE DEF us
<1>7. u \in TermsAre(s, us, n + 1) /\ v \in TermsAre(s, ts, n)
  BY <1>3, <1>6, MeantValues
<1> HIDE DEF u, v, n
<1>8. ASSUME NEW k \in 1 .. n PROVE u[k] = TermValue(s, ts[k], u) /\ v[k] = TermValue(s, ts[k], v)
  <2>1. k \in 1 .. n + 1
    BY <1>2
  <2> QED BY <1>3, <1>7, <2>1 DEF TermsAre
<1>9. \A k \in 1 .. n : u[k] = v[k]
  <2>1. FirstFit(ts, n) /\ Solves(s, ts, n, u) /\ Solves(s, ts, n, v)
    BY <1>4, <1>8 DEF FirstFit, Solves, n
  <2> QED BY <1>2, <2>1, TermsOnce
<1>10. u[n + 1] = TermValue(s, t, u)
  <2>1. n + 1 \in 1 .. n + 1
    BY <1>2
  <2> QED BY <1>3, <1>7, <2>1 DEF TermsAre
<1>11. TermValue(s, t, u) = TermValue(s, t, v)
  <2> DEFINE m == n + 1
  <2>1. TermFits(t, m) /\ \A j \in 1 .. m - 1 : u[j] = v[j]
    BY <1>2, <1>9 DEF n
  <2> HIDE DEF m
  <2> QED BY <2>1, TermOfOlder
<1> QED BY <1>2, <1>3, <1>6, <1>9, <1>10, <1>11 DEF us, u, v, n

-----------------------------------------------------------------------------
(* Programs and builds.                                                    *)

\* Builds come one after the other, after the program's last operation, and
\* calls of importFrontend are about expressions there are and for an output.
Building ==
    /\ \E S : built \in Seq(S)
    /\ builder.build \in {Len(built), Len(built) + 1} /\ builder.build <= MaxBuilds
    /\ todo \in Seq(1 .. Created(ctx)) /\ stack \in Seq(1 .. Created(ctx))
    /\ builder.build = Len(built) => todo = <<>>
    /\ todo = <<>> => stack = <<>>

FrontendInv == Program /\ Building

\* Imports belong to the build they are made in.
LEMMA ImportBuild ==
    ASSUME NEW b, NEW c, NEW x, NEW degree
    PROVE  Import(b, c, x, degree).build = b.build
<1>1. ASSUME NEW d, NEW node, NEW inputs PROVE Known(d, x, node, inputs).build = d.build
  BY DEF Known, GraphBaseBuilder
<1>2. ASSUME NEW d, NEW party, NEW type PROVE NewNode(d, party, type).build = d.build
  BY DEF NewNode, GraphBaseBuilder
<1>3. ASSUME NEW d, NEW op, NEW ins PROVE NewOperation(d, op, ins).build = d.build
  BY DEF NewOperation, Linked, GraphBaseBuilder
<1>4. ASSUME NEW d, NEW party PROVE CoefficientNodes(d, party, degree).build = d.build
  BY DEF CoefficientNodes, GraphBaseBuilder
<1>5. ImportInput(b, c, x).build = b.build
  BY <1>1, <1>2 DEF ImportInput
<1>6. ImportOperation(b, c, x).build = b.build /\ ImportEval(b, c, x).build = b.build
  BY <1>1, <1>2, <1>3 DEF ImportOperation, ImportEval
<1>7. ImportPoly(b, c, x, degree).build = b.build
  BY <1>1, <1>4 DEF ImportPoly
<1> QED BY <1>5, <1>6, <1>7 DEF Import

LEMMA MarkOutputBuild == \A b, x : MarkOutput(b, x).build = b.build
BY DEF MarkOutput, GraphBaseBuilder

LEMMA FrontendInitInv == FrontendInit => FrontendInv
<1> SUFFICES ASSUME FrontendInit PROVE FrontendInv
  OBVIOUS
<1>1. Program
  BY ProgramInit DEF FrontendInit
<1>2. built \in Seq({}) /\ Len(built) = 0 /\ builder.build = 0
  BY DEF FrontendInit, Cleared, GraphBaseBuilder
<1>3. todo \in Seq(1 .. Created(ctx)) /\ stack \in Seq(1 .. Created(ctx))
  BY DEF FrontendInit
<1>4. todo = <<>> /\ stack = <<>>
  BY DEF FrontendInit
<1> QED BY <1>1, <1>2, <1>3, <1>4, BuildAssumption DEF FrontendInv, Building

\* An expression's operands are older than it.
LEMMA OlderOperands ==
    ASSUME NEW c, Well(c), NEW k \in 1 .. Created(c), NEW i \in DOMAIN c.exprs[k].args
    PROVE  c.exprs[k].args[i] \in 1 .. k - 1
BY DEF Well, Fits

LEMMA FrontendStep == ~Reassigned /\ FrontendInv /\ [Next]_allVars => FrontendInv'
<1> SUFFICES ASSUME ~Reassigned, FrontendInv, [Next]_allVars PROVE FrontendInv'
  OBVIOUS
<1> DEFINE Old == 1 .. Created(ctx)
<1>1. /\ Program /\ Well(ctx) /\ Created(ctx) \in Nat
      /\ builder.build \in {Len(built), Len(built) + 1} /\ builder.build <= MaxBuilds
      /\ todo \in Seq(Old) /\ stack \in Seq(Old)
      /\ builder.build = Len(built) => todo = <<>>
      /\ todo = <<>> => stack = <<>>
  BY Sizes DEF FrontendInv, Building, Program
<1>2. PICK S : built \in Seq(S)
  BY DEF FrontendInv, Building
<1>3. Len(built) \in Nat /\ MaxBuilds \in Nat
  BY <1>2, BuildAssumption
<1>4. CASE Call
  <2>1. Program'
    BY <1>1, <1>4, OperationKeeps DEF Call
  <2>2. builder' = builder /\ todo' = todo /\ stack' = stack /\ built' = built
    BY <1>4 DEF Call, builderVars
  <2>3. builder.build = 0 /\ builder.build = Len(built)
    BY <1>1, <1>3, <1>4 DEF Call
  <2>4. todo' = <<>> /\ stack' = <<>>
    BY <1>1, <2>2, <2>3
  <2>5. todo' \in Seq((1 .. Created(ctx))') /\ stack' \in Seq((1 .. Created(ctx))')
    BY <2>4
  <2> QED BY <1>1, <1>2, <2>1, <2>2, <2>4, <2>5 DEF FrontendInv, Building
<1>5. ASSUME UNCHANGED vars, builder'.build = builder.build, UNCHANGED built,
             todo' \in Seq(Old), stack' \in Seq(Old),
             builder.build = Len(built) => todo' = <<>>,
             todo' = <<>> => stack' = <<>>
      PROVE  FrontendInv'
  <2>1. Program'
    BY <1>1, <1>5 DEF Program, VariablesFit, OutputsFit, vars
  <2>2. ctx' = ctx
    BY <1>5 DEF vars
  <2> QED BY <1>1, <1>2, <1>5, <2>1, <2>2 DEF FrontendInv, Building
<1>6. CASE StartBuild
  <2>1. UNCHANGED vars /\ stack' = stack /\ built' = built
    BY <1>6 DEF StartBuild
  <2>2. ctx' = ctx /\ Program'
    BY <1>1, <2>1 DEF Program, VariablesFit, OutputsFit, vars
  <2>3. builder.build = Len(built) /\ Len(built) < MaxBuilds /\ builder'.build = builder.build + 1
    BY <1>6 DEF StartBuild, Cleared, GraphBaseBuilder
  <2>4. todo' \in Seq(Old)
    <3>1. PICK R : outputs \in Seq(R)
      BY <1>1 DEF Program, OutputsFit
    <3>2. ASSUME NEW i \in DOMAIN outputs PROVE outputs[i].expr \in Old
      <4>1. outputs[i].expr \in Scale + 1 .. Created(ctx)
        BY <1>1, <3>2 DEF Program, OutputsFit
      <4>2. Scale \in Nat /\ Scale >= 1
        BY FrontendAssumption DEF Scale
      <4> QED BY <1>1, <4>1, <4>2
    <3>3. todo' = [i \in 1 .. Len(outputs) |-> outputs[i].expr] /\ Len(outputs) \in Nat
      BY <1>6, <3>1 DEF StartBuild
    <3> QED BY <3>1, <3>2, <3>3
  <2>5. builder'.build # Len(built') /\ stack' = <<>>
    BY <1>1, <1>3, <2>1, <2>3
  <2> QED BY <1>1, <1>2, <1>3, <2>1, <2>2, <2>3, <2>4, <2>5 DEF FrontendInv, Building
<1>7. CASE CallImport
  <2>1. /\ UNCHANGED vars /\ builder' = builder /\ todo' = todo /\ built' = built
        /\ todo # <<>> /\ stack' = <<Head(todo)>>
    BY <1>7 DEF CallImport
  <2>2. Head(todo) \in Old
    BY <1>1, <2>1
  <2>3. stack' \in Seq(Old)
    BY <2>1, <2>2
  <2> QED BY <1>1, <1>5, <2>1, <2>3
<1>8. CASE CallOperand
  <2>1. /\ UNCHANGED vars /\ builder' = builder /\ todo' = todo /\ built' = built /\ stack # <<>>
    BY <1>8 DEF CallOperand
  <2>2. PICK i \in Unknown(builder, ctx, Innermost) :
            stack' = Append(stack, ctx.exprs[Innermost].args[i])
    BY <1>8 DEF CallOperand
  <2>3. Innermost \in Old
    BY <1>1, <2>1 DEF Innermost
  <2>4. i \in DOMAIN ctx.exprs[Innermost].args
    BY <2>2 DEF Unknown
  <2>5. ctx.exprs[Innermost].args[i] \in Old
    <3>1. ctx.exprs[Innermost].args[i] \in 1 .. Innermost - 1
      BY <1>1, <2>3, <2>4, OlderOperands
    <3> QED BY <1>1, <2>3, <3>1
  <2>6. stack' \in Seq(Old)
    BY <1>1, <2>2, <2>5
  <2> QED BY <1>1, <1>5, <2>1, <2>6
<1>9. CASE Return
  <2>1. UNCHANGED vars /\ built' = built /\ stack # <<>>
    BY <1>9 DEF Return
  <2>2. builder'.build = builder.build
    <3> DEFINE b == Import(builder, ctx, Innermost, T)
    <3>1. b.build = builder.build /\ MarkOutput(b, Innermost).build = b.build
      BY ImportBuild, MarkOutputBuild
    <3>2. builder' = IF Len(stack) = 1 THEN MarkOutput(b, Innermost) ELSE b
      BY <1>9 DEF Return
    <3> QED BY <3>1, <3>2
  <2>3. stack' \in Seq(Old)
    <3>1. stack' = SubSeq(stack, 1, Len(stack) - 1) /\ Len(stack) \in Nat \ {0}
      BY <1>1, <1>9, <2>1 DEF Return
    <3> QED BY <1>1, <3>1
  <2>4. todo # <<>> /\ builder.build # Len(built) /\ Tail(todo) \in Seq(Old)
    BY <1>1, <2>1
  <2>5. CASE Len(stack) = 1
    <3>1. todo' = Tail(todo) /\ stack' = <<>>
      BY <1>1, <1>9, <2>5 DEF Return
    <3> QED BY <1>5, <2>1, <2>2, <2>3, <2>4, <3>1
  <2>6. CASE Len(stack) # 1
    <3>1. todo' = todo
      BY <1>9, <2>6 DEF Return
    <3> QED BY <1>1, <1>5, <2>1, <2>2, <2>3, <2>4, <3>1
  <2> QED BY <2>5, <2>6
<1>10. CASE FinishBuild
  <2>1. /\ UNCHANGED vars /\ builder' = builder /\ todo' = todo /\ stack' = stack
        /\ built' = Append(built, BuiltGraph(builder, PartyCnt, T))
        /\ builder.build > Len(built) /\ todo = <<>>
    BY <1>10 DEF FinishBuild, Importing
  <2>2. ctx' = ctx /\ Program'
    BY <1>1, <2>1 DEF Program, VariablesFit, OutputsFit, vars
  <2>3. built' \in Seq(S \cup {BuiltGraph(builder, PartyCnt, T)}) /\ Len(built') = Len(built) + 1
    BY <1>2, <2>1
  <2> QED BY <1>1, <1>3, <2>1, <2>2, <2>3 DEF FrontendInv, Building
<1>11. CASE UNCHANGED allVars
  BY <1>1, <1>5, <1>11 DEF allVars, builderVars
<1> QED BY <1>4, <1>6, <1>7, <1>8, <1>9, <1>10, <1>11 DEF Next

-----------------------------------------------------------------------------
(* What the program's variables and outputs mean.                          *)

SamplesInField == \A s \in Samples : InField(s)

\* The values of expressions, sharings and outputs, when u are the values of the
\* expressions of d and the terms are ts.
ValuesFit(d, u) == \A s \in Samples : u[s] \in ValuedUpTo(s, d, u[s], Created(d))
SharesMean(u, ts) ==
    \A x \in Var : shares[x] # <<>> =>
        /\ stands[x] \in 1 .. Len(ts)
        /\ \A s \in Samples : IsShared(u[s], shares[x], Meant(s, ts)[stands[x]])
OutputsMean(u, ts) ==
    \A i \in DOMAIN outputs :
        /\ outputs[i].term \in 1 .. Len(ts)
        /\ \A s \in Samples : u[s][outputs[i].expr] = Meant(s, ts)[outputs[i].term]
Mean(d, u, ts) == TermsFit(ts) /\ ValuesFit(d, u) /\ SharesMean(u, ts) /\ OutputsMean(u, ts)

MeaningInv == stands \in [Var -> Nat] /\ Mean(ctx, vals, terms)

\* More expressions: the others keep their values.
LEMMA MoreValues ==
    ASSUME NEW s, InField(s), NEW c, NEW d, Well(c), Well(d), Grown(c, d), NEW val,
           val \in ValuedUpTo(s, c, val, Created(c)), NEW w, w = Evaluated(s, d.exprs, val)
    PROVE  /\ w \in ValuedUpTo(s, d, w, Created(d)) /\ Evaluates(s, w, d)
           /\ \A k \in 1 .. Created(c) : w[k] = val[k]
<1>1. /\ Created(c) \in Nat /\ Created(d) \in Nat /\ Created(c) <= Created(d)
      /\ \A k \in 1 .. Created(c) : d.exprs[k] = c.exprs[k]
  BY Sizes DEF Grown
<1>2. /\ val \in Seq(Int) /\ Len(val) = Created(c)
      /\ \A k \in 1 .. Created(c) : val[k] = Value(s, c.exprs[k], val, k)
  BY DEF ValuedUpTo
<1>3. val \in ValuedUpTo(s, d, val, Len(val))
  BY <1>1, <1>2 DEF ValuedUpTo
<1>4. w \in ValuedUpTo(s, d, val, Created(d))
  BY <1>1, <1>2, <1>3, EvaluatedValues
<1>5. /\ w \in Seq(Int) /\ Len(w) = Created(d) /\ \A k \in 1 .. Created(c) : w[k] = val[k]
      /\ \A k \in 1 .. Created(d) : w[k] = Value(s, d.exprs[k], w, k)
  BY <1>2, <1>4 DEF ValuedUpTo
<1>6. \A k \in 1 .. Created(d) : w[k] \in Int
  BY <1>5
<1> QED BY <1>5, <1>6 DEF ValuedUpTo, Evaluates

LEMMA SharedStays ==
    ASSUME NEW c, NEW v, NEW t, Vector(c, v, t), NEW val, NEW w, NEW m, IsShared(val, v, m),
           \A k \in 1 .. Created(c) : w[k] = val[k]
    PROVE  IsShared(w, v, m)
<1>1. \A i \in 1 .. PartyCnt : w[v[i]] = val[v[i]]
  BY DEF Vector, ShareAt
<1>2. ValuesOf(w, v) = ValuesOf(val, v)
  BY <1>1 DEF ValuesOf
<1> QED BY <1>2 DEF IsShared

\* The values of the terms there are.
LEMMA OldTerms ==
    ASSUME TermsFit(terms), NEW ts, ts = terms \/ \E t : TermFits(t, Len(terms) + 1) /\ ts = Append(terms, t)
    PROVE  /\ TermsFit(ts) /\ Len(terms) \in Nat /\ Len(ts) \in Nat /\ Len(terms) <= Len(ts)
           /\ \A s : InField(s) =>
                 \A k \in 1 .. Len(terms) : /\ Meant(s, ts)[k] = Meant(s, terms)[k]
                                            /\ Meant(s, ts)[k] \in 0 .. FieldSize - 1
<1>1. Len(terms) \in Nat
  <2>1. PICK S : terms \in Seq(S)
    BY DEF TermsFit
  <2> QED BY <2>1
<1>2. ASSUME NEW s, InField(s) PROVE \A k \in 1 .. Len(terms) : Meant(s, terms)[k] \in 0 .. FieldSize - 1
  <2> DEFINE S == 0 .. FieldSize - 1
             w == Meant(s, terms)
  <2>1. w \in Seq(S) /\ Len(w) = Len(terms)
    BY <1>2, MeantValues DEF TermsAre
  <2> HIDE DEF S, w
  <2>2. \A k \in 1 .. Len(terms) : w[k] \in S
    BY <2>1
  <2> QED BY <2>2 DEF S, w
<1>3. CASE ts = terms
  BY <1>1, <1>2, <1>3
<1>4. CASE \E t : TermFits(t, Len(terms) + 1) /\ ts = Append(terms, t)
  <2>1. PICK t : TermFits(t, Len(terms) + 1) /\ ts = Append(terms, t)
    BY <1>4
  <2>2. /\ TermsFit(ts) /\ Len(ts) = Len(terms) + 1
    BY <2>1, NewTermFits
  <2>3. ASSUME NEW s, InField(s) PROVE \A k \in 1 .. Len(terms) : Meant(s, ts)[k] = Meant(s, terms)[k]
    BY <2>1, <2>3, NewTerm
  <2> QED BY <1>1, <1>2, <2>2, <2>3
<1> QED BY <1>3, <1>4

\* What an operation adds disturbs no meaning.
LEMMA MeaningsStay ==
    ASSUME Program, MeaningInv, SamplesInField, NEW d, Well(d), Grown(ctx, d),
           NEW u, u = [s \in Samples |-> Evaluated(s, d.exprs, vals[s])],
           NEW ts, ts = terms \/ \E t : TermFits(t, Len(terms) + 1) /\ ts = Append(terms, t)
    PROVE  /\ Mean(d, u, ts)
           /\ \A s \in Samples : /\ Evaluates(s, u[s], d)
                                 /\ \A x \in Var : shares[x] # <<>> =>
                                       /\ IsShared(u[s], shares[x], Meant(s, terms)[stands[x]])
                                       /\ stands[x] \in 1 .. Len(terms)
                                       /\ Meant(s, terms)[stands[x]] \in 0 .. FieldSize - 1
<1>1. /\ Well(ctx) /\ TermsFit(terms) /\ ValuesFit(ctx, vals) /\ SharesMean(vals, terms)
      /\ OutputsMean(vals, terms)
  BY DEF Program, MeaningInv, Mean
<1>2. ASSUME NEW s \in Samples
      PROVE  /\ u[s] \in ValuedUpTo(s, d, u[s], Created(d)) /\ Evaluates(s, u[s], d)
             /\ \A k \in 1 .. Created(ctx) : u[s][k] = vals[s][k]
  <2> DEFINE w == u[s]
             val == vals[s]
  <2>1. InField(s) /\ val \in ValuedUpTo(s, ctx, val, Created(ctx)) /\ w = Evaluated(s, d.exprs, val)
    BY <1>1 DEF SamplesInField, ValuesFit
  <2> HIDE DEF w, val
  <2>2. /\ w \in ValuedUpTo(s, d, w, Created(d)) /\ Evaluates(s, w, d)
        /\ \A k \in 1 .. Created(ctx) : w[k] = val[k]
    BY <1>1, <2>1, MoreValues
  <2> QED BY <2>2 DEF w, val
<1>3. ASSUME NEW s \in Samples, NEW k \in 1 .. Len(terms)
      PROVE  Meant(s, ts)[k] = Meant(s, terms)[k] /\ Meant(s, ts)[k] \in 0 .. FieldSize - 1
  BY <1>1, OldTerms DEF SamplesInField
<1>4. TermsFit(ts) /\ Len(terms) \in Nat /\ Len(ts) \in Nat /\ Len(terms) <= Len(ts)
  BY <1>1, OldTerms
<1>5. ASSUME NEW x \in Var, shares[x] # <<>>, NEW s \in Samples
      PROVE  /\ stands[x] \in 1 .. Len(terms) /\ stands[x] \in 1 .. Len(ts)
             /\ IsShared(u[s], shares[x], Meant(s, terms)[stands[x]])
             /\ IsShared(u[s], shares[x], Meant(s, ts)[stands[x]])
             /\ Meant(s, terms)[stands[x]] \in 0 .. FieldSize - 1
  <2>1. stands[x] \in 1 .. Len(terms) /\ IsShared(vals[s], shares[x], Meant(s, terms)[stands[x]])
    BY <1>1, <1>5 DEF SharesMean
  <2>2. PICK t : Vector(ctx, shares[x], t)
    BY <1>5 DEF Program, VariablesFit
  <2>3. IsShared(u[s], shares[x], Meant(s, terms)[stands[x]])
    BY <1>2, <2>1, <2>2, SharedStays
  <2>4. stands[x] \in 1 .. Len(ts)
    BY <1>4, <2>1
  <2>5. /\ Meant(s, ts)[stands[x]] = Meant(s, terms)[stands[x]]
        /\ Meant(s, ts)[stands[x]] \in 0 .. FieldSize - 1
    BY <1>3, <2>1
  <2> QED BY <2>1, <2>3, <2>4, <2>5
<1>6. ASSUME NEW i \in DOMAIN outputs, NEW s \in Samples
      PROVE  u[s][outputs[i].expr] = Meant(s, ts)[outputs[i].term]
  <2> DEFINE k == outputs[i].expr
             n == outputs[i].term
  <2>1. n \in 1 .. Len(terms) /\ vals[s][k] = Meant(s, terms)[n]
    BY <1>1 DEF OutputsMean
  <2>2. k \in 1 .. Created(ctx)
    <3>1. k \in Scale + 1 .. Created(ctx) /\ Scale \in Nat
      BY DeclaredWell DEF Program, OutputsFit
    <3>2. Created(ctx) \in Nat
      BY <1>1, Sizes
    <3> HIDE DEF k
    <3> QED BY <3>1, <3>2
  <2> HIDE DEF k, n
  <2>3. u[s][k] = vals[s][k] /\ Meant(s, ts)[n] = Meant(s, terms)[n]
    BY <1>2, <1>3, <2>1, <2>2
  <2> QED BY <2>1, <2>3 DEF k, n
<1>7. ValuesFit(d, u)
  BY <1>2 DEF ValuesFit
<1>8. \A n \in 1 .. Len(terms) : n \in 1 .. Len(ts)
  BY <1>4
<1>9. SharesMean(u, ts)
  BY <1>1, <1>5, <1>8 DEF SharesMean
<1>10. OutputsMean(u, ts)
  BY <1>1, <1>6, <1>8 DEF OutputsMean
<1> QED BY <1>2, <1>4, <1>5, <1>7, <1>9, <1>10 DEF Mean

\* The values after a step.
Valued == vals' = [s \in Samples |-> Evaluated(s, ctx'.exprs, vals[s])]

\* Variable x takes the shares r.ids and stands for a new term t that they share.
TakesTerm(x, r, t) ==
    /\ ctx' = r.ctx /\ shares' = [shares EXCEPT ![x] = r.ids] /\ outputs' = outputs
    /\ terms' = Append(terms, t) /\ stands' = [stands EXCEPT ![x] = Len(terms) + 1]
FitsNext(t) == TermFits(t, Len(terms) + 1)
SharesTerm(u, ids, t) == \A s \in Samples : IsShared(u[s], ids, TermValue(s, t, Meant(s, terms)))

LEMMA TakesMeans ==
    ASSUME Program, MeaningInv, SamplesInField, Valued, NEW x \in Var, NEW r, NEW t,
           TakesTerm(x, r, t), FitsNext(t), Well(r.ctx), Grown(ctx, r.ctx), SharesTerm(vals', r.ids, t)
    PROVE  MeaningInv'
<1> DEFINE n == Len(terms) + 1
<1>1. /\ ctx' = r.ctx /\ shares' = [shares EXCEPT ![x] = r.ids] /\ outputs' = outputs
      /\ terms' = Append(terms, t) /\ stands' = [stands EXCEPT ![x] = n]
  BY DEF TakesTerm
<1>2. /\ stands \in [Var -> Nat] /\ shares \in [Var -> Seq(Nat)] /\ TermsFit(terms) /\ TermFits(t, Len(terms) + 1)
      /\ \A s \in Samples : IsShared(vals'[s], r.ids, TermValue(s, t, Meant(s, terms)))
  BY DEF MeaningInv, Mean, Program, SharesTerm, FitsNext
<1>3. Mean(ctx', vals', terms')
  <2> DEFINE d == ctx'
             u == vals'
             ts == terms'
  <2>1. Well(d) /\ Grown(ctx, d) /\ u = [s \in Samples |-> Evaluated(s, d.exprs, vals[s])]
    BY <1>1 DEF Valued
  <2>2. \E v : TermFits(v, Len(terms) + 1) /\ ts = Append(terms, v)
    BY <1>1, <1>2
  <2> HIDE DEF d, u, ts
  <2> QED BY <2>1, <2>2, MeaningsStay DEF d, u, ts
<1>4. Len(terms) \in Nat /\ Len(terms') = n /\ n \in Nat /\ n \in 1 .. Len(terms')
  BY <1>1, <1>2, NewTermFits
<1>5. stands' \in [Var -> Nat]
  BY <1>1, <1>2, <1>4
<1>6. ASSUME NEW y \in Var, shares'[y] # <<>>
      PROVE  /\ stands'[y] \in 1 .. Len(terms')
             /\ \A s \in Samples : IsShared(vals'[s], shares'[y], Meant(s, terms')[stands'[y]])
  <2>1. CASE y = x
    <3>1. stands'[y] = n /\ shares'[y] = r.ids
      BY <1>1, <1>2, <2>1
    <3>2. ASSUME NEW s \in Samples PROVE Meant(s, terms')[n] = TermValue(s, t, Meant(s, terms))
      BY <1>1, <1>2, NewTerm DEF SamplesInField
    <3> QED BY <1>2, <1>4, <3>1, <3>2
  <2>2. CASE y # x
    <3>1. stands'[y] = stands[y] /\ shares'[y] = shares[y]
      BY <1>1, <1>2, <2>2
    <3> QED BY <1>3, <1>6, <3>1 DEF Mean, SharesMean
  <2> QED BY <2>1, <2>2
<1>7. SharesMean(vals, terms)'
  BY <1>6 DEF SharesMean
<1>8. OutputsMean(vals, terms)'
  BY <1>1, <1>3 DEF Mean, OutputsMean
<1> QED BY <1>3, <1>5, <1>7, <1>8 DEF MeaningInv, Mean, ValuesFit

\* A step of the program whose values are u: what a variable it uses is worth.
LEMMA UsedMeans ==
    ASSUME Program, MeaningInv, SamplesInField, Valued, Well(ctx'), Grown(ctx, ctx'),
           NEW s \in Samples
    PROVE  /\ Evaluates(s, vals'[s], ctx')
           /\ \A x \in Var : Shared(x) =>
                 /\ IsShared(vals'[s], shares[x], Meant(s, terms)[stands[x]])
                 /\ stands[x] \in 1 .. Len(terms)
                 /\ Meant(s, terms)[stands[x]] \in 0 .. FieldSize - 1
                 /\ Meant(s, terms)[stands[x]] \in Int
<1> DEFINE d == ctx'
           u == vals'
<1>1. Well(d) /\ Grown(ctx, d) /\ u = [r \in Samples |-> Evaluated(r, d.exprs, vals[r])]
  BY DEF Valued
<1>2. \A x \in Var : Shared(x) => shares[x] # <<>>
  BY FieldFacts DEF Shared
<1> HIDE DEF d, u
<1>3. /\ Evaluates(s, u[s], d)
      /\ \A x \in Var : shares[x] # <<>> =>
            /\ IsShared(u[s], shares[x], Meant(s, terms)[stands[x]])
            /\ stands[x] \in 1 .. Len(terms)
            /\ Meant(s, terms)[stands[x]] \in 0 .. FieldSize - 1
  BY <1>1, MeaningsStay
<1>4. \A k \in 0 .. FieldSize - 1 : k \in Int
  BY FieldFacts
<1> QED BY <1>2, <1>3, <1>4 DEF d, u

\* The value of a declared input, and of the constant.
LEMMA DeclaredValues ==
    ASSUME Program, NEW d, Well(d), Grown(ctx, d), NEW s, NEW val, Evaluates(s, val, d)
    PROVE  (\A k \in DOMAIN Inputs : val[k] = Input(s, k)) /\ val[Scale] = ScaleFactor
<1>1. ASSUME NEW k \in 1 .. Created(ctx)
      PROVE  k \in 1 .. Created(d) /\ d.exprs[k] = ctx.exprs[k] /\ Fits(d, d.exprs[k], k)
  <2>1. k \in 1 .. Created(d) /\ d.exprs[k] = ctx.exprs[k]
    BY StaysThere DEF Program
  <2> QED BY <2>1 DEF Well
<1>2. ASSUME NEW k \in DOMAIN Inputs PROVE val[k] = Input(s, k)
  <2>1. k \in 1 .. Created(ctx) /\ ctx.exprs[k].kind \in {"secret", "randomness"}
    BY InputsStay
  <2>2. /\ k \in 1 .. Created(d) /\ d.exprs[k].kind \in {"secret", "randomness"} /\ d.exprs[k].op = "INPUT"
    BY <1>1, <2>1 DEF Fits
  <2> QED BY <2>2, PlaceholderValue DEF Evaluates
<1>3. val[Scale] = ScaleFactor
  <2>1. Scale \in 1 .. Created(ctx) /\ ctx.exprs[Scale].kind = "constant" /\ ctx.exprs[Scale].at = 0
    BY InputsStay
  <2>2. /\ Scale \in 1 .. Created(d) /\ d.exprs[Scale].kind = "constant" /\ d.exprs[Scale].at = 0
        /\ d.exprs[Scale].op = "INPUT"
    BY <1>1, <2>1 DEF Fits
  <2> QED BY <2>2, ConstantValue DEF Evaluates
<1> QED BY <1>2, <1>3

LEMMA InputTerm ==
    ASSUME NEW k \in Int, NEW n
    PROVE  /\ TermFits([op |-> "input", of |-> <<k>>], n)
           /\ \A s, older : TermValue(s, [op |-> "input", of |-> <<k>>], older) = Input(s, k)
BY DEF TermFits, TermValue

LEMMA DeclareMeans ==
    ASSUME Program, MeaningInv, SamplesInField, Valued, NEW x \in Var, NEW k \in DOMAIN Inputs, Declare(x, k)
    PROVE  MeaningInv'
<1> DEFINE r == Sharing(ctx, k)
           t == [op |-> "input", of |-> <<k>>]
<1>1. /\ Well(ctx) /\ k \in 1 .. Created(ctx) /\ HasNode(ctx, k) /\ k \in Int
  BY InputsStay, InputFacts DEF Program
<1>2. Well(r.ctx) /\ Grown(ctx, r.ctx)
  BY <1>1, SharingGives DEF GivesVector
<1>3. TakesTerm(x, r, t) /\ ctx' = r.ctx
  BY DEF Declare, Takes, StandsFor, TakesTerm
<1>4. ASSUME NEW s \in Samples PROVE IsShared(vals'[s], r.ids, Input(s, k))
  <2>1. Evaluates(s, vals'[s], r.ctx)
    BY <1>2, <1>3, UsedMeans
  <2>2. IsShared(vals'[s], r.ids, vals'[s][k])
    BY <1>1, <2>1, SharingShares
  <2>3. vals'[s][k] = Input(s, k)
    BY <1>2, <2>1, DeclaredValues
  <2> QED BY <2>2, <2>3
<1>5. FitsNext(t) /\ SharesTerm(vals', r.ids, t)
  BY <1>1, <1>4, InputTerm DEF FitsNext, SharesTerm
<1> HIDE DEF r, t
<1> QED BY <1>2, <1>3, <1>5, TakesMeans

LEMMA DeclareInputMeans ==
    ASSUME Program, MeaningInv, SamplesInField, Valued, NEW x \in Var, DeclareInput(x, "arith")
    PROVE  MeaningInv'
<1> DEFINE r == InputSharing(ctx, "arith")
           k == Created(ctx) + 1
           t == [op |-> "input", of |-> <<k>>]
<1>1. Well(ctx) /\ k \in Int
  BY Sizes DEF Program
<1>2. Well(r.ctx) /\ Grown(ctx, r.ctx)
  BY <1>1, InputSharingGives DEF GivesVector
<1>3. TakesTerm(x, r, t) /\ ctx' = r.ctx
  BY DEF DeclareInput, Takes, StandsFor, TakesTerm
<1>4. ASSUME NEW s \in Samples PROVE IsShared(vals'[s], r.ids, Input(s, k))
  <2>1. Evaluates(s, vals'[s], r.ctx)
    BY <1>2, <1>3, UsedMeans
  <2> QED BY <1>1, <2>1, InputSharingShares
<1>5. FitsNext(t) /\ SharesTerm(vals', r.ids, t)
  BY <1>1, <1>4, InputTerm DEF FitsNext, SharesTerm
<1> HIDE DEF r, k, t
<1> QED BY <1>2, <1>3, <1>5, TakesMeans

LEMMA AssignMeans ==
    ASSUME Program, MeaningInv, SamplesInField, Valued, ~Reassigned,
           NEW x \in Var, NEW k \in DOMAIN Inputs, Assign(x, k)
    PROVE  MeaningInv'
<1> DEFINE r == Sharing(ctx, k)
           v == Done(r.ctx, shares[x] \o r.ids)
           t == [op |-> "input", of |-> <<k>>]
<1>1. /\ Well(ctx) /\ k \in 1 .. Created(ctx) /\ HasNode(ctx, k) /\ k \in Int
  BY InputsStay, InputFacts DEF Program
<1>2. Well(r.ctx) /\ Grown(ctx, r.ctx) /\ r.ids \in Seq(Nat)
  BY <1>1, SharingGives DEF GivesVector, Vector
<1>3. TakesTerm(x, v, t) /\ ctx' = v.ctx /\ shares[x] = <<>>
  BY DEF Assign, Takes, StandsFor, TakesTerm
<1>4. v.ctx = r.ctx /\ v.ids = r.ids
  <2> HIDE DEF r
  <2> QED BY <1>2, <1>3 DEF Done
<1>5. ASSUME NEW s \in Samples PROVE IsShared(vals'[s], v.ids, Input(s, k))
  <2>1. Evaluates(s, vals'[s], r.ctx)
    <3> HIDE DEF r, v
    <3> QED BY <1>2, <1>3, <1>4, UsedMeans
  <2>2. IsShared(vals'[s], r.ids, vals'[s][k])
    BY <1>1, <2>1, SharingShares
  <2>3. vals'[s][k] = Input(s, k)
    BY <1>2, <2>1, DeclaredValues
  <2> QED BY <1>4, <2>2, <2>3
<1>6. FitsNext(t) /\ SharesTerm(vals', v.ids, t)
  BY <1>1, <1>5, InputTerm DEF FitsNext, SharesTerm
<1> HIDE DEF v, r, t
<1> QED BY <1>2, <1>3, <1>4, <1>6, TakesMeans

LEMMA StandsIn ==
    ASSUME MeaningInv, NEW x \in Var, Shared(x)
    PROVE  stands[x] \in 1 .. Len(terms) /\ Len(terms) \in Nat
<1>1. shares[x] # <<>> /\ TermsFit(terms)
  BY FieldFacts DEF Shared, MeaningInv, Mean
<1>2. Len(terms) \in Nat
  <2>1. PICK S : terms \in Seq(S)
    BY <1>1 DEF TermsFit
  <2> QED BY <2>1
<1> QED BY <1>1, <1>2 DEF MeaningInv, Mean, SharesMean

LEMMA AddMeans ==
    ASSUME Program, MeaningInv, SamplesInField, Valued, NEW x \in Var, NEW y \in Var, NEW z \in Var, Add(x, y, z)
    PROVE  MeaningInv'
<1> DEFINE r == Sum(ctx, shares[y], shares[z])
           i == stands[y]
           j == stands[z]
           t == [op |-> "+", of |-> <<i, j>>]
<1>1. Well(ctx) /\ Shared(y) /\ Shared(z)
  BY DEF Program, Add
<1>2. PICK p : Vector(ctx, shares[y], p)
  BY <1>1, VectorOf
<1>3. PICK q : Vector(ctx, shares[z], q)
  BY <1>1, VectorOf
<1>4. Well(r.ctx) /\ Grown(ctx, r.ctx)
  BY <1>1, <1>2, <1>3, SumGives DEF GivesVector
<1>5. TakesTerm(x, r, t) /\ ctx' = r.ctx
  BY DEF Add, Takes, StandsFor, TakesTerm
<1>6. Len(terms) \in Nat /\ i \in 1 .. Len(terms) /\ j \in 1 .. Len(terms)
  BY <1>1, StandsIn
<1>7. ASSUME NEW s \in Samples PROVE IsShared(vals'[s], r.ids, Plus(Meant(s, terms)[i], Meant(s, terms)[j]))
  <2> DEFINE val == vals'[s]
             m == Meant(s, terms)[i]
             n == Meant(s, terms)[j]
  <2>1. /\ Evaluates(s, val, ctx') /\ m \in Int /\ n \in Int
        /\ IsShared(val, shares[y], m) /\ IsShared(val, shares[z], n)
    BY <1>1, <1>4, <1>5, UsedMeans
  <2> HIDE DEF val, m, n
  <2> QED BY <1>1, <1>2, <1>3, <1>5, <2>1, SumSharesReduced DEF val, m, n
<1>8. FitsNext(t) /\ SharesTerm(vals', r.ids, t)
  <2> HIDE DEF r, i, j
  <2>1. i \in 1 .. (Len(terms) + 1) - 1 /\ j \in 1 .. (Len(terms) + 1) - 1
    BY <1>6
  <2>2. TermFits(t, Len(terms) + 1)
    BY <1>6, <2>1 DEF TermFits
  <2>3. \A s \in Samples : TermValue(s, t, Meant(s, terms)) = Plus(Meant(s, terms)[i], Meant(s, terms)[j])
    BY DEF TermValue
  <2> QED BY <1>7, <2>2, <2>3 DEF FitsNext, SharesTerm
<1> HIDE DEF r, t
<1> QED BY <1>4, <1>5, <1>8, TakesMeans

LEMMA ConstMulMeans ==
    ASSUME Program, MeaningInv, SamplesInField, Valued, NEW x \in Var, NEW y \in Var, ConstMul(x, y)
    PROVE  MeaningInv'
<1> DEFINE r == Scaled(ctx, shares[y], Scale)
           i == stands[y]
           t == [op |-> "c", of |-> <<i>>]
<1>1. Well(ctx) /\ Shared(y) /\ Scale \in 1 .. Created(ctx) /\ ctx.exprs[Scale].kind = "constant"
  BY InputsStay DEF Program, ConstMul
<1>2. PICK p : Vector(ctx, shares[y], p)
  BY <1>1, VectorOf
<1>3. Well(r.ctx) /\ Grown(ctx, r.ctx)
  BY <1>1, <1>2, ScaledGives DEF GivesVector
<1>4. TakesTerm(x, r, t) /\ ctx' = r.ctx
  BY DEF ConstMul, Takes, StandsFor, TakesTerm
<1>5. Len(terms) \in Nat /\ i \in 1 .. Len(terms)
  BY <1>1, StandsIn
<1>6. ASSUME NEW s \in Samples PROVE IsShared(vals'[s], r.ids, Times(ScaleFactor, Meant(s, terms)[i]))
  <2> DEFINE val == vals'[s]
             m == Meant(s, terms)[i]
  <2>1. Evaluates(s, val, r.ctx) /\ m \in Int /\ IsShared(val, shares[y], m)
    BY <1>1, <1>3, <1>4, UsedMeans
  <2> HIDE DEF val, m
  <2>2. val[Scale] = ScaleFactor
    BY <1>3, <2>1, DeclaredValues
  <2> QED BY <1>1, <1>2, <2>1, <2>2, ScaledSharesReduced DEF val, m
<1>7. FitsNext(t) /\ SharesTerm(vals', r.ids, t)
  <2> HIDE DEF r, i
  <2>1. i \in 1 .. (Len(terms) + 1) - 1
    BY <1>5
  <2>2. TermFits(t, Len(terms) + 1)
    BY <1>5, <2>1 DEF TermFits
  <2>3. \A s \in Samples : TermValue(s, t, Meant(s, terms)) = Times(ScaleFactor, Meant(s, terms)[i])
    BY DEF TermValue
  <2> QED BY <1>6, <2>2, <2>3 DEF FitsNext, SharesTerm
<1> HIDE DEF r, t
<1> QED BY <1>3, <1>4, <1>7, TakesMeans

LEMMA MulMeans ==
    ASSUME EnoughParties, Program, MeaningInv, SamplesInField, Valued,
           NEW x \in Var, NEW y \in Var, NEW z \in Var, Mul(x, y, z)
    PROVE  MeaningInv'
<1> DEFINE r == Product(ctx, shares[y], shares[z], mulCounter)
           i == stands[y]
           j == stands[z]
           t == [op |-> "*", of |-> <<i, j>>]
<1>1. /\ Well(ctx) /\ Shared(y) /\ Shared(z) /\ mulCounter \in Nat
      /\ \A k \in 1 .. PartyCnt : <<mulCounter, k>> \notin ctx.constants
  BY MoreConstants DEF Program, Mul
<1>2. PICK p : Vector(ctx, shares[y], p)
  BY <1>1, VectorOf
<1>3. PICK q : Vector(ctx, shares[z], q)
  BY <1>1, VectorOf
<1>4. Well(r.ctx) /\ Grown(ctx, r.ctx)
  BY <1>1, <1>2, <1>3, ProductGives DEF PartGives
<1>5. TakesTerm(x, r, t) /\ ctx' = r.ctx
  BY DEF Mul, Takes, StandsFor, TakesTerm
<1>6. Len(terms) \in Nat /\ i \in 1 .. Len(terms) /\ j \in 1 .. Len(terms)
  BY <1>1, StandsIn
<1>7. ASSUME NEW s \in Samples PROVE IsShared(vals'[s], r.ids, Times(Meant(s, terms)[i], Meant(s, terms)[j]))
  <2> DEFINE val == vals'[s]
             m == Meant(s, terms)[i]
             n == Meant(s, terms)[j]
  <2>1. /\ Evaluates(s, val, ctx') /\ m \in Int /\ n \in Int
        /\ IsShared(val, shares[y], m) /\ IsShared(val, shares[z], n)
    BY <1>1, <1>4, <1>5, UsedMeans
  <2> HIDE DEF val, m, n
  <2> QED BY <1>1, <1>2, <1>3, <1>5, <2>1, ProductShares DEF val, m, n
<1>8. FitsNext(t) /\ SharesTerm(vals', r.ids, t)
  <2> HIDE DEF r, i, j
  <2>1. i \in 1 .. (Len(terms) + 1) - 1 /\ j \in 1 .. (Len(terms) + 1) - 1
    BY <1>6
  <2>2. TermFits(t, Len(terms) + 1)
    BY <1>6, <2>1 DEF TermFits
  <2>3. \A s \in Samples : TermValue(s, t, Meant(s, terms)) = Times(Meant(s, terms)[i], Meant(s, terms)[j])
    BY DEF TermValue
  <2> QED BY <1>7, <2>2, <2>3 DEF FitsNext, SharesTerm
<1> HIDE DEF r, t
<1> QED BY <1>4, <1>5, <1>8, TakesMeans

LEMMA CopyMeans ==
    ASSUME Program, MeaningInv, SamplesInField, Valued, NEW x \in Var, NEW y \in Var, Copy(x, y)
    PROVE  MeaningInv'
<1>1. Well(ctx) /\ Grown(ctx, ctx) /\ Shared(y)
  BY WellFacts DEF Program, Copy
<1>2. /\ ctx' = ctx /\ shares' = [shares EXCEPT ![x] = shares[y]] /\ outputs' = outputs
      /\ terms' = terms /\ stands' = [stands EXCEPT ![x] = stands[y]]
  BY DEF Copy, Takes, Done
<1>3. /\ stands \in [Var -> Nat] /\ shares \in [Var -> Seq(Nat)]
  BY DEF MeaningInv, Program
<1>4. Mean(ctx, vals', terms)
  <2> DEFINE u == vals'
  <2>1. u = [s \in Samples |-> Evaluated(s, ctx.exprs, vals[s])]
    BY <1>2 DEF Valued
  <2> HIDE DEF u
  <2> QED BY <1>1, <2>1, MeaningsStay DEF u
<1>5. stands' \in [Var -> Nat]
  BY <1>2, <1>3
<1>6. ASSUME NEW v \in Var, shares'[v] # <<>>
      PROVE  /\ stands'[v] \in 1 .. Len(terms')
             /\ \A s \in Samples : IsShared(vals'[s], shares'[v], Meant(s, terms')[stands'[v]])
  <2> DEFINE w == IF v = x THEN y ELSE v
  <2>1. w \in Var /\ shares'[v] = shares[w] /\ stands'[v] = stands[w] /\ shares[w] # <<>>
    BY <1>2, <1>3, <1>6
  <2> HIDE DEF w
  <2> QED BY <1>2, <1>4, <2>1 DEF Mean, SharesMean
<1>7. SharesMean(vals, terms)'
  BY <1>6 DEF SharesMean
<1>8. OutputsMean(vals, terms)'
  BY <1>2, <1>4 DEF Mean, OutputsMean
<1>9. ValuesFit(ctx, vals)' /\ TermsFit(terms')
  BY <1>2, <1>4 DEF Mean, ValuesFit
<1> QED BY <1>5, <1>7, <1>8, <1>9 DEF MeaningInv, Mean

LEMMA EveryoneIsEnough == Everyone \in SUBSET Everyone /\ Cardinality(Everyone) > T
<1>1. PartyCnt \in Nat /\ T \in Nat /\ T < PartyCnt
  BY FrontendAssumption
<1>2. Cardinality(1 .. PartyCnt) = PartyCnt
  BY <1>1, FS_Interval
<1> QED BY <1>1, <1>2 DEF Everyone

LEMMA YieldMeans ==
    ASSUME Program, MeaningInv, SamplesInField, Valued, NEW x \in Var, NEW party \in 1 .. PartyCnt,
           NEW given \in {{}} \cup {{n} : n \in GivenNames}, Yield(x, party, given)
    PROVE  MeaningInv'
<1> DEFINE r == Opened(ctx, shares[x], party, given)
           o == [expr |-> r.ids[1], term |-> stands[x]]
           n == Len(outputs) + 1
<1>1. Well(ctx) /\ Shared(x)
  BY DEF Program, Yield
<1>2. PICK p : Vector(ctx, shares[x], p)
  BY <1>1, VectorOf
<1>3. /\ ctx' = r.ctx /\ outputs' = Append(outputs, o)
      /\ shares' = shares /\ terms' = terms /\ stands' = stands
  BY DEF Yield
<1>4. /\ Well(r.ctx) /\ Grown(ctx, r.ctx)
      /\ \E k \in Nat : /\ r.ids = <<k>>
                        /\ \A s, val : Worth(s, val, r.ctx, k, At0(FieldSize, PartyCnt, ValuesOf(val, shares[x]), Everyone))
  <2>1. /\ Well(r.ctx) /\ Grown(ctx, r.ctx)
        /\ \E k \in Created(ctx) + 1 .. Created(r.ctx) :
              /\ r.ids = <<k>>
              /\ \A s, val : Worth(s, val, r.ctx, k, At0(FieldSize, PartyCnt, ValuesOf(val, shares[x]), Everyone))
    BY <1>1, <1>2, OpenedGives
  <2>2. Created(ctx) \in Nat
    BY <1>1, Sizes
  <2>3. \A k \in Created(ctx) + 1 .. Created(r.ctx) : k \in Nat
    BY <2>2
  <2> HIDE DEF r
  <2> QED BY <2>1, <2>3
<1> HIDE DEF r
<1>5. PICK k \in Nat : /\ r.ids = <<k>>
                       /\ \A s, val : Worth(s, val, r.ctx, k, At0(FieldSize, PartyCnt, ValuesOf(val, shares[x]), Everyone))
  BY <1>4
<1>6. o.expr = k /\ o.term = stands[x]
  BY <1>5
<1> HIDE DEF o
<1>7. Mean(ctx', vals', terms)
  <2> DEFINE u == vals'
             d == ctx'
  <2>1. u = [s \in Samples |-> Evaluated(s, d.exprs, vals[s])] /\ Well(d) /\ Grown(ctx, d)
    BY <1>3, <1>4 DEF Valued
  <2> HIDE DEF u, d
  <2> QED BY <2>1, MeaningsStay DEF u, d
<1>8. stands[x] \in 1 .. Len(terms)
  BY <1>1, StandsIn
<1>9. ASSUME NEW s \in Samples PROVE vals'[s][k] = Meant(s, terms)[stands[x]]
  <2> DEFINE val == vals'[s]
             m == Meant(s, terms)[stands[x]]
  <2>1. Evaluates(s, val, r.ctx) /\ m \in 0 .. FieldSize - 1 /\ IsShared(val, shares[x], m)
    BY <1>1, <1>3, <1>4, UsedMeans
  <2> HIDE DEF val, m
  <2>2. val[k] = At0(FieldSize, PartyCnt, ValuesOf(val, shares[x]), Everyone)
    BY <1>5, <2>1 DEF Worth
  <2> QED BY <2>1, <2>2, EveryoneIsEnough, OpenedReconstructs DEF val, m
<1>10. PICK S : outputs \in Seq(S)
  BY DEF Program, OutputsFit
<1>11. ASSUME NEW i \in DOMAIN outputs'
       PROVE  (i = n /\ outputs'[i] = o) \/ (i \in DOMAIN outputs /\ outputs'[i] = outputs[i])
  BY <1>3, <1>10
<1>12. ASSUME NEW i \in DOMAIN outputs'
       PROVE  /\ outputs'[i].term \in 1 .. Len(terms)
              /\ \A s \in Samples : vals'[s][outputs'[i].expr] = Meant(s, terms)[outputs'[i].term]
  <2>1. CASE outputs'[i] = o
    BY <1>6, <1>8, <1>9, <2>1
  <2>2. CASE i \in DOMAIN outputs /\ outputs'[i] = outputs[i]
    BY <1>7, <2>2 DEF Mean, OutputsMean
  <2> QED BY <1>11, <2>1, <2>2
<1>13. OutputsMean(vals, terms)'
  BY <1>3, <1>12 DEF OutputsMean
<1>14. SharesMean(vals, terms)' /\ ValuesFit(ctx, vals)' /\ TermsFit(terms')
  BY <1>3, <1>7 DEF Mean, SharesMean, ValuesFit
<1> QED BY <1>3, <1>13, <1>14 DEF MeaningInv, Mean

LEMMA OperationMeans ==
    ASSUME EnoughParties, Program, MeaningInv, SamplesInField, Valued, ~Reassigned, Operation
    PROVE  MeaningInv'
<1>1. CASE \E x \in Var, s \in DOMAIN Inputs : Declare(x, s) \/ Assign(x, s)
  BY <1>1, DeclareMeans, AssignMeans
<1>2. CASE \E x \in Var : DeclareInput(x, "arith")
  BY <1>2, DeclareInputMeans
<1>3. CASE \E x, y \in Var : Copy(x, y) \/ ConstMul(x, y)
  BY <1>3, CopyMeans, ConstMulMeans
<1>4. CASE \E x, y, z \in Var : Add(x, y, z) \/ Mul(x, y, z)
  BY <1>4, AddMeans, MulMeans
<1>5. CASE \E x \in Var, party \in 1 .. PartyCnt :
              \E given \in {{}} \cup {{n} : n \in GivenNames} : Yield(x, party, given)
  BY <1>5, YieldMeans
<1> QED BY <1>1, <1>2, <1>3, <1>4, <1>5 DEF Operation

\* A build changes nothing that a program means.
LEMMA BuildMeans ==
    ASSUME Program, MeaningInv, SamplesInField, Valued, UNCHANGED vars
    PROVE  MeaningInv'
<1>1. /\ ctx' = ctx /\ shares' = shares /\ outputs' = outputs /\ terms' = terms /\ stands' = stands
      /\ Well(ctx) /\ Grown(ctx, ctx)
  BY WellFacts DEF vars, Program
<1>2. Mean(ctx, vals', terms)
  <2> DEFINE u == vals'
  <2>1. u = [s \in Samples |-> Evaluated(s, ctx.exprs, vals[s])]
    BY <1>1 DEF Valued
  <2> HIDE DEF u
  <2> QED BY <1>1, <2>1, MeaningsStay DEF u
<1>3. OutputsMean(vals, terms)' /\ SharesMean(vals, terms)' /\ ValuesFit(ctx, vals)' /\ TermsFit(terms')
  BY <1>1, <1>2 DEF Mean, OutputsMean, SharesMean, ValuesFit
<1> QED BY <1>1, <1>3 DEF MeaningInv, Mean

LEMMA MeaningInitInv == SamplesInField /\ MeaningInit => MeaningInv
<1> SUFFICES ASSUME SamplesInField, MeaningInit PROVE MeaningInv
  OBVIOUS
<1>1. /\ ctx = Declared /\ terms = <<>> /\ outputs = <<>>
      /\ shares = [x \in Var |-> <<>>] /\ stands = [x \in Var |-> 0]
      /\ vals = [s \in Samples |-> Evaluated(s, ctx.exprs, <<>>)]
  BY DEF MeaningInit, FrontendInit, Init
<1>2. Well(ctx) /\ Created(ctx) \in Nat
  BY <1>1, DeclaredWell, Sizes
<1>3. ASSUME NEW s \in Samples PROVE vals[s] \in ValuedUpTo(s, ctx, vals[s], Created(ctx))
  <2> DEFINE none == <<>>
             w == vals[s]
  <2>1. InField(s) /\ w = Evaluated(s, ctx.exprs, none)
    BY <1>1 DEF SamplesInField
  <2>2. none \in Seq(Int) /\ Len(none) = 0 /\ 0 <= Created(ctx)
    BY <1>2
  <2> HIDE DEF none, w
  <2>3. none \in ValuedUpTo(s, ctx, none, Len(none))
    BY <2>2 DEF ValuedUpTo
  <2>4. w \in ValuedUpTo(s, ctx, none, Created(ctx))
    BY <1>2, <2>1, <2>2, <2>3, EvaluatedValues
  <2>5. w \in ValuedUpTo(s, ctx, w, Created(ctx))
    BY <2>4 DEF ValuedUpTo
  <2> QED BY <2>5 DEF w
<1>4. TermsFit(terms)
  <2>1. terms \in Seq({}) /\ Len(terms) = 0
    BY <1>1
  <2> QED BY <2>1 DEF TermsFit
<1>5. SharesMean(vals, terms) /\ OutputsMean(vals, terms) /\ stands \in [Var -> Nat]
  BY <1>1 DEF SharesMean, OutputsMean
<1> QED BY <1>3, <1>4, <1>5 DEF MeaningInv, Mean, ValuesFit

LEMMA MeaningStep ==
    /\ EnoughParties /\ SamplesInField /\ ~Reassigned
    /\ FrontendInv /\ MeaningInv /\ [MeaningNext]_<<allVars, vals>>
    => FrontendInv' /\ MeaningInv'
<1> SUFFICES ASSUME EnoughParties, SamplesInField, ~Reassigned,
                    FrontendInv, MeaningInv, [MeaningNext]_<<allVars, vals>>
             PROVE  FrontendInv' /\ MeaningInv'
  OBVIOUS
<1>1. FrontendInv'
  BY FrontendStep DEF MeaningNext
<1>2. Program
  BY DEF FrontendInv
<1>3. CASE MeaningNext
  <2>1. Next /\ Valued
    BY <1>3 DEF MeaningNext, Valued
  <2>2. CASE Call
    BY <1>1, <1>2, <2>1, <2>2, OperationMeans DEF Call
  <2>3. CASE UNCHANGED vars
    BY <1>1, <1>2, <2>1, <2>3, BuildMeans
  <2> QED BY <2>1, <2>2, <2>3
          DEF Next, StartBuild, CallImport, CallOperand, Return, FinishBuild
<1>4. CASE UNCHANGED <<allVars, vals>>
  <2>1. MeaningInv' = MeaningInv
    BY <1>4 DEF allVars, vars, MeaningInv, Mean, ValuesFit, SharesMean, OutputsMean
  <2> QED BY <1>1, <2>1
<1> QED BY <1>1, <1>3, <1>4

LEMMA MeaningGives ==
    ASSUME SamplesInField, Program, MeaningInv
    PROVE  SharingsHold /\ OutputsOpen
<1>1. ASSUME NEW s \in Samples, NEW x \in Var, Shared(x)
      PROVE  /\ \A i \in Everyone : ctx.exprs[shares[x][i]].party = i
             /\ \A P \in SUBSET Everyone :
                   Cardinality(P) > T =>
                      At0(FieldSize, PartyCnt, [i \in Everyone |-> vals[s][shares[x][i]]], P)
                          = Meant(s, terms)[stands[x]]
  <2> DEFINE val == vals[s]
             v == shares[x]
             m == Meant(s, terms)[stands[x]]
             sh == [i \in Everyone |-> val[v[i]]]
  <2>1. PICK t : Vector(ctx, v, t)
    BY <1>1, VectorOf
  <2>2. \A i \in Everyone : ctx.exprs[v[i]].party = i
    BY <2>1 DEF Vector, ShareAt, Everyone
  <2>3. v # <<>> /\ TermsFit(terms) /\ SharesMean(vals, terms)
    BY <1>1, FieldFacts DEF Shared, MeaningInv, Mean
  <2>4. stands[x] \in 1 .. Len(terms) /\ IsShared(val, v, m)
    BY <2>3 DEF SharesMean
  <2>5. m \in 0 .. FieldSize - 1
    BY <2>3, <2>4, OldTerms DEF SamplesInField
  <2>6. sh = ValuesOf(val, v)
    BY DEF ValuesOf, Everyone
  <2> HIDE DEF val, v, m, sh
  <2>7. \A P \in SUBSET Everyone : Cardinality(P) > T => At0(FieldSize, PartyCnt, sh, P) = m
    BY <2>4, <2>5, <2>6, OpenedReconstructs
  <2> QED BY <2>2, <2>7 DEF val, v, m, sh
<1>2. SharingsHold
  BY <1>1 DEF SharingsHold
<1>3. OutputsOpen
  BY DEF OutputsOpen, MeaningInv, Mean, OutputsMean
<1> QED BY <1>2, <1>3

-----------------------------------------------------------------------------
(* The theorems.                                                           *)

THEOREM FrontendInvariant ==
    ASSUME ~Reassigned
    PROVE  Spec => []FrontendInv
<1>1. FrontendInit => FrontendInv
  BY FrontendInitInv
<1>2. FrontendInv /\ [Next]_allVars => FrontendInv'
  BY FrontendStep
<1> QED BY <1>1, <1>2, PTL DEF Spec

\* With 2T + 1 parties or more, inputs in the field and no variable assigned a
\* second time, every variable is a sharing of what it stands for that any
\* T + 1 parties or more can open.
THEOREM VariablesStayShared ==
    ASSUME EnoughParties, SamplesInField, ~Reassigned
    PROVE  MeaningSpec => []SharingsHold
<1>1. MeaningInit => FrontendInv /\ MeaningInv
  BY FrontendInitInv, MeaningInitInv DEF MeaningInit
<1>2. (FrontendInv /\ MeaningInv) /\ [MeaningNext]_<<allVars, vals>> => (FrontendInv /\ MeaningInv)'
  BY MeaningStep
<1>3. FrontendInv /\ MeaningInv => SharingsHold
  BY MeaningGives DEF FrontendInv
<1> QED BY <1>1, <1>2, <1>3, PTL DEF MeaningSpec

\* What yield opens is what its variable stood for.
THEOREM OutputsAreWhatWasMeant ==
    ASSUME EnoughParties, SamplesInField, ~Reassigned
    PROVE  MeaningSpec => []OutputsOpen
<1>1. MeaningInit => FrontendInv /\ MeaningInv
  BY FrontendInitInv, MeaningInitInv DEF MeaningInit
<1>2. (FrontendInv /\ MeaningInv) /\ [MeaningNext]_<<allVars, vals>> => (FrontendInv /\ MeaningInv)'
  BY MeaningStep
<1>3. FrontendInv /\ MeaningInv => OutputsOpen
  BY MeaningGives DEF FrontendInv
<1> QED BY <1>1, <1>2, <1>3, PTL DEF MeaningSpec

LEMMA InvTypeOK == FrontendInv => TypeOK
<1> SUFFICES ASSUME FrontendInv PROVE TypeOK
  OBVIOUS
<1>1. /\ Program /\ Well(ctx) /\ Created(ctx) \in Nat /\ DOMAIN ctx.exprs = 1 .. Created(ctx)
      /\ builder.build \in {Len(built), Len(built) + 1} /\ builder.build <= MaxBuilds
      /\ todo \in Seq(1 .. Created(ctx)) /\ stack \in Seq(1 .. Created(ctx))
  BY WellFacts DEF FrontendInv, Building, Program
<1>2. \A k \in DOMAIN ctx.exprs : \A i \in DOMAIN ctx.exprs[k].args : ctx.exprs[k].args[i] \in 1 .. k - 1
  BY <1>1, OlderOperands
<1>3. ASSUME NEW x \in Var PROVE shares[x] \in Seq(DOMAIN ctx.exprs) /\ Len(shares[x]) \in {0, PartyCnt}
  <2>1. CASE shares[x] = <<>>
    BY <2>1
  <2>2. CASE \E t : Vector(ctx, shares[x], t)
    <3>1. PICK t : Vector(ctx, shares[x], t)
      BY <2>2
    <3>2. /\ shares[x] \in Seq(Nat) /\ Len(shares[x]) = PartyCnt
          /\ \A i \in 1 .. PartyCnt : shares[x][i] \in 1 .. Created(ctx)
      BY <3>1 DEF Vector, ShareAt
    <3>3. DOMAIN shares[x] = 1 .. PartyCnt
      BY <3>2
    <3>4. shares[x] = [i \in 1 .. PartyCnt |-> shares[x][i]]
      BY <3>2, <3>3
    <3>5. \A i \in 1 .. PartyCnt : shares[x][i] \in DOMAIN ctx.exprs
      BY <1>1, <3>2
    <3>6. PartyCnt \in Nat
      BY FrontendAssumption
    <3>7. [i \in 1 .. PartyCnt |-> shares[x][i]] \in Seq(DOMAIN ctx.exprs)
      BY <3>5, <3>6
    <3> QED BY <3>2, <3>4, <3>7
  <2> QED BY <1>1, <2>1, <2>2 DEF Program, VariablesFit
<1>4. ASSUME NEW i \in DOMAIN outputs PROVE outputs[i].expr \in DOMAIN ctx.exprs
  <2>1. outputs[i].expr \in Scale + 1 .. Created(ctx)
    BY <1>1 DEF Program, OutputsFit
  <2>2. Scale \in Nat
    BY FrontendAssumption DEF Scale
  <2> QED BY <1>1, <2>1, <2>2
<1>5. Len(built) \in 0 .. MaxBuilds
  <2>1. Len(built) \in Nat
    BY DEF FrontendInv, Building
  <2> QED BY <1>1, <2>1, BuildAssumption
<1>6. mulCounter \in Nat /\ steps \in 0 .. MaxSteps
  BY <1>1 DEF Program
<1> QED BY <1>1, <1>2, <1>3, <1>4, <1>5, <1>6 DEF TypeOK

\* The type invariant: an expression's operands are older than it (so that
\* importFrontend, which calls itself for them, returns), and a variable that is
\* assigned once has no share or one of every party.
THEOREM FrontendTypeOK ==
    ASSUME ~Reassigned
    PROVE  Spec => []TypeOK
<1>1. FrontendInv => TypeOK
  BY InvTypeOK
<1> QED BY <1>1, FrontendInvariant, PTL

\* No operation on variables fails the checks of the expressions it makes: the
\* checks of share.hpp:48 and 168-183 and expression.hpp:116 never throw,
\* whatever the program is, for any number of parties and any names it gives.
THEOREM OperationsNeverThrow ==
    ASSUME ~Reassigned
    PROVE  Spec => []NeverThrows
<1>1. FrontendInv => NeverThrows
  BY WellFacts DEF FrontendInv, Program, NeverThrows
<1> QED BY <1>1, FrontendInvariant, PTL

LEMMA InvNamesUnique == FrontendInv /\ GivenNames = {} => NamesUnique
<1> SUFFICES ASSUME FrontendInv, GivenNames = {} PROVE NamesUnique
  OBVIOUS
<1> DEFINE Registered == {k \in DOMAIN ctx.exprs : ctx.exprs[k].kind = "share"}
           Names == {ctx.exprs[k].name : k \in Registered}
           Name == [k \in Registered |-> ctx.exprs[k].name]
<1>1. Well(ctx) /\ Named(ctx) /\ Created(ctx) \in Nat /\ DOMAIN ctx.exprs = 1 .. Created(ctx)
  BY WellFacts DEF FrontendInv, Program, Well
<1>2. IsFiniteSet(Registered)
  <2>1. IsFiniteSet(1 .. Created(ctx))
    BY <1>1, FS_Interval
  <2> QED BY <1>1, <2>1, FS_Subset
<1>3. Name \in Bijection(Registered, Names)
  <2>1. ASSUME NEW j \in Registered, NEW k \in Registered, Name[j] = Name[k] PROVE j = k
    BY <1>1, <2>1 DEF Named, IsShare
  <2>2. Name \in [Registered -> Names]
    OBVIOUS
  <2>3. ASSUME NEW n \in Names PROVE \E k \in Registered : Name[k] = n
    OBVIOUS
  <2> HIDE DEF Name, Names, Registered
  <2> QED BY <2>1, <2>2, <2>3 DEF Bijection, Injection, Surjection, IsInjective
<1>4. Cardinality(Names) = Cardinality(Registered)
  <2> HIDE DEF Name, Names, Registered
  <2>1. ExistsBijection(Registered, Names)
    BY <1>3 DEF ExistsBijection
  <2> QED BY <1>2, <2>1, FS_Bijection
<1> QED BY <1>4 DEF NamesUnique

\* "In this namespace, every name is kept unique" (context.hpp:23): it is, in a
\* program that leaves the naming of its shares to the library.
THEOREM ShareNamesUnique ==
    ASSUME ~Reassigned, GivenNames = {}
    PROVE  Spec => []NamesUnique
<1>1. FrontendInv => NamesUnique
  BY InvNamesUnique
<1> QED BY <1>1, FrontendInvariant, PTL
=============================================================================
