-------------------------- MODULE ExecutionProofs --------------------------
(***************************************************************************)
(* The message queues of the execution library are FIFO and are left empty *)
(* by every run that returns, no run among registered parties throws, and  *)
(* a run that found its channels empty returns a sharing of 0, for any     *)
(* parties, evaluation points, field, degree and number of calls.          *)
(*                                                                         *)
(* That a receive finds a message is not a fact about the queues alone: it *)
(* follows from what the run still has to do.  The invariant therefore     *)
(* relates each queue to the calls that remain in the lambda: a receive    *)
(* remains for which no send remains exactly if one message of this run    *)
(* waits, behind those that failed runs have left.                         *)
(*                                                                         *)
(* That the shares fit together is a second invariant: what a party has    *)
(* added up is the value, at its point, of the sum of the polynomials of   *)
(* those it has received from.  It rests on the algebra of polynomials     *)
(* over the integers, and on arithmetic that does not wrap.                *)
(***************************************************************************)
EXTENDS Execution, CountingProofs, SequenceTheorems

-----------------------------------------------------------------------------
(* The inductive invariant.                                                *)

\* The calls a lambda is made of.
Call == [op : {"send", "receive"}, of : Par, with : Par]
SendOf(p, q) == [op |-> "send", of |-> q, with |-> p]
ReceiveOf(p, q) == [op |-> "receive", of |-> p, with |-> q]

\* All sends come before all receives.
SendsFirst(todo) ==
    \A i, j \in DOMAIN todo : i < j /\ todo[j].op = "send" => todo[i].op = "send"

\* The shares made for a party, and the bundles.
ShareOf(p) == [party : {p}, val : Element]
Bundle == [parties : Seq(Par), op : {"run", "plus", "minus", "times"}, vals : Seq(Element),
           undisturbed : BOOLEAN, wraps : BOOLEAN]

QueuesTyped ==
    /\ DOMAIN msgs \subseteq Par /\ ctx \subseteq DOMAIN msgs
    /\ \A p \in DOMAIN msgs : /\ DOMAIN msgs[p] \subseteq Par
                              /\ \A q \in DOMAIN msgs[p] : msgs[p][q] \in Seq(ShareOf(p))
    /\ sent \in [Par -> [Par -> Seq(Share)]] /\ got \in [Par -> [Par -> Seq(Share)]]

RunTyped ==
    /\ run \in [parties : Seq(Par), coeffs : Samples \cup {<<>>}, todo : Seq(Call),
                delta : UNION {[D -> Element] : D \in SUBSET Par}, undisturbed : BOOLEAN]
    /\ DOMAIN run.delta = Range(run.parties)
    /\ run.todo # <<>> => run.coeffs \in Samples

ResultsTyped ==
    /\ results \in Seq(Bundle)
    /\ \A i \in DOMAIN results : DOMAIN results[i].vals = DOMAIN results[i].parties
    /\ calls \in 0 .. MaxCalls

Remains(call) == call \in Range(run.todo)

\* What remains of a lambda: no call twice, the sends before the receives, and for
\* every send the receive that takes its message.
AgendaInv ==
    /\ IsInjective(run.todo) /\ SendsFirst(run.todo)
    /\ \A c \in Range(run.todo) : {c.of, c.with} \subseteq Range(run.parties)
    /\ \A p, q \in Par : Remains(SendOf(p, q)) => Remains(ReceiveOf(p, q))

\* q has sent to p in this run, and p has still to receive it.
InTransit(p, q) == Remains(ReceiveOf(p, q)) /\ ~Remains(SendOf(p, q))

\* Such a message waits; before any run has thrown, it is all that waits.
WaitInv ==
    \A p, q \in Par : Knows(msgs, p, q) =>
        /\ InTransit(p, q) => msgs[p][q] # <<>>
        /\ "run" \notin failed => Len(msgs[p][q]) = IF InTransit(p, q) THEN 1 ELSE 0

\* Parties that one call has registered stay reachable from each other.
GroupInv == \A g \in groups : g \subseteq ctx /\ \A p, q \in g : Knows(msgs, p, q)

\* The part of ChannelsBothWays that registering another set preserves.
ChannelInv ==
    "register" \notin failed =>
        \A p \in DOMAIN msgs : \A q \in DOMAIN msgs[p] : Knows(msgs, q, p)

\* QueuesAreFifo is needed by no other part, but not inductive without them: the
\* types of the queues make the appending and the taking off cancel out.
Inv == /\ QueuesTyped /\ RunTyped /\ ResultsTyped
       /\ AgendaInv /\ WaitInv /\ GroupInv /\ ChannelInv /\ QueuesAreFifo

-----------------------------------------------------------------------------
(* The field, the polynomials and the queues.                              *)

\* The constructor of field reduces whatever 64-bit arithmetic has produced.
LEMMA FieldType == ASSUME NEW n \in Int PROVE Field(n) \in Element
  BY FieldAssumption DEF Field, Element

\* So the operators of field return reduced elements, also when they wrap.
LEMMA OperationsTyped ==
    ASSUME NEW a \in Element, NEW b \in Element
    PROVE  Plus(a, b) \in Element /\ Minus(a, b) \in Element /\ Times(a, b) \in Element
<1>1. a \in Int /\ b \in Int
  BY DEF Element
<1>2. a + b \in Int /\ a - b \in Int /\ a * b \in Int
  BY <1>1
<1> QED BY <1>2, FieldType DEF Plus, Minus, Times

\* What factor and res are after every turn of the loop of poly::eval.
EvalTurns(n, coeffs, secret, alpha) ==
    {loop \in [0 .. n -> [factor : Element, res : Element]] :
        /\ Eval(secret, coeffs, alpha) = loop[n].res
        /\ loop[0] = [factor |-> Field(1), res |-> secret]
        /\ \A i \in 1 .. n :
              /\ loop[i].factor = Times(loop[i - 1].factor, alpha)
              /\ loop[i].res = Plus(loop[i - 1].res, Times(loop[i].factor, coeffs[i]))}

\* The recursive function that stands for the loop exists, and every turn keeps factor
\* and res reduced.
LEMMA EvalLoops ==
    ASSUME NEW n \in Nat, NEW coeffs \in [1 .. n -> Element], NEW secret \in Element, NEW alpha \in Element
    PROVE  EvalTurns(n, coeffs, secret, alpha) # {}
<1> DEFINE Turn == [factor : Element, res : Element]
           first == [factor |-> Field(1), res |-> secret]
           turn(t, i) == LET factor == Times(t.factor, alpha)
                         IN [factor |-> factor, res |-> Plus(t.res, Times(factor, coeffs[i]))]
           Loops(f) == f = [i \in 0 .. n |-> IF i = 0 THEN first ELSE turn(f[i - 1], i)]
           next == [i \in Nat |-> [t \in Turn |-> IF i \in 1 .. n THEN turn(t, i) ELSE t]]
           loop == CHOOSE f : Loops(f)
<1>1. first \in Turn /\ \A t \in Turn : \A i \in 1 .. n : turn(t, i) \in Turn
  <2>1. first \in Turn
    BY FieldType
  <2>2. ASSUME NEW t \in Turn, NEW i \in 1 .. n PROVE turn(t, i) \in Turn
    <3>1. coeffs[i] \in Element /\ t.factor \in Element /\ t.res \in Element
      OBVIOUS
    <3>2. Times(t.factor, alpha) \in Element
      BY <3>1, OperationsTyped
    <3>3. Times(Times(t.factor, alpha), coeffs[i]) \in Element
      BY <3>1, <3>2, OperationsTyped
    <3>4. Plus(t.res, Times(Times(t.factor, alpha), coeffs[i])) \in Element
      BY <3>1, <3>3, OperationsTyped
    <3> QED BY <3>2, <3>4
  <2> QED BY <2>1, <2>2
<1>2. Eval(secret, coeffs, alpha) = loop[n].res
  <2>1. Len(coeffs) = n
    OBVIOUS
  <2> QED BY <2>1 DEF Eval
<1>3. \A t, i : /\ turn(t, i).factor = Times(t.factor, alpha)
               /\ turn(t, i).res = Plus(t.res, Times(turn(t, i).factor, coeffs[i]))
  OBVIOUS
<1> HIDE DEF Turn, first, turn
<1>4. next \in [Nat -> [Turn -> Turn]]
  BY <1>1
<1>5. PICK f \in [Nat -> Turn] : f[0] = first /\ \A i \in Nat : f[i + 1] = next[i + 1][f[i]]
  <2> HIDE DEF next
  <2>1. Recursive(Turn, first, next) # {}
    BY <1>1, <1>4, Recursion
  <2> QED BY <2>1 DEF Recursive
<1>6. Loops([i \in 0 .. n |-> f[i]])
  <2> DEFINE g == [i \in 0 .. n |-> f[i]]
  <2>1. ASSUME NEW i \in 0 .. n PROVE g[i] = IF i = 0 THEN first ELSE turn(g[i - 1], i)
    <3>1. CASE i = 0
      BY <1>5, <3>1
    <3>2. CASE i # 0
      <4> DEFINE j == i - 1
      <4>1. j \in Nat /\ j + 1 = i /\ i \in 1 .. n /\ j \in 0 .. n /\ i \in Nat
        BY <3>2
      <4> HIDE DEF j, next
      <4>2. f[j + 1] = next[j + 1][f[j]] /\ f[j] \in Turn
        BY <1>5, <4>1
      <4>3. next[i][f[j]] = turn(f[j], i)
        BY <4>1, <4>2 DEF next
      <4>4. g[i] = f[i] /\ g[j] = f[j]
        BY <4>1
      <4> HIDE DEF g
      <4>5. g[i] = turn(g[j], i)
        BY <4>1, <4>2, <4>3, <4>4
      <4> QED BY <3>2, <4>5 DEF j
    <3> QED BY <3>1, <3>2
  <2>2. g = [i \in 0 .. n |-> g[i]]
    OBVIOUS
  <2> HIDE DEF g
  <2>3. Loops(g)
    BY <2>1, <2>2
  <2> QED BY <2>3 DEF g
<1>7. Loops(loop)
  <2> HIDE DEF Loops
  <2> QED BY <1>6
<1> HIDE DEF loop
<1>8. loop[0] = first /\ \A i \in 1 .. n : loop[i] = turn(loop[i - 1], i)
  BY <1>7
<1>9. \A i \in 0 .. n : loop[i] \in Turn
  <2> DEFINE G == {i \in Nat : i <= n => loop[i] \in Turn}
  <2>1. 0 \in G
    BY <1>1, <1>8
  <2>2. ASSUME NEW i \in G PROVE i + 1 \in G
    <3> SUFFICES ASSUME i + 1 <= n PROVE loop[i + 1] \in Turn
      OBVIOUS
    <3> DEFINE j == i + 1
    <3>1. j \in 1 .. n /\ j - 1 = i /\ loop[i] \in Turn
      OBVIOUS
    <3> HIDE DEF j
    <3>2. loop[j] = turn(loop[j - 1], j)
      BY <1>8, <3>1
    <3> QED BY <1>1, <3>1, <3>2 DEF j
  <2>3. \A i \in Nat : i \in G
    <3> HIDE DEF G
    <3>1. G \in SUBSET Nat
      BY DEF G
    <3> QED BY <2>1, <2>2, <3>1, Inductive
  <2> QED BY <2>3
<1>10. loop \in [0 .. n -> Turn]
  BY <1>7, <1>9
<1> HIDE DEF Loops
<1>11. \A i \in 1 .. n : /\ loop[i].factor = Times(loop[i - 1].factor, alpha)
                         /\ loop[i].res = Plus(loop[i - 1].res, Times(loop[i].factor, coeffs[i]))
  BY <1>3, <1>8
<1> QED BY <1>2, <1>8, <1>10, <1>11 DEF EvalTurns, Turn, first

\* poly::eval returns a reduced element.
LEMMA EvalType ==
    ASSUME NEW n \in Nat, NEW coeffs \in [1 .. n -> Element], NEW secret \in Element, NEW alpha \in Element
    PROVE  Eval(secret, coeffs, alpha) \in Element
<1>1. PICK loop \in EvalTurns(n, coeffs, secret, alpha) : TRUE
  BY EvalLoops
<1> QED BY <1>1 DEF EvalTurns

\* A downward closed set of indices is a prefix, as long as it has elements.
LEMMA Prefix ==
    ASSUME NEW n \in Nat, NEW S \in SUBSET (1 .. n),
           \A i \in S : \A j \in 1 .. i : j \in S
    PROVE  Cardinality(S) \in 0 .. n /\ S = 1 .. Cardinality(S)
<1>1. PICK m \in (1 .. n + 1) \ S : \A k \in (1 .. n + 1) \ S : m <= k
  <2>1. (1 .. n + 1) \ S \in SUBSET Nat /\ n + 1 \in (1 .. n + 1) \ S
    OBVIOUS
  <2> QED BY <2>1, Least
<1>2. \A i : i \in S <=> i \in 1 .. m - 1
  <2>1. ASSUME NEW i \in S PROVE i \in 1 .. m - 1
    <3>1. ~(m <= i)
      BY <1>1
    <3> QED BY <3>1
  <2>2. ASSUME NEW i \in 1 .. m - 1 PROVE i \in S
    BY <1>1
  <2> QED BY <2>1, <2>2
<1>3. S = 1 .. m - 1
  BY <1>2
<1>4. Cardinality(S) = m - 1
  BY <1>3, FS_Interval
<1> QED BY <1>3, <1>4

\* The parties that register_parties gets through were not registered before.
LEMMA RegistrableFresh ==
    ASSUME NEW m, NEW ps \in Seq(Par)
    PROVE  /\ Registrable(m, ps) \in 0 .. Len(ps)
           /\ \A i \in 1 .. Registrable(m, ps) : ps[i] \notin DOMAIN m
<1> DEFINE fresh(i) == /\ ps[i] \notin DOMAIN m
                       /\ \A j \in 1 .. i - 1 : ps[j] # ps[i]
           S == {i \in DOMAIN ps : \A j \in 1 .. i : fresh(j)}
<1>1. Registrable(m, ps) = Cardinality(S)
  BY DEF Registrable
<1>2. \A i \in S : i \in 1 .. Len(ps) /\ fresh(i)
  OBVIOUS
<1>3. \A i \in S : \A j \in 1 .. i : j \in S
  BY DEF S
<1>4. Cardinality(S) \in 0 .. Len(ps) /\ S = 1 .. Cardinality(S)
  <2> HIDE DEF S, fresh
  <2> QED BY <1>2, <1>3, Prefix
<1> QED
  <2> HIDE DEF S
  <2> QED BY <1>1, <1>2, <1>4

\* The parties that register_parties gets through.
Newcomers(m, ps) == {ps[i] : i \in 1 .. Registrable(m, ps)}

\* register_parties gives each of them an empty queue for every party of the set,
\* and touches no queue that was there (context.hpp:32).
LEMMA RegisteredQueues ==
    ASSUME NEW m, NEW ps \in Seq(Par)
    PROVE  /\ DOMAIN Registered(m, ps) = DOMAIN m \cup Newcomers(m, ps)
           /\ Newcomers(m, ps) \subseteq Range(ps) /\ Newcomers(m, ps) \cap DOMAIN m = {}
           /\ \A p \in DOMAIN m : Registered(m, ps)[p] = m[p]
           /\ \A p \in Newcomers(m, ps) :
                 /\ DOMAIN Registered(m, ps)[p] = Range(ps)
                 /\ \A q \in Range(ps) : Registered(m, ps)[p][q] = <<>>
           /\ Registrable(m, ps) = Len(ps) => Newcomers(m, ps) = Range(ps)
<1> DEFINE k == Registrable(m, ps)
           new == Newcomers(m, ps)
           h == Registered(m, ps)
<1>1. k \in 0 .. Len(ps) /\ new \cap DOMAIN m = {}
  BY RegistrableFresh DEF Newcomers
<1>2. h = [p \in DOMAIN m \cup new |-> IF p \in new THEN [q \in Range(ps) |-> <<>>] ELSE m[p]]
  BY DEF Registered, Newcomers
<1>3. new \subseteq Range(ps) /\ (k = Len(ps) => new = Range(ps))
  <2>1. new = {ps[i] : i \in 1 .. k}
    BY DEF Newcomers
  <2>2. DOMAIN ps = 1 .. Len(ps) /\ Len(ps) \in Nat
    OBVIOUS
  <2>3. k \in 0 .. Len(ps)
    BY <1>1
  <2> HIDE DEF k, new
  <2>4. Range(ps) = {ps[i] : i \in 1 .. Len(ps)}
    BY <2>2 DEF Range
  <2>5. 1 .. k \subseteq 1 .. Len(ps)
    BY <2>2, <2>3
  <2> QED BY <2>1, <2>4, <2>5
<1> HIDE DEF new, k, h
<1>4. /\ DOMAIN h = DOMAIN m \cup new
      /\ \A p \in DOMAIN m : h[p] = m[p]
      /\ \A p \in new : DOMAIN h[p] = Range(ps) /\ \A q \in Range(ps) : h[p][q] = <<>>
  BY <1>1, <1>2
<1>5. k = Len(ps) => new = Range(ps)
  BY <1>3
<1> QED BY <1>1, <1>3, <1>4, <1>5, Zenon DEF new, k, h

\* Two nested loops of n turns count every pair of indices once.
LEMMA Quotient ==
    ASSUME NEW n \in Nat \ {0}
    PROVE  /\ \A k \in 1 .. n * n : /\ (k - 1) \div n \in 0 .. n - 1 /\ (k - 1) % n \in 0 .. n - 1
                                   /\ k = n * ((k - 1) \div n) + ((k - 1) % n) + 1
           /\ \A q, r \in 0 .. n - 1 : \E k \in 1 .. n * n : (k - 1) \div n = q /\ (k - 1) % n = r
<1>1. ASSUME NEW k \in 1 .. n * n
      PROVE  /\ (k - 1) \div n \in 0 .. n - 1 /\ (k - 1) % n \in 0 .. n - 1
             /\ k = n * ((k - 1) \div n) + ((k - 1) % n) + 1
  OBVIOUS
<1>2. ASSUME NEW q \in 0 .. n - 1, NEW r \in 0 .. n - 1
      PROVE  \E k \in 1 .. n * n : (k - 1) \div n = q /\ (k - 1) % n = r
  <2> DEFINE k == n * q + r + 1
  <2>1. k \in 1 .. n * n
    OBVIOUS
  <2>2. (k - 1) \div n = q /\ (k - 1) % n = r
    OBVIOUS
  <2> QED BY <2>1, <2>2
<1> QED BY <1>1, <1>2

\* The calls of one half of the lambda: one for every pair of parties, each once.
LEMMA CallsListed ==
    ASSUME NEW op \in {"send", "receive"}, NEW ps \in Seq(Par), IsInjective(ps)
    PROVE  /\ Calls(op, ps) \in Seq(Call) /\ IsInjective(Calls(op, ps))
           /\ \A c : c \in Range(Calls(op, ps)) <=>
                 \E p, q \in Range(ps) : c = [op |-> op, of |-> p, with |-> q]
<1> DEFINE n == Len(ps)
           call(k) == [op |-> op, of |-> ps[(k - 1) \div n + 1], with |-> ps[((k - 1) % n) + 1]]
           s == Calls(op, ps)
<1>1. s = [k \in 1 .. n * n |-> call(k)]
  BY DEF Calls
<1>2. n \in Nat /\ n * n \in Nat /\ DOMAIN ps = 1 .. n
  OBVIOUS
<1>3. \A k \in 1 .. n * n : n # 0
  BY <1>2
<1> HIDE DEF n
<1>4. \A k \in 1 .. n * n : (k - 1) \div n + 1 \in 1 .. n /\ ((k - 1) % n) + 1 \in 1 .. n
  <2> SUFFICES ASSUME NEW k \in 1 .. n * n
               PROVE  (k - 1) \div n + 1 \in 1 .. n /\ ((k - 1) % n) + 1 \in 1 .. n
    OBVIOUS
  <2>1. n \in Nat \ {0}
    BY <1>2, <1>3
  <2>2. (k - 1) \div n \in 0 .. n - 1 /\ (k - 1) % n \in 0 .. n - 1
    BY <2>1, Quotient
  <2> QED BY <2>1, <2>2
<1>5. \A k \in 1 .. n * n : call(k) \in Call
  BY <1>2, <1>4 DEF Call
<1>6. s \in Seq(Call) /\ Len(s) = n * n /\ DOMAIN s = 1 .. n * n
  <2> HIDE DEF call
  <2>1. s \in [1 .. n * n -> Call]
    BY <1>1, <1>5
  <2> QED BY <1>2, <2>1
<1>7. IsInjective(s)
  <2> SUFFICES ASSUME NEW i \in 1 .. n * n, NEW j \in 1 .. n * n, call(i) = call(j) PROVE i = j
    <3> HIDE DEF call
    <3> QED BY <1>1, <1>6 DEF IsInjective
  <2>1. ps[(i - 1) \div n + 1] = ps[(j - 1) \div n + 1] /\ ps[((i - 1) % n) + 1] = ps[((j - 1) % n) + 1]
    OBVIOUS
  <2>2. (i - 1) \div n + 1 = (j - 1) \div n + 1 /\ ((i - 1) % n) + 1 = ((j - 1) % n) + 1
    BY <1>2, <1>4, <2>1 DEF IsInjective
  <2>3. n \in Nat \ {0}
    BY <1>2, <1>3
  <2>4. (i - 1) \div n = (j - 1) \div n /\ (i - 1) % n = (j - 1) % n
    BY <2>2, <2>3, Quotient
  <2>5. i = n * ((i - 1) \div n) + ((i - 1) % n) + 1 /\ j = n * ((j - 1) \div n) + ((j - 1) % n) + 1
    BY <2>3, Quotient
  <2> QED BY <2>4, <2>5
<1>8. ASSUME NEW c \in Range(s) PROVE \E p, q \in Range(ps) : c = [op |-> op, of |-> p, with |-> q]
  <2>1. PICK k \in 1 .. n * n : c = call(k)
    <3> HIDE DEF call
    <3> QED BY <1>1, <1>6, <1>8 DEF Range
  <2>2. ps[(k - 1) \div n + 1] \in Range(ps) /\ ps[((k - 1) % n) + 1] \in Range(ps)
    BY <1>2, <1>4 DEF Range
  <2> QED BY <2>1, <2>2
<1>9. ASSUME NEW p \in Range(ps), NEW q \in Range(ps)
      PROVE  [op |-> op, of |-> p, with |-> q] \in Range(s)
  <2>1. PICK i \in 1 .. n, j \in 1 .. n : ps[i] = p /\ ps[j] = q
    BY <1>2 DEF Range
  <2>2. n \in Nat \ {0} /\ i - 1 \in 0 .. n - 1 /\ j - 1 \in 0 .. n - 1
    BY <1>2
  <2>3. PICK k \in 1 .. n * n : (k - 1) \div n = i - 1 /\ (k - 1) % n = j - 1
    BY <2>2, Quotient
  <2>4. call(k) = [op |-> op, of |-> p, with |-> q]
    BY <2>1, <2>3
  <2>5. s[k] = call(k) /\ k \in DOMAIN s
    <3> HIDE DEF call
    <3> QED BY <1>1, <1>6
  <2> QED BY <2>4, <2>5 DEF Range
<1> QED BY <1>6, <1>7, <1>8, <1>9

\* The lambda: every party sends to every party, then receives from every party.
LEMMA LambdaListed ==
    ASSUME NEW ps \in Seq(Par), IsInjective(ps)
    PROVE  /\ Lambda(ps) \in Seq(Call) /\ IsInjective(Lambda(ps)) /\ SendsFirst(Lambda(ps))
           /\ \A c \in Range(Lambda(ps)) : {c.of, c.with} \subseteq Range(ps)
           /\ \A p, q \in Range(ps) : /\ SendOf(p, q) \in Range(Lambda(ps))
                                      /\ ReceiveOf(p, q) \in Range(Lambda(ps))
<1> DEFINE s == Calls("send", ps)
           t == Calls("receive", ps)
           u == Lambda(ps)
<1>1. s \in Seq(Call) /\ t \in Seq(Call) /\ IsInjective(s) /\ IsInjective(t)
  BY CallsListed
<1>2. /\ \A c : c \in Range(s) <=> \E p, q \in Range(ps) : c = [op |-> "send", of |-> p, with |-> q]
      /\ \A c : c \in Range(t) <=> \E p, q \in Range(ps) : c = [op |-> "receive", of |-> p, with |-> q]
  BY CallsListed
<1>3. u = s \o t
  BY DEF Lambda
<1> HIDE DEF s, t, u
<1>4. /\ u \in Seq(Call) /\ Len(u) = Len(s) + Len(t) /\ DOMAIN u = 1 .. Len(s) + Len(t)
      /\ \A i \in 1 .. Len(s) + Len(t) : u[i] = IF i <= Len(s) THEN s[i] ELSE t[i - Len(s)]
  BY <1>1, <1>3, ConcatProperties
<1>5. DOMAIN s = 1 .. Len(s) /\ DOMAIN t = 1 .. Len(t) /\ Len(s) \in Nat /\ Len(t) \in Nat
  BY <1>1
<1>6. Range(u) = Range(s) \cup Range(t)
  BY <1>1, <1>3, RangeConcatenation
<1>7. /\ \A i \in 1 .. Len(s) : s[i].op = "send"
      /\ \A i \in 1 .. Len(t) : t[i].op = "receive"
  <2>1. \A i \in 1 .. Len(s) : s[i] \in Range(s)
    BY <1>5 DEF Range
  <2>2. \A i \in 1 .. Len(t) : t[i] \in Range(t)
    BY <1>5 DEF Range
  <2>3. (\A c \in Range(s) : c.op = "send") /\ (\A c \in Range(t) : c.op = "receive")
    BY <1>2
  <2> QED BY <2>1, <2>2, <2>3
<1>8. IsInjective(u)
  <2> SUFFICES ASSUME NEW i \in DOMAIN u, NEW j \in DOMAIN u, u[i] = u[j] PROVE i = j
    BY DEF IsInjective
  <2>1. ASSUME NEW k \in DOMAIN u
        PROVE  \/ k \in 1 .. Len(s) /\ u[k] = s[k] /\ u[k].op = "send"
               \/ /\ k - Len(s) \in 1 .. Len(t) /\ ~(k <= Len(s)) /\ u[k] = t[k - Len(s)]
                  /\ u[k].op = "receive"
    <3>1. k \in 1 .. Len(s) + Len(t) /\ u[k] = IF k <= Len(s) THEN s[k] ELSE t[k - Len(s)]
      BY <1>4
    <3>2. CASE k <= Len(s)
      BY <1>5, <1>7, <3>1, <3>2
    <3>3. CASE ~(k <= Len(s))
      <4>1. k - Len(s) \in 1 .. Len(t) /\ u[k] = t[k - Len(s)]
        BY <1>5, <3>1, <3>3
      <4> QED BY <1>7, <3>3, <4>1
    <3> QED BY <3>2, <3>3
  <2>2. i \in Int /\ j \in Int
    BY <1>4, <1>5
  <2>3. CASE u[i].op = "send"
    <3>1. i \in DOMAIN s /\ j \in DOMAIN s /\ s[i] = s[j]
      BY <1>5, <2>1, <2>3
    <3> QED BY <1>1, <3>1 DEF IsInjective
  <2>4. CASE u[i].op = "receive"
    <3>1. i - Len(s) \in DOMAIN t /\ j - Len(s) \in DOMAIN t /\ t[i - Len(s)] = t[j - Len(s)]
      BY <1>5, <2>1, <2>4
    <3>2. i - Len(s) = j - Len(s)
      BY <1>1, <3>1 DEF IsInjective
    <3> QED BY <1>5, <2>2, <3>2
  <2> QED BY <2>1, <2>3, <2>4
<1>9. SendsFirst(u)
  <2> SUFFICES ASSUME NEW i \in DOMAIN u, NEW j \in DOMAIN u, i < j, u[j].op = "send"
               PROVE  u[i].op = "send"
    BY DEF SendsFirst
  <2>1. /\ i \in 1 .. Len(s) + Len(t) /\ j \in 1 .. Len(s) + Len(t)
        /\ u[i] = IF i <= Len(s) THEN s[i] ELSE t[i - Len(s)]
        /\ u[j] = IF j <= Len(s) THEN s[j] ELSE t[j - Len(s)]
    BY <1>4
  <2>2. j <= Len(s)
    <3> SUFFICES ASSUME ~(j <= Len(s)) PROVE FALSE
      OBVIOUS
    <3>1. u[j].op = "receive"
      BY <1>5, <1>7, <2>1
    <3> QED BY <3>1
  <2>3. i \in 1 .. Len(s) /\ u[i] = s[i]
    BY <1>5, <2>1, <2>2
  <2> QED BY <1>7, <2>3
<1> QED BY <1>2, <1>4, <1>6, <1>8, <1>9 DEF u, SendOf, ReceiveOf

\* Making the first of the calls leaves the others, in their order.
LEMMA TailListed ==
    ASSUME NEW s \in Seq(Call), s # <<>>, IsInjective(s), SendsFirst(s)
    PROVE  /\ Head(s) \in Call /\ Head(s) \in Range(s)
           /\ Tail(s) \in Seq(Call) /\ IsInjective(Tail(s)) /\ SendsFirst(Tail(s))
           /\ Range(Tail(s)) = Range(s) \ {Head(s)}
           /\ Head(s).op = "receive" => \A c \in Range(s) : c.op = "receive"
<1> DEFINE t == Tail(s)
<1>1. /\ Len(s) \in Nat \ {0} /\ DOMAIN s = 1 .. Len(s) /\ Head(s) = s[1]
      /\ t \in Seq(Call) /\ Len(t) = Len(s) - 1 /\ DOMAIN t = 1 .. Len(s) - 1
      /\ \A i \in 1 .. Len(s) - 1 : t[i] = s[i + 1]
  BY HeadTailProperties
<1> HIDE DEF t
<1>2. IsInjective(t) /\ SendsFirst(t)
  <2>1. ASSUME NEW i \in 1 .. Len(s) - 1, NEW j \in 1 .. Len(s) - 1
        PROVE  /\ t[i] = t[j] => i = j
               /\ i < j /\ t[j].op = "send" => t[i].op = "send"
    <3>1. i + 1 \in DOMAIN s /\ j + 1 \in DOMAIN s /\ t[i] = s[i + 1] /\ t[j] = s[j + 1]
      BY <1>1
    <3>2. s[i + 1] = s[j + 1] => i + 1 = j + 1
      BY <3>1 DEF IsInjective
    <3>3. i + 1 < j + 1 /\ s[j + 1].op = "send" => s[i + 1].op = "send"
      BY <3>1 DEF SendsFirst
    <3> QED BY <3>1, <3>2, <3>3
  <2> QED BY <1>1, <2>1 DEF IsInjective, SendsFirst
<1>3. Range(t) = Range(s) \ {Head(s)}
  <2>1. ASSUME NEW i \in 1 .. Len(s) - 1 PROVE t[i] \in Range(s) /\ t[i] # Head(s)
    BY <1>1, SMTT(30) DEF Range, IsInjective
  <2>2. ASSUME NEW i \in 1 .. Len(s), s[i] # Head(s) PROVE s[i] \in Range(t)
    <3>1. i - 1 \in 1 .. Len(s) - 1 /\ t[i - 1] = s[i]
      BY <1>1, <2>2
    <3> QED BY <1>1, <3>1 DEF Range
  <2> QED BY <1>1, <2>1, <2>2 DEF Range
<1>4. \A i \in 1 .. Len(s) : s[i] \in Call
  BY <1>1
<1>5. Head(s).op = "receive" => \A c \in Range(s) : c.op = "receive"
  BY <1>1, <1>4 DEF SendsFirst, Range, Call
<1>6. Head(s) \in Call /\ Head(s) \in Range(s)
  BY <1>1, <1>4 DEF Range
<1> QED BY <1>1, <1>2, <1>3, <1>5, <1>6 DEF t

\* No run is a run with nothing left to do.
LEMMA NoRunTyped ==
    /\ NoRun \in [parties : Seq(Par), coeffs : Samples \cup {<<>>}, todo : Seq(Call),
                  delta : UNION {[D -> Element] : D \in SUBSET Par}, undisturbed : BOOLEAN]
    /\ DOMAIN NoRun.delta = Range(NoRun.parties)
    /\ Range(NoRun.todo) = {} /\ IsInjective(NoRun.todo) /\ SendsFirst(NoRun.todo)
<1>1. <<>> \in [{} -> Element]
  OBVIOUS
<1>2. <<>> \in UNION {[D -> Element] : D \in SUBSET Par}
  BY <1>1
<1>3. Range(<<>>) = {} /\ IsInjective(<<>>) /\ SendsFirst(<<>>) /\ DOMAIN <<>> = {}
  BY DEF Range, IsInjective, SendsFirst
<1>4. <<>> \in Seq(Par) /\ <<>> \in Seq(Call)
  OBVIOUS
<1> QED BY <1>2, <1>3, <1>4 DEF NoRun

\* Shares made for a party are shares.
LEMMA TypedForAll == \A p \in Par : Seq(ShareOf(p)) \subseteq Seq(Share)
<1>1. \A p \in Par : ShareOf(p) \subseteq Share
  BY DEF ShareOf, Share
<1> QED BY <1>1, SeqMonotonic

\* Appending to the end of a queue appends to all that has been sent.
LEMMA ConcatAppend ==
    \A s, t \in Seq(Share) : \A e \in Share : Append(s \o t, e) = s \o Append(t, e)
<1> SUFFICES ASSUME NEW s \in Seq(Share), NEW t \in Seq(Share), NEW e \in Share
             PROVE  Append(s \o t, e) = s \o Append(t, e)
  OBVIOUS
<1>1. <<e>> \in Seq(Share) /\ s \o t \in Seq(Share)
  BY ConcatProperties
<1>2. Append(s \o t, e) = (s \o t) \o <<e>> /\ Append(t, e) = t \o <<e>>
  BY <1>1, AppendIsConcat
<1> QED BY <1>1, <1>2, ConcatAssociative

\* Taking the head of a queue to the end of what has been received loses nothing.
LEMMA AppendHead ==
    ASSUME NEW S, NEW s \in Seq(S), NEW t \in Seq(S), t # <<>>
    PROVE  Append(s, Head(t)) \o Tail(t) = s \o t
<1>1. Head(t) \in S /\ Tail(t) \in Seq(S) /\ <<Head(t)>> \in Seq(S)
  BY HeadTailProperties
<1>2. Append(s, Head(t)) = s \o <<Head(t)>>
  BY <1>1, AppendIsConcat
<1>3. <<Head(t)>> \o Tail(t) = t
  <2>1. /\ Len(t) \in Nat \ {0} /\ Len(<<Head(t)>>) = 1 /\ Len(Tail(t)) = Len(t) - 1
        /\ \A i \in 1 .. Len(t) - 1 : Tail(t)[i] = t[i + 1]
    BY HeadTailProperties
  <2>2. /\ <<Head(t)>> \o Tail(t) \in Seq(S) /\ Len(<<Head(t)>> \o Tail(t)) = Len(t)
        /\ \A i \in 1 .. Len(t) :
              (<<Head(t)>> \o Tail(t))[i] = IF i <= 1 THEN <<Head(t)>>[i] ELSE Tail(t)[i - 1]
    BY <1>1, <2>1, ConcatProperties
  <2>3. ASSUME NEW i \in 1 .. Len(t) PROVE (<<Head(t)>> \o Tail(t))[i] = t[i]
    <3>1. CASE i = 1
      BY <2>2, <3>1
    <3>2. CASE i # 1
      <4>1. i - 1 \in 1 .. Len(t) - 1 /\ (i - 1) + 1 = i /\ ~(i <= 1)
        BY <2>1, <3>2
      <4> QED BY <2>1, <2>2, <4>1
    <3> QED BY <3>1, <3>2
  <2> QED BY <2>2, <2>3, SeqEqual
<1> QED BY <1>1, <1>2, <1>3, ConcatAssociative

\* A bundle returned, or made of two others, joins the results.
LEMMA BundleAppended ==
    ASSUME results \in Seq(Bundle), NEW b \in Bundle, DOMAIN b.vals = DOMAIN b.parties,
           \A i \in DOMAIN results : DOMAIN results[i].vals = DOMAIN results[i].parties,
           results' = Append(results, b)
    PROVE  /\ results' \in Seq(Bundle)
           /\ \A i \in DOMAIN results' : DOMAIN results'[i].vals = DOMAIN results'[i].parties
<1>1. /\ results' \in Seq(Bundle) /\ Len(results') = Len(results) + 1
      /\ \A i \in 1 .. Len(results) : results'[i] = results[i]
      /\ results'[Len(results) + 1] = b
  BY AppendProperties
<1>2. ASSUME NEW i \in DOMAIN results' PROVE DOMAIN results'[i].vals = DOMAIN results'[i].parties
  <2>1. i \in 1 .. Len(results) \/ i = Len(results) + 1
    BY <1>1, <1>2
  <2>2. CASE i \in 1 .. Len(results)
    BY <1>1, <2>2
  <2>3. CASE i = Len(results) + 1
    BY <1>1, <2>3
  <2> QED BY <2>1, <2>2, <2>3
<1> QED BY <1>1, <1>2

-----------------------------------------------------------------------------
(* Every step keeps the invariant.                                         *)

\* The context starts empty.
LEMMA InitInv == Init => Inv
<1> SUFFICES ASSUME Init PROVE Inv
  OBVIOUS
<1>1. msgs = NoQueues /\ DOMAIN msgs = {} /\ ctx = {} /\ groups = {} /\ failed = {}
  BY DEF Init, NoQueues
<1>2. sent = [r \in Par |-> [s \in Par |-> <<>>]] /\ got = sent
  BY DEF Init
<1>3. run = NoRun /\ run.todo = <<>> /\ run.parties = <<>> /\ run.delta = <<>>
  BY DEF Init, NoRun
<1>4. QueuesTyped
  BY <1>1, <1>2 DEF QueuesTyped
<1>5. RunTyped
  BY <1>3, NoRunTyped DEF RunTyped
<1>6. ResultsTyped
  BY ExecutionAssumption DEF Init, ResultsTyped
<1>7. AgendaInv
  BY <1>3, NoRunTyped DEF AgendaInv, Remains
<1>8. WaitInv /\ GroupInv /\ ChannelInv
  BY <1>1 DEF WaitInv, GroupInv, ChannelInv, Knows
<1>9. QueuesAreFifo
  BY <1>1, <1>2 DEF QueuesAreFifo, Knows
<1> QED BY <1>4, <1>5, <1>6, <1>7, <1>8, <1>9 DEF Inv

\* register_parties, also when it throws half way.
LEMMA RegisterInv == ASSUME Inv, NEW ps \in PartySets, Register(ps) PROVE Inv'
<1> DEFINE new == Newcomers(msgs, ps)
<1>1. ps \in Seq(Par) /\ Range(ps) \subseteq Par
  BY ExecutionAssumption, RangeOfSeq
<1>2. /\ DOMAIN msgs' = DOMAIN msgs \cup new /\ new \subseteq Range(ps)
      /\ new \cap DOMAIN msgs = {}
      /\ \A p \in DOMAIN msgs : msgs'[p] = msgs[p]
      /\ \A p \in new : DOMAIN msgs'[p] = Range(ps) /\ \A q \in Range(ps) : msgs'[p][q] = <<>>
      /\ Registrable(msgs, ps) = Len(ps) => new = Range(ps)
  <2>1. msgs' = Registered(msgs, ps)
    BY DEF Register
  <2> DEFINE m == Registered(msgs, ps)
  <2>2. /\ DOMAIN m = DOMAIN msgs \cup new /\ new \subseteq Range(ps)
        /\ new \cap DOMAIN msgs = {}
        /\ \A p \in DOMAIN msgs : m[p] = msgs[p]
        /\ \A p \in new : DOMAIN m[p] = Range(ps) /\ \A q \in Range(ps) : m[p][q] = <<>>
        /\ Registrable(msgs, ps) = Len(ps) => new = Range(ps)
    BY <1>1, RegisteredQueues, ZenonT(40)
  <2> HIDE DEF new
  <2> QED BY <2>1, <2>2
<1>3. ctx' = ctx \cup new /\ UNCHANGED <<run, results, sent, got>>
  BY DEF Register, Newcomers
<1>4. \/ Registrable(msgs, ps) = Len(ps) /\ groups' = groups \cup {Range(ps)} /\ failed' = failed
      \/ groups' = groups /\ failed' = failed \cup {"register"}
  BY DEF Register
<1>5. run = NoRun /\ run.todo = <<>> /\ calls' = calls + 1 /\ calls < MaxCalls
  BY DEF Register, Calling, NoRun
<1> HIDE DEF new
<1>6. QueuesTyped'
  <2>1. DOMAIN msgs' \subseteq Par /\ ctx' \subseteq DOMAIN msgs'
    BY <1>1, <1>2, <1>3 DEF Inv, QueuesTyped
  <2>2. ASSUME NEW p \in DOMAIN msgs'
        PROVE  DOMAIN msgs'[p] \subseteq Par /\ \A q \in DOMAIN msgs'[p] : msgs'[p][q] \in Seq(ShareOf(p))
    <3>1. CASE p \in DOMAIN msgs
      BY <1>2, <3>1 DEF Inv, QueuesTyped
    <3>2. CASE p \in new
      <4>1. DOMAIN msgs'[p] = Range(ps) /\ \A q \in Range(ps) : msgs'[p][q] = <<>>
        BY <1>2, <3>2
      <4>2. <<>> \in Seq(ShareOf(p))
        OBVIOUS
      <4> QED BY <1>1, <4>1, <4>2
    <3> QED BY <1>2, <3>1, <3>2
  <2> QED BY <1>3, <2>1, <2>2 DEF Inv, QueuesTyped
<1>7. RunTyped' /\ ResultsTyped' /\ AgendaInv'
  BY <1>3, <1>5, ExecutionAssumption DEF Inv, RunTyped, ResultsTyped, AgendaInv, Remains
<1>8. \A p, q \in Par : Knows(msgs', p, q) =>
         \/ Knows(msgs, p, q) /\ msgs'[p][q] = msgs[p][q]
         \/ ~Knows(msgs, p, q) /\ p \in new /\ msgs'[p][q] = <<>>
  BY <1>2 DEF Knows
<1>9. \A p, q \in Par : ~InTransit(p, q) /\ ~InTransit(p, q)'
  BY <1>3, <1>5 DEF InTransit, Remains, Range
<1>10. WaitInv'
  <2> SUFFICES ASSUME NEW p \in Par, NEW q \in Par, Knows(msgs', p, q)
               PROVE  "run" \notin failed' => Len(msgs'[p][q]) = 0
    BY <1>9 DEF WaitInv
  <2>1. CASE Knows(msgs, p, q) /\ msgs'[p][q] = msgs[p][q]
    BY <1>4, <1>9, <2>1 DEF Inv, WaitInv
  <2>2. CASE msgs'[p][q] = <<>>
    BY <2>2
  <2> QED BY <1>8, <2>1, <2>2
<1>11. GroupInv'
  <2> SUFFICES ASSUME NEW g \in groups' PROVE g \subseteq ctx' /\ \A p, q \in g : Knows(msgs', p, q)
    BY DEF GroupInv
  <2>1. CASE g \in groups
    BY <1>2, <1>3, <2>1 DEF Inv, GroupInv, Knows
  <2>2. CASE g = Range(ps) /\ new = Range(ps)
    BY <1>2, <1>3, <2>2 DEF Knows
  <2> QED BY <1>2, <1>4, <2>1, <2>2
<1>12. ChannelInv'
  <2> SUFFICES ASSUME "register" \notin failed', NEW p \in DOMAIN msgs', NEW q \in DOMAIN msgs'[p]
               PROVE  Knows(msgs', q, p)
    BY DEF ChannelInv
  <2>1. new = Range(ps) /\ "register" \notin failed
    BY <1>2, <1>4
  <2>2. CASE p \in new
    BY <1>2, <2>1, <2>2 DEF Knows
  <2>3. CASE p \in DOMAIN msgs
    BY <1>2, <2>1, <2>3 DEF Inv, ChannelInv, Knows
  <2> QED BY <1>2, <2>2, <2>3
<1>13. QueuesAreFifo'
  <2> SUFFICES ASSUME NEW r \in Par, NEW s \in Par
               PROVE  sent[r][s] = got[r][s] \o (IF Knows(msgs', r, s) THEN msgs'[r][s] ELSE <<>>)
    BY <1>3 DEF QueuesAreFifo
  <2>1. sent[r][s] = got[r][s] \o (IF Knows(msgs, r, s) THEN msgs[r][s] ELSE <<>>)
    BY DEF Inv, QueuesAreFifo
  <2>2. Knows(msgs, r, s) => Knows(msgs', r, s) /\ msgs'[r][s] = msgs[r][s]
    BY <1>2 DEF Knows
  <2> QED BY <1>8, <2>1, <2>2
<1> QED BY <1>6, <1>7, <1>10, <1>11, <1>12, <1>13 DEF Inv

\* A party that is declared again loses its context and leaves its group.
LEMMA RecreateInv == ASSUME Inv, NEW p \in Par, Recreate(p) PROVE Inv'
<1>1. /\ ctx' = ctx \ {p} /\ groups' = {g \in groups : p \notin g}
      /\ calls' = calls + 1 /\ calls < MaxCalls
      /\ UNCHANGED <<msgs, run, results, outcome, sent, got, failed>>
  BY DEF Recreate, Calling
<1>2. QueuesTyped'
  BY <1>1 DEF Inv, QueuesTyped
<1>3. RunTyped' /\ ResultsTyped'
  BY <1>1, ExecutionAssumption DEF Inv, RunTyped, ResultsTyped
<1>4. AgendaInv' /\ WaitInv'
  BY <1>1 DEF Inv, AgendaInv, WaitInv, InTransit, Remains
<1>5. GroupInv' /\ ChannelInv' /\ QueuesAreFifo'
  BY <1>1 DEF Inv, GroupInv, ChannelInv, QueuesAreFifo
<1> QED BY <1>2, <1>3, <1>4, <1>5 DEF Inv

\* A call of a protocol: nothing is in transit before its first send.
LEMMA StartInv == ASSUME Inv, NEW ps \in PartySets, Start(ps) PROVE Inv'
<1>1. PICK coeffs \in Samples :
         run' = [parties |-> ps, coeffs |-> coeffs, todo |-> Lambda(ps),
                 delta |-> [p \in Range(ps) |-> 0], undisturbed |-> QuietAmong(ps)]
  BY DEF Start
<1>2. /\ run = NoRun /\ run.todo = <<>> /\ calls' = calls + 1 /\ calls < MaxCalls
      /\ UNCHANGED <<msgs, ctx, results, outcome, sent, got, groups, failed>>
  BY DEF Start, Calling, NoRun, history
<1>3. ps \in Seq(Par) /\ Range(ps) \subseteq Par /\ IsInjective(ps)
  BY ExecutionAssumption, RangeOfSeq
<1>4. /\ run'.todo \in Seq(Call) /\ IsInjective(run'.todo) /\ SendsFirst(run'.todo)
      /\ \A c \in Range(run'.todo) : {c.of, c.with} \subseteq Range(ps)
      /\ \A p, q \in Range(ps) : /\ SendOf(p, q) \in Range(run'.todo)
                                 /\ ReceiveOf(p, q) \in Range(run'.todo)
  BY <1>1, <1>3, LambdaListed
<1>5. RunTyped'
  <2>1. 0 \in Element
    BY FieldAssumption DEF Element
  <2>2. [p \in Range(ps) |-> 0] \in UNION {[D -> Element] : D \in SUBSET Par}
    BY <1>3, <2>1
  <2>3. QuietAmong(ps) \in BOOLEAN
    BY DEF QuietAmong
  <2>4. /\ run'.parties = ps /\ run'.coeffs = coeffs /\ run'.delta = [p \in Range(ps) |-> 0]
        /\ run'.todo = Lambda(ps)
    BY <1>1
  <2>5. run' \in [parties : Seq(Par), coeffs : Samples \cup {<<>>}, todo : Seq(Call),
                  delta : UNION {[D -> Element] : D \in SUBSET Par}, undisturbed : BOOLEAN]
    BY <1>1, <1>3, <1>4, <2>2, <2>3, <2>4
  <2> QED BY <2>4, <2>5 DEF RunTyped
<1>6. \A p, q \in Par : /\ ~InTransit(p, q) /\ ~InTransit(p, q)'
                        /\ Remains(SendOf(p, q))' => Remains(ReceiveOf(p, q))'
  <2> SUFFICES ASSUME NEW p \in Par, NEW q \in Par
               PROVE  /\ ~InTransit(p, q) /\ ~InTransit(p, q)'
                      /\ Remains(SendOf(p, q))' => Remains(ReceiveOf(p, q))'
    OBVIOUS
  <2>1. ~InTransit(p, q)
    BY <1>2 DEF InTransit, Remains, Range
  <2>2. /\ ReceiveOf(p, q) \in Range(run'.todo) => p \in Range(ps) /\ q \in Range(ps)
        /\ SendOf(p, q) \in Range(run'.todo) => p \in Range(ps) /\ q \in Range(ps)
    BY <1>4 DEF SendOf, ReceiveOf
  <2> QED BY <1>4, <2>1, <2>2 DEF InTransit, Remains
<1>7. AgendaInv'
  <2>1. run'.parties = ps
    BY <1>1
  <2> QED BY <1>4, <1>6, <2>1 DEF AgendaInv, Remains
<1>8. WaitInv'
  BY <1>2, <1>6 DEF Inv, WaitInv
<1>9. QueuesTyped' /\ ResultsTyped'
  BY <1>2, ExecutionAssumption DEF Inv, QueuesTyped, ResultsTyped
<1>10. GroupInv' /\ ChannelInv' /\ QueuesAreFifo'
  BY <1>2 DEF Inv, GroupInv, ChannelInv, QueuesAreFifo
<1> QED BY <1>5, <1>7, <1>8, <1>9, <1>10 DEF Inv

\* An exception ends the run and leaves the queues as they are.
LEMMA ThrowInv ==
    ASSUME Inv, NEW exception, Throw(exception), UNCHANGED <<ctx, results, calls, groups>>
    PROVE  Inv'
<1>1. run' = NoRun /\ failed' = failed \cup {"run"} /\ UNCHANGED <<msgs, sent, got>>
  BY DEF Throw
<1>2. RunTyped' /\ AgendaInv'
  BY <1>1, NoRunTyped DEF RunTyped, AgendaInv, Remains, NoRun
<1>3. \A p, q \in Par : ~InTransit(p, q)'
  BY <1>1, NoRunTyped DEF InTransit, Remains
<1>4. WaitInv'
  BY <1>1, <1>3 DEF WaitInv
<1>5. QueuesTyped' /\ ResultsTyped'
  BY <1>1 DEF Inv, QueuesTyped, ResultsTyped
<1>6. GroupInv' /\ ChannelInv' /\ QueuesAreFifo'
  BY <1>1 DEF Inv, GroupInv, ChannelInv, QueuesAreFifo
<1> QED BY <1>2, <1>4, <1>5, <1>6 DEF Inv

\* What a step that carries a run on does to what remains to be done.
LEMMA CarriedOn ==
    ASSUME Inv, run.todo # <<>>, run'.todo = Tail(run.todo), run'.parties = run.parties
    PROVE  /\ Head(run.todo) \in Call /\ Remains(Head(run.todo))
           /\ run'.todo \in Seq(Call) /\ AgendaInv'
           /\ {Head(run.todo).of, Head(run.todo).with} \subseteq Range(run.parties)
           /\ \A c : Remains(c)' <=> Remains(c) /\ c # Head(run.todo)
           /\ Head(run.todo).op = "receive" => \A p, q \in Par : ~Remains(SendOf(p, q))
<1> DEFINE c0 == Head(run.todo)
<1>1. run.todo \in Seq(Call) /\ IsInjective(run.todo) /\ SendsFirst(run.todo)
  BY DEF Inv, RunTyped, AgendaInv
<1>2. /\ c0 \in Call /\ c0 \in Range(run.todo)
      /\ run'.todo \in Seq(Call) /\ IsInjective(run'.todo) /\ SendsFirst(run'.todo)
      /\ Range(run'.todo) = Range(run.todo) \ {c0}
      /\ c0.op = "receive" => \A c \in Range(run.todo) : c.op = "receive"
  BY <1>1, TailListed
<1> HIDE DEF c0
<1>3. \A c : Remains(c)' <=> Remains(c) /\ c # c0
  BY <1>2 DEF Remains
<1>4. c0.op = "receive" => \A p, q \in Par : ~Remains(SendOf(p, q))
  <2>1. \A p, q \in Par : SendOf(p, q).op = "send"
    BY DEF SendOf
  <2> QED BY <1>2, <2>1 DEF Remains
<1>5. c0.op = "send" => \A p, q \in Par : ReceiveOf(p, q) # c0
  <2>1. \A p, q \in Par : ReceiveOf(p, q).op = "receive"
    BY DEF ReceiveOf
  <2> QED BY <2>1
<1>6. c0.op \in {"send", "receive"}
  BY <1>2 DEF Call
<1>7. \A p, q \in Par : Remains(SendOf(p, q))' => Remains(ReceiveOf(p, q))'
  BY <1>3, <1>4, <1>5, <1>6 DEF Inv, AgendaInv
<1>8. \A c \in Range(run'.todo) : {c.of, c.with} \subseteq Range(run'.parties)
  BY <1>2 DEF Inv, AgendaInv
<1>9. AgendaInv'
  BY <1>2, <1>7, <1>8 DEF AgendaInv
<1>10. Remains(c0) /\ {c0.of, c0.with} \subseteq Range(run.parties)
  BY <1>2, SMTT(30) DEF Remains, Inv, AgendaInv
<1> QED BY <1>2, <1>3, <1>4, <1>9, <1>10 DEF c0

\* A send puts its message into transit, and only that one.
LEMMA SendInv == ASSUME Inv, Send PROVE Inv'
<1> DEFINE s == Head(run.todo).of
           r == Head(run.todo).with
           share == [party |-> r, val |-> Eval(0, run.coeffs[s], Alpha[r])]
<1>1. /\ run.todo # <<>> /\ Head(run.todo).op = "send"
      /\ UNCHANGED <<ctx, results, calls, groups>>
  BY SMTT(30) DEF Send
<1>2. \/ Throw("crashed") \/ Throw("party_nonexist")
      \/ /\ Knows(msgs, r, s)
         /\ msgs' = Sent(msgs, s, r, share)
         /\ sent' = [sent EXCEPT ![r][s] = Append(@, share)]
         /\ run' = [run EXCEPT !.todo = Tail(@)]
         /\ UNCHANGED <<outcome, got, failed>>
  BY DEF Send
<1>3. CASE Throw("crashed") \/ Throw("party_nonexist")
  BY <1>1, <1>3, ThrowInv
<1>4. CASE /\ Knows(msgs, r, s)
           /\ msgs' = Sent(msgs, s, r, share)
           /\ sent' = [sent EXCEPT ![r][s] = Append(@, share)]
           /\ run' = [run EXCEPT !.todo = Tail(@)]
           /\ UNCHANGED <<outcome, got, failed>>
  <2>1. /\ run'.todo = Tail(run.todo) /\ run'.parties = run.parties /\ run'.coeffs = run.coeffs
        /\ run'.delta = run.delta
    BY <1>4 DEF Inv, RunTyped
  <2>2. /\ Head(run.todo) \in Call /\ Remains(Head(run.todo))
        /\ run'.todo \in Seq(Call) /\ AgendaInv'
        /\ \A c : Remains(c)' <=> Remains(c) /\ c # Head(run.todo)
    BY <1>1, <2>1, CarriedOn
  <2>3. s \in Par /\ r \in Par /\ Head(run.todo) = SendOf(r, s)
    BY <1>1, <2>2 DEF Call, SendOf
  <2>4. share \in ShareOf(r) /\ share \in Share
    <3>1. run.coeffs[s] \in [1 .. Degree -> Element] /\ Alpha[r] \in Element /\ Degree \in Nat
      BY <1>1, <2>3, ExecutionAssumption DEF Inv, RunTyped
    <3>2. 0 \in Element
      BY FieldAssumption DEF Element
    <3>3. Eval(0, run.coeffs[s], Alpha[r]) \in Element
      BY <3>1, <3>2, EvalType
    <3> QED BY <2>3, <3>3 DEF ShareOf, Share
  <2> HIDE DEF share, s, r
  <2>5. /\ DOMAIN msgs' = DOMAIN msgs
        /\ \A p \in DOMAIN msgs : DOMAIN msgs'[p] = DOMAIN msgs[p]
        /\ \A p \in DOMAIN msgs : \A q \in DOMAIN msgs[p] :
              msgs'[p][q] = IF p = r /\ q = s THEN Append(msgs[p][q], share) ELSE msgs[p][q]
    BY <1>4 DEF Sent, Knows
  <2>6. \A p, q : Knows(msgs', p, q) <=> Knows(msgs, p, q)
    BY <2>5 DEF Knows
  <2>7. QueuesTyped'
    <3>1. ASSUME NEW p \in DOMAIN msgs, NEW q \in DOMAIN msgs[p]
          PROVE  msgs'[p][q] \in Seq(ShareOf(p))
      <4>1. msgs[p][q] \in Seq(ShareOf(p))
        BY DEF Inv, QueuesTyped
      <4>2. p = r => Append(msgs[p][q], share) \in Seq(ShareOf(p))
        BY <2>4, <4>1, AppendProperties
      <4> QED BY <2>5, <4>1, <4>2
    <3>2. sent' \in [Par -> [Par -> Seq(Share)]]
      BY <1>4, <2>3, <2>4 DEF Inv, QueuesTyped
    <3> QED BY <1>1, <1>4, <2>5, <3>1, <3>2 DEF Inv, QueuesTyped
  <2>8. RunTyped'
    <3>1. run' \in [parties : Seq(Par), coeffs : Samples \cup {<<>>}, todo : Seq(Call),
                    delta : UNION {[D -> Element] : D \in SUBSET Par}, undisturbed : BOOLEAN]
      BY <1>4, <2>2, <2>1 DEF Inv, RunTyped
    <3> QED BY <1>1, <2>1, <3>1 DEF Inv, RunTyped
  <2>9. ResultsTyped' /\ GroupInv' /\ ChannelInv'
    BY <1>1, <1>4, <2>5, <2>6 DEF Inv, ResultsTyped, GroupInv, ChannelInv
  <2>10. WaitInv'
    <3> SUFFICES ASSUME NEW p \in Par, NEW q \in Par, Knows(msgs', p, q)
                 PROVE  /\ InTransit(p, q)' => msgs'[p][q] # <<>>
                        /\ "run" \notin failed => Len(msgs'[p][q]) = IF InTransit(p, q)' THEN 1 ELSE 0
      BY <1>4 DEF WaitInv
    <3>1. /\ Knows(msgs, p, q) /\ msgs[p][q] \in Seq(ShareOf(p))
          /\ InTransit(p, q) => msgs[p][q] # <<>>
          /\ "run" \notin failed => Len(msgs[p][q]) = IF InTransit(p, q) THEN 1 ELSE 0
      BY <2>6 DEF Inv, WaitInv, QueuesTyped, Knows
    <3>2. CASE p = r /\ q = s
      <4>1. Remains(SendOf(p, q)) /\ ~Remains(SendOf(p, q))'
        BY <2>2, <2>3, <3>2
      <4>2. Remains(ReceiveOf(p, q)) /\ ReceiveOf(p, q) # SendOf(p, q)
        BY <4>1 DEF Inv, AgendaInv, ReceiveOf, SendOf
      <4>3. Remains(ReceiveOf(p, q))'
        BY <2>2, <2>3, <3>2, <4>2
      <4>4. ~InTransit(p, q) /\ InTransit(p, q)'
        BY <4>1, <4>3 DEF InTransit
      <4>5. msgs'[p][q] = Append(msgs[p][q], share)
        BY <2>5, <3>1, <3>2 DEF Knows
      <4>6. msgs'[p][q] # <<>> /\ Len(msgs'[p][q]) = Len(msgs[p][q]) + 1
        BY <2>4, <3>1, <3>2, <4>5, AppendProperties
      <4> QED BY <3>1, <4>4, <4>6
    <3>3. CASE ~(p = r /\ q = s)
      <4>1. msgs'[p][q] = msgs[p][q]
        BY <2>5, <3>1, <3>3 DEF Knows
      <4>2. SendOf(p, q) # SendOf(r, s) /\ ReceiveOf(p, q) # SendOf(r, s)
        BY <3>3 DEF SendOf, ReceiveOf
      <4>3. InTransit(p, q)' <=> InTransit(p, q)
        BY <2>2, <2>3, <4>2 DEF InTransit
      <4> QED BY <3>1, <4>1, <4>3
    <3> QED BY <3>2, <3>3
  <2>11. QueuesAreFifo'
    <3>0. got' = got
      BY <1>4
    <3> SUFFICES ASSUME NEW p \in Par, NEW q \in Par
                 PROVE  sent'[p][q] = got[p][q] \o (IF Knows(msgs, p, q) THEN msgs'[p][q] ELSE <<>>)
      BY <2>6, <3>0 DEF QueuesAreFifo
    <3>1. /\ sent[p][q] = got[p][q] \o (IF Knows(msgs, p, q) THEN msgs[p][q] ELSE <<>>)
          /\ sent[p][q] \in Seq(Share) /\ got[p][q] \in Seq(Share)
      BY DEF Inv, QueuesAreFifo, QueuesTyped
    <3>2. CASE p = r /\ q = s
      <4>1. msgs[p][q] \in Seq(Share)
        BY <1>4, <2>3, <3>2, TypedForAll DEF Inv, QueuesTyped, Knows
      <4>2. /\ sent'[p][q] = Append(sent[p][q], share)
            /\ msgs'[p][q] = Append(msgs[p][q], share) /\ Knows(msgs, p, q)
        BY <1>4, <2>3, <2>5, <3>2 DEF Inv, QueuesTyped, Knows
      <4>3. Append(got[p][q] \o msgs[p][q], share) = got[p][q] \o Append(msgs[p][q], share)
        <5>1. got[p][q] \in Seq(Share) /\ share \in Share
          BY <2>4, <3>1
        <5> QED BY <4>1, <5>1, ConcatAppend
      <4> QED BY <3>1, <4>2, <4>3
    <3>3. CASE ~(p = r /\ q = s)
      <4>1. sent'[p][q] = sent[p][q]
        BY <1>4, <3>3 DEF Inv, QueuesTyped
      <4>2. Knows(msgs, p, q) => msgs'[p][q] = msgs[p][q]
        BY <2>5, <3>3 DEF Knows
      <4> QED BY <3>1, <4>1, <4>2
    <3> QED BY <3>2, <3>3
  <2> QED BY <2>2, <2>7, <2>8, <2>9, <2>10, <2>11 DEF Inv
<1> QED BY <1>2, <1>3, <1>4, SMTT(30)

\* A receive takes a message out of transit, and only that one.
LEMMA ReceiveInv == ASSUME Inv, Receive PROVE Inv'
<1> DEFINE r == Head(run.todo).of
           s == Head(run.todo).with
           share == FirstMessage(msgs, r, s)
<1>1. /\ run.todo # <<>> /\ Head(run.todo).op = "receive"
      /\ UNCHANGED <<ctx, results, calls, groups>>
  BY DEF Receive
<1>2. \/ Throw("crashed") \/ Throw("party_nonexist") \/ Throw("empty_message_queue")
      \/ /\ Knows(msgs, r, s) /\ msgs[r][s] # <<>>
         /\ msgs' = Received(msgs, r, s)
         /\ got' = [got EXCEPT ![r][s] = Append(@, share)]
         /\ run' = [run EXCEPT !.todo = Tail(@), !.delta[r] = Plus(@, share.val)]
         /\ UNCHANGED <<outcome, sent, failed>>
  BY DEF Receive
<1>3. CASE Throw("crashed") \/ Throw("party_nonexist") \/ Throw("empty_message_queue")
  BY <1>1, <1>3, ThrowInv
<1>4. CASE /\ Knows(msgs, r, s) /\ msgs[r][s] # <<>>
           /\ msgs' = Received(msgs, r, s)
           /\ got' = [got EXCEPT ![r][s] = Append(@, share)]
           /\ run' = [run EXCEPT !.todo = Tail(@), !.delta[r] = Plus(@, share.val)]
           /\ UNCHANGED <<outcome, sent, failed>>
  <2>1. /\ run'.todo = Tail(run.todo) /\ run'.parties = run.parties /\ run'.coeffs = run.coeffs
        /\ run'.delta = [run.delta EXCEPT ![r] = Plus(@, share.val)]
    BY <1>4 DEF Inv, RunTyped
  <2>2. /\ Head(run.todo) \in Call /\ Remains(Head(run.todo))
        /\ run'.todo \in Seq(Call) /\ AgendaInv'
        /\ {r, s} \subseteq Range(run.parties)
        /\ \A c : Remains(c)' <=> Remains(c) /\ c # Head(run.todo)
        /\ \A p, q \in Par : ~Remains(SendOf(p, q))
    BY <1>1, <2>1, CarriedOn
  <2>3. s \in Par /\ r \in Par /\ Head(run.todo) = ReceiveOf(r, s)
    BY <1>1, <2>2 DEF Call, ReceiveOf
  <2>4. /\ msgs[r][s] \in Seq(ShareOf(r)) /\ Tail(msgs[r][s]) \in Seq(ShareOf(r))
        /\ share = Head(msgs[r][s]) /\ share \in ShareOf(r) /\ share \in Share /\ share.val \in Element
        /\ Len(Tail(msgs[r][s])) = Len(msgs[r][s]) - 1
    <3>1. msgs[r][s] \in Seq(ShareOf(r))
      BY <1>4, SMTT(30) DEF Inv, QueuesTyped, Knows
    <3>2. /\ Head(msgs[r][s]) \in ShareOf(r) /\ Tail(msgs[r][s]) \in Seq(ShareOf(r))
          /\ Len(Tail(msgs[r][s])) = Len(msgs[r][s]) - 1
      BY <1>4, <3>1, HeadTailProperties
    <3>3. share = Head(msgs[r][s])
      BY DEF FirstMessage
    <3> HIDE DEF share, r, s
    <3> QED BY <2>3, <3>1, <3>2, <3>3, SMTT(30) DEF ShareOf, Share
  <2> HIDE DEF share, s, r
  <2>5. /\ DOMAIN msgs' = DOMAIN msgs
        /\ \A p \in DOMAIN msgs : DOMAIN msgs'[p] = DOMAIN msgs[p]
        /\ \A p \in DOMAIN msgs : \A q \in DOMAIN msgs[p] :
              msgs'[p][q] = IF p = r /\ q = s THEN Tail(msgs[p][q]) ELSE msgs[p][q]
    BY <1>4 DEF Received, Knows
  <2>6. \A p, q : Knows(msgs', p, q) <=> Knows(msgs, p, q)
    BY <2>5 DEF Knows
  <2>7. QueuesTyped'
    <3>1. ASSUME NEW p \in DOMAIN msgs, NEW q \in DOMAIN msgs[p]
          PROVE  msgs'[p][q] \in Seq(ShareOf(p))
      <4>1. msgs[p][q] \in Seq(ShareOf(p))
        BY DEF Inv, QueuesTyped
      <4> QED BY <2>4, <2>5, <4>1
    <3>2. got' \in [Par -> [Par -> Seq(Share)]]
      BY <1>4, <2>3, <2>4 DEF Inv, QueuesTyped
    <3> QED BY <1>1, <1>4, <2>5, <3>1, <3>2 DEF Inv, QueuesTyped
  <2>8. RunTyped'
    <3>1. r \in DOMAIN run.delta /\ run.delta[r] \in Element
      BY <2>2 DEF Inv, RunTyped
    <3>2. Plus(run.delta[r], share.val) \in Element
      BY <2>4, <3>1, OperationsTyped
    <3>3. /\ run'.delta \in UNION {[D -> Element] : D \in SUBSET Par}
          /\ DOMAIN run'.delta = DOMAIN run.delta
      <4>1. PICK D \in SUBSET Par : run.delta \in [D -> Element]
        BY DEF Inv, RunTyped
      <4>2. run'.delta \in [D -> Element]
        BY <2>1, <3>2, <4>1
      <4> QED BY <4>1, <4>2
    <3>4. run' \in [parties : Seq(Par), coeffs : Samples \cup {<<>>}, todo : Seq(Call),
                    delta : UNION {[D -> Element] : D \in SUBSET Par}, undisturbed : BOOLEAN]
      <4>1. run' = [run EXCEPT !.todo = run'.todo, !.delta = run'.delta]
        BY <1>4, <2>1 DEF Inv, RunTyped
      <4> HIDE DEF Inv
      <4> QED BY <2>2, <3>3, <4>1 DEF Inv, RunTyped
    <3> QED BY <1>1, <2>1, <3>3, <3>4 DEF Inv, RunTyped
  <2>9. ResultsTyped' /\ GroupInv' /\ ChannelInv'
    BY <1>1, <1>4, <2>5, <2>6 DEF Inv, ResultsTyped, GroupInv, ChannelInv
  <2>10. WaitInv'
    <3> SUFFICES ASSUME NEW p \in Par, NEW q \in Par, Knows(msgs', p, q)
                 PROVE  /\ InTransit(p, q)' => msgs'[p][q] # <<>>
                        /\ "run" \notin failed => Len(msgs'[p][q]) = IF InTransit(p, q)' THEN 1 ELSE 0
      BY <1>4 DEF WaitInv
    <3>1. /\ Knows(msgs, p, q)
          /\ InTransit(p, q) => msgs[p][q] # <<>>
          /\ "run" \notin failed => Len(msgs[p][q]) = IF InTransit(p, q) THEN 1 ELSE 0
      BY <2>6 DEF Inv, WaitInv
    <3>2. CASE p = r /\ q = s
      <4>1. InTransit(p, q) /\ ~InTransit(p, q)'
        BY <2>2, <2>3, <3>2 DEF InTransit
      <4>2. msgs'[p][q] = Tail(msgs[p][q])
        BY <2>5, <3>1, <3>2 DEF Knows
      <4> QED BY <2>4, <3>1, <3>2, <4>1, <4>2
    <3>3. CASE ~(p = r /\ q = s)
      <4>1. msgs'[p][q] = msgs[p][q]
        BY <2>5, <3>1, <3>3 DEF Knows
      <4>2. SendOf(p, q) # ReceiveOf(r, s) /\ ReceiveOf(p, q) # ReceiveOf(r, s)
        BY <3>3 DEF SendOf, ReceiveOf
      <4>3. InTransit(p, q)' <=> InTransit(p, q)
        BY <2>2, <2>3, <4>2 DEF InTransit
      <4> QED BY <3>1, <4>1, <4>3
    <3> QED BY <3>2, <3>3
  <2>11. QueuesAreFifo'
    <3>0. sent' = sent
      BY <1>4
    <3> SUFFICES ASSUME NEW p \in Par, NEW q \in Par
                 PROVE  sent[p][q] = got'[p][q] \o (IF Knows(msgs, p, q) THEN msgs'[p][q] ELSE <<>>)
      BY <2>6, <3>0 DEF QueuesAreFifo
    <3>1. /\ sent[p][q] = got[p][q] \o (IF Knows(msgs, p, q) THEN msgs[p][q] ELSE <<>>)
          /\ sent[p][q] \in Seq(Share) /\ got[p][q] \in Seq(Share)
      BY DEF Inv, QueuesAreFifo, QueuesTyped
    <3>2. CASE p = r /\ q = s
      <4>1. msgs[p][q] \in Seq(Share) /\ msgs[p][q] # <<>>
        BY <1>4, <2>3, <3>2, TypedForAll DEF Inv, QueuesTyped, Knows
      <4>2. /\ got'[p][q] = Append(got[p][q], Head(msgs[p][q]))
            /\ msgs'[p][q] = Tail(msgs[p][q]) /\ Knows(msgs, p, q)
        BY <1>4, <2>3, <2>4, <2>5, <3>2 DEF Inv, QueuesTyped, Knows
      <4>3. Append(got[p][q], Head(msgs[p][q])) \o Tail(msgs[p][q]) = got[p][q] \o msgs[p][q]
        BY <3>1, <4>1, AppendHead
      <4> QED BY <3>1, <4>2, <4>3
    <3>3. CASE ~(p = r /\ q = s)
      <4>1. got'[p][q] = got[p][q]
        BY <1>4, <3>3 DEF Inv, QueuesTyped
      <4>2. Knows(msgs, p, q) => msgs'[p][q] = msgs[p][q]
        BY <2>5, <3>3 DEF Knows
      <4> QED BY <3>1, <4>1, <4>2
    <3> QED BY <3>2, <3>3
  <2> QED BY <2>2, <2>7, <2>8, <2>9, <2>10, <2>11 DEF Inv
<1> QED BY <1>2, <1>3, <1>4

\* A run that returns has nothing in transit.
LEMMA ReturnInv == ASSUME Inv, Return PROVE Inv'
<1> DEFINE vals == [i \in DOMAIN run.parties |-> run.delta[run.parties[i]]]
           bundle == [parties |-> run.parties, op |-> "run", vals |-> vals,
                      undisturbed |-> run.undisturbed, wraps |-> FALSE]
<1>1. /\ run.todo = <<>> /\ run' = NoRun /\ results' = Append(results, bundle)
      /\ UNCHANGED <<msgs, ctx, calls, sent, got, groups, failed>>
  BY DEF Return, history
<1>2. bundle \in Bundle /\ DOMAIN bundle.vals = DOMAIN bundle.parties
  <2>1. run.parties \in Seq(Par) /\ run.undisturbed \in BOOLEAN /\ DOMAIN run.delta = Range(run.parties)
    BY DEF Inv, RunTyped
  <2>2. \A p \in Range(run.parties) : run.delta[p] \in Element
    BY <2>1 DEF Inv, RunTyped
  <2>3. \A i \in DOMAIN run.parties : run.delta[run.parties[i]] \in Element
    BY <2>2 DEF Range
  <2>4. vals \in Seq(Element)
    BY <2>1, <2>3
  <2> HIDE DEF vals
  <2>5. DOMAIN vals = DOMAIN run.parties
    BY DEF vals
  <2> QED BY <2>1, <2>4, <2>5 DEF Bundle
<1> HIDE DEF bundle
<1>3. ResultsTyped'
  BY <1>1, <1>2, BundleAppended DEF Inv, ResultsTyped
<1>4. RunTyped' /\ AgendaInv'
  BY <1>1, NoRunTyped DEF RunTyped, AgendaInv, Remains, NoRun
<1>5. \A p, q \in Par : ~InTransit(p, q) /\ ~InTransit(p, q)'
  <2>1. Range(run.todo) = {}
    BY <1>1 DEF Range
  <2> QED BY <1>1, <2>1, NoRunTyped DEF InTransit, Remains
<1>6. WaitInv'
  BY <1>1, <1>5 DEF Inv, WaitInv
<1>7. QueuesTyped'
  BY <1>1 DEF Inv, QueuesTyped
<1>8. GroupInv' /\ ChannelInv' /\ QueuesAreFifo'
  BY <1>1 DEF Inv, GroupInv, ChannelInv, QueuesAreFifo
<1> QED BY <1>3, <1>4, <1>6, <1>7, <1>8 DEF Inv

\* The operators of bundle, also when they throw.
LEMMA CombineInv == ASSUME Inv, NEW op \in {"plus", "minus", "times"}, Combine(op) PROVE Inv'
<1> DEFINE a == results[Len(results) - 1]
           b == results[Len(results)]
           vals == [i \in DOMAIN a.vals |-> Apply(op, a.vals[i], b.vals[i])]
           calm == /\ a.op = "run" /\ a.undisturbed
                   /\ b.op = "run" /\ b.undisturbed
           wraps == \E i \in DOMAIN a.vals : op = "minus" /\ a.vals[i] < b.vals[i]
           bundle == [parties |-> a.parties, op |-> op, vals |-> vals,
                      undisturbed |-> calm, wraps |-> wraps]
<1>1. /\ Len(results) >= 2 /\ calls' = calls + 1 /\ calls < MaxCalls
      /\ UNCHANGED <<msgs, ctx, run, sent, got, groups, failed>>
      /\ \/ UNCHANGED results
         \/ a.parties = b.parties /\ results' = Append(results, bundle)
  BY DEF Combine, Calling, history
<1>2. a \in Bundle /\ b \in Bundle /\ DOMAIN a.vals = DOMAIN a.parties /\ DOMAIN b.vals = DOMAIN b.parties
  BY <1>1 DEF Inv, ResultsTyped
<1>3. ASSUME UNCHANGED results PROVE ResultsTyped'
  BY <1>1, <1>3, ExecutionAssumption DEF Inv, ResultsTyped
<1>4. ASSUME a.parties = b.parties, results' = Append(results, bundle) PROVE ResultsTyped'
  <2> HIDE DEF a, b
  <2>1. \A i \in DOMAIN a.vals : Apply(op, a.vals[i], b.vals[i]) \in Element
    <3>1. \A i \in DOMAIN a.vals : a.vals[i] \in Element /\ b.vals[i] \in Element
      BY <1>2, <1>4 DEF Bundle
    <3> QED BY <3>1, OperationsTyped DEF Apply
  <2>2. vals \in Seq(Element) /\ DOMAIN vals = DOMAIN a.vals
    <3>1. a.vals \in Seq(Element) /\ DOMAIN a.vals = 1 .. Len(a.vals) /\ Len(a.vals) \in Nat
      BY <1>2 DEF Bundle
    <3> QED BY <2>1, <3>1
  <2>3. calm \in BOOLEAN /\ wraps \in BOOLEAN
    BY <1>2
  <2> HIDE DEF vals, calm, wraps
  <2>4. bundle \in Bundle /\ DOMAIN bundle.vals = DOMAIN bundle.parties
    BY <1>2, <2>2, <2>3 DEF Bundle
  <2> HIDE DEF bundle
  <2>5. results' \in Seq(Bundle) /\ \A i \in DOMAIN results' : DOMAIN results'[i].vals = DOMAIN results'[i].parties
    BY <1>4, <2>4, BundleAppended DEF Inv, ResultsTyped
  <2> QED BY <1>1, <2>5, ExecutionAssumption DEF Inv, ResultsTyped
<1>5. ResultsTyped'
  BY <1>1, <1>3, <1>4
<1>6. QueuesTyped' /\ RunTyped'
  BY <1>1 DEF Inv, QueuesTyped, RunTyped
<1>7. AgendaInv' /\ WaitInv'
  BY <1>1 DEF Inv, AgendaInv, WaitInv, InTransit, Remains
<1>8. GroupInv' /\ ChannelInv' /\ QueuesAreFifo'
  BY <1>1 DEF Inv, GroupInv, ChannelInv, QueuesAreFifo
<1> QED BY <1>5, <1>6, <1>7, <1>8 DEF Inv

\* Every step of the program keeps the invariant.
LEMMA NextInv == Inv /\ [Next]_vars => Inv'
<1> SUFFICES ASSUME Inv, [Next]_vars PROVE Inv'
  OBVIOUS
<1>1. ASSUME NEW ps \in PartySets, Register(ps) PROVE Inv'
  BY <1>1, RegisterInv
<1>2. ASSUME NEW ps \in PartySets, Start(ps) PROVE Inv'
  BY <1>2, StartInv
<1>3. ASSUME NEW p \in Par, Recreate(p) PROVE Inv'
  BY <1>3, RecreateInv
<1>4. CASE Send
  BY <1>4, SendInv
<1>5. CASE Receive
  BY <1>5, ReceiveInv
<1>6. CASE Return
  BY <1>6, ReturnInv
<1>7. ASSUME NEW op \in {"plus", "minus", "times"}, Combine(op) PROVE Inv'
  BY <1>7, CombineInv
<1>8. CASE UNCHANGED vars
  <2>1. UNCHANGED <<msgs, ctx, run, results, calls, sent, got, groups, failed>>
    BY <1>8 DEF vars, history
  <2>2. QueuesTyped' /\ RunTyped' /\ ResultsTyped'
    BY <2>1 DEF Inv, QueuesTyped, RunTyped, ResultsTyped
  <2>3. AgendaInv' /\ WaitInv'
    BY <2>1 DEF Inv, AgendaInv, WaitInv, InTransit, Remains
  <2>4. GroupInv' /\ ChannelInv' /\ QueuesAreFifo'
    BY <2>1 DEF Inv, GroupInv, ChannelInv, QueuesAreFifo
  <2> QED BY <2>2, <2>3, <2>4 DEF Inv
<1> QED BY <1>1, <1>2, <1>3, <1>4, <1>5, <1>6, <1>7, <1>8 DEF Next, Step

\* The invariant holds throughout every execution.
THEOREM Invariance == Spec => []Inv
BY InitInv, NextInv, PTL DEF Spec

\* Every share, wherever it is, is with the party it was made for and holds an
\* element below BASE, in spite of arithmetic that wraps in 64 bits.
THEOREM SharesTyped == Spec => []TypeOK
<1>1. Inv => TypeOK
  <2> SUFFICES ASSUME Inv PROVE TypeOK
    OBVIOUS
  <2>1. /\ DOMAIN msgs \subseteq Par /\ ctx \subseteq DOMAIN msgs
        /\ \A p \in DOMAIN msgs : \A q \in DOMAIN msgs[p] :
              q \in Par /\ msgs[p][q] \in Seq(ShareOf(p))
    BY DEF Inv, QueuesTyped
  <2>2. ASSUME NEW p \in DOMAIN msgs, NEW q \in DOMAIN msgs[p], NEW i \in DOMAIN msgs[p][q]
        PROVE  msgs[p][q][i] \in Share /\ msgs[p][q][i].party = p
    <3>1. msgs[p][q][i] \in ShareOf(p) /\ p \in Par
      BY <2>1
    <3> QED BY <3>1 DEF ShareOf, Share
  <2>3. \A p \in DOMAIN run.delta : run.delta[p] \in Element
    BY DEF Inv, RunTyped
  <2>4. ASSUME NEW i \in DOMAIN results, NEW j \in DOMAIN results[i].vals
        PROVE  results[i].vals[j] \in Element
    <3>1. results[i].vals \in Seq(Element)
      <4>1. results[i] \in Bundle
        BY DEF Inv, ResultsTyped
      <4> QED BY <4>1 DEF Bundle
    <3> QED BY <3>1
  <2>5. calls \in 0 .. MaxCalls
    BY DEF Inv, ResultsTyped
  <2> QED BY <2>1, <2>2, <2>3, <2>4, <2>5 DEF TypeOK
<1> QED BY <1>1, Invariance, PTL

\* What a party has received from another is what that one sent first, in its
\* order, through failed runs and failed registrations (context.hpp:72-88).
THEOREM Fifo == Spec => []QueuesAreFifo
<1>1. Inv => QueuesAreFifo
  BY DEF Inv
<1> QED BY <1>1, Invariance, PTL

\* Only a run that has thrown leaves messages in the context.
THEOREM OnlyFailuresLeave == Spec => []LeftoversFromFailures
<1>1. Inv => LeftoversFromFailures
  <2> SUFFICES ASSUME Inv, run = NoRun, "run" \notin failed, NEW p \in DOMAIN msgs, NEW q \in DOMAIN msgs[p]
               PROVE  msgs[p][q] = <<>>
    BY DEF LeftoversFromFailures
  <2>1. p \in Par /\ q \in Par /\ Knows(msgs, p, q) /\ msgs[p][q] \in Seq(ShareOf(p))
    BY DEF Inv, QueuesTyped, Knows
  <2>2. ~InTransit(p, q)
    BY NoRunTyped DEF InTransit, Remains
  <2>3. Len(msgs[p][q]) = 0
    BY <2>1, <2>2 DEF Inv, WaitInv
  <2> QED BY <2>1, <2>3, EmptySeq
<1> QED BY <1>1, Invariance, PTL

\* As long as no registration has thrown, q reaches p exactly if p reaches q.
THEOREM BothWays == Spec => []ChannelsBothWays
<1>1. Inv => ChannelsBothWays
  BY DEF Inv, ChannelInv, ChannelsBothWays, Knows
<1> QED BY <1>1, Invariance, PTL

\* A run among parties that one call has registered returns: nothing in it throws,
\* whatever failed before it and whatever messages that has left.
THEOREM RegisteredRunsDoNotThrow == Spec => RegisteredRunsReturn
<1> DEFINE Returns == run # NoRun /\ run' = NoRun
                         /\ (\E g \in groups : Range(run.parties) \subseteq g) => outcome' = "ok"
<1>1. Inv /\ [Next]_vars => [Returns]_vars
  <2> SUFFICES ASSUME Inv, Next, run # NoRun, run' = NoRun,
                      NEW g \in groups, Range(run.parties) \subseteq g
               PROVE  outcome' = "ok"
    BY DEF Returns
  <2>1. CASE Return
    BY <2>1 DEF Return
  <2> DEFINE actor == Head(run.todo).of
             peer == Head(run.todo).with
  <2>2. ASSUME run.todo # <<>>
        PROVE  /\ actor \in ctx /\ Knows(msgs, actor, peer) /\ Knows(msgs, peer, actor)
               /\ Head(run.todo) \in Call /\ Remains(Head(run.todo)) /\ run.parties # <<>>
               /\ run.todo \in Seq(Call)
    <3>1. run.todo \in Seq(Call) /\ Head(run.todo) \in Call
      BY <2>2, HeadTailProperties DEF Inv, RunTyped
    <3>2. Remains(Head(run.todo))
      BY <2>2, <3>1 DEF Remains, Range
    <3>3. {actor, peer} \subseteq Range(run.parties)
      BY <3>2 DEF Inv, AgendaInv, Remains
    <3>4. run.parties # <<>>
      BY <3>3 DEF Range
    <3> QED BY <3>1, <3>2, <3>3, <3>4 DEF Inv, GroupInv
  <2>3. ASSUME run.todo # <<>>, run'.parties = run.parties PROVE FALSE
    BY <2>2, <2>3 DEF NoRun
  <2>4. CASE Send
    <3>1. run.todo # <<>>
      BY <2>4, SMTT(30) DEF Send
    <3>2. run' = [run EXCEPT !.todo = Tail(@)]
      BY <2>2, <2>4, <3>1 DEF Send
    <3>3. run'.parties = run.parties
      BY <3>2 DEF Inv, RunTyped
    <3> QED BY <2>3, <3>1, <3>3, SMTT(30)
  <2>5. CASE Receive
    <3>1. run.todo # <<>> /\ Head(run.todo).op = "receive"
      BY <2>5 DEF Receive
    <3>2. Head(run.todo) = ReceiveOf(actor, peer) /\ actor \in Par /\ peer \in Par
      BY <2>2, <3>1 DEF Call, ReceiveOf
    <3>3. ~Remains(SendOf(actor, peer))
      <4>1. PICK i \in DOMAIN run.todo : run.todo[i] = Head(run.todo)
        BY <2>2, <3>1 DEF Remains, Range
      <4>2. SendsFirst(run.todo) /\ 1 \in DOMAIN run.todo /\ Head(run.todo) = run.todo[1]
        BY <2>2, <3>1 DEF Inv, AgendaInv
      <4>3. \A j \in DOMAIN run.todo : run.todo[j].op # "send"
        BY <2>2, <3>1, <4>2 DEF SendsFirst
      <4> QED BY <4>3 DEF Remains, Range, SendOf
    <3>4. msgs[actor][peer] # <<>>
      BY <2>2, <3>1, <3>2, <3>3, SMTT(30) DEF Inv, WaitInv, InTransit
    <3>5. run' = [run EXCEPT !.todo = Tail(@),
                             !.delta[actor] = Plus(@, FirstMessage(msgs, actor, peer).val)]
      BY <2>2, <2>5, <3>1, <3>4 DEF Receive
    <3>6. run'.parties = run.parties
      BY <3>5 DEF Inv, RunTyped
    <3> QED BY <2>3, <3>1, <3>6
  <2>6. ~Calling
    BY DEF Calling
  <2>7. (\/ \E ps \in PartySets : Register(ps) \/ Start(ps)
         \/ \E p \in Par : Recreate(p)
         \/ \E op \in {"plus", "minus", "times"} : Combine(op)) => Calling
    BY DEF Register, Start, Recreate, Combine
  <2> QED BY <2>1, <2>4, <2>5, <2>6, <2>7 DEF Next, Step
<1> QED BY <1>1, Invariance, PTL DEF Spec, RegisteredRunsReturn

-----------------------------------------------------------------------------
(* The arithmetic of the code, where nothing wraps.                        *)

LEMMA ElementsAreNumbers == Base \in Nat \ {0} /\ Element \subseteq Int /\ 0 \in Element
  BY FieldAssumption DEF Element

\* A product of two reduced elements fits into a word; so does a sum.
ProductsFit == (Base - 1) * (Base - 1) < Word

LEMMA OperationsExact ==
    ASSUME ProductsFit, NEW a \in Element, NEW b \in Element
    PROVE  /\ Plus(a, b) = (a + b) % Base
           /\ Times(a, b) = (a * b) % Base
           /\ a >= b \/ Word % Base = 0 => Minus(a, b) = (a - b) % Base
<1>1. Base \in Nat \ {0} /\ Word \in Nat \ {0} /\ Base < Word
  BY FieldAssumption
<1>2. a \in 0 .. Base - 1 /\ b \in 0 .. Base - 1 /\ a \in Int /\ b \in Int
  BY <1>1 DEF Element
<1>3. ASSUME NEW r \in 0 .. Word - 1 PROVE Field(r) = r % Base
  BY <1>1, Reduced DEF Field
<1> DEFINE top == Base - 1
<1>4. a * b \in 0 .. Word - 1
  <2>1. top \in Nat /\ top * top < Word /\ a \in 0 .. top /\ b \in 0 .. top
    BY <1>1, <1>2 DEF ProductsFit
  <2> HIDE DEF top
  <2>2. a * b <= a * top /\ a * top <= top * top /\ a * b \in Nat /\ a * top \in Int /\ top * top \in Int
    BY <1>2, <2>1
  <2> QED BY <1>1, <2>1, <2>2
<1>5. a + b \in 0 .. Word - 1
  <2>1. top \in Nat /\ top * top < Word /\ top + 1 < Word /\ a \in 0 .. top /\ b \in 0 .. top
    BY <1>1, <1>2 DEF ProductsFit
  <2> HIDE DEF top
  <2>2. CASE top <= 1
    BY <1>1, <2>1, <2>2
  <2>3. CASE top >= 2
    <3>1. 2 * top <= top * top /\ top * top \in Int
      BY <2>1, <2>3
    <3> QED BY <1>1, <2>1, <3>1
  <2> QED BY <2>1, <2>2, <2>3
<1>6. a >= b => a - b \in 0 .. Word - 1
  BY <1>1, <1>2
<1>7. ASSUME ~(a >= b), Word % Base = 0 PROVE Minus(a, b) = (a - b) % Base
  <2> DEFINE d == a - b
             w == d + Word
  <2>1. d \in Int /\ w \in 0 .. Word - 1 /\ w \in Int
    BY <1>1, <1>2, <1>7
  <2>2. (d % Word) = w
    <3> DEFINE k == 1
    <3>1. d + (Word * k) = w /\ k \in Int
      BY <1>1, <2>1
    <3> HIDE DEF k
    <3>2. (d + (Word * k)) % Word = d % Word
      <4> HIDE DEF d, w
      <4> QED BY <1>1, <2>1, <3>1, ApartSame
    <3>3. w % Word = w
      <4> HIDE DEF d, w
      <4> QED BY <1>1, <2>1, Reduced
    <3> HIDE DEF d, w
    <3> QED BY <3>1, <3>2, <3>3
  <2>3. (w % Base) = (d % Base)
    <3>1. PICK k \in Int : Word = 0 + (Base * k)
      <4>1. Word \in Int /\ 0 \in Int /\ (Word % Base) = (0 % Base)
        BY <1>1, <1>7
      <4> QED BY <1>1, <4>1, SameApart
    <3>2. w = d + (Base * k)
      <4> HIDE DEF d
      <4> QED BY <1>1, <2>1, <3>1
    <3> HIDE DEF d, w
    <3> QED BY <1>1, <2>1, <3>2, ApartSame
  <2> HIDE DEF w
  <2> QED BY <2>2, <2>3 DEF Minus, Field
<1> QED BY <1>3, <1>4, <1>5, <1>6, <1>7 DEF Plus, Times, Minus

\* poly::eval, which multiplies up the powers of the party's alpha and reduces after
\* every operation, computes the polynomial that its comment shows (poly.hpp:24), of
\* any degree.
THEOREM EvalIsPolynomial ==
    ASSUME ProductsFit, NEW n \in Nat, NEW coeffs \in [1 .. n -> Element],
           NEW secret \in Element, NEW alpha \in Element
    PROVE  Eval(secret, coeffs, alpha) = Polynomial(Base, secret, coeffs, alpha)
<1> DEFINE c == Padded(secret, coeffs, n)
           s == Series(c, alpha)
<1>1. /\ Base \in Nat \ {0} /\ secret \in Int /\ alpha \in Int /\ coeffs \in [1 .. n -> Int]
      /\ secret \in 0 .. Base - 1 /\ 1 < Word
      /\ \A x \in Element : x \in Int
      /\ \A i \in 1 .. n : coeffs[i] \in Element /\ coeffs[i] \in Int
  BY ElementsAreNumbers, FieldAssumption DEF Element
<1>2. c \in UpTo(n) /\ c \in PowerCoefficients /\ Polynomial(Base, secret, coeffs, alpha) = s[n] % Base
  BY <1>1, ElementsAreNumbers, PolynomialIsSeries DEF UpTo
<1>3. c[0] = secret /\ \A i \in 1 .. n : c[i] = coeffs[i]
  BY DEF Padded
<1> HIDE DEF c
<1>4. s[0] = secret /\ \A i \in Nat : s[i] \in Int /\ s[i + 1] = s[i] + (c[i + 1] * Power(alpha, i + 1))
  BY <1>1, <1>2, <1>3, SeriesStep
<1> HIDE DEF s
<1>5. PICK loop \in [0 .. n -> [factor : Element, res : Element]] :
         /\ Eval(secret, coeffs, alpha) = loop[n].res
         /\ loop[0] = [factor |-> Field(1), res |-> secret]
         /\ \A i \in 1 .. n :
               /\ loop[i].factor = Times(loop[i - 1].factor, alpha)
               /\ loop[i].res = Plus(loop[i - 1].res, Times(loop[i].factor, coeffs[i]))
  <2>1. EvalTurns(n, coeffs, secret, alpha) # {}
    BY EvalLoops
  <2> QED BY <2>1 DEF EvalTurns
<1> DEFINE G == {i \in Nat : i <= n => /\ Congruent(Base, loop[i].factor, Power(alpha, i))
                                       /\ Congruent(Base, loop[i].res, s[i])}
<1>6. 0 \in G
  <2>1. Field(1) = 1 % Base
    <3>1. 1 \in 0 .. Word - 1 /\ Word \in Nat \ {0}
      BY <1>1, FieldAssumption
    <3> QED BY <3>1, Reduced DEF Field
  <2>2. Congruent(Base, loop[0].factor, 1)
    BY <1>1, <1>5, <2>1, RemainderTwice
  <2>3. loop[0].res = s[0] /\ Power(alpha, 0) = 1
    BY <1>1, <1>4, <1>5, PowerStep
  <2> QED BY <2>2, <2>3 DEF Congruent
<1>7. ASSUME NEW i \in G PROVE i + 1 \in G
  <2> SUFFICES ASSUME i + 1 <= n
               PROVE  /\ Congruent(Base, loop[i + 1].factor, Power(alpha, i + 1))
                      /\ Congruent(Base, loop[i + 1].res, s[i + 1])
    OBVIOUS
  <2>1. i \in Nat /\ i \in 0 .. n /\ i + 1 \in 1 .. n /\ i + 1 \in 0 .. n /\ (i + 1) - 1 = i
        /\ Congruent(Base, loop[i].factor, Power(alpha, i)) /\ Congruent(Base, loop[i].res, s[i])
    OBVIOUS
  <2> DEFINE f == loop[i].factor
             r == loop[i].res
             g == loop[i + 1].factor
             k == coeffs[i + 1]
             p == Power(alpha, i)
             q == Power(alpha, i + 1)
  <2>2. f \in Element /\ r \in Element /\ k \in Element /\ g \in Element
        /\ f \in Int /\ r \in Int /\ k \in Int /\ g \in Int
    BY <1>1, <2>1
  <2>3. p \in Int /\ q = p * alpha /\ q \in Int
    BY <1>1, <2>1, PowerStep
  <2>4. s[i + 1] = s[i] + (k * q) /\ s[i] \in Int
    BY <1>3, <1>4, <2>1
  <2>5. g = Times(f, alpha) /\ loop[i + 1].res = Plus(r, Times(g, k))
    <3> DEFINE j == i + 1
    <3>1. j \in 1 .. n /\ j - 1 = i
      BY <2>1
    <3> HIDE DEF j
    <3>2. loop[j].factor = Times(loop[j - 1].factor, alpha)
          /\ loop[j].res = Plus(loop[j - 1].res, Times(loop[j].factor, coeffs[j]))
      BY <1>5, <3>1
    <3> QED BY <3>1, <3>2 DEF j
  <2>6. Congruent(Base, f, p) /\ Congruent(Base, r, s[i])
    BY <2>1
  <2> HIDE DEF f, r, g, k, p, q
  <2>7. Congruent(Base, g, q)
    <3>1. g = (f * alpha) % Base /\ f * alpha \in Int /\ p * alpha \in Int
      BY <1>1, <2>2, <2>3, <2>5, OperationsExact
    <3>2. Congruent(Base, alpha, alpha)
      BY DEF Congruent
    <3>3. Congruent(Base, f * alpha, p * alpha)
      BY <1>1, <2>2, <2>3, <2>6, <3>2, CongruentOperations
    <3>4. Congruent(Base, g, f * alpha)
      BY <1>1, <3>1, RemainderTwice
    <3> QED BY <2>3, <3>3, <3>4 DEF Congruent
  <2> DEFINE gk == Times(g, k)
             kq == k * q
  <2>8. Congruent(Base, gk, kq) /\ gk \in Element /\ gk \in Int /\ kq \in Int
    <3>1. gk = (g * k) % Base /\ g * k = k * g /\ k * g \in Int /\ kq \in Int /\ gk \in Element
      BY <2>2, <2>3, OperationsExact, OperationsTyped
    <3>2. Congruent(Base, k, k)
      BY DEF Congruent
    <3>3. Congruent(Base, k * g, kq)
      BY <1>1, <2>2, <2>3, <2>7, <3>2, CongruentOperations
    <3>4. Congruent(Base, gk, k * g)
      BY <1>1, <3>1, RemainderTwice
    <3> HIDE DEF gk, kq
    <3> QED BY <1>1, <3>1, <3>3, <3>4 DEF Congruent
  <2>9. loop[i + 1].res = Plus(r, gk) /\ s[i + 1] = s[i] + kq
    BY <2>4, <2>5
  <2> HIDE DEF gk, kq
  <2>10. Congruent(Base, loop[i + 1].res, s[i + 1])
    <3>1. loop[i + 1].res = (r + gk) % Base /\ r + gk \in Int
      BY <2>2, <2>8, <2>9, OperationsExact
    <3>2. Congruent(Base, r + gk, s[i] + kq)
      BY <1>1, <2>2, <2>4, <2>6, <2>8, CongruentOperations
    <3>3. Congruent(Base, loop[i + 1].res, r + gk)
      BY <1>1, <3>1, RemainderTwice
    <3> QED BY <2>9, <3>2, <3>3 DEF Congruent
  <2> QED BY <2>7, <2>10 DEF g, q
<1>8. \A i \in Nat : i \in G
  <2> HIDE DEF G
  <2>1. G \in SUBSET Nat
    BY DEF G
  <2> QED BY <1>6, <1>7, <2>1, Inductive
<1>9. Congruent(Base, loop[n].res, s[n]) /\ loop[n].res \in Element
  BY <1>8
<1>10. (loop[n].res % Base) = loop[n].res
  BY <1>1, <1>9, Reduced DEF Element
<1> QED BY <1>2, <1>5, <1>9, <1>10 DEF Congruent

-----------------------------------------------------------------------------
(* What the parties of a run add up.                                       *)

\* The share that q makes for p in this run.
ShareFrom(q, p) == [party |-> p, val |-> Eval(0, run.coeffs[q], Alpha[p])]

\* In a run that has found its channels empty, nothing waits but what is in transit.
UndisturbedInv ==
    run.undisturbed =>
        \A p, q \in Range(run.parties) : Knows(msgs, p, q) =>
            msgs[p][q] = IF InTransit(p, q) THEN <<ShareFrom(q, p)>> ELSE <<>>

\* From whom p has received in this run.
GotFrom(p) == {q \in Range(run.parties) : ~Remains(ReceiveOf(p, q))}

\* The sum of the polynomials of some of the parties.
SumOf(v) == CHOOSE h : Sums(v, h)
AddedUp(parties, coeffs, S) ==
    [j \in 1 .. Degree |-> SumOf([q \in parties |-> coeffs[q][j]])[S]]

\* What a party has added up is the value, at its point, of the sum of the polynomials of
\* those it has received from: the same one for all that have received from all.
DeltaInv ==
    /\ run # NoRun => run.coeffs \in Samples
    /\ run.undisturbed =>
          \A p \in Range(run.parties) :
              run.delta[p] = Polynomial(Base, 0, AddedUp(Range(run.parties), run.coeffs, GotFrom(p)), Alpha[p])

SharesZero(b) ==
    b.undisturbed =>
        /\ b.op # "minus" =>
              IsSharing(Base, b.vals, Points(b), IF b.op = "times" THEN 2 * Degree ELSE Degree, 0)
        /\ b.op = "minus" /\ (~b.wraps \/ Word % Base = 0) =>
              IsSharing(Base, b.vals, Points(b), Degree, 0)

SharingInv == \A i \in DOMAIN results : SharesZero(results[i])

SumInv == UndisturbedInv /\ DeltaInv /\ SharingInv

\* Polynomials are added coefficient by coefficient.
LEMMA PolynomialSum ==
    ASSUME NEW n \in Nat, NEW a \in [1 .. n -> Int], NEW b \in [1 .. n -> Int], NEW x \in Int
    PROVE  Polynomial(Base, 0, [j \in 1 .. n |-> a[j] + b[j]], x)
             = (Polynomial(Base, 0, a, x) + Polynomial(Base, 0, b, x)) % Base
<1> DEFINE ab == [j \in 1 .. n |-> a[j] + b[j]]
           c == Padded(0, a, n)
           d == Padded(0, b, n)
           e == Padded(0, ab, n)
           f == [i \in Nat |-> (1 * c[i]) + d[i]]
<1>0. Base \in Nat \ {0} /\ 0 \in Int
  BY ElementsAreNumbers
<1>1. ab \in [1 .. n -> Int]
  OBVIOUS
<1>2. /\ c \in UpTo(n) /\ d \in UpTo(n) /\ e \in UpTo(n)
      /\ Polynomial(Base, 0, a, x) = Series(c, x)[n] % Base
      /\ Polynomial(Base, 0, b, x) = Series(d, x)[n] % Base
      /\ Polynomial(Base, 0, ab, x) = Series(e, x)[n] % Base
  <2> HIDE DEF ab
  <2> QED BY <1>0, <1>1, ElementsAreNumbers, PolynomialIsSeries
<1>3. c \in PowerCoefficients /\ d \in PowerCoefficients /\ e \in PowerCoefficients
  BY <1>2 DEF UpTo
<1>4. \A k \in Nat : Series(f, x)[k] = (1 * Series(c, x)[k]) + Series(d, x)[k]
  <2> HIDE DEF c, d
  <2> QED BY <1>3, SeriesLinear
<1>5. e = f
  <2>1. \A i \in Nat : e[i] = f[i]
    BY DEF Padded
  <2>2. e = [i \in Nat |-> e[i]]
    BY <1>3 DEF PowerCoefficients
  <2>3. f = [i \in Nat |-> f[i]]
    OBVIOUS
  <2> HIDE DEF e, f
  <2> QED BY <2>1, <2>2, <2>3
<1> DEFINE s == Series(c, x)[n]
           t == Series(d, x)[n]
<1>6. s \in Int /\ t \in Int
  BY <1>3, SeriesStep
<1> HIDE DEF c, d, e, f, ab
<1>7. Series(e, x)[n] = (1 * s) + t
  BY <1>4, <1>5
<1>8. Polynomial(Base, 0, ab, x) = (s + t) % Base
  <2>1. (1 * s) + t = s + t
    BY <1>6
  <2> QED BY <1>2, <1>7, <2>1
<1>9. Polynomial(Base, 0, a, x) = s % Base /\ Polynomial(Base, 0, b, x) = t % Base
  BY <1>2
<1> HIDE DEF s, t
<1>10. /\ (s % Base) \in Int /\ (t % Base) \in Int
       /\ Congruent(Base, s % Base, s) /\ Congruent(Base, t % Base, t)
  BY <1>0, <1>6, RemainderTwice
<1> DEFINE u == s % Base
           w == t % Base
<1>11. Congruent(Base, u + w, s + t)
  <2>1. u \in Int /\ w \in Int /\ Congruent(Base, u, s) /\ Congruent(Base, w, t)
    BY <1>10
  <2> HIDE DEF u, w
  <2> QED BY <1>0, <1>6, <2>1, CongruentOperations
<1> QED BY <1>8, <1>9, <1>11 DEF Congruent, ab

LEMMA PolynomialZero ==
    ASSUME NEW n \in Nat, NEW a \in [1 .. n -> {0}], NEW x \in Int
    PROVE  Polynomial(Base, 0, a, x) = 0
<1> DEFINE c == Padded(0, a, n)
<1>1. a \in [1 .. n -> Int] /\ 0 \in Int
  OBVIOUS
<1>2. c \in UpTo(n) /\ Polynomial(Base, 0, a, x) = Series(c, x)[n] % Base
  BY <1>1, ElementsAreNumbers, PolynomialIsSeries
<1>3. \A i \in Nat : c[i] = 0
  BY DEF Padded
<1> HIDE DEF c
<1>4. c \in UpTo(0)
  BY <1>2, <1>3 DEF UpTo
<1>5. Series(c, x)[n] = 0
  BY <1>3, <1>4, SeriesConstant
<1> QED BY <1>2, <1>5, ElementsAreNumbers, Reduced

\* The sum is one, and grows by what is added.
LEMMA AddedUpStep ==
    ASSUME NEW D \in SUBSET Par, IsFiniteSet(D), NEW coeffs \in Samples
    PROVE  /\ \A S \in SUBSET D : AddedUp(D, coeffs, S) \in [1 .. Degree -> Int]
           /\ AddedUp(D, coeffs, {}) \in [1 .. Degree -> {0}]
           /\ \A S \in SUBSET D : \A q \in D \ S :
                 AddedUp(D, coeffs, S \cup {q})
                   = [j \in 1 .. Degree |-> AddedUp(D, coeffs, S)[j] + coeffs[q][j]]
<1>1. \A q \in D : coeffs[q] \in [1 .. Degree -> Int]
  <2>1. \A q \in Par : coeffs[q] \in [1 .. Degree -> Element]
    BY ExecutionAssumption
  <2> QED BY <2>1, ElementsAreNumbers
<1>2. ASSUME NEW j \in 1 .. Degree
      PROVE  LET v == [q \in D |-> coeffs[q][j]]
                 h == SumOf(v)
             IN /\ h \in [SUBSET D -> Int] /\ h[{}] = 0
                /\ \A S \in SUBSET D : \A q \in D \ S : h[S \cup {q}] = h[S] + coeffs[q][j]
  <2> DEFINE v == [q \in D |-> coeffs[q][j]]
             h == SumOf(v)
  <2>1. v \in [D -> Int] /\ DOMAIN v = D /\ \A q \in D : v[q] = coeffs[q][j]
    BY <1>1
  <2> HIDE DEF v
  <2>2. Sums(v, h)
    <3>1. PICK f : Sums(v, f)
      BY <2>1, SumsExist
    <3>2. Sums(v, CHOOSE g : Sums(v, g))
      BY <3>1, Zenon
    <3> QED BY <3>2 DEF SumOf
  <2> HIDE DEF h
  <2>3. /\ h \in [SUBSET D -> Int] /\ h[{}] = 0
        /\ \A S \in SUBSET D : \A q \in S : h[S] = v[q] + h[S \ {q}]
    BY <2>1, <2>2 DEF Sums
  <2>4. ASSUME NEW S \in SUBSET D, NEW q \in D \ S PROVE h[S \cup {q}] = h[S] + coeffs[q][j]
    <3>1. S \cup {q} \in SUBSET D /\ q \in S \cup {q} /\ (S \cup {q}) \ {q} = S
      OBVIOUS
    <3>2. h[S \cup {q}] = v[q] + h[(S \cup {q}) \ {q}]
      BY <2>3, <3>1
    <3>3. h[S] \in Int /\ v[q] \in Int /\ v[q] = coeffs[q][j]
      BY <2>1, <2>3
    <3>4. h[S \cup {q}] = v[q] + h[S]
      BY <3>1, <3>2, Zenon
    <3>5. v[q] + h[S] = h[S] + v[q]
      BY <3>3
    <3> QED BY <3>3, <3>4, <3>5, Zenon
  <2> QED BY <2>3, <2>4 DEF h, v
<1> DEFINE h(j) == SumOf([q \in D |-> coeffs[q][j]])
<1>3. \A j \in 1 .. Degree : /\ h(j) \in [SUBSET D -> Int] /\ h(j)[{}] = 0
                             /\ \A S \in SUBSET D : \A q \in D \ S : h(j)[S \cup {q}] = h(j)[S] + coeffs[q][j]
  <2> SUFFICES ASSUME NEW j \in 1 .. Degree
               PROVE  /\ h(j) \in [SUBSET D -> Int] /\ h(j)[{}] = 0
                      /\ \A S \in SUBSET D : \A q \in D \ S : h(j)[S \cup {q}] = h(j)[S] + coeffs[q][j]
    OBVIOUS
  <2> QED BY <1>2
<1>4. \A S : AddedUp(D, coeffs, S) = [j \in 1 .. Degree |-> h(j)[S]]
  BY DEF AddedUp
<1> HIDE DEF h
<1>5. ASSUME NEW S \in SUBSET D PROVE AddedUp(D, coeffs, S) \in [1 .. Degree -> Int]
  BY <1>3, <1>4
<1>6. AddedUp(D, coeffs, {}) \in [1 .. Degree -> {0}]
  BY <1>3, <1>4
<1>7. ASSUME NEW S \in SUBSET D, NEW q \in D \ S
      PROVE  AddedUp(D, coeffs, S \cup {q})
               = [j \in 1 .. Degree |-> AddedUp(D, coeffs, S)[j] + coeffs[q][j]]
  <2>1. \A j \in 1 .. Degree : h(j)[S \cup {q}] = AddedUp(D, coeffs, S)[j] + coeffs[q][j]
    <3> SUFFICES ASSUME NEW j \in 1 .. Degree
                 PROVE  h(j)[S \cup {q}] = AddedUp(D, coeffs, S)[j] + coeffs[q][j]
      OBVIOUS
    <3>1. h(j)[S \cup {q}] = h(j)[S] + coeffs[q][j]
      BY <1>3
    <3>2. AddedUp(D, coeffs, S)[j] = h(j)[S]
      BY <1>4
    <3> QED BY <3>1, <3>2
  <2>2. AddedUp(D, coeffs, S \cup {q}) = [j \in 1 .. Degree |-> h(j)[S \cup {q}]]
    BY <1>4
  <2> DEFINE f(j) == h(j)[S \cup {q}]
             g(j) == AddedUp(D, coeffs, S)[j] + coeffs[q][j]
  <2>3. (\A j \in 1 .. Degree : f(j) = g(j)) /\ AddedUp(D, coeffs, S \cup {q}) = [j \in 1 .. Degree |-> f(j)]
    BY <2>1, <2>2
  <2> HIDE DEF f, g
  <2>4. [j \in 1 .. Degree |-> f(j)] = [j \in 1 .. Degree |-> g(j)]
    BY <2>3
  <2>5. AddedUp(D, coeffs, S \cup {q}) = [j \in 1 .. Degree |-> g(j)]
    BY <2>3, <2>4
  <2> QED BY <2>5 DEF g
<1> QED BY <1>5, <1>6, <1>7

\* A party that receives a share adds the dealer's polynomial to those it has added up.
LEMMA ShareAdded ==
    ASSUME ProductsFit, NEW D \in SUBSET Par, IsFiniteSet(D), NEW coeffs \in Samples,
           NEW S \in SUBSET D, NEW q \in D \ S, NEW p \in Par, NEW delta \in Element,
           delta = Polynomial(Base, 0, AddedUp(D, coeffs, S), Alpha[p])
    PROVE  Plus(delta, Eval(0, coeffs[q], Alpha[p]))
             = Polynomial(Base, 0, AddedUp(D, coeffs, S \cup {q}), Alpha[p])
<1> DEFINE a == AddedUp(D, coeffs, S)
           b == coeffs[q]
           x == Alpha[p]
           ab == [j \in 1 .. Degree |-> a[j] + b[j]]
<1>1. /\ Degree \in Nat /\ 0 \in Element /\ x \in Element /\ x \in Int
      /\ b \in [1 .. Degree -> Element] /\ b \in [1 .. Degree -> Int]
  <2>1. coeffs \in [Par -> [1 .. Degree -> Element]] /\ q \in Par /\ Alpha[p] \in Element /\ Degree \in Nat
    BY ExecutionAssumption
  <2>2. b \in [1 .. Degree -> Element]
    BY <2>1
  <2> HIDE DEF b
  <2>3. b \in [1 .. Degree -> Int]
    BY <2>2, ElementsAreNumbers
  <2> QED BY <2>1, <2>2, <2>3, ElementsAreNumbers
<1>2. a \in [1 .. Degree -> Int] /\ AddedUp(D, coeffs, S \cup {q}) = ab
  BY AddedUpStep
<1>3. Eval(0, b, x) = Polynomial(Base, 0, b, x)
  <2> HIDE DEF b, x
  <2> QED BY <1>1, EvalIsPolynomial
<1>4. Polynomial(Base, 0, ab, x) = (Polynomial(Base, 0, a, x) + Polynomial(Base, 0, b, x)) % Base
  <2> HIDE DEF a, b, x
  <2> QED BY <1>1, <1>2, PolynomialSum
<1>5. Eval(0, b, x) \in Element
  <2> HIDE DEF b, x
  <2> QED BY <1>1, EvalType
<1>6. Plus(delta, Eval(0, b, x)) = (delta + Eval(0, b, x)) % Base
  <2> HIDE DEF b, x
  <2> QED BY <1>5, OperationsExact
<1> HIDE DEF a, b, ab, x
<1>7. Plus(delta, Eval(0, b, x)) = Polynomial(Base, 0, ab, x)
  <2>1. delta = Polynomial(Base, 0, a, x)
    BY DEF a, x
  <2> QED BY <1>3, <1>4, <1>6, <2>1
<1> QED BY <1>2, <1>7 DEF b, x

\* The sums of all that has been dealt are a sharing.
LEMMA AddedUpShares ==
    ASSUME NEW D \in SUBSET Par, IsFiniteSet(D), NEW coeffs \in Samples, NEW values, NEW points,
           \A i \in DOMAIN points : points[i] \in Element
                                    /\ values[i] = Polynomial(Base, 0, AddedUp(D, coeffs, D), points[i])
    PROVE  IsSharing(Base, values, points, Degree, 0)
<1> DEFINE a == AddedUp(D, coeffs, D)
           c == Padded(0, a, Degree)
<1>1. Degree \in Nat /\ 0 \in Int /\ a \in [1 .. Degree -> Int]
  BY ExecutionAssumption, AddedUpStep
<1> HIDE DEF a
<1>2. c \in UpTo(Degree) /\ \A x \in Int : Polynomial(Base, 0, a, x) = Series(c, x)[Degree] % Base
  BY <1>1, ElementsAreNumbers, PolynomialIsSeries
<1>3. c[0] = 0
  BY DEF Padded
<1> HIDE DEF c
<1>4. \A i \in DOMAIN points : points[i] \in Int /\ values[i] = Series(c, points[i])[Degree] % Base
  BY <1>2, ElementsAreNumbers DEF a
<1>5. Congruent(Base, c[0], 0)
  BY <1>3 DEF Congruent
<1> QED BY <1>1, <1>2, <1>4, <1>5, ElementsAreNumbers, SeriesSharing

\* So are the sums, differences and products of sharings of 0.
LEMMA ZerosCombine ==
    ASSUME NEW v, NEW w, NEW r, NEW points, \A i \in DOMAIN points : points[i] \in Int,
           IsSharing(Base, v, points, Degree, 0), IsSharing(Base, w, points, Degree, 0)
    PROVE  /\ (\A i \in DOMAIN points : r[i] = (v[i] + w[i]) % Base) => IsSharing(Base, r, points, Degree, 0)
           /\ (\A i \in DOMAIN points : r[i] = (v[i] - w[i]) % Base) => IsSharing(Base, r, points, Degree, 0)
           /\ (\A i \in DOMAIN points : r[i] = (v[i] * w[i]) % Base)
                => IsSharing(Base, r, points, 2 * Degree, 0)
<1> DEFINE z == 0
           p == z + z
           d == z - z
           t == z * z
           n == Degree + Degree
<1>1. z \in Int /\ p = 0 /\ d = 0 /\ t = 0 /\ Degree \in Nat /\ n = 2 * Degree
      /\ IsSharing(Base, v, points, Degree, z) /\ IsSharing(Base, w, points, Degree, z)
  BY ExecutionAssumption
<1> HIDE DEF z
<1>2. (\A i \in DOMAIN points : r[i] = (v[i] + w[i]) % Base) => IsSharing(Base, r, points, Degree, p)
  BY <1>1, ElementsAreNumbers, SharingsCombine
<1>3. (\A i \in DOMAIN points : r[i] = (v[i] - w[i]) % Base) => IsSharing(Base, r, points, Degree, d)
  BY <1>1, ElementsAreNumbers, SharingsCombine
<1>4. (\A i \in DOMAIN points : r[i] = (v[i] * w[i]) % Base) => IsSharing(Base, r, points, n, t)
  BY <1>1, ElementsAreNumbers, SharingsCombine
<1> HIDE DEF p, d, t, n
<1> QED BY <1>1, <1>2, <1>3, <1>4

\* So are the bundles combined of bundles that share 0, as long as nothing wraps.
LEMMA BundlesCombine ==
    ASSUME ProductsFit, NEW a \in Bundle, NEW b \in Bundle, NEW c \in Bundle,
           SharesZero(a), SharesZero(b), a.parties = b.parties, c.parties = a.parties,
           DOMAIN a.vals = DOMAIN a.parties, DOMAIN b.vals = DOMAIN b.parties,
           c.vals = [i \in DOMAIN a.vals |-> Apply(c.op, a.vals[i], b.vals[i])],
           c.undisturbed => a.op = "run" /\ a.undisturbed /\ b.op = "run" /\ b.undisturbed,
           c.wraps <=> \E i \in DOMAIN a.vals : c.op = "minus" /\ a.vals[i] < b.vals[i],
           c.op \in {"plus", "minus", "times"}
    PROVE  SharesZero(c)
<1> SUFFICES ASSUME c.undisturbed PROVE SharesZero(c)
  BY DEF SharesZero
<1> DEFINE points == Points(c)
           v == a.vals
           w == b.vals
           r == c.vals
<1>1. /\ Points(a) = points /\ Points(b) = points /\ DOMAIN points = DOMAIN v
      /\ \A i \in DOMAIN points : points[i] \in Int
  <2>1. c.parties \in Seq(Par)
    BY DEF Bundle
  <2>2. \A i \in DOMAIN c.parties : Alpha[c.parties[i]] \in Element
    BY <2>1, ExecutionAssumption
  <2> QED BY <2>2, ElementsAreNumbers DEF Points
<1>2. IsSharing(Base, v, points, Degree, 0) /\ IsSharing(Base, w, points, Degree, 0)
  BY <1>1 DEF SharesZero
<1>3. \A i \in DOMAIN points : v[i] \in Element /\ w[i] \in Element
  <2>1. v \in Seq(Element) /\ w \in Seq(Element) /\ DOMAIN w = DOMAIN v
    BY DEF Bundle
  <2> QED BY <1>1, <2>1
<1>4. \A i \in DOMAIN points : r[i] = Apply(c.op, v[i], w[i])
  BY <1>1
<1>5. c.op = "minus" /\ ~c.wraps => \A i \in DOMAIN points : v[i] >= w[i]
  <2>1. \A i \in DOMAIN points : v[i] \in Int /\ w[i] \in Int
    BY <1>3, ElementsAreNumbers
  <2> QED BY <1>1, <2>1
<1> HIDE DEF points, v, w, r
<1>7. ASSUME \A i \in DOMAIN points : r[i] = (v[i] + w[i]) % Base PROVE IsSharing(Base, r, points, Degree, 0)
  BY <1>1, <1>2, <1>7, ZerosCombine
<1>8. ASSUME \A i \in DOMAIN points : r[i] = (v[i] - w[i]) % Base PROVE IsSharing(Base, r, points, Degree, 0)
  BY <1>1, <1>2, <1>8, ZerosCombine
<1>9. ASSUME \A i \in DOMAIN points : r[i] = (v[i] * w[i]) % Base PROVE IsSharing(Base, r, points, 2 * Degree, 0)
  BY <1>1, <1>2, <1>9, ZerosCombine
<1>10. CASE c.op = "plus"
  <2>1. \A i \in DOMAIN points : r[i] = (v[i] + w[i]) % Base
    BY <1>3, <1>4, <1>10, OperationsExact DEF Apply
  <2>2. IsSharing(Base, r, points, Degree, 0)
    BY <1>7, <2>1
  <2> QED BY <1>10, <2>2 DEF SharesZero, points, r
<1>11. CASE c.op = "minus"
  <2>1. SUFFICES ASSUME ~c.wraps \/ Word % Base = 0 PROVE IsSharing(Base, r, points, Degree, 0)
    BY <1>11 DEF SharesZero, points, r
  <2>2. \A i \in DOMAIN points : r[i] = (v[i] - w[i]) % Base
    <3> SUFFICES ASSUME NEW i \in DOMAIN points PROVE r[i] = (v[i] - w[i]) % Base
      OBVIOUS
    <3>1. v[i] >= w[i] \/ Word % Base = 0
      BY <1>5, <1>11, <2>1
    <3>2. r[i] = Minus(v[i], w[i])
      BY <1>4, <1>11 DEF Apply
    <3> QED BY <1>3, <3>1, <3>2, OperationsExact
  <2> QED BY <1>8, <2>2
<1>12. CASE c.op = "times"
  <2>1. \A i \in DOMAIN points : r[i] = (v[i] * w[i]) % Base
    BY <1>3, <1>4, <1>12, OperationsExact DEF Apply
  <2>2. IsSharing(Base, r, points, 2 * Degree, 0)
    BY <1>9, <2>1
  <2> QED BY <1>12, <2>2 DEF SharesZero, points, r
<1> QED BY <1>10, <1>11, <1>12

-----------------------------------------------------------------------------
(* Every step keeps the sums.                                              *)

LEMMA PartiesFinite ==
    ASSUME NEW ps \in Seq(Par) PROVE IsFiniteSet(Range(ps)) /\ Range(ps) \in SUBSET Par
<1>1. Len(ps) \in Nat /\ ps \in [1 .. Len(ps) -> Par] /\ Range(ps) = {ps[i] : i \in 1 .. Len(ps)}
  BY DEF Range
<1>2. ps \in Surjection(1 .. Len(ps), Range(ps))
  BY <1>1 DEF Surjection
<1>3. IsFiniteSet(1 .. Len(ps))
  BY <1>1, FS_Interval
<1> QED BY <1>2, <1>3, FS_Surjection, RangeOfSeq

\* Where no run is under way, only the results matter.
LEMMA IdleSums == ASSUME run' = NoRun, SharingInv' PROVE SumInv'
<1>1. run'.parties = <<>> /\ Range(<<>>) = {}
  BY DEF NoRun, Range
<1>2. Range(run'.parties) = {}
  BY <1>1
<1>3. UndisturbedInv'
  BY <1>2 DEF UndisturbedInv
<1>4. DeltaInv'
  BY <1>2 DEF DeltaInv
<1> QED BY <1>3, <1>4 DEF SumInv

LEMMA SharingAppended ==
    ASSUME results \in Seq(Bundle), SharingInv, NEW b \in Bundle, SharesZero(b),
           results' = Append(results, b)
    PROVE  SharingInv'
<1>1. /\ results' \in Seq(Bundle) /\ Len(results') = Len(results) + 1 /\ Len(results) \in Nat
      /\ \A i \in 1 .. Len(results) : results'[i] = results[i]
      /\ results'[Len(results) + 1] = b
  BY AppendProperties
<1>2. ASSUME NEW i \in DOMAIN results' PROVE SharesZero(results'[i])
  <2>1. CASE i \in 1 .. Len(results)
    BY <1>1, <2>1 DEF SharingInv
  <2>2. CASE i = Len(results) + 1
    BY <1>1, <2>2
  <2> QED BY <1>1, <1>2, <2>1, <2>2
<1> QED BY <1>2 DEF SharingInv

\* A run begins with nothing in transit, nothing received and nothing added up.
LEMMA StartSums == ASSUME Inv, SumInv, NEW ps \in PartySets, Start(ps) PROVE SumInv'
<1>1. PICK coeffs \in Samples :
         run' = [parties |-> ps, coeffs |-> coeffs, todo |-> Lambda(ps),
                 delta |-> [p \in Range(ps) |-> 0], undisturbed |-> QuietAmong(ps)]
  BY DEF Start
<1>2. UNCHANGED <<msgs, results>>
  BY DEF Start
<1>3. ps \in Seq(Par) /\ Range(ps) \in SUBSET Par /\ IsInjective(ps) /\ IsFiniteSet(Range(ps))
  BY ExecutionAssumption, PartiesFinite
<1>4. /\ run'.parties = ps /\ run'.coeffs = coeffs /\ run'.todo = Lambda(ps)
      /\ run'.delta = [p \in Range(ps) |-> 0] /\ run'.undisturbed = QuietAmong(ps)
  BY <1>1
<1>5. \A p, q \in Range(ps) : /\ SendOf(p, q) \in Range(run'.todo)
                              /\ ReceiveOf(p, q) \in Range(run'.todo)
  BY <1>3, <1>4, LambdaListed
<1>6. \A p, q \in Range(ps) : ~InTransit(p, q)' /\ Remains(ReceiveOf(p, q))'
  BY <1>5 DEF InTransit, Remains
<1>7. UndisturbedInv'
  <2> SUFFICES ASSUME QuietAmong(ps), NEW p \in Range(ps), NEW q \in Range(ps), Knows(msgs, p, q)
               PROVE  msgs[p][q] = <<>>
    BY <1>2, <1>4, <1>6 DEF UndisturbedInv
  <2> QED BY DEF QuietAmong
<1>8. ASSUME NEW p \in Range(ps)
      PROVE  run'.delta[p] = Polynomial(Base, 0, AddedUp(Range(ps), coeffs, GotFrom(p)'), Alpha[p])
  <2>1. GotFrom(p)' = {}
    BY <1>4, <1>6 DEF GotFrom
  <2>2. AddedUp(Range(ps), coeffs, {}) \in [1 .. Degree -> {0}]
    BY <1>3, AddedUpStep
  <2>3. Degree \in Nat /\ Alpha[p] \in Int
    BY <1>3, ExecutionAssumption, ElementsAreNumbers
  <2>4. Polynomial(Base, 0, AddedUp(Range(ps), coeffs, {}), Alpha[p]) = 0
    BY <2>2, <2>3, PolynomialZero
  <2> QED BY <1>4, <2>1, <2>4
<1>9. DeltaInv'
  BY <1>4, <1>8 DEF DeltaInv
<1>10. SharingInv'
  BY <1>2 DEF SumInv, SharingInv
<1> QED BY <1>7, <1>9, <1>10 DEF SumInv

\* A send puts the dealer's share into the empty queue.
LEMMA SendSums == ASSUME Inv, SumInv, Send PROVE SumInv'
<1> DEFINE s == Head(run.todo).of
           r == Head(run.todo).with
           share == [party |-> r, val |-> Eval(0, run.coeffs[s], Alpha[r])]
<1>1. /\ run.todo # <<>> /\ Head(run.todo).op = "send" /\ UNCHANGED results
  BY SMTT(30) DEF Send
<1>2. SharingInv'
  BY <1>1 DEF SumInv, SharingInv
<1>3. \/ Throw("crashed") \/ Throw("party_nonexist")
      \/ /\ Knows(msgs, r, s)
         /\ msgs' = Sent(msgs, s, r, share)
         /\ run' = [run EXCEPT !.todo = Tail(@)]
  BY DEF Send
<1>4. CASE Throw("crashed") \/ Throw("party_nonexist")
  <2>1. run' = NoRun
    BY <1>4 DEF Throw
  <2> QED BY <1>2, <2>1, IdleSums
<1>5. CASE /\ Knows(msgs, r, s)
           /\ msgs' = Sent(msgs, s, r, share)
           /\ run' = [run EXCEPT !.todo = Tail(@)]
  <2>1. /\ run'.todo = Tail(run.todo) /\ run'.parties = run.parties /\ run'.coeffs = run.coeffs
        /\ run'.delta = run.delta /\ run'.undisturbed = run.undisturbed
    BY <1>5 DEF Inv, RunTyped
  <2>2. /\ Head(run.todo) \in Call /\ Remains(Head(run.todo))
        /\ {r, s} \subseteq Range(run.parties)
        /\ \A c : Remains(c)' <=> Remains(c) /\ c # Head(run.todo)
    BY <1>1, <2>1, CarriedOn
  <2>3. s \in Par /\ r \in Par /\ Head(run.todo) = SendOf(r, s) /\ share = ShareFrom(s, r)
    BY <1>1, <2>2 DEF Call, SendOf, ShareFrom
  <2> HIDE DEF share, s, r
  <2>4. /\ \A p, q : Knows(msgs', p, q) <=> Knows(msgs, p, q)
        /\ \A p, q : Knows(msgs, p, q) =>
              msgs'[p][q] = IF p = r /\ q = s THEN Append(msgs[p][q], share) ELSE msgs[p][q]
    BY <1>5 DEF Sent, Knows
  <2>5. \A p, q : ReceiveOf(p, q) # SendOf(r, s)
    BY DEF SendOf, ReceiveOf
  <2>6. \A p, q : Remains(ReceiveOf(p, q))' <=> Remains(ReceiveOf(p, q))
    BY <2>2, <2>3, <2>5
  <2>7. UndisturbedInv'
    <3> SUFFICES ASSUME run.undisturbed, NEW p \in Range(run.parties), NEW q \in Range(run.parties),
                        Knows(msgs, p, q)
                 PROVE  msgs'[p][q] = IF InTransit(p, q)' THEN <<ShareFrom(q, p)'>> ELSE <<>>
      BY <2>1, <2>4 DEF UndisturbedInv
    <3>1. msgs[p][q] = IF InTransit(p, q) THEN <<ShareFrom(q, p)>> ELSE <<>>
      BY DEF SumInv, UndisturbedInv
    <3>2. ShareFrom(q, p)' = ShareFrom(q, p)
      BY <2>1 DEF ShareFrom
    <3>3. CASE p = r /\ q = s
      <4>1. Remains(SendOf(p, q)) /\ ~Remains(SendOf(p, q))'
        BY <2>2, <2>3, <3>3
      <4>2. Remains(ReceiveOf(p, q))'
        BY <2>3, <2>6, <3>3, <4>1 DEF Inv, AgendaInv
      <4>3. msgs[p][q] = <<>> /\ InTransit(p, q)'
        BY <3>1, <4>1, <4>2 DEF InTransit
      <4>4. msgs'[p][q] = <<share>>
        <5>1. Append(<<>>, share) = <<share>>
          OBVIOUS
        <5>2. msgs'[p][q] = Append(msgs[p][q], share)
          BY <2>4, <3>3
        <5> QED BY <4>3, <5>1, <5>2
      <4> QED BY <2>3, <3>2, <3>3, <4>3, <4>4
    <3>4. CASE ~(p = r /\ q = s)
      <4>1. SendOf(p, q) # SendOf(r, s)
        BY <3>4 DEF SendOf
      <4>2. InTransit(p, q)' <=> InTransit(p, q)
        BY <2>2, <2>3, <2>6, <4>1 DEF InTransit
      <4> QED BY <2>4, <3>1, <3>2, <3>4, <4>2
    <3> QED BY <3>3, <3>4
  <2>8. DeltaInv'
    <3>1. run # NoRun
      BY <1>1 DEF NoRun
    <3>2. \A p : GotFrom(p)' = GotFrom(p)
      BY <2>1, <2>6 DEF GotFrom
    <3> QED BY <2>1, <3>1, <3>2 DEF SumInv, DeltaInv
  <2> QED BY <1>2, <2>7, <2>8 DEF SumInv
<1> QED BY <1>3, <1>4, <1>5

\* A receive takes the dealer's share out of the queue, and adds it up.
LEMMA ReceiveSums == ASSUME ProductsFit, Inv, SumInv, Receive PROVE SumInv'
<1> DEFINE r == Head(run.todo).of
           s == Head(run.todo).with
           share == FirstMessage(msgs, r, s)
<1>1. /\ run.todo # <<>> /\ Head(run.todo).op = "receive" /\ UNCHANGED results
  BY DEF Receive
<1>2. SharingInv'
  BY <1>1 DEF SumInv, SharingInv
<1>3. \/ Throw("crashed") \/ Throw("party_nonexist") \/ Throw("empty_message_queue")
      \/ /\ Knows(msgs, r, s) /\ msgs[r][s] # <<>>
         /\ msgs' = Received(msgs, r, s)
         /\ run' = [run EXCEPT !.todo = Tail(@), !.delta[r] = Plus(@, share.val)]
  BY DEF Receive
<1>4. CASE Throw("crashed") \/ Throw("party_nonexist") \/ Throw("empty_message_queue")
  <2>1. run' = NoRun
    BY <1>4 DEF Throw
  <2> QED BY <1>2, <2>1, IdleSums
<1>5. CASE /\ Knows(msgs, r, s) /\ msgs[r][s] # <<>>
           /\ msgs' = Received(msgs, r, s)
           /\ run' = [run EXCEPT !.todo = Tail(@), !.delta[r] = Plus(@, share.val)]
  <2>1. /\ run'.todo = Tail(run.todo) /\ run'.parties = run.parties /\ run'.coeffs = run.coeffs
        /\ run'.delta = [run.delta EXCEPT ![r] = Plus(@, share.val)]
        /\ run'.undisturbed = run.undisturbed
    BY <1>5 DEF Inv, RunTyped
  <2>2. /\ Head(run.todo) \in Call /\ Remains(Head(run.todo))
        /\ {r, s} \subseteq Range(run.parties)
        /\ \A c : Remains(c)' <=> Remains(c) /\ c # Head(run.todo)
        /\ \A p, q \in Par : ~Remains(SendOf(p, q))
    BY <1>1, <2>1, CarriedOn
  <2>3. s \in Par /\ r \in Par /\ Head(run.todo) = ReceiveOf(r, s)
    BY <1>1, <2>2 DEF Call, ReceiveOf
  <2>4. share = Head(msgs[r][s])
    BY DEF FirstMessage
  <2> HIDE DEF share, s, r
  <2>5. /\ \A p, q : Knows(msgs', p, q) <=> Knows(msgs, p, q)
        /\ \A p, q : Knows(msgs, p, q) =>
              msgs'[p][q] = IF p = r /\ q = s THEN Tail(msgs[p][q]) ELSE msgs[p][q]
    BY <1>5 DEF Received, Knows
  <2>6. \A p, q : ~(p = r /\ q = s) => (Remains(ReceiveOf(p, q))' <=> Remains(ReceiveOf(p, q)))
    <3>1. \A p, q : ~(p = r /\ q = s) => ReceiveOf(p, q) # ReceiveOf(r, s)
      BY DEF ReceiveOf
    <3> QED BY <2>2, <2>3, <3>1
  <2>7. \A p, q : p = r /\ q = s =>
           Remains(ReceiveOf(p, q)) /\ ~Remains(ReceiveOf(p, q))' /\ InTransit(p, q)
    BY <2>2, <2>3 DEF InTransit
  <2>8. /\ Range(run.parties) \in SUBSET Par /\ IsFiniteSet(Range(run.parties))
        /\ run.coeffs \in Samples /\ DOMAIN run.delta = Range(run.parties)
        /\ \A p \in Range(run.parties) : run.delta[p] \in Element
    <3>1. run.parties \in Seq(Par) /\ run.coeffs \in Samples /\ DOMAIN run.delta = Range(run.parties)
      BY <1>1 DEF Inv, RunTyped
    <3>2. \A p \in Range(run.parties) : run.delta[p] \in Element
      BY <3>1 DEF Inv, RunTyped
    <3> QED BY <3>1, <3>2, PartiesFinite
  <2>9. UndisturbedInv'
    <3> SUFFICES ASSUME run.undisturbed, NEW p \in Range(run.parties), NEW q \in Range(run.parties),
                        Knows(msgs, p, q)
                 PROVE  msgs'[p][q] = IF InTransit(p, q)' THEN <<ShareFrom(q, p)'>> ELSE <<>>
      BY <2>1, <2>5 DEF UndisturbedInv
    <3>1. msgs[p][q] = IF InTransit(p, q) THEN <<ShareFrom(q, p)>> ELSE <<>>
      BY DEF SumInv, UndisturbedInv
    <3>2. ShareFrom(q, p)' = ShareFrom(q, p)
      BY <2>1 DEF ShareFrom
    <3>3. CASE p = r /\ q = s
      <4>1. msgs[p][q] = <<ShareFrom(q, p)>> /\ ~InTransit(p, q)'
        <5>1. InTransit(p, q) /\ ~Remains(ReceiveOf(p, q))'
          BY <2>7, <3>3
        <5> QED BY <3>1, <5>1 DEF InTransit
      <4>2. msgs'[p][q] = Tail(<<ShareFrom(q, p)>>)
        BY <2>5, <3>3, <4>1
      <4>3. Tail(<<ShareFrom(q, p)>>) = <<>>
        OBVIOUS
      <4> QED BY <4>1, <4>2, <4>3
    <3>4. CASE ~(p = r /\ q = s)
      <4>1. p \in Par /\ q \in Par
        BY <2>8
      <4>2. SendOf(p, q) # ReceiveOf(r, s)
        BY DEF SendOf, ReceiveOf
      <4>3. InTransit(p, q)' <=> InTransit(p, q)
        BY <2>2, <2>3, <2>6, <3>4, <4>2 DEF InTransit
      <4> QED BY <2>5, <3>1, <3>2, <3>4, <4>3
    <3> QED BY <3>3, <3>4
  <2>10. DeltaInv'
    <3> SUFFICES ASSUME run.undisturbed, NEW p \in Range(run.parties)
                 PROVE  run'.delta[p]
                          = Polynomial(Base, 0, AddedUp(Range(run.parties), run.coeffs, GotFrom(p)'), Alpha[p])
      BY <2>1, <2>8 DEF DeltaInv
    <3>1. run.delta[p] = Polynomial(Base, 0, AddedUp(Range(run.parties), run.coeffs, GotFrom(p)), Alpha[p])
      BY DEF SumInv, DeltaInv
    <3>2. CASE p # r
      <4>1. GotFrom(p)' = GotFrom(p)
        BY <2>1, <2>6, <3>2 DEF GotFrom
      <4>2. run'.delta[p] = run.delta[p]
        BY <2>1, <2>8, <3>2
      <4> QED BY <3>1, <4>1, <4>2
    <3>3. CASE p = r
      <4>0. p = r /\ p \in Par
        BY <2>3, <3>3
      <4>1. /\ GotFrom(p)' = GotFrom(p) \cup {s} /\ GotFrom(p) \in SUBSET Range(run.parties)
            /\ s \in Range(run.parties) \ GotFrom(p)
        <5>1. GotFrom(p)' = {q \in Range(run.parties) : ~Remains(ReceiveOf(p, q))'}
          BY <2>1 DEF GotFrom
        <5>2. \A q : Remains(ReceiveOf(p, q))' <=> Remains(ReceiveOf(p, q)) /\ q # s
          BY <2>6, <2>7, <4>0
        <5>3. s \in Range(run.parties) /\ Remains(ReceiveOf(p, s))
          BY <2>2, <2>7, <4>0
        <5> QED BY <5>1, <5>2, <5>3 DEF GotFrom
      <4>2. msgs[r][s] = <<ShareFrom(s, r)>>
        <5>1. InTransit(r, s)
          BY <2>7
        <5> QED BY <1>5, <2>2, <5>1 DEF SumInv, UndisturbedInv
      <4>3. share.val = Eval(0, run.coeffs[s], Alpha[p])
        BY <2>4, <4>0, <4>2 DEF ShareFrom
      <4>4. run'.delta[p] = Plus(run.delta[p], Eval(0, run.coeffs[s], Alpha[p]))
        BY <2>1, <2>2, <2>8, <4>0, <4>3
      <4> DEFINE D == Range(run.parties)
                 coeffs == run.coeffs
                 delta == run.delta[p]
                 S == GotFrom(p)
      <4>5. /\ D \in SUBSET Par /\ IsFiniteSet(D) /\ coeffs \in Samples /\ S \in SUBSET D
            /\ s \in D \ S /\ delta \in Element /\ delta = Polynomial(Base, 0, AddedUp(D, coeffs, S), Alpha[p])
        BY <2>2, <2>8, <3>1, <4>1
      <4> HIDE DEF D, coeffs, delta, S
      <4>6. Plus(delta, Eval(0, coeffs[s], Alpha[p]))
              = Polynomial(Base, 0, AddedUp(D, coeffs, S \cup {s}), Alpha[p])
        BY <4>0, <4>5, ShareAdded
      <4> QED BY <4>1, <4>4, <4>6 DEF D, coeffs, delta, S
    <3> QED BY <3>2, <3>3
  <2> QED BY <1>2, <2>9, <2>10 DEF SumInv
<1> QED BY <1>3, <1>4, <1>5

\* The bundle that is returned holds the sums of all that has been dealt.
LEMMA ReturnSums == ASSUME Inv, SumInv, Return PROVE SumInv'
<1> DEFINE vals == [i \in DOMAIN run.parties |-> run.delta[run.parties[i]]]
           bundle == [parties |-> run.parties, op |-> "run", vals |-> vals,
                      undisturbed |-> run.undisturbed, wraps |-> FALSE]
<1>1. /\ run # NoRun /\ run.todo = <<>> /\ run' = NoRun /\ results' = Append(results, bundle)
  BY DEF Return
<1>2. /\ run.parties \in Seq(Par) /\ run.undisturbed \in BOOLEAN /\ DOMAIN run.delta = Range(run.parties)
      /\ run.coeffs \in Samples /\ results \in Seq(Bundle)
      /\ Range(run.parties) \in SUBSET Par /\ IsFiniteSet(Range(run.parties))
      /\ \A i \in DOMAIN run.parties : run.parties[i] \in Range(run.parties)
  <2>1. run.parties \in Seq(Par) /\ run.undisturbed \in BOOLEAN /\ DOMAIN run.delta = Range(run.parties)
    BY DEF Inv, RunTyped
  <2>2. run.coeffs \in Samples /\ results \in Seq(Bundle)
    BY <1>1 DEF SumInv, DeltaInv, Inv, ResultsTyped
  <2> QED BY <2>1, <2>2, PartiesFinite DEF Range
<1>3. bundle \in Bundle
  <2>1. \A p \in Range(run.parties) : run.delta[p] \in Element
    BY <1>2 DEF Inv, RunTyped
  <2>2. \A i \in DOMAIN run.parties : run.delta[run.parties[i]] \in Element
    BY <1>2, <2>1
  <2>3. vals \in Seq(Element)
    BY <1>2, <2>2
  <2> HIDE DEF vals
  <2> QED BY <1>2, <2>3 DEF Bundle
<1>4. \A p : GotFrom(p) = Range(run.parties)
  <2>1. Range(run.todo) = {}
    BY <1>1 DEF Range
  <2> QED BY <2>1 DEF GotFrom, Remains
<1>5. ASSUME run.undisturbed PROVE IsSharing(Base, vals, Points(bundle), Degree, 0)
  <2> DEFINE D == Range(run.parties)
             coeffs == run.coeffs
             points == Points(bundle)
  <2>1. points = [i \in DOMAIN run.parties |-> Alpha[run.parties[i]]]
    BY DEF Points
  <2>2. ASSUME NEW i \in DOMAIN points
        PROVE  /\ points[i] \in Element
               /\ vals[i] = Polynomial(Base, 0, AddedUp(D, coeffs, D), points[i])
    <3>1. run.parties[i] \in D /\ run.parties[i] \in Par /\ points[i] = Alpha[run.parties[i]]
          /\ vals[i] = run.delta[run.parties[i]]
      BY <1>2, <2>1, <2>2
    <3>2. run.delta[run.parties[i]]
            = Polynomial(Base, 0, AddedUp(D, coeffs, GotFrom(run.parties[i])), Alpha[run.parties[i]])
      BY <1>5, <3>1 DEF SumInv, DeltaInv
    <3> QED BY <1>4, <3>1, <3>2, ExecutionAssumption
  <2>3. D \in SUBSET Par /\ IsFiniteSet(D) /\ coeffs \in Samples
    BY <1>2
  <2> HIDE DEF D, coeffs, points, vals
  <2> QED BY <2>2, <2>3, AddedUpShares DEF points
<1>6. SharesZero(bundle)
  <2>1. /\ bundle.vals = vals /\ bundle.op = "run" /\ bundle.undisturbed = run.undisturbed
    OBVIOUS
  <2> HIDE DEF bundle
  <2> QED BY <1>5, <2>1 DEF SharesZero
<1> HIDE DEF bundle
<1>7. SharingInv'
  BY <1>1, <1>2, <1>3, <1>6, SharingAppended DEF SumInv
<1> QED BY <1>1, <1>7, IdleSums

LEMMA CombineSums ==
    ASSUME ProductsFit, Inv, SumInv, NEW op \in {"plus", "minus", "times"}, Combine(op)
    PROVE  SumInv'
<1> DEFINE a == results[Len(results) - 1]
           b == results[Len(results)]
           vals == [i \in DOMAIN a.vals |-> Apply(op, a.vals[i], b.vals[i])]
           calm == /\ a.op = "run" /\ a.undisturbed
                   /\ b.op = "run" /\ b.undisturbed
           wraps == \E i \in DOMAIN a.vals : op = "minus" /\ a.vals[i] < b.vals[i]
           bundle == [parties |-> a.parties, op |-> op, vals |-> vals,
                      undisturbed |-> calm, wraps |-> wraps]
<1>1. /\ Len(results) >= 2 /\ run = NoRun /\ run' = NoRun
      /\ \/ UNCHANGED results
         \/ a.parties = b.parties /\ results' = Append(results, bundle)
  BY DEF Combine, Calling
<1>2. CASE UNCHANGED results
  <2>1. SharingInv'
    BY <1>2 DEF SumInv, SharingInv
  <2> QED BY <1>1, <2>1, IdleSums
<1>3. CASE a.parties = b.parties /\ results' = Append(results, bundle)
  <2>1. /\ a \in Bundle /\ b \in Bundle /\ SharesZero(a) /\ SharesZero(b)
        /\ DOMAIN a.vals = DOMAIN a.parties /\ DOMAIN b.vals = DOMAIN b.parties
        /\ results \in Seq(Bundle)
    BY <1>1 DEF Inv, ResultsTyped, SumInv, SharingInv
  <2>2. bundle \in Bundle
    <3> HIDE DEF a, b
    <3>1. \A i \in DOMAIN a.vals : Apply(op, a.vals[i], b.vals[i]) \in Element
      <4>1. \A i \in DOMAIN a.vals : a.vals[i] \in Element /\ b.vals[i] \in Element
        BY <1>3, <2>1 DEF Bundle
      <4> QED BY <4>1, OperationsTyped DEF Apply
    <3>2. vals \in Seq(Element)
      <4>1. a.vals \in Seq(Element) /\ DOMAIN a.vals = 1 .. Len(a.vals) /\ Len(a.vals) \in Nat
        BY <2>1 DEF Bundle
      <4> QED BY <3>1, <4>1
    <3>3. calm \in BOOLEAN /\ wraps \in BOOLEAN
      BY <2>1
    <3> HIDE DEF vals, calm, wraps
    <3> QED BY <2>1, <3>2, <3>3 DEF Bundle
  <2>3. /\ bundle.parties = a.parties /\ bundle.op = op /\ bundle.vals = vals
        /\ bundle.undisturbed = calm /\ bundle.wraps = wraps
    <3> HIDE DEF a, b, vals, calm, wraps
    <3> QED OBVIOUS
  <2> HIDE DEF a, b, bundle
  <2>4. SharesZero(bundle)
    <3>1. bundle.vals = [i \in DOMAIN a.vals |-> Apply(bundle.op, a.vals[i], b.vals[i])]
      BY <2>3
    <3>2. bundle.undisturbed => a.op = "run" /\ a.undisturbed /\ b.op = "run" /\ b.undisturbed
      BY <2>3
    <3>3. bundle.wraps <=> \E i \in DOMAIN a.vals : bundle.op = "minus" /\ a.vals[i] < b.vals[i]
      BY <2>3
    <3> QED BY <1>3, <2>1, <2>2, <2>3, <3>1, <3>2, <3>3, BundlesCombine
  <2>5. SharingInv'
    BY <1>3, <2>1, <2>2, <2>4, SharingAppended DEF SumInv
  <2> QED BY <1>1, <2>5, IdleSums
<1> QED BY <1>1, <1>2, <1>3

LEMMA InitSums == Init => SumInv
<1> SUFFICES ASSUME Init PROVE SumInv
  OBVIOUS
<1>1. Range(run.parties) = {} /\ run = NoRun /\ DOMAIN results = {}
  BY DEF Init, NoRun, Range
<1> QED BY <1>1 DEF SumInv, UndisturbedInv, DeltaInv, SharingInv

LEMMA NextSums == ASSUME ProductsFit, Inv, SumInv, [Next]_vars PROVE SumInv'
<1>1. ASSUME NEW ps \in PartySets, Register(ps) PROVE SumInv'
  <2>1. run' = NoRun /\ UNCHANGED results
    BY <1>1 DEF Register, Calling
  <2> QED BY <2>1, IdleSums DEF SumInv, SharingInv
<1>2. ASSUME NEW ps \in PartySets, Start(ps) PROVE SumInv'
  BY <1>2, StartSums
<1>3. ASSUME NEW p \in Par, Recreate(p) PROVE SumInv'
  <2>1. run' = NoRun /\ UNCHANGED results
    BY <1>3 DEF Recreate, Calling
  <2> QED BY <2>1, IdleSums DEF SumInv, SharingInv
<1>4. CASE Send
  BY <1>4, SendSums
<1>5. CASE Receive
  BY <1>5, ReceiveSums
<1>6. CASE Return
  BY <1>6, ReturnSums
<1>7. ASSUME NEW op \in {"plus", "minus", "times"}, Combine(op) PROVE SumInv'
  BY <1>7, CombineSums
<1>8. CASE UNCHANGED vars
  <2>1. UNCHANGED <<msgs, run, results>>
    BY <1>8 DEF vars
  <2>2. UndisturbedInv'
    BY <2>1 DEF SumInv, UndisturbedInv, InTransit, Remains, ShareFrom
  <2>3. DeltaInv'
    BY <2>1 DEF SumInv, DeltaInv, GotFrom, Remains
  <2>4. SharingInv'
    BY <2>1 DEF SumInv, SharingInv
  <2> QED BY <2>2, <2>3, <2>4 DEF SumInv
<1> QED BY <1>1, <1>2, <1>3, <1>4, <1>5, <1>6, <1>7, <1>8 DEF Next, Step

LEMMA SumInvariance == ASSUME ProductsFit PROVE Spec => [](Inv /\ SumInv)
<1>1. Init => Inv /\ SumInv
  BY InitInv, InitSums
<1>2. Inv /\ SumInv /\ [Next]_vars => (Inv /\ SumInv)'
  BY NextInv, NextSums
<1> QED BY <1>1, <1>2, PTL DEF Spec

\* What the parties add up in a run that found its channels empty is a sharing of 0 of
\* the degree they dealt, for any number of parties, degree and evaluation points, in
\* any field in which the product of two elements fits into a word; so is the sum of two
\* such bundles, and their product is one of twice the degree (test_protocol.cpp:42-60).
THEOREM RunsShareZero == ASSUME ProductsFit PROVE Spec => []BundlesShareZero
<1>1. SumInv => BundlesShareZero
  BY DEF SumInv, SharingInv, SharesZero, BundlesShareZero
<1> QED BY <1>1, SumInvariance, PTL

\* The difference of two such bundles is a sharing of 0 when no subtraction wraps, or
\* when wrapping does no harm because the base divides the number of words
\* (field.hpp:31).
DifferencesShareZero ==
    \A i \in DOMAIN results :
        LET b == results[i]
        IN b.undisturbed /\ b.op = "minus" /\ (~b.wraps \/ Word % Base = 0) =>
              IsSharing(Base, b.vals, Points(b), Degree, 0)

THEOREM DifferencesThatDoNotWrap == ASSUME ProductsFit PROVE Spec => []DifferencesShareZero
<1>1. SumInv => DifferencesShareZero
  BY DEF SumInv, SharingInv, SharesZero, DifferencesShareZero
<1> QED BY <1>1, SumInvariance, PTL
=============================================================================
