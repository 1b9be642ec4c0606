---------------------------- MODULE BuilderProofs ----------------------------
(***************************************************************************)
(* The graphs that are built, for any program, any number of parties and   *)
(* any threshold: they are what the rewriters count on, they have the      *)
(* program's inputs, outputs and randomness, no more and no less, and they *)
(* compute what the program computes.                                      *)
(*                                                                         *)
(* The invariant has four parts: the lists of the builder at any time      *)
(* (Lists), the map and what has been counted (MapFits, CountsNodes), what *)
(* the operations are operations of (SaysProgram), and how far the loop of *)
(* build() over the outputs has come (Making).                             *)
(***************************************************************************)
EXTENDS FrontendProofs

-----------------------------------------------------------------------------
(* The lists of a builder.                                                 *)

BuiltNode == [party : 1 .. PartyCnt, type : NodeGenre]
BuiltEdge == [op : Operator, ins : Seq(Nat), out : Nat, born : Nat]
BuiltEdges == SUBSET BuiltEdge

\* An edge has as many inputs as its operator asks for; those of an evaluation are different.
OneByOne(s) == \A i, j \in DOMAIN s : s[i] = s[j] => i = j
Shaped(e) == /\ e.op = "TRANSIT" => Len(e.ins) = 1
             /\ e.op \in {"ADD", "MUL"} => Len(e.ins) = 2
             /\ e.op = "EVAL" => OneByOne(e.ins)
             /\ e.op = "RECONSTRUCT" => Len(e.ins) = PartyCnt

\* An edge computes its output from earlier nodes.
FitsBelow(e, n) == /\ e \in BuiltEdge /\ e.born = 0 /\ Shaped(e)
                   /\ e.out \in 0 .. n - 1 /\ \A m \in SrcsOf(e) : m \in 0 .. e.out - 1

\* n nodes with their lists, which agree.
Nodes(b, n) == Len(b.nodes) = n /\ b.nodes \in Seq(BuiltNode)
InLists(b, n) ==
    /\ b.inE \in Seq(BuiltEdges) /\ Len(b.inE) = n
    /\ \A i \in 1 .. n : IsFiniteSet(b.inE[i])
    /\ \A i \in 1 .. n : \A e \in b.inE[i] : e.out = i - 1 /\ FitsBelow(e, n)
OutLists(b, n) ==
    /\ b.outE \in Seq(BuiltEdges) /\ Len(b.outE) = n
    /\ \A i \in 1 .. n : \A e \in b.outE[i] : FitsBelow(e, n) /\ i - 1 \in SrcsOf(e)
Agree(b, n) ==
    /\ \A i \in 1 .. n : \A e \in b.inE[i] : \A m \in SrcsOf(e) : e \in b.outE[m + 1]
    /\ \A i \in 1 .. n : \A e \in b.outE[i] : e \in b.inE[e.out + 1]
\* What is opened together is at one party.
OnePlace(b, e) == \A m, k \in SrcsOf(e) : b.nodes[m + 1].party = b.nodes[k + 1].party
Places(b, n) == \A i \in 1 .. n : \A e \in b.inE[i] : e.op = "RECONSTRUCT" => OnePlace(b, e)
Lists(b, n) == /\ n \in Nat /\ Nodes(b, n) /\ InLists(b, n) /\ OutLists(b, n) /\ Agree(b, n)
               /\ Places(b, n)

LEMMA FitsBelowMore ==
    ASSUME NEW n \in Nat, NEW k \in Nat, n <= k, NEW e, FitsBelow(e, n)
    PROVE  FitsBelow(e, k)
BY DEF FitsBelow

\* An edge stays at one place as long as the nodes it uses stay with their parties.
LEMMA PlaceStays ==
    ASSUME NEW b, NEW d, NEW n \in Nat, \A i \in 1 .. n : d.nodes[i].party = b.nodes[i].party,
           NEW e, \A m \in SrcsOf(e) : m \in 0 .. n - 1, OnePlace(b, e)
    PROVE  OnePlace(d, e)
<1>1. \A m \in SrcsOf(e) : d.nodes[m + 1].party = b.nodes[m + 1].party
  <2>1. \A m \in 0 .. n - 1 : m + 1 \in 1 .. n
    OBVIOUS
  <2> QED BY <2>1
<1> QED BY <1>1, Zenon DEF OnePlace

LEMMA PlacesStay ==
    ASSUME NEW b, NEW d, NEW n, NEW k, Lists(b, n),
           \A i \in 1 .. n : d.nodes[i].party = b.nodes[i].party,
           \A i \in 1 .. k : \A e \in d.inE[i] :
              (i \in 1 .. n /\ e \in b.inE[i]) \/ (e.op = "RECONSTRUCT" => OnePlace(d, e))
    PROVE  Places(d, k)
<1> SUFFICES ASSUME NEW i \in 1 .. k, NEW e \in d.inE[i], e.op = "RECONSTRUCT"
             PROVE  OnePlace(d, e)
  BY DEF Places
<1>1. CASE i \in 1 .. n /\ e \in b.inE[i]
  <2>1. OnePlace(b, e) /\ FitsBelow(e, n) /\ n \in Nat
    BY <1>1 DEF Lists, InLists, Places
  <2>2. \A m \in SrcsOf(e) : m \in 0 .. n - 1
    BY <2>1 DEF FitsBelow
  <2> QED BY <2>1, <2>2, PlaceStays
<1>2. CASE ~(i \in 1 .. n /\ e \in b.inE[i])
  BY <1>2
<1> QED BY <1>1, <1>2

\* What is added to the end of the vectors.
LEMMA Appended ==
    ASSUME NEW S, NEW s \in Seq(S), NEW x \in S
    PROVE  /\ Append(s, x) \in Seq(S) /\ Len(Append(s, x)) = Len(s) + 1
           /\ \A i \in 1 .. Len(s) : Append(s, x)[i] = s[i]
           /\ Append(s, x)[Len(s) + 1] = x
OBVIOUS

\* A new node has no edges yet.
OneMoreNode(b, d, n, node) ==
    /\ Lists(d, n + 1) /\ d.map = b.map /\ d.build = b.build
    /\ \A i \in 1 .. n : d.nodes[i] = b.nodes[i] /\ d.inE[i] = b.inE[i]
    /\ d.nodes[n + 1] = node /\ d.inE[n + 1] = {}

LEMMA NewNodeLists ==
    ASSUME NEW b, NEW n, Lists(b, n), NEW party \in 1 .. PartyCnt, NEW type \in NodeGenre
    PROVE  OneMoreNode(b, NewNode(b, party, type), n, [party |-> party, type |-> type])
<1> DEFINE d == NewNode(b, party, type)
           node == [party |-> party, type |-> type]
<1>1. /\ d.nodes = Append(b.nodes, node) /\ d.inE = Append(b.inE, {}) /\ d.outE = Append(b.outE, {})
      /\ d.map = b.map /\ d.build = b.build
  BY DEF NewNode, GraphBaseBuilder
<1>2. node \in BuiltNode
  BY DEF BuiltNode
<1> HIDE DEF d, node
<1>3. /\ n \in Nat /\ Len(b.nodes) = n /\ b.nodes \in Seq(BuiltNode)
      /\ b.inE \in Seq(BuiltEdges) /\ Len(b.inE) = n
      /\ b.outE \in Seq(BuiltEdges) /\ Len(b.outE) = n
  BY DEF Lists, Nodes, InLists, OutLists
<1>4. /\ d.nodes \in Seq(BuiltNode) /\ Len(d.nodes) = n + 1
      /\ \A i \in 1 .. n : d.nodes[i] = b.nodes[i]
      /\ d.nodes[n + 1] = node
  <2>1. /\ Append(b.nodes, node) \in Seq(BuiltNode) /\ Len(Append(b.nodes, node)) = n + 1
        /\ \A i \in 1 .. n : Append(b.nodes, node)[i] = b.nodes[i]
        /\ Append(b.nodes, node)[n + 1] = node
    BY <1>2, <1>3, Appended
  <2> QED BY <1>1, <2>1
<1>5. /\ d.inE \in Seq(BuiltEdges) /\ Len(d.inE) = n + 1
      /\ \A i \in 1 .. n : d.inE[i] = b.inE[i]
      /\ d.inE[n + 1] = {}
  <2>1. {} \in BuiltEdges
    BY DEF BuiltEdges
  <2>2. /\ Append(b.inE, {}) \in Seq(BuiltEdges) /\ Len(Append(b.inE, {})) = n + 1
        /\ \A i \in 1 .. n : Append(b.inE, {})[i] = b.inE[i]
        /\ Append(b.inE, {})[n + 1] = {}
    BY <1>3, <2>1, Appended
  <2> QED BY <1>1, <2>2
<1>6. /\ d.outE \in Seq(BuiltEdges) /\ Len(d.outE) = n + 1
      /\ \A i \in 1 .. n : d.outE[i] = b.outE[i]
      /\ d.outE[n + 1] = {}
  <2>1. {} \in BuiltEdges
    BY DEF BuiltEdges
  <2>2. /\ Append(b.outE, {}) \in Seq(BuiltEdges) /\ Len(Append(b.outE, {})) = n + 1
        /\ \A i \in 1 .. n : Append(b.outE, {})[i] = b.outE[i]
        /\ Append(b.outE, {})[n + 1] = {}
    BY <1>3, <2>1, Appended
  <2> QED BY <1>1, <2>2
<1>7. ASSUME NEW i \in 1 .. n + 1 PROVE i \in 1 .. n \/ i = n + 1
  BY <1>3
<1>8. n + 1 \in Nat /\ n <= n + 1
  BY <1>3
<1>9. InLists(d, n + 1)
  <2>1. \A i \in 1 .. n + 1 : IsFiniteSet(d.inE[i])
    BY <1>5, <1>7, FS_EmptySet DEF Lists, InLists
  <2>2. ASSUME NEW i \in 1 .. n + 1, NEW e \in d.inE[i] PROVE e.out = i - 1 /\ FitsBelow(e, n + 1)
    <3>1. i \in 1 .. n /\ e \in b.inE[i]
      BY <1>5, <1>7, <2>2
    <3>2. e.out = i - 1 /\ FitsBelow(e, n)
      BY <3>1 DEF Lists, InLists
    <3> QED BY <1>3, <1>8, <3>2, FitsBelowMore
  <2> QED BY <1>5, <2>1, <2>2 DEF InLists
<1>10. OutLists(d, n + 1)
  <2>1. ASSUME NEW i \in 1 .. n + 1, NEW e \in d.outE[i]
        PROVE  FitsBelow(e, n + 1) /\ i - 1 \in SrcsOf(e)
    <3>1. i \in 1 .. n /\ e \in b.outE[i]
      BY <1>6, <1>7, <2>1
    <3>2. FitsBelow(e, n) /\ i - 1 \in SrcsOf(e)
      BY <3>1 DEF Lists, OutLists
    <3> QED BY <1>3, <1>8, <3>2, FitsBelowMore
  <2> QED BY <1>6, <2>1 DEF OutLists
<1>11. Agree(d, n + 1)
  <2>1. ASSUME NEW i \in 1 .. n + 1, NEW e \in d.inE[i], NEW m \in SrcsOf(e)
        PROVE  e \in d.outE[m + 1]
    <3>1. i \in 1 .. n /\ e \in b.inE[i]
      BY <1>5, <1>7, <2>1
    <3>2. e \in b.outE[m + 1] /\ FitsBelow(e, n)
      BY <3>1 DEF Lists, InLists, Agree
    <3>3. m + 1 \in 1 .. n
      BY <1>3, <3>2 DEF FitsBelow
    <3> QED BY <1>6, <3>2, <3>3
  <2>2. ASSUME NEW i \in 1 .. n + 1, NEW e \in d.outE[i] PROVE e \in d.inE[e.out + 1]
    <3>1. i \in 1 .. n /\ e \in b.outE[i]
      BY <1>6, <1>7, <2>2
    <3>2. e \in b.inE[e.out + 1] /\ FitsBelow(e, n)
      BY <3>1 DEF Lists, OutLists, Agree
    <3>3. e.out + 1 \in 1 .. n
      BY <1>3, <3>2 DEF FitsBelow
    <3> QED BY <1>5, <3>2, <3>3
  <2> QED BY <2>1, <2>2 DEF Agree
<1>12. Places(d, n + 1)
  <2>1. \A i \in 1 .. n + 1 : \A e \in d.inE[i] : i \in 1 .. n /\ e \in b.inE[i]
    BY <1>5, <1>7
  <2>2. \A i \in 1 .. n : d.nodes[i].party = b.nodes[i].party
    BY <1>4
  <2> QED BY <2>1, <2>2, PlacesStay
<1>13. Lists(d, n + 1)
  BY <1>4, <1>8, <1>9, <1>10, <1>11, <1>12 DEF Lists, Nodes
<1> QED BY <1>1, <1>4, <1>5, <1>13, Zenon DEF d, node, OneMoreNode

\* The operation of the newest node.
Made(n, op, ins) == [op |-> op, ins |-> ins, out |-> n - 1, born |-> 0]

LEMMA SourcesIn ==
    ASSUME NEW W, NEW ins \in Seq(W), NEW n, NEW op
    PROVE  SrcsOf(Made(n, op, ins)) \subseteq W
<1>1. Made(n, op, ins).ins = ins
  BY DEF Made
<1>2. \A i \in DOMAIN ins : ins[i] \in W
  OBVIOUS
<1> QED BY <1>1, <1>2 DEF SrcsOf

LEMMA MadeFits ==
    ASSUME NEW n \in Nat \ {0}, NEW op \in Operator, NEW ins \in Seq(0 .. n - 2),
           Shaped(Made(n, op, ins))
    PROVE  /\ FitsBelow(Made(n, op, ins), n) /\ Made(n, op, ins).out = n - 1
           /\ \A m \in SrcsOf(Made(n, op, ins)) : m + 1 \in 1 .. n
<1> DEFINE e == Made(n, op, ins)
<1>1. e.op = op /\ e.ins = ins /\ e.out = n - 1 /\ e.born = 0
  BY DEF Made
<1>2. ins \in Seq(Nat) /\ DOMAIN ins = 1 .. Len(ins) /\ \A i \in DOMAIN ins : ins[i] \in 0 .. n - 2
  <2>1. 0 .. n - 2 \in SUBSET Nat
    OBVIOUS
  <2> QED BY <2>1
<1>3. e \in BuiltEdge
  <2>1. n - 1 \in Nat
    OBVIOUS
  <2> QED BY <1>2, <2>1 DEF Made, BuiltEdge
<1>4. \A m \in SrcsOf(e) : m \in 0 .. n - 2
  <2> HIDE DEF e
  <2> QED BY <1>1, <1>2 DEF SrcsOf
<1> HIDE DEF e
<1> QED BY <1>1, <1>3, <1>4 DEF FitsBelow, e

\* Its operation joins the lists.
LEMMA NewOperationLists ==
    ASSUME NEW b, NEW n \in Nat \ {0}, Lists(b, n), NEW op \in Operator, NEW ins \in Seq(0 .. n - 2),
           Shaped(Made(n, op, ins)), op = "RECONSTRUCT" => OnePlace(b, Made(n, op, ins))
    PROVE  LET d == NewOperation(b, op, ins)
           IN /\ Lists(d, n) /\ d.nodes = b.nodes /\ d.map = b.map /\ d.build = b.build
              /\ \A i \in 1 .. n - 1 : d.inE[i] = b.inE[i]
              /\ d.inE[n] = b.inE[n] \cup {Made(n, op, ins)}
<1> DEFINE d == NewOperation(b, op, ins)
           e == Made(n, op, ins)
<1>1. /\ Len(b.nodes) = n
      /\ b.inE \in Seq(BuiltEdges) /\ Len(b.inE) = n /\ DOMAIN b.inE = 1 .. n
      /\ b.outE \in Seq(BuiltEdges) /\ Len(b.outE) = n /\ DOMAIN b.outE = 1 .. n
  BY DEF Lists, Nodes, InLists, OutLists
<1>2. d = Linked(b, e, SrcsOf(e))
  BY <1>1 DEF NewOperation, NextId, Made
<1>3. FitsBelow(e, n) /\ e.out = n - 1 /\ \A m \in SrcsOf(e) : m + 1 \in 1 .. n
  BY MadeFits
<1>4. e \in BuiltEdge
  BY <1>3 DEF FitsBelow
<1> HIDE DEF e, d
<1>5. /\ d.nodes = b.nodes /\ d.map = b.map /\ d.build = b.build
      /\ d.inE = [i \in 1 .. n |-> IF i - 1 = e.out THEN b.inE[i] \cup {e} ELSE b.inE[i]]
      /\ d.outE = [i \in 1 .. n |-> IF i - 1 \in SrcsOf(e) THEN b.outE[i] \cup {e} ELSE b.outE[i]]
  BY <1>1, <1>2 DEF Linked, GraphBaseBuilder
<1>6. /\ \A i \in 1 .. n : d.inE[i] = IF i = n THEN b.inE[i] \cup {e} ELSE b.inE[i]
      /\ \A i \in 1 .. n : d.outE[i] = IF i - 1 \in SrcsOf(e) THEN b.outE[i] \cup {e} ELSE b.outE[i]
  BY <1>3, <1>5
<1>7. /\ \A i \in 1 .. n : d.inE[i] \in BuiltEdges
      /\ \A i \in 1 .. n : d.outE[i] \in BuiltEdges
  <2>1. /\ \A i \in 1 .. n : b.inE[i] \in BuiltEdges
        /\ \A i \in 1 .. n : b.outE[i] \in BuiltEdges
    BY <1>1
  <2> QED BY <1>4, <1>6, <2>1 DEF BuiltEdges
<1>8. /\ d.inE \in Seq(BuiltEdges) /\ Len(d.inE) = n
      /\ d.outE \in Seq(BuiltEdges) /\ Len(d.outE) = n
  <2>1. d.inE = [i \in 1 .. n |-> d.inE[i]] /\ d.outE = [i \in 1 .. n |-> d.outE[i]]
    BY <1>5
  <2> QED BY <1>7, <2>1
<1>9. InLists(d, n)
  <2>1. ASSUME NEW i \in 1 .. n PROVE IsFiniteSet(d.inE[i])
    <3>1. IsFiniteSet(b.inE[i]) /\ IsFiniteSet(b.inE[i] \cup {e})
      BY FS_AddElement DEF Lists, InLists
    <3> QED BY <1>6, <3>1
  <2>2. ASSUME NEW i \in 1 .. n, NEW f \in d.inE[i] PROVE f.out = i - 1 /\ FitsBelow(f, n)
    <3>1. CASE f \in b.inE[i]
      BY <3>1 DEF Lists, InLists
    <3>2. CASE f \notin b.inE[i]
      <4>1. i = n /\ f = e
        BY <1>6, <3>2
      <4> QED BY <1>3, <4>1
    <3> QED BY <3>1, <3>2
  <2> QED BY <1>8, <2>1, <2>2 DEF InLists
<1>10. OutLists(d, n)
  <2>1. ASSUME NEW i \in 1 .. n, NEW f \in d.outE[i] PROVE FitsBelow(f, n) /\ i - 1 \in SrcsOf(f)
    <3>1. CASE f \in b.outE[i]
      BY <3>1 DEF Lists, OutLists
    <3>2. CASE f \notin b.outE[i]
      <4>1. i - 1 \in SrcsOf(e) /\ f = e
        BY <1>6, <3>2
      <4> QED BY <1>3, <4>1
    <3> QED BY <3>1, <3>2
  <2> QED BY <1>8, <2>1 DEF OutLists
<1>11. Agree(d, n)
  <2>1. ASSUME NEW i \in 1 .. n, NEW f \in d.inE[i], NEW m \in SrcsOf(f)
        PROVE  f \in d.outE[m + 1]
    <3>1. CASE f \in b.inE[i]
      <4>1. f \in b.outE[m + 1] /\ FitsBelow(f, n)
        BY <3>1 DEF Lists, InLists, Agree
      <4>2. m + 1 \in 1 .. n
        BY <4>1 DEF FitsBelow
      <4> QED BY <1>6, <4>1, <4>2
    <3>2. CASE f \notin b.inE[i]
      <4>1. f = e
        BY <1>6, <3>2
      <4>2. m + 1 \in 1 .. n /\ m \in 0 .. n - 1
        BY <1>3, <4>1 DEF FitsBelow
      <4>3. (m + 1) - 1 = m
        BY <4>2
      <4> QED BY <1>6, <4>1, <4>2, <4>3
    <3> QED BY <3>1, <3>2
  <2>2. ASSUME NEW i \in 1 .. n, NEW f \in d.outE[i] PROVE f \in d.inE[f.out + 1]
    <3>1. CASE f \in b.outE[i]
      <4>1. f \in b.inE[f.out + 1] /\ FitsBelow(f, n)
        BY <3>1 DEF Lists, OutLists, Agree
      <4>2. f.out + 1 \in 1 .. n
        BY <4>1 DEF FitsBelow
      <4> QED BY <1>6, <4>1, <4>2
    <3>2. CASE f \notin b.outE[i]
      <4>1. f = e
        BY <1>6, <3>2
      <4>2. f.out + 1 = n /\ n \in 1 .. n
        BY <1>3, <4>1
      <4> QED BY <1>6, <4>1, <4>2
    <3> QED BY <3>1, <3>2
  <2> QED BY <2>1, <2>2 DEF Agree
<1>12. Lists(d, n)
  <2>1. Nodes(d, n)
    BY <1>5 DEF Lists, Nodes
  <2>2. e.op = "RECONSTRUCT" => OnePlace(d, e)
    <3>1. e.op = op
      BY DEF e, Made
    <3> QED BY <1>5, <3>1 DEF OnePlace, e
  <2>3. \A i \in 1 .. n : \A f \in d.inE[i] : (i \in 1 .. n /\ f \in b.inE[i]) \/ f = e
    BY <1>6
  <2>4. Places(d, n)
    <3>1. \A i \in 1 .. n : d.nodes[i].party = b.nodes[i].party
      BY <1>5
    <3> QED BY <2>2, <2>3, <3>1, PlacesStay
  <2> QED BY <1>9, <1>10, <1>11, <2>1, <2>4 DEF Lists
<1>13. /\ n \in 1 .. n /\ \A i \in 1 .. n - 1 : i \in 1 .. n /\ i # n
  OBVIOUS
<1>14. /\ \A i \in 1 .. n - 1 : d.inE[i] = b.inE[i]
       /\ d.inE[n] = b.inE[n] \cup {e}
  BY <1>6, <1>13
<1> QED BY <1>5, <1>12, <1>14 DEF d, e

Concat(s, t) == s \o t
Follows(s, t, r, n, k) == /\ Len(r) = n + k
                          /\ \A i \in 1 .. n : r[i] = s[i]
                          /\ \A i \in n + 1 .. n + k : r[i] = t[i - n]
LEMMA Concatenated ==
    ASSUME NEW S, NEW s \in Seq(S), NEW t \in Seq(S)
    PROVE  Concat(s, t) \in Seq(S) /\ Follows(s, t, Concat(s, t), Len(s), Len(t))
BY DEF Concat, Follows

\* More nodes without edges.
LEMMA CoefficientLists ==
    ASSUME NEW b, NEW n, Lists(b, n), NEW party \in 1 .. PartyCnt
    PROVE  LET d == CoefficientNodes(b, party, T)
           IN /\ Lists(d, n + T) /\ d.map = b.map /\ d.build = b.build
              /\ \A i \in 1 .. n : /\ d.nodes[i] = b.nodes[i] /\ d.inE[i] = b.inE[i]
                                   /\ d.outE[i] = b.outE[i]
              /\ \A i \in n + 1 .. n + T : /\ d.nodes[i] = [party |-> party, type |-> "OTHERS"]
                                           /\ d.inE[i] = {} /\ d.outE[i] = {}
<1> DEFINE d == CoefficientNodes(b, party, T)
           node == [party |-> party, type |-> "OTHERS"]
           more == [i \in 1 .. T |-> node]
           none == [i \in 1 .. T |-> {}]
<1>1. /\ d.nodes = Concat(b.nodes, more) /\ d.inE = Concat(b.inE, none) /\ d.outE = Concat(b.outE, none)
      /\ d.map = b.map /\ d.build = b.build
  BY DEF CoefficientNodes, GraphBaseBuilder, Concat
<1>2. T \in Nat
  BY FrontendAssumption
<1>3. node \in BuiltNode /\ {} \in BuiltEdges
  BY DEF BuiltNode, BuiltEdges, NodeGenre
<1> HIDE DEF d, node
<1>4. /\ more \in Seq(BuiltNode) /\ Len(more) = T /\ \A i \in 1 .. T : more[i] = node
      /\ none \in Seq(BuiltEdges) /\ Len(none) = T /\ \A i \in 1 .. T : none[i] = {}
  BY <1>2, <1>3
<1> HIDE DEF more, none
<1>5. /\ n \in Nat /\ Len(b.nodes) = n /\ b.nodes \in Seq(BuiltNode)
      /\ b.inE \in Seq(BuiltEdges) /\ Len(b.inE) = n
      /\ b.outE \in Seq(BuiltEdges) /\ Len(b.outE) = n
  BY DEF Lists, Nodes, InLists, OutLists
<1>6. ASSUME NEW i \in n + 1 .. n + T PROVE i - n \in 1 .. T
  BY <1>2, <1>5
<1>7. /\ d.nodes \in Seq(BuiltNode) /\ Len(d.nodes) = n + T
      /\ \A i \in 1 .. n : d.nodes[i] = b.nodes[i]
      /\ \A i \in n + 1 .. n + T : d.nodes[i] = more[i - n]
  <2>1. Concat(b.nodes, more) \in Seq(BuiltNode) /\ Follows(b.nodes, more, Concat(b.nodes, more), Len(b.nodes), Len(more))
    BY <1>4, <1>5, Concatenated
  <2> QED BY <1>1, <1>4, <1>5, <2>1 DEF Follows
<1>8. /\ d.inE \in Seq(BuiltEdges) /\ Len(d.inE) = n + T
      /\ \A i \in 1 .. n : d.inE[i] = b.inE[i]
      /\ \A i \in n + 1 .. n + T : d.inE[i] = none[i - n]
  <2>1. Concat(b.inE, none) \in Seq(BuiltEdges) /\ Follows(b.inE, none, Concat(b.inE, none), Len(b.inE), Len(none))
    BY <1>4, <1>5, Concatenated
  <2> QED BY <1>1, <1>4, <1>5, <2>1 DEF Follows
<1>9. /\ d.outE \in Seq(BuiltEdges) /\ Len(d.outE) = n + T
      /\ \A i \in 1 .. n : d.outE[i] = b.outE[i]
      /\ \A i \in n + 1 .. n + T : d.outE[i] = none[i - n]
  <2>1. Concat(b.outE, none) \in Seq(BuiltEdges) /\ Follows(b.outE, none, Concat(b.outE, none), Len(b.outE), Len(none))
    BY <1>4, <1>5, Concatenated
  <2> QED BY <1>1, <1>4, <1>5, <2>1 DEF Follows
<1>10. \A i \in n + 1 .. n + T : d.nodes[i] = node /\ d.inE[i] = {} /\ d.outE[i] = {}
  BY <1>4, <1>6, <1>7, <1>8, <1>9
<1>11. ASSUME NEW i \in 1 .. n + T PROVE i \in 1 .. n \/ i \in n + 1 .. n + T
  BY <1>2, <1>5
<1>12. n + T \in Nat /\ n <= n + T
  BY <1>2, <1>5
<1>13. InLists(d, n + T)
  <2>1. \A i \in 1 .. n + T : IsFiniteSet(d.inE[i])
    BY <1>8, <1>10, <1>11, FS_EmptySet DEF Lists, InLists
  <2>2. ASSUME NEW i \in 1 .. n + T, NEW e \in d.inE[i] PROVE e.out = i - 1 /\ FitsBelow(e, n + T)
    <3>1. i \in 1 .. n /\ e \in b.inE[i]
      BY <1>8, <1>10, <1>11, <2>2
    <3>2. e.out = i - 1 /\ FitsBelow(e, n)
      BY <3>1 DEF Lists, InLists
    <3> QED BY <1>5, <1>12, <3>2, FitsBelowMore
  <2> QED BY <1>8, <2>1, <2>2 DEF InLists
<1>14. OutLists(d, n + T)
  <2>1. ASSUME NEW i \in 1 .. n + T, NEW e \in d.outE[i]
        PROVE  FitsBelow(e, n + T) /\ i - 1 \in SrcsOf(e)
    <3>1. i \in 1 .. n /\ e \in b.outE[i]
      BY <1>9, <1>10, <1>11, <2>1
    <3>2. FitsBelow(e, n) /\ i - 1 \in SrcsOf(e)
      BY <3>1 DEF Lists, OutLists
    <3> QED BY <1>5, <1>12, <3>2, FitsBelowMore
  <2> QED BY <1>9, <2>1 DEF OutLists
<1>15. Agree(d, n + T)
  <2>1. ASSUME NEW i \in 1 .. n + T, NEW e \in d.inE[i], NEW m \in SrcsOf(e)
        PROVE  e \in d.outE[m + 1]
    <3>1. i \in 1 .. n /\ e \in b.inE[i]
      BY <1>8, <1>10, <1>11, <2>1
    <3>2. e \in b.outE[m + 1] /\ FitsBelow(e, n)
      BY <3>1 DEF Lists, InLists, Agree
    <3>3. m + 1 \in 1 .. n
      BY <1>5, <3>2 DEF FitsBelow
    <3> QED BY <1>9, <3>2, <3>3
  <2>2. ASSUME NEW i \in 1 .. n + T, NEW e \in d.outE[i] PROVE e \in d.inE[e.out + 1]
    <3>1. i \in 1 .. n /\ e \in b.outE[i]
      BY <1>9, <1>10, <1>11, <2>2
    <3>2. e \in b.inE[e.out + 1] /\ FitsBelow(e, n)
      BY <3>1 DEF Lists, OutLists, Agree
    <3>3. e.out + 1 \in 1 .. n
      BY <1>5, <3>2 DEF FitsBelow
    <3> QED BY <1>8, <3>2, <3>3
  <2> QED BY <2>1, <2>2 DEF Agree
<1>16. Places(d, n + T)
  <2>1. \A i \in 1 .. n + T : \A e \in d.inE[i] : i \in 1 .. n /\ e \in b.inE[i]
    BY <1>8, <1>10, <1>11
  <2>2. \A i \in 1 .. n : d.nodes[i].party = b.nodes[i].party
    BY <1>7
  <2> QED BY <2>1, <2>2, PlacesStay
<1>17. Lists(d, n + T)
  BY <1>7, <1>12, <1>13, <1>14, <1>15, <1>16 DEF Lists, Nodes
<1> QED BY <1>1, <1>7, <1>8, <1>9, <1>10, <1>17 DEF d, node

-----------------------------------------------------------------------------
(* The operands of an expression, as nodes.                                *)

\* Its operands are constants or some of the nodes W.
Operands(b, c, x, W) ==
    \A i \in DOMAIN c.exprs[x].args : LET a == c.exprs[x].args[i]
                                      IN c.exprs[a].kind = "constant" \/ b.map[a].node \in W
NoConstants(c, x) == \A i \in DOMAIN c.exprs[x].args : c.exprs[c.exprs[x].args[i]].kind # "constant"

\* The first m operands are not constants, and the others are.
Leading(c, x, m) ==
    /\ m \in 0 .. Len(c.exprs[x].args)
    /\ \A i \in 1 .. Len(c.exprs[x].args) : c.exprs[c.exprs[x].args[i]].kind = "constant" <=> i > m

\* The nodes of the first m operands.
AreNodes(b, c, x, m, ins) == Len(ins) = m /\ \A i \in 1 .. m : ins[i] = b.map[c.exprs[x].args[i]].node

LEMMA AllLead ==
    ASSUME NEW c, NEW x, c.exprs[x].args \in Seq(Nat), NoConstants(c, x)
    PROVE  Leading(c, x, Len(c.exprs[x].args))
BY DEF Leading, NoConstants

LEMMA OperandNodesAre ==
    ASSUME NEW b, NEW c, NEW x, NEW W, c.exprs[x].args \in Seq(Nat), Operands(b, c, x, W)
    PROVE  /\ OperandNodes(b, c, x) \in Seq(W)
           /\ \A m : Leading(c, x, m) => AreNodes(b, c, x, m, OperandNodes(b, c, x))
<1> DEFINE args == c.exprs[x].args
           l == Len(args)
           with(s, i) == IF c.exprs[args[i]].kind = "constant" THEN s
                         ELSE Append(s, b.map[args[i]].node)
           loop(h) == [i \in 0 .. l |-> IF i = 0 THEN <<>>
                                        ELSE IF c.exprs[args[i]].kind = "constant" THEN h[i - 1]
                                        ELSE Append(h[i - 1], b.map[args[i]].node)]
           after == CHOOSE h : h = loop(h)
           SoFar(s, i) == \A m : Leading(c, x, m) => AreNodes(b, c, x, IF i < m THEN i ELSE m, s)
           Good(i) == {s \in Seq(W) : SoFar(s, i)}
           good == [i \in 0 .. l |-> Good(i)]
           States == Seq(W)
           next == [p \in States \X (1 .. l) |-> with(p[1], p[2])]
<1>1. OperandNodes(b, c, x) = after[l]
  BY DEF OperandNodes
<1>2. l \in Nat /\ DOMAIN args = 1 .. l /\ 0 \in Nat /\ 0 <= l /\ l \in 0 .. l /\ 0 \in 0 .. l
  OBVIOUS
<1>3. <<>> \in Good(0)
  <2>1. \A m : Leading(c, x, m) => (IF 0 < m THEN 0 ELSE m) = 0
    BY <1>2 DEF Leading
  <2>2. Len(<<>>) = 0 /\ (\A j : j \notin 1 .. 0) /\ <<>> \in Seq(W)
    OBVIOUS
  <2> HIDE DEF l
  <2>3. SoFar(<<>>, 0)
    BY <2>1, <2>2 DEF AreNodes
  <2> HIDE DEF SoFar
  <2> QED BY <2>2, <2>3
<1>4. ASSUME NEW i \in 1 .. l, NEW s \in Good(i - 1) PROVE with(s, i) \in Good(i)
  <2>0. s \in Seq(W) /\ SoFar(s, i - 1)
    OBVIOUS
  <2>1. CASE c.exprs[args[i]].kind = "constant"
    <3>1. with(s, i) = s
      BY <2>1
    <3>2. ASSUME NEW m, Leading(c, x, m) PROVE AreNodes(b, c, x, IF i < m THEN i ELSE m, s)
      <4>1. AreNodes(b, c, x, IF i - 1 < m THEN i - 1 ELSE m, s)
        BY <2>0, <3>2
      <4>2. m \in 0 .. l /\ i > m
        BY <1>2, <2>1, <3>2 DEF Leading
      <4>3. (IF i - 1 < m THEN i - 1 ELSE m) = m /\ (IF i < m THEN i ELSE m) = m
        BY <1>2, <4>2
      <4> QED BY <4>1, <4>3
    <3>3. SoFar(s, i)
      BY <3>2
    <3> HIDE DEF SoFar, with
    <3> QED BY <2>0, <3>1, <3>3
  <2>2. CASE c.exprs[args[i]].kind # "constant"
    <3>1. b.map[args[i]].node \in W
      BY <1>2, <2>2 DEF Operands
    <3>2. with(s, i) = Append(s, b.map[args[i]].node)
      BY <2>2
    <3> HIDE DEF with
    <3>3. /\ with(s, i) \in Seq(W) /\ Len(with(s, i)) = Len(s) + 1
          /\ \A j \in 1 .. Len(s) : with(s, i)[j] = s[j]
          /\ with(s, i)[Len(s) + 1] = b.map[args[i]].node
      BY <2>0, <3>1, <3>2
    <3>4. ASSUME NEW m, Leading(c, x, m) PROVE AreNodes(b, c, x, IF i < m THEN i ELSE m, with(s, i))
      <4>1. AreNodes(b, c, x, IF i - 1 < m THEN i - 1 ELSE m, s)
        BY <2>0, <3>4
      <4>2. m \in 0 .. l /\ i <= m
        <5>1. m \in 0 .. l /\ ~(i > m)
          BY <1>2, <2>2, <3>4 DEF Leading
        <5> HIDE DEF l
        <5> QED BY <1>2, <5>1
      <4>3. (IF i - 1 < m THEN i - 1 ELSE m) = i - 1 /\ (IF i < m THEN i ELSE m) = i
        BY <1>2, <4>2
      <4>4. Len(s) = i - 1 /\ \A j \in 1 .. i - 1 : s[j] = b.map[args[j]].node
        BY <4>1, <4>3 DEF AreNodes
      <4>5. Len(with(s, i)) = i /\ with(s, i)[i] = b.map[args[i]].node
        BY <1>2, <3>3, <4>4
      <4>6. \A j \in 1 .. i : j \in 1 .. i - 1 \/ j = i
        BY <1>2
      <4>7. \A j \in 1 .. i : with(s, i)[j] = b.map[args[j]].node
        <5> HIDE DEF args, l
        <5> QED BY <3>3, <4>4, <4>5, <4>6
      <4> QED BY <4>3, <4>5, <4>7 DEF AreNodes
    <3>5. SoFar(with(s, i), i)
      BY <3>4
    <3> HIDE DEF SoFar
    <3> QED BY <3>3, <3>5
  <2> QED BY <2>1, <2>2
<1>5. ASSUME NEW i \in 1 .. l, NEW s \in good[i - 1]
      PROVE  next[<<s, i>>] = with(s, i) /\ next[<<s, i>>] \in good[i]
  <2>1. i - 1 \in 0 .. l /\ i \in 0 .. l
    BY <1>2
  <2>2. s \in Good(i - 1) /\ s \in States
    BY <2>1
  <2>3. with(s, i) \in Good(i)
    BY <1>4, <2>2
  <2>4. next[<<s, i>>] = with(s, i)
    <3> HIDE DEF with, States
    <3> QED BY <2>2
  <2> HIDE DEF with, Good, next
  <2> QED BY <2>1, <2>3, <2>4
<1>6. Turns(0, l, <<>>, good, next)
  <2>1. <<>> \in good[0]
    BY <1>2, <1>3
  <2> HIDE DEF good, with, States, next, l
  <2>2. ASSUME NEW i \in 0 + 1 .. l, NEW s \in good[i - 1] PROVE next[<<s, i>>] \in good[i]
    <3>1. i \in 1 .. l
      OBVIOUS
    <3> QED BY <1>5, <3>1, Zenon
  <2> QED BY <2>1, <2>2 DEF Turns
<1>7. PICK f : Runs(0, l, <<>>, good, next, f)
  <2> HIDE DEF good, with, States, next, l
  <2> QED BY <1>2, <1>6, LoopExists
<1> DEFINE whole == [i \in 0 .. l |-> f[i]]
<1>8. ASSUME NEW i \in 1 .. l PROVE whole[i] = with(whole[i - 1], i)
  <2> HIDE DEF with, next, States, Good, l
  <2>1. i - 1 \in 0 .. l /\ i \in 0 .. l /\ i \in 0 + 1 .. l
    BY <1>2
  <2>2. whole[i - 1] = f[i - 1] /\ whole[i] = f[i]
    BY <2>1
  <2> HIDE DEF whole
  <2>3. f[i - 1] \in good[i - 1] /\ f[i] = next[<<f[i - 1], i>>]
    <3> HIDE DEF good
    <3> QED BY <1>7, <2>1, Zenon DEF Runs
  <2> HIDE DEF good
  <2>4. f[i] = with(f[i - 1], i)
    BY <1>5, <2>3
  <2> QED BY <2>2, <2>4
<1>9. whole = loop(whole)
  <2>1. whole[0] = <<>>
    BY <1>2, <1>7 DEF Runs
  <2>2. ASSUME NEW i \in 0 .. l PROVE whole[i] = loop(whole)[i]
    <3>1. CASE i = 0
      <4> HIDE DEF whole
      <4> QED BY <2>1, <3>1
    <3>2. CASE i # 0
      <4>1. i \in 1 .. l
        BY <3>2
      <4>2. whole[i] = with(whole[i - 1], i)
        BY <1>8, <4>1
      <4> HIDE DEF whole, l
      <4>3. loop(whole)[i] = with(whole[i - 1], i)
        BY <3>2
      <4> QED BY <4>2, <4>3
    <3> QED BY <3>1, <3>2
  <2> HIDE DEF l
  <2> QED BY <2>2
<1>10. after = loop(after)
  <2> HIDE DEF loop, whole
  <2> QED BY <1>9
<1>11. after[0] \in good[0]
  <2> HIDE DEF after, Good, with, l
  <2>1. after[0] = <<>>
    <3>1. after[0] = loop(after)[0]
      BY <1>10
    <3> QED BY <1>2, <3>1
  <2> QED BY <1>2, <1>3, <2>1
<1>12. ASSUME NEW i \in 0 + 1 .. l, after[i - 1] \in good[i - 1] PROVE after[i] \in good[i]
  <2> HIDE DEF after, Good, l
  <2>1. i - 1 \in 0 .. l /\ i \in 0 .. l /\ i \in 1 .. l /\ i # 0
    BY <1>2
  <2>2. with(after[i - 1], i) \in Good(i)
    <3>1. after[i - 1] \in Good(i - 1)
      BY <1>12, <2>1
    <3> HIDE DEF with
    <3> QED BY <1>4, <2>1, <3>1
  <2>3. after[i] = loop(after)[i]
    BY <1>10
  <2>4. after[i] = with(after[i - 1], i)
    BY <2>1, <2>3
  <2> HIDE DEF with
  <2> QED BY <2>1, <2>2, <2>4
<1>13. \A i \in 0 .. l : after[i] \in good[i]
  <2> HIDE DEF after, good, l
  <2> QED BY <1>2, <1>11, <1>12, LoopKeeps
<1>14. after[l] \in Good(l)
  <2> HIDE DEF after, Good, l
  <2> QED BY <1>2, <1>13
<1> HIDE DEF after
<1>15. after[l] \in Seq(W) /\ SoFar(after[l], l)
  BY <1>14
<1>16. \A m : Leading(c, x, m) => (IF l < m THEN l ELSE m) = m
  BY <1>2 DEF Leading
<1> QED BY <1>1, <1>15, <1>16

-----------------------------------------------------------------------------
(* The map, and what has been counted.                                     *)

\* Every expression in the map has a node of its own, with its party, or the inputs
\* of its polynomial, all different, among the n nodes of this build.
MapFits(b, c, n) ==
    /\ \A x \in DOMAIN b.map : /\ x \in 1 .. Created(c) /\ c.exprs[x].kind # "constant"
                               /\ b.map[x].build = b.build
    /\ \A x \in DOMAIN b.map : IF c.exprs[x].kind = "poly"
                               THEN b.map[x].inputs \in Seq(0 .. n - 1) /\ OneByOne(b.map[x].inputs)
                               ELSE /\ b.map[x].node \in 0 .. n - 1
                                    /\ b.nodes[b.map[x].node + 1].party = c.exprs[x].party
    /\ \A x, y \in DOMAIN b.map : /\ c.exprs[x].kind # "poly" /\ c.exprs[y].kind # "poly"
                                  /\ b.map[x].node = b.map[y].node
                                  => x = y
    /\ \A x \in DOMAIN b.map : c.exprs[x].op = "RECONSTRUCT" => b.inE[b.map[x].node + 1] # {}
    /\ \A i \in 1 .. n : b.nodes[i].type = "INPUT" => b.inE[i] = {}

RandomIds(b, n) == {m \in 0 .. n - 1 : b.inE[m + 1] = {} /\ b.nodes[m + 1].type = "OTHERS"}
IdsOf(b, n, type) == {m \in 0 .. n - 1 : b.nodes[m + 1].type = type}
Used(b, c, kind) == {x \in DOMAIN b.map : c.exprs[x].kind = kind}
UsedShares(b, c) == {x \in DOMAIN b.map : c.exprs[x].kind = "share" /\ c.exprs[x].op = "INPUT"}

CountsNodes(b, c, n) ==
    /\ Cardinality(RandomIds(b, n)) = T * Cardinality(Used(b, c, "poly")) + Cardinality(Used(b, c, "randomness"))
    /\ Cardinality(IdsOf(b, n, "INPUT")) = Cardinality(Used(b, c, "secret")) + Cardinality(UsedShares(b, c))

\* What an operation of expression x takes: the nodes of its operands, constants
\* left aside, or the inputs of its polynomial.
TakesOperands(b, c, x, ins) ==
    \A m : Leading(c, x, m) => /\ \A i \in 1 .. m : c.exprs[x].args[i] \in DOMAIN b.map
                               /\ AreNodes(b, c, x, m, ins)
TakesPolynomial(b, c, x, ins) ==
    c.exprs[x].args[1] \in DOMAIN b.map /\ ins = b.map[c.exprs[x].args[1]].inputs
OperationOf(b, c, x, e) ==
    /\ e.op = c.exprs[x].op
    /\ IF e.op = "EVAL" THEN TakesPolynomial(b, c, x, e.ins) ELSE TakesOperands(b, c, x, e.ins)

\* The expressions that are nodes, and those that are polynomials.
NodesOf(b, c) == {x \in DOMAIN b.map : c.exprs[x].kind # "poly"}
PolysOf(b, c) == {x \in DOMAIN b.map : c.exprs[x].kind = "poly"}

\* The inputs of a polynomial: its constant term, and coefficients that nothing else is.
TermFirst(b, c, x) ==
    /\ c.exprs[x].args[1] \in DOMAIN b.map /\ Len(b.map[x].inputs) = T + 1
    /\ b.map[x].inputs[1] = b.map[c.exprs[x].args[1]].node
ItsOwn(b, c, x, m) ==
    /\ \A y \in NodesOf(b, c) : b.map[y].node # m
    /\ \A y \in PolysOf(b, c) : \A k \in 2 .. T + 1 : b.map[y].inputs[k] = m => y = x

\* Every operation is that of an expression.
SaysProgram(b, c, n) ==
    /\ \A x \in NodesOf(b, c) : \A e \in b.inE[b.map[x].node + 1] : OperationOf(b, c, x, e)
    /\ \A x \in PolysOf(b, c) : /\ TermFirst(b, c, x)
                                 /\ \A k \in 2 .. T + 1 : ItsOwn(b, c, x, b.map[x].inputs[k])
    /\ \A i \in 1 .. n : b.inE[i] # {} => \E x \in NodesOf(b, c) : b.map[x].node = i - 1

BuilderFits(b, c, n) == /\ Lists(b, n) /\ MapFits(b, c, n) /\ CountsNodes(b, c, n)
                        /\ SaysProgram(b, c, n)

\* d has k nodes more than b, for the expression x.
Makes(b, d, n, k, x) ==
    /\ Lists(d, n + k) /\ d.build = b.build
    /\ \A i \in 1 .. n : d.nodes[i] = b.nodes[i] /\ d.inE[i] = b.inE[i]
    /\ DOMAIN d.map = DOMAIN b.map \cup {x} /\ \A y \in DOMAIN b.map : d.map[y] = b.map[y]
    /\ d.map[x].build = b.build

LEMMA ElementIn == ASSUME NEW S, NEW s \in Seq(S), NEW i \in 1 .. Len(s) PROVE s[i] \in S
OBVIOUS

\* What was said stays so.
LEMMA OperationStays ==
    ASSUME NEW b, NEW d, NEW c, NEW x, NEW e, OperationOf(b, c, x, e),
           DOMAIN b.map \subseteq DOMAIN d.map, \A y \in DOMAIN b.map : d.map[y] = b.map[y]
    PROVE  OperationOf(d, c, x, e)
<1>1. ASSUME TakesPolynomial(b, c, x, e.ins) PROVE TakesPolynomial(d, c, x, e.ins)
  BY <1>1 DEF TakesPolynomial
<1>2. ASSUME TakesOperands(b, c, x, e.ins) PROVE TakesOperands(d, c, x, e.ins)
  BY <1>2 DEF TakesOperands, AreNodes
<1> QED BY <1>1, <1>2 DEF OperationOf

\* The node of an expression, or its polynomial, and the operation that makes it.
NewSays(b, d, c, n, k, x) ==
    IF c.exprs[x].kind = "poly"
    THEN /\ c.exprs[x].args[1] \in DOMAIN b.map /\ c.exprs[c.exprs[x].args[1]].kind # "poly"
         /\ Len(d.map[x].inputs) = T + 1 /\ d.map[x].inputs[1] = b.map[c.exprs[x].args[1]].node
         /\ \A j \in 2 .. T + 1 : d.map[x].inputs[j] \in n .. n + k - 1
         /\ \A i \in n + 1 .. n + k : d.inE[i] = {}
    ELSE /\ d.map[x].node = n /\ k = 1
         /\ \A e \in d.inE[n + 1] : OperationOf(b, c, x, e)

LEMMA SaysStays ==
    ASSUME NEW b, NEW d, NEW n \in Nat, NEW k \in Nat, NEW c, NEW x,
           MapFits(b, c, n), SaysProgram(b, c, n), Makes(b, d, n, k, x), x \notin DOMAIN b.map,
           NewSays(b, d, c, n, k, x)
    PROVE  SaysProgram(d, c, n + k)
<1>1. /\ DOMAIN d.map = DOMAIN b.map \cup {x} /\ \A y \in DOMAIN b.map : d.map[y] = b.map[y] /\ y # x
      /\ \A i \in 1 .. n : d.inE[i] = b.inE[i]
  BY DEF Makes
<1>2. /\ NodesOf(d, c) = IF c.exprs[x].kind = "poly" THEN NodesOf(b, c) ELSE NodesOf(b, c) \cup {x}
      /\ PolysOf(d, c) = IF c.exprs[x].kind = "poly" THEN PolysOf(b, c) \cup {x} ELSE PolysOf(b, c)
      /\ NodesOf(b, c) \subseteq DOMAIN b.map /\ PolysOf(b, c) \subseteq DOMAIN b.map
  BY <1>1 DEF NodesOf, PolysOf
<1>3. ASSUME NEW y \in NodesOf(b, c) PROVE b.map[y].node \in 0 .. n - 1 /\ b.map[y].node + 1 \in 1 .. n
  BY <1>3 DEF MapFits, NodesOf
<1>4. ASSUME NEW y \in PolysOf(b, c), NEW j \in 1 .. T + 1 PROVE b.map[y].inputs[j] \in 0 .. n - 1
  <2>1. Len(b.map[y].inputs) = T + 1 /\ b.map[y].inputs \in Seq(0 .. n - 1)
    BY <1>4 DEF SaysProgram, TermFirst, MapFits, PolysOf
  <2> QED BY <2>1, ElementIn
<1>5. ASSUME NEW y \in NodesOf(d, c), NEW e \in d.inE[d.map[y].node + 1] PROVE OperationOf(d, c, y, e)
  <2>1. OperationOf(b, c, y, e)
    <3>1. CASE y = x
      <4>1. c.exprs[x].kind # "poly"
        BY <3>1 DEF NodesOf
      <4> QED BY <3>1, <4>1 DEF NewSays
    <3>2. CASE y # x
      <4>1. y \in NodesOf(b, c)
        BY <1>2, <3>2
      <4>2. e \in b.inE[b.map[y].node + 1]
        BY <1>1, <1>2, <1>3, <4>1
      <4> QED BY <4>1, <4>2 DEF SaysProgram
    <3> QED BY <3>1, <3>2
  <2> QED BY <1>1, <2>1, OperationStays
<1>6. ASSUME NEW y \in PolysOf(d, c)
      PROVE  TermFirst(d, c, y) /\ \A j \in 2 .. T + 1 : ItsOwn(d, c, y, d.map[y].inputs[j])
  <2>1. CASE y = x
    <3>1. c.exprs[x].kind = "poly"
      BY <2>1 DEF PolysOf
    <3>2. TermFirst(d, c, x)
      BY <1>1, <3>1 DEF TermFirst, NewSays
    <3>3. ASSUME NEW j \in 2 .. T + 1 PROVE ItsOwn(d, c, x, d.map[x].inputs[j])
      <4> DEFINE m == d.map[x].inputs[j]
      <4>1. m \notin 0 .. n - 1
        BY <3>1 DEF NewSays
      <4> HIDE DEF m
      <4>2. \A z \in NodesOf(d, c) : d.map[z].node # m
        BY <1>1, <1>2, <1>3, <3>1, <4>1
      <4>3. ASSUME NEW z \in PolysOf(d, c), NEW h \in 2 .. T + 1, d.map[z].inputs[h] = m PROVE z = x
        <5>1. ASSUME z \in PolysOf(b, c) PROVE FALSE
          <6>1. h \in 1 .. T + 1
            BY FrontendAssumption
          <6>2. d.map[z] = b.map[z]
            BY <1>1, <1>2, <5>1
          <6> QED BY <1>4, <4>1, <4>3, <5>1, <6>1, <6>2
        <5> QED BY <1>2, <3>1, <5>1
      <4>4. ItsOwn(d, c, x, m)
        BY <4>2, <4>3 DEF ItsOwn
      <4> QED BY <4>4 DEF m
    <3> QED BY <2>1, <3>2, <3>3
  <2>2. CASE y # x
    <3>1. y \in PolysOf(b, c) /\ y \in DOMAIN b.map /\ d.map[y] = b.map[y]
      BY <1>1, <1>2, <2>2
    <3>2. TermFirst(b, c, y) /\ \A j \in 2 .. T + 1 : ItsOwn(b, c, y, b.map[y].inputs[j])
      BY <3>1 DEF SaysProgram
    <3>3. TermFirst(d, c, y)
      BY <1>1, <3>1, <3>2 DEF TermFirst
    <3>4. ASSUME NEW j \in 2 .. T + 1 PROVE ItsOwn(d, c, y, b.map[y].inputs[j])
      <4> DEFINE m == b.map[y].inputs[j]
      <4>1. m \in 0 .. n - 1
        <5>1. j \in 1 .. T + 1
          BY FrontendAssumption
        <5> QED BY <1>4, <3>1, <5>1
      <4>2. ItsOwn(b, c, y, m)
        BY <3>2
      <4> HIDE DEF m
      <4>3. ASSUME NEW z \in NodesOf(d, c) PROVE d.map[z].node # m
        <5>1. CASE z \in NodesOf(b, c)
          BY <1>1, <1>2, <4>2, <5>1 DEF ItsOwn
        <5>2. CASE z \notin NodesOf(b, c)
          <6>1. z = x /\ c.exprs[x].kind # "poly"
            BY <1>2, <5>2 DEF NodesOf
          <6>2. d.map[z].node = n
            BY <6>1 DEF NewSays
          <6> QED BY <4>1, <6>2
        <5> QED BY <5>1, <5>2
      <4>4. ASSUME NEW z \in PolysOf(d, c), NEW h \in 2 .. T + 1, d.map[z].inputs[h] = m PROVE z = y
        <5>1. CASE z \in PolysOf(b, c)
          <6>1. d.map[z] = b.map[z]
            BY <1>1, <1>2, <5>1
          <6> QED BY <4>2, <4>4, <5>1, <6>1 DEF ItsOwn
        <5>2. CASE z \notin PolysOf(b, c)
          <6>1. z = x /\ c.exprs[x].kind = "poly"
            BY <1>2, <5>2
          <6>2. d.map[z].inputs[h] \in n .. n + k - 1
            BY <6>1 DEF NewSays
          <6> QED BY <4>1, <4>4, <6>2
        <5> QED BY <5>1, <5>2
      <4>5. ItsOwn(d, c, y, m)
        BY <4>3, <4>4 DEF ItsOwn
      <4> QED BY <4>5 DEF m
    <3> QED BY <3>1, <3>3, <3>4
  <2> QED BY <2>1, <2>2
<1>7. ASSUME NEW i \in 1 .. n + k, d.inE[i] # {}
      PROVE  \E y \in NodesOf(d, c) : d.map[y].node = i - 1
  <2>1. CASE i \in 1 .. n
    <3>1. b.inE[i] # {}
      BY <1>1, <1>7, <2>1
    <3>2. PICK y \in NodesOf(b, c) : b.map[y].node = i - 1
      BY <2>1, <3>1 DEF SaysProgram
    <3> QED BY <1>1, <1>2, <3>2
  <2>2. CASE i \notin 1 .. n
    <3>1. i \in n + 1 .. n + k
      BY <2>2
    <3>2. c.exprs[x].kind # "poly" /\ k = 1 /\ d.map[x].node = n
      BY <1>7, <3>1 DEF NewSays
    <3>3. i - 1 = n /\ x \in NodesOf(d, c)
      BY <1>2, <3>1, <3>2
    <3> QED BY <3>2, <3>3
  <2> QED BY <2>1, <2>2
<1> QED BY <1>5, <1>6, <1>7 DEF SaysProgram

LEMMA CountAdded ==
    ASSUME NEW A, NEW B, IsFiniteSet(A), IsFiniteSet(B), A \cap B = {}
    PROVE  /\ IsFiniteSet(A \cup B) /\ Cardinality(A \cup B) = Cardinality(A) + Cardinality(B)
           /\ Cardinality(A) \in Nat /\ Cardinality(B) \in Nat
<1>1. /\ IsFiniteSet(A \cup B)
      /\ Cardinality(A \cup B) = Cardinality(A) + Cardinality(B) - Cardinality(A \cap B)
  BY FS_Union
<1>2. Cardinality(A \cap B) = 0
  BY FS_EmptySet
<1>3. Cardinality(A) \in Nat /\ Cardinality(B) \in Nat
  BY FS_CardinalityType
<1> QED BY <1>1, <1>2, <1>3

LEMMA OneFresh ==
    ASSUME NEW A, IsFiniteSet(A), NEW x, x \notin A
    PROVE  Cardinality(A \cup {x}) = Cardinality(A) + 1 /\ Cardinality(A) \in Nat
BY FS_AddElement, FS_CardinalityType

LEMMA Finite ==
    ASSUME NEW b, NEW c, NEW n, Created(c) \in Nat, BuilderFits(b, c, n)
    PROVE  /\ n \in Nat /\ IsFiniteSet(RandomIds(b, n)) /\ \A type : IsFiniteSet(IdsOf(b, n, type))
           /\ IsFiniteSet(DOMAIN b.map)
           /\ \A kind : IsFiniteSet(Used(b, c, kind)) /\ IsFiniteSet(UsedShares(b, c))
<1>1. n \in Nat /\ DOMAIN b.map \subseteq 1 .. Created(c)
  BY DEF BuilderFits, Lists, MapFits
<1>2. IsFiniteSet(0 .. n - 1) /\ IsFiniteSet(1 .. Created(c))
  BY <1>1, FS_Interval
<1>3. IsFiniteSet(DOMAIN b.map)
  BY <1>1, <1>2, FS_Subset
<1>4. RandomIds(b, n) \subseteq 0 .. n - 1 /\ \A type : IdsOf(b, n, type) \subseteq 0 .. n - 1
  BY DEF RandomIds, IdsOf
<1>5. UsedShares(b, c) \subseteq DOMAIN b.map /\ \A kind : Used(b, c, kind) \subseteq DOMAIN b.map
  BY DEF UsedShares, Used
<1> QED BY <1>1, <1>2, <1>3, <1>4, <1>5, FS_Subset

\* What the new nodes add to the nodes of a kind.
LEMMA MoreIds ==
    ASSUME NEW b, NEW d, NEW n \in Nat, NEW k \in Nat, NEW x, Makes(b, d, n, k, x)
    PROVE  /\ RandomIds(d, n + k) = RandomIds(b, n) \cup
                  {m \in n .. n + k - 1 : d.inE[m + 1] = {} /\ d.nodes[m + 1].type = "OTHERS"}
           /\ \A type : IdsOf(d, n + k, type) = IdsOf(b, n, type) \cup
                  {m \in n .. n + k - 1 : d.nodes[m + 1].type = type}
<1>1. \A m \in 0 .. n - 1 : d.nodes[m + 1] = b.nodes[m + 1] /\ d.inE[m + 1] = b.inE[m + 1]
  BY DEF Makes
<1>2. \A m : m \in 0 .. (n + k) - 1 <=> m \in 0 .. n - 1 \/ m \in n .. n + k - 1
  OBVIOUS
<1>3. \A m \in n .. n + k - 1 : m \notin 0 .. n - 1
  OBVIOUS
<1>4. RandomIds(d, n + k) = RandomIds(b, n) \cup
          {m \in n .. n + k - 1 : d.inE[m + 1] = {} /\ d.nodes[m + 1].type = "OTHERS"}
  BY <1>1, <1>2, <1>3, Zenon DEF RandomIds
<1>5. ASSUME NEW type
      PROVE  IdsOf(d, n + k, type) = IdsOf(b, n, type) \cup {m \in n .. n + k - 1 : d.nodes[m + 1].type = type}
  BY <1>1, <1>2, <1>3, Zenon DEF IdsOf
<1> QED BY <1>4, <1>5

LEMMA MoreUsed ==
    ASSUME NEW b, NEW d, NEW n, NEW k, NEW x, Makes(b, d, n, k, x), NEW c
    PROVE  /\ \A kind : Used(d, c, kind) = IF c.exprs[x].kind = kind THEN Used(b, c, kind) \cup {x}
                                           ELSE Used(b, c, kind)
           /\ UsedShares(d, c) = IF c.exprs[x].kind = "share" /\ c.exprs[x].op = "INPUT"
                                 THEN UsedShares(b, c) \cup {x} ELSE UsedShares(b, c)
BY DEF Makes, Used, UsedShares

\* What has to be shown of a new expression.
LEMMA MapStaysFit ==
    ASSUME NEW b, NEW d, NEW n \in Nat, NEW k \in Nat, NEW c, NEW x \in 1 .. Created(c),
           MapFits(b, c, n), Makes(b, d, n, k, x), x \notin DOMAIN b.map,
           c.exprs[x].kind # "constant",
           c.exprs[x].kind = "poly" => d.map[x].inputs \in Seq(0 .. (n + k) - 1) /\ OneByOne(d.map[x].inputs),
           c.exprs[x].kind # "poly" => /\ d.map[x].node = n /\ k = 1
                                       /\ d.nodes[n + 1].party = c.exprs[x].party,
           c.exprs[x].op = "RECONSTRUCT" => c.exprs[x].kind # "poly" /\ d.inE[n + 1] # {},
           \A y \in DOMAIN b.map : c.exprs[y].op = "RECONSTRUCT" => c.exprs[y].kind # "poly",
           \A i \in n + 1 .. n + k : d.nodes[i].type = "INPUT" => d.inE[i] = {}
    PROVE  MapFits(d, c, n + k)
<1>1. DOMAIN d.map = DOMAIN b.map \cup {x} /\ \A y \in DOMAIN b.map : d.map[y] = b.map[y] /\ y # x
  BY DEF Makes
<1>2. \A i \in 1 .. n : d.nodes[i] = b.nodes[i] /\ d.inE[i] = b.inE[i]
  BY DEF Makes
<1>3. \A y \in DOMAIN d.map : /\ y \in 1 .. Created(c) /\ c.exprs[y].kind # "constant"
                              /\ d.map[y].build = d.build
  BY <1>1 DEF MapFits, Makes
<1>4. ASSUME NEW y \in DOMAIN d.map
      PROVE  IF c.exprs[y].kind = "poly"
             THEN d.map[y].inputs \in Seq(0 .. (n + k) - 1) /\ OneByOne(d.map[y].inputs)
             ELSE d.map[y].node \in 0 .. (n + k) - 1 /\ d.nodes[d.map[y].node + 1].party = c.exprs[y].party
  <2>1. CASE y = x
    BY <2>1
  <2>2. CASE y # x
    <3>1. y \in DOMAIN b.map /\ d.map[y] = b.map[y]
      BY <1>1, <2>2
    <3>2. 0 .. n - 1 \subseteq 0 .. (n + k) - 1
      OBVIOUS
    <3>3. CASE c.exprs[y].kind = "poly"
      <4>1. b.map[y].inputs \in Seq(0 .. n - 1) /\ OneByOne(b.map[y].inputs)
        BY <3>1, <3>3 DEF MapFits
      <4>2. b.map[y].inputs \in Seq(0 .. (n + k) - 1)
        BY <3>2, <4>1
      <4> QED BY <3>1, <3>3, <4>1, <4>2
    <3>4. CASE c.exprs[y].kind # "poly"
      <4>1. b.map[y].node \in 0 .. n - 1 /\ b.nodes[b.map[y].node + 1].party = c.exprs[y].party
        BY <3>1, <3>4 DEF MapFits
      <4>2. b.map[y].node + 1 \in 1 .. n
        BY <4>1
      <4>3. d.nodes[b.map[y].node + 1] = b.nodes[b.map[y].node + 1]
        BY <1>2, <4>2
      <4>4. b.map[y].node \in 0 .. (n + k) - 1
        BY <3>2, <4>1
      <4> QED BY <3>1, <3>4, <4>1, <4>3, <4>4
    <3> QED BY <3>3, <3>4
  <2> QED BY <2>1, <2>2
<1>5. ASSUME NEW y \in DOMAIN d.map, NEW z \in DOMAIN d.map,
             c.exprs[y].kind # "poly", c.exprs[z].kind # "poly", d.map[y].node = d.map[z].node
      PROVE  y = z
  <2>1. \A w \in DOMAIN b.map : c.exprs[w].kind # "poly" => d.map[w].node \in 0 .. n - 1
    BY <1>1 DEF MapFits
  <2>2. n \notin 0 .. n - 1
    OBVIOUS
  <2>3. y = x <=> z = x
    BY <1>1, <1>5, <2>1, <2>2
  <2>4. CASE y = x
    BY <2>3, <2>4
  <2>5. CASE y # x
    <3>1. y \in DOMAIN b.map /\ z \in DOMAIN b.map /\ b.map[y].node = b.map[z].node
      BY <1>1, <1>5, <2>3, <2>5
    <3> QED BY <1>5, <3>1 DEF MapFits
  <2> QED BY <2>4, <2>5
<1>6. ASSUME NEW y \in DOMAIN d.map, c.exprs[y].op = "RECONSTRUCT" PROVE d.inE[d.map[y].node + 1] # {}
  <2>1. CASE y = x
    BY <1>6, <2>1
  <2>2. CASE y # x
    <3>1. y \in DOMAIN b.map /\ d.map[y] = b.map[y] /\ c.exprs[y].kind # "poly"
      BY <1>1, <1>6, <2>2
    <3>2. b.inE[b.map[y].node + 1] # {} /\ b.map[y].node \in 0 .. n - 1
      BY <1>6, <3>1 DEF MapFits
    <3>3. b.map[y].node + 1 \in 1 .. n
      BY <3>2
    <3> QED BY <1>2, <3>1, <3>2, <3>3
  <2> QED BY <2>1, <2>2
<1>7. ASSUME NEW i \in 1 .. n + k, d.nodes[i].type = "INPUT" PROVE d.inE[i] = {}
  <2>1. i \in 1 .. n \/ i \in n + 1 .. n + k
    OBVIOUS
  <2>2. CASE i \in 1 .. n
    BY <1>2, <1>7, <2>2 DEF MapFits
  <2>3. CASE i \in n + 1 .. n + k
    BY <1>7, <2>3
  <2> QED BY <2>1, <2>2, <2>3
<1> QED BY <1>3, <1>4, <1>5, <1>6, <1>7 DEF MapFits

-----------------------------------------------------------------------------
(* importFrontend makes the node of an expression.                         *)

\* importFrontend has come to the expression's own node.
Ready(b, c, n, x) ==
    /\ Well(c) /\ BuilderFits(b, c, n)
    /\ x \in 1 .. Created(c) /\ x \notin DOMAIN b.map /\ c.exprs[x].kind # "constant"
    /\ Unknown(b, c, x) = {}

\* Everything still fits, and there is no new output.
Imports(b, c, n, x, d) ==
    \E k \in Nat : /\ Makes(b, d, n, k, x) /\ BuilderFits(d, c, n + k)
                   /\ IdsOf(d, n + k, "OUTPUT") = IdsOf(b, n, "OUTPUT")

LEMMA ReadyFacts ==
    ASSUME NEW b, NEW c, NEW n, NEW x, Ready(b, c, n, x)
    PROVE  /\ n \in Nat /\ Len(b.nodes) = n /\ Created(c) \in Nat /\ Lists(b, n) /\ MapFits(b, c, n)
           /\ CountsNodes(b, c, n) /\ SaysProgram(b, c, n) /\ Fits(c, c.exprs[x], x) /\ c.exprs[x] \in Expr
           /\ c.exprs[x].party \in 1 .. PartyCnt
           /\ \A y \in DOMAIN b.map : c.exprs[y].op = "RECONSTRUCT" => c.exprs[y].kind # "poly"
           /\ \A kind : x \notin Used(b, c, kind) /\ x \notin UsedShares(b, c)
<1>1. Well(c) /\ BuilderFits(b, c, n) /\ x \in 1 .. Created(c) /\ c.exprs[x].kind # "constant"
  BY DEF Ready
<1>2. Created(c) \in Nat /\ c.exprs[x] \in Expr
  BY <1>1, WellFacts
<1>3. \A k \in 1 .. Created(c) : Fits(c, c.exprs[k], k)
  BY <1>1 DEF Well
<1>4. c.exprs[x].party \in 1 .. PartyCnt
  BY <1>1, <1>3 DEF Fits
<1>5. /\ Lists(b, n) /\ MapFits(b, c, n) /\ CountsNodes(b, c, n) /\ SaysProgram(b, c, n)
      /\ n \in Nat /\ Len(b.nodes) = n
  BY <1>1 DEF BuilderFits, Lists, Nodes
<1>6. ASSUME NEW y \in DOMAIN b.map, c.exprs[y].op = "RECONSTRUCT" PROVE c.exprs[y].kind # "poly"
  <2>1. y \in 1 .. Created(c)
    BY <1>5 DEF MapFits
  <2> QED BY <1>3, <1>6, <2>1 DEF Fits
<1>7. \A kind : x \notin Used(b, c, kind) /\ x \notin UsedShares(b, c)
  BY DEF Ready, Used, UsedShares
<1> QED BY <1>1, <1>2, <1>3, <1>4, <1>5, <1>6, <1>7

\* d is a with the expression x in its map.
Registers(b, a, d, n, k, x, node, inputs) ==
    /\ Makes(b, d, n, k, x) /\ d.nodes = a.nodes /\ d.inE = a.inE
    /\ d.map[x].node = node /\ d.map[x].inputs = inputs

\* a has k nodes more than b.
Extends(b, a, n, k) == /\ Lists(a, n + k) /\ a.build = b.build /\ a.map = b.map
                       /\ \A i \in 1 .. n : a.nodes[i] = b.nodes[i] /\ a.inE[i] = b.inE[i]

LEMMA KnownMakes ==
    ASSUME NEW b, NEW a, NEW n \in Nat, NEW k \in Nat, NEW x, NEW node, NEW inputs,
           Extends(b, a, n, k), x \notin DOMAIN b.map
    PROVE  Registers(b, a, Known(a, x, node, inputs), n, k, x, node, inputs)
<1> DEFINE d == Known(a, x, node, inputs)
<1>1. /\ d.nodes = a.nodes /\ d.inE = a.inE /\ d.outE = a.outE /\ d.build = a.build
      /\ d.map = [y \in DOMAIN b.map \cup {x} |->
                    IF y = x THEN Imported(b.build, node, inputs) ELSE b.map[y]]
  BY DEF Known, GraphBaseBuilder, Extends
<1> HIDE DEF d
<1>2. DOMAIN d.map = DOMAIN b.map \cup {x} /\ \A y \in DOMAIN b.map : d.map[y] = b.map[y]
  BY <1>1
<1>3. d.map[x] = Imported(b.build, node, inputs)
  BY <1>1
<1>4. d.map[x].build = b.build /\ d.map[x].node = node /\ d.map[x].inputs = inputs
  BY <1>3 DEF Imported
<1>5. Lists(d, n + k)
  <2>1. Lists(a, n + k)
    BY DEF Extends
  <2> HIDE DEF Known
  <2> QED BY <1>1, <2>1 DEF Lists, Nodes, InLists, OutLists, Agree, Places, OnePlace
<1>6. Makes(b, d, n, k, x)
  BY <1>1, <1>2, <1>4, <1>5 DEF Makes, Extends
<1> QED BY <1>1, <1>4, <1>6, Zenon DEF d, Registers

\* The numbers stay right: r more random nodes and i more inputs, for as many
\* more expressions.
LEMMA CountsStayFit ==
    ASSUME NEW b, NEW c, NEW n, NEW x, Ready(b, c, n, x), NEW d, NEW k \in Nat, Makes(b, d, n, k, x),
           \/ /\ c.exprs[x].kind = "secret" /\ k = 1 /\ d.inE[n + 1] = {} /\ d.nodes[n + 1].type = "INPUT"
           \/ /\ c.exprs[x].kind = "randomness" /\ k = 1 /\ d.inE[n + 1] = {} /\ d.nodes[n + 1].type = "OTHERS"
           \/ /\ c.exprs[x].kind = "share" /\ c.exprs[x].op = "INPUT"
              /\ k = 1 /\ d.inE[n + 1] = {} /\ d.nodes[n + 1].type = "INPUT"
           \/ /\ c.exprs[x].kind = "share" /\ c.exprs[x].op # "INPUT"
              /\ k = 1 /\ d.inE[n + 1] # {} /\ d.nodes[n + 1].type = "OTHERS"
           \/ /\ c.exprs[x].kind = "poly" /\ k = T
              /\ \A i \in n + 1 .. n + T : d.inE[i] = {} /\ d.nodes[i].type = "OTHERS"
    PROVE  CountsNodes(d, c, n + k) /\ IdsOf(d, n + k, "OUTPUT") = IdsOf(b, n, "OUTPUT")
<1> DEFINE newRandom == {m \in n .. n + k - 1 : d.inE[m + 1] = {} /\ d.nodes[m + 1].type = "OTHERS"}
           newOf(type) == {m \in n .. n + k - 1 : d.nodes[m + 1].type = type}
<1>1. /\ n \in Nat /\ Created(c) \in Nat /\ CountsNodes(b, c, n) /\ BuilderFits(b, c, n)
      /\ \A kind : x \notin Used(b, c, kind) /\ x \notin UsedShares(b, c)
  BY ReadyFacts DEF Ready
<1>2. /\ IsFiniteSet(RandomIds(b, n)) /\ \A type : IsFiniteSet(IdsOf(b, n, type))
      /\ \A kind : IsFiniteSet(Used(b, c, kind)) /\ IsFiniteSet(UsedShares(b, c))
  BY <1>1, Finite
<1>3. /\ RandomIds(d, n + k) = RandomIds(b, n) \cup newRandom
      /\ \A type : IdsOf(d, n + k, type) = IdsOf(b, n, type) \cup newOf(type)
  BY <1>1, MoreIds
<1>4. /\ \A kind : Used(d, c, kind) = IF c.exprs[x].kind = kind THEN Used(b, c, kind) \cup {x}
                                      ELSE Used(b, c, kind)
      /\ UsedShares(d, c) = IF c.exprs[x].kind = "share" /\ c.exprs[x].op = "INPUT"
                            THEN UsedShares(b, c) \cup {x} ELSE UsedShares(b, c)
  BY MoreUsed
<1>5. /\ Cardinality(RandomIds(b, n)) = T * Cardinality(Used(b, c, "poly")) + Cardinality(Used(b, c, "randomness"))
      /\ Cardinality(IdsOf(b, n, "INPUT")) = Cardinality(Used(b, c, "secret")) + Cardinality(UsedShares(b, c))
  BY <1>1 DEF CountsNodes
<1>6. /\ n \notin RandomIds(b, n) /\ \A type : n \notin IdsOf(b, n, type)
  BY <1>1 DEF RandomIds, IdsOf
<1>7. /\ \A kind : Cardinality(Used(b, c, kind) \cup {x}) = Cardinality(Used(b, c, kind)) + 1
      /\ \A kind : Cardinality(Used(b, c, kind)) \in Nat
      /\ Cardinality(UsedShares(b, c) \cup {x}) = Cardinality(UsedShares(b, c)) + 1
      /\ Cardinality(UsedShares(b, c)) \in Nat
  BY <1>1, <1>2, OneFresh
<1>8. /\ Cardinality(RandomIds(b, n) \cup {n}) = Cardinality(RandomIds(b, n)) + 1
      /\ Cardinality(RandomIds(b, n)) \in Nat
      /\ Cardinality(IdsOf(b, n, "INPUT") \cup {n}) = Cardinality(IdsOf(b, n, "INPUT")) + 1
      /\ Cardinality(IdsOf(b, n, "INPUT")) \in Nat
  BY <1>2, <1>6, OneFresh
<1>9. ASSUME k = 1 PROVE \A m : m \in n .. n + k - 1 <=> m = n
  BY <1>1, <1>9
<1>10. T \in Nat
  BY FrontendAssumption
<1> DEFINE polys == Cardinality(Used(b, c, "poly"))
           randoms == Cardinality(Used(b, c, "randomness"))
           secrets == Cardinality(Used(b, c, "secret"))
           given == Cardinality(UsedShares(b, c))
<1>11. /\ polys \in Nat /\ randoms \in Nat /\ secrets \in Nat /\ given \in Nat /\ T * polys \in Nat
       /\ Cardinality(RandomIds(b, n)) = T * polys + randoms
       /\ Cardinality(IdsOf(b, n, "INPUT")) = secrets + given
       /\ Cardinality(Used(b, c, "poly") \cup {x}) = polys + 1
       /\ Cardinality(Used(b, c, "randomness") \cup {x}) = randoms + 1
       /\ Cardinality(Used(b, c, "secret") \cup {x}) = secrets + 1
       /\ Cardinality(UsedShares(b, c) \cup {x}) = given + 1
  BY <1>5, <1>7, <1>10
<1> HIDE DEF polys, randoms, secrets, given
<1> DEFINE Kept == /\ Cardinality(RandomIds(d, n + k))
                        = T * Cardinality(Used(d, c, "poly")) + Cardinality(Used(d, c, "randomness"))
                   /\ Cardinality(IdsOf(d, n + k, "INPUT"))
                        = Cardinality(Used(d, c, "secret")) + Cardinality(UsedShares(d, c))
                   /\ IdsOf(d, n + k, "OUTPUT") = IdsOf(b, n, "OUTPUT")
<1> SUFFICES Kept
  BY DEF CountsNodes
<1> HIDE DEF newRandom, newOf
<1>12. CASE c.exprs[x].kind = "secret" /\ k = 1 /\ d.inE[n + 1] = {} /\ d.nodes[n + 1].type = "INPUT"
  <2>1. newRandom = {} /\ newOf("INPUT") = {n} /\ newOf("OUTPUT") = {}
    BY <1>9, <1>12, Zenon DEF newRandom, newOf
  <2>2. /\ RandomIds(d, n + k) = RandomIds(b, n) /\ IdsOf(d, n + k, "INPUT") = IdsOf(b, n, "INPUT") \cup {n}
        /\ IdsOf(d, n + k, "OUTPUT") = IdsOf(b, n, "OUTPUT")
    BY <1>3, <2>1
  <2>3. /\ Used(d, c, "poly") = Used(b, c, "poly") /\ Used(d, c, "randomness") = Used(b, c, "randomness")
        /\ Used(d, c, "secret") = Used(b, c, "secret") \cup {x} /\ UsedShares(d, c) = UsedShares(b, c)
    BY <1>4, <1>12
  <2>4. /\ Cardinality(RandomIds(d, n + k)) = (T * polys + randoms)
        /\ Cardinality(IdsOf(d, n + k, "INPUT")) = (secrets + given) + 1
    BY <1>8, <1>11, <2>2, Zenon
  <2>5. /\ Cardinality(Used(d, c, "poly")) = polys /\ Cardinality(Used(d, c, "randomness")) = randoms
        /\ Cardinality(Used(d, c, "secret")) = secrets + 1 /\ Cardinality(UsedShares(d, c)) = given
    BY <1>11, <2>3, Zenon DEF polys, randoms, secrets, given
  <2>6. /\ (T * polys + randoms) + 1 = T * polys + (randoms + 1)
        /\ (secrets + given) + 1 = (secrets + 1) + given /\ (secrets + given) + 1 = secrets + (given + 1)
    BY <1>11
  <2> QED BY <2>2, <2>4, <2>5, <2>6, Zenon
<1>13. CASE c.exprs[x].kind = "randomness" /\ k = 1 /\ d.inE[n + 1] = {} /\ d.nodes[n + 1].type = "OTHERS"
  <2>1. newRandom = {n} /\ newOf("INPUT") = {} /\ newOf("OUTPUT") = {}
    BY <1>9, <1>13, Zenon DEF newRandom, newOf
  <2>2. /\ RandomIds(d, n + k) = RandomIds(b, n) \cup {n} /\ IdsOf(d, n + k, "INPUT") = IdsOf(b, n, "INPUT")
        /\ IdsOf(d, n + k, "OUTPUT") = IdsOf(b, n, "OUTPUT")
    BY <1>3, <2>1
  <2>3. /\ Used(d, c, "poly") = Used(b, c, "poly") /\ Used(d, c, "randomness") = Used(b, c, "randomness") \cup {x}
        /\ Used(d, c, "secret") = Used(b, c, "secret") /\ UsedShares(d, c) = UsedShares(b, c)
    BY <1>4, <1>13
  <2>4. /\ Cardinality(RandomIds(d, n + k)) = (T * polys + randoms) + 1
        /\ Cardinality(IdsOf(d, n + k, "INPUT")) = (secrets + given)
    BY <1>8, <1>11, <2>2, Zenon
  <2>5. /\ Cardinality(Used(d, c, "poly")) = polys /\ Cardinality(Used(d, c, "randomness")) = randoms + 1
        /\ Cardinality(Used(d, c, "secret")) = secrets /\ Cardinality(UsedShares(d, c)) = given
    BY <1>11, <2>3, Zenon DEF polys, randoms, secrets, given
  <2>6. /\ (T * polys + randoms) + 1 = T * polys + (randoms + 1)
        /\ (secrets + given) + 1 = (secrets + 1) + given /\ (secrets + given) + 1 = secrets + (given + 1)
    BY <1>11
  <2> QED BY <2>2, <2>4, <2>5, <2>6, Zenon
<1>14. CASE /\ c.exprs[x].kind = "share" /\ c.exprs[x].op = "INPUT"
            /\ k = 1 /\ d.inE[n + 1] = {} /\ d.nodes[n + 1].type = "INPUT"
  <2>1. newRandom = {} /\ newOf("INPUT") = {n} /\ newOf("OUTPUT") = {}
    BY <1>9, <1>14, Zenon DEF newRandom, newOf
  <2>2. /\ RandomIds(d, n + k) = RandomIds(b, n) /\ IdsOf(d, n + k, "INPUT") = IdsOf(b, n, "INPUT") \cup {n}
        /\ IdsOf(d, n + k, "OUTPUT") = IdsOf(b, n, "OUTPUT")
    BY <1>3, <2>1
  <2>3. /\ Used(d, c, "poly") = Used(b, c, "poly") /\ Used(d, c, "randomness") = Used(b, c, "randomness")
        /\ Used(d, c, "secret") = Used(b, c, "secret") /\ UsedShares(d, c) = UsedShares(b, c) \cup {x}
    BY <1>4, <1>14
  <2>4. /\ Cardinality(RandomIds(d, n + k)) = (T * polys + randoms)
        /\ Cardinality(IdsOf(d, n + k, "INPUT")) = (secrets + given) + 1
    BY <1>8, <1>11, <2>2, Zenon
  <2>5. /\ Cardinality(Used(d, c, "poly")) = polys /\ Cardinality(Used(d, c, "randomness")) = randoms
        /\ Cardinality(Used(d, c, "secret")) = secrets /\ Cardinality(UsedShares(d, c)) = given + 1
    BY <1>11, <2>3, Zenon DEF polys, randoms, secrets, given
  <2>6. /\ (T * polys + randoms) + 1 = T * polys + (randoms + 1)
        /\ (secrets + given) + 1 = (secrets + 1) + given /\ (secrets + given) + 1 = secrets + (given + 1)
    BY <1>11
  <2> QED BY <2>2, <2>4, <2>5, <2>6, Zenon
<1>15. CASE /\ c.exprs[x].kind = "share" /\ c.exprs[x].op # "INPUT"
            /\ k = 1 /\ d.inE[n + 1] # {} /\ d.nodes[n + 1].type = "OTHERS"
  <2>1. newRandom = {} /\ newOf("INPUT") = {} /\ newOf("OUTPUT") = {}
    BY <1>9, <1>15, Zenon DEF newRandom, newOf
  <2>2. /\ RandomIds(d, n + k) = RandomIds(b, n) /\ IdsOf(d, n + k, "INPUT") = IdsOf(b, n, "INPUT")
        /\ IdsOf(d, n + k, "OUTPUT") = IdsOf(b, n, "OUTPUT")
    BY <1>3, <2>1
  <2>3. /\ Used(d, c, "poly") = Used(b, c, "poly") /\ Used(d, c, "randomness") = Used(b, c, "randomness")
        /\ Used(d, c, "secret") = Used(b, c, "secret") /\ UsedShares(d, c) = UsedShares(b, c)
    BY <1>4, <1>15
  <2> QED BY <1>5, <2>2, <2>3
<1>16. CASE /\ c.exprs[x].kind = "poly" /\ k = T
            /\ \A i \in n + 1 .. n + T : d.inE[i] = {} /\ d.nodes[i].type = "OTHERS"
  <2>1. \A m \in n .. n + k - 1 : d.inE[m + 1] = {} /\ d.nodes[m + 1].type = "OTHERS"
    BY <1>1, <1>10, <1>16
  <2>2. newRandom = n .. n + k - 1 /\ newOf("INPUT") = {} /\ newOf("OUTPUT") = {}
    BY <2>1, Zenon DEF newRandom, newOf
  <2>3. /\ RandomIds(d, n + k) = RandomIds(b, n) \cup (n .. n + k - 1)
        /\ IdsOf(d, n + k, "INPUT") = IdsOf(b, n, "INPUT")
        /\ IdsOf(d, n + k, "OUTPUT") = IdsOf(b, n, "OUTPUT")
    BY <1>3, <2>2
  <2>4. /\ Used(d, c, "poly") = Used(b, c, "poly") \cup {x} /\ Used(d, c, "randomness") = Used(b, c, "randomness")
        /\ Used(d, c, "secret") = Used(b, c, "secret") /\ UsedShares(d, c) = UsedShares(b, c)
    BY <1>4, <1>16
  <2>5. Cardinality(RandomIds(d, n + k)) = Cardinality(RandomIds(b, n)) + T
    <3>1. IsFiniteSet(n .. n + k - 1) /\ Cardinality(n .. n + k - 1) = T
      <4>1. n \in Int /\ n + k - 1 \in Int
        BY <1>1
      <4>2. /\ IsFiniteSet(n .. n + k - 1)
            /\ Cardinality(n .. n + k - 1) = IF n > n + k - 1 THEN 0 ELSE (n + k - 1) - n + 1
        BY <4>1, FS_Interval
      <4>3. (IF n > n + k - 1 THEN 0 ELSE (n + k - 1) - n + 1) = k
        BY <1>1
      <4> QED BY <1>16, <4>2, <4>3
    <3>2. RandomIds(b, n) \cap (n .. n + k - 1) = {}
      BY <1>1 DEF RandomIds
    <3> QED BY <1>2, <2>3, <3>1, <3>2, CountAdded
  <2>6. Cardinality(Used(d, c, "poly")) = Cardinality(Used(b, c, "poly")) + 1
    BY <1>7, <2>4
  <2>7. T * (Cardinality(Used(b, c, "poly")) + 1) = T * Cardinality(Used(b, c, "poly")) + T
    BY <1>7, <1>10
  <2>8. T * Cardinality(Used(b, c, "poly")) \in Nat
    BY <1>7, <1>10
  <2> QED BY <1>5, <1>7, <1>10, <2>3, <2>4, <2>5, <2>6, <2>7, <2>8
<1> HIDE DEF Kept
<1> QED BY <1>12, <1>13, <1>14, <1>15, <1>16

\* Once the map and the numbers are right, everything is.
LEMMA ImportsWhen ==
    ASSUME NEW b, NEW c, NEW n, NEW x, Ready(b, c, n, x), NEW d, NEW k \in Nat, Makes(b, d, n, k, x),
           MapFits(d, c, n + k), CountsNodes(d, c, n + k), IdsOf(d, n + k, "OUTPUT") = IdsOf(b, n, "OUTPUT"),
           NewSays(b, d, c, n, k, x)
    PROVE  Imports(b, c, n, x, d)
<1>1. SaysProgram(d, c, n + k)
  <2>1. n \in Nat /\ MapFits(b, c, n) /\ SaysProgram(b, c, n) /\ x \notin DOMAIN b.map
    BY ReadyFacts DEF Ready
  <2> QED BY <2>1, SaysStays
<1>2. BuilderFits(d, c, n + k)
  BY <1>1 DEF BuilderFits, Makes
<1> QED BY <1>2 DEF Imports

LEMMA ImportInputFits ==
    ASSUME NEW b, NEW c, NEW n, NEW x, Ready(b, c, n, x), c.exprs[x].op = "INPUT"
    PROVE  Imports(b, c, n, x, Import(b, c, x, T))
<1> DEFINE e == c.exprs[x]
           type == IF e.kind = "randomness" THEN "OTHERS" ELSE "INPUT"
           a == NewNode(b, e.party, type)
           d == Known(a, x, n, <<>>)
<1>1. /\ n \in Nat /\ Len(b.nodes) = n /\ Lists(b, n) /\ MapFits(b, c, n) /\ Fits(c, e, x) /\ e \in Expr
      /\ e.party \in 1 .. PartyCnt
      /\ \A y \in DOMAIN b.map : c.exprs[y].op = "RECONSTRUCT" => c.exprs[y].kind # "poly"
  BY ReadyFacts
<1>2. x \in 1 .. Created(c) /\ x \notin DOMAIN b.map /\ e.kind # "constant"
  BY DEF Ready
<1>3. e.kind \in {"secret", "randomness", "share"} /\ e.kind # "poly" /\ e.op # "RECONSTRUCT"
  BY <1>1, <1>2 DEF Fits, Expr, Kinds
<1>4. Import(b, c, x, T) = d
  BY <1>1, <1>2 DEF Import, ImportInput, NextId
<1>5. type \in NodeGenre
  BY DEF NodeGenre
<1> HIDE DEF type
<1>6. /\ Lists(a, n + 1) /\ a.map = b.map /\ a.build = b.build
      /\ \A i \in 1 .. n : a.nodes[i] = b.nodes[i] /\ a.inE[i] = b.inE[i]
      /\ a.nodes[n + 1] = [party |-> e.party, type |-> type] /\ a.inE[n + 1] = {}
  BY <1>1, <1>5, NewNodeLists DEF OneMoreNode
<1> HIDE DEF a
<1>7. Makes(b, d, n, 1, x) /\ d.nodes = a.nodes /\ d.inE = a.inE /\ d.map[x].node = n
  <2>1. Extends(b, a, n, 1)
    BY <1>6 DEF Extends
  <2>2. Registers(b, a, d, n, 1, x, n, <<>>)
    BY <1>1, <1>2, <2>1, KnownMakes
  <2> QED BY <2>2 DEF Registers
<1> HIDE DEF d
<1>8. d.nodes[n + 1].type = type /\ d.nodes[n + 1].party = e.party /\ d.inE[n + 1] = {}
  BY <1>6, <1>7
<1>9. MapFits(d, c, n + 1)
  <2>1. \A i \in n + 1 .. n + 1 : d.nodes[i].type = "INPUT" => d.inE[i] = {}
    BY <1>1, <1>8
  <2> HIDE DEF e
  <2> QED BY <1>1, <1>2, <1>3, <1>7, <1>8, <2>1, MapStaysFit DEF e
<1>10. CountsNodes(d, c, n + 1) /\ IdsOf(d, n + 1, "OUTPUT") = IdsOf(b, n, "OUTPUT")
  <2>1. CASE e.kind = "secret"
    <3>1. d.nodes[n + 1].type = "INPUT"
      BY <1>8, <2>1 DEF type
    <3> QED BY <1>7, <1>8, <2>1, <3>1, CountsStayFit
  <2>2. CASE e.kind = "randomness"
    <3>1. d.nodes[n + 1].type = "OTHERS"
      BY <1>8, <2>2 DEF type
    <3> QED BY <1>7, <1>8, <2>2, <3>1, CountsStayFit
  <2>3. CASE e.kind = "share"
    <3>1. d.nodes[n + 1].type = "INPUT"
      BY <1>8, <2>3 DEF type
    <3> QED BY <1>7, <1>8, <2>3, <3>1, CountsStayFit
  <2> QED BY <1>3, <2>1, <2>2, <2>3
<1>11. NewSays(b, d, c, n, 1, x)
  BY <1>3, <1>7, <1>8 DEF NewSays
<1> QED BY <1>4, <1>7, <1>9, <1>10, <1>11, ImportsWhen

\* An operation: its inputs are nodes, and as many as its operator asks for.
LEMMA OperationFits ==
    ASSUME NEW b, NEW c, NEW n, NEW x, Ready(b, c, n, x), NEW op \in Operator, NEW ins \in Seq(0 .. n - 1),
           c.exprs[x].kind = "share", c.exprs[x].op # "INPUT", Shaped(Made(n + 1, op, ins)),
           op = "RECONSTRUCT" => OnePlace(b, Made(n + 1, op, ins)),
           OperationOf(b, c, x, Made(n + 1, op, ins))
    PROVE  Imports(b, c, n, x,
                   Known(NewOperation(NewNode(b, c.exprs[x].party, "OTHERS"), op, ins), x, n, <<>>))
<1> DEFINE e == c.exprs[x]
           a == NewNode(b, e.party, "OTHERS")
           f == NewOperation(a, op, ins)
           d == Known(f, x, n, <<>>)
<1>1. /\ n \in Nat /\ Len(b.nodes) = n /\ Lists(b, n) /\ MapFits(b, c, n) /\ Fits(c, e, x) /\ e \in Expr
      /\ e.party \in 1 .. PartyCnt
      /\ \A y \in DOMAIN b.map : c.exprs[y].op = "RECONSTRUCT" => c.exprs[y].kind # "poly"
  BY ReadyFacts
<1>2. x \in 1 .. Created(c) /\ x \notin DOMAIN b.map /\ e.kind = "share" /\ e.kind # "constant" /\ e.kind # "poly"
  BY DEF Ready
<1>3. "OTHERS" \in NodeGenre
  BY DEF NodeGenre
<1>4. /\ Lists(a, n + 1) /\ a.map = b.map /\ a.build = b.build
      /\ \A i \in 1 .. n : a.nodes[i] = b.nodes[i] /\ a.inE[i] = b.inE[i]
      /\ a.nodes[n + 1] = [party |-> e.party, type |-> "OTHERS"] /\ a.inE[n + 1] = {}
  <2>1. OneMoreNode(b, a, n, [party |-> e.party, type |-> "OTHERS"])
    BY <1>1, <1>3, NewNodeLists, Zenon
  <2> HIDE DEF a, e
  <2> QED BY <2>1 DEF OneMoreNode
<1> HIDE DEF a
<1>5. n + 1 \in Nat \ {0} /\ (n + 1) - 2 = n - 1 /\ (n + 1) - 1 = n
  BY <1>1
<1>6. /\ Lists(f, n + 1) /\ f.nodes = a.nodes /\ f.map = a.map /\ f.build = a.build
      /\ \A i \in 1 .. n : f.inE[i] = a.inE[i]
      /\ f.inE[n + 1] = a.inE[n + 1] \cup {Made(n + 1, op, ins)}
  <2>1. ins \in Seq(0 .. (n + 1) - 2)
    BY <1>5
  <2>2. ASSUME op = "RECONSTRUCT" PROVE OnePlace(a, Made(n + 1, op, ins))
    <3>1. \A m \in SrcsOf(Made(n + 1, op, ins)) : m \in 0 .. n - 1
      BY SourcesIn
    <3>2. \A i \in 1 .. n : a.nodes[i].party = b.nodes[i].party
      BY <1>4
    <3>3. OnePlace(b, Made(n + 1, op, ins))
      BY <2>2
    <3>4. n \in Nat
      BY <1>1
    <3> DEFINE made == Made(n + 1, op, ins)
    <3> HIDE DEF made
    <3>5. /\ \A m \in SrcsOf(made) : m \in 0 .. n - 1
          /\ OnePlace(b, made)
      BY <3>1, <3>3 DEF made
    <3>6. OnePlace(a, made)
      BY <3>2, <3>4, <3>5, PlaceStays, Zenon
    <3> QED BY <3>6 DEF made
  <2>3. /\ Lists(f, n + 1) /\ f.nodes = a.nodes /\ f.map = a.map /\ f.build = a.build
        /\ \A i \in 1 .. (n + 1) - 1 : f.inE[i] = a.inE[i]
        /\ f.inE[n + 1] = a.inE[n + 1] \cup {Made(n + 1, op, ins)}
    BY <1>4, <1>5, <2>1, <2>2, NewOperationLists
  <2> QED BY <1>5, <2>3
<1> HIDE DEF f
<1>7. Makes(b, d, n, 1, x) /\ d.nodes = f.nodes /\ d.inE = f.inE /\ d.map[x].node = n
  <2>1. \A i \in 1 .. n : f.nodes[i] = b.nodes[i] /\ f.inE[i] = b.inE[i]
    BY <1>4, <1>6, Zenon
  <2>2. Extends(b, f, n, 1)
    BY <1>4, <1>6, <2>1 DEF Extends
  <2>3. Registers(b, f, d, n, 1, x, n, <<>>)
    BY <1>1, <1>2, <2>2, KnownMakes
  <2> QED BY <2>3 DEF Registers
<1> HIDE DEF d
<1>8. d.nodes[n + 1].type = "OTHERS" /\ d.nodes[n + 1].party = e.party /\ d.inE[n + 1] # {}
  <2>1. d.nodes[n + 1] = a.nodes[n + 1] /\ Made(n + 1, op, ins) \in d.inE[n + 1]
    BY <1>6, <1>7, Zenon
  <2> QED BY <1>4, <2>1
<1>9. MapFits(d, c, n + 1)
  <2>1. \A i \in n + 1 .. n + 1 : d.nodes[i].type = "INPUT" => d.inE[i] = {}
    BY <1>1, <1>8
  <2> HIDE DEF e
  <2> QED BY <1>1, <1>2, <1>7, <1>8, <2>1, MapStaysFit DEF e
<1>10. CountsNodes(d, c, n + 1) /\ IdsOf(d, n + 1, "OUTPUT") = IdsOf(b, n, "OUTPUT")
  BY <1>2, <1>7, <1>8, CountsStayFit
<1>11. NewSays(b, d, c, n, 1, x)
  <2>1. \A g \in d.inE[n + 1] : g = Made(n + 1, op, ins)
    BY <1>4, <1>6, <1>7
  <2> QED BY <1>2, <1>7, <2>1 DEF NewSays
<1>12. Imports(b, c, n, x, d)
  BY <1>7, <1>9, <1>10, <1>11, ImportsWhen
<1> QED BY <1>12 DEF d, f, a, e

\* The operands that importFrontend has asked for are nodes now.
LEMMA OperandsReady ==
    ASSUME NEW b, NEW c, NEW n, NEW x, Ready(b, c, n, x), c.exprs[x].op # "EVAL"
    PROVE  /\ c.exprs[x].args \in Seq(Nat) /\ Operands(b, c, x, 0 .. n - 1)
           /\ \A i \in DOMAIN c.exprs[x].args :
                 c.exprs[c.exprs[x].args[i]].kind # "constant" => c.exprs[x].args[i] \in DOMAIN b.map
           /\ c.exprs[x].op = "RECONSTRUCT" =>
                Operands(b, c, x, {m \in 0 .. n - 1 : b.nodes[m + 1].party = c.exprs[c.exprs[x].args[1]].party})
<1> DEFINE e == c.exprs[x]
<1>1. /\ MapFits(b, c, n) /\ Fits(c, e, x) /\ e \in Expr /\ x \in 1 .. Created(c) /\ e.kind # "constant"
  BY ReadyFacts DEF Ready
<1>2. e.args \in Seq(Nat)
  BY <1>1 DEF Expr
<1>3. ASSUME NEW i \in DOMAIN e.args, c.exprs[e.args[i]].kind # "constant"
      PROVE  LET m == b.map[e.args[i]].node
             IN m \in 0 .. n - 1 /\ b.nodes[m + 1].party = c.exprs[e.args[i]].party
  <2>1. e.args[i] \in DOMAIN b.map
    BY <1>3 DEF Ready, Unknown
  <2>2. c.exprs[e.args[i]].kind # "poly"
    <3>1. e.op \in Operators
      BY <1>1 DEF Expr
    <3>2. HasNode(c, e.args[i])
      <4>1. DOMAIN e.args = 1 .. Len(e.args)
        BY <1>2
      <4>2. e.op # "INPUT"
        BY <1>1, <1>3 DEF Fits
      <4>3. CASE e.op \in {"POLILIZE", "TRANSIT"}
        <5>1. i = 1
          BY <1>1, <4>1, <4>3 DEF Fits
        <5> QED BY <1>1, <4>3, <5>1 DEF Fits
      <4>4. CASE e.op \in {"ADD", "MUL"}
        <5>1. i = 1 \/ i = 2
          BY <1>1, <4>1, <4>4 DEF Fits
        <5> QED BY <1>1, <4>4, <5>1 DEF Fits
      <4>5. CASE e.op = "SCALARMUL"
        <5>1. i = 1 \/ i = 2
          BY <1>1, <4>1, <4>5 DEF Fits
        <5> QED BY <1>1, <1>3, <4>5, <5>1 DEF Fits
      <4>6. CASE e.op = "RECONSTRUCT"
        BY <1>1, <4>6 DEF Fits
      <4> QED BY <3>1, <4>2, <4>3, <4>4, <4>5, <4>6 DEF Operators
    <3> QED BY <3>2 DEF HasNode
  <2> QED BY <1>1, <2>1, <2>2 DEF MapFits
<1>4. Operands(b, c, x, 0 .. n - 1)
  BY <1>3 DEF Operands
<1>5. ASSUME e.op = "RECONSTRUCT"
      PROVE  Operands(b, c, x, {m \in 0 .. n - 1 : b.nodes[m + 1].party = c.exprs[e.args[1]].party})
  <2>1. Together(c, e.args)
    BY <1>1, <1>5 DEF Fits
  <2>2. ASSUME NEW i \in DOMAIN e.args PROVE c.exprs[e.args[i]].party = c.exprs[e.args[1]].party
    <3>1. 1 \in DOMAIN e.args
      BY <1>2
    <3> QED BY <2>1, <3>1 DEF Together
  <2> QED BY <1>3, <2>2 DEF Operands
<1>6. \A i \in DOMAIN e.args : c.exprs[e.args[i]].kind # "constant" => e.args[i] \in DOMAIN b.map
  BY DEF Ready, Unknown
<1> QED BY <1>2, <1>4, <1>5, <1>6

LEMMA ImportOperationFits ==
    ASSUME NEW b, NEW c, NEW n, NEW x, Ready(b, c, n, x),
           c.exprs[x].op \in {"TRANSIT", "ADD", "MUL", "SCALARMUL", "RECONSTRUCT"}
    PROVE  Imports(b, c, n, x, Import(b, c, x, T))
<1> DEFINE e == c.exprs[x]
           ins == OperandNodes(b, c, x)
<1>1. /\ n \in Nat /\ Len(b.nodes) = n /\ Fits(c, e, x) /\ e \in Expr /\ x \notin DOMAIN b.map
      /\ e.kind # "constant"
  BY ReadyFacts DEF Ready
<1>2. e.op \notin {"INPUT", "EVAL", "POLILIZE"} /\ e.op \in Operator
  BY DEF Operator
<1>3. e.kind = "share"
  BY <1>1, <1>2 DEF Fits, Expr, Kinds
<1>4. Import(b, c, x, T) = Known(NewOperation(NewNode(b, e.party, "OTHERS"), e.op, ins), x, n, <<>>)
  BY <1>1, <1>2 DEF Import, ImportOperation, NextId
<1>a. e.args \in Seq(Nat) /\ Operands(b, c, x, 0 .. n - 1)
  BY <1>2, OperandsReady
<1>b. ins \in Seq(0 .. n - 1) /\ \A m : Leading(c, x, m) => AreNodes(b, c, x, m, ins)
  BY <1>a, OperandNodesAre
<1>5. ins \in Seq(0 .. n - 1) /\ (NoConstants(c, x) => Len(ins) = Len(e.args))
  <2> HIDE DEF ins
  <2> QED BY <1>a, <1>b, AllLead DEF AreNodes
<1>6. ASSUME e.op = "RECONSTRUCT" PROVE OnePlace(b, Made(n + 1, e.op, ins))
  <2> DEFINE W == {m \in 0 .. n - 1 : b.nodes[m + 1].party = c.exprs[e.args[1]].party}
  <2>1. e.args \in Seq(Nat) /\ Operands(b, c, x, W)
    BY <1>2, <1>6, OperandsReady
  <2>2. ins \in Seq(W)
    <3> HIDE DEF W
    <3> QED BY <2>1, OperandNodesAre
  <2>3. \A m \in W : b.nodes[m + 1].party = c.exprs[e.args[1]].party
    OBVIOUS
  <2> HIDE DEF W, ins
  <2>4. SrcsOf(Made(n + 1, e.op, ins)) \subseteq W
    BY <2>2, SourcesIn
  <2> QED BY <2>3, <2>4 DEF OnePlace
<1> HIDE DEF ins
<1>7. Shaped(Made(n + 1, e.op, ins))
  <2>1. e.op \in {"TRANSIT", "ADD", "MUL", "RECONSTRUCT"} => NoConstants(c, x)
    <3>1. DOMAIN e.args = 1 .. Len(e.args)
      BY <1>1 DEF Expr
    <3>2. ASSUME NEW i \in DOMAIN e.args, e.op \in {"TRANSIT", "ADD", "MUL", "RECONSTRUCT"}
          PROVE  HasNode(c, e.args[i])
      <4>1. CASE e.op = "TRANSIT"
        <5>1. i = 1
          BY <1>1, <3>1, <4>1 DEF Fits
        <5> QED BY <1>1, <4>1, <5>1 DEF Fits
      <4>2. CASE e.op \in {"ADD", "MUL"}
        <5>1. i = 1 \/ i = 2
          BY <1>1, <3>1, <4>2 DEF Fits
        <5> QED BY <1>1, <4>2, <5>1 DEF Fits
      <4>3. CASE e.op = "RECONSTRUCT"
        BY <1>1, <4>3 DEF Fits
      <4> QED BY <3>2, <4>1, <4>2, <4>3
    <3> QED BY <3>2 DEF NoConstants, HasNode
  <2>2. e.op = "TRANSIT" => Len(ins) = 1
    BY <1>1, <1>5, <2>1 DEF Fits
  <2>3. e.op \in {"ADD", "MUL"} => Len(ins) = 2
    BY <1>1, <1>5, <2>1 DEF Fits
  <2>4. e.op = "RECONSTRUCT" => Len(ins) = PartyCnt
    BY <1>1, <1>5, <2>1 DEF Fits
  <2>5. Made(n + 1, e.op, ins).op = e.op /\ Made(n + 1, e.op, ins).ins = ins
    BY DEF Made
  <2> QED BY <1>2, <2>2, <2>3, <2>4, <2>5 DEF Shaped
<1>8. OperationOf(b, c, x, Made(n + 1, e.op, ins))
  <2>1. ASSUME NEW m, Leading(c, x, m) PROVE \A i \in 1 .. m : e.args[i] \in DOMAIN b.map
    <3>1. /\ m \in 0 .. Len(e.args) /\ DOMAIN e.args = 1 .. Len(e.args)
          /\ \A i \in 1 .. Len(e.args) : c.exprs[e.args[i]].kind = "constant" <=> i > m
      BY <1>a, <2>1 DEF Leading
    <3>2. \A i \in 1 .. m : i \in 1 .. Len(e.args) /\ ~(i > m)
      BY <1>a, <3>1
    <3> QED BY <1>2, <3>1, <3>2, OperandsReady
  <2>2. Made(n + 1, e.op, ins).op = e.op /\ Made(n + 1, e.op, ins).ins = ins
    BY DEF Made
  <2>3. TakesOperands(b, c, x, ins)
    BY <1>b, <2>1 DEF TakesOperands
  <2> QED BY <1>2, <2>2, <2>3 DEF OperationOf
<1> QED BY <1>2, <1>3, <1>4, <1>5, <1>7, <1>6, <1>8, OperationFits

LEMMA ImportEvalFits ==
    ASSUME NEW b, NEW c, NEW n, NEW x, Ready(b, c, n, x), c.exprs[x].op = "EVAL"
    PROVE  Imports(b, c, n, x, Import(b, c, x, T))
<1> DEFINE e == c.exprs[x]
           ins == b.map[e.args[1]].inputs
<1>1. /\ n \in Nat /\ Len(b.nodes) = n /\ MapFits(b, c, n) /\ Fits(c, e, x) /\ e \in Expr
      /\ x \notin DOMAIN b.map /\ e.kind # "constant" /\ Unknown(b, c, x) = {}
  BY ReadyFacts DEF Ready
<1>2. e.kind = "share" /\ "EVAL" \in Operator
  BY <1>1 DEF Fits, Expr, Kinds, Operator
<1>3. Import(b, c, x, T) = Known(NewOperation(NewNode(b, e.party, "OTHERS"), "EVAL", ins), x, n, <<>>)
  BY <1>1 DEF Import, ImportEval, NextId
<1>4. ins \in Seq(0 .. n - 1) /\ OneByOne(ins) /\ TakesPolynomial(b, c, x, ins)
  <2>1. Len(e.args) = 1 /\ c.exprs[e.args[1]].kind = "poly" /\ 1 \in DOMAIN e.args
    BY <1>1 DEF Fits, Expr
  <2>2. e.args[1] \in DOMAIN b.map
    BY <1>1, <2>1 DEF Unknown
  <2> QED BY <1>1, <2>1, <2>2 DEF MapFits, TakesPolynomial
<1>5. Shaped(Made(n + 1, "EVAL", ins)) /\ OperationOf(b, c, x, Made(n + 1, "EVAL", ins))
  <2> HIDE DEF ins
  <2> QED BY <1>4 DEF Shaped, Made, OperationOf
<1> HIDE DEF ins
<1> QED BY <1>2, <1>3, <1>4, <1>5, OperationFits

LEMMA Wider == ASSUME NEW A, NEW B, A \subseteq B, NEW s \in Seq(A) PROVE s \in Seq(B)
OBVIOUS

\* A constant term among the nodes there are, and new coefficients.
LEMMA TermAndCoefficients ==
    ASSUME NEW n \in Nat, NEW k \in Nat, NEW s \in Seq(0 .. n - 1), Len(s) = 1
    PROVE  LET u == Concat(s, [i \in 1 .. k |-> n + i - 1])
           IN /\ OneByOne(u) /\ Len(u) = k + 1 /\ u[1] = s[1]
              /\ \A i \in 2 .. k + 1 : u[i] \in n .. n + k - 1
<1> DEFINE t == [i \in 1 .. k |-> n + i - 1]
           u == Concat(s, t)
<1>1. t \in Seq(Nat) /\ Len(t) = k /\ \A i \in 1 .. k : t[i] = n + i - 1
  <2>1. \A i \in 1 .. k : n + i - 1 \in Nat
    OBVIOUS
  <2> QED BY <2>1
<1>2. s \in Seq(Nat) /\ s[1] \in 0 .. n - 1
  <2>1. 0 .. n - 1 \subseteq Nat /\ 1 \in 1 .. Len(s)
    OBVIOUS
  <2>2. s \in Seq(Nat)
    BY <2>1, Wider
  <2> QED BY <2>1, <2>2
<1> HIDE DEF t
<1>3. u \in Seq(Nat) /\ Follows(s, t, u, Len(s), Len(t))
  BY <1>1, <1>2, Concatenated
<1> HIDE DEF u
<1>4. /\ DOMAIN u = 1 .. 1 + k /\ u[1] = s[1]
      /\ \A i \in 2 .. 1 + k : u[i] = t[i - 1]
  BY <1>1, <1>3 DEF Follows
<1>5. \A i \in 2 .. 1 + k : u[i] = n + i - 2
  <2> SUFFICES ASSUME NEW i \in 2 .. 1 + k PROVE u[i] = n + i - 2
    OBVIOUS
  <2>1. i - 1 \in 1 .. k
    OBVIOUS
  <2>2. t[i - 1] = n + (i - 1) - 1
    BY <1>1, <2>1
  <2> QED BY <1>4, <2>2
<1>6. ASSUME NEW i \in 1 .. 1 + k, NEW j \in 1 .. 1 + k, u[i] = u[j] PROVE i = j
  <2>1. (i = 1 \/ i \in 2 .. 1 + k) /\ (j = 1 \/ j \in 2 .. 1 + k)
    OBVIOUS
  <2>2. u[1] \in 0 .. n - 1
    BY <1>2, <1>4
  <2> QED BY <1>5, <1>6, <2>1, <2>2
<1>7. OneByOne(u)
  BY <1>4, <1>6 DEF OneByOne
<1>8. Len(u) = k + 1 /\ u[1] = s[1]
  BY <1>1, <1>3, <1>4 DEF Follows
<1>9. ASSUME NEW i \in 2 .. k + 1 PROVE u[i] \in n .. n + k - 1
  <2>1. i \in 2 .. 1 + k
    OBVIOUS
  <2>2. u[i] = n + i - 2
    BY <1>5, <2>1
  <2> QED BY <2>2
<1> QED BY <1>7, <1>8, <1>9 DEF u, t

LEMMA ImportPolyFits ==
    ASSUME NEW b, NEW c, NEW n, NEW x, Ready(b, c, n, x), c.exprs[x].op = "POLILIZE"
    PROVE  Imports(b, c, n, x, Import(b, c, x, T))
<1> DEFINE e == c.exprs[x]
           a == CoefficientNodes(b, e.party, T)
           ins == Concat(OperandNodes(b, c, x), [i \in 1 .. T |-> n + i - 1])
           d == Known(a, x, -1, ins)
<1>1. /\ n \in Nat /\ Len(b.nodes) = n /\ Lists(b, n) /\ MapFits(b, c, n) /\ Fits(c, e, x) /\ e \in Expr
      /\ e.party \in 1 .. PartyCnt /\ x \notin DOMAIN b.map /\ e.kind # "constant" /\ x \in 1 .. Created(c)
      /\ \A y \in DOMAIN b.map : c.exprs[y].op = "RECONSTRUCT" => c.exprs[y].kind # "poly"
  BY ReadyFacts DEF Ready
<1>2. e.kind = "poly" /\ T \in Nat /\ e.op # "RECONSTRUCT"
  BY <1>1, FrontendAssumption DEF Fits
<1>3. Import(b, c, x, T) = d
  BY <1>1 DEF Import, ImportPoly, NextId, Concat
<1>4. ins \in Seq(0 .. (n + T) - 1)
  <2>1. OperandNodes(b, c, x) \in Seq(0 .. n - 1)
    BY <1>1, OperandsReady, OperandNodesAre
  <2>2. 0 .. n - 1 \subseteq 0 .. (n + T) - 1
    BY <1>1, <1>2
  <2>3. OperandNodes(b, c, x) \in Seq(0 .. (n + T) - 1)
    BY <2>1, <2>2, Wider
  <2>4. [i \in 1 .. T |-> n + i - 1] \in Seq(0 .. (n + T) - 1)
    <3>1. \A i \in 1 .. T : n + i - 1 \in 0 .. (n + T) - 1
      BY <1>1, <1>2
    <3> QED BY <1>2, <3>1
  <2> QED BY <2>3, <2>4, Concatenated
<1>5. /\ OneByOne(ins) /\ Len(ins) = T + 1 /\ ins[1] = b.map[e.args[1]].node
      /\ \A j \in 2 .. T + 1 : ins[j] \in n .. n + T - 1
      /\ e.args[1] \in DOMAIN b.map /\ c.exprs[e.args[1]].kind # "poly"
  <2>1. Len(e.args) = 1 /\ HasNode(c, e.args[1]) /\ DOMAIN e.args = 1 .. Len(e.args)
    BY <1>1 DEF Fits, Expr
  <2>2. NoConstants(c, x)
    BY <2>1 DEF NoConstants, HasNode
  <2>3. e.args \in Seq(Nat) /\ Operands(b, c, x, 0 .. n - 1) /\ e.args[1] \in DOMAIN b.map
    <3>1. /\ e.args \in Seq(Nat) /\ Operands(b, c, x, 0 .. n - 1)
          /\ \A i \in DOMAIN e.args : c.exprs[e.args[i]].kind # "constant" => e.args[i] \in DOMAIN b.map
      BY OperandsReady, Zenon
    <3>2. 1 \in DOMAIN e.args /\ c.exprs[e.args[1]].kind # "constant"
      BY <2>1 DEF HasNode
    <3> QED BY <3>1, <3>2, Zenon
  <2> DEFINE s == OperandNodes(b, c, x)
  <2>4. s \in Seq(0 .. n - 1) /\ AreNodes(b, c, x, 1, s)
    BY <2>1, <2>2, <2>3, AllLead, OperandNodesAre
  <2> HIDE DEF s
  <2>5. Len(s) = 1 /\ s[1] = b.map[e.args[1]].node
    BY <2>4 DEF AreNodes
  <2>6. LET u == Concat(s, [i \in 1 .. T |-> n + i - 1])
        IN /\ OneByOne(u) /\ Len(u) = T + 1 /\ u[1] = s[1]
           /\ \A i \in 2 .. T + 1 : u[i] \in n .. n + T - 1
    BY <1>1, <1>2, <2>4, <2>5, TermAndCoefficients
  <2> QED BY <2>1, <2>3, <2>5, <2>6 DEF s, HasNode
<1> HIDE DEF ins
<1>6. /\ Lists(a, n + T) /\ a.map = b.map /\ a.build = b.build
      /\ \A i \in 1 .. n : a.nodes[i] = b.nodes[i] /\ a.inE[i] = b.inE[i]
      /\ \A i \in n + 1 .. n + T : a.nodes[i] = [party |-> e.party, type |-> "OTHERS"] /\ a.inE[i] = {}
  BY <1>1, CoefficientLists
<1> HIDE DEF a
<1>7. Makes(b, d, n, T, x) /\ d.nodes = a.nodes /\ d.inE = a.inE /\ d.map[x].inputs = ins
  <2>1. Extends(b, a, n, T)
    BY <1>6 DEF Extends
  <2>2. Registers(b, a, d, n, T, x, -1, ins)
    BY <1>1, <1>2, <2>1, KnownMakes
  <2> QED BY <2>2 DEF Registers
<1> HIDE DEF d
<1>8. \A i \in n + 1 .. n + T : d.nodes[i].type = "OTHERS" /\ d.inE[i] = {}
  BY <1>6, <1>7
<1>9. MapFits(d, c, n + T)
  <2> HIDE DEF e
  <2> QED BY <1>1, <1>2, <1>4, <1>7, <1>8, <1>5, MapStaysFit DEF e
<1>10. CountsNodes(d, c, n + T) /\ IdsOf(d, n + T, "OUTPUT") = IdsOf(b, n, "OUTPUT")
  BY <1>2, <1>7, <1>8, CountsStayFit
<1>11. NewSays(b, d, c, n, T, x)
  <2> HIDE DEF e
  <2> QED BY <1>2, <1>5, <1>7, <1>8 DEF NewSays, e
<1> QED BY <1>2, <1>3, <1>7, <1>9, <1>10, <1>11, ImportsWhen

LEMMA ImportFits ==
    ASSUME NEW b, NEW c, NEW n, NEW x, Ready(b, c, n, x)
    PROVE  Imports(b, c, n, x, Import(b, c, x, T))
<1>1. c.exprs[x].op \in Operators
  BY ReadyFacts DEF Expr
<1> QED BY <1>1, ImportInputFits, ImportOperationFits, ImportEvalFits, ImportPolyFits DEF Operators

-----------------------------------------------------------------------------
(* build(): the loop over the outputs.                                     *)

LEMMA NothingYet ==
    ASSUME NEW b, b.nodes = <<>>, b.inE = <<>>, b.outE = <<>>
    PROVE  Lists(b, 0) /\ Len(b.nodes) = 0
<1>1. /\ \A S : <<>> \in Seq(S) 
      /\ Len(<<>>) = 0 /\ 0 \in Nat /\ \A i : i \notin 1 .. 0
  OBVIOUS
<1>2. Nodes(b, 0)
  BY <1>1 DEF Nodes
<1>3. InLists(b, 0)
  BY <1>1 DEF InLists
<1>4. OutLists(b, 0)
  BY <1>1 DEF OutLists
<1>5. Agree(b, 0)
  BY <1>1 DEF Agree
<1>6. Places(b, 0)
  BY <1>1 DEF Places
<1> QED BY <1>1, <1>2, <1>3, <1>4, <1>5, <1>6 DEF Lists

LEMMA NothingFits ==
    ASSUME NEW c
    PROVE  /\ BuilderFits(Cleared(NoMap, 1), c, 0) /\ Cleared(NoMap, 1).build = 1
           /\ Len(Cleared(NoMap, 1).nodes) = 0
           /\ IdsOf(Cleared(NoMap, 1), 0, "OUTPUT") = {}
<1> DEFINE b == Cleared(NoMap, 1)
<1>1. b.nodes = <<>> /\ b.inE = <<>> /\ b.outE = <<>> /\ b.map = <<>> /\ b.build = 1
  BY DEF Cleared, NoMap, GraphBaseBuilder
<1> HIDE DEF b
<1>2. DOMAIN b.map = {} /\ (\A i : i \notin 1 .. 0) /\ (\A m : m \notin 0 .. 0 - 1)
  BY <1>1
<1>3. Lists(b, 0) /\ Len(b.nodes) = 0
  BY <1>1, NothingYet
<1>4. MapFits(b, c, 0)
  BY <1>2 DEF MapFits
<1>5. RandomIds(b, 0) = {} /\ \A type : IdsOf(b, 0, type) = {}
  BY <1>2 DEF RandomIds, IdsOf
<1>6. UsedShares(b, c) = {} /\ \A kind : Used(b, c, kind) = {}
  BY <1>2 DEF UsedShares, Used
<1>7. Cardinality({}) = 0 /\ T * 0 + 0 = 0 /\ 0 + 0 = 0
  BY FS_EmptySet, FrontendAssumption
<1>8. CountsNodes(b, c, 0)
  BY <1>5, <1>6, <1>7 DEF CountsNodes
<1>9. SaysProgram(b, c, 0)
  BY <1>2 DEF SaysProgram, NodesOf, PolysOf
<1> QED BY <1>1, <1>3, <1>4, <1>5, <1>8, <1>9 DEF BuilderFits, b

\* What was imported stays, and there are no new outputs.
Still(b, d, n, k) ==
    /\ d.build = b.build /\ DOMAIN b.map \subseteq DOMAIN d.map
    /\ \A y \in DOMAIN b.map : d.map[y] = b.map[y]
    /\ IdsOf(d, n + k, "OUTPUT") = IdsOf(b, n, "OUTPUT")

LEMMA Returned ==
    ASSUME NEW b, NEW c, NEW n, NEW x \in 1 .. Created(c), Well(c), BuilderFits(b, c, n),
           c.exprs[x].kind # "constant", x \in DOMAIN b.map \/ Unknown(b, c, x) = {}
    PROVE  \E k \in Nat : /\ BuilderFits(Import(b, c, x, T), c, n + k)
                          /\ Still(b, Import(b, c, x, T), n, k) /\ x \in DOMAIN Import(b, c, x, T).map
<1>1. n \in Nat
  BY DEF BuilderFits, Lists
<1>2. CASE x \in DOMAIN b.map
  <2>1. Import(b, c, x, T) = b
    BY <1>2 DEF Import
  <2>2. n + 0 = n /\ 0 \in Nat
    BY <1>1
  <2>3. BuilderFits(b, c, n + 0) /\ Still(b, b, n, 0)
    BY <2>2 DEF Still
  <2> QED BY <1>2, <2>1, <2>2, <2>3
<1>3. CASE x \notin DOMAIN b.map
  <2>1. Ready(b, c, n, x)
    BY <1>3 DEF Ready
  <2>2. PICK k \in Nat : /\ Makes(b, Import(b, c, x, T), n, k, x)
                         /\ BuilderFits(Import(b, c, x, T), c, n + k)
                         /\ IdsOf(Import(b, c, x, T), n + k, "OUTPUT") = IdsOf(b, n, "OUTPUT")
    BY <2>1, ImportFits DEF Imports
  <2>3. Still(b, Import(b, c, x, T), n, k) /\ x \in DOMAIN Import(b, c, x, T).map
    BY <2>2 DEF Still, Makes
  <2> QED BY <2>2, <2>3
<1> QED BY <1>2, <1>3

\* An output is computed, so that it was neither an input nor random.
LEMMA MarkOutputFits ==
    ASSUME NEW d, NEW c, NEW n, BuilderFits(d, c, n), NEW x \in DOMAIN d.map,
           c.exprs[x].kind = "share", c.exprs[x].op = "RECONSTRUCT"
    PROVE  /\ BuilderFits(MarkOutput(d, x), c, n) /\ MarkOutput(d, x).map = d.map
           /\ MarkOutput(d, x).build = d.build
           /\ IdsOf(MarkOutput(d, x), n, "OUTPUT") = IdsOf(d, n, "OUTPUT") \cup {d.map[x].node}
<1> DEFINE m == MarkOutput(d, x)
           k == d.map[x].node
<1>1. /\ n \in Nat /\ Len(d.nodes) = n /\ d.nodes \in Seq(BuiltNode) /\ Lists(d, n) /\ MapFits(d, c, n)
      /\ CountsNodes(d, c, n) /\ SaysProgram(d, c, n)
  BY DEF BuilderFits, Lists, Nodes
<1>2. /\ d.map[x].build = d.build /\ k \in 0 .. n - 1 /\ d.inE[k + 1] # {}
      /\ \A i \in 1 .. n : d.nodes[i].type = "INPUT" => d.inE[i] = {}
  BY <1>1 DEF MapFits
<1> HIDE DEF k
<1>3. /\ m.inE = d.inE /\ m.outE = d.outE /\ m.map = d.map /\ m.build = d.build
      /\ m.nodes = [i \in DOMAIN d.nodes |->
                      IF i = k + 1 THEN [party |-> d.nodes[i].party, type |-> "OUTPUT"] ELSE d.nodes[i]]
  BY <1>2 DEF MarkOutput, GraphBaseBuilder, k
<1> HIDE DEF m
<1>4. DOMAIN d.nodes = 1 .. n /\ \A i \in 1 .. n : d.nodes[i] \in BuiltNode
  BY <1>1
<1>5. /\ \A i \in 1 .. n : i # k + 1 => m.nodes[i] = d.nodes[i]
      /\ m.nodes[k + 1].type = "OUTPUT" /\ m.nodes[k + 1] \in BuiltNode
      /\ k + 1 \in 1 .. n
  <2>1. k + 1 \in 1 .. n
    BY <1>1, <1>2
  <2>2. m.nodes[k + 1] = [party |-> d.nodes[k + 1].party, type |-> "OUTPUT"]
    BY <1>3, <1>4, <2>1
  <2>3. d.nodes[k + 1].party \in 1 .. PartyCnt
    BY <1>4, <2>1 DEF BuiltNode
  <2> QED BY <1>3, <1>4, <2>1, <2>2, <2>3 DEF BuiltNode, NodeGenre
<1>6. m.nodes \in Seq(BuiltNode) /\ Len(m.nodes) = n
  <2>1. DOMAIN m.nodes = 1 .. n /\ \A i \in 1 .. n : m.nodes[i] \in BuiltNode
    BY <1>3, <1>4, <1>5
  <2>2. m.nodes = [i \in 1 .. n |-> m.nodes[i]]
    BY <1>3, <1>4
  <2>3. m.nodes \in [1 .. n -> BuiltNode]
    BY <2>1, <2>2
  <2> QED BY <1>1, <2>3
<1>7. \A i \in 1 .. n : m.nodes[i].party = d.nodes[i].party
  BY <1>3, <1>4
<1>8. Lists(m, n)
  <2>1. Places(m, n)
    BY <1>1, <1>3, <1>7, PlacesStay
  <2> QED BY <1>1, <1>3, <1>6, <2>1 DEF Lists, Nodes, InLists, OutLists, Agree
<1>9. \A i \in 1 .. n : m.nodes[i].type = "INPUT" => m.inE[i] = {}
  BY <1>2, <1>3, <1>5
<1>10. MapFits(m, c, n)
  <2>1. ASSUME NEW y \in DOMAIN d.map, c.exprs[y].kind # "poly"
        PROVE  m.nodes[d.map[y].node + 1].party = c.exprs[y].party
    <3>1. d.map[y].node \in 0 .. n - 1 /\ d.nodes[d.map[y].node + 1].party = c.exprs[y].party
      BY <1>1, <2>1 DEF MapFits
    <3>2. d.map[y].node + 1 \in 1 .. n
      BY <1>1, <3>1
    <3> QED BY <1>7, <3>1, <3>2
  <2>2. /\ m.build = d.build /\ m.map = d.map /\ m.inE = d.inE
        /\ MapFits(d, c, n)
    BY <1>1, <1>3
  <2>3. \A y \in DOMAIN m.map : IF c.exprs[y].kind = "poly"
                                THEN m.map[y].inputs \in Seq(0 .. n - 1) /\ OneByOne(m.map[y].inputs)
                                ELSE /\ m.map[y].node \in 0 .. n - 1
                                     /\ m.nodes[m.map[y].node + 1].party = c.exprs[y].party
    BY <2>1, <2>2, Zenon DEF MapFits
  <2> QED BY <1>9, <2>2, <2>3 DEF MapFits
<1>11. \A j \in 0 .. n - 1 : j + 1 \in 1 .. n /\ (j + 1 = k + 1 <=> j = k)
  BY <1>1, <1>2
<1>12. RandomIds(m, n) = RandomIds(d, n)
  BY <1>2, <1>3, <1>5, <1>11, Zenon DEF RandomIds
<1>13. IdsOf(m, n, "INPUT") = IdsOf(d, n, "INPUT")
  <2>1. d.nodes[k + 1].type # "INPUT" /\ m.nodes[k + 1].type # "INPUT"
    BY <1>2, <1>5
  <2> QED BY <1>5, <1>11, <2>1, Zenon DEF IdsOf
<1>14. IdsOf(m, n, "OUTPUT") = IdsOf(d, n, "OUTPUT") \cup {k}
  BY <1>2, <1>5, <1>11, Zenon DEF IdsOf
<1>15. CountsNodes(m, c, n)
  <2>1. (\A kind : Used(m, c, kind) = Used(d, c, kind)) /\ UsedShares(m, c) = UsedShares(d, c)
    BY <1>3 DEF Used, UsedShares
  <2> QED BY <1>1, <1>12, <1>13, <2>1 DEF CountsNodes
<1>16. SaysProgram(m, c, n)
  <2>1. m.map = d.map /\ m.inE = d.inE /\ NodesOf(m, c) = NodesOf(d, c) /\ PolysOf(m, c) = PolysOf(d, c)
    BY <1>3 DEF NodesOf, PolysOf
  <2>2. \A y, e : OperationOf(d, c, y, e) => OperationOf(m, c, y, e)
    BY <2>1, OperationStays
  <2>3. \A y \in PolysOf(d, c) : TermFirst(m, c, y) /\ \A j \in 2 .. T + 1 : ItsOwn(m, c, y, m.map[y].inputs[j])
    BY <1>1, <2>1 DEF SaysProgram, TermFirst, ItsOwn
  <2> QED BY <1>1, <2>1, <2>2, <2>3 DEF SaysProgram
<1> QED BY <1>3, <1>8, <1>10, <1>14, <1>15, <1>16 DEF BuilderFits, m, k

\* The first p outputs have been imported, and their nodes are the outputs.
OutputsAre(b, outs, n, p) ==
    /\ \A i \in 1 .. p : outs[i].expr \in DOMAIN b.map
    /\ IdsOf(b, n, "OUTPUT") = {b.map[outs[i].expr].node : i \in 1 .. p}

LEMMA OutputsStill ==
    ASSUME NEW b, NEW d, NEW n, NEW k, NEW outs, NEW p, OutputsAre(b, outs, n, p), Still(b, d, n, k)
    PROVE  OutputsAre(d, outs, n + k, p)
<1>1. \A i \in 1 .. p : d.map[outs[i].expr] = b.map[outs[i].expr] /\ outs[i].expr \in DOMAIN d.map
  BY DEF OutputsAre, Still
<1>2. {d.map[outs[i].expr].node : i \in 1 .. p} = {b.map[outs[i].expr].node : i \in 1 .. p}
  BY <1>1
<1> QED BY <1>1, <1>2 DEF OutputsAre, Still

LEMMA OneMoreOutput ==
    ASSUME NEW d, NEW m, NEW outs, NEW n, NEW p \in Nat, OutputsAre(d, outs, n, p),
           outs[p + 1].expr \in DOMAIN d.map, m.map = d.map,
           IdsOf(m, n, "OUTPUT") = IdsOf(d, n, "OUTPUT") \cup {d.map[outs[p + 1].expr].node}
    PROVE  OutputsAre(m, outs, n, p + 1)
<1>1. \A i : i \in 1 .. p + 1 <=> i \in 1 .. p \/ i = p + 1
  OBVIOUS
<1>2. {m.map[outs[i].expr].node : i \in 1 .. p + 1}
        = {d.map[outs[i].expr].node : i \in 1 .. p} \cup {d.map[outs[p + 1].expr].node}
  BY <1>1
<1>3. \A i \in 1 .. p + 1 : outs[i].expr \in DOMAIN m.map
  BY <1>1 DEF OutputsAre
<1> QED BY <1>2, <1>3 DEF OutputsAre

\* The first build: p outputs have been imported.
ImportedOutputs(b, c, outs, p) ==
    BuilderFits(b, c, Len(b.nodes)) /\ b.build = 1 /\ OutputsAre(b, outs, Len(b.nodes), p)

FirstBuild(b, c, outs, left, calls) ==
    /\ Len(left) <= Len(outs) /\ ImportedOutputs(b, c, outs, Len(outs) - Len(left))
    /\ \A i \in 1 .. Len(left) : left[i] = outs[Len(outs) - Len(left) + i].expr
    /\ \A i \in 1 .. Len(calls) : c.exprs[calls[i]].kind # "constant"
    /\ calls # <<>> => calls[1] = left[1]

\* A later build finds every output in the map, and makes no nodes.
LaterBuild(b, outs, left, calls) ==
    /\ b.nodes = <<>> /\ b.inE = <<>> /\ b.outE = <<>> /\ b.build # 0 /\ b.build # 1
    /\ \A x \in DOMAIN b.map : b.map[x].build = 1
    /\ \A i \in 1 .. Len(outs) : outs[i].expr \in DOMAIN b.map
    /\ \A i \in 1 .. Len(left) : left[i] \in DOMAIN b.map
    /\ Len(calls) <= 1 /\ \A i \in 1 .. Len(calls) : calls[i] \in DOMAIN b.map

Making ==
    \/ builder = Cleared(NoMap, 0)
    \/ FirstBuild(builder, ctx, outputs, todo, stack)
    \/ LaterBuild(builder, outputs, todo, stack)

\* The graphs that were built: of lists that agree, the first one of the
\* program's outputs, and the later ones empty.
GraphOf(b) == BuiltGraph(b, PartyCnt, T)
FirstGraph(g, map) == \E a : a.map = map /\ ImportedOutputs(a, ctx, outputs, Len(outputs)) /\ g = GraphOf(a)
ResultsFit ==
    /\ \A i \in DOMAIN built : \E b : Lists(b, Len(b.nodes)) /\ built[i] = GraphOf(b)
    /\ built # <<>> => FirstGraph(built[1], builder.map)
    /\ \A i \in DOMAIN built : i # 1 => \E b : b.nodes = <<>> /\ built[i] = GraphOf(b)

BuilderInv == FrontendInv /\ Making /\ ResultsFit

LEMMA ImportedLists ==
    ASSUME NEW b, NEW c, NEW n, BuilderFits(b, c, n)
    PROVE  n = Len(b.nodes) /\ Lists(b, Len(b.nodes)) /\ n \in Nat
BY DEF BuilderFits, Lists, Nodes

LEMMA BuilderInitInv == FrontendInit => BuilderInv
<1> SUFFICES ASSUME FrontendInit PROVE BuilderInv
  OBVIOUS
<1>1. FrontendInv
  BY FrontendInitInv
<1>2. Making
  BY DEF Making, FrontendInit
<1>3. built = <<>> /\ DOMAIN built = {}
  BY DEF FrontendInit
<1>4. ResultsFit
  BY <1>3 DEF ResultsFit
<1> QED BY <1>1, <1>2, <1>4 DEF BuilderInv

\* What is known at any time, apart from the two new parts of the invariant.
LEMMA BuildFacts ==
    ASSUME FrontendInv
    PROVE  /\ Well(ctx) /\ Created(ctx) \in Nat /\ Len(built) \in Nat /\ Len(outputs) \in Nat
           /\ DOMAIN outputs = 1 .. Len(outputs) /\ DOMAIN built = 1 .. Len(built)
           /\ builder.build \in {Len(built), Len(built) + 1}
           /\ todo \in Seq(1 .. Created(ctx)) /\ stack \in Seq(1 .. Created(ctx))
           /\ builder.build = Len(built) => todo = <<>>
           /\ todo = <<>> => stack = <<>>
           /\ Len(built) = 0 => built = <<>>
           /\ \A i \in 1 .. Len(outputs) : /\ outputs[i].expr \in 1 .. Created(ctx)
                                           /\ ctx.exprs[outputs[i].expr].kind = "share"
                                           /\ ctx.exprs[outputs[i].expr].op = "RECONSTRUCT"
           /\ \A i, j \in 1 .. Len(outputs) : i < j => outputs[i].expr < outputs[j].expr
<1>1. /\ Program /\ Well(ctx) /\ Created(ctx) \in Nat /\ OutputsFit
      /\ builder.build \in {Len(built), Len(built) + 1}
      /\ todo \in Seq(1 .. Created(ctx)) /\ stack \in Seq(1 .. Created(ctx))
      /\ builder.build = Len(built) => todo = <<>>
      /\ todo = <<>> => stack = <<>>
  BY Sizes DEF FrontendInv, Building, Program
<1>2. PICK S : built \in Seq(S)
  BY DEF FrontendInv, Building
<1>3. PICK R : outputs \in Seq(R)
  BY <1>1 DEF OutputsFit
<1>4. /\ Len(built) \in Nat /\ DOMAIN built = 1 .. Len(built)
      /\ Len(outputs) \in Nat /\ DOMAIN outputs = 1 .. Len(outputs)
      /\ Len(built) = 0 => built = <<>>
  BY <1>2, <1>3
<1>5. ASSUME NEW i \in 1 .. Len(outputs)
      PROVE  /\ outputs[i].expr \in 1 .. Created(ctx)
             /\ ctx.exprs[outputs[i].expr].kind = "share"
             /\ ctx.exprs[outputs[i].expr].op = "RECONSTRUCT"
  <2>1. /\ outputs[i].expr \in Scale + 1 .. Created(ctx)
        /\ ctx.exprs[outputs[i].expr].kind = "share"
        /\ ctx.exprs[outputs[i].expr].op = "RECONSTRUCT"
    BY <1>1, <1>4 DEF OutputsFit
  <2>2. Scale \in Nat
    BY DeclaredWell
  <2> QED BY <1>1, <2>1, <2>2
<1>6. \A i, j \in 1 .. Len(outputs) : i < j => outputs[i].expr < outputs[j].expr
  BY <1>1, <1>4 DEF OutputsFit
<1> QED BY <1>1, <1>4, <1>5, <1>6

\* A build starts with empty vectors: the first one without a map, and a later
\* one with the map of a build that has finished.
LEMMA StartMaking ==
    ASSUME BuilderInv, StartBuild
    PROVE  \/ FirstBuild(builder', ctx, outputs, todo', stack)
           \/ LaterBuild(builder', outputs, todo', stack)
<1>1. /\ builder.build = Len(built) /\ builder' = Cleared(builder.map, builder.build + 1)
      /\ todo' = [i \in DOMAIN outputs |-> outputs[i].expr]
  BY DEF StartBuild
<1>2. /\ Len(outputs) \in Nat /\ DOMAIN outputs = 1 .. Len(outputs) /\ Len(built) \in Nat
      /\ todo = <<>> /\ stack = <<>>
  BY <1>1, BuildFacts DEF BuilderInv
<1>3. Len(todo') = Len(outputs) /\ \A i \in 1 .. Len(outputs) : todo'[i] = outputs[i].expr
  BY <1>1, <1>2
<1>4. Len(stack) = 0 /\ Len(todo) = 0 /\ \A i : i \notin 1 .. 0
  BY <1>2
<1>5. CASE builder = Cleared(NoMap, 0)
  <2>1. builder' = Cleared(NoMap, 1)
    BY <1>1, <1>5 DEF Cleared, GraphBaseBuilder
  <2>2. OutputsAre(builder', outputs, 0, 0)
    <3>1. {builder'.map[outputs[i].expr].node : i \in 1 .. 0} = {}
      BY <1>4
    <3> QED BY <1>4, <2>1, <3>1, NothingFits DEF OutputsAre
  <2>3. ImportedOutputs(builder', ctx, outputs, 0)
    BY <2>1, <2>2, NothingFits DEF ImportedOutputs
  <2>4. Len(outputs) - Len(todo') = 0 /\ \A i \in 1 .. Len(outputs) : 0 + i = i
    BY <1>2, <1>3
  <2>5. Len(todo') <= Len(outputs)
    BY <1>2, <1>3
  <2> QED BY <1>2, <1>3, <1>4, <2>3, <2>4, <2>5 DEF FirstBuild
<1>6. /\ builder'.nodes = <<>> /\ builder'.inE = <<>> /\ builder'.outE = <<>>
      /\ builder'.map = builder.map /\ builder'.build = builder.build + 1
  BY <1>1 DEF Cleared, GraphBaseBuilder
<1>7. CASE FirstBuild(builder, ctx, outputs, todo, stack)
  <2>1. Len(outputs) - Len(todo) = Len(outputs)
    BY <1>2, <1>4
  <2>2. ImportedOutputs(builder, ctx, outputs, Len(outputs))
    BY <1>7, <2>1 DEF FirstBuild
  <2>3. /\ \A i \in 1 .. Len(outputs) : outputs[i].expr \in DOMAIN builder.map
        /\ \A x \in DOMAIN builder.map : builder.map[x].build = 1
        /\ builder.build = 1
    BY <2>2 DEF ImportedOutputs, OutputsAre, BuilderFits, MapFits
  <2>4. builder'.build # 0 /\ builder'.build # 1
    BY <1>6, <2>3
  <2> QED BY <1>3, <1>4, <1>6, <2>3, <2>4 DEF LaterBuild
<1>8. CASE LaterBuild(builder, outputs, todo, stack)
  <2>1. builder'.build # 0 /\ builder'.build # 1
    BY <1>1, <1>2, <1>6, <1>8 DEF LaterBuild
  <2> QED BY <1>3, <1>4, <1>6, <1>8, <2>1 DEF LaterBuild
<1> QED BY <1>5, <1>7, <1>8 DEF BuilderInv, Making

LEMMA CallImportMaking ==
    ASSUME BuilderInv, CallImport
    PROVE  \/ FirstBuild(builder, ctx, outputs, todo, stack')
           \/ LaterBuild(builder, outputs, todo, stack')
<1>1. Importing /\ todo # <<>> /\ stack' = <<Head(todo)>>
  BY DEF CallImport
<1>2. /\ todo \in Seq(1 .. Created(ctx)) /\ Len(outputs) \in Nat /\ Len(built) \in Nat
      /\ \A i \in 1 .. Len(outputs) : ctx.exprs[outputs[i].expr].kind = "share"
  BY BuildFacts DEF BuilderInv
<1>3. Head(todo) = todo[1] /\ Len(todo) \in Nat /\ 1 \in 1 .. Len(todo)
  BY <1>1, <1>2
<1>4. Len(stack') = 1 /\ stack'[1] = todo[1] /\ \A i \in 1 .. 1 : i = 1
  BY <1>1, <1>3
<1>5. builder # Cleared(NoMap, 0)
  BY <1>1, <1>2 DEF Importing, Cleared, GraphBaseBuilder
<1>6. CASE FirstBuild(builder, ctx, outputs, todo, stack)
  <2>1. todo[1] = outputs[Len(outputs) - Len(todo) + 1].expr /\ Len(todo) <= Len(outputs)
    BY <1>3, <1>6 DEF FirstBuild
  <2>2. Len(outputs) - Len(todo) + 1 \in 1 .. Len(outputs)
    BY <1>2, <1>3, <2>1
  <2>3. ctx.exprs[todo[1]].kind # "constant"
    BY <1>2, <2>1, <2>2
  <2> QED BY <1>4, <1>6, <2>3 DEF FirstBuild
<1>7. CASE LaterBuild(builder, outputs, todo, stack)
  <2>1. todo[1] \in DOMAIN builder.map
    BY <1>3, <1>7 DEF LaterBuild
  <2>2. Len(stack') <= 1
    BY <1>4
  <2> QED BY <1>4, <1>7, <2>1, <2>2 DEF LaterBuild
<1> QED BY <1>5, <1>6, <1>7 DEF BuilderInv, Making

\* Only the first build asks for operands.
LEMMA CallOperandMaking ==
    ASSUME BuilderInv, CallOperand
    PROVE  FirstBuild(builder, ctx, outputs, todo, stack')
<1>1. stack # <<>> /\ Innermost \notin DOMAIN builder.map
  BY DEF CallOperand, Hit
<1>2. PICK i \in Unknown(builder, ctx, Innermost) : stack' = Append(stack, ctx.exprs[Innermost].args[i])
  BY DEF CallOperand
<1>3. /\ stack \in Seq(1 .. Created(ctx)) /\ builder.build \in {Len(built), Len(built) + 1}
      /\ builder.build = Len(built) => stack = <<>>
      /\ Len(built) \in Nat
  BY BuildFacts DEF BuilderInv
<1> DEFINE x == ctx.exprs[Innermost].args[i]
<1>4. ctx.exprs[x].kind # "constant"
  BY <1>2 DEF Unknown
<1> HIDE DEF x
<1>5. Len(stack) \in Nat /\ 1 \in 1 .. Len(stack) /\ Len(stack) \in 1 .. Len(stack)
  BY <1>1, <1>3
<1>6. builder # Cleared(NoMap, 0)
  BY <1>1, <1>3 DEF Cleared, GraphBaseBuilder
<1>7. ~LaterBuild(builder, outputs, todo, stack)
  <2>1. SUFFICES ASSUME LaterBuild(builder, outputs, todo, stack) PROVE FALSE
    OBVIOUS
  <2> QED BY <1>1, <1>5, <2>1 DEF LaterBuild, Innermost
<1>8. FirstBuild(builder, ctx, outputs, todo, stack)
  BY <1>6, <1>7 DEF BuilderInv, Making
<1>9. /\ \A j \in 1 .. Len(stack) : stack'[j] = stack[j]
      /\ stack'[Len(stack) + 1] = x /\ Len(stack') = Len(stack) + 1
  BY <1>2, <1>3 DEF x
<1>10. \A j \in 1 .. Len(stack) + 1 : j \in 1 .. Len(stack) \/ j = Len(stack) + 1
  BY <1>5
<1>11. \A j \in 1 .. Len(stack') : ctx.exprs[stack'[j]].kind # "constant"
  BY <1>4, <1>8, <1>9, <1>10 DEF FirstBuild
<1>12. stack'[1] = todo[1]
  BY <1>1, <1>5, <1>8, <1>9 DEF FirstBuild
<1> QED BY <1>8, <1>11, <1>12 DEF FirstBuild

\* A call of the first build returns.
LEMMA ReturnFirst ==
    ASSUME BuilderInv, Return, FirstBuild(builder, ctx, outputs, todo, stack)
    PROVE  FirstBuild(builder', ctx, outputs, todo', stack')
<1> DEFINE x == Innermost
           d == Import(builder, ctx, x, T)
           n == Len(builder.nodes)
           p == Len(outputs) - Len(todo)
<1>1. /\ stack # <<>> /\ (x \in DOMAIN builder.map \/ Unknown(builder, ctx, x) = {})
      /\ builder' = IF Len(stack) = 1 THEN MarkOutput(d, x) ELSE d
      /\ todo' = IF Len(stack) = 1 THEN Tail(todo) ELSE todo
      /\ stack' = SubSeq(stack, 1, Len(stack) - 1)
  BY DEF Return, Hit
<1>2. /\ Well(ctx) /\ todo \in Seq(1 .. Created(ctx)) /\ stack \in Seq(1 .. Created(ctx))
      /\ todo = <<>> => stack = <<>>
      /\ Len(outputs) \in Nat
      /\ \A i \in 1 .. Len(outputs) : /\ ctx.exprs[outputs[i].expr].kind = "share"
                                      /\ ctx.exprs[outputs[i].expr].op = "RECONSTRUCT"
  BY BuildFacts DEF BuilderInv
<1>3. /\ Len(stack) \in Nat /\ Len(stack) \in 1 .. Len(stack) /\ 1 \in 1 .. Len(stack)
      /\ Len(todo) \in Nat /\ 1 \in 1 .. Len(todo) /\ Len(todo) # 0
  BY <1>1, <1>2
<1>4. x \in 1 .. Created(ctx) /\ x = stack[Len(stack)]
  <2>1. stack[Len(stack)] \in 1 .. Created(ctx)
    BY <1>2, <1>3, ElementIn
  <2> QED BY <2>1 DEF Innermost
<1>5. /\ BuilderFits(builder, ctx, n) /\ builder.build = 1 /\ OutputsAre(builder, outputs, n, p)
      /\ ctx.exprs[x].kind # "constant"
      /\ Len(todo) <= Len(outputs) /\ stack[1] = todo[1]
      /\ \A i \in 1 .. Len(todo) : todo[i] = outputs[p + i].expr
  BY <1>1, <1>3, <1>4 DEF FirstBuild, ImportedOutputs
<1>6. p \in Nat /\ p + 1 \in 1 .. Len(outputs)
  BY <1>2, <1>3, <1>5
<1> HIDE DEF x, d, p
<1>7. PICK k \in Nat : BuilderFits(d, ctx, n + k) /\ Still(builder, d, n, k) /\ x \in DOMAIN d.map
  BY <1>1, <1>2, <1>4, <1>5, Returned DEF d
<1> HIDE DEF n
<1>8. OutputsAre(d, outputs, n + k, p) /\ d.build = 1
  BY <1>5, <1>7, OutputsStill DEF Still
<1>9. CASE Len(stack) = 1
  <2> DEFINE m == MarkOutput(d, x)
  <2>1. x = outputs[p + 1].expr
    BY <1>3, <1>4, <1>5, <1>9
  <2>2. ctx.exprs[x].kind = "share" /\ ctx.exprs[x].op = "RECONSTRUCT"
    BY <1>2, <1>6, <2>1
  <2>3. /\ BuilderFits(m, ctx, n + k) /\ m.map = d.map /\ m.build = d.build
        /\ IdsOf(m, n + k, "OUTPUT") = IdsOf(d, n + k, "OUTPUT") \cup {d.map[x].node}
    BY <1>7, <2>2, MarkOutputFits
  <2> HIDE DEF m
  <2>4. OutputsAre(m, outputs, n + k, p + 1)
    BY <1>6, <1>7, <1>8, <2>1, <2>3, OneMoreOutput
  <2>5. ImportedOutputs(m, ctx, outputs, p + 1)
    BY <1>8, <2>3, <2>4, ImportedLists DEF ImportedOutputs
  <2>6. builder' = m /\ todo' = Tail(todo)
    BY <1>1, <1>9 DEF m
  <2>7. stack' = <<>> /\ Len(stack') = 0 /\ \A i : i \notin 1 .. 0
    BY <1>1, <1>2, <1>9
  <2>8. Len(todo') = Len(todo) - 1 /\ \A i \in 1 .. Len(todo) - 1 : todo'[i] = todo[i + 1]
    BY <1>2, <1>3, <2>6
  <2>9. /\ Len(outputs) - Len(todo') = p + 1 /\ Len(todo') <= Len(outputs)
        /\ \A i \in 1 .. Len(todo') : i + 1 \in 1 .. Len(todo) /\ p + (i + 1) = (p + 1) + i
    BY <1>2, <1>3, <1>5, <2>8 DEF p
  <2>10. \A i \in 1 .. Len(todo') : todo'[i] = outputs[(Len(outputs) - Len(todo')) + i].expr
    <3> SUFFICES ASSUME NEW i \in 1 .. Len(todo')
                 PROVE  todo'[i] = outputs[(Len(outputs) - Len(todo')) + i].expr
      OBVIOUS
    <3>1. i + 1 \in 1 .. Len(todo) /\ p + (i + 1) = (p + 1) + i /\ Len(outputs) - Len(todo') = p + 1
      BY <2>9
    <3>2. todo'[i] = todo[i + 1]
      BY <2>8
    <3>3. todo[i + 1] = outputs[p + (i + 1)].expr
      BY <1>5, <3>1
    <3> QED BY <3>1, <3>2, <3>3
  <2> QED BY <2>5, <2>6, <2>7, <2>9, <2>10 DEF FirstBuild
<1>10. CASE Len(stack) # 1
  <2>1. builder' = d /\ todo' = todo
    BY <1>1, <1>10
  <2>2. ImportedOutputs(d, ctx, outputs, p)
    BY <1>7, <1>8, ImportedLists DEF ImportedOutputs
  <2>3. Len(stack) > 1
    <3>1. \A i \in Nat : 1 \in 1 .. i /\ i # 1 => i > 1
      OBVIOUS
    <3> QED BY <1>3, <1>10, <3>1, Zenon
  <2>4. /\ Len(stack') = Len(stack) - 1 /\ stack'[1] = stack[1]
        /\ \A i \in 1 .. Len(stack) - 1 : stack'[i] = stack[i] /\ i \in 1 .. Len(stack)
    BY <1>1, <1>2, <2>3
  <2>5. \A i \in 1 .. Len(stack') : ctx.exprs[stack'[i]].kind # "constant"
    <3>1. \A i \in 1 .. Len(stack) : ctx.exprs[stack[i]].kind # "constant"
      BY DEF FirstBuild
    <3> QED BY <2>4, <3>1
  <2>6. ImportedOutputs(builder', ctx, outputs, Len(outputs) - Len(todo'))
    BY <2>1, <2>2 DEF p
  <2>7. /\ \A i \in 1 .. Len(todo') : todo'[i] = outputs[(Len(outputs) - Len(todo')) + i].expr
        /\ Len(todo') <= Len(outputs) /\ stack'[1] = todo'[1]
    BY <1>5, <2>1, <2>4 DEF p
  <2> QED BY <2>5, <2>6, <2>7 DEF FirstBuild
<1> QED BY <1>9, <1>10

\* A call of a later build finds its output, which is a node of the first one.
LEMMA ReturnLater ==
    ASSUME BuilderInv, Return, LaterBuild(builder, outputs, todo, stack)
    PROVE  builder' = builder /\ LaterBuild(builder, outputs, todo', stack')
<1>1. /\ stack # <<>>
      /\ builder' = IF Len(stack) = 1 THEN MarkOutput(Import(builder, ctx, Innermost, T), Innermost)
                    ELSE Import(builder, ctx, Innermost, T)
      /\ todo' = IF Len(stack) = 1 THEN Tail(todo) ELSE todo
      /\ stack' = SubSeq(stack, 1, Len(stack) - 1)
  BY DEF Return
<1>2. /\ todo \in Seq(1 .. Created(ctx)) /\ stack \in Seq(1 .. Created(ctx))
      /\ todo = <<>> => stack = <<>>
  BY BuildFacts DEF BuilderInv
<1>3. Len(stack) = 1 /\ Innermost \in DOMAIN builder.map
  <2>1. Len(stack) \in Nat \ {0} /\ Len(stack) <= 1
    BY <1>1, <1>2 DEF LaterBuild
  <2>2. \A l \in Nat \ {0} : l <= 1 => l = 1 /\ 1 \in 1 .. l
    OBVIOUS
  <2>3. Len(stack) = 1 /\ 1 \in 1 .. Len(stack)
    BY <2>1, <2>2, Zenon
  <2>4. stack[1] \in DOMAIN builder.map
    BY <2>3 DEF LaterBuild
  <2> QED BY <2>3, <2>4 DEF Innermost
<1>4. Import(builder, ctx, Innermost, T) = builder
  BY <1>3 DEF Import
<1>5. MarkOutput(builder, Innermost) = builder
  <2>1. builder.map[Innermost].build = 1 /\ builder.build # 1
    BY <1>3 DEF LaterBuild
  <2> QED BY <2>1 DEF MarkOutput
<1>6. stack' = <<>> /\ Len(stack') = 0 /\ \A i : i \notin 1 .. 0
  BY <1>1, <1>2, <1>3
<1>7. todo' = Tail(todo) /\ todo # <<>>
  BY <1>1, <1>2, <1>3
<1>8. \A i \in 1 .. Len(todo') : todo'[i] = todo[i + 1] /\ i + 1 \in 1 .. Len(todo)
  BY <1>2, <1>7
<1>9. /\ \A i \in 1 .. Len(todo') : todo'[i] \in DOMAIN builder.map
      /\ Len(stack') <= 1
  BY <1>6, <1>8 DEF LaterBuild
<1> QED BY <1>1, <1>3, <1>4, <1>5, <1>6, <1>9 DEF LaterBuild

LEMMA ReturnMaking ==
    ASSUME BuilderInv, Return
    PROVE  Making' /\ (built = <<>> \/ builder'.map = builder.map)
<1>1. UNCHANGED vars /\ stack # <<>>
  BY DEF Return
<1>2. ctx' = ctx /\ outputs' = outputs
  BY <1>1 DEF vars
<1>3. /\ builder.build \in {Len(built), Len(built) + 1} /\ Len(built) \in Nat
      /\ builder.build # Len(built)
      /\ Len(built) = 0 => built = <<>>
  BY <1>1, BuildFacts DEF BuilderInv
<1>4. CASE FirstBuild(builder, ctx, outputs, todo, stack)
  <2>1. builder.build = 1
    BY <1>4 DEF FirstBuild, ImportedOutputs
  <2>2. built = <<>>
    BY <1>3, <2>1
  <2>3. FirstBuild(builder', ctx, outputs, todo', stack')
    BY <1>4, ReturnFirst
  <2>4. FirstBuild(builder', ctx', outputs', todo', stack')
    BY <1>2, <2>3
  <2> QED BY <2>2, <2>4 DEF Making
<1>5. CASE LaterBuild(builder, outputs, todo, stack)
  BY <1>2, <1>5, ReturnLater DEF Making
<1>6. builder # Cleared(NoMap, 0)
  BY <1>3 DEF Cleared, GraphBaseBuilder
<1> QED BY <1>4, <1>5, <1>6 DEF BuilderInv, Making

\* The graph of a build is handed over.
LEMMA FinishBuildResults ==
    ASSUME BuilderInv, FinishBuild
    PROVE  ResultsFit'
<1>1. /\ UNCHANGED vars /\ builder' = builder /\ built' = Append(built, GraphOf(builder))
      /\ builder.build > Len(built) /\ todo = <<>>
  BY DEF FinishBuild, Importing, GraphOf
<1>2. ctx' = ctx /\ outputs' = outputs
  BY <1>1 DEF vars
<1>3. /\ Len(built) \in Nat /\ DOMAIN built = 1 .. Len(built)
      /\ builder.build \in {Len(built), Len(built) + 1}
      /\ Len(outputs) \in Nat
      /\ Len(built) = 0 => built = <<>>
  BY BuildFacts DEF BuilderInv
<1>4. PICK S : built \in Seq(S)
  BY DEF BuilderInv, FrontendInv, Building
<1>5. /\ DOMAIN built' = 1 .. Len(built) + 1 /\ \A i \in 1 .. Len(built) : built'[i] = built[i]
      /\ built'[Len(built) + 1] = GraphOf(builder)
  <2> DEFINE g == GraphOf(builder)
  <2> HIDE DEF g
  <2>1. built' = Append(built, g)
    BY <1>1 DEF g
  <2>2. /\ DOMAIN Append(built, g) = 1 .. Len(built) + 1 
        /\ \A i \in 1 .. Len(built) : Append(built, g)[i] = built[i]
        /\ Append(built, g)[Len(built) + 1] = g
    BY <1>4
  <2> QED BY <2>1, <2>2 DEF g
<1>6. builder # Cleared(NoMap, 0)
  BY <1>1, <1>3 DEF Cleared, GraphBaseBuilder
<1>7. Lists(builder, Len(builder.nodes))
  <2>1. CASE FirstBuild(builder, ctx, outputs, todo, stack)
    BY <2>1, ImportedLists DEF FirstBuild, ImportedOutputs
  <2>2. CASE LaterBuild(builder, outputs, todo, stack)
    BY <2>2, NothingYet DEF LaterBuild
  <2> QED BY <1>6, <2>1, <2>2 DEF BuilderInv, Making
<1>8. ASSUME NEW i \in DOMAIN built' PROVE \E b : Lists(b, Len(b.nodes)) /\ built'[i] = GraphOf(b)
  <2>1. i \in 1 .. Len(built) \/ i = Len(built) + 1
    BY <1>3, <1>5
  <2>2. CASE i \in 1 .. Len(built)
    BY <1>3, <1>5, <2>2 DEF BuilderInv, ResultsFit
  <2>3. CASE i = Len(built) + 1
    BY <1>5, <1>7, <2>3
  <2> QED BY <2>1, <2>2, <2>3
<1>9. FirstGraph(built'[1], builder.map)
  <2>1. CASE FirstBuild(builder, ctx, outputs, todo, stack)
    <3>1. builder.build = 1
      BY <2>1 DEF FirstBuild, ImportedOutputs
    <3>2. Len(built) = 0
      BY <1>1, <1>3, <3>1
    <3>3. built'[1] = GraphOf(builder)
      BY <1>5, <3>2
    <3>4. Len(todo) = 0 /\ Len(outputs) - 0 = Len(outputs)
      BY <1>1, <1>3
    <3>5. ImportedOutputs(builder, ctx, outputs, Len(outputs))
      BY <2>1, <3>4 DEF FirstBuild
    <3> QED BY <3>3, <3>5 DEF FirstGraph
  <2>2. CASE LaterBuild(builder, outputs, todo, stack)
    <3>1. builder.build # 0 /\ builder.build # 1
      BY <2>2 DEF LaterBuild
    <3>2. Len(built) # 0 /\ 1 \in 1 .. Len(built)
      BY <1>1, <1>3, <3>1
    <3>3. built'[1] = built[1] /\ built # <<>>
      BY <1>5, <3>2
    <3> QED BY <3>3 DEF BuilderInv, ResultsFit
  <2> QED BY <1>6, <2>1, <2>2 DEF BuilderInv, Making
<1>10. FirstGraph(built[1], builder.map)'
  BY <1>1, <1>2, <1>9 DEF FirstGraph
<1>11. ASSUME NEW i \in DOMAIN built', i # 1 PROVE \E b : b.nodes = <<>> /\ built'[i] = GraphOf(b)
  <2>1. i \in 1 .. Len(built) \/ i = Len(built) + 1
    BY <1>3, <1>5
  <2>2. CASE i \in 1 .. Len(built)
    BY <1>3, <1>5, <1>11, <2>2 DEF BuilderInv, ResultsFit
  <2>3. CASE i = Len(built) + 1
    <3>1. builder.build # 1
      BY <1>1, <1>3, <1>11, <2>3
    <3>2. builder.nodes = <<>>
      BY <1>6, <3>1 DEF BuilderInv, Making, FirstBuild, ImportedOutputs, LaterBuild
    <3> QED BY <1>5, <2>3, <3>2
  <2> QED BY <2>1, <2>2, <2>3
<1> QED BY <1>8, <1>10, <1>11 DEF ResultsFit

LEMMA BuilderStep == ~Reassigned /\ BuilderInv /\ [Next]_allVars => BuilderInv'
<1> SUFFICES ASSUME ~Reassigned, BuilderInv, [Next]_allVars PROVE BuilderInv'
  OBVIOUS
<1>1. FrontendInv'
  BY FrontendStep DEF BuilderInv
<1>2. ASSUME UNCHANGED vars, UNCHANGED built, built = <<>> \/ builder'.map = builder.map
      PROVE  ResultsFit'
  <2>1. ctx' = ctx /\ outputs' = outputs /\ built' = built
    BY <1>2 DEF vars
  <2> QED BY <1>2, <2>1 DEF BuilderInv, ResultsFit, FirstGraph
<1>3. CASE Call
  <2>1. builder' = builder /\ todo' = todo /\ stack' = stack /\ built' = built /\ builder.build = 0
    BY <1>3 DEF Call, builderVars
  <2>2. builder = Cleared(NoMap, 0)
    BY <2>1 DEF BuilderInv, Making, FirstBuild, LaterBuild, ImportedOutputs
  <2>3. built = <<>> /\ DOMAIN built = {}
    <3>1. builder.build \in {Len(built), Len(built) + 1} /\ Len(built) \in Nat
          /\ (Len(built) = 0 => built = <<>>) /\ DOMAIN built = 1 .. Len(built)
      BY BuildFacts DEF BuilderInv
    <3>2. Len(built) = 0
      BY <2>1, <3>1
    <3> QED BY <3>1, <3>2
  <2>4. Making' /\ ResultsFit'
    BY <2>1, <2>2, <2>3 DEF Making, ResultsFit
  <2> QED BY <1>1, <2>4 DEF BuilderInv
<1>4. CASE StartBuild
  <2>1. UNCHANGED vars /\ UNCHANGED built /\ stack' = stack
    BY <1>4 DEF StartBuild
  <2>2. builder'.map = builder.map
    BY <1>4 DEF StartBuild, Cleared, GraphBaseBuilder
  <2>3. ctx' = ctx /\ outputs' = outputs
    BY <2>1 DEF vars
  <2>4. Making'
    BY <1>4, <2>1, <2>3, StartMaking DEF Making
  <2> QED BY <1>1, <1>2, <2>1, <2>2, <2>4 DEF BuilderInv
<1>5. CASE CallImport
  <2>1. UNCHANGED vars /\ UNCHANGED built /\ builder' = builder /\ todo' = todo
    BY <1>5 DEF CallImport
  <2>2. ctx' = ctx /\ outputs' = outputs
    BY <2>1 DEF vars
  <2>3. Making'
    BY <1>5, <2>1, <2>2, CallImportMaking DEF Making
  <2> QED BY <1>1, <1>2, <2>1, <2>3 DEF BuilderInv
<1>6. CASE CallOperand
  <2>1. UNCHANGED vars /\ UNCHANGED built /\ builder' = builder /\ todo' = todo
    BY <1>6 DEF CallOperand
  <2>2. ctx' = ctx /\ outputs' = outputs
    BY <2>1 DEF vars
  <2>3. Making'
    BY <1>6, <2>1, <2>2, CallOperandMaking DEF Making
  <2> QED BY <1>1, <1>2, <2>1, <2>3 DEF BuilderInv
<1>7. CASE Return
  <2>1. UNCHANGED vars /\ UNCHANGED built
    BY <1>7 DEF Return
  <2> QED BY <1>1, <1>2, <1>7, <2>1, ReturnMaking DEF BuilderInv
<1>8. CASE FinishBuild
  <2>1. UNCHANGED vars /\ builder' = builder /\ todo' = todo /\ stack' = stack
    BY <1>8 DEF FinishBuild
  <2>2. ctx' = ctx /\ outputs' = outputs
    BY <2>1 DEF vars
  <2>3. Making'
    BY <2>1, <2>2 DEF BuilderInv, Making
  <2> QED BY <1>1, <1>8, <2>3, FinishBuildResults DEF BuilderInv
<1>9. CASE UNCHANGED allVars
  <2>1. /\ UNCHANGED vars /\ UNCHANGED built /\ builder' = builder /\ todo' = todo /\ stack' = stack
    BY <1>9 DEF allVars, builderVars
  <2>2. ctx' = ctx /\ outputs' = outputs
    BY <2>1 DEF vars
  <2>3. Making'
    BY <2>1, <2>2 DEF BuilderInv, Making
  <2> QED BY <1>1, <1>2, <2>1, <2>3 DEF BuilderInv
<1> QED BY <1>3, <1>4, <1>5, <1>6, <1>7, <1>8, <1>9 DEF Next

-----------------------------------------------------------------------------
(* From the lists to the graph.                                            *)

LEMMA BuiltGraphIs ==
    ASSUME NEW b, NEW n, Lists(b, n)
    PROVE  LET g == AsGraph(GraphOf(b))
           IN /\ g = Graph(g.nodes, g.inE, g.outE, g.partyCnt, g.T, g.corrupted, g.rnd, g.bub)
              /\ Ids(g) = 0 .. n - 1
              /\ g.nodes = [m \in 0 .. n - 1 |-> b.nodes[m + 1]]
              /\ g.inE = [m \in 0 .. n - 1 |-> b.inE[m + 1]]
              /\ g.outE = [m \in 0 .. n - 1 |-> b.outE[m + 1]]
              /\ \E h : /\ h.nodes = g.nodes /\ h.inE = g.inE
                        /\ g.rnd = Cardinality(RandomNodes(h)) /\ g.bub = Cardinality(Bubbles(h))
<1> DEFINE base == GraphOf(b)
           h == Graph(base.nodes, base.inE, base.outE, base.partyCnt, base.T, {}, 0, 0)
           g == AsGraph(base)
<1>1. Len(b.nodes) = n
  BY DEF Lists, Nodes
<1>2. /\ base.nodes = [m \in 0 .. n - 1 |-> b.nodes[m + 1]]
      /\ base.inE = [m \in 0 .. n - 1 |-> b.inE[m + 1]]
      /\ base.outE = [m \in 0 .. n - 1 |-> b.outE[m + 1]]
  BY <1>1 DEF GraphOf, BuiltGraph
<1> HIDE DEF base
<1>3. h.nodes = base.nodes /\ h.inE = base.inE
  BY DEF Graph
<1>4. g = Graph(base.nodes, base.inE, base.outE, base.partyCnt, base.T, {},
                Cardinality(RandomNodes(h)), Cardinality(Bubbles(h)))
  BY Zenon DEF AsGraph, NewGraph
<1> HIDE DEF h, g
<1>5. /\ g.nodes = base.nodes /\ g.inE = base.inE /\ g.outE = base.outE
      /\ g.rnd = Cardinality(RandomNodes(h)) /\ g.bub = Cardinality(Bubbles(h))
      /\ g = Graph(g.nodes, g.inE, g.outE, g.partyCnt, g.T, g.corrupted, g.rnd, g.bub)
  BY <1>4 DEF Graph
<1>6. Ids(g) = 0 .. n - 1
  BY <1>2, <1>5 DEF Ids
<1> QED BY <1>2, <1>3, <1>5, <1>6 DEF g, base

LEMMA NodeAt ==
    ASSUME NEW b, NEW n, Lists(b, n), NEW m \in 0 .. n - 1
    PROVE  /\ m + 1 \in 1 .. n /\ (m + 1) - 1 = m /\ m \in Nat
           /\ b.nodes[m + 1] \in BuiltNode
           /\ IsFiniteSet(b.inE[m + 1]) /\ b.inE[m + 1] \in BuiltEdges /\ b.outE[m + 1] \in BuiltEdges
           /\ \A e \in b.inE[m + 1] : e.out = m /\ FitsBelow(e, n)
           /\ \A e \in b.outE[m + 1] : FitsBelow(e, n) /\ m \in SrcsOf(e)
           /\ \A e \in b.inE[m + 1] : \A k \in SrcsOf(e) : k \in 0 .. n - 1 /\ e \in b.outE[k + 1]
           /\ \A e \in b.outE[m + 1] : e.out \in 0 .. n - 1 /\ e \in b.inE[e.out + 1]
<1>1. /\ n \in Nat /\ b.nodes \in Seq(BuiltNode) /\ Len(b.nodes) = n
      /\ b.inE \in Seq(BuiltEdges) /\ Len(b.inE) = n
      /\ b.outE \in Seq(BuiltEdges) /\ Len(b.outE) = n
      /\ InLists(b, n) /\ OutLists(b, n) /\ Agree(b, n)
  BY DEF Lists, Nodes, InLists, OutLists
<1>2. m + 1 \in 1 .. n /\ (m + 1) - 1 = m /\ m \in Nat
  BY <1>1
<1>3. b.nodes[m + 1] \in BuiltNode /\ b.inE[m + 1] \in BuiltEdges /\ b.outE[m + 1] \in BuiltEdges
  BY <1>1, <1>2, ElementIn
<1>4. /\ IsFiniteSet(b.inE[m + 1])
      /\ \A e \in b.inE[m + 1] : e.out = m /\ FitsBelow(e, n)
  BY <1>1, <1>2 DEF InLists
<1>5. \A e \in b.outE[m + 1] : FitsBelow(e, n) /\ m \in SrcsOf(e)
  BY <1>1, <1>2 DEF OutLists
<1>6. /\ \A e \in b.inE[m + 1] : \A k \in SrcsOf(e) : e \in b.outE[k + 1]
      /\ \A e \in b.outE[m + 1] : e \in b.inE[e.out + 1]
  BY <1>1, <1>2 DEF Agree
<1>7. \A e : FitsBelow(e, n) => e.out \in 0 .. n - 1 /\ \A k \in SrcsOf(e) : k \in 0 .. n - 1
  BY <1>1 DEF FitsBelow
<1> QED BY <1>2, <1>3, <1>4, <1>5, <1>6, <1>7

LEMMA BuiltEdgeFits ==
    ASSUME NEW n \in Nat, NEW e, FitsBelow(e, n)
    PROVE  /\ e \in Edge(0 .. n - 1) /\ Shaped(e) /\ e.born = 0
           /\ \A m \in SrcsOf(e) : m < e.out
<1>1. /\ e \in BuiltEdge /\ Shaped(e) /\ e.born = 0 /\ e.out \in 0 .. n - 1
      /\ \A m \in SrcsOf(e) : m \in 0 .. e.out - 1
  BY DEF FitsBelow
<1>2. /\ e = [op |-> e.op, ins |-> e.ins, out |-> e.out, born |-> e.born]
      /\ e.op \in Operator /\ e.ins \in Seq(Nat) /\ e.born \in Nat
  BY <1>1 DEF BuiltEdge
<1>3. e.ins \in Seq(0 .. n - 1)
  <2>1. DOMAIN e.ins = 1 .. Len(e.ins)
    BY <1>2
  <2>2. \A i \in 1 .. Len(e.ins) : e.ins[i] \in SrcsOf(e)
    BY <2>1 DEF SrcsOf
  <2>3. \A m \in SrcsOf(e) : m \in 0 .. n - 1
    BY <1>1
  <2>4. \A i \in 1 .. Len(e.ins) : e.ins[i] \in 0 .. n - 1
    BY <2>2, <2>3, Zenon
  <2> QED BY <1>2, <2>4
<1>4. e \in Edge(0 .. n - 1)
  BY <1>1, <1>2, <1>3 DEF Edge
<1>5. \A m \in SrcsOf(e) : m < e.out
  BY <1>1
<1> QED BY <1>1, <1>4, <1>5

\* What the rewriters count on.
Usable(g) ==
    /\ Typed(g) /\ Synced(g) /\ Live(g) = Ids(g)
    /\ \A e \in EdgesOf(g) : (\A n \in SrcsOf(e) : n < e.out) /\ Shaped(e) /\ e.born = 0
    /\ \A n \in Ids(g) : g.nodes[n].party \in 1 .. PartyCnt
    /\ \A e \in EdgesOf(g) :
          e.op = "RECONSTRUCT" => \A m, n \in SrcsOf(e) : g.nodes[m].party = g.nodes[n].party

LEMMA BuiltGraphGood ==
    ASSUME NEW b, NEW n, Lists(b, n)
    PROVE  Usable(AsGraph(GraphOf(b)))
<1> DEFINE g == AsGraph(GraphOf(b))
           W == 0 .. n - 1
<1>1. /\ g = Graph(g.nodes, g.inE, g.outE, g.partyCnt, g.T, g.corrupted, g.rnd, g.bub)
      /\ Ids(g) = W
      /\ g.nodes = [m \in W |-> b.nodes[m + 1]]
      /\ g.inE = [m \in W |-> b.inE[m + 1]]
      /\ g.outE = [m \in W |-> b.outE[m + 1]]
      /\ \E h : /\ h.nodes = g.nodes /\ h.inE = g.inE
                /\ g.rnd = Cardinality(RandomNodes(h)) /\ g.bub = Cardinality(Bubbles(h))
  BY BuiltGraphIs
<1> HIDE DEF g
<1>2. /\ \A m \in W : g.nodes[m] = b.nodes[m + 1] /\ g.inE[m] = b.inE[m + 1] /\ g.outE[m] = b.outE[m + 1]
      /\ n \in Nat
  BY <1>1 DEF Lists
<1>3. IsFiniteSet(W) /\ W \subseteq Nat
  BY <1>2, FS_Interval
<1> HIDE DEF W
<1>4. ASSUME NEW m \in W
      PROVE  g.nodes[m] \in Node /\ g.nodes[m] # NullNode
  <2>1. b.nodes[m + 1] \in BuiltNode
    BY NodeAt DEF W
  <2>2. 1 .. PartyCnt \subseteq Nat \ {0}
    BY FrontendAssumption
  <2>3. BuiltNode \subseteq Node
    BY <2>2 DEF BuiltNode, Node
  <2>4. \A node \in BuiltNode : node.type # "NONE"
    BY DEF BuiltNode, NodeGenre
  <2> QED BY <1>2, <2>1, <2>3, <2>4 DEF NullNode
<1>5. Live(g) = Ids(g)
  BY <1>1, <1>4 DEF Live
<1>6. ASSUME NEW m \in W
      PROVE  /\ g.inE[m] \in SUBSET Edge(W) /\ g.outE[m] \in SUBSET Edge(W)
             /\ IsFiniteSet(g.inE[m])
             /\ \A e \in g.inE[m] : FitsBelow(e, n)
  <2>1. /\ IsFiniteSet(b.inE[m + 1])
        /\ \A e \in b.inE[m + 1] : FitsBelow(e, n)
        /\ \A e \in b.outE[m + 1] : FitsBelow(e, n)
    BY NodeAt DEF W
  <2>2. \A e : FitsBelow(e, n) => e \in Edge(W)
    BY <1>2, BuiltEdgeFits DEF W
  <2> QED BY <1>2, <2>1, <2>2
<1>7. g.rnd \in Int /\ g.bub \in Int
  <2>1. PICK h : /\ h.nodes = g.nodes /\ h.inE = g.inE
                 /\ g.rnd = Cardinality(RandomNodes(h)) /\ g.bub = Cardinality(Bubbles(h))
    BY <1>1
  <2>2. RandomNodes(h) \subseteq W /\ Bubbles(h) \subseteq W
    <3>1. DOMAIN h.nodes = W
      BY <1>1, <2>1
    <3> QED BY <3>1 DEF RandomNodes, Bubbles, Live, Ids
  <2>3. IsFiniteSet(RandomNodes(h)) /\ IsFiniteSet(Bubbles(h))
    BY <1>3, <2>2, FS_Subset
  <2>4. Cardinality(RandomNodes(h)) \in Nat /\ Cardinality(Bubbles(h)) \in Nat
    BY <2>3, FS_CardinalityType
  <2> QED BY <2>1, <2>4
<1>8. Typed(g)
  <2>1. g.nodes \in [W -> Node \cup {NullNode}]
    BY <1>1, <1>2, <1>4
  <2>2. g.inE \in [W -> SUBSET Edge(W)] /\ g.outE \in [W -> SUBSET Edge(W)]
    BY <1>1, <1>2, <1>6
  <2> QED BY <1>1, <1>3, <1>6, <1>7, <2>1, <2>2 DEF Typed
<1>9. Synced(g)
  <2> SUFFICES ASSUME NEW m \in W
               PROVE  /\ \A e \in g.inE[m] : e.out = m /\ \A k \in SrcsOf(e) : e \in g.outE[k]
                      /\ \A e \in g.outE[m] : m \in SrcsOf(e) /\ e \in g.inE[e.out]
                      /\ g.nodes[m] # NullNode
    BY <1>1 DEF Synced
  <2>1. /\ \A e \in b.inE[m + 1] : e.out = m
        /\ \A e \in b.outE[m + 1] : m \in SrcsOf(e)
        /\ \A e \in b.inE[m + 1] : \A k \in SrcsOf(e) : k \in W /\ e \in b.outE[k + 1]
        /\ \A e \in b.outE[m + 1] : e.out \in W /\ e \in b.inE[e.out + 1]
    BY NodeAt DEF W
  <2> QED BY <1>2, <1>4, <2>1
<1>10. ASSUME NEW e \in EdgesOf(g)
       PROVE  (\A m \in SrcsOf(e) : m < e.out) /\ Shaped(e) /\ e.born = 0
  <2>1. PICK m \in W : e \in g.inE[m]
    BY <1>1 DEF EdgesOf
  <2>2. FitsBelow(e, n)
    BY <1>6, <2>1
  <2> QED BY <1>2, <2>2, BuiltEdgeFits
<1>11. \A m \in Ids(g) : g.nodes[m].party \in 1 .. PartyCnt
  <2> SUFFICES ASSUME NEW m \in W PROVE g.nodes[m].party \in 1 .. PartyCnt
    BY <1>1
  <2>1. b.nodes[m + 1] \in BuiltNode
    BY NodeAt DEF W
  <2> QED BY <1>2, <2>1 DEF BuiltNode
<1>12. ASSUME NEW e \in EdgesOf(g), e.op = "RECONSTRUCT", NEW k \in SrcsOf(e), NEW l \in SrcsOf(e)
       PROVE  g.nodes[k].party = g.nodes[l].party
  <2>1. PICK m \in W : e \in g.inE[m]
    BY <1>1 DEF EdgesOf
  <2>2. e \in b.inE[m + 1] /\ m + 1 \in 1 .. n
    BY <1>2, <2>1, NodeAt DEF W
  <2>3. OnePlace(b, e)
    BY <1>12, <2>2 DEF Lists, Places
  <2>4. k \in W /\ l \in W
    BY <2>1, <2>2, NodeAt DEF W
  <2> QED BY <1>2, <2>3, <2>4 DEF OnePlace
<1> QED BY <1>5, <1>8, <1>9, <1>10, <1>11, <1>12 DEF Usable, g

\* What Prover and Rewriting suppose of the graph they are given, every graph
\* that build() returns satisfies: Base[p] may be any of them.
GivenToTheSearch(s) ==
    /\ HandedOver(Graph(s.nodes, s.inE, s.outE, s.partyCnt, s.T, {}, 0, 0))
    /\ LaidOut(Graph(s.nodes, s.inE, s.outE, s.partyCnt, s.T, {}, 0, 0))
    /\ s.partyCnt \in Nat /\ s.T \in 0 .. s.partyCnt - 1

LEMMA BuiltGraphHandedOver ==
    ASSUME NEW b, NEW n, Lists(b, n)
    PROVE  GivenToTheSearch(GraphOf(b))
<1> DEFINE s == GraphOf(b)
           g == AsGraph(s)
           h == Graph(s.nodes, s.inE, s.outE, s.partyCnt, s.T, {}, 0, 0)
           h0 == Graph(h.nodes, h.inE, h.outE, h.partyCnt, h.T, h.corrupted, h.rnd, h.bub)
<1>1. Usable(g)
  BY BuiltGraphGood
<1>2. h.nodes = s.nodes /\ h.inE = s.inE /\ h.outE = s.outE /\ h.rnd = 0 /\ h.bub = 0 /\ h = h0
  BY DEF Graph
<1>3. g.nodes = s.nodes /\ g.inE = s.inE /\ g.outE = s.outE
  BY DEF AsGraph, NewGraph, Graph
<1>4. s.partyCnt \in Nat /\ s.T \in 0 .. s.partyCnt - 1 /\ s.partyCnt = PartyCnt /\ h.partyCnt = PartyCnt
  BY FrontendAssumption DEF GraphOf, BuiltGraph, Graph
<1> HIDE DEF g, h, s
<1>5. h.nodes = g.nodes /\ h.inE = g.inE /\ h.outE = g.outE /\ Ids(h) = Ids(g)
  BY <1>2, <1>3 DEF Ids
<1>6. Typed(g) /\ Synced(g) /\ Live(g) = Ids(g)
  BY <1>1 DEF Usable
<1>7. Typed(h)
  BY <1>2, <1>5, <1>6 DEF Typed
<1>8. Synced(h)
  BY <1>5, <1>6 DEF Synced
<1>9. Live(h) = Ids(h)
  BY <1>5, <1>6 DEF Live
<1>10. EdgesOf(h) = EdgesOf(g)
  BY <1>5 DEF EdgesOf
<1>11. EdgesShaped(h) /\ \A e \in EdgesOf(h) : e.born = 0
  BY <1>1, <1>10 DEF Usable, Shaped, EdgesShaped, WellShaped
<1>12. HandedOver(h)
  BY <1>7, <1>8, <1>9, <1>11 DEF HandedOver
<1>13. LaidOut(h)
  <2>1. \A m \in Ids(h) : PartyOf(h, m) \in Parties(h)
    BY <1>1, <1>4, <1>5 DEF Usable, PartyOf, Parties
  <2>2. ASSUME NEW e \in EdgesOf(h)
        PROVE  /\ e.op = "EVAL" => \A i, j \in DOMAIN e.ins : e.ins[i] = e.ins[j] => i = j
               /\ e.op = "RECONSTRUCT" =>
                     Len(e.ins) = h.partyCnt /\ \A m, k \in SrcsOf(e) : PartyOf(h, m) = PartyOf(h, k)
    <3>1. Shaped(e) /\ (e.op = "RECONSTRUCT" => \A m, k \in SrcsOf(e) : g.nodes[m].party = g.nodes[k].party)
      BY <1>1, <1>10 DEF Usable
    <3> QED BY <1>4, <1>5, <3>1 DEF Shaped, OneByOne, PartyOf
  <2> QED BY <2>1, <2>2 DEF LaidOut
<1> QED BY <1>4, <1>12, <1>13 DEF GivenToTheSearch, h, s

\* The counts of the builder are those of the graph.
LEMMA BuiltCounts ==
    ASSUME NEW b, NEW n, Lists(b, n)
    PROVE  LET g == AsGraph(GraphOf(b))
           IN /\ g.rnd = Cardinality(RandomIds(b, n))
              /\ \A type : {m \in Ids(g) : g.nodes[m].type = type} = IdsOf(b, n, type)
<1> DEFINE g == AsGraph(GraphOf(b))
           W == 0 .. n - 1
<1>1. /\ Ids(g) = W
      /\ g.nodes = [m \in W |-> b.nodes[m + 1]]
      /\ g.inE = [m \in W |-> b.inE[m + 1]]
      /\ \E h : /\ h.nodes = g.nodes /\ h.inE = g.inE
                /\ g.rnd = Cardinality(RandomNodes(h)) /\ g.bub = Cardinality(Bubbles(h))
  BY BuiltGraphIs
<1> HIDE DEF g
<1>2. PICK h : h.nodes = g.nodes /\ h.inE = g.inE /\ g.rnd = Cardinality(RandomNodes(h))
  BY <1>1
<1>3. RandomNodes(h) = RandomIds(b, n)
  <2>1. Ids(h) = W /\ \A m \in W : h.nodes[m] = b.nodes[m + 1] /\ h.inE[m] = b.inE[m + 1]
    BY <1>1, <1>2 DEF Ids
  <2>2. ASSUME NEW m \in W
        PROVE  m \in RandomNodes(h) <=> b.inE[m + 1] = {} /\ b.nodes[m + 1].type = "OTHERS"
    <3>1. b.nodes[m + 1] \in BuiltNode /\ IsFiniteSet(b.inE[m + 1])
      BY NodeAt
    <3>2. Cardinality(b.inE[m + 1]) = 0 <=> b.inE[m + 1] = {}
      BY <3>1, FS_EmptySet
    <3>3. b.nodes[m + 1].type \in NodeGenre /\ b.nodes[m + 1] # NullNode
      BY <3>1 DEF BuiltNode, NodeGenre, NullNode
    <3> HIDE DEF W
    <3>4. IsRandomNode(h, m) <=> b.inE[m + 1] = {} /\ b.nodes[m + 1].type = "OTHERS"
      BY <2>1, <3>2, <3>3 DEF IsRandomNode, InDeg, IsIO, NodeGenre
    <3> QED BY <2>1, <3>3, <3>4 DEF RandomNodes, Live
  <2>3. RandomNodes(h) \subseteq W
    BY <2>1 DEF RandomNodes, Live
  <2> QED BY <2>2, <2>3, Zenon DEF RandomIds
<1>4. ASSUME NEW type PROVE {m \in Ids(g) : g.nodes[m].type = type} = IdsOf(b, n, type)
  BY <1>1 DEF IdsOf
<1> QED BY <1>2, <1>3, <1>4 DEF g

\* The outputs of a program are expressions of their own, which have nodes of
\* their own: there are as many output nodes as outputs.
LEMMA OutputCount ==
    ASSUME BuilderInv, NEW b, ImportedOutputs(b, ctx, outputs, Len(outputs))
    PROVE  Cardinality(IdsOf(b, Len(b.nodes), "OUTPUT")) = Len(outputs)
<1> DEFINE I == 1 .. Len(outputs)
           n == Len(b.nodes)
           S == IdsOf(b, n, "OUTPUT")
           f == [i \in I |-> b.map[outputs[i].expr].node]
<1>1. /\ Len(outputs) \in Nat
      /\ \A i \in I : /\ outputs[i].expr \in 1 .. Created(ctx)
                      /\ ctx.exprs[outputs[i].expr].kind = "share"
      /\ \A i, j \in I : i < j => outputs[i].expr < outputs[j].expr
  BY BuildFacts DEF BuilderInv
<1>2. /\ MapFits(b, ctx, n) /\ \A i \in I : outputs[i].expr \in DOMAIN b.map
      /\ S = {b.map[outputs[i].expr].node : i \in I}
  BY DEF ImportedOutputs, BuilderFits, OutputsAre
<1> HIDE DEF S
<1>3. f \in Surjection(I, S)
  BY <1>2 DEF Surjection
<1>4. ASSUME NEW i \in I, NEW j \in I, f[i] = f[j] PROVE i = j
  <2>1. b.map[outputs[i].expr].node = b.map[outputs[j].expr].node
    BY <1>4
  <2>2. outputs[i].expr = outputs[j].expr
    BY <1>1, <1>2, <2>1 DEF MapFits
  <2>3. outputs[i].expr \in Nat /\ outputs[j].expr \in Nat /\ i \in Int /\ j \in Int
    BY <1>1
  <2>4. ~(i < j) /\ ~(j < i)
    <3>1. ~(outputs[i].expr < outputs[j].expr) /\ ~(outputs[j].expr < outputs[i].expr)
      BY <2>2, <2>3
    <3> QED BY <1>1, <3>1
  <2> QED BY <2>3, <2>4
<1>5. f \in Bijection(I, S)
  <2>1. f \in [I -> S] /\ DOMAIN f = I
    BY <1>3 DEF Surjection
  <2>2. IsInjective(f)
    BY <1>4, <2>1, Zenon DEF IsInjective
  <2> QED BY <1>3, <2>1, <2>2, Zenon DEF Bijection, Injection
<1>6. Cardinality(S) = Len(outputs)
  <2>1. ExistsBijection(I, S)
    BY <1>5, Zenon DEF ExistsBijection
  <2>2. IsFiniteSet(I) /\ Cardinality(I) = Len(outputs)
    BY <1>1, FS_Interval
  <2> QED BY <2>1, <2>2, FS_Bijection, Zenon
<1> QED BY <1>6 DEF S, n

-----------------------------------------------------------------------------
(* What the graph computes.                                                *)

\* The lists and the map of the first build, when it has finished.
TheFirst(a, n) == /\ Well(ctx) /\ BuilderFits(a, ctx, n)
                  /\ a.map = builder.map /\ a.build = 1

\* In the map of the first build, a node is of one expression ...
LEMMA FirstSources ==
    ASSUME NEW a, NEW n, TheFirst(a, n)
    PROVE  /\ Here(1) = DOMAIN a.map /\ Polys(1) = PolysOf(a, ctx)
           /\ \A m : Sources(1, m) = {x \in NodesOf(a, ctx) : a.map[x].node = m}
           /\ \A x \in NodesOf(a, ctx) : Sources(1, a.map[x].node) = {x}
<1>1. MapFits(a, ctx, n) /\ a.map = builder.map /\ a.build = 1
  BY DEF TheFirst, BuilderFits
<1>2. Here(1) = DOMAIN a.map
  BY <1>1 DEF Here, MapFits
<1>3. Polys(1) = PolysOf(a, ctx)
  BY <1>2 DEF Polys, PolysOf
<1>4. Here(1) \ Polys(1) = NodesOf(a, ctx)
  BY <1>2, <1>3 DEF PolysOf, NodesOf
<1>5. \A m : Sources(1, m) = {x \in NodesOf(a, ctx) : a.map[x].node = m}
  BY <1>1, <1>4 DEF Sources
<1>6. \A x, y \in NodesOf(a, ctx) : a.map[x].node = a.map[y].node => x = y
  BY <1>1 DEF MapFits, NodesOf
<1>7. \A x \in NodesOf(a, ctx) : Sources(1, a.map[x].node) = {x}
  BY <1>5, <1>6
<1> QED BY <1>2, <1>3, <1>5, <1>7

LEMMA NodeOfExpression ==
    ASSUME NEW a, NEW n, TheFirst(a, n), NEW x \in NodesOf(a, ctx), NEW s
    PROVE  NodeValue(s, 1, a.map[x].node) = vals[s][x]
<1>1. Sources(1, a.map[x].node) = {x}
  BY FirstSources
<1> DEFINE S == Sources(1, a.map[x].node)
<1>2. S # {} /\ (CHOOSE y \in S : TRUE) = x
  BY <1>1
<1> QED BY <1>2 DEF NodeValue

\* ... or a coefficient of one polynomial, in one place.
LEMMA FirstCoefficients ==
    ASSUME NEW a, NEW n, TheFirst(a, n), NEW x \in PolysOf(a, ctx)
    PROVE  /\ CoefficientsAt(1, x) = 2 .. T + 1
           /\ DOMAIN a.map[x].inputs = 1 .. T + 1
           /\ ctx.exprs[x].args[1] \in NodesOf(a, ctx)
           /\ a.map[x].inputs[1] = a.map[ctx.exprs[x].args[1]].node
<1>1. /\ MapFits(a, ctx, n) /\ SaysProgram(a, ctx, n) /\ a.map = builder.map /\ Well(ctx)
      /\ x \in DOMAIN a.map /\ ctx.exprs[x].kind = "poly" /\ T \in Nat
  BY FrontendAssumption DEF TheFirst, BuilderFits, PolysOf
<1>2. /\ TermFirst(a, ctx, x)
      /\ \A k \in 2 .. T + 1 : ItsOwn(a, ctx, x, a.map[x].inputs[k])
  BY <1>1 DEF SaysProgram
<1>3. DOMAIN a.map[x].inputs = 1 .. T + 1
  BY <1>1, <1>2 DEF MapFits, TermFirst
<1>4. ctx.exprs[x].args[1] \in NodesOf(a, ctx)
  <2>1. x \in 1 .. Created(ctx)
    BY <1>1 DEF MapFits
  <2>2. HasNode(ctx, ctx.exprs[x].args[1])
    BY <1>1, <2>1 DEF Well, Fits
  <2>3. ctx.exprs[ctx.exprs[x].args[1]].kind # "poly"
    BY <2>2 DEF HasNode
  <2> QED BY <1>2, <2>3 DEF TermFirst, NodesOf
<1>5. a.map[x].inputs[1] = a.map[ctx.exprs[x].args[1]].node
  BY <1>2 DEF TermFirst
<1>6. Sources(1, a.map[x].inputs[1]) # {}
  BY <1>4, <1>5, FirstSources
<1>7. \A k \in 2 .. T + 1 : Sources(1, a.map[x].inputs[k]) = {}
  BY <1>2, FirstSources DEF ItsOwn
<1>8. \A k : k \in 1 .. T + 1 <=> k = 1 \/ k \in 2 .. T + 1
  BY <1>1
<1>9. 1 \notin 2 .. T + 1
  BY <1>1
<1>10. CoefficientsAt(1, x) = {k \in 1 .. T + 1 : Sources(1, a.map[x].inputs[k]) = {}}
  BY <1>1, <1>3 DEF CoefficientsAt
<1> QED BY <1>3, <1>4, <1>5, <1>6, <1>7, <1>8, <1>9, <1>10

LEMMA NodeOfCoefficient ==
    ASSUME NEW a, NEW n, TheFirst(a, n), NEW x \in PolysOf(a, ctx), NEW k \in 2 .. T + 1, NEW s
    PROVE  NodeValue(s, 1, a.map[x].inputs[k]) = Coefficient(s, x, k - 1)
<1> DEFINE m == a.map[x].inputs[k]
           isAt(y, j) == builder.map[y].inputs[j] = m
           z == CHOOSE y \in Polys(1) : \E j \in CoefficientsAt(1, y) : isAt(y, j)
           at == CHOOSE j \in CoefficientsAt(1, z) : isAt(z, j)
<1>1. /\ MapFits(a, ctx, n) /\ SaysProgram(a, ctx, n) /\ a.map = builder.map
      /\ x \in DOMAIN a.map /\ ctx.exprs[x].kind = "poly" /\ T \in Nat
  BY FrontendAssumption DEF TheFirst, BuilderFits, PolysOf
<1>2. /\ Polys(1) = PolysOf(a, ctx) /\ \A y \in PolysOf(a, ctx) : CoefficientsAt(1, y) = 2 .. T + 1
      /\ DOMAIN a.map[x].inputs = 1 .. T + 1
  BY FirstSources, FirstCoefficients
<1>3. ItsOwn(a, ctx, x, m) /\ OneByOne(a.map[x].inputs)
  BY <1>1 DEF SaysProgram, MapFits
<1>4. Sources(1, m) = {}
  BY <1>3, FirstSources DEF ItsOwn
<1>5. \A y \in PolysOf(a, ctx) : (\E j \in CoefficientsAt(1, y) : isAt(y, j)) <=> y = x
  <2>1. ASSUME NEW y \in PolysOf(a, ctx), NEW j \in 2 .. T + 1, isAt(y, j) PROVE y = x
    BY <1>1, <1>3, <2>1 DEF ItsOwn
  <2>2. isAt(x, k)
    BY <1>1
  <2> HIDE DEF isAt
  <2> QED BY <1>2, <2>1, <2>2
<1>6. z = x
  <2> HIDE DEF isAt
  <2> QED BY <1>2, <1>5
<1>7. \A j \in 2 .. T + 1 : isAt(x, j) <=> j = k
  <2>1. \A j \in 2 .. T + 1 : j \in 1 .. T + 1
    OBVIOUS
  <2> QED BY <1>1, <1>2, <1>3, <2>1 DEF OneByOne
<1>8. at = k
  <2> HIDE DEF isAt, z
  <2> QED BY <1>2, <1>6, <1>7
<1>9. NodeValue(s, 1, m) = Coefficient(s, z, Cardinality({j \in CoefficientsAt(1, z) : j <= at}))
  BY <1>4, Zenon DEF NodeValue
<1>10. Cardinality({j \in 2 .. T + 1 : j <= k}) = k - 1
  <2>1. {j \in 2 .. T + 1 : j <= k} = 2 .. k
    BY <1>1
  <2>2. Cardinality(2 .. k) = k - 1
    <3>1. 2 \in Int /\ k \in Int /\ ~(2 > k) /\ k - 2 + 1 = k - 1
      BY <1>1
    <3> QED BY <3>1, FS_Interval
  <2> QED BY <2>1, <2>2
<1> HIDE DEF z, at
<1> QED BY <1>2, <1>6, <1>8, <1>9, <1>10 DEF m

\* An operation of an expression computes the node of the expression from those
\* of its operands, for the values of the expressions are right.
LEMMA OperationComputes ==
    ASSUME NEW a, NEW n, TheFirst(a, n), NEW s, Evaluates(s, vals[s], ctx),
           NEW x \in NodesOf(a, ctx), NEW e, e \in a.inE[a.map[x].node + 1],
           NEW node, \A m \in 0 .. n - 1 : node[m] = NodeValue(s, 1, m)
    PROVE  Computes(e, node)
<1> DEFINE f == ctx.exprs[x]
           val == vals[s]
           m == a.map[x].node
<1>1. /\ Lists(a, n) /\ MapFits(a, ctx, n) /\ SaysProgram(a, ctx, n) /\ Well(ctx)
      /\ x \in DOMAIN a.map /\ f.kind # "poly"
  BY DEF TheFirst, BuilderFits, NodesOf
<1>2. /\ x \in 1 .. Created(ctx) /\ f.kind # "constant" /\ m \in 0 .. n - 1
  BY <1>1 DEF MapFits
<1>3. /\ f \in Expr /\ Fits(ctx, f, x) /\ f.args \in Seq(Nat) /\ DOMAIN f.args = 1 .. Len(f.args)
  <2>1. f \in Expr /\ Fits(ctx, f, x)
    BY <1>1, <1>2, WellFacts DEF Well
  <2> QED BY <2>1 DEF Expr
<1>4. /\ e \in BuiltEdge /\ Shaped(e) /\ e.out = m
      /\ \A k \in SrcsOf(e) : k \in 0 .. n - 1
  <2>1. e.out = m /\ FitsBelow(e, n) /\ \A k \in SrcsOf(e) : k \in 0 .. n - 1
    BY <1>1, <1>2, NodeAt
  <2> QED BY <2>1 DEF FitsBelow
<1>5. /\ e.op \in Operator /\ e.ins \in Seq(Nat) /\ DOMAIN e.ins = 1 .. Len(e.ins)
      /\ \A k \in 1 .. Len(e.ins) : e.ins[k] \in 0 .. n - 1
  <2>1. e.op \in Operator /\ e.ins \in Seq(Nat) /\ DOMAIN e.ins = 1 .. Len(e.ins)
    BY <1>4 DEF BuiltEdge
  <2> QED BY <1>4, <2>1 DEF SrcsOf
<1>6. e.op = f.op /\ (IF e.op = "EVAL" THEN TakesPolynomial(a, ctx, x, e.ins)
                      ELSE TakesOperands(a, ctx, x, e.ins))
  BY <1>1 DEF SaysProgram, OperationOf
<1>7. /\ f.op \in {"EVAL", "TRANSIT", "ADD", "MUL", "SCALARMUL", "RECONSTRUCT"}
      /\ f.kind = "share"
  <2>1. f.op \in {"EVAL", "TRANSIT", "ADD", "MUL", "SCALARMUL", "RECONSTRUCT"}
    BY <1>1, <1>3, <1>5, <1>6 DEF Expr, Operators, Operator, Fits
  <2> QED BY <1>1, <1>2, <1>3, <2>1 DEF Expr, Kinds, Fits
<1>8. node[e.out] = Value(s, f, val, x)
  <2>1. node[m] = val[x]
    BY <1>2, NodeOfExpression
  <2>2. val[x] = Value(s, f, val, x)
    BY <1>2 DEF Evaluates
  <2> QED BY <1>4, <2>1, <2>2
<1>9. ASSUME NEW k \in Nat, Leading(ctx, x, k), e.op # "EVAL",
             \A i \in 1 .. k : ctx.exprs[f.args[i]].kind # "poly"
      PROVE  Len(e.ins) = k /\ \A i \in 1 .. k : node[e.ins[i]] = val[f.args[i]]
  <2>1. /\ \A i \in 1 .. k : f.args[i] \in DOMAIN a.map
        /\ AreNodes(a, ctx, x, k, e.ins)
    BY <1>6, <1>9 DEF TakesOperands
  <2>2. ASSUME NEW i \in 1 .. k PROVE node[e.ins[i]] = val[f.args[i]]
    <3>1. e.ins[i] = a.map[f.args[i]].node /\ Len(e.ins) = k
      BY <2>1 DEF AreNodes
    <3>2. f.args[i] \in NodesOf(a, ctx)
      BY <1>9, <2>1 DEF NodesOf
    <3>3. NodeValue(s, 1, a.map[f.args[i]].node) = val[f.args[i]]
      BY <3>2, NodeOfExpression
    <3>4. e.ins[i] \in 0 .. n - 1
      BY <1>5, <3>1
    <3> QED BY <3>1, <3>3, <3>4
  <2> QED BY <2>1, <2>2 DEF AreNodes
<1> HIDE DEF f, val, m
<1>10. ASSUME e.op # "EVAL", NoConstants(ctx, x), \A i \in 1 .. Len(f.args) : ctx.exprs[f.args[i]].kind # "poly"
       PROVE  Len(e.ins) = Len(f.args) /\ \A i \in 1 .. Len(f.args) : node[e.ins[i]] = val[f.args[i]]
  <2>1. Leading(ctx, x, Len(f.args)) /\ Len(f.args) \in Nat
    BY <1>3, <1>10, AllLead DEF f
  <2> QED BY <1>9, <1>10, <2>1
<1>11. ASSUME \A i \in 1 .. Len(f.args) : HasNode(ctx, f.args[i])
       PROVE  /\ NoConstants(ctx, x)
              /\ \A i \in 1 .. Len(f.args) : ctx.exprs[f.args[i]].kind # "poly"
  BY <1>3, <1>11 DEF HasNode, NoConstants, f
<1>12. CASE f.op = "TRANSIT"
  <2>1. Len(f.args) = 1 /\ HasNode(ctx, f.args[1])
    BY <1>3, <1>12 DEF Fits
  <2>2. node[e.ins[1]] = val[f.args[1]]
    BY <1>6, <1>10, <1>11, <1>12, <2>1
  <2>3. Value(s, f, val, x) = val[f.args[1]]
    BY <1>7, <1>12, CopiedValue
  <2> QED BY <1>6, <1>8, <1>12, <2>2, <2>3 DEF Computes
<1>13. CASE f.op \in {"ADD", "MUL"}
  <2>1. Len(f.args) = 2 /\ HasNode(ctx, f.args[1]) /\ HasNode(ctx, f.args[2])
    BY <1>3, <1>13 DEF Fits
  <2>2. \A i \in 1 .. 2 : HasNode(ctx, f.args[i])
    BY <2>1
  <2>3. node[e.ins[1]] = val[f.args[1]] /\ node[e.ins[2]] = val[f.args[2]]
    BY <1>6, <1>10, <1>11, <1>13, <2>1, <2>2
  <2>4. Value(s, f, val, x) = IF f.op = "ADD" THEN Plus(val[f.args[1]], val[f.args[2]])
                              ELSE Times(val[f.args[1]], val[f.args[2]])
    BY <1>7, <1>13, BinaryValue
  <2> QED BY <1>6, <1>8, <1>13, <2>3, <2>4 DEF Computes
<1>14. CASE f.op = "SCALARMUL"
  <2>1. Len(f.args) = 2 /\ HasNode(ctx, f.args[1]) /\ ctx.exprs[f.args[2]].kind = "constant"
    BY <1>3, <1>14 DEF Fits
  <2>2. Leading(ctx, x, 1) /\ \A i \in 1 .. 1 : ctx.exprs[f.args[i]].kind # "poly"
    <3>1. \A i \in 1 .. 2 : i = 1 \/ i = 2
      OBVIOUS
    <3> QED BY <2>1, <3>1 DEF Leading, HasNode, f
  <2>3. node[e.ins[1]] = val[f.args[1]]
    BY <1>6, <1>9, <1>14, <2>2
  <2>4. Value(s, f, val, x) = Times(val[f.args[1]], val[f.args[2]])
    BY <1>7, <1>14, BinaryValue
  <2> DEFINE y == f.args[2]
             g == ctx.exprs[y]
             Factors == {ScaleFactor} \cup {Weight(FieldSize, PartyCnt, p, Everyone) : p \in Everyone}
  <2>5. y \in 1 .. Created(ctx)
    <3>1. y \in 1 .. x - 1
      BY <1>3, <2>1 DEF Fits
    <3>2. Created(ctx) \in Nat
      BY <1>1, WellFacts
    <3> QED BY <1>2, <3>1, <3>2
  <2>6. val[y] \in Factors
    <3>1. g \in Expr /\ Fits(ctx, g, y) /\ g.kind = "constant" /\ val[y] = Value(s, g, val, y)
      BY <1>1, <2>1, <2>5, WellFacts DEF Well, Evaluates, val
    <3>2. g.op = "INPUT" /\ (g.at = 0 \/ g.at \in Everyone)
      BY <3>1, FrontendAssumption DEF Fits, Expr, Everyone
    <3> HIDE DEF g, y
    <3>3. val[y] = IF g.at = 0 THEN ScaleFactor ELSE Weight(FieldSize, PartyCnt, g.at, Everyone)
      BY <3>1, <3>2, ConstantValue
    <3> QED BY <3>2, <3>3
  <2>7. node[e.out] = Times(node[e.ins[1]], val[y])
    BY <1>8, <2>3, <2>4
  <2> HIDE DEF y
  <2> QED BY <1>6, <1>14, <2>6, <2>7 DEF Computes
<1>15. CASE f.op = "RECONSTRUCT"
  <2>1. \A i \in 1 .. Len(f.args) : HasNode(ctx, f.args[i])
    BY <1>3, <1>15 DEF Fits
  <2>2. Len(e.ins) = Len(f.args) /\ \A i \in 1 .. Len(f.args) : node[e.ins[i]] = val[f.args[i]]
    BY <1>6, <1>10, <1>11, <1>15, <2>1
  <2>3. [k \in DOMAIN e.ins |-> node[e.ins[k]]] = [i \in DOMAIN f.args |-> val[f.args[i]]]
    BY <1>3, <1>5, <2>2
  <2>4. Value(s, f, val, x) = At0(FieldSize, PartyCnt, [i \in DOMAIN f.args |-> val[f.args[i]]], Everyone)
    BY <1>7, <1>15, ReconstructedValue
  <2> QED BY <1>6, <1>8, <1>15, <2>3, <2>4 DEF Computes
<1>16. CASE f.op = "EVAL"
  <2> DEFINE y == f.args[1]
             z == ctx.exprs[y].args[1]
  <2>1. y \in DOMAIN a.map /\ e.ins = a.map[y].inputs
    BY <1>6, <1>16 DEF TakesPolynomial, f
  <2>2. Len(f.args) = 1 /\ ctx.exprs[y].kind = "poly" /\ f.at \in Everyone
    BY <1>3, <1>16 DEF Fits, Everyone
  <2>3. y \in PolysOf(a, ctx)
    BY <2>1, <2>2 DEF PolysOf
  <2>4. z \in NodesOf(a, ctx) /\ e.ins[1] = a.map[z].node /\ DOMAIN e.ins = 1 .. T + 1
    BY <2>1, <2>3, FirstCoefficients
  <2>5. node[e.ins[1]] = val[z]
    <3>1. 1 \in DOMAIN e.ins /\ T \in Nat
      BY <2>4, FrontendAssumption
    <3>2. e.ins[1] \in 0 .. n - 1
      BY <1>5, <3>1
    <3>3. NodeValue(s, 1, a.map[z].node) = val[z]
      BY <2>4, NodeOfExpression DEF val
    <3> QED BY <2>4, <3>2, <3>3
  <2>6. \A j \in 1 .. T : node[e.ins[j + 1]] = Coefficient(s, y, j)
    <3> SUFFICES ASSUME NEW j \in 1 .. T PROVE node[e.ins[j + 1]] = Coefficient(s, y, j)
      OBVIOUS
    <3>1. j + 1 \in 2 .. T + 1 /\ (j + 1) - 1 = j /\ j + 1 \in 1 .. T + 1
      BY FrontendAssumption
    <3>2. e.ins[j + 1] \in 0 .. n - 1
      BY <1>5, <2>4, <3>1
    <3>3. NodeValue(s, 1, a.map[y].inputs[j + 1]) = Coefficient(s, y, (j + 1) - 1)
      BY <2>3, <3>1, NodeOfCoefficient
    <3> QED BY <2>1, <3>1, <3>2, <3>3
  <2>7. val[y] = val[z]
    <3>1. y \in 1 .. Created(ctx)
      BY <1>1, <2>1 DEF MapFits
    <3>2. val[y] = Value(s, ctx.exprs[y], val, y) /\ Fits(ctx, ctx.exprs[y], y)
      BY <1>1, <3>1 DEF Evaluates, Well, val
    <3>3. ctx.exprs[y].op = "POLILIZE"
      BY <2>2, <3>2 DEF Fits
    <3> QED BY <2>2, <3>2, <3>3, CopiedValue
  <2>8. Value(s, f, val, x) = PolyAt(s, val[y], y, f.at)
    BY <1>7, <1>16, EvaluatedValue
  <2> HIDE DEF y, z
  <2>9. [j \in 1 .. T |-> node[e.ins[j + 1]]] = [j \in 1 .. T |-> Coefficient(s, y, j)]
    BY <2>6
  <2>10. node[e.out] = Polynomial(FieldSize, node[e.ins[1]], [j \in 1 .. T |-> node[e.ins[j + 1]]], f.at)
    BY <1>8, <2>5, <2>7, <2>8, <2>9 DEF PolyAt
  <2> QED BY <1>6, <1>16, <2>2, <2>10 DEF Computes
<1> QED BY <1>7, <1>12, <1>13, <1>14, <1>15, <1>16

\* The values of the program's expressions are right, and stay so.
ValuesInv == BuilderInv /\ ValuesFit(ctx, vals)

LEMMA ValuesInitInv == SamplesInField /\ MeaningInit => ValuesInv
BY BuilderInitInv, MeaningInitInv DEF MeaningInit, ValuesInv, MeaningInv, Mean

LEMMA ValuesStep ==
    SamplesInField /\ ~Reassigned /\ ValuesInv /\ [MeaningNext]_<<allVars, vals>> => ValuesInv'
<1> SUFFICES ASSUME SamplesInField, ~Reassigned, ValuesInv, [MeaningNext]_<<allVars, vals>>
             PROVE  ValuesInv'
  OBVIOUS
<1>1. BuilderInv'
  BY BuilderStep DEF ValuesInv, MeaningNext
<1>2. Program /\ Program' /\ Well(ctx) /\ Well(ctx')
  BY <1>1 DEF ValuesInv, BuilderInv, FrontendInv, Program
<1>3. CASE MeaningNext
  <2>1. Next /\ vals' = [s \in Samples |-> Evaluated(s, ctx'.exprs, vals[s])]
    BY <1>3 DEF MeaningNext
  <2>2. Grown(ctx, ctx')
    <3>1. CASE Call
      BY <1>2, <3>1, OperationKeeps DEF Call
    <3>2. CASE UNCHANGED vars
      BY <1>2, <3>2, WellFacts DEF vars
    <3> QED BY <2>1, <3>1, <3>2
            DEF Next, StartBuild, CallImport, CallOperand, Return, FinishBuild
  <2>3. ASSUME NEW s \in Samples PROVE vals'[s] \in ValuedUpTo(s, ctx', vals'[s], Created(ctx'))
    <3> DEFINE d == ctx'
               w == vals'[s]
    <3>1. w = Evaluated(s, d.exprs, vals[s]) /\ InField(s)
      BY <2>1 DEF SamplesInField
    <3>2. vals[s] \in ValuedUpTo(s, ctx, vals[s], Created(ctx))
      BY DEF ValuesInv, ValuesFit
    <3>3. Well(d) /\ Grown(ctx, d)
      BY <1>2, <2>2
    <3> HIDE DEF d, w
    <3>4. w \in ValuedUpTo(s, d, w, Created(d))
      BY <1>2, <3>1, <3>2, <3>3, MoreValues
    <3> QED BY <3>4 DEF d, w
  <2> QED BY <1>1, <2>3 DEF ValuesInv, ValuesFit
<1>4. CASE UNCHANGED <<allVars, vals>>
  <2>1. ctx' = ctx /\ vals' = vals
    BY <1>4 DEF allVars, vars
  <2> QED BY <1>1, <2>1 DEF ValuesInv, ValuesFit
<1> QED BY <1>3, <1>4

LEMMA GraphsCompute == SamplesInField /\ ValuesInv => GraphHoldsProgram
<1> SUFFICES ASSUME SamplesInField, ValuesInv, NEW i \in DOMAIN built, NEW s \in Samples,
                    NEW e \in EdgesOf(built[i])
             PROVE  Computes(e, [m \in Ids(built[i]) |-> NodeValue(s, i, m)])
  BY DEF GraphHoldsProgram
<1>1. BuilderInv /\ ResultsFit /\ Well(ctx) /\ built # <<>>
  BY DEF ValuesInv, BuilderInv, FrontendInv, Program
<1>2. i = 1
  <2> SUFFICES ASSUME i # 1 PROVE FALSE
    OBVIOUS
  <2>1. PICK b : b.nodes = <<>> /\ built[i] = GraphOf(b)
    BY <1>1 DEF ResultsFit
  <2>2. DOMAIN built[i].nodes = {}
    BY <2>1 DEF GraphOf, BuiltGraph
  <2> QED BY <2>2 DEF EdgesOf, Ids
<1>3. PICK a : /\ a.map = builder.map /\ ImportedOutputs(a, ctx, outputs, Len(outputs))
               /\ built[1] = GraphOf(a)
  BY <1>1 DEF ResultsFit, FirstGraph
<1> DEFINE n == Len(a.nodes)
           node == [m \in Ids(built[1]) |-> NodeValue(s, 1, m)]
<1>4. TheFirst(a, n) /\ SaysProgram(a, ctx, n) /\ n \in Nat
  BY <1>1, <1>3, ImportedLists DEF ImportedOutputs, TheFirst, BuilderFits
<1>5. /\ Ids(built[1]) = 0 .. n - 1
      /\ \A m \in 0 .. n - 1 : built[1].inE[m] = a.inE[m + 1]
  BY <1>3 DEF GraphOf, BuiltGraph, Ids
<1> HIDE DEF n
<1>6. PICK m \in 0 .. n - 1 : e \in a.inE[m + 1]
  BY <1>2, <1>5 DEF EdgesOf
<1>7. PICK x \in NodesOf(a, ctx) : a.map[x].node = m
  <2>1. m + 1 \in 1 .. n /\ (m + 1) - 1 = m
    BY <1>4
  <2> QED BY <1>4, <1>6, <2>1 DEF SaysProgram
<1>8. Evaluates(s, vals[s], ctx)
  <2>1. vals[s] \in ValuedUpTo(s, ctx, vals[s], Created(ctx)) /\ InField(s)
    BY DEF ValuesInv, ValuesFit, SamplesInField
  <2>2. /\ vals[s] \in Seq(Int) /\ Len(vals[s]) = Created(ctx)
        /\ \A k \in 1 .. Created(ctx) : vals[s][k] = Value(s, ctx.exprs[k], vals[s], k)
    BY <2>1 DEF ValuedUpTo
  <2>3. \A k \in 1 .. Created(ctx) : vals[s][k] \in Int
    BY <2>2
  <2> QED BY <2>1, <2>2, <2>3 DEF Evaluates
<1>9. \A k \in 0 .. n - 1 : node[k] = NodeValue(s, 1, k)
  BY <1>5
<1> HIDE DEF node
<1>10. e \in a.inE[a.map[x].node + 1] /\ TheFirst(a, n)
  BY <1>4, <1>6, <1>7
<1>11. Computes(e, node)
  BY <1>8, <1>9, <1>10, OperationComputes
<1> QED BY <1>2, <1>11 DEF node

-----------------------------------------------------------------------------
(* The theorems.                                                           *)

THEOREM BuilderInvariant ==
    ASSUME ~Reassigned
    PROVE  Spec => []BuilderInv
<1>1. FrontendInit => BuilderInv
  BY BuilderInitInv
<1>2. BuilderInv /\ [Next]_allVars => BuilderInv'
  BY BuilderStep
<1> QED BY <1>1, <1>2, PTL DEF Spec

\* Whatever build() returns, for the first time or again, is a graph the
\* rewriters can work with: its lists agree (graph_builder.hpp:97), every node is
\* computed from earlier ones, and every operation has the inputs it needs.
THEOREM GraphsFit ==
    ASSUME ~Reassigned
    PROVE  Spec => []BuiltGraphFits
<1>1. BuilderInv => BuiltGraphFits
  <2> SUFFICES ASSUME BuilderInv, NEW i \in DOMAIN built PROVE Usable(AsGraph(built[i]))
    BY DEF BuiltGraphFits, Usable, Shaped, OneByOne
  <2>1. PICK b : Lists(b, Len(b.nodes)) /\ built[i] = GraphOf(b)
    BY DEF BuilderInv, ResultsFit
  <2> QED BY <2>1, BuiltGraphGood
<1> QED BY <1>1, BuilderInvariant, PTL

\* What Prover and Rewriting suppose of Base[p] is so for every graph that
\* build() returns: the prover takes it as it is.  The theorems about the search hold of
\* whatever the front end builds.
THEOREM BuiltForTheSearch ==
    ASSUME ~Reassigned
    PROVE  Spec => [](\A i \in DOMAIN built : GivenToTheSearch(built[i]))
<1>1. BuilderInv => \A i \in DOMAIN built : GivenToTheSearch(built[i])
  <2> SUFFICES ASSUME BuilderInv, NEW i \in DOMAIN built PROVE GivenToTheSearch(built[i])
    OBVIOUS
  <2>1. PICK b : Lists(b, Len(b.nodes)) /\ built[i] = GraphOf(b)
    BY DEF BuilderInv, ResultsFit
  <2> QED BY <2>1, BuiltGraphHandedOver
<1> QED BY <1>1, BuilderInvariant, PTL

\* A program that is built once: its graph has a random node for each random
\* value and for each coefficient of its polynomials, an input for each secret
\* and each given share, an output for each yield, and no other ones
\* (the map of graph_builder.hpp:19 makes every node only once).
THEOREM RandomnessOnce ==
    ASSUME ~Reassigned
    PROVE  Spec => [](Len(built) <= 1 => EveryRandomnessOnce)
<1>1. BuilderInv /\ Len(built) <= 1 => EveryRandomnessOnce
  <2> SUFFICES ASSUME BuilderInv, Len(built) <= 1, NEW i \in DOMAIN built
               PROVE  LET g == AsGraph(built[i])
                          used == {x \in DOMAIN builder.map : builder.map[x].build = i}
                          count(kind) == Cardinality({x \in used : ctx.exprs[x].kind = kind})
                          ofType(type) == {n \in Ids(g) : g.nodes[n].type = type}
                      IN /\ g.rnd = T * count("poly") + count("randomness")
                         /\ Cardinality(ofType("INPUT"))
                              = count("secret")
                                + Cardinality({x \in used : /\ ctx.exprs[x].kind = "share"
                                                            /\ ctx.exprs[x].op = "INPUT"})
                         /\ Cardinality(ofType("OUTPUT")) = Len(outputs)
    BY DEF EveryRandomnessOnce
  <2> DEFINE g == AsGraph(built[i])
             used == {x \in DOMAIN builder.map : builder.map[x].build = i}
  <2>1. Len(built) \in Nat /\ DOMAIN built = 1 .. Len(built)
    BY BuildFacts DEF BuilderInv
  <2>2. i = 1 /\ built # <<>>
    BY <2>1
  <2>3. PICK a : /\ a.map = builder.map /\ ImportedOutputs(a, ctx, outputs, Len(outputs))
                 /\ built[1] = GraphOf(a)
    BY <2>2 DEF BuilderInv, ResultsFit, FirstGraph
  <2> DEFINE n == Len(a.nodes)
  <2>4. Lists(a, n) /\ MapFits(a, ctx, n) /\ CountsNodes(a, ctx, n) /\ a.build = 1
    BY <2>3 DEF ImportedOutputs, BuilderFits
  <2>5. used = DOMAIN a.map
    BY <2>2, <2>3, <2>4 DEF MapFits
  <2>6. /\ g.rnd = Cardinality(RandomIds(a, n))
        /\ \A type : {m \in Ids(g) : g.nodes[m].type = type} = IdsOf(a, n, type)
    BY <2>2, <2>3, <2>4, BuiltCounts
  <2>7. /\ \A kind : {x \in used : ctx.exprs[x].kind = kind} = Used(a, ctx, kind)
        /\ {x \in used : ctx.exprs[x].kind = "share" /\ ctx.exprs[x].op = "INPUT"} = UsedShares(a, ctx)
    BY <2>5 DEF Used, UsedShares
  <2>8. Cardinality(IdsOf(a, n, "OUTPUT")) = Len(outputs)
    BY <2>3, OutputCount
  <2> HIDE DEF g, used, n
  <2>9. /\ Cardinality(RandomIds(a, n))
             = T * Cardinality(Used(a, ctx, "poly")) + Cardinality(Used(a, ctx, "randomness"))
        /\ Cardinality(IdsOf(a, n, "INPUT"))
             = Cardinality(Used(a, ctx, "secret")) + Cardinality(UsedShares(a, ctx))
    BY <2>4 DEF CountsNodes
  <2> QED BY <2>6, <2>7, <2>8, <2>9, Zenon DEF g, used
<1> QED BY <1>1, BuilderInvariant, PTL

\* The graph that is verified computes what the program computes
\* (graph_builder.hpp:30): an operation takes the nodes of its expression's
\* operands in their order, an evaluation the constant term first and then the
\* polynomial's own coefficients, and later builds have no operations.
THEOREM GraphsComputeTheProgram ==
    ASSUME SamplesInField, ~Reassigned
    PROVE  MeaningSpec => []GraphHoldsProgram
<1>1. MeaningInit => ValuesInv
  BY ValuesInitInv
<1>2. ValuesInv /\ [MeaningNext]_<<allVars, vals>> => ValuesInv'
  BY ValuesStep
<1>3. ValuesInv => GraphHoldsProgram
  BY GraphsCompute
<1> QED BY <1>1, <1>2, <1>3, PTL DEF MeaningSpec
=============================================================================
