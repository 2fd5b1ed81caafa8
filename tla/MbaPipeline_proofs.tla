------------------------ MODULE MbaPipeline_proofs ------------------------
(***************************************************************************)
(* What the tables serve is equal to what they serve it for, what the      *)
(* native solver is given denotes what it is asked about, and the staged   *)
(* proof decides every answer it attempts: for every block, every solver   *)
(* and every width.                                                        *)
(***************************************************************************)
EXTENDS MbaPipeline, WidthProof_proofs, SequenceTheorems

----------------------------------------------------------------------------
(* The trees of half the depth, which are those that are lifted.           *)
Half == TreeDepth \div 2

LEMMA LiftedFacts ==
    /\ Half \in Nat /\ 2 * Half <= TreeDepth
    /\ LiftedTrees = Layer(Half) /\ LiftedTrees \subseteq Trees
    /\ Refused \notin Trees
<1>1. Half \in Nat /\ 2 * Half <= TreeDepth /\ Half <= TreeDepth
  BY TreeDepthAssumption DEF Half
<1>2. LiftedTrees = Layer(Half)
  BY <1>1 DEF LiftedTrees, Layer, Half
<1>3. LiftedTrees \subseteq Trees
  BY <1>1, <1>2, LayersAreTrees
<1>4. Refused \notin Trees
  BY TreeShape DEF Refused, IsConst, IsVar, IsUn, IsBin
<1> QED BY <1>1, <1>2, <1>3, <1>4

LEMMA LayersGrow ==
    \A d \in Nat : Layer(d) \subseteq Layer(d + 1)
<1> TAKE d \in Nat
<1>1. CASE d + 1 <= TreeDepth
  <2>1. d + 1 \in 1 .. TreeDepth /\ (d + 1) - 1 = d /\ d <= TreeDepth
    BY <1>1, TreeDepthAssumption
  <2> QED BY <1>1, <2>1, Deeper DEF Layer
<1>2. CASE ~ (d + 1 <= TreeDepth)
  BY <1>2, LayersAreTrees DEF Layer
<1> QED BY <1>1, <1>2

----------------------------------------------------------------------------
(* The array: a node of it points only at nodes before it.                 *)
Unaries == {"not", "neg"}
Binaries == {"add", "mul", "and", "or", "xor"}

PointsBack(nodes) ==
    /\ nodes \in Seq(ArrayNodes)
    /\ \A i \in 1 .. Len(nodes) :
          /\ nodes[i].kind \in Unaries => nodes[i].child0 \in 1 .. i - 1
          /\ nodes[i].kind \in Binaries => /\ nodes[i].child0 \in 1 .. i - 1
                                           /\ nodes[i].child1 \in 1 .. i - 1

NodeBuilt(built, node, order) ==
    CASE node.kind = "constant" -> Const(node.constant)
      [] node.kind = "variable" -> IF node.var \in DOMAIN order
                                   THEN Var(order[node.var]) ELSE Refused
      [] node.kind = "shr" -> Refused
      [] node.kind = "not" -> Unary("~", built[node.child0])
      [] node.kind = "neg" -> Unary("-", built[node.child0])
      [] OTHER -> Binary(OperatorFor(node.kind), built[node.child0], built[node.child1])

AllBuilt(built, nodes, order) ==
    \A i \in 1 .. Len(nodes) : /\ Build(nodes, i, order) = built[i]
                               /\ built[i] = NodeBuilt(built, nodes[i], order)

LEMMA BuildUnfold ==
    ASSUME NEW nodes, NEW order, PointsBack(nodes)
    PROVE  \E built : AllBuilt(built, nodes, order)
<1> DEFINE n == Len(nodes)
           Body(p, i) == NodeBuilt(p, nodes[i], order)
           Correct(p, k) == \A i \in 1 .. n : i <= k => p[i] = Body(p, i)
           Reached == {k \in Nat : \E p : Correct(p, k)}
           built == CHOOSE p : p = [i \in DOMAIN nodes |-> Body(p, i)]
<1>0. DOMAIN nodes = 1 .. n /\ n \in Nat
  BY DEF PointsBack
<1>1. ASSUME NEW p, NEW q, NEW i \in 1 .. n, \A j \in 1 .. i - 1 : p[j] = q[j]
      PROVE  Body(p, i) = Body(q, i)
  <2>1. /\ nodes[i].kind \in Unaries => p[nodes[i].child0] = q[nodes[i].child0]
        /\ nodes[i].kind \in Binaries => /\ p[nodes[i].child0] = q[nodes[i].child0]
                                         /\ p[nodes[i].child1] = q[nodes[i].child1]
    BY <1>1 DEF PointsBack
  <2>2. nodes[i].kind \in {"constant", "variable", "shr"} \cup Unaries \cup Binaries
    <3>1. nodes \in Seq(ArrayNodes) /\ i \in 1 .. Len(nodes)
      BY DEF PointsBack
    <3>2. nodes[i] \in ArrayNodes
      BY <3>1
    <3> QED BY <3>2 DEF ArrayNodes, Unaries, Binaries
  <2> QED BY <2>1, <2>2 DEF NodeBuilt, Unaries, Binaries
<1> HIDE DEF n, Body
<1>2. 0 \in Reached
  <2>1. \A p : Correct(p, 0)
    BY <1>0
  <2> HIDE DEF Correct
  <2> QED BY <2>1
<1>3. ASSUME NEW k \in Nat, k \in Reached PROVE k + 1 \in Reached
  <2>1. PICK p : Correct(p, k)
    BY <1>3
  <2> DEFINE q == [i \in 1 .. n |-> Body(p, i)]
  <2>2. ASSUME NEW i \in 1 .. n, i <= k + 1 PROVE q[i] = Body(q, i)
    <3>1. \A j \in 1 .. i - 1 : j \in 1 .. n /\ j <= k
      BY <1>0, <2>2
    <3>2. \A j \in 1 .. i - 1 : q[j] = p[j]
      BY <2>1, <3>1
    <3>3. q[i] = Body(p, i)
      OBVIOUS
    <3> HIDE DEF q
    <3> QED BY <1>1, <3>2, <3>3
  <2>3. Correct(q, k + 1)
    BY <2>2
  <2> HIDE DEF q, Correct
  <2>4. k + 1 \in Nat /\ \E r : Correct(r, k + 1)
    BY <2>3
  <2> QED BY <2>4
<1>4. \E p : p = [i \in 1 .. n |-> Body(p, i)]
  <2>1. n \in Reached
    <3> HIDE DEF Reached
    <3> QED BY <1>0, <1>2, <1>3, Induction
  <2>2. PICK p : \A i \in 1 .. n : p[i] = Body(p, i)
    <3>1. PICK p : Correct(p, n)
      BY <2>1
    <3>2. \A i \in 1 .. n : i <= n
      BY <1>0
    <3>3. \A i \in 1 .. n : p[i] = Body(p, i)
      BY <3>1, <3>2, Zenon
    <3> QED BY <3>3, Zenon
  <2> DEFINE q == [i \in 1 .. n |-> p[i]]
  <2>3. ASSUME NEW i \in 1 .. n PROVE q[i] = Body(q, i)
    <3>1. \A j \in 1 .. i - 1 : j \in 1 .. n
      BY <1>0
    <3>2. \A j \in 1 .. i - 1 : q[j] = p[j]
      BY <3>1
    <3>3. q[i] = Body(p, i)
      BY <2>2
    <3> HIDE DEF q
    <3> QED BY <1>1, <3>2, <3>3
  <2>4. q = [i \in 1 .. n |-> Body(q, i)]
    BY <2>3, Zenon
  <2> HIDE DEF q
  <2> QED BY <2>4
<1>5. built = [i \in 1 .. n |-> Body(built, i)]
  BY <1>0, <1>4
<1>6. \A i \in 1 .. n : Build(nodes, i, order) = built[i]
  BY DEF Build, NodeBuilt, Body
<1> HIDE DEF built
<1>7. \A i \in 1 .. n : built[i] = NodeBuilt(built, nodes[i], order)
  BY <1>5, Zenon DEF Body
<1>8. AllBuilt(built, nodes, order)
  BY <1>6, <1>7 DEF n, AllBuilt
<1> QED BY <1>8

LEMMA OperatorForKind ==
    \A op \in {"+", "*", "&", "|", "^"} : KindOf[op] \in Binaries /\ OperatorFor(KindOf[op]) = op
<1>1. DOMAIN KindOf = {"+", "*", "&", "|", "^"}
  BY DEF KindOf
<1>2. /\ KindOf["+"] = "add" /\ KindOf["*"] = "mul" /\ KindOf["&"] = "and"
      /\ KindOf["|"] = "or" /\ KindOf["^"] = "xor"
  BY DEF KindOf
<1>3. \A o, p \in {"+", "*", "&", "|", "^"} : KindOf[o] = KindOf[p] => o = p
  BY <1>2
<1>4. ASSUME NEW op \in {"+", "*", "&", "|", "^"} PROVE OperatorFor(KindOf[op]) = op
  <2>1. \E o \in DOMAIN KindOf : KindOf[o] = KindOf[op]
    BY <1>1
  <2>2. OperatorFor(KindOf[op]) \in DOMAIN KindOf
        /\ KindOf[OperatorFor(KindOf[op])] = KindOf[op]
    BY <2>1 DEF OperatorFor
  <2> QED BY <1>1, <1>3, <2>2
<1> QED BY <1>2, <1>4 DEF Binaries

(* What is rebuilt of each kind of node.                                   *)
LEMMA BuildAt ==
    ASSUME NEW nodes, NEW order, PointsBack(nodes), NEW i \in 1 .. Len(nodes)
    PROVE  /\ nodes[i].kind = "constant" => Build(nodes, i, order) = Const(nodes[i].constant)
           /\ nodes[i].kind = "variable" =>
                  Build(nodes, i, order) =
                      IF nodes[i].var \in DOMAIN order THEN Var(order[nodes[i].var]) ELSE Refused
           /\ nodes[i].kind = "not" =>
                  Build(nodes, i, order) = Unary("~", Build(nodes, nodes[i].child0, order))
           /\ nodes[i].kind = "neg" =>
                  Build(nodes, i, order) = Unary("-", Build(nodes, nodes[i].child0, order))
           /\ nodes[i].kind \in Binaries =>
                  Build(nodes, i, order)
                    = Binary(OperatorFor(nodes[i].kind), Build(nodes, nodes[i].child0, order),
                             Build(nodes, nodes[i].child1, order))
           /\ nodes[i].kind = "shr" => Build(nodes, i, order) = Refused
<1>0. PICK built : AllBuilt(built, nodes, order)
  BY BuildUnfold
<1>1. \A j \in 1 .. Len(nodes) : /\ Build(nodes, j, order) = built[j]
                                 /\ built[j] = NodeBuilt(built, nodes[j], order)
  BY <1>0 DEF AllBuilt
<1>2. Build(nodes, i, order) = NodeBuilt(built, nodes[i], order)
  BY <1>1
<1>3. /\ nodes[i].kind \in Unaries =>
             Build(nodes, nodes[i].child0, order) = built[nodes[i].child0]
      /\ nodes[i].kind \in Binaries =>
             /\ Build(nodes, nodes[i].child0, order) = built[nodes[i].child0]
             /\ Build(nodes, nodes[i].child1, order) = built[nodes[i].child1]
  <2>1. Len(nodes) \in Nat
    BY DEF PointsBack
  <2>2. \A j \in 1 .. i - 1 : j \in 1 .. Len(nodes)
    BY <2>1
  <2> QED BY <1>1, <2>2 DEF PointsBack
<1> QED BY <1>2, <1>3 DEF NodeBuilt, Unaries, Binaries

(* An array that only goes on from another one denotes the same up to it.  *)
Extends(out, before) ==
    /\ PointsBack(out) /\ Len(before) <= Len(out)
    /\ \A i \in 1 .. Len(before) : out[i] = before[i]

LEMMA ExtendsAppend ==
    ASSUME NEW nodes, PointsBack(nodes), NEW node \in ArrayNodes,
           node.kind \in Unaries => node.child0 \in 1 .. Len(nodes),
           node.kind \in Binaries => {node.child0, node.child1} \subseteq 1 .. Len(nodes)
    PROVE  Extends(Append(nodes, node), nodes)
<1> DEFINE n == Len(nodes)
           out == Append(nodes, node)
<1>1. nodes \in Seq(ArrayNodes) /\ n \in Nat
  BY DEF PointsBack
<1>2. /\ out \in Seq(ArrayNodes) /\ Len(out) = n + 1 /\ out[n + 1] = node
      /\ \A i \in 1 .. n : out[i] = nodes[i]
  BY <1>1
<1> HIDE DEF out
<1>3. ASSUME NEW i \in 1 .. n + 1
      PROVE  /\ out[i].kind \in Unaries => out[i].child0 \in 1 .. i - 1
             /\ out[i].kind \in Binaries => /\ out[i].child0 \in 1 .. i - 1
                                            /\ out[i].child1 \in 1 .. i - 1
  <2>1. CASE i \in 1 .. n
    BY <1>2, <2>1 DEF PointsBack
  <2>2. CASE i = n + 1
    <3>1. (n + 1) - 1 = n
      BY <1>1
    <3> QED BY <1>2, <2>2, <3>1
  <2> QED BY <1>1, <2>1, <2>2
<1> QED BY <1>1, <1>2, <1>3 DEF Extends, PointsBack, out

LEMMA ExtendsTransitive ==
    ASSUME NEW a, NEW b, NEW c, PointsBack(a), Extends(b, a), Extends(c, b)
    PROVE  Extends(c, a)
<1>1. Len(a) \in Nat /\ Len(b) \in Nat /\ Len(c) \in Nat
  BY DEF Extends, PointsBack
<1>2. Len(a) <= Len(c) /\ \A i \in 1 .. Len(a) : i \in 1 .. Len(b)
  BY <1>1 DEF Extends
<1> QED BY <1>2 DEF Extends

LEMMA BuildStable ==
    ASSUME NEW before, NEW out, NEW order, PointsBack(before), Extends(out, before)
    PROVE  \A i \in 1 .. Len(before) : Build(out, i, order) = Build(before, i, order)
<1> DEFINE n == Len(before)
           Same_(i) == Build(out, i, order) = Build(before, i, order)
           Good == {k \in Nat : \A i \in 1 .. n : i <= k => Same_(i)}
<1>0. n \in Nat /\ \A i \in 1 .. n : i \in 1 .. Len(out)
  BY DEF Extends, PointsBack
<1>1. 0 \in Good
  OBVIOUS
<1>2. ASSUME NEW k \in Nat, k \in Good, NEW i \in 1 .. n, i <= k + 1 PROVE Same_(i)
  <2>1. \A j \in 1 .. i - 1 : Same_(j)
    <3>1. \A j \in 1 .. i - 1 : j \in 1 .. n /\ j <= k
      BY <1>0, <1>2
    <3> HIDE DEF Same_
    <3> QED BY <1>2, <3>1
  <2>2. out[i] = before[i] /\ i \in 1 .. Len(out) /\ PointsBack(out)
    BY <1>0 DEF Extends
  <2>3. before[i].kind \in {"constant", "variable", "shr"} \cup Unaries \cup Binaries
    <3>1. before[i] \in ArrayNodes
      BY DEF PointsBack
    <3> QED BY <3>1 DEF ArrayNodes, Unaries, Binaries
  <2>4. CASE before[i].kind = "constant"
    BY <2>2, <2>4, BuildAt
  <2>5. CASE before[i].kind = "variable"
    BY <2>2, <2>5, BuildAt
  <2>6. CASE before[i].kind = "shr"
    BY <2>2, <2>6, BuildAt
  <2>7. CASE before[i].kind \in Unaries
    <3>1. Same_(before[i].child0)
      BY <2>1, <2>7 DEF PointsBack
    <3> QED BY <2>2, <2>7, <3>1, BuildAt, SMTT(30) DEF Unaries
  <2>8. CASE before[i].kind \in Binaries
    <3>1. Same_(before[i].child0) /\ Same_(before[i].child1)
      BY <2>1, <2>8 DEF PointsBack
    <3> QED BY <2>2, <2>8, <3>1, BuildAt
  <2> QED BY <2>3, <2>4, <2>5, <2>6, <2>7, <2>8
<1>3. \A k \in Nat : k \in Good => k + 1 \in Good
  BY <1>2
<1>4. n \in Good
  <2> HIDE DEF Good
  <2> QED BY <1>0, <1>1, <1>3, Induction
<1> QED BY <1>0, <1>4

----------------------------------------------------------------------------
(* What flattening adds for each kind of tree.                             *)
NodeFlat(flat, t, order) ==
    [before \in Seq(ArrayNodes) |->
        CASE t.kind = "const" -> Append(before, Node("constant", t.value, 0, 0, 0))
          [] t.kind = "var"   ->
                Append(before, Node("variable", 0, Numbering(order)[t.name], 0, 0))
          [] t.kind = "un"    ->
                LET inner == flat[t.a][before]
                IN Append(inner, Node(IF t.op = "~" THEN "not" ELSE "neg", 0, 0, Len(inner), 0))
          [] OTHER            ->
                LET left == flat[t.a][before]
                    plain == flat[t.b][left]
                    right == IF t.op = "-"
                             THEN Append(plain, Node("neg", 0, 0, Len(plain), 0))
                             ELSE plain
                    kind == IF t.op = "-" THEN "add" ELSE KindOf[t.op]
                IN Append(right, Node(kind, 0, 0, Len(left), Len(right)))]

LEMMA FlattenUnfold ==
    \A order : \E flat :
        /\ \A t \in Trees : flat[t] = NodeFlat(flat, t, order)
        /\ \A t \in Trees : \A before : Flatten(t, order, before) = flat[t][before]
<1> SUFFICES ASSUME NEW order
             PROVE  \E flat :
                        /\ \A t \in Trees : flat[t] = NodeFlat(flat, t, order)
                        /\ \A t \in Trees : \A before : Flatten(t, order, before) = flat[t][before]
  OBVIOUS
<1> DEFINE Body(p, t) == NodeFlat(p, t, order)
           Correct(p, d) == \A t \in Layer(d) : p[t] = Body(p, t)
           Reached == {d \in Nat : \E p : Correct(p, d)}
           flat == CHOOSE p : p = [t \in Trees |-> Body(p, t)]
<1>1. ASSUME NEW p, NEW q, NEW t \in Trees, \A kid \in Kids(t) : p[kid] = q[kid]
      PROVE  Body(p, t) = Body(q, t)
  <2>1. t.kind = "un" => t.a \in Kids(t)
    BY DEF Kids
  <2>2. t.kind = "bin" => t.a \in Kids(t) /\ t.b \in Kids(t)
    BY DEF Kids
  <2>3. t.kind \in {"const", "var", "un", "bin"}
    BY TreeShape DEF IsConst, IsVar, IsUn, IsBin
  <2> QED BY <1>1, <2>1, <2>2, <2>3 DEF NodeFlat
<1>2. 0 \in Reached
  <2> DEFINE none == [t \in Trees |-> 0]
             p == [t \in Trees |-> Body(none, t)]
  <2>1. \A t \in Layer(0) : p[t] = Body(none, t)
    BY LayerKids
  <2>2. \A t \in Layer(0) : Body(none, t) = Body(p, t)
    <3> HIDE DEF p, none, Body
    <3> QED BY <1>1, LayerKids
  <2>3. Correct(p, 0)
    BY <2>1, <2>2
  <2> HIDE DEF p, Correct
  <2> QED BY <2>3
<1>3. ASSUME NEW d \in Nat, d \in Reached PROVE d + 1 \in Reached
  <2>1. PICK p : Correct(p, d)
    BY <1>3
  <2> DEFINE q == [t \in Trees |-> Body(p, t)]
  <2>2. ASSUME NEW t \in Layer(d + 1) PROVE q[t] = Body(q, t)
    <3>1. t \in Trees /\ Kids(t) \subseteq Layer(d)
      BY LayerKids
    <3>2. \A kid \in Kids(t) : kid \in Trees /\ p[kid] = Body(p, kid)
      BY <2>1, <3>1, LayersAreTrees
    <3>3. q[t] = Body(p, t) /\ \A kid \in Kids(t) : q[kid] = p[kid]
      BY <3>1, <3>2
    <3> HIDE DEF q, Body
    <3> QED BY <1>1, <3>1, <3>3
  <2>3. Correct(q, d + 1)
    BY <2>2
  <2> HIDE DEF q, Correct
  <2>4. d + 1 \in Nat /\ \E r : Correct(r, d + 1)
    BY <2>3
  <2> QED BY <2>4
<1>4. \E p : p = [t \in Trees |-> Body(p, t)]
  <2>1. TreeDepth \in Reached
    <3> HIDE DEF Reached
    <3> QED BY <1>2, <1>3, Induction, TreeDepthAssumption
  <2>2. PICK p : \A t \in Trees : p[t] = Body(p, t)
    BY <2>1, Layers
  <2> DEFINE q == [t \in Trees |-> p[t]]
  <2>3. ASSUME NEW t \in Trees PROVE q[t] = Body(q, t)
    <3>1. \A kid \in Kids(t) : q[kid] = p[kid]
      BY LayerKids
    <3>2. q[t] = Body(p, t)
      BY <2>2
    <3> HIDE DEF q, Body
    <3> QED BY <1>1, <3>1, <3>2
  <2>4. q = [t \in Trees |-> Body(q, t)]
    BY <2>3, Zenon
  <2> HIDE DEF q
  <2> QED BY <2>4
<1>5. flat = [t \in Trees |-> Body(flat, t)]
  <2> HIDE DEF Body
  <2> QED BY <1>4
<1>6. \A t \in Trees : \A before : Flatten(t, order, before) = flat[t][before]
  BY DEF Flatten, NodeFlat
<1> HIDE DEF flat
<1>7. \A t \in Trees : flat[t] = NodeFlat(flat, t, order)
  BY <1>5, Zenon
<1> QED BY <1>6, <1>7

LEMMA FlattenAt ==
    ASSUME NEW order, NEW t \in Trees, NEW before \in Seq(ArrayNodes)
    PROVE  LET flat(s, out) == Flatten(s, order, out)
               left == flat(t.a, before)
               plain == flat(t.b, left)
               right == Append(plain, Node("neg", 0, 0, Len(plain), 0))
           IN  /\ IsConst(t) =>
                      flat(t, before) = Append(before, Node("constant", t.value, 0, 0, 0))
               /\ IsVar(t) =>
                      flat(t, before)
                        = Append(before, Node("variable", 0, Numbering(order)[t.name], 0, 0))
               /\ IsUn(t) =>
                      flat(t, before)
                        = Append(left, Node(IF t.op = "~" THEN "not" ELSE "neg", 0, 0, Len(left), 0))
               /\ IsBin(t) /\ t.op = "-" =>
                      flat(t, before) = Append(right, Node("add", 0, 0, Len(left), Len(right)))
               /\ IsBin(t) /\ t.op # "-" =>
                      flat(t, before) = Append(plain, Node(KindOf[t.op], 0, 0, Len(left), Len(plain)))
<1>1. PICK flat : /\ \A s \in Trees : flat[s] = NodeFlat(flat, s, order)
                  /\ \A s \in Trees : \A out : Flatten(s, order, out) = flat[s][out]
  BY FlattenUnfold
<1>2. Flatten(t, order, before) = NodeFlat(flat, t, order)[before]
  BY <1>1
<1>3. CASE IsConst(t)
  BY <1>2, <1>3 DEF NodeFlat, IsConst, IsVar, IsUn, IsBin
<1>4. CASE IsVar(t)
  BY <1>2, <1>4 DEF NodeFlat, IsConst, IsVar, IsUn, IsBin
<1>5. CASE IsUn(t)
  <2>1. \A out : Flatten(t.a, order, out) = flat[t.a][out]
    BY <1>1, <1>5 DEF IsUn
  <2> QED BY <1>2, <1>5, <2>1 DEF NodeFlat, IsConst, IsVar, IsUn, IsBin
<1>6. CASE IsBin(t)
  <2>1. /\ \A out : Flatten(t.a, order, out) = flat[t.a][out]
        /\ \A out : Flatten(t.b, order, out) = flat[t.b][out]
    BY <1>1, <1>6 DEF IsBin
  <2> QED BY <1>2, <1>6, <2>1 DEF NodeFlat, IsConst, IsVar, IsUn, IsBin
<1> QED BY <1>3, <1>4, <1>5, <1>6, TreeShape

LEMMA NumberingAt ==
    ASSUME NEW order \in Seq(Names), NEW n \in ToSet(order)
    PROVE  Numbering(order)[n] \in 1 .. Len(order) /\ order[Numbering(order)[n]] = n
<1> DEFINE i == CHOOSE j \in DOMAIN order : order[j] = n
<1>1. i \in DOMAIN order /\ order[i] = n
  BY DEF ToSet
<1>2. Numbering(order)[n] = i
  BY DEF Numbering
<1> HIDE DEF i
<1> QED BY <1>1, <1>2

(* Flattening adds nodes that point back, at least one.                    *)
LEMMA FlattenExtends ==
    ASSUME NEW order \in Seq(Names)
    PROVE  \A t \in Trees : NamesOf(t) \subseteq ToSet(order) =>
               \A before : PointsBack(before) =>
                   /\ Extends(Flatten(t, order, before), before)
                   /\ Len(Flatten(t, order, before)) > Len(before)
<1> DEFINE Grown(out, before) == Extends(out, before) /\ Len(out) > Len(before)
           Good == {t \in Trees : NamesOf(t) \subseteq ToSet(order) =>
                        \A before : PointsBack(before) => Grown(Flatten(t, order, before), before)}
<1>1. ASSUME NEW nodes, PointsBack(nodes), NEW node \in ArrayNodes,
             node.kind \in Unaries => node.child0 \in 1 .. Len(nodes),
             node.kind \in Binaries => {node.child0, node.child1} \subseteq 1 .. Len(nodes)
      PROVE  Grown(Append(nodes, node), nodes)
  <2>1. nodes \in Seq(ArrayNodes)
    BY <1>1 DEF PointsBack
  <2>2. Len(Append(nodes, node)) > Len(nodes)
    BY <2>1
  <2> QED BY <1>1, <2>2, ExtendsAppend
<1>2. ASSUME NEW a, NEW b, NEW c, PointsBack(a), Grown(b, a), Grown(c, b) PROVE Grown(c, a)
  <2>1. Len(a) \in Nat /\ Len(b) \in Nat /\ Len(c) \in Nat
    BY <1>2 DEF Extends, PointsBack
  <2>2. Extends(c, a)
    BY <1>2, ExtendsTransitive
  <2> QED BY <1>2, <2>1, <2>2
<1>3. \A a, b : Grown(b, a) => PointsBack(b)
  BY DEF Extends
<1>4. \A a, b : PointsBack(a) /\ Grown(b, a) => Len(b) \in 1 .. Len(b) /\ Len(a) \in Nat /\ Len(b) \in Nat
  BY DEF Extends, PointsBack
<1>n. 0 \in Nat
  OBVIOUS
<1> HIDE DEF Grown
<1>5. ASSUME NEW t \in Trees, Kids(t) \subseteq Good, NamesOf(t) \subseteq ToSet(order),
             NEW before, PointsBack(before)
      PROVE  Grown(Flatten(t, order, before), before)
  <2>0. before \in Seq(ArrayNodes)
    BY <1>5 DEF PointsBack
  <2>1. CASE IsConst(t)
    <3> DEFINE node == Node("constant", t.value, 0, 0, 0)
    <3>1. node \in ArrayNodes /\ node.kind = "constant"
      BY <1>n, <2>1 DEF Node, ArrayNodes, IsConst
    <3>2. Flatten(t, order, before) = Append(before, node)
      BY <2>0, <2>1, FlattenAt
    <3> HIDE DEF node
    <3> QED BY <1>1, <1>5, <3>1, <3>2 DEF Unaries, Binaries
  <2>2. CASE IsVar(t)
    <3> DEFINE node == Node("variable", 0, Numbering(order)[t.name], 0, 0)
    <3>1. Numbering(order)[t.name] \in Nat
      BY <1>5, <2>2, NamesAt, NumberingAt
    <3>2. node \in ArrayNodes /\ node.kind = "variable"
      BY <1>n, <3>1 DEF Node, ArrayNodes
    <3>3. Flatten(t, order, before) = Append(before, node)
      BY <2>0, <2>2, FlattenAt
    <3> HIDE DEF node
    <3> QED BY <1>1, <1>5, <3>2, <3>3 DEF Unaries, Binaries
  <2>3. CASE IsUn(t)
    <3> DEFINE left == Flatten(t.a, order, before)
               node == Node(IF t.op = "~" THEN "not" ELSE "neg", 0, 0, Len(left), 0)
    <3>1. t.a \in Good /\ NamesOf(t.a) \subseteq ToSet(order)
      BY <1>5, <2>3, NamesAt DEF IsUn
    <3>2. Grown(left, before)
      BY <1>5, <3>1
    <3>3. PointsBack(left) /\ Len(left) \in 1 .. Len(left) /\ Len(left) \in Nat
      BY <1>3, <1>4, <1>5, <3>2
    <3>4. node \in ArrayNodes /\ node.kind \in Unaries /\ node.child0 = Len(left)
      BY <1>n, <3>3 DEF Node, ArrayNodes, Unaries
    <3>5. Flatten(t, order, before) = Append(left, node)
      BY <2>0, <2>3, FlattenAt
    <3> HIDE DEF node, left
    <3>6. Grown(Append(left, node), left)
      <4>1. node.kind \notin Binaries
        BY <3>4 DEF Unaries, Binaries
      <4> QED BY <1>1, <3>3, <3>4, <4>1
    <3> QED BY <1>2, <1>5, <3>2, <3>5, <3>6
  <2>4. CASE IsBin(t)
    <3> DEFINE left == Flatten(t.a, order, before)
               plain == Flatten(t.b, order, left)
               right == IF t.op = "-" THEN Append(plain, Node("neg", 0, 0, Len(plain), 0)) ELSE plain
               kind == IF t.op = "-" THEN "add" ELSE KindOf[t.op]
               node == Node(kind, 0, 0, Len(left), Len(right))
    <3>1. /\ t.a \in Good /\ NamesOf(t.a) \subseteq ToSet(order)
          /\ t.b \in Good /\ NamesOf(t.b) \subseteq ToSet(order)
      BY <1>5, <2>4, NamesAt DEF IsBin
    <3>2. Grown(left, before)
      BY <1>5, <3>1
    <3>3. PointsBack(left)
      BY <1>3, <3>2
    <3>4. Grown(plain, left)
      BY <3>1, <3>3
    <3>5. PointsBack(plain) /\ Len(plain) \in 1 .. Len(plain) /\ Len(plain) \in Nat
      BY <1>3, <1>4, <3>3, <3>4
    <3>6. Grown(plain, before)
      BY <1>2, <1>5, <3>2, <3>4
    <3>7. right = plain \/ Grown(right, plain)
      <4> DEFINE neg == Node("neg", 0, 0, Len(plain), 0)
      <4>1. neg \in ArrayNodes /\ neg.kind \in Unaries /\ neg.child0 = Len(plain)
        BY <1>n, <3>5 DEF Node, ArrayNodes, Unaries
      <4>2. neg.kind \notin Binaries
        BY <4>1 DEF Unaries, Binaries
      <4>3. right = plain \/ right = Append(plain, neg)
        OBVIOUS
      <4> HIDE DEF neg, right, plain
      <4> QED BY <1>1, <3>5, <4>1, <4>2, <4>3
    <3>8. Grown(right, left) /\ Grown(right, before)
      <4> HIDE DEF right, plain, left
      <4> QED BY <1>2, <1>5, <3>2, <3>3, <3>4, <3>6, <3>7
    <3>9. PointsBack(right) /\ Len(right) \in 1 .. Len(right) /\ Len(left) \in 1 .. Len(right)
          /\ Len(right) \in Nat /\ Len(left) \in Nat
      <4> HIDE DEF right, plain, left
      <4>1. PointsBack(right) /\ Len(right) \in 1 .. Len(right) /\ Len(right) \in Nat /\ Len(left) \in Nat
            /\ Len(left) \in 1 .. Len(left)
        BY <1>3, <1>4, <1>5, <3>2, <3>3, <3>8
      <4>2. Len(right) > Len(left)
        BY <3>8 DEF Grown
      <4> QED BY <4>1, <4>2
    <3>10. kind \in Binaries
      BY <2>4, OperatorForKind DEF IsBin, Binaries
    <3>11. Flatten(t, order, before) = Append(right, node)
      BY <2>0, <2>4, FlattenAt
    <3> HIDE DEF right, plain, left, kind
    <3>12. /\ node \in ArrayNodes /\ node.kind = kind
           /\ node.child0 = Len(left) /\ node.child1 = Len(right)
      BY <1>n, <3>9, <3>10 DEF Node, ArrayNodes, Binaries
    <3> HIDE DEF node
    <3>13. Grown(Append(right, node), right)
      <4>1. node.kind \notin Unaries /\ {node.child0, node.child1} \subseteq 1 .. Len(right)
        BY <3>9, <3>10, <3>12 DEF Unaries, Binaries
      <4> QED BY <1>1, <3>9, <3>12, <4>1
    <3> QED BY <1>2, <1>5, <3>8, <3>11, <3>13
  <2> QED BY <1>5, <2>1, <2>2, <2>3, <2>4, TreeShape
<1>6. Trees \subseteq Good
  <2>1. \A t \in Trees : Kids(t) \subseteq Good => t \in Good
    BY <1>5
  <2> HIDE DEF Good
  <2> QED BY <2>1, TreeInduction
<1> QED BY <1>6 DEF Grown

----------------------------------------------------------------------------
(* Two trees of one function, over the same names.                         *)
Denotes(s, t) ==
    /\ NamesOf(s) = NamesOf(t)
    /\ \A bits \in Nat : \A values : (\A n \in NamesOf(t) : values[n] \in Int) =>
           Evaluate(s, values, bits) = Evaluate(t, values, bits)

LEMMA MadeTrees ==
    /\ \A op, a : Un(op, a) \in Trees => IsUn(Un(op, a))
    /\ \A op, a, b : Bin(op, a, b) \in Trees => IsBin(Bin(op, a, b))
    /\ \A op, a : Un(op, a).op = op /\ Un(op, a).a = a
    /\ \A op, a, b : Bin(op, a, b).op = op /\ Bin(op, a, b).a = a /\ Bin(op, a, b).b = b
<1>1. /\ \A op, a : Un(op, a).kind = "un"
      /\ \A op, a, b : Bin(op, a, b).kind = "bin"
  BY DEF Un, Bin
<1>2. \A op, a : Un(op, a) \in Trees => IsUn(Un(op, a))
  BY <1>1, TreeShape DEF IsConst, IsVar, IsBin
<1>3. \A op, a, b : Bin(op, a, b) \in Trees => IsBin(Bin(op, a, b))
  BY <1>1, TreeShape DEF IsConst, IsVar, IsUn
<1> QED BY <1>2, <1>3 DEF Un, Bin

LEMMA UnaryDenotes ==
    ASSUME NEW t \in Trees, IsUn(t), NEW a \in Trees, Denotes(a, t.a), Un(t.op, a) \in Trees
    PROVE  Denotes(Un(t.op, a), t)
<1> DEFINE s == Un(t.op, a)
<1>1. IsUn(s) /\ s.op = t.op /\ s.a = a /\ s \in Trees
  BY MadeTrees
<1> HIDE DEF s
<1>2. NamesOf(s) = NamesOf(t)
  BY <1>1, NamesAt DEF Denotes
<1>3. ASSUME NEW bits \in Nat, NEW values, \A n \in NamesOf(t) : values[n] \in Int
      PROVE  Evaluate(s, values, bits) = Evaluate(t, values, bits)
  <2>1. Evaluate(a, values, bits) = Evaluate(t.a, values, bits)
    BY <1>3, NamesAt DEF Denotes
  <2> QED BY <1>1, <2>1, EvaluateAt
<1>4. Denotes(s, t)
  BY <1>2, <1>3 DEF Denotes
<1> QED BY <1>4 DEF s

LEMMA BinaryDenotes ==
    ASSUME NEW t \in Trees, IsBin(t), NEW a \in Trees, Denotes(a, t.a),
           NEW b \in Trees, Denotes(b, t.b), Bin(t.op, a, b) \in Trees
    PROVE  Denotes(Bin(t.op, a, b), t)
<1> DEFINE s == Bin(t.op, a, b)
<1>1. IsBin(s) /\ s.op = t.op /\ s.a = a /\ s.b = b /\ s \in Trees
  BY MadeTrees
<1> HIDE DEF s
<1>2. NamesOf(s) = NamesOf(t)
  <2>1. NamesOf(a) = NamesOf(t.a) /\ NamesOf(b) = NamesOf(t.b)
    BY DEF Denotes
  <2>2. NamesOf(s) = NamesOf(a) \cup NamesOf(b)
    BY <1>1, NamesAt
  <2>3. NamesOf(t) = NamesOf(t.a) \cup NamesOf(t.b)
    BY NamesAt
  <2> QED BY <2>1, <2>2, <2>3
<1>3. ASSUME NEW bits \in Nat, NEW values, \A n \in NamesOf(t) : values[n] \in Int
      PROVE  Evaluate(s, values, bits) = Evaluate(t, values, bits)
  <2>1. /\ Evaluate(a, values, bits) = Evaluate(t.a, values, bits)
        /\ Evaluate(b, values, bits) = Evaluate(t.b, values, bits)
    BY <1>3, NamesAt DEF Denotes
  <2> QED BY <1>1, <2>1, EvaluateAt
<1>4. Denotes(s, t)
  BY <1>2, <1>3 DEF Denotes
<1> QED BY <1>4 DEF s

LEMMA DifferenceDenotes ==
    ASSUME NEW t \in Trees, IsBin(t), t.op = "-", NEW a \in Trees, Denotes(a, t.a),
           NEW b \in Trees, Denotes(b, t.b),
           Un("-", b) \in Trees, Bin("+", a, Un("-", b)) \in Trees
    PROVE  Denotes(Bin("+", a, Un("-", b)), t)
<1> DEFINE n == Un("-", b)
           s == Bin("+", a, n)
<1>1. IsUn(n) /\ n.op = "-" /\ n.a = b /\ n \in Trees
  BY MadeTrees
<1>2. IsBin(s) /\ s.op = "+" /\ s.a = a /\ s.b = n /\ s \in Trees
  BY MadeTrees
<1> HIDE DEF s, n
<1>3. NamesOf(s) = NamesOf(t)
  <2>1. NamesOf(a) = NamesOf(t.a) /\ NamesOf(b) = NamesOf(t.b)
    BY DEF Denotes
  <2>2. NamesOf(s) = NamesOf(a) \cup NamesOf(n) /\ NamesOf(n) = NamesOf(b)
    BY <1>1, <1>2, NamesAt
  <2>3. NamesOf(t) = NamesOf(t.a) \cup NamesOf(t.b)
    BY NamesAt
  <2> QED BY <2>1, <2>2, <2>3
<1>4. ASSUME NEW bits \in Nat, NEW values, \A x \in NamesOf(t) : values[x] \in Int
      PROVE  Evaluate(s, values, bits) = Evaluate(t, values, bits)
  <2> DEFINE x == Evaluate(t.a, values, bits)
             y == Evaluate(t.b, values, bits)
             m == TwoTo(bits)
  <2>0. t.a \in Trees /\ t.b \in Trees /\ \A v \in NamesOf(t.a) \cup NamesOf(t.b) : values[v] \in Int
    BY <1>4, NamesAt DEF IsBin
  <2>1. Evaluate(a, values, bits) = x /\ Evaluate(b, values, bits) = y
    BY <2>0 DEF Denotes
  <2>2. x \in Int /\ y \in Int /\ m \in Nat \ {0}
    BY <2>0, EvaluateIsWord, WordsAreNaturals, PowerOfTwo
  <2>3. Evaluate(n, values, bits) = (- y) % m
    BY <1>1, <2>1, EvaluateAt
  <2>4. Evaluate(s, values, bits) = Apply("+", x, (- y) % m, bits)
    BY <1>2, <2>1, <2>3, EvaluateAt
  <2>5. Evaluate(t, values, bits) = Apply("-", x, y, bits)
    BY EvaluateAt
  <2> HIDE DEF x, y
  <2>6. Apply("+", x, (- y) % m, bits) = (x + ((- y) % m)) % m /\ Apply("-", x, y, bits) = (x - y) % m
    BY DEF Apply
  <2> HIDE DEF m
  <2>7. (x + ((- y) % m)) % m = (x - y) % m
    <3> DEFINE z == - y
    <3>1. z \in Int /\ x + z = x - y
      BY <2>2
    <3> HIDE DEF z
    <3>2. (x + (z % m)) % m = (x + z) % m
      BY <2>2, <3>1, Congruence, Zenon
    <3> QED BY <3>1, <3>2 DEF z
  <2> QED BY <2>4, <2>5, <2>6, <2>7
<1>5. Denotes(s, t)
  BY <1>3, <1>4 DEF Denotes
<1> QED BY <1>5 DEF s, n

LEMMA LayerMakes ==
    \A d \in Nat : d + 1 <= TreeDepth =>
        \A a, b \in Layer(d) :
            /\ \A op \in {"-", "~"} : Un(op, a) \in Layer(d + 1)
            /\ \A op \in {"+", "-", "*", "&", "|", "^"} : Bin(op, a, b) \in Layer(d + 1)
<1> TAKE d \in Nat
<1> HAVE d + 1 <= TreeDepth
<1>1. Layer(d + 1) = Leaves \cup Nodes(Layer(d))
  BY Layers
<1> TAKE a, b \in Layer(d)
<1>2. /\ \A op \in {"-", "~"} : Un(op, a) \in Nodes(Layer(d))
      /\ \A op \in {"+", "-", "*", "&", "|", "^"} : Bin(op, a, b) \in Nodes(Layer(d))
  BY DEF Nodes, Un, Bin
<1> QED BY <1>1, <1>2

LEMMA ExtendsPrefix ==
    ASSUME NEW nodes \in Seq(ArrayNodes), NEW node, PointsBack(Append(nodes, node))
    PROVE  LET out == Append(nodes, node)
           IN  /\ Extends(out, nodes) /\ PointsBack(nodes)
               /\ Len(out) \in 1 .. Len(out) /\ out[Len(out)] = node
<1> DEFINE out == Append(nodes, node)
           n == Len(nodes)
<1>1. n \in Nat /\ Len(out) = n + 1 /\ out[n + 1] = node /\ \A i \in 1 .. n : out[i] = nodes[i]
  OBVIOUS
<1>2. PointsBack(out)
  OBVIOUS
<1> HIDE DEF out, n
<1>3. \A i \in 1 .. n : i \in 1 .. Len(out)
  BY <1>1
<1>4. PointsBack(nodes)
  BY <1>1, <1>2, <1>3 DEF PointsBack, n
<1>5. Extends(out, nodes)
  BY <1>1, <1>2, <1>4 DEF Extends, n
<1> QED BY <1>1, <1>4, <1>5 DEF out

(* What is rebuilt from the array of a tree denotes the tree, and is at    *)
(* most twice as deep.                                                     *)
LEMMA FlattenDecodes ==
    ASSUME NEW order \in Seq(Names)
    PROVE  \A d \in 0 .. Half : \A t \in Layer(d) : NamesOf(t) \subseteq ToSet(order) =>
               \A before : PointsBack(before) =>
                   LET out == Flatten(t, order, before)
                       root == Build(out, Len(out), order)
                   IN  root \in Layer(2 * d) /\ Denotes(root, t)
<1> DEFINE Out(t, before) == Flatten(t, order, before)
           Root(t, before) == Build(Out(t, before), Len(Out(t, before)), order)
           Within(t) == NamesOf(t) \subseteq ToSet(order)
           Decodes(t, d) == \A before : PointsBack(before) =>
                                Root(t, before) \in Layer(2 * d) /\ Denotes(Root(t, before), t)
           Good == {d \in Nat : d <= Half => \A t \in Layer(d) : Within(t) => Decodes(t, d)}
<1>0. /\ Half \in Nat /\ 2 * Half <= TreeDepth /\ Refused \notin Trees
      /\ TreeDepth \in Nat
  BY LiftedFacts, TreeDepthAssumption
<1>a. \A t \in Trees : Denotes(t, t)
  BY DEF Denotes
<1>b. \A t \in Trees : \A before : Within(t) /\ PointsBack(before) =>
          /\ PointsBack(Out(t, before)) /\ Extends(Out(t, before), before)
          /\ Len(Out(t, before)) \in 1 .. Len(Out(t, before)) /\ Len(Out(t, before)) \in Nat
  <2>1. \A x, y : Extends(x, y) /\ PointsBack(y) /\ Len(x) > Len(y) =>
            PointsBack(x) /\ Len(x) \in 1 .. Len(x) /\ Len(x) \in Nat
    BY DEF Extends, PointsBack
  <2> QED BY <2>1, FlattenExtends
<1>c. \A x, y : PointsBack(y) /\ Extends(x, y) =>
          \A i \in 1 .. Len(y) : Build(x, i, order) = Build(y, i, order)
  BY BuildStable
<1>d. \A x : PointsBack(x) => x \in Seq(ArrayNodes)
  BY DEF PointsBack
<1> HIDE DEF Out
<1>1. ASSUME NEW d \in Nat, NEW t \in Leaves, Within(t) PROVE Decodes(t, d)
  <2>1. t \in Trees /\ t \in Layer(2 * d)
    <3>1. 2 * d \in Nat
      OBVIOUS
    <3> QED BY <3>1, Layers, LayersAreTrees
  <2>2. ASSUME NEW before, PointsBack(before) PROVE Root(t, before) = t
    <3>1. PointsBack(Out(t, before)) /\ before \in Seq(ArrayNodes)
      BY <1>1, <1>b, <1>d, <2>1, <2>2
    <3>2. CASE IsConst(t)
      <4> DEFINE node == Node("constant", t.value, 0, 0, 0)
      <4>1. Out(t, before) = Append(before, node)
        BY <2>1, <3>1, <3>2, FlattenAt DEF Out
      <4>2. node.kind = "constant" /\ node.constant = t.value
        BY DEF Node
      <4> HIDE DEF node
      <4>3. Root(t, before) = Const(t.value)
        <5>1. Len(Out(t, before)) \in 1 .. Len(Out(t, before))
              /\ Out(t, before)[Len(Out(t, before))] = node
          BY <3>1, <4>1, ExtendsPrefix
        <5> QED BY <3>1, <4>2, <5>1, BuildAt
      <4> QED BY <1>1, <3>2, <4>3 DEF Leaves, Const, IsConst
    <3>3. CASE IsVar(t)
      <4> DEFINE node == Node("variable", 0, Numbering(order)[t.name], 0, 0)
      <4>1. Out(t, before) = Append(before, node)
        BY <2>1, <3>1, <3>3, FlattenAt DEF Out
      <4>2. node.kind = "variable" /\ node.var = Numbering(order)[t.name]
        BY DEF Node
      <4>3. Numbering(order)[t.name] \in DOMAIN order /\ order[Numbering(order)[t.name]] = t.name
        <5>1. t.name \in ToSet(order)
          BY <1>1, <2>1, <3>3, NamesAt
        <5> QED BY <5>1, NumberingAt
      <4> HIDE DEF node
      <4>4. Root(t, before) = Var(t.name)
        <5>1. Len(Out(t, before)) \in 1 .. Len(Out(t, before))
              /\ Out(t, before)[Len(Out(t, before))] = node
          BY <3>1, <4>1, ExtendsPrefix
        <5> QED BY <3>1, <4>2, <4>3, <5>1, BuildAt
      <4> QED BY <1>1, <3>3, <4>4 DEF Leaves, Var, IsVar
    <3> QED BY <1>1, <2>1, <3>2, <3>3, TreeShape DEF Leaves, IsUn, IsBin
  <2> HIDE DEF Root
  <2> QED BY <1>a, <2>1, <2>2
<1>2. 0 \in Good
  BY <1>1, Layers
<1>3. ASSUME NEW d \in Nat, d \in Good, d + 1 <= Half, NEW t \in Layer(d + 1), Within(t)
      PROVE  Decodes(t, d + 1)
  <2>1. /\ t \in Trees /\ Kids(t) \subseteq Layer(d) /\ d + 1 \in Nat /\ d <= Half
        /\ 2 * d \in Nat /\ 2 * d + 1 \in Nat /\ 2 * (d + 1) = (2 * d + 1) + 1
        /\ 2 * d + 1 <= TreeDepth /\ (2 * d + 1) + 1 <= TreeDepth
    BY <1>0, <1>3, LayerKids, SMTT(30)
  <2>2. /\ Layer(2 * d) \subseteq Layer(2 * d + 1) /\ Layer(2 * d + 1) \subseteq Layer(2 * (d + 1))
        /\ Layer(2 * d) \subseteq Trees /\ Layer(2 * (d + 1)) \subseteq Trees
        /\ Layer(2 * d + 1) \subseteq Trees
    BY <2>1, LayersGrow, LayersAreTrees
  <2>3. CASE t \in Leaves
    BY <1>1, <1>3, <2>1, <2>3
  <2>4. CASE IsUn(t)
    <3>1. t.a \in Layer(d) /\ t.a \in Trees /\ Within(t.a) /\ t.op \in {"-", "~"}
      BY <1>3, <2>1, <2>4, NamesAt DEF IsUn
    <3>2. Decodes(t.a, d)
      BY <1>3, <2>1, <3>1
    <3>3. ASSUME NEW before, PointsBack(before)
          PROVE  Root(t, before) \in Layer(2 * (d + 1)) /\ Denotes(Root(t, before), t)
      <4> DEFINE left == Out(t.a, before)
                 a == Root(t.a, before)
                 node == Node(IF t.op = "~" THEN "not" ELSE "neg", 0, 0, Len(left), 0)
      <4>1. a \in Layer(2 * d) /\ Denotes(a, t.a) /\ a = Build(left, Len(left), order)
        BY <3>2, <3>3
      <4>2. PointsBack(left) /\ Len(left) \in 1 .. Len(left) /\ left \in Seq(ArrayNodes)
        BY <1>b, <1>d, <3>1, <3>3
      <4>3. Out(t, before) = Append(left, node) /\ PointsBack(Out(t, before))
        <5>1. before \in Seq(ArrayNodes) /\ PointsBack(Out(t, before))
          BY <1>3, <1>b, <1>d, <2>1, <3>3
        <5> QED BY <2>1, <2>4, <5>1, FlattenAt DEF Out
      <4>4. node.kind = (IF t.op = "~" THEN "not" ELSE "neg") /\ node.child0 = Len(left)
        BY DEF Node
      <4> DEFINE out == Out(t, before)
      <4> HIDE DEF node, a, left, Root
      <4>5. Extends(out, left) /\ Len(out) \in 1 .. Len(out) /\ out[Len(out)] = node
        BY <4>2, <4>3, ExtendsPrefix
      <4>6. Build(out, Len(left), order) = a
        BY <1>c, <4>1, <4>2, <4>5
      <4>7. Build(out, Len(out), order) = Unary(t.op, a)
        <5>1. PointsBack(out) /\ t.op \in {"-", "~"}
          BY <3>1, <4>3
        <5> HIDE DEF out
        <5> QED BY <4>4, <4>5, <4>6, <5>1, BuildAt
      <4>8. Unary(t.op, a) = Un(t.op, a)
        BY <1>0, <2>2, <4>1 DEF Unary
      <4>9. Un(t.op, a) \in Layer(2 * (d + 1))
        BY <2>1, <2>2, <3>1, <4>1, LayerMakes
      <4>10. Denotes(Un(t.op, a), t)
        BY <2>1, <2>2, <2>4, <4>1, <4>9, UnaryDenotes
      <4> QED BY <4>7, <4>8, <4>9, <4>10 DEF Root
    <3> HIDE DEF Root
    <3> QED BY <3>3
  <2>5. CASE IsBin(t)
    <3>1. /\ t.a \in Layer(d) /\ t.a \in Trees /\ Within(t.a)
          /\ t.b \in Layer(d) /\ t.b \in Trees /\ Within(t.b)
          /\ t.op \in {"+", "-", "*", "&", "|", "^"}
      BY <1>3, <2>1, <2>5, NamesAt DEF IsBin
    <3>2. Decodes(t.a, d) /\ Decodes(t.b, d)
      BY <1>3, <2>1, <3>1
    <3>3. ASSUME NEW before, PointsBack(before)
          PROVE  Root(t, before) \in Layer(2 * (d + 1)) /\ Denotes(Root(t, before), t)
      <4> DEFINE left == Out(t.a, before)
                 plain == Out(t.b, left)
                 a == Root(t.a, before)
                 b == Root(t.b, left)
                 out == Out(t, before)
      <4>1. a \in Layer(2 * d) /\ Denotes(a, t.a) /\ a = Build(left, Len(left), order)
        BY <3>2, <3>3
      <4>2. PointsBack(left) /\ Len(left) \in 1 .. Len(left) /\ left \in Seq(ArrayNodes)
            /\ Len(left) \in Nat
        BY <1>b, <1>d, <3>1, <3>3
      <4>3. b \in Layer(2 * d) /\ Denotes(b, t.b) /\ b = Build(plain, Len(plain), order)
        BY <3>2, <4>2
      <4>4. PointsBack(plain) /\ Len(plain) \in 1 .. Len(plain) /\ plain \in Seq(ArrayNodes)
            /\ Len(plain) \in Nat /\ Extends(plain, left)
        BY <1>b, <1>d, <3>1, <4>2
      <4>5. before \in Seq(ArrayNodes) /\ PointsBack(out)
        BY <1>3, <1>b, <1>d, <2>1, <3>3
      <4>6. CASE t.op # "-"
        <5> DEFINE node == Node(KindOf[t.op], 0, 0, Len(left), Len(plain))
        <5>1. out = Append(plain, node)
          BY <2>1, <2>5, <4>5, <4>6, FlattenAt DEF Out
        <5>2. node.kind = KindOf[t.op] /\ node.child0 = Len(left) /\ node.child1 = Len(plain)
          BY DEF Node
        <5>3. KindOf[t.op] \in Binaries /\ OperatorFor(KindOf[t.op]) = t.op
          BY <3>1, <4>6, OperatorForKind
        <5> HIDE DEF node, a, b, left, plain, Root, out
        <5>4. Extends(out, plain) /\ Len(out) \in 1 .. Len(out) /\ out[Len(out)] = node
          BY <4>4, <4>5, <5>1, ExtendsPrefix
        <5>5. Extends(out, left)
          BY <4>2, <4>4, <5>4, ExtendsTransitive
        <5>6. Build(out, Len(left), order) = a /\ Build(out, Len(plain), order) = b
          BY <1>c, <4>1, <4>2, <4>3, <4>4, <5>4, <5>5
        <5>7. Build(out, Len(out), order) = Binary(t.op, a, b)
          BY <4>5, <5>2, <5>3, <5>4, <5>6, BuildAt
        <5>8. Binary(t.op, a, b) = Bin(t.op, a, b)
          BY <1>0, <2>2, <4>1, <4>3 DEF Binary
        <5>9. Bin(t.op, a, b) \in Layer(2 * (d + 1))
          BY <2>1, <2>2, <3>1, <4>1, <4>3, LayerMakes
        <5>10. Denotes(Bin(t.op, a, b), t)
          BY <2>1, <2>2, <2>5, <4>1, <4>3, <5>9, BinaryDenotes
        <5> QED BY <5>7, <5>8, <5>9, <5>10 DEF Root, out
      <4>7. CASE t.op = "-"
        <5> DEFINE neg == Node("neg", 0, 0, Len(plain), 0)
                   right == Append(plain, neg)
                   node == Node("add", 0, 0, Len(left), Len(right))
                   n == Un("-", b)
        <5>1. out = Append(right, node)
          BY <2>1, <2>5, <4>5, <4>7, FlattenAt DEF Out
        <5>2. /\ node.kind = "add" /\ node.child0 = Len(left) /\ node.child1 = Len(right)
              /\ neg.kind = "neg" /\ neg.child0 = Len(plain)
          BY DEF Node
        <5>3. neg \in ArrayNodes
          BY <4>4 DEF Node, ArrayNodes
        <5>4. right \in Seq(ArrayNodes)
          BY <4>4, <5>3
        <5> HIDE DEF node, neg, a, b, left, plain, Root, out
        <5>5. Extends(out, right) /\ PointsBack(right) /\ Len(out) \in 1 .. Len(out) /\ out[Len(out)] = node
          BY <4>5, <5>1, <5>4, ExtendsPrefix
        <5>6. Extends(right, plain) /\ Len(right) \in 1 .. Len(right) /\ right[Len(right)] = neg
          BY <4>4, <5>5, ExtendsPrefix
        <5> HIDE DEF right
        <5>7. Extends(right, left) /\ Extends(out, left)
          BY <4>2, <4>4, <5>5, <5>6, ExtendsTransitive
        <5>8. Build(right, Len(plain), order) = b /\ Build(out, Len(left), order) = a
          BY <1>c, <4>1, <4>2, <4>3, <4>4, <5>6, <5>7
        <5>9. Build(right, Len(right), order) = Unary("-", b)
          BY <5>2, <5>5, <5>6, <5>8, BuildAt
        <5>10. Unary("-", b) = n
          BY <1>0, <2>2, <4>3 DEF Unary
        <5>11. n \in Layer(2 * d + 1) /\ n \in Trees
          BY <2>1, <2>2, <4>3, LayerMakes
        <5> HIDE DEF n
        <5>12. Build(out, Len(right), order) = n
          BY <1>c, <5>5, <5>6, <5>9, <5>10
        <5>13. OperatorFor("add") = "+" /\ "add" \in Binaries
          BY OperatorForKind DEF KindOf, Binaries
        <5>14. Build(out, Len(out), order) = Binary("+", a, n)
          BY <4>5, <5>2, <5>5, <5>8, <5>12, <5>13, BuildAt, SMTT(30)
        <5>15. Binary("+", a, n) = Bin("+", a, n)
          BY <1>0, <2>2, <4>1, <5>11 DEF Binary
        <5>16. Bin("+", a, n) \in Layer(2 * (d + 1))
          BY <2>1, <2>2, <4>1, <5>11, LayerMakes
        <5>17. Denotes(Bin("+", a, n), t)
          BY <2>1, <2>2, <2>5, <4>1, <4>3, <4>7, <5>11, <5>16, DifferenceDenotes DEF n
        <5> QED BY <5>14, <5>15, <5>16, <5>17 DEF Root, out
      <4> QED BY <4>6, <4>7
    <3> HIDE DEF Root
    <3> QED BY <3>3
  <2>6. t \in Leaves \/ IsUn(t) \/ IsBin(t)
    <3>1. t \in Leaves \/ t \in Nodes(Layer(d))
      BY <1>3, Layers
    <3> QED BY <2>1, <3>1, TreeShape DEF Nodes, IsConst, IsVar
  <2> QED BY <2>3, <2>4, <2>5, <2>6
<1>4. ASSUME NEW d \in Nat, d \in Good PROVE d + 1 \in Good
  <2> HIDE DEF Decodes, Within
  <2>1. d + 1 <= Half => \A t \in Layer(d + 1) : Within(t) => Decodes(t, d + 1)
    BY <1>3, <1>4
  <2>2. d + 1 \in Nat
    OBVIOUS
  <2> QED BY <2>1, <2>2
<1>5. \A d \in 0 .. Half : d \in Good
  <2> HIDE DEF Good
  <2> QED BY <1>0, <1>2, <1>4, Induction
<1> QED BY <1>0, <1>5 DEF Out

LEMMA EncodingDenotes ==
    ASSUME NEW order \in Seq(Names), NEW t \in LiftedTrees, NamesOf(t) \subseteq ToSet(order)
    PROVE  LET answer == Decoded(Encoded(t, order), order)
           IN  answer \in Trees /\ Denotes(answer, t)
<1> DEFINE answer == Decoded(Encoded(t, order), order)
<1>1. PointsBack(<<>>)
  BY DEF PointsBack
<1>2. Half \in 0 .. Half /\ 2 * Half \in Nat /\ t \in Layer(Half)
  BY LiftedFacts
<1>3. answer \in Layer(2 * Half) /\ Denotes(answer, t)
  <2> HIDE DEF answer
  <2>1. answer = Build(Flatten(t, order, <<>>), Len(Flatten(t, order, <<>>)), order)
    BY DEF answer, Decoded, Encoded
  <2> QED BY <1>1, <1>2, <2>1, FlattenDecodes
<1> HIDE DEF answer
<1>4. answer \in Trees /\ Denotes(answer, t)
  BY <1>2, <1>3, LayersAreTrees
<1> QED BY <1>4 DEF answer

(* A solver's answer that is rebuilt is a tree over the leaves it was given. *)
LEMMA SolvedIsTree ==
    ASSUME NEW tree, NEW order \in Seq(Names), NEW bits,
           NEW result \in SolveSignature(tree, order, bits), result.status = "solved"
    PROVE  result.tree \in Trees /\ NamesOf(result.tree) \subseteq ToSet(order)
<1> DEFINE Fits(answer) == answer \in Trees /\ NamesOf(answer) \subseteq ToSet(order)
           shifted == <<Node("variable", 0, 1, 0, 0), Node("shr", 0, 0, 1, 0)>>
           stray == <<Node("variable", 0, Len(order) + 1, 0, 0)>>
<1>1. PICK nodes \in NativeAnswers(tree, order, bits) :
          Decoded(nodes, order) # Refused /\ result = Solved(Decoded(nodes, order))
  BY DEF SolveSignature, Failed, Unchanged
<1>2. result.tree = Decoded(nodes, order)
  BY <1>1 DEF Solved
<1>3. \/ \E t \in LiftedTrees : NamesOf(t) \subseteq ToSet(order) /\ nodes = Encoded(t, order)
      \/ nodes = shifted
      \/ nodes = stray
  BY <1>1 DEF NativeAnswers, NamesOf
<1>4. ASSUME NEW t \in LiftedTrees, NamesOf(t) \subseteq ToSet(order), nodes = Encoded(t, order)
      PROVE  Fits(Decoded(nodes, order))
  BY <1>4, EncodingDenotes DEF Denotes
<1>5. Decoded(shifted, order) = Refused
  <2>1. PointsBack(shifted) /\ Len(shifted) = 2 /\ shifted[2].kind = "shr"
    BY DEF PointsBack, Node, ArrayNodes, Unaries, Binaries
  <2> HIDE DEF shifted
  <2>2. 2 \in 1 .. Len(shifted)
    BY <2>1
  <2>3. Build(shifted, 2, order) = Refused
    BY <2>1, <2>2, BuildAt
  <2> QED BY <2>1, <2>3 DEF Decoded
<1>6. Decoded(stray, order) = Refused
  <2>1. /\ PointsBack(stray) /\ Len(stray) = 1 /\ stray[1].kind = "variable"
        /\ stray[1].var \notin DOMAIN order
    BY DEF PointsBack, Node, ArrayNodes, Unaries, Binaries
  <2> HIDE DEF stray
  <2>2. 1 \in 1 .. Len(stray)
    BY <2>1
  <2>3. Build(stray, 1, order) = Refused
    <3>1. Build(stray, 1, order)
            = IF stray[1].var \in DOMAIN order THEN Var(order[stray[1].var]) ELSE Refused
      BY <2>1, <2>2, BuildAt
    <3> QED BY <2>1, <3>1
  <2> QED BY <2>1, <2>3 DEF Decoded
<1> HIDE DEF shifted, stray
<1>7. Fits(Decoded(nodes, order))
  <2> HIDE DEF Fits
  <2> QED BY <1>1, <1>3, <1>4, <1>5, <1>6
<1> QED BY <1>2, <1>7

----------------------------------------------------------------------------
(* What is found in a block is a lifted tree, with its own leaves, at a    *)
(* width that is handled.                                                  *)
IsCandidate(c) ==
    /\ c.tree \in LiftedTrees /\ c.names = LeafNames(c.tree) /\ c.size \in Sizes

LEMMA BoundedIsLifted ==
    \A t : Bounded(t) # Refused => Bounded(t) \in LiftedTrees
  BY DEF Bounded

LEMMA LiveCandidateFound ==
    \A ins : LiveCandidate(ins) # NoCandidate => IsCandidate(LiveCandidate(ins))
<1> SUFFICES ASSUME NEW ins, LiveCandidate(ins) # NoCandidate
             PROVE  IsCandidate(LiveCandidate(ins))
  OBVIOUS
<1> DEFINE width == SourceWidths(ins) # {ins.d.size}
           tree == IF width THEN WidthLift(ins) ELSE Lift(ins)
<1>1. /\ Mba(Lift(ins), ins.d.size) /\ tree # Refused
      /\ LiveCandidate(ins) = Candidate(ins, tree, width)
  BY DEF LiveCandidate
<1>2. tree \in LiftedTrees
  <2>1. Lift(ins) # Refused => Lift(ins) \in LiftedTrees
    BY BoundedIsLifted DEF Lift
  <2>2. WidthLift(ins) # Refused => WidthLift(ins) \in LiftedTrees
    BY BoundedIsLifted DEF WidthLift
  <2> QED BY <1>1, <2>1, <2>2
<1>3. ins.d.size \in Sizes
  BY <1>1 DEF Mba
<1> HIDE DEF tree, width
<1> QED BY <1>1, <1>2, <1>3 DEF IsCandidate, Candidate

LEMMA CandidateFacts ==
    \A c : IsCandidate(c) => /\ c.tree \in Trees /\ c.names \in Seq(Names)
                             /\ NamesOf(c.tree) = ToSet(c.names)
                             /\ Bits(c.size) \in Nat \ {0}
<1> SUFFICES ASSUME NEW c, IsCandidate(c)
             PROVE  /\ c.tree \in Trees /\ c.names \in Seq(Names)
                    /\ NamesOf(c.tree) = ToSet(c.names)
                    /\ Bits(c.size) \in Nat \ {0}
  OBVIOUS
<1>1. c.tree \in Trees /\ c.names \in Seq(Names) /\ NamesOf(c.tree) = ToSet(c.names)
  BY LiftedFacts, NamesAt DEF IsCandidate, NamesOf
<1>2. c.size \in Nat \ {0} /\ BitsPerByte \in Nat \ {0}
  BY DetectionAssumption, MicrocodeAssumption DEF IsCandidate
<1>3. \A m, n \in Nat \ {0} : m * n \in Nat \ {0}
  OBVIOUS
<1> QED BY <1>1, <1>2, <1>3 DEF Bits

AllCandidates(found) == \E T : found \in Seq(T) /\ \A c \in T : IsCandidate(c)

LEMMA NoneFound == AllCandidates(<<>>)
<1> DEFINE T == {}
<1>1. <<>> \in Seq(T) /\ \A c \in T : IsCandidate(c)
  OBVIOUS
<1> HIDE DEF T
<1> QED BY <1>1 DEF AllCandidates

SearchState(env, seen, found) == [env |-> env, seen |-> seen, found |-> found]
IsSearch(state) ==
    \E env, seen, found : state = SearchState(env, seen, found) /\ AllCandidates(found)

SetEnv(state, env) == [state EXCEPT !.env = env]
SetFound(state, seen, found) == [state EXCEPT !.seen = seen, !.found = found]

LEMMA SearchUpdates ==
    ASSUME NEW env, NEW seen, NEW found, NEW e, NEW s, NEW f
    PROVE  LET state == SearchState(env, seen, found)
           IN  /\ SetEnv(state, e) = SearchState(e, seen, found)
               /\ SetFound(state, s, f) = SearchState(env, s, f)
<1> DEFINE Fields == {"env", "seen", "found"}
           Whole(r) == r = [k \in Fields |-> r[k]]
           middle == SearchState(env, s, found)
           x == [SearchState(env, seen, found) EXCEPT !.env = e]
           y == [SearchState(env, seen, found) EXCEPT !.seen = s]
           z == [middle EXCEPT !.found = f]
           last == SearchState(env, s, f)
           other == SearchState(e, seen, found)
<1>1. Whole(x) /\ Whole(other) /\ \A k \in Fields : x[k] = other[k]
  BY DEF SearchState
<1>2. Whole(y) /\ Whole(middle) /\ \A k \in Fields : y[k] = middle[k]
  BY DEF SearchState
<1>3. Whole(z) /\ Whole(last) /\ \A k \in Fields : z[k] = last[k]
  BY DEF SearchState
<1>4. SetFound(SearchState(env, seen, found), s, f) = [y EXCEPT !.found = f]
  BY Zenon DEF SetFound
<1> HIDE DEF x, y, z, middle, last, other, Fields
<1>5. x = other /\ y = middle /\ z = last
  BY <1>1, <1>2, <1>3
<1>6. SetFound(SearchState(env, seen, found), s, f) = z
  BY <1>4, <1>5 DEF z
<1> QED BY <1>5, <1>6 DEF x, other, last, SetEnv

LEMMA AllCandidatesAppend ==
    \A found, c : AllCandidates(found) /\ IsCandidate(c) => AllCandidates(Append(found, c))
<1> SUFFICES ASSUME NEW found, NEW c, AllCandidates(found), IsCandidate(c)
             PROVE  AllCandidates(Append(found, c))
  OBVIOUS
<1>1. PICK T : found \in Seq(T) /\ \A x \in T : IsCandidate(x)
  BY DEF AllCandidates
<1>2. Append(found, c) \in Seq(T \cup {c}) /\ \A x \in T \cup {c} : IsCandidate(x)
  BY <1>1
<1> QED BY <1>2 DEF AllCandidates

LEMMA DetectInSearches ==
    \A state, ins : IsSearch(state) => IsSearch(DetectIn(state, ins))
<1> SUFFICES ASSUME NEW state, NEW ins, IsSearch(state) PROVE IsSearch(DetectIn(state, ins))
  OBVIOUS
<1>1. PICK env, seen, found : state = SearchState(env, seen, found) /\ AllCandidates(found)
  BY DEF IsSearch
<1> DEFINE raw == Lift(ins)
           tree == IF raw = Refused THEN Refused ELSE Inline(raw, state.env)
           bound == [state EXCEPT !.env = Bind(@, ins.d, tree)]
           c == Candidate(ins, tree, FALSE)
           more == [bound EXCEPT !.seen = @ \cup {ToPositional(tree, LeafNames(tree))},
                                 !.found = Append(@, c)]
<1>2. bound = SearchState(Bind(env, ins.d, tree), seen, found)
  <2>1. bound = SetEnv(state, Bind(env, ins.d, tree))
    BY <1>1 DEF SearchState, SetEnv
  <2> HIDE DEF bound, tree
  <2> QED BY <1>1, <2>1, SearchUpdates
<1>3. IsSearch(bound)
  BY <1>1, <1>2 DEF IsSearch
<1>4. CASE tree = Refused
  <2>1. DetectIn(state, ins) = [state EXCEPT !.env = Forget(@, ins.d)]
    BY <1>4 DEF DetectIn
  <2>2. DetectIn(state, ins) = SetEnv(state, Forget(env, ins.d))
    BY <1>1, <2>1 DEF SearchState, SetEnv
  <2>3. DetectIn(state, ins) = SearchState(Forget(env, ins.d), seen, found)
    BY <1>1, <2>2, SearchUpdates
  <2> QED BY <1>1, <2>3 DEF IsSearch
<1>5. CASE tree # Refused /\ ~ Classified(ins, tree, state.seen)
  <2>1. DetectIn(state, ins) = bound
    BY <1>5 DEF DetectIn
  <2> QED BY <1>3, <2>1
<1>6. CASE tree # Refused /\ Classified(ins, tree, state.seen)
  <2>1. DetectIn(state, ins) = more
    BY <1>6 DEF DetectIn
  <2>2. tree \in LiftedTrees
    BY <1>6, BoundedIsLifted DEF Inline
  <2>3. IsCandidate(c)
    <3>1. ins.d.size \in Sizes
      BY <1>6 DEF Classified, Mba
    <3> HIDE DEF tree
    <3> QED BY <2>2, <3>1 DEF IsCandidate, Candidate
  <2>4. AllCandidates(Append(found, c))
    <3> HIDE DEF c
    <3> QED BY <1>1, <2>3, AllCandidatesAppend
  <2> DEFINE set == seen \cup {ToPositional(tree, LeafNames(tree))}
  <2>5. more = SearchState(Bind(env, ins.d, tree), set, Append(found, c))
    <3>1. more = SetFound(bound, set, Append(found, c))
      <4> HIDE DEF c, tree, bound
      <4> QED BY <1>2 DEF SearchState, SetFound
    <3> HIDE DEF c, tree, bound, more, set
    <3> QED BY <1>2, <3>1, SearchUpdates
  <2> HIDE DEF more, set, c
  <2> QED BY <2>1, <2>4, <2>5 DEF IsSearch
<1> QED BY <1>4, <1>5, <1>6

LEMMA DetectsCandidates ==
    ASSUME NEW S, NEW b \in Seq(S)
    PROVE  AllCandidates(DetectCandidates(b))
<1> DEFINE n == Len(b)
           start == [env |-> <<>>, seen |-> {}, found |-> <<>>]
           Body(p, i) == IF i = 0 THEN start ELSE DetectIn(p[i - 1], b[i])
           Correct(p, k) == \A i \in 0 .. n : i <= k => p[i] = Body(p, i)
           Reached == {k \in Nat : \E p : Correct(p, k)}
           after == CHOOSE p : p = [i \in 0 .. n |-> Body(p, i)]
<1>0. n \in Nat /\ n \in 0 .. n
  OBVIOUS
<1>1. ASSUME NEW p, NEW q, NEW i \in 0 .. n, i # 0 => p[i - 1] = q[i - 1]
      PROVE  Body(p, i) = Body(q, i)
  BY <1>1
<1>2. 0 \in Reached
  <2> DEFINE p == [i \in 0 .. n |-> start]
  <2>1. Correct(p, 0)
    BY <1>0
  <2> HIDE DEF p, Correct
  <2> QED BY <2>1
<1> HIDE DEF Body, n
<1>3. ASSUME NEW k \in Nat, k \in Reached PROVE k + 1 \in Reached
  <2>1. PICK p : Correct(p, k)
    BY <1>3
  <2> DEFINE q == [i \in 0 .. n |-> Body(p, i)]
  <2>2. ASSUME NEW i \in 0 .. n, i <= k + 1 PROVE q[i] = Body(q, i)
    <3>1. i # 0 => i - 1 \in 0 .. n /\ i - 1 <= k
      BY <1>0, <2>2
    <3>2. i # 0 => q[i - 1] = p[i - 1]
      BY <2>1, <3>1
    <3>3. q[i] = Body(p, i)
      OBVIOUS
    <3> HIDE DEF q
    <3> QED BY <1>1, <3>2, <3>3
  <2>3. Correct(q, k + 1)
    BY <2>2
  <2> HIDE DEF q, Correct
  <2>4. k + 1 \in Nat /\ \E r : Correct(r, k + 1)
    BY <2>3
  <2> QED BY <2>4
<1>4. \E p : p = [i \in 0 .. n |-> Body(p, i)]
  <2>1. n \in Reached
    <3> HIDE DEF Reached
    <3> QED BY <1>0, <1>2, <1>3, Induction
  <2>2. PICK p : \A i \in 0 .. n : p[i] = Body(p, i)
    <3>1. PICK p : Correct(p, n)
      BY <2>1
    <3>2. \A i \in 0 .. n : i <= n
      BY <1>0
    <3>3. \A i \in 0 .. n : p[i] = Body(p, i)
      BY <3>1, <3>2, Zenon
    <3> QED BY <3>3, Zenon
  <2> DEFINE q == [i \in 0 .. n |-> p[i]]
  <2>3. ASSUME NEW i \in 0 .. n PROVE q[i] = Body(q, i)
    <3>1. i # 0 => i - 1 \in 0 .. n
      BY <1>0
    <3>2. i # 0 => q[i - 1] = p[i - 1]
      BY <3>1
    <3>3. q[i] = Body(p, i)
      BY <2>2
    <3> HIDE DEF q
    <3> QED BY <1>1, <3>2, <3>3
  <2>4. q = [i \in 0 .. n |-> Body(q, i)]
    BY <2>3, Zenon
  <2> HIDE DEF q
  <2> QED BY <2>4
<1>5. after = [i \in 0 .. n |-> Body(after, i)]
  BY <1>4
<1>6. DetectCandidates(b) = after[n].found
  BY DEF DetectCandidates, Body, n
<1> HIDE DEF after
<1> DEFINE Searched == {k \in Nat : k <= n => IsSearch(after[k])}
<1>7. 0 \in Searched
  <2>1. 0 \in 0 .. n
    BY <1>0
  <2>2. after[0] = start
    BY <1>5, <2>1 DEF Body
  <2>3. AllCandidates(<<>>)
    BY NoneFound
  <2>4. start = SearchState(<<>>, {}, <<>>)
    BY DEF SearchState
  <2>5. IsSearch(start)
    <3> HIDE DEF start
    <3> QED BY <2>3, <2>4 DEF IsSearch
  <2> QED BY <2>2, <2>5
<1>8. ASSUME NEW k \in Nat, k \in Searched PROVE k + 1 \in Searched
  <2>1. CASE k + 1 <= n
    <3>1. k + 1 \in 0 .. n /\ k + 1 # 0 /\ (k + 1) - 1 = k /\ k <= n
      BY <1>0, <2>1
    <3>2. after[k + 1] = DetectIn(after[k], b[k + 1])
      BY <1>5, <3>1 DEF Body
    <3>3. IsSearch(after[k + 1])
      BY <1>8, <3>1, <3>2, DetectInSearches
    <3> QED BY <3>3
  <2> QED BY <2>1
<1>9. IsSearch(after[n])
  <2>1. n \in Searched
    <3> HIDE DEF Searched
    <3> QED BY <1>0, <1>7, <1>8, Induction
  <2> QED BY <1>0, <2>1
<1>10. AllCandidates(after[n].found)
  <2>1. PICK env, seen, found : after[n] = SearchState(env, seen, found) /\ AllCandidates(found)
    BY <1>9 DEF IsSearch
  <2>2. after[n].found = found
    BY <2>1 DEF SearchState
  <2> QED BY <2>1, <2>2
<1> QED BY <1>6, <1>10

----------------------------------------------------------------------------
(* What an entry of a table stands for: some tree with its key was proved  *)
(* equal to the rewrite that was put in positions.                         *)
ProvedFor(key, entry) ==
    \E t, r \in Trees : \E bits \in Nat \ {0} :
        /\ key = CanonicalKey(t, bits)
        /\ NamesOf(r) \subseteq NamesOf(t)
        /\ entry.rewrite = ToPositional(r, LeafNames(t))
        /\ Equivalent(t, r, LeafNames(t), bits)

IsRight(known) ==
    \A key \in DOMAIN known : known[key].outcome = "proved" => ProvedFor(key, known[key])

IsBlock(b) == \E S : b \in Seq(S)

(* The inductive invariant: the block stays one, what is queued was found, *)
(* and every entry of either table that is proved is right.                *)
PipelineInv ==
    /\ IsBlock(block) /\ AllCandidates(queue)
    /\ IsRight(table) /\ IsRight(widthTable)

LEMMA InstallKeepsBlock ==
    ASSUME NEW i, NEW c, NEW tree, IsBlock(block), Install(i, c, tree)
    PROVE  IsBlock(block')
<1>1. PICK S : block \in Seq(S)
  BY DEF IsBlock
<1>2. \A x : [block EXCEPT ![i] = x] \in Seq(S \cup {x})
  <2> TAKE x
  <2>1. block \in Seq(S \cup {x})
    BY <1>1, SeqMonotonic
  <2>2. CASE i \in 1 .. Len(block)
    BY <2>1, <2>2, ExceptSeq
  <2>3. CASE i \notin 1 .. Len(block)
    <3>1. [block EXCEPT ![i] = x] = block
      BY <2>1, <2>3
    <3> QED BY <2>1, <3>1
  <2> QED BY <2>2, <2>3
<1>3. CASE block' = block
  BY <1>3 DEF IsBlock
<1>4. CASE block' # block
  <2>1. PICK x : block' = [block EXCEPT ![i] = x]
    BY <1>4 DEF Install
  <2> DEFINE T == S \cup {x}
  <2>2. block' \in Seq(T)
    BY <1>2, <2>1
  <2> HIDE DEF T
  <2> QED BY <2>2 DEF IsBlock
<1> QED BY <1>3, <1>4

LEMMA BindKeepsRight ==
    ASSUME NEW known, NEW key, NEW entry, IsRight(known),
           entry.outcome = "proved" => ProvedFor(key, entry)
    PROVE  IsRight(Bind(known, key, entry))
<1> DEFINE new == Bind(known, key, entry)
<1>1. DOMAIN new = DOMAIN known \cup {key}
  BY DEF Bind
<1>2. \A k \in DOMAIN new : new[k] = IF k = key THEN entry ELSE known[k]
  BY DEF Bind
<1> HIDE DEF new
<1>3. IsRight(new)
  BY <1>1, <1>2 DEF IsRight
<1> QED BY <1>3 DEF new

(* A proof that a visit has got is what its entry stands for.              *)
LEMMA ProofIsRight ==
    ASSUME NEW c, IsCandidate(c), NEW tree \in Trees, NamesOf(tree) \subseteq ToSet(c.names),
           IsProof(c, tree)
    PROVE  ProvedFor(Key(c), Proved(tree, c.names))
<1> DEFINE bits == Bits(c.size)
<1>1. /\ c.tree \in Trees /\ bits \in Nat \ {0}
      /\ NamesOf(tree) \subseteq NamesOf(c.tree) /\ c.names = LeafNames(c.tree)
  BY CandidateFacts DEF IsCandidate
<1>2. Key(c) = CanonicalKey(c.tree, bits)
  BY DEF Key
<1>3. Equivalent(c.tree, tree, LeafNames(c.tree), bits)
  BY <1>1 DEF IsProof
<1>4. Proved(tree, c.names).rewrite = ToPositional(tree, LeafNames(c.tree))
  BY <1>1 DEF Proved
<1> HIDE DEF bits
<1> QED BY <1>1, <1>2, <1>3, <1>4 DEF ProvedFor

LEMMA AcceptedIsTree ==
    ASSUME NEW c, IsCandidate(c), NEW result \in SolveResults(c), Accepted(c, result)
    PROVE  result.tree \in Trees /\ NamesOf(result.tree) \subseteq ToSet(c.names)
  BY CandidateFacts, SolvedIsTree DEF SolveResults, Accepted

LEMMA PipelineInit == Init => PipelineInv
<1> SUFFICES ASSUME Init PROVE PipelineInv
  OBVIOUS
<1>1. IsBlock(block)
  BY ProgramsAssumption DEF Init, IsBlock
<1>2. IsRight(<<>>)
  BY DEF IsRight
<1> QED BY <1>1, <1>2, NoneFound DEF Init, PipelineInv

LEMMA SolveVisitKeeps ==
    ASSUME PipelineInv, NEW i, NEW c, IsCandidate(c), SolveVisit(i, c) PROVE PipelineInv'
<1>1. IsCandidate(c)
  OBVIOUS
<1>2. widthTable' = widthTable /\ queue' = queue
  BY DEF SolveVisit
<1>3. PICK result \in SolveResults(c) :
          IF Accepted(c, result) /\ IsProof(c, result.tree)
          THEN /\ table' = Bind(table, Key(c), Proved(result.tree, c.names))
               /\ Install(i, c, result.tree)
          ELSE table' = Bind(table, Key(c), NoRewrite) /\ UNCHANGED block
  BY DEF SolveVisit
<1>4. CASE Accepted(c, result) /\ IsProof(c, result.tree)
  <2>1. ProvedFor(Key(c), Proved(result.tree, c.names))
    BY <1>1, <1>4, AcceptedIsTree, ProofIsRight
  <2>2. IsRight(table')
    BY <1>3, <1>4, <2>1, BindKeepsRight DEF PipelineInv
  <2>3. IsBlock(block')
    BY <1>3, <1>4, InstallKeepsBlock DEF PipelineInv
  <2> QED BY <1>2, <2>2, <2>3 DEF PipelineInv
<1>5. CASE ~ (Accepted(c, result) /\ IsProof(c, result.tree))
  <2>1. NoRewrite.outcome # "proved"
    BY DEF NoRewrite
  <2>2. IsRight(table')
    BY <1>3, <1>5, <2>1, BindKeepsRight DEF PipelineInv
  <2> QED BY <1>2, <1>3, <1>5, <2>2 DEF PipelineInv
<1> QED BY <1>4, <1>5

LEMMA WidthVisitKeeps ==
    ASSUME PipelineInv, NEW i, NEW c, IsCandidate(c), WidthVisit(i, c) PROVE PipelineInv'
<1>1. IsCandidate(c)
  OBVIOUS
<1>2. table' = table /\ queue' = queue
  BY DEF WidthVisit
<1>3. \/ UNCHANGED <<widthTable, block>>
      \/ widthTable' = Bind(widthTable, Key(c), NoRewrite) /\ UNCHANGED block
      \/ \E result \in SolveResults(c) :
            /\ Accepted(c, result) /\ WidthVerdict(c, result.tree) = "proved"
            /\ widthTable' = Bind(widthTable, Key(c), Proved(result.tree, c.names))
            /\ Install(i, c, result.tree)
  BY DEF WidthVisit
<1>4. CASE UNCHANGED <<widthTable, block>>
  BY <1>2, <1>4 DEF PipelineInv
<1>5. CASE widthTable' = Bind(widthTable, Key(c), NoRewrite) /\ UNCHANGED block
  <2>1. NoRewrite.outcome # "proved"
    BY DEF NoRewrite
  <2>2. IsRight(widthTable')
    BY <1>5, <2>1, BindKeepsRight DEF PipelineInv
  <2> QED BY <1>2, <1>5, <2>2 DEF PipelineInv
<1>6. ASSUME NEW result \in SolveResults(c), Accepted(c, result),
             WidthVerdict(c, result.tree) = "proved",
             widthTable' = Bind(widthTable, Key(c), Proved(result.tree, c.names)),
             Install(i, c, result.tree)
      PROVE  PipelineInv'
  <2>1. result.tree \in Trees /\ NamesOf(result.tree) \subseteq ToSet(c.names)
    BY <1>1, <1>6, AcceptedIsTree
  <2>2. IsProof(c, result.tree)
    <3> DEFINE bits == Bits(c.size)
               rewrite == result.tree
    <3>1. c.tree \in Trees /\ bits \in Nat \ {0} /\ c.names = LeafNames(c.tree)
      BY <1>1, CandidateFacts DEF IsCandidate
    <3>2. ProveWidthEquivalent(c.tree, rewrite, bits) = "proved"
      BY <1>6 DEF WidthVerdict
    <3> HIDE DEF bits, rewrite
    <3>3. rewrite \in Trees
      BY <2>1 DEF rewrite
    <3>4. Equivalent(c.tree, rewrite, LeafNames(c.tree), bits)
      BY <3>1, <3>2, <3>3, WidthVerdictSound
    <3> QED BY <3>1, <3>4 DEF IsProof, bits, rewrite
  <2>3. ProvedFor(Key(c), Proved(result.tree, c.names))
    BY <1>1, <2>1, <2>2, ProofIsRight
  <2>4. IsRight(widthTable')
    BY <1>6, <2>3, BindKeepsRight DEF PipelineInv
  <2>5. IsBlock(block')
    BY <1>6, InstallKeepsBlock DEF PipelineInv
  <2> QED BY <1>2, <2>4, <2>5 DEF PipelineInv
<1> QED BY <1>3, <1>4, <1>5, <1>6

LEMMA PipelineNext == PipelineInv /\ [Next]_vars => PipelineInv'
<1> SUFFICES ASSUME PipelineInv, [Next]_vars PROVE PipelineInv'
  OBVIOUS
<1>1. ASSUME NEW i \in DOMAIN block, NEW c, TableHit(i, c) PROVE PipelineInv'
  <2>1. UNCHANGED <<table, widthTable, queue>>
    BY <1>1 DEF TableHit, tables
  <2>2. IsBlock(block')
    BY <1>1, InstallKeepsBlock DEF TableHit, PipelineInv
  <2> QED BY <2>1, <2>2 DEF PipelineInv
<1>2. ASSUME NEW i \in DOMAIN block, NEW c, IsCandidate(c), SolveVisit(i, c)
      PROVE  PipelineInv'
  BY <1>2, SolveVisitKeeps
<1>3. ASSUME NEW i \in DOMAIN block, NEW c, IsCandidate(c), WidthVisit(i, c)
      PROVE  PipelineInv'
  BY <1>3, WidthVisitKeeps
<1>4. CASE StartPass
  <2>1. AllCandidates(queue')
    BY <1>4, DetectsCandidates DEF StartPass, PipelineInv, IsBlock
  <2> QED BY <1>4, <2>1 DEF StartPass, PipelineInv, tables
<1>5. CASE NextCandidate
  <2>1. AllCandidates(queue')
    <3>1. PICK T : queue \in Seq(T) /\ \A c \in T : IsCandidate(c)
      BY DEF PipelineInv, AllCandidates
    <3>2. queue # <<>> /\ queue' = Tail(queue)
      BY <1>5 DEF NextCandidate
    <3>3. queue' \in Seq(T)
      BY <3>1, <3>2
    <3> QED BY <3>1, <3>3 DEF AllCandidates
  <2>2. IsBlock(block')
    <3>1. UNCHANGED block \/ \E result : Install(Target(Head(queue)), Head(queue), result.tree)
      BY <1>5 DEF NextCandidate
    <3> QED BY <3>1, InstallKeepsBlock DEF PipelineInv
  <2> QED BY <1>5, <2>1, <2>2 DEF NextCandidate, PipelineInv, tables
<1>6. CASE UNCHANGED vars
  BY <1>6 DEF vars, PipelineInv
<1>7. \A i \in DOMAIN block : \A c \in {LiveCandidate(block[i])} \ {NoCandidate} :
          IsCandidate(c)
  BY LiveCandidateFound
<1> QED BY <1>1, <1>2, <1>3, <1>4, <1>5, <1>6, <1>7 DEF Next

(* Every proved entry of either table is right for the key it is kept      *)
(* under, whatever visits and passes came before, and whatever the native  *)
(* solver answered them.                                                   *)
THEOREM TablesHoldProofs == Spec => []PipelineInv
<1> QED BY PipelineInit, PipelineNext, PTL DEF Spec

LEMMA RightServes == PipelineInv => ServesOnlyEquals
<1> SUFFICES ASSUME PipelineInv, NEW c \in LiveCandidates,
                    NEW known, known \in {table, widthTable}, Key(c) \in DOMAIN known,
                    known[Key(c)].outcome = "proved"
             PROVE  IsProof(c, Instantiate(known[Key(c)].rewrite, c.names))
  BY DEF ServesOnlyEquals
<1> DEFINE bits == Bits(c.size)
           rewrite == known[Key(c)].rewrite
<1>1. IsCandidate(c)
  BY LiveCandidateFound DEF LiveCandidates
<1>2. c.tree \in Trees /\ c.names = LeafNames(c.tree)
  BY <1>1, CandidateFacts DEF IsCandidate
<1>3. ProvedFor(Key(c), known[Key(c)])
  BY DEF PipelineInv, IsRight
<1>4. PICK t \in Trees, r \in Trees : \E wide \in Nat \ {0} :
          /\ Key(c) = CanonicalKey(t, wide)
          /\ NamesOf(r) \subseteq NamesOf(t)
          /\ rewrite = ToPositional(r, LeafNames(t))
          /\ Equivalent(t, r, LeafNames(t), wide)
  BY <1>3 DEF ProvedFor
<1>5. Key(c) = CanonicalKey(c.tree, bits)
  BY DEF Key
<1>6. /\ bits \in Nat \ {0} /\ CanonicalKey(t, bits) = CanonicalKey(c.tree, bits)
      /\ NamesOf(r) \subseteq NamesOf(t)
      /\ rewrite = ToPositional(r, LeafNames(t))
      /\ Equivalent(t, r, LeafNames(t), bits)
  <2>1. PICK wide \in Nat \ {0} :
            /\ Key(c) = CanonicalKey(t, wide)
            /\ NamesOf(r) \subseteq NamesOf(t)
            /\ rewrite = ToPositional(r, LeafNames(t))
            /\ Equivalent(t, r, LeafNames(t), wide)
    BY <1>4
  <2>2. wide = bits
    BY <1>5, <2>1 DEF CanonicalKey
  <2> QED BY <1>5, <2>1, <2>2
<1> HIDE DEF bits, rewrite
<1>7. Equivalent(c.tree, Instantiate(ToPositional(r, LeafNames(t)), LeafNames(c.tree)),
                 LeafNames(c.tree), bits)
  BY <1>2, <1>6, KeyCarriesRewrite
<1> QED BY <1>2, <1>6, <1>7 DEF IsProof, bits, rewrite

(* Whatever the tables would serve to an instruction of the block computes *)
(* what the instruction computes, at its width and for every value of its  *)
(* leaves: for every program, every answer of the native solver, and in    *)
(* both domains (the ServesOnlyEquals of the run, with no bound).          *)
THEOREM ServesOnlyEqualsAlways == Spec => []ServesOnlyEquals
<1> QED BY TablesHoldProofs, RightServes, PTL

LEMMA FoundIsEncoded == PipelineInv => EncodingFaithful
<1> SUFFICES ASSUME PipelineInv, NEW c \in LiveCandidates \cup ToSet(queue)
             PROVE  IsProof(c, Decoded(Encoded(c.tree, c.names), c.names))
  BY DEF EncodingFaithful
<1> DEFINE answer == Decoded(Encoded(c.tree, c.names), c.names)
           bits == Bits(c.size)
<1>1. IsCandidate(c)
  <2>1. CASE c \in LiveCandidates
    BY <2>1, LiveCandidateFound DEF LiveCandidates
  <2>2. CASE c \in ToSet(queue)
    <3>1. PICK T : queue \in Seq(T) /\ \A x \in T : IsCandidate(x)
      BY DEF PipelineInv, AllCandidates
    <3>2. c \in T
      BY <2>2, <3>1 DEF ToSet
    <3> QED BY <3>1, <3>2
  <2> QED BY <2>1, <2>2
<1>2. /\ c.names \in Seq(Names) /\ c.tree \in LiftedTrees /\ bits \in Nat
      /\ NamesOf(c.tree) = ToSet(c.names)
  BY <1>1, CandidateFacts DEF IsCandidate
<1>3. Denotes(answer, c.tree)
  BY <1>2, EncodingDenotes
<1> HIDE DEF answer, bits
<1>4. ASSUME NEW values \in [ToSet(c.names) -> Words(bits)]
      PROVE  Evaluate(c.tree, values, bits) = Evaluate(answer, values, bits)
  <2>1. \A n \in NamesOf(c.tree) : values[n] \in Int
    BY <1>2, WordsAreNaturals
  <2> QED BY <1>2, <1>3, <2>1 DEF Denotes
<1> QED BY <1>4 DEF IsProof, Equivalent, answer, bits

(* The array the native solver is given denotes the candidate it is asked  *)
(* about, though it has no node for a difference and its nodes point at    *)
(* one another by index: for every candidate, of whatever shape and depth. *)
THEOREM EncodingFaithfulAlways == Spec => []EncodingFaithful
<1> QED BY TablesHoldProofs, FoundIsEncoded, PTL

(* The staged proof decides every answer it attempts: what it asks on the  *)
(* way holds of the candidate and of the answer, whatever they are.        *)
LEMMA AttemptsDecide == WidthVerdictExact
<1> SUFFICES ASSUME NEW c \in LiveCandidates,
                    NEW result \in SolveResults(c) \ {Failed, Unchanged},
                    Attempts(c.tree, result.tree, Bits(c.size))
             PROVE  WidthVerdict(c, result.tree)
                      = IF IsProof(c, result.tree) THEN "proved" ELSE "refuted"
  BY DEF WidthVerdictExact
<1>1. IsCandidate(c)
  BY LiveCandidateFound DEF LiveCandidates
<1>2. /\ c.tree \in Trees /\ c.names \in Seq(Names) /\ Bits(c.size) \in Nat \ {0}
      /\ c.names = LeafNames(c.tree)
  BY <1>1, CandidateFacts DEF IsCandidate
<1>3. result.status = "solved"
  <2>1. PICK nodes \in NativeAnswers(c.tree, c.names, Bits(c.size)) :
            result = Solved(Decoded(nodes, c.names))
    BY DEF SolveResults, SolveSignature
  <2> QED BY <2>1 DEF Solved
<1>4. result.tree \in Trees
  BY <1>2, <1>3, SolvedIsTree DEF SolveResults
<1> DEFINE bits == Bits(c.size)
           rewrite == result.tree
<1>5. Attempts(c.tree, rewrite, bits) /\ bits \in Nat \ {0} /\ rewrite \in Trees
  BY <1>2, <1>4
<1> HIDE DEF bits, rewrite
<1>6. ProveWidthEquivalent(c.tree, rewrite, bits)
        = IF Equivalent(c.tree, rewrite, LeafNames(c.tree), bits) THEN "proved" ELSE "refuted"
  BY <1>2, <1>5, WidthVerdictComplete
<1> QED BY <1>2, <1>6 DEF WidthVerdict, IsProof, bits, rewrite

(* Of every answer the staged proof attempts, for whatever instruction and *)
(* at whatever width, it says what is the case: nothing it could have      *)
(* proved is lost to an obligation on the way.                             *)
THEOREM WidthVerdictExactAlways == Spec => []WidthVerdictExact
<1> QED BY AttemptsDecide, PTL

============================================================================
