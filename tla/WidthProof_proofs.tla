------------------------- MODULE WidthProof_proofs -------------------------
(***************************************************************************)
(* The staged proof of a rewrite that mixes widths is sound and complete,  *)
(* at every width and for every tree: what the chain of obligations proves *)
(* equal is equal on every word, what its last one refutes is not, and no  *)
(* obligation before the last can fail.                                    *)
(***************************************************************************)
EXTENDS WidthProof, Expressions_proofs

(* What a Boolean tree and a linear tree are made of.                      *)
LEMMA IsBooleanAt ==
    \A t \in Trees :
        /\ IsBoolean(t) \in BOOLEAN
        /\ IsConst(t) \/ IsVar(t) => IsBoolean(t)
        /\ IsUn(t) => (IsBoolean(t) <=> t.op \in BooleanOps /\ IsBoolean(t.a))
        /\ IsBin(t) => (IsBoolean(t) <=> t.op \in BooleanOps /\ IsBoolean(t.a) /\ IsBoolean(t.b))
<1> DEFINE Body(p, t) ==
               CASE t.kind = "un"  -> t.op \in BooleanOps /\ p[t.a]
                 [] t.kind = "bin" -> t.op \in BooleanOps /\ p[t.a] /\ p[t.b]
                 [] OTHER          -> TRUE
           F == [p \in [Trees -> BOOLEAN] |-> [t \in Trees |-> Body(p, t)]]
           boolean == CHOOSE p : p = [t \in Trees |-> Body(p, t)]
<1>1. ASSUME NEW p, NEW t \in Trees PROVE Body(p, t) \in BOOLEAN
  OBVIOUS
<1>2. ASSUME NEW p, NEW q, NEW t \in Trees, \A kid \in Kids(t) : p[kid] = q[kid]
      PROVE  Body(p, t) = Body(q, t)
  <2>1. CASE IsConst(t) \/ IsVar(t)
    BY <2>1 DEF IsConst, IsVar
  <2>2. CASE IsUn(t)
    BY <1>2, <2>2 DEF IsUn
  <2>3. CASE IsBin(t)
    BY <1>2, <2>3 DEF IsBin
  <2> QED BY <2>1, <2>2, <2>3, TreeShape
<1>3. F \in [[Trees -> BOOLEAN] -> [Trees -> BOOLEAN]]
  <2> HIDE DEF Body
  <2> QED BY <1>1
<1>4. \E p : p = [t \in Trees |-> Body(p, t)]
  <2>1. ASSUME NEW g \in [Trees -> BOOLEAN], NEW h \in [Trees -> BOOLEAN], NEW t \in Trees,
               \A kid \in Kids(t) : g[kid] = h[kid]
        PROVE  F[g][t] = F[h][t]
    <3> HIDE DEF Body
    <3> QED BY <1>2, <2>1
  <2>2. \E p \in [Trees -> BOOLEAN] : p = F[p]
    <3> HIDE DEF F
    <3> QED BY <1>3, <2>1, TreeRecursion
  <2> HIDE DEF Body
  <2> QED BY <2>2
<1>5. boolean = [t \in Trees |-> Body(boolean, t)]
  <2> HIDE DEF Body
  <2> QED BY <1>4
<1>6. \A t \in Trees : IsBoolean(t) = boolean[t]
  BY DEF IsBoolean
<1> HIDE DEF boolean
<1> TAKE t \in Trees
<1>7. boolean[t] = Body(boolean, t)
  <2> HIDE DEF Body
  <2> QED BY <1>5
<1>8. CASE IsConst(t) \/ IsVar(t)
  BY <1>6, <1>7, <1>8 DEF IsConst, IsVar, IsUn, IsBin
<1>9. CASE IsUn(t)
  BY <1>6, <1>7, <1>9 DEF IsConst, IsVar, IsUn, IsBin
<1>10. CASE IsBin(t)
  BY <1>6, <1>7, <1>10 DEF IsConst, IsVar, IsUn, IsBin
<1> QED BY <1>8, <1>9, <1>10, TreeShape

LEMMA IsLinearAt ==
    \A t \in Trees :
        /\ IsUn(t) => (IsLinear(t) <=> IsBoolean(t) \/ (t.op = "-" /\ IsLinear(t.a)))
        /\ IsBin(t) => (IsLinear(t) <=>
               \/ IsBoolean(t)
               \/ t.op \in {"+", "-"} /\ IsLinear(t.a) /\ IsLinear(t.b)
               \/ /\ t.op = "*"
                  /\ IF t.a.kind = "const" THEN IsLinear(t.b)
                     ELSE t.b.kind = "const" /\ IsLinear(t.a))
<1> DEFINE Body(p, t) ==
               \/ IsBoolean(t)
               \/ t.kind = "un" /\ t.op = "-" /\ p[t.a]
               \/ t.kind = "bin" /\ t.op \in {"+", "-"} /\ p[t.a] /\ p[t.b]
               \/ /\ t.kind = "bin" /\ t.op = "*"
                  /\ IF t.a.kind = "const" THEN p[t.b] ELSE t.b.kind = "const" /\ p[t.a]
           F == [p \in [Trees -> BOOLEAN] |-> [t \in Trees |-> Body(p, t)]]
           linear == CHOOSE p : p = [t \in Trees |-> Body(p, t)]
<1>1. ASSUME NEW p, NEW t \in Trees PROVE Body(p, t) \in BOOLEAN
  OBVIOUS
<1>2. ASSUME NEW p, NEW q, NEW t \in Trees, \A kid \in Kids(t) : p[kid] = q[kid]
      PROVE  Body(p, t) = Body(q, t)
  <2>1. CASE IsConst(t) \/ IsVar(t)
    BY <2>1 DEF IsConst, IsVar
  <2>2. CASE IsUn(t)
    BY <1>2, <2>2 DEF IsUn
  <2>3. CASE IsBin(t)
    BY <1>2, <2>3 DEF IsBin
  <2> QED BY <2>1, <2>2, <2>3, TreeShape
<1>3. F \in [[Trees -> BOOLEAN] -> [Trees -> BOOLEAN]]
  <2> HIDE DEF Body
  <2> QED BY <1>1
<1>4. \E p : p = [t \in Trees |-> Body(p, t)]
  <2>1. ASSUME NEW g \in [Trees -> BOOLEAN], NEW h \in [Trees -> BOOLEAN], NEW t \in Trees,
               \A kid \in Kids(t) : g[kid] = h[kid]
        PROVE  F[g][t] = F[h][t]
    <3> HIDE DEF Body
    <3> QED BY <1>2, <2>1
  <2>2. \E p \in [Trees -> BOOLEAN] : p = F[p]
    <3> HIDE DEF F
    <3> QED BY <1>3, <2>1, TreeRecursion
  <2> HIDE DEF Body
  <2> QED BY <2>2
<1>5. linear = [t \in Trees |-> Body(linear, t)]
  <2> HIDE DEF Body
  <2> QED BY <1>4
<1>6. \A t \in Trees : IsLinear(t) = linear[t]
  BY DEF IsLinear
<1> HIDE DEF linear
<1> TAKE t \in Trees
<1>7. linear[t] = Body(linear, t)
  <2> HIDE DEF Body
  <2> QED BY <1>5
<1>8. CASE IsConst(t) \/ IsVar(t)
  BY <1>6, <1>7, <1>8 DEF IsConst, IsVar, IsUn, IsBin
<1>9. CASE IsUn(t)
  BY <1>6, <1>7, <1>9 DEF IsConst, IsVar, IsUn, IsBin
<1>10. CASE IsBin(t)
  BY <1>6, <1>7, <1>10 DEF IsConst, IsVar, IsUn, IsBin
<1> QED BY <1>8, <1>9, <1>10, TreeShape

(* The value of one bit of a kernel, node by node.                         *)
LEMMA BitValueAt ==
    ASSUME NEW bit \in Nat, NEW x \in Int
    PROVE  \A t \in Trees :
               /\ BitValue(t, bit, x) \in Int
               /\ IsConst(t) => BitValue(t, bit, x) = BitOf(t.value, bit)
               /\ IsVar(t) => BitValue(t, bit, x) = x
               /\ IsUn(t) => BitValue(t, bit, x) = 1 - BitValue(t.a, bit, x)
               /\ IsBin(t) => BitValue(t, bit, x)
                                = BitOperation(t.op, BitValue(t.a, bit, x), BitValue(t.b, bit, x))
<1> DEFINE Body(p, t) ==
               CASE t.kind = "var"   -> x
                 [] t.kind = "const" -> BitOf(t.value, bit)
                 [] t.kind = "un"    -> 1 - p[t.a]
                 [] OTHER            -> BitOperation(t.op, p[t.a], p[t.b])
           F == [p \in [Trees -> Int] |-> [t \in Trees |-> Body(p, t)]]
           value == CHOOSE p : p = [t \in Trees |-> Body(p, t)]
<1>1. ASSUME NEW p, NEW t \in Trees, \A kid \in Kids(t) : p[kid] \in Int PROVE Body(p, t) \in Int
  <2>1. CASE IsConst(t)
    BY <2>1, BitIsBinary DEF IsConst
  <2>2. CASE IsVar(t)
    BY <2>2 DEF IsVar
  <2>3. CASE IsUn(t)
    BY <1>1, <2>3 DEF IsUn
  <2>4. CASE IsBin(t)
    <3>1. p[t.a] \in Int /\ p[t.b] \in Int
      BY <1>1, <2>4 DEF IsBin
    <3>2. ASSUME NEW a \in Int, NEW b \in Int
          PROVE  BitOperation(t.op, a, b) \in Int
      BY DEF BitOperation
    <3> QED BY <2>4, <3>1, <3>2 DEF IsBin
  <2> QED BY <2>1, <2>2, <2>3, <2>4, TreeShape
<1>2. ASSUME NEW p, NEW q, NEW t \in Trees, \A kid \in Kids(t) : p[kid] = q[kid]
      PROVE  Body(p, t) = Body(q, t)
  <2>1. CASE IsConst(t) \/ IsVar(t)
    BY <2>1 DEF IsConst, IsVar
  <2>2. CASE IsUn(t)
    BY <1>2, <2>2 DEF IsUn
  <2>3. CASE IsBin(t)
    BY <1>2, <2>3 DEF IsBin
  <2> QED BY <2>1, <2>2, <2>3, TreeShape
<1>3. F \in [[Trees -> Int] -> [Trees -> Int]]
  <2> HIDE DEF Body
  <2> QED BY <1>1, LayerKids
<1>4. \E p \in [Trees -> Int] : p = [t \in Trees |-> Body(p, t)]
  <2>1. ASSUME NEW g \in [Trees -> Int], NEW h \in [Trees -> Int], NEW t \in Trees,
               \A kid \in Kids(t) : g[kid] = h[kid]
        PROVE  F[g][t] = F[h][t]
    <3> HIDE DEF Body
    <3> QED BY <1>2, <2>1
  <2>2. \E p \in [Trees -> Int] : p = F[p]
    <3> HIDE DEF F
    <3> QED BY <1>3, <2>1, TreeRecursion
  <2> HIDE DEF Body
  <2> QED BY <2>2
<1>5. value = [t \in Trees |-> Body(value, t)]
  <2> HIDE DEF Body
  <2> QED BY <1>4
<1>6. \A t \in Trees : BitValue(t, bit, x) = value[t]
  BY DEF BitValue
<1> HIDE DEF value
<1> DEFINE Good == {t \in Trees : value[t] \in Int}
<1>7. ASSUME NEW t \in Trees, Kids(t) \subseteq Good PROVE t \in Good
  <2>1. Body(value, t) \in Int
    <3> HIDE DEF Body
    <3> QED BY <1>1, <1>7
  <2> HIDE DEF Body
  <2> QED BY <1>5, <2>1
<1>8. Trees \subseteq Good
  <2> HIDE DEF Good
  <2> QED BY <1>7, TreeInduction
<1> TAKE t \in Trees
<1>9. value[t] = Body(value, t)
  <2> HIDE DEF Body
  <2> QED BY <1>5
<1>10. BitValue(t, bit, x) \in Int
  BY <1>6, <1>8
<1>11. CASE IsConst(t)
  BY <1>6, <1>9, <1>10, <1>11 DEF IsConst, IsVar, IsUn, IsBin
<1>12. CASE IsVar(t)
  BY <1>6, <1>9, <1>10, <1>12 DEF IsConst, IsVar, IsUn, IsBin
<1>13. CASE IsUn(t)
  BY <1>6, <1>9, <1>10, <1>13 DEF IsConst, IsVar, IsUn, IsBin
<1>14. CASE IsBin(t)
  <2>1. BitValue(t.a, bit, x) = value[t.a] /\ BitValue(t.b, bit, x) = value[t.b]
    BY <1>6, <1>14 DEF IsBin
  <2> QED BY <1>6, <1>9, <1>10, <1>14, <2>1 DEF IsConst, IsVar, IsUn, IsBin
<1> QED BY <1>11, <1>12, <1>13, <1>14, TreeShape

(* The constants of a tree, node by node.                                  *)
LEMMA ConstantsAt ==
    \A t \in Trees :
        /\ Constants(t) \subseteq Nat
        /\ IsConst(t) => Constants(t) = {t.value}
        /\ IsUn(t) => Constants(t) = Constants(t.a)
        /\ IsBin(t) => Constants(t) = Constants(t.a) \cup Constants(t.b)
<1> DEFINE Body(p, t) ==
               CASE t.kind = "const" -> {t.value}
                 [] t.kind = "var"   -> {}
                 [] t.kind = "un"    -> p[t.a]
                 [] OTHER            -> p[t.a] \cup p[t.b]
           V == SUBSET Nat
           F == [p \in [Trees -> V] |-> [t \in Trees |-> Body(p, t)]]
           constants == CHOOSE p : p = [t \in Trees |-> Body(p, t)]
<1>1. ASSUME NEW p, NEW t \in Trees, \A kid \in Kids(t) : p[kid] \in V PROVE Body(p, t) \in V
  <2>1. CASE IsConst(t)
    BY <2>1 DEF IsConst
  <2>2. CASE IsVar(t)
    BY <2>2 DEF IsVar
  <2>3. CASE IsUn(t)
    BY <1>1, <2>3 DEF IsUn
  <2>4. CASE IsBin(t)
    <3>1. p[t.a] \in V /\ p[t.b] \in V
      BY <1>1, <2>4 DEF IsBin
    <3> QED BY <2>4, <3>1 DEF IsBin
  <2> QED BY <2>1, <2>2, <2>3, <2>4, TreeShape
<1>2. ASSUME NEW p, NEW q, NEW t \in Trees, \A kid \in Kids(t) : p[kid] = q[kid]
      PROVE  Body(p, t) = Body(q, t)
  <2>1. CASE IsConst(t) \/ IsVar(t)
    BY <2>1 DEF IsConst, IsVar
  <2>2. CASE IsUn(t)
    BY <1>2, <2>2 DEF IsUn
  <2>3. CASE IsBin(t)
    BY <1>2, <2>3 DEF IsBin
  <2> QED BY <2>1, <2>2, <2>3, TreeShape
<1>3. F \in [[Trees -> V] -> [Trees -> V]]
  <2> HIDE DEF Body, V
  <2> QED BY <1>1, LayerKids
<1>4. \E p \in [Trees -> V] : p = [t \in Trees |-> Body(p, t)]
  <2>1. ASSUME NEW g \in [Trees -> V], NEW h \in [Trees -> V], NEW t \in Trees,
               \A kid \in Kids(t) : g[kid] = h[kid]
        PROVE  F[g][t] = F[h][t]
    <3> HIDE DEF Body, V
    <3> QED BY <1>2, <2>1
  <2>2. \E p \in [Trees -> V] : p = F[p]
    <3>1. V # {}
      OBVIOUS
    <3> HIDE DEF F, V
    <3> QED BY <1>3, <2>1, <3>1, TreeRecursion
  <2> HIDE DEF Body, V
  <2> QED BY <2>2
<1>5. constants = [t \in Trees |-> Body(constants, t)]
  <2> HIDE DEF Body, V
  <2> QED BY <1>4
<1>6. \A t \in Trees : Constants(t) = constants[t]
  BY DEF Constants
<1> HIDE DEF constants
<1> DEFINE Good == {t \in Trees : constants[t] \in V}
<1>7. ASSUME NEW t \in Trees, Kids(t) \subseteq Good PROVE t \in Good
  <2>1. Body(constants, t) \in V
    <3> HIDE DEF Body, V
    <3> QED BY <1>1, <1>7
  <2> HIDE DEF Body, V
  <2> QED BY <1>5, <2>1
<1>8. Trees \subseteq Good
  <2> HIDE DEF Good
  <2> QED BY <1>7, TreeInduction
<1> TAKE t \in Trees
<1>9. constants[t] = Body(constants, t)
  <2> HIDE DEF Body
  <2> QED BY <1>5
<1>10. Constants(t) \subseteq Nat
  BY <1>6, <1>8
<1>11. CASE IsConst(t)
  BY <1>6, <1>9, <1>10, <1>11 DEF IsConst, IsVar, IsUn, IsBin
<1>12. CASE IsVar(t)
  BY <1>10, <1>12 DEF IsConst, IsVar, IsUn, IsBin
<1>13. CASE IsUn(t)
  BY <1>6, <1>9, <1>10, <1>13 DEF IsConst, IsVar, IsUn, IsBin
<1>14. CASE IsBin(t)
  <2>1. Constants(t.a) = constants[t.a] /\ Constants(t.b) = constants[t.b]
    BY <1>6, <1>14 DEF IsBin
  <2> QED BY <1>6, <1>9, <1>10, <1>14, <2>1 DEF IsConst, IsVar, IsUn, IsBin
<1> QED BY <1>11, <1>12, <1>13, <1>14, TreeShape

(* The kernels of a tree and their weights.                                *)
Entry == [weight : Int, tree : Trees]

(* The entries of a node whose own coefficient is c.                       *)
NodeEntries(p, t, c) ==
    IF IsBoolean(t) THEN <<[weight |-> c, tree |-> t]>>
    ELSE CASE t.kind = "un" /\ t.op = "-" -> p[t.a][-c]
           [] t.kind = "bin" /\ t.op \in {"+", "-"} ->
                  p[t.a][c] \o p[t.b][IF t.op = "+" THEN c ELSE -c]
           [] t.kind = "bin" /\ t.op = "*" /\ t.a.kind = "const" -> p[t.b][c * t.a.value]
           [] t.kind = "bin" /\ t.op = "*" /\ t.a.kind # "const" /\ t.b.kind = "const" ->
                  p[t.a][c * t.b.value]
           [] OTHER -> <<>>

LEMMA LinearizeAt ==
    ASSUME NEW bits \in Nat
    PROVE  \A t \in Trees, factor \in Int :
               LET c == factor % TwoTo(bits) IN
               /\ c \in Int /\ Linearize(t, factor, bits) \in Seq(Entry)
               /\ IsBoolean(t) => Linearize(t, factor, bits) = <<[weight |-> c, tree |-> t]>>
               /\ IsUn(t) /\ t.op = "-" => Linearize(t, factor, bits) = Linearize(t.a, -c, bits)
               /\ IsBin(t) /\ t.op \in {"+", "-"} =>
                      Linearize(t, factor, bits)
                        = Linearize(t.a, c, bits)
                          \o Linearize(t.b, IF t.op = "+" THEN c ELSE -c, bits)
               /\ IsBin(t) /\ t.op = "*" /\ t.a.kind = "const" =>
                      Linearize(t, factor, bits) = Linearize(t.b, c * t.a.value, bits)
               /\ IsBin(t) /\ t.op = "*" /\ t.a.kind # "const" /\ t.b.kind = "const" =>
                      Linearize(t, factor, bits) = Linearize(t.a, c * t.b.value, bits)
<1> DEFINE V == [Int -> Seq(Entry)]
           Body(p, t) == [factor \in Int |-> NodeEntries(p, t, factor % TwoTo(bits))]
           F == [p \in [Trees -> V] |-> [t \in Trees |-> Body(p, t)]]
           entries == CHOOSE p : p = [t \in Trees |-> Body(p, t)]
<1>0. \A z \in Int : z % TwoTo(bits) \in Int
  BY PowerOfTwo
<1>1. ASSUME NEW p, NEW t \in Trees, \A kid \in Kids(t) : p[kid] \in V PROVE Body(p, t) \in V
  <2>0. ASSUME NEW c \in Int PROVE NodeEntries(p, t, c) \in Seq(Entry)
    <3>1. -c \in Int /\ <<>> \in Seq(Entry) /\ <<[weight |-> c, tree |-> t]>> \in Seq(Entry)
      BY DEF Entry
    <3>2. CASE IsBoolean(t)
      BY <3>1, <3>2 DEF NodeEntries
    <3>3. CASE IsUn(t) /\ ~ IsBoolean(t)
      <4>1. t.kind = "un" /\ p[t.a] \in V
        BY <1>1, <3>3 DEF IsUn
      <4>2. p[t.a][-c] \in Seq(Entry)
        BY <3>1, <4>1
      <4> QED BY <3>1, <3>3, <4>1, <4>2 DEF NodeEntries
    <3>4. CASE IsBin(t) /\ ~ IsBoolean(t)
      <4>1. t.kind = "bin" /\ p[t.a] \in V /\ p[t.b] \in V
        BY <1>1, <3>4 DEF IsBin
      <4>2. /\ t.a.kind = "const" => t.a.value \in Int
            /\ t.b.kind = "const" => t.b.value \in Int
        BY <3>4, TreeShape DEF IsConst, IsVar, IsUn, IsBin
      <4>3. /\ t.a.kind = "const" => c * t.a.value \in Int
            /\ t.b.kind = "const" => c * t.b.value \in Int
        BY <4>2
      <4>4. /\ p[t.a][c] \in Seq(Entry)
            /\ p[t.b][IF t.op = "+" THEN c ELSE -c] \in Seq(Entry)
            /\ t.a.kind = "const" => p[t.b][c * t.a.value] \in Seq(Entry)
            /\ t.b.kind = "const" => p[t.a][c * t.b.value] \in Seq(Entry)
        BY <3>1, <4>1, <4>3
      <4>5. p[t.a][c] \o p[t.b][IF t.op = "+" THEN c ELSE -c] \in Seq(Entry)
        BY <4>4
      <4> QED BY <3>1, <3>4, <4>1, <4>4, <4>5 DEF NodeEntries
    <3> QED BY <3>2, <3>3, <3>4, TreeShape, IsBooleanAt
  <2> QED BY <1>0, <2>0
<1>2. ASSUME NEW p, NEW q, NEW t \in Trees, \A kid \in Kids(t) : p[kid] = q[kid]
      PROVE  Body(p, t) = Body(q, t)
  <2>1. t.kind = "un" => p[t.a] = q[t.a]
    BY <1>2 DEF Kids
  <2>2. t.kind = "bin" => p[t.a] = q[t.a] /\ p[t.b] = q[t.b]
    BY <1>2 DEF Kids
  <2>3. \A c : NodeEntries(p, t, c) = NodeEntries(q, t, c)
    BY <2>1, <2>2 DEF NodeEntries
  <2> QED BY <2>3
<1>3. F \in [[Trees -> V] -> [Trees -> V]]
  <2> HIDE DEF Body, V
  <2> QED BY <1>1, LayerKids
<1>4. \E p \in [Trees -> V] : p = [t \in Trees |-> Body(p, t)]
  <2>1. ASSUME NEW g \in [Trees -> V], NEW h \in [Trees -> V], NEW t \in Trees,
               \A kid \in Kids(t) : g[kid] = h[kid]
        PROVE  F[g][t] = F[h][t]
    <3> HIDE DEF Body, V
    <3> QED BY <1>2, <2>1
  <2>2. V # {}
    <3>1. [z \in Int |-> <<>>] \in V
      OBVIOUS
    <3> QED BY <3>1
  <2>3. \E p \in [Trees -> V] : p = F[p]
    <3> HIDE DEF F, V
    <3> QED BY <1>3, <2>1, <2>2, TreeRecursion
  <2> HIDE DEF Body, V
  <2> QED BY <2>3
<1>5. entries = [t \in Trees |-> Body(entries, t)]
  <2> HIDE DEF Body
  <2> QED BY <1>4
<1>6. \A t \in Trees : \A factor : Linearize(t, factor, bits) = entries[t][factor]
  BY DEF Linearize, NodeEntries
<1> HIDE DEF entries
<1> DEFINE Good == {t \in Trees : entries[t] \in V}
<1>7. ASSUME NEW t \in Trees, Kids(t) \subseteq Good PROVE t \in Good
  <2>1. Body(entries, t) \in V
    <3> HIDE DEF Body, V
    <3> QED BY <1>1, <1>7
  <2> HIDE DEF Body, V
  <2> QED BY <1>5, <2>1
<1>8. Trees \subseteq Good
  <2> HIDE DEF Good
  <2> QED BY <1>7, TreeInduction
<1> TAKE t \in Trees, factor \in Int
<1> DEFINE c == factor % TwoTo(bits)
<1>9. entries[t] = Body(entries, t)
  <2> HIDE DEF Body
  <2> QED BY <1>5
<1>e. entries[t][factor] = NodeEntries(entries, t, c)
  BY <1>9
<1>10. c \in Int /\ Linearize(t, factor, bits) \in Seq(Entry)
  BY <1>0, <1>6, <1>8, ZenonT(40)
<1>11. IsBoolean(t) => Linearize(t, factor, bits) = <<[weight |-> c, tree |-> t]>>
  BY <1>6, <1>e DEF NodeEntries
<1>12. IsUn(t) /\ t.op = "-" => Linearize(t, factor, bits) = Linearize(t.a, -c, bits)
  <2> SUFFICES ASSUME IsUn(t), t.op = "-" PROVE Linearize(t, factor, bits) = Linearize(t.a, -c, bits)
    OBVIOUS
  <2>1. ~ IsBoolean(t) /\ t.kind = "un" /\ t.a \in Trees
    BY IsBooleanAt DEF BooleanOps, IsUn
  <2>2. entries[t][factor] = entries[t.a][-c]
    BY <1>e, <2>1 DEF NodeEntries
  <2> QED BY <1>6, <2>1, <2>2
<1>13. IsBin(t) /\ t.op \in {"+", "-"} =>
          Linearize(t, factor, bits)
            = Linearize(t.a, c, bits) \o Linearize(t.b, IF t.op = "+" THEN c ELSE -c, bits)
  <2> SUFFICES ASSUME IsBin(t), t.op \in {"+", "-"}
               PROVE  Linearize(t, factor, bits)
                        = Linearize(t.a, c, bits)
                          \o Linearize(t.b, IF t.op = "+" THEN c ELSE -c, bits)
    OBVIOUS
  <2>1. ~ IsBoolean(t) /\ t.kind = "bin" /\ t.a \in Trees /\ t.b \in Trees
    BY IsBooleanAt DEF BooleanOps, IsBin
  <2>2. entries[t][factor] = entries[t.a][c] \o entries[t.b][IF t.op = "+" THEN c ELSE -c]
    BY <1>e, <2>1 DEF NodeEntries
  <2> QED BY <1>6, <2>1, <2>2
<1>14. IsBin(t) /\ t.op = "*" /\ t.a.kind = "const" =>
          Linearize(t, factor, bits) = Linearize(t.b, c * t.a.value, bits)
  <2> SUFFICES ASSUME IsBin(t), t.op = "*", t.a.kind = "const"
               PROVE  Linearize(t, factor, bits) = Linearize(t.b, c * t.a.value, bits)
    OBVIOUS
  <2>1. ~ IsBoolean(t) /\ t.kind = "bin" /\ t.b \in Trees
    BY IsBooleanAt DEF BooleanOps, IsBin
  <2>2. entries[t][factor] = entries[t.b][c * t.a.value]
    BY <1>e, <2>1 DEF NodeEntries
  <2> QED BY <1>6, <2>1, <2>2
<1>15. IsBin(t) /\ t.op = "*" /\ t.a.kind # "const" /\ t.b.kind = "const" =>
          Linearize(t, factor, bits) = Linearize(t.a, c * t.b.value, bits)
  <2> SUFFICES ASSUME IsBin(t), t.op = "*", t.a.kind # "const", t.b.kind = "const"
               PROVE  Linearize(t, factor, bits) = Linearize(t.a, c * t.b.value, bits)
    OBVIOUS
  <2>1. ~ IsBoolean(t) /\ t.kind = "bin" /\ t.a \in Trees
    BY IsBooleanAt DEF BooleanOps, IsBin
  <2>2. entries[t][factor] = entries[t.a][c * t.b.value]
    BY <1>e, <2>1 DEF NodeEntries
  <2> QED BY <1>6, <2>1, <2>2
<1> HIDE DEF c
<1>16. /\ c \in Int /\ Linearize(t, factor, bits) \in Seq(Entry)
       /\ IsBoolean(t) => Linearize(t, factor, bits) = <<[weight |-> c, tree |-> t]>>
       /\ IsUn(t) /\ t.op = "-" => Linearize(t, factor, bits) = Linearize(t.a, -c, bits)
       /\ IsBin(t) /\ t.op \in {"+", "-"} =>
              Linearize(t, factor, bits)
                = Linearize(t.a, c, bits) \o Linearize(t.b, IF t.op = "+" THEN c ELSE -c, bits)
       /\ IsBin(t) /\ t.op = "*" /\ t.a.kind = "const" =>
              Linearize(t, factor, bits) = Linearize(t.b, c * t.a.value, bits)
       /\ IsBin(t) /\ t.op = "*" /\ t.a.kind # "const" /\ t.b.kind = "const" =>
              Linearize(t, factor, bits) = Linearize(t.a, c * t.b.value, bits)
  BY <1>10, <1>11, <1>12, <1>13, <1>14, <1>15
<1> QED BY <1>16 DEF c

(* What the skeleton comes to at a node.                                   *)
NodeSkeleton(skeleton, t, env, bits) ==
    CASE IsBoolean(t) -> env[t]
      [] ~ IsBoolean(t) /\ t.kind = "un" -> (- skeleton[t.a]) % TwoTo(bits)
      [] OTHER ->
            IF t.op # "*" THEN Apply(t.op, skeleton[t.a], skeleton[t.b], bits)
            ELSE IF t.a.kind = "const" THEN (t.a.value * skeleton[t.b]) % TwoTo(bits)
            ELSE (skeleton[t.a] * t.b.value) % TwoTo(bits)

LEMMA SkeletonUnfold ==
    \A env, bits : \E skeleton :
        /\ \A t \in Trees : skeleton[t] = NodeSkeleton(skeleton, t, env, bits)
        /\ \A t \in Trees : Skeleton(t, env, bits) = skeleton[t]
<1> SUFFICES ASSUME NEW env, NEW bits
             PROVE  \E skeleton :
                        /\ \A t \in Trees : skeleton[t] = NodeSkeleton(skeleton, t, env, bits)
                        /\ \A t \in Trees : Skeleton(t, env, bits) = skeleton[t]
  OBVIOUS
<1> DEFINE Body(p, t) == NodeSkeleton(p, t, env, bits)
           Correct(p, d) == \A t \in Layer(d) : p[t] = Body(p, t)
           Solved == {d \in Nat : \E p : Correct(p, d)}
           skeleton == CHOOSE p : p = [t \in Trees |-> Body(p, t)]
<1>1. ASSUME NEW p, NEW q, NEW t \in Trees, \A kid \in Kids(t) : p[kid] = q[kid]
      PROVE  Body(p, t) = Body(q, t)
  <2>1. t.kind = "un" => t.a \in Kids(t)
    BY DEF Kids
  <2>2. t.kind = "bin" => t.a \in Kids(t) /\ t.b \in Kids(t)
    BY DEF Kids
  <2>3. IsBoolean(t) \/ t.kind \in {"un", "bin"}
    BY TreeShape, IsBooleanAt DEF IsUn, IsBin
  <2> QED BY <1>1, <2>1, <2>2, <2>3 DEF NodeSkeleton
<1>2. 0 \in Solved
  <2> DEFINE none == [t \in Trees |-> 0]
             p == [t \in Trees |-> Body(none, t)]
  <2>1. \A t \in Layer(0) : p[t] = Body(none, t)
    BY LayerKids
  <2>2. \A t \in Layer(0) : Body(none, t) = Body(p, t)
    <3> HIDE DEF p, none, Body
    <3> QED BY <1>1, LayerKids
  <2>3. Correct(p, 0)
    BY <2>1, <2>2
  <2> HIDE DEF p, Correct
  <2> QED BY <2>3
<1>3. ASSUME NEW d \in Nat, d \in Solved PROVE d + 1 \in Solved
  <2>1. PICK p : Correct(p, d)
    BY <1>3
  <2> DEFINE q == [t \in Trees |-> Body(p, t)]
  <2>2. ASSUME NEW t \in Layer(d + 1) PROVE q[t] = Body(q, t)
    <3>1. t \in Trees /\ Kids(t) \subseteq Layer(d)
      BY LayerKids
    <3>2. \A kid \in Kids(t) : kid \in Trees /\ p[kid] = Body(p, kid)
      BY <2>1, <3>1, LayersAreTrees
    <3>3. q[t] = Body(p, t) /\ \A kid \in Kids(t) : q[kid] = p[kid]
      BY <3>1, <3>2
    <3> HIDE DEF q, Body
    <3> QED BY <1>1, <3>1, <3>3
  <2>3. Correct(q, d + 1)
    BY <2>2
  <2> HIDE DEF q, Correct
  <2>4. d + 1 \in Nat /\ \E r : Correct(r, d + 1)
    BY <2>3
  <2> QED BY <2>4
<1>4. \E p : p = [t \in Trees |-> Body(p, t)]
  <2>1. TreeDepth \in Solved
    <3> HIDE DEF Solved
    <3> QED BY <1>2, <1>3, Induction, TreeDepthAssumption
  <2>2. PICK p : \A t \in Trees : p[t] = Body(p, t)
    BY <2>1, Layers
  <2> DEFINE q == [t \in Trees |-> p[t]]
  <2>3. ASSUME NEW t \in Trees PROVE q[t] = Body(q, t)
    <3>1. \A kid \in Kids(t) : q[kid] = p[kid]
      BY LayerKids
    <3>2. q[t] = Body(p, t)
      BY <2>2
    <3> HIDE DEF q, Body
    <3> QED BY <1>1, <3>1, <3>2
  <2>4. q = [t \in Trees |-> Body(q, t)]
    BY <2>3, Zenon
  <2> HIDE DEF q
  <2> QED BY <2>4
<1>5. skeleton = [t \in Trees |-> Body(skeleton, t)]
  <2> HIDE DEF Body
  <2> QED BY <1>4
<1>6. \A t \in Trees : Skeleton(t, env, bits) = skeleton[t]
  BY DEF Skeleton, NodeSkeleton
<1> HIDE DEF skeleton
<1>7. \A t \in Trees : skeleton[t] = NodeSkeleton(skeleton, t, env, bits)
  BY <1>5, Zenon
<1> QED BY <1>6, <1>7

(* What the skeleton comes to, when its children's values are known.       *)
LEMMA SkeletonAt ==
    \A env, bits : \A t \in Trees :
        /\ IsBoolean(t) => Skeleton(t, env, bits) = env[t]
        /\ ~ IsBoolean(t) /\ IsUn(t) =>
               Skeleton(t, env, bits) = (- Skeleton(t.a, env, bits)) % TwoTo(bits)
        /\ ~ IsBoolean(t) /\ IsBin(t) /\ t.op # "*" =>
               Skeleton(t, env, bits)
                 = Apply(t.op, Skeleton(t.a, env, bits), Skeleton(t.b, env, bits), bits)
        /\ ~ IsBoolean(t) /\ IsBin(t) /\ t.op = "*" /\ t.a.kind = "const" =>
               Skeleton(t, env, bits) = (t.a.value * Skeleton(t.b, env, bits)) % TwoTo(bits)
        /\ ~ IsBoolean(t) /\ IsBin(t) /\ t.op = "*" /\ t.a.kind # "const" =>
               Skeleton(t, env, bits) = (Skeleton(t.a, env, bits) * t.b.value) % TwoTo(bits)
<1> TAKE env, bits
<1> TAKE t \in Trees
<1>1. PICK skeleton : /\ \A s \in Trees : skeleton[s] = NodeSkeleton(skeleton, s, env, bits)
                      /\ \A s \in Trees : Skeleton(s, env, bits) = skeleton[s]
  BY SkeletonUnfold
<1>2. skeleton[t] = NodeSkeleton(skeleton, t, env, bits) /\ Skeleton(t, env, bits) = skeleton[t]
  BY <1>1
<1>3. CASE IsBoolean(t)
  BY <1>2, <1>3 DEF NodeSkeleton
<1>4. CASE ~ IsBoolean(t) /\ IsUn(t)
  <2>1. Skeleton(t.a, env, bits) = skeleton[t.a]
    BY <1>1, <1>4 DEF IsUn
  <2> QED BY <1>2, <1>4, <2>1 DEF NodeSkeleton, IsUn, IsBin
<1>5. CASE ~ IsBoolean(t) /\ IsBin(t)
  <2>1. Skeleton(t.a, env, bits) = skeleton[t.a] /\ Skeleton(t.b, env, bits) = skeleton[t.b]
    BY <1>1, <1>5 DEF IsBin
  <2> QED BY <1>2, <1>5, <2>1 DEF NodeSkeleton, IsUn, IsBin
<1> QED BY <1>3, <1>4, <1>5, TreeShape, IsBooleanAt

-----------------------------------------------------------------------------
(* The kernels of a linear tree: its own parts, whatever it is scaled by.  *)
Kernels(t, factor, bits) ==
    {Linearize(t, factor, bits)[i].tree : i \in DOMAIN Linearize(t, factor, bits)}

LEMMA EntriesOf ==
    /\ \A c, t : {<<[weight |-> c, tree |-> t]>>[i].tree
                     : i \in DOMAIN <<[weight |-> c, tree |-> t]>>} = {t}
    /\ \A l, r \in Seq(Entry) :
           {(l \o r)[i].tree : i \in DOMAIN (l \o r)}
             = {l[i].tree : i \in DOMAIN l} \cup {r[i].tree : i \in DOMAIN r}
<1>1. ASSUME NEW c, NEW t
      PROVE  {<<[weight |-> c, tree |-> t]>>[i].tree
                 : i \in DOMAIN <<[weight |-> c, tree |-> t]>>} = {t}
  <2> DEFINE one == <<[weight |-> c, tree |-> t]>>
  <2>1. DOMAIN one = {1} /\ one[1].tree = t
    OBVIOUS
  <2> HIDE DEF one
  <2>2. {one[i].tree : i \in DOMAIN one} = {t}
    BY <2>1
  <2> QED BY <2>2 DEF one
<1>2. ASSUME NEW l \in Seq(Entry), NEW r \in Seq(Entry)
      PROVE  {(l \o r)[i].tree : i \in DOMAIN (l \o r)}
               = {l[i].tree : i \in DOMAIN l} \cup {r[i].tree : i \in DOMAIN r}
  <2> DEFINE both == l \o r
             m == Len(l)
             n == Len(r)
  <2>1. /\ DOMAIN both = 1 .. m + n /\ DOMAIN l = 1 .. m /\ DOMAIN r = 1 .. n
        /\ m \in Nat /\ n \in Nat
        /\ \A i \in 1 .. m : both[i] = l[i]
        /\ \A i \in 1 .. n : both[m + i] = r[i]
    OBVIOUS
  <2>2. \A i \in 1 .. m + n : i \in 1 .. m \/ \E j \in 1 .. n : i = m + j
    <3> HIDE DEF m, n
    <3> TAKE i \in 1 .. m + n
    <3>1. i \in 1 .. m \/ (i - m \in 1 .. n /\ i = m + (i - m))
      BY <2>1
    <3> QED BY <3>1
  <2>3. \A i \in 1 .. m : i \in 1 .. m + n
    <3> HIDE DEF m, n
    <3> QED BY <2>1
  <2>4. \A j \in 1 .. n : m + j \in 1 .. m + n
    <3> HIDE DEF m, n
    <3> QED BY <2>1
  <2> HIDE DEF both, m, n
  <2>5. {both[i].tree : i \in DOMAIN both}
          = {l[i].tree : i \in DOMAIN l} \cup {r[i].tree : i \in DOMAIN r}
    <3>1. ASSUME NEW i \in 1 .. m + n
          PROVE  both[i].tree \in {l[j].tree : j \in 1 .. m} \cup {r[j].tree : j \in 1 .. n}
      BY <2>1, <2>2, ZenonT(40)
    <3>2. ASSUME NEW j \in 1 .. m PROVE l[j].tree \in {both[i].tree : i \in 1 .. m + n}
      BY <2>1, <2>3
    <3>3. ASSUME NEW j \in 1 .. n PROVE r[j].tree \in {both[i].tree : i \in 1 .. m + n}
      BY <2>1, <2>4
    <3>4. {both[i].tree : i \in 1 .. m + n}
            = {l[i].tree : i \in 1 .. m} \cup {r[i].tree : i \in 1 .. n}
      <4> DEFINE ranged == 1 .. m + n
                 left == 1 .. m
                 right == 1 .. n
      <4> HIDE DEF ranged, left, right
      <4>1. {both[i].tree : i \in ranged}
              = {l[i].tree : i \in left} \cup {r[i].tree : i \in right}
        BY <3>1, <3>2, <3>3 DEF ranged, left, right
      <4> QED BY <4>1 DEF ranged, left, right
    <3>5. DOMAIN both = 1 .. m + n /\ DOMAIN l = 1 .. m /\ DOMAIN r = 1 .. n
      BY <2>1
    <3> QED BY <3>4, <3>5, Zenon
  <2> QED BY <2>5 DEF both
<1> QED BY <1>1, <1>2

LEMMA KernelsAt ==
    ASSUME NEW bits \in Nat, NEW t \in Trees, NEW factor \in Int
    PROVE  LET c == factor % TwoTo(bits) IN
           /\ c \in Int /\ -c \in Int
           /\ IsBoolean(t) => Kernels(t, factor, bits) = {t}
           /\ IsUn(t) /\ t.op = "-" => Kernels(t, factor, bits) = Kernels(t.a, -c, bits)
           /\ IsBin(t) /\ t.op \in {"+", "-"} =>
                  Kernels(t, factor, bits)
                    = Kernels(t.a, c, bits) \cup Kernels(t.b, IF t.op = "+" THEN c ELSE -c, bits)
           /\ IsBin(t) /\ t.op = "*" /\ t.a.kind = "const" =>
                  /\ t.a.value \in Nat /\ c * t.a.value \in Int
                  /\ Kernels(t, factor, bits) = Kernels(t.b, c * t.a.value, bits)
           /\ IsBin(t) /\ t.op = "*" /\ t.a.kind # "const" /\ t.b.kind = "const" =>
                  /\ t.b.value \in Nat /\ c * t.b.value \in Int
                  /\ Kernels(t, factor, bits) = Kernels(t.a, c * t.b.value, bits)
<1> DEFINE c == factor % TwoTo(bits)
<1>1. c \in Int /\ -c \in Int
  BY PowerOfTwo
<1>2. IsBoolean(t) => Linearize(t, factor, bits) = <<[weight |-> c, tree |-> t]>>
  BY LinearizeAt
<1>3. IsUn(t) /\ t.op = "-" => Linearize(t, factor, bits) = Linearize(t.a, -c, bits)
  BY LinearizeAt
<1>4. IsBin(t) /\ t.op \in {"+", "-"} =>
          Linearize(t, factor, bits)
            = Linearize(t.a, c, bits) \o Linearize(t.b, IF t.op = "+" THEN c ELSE -c, bits)
  BY LinearizeAt
<1>5. IsBin(t) /\ t.op = "*" /\ t.a.kind = "const" =>
          Linearize(t, factor, bits) = Linearize(t.b, c * t.a.value, bits)
  BY LinearizeAt
<1>6. IsBin(t) /\ t.op = "*" /\ t.a.kind # "const" /\ t.b.kind = "const" =>
          Linearize(t, factor, bits) = Linearize(t.a, c * t.b.value, bits)
  BY LinearizeAt
<1>7. IsBin(t) => /\ t.a \in Trees /\ t.b \in Trees
                  /\ t.a.kind = "const" => t.a.value \in Nat
                  /\ t.b.kind = "const" => t.b.value \in Nat
  BY TreeShape DEF IsConst, IsVar, IsUn, IsBin
<1> HIDE DEF c
<1>8. IsBin(t) /\ t.op \in {"+", "-"} =>
          /\ Linearize(t.a, c, bits) \in Seq(Entry)
          /\ Linearize(t.b, IF t.op = "+" THEN c ELSE -c, bits) \in Seq(Entry)
  BY <1>1, <1>7, LinearizeAt
<1>9. IsBoolean(t) => Kernels(t, factor, bits) = {t}
  BY <1>2, EntriesOf DEF Kernels
<1>10. IsUn(t) /\ t.op = "-" => Kernels(t, factor, bits) = Kernels(t.a, -c, bits)
  BY <1>3 DEF Kernels
<1>11. IsBin(t) /\ t.op \in {"+", "-"} =>
          Kernels(t, factor, bits)
            = Kernels(t.a, c, bits) \cup Kernels(t.b, IF t.op = "+" THEN c ELSE -c, bits)
  <2> SUFFICES ASSUME IsBin(t), t.op \in {"+", "-"}
               PROVE  Kernels(t, factor, bits)
                        = Kernels(t.a, c, bits)
                          \cup Kernels(t.b, IF t.op = "+" THEN c ELSE -c, bits)
    OBVIOUS
  <2> DEFINE l == Linearize(t.a, c, bits)
             r == Linearize(t.b, IF t.op = "+" THEN c ELSE -c, bits)
  <2>1. l \in Seq(Entry) /\ r \in Seq(Entry) /\ Linearize(t, factor, bits) = l \o r
    BY <1>4, <1>8
  <2> HIDE DEF l, r
  <2>2. Kernels(t, factor, bits) = {l[i].tree : i \in DOMAIN l} \cup {r[i].tree : i \in DOMAIN r}
    <3> DEFINE all == Linearize(t, factor, bits)
    <3>1. Kernels(t, factor, bits) = {all[i].tree : i \in DOMAIN all}
      BY DEF Kernels
    <3>2. all = l \o r
      BY <2>1
    <3> HIDE DEF all
    <3>3. {(l \o r)[i].tree : i \in DOMAIN (l \o r)}
            = {l[i].tree : i \in DOMAIN l} \cup {r[i].tree : i \in DOMAIN r}
      BY <2>1, EntriesOf, Zenon
    <3> QED BY <3>1, <3>2, <3>3
  <2> QED BY <2>2 DEF Kernels, l, r
<1>12. IsBin(t) /\ t.op = "*" /\ t.a.kind = "const" =>
           /\ t.a.value \in Nat /\ c * t.a.value \in Int
           /\ Kernels(t, factor, bits) = Kernels(t.b, c * t.a.value, bits)
  BY <1>1, <1>5, <1>7 DEF Kernels
<1>13. IsBin(t) /\ t.op = "*" /\ t.a.kind # "const" /\ t.b.kind = "const" =>
           /\ t.b.value \in Nat /\ c * t.b.value \in Int
           /\ Kernels(t, factor, bits) = Kernels(t.a, c * t.b.value, bits)
  BY <1>1, <1>6, <1>7 DEF Kernels
<1> QED BY <1>1, <1>9, <1>10, <1>11, <1>12, <1>13 DEF c

(* Every kernel is Boolean, and made of the leaves and constants of its    *)
(* tree.                                                                   *)
LEMMA LinearKernels ==
    ASSUME NEW bits \in Nat, NEW tree \in Trees, IsLinear(tree), NEW factor \in Int
    PROVE  \A kernel \in Kernels(tree, factor, bits) :
               /\ kernel \in Trees /\ NamesOf(kernel) \subseteq NamesOf(tree)
               /\ IsBoolean(kernel) /\ Constants(kernel) \subseteq Constants(tree)
<1> DEFINE Inside(s) ==
               \A f \in Int : \A kernel \in Kernels(s, f, bits) :
                   /\ kernel \in Trees /\ NamesOf(kernel) \subseteq NamesOf(s)
                   /\ IsBoolean(kernel) /\ Constants(kernel) \subseteq Constants(s)
           Good == {s \in Trees : IsLinear(s) => Inside(s)}
<1>1. ASSUME NEW s \in Trees, Kids(s) \subseteq Good, IsLinear(s) PROVE Inside(s)
  <2> SUFFICES ASSUME NEW f \in Int, NEW kernel \in Kernels(s, f, bits)
               PROVE  /\ kernel \in Trees /\ NamesOf(kernel) \subseteq NamesOf(s)
                      /\ IsBoolean(kernel) /\ Constants(kernel) \subseteq Constants(s)
    OBVIOUS
  <2>1. CASE IsBoolean(s)
    BY <2>1, KernelsAt
  <2>2. CASE IsUn(s) /\ ~ IsBoolean(s)
    <3>1. s.op = "-" /\ s.a \in Good /\ IsLinear(s.a) /\ NamesOf(s.a) = NamesOf(s)
      BY <1>1, <2>2, IsLinearAt, NamesAt DEF IsUn
    <3>2. Constants(s.a) = Constants(s)
      BY <2>2, ConstantsAt
    <3>3. \E d \in Int : kernel \in Kernels(s.a, d, bits)
      BY <2>2, <3>1, KernelsAt
    <3> QED BY <3>1, <3>2, <3>3
  <2>3. CASE IsBin(s) /\ s.op \in {"+", "-"} /\ ~ IsBoolean(s)
    <3>1. /\ s.a \in Good /\ IsLinear(s.a) /\ s.b \in Good /\ IsLinear(s.b)
          /\ NamesOf(s) = NamesOf(s.a) \cup NamesOf(s.b)
      BY <1>1, <2>3, IsLinearAt, NamesAt DEF IsBin
    <3>2. Constants(s) = Constants(s.a) \cup Constants(s.b)
      BY <2>3, ConstantsAt
    <3>3. \E d \in Int : kernel \in Kernels(s.a, d, bits) \/ kernel \in Kernels(s.b, d, bits)
      BY <2>3, <3>1, KernelsAt
    <3> QED BY <3>1, <3>2, <3>3
  <2>4. CASE IsBin(s) /\ s.op = "*" /\ s.a.kind = "const" /\ ~ IsBoolean(s)
    <3>1. s.b \in Good /\ IsLinear(s.b) /\ NamesOf(s) = NamesOf(s.a) \cup NamesOf(s.b)
      BY <1>1, <2>4, IsLinearAt, NamesAt DEF IsBin
    <3>2. Constants(s) = Constants(s.a) \cup Constants(s.b)
      BY <2>4, ConstantsAt
    <3>3. \E d \in Int : kernel \in Kernels(s.b, d, bits)
      BY <2>4, KernelsAt
    <3> QED BY <3>1, <3>2, <3>3
  <2>5. CASE IsBin(s) /\ s.op = "*" /\ s.a.kind # "const" /\ ~ IsBoolean(s)
    <3>1. /\ s.a \in Good /\ IsLinear(s.a) /\ s.b.kind = "const"
          /\ NamesOf(s) = NamesOf(s.a) \cup NamesOf(s.b)
      BY <1>1, <2>5, IsLinearAt, NamesAt DEF IsBin
    <3>2. Constants(s) = Constants(s.a) \cup Constants(s.b)
      BY <2>5, ConstantsAt
    <3>3. \E d \in Int : kernel \in Kernels(s.a, d, bits)
      BY <2>5, <3>1, KernelsAt
    <3> QED BY <3>1, <3>2, <3>3
  <2>6. IsBin(s) /\ ~ IsBoolean(s) => s.op \in {"+", "-"} \/ s.op = "*"
    BY <1>1, IsLinearAt
  <2> QED BY <2>1, <2>2, <2>3, <2>4, <2>5, <2>6, TreeShape, IsBooleanAt
<1>2. Trees \subseteq Good
  <2>1. \A s \in Trees : Kids(s) \subseteq Good => s \in Good
    BY <1>1
  <2> HIDE DEF Good
  <2> QED BY <2>1, TreeInduction
<1> QED BY <1>2

(* The skeleton with its kernels' values is worth what the tree is.        *)
LEMMA SkeletonIsValue ==
    ASSUME NEW bits \in Nat, NEW values, NEW env, NEW tree \in Trees, IsLinear(tree),
           \A n \in NamesOf(tree) : values[n] \in Int,
           NEW factor \in Int,
           \A kernel \in Kernels(tree, factor, bits) : env[kernel] = Evaluate(kernel, values, bits)
    PROVE  Skeleton(tree, env, bits) = Evaluate(tree, values, bits)
<1> DEFINE M == TwoTo(bits)
           Known(s, f) == \A kernel \in Kernels(s, f, bits) :
                              env[kernel] = Evaluate(kernel, values, bits)
           Agrees(s) == Skeleton(s, env, bits) = Evaluate(s, values, bits)
           Typed(s) == \A n \in NamesOf(s) : values[n] \in Int
           Good == {s \in Trees : IsLinear(s) /\ Typed(s) => \A f \in Int : Known(s, f) => Agrees(s)}
<1>1. ASSUME NEW s \in Trees, Kids(s) \subseteq Good, IsLinear(s), Typed(s),
             NEW f \in Int, Known(s, f)
      PROVE  Agrees(s)
  <2>1. CASE IsBoolean(s)
    <3>1. Kernels(s, f, bits) = {s}
      BY <2>1, KernelsAt
    <3> QED BY <1>1, <2>1, <3>1, SkeletonAt
  <2>2. CASE IsUn(s) /\ ~ IsBoolean(s)
    <3>1. s.op = "-" /\ s.a \in Good /\ IsLinear(s.a) /\ Typed(s.a)
      BY <1>1, <2>2, IsLinearAt, NamesAt DEF IsUn
    <3>2. \E d \in Int : Known(s.a, d)
      BY <1>1, <2>2, <3>1, KernelsAt
    <3>3. Agrees(s.a)
      BY <3>1, <3>2
    <3>4. Evaluate(s, values, bits) = (- Evaluate(s.a, values, bits)) % M
      BY <2>2, <3>1, EvaluateAt
    <3>5. Skeleton(s, env, bits) = (- Skeleton(s.a, env, bits)) % M
      BY <2>2, SkeletonAt
    <3> QED BY <3>3, <3>4, <3>5
  <2>3. CASE IsBin(s) /\ s.op \in {"+", "-"} /\ ~ IsBoolean(s)
    <3>1. /\ s.a \in Good /\ IsLinear(s.a) /\ Typed(s.a)
          /\ s.b \in Good /\ IsLinear(s.b) /\ Typed(s.b)
      BY <1>1, <2>3, IsLinearAt, NamesAt DEF IsBin
    <3>2. \E d, e \in Int : Known(s.a, d) /\ Known(s.b, e)
      <4> DEFINE c == f % M
                 e == IF s.op = "+" THEN c ELSE -c
      <4>1. c \in Int /\ e \in Int /\ Kernels(s, f, bits) = Kernels(s.a, c, bits) \cup Kernels(s.b, e, bits)
        BY <2>3, KernelsAt
      <4> HIDE DEF c, e
      <4> QED BY <1>1, <4>1
    <3>3. Agrees(s.a) /\ Agrees(s.b)
      BY <3>1, <3>2
    <3>4. Evaluate(s, values, bits)
            = Apply(s.op, Evaluate(s.a, values, bits), Evaluate(s.b, values, bits), bits)
      BY <2>3, EvaluateAt
    <3>5. Skeleton(s, env, bits)
            = Apply(s.op, Skeleton(s.a, env, bits), Skeleton(s.b, env, bits), bits)
      BY <2>3, SkeletonAt
    <3> QED BY <3>3, <3>4, <3>5
  <2>4. CASE IsBin(s) /\ s.op = "*" /\ s.a.kind = "const" /\ ~ IsBoolean(s)
    <3>1. s.b \in Good /\ IsLinear(s.b) /\ Typed(s.b)
      BY <1>1, <2>4, IsLinearAt, NamesAt DEF IsBin
    <3>2. (\E d \in Int : Known(s.b, d)) /\ s.a.value \in Int
      BY <1>1, <2>4, KernelsAt
    <3>3. Agrees(s.b)
      BY <3>1, <3>2
    <3>4. Evaluate(s.a, values, bits) = s.a.value % M
      BY <2>4, EvaluateAt, TreeShape DEF IsBin, IsConst, IsVar, IsUn
    <3>5. Evaluate(s, values, bits) = ((s.a.value % M) * Evaluate(s.b, values, bits)) % M
      BY <2>4, <3>4, EvaluateAt DEF Apply
    <3>6. Evaluate(s.b, values, bits) \in Int /\ M \in Nat \ {0}
      BY <3>1, EvaluateIsWord, WordsAreNaturals, PowerOfTwo
    <3>7. ((s.a.value % M) * Evaluate(s.b, values, bits)) % M
            = (s.a.value * Evaluate(s.b, values, bits)) % M
      BY <3>2, <3>6, Congruence, Zenon
    <3>8. Skeleton(s, env, bits) = (s.a.value * Skeleton(s.b, env, bits)) % M
      BY <2>4, SkeletonAt
    <3> HIDE DEF M
    <3> QED BY <3>3, <3>5, <3>7, <3>8
  <2>5. CASE IsBin(s) /\ s.op = "*" /\ s.a.kind # "const" /\ ~ IsBoolean(s)
    <3>1. s.a \in Good /\ IsLinear(s.a) /\ Typed(s.a) /\ s.b.kind = "const"
      BY <1>1, <2>5, IsLinearAt, NamesAt DEF IsBin
    <3>2. (\E d \in Int : Known(s.a, d)) /\ s.b.value \in Int
      BY <1>1, <2>5, <3>1, KernelsAt
    <3>3. Agrees(s.a)
      BY <3>1, <3>2
    <3>4. Evaluate(s.b, values, bits) = s.b.value % M
      BY <2>5, <3>1, EvaluateAt, TreeShape DEF IsBin, IsConst, IsVar, IsUn
    <3>5. Evaluate(s, values, bits) = (Evaluate(s.a, values, bits) * (s.b.value % M)) % M
      BY <2>5, <3>4, EvaluateAt DEF Apply
    <3>6. Evaluate(s.a, values, bits) \in Int /\ M \in Nat \ {0}
      BY <3>1, EvaluateIsWord, WordsAreNaturals, PowerOfTwo
    <3>7. (Evaluate(s.a, values, bits) * (s.b.value % M)) % M
            = (Evaluate(s.a, values, bits) * s.b.value) % M
      BY <3>2, <3>6, Congruence, Zenon
    <3>8. Skeleton(s, env, bits) = (Skeleton(s.a, env, bits) * s.b.value) % M
      BY <2>5, SkeletonAt
    <3> HIDE DEF M
    <3> QED BY <3>3, <3>5, <3>7, <3>8
  <2>6. IsBin(s) /\ ~ IsBoolean(s) => s.op \in {"+", "-"} \/ s.op = "*"
    BY <1>1, IsLinearAt
  <2> HIDE DEF Agrees
  <2> QED BY <2>1, <2>2, <2>3, <2>4, <2>5, <2>6, TreeShape, IsBooleanAt
<1>2. Trees \subseteq Good
  <2>1. \A s \in Trees : Kids(s) \subseteq Good => s \in Good
    <3> HIDE DEF Known, Agrees, Typed
    <3> QED BY <1>1
  <2> HIDE DEF Good
  <2> QED BY <2>1, TreeInduction
<1> QED BY <1>2

-----------------------------------------------------------------------------
(* The numbers of the chain are integers.                                  *)
LEMMA GroupsFinite ==
    ASSUME NEW bits \in Nat, NEW groups \in SUBSET (0 .. bits - 1)
    PROVE  IsFiniteSet(groups)
<1>1. 0 \in Int /\ bits - 1 \in Int
  OBVIOUS
<1>2. IsFiniteSet(0 .. bits - 1)
  BY <1>1, FS_Interval
<1> QED BY <1>2, FS_Subset

LEMMA GroupMaskIsInteger ==
    ASSUME NEW bits \in Nat, NEW groups \in SUBSET (0 .. bits - 1), NEW g \in groups
    PROVE  GroupMask(g, groups, bits) \in Int
<1> DEFINE above == {h \in groups : h > g}
           next == IF above = {} THEN bits ELSE Min(above)
<1>1. next \in Nat
  <2>1. CASE above = {}
    BY <2>1
  <2>2. CASE above # {}
    <3>1. above \in SUBSET Nat
      <4>1. \A h \in 0 .. bits - 1 : h \in Nat
        OBVIOUS
      <4> QED BY <4>1
    <3> HIDE DEF above
    <3>2. \E n \in above : \A m \in above : n <= m
      BY <2>2, <3>1, LeastNatural
    <3>3. Min(above) \in above
      BY <3>2 DEF Min
    <3> QED BY <2>2, <3>1, <3>3
  <2> QED BY <2>1, <2>2
<1> HIDE DEF next
<1>2. TwoTo(next) \in Int /\ TwoTo(g) \in Int
  BY <1>1, PowerOfTwo
<1> QED BY <1>2 DEF GroupMask, next, above

LEMMA KernelNumbers ==
    ASSUME NEW bits \in Nat, NEW groups \in SUBSET (0 .. bits - 1), NEW kernel \in Trees
    PROVE  /\ KernelConstant(kernel, groups, bits) \in Int
           /\ \A g \in groups : KernelCoefficient(kernel, g, bits) \in Int
<1>0. IsFiniteSet(groups)
  BY GroupsFinite
<1>1. ASSUME NEW g \in groups
      PROVE  BitValue(kernel, g, 0) \in Int /\ BitValue(kernel, g, 1) \in Int
  BY BitValueAt
<1> DEFINE terms == [g \in groups |-> BitValue(kernel, g, 0) * GroupMask(g, groups, bits)]
<1>2. terms \in [groups -> Int]
  <2>1. ASSUME NEW g \in groups PROVE BitValue(kernel, g, 0) * GroupMask(g, groups, bits) \in Int
    <3>1. BitValue(kernel, g, 0) \in Int /\ GroupMask(g, groups, bits) \in Int
      BY <1>1, GroupMaskIsInteger
    <3> QED BY <3>1
  <2> QED BY <2>1
<1> HIDE DEF terms
<1>3. Total(terms, bits) \in Int
  <2>1. Total(terms, bits) \in Words(bits) /\ Words(bits) \subseteq Nat
    BY <1>0, <1>2, TotalIsWord, Zenon
  <2> QED BY <2>1
<1>4. KernelConstant(kernel, groups, bits) \in Int
  BY <1>3 DEF KernelConstant, terms
<1>5. ASSUME NEW g \in groups PROVE KernelCoefficient(kernel, g, bits) \in Int
  <2>1. BitValue(kernel, g, 1) - BitValue(kernel, g, 0) \in Int
    BY <1>1
  <2> QED BY <2>1, PowerOfTwo DEF KernelCoefficient
<1> QED BY <1>4, <1>5

LEMMA SideNumbers ==
    ASSUME NEW bits \in Nat, NEW groups \in SUBSET (0 .. bits - 1), NEW entries \in Seq(Entry)
    PROVE  LET side == Side(entries, groups, bits) IN
           /\ side.entries = entries
           /\ side.constant \in Int
           /\ DOMAIN side.raw = groups /\ DOMAIN side.coefficients = groups
           /\ \A g \in groups : side.raw[g] \in Int /\ side.coefficients[g] \in Int
<1> DEFINE rows == [g \in groups |->
                       [i \in DOMAIN entries |->
                          entries[i].weight * KernelCoefficient(entries[i].tree, g, bits)]]
           constants == [i \in DOMAIN entries |->
                            entries[i].weight * KernelConstant(entries[i].tree, groups, bits)]
           raw == [g \in groups |-> Total(rows[g], bits)]
<1>0. IsFiniteSet(DOMAIN entries)
  <2>1. DOMAIN entries = 1 .. Len(entries) /\ Len(entries) \in Nat
    OBVIOUS
  <2> QED BY <2>1, FS_Interval
<1>1. \A i \in DOMAIN entries : entries[i].weight \in Int /\ entries[i].tree \in Trees
  <2>1. \A i \in DOMAIN entries : entries[i] \in Entry
    <3> HIDE DEF Entry
    <3> QED OBVIOUS
  <2> QED BY <2>1 DEF Entry
<1>2. ASSUME NEW g \in groups PROVE rows[g] \in [DOMAIN entries -> Int]
  <2>1. ASSUME NEW i \in DOMAIN entries
        PROVE  entries[i].weight * KernelCoefficient(entries[i].tree, g, bits) \in Int
    <3>1. entries[i].weight \in Int /\ KernelCoefficient(entries[i].tree, g, bits) \in Int
      BY <1>1, KernelNumbers
    <3> QED BY <3>1
  <2> QED BY <2>1
<1>3. constants \in [DOMAIN entries -> Int]
  <2>1. ASSUME NEW i \in DOMAIN entries
        PROVE  entries[i].weight * KernelConstant(entries[i].tree, groups, bits) \in Int
    <3>1. entries[i].weight \in Int /\ KernelConstant(entries[i].tree, groups, bits) \in Int
      BY <1>1, KernelNumbers
    <3> QED BY <3>1
  <2> QED BY <2>1
<1>4. ASSUME NEW f \in [DOMAIN entries -> Int] PROVE Total(f, bits) \in Int
  BY <1>0, TotalIsWord, WordsAreNaturals
<1>5. \A g \in groups : raw[g] \in Int
  <2> HIDE DEF rows
  <2> QED BY <1>2, <1>4
<1>6. Total(constants, bits) \in Int
  <2> HIDE DEF constants
  <2> QED BY <1>3, <1>4
<1>7. \A g \in groups : Reduced(raw[g], g, bits) \in Int
  <2> HIDE DEF raw
  <2> TAKE g \in groups
  <2>1. bits - g \in Nat
    OBVIOUS
  <2>2. TwoTo(bits - g) \in Nat \ {0}
    BY <2>1, PowerOfTwo
  <2> QED BY <1>5, <2>2 DEF Reduced
<1>8. Side(entries, groups, bits)
        = [entries |-> entries, constant |-> Total(constants, bits), raw |-> raw,
           coefficients |-> [g \in groups |-> Reduced(raw[g], g, bits)]]
  BY DEF Side
<1>9. DOMAIN raw = groups
  OBVIOUS
<1> HIDE DEF raw, constants
<1> QED BY <1>5, <1>6, <1>7, <1>8, <1>9

-----------------------------------------------------------------------------
(* A sum of coefficients times symbols, when the products are congruent.   *)
LEMMA LinearCongruent ==
    ASSUME NEW bits \in Nat, NEW S, IsFiniteSet(S), NEW constant \in Int,
           NEW p, NEW q, NEW symbols, DOMAIN symbols = S,
           \A g \in S : /\ p[g] \in Int /\ q[g] \in Int /\ symbols[g] \in Int
                        /\ (p[g] * symbols[g]) % TwoTo(bits) = (q[g] * symbols[g]) % TwoTo(bits)
    PROVE  Linear(constant, p, symbols, bits) = Linear(constant, q, symbols, bits)
<1> DEFINE M == TwoTo(bits)
           f == [g \in S |-> p[g] * symbols[g]]
           h == [g \in S |-> q[g] * symbols[g]]
<1>0. M \in Nat \ {0}
  BY PowerOfTwo
<1>1. \A a, b \in Int : a * b \in Int
  OBVIOUS
<1>2. f \in [S -> Int] /\ h \in [S -> Int]
  BY <1>1
<1>3. \A g \in S : f[g] % M = h[g] % M
  OBVIOUS
<1>4. Linear(constant, p, symbols, bits) = (constant + SumFunction(f)) % M
      /\ Linear(constant, q, symbols, bits) = (constant + SumFunction(h)) % M
  BY DEF Linear
<1> HIDE DEF M, f, h
<1>5. SumFunction(f) \in Int /\ SumFunction(h) \in Int /\ SumFunction(f) % M = SumFunction(h) % M
  BY <1>0, <1>2, <1>3, SumInteger, SumCongruent
<1>6. constant % M = constant % M
  OBVIOUS
<1>7. (constant + SumFunction(f)) % M = (constant + SumFunction(h)) % M
  <2>1. \A m \in Nat \ {0}, a, b, c, d \in Int :
            a % m = c % m /\ b % m = d % m => (a + b) % m = (c + d) % m
    BY SumsCongruent, Zenon
  <2> QED BY <1>0, <1>5, <2>1
<1> QED BY <1>4, <1>7

SideOf(tree, groups, bits) == Side(Linearize(tree, 1, bits), groups, bits)

(* Each stage of the chain, put together: where the obligations of a side  *)
(* hold, its reduced coefficients give its value at every word.            *)
LEMMA StagesCompose ==
    ASSUME NEW bits \in Nat \ {0}, NEW name, NEW groups \in SUBSET (0 .. bits - 1),
           NEW tree \in Trees, IsLinear(tree), NamesOf(tree) \subseteq {name},
           SkeletonHolds(tree, SideOf(tree, groups, bits), bits),
           KernelsHold(SideOf(tree, groups, bits), name, groups, bits),
           CollectionHolds(SideOf(tree, groups, bits), groups, bits),
           ReductionHolds(SideOf(tree, groups, bits), groups, bits),
           NEW x \in Words(bits)
    PROVE  Evaluate(tree, [n \in {name} |-> x], bits)
             = Linear(SideOf(tree, groups, bits).constant,
                      SideOf(tree, groups, bits).coefficients, Atoms(x, groups, bits), bits)
<1> DEFINE side == SideOf(tree, groups, bits)
<1>a. /\ SkeletonHolds(tree, side, bits) /\ KernelsHold(side, name, groups, bits)
      /\ CollectionHolds(side, groups, bits) /\ ReductionHolds(side, groups, bits)
      /\ side = Side(Linearize(tree, 1, bits), groups, bits)
  BY DEF SideOf
<1> HIDE DEF side
<1> DEFINE entries == Linearize(tree, 1, bits)
           values == [n \in {name} |-> x]
           kernels == {entries[i].tree : i \in DOMAIN entries}
           env == [kernel \in kernels |-> Evaluate(kernel, values, bits)]
           atoms == Atoms(x, groups, bits)
           linear(i) == Linear(KernelConstant(entries[i].tree, groups, bits),
                               [g \in groups |-> KernelCoefficient(entries[i].tree, g, bits)],
                               atoms, bits)
<1>0. bits \in Nat /\ 1 \in Int /\ x \in Int /\ IsFiniteSet(groups)
  <2>1. bits \in Nat /\ 1 \in Int /\ x \in Int
    BY WordsAreNaturals
  <2>2. IsFiniteSet(groups)
    BY <2>1, GroupsFinite
  <2> QED BY <2>1, <2>2
<1>1. entries \in Seq(Entry)
  BY <1>0, LinearizeAt
<1>2. /\ side.entries = entries /\ side.constant \in Int
      /\ \A g \in groups : side.raw[g] \in Int /\ side.coefficients[g] \in Int
  BY <1>a, <1>0, <1>1, SideNumbers
<1>3. kernels = Kernels(tree, 1, bits)
  BY DEF Kernels
<1>4. \A n \in NamesOf(tree) : values[n] \in Int
  BY <1>0
<1>5. \A kernel \in kernels : kernel \in Trees /\ NamesOf(kernel) \subseteq NamesOf(tree)
  BY <1>0, <1>3, LinearKernels
<1>6. env \in [kernels -> Words(bits)]
  <2> HIDE DEF values, kernels
  <2> QED BY <1>0, <1>4, <1>5, EvaluateIsWord
<1>7. Skeleton(tree, env, bits) = Evaluate(tree, values, bits)
  <2>1. \A kernel \in Kernels(tree, 1, bits) : env[kernel] = Evaluate(kernel, values, bits)
    BY <1>3
  <2> HIDE DEF env, values
  <2> QED BY <1>0, <1>4, <2>1, SkeletonIsValue
<1>8. Skeleton(tree, env, bits)
        = Total([i \in DOMAIN entries |-> entries[i].weight * env[entries[i].tree]], bits)
  <2> HIDE DEF env
  <2> QED BY <1>a, <1>2, <1>6 DEF SkeletonHolds
<1>9. \A i \in DOMAIN entries : env[entries[i].tree] = linear(i)
  BY <1>a, <1>2 DEF KernelsHold
<1>10. [i \in DOMAIN entries |-> entries[i].weight * env[entries[i].tree]]
         = [i \in DOMAIN entries |-> entries[i].weight * linear(i)]
  <2> HIDE DEF env, linear
  <2> QED BY <1>9
<1>11. atoms \in [groups -> Words(bits)] /\ DOMAIN atoms = groups
  <2>1. ASSUME NEW g \in groups PROVE And(x, GroupMask(g, groups, bits), bits) \in Words(bits)
    <3>1. GroupMask(g, groups, bits) \in Int
      BY <1>0, GroupMaskIsInteger
    <3>2. Apply("&", x, GroupMask(g, groups, bits), bits) \in Words(bits)
      BY <1>0, <3>1, ApplyIsWord
    <3> QED BY <3>2 DEF Apply
  <2> QED BY <2>1 DEF Atoms
<1>12. Total([i \in DOMAIN entries |-> entries[i].weight * linear(i)], bits)
         = Linear(side.constant, side.raw, atoms, bits)
  <2> HIDE DEF atoms, entries
  <2> QED BY <1>a, <1>2, <1>11 DEF CollectionHolds
<1>13. \A g \in groups : (side.raw[g] * atoms[g]) % TwoTo(bits)
                           = (side.coefficients[g] * atoms[g]) % TwoTo(bits)
  BY <1>a DEF ReductionHolds
<1>14. \A g \in groups : atoms[g] \in Int
  <2> HIDE DEF atoms
  <2> QED BY <1>11, WordsAreNaturals
<1>15. Linear(side.constant, side.raw, atoms, bits)
         = Linear(side.constant, side.coefficients, atoms, bits)
  <2> HIDE DEF atoms
  <2> QED BY <1>0, <1>2, <1>11, <1>13, <1>14, LinearCongruent
<1> HIDE DEF env, linear, entries
<1> QED BY <1>7, <1>8, <1>10, <1>12, <1>15 DEF side

StagesHold(tree, name, groups, bits) ==
    /\ SkeletonHolds(tree, SideOf(tree, groups, bits), bits)
    /\ KernelsHold(SideOf(tree, groups, bits), name, groups, bits)
    /\ CollectionHolds(SideOf(tree, groups, bits), groups, bits)
    /\ ReductionHolds(SideOf(tree, groups, bits), groups, bits)

NormalValue(tree, groups, bits, x) ==
    Linear(SideOf(tree, groups, bits).constant, SideOf(tree, groups, bits).coefficients,
           Atoms(x, groups, bits), bits)

(* The assignment of a word to the one leaf there is.                      *)
OneLeaf(name, x) == [n \in {name} |-> x]

LEMMA StagesDecide ==
    ASSUME NEW bits \in Nat \ {0}, NEW name, NEW groups \in SUBSET (0 .. bits - 1),
           NEW tree \in Trees, IsLinear(tree), NamesOf(tree) \subseteq {name},
           StagesHold(tree, name, groups, bits), NEW x \in Words(bits)
    PROVE  Evaluate(tree, OneLeaf(name, x), bits) = NormalValue(tree, groups, bits, x)
  BY StagesCompose, ZenonT(40) DEF StagesHold, NormalValue, OneLeaf

-----------------------------------------------------------------------------
(* No obligation of the chain can fail.  What one of them asks of a side   *)
(* is proved here for every linear tree.                                   *)

(* How a factor passes through the nodes of a linear tree.                 *)
LEMMA FactorThrough ==
    ASSUME NEW m \in Nat \ {0}, NEW f \in Int, NEW u \in Int, NEW v \in Int
    PROVE  LET c == f % m IN
           /\ (c * u) % m = (f * u) % m
           /\ (f * ((-u) % m)) % m = ((-c) * u) % m
           /\ (((c * u) % m) + ((c * v) % m)) % m = (f * ((u + v) % m)) % m
           /\ (((c * u) % m) + (((-c) * v) % m)) % m = (f * ((u - v) % m)) % m
           /\ (f * ((u * v) % m)) % m = ((c * u) * v) % m
           /\ (f * ((u * v) % m)) % m = ((c * v) * u) % m
<1> DEFINE c == f % m
<1>0. c \in Int
  BY Division
<1>1. \A x \in Int : (f * (x % m)) % m = (f * x) % m /\ (c * x) % m = (f * x) % m
  BY Congruence, Zenon
<1>2. \A x, y \in Int : ((x % m) + (y % m)) % m = (x + y) % m
  <2> TAKE x, y \in Int
  <2>1. y % m \in Int
    BY Division
  <2>2. ((x % m) + (y % m)) % m = (x + (y % m)) % m
    BY <2>1, Congruence, Zenon
  <2>3. (x + (y % m)) % m = (x + y) % m
    BY Congruence, Zenon
  <2> QED BY <2>2, <2>3
<1> HIDE DEF c
<1>3. -u \in Int /\ u + v \in Int /\ u - v \in Int /\ u * v \in Int
      /\ c * u \in Int /\ c * v \in Int /\ (-c) * v \in Int
  BY <1>0
<1>4. (f * ((-u) % m)) % m = ((-c) * u) % m
  <2>1. c * (-u) = (-c) * u
    BY <1>0
  <2>2. (f * ((-u) % m)) % m = (c * (-u)) % m
    BY <1>1, <1>3
  <2> QED BY <2>1, <2>2
<1>5. (((c * u) % m) + ((c * v) % m)) % m = (f * ((u + v) % m)) % m
  <2>1. c * (u + v) = c * u + c * v
    BY <1>0, Distribute
  <2>2. (f * ((u + v) % m)) % m = (c * (u + v)) % m
    BY <1>1, <1>3
  <2>3. (((c * u) % m) + ((c * v) % m)) % m = (c * u + c * v) % m
    BY <1>2, <1>3, Zenon
  <2> QED BY <2>1, <2>2, <2>3
<1>6. (((c * u) % m) + (((-c) * v) % m)) % m = (f * ((u - v) % m)) % m
  <2>1. c * (u - v) = c * u + (-c) * v
    BY <1>0, Distribute
  <2>2. (f * ((u - v) % m)) % m = (c * (u - v)) % m
    BY <1>1, <1>3
  <2>3. (((c * u) % m) + (((-c) * v) % m)) % m = (c * u + (-c) * v) % m
    BY <1>2, <1>3, Zenon
  <2> QED BY <2>1, <2>2, <2>3
<1>7. (f * ((u * v) % m)) % m = ((c * u) * v) % m /\ (f * ((u * v) % m)) % m = ((c * v) * u) % m
  <2>1. c * (u * v) = (c * u) * v /\ c * (u * v) = (c * v) * u
    BY <1>0, Distribute
  <2>2. (f * ((u * v) % m)) % m = (c * (u * v)) % m
    BY <1>1, <1>3
  <2> QED BY <2>1, <2>2
<1>8. (c * u) % m = (f * u) % m
  BY <1>1
<1> QED BY <1>4, <1>5, <1>6, <1>7, <1>8 DEF c

(* The values of kernels under their weights.                              *)
Weighted(entries, env) ==
    [i \in DOMAIN entries |-> entries[i].weight * env[entries[i].tree]]

LEMMA WeightedIsInteger ==
    \A env : \A entries \in Seq(Entry) :
        (\A i \in DOMAIN entries : env[entries[i].tree] \in Int) =>
            Weighted(entries, env) \in [DOMAIN entries -> Int]
<1> SUFFICES ASSUME NEW entries \in Seq(Entry), NEW env,
                    \A i \in DOMAIN entries : env[entries[i].tree] \in Int
             PROVE  Weighted(entries, env) \in [DOMAIN entries -> Int]
  OBVIOUS
<1>1. ASSUME NEW i \in DOMAIN entries PROVE entries[i].weight * env[entries[i].tree] \in Int
  <2>1. entries[i] \in Entry
    <3> HIDE DEF Entry
    <3> QED OBVIOUS
  <2>2. entries[i].weight \in Int
    BY <2>1 DEF Entry
  <2> QED BY <2>2
<1> QED BY <1>1 DEF Weighted

LEMMA WeightedConcat ==
    ASSUME NEW bits \in Nat, NEW l \in Seq(Entry), NEW r \in Seq(Entry), NEW env,
           \A i \in DOMAIN l : env[l[i].tree] \in Int, \A i \in DOMAIN r : env[r[i].tree] \in Int
    PROVE  Total(Weighted(l \o r, env), bits)
             = (Total(Weighted(l, env), bits) + Total(Weighted(r, env), bits)) % TwoTo(bits)
<1> DEFINE m == Len(l)
           n == Len(r)
           f == Weighted(l, env)
           g == Weighted(r, env)
           h == Weighted(l \o r, env)
<1>1. /\ m \in Nat /\ n \in Nat /\ DOMAIN l = 1 .. m /\ DOMAIN r = 1 .. n
      /\ l \o r \in Seq(Entry) /\ DOMAIN (l \o r) = 1 .. m + n
      /\ \A i \in 1 .. m : (l \o r)[i] = l[i]
      /\ \A i \in 1 .. n : m + i \in 1 .. m + n /\ (l \o r)[m + i] = r[i]
  <2> HIDE DEF Entry
  <2> QED OBVIOUS
<1>2. \A i \in DOMAIN (l \o r) : env[(l \o r)[i].tree] \in Int
  <2> SUFFICES ASSUME NEW i \in 1 .. m + n PROVE env[(l \o r)[i].tree] \in Int
    BY <1>1
  <2>1. CASE i \in 1 .. m
    BY <1>1, <2>1
  <2>2. CASE i \notin 1 .. m
    <3>1. i - m \in 1 .. n /\ i = m + (i - m)
      BY <1>1, <2>2
    <3>2. (l \o r)[m + (i - m)] = r[i - m]
      BY <1>1, <3>1
    <3> QED BY <1>1, <3>1, <3>2
  <2> QED BY <2>1, <2>2
<1>3. f \in [1 .. m -> Int] /\ g \in [1 .. n -> Int] /\ h \in [1 .. m + n -> Int]
  BY <1>1, <1>2, WeightedIsInteger
<1>4. (\A i \in 1 .. m : h[i] = f[i]) /\ \A i \in 1 .. n : h[m + i] = g[i]
  BY <1>1 DEF Weighted
<1> HIDE DEF m, n, f, g, h
<1>5. SumFunction(h) = SumFunction(f) + SumFunction(g)
  BY <1>1, <1>3, <1>4, SumConcat
<1>6. SumFunction(f) \in Int /\ SumFunction(g) \in Int
  <2>1. IsFiniteSet(1 .. m) /\ IsFiniteSet(1 .. n)
    <3>1. 1 \in Int /\ m \in Int /\ n \in Int
      BY <1>1
    <3> QED BY <3>1, FS_Interval
  <2> QED BY <1>3, <2>1, SumInteger
<1>7. \A k \in Nat \ {0}, x, y \in Int : ((x % k) + (y % k)) % k = (x + y) % k
  <2> TAKE k \in Nat \ {0}, x, y \in Int
  <2>1. y % k \in Int
    BY Division
  <2>2. ((x % k) + (y % k)) % k = (x + (y % k)) % k
    BY <2>1, Congruence, Zenon
  <2>3. (x + (y % k)) % k = (x + y) % k
    BY Congruence, Zenon
  <2> QED BY <2>2, <2>3
<1>8. ((SumFunction(f) % TwoTo(bits)) + (SumFunction(g) % TwoTo(bits))) % TwoTo(bits)
        = (SumFunction(f) + SumFunction(g)) % TwoTo(bits)
  <2>1. TwoTo(bits) \in Nat \ {0}
    BY PowerOfTwo
  <2> QED BY <1>6, <1>7, <2>1, Zenon
<1>9. /\ Total(f, bits) = SumFunction(f) % TwoTo(bits)
      /\ Total(g, bits) = SumFunction(g) % TwoTo(bits)
      /\ Total(h, bits) = SumFunction(h) % TwoTo(bits)
  BY DEF Total
<1>10. Total(h, bits) = (Total(f, bits) + Total(g, bits)) % TwoTo(bits)
  BY <1>5, <1>8, <1>9
<1> QED BY <1>10 DEF f, g, h

LEMMA WeightedOne ==
    \A env, bits : \A c \in Int, t \in Trees :
        env[t] \in Int =>
            Total(Weighted(<<[weight |-> c, tree |-> t]>>, env), bits) = (c * env[t]) % TwoTo(bits)
<1> SUFFICES ASSUME NEW c \in Int, NEW t \in Trees, NEW env, NEW bits, env[t] \in Int
             PROVE  Total(Weighted(<<[weight |-> c, tree |-> t]>>, env), bits)
                      = (c * env[t]) % TwoTo(bits)
  OBVIOUS
<1> DEFINE f == Weighted(<<[weight |-> c, tree |-> t]>>, env)
<1>1. f \in [{1} -> Int] /\ f[1] = c * env[t]
  BY DEF Weighted
<1>2. IsFiniteSet({1})
  BY FS_Singleton
<1> HIDE DEF f
<1>3. \A y \in {1} \ {1} : f[y] = 0
  OBVIOUS
<1>4. 1 \in {1}
  OBVIOUS
<1>5. SumFunction(f) = f[1]
  BY <1>1, <1>2, <1>3, <1>4, SumOne
<1> QED BY <1>1, <1>5 DEF Total, f

(* A linear tree times a factor is the weighted sum of its kernels.        *)
LEMMA SkeletonIsSum ==
    ASSUME NEW bits \in Nat, NEW env, NEW tree \in Trees, IsLinear(tree), NEW factor \in Int,
           \A kernel \in Kernels(tree, factor, bits) : env[kernel] \in Words(bits)
    PROVE  /\ Skeleton(tree, env, bits) \in Words(bits)
           /\ (factor * Skeleton(tree, env, bits)) % TwoTo(bits)
                = Total(Weighted(Linearize(tree, factor, bits), env), bits)
<1> DEFINE M == TwoTo(bits)
           K(s) == Skeleton(s, env, bits)
           Known(s, f) == \A kernel \in Kernels(s, f, bits) : env[kernel] \in Words(bits)
           Sum(s, f) == Total(Weighted(Linearize(s, f, bits), env), bits)
           Agrees(s, f) == K(s) \in Words(bits) /\ (f * K(s)) % M = Sum(s, f)
           Good == {s \in Trees : IsLinear(s) => \A f \in Int : Known(s, f) => Agrees(s, f)}
<1>0. M \in Nat \ {0} /\ \A x \in Int : x % M \in Words(bits)
  BY PowerOfTwo DEF Words
<1>1. ASSUME NEW s \in Trees, Kids(s) \subseteq Good, IsLinear(s), NEW f \in Int, Known(s, f)
      PROVE  Agrees(s, f)
  <2> DEFINE c == f % M
  <2>a. \A u, v \in Int :
            /\ (c * u) % M = (f * u) % M
            /\ (f * ((-u) % M)) % M = ((-c) * u) % M
            /\ (((c * u) % M) + ((c * v) % M)) % M = (f * ((u + v) % M)) % M
            /\ (((c * u) % M) + (((-c) * v) % M)) % M = (f * ((u - v) % M)) % M
            /\ (f * ((u * v) % M)) % M = ((c * u) * v) % M
            /\ (f * ((u * v) % M)) % M = ((c * v) * u) % M
    <3> HIDE DEF M
    <3> QED BY <1>0, FactorThrough
  <2>0. c \in Int /\ -c \in Int
    <3> HIDE DEF M
    <3>1. c \in Int
      BY <1>0, Division
    <3> HIDE DEF c
    <3> QED BY <3>1
  <2>1. CASE IsBoolean(s)
    <3>1. Linearize(s, f, bits) = <<[weight |-> c, tree |-> s]>> /\ Kernels(s, f, bits) = {s}
      BY <2>1, LinearizeAt, KernelsAt
    <3>2. K(s) = env[s] /\ env[s] \in Words(bits) /\ env[s] \in Int
      BY <1>1, <2>1, <3>1, SkeletonAt, WordsAreNaturals
    <3> HIDE DEF c
    <3>3. Total(Weighted(<<[weight |-> c, tree |-> s]>>, env), bits) = (c * env[s]) % M
      BY <2>0, <3>2, WeightedOne
    <3> HIDE DEF M, K
    <3>4. (c * env[s]) % M = (f * env[s]) % M
      BY <2>a, <3>2
    <3> QED BY <3>1, <3>2, <3>3, <3>4
  <2>2. CASE IsUn(s) /\ ~ IsBoolean(s)
    <3>1. s.op = "-" /\ s.a \in Good /\ IsLinear(s.a)
      BY <1>1, <2>2, IsLinearAt DEF IsUn
    <3>2. Linearize(s, f, bits) = Linearize(s.a, -c, bits)
          /\ Kernels(s, f, bits) = Kernels(s.a, -c, bits)
      BY <2>2, <3>1, LinearizeAt, KernelsAt
    <3>3. Agrees(s.a, -c)
      <4> HIDE DEF c
      <4> QED BY <1>1, <2>0, <3>1, <3>2
    <3>4. K(s) = (- K(s.a)) % M
      BY <2>2, SkeletonAt
    <3>5. K(s.a) \in Int /\ - K(s.a) \in Int
      BY <3>3, WordsAreNaturals
    <3> HIDE DEF K, M, c
    <3>6. (f * ((- K(s.a)) % M)) % M = ((-c) * K(s.a)) % M
      BY <2>a, <3>5
    <3>7. Sum(s, f) = Sum(s.a, -c)
      BY <3>2
    <3> QED BY <1>0, <3>3, <3>4, <3>5, <3>6, <3>7
  <2>3. CASE IsBin(s) /\ s.op \in {"+", "-"} /\ ~ IsBoolean(s)
    <3> DEFINE e == IF s.op = "+" THEN c ELSE -c
               l == Linearize(s.a, c, bits)
               r == Linearize(s.b, e, bits)
    <3>0. e \in Int
      BY <2>0
    <3>1. s.a \in Good /\ IsLinear(s.a) /\ s.b \in Good /\ IsLinear(s.b) /\ s.a \in Trees /\ s.b \in Trees
      BY <1>1, <2>3, IsLinearAt DEF IsBin
    <3>2. Linearize(s, f, bits) = l \o r /\ l \in Seq(Entry) /\ r \in Seq(Entry)
          /\ Kernels(s, f, bits) = Kernels(s.a, c, bits) \cup Kernels(s.b, e, bits)
      <4>1. Linearize(s, f, bits) = l \o r
        BY <2>3, LinearizeAt
      <4>2. l \in Seq(Entry) /\ r \in Seq(Entry)
        <5> HIDE DEF c, e, Entry
        <5> QED BY <2>0, <3>0, <3>1, LinearizeAt
      <4>3. Kernels(s, f, bits) = Kernels(s.a, c, bits) \cup Kernels(s.b, e, bits)
        BY <2>3, KernelsAt
      <4> QED BY <4>1, <4>2, <4>3
    <3>3. Known(s.a, c) /\ Known(s.b, e)
      <4> HIDE DEF c, e
      <4> QED BY <1>1, <3>2
    <3>4. Agrees(s.a, c) /\ Agrees(s.b, e)
      <4> HIDE DEF c, e, Known, Agrees
      <4> QED BY <2>0, <3>0, <3>1, <3>3
    <3>5. K(s) = IF s.op = "+" THEN (K(s.a) + K(s.b)) % M ELSE (K(s.a) - K(s.b)) % M
      <4>1. K(s) = Apply(s.op, K(s.a), K(s.b), bits)
        BY <2>3, SkeletonAt
      <4> HIDE DEF K
      <4> QED BY <2>3, <4>1 DEF Apply
    <3>6. Total(Weighted(l \o r, env), bits) = (Sum(s.a, c) + Sum(s.b, e)) % M
      <4>1. \A i \in DOMAIN l : env[l[i].tree] \in Int
        BY <3>3, WordsAreNaturals DEF Kernels
      <4>2. \A i \in DOMAIN r : env[r[i].tree] \in Int
        BY <3>3, WordsAreNaturals DEF Kernels
      <4>3. Total(Weighted(l \o r, env), bits)
              = (Total(Weighted(l, env), bits) + Total(Weighted(r, env), bits)) % M
        <5> HIDE DEF l, r
        <5> QED BY <3>2, <4>1, <4>2, WeightedConcat
      <4> QED BY <4>3
    <3>7. K(s.a) \in Int /\ K(s.b) \in Int
      BY <3>4, WordsAreNaturals
    <3>8. Sum(s.a, c) = (c * K(s.a)) % M /\ Sum(s.b, e) = (e * K(s.b)) % M
      BY <3>4
    <3>9. Sum(s, f) = (((c * K(s.a)) % M) + ((e * K(s.b)) % M)) % M
      <4>1. Sum(s, f) = Total(Weighted(l \o r, env), bits)
        BY <3>2
      <4> HIDE DEF l, r, e, c, K, M, Sum
      <4> QED BY <3>6, <3>8, <4>1
    <3> HIDE DEF K, M, Sum, c
    <3>10. (((c * K(s.a)) % M) + ((c * K(s.b)) % M)) % M = (f * ((K(s.a) + K(s.b)) % M)) % M
      BY <2>a, <3>7
    <3>11. (((c * K(s.a)) % M) + (((-c) * K(s.b)) % M)) % M = (f * ((K(s.a) - K(s.b)) % M)) % M
      BY <2>a, <3>7
    <3>12. K(s.a) + K(s.b) \in Int /\ K(s.a) - K(s.b) \in Int
      BY <3>7
    <3>13. CASE s.op = "+"
      BY <1>0, <3>5, <3>9, <3>10, <3>12, <3>13
    <3>14. CASE s.op # "+"
      BY <1>0, <3>5, <3>9, <3>11, <3>12, <3>14
    <3> QED BY <3>13, <3>14
  <2>4. CASE IsBin(s) /\ s.op = "*" /\ s.a.kind = "const" /\ ~ IsBoolean(s)
    <3> DEFINE v == s.a.value
    <3>1. s.b \in Good /\ IsLinear(s.b)
      BY <1>1, <2>4, IsLinearAt DEF IsBin
    <3>2. v \in Int /\ c * v \in Int /\ Kernels(s, f, bits) = Kernels(s.b, c * v, bits)
      BY <2>4, KernelsAt
    <3>3. Linearize(s, f, bits) = Linearize(s.b, c * v, bits)
      BY <2>4, LinearizeAt
    <3>4. Agrees(s.b, c * v)
      <4> DEFINE d == c * v
      <4>1. d \in Int /\ Known(s.b, d)
        BY <1>1, <3>2
      <4> HIDE DEF d, Known, Agrees
      <4>2. Agrees(s.b, d)
        BY <3>1, <4>1
      <4> QED BY <4>2 DEF d
    <3>5. K(s) = (v * K(s.b)) % M
      BY <2>4, SkeletonAt
    <3>6. K(s.b) \in Int /\ v * K(s.b) \in Int
      BY <3>2, <3>4, WordsAreNaturals
    <3>7. Sum(s, f) = Sum(s.b, c * v)
      BY <3>3
    <3> HIDE DEF K, M, v, Sum, c
    <3>8. (f * ((v * K(s.b)) % M)) % M = ((c * v) * K(s.b)) % M
      BY <2>a, <3>2, <3>6
    <3> QED BY <1>0, <3>4, <3>5, <3>6, <3>7, <3>8
  <2>5. CASE IsBin(s) /\ s.op = "*" /\ s.a.kind # "const" /\ ~ IsBoolean(s)
    <3> DEFINE v == s.b.value
    <3>1. s.a \in Good /\ IsLinear(s.a) /\ s.b.kind = "const"
      BY <1>1, <2>5, IsLinearAt DEF IsBin
    <3>2. v \in Int /\ c * v \in Int /\ Kernels(s, f, bits) = Kernels(s.a, c * v, bits)
      BY <2>5, <3>1, KernelsAt
    <3>3. Linearize(s, f, bits) = Linearize(s.a, c * v, bits)
      BY <2>5, <3>1, LinearizeAt
    <3>4. Agrees(s.a, c * v)
      <4> DEFINE d == c * v
      <4>1. d \in Int /\ Known(s.a, d)
        BY <1>1, <3>2
      <4> HIDE DEF d, Known, Agrees
      <4>2. Agrees(s.a, d)
        BY <3>1, <4>1
      <4> QED BY <4>2 DEF d
    <3>5. K(s) = (K(s.a) * v) % M
      BY <2>5, SkeletonAt
    <3>6. K(s.a) \in Int /\ K(s.a) * v \in Int
      BY <3>2, <3>4, WordsAreNaturals
    <3>7. Sum(s, f) = Sum(s.a, c * v)
      BY <3>3
    <3> HIDE DEF K, M, v, Sum, c
    <3>8. (f * ((K(s.a) * v) % M)) % M = ((c * v) * K(s.a)) % M
      BY <2>a, <3>2, <3>6
    <3> QED BY <1>0, <3>4, <3>5, <3>6, <3>7, <3>8
  <2>6. IsBin(s) /\ ~ IsBoolean(s) => s.op \in {"+", "-"} \/ s.op = "*"
    BY <1>1, IsLinearAt
  <2> HIDE DEF Agrees
  <2> QED BY <2>1, <2>2, <2>3, <2>4, <2>5, <2>6, TreeShape, IsBooleanAt
<1>2. Trees \subseteq Good
  <2>1. \A s \in Trees : Kids(s) \subseteq Good => s \in Good
    <3> HIDE DEF Known, Agrees
    <3> QED BY <1>1
  <2> HIDE DEF Good
  <2> QED BY <2>1, TreeInduction
<1>3. Known(tree, factor)
  OBVIOUS
<1>4. Agrees(tree, factor)
  <2> HIDE DEF Known, Agrees
  <2> QED BY <1>2, <1>3
<1> QED BY <1>4

(* The first obligation: the skeleton is the weighted sum of the kernels.  *)
LEMMA SkeletonStage ==
    ASSUME NEW bits \in Nat \ {0}, NEW groups \in SUBSET (0 .. bits - 1),
           NEW tree \in Trees, IsLinear(tree)
    PROVE  SkeletonHolds(tree, SideOf(tree, groups, bits), bits)
<1> DEFINE entries == Linearize(tree, 1, bits)
           kernels == {entries[i].tree : i \in DOMAIN entries}
<1>0. bits \in Nat /\ 1 \in Int
  OBVIOUS
<1>1. entries \in Seq(Entry)
  BY <1>0, LinearizeAt
<1>2. SideOf(tree, groups, bits).entries = entries
  BY <1>0, <1>1, SideNumbers DEF SideOf
<1>3. ASSUME NEW env \in [kernels -> Words(bits)]
      PROVE  Skeleton(tree, env, bits)
               = Total([i \in DOMAIN entries |-> entries[i].weight * env[entries[i].tree]], bits)
  <2>1. \A kernel \in Kernels(tree, 1, bits) : env[kernel] \in Words(bits)
    BY DEF Kernels
  <2> HIDE DEF entries, kernels
  <2> DEFINE value == Skeleton(tree, env, bits)
  <2>2. value \in Words(bits) /\ (1 * value) % TwoTo(bits) = Total(Weighted(entries, env), bits)
    BY <1>0, <2>1, SkeletonIsSum DEF entries
  <2> HIDE DEF value
  <2>3. (1 * value) % TwoTo(bits) = value
    BY <1>0, <2>2, PowerOfTwo DEF Words
  <2> QED BY <2>2, <2>3 DEF Weighted, value
<1> HIDE DEF entries
<1> QED BY <1>2, <1>3 DEF SkeletonHolds

(* A weighted sum of sums is the sum with collected weights.               *)
Separate(E, G, w, K, C, s, m) ==
    SumFunction([i \in E |-> w[i] * ((K[i] + SumFunction([g \in G |-> C[i][g] * s[g]])) % m)]) % m
Collected(E, G, w, K, C, s, m) ==
    ((SumFunction([i \in E |-> w[i] * K[i]]) % m)
     + SumFunction([g \in G |-> (SumFunction([i \in E |-> w[i] * C[i][g]]) % m) * s[g]])) % m

Numbers(E, G, w, K, C, s) ==
    /\ IsFiniteSet(E) /\ IsFiniteSet(G)
    /\ w \in [E -> Int] /\ K \in [E -> Int] /\ C \in [E -> [G -> Int]] /\ s \in [G -> Int]

LEMMA SumsCollect ==
    ASSUME NEW m \in Nat \ {0}, NEW E, NEW G, NEW w, NEW K, NEW C, NEW s, Numbers(E, G, w, K, C, s)
    PROVE  Separate(E, G, w, K, C, s, m) = Collected(E, G, w, K, C, s, m)
<1> USE DEF Numbers
<1> DEFINE line(i) == [g \in G |-> C[i][g] * s[g]]
           L(i) == SumFunction(line(i))
           column(g) == [i \in E |-> w[i] * C[i][g]]
           R(g) == SumFunction(column(g))
           f1 == [i \in E |-> w[i] * ((K[i] + L(i)) % m)]
           f2 == [i \in E |-> w[i] * (K[i] + L(i))]
           f3 == [i \in E |-> w[i] * K[i]]
           f4 == [i \in E |-> w[i] * L(i)]
           a == [i \in E |-> [g \in G |-> w[i] * (C[i][g] * s[g])]]
           c1 == [g \in G |-> R(g) * s[g]]
           c2 == [g \in G |-> (R(g) % m) * s[g]]
<1>0. \A x, y \in Int : x * y \in Int /\ x + y \in Int /\ x % m \in Int
  BY Division
<1>1. \A i \in E : w[i] \in Int /\ K[i] \in Int /\ \A g \in G : C[i][g] \in Int
  OBVIOUS
<1>2. ASSUME NEW i \in E PROVE line(i) \in [G -> Int] /\ L(i) \in Int
  <2>1. line(i) \in [G -> Int]
    BY <1>0, <1>1
  <2> HIDE DEF line
  <2> QED BY <2>1, SumInteger
<1>3. ASSUME NEW g \in G PROVE column(g) \in [E -> Int] /\ R(g) \in Int
  <2>1. column(g) \in [E -> Int]
    BY <1>0, <1>1
  <2> HIDE DEF column
  <2> QED BY <2>1, SumInteger
<1>4. f1 \in [E -> Int] /\ f2 \in [E -> Int] /\ f3 \in [E -> Int] /\ f4 \in [E -> Int]
  <2> HIDE DEF L
  <2> QED BY <1>0, <1>1, <1>2
<1>5. c1 \in [G -> Int] /\ c2 \in [G -> Int]
  <2> HIDE DEF R
  <2>1. \A g \in G : s[g] \in Int
    OBVIOUS
  <2> QED BY <1>0, <1>3, <2>1
<1>6. SumFunction(f1) % m = SumFunction(f2) % m
  <2>1. ASSUME NEW i \in E PROVE f1[i] % m = f2[i] % m
    <3> DEFINE x == w[i]
               y == K[i] + L(i)
    <3>1. x \in Int /\ y \in Int
      <4> HIDE DEF L
      <4> QED BY <1>0, <1>1, <1>2
    <3>2. f1[i] = x * (y % m) /\ f2[i] = x * y
      OBVIOUS
    <3> HIDE DEF x, y, f1, f2
    <3>3. (x * (y % m)) % m = (x * y) % m
      BY <3>1, Congruence, Zenon
    <3> QED BY <3>2, <3>3
  <2> HIDE DEF f1, f2
  <2> QED BY <1>4, <2>1, SumCongruent
<1>7. SumFunction(f2) = SumFunction(f3) + SumFunction(f4)
  <2>1. ASSUME NEW i \in E PROVE f2[i] = f3[i] + f4[i]
    <3> DEFINE x == w[i]
               y == K[i]
               z == L(i)
    <3>1. x \in Int /\ y \in Int /\ z \in Int
      <4> HIDE DEF L
      <4> QED BY <1>1, <1>2
    <3>2. f2[i] = x * (y + z) /\ f3[i] = x * y /\ f4[i] = x * z
      OBVIOUS
    <3> HIDE DEF x, y, z, f2, f3, f4
    <3> QED BY <3>1, <3>2, Distribute
  <2> HIDE DEF f2, f3, f4
  <2>2. \A i \in E : f2[i] = f3[i] + f4[i]
    BY <2>1
  <2> QED BY <1>4, <2>2, SumAdd, SMTT(30)
<1>8. a \in [E -> [G -> Int]]
  <2>1. \A i \in E, g \in G : w[i] * (C[i][g] * s[g]) \in Int
    <3>1. \A g \in G : s[g] \in Int
      OBVIOUS
    <3> QED BY <1>0, <1>1, <3>1
  <2> QED BY <2>1
<1>9. f4 = RowSums(a, E, G)
  <2>1. ASSUME NEW i \in E PROVE w[i] * L(i) = SumFunction([g \in G |-> a[i][g]])
    <3> DEFINE h == [g \in G |-> a[i][g]]
               f == line(i)
               x == w[i]
    <3>1. h \in [G -> Int] /\ f \in [G -> Int] /\ x \in Int
      <4>1. h \in [G -> Int]
        <5> HIDE DEF a
        <5> QED BY <1>8
      <4> HIDE DEF h, line
      <4> QED BY <1>1, <1>2, <4>1
    <3>2. \A g \in G : h[g] = x * f[g]
      OBVIOUS
    <3> HIDE DEF h, f, x
    <3>3. SumFunction(h) = x * SumFunction(f)
      BY <3>1, <3>2, SumScale
    <3> QED BY <3>3 DEF h, f, x
  <2> HIDE DEF L, a
  <2> QED BY <2>1 DEF RowSums
<1>10. SumFunction(RowSums(a, E, G)) = SumFunction(ColumnSums(a, E, G))
  <2> HIDE DEF a
  <2> QED BY <1>8, SumSwap
<1>11. c1 = ColumnSums(a, E, G)
  <2>1. ASSUME NEW g \in G PROVE R(g) * s[g] = SumFunction([i \in E |-> a[i][g]])
    <3> DEFINE h == [i \in E |-> a[i][g]]
               f == column(g)
               x == s[g]
    <3>1. h \in [E -> Int] /\ f \in [E -> Int] /\ x \in Int
      <4>1. h \in [E -> Int]
        <5> HIDE DEF a
        <5> QED BY <1>8
      <4> HIDE DEF h, column
      <4> QED BY <1>3, <4>1
    <3>2. ASSUME NEW i \in E PROVE h[i] = x * f[i]
      <4> DEFINE y == w[i]
                 z == C[i][g]
      <4>1. h[i] = y * (z * x) /\ f[i] = y * z
        OBVIOUS
      <4>2. y \in Int /\ z \in Int
        OBVIOUS
      <4>3. \A p, q, r \in Int : p * (q * r) = r * (p * q)
        OBVIOUS
      <4> HIDE DEF y, z, x, h, f
      <4> QED BY <3>1, <4>1, <4>2, <4>3
    <3> HIDE DEF h, f, x
    <3>3. SumFunction(h) = x * SumFunction(f)
      BY <3>1, <3>2, SumScale
    <3>4. SumFunction(f) \in Int
      BY <3>1, SumInteger
    <3>5. SumFunction(h) = SumFunction(f) * x
      BY <3>1, <3>3, <3>4
    <3> QED BY <3>5 DEF h, f, x
  <2> HIDE DEF R, a
  <2> QED BY <2>1 DEF ColumnSums
<1>12. SumFunction(f4) = SumFunction(c1)
  <2> HIDE DEF f4, a, c1
  <2> QED BY <1>9, <1>10, <1>11
<1>13. SumFunction(c1) % m = SumFunction(c2) % m
  <2>1. ASSUME NEW g \in G PROVE c1[g] % m = c2[g] % m
    <3> DEFINE x == R(g)
               y == s[g]
    <3>1. x \in Int /\ y \in Int
      <4> HIDE DEF R
      <4> QED BY <1>3
    <3>2. c1[g] = x * y /\ c2[g] = (x % m) * y
      OBVIOUS
    <3> HIDE DEF x, y, c1, c2
    <3>3. ((x % m) * y) % m = (x * y) % m
      BY <3>1, Congruence, Zenon
    <3> QED BY <3>2, <3>3
  <2> HIDE DEF c1, c2
  <2> QED BY <1>5, <2>1, SumCongruent
<1>14. /\ SumFunction(f3) \in Int /\ SumFunction(c1) \in Int /\ SumFunction(c2) \in Int
  <2> HIDE DEF f3, c1, c2
  <2> QED BY <1>4, <1>5, SumInteger
<1>15. SumFunction(f1) % m = ((SumFunction(f3) % m) + SumFunction(c2)) % m
  <2> DEFINE x == SumFunction(f3)
             y == SumFunction(c1)
             z == SumFunction(c2)
  <2> HIDE DEF f1, f2, f3, f4, c1, c2
  <2>1. SumFunction(f1) % m = (x + y) % m
    BY <1>6, <1>7, <1>12
  <2>2. x \in Int /\ y \in Int /\ z \in Int /\ y % m = z % m
    BY <1>13, <1>14
  <2> HIDE DEF x, y, z
  <2>3. ((x % m) + z) % m = (x + z) % m
    BY <2>2, Congruence, Zenon
  <2>4. (x + (y % m)) % m = (x + y) % m /\ (x + (z % m)) % m = (x + z) % m
    BY <2>2, Congruence, Zenon
  <2> QED BY <2>1, <2>2, <2>3, <2>4 DEF x, z
<1>16. Separate(E, G, w, K, C, s, m) = SumFunction(f1) % m
  BY DEF Separate
<1>17. Collected(E, G, w, K, C, s, m) = ((SumFunction(f3) % m) + SumFunction(c2)) % m
  BY DEF Collected
<1> HIDE DEF f1, f3, c2
<1> QED BY <1>15, <1>16, <1>17

(* The third obligation: the weighted kernels collect into one linear      *)
(* form, whatever the groups are worth.                                    *)
LEMMA CollectionStage ==
    ASSUME NEW bits \in Nat \ {0}, NEW groups \in SUBSET (0 .. bits - 1), NEW entries \in Seq(Entry)
    PROVE  CollectionHolds(Side(entries, groups, bits), groups, bits)
<1> DEFINE M == TwoTo(bits)
           side == Side(entries, groups, bits)
           E == DOMAIN entries
           w == [i \in E |-> entries[i].weight]
           K == [i \in E |-> KernelConstant(entries[i].tree, groups, bits)]
           C == [i \in E |-> [g \in groups |-> KernelCoefficient(entries[i].tree, g, bits)]]
           left(symbols) == Total([i \in E |-> entries[i].weight
                                     * Linear(KernelConstant(entries[i].tree, groups, bits),
                                              [g \in groups |-> KernelCoefficient(entries[i].tree, g, bits)],
                                              symbols, bits)], bits)
<1>0. bits \in Nat /\ M \in Nat \ {0} /\ IsFiniteSet(groups)
  BY PowerOfTwo, GroupsFinite
<1>1. IsFiniteSet(E)
  <2>1. E = 1 .. Len(entries) /\ Len(entries) \in Nat
    OBVIOUS
  <2> QED BY <2>1, FS_Interval
<1>2. \A i \in E : entries[i].weight \in Int /\ entries[i].tree \in Trees
  <2>1. \A i \in E : entries[i] \in Entry
    <3> HIDE DEF Entry
    <3> QED OBVIOUS
  <2> QED BY <2>1 DEF Entry
<1>3. \A i \in E : /\ KernelConstant(entries[i].tree, groups, bits) \in Int
                   /\ \A g \in groups : KernelCoefficient(entries[i].tree, g, bits) \in Int
  BY <1>0, <1>2, KernelNumbers
<1>4. w \in [E -> Int] /\ K \in [E -> Int] /\ C \in [E -> [groups -> Int]]
  BY <1>2, <1>3
<1>5. ASSUME NEW symbols \in [groups -> Words(bits)]
      PROVE  left(symbols) = Linear(side.constant, side.raw, symbols, bits)
  <2>1. symbols \in [groups -> Int] /\ DOMAIN symbols = groups
    BY WordsAreNaturals
  <2>2. Separate(E, groups, w, K, C, symbols, M) = Collected(E, groups, w, K, C, symbols, M)
    <3>1. M \in Nat \ {0} /\ IsFiniteSet(groups)
      BY <1>0
    <3>2. IsFiniteSet(E) /\ w \in [E -> Int] /\ K \in [E -> Int] /\ C \in [E -> [groups -> Int]]
      BY <1>1, <1>4
    <3>3. symbols \in [groups -> Int]
      BY <2>1
    <3> HIDE DEF E, w, K, C, M, left, side
    <3>4. Numbers(E, groups, w, K, C, symbols)
      BY <3>1, <3>2, <3>3 DEF Numbers
    <3> QED BY <3>1, <3>4, SumsCollect
  <2>3. left(symbols) = Separate(E, groups, w, K, C, symbols, M)
    <3> DEFINE f == [i \in E |-> entries[i].weight
                       * Linear(KernelConstant(entries[i].tree, groups, bits),
                                [g \in groups |-> KernelCoefficient(entries[i].tree, g, bits)],
                                symbols, bits)]
               h == [i \in E |-> w[i] * ((K[i] + SumFunction([g \in groups |-> C[i][g] * symbols[g]])) % M)]
    <3>1. ASSUME NEW i \in E PROVE f[i] = h[i]
      <4> DEFINE D == [g \in groups |-> KernelCoefficient(entries[i].tree, g, bits)]
      <4>1. Linear(K[i], D, symbols, bits)
              = (K[i] + SumFunction([g \in groups |-> D[g] * symbols[g]])) % M
        <5> HIDE DEF K, D
        <5> QED BY <2>1 DEF Linear
      <4>2. C[i] = D
        OBVIOUS
      <4>3. f[i] = w[i] * Linear(K[i], D, symbols, bits)
        OBVIOUS
      <4>4. h[i] = w[i] * ((K[i] + SumFunction([g \in groups |-> C[i][g] * symbols[g]])) % M)
        OBVIOUS
      <4> HIDE DEF C, D, K, w, f, h, M
      <4> QED BY <4>1, <4>2, <4>3, <4>4
    <3>2. f = h
      <4>1. f = [i \in E |-> f[i]] /\ h = [i \in E |-> h[i]]
        OBVIOUS
      <4> HIDE DEF f, h
      <4> QED BY <3>1, <4>1
    <3>3. left(symbols) = SumFunction(f) % M
      BY DEF Total
    <3>4. Separate(E, groups, w, K, C, symbols, M) = SumFunction(h) % M
      BY DEF Separate
    <3> HIDE DEF f, h, left, M
    <3> QED BY <3>2, <3>3, <3>4
  <2>4. Collected(E, groups, w, K, C, symbols, M)
          = Linear(side.constant, side.raw, symbols, bits)
    <3> DEFINE k == [i \in E |-> w[i] * K[i]]
               r == [g \in groups |-> Total([i \in E |-> w[i] * C[i][g]], bits)]
    <3>1. side.constant = Total(k, bits)
      <4>1. side.constant = Total([i \in E |-> entries[i].weight
                                     * KernelConstant(entries[i].tree, groups, bits)], bits)
        BY DEF Side
      <4>2. [i \in E |-> entries[i].weight * KernelConstant(entries[i].tree, groups, bits)] = k
        OBVIOUS
      <4> HIDE DEF k, side, E
      <4> QED BY <4>1, <4>2
    <3>2. side.raw = r
      <4>1. side.raw = [g \in groups |-> Total([i \in E |-> entries[i].weight
                                          * KernelCoefficient(entries[i].tree, g, bits)], bits)]
        BY DEF Side
      <4>2. ASSUME NEW g \in groups
            PROVE  [i \in E |-> entries[i].weight * KernelCoefficient(entries[i].tree, g, bits)]
                     = [i \in E |-> w[i] * C[i][g]]
        OBVIOUS
      <4> HIDE DEF side, E, w, C
      <4> QED BY <4>1, <4>2
    <3>3. Linear(Total(k, bits), r, symbols, bits)
            = (Total(k, bits) + SumFunction([g \in groups |-> r[g] * symbols[g]])) % M
      <4> HIDE DEF k, r
      <4> QED BY <2>1 DEF Linear
    <3>4. [g \in groups |-> r[g] * symbols[g]]
            = [g \in groups |-> (SumFunction([i \in E |-> w[i] * C[i][g]]) % M) * symbols[g]]
      <4> HIDE DEF E, w, C
      <4> QED BY DEF Total
    <3>5. Total(k, bits) = SumFunction([i \in E |-> w[i] * K[i]]) % M
      BY DEF Total
    <3>6. Collected(E, groups, w, K, C, symbols, M)
            = ((SumFunction([i \in E |-> w[i] * K[i]]) % M)
               + SumFunction([g \in groups |-> (SumFunction([i \in E |-> w[i] * C[i][g]]) % M) * symbols[g]])) % M
      BY DEF Collected
    <3> HIDE DEF side, k, r, E, w, C, K, M
    <3> QED BY <3>1, <3>2, <3>3, <3>4, <3>5, <3>6
  <2> HIDE DEF left, side, E, w, K, C, M
  <2> QED BY <2>2, <2>3, <2>4
<1>6. side.entries = entries
  BY <1>0, SideNumbers
<1> HIDE DEF side
<1> QED BY <1>5, <1>6 DEF CollectionHolds, side

(* The group of a bit is the last one that starts at it or below.          *)
InGroup(g, groups, i) == g <= i /\ \A h \in groups : h <= i => h <= g
MaskBits(g, groups, bits) == [i \in 0 .. bits - 1 |-> IF InGroup(g, groups, i) THEN 1 ELSE 0]
AtomBits(x, g, groups, bits) ==
    [i \in 0 .. bits - 1 |-> IF InGroup(g, groups, i) THEN BitOf(x, i) ELSE 0]

(* The mask of a group has the bits of the group.                          *)
LEMMA GroupMaskIs ==
    ASSUME NEW bits \in Nat, NEW groups \in SUBSET (0 .. bits - 1), NEW g \in groups
    PROVE  /\ AreBits(MaskBits(g, groups, bits), bits)
           /\ GroupMask(g, groups, bits) = BitSum(MaskBits(g, groups, bits), bits)
<1> DEFINE above == {h \in groups : h > g}
           next == IF above = {} THEN bits ELSE Min(above)
           b == MaskBits(g, groups, bits)
<1>0. \A h \in groups : h \in 0 .. bits - 1
  OBVIOUS
<1>1. next \in Nat /\ g < next /\ next <= bits /\ (\A h \in groups : h > g => next <= h)
      /\ (next = bits \/ next \in groups)
  <2>1. CASE above = {}
    BY <1>0, <2>1
  <2>2. CASE above # {}
    <3>1. above \in SUBSET Nat
      <4>1. \A h \in groups : h \in Nat
        BY <1>0
      <4> QED BY <4>1
    <3>2. \E n \in above : \A m \in above : n <= m
      <4> HIDE DEF above
      <4> QED BY <2>2, <3>1, LeastNatural
    <3>3. Min(above) \in above /\ \A m \in above : Min(above) <= m
      <4> HIDE DEF above
      <4> QED BY <3>2 DEF Min
    <3>4. next = Min(above)
      BY <2>2
    <3> DEFINE least == Min(above)
    <3>5. least \in above /\ (\A m \in above : least <= m) /\ next = least
      BY <3>3, <3>4
    <3> HIDE DEF least, next
    <3> QED BY <1>0, <3>5
  <2> QED BY <2>1, <2>2
<1>2. GroupMask(g, groups, bits) = TwoTo(next) - TwoTo(g)
  BY DEF GroupMask
<1> HIDE DEF next
<1>3. \A i \in 0 .. bits - 1 : b[i] = IF g <= i /\ i < next THEN 1 ELSE 0
  <2> TAKE i \in 0 .. bits - 1
  <2>1. InGroup(g, groups, i) <=> g <= i /\ i < next
    <3>1. ASSUME InGroup(g, groups, i) PROVE i < next
      BY <1>0, <1>1, <3>1 DEF InGroup
    <3>2. ASSUME g <= i, i < next PROVE InGroup(g, groups, i)
      <4>1. ASSUME NEW h \in groups, h <= i, h > g PROVE FALSE
        BY <1>0, <1>1, <3>2, <4>1
      <4> QED BY <1>0, <3>2, <4>1 DEF InGroup
    <3> QED BY <3>1, <3>2 DEF InGroup
  <2> QED BY <2>1 DEF MaskBits
<1>4. AreBits(b, bits)
  BY <1>3 DEF AreBits
<1>5. g \in Nat /\ g <= next
  BY <1>0, <1>1
<1> HIDE DEF b
<1>6. BitSum(b, bits) = TwoTo(next) - TwoTo(g)
  BY <1>1, <1>3, <1>5, BitSumRun
<1> QED BY <1>2, <1>4, <1>6 DEF b

(* The atom of a group has the bits of the word that are in the group.     *)
LEMMA AtomIs ==
    ASSUME NEW bits \in Nat, NEW groups \in SUBSET (0 .. bits - 1), NEW g \in groups, NEW x \in Int
    PROVE  /\ AreBits(AtomBits(x, g, groups, bits), bits)
           /\ Atoms(x, groups, bits)[g] = BitSum(AtomBits(x, g, groups, bits), bits)
<1> DEFINE mask == GroupMask(g, groups, bits)
           b == AtomBits(x, g, groups, bits)
           c == [i \in 0 .. bits - 1 |-> BitOf(x, i) * BitOf(mask, i)]
<1>1. \A i \in 0 .. bits - 1 : BitOf(mask, i) = IF InGroup(g, groups, i) THEN 1 ELSE 0
  <2>1. AreBits(MaskBits(g, groups, bits), bits) /\ mask = BitSum(MaskBits(g, groups, bits), bits)
    BY GroupMaskIs
  <2>2. \A i \in 0 .. bits - 1 : BitOf(mask, i) = MaskBits(g, groups, bits)[i]
    BY <2>1, BitSumBinary
  <2> QED BY <2>2 DEF MaskBits
<1>2. \A i \in 0 .. bits - 1 : BitOf(x, i) \in {0, 1}
  BY BitIsBinary
<1>3. c = b
  <2> HIDE DEF mask
  <2> QED BY <1>1, <1>2 DEF AtomBits
<1>4. AreBits(b, bits) /\ DOMAIN b = 0 .. bits - 1
  BY <1>2 DEF AtomBits, AreBits
<1>5. Atoms(x, groups, bits)[g] = FromBits(c, bits)
  BY DEF Atoms, And
<1> HIDE DEF b, c
<1>6. FromBits(b, bits) = BitSum(b, bits)
  BY <1>4, FromBitsExact
<1> QED BY <1>3, <1>4, <1>5, <1>6 DEF b

(* The last obligation: what a coefficient loses cannot reach the word.    *)
LEMMA ReductionStage ==
    ASSUME NEW bits \in Nat \ {0}, NEW groups \in SUBSET (0 .. bits - 1), NEW entries \in Seq(Entry)
    PROVE  ReductionHolds(Side(entries, groups, bits), groups, bits)
<1> DEFINE side == Side(entries, groups, bits)
<1> SUFFICES ASSUME NEW g \in groups, NEW x \in Words(bits)
             PROVE  (side.raw[g] * Atoms(x, groups, bits)[g]) % TwoTo(bits)
                      = (side.coefficients[g] * Atoms(x, groups, bits)[g]) % TwoTo(bits)
  BY DEF ReductionHolds
<1>0. bits \in Nat /\ g \in Nat /\ bits - g \in Nat /\ x \in Int /\ bits = (bits - g) + g
  BY WordsAreNaturals
<1> DEFINE raw == side.raw[g]
           n == TwoTo(bits - g)
           p == TwoTo(g)
           M == TwoTo(bits)
           atom == Atoms(x, groups, bits)[g]
           b == AtomBits(x, g, groups, bits)
<1>1. raw \in Int
  BY <1>0, SideNumbers
<1>2. side.coefficients[g] = raw % n
  BY DEF Side, Reduced
<1>3. n \in Nat \ {0} /\ p \in Nat \ {0} /\ M \in Nat \ {0}
  BY <1>0, TwoToAt
<1>4. M = n * p
  <2>1. TwoTo((bits - g) + g) = n * p
    BY <1>0, TwoToProduct, Zenon
  <2> QED BY <1>0, <2>1
<1>5. PICK k \in Int : atom = k * p
  <2>1. AreBits(b, bits) /\ atom = BitSum(b, bits)
    BY <1>0, AtomIs
  <2>2. Weights(b, bits)
    BY <1>0, <2>1, BitSumBinary
  <2>3. \A i \in 0 .. bits - 1 : i < g => b[i] = 0
    BY <1>0 DEF AtomBits, InGroup
  <2> HIDE DEF b, atom
  <2>4. \E k \in Int : BitSum(b, bits) = k * TwoTo(g)
    BY <1>0, <2>2, <2>3, BitSumMultiple
  <2> QED BY <2>1, <2>4
<1> HIDE DEF raw, n, p, M, atom
<1> DEFINE q == raw \div n
           r == raw % n
<1>a. q \in Int /\ r \in 0 .. n - 1 /\ raw = q * n + r
  BY <1>1, <1>3, Division
<1> HIDE DEF q, r
<1>6. q \in Int /\ r \in Int /\ raw = q * n + r
  BY <1>3, <1>a
<1>7. raw * atom = r * atom + (q * k) * M /\ r * atom \in Int /\ raw * atom \in Int /\ q * k \in Int
  <2>1. \A t, u, v, w, z \in Int : (t * u + v) * (w * z) = v * (w * z) + (t * w) * (u * z)
    OBVIOUS
  <2>2. (q * n + r) * (k * p) = r * (k * p) + (q * k) * (n * p)
    BY <1>3, <1>6, <2>1
  <2>3. r * (k * p) \in Int /\ q * k \in Int /\ (q * k) * M \in Int
    BY <1>3, <1>6
  <2> QED BY <1>4, <1>5, <1>6, <2>2, <2>3
<1>8. (r * atom) % M = (raw * atom) % M
  BY <1>3, <1>7, Same, Zenon
<1> QED BY <1>2, <1>8 DEF raw, r, M, atom

(* The bits of a kernel's value are its values at the bits.                *)
ValueBits(kernel, x, bits) == [i \in 0 .. bits - 1 |-> BitValue(kernel, i, BitOf(x, i))]

(* A bit of a kernel is a bit.                                             *)
LEMMA BitValueIsBinary ==
    ASSUME NEW bit \in Nat, NEW x \in {0, 1}, NEW tree \in Trees
    PROVE  BitValue(tree, bit, x) \in {0, 1}
<1> DEFINE Good == {t \in Trees : BitValue(t, bit, x) \in {0, 1}}
<1>0. x \in Int
  OBVIOUS
<1>1. ASSUME NEW t \in Trees, Kids(t) \subseteq Good PROVE BitValue(t, bit, x) \in {0, 1}
  <2>1. CASE IsConst(t)
    <3>1. t.value \in Int
      BY <2>1 DEF IsConst
    <3> QED BY <1>0, <2>1, <3>1, BitValueAt, BitIsBinary
  <2>2. CASE IsVar(t)
    BY <1>0, <2>2, BitValueAt
  <2>3. CASE IsUn(t)
    <3>1. BitValue(t.a, bit, x) \in {0, 1}
      BY <1>1, <2>3 DEF IsUn
    <3> QED BY <1>0, <2>3, <3>1, BitValueAt
  <2>4. CASE IsBin(t)
    <3>1. BitValue(t.a, bit, x) \in {0, 1} /\ BitValue(t.b, bit, x) \in {0, 1}
      BY <1>1, <2>4 DEF IsBin
    <3>2. \A a, b \in {0, 1} : BitOperation(t.op, a, b) \in {0, 1}
      BY DEF BitOperation
    <3> QED BY <1>0, <2>4, <3>1, <3>2, BitValueAt
  <2> QED BY <2>1, <2>2, <2>3, <2>4, TreeShape
<1>2. Trees \subseteq Good
  <2>1. \A t \in Trees : Kids(t) \subseteq Good => t \in Good
    BY <1>1
  <2> HIDE DEF Good
  <2> QED BY <2>1, TreeInduction
<1> QED BY <1>2

LEMMA ValueBitsAreBits ==
    ASSUME NEW bits \in Nat, NEW kernel \in Trees, NEW x \in Int
    PROVE  /\ AreBits(ValueBits(kernel, x, bits), bits)
           /\ DOMAIN ValueBits(kernel, x, bits) = 0 .. bits - 1
<1>1. \A i \in 0 .. bits - 1 : BitOf(x, i) \in {0, 1} /\ i \in Nat
  BY BitIsBinary
<1>2. \A i \in 0 .. bits - 1 : BitValue(kernel, i, BitOf(x, i)) \in {0, 1}
  BY <1>1, BitValueIsBinary
<1> QED BY <1>2 DEF ValueBits, AreBits

(* A bitwise operation works bit by bit.                                   *)
LEMMA OperationOnBits ==
    ASSUME NEW bits \in Nat, NEW op \in {"&", "|", "^"}, NEW a, NEW b, NEW c,
           AreBits(a, bits), AreBits(b, bits), AreBits(c, bits), c = [i \in 0 .. bits - 1 |-> c[i]],
           \A i \in 0 .. bits - 1 : c[i] = BitOperation(op, a[i], b[i])
    PROVE  Apply(op, BitSum(a, bits), BitSum(b, bits), bits) = BitSum(c, bits)
<1> DEFINE x == BitSum(a, bits)
           y == BitSum(b, bits)
<1>1. \A i \in 0 .. bits - 1 : /\ BitOf(x, i) = a[i] /\ BitOf(y, i) = b[i]
                               /\ a[i] \in {0, 1} /\ b[i] \in {0, 1}
  BY BitSumBinary DEF AreBits
<1>2. FromBits(c, bits) = BitSum(c, bits)
  <2>1. DOMAIN c = 0 .. bits - 1
    OBVIOUS
  <2> QED BY <2>1, FromBitsExact
<1> HIDE DEF x, y
<1>3. CASE op = "&"
  <2>1. [i \in 0 .. bits - 1 |-> BitOf(x, i) * BitOf(y, i)] = c
    BY <1>1, <1>3 DEF BitOperation
  <2>2. Apply(op, x, y, bits) = FromBits([i \in 0 .. bits - 1 |-> BitOf(x, i) * BitOf(y, i)], bits)
    BY <1>3 DEF Apply, And
  <2> QED BY <1>2, <2>1, <2>2 DEF x, y
<1>4. CASE op = "|"
  <2> DEFINE d == [i \in 0 .. bits - 1 |-> IF 1 \in {BitOf(x, i), BitOf(y, i)} THEN 1 ELSE 0]
  <2>1. ASSUME NEW i \in 0 .. bits - 1 PROVE d[i] = c[i]
    <3>1. c[i] = a[i] + b[i] - a[i] * b[i]
      BY <1>4 DEF BitOperation
    <3> QED BY <1>1, <3>1
  <2>2. d = c
    BY <2>1
  <2>3. Apply(op, x, y, bits) = FromBits(d, bits)
    BY <1>4 DEF Apply, Or
  <2> HIDE DEF d
  <2> QED BY <1>2, <2>2, <2>3 DEF x, y
<1>5. CASE op = "^"
  <2> DEFINE d == [i \in 0 .. bits - 1 |-> IF BitOf(x, i) # BitOf(y, i) THEN 1 ELSE 0]
  <2>1. ASSUME NEW i \in 0 .. bits - 1 PROVE d[i] = c[i]
    <3>1. c[i] = (a[i] + b[i]) % 2
      BY <1>5 DEF BitOperation
    <3> QED BY <1>1, <3>1
  <2>2. d = c
    BY <2>1
  <2>3. Apply(op, x, y, bits) = FromBits(d, bits)
    BY <1>5 DEF Apply, Xor
  <2> HIDE DEF d
  <2> QED BY <1>2, <2>2, <2>3 DEF x, y
<1> QED BY <1>3, <1>4, <1>5

(* The value of a kernel is made of its values at the bits.                *)
LEMMA KernelIsBits ==
    ASSUME NEW bits \in Nat, NEW name, NEW kernel \in Trees, IsBoolean(kernel),
           NamesOf(kernel) \subseteq {name}, NEW x \in Nat
    PROVE  Evaluate(kernel, OneLeaf(name, x), bits) = BitSum(ValueBits(kernel, x, bits), bits)
<1> DEFINE values == OneLeaf(name, x)
           V(t) == ValueBits(t, x, bits)
           Claim(t) == Evaluate(t, values, bits) = BitSum(V(t), bits)
           Good == {t \in Trees : IsBoolean(t) /\ NamesOf(t) \subseteq {name} => Claim(t)}
<1>0. values[name] = x /\ x \in Int
  BY DEF OneLeaf
<1>a. \A i \in 0 .. bits - 1 : i \in Nat /\ BitOf(x, i) \in Int
  <2>1. \A i \in 0 .. bits - 1 : i \in Nat /\ BitOf(x, i) \in {0, 1}
    BY <1>0, BitIsBinary
  <2> QED BY <2>1
<1>1. ASSUME NEW t \in Trees, Kids(t) \subseteq Good, IsBoolean(t), NamesOf(t) \subseteq {name}
      PROVE  Claim(t)
  <2>0. \A i \in 0 .. bits - 1 : V(t)[i] = BitValue(t, i, BitOf(x, i))
    BY DEF ValueBits
  <2>1. CASE IsConst(t)
    <3>1. Evaluate(t, values, bits) = t.value % TwoTo(bits) /\ t.value \in Nat
      BY <2>1, EvaluateAt DEF IsConst
    <3>2. \A i \in 0 .. bits - 1 : V(t)[i] = BitOf(t.value, i)
      BY <1>a, <2>0, <2>1, BitValueAt
    <3> HIDE DEF V
    <3>3. BitSum(V(t), bits) = t.value % TwoTo(bits)
      BY <3>1, <3>2, BitSumOf
    <3> QED BY <3>1, <3>3
  <2>2. CASE IsVar(t)
    <3>1. Evaluate(t, values, bits) = x % TwoTo(bits)
      <4>1. t.name = name
        <5>1. NamesOf(t) = {t.name}
          BY <2>2, NamesAt
        <5> QED BY <1>1, <5>1, Zenon
      <4>2. Evaluate(t, values, bits) = values[t.name] % TwoTo(bits)
        BY <2>2, EvaluateAt
      <4> QED BY <1>0, <4>1, <4>2
    <3>2. \A i \in 0 .. bits - 1 : V(t)[i] = BitOf(x, i)
      BY <1>a, <2>0, <2>2, BitValueAt
    <3> HIDE DEF V
    <3>3. BitSum(V(t), bits) = x % TwoTo(bits)
      BY <3>2, BitSumOf
    <3> QED BY <3>1, <3>3
  <2>3. CASE IsUn(t)
    <3>1. t.op = "~" /\ Claim(t.a) /\ t.a \in Trees
      <4>1. t.op \in BooleanOps /\ IsBoolean(t.a) /\ NamesOf(t.a) \subseteq {name} /\ t.a \in Good
        BY <1>1, <2>3, IsBooleanAt, NamesAt DEF IsUn
      <4>2. t.op = "~"
        BY <2>3, <4>1 DEF IsUn, BooleanOps
      <4> HIDE DEF Claim
      <4> QED BY <4>1, <4>2
    <3>2. Evaluate(t, values, bits) = Ones(bits) - Evaluate(t.a, values, bits)
      BY <2>3, <3>1, EvaluateAt
    <3>3. \A i \in 0 .. bits - 1 : V(t)[i] = 1 - V(t.a)[i]
      BY <1>a, <2>0, <2>3, BitValueAt DEF ValueBits
    <3>4. AreBits(V(t.a), bits)
      BY <1>0, <3>1, ValueBitsAreBits
    <3> HIDE DEF V
    <3>5. BitSum(V(t), bits) = Ones(bits) - BitSum(V(t.a), bits)
      BY <3>3, <3>4, BitSumComplement
    <3> QED BY <3>1, <3>2, <3>5
  <2>4. CASE IsBin(t)
    <3>1. /\ t.op \in {"&", "|", "^"} /\ Claim(t.a) /\ t.a \in Trees /\ Claim(t.b) /\ t.b \in Trees
      <4>1. /\ t.op \in BooleanOps /\ t.a \in Good /\ t.b \in Good
            /\ IsBoolean(t.a) /\ NamesOf(t.a) \subseteq {name}
            /\ IsBoolean(t.b) /\ NamesOf(t.b) \subseteq {name}
        <5>1. t.a \in Good /\ t.b \in Good
          <6> HIDE DEF Good
          <6> QED BY <1>1, <2>4 DEF IsBin
        <5> HIDE DEF Good
        <5>2. t.op \in BooleanOps /\ IsBoolean(t.a) /\ IsBoolean(t.b)
          BY <1>1, <2>4, IsBooleanAt
        <5>3. NamesOf(t) = NamesOf(t.a) \cup NamesOf(t.b)
          BY <2>4, NamesAt
        <5> QED BY <1>1, <5>1, <5>2, <5>3
      <4>2. t.op \in {"&", "|", "^"}
        BY <2>4, <4>1 DEF IsBin, BooleanOps
      <4> HIDE DEF Claim
      <4> QED BY <4>1, <4>2
    <3>2. Evaluate(t, values, bits)
            = Apply(t.op, Evaluate(t.a, values, bits), Evaluate(t.b, values, bits), bits)
      BY <2>4, EvaluateAt
    <3>3. \A i \in 0 .. bits - 1 : V(t)[i] = BitOperation(t.op, V(t.a)[i], V(t.b)[i])
      BY <1>a, <2>0, <2>4, BitValueAt DEF ValueBits
    <3>4. AreBits(V(t), bits) /\ AreBits(V(t.a), bits) /\ AreBits(V(t.b), bits)
      BY <1>0, <3>1, ValueBitsAreBits
    <3>5. V(t) = [i \in 0 .. bits - 1 |-> V(t)[i]]
      BY DEF ValueBits
    <3> HIDE DEF V
    <3>6. Apply(t.op, BitSum(V(t.a), bits), BitSum(V(t.b), bits), bits) = BitSum(V(t), bits)
      BY <3>1, <3>3, <3>4, <3>5, OperationOnBits
    <3> QED BY <3>1, <3>2, <3>6
  <2> HIDE DEF Claim
  <2> QED BY <2>1, <2>2, <2>3, <2>4, TreeShape
<1>2. Trees \subseteq Good
  <2>1. \A t \in Trees : Kids(t) \subseteq Good => t \in Good
    <3> HIDE DEF Claim
    <3> QED BY <1>1
  <2> HIDE DEF Good
  <2> QED BY <2>1, TreeInduction
<1> QED BY <1>2

(* A kernel cannot tell two bits apart that its constants do not.          *)
LEMMA BitValueSame ==
    ASSUME NEW i \in Nat, NEW j \in Nat, NEW x \in Int, NEW tree \in Trees,
           \A c \in Constants(tree) : BitOf(c, i) = BitOf(c, j)
    PROVE  BitValue(tree, i, x) = BitValue(tree, j, x)
<1> DEFINE Alike(t) == \A c \in Constants(t) : BitOf(c, i) = BitOf(c, j)
           Good == {t \in Trees : Alike(t) => BitValue(t, i, x) = BitValue(t, j, x)}
<1>1. ASSUME NEW t \in Trees, Kids(t) \subseteq Good, Alike(t)
      PROVE  BitValue(t, i, x) = BitValue(t, j, x)
  <2>1. CASE IsConst(t)
    <3>1. BitOf(t.value, i) = BitOf(t.value, j)
      BY <1>1, <2>1, ConstantsAt
    <3> QED BY <2>1, <3>1, BitValueAt
  <2>2. CASE IsVar(t)
    BY <2>2, BitValueAt
  <2>3. CASE IsUn(t)
    <3>1. Constants(t) = Constants(t.a)
      BY <2>3, ConstantsAt
    <3>2. t.a \in Good
      BY <1>1, <2>3 DEF IsUn
    <3>3. BitValue(t.a, i, x) = BitValue(t.a, j, x)
      BY <1>1, <3>1, <3>2
    <3> QED BY <2>3, <3>3, BitValueAt
  <2>4. CASE IsBin(t)
    <3>1. Constants(t) = Constants(t.a) \cup Constants(t.b)
      BY <2>4, ConstantsAt
    <3>2. t.a \in Good /\ t.b \in Good
      BY <1>1, <2>4 DEF IsBin
    <3>3. BitValue(t.a, i, x) = BitValue(t.a, j, x) /\ BitValue(t.b, i, x) = BitValue(t.b, j, x)
      BY <1>1, <3>1, <3>2
    <3> QED BY <2>4, <3>3, BitValueAt
  <2> QED BY <2>1, <2>2, <2>3, <2>4, TreeShape
<1>2. Trees \subseteq Good
  <2>1. \A t \in Trees : Kids(t) \subseteq Good => t \in Good
    BY <1>1
  <2> HIDE DEF Good
  <2> QED BY <2>1, TreeInduction
<1> QED BY <1>2

(* Every bit has a group, and agrees with its lowest bit.                  *)
LEMMA GroupOfBit ==
    ASSUME NEW constants, NEW bits \in Nat
    PROVE  \A i \in 0 .. bits - 1 : \E g \in Groups(constants, bits) :
               /\ InGroup(g, Groups(constants, bits), i)
               /\ \A c \in constants : BitOf(c, i) = BitOf(c, g)
<1> DEFINE G == Groups(constants, bits)
           Has(i) == \E g \in G : InGroup(g, G, i) /\ \A c \in constants : BitOf(c, i) = BitOf(c, g)
           Good == {i \in Nat : i < bits => Has(i)}
<1>0. \A g \in G : g \in 0 .. bits - 1
  BY DEF Groups
<1>1. ASSUME 0 < bits PROVE Has(0)
  <2>1. 0 \in G
    BY <1>1 DEF Groups
  <2>2. InGroup(0, G, 0)
    BY DEF InGroup
  <2> QED BY <2>1, <2>2
<1>2. ASSUME NEW i \in Nat, i \in Good, i + 1 < bits PROVE Has(i + 1)
  <2>1. CASE i + 1 \in G
    <3>1. InGroup(i + 1, G, i + 1)
      BY DEF InGroup
    <3> QED BY <2>1, <3>1
  <2>2. CASE i + 1 \notin G
    <3>1. \A c \in constants : BitOf(c, i + 1) = BitOf(c, i)
      <4>1. i + 1 \in 0 .. bits - 1 /\ i + 1 # 0 /\ (i + 1) - 1 = i
        BY <1>2
      <4> QED BY <2>2, <4>1 DEF Groups
    <3>2. PICK g \in G : InGroup(g, G, i) /\ \A c \in constants : BitOf(c, i) = BitOf(c, g)
      BY <1>2
    <3>3. InGroup(g, G, i + 1)
      <4>1. g \in Int /\ g <= i /\ \A h \in G : h \in Int /\ (h <= i => h <= g)
        BY <1>0, <3>2 DEF InGroup
      <4>2. g <= i + 1
        BY <4>1
      <4> HIDE DEF G
      <4>3. ASSUME NEW h \in G, h <= i + 1 PROVE h <= g
        <5>1. h # i + 1 /\ h \in Int
          BY <2>2, <4>1
        <5>2. h <= i
          BY <4>3, <5>1
        <5> QED BY <4>1, <5>2
      <4> QED BY <4>2, <4>3 DEF InGroup
    <3>4. \A c \in constants : BitOf(c, i + 1) = BitOf(c, g)
      BY <3>1, <3>2
    <3> HIDE DEF G
    <3> QED BY <3>3, <3>4
  <2> QED BY <2>1, <2>2
<1>3. Nat \subseteq Good
  <2>1. 0 \in Good
    BY <1>1
  <2>2. \A n \in Nat : n \in Good => n + 1 \in Good
    <3> HIDE DEF Has
    <3> QED BY <1>2
  <2> HIDE DEF Good
  <2> QED BY <2>1, <2>2, Induction
<1>4. \A i \in 0 .. bits - 1 : Has(i)
  <2> HIDE DEF Has
  <2> QED BY <1>3
<1> QED BY <1>4

(* What a group has contributed once the bits below n have been added up.  *)
Share(a, d, x, groups, bits, n) ==
    [g \in groups |-> a[g] * BitSum(MaskBits(g, groups, bits), n)
                      + d[g] * BitSum(AtomBits(x, g, groups, bits), n)]

(* A word's bits are told by the group that holds them.                    *)
Decided(v, a, d, x, groups, bits) ==
    /\ \A g \in groups : a[g] \in {0, 1} /\ d[g] \in {-1, 0, 1}
    /\ \A i \in 0 .. bits - 1 : \E g \in groups :
           InGroup(g, groups, i) /\ v[i] = a[g] + d[g] * BitOf(x, i)

LEMMA ShareAt ==
    ASSUME NEW bits \in Nat, NEW groups \in SUBSET (0 .. bits - 1), NEW x \in Int,
           NEW a, NEW d, NEW v, Decided(v, a, d, x, groups, bits)
    PROVE  \A g \in groups :
               /\ \A n \in Nat : n <= bits => Share(a, d, x, groups, bits, n)[g] \in Int
               /\ \A n \in 0 .. bits - 1 :
                      Share(a, d, x, groups, bits, n + 1)[g]
                        = Share(a, d, x, groups, bits, n)[g]
                          + (IF InGroup(g, groups, n)
                             THEN (a[g] + d[g] * BitOf(x, n)) * TwoTo(n) ELSE 0)
<1> TAKE g \in groups
<1>1. a[g] \in {0, 1} /\ d[g] \in {-1, 0, 1}
  BY DEF Decided
<1> DEFINE m == MaskBits(g, groups, bits)
           t == AtomBits(x, g, groups, bits)
<1>2. \A n : Share(a, d, x, groups, bits, n)[g] = a[g] * BitSum(m, n) + d[g] * BitSum(t, n)
  BY DEF Share
<1>3. \A i \in 0 .. bits - 1 :
          /\ m[i] = IF InGroup(g, groups, i) THEN 1 ELSE 0
          /\ t[i] = IF InGroup(g, groups, i) THEN BitOf(x, i) ELSE 0
          /\ BitOf(x, i) \in {0, 1} /\ i \in Nat
  <2>1. \A i \in 0 .. bits - 1 : i \in Nat /\ BitOf(x, i) \in {0, 1}
    BY BitIsBinary
  <2> QED BY <2>1 DEF MaskBits, AtomBits
<1> HIDE DEF m, t
<1>4. \A n \in Nat : n <= bits => Weights(m, n) /\ Weights(t, n)
  BY <1>3 DEF Weights
<1>5. \A n \in Nat : n <= bits => BitSum(m, n) \in Int /\ BitSum(t, n) \in Int
  BY <1>4, BitSumAt
<1>6. \A n \in Nat : n <= bits => Share(a, d, x, groups, bits, n)[g] \in Int
  BY <1>2, <1>5, <1>1
<1>7. ASSUME NEW n \in 0 .. bits - 1
      PROVE  Share(a, d, x, groups, bits, n + 1)[g]
               = Share(a, d, x, groups, bits, n)[g]
                 + (IF InGroup(g, groups, n) THEN (a[g] + d[g] * BitOf(x, n)) * TwoTo(n) ELSE 0)
  <2> DEFINE w == TwoTo(n)
             p == BitSum(m, n)
             q == BitSum(t, n)
             b == BitOf(x, n)
  <2>1. n \in Nat /\ n <= bits /\ n + 1 \in Nat /\ n + 1 <= bits /\ w \in Nat
    BY PowerOfTwo
  <2>2. BitSum(m, n + 1) = p + m[n] * w /\ BitSum(t, n + 1) = q + t[n] * w
    <3>1. Weights(m, n + 1) /\ Weights(t, n + 1)
      BY <1>4, <2>1
    <3> QED BY <2>1, <3>1, BitSumAt
  <2>3. p \in Int /\ q \in Int /\ b \in {0, 1}
    BY <1>3, <1>5, <2>1
  <2>4. /\ m[n] = IF InGroup(g, groups, n) THEN 1 ELSE 0
        /\ t[n] = IF InGroup(g, groups, n) THEN b ELSE 0
    BY <1>3
  <2> HIDE DEF w, p, q, b
  <2>5. a[g] * (p + m[n] * w) + d[g] * (q + t[n] * w)
          = (a[g] * p + d[g] * q) + (IF InGroup(g, groups, n) THEN (a[g] + d[g] * b) * w ELSE 0)
    <3>1. CASE ~ InGroup(g, groups, n)
      BY <1>1, <2>1, <2>3, <2>4, <3>1
    <3>2. CASE InGroup(g, groups, n) /\ b = 0
      BY <1>1, <2>1, <2>3, <2>4, <3>2
    <3>3. CASE InGroup(g, groups, n) /\ b = 1
      BY <1>1, <2>1, <2>3, <2>4, <3>3
    <3> QED BY <2>3, <3>1, <3>2, <3>3
  <2>6. /\ Share(a, d, x, groups, bits, n + 1)[g] = a[g] * (p + m[n] * w) + d[g] * (q + t[n] * w)
        /\ Share(a, d, x, groups, bits, n)[g] = a[g] * p + d[g] * q
    BY <1>2, <2>2 DEF p, q
  <2> QED BY <2>5, <2>6 DEF w, b
<1> QED BY <1>6, <1>7

(* The shares of all groups add up to the word.                            *)
LEMMA GroupsAddUp ==
    ASSUME NEW bits \in Nat, NEW groups \in SUBSET (0 .. bits - 1), NEW x \in Int,
           NEW a, NEW d, NEW v, Decided(v, a, d, x, groups, bits)
    PROVE  SumFunction(Share(a, d, x, groups, bits, bits)) = BitSum(v, bits)
<1>a. \A g \in groups : Share(a, d, x, groups, bits, 0)[g] = 0
  <2>1. ASSUME NEW g \in groups
        PROVE  a[g] * BitSum(MaskBits(g, groups, bits), 0)
               + d[g] * BitSum(AtomBits(x, g, groups, bits), 0) = 0
    <3>1. a[g] \in Int /\ d[g] \in Int
      BY DEF Decided
    <3>2. BitSum(MaskBits(g, groups, bits), 0) = 0 /\ BitSum(AtomBits(x, g, groups, bits), 0) = 0
      BY BitSumAt
    <3> QED BY <3>1, <3>2
  <2> QED BY <2>1 DEF Share
<1> DEFINE F(n) == Share(a, d, x, groups, bits, n)
           Good == {n \in Nat : n <= bits => SumFunction(F(n)) = BitSum(v, n)}
<1>0. IsFiniteSet(groups)
  BY GroupsFinite
<1>1. \A n \in Nat : n <= bits => F(n) \in [groups -> Int]
  <2>1. ASSUME NEW n \in Nat, n <= bits PROVE F(n) \in [groups -> Int]
    <3>1. \A g \in groups : F(n)[g] \in Int
      BY <2>1, ShareAt
    <3>2. F(n) = [g \in groups |-> F(n)[g]]
      BY DEF Share
    <3> HIDE DEF F
    <3> QED BY <3>1, <3>2
  <2> QED BY <2>1
<1>2. \A i \in 0 .. bits - 1 : i \in Nat /\ BitOf(x, i) \in {0, 1}
  BY BitIsBinary
<1>3. Weights(v, bits)
  BY <1>2 DEF Weights, Decided
<1>4. 0 \in Good
  <2> DEFINE none == F(0)
             total == SumFunction(none)
  <2>1. none \in [groups -> Int]
    <3> HIDE DEF F
    <3> QED BY <1>1
  <2>2. ASSUME NEW g \in groups PROVE none[g] = 0
    BY <1>a
  <2> HIDE DEF none
  <2>3. \A g \in groups : none[g] = none[g] + none[g]
    BY <2>2
  <2>4. total = total + total
    BY <1>0, <2>1, <2>3, SumAdd, ZenonT(40)
  <2>5. total \in Int
    BY <1>0, <2>1, SumInteger
  <2>6. BitSum(v, 0) = 0
    BY BitSumAt
  <2> HIDE DEF total
  <2>7. total = 0
    BY <2>4, <2>5
  <2> QED BY <2>6, <2>7 DEF total, none
<1>5. ASSUME NEW n \in Nat, n \in Good PROVE n + 1 \in Good
  <2> SUFFICES ASSUME n + 1 <= bits PROVE SumFunction(F(n + 1)) = BitSum(v, n + 1)
    OBVIOUS
  <2> DEFINE e == [g \in groups |-> IF InGroup(g, groups, n)
                                    THEN (a[g] + d[g] * BitOf(x, n)) * TwoTo(n) ELSE 0]
  <2>1. n \in 0 .. bits - 1 /\ TwoTo(n) \in Nat /\ BitOf(x, n) \in {0, 1}
    BY <1>2, PowerOfTwo
  <2>2. PICK g \in groups : InGroup(g, groups, n) /\ v[n] = a[g] + d[g] * BitOf(x, n)
    BY <2>1 DEF Decided
  <2>3. \A h \in groups \ {g} : ~ InGroup(h, groups, n)
    <3>1. g \in Int /\ \A h \in groups : h \in Int
      OBVIOUS
    <3> QED BY <2>2, <3>1 DEF InGroup
  <2>4. e \in [groups -> Int]
    <3>1. ASSUME NEW h \in groups PROVE (a[h] + d[h] * BitOf(x, n)) * TwoTo(n) \in Int
      BY <2>1 DEF Decided
    <3> QED BY <3>1
  <2>5. e[g] = v[n] * TwoTo(n) /\ \A h \in groups \ {g} : e[h] = 0
    BY <2>2, <2>3
  <2>6. \A h \in groups : F(n + 1)[h] = F(n)[h] + e[h]
    BY <2>1, ShareAt
  <2>7. F(n) \in [groups -> Int] /\ F(n + 1) \in [groups -> Int] /\ SumFunction(F(n)) = BitSum(v, n)
    <3> HIDE DEF F
    <3> QED BY <1>1, <1>5, <2>1
  <2> DEFINE before == F(n)
             after == F(n + 1)
  <2>8. SumFunction(after) = SumFunction(before) + SumFunction(e)
    <3>1. before \in [groups -> Int]
      BY <2>7
    <3>2. after \in [groups -> Int]
      BY <2>7
    <3>3. \A h \in groups : after[h] = before[h] + e[h]
      BY <2>6
    <3> HIDE DEF before, after, e
    <3>4. e \in [groups -> Int]
      BY <2>4
    <3>5. IsFiniteSet(groups)
      BY <1>0
    <3> HIDE DEF F
    <3>6. Adds(groups, before, e, after)
      BY <3>1, <3>2, <3>3, <3>4 DEF Adds
    <3> QED BY <3>5, <3>6, SumAdds
  <2> HIDE DEF F, e
  <2>9. SumFunction(e) = e[g]
    <3>1. \A h \in groups \ {g} : e[h] = 0
      BY <2>5
    <3> QED BY <1>0, <2>4, <3>1, SumOne, ZenonT(40)
  <2>10. BitSum(v, n + 1) = BitSum(v, n) + v[n] * TwoTo(n)
    <3>1. Weights(v, n + 1)
      BY <1>3, <2>1 DEF Weights
    <3> QED BY <3>1, BitSumAt
  <2> QED BY <2>5, <2>7, <2>8, <2>9, <2>10 DEF before, after
<1>6. Nat \subseteq Good
  <2> HIDE DEF Good
  <2> QED BY <1>4, <1>5, Induction
<1> HIDE DEF F
<1>7. SumFunction(F(bits)) = BitSum(v, bits)
  BY <1>6
<1> QED BY <1>7 DEF F

(* The second obligation: a kernel is linear in the atoms of the groups.   *)
LEMMA KernelStage ==
    ASSUME NEW bits \in Nat, NEW constants, NEW kernel \in Trees, IsBoolean(kernel),
           Constants(kernel) \subseteq constants, NEW name, NamesOf(kernel) \subseteq {name},
           NEW x \in Words(bits)
    PROVE  LET groups == Groups(constants, bits) IN
           Evaluate(kernel, OneLeaf(name, x), bits)
             = Linear(KernelConstant(kernel, groups, bits),
                      [g \in groups |-> KernelCoefficient(kernel, g, bits)],
                      Atoms(x, groups, bits), bits)
<1> DEFINE G == Groups(constants, bits)
           M == TwoTo(bits)
           K == KernelConstant(kernel, G, bits)
           C == [g \in G |-> KernelCoefficient(kernel, g, bits)]
           s == Atoms(x, G, bits)
           a == [g \in G |-> BitValue(kernel, g, 0)]
           d == [g \in G |-> BitValue(kernel, g, 1) - BitValue(kernel, g, 0)]
           V == ValueBits(kernel, x, bits)
           both == Share(a, d, x, G, bits, bits)
           fixed == [g \in G |-> a[g] * BitSum(MaskBits(g, G, bits), bits)]
           varied == [g \in G |-> d[g] * BitSum(AtomBits(x, g, G, bits), bits)]
<1>1. G \in SUBSET (0 .. bits - 1)
  BY DEF Groups
<1>2. x \in Nat /\ M \in Nat \ {0}
  BY WordsAreNaturals, PowerOfTwo
<1>3. \A i \in 0 .. bits - 1 : i \in Nat /\ BitOf(x, i) \in {0, 1}
  BY <1>2, BitIsBinary
<1>4. \A i \in 0 .. bits - 1 : BitValue(kernel, i, 0) \in {0, 1} /\ BitValue(kernel, i, 1) \in {0, 1}
  BY <1>3, BitValueIsBinary
<1>5. Decided(V, a, d, x, G, bits)
  <2>1. ASSUME NEW g \in G PROVE a[g] \in {0, 1} /\ d[g] \in {-1, 0, 1}
    <3>1. BitValue(kernel, g, 0) \in {0, 1} /\ BitValue(kernel, g, 1) \in {0, 1}
      BY <1>1, <1>4
    <3> QED BY <3>1
  <2>2. ASSUME NEW i \in 0 .. bits - 1
        PROVE  \E g \in G : InGroup(g, G, i) /\ V[i] = a[g] + d[g] * BitOf(x, i)
    <3>1. PICK g \in G : InGroup(g, G, i) /\ \A c \in constants : BitOf(c, i) = BitOf(c, g)
      BY GroupOfBit
    <3>2. g \in Nat /\ i \in Nat /\ BitOf(x, i) \in {0, 1}
      BY <1>1, <1>3
    <3>3. V[i] = BitValue(kernel, i, BitOf(x, i))
      BY DEF ValueBits
    <3>4. \A c \in Constants(kernel) : BitOf(c, i) = BitOf(c, g)
      BY <3>1
    <3>5. \A b \in {0, 1} : BitValue(kernel, i, b) = BitValue(kernel, g, b)
      <4> TAKE b \in {0, 1}
      <4>1. b \in Int
        OBVIOUS
      <4> QED BY <3>2, <3>4, <4>1, BitValueSame
    <3>6. /\ a[g] = BitValue(kernel, g, 0) /\ a[g] \in {0, 1}
          /\ d[g] = BitValue(kernel, g, 1) - a[g] /\ BitValue(kernel, g, 1) \in {0, 1}
      BY <1>1, <1>4
    <3>7. V[i] = BitValue(kernel, g, BitOf(x, i))
      BY <3>2, <3>3, <3>5
    <3> HIDE DEF a, d, V, G
    <3>8. V[i] = a[g] + d[g] * BitOf(x, i)
      <4>1. CASE BitOf(x, i) = 0
        BY <3>6, <3>7, <4>1
      <4>2. CASE BitOf(x, i) = 1
        BY <3>6, <3>7, <4>2
      <4> QED BY <3>2, <4>1, <4>2
    <3> QED BY <3>1, <3>8
  <2> HIDE DEF a, d, V, G
  <2> QED BY <2>1, <2>2 DEF Decided
<1>6. IsFiniteSet(G)
  BY <1>1, GroupsFinite
<1>7. \A g \in G : /\ GroupMask(g, G, bits) = BitSum(MaskBits(g, G, bits), bits)
                   /\ s[g] = BitSum(AtomBits(x, g, G, bits), bits)
                   /\ GroupMask(g, G, bits) \in Int /\ s[g] \in Int
  <2> SUFFICES ASSUME NEW g \in G
               PROVE  /\ GroupMask(g, G, bits) = BitSum(MaskBits(g, G, bits), bits)
                      /\ s[g] = BitSum(AtomBits(x, g, G, bits), bits)
                      /\ GroupMask(g, G, bits) \in Int /\ s[g] \in Int
    OBVIOUS
  <2> HIDE DEF G
  <2>1. /\ AreBits(MaskBits(g, G, bits), bits)
        /\ GroupMask(g, G, bits) = BitSum(MaskBits(g, G, bits), bits)
    BY <1>1, GroupMaskIs
  <2>2. /\ AreBits(AtomBits(x, g, G, bits), bits)
        /\ s[g] = BitSum(AtomBits(x, g, G, bits), bits)
    BY <1>1, <1>2, AtomIs
  <2> HIDE DEF s
  <2>3. /\ BitSum(MaskBits(g, G, bits), bits) \in Int
        /\ BitSum(AtomBits(x, g, G, bits), bits) \in Int
    BY <2>1, <2>2, BitSumBinary
  <2> QED BY <2>1, <2>2, <2>3
<1>8. /\ fixed \in [G -> Int] /\ varied \in [G -> Int]
      /\ both = [g \in G |-> fixed[g] + varied[g]]
  <2>1. ASSUME NEW g \in G PROVE fixed[g] \in Int /\ varied[g] \in Int
    <3>1. a[g] \in Int /\ d[g] \in Int
      BY <1>5 DEF Decided
    <3>2. BitSum(MaskBits(g, G, bits), bits) \in Int /\ BitSum(AtomBits(x, g, G, bits), bits) \in Int
      <4> HIDE DEF G
      <4> QED BY <1>7
    <3> HIDE DEF a, d, G
    <3> QED BY <3>1, <3>2
  <2>2. both = [g \in G |-> fixed[g] + varied[g]]
    BY DEF Share
  <2>3. fixed = [g \in G |-> fixed[g]] /\ varied = [g \in G |-> varied[g]]
    OBVIOUS
  <2> HIDE DEF fixed, varied, both, G
  <2> QED BY <2>1, <2>2, <2>3
<1>9. SumFunction(both) = BitSum(V, bits)
  <2>1. x \in Int
    BY <1>2
  <2> HIDE DEF a, d, V, G
  <2> QED BY <1>1, <1>5, <2>1, GroupsAddUp
<1>10. SumFunction(both) = SumFunction(fixed) + SumFunction(varied)
  <2> HIDE DEF fixed, varied, both, G
  <2>1. both \in [G -> Int] /\ \A g \in G : both[g] = fixed[g] + varied[g]
    BY <1>8
  <2>2. Adds(G, fixed, varied, both)
    BY <1>8, <2>1 DEF Adds
  <2> QED BY <1>6, <2>2, SumAdds
<1>11. K = SumFunction(fixed) % M
  <2>1. K = Total([g \in G |-> BitValue(kernel, g, 0) * GroupMask(g, G, bits)], bits)
    BY DEF KernelConstant
  <2>2. [g \in G |-> BitValue(kernel, g, 0) * GroupMask(g, G, bits)] = fixed
    <3>1. \A g \in G : BitValue(kernel, g, 0) * GroupMask(g, G, bits)
                         = a[g] * BitSum(MaskBits(g, G, bits), bits)
      BY <1>7
    <3> HIDE DEF a, G
    <3> QED BY <3>1
  <2> HIDE DEF K, fixed, G
  <2> QED BY <2>1, <2>2 DEF Total
<1>12. Linear(K, C, s, bits) = Linear(K, d, s, bits)
  <2>1. K \in Int /\ \A g \in G : KernelCoefficient(kernel, g, bits) \in Int
    <3> HIDE DEF G
    <3> QED BY <1>1, KernelNumbers
  <2>2. DOMAIN s = G
    BY DEF Atoms
  <2>3. ASSUME NEW g \in G
        PROVE  C[g] \in Int /\ d[g] \in Int /\ s[g] \in Int /\ (C[g] * s[g]) % M = (d[g] * s[g]) % M
    <3>1. C[g] = d[g] % M
      BY DEF KernelCoefficient
    <3>2. d[g] \in Int /\ s[g] \in Int
      BY <1>5, <1>7 DEF Decided
    <3>3. C[g] \in Int
      BY <2>1
    <3> HIDE DEF C, d, s, G, M
    <3>4. ((d[g] % M) * s[g]) % M = (d[g] * s[g]) % M
      BY <1>2, <3>2, Congruence, Zenon
    <3> QED BY <3>1, <3>2, <3>3, <3>4
  <2> HIDE DEF C, d, s, K, G
  <2> QED BY <1>6, <2>1, <2>2, <2>3, LinearCongruent
<1>13. Linear(K, d, s, bits) = (K + SumFunction(varied)) % M
  <2>1. DOMAIN s = G
    BY DEF Atoms
  <2>2. [g \in G |-> d[g] * s[g]] = varied
    <3> HIDE DEF d, s, G
    <3> QED BY <1>7
  <2> HIDE DEF d, s, varied, K, G
  <2> QED BY <2>1, <2>2 DEF Linear
<1>14. ((SumFunction(fixed) % M) + SumFunction(varied)) % M = BitSum(V, bits) % M
  <2>1. SumFunction(fixed) \in Int /\ SumFunction(varied) \in Int
    <3> HIDE DEF fixed, varied, G
    <3> QED BY <1>6, <1>8, SumInteger
  <2> DEFINE p == SumFunction(fixed)
             q == SumFunction(varied)
  <2>2. p + q = BitSum(V, bits)
    BY <1>9, <1>10
  <2> HIDE DEF p, q, M, V
  <2>3. ((p % M) + q) % M = (p + q) % M
    <3>1. p \in Int /\ q \in Int
      BY <2>1 DEF p, q
    <3> QED BY <1>2, <3>1, Congruence, Zenon
  <2> QED BY <2>2, <2>3 DEF p, q
<1>15. BitSum(V, bits) % M = BitSum(V, bits)
  <2>1. AreBits(V, bits)
    BY <1>2, ValueBitsAreBits
  <2>2. BitSum(V, bits) \in 0 .. M - 1
    <3> HIDE DEF V
    <3> QED BY <2>1, BitSumBinary
  <2> HIDE DEF V, M
  <2>3. (0 * M + BitSum(V, bits)) % M = BitSum(V, bits)
    BY <1>2, <2>2, Remainder
  <2>4. 0 * M + BitSum(V, bits) = BitSum(V, bits)
    BY <1>2, <2>2
  <2> QED BY <2>3, <2>4
<1>16. Evaluate(kernel, OneLeaf(name, x), bits) = BitSum(V, bits)
  BY <1>2, KernelIsBits
<1> HIDE DEF K, C, s, d, V, varied, fixed, both, M, a
<1>17. Evaluate(kernel, OneLeaf(name, x), bits) = Linear(K, C, s, bits)
  BY <1>11, <1>12, <1>13, <1>14, <1>15, <1>16
<1> QED BY <1>17 DEF K, C, s

(* No stage has a counterexample of its own: what the chain asks of a side *)
(* holds of every linear tree, whatever else its groups have to tell apart.*)
LEMMA StagesAlwaysHold ==
    ASSUME NEW bits \in Nat \ {0}, NEW constants, NEW name, NEW tree \in Trees, IsLinear(tree),
           NamesOf(tree) \subseteq {name}, Constants(tree) \subseteq constants
    PROVE  StagesHold(tree, name, Groups(constants, bits), bits)
<1> DEFINE groups == Groups(constants, bits)
           entries == Linearize(tree, 1, bits)
           side == SideOf(tree, groups, bits)
<1>0. bits \in Nat /\ 1 \in Int
  OBVIOUS
<1>1. groups \in SUBSET (0 .. bits - 1)
  BY DEF Groups
<1>2. entries \in Seq(Entry)
  BY <1>0, LinearizeAt
<1>3. side = Side(entries, groups, bits)
  BY DEF SideOf
<1>4. side.entries = entries
  <2> HIDE DEF groups, entries, side
  <2> QED BY <1>0, <1>1, <1>2, <1>3, SideNumbers
<1>5. SkeletonHolds(tree, side, bits)
  <2> HIDE DEF groups
  <2> QED BY <1>1, SkeletonStage
<1>6. KernelsHold(side, name, groups, bits)
  <2>1. ASSUME NEW i \in DOMAIN entries, NEW x \in Words(bits)
        PROVE  Evaluate(entries[i].tree, [n \in {name} |-> x], bits)
                 = Linear(KernelConstant(entries[i].tree, groups, bits),
                          [g \in groups |-> KernelCoefficient(entries[i].tree, g, bits)],
                          Atoms(x, groups, bits), bits)
    <3> DEFINE kernel == entries[i].tree
    <3>1. kernel \in Kernels(tree, 1, bits)
      BY DEF Kernels
    <3> HIDE DEF kernel
    <3>2. /\ kernel \in Trees /\ NamesOf(kernel) \subseteq NamesOf(tree)
          /\ IsBoolean(kernel) /\ Constants(kernel) \subseteq Constants(tree)
      BY <1>0, <3>1, LinearKernels
    <3>3. NamesOf(kernel) \subseteq {name} /\ Constants(kernel) \subseteq constants
      BY <3>2
    <3>4. Evaluate(kernel, OneLeaf(name, x), bits)
            = Linear(KernelConstant(kernel, groups, bits),
                     [g \in groups |-> KernelCoefficient(kernel, g, bits)],
                     Atoms(x, groups, bits), bits)
      BY <1>0, <3>2, <3>3, KernelStage
    <3> QED BY <3>4 DEF kernel, OneLeaf
  <2> HIDE DEF entries, groups, side
  <2> QED BY <1>4, <2>1 DEF KernelsHold
<1>7. CollectionHolds(side, groups, bits) /\ ReductionHolds(side, groups, bits)
  <2> HIDE DEF groups, entries, side
  <2> QED BY <1>1, <1>2, <1>3, CollectionStage, ReductionStage
<1> QED BY <1>5, <1>6, <1>7 DEF StagesHold

-----------------------------------------------------------------------------
(* The verdict of prove_width_equivalent is right, at every width and for  *)
(* any two trees: the rewrite it calls proved is equal to the source on    *)
(* every word, and the one it calls refuted is not.  The coefficients are  *)
(* only compared at the end; each side was tied to its tree before.        *)
THEOREM WidthVerdictSound ==
    ASSUME NEW bits \in Nat \ {0}, NEW source \in Trees, NEW rewrite \in Trees
    PROVE  LET verdict == ProveWidthEquivalent(source, rewrite, bits)
           IN  /\ verdict \in {"proved", "refuted", "unknown"}
               /\ verdict = "proved" => Equivalent(source, rewrite, LeafNames(source), bits)
               /\ verdict = "refuted" => ~ Equivalent(source, rewrite, LeafNames(source), bits)
<1> DEFINE verdict == ProveWidthEquivalent(source, rewrite, bits)
           name == LeafNames(source)[1]
           groups == GroupsOf(source, rewrite, bits)
           side(tree) == Side(Linearize(tree, 1, bits), groups, bits)
           staged(tree) == /\ SkeletonHolds(tree, side(tree), bits)
                           /\ KernelsHold(side(tree), name, groups, bits)
                           /\ CollectionHolds(side(tree), groups, bits)
                           /\ ReductionHolds(side(tree), groups, bits)
           value(tree, x) == Linear(side(tree).constant, side(tree).coefficients,
                                    Atoms(x, groups, bits), bits)
           attempted == /\ Attempts(source, rewrite, bits) /\ staged(source) /\ staged(rewrite)
           agree == \A x \in Words(bits) : value(source, x) = value(rewrite, x)
           equal == Equivalent(source, rewrite, LeafNames(source), bits)
<1>1. verdict = IF ~ attempted THEN "unknown" ELSE IF agree THEN "proved" ELSE "refuted"
  BY DEF ProveWidthEquivalent
<1>2. ASSUME attempted PROVE agree <=> equal
  <2>1. /\ IsLinear(source) /\ IsLinear(rewrite)
        /\ Len(LeafNames(source)) = 1 /\ NamesOf(rewrite) \subseteq NamesOf(source)
    BY <1>2 DEF Attempts, WithinGrammar, NamesOf
  <2>2. ToSet(LeafNames(source)) = {name} /\ NamesOf(source) = {name}
    <3>1. LeafNames(source) \in Seq(Names)
      BY NamesAt
    <3>2. DOMAIN LeafNames(source) = {1}
      BY <2>1, <3>1
    <3> QED BY <3>2 DEF ToSet, NamesOf
  <2>3. groups \in SUBSET (0 .. bits - 1)
    BY DEF GroupsOf, Groups
  <2> DEFINE at(x) == [n \in {name} |-> x]
  <2>4. ASSUME NEW x \in Words(bits)
        PROVE  /\ Evaluate(source, at(x), bits) = value(source, x)
               /\ Evaluate(rewrite, at(x), bits) = value(rewrite, x)
    <3>1. NamesOf(source) \subseteq {name} /\ NamesOf(rewrite) \subseteq {name}
      BY <2>1, <2>2
    <3>2. Evaluate(source, at(x), bits) = value(source, x)
      <4>1. StagesHold(source, name, groups, bits)
        BY <1>2 DEF SideOf, StagesHold
      <4>2. value(source, x) = NormalValue(source, groups, bits, x)
        BY DEF SideOf, NormalValue
      <4>3. at(x) = OneLeaf(name, x)
        BY DEF OneLeaf
      <4> HIDE DEF at, verdict, name, groups, side, staged, value, attempted, agree, equal
      <4> QED BY <2>1, <2>3, <3>1, <4>1, <4>2, <4>3, StagesDecide
    <3>3. Evaluate(rewrite, at(x), bits) = value(rewrite, x)
      <4>1. StagesHold(rewrite, name, groups, bits)
        BY <1>2 DEF SideOf, StagesHold
      <4>2. value(rewrite, x) = NormalValue(rewrite, groups, bits, x)
        BY DEF SideOf, NormalValue
      <4>3. at(x) = OneLeaf(name, x)
        BY DEF OneLeaf
      <4> HIDE DEF at, verdict, name, groups, side, staged, value, attempted, agree, equal
      <4> QED BY <2>1, <2>3, <3>1, <4>1, <4>2, <4>3, StagesDecide
    <3> QED BY <3>2, <3>3
  <2>5. equal <=> \A x \in Words(bits) : Evaluate(source, at(x), bits) = Evaluate(rewrite, at(x), bits)
    <3>1. equal <=> \A values \in [{name} -> Words(bits)] :
                        Evaluate(source, values, bits) = Evaluate(rewrite, values, bits)
      BY <2>2 DEF Equivalent
    <3>2. \A x \in Words(bits) : at(x) \in [{name} -> Words(bits)]
      OBVIOUS
    <3>3. \A values \in [{name} -> Words(bits)] :
              values[name] \in Words(bits) /\ values = at(values[name])
      OBVIOUS
    <3> HIDE DEF equal, name, at
    <3> QED BY <3>1, <3>2, <3>3
  <2> HIDE DEF equal, value, at
  <2> QED BY <2>4, <2>5
<1> HIDE DEF attempted, agree, equal
<1>3. /\ verdict \in {"proved", "refuted", "unknown"}
      /\ verdict = "proved" => equal
      /\ verdict = "refuted" => ~ equal
  BY <1>1, <1>2
<1> QED BY <1>3 DEF equal

(* The staged proof loses nothing it attempts: at every width, for any two *)
(* trees within the grammar and the budgets of prove_width_equivalent, it  *)
(* says proved when the rewrite is equal to the source on every word, and  *)
(* refuted when it is not.  Only the grammar and the budgets abstain.      *)
THEOREM WidthVerdictComplete ==
    ASSUME NEW bits \in Nat \ {0}, NEW source \in Trees, NEW rewrite \in Trees,
           Attempts(source, rewrite, bits)
    PROVE  ProveWidthEquivalent(source, rewrite, bits)
             = IF Equivalent(source, rewrite, LeafNames(source), bits) THEN "proved" ELSE "refuted"
<1> DEFINE verdict == ProveWidthEquivalent(source, rewrite, bits)
           name == LeafNames(source)[1]
           constants == Constants(source) \cup Constants(rewrite)
           groups == GroupsOf(source, rewrite, bits)
<1>1. /\ IsLinear(source) /\ IsLinear(rewrite)
      /\ Len(LeafNames(source)) = 1 /\ NamesOf(rewrite) \subseteq NamesOf(source)
  BY DEF Attempts, WithinGrammar, NamesOf
<1>2. NamesOf(source) = {name}
  <2>1. LeafNames(source) \in Seq(Names)
    BY NamesAt
  <2>2. DOMAIN LeafNames(source) = {1}
    BY <1>1, <2>1
  <2> QED BY <2>2 DEF ToSet, NamesOf
<1>3. groups = Groups(constants, bits)
  BY DEF GroupsOf
<1>4. StagesHold(source, name, groups, bits) /\ StagesHold(rewrite, name, groups, bits)
  <2>1. NamesOf(source) \subseteq {name} /\ NamesOf(rewrite) \subseteq {name}
    BY <1>1, <1>2
  <2>2. Constants(source) \subseteq constants /\ Constants(rewrite) \subseteq constants
    OBVIOUS
  <2> HIDE DEF name, constants, groups
  <2> QED BY <1>1, <1>3, <2>1, <2>2, StagesAlwaysHold
<1>5. verdict # "unknown"
  BY <1>4 DEF ProveWidthEquivalent, StagesHold, SideOf
<1>6. /\ verdict \in {"proved", "refuted", "unknown"}
      /\ verdict = "proved" => Equivalent(source, rewrite, LeafNames(source), bits)
      /\ verdict = "refuted" => ~ Equivalent(source, rewrite, LeafNames(source), bits)
  BY WidthVerdictSound
<1> HIDE DEF verdict
<1>7. verdict = IF Equivalent(source, rewrite, LeafNames(source), bits) THEN "proved" ELSE "refuted"
  BY <1>5, <1>6
<1> QED BY <1>7 DEF verdict

============================================================================
