------------------------- MODULE Expressions_proofs -------------------------
(***************************************************************************)
(* Theorems about expression trees, for every set of operands, every depth *)
(* and every width.                                                        *)
(***************************************************************************)
EXTENDS Expressions, FiniteSetTheorems, WellFoundedInduction, TLAPS

LEMMA LeastNatural ==
    ASSUME NEW S \in SUBSET Nat, S # {}
    PROVE  \E n \in S : \A m \in S : n <= m
<1> DEFINE Below == {pair \in Nat \X Nat : pair[1] < pair[2]}
<1>1. IsWellFoundedOn(Below, Nat)
  BY NatLessThanWellFounded DEF OpToRel
<1>2. \A m, n \in S : <<m, n>> \notin Below => n <= m
  OBVIOUS
<1> HIDE DEF Below
<1>3. PICK n \in S : \A m \in S : <<m, n>> \notin Below
  BY <1>1, WFMin
<1> QED BY <1>2, <1>3

(* Induction over the naturals, with a set for the predicate.              *)
LEMMA Induction ==
    ASSUME NEW S, 0 \in S, \A n \in Nat : n \in S => n + 1 \in S
    PROVE  Nat \subseteq S
<1> SUFFICES ASSUME Nat \ S # {} PROVE FALSE
  OBVIOUS
<1>1. PICK n \in Nat \ S : \A m \in Nat \ S : n <= m
  BY LeastNatural
<1>2. n # 0 /\ n - 1 \in Nat /\ ~(n <= n - 1) /\ (n - 1) + 1 = n
  BY <1>1
<1>3. n - 1 \in S
  BY <1>1, <1>2
<1> QED BY <1>1, <1>2, <1>3

-----------------------------------------------------------------------------
(* The arithmetic of remainders.                                           *)
LEMMA Division ==
    ASSUME NEW a \in Int, NEW m \in Nat \ {0}
    PROVE  /\ a \div m \in Int /\ a % m \in 0 .. m - 1
           /\ a = (a \div m) * m + (a % m)
  OBVIOUS
LEMMA Distribute ==
    ASSUME NEW a \in Int, NEW b \in Int, NEW c \in Int
    PROVE /\ (a + b) * c = a * c + b * c
          /\ (a - b) * c = a * c - b * c
          /\ c * (a + b) = c * a + c * b
          /\ a * b = b * a
          /\ (a * b) * c = a * (b * c)
          /\ (-a) * b = -(a * b)
          /\ a * b \in Int
 OBVIOUS
LEMMA AtLeast ==
    ASSUME NEW q \in Int, NEW m \in Nat \ {0}, q >= 1
    PROVE  q * m >= m
<1>1. q - 1 \in Nat /\ (q - 1) * m \in Nat
  OBVIOUS
<1>2. q * m = (q - 1) * m + m
  OBVIOUS
<1> QED BY <1>1, <1>2
LEMMA Remainder ==
    ASSUME NEW m \in Nat \ {0}, NEW q \in Int, NEW r \in 0 .. m - 1
    PROVE  (q * m + r) % m = r
<1> DEFINE a == q * m + r
<1>1. a \in Int /\ q * m \in Int
  OBVIOUS
<1> HIDE DEF a
<1>2. a = (a \div m) * m + (a % m) /\ a \div m \in Int /\ a % m \in 0 .. m - 1 /\ (a \div m) * m \in Int
  BY <1>1, Division
<1> DEFINE p == a \div m
           s == a % m
<1>3. p \in Int /\ s \in 0 .. m - 1 /\ p * m \in Int /\ a = p * m + s
  BY <1>2
<1> HIDE DEF p, s
<1>a. (p - q) * m = p * m - q * m /\ (q - p) * m = q * m - p * m
  BY <1>3, Distribute
<1>b. p * m - q * m = r - s
  BY <1>1, <1>3 DEF a
<1>4. CASE p - q >= 1
  <2>1. (p - q) * m >= m
    BY <1>3, <1>4, AtLeast
  <2> QED BY <1>3, <1>a, <1>b, <2>1
<1>5. CASE q - p >= 1
  <2>1. (q - p) * m >= m
    BY <1>3, <1>5, AtLeast
  <2> QED BY <1>3, <1>a, <1>b, <2>1
<1>6. CASE p = q
  <2>1. s = r
    BY <1>1, <1>3, <1>6, <1>b
  <2> QED BY <2>1 DEF s, a
<1> QED BY <1>3, <1>4, <1>5, <1>6
LEMMA Shift ==
    \A m \in Nat \ {0}, a, k \in Int : (a + k * m) % m = a % m
<1> TAKE m \in Nat \ {0}, a, k \in Int
<1> DEFINE q == a \div m
           r == a % m
<1>1. q \in Int /\ r \in 0 .. m - 1 /\ a = q * m + r /\ q * m \in Int /\ k * m \in Int
  BY Division
<1> HIDE DEF q, r
<1>2. (q + k) * m = q * m + k * m
  BY <1>1, Distribute
<1>3. a + k * m = (q + k) * m + r
  BY <1>1, <1>2
<1>4. ((q + k) * m + r) % m = r
  BY <1>1, Remainder
<1> QED BY <1>3, <1>4 DEF r
LEMMA Same ==
    \A m \in Nat \ {0}, x, y, k \in Int : x = y + k * m => y % m = x % m
  BY Shift
LEMMA Congruence ==
    \A m \in Nat \ {0}, a, b \in Int :
           /\ (a % m) % m = a % m
           /\ ((a % m) + b) % m = (a + b) % m
           /\ (a + (b % m)) % m = (a + b) % m
           /\ ((a % m) - b) % m = (a - b) % m
           /\ (a - (b % m)) % m = (a - b) % m
           /\ (-(a % m)) % m = (-a) % m
           /\ ((a % m) * b) % m = (a * b) % m
           /\ (a * (b % m)) % m = (a * b) % m
<1> TAKE m \in Nat \ {0}, a, b \in Int
<1> DEFINE p == a \div m
           r == a % m
           q == b \div m
           s == b % m
<1>1. p \in Int /\ r \in 0 .. m - 1 /\ a = p * m + r /\ p * m \in Int /\ r \in Int
      /\ q \in Int /\ s \in 0 .. m - 1 /\ b = q * m + s /\ q * m \in Int /\ s \in Int
  BY Division
<1>t. p \in Int /\ q \in Int
  BY Division
<1> HIDE DEF p, r, q, s
<1>2. (r + b) % m = (a + b) % m
  <2>1. a + b = (r + b) + p * m
    BY <1>1
  <2>2. a + b \in Int /\ (r + b) \in Int
    BY <1>1
  <2> QED BY <1>t, <2>1, <2>2, Same, Zenon
<1>3. (a + s) % m = (a + b) % m
  <2>1. a + b = (a + s) + q * m
    BY <1>1
  <2>2. a + b \in Int /\ (a + s) \in Int
    BY <1>1
  <2> QED BY <1>t, <2>1, <2>2, Same, Zenon
<1>4. (r - b) % m = (a - b) % m
  <2>1. a - b = (r - b) + p * m
    BY <1>1
  <2>2. a - b \in Int /\ (r - b) \in Int
    BY <1>1
  <2> QED BY <1>t, <2>1, <2>2, Same, Zenon
<1>5. (a - s) % m = (a - b) % m
  <2>1. a - s = (a - b) + q * m
    BY <1>1
  <2>2. a - s \in Int /\ (a - b) \in Int
    BY <1>1
  <2> QED BY <1>t, <2>1, <2>2, Same, Zenon
<1>6. (-a) % m = (-r) % m
  <2>1. -r = (-a) + p * m
    BY <1>1
  <2>2. -r \in Int /\ (-a) \in Int
    BY <1>1
  <2> QED BY <1>t, <2>1, <2>2, Same, Zenon
<1>7. (r * b) % m = (a * b) % m
  <2>1. a * b = r * b + (p * b) * m
    <3>1. (p * m + r) * b = (p * m) * b + r * b
      BY <1>1, Distribute
    <3>2. (p * m) * b = p * (m * b) /\ (p * b) * m = p * (b * m) /\ m * b = b * m
      BY <1>1, Distribute
    <3>3. r * b \in Int /\ (p * b) * m \in Int
      BY <1>1
    <3> QED BY <1>1, <3>1, <3>2, <3>3
  <2>2. a * b \in Int /\ r * b \in Int /\ p * b \in Int
    BY <1>1
  <2> QED BY <1>t, <2>1, <2>2, Same, Zenon
<1>8. (a * s) % m = (a * b) % m
  <2>1. a * b = a * s + (a * q) * m
    <3>1. a * (q * m + s) = a * (q * m) + a * s
      BY <1>1, Distribute
    <3>2. (a * q) * m = a * (q * m)
      BY <1>1, Distribute
    <3>3. a * s \in Int /\ (a * q) * m \in Int
      BY <1>1
    <3> QED BY <1>1, <3>1, <3>2, <3>3
  <2>2. a * b \in Int /\ a * s \in Int /\ a * q \in Int
    BY <1>1
  <2> QED BY <1>t, <2>1, <2>2, Same, Zenon
<1>9. r % m = r
  BY <1>1
<1> QED BY <1>2, <1>3, <1>4, <1>5, <1>6, <1>7, <1>8, <1>9 DEF r, s

LEMMA SumsCongruent ==
    \A m \in Nat \ {0}, a, b, c, d \in Int :
        a % m = c % m /\ b % m = d % m => (a + b) % m = (c + d) % m
<1> TAKE m \in Nat \ {0}, a, b, c, d \in Int
<1> HAVE a % m = c % m /\ b % m = d % m
<1> DEFINE r == b % m
<1>1. r \in Int
  BY Division
<1>2. (a + (b % m)) % m = (a + b) % m /\ (c + (d % m)) % m = (c + d) % m
  BY Congruence, Zenon
<1> HIDE DEF r
<1>3. (a + r) % m = (c + r) % m
  <2>1. ((a % m) + r) % m = (a + r) % m /\ ((c % m) + r) % m = (c + r) % m
    BY <1>1, Congruence, Zenon
  <2> QED BY <2>1
<1>4. r = b % m /\ r = d % m
  BY DEF r
<1> QED BY <1>2, <1>3, <1>4

-----------------------------------------------------------------------------
(* TwoTo is what its definition by recursion says.                         *)
LEMMA PowerUnfold ==
    ASSUME NEW n \in Nat
    PROVE  \E power : /\ power[0] = 1 /\ \A i \in 1 .. n : power[i] = 2 * power[i - 1]
                      /\ TwoTo(n) = power[n]
<1> DEFINE Body(p, i) == IF i = 0 THEN 1 ELSE 2 * p[i - 1]
           power == CHOOSE p : p = [i \in 0 .. n |-> Body(p, i)]
           Correct(p, k) == \A i \in 0 .. n : i <= k => p[i] = Body(p, i)
           Solved == {k \in Nat : \E p \in [0 .. n -> Nat \ {0}] : Correct(p, k)}
<1>1. \E p : p = [i \in 0 .. n |-> Body(p, i)]
  <2>1. 0 \in Solved
    <3> DEFINE p == [i \in 0 .. n |-> 1]
    <3>1. p \in [0 .. n -> Nat \ {0}] /\ Correct(p, 0)
      OBVIOUS
    <3> HIDE DEF p, Correct
    <3> QED BY <3>1
  <2>2. ASSUME NEW k \in Nat, k \in Solved PROVE k + 1 \in Solved
    <3>1. PICK p \in [0 .. n -> Nat \ {0}] : Correct(p, k)
      BY <2>2
    <3> DEFINE q == [i \in 0 .. n |-> Body(p, i)]
    <3>2. q \in [0 .. n -> Nat \ {0}]
      OBVIOUS
    <3>3. ASSUME NEW i \in 0 .. n, i <= k + 1 PROVE q[i] = Body(q, i)
      <4>1. CASE i = 0
        BY <4>1
      <4>2. CASE i # 0
        <5>1. i - 1 \in 0 .. n /\ i - 1 <= k
          BY <3>3, <4>2
        <5> QED BY <3>1, <4>2, <5>1
      <4> QED BY <4>1, <4>2
    <3>4. Correct(q, k + 1)
      BY <3>3
    <3> HIDE DEF q, Correct
    <3>5. \E r \in [0 .. n -> Nat \ {0}] : Correct(r, k + 1)
      BY <3>2, <3>4, Zenon
    <3>6. k + 1 \in Nat
      OBVIOUS
    <3> QED BY <3>5, <3>6
  <2> HIDE DEF Solved
  <2>3. n \in Solved
    BY <2>1, <2>2, Induction
  <2>4. PICK p \in [0 .. n -> Nat \ {0}] : \A i \in 0 .. n : p[i] = Body(p, i)
    BY <2>3 DEF Solved
  <2>5. p = [i \in 0 .. n |-> Body(p, i)]
    BY <2>4
  <2> QED BY <2>5
<1>2. power = [i \in 0 .. n |-> Body(power, i)]
  BY <1>1
<1> HIDE DEF power
<1>3. power[0] = 1 /\ \A i \in 1 .. n : power[i] = 2 * power[i - 1]
  BY <1>2
<1>4. TwoTo(n) = power[n]
  BY DEF TwoTo, power
<1> QED BY <1>3, <1>4

(* A power of two is not zero.                                             *)
LEMMA PowerOfTwo ==
    ASSUME NEW n \in Nat
    PROVE  TwoTo(n) \in Nat \ {0}
<1>1. PICK power : /\ power[0] = 1 /\ \A i \in 1 .. n : power[i] = 2 * power[i - 1]
                   /\ TwoTo(n) = power[n]
  BY PowerUnfold
<1> DEFINE Positive == {k \in Nat : k <= n => power[k] \in Nat \ {0}}
<1>2. 0 \in Positive
  BY <1>1
<1>3. ASSUME NEW k \in Nat, k \in Positive PROVE k + 1 \in Positive
  BY <1>1, <1>3
<1>4. n \in Positive
  <2> HIDE DEF Positive
  <2> QED BY <1>2, <1>3, Induction
<1> QED BY <1>1, <1>4

(* The first power of two, and each from the one before.                   *)
LEMMA TwoToAt ==
    /\ TwoTo(0) = 1
    /\ \A n \in Nat : TwoTo(n) \in Nat \ {0} /\ TwoTo(n + 1) = 2 * TwoTo(n)
<1>1. TwoTo(0) = 1
  BY PowerUnfold
<1>2. ASSUME NEW n \in Nat PROVE TwoTo(n + 1) = 2 * TwoTo(n)
  <2>1. PICK p : p[0] = 1 /\ (\A i \in 1 .. n : p[i] = 2 * p[i - 1]) /\ TwoTo(n) = p[n]
    BY PowerUnfold
  <2>2. PICK q : q[0] = 1 /\ (\A i \in 1 .. n + 1 : q[i] = 2 * q[i - 1]) /\ TwoTo(n + 1) = q[n + 1]
    <3>1. n + 1 \in Nat
      OBVIOUS
    <3> QED BY <3>1, PowerUnfold
  <2> DEFINE Same0 == {k \in Nat : k <= n => p[k] = q[k]}
  <2>3. 0 \in Same0
    BY <2>1, <2>2
  <2>4. ASSUME NEW k \in Nat, k \in Same0 PROVE k + 1 \in Same0
    BY <2>1, <2>2, <2>4
  <2>5. n \in Same0
    <3> HIDE DEF Same0
    <3> QED BY <2>3, <2>4, Induction
  <2> QED BY <2>1, <2>2, <2>5
<1> QED BY <1>1, <1>2, PowerOfTwo

(* Powers of two multiply.                                                 *)
LEMMA TwoToProduct ==
    \A m, n \in Nat : TwoTo(m + n) = TwoTo(m) * TwoTo(n)
<1> SUFFICES ASSUME NEW m \in Nat PROVE \A n \in Nat : TwoTo(m + n) = TwoTo(m) * TwoTo(n)
  OBVIOUS
<1> DEFINE Good == {n \in Nat : TwoTo(m + n) = TwoTo(m) * TwoTo(n)}
<1>1. 0 \in Good
  BY TwoToAt
<1>2. ASSUME NEW n \in Nat, n \in Good PROVE n + 1 \in Good
  <2>1. TwoTo(m + n) = TwoTo(m) * TwoTo(n)
    BY <1>2
  <2>2. TwoTo((m + n) + 1) = 2 * TwoTo(m + n) /\ TwoTo(n + 1) = 2 * TwoTo(n)
        /\ TwoTo(m) \in Nat /\ TwoTo(n) \in Nat
    BY TwoToAt
  <2>3. (m + n) + 1 = m + (n + 1)
    OBVIOUS
  <2> DEFINE a == TwoTo(m)
             b == TwoTo(n)
  <2>4. 2 * (a * b) = a * (2 * b)
    <3> HIDE DEF a, b
    <3>1. \A u, v \in Int : 2 * (u * v) = u * (2 * v)
      OBVIOUS
    <3> QED BY <2>2, <3>1 DEF a, b
  <2> QED BY <2>1, <2>2, <2>3, <2>4
<1>3. Nat \subseteq Good
  <2> HIDE DEF Good
  <2> QED BY <1>1, <1>2, Induction
<1> QED BY <1>3

-----------------------------------------------------------------------------
(* The trees of each depth, and those of any.                              *)
LEMMA TreesToUnfold ==
    /\ TreesTo[0] = Leaves
    /\ \A d \in 1 .. TreeDepth : TreesTo[d] = Leaves \cup Nodes(TreesTo[d - 1])
<1> DEFINE Depths == 0 .. TreeDepth
           Body(p, d) == IF d = 0 THEN Leaves ELSE Leaves \cup Nodes(p[d - 1])
           Correct(p, k) == \A d \in Depths : d <= k => p[d] = Body(p, d)
           Solved == {k \in Nat : \E p : Correct(p, k)}
<1>1. 0 \in Solved
  <2> DEFINE p == [d \in Depths |-> Leaves]
  <2>1. Correct(p, 0)
    BY TreeDepthAssumption
  <2> HIDE DEF p, Correct
  <2> QED BY <2>1
<1>2. ASSUME NEW k \in Nat, k \in Solved PROVE k + 1 \in Solved
  <2>1. PICK p : Correct(p, k)
    BY <1>2
  <2> DEFINE q == [d \in Depths |-> Body(p, d)]
  <2>2. ASSUME NEW d \in Depths, d <= k + 1 PROVE q[d] = Body(q, d)
    <3>1. CASE d = 0
      BY <3>1
    <3>2. CASE d # 0
      <4>1. d - 1 \in Depths /\ d - 1 <= k
        BY <2>2, <3>2, TreeDepthAssumption
      <4>2. q[d - 1] = p[d - 1]
        BY <2>1, <4>1
      <4> QED BY <3>2, <4>1, <4>2
    <3> QED BY <3>1, <3>2
  <2>3. Correct(q, k + 1)
    BY <2>2
  <2> HIDE DEF q, Correct
  <2>4. k + 1 \in Nat /\ \E r : Correct(r, k + 1)
    BY <2>3
  <2> QED BY <2>4
<1>3. TreeDepth \in Solved
  <2> HIDE DEF Solved
  <2> QED BY <1>1, <1>2, Induction, TreeDepthAssumption
<1>4. PICK p : \A d \in Depths : p[d] = Body(p, d)
  <2>1. PICK p : Correct(p, TreeDepth)
    BY <1>3
  <2>2. \A d \in Depths : d <= TreeDepth
    BY TreeDepthAssumption
  <2>3. \A d \in Depths : p[d] = Body(p, d)
    BY <2>1, <2>2, Zenon
  <2> QED BY <2>3, Zenon
<1>5. \E q : q = [d \in Depths |-> Body(q, d)]
  <2> DEFINE q == [d \in Depths |-> p[d]]
  <2>1. ASSUME NEW d \in Depths PROVE q[d] = Body(q, d)
    <3>1. CASE d = 0
      BY <1>4, <3>1
    <3>2. CASE d # 0
      <4>1. d - 1 \in Depths
        BY <3>2, TreeDepthAssumption
      <4> QED BY <1>4, <3>2, <4>1
    <3> QED BY <3>1, <3>2
  <2>2. q = [d \in Depths |-> Body(q, d)]
    BY <2>1
  <2> HIDE DEF q
  <2> QED BY <2>2
<1>6. TreesTo = [d \in Depths |-> Body(TreesTo, d)]
  BY <1>5 DEF TreesTo
<1>7. 0 \in Depths /\ \A d \in 1 .. TreeDepth : d \in Depths /\ d # 0
  BY TreeDepthAssumption
<1> HIDE DEF Depths
<1>8. \A d \in Depths : TreesTo[d] = Body(TreesTo, d)
  BY <1>6, Zenon
<1> QED BY <1>7, <1>8

(* What a tree is made of.                                                 *)
Kids(t) == IF t.kind = "un" THEN {t.a} ELSE IF t.kind = "bin" THEN {t.a, t.b} ELSE {}

LEMMA NodesFacts ==
    /\ \A t \in Leaves : Kids(t) = {}
    /\ \A trees : \A t \in Nodes(trees) : Kids(t) \subseteq trees
    /\ \A smaller, larger : smaller \subseteq larger => Nodes(smaller) \subseteq Nodes(larger)
  BY DEF Kids, Leaves, Nodes

LEMMA Deeper ==
    \A d \in 1 .. TreeDepth : TreesTo[d - 1] \subseteq TreesTo[d]
<1> DEFINE Grows == {d \in Nat : d + 1 \in 1 .. TreeDepth => TreesTo[d] \subseteq TreesTo[d + 1]}
<1>1. 0 \in Grows
  <2>1. 0 + 1 = 1 /\ 1 - 1 = 0
    OBVIOUS
  <2> QED BY <2>1, TreesToUnfold
<1>2. ASSUME NEW d \in Nat, d \in Grows PROVE d + 1 \in Grows
  <2>1. CASE (d + 1) + 1 \in 1 .. TreeDepth
    <3>1. d + 1 \in 1 .. TreeDepth /\ (d + 1) - 1 = d /\ ((d + 1) + 1) - 1 = d + 1
      BY <2>1, TreeDepthAssumption
    <3>2. TreesTo[d] \subseteq TreesTo[d + 1]
      BY <1>2, <3>1
    <3>3. TreesTo[d + 1] = Leaves \cup Nodes(TreesTo[d])
      BY <3>1, TreesToUnfold
    <3>4. TreesTo[(d + 1) + 1] = Leaves \cup Nodes(TreesTo[d + 1])
      BY <2>1, <3>1, TreesToUnfold
    <3>5. Nodes(TreesTo[d]) \subseteq Nodes(TreesTo[d + 1])
      BY <3>2, NodesFacts
    <3> QED BY <3>3, <3>4, <3>5
  <2>2. CASE (d + 1) + 1 \notin 1 .. TreeDepth
    BY <2>2
  <2> QED BY <2>1, <2>2
<1>3. Nat \subseteq Grows
  <2> HIDE DEF Grows
  <2> QED BY <1>1, <1>2, Induction
<1>4. ASSUME NEW d \in 1 .. TreeDepth PROVE TreesTo[d - 1] \subseteq TreesTo[d]
  <2>1. d - 1 \in Nat /\ (d - 1) + 1 = d
    BY TreeDepthAssumption
  <2> QED BY <1>3, <2>1
<1> QED BY <1>4

(* The trees of at most a depth, and how they are reached from below.      *)
Layer(d) == IF d <= TreeDepth THEN TreesTo[d] ELSE Trees

LEMMA LayersAreTrees == \A d \in Nat : Layer(d) \subseteq Trees
<1> DEFINE Down == {n \in Nat : n <= TreeDepth => TreesTo[TreeDepth - n] \subseteq Trees}
<1>1. 0 \in Down
  BY TreeDepthAssumption DEF Trees
<1>2. ASSUME NEW n \in Nat, n \in Down PROVE n + 1 \in Down
  <2>1. CASE n + 1 <= TreeDepth
    <3>1. n <= TreeDepth /\ TreeDepth - n \in 1 .. TreeDepth
          /\ TreeDepth - (n + 1) = (TreeDepth - n) - 1
      BY <2>1, TreeDepthAssumption
    <3> QED BY <1>2, <3>1, Deeper
  <2> QED BY <2>1
<1>3. Nat \subseteq Down
  <2> HIDE DEF Down
  <2> QED BY <1>1, <1>2, Induction
<1>4. ASSUME NEW d \in Nat, d <= TreeDepth PROVE TreesTo[d] \subseteq Trees
  <2>1. TreeDepth - d \in Nat /\ TreeDepth - d <= TreeDepth /\ TreeDepth - (TreeDepth - d) = d
    BY <1>4, TreeDepthAssumption
  <2>2. TreeDepth - d \in Down
    BY <1>3, <2>1
  <2> QED BY <2>1, <2>2
<1> QED BY <1>4 DEF Layer

LEMMA Layers ==
    /\ Layer(TreeDepth) = Trees
    /\ \A t \in Layer(0) : t \in Leaves
    /\ \A d \in Nat : \A t \in Layer(d + 1) : t \in Leaves \/ t \in Nodes(Layer(d))
    /\ \A d \in Nat : d + 1 <= TreeDepth => Layer(d + 1) = Leaves \cup Nodes(Layer(d))
    /\ \A d \in Nat : Leaves \subseteq Layer(d)
<1>0. TreeDepth \in Nat /\ TreeDepth <= TreeDepth
  BY TreeDepthAssumption
<1>1. Layer(TreeDepth) = Trees
  BY <1>0 DEF Layer, Trees
<1>2. Layer(0) = Leaves
  BY TreesToUnfold, TreeDepthAssumption DEF Layer
<1>3. ASSUME NEW d \in Nat, d + 1 <= TreeDepth PROVE Layer(d + 1) = Leaves \cup Nodes(Layer(d))
  <2>1. d + 1 \in 1 .. TreeDepth /\ (d + 1) - 1 = d /\ d <= TreeDepth
    BY <1>3, TreeDepthAssumption
  <2> QED BY <2>1, TreesToUnfold DEF Layer
<1>4. \A t \in Trees : t \in Leaves \/ t \in Nodes(Trees)
  <2>1. CASE TreeDepth = 0
    BY <1>1, <1>2, <2>1
  <2>2. CASE TreeDepth # 0
    <3>1. TreeDepth - 1 \in Nat /\ (TreeDepth - 1) + 1 = TreeDepth
      BY <2>2, TreeDepthAssumption
    <3>2. Trees = Leaves \cup Nodes(Layer(TreeDepth - 1))
      BY <1>0, <1>1, <1>3, <3>1
    <3>3. Layer(TreeDepth - 1) \subseteq Trees
      BY <3>1, LayersAreTrees
    <3> QED BY <3>2, <3>3, NodesFacts
  <2> QED BY <2>1, <2>2
<1>5. ASSUME NEW d \in Nat, ~(d + 1 <= TreeDepth)
      PROVE  Layer(d + 1) = Trees /\ Layer(d) = Trees
  <2>1. CASE d <= TreeDepth
    <3>1. d = TreeDepth
      BY <1>5, <2>1, TreeDepthAssumption
    <3> QED BY <1>1, <1>5, <3>1 DEF Layer
  <2>2. CASE ~(d <= TreeDepth)
    BY <1>5, <2>2 DEF Layer
  <2> QED BY <2>1, <2>2
<1>6. \A d \in Nat : \A t \in Layer(d + 1) : t \in Leaves \/ t \in Nodes(Layer(d))
  BY <1>3, <1>4, <1>5
<1>7. ASSUME NEW d \in Nat PROVE Leaves \subseteq Layer(d)
  <2>1. Leaves \subseteq Trees
    <3>1. CASE TreeDepth = 0
      BY <1>1, <1>2, <3>1
    <3>2. CASE TreeDepth # 0
      <4>1. TreeDepth - 1 \in Nat /\ (TreeDepth - 1) + 1 = TreeDepth
        BY <3>2, TreeDepthAssumption
      <4> QED BY <1>0, <1>1, <1>3, <4>1
    <3> QED BY <3>1, <3>2
  <2>2. CASE d = 0
    BY <1>2, <2>2
  <2>3. CASE d # 0 /\ d <= TreeDepth
    <3>1. d - 1 \in Nat /\ (d - 1) + 1 = d
      BY <2>3
    <3> QED BY <1>3, <2>3, <3>1
  <2>4. CASE ~(d <= TreeDepth)
    BY <2>1, <2>4 DEF Layer
  <2> QED BY <2>2, <2>3, <2>4
<1> QED BY <1>1, <1>2, <1>3, <1>6, <1>7

LEMMA LayerKids ==
    /\ \A t \in Layer(0) : t \in Trees /\ Kids(t) = {}
    /\ \A d \in Nat : \A t \in Layer(d + 1) : t \in Trees /\ Kids(t) \subseteq Layer(d)
    /\ \A t \in Trees : Kids(t) \subseteq Trees
<1>1. \A d \in Nat : d + 1 \in Nat /\ 0 \in Nat
  OBVIOUS
<1>2. \A d \in Nat : \A t \in Layer(d + 1) : Kids(t) \subseteq Layer(d)
  BY Layers, NodesFacts
<1>3. \A t \in Trees : Kids(t) \subseteq Trees
  <2>1. CASE TreeDepth = 0
    BY <2>1, Layers, NodesFacts
  <2>2. CASE TreeDepth # 0
    <3>1. TreeDepth - 1 \in Nat /\ (TreeDepth - 1) + 1 = TreeDepth
      BY <2>2, TreeDepthAssumption
    <3>2. \A t \in Trees : Kids(t) \subseteq Layer(TreeDepth - 1)
      BY <1>2, <3>1, Layers
    <3> QED BY <3>1, <3>2, LayersAreTrees
  <2> QED BY <2>1, <2>2
<1> QED BY <1>1, <1>2, <1>3, Layers, LayersAreTrees, NodesFacts

(* The four kinds of tree.                                                 *)
IsConst(t) == t.kind = "const" /\ t.value \in Nat /\ Kids(t) = {}
IsVar(t) == t.kind = "var" /\ t.name \in Names /\ Kids(t) = {}
IsUn(t) == t.kind = "un" /\ t.op \in {"-", "~"} /\ t.a \in Trees /\ Kids(t) = {t.a}
IsBin(t) == /\ t.kind = "bin" /\ t.op \in {"+", "-", "*", "&", "|", "^"}
            /\ t.a \in Trees /\ t.b \in Trees /\ Kids(t) = {t.a, t.b}

LEMMA TreeShape == \A t \in Trees : IsConst(t) \/ IsVar(t) \/ IsUn(t) \/ IsBin(t)
<1> SUFFICES ASSUME NEW t \in Trees PROVE IsConst(t) \/ IsVar(t) \/ IsUn(t) \/ IsBin(t)
  OBVIOUS
<1>1. CASE t \in Leaves
  BY <1>1 DEF Leaves, Kids, IsConst, IsVar
<1>2. CASE t \notin Leaves
  <2>1. Kids(t) \subseteq Trees
    BY LayerKids
  <2>2. PICK trees : t \in Nodes(trees)
    <3>1. CASE TreeDepth = 0
      BY <1>2, <3>1, Layers
    <3>2. CASE TreeDepth # 0
      <4>1. TreeDepth - 1 \in Nat /\ (TreeDepth - 1) + 1 = TreeDepth
        BY <3>2, TreeDepthAssumption
      <4> QED BY <1>2, <4>1, Layers
    <3> QED BY <3>1, <3>2
  <2> QED BY <2>1, <2>2 DEF Nodes, Kids, IsUn, IsBin
<1> QED BY <1>1, <1>2

(* Induction over trees: what passes from the kids to their node holds of  *)
(* every tree.                                                             *)
LEMMA TreeInduction ==
    ASSUME NEW S, \A t \in Trees : Kids(t) \subseteq S => t \in S
    PROVE  Trees \subseteq S
<1> DEFINE Upto == {d \in Nat : Layer(d) \subseteq S}
<1>1. 0 \in Upto
  BY LayerKids
<1>2. ASSUME NEW d \in Nat, d \in Upto PROVE d + 1 \in Upto
  <2>1. d + 1 \in Nat /\ Layer(d + 1) \subseteq S
    BY <1>2, LayerKids
  <2> QED BY <2>1
<1>3. TreeDepth \in Upto
  <2> HIDE DEF Upto
  <2> QED BY <1>1, <1>2, Induction, TreeDepthAssumption
<1> QED BY <1>3, Layers

(* Recursion over trees: an equation that gives a tree's value in terms of *)
(* its kids' values has a solution.                                        *)
LEMMA TreeRecursion ==
    ASSUME NEW V, V # {}, NEW F \in [[Trees -> V] -> [Trees -> V]],
           \A g, h \in [Trees -> V], t \in Trees :
                (\A kid \in Kids(t) : g[kid] = h[kid]) => F[g][t] = F[h][t]
    PROVE  \E f \in [Trees -> V] : f = F[f]
<1> DEFINE Agrees(f, d) == \A t \in Layer(d) : f[t] = F[f][t]
           Solved == {d \in Nat : \E f \in [Trees -> V] : Agrees(f, d)}
<1>1. 0 \in Solved
  <2>1. PICK v \in V : TRUE
    OBVIOUS
  <2> DEFINE f == F[[t \in Trees |-> v]]
  <2>2. [t \in Trees |-> v] \in [Trees -> V]
    OBVIOUS
  <2>3. f \in [Trees -> V]
    BY <2>2
  <2>4. Agrees(f, 0)
    BY <2>2, <2>3, LayerKids
  <2> HIDE DEF f, Agrees
  <2>5. \E r \in [Trees -> V] : Agrees(r, 0)
    BY <2>3, <2>4, Zenon
  <2> QED BY <2>5
<1>2. ASSUME NEW d \in Nat, d \in Solved PROVE d + 1 \in Solved
  <2>1. PICK f \in [Trees -> V] : Agrees(f, d)
    BY <1>2
  <2> DEFINE g == F[f]
  <2>2. g \in [Trees -> V]
    OBVIOUS
  <2>3. ASSUME NEW t \in Layer(d + 1) PROVE g[t] = F[g][t]
    <3>1. t \in Trees /\ Kids(t) \subseteq Layer(d)
      BY LayerKids
    <3>2. \A kid \in Kids(t) : g[kid] = f[kid]
      BY <2>1, <3>1
    <3> QED BY <2>2, <3>1, <3>2
  <2>4. Agrees(g, d + 1)
    BY <2>3
  <2> HIDE DEF g, Agrees
  <2>5. \E r \in [Trees -> V] : Agrees(r, d + 1)
    BY <2>2, <2>4, Zenon
  <2>6. d + 1 \in Nat
    OBVIOUS
  <2> QED BY <2>5, <2>6
<1>3. TreeDepth \in Solved
  <2> HIDE DEF Solved
  <2> QED BY <1>1, <1>2, Induction, TreeDepthAssumption
<1>4. PICK f \in [Trees -> V] : \A t \in Trees : f[t] = F[f][t]
  BY <1>3, Layers
<1>5. F[f] \in [Trees -> V]
  OBVIOUS
<1>6. f = F[f]
  BY <1>4, <1>5
<1> QED BY <1>6

-----------------------------------------------------------------------------
(* Sums of the values of a function.                                       *)
LEMMA SubsetInduction ==
    ASSUME NEW S, IsFiniteSet(S), NEW P, {} \in P,
           \A s \in SUBSET S : s # {} /\ (\A x \in s : s \ {x} \in P) => s \in P
    PROVE  SUBSET S \subseteq P
<1> DEFINE Sized == {n \in Nat : \A s \in SUBSET S : Cardinality(s) = n => s \in P}
<1>1. \A s \in SUBSET S : IsFiniteSet(s) /\ Cardinality(s) \in Nat
  BY FS_Subset, FS_CardinalityType
<1>2. 0 \in Sized
  BY <1>1, FS_EmptySet
<1>3. ASSUME NEW n \in Nat, n \in Sized PROVE n + 1 \in Sized
  <2>1. ASSUME NEW s \in SUBSET S, Cardinality(s) = n + 1 PROVE s \in P
    <3>1. s # {}
      BY <1>1, <2>1, FS_EmptySet
    <3>2. ASSUME NEW x \in s PROVE s \ {x} \in P
      <4>1. Cardinality(s \ {x}) = n
        BY <1>1, <2>1, FS_RemoveElement
      <4> QED BY <1>3, <4>1
    <3> QED BY <3>1, <3>2
  <2> QED BY <2>1
<1>4. Nat \subseteq Sized
  <2> HIDE DEF Sized
  <2> QED BY <1>2, <1>3, Induction
<1> QED BY <1>1, <1>4

(* One term of a sum, and the rest: the order of the terms is the same for *)
(* every function on the set.                                              *)
Picked(s) == CHOOSE x \in s : TRUE
IsSum(f, sum) ==
    /\ SumFunction(f) = sum[DOMAIN f]
    /\ sum[{}] = 0
    /\ \A s \in SUBSET DOMAIN f : s # {} => sum[s] = f[Picked(s)] + sum[s \ {Picked(s)}]

LEMMA PickedFromIt == \A s : s # {} => Picked(s) \in s
  BY DEF Picked

LEMMA SumUnfold ==
    \A f : IsFiniteSet(DOMAIN f) => \E sum : IsSum(f, sum)
<1> SUFFICES ASSUME NEW f, IsFiniteSet(DOMAIN f) PROVE \E sum : IsSum(f, sum)
  OBVIOUS
<1> DEFINE S == DOMAIN f
<1> DEFINE Body(p, s) == IF s = {} THEN 0
                         ELSE LET x == CHOOSE x \in s : TRUE IN f[x] + p[s \ {x}]
           Correct(p, n) == \A s \in SUBSET S : Cardinality(s) <= n => p[s] = Body(p, s)
           Solved == {n \in Nat : \E p : Correct(p, n)}
           sum == CHOOSE p : p = [s \in SUBSET S |-> Body(p, s)]
<1>1. \A s \in SUBSET S : IsFiniteSet(s) /\ Cardinality(s) \in Nat
  BY FS_Subset, FS_CardinalityType
<1>2. 0 \in Solved
  <2> DEFINE p == [s \in SUBSET S |-> 0]
  <2>1. \A s \in SUBSET S : Cardinality(s) <= 0 => s = {}
    BY <1>1, FS_EmptySet
  <2>2. Correct(p, 0)
    BY <2>1
  <2> HIDE DEF p, Correct
  <2> QED BY <2>2
<1>3. ASSUME NEW n \in Nat, n \in Solved PROVE n + 1 \in Solved
  <2>1. PICK p : Correct(p, n)
    BY <1>3
  <2> DEFINE q == [s \in SUBSET S |-> Body(p, s)]
  <2>2. ASSUME NEW s \in SUBSET S, Cardinality(s) <= n + 1 PROVE q[s] = Body(q, s)
    <3>1. CASE s = {}
      BY <3>1
    <3>2. CASE s # {}
      <4> DEFINE x == CHOOSE x \in s : TRUE
      <4>1. x \in s
        BY <3>2
      <4>2. Cardinality(s \ {x}) <= n
        <5> HIDE DEF x
        <5>1. IsFiniteSet(s) /\ Cardinality(s) \in Nat
          BY <1>1
        <5>2. Cardinality(s \ {x}) = Cardinality(s) - 1
          BY <4>1, <5>1, FS_RemoveElement
        <5> QED BY <2>2, <5>1, <5>2
      <4>3. s \ {x} \in SUBSET S
        OBVIOUS
      <4>4. q[s \ {x}] = p[s \ {x}]
        BY <2>1, <4>2, <4>3
      <4> QED BY <3>2, <4>4
    <3> QED BY <3>1, <3>2
  <2>3. Correct(q, n + 1)
    BY <2>2
  <2> HIDE DEF q, Correct
  <2>4. n + 1 \in Nat /\ \E r : Correct(r, n + 1)
    BY <2>3
  <2> QED BY <2>4
<1>4. \E p : p = [s \in SUBSET S |-> Body(p, s)]
  <2>1. Cardinality(S) \in Solved
    <3> HIDE DEF Solved
    <3> QED BY <1>1, <1>2, <1>3, Induction
  <2>2. PICK p : Correct(p, Cardinality(S))
    BY <2>1
  <2>3. \A s \in SUBSET S : Cardinality(s) <= Cardinality(S)
    BY FS_Subset
  <2>4. \A s \in SUBSET S : p[s] = Body(p, s)
    BY <2>2, <2>3, Zenon
  <2> DEFINE q == [s \in SUBSET S |-> p[s]]
  <2>5. ASSUME NEW s \in SUBSET S PROVE q[s] = Body(q, s)
    <3>1. CASE s = {}
      BY <2>4, <3>1
    <3>2. CASE s # {}
      <4>1. (s \ {CHOOSE x \in s : TRUE}) \in SUBSET S
        OBVIOUS
      <4> QED BY <2>4, <3>2, <4>1
    <3> QED BY <3>1, <3>2
  <2>6. q = [s \in SUBSET S |-> Body(q, s)]
    BY <2>5, Zenon
  <2> HIDE DEF q
  <2> QED BY <2>6
<1>5. sum = [s \in SUBSET S |-> Body(sum, s)]
  <2> HIDE DEF Body
  <2> QED BY <1>4
<1>6. SumFunction(f) = sum[S]
  BY DEF SumFunction, SumFunctionOnSet, FoldFunctionOnSet, MapThenFoldSet
<1> HIDE DEF sum
<1>7. {} \in SUBSET S
  OBVIOUS
<1>8. sum[{}] = 0
  BY <1>5, <1>7
<1>9. \A s \in SUBSET S : s # {} => sum[s] = f[Picked(s)] + sum[s \ {Picked(s)}]
  BY <1>5 DEF Picked
<1>10. IsSum(f, sum)
  BY <1>6, <1>8, <1>9 DEF IsSum
<1> QED BY <1>10

LEMMA SumInteger ==
    ASSUME NEW S, IsFiniteSet(S), NEW f \in [S -> Int]
    PROVE  SumFunction(f) \in Int
<1>0. DOMAIN f = S
  OBVIOUS
<1>1. PICK sum : IsSum(f, sum)
  BY <1>0, SumUnfold, Zenon
<1> DEFINE Good == {s \in SUBSET S : sum[s] \in Int}
<1>2. {} \in Good
  BY <1>1 DEF IsSum
<1>3. ASSUME NEW s \in SUBSET S, s # {}, \A x \in s : s \ {x} \in Good PROVE s \in Good
  <2>1. PICK x \in s : sum[s] = f[x] + sum[s \ {x}]
    BY <1>0, <1>1, <1>3, PickedFromIt DEF IsSum
  <2>2. sum[s \ {x}] \in Int /\ f[x] \in Int
    BY <1>3
  <2> QED BY <2>1, <2>2
<1>4. SUBSET S \subseteq Good
  <2> HIDE DEF Good
  <2> QED BY <1>2, <1>3, SubsetInduction
<1> QED BY <1>0, <1>1, <1>4 DEF IsSum

(* Sums whose terms are congruent are.                                     *)
LEMMA SumCongruent ==
    ASSUME NEW S, IsFiniteSet(S), NEW f \in [S -> Int], NEW g \in [S -> Int],
           NEW m \in Nat \ {0}, \A x \in S : f[x] % m = g[x] % m
    PROVE  SumFunction(f) % m = SumFunction(g) % m
<1>0. DOMAIN f = S /\ DOMAIN g = S
  OBVIOUS
<1>1. PICK p : IsSum(f, p)
  BY <1>0, SumUnfold, Zenon
<1>2. PICK q : IsSum(g, q)
  BY <1>0, SumUnfold, Zenon
<1> DEFINE Good == {s \in SUBSET S : p[s] \in Int /\ q[s] \in Int /\ p[s] % m = q[s] % m}
<1>3. {} \in Good
  BY <1>1, <1>2 DEF IsSum
<1>4. ASSUME NEW s \in SUBSET S, s # {}, \A x \in s : s \ {x} \in Good PROVE s \in Good
  <2>1. PICK x \in s : p[s] = f[x] + p[s \ {x}] /\ q[s] = g[x] + q[s \ {x}]
    BY <1>0, <1>1, <1>2, <1>4, PickedFromIt DEF IsSum
  <2> DEFINE a == f[x]
             b == p[s \ {x}]
             c == g[x]
             d == q[s \ {x}]
  <2>2. a \in Int /\ b \in Int /\ c \in Int /\ d \in Int /\ a % m = c % m /\ b % m = d % m
    BY <1>4
  <2>3. p[s] = a + b /\ q[s] = c + d
    BY <2>1
  <2> HIDE DEF a, b, c, d
  <2>4. (a + b) % m = (c + d) % m
    <3>1. \A x1, x2, x3, x4 \in Int :
              x1 % m = x3 % m /\ x2 % m = x4 % m => (x1 + x2) % m = (x3 + x4) % m
      BY SumsCongruent, Zenon
    <3> QED BY <2>2, <3>1, ZenonT(40)
  <2>5. p[s] \in Int /\ q[s] \in Int /\ p[s] % m = q[s] % m
    BY <2>2, <2>3, <2>4
  <2> QED BY <2>5
<1>5. SUBSET S \subseteq Good
  <2> HIDE DEF Good
  <2> QED BY <1>3, <1>4, SubsetInduction
<1>6. S \in Good
  BY <1>5
<1> QED BY <1>0, <1>1, <1>2, <1>6 DEF IsSum

LEMMA TotalIsWord ==
    ASSUME NEW S, IsFiniteSet(S), NEW f \in [S -> Int], NEW bits \in Nat
    PROVE  Total(f, bits) \in Words(bits) /\ Words(bits) \subseteq Nat
  BY SumInteger, PowerOfTwo DEF Total, Words

-----------------------------------------------------------------------------
(* Words.                                                                  *)
LEMMA WordsAreNaturals == \A bits : Words(bits) \subseteq Nat
  BY DEF Words

LEMMA BitIsBinary ==
    ASSUME NEW v \in Int, NEW bit \in Nat
    PROVE  BitOf(v, bit) \in {0, 1}
<1> DEFINE q == v \div TwoTo(bit)
<1>1. q \in Int
  BY PowerOfTwo, Division
<1> HIDE DEF q
<1>2. q % 2 \in {0, 1}
  BY <1>1
<1> QED BY <1>2 DEF BitOf, q

LEMMA FromBitsIsWord ==
    ASSUME NEW bits \in Nat, NEW bit \in [0 .. bits - 1 -> Int]
    PROVE  FromBits(bit, bits) \in Words(bits)
<1> DEFINE f == [i \in DOMAIN bit |-> bit[i] * TwoTo(i)]
<1>1. \A i \in 0 .. bits - 1 : bit[i] \in Int /\ TwoTo(i) \in Int
  BY PowerOfTwo
<1>2. f \in [0 .. bits - 1 -> Int]
  BY <1>1
<1>3. IsFiniteSet(0 .. bits - 1)
  BY FS_Interval
<1> HIDE DEF f
<1>4. Total(f, bits) \in Words(bits)
  BY <1>2, <1>3, TotalIsWord
<1> QED BY <1>4 DEF FromBits, f

LEMMA ApplyIsWord ==
    ASSUME NEW bits \in Nat, NEW x \in Int, NEW y \in Int,
           NEW op \in {"+", "-", "*", "&", "|", "^"}
    PROVE  Apply(op, x, y, bits) \in Words(bits)
<1>1. \A z \in Int : z % TwoTo(bits) \in Words(bits)
  BY PowerOfTwo DEF Words
<1>2. \A i \in 0 .. bits - 1 : BitOf(x, i) \in {0, 1} /\ BitOf(y, i) \in {0, 1}
  BY BitIsBinary
<1>3. And(x, y, bits) \in Words(bits)
  <2>1. [i \in 0 .. bits - 1 |-> BitOf(x, i) * BitOf(y, i)] \in [0 .. bits - 1 -> Int]
    BY <1>2
  <2> QED BY <2>1, FromBitsIsWord DEF And
<1>4. Or(x, y, bits) \in Words(bits)
  <2>1. [i \in 0 .. bits - 1 |-> IF 1 \in {BitOf(x, i), BitOf(y, i)} THEN 1 ELSE 0]
            \in [0 .. bits - 1 -> Int]
    OBVIOUS
  <2> QED BY <2>1, FromBitsIsWord DEF Or
<1>5. Xor(x, y, bits) \in Words(bits)
  <2>1. [i \in 0 .. bits - 1 |-> IF BitOf(x, i) # BitOf(y, i) THEN 1 ELSE 0]
            \in [0 .. bits - 1 -> Int]
    OBVIOUS
  <2> QED BY <2>1, FromBitsIsWord DEF Xor
<1>6. x + y \in Int /\ x - y \in Int /\ x * y \in Int
  OBVIOUS
<1> QED BY <1>1, <1>3, <1>4, <1>5, <1>6 DEF Apply

-----------------------------------------------------------------------------
(* What division gives back, and how it follows its dividend.              *)
LEMMA Quotient ==
    \A m \in Nat \ {0}, q \in Int : \A r \in 0 .. m - 1 : (q * m + r) \div m = q
<1> TAKE m \in Nat \ {0}, q \in Int
<1> TAKE r \in 0 .. m - 1
<1> DEFINE a == q * m + r
           p == a \div m
<1>1. q * m \in Int /\ a \in Int
  OBVIOUS
<1>2. a % m = r
  BY Remainder
<1> HIDE DEF a
<1>3. p \in Int /\ a = p * m + (a % m) /\ p * m \in Int
  BY <1>1, Division
<1> HIDE DEF p
<1>4. p * m = q * m
  BY <1>1, <1>2, <1>3 DEF a
<1>5. (p - q) * m = p * m - q * m /\ (q - p) * m = q * m - p * m
  BY <1>3, Distribute
<1>6. ~ (p - q >= 1) /\ ~ (q - p >= 1)
  <2>1. p - q >= 1 => (p - q) * m >= m
    BY <1>3, AtLeast
  <2>2. q - p >= 1 => (q - p) * m >= m
    BY <1>3, AtLeast
  <2> QED BY <1>1, <1>3, <1>4, <1>5, <2>1, <2>2
<1> QED BY <1>3, <1>6 DEF p, a

LEMMA QuotientShift ==
    \A m \in Nat \ {0}, a, k \in Int : (a + k * m) \div m = (a \div m) + k
<1> TAKE m \in Nat \ {0}, a, k \in Int
<1> DEFINE q == a \div m
           r == a % m
<1>1. q \in Int /\ r \in 0 .. m - 1 /\ a = q * m + r /\ q * m \in Int /\ k * m \in Int /\ q + k \in Int
  BY Division
<1> HIDE DEF q, r
<1>2. (q + k) * m = q * m + k * m
  BY <1>1, Distribute
<1>3. a + k * m = (q + k) * m + r
  BY <1>1, <1>2
<1>4. ((q + k) * m + r) \div m = q + k
  BY <1>1, Quotient, Zenon
<1> QED BY <1>3, <1>4 DEF q

(* A bit is not changed by what is added above it, and the top one is.     *)
LEMMA BitBelow ==
    \A n \in Nat, a, b \in Int : \A j \in 0 .. n - 1 : BitOf(a + b * TwoTo(n), j) = BitOf(a, j)
<1> TAKE n \in Nat, a, b \in Int
<1> TAKE j \in 0 .. n - 1
<1> DEFINE m == TwoTo(j)
           u == TwoTo(n - j - 1)
<1>1. n - j - 1 \in Nat /\ j + 1 \in Nat /\ j \in Nat /\ n = (n - j - 1) + (j + 1)
  OBVIOUS
<1>2. m \in Nat \ {0} /\ u \in Nat
  BY <1>1, TwoToAt
<1>3. TwoTo(n) = u * (2 * m)
  <2>1. TwoTo((n - j - 1) + (j + 1)) = TwoTo(n - j - 1) * TwoTo(j + 1)
    BY <1>1, TwoToProduct, Zenon
  <2>2. TwoTo(j + 1) = 2 * m
    BY <1>1, TwoToAt
  <2> QED BY <1>1, <2>1, <2>2
<1> HIDE DEF m, u
<1>4. b * (u * (2 * m)) = ((b * u) * 2) * m /\ b * u \in Int /\ (b * u) * 2 \in Int
  <2>1. \A x, y, z \in Int : x * (y * (2 * z)) = ((x * y) * 2) * z
    OBVIOUS
  <2> QED BY <1>2, <2>1
<1> DEFINE k == b * u
           q == a \div m
<1>5. k \in Int /\ k * 2 \in Int /\ q \in Int
  BY <1>2, <1>4, Division
<1>6. (a + (k * 2) * m) \div m = q + k * 2
  <2> HIDE DEF k
  <2> QED BY <1>2, <1>5, QuotientShift
<1>7. (q + k * 2) % 2 = q % 2
  <2> HIDE DEF k, q
  <2>1. 2 \in Nat \ {0}
    OBVIOUS
  <2> QED BY <1>5, <2>1, Shift, Zenon
<1>8. a + b * TwoTo(n) = a + (k * 2) * m
  BY <1>3, <1>4
<1> HIDE DEF k
<1> QED BY <1>6, <1>7, <1>8 DEF BitOf, m, q

LEMMA BitTop ==
    \A n \in Nat : \A a \in 0 .. TwoTo(n) - 1, b \in {0, 1} : BitOf(a + b * TwoTo(n), n) = b
<1> TAKE n \in Nat
<1> TAKE a \in 0 .. TwoTo(n) - 1, b \in {0, 1}
<1> DEFINE m == TwoTo(n)
<1>1. m \in Nat \ {0} /\ b \in Int /\ a \in 0 .. m - 1
  BY TwoToAt
<1> HIDE DEF m
<1>2. (b * m + a) \div m = b
  BY <1>1, Quotient, Zenon
<1>3. a + b * m = b * m + a
  BY <1>1
<1>4. b % 2 = b
  OBVIOUS
<1> QED BY <1>2, <1>3, <1>4 DEF BitOf, m

(* One bit more of a number.                                               *)
LEMMA RemainderGrows ==
    \A n, v \in Nat : v % TwoTo(n + 1) = (v % TwoTo(n)) + BitOf(v, n) * TwoTo(n)
<1> TAKE n, v \in Nat
<1> DEFINE m == TwoTo(n)
           q == v \div m
           r == v % m
           h == q \div 2
           b == q % 2
<1>1. m \in Nat \ {0} /\ TwoTo(n + 1) = 2 * m
  BY TwoToAt
<1> HIDE DEF m
<1>a. q \in Int /\ r \in 0 .. m - 1 /\ v = q * m + r
  <2>1. v \in Int
    OBVIOUS
  <2> QED BY <1>1, <2>1, Division
<1> HIDE DEF q, r
<1>2. q \in Int /\ r \in 0 .. m - 1 /\ v = q * m + r /\ q * m \in Int
  BY <1>1, <1>a
<1>3. h \in Int /\ b \in 0 .. 1 /\ q = h * 2 + b
  BY <1>2, Division
<1> HIDE DEF h, b
<1>4. v = h * (2 * m) + (r + b * m) /\ r + b * m \in 0 .. (2 * m) - 1
  <2>1. (h * 2 + b) * m = h * (2 * m) + b * m
    <3>1. \A x, y, z \in Int : (x * 2 + y) * z = x * (2 * z) + y * z
      OBVIOUS
    <3> QED BY <1>1, <1>3, <3>1
  <2>2. b = 0 \/ b = 1
    BY <1>3
  <2>3. h * (2 * m) \in Int /\ b * m \in Int /\ q * m = h * (2 * m) + b * m
    BY <1>1, <1>3, <2>1, <2>2
  <2> QED BY <1>1, <1>2, <2>2, <2>3
<1>5. 2 * m \in Nat \ {0}
  BY <1>1
<1> DEFINE w == 2 * m
           z == r + b * m
<1>6. w \in Nat \ {0} /\ z \in 0 .. w - 1 /\ v = h * w + z
  BY <1>4, <1>5
<1> HIDE DEF w, z
<1>7. (h * w + z) % w = z
  BY <1>3, <1>6, Remainder
<1>8. b = BitOf(v, n)
  BY DEF b, q, m, BitOf
<1> QED BY <1>1, <1>6, <1>7, <1>8 DEF w, z, r, m

-----------------------------------------------------------------------------
(* The partial sums of a function do not depend on the order of its terms. *)
Sums(f, p) ==
    /\ SumFunction(f) = p[DOMAIN f] /\ p[{}] = 0
    /\ \A s \in SUBSET DOMAIN f : p[s] \in Int /\ \A x \in s : p[s] = f[x] + p[s \ {x}]

LEMMA SumAnyOrder ==
    \A S : IsFiniteSet(S) => \A f \in [S -> Int] : \E p : Sums(f, p)
<1> SUFFICES ASSUME NEW S, IsFiniteSet(S), NEW f \in [S -> Int] PROVE \E p : Sums(f, p)
  OBVIOUS
<1>0. DOMAIN f = S
  OBVIOUS
<1>1. PICK p : IsSum(f, p)
  BY <1>0, SumUnfold, Zenon
<1> DEFINE Number == {s \in SUBSET S : p[s] \in Int}
           Good == {s \in SUBSET S : \A x \in s : p[s] = f[x] + p[s \ {x}]}
<1>2. SUBSET S \subseteq Number
  <2>1. {} \in Number
    BY <1>1 DEF IsSum
  <2>2. ASSUME NEW s \in SUBSET S, s # {}, \A x \in s : s \ {x} \in Number PROVE s \in Number
    <3>1. PICK y \in s : p[s] = f[y] + p[s \ {y}]
      BY <1>0, <1>1, <2>2, PickedFromIt DEF IsSum
    <3>2. f[y] \in Int /\ p[s \ {y}] \in Int
      BY <2>2
    <3> QED BY <3>1, <3>2
  <2> HIDE DEF Number
  <2> QED BY <2>1, <2>2, SubsetInduction
<1>3. {} \in Good
  OBVIOUS
<1>4. ASSUME NEW s \in SUBSET S, s # {}, \A x \in s : s \ {x} \in Good PROVE s \in Good
  <2>1. PICK y \in s : p[s] = f[y] + p[s \ {y}]
    BY <1>0, <1>1, <1>4, PickedFromIt DEF IsSum
  <2>2. ASSUME NEW x \in s PROVE p[s] = f[x] + p[s \ {x}]
    <3>1. CASE x = y
      BY <2>1, <3>1
    <3>2. CASE x # y
      <4>1. s \ {y} \in Good /\ s \ {x} \in Good
        BY <1>4
      <4>2. (s \ {y}) \ {x} = (s \ {x}) \ {y}
        OBVIOUS
      <4>3. p[s \ {y}] = f[x] + p[(s \ {y}) \ {x}]
        BY <3>2, <4>1
      <4>4. p[s \ {x}] = f[y] + p[(s \ {y}) \ {x}]
        BY <3>2, <4>1, <4>2
      <4>5. f[x] \in Int /\ f[y] \in Int /\ p[(s \ {y}) \ {x}] \in Int
        <5>1. (s \ {y}) \ {x} \in SUBSET S
          OBVIOUS
        <5> QED BY <1>2, <5>1
      <4> QED BY <2>1, <4>3, <4>4, <4>5
    <3> QED BY <3>1, <3>2
  <2> QED BY <2>2
<1>5. SUBSET S \subseteq Good
  <2> HIDE DEF Good
  <2> QED BY <1>3, <1>4, SubsetInduction
<1>6. Sums(f, p)
  BY <1>0, <1>1, <1>2, <1>5 DEF IsSum, Sums
<1> QED BY <1>6

(* What unfolds like the sum of a function is its sum.                     *)
Unfolds(f, q) ==
    /\ q[{}] = 0
    /\ \A s \in SUBSET DOMAIN f : s # {} => \E x \in s : q[s] = f[x] + q[s \ {x}]

LEMMA SumUnique ==
    \A S : IsFiniteSet(S) =>
        \A f \in [S -> Int] : \A q : Unfolds(f, q) => SumFunction(f) = q[S]
<1> SUFFICES ASSUME NEW S, IsFiniteSet(S), NEW f \in [S -> Int], NEW q, Unfolds(f, q)
             PROVE  SumFunction(f) = q[S]
  OBVIOUS
<1>0. DOMAIN f = S
  OBVIOUS
<1>1. PICK p : Sums(f, p)
  BY SumAnyOrder, Zenon
<1> DEFINE Good == {s \in SUBSET S : p[s] = q[s]}
<1>2. {} \in Good
  BY <1>1 DEF Sums, Unfolds
<1>3. ASSUME NEW s \in SUBSET S, s # {}, \A x \in s : s \ {x} \in Good PROVE s \in Good
  <2>1. PICK x \in s : q[s] = f[x] + q[s \ {x}]
    BY <1>0, <1>3 DEF Unfolds
  <2>2. p[s] = f[x] + p[s \ {x}]
    BY <1>0, <1>1 DEF Sums
  <2> QED BY <1>3, <2>1, <2>2
<1>4. SUBSET S \subseteq Good
  <2> HIDE DEF Good
  <2> QED BY <1>2, <1>3, SubsetInduction
<1> QED BY <1>0, <1>1, <1>4 DEF Sums

(* A sum of sums, a multiple of a sum, and a sum of one term.              *)
LEMMA SumAdd ==
    ASSUME NEW S, IsFiniteSet(S), NEW f \in [S -> Int], NEW g \in [S -> Int],
           NEW h \in [S -> Int], \A x \in S : h[x] = f[x] + g[x]
    PROVE  SumFunction(h) = SumFunction(f) + SumFunction(g)
<1>0. DOMAIN f = S /\ DOMAIN g = S /\ DOMAIN h = S
  OBVIOUS
<1>1. PICK p : Sums(f, p)
  BY SumAnyOrder, Zenon
<1>2. PICK r : Sums(g, r)
  BY SumAnyOrder, Zenon
<1> DEFINE q == [s \in SUBSET S |-> p[s] + r[s]]
<1>3. ASSUME NEW s \in SUBSET S, NEW x \in s PROVE q[s] = h[x] + q[s \ {x}]
  <2>1. p[s] = f[x] + p[s \ {x}] /\ r[s] = g[x] + r[s \ {x}]
    BY <1>0, <1>1, <1>2 DEF Sums
  <2>2. s \ {x} \in SUBSET S
    OBVIOUS
  <2>3. p[s \ {x}] \in Int /\ r[s \ {x}] \in Int /\ f[x] \in Int /\ g[x] \in Int
    BY <1>0, <1>1, <1>2, <2>2 DEF Sums
  <2> QED BY <2>1, <2>2, <2>3
<1>4. Unfolds(h, q)
  <2>1. q[{}] = 0
    BY <1>1, <1>2 DEF Sums
  <2> HIDE DEF q
  <2> QED BY <1>0, <1>3, <2>1 DEF Unfolds
<1>5. SumFunction(h) = q[S]
  <2> HIDE DEF q
  <2> QED BY <1>4, SumUnique, Zenon
<1> QED BY <1>0, <1>1, <1>2, <1>5 DEF Sums

(* The same, with what has to be known of the three functions named.       *)
Adds(S, f, g, h) == /\ f \in [S -> Int] /\ g \in [S -> Int] /\ h \in [S -> Int]
                    /\ \A x \in S : h[x] = f[x] + g[x]

LEMMA SumAdds ==
    \A S : IsFiniteSet(S) =>
        \A f, g, h : Adds(S, f, g, h) => SumFunction(h) = SumFunction(f) + SumFunction(g)
  BY SumAdd DEF Adds

LEMMA SumScale ==
    ASSUME NEW S, IsFiniteSet(S), NEW f \in [S -> Int], NEW h \in [S -> Int],
           NEW c \in Int, \A x \in S : h[x] = c * f[x]
    PROVE  SumFunction(h) = c * SumFunction(f)
<1>0. DOMAIN f = S /\ DOMAIN h = S
  OBVIOUS
<1>1. PICK p : Sums(f, p)
  BY SumAnyOrder, Zenon
<1> DEFINE q == [s \in SUBSET S |-> c * p[s]]
<1>2. ASSUME NEW s \in SUBSET S, NEW x \in s PROVE q[s] = h[x] + q[s \ {x}]
  <2>1. p[s] = f[x] + p[s \ {x}]
    BY <1>0, <1>1 DEF Sums
  <2>2. s \ {x} \in SUBSET S
    OBVIOUS
  <2>3. p[s \ {x}] \in Int /\ f[x] \in Int
    BY <1>0, <1>1, <2>2 DEF Sums
  <2> DEFINE u == f[x]
             v == p[s \ {x}]
  <2>4. c * (u + v) = c * u + c * v
    <3> HIDE DEF u, v
    <3> QED BY <2>3, Distribute DEF u, v
  <2> QED BY <2>1, <2>2, <2>4
<1>3. Unfolds(h, q)
  <2>1. q[{}] = 0
    BY <1>1 DEF Sums
  <2> HIDE DEF q
  <2> QED BY <1>0, <1>2, <2>1 DEF Unfolds
<1>4. SumFunction(h) = q[S]
  <2> HIDE DEF q
  <2> QED BY <1>3, SumUnique, Zenon
<1> QED BY <1>0, <1>1, <1>4 DEF Sums

LEMMA SumOne ==
    ASSUME NEW S, IsFiniteSet(S), NEW f \in [S -> Int], NEW x \in S,
           \A y \in S \ {x} : f[y] = 0
    PROVE  SumFunction(f) = f[x]
<1>0. DOMAIN f = S
  OBVIOUS
<1> DEFINE q == [s \in SUBSET S |-> IF x \in s THEN f[x] ELSE 0]
<1>1. ASSUME NEW s \in SUBSET S, NEW y \in s PROVE q[s] = f[y] + q[s \ {y}]
  <2>1. s \ {y} \in SUBSET S /\ f[x] \in Int
    OBVIOUS
  <2>2. CASE y = x
    BY <2>1, <2>2
  <2>3. CASE y # x
    BY <2>1, <2>3
  <2> QED BY <2>2, <2>3
<1>2. Unfolds(f, q)
  <2>1. q[{}] = 0
    OBVIOUS
  <2> HIDE DEF q
  <2> QED BY <1>0, <1>1, <2>1 DEF Unfolds
<1>3. SumFunction(f) = q[S]
  <2> HIDE DEF q
  <2> QED BY <1>2, SumUnique, Zenon
<1> QED BY <1>3

(* A sum of nothing is zero.                                               *)
LEMMA SumEmpty ==
    \A f : DOMAIN f = {} => SumFunction(f) = 0
<1> SUFFICES ASSUME NEW f, DOMAIN f = {} PROVE SumFunction(f) = 0
  OBVIOUS
<1>1. IsFiniteSet(DOMAIN f)
  BY FS_EmptySet
<1>2. PICK sum : IsSum(f, sum)
  BY <1>1, SumUnfold, Zenon
<1> QED BY <1>2 DEF IsSum

(* The order of summation may be changed.                                  *)
RowSums(a, S, T) == [x \in S |-> SumFunction([y \in T |-> a[x][y]])]
ColumnSums(a, S, T) == [y \in T |-> SumFunction([x \in S |-> a[x][y]])]

LEMMA SumSwap ==
    ASSUME NEW S, IsFiniteSet(S), NEW T, IsFiniteSet(T), NEW a \in [S -> [T -> Int]]
    PROVE  SumFunction(RowSums(a, S, T)) = SumFunction(ColumnSums(a, S, T))
<1> DEFINE row(x) == [y \in T |-> a[x][y]]
           column(y) == [x \in S |-> a[x][y]]
           rows == [x \in S |-> SumFunction(row(x))]
           columns == [y \in T |-> SumFunction(column(y))]
           P(y) == CHOOSE p : Sums(column(y), p)
           level(s) == [y \in T |-> P(y)[s]]
           q == [s \in SUBSET S |-> SumFunction(level(s))]
<1>1. \A x \in S : row(x) \in [T -> Int]
  OBVIOUS
<1>2. \A y \in T : column(y) \in [S -> Int] /\ DOMAIN column(y) = S
  OBVIOUS
<1>3. rows \in [S -> Int]
  <2>1. \A x \in S : SumFunction(row(x)) \in Int
    <3> HIDE DEF row
    <3> QED BY <1>1, SumInteger
  <2> QED BY <2>1
<1>4. ASSUME NEW y \in T PROVE Sums(column(y), P(y))
  <2>1. \E p : Sums(column(y), p)
    <3>1. column(y) \in [S -> Int]
      BY <1>2
    <3> HIDE DEF column
    <3> QED BY <3>1, SumAnyOrder, Zenon
  <2> HIDE DEF column
  <2> QED BY <2>1
<1>5. \A s \in SUBSET S : level(s) \in [T -> Int]
  <2> HIDE DEF P
  <2>1. \A s \in SUBSET S, y \in T : P(y)[s] \in Int
    <3> HIDE DEF column
    <3> QED BY <1>2, <1>4 DEF Sums
  <2> QED BY <2>1
<1>6. ASSUME NEW s \in SUBSET S, NEW x \in s PROVE q[s] = rows[x] + q[s \ {x}]
  <2>1. s \ {x} \in SUBSET S /\ x \in S
    OBVIOUS
  <2>2. \A y \in T : level(s)[y] = row(x)[y] + level(s \ {x})[y]
    <3> SUFFICES ASSUME NEW y \in T PROVE P(y)[s] = a[x][y] + P(y)[s \ {x}]
      OBVIOUS
    <3>1. P(y)[s] = column(y)[x] + P(y)[s \ {x}]
      <4> HIDE DEF P, column
      <4> QED BY <1>2, <1>4 DEF Sums
    <3> QED BY <2>1, <3>1
  <2>3. row(x) \in [T -> Int] /\ level(s) \in [T -> Int] /\ level(s \ {x}) \in [T -> Int]
    BY <1>1, <1>5, <2>1
  <2>4. SumFunction(level(s)) = SumFunction(row(x)) + SumFunction(level(s \ {x}))
    <3> DEFINE f == row(x)
               g == level(s \ {x})
               h == level(s)
    <3>1. f \in [T -> Int] /\ g \in [T -> Int] /\ h \in [T -> Int]
          /\ \A y \in T : h[y] = f[y] + g[y]
      <4> HIDE DEF row, level
      <4> QED BY <2>2, <2>3
    <3> HIDE DEF f, g, h
    <3>2. SumFunction(h) = SumFunction(f) + SumFunction(g)
      BY <3>1, SumAdd
    <3> QED BY <3>2 DEF f, g, h
  <2> QED BY <2>1, <2>4
<1>7. q[{}] = 0
  <2>1. \A y \in T : level({})[y] = 0
    <3> HIDE DEF P, column
    <3> QED BY <1>4 DEF Sums
  <2> DEFINE f == level({})
  <2>2. f \in [T -> Int] /\ \A y \in T : f[y] = 0
    <3>1. {} \in SUBSET S
      OBVIOUS
    <3> HIDE DEF level
    <3> QED BY <1>5, <2>1, <3>1
  <2>3. SumFunction(f) = 0
    <3> HIDE DEF f
    <3>1. \A y \in T : f[y] = 0 * f[y]
      BY <2>2
    <3>2. SumFunction(f) = 0 * SumFunction(f)
      <4>1. 0 \in Int
        OBVIOUS
      <4> QED BY <2>2, <3>1, <4>1, SumScale
    <3>3. SumFunction(f) \in Int
      BY <2>2, SumInteger
    <3> QED BY <3>2, <3>3
  <2> QED BY <2>3
<1>8. Unfolds(rows, q)
  <2>1. DOMAIN rows = S
    OBVIOUS
  <2> HIDE DEF rows, q
  <2> QED BY <1>6, <1>7, <2>1 DEF Unfolds
<1>9. SumFunction(rows) = q[S]
  <2> HIDE DEF rows, q
  <2> QED BY <1>3, <1>8, SumUnique, Zenon
<1>10. level(S) = columns
  <2>1. \A y \in T : P(y)[S] = SumFunction(column(y))
    <3> HIDE DEF P, column
    <3> QED BY <1>2, <1>4 DEF Sums
  <2> HIDE DEF P, column
  <2> QED BY <2>1
<1> HIDE DEF level
<1>11. q[S] = SumFunction(columns)
  BY <1>10
<1>12. rows = RowSums(a, S, T) /\ columns = ColumnSums(a, S, T)
  BY DEF RowSums, ColumnSums
<1> HIDE DEF q, rows, columns
<1> QED BY <1>9, <1>11, <1>12

-----------------------------------------------------------------------------
(* A sum with one more term, and the sum of one list after another.        *)
LEMMA SumInsert ==
    ASSUME NEW T, IsFiniteSet(T), NEW x, x \notin T, NEW f \in [T -> Int],
           NEW h \in [T \cup {x} -> Int], \A y \in T : h[y] = f[y]
    PROVE  SumFunction(h) = SumFunction(f) + h[x]
<1> DEFINE S == T \cup {x}
<1>0. DOMAIN f = T /\ DOMAIN h = S /\ IsFiniteSet(S)
  BY FS_AddElement
<1>1. PICK p : Sums(h, p)
  <2>1. h \in [S -> Int]
    OBVIOUS
  <2> HIDE DEF S
  <2> QED BY <1>0, <2>1, SumAnyOrder, Zenon
<1>2. Unfolds(f, p)
  <2>1. ASSUME NEW s \in SUBSET T, NEW y \in s PROVE p[s] = f[y] + p[s \ {y}]
    <3>1. s \in SUBSET DOMAIN h /\ h[y] = f[y]
      BY <1>0
    <3> QED BY <1>1, <3>1 DEF Sums
  <2>2. p[{}] = 0
    BY <1>1 DEF Sums
  <2> QED BY <1>0, <2>1, <2>2 DEF Unfolds
<1>3. SumFunction(f) = p[T]
  BY <1>2, SumUnique, Zenon
<1>4. SumFunction(h) = p[S] /\ p[S] = h[x] + p[S \ {x}] /\ p[T] \in Int /\ h[x] \in Int
  <2>1. S \in SUBSET DOMAIN h /\ T \in SUBSET DOMAIN h /\ x \in S /\ h[x] \in Int
    BY <1>0
  <2> HIDE DEF S
  <2> QED BY <1>0, <1>1, <2>1 DEF Sums
<1>5. S \ {x} = T
  OBVIOUS
<1>6. p[S \ {x}] = p[T]
  BY <1>5, Zenon
<1> HIDE DEF S
<1> QED BY <1>3, <1>4, <1>6

LEMMA SumConcat ==
    ASSUME NEW m \in Nat, NEW n \in Nat, NEW f \in [1 .. m -> Int], NEW g \in [1 .. n -> Int],
           NEW h \in [1 .. m + n -> Int],
           \A i \in 1 .. m : h[i] = f[i], \A i \in 1 .. n : h[m + i] = g[i]
    PROVE  SumFunction(h) = SumFunction(f) + SumFunction(g)
<1>0. /\ IsFiniteSet(1 .. m) /\ IsFiniteSet(1 .. n) /\ IsFiniteSet(1 .. m + n)
      /\ DOMAIN f = 1 .. m /\ DOMAIN g = 1 .. n /\ DOMAIN h = 1 .. m + n
  BY FS_Interval
<1>1. PICK p : Sums(f, p)
  BY <1>0, SumAnyOrder, Zenon
<1>2. PICK r : Sums(g, r)
  BY <1>0, SumAnyOrder, Zenon
<1> DEFINE low(s) == s \cap (1 .. m)
           high(s) == {i \in 1 .. n : m + i \in s}
           q == [s \in SUBSET (1 .. m + n) |-> p[low(s)] + r[high(s)]]
<1>3. \A s : p[low(s)] \in Int /\ r[high(s)] \in Int
  <2>1. \A s : low(s) \in SUBSET DOMAIN f /\ high(s) \in SUBSET DOMAIN g
    BY <1>0
  <2> HIDE DEF low, high
  <2> QED BY <1>1, <1>2, <2>1 DEF Sums
<1>4. ASSUME NEW s \in SUBSET (1 .. m + n), NEW x \in s PROVE q[s] = h[x] + q[s \ {x}]
  <2>0. s \ {x} \in SUBSET (1 .. m + n) /\ x \in 1 .. m + n
    OBVIOUS
  <2>1. CASE x \in 1 .. m
    <3>1. low(s \ {x}) = low(s) \ {x} /\ x \in low(s) /\ low(s) \in SUBSET DOMAIN f
      BY <1>0, <2>1
    <3>2. high(s \ {x}) = high(s)
      BY <2>1
    <3>3. p[low(s)] = f[x] + p[low(s) \ {x}]
      <4> HIDE DEF low, high
      <4> QED BY <1>1, <3>1 DEF Sums
    <3>4. h[x] = f[x] /\ f[x] \in Int
      BY <2>1
    <3> HIDE DEF low, high
    <3>5. q[s] = p[low(s)] + r[high(s)] /\ q[s \ {x}] = p[low(s \ {x})] + r[high(s \ {x})]
      BY <2>0
    <3> HIDE DEF q
    <3>6. p[low(s \ {x})] \in Int /\ r[high(s \ {x})] \in Int
      BY <1>3
    <3>7. p[low(s \ {x})] = p[low(s) \ {x}] /\ r[high(s \ {x})] = r[high(s)]
      BY <3>1, <3>2, Zenon
    <3> QED BY <3>3, <3>4, <3>5, <3>6, <3>7
  <2>2. CASE x \notin 1 .. m
    <3> DEFINE i == x - m
    <3>0. i \in 1 .. n /\ x = m + i /\ \A j \in 1 .. n : m + j = x => j = i
      BY <2>0, <2>2
    <3> HIDE DEF i
    <3>1. high(s \ {x}) = high(s) \ {i} /\ i \in high(s) /\ high(s) \in SUBSET DOMAIN g
      BY <1>0, <3>0
    <3>2. low(s \ {x}) = low(s)
      BY <2>2
    <3>3. r[high(s)] = g[i] + r[high(s) \ {i}]
      <4> HIDE DEF low, high
      <4> QED BY <1>2, <3>1 DEF Sums
    <3>4. h[x] = g[i] /\ g[i] \in Int
      BY <3>0
    <3> HIDE DEF low, high
    <3>5. q[s] = p[low(s)] + r[high(s)] /\ q[s \ {x}] = p[low(s \ {x})] + r[high(s \ {x})]
      BY <2>0
    <3> HIDE DEF q
    <3>6. p[low(s \ {x})] \in Int /\ r[high(s \ {x})] \in Int
      BY <1>3
    <3>7. p[low(s \ {x})] = p[low(s)] /\ r[high(s \ {x})] = r[high(s) \ {i}]
      BY <3>1, <3>2, Zenon
    <3> QED BY <3>3, <3>4, <3>5, <3>6, <3>7
  <2> QED BY <2>1, <2>2
<1>5. Unfolds(h, q)
  <2>1. q[{}] = 0
    <3>1. low({}) = {} /\ high({}) = {} /\ {} \in SUBSET (1 .. m + n)
      OBVIOUS
    <3>2. p[{}] = 0 /\ r[{}] = 0
      BY <1>1, <1>2 DEF Sums
    <3>3. q[{}] = p[low({})] + r[high({})]
      BY <3>1
    <3> HIDE DEF q
    <3>4. p[low({})] = p[{}] /\ r[high({})] = r[{}]
      BY <3>1, Zenon
    <3> QED BY <3>2, <3>3, <3>4
  <2> HIDE DEF q
  <2> QED BY <1>0, <1>4, <2>1 DEF Unfolds
<1>6. SumFunction(h) = q[1 .. m + n]
  <2> HIDE DEF q
  <2> QED BY <1>0, <1>5, SumUnique, Zenon
<1>7. low(1 .. m + n) = 1 .. m /\ high(1 .. m + n) = 1 .. n
  OBVIOUS
<1> HIDE DEF low, high
<1>8. q[1 .. m + n] = p[1 .. m] + r[1 .. n]
  BY <1>7
<1> HIDE DEF q
<1> QED BY <1>0, <1>1, <1>2, <1>6, <1>8 DEF Sums

-----------------------------------------------------------------------------
(* The number with given bits.                                             *)
BitSum(b, n) == SumFunction([i \in 0 .. n - 1 |-> b[i] * TwoTo(i)])

(* The first n values of b are integers, or bits.                          *)
Weights(b, n) == \A i \in 0 .. n - 1 : b[i] \in Int
AreBits(b, n) == \A i \in 0 .. n - 1 : b[i] \in {0, 1}

LEMMA BitSumAt ==
    \A b : /\ BitSum(b, 0) = 0
           /\ \A n \in Nat : Weights(b, n) => BitSum(b, n) \in Int
           /\ \A n \in Nat : Weights(b, n + 1) =>
                  Weights(b, n) /\ b[n] \in Int /\ BitSum(b, n + 1) = BitSum(b, n) + b[n] * TwoTo(n)
<1> TAKE b
<1> DEFINE term(n) == [i \in 0 .. n - 1 |-> b[i] * TwoTo(i)]
<1>1. BitSum(b, 0) = 0
  <2>1. DOMAIN term(0) = {}
    OBVIOUS
  <2> HIDE DEF term
  <2>2. SumFunction(term(0)) = 0
    BY <2>1, SumEmpty
  <2> QED BY <2>2 DEF BitSum, term
<1>2. ASSUME NEW n \in Nat, Weights(b, n) PROVE term(n) \in [0 .. n - 1 -> Int]
  <2>1. ASSUME NEW i \in 0 .. n - 1 PROVE b[i] * TwoTo(i) \in Int
    <3>1. b[i] \in Int /\ TwoTo(i) \in Int
      BY <1>2, TwoToAt DEF Weights
    <3> QED BY <3>1
  <2> QED BY <2>1
<1>3. ASSUME NEW n \in Nat, Weights(b, n) PROVE BitSum(b, n) \in Int
  <2>1. IsFiniteSet(0 .. n - 1)
    BY FS_Interval
  <2>2. term(n) \in [0 .. n - 1 -> Int]
    BY <1>2, <1>3
  <2> HIDE DEF term
  <2>3. SumFunction(term(n)) \in Int
    BY <2>1, <2>2, SumInteger
  <2> QED BY <2>3 DEF BitSum, term
<1>4. ASSUME NEW n \in Nat, Weights(b, n + 1)
      PROVE  Weights(b, n) /\ b[n] \in Int /\ BitSum(b, n + 1) = BitSum(b, n) + b[n] * TwoTo(n)
  <2>1. Weights(b, n) /\ b[n] \in Int
    BY <1>4 DEF Weights
  <2>2. IsFiniteSet(0 .. n - 1) /\ n + 1 \in Nat
    BY FS_Interval
  <2>3. term(n) \in [0 .. n - 1 -> Int]
    BY <1>2, <2>1
  <2>4. term(n + 1) \in [(0 .. n - 1) \cup {n} -> Int]
    <3>1. term(n + 1) \in [0 .. (n + 1) - 1 -> Int]
      BY <1>2, <1>4, <2>2
    <3>2. 0 .. (n + 1) - 1 = (0 .. n - 1) \cup {n}
      OBVIOUS
    <3> HIDE DEF term
    <3> QED BY <3>1, <3>2
  <2>5. \A i \in 0 .. n - 1 : term(n + 1)[i] = term(n)[i]
    OBVIOUS
  <2>6. term(n + 1)[n] = b[n] * TwoTo(n)
    OBVIOUS
  <2>7. n \notin 0 .. n - 1
    OBVIOUS
  <2>8. SumFunction(term(n + 1)) = SumFunction(term(n)) + term(n + 1)[n]
    <3> DEFINE T == 0 .. n - 1
               f == term(n)
               h == term(n + 1)
    <3>1. /\ IsFiniteSet(T) /\ n \notin T /\ f \in [T -> Int] /\ h \in [T \cup {n} -> Int]
          /\ \A y \in T : h[y] = f[y]
      <4> HIDE DEF term
      <4> QED BY <2>2, <2>3, <2>4, <2>5, <2>7
    <3> HIDE DEF T, f, h
    <3>2. SumFunction(h) = SumFunction(f) + h[n]
      BY <3>1, SumInsert
    <3> QED BY <3>2 DEF f, h
  <2> HIDE DEF term
  <2> QED BY <2>1, <2>6, <2>8 DEF BitSum, term
<1> QED BY <1>1, <1>3, <1>4

(* The number depends on nothing but its bits.                             *)
LEMMA BitSumAgree ==
    \A n \in Nat : \A b, c : (\A i \in 0 .. n - 1 : b[i] = c[i]) => BitSum(b, n) = BitSum(c, n)
<1> SUFFICES ASSUME NEW n \in Nat, NEW b, NEW c, \A i \in 0 .. n - 1 : b[i] = c[i]
             PROVE  BitSum(b, n) = BitSum(c, n)
  OBVIOUS
<1>1. [i \in 0 .. n - 1 |-> b[i] * TwoTo(i)] = [i \in 0 .. n - 1 |-> c[i] * TwoTo(i)]
  OBVIOUS
<1> QED BY <1>1 DEF BitSum

(* Bits make a word, and are the bits of it.                               *)
LEMMA BitSumBinary ==
    \A b : \A n \in Nat : AreBits(b, n) =>
        /\ Weights(b, n)
        /\ BitSum(b, n) \in 0 .. TwoTo(n) - 1
        /\ \A j \in 0 .. n - 1 : BitOf(BitSum(b, n), j) = b[j]
<1> TAKE b
<1> DEFINE Claim(n) == /\ Weights(b, n)
                       /\ BitSum(b, n) \in 0 .. TwoTo(n) - 1
                       /\ \A j \in 0 .. n - 1 : BitOf(BitSum(b, n), j) = b[j]
           Good == {n \in Nat : AreBits(b, n) => Claim(n)}
<1>1. 0 \in Good
  BY BitSumAt, TwoToAt DEF Weights
<1>2. ASSUME NEW n \in Nat, n \in Good, AreBits(b, n + 1) PROVE Claim(n + 1)
  <2> DEFINE s == BitSum(b, n)
             m == TwoTo(n)
  <2>1. AreBits(b, n) /\ b[n] \in {0, 1} /\ Weights(b, n + 1)
    BY <1>2 DEF AreBits, Weights
  <2>2. Claim(n)
    BY <1>2, <2>1
  <2>3. BitSum(b, n + 1) = s + b[n] * m
    BY <2>1, BitSumAt
  <2>4. m \in Nat \ {0} /\ TwoTo(n + 1) = 2 * m
    BY TwoToAt
  <2>5. s \in 0 .. m - 1
    BY <2>2
  <2>6. s + b[n] * m \in 0 .. (2 * m) - 1
    <3> HIDE DEF s, m
    <3>1. b[n] * m = 0 \/ b[n] * m = m
      BY <2>1, <2>4
    <3> QED BY <2>4, <2>5, <3>1
  <2>7. ASSUME NEW j \in 0 .. (n + 1) - 1 PROVE BitOf(s + b[n] * m, j) = b[j]
    <3>1. CASE j = n
      <4>1. BitOf(s + b[n] * m, n) = b[n]
        <5> HIDE DEF s
        <5> QED BY <2>1, <2>5, BitTop
      <4> QED BY <3>1, <4>1
    <3>2. CASE j # n
      <4>1. j \in 0 .. n - 1 /\ s \in Int /\ b[n] \in Int
        BY <2>1, <2>5, <3>2
      <4>2. BitOf(s + b[n] * m, j) = BitOf(s, j)
        <5> HIDE DEF s
        <5> QED BY <4>1, BitBelow
      <4>3. BitOf(s, j) = b[j]
        BY <2>2, <4>1
      <4> QED BY <4>2, <4>3
    <3> QED BY <3>1, <3>2
  <2> HIDE DEF s, m
  <2> QED BY <2>1, <2>3, <2>4, <2>6, <2>7
<1>3. Nat \subseteq Good
  <2>1. \A n \in Nat : n \in Good => n + 1 \in Good
    <3> HIDE DEF Claim
    <3> QED BY <1>2
  <2> HIDE DEF Good
  <2> QED BY <1>1, <2>1, Induction
<1> HIDE DEF Claim
<1>4. \A n \in Nat : AreBits(b, n) => Claim(n)
  BY <1>3
<1> QED BY <1>4 DEF Claim

(* A number is made of its bits.                                           *)
LEMMA BitSumOf ==
    ASSUME NEW v \in Nat, NEW b, NEW bits \in Nat, \A i \in 0 .. bits - 1 : b[i] = BitOf(v, i)
    PROVE  BitSum(b, bits) = v % TwoTo(bits)
<1> DEFINE Good == {n \in Nat : n <= bits => BitSum(b, n) = v % TwoTo(n)}
<1>1. 0 \in Good
  <2>1. v % 1 = 0
    OBVIOUS
  <2> QED BY <2>1, BitSumAt, TwoToAt
<1>2. ASSUME NEW n \in Nat, n \in Good, n + 1 <= bits
      PROVE  BitSum(b, n + 1) = v % TwoTo(n + 1)
  <2>1. \A i \in 0 .. n : b[i] = BitOf(v, i) /\ BitOf(v, i) \in Int
    <3>1. \A i \in 0 .. n : i \in 0 .. bits - 1 /\ i \in Nat /\ v \in Int
      BY <1>2
    <3> QED BY <3>1, BitIsBinary
  <2>2. Weights(b, n + 1)
    BY <2>1 DEF Weights
  <2>3. BitSum(b, n + 1) = BitSum(b, n) + b[n] * TwoTo(n)
    BY <2>2, BitSumAt
  <2>4. v % TwoTo(n + 1) = (v % TwoTo(n)) + BitOf(v, n) * TwoTo(n)
    BY RemainderGrows
  <2>5. b[n] = BitOf(v, n) /\ BitSum(b, n) = v % TwoTo(n)
    BY <1>2, <2>1
  <2> QED BY <2>3, <2>4, <2>5
<1>3. Nat \subseteq Good
  <2>1. \A n \in Nat : n \in Good => n + 1 \in Good
    BY <1>2
  <2> HIDE DEF Good
  <2> QED BY <1>1, <2>1, Induction
<1> QED BY <1>3

(* from_bits makes the number with the given bits.                         *)
LEMMA FromBitsExact ==
    \A bits \in Nat : \A b : DOMAIN b = 0 .. bits - 1 /\ AreBits(b, bits) =>
        FromBits(b, bits) = BitSum(b, bits)
<1> SUFFICES ASSUME NEW bits \in Nat, NEW b, DOMAIN b = 0 .. bits - 1, AreBits(b, bits)
             PROVE  FromBits(b, bits) = BitSum(b, bits)
  OBVIOUS
<1>1. FromBits(b, bits) = BitSum(b, bits) % TwoTo(bits)
  BY DEF FromBits, Total, BitSum
<1>2. BitSum(b, bits) \in 0 .. TwoTo(bits) - 1 /\ TwoTo(bits) \in Nat \ {0}
  BY BitSumBinary, TwoToAt
<1> QED BY <1>1, <1>2

(* The complement of a word, and a run of ones.                            *)
LEMMA BitSumComplement ==
    ASSUME NEW bits \in Nat, NEW b, AreBits(b, bits), NEW c, \A i \in 0 .. bits - 1 : c[i] = 1 - b[i]
    PROVE  BitSum(c, bits) = Ones(bits) - BitSum(b, bits)
<1> DEFINE Good == {n \in Nat : n <= bits => BitSum(c, n) = (TwoTo(n) - 1) - BitSum(b, n)}
<1>1. 0 \in Good
  BY BitSumAt, TwoToAt
<1>2. ASSUME NEW n \in Nat, n \in Good, n + 1 <= bits
      PROVE  BitSum(c, n + 1) = (TwoTo(n + 1) - 1) - BitSum(b, n + 1)
  <2>1. Weights(b, n + 1) /\ Weights(c, n + 1) /\ b[n] \in {0, 1} /\ c[n] = 1 - b[n]
    <3>1. \A i \in 0 .. (n + 1) - 1 : i \in 0 .. bits - 1
      BY <1>2
    <3>2. n \in 0 .. bits - 1
      BY <1>2
    <3> QED BY <3>1, <3>2 DEF Weights, AreBits
  <2>2. /\ BitSum(b, n + 1) = BitSum(b, n) + b[n] * TwoTo(n)
        /\ BitSum(c, n + 1) = BitSum(c, n) + c[n] * TwoTo(n)
        /\ BitSum(b, n) \in Int /\ BitSum(c, n) \in Int
    BY <2>1, BitSumAt
  <2>3. TwoTo(n + 1) = 2 * TwoTo(n) /\ TwoTo(n) \in Nat
    BY TwoToAt
  <2>4. BitSum(c, n) = (TwoTo(n) - 1) - BitSum(b, n)
    BY <1>2
  <2>5. CASE b[n] = 0
    BY <2>1, <2>2, <2>3, <2>4, <2>5
  <2>6. CASE b[n] = 1
    BY <2>1, <2>2, <2>3, <2>4, <2>6
  <2> QED BY <2>1, <2>5, <2>6
<1>3. Nat \subseteq Good
  <2>1. \A n \in Nat : n \in Good => n + 1 \in Good
    BY <1>2
  <2> HIDE DEF Good
  <2> QED BY <1>1, <2>1, Induction
<1> QED BY <1>3 DEF Ones

LEMMA BitSumRun ==
    ASSUME NEW bits \in Nat, NEW low \in Nat, NEW high \in Nat, low <= high, high <= bits,
           NEW b, \A i \in 0 .. bits - 1 : b[i] = IF low <= i /\ i < high THEN 1 ELSE 0
    PROVE  BitSum(b, bits) = TwoTo(high) - TwoTo(low)
<1> DEFINE Run(n) == IF n <= low THEN 0
                     ELSE IF n <= high THEN TwoTo(n) - TwoTo(low) ELSE TwoTo(high) - TwoTo(low)
           Good == {n \in Nat : n <= bits => BitSum(b, n) = Run(n)}
<1>1. 0 \in Good
  BY BitSumAt
<1>2. ASSUME NEW n \in Nat, n \in Good, n + 1 <= bits PROVE BitSum(b, n + 1) = Run(n + 1)
  <2>1. Weights(b, n + 1) /\ b[n] = IF low <= n /\ n < high THEN 1 ELSE 0
    <3>1. \A i \in 0 .. (n + 1) - 1 : i \in 0 .. bits - 1
      BY <1>2
    <3>2. n \in 0 .. bits - 1
      BY <1>2
    <3> QED BY <3>1, <3>2 DEF Weights
  <2>2. BitSum(b, n + 1) = BitSum(b, n) + b[n] * TwoTo(n)
    BY <2>1, BitSumAt
  <2>3. /\ TwoTo(n + 1) = 2 * TwoTo(n) /\ TwoTo(n) \in Nat
        /\ TwoTo(low) \in Nat /\ TwoTo(high) \in Nat
    BY TwoToAt
  <2>4. BitSum(b, n) = Run(n)
    BY <1>2
  <2>5. CASE n < low
    BY <2>1, <2>2, <2>3, <2>4, <2>5
  <2>6. CASE n = low
    BY <2>1, <2>2, <2>3, <2>4, <2>6
  <2>7. CASE low < n /\ n < high
    BY <2>1, <2>2, <2>3, <2>4, <2>7
  <2>8. CASE low < n /\ n = high
    BY <2>1, <2>2, <2>3, <2>4, <2>8
  <2>9. CASE low < n /\ n > high
    BY <2>1, <2>2, <2>3, <2>4, <2>9
  <2> QED BY <2>5, <2>6, <2>7, <2>8, <2>9
<1>3. Nat \subseteq Good
  <2>1. \A n \in Nat : n \in Good => n + 1 \in Good
    <3> HIDE DEF Run
    <3> QED BY <1>2
  <2> HIDE DEF Good
  <2> QED BY <1>1, <2>1, Induction
<1>4. BitSum(b, bits) = Run(bits)
  BY <1>3
<1>5. Run(bits) = TwoTo(high) - TwoTo(low)
  <2>1. TwoTo(low) \in Nat
    BY TwoToAt
  <2>2. CASE bits <= low
    <3>1. high = low
      BY <2>2
    <3> QED BY <2>1, <2>2, <3>1
  <2>3. CASE ~ (bits <= low) /\ bits <= high
    <3>1. high = bits
      BY <2>3
    <3> QED BY <2>3, <3>1
  <2> QED BY <2>2, <2>3
<1> QED BY <1>4, <1>5

(* A number with no bit below low is a multiple of 2^low.                  *)
LEMMA BitSumMultiple ==
    ASSUME NEW bits \in Nat, NEW low \in Nat, NEW b, Weights(b, bits),
           \A i \in 0 .. bits - 1 : i < low => b[i] = 0
    PROVE  \E k \in Int : BitSum(b, bits) = k * TwoTo(low)
<1> DEFINE Good == {n \in Nat : n <= bits => \E k \in Int : BitSum(b, n) = k * TwoTo(low)}
<1>1. 0 \in Good
  <2>1. BitSum(b, 0) = 0 * TwoTo(low)
    BY BitSumAt, TwoToAt
  <2>2. 0 \in Int
    OBVIOUS
  <2>3. \E k \in Int : BitSum(b, 0) = k * TwoTo(low)
    BY <2>1, <2>2
  <2> QED BY <2>3
<1>2. ASSUME NEW n \in Nat, n \in Good, n + 1 <= bits
      PROVE  \E k \in Int : BitSum(b, n + 1) = k * TwoTo(low)
  <2>1. Weights(b, n + 1) /\ b[n] \in Int /\ (n < low => b[n] = 0)
    <3>1. \A i \in 0 .. (n + 1) - 1 : i \in 0 .. bits - 1
      BY <1>2
    <3>2. n \in 0 .. bits - 1
      BY <1>2
    <3> QED BY <3>1, <3>2 DEF Weights
  <2>2. BitSum(b, n + 1) = BitSum(b, n) + b[n] * TwoTo(n) /\ BitSum(b, n) \in Int
    BY <2>1, BitSumAt
  <2>3. PICK k \in Int : BitSum(b, n) = k * TwoTo(low)
    BY <1>2
  <2>4. TwoTo(n) \in Nat /\ TwoTo(low) \in Nat
    BY TwoToAt
  <2>5. CASE n < low
    <3>1. BitSum(b, n + 1) = k * TwoTo(low)
      BY <2>1, <2>2, <2>3, <2>4, <2>5
    <3> QED BY <3>1
  <2>6. CASE low <= n
    <3> DEFINE u == TwoTo(n - low)
               m == TwoTo(low)
               c == b[n]
    <3>1. n - low \in Nat /\ n = (n - low) + low
      BY <2>6
    <3>2. TwoTo((n - low) + low) = u * m
      BY <3>1, TwoToProduct, Zenon
    <3>3. u \in Nat /\ m \in Nat /\ c \in Int
      BY <2>1, <3>1, TwoToAt
    <3>4. TwoTo(n) = u * m
      BY <3>1, <3>2
    <3> HIDE DEF u, m, c
    <3>5. k * m + c * (u * m) = (k + c * u) * m /\ k + c * u \in Int
      <4>1. \A w, x, y, z \in Int : w * z + x * (y * z) = (w + x * y) * z /\ w + x * y \in Int
        OBVIOUS
      <4> QED BY <3>3, <4>1
    <3>6. BitSum(b, n + 1) = (k + c * u) * m
      BY <2>2, <2>3, <3>4, <3>5 DEF c, m
    <3> QED BY <3>5, <3>6 DEF m
  <2> QED BY <2>5, <2>6
<1>3. Nat \subseteq Good
  <2>1. \A n \in Nat : n \in Good => n + 1 \in Good
    BY <1>2
  <2> HIDE DEF Good
  <2> QED BY <1>1, <2>1, Induction
<1> QED BY <1>3

-----------------------------------------------------------------------------
(* What evaluate comes to at a node.                                       *)
NodeValue(value, t, values, bits) ==
    CASE t.kind = "const" -> t.value % TwoTo(bits)
      [] t.kind = "var"   -> values[t.name] % TwoTo(bits)
      [] t.kind = "un"    -> IF t.op = "-" THEN (- value[t.a]) % TwoTo(bits)
                             ELSE Ones(bits) - value[t.a]
      [] OTHER            -> Apply(t.op, value[t.a], value[t.b], bits)

LEMMA EvaluateUnfold ==
    \A values, bits : \E value :
        /\ \A t \in Trees : value[t] = NodeValue(value, t, values, bits)
        /\ \A t \in Trees : Evaluate(t, values, bits) = value[t]
<1> SUFFICES ASSUME NEW values, NEW bits
             PROVE  \E value :
                        /\ \A t \in Trees : value[t] = NodeValue(value, t, values, bits)
                        /\ \A t \in Trees : Evaluate(t, values, bits) = value[t]
  OBVIOUS
<1> DEFINE Body(p, t) == NodeValue(p, t, values, bits)
           Correct(p, d) == \A t \in Layer(d) : p[t] = Body(p, t)
           Solved == {d \in Nat : \E p : Correct(p, d)}
           value == CHOOSE p : p = [t \in Trees |-> Body(p, t)]
<1>1. ASSUME NEW p, NEW q, NEW t \in Trees, \A kid \in Kids(t) : p[kid] = q[kid]
      PROVE  Body(p, t) = Body(q, t)
  <2>1. t.kind = "un" => t.a \in Kids(t)
    BY DEF Kids
  <2>2. t.kind = "bin" => t.a \in Kids(t) /\ t.b \in Kids(t)
    BY DEF Kids
  <2>3. t.kind \in {"const", "var", "un", "bin"}
    BY TreeShape DEF IsConst, IsVar, IsUn, IsBin
  <2> QED BY <1>1, <2>1, <2>2, <2>3 DEF NodeValue
<1>2. 0 \in Solved
  <2> DEFINE none == [t \in Trees |-> 0]
             p == [t \in Trees |-> Body(none, t)]
  <2>1. \A t \in Layer(0) : p[t] = Body(none, t)
    BY LayerKids
  <2>2. \A t \in Layer(0) : Body(none, t) = Body(p, t)
    <3> HIDE DEF p, none, Body
    <3> QED BY <1>1, LayerKids
  <2>3. Correct(p, 0)
    BY <2>1, <2>2
  <2> HIDE DEF p, Correct
  <2> QED BY <2>3
<1>3. ASSUME NEW d \in Nat, d \in Solved PROVE d + 1 \in Solved
  <2>1. PICK p : Correct(p, d)
    BY <1>3
  <2> DEFINE q == [t \in Trees |-> Body(p, t)]
  <2>2. ASSUME NEW t \in Layer(d + 1) PROVE q[t] = Body(q, t)
    <3>1. t \in Trees /\ Kids(t) \subseteq Layer(d)
      BY LayerKids
    <3>2. \A kid \in Kids(t) : kid \in Trees /\ p[kid] = Body(p, kid)
      BY <2>1, <3>1, LayersAreTrees
    <3>3. q[t] = Body(p, t) /\ \A kid \in Kids(t) : q[kid] = p[kid]
      BY <3>1, <3>2
    <3> HIDE DEF q, Body
    <3> QED BY <1>1, <3>1, <3>3
  <2>3. Correct(q, d + 1)
    BY <2>2
  <2> HIDE DEF q, Correct
  <2>4. d + 1 \in Nat /\ \E r : Correct(r, d + 1)
    BY <2>3
  <2> QED BY <2>4
<1>4. \E p : p = [t \in Trees |-> Body(p, t)]
  <2>1. TreeDepth \in Solved
    <3> HIDE DEF Solved
    <3> QED BY <1>2, <1>3, Induction, TreeDepthAssumption
  <2>2. PICK p : \A t \in Trees : p[t] = Body(p, t)
    BY <2>1, Layers
  <2> DEFINE q == [t \in Trees |-> p[t]]
  <2>3. ASSUME NEW t \in Trees PROVE q[t] = Body(q, t)
    <3>1. \A kid \in Kids(t) : q[kid] = p[kid]
      BY LayerKids
    <3>2. q[t] = Body(p, t)
      BY <2>2
    <3> HIDE DEF q, Body
    <3> QED BY <1>1, <3>1, <3>2
  <2>4. q = [t \in Trees |-> Body(q, t)]
    BY <2>3, Zenon
  <2> HIDE DEF q
  <2> QED BY <2>4
<1>5. value = [t \in Trees |-> Body(value, t)]
  <2> HIDE DEF Body
  <2> QED BY <1>4
<1>6. \A t \in Trees : Evaluate(t, values, bits) = value[t]
  BY DEF Evaluate, NodeValue
<1> HIDE DEF value
<1>7. \A t \in Trees : value[t] = NodeValue(value, t, values, bits)
  BY <1>5, Zenon
<1> QED BY <1>6, <1>7

LEMMA EvaluateAt ==
    \A values, bits : \A t \in Trees :
        /\ IsConst(t) => Evaluate(t, values, bits) = t.value % TwoTo(bits)
        /\ IsVar(t) => Evaluate(t, values, bits) = values[t.name] % TwoTo(bits)
        /\ IsUn(t) => Evaluate(t, values, bits) =
               IF t.op = "-" THEN (- Evaluate(t.a, values, bits)) % TwoTo(bits)
               ELSE Ones(bits) - Evaluate(t.a, values, bits)
        /\ IsBin(t) => Evaluate(t, values, bits) =
               Apply(t.op, Evaluate(t.a, values, bits), Evaluate(t.b, values, bits), bits)
<1> TAKE values, bits
<1> TAKE t \in Trees
<1>1. PICK value : /\ \A s \in Trees : value[s] = NodeValue(value, s, values, bits)
                   /\ \A s \in Trees : Evaluate(s, values, bits) = value[s]
  BY EvaluateUnfold
<1>2. CASE IsConst(t)
  BY <1>1, <1>2 DEF NodeValue, IsConst, IsVar, IsUn, IsBin
<1>3. CASE IsVar(t)
  BY <1>1, <1>3 DEF NodeValue, IsConst, IsVar, IsUn, IsBin
<1>4. CASE IsUn(t)
  BY <1>1, <1>4 DEF NodeValue, IsConst, IsVar, IsUn, IsBin
<1>5. CASE IsBin(t)
  BY <1>1, <1>5 DEF NodeValue, IsConst, IsVar, IsUn, IsBin
<1> QED BY <1>2, <1>3, <1>4, <1>5, TreeShape

-----------------------------------------------------------------------------
(* What renaming comes to at a node.                                       *)
NodeRenamed(renamed, t, to) ==
    CASE t.kind = "const" -> t
      [] t.kind = "var"   -> Var(to[t.name])
      [] t.kind = "un"    -> Un(t.op, renamed[t.a])
      [] OTHER            -> Bin(t.op, renamed[t.a], renamed[t.b])

LEMMA RenameUnfold ==
    \A to : \E renamed :
        /\ \A t \in Trees : renamed[t] = NodeRenamed(renamed, t, to)
        /\ \A t \in Trees : Rename(t, to) = renamed[t]
<1> SUFFICES ASSUME NEW to
             PROVE  \E renamed :
                        /\ \A t \in Trees : renamed[t] = NodeRenamed(renamed, t, to)
                        /\ \A t \in Trees : Rename(t, to) = renamed[t]
  OBVIOUS
<1> DEFINE Body(p, t) == NodeRenamed(p, t, to)
           Correct(p, d) == \A t \in Layer(d) : p[t] = Body(p, t)
           Solved == {d \in Nat : \E p : Correct(p, d)}
           renamed == CHOOSE p : p = [t \in Trees |-> Body(p, t)]
<1>1. ASSUME NEW p, NEW q, NEW t \in Trees, \A kid \in Kids(t) : p[kid] = q[kid]
      PROVE  Body(p, t) = Body(q, t)
  <2>1. t.kind = "un" => t.a \in Kids(t)
    BY DEF Kids
  <2>2. t.kind = "bin" => t.a \in Kids(t) /\ t.b \in Kids(t)
    BY DEF Kids
  <2>3. t.kind \in {"const", "var", "un", "bin"}
    BY TreeShape DEF IsConst, IsVar, IsUn, IsBin
  <2> QED BY <1>1, <2>1, <2>2, <2>3 DEF NodeRenamed
<1>2. 0 \in Solved
  <2> DEFINE none == [t \in Trees |-> 0]
             p == [t \in Trees |-> Body(none, t)]
  <2>1. \A t \in Layer(0) : p[t] = Body(none, t)
    BY LayerKids
  <2>2. \A t \in Layer(0) : Body(none, t) = Body(p, t)
    <3> HIDE DEF p, none, Body
    <3> QED BY <1>1, LayerKids
  <2>3. Correct(p, 0)
    BY <2>1, <2>2
  <2> HIDE DEF p, Correct
  <2> QED BY <2>3
<1>3. ASSUME NEW d \in Nat, d \in Solved PROVE d + 1 \in Solved
  <2>1. PICK p : Correct(p, d)
    BY <1>3
  <2> DEFINE q == [t \in Trees |-> Body(p, t)]
  <2>2. ASSUME NEW t \in Layer(d + 1) PROVE q[t] = Body(q, t)
    <3>1. t \in Trees /\ Kids(t) \subseteq Layer(d)
      BY LayerKids
    <3>2. \A kid \in Kids(t) : kid \in Trees /\ p[kid] = Body(p, kid)
      BY <2>1, <3>1, LayersAreTrees
    <3>3. q[t] = Body(p, t) /\ \A kid \in Kids(t) : q[kid] = p[kid]
      BY <3>1, <3>2
    <3> HIDE DEF q, Body
    <3> QED BY <1>1, <3>1, <3>3
  <2>3. Correct(q, d + 1)
    BY <2>2
  <2> HIDE DEF q, Correct
  <2>4. d + 1 \in Nat /\ \E r : Correct(r, d + 1)
    BY <2>3
  <2> QED BY <2>4
<1>4. \E p : p = [t \in Trees |-> Body(p, t)]
  <2>1. TreeDepth \in Solved
    <3> HIDE DEF Solved
    <3> QED BY <1>2, <1>3, Induction, TreeDepthAssumption
  <2>2. PICK p : \A t \in Trees : p[t] = Body(p, t)
    BY <2>1, Layers
  <2> DEFINE q == [t \in Trees |-> p[t]]
  <2>3. ASSUME NEW t \in Trees PROVE q[t] = Body(q, t)
    <3>1. \A kid \in Kids(t) : q[kid] = p[kid]
      BY LayerKids
    <3>2. q[t] = Body(p, t)
      BY <2>2
    <3> HIDE DEF q, Body
    <3> QED BY <1>1, <3>1, <3>2
  <2>4. q = [t \in Trees |-> Body(q, t)]
    BY <2>3, Zenon
  <2> HIDE DEF q
  <2> QED BY <2>4
<1>5. renamed = [t \in Trees |-> Body(renamed, t)]
  <2> HIDE DEF Body
  <2> QED BY <1>4
<1>6. \A t \in Trees : Rename(t, to) = renamed[t]
  BY DEF Rename, NodeRenamed
<1> HIDE DEF renamed
<1>7. \A t \in Trees : renamed[t] = NodeRenamed(renamed, t, to)
  BY <1>5, Zenon
<1> QED BY <1>6, <1>7

LEMMA RenameAt ==
    \A to : \A t \in Trees :
        /\ IsConst(t) => Rename(t, to) = t
        /\ IsVar(t) => Rename(t, to) = Var(to[t.name])
        /\ IsUn(t) => Rename(t, to) = Un(t.op, Rename(t.a, to))
        /\ IsBin(t) => Rename(t, to) = Bin(t.op, Rename(t.a, to), Rename(t.b, to))
<1> TAKE to
<1> TAKE t \in Trees
<1>1. PICK renamed : /\ \A s \in Trees : renamed[s] = NodeRenamed(renamed, s, to)
                     /\ \A s \in Trees : Rename(s, to) = renamed[s]
  BY RenameUnfold
<1>2. CASE IsConst(t)
  BY <1>1, <1>2 DEF NodeRenamed, IsConst, IsVar, IsUn, IsBin
<1>3. CASE IsVar(t)
  BY <1>1, <1>3 DEF NodeRenamed, IsConst, IsVar, IsUn, IsBin
<1>4. CASE IsUn(t)
  BY <1>1, <1>4 DEF NodeRenamed, IsConst, IsVar, IsUn, IsBin
<1>5. CASE IsBin(t)
  BY <1>1, <1>5 DEF NodeRenamed, IsConst, IsVar, IsUn, IsBin
<1> QED BY <1>2, <1>3, <1>4, <1>5, TreeShape

-----------------------------------------------------------------------------
(* The names of a tree.                                                    *)
LEMMA WalkAt ==
    \A t \in Trees : \A seen \in Seq(Names) :
        /\ Walk(t, seen) \in Seq(Names)
        /\ IsConst(t) => Walk(t, seen) = seen
        /\ IsVar(t) => Walk(t, seen) = IF t.name \in ToSet(seen) THEN seen ELSE Append(seen, t.name)
        /\ IsUn(t) => Walk(t, seen) = Walk(t.a, seen)
        /\ IsBin(t) => Walk(t, seen) = Walk(t.b, Walk(t.a, seen))
<1> DEFINE V == [Seq(Names) -> Seq(Names)]
           Body(p, t) ==
               [seen \in Seq(Names) |->
                   CASE t.kind = "const" -> seen
                     [] t.kind = "var"   -> IF t.name \in ToSet(seen) THEN seen
                                            ELSE Append(seen, t.name)
                     [] t.kind = "un"    -> p[t.a][seen]
                     [] OTHER            -> p[t.b][p[t.a][seen]]]
           F == [p \in [Trees -> V] |-> [t \in Trees |-> Body(p, t)]]
           walk == CHOOSE p : p = [t \in Trees |-> Body(p, t)]
<1>1. ASSUME NEW p \in [Trees -> V], NEW t \in Trees PROVE Body(p, t) \in V
  <2>1. CASE IsConst(t)
    BY <2>1 DEF IsConst
  <2>2. CASE IsVar(t)
    BY <2>2 DEF IsVar
  <2>3. CASE IsUn(t)
    BY <2>3 DEF IsUn
  <2>4. CASE IsBin(t)
    BY <2>4 DEF IsBin
  <2> QED BY <2>1, <2>2, <2>3, <2>4, TreeShape
<1>2. ASSUME NEW p, NEW q, NEW t \in Trees, \A kid \in Kids(t) : p[kid] = q[kid]
      PROVE  Body(p, t) = Body(q, t)
  <2>1. CASE IsConst(t)
    BY <2>1 DEF IsConst
  <2>2. CASE IsVar(t)
    BY <2>2 DEF IsVar
  <2>3. CASE IsUn(t)
    BY <1>2, <2>3 DEF IsUn
  <2>4. CASE IsBin(t)
    BY <1>2, <2>4 DEF IsBin
  <2> QED BY <2>1, <2>2, <2>3, <2>4, TreeShape
<1>3. F \in [[Trees -> V] -> [Trees -> V]]
  <2> HIDE DEF V, Body
  <2> QED BY <1>1
<1>4. \E p \in [Trees -> V] : p = [t \in Trees |-> Body(p, t)]
  <2>1. V # {}
    <3>1. [seen \in Seq(Names) |-> seen] \in V
      OBVIOUS
    <3> QED BY <3>1
  <2>2. ASSUME NEW g \in [Trees -> V], NEW h \in [Trees -> V], NEW t \in Trees,
               \A kid \in Kids(t) : g[kid] = h[kid]
        PROVE  F[g][t] = F[h][t]
    <3> HIDE DEF V, Body
    <3> QED BY <1>2, <2>2
  <2>3. \E p \in [Trees -> V] : p = F[p]
    <3> HIDE DEF F, V
    <3> QED BY <1>3, <2>1, <2>2, TreeRecursion
  <2> HIDE DEF V, Body
  <2> QED BY <2>3
<1>5. walk = [t \in Trees |-> Body(walk, t)]
  <2> HIDE DEF Body
  <2> QED BY <1>4
<1>6. \A t \in Trees : \A seen : Walk(t, seen) = walk[t][seen]
  BY DEF Walk
<1> HIDE DEF walk
<1>7. walk \in [Trees -> V]
  <2> DEFINE Good == {t \in Trees : walk[t] \in V}
  <2>1. ASSUME NEW t \in Trees, Kids(t) \subseteq Good PROVE t \in Good
    <3> DEFINE p == [s \in Trees |-> IF s \in Good THEN walk[s] ELSE [seen \in Seq(Names) |-> seen]]
    <3>1. p \in [Trees -> V]
      OBVIOUS
    <3>2. \A kid \in Kids(t) : p[kid] = walk[kid]
      BY <2>1
    <3> HIDE DEF p, V, Body
    <3>3. Body(walk, t) \in V
      BY <1>1, <1>2, <3>1, <3>2
    <3> QED BY <1>5, <3>3
  <2>2. Trees \subseteq Good
    <3> HIDE DEF Good
    <3> QED BY <2>1, TreeInduction
  <2> HIDE DEF V, Body
  <2> QED BY <1>5, <2>2
<1> TAKE t \in Trees
<1> TAKE seen \in Seq(Names)
<1>8. walk[t] = Body(walk, t)
  <2> HIDE DEF Body
  <2> QED BY <1>5
<1>9. \A s \in Trees : walk[s] \in V
  BY <1>7
<1>10. CASE IsConst(t)
  BY <1>6, <1>8, <1>9, <1>10 DEF IsConst, IsVar, IsUn, IsBin
<1>11. CASE IsVar(t)
  BY <1>6, <1>8, <1>9, <1>11 DEF IsConst, IsVar, IsUn, IsBin
<1>12. CASE IsUn(t)
  <2>1. walk[t][seen] = walk[t.a][seen]
    BY <1>8, <1>12 DEF IsUn
  <2>2. walk[t.a] \in V /\ Walk(t, seen) = walk[t][seen] /\ Walk(t.a, seen) = walk[t.a][seen]
    BY <1>6, <1>9, <1>12 DEF IsUn
  <2> QED BY <1>12, <2>1, <2>2 DEF IsConst, IsVar, IsUn, IsBin
<1>13. CASE IsBin(t)
  <2>1. walk[t][seen] = walk[t.b][walk[t.a][seen]]
    BY <1>8, <1>13 DEF IsBin
  <2>2. walk[t.a] \in V /\ walk[t.b] \in V
    BY <1>9, <1>13 DEF IsBin
  <2>3. /\ Walk(t, seen) = walk[t][seen] /\ Walk(t.a, seen) = walk[t.a][seen]
        /\ Walk(t.b, Walk(t.a, seen)) = walk[t.b][Walk(t.a, seen)]
    BY <1>6, <1>13 DEF IsBin
  <2> QED BY <1>13, <2>1, <2>2, <2>3 DEF IsConst, IsVar, IsUn, IsBin
<1> QED BY <1>10, <1>11, <1>12, <1>13, TreeShape

NamesOf(t) == ToSet(LeafNames(t))

LEMMA ToSetFacts ==
    /\ ToSet(<<>>) = {}
    /\ \A T : \A s \in Seq(T), x \in T : ToSet(Append(s, x)) = ToSet(s) \cup {x}
    /\ \A T : \A s \in Seq(T) : ToSet(s) \subseteq T
<1>1. ASSUME NEW T, NEW s \in Seq(T), NEW x \in T PROVE ToSet(Append(s, x)) = ToSet(s) \cup {x}
  <2>1. /\ DOMAIN Append(s, x) = 1 .. Len(s) + 1 /\ DOMAIN s = 1 .. Len(s) /\ Len(s) \in Nat
        /\ \A i \in 1 .. Len(s) : Append(s, x)[i] = s[i]
        /\ Append(s, x)[Len(s) + 1] = x
    OBVIOUS
  <2>2. 1 .. Len(s) + 1 = (1 .. Len(s)) \cup {Len(s) + 1}
    BY <2>1
  <2> QED BY <2>1, <2>2 DEF ToSet
<1> QED BY <1>1 DEF ToSet

LEMMA WalkCollects ==
    \A t \in Trees : \A seen \in Seq(Names) : ToSet(Walk(t, seen)) = ToSet(seen) \cup NamesOf(t)
<1> DEFINE Good == {t \in Trees : \A seen \in Seq(Names) :
                       ToSet(Walk(t, seen)) = ToSet(seen) \cup NamesOf(t)}
<1>0. <<>> \in Seq(Names)
  OBVIOUS
<1>1. ASSUME NEW t \in Trees, Kids(t) \subseteq Good PROVE t \in Good
  <2>1. CASE IsConst(t)
    BY <1>0, <2>1, WalkAt, ToSetFacts DEF NamesOf, LeafNames
  <2>2. CASE IsVar(t)
    <3>1. t.name \in Names
      BY <2>2 DEF IsVar
    <3>2. ASSUME NEW seen \in Seq(Names) PROVE ToSet(Walk(t, seen)) = ToSet(seen) \cup {t.name}
      <4>1. ToSet(Append(seen, t.name)) = ToSet(seen) \cup {t.name}
        BY <3>1, ToSetFacts
      <4> QED BY <2>2, <4>1, WalkAt
    <3>3. NamesOf(t) = {t.name}
      BY <1>0, <3>2, ToSetFacts DEF NamesOf, LeafNames
    <3> QED BY <3>2, <3>3
  <2>3. CASE IsUn(t)
    <3>1. t.a \in Good
      BY <1>1, <2>3 DEF IsUn
    <3>2. NamesOf(t) = NamesOf(t.a)
      BY <1>0, <2>3, WalkAt DEF NamesOf, LeafNames
    <3>3. ASSUME NEW seen \in Seq(Names) PROVE ToSet(Walk(t, seen)) = ToSet(seen) \cup NamesOf(t)
      BY <2>3, <3>1, <3>2, WalkAt
    <3> QED BY <3>3
  <2>4. CASE IsBin(t)
    <3>1. t.a \in Good /\ t.b \in Good
      BY <1>1, <2>4 DEF IsBin
    <3>2. \A seen \in Seq(Names) : Walk(t.a, seen) \in Seq(Names)
      BY <3>1, WalkAt
    <3>3. ASSUME NEW seen \in Seq(Names)
          PROVE  ToSet(Walk(t, seen)) = (ToSet(seen) \cup NamesOf(t.a)) \cup NamesOf(t.b)
      <4>1. Walk(t, seen) = Walk(t.b, Walk(t.a, seen))
        BY <2>4, WalkAt
      <4> QED BY <3>1, <3>2, <4>1
    <3>4. NamesOf(t) = NamesOf(t.a) \cup NamesOf(t.b)
      BY <1>0, <3>3, ToSetFacts DEF NamesOf, LeafNames
    <3> QED BY <3>3, <3>4
  <2> QED BY <2>1, <2>2, <2>3, <2>4, TreeShape
<1>2. Trees \subseteq Good
  <2> HIDE DEF Good
  <2> QED BY <1>1, TreeInduction
<1> QED BY <1>2

LEMMA NamesAt ==
    \A t \in Trees :
        /\ NamesOf(t) \subseteq Names /\ LeafNames(t) \in Seq(Names)
        /\ IsConst(t) => NamesOf(t) = {}
        /\ IsVar(t) => NamesOf(t) = {t.name}
        /\ IsUn(t) => NamesOf(t) = NamesOf(t.a)
        /\ IsBin(t) => NamesOf(t) = NamesOf(t.a) \cup NamesOf(t.b)
<1> TAKE t \in Trees
<1>0. <<>> \in Seq(Names)
  OBVIOUS
<1>1. LeafNames(t) \in Seq(Names) /\ NamesOf(t) \subseteq Names
  BY <1>0, WalkAt, ToSetFacts DEF NamesOf, LeafNames
<1>2. IsConst(t) => NamesOf(t) = {}
  BY <1>0, WalkAt, ToSetFacts DEF NamesOf, LeafNames
<1>3. ASSUME IsVar(t) PROVE NamesOf(t) = {t.name}
  <2>1. t.name \in Names
    BY <1>3 DEF IsVar
  <2>2. ToSet(Append(<<>>, t.name)) = {t.name} /\ t.name \notin ToSet(<<>>)
    <3>1. \A s \in Seq(Names), x \in Names : ToSet(Append(s, x)) = ToSet(s) \cup {x}
      BY ToSetFacts
    <3>2. ToSet(<<>>) = {}
      BY ToSetFacts
    <3> QED BY <1>0, <2>1, <3>1, <3>2
  <2>3. Walk(t, <<>>) = Append(<<>>, t.name)
    BY <1>0, <1>3, <2>2, WalkAt
  <2> QED BY <2>2, <2>3 DEF NamesOf, LeafNames
<1>4. IsUn(t) => NamesOf(t) = NamesOf(t.a)
  BY <1>0, WalkAt DEF NamesOf, LeafNames
<1>5. IsBin(t) => NamesOf(t) = NamesOf(t.a) \cup NamesOf(t.b)
  <2> SUFFICES ASSUME IsBin(t) PROVE NamesOf(t) = NamesOf(t.a) \cup NamesOf(t.b)
    OBVIOUS
  <2>1. t.a \in Trees /\ t.b \in Trees
    BY DEF IsBin
  <2>2. LeafNames(t) = Walk(t.b, LeafNames(t.a)) /\ LeafNames(t.a) \in Seq(Names)
    BY <1>0, <2>1, WalkAt DEF LeafNames
  <2> QED BY <2>1, <2>2, WalkCollects DEF NamesOf
<1> QED BY <1>1, <1>2, <1>3, <1>4, <1>5

(* A tree is worth a word when its names are worth integers.               *)
LEMMA EvaluateIsWord ==
    ASSUME NEW bits \in Nat, NEW values, NEW t \in Trees,
           \A n \in NamesOf(t) : values[n] \in Int
    PROVE  Evaluate(t, values, bits) \in Words(bits)
<1> DEFINE Good == {s \in Trees : (\A n \in NamesOf(s) : values[n] \in Int)
                                     => Evaluate(s, values, bits) \in Words(bits)}
<1>0. /\ TwoTo(bits) \in Nat \ {0} /\ Words(bits) \subseteq Int
      /\ \A z \in Int : z % TwoTo(bits) \in Words(bits)
      /\ \A z \in Words(bits) : Ones(bits) - z \in Words(bits)
  BY PowerOfTwo DEF Words, Ones
<1>1. ASSUME NEW s \in Trees, Kids(s) \subseteq Good, \A n \in NamesOf(s) : values[n] \in Int
      PROVE  Evaluate(s, values, bits) \in Words(bits)
  <2>1. CASE IsConst(s)
    BY <1>0, <2>1, EvaluateAt DEF IsConst
  <2>2. CASE IsVar(s)
    <3>1. values[s.name] \in Int
      BY <1>1, <2>2, NamesAt
    <3>2. Evaluate(s, values, bits) = values[s.name] % TwoTo(bits)
      BY <2>2, EvaluateAt
    <3> QED BY <1>0, <3>1, <3>2
  <2>3. CASE IsUn(s)
    <3>1. s.a \in Good /\ \A n \in NamesOf(s.a) : values[n] \in Int
      BY <1>1, <2>3, NamesAt DEF IsUn
    <3>2. Evaluate(s.a, values, bits) \in Words(bits)
      BY <3>1
    <3>3. - Evaluate(s.a, values, bits) \in Int
      BY <1>0, <3>2
    <3> QED BY <1>0, <2>3, <3>2, <3>3, EvaluateAt
  <2>4. CASE IsBin(s)
    <3>1. s.a \in Good /\ s.b \in Good /\ \A n \in NamesOf(s.a) \cup NamesOf(s.b) : values[n] \in Int
      BY <1>1, <2>4, NamesAt DEF IsBin
    <3>2. Evaluate(s.a, values, bits) \in Int /\ Evaluate(s.b, values, bits) \in Int
      BY <1>0, <3>1
    <3>3. s.op \in {"+", "-", "*", "&", "|", "^"}
      BY <2>4 DEF IsBin
    <3>4. Apply(s.op, Evaluate(s.a, values, bits), Evaluate(s.b, values, bits), bits) \in Words(bits)
      BY <3>2, <3>3, ApplyIsWord
    <3> QED BY <2>4, <3>4, EvaluateAt
  <2> QED BY <2>1, <2>2, <2>3, <2>4, TreeShape
<1>2. Trees \subseteq Good
  <2>1. \A s \in Trees : Kids(s) \subseteq Good => s \in Good
    BY <1>1
  <2> HIDE DEF Good
  <2> QED BY <2>1, TreeInduction
<1> QED BY <1>2

-----------------------------------------------------------------------------
(* Renaming.                                                               *)
LEMMA RenameIsTree ==
    ASSUME NEW to, NEW t \in Trees, \A n \in NamesOf(t) : to[n] \in Names
    PROVE  Rename(t, to) \in Trees
<1> DEFINE Fits(s, d) == (\A n \in NamesOf(s) : to[n] \in Names) => Rename(s, to) \in Layer(d)
           Good == {d \in Nat : d <= TreeDepth => \A s \in Layer(d) : Fits(s, d)}
<1>1. ASSUME NEW d \in Nat, NEW s \in Leaves, s \in Trees,
             \A n \in NamesOf(s) : to[n] \in Names
      PROVE  Rename(s, to) \in Layer(d)
  <2>1. CASE IsConst(s)
    BY <1>1, <2>1, RenameAt, Layers
  <2>2. CASE IsVar(s)
    <3>1. Rename(s, to) = Var(to[s.name]) /\ to[s.name] \in Names
      BY <1>1, <2>2, RenameAt, NamesAt
    <3>2. Rename(s, to) \in Leaves
      BY <3>1 DEF Leaves, Var
    <3> QED BY <3>2, Layers
  <2> QED BY <2>1, <2>2 , <1>1, TreeShape DEF Leaves, IsUn, IsBin
<1>2. 0 \in Good
  BY <1>1, Layers, LayerKids
<1>3. ASSUME NEW d \in Nat, d \in Good, d + 1 <= TreeDepth, NEW s \in Layer(d + 1),
             \A n \in NamesOf(s) : to[n] \in Names
      PROVE  Rename(s, to) \in Layer(d + 1)
  <2>1. s \in Trees /\ Kids(s) \subseteq Layer(d) /\ d + 1 \in Nat /\ d <= TreeDepth
    BY <1>3, LayerKids, TreeDepthAssumption
  <2>2. CASE s \in Leaves
    BY <1>1, <1>3, <2>1, <2>2
  <2>3. CASE IsUn(s)
    <3>1. s.a \in Layer(d) /\ NamesOf(s.a) = NamesOf(s)
      BY <2>1, <2>3, NamesAt DEF IsUn
    <3>2. Rename(s.a, to) \in Layer(d)
      BY <1>3, <2>1, <3>1
    <3>3. Rename(s, to) \in Nodes(Layer(d))
      BY <2>1, <2>3, <3>2, RenameAt DEF Nodes, Un, IsUn
    <3> QED BY <1>3, <3>3, Layers
  <2>4. CASE IsBin(s)
    <3>1. s.a \in Layer(d) /\ s.b \in Layer(d) /\ NamesOf(s) = NamesOf(s.a) \cup NamesOf(s.b)
      BY <2>1, <2>4, NamesAt DEF IsBin
    <3>2. Rename(s.a, to) \in Layer(d) /\ Rename(s.b, to) \in Layer(d)
      BY <1>3, <2>1, <3>1
    <3>3. Rename(s, to) \in Nodes(Layer(d))
      BY <2>1, <2>4, <3>2, RenameAt DEF Nodes, Bin, IsBin
    <3> QED BY <1>3, <3>3, Layers
  <2>5. s \in Leaves \/ IsUn(s) \/ IsBin(s)
    <3>1. s \in Leaves \/ s \in Nodes(Layer(d))
      BY <1>3, Layers
    <3> QED BY <2>1, <3>1, TreeShape DEF Nodes, IsConst, IsVar
  <2> QED BY <2>2, <2>3, <2>4, <2>5
<1>4. \A d \in Nat : d \in Good => d + 1 \in Good
  BY <1>3
<1>5. TreeDepth \in Good
  <2> HIDE DEF Good
  <2> QED BY <1>2, <1>4, Induction, TreeDepthAssumption
<1> QED BY <1>5, Layers, TreeDepthAssumption

LEMMA RenameNames ==
    ASSUME NEW to, NEW t \in Trees, \A n \in NamesOf(t) : to[n] \in Names
    PROVE  NamesOf(Rename(t, to)) = {to[n] : n \in NamesOf(t)}
<1> DEFINE Good == {s \in Trees : (\A n \in NamesOf(s) : to[n] \in Names)
                                     => NamesOf(Rename(s, to)) = {to[n] : n \in NamesOf(s)}}
<1>1. ASSUME NEW s \in Trees, Kids(s) \subseteq Good, \A n \in NamesOf(s) : to[n] \in Names
      PROVE  NamesOf(Rename(s, to)) = {to[n] : n \in NamesOf(s)}
  <2>0. Rename(s, to) \in Trees
    BY <1>1, RenameIsTree
  <2>1. CASE IsConst(s)
    BY <2>1, RenameAt, NamesAt
  <2>2. CASE IsVar(s)
    <3>1. Rename(s, to) = Var(to[s.name])
      BY <2>2, RenameAt
    <3>2. IsVar(Rename(s, to)) /\ Rename(s, to).name = to[s.name]
      BY <2>0, <3>1, TreeShape DEF IsConst, IsVar, IsUn, IsBin, Var
    <3>3. NamesOf(Rename(s, to)) = {to[s.name]}
      BY <2>0, <3>2, NamesAt
    <3> QED BY <2>2, <3>3, NamesAt
  <2>3. CASE IsUn(s)
    <3>1. s.a \in Good /\ NamesOf(s.a) = NamesOf(s)
      BY <1>1, <2>3, NamesAt DEF IsUn
    <3>2. Rename(s, to) = Un(s.op, Rename(s.a, to))
      BY <2>3, RenameAt
    <3>3. IsUn(Rename(s, to)) /\ Rename(s, to).a = Rename(s.a, to)
      BY <2>0, <3>2, TreeShape DEF IsConst, IsVar, IsUn, IsBin, Un
    <3>4. NamesOf(Rename(s, to)) = NamesOf(Rename(s.a, to))
      BY <2>0, <3>3, NamesAt
    <3> QED BY <1>1, <3>1, <3>4
  <2>4. CASE IsBin(s)
    <3>1. s.a \in Good /\ s.b \in Good /\ NamesOf(s) = NamesOf(s.a) \cup NamesOf(s.b)
      BY <1>1, <2>4, NamesAt DEF IsBin
    <3>2. Rename(s, to) = Bin(s.op, Rename(s.a, to), Rename(s.b, to))
      BY <2>4, RenameAt
    <3>3. /\ IsBin(Rename(s, to))
          /\ Rename(s, to).a = Rename(s.a, to) /\ Rename(s, to).b = Rename(s.b, to)
      BY <2>0, <3>2, TreeShape DEF IsConst, IsVar, IsUn, IsBin, Bin
    <3>4. NamesOf(Rename(s, to)) = NamesOf(Rename(s.a, to)) \cup NamesOf(Rename(s.b, to))
      BY <2>0, <3>3, NamesAt
    <3> QED BY <1>1, <3>1, <3>4
  <2> QED BY <2>1, <2>2, <2>3, <2>4, TreeShape
<1>2. Trees \subseteq Good
  <2>1. \A s \in Trees : Kids(s) \subseteq Good => s \in Good
    BY <1>1
  <2> HIDE DEF Good
  <2> QED BY <2>1, TreeInduction
<1> QED BY <1>2

(* A renamed tree is worth what the tree is when its names are.            *)
LEMMA RenameEvaluate ==
    ASSUME NEW bits, NEW to, NEW v, NEW w, NEW t \in Trees,
           \A n \in NamesOf(t) : to[n] \in Names /\ v[n] = w[to[n]]
    PROVE  Evaluate(Rename(t, to), w, bits) = Evaluate(t, v, bits)
<1> DEFINE Hyp(s) == \A n \in NamesOf(s) : to[n] \in Names /\ v[n] = w[to[n]]
           Good == {s \in Trees : Hyp(s) => Evaluate(Rename(s, to), w, bits) = Evaluate(s, v, bits)}
<1>1. ASSUME NEW s \in Trees, Kids(s) \subseteq Good, Hyp(s)
      PROVE  Evaluate(Rename(s, to), w, bits) = Evaluate(s, v, bits)
  <2>0. Rename(s, to) \in Trees
    BY <1>1, RenameIsTree
  <2>1. CASE IsConst(s)
    BY <2>1, RenameAt, EvaluateAt
  <2>2. CASE IsVar(s)
    <3>1. Rename(s, to) = Var(to[s.name])
      BY <2>2, RenameAt
    <3>2. IsVar(Rename(s, to)) /\ Rename(s, to).name = to[s.name]
      BY <2>0, <3>1, TreeShape DEF IsConst, IsVar, IsUn, IsBin, Var
    <3>3. v[s.name] = w[to[s.name]]
      BY <1>1, <2>2, NamesAt
    <3>4. Evaluate(Rename(s, to), w, bits) = w[to[s.name]] % TwoTo(bits)
      BY <2>0, <3>2, EvaluateAt
    <3>5. Evaluate(s, v, bits) = v[s.name] % TwoTo(bits)
      BY <2>2, EvaluateAt
    <3> QED BY <3>3, <3>4, <3>5
  <2>3. CASE IsUn(s)
    <3>1. s.a \in Good /\ NamesOf(s.a) = NamesOf(s)
      BY <1>1, <2>3, NamesAt DEF IsUn
    <3>2. Rename(s, to) = Un(s.op, Rename(s.a, to))
      BY <2>3, RenameAt
    <3>3. IsUn(Rename(s, to)) /\ Rename(s, to).a = Rename(s.a, to) /\ Rename(s, to).op = s.op
      BY <2>0, <3>2, TreeShape DEF IsConst, IsVar, IsUn, IsBin, Un
    <3>4. Evaluate(Rename(s.a, to), w, bits) = Evaluate(s.a, v, bits)
      BY <1>1, <3>1
    <3> QED BY <2>0, <2>3, <3>3, <3>4, EvaluateAt
  <2>4. CASE IsBin(s)
    <3>1. s.a \in Good /\ s.b \in Good /\ NamesOf(s) = NamesOf(s.a) \cup NamesOf(s.b)
      BY <1>1, <2>4, NamesAt DEF IsBin
    <3>2. Rename(s, to) = Bin(s.op, Rename(s.a, to), Rename(s.b, to))
      BY <2>4, RenameAt
    <3>3. /\ IsBin(Rename(s, to)) /\ Rename(s, to).op = s.op
          /\ Rename(s, to).a = Rename(s.a, to) /\ Rename(s, to).b = Rename(s.b, to)
      BY <2>0, <3>2, TreeShape DEF IsConst, IsVar, IsUn, IsBin, Bin
    <3>4. /\ Evaluate(Rename(s.a, to), w, bits) = Evaluate(s.a, v, bits)
          /\ Evaluate(Rename(s.b, to), w, bits) = Evaluate(s.b, v, bits)
      BY <1>1, <3>1
    <3> QED BY <2>0, <2>4, <3>3, <3>4, EvaluateAt
  <2> QED BY <2>1, <2>2, <2>3, <2>4, TreeShape
<1>2. Trees \subseteq Good
  <2>1. \A s \in Trees : Kids(s) \subseteq Good => s \in Good
    BY <1>1
  <2> HIDE DEF Good
  <2> QED BY <2>1, TreeInduction
<1> QED BY <1>2

-----------------------------------------------------------------------------
(* What the table keeps under a key is right for every tree with the key:  *)
(* a rewrite proved equivalent to one source, put in positions, is         *)
(* equivalent to any other source of the same canonical key once it is     *)
(* given that source's leaves.                                             *)
THEOREM KeyCarriesRewrite ==
    ASSUME NEW bits \in Nat \ {0}, NEW source \in Trees, NEW rewrite \in Trees, NEW other \in Trees,
           NamesOf(rewrite) \subseteq NamesOf(source),
           CanonicalKey(source, bits) = CanonicalKey(other, bits),
           Equivalent(source, rewrite, LeafNames(source), bits)
    PROVE  LET order == LeafNames(other)
               served == Instantiate(ToPositional(rewrite, LeafNames(source)), order)
           IN  served \in Trees /\ NamesOf(served) \subseteq NamesOf(other)
               /\ Equivalent(other, served, order, bits)
<1> DEFINE from == LeafNames(source)
           order == LeafNames(other)
           P == Positions(from)
           Q == Positions(order)
           I == [p \in {Position(i) : i \in DOMAIN order} |-> order[p.position]]
           key == Rename(other, Q)
           kept == Rename(rewrite, P)
           served == Rename(kept, I)
<1>1. from \in Seq(Names) /\ order \in Seq(Names)
  BY NamesAt
<1>2. ASSUME NEW s \in Seq(Names), NEW n \in ToSet(s)
      PROVE  /\ Positions(s)[n] \in Names
             /\ Positions(s)[n] \in {Position(i) : i \in DOMAIN s}
             /\ Positions(s)[n].position \in DOMAIN s
             /\ s[Positions(s)[n].position] = n
  <2> DEFINE i == CHOOSE j \in DOMAIN s : s[j] = n
  <2>1. i \in DOMAIN s /\ s[i] = n
    BY DEF ToSet
  <2>2. Positions(s)[n] = Position(i)
    BY DEF Positions, Numbering
  <2> HIDE DEF i
  <2>3. i \in Nat
    BY <2>1
  <2> QED BY <2>1, <2>2, <2>3 DEF Position, Names
<1>3. Rename(source, P) = key
  BY DEF CanonicalKey, ToPositional
<1>4. NamesOf(key) = {P[n] : n \in NamesOf(source)} /\ NamesOf(key) = {Q[n] : n \in NamesOf(other)}
  <2>1. \A n \in NamesOf(source) : P[n] \in Names
    BY <1>1, <1>2 DEF NamesOf
  <2>2. \A n \in NamesOf(other) : Q[n] \in Names
    BY <1>1, <1>2 DEF NamesOf
  <2> HIDE DEF P, Q
  <2> QED BY <1>3, <2>1, <2>2, RenameNames
<1>5. kept \in Trees /\ NamesOf(kept) = {P[n] : n \in NamesOf(rewrite)}
  <2>1. \A n \in NamesOf(rewrite) : P[n] \in Names
    BY <1>1, <1>2 DEF NamesOf
  <2> HIDE DEF P
  <2> QED BY <2>1, RenameIsTree, RenameNames
<1>6. ASSUME NEW p \in NamesOf(kept) \cup NamesOf(key)
      PROVE  p \in DOMAIN I /\ I[p] \in NamesOf(other)
  <2>1. PICK n \in NamesOf(other) : p = Q[n]
    BY <1>4, <1>5
  <2>2. p \in DOMAIN I /\ I[p] = n
    BY <1>1, <1>2, <2>1 DEF NamesOf
  <2> QED BY <2>2
<1>7. served \in Trees /\ NamesOf(served) \subseteq NamesOf(other)
  <2>1. \A p \in NamesOf(kept) : I[p] \in Names /\ I[p] \in NamesOf(other)
    BY <1>6, NamesAt
  <2> HIDE DEF I, kept
  <2>2. NamesOf(served) = {I[p] : p \in NamesOf(kept)} /\ served \in Trees
    BY <1>5, <2>1, RenameIsTree, RenameNames
  <2> QED BY <2>1, <2>2
<1>8. ASSUME NEW values \in [ToSet(order) -> Words(bits)]
      PROVE  Evaluate(other, values, bits) = Evaluate(served, values, bits)
  <2> DEFINE w == [p \in DOMAIN I |-> values[I[p]]]
             v == [n \in ToSet(from) |-> w[P[n]]]
  <2>1. Evaluate(key, w, bits) = Evaluate(other, values, bits)
    <3>1. \A n \in NamesOf(other) : Q[n] \in Names /\ values[n] = w[Q[n]]
      BY <1>1, <1>2 DEF NamesOf
    <3> HIDE DEF Q, w
    <3> QED BY <3>1, RenameEvaluate
  <2>2. \A n \in NamesOf(source) : P[n] \in Names /\ v[n] = w[P[n]]
    BY <1>1, <1>2 DEF NamesOf
  <2>3. Evaluate(key, w, bits) = Evaluate(source, v, bits)
    <3> HIDE DEF P, w, v, key
    <3> QED BY <1>3, <2>2, RenameEvaluate
  <2>4. Evaluate(kept, w, bits) = Evaluate(rewrite, v, bits)
    <3> HIDE DEF P, w, v
    <3> QED BY <2>2, RenameEvaluate
  <2>5. Evaluate(served, values, bits) = Evaluate(kept, w, bits)
    <3>1. \A p \in NamesOf(kept) : I[p] \in Names /\ w[p] = values[I[p]]
      BY <1>6, NamesAt
    <3> HIDE DEF I, w, kept
    <3> QED BY <1>5, <3>1, RenameEvaluate
  <2>6. v \in [ToSet(from) -> Words(bits)]
    <3>1. ASSUME NEW n \in ToSet(from) PROVE w[P[n]] \in Words(bits)
      <4>1. P[n] \in NamesOf(key)
        BY <1>4 DEF NamesOf
      <4>2. P[n] \in DOMAIN I /\ I[P[n]] \in ToSet(order)
        BY <1>6, <4>1 DEF NamesOf
      <4> QED BY <4>2
    <3> HIDE DEF w
    <3> QED BY <3>1
  <2>7. Evaluate(source, v, bits) = Evaluate(rewrite, v, bits)
    <3> HIDE DEF v
    <3> QED BY <2>6 DEF Equivalent
  <2> QED BY <2>1, <2>3, <2>4, <2>5, <2>7
<1>9. served = Instantiate(ToPositional(rewrite, from), order)
  BY DEF Instantiate, ToPositional
<1>10. Equivalent(other, served, order, bits)
  BY <1>8 DEF Equivalent
<1> HIDE DEF served
<1> QED BY <1>7, <1>9, <1>10

=============================================================================
