---------------------------- MODULE Expressions ----------------------------
(***************************************************************************)
(* The expression trees that cross every stage of the pipeline, expr.py,   *)
(* and the canonical form under which the table keeps them, table.py.      *)
(*                                                                         *)
(* A tree is the source's dict as a record, and a recursion over it is a   *)
(* function on the set of trees.  A leaf's name is an operand where the    *)
(* tree was lifted from microcode, a position where it is in the table.    *)
(* Words are unsigned and wrap.                                            *)
(***************************************************************************)
EXTENDS Integers, Sequences, SequencesExt

CONSTANTS
    Operands,  \* what a leaf of a lifted tree may stand for
    TreeDepth  \* how deep a tree may be

ASSUME TreeDepthAssumption == TreeDepth \in Nat

Const(v) == [kind |-> "const", value |-> v]
Var(n) == [kind |-> "var", name |-> n]
Un(op, a) == [kind |-> "un", op |-> op, a |-> a]
Bin(op, a, b) == [kind |-> "bin", op |-> op, a |-> a, b |-> b]

Position(i) == [position |-> i]
Names == Operands \cup [position : Nat]

Leaves == [kind : {"const"}, value : Nat] \cup [kind : {"var"}, name : Names]
Nodes(trees) ==
    [kind : {"un"}, op : {"-", "~"}, a : trees]
    \cup [kind : {"bin"}, op : {"+", "-", "*", "&", "|", "^"}, a : trees, b : trees]

TreesTo[depth \in 0 .. TreeDepth] ==
    IF depth = 0 THEN Leaves ELSE Leaves \cup Nodes(TreesTo[depth - 1])
Trees == TreesTo[TreeDepth]

IsLeaf(tree) == tree.kind \in {"const", "var"}

Children(tree) == CASE tree.kind = "un"  -> <<tree.a>>
                    [] tree.kind = "bin" -> <<tree.a, tree.b>>
                    [] OTHER             -> <<>>

----------------------------------------------------------------------------
TwoTo(n) == LET power[i \in 0 .. n] == IF i = 0 THEN 1 ELSE 2 * power[i - 1] IN power[n]

Words(bits) == 0 .. TwoTo(bits) - 1
Ones(bits) == TwoTo(bits) - 1

BitOf(v, bit) == (v \div TwoTo(bit)) % 2

(* The sum of the values of a function, and the word with given bits.      *)
Total(terms, bits) == SumFunction(terms) % TwoTo(bits)
FromBits(bit, bits) == Total([i \in DOMAIN bit |-> bit[i] * TwoTo(i)], bits)

And(x, y, bits) == FromBits([i \in 0 .. bits - 1 |-> BitOf(x, i) * BitOf(y, i)], bits)
Or(x, y, bits) ==
    FromBits([i \in 0 .. bits - 1 |-> IF 1 \in {BitOf(x, i), BitOf(y, i)} THEN 1 ELSE 0], bits)
Xor(x, y, bits) ==
    FromBits([i \in 0 .. bits - 1 |-> IF BitOf(x, i) # BitOf(y, i) THEN 1 ELSE 0], bits)

(* One operation of evaluate, on words that are already masked.            *)
Apply(op, x, y, bits) ==
    CASE op = "+" -> (x + y) % TwoTo(bits)
      [] op = "-" -> (x - y) % TwoTo(bits)
      [] op = "*" -> (x * y) % TwoTo(bits)
      [] op = "&" -> And(x, y, bits)
      [] op = "|" -> Or(x, y, bits)
      [] op = "^" -> Xor(x, y, bits)

Evaluate(tree, values, bits) ==
    LET value[t \in Trees] ==
            CASE t.kind = "const" -> t.value % TwoTo(bits)
              [] t.kind = "var"   -> values[t.name] % TwoTo(bits)
              [] t.kind = "un"    -> IF t.op = "-" THEN (- value[t.a]) % TwoTo(bits)
                                     ELSE Ones(bits) - value[t.a]
              [] OTHER            -> Apply(t.op, value[t.a], value[t.b], bits)
    IN value[tree]

NodeCount(tree) ==
    LET count[t \in Trees] ==
            CASE t.kind = "un"  -> 1 + count[t.a]
              [] t.kind = "bin" -> 1 + count[t.a] + count[t.b]
              [] OTHER          -> 1
    IN count[tree]

(* Mutant of AcceptRewrite: an equal size is taken too.                    *)
AcceptEqual(original, rewrite) == NodeCount(rewrite) <= NodeCount(original)

AcceptRewrite(original, rewrite) == NodeCount(rewrite) < NodeCount(original)

(* The names of a tree in the order it is read, after those already seen.  *)
Walk(tree, names) ==
    LET walk[t \in Trees] ==
            [seen \in Seq(Names) |->
                CASE t.kind = "const" -> seen
                  [] t.kind = "var"   -> IF t.name \in ToSet(seen) THEN seen
                                         ELSE Append(seen, t.name)
                  [] t.kind = "un"    -> walk[t.a][seen]
                  [] OTHER            -> walk[t.b][walk[t.a][seen]]]
    IN walk[tree][names]

LeafNames(tree) == Walk(tree, <<>>)

Operators(tree) ==
    LET operators[t \in Trees] ==
            CASE t.kind = "un"  -> {t.op} \cup operators[t.a]
              [] t.kind = "bin" -> {t.op} \cup operators[t.a] \cup operators[t.b]
              [] OTHER          -> {}
    IN operators[tree]

Constants(tree) ==
    LET constants[t \in Trees] ==
            CASE t.kind = "const" -> {t.value}
              [] t.kind = "var"   -> {}
              [] t.kind = "un"    -> constants[t.a]
              [] OTHER            -> constants[t.a] \cup constants[t.b]
    IN constants[tree]

(* A tree at every 0/1 assignment of its leaves: a solver's first input.   *)
Signature(tree, names, bits) ==
    [zeroOne \in [ToSet(names) -> {0, 1}] |-> Evaluate(tree, zeroOne, bits)]

(* What the bit-vector proof of prove_equivalent decides.                  *)
Equivalent(original, rewrite, names, bits) ==
    \A values \in [ToSet(names) -> Words(bits)] :
        Evaluate(original, values, bits) = Evaluate(rewrite, values, bits)

----------------------------------------------------------------------------
(* The table's key: names are replaced by the order of first occurrence.   *)

Rename(tree, to) ==
    LET renamed[t \in Trees] ==
            CASE t.kind = "const" -> t
              [] t.kind = "var"   -> Var(to[t.name])
              [] t.kind = "un"    -> Un(t.op, renamed[t.a])
              [] OTHER            -> Bin(t.op, renamed[t.a], renamed[t.b])
    IN renamed[tree]

Numbering(order) == [n \in ToSet(order) |-> CHOOSE i \in DOMAIN order : order[i] = n]
Positions(order) == [n \in ToSet(order) |-> Position(Numbering(order)[n])]

(* Mutant of ToPositional: leaves are numbered from the last one back.     *)
PositionalReversed(tree, order) == Rename(tree, Positions(Reverse(order)))

ToPositional(tree, order) == Rename(tree, Positions(order))

Instantiate(tree, order) ==
    Rename(tree, [p \in {Position(i) : i \in DOMAIN order} |-> order[p.position]])

CanonicalKey(tree, bits) == <<bits, ToPositional(tree, LeafNames(tree))>>

=============================================================================
