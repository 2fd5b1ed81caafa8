----------------------------- MODULE Detection -----------------------------
(***************************************************************************)
(* detect.py: how an instruction becomes an expression tree, what is a     *)
(* candidate, and how a block is searched for them.                        *)
(*                                                                         *)
(* A leaf is named by the operand it stands for: dstr tells two operands   *)
(* apart by their kind, place, size and value number, and these are also   *)
(* what a MopSnapshot keeps, so the source's leaf_snapshots is the         *)
(* identity here.  UnsupportedMicrocode is the tree Refused.               *)
(***************************************************************************)
EXTENDS Microcode, FiniteSetsExt

CONSTANTS
    Sizes,           \* the widths that are handled, (1, 2, 4, 8) in the source
    MaxLeaves,       \* DEFAULT_MAX_LEAVES
    MaxInlineDepth,  \* _MAX_INLINE_DEPTH
    MaxInlineNodes   \* _MAX_INLINE_NODES

ASSUME DetectionAssumption ==
    Sizes \subseteq Nat \ {0} /\ {MaxLeaves, MaxInlineDepth, MaxInlineNodes} \subseteq Nat

BoolOps == {"~", "|", "&", "^"}
ArithOps == {"-", "+", "*"}

UnaryOf == [neg |-> "-", bnot |-> "~"]

Refused == [kind |-> "refused"]
Unary(op, a) == IF a = Refused THEN Refused ELSE Un(op, a)
Binary(op, a, b) == IF Refused \in {a, b} THEN Refused ELSE Bin(op, a, b)

(* What is lifted may be half as deep as a tree: the encoding may put a    *)
(* negation under each of its nodes.                                       *)
LiftedTrees == TreesTo[TreeDepth \div 2]
Bounded(tree) == IF tree \in LiftedTrees THEN tree ELSE Refused

----------------------------------------------------------------------------
(* _TreeBuilder: one width is assumed for the whole of the instruction.    *)
(* shl by a constant is a product, xdu a conjunction with the source mask. *)

Lift(ins) ==
    LET lifted[i \in Instructions] ==
            LET operand(op) == CASE op.t = "n"  -> Const(op.value)
                                 [] op.t = "d"  -> lifted[op.ins]
                                 [] IsPlace(op) -> Var(op)
                                 [] OTHER       -> Refused
            IN CASE i.opcode = "shl" /\ i.r.t = "n" /\ i.r.value < 64 ->
                       Binary("*", operand(i.l), Const(2^i.r.value))
                 [] i.opcode = "xdu" /\ Bits(i.l.size) \in 1 .. 64 ->
                       Binary("&", operand(i.l), Const(Ones(Bits(i.l.size))))
                 [] i.opcode = "mov" -> operand(i.l)
                 [] i.opcode \in DOMAIN UnaryOf -> Unary(UnaryOf[i.opcode], operand(i.l))
                 [] i.opcode \in DOMAIN OperatorOf ->
                       Binary(OperatorOf[i.opcode], operand(i.l), operand(i.r))
                 [] OTHER -> Refused
    IN Bounded(lifted[ins])

SourceWidths(ins) ==
    LET widths[i \in Instructions] ==
            LET lifted == {i.l} \cup (IF i.opcode \in DOMAIN OperatorOf THEN {i.r} ELSE {})
            IN {i.d.size} \cup {op.size : op \in lifted}
               \cup UNION {widths[op.ins] : op \in {o \in lifted : o.t = "d"}}
    IN widths[ins]

----------------------------------------------------------------------------
(* _WidthTreeBuilder: every result is cut to its own width in a wider word.*)

Masked(tree, size, root) ==
    IF tree = Refused \/ size \notin Sizes \/ size > root THEN Refused
    ELSE IF size = root THEN tree
    ELSE Bin("&", tree, Const(Ones(Bits(size))))

WidthInstruction(ins, root) ==
    LET lifted[i \in Instructions] ==
            [depth \in Nat |->
                LET operand(op) ==
                        CASE op.t = "d"  -> IF op.size # op.ins.d.size THEN Refused
                                            ELSE lifted[op.ins][depth + 1]
                          [] op.t = "n"  -> Masked(Const(op.value), op.size, root)
                          [] IsPlace(op) -> Masked(Var(op), op.size, root)
                          [] OTHER       -> Refused
                    narrows == i.opcode = "xdu" /\ i.l.size > i.d.size
                    tree == CASE i.opcode \in {"xdu", "mov"} -> operand(i.l)
                              [] i.opcode \in DOMAIN UnaryOf ->
                                    Unary(UnaryOf[i.opcode], operand(i.l))
                              [] i.opcode \in DOMAIN OperatorOf ->
                                    Binary(OperatorOf[i.opcode], operand(i.l), operand(i.r))
                              [] OTHER -> Refused
                IN IF depth >= MaxInlineDepth \/ narrows THEN Refused
                   ELSE Masked(tree, i.d.size, root)]
    IN Bounded(lifted[ins][0])

(* Mutant of IsView: the location is not compared.                         *)
IsViewAnywhere(n, m) == n.t = m.t /\ n.valnum = m.valnum

(* Two views of one value of a register are one leaf, the widest of them.  *)
IsView(n, m) == n.t = m.t /\ n.loc = m.loc /\ n.valnum = m.valnum

Aliases(names) ==
    [n \in names |->
        IF n.t = "r" /\ n.valnum > 0
        THEN CHOOSE w \in names : IsView(w, n) /\ \A m \in names : IsView(m, n) => m.size <= w.size
        ELSE n]

(* The budget counts the nodes that are made, which are those of the tree. *)
WidthLift(ins) ==
    LET tree == WidthInstruction(ins, ins.d.size)
    IN IF tree = Refused THEN Refused
       ELSE IF NodeCount(tree) > MaxInlineNodes THEN Refused
       ELSE Bounded(Rename(tree, Aliases(ToSet(LeafNames(tree)))))

----------------------------------------------------------------------------
Inline(tree, env) ==
    LET inlined[depth \in 0 .. MaxInlineDepth + 1] ==
            [t \in LiftedTrees |->
                LET inner(s) == inlined[depth + 1][s]
                IN IF depth > MaxInlineDepth THEN Refused
                   ELSE CASE t.kind = "const" -> t
                          [] t.kind = "var" ->
                                IF t.name \notin DOMAIN env THEN t
                                ELSE IF NodeCount(env[t.name]) >= MaxInlineNodes THEN t
                                ELSE inner(env[t.name])
                          [] t.kind = "un"  -> Unary(t.op, inner(t.a))
                          [] OTHER          -> Binary(t.op, inner(t.a), inner(t.b))]
    IN Bounded(inlined[0][tree])

Mba(tree, size) ==
    /\ tree.kind \in {"un", "bin"}
    /\ Operators(tree) \cap BoolOps # {}
    /\ Operators(tree) \cap ArithOps # {}
    /\ Len(LeafNames(tree)) \in 1 .. MaxLeaves
    /\ size \in Sizes

Candidate(ins, tree, width) ==
    [ea |-> ins.ea, tree |-> tree, names |-> LeafNames(tree), size |-> ins.d.size,
     width |-> width]

NoCandidate == [ea |-> 0]

(* The live rule: one instruction, lifted again where widths are mixed.    *)
LiveCandidate(ins) ==
    LET width == SourceWidths(ins) # {ins.d.size}
        tree == IF width THEN WidthLift(ins) ELSE Lift(ins)
    IN IF ~ Mba(Lift(ins), ins.d.size) \/ tree = Refused THEN NoCandidate
       ELSE Candidate(ins, tree, width)

(* _classify: leaves must have the width of the result, and an expression  *)
(* that was found before, under any names, is not found again.             *)
Classified(ins, tree, seen) ==
    /\ Mba(tree, ins.d.size)
    /\ \A n \in ToSet(LeafNames(tree)) : n.size = ins.d.size
    /\ ToPositional(tree, LeafNames(tree)) \notin seen

(* A map with one entry set, as a dict's.                                  *)
Bind(map, key, value) ==
    [k \in DOMAIN map \cup {key} |-> IF k = key THEN value ELSE map[k]]

(* Mutant of Forget: what cannot be modelled leaves the old binding.       *)
ForgetNothing(env, name) == env

Forget(env, name) == [n \in DOMAIN env \ {name} |-> env[n]]

DetectIn(state, ins) ==
    LET raw == Lift(ins)
        tree == IF raw = Refused THEN Refused ELSE Inline(raw, state.env)
        bound == [state EXCEPT !.env = Bind(@, ins.d, tree)]
    IN IF tree = Refused THEN [state EXCEPT !.env = Forget(@, ins.d)]
       ELSE IF ~ Classified(ins, tree, state.seen) THEN bound
       ELSE [bound EXCEPT !.seen = @ \cup {ToPositional(tree, LeafNames(tree))},
                          !.found = Append(@, Candidate(ins, tree, FALSE))]

DetectCandidates(block) ==
    LET after[i \in 0 .. Len(block)] ==
            IF i = 0 THEN [env |-> <<>>, seen |-> {}, found |-> <<>>]
            ELSE DetectIn(after[i - 1], block[i])
    IN after[Len(block)].found

=============================================================================
