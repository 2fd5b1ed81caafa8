--------------------------- MODULE NativeBinding ---------------------------
(***************************************************************************)
(* The compiled binding to cobra::Simplify, _cobra.pyx, and what solve.py  *)
(* makes of its answer: a tree goes in as a flat array of nodes, an array  *)
(* comes back and is rebuilt, or is refused.                               *)
(*                                                                         *)
(* Indices count from 1 and 0 stands for the source's -1.  The solver is   *)
(* native code of another project: it is given a signature, and may answer *)
(* with anything that has that signature, whether or not it is equivalent, *)
(* with a shift, with a leaf nobody gave it, with no change or an error.   *)
(***************************************************************************)
EXTENDS Detection

CONSTANT Answers(_, _) \* the trees the native solver knows over some leaves, at a width

KindOf == [o \in {"+", "*", "&", "|", "^"} |->
              CASE o = "+" -> "add" [] o = "*" -> "mul" [] o = "&" -> "and"
                [] o = "|" -> "or"  [] o = "^" -> "xor"]
OperatorFor(kind) == CHOOSE o \in DOMAIN KindOf : KindOf[o] = kind

Node(kind, constant, var, child0, child1) ==
    [kind |-> kind, constant |-> constant, var |-> var, child0 |-> child0, child1 |-> child1]

ArrayNodes ==
    [kind : {"constant", "variable", "not", "neg", "add", "mul", "and", "or", "xor", "shr"},
     constant : Nat, var : Nat, child0 : Nat, child1 : Nat]

(* `out` with the nodes of the tree added, its root last.  There is no     *)
(* node for a difference: a - b goes as Add(a, Negate(b)).                 *)
Flatten(tree, order, out) ==
    LET flat[t \in Trees] ==
            [before \in Seq(ArrayNodes) |->
                CASE t.kind = "const" -> Append(before, Node("constant", t.value, 0, 0, 0))
                  [] t.kind = "var"   ->
                        Append(before, Node("variable", 0, Numbering(order)[t.name], 0, 0))
                  [] t.kind = "un"    ->
                        LET inner == flat[t.a][before]
                        IN Append(inner, Node(IF t.op = "~" THEN "not" ELSE "neg",
                                              0, 0, Len(inner), 0))
                  [] OTHER            ->
                        LET left == flat[t.a][before]
                            plain == flat[t.b][left]
                            right == IF t.op = "-"
                                     THEN Append(plain, Node("neg", 0, 0, Len(plain), 0))
                                     ELSE plain
                            kind == IF t.op = "-" THEN "add" ELSE KindOf[t.op]
                        IN Append(right, Node(kind, 0, 0, Len(left), Len(right)))]
    IN flat[tree][out]

Build(nodes, index, order) ==
    LET built[i \in DOMAIN nodes] ==
            LET node == nodes[i]
            IN CASE node.kind = "constant" -> Const(node.constant)
                 [] node.kind = "variable" -> IF node.var \in DOMAIN order
                                              THEN Var(order[node.var]) ELSE Refused
                 [] node.kind = "shr" -> Refused
                 [] node.kind = "not" -> Unary("~", built[node.child0])
                 [] node.kind = "neg" -> Unary("-", built[node.child0])
                 [] OTHER -> Binary(OperatorFor(node.kind), built[node.child0], built[node.child1])
    IN built[index]

(* Mutant of Encoded: the sum still points at what was to be negated.      *)
EncodedUnnegated(tree, order) ==
    LET nodes == Flatten(tree, order, <<>>)
        negated(node) == node.kind = "add" /\ nodes[node.child1].kind = "neg"
    IN [i \in DOMAIN nodes |->
            IF negated(nodes[i])
            THEN [nodes[i] EXCEPT !.child1 = nodes[@].child0] ELSE nodes[i]]

Encoded(tree, order) == Flatten(tree, order, <<>>)
Decoded(nodes, order) == Build(nodes, Len(nodes), order)

(* What cobra_shim_simplify may write out.                                 *)
NativeAnswers(tree, order, bits) ==
    LET signature == Signature(tree, order, bits)
        known == {t \in Answers(ToSet(order), bits) \cap LiftedTrees :
                      /\ ToSet(LeafNames(t)) \subseteq ToSet(order)
                      /\ Signature(t, order, bits) = signature}
    IN {Encoded(t, order) : t \in known}
       \cup {<<Node("variable", 0, 1, 0, 0), Node("shr", 0, 0, 1, 0)>>,
             <<Node("variable", 0, Len(order) + 1, 0, 0)>>}

Failed == [status |-> "failed"]
Unchanged == [status |-> "unchanged"]
Solved(tree) == [status |-> "solved", tree |-> tree]

(* solve_signature: the result is compared with the input, for the solver  *)
(* cannot tell that it has changed nothing.                                *)
SolveSignature(tree, order, bits) ==
    LET result(nodes) == LET answer == Decoded(nodes, order)
                         IN CASE answer = Refused -> Failed
                              [] answer = tree    -> Unchanged
                              [] OTHER            -> Solved(answer)
    IN {Failed, Unchanged} \cup {result(nodes) : nodes \in NativeAnswers(tree, order, bits)}

=============================================================================
