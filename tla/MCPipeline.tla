----------------------------- MODULE MCPipeline -----------------------------
(***************************************************************************)
(* Small instances of MbaPipeline for TLC: blocks of three instructions,   *)
(* with and without value numbers.                                         *)
(***************************************************************************)
EXTENDS MbaPipeline

a2 == Reg("a", 2)
b2 == Reg("b", 2)
t2 == Reg("t", 2)
u2 == Mem("u", 2)
r2 == Reg("r", 2)
a1 == Reg("a", 1)
b1 == Reg("b", 1)
one == Number(1, 2)
none == None(0)

Wide(op) == Sub("xdu", op, none, 2)

Firsts == {<<"add", a2, b2, t2>>, <<"or", a2, b2, t2>>, <<"bnot", a2, none, t2>>}

(* A second use, the same sum over other leaves, an input written again,   *)
(* in whole or in part, an opcode that is not modelled, a self-reference,  *)
(* widths that are mixed.                                                  *)
Seconds == {<<"and", t2, b2, u2>>,
            <<"sub", Sub("or", t2, b2, 2), b2, u2>>,
            <<"mov", b2, none, a2>>,
            <<"mov", Number(1, 1), none, a1>>,
            <<"xds", a1, none, t2>>,
            <<"sub", t2, b2, t2>>,
            <<"sub", a2, Wide(a1), u2>>,
            <<"sub", a2, Wide(b1), u2>>}

Thirds == {<<"xor", t2, b2, r2>>,
           <<"sub", Sub("or", b2, a2, 2), a2, r2>>,
           <<"sub", t2, Sub("and", a2, b2, 2), r2>>,
           <<"add", Sub("bnot", a2, none, 2), b2, r2>>,
           <<"sub", one, Wide(a1), r2>>}

Block(parts, ea) ==
    [i \in 1 .. 3 |-> Instruction(ea[i], parts[i][1], parts[i][2], parts[i][3], parts[i][4])]

(* With and without value numbers.                                         *)
Numbered(b) == {b, NumberBlock(b)}

(* One instruction from each of the three lists.                           *)
Programs3(eas) ==
    UNION {Numbered(Block(<<f, s, t>>, ea)) :
              f \in Firsts, s \in Seconds, t \in Thirds, ea \in eas}

(* The last two instructions are at one address or at two.                 *)
MCPrograms == Programs3({<<1, 2, 3>>, <<1, 2, 2>>})

(* One block in which a part of an input is written between a definition   *)
(* of a temporary from it and a use of both.                               *)
MCStalePrograms ==
    Numbered(Block(<< <<"add", a2, b2, t2>>,
                      <<"mov", Number(1, 1), none, a1>>,
                      <<"sub", t2, Sub("and", a2, b2, 2), r2>> >>, <<1, 2, 3>>))

MCOperands == [t : {"r", "v"}, loc : {"a", "b", "t", "u", "r"}, size : {1, 2}, valnum : 0 .. 4]

MCInputs == {"a", "b"}

MCAnswers(names, bits) ==
    LET vars_ == {Var(n) : n \in names}
        nots == {Un("~", v) : v \in vars_}
        consts == {Const(1), Const(2 % 2^bits)}
    IN vars_ \cup consts \cup nots \cup {Un("-", v) : v \in vars_}
       \cup {Bin(op, x, y) : op \in {"+", "&", "|", "^"},
                             x \in vars_ \cup nots, y \in vars_ \cup nots \cup consts}

=============================================================================
