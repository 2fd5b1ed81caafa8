----------------------------- MODULE Microcode -----------------------------
(***************************************************************************)
(* What an instruction of Hex-Rays microcode does, as far as the pipeline  *)
(* relies on it.  None of it is in this repository: it is the reference    *)
(* the lifts and the rewrites are held to, so it is written from what the  *)
(* opcodes mean and shares nothing with the evaluator of expr.py but the   *)
(* arithmetic of words.                                                    *)
(*                                                                         *)
(* An operand is a number (mop_n), a register or a variable (mop_r, mop_v) *)
(* read from its low byte, a nested instruction (mop_d), or none (mop_z).  *)
(* Sizes are in bytes, and a byte has BitsPerByte bits.  valnum is the     *)
(* number the decompiler has given the value read, 0 where it has not.     *)
(***************************************************************************)
EXTENDS Expressions

CONSTANTS
    BitsPerByte,
    InstructionDepth \* how deep an instruction may be nested

ASSUME MicrocodeAssumption == BitsPerByte \in Nat \ {0} /\ InstructionDepth \in Nat

Bits(size) == size * BitsPerByte

Number(v, size) == [t |-> "n", value |-> v, size |-> size]
Reg(loc, size) == [t |-> "r", loc |-> loc, size |-> size, valnum |-> 0]
Mem(loc, size) == [t |-> "v", loc |-> loc, size |-> size, valnum |-> 0]
Nested(ins) == [t |-> "d", ins |-> ins, size |-> ins.d.size]
None(size) == [t |-> "z", size |-> size]

Instruction(ea, opcode, l, r, d) ==
    [ea |-> ea, opcode |-> opcode, l |-> l, r |-> r, d |-> d]
(* A nested instruction has a result but no place for it.                  *)
Sub(opcode, l, r, size) == Nested(Instruction(0, opcode, l, r, None(size)))

OperatorOf == [add |-> "+", sub |-> "-", mul |-> "*", or |-> "|", and |-> "&", xor |-> "^"]
OpcodeOf(op) == CHOOSE opcode \in DOMAIN OperatorOf : OperatorOf[opcode] = op

IsPlace(op) == op.t \in {"r", "v"}

(* The operands over some instructions: a place is an operand a leaf may   *)
(* stand for.  And the instructions that are nested so deep.               *)
OperandsOver(instructions) ==
    [t : {"n"}, value : Nat, size : Nat] \cup [t : {"z"}, size : Nat] \cup Operands
    \cup [t : {"d"}, ins : instructions, size : Nat]

InstructionsTo[depth \in 0 .. InstructionDepth] ==
    LET parts == OperandsOver(IF depth = 0 THEN {} ELSE InstructionsTo[depth - 1])
    IN [ea : Nat, opcode : STRING, l : parts, r : parts, d : OperandsOver({})]

Instructions == InstructionsTo[InstructionDepth]

----------------------------------------------------------------------------
Result(ins, store) ==
    LET result[i \in Instructions] ==
            LET value(op) == CASE op.t = "n" -> op.value % 2^Bits(op.size)
                               [] op.t = "d" -> result[op.ins]
                               [] OTHER      -> store[op.loc] % 2^Bits(op.size)
                bits == Bits(i.d.size)
                x == value(i.l)
                sign == x \div 2^(Bits(i.l.size) - 1)
            IN CASE i.opcode \in {"mov", "xdu"} -> x
                 [] i.opcode = "xds" -> (x - sign * 2^Bits(i.l.size)) % 2^bits
                 [] i.opcode = "neg" -> (-x) % 2^bits
                 [] i.opcode = "bnot" -> Ones(bits) - x
                 [] i.opcode = "shl" -> (x * 2^value(i.r)) % 2^bits
                 [] i.opcode \in DOMAIN OperatorOf ->
                        Apply(OperatorOf[i.opcode], x, value(i.r), bits)
    IN result[ins]

(* A write to the low part of a place leaves the rest of it.               *)
Execute(ins, store) ==
    LET unit == 2^Bits(ins.d.size)
    IN [store EXCEPT ![ins.d.loc] = @ - (@ % unit) + Result(ins, store)]

Run(block, store) == FoldLeft(LAMBDA s, ins : Execute(ins, s), store, block)

Reads(ins) ==
    LET reads[i \in Instructions] ==
            LET read(op) == CASE op.t = "d" -> reads[op.ins]
                              [] IsPlace(op) -> {op}
                              [] OTHER -> {}
            IN read(i.l) \cup read(i.r)
    IN reads[ins]

----------------------------------------------------------------------------
(* Value numbers: that of a read is the number of the definition it sees.  *)

LastDefinition(block, i, loc) ==
    LET earlier == {j \in 1 .. i - 1 : block[j].d.loc = loc}
    IN IF earlier = {} THEN 1
       ELSE 1 + CHOOSE j \in earlier : \A k \in earlier : k <= j

NumberReads(ins, block, index) ==
    LET numbered[i \in Instructions] ==
            LET number(op) ==
                    CASE IsPlace(op) -> [op EXCEPT !.valnum = LastDefinition(block, index, op.loc)]
                      [] op.t = "d"  -> [op EXCEPT !.ins = numbered[op.ins]]
                      [] OTHER -> op
            IN [i EXCEPT !.l = number(i.l), !.r = number(i.r)]
    IN numbered[ins]

NumberBlock(block) ==
    [i \in DOMAIN block |-> [NumberReads(block[i], block, i) EXCEPT !.d.valnum = i + 1]]

=============================================================================
