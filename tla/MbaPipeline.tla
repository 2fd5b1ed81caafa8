---------------------------- MODULE MbaPipeline ----------------------------
(***************************************************************************)
(* From microcode to microcode: a block of instructions, and the two ways  *)
(* the plugin rewrites it.  The live rule (cobra_solve.py) is called with  *)
(* one instruction at a time and remembers what it finds in its tables;    *)
(* a batch pass (executor.py) finds candidates across the instructions of  *)
(* the block first and then replaces them one after the other.  Both lift, *)
(* solve, accept, prove and rebuild (convert.py).                          *)
(*                                                                         *)
(* A visit of the live rule is one step: what may happen between its       *)
(* stages is in RuleVisits and MbaSolveRule.  So is every way to put a     *)
(* candidate off (no budget, an expired solve, a starved proof), which     *)
(* leaves the block and the tables alone here.  require_proof is set.      *)
(***************************************************************************)
EXTENDS NativeBinding, WidthProof

CONSTANTS
    Programs,  \* the blocks to start with
    Inputs     \* the places whose first value is left open; the others hold 0

ASSUME ProgramsAssumption == Programs \subseteq Seq(Instructions)

VARIABLES
    source,      \* the block the decompiler started with
    block,       \* the instructions of the block
    table,       \* the live rule's table, from keys to entries
    widthTable,  \* _width_lift_table
    abstained,   \* the keys of _width_lift_abstentions
    queue        \* the candidates of a batch pass that are left

vars == <<source, block, table, widthTable, abstained, queue>>
tables == <<table, widthTable, abstained>>

Init ==
    /\ source \in Programs /\ block = source
    /\ table = <<>> /\ widthTable = <<>> /\ abstained = {}
    /\ queue = <<>>

----------------------------------------------------------------------------
(* convert.py.  ReconstructionError is Refused.                            *)

ToOperand(tree, size) ==
    LET operand[t \in Trees] ==
            CASE t.kind = "const" -> Number(t.value % 2^Bits(size), size)
              [] t.kind = "var"   -> IF t.name.size = size THEN t.name
                                     ELSE Sub("xdu", t.name, None(0), size)
              [] t.kind = "un"    -> Sub(IF t.op = "~" THEN "bnot" ELSE "neg",
                                         operand[t.a], None(0), size)
              [] OTHER            -> Sub(OpcodeOf(t.op), operand[t.a], operand[t.b], size)
    IN operand[tree]

(* An answer that is a single operand, or that would need a leaf wider     *)
(* than the result, is not rebuilt.                                        *)
CanBuild(tree, size) ==
    /\ ToOperand(tree, size).t = "d"
    /\ \A n \in ToSet(LeafNames(tree)) : n.size \in Sizes /\ n.size <= size

BuildReplacement(candidate, tree, original) ==
    [ToOperand(tree, candidate.size).ins EXCEPT !.ea = original.ea, !.d = original.d]

Install(i, candidate, tree) ==
    IF CanBuild(tree, candidate.size)
    THEN block' = [block EXCEPT ![i] = BuildReplacement(candidate, tree, @)]
    ELSE UNCHANGED block

----------------------------------------------------------------------------
NoRewrite == [outcome |-> "no_rewrite"]
Proved(tree, order) == [outcome |-> "proved", rewrite |-> ToPositional(tree, order)]

Key(candidate) == CanonicalKey(candidate.tree, Bits(candidate.size))
SolveResults(candidate) ==
    SolveSignature(candidate.tree, candidate.names, Bits(candidate.size))
Accepted(candidate, result) ==
    result.status = "solved" /\ AcceptRewrite(candidate.tree, result.tree)
IsProof(candidate, tree) ==
    Equivalent(candidate.tree, tree, candidate.names, Bits(candidate.size))
WidthVerdict(candidate, tree) ==
    ProveWidthEquivalent(candidate.tree, tree, Bits(candidate.size))

(* A visit of the live rule to an instruction with a candidate c.  A       *)
(* lookup that finds a rewrite installs it over the leaves at hand.        *)
TableHit(i, c) ==
    LET known == IF c.width THEN widthTable ELSE table
    IN /\ queue = <<>>
       /\ c.width => Key(c) \notin abstained
       /\ Key(c) \in DOMAIN known
       /\ known[Key(c)].outcome = "proved"
       /\ Install(i, c, Instantiate(known[Key(c)].rewrite, c.names))
       /\ UNCHANGED <<source, tables, queue>>

(* Nothing is known: solve, accept, prove, and record how it ended.  A     *)
(* failed solve says nothing about the candidate and is not recorded.      *)
SolveVisit(i, c) ==
    LET record(entry) == table' = Bind(table, Key(c), entry)
    IN /\ queue = <<>>
       /\ ~ c.width
       /\ Key(c) \notin DOMAIN table
       /\ \E result \in SolveResults(c) \ {Failed} :
             IF Accepted(c, result) /\ IsProof(c, result.tree)
             THEN /\ record(Proved(result.tree, c.names))
                  /\ Install(i, c, result.tree)
             ELSE record(NoRewrite) /\ UNCHANGED block
       /\ UNCHANGED <<source, widthTable, abstained, queue>>

(* The same in the domain of mixed widths, which remembers a proof it did  *)
(* not get, and a solver that failed, apart from its table.                *)
WidthVisit(i, c) ==
    LET record(entry) == widthTable' = Bind(widthTable, Key(c), entry)
    IN /\ queue = <<>>
       /\ c.width
       /\ Key(c) \notin DOMAIN widthTable \cup abstained
       /\ \E result \in SolveResults(c) :
             \/ /\ result = Failed \/ ( /\ Accepted(c, result)
                                        /\ WidthVerdict(c, result.tree) # "proved" )
                /\ abstained' = abstained \cup {Key(c)}
                /\ UNCHANGED <<widthTable, block>>
             \/ /\ result # Failed /\ ~ Accepted(c, result)
                /\ record(NoRewrite)
                /\ UNCHANGED <<abstained, block>>
             \/ /\ Accepted(c, result) /\ WidthVerdict(c, result.tree) = "proved"
                /\ record(Proved(result.tree, c.names))
                /\ Install(i, c, result.tree)
                /\ UNCHANGED abstained
       /\ UNCHANGED <<source, table, queue>>

----------------------------------------------------------------------------
(* run_mba_solve.                                                          *)

StartPass ==
    /\ queue = <<>>
    /\ queue' = DetectCandidates(block)
    /\ UNCHANGED <<source, block, tables>>

(* _find_instruction: the first at the address the candidate came from.    *)
Target(candidate) ==
    CHOOSE i \in DOMAIN block :
        /\ block[i].ea = candidate.ea
        /\ \A j \in 1 .. i - 1 : block[j].ea # candidate.ea

NextCandidate ==
    /\ queue # <<>>
    /\ queue' = Tail(queue)
    /\ \E result \in SolveResults(Head(queue)) :
          IF Accepted(Head(queue), result) /\ IsProof(Head(queue), result.tree)
          THEN Install(Target(Head(queue)), Head(queue), result.tree)
          ELSE UNCHANGED block
    /\ UNCHANGED <<source, tables>>

Next ==
    \/ \E i \in DOMAIN block : \E c \in {LiveCandidate(block[i])} \ {NoCandidate} :
           TableHit(i, c) \/ SolveVisit(i, c) \/ WidthVisit(i, c)
    \/ StartPass
    \/ NextCandidate

Spec == Init /\ [][Next]_vars

----------------------------------------------------------------------------
Stores == [Inputs -> Words(Bits(Max(Sizes)))]
Places == {ins.d.loc : ins \in ToSet(source)} \cup Inputs

SameMeaning(b, c) ==
    \A input \in Stores :
        LET store == [p \in Places |-> IF p \in Inputs THEN input[p] ELSE 0]
        IN Run(b, store) = Run(c, store)

(* The blocks a pass is right for: addresses tell the instructions apart,  *)
(* what an instruction reads is not written after it, and a place that is  *)
(* written is always taken at one width.                                   *)
DistinctAddresses(b) == \A i, j \in DOMAIN b : i # j => b[i].ea # b[j].ea

Undisturbed(b) ==
    /\ \A i, j \in DOMAIN b : i < j => \A op \in Reads(b[i]) : op.loc # b[j].d.loc
    /\ \A ins, other \in ToSet(b) : \A op \in Reads(other) \cup {other.d} :
            op.loc = ins.d.loc => op.size = ins.d.size

(* The live rule never changes what a block computes, whatever the solver  *)
(* answers, whatever its tables hold, and whether or not widths are mixed. *)
LiveRewriteSound == [][queue = <<>> => SameMeaning(block, block')]_block

(* A batch pass does not either, on a block it can see as a whole: a tree  *)
(* that is put together from several instructions is found, solved and put *)
(* back while earlier candidates of the pass have already been replaced.   *)
PassRewriteSound ==
    [][queue # <<>> /\ DistinctAddresses(source) /\ Undisturbed(source)
          => SameMeaning(block, block')]_block

(* executor.py:5-6: refusing is always safe and correctness is never given *)
(* up for yield.  Said of every block.                                     *)
EveryRewriteSound == [][SameMeaning(block, block')]_block

LiveCandidates == {LiveCandidate(block[i]) : i \in DOMAIN block} \ {NoCandidate}

(* What the table would serve to any instruction of the block computes     *)
(* what that instruction computes, over its own leaves and at its width,   *)
(* whoever recorded it.                                                    *)
ServesOnlyEquals ==
    \A c \in LiveCandidates :
        LET known == IF c.width THEN widthTable ELSE table
        IN Key(c) \in DOMAIN known /\ known[Key(c)].outcome = "proved"
           => IsProof(c, Instantiate(known[Key(c)].rewrite, c.names))

(* The array the native solver is given denotes the candidate it is asked  *)
(* about: the signature and the expression it gets are of one function.    *)
EncodingFaithful ==
    \A c \in LiveCandidates \cup ToSet(queue) :
        IsProof(c, Decoded(Encoded(c.tree, c.names), c.names))

(* The staged proof loses nothing it attempts: it says proved of a rewrite *)
(* that is equivalent and refuted of one that is not, and no stage of the  *)
(* normal form has a counterexample of its own.                            *)
WidthVerdictExact ==
    \A c \in {live \in LiveCandidates : live.width} :
        \A result \in SolveResults(c) \ {Failed, Unchanged} :
            Attempts(c.tree, result.tree, Bits(c.size))
              => WidthVerdict(c, result.tree)
                   = IF IsProof(c, result.tree) THEN "proved" ELSE "refuted"

(* A block is not rewritten for ever: not by visits that each find a new   *)
(* form, nor by passes and visits that undo each other.                    *)
RewritingEnds == DistinctAddresses(source) => <>[][UNCHANGED block]_vars

=============================================================================
