----------------------------- MODULE WidthProof -----------------------------
(***************************************************************************)
(* width_prove.py: the staged proof of a rewrite that mixes widths.  Both  *)
(* sides are written as sums of Boolean kernels of one variable; a kernel  *)
(* is linear in the groups of bits the constants do not tell apart, so two *)
(* sides are equal when their coefficients for the groups are.  Every step *)
(* of that is an obligation of its own, checked against the original.      *)
(*                                                                         *)
(* z3 decides each obligation here: that it is starved or missing is in    *)
(* RuleVisits.  A group of bits is named by its lowest bit.                *)
(***************************************************************************)
EXTENDS Expressions, FiniteSetsExt

CONSTANTS
    ProofNodes,     \* MAX_NODES
    ProofDepth,     \* MAX_DEPTH
    MaxKernels,     \* MAX_KERNELS
    MaxPartitions,  \* MAX_PARTITIONS
    MaxObligations  \* MAX_OBLIGATIONS

ASSUME ProofBoundsAssumption ==
    {ProofNodes, ProofDepth, MaxKernels, MaxPartitions, MaxObligations} \subseteq Nat

Depth(tree) ==
    LET depth[t \in Trees] ==
            CASE t.kind = "un"  -> 1 + depth[t.a]
              [] t.kind = "bin" -> 1 + Max({depth[t.a], depth[t.b]})
              [] OTHER          -> 1
    IN depth[tree]

BooleanOps == {"~", "&", "|", "^"}

IsBoolean(tree) ==
    LET boolean[t \in Trees] ==
            CASE t.kind = "un"  -> t.op \in BooleanOps /\ boolean[t.a]
              [] t.kind = "bin" -> t.op \in BooleanOps /\ boolean[t.a] /\ boolean[t.b]
              [] OTHER          -> TRUE
    IN boolean[tree]

IsLinear(tree) ==
    LET linear[t \in Trees] ==
            \/ IsBoolean(t)
            \/ t.kind = "un" /\ t.op = "-" /\ linear[t.a]
            \/ t.kind = "bin" /\ t.op \in {"+", "-"} /\ linear[t.a] /\ linear[t.b]
            \/ /\ t.kind = "bin" /\ t.op = "*"
               /\ IF t.a.kind = "const" THEN linear[t.b] ELSE t.b.kind = "const" /\ linear[t.a]
    IN linear[tree]

(* The weighted kernels of a linear tree.                                  *)
Linearize(tree, coefficient, bits) ==
    LET entries[t \in Trees] ==
            [factor \in Int |->
                LET c == factor % TwoTo(bits)
                IN IF IsBoolean(t) THEN <<[weight |-> c, tree |-> t]>>
                   ELSE CASE t.kind = "un" /\ t.op = "-" -> entries[t.a][-c]
                          [] t.kind = "bin" /\ t.op \in {"+", "-"} ->
                                 entries[t.a][c] \o entries[t.b][IF t.op = "+" THEN c ELSE -c]
                          [] t.kind = "bin" /\ t.op = "*" /\ t.a.kind = "const" ->
                                 entries[t.b][c * t.a.value]
                          [] t.kind = "bin" /\ t.op = "*"
                             /\ t.a.kind # "const" /\ t.b.kind = "const" ->
                                 entries[t.a][c * t.b.value]
                          [] OTHER -> <<>>]
    IN entries[tree][coefficient]

BitOperation(op, a, b) == CASE op = "&" -> a * b
                            [] op = "|" -> a + b - a * b
                            [] OTHER    -> (a + b) % 2

BitValue(tree, bit, x) ==
    LET value[t \in Trees] ==
            CASE t.kind = "var"   -> x
              [] t.kind = "const" -> BitOf(t.value, bit)
              [] t.kind = "un"    -> 1 - value[t.a]
              [] OTHER            -> BitOperation(t.op, value[t.a], value[t.b])
    IN value[tree]

(* A new group starts where some constant's bit differs from the one below.*)
Groups(constants, bits) ==
    {bit \in 0 .. bits - 1 :
        bit = 0 \/ \E c \in constants : BitOf(c, bit) # BitOf(c, bit - 1)}

GroupMask(low, groups, bits) ==
    LET above == {g \in groups : g > low}
        next == IF above = {} THEN bits ELSE Min(above)
    IN TwoTo(next) - TwoTo(low)

----------------------------------------------------------------------------
(* _prepare: what one side comes to, kernel by kernel and in all.          *)

KernelConstant(kernel, groups, bits) ==
    Total([g \in groups |-> BitValue(kernel, g, 0) * GroupMask(g, groups, bits)], bits)

KernelCoefficient(kernel, g, bits) ==
    (BitValue(kernel, g, 1) - BitValue(kernel, g, 0)) % TwoTo(bits)

(* Mutant of Reduced: one bit too many is dropped.                         *)
ReducedTooFar(coefficient, low, bits) == coefficient % TwoTo(bits - low - 1)

(* A coefficient matters only below the bits its group's lowest can carry  *)
(* out of the word.                                                        *)
Reduced(coefficient, low, bits) == coefficient % TwoTo(bits - low)

Side(entries, groups, bits) ==
    LET raw == [g \in groups |->
                    Total([i \in DOMAIN entries |->
                              entries[i].weight
                              * KernelCoefficient(entries[i].tree, g, bits)], bits)]
    IN [entries |-> entries,
        constant |-> Total([i \in DOMAIN entries |->
                               entries[i].weight
                               * KernelConstant(entries[i].tree, groups, bits)], bits),
        raw |-> raw,
        coefficients |-> [g \in groups |-> Reduced(raw[g], g, bits)]]

Linear(constant, coefficients, symbols, bits) ==
    (constant + SumFunction([g \in DOMAIN symbols |-> coefficients[g] * symbols[g]])) % TwoTo(bits)

----------------------------------------------------------------------------
(* prove_width_equivalent: the obligations of the chain.                   *)

Atoms(x, groups, bits) == [g \in groups |-> And(x, GroupMask(g, groups, bits), bits)]

Skeleton(tree, env, bits) ==
    LET skeleton[t \in Trees] ==
            CASE IsBoolean(t) -> env[t]
              [] ~ IsBoolean(t) /\ t.kind = "un" -> (- skeleton[t.a]) % TwoTo(bits)
              [] OTHER ->
                    IF t.op # "*" THEN Apply(t.op, skeleton[t.a], skeleton[t.b], bits)
                    ELSE IF t.a.kind = "const" THEN (t.a.value * skeleton[t.b]) % TwoTo(bits)
                    ELSE (skeleton[t.a] * t.b.value) % TwoTo(bits)
    IN skeleton[tree]

SkeletonHolds(tree, side, bits) ==
    LET entries == side.entries
    IN \A env \in [{entries[i].tree : i \in DOMAIN entries} -> Words(bits)] :
            Skeleton(tree, env, bits)
              = Total([i \in DOMAIN entries |-> entries[i].weight * env[entries[i].tree]], bits)

KernelsHold(side, name, groups, bits) ==
    \A i \in DOMAIN side.entries, x \in Words(bits) :
        LET kernel == side.entries[i].tree
        IN Evaluate(kernel, [n \in {name} |-> x], bits)
             = Linear(KernelConstant(kernel, groups, bits),
                      [g \in groups |-> KernelCoefficient(kernel, g, bits)],
                      Atoms(x, groups, bits), bits)

CollectionHolds(side, groups, bits) ==
    \A symbols \in [groups -> Words(bits)] :
        Total([i \in DOMAIN side.entries |->
                  side.entries[i].weight
                  * Linear(KernelConstant(side.entries[i].tree, groups, bits),
                           [g \in groups |-> KernelCoefficient(side.entries[i].tree, g, bits)],
                           symbols, bits)], bits)
          = Linear(side.constant, side.raw, symbols, bits)

ReductionHolds(side, groups, bits) ==
    \A g \in groups, x \in Words(bits) :
        LET atom == Atoms(x, groups, bits)[g]
        IN (side.raw[g] * atom) % TwoTo(bits) = (side.coefficients[g] * atom) % TwoTo(bits)

----------------------------------------------------------------------------
(* The grammar and the budgets, checked before anything is proved.         *)

WithinGrammar(tree, bits) ==
    /\ NodeCount(tree) <= ProofNodes /\ Depth(tree) <= ProofDepth
    /\ \A c \in Constants(tree) : c < TwoTo(bits)
    /\ IsLinear(tree)

GroupsOf(source, rewrite, bits) == Groups(Constants(source) \cup Constants(rewrite), bits)

WithinBudget(source, rewrite, bits) ==
    LET kernels == <<Len(Linearize(source, 1, bits)), Len(Linearize(rewrite, 1, bits))>>
        groups == Cardinality(GroupsOf(source, rewrite, bits))
    IN /\ Max({kernels[1], kernels[2]}) <= MaxKernels
       /\ groups <= MaxPartitions
       /\ 5 + kernels[1] + kernels[2] + 2 * groups <= MaxObligations

Attempts(source, rewrite, bits) ==
    /\ WithinGrammar(source, bits) /\ WithinGrammar(rewrite, bits)
    /\ Len(LeafNames(source)) = 1 /\ ToSet(LeafNames(rewrite)) \subseteq ToSet(LeafNames(source))
    /\ WithinBudget(source, rewrite, bits)

ProveWidthEquivalent(source, rewrite, bits) ==
    LET name == LeafNames(source)[1]
        groups == GroupsOf(source, rewrite, bits)
        side(tree) == Side(Linearize(tree, 1, bits), groups, bits)
        staged(tree) == /\ SkeletonHolds(tree, side(tree), bits)
                        /\ KernelsHold(side(tree), name, groups, bits)
                        /\ CollectionHolds(side(tree), groups, bits)
                        /\ ReductionHolds(side(tree), groups, bits)
        value(tree, x) == Linear(side(tree).constant, side(tree).coefficients,
                                 Atoms(x, groups, bits), bits)
    IN IF ~ Attempts(source, rewrite, bits) THEN "unknown"
       ELSE IF ~ (staged(source) /\ staged(rewrite)) THEN "unknown"
       ELSE IF \A x \in Words(bits) : value(source, x) = value(rewrite, x) THEN "proved"
       ELSE "refuted"

=============================================================================
