----------------------------- MODULE RuleVisits -----------------------------
(***************************************************************************)
(* What the live rule (rules/cobra_solve.py) keeps from one call of        *)
(* check_and_replace to the next, besides the table: the solve allowance   *)
(* of the open decompilations, the observation of the current attempt that *)
(* the manager drains, and the width-lift domain with its own table and    *)
(* its own memory of what it could not prove.                              *)
(*                                                                         *)
(* All of it belongs to the decompiler's main thread.  Around it z3 may    *)
(* come (Z3Availability, of which this is one caller) and the background   *)
(* workers settle what the plain path handed over (BackgroundProver, here  *)
(* one step).  MbaSolveRule has the durable side of the same plain path.   *)
(***************************************************************************)
EXTENDS RewriteTable, Z3Availability, Sequences, FiniteSetsExt

CONSTANTS
    Sound,         \* the pairs <<key, rewrite>> that compute the same function
    Main,          \* the decompiler's thread
    Sessions,      \* decompilations; no two open ones share an identity
    NoLimit,       \* None for an allowance or a timeout
    SolveTimeout,  \* solve_timeout_ms
    Budget,        \* function_solve_budget_ms
    Millisecond,   \* time is counted in fractions of a millisecond
    Overrun,       \* how late the solver may notice its limit
    AutoInstall    \* auto_install_solver

ASSUME SoundAssumption == Sound \subseteq Keys \X Rewrites
ASSUME MainAssumption == Main \in Threads
ASSUME TimeAssumption ==
    /\ Millisecond \in Nat \ {0} /\ Overrun \in Nat
    /\ NoLimit \notin Nat
    /\ {SolveTimeout, Budget} \subseteq (Nat \ {0}) \cup {NoLimit}

VARIABLES
    widthEntries,  \* _width_lift_table
    abstention,    \* _width_lift_abstentions: a status, or "none"
    requireProof,  \* require_proof
    stack,         \* _solve_session_stack
    remaining,     \* _solve_remaining_ms; NoLimit where there is no item
    spent,         \* what has been solved for in each open session
    observation,   \* _pending_observation
    pc,            \* where the main thread is
    visit,         \* the candidate it is called with
    limit,         \* limit_ms
    solved,        \* result.tree
    out            \* the replacement it returns; NoTree for None

sessionVars == <<stack, remaining, spent>>
visitVars == <<visit, limit, solved, out>>
ruleVars == <<entries, widthEntries, abstention, requireProof, sessionVars,
              observation, pc, visitVars>>
vars == <<z3Vars, ruleVars>>

Width == INSTANCE RewriteTable WITH entries <- widthEntries

Statuses == {"pending", "ineligible", "unavailable", "over_budget", "unchanged", "error",
             "proof_failed", "reconstruction_failed", "improved", "applied"}

(* `current` tells the attempt of this visit from one left by an earlier.  *)
NoObservation == [status |-> "none", current |-> FALSE]

(* `left` is history: an earlier attempt had not been drained when the     *)
(* visit began.                                                            *)
NoVisit == [key |-> NoTree, width |-> FALSE, captured |-> FALSE, left |-> FALSE]

Init ==
    /\ Z3Init
    /\ entries = EmptyTable
    /\ widthEntries = EmptyTable
    /\ abstention = [k \in Keys |-> "none"]
    /\ requireProof = TRUE
    /\ stack = <<>>
    /\ remaining = [s \in Sessions |-> NoLimit]
    /\ spent = [s \in Sessions |-> 0]
    /\ observation = NoObservation
    /\ pc = "idle"
    /\ visit = NoVisit /\ limit = NoLimit /\ solved = NoTree /\ out = NoTree

----------------------------------------------------------------------------
(* configure asks for z3 to warn when the proof gate cannot be honoured,   *)
(* and asks again when it has had z3 installed.                            *)
Configure ==
    /\ pc = "idle"
    /\ requireProof' \in BOOLEAN
    /\ pc' = "configured"
    /\ Ask(Main)
    /\ UNCHANGED <<entries, widthEntries, abstention, sessionVars, observation, visitVars>>

GateOpen ==
    /\ pc \in {"configured", "reconfigured"}
    /\ at[Main] = "idle"
    /\ pc = "reconfigured" \/ ~requireProof \/ told[Main] = "yes" \/ ~AutoInstall
    /\ pc' = "idle"
    /\ UNCHANGED <<z3Vars, entries, widthEntries, abstention, requireProof, sessionVars,
                   observation, visitVars>>

(* _install_solver_support: d810's installer announces what it has done.   *)
InstallSupport ==
    /\ pc = "configured"
    /\ at[Main] = "idle"
    /\ requireProof /\ told[Main] # "yes" /\ AutoInstall
    /\ pc' = "installed"
    /\ \/ /\ generation < MaxGeneration
          /\ installed' = TRUE
          /\ generation' = generation + 1
       \/ UNCHANGED <<installed, generation>>
    /\ UNCHANGED <<available, stamp, bound, at, seen, found, told>>
    /\ UNCHANGED <<entries, widthEntries, abstention, requireProof, sessionVars,
                   observation, visitVars>>

AskAgain ==
    /\ pc = "installed"
    /\ pc' = "reconfigured"
    /\ Ask(Main)
    /\ UNCHANGED <<entries, widthEntries, abstention, requireProof, sessionVars,
                   observation, visitVars>>

----------------------------------------------------------------------------
(* begin_decompilation and end_decompilation.  An end that is not the      *)
(* innermost session's changes nothing.                                    *)
Begin(s) ==
    /\ pc = "idle"
    /\ \A i \in DOMAIN stack : stack[i] # s
    /\ stack' = Append(stack, s)
    /\ remaining' = [remaining EXCEPT
          ![s] = IF Budget = NoLimit THEN NoLimit ELSE Budget * Millisecond]
    /\ UNCHANGED <<z3Vars, entries, widthEntries, abstention, requireProof, spent,
                   observation, pc, visitVars>>

Innermost == stack[Len(stack)]

End ==
    /\ pc = "idle"
    /\ stack # <<>>
    /\ stack' = SubSeq(stack, 1, Len(stack) - 1)
    /\ remaining' = [remaining EXCEPT ![Innermost] = NoLimit]
    /\ spent' = [spent EXCEPT ![Innermost] = 0]
    /\ UNCHANGED <<z3Vars, entries, widthEntries, abstention, requireProof,
                   observation, pc, visitVars>>

(* Mutant of InlineLimit: an allowance below one millisecond is rounded to *)
(* the shortest limit there is.                                            *)
InlineLimitRoundedUp ==
    IF stack = <<>> \/ remaining[Innermost] = NoLimit
    THEN SolveTimeout
    ELSE Min({Max({1, remaining[Innermost] \div Millisecond})}
             \cup ({SolveTimeout} \ {NoLimit}))

(* _inline_limit_ms: whole milliseconds; 0 is no solve, NoLimit no bound.  *)
InlineLimit ==
    IF stack = <<>> \/ remaining[Innermost] = NoLimit
    THEN SolveTimeout
    ELSE Min({remaining[Innermost] \div Millisecond} \cup ({SolveTimeout} \ {NoLimit}))

(* Mutant of ChargeSolve: what is left is not kept from below zero.        *)
ChargeSolveBelowZero(elapsed) ==
    IF stack = <<>> \/ remaining[Innermost] = NoLimit
    THEN UNCHANGED sessionVars
    ELSE /\ remaining' = [remaining EXCEPT ![Innermost] = @ - elapsed]
         /\ spent' = [spent EXCEPT ![Innermost] = @ + elapsed]
         /\ UNCHANGED stack

(* _charge_solve, and what a solve really takes: a solver under a limit    *)
(* stops at it, or a little later.                                         *)
ChargeSolve(elapsed) ==
    IF stack = <<>> \/ remaining[Innermost] = NoLimit
    THEN UNCHANGED sessionVars
    ELSE /\ remaining' = [remaining EXCEPT ![Innermost] = Max({0, @ - elapsed})]
         /\ spent' = [spent EXCEPT ![Innermost] = @ + elapsed]
         /\ UNCHANGED stack

Elapsed ==
    IF stack = <<>> \/ remaining[Innermost] = NoLimit
    THEN {0} ELSE 0..(limit * Millisecond + Overrun)

----------------------------------------------------------------------------
(* _finish_attempt: nothing to finish when the host did not capture.       *)
Finished(pending, status) ==
    IF pending = NoObservation THEN NoObservation ELSE [pending EXCEPT !.status = status]

(* check_and_replace returns `tree`, and the attempt has ended as `status`.*)
Return(status, tree) ==
    /\ pc' = "returned"
    /\ out' = tree
    /\ observation' = Finished(observation, status)
    /\ UNCHANGED <<visit, limit, solved>>

(* Mutant of Rebuild: a replacement that cannot be built leaves the        *)
(* attempt pending.                                                        *)
RebuildSilently(r) ==
    \/ Return("improved", r)
    \/ Return("pending", NoTree)

(* _install: the solved tree may not be expressible.  Without a tree there *)
(* is nothing to install, and the attempt stays as it is.                  *)
Rebuild(r) ==
    IF r = NoTree
    THEN /\ pc' = "returned"
         /\ out' = NoTree
         /\ UNCHANGED <<observation, visit, limit, solved>>
    ELSE \/ Return("improved", r)
         \/ Return("reconstruction_failed", NoTree)

(* submit of one of the workers: it takes the candidate or it does not.    *)
Submit(k) ==
    \/ \E gone \in Evictions(k) : RecordPending(k, gone)
    \/ UNCHANGED entries

(* The instruction is captured by the host or not, detected or refused.  A *)
(* capture begins an attempt; without one, whatever is there is left.      *)
Visit(k, width, captured) ==
    LET begun == IF captured THEN [status |-> "pending", current |-> TRUE] ELSE observation
    IN /\ pc = "idle"
       /\ visit' = [key |-> k, width |-> width, captured |-> captured,
                    left |-> observation # NoObservation]
       /\ \/ pc' = "lookup" /\ observation' = begun
          \/ /\ pc' = "returned"
             /\ \E refusal \in {"ineligible", "over_budget", "unavailable", "error"} :
                   observation' = Finished(begun, refusal)
       /\ UNCHANGED <<z3Vars, entries, widthEntries, abstention, requireProof, sessionVars,
                      limit, solved, out>>

(* Tier 1.  An entry recorded without a proof is dropped when proofs are   *)
(* required.                                                               *)
Lookup ==
    LET k == visit.key
        usable == entries[k].proof_verified \/ ~requireProof
    IN /\ pc = "lookup"
       /\ ~visit.width
       /\ \/ IsPending(k) /\ Return("over_budget", NoTree) /\ UNCHANGED entries
          \/ entries[k].outcome = "no_rewrite" /\ Return("unchanged", NoTree) /\ UNCHANGED entries
          \/ IsProved(k) /\ usable /\ Rebuild(entries[k].rewrite) /\ UNCHANGED entries
          \/ /\ IsProved(k) => ~usable
             /\ ~Known(k) \/ IsProved(k)
             /\ ClearUnverified(k)
             /\ pc' = "budget"
             /\ UNCHANGED <<observation, visitVars>>
       /\ UNCHANGED <<z3Vars, widthEntries, abstention, requireProof, sessionVars>>

(* Mutant of LookupWidth: it asks the table of the plain path first.       *)
LookupWidthShared ==
    LET k == visit.key
    IN /\ pc = "lookup"
       /\ visit.width
       /\ IF IsProved(k) THEN Rebuild(entries[k].rewrite)
          ELSE /\ pc' = "budget"
               /\ UNCHANGED <<observation, visitVars>>
       /\ UNCHANGED <<z3Vars, entries, widthEntries, abstention, requireProof, sessionVars>>

(* The width-lift domain asks its own memory only.                         *)
LookupWidth ==
    LET k == visit.key
    IN /\ pc = "lookup"
       /\ visit.width
       /\ \/ abstention[k] # "none" /\ Return(abstention[k], NoTree)
          \/ abstention[k] = "none" /\ Width!IsProved(k) /\ Rebuild(widthEntries[k].rewrite)
          \/ /\ abstention[k] = "none" /\ Width!Known(k) /\ ~Width!IsProved(k)
             /\ Return("unchanged", NoTree)
          \/ /\ abstention[k] = "none" /\ ~Width!Known(k)
             /\ pc' = "budget"
             /\ UNCHANGED <<observation, visitVars>>
       /\ UNCHANGED <<z3Vars, entries, widthEntries, abstention, requireProof, sessionVars>>

(* Tier 2 begins with the allowance; without one the plain path defers.    *)
AskBudget ==
    /\ pc = "budget"
    /\ IF InlineLimit = 0
       THEN /\ Return("over_budget", NoTree)
            /\ IF visit.width THEN UNCHANGED entries ELSE Submit(visit.key)
       ELSE /\ limit' = InlineLimit
            /\ pc' = "solve"
            /\ UNCHANGED <<entries, observation, visit, solved, out>>
    /\ UNCHANGED <<z3Vars, widthEntries, abstention, requireProof, sessionVars>>

(* A rewrite that is accepted: smaller than the candidate, right or wrong. *)
Accept(r, next) ==
    /\ solved' = r
    /\ pc' = next
    /\ UNCHANGED <<entries, widthEntries, abstention, observation, visit, limit, out>>

(* solve_signature on the plain path: expired, failed, nothing smaller, or *)
(* a rewrite.                                                              *)
Solve ==
    LET k == visit.key
    IN /\ pc = "solve"
       /\ ~visit.width
       /\ \E elapsed \in Elapsed : ChargeSolve(elapsed)
       /\ \/ /\ Submit(k) /\ Return("over_budget", NoTree)
             /\ UNCHANGED <<widthEntries, abstention>>
          \/ /\ Return("error", NoTree)
             /\ UNCHANGED <<entries, widthEntries, abstention>>
          \/ /\ \E gone \in Evictions(k) : RecordNoRewrite(k, gone)
             /\ Return("unchanged", NoTree)
             /\ UNCHANGED <<widthEntries, abstention>>
          \/ \E r \in Rewrites : Accept(r, IF requireProof THEN "ask" ELSE "record")
       /\ UNCHANGED <<z3Vars, requireProof>>

(* A candidate that this process will not try again (while the bounded     *)
(* memory keeps it).                                                       *)
Abstain(k, status) ==
    LET kept == {j \in Keys : abstention[j] # "none"}
        dropped == IF k \in kept \/ Cardinality(kept) < MaxEntries
                   THEN {{}} ELSE {{j} : j \in kept}
    IN \E gone \in dropped :
          abstention' = [j \in Keys |-> IF j = k THEN status
                                        ELSE IF j \in gone THEN "none" ELSE abstention[j]]

(* solve_signature in the width-lift domain: nothing is deferred.          *)
SolveWidth ==
    LET k == visit.key
    IN /\ pc = "solve"
       /\ visit.width
       /\ \E elapsed \in Elapsed : ChargeSolve(elapsed)
       /\ \/ /\ Return("over_budget", NoTree)
             /\ UNCHANGED <<entries, widthEntries, abstention>>
          \/ /\ Abstain(k, "error") /\ Return("error", NoTree)
             /\ UNCHANGED <<entries, widthEntries>>
          \/ /\ \E gone \in Width!Evictions(k) : Width!RecordNoRewrite(k, gone)
             /\ Return("unchanged", NoTree)
             /\ UNCHANGED <<entries, abstention>>
          \/ \E r \in Rewrites : Accept(r, "ask")
       /\ UNCHANGED <<z3Vars, requireProof>>

(* prove_equivalent and prove_width_equivalent ask for z3 first.           *)
AskProver ==
    /\ pc = "ask"
    /\ pc' = "prove"
    /\ Ask(Main)
    /\ UNCHANGED <<entries, widthEntries, abstention, requireProof, sessionVars,
                   observation, visitVars>>

(* The stage proof refuses its grammar or a budget before it asks for z3.  *)
WidthUnsupported ==
    /\ pc = "ask"
    /\ visit.width
    /\ Abstain(visit.key, "over_budget")
    /\ Return("over_budget", NoTree)
    /\ UNCHANGED <<z3Vars, entries, widthEntries, requireProof, sessionVars>>

(* The bounded proof: z3 does not err, and may not know.  What is neither  *)
(* proved nor refuted goes to the escalation prover.                       *)
Prove ==
    LET k == visit.key
        right == <<k, solved>> \in Sound
    IN /\ pc = "prove"
       /\ ~visit.width
       /\ at[Main] = "idle"
       /\ \/ told[Main] = "yes" /\ right /\ pc' = "record" /\ UNCHANGED <<entries, observation, visitVars>>
          \/ /\ told[Main] = "yes" /\ ~right
             /\ \E gone \in Evictions(k) : RecordNoRewrite(k, gone)
             /\ Return("proof_failed", NoTree)
          \/ Submit(k) /\ Return("over_budget", NoTree)
       /\ UNCHANGED <<z3Vars, widthEntries, abstention, requireProof, sessionVars>>

(* The stage chain of width_prove.py.  What it does not prove is not asked *)
(* again, whatever the reason was, z3 not being there included.            *)
ProveWidth ==
    LET k == visit.key
        right == <<k, solved>> \in Sound
    IN /\ pc = "prove"
       /\ visit.width
       /\ at[Main] = "idle"
       /\ \/ /\ told[Main] = "yes" /\ right
             /\ \E gone \in Width!Evictions(k) : Width!RecordProved(k, solved, TRUE, gone)
             /\ Rebuild(solved)
             /\ UNCHANGED abstention
          \/ /\ \/ told[Main] = "yes" /\ ~right /\ Abstain(k, "proof_failed")
                                      /\ Return("proof_failed", NoTree)
                \/ told[Main] = "yes" /\ Abstain(k, "over_budget")
                                      /\ Return("over_budget", NoTree)
                \/ told[Main] # "yes" /\ Abstain(k, "unavailable")
                                      /\ Return("unavailable", NoTree)
             /\ UNCHANGED widthEntries
       /\ UNCHANGED <<z3Vars, entries, requireProof, sessionVars>>

(* The result is recorded with or without a proof, and installed.          *)
Record ==
    LET k == visit.key
    IN /\ pc = "record"
       /\ \E gone \in Evictions(k) : RecordProved(k, solved, requireProof, gone)
       /\ Rebuild(solved)
       /\ UNCHANGED <<z3Vars, widthEntries, abstention, requireProof, sessionVars>>

(* check_and_replace lets no exception out.                                *)
Raise ==
    /\ pc \in {"lookup", "budget", "solve", "ask", "prove", "record"}
    /\ at[Main] = "idle"
    /\ Return("error", NoTree)
    /\ UNCHANGED <<z3Vars, entries, widthEntries, abstention, requireProof, sessionVars>>

----------------------------------------------------------------------------
(* The manager takes or refuses the replacement, and says so               *)
(* (record_mutation_accepted, record_mutation_rejected).                   *)
Decide ==
    /\ pc = "returned"
    /\ pc' = "decided"
    /\ \/ /\ out # NoTree
          /\ observation' = IF observation.status = "improved"
                            THEN [observation EXCEPT !.status = "applied"] ELSE observation
       \/ UNCHANGED observation
    /\ UNCHANGED <<z3Vars, entries, widthEntries, abstention, requireProof, sessionVars, visitVars>>

VisitOver ==
    /\ pc = "decided"
    /\ pc' = "idle"
    /\ visit' = NoVisit /\ limit' = NoLimit /\ solved' = NoTree /\ out' = NoTree
    /\ UNCHANGED <<z3Vars, entries, widthEntries, abstention, requireProof, sessionVars>>

(* pending_provider_observation.                                           *)
Drain == VisitOver /\ observation' = NoObservation

(* Nothing in the rule makes the manager drain.                            *)
GoOnUndrained == VisitOver /\ observation' = [observation EXCEPT !.current = FALSE]

(* A background worker ends the job of k: settled, or released.            *)
Background(k) ==
    /\ IsPending(k)
    /\ \/ ClearPending(k)
       \/ \E gone \in Evictions(k) :
             \/ RecordNoRewrite(k, gone)
             \/ \E r \in Rewrites : <<k, r>> \in Sound /\ RecordProved(k, r, TRUE, gone)
    /\ UNCHANGED <<z3Vars, widthEntries, abstention, requireProof, sessionVars, observation,
                   pc, visitVars>>

Elsewhere == (Environment \/ Answering(Main)) /\ UNCHANGED ruleVars

Next ==
    \/ Configure \/ GateOpen \/ InstallSupport \/ AskAgain
    \/ End \/ \E s \in Sessions : Begin(s)
    \/ \E k \in Keys, width, captured \in BOOLEAN : Visit(k, width, captured)
    \/ Lookup \/ LookupWidth \/ AskBudget \/ Solve \/ SolveWidth
    \/ AskProver \/ WidthUnsupported \/ Prove \/ ProveWidth \/ Record \/ Raise
    \/ Decide \/ Drain \/ GoOnUndrained
    \/ \E k \in Keys : Background(k)
    \/ Elsewhere

Spec == Init /\ [][Next]_vars

----------------------------------------------------------------------------
TypeOK ==
    /\ Z3TypeOK
    /\ EntriesType
    /\ Width!EntriesType
    /\ abstention \in [Keys -> Statuses \cup {"none"}]
    /\ requireProof \in BOOLEAN
    /\ stack \in Seq(Sessions)
    /\ remaining \in [Sessions -> Nat \cup {NoLimit}]
    /\ spent \in [Sessions -> Nat]
    /\ observation \in [status : Statuses \cup {"none"}, current : BOOLEAN]
    /\ \/ visit = NoVisit
       \/ visit \in [key : Keys, width : BOOLEAN, captured : BOOLEAN, left : BOOLEAN]
    /\ limit \in Nat \cup {NoLimit}
    /\ {solved, out} \subseteq Rewrites \cup {NoTree}

(* What the manager drains after a visit of a captured instruction is      *)
(* about that visit, also when the attempt before it was never drained; it *)
(* has been finished on every path the visit can take, and says improved   *)
(* exactly when a replacement is returned.  A visit that was not captured  *)
(* begins no attempt: there is something after it only if an earlier       *)
(* attempt was left (_begin_attempt, _finish_attempt).                     *)
ObservationTruthful ==
    pc = "returned" =>
        IF visit.captured
        THEN /\ observation.current
             /\ observation.status \notin {"none", "pending"}
             /\ observation.status = "improved" <=> out # NoTree
        ELSE /\ ~observation.current
             /\ observation # NoObservation <=> visit.left

(* The solves of both paths together take no longer than the allowance of  *)
(* their decompilation, but for the last solver noticing its limit late    *)
(* (_inline_limit_ms and _charge_solve).                                   *)
BudgetHonoured ==
    \A s \in Sessions : Budget # NoLimit => spent[s] <= Budget * Millisecond + Overrun

(* A width-lifted instruction is only ever replaced by what has been       *)
(* proved, also while proofs are not required: the plain table, where      *)
(* unproved rewrites then live under the same keys, is never asked.        *)
WidthInstallsProved ==
    pc = "returned" /\ visit.width /\ out # NoTree => <<visit.key, out>> \in Sound

=============================================================================
