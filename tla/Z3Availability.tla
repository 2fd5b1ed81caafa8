--------------------------- MODULE Z3Availability ---------------------------
(***************************************************************************)
(* Whether z3 can be used, as prove.py remembers it: two module globals,   *)
(* the cached answer and the generation it was computed for, read and      *)
(* written without a lock by every thread that is about to prove, while    *)
(* d810 may install z3 at any time.  One step here is one access to a      *)
(* global, or the import; only the condition that decides on a probe reads *)
(* both globals in a step.                                                 *)
(*                                                                         *)
(* The installer is d810's: the code relies on it putting z3 on the path   *)
(* before it announces so by raising its generation, and never taking z3   *)
(* away again.                                                             *)
(***************************************************************************)
EXTENDS Integers

CONSTANTS
    Threads,
    Resetters,      \* the threads that call reset_z3_detection
    MaxGeneration   \* how many announcements are considered

ASSUME ResettersAssumption == Resetters \subseteq Threads
ASSUME MaxGenerationAssumption == MaxGeneration \in Nat

VARIABLES
    installed,   \* z3 can be imported
    generation,  \* optional_dependency_generation()
    available,   \* _Z3_AVAILABLE: "none" before the first probe, "yes" or "no"
    stamp,       \* _Z3_GENERATION
    bound,       \* the global z3 is the module, not None
    at,          \* for each thread, where in z3_available it is, or "idle"
    seen,        \* for each thread, the generation its last call has read
    found,       \* for each thread, what its last probe answered
    told         \* for each thread, what its last call returned

z3Vars == <<installed, generation, available, stamp, bound, at, seen, found, told>>

Answers == {"none", "yes", "no"}

Z3Init ==
    /\ installed \in BOOLEAN
    /\ generation = 0
    /\ available = "none"
    /\ stamp = -1
    /\ bound = FALSE
    /\ at = [t \in Threads |-> "idle"]
    /\ seen = [t \in Threads |-> 0]
    /\ found = [t \in Threads |-> "no"]
    /\ told = [t \in Threads |-> "none"]

----------------------------------------------------------------------------
Install ==
    /\ ~installed
    /\ installed' = TRUE
    /\ UNCHANGED <<generation, available, stamp, bound, at, seen, found, told>>

Announce ==
    /\ installed
    /\ generation < MaxGeneration
    /\ generation' = generation + 1
    /\ UNCHANGED <<installed, available, stamp, bound, at, seen, found, told>>

(* reset_z3_detection: called by a thread that has installed z3, which is  *)
(* not in z3_available then.                                               *)
Reset(t) ==
    /\ at[t] = "idle"
    /\ available' = "none"
    /\ UNCHANGED <<installed, generation, stamp, bound, at, seen, found, told>>

Move(t, from, to) == at[t] = from /\ at' = [at EXCEPT ![t] = to]

(* z3_available reads the generation first.                                *)
Ask(t) ==
    /\ Move(t, "idle", "check")
    /\ seen' = [seen EXCEPT ![t] = generation]
    /\ UNCHANGED <<installed, generation, available, stamp, bound, found, told>>

(* Mutant of Check: a cached answer is good for ever.                      *)
CheckForEver(t) ==
    /\ Move(t, "check", IF available = "none" THEN "probe" ELSE "answer")
    /\ UNCHANGED <<installed, generation, available, stamp, bound, seen, found, told>>

Check(t) ==
    /\ Move(t, "check", IF available = "none" \/ seen[t] # stamp THEN "probe" ELSE "answer")
    /\ UNCHANGED <<installed, generation, available, stamp, bound, seen, found, told>>

(* _probe_z3: the import, which also binds the module.                     *)
Probe(t) ==
    /\ Move(t, "probe", "store")
    /\ found' = [found EXCEPT ![t] = IF installed THEN "yes" ELSE "no"]
    /\ bound' = (bound \/ installed)
    /\ UNCHANGED <<installed, generation, available, stamp, seen, told>>

StoreAnswer(t) ==
    /\ Move(t, "store", "stamp")
    /\ available' = found[t]
    /\ UNCHANGED <<installed, generation, stamp, bound, seen, found, told>>

StoreStamp(t) ==
    /\ Move(t, "stamp", "answer")
    /\ stamp' = seen[t]
    /\ UNCHANGED <<installed, generation, available, bound, seen, found, told>>

(* It returns the global as it is by then.                                 *)
Answer(t) ==
    /\ Move(t, "answer", "idle")
    /\ told' = [told EXCEPT ![t] = available]
    /\ UNCHANGED <<installed, generation, available, stamp, bound, seen, found>>

Answering(t) == Check(t) \/ Probe(t) \/ StoreAnswer(t) \/ StoreStamp(t) \/ Answer(t)

Environment == Install \/ Announce \/ \E t \in Resetters : Reset(t)

Z3Next == Environment \/ \E t \in Threads : Ask(t) \/ Answering(t)

Z3Spec == Z3Init /\ [][Z3Next]_z3Vars

(* The same while z3 is announced, and its detection reset, only when no   *)
(* call is under way.  The installation itself may come at any time.       *)
NobodyAsks == \A t \in Threads : at[t] = "idle"

QuietNext ==
    \/ Install
    \/ NobodyAsks /\ (Announce \/ \E t \in Resetters : Reset(t))
    \/ \E t \in Threads : Ask(t) \/ Answering(t)

QuietSpec == Z3Init /\ [][QuietNext]_z3Vars

----------------------------------------------------------------------------
Z3TypeOK ==
    /\ installed \in BOOLEAN
    /\ generation \in 0..MaxGeneration
    /\ available \in Answers
    /\ stamp \in -1..MaxGeneration
    /\ bound \in BOOLEAN
    /\ at \in [Threads -> {"idle", "check", "probe", "store", "stamp", "answer"}]
    /\ seen \in [Threads -> 0..MaxGeneration]
    /\ found \in [Threads -> {"yes", "no"}]
    /\ told \in [Threads -> Answers]

(* A caller that was told z3 is there finds the global z3 bound, whichever *)
(* thread probed and whatever other threads store meanwhile: the proof     *)
(* helpers use it without looking (prove.py:236-251).                      *)
ModuleBound == \A t \in Threads : told[t] = "yes" => bound

(* A call that began after an installation was announced answers that z3   *)
(* is there.  None is no better an answer than False: every caller skips   *)
(* its proof on it (prove.py:188 and 249, width_prove.py:159).  A reset,   *)
(* or an announcement, that comes while two calls overlap can break this.  *)
AnswerIsFresh ==
    \A t \in Threads : at[t] = "idle" /\ seen[t] > 0 => told[t] = "yes"

=============================================================================
