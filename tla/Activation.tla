----------------------------- MODULE Activation -----------------------------
(***************************************************************************)
(* One activation of the plugin (plugin.py): it owns the rules it has made *)
(* and cleans each of them up when it is released, when its construction   *)
(* fails, or when the activation is closed.  Calls come from several       *)
(* threads.  What a call does under _ownership_lock is one step; the       *)
(* cleanup it has then become responsible for runs after the lock is left, *)
(* one method of one rule at a time, between the steps of other calls.     *)
(* The order of the list _rules decides in which order close cleans, which *)
(* nothing depends on: it is a set here.                                   *)
(***************************************************************************)
EXTENDS Naturals

CONSTANTS
    Threads,
    Rules     \* the rules that can ever be constructed

VARIABLES
    closed,   \* _closed
    rules,    \* _rules
    born,     \* the rules constructed so far
    todo,     \* for each thread, the rules its call still has to clean up
    called,   \* for each rule, how many cleanup methods have been called on it
    raised    \* for each thread, whether its last call ends in an exception

vars == <<closed, rules, born, todo, called, raised>>

(* stop_escalator, flush_store, close_store, in this order.                *)
Methods == 3

Idle(t) == todo[t] = {}

Init ==
    /\ closed = FALSE
    /\ rules = {}
    /\ born = {}
    /\ todo = [t \in Threads |-> {}]
    /\ called = [r \in Rules |-> 0]
    /\ raised = [t \in Threads |-> FALSE]

----------------------------------------------------------------------------
(* Mutant of Create: it does not look at _closed.                          *)
CreateUnchecked(t, r) ==
    /\ Idle(t)
    /\ r \notin born
    /\ born' = born \cup {r}
    /\ rules' = rules \cup {r}
    /\ raised' = [raised EXCEPT ![t] = FALSE]
    /\ UNCHANGED <<closed, todo, called>>

(* Under the lock: construct and bind.  A rule that cannot be bound is not *)
(* owned: the call cleans it up itself, and fails.                         *)
Create(t, r) ==
    /\ Idle(t)
    /\ ~closed
    /\ r \notin born
    /\ born' = born \cup {r}
    /\ \/ /\ rules' = rules \cup {r}
          /\ raised' = [raised EXCEPT ![t] = FALSE]
          /\ UNCHANGED todo
       \/ /\ todo' = [todo EXCEPT ![t] = {r}]
          /\ raised' = [raised EXCEPT ![t] = TRUE]
          /\ UNCHANGED rules
    /\ UNCHANGED <<closed, called>>

CreateAfterClose(t) ==
    /\ Idle(t)
    /\ closed
    /\ raised' = [raised EXCEPT ![t] = TRUE]
    /\ UNCHANGED <<closed, rules, born, todo, called>>

(* Mutant of Release: it finds the rule and leaves it in the list.         *)
ReleaseKeeps(t, r) ==
    /\ Idle(t)
    /\ ~closed
    /\ raised' = [raised EXCEPT ![t] = FALSE]
    /\ todo' = [todo EXCEPT ![t] = {r} \cap rules]
    /\ UNCHANGED <<closed, rules, born, called>>

(* Under the lock: the one call that finds the rule takes it; a rule that  *)
(* is not owned, or no longer, is left alone.                              *)
Release(t, r) ==
    /\ Idle(t)
    /\ raised' = [raised EXCEPT ![t] = FALSE]
    /\ IF closed
         THEN UNCHANGED <<rules, todo>>
         ELSE /\ rules' = rules \ {r}
              /\ todo' = [todo EXCEPT ![t] = {r} \cap rules]
    /\ UNCHANGED <<closed, born, called>>

(* Under the lock: the first close takes every rule that is still owned.   *)
Close(t) ==
    /\ Idle(t)
    /\ raised' = [raised EXCEPT ![t] = FALSE]
    /\ IF closed
         THEN UNCHANGED <<closed, rules, todo>>
         ELSE /\ closed' = TRUE
              /\ rules' = {}
              /\ todo' = [todo EXCEPT ![t] = rules]
    /\ UNCHANGED <<born, called>>

(* Mutant of CleanUp: an exception ends the cleanup of the rule.           *)
CleanUpOrStop(t, r, fails) ==
    /\ r \in todo[t]
    /\ \A other \in todo[t] \ {r} : called[other] = 0
    /\ called' = [called EXCEPT ![r] = @ + 1]
    /\ todo' = [todo EXCEPT ![t] = IF called[r] + 1 < Methods /\ ~fails THEN @ ELSE @ \ {r}]
    /\ raised' = [raised EXCEPT ![t] = @ \/ fails]
    /\ UNCHANGED <<closed, rules, born>>

(* One cleanup method of one rule; rules are cleaned one after another.    *)
(* An exception is kept for the caller and the next method tried anyway.   *)
CleanUp(t, r, fails) ==
    /\ r \in todo[t]
    /\ \A other \in todo[t] \ {r} : called[other] = 0
    /\ called' = [called EXCEPT ![r] = @ + 1]
    /\ todo' = [todo EXCEPT ![t] = IF called[r] + 1 < Methods THEN @ ELSE @ \ {r}]
    /\ raised' = [raised EXCEPT ![t] = @ \/ fails]
    /\ UNCHANGED <<closed, rules, born>>

Cleaning(t) == \E r \in Rules, fails \in BOOLEAN : CleanUp(t, r, fails)

Next ==
    \E t \in Threads :
        \/ CreateAfterClose(t)
        \/ Close(t)
        \/ Cleaning(t)
        \/ \E r \in Rules : Create(t, r) \/ Release(t, r)

Spec == Init /\ [][Next]_vars

(* A call that has begun to clean up is run to its end: its thread is not  *)
(* starved, and the stop it waits for returns (StopReturns of              *)
(* EscalationProver, StopEndsWorker of DeferredSolver).                    *)
FairSpec == Spec /\ \A t \in Threads : WF_vars(Cleaning(t))

----------------------------------------------------------------------------
TypeOK ==
    /\ closed \in BOOLEAN
    /\ rules \subseteq born
    /\ born \subseteq Rules
    /\ todo \in [Threads -> SUBSET born]
    /\ called \in [Rules -> 0..Methods]
    /\ raised \in [Threads -> BOOLEAN]

(* A rule the activation owns has not been touched, a rule that waits for  *)
(* cleanup has methods left, and no rule is both or waits in two calls;    *)
(* nothing is owned after close (the lock of plugin.py:61, 101 and 114).   *)
OneOwner ==
    /\ closed => rules = {}
    /\ \A r \in rules : called[r] = 0
    /\ \A t \in Threads : \A r \in todo[t] : called[r] < Methods /\ r \notin rules
    /\ \A t, u \in Threads : t # u => todo[t] \cap todo[u] = {}
    /\ \A r \in born \ rules : called[r] = Methods \/ \E t \in Threads : r \in todo[t]
    /\ \A r \in Rules \ born : called[r] = 0

(* What the abstract module calls the status of a rule.                    *)
RuleStatus(r) ==
    IF r \notin born THEN "unborn"
    ELSE IF r \in rules THEN "owned"
    ELSE IF \E t \in Threads : r \in todo[t] THEN "leaving" ELSE "gone"

Ownership == INSTANCE RuleOwnership WITH
    open <- ~closed,
    status <- [r \in Rules |-> RuleStatus(r)]

(* Whatever threads create, release and close at the same time, each rule  *)
(* is given up once and cleaned up by the one call that took it            *)
(* (create_implementation, release_implementation, close).                 *)
ImplementsOwnership == Ownership!Spec

(* After close every rule ever made ends up with its three cleanup methods *)
(* called exactly once each, even when some of them raise                  *)
(* (_cleanup_rule collects the errors and goes on).                        *)
CloseLeavesNothing == closed ~> (\A r \in born : called[r] = Methods)

=============================================================================
