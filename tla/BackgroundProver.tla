-------------------------- MODULE BackgroundProver --------------------------
(***************************************************************************)
(* What a background worker promises the rule that feeds it, without its   *)
(* threads, queue, locks and sentinels.  A submitted key is marked pending *)
(* and becomes a job.  While the worker accepts work, the only way a job   *)
(* ends is that its key is settled with a verdict or released for another  *)
(* try, in the same step; once the worker has been told to stop, a job may *)
(* also be abandoned.  Both workers, EscalationProver and DeferredSolver,  *)
(* are meant to implement it.                                              *)
(***************************************************************************)
EXTENDS RewriteTable

CONSTANT Sound \* the pairs <<key, rewrite>> that compute the same function

VARIABLES
    jobs,      \* for each key, how many accepted jobs have not ended
    accepting  \* the worker is started and has not been told to stop

vars == <<entries, jobs, accepting>>

Init ==
    /\ entries = EmptyTable
    /\ jobs = [k \in Keys |-> 0]
    /\ accepting = FALSE

Open == ~accepting /\ accepting' = TRUE /\ UNCHANGED <<entries, jobs>>

Close == accepting /\ accepting' = FALSE /\ UNCHANGED <<entries, jobs>>

Submit(k) ==
    /\ accepting
    /\ ~IsPending(k)
    /\ \E gone \in Evictions(k) : RecordPending(k, gone)
    /\ jobs' = [jobs EXCEPT ![k] = @ + 1]
    /\ UNCHANGED accepting

End(k) == jobs[k] > 0 /\ jobs' = [jobs EXCEPT ![k] = @ - 1] /\ UNCHANGED accepting

(* A proof is recorded with the rewrite it proved.                         *)
EndProved(k) ==
    /\ End(k)
    /\ \E r \in Rewrites, gone \in Evictions(k) :
          <<k, r>> \in Sound /\ RecordProved(k, r, TRUE, gone)

EndNegative(k) == End(k) /\ \E gone \in Evictions(k) : RecordNoRewrite(k, gone)

EndReleased(k) == End(k) /\ ClearPending(k)

Abandon(k) == End(k) /\ ~accepting /\ UNCHANGED entries

(* The live rule settles a key it had looked up and not found.             *)
Elsewhere(k) ==
    /\ ~IsPending(k)
    /\ \E gone \in Evictions(k) :
          \/ RecordNoRewrite(k, gone)
          \/ \E r \in Rewrites : <<k, r>> \in Sound /\ RecordProved(k, r, TRUE, gone)
    /\ UNCHANGED <<jobs, accepting>>

Next ==
    \/ Open \/ Close
    \/ \E k \in Keys :
          \/ Submit(k)
          \/ EndProved(k) \/ EndNegative(k) \/ EndReleased(k)
          \/ Abandon(k)
          \/ Elsewhere(k)

Spec == Init /\ [][Next]_vars

=============================================================================
