--------------------------- MODULE DeferredSolver ---------------------------
(***************************************************************************)
(* The background solver, src/src/d810_cobra/deferred_solve.py: it solves  *)
(* and proves the keys whose inline solve ran out of budget.  It differs   *)
(* from the escalation prover in three ways that matter: stop lets go of   *)
(* _lock before it joins and gives up after a timeout; a key is released   *)
(* wherever its job ends without a verdict; and results are counted, under *)
(* _lock, for the main thread to flush.                                    *)
(***************************************************************************)
EXTENDS RewriteTable, Sequences

CONSTANTS
    Sound,      \* the pairs <<key, rewrite>> that are equivalent
    Clients,    \* the threads that call start, stop, submit and take_settled
    NoClient,
    MaxQueue,   \* maxsize of the queue
    Wakeup,     \* the sentinel None that tells the worker to leave
    NoKey,      \* the worker holds no job
    StopOnce    \* TRUE when a started worker is stopped at most once

ASSUME SoundAssumption == Sound \subseteq Keys \X Rewrites
ASSUME MaxQueueAssumption == MaxQueue \in Nat \ {0}
ASSUME NamesAssumption ==
    NoClient \notin Clients /\ {Wakeup, NoKey} \cap Keys = {} /\ Wakeup # NoKey
ASSUME StopOnceAssumption == StopOnce \in BOOLEAN

VARIABLES
    thread,      \* _thread is not None
    worker,      \* where the worker thread is in _run; "dead" when not is_alive()
    item,        \* the key whose tree the worker is solving
    found,       \* the rewrite the solver returned
    queue,       \* _queue
    unfinished,  \* _queue.unfinished_tasks
    stopping,    \* the event _stopping
    settled,     \* _settled > 0, all that the caller of take_settled looks at
    lock,        \* the client that holds _lock across actions
    pc,          \* for each client, where it is in submit or stop
    asked,       \* for each client, the key it is submitting
    current      \* for each client in stop: `self._thread is thread`

workerVars == <<worker, item, found>>
clientVars == <<lock, pc, asked, current>>
vars == <<entries, thread, workerVars, queue, unfinished, stopping, settled, clientVars>>

WorkerAt == {"dead", "get", "solve", "prove", "record", "negative", "clear",
             "count", "finish", "exit"}
ClientAt == {"idle", "mark", "enqueue", "cancel", "wake", "join", "forget"}

Init ==
    /\ entries = EmptyTable
    /\ thread = FALSE
    /\ worker = "dead" /\ item = NoKey /\ found = NoTree
    /\ queue = <<>> /\ unfinished = 0
    /\ stopping = FALSE
    /\ settled = FALSE
    /\ lock = NoClient
    /\ pc = [c \in Clients |-> "idle"]
    /\ asked = [c \in Clients |-> NoKey]
    /\ current = [c \in Clients |-> FALSE]

Alive == worker # "dead"

Goto(c, label) == pc' = [pc EXCEPT ![c] = label]

Idle(c) == lock = NoClient /\ pc[c] = "idle"

-----------------------------------------------------------------------------
(* start.  A call that finds a live worker returns, even if that worker    *)
(* has been told to stop.  A stop still joining the old thread will find   *)
(* that _thread is another one.                                            *)
Start(c) ==
    /\ Idle(c)
    /\ ~(thread /\ Alive)
    /\ stopping' = FALSE
    /\ thread' = TRUE
    /\ worker' = "get"
    /\ current' = [d \in Clients |-> FALSE]
    /\ UNCHANGED <<entries, item, found, queue, unfinished, settled, lock, pc, asked>>

-----------------------------------------------------------------------------
(* Mutant of BeginSubmit: neither the table nor the queue is looked at.    *)
BeginSubmitBlindly(c, k) ==
    /\ Idle(c)
    /\ thread /\ Alive /\ ~stopping
    /\ lock' = c
    /\ Goto(c, "mark")
    /\ asked' = [asked EXCEPT ![c] = k]
    /\ UNCHANGED <<entries, thread, workerVars, queue, unfinished, stopping, settled, current>>

BeginSubmit(c, k) ==
    /\ Idle(c)
    /\ thread /\ Alive /\ ~stopping
    /\ Len(queue) < MaxQueue
    /\ ~Known(k)
    /\ lock' = c
    /\ Goto(c, "mark")
    /\ asked' = [asked EXCEPT ![c] = k]
    /\ UNCHANGED <<entries, thread, workerVars, queue, unfinished, stopping, settled, current>>

MarkPending(c) ==
    /\ pc[c] = "mark"
    /\ \E gone \in Evictions(asked[c]) : RecordPending(asked[c], gone)
    /\ Goto(c, "enqueue")
    /\ UNCHANGED <<thread, workerVars, queue, unfinished, stopping, settled, lock, asked, current>>

(* Mutant of Enqueue: the key is dropped before it is queued.              *)
EnqueueTooLate(c) ==
    /\ pc[c] = "enqueue"
    /\ asked' = [asked EXCEPT ![c] = NoKey]
    /\ queue' = Append(queue, asked'[c])
    /\ unfinished' = unfinished + 1
    /\ lock' = NoClient
    /\ Goto(c, "idle")
    /\ UNCHANGED <<entries, thread, workerVars, stopping, settled, current>>

Enqueue(c) ==
    /\ pc[c] = "enqueue"
    /\ queue' = Append(queue, asked[c])
    /\ unfinished' = unfinished + 1
    /\ lock' = NoClient
    /\ Goto(c, "idle")
    /\ asked' = [asked EXCEPT ![c] = NoKey]
    /\ UNCHANGED <<entries, thread, workerVars, stopping, settled, current>>

-----------------------------------------------------------------------------
(* stop.  Without a thread it returns.                                     *)
BeginStop(c) ==
    /\ Idle(c)
    /\ thread
    /\ StopOnce => ~stopping
    /\ stopping' = TRUE
    /\ lock' = c
    /\ Goto(c, "cancel")
    /\ current' = [current EXCEPT ![c] = TRUE]
    /\ UNCHANGED <<entries, thread, workerVars, queue, unfinished, settled, asked>>

(* Mutant of CancelQueued: a cancelled key stays pending.                  *)
CancelUnreleased(c) ==
    /\ pc[c] = "cancel"
    /\ queue # <<>>
    /\ queue' = Tail(queue)
    /\ unfinished' = unfinished - 1
    /\ UNCHANGED <<entries, thread, workerVars, stopping, settled, clientVars>>

(* One turn of the drain loop.  Between its get_nowait and its task_done   *)
(* only the stopping thread holds the item.                                *)
CancelQueued(c) ==
    /\ pc[c] = "cancel"
    /\ queue # <<>>
    /\ IF Head(queue) = Wakeup THEN UNCHANGED entries ELSE ClearPending(Head(queue))
    /\ queue' = Tail(queue)
    /\ unfinished' = unfinished - 1
    /\ UNCHANGED <<thread, workerVars, stopping, settled, clientVars>>

(* Mutant of CancelDone: the sentinel is never put.                        *)
CancelDoneUnwoken(c) ==
    /\ pc[c] = "cancel"
    /\ queue = <<>>
    /\ Goto(c, "join") /\ lock' = NoClient
    /\ UNCHANGED <<entries, thread, workerVars, queue, unfinished, stopping, settled,
                   asked, current>>

CancelDone(c) ==
    /\ pc[c] = "cancel"
    /\ queue = <<>>
    /\ IF Alive THEN Goto(c, "wake") /\ UNCHANGED lock
                ELSE Goto(c, "join") /\ lock' = NoClient
    /\ UNCHANGED <<entries, thread, workerVars, queue, unfinished, stopping, settled,
                   asked, current>>

Wake(c) ==
    /\ pc[c] = "wake"
    /\ queue' = Append(queue, Wakeup)
    /\ unfinished' = unfinished + 1
    /\ Goto(c, "join")
    /\ lock' = NoClient
    /\ UNCHANGED <<entries, thread, workerVars, stopping, settled, asked, current>>

(* join(timeout), without the lock: the joined thread is dead when the     *)
(* worker is, or when it has been replaced.                                *)
JoinReturns(c) ==
    /\ pc[c] = "join"
    /\ ~(current[c] /\ Alive)
    /\ Goto(c, "forget")
    /\ UNCHANGED <<entries, thread, workerVars, queue, unfinished, stopping, settled,
                   lock, asked, current>>

JoinTimesOut(c) ==
    /\ pc[c] = "join"
    /\ current[c] /\ Alive
    /\ Goto(c, "idle")
    /\ current' = [current EXCEPT ![c] = FALSE]
    /\ UNCHANGED <<entries, thread, workerVars, queue, unfinished, stopping, settled,
                   lock, asked>>

Forget(c) ==
    /\ lock = NoClient /\ pc[c] = "forget"
    /\ thread' = (thread /\ ~current[c])
    /\ Goto(c, "idle")
    /\ current' = [current EXCEPT ![c] = FALSE]
    /\ UNCHANGED <<entries, workerVars, queue, unfinished, stopping, settled, lock, asked>>

-----------------------------------------------------------------------------
(* The main thread collects the completions, to flush the store.           *)
TakeSettled(c) ==
    /\ Idle(c)
    /\ settled' = FALSE
    /\ UNCHANGED <<entries, thread, workerVars, queue, unfinished, stopping, clientVars>>

-----------------------------------------------------------------------------
(* The worker's loop.                                                      *)
TakeItem ==
    /\ worker = "get"
    /\ queue # <<>> /\ Head(queue) # Wakeup
    /\ item' = Head(queue)
    /\ queue' = Tail(queue)
    /\ worker' = "solve"
    /\ UNCHANGED <<entries, thread, found, unfinished, stopping, settled, clientVars>>

TakeWakeup ==
    /\ worker = "get"
    /\ queue # <<>> /\ Head(queue) = Wakeup
    /\ queue' = Tail(queue)
    /\ worker' = "exit"
    /\ UNCHANGED <<entries, thread, item, found, unfinished, stopping, settled, clientVars>>

(* Mutant of Leave: the sentinel gets no task_done.                        *)
LeaveUndone ==
    /\ worker = "exit"
    /\ worker' = "dead"
    /\ UNCHANGED <<entries, thread, item, found, queue, unfinished, stopping, settled,
                   clientVars>>

Leave ==
    /\ worker = "exit"
    /\ unfinished' = unfinished - 1
    /\ worker' = "dead"
    /\ UNCHANGED <<entries, thread, item, found, queue, stopping, settled, clientVars>>

(* solve_signature returned and the worker looks at _stopping: a rewrite   *)
(* that is accepted goes on to its proof.                                  *)
SolveFinds(r) ==
    /\ worker = "solve"
    /\ worker' = IF stopping THEN "clear" ELSE "prove"
    /\ found' = r
    /\ UNCHANGED <<entries, thread, item, queue, unfinished, stopping, settled, clientVars>>

(* The solver is sure that there is nothing better.                        *)
SolveUnchanged ==
    /\ worker = "solve"
    /\ worker' = IF stopping THEN "clear" ELSE "negative"
    /\ UNCHANGED <<entries, thread, item, found, queue, unfinished, stopping, settled, clientVars>>

(* It expired, it failed, its rewrite is refused, or it raised.            *)
SolveGivesUp ==
    /\ worker = "solve"
    /\ worker' = "clear"
    /\ UNCHANGED <<entries, thread, item, found, queue, unfinished, stopping, settled, clientVars>>

(* prove_equivalent proved, and the worker looks at _stopping again.       *)
ProofSucceeds ==
    /\ worker = "prove"
    /\ <<item, found>> \in Sound
    /\ worker' = IF stopping THEN "clear" ELSE "record"
    /\ UNCHANGED <<entries, thread, item, found, queue, unfinished, stopping, settled, clientVars>>

(* It refuted, starved or raised: never a settled negative here.           *)
ProofFails ==
    /\ worker = "prove"
    /\ worker' = "clear"
    /\ UNCHANGED <<entries, thread, item, found, queue, unfinished, stopping, settled, clientVars>>

RecordProof ==
    /\ worker = "record"
    /\ \E gone \in Evictions(item) : RecordProved(item, found, TRUE, gone)
    /\ worker' = "count"
    /\ UNCHANGED <<thread, item, found, queue, unfinished, stopping, settled, clientVars>>

RecordNegative ==
    /\ worker = "negative"
    /\ \E gone \in Evictions(item) : RecordNoRewrite(item, gone)
    /\ worker' = "count"
    /\ UNCHANGED <<thread, item, found, queue, unfinished, stopping, settled, clientVars>>

Count ==
    /\ worker = "count"
    /\ lock = NoClient
    /\ settled' = TRUE
    /\ worker' = "finish"
    /\ UNCHANGED <<entries, thread, item, found, queue, unfinished, stopping, clientVars>>

ReleaseKey ==
    /\ worker = "clear"
    /\ ClearPending(item)
    /\ worker' = "finish"
    /\ UNCHANGED <<thread, item, found, queue, unfinished, stopping, settled, clientVars>>

TaskDone ==
    /\ worker = "finish"
    /\ unfinished' = unfinished - 1
    /\ item' = NoKey
    /\ found' = NoTree
    /\ worker' = "get"
    /\ UNCHANGED <<entries, thread, queue, stopping, settled, clientVars>>

-----------------------------------------------------------------------------
(* The live rule settles inline a key its lookup did not find; it leaves a *)
(* pending key to the worker.                                              *)
RuleSettles(k, r) ==
    /\ ~IsPending(k)
    /\ \E gone \in Evictions(k) :
          IF <<k, r>> \in Sound THEN RecordProved(k, r, TRUE, gone)
                                ELSE RecordNoRewrite(k, gone)
    /\ UNCHANGED <<thread, workerVars, queue, unfinished, stopping, settled, clientVars>>

-----------------------------------------------------------------------------
ClientStep(c) ==
    \/ MarkPending(c) \/ Enqueue(c)
    \/ CancelQueued(c) \/ CancelDone(c) \/ Wake(c)
    \/ JoinReturns(c) \/ JoinTimesOut(c) \/ Forget(c)

ClientCall(c) ==
    \/ Start(c) \/ BeginStop(c) \/ TakeSettled(c)
    \/ \E k \in Keys : BeginSubmit(c, k)

WorkerStep ==
    \/ TakeItem \/ TakeWakeup \/ Leave
    \/ \E r \in Rewrites : SolveFinds(r)
    \/ SolveUnchanged \/ SolveGivesUp
    \/ ProofSucceeds \/ ProofFails
    \/ RecordProof \/ RecordNegative \/ Count \/ ReleaseKey \/ TaskDone

Next ==
    \/ \E c \in Clients : ClientStep(c) \/ ClientCall(c)
    \/ WorkerStep
    \/ \E k \in Keys, r \in Rewrites : RuleSettles(k, r)

Spec == Init /\ [][Next]_vars

(* A thread that can run does.  The worker's wait for _lock competes with  *)
(* the clients' calls, which nothing forces to be frequent, but each of    *)
(* which may come first: hence strong fairness.                            *)
FairSpec ==
    /\ Spec
    /\ SF_vars(WorkerStep)
    /\ \A c \in Clients : SF_vars(ClientStep(c))

-----------------------------------------------------------------------------
TypeOK ==
    /\ EntriesType
    /\ thread \in BOOLEAN
    /\ worker \in WorkerAt
    /\ item \in Keys \cup {NoKey}
    /\ found \in Rewrites \cup {NoTree}
    /\ queue \in Seq(Keys \cup {Wakeup})
    /\ unfinished \in Int
    /\ stopping \in BOOLEAN /\ settled \in BOOLEAN
    /\ lock \in Clients \cup {NoClient}
    /\ pc \in [Clients -> ClientAt]
    /\ asked \in [Clients -> Keys \cup {NoKey}]
    /\ current \in [Clients -> BOOLEAN]

(* The queue's task count balances, whatever the interleaving of stops     *)
(* with the worker's get.                                                  *)
TaskAccounting ==
    unfinished = Len(queue) + (IF worker \in {"dead", "get"} THEN 0 ELSE 1)

(* put_nowait never raises queue.Full in submit or in stop, although stop  *)
(* does not keep the lock until the worker has taken its sentinel.         *)
PutNeverFull ==
    \A c \in Clients : pc[c] \in {"enqueue", "wake"} => Len(queue) < MaxQueue

(* A dead worker leaves an empty queue: what a later start finds is no     *)
(* sentinel and no forgotten key.                                          *)
NothingLeftBehind ==
    lock = NoClient /\ ~Alive => queue = <<>> /\ unfinished = 0

(* The key of a job that is queued, being worked on, or about to be queued *)
(* by a submit that already marked it.                                     *)
Owned(k) ==
    \/ \E i \in DOMAIN queue : queue[i] = k
    \/ item = k
    \/ \E c \in Clients : pc[c] = "enqueue" /\ asked[c] = k

(* Every pending key has a job that will decide it, through stops,         *)
(* restarts and failures: none is left pending with nobody working on it.  *)
PendingIsOwned == \A k \in Keys : IsPending(k) => Owned(k)

(* A late PENDING never erases a result: no step turns a settled entry     *)
(* into a pending one.                                                     *)
ResultNeverBecomesPending ==
    [][\A k \in Keys : IsSettled(k) => ~IsPending(k)']_vars

(* A pending key is always decided in the end, even across a stop.         *)
PendingIsDecided == \A k \in Keys : IsPending(k) ~> ~IsPending(k)

(* stop may time out, but the worker it signalled ends.                    *)
StopEndsWorker ==
    \A c \in Clients : pc[c] = "cancel" ~> ~Alive

(* The solver keeps the promise of a background worker.                    *)
JobsOf(k) ==
    Cardinality({i \in DOMAIN queue : queue[i] = k})
    + (IF worker \in {"solve", "prove", "record", "negative", "clear"} /\ item = k
       THEN 1 ELSE 0)
    + Cardinality({c \in Clients : pc[c] = "enqueue" /\ asked[c] = k})

Promise == INSTANCE BackgroundProver
             WITH jobs <- [k \in Keys |-> JobsOf(k)],
                  accepting <- (thread /\ ~stopping)

ImplementsPromise == Promise!Spec

=============================================================================
