-------------------------- MODULE EscalationProver --------------------------
(***************************************************************************)
(* The off-path prover, src/src/d810_cobra/escalate.py: a bounded queue    *)
(* of candidates whose inline proof starved, one worker thread that proves *)
(* them with a larger budget, and start / stop / submit called by client   *)
(* threads.  One action per stretch of code that other threads cannot      *)
(* interleave with; the client calls hold _state_lock from their first     *)
(* action to their last, the worker never takes it.                        *)
(***************************************************************************)
EXTENDS RewriteTable, Sequences

CONSTANTS
    Sound,          \* the pairs <<key, rewrite>> that are equivalent
    Clients,        \* the threads that call start, stop and submit
    NoClient,
    MaxQueue,       \* maxsize of the queue
    Wakeup,         \* the sentinel None that tells the worker to leave
    NoJob,
    TimedStops,     \* TRUE when stop may be given a timeout
    ProverMayRaise  \* TRUE when the prover may raise instead of answering

Jobs == [key : Keys, rewrite : Rewrites]

ASSUME SoundAssumption == Sound \subseteq Keys \X Rewrites
ASSUME MaxQueueAssumption == MaxQueue \in Nat \ {0}
ASSUME NamesAssumption == NoClient \notin Clients /\ {Wakeup, NoJob} \cap Jobs = {} /\ Wakeup # NoJob
ASSUME SwitchesAssumption == TimedStops \in BOOLEAN /\ ProverMayRaise \in BOOLEAN

VARIABLES
    thread,      \* _thread is not None
    worker,      \* where the worker thread is in _run; "dead" when not is_alive()
    item,        \* the candidate the worker took from the queue
    verdict,     \* what the prover answered about it
    queue,       \* _queue
    unfinished,  \* _queue.unfinished_tasks, which drain() waits on
    stopping,    \* the event _stopping
    lock,        \* the client that holds _state_lock
    pc,          \* for each client, where it is in submit or stop
    job          \* for each client, the candidate it is submitting

workerVars == <<worker, item, verdict>>
clientVars == <<lock, pc, job>>
vars == <<entries, thread, workerVars, queue, unfinished, stopping, clientVars>>

WorkerAt == {"dead", "get", "prove", "judge", "record", "finish", "exit"}
ClientAt == {"idle", "mark", "enqueue", "cancel", "wake", "join"}
Verdicts == {"none", "proved", "refuted", "starved"}

Init ==
    /\ entries = EmptyTable
    /\ thread = FALSE
    /\ worker = "dead" /\ item = NoJob /\ verdict = "none"
    /\ queue = <<>> /\ unfinished = 0
    /\ stopping = FALSE
    /\ lock = NoClient
    /\ pc = [c \in Clients |-> "idle"]
    /\ job = [c \in Clients |-> NoJob]

Alive == worker # "dead"

Goto(c, label) == pc' = [pc EXCEPT ![c] = label]

Acquire(c) == lock = NoClient /\ pc[c] = "idle" /\ lock' = c

Release(c) == lock' = NoClient /\ Goto(c, "idle")

-----------------------------------------------------------------------------
(* start.  A call that finds a live worker changes nothing.                *)
Start(c) ==
    /\ lock = NoClient /\ pc[c] = "idle"
    /\ ~(thread /\ Alive)
    /\ stopping' = FALSE
    /\ thread' = TRUE
    /\ worker' = "get"
    /\ UNCHANGED <<entries, item, verdict, queue, unfinished, clientVars>>

-----------------------------------------------------------------------------
(* Mutant of BeginSubmit: neither the table nor the queue is looked at.    *)
BeginSubmitBlindly(c, j) ==
    /\ Acquire(c)
    /\ thread /\ Alive /\ ~stopping
    /\ Goto(c, "mark")
    /\ job' = [job EXCEPT ![c] = j]
    /\ UNCHANGED <<entries, thread, workerVars, queue, unfinished, stopping>>

(* submit.  It returns at once when there is no worker, the worker is      *)
(* stopping, the table knows the key or the queue is full.                 *)
BeginSubmit(c, j) ==
    /\ Acquire(c)
    /\ thread /\ Alive /\ ~stopping
    /\ ~Known(j.key)
    /\ Len(queue) < MaxQueue
    /\ Goto(c, "mark")
    /\ job' = [job EXCEPT ![c] = j]
    /\ UNCHANGED <<entries, thread, workerVars, queue, unfinished, stopping>>

MarkPending(c) ==
    /\ pc[c] = "mark"
    /\ \E gone \in Evictions(job[c].key) : RecordPending(job[c].key, gone)
    /\ Goto(c, "enqueue")
    /\ UNCHANGED <<thread, workerVars, queue, unfinished, stopping, lock, job>>

(* Mutant of Enqueue: the candidate is dropped before it is queued.        *)
EnqueueTooLate(c) ==
    /\ pc[c] = "enqueue"
    /\ job' = [job EXCEPT ![c] = NoJob]
    /\ queue' = Append(queue, job'[c])
    /\ unfinished' = unfinished + 1
    /\ Release(c)
    /\ UNCHANGED <<entries, thread, workerVars, stopping>>

Enqueue(c) ==
    /\ pc[c] = "enqueue"
    /\ queue' = Append(queue, job[c])
    /\ unfinished' = unfinished + 1
    /\ Release(c)
    /\ job' = [job EXCEPT ![c] = NoJob]
    /\ UNCHANGED <<entries, thread, workerVars, stopping>>

-----------------------------------------------------------------------------
(* Mutant of StopDead: a dead thread is forgotten, its queue is not.       *)
StopDeadUncleaned(c) ==
    /\ lock = NoClient /\ pc[c] = "idle"
    /\ ~(thread /\ Alive)
    /\ thread' = FALSE
    /\ UNCHANGED <<entries, workerVars, queue, unfinished, stopping, clientVars>>

(* stop, when the worker is already dead: nobody else can touch the queue. *)
StopDead(c) ==
    /\ lock = NoClient /\ pc[c] = "idle"
    /\ ~(thread /\ Alive)
    /\ queue' = <<>>
    /\ unfinished' = unfinished - Len(queue)
    /\ thread' = FALSE
    /\ UNCHANGED <<entries, workerVars, stopping, clientVars>>

(* stop, when it is alive: set the event and interrupt the proof.          *)
SignalStop(c) ==
    /\ Acquire(c)
    /\ thread /\ Alive
    /\ stopping' = TRUE
    /\ Goto(c, "cancel")
    /\ UNCHANGED <<entries, thread, workerVars, queue, unfinished, job>>

(* _cancel_queued_locked, one item at a time: the worker may get in between.*)
CancelQueued(c) ==
    /\ pc[c] = "cancel"
    /\ queue # <<>>
    /\ queue' = Tail(queue)
    /\ unfinished' = unfinished - 1
    /\ UNCHANGED <<entries, thread, workerVars, stopping, clientVars>>

(* Mutant of CancelDone: the sentinel is never put.                        *)
CancelDoneUnwoken(c) ==
    /\ pc[c] = "cancel"
    /\ queue = <<>>
    /\ Goto(c, "join")
    /\ UNCHANGED <<entries, thread, workerVars, queue, unfinished, stopping, lock, job>>

CancelDone(c) ==
    /\ pc[c] = "cancel"
    /\ queue = <<>>
    /\ Goto(c, "wake")
    /\ UNCHANGED <<entries, thread, workerVars, queue, unfinished, stopping, lock, job>>

Wake(c) ==
    /\ pc[c] = "wake"
    /\ queue' = Append(queue, Wakeup)
    /\ unfinished' = unfinished + 1
    /\ Goto(c, "join")
    /\ UNCHANGED <<entries, thread, workerVars, stopping, lock, job>>

(* join returned: cancel what is left and forget the thread.               *)
JoinReturns(c) ==
    /\ pc[c] = "join"
    /\ ~Alive
    /\ queue' = <<>>
    /\ unfinished' = unfinished - Len(queue)
    /\ thread' = FALSE
    /\ Release(c)
    /\ UNCHANGED <<entries, workerVars, stopping, job>>

(* The diagnostic timeout expired: TimeoutError, the thread is kept.       *)
JoinTimesOut(c) ==
    /\ TimedStops
    /\ pc[c] = "join"
    /\ Alive
    /\ Release(c)
    /\ UNCHANGED <<entries, thread, workerVars, queue, unfinished, stopping, job>>

-----------------------------------------------------------------------------
(* The worker's loop.                                                      *)
TakeItem ==
    /\ worker = "get"
    /\ queue # <<>> /\ Head(queue) # Wakeup
    /\ item' = Head(queue)
    /\ queue' = Tail(queue)
    /\ worker' = "prove"
    /\ UNCHANGED <<entries, thread, verdict, unfinished, stopping, clientVars>>

TakeWakeup ==
    /\ worker = "get"
    /\ queue # <<>> /\ Head(queue) = Wakeup
    /\ queue' = Tail(queue)
    /\ worker' = "exit"
    /\ UNCHANGED <<entries, thread, item, verdict, unfinished, stopping, clientVars>>

(* Mutant of Leave: the sentinel gets no task_done.                        *)
LeaveUndone ==
    /\ worker = "exit"
    /\ worker' = "dead"
    /\ UNCHANGED <<entries, thread, item, verdict, queue, unfinished, stopping, clientVars>>

Leave ==
    /\ worker = "exit"
    /\ unfinished' = unfinished - 1
    /\ worker' = "dead"
    /\ UNCHANGED <<entries, thread, item, verdict, queue, stopping, clientVars>>

(* The prover answers within its timeout.  z3 is trusted: a proof is of an *)
(* equivalence, a refutation of an inequivalence; either may starve.       *)
ProverAnswers(v) ==
    /\ worker = "prove"
    /\ v = "proved" => <<item.key, item.rewrite>> \in Sound
    /\ v = "refuted" => <<item.key, item.rewrite>> \notin Sound
    /\ verdict' = v
    /\ worker' = IF v = "proved" THEN "record" ELSE "judge"
    /\ UNCHANGED <<entries, thread, item, queue, unfinished, stopping, clientVars>>

(* An exception of the prover is logged in _run and the item is finished.  *)
ProverRaises ==
    /\ ProverMayRaise
    /\ worker = "prove"
    /\ worker' = "finish"
    /\ UNCHANGED <<entries, thread, item, verdict, queue, unfinished, stopping, clientVars>>

(* Only a verdict short of PROVED is dropped when a stop is under way.     *)
Judge ==
    /\ worker = "judge"
    /\ worker' = IF stopping THEN "finish" ELSE "record"
    /\ UNCHANGED <<entries, thread, item, verdict, queue, unfinished, stopping, clientVars>>

(* Mutant of RecordVerdict: a starved proof leaves its entry pending.      *)
RecordVerdictOrNothing ==
    /\ worker = "record"
    /\ \E gone \in Evictions(item.key) :
          \/ verdict = "proved" /\ RecordProved(item.key, item.rewrite, TRUE, gone)
          \/ verdict = "refuted" /\ RecordNoRewrite(item.key, gone)
          \/ verdict = "starved" /\ UNCHANGED entries
    /\ worker' = "finish"
    /\ UNCHANGED <<thread, item, verdict, queue, unfinished, stopping, clientVars>>

RecordVerdict ==
    /\ worker = "record"
    /\ \E gone \in Evictions(item.key) :
          \/ verdict = "proved" /\ RecordProved(item.key, item.rewrite, TRUE, gone)
          \/ verdict = "refuted" /\ RecordNoRewrite(item.key, gone)
          \/ verdict = "starved" /\ ClearPending(item.key)
    /\ worker' = "finish"
    /\ UNCHANGED <<thread, item, verdict, queue, unfinished, stopping, clientVars>>

TaskDone ==
    /\ worker = "finish"
    /\ unfinished' = unfinished - 1
    /\ item' = NoJob
    /\ verdict' = "none"
    /\ worker' = "get"
    /\ UNCHANGED <<entries, thread, queue, stopping, clientVars>>

-----------------------------------------------------------------------------
(* The live rule settles inline a key its lookup did not find.  It leaves  *)
(* a pending key to the worker, but its answer may land between a lookup   *)
(* made by submit and the mark that follows.                               *)
RuleSettles(j) ==
    /\ ~IsPending(j.key)
    /\ \E gone \in Evictions(j.key) :
          IF <<j.key, j.rewrite>> \in Sound
          THEN RecordProved(j.key, j.rewrite, TRUE, gone)
          ELSE RecordNoRewrite(j.key, gone)
    /\ UNCHANGED <<thread, workerVars, queue, unfinished, stopping, clientVars>>

-----------------------------------------------------------------------------
ClientStep(c) ==
    \/ MarkPending(c) \/ Enqueue(c)
    \/ CancelQueued(c) \/ CancelDone(c) \/ Wake(c)
    \/ JoinReturns(c) \/ JoinTimesOut(c)

ClientCall(c) ==
    \/ Start(c) \/ StopDead(c) \/ SignalStop(c)
    \/ \E j \in Jobs : BeginSubmit(c, j)

WorkerStep ==
    \/ TakeItem \/ TakeWakeup \/ Leave
    \/ \E v \in Verdicts \ {"none"} : ProverAnswers(v)
    \/ ProverRaises \/ Judge \/ RecordVerdict \/ TaskDone

Next ==
    \/ \E c \in Clients : ClientStep(c) \/ ClientCall(c)
    \/ WorkerStep
    \/ \E j \in Jobs : RuleSettles(j)

Spec == Init /\ [][Next]_vars

(* A thread that can run does; nobody has to call start, stop or submit.   *)
FairSpec ==
    /\ Spec
    /\ WF_vars(WorkerStep)
    /\ \A c \in Clients : WF_vars(ClientStep(c))

-----------------------------------------------------------------------------
TypeOK ==
    /\ EntriesType
    /\ thread \in BOOLEAN
    /\ worker \in WorkerAt
    /\ item \in Jobs \cup {NoJob}
    /\ verdict \in Verdicts
    /\ queue \in Seq(Jobs \cup {Wakeup})
    /\ unfinished \in Int
    /\ stopping \in BOOLEAN
    /\ lock \in Clients \cup {NoClient}
    /\ pc \in [Clients -> ClientAt]
    /\ job \in [Clients -> Jobs \cup {NoJob}]

(* The queue's task count is what is still queued plus what the worker     *)
(* holds, whatever the interleaving of stop's cancellation with the        *)
(* worker's get: drain() returns exactly when no candidate is outstanding. *)
TaskAccounting ==
    unfinished = Len(queue) + (IF worker \in {"dead", "get"} THEN 0 ELSE 1)

(* put_nowait never raises queue.Full, neither for a candidate (checked    *)
(* two steps earlier) nor for stop's sentinel ("the cancellation above     *)
(* guarantees room").                                                      *)
PutNeverFull ==
    \A c \in Clients : pc[c] \in {"enqueue", "wake"} => Len(queue) < MaxQueue

(* When nobody is inside start, stop or submit and the worker is dead, the *)
(* queue is empty and balanced: the next start finds no stale sentinel     *)
(* that would end its worker, and drain does not wait for ever.            *)
NothingLeftBehind ==
    lock = NoClient /\ ~Alive => queue = <<>> /\ unfinished = 0

(* Once stop has let go of the thread there is no worker, no queued        *)
(* candidate and no outstanding task, even if earlier stops timed out.     *)
StoppedIsClean ==
    ~thread => ~Alive /\ queue = <<>> /\ unfinished = 0

(* The key of a candidate that is queued, being proved, or about to be     *)
(* queued by a submit that already marked it.                              *)
Owned(k) ==
    \/ \E i \in DOMAIN queue : queue[i] # Wakeup /\ queue[i].key = k
    \/ item # NoJob /\ item.key = k
    \/ \E c \in Clients : pc[c] = "enqueue" /\ job[c].key = k

(* A late PENDING never erases a result: no step turns a settled entry     *)
(* into a pending one, although submit looks the key up and marks it in    *)
(* two steps between which the worker or the live rule may settle it.      *)
ResultNeverBecomesPending ==
    [][\A k \in Keys : IsSettled(k) => ~IsPending(k)']_vars

(* A pending key is owned by the prover until it is decided: the last job  *)
(* for a key leaves it settled, released or pushed out of the table,       *)
(* unless a stop is under way.                                             *)
JobsLeaveDecided ==
    [][\A k \in Keys : Owned(k) /\ ~Owned(k)' => ~IsPending(k)' \/ stopping']_vars

(* stop returns once it has signalled the worker, although it joins it     *)
(* while holding the lock that submit and start need.                      *)
StopReturns ==
    \A c \in Clients : pc[c] = "cancel" ~> pc[c] = "idle"

(* Every pending key the prover owns is eventually decided, unless the     *)
(* prover is stopped: the live rule's "ask again later" has an answer.     *)
PendingIsDecided ==
    \A k \in Keys : IsPending(k) /\ Owned(k) ~> ~IsPending(k) \/ stopping

(* The prover keeps the promise of a background worker.                    *)
JobsOf(k) ==
    Cardinality({i \in DOMAIN queue : queue[i] # Wakeup /\ queue[i].key = k})
    + (IF worker \in {"prove", "judge", "record"} /\ item.key = k THEN 1 ELSE 0)
    + Cardinality({c \in Clients : pc[c] = "enqueue" /\ job[c].key = k})

Promise == INSTANCE BackgroundProver
             WITH jobs <- [k \in Keys |-> JobsOf(k)],
                  accepting <- (thread /\ ~stopping)

ImplementsPromise == Promise!Spec

=============================================================================
