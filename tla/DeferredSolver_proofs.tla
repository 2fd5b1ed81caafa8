------------------------ MODULE DeferredSolver_proofs ------------------------
(***************************************************************************)
(* Theorems about the deferred solver, for every set of keys, rewrites and *)
(* clients, every queue bound and table size, and whether or not a worker  *)
(* may be stopped by several clients at once.                              *)
(***************************************************************************)
EXTENDS DeferredSolver, FiniteSetTheorems, TLAPS

LEMMA EntryTypes ==
    /\ Absent \in Entry /\ NoRewrite \in Entry /\ Pending \in Entry
    /\ \A r \in Rewrites \cup {NoTree} : Proved(r, TRUE) \in Entry
BY DEF Absent, NoRewrite, Pending, Proved, Entry, Outcomes

(* Whatever a store pushes out, it leaves a table of entries.              *)
LEMMA RecordsType ==
    ASSUME EntriesType, NEW k \in Keys, NEW r \in Rewrites \cup {NoTree}, NEW gone,
           \/ RecordProved(k, r, TRUE, gone)
           \/ RecordNoRewrite(k, gone)
           \/ RecordPending(k, gone)
           \/ ClearPending(k)
    PROVE  EntriesType'
<1>1. ASSUME NEW e \in Entry, Store(k, e, gone) PROVE EntriesType'
  BY <1>1, EntryTypes DEF EntriesType, Store
<1>2. CASE RecordProved(k, r, TRUE, gone)
  BY <1>1, <1>2, EntryTypes DEF RecordProved
<1>3. CASE RecordNoRewrite(k, gone)
  BY <1>1, <1>3, EntryTypes DEF RecordNoRewrite
<1>4. CASE RecordPending(k, gone)
  BY <1>1, <1>4, EntryTypes DEF RecordPending, EntriesType
<1>5. CASE ClearPending(k)
  BY <1>5, EntryTypes DEF ClearPending, Drop, EntriesType
<1> QED BY <1>2, <1>3, <1>4, <1>5

(* What putting at the end and taking from the front do to a queue.        *)
LEMMA QueueFacts ==
    ASSUME NEW S, NEW q \in Seq(S)
    PROVE  /\ Len(q) \in Nat
           /\ Len(<<>>) = 0 /\ <<>> \in Seq(S)
           /\ \A x \in S : Append(q, x) \in Seq(S) /\ Len(Append(q, x)) = Len(q) + 1
           /\ q # <<>> => /\ Head(q) \in S
                          /\ Tail(q) \in Seq(S)
                          /\ Len(Tail(q)) = Len(q) - 1
                          /\ Len(q) > 0
OBVIOUS

-----------------------------------------------------------------------------
(* The inductive invariant.  Beyond the types and the task count it says   *)
(* that _lock is held from the first action of submit to its last, and of  *)
(* stop up to its join; that a submitting client still has the room it     *)
(* checked for; and that a stop forgets the worker it joined, never one    *)
(* that a start put in its place.                                          *)
LockInv ==
    \A c \in Clients : pc[c] \in {"mark", "enqueue", "cancel", "wake"} <=> lock = c

HandsInv ==
    /\ \A c \in Clients : pc[c] \in {"mark", "enqueue"} => asked[c] \in Keys
    /\ worker \in {"solve", "prove", "record", "negative", "clear"} => item \in Keys

RoomInv ==
    \A c \in Clients :
        /\ pc[c] \in {"mark", "enqueue"} => Len(queue) < MaxQueue
        /\ pc[c] = "wake" => queue = <<>>

ThreadInv ==
    /\ ~thread => ~Alive
    /\ \A c \in Clients : pc[c] = "forget" /\ current[c] => ~Alive

IInv == TypeOK /\ LockInv /\ HandsInv /\ RoomInv /\ ThreadInv /\ TaskAccounting

LEMMA InitIInv == Init => IInv
<1> SUFFICES ASSUME Init PROVE IInv
  OBVIOUS
<1>1. <<>> \in Seq(Keys \cup {Wakeup}) /\ Len(<<>>) = 0
  BY QueueFacts
<1>2. TypeOK
  <2>1. EntriesType
    BY EntryTypes DEF Init, EntriesType, EmptyTable
  <2>2. queue \in Seq(Keys \cup {Wakeup}) /\ unfinished \in Int
    BY <1>1 DEF Init
  <2>3. /\ pc \in [Clients -> ClientAt]
        /\ asked \in [Clients -> Keys \cup {NoKey}]
        /\ current \in [Clients -> BOOLEAN]
    BY DEF Init, ClientAt
  <2> QED BY <2>1, <2>2, <2>3 DEF Init, TypeOK, WorkerAt
<1>3. LockInv /\ HandsInv /\ RoomInv
  BY NamesAssumption DEF Init, LockInv, HandsInv, RoomInv
<1>4. ThreadInv /\ TaskAccounting
  BY <1>1 DEF Init, ThreadInv, TaskAccounting, Alive
<1> QED BY <1>2, <1>3, <1>4 DEF IInv

LEMMA NextIInv == IInv /\ [Next]_vars => IInv'
<1> SUFFICES ASSUME IInv, [Next]_vars PROVE IInv'
  OBVIOUS
<1> USE DEF IInv
<1>q. /\ Len(queue) \in Nat
      /\ \A x \in Keys \cup {Wakeup} :
            Append(queue, x) \in Seq(Keys \cup {Wakeup})
            /\ Len(Append(queue, x)) = Len(queue) + 1
      /\ queue # <<>> => /\ Head(queue) \in Keys \cup {Wakeup}
                         /\ Tail(queue) \in Seq(Keys \cup {Wakeup})
                         /\ Len(Tail(queue)) = Len(queue) - 1
                         /\ Len(queue) > 0
      /\ <<>> \in Seq(Keys \cup {Wakeup}) /\ Len(<<>>) = 0
  BY QueueFacts DEF TypeOK
<1>1. ASSUME NEW c \in Clients, Start(c) PROVE IInv'
  <2>2. TypeOK'
    BY <1>1, <1>q
    DEF Start, Idle, TypeOK, HandsInv, WorkerAt, ClientAt, EntriesType
  <2>3. LockInv' /\ HandsInv' /\ RoomInv'
    BY <1>1, <1>q, NamesAssumption
    DEF Start, Idle, TypeOK, LockInv, HandsInv, RoomInv
  <2>4. ThreadInv' /\ TaskAccounting'
    BY <1>1, <1>q, NamesAssumption
    DEF Start, Idle, TypeOK, LockInv, HandsInv, RoomInv, ThreadInv,
        TaskAccounting, Alive, WorkerAt
  <2> QED BY <2>2, <2>3, <2>4
<1>2. ASSUME NEW c \in Clients, NEW k \in Keys, BeginSubmit(c, k) PROVE IInv'
  <2>2. TypeOK'
    BY <1>2, <1>q
    DEF BeginSubmit, Idle, Goto, workerVars, TypeOK, HandsInv, WorkerAt,
        ClientAt, EntriesType
  <2>3. LockInv' /\ HandsInv' /\ RoomInv'
    BY <1>2, <1>q, NamesAssumption
    DEF BeginSubmit, Idle, Goto, workerVars, TypeOK, LockInv, HandsInv, RoomInv
  <2>4. ThreadInv' /\ TaskAccounting'
    BY <1>2, <1>q, NamesAssumption
    DEF BeginSubmit, Idle, Goto, workerVars, TypeOK, LockInv, HandsInv, RoomInv,
        ThreadInv, TaskAccounting, Alive, WorkerAt
  <2> QED BY <2>2, <2>3, <2>4
<1>3. ASSUME NEW c \in Clients, MarkPending(c) PROVE IInv'
  <2>1. EntriesType'
    BY <1>3, RecordsType, EntryTypes DEF MarkPending, TypeOK, HandsInv
  <2>2. TypeOK'
    BY <1>3, <1>q, <2>1
    DEF MarkPending, Goto, workerVars, TypeOK, HandsInv, WorkerAt, ClientAt
  <2>3. LockInv' /\ HandsInv' /\ RoomInv'
    BY <1>3, <1>q, NamesAssumption
    DEF MarkPending, Goto, workerVars, TypeOK, LockInv, HandsInv, RoomInv
  <2>4. ThreadInv' /\ TaskAccounting'
    BY <1>3, <1>q, NamesAssumption
    DEF MarkPending, Goto, workerVars, TypeOK, LockInv, HandsInv, RoomInv,
        ThreadInv, TaskAccounting, Alive, WorkerAt
  <2> QED BY <2>2, <2>3, <2>4
<1>4. ASSUME NEW c \in Clients, Enqueue(c) PROVE IInv'
  <2>2. TypeOK'
    BY <1>4, <1>q
    DEF Enqueue, Goto, workerVars, TypeOK, HandsInv, WorkerAt, ClientAt,
        EntriesType
  <2>3. LockInv' /\ HandsInv' /\ RoomInv'
    BY <1>4, <1>q, NamesAssumption
    DEF Enqueue, Goto, workerVars, TypeOK, LockInv, HandsInv, RoomInv
  <2>4. ThreadInv' /\ TaskAccounting'
    BY <1>4, <1>q, NamesAssumption
    DEF Enqueue, Goto, workerVars, TypeOK, LockInv, HandsInv, RoomInv,
        ThreadInv, TaskAccounting, Alive, WorkerAt
  <2> QED BY <2>2, <2>3, <2>4
<1>5. ASSUME NEW c \in Clients, BeginStop(c) PROVE IInv'
  <2>2. TypeOK'
    BY <1>5, <1>q
    DEF BeginStop, Idle, Goto, workerVars, TypeOK, HandsInv, WorkerAt, ClientAt,
        EntriesType
  <2>3. LockInv' /\ HandsInv' /\ RoomInv'
    BY <1>5, <1>q, NamesAssumption
    DEF BeginStop, Idle, Goto, workerVars, TypeOK, LockInv, HandsInv, RoomInv
  <2>4. ThreadInv' /\ TaskAccounting'
    BY <1>5, <1>q, NamesAssumption
    DEF BeginStop, Idle, Goto, workerVars, TypeOK, LockInv, HandsInv, RoomInv,
        ThreadInv, TaskAccounting, Alive, WorkerAt
  <2> QED BY <2>2, <2>3, <2>4
<1>6. ASSUME NEW c \in Clients, CancelQueued(c) PROVE IInv'
  <2>1. EntriesType'
    BY <1>6, <1>q, RecordsType, EntryTypes
    DEF CancelQueued, TypeOK, EntriesType, ClearPending, Drop
  <2>2. TypeOK'
    BY <1>6, <1>q, <2>1
    DEF CancelQueued, workerVars, clientVars, TypeOK, HandsInv, WorkerAt,
        ClientAt
  <2>3. LockInv' /\ HandsInv' /\ RoomInv'
    BY <1>6, <1>q, NamesAssumption
    DEF CancelQueued, workerVars, clientVars, TypeOK, LockInv, HandsInv, RoomInv
  <2>4. ThreadInv' /\ TaskAccounting'
    <3>1. Len(queue') = Len(queue) - 1 /\ Len(queue) \in Nat
      BY <1>6, <1>q DEF CancelQueued
    <3>2. unfinished' = unfinished - 1 /\ worker' = worker
      BY <1>6 DEF CancelQueued, workerVars
    <3>3. TaskAccounting'
      BY <3>1, <3>2 DEF TaskAccounting
    <3>4. ThreadInv'
      BY <1>6 DEF CancelQueued, workerVars, clientVars, ThreadInv, Alive
    <3> QED BY <3>3, <3>4
  <2> QED BY <2>1, <2>2, <2>3, <2>4
<1>7. ASSUME NEW c \in Clients, CancelDone(c) PROVE IInv'
  <2>2. TypeOK'
    BY <1>7, <1>q
    DEF CancelDone, Goto, workerVars, TypeOK, HandsInv, WorkerAt, ClientAt,
        EntriesType
  <2>3. LockInv' /\ HandsInv' /\ RoomInv'
    BY <1>7, <1>q, NamesAssumption
    DEF CancelDone, Goto, workerVars, TypeOK, LockInv, HandsInv, RoomInv
  <2>4. ThreadInv' /\ TaskAccounting'
    BY <1>7, <1>q, NamesAssumption
    DEF CancelDone, Goto, workerVars, TypeOK, LockInv, HandsInv, RoomInv,
        ThreadInv, TaskAccounting, Alive, WorkerAt
  <2> QED BY <2>2, <2>3, <2>4
<1>8. ASSUME NEW c \in Clients, Wake(c) PROVE IInv'
  <2>2. TypeOK'
    BY <1>8, <1>q
    DEF Wake, Goto, workerVars, TypeOK, HandsInv, WorkerAt, ClientAt,
        EntriesType
  <2>3. LockInv' /\ HandsInv' /\ RoomInv'
    BY <1>8, <1>q, NamesAssumption
    DEF Wake, Goto, workerVars, TypeOK, LockInv, HandsInv, RoomInv
  <2>4. ThreadInv' /\ TaskAccounting'
    BY <1>8, <1>q, NamesAssumption
    DEF Wake, Goto, workerVars, TypeOK, LockInv, HandsInv, RoomInv, ThreadInv,
        TaskAccounting, Alive, WorkerAt
  <2> QED BY <2>2, <2>3, <2>4
<1>9. ASSUME NEW c \in Clients, JoinReturns(c) PROVE IInv'
  <2>2. TypeOK'
    BY <1>9, <1>q
    DEF JoinReturns, Goto, workerVars, TypeOK, HandsInv, WorkerAt, ClientAt,
        EntriesType
  <2>3. LockInv' /\ HandsInv' /\ RoomInv'
    BY <1>9, <1>q, NamesAssumption
    DEF JoinReturns, Goto, workerVars, TypeOK, LockInv, HandsInv, RoomInv
  <2>4. ThreadInv' /\ TaskAccounting'
    BY <1>9, <1>q, NamesAssumption
    DEF JoinReturns, Goto, workerVars, TypeOK, LockInv, HandsInv, RoomInv,
        ThreadInv, TaskAccounting, Alive, WorkerAt
  <2> QED BY <2>2, <2>3, <2>4
<1>10. ASSUME NEW c \in Clients, JoinTimesOut(c) PROVE IInv'
  <2>2. TypeOK'
    BY <1>10, <1>q
    DEF JoinTimesOut, Goto, workerVars, TypeOK, HandsInv, WorkerAt, ClientAt,
        EntriesType
  <2>3. LockInv' /\ HandsInv' /\ RoomInv'
    BY <1>10, <1>q, NamesAssumption
    DEF JoinTimesOut, Goto, workerVars, TypeOK, LockInv, HandsInv, RoomInv
  <2>4. ThreadInv' /\ TaskAccounting'
    BY <1>10, <1>q, NamesAssumption
    DEF JoinTimesOut, Goto, workerVars, TypeOK, LockInv, HandsInv, RoomInv,
        ThreadInv, TaskAccounting, Alive, WorkerAt
  <2> QED BY <2>2, <2>3, <2>4
<1>11. ASSUME NEW c \in Clients, Forget(c) PROVE IInv'
  <2>2. TypeOK'
    BY <1>11, <1>q
    DEF Forget, Goto, workerVars, TypeOK, HandsInv, WorkerAt, ClientAt,
        EntriesType
  <2>3. LockInv' /\ HandsInv' /\ RoomInv'
    BY <1>11, <1>q, NamesAssumption
    DEF Forget, Goto, workerVars, TypeOK, LockInv, HandsInv, RoomInv
  <2>4. ThreadInv' /\ TaskAccounting'
    BY <1>11, <1>q, NamesAssumption
    DEF Forget, Goto, workerVars, TypeOK, LockInv, HandsInv, RoomInv, ThreadInv,
        TaskAccounting, Alive, WorkerAt
  <2> QED BY <2>2, <2>3, <2>4
<1>12. ASSUME NEW c \in Clients, TakeSettled(c) PROVE IInv'
  <2>2. TypeOK'
    BY <1>12, <1>q
    DEF TakeSettled, workerVars, clientVars, TypeOK, HandsInv, WorkerAt,
        ClientAt, EntriesType
  <2>3. LockInv' /\ HandsInv' /\ RoomInv'
    BY <1>12, <1>q, NamesAssumption, MaxQueueAssumption
    DEF TakeSettled, workerVars, clientVars, TypeOK, LockInv, HandsInv, RoomInv
  <2>4. ThreadInv' /\ TaskAccounting'
    BY <1>12, <1>q, NamesAssumption
    DEF TakeSettled, workerVars, clientVars, TypeOK, LockInv, HandsInv, RoomInv,
        ThreadInv, TaskAccounting, Alive, WorkerAt
  <2> QED BY <2>2, <2>3, <2>4
<1>13. ASSUME TakeItem PROVE IInv'
  <2>2. TypeOK'
    BY <1>13, <1>q
    DEF TakeItem, clientVars, TypeOK, HandsInv, WorkerAt, ClientAt, EntriesType
  <2>3. LockInv' /\ HandsInv' /\ RoomInv'
    BY <1>13, <1>q, NamesAssumption, MaxQueueAssumption
    DEF TakeItem, clientVars, TypeOK, LockInv, HandsInv, RoomInv
  <2>4. ThreadInv' /\ TaskAccounting'
    BY <1>13, <1>q, NamesAssumption
    DEF TakeItem, clientVars, TypeOK, LockInv, HandsInv, RoomInv, ThreadInv,
        TaskAccounting, Alive, WorkerAt
  <2> QED BY <2>2, <2>3, <2>4
<1>14. ASSUME TakeWakeup PROVE IInv'
  <2>2. TypeOK'
    BY <1>14, <1>q
    DEF TakeWakeup, clientVars, TypeOK, HandsInv, WorkerAt, ClientAt,
        EntriesType
  <2>3. LockInv' /\ HandsInv' /\ RoomInv'
    BY <1>14, <1>q, NamesAssumption, MaxQueueAssumption
    DEF TakeWakeup, clientVars, TypeOK, LockInv, HandsInv, RoomInv
  <2>4. ThreadInv' /\ TaskAccounting'
    BY <1>14, <1>q, NamesAssumption
    DEF TakeWakeup, clientVars, TypeOK, LockInv, HandsInv, RoomInv, ThreadInv,
        TaskAccounting, Alive, WorkerAt
  <2> QED BY <2>2, <2>3, <2>4
<1>15. ASSUME Leave PROVE IInv'
  <2>2. TypeOK'
    BY <1>15, <1>q
    DEF Leave, clientVars, TypeOK, HandsInv, WorkerAt, ClientAt, EntriesType
  <2>3. LockInv' /\ HandsInv' /\ RoomInv'
    BY <1>15, <1>q, NamesAssumption
    DEF Leave, clientVars, TypeOK, LockInv, HandsInv, RoomInv
  <2>4. ThreadInv' /\ TaskAccounting'
    BY <1>15, <1>q, NamesAssumption
    DEF Leave, clientVars, TypeOK, LockInv, HandsInv, RoomInv, ThreadInv,
        TaskAccounting, Alive, WorkerAt
  <2> QED BY <2>2, <2>3, <2>4
<1>16. ASSUME NEW r \in Rewrites, SolveFinds(r) PROVE IInv'
  <2>2. TypeOK'
    BY <1>16, <1>q
    DEF SolveFinds, clientVars, TypeOK, HandsInv, WorkerAt, ClientAt,
        EntriesType
  <2>3. LockInv' /\ HandsInv' /\ RoomInv'
    BY <1>16, <1>q, NamesAssumption
    DEF SolveFinds, clientVars, TypeOK, LockInv, HandsInv, RoomInv
  <2>4. ThreadInv' /\ TaskAccounting'
    BY <1>16, <1>q, NamesAssumption
    DEF SolveFinds, clientVars, TypeOK, LockInv, HandsInv, RoomInv, ThreadInv,
        TaskAccounting, Alive, WorkerAt
  <2> QED BY <2>2, <2>3, <2>4
<1>17. ASSUME SolveUnchanged PROVE IInv'
  <2>2. TypeOK'
    BY <1>17, <1>q
    DEF SolveUnchanged, clientVars, TypeOK, HandsInv, WorkerAt, ClientAt,
        EntriesType
  <2>3. LockInv' /\ HandsInv' /\ RoomInv'
    BY <1>17, <1>q, NamesAssumption
    DEF SolveUnchanged, clientVars, TypeOK, LockInv, HandsInv, RoomInv
  <2>4. ThreadInv' /\ TaskAccounting'
    BY <1>17, <1>q, NamesAssumption
    DEF SolveUnchanged, clientVars, TypeOK, LockInv, HandsInv, RoomInv,
        ThreadInv, TaskAccounting, Alive, WorkerAt
  <2> QED BY <2>2, <2>3, <2>4
<1>18. ASSUME SolveGivesUp PROVE IInv'
  <2>2. TypeOK'
    BY <1>18, <1>q
    DEF SolveGivesUp, clientVars, TypeOK, HandsInv, WorkerAt, ClientAt,
        EntriesType
  <2>3. LockInv' /\ HandsInv' /\ RoomInv'
    BY <1>18, <1>q, NamesAssumption
    DEF SolveGivesUp, clientVars, TypeOK, LockInv, HandsInv, RoomInv
  <2>4. ThreadInv' /\ TaskAccounting'
    BY <1>18, <1>q, NamesAssumption
    DEF SolveGivesUp, clientVars, TypeOK, LockInv, HandsInv, RoomInv, ThreadInv,
        TaskAccounting, Alive, WorkerAt
  <2> QED BY <2>2, <2>3, <2>4
<1>19. ASSUME ProofSucceeds PROVE IInv'
  <2>2. TypeOK'
    BY <1>19, <1>q
    DEF ProofSucceeds, clientVars, TypeOK, HandsInv, WorkerAt, ClientAt,
        EntriesType
  <2>3. LockInv' /\ HandsInv' /\ RoomInv'
    BY <1>19, <1>q, NamesAssumption
    DEF ProofSucceeds, clientVars, TypeOK, LockInv, HandsInv, RoomInv
  <2>4. ThreadInv' /\ TaskAccounting'
    BY <1>19, <1>q, NamesAssumption
    DEF ProofSucceeds, clientVars, TypeOK, LockInv, HandsInv, RoomInv,
        ThreadInv, TaskAccounting, Alive, WorkerAt
  <2> QED BY <2>2, <2>3, <2>4
<1>20. ASSUME ProofFails PROVE IInv'
  <2>2. TypeOK'
    BY <1>20, <1>q
    DEF ProofFails, clientVars, TypeOK, HandsInv, WorkerAt, ClientAt,
        EntriesType
  <2>3. LockInv' /\ HandsInv' /\ RoomInv'
    BY <1>20, <1>q, NamesAssumption
    DEF ProofFails, clientVars, TypeOK, LockInv, HandsInv, RoomInv
  <2>4. ThreadInv' /\ TaskAccounting'
    BY <1>20, <1>q, NamesAssumption
    DEF ProofFails, clientVars, TypeOK, LockInv, HandsInv, RoomInv, ThreadInv,
        TaskAccounting, Alive, WorkerAt
  <2> QED BY <2>2, <2>3, <2>4
<1>21. ASSUME RecordProof PROVE IInv'
  <2>1. EntriesType'
    BY <1>21, RecordsType, EntryTypes DEF RecordProof, TypeOK, HandsInv
  <2>2. TypeOK'
    BY <1>21, <1>q, <2>1
    DEF RecordProof, clientVars, TypeOK, HandsInv, WorkerAt, ClientAt
  <2>3. LockInv' /\ HandsInv' /\ RoomInv'
    BY <1>21, <1>q, NamesAssumption
    DEF RecordProof, clientVars, TypeOK, LockInv, HandsInv, RoomInv
  <2>4. ThreadInv' /\ TaskAccounting'
    BY <1>21, <1>q, NamesAssumption
    DEF RecordProof, clientVars, TypeOK, LockInv, HandsInv, RoomInv, ThreadInv,
        TaskAccounting, Alive, WorkerAt
  <2> QED BY <2>2, <2>3, <2>4
<1>22. ASSUME RecordNegative PROVE IInv'
  <2>1. EntriesType'
    BY <1>22, RecordsType, EntryTypes DEF RecordNegative, TypeOK, HandsInv
  <2>2. TypeOK'
    BY <1>22, <1>q, <2>1
    DEF RecordNegative, clientVars, TypeOK, HandsInv, WorkerAt, ClientAt
  <2>3. LockInv' /\ HandsInv' /\ RoomInv'
    BY <1>22, <1>q, NamesAssumption
    DEF RecordNegative, clientVars, TypeOK, LockInv, HandsInv, RoomInv
  <2>4. ThreadInv' /\ TaskAccounting'
    BY <1>22, <1>q, NamesAssumption
    DEF RecordNegative, clientVars, TypeOK, LockInv, HandsInv, RoomInv,
        ThreadInv, TaskAccounting, Alive, WorkerAt
  <2> QED BY <2>2, <2>3, <2>4
<1>23. ASSUME Count PROVE IInv'
  <2>2. TypeOK'
    BY <1>23, <1>q
    DEF Count, clientVars, TypeOK, HandsInv, WorkerAt, ClientAt, EntriesType
  <2>3. LockInv' /\ HandsInv' /\ RoomInv'
    BY <1>23, <1>q, NamesAssumption
    DEF Count, clientVars, TypeOK, LockInv, HandsInv, RoomInv
  <2>4. ThreadInv' /\ TaskAccounting'
    BY <1>23, <1>q, NamesAssumption
    DEF Count, clientVars, TypeOK, LockInv, HandsInv, RoomInv, ThreadInv,
        TaskAccounting, Alive, WorkerAt
  <2> QED BY <2>2, <2>3, <2>4
<1>24. ASSUME ReleaseKey PROVE IInv'
  <2>1. EntriesType'
    BY <1>24, RecordsType, EntryTypes DEF ReleaseKey, TypeOK, HandsInv
  <2>2. TypeOK'
    BY <1>24, <1>q, <2>1
    DEF ReleaseKey, clientVars, TypeOK, HandsInv, WorkerAt, ClientAt
  <2>3. LockInv' /\ HandsInv' /\ RoomInv'
    BY <1>24, <1>q, NamesAssumption
    DEF ReleaseKey, clientVars, TypeOK, LockInv, HandsInv, RoomInv
  <2>4. ThreadInv' /\ TaskAccounting'
    BY <1>24, <1>q, NamesAssumption
    DEF ReleaseKey, clientVars, TypeOK, LockInv, HandsInv, RoomInv, ThreadInv,
        TaskAccounting, Alive, WorkerAt
  <2> QED BY <2>2, <2>3, <2>4
<1>25. ASSUME TaskDone PROVE IInv'
  <2>2. TypeOK'
    BY <1>25, <1>q
    DEF TaskDone, clientVars, TypeOK, HandsInv, WorkerAt, ClientAt, EntriesType
  <2>3. LockInv' /\ HandsInv' /\ RoomInv'
    BY <1>25, <1>q, NamesAssumption
    DEF TaskDone, clientVars, TypeOK, LockInv, HandsInv, RoomInv
  <2>4. ThreadInv' /\ TaskAccounting'
    BY <1>25, <1>q, NamesAssumption
    DEF TaskDone, clientVars, TypeOK, LockInv, HandsInv, RoomInv, ThreadInv,
        TaskAccounting, Alive, WorkerAt
  <2> QED BY <2>2, <2>3, <2>4
<1>26. ASSUME NEW k \in Keys, NEW r \in Rewrites, RuleSettles(k, r) PROVE IInv'
  <2>1. EntriesType'
    BY <1>26, RecordsType, EntryTypes DEF RuleSettles, TypeOK, HandsInv
  <2>2. TypeOK'
    BY <1>26, <1>q, <2>1
    DEF RuleSettles, workerVars, clientVars, TypeOK, HandsInv, WorkerAt,
        ClientAt
  <2>3. LockInv' /\ HandsInv' /\ RoomInv'
    BY <1>26, <1>q, NamesAssumption
    DEF RuleSettles, workerVars, clientVars, TypeOK, LockInv, HandsInv, RoomInv
  <2>4. ThreadInv' /\ TaskAccounting'
    BY <1>26, <1>q, NamesAssumption
    DEF RuleSettles, workerVars, clientVars, TypeOK, LockInv, HandsInv, RoomInv,
        ThreadInv, TaskAccounting, Alive, WorkerAt
  <2> QED BY <2>2, <2>3, <2>4
<1>27. ASSUME UNCHANGED vars PROVE IInv'
  BY <1>27
  DEF vars, workerVars, clientVars, TypeOK, EntriesType, LockInv, HandsInv,
      RoomInv, ThreadInv, TaskAccounting, Alive
<1> QED
  BY <1>1, <1>2, <1>3, <1>4, <1>5, <1>6, <1>7, <1>8, <1>9, <1>10, <1>11, <1>12,
     <1>13, <1>14, <1>15, <1>16, <1>17, <1>18, <1>19, <1>20, <1>21, <1>22,
     <1>23, <1>24, <1>25, <1>26, <1>27
  DEF Next, ClientStep, ClientCall, WorkerStep

-----------------------------------------------------------------------------
LEMMA InvariantHolds == Spec => []IInv
BY InitIInv, NextIInv, PTL DEF Spec

(* The variables keep their types in every reachable state.                *)
THEOREM TypeCorrect == Spec => []TypeOK
<1>1. IInv => TypeOK
  BY DEF IInv
<1> QED BY <1>1, InvariantHolds, PTL

(* The queue's task count balances even when several stops drain, put a    *)
(* sentinel each and time out, while the worker of the first still runs.   *)
THEOREM TaskCountBalances == Spec => []TaskAccounting
<1>1. IInv => TaskAccounting
  BY DEF IInv
<1> QED BY <1>1, InvariantHolds, PTL

(* No put_nowait of submit or stop raises queue.Full, whatever the bound.  *)
THEOREM NoPutRaisesFull == Spec => []PutNeverFull
<1>1. IInv => PutNeverFull
  BY MaxQueueAssumption, QueueFacts DEF IInv, RoomInv, PutNeverFull
<1> QED BY <1>1, InvariantHolds, PTL

-----------------------------------------------------------------------------
(* Who owns a pending key.  The worker owns its item only until it has     *)
(* decided it: another client may submit the key while the worker is still *)
(* counting it, and the new mark belongs to that client's job.             *)
Queued(k) == \E i \in DOMAIN queue : queue[i] = k
InHand(k) == worker \in {"solve", "prove", "record", "negative", "clear"} /\ item = k
Submitted(k) == \E c \in Clients : pc[c] = "enqueue" /\ asked[c] = k

PendingInv == \A k \in Keys : IsPending(k) => Queued(k) \/ InHand(k) \/ Submitted(k)

(* Only submit's mark makes a key pending, and no other store leaves its   *)
(* own key pending.                                                        *)
LEMMA PendingAfterRecord ==
    ASSUME EntriesType, NEW k \in Keys, NEW j, NEW r, NEW gone, IsPending(k)',
           \/ RecordProved(j, r, TRUE, gone)
           \/ RecordNoRewrite(j, gone)
           \/ ClearPending(j)
    PROVE  k # j /\ IsPending(k)
<1>1. CASE RecordProved(j, r, TRUE, gone)
  BY <1>1 DEF RecordProved, Store, Proved, Absent, IsPending
<1>2. CASE RecordNoRewrite(j, gone)
  BY <1>2 DEF RecordNoRewrite, Store, NoRewrite, Absent, IsPending
<1>3. CASE ClearPending(j)
  BY <1>3 DEF EntriesType, ClearPending, Drop, Absent, IsPending
<1> QED BY <1>1, <1>2, <1>3

LEMMA PendingAfterMark ==
    ASSUME NEW k \in Keys, NEW j, NEW gone, RecordPending(j, gone), IsPending(k)'
    PROVE  k = j \/ IsPending(k)
BY DEF RecordPending, Store, Absent, IsPending

(* Where the elements of a queue go.                                       *)
LEMMA SequenceElements ==
    ASSUME NEW S, NEW q \in Seq(S), NEW i \in DOMAIN q
    PROVE  /\ \A x \in S : i \in DOMAIN Append(q, x) /\ Append(q, x)[i] = q[i]
           /\ q # <<>> => \/ q[i] = Head(q)
                          \/ i - 1 \in DOMAIN Tail(q) /\ Tail(q)[i - 1] = q[i]
OBVIOUS

LEMMA AppendedElement ==
    ASSUME NEW S, NEW q \in Seq(S), NEW x \in S
    PROVE  Len(q) + 1 \in DOMAIN Append(q, x) /\ Append(q, x)[Len(q) + 1] = x
OBVIOUS

LEMMA NextPendingInv ==
    ASSUME IInv, PendingInv, [Next]_vars
    PROVE  PendingInv'
<1> USE DEF IInv
<1> SUFFICES ASSUME NEW k \in Keys, IsPending(k)'
             PROVE  (Queued(k) \/ InHand(k) \/ Submitted(k))'
  BY DEF PendingInv
<1>q. queue \in Seq(Keys \cup {Wakeup}) /\ EntriesType /\ Wakeup \notin Keys
  BY NamesAssumption DEF TypeOK
<1>p. IsPending(k) => Queued(k) \/ InHand(k) \/ Submitted(k)
  BY DEF PendingInv
<1>a. ASSUME NEW x \in Keys \cup {Wakeup}, queue' = Append(queue, x), Queued(k)
      PROVE  Queued(k)'
  BY <1>a, <1>q, SequenceElements DEF Queued
<1>t. ASSUME queue # <<>>, queue' = Tail(queue), Queued(k), k # Head(queue)
      PROVE  Queued(k)'
  <2>1. PICK i \in DOMAIN queue : queue[i] = k
    BY <1>t DEF Queued
  <2>2. i - 1 \in DOMAIN Tail(queue) /\ Tail(queue)[i - 1] = k
    BY <1>t, <1>q, <2>1, SequenceElements
  <2> QED BY <1>t, <2>2 DEF Queued
<1>u. ASSUME UNCHANGED entries PROVE Queued(k) \/ InHand(k) \/ Submitted(k)
  BY <1>u, <1>p DEF IsPending
<1> DEFINE Kept == (Queued(k) \/ InHand(k) \/ Submitted(k))'
<1>1. ASSUME NEW c \in Clients, Start(c) PROVE Kept
  BY <1>1, <1>u DEF Start, ThreadInv, Alive, Queued, InHand, Submitted
<1>2. ASSUME NEW c \in Clients, NEW j \in Keys, BeginSubmit(c, j) PROVE Kept
  BY <1>2, <1>u
  DEF BeginSubmit, Idle, Goto, workerVars, TypeOK, Queued, InHand, Submitted
<1>3. ASSUME NEW c \in Clients, MarkPending(c) PROVE Kept
  <2>1. k = asked[c] \/ IsPending(k)
    BY <1>3, PendingAfterMark DEF MarkPending
  <2>2. pc'[c] = "enqueue" /\ asked' = asked
    BY <1>3 DEF MarkPending, Goto, TypeOK
  <2>3. CASE k = asked[c]
    BY <2>2, <2>3 DEF Submitted
  <2>4. CASE Queued(k) \/ InHand(k) \/ Submitted(k)
    BY <1>3, <2>4
    DEF MarkPending, Goto, workerVars, TypeOK, Queued, InHand, Submitted
  <2> QED BY <2>1, <2>3, <2>4, <1>p
<1>4. ASSUME NEW c \in Clients, Enqueue(c) PROVE Kept
  <2>1. asked[c] \in Keys /\ queue' = Append(queue, asked[c]) /\ UNCHANGED workerVars
    BY <1>4 DEF Enqueue, HandsInv
  <2>2. CASE asked[c] = k
    <3>1. queue' = Append(queue, k)
      BY <2>1, <2>2
    <3> QED BY <3>1, <1>q, AppendedElement DEF Queued
  <2>3. CASE Queued(k)
    BY <2>1, <2>3, <1>a
  <2>4. CASE InHand(k)
    BY <2>1, <2>4 DEF InHand, workerVars
  <2>5. CASE Submitted(k) /\ asked[c] # k
    BY <1>4, <2>5 DEF Enqueue, Goto, Submitted, TypeOK
  <2> QED BY <1>4, <1>u, <2>2, <2>3, <2>4, <2>5 DEF Enqueue
<1>5. ASSUME NEW c \in Clients, CancelQueued(c) PROVE Kept
  <2>1. k # Head(queue) /\ IsPending(k)
    <3>1. CASE Head(queue) = Wakeup
      BY <1>5, <3>1, <1>q DEF CancelQueued, IsPending
    <3>2. CASE Head(queue) # Wakeup
      BY <1>5, <3>2, <1>q, PendingAfterRecord DEF CancelQueued
    <3> QED BY <3>1, <3>2
  <2>2. CASE Queued(k)
    BY <1>5, <2>1, <2>2, <1>t DEF CancelQueued
  <2> QED
    BY <1>5, <1>p, <2>1, <2>2 DEF CancelQueued, workerVars, clientVars, InHand, Submitted
<1>6. ASSUME NEW c \in Clients, Wake(c) PROVE Kept
  <2>1. CASE Queued(k)
    BY <1>6, <2>1, <1>a DEF Wake
  <2> QED
    BY <1>6, <1>u, <2>1 DEF Wake, Goto, workerVars, InHand, Submitted, TypeOK
<1>7. ASSUME NEW c \in Clients,
             \/ BeginStop(c) \/ CancelDone(c) \/ JoinReturns(c)
             \/ JoinTimesOut(c) \/ Forget(c) \/ TakeSettled(c)
      PROVE  Kept
  BY <1>7, <1>u
  DEF BeginStop, CancelDone, JoinReturns, JoinTimesOut, Forget, TakeSettled, Idle,
      Goto, workerVars, clientVars, TypeOK, Queued, InHand, Submitted
<1>8. CASE TakeItem
  <2>1. CASE Queued(k)
    BY <1>8, <2>1, <1>t DEF TakeItem, InHand
  <2> QED BY <1>8, <1>u, <2>1 DEF TakeItem, clientVars, InHand, Submitted
<1>9. CASE TakeWakeup
  <2>1. CASE Queued(k)
    BY <1>9, <2>1, <1>q, <1>t DEF TakeWakeup
  <2> QED BY <1>9, <1>u, <2>1 DEF TakeWakeup, clientVars, InHand, Submitted
<1>10. CASE \/ \E r \in Rewrites : SolveFinds(r)
            \/ SolveUnchanged \/ SolveGivesUp \/ ProofSucceeds \/ ProofFails
  BY <1>10, <1>u
  DEF SolveFinds, SolveUnchanged, SolveGivesUp, ProofSucceeds, ProofFails, clientVars,
      Queued, InHand, Submitted
<1>11. CASE RecordProof \/ RecordNegative \/ ReleaseKey
  <2>1. k # item /\ IsPending(k)
    BY <1>11, <1>q, PendingAfterRecord DEF RecordProof, RecordNegative, ReleaseKey
  <2> QED
    BY <1>11, <1>p, <2>1
    DEF RecordProof, RecordNegative, ReleaseKey, clientVars, Queued, InHand, Submitted
<1>12. CASE Leave \/ Count \/ TaskDone
  BY <1>12, <1>u DEF Leave, Count, TaskDone, clientVars, Queued, InHand, Submitted
<1>13. ASSUME NEW j \in Keys, NEW r \in Rewrites, RuleSettles(j, r) PROVE Kept
  <2>1. IsPending(k)
    BY <1>13, <1>q, PendingAfterRecord DEF RuleSettles
  <2> QED
    BY <1>13, <1>p, <2>1
    DEF RuleSettles, workerVars, clientVars, Queued, InHand, Submitted
<1>14. CASE UNCHANGED vars
  BY <1>14, <1>u DEF vars, workerVars, clientVars, Queued, InHand, Submitted
<1> QED
  BY <1>1, <1>2, <1>3, <1>4, <1>5, <1>6, <1>7, <1>8, <1>9, <1>10, <1>11, <1>12,
     <1>13, <1>14
  DEF Next, ClientStep, ClientCall, WorkerStep

(* Every pending key has a job that will decide it, through overlapping    *)
(* stops, timed-out joins, restarts and failures of the solver.            *)
THEOREM PendingHasOwner == Spec => []PendingIsOwned
<1>1. Init => IInv /\ PendingInv
  BY InitIInv DEF Init, PendingInv, EmptyTable, Absent, IsPending
<1>2. IInv /\ PendingInv /\ [Next]_vars => IInv' /\ PendingInv'
  BY NextIInv, NextPendingInv
<1>3. PendingInv => PendingIsOwned
  BY DEF PendingInv, Queued, InHand, Submitted, PendingIsOwned, Owned
<1> QED BY <1>1, <1>2, <1>3, PTL DEF Spec

-----------------------------------------------------------------------------
LEMMA RecordsKeepResults ==
    ASSUME EntriesType, NEW k \in Keys, IsSettled(k), NEW j, NEW r, NEW gone,
           \/ RecordProved(j, r, TRUE, gone)
           \/ RecordNoRewrite(j, gone)
           \/ RecordPending(j, gone)
           \/ ClearPending(j)
           \/ UNCHANGED entries
    PROVE  ~IsPending(k)'
<1>1. CASE RecordPending(j, gone)
  BY <1>1 DEF RecordPending, Store, Absent, IsSettled, IsPending
<1>2. CASE UNCHANGED entries
  BY <1>2 DEF IsSettled, IsPending
<1> QED BY <1>1, <1>2, PendingAfterRecord DEF IsSettled, IsPending

(* No step of the worker, of its clients or of the live rule turns a       *)
(* settled entry into a pending one.                                       *)
THEOREM ResultsStay == Spec => ResultNeverBecomesPending
<1>1. ASSUME TypeOK, [Next]_vars, NEW k \in Keys, IsSettled(k) PROVE ~IsPending(k)'
  <2>1. ASSUME NEW c \in Clients, MarkPending(c) \/ CancelQueued(c) PROVE ~IsPending(k)'
    BY <1>1, <2>1, RecordsKeepResults DEF TypeOK, MarkPending, CancelQueued
  <2>2. CASE RecordProof \/ RecordNegative \/ ReleaseKey
    BY <1>1, <2>2, RecordsKeepResults DEF TypeOK, RecordProof, RecordNegative, ReleaseKey
  <2>3. ASSUME NEW j \in Keys, NEW r \in Rewrites, RuleSettles(j, r) PROVE ~IsPending(k)'
    BY <1>1, <2>3, RecordsKeepResults DEF TypeOK, RuleSettles
  <2>4. CASE UNCHANGED entries
    BY <1>1, <2>4 DEF IsSettled, IsPending
  <2> QED
    BY <1>1, <2>1, <2>2, <2>3, <2>4
    DEF Next, ClientStep, ClientCall, WorkerStep, vars, Start, BeginSubmit, Enqueue,
        BeginStop, CancelDone, Wake, JoinReturns, JoinTimesOut, Forget, TakeSettled,
        TakeItem, TakeWakeup, Leave, SolveFinds, SolveUnchanged, SolveGivesUp,
        ProofSucceeds, ProofFails, Count, TaskDone
<1>2. TypeOK /\ [Next]_vars => [\A k \in Keys : IsSettled(k) => ~IsPending(k)']_vars
  BY <1>1
<1> QED BY <1>2, TypeCorrect, PTL DEF Spec, ResultNeverBecomesPending

-----------------------------------------------------------------------------
(***************************************************************************)
(* The deferred solver keeps the promise of a background worker however    *)
(* often it is stopped, and a worker that is stopped once leaves nothing   *)
(* behind, for every set of keys, rewrites and clients, every queue bound  *)
(* and every table size.                                                   *)
(***************************************************************************)

Messages == Keys \cup {Wakeup}

-----------------------------------------------------------------------------
(* A worker that is stopped once.  It has one sentinel, which is put when  *)
(* the queue is empty; from then on no submit may put anything behind it,  *)
(* so the worker that takes it leaves an empty queue.                      *)
SentinelInv ==
    /\ \A c \in Clients :
          /\ pc[c] \in {"mark", "enqueue"} => ~stopping /\ thread
          /\ pc[c] \in {"cancel", "wake"} =>
                stopping /\ worker # "exit" /\ Alive
                /\ \A i \in DOMAIN queue : queue[i] # Wakeup
    /\ ~stopping => worker # "exit" /\ \A i \in DOMAIN queue : queue[i] # Wakeup
    /\ thread /\ ~stopping => Alive
    /\ stopping /\ (\A c \in Clients : pc[c] # "cancel") => queue \in {<<>>, <<Wakeup>>}
    /\ worker \in {"exit", "dead"} => queue = <<>>

LEMMA InitSentinelInv == Init => SentinelInv
BY DEF Init, SentinelInv, Alive

LEMMA NextSentinelInv ==
    ASSUME StopOnce, IInv, SentinelInv, [Next]_vars
    PROVE  SentinelInv'
<1> USE DEF SentinelInv, Alive
<1>q. /\ TypeOK /\ LockInv /\ HandsInv /\ RoomInv /\ ThreadInv
      /\ pc \in [Clients -> ClientAt] /\ asked \in [Clients -> Keys \cup {NoKey}]
      /\ queue \in Seq(Messages) /\ stopping \in BOOLEAN /\ thread \in BOOLEAN
      /\ Wakeup \in Messages /\ Wakeup \notin Keys /\ NoClient \notin Clients
  BY NamesAssumption DEF IInv, TypeOK, Messages
<1>t. queue # <<>> =>
        /\ Head(queue) = queue[1] /\ 1 \in DOMAIN queue
        /\ \A i \in DOMAIN Tail(queue) :
              i + 1 \in DOMAIN queue /\ Tail(queue)[i] = queue[i + 1]
        /\ queue = <<Wakeup>> => Head(queue) = Wakeup /\ Tail(queue) = <<>>
  <2>1. Head(<<Wakeup>>) = Wakeup /\ Tail(<<Wakeup>>) = <<>>
    OBVIOUS
  <2>2. queue # <<>> =>
          /\ Head(queue) = queue[1] /\ 1 \in DOMAIN queue
          /\ \A i \in DOMAIN Tail(queue) :
                i + 1 \in DOMAIN queue /\ Tail(queue)[i] = queue[i + 1]
    BY <1>q
  <2> QED BY <2>1, <2>2
<1>1. ASSUME NEW c \in Clients, Start(c) PROVE SentinelInv'
  <2>1. /\ lock = NoClient /\ worker = "dead"
        /\ \A d \in Clients : pc[d] \notin {"mark", "enqueue", "cancel", "wake"}
    BY <1>1, <1>q DEF Start, Idle, LockInv, ThreadInv
  <2> QED BY <1>1, <2>1 DEF Start
<1>2. ASSUME NEW c \in Clients, NEW k \in Keys, BeginSubmit(c, k) PROVE SentinelInv'
  BY <1>2, <1>q DEF BeginSubmit, Idle, Goto, workerVars, LockInv
<1>3. ASSUME NEW c \in Clients, MarkPending(c) PROVE SentinelInv'
  BY <1>3, <1>q DEF MarkPending, Goto, workerVars
<1>4. ASSUME NEW c \in Clients, Enqueue(c) PROVE SentinelInv'
  <2>1. /\ pc[c] = "enqueue" /\ ~stopping /\ thread /\ asked[c] \in Keys
        /\ queue' = Append(queue, asked[c]) /\ pc' = [pc EXCEPT ![c] = "idle"]
        /\ UNCHANGED <<thread, worker, stopping>>
    BY <1>4, <1>q DEF Enqueue, Goto, workerVars, HandsInv
  <2>2. \A d \in Clients : /\ pc[d] \notin {"cancel", "wake"}
                             /\ pc'[d] \notin {"mark", "enqueue", "cancel", "wake"}
    BY <2>1, <1>q DEF LockInv
  <2>3. \A i \in DOMAIN queue' : queue'[i] # Wakeup
    <3> SUFFICES ASSUME NEW i \in DOMAIN queue' PROVE queue'[i] # Wakeup
      OBVIOUS
    <3>1. queue \in Seq(Messages) /\ asked[c] \in Messages /\ queue' = Append(queue, asked[c])
      BY <2>1, <1>q DEF Messages
    <3>2. queue'[i] = asked[c] \/ (i \in DOMAIN queue /\ queue'[i] = queue[i])
      BY <3>1
    <3> QED BY <2>1, <3>2, <1>q
  <2> QED BY <2>1, <2>2, <2>3
<1>5. ASSUME NEW c \in Clients, BeginStop(c) PROVE SentinelInv'
  BY <1>5, <1>q DEF BeginStop, Idle, Goto, workerVars, LockInv
<1>6. ASSUME NEW c \in Clients, CancelQueued(c) PROVE SentinelInv'
  BY <1>6, <1>t DEF CancelQueued, workerVars, clientVars
<1>7. ASSUME NEW c \in Clients, CancelDone(c) PROVE SentinelInv'
  BY <1>7, <1>q DEF CancelDone, Goto, workerVars, LockInv
<1>8. ASSUME NEW c \in Clients, Wake(c) PROVE SentinelInv'
  <2>1. /\ pc[c] = "wake" /\ stopping /\ queue = <<>> /\ queue' = <<Wakeup>>
        /\ worker \notin {"exit", "dead"} /\ pc' = [pc EXCEPT ![c] = "join"]
        /\ UNCHANGED <<thread, worker, stopping>>
    <3>1. Append(<<>>, Wakeup) = <<Wakeup>>
      OBVIOUS
    <3> QED BY <1>8, <1>q, <3>1 DEF Wake, Goto, workerVars, RoomInv
  <2>2. \A d \in Clients : pc'[d] \notin {"mark", "enqueue", "cancel", "wake"}
    BY <2>1, <1>q DEF LockInv
  <2> QED BY <2>1, <2>2
<1>9. ASSUME NEW c \in Clients, JoinReturns(c) PROVE SentinelInv'
  BY <1>9, <1>q DEF JoinReturns, Goto, workerVars
<1>10. ASSUME NEW c \in Clients, JoinTimesOut(c) PROVE SentinelInv'
  BY <1>10, <1>q DEF JoinTimesOut, Goto, workerVars
<1>11. ASSUME NEW c \in Clients, Forget(c) PROVE SentinelInv'
  BY <1>11, <1>q DEF Forget, Goto, workerVars, LockInv
<1>12. ASSUME NEW c \in Clients, TakeSettled(c) PROVE SentinelInv'
  BY <1>12 DEF TakeSettled, workerVars, clientVars
<1>13. CASE TakeItem
  BY <1>13, <1>t DEF TakeItem, clientVars
<1>14. CASE TakeWakeup
  <2>1. stopping /\ \A d \in Clients : pc[d] \notin {"mark", "enqueue", "cancel", "wake"}
    BY <1>14, <1>t, <1>q DEF TakeWakeup
  <2> QED BY <1>14, <1>t, <1>q, <2>1 DEF TakeWakeup, clientVars
<1>15. CASE Leave
  BY <1>15 DEF Leave, clientVars
<1>16. ASSUME NEW r \in Rewrites, SolveFinds(r) PROVE SentinelInv'
  BY <1>16, <1>q DEF SolveFinds, clientVars
<1>17. CASE SolveUnchanged
  BY <1>17, <1>q DEF SolveUnchanged, clientVars
<1>18. CASE SolveGivesUp
  BY <1>18 DEF SolveGivesUp, clientVars
<1>19. CASE ProofSucceeds
  BY <1>19, <1>q DEF ProofSucceeds, clientVars
<1>20. CASE ProofFails
  BY <1>20 DEF ProofFails, clientVars
<1>21. CASE RecordProof
  BY <1>21 DEF RecordProof, clientVars
<1>22. CASE RecordNegative
  BY <1>22 DEF RecordNegative, clientVars
<1>23. CASE Count
  BY <1>23 DEF Count, clientVars
<1>24. CASE ReleaseKey
  BY <1>24 DEF ReleaseKey, clientVars
<1>25. CASE TaskDone
  BY <1>25 DEF TaskDone, clientVars
<1>26. ASSUME NEW k \in Keys, NEW r \in Rewrites, RuleSettles(k, r) PROVE SentinelInv'
  BY <1>26 DEF RuleSettles, workerVars, clientVars
<1>27. CASE UNCHANGED vars
  BY <1>27 DEF vars, workerVars, clientVars
<1> QED
  BY <1>1, <1>2, <1>3, <1>4, <1>5, <1>6, <1>7, <1>8, <1>9, <1>10, <1>11, <1>12, <1>13, <1>14,
     <1>15, <1>16, <1>17, <1>18, <1>19, <1>20, <1>21, <1>22, <1>23, <1>24, <1>25, <1>26, <1>27
  DEF Next, ClientStep, ClientCall, WorkerStep

(* A worker that is stopped once, as stop_escalator does it, leaves an     *)
(* empty and balanced queue when it dies: no later start meets a stale     *)
(* sentinel, and no key is forgotten.                                      *)
THEOREM RestartIsClean ==
    ASSUME StopOnce
    PROVE  Spec => []NothingLeftBehind
<1>1. IInv /\ SentinelInv /\ [Next]_vars => IInv' /\ SentinelInv'
  BY NextIInv, NextSentinelInv
<1>2. IInv /\ SentinelInv => NothingLeftBehind
  BY DEF IInv, TaskAccounting, SentinelInv, NothingLeftBehind, Alive
<1> QED BY <1>1, <1>2, InitIInv, InitSentinelInv, PTL DEF Spec

-----------------------------------------------------------------------------
(* What the promise needs at each place, however often a worker is         *)
(* stopped: a submit runs only while the worker accepts, and marks a key   *)
(* that is not pending; what is recorded has been proved.                  *)
StepsInv ==
    /\ \A c \in Clients :
          /\ pc[c] \in {"mark", "enqueue"} => thread /\ ~stopping
          /\ pc[c] = "mark" => ~IsPending(asked[c])
    /\ worker = "record" => <<item, found>> \in Sound

LEMMA InitStepsInv == Init => StepsInv
BY DEF Init, StepsInv

LEMMA NextStepsInv ==
    ASSUME IInv, StepsInv, [Next]_vars
    PROVE  StepsInv'
<1> USE DEF StepsInv
<1>q. /\ TypeOK /\ LockInv /\ HandsInv /\ EntriesType
      /\ pc \in [Clients -> ClientAt] /\ asked \in [Clients -> Keys \cup {NoKey}]
      /\ NoClient \notin Clients
  BY NamesAssumption DEF IInv, TypeOK
<1>e. ASSUME UNCHANGED <<entries, thread, worker, item, found, stopping, asked>>,
             \A c \in Clients : pc'[c] = pc[c] \/ pc'[c] \notin {"mark", "enqueue"}
      PROVE  StepsInv'
  BY <1>e DEF IsPending
<1>w. ASSUME UNCHANGED <<entries, thread, stopping, pc, asked>>,
             worker' = "record" => <<item', found'>> \in Sound
      PROVE  StepsInv'
  BY <1>w DEF IsPending
<1>r. ASSUME NEW j, NEW r, NEW gone,
             \/ RecordProved(j, r, TRUE, gone)
             \/ RecordNoRewrite(j, gone)
             \/ ClearPending(j),
             UNCHANGED <<thread, stopping, pc, asked>>,
             worker' # "record" \/ UNCHANGED workerVars
      PROVE  StepsInv'
  <2>1. \A k \in Keys : ~IsPending(k) => ~IsPending(k)'
    BY <1>r, <1>q, PendingAfterRecord
  <2>2. \A c \in Clients : pc[c] = "mark" => asked[c] \in Keys
    BY <1>q DEF HandsInv
  <2>3. \A c \in Clients : pc'[c] = "mark" => ~IsPending(asked[c])'
    BY <1>r, <2>1, <2>2 DEF IsPending
  <2> QED BY <1>r, <2>3 DEF workerVars
<1>1. ASSUME NEW c \in Clients, Start(c) PROVE StepsInv'
  BY <1>1, <1>q DEF Start, Idle, LockInv, IsPending
<1>2. ASSUME NEW c \in Clients, NEW k \in Keys, BeginSubmit(c, k) PROVE StepsInv'
  BY <1>2, <1>q DEF BeginSubmit, Idle, Goto, workerVars, LockInv, IsPending, Known, Absent
<1>3. ASSUME NEW c \in Clients, MarkPending(c) PROVE StepsInv'
  <2>1. \A d \in Clients : pc'[d] # "mark"
    BY <1>3, <1>q DEF MarkPending, Goto, LockInv
  <2> QED BY <1>3, <1>q, <2>1 DEF MarkPending, Goto, workerVars
<1>4. ASSUME NEW c \in Clients, Enqueue(c) PROVE StepsInv'
  <2>1. \A d \in Clients : pc'[d] \notin {"mark", "enqueue"}
    BY <1>4, <1>q DEF Enqueue, Goto, LockInv
  <2> QED BY <1>4, <2>1 DEF Enqueue, workerVars
<1>5. ASSUME NEW c \in Clients, BeginStop(c) PROVE StepsInv'
  <2>1. \A d \in Clients : pc'[d] \notin {"mark", "enqueue"}
    BY <1>5, <1>q DEF BeginStop, Idle, Goto, LockInv
  <2> QED BY <1>5, <2>1 DEF BeginStop, workerVars
<1>6. ASSUME NEW c \in Clients, CancelQueued(c) PROVE StepsInv'
  <2>1. CASE Head(queue) = Wakeup
    BY <1>6, <2>1, <1>e DEF CancelQueued, workerVars, clientVars
  <2>2. CASE Head(queue) # Wakeup
    BY <1>6, <2>2, <1>r DEF CancelQueued, workerVars, clientVars
  <2> QED BY <2>1, <2>2
<1>7. ASSUME NEW c \in Clients, CancelDone(c) PROVE StepsInv'
  BY <1>7, <1>q, <1>e DEF CancelDone, Goto, workerVars
<1>8. ASSUME NEW c \in Clients, Wake(c) PROVE StepsInv'
  BY <1>8, <1>q, <1>e DEF Wake, Goto, workerVars
<1>9. ASSUME NEW c \in Clients, JoinReturns(c) PROVE StepsInv'
  BY <1>9, <1>q, <1>e DEF JoinReturns, Goto, workerVars
<1>10. ASSUME NEW c \in Clients, JoinTimesOut(c) PROVE StepsInv'
  BY <1>10, <1>q, <1>e DEF JoinTimesOut, Goto, workerVars
<1>11. ASSUME NEW c \in Clients, Forget(c) PROVE StepsInv'
  <2>1. \A d \in Clients : pc'[d] \notin {"mark", "enqueue"}
    BY <1>11, <1>q DEF Forget, Goto, LockInv
  <2> QED BY <1>11, <2>1 DEF Forget, workerVars
<1>12. ASSUME NEW c \in Clients, TakeSettled(c) PROVE StepsInv'
  BY <1>12, <1>e DEF TakeSettled, workerVars, clientVars
<1>13. CASE TakeItem
  BY <1>13, <1>w DEF TakeItem, clientVars
<1>14. CASE TakeWakeup
  BY <1>14, <1>w DEF TakeWakeup, clientVars
<1>15. CASE Leave
  BY <1>15, <1>w DEF Leave, clientVars
<1>16. ASSUME NEW r \in Rewrites, SolveFinds(r) PROVE StepsInv'
  BY <1>16, <1>w DEF SolveFinds, clientVars
<1>17. CASE SolveUnchanged
  BY <1>17, <1>w DEF SolveUnchanged, clientVars
<1>18. CASE SolveGivesUp
  BY <1>18, <1>w DEF SolveGivesUp, clientVars
<1>19. CASE ProofSucceeds
  BY <1>19, <1>w DEF ProofSucceeds, clientVars
<1>20. CASE ProofFails
  BY <1>20, <1>w DEF ProofFails, clientVars
<1>21. CASE RecordProof
  BY <1>21, <1>r DEF RecordProof, clientVars
<1>22. CASE RecordNegative
  BY <1>22, <1>r DEF RecordNegative, clientVars
<1>23. CASE Count
  BY <1>23, <1>w DEF Count, clientVars
<1>24. CASE ReleaseKey
  BY <1>24, <1>r DEF ReleaseKey, clientVars
<1>25. CASE TaskDone
  BY <1>25, <1>w DEF TaskDone, clientVars
<1>26. ASSUME NEW k \in Keys, NEW r \in Rewrites, RuleSettles(k, r) PROVE StepsInv'
  BY <1>26, <1>r DEF RuleSettles, workerVars, clientVars
<1>27. CASE UNCHANGED vars
  BY <1>27, <1>e DEF vars, workerVars, clientVars
<1> QED
  BY <1>1, <1>2, <1>3, <1>4, <1>5, <1>6, <1>7, <1>8, <1>9, <1>10, <1>11, <1>12, <1>13, <1>14,
     <1>15, <1>16, <1>17, <1>18, <1>19, <1>20, <1>21, <1>22, <1>23, <1>24, <1>25, <1>26, <1>27
  DEF Next, ClientStep, ClientCall, WorkerStep

LEMMA StepsInvHolds == Spec => [](IInv /\ StepsInv)
<1>1. IInv /\ StepsInv /\ [Next]_vars => IInv' /\ StepsInv'
  BY NextIInv, NextStepsInv
<1> QED BY <1>1, InitIInv, InitStepsInv, PTL DEF Spec

-----------------------------------------------------------------------------
(* Counting.  A job is counted once wherever it is: in the queue, in the   *)
(* worker's hand, or with the submit that marked its key.                  *)
Places(q, k) == {i \in DOMAIN q : q[i] = k}

Times(q, k) == Cardinality(Places(q, k))

LEMMA TimesType ==
    ASSUME NEW q \in Seq(Messages), NEW k
    PROVE  IsFiniteSet(Places(q, k)) /\ Times(q, k) \in Nat
<1>1. IsFiniteSet(1..Len(q)) /\ Places(q, k) \in SUBSET (1..Len(q))
  <2>1. Len(q) \in Nat /\ DOMAIN q = 1..Len(q)
    OBVIOUS
  <2> QED BY <2>1, FS_Interval DEF Places
<1>2. IsFiniteSet(Places(q, k))
  BY <1>1, FS_Subset
<1> QED BY <1>2, FS_CardinalityType DEF Times

LEMMA TimesAppend ==
    ASSUME NEW q \in Seq(Messages), NEW x \in Messages, NEW k
    PROVE  Times(Append(q, x), k) = Times(q, k) + (IF x = k THEN 1 ELSE 0)
<1>1. /\ Len(q) \in Nat /\ DOMAIN q = 1..Len(q)
      /\ DOMAIN Append(q, x) = 1..(Len(q) + 1)
      /\ Append(q, x)[Len(q) + 1] = x
      /\ \A i \in 1..Len(q) : Append(q, x)[i] = q[i]
  OBVIOUS
<1>2. Len(q) + 1 \notin Places(q, k)
  BY <1>1 DEF Places
<1>3. IsFiniteSet(Places(q, k)) /\ Times(q, k) \in Nat
  BY TimesType
<1>4. CASE x = k
  <2>1. Places(Append(q, x), k) = Places(q, k) \cup {Len(q) + 1}
    BY <1>1, <1>4 DEF Places
  <2>2. Cardinality(Places(q, k) \cup {Len(q) + 1}) = Cardinality(Places(q, k)) + 1
    BY <1>2, <1>3, FS_AddElement
  <2> QED BY <1>4, <2>1, <2>2 DEF Times
<1>5. CASE x # k
  <2>1. Places(Append(q, x), k) = Places(q, k)
    BY <1>1, <1>5 DEF Places
  <2> QED BY <1>3, <1>5, <2>1 DEF Times
<1> QED BY <1>4, <1>5

LEMMA TimesTail ==
    ASSUME NEW q \in Seq(Messages), q # <<>>, NEW k
    PROVE  Times(q, k) = Times(Tail(q), k) + (IF Head(q) = k THEN 1 ELSE 0)
<1> DEFINE rest == Places(q, k) \ {1}
           shift == [i \in Places(Tail(q), k) |-> i + 1]
<1>1. /\ Len(q) \in Nat /\ Len(q) > 0 /\ DOMAIN q = 1..Len(q) /\ Head(q) = q[1]
      /\ Tail(q) \in Seq(Messages) /\ DOMAIN Tail(q) = 1..(Len(q) - 1)
      /\ \A i \in 1..(Len(q) - 1) : Tail(q)[i] = q[i + 1]
  OBVIOUS
<1>2. /\ IsFiniteSet(Places(q, k)) /\ Times(q, k) \in Nat
      /\ IsFiniteSet(Places(Tail(q), k)) /\ Times(Tail(q), k) \in Nat
  BY <1>1, TimesType
<1>3. \A i \in Places(Tail(q), k) : i \in Nat /\ i + 1 \in rest
  BY <1>1 DEF Places
<1>4. \A i \in rest : i \in Nat /\ i - 1 \in Places(Tail(q), k)
  <2> SUFFICES ASSUME NEW i \in rest PROVE i \in Nat /\ i - 1 \in Places(Tail(q), k)
    OBVIOUS
  <2>1. i \in 1..Len(q) /\ i # 1 /\ q[i] = k
    BY <1>1 DEF Places
  <2>2. i \in Nat /\ i - 1 \in 1..(Len(q) - 1) /\ (i - 1) + 1 = i
    BY <1>1, <2>1
  <2>3. Tail(q)[i - 1] = q[i]
    BY <1>1, <2>2
  <2> QED BY <1>1, <2>1, <2>2, <2>3 DEF Places
<1>5. shift \in Bijection(Places(Tail(q), k), rest)
  <2>1. shift \in [Places(Tail(q), k) -> rest]
    BY <1>3
  <2>2. ASSUME NEW a \in Places(Tail(q), k), NEW b \in Places(Tail(q), k), shift[a] = shift[b]
        PROVE  a = b
    BY <1>3, <2>2
  <2>3. ASSUME NEW t \in rest PROVE \E a \in Places(Tail(q), k) : shift[a] = t
    BY <1>4
  <2> HIDE DEF shift, rest
  <2> QED BY <2>1, <2>2, <2>3 DEF Bijection, Injection, IsInjective, Surjection
<1>6. Cardinality(rest) = Times(Tail(q), k)
  BY <1>2, <1>5, FS_Bijection DEF ExistsBijection, Times
<1>7. Cardinality(rest) = IF 1 \in Places(q, k) THEN Times(q, k) - 1 ELSE Times(q, k)
  BY <1>2, FS_RemoveElement DEF Times
<1>8. 1 \in Places(q, k) <=> Head(q) = k
  BY <1>1 DEF Places
<1> QED BY <1>2, <1>6, <1>7, <1>8

(* At most the client that holds _lock is between its mark and its put.    *)
Alone(at, owner) ==
    \A c \in Clients : at[c] \in {"mark", "enqueue", "cancel", "wake"} <=> owner = c

Submitters(at, held, k) == {c \in Clients : at[c] = "enqueue" /\ held[c] = k}

LEMMA OneSubmitter ==
    ASSUME NEW at, NEW held, NEW owner, NEW k, Alone(at, owner)
    PROVE  Cardinality(Submitters(at, held, k)) =
              IF \E c \in Clients : at[c] = "enqueue" /\ held[c] = k THEN 1 ELSE 0
<1>1. CASE \E c \in Clients : at[c] = "enqueue" /\ held[c] = k
  <2>1. Submitters(at, held, k) = {owner}
    BY <1>1 DEF Alone, Submitters
  <2> QED BY <1>1, <2>1, FS_Singleton
<1>2. CASE ~\E c \in Clients : at[c] = "enqueue" /\ held[c] = k
  <2>1. Submitters(at, held, k) = {}
    BY <1>2 DEF Submitters
  <2> QED BY <1>2, <2>1, FS_EmptySet
<1> QED BY <1>1, <1>2

(* The places a job for k is counted at, beside the queue.                 *)
Working == {"solve", "prove", "record", "negative", "clear"}

WithWorker(at, it, k) == IF at \in Working /\ it = k THEN 1 ELSE 0

WithClient(at, held, k) ==
    IF \E c \in Clients : at[c] = "enqueue" /\ held[c] = k THEN 1 ELSE 0

LEMMA JobsCounted ==
    ASSUME LockInv, LockInv', NEW k
    PROVE  /\ JobsOf(k) = Times(queue, k) + WithWorker(worker, item, k)
                          + WithClient(pc, asked, k)
           /\ JobsOf(k)' = Times(queue', k) + WithWorker(worker', item', k)
                           + WithClient(pc', asked', k)
<1>1. JobsOf(k) = Times(queue, k) + WithWorker(worker, item, k)
                  + Cardinality(Submitters(pc, asked, k))
  BY DEF JobsOf, Times, Places, WithWorker, Working, Submitters
<1>2. JobsOf(k)' = Times(queue', k) + WithWorker(worker', item', k)
                   + Cardinality(Submitters(pc', asked', k))
  BY DEF JobsOf, Times, Places, WithWorker, Working, Submitters
<1>3. Alone(pc, lock) /\ Alone(pc', lock')
  BY DEF LockInv, Alone
<1>4. Cardinality(Submitters(pc, asked, k)) = WithClient(pc, asked, k)
  BY <1>3, OneSubmitter DEF WithClient
<1>5. Cardinality(Submitters(pc', asked', k)) = WithClient(pc', asked', k)
  BY <1>3, OneSubmitter DEF WithClient
<1> QED BY <1>1, <1>2, <1>4, <1>5

-----------------------------------------------------------------------------
(* The promise speaks of the same table.                                   *)
LEMMA SameTable ==
    /\ \A k \in Keys : Promise!IsPending(k) <=> IsPending(k)
    /\ \A k \in Keys : Promise!Evictions(k) = Evictions(k)
    /\ \A k, r, gone : RecordProved(k, r, TRUE, gone) => Promise!RecordProved(k, r, TRUE, gone)
    /\ \A k, gone : RecordNoRewrite(k, gone) => Promise!RecordNoRewrite(k, gone)
    /\ \A k, gone : RecordPending(k, gone) => Promise!RecordPending(k, gone)
    /\ \A k : ClearPending(k) => Promise!ClearPending(k)
<1>1. \A k : IsSettled(k) <=> Promise!IsSettled(k)
  BY DEF IsSettled, Promise!IsSettled
<1>2. \A k, e, gone : Store(k, e, gone) <=> Promise!Store(k, e, gone)
  BY DEF Store, Absent, Promise!Store, Promise!Absent
<1>3. \A k \in Keys : Promise!Evictions(k) = Evictions(k)
  <2>1. \A S : Promise!Cardinality(S) = Cardinality(S)
    BY DEF Cardinality, Promise!Cardinality
  <2>2. \A k : Promise!Known(k) <=> Known(k)
    BY DEF Known, Absent, Promise!Known, Promise!Absent
  <2> QED BY <2>1, <2>2 DEF Evictions, Promise!Evictions
<1>4. \A k : Promise!IsPending(k) <=> IsPending(k)
  BY DEF IsPending, Promise!IsPending
<1>5. \A k : Drop(k) <=> Promise!Drop(k)
  BY DEF Drop, Absent, Promise!Drop, Promise!Absent
<1>6. \A k, r, gone : RecordProved(k, r, TRUE, gone) => Promise!RecordProved(k, r, TRUE, gone)
  BY <1>2 DEF RecordProved, Proved, Promise!RecordProved, Promise!Proved
<1>7. \A k, gone : RecordNoRewrite(k, gone) => Promise!RecordNoRewrite(k, gone)
  BY <1>2 DEF RecordNoRewrite, NoRewrite, Promise!RecordNoRewrite, Promise!NoRewrite
<1>8. \A k, gone : RecordPending(k, gone) => Promise!RecordPending(k, gone)
  BY <1>1, <1>2 DEF RecordPending, Pending, Promise!RecordPending, Promise!Pending
<1>9. \A k : ClearPending(k) => Promise!ClearPending(k)
  BY <1>4, <1>5 DEF ClearPending, Promise!ClearPending
<1> QED BY <1>3, <1>4, <1>6, <1>7, <1>8, <1>9

-----------------------------------------------------------------------------
(* Every step of the solver is a step of the promise, or none.             *)
LEMMA StepKeepsPromise ==
    ASSUME IInv, StepsInv, [Next]_vars, IInv'
    PROVE  [Promise!Next]_(Promise!vars)
<1> DEFINE accepting == thread /\ ~stopping
           Q(k) == Times(queue, k)
           H(k) == WithWorker(worker, item, k)
           C(k) == WithClient(pc, asked, k)
<1>q. /\ TypeOK /\ LockInv /\ LockInv' /\ HandsInv /\ ThreadInv
      /\ pc \in [Clients -> ClientAt] /\ asked \in [Clients -> Keys \cup {NoKey}]
      /\ queue \in Seq(Messages) /\ stopping \in BOOLEAN /\ thread \in BOOLEAN
      /\ Wakeup \notin Keys /\ NoClient \notin Clients
  BY NamesAssumption DEF IInv, TypeOK, Messages
<1>j. \A k : /\ JobsOf(k) = Q(k) + H(k) + C(k)
             /\ JobsOf(k)' = Times(queue', k) + WithWorker(worker', item', k)
                             + WithClient(pc', asked', k)
  BY <1>q, JobsCounted
<1>n. \A k : Q(k) \in Nat /\ H(k) \in {0, 1} /\ C(k) \in {0, 1}
  BY <1>q, TimesType DEF WithWorker, WithClient
<1>t. ASSUME queue # <<>>, queue' = Tail(queue)
      PROVE  /\ Head(queue) \in Messages
             /\ \A k : /\ Times(queue', k) \in Nat
                       /\ Q(k) = Times(queue', k) + (IF Head(queue) = k THEN 1 ELSE 0)
  <2>1. queue' \in Seq(Messages) /\ Head(queue) \in Messages
    BY <1>t, <1>q
  <2> QED BY <1>t, <1>q, <2>1, TimesType, TimesTail
<1>u. ASSUME UNCHANGED <<queue, item, asked>>,
             worker' = worker \/ (worker \notin Working /\ worker' \notin Working)
               \/ (worker \in Working /\ worker' \in Working),
             \A c \in Clients : pc'[c] = "enqueue" <=> pc[c] = "enqueue"
      PROVE  \A k \in Keys : JobsOf(k)' = JobsOf(k)
  <2>1. \A k : WithWorker(worker', item', k) = H(k)
    BY <1>u DEF WithWorker
  <2>2. \A k : WithClient(pc', asked', k) = C(k)
    BY <1>u DEF WithClient
  <2> QED BY <1>j, <1>u, <2>1, <2>2
<1> HIDE DEF Q, H, C
<1>s. ASSUME entries' = entries, accepting' <=> accepting,
             \A k \in Keys : JobsOf(k)' = JobsOf(k)
      PROVE  [Promise!Next]_(Promise!vars)
  <2>1. [k \in Keys |-> JobsOf(k)]' = [k \in Keys |-> JobsOf(k)]
    BY <1>s
  <2>2. (thread /\ ~stopping)' = (thread /\ ~stopping)
    BY <1>s
  <2> QED BY <1>s, <2>1, <2>2 DEF Promise!vars
<1>o. ASSUME entries' = entries, \A k \in Keys : JobsOf(k)' = JobsOf(k)
      PROVE  [Promise!Next]_(Promise!vars)
  <2>1. CASE accepting' <=> accepting
    BY <1>o, <1>s, <2>1
  <2>2. CASE accepting /\ ~accepting'
    <3>1. Promise!Close
      BY <1>o, <2>2 DEF Promise!Close
    <3> QED BY <3>1 DEF Promise!Next
  <2>3. CASE ~accepting /\ accepting'
    <3>1. Promise!Open
      BY <1>o, <2>3 DEF Promise!Open
    <3> QED BY <3>1 DEF Promise!Next
  <2> QED BY <2>1, <2>2, <2>3
<1>e. ASSUME accepting' <=> accepting, NEW k \in Keys, JobsOf(k) > 0,
             \A x \in Keys : JobsOf(x)' = IF x = k THEN JobsOf(x) - 1 ELSE JobsOf(x)
      PROVE  Promise!End(k)
  <2>1. [x \in Keys |-> JobsOf(x)]'
           = [[x \in Keys |-> JobsOf(x)] EXCEPT ![k] = @ - 1]
    BY <1>e
  <2>2. [x \in Keys |-> JobsOf(x)][k] > 0
    BY <1>e
  <2>3. (thread /\ ~stopping)' = (thread /\ ~stopping)
    BY <1>e
  <2> QED BY <2>1, <2>2, <2>3 DEF Promise!End
<1>k. ASSUME UNCHANGED <<thread, stopping, queue, item, pc, asked>>,
             worker \in Working, worker' \notin Working
      PROVE  item \in Keys /\ Promise!End(item)
  <2>1. item \in Keys
    BY <1>k, <1>q DEF HandsInv, Working
  <2>2. \A x \in Keys : H(x) = (IF x = item THEN 1 ELSE 0) /\ WithWorker(worker', item', x) = 0
    BY <1>k DEF H, WithWorker
  <2>3. \A x \in Keys : JobsOf(x)' = Q(x) + C(x)
    BY <1>j, <1>k, <1>n, <2>2 DEF Q, C
  <2>4. JobsOf(item) > 0 /\ \A x \in Keys :
           JobsOf(x)' = IF x = item THEN JobsOf(x) - 1 ELSE JobsOf(x)
    BY <1>j, <1>n, <2>1, <2>2, <2>3
  <2> QED BY <1>k, <2>1, <2>4, <1>e
<1>1. ASSUME NEW c \in Clients, Start(c) PROVE [Promise!Next]_(Promise!vars)
  BY <1>1, <1>q, <1>u, <1>o DEF Start, ThreadInv, Alive, Working
<1>2. ASSUME NEW c \in Clients, NEW k \in Keys, BeginSubmit(c, k)
      PROVE  [Promise!Next]_(Promise!vars)
  <2>1. /\ entries' = entries /\ UNCHANGED <<queue, worker, item>>
        /\ \A x \in Clients : pc[x] # "enqueue" /\ pc'[x] # "enqueue"
    BY <1>2, <1>q DEF BeginSubmit, Idle, Goto, workerVars, LockInv
  <2>2. \A x \in Keys : JobsOf(x)' = JobsOf(x)
    BY <1>j, <2>1 DEF Q, H, C, WithClient
  <2> QED BY <2>1, <2>2, <1>o
<1>3. ASSUME NEW c \in Clients, MarkPending(c) PROVE Promise!Next
  <2> DEFINE k == asked[c]
  <2>1. /\ pc[c] = "mark" /\ pc' = [pc EXCEPT ![c] = "enqueue"] /\ k \in Keys
        /\ UNCHANGED <<thread, stopping, queue, worker, item, asked>>
    BY <1>3, <1>q DEF MarkPending, Goto, workerVars, HandsInv
  <2>2. \A x \in Clients : pc[x] # "enqueue" /\ (pc'[x] = "enqueue" <=> x = c)
    BY <2>1, <1>q DEF LockInv
  <2>3. accepting /\ accepting' /\ ~IsPending(k)
    BY <2>1 DEF StepsInv
  <2>4. PICK gone \in Evictions(k) : RecordPending(k, gone)
    BY <1>3 DEF MarkPending
  <2>5. \A x \in Keys : C(x) = 0 /\ WithClient(pc', asked', x) = IF x = k THEN 1 ELSE 0
    BY <2>1, <2>2 DEF C, WithClient
  <2>6. \A x \in Keys : JobsOf(x)' = IF x = k THEN JobsOf(x) + 1 ELSE JobsOf(x)
    <3>1. \A x \in Keys : Times(queue', x) = Q(x) /\ WithWorker(worker', item', x) = H(x)
      BY <2>1 DEF Q, H
    <3> HIDE DEF k
    <3> QED BY <1>j, <1>n, <2>5, <3>1
  <2>7. [x \in Keys |-> JobsOf(x)]'
           = [[x \in Keys |-> JobsOf(x)] EXCEPT ![k] = @ + 1]
    BY <2>1, <2>6
  <2>8. Promise!Submit(k)
    <3> HIDE DEF k
    <3> QED BY <2>1, <2>3, <2>4, <2>7, SameTable DEF Promise!Submit
  <2> QED BY <2>1, <2>8 DEF Promise!Next
<1>4. ASSUME NEW c \in Clients, Enqueue(c) PROVE [Promise!Next]_(Promise!vars)
  <2> DEFINE k == asked[c]
  <2>1. /\ pc[c] = "enqueue" /\ pc' = [pc EXCEPT ![c] = "idle"] /\ k \in Keys
        /\ entries' = entries /\ UNCHANGED <<worker, item>>
        /\ queue' = Append(queue, k)
    BY <1>4, <1>q DEF Enqueue, Goto, workerVars, HandsInv
  <2>2. \A x \in Clients : pc'[x] # "enqueue" /\ (pc[x] = "enqueue" <=> x = c)
    BY <2>1, <1>q DEF LockInv
  <2>3. k \in Messages
    BY <2>1 DEF Messages
  <2>4. \A x \in Keys : Times(queue', x) = Q(x) + (IF k = x THEN 1 ELSE 0)
    BY <2>1, <2>3, <1>q, TimesAppend DEF Q
  <2>5. \A x \in Keys : C(x) = (IF x = k THEN 1 ELSE 0) /\ WithClient(pc', asked', x) = 0
    BY <2>1, <2>2 DEF C, WithClient
  <2>6. \A x \in Keys : JobsOf(x)' = JobsOf(x)
    <3>1. \A x \in Keys : WithWorker(worker', item', x) = H(x)
      BY <2>1 DEF H
    <3> HIDE DEF k
    <3> QED BY <1>j, <1>n, <2>4, <2>5, <3>1
  <2> QED BY <2>1, <2>6, <1>o
<1>5. ASSUME NEW c \in Clients, BeginStop(c) PROVE [Promise!Next]_(Promise!vars)
  BY <1>5, <1>q, <1>u, <1>o DEF BeginStop, Idle, Goto, workerVars
<1>6. ASSUME NEW c \in Clients, CancelQueued(c) PROVE [Promise!Next]_(Promise!vars)
  <2>1. /\ queue # <<>> /\ queue' = Tail(queue)
        /\ UNCHANGED <<thread, stopping, worker, item, pc, asked>>
    BY <1>6 DEF CancelQueued, workerVars, clientVars
  <2>2. \A x \in Keys : JobsOf(x)' = Times(queue', x) + H(x) + C(x)
    BY <1>j, <2>1 DEF H, C
  <2>3. CASE Head(queue) = Wakeup
    <3>1. \A x \in Keys : Times(queue', x) = Q(x)
      BY <1>t, <1>q, <1>n, <2>1, <2>3
    <3>2. \A x \in Keys : JobsOf(x)' = JobsOf(x)
      BY <1>j, <2>2, <3>1
    <3> QED BY <1>6, <2>3, <3>2, <1>o DEF CancelQueued
  <2>4. CASE Head(queue) # Wakeup
    <3> DEFINE k == Head(queue)
    <3>1. k \in Keys /\ ClearPending(k)
      BY <1>6, <1>t, <2>1, <2>4 DEF CancelQueued, Messages
    <3>2. \A x \in Keys : /\ Times(queue', x) \in Nat
                          /\ Q(x) = Times(queue', x) + (IF k = x THEN 1 ELSE 0)
      BY <1>t, <2>1
    <3> HIDE DEF k
    <3>3. JobsOf(k) > 0 /\ \A x \in Keys :
             JobsOf(x)' = IF x = k THEN JobsOf(x) - 1 ELSE JobsOf(x)
      BY <1>j, <1>n, <2>2, <3>1, <3>2
    <3>4. Promise!EndReleased(k)
      BY <2>1, <3>1, <3>3, <1>e, SameTable DEF Promise!EndReleased
    <3> QED BY <3>1, <3>4 DEF Promise!Next
  <2> QED BY <2>3, <2>4
<1>7. ASSUME NEW c \in Clients, CancelDone(c) PROVE [Promise!Next]_(Promise!vars)
  BY <1>7, <1>q, <1>u, <1>o DEF CancelDone, Goto, workerVars
<1>8. ASSUME NEW c \in Clients, Wake(c) PROVE [Promise!Next]_(Promise!vars)
  <2>1. /\ entries' = entries /\ UNCHANGED <<worker, item, asked>>
        /\ \A x \in Clients : pc'[x] = "enqueue" <=> pc[x] = "enqueue"
        /\ queue' = Append(queue, Wakeup)
    BY <1>8, <1>q DEF Wake, Goto, workerVars
  <2>2. \A k \in Keys : Times(queue', k) = Q(k)
    <3>1. Wakeup \in Messages
      BY DEF Messages
    <3>2. \A k \in Keys : Times(queue', k) = Q(k) + (IF Wakeup = k THEN 1 ELSE 0)
      BY <2>1, <3>1, <1>q, TimesAppend DEF Q
    <3> QED BY <3>2, <1>q, <1>n
  <2>3. \A k \in Keys : JobsOf(k)' = JobsOf(k)
    BY <1>j, <2>1, <2>2 DEF H, C, WithClient
  <2> QED BY <2>1, <2>3, <1>o
<1>9. ASSUME NEW c \in Clients, JoinReturns(c) PROVE [Promise!Next]_(Promise!vars)
  BY <1>9, <1>q, <1>u, <1>o DEF JoinReturns, Goto, workerVars
<1>10. ASSUME NEW c \in Clients, JoinTimesOut(c) PROVE [Promise!Next]_(Promise!vars)
  BY <1>10, <1>q, <1>u, <1>o DEF JoinTimesOut, Goto, workerVars
<1>11. ASSUME NEW c \in Clients, Forget(c) PROVE [Promise!Next]_(Promise!vars)
  BY <1>11, <1>q, <1>u, <1>o DEF Forget, Goto, workerVars
<1>12. ASSUME NEW c \in Clients, TakeSettled(c) PROVE [Promise!Next]_(Promise!vars)
  BY <1>12, <1>u, <1>o DEF TakeSettled, workerVars, clientVars
<1>13. CASE TakeItem
  <2>1. /\ entries' = entries /\ queue # <<>> /\ queue' = Tail(queue)
        /\ worker = "get" /\ worker' = "solve" /\ item' = Head(queue)
        /\ UNCHANGED <<pc, asked>>
    BY <1>13 DEF TakeItem, clientVars
  <2>2. \A x \in Keys : H(x) = 0
             /\ WithWorker(worker', item', x) = (IF Head(queue) = x THEN 1 ELSE 0)
    BY <2>1 DEF H, WithWorker, Working
  <2>3. \A x \in Keys : WithClient(pc', asked', x) = C(x)
    BY <2>1 DEF C
  <2>4. \A x \in Keys : JobsOf(x)' = JobsOf(x)
    BY <1>j, <1>n, <1>t, <2>1, <2>2, <2>3
  <2> QED BY <2>1, <2>4, <1>o
<1>14. CASE TakeWakeup
  <2>1. /\ entries' = entries /\ queue # <<>> /\ queue' = Tail(queue)
        /\ worker = "get" /\ worker' = "exit" /\ Head(queue) = Wakeup
        /\ UNCHANGED <<pc, asked>>
    BY <1>14 DEF TakeWakeup, clientVars
  <2>2. \A x \in Keys : H(x) = 0 /\ WithWorker(worker', item', x) = 0
    BY <2>1 DEF H, WithWorker, Working
  <2>3. \A x \in Keys : Times(queue', x) = Q(x) /\ WithClient(pc', asked', x) = C(x)
    BY <1>t, <1>q, <1>n, <2>1 DEF C
  <2>4. \A x \in Keys : JobsOf(x)' = JobsOf(x)
    BY <1>j, <2>2, <2>3
  <2> QED BY <2>1, <2>4, <1>o
<1>15. CASE Leave
  BY <1>15, <1>u, <1>o DEF Leave, clientVars, Working
<1>16. ASSUME NEW r \in Rewrites, SolveFinds(r) PROVE [Promise!Next]_(Promise!vars)
  BY <1>16, <1>u, <1>o DEF SolveFinds, clientVars, Working
<1>17. CASE SolveUnchanged
  BY <1>17, <1>u, <1>o DEF SolveUnchanged, clientVars, Working
<1>18. CASE SolveGivesUp
  BY <1>18, <1>u, <1>o DEF SolveGivesUp, clientVars, Working
<1>19. CASE ProofSucceeds
  BY <1>19, <1>u, <1>o DEF ProofSucceeds, clientVars, Working
<1>20. CASE ProofFails
  BY <1>20, <1>u, <1>o DEF ProofFails, clientVars, Working
<1>21. CASE RecordProof
  <2>1. item \in Keys /\ Promise!End(item)
    BY <1>21, <1>k DEF RecordProof, clientVars, Working
  <2>2. PICK gone \in Evictions(item) : RecordProved(item, found, TRUE, gone)
    BY <1>21 DEF RecordProof
  <2>3. <<item, found>> \in Sound /\ found \in Rewrites
    BY <1>21, SoundAssumption DEF RecordProof, StepsInv
  <2>4. Promise!EndProved(item)
    BY <2>1, <2>2, <2>3, SameTable DEF Promise!EndProved
  <2> QED BY <2>1, <2>4 DEF Promise!Next
<1>22. CASE RecordNegative
  <2>1. item \in Keys /\ Promise!End(item)
    BY <1>22, <1>k DEF RecordNegative, clientVars, Working
  <2>2. PICK gone \in Evictions(item) : RecordNoRewrite(item, gone)
    BY <1>22 DEF RecordNegative
  <2>3. Promise!EndNegative(item)
    BY <2>1, <2>2, SameTable DEF Promise!EndNegative
  <2> QED BY <2>1, <2>3 DEF Promise!Next
<1>23. CASE Count
  BY <1>23, <1>u, <1>o DEF Count, clientVars, Working
<1>24. CASE ReleaseKey
  <2>1. item \in Keys /\ Promise!End(item) /\ ClearPending(item)
    BY <1>24, <1>k DEF ReleaseKey, clientVars, Working
  <2>2. Promise!EndReleased(item)
    BY <2>1, SameTable DEF Promise!EndReleased
  <2> QED BY <2>1, <2>2 DEF Promise!Next
<1>25. CASE TaskDone
  <2>1. /\ entries' = entries /\ UNCHANGED <<queue, pc, asked>>
        /\ worker = "finish" /\ worker' = "get"
    BY <1>25 DEF TaskDone, clientVars
  <2>2. \A x \in Keys : JobsOf(x)' = JobsOf(x)
    BY <1>j, <2>1 DEF Q, H, C, WithWorker, Working
  <2> QED BY <2>1, <2>2, <1>o
<1>26. ASSUME NEW k \in Keys, NEW r \in Rewrites, RuleSettles(k, r) PROVE Promise!Next
  <2>1. /\ ~IsPending(k) /\ UNCHANGED <<thread, stopping, queue, worker, item, pc, asked>>
    BY <1>26 DEF RuleSettles, workerVars, clientVars
  <2>2. PICK gone \in Evictions(k) :
          \/ <<k, r>> \in Sound /\ RecordProved(k, r, TRUE, gone)
          \/ RecordNoRewrite(k, gone)
    BY <1>26 DEF RuleSettles
  <2>3. \A x \in Keys : JobsOf(x)' = JobsOf(x)
    BY <2>1, <1>u
  <2>4. [x \in Keys |-> JobsOf(x)]' = [x \in Keys |-> JobsOf(x)]
    BY <2>3
  <2>5. (thread /\ ~stopping)' = (thread /\ ~stopping)
    BY <2>1
  <2>6. gone \in Promise!Evictions(k) /\ ~Promise!IsPending(k)
    BY <2>1, <2>2, SameTable
  <2>7. Promise!Elsewhere(k)
    BY <2>2, <2>4, <2>5, <2>6, SameTable DEF Promise!Elsewhere
  <2> QED BY <2>7 DEF Promise!Next
<1>27. CASE UNCHANGED vars
  BY <1>27, <1>u, <1>o DEF vars, workerVars, clientVars
<1> QED
  BY <1>1, <1>2, <1>3, <1>4, <1>5, <1>6, <1>7, <1>8, <1>9, <1>10, <1>11, <1>12, <1>13, <1>14,
     <1>15, <1>16, <1>17, <1>18, <1>19, <1>20, <1>21, <1>22, <1>23, <1>24, <1>25, <1>26, <1>27
  DEF Next, ClientStep, ClientCall, WorkerStep

LEMMA InitKeepsPromise == Init => Promise!Init
<1> SUFFICES ASSUME Init PROVE Promise!Init
  OBVIOUS
<1>1. \A k \in Keys : JobsOf(k) = 0
  <2> SUFFICES ASSUME NEW k \in Keys PROVE JobsOf(k) = 0
    OBVIOUS
  <2>1. /\ {i \in DOMAIN queue : queue[i] = k} = {}
        /\ {c \in Clients : pc[c] = "enqueue" /\ asked[c] = k} = {}
        /\ worker \notin {"solve", "prove", "record", "negative", "clear"}
    BY DEF Init
  <2>2. JobsOf(k) = Cardinality({}) + 0 + Cardinality({})
    BY <2>1 DEF JobsOf
  <2> QED BY <2>2, FS_EmptySet
<1>2. Promise!EmptyTable = EmptyTable
  BY DEF EmptyTable, Absent, Promise!EmptyTable, Promise!Absent
<1> QED BY <1>1, <1>2 DEF Init, Promise!Init

(* The deferred solver implements the background worker the rule relies    *)
(* on, even when stops overlap, time out and race with starts: while it    *)
(* accepts work a job ends only with a verdict stored or its key released, *)
(* in the same step, and whatever it stores as proved is sound.            *)
THEOREM KeepsPromise == Spec => ImplementsPromise
<1>1. IInv /\ StepsInv /\ IInv' /\ [Next]_vars => [Promise!Next]_(Promise!vars)
  BY StepKeepsPromise
<1> QED BY <1>1, InitKeepsPromise, StepsInvHolds, PTL DEF Spec, ImplementsPromise, Promise!Spec

=============================================================================
