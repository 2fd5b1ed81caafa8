----------------------- MODULE EscalationProver_proofs -----------------------
(***************************************************************************)
(* Theorems about the escalation prover, for every set of keys, rewrites   *)
(* and clients, every queue bound and every table size.                    *)
(***************************************************************************)
EXTENDS EscalationProver, FiniteSetTheorems, TLAPS

(* Whatever a store pushes out, it leaves a table of entries.              *)
LEMMA StoreType ==
    ASSUME EntriesType, NEW k, NEW e \in Entry, NEW gone, Store(k, e, gone)
    PROVE  EntriesType'
<1>1. Absent \in Entry
  BY DEF Absent, Entry, Outcomes
<1> QED BY <1>1 DEF EntriesType, Store

LEMMA EntryTypes ==
    /\ Absent \in Entry /\ NoRewrite \in Entry /\ Pending \in Entry
    /\ \A r \in Rewrites, v \in BOOLEAN : Proved(r, v) \in Entry
BY DEF Absent, NoRewrite, Pending, Proved, Entry, Outcomes

LEMMA RecordsType ==
    ASSUME EntriesType, NEW k \in Keys, NEW r \in Rewrites, NEW gone,
           \/ RecordProved(k, r, TRUE, gone)
           \/ RecordNoRewrite(k, gone)
           \/ RecordPending(k, gone)
           \/ ClearPending(k)
    PROVE  EntriesType'
<1>1. CASE RecordProved(k, r, TRUE, gone)
  BY <1>1, StoreType, EntryTypes DEF RecordProved
<1>2. CASE RecordNoRewrite(k, gone)
  BY <1>2, StoreType, EntryTypes DEF RecordNoRewrite
<1>3. CASE RecordPending(k, gone)
  BY <1>3, StoreType, EntryTypes DEF RecordPending, EntriesType
<1>4. CASE ClearPending(k)
  BY <1>4, EntryTypes DEF ClearPending, Drop, EntriesType
<1> QED BY <1>1, <1>2, <1>3, <1>4

-----------------------------------------------------------------------------
(* The inductive invariant.  Beyond the types and the task count it says   *)
(* that a client is inside a call exactly when it holds the lock, that a   *)
(* submitting client still has the room it checked for, and that a         *)
(* stopping client finds the thread it is stopping.                        *)
LockInv == \A c \in Clients : pc[c] # "idle" <=> lock = c

HandsInv ==
    /\ \A c \in Clients : pc[c] \in {"mark", "enqueue"} => job[c] \in Jobs
    /\ worker \in {"prove", "judge", "record"} => item \in Jobs

RoomInv ==
    \A c \in Clients :
        /\ pc[c] \in {"mark", "enqueue"} => Len(queue) < MaxQueue
        /\ pc[c] = "wake" => queue = <<>>
        /\ pc[c] # "idle" => thread

IInv == TypeOK /\ LockInv /\ HandsInv /\ RoomInv /\ TaskAccounting /\ StoppedIsClean

(* What putting at the end and taking from the front do to a queue.        *)
LEMMA QueueFacts ==
    ASSUME NEW S, NEW q \in Seq(S)
    PROVE  /\ Len(q) \in Nat
           /\ Len(<<>>) = 0
           /\ \A x \in S : Append(q, x) \in Seq(S) /\ Len(Append(q, x)) = Len(q) + 1
           /\ q # <<>> => /\ Head(q) \in S
                          /\ Tail(q) \in Seq(S)
                          /\ Len(Tail(q)) = Len(q) - 1
                          /\ Len(q) > 0
OBVIOUS

LEMMA InitIInv == Init => IInv
<1> SUFFICES ASSUME Init PROVE IInv
  OBVIOUS
<1>1. /\ <<>> \in Seq(Jobs \cup {Wakeup}) /\ Len(<<>>) = 0
  BY QueueFacts
<1>2. TypeOK
  <2>1. EntriesType
    BY EntryTypes DEF Init, EntriesType, EmptyTable
  <2>2. queue \in Seq(Jobs \cup {Wakeup}) /\ unfinished \in Int
    BY <1>1 DEF Init
  <2>3. pc \in [Clients -> ClientAt] /\ job \in [Clients -> Jobs \cup {NoJob}]
    BY DEF Init, ClientAt
  <2> QED BY <2>1, <2>2, <2>3 DEF Init, TypeOK, WorkerAt, Verdicts
<1>3. LockInv /\ HandsInv /\ RoomInv
  BY NamesAssumption DEF Init, LockInv, HandsInv, RoomInv
<1>4. TaskAccounting /\ StoppedIsClean
  BY <1>1 DEF Init, TaskAccounting, StoppedIsClean, Alive
<1> QED BY <1>2, <1>3, <1>4 DEF IInv

LEMMA NextIInv == IInv /\ [Next]_vars => IInv'
<1> SUFFICES ASSUME IInv, [Next]_vars PROVE IInv'
  OBVIOUS
<1> USE DEF IInv
<1>q. /\ Len(queue) \in Nat
      /\ \A x \in Jobs \cup {Wakeup} :
            Append(queue, x) \in Seq(Jobs \cup {Wakeup})
            /\ Len(Append(queue, x)) = Len(queue) + 1
      /\ queue # <<>> => /\ Head(queue) \in Jobs \cup {Wakeup}
                         /\ Tail(queue) \in Seq(Jobs \cup {Wakeup})
                         /\ Len(Tail(queue)) = Len(queue) - 1
                         /\ Len(queue) > 0
      /\ <<>> \in Seq(Jobs \cup {Wakeup}) /\ Len(<<>>) = 0
  BY QueueFacts DEF TypeOK
<1>1. ASSUME NEW c \in Clients, Start(c) PROVE IInv'
  <2>2. TypeOK'
    BY <1>1, <1>q
    DEF Start, TypeOK, HandsInv, clientVars, WorkerAt, ClientAt, Verdicts,
        EntriesType
  <2>3. LockInv' /\ HandsInv' /\ RoomInv'
    BY <1>1, NamesAssumption, <1>q
    DEF Start, TypeOK, LockInv, clientVars, HandsInv, RoomInv
  <2>4. TaskAccounting' /\ StoppedIsClean'
    BY <1>1, <1>q, NamesAssumption
    DEF Start, TypeOK, LockInv, RoomInv, TaskAccounting, StoppedIsClean, Alive,
        clientVars, WorkerAt
  <2> QED BY <2>2, <2>3, <2>4
<1>2. ASSUME NEW c \in Clients, NEW j \in Jobs, BeginSubmit(c, j) PROVE IInv'
  <2>2. TypeOK'
    BY <1>2, <1>q
    DEF BeginSubmit, Acquire, Goto, TypeOK, HandsInv, workerVars, WorkerAt,
        ClientAt, Verdicts, EntriesType
  <2>3. LockInv' /\ HandsInv' /\ RoomInv'
    BY <1>2, NamesAssumption, <1>q
    DEF BeginSubmit, Acquire, Goto, TypeOK, LockInv, HandsInv, workerVars, RoomInv
  <2>4. TaskAccounting' /\ StoppedIsClean'
    BY <1>2, <1>q, NamesAssumption
    DEF BeginSubmit, Acquire, Goto, TypeOK, LockInv, RoomInv, TaskAccounting,
        StoppedIsClean, Alive, workerVars, WorkerAt
  <2> QED BY <2>2, <2>3, <2>4
<1>3. ASSUME NEW c \in Clients, MarkPending(c) PROVE IInv'
  <2>1. EntriesType'
    BY <1>3, RecordsType DEF MarkPending, TypeOK, HandsInv, Jobs
  <2>2. TypeOK'
    BY <1>3, <1>q, <2>1
    DEF MarkPending, Goto, TypeOK, HandsInv, workerVars, WorkerAt, ClientAt,
        Verdicts
  <2>3. LockInv' /\ HandsInv' /\ RoomInv'
    BY <1>3, NamesAssumption, <1>q
    DEF MarkPending, Goto, TypeOK, LockInv, HandsInv, workerVars, RoomInv
  <2>4. TaskAccounting' /\ StoppedIsClean'
    BY <1>3, <1>q, NamesAssumption
    DEF MarkPending, Goto, TypeOK, LockInv, RoomInv, TaskAccounting,
        StoppedIsClean, Alive, workerVars, WorkerAt
  <2> QED BY <2>2, <2>3, <2>4
<1>4. ASSUME NEW c \in Clients, Enqueue(c) PROVE IInv'
  <2>2. TypeOK'
    BY <1>4, <1>q
    DEF Enqueue, Release, Goto, TypeOK, HandsInv, workerVars, WorkerAt, ClientAt,
        Verdicts, EntriesType
  <2>3. LockInv' /\ HandsInv' /\ RoomInv'
    BY <1>4, NamesAssumption, <1>q
    DEF Enqueue, Release, Goto, TypeOK, LockInv, HandsInv, workerVars, RoomInv
  <2>4. TaskAccounting' /\ StoppedIsClean'
    BY <1>4, <1>q, NamesAssumption
    DEF Enqueue, Release, Goto, TypeOK, LockInv, RoomInv, TaskAccounting,
        StoppedIsClean, Alive, workerVars, WorkerAt
  <2> QED BY <2>2, <2>3, <2>4
<1>5. ASSUME NEW c \in Clients, StopDead(c) PROVE IInv'
  <2>1. EntriesType'
    BY <1>5 DEF StopDead, TypeOK, EntriesType
  <2>2. TypeOK'
    <3>1. queue' \in Seq(Jobs \cup {Wakeup}) /\ unfinished' \in Int
      BY <1>5, <1>q DEF StopDead, TypeOK
    <3> QED
      BY <1>5, <2>1, <3>1
      DEF StopDead, TypeOK, workerVars, clientVars, WorkerAt, ClientAt, Verdicts
  <2>3. LockInv' /\ HandsInv' /\ RoomInv'
    BY <1>5, NamesAssumption, <1>q
    DEF StopDead, TypeOK, LockInv, clientVars, HandsInv, workerVars, RoomInv
  <2>4. TaskAccounting' /\ StoppedIsClean'
    BY <1>5, <1>q, NamesAssumption
    DEF StopDead, TypeOK, LockInv, RoomInv, TaskAccounting, StoppedIsClean, Alive,
        workerVars, clientVars, WorkerAt
  <2> QED BY <2>2, <2>3, <2>4
<1>6. ASSUME NEW c \in Clients, SignalStop(c) PROVE IInv'
  <2>2. TypeOK'
    BY <1>6, <1>q
    DEF SignalStop, Acquire, Goto, TypeOK, HandsInv, workerVars, WorkerAt,
        ClientAt, Verdicts, EntriesType
  <2>3. LockInv' /\ HandsInv' /\ RoomInv'
    BY <1>6, NamesAssumption, <1>q
    DEF SignalStop, Acquire, Goto, TypeOK, LockInv, HandsInv, workerVars, RoomInv
  <2>4. TaskAccounting' /\ StoppedIsClean'
    BY <1>6, <1>q, NamesAssumption
    DEF SignalStop, Acquire, Goto, TypeOK, LockInv, RoomInv, TaskAccounting,
        StoppedIsClean, Alive, workerVars, WorkerAt
  <2> QED BY <2>2, <2>3, <2>4
<1>7. ASSUME NEW c \in Clients, CancelQueued(c) PROVE IInv'
  <2>2. TypeOK'
    BY <1>7, <1>q
    DEF CancelQueued, TypeOK, HandsInv, workerVars, clientVars, WorkerAt, ClientAt,
        Verdicts, EntriesType
  <2>3. LockInv' /\ HandsInv' /\ RoomInv'
    BY <1>7, NamesAssumption, <1>q
    DEF CancelQueued, TypeOK, LockInv, clientVars, HandsInv, workerVars, RoomInv
  <2>4. TaskAccounting' /\ StoppedIsClean'
    <3>1. TaskAccounting'
      <4>1. Len(queue') = Len(queue) - 1 /\ Len(queue) \in Nat
        BY <1>7, <1>q DEF CancelQueued
      <4>2. unfinished' = unfinished - 1 /\ worker' = worker
        BY <1>7 DEF CancelQueued, workerVars
      <4> QED BY <4>1, <4>2 DEF TaskAccounting
    <3>2. StoppedIsClean'
      BY <1>7 DEF CancelQueued, RoomInv, StoppedIsClean
    <3> QED BY <3>1, <3>2
  <2> QED BY <2>2, <2>3, <2>4
<1>8. ASSUME NEW c \in Clients, CancelDone(c) PROVE IInv'
  <2>2. TypeOK'
    BY <1>8, <1>q
    DEF CancelDone, Goto, TypeOK, HandsInv, workerVars, WorkerAt, ClientAt,
        Verdicts, EntriesType
  <2>3. LockInv' /\ HandsInv' /\ RoomInv'
    BY <1>8, NamesAssumption, <1>q
    DEF CancelDone, Goto, TypeOK, LockInv, HandsInv, workerVars, RoomInv
  <2>4. TaskAccounting' /\ StoppedIsClean'
    BY <1>8, <1>q, NamesAssumption
    DEF CancelDone, Goto, TypeOK, LockInv, RoomInv, TaskAccounting, StoppedIsClean,
        Alive, workerVars, WorkerAt
  <2> QED BY <2>2, <2>3, <2>4
<1>9. ASSUME NEW c \in Clients, Wake(c) PROVE IInv'
  <2>2. TypeOK'
    BY <1>9, <1>q
    DEF Wake, Goto, TypeOK, HandsInv, workerVars, WorkerAt, ClientAt, Verdicts,
        EntriesType
  <2>3. LockInv' /\ HandsInv' /\ RoomInv'
    BY <1>9, NamesAssumption, <1>q
    DEF Wake, Goto, TypeOK, LockInv, HandsInv, workerVars, RoomInv
  <2>4. TaskAccounting' /\ StoppedIsClean'
    BY <1>9, <1>q, NamesAssumption
    DEF Wake, Goto, TypeOK, LockInv, RoomInv, TaskAccounting, StoppedIsClean,
        Alive, workerVars, WorkerAt
  <2> QED BY <2>2, <2>3, <2>4
<1>10. ASSUME NEW c \in Clients, JoinReturns(c) PROVE IInv'
  <2>1. EntriesType'
    BY <1>10 DEF JoinReturns, TypeOK, EntriesType
  <2>2. TypeOK'
    <3>1. queue' \in Seq(Jobs \cup {Wakeup}) /\ unfinished' \in Int
      BY <1>10, <1>q DEF JoinReturns, TypeOK
    <3> QED
      BY <1>10, <2>1, <3>1
      DEF JoinReturns, Release, Goto, TypeOK, workerVars, WorkerAt, ClientAt,
          Verdicts
  <2>3. LockInv' /\ HandsInv' /\ RoomInv'
    BY <1>10, NamesAssumption, <1>q
    DEF JoinReturns, Release, Goto, TypeOK, LockInv, HandsInv, workerVars, RoomInv
  <2>4. TaskAccounting' /\ StoppedIsClean'
    BY <1>10, <1>q, NamesAssumption
    DEF JoinReturns, Release, Goto, TypeOK, LockInv, RoomInv, TaskAccounting,
        StoppedIsClean, Alive, workerVars, WorkerAt
  <2> QED BY <2>2, <2>3, <2>4
<1>11. ASSUME NEW c \in Clients, JoinTimesOut(c) PROVE IInv'
  <2>2. TypeOK'
    BY <1>11, <1>q
    DEF JoinTimesOut, Release, Goto, TypeOK, HandsInv, workerVars, WorkerAt,
        ClientAt, Verdicts, EntriesType
  <2>3. LockInv' /\ HandsInv' /\ RoomInv'
    BY <1>11, NamesAssumption, <1>q
    DEF JoinTimesOut, Release, Goto, TypeOK, LockInv, HandsInv, workerVars, RoomInv
  <2>4. TaskAccounting' /\ StoppedIsClean'
    BY <1>11, <1>q, NamesAssumption
    DEF JoinTimesOut, Release, Goto, TypeOK, LockInv, RoomInv, TaskAccounting,
        StoppedIsClean, Alive, workerVars, WorkerAt
  <2> QED BY <2>2, <2>3, <2>4
<1>12. ASSUME TakeItem PROVE IInv'
  <2>2. TypeOK'
    BY <1>12, <1>q
    DEF TakeItem, TypeOK, HandsInv, clientVars, WorkerAt, ClientAt, Verdicts,
        EntriesType
  <2>3. LockInv' /\ HandsInv' /\ RoomInv'
    BY <1>12, NamesAssumption, <1>q, MaxQueueAssumption
    DEF TakeItem, TypeOK, LockInv, clientVars, HandsInv, RoomInv
  <2>4. TaskAccounting' /\ StoppedIsClean'
    BY <1>12, <1>q, NamesAssumption
    DEF TakeItem, TypeOK, LockInv, RoomInv, TaskAccounting, StoppedIsClean, Alive,
        clientVars, WorkerAt
  <2> QED BY <2>2, <2>3, <2>4
<1>13. ASSUME TakeWakeup PROVE IInv'
  <2>2. TypeOK'
    BY <1>13, <1>q
    DEF TakeWakeup, TypeOK, HandsInv, clientVars, WorkerAt, ClientAt, Verdicts,
        EntriesType
  <2>3. LockInv' /\ HandsInv' /\ RoomInv'
    BY <1>13, NamesAssumption, <1>q, MaxQueueAssumption
    DEF TakeWakeup, TypeOK, LockInv, clientVars, HandsInv, RoomInv
  <2>4. TaskAccounting' /\ StoppedIsClean'
    BY <1>13, <1>q, NamesAssumption
    DEF TakeWakeup, TypeOK, LockInv, RoomInv, TaskAccounting, StoppedIsClean,
        Alive, clientVars, WorkerAt
  <2> QED BY <2>2, <2>3, <2>4
<1>14. ASSUME Leave PROVE IInv'
  <2>2. TypeOK'
    BY <1>14, <1>q
    DEF Leave, TypeOK, HandsInv, clientVars, WorkerAt, ClientAt, Verdicts,
        EntriesType
  <2>3. LockInv' /\ HandsInv' /\ RoomInv'
    BY <1>14, NamesAssumption, <1>q
    DEF Leave, TypeOK, LockInv, clientVars, HandsInv, RoomInv
  <2>4. TaskAccounting' /\ StoppedIsClean'
    BY <1>14, <1>q, NamesAssumption
    DEF Leave, TypeOK, LockInv, RoomInv, TaskAccounting, StoppedIsClean, Alive,
        clientVars, WorkerAt
  <2> QED BY <2>2, <2>3, <2>4
<1>15. ASSUME NEW v \in Verdicts \ {"none"}, ProverAnswers(v) PROVE IInv'
  <2>2. TypeOK'
    BY <1>15, <1>q
    DEF ProverAnswers, TypeOK, HandsInv, clientVars, WorkerAt, ClientAt, Verdicts,
        EntriesType
  <2>3. LockInv' /\ HandsInv' /\ RoomInv'
    BY <1>15, NamesAssumption, <1>q
    DEF ProverAnswers, TypeOK, LockInv, clientVars, HandsInv, RoomInv
  <2>4. TaskAccounting' /\ StoppedIsClean'
    BY <1>15, <1>q, NamesAssumption
    DEF ProverAnswers, TypeOK, LockInv, RoomInv, TaskAccounting, StoppedIsClean,
        Alive, clientVars, WorkerAt
  <2> QED BY <2>2, <2>3, <2>4
<1>16. ASSUME ProverRaises PROVE IInv'
  <2>2. TypeOK'
    BY <1>16, <1>q
    DEF ProverRaises, TypeOK, HandsInv, clientVars, WorkerAt, ClientAt, Verdicts,
        EntriesType
  <2>3. LockInv' /\ HandsInv' /\ RoomInv'
    BY <1>16, NamesAssumption, <1>q
    DEF ProverRaises, TypeOK, LockInv, clientVars, HandsInv, RoomInv
  <2>4. TaskAccounting' /\ StoppedIsClean'
    BY <1>16, <1>q, NamesAssumption
    DEF ProverRaises, TypeOK, LockInv, RoomInv, TaskAccounting, StoppedIsClean,
        Alive, clientVars, WorkerAt
  <2> QED BY <2>2, <2>3, <2>4
<1>17. ASSUME Judge PROVE IInv'
  <2>2. TypeOK'
    BY <1>17, <1>q
    DEF Judge, TypeOK, HandsInv, clientVars, WorkerAt, ClientAt, Verdicts,
        EntriesType
  <2>3. LockInv' /\ HandsInv' /\ RoomInv'
    BY <1>17, NamesAssumption, <1>q
    DEF Judge, TypeOK, LockInv, clientVars, HandsInv, RoomInv
  <2>4. TaskAccounting' /\ StoppedIsClean'
    BY <1>17, <1>q, NamesAssumption
    DEF Judge, TypeOK, LockInv, RoomInv, TaskAccounting, StoppedIsClean, Alive,
        clientVars, WorkerAt
  <2> QED BY <2>2, <2>3, <2>4
<1>18. ASSUME RecordVerdict PROVE IInv'
  <2>1. EntriesType'
    BY <1>18, RecordsType DEF RecordVerdict, TypeOK, HandsInv, Jobs
  <2>2. TypeOK'
    BY <1>18, <1>q, <2>1
    DEF RecordVerdict, TypeOK, HandsInv, clientVars, WorkerAt, ClientAt, Verdicts
  <2>3. LockInv' /\ HandsInv' /\ RoomInv'
    BY <1>18, NamesAssumption, <1>q
    DEF RecordVerdict, TypeOK, LockInv, clientVars, HandsInv, RoomInv
  <2>4. TaskAccounting' /\ StoppedIsClean'
    BY <1>18, <1>q, NamesAssumption
    DEF RecordVerdict, TypeOK, LockInv, RoomInv, TaskAccounting, StoppedIsClean,
        Alive, clientVars, WorkerAt
  <2> QED BY <2>2, <2>3, <2>4
<1>19. ASSUME TaskDone PROVE IInv'
  <2>2. TypeOK'
    BY <1>19, <1>q
    DEF TaskDone, TypeOK, HandsInv, clientVars, WorkerAt, ClientAt, Verdicts,
        EntriesType
  <2>3. LockInv' /\ HandsInv' /\ RoomInv'
    BY <1>19, NamesAssumption, <1>q
    DEF TaskDone, TypeOK, LockInv, clientVars, HandsInv, RoomInv
  <2>4. TaskAccounting' /\ StoppedIsClean'
    BY <1>19, <1>q, NamesAssumption
    DEF TaskDone, TypeOK, LockInv, RoomInv, TaskAccounting, StoppedIsClean, Alive,
        clientVars, WorkerAt
  <2> QED BY <2>2, <2>3, <2>4
<1>20. ASSUME NEW j \in Jobs, RuleSettles(j) PROVE IInv'
  <2>1. EntriesType'
    BY <1>20, RecordsType DEF RuleSettles, TypeOK, HandsInv, Jobs
  <2>2. TypeOK'
    BY <1>20, <1>q, <2>1
    DEF RuleSettles, TypeOK, HandsInv, workerVars, clientVars, WorkerAt, ClientAt,
        Verdicts
  <2>3. LockInv' /\ HandsInv' /\ RoomInv'
    BY <1>20, NamesAssumption, <1>q
    DEF RuleSettles, TypeOK, LockInv, clientVars, HandsInv, workerVars, RoomInv
  <2>4. TaskAccounting' /\ StoppedIsClean'
    BY <1>20, <1>q, NamesAssumption
    DEF RuleSettles, TypeOK, LockInv, RoomInv, TaskAccounting, StoppedIsClean,
        Alive, workerVars, clientVars, WorkerAt
  <2> QED BY <2>2, <2>3, <2>4
<1>21. ASSUME UNCHANGED vars PROVE IInv'
  BY <1>21
  DEF vars, workerVars, clientVars, TypeOK, EntriesType, LockInv, HandsInv,
      RoomInv, TaskAccounting, StoppedIsClean, Alive
<1> QED
  BY <1>1, <1>2, <1>3, <1>4, <1>5, <1>6, <1>7, <1>8, <1>9, <1>10, <1>11, <1>12, <1>13, <1>14, <1>15, <1>16, <1>17, <1>18, <1>19, <1>20, <1>21
  DEF Next, ClientStep, ClientCall, WorkerStep

-----------------------------------------------------------------------------
LEMMA InvariantHolds == Spec => []IInv
BY InitIInv, NextIInv, PTL DEF Spec

(* The variables keep their types in every reachable state.                *)
THEOREM TypeCorrect == Spec => []TypeOK
<1>1. IInv => TypeOK
  BY DEF IInv
<1> QED BY <1>1, InvariantHolds, PTL

(* The queue's task count balances for any interleaving of submits, stops, *)
(* timed-out stops, restarts and the worker: drain() is exact.             *)
THEOREM TaskCountBalances == Spec => []TaskAccounting
<1>1. IInv => TaskAccounting
  BY DEF IInv
<1> QED BY <1>1, InvariantHolds, PTL

(* No put_nowait raises queue.Full, whatever the bound of the queue.       *)
THEOREM NoPutRaisesFull == Spec => []PutNeverFull
<1>1. IInv => PutNeverFull
  BY MaxQueueAssumption, QueueFacts DEF IInv, RoomInv, PutNeverFull
<1> QED BY <1>1, InvariantHolds, PTL

(* Once stop has let go of the thread, nothing of the session is left: no  *)
(* worker, no candidate and no task, whatever stops timed out before it.   *)
THEOREM StopLeavesNothing == Spec => []StoppedIsClean
<1>1. IInv => StoppedIsClean
  BY DEF IInv
<1> QED BY <1>1, InvariantHolds, PTL

-----------------------------------------------------------------------------
(* Stops without a timeout, the production path: a sentinel is in the      *)
(* queue, or in the hands of the worker, only while a stop is joining, and *)
(* only then can a worker that is still referenced be dead.                *)
Joining == \E c \in Clients : pc[c] = "join"

SentinelInv ==
    /\ (\E i \in 1..Len(queue) : queue[i] = Wakeup) => Joining
    /\ worker = "exit" => Joining
    /\ thread /\ worker = "dead" => Joining

LEMMA InitSentinelInv == Init => SentinelInv
BY DEF Init, SentinelInv

LEMMA SequenceElements ==
    ASSUME NEW S, NEW q \in Seq(S)
    PROVE  /\ \A x \in S : \A i \in 1..Len(Append(q, x)) :
                 Append(q, x)[i] = IF i \in 1..Len(q) THEN q[i] ELSE x
           /\ q # <<>> => /\ Head(q) = q[1] /\ 1 \in 1..Len(q)
                          /\ \A i \in 1..Len(Tail(q)) :
                                i + 1 \in 1..Len(q) /\ Tail(q)[i] = q[i + 1]
OBVIOUS

LEMMA NextSentinelInv ==
    ASSUME ~TimedStops, IInv, SentinelInv, [Next]_vars
    PROVE  SentinelInv'
<1> USE DEF SentinelInv, Joining
<1>q. /\ queue \in Seq(Jobs \cup {Wakeup}) /\ Len(queue) \in Nat
      /\ pc \in [Clients -> ClientAt]
      /\ Wakeup \notin Jobs
  BY QueueFacts, NamesAssumption DEF IInv, TypeOK
<1>t. queue # <<>> => /\ Head(queue) = queue[1] /\ 1 \in 1..Len(queue)
                      /\ \A i \in 1..Len(Tail(queue)) :
                            i + 1 \in 1..Len(queue) /\ Tail(queue)[i] = queue[i + 1]
  BY <1>q, SequenceElements
<1>1. ASSUME NEW c \in Clients, Start(c) PROVE SentinelInv'
  BY <1>1, NamesAssumption DEF Start, IInv, LockInv, clientVars
<1>2. ASSUME NEW c \in Clients, NEW j \in Jobs, BeginSubmit(c, j) PROVE SentinelInv'
  BY <1>2, <1>q DEF BeginSubmit, Acquire, Goto, workerVars
<1>3. ASSUME NEW c \in Clients, MarkPending(c) PROVE SentinelInv'
  BY <1>3, <1>q DEF MarkPending, Goto, workerVars
<1>4. ASSUME NEW c \in Clients, Enqueue(c) PROVE SentinelInv'
  <2>1. job[c] \in Jobs
    BY <1>4 DEF Enqueue, IInv, HandsInv
  <2>2. \A i \in 1..Len(queue') :
          queue'[i] = IF i \in 1..Len(queue) THEN queue[i] ELSE job[c]
    BY <1>4, <1>q, <2>1, SequenceElements DEF Enqueue
  <2> QED BY <1>4, <1>q, <2>1, <2>2 DEF Enqueue, Release, Goto, workerVars
<1>5. ASSUME NEW c \in Clients, StopDead(c) PROVE SentinelInv'
  BY <1>5, <1>q DEF StopDead, workerVars, clientVars, IInv, StoppedIsClean, LockInv
<1>6. ASSUME NEW c \in Clients, SignalStop(c) PROVE SentinelInv'
  BY <1>6, <1>q DEF SignalStop, Acquire, Goto, workerVars
<1>7. ASSUME NEW c \in Clients, CancelQueued(c) PROVE SentinelInv'
  BY <1>7, <1>t DEF CancelQueued, workerVars, clientVars
<1>8. ASSUME NEW c \in Clients, CancelDone(c) PROVE SentinelInv'
  BY <1>8, <1>q DEF CancelDone, Goto, workerVars
<1>9. ASSUME NEW c \in Clients, Wake(c) PROVE SentinelInv'
  <2>1. pc'[c] = "join"
    BY <1>9, <1>q DEF Wake, Goto
  <2> QED BY <2>1
<1>10. ASSUME NEW c \in Clients, JoinReturns(c) PROVE SentinelInv'
  <2>1. worker' = "dead" /\ ~thread' /\ Len(queue') = 0
    BY <1>10 DEF JoinReturns, Alive, workerVars
  <2> QED BY <2>1
<1>11. ASSUME NEW c \in Clients, JoinTimesOut(c) PROVE SentinelInv'
  BY <1>11 DEF JoinTimesOut
<1>12. CASE TakeItem
  BY <1>12, <1>t DEF TakeItem, clientVars
<1>13. CASE TakeWakeup
  BY <1>13, <1>t DEF TakeWakeup, clientVars
<1>14. CASE Leave
  BY <1>14 DEF Leave, clientVars
<1>15. ASSUME NEW v \in Verdicts \ {"none"}, ProverAnswers(v) PROVE SentinelInv'
  BY <1>15 DEF ProverAnswers, clientVars
<1>16. CASE ProverRaises
  BY <1>16 DEF ProverRaises, clientVars
<1>17. CASE Judge
  BY <1>17 DEF Judge, clientVars
<1>18. CASE RecordVerdict
  BY <1>18 DEF RecordVerdict, clientVars
<1>19. CASE TaskDone
  BY <1>19 DEF TaskDone, clientVars
<1>20. ASSUME NEW j \in Jobs, RuleSettles(j) PROVE SentinelInv'
  BY <1>20 DEF RuleSettles, workerVars, clientVars
<1>21. CASE UNCHANGED vars
  BY <1>21 DEF vars, workerVars, clientVars
<1> QED
  BY <1>1, <1>2, <1>3, <1>4, <1>5, <1>6, <1>7, <1>8, <1>9, <1>10, <1>11, <1>12, <1>13,
     <1>14, <1>15, <1>16, <1>17, <1>18, <1>19, <1>20, <1>21
  DEF Next, ClientStep, ClientCall, WorkerStep

(* With stops that wait for the worker, as in production, a dead worker    *)
(* leaves an empty and balanced queue: no restart meets a stale sentinel.  *)
THEOREM RestartIsClean ==
    ASSUME ~TimedStops
    PROVE  Spec => []NothingLeftBehind
<1>1. Init => IInv /\ SentinelInv
  BY InitIInv, InitSentinelInv
<1>2. IInv /\ SentinelInv /\ [Next]_vars => IInv' /\ SentinelInv'
  BY NextIInv, NextSentinelInv
<1>3. IInv /\ SentinelInv => NothingLeftBehind
  BY NamesAssumption
  DEF IInv, LockInv, StoppedIsClean, SentinelInv, Joining, NothingLeftBehind, Alive
<1> QED BY <1>1, <1>2, <1>3, PTL DEF Spec

-----------------------------------------------------------------------------
LEMMA RecordsKeepResults ==
    ASSUME EntriesType, NEW k \in Keys, IsSettled(k), NEW j, NEW r, NEW gone,
           \/ RecordProved(j, r, TRUE, gone)
           \/ RecordNoRewrite(j, gone)
           \/ RecordPending(j, gone)
           \/ ClearPending(j)
           \/ UNCHANGED entries
    PROVE  ~IsPending(k)'
<1>1. CASE RecordProved(j, r, TRUE, gone)
  BY <1>1 DEF RecordProved, Store, Proved, Absent, IsSettled, IsPending
<1>2. CASE RecordNoRewrite(j, gone)
  BY <1>2 DEF RecordNoRewrite, Store, NoRewrite, Absent, IsSettled, IsPending
<1>3. CASE RecordPending(j, gone)
  BY <1>3 DEF RecordPending, Store, Absent, IsSettled, IsPending
<1>4. CASE ClearPending(j)
  BY <1>4 DEF EntriesType, ClearPending, Drop, Absent, IsSettled, IsPending
<1>5. CASE UNCHANGED entries
  BY <1>5 DEF IsSettled, IsPending
<1> QED BY <1>1, <1>2, <1>3, <1>4, <1>5

(* No step of the prover, of its clients or of the live rule turns a       *)
(* settled entry into a pending one.                                       *)
THEOREM ResultsStay == Spec => ResultNeverBecomesPending
<1>1. ASSUME TypeOK, [Next]_vars, NEW k \in Keys, IsSettled(k) PROVE ~IsPending(k)'
  <2>1. ASSUME NEW c \in Clients, MarkPending(c) PROVE ~IsPending(k)'
    BY <1>1, <2>1, RecordsKeepResults DEF TypeOK, MarkPending
  <2>2. CASE RecordVerdict
    BY <1>1, <2>2, RecordsKeepResults DEF TypeOK, RecordVerdict
  <2>3. ASSUME NEW j \in Jobs, RuleSettles(j) PROVE ~IsPending(k)'
    BY <1>1, <2>3, RecordsKeepResults DEF TypeOK, RuleSettles
  <2>4. CASE UNCHANGED entries
    BY <1>1, <2>4 DEF IsSettled, IsPending
  <2> QED
    BY <1>1, <2>1, <2>2, <2>3, <2>4
    DEF Next, ClientStep, ClientCall, WorkerStep, vars, Start, BeginSubmit, Enqueue,
        StopDead, SignalStop, CancelQueued, CancelDone, Wake, JoinReturns, JoinTimesOut,
        TakeItem, TakeWakeup, Leave, ProverAnswers, ProverRaises, Judge, TaskDone
<1>2. TypeOK /\ [Next]_vars => [\A k \in Keys : IsSettled(k) => ~IsPending(k)']_vars
  BY <1>1
<1> QED BY <1>2, TypeCorrect, PTL DEF Spec, ResultNeverBecomesPending

-----------------------------------------------------------------------------
(***************************************************************************)
(* The escalation prover keeps the promise of a background worker, and     *)
(* leaves no undecided key behind, for every set of keys, rewrites and     *)
(* clients, every queue bound and every table size, when its stops wait    *)
(* for the worker and its prover answers.                                  *)
(***************************************************************************)

(* The key of a candidate outside the worker's hand.                       *)
Waiting(k) ==
    \/ \E i \in 1..Len(queue) : queue[i] # Wakeup /\ queue[i].key = k
    \/ \E c \in Clients : pc[c] = "enqueue" /\ job[c].key = k

(* What is known at each place of a call and of the worker's loop: stops   *)
(* and submits exclude each other, a key that is about to be marked is not *)
(* pending, no candidate is left when a stop joins, and a candidate that   *)
(* is finished leaves its key decided, or to another candidate.            *)
StepsInv ==
    /\ \A c \in Clients :
          /\ pc[c] \in {"cancel", "wake", "join"} => stopping
          /\ pc[c] \in {"mark", "enqueue"} => ~stopping
          /\ pc[c] = "mark" => ~IsPending(job[c].key)
          /\ pc[c] = "join" => \A i \in 1..Len(queue) : queue[i] = Wakeup
    /\ worker \in {"dead", "get", "exit"} => item = NoJob
    /\ worker = "judge" => verdict # "proved"
    /\ worker = "record" /\ verdict = "proved" => <<item.key, item.rewrite>> \in Sound
    /\ worker = "finish" /\ ~stopping =>
          item \in Jobs /\ (IsPending(item.key) => Waiting(item.key))

RInv == IInv /\ SentinelInv /\ StepsInv

-----------------------------------------------------------------------------
(* Only record_pending makes a key pending.                                *)
LEMMA OthersDoNotPend ==
    ASSUME EntriesType, NEW k \in Keys, ~IsPending(k), NEW j, NEW r, NEW gone,
           \/ RecordProved(j, r, TRUE, gone)
           \/ RecordNoRewrite(j, gone)
           \/ ClearPending(j)
    PROVE  ~IsPending(k)'
<1>1. CASE RecordProved(j, r, TRUE, gone)
  BY <1>1 DEF RecordProved, Store, Proved, Absent, IsPending
<1>2. CASE RecordNoRewrite(j, gone)
  BY <1>2 DEF RecordNoRewrite, Store, NoRewrite, Absent, IsPending
<1>3. CASE ClearPending(j)
  BY <1>3 DEF EntriesType, ClearPending, Drop, Absent, IsPending
<1> QED BY <1>1, <1>2, <1>3

(* A verdict decides its key.                                              *)
LEMMA VerdictsDecide ==
    ASSUME EntriesType, NEW k \in Keys, NEW r, NEW gone,
           \/ RecordProved(k, r, TRUE, gone)
           \/ RecordNoRewrite(k, gone)
           \/ ClearPending(k)
    PROVE  ~IsPending(k)'
<1>1. CASE RecordProved(k, r, TRUE, gone)
  BY <1>1 DEF RecordProved, Store, Proved, IsPending
<1>2. CASE RecordNoRewrite(k, gone)
  BY <1>2 DEF RecordNoRewrite, Store, NoRewrite, IsPending
<1>3. CASE ClearPending(k)
  BY <1>3 DEF EntriesType, ClearPending, Drop, Absent, IsPending
<1> QED BY <1>1, <1>2, <1>3

(* What the steps do to the elements of the queue.                         *)
LEMMA QueueSteps ==
    ASSUME TypeOK
    PROVE  /\ queue \in Seq(Jobs \cup {Wakeup}) /\ Len(queue) \in Nat
           /\ \A i \in 1..Len(queue) : queue[i] \in Jobs \cup {Wakeup}
           /\ \A x \in Jobs \cup {Wakeup} :
                 /\ Len(Append(queue, x)) = Len(queue) + 1
                 /\ Append(queue, x)[Len(queue) + 1] = x
                 /\ \A i \in 1..Len(queue) : Append(queue, x)[i] = queue[i]
           /\ queue # <<>> =>
                 /\ Head(queue) = queue[1] /\ 1 \in 1..Len(queue)
                 /\ Len(Tail(queue)) = Len(queue) - 1
                 /\ \A i \in 1..Len(queue) - 1 : Tail(queue)[i] = queue[i + 1]
           /\ Wakeup \notin Jobs /\ NoJob \notin Jobs
<1>1. queue \in Seq(Jobs \cup {Wakeup}) /\ Wakeup \notin Jobs /\ NoJob \notin Jobs
  BY NamesAssumption DEF TypeOK
<1>2. ASSUME NEW x \in Jobs \cup {Wakeup}
      PROVE  /\ Len(Append(queue, x)) = Len(queue) + 1
             /\ Append(queue, x)[Len(queue) + 1] = x
             /\ \A i \in 1..Len(queue) : Append(queue, x)[i] = queue[i]
  BY <1>1
<1>3. ASSUME queue # <<>>
      PROVE  /\ Head(queue) = queue[1] /\ 1 \in 1..Len(queue)
             /\ Len(Tail(queue)) = Len(queue) - 1
             /\ \A i \in 1..Len(queue) - 1 : Tail(queue)[i] = queue[i + 1]
  BY <1>1, <1>3
<1>4. Len(queue) \in Nat /\ \A i \in 1..Len(queue) : queue[i] \in Jobs \cup {Wakeup}
  BY <1>1
<1> QED BY <1>1, <1>2, <1>3, <1>4

LEMMA InitRInv == Init => RInv
<1>1. Init => StepsInv
  BY DEF Init, StepsInv
<1> QED BY <1>1, InitIInv, InitSentinelInv DEF RInv

LEMMA NextStepsInv ==
    ASSUME ~TimedStops, ~ProverMayRaise, IInv, SentinelInv, StepsInv, [Next]_vars
    PROVE  StepsInv'
<1> USE DEF StepsInv, Waiting
<1>q. TypeOK /\ LockInv /\ HandsInv /\ EntriesType
      /\ pc \in [Clients -> ClientAt] /\ job \in [Clients -> Jobs \cup {NoJob}]
      /\ item \in Jobs \cup {NoJob}
  BY DEF IInv, TypeOK
<1>d. ASSUME lock = NoClient, ~(thread /\ Alive)
      PROVE  ~thread /\ worker = "dead" /\ queue = <<>> /\ \A c \in Clients : pc[c] = "idle"
  BY <1>d, NamesAssumption
  DEF IInv, LockInv, StoppedIsClean, SentinelInv, Joining, Alive
<1>1. ASSUME NEW c \in Clients, Start(c) PROVE StepsInv'
  BY <1>1, <1>d DEF Start, clientVars
<1>2. ASSUME NEW c \in Clients, NEW j \in Jobs, BeginSubmit(c, j) PROVE StepsInv'
  BY <1>2, <1>q, NamesAssumption
     DEF BeginSubmit, Acquire, Goto, workerVars, LockInv, IsPending, Known, Absent
<1>3. ASSUME NEW c \in Clients, MarkPending(c) PROVE StepsInv'
  <2> DEFINE k == job[c].key
  <2>1. /\ pc[c] = "mark" /\ pc' = [pc EXCEPT ![c] = "enqueue"] /\ job[c] \in Jobs
        /\ UNCHANGED <<thread, worker, item, verdict, queue, unfinished, stopping, lock, job>>
    BY <1>3, <1>q DEF MarkPending, Goto, workerVars, HandsInv
  <2>2. PICK gone : RecordPending(k, gone)
    BY <1>3 DEF MarkPending
  <2>3. \A d \in Clients : d # c => pc[d] = "idle" /\ pc'[d] = "idle"
    BY <2>1, <1>q DEF LockInv
  <2>4. pc'[c] = "enqueue" /\ job'[c].key = k
    BY <2>1, <1>q
  <2>5. \A x \in Keys : x # k /\ IsPending(x)' => IsPending(x)
    BY <2>2, <1>q DEF RecordPending, Store, Absent, IsPending, EntriesType
  <2>6. worker = "finish" /\ ~stopping =>
            item \in Jobs /\ (IsPending(item.key)' => Waiting(item.key)')
    <3> SUFFICES ASSUME worker = "finish", ~stopping, IsPending(item.key)'
                 PROVE  Waiting(item.key)'
      OBVIOUS
    <3>1. CASE item.key = k
      BY <2>4, <3>1, <2>1
    <3>2. CASE item.key # k
      <4>1. IsPending(item.key)
        BY <2>1, <2>5, <3>2 DEF Jobs, IsPending
      <4>2. Waiting(item.key)
        BY <4>1
      <4>3. \A d \in Clients : pc[d] # "enqueue"
        BY <2>1, <2>3
      <4> QED BY <4>2, <4>3, <2>1
    <3> QED BY <3>1, <3>2
  <2>7. \A d \in Clients :
          /\ pc'[d] \in {"cancel", "wake", "join"} => stopping'
          /\ pc'[d] \in {"mark", "enqueue"} => ~stopping'
          /\ pc'[d] = "mark" => ~IsPending(job[d].key)'
          /\ pc'[d] = "join" => \A i \in 1..Len(queue') : queue'[i] = Wakeup
    BY <2>1, <2>3, <2>4 DEF IsPending
  <2> QED BY <2>1, <2>6, <2>7
<1>4. ASSUME NEW c \in Clients, Enqueue(c) PROVE StepsInv'
  BY <1>4, <1>q, QueueSteps DEF Enqueue, Release, Goto, workerVars, LockInv, HandsInv, IsPending
<1>5. ASSUME NEW c \in Clients, StopDead(c) PROVE StepsInv'
  BY <1>5, <1>d DEF StopDead, workerVars, clientVars
<1>6. ASSUME NEW c \in Clients, SignalStop(c) PROVE StepsInv'
  BY <1>6, <1>q, NamesAssumption DEF SignalStop, Acquire, Goto, workerVars, LockInv, IsPending
<1>7. ASSUME NEW c \in Clients, CancelQueued(c) PROVE StepsInv'
  BY <1>7, <1>q, QueueSteps DEF CancelQueued, workerVars, clientVars, LockInv, IsPending
<1>8. ASSUME NEW c \in Clients, CancelDone(c) PROVE StepsInv'
  BY <1>8, <1>q DEF CancelDone, Goto, workerVars, LockInv, IsPending
<1>9. ASSUME NEW c \in Clients, Wake(c) PROVE StepsInv'
  BY <1>9, <1>q, QueueSteps DEF Wake, Goto, workerVars, LockInv, IsPending, IInv, RoomInv
<1>10. ASSUME NEW c \in Clients, JoinReturns(c) PROVE StepsInv'
  BY <1>10, <1>q DEF JoinReturns, Release, Goto, workerVars, LockInv, IsPending, Alive
<1>11. ASSUME NEW c \in Clients, JoinTimesOut(c) PROVE StepsInv'
  BY <1>11 DEF JoinTimesOut
<1>12. CASE TakeItem
  BY <1>12, <1>q, QueueSteps DEF TakeItem, clientVars, IsPending
<1>13. CASE TakeWakeup
  BY <1>13, <1>q, QueueSteps DEF TakeWakeup, clientVars, IsPending
<1>14. CASE Leave
  BY <1>14 DEF Leave, clientVars, IsPending
<1>15. ASSUME NEW v \in Verdicts \ {"none"}, ProverAnswers(v) PROVE StepsInv'
  BY <1>15 DEF ProverAnswers, clientVars, IsPending
<1>16. CASE ProverRaises
  BY <1>16 DEF ProverRaises
<1>17. CASE Judge
  BY <1>17, <1>q DEF Judge, clientVars, IsPending, IInv, TypeOK
<1>18. CASE RecordVerdict
  <2>1. /\ worker = "record" /\ worker' = "finish" /\ item \in Jobs /\ item.key \in Keys
        /\ UNCHANGED <<thread, item, verdict, queue, unfinished, stopping, lock, pc, job>>
    BY <1>18, <1>q DEF RecordVerdict, clientVars, HandsInv, Jobs
  <2>2. PICK gone : \/ RecordProved(item.key, item.rewrite, TRUE, gone)
                    \/ RecordNoRewrite(item.key, gone)
                    \/ ClearPending(item.key)
    BY <1>18 DEF RecordVerdict
  <2>3. ~IsPending(item.key)'
    BY <2>1, <2>2, <1>q, VerdictsDecide
  <2>4. \A x \in Keys : ~IsPending(x) => ~IsPending(x)'
    BY <2>2, <1>q, OthersDoNotPend
  <2>5. \A d \in Clients : pc[d] = "mark" => job[d].key \in Keys
    BY <1>q DEF HandsInv, Jobs
  <2>6. \A d \in Clients : pc'[d] = "mark" => ~IsPending(job[d].key)'
    BY <2>1, <2>4, <2>5 DEF IsPending
  <2> QED BY <2>1, <2>3, <2>6
<1>19. CASE TaskDone
  BY <1>19 DEF TaskDone, clientVars, IsPending
<1>20. ASSUME NEW j \in Jobs, RuleSettles(j) PROVE StepsInv'
  <2>1. UNCHANGED <<thread, worker, item, verdict, queue, unfinished, stopping, lock, pc, job>>
    BY <1>20 DEF RuleSettles, workerVars, clientVars
  <2>2. PICK gone : \/ RecordProved(j.key, j.rewrite, TRUE, gone)
                    \/ RecordNoRewrite(j.key, gone)
    BY <1>20 DEF RuleSettles
  <2>3. \A x \in Keys : ~IsPending(x) => ~IsPending(x)'
    BY <2>2, <1>q, OthersDoNotPend
  <2>4. \A d \in Clients : pc[d] = "mark" => job[d].key \in Keys
    BY <1>q DEF HandsInv, Jobs
  <2>5. \A d \in Clients : pc'[d] = "mark" => ~IsPending(job[d].key)'
    BY <2>1, <2>3, <2>4 DEF IsPending
  <2>6. worker = "finish" /\ ~stopping =>
            item \in Jobs /\ (IsPending(item.key)' => Waiting(item.key)')
    BY <2>1, <2>3 DEF Jobs
  <2> QED BY <2>1, <2>5, <2>6
<1>21. CASE UNCHANGED vars
  BY <1>21 DEF vars, workerVars, clientVars, IsPending
<1> QED
  BY <1>1, <1>2, <1>3, <1>4, <1>5, <1>6, <1>7, <1>8, <1>9, <1>10, <1>11, <1>12, <1>13,
     <1>14, <1>15, <1>16, <1>17, <1>18, <1>19, <1>20, <1>21
  DEF Next, ClientStep, ClientCall, WorkerStep

LEMMA RInvHolds ==
    ASSUME ~TimedStops, ~ProverMayRaise
    PROVE  Spec => []RInv
<1>1. RInv /\ [Next]_vars => RInv'
  BY NextIInv, NextSentinelInv, NextStepsInv DEF RInv
<1> QED BY <1>1, InitRInv, PTL DEF Spec

-----------------------------------------------------------------------------
(* No step of a call or of the worker takes the last candidate of a key    *)
(* away while the key is pending, except to stop.                          *)
LEMMA StepLeavesDecided ==
    ASSUME ~TimedStops, ~ProverMayRaise, RInv, [Next]_vars, RInv',
           NEW k \in Keys, Owned(k), ~Owned(k)'
    PROVE  ~IsPending(k)' \/ stopping'
<1> SUFFICES ASSUME IsPending(k)', ~stopping' PROVE FALSE
  OBVIOUS
<1>q. /\ TypeOK /\ LockInv /\ HandsInv /\ StepsInv
      /\ pc \in [Clients -> ClientAt] /\ job \in [Clients -> Jobs \cup {NoJob}]
      /\ DOMAIN queue = 1..Len(queue) /\ DOMAIN queue' = 1..Len(queue')
  BY DEF RInv, IInv, TypeOK
<1>o. /\ Owned(k) <=> \/ Waiting(k)
                      \/ item # NoJob /\ item.key = k
      /\ Owned(k)' <=> \/ Waiting(k)'
                       \/ item' # NoJob /\ item'.key = k
  BY <1>q DEF Owned, Waiting
<1>s. \/ UNCHANGED <<queue, item, pc, job>>
      \/ /\ UNCHANGED <<queue, item>>
         /\ \A c \in Clients : pc[c] = "enqueue" => pc'[c] = "enqueue" /\ job'[c] = job[c]
      \/ queue' = <<>> /\ (queue = <<>> \/ stopping') /\ UNCHANGED <<item, pc, job>>
  => FALSE
  BY <1>o, <1>q DEF Waiting
<1>d. ASSUME lock = NoClient, ~(thread /\ Alive)
      PROVE  queue = <<>>
  BY <1>d, NamesAssumption
  DEF RInv, IInv, LockInv, StoppedIsClean, SentinelInv, Joining, Alive
<1>1. ASSUME NEW c \in Clients, Start(c) PROVE FALSE
  BY <1>1, <1>s DEF Start, clientVars
<1>2. ASSUME NEW c \in Clients, NEW j \in Jobs, BeginSubmit(c, j) PROVE FALSE
  BY <1>2, <1>s, <1>q DEF BeginSubmit, Acquire, Goto, workerVars
<1>3. ASSUME NEW c \in Clients, MarkPending(c) PROVE FALSE
  BY <1>3, <1>s, <1>q DEF MarkPending, Goto, workerVars
<1>4. ASSUME NEW c \in Clients, Enqueue(c) PROVE FALSE
  <2>1. /\ queue' = Append(queue, job[c]) /\ item' = item /\ job[c] \in Jobs
        /\ \A d \in Clients : d # c => pc'[d] = pc[d] /\ job'[d] = job[d]
    BY <1>4, <1>q DEF Enqueue, Release, Goto, workerVars, HandsInv
  <2>2. /\ Len(queue') = Len(queue) + 1 /\ queue'[Len(queue) + 1] = job[c]
        /\ \A i \in 1..Len(queue) : queue'[i] = queue[i]
        /\ Len(queue) \in Nat
    BY <2>1, <1>q, QueueSteps
  <2>3. job[c] # Wakeup
    BY <2>1, <1>q, QueueSteps
  <2>4. ~Waiting(k)'
    BY <1>o
  <2>5. job[c].key # k
    BY <2>2, <2>3, <2>4 DEF Waiting
  <2>6. \A i \in 1..Len(queue) : ~(queue[i] # Wakeup /\ queue[i].key = k)
    BY <2>2, <2>4 DEF Waiting
  <2>7. ~\E d \in Clients : pc[d] = "enqueue" /\ job[d].key = k
    BY <2>1, <2>4, <2>5 DEF Waiting
  <2> QED BY <1>o, <2>1, <2>6, <2>7 DEF Waiting
<1>5. ASSUME NEW c \in Clients, StopDead(c) PROVE FALSE
  BY <1>5, <1>d, <1>s DEF StopDead, workerVars, clientVars
<1>6. ASSUME NEW c \in Clients, SignalStop(c) PROVE FALSE
  BY <1>6 DEF SignalStop
<1>7. ASSUME NEW c \in Clients, CancelQueued(c) PROVE FALSE
  BY <1>7, <1>q DEF CancelQueued, StepsInv
<1>8. ASSUME NEW c \in Clients, CancelDone(c) PROVE FALSE
  BY <1>8, <1>q DEF CancelDone, StepsInv
<1>9. ASSUME NEW c \in Clients, Wake(c) PROVE FALSE
  BY <1>9, <1>q DEF Wake, StepsInv
<1>10. ASSUME NEW c \in Clients, JoinReturns(c) PROVE FALSE
  BY <1>10, <1>q DEF JoinReturns, StepsInv
<1>11. ASSUME NEW c \in Clients, JoinTimesOut(c) PROVE FALSE
  BY <1>11 DEF JoinTimesOut
<1>12. CASE TakeItem
  <2>1. /\ item = NoJob /\ item' = queue[1] /\ queue[1] # Wakeup /\ queue # <<>>
        /\ queue' = Tail(queue) /\ UNCHANGED <<pc, job>>
    BY <1>12, <1>q, QueueSteps DEF TakeItem, clientVars, StepsInv
  <2>2. /\ Len(queue) \in Nat /\ Len(queue') = Len(queue) - 1 /\ 1 \in 1..Len(queue)
        /\ \A i \in 1..Len(queue) - 1 : queue'[i] = queue[i + 1]
        /\ queue[1] \in Jobs /\ NoJob \notin Jobs
    BY <2>1, <1>q, QueueSteps
  <2>3. queue[1].key # k /\ ~Waiting(k)'
    BY <1>o, <2>1, <2>2
  <2>4. ASSUME NEW i \in 1..Len(queue), queue[i] # Wakeup, queue[i].key = k PROVE FALSE
    <3>1. i # 1
      BY <2>3, <2>4
    <3>2. i - 1 \in 1..Len(queue) - 1 /\ queue'[i - 1] = queue[i]
      BY <2>2, <3>1
    <3> QED BY <2>2, <2>3, <2>4, <3>2 DEF Waiting
  <2> QED BY <1>o, <2>1, <2>3, <2>4 DEF Waiting
<1>13. CASE TakeWakeup
  <2>1. /\ item' = item /\ queue[1] = Wakeup /\ queue # <<>>
        /\ queue' = Tail(queue) /\ UNCHANGED <<pc, job>>
    BY <1>13, <1>q, QueueSteps DEF TakeWakeup, clientVars
  <2>2. /\ Len(queue) \in Nat /\ Len(queue') = Len(queue) - 1
        /\ \A i \in 1..Len(queue) - 1 : queue'[i] = queue[i + 1]
    BY <2>1, <1>q, QueueSteps
  <2>4. ASSUME NEW i \in 1..Len(queue), queue[i] # Wakeup, queue[i].key = k PROVE FALSE
    <3>1. i - 1 \in 1..Len(queue) - 1 /\ queue'[i - 1] = queue[i]
      BY <2>1, <2>2, <2>4
    <3> QED BY <1>o, <2>2, <2>4, <3>1 DEF Waiting
  <2> QED BY <1>o, <2>1, <2>4 DEF Waiting
<1>14. CASE Leave
  BY <1>14, <1>s DEF Leave, clientVars
<1>15. ASSUME NEW v \in Verdicts \ {"none"}, ProverAnswers(v) PROVE FALSE
  BY <1>15, <1>s DEF ProverAnswers, clientVars
<1>16. CASE ProverRaises
  BY <1>16 DEF ProverRaises
<1>17. CASE Judge
  BY <1>17, <1>s DEF Judge, clientVars
<1>18. CASE RecordVerdict
  BY <1>18, <1>s DEF RecordVerdict, clientVars
<1>19. CASE TaskDone
  <2>1. /\ worker = "finish" /\ ~stopping
        /\ UNCHANGED <<entries, queue, pc, job>>
    BY <1>19 DEF TaskDone, clientVars
  <2>2. Waiting(k) <=> Waiting(k)'
    BY <2>1 DEF Waiting
  <2>3. ~Waiting(k) /\ item.key = k
    BY <1>o, <2>2
  <2>4. IsPending(k)
    BY <2>1 DEF IsPending
  <2> QED BY <2>1, <2>3, <2>4, <1>q DEF StepsInv
<1>20. ASSUME NEW j \in Jobs, RuleSettles(j) PROVE FALSE
  BY <1>20, <1>s DEF RuleSettles, workerVars, clientVars
<1>21. CASE UNCHANGED vars
  BY <1>21, <1>s DEF vars, workerVars, clientVars
<1> QED
  BY <1>1, <1>2, <1>3, <1>4, <1>5, <1>6, <1>7, <1>8, <1>9, <1>10, <1>11, <1>12, <1>13,
     <1>14, <1>15, <1>16, <1>17, <1>18, <1>19, <1>20, <1>21
  DEF Next, ClientStep, ClientCall, WorkerStep

(* Until a stop is under way, the last candidate of a key leaves the       *)
(* prover only when the key is settled, released or pushed out: submit's   *)
(* mark and the worker's record never leave a pending key that nobody      *)
(* will decide, in any interleaving with the live rule.                    *)
THEOREM LastJobDecides ==
    ASSUME ~TimedStops, ~ProverMayRaise
    PROVE  Spec => JobsLeaveDecided
<1>1. RInv /\ RInv' /\ [Next]_vars =>
        [\A k \in Keys : Owned(k) /\ ~Owned(k)' => ~IsPending(k)' \/ stopping']_vars
  BY StepLeavesDecided
<1> QED BY <1>1, RInvHolds, PTL DEF Spec, JobsLeaveDecided

-----------------------------------------------------------------------------
(* Counting.  A candidate is counted once wherever it is: in the queue, in *)
(* the worker's hand, or with the submit that marked its key.              *)
Places(q, k) == {i \in DOMAIN q : q[i] # Wakeup /\ q[i].key = k}

Queued(q, k) == Cardinality(Places(q, k))

Messages == Jobs \cup {Wakeup}

LEMMA PlacesAreFinite ==
    ASSUME NEW q \in Seq(Messages), NEW k
    PROVE  IsFiniteSet(Places(q, k)) /\ Queued(q, k) \in Nat /\ Queued(<<>>, k) = 0
<1>1. IsFiniteSet(1..Len(q)) /\ Places(q, k) \in SUBSET (1..Len(q))
  <2>1. Len(q) \in Nat /\ DOMAIN q = 1..Len(q)
    OBVIOUS
  <2> QED BY <2>1, FS_Interval DEF Places
<1>2. IsFiniteSet(Places(q, k))
  BY <1>1, FS_Subset
<1>3. Places(<<>>, k) = {}
  BY DEF Places
<1> QED BY <1>2, <1>3, FS_CardinalityType, FS_EmptySet DEF Queued

LEMMA QueuedAppend ==
    ASSUME NEW q \in Seq(Messages), NEW x \in Messages, NEW k
    PROVE  Queued(Append(q, x), k) =
              Queued(q, k) + (IF x # Wakeup /\ x.key = k THEN 1 ELSE 0)
<1>1. /\ Len(q) \in Nat /\ DOMAIN q = 1..Len(q)
      /\ DOMAIN Append(q, x) = 1..(Len(q) + 1)
      /\ Append(q, x)[Len(q) + 1] = x
      /\ \A i \in 1..Len(q) : Append(q, x)[i] = q[i]
  OBVIOUS
<1>2. Len(q) + 1 \notin Places(q, k)
  BY <1>1 DEF Places
<1>3. IsFiniteSet(Places(q, k)) /\ Queued(q, k) \in Nat
  BY PlacesAreFinite
<1>4. CASE x # Wakeup /\ x.key = k
  <2>1. Places(Append(q, x), k) = Places(q, k) \cup {Len(q) + 1}
    BY <1>1, <1>4 DEF Places
  <2>2. Cardinality(Places(q, k) \cup {Len(q) + 1}) = Cardinality(Places(q, k)) + 1
    BY <1>2, <1>3, FS_AddElement
  <2> QED BY <1>4, <2>1, <2>2 DEF Queued
<1>5. CASE ~(x # Wakeup /\ x.key = k)
  <2>1. Places(Append(q, x), k) = Places(q, k)
    BY <1>1, <1>5 DEF Places
  <2> QED BY <1>3, <1>5, <2>1 DEF Queued
<1> QED BY <1>4, <1>5

LEMMA QueuedTail ==
    ASSUME NEW q \in Seq(Messages), q # <<>>, NEW k
    PROVE  Queued(q, k) =
              Queued(Tail(q), k) + (IF Head(q) # Wakeup /\ Head(q).key = k THEN 1 ELSE 0)
<1> DEFINE rest == Places(q, k) \ {1}
           shift == [i \in Places(Tail(q), k) |-> i + 1]
<1>1. /\ Len(q) \in Nat /\ Len(q) > 0 /\ DOMAIN q = 1..Len(q) /\ Head(q) = q[1]
      /\ Tail(q) \in Seq(Messages) /\ DOMAIN Tail(q) = 1..(Len(q) - 1)
      /\ \A i \in 1..(Len(q) - 1) : Tail(q)[i] = q[i + 1]
  OBVIOUS
<1>2. /\ IsFiniteSet(Places(q, k)) /\ Queued(q, k) \in Nat
      /\ IsFiniteSet(Places(Tail(q), k)) /\ Queued(Tail(q), k) \in Nat
  BY <1>1, PlacesAreFinite
<1>3. \A i \in Places(Tail(q), k) : i \in Nat /\ i + 1 \in rest
  BY <1>1 DEF Places
<1>4. \A i \in rest : i \in Nat /\ i - 1 \in Places(Tail(q), k)
  <2> SUFFICES ASSUME NEW i \in rest PROVE i \in Nat /\ i - 1 \in Places(Tail(q), k)
    OBVIOUS
  <2>1. i \in 1..Len(q) /\ i # 1 /\ q[i] # Wakeup /\ q[i].key = k
    BY <1>1 DEF Places
  <2>2. i \in Nat /\ i - 1 \in 1..(Len(q) - 1) /\ (i - 1) + 1 = i
    BY <1>1, <2>1
  <2>3. Tail(q)[i - 1] = q[i]
    BY <1>1, <2>2
  <2> QED BY <1>1, <2>1, <2>2, <2>3 DEF Places
<1>5. shift \in Bijection(Places(Tail(q), k), rest)
  <2>1. shift \in [Places(Tail(q), k) -> rest]
    BY <1>3
  <2>2. ASSUME NEW a \in Places(Tail(q), k), NEW b \in Places(Tail(q), k), shift[a] = shift[b]
        PROVE  a = b
    BY <1>3, <2>2
  <2>3. ASSUME NEW t \in rest PROVE \E a \in Places(Tail(q), k) : shift[a] = t
    BY <1>4
  <2> HIDE DEF shift, rest
  <2> QED BY <2>1, <2>2, <2>3 DEF Bijection, Injection, IsInjective, Surjection
<1>6. Cardinality(rest) = Queued(Tail(q), k)
  BY <1>2, <1>5, FS_Bijection DEF ExistsBijection, Queued
<1>7. Cardinality(rest) = IF 1 \in Places(q, k) THEN Queued(q, k) - 1 ELSE Queued(q, k)
  BY <1>2, FS_RemoveElement DEF Queued
<1>8. 1 \in Places(q, k) <=> Head(q) # Wakeup /\ Head(q).key = k
  BY <1>1 DEF Places
<1> QED BY <1>2, <1>6, <1>7, <1>8

(* At most the client that holds the lock is between its mark and its put. *)
Alone(at, owner) == \A c \in Clients : at[c] # "idle" <=> owner = c

Submitting(at, held, k) == {c \in Clients : at[c] = "enqueue" /\ held[c].key = k}

LEMMA OneSubmitter ==
    ASSUME NEW at, NEW held, NEW owner, NEW k, Alone(at, owner)
    PROVE  Cardinality(Submitting(at, held, k)) =
              IF \E c \in Clients : at[c] = "enqueue" /\ held[c].key = k THEN 1 ELSE 0
<1>1. CASE \E c \in Clients : at[c] = "enqueue" /\ held[c].key = k
  <2>1. Submitting(at, held, k) = {owner}
    BY <1>1 DEF Alone, Submitting
  <2> QED BY <1>1, <2>1, FS_Singleton
<1>2. CASE ~\E c \in Clients : at[c] = "enqueue" /\ held[c].key = k
  <2>1. Submitting(at, held, k) = {}
    BY <1>2 DEF Submitting
  <2> QED BY <1>2, <2>1, FS_EmptySet
<1> QED BY <1>1, <1>2

(* The three places a candidate of key k is counted at.                    *)
InHand(at, it, k) ==
    IF at \in {"prove", "judge", "record"} /\ it.key = k THEN 1 ELSE 0

WithClient(at, held, k) ==
    IF \E c \in Clients : at[c] = "enqueue" /\ held[c].key = k THEN 1 ELSE 0

LEMMA JobsCounted ==
    ASSUME LockInv, LockInv', NEW k
    PROVE  /\ JobsOf(k) = Queued(queue, k) + InHand(worker, item, k) + WithClient(pc, job, k)
           /\ JobsOf(k)' = Queued(queue', k) + InHand(worker', item', k)
                           + WithClient(pc', job', k)
<1>1. JobsOf(k) = Queued(queue, k) + InHand(worker, item, k)
                  + Cardinality(Submitting(pc, job, k))
  BY DEF JobsOf, Queued, Places, InHand, Submitting
<1>2. JobsOf(k)' = Queued(queue', k) + InHand(worker', item', k)
                   + Cardinality(Submitting(pc', job', k))
  BY DEF JobsOf, Queued, Places, InHand, Submitting
<1>3. Alone(pc, lock) /\ Alone(pc', lock')
  BY DEF LockInv, Alone
<1>4. Cardinality(Submitting(pc, job, k)) = WithClient(pc, job, k)
  BY <1>3, OneSubmitter DEF WithClient
<1>5. Cardinality(Submitting(pc', job', k)) = WithClient(pc', job', k)
  BY <1>3, OneSubmitter DEF WithClient
<1> QED BY <1>1, <1>2, <1>4, <1>5

-----------------------------------------------------------------------------
(* The promise speaks of the same table.                                   *)
LEMMA SameTable ==
    /\ \A k \in Keys : Promise!IsPending(k) <=> IsPending(k)
    /\ \A k \in Keys : Promise!Evictions(k) = Evictions(k)
    /\ \A k, r, gone : RecordProved(k, r, TRUE, gone) => Promise!RecordProved(k, r, TRUE, gone)
    /\ \A k, gone : RecordNoRewrite(k, gone) => Promise!RecordNoRewrite(k, gone)
    /\ \A k, gone : RecordPending(k, gone) => Promise!RecordPending(k, gone)
    /\ \A k : ClearPending(k) => Promise!ClearPending(k)
<1>1. \A k : IsSettled(k) <=> Promise!IsSettled(k)
  BY DEF IsSettled, Promise!IsSettled
<1>2. \A k, e, gone : Store(k, e, gone) <=> Promise!Store(k, e, gone)
  BY DEF Store, Absent, Promise!Store, Promise!Absent
<1>3. \A k \in Keys : Promise!Evictions(k) = Evictions(k)
  <2>1. \A S : Promise!Cardinality(S) = Cardinality(S)
    BY DEF Cardinality, Promise!Cardinality
  <2>2. \A k : Promise!Known(k) <=> Known(k)
    BY DEF Known, Absent, Promise!Known, Promise!Absent
  <2> QED BY <2>1, <2>2 DEF Evictions, Promise!Evictions
<1>4. \A k : Promise!IsPending(k) <=> IsPending(k)
  BY DEF IsPending, Promise!IsPending
<1>5. \A k : Drop(k) <=> Promise!Drop(k)
  BY DEF Drop, Absent, Promise!Drop, Promise!Absent
<1>6. \A k, r, gone : RecordProved(k, r, TRUE, gone) => Promise!RecordProved(k, r, TRUE, gone)
  BY <1>2 DEF RecordProved, Proved, Promise!RecordProved, Promise!Proved
<1>7. \A k, gone : RecordNoRewrite(k, gone) => Promise!RecordNoRewrite(k, gone)
  BY <1>2 DEF RecordNoRewrite, NoRewrite, Promise!RecordNoRewrite, Promise!NoRewrite
<1>8. \A k, gone : RecordPending(k, gone) => Promise!RecordPending(k, gone)
  BY <1>1, <1>2 DEF RecordPending, Pending, Promise!RecordPending, Promise!Pending
<1>9. \A k : ClearPending(k) => Promise!ClearPending(k)
  BY <1>4, <1>5 DEF ClearPending, Promise!ClearPending
<1> QED BY <1>3, <1>4, <1>6, <1>7, <1>8, <1>9

-----------------------------------------------------------------------------
(* Every step of the prover is a step of the promise, or none.             *)
LEMMA StepKeepsPromise ==
    ASSUME ~TimedStops, ~ProverMayRaise, RInv, [Next]_vars, RInv'
    PROVE  [Promise!Next]_(Promise!vars)
<1> DEFINE accepting == thread /\ ~stopping
           Q(k) == Queued(queue, k)
           H(k) == InHand(worker, item, k)
           C(k) == WithClient(pc, job, k)
<1>q. /\ TypeOK /\ LockInv /\ LockInv' /\ HandsInv /\ StepsInv /\ RoomInv
      /\ pc \in [Clients -> ClientAt] /\ job \in [Clients -> Jobs \cup {NoJob}]
      /\ queue \in Seq(Messages) /\ stopping \in BOOLEAN /\ thread \in BOOLEAN
      /\ Jobs \subseteq Messages /\ Wakeup \in Messages
      /\ \A j \in Jobs : j # Wakeup /\ j.key \in Keys
  BY NamesAssumption DEF RInv, IInv, TypeOK, Messages, Jobs
<1>j. \A k : /\ JobsOf(k) = Q(k) + H(k) + C(k)
             /\ JobsOf(k)' = Queued(queue', k) + InHand(worker', item', k)
                             + WithClient(pc', job', k)
  BY <1>q, JobsCounted
<1>n. \A k : Q(k) \in Nat /\ H(k) \in {0, 1} /\ C(k) \in {0, 1}
  BY <1>q, PlacesAreFinite DEF InHand, WithClient
<1> HIDE DEF Q, H, C
<1>s. ASSUME entries' = entries, accepting' <=> accepting,
             \A k \in Keys : JobsOf(k)' = JobsOf(k)
      PROVE  [Promise!Next]_(Promise!vars)
  <2>1. [k \in Keys |-> JobsOf(k)]' = [k \in Keys |-> JobsOf(k)]
    BY <1>s
  <2>2. (thread /\ ~stopping)' = (thread /\ ~stopping)
    BY <1>s
  <2> QED BY <1>s, <2>1, <2>2 DEF Promise!vars
<1>e. ASSUME accepting' <=> accepting, NEW k \in Keys, JobsOf(k) > 0,
             \A x \in Keys : JobsOf(x)' = IF x = k THEN JobsOf(x) - 1 ELSE JobsOf(x)
      PROVE  Promise!End(k)
  <2>1. [x \in Keys |-> JobsOf(x)]'
           = [[x \in Keys |-> JobsOf(x)] EXCEPT ![k] = @ - 1]
    BY <1>e
  <2>2. [x \in Keys |-> JobsOf(x)][k] > 0
    BY <1>e
  <2>3. (thread /\ ~stopping)' = (thread /\ ~stopping)
    BY <1>e
  <2> QED BY <2>1, <2>2, <2>3 DEF Promise!End
<1>d. ASSUME lock = NoClient, ~(thread /\ Alive)
      PROVE  ~thread /\ worker = "dead" /\ queue = <<>> /\ \A c \in Clients : pc[c] = "idle"
  BY <1>d, NamesAssumption
  DEF RInv, IInv, LockInv, StoppedIsClean, SentinelInv, Joining, Alive
<1>1. ASSUME NEW c \in Clients, Start(c) PROVE Promise!Next
  <2>1. /\ ~accepting /\ accepting' /\ entries' = entries
        /\ UNCHANGED <<queue, item, pc, job>> /\ worker = "dead" /\ worker' = "get"
    BY <1>1, <1>d DEF Start, clientVars
  <2>2. \A k \in Keys : JobsOf(k)' = JobsOf(k)
    BY <1>j, <2>1 DEF Q, H, C, InHand
  <2>3. Promise!Open
    BY <2>1, <2>2 DEF Promise!Open
  <2> QED BY <2>3 DEF Promise!Next
<1>6. ASSUME NEW c \in Clients, SignalStop(c) PROVE [Promise!Next]_(Promise!vars)
  <2>1. /\ ~accepting' /\ entries' = entries /\ thread
        /\ UNCHANGED <<queue, worker, item, job>>
        /\ \A x \in Clients : pc[x] # "enqueue" /\ pc'[x] # "enqueue"
    BY <1>6, <1>q, NamesAssumption DEF SignalStop, Acquire, Goto, workerVars, LockInv
  <2>2. \A k \in Keys : JobsOf(k)' = JobsOf(k)
    BY <1>j, <2>1 DEF Q, H, C, WithClient
  <2>3. CASE stopping
    BY <2>1, <2>2, <2>3, <1>s
  <2>4. CASE ~stopping
    <3>1. Promise!Close
      BY <2>1, <2>2, <2>4 DEF Promise!Close
    <3> QED BY <3>1 DEF Promise!Next
  <2> QED BY <2>3, <2>4, <1>q
<1>2. ASSUME NEW c \in Clients, NEW j \in Jobs, BeginSubmit(c, j)
      PROVE  [Promise!Next]_(Promise!vars)
  <2>1. /\ entries' = entries /\ UNCHANGED <<thread, stopping, queue, worker, item>>
        /\ \A x \in Clients : pc[x] # "enqueue" /\ pc'[x] # "enqueue"
    BY <1>2, <1>q, NamesAssumption DEF BeginSubmit, Acquire, Goto, workerVars, LockInv
  <2>2. \A k \in Keys : JobsOf(k)' = JobsOf(k)
    BY <1>j, <2>1 DEF Q, H, C, WithClient
  <2> QED BY <2>1, <2>2, <1>s
<1>3. ASSUME NEW c \in Clients, MarkPending(c) PROVE Promise!Next
  <2> DEFINE k == job[c].key
  <2>1. /\ pc[c] = "mark" /\ pc' = [pc EXCEPT ![c] = "enqueue"] /\ job[c] \in Jobs
        /\ UNCHANGED <<thread, stopping, queue, worker, item, job>>
    BY <1>3, <1>q DEF MarkPending, Goto, workerVars, HandsInv
  <2>2. \A x \in Clients : pc[x] # "enqueue" /\ (pc'[x] = "enqueue" <=> x = c)
    BY <2>1, <1>q DEF LockInv
  <2>3. k \in Keys /\ accepting /\ accepting' /\ ~IsPending(k)
    BY <2>1, <1>q DEF StepsInv, RoomInv
  <2>4. PICK gone \in Evictions(k) : RecordPending(k, gone)
    BY <1>3 DEF MarkPending
  <2>5. \A x \in Keys : C(x) = 0 /\ WithClient(pc', job', x) = IF x = k THEN 1 ELSE 0
    BY <2>1, <2>2 DEF C, WithClient
  <2>6. \A x \in Keys : JobsOf(x)' = IF x = k THEN JobsOf(x) + 1 ELSE JobsOf(x)
    <3>1. \A x \in Keys : Queued(queue', x) = Q(x) /\ InHand(worker', item', x) = H(x)
      BY <2>1 DEF Q, H
    <3> HIDE DEF k
    <3> QED BY <1>j, <1>n, <2>5, <3>1
  <2>7. [x \in Keys |-> JobsOf(x)]'
           = [[x \in Keys |-> JobsOf(x)] EXCEPT ![k] = @ + 1]
    BY <2>3, <2>6
  <2>8. Promise!Submit(k)
    <3> HIDE DEF k
    <3> QED BY <2>3, <2>4, <2>7, SameTable DEF Promise!Submit
  <2> QED BY <2>3, <2>8 DEF Promise!Next
<1>4. ASSUME NEW c \in Clients, Enqueue(c) PROVE [Promise!Next]_(Promise!vars)
  <2> DEFINE k == job[c].key
  <2>1. /\ pc[c] = "enqueue" /\ pc' = [pc EXCEPT ![c] = "idle"] /\ job[c] \in Jobs
        /\ entries' = entries /\ UNCHANGED <<thread, stopping, worker, item>>
        /\ queue' = Append(queue, job[c])
    BY <1>4, <1>q DEF Enqueue, Release, Goto, workerVars, HandsInv
  <2>2. \A x \in Clients : pc'[x] # "enqueue" /\ (pc[x] = "enqueue" <=> x = c)
    BY <2>1, <1>q DEF LockInv
  <2>3. job[c] \in Messages /\ job[c] # Wakeup
    BY <2>1, <1>q
  <2>4. \A x \in Keys : Queued(queue', x) = Q(x) + (IF x = k THEN 1 ELSE 0)
    BY <2>1, <2>3, <1>q, QueuedAppend DEF Q
  <2>5. \A x \in Keys : C(x) = (IF x = k THEN 1 ELSE 0) /\ WithClient(pc', job', x) = 0
    BY <2>1, <2>2 DEF C, WithClient
  <2>6. \A x \in Keys : JobsOf(x)' = JobsOf(x)
    <3>1. \A x \in Keys : InHand(worker', item', x) = H(x)
      BY <2>1 DEF H
    <3> HIDE DEF k
    <3> QED BY <1>j, <1>n, <2>4, <2>5, <3>1
  <2> QED BY <2>1, <2>6, <1>s
<1>5. ASSUME NEW c \in Clients, StopDead(c) PROVE [Promise!Next]_(Promise!vars)
  <2>1. /\ ~accepting /\ ~accepting' /\ entries' = entries
        /\ UNCHANGED <<queue, worker, item, pc, job>>
    BY <1>5, <1>d DEF StopDead, workerVars, clientVars
  <2>2. \A k \in Keys : JobsOf(k)' = JobsOf(k)
    BY <1>j, <2>1 DEF Q, H, C
  <2> QED BY <2>1, <2>2, <1>s
<1>7. ASSUME NEW c \in Clients, CancelQueued(c) PROVE [Promise!Next]_(Promise!vars)
  <2>1. /\ entries' = entries /\ stopping /\ queue # <<>> /\ queue' = Tail(queue)
        /\ UNCHANGED <<thread, stopping, worker, item, pc, job>>
    BY <1>7, <1>q DEF CancelQueued, workerVars, clientVars, StepsInv
  <2>2. \A x \in Keys : Q(x) = Queued(queue', x)
             + (IF Head(queue) # Wakeup /\ Head(queue).key = x THEN 1 ELSE 0)
    BY <2>1, <1>q, QueuedTail DEF Q
  <2>3. \A x \in Keys : JobsOf(x)' = Queued(queue', x) + H(x) + C(x)
    BY <1>j, <2>1 DEF H, C
  <2>4. queue' \in Seq(Messages) /\ Head(queue) \in Messages
    BY <2>1, <1>q
  <2>5. \A x \in Keys : Queued(queue', x) \in Nat
    BY <2>4, PlacesAreFinite
  <2>6. CASE Head(queue) = Wakeup
    <3>1. \A x \in Keys : JobsOf(x)' = JobsOf(x)
      BY <1>j, <1>n, <2>2, <2>3, <2>5, <2>6
    <3> QED BY <2>1, <3>1, <1>s
  <2>7. CASE Head(queue) # Wakeup
    <3> DEFINE k == Head(queue).key
    <3>1. k \in Keys
      BY <2>4, <2>7, <1>q DEF Messages
    <3> HIDE DEF k
    <3>2. JobsOf(k) > 0 /\ \A x \in Keys :
             JobsOf(x)' = IF x = k THEN JobsOf(x) - 1 ELSE JobsOf(x)
      BY <1>j, <1>n, <2>2, <2>3, <2>5, <2>7, <3>1 DEF k
    <3>3. Promise!Abandon(k)
      BY <2>1, <3>1, <3>2, <1>e DEF Promise!Abandon
    <3> QED BY <3>1, <3>3 DEF Promise!Next
  <2> QED BY <2>6, <2>7
<1>8. ASSUME NEW c \in Clients, CancelDone(c) PROVE [Promise!Next]_(Promise!vars)
  <2>1. /\ entries' = entries /\ UNCHANGED <<thread, stopping, queue, worker, item, job>>
        /\ \A x \in Clients : pc'[x] = "enqueue" <=> pc[x] = "enqueue"
    BY <1>8, <1>q DEF CancelDone, Goto, workerVars
  <2>2. \A k \in Keys : JobsOf(k)' = JobsOf(k)
    BY <1>j, <2>1 DEF Q, H, C, WithClient
  <2> QED BY <2>1, <2>2, <1>s
<1>9. ASSUME NEW c \in Clients, Wake(c) PROVE [Promise!Next]_(Promise!vars)
  <2>1. /\ entries' = entries /\ UNCHANGED <<thread, stopping, worker, item, job>>
        /\ \A x \in Clients : pc'[x] = "enqueue" <=> pc[x] = "enqueue"
        /\ queue' = Append(queue, Wakeup)
    BY <1>9, <1>q DEF Wake, Goto, workerVars
  <2>2. \A k \in Keys : Queued(queue', k) = Q(k)
    BY <2>1, <1>q, <1>n, QueuedAppend DEF Q
  <2>3. \A k \in Keys : JobsOf(k)' = JobsOf(k)
    BY <1>j, <2>1, <2>2 DEF H, C, WithClient
  <2> QED BY <2>1, <2>3, <1>s
<1>10. ASSUME NEW c \in Clients, JoinReturns(c) PROVE [Promise!Next]_(Promise!vars)
  <2>1. /\ entries' = entries /\ ~accepting /\ ~accepting' /\ queue' = <<>>
        /\ UNCHANGED <<worker, item, job>>
        /\ \A x \in Clients : pc'[x] = "enqueue" <=> pc[x] = "enqueue"
        /\ \A i \in 1..Len(queue) : queue[i] = Wakeup
    BY <1>10, <1>q DEF JoinReturns, Release, Goto, workerVars, StepsInv
  <2>2. \A k \in Keys : Places(queue, k) = Places(queue', k)
    BY <2>1, <1>q DEF Places
  <2>3. \A k \in Keys : JobsOf(k)' = JobsOf(k)
    BY <1>j, <2>1, <2>2 DEF Q, H, C, Queued, WithClient
  <2> QED BY <2>1, <2>3, <1>s
<1>11. ASSUME NEW c \in Clients, JoinTimesOut(c) PROVE FALSE
  BY <1>11 DEF JoinTimesOut
<1>12. CASE TakeItem
  <2>1. /\ entries' = entries /\ queue # <<>> /\ queue' = Tail(queue)
        /\ worker = "get" /\ worker' = "prove" /\ item' = Head(queue) /\ Head(queue) # Wakeup
        /\ UNCHANGED <<thread, stopping, pc, job>>
    BY <1>12 DEF TakeItem, clientVars
  <2>2. \A x \in Keys : Q(x) = Queued(queue', x)
             + (IF Head(queue) # Wakeup /\ Head(queue).key = x THEN 1 ELSE 0)
    BY <2>1, <1>q, QueuedTail DEF Q
  <2>3. \A x \in Keys : Queued(queue', x) \in Nat
    <3>1. queue' \in Seq(Messages)
      BY <2>1, <1>q
    <3> QED BY <3>1, PlacesAreFinite
  <2>4. \A x \in Keys : H(x) = 0
             /\ InHand(worker', item', x) = (IF Head(queue).key = x THEN 1 ELSE 0)
    BY <2>1 DEF H, InHand
  <2>5. \A x \in Keys : JobsOf(x)' = JobsOf(x)
    BY <1>j, <1>n, <2>1, <2>2, <2>3, <2>4 DEF C
  <2> QED BY <2>1, <2>5, <1>s
<1>13. CASE TakeWakeup
  <2>1. /\ entries' = entries /\ queue # <<>> /\ queue' = Tail(queue)
        /\ worker = "get" /\ worker' = "exit" /\ Head(queue) = Wakeup
        /\ UNCHANGED <<thread, stopping, item, pc, job>>
    BY <1>13 DEF TakeWakeup, clientVars
  <2>2. \A x \in Keys : Q(x) = Queued(queue', x)
             + (IF Head(queue) # Wakeup /\ Head(queue).key = x THEN 1 ELSE 0)
    BY <2>1, <1>q, QueuedTail DEF Q
  <2>3. \A x \in Keys : Queued(queue', x) \in Nat
    <3>1. queue' \in Seq(Messages)
      BY <2>1, <1>q
    <3> QED BY <3>1, PlacesAreFinite
  <2>4. \A x \in Keys : H(x) = 0 /\ InHand(worker', item', x) = 0
    BY <2>1 DEF H, InHand
  <2>5. \A x \in Keys : JobsOf(x)' = JobsOf(x)
    BY <1>j, <1>n, <2>1, <2>2, <2>3, <2>4 DEF C
  <2> QED BY <2>1, <2>5, <1>s
<1>h. ASSUME entries' = entries, UNCHANGED <<thread, stopping, queue, pc, job>>,
             \A k \in Keys : InHand(worker', item', k) = H(k)
      PROVE  [Promise!Next]_(Promise!vars)
  <2>1. \A x \in Keys : JobsOf(x)' = JobsOf(x)
    BY <1>j, <1>h DEF Q, C
  <2> QED BY <2>1, <1>h, <1>s
<1>14. CASE Leave
  BY <1>14, <1>h DEF Leave, clientVars, H, InHand
<1>15. ASSUME NEW v \in Verdicts \ {"none"}, ProverAnswers(v)
       PROVE  [Promise!Next]_(Promise!vars)
  BY <1>15, <1>h DEF ProverAnswers, clientVars, H, InHand
<1>16. CASE ProverRaises
  BY <1>16 DEF ProverRaises
<1>k. ASSUME UNCHANGED <<thread, stopping, queue, item, pc, job>>,
             worker \in {"judge", "record"}, worker' = "finish"
      PROVE  item \in Jobs /\ item.key \in Keys /\ Promise!End(item.key)
  <2> DEFINE k == item.key
  <2>1. item \in Jobs /\ k \in Keys
    BY <1>k, <1>q DEF HandsInv
  <2>2. \A x \in Keys : H(x) = (IF x = k THEN 1 ELSE 0) /\ InHand(worker', item', x) = 0
    BY <1>k DEF H, InHand
  <2>3. \A x \in Keys : JobsOf(x)' = Q(x) + C(x)
    BY <1>j, <1>k, <1>n, <2>2 DEF Q, C
  <2> HIDE DEF k
  <2>4. JobsOf(k) > 0 /\ \A x \in Keys :
           JobsOf(x)' = IF x = k THEN JobsOf(x) - 1 ELSE JobsOf(x)
    BY <1>j, <1>n, <2>1, <2>2, <2>3
  <2>5. Promise!End(k)
    BY <1>k, <2>1, <2>4, <1>e
  <2> QED BY <2>1, <2>5 DEF k
<1>17. CASE Judge
  <2>1. CASE stopping
    <3>1. Promise!End(item.key) /\ item.key \in Keys
      BY <1>17, <1>k, <2>1 DEF Judge, clientVars
    <3>2. Promise!Abandon(item.key)
      BY <1>17, <2>1, <3>1 DEF Judge, Promise!Abandon
    <3> QED BY <3>1, <3>2 DEF Promise!Next
  <2>2. CASE ~stopping
    BY <1>17, <1>h, <2>2 DEF Judge, clientVars, H, InHand
  <2> QED BY <2>1, <2>2, <1>q
<1>18. CASE RecordVerdict
  <2>1. Promise!End(item.key) /\ item.key \in Keys /\ item.rewrite \in Rewrites
    BY <1>18, <1>k DEF RecordVerdict, clientVars, Jobs
  <2>2. PICK gone \in Evictions(item.key) :
          \/ verdict = "proved" /\ RecordProved(item.key, item.rewrite, TRUE, gone)
          \/ verdict = "refuted" /\ RecordNoRewrite(item.key, gone)
          \/ verdict = "starved" /\ ClearPending(item.key)
    BY <1>18 DEF RecordVerdict
  <2>3. verdict = "proved" => <<item.key, item.rewrite>> \in Sound
    BY <1>18, <1>q DEF RecordVerdict, StepsInv
  <2>4. gone \in Promise!Evictions(item.key)
    BY <2>1, <2>2, SameTable
  <2>5. \/ Promise!EndProved(item.key)
        \/ Promise!EndNegative(item.key)
        \/ Promise!EndReleased(item.key)
    BY <2>1, <2>2, <2>3, <2>4, SameTable
    DEF Promise!EndProved, Promise!EndNegative, Promise!EndReleased
  <2> QED BY <2>1, <2>5 DEF Promise!Next
<1>19. CASE TaskDone
  BY <1>19, <1>h DEF TaskDone, clientVars, H, InHand
<1>20. ASSUME NEW j \in Jobs, RuleSettles(j) PROVE Promise!Next
  <2>1. /\ ~IsPending(j.key) /\ j.key \in Keys /\ j.rewrite \in Rewrites
        /\ UNCHANGED <<thread, stopping, queue, worker, item, pc, job>>
    BY <1>20, <1>q DEF RuleSettles, workerVars, clientVars, Jobs
  <2>2. PICK gone \in Evictions(j.key) :
          \/ <<j.key, j.rewrite>> \in Sound /\ RecordProved(j.key, j.rewrite, TRUE, gone)
          \/ RecordNoRewrite(j.key, gone)
    BY <1>20 DEF RuleSettles
  <2>3. \A x \in Keys : JobsOf(x)' = JobsOf(x)
    BY <1>j, <2>1 DEF Q, H, C
  <2>4. [x \in Keys |-> JobsOf(x)]' = [x \in Keys |-> JobsOf(x)]
    BY <2>3
  <2>5. (thread /\ ~stopping)' = (thread /\ ~stopping)
    BY <2>1
  <2>6. gone \in Promise!Evictions(j.key) /\ ~Promise!IsPending(j.key)
    BY <2>1, <2>2, SameTable
  <2>7. Promise!Elsewhere(j.key)
    BY <2>1, <2>2, <2>4, <2>5, <2>6, SameTable DEF Promise!Elsewhere
  <2> QED BY <2>1, <2>7 DEF Promise!Next
<1>21. CASE UNCHANGED vars
  BY <1>21, <1>h DEF vars, workerVars, clientVars, H
<1> QED
  BY <1>1, <1>2, <1>3, <1>4, <1>5, <1>6, <1>7, <1>8, <1>9, <1>10, <1>11, <1>12, <1>13,
     <1>14, <1>15, <1>16, <1>17, <1>18, <1>19, <1>20, <1>21
  DEF Next, ClientStep, ClientCall, WorkerStep

LEMMA InitKeepsPromise == Init => Promise!Init
<1> SUFFICES ASSUME Init PROVE Promise!Init
  OBVIOUS
<1>1. \A k \in Keys : JobsOf(k) = 0
  <2> SUFFICES ASSUME NEW k \in Keys PROVE JobsOf(k) = 0
    OBVIOUS
  <2>1. /\ {i \in DOMAIN queue : queue[i] # Wakeup /\ queue[i].key = k} = {}
        /\ {c \in Clients : pc[c] = "enqueue" /\ job[c].key = k} = {}
        /\ worker \notin {"prove", "judge", "record"}
    BY DEF Init
  <2>2. JobsOf(k) = Cardinality({}) + 0 + Cardinality({})
    BY <2>1 DEF JobsOf
  <2> QED BY <2>2, FS_EmptySet
<1>2. Promise!EmptyTable = EmptyTable
  BY DEF EmptyTable, Absent, Promise!EmptyTable, Promise!Absent
<1> QED BY <1>1, <1>2 DEF Init, Promise!Init

(* The prover implements the background worker the rule relies on: until   *)
(* it is told to stop, a candidate ends only with a verdict stored or its  *)
(* key released, and whatever it stores as proved is sound, in any         *)
(* interleaving of its threads with each other and with the live rule.     *)
THEOREM KeepsPromise ==
    ASSUME ~TimedStops, ~ProverMayRaise
    PROVE  Spec => ImplementsPromise
<1>1. RInv /\ RInv' /\ [Next]_vars => [Promise!Next]_(Promise!vars)
  BY StepKeepsPromise
<1> QED BY <1>1, InitKeepsPromise, RInvHolds, PTL DEF Spec, ImplementsPromise, Promise!Spec

=============================================================================
