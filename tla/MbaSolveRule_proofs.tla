------------------------- MODULE MbaSolveRule_proofs -------------------------
(***************************************************************************)
(* Soundness of the live rule, for every set of keys and rewrites, every   *)
(* bound and every configuration: what a proof-gated rule installs, and    *)
(* what the durable cache keeps, is equivalent to its candidate.           *)
(***************************************************************************)
EXTENDS MbaSolveRule, FiniteSetTheorems, TLAPS

TableSound == \A k \in Keys : SoundEntry(k, entries[k])

RowsSound == \A k \in Keys : SoundEntry(k, rows[k])

(* The main thread has a candidate wherever it needs one, and the rewrite  *)
(* it carries towards an installation has passed the gate, also while a    *)
(* flush comes in between.                                                 *)
Visiting == MainAt \ {"idle", "stop", "close", "closed", "flush", "write"}

Bound(at) ==
    /\ at \in Visiting => key \in Keys
    /\ at \in {"prove", "record", "escalate"} => found \in Rewrites
    /\ at \in {"record", "install"} /\ requireProof => <<key, found>> \in Sound

CarriedSound ==
    /\ Bound(pc)
    /\ pc \in {"flush", "write"} => after \notin {"flush", "write"} /\ Bound(after)

IInv == TypeOK /\ TableSound /\ DurableSound /\ RowsSound /\ CarriedSound

-----------------------------------------------------------------------------
LEMMA EntryFacts ==
    /\ Absent \in Entry /\ NoRewrite \in Entry /\ Pending \in Entry
    /\ \A r \in Rewrites, v \in BOOLEAN : Proved(r, v) \in Entry
    /\ \A k : SoundEntry(k, Absent) /\ SoundEntry(k, NoRewrite) /\ SoundEntry(k, Pending)
    /\ \A k, r : SoundEntry(k, Proved(r, FALSE))
    /\ \A k, r : <<k, r>> \in Sound => SoundEntry(k, Proved(r, TRUE))
BY DEF Absent, NoRewrite, Pending, Proved, Entry, Outcomes, SoundEntry

(* Storing a sound entry, and handing what it pushes out to the evict      *)
(* sink, keeps the table and the disk typed and sound, on any thread.      *)
LEMMA SettleKeeps ==
    ASSUME TypeOK, TableSound, DurableSound,
           NEW t \in Threads, NEW k \in Keys, NEW e \in Entry, SoundEntry(k, e),
           Settle(t, k, e)
    PROVE  /\ EntriesType' /\ TableSound'
           /\ disk' \in [Keys -> Entry] /\ DurableSound'
           /\ opener' \in Threads \cup {"none"}
<1>1. PICK gone : Store(k, e, gone) /\ Sink(t, gone)
  BY DEF Settle
<1>2. EntriesType' /\ TableSound'
  BY <1>1, EntryFacts DEF TypeOK, EntriesType, Store, TableSound
<1>3. \/ disk' = disk
      \/ \E kept : disk' = [j \in Keys |-> IF j \in kept THEN entries[j] ELSE disk[j]]
  BY <1>1 DEF Sink
<1>4. disk' \in [Keys -> Entry] /\ DurableSound'
  BY <1>3 DEF TypeOK, EntriesType, TableSound, DurableSound
<1>5. opener' \in Threads \cup {"none"}
  BY <1>1 DEF Sink, Connect, TypeOK
<1> QED BY <1>2, <1>4, <1>5

(* So does taking a key out of the table.                                  *)
LEMMA ClearKeeps ==
    ASSUME TypeOK, TableSound, NEW k \in Keys, ClearPending(k) \/ ClearUnverified(k)
    PROVE  EntriesType' /\ TableSound'
<1>1. \/ UNCHANGED entries
      \/ entries' = [entries EXCEPT ![k] = Absent]
  BY DEF ClearPending, ClearUnverified, Drop
<1>2. CASE UNCHANGED entries
  BY <1>2 DEF TypeOK, EntriesType, TableSound
<1>3. CASE entries' = [entries EXCEPT ![k] = Absent]
  BY <1>3, EntryFacts DEF TypeOK, EntriesType, TableSound
<1> QED BY <1>1, <1>2, <1>3

LEMMA QueueTypes ==
    ASSUME NEW S, NEW q \in Seq(S)
    PROVE  /\ <<>> \in Seq(S)
           /\ \A x \in S : Append(q, x) \in Seq(S) /\ <<x>> \in Seq(S)
           /\ q # <<>> => Head(q) \in S /\ Tail(q) \in Seq(S)
OBVIOUS

LEMMA InitIInv == Init => IInv
<1> SUFFICES ASSUME Init PROVE IInv
  OBVIOUS
<1>1. disk \in [Keys -> Entry] /\ DurableSound
  BY EntryFacts DEF Init, DurableSound
<1>2. /\ EntriesType /\ TableSound
      /\ rows \in [Keys -> Entry] /\ RowsSound
  BY EntryFacts DEF Init, EntriesType, EmptyTable, TableSound, RowsSound
<1>3. escalation \in Seq(Jobs) /\ deferral \in Seq(Keys)
  BY QueueTypes DEF Init
<1>4. requireProof \in BOOLEAN /\ unflushed \in 0..(FlushEvery - 1)
  BY ProofModesAssumption, BoundsAssumption DEF Init
<1>5. TypeOK
  BY <1>1, <1>2, <1>3, <1>4 DEF Init, TypeOK, MainAt, Threads
<1>6. CarriedSound
  BY DEF Init, CarriedSound, Bound, Visiting
<1> QED BY <1>1, <1>2, <1>5, <1>6 DEF IInv

(* What the table and the disk owe the invariant.                          *)
MemorySound ==
    /\ EntriesType /\ TableSound
    /\ disk \in [Keys -> Entry] /\ DurableSound
    /\ opener \in Threads \cup {"none"}

LEMMA MemoryUnchanged ==
    ASSUME TypeOK, TableSound, DurableSound, UNCHANGED <<entries, disk>>,
           opener' \in Threads \cup {"none"}
    PROVE  MemorySound'
BY DEF MemorySound, TypeOK, EntriesType, TableSound, DurableSound

LEMMA NextIInv == IInv /\ [Next]_vars => IInv'
<1> SUFFICES ASSUME IInv, [Next]_vars PROVE IInv'
  OBVIOUS
<1>i. TypeOK /\ TableSound /\ DurableSound /\ RowsSound /\ CarriedSound
  BY DEF IInv
<1>q. /\ <<>> \in Seq(Jobs) /\ <<>> \in Seq(Keys)
      /\ \A j \in Jobs : Append(escalation, j) \in Seq(Jobs)
      /\ \A k \in Keys : Append(deferral, k) \in Seq(Keys) /\ <<k>> \in Seq(Keys)
      /\ escalation # <<>> => Head(escalation) \in Jobs /\ Tail(escalation) \in Seq(Jobs)
      /\ deferral # <<>> => Head(deferral) \in Keys /\ Tail(deferral) \in Seq(Keys)
  BY <1>i, QueueTypes DEF TypeOK
<1>1. ASSUME NEW mode \in ProofModes, Configure(mode) PROVE IInv'
  <2>1. MemorySound'
    BY <1>i, <1>1, MemoryUnchanged DEF Configure, storeVars, mainVars, TypeOK
  <2>2. TypeOK'
    BY <1>i, <1>1, <2>1, ProofModesAssumption
    DEF Configure, storeVars, mainVars, MemorySound, TypeOK
  <2>3. RowsSound' /\ CarriedSound'
    BY <1>i, <1>1
    DEF Configure, storeVars, mainVars, RowsSound, CarriedSound, Bound,
        Visiting, MainAt
  <2> QED BY <2>1, <2>2, <2>3 DEF IInv, MemorySound
<1>2. ASSUME NEW k \in Keys, Visit(k) PROVE IInv'
  <2>1. MemorySound'
    BY <1>i, <1>2, MemoryUnchanged DEF Visit, storeVars, TypeOK
  <2>2. TypeOK'
    BY <1>i, <1>2, <2>1 DEF Visit, storeVars, MemorySound, TypeOK, MainAt
  <2>3. RowsSound' /\ CarriedSound'
    BY <1>i, <1>2
    DEF Visit, storeVars, RowsSound, CarriedSound, Bound, Visiting, MainAt
  <2> QED BY <2>1, <2>2, <2>3 DEF IInv, MemorySound
<1>3. CASE EnsureStore
  <2>1. MemorySound'
    <3>1. /\ UNCHANGED disk
          /\ opener' \in Threads \cup {"none"}
          /\ \/ UNCHANGED entries
             \/ \E kept \in Loadable : entries' = [k \in Keys |->
                    IF ~Known(k) /\ k \in kept THEN disk[k] ELSE entries[k]]
      BY <1>i, <1>3 DEF EnsureStore, TypeOK, Threads
    <3>2. EntriesType' /\ TableSound'
      BY <1>i, <3>1 DEF TypeOK, EntriesType, TableSound, DurableSound
    <3> QED BY <1>i, <3>1, <3>2 DEF MemorySound, TypeOK, DurableSound
  <2>2. TypeOK'
    BY <1>i, <1>3, <2>1 DEF EnsureStore, MemorySound, TypeOK, MainAt
  <2>3. RowsSound' /\ CarriedSound'
    BY <1>i, <1>3
    DEF EnsureStore, RowsSound, CarriedSound, Bound, Visiting, MainAt
  <2> QED BY <2>1, <2>2, <2>3 DEF IInv, MemorySound
<1>4. CASE CollectSettled
  <2>1. MemorySound'
    BY <1>i, <1>4, MemoryUnchanged DEF CollectSettled, storeVars, TypeOK
  <2>2. TypeOK'
    <3>1. unflushed' \in 0..(FlushEvery - 1)
      BY <1>i, <1>4, BoundsAssumption DEF CollectSettled, TypeOK
    <3>2. settled' \in BOOLEAN /\ pc' \in MainAt /\ after' \in MainAt
      BY <1>i, <1>4 DEF CollectSettled, TypeOK, MainAt
    <3> QED BY <1>i, <1>4, <2>1, <3>1, <3>2
        DEF CollectSettled, storeVars, MemorySound, TypeOK
  <2>3. RowsSound' /\ CarriedSound'
    BY <1>i, <1>4
    DEF CollectSettled, storeVars, RowsSound, CarriedSound, Bound, Visiting,
        MainAt
  <2> QED BY <2>1, <2>2, <2>3 DEF IInv, MemorySound
<1>5. CASE Lookup
  <2>1. MemorySound'
    BY <1>i, <1>5, MemoryUnchanged DEF Lookup, storeVars, TypeOK
  <2>2. TypeOK'
    <3>1. entries[key] \in Entry
      BY <1>i, <1>5
      DEF Lookup, CarriedSound, Bound, Visiting, MainAt, TypeOK, EntriesType
    <3> QED BY <1>i, <1>5, <2>1, <3>1
        DEF Lookup, storeVars, MemorySound, TypeOK, MainAt, Entry
  <2>3. RowsSound' /\ CarriedSound'
    BY <1>i, <1>5
    DEF Lookup, storeVars, RowsSound, CarriedSound, Bound, Visiting, MainAt,
        Usable, TableSound, SoundEntry, TypeOK, EntriesType, Entry
  <2> QED BY <2>1, <2>2, <2>3 DEF IInv, MemorySound
<1>6. CASE DropUnverified
  <2>1. MemorySound'
    <3>1. EntriesType' /\ TableSound'
      BY <1>i, <1>6, ClearKeeps DEF DropUnverified, CarriedSound, Bound, Visiting, MainAt
    <3> QED BY <1>i, <1>6, <3>1 DEF DropUnverified, storeVars, MemorySound, TypeOK, DurableSound
  <2>2. TypeOK'
    BY <1>i, <1>6, <2>1
    DEF DropUnverified, storeVars, MemorySound, TypeOK, MainAt
  <2>3. RowsSound' /\ CarriedSound'
    BY <1>i, <1>6
    DEF DropUnverified, storeVars, RowsSound, CarriedSound, Bound, Visiting,
        MainAt
  <2> QED BY <2>1, <2>2, <2>3 DEF IInv, MemorySound
<1>7. ASSUME NEW r \in Rewrites, SolveFinds(r) PROVE IInv'
  <2>1. MemorySound'
    BY <1>i, <1>7, MemoryUnchanged DEF SolveFinds, storeVars, TypeOK
  <2>2. TypeOK'
    BY <1>i, <1>7, <2>1 DEF SolveFinds, storeVars, MemorySound, TypeOK, MainAt
  <2>3. RowsSound' /\ CarriedSound'
    BY <1>i, <1>7
    DEF SolveFinds, storeVars, RowsSound, CarriedSound, Bound, Visiting, MainAt
  <2> QED BY <2>1, <2>2, <2>3 DEF IInv, MemorySound
<1>8. CASE SolveEnds
  <2>1. MemorySound'
    BY <1>i, <1>8, MemoryUnchanged DEF SolveEnds, storeVars, TypeOK
  <2>2. TypeOK'
    BY <1>i, <1>8, <2>1 DEF SolveEnds, storeVars, MemorySound, TypeOK, MainAt
  <2>3. RowsSound' /\ CarriedSound'
    BY <1>i, <1>8
    DEF SolveEnds, storeVars, RowsSound, CarriedSound, Bound, Visiting, MainAt
  <2> QED BY <2>1, <2>2, <2>3 DEF IInv, MemorySound
<1>9. CASE Defer
  <2>1. MemorySound'
    <3>1. key \in Keys
      BY <1>i, <1>9 DEF Defer, CarriedSound, Bound, Visiting, MainAt
    <3>2. CASE UNCHANGED <<entries, disk, opener>>
      BY <1>i, <3>2, MemoryUnchanged DEF TypeOK
    <3>3. CASE Settle("main", key, Pending)
      BY <1>i, <3>1, <3>3, SettleKeeps, EntryFacts DEF MemorySound, Threads
    <3> QED BY <1>9, <3>2, <3>3 DEF Defer
  <2>2. TypeOK'
    <3>1. deferral' \in Seq(Keys)
      <4>1. key \in Keys
        BY <1>i, <1>9 DEF Defer, CarriedSound, Bound, Visiting, MainAt
      <4> QED BY <1>i, <1>q, <1>9, <4>1 DEF Defer, TypeOK
    <3> QED BY <1>i, <1>9, <2>1, <3>1 DEF Defer, MemorySound, TypeOK, MainAt
  <2>3. RowsSound' /\ CarriedSound'
    BY <1>i, <1>9 DEF Defer, RowsSound, CarriedSound, Bound, Visiting, MainAt
  <2> QED BY <2>1, <2>2, <2>3 DEF IInv, MemorySound
<1>10. CASE Prove
  <2>1. MemorySound'
    BY <1>i, <1>10, MemoryUnchanged DEF Prove, storeVars, TypeOK
  <2>2. TypeOK'
    BY <1>i, <1>10, <2>1 DEF Prove, storeVars, MemorySound, TypeOK, MainAt
  <2>3. RowsSound' /\ CarriedSound'
    BY <1>i, <1>10
    DEF Prove, storeVars, RowsSound, CarriedSound, Bound, Visiting, MainAt
  <2> QED BY <2>1, <2>2, <2>3 DEF IInv, MemorySound
<1>11. CASE Escalate
  <2>1. MemorySound'
    <3>1. key \in Keys
      BY <1>i, <1>11 DEF Escalate, CarriedSound, Bound, Visiting, MainAt
    <3>2. CASE UNCHANGED <<entries, disk, opener>>
      BY <1>i, <3>2, MemoryUnchanged DEF TypeOK
    <3>3. CASE Settle("main", key, Pending)
      BY <1>i, <3>1, <3>3, SettleKeeps, EntryFacts DEF MemorySound, Threads
    <3> QED BY <1>11, <3>2, <3>3 DEF Escalate
  <2>2. TypeOK'
    <3>1. escalation' \in Seq(Jobs)
      <4>1. [key |-> key, rewrite |-> found] \in Jobs
        BY <1>i, <1>11 DEF Escalate, CarriedSound, Bound, Visiting, MainAt, Jobs
      <4> QED BY <1>i, <1>q, <1>11, <4>1 DEF Escalate, TypeOK
    <3> QED BY <1>i, <1>11, <2>1, <3>1 DEF Escalate, MemorySound, TypeOK, MainAt
  <2>3. RowsSound' /\ CarriedSound'
    BY <1>i, <1>11
    DEF Escalate, RowsSound, CarriedSound, Bound, Visiting, MainAt
  <2> QED BY <2>1, <2>2, <2>3 DEF IInv, MemorySound
<1>12. CASE RecordNegative
  <2>1. MemorySound'
    <3>1. key \in Keys
      BY <1>i, <1>12 DEF RecordNegative, CarriedSound, Bound, Visiting, MainAt
    <3>2. Settle("main", key, NoRewrite)
      BY <1>12 DEF RecordNegative
    <3> QED BY <1>i, <3>1, <3>2, SettleKeeps, EntryFacts DEF MemorySound, Threads
  <2>2. TypeOK'
    BY <1>i, <1>12, <2>1, BoundsAssumption
    DEF RecordNegative, MaybeFlush, MemorySound, TypeOK, MainAt
  <2>3. RowsSound' /\ CarriedSound'
    BY <1>i, <1>12
    DEF RecordNegative, MaybeFlush, RowsSound, CarriedSound, Bound, Visiting,
        MainAt
  <2> QED BY <2>1, <2>2, <2>3 DEF IInv, MemorySound
<1>13. CASE RecordFound
  <2>1. MemorySound'
    <3>1. /\ key \in Keys /\ found \in Rewrites
          /\ requireProof => <<key, found>> \in Sound
      BY <1>i, <1>13 DEF RecordFound, CarriedSound, Bound, Visiting, MainAt
    <3>2. Settle("main", key, Proved(found, requireProof))
      BY <1>13 DEF RecordFound
    <3>3. requireProof \in BOOLEAN
      BY <1>i DEF TypeOK
    <3>4. /\ Proved(found, requireProof) \in Entry
          /\ SoundEntry(key, Proved(found, requireProof))
      BY <3>1, <3>3, EntryFacts
    <3> QED BY <1>i, <3>1, <3>2, <3>4, SettleKeeps DEF MemorySound, Threads
  <2>2. TypeOK'
    BY <1>i, <1>13, <2>1, BoundsAssumption
    DEF RecordFound, MaybeFlush, MemorySound, TypeOK, MainAt
  <2>3. RowsSound' /\ CarriedSound'
    BY <1>i, <1>13
    DEF RecordFound, MaybeFlush, RowsSound, CarriedSound, Bound, Visiting,
        MainAt
  <2> QED BY <2>1, <2>2, <2>3 DEF IInv, MemorySound
<1>14. CASE Install
  <2>1. MemorySound'
    BY <1>i, <1>14, MemoryUnchanged DEF Install, storeVars, TypeOK
  <2>2. TypeOK'
    BY <1>i, <1>14, <2>1 DEF Install, storeVars, MemorySound, TypeOK, MainAt
  <2>3. RowsSound' /\ CarriedSound'
    BY <1>i, <1>14
    DEF Install, storeVars, RowsSound, CarriedSound, Bound, Visiting, MainAt
  <2> QED BY <2>1, <2>2, <2>3 DEF IInv, MemorySound
<1>15. CASE FlushRead
  <2>1. MemorySound'
    BY <1>i, <1>15, MemoryUnchanged DEF FlushRead, TypeOK, Connect, Threads
  <2>2. TypeOK'
    BY <1>i, <1>15, <2>1, EntryFacts
    DEF FlushRead, MemorySound, TypeOK, MainAt, EmptyTable, EntriesType
  <2>3. RowsSound' /\ CarriedSound'
    BY <1>i, <1>15, EntryFacts
    DEF FlushRead, RowsSound, CarriedSound, Bound, Visiting, MainAt, TableSound
  <2> QED BY <2>1, <2>2, <2>3 DEF IInv, MemorySound
<1>16. CASE FlushWrite
  <2>1. MemorySound'
    <3>1. /\ UNCHANGED <<entries, opener>>
          /\ \/ UNCHANGED disk
             \/ disk' = [k \in Keys |-> IF rows[k] = Absent THEN disk[k] ELSE rows[k]]
      BY <1>16 DEF FlushWrite
    <3>2. disk' \in [Keys -> Entry] /\ DurableSound'
      BY <1>i, <3>1 DEF TypeOK, DurableSound, RowsSound
    <3> QED BY <1>i, <3>1, <3>2 DEF MemorySound, TypeOK, EntriesType, TableSound
  <2>2. TypeOK'
    BY <1>i, <1>16, <2>1, EntryFacts
    DEF FlushWrite, MemorySound, TypeOK, MainAt, EmptyTable, EntriesType,
        CarriedSound
  <2>3. RowsSound' /\ CarriedSound'
    BY <1>i, <1>16, EntryFacts
    DEF FlushWrite, RowsSound, CarriedSound, Bound, Visiting, MainAt, EmptyTable
  <2> QED BY <2>1, <2>2, <2>3 DEF IInv, MemorySound
<1>17. CASE EscalationEnds
  <2>1. MemorySound'
    <3> DEFINE j == Head(escalation)
    <3>1. j.key \in Keys /\ j.rewrite \in Rewrites
      BY <1>17, <1>q DEF EscalationEnds, Jobs
    <3>2. CASE <<j.key, j.rewrite>> \in Sound
               /\ Settle("escalator", j.key, Proved(j.rewrite, TRUE))
      BY <1>i, <3>1, <3>2, SettleKeeps, EntryFacts DEF MemorySound, Threads
    <3>3. CASE Settle("escalator", j.key, NoRewrite)
      BY <1>i, <3>1, <3>3, SettleKeeps, EntryFacts DEF MemorySound, Threads
    <3>4. CASE ClearPending(j.key) /\ UNCHANGED <<disk, opener>>
      BY <1>i, <3>1, <3>4, ClearKeeps DEF MemorySound, TypeOK, DurableSound
    <3> QED BY <1>17, <3>2, <3>3, <3>4 DEF EscalationEnds
  <2>2. TypeOK'
    BY <1>i, <1>17, <2>1 DEF EscalationEnds, mainVars, MemorySound, TypeOK
  <2>3. RowsSound' /\ CarriedSound'
    BY <1>i, <1>17
    DEF EscalationEnds, mainVars, RowsSound, CarriedSound, Bound, Visiting,
        MainAt
  <2> QED BY <2>1, <2>2, <2>3 DEF IInv, MemorySound
<1>18. CASE DeferralEnds
  <2>1. MemorySound'
    <3> DEFINE k == Head(deferral)
    <3>1. k \in Keys
      BY <1>18, <1>q DEF DeferralEnds
    <3>2. ASSUME NEW r \in Rewrites, <<k, r>> \in Sound,
                 Settle("deferred", k, Proved(r, TRUE))
          PROVE  MemorySound'
      BY <1>i, <3>1, <3>2, SettleKeeps, EntryFacts DEF MemorySound, Threads
    <3>3. CASE Settle("deferred", k, NoRewrite)
      BY <1>i, <3>1, <3>3, SettleKeeps, EntryFacts DEF MemorySound, Threads
    <3>4. CASE ClearPending(k) /\ UNCHANGED <<disk, opener>>
      BY <1>i, <3>1, <3>4, ClearKeeps DEF MemorySound, TypeOK, DurableSound
    <3> QED BY <1>18, <3>2, <3>3, <3>4 DEF DeferralEnds
  <2>2. TypeOK'
    <3>1. deferral' \in Seq(Keys) /\ uncounted' \in BOOLEAN
      BY <1>i, <1>q, <1>18 DEF DeferralEnds, TypeOK
    <3> QED BY <1>i, <1>18, <2>1, <3>1 DEF DeferralEnds, mainVars, MemorySound, TypeOK
  <2>3. RowsSound' /\ CarriedSound'
    BY <1>i, <1>18
    DEF DeferralEnds, mainVars, RowsSound, CarriedSound, Bound, Visiting, MainAt
  <2> QED BY <2>1, <2>2, <2>3 DEF IInv, MemorySound
<1>19. CASE StopDeferred
  <2>1. MemorySound'
    <3>1. EntriesType' /\ TableSound'
      BY <1>i, <1>19, EntryFacts DEF StopDeferred, TypeOK, EntriesType, TableSound
    <3> QED BY <1>i, <1>19, <3>1 DEF StopDeferred, storeVars, MemorySound, TypeOK, DurableSound
  <2>2. TypeOK'
    <3>1. PICK left \in {<<>>} \cup (IF StopTimesOut /\ ~uncounted /\ deferral # <<>>
                                    THEN {<<Head(deferral)>>} ELSE {}) :
            deferral' = left
      BY <1>19 DEF StopDeferred
    <3>2. deferral' \in Seq(Keys)
      <4>1. CASE StopTimesOut /\ ~uncounted /\ deferral # <<>>
        BY <1>q, <3>1, <4>1
      <4>2. CASE ~(StopTimesOut /\ ~uncounted /\ deferral # <<>>)
        BY <1>q, <3>1, <4>2
      <4> QED BY <4>1, <4>2
    <3> QED BY <1>i, <1>19, <2>1, <3>2
        DEF StopDeferred, storeVars, MemorySound, TypeOK, MainAt
  <2>3. RowsSound' /\ CarriedSound'
    BY <1>i, <1>19
    DEF StopDeferred, storeVars, RowsSound, CarriedSound, Bound, Visiting,
        MainAt
  <2> QED BY <2>1, <2>2, <2>3 DEF IInv, MemorySound
<1>20. CASE StopEscalator
  <2>1. MemorySound'
    BY <1>i, <1>20, MemoryUnchanged DEF StopEscalator, storeVars, TypeOK
  <2>2. TypeOK'
    BY <1>i, <1>20, <2>1, BoundsAssumption
    DEF StopEscalator, storeVars, MemorySound, TypeOK, MainAt
  <2>3. RowsSound' /\ CarriedSound'
    BY <1>i, <1>20
    DEF StopEscalator, storeVars, RowsSound, CarriedSound, Bound, Visiting,
        MainAt
  <2> QED BY <2>1, <2>2, <2>3 DEF IInv, MemorySound
<1>21. CASE CloseStore
  <2>1. MemorySound'
    BY <1>i, <1>21, MemoryUnchanged DEF CloseStore, TypeOK
  <2>2. TypeOK'
    BY <1>i, <1>21, <2>1 DEF CloseStore, MemorySound, TypeOK, MainAt
  <2>3. RowsSound' /\ CarriedSound'
    BY <1>i, <1>21
    DEF CloseStore, RowsSound, CarriedSound, Bound, Visiting, MainAt
  <2> QED BY <2>1, <2>2, <2>3 DEF IInv, MemorySound
<1>22. CASE Restart
  <2>1. MemorySound'
    BY <1>i, <1>22, EntryFacts
    DEF Restart, MemorySound, TypeOK, EntriesType, EmptyTable, TableSound, DurableSound
  <2>2. TypeOK'
    <3>1. unflushed' \in 0..(FlushEvery - 1)
      BY <1>22, BoundsAssumption DEF Restart
    <3>2. rows' \in [Keys -> Entry]
      BY <1>22, EntryFacts DEF Restart, EmptyTable
    <3> QED BY <1>q, <1>22, <2>1, <3>1, <3>2, ProofModesAssumption
        DEF Restart, MemorySound, TypeOK, MainAt
  <2>3. RowsSound' /\ CarriedSound'
    BY <1>i, <1>22, EntryFacts
    DEF Restart, RowsSound, CarriedSound, Bound, Visiting, MainAt, EmptyTable
  <2> QED BY <2>1, <2>2, <2>3 DEF IInv, MemorySound
<1>23. CASE DeferralCounts
  <2>1. MemorySound'
    BY <1>i, <1>23, MemoryUnchanged DEF DeferralCounts, storeVars, TypeOK
  <2>2. TypeOK'
    BY <1>i, <1>23, <2>1 DEF DeferralCounts, storeVars, mainVars, MemorySound, TypeOK
  <2>3. RowsSound' /\ CarriedSound'
    BY <1>i, <1>23
    DEF DeferralCounts, mainVars, RowsSound, CarriedSound, Bound, Visiting, MainAt
  <2> QED BY <2>1, <2>2, <2>3 DEF IInv, MemorySound
<1>24. CASE UNCHANGED vars
  <2>1. MemorySound'
    BY <1>i, <1>24, MemoryUnchanged DEF vars, storeVars, mainVars, TypeOK
  <2>2. TypeOK'
    BY <1>i, <1>24, <2>1 DEF vars, storeVars, mainVars, MemorySound, TypeOK
  <2>3. RowsSound' /\ CarriedSound'
    BY <1>i, <1>24
    DEF vars, storeVars, mainVars, RowsSound, CarriedSound, Bound, Visiting,
        MainAt
  <2> QED BY <2>1, <2>2, <2>3 DEF IInv, MemorySound
<1> QED
  BY <1>1, <1>2, <1>3, <1>4, <1>5, <1>6, <1>7, <1>8, <1>9, <1>10, <1>11, <1>12, <1>13, <1>14, <1>15, <1>16, <1>17, <1>18, <1>19, <1>20, <1>21, <1>22, <1>23, <1>24
  DEF Next, MainStep, WorkerStep

LEMMA InvariantHolds == Spec => []IInv
BY InitIInv, NextIInv, PTL DEF Spec

-----------------------------------------------------------------------------
(* Types: every variable keeps its type, and in particular the count of    *)
(* unflushed records never reaches _FLUSH_EVERY between two calls.         *)
THEOREM TypeCorrect == Spec => []TypeOK
<1>1. IInv => TypeOK
  BY DEF IInv
<1> QED BY <1>1, InvariantHolds, PTL

(* The proof gate of check_and_replace: a rule that requires a proof never *)
(* installs a rewrite that is not equivalent to its candidate, whether it  *)
(* comes from the inline proof, the table, a worker or an earlier session. *)
THEOREM GateHolds == Spec => []ProofGate
<1>1. IInv => ProofGate
  BY DEF IInv, CarriedSound, Bound, ProofGate
<1> QED BY <1>1, InvariantHolds, PTL

(* The durable proof cache never holds, under the proof_verified flag that *)
(* a load trusts, a rewrite that is not equivalent to its key.             *)
THEOREM DurableCacheSound == Spec => []DurableSound
<1>1. IInv => DurableSound
  BY DEF IInv
<1> QED BY <1>1, InvariantHolds, PTL

-----------------------------------------------------------------------------
(* The durable side.  A rule that could open its cache has loaded what is  *)
(* on disk into an empty table and holds the connection on its own thread, *)
(* from the moment the sink is attached until the store is closed.         *)
StoreInv ==
    /\ store => storeLoaded
    /\ ~storeLoaded =>
          /\ entries = EmptyTable /\ escalation = <<>> /\ deferral = <<>>
          /\ pc \in {"idle", "ensure", "stop", "close", "closed"}
    /\ store /\ pc # "closed" => opener = "main"
    /\ pc \in {"flush", "write"} => store /\ after \in {"lookup", "idle", "install", "close"}

(* What storing under k on a thread changes elsewhere.                     *)
LEMMA SettleFacts ==
    ASSUME TypeOK, NEW t \in Threads, NEW k \in Keys, NEW e, Settle(t, k, e)
    PROVE  /\ entries'[k] = e
           /\ opener # "none" => opener' = opener
           /\ \A j \in Keys \ {k} :
                 /\ entries'[j] = entries[j] \/ entries'[j] = Absent
                 /\ disk'[j] = disk[j] \/ disk'[j] = entries[j]
                 /\ store /\ opener = t /\ Durable(entries[j]) /\ entries'[j] = Absent
                       => disk'[j] = entries[j]
<1>1. PICK gone \in Evictions(k) : Store(k, e, gone) /\ Sink(t, gone)
  BY DEF Settle
<1>2. opener # "none" => opener' = opener
  BY <1>1 DEF Sink, Connect
<1>3. ASSUME NEW j \in Keys \ {k}
      PROVE  /\ entries'[j] = entries[j] \/ entries'[j] = Absent
             /\ disk'[j] = disk[j] \/ disk'[j] = entries[j]
             /\ store /\ opener = t /\ Durable(entries[j]) /\ entries'[j] = Absent
                   => disk'[j] = entries[j]
  <2>1. entries'[j] = IF j \in gone THEN Absent ELSE entries[j]
    BY <1>1, <1>3 DEF Store
  <2>2. disk'[j] = disk[j] \/ disk'[j] = entries[j]
    BY <1>1, <1>3 DEF Sink
  <2>3. ASSUME store, opener = t, Durable(entries[j]), entries'[j] = Absent
        PROVE  disk'[j] = entries[j]
    <3>1. j \in gone
      BY <2>1, <2>3 DEF Durable, Absent
    <3>2. opener' = t
      BY <1>2, <2>3 DEF Threads
    <3> QED BY <1>1, <1>3, <2>3, <3>1, <3>2 DEF Sink
  <2> QED BY <2>1, <2>2, <2>3
<1>4. entries'[k] = e
  BY <1>1 DEF Store
<1> QED BY <1>2, <1>3, <1>4

(* The keys the three threads work on are keys.                            *)
LEMMA KeysInHand ==
    ASSUME IInv
    PROVE  /\ pc \in Visiting => key \in Keys
           /\ escalation # <<>> => Head(escalation).key \in Keys
           /\ deferral # <<>> => Head(deferral) \in Keys
<1>1. escalation # <<>> => Head(escalation) \in Jobs
  BY QueueTypes DEF IInv, TypeOK
<1>2. deferral # <<>> => Head(deferral) \in Keys
  BY QueueTypes DEF IInv, TypeOK
<1> QED BY <1>1, <1>2 DEF Jobs, IInv, CarriedSound, Bound

LEMMA NextStoreInv ==
    ASSUME ~OpenMayFail, IInv, StoreInv, [Next]_vars
    PROVE  StoreInv'
<1> USE DEF IInv, StoreInv
<1>1. ASSUME NEW mode \in ProofModes, Configure(mode) PROVE StoreInv'
  BY <1>1 DEF Configure, storeVars, mainVars, EmptyTable
<1>2. ASSUME NEW k \in Keys, Visit(k) PROVE StoreInv'
  BY <1>2 DEF Visit, storeVars, EmptyTable
<1>3. CASE EnsureStore
  BY <1>3 DEF EnsureStore, EmptyTable
<1>4. CASE CollectSettled
  BY <1>4 DEF CollectSettled, storeVars
<1>5. CASE Lookup
  BY <1>5 DEF Lookup, storeVars
<1>6. CASE DropUnverified
  BY <1>6 DEF DropUnverified, storeVars
<1>7. ASSUME NEW r \in Rewrites, SolveFinds(r) PROVE StoreInv'
  BY <1>7 DEF SolveFinds, storeVars
<1>8. CASE SolveEnds
  BY <1>8 DEF SolveEnds, storeVars
<1>9. CASE Defer
  <2>1. key \in Keys
    BY <1>9, KeysInHand DEF Defer, Visiting, MainAt
  <2>2. opener # "none" => opener' = opener
    BY <1>9, <2>1, SettleFacts DEF Defer, Threads
  <2> QED BY <1>9, <2>2 DEF Defer
<1>10. CASE Prove
  BY <1>10 DEF Prove, storeVars
<1>11. CASE Escalate
  <2>1. key \in Keys
    BY <1>11, KeysInHand DEF Escalate, Visiting, MainAt
  <2>2. opener # "none" => opener' = opener
    BY <1>11, <2>1, SettleFacts DEF Escalate, Threads
  <2> QED BY <1>11, <2>2 DEF Escalate
<1>12. CASE RecordNegative
  <2>1. key \in Keys
    BY <1>12, KeysInHand DEF RecordNegative, Visiting, MainAt
  <2>2. opener # "none" => opener' = opener
    BY <1>12, <2>1, SettleFacts DEF RecordNegative, Threads
  <2> QED BY <1>12, <2>2 DEF RecordNegative, MaybeFlush
<1>13. CASE RecordFound
  <2>1. key \in Keys
    BY <1>13, KeysInHand DEF RecordFound, Visiting, MainAt
  <2>2. opener # "none" => opener' = opener
    BY <1>13, <2>1, SettleFacts DEF RecordFound, Threads
  <2> QED BY <1>13, <2>2 DEF RecordFound, MaybeFlush
<1>14. CASE Install
  BY <1>14 DEF Install, storeVars
<1>15. CASE FlushRead
  BY <1>15 DEF FlushRead, Connect
<1>16. CASE FlushWrite
  BY <1>16 DEF FlushWrite
<1>17. CASE EscalationEnds
  <2>1. Head(escalation).key \in Keys
    BY <1>17, KeysInHand DEF EscalationEnds
  <2>2. opener # "none" => opener' = opener
    BY <1>17, <2>1, SettleFacts DEF EscalationEnds, Threads
  <2> QED BY <1>17, <2>2 DEF EscalationEnds, mainVars
<1>18. CASE DeferralEnds
  <2>1. Head(deferral) \in Keys
    BY <1>18, KeysInHand DEF DeferralEnds
  <2>2. opener # "none" => opener' = opener
    BY <1>18, <2>1, SettleFacts DEF DeferralEnds, Threads
  <2> QED BY <1>18, <2>2 DEF DeferralEnds, mainVars
<1>19. CASE StopDeferred
  <2>1. ~storeLoaded => entries' = EmptyTable /\ deferral' = <<>>
    BY <1>19 DEF StopDeferred, EmptyTable, IsPending, Absent
  <2> QED BY <1>19, <2>1 DEF StopDeferred, storeVars
<1>20. CASE StopEscalator
  BY <1>20 DEF StopEscalator, storeVars, EmptyTable
<1>21. CASE CloseStore
  BY <1>21 DEF CloseStore, EmptyTable
<1>22. CASE Restart
  BY <1>22 DEF Restart, EmptyTable
<1>23. CASE DeferralCounts
  BY <1>23 DEF DeferralCounts, storeVars, mainVars, EmptyTable
<1>24. CASE UNCHANGED vars
  BY <1>24 DEF vars, storeVars, mainVars, EmptyTable
<1> QED
  BY <1>1, <1>2, <1>3, <1>4, <1>5, <1>6, <1>7, <1>8, <1>9, <1>10, <1>11, <1>12, <1>13, <1>14, <1>15, <1>16, <1>17, <1>18, <1>19, <1>20, <1>21, <1>22, <1>23, <1>24
  DEF Next, MainStep, WorkerStep

LEMMA StoreInvHolds ==
    ASSUME ~OpenMayFail
    PROVE  Spec => []StoreInv
<1>1. Init => StoreInv
  BY DEF Init, StoreInv, EmptyTable
<1>2. IInv /\ StoreInv /\ [Next]_vars => StoreInv'
  BY NextStoreInv
<1> QED BY <1>1, <1>2, InvariantHolds, PTL DEF Spec

-----------------------------------------------------------------------------
(* Shutdown.  From the stop of the deferred solver on, nothing settles     *)
(* behind the last flush: its queue is empty, and the escalation prover's  *)
(* before the flush reads the table.                                       *)
RowsCurrent ==
    \A k \in Keys : rows[k] = IF Durable(entries[k]) THEN entries[k] ELSE Absent

LastFlush == pc \in {"flush", "write"} /\ after = "close"

ShutdownInv ==
    /\ LastFlush \/ pc \in {"stop", "close", "closed"} => deferral = <<>>
    /\ LastFlush \/ pc \in {"close", "closed"} => escalation = <<>>
    /\ LastFlush /\ pc = "write" => RowsCurrent
    /\ store /\ pc \in {"close", "closed"} => Unsaved = {}

(* A flush whose rows are what the table still holds leaves nothing out.   *)
LEMMA WriteSaves ==
    ASSUME IInv, store => opener = "main", store, RowsCurrent, FlushWrite
    PROVE  Unsaved' = {}
<1>1. disk' = [k \in Keys |-> IF rows[k] = Absent THEN disk[k] ELSE rows[k]]
  BY DEF FlushWrite
<1>2. UNCHANGED entries
  BY DEF FlushWrite
<1>3. ASSUME NEW k \in Keys, Durable(entries[k]) PROVE disk'[k] = entries[k]
  <2>1. rows[k] = entries[k] /\ entries[k] # Absent
    BY <1>3 DEF RowsCurrent, Durable, Absent
  <2> QED BY <1>1, <2>1
<1> QED BY <1>2, <1>3 DEF Unsaved

LEMMA FlushReads ==
    ASSUME FlushRead
    PROVE  RowsCurrent'
BY DEF FlushRead, RowsCurrent

LEMMA NextShutdownInv ==
    ASSUME ~StopTimesOut, IInv, StoreInv, ShutdownInv, [Next]_vars
    PROVE  ShutdownInv'
<1> USE DEF ShutdownInv, LastFlush
<1>0. ASSUME UNCHANGED <<entries, disk, rows>>
      PROVE  (RowsCurrent => RowsCurrent') /\ (Unsaved = {} => Unsaved' = {})
  BY <1>0 DEF RowsCurrent, Unsaved
<1>1. ASSUME NEW mode \in ProofModes, Configure(mode) PROVE ShutdownInv'
  BY <1>1 DEF Configure, storeVars, mainVars
<1>2. ASSUME NEW k \in Keys, Visit(k) PROVE ShutdownInv'
  BY <1>2 DEF Visit
<1>3. CASE EnsureStore
  BY <1>3 DEF EnsureStore
<1>4. CASE CollectSettled
  BY <1>4 DEF CollectSettled
<1>5. CASE Lookup
  BY <1>5 DEF Lookup
<1>6. CASE DropUnverified
  BY <1>6 DEF DropUnverified
<1>7. ASSUME NEW r \in Rewrites, SolveFinds(r) PROVE ShutdownInv'
  BY <1>7 DEF SolveFinds
<1>8. CASE SolveEnds
  BY <1>8 DEF SolveEnds
<1>9. CASE Defer
  BY <1>9 DEF Defer
<1>10. CASE Prove
  BY <1>10 DEF Prove
<1>11. CASE Escalate
  BY <1>11 DEF Escalate
<1>12. CASE RecordNegative
  BY <1>12 DEF RecordNegative, MaybeFlush
<1>13. CASE RecordFound
  BY <1>13 DEF RecordFound, MaybeFlush
<1>14. CASE Install
  BY <1>14 DEF Install
<1>15. CASE FlushRead
  BY <1>15, FlushReads DEF FlushRead
<1>16. CASE FlushWrite
  <2>1. LastFlush => Unsaved' = {}
    BY <1>16, WriteSaves DEF FlushWrite, StoreInv
  <2>2. pc' \in {"lookup", "idle", "install", "close"}
    BY <1>16 DEF FlushWrite, StoreInv
  <2> QED BY <1>16, <2>1, <2>2 DEF FlushWrite
<1>17. CASE EscalationEnds
  BY <1>17 DEF EscalationEnds, mainVars
<1>18. CASE DeferralEnds
  BY <1>18 DEF DeferralEnds, mainVars
<1>19. CASE StopDeferred
  BY <1>19 DEF StopDeferred
<1>20. CASE StopEscalator
  BY <1>20 DEF StopEscalator, storeVars
<1>21. CASE CloseStore
  BY <1>0, <1>21 DEF CloseStore
<1>22. CASE Restart
  BY <1>22 DEF Restart
<1>23. CASE DeferralCounts
  BY <1>0, <1>23 DEF DeferralCounts, storeVars, mainVars
<1>24. CASE UNCHANGED vars
  BY <1>0, <1>24 DEF vars, storeVars, mainVars
<1> QED
  BY <1>1, <1>2, <1>3, <1>4, <1>5, <1>6, <1>7, <1>8, <1>9, <1>10, <1>11, <1>12, <1>13, <1>14, <1>15, <1>16, <1>17, <1>18, <1>19, <1>20, <1>21, <1>22, <1>23, <1>24
  DEF Next, MainStep, WorkerStep

(* Activation shutdown of a rule whose deferred worker stops in time:      *)
(* whatever the two workers and the main thread have settled, told anybody *)
(* or not, is on disk when the store is closed.                            *)
THEOREM OrderlyShutdownSaves ==
    ASSUME ~OpenMayFail, ~StopTimesOut
    PROVE  Spec => []ShutdownPersists
<1>1. Init => ShutdownInv
  BY DEF Init, ShutdownInv, LastFlush
<1>2. IInv /\ StoreInv /\ ShutdownInv /\ [Next]_vars => ShutdownInv'
  BY NextShutdownInv
<1>3. ShutdownInv => ShutdownPersists
  BY DEF ShutdownInv, ShutdownPersists, Unsaved
<1> QED BY <1>1, <1>2, <1>3, InvariantHolds, StoreInvHolds, PTL DEF Spec

-----------------------------------------------------------------------------
(* The batch.  A rule that is never short of budget hands nothing to the   *)
(* workers, so the table changes under the main thread's hand only.        *)
InlineInv ==
    /\ escalation = <<>> /\ deferral = <<>> /\ ~uncounted
    /\ pc \notin {"defer", "escalate"}

(* What the count says may be lost: all of it is a batch once the record   *)
(* that fills it has set the count back.                                   *)
Losable == IF pc \in {"flush", "write"} THEN FlushEvery ELSE unflushed

BatchInv ==
    /\ InlineInv
    /\ store => IsFiniteSet(Unsaved) /\ Cardinality(Unsaved) <= Losable
    /\ pc = "write" => RowsCurrent

(* One record adds one unsaved key at most, evictions included.            *)
LEMMA RecordAddsOne ==
    ASSUME IInv, key \in Keys, NEW e, NEW t \in Threads, Settle(t, key, e),
           IsFiniteSet(Unsaved)
    PROVE  /\ IsFiniteSet(Unsaved')
           /\ Cardinality(Unsaved') <= Cardinality(Unsaved) + 1
<1>1. Unsaved' \subseteq Unsaved \cup {key}
  <2> SUFFICES ASSUME NEW j \in Keys \ {key}, Durable(entries'[j]), disk'[j] # entries'[j]
               PROVE  j \in Unsaved
    BY DEF Unsaved, Durable
  <2>1. entries'[j] # Absent
    BY DEF Durable, Absent
  <2>2. entries'[j] = entries[j] /\ (disk'[j] = disk[j] \/ disk'[j] = entries[j])
    BY <2>1, SettleFacts DEF IInv
  <2> QED BY <2>2 DEF Unsaved, Durable
<1>2. /\ IsFiniteSet(Unsaved \cup {key})
      /\ Cardinality(Unsaved \cup {key}) \in Nat /\ Cardinality(Unsaved) \in Nat
      /\ Cardinality(Unsaved \cup {key}) <= Cardinality(Unsaved) + 1
  <2>1. IsFiniteSet(Unsaved \cup {key})
    BY FS_AddElement
  <2>2. Cardinality(Unsaved \cup {key}) \in Nat /\ Cardinality(Unsaved) \in Nat
    BY <2>1, FS_CardinalityType
  <2>3. Cardinality(Unsaved \cup {key}) =
            IF key \in Unsaved THEN Cardinality(Unsaved) ELSE Cardinality(Unsaved) + 1
    BY FS_AddElement
  <2> QED BY <2>1, <2>2, <2>3
<1>3. IsFiniteSet(Unsaved') /\ Cardinality(Unsaved') <= Cardinality(Unsaved \cup {key})
  BY <1>1, <1>2, FS_Subset
<1>4. Cardinality(Unsaved') \in Nat
  BY <1>3, FS_CardinalityType
<1> QED BY <1>2, <1>3, <1>4

(* The record is counted before the flush is decided.                      *)
LEMMA RecordCounts ==
    ASSUME IInv, StoreInv, BatchInv, key \in Keys, NEW e, Settle("main", key, e),
           pc \in {"negative", "record"},
           UNCHANGED <<store, uncounted, escalation, deferral>>,
           NEW next \in {"idle", "install"}, MaybeFlush(next)
    PROVE  BatchInv'
<1>1. store => IsFiniteSet(Unsaved') /\ Cardinality(Unsaved') <= Cardinality(Unsaved) + 1
  BY RecordAddsOne DEF BatchInv, Threads
<1>2. ASSUME store
      PROVE  /\ IsFiniteSet(Unsaved')
             /\ Cardinality(Unsaved') <= Losable'
  <2>1. Cardinality(Unsaved) <= unflushed /\ unflushed \in 0..(FlushEvery - 1)
    BY <1>2 DEF BatchInv, Losable, IInv, TypeOK
  <2>2. unflushed + 1 <= Losable' /\ Losable' \in Int
    <3>1. CASE unflushed + 1 >= FlushEvery
      <4>1. pc' = "flush"
        BY <1>2, <3>1 DEF MaybeFlush
      <4> QED BY <2>1, <4>1, BoundsAssumption DEF Losable
    <3>2. CASE ~(unflushed + 1 >= FlushEvery)
      <4>1. pc' = next /\ unflushed' = unflushed + 1
        BY <1>2, <3>2 DEF MaybeFlush
      <4> QED BY <2>1, <4>1 DEF Losable
    <3> QED BY <3>1, <3>2
  <2>3. Cardinality(Unsaved) \in Nat /\ Cardinality(Unsaved') \in Nat
    BY <1>1, <1>2, FS_CardinalityType DEF BatchInv
  <2> QED BY <1>1, <1>2, <2>1, <2>2, <2>3
<1>3. InlineInv' /\ pc' # "write"
  BY DEF BatchInv, InlineInv, MaybeFlush
<1> QED BY <1>2, <1>3 DEF BatchInv

(* A step that leaves the table, the disk and the count alone.             *)
LEMMA BatchUnchanged ==
    ASSUME BatchInv,
           UNCHANGED <<entries, disk, store, unflushed, uncounted, escalation, deferral>>,
           pc \notin {"flush", "write"}, pc' \notin {"flush", "write", "defer", "escalate"}
    PROVE  BatchInv'
BY DEF BatchInv, InlineInv, Losable, Unsaved

(* So does a step that takes out of the table what was never durable.      *)
LEMMA BatchDrops ==
    ASSUME BatchInv, UNCHANGED <<disk, store, unflushed, uncounted, escalation, deferral>>,
           pc \notin {"flush", "write"}, pc' \notin {"flush", "write", "defer", "escalate"},
           TypeOK, \A k \in Keys : entries'[k] = entries[k] \/ entries'[k] = Absent
    PROVE  BatchInv'
<1>1. Unsaved' \subseteq Unsaved
  BY DEF Unsaved, Durable, Absent
<1>2. ASSUME store
      PROVE  /\ IsFiniteSet(Unsaved')
             /\ Cardinality(Unsaved') <= unflushed
  <2>1. IsFiniteSet(Unsaved) /\ Cardinality(Unsaved) <= unflushed
    BY <1>2 DEF BatchInv, Losable
  <2>2. IsFiniteSet(Unsaved') /\ Cardinality(Unsaved') <= Cardinality(Unsaved)
    BY <1>1, <2>1, FS_Subset
  <2>3. /\ Cardinality(Unsaved) \in Nat /\ Cardinality(Unsaved') \in Nat
        /\ unflushed \in Int
    BY <2>1, <2>2, FS_CardinalityType DEF TypeOK
  <2> QED BY <2>1, <2>2, <2>3
<1> QED BY <1>2 DEF BatchInv, InlineInv, Losable

(* A flush may begin at any count: no count exceeds a batch.               *)
LEMMA FlushBegins ==
    ASSUME BatchInv, TypeOK, UNCHANGED <<entries, disk, store, uncounted, escalation, deferral>>,
           pc \notin {"flush", "write"}, pc' = "flush"
    PROVE  BatchInv'
<1>1. Unsaved' = Unsaved
  BY DEF Unsaved
<1>2. ASSUME store PROVE Cardinality(Unsaved) <= FlushEvery
  <2>1. IsFiniteSet(Unsaved) /\ Cardinality(Unsaved) <= unflushed
    BY <1>2 DEF BatchInv, Losable
  <2>2. Cardinality(Unsaved) \in Nat
    BY <2>1, FS_CardinalityType
  <2> QED BY <2>1, <2>2, BoundsAssumption DEF TypeOK
<1> QED BY <1>1, <1>2 DEF BatchInv, InlineInv, Losable

(* Nothing unsaved is within any count.                                    *)
LEMMA NothingUnsaved ==
    ASSUME Unsaved' = {}, TypeOK'
    PROVE  IsFiniteSet(Unsaved') /\ Cardinality(Unsaved') <= Losable'
<1>1. Cardinality(Unsaved') = 0 /\ IsFiniteSet(Unsaved')
  BY FS_EmptySet
<1> QED BY <1>1, BoundsAssumption DEF TypeOK, Losable

LEMMA NextBatchInv ==
    ASSUME ~Starving, IInv, StoreInv, BatchInv, [Next]_vars
    PROVE  BatchInv'
<1>i. InlineInv /\ TypeOK /\ TypeOK'
  BY NextIInv DEF BatchInv, IInv
<1>1. ASSUME NEW mode \in ProofModes, Configure(mode) PROVE BatchInv'
  BY <1>1, BatchUnchanged DEF Configure, storeVars, mainVars
<1>2. ASSUME NEW k \in Keys, Visit(k) PROVE BatchInv'
  BY <1>2, BatchUnchanged DEF Visit, storeVars
<1>3. CASE EnsureStore
  <2>1. CASE UNCHANGED <<entries, store>>
    BY <1>3, <2>1, BatchUnchanged DEF EnsureStore
  <2>2. CASE ~UNCHANGED <<entries, store>> /\ store'
    <3>1. CASE entries = EmptyTable
      <4>1. \A k \in Keys : entries'[k] = disk'[k] \/ entries'[k] = Absent
        BY <1>3, <3>1 DEF EnsureStore, EmptyTable, Known
      <4>2. Unsaved' = {}
        BY <4>1 DEF Unsaved, Durable, Absent
      <4> QED BY <1>3, <1>i, <4>2, NothingUnsaved DEF EnsureStore, BatchInv, InlineInv
    <3>2. CASE entries # EmptyTable
      BY <1>3, <2>2, <3>2 DEF EnsureStore, StoreInv
    <3> QED BY <3>1, <3>2
  <2>3. CASE ~store'
    BY <1>3, <1>i, <2>3 DEF EnsureStore, BatchInv, InlineInv
  <2> QED BY <2>1, <2>2, <2>3
<1>4. CASE CollectSettled
  <2>1. CASE settled /\ store
    BY <1>4, <1>i, <2>1, FlushBegins DEF CollectSettled, storeVars
  <2>2. CASE ~(settled /\ store)
    BY <1>4, <2>2, BatchUnchanged DEF CollectSettled, storeVars
  <2> QED BY <2>1, <2>2
<1>5. CASE Lookup
  BY <1>5, BatchUnchanged DEF Lookup, storeVars
<1>6. CASE DropUnverified
  <2>1. \A k \in Keys : entries'[k] = entries[k] \/ entries'[k] = Absent
    BY <1>6, <1>i DEF DropUnverified, ClearUnverified, Drop, TypeOK, EntriesType
  <2> QED BY <1>6, <1>i, <2>1, BatchDrops DEF DropUnverified, storeVars
<1>7. ASSUME NEW r \in Rewrites, SolveFinds(r) PROVE BatchInv'
  BY <1>7, BatchUnchanged DEF SolveFinds, storeVars
<1>8. CASE SolveEnds
  BY <1>8, BatchUnchanged DEF SolveEnds, storeVars
<1>9. CASE Defer
  BY <1>9, <1>i DEF Defer, InlineInv
<1>10. CASE Prove
  BY <1>10, BatchUnchanged DEF Prove, storeVars
<1>11. CASE Escalate
  BY <1>11, <1>i DEF Escalate, InlineInv
<1>12. CASE RecordNegative
  <2>1. key \in Keys
    BY <1>12, KeysInHand DEF RecordNegative, Visiting, MainAt
  <2> QED BY <1>12, <2>1, RecordCounts DEF RecordNegative
<1>13. CASE RecordFound
  <2>1. key \in Keys
    BY <1>13, KeysInHand DEF RecordFound, Visiting, MainAt
  <2> QED BY <1>13, <2>1, RecordCounts DEF RecordFound
<1>14. CASE Install
  BY <1>14, BatchUnchanged DEF Install, storeVars
<1>15. CASE FlushRead
  BY <1>15, <1>i, FlushReads DEF FlushRead, BatchInv, InlineInv, Losable, Unsaved
<1>16. CASE FlushWrite
  <2>1. Unsaved' = {}
    BY <1>16, WriteSaves DEF FlushWrite, StoreInv, BatchInv
  <2>2. pc' \in {"lookup", "idle", "install", "close"}
    BY <1>16 DEF FlushWrite, StoreInv
  <2> QED BY <1>16, <1>i, <2>1, <2>2, NothingUnsaved DEF FlushWrite, BatchInv, InlineInv
<1>17. CASE EscalationEnds
  BY <1>17, <1>i DEF EscalationEnds, InlineInv
<1>18. CASE DeferralEnds
  BY <1>18, <1>i DEF DeferralEnds, InlineInv
<1>19. CASE StopDeferred
  <2>1. \A k \in Keys : entries'[k] = entries[k] \/ entries'[k] = Absent
    BY <1>19 DEF StopDeferred
  <2>2. deferral' = deferral
    BY <1>19, <1>i DEF StopDeferred, InlineInv
  <2> QED BY <1>19, <1>i, <2>1, <2>2, BatchDrops DEF StopDeferred, storeVars
<1>20. CASE StopEscalator
  <2>1. escalation' = escalation
    BY <1>20, <1>i DEF StopEscalator, InlineInv
  <2>2. CASE store
    BY <1>20, <1>i, <2>1, <2>2, FlushBegins DEF StopEscalator, storeVars
  <2>3. CASE ~store
    BY <1>20, <1>i, <2>1, <2>3 DEF StopEscalator, storeVars, BatchInv, InlineInv
  <2> QED BY <2>2, <2>3
<1>21. CASE CloseStore
  BY <1>21, BatchUnchanged DEF CloseStore
<1>22. CASE Restart
  BY <1>22 DEF Restart, BatchInv, InlineInv
<1>23. CASE DeferralCounts
  BY <1>23, <1>i DEF DeferralCounts, InlineInv
<1>24. CASE UNCHANGED vars
  BY <1>24 DEF vars, storeVars, mainVars, BatchInv, InlineInv, Losable, Unsaved, RowsCurrent
<1> QED
  BY <1>1, <1>2, <1>3, <1>4, <1>5, <1>6, <1>7, <1>8, <1>9, <1>10, <1>11, <1>12, <1>13, <1>14, <1>15, <1>16, <1>17, <1>18, <1>19, <1>20, <1>21, <1>22, <1>23, <1>24
  DEF Next, MainStep, WorkerStep

LEMMA BatchInvHolds ==
    ASSUME ~Starving, ~OpenMayFail
    PROVE  Spec => []BatchInv
<1>1. Init => BatchInv
  BY DEF Init, BatchInv, InlineInv
<1>2. IInv /\ StoreInv /\ BatchInv /\ [Next]_vars => BatchInv'
  BY NextBatchInv
<1> QED BY <1>1, <1>2, InvariantHolds, StoreInvHolds, PTL DEF Spec

(* A crash of a rule that is never short of budget loses at most           *)
(* _FLUSH_EVERY results, whatever the table evicted: what                  *)
(* _record_and_maybe_flush has counted since the last flush, which is less *)
(* by TypeCorrect, and from the record that fills a batch until its commit *)
(* the whole batch.                                                        *)
THEOREM CrashLosesOneBatch ==
    ASSUME ~Starving, ~OpenMayFail
    PROVE  Spec => []CrashLosesABatch
<1>1. BatchInv => CrashLosesABatch
  BY DEF BatchInv, Losable, CrashLosesABatch
<1> QED BY <1>1, BatchInvHolds, PTL

-----------------------------------------------------------------------------
(* Flush before evict.  Of a step of the main thread: a durable entry it   *)
(* pushes out of the table of a rule with a store is on disk afterwards.   *)
EvictionsSaved ==
    \A k \in Keys :
       store' /\ Durable(entries[k]) /\ entries'[k] = Absent => disk'[k] = entries[k]

LEMMA MainSettleSaves ==
    ASSUME IInv, store => opener = "main", UNCHANGED store,
           NEW k \in Keys, NEW e, e # Absent, Settle("main", k, e)
    PROVE  EvictionsSaved
<1> SUFFICES ASSUME NEW j \in Keys, store, Durable(entries[j]), entries'[j] = Absent
             PROVE  disk'[j] = entries[j]
  BY DEF EvictionsSaved
<1>1. j # k
  BY SettleFacts DEF IInv, Threads
<1> QED BY <1>1, SettleFacts DEF IInv, Threads

LEMMA MainEvictionSaves ==
    ASSUME IInv, StoreInv, Next, ~WorkerStep
    PROVE  EvictionsSaved
<1>a. Pending # Absent /\ NoRewrite # Absent /\ \A r, v : Proved(r, v) # Absent
  BY DEF Pending, NoRewrite, Proved, Absent
<1>u. ASSUME UNCHANGED entries PROVE EvictionsSaved
  BY <1>u DEF EvictionsSaved, Durable, Absent
<1>k. pc \in Visiting => key \in Keys
  BY KeysInHand
<1>1. ASSUME NEW mode \in ProofModes, Configure(mode) PROVE EvictionsSaved
  BY <1>1, <1>u DEF Configure
<1>2. ASSUME NEW k \in Keys, Visit(k) PROVE EvictionsSaved
  BY <1>2, <1>u DEF Visit
<1>3. CASE EnsureStore
  <2>1. \/ UNCHANGED entries
        \/ \E kept : entries' = [k \in Keys |->
              IF ~Known(k) /\ k \in kept THEN disk[k] ELSE entries[k]]
    BY <1>3 DEF EnsureStore
  <2>2. \A k \in Keys : Known(k) => entries'[k] = entries[k]
    BY <2>1
  <2> QED BY <2>2 DEF EvictionsSaved, Known, Durable, Absent
<1>4. CASE CollectSettled
  BY <1>4, <1>u DEF CollectSettled
<1>5. CASE Lookup
  BY <1>5, <1>u DEF Lookup
<1>6. CASE DropUnverified
  <2>1. key \in Keys
    BY <1>6, <1>k DEF DropUnverified, Visiting, MainAt
  <2>2. CASE IsProved(key) /\ ~entries[key].proof_verified
    <3>1. \A j \in Keys \ {key} : entries'[j] = entries[j]
      BY <1>6, <2>2 DEF DropUnverified, ClearUnverified, Drop, IInv, TypeOK, EntriesType
    <3>2. ~Durable(entries[key])
      BY <2>2 DEF Durable, IsProved
    <3> QED BY <3>1, <3>2 DEF EvictionsSaved, Durable, Absent
  <2>3. CASE ~(IsProved(key) /\ ~entries[key].proof_verified)
    BY <1>6, <1>u, <2>3 DEF DropUnverified, ClearUnverified
  <2> QED BY <2>2, <2>3
<1>7. ASSUME NEW r \in Rewrites, SolveFinds(r) PROVE EvictionsSaved
  BY <1>7, <1>u DEF SolveFinds
<1>8. CASE SolveEnds
  BY <1>8, <1>u DEF SolveEnds
<1>9. CASE Defer
  <2>1. key \in Keys /\ (store => opener = "main") /\ UNCHANGED store
    BY <1>9, <1>k DEF Defer, Visiting, MainAt, StoreInv
  <2> QED BY <1>9, <1>a, <1>u, <2>1, MainSettleSaves DEF Defer
<1>10. CASE Prove
  BY <1>10, <1>u DEF Prove
<1>11. CASE Escalate
  <2>1. key \in Keys /\ (store => opener = "main") /\ UNCHANGED store
    BY <1>11, <1>k DEF Escalate, Visiting, MainAt, StoreInv
  <2> QED BY <1>11, <1>a, <1>u, <2>1, MainSettleSaves DEF Escalate
<1>12. CASE RecordNegative
  <2>1. key \in Keys /\ (store => opener = "main") /\ UNCHANGED store
    BY <1>12, <1>k DEF RecordNegative, Visiting, MainAt, StoreInv
  <2> QED BY <1>12, <1>a, <2>1, MainSettleSaves DEF RecordNegative
<1>13. CASE RecordFound
  <2>1. key \in Keys /\ (store => opener = "main") /\ UNCHANGED store
    BY <1>13, <1>k DEF RecordFound, Visiting, MainAt, StoreInv
  <2> QED BY <1>13, <1>a, <2>1, MainSettleSaves DEF RecordFound
<1>14. CASE Install
  BY <1>14, <1>u DEF Install
<1>15. CASE FlushRead
  BY <1>15, <1>u DEF FlushRead
<1>16. CASE FlushWrite
  BY <1>16, <1>u DEF FlushWrite
<1>17. CASE StopDeferred
  BY <1>17 DEF StopDeferred, EvictionsSaved, IsPending, Durable, Absent
<1>18. CASE StopEscalator
  BY <1>18, <1>u DEF StopEscalator
<1>19. CASE CloseStore
  BY <1>19, <1>u DEF CloseStore
<1>20. CASE Restart
  BY <1>20 DEF Restart, EvictionsSaved
<1> QED
  BY <1>1, <1>2, <1>3, <1>4, <1>5, <1>6, <1>7, <1>8, <1>9, <1>10, <1>11, <1>12, <1>13, <1>14, <1>15, <1>16, <1>17, <1>18, <1>19, <1>20
  DEF Next, MainStep, WorkerStep

(* The evict sink is called on the thread that stores, and sqlite refuses  *)
(* the two workers' threads: on any configuration that can open its cache, *)
(* theirs are the only steps that may lose a settled entry by evicting it. *)
THEOREM OnlyWorkersLoseEvicted ==
    ASSUME ~OpenMayFail
    PROVE  Spec => [][EvictionsSaved \/ WorkerStep]_vars
<1>1. IInv /\ StoreInv /\ [Next]_vars => [EvictionsSaved \/ WorkerStep]_vars
  BY MainEvictionSaves
<1> QED BY <1>1, InvariantHolds, StoreInvHolds, PTL DEF Spec

(* Flush before evict, for a rule that is never short of budget: an entry  *)
(* that the bounded table pushes out reaches the disk in the same step.    *)
THEOREM EvictedIsSaved ==
    ASSUME ~Starving, ~OpenMayFail
    PROVE  Spec => EvictedReachesDisk
<1>1. BatchInv => ~WorkerStep
  BY DEF BatchInv, InlineInv, WorkerStep, EscalationEnds, DeferralEnds, DeferralCounts
<1>2. /\ IInv /\ StoreInv /\ BatchInv /\ [Next]_vars
      => [\A k \in Keys :
             store' /\ Durable(entries[k]) /\ entries'[k] = Absent
                => disk'[k] = entries[k]]_vars
  BY <1>1, MainEvictionSaves DEF EvictionsSaved
<1> QED BY <1>2, InvariantHolds, StoreInvHolds, BatchInvHolds, PTL
        DEF Spec, EvictedReachesDisk

-----------------------------------------------------------------------------
(* Late answers.  In a table that has room for every key nothing is pushed *)
(* out, so a key that has a job is pending until the job ends, and nobody  *)
(* else decides it meanwhile.                                              *)
Roomy == IsFiniteSet(Keys) /\ Cardinality(Keys) <= MaxEntries

Verified(entry) == entry.outcome = "proved" /\ entry.proof_verified

JobsPending ==
    /\ \A i \in 1..Len(escalation) : IsPending(escalation[i].key)
    /\ \A i \in 1..Len(deferral) : IsPending(deferral[i])
    /\ \A i, j \in 1..Len(escalation) : escalation[i].key = escalation[j].key => i = j
    /\ \A i, j \in 1..Len(deferral) : deferral[i] = deferral[j] => i = j
    /\ \A i \in 1..Len(escalation), j \in 1..Len(deferral) : escalation[i].key # deferral[j]

(* From the lookup on, the main thread's candidate is its own.             *)
CandidateFree ==
    /\ pc \in {"solve", "prove", "defer", "escalate", "negative", "record"} => ~Known(key)
    /\ pc = "drop" => IsProved(key) /\ ~Verified(entries[key])

(* What is proved on disk is proved in the table, and what a flush is about *)
(* to write does not contradict the disk.                                  *)
DiskKept ==
    /\ store => \A k \in Keys : Verified(disk[k]) => Verified(entries[k])
    /\ pc = "write" => \A k \in Keys :
          /\ rows[k].outcome = "no_rewrite" => ~Verified(disk[k])
          /\ Verified(rows[k]) => Verified(entries[k])

KeepInv == JobsPending /\ CandidateFree /\ DiskKept

(* What a step may not do to a proof in the table, as long as the rule is  *)
(* not replaced.                                                           *)
VerifiedStays == \A k \in Keys : Verified(entries[k]) => entries'[k] = entries[k]

LEMMA RoomySettle ==
    ASSUME Roomy, TypeOK, NEW t \in Threads, NEW k \in Keys, NEW e, Settle(t, k, e)
    PROVE  entries' = [entries EXCEPT ![k] = e] /\ UNCHANGED <<disk, opener>>
<1> DEFINE stored == {j \in Keys : Known(j)}
<1>1. PICK gone \in Evictions(k) : Store(k, e, gone) /\ Sink(t, gone)
  BY DEF Settle
<1>2. gone = {}
  <2>1. CASE Known(k)
    BY <1>1, <2>1 DEF Evictions
  <2>2. CASE ~Known(k)
    <3>1. IsFiniteSet(Keys) /\ Cardinality(Keys) <= MaxEntries
      BY DEF Roomy
    <3>2. IsFiniteSet(stored) /\ Cardinality(stored) <= Cardinality(Keys)
      BY <3>1, FS_Subset
    <3>3. Cardinality(stored) # Cardinality(Keys)
      BY <2>2, <3>1, FS_Subset
    <3>4. Cardinality(stored) \in Nat /\ Cardinality(Keys) \in Nat
      BY <3>1, <3>2, FS_CardinalityType
    <3>5. Cardinality(stored) < MaxEntries
      BY <3>1, <3>2, <3>3, <3>4, MaxEntriesAssumption
    <3> QED BY <1>1, <3>5 DEF Evictions
  <2> QED BY <2>1, <2>2
<1>3. UNCHANGED <<disk, opener>>
  BY <1>1, <1>2 DEF Sink
<1>4. entries' = [entries EXCEPT ![k] = e]
  BY <1>1, <1>2 DEF Store, TypeOK, EntriesType
<1> QED BY <1>3, <1>4

(* A load into an empty table with room brings every proof on disk.        *)
LEMMA RoomyLoads ==
    ASSUME Roomy, NEW kept \in Loadable, NEW k \in Keys, Durable(disk[k])
    PROVE  k \in kept
<1> DEFINE durable == {j \in Keys : Durable(disk[j])}
<1>1. kept \subseteq durable /\ (kept = durable \/ Cardinality(kept) = MaxEntries)
  BY DEF Loadable
<1>2. CASE kept = durable
  BY <1>2
<1>3. CASE Cardinality(kept) = MaxEntries
  <2>1. IsFiniteSet(Keys) /\ kept \in SUBSET Keys
    BY <1>1 DEF Roomy
  <2>2. /\ Cardinality(kept) <= Cardinality(Keys)
        /\ Cardinality(Keys) = Cardinality(kept) => Keys = kept
    BY <2>1, FS_Subset
  <2>3. Cardinality(Keys) \in Nat
    BY <2>1, FS_CardinalityType
  <2> QED BY <1>3, <2>2, <2>3, MaxEntriesAssumption DEF Roomy
<1> QED BY <1>1, <1>2, <1>3

LEMMA TailFacts ==
    ASSUME NEW S, NEW q \in Seq(S), q # <<>>
    PROVE  /\ Len(q) \in Nat \ {0}
           /\ Head(q) = q[1]
           /\ Tail(q) \in Seq(S)
           /\ Len(Tail(q)) = Len(q) - 1
           /\ \A i \in 1..Len(Tail(q)) : Tail(q)[i] = q[i + 1]
OBVIOUS

LEMMA ElementFacts ==
    ASSUME NEW S, NEW q \in Seq(S), NEW i \in 1..Len(q)
    PROVE  q[i] \in S
OBVIOUS

LEMMA AppendFacts ==
    ASSUME NEW S, NEW q \in Seq(S), NEW x \in S
    PROVE  /\ Len(q) \in Nat
           /\ Len(Append(q, x)) = Len(q) + 1
           /\ \A i \in 1..Len(q) : Append(q, x)[i] = q[i]
           /\ Append(q, x)[Len(q) + 1] = x
OBVIOUS

LEMMA JobKeys ==
    ASSUME IInv
    PROVE  /\ \A i \in 1..Len(escalation) : escalation[i].key \in Keys
           /\ \A i \in 1..Len(deferral) : deferral[i] \in Keys
<1>1. \A i \in 1..Len(escalation) : escalation[i] \in Jobs
  BY ElementFacts DEF IInv, TypeOK
<1>2. \A i \in 1..Len(deferral) : deferral[i] \in Keys
  BY ElementFacts DEF IInv, TypeOK
<1> QED BY <1>1, <1>2 DEF Jobs

(* Jobs are not disturbed by a step that touches no pending key.           *)
LEMMA JobsUndisturbed ==
    ASSUME JobsPending, UNCHANGED <<escalation, deferral>>, IInv,
           \A k \in Keys : IsPending(k) => entries'[k] = entries[k]
    PROVE  JobsPending'
<1> QED BY JobKeys DEF JobsPending, IsPending

(* A job that begins: of the escalation prover, of the deferred solver.    *)
LEMMA EscalationBegins ==
    ASSUME JobsPending, IInv, NEW k \in Keys, NEW r \in Rewrites, ~Known(k),
           entries' = [entries EXCEPT ![k] = Pending],
           escalation' = Append(escalation, [key |-> k, rewrite |-> r]),
           UNCHANGED deferral
    PROVE  JobsPending'
<1> DEFINE job == [key |-> k, rewrite |-> r]
<1>1. /\ \A i \in 1..Len(escalation) : escalation[i].key \in Keys \ {k}
      /\ \A i \in 1..Len(deferral) : deferral[i] \in Keys \ {k}
  BY JobKeys DEF JobsPending, IsPending, Known, Absent
<1>2. IsPending(k)' /\ \A j \in Keys \ {k} : entries'[j] = entries[j]
  BY DEF IInv, TypeOK, EntriesType, IsPending, Pending
<1>3. job \in Jobs /\ job.key = k
  BY DEF Jobs
<1>4. /\ Len(escalation) \in Nat
      /\ Len(escalation') = Len(escalation) + 1
      /\ \A i \in 1..Len(escalation) : escalation'[i] = escalation[i]
      /\ escalation'[Len(escalation) + 1].key = k
  BY <1>3, AppendFacts DEF IInv, TypeOK
<1>5. \A i \in 1..Len(escalation') : i \in 1..Len(escalation) \/ i = Len(escalation) + 1
  BY <1>4
<1> QED BY <1>1, <1>2, <1>4, <1>5 DEF JobsPending, IsPending

LEMMA DeferralBegins ==
    ASSUME JobsPending, IInv, NEW k \in Keys, ~Known(k),
           entries' = [entries EXCEPT ![k] = Pending],
           deferral' = Append(deferral, k),
           UNCHANGED escalation
    PROVE  JobsPending'
<1>1. /\ \A i \in 1..Len(escalation) : escalation[i].key \in Keys \ {k}
      /\ \A i \in 1..Len(deferral) : deferral[i] \in Keys \ {k}
  BY JobKeys DEF JobsPending, IsPending, Known, Absent
<1>2. IsPending(k)' /\ \A j \in Keys \ {k} : entries'[j] = entries[j]
  BY DEF IInv, TypeOK, EntriesType, IsPending, Pending
<1>3. /\ Len(deferral) \in Nat
      /\ Len(deferral') = Len(deferral) + 1
      /\ \A i \in 1..Len(deferral) : deferral'[i] = deferral[i]
      /\ deferral'[Len(deferral) + 1] = k
  BY AppendFacts DEF IInv, TypeOK
<1>4. \A i \in 1..Len(deferral') : i \in 1..Len(deferral) \/ i = Len(deferral) + 1
  BY <1>3
<1> QED BY <1>1, <1>2, <1>3, <1>4 DEF JobsPending, IsPending

(* A job that ends takes its key with it; no other job has the key.        *)
LEMMA EscalationLeaves ==
    ASSUME JobsPending, IInv, escalation # <<>>, escalation' = Tail(escalation),
           UNCHANGED deferral,
           \A j \in Keys \ {Head(escalation).key} : entries'[j] = entries[j]
    PROVE  IsPending(Head(escalation).key) /\ JobsPending'
<1>1. /\ Len(escalation) \in Nat \ {0}
      /\ Head(escalation) = escalation[1]
      /\ Len(escalation') = Len(escalation) - 1
      /\ \A i \in 1..Len(escalation') : escalation'[i] = escalation[i + 1]
  BY TailFacts DEF IInv, TypeOK
<1>2. \A i \in 1..Len(escalation') : i + 1 \in 1..Len(escalation) /\ i + 1 # 1
  BY <1>1
<1>3. 1 \in 1..Len(escalation)
  BY <1>1
<1>4. /\ \A i \in 1..Len(escalation) : escalation[i].key \in Keys
      /\ \A i \in 1..Len(deferral) : deferral[i] \in Keys
  BY JobKeys
<1>5. /\ \A i \in 1..Len(escalation') : escalation'[i].key \in Keys \ {Head(escalation).key}
      /\ \A i \in 1..Len(deferral) : deferral[i] # Head(escalation).key
  BY <1>1, <1>2, <1>3, <1>4 DEF JobsPending
<1>6. \A i, j \in 1..Len(escalation') : escalation'[i].key = escalation'[j].key => i = j
  <2> TAKE i, j \in 1..Len(escalation')
  <2>1. escalation[i + 1].key = escalation[j + 1].key => i + 1 = j + 1
    BY <1>2 DEF JobsPending
  <2> QED BY <1>1, <2>1
<1> QED BY <1>1, <1>2, <1>3, <1>4, <1>5, <1>6 DEF JobsPending, IsPending

LEMMA DeferralLeaves ==
    ASSUME JobsPending, IInv, deferral # <<>>, deferral' = Tail(deferral),
           UNCHANGED escalation,
           \A j \in Keys \ {Head(deferral)} : entries'[j] = entries[j]
    PROVE  IsPending(Head(deferral)) /\ JobsPending'
<1>1. /\ Len(deferral) \in Nat \ {0}
      /\ Head(deferral) = deferral[1]
      /\ Len(deferral') = Len(deferral) - 1
      /\ \A i \in 1..Len(deferral') : deferral'[i] = deferral[i + 1]
  BY TailFacts DEF IInv, TypeOK
<1>2. \A i \in 1..Len(deferral') : i + 1 \in 1..Len(deferral) /\ i + 1 # 1
  BY <1>1
<1>3. 1 \in 1..Len(deferral)
  BY <1>1
<1>4. /\ \A i \in 1..Len(escalation) : escalation[i].key \in Keys
      /\ \A i \in 1..Len(deferral) : deferral[i] \in Keys
  BY JobKeys
<1>5. /\ \A i \in 1..Len(deferral') : deferral'[i] \in Keys \ {Head(deferral)}
      /\ \A i \in 1..Len(escalation) : escalation[i].key # Head(deferral)
  BY <1>1, <1>2, <1>3, <1>4 DEF JobsPending
<1>6. \A i, j \in 1..Len(deferral') : deferral'[i] = deferral'[j] => i = j
  <2> TAKE i, j \in 1..Len(deferral')
  <2>1. deferral[i + 1] = deferral[j + 1] => i + 1 = j + 1
    BY <1>2 DEF JobsPending
  <2> QED BY <1>1, <2>1
<1> QED BY <1>1, <1>2, <1>3, <1>4, <1>5, <1>6 DEF JobsPending, IsPending

(* Proofs that stay keep the disk and the table in agreement.              *)
LEMMA DiskStaysKept ==
    ASSUME DiskKept, VerifiedStays, UNCHANGED <<disk, store>>,
           pc' # "write" \/ UNCHANGED <<pc, rows>>
    PROVE  DiskKept'
BY DEF DiskKept, VerifiedStays

(* A step of the main thread that touches neither table, disk nor jobs.    *)
LEMMA QuietKeeps ==
    ASSUME IInv, KeepInv, UNCHANGED <<entries, disk, store, escalation, deferral>>,
           pc' # "write", CandidateFree'
    PROVE  KeepInv' /\ VerifiedStays
<1>1. VerifiedStays
  BY DEF VerifiedStays
<1>2. JobsPending'
  BY JobsUndisturbed DEF KeepInv
<1> QED BY <1>1, <1>2, DiskStaysKept DEF KeepInv

(* A decision of a worker: the main thread's candidate is another key.     *)
LEMMA WorkerKeeps ==
    ASSUME IInv, KeepInv, NEW k \in Keys, IsPending(k),
           \A j \in Keys \ {k} : entries'[j] = entries[j],
           UNCHANGED <<disk, store, mainVars>>, JobsPending'
    PROVE  KeepInv' /\ VerifiedStays
<1>1. VerifiedStays
  BY DEF VerifiedStays, Verified, IsPending
<1>2. pc \in {"solve", "prove", "defer", "escalate", "negative", "record", "drop"}
         => key \in Keys
  BY KeysInHand DEF Visiting, MainAt
<1>3. CandidateFree'
  BY <1>2 DEF KeepInv, CandidateFree, Known, IsPending, IsProved, Absent, mainVars
<1> QED BY <1>1, <1>3, DiskStaysKept DEF KeepInv, mainVars

(* The main thread settles its candidate, which nobody knows.              *)
LEMMA RecordKeeps ==
    ASSUME Roomy, IInv, KeepInv, pc \in {"negative", "record"},
           NEW e, Settle("main", key, e), UNCHANGED <<store, escalation, deferral>>,
           NEW next \in {"idle", "install"}, MaybeFlush(next)
    PROVE  KeepInv' /\ VerifiedStays
<1>1. key \in Keys /\ ~Known(key)
  BY KeysInHand DEF Visiting, MainAt, KeepInv, CandidateFree
<1>2. entries' = [entries EXCEPT ![key] = e] /\ UNCHANGED disk
  BY <1>1, RoomySettle DEF IInv, Threads
<1>3. \A k \in Keys : Known(k) => entries'[k] = entries[k]
  BY <1>1, <1>2 DEF IInv, TypeOK, EntriesType
<1>4. VerifiedStays
  BY <1>3 DEF VerifiedStays, Verified, Known, Absent
<1>5. JobsPending'
  BY <1>3, JobsUndisturbed DEF KeepInv, IsPending, Known, Absent
<1>6. pc' \in {"idle", "install", "flush"}
  BY DEF MaybeFlush
<1>7. CandidateFree'
  BY <1>6 DEF CandidateFree
<1> QED BY <1>2, <1>4, <1>5, <1>6, <1>7, DiskStaysKept DEF KeepInv

LEMMA NextKeepInv ==
    ASSUME Roomy, ~OpenMayFail, IInv, StoreInv, KeepInv, [Next]_vars
    PROVE  KeepInv' /\ (VerifiedStays \/ Restart)
<1>c. JobsPending /\ CandidateFree /\ DiskKept
  BY DEF KeepInv
<1>k. pc \in Visiting => key \in Keys
  BY KeysInHand
<1>u. ASSUME UNCHANGED entries PROVE VerifiedStays
  BY <1>u DEF VerifiedStays
<1>1. ASSUME NEW mode \in ProofModes, Configure(mode) PROVE KeepInv' /\ VerifiedStays
  <2>1. CandidateFree'
    BY <1>c, <1>1 DEF Configure, mainVars, CandidateFree
  <2> QED BY <1>1, <2>1, QuietKeeps DEF Configure, storeVars, mainVars
<1>2. ASSUME NEW k \in Keys, Visit(k) PROVE KeepInv' /\ VerifiedStays
  <2>1. CandidateFree'
    BY <1>2 DEF Visit, CandidateFree
  <2> QED BY <1>2, <2>1, QuietKeeps DEF Visit, storeVars
<1>3. CASE EnsureStore
  <2>1. CandidateFree'
    BY <1>3 DEF EnsureStore, CandidateFree
  <2>2. CASE UNCHANGED <<entries, store>>
    BY <1>3, <2>1, <2>2, QuietKeeps DEF EnsureStore
  <2>3. CASE ~UNCHANGED <<entries, store>>
    <3>1. PICK kept \in Loadable :
             entries' = [k \in Keys |->
                IF ~Known(k) /\ k \in kept THEN disk[k] ELSE entries[k]]
      BY <1>3, <2>3 DEF EnsureStore
    <3>2. \A k \in Keys : Known(k) => entries'[k] = entries[k]
      BY <3>1
    <3>3. VerifiedStays
      BY <3>2 DEF VerifiedStays, Verified, Known, Absent
    <3>4. JobsPending'
      BY <1>3, <1>c, <3>2, JobsUndisturbed DEF EnsureStore, IsPending, Known, Absent
    <3>5. entries = EmptyTable
      BY <1>3, <2>3 DEF EnsureStore, StoreInv
    <3>6. ASSUME NEW k \in Keys, Verified(disk[k]) PROVE entries'[k] = disk[k]
      <4>1. k \in kept
        BY <3>6, RoomyLoads DEF Durable, Verified
      <4> QED BY <3>1, <3>5, <4>1 DEF EmptyTable, Known
    <3>7. DiskKept'
      BY <1>3, <3>6 DEF EnsureStore, DiskKept
    <3> QED BY <2>1, <3>3, <3>4, <3>7 DEF KeepInv
  <2> QED BY <2>2, <2>3
<1>4. CASE CollectSettled
  <2>1. CandidateFree' /\ pc' # "write"
    BY <1>4 DEF CollectSettled, CandidateFree
  <2> QED BY <1>4, <2>1, QuietKeeps DEF CollectSettled, storeVars
<1>5. CASE Lookup
  <2>1. CandidateFree'
    BY <1>5 DEF Lookup, CandidateFree, Usable, IsProved, Verified, Known
  <2>2. pc' # "write"
    BY <1>5 DEF Lookup
  <2> QED BY <1>5, <2>1, <2>2, QuietKeeps DEF Lookup, storeVars
<1>6. CASE DropUnverified
  <2>1. key \in Keys /\ IsProved(key) /\ ~Verified(entries[key])
    BY <1>6, <1>c, <1>k DEF DropUnverified, Visiting, MainAt, CandidateFree
  <2>2. entries' = [entries EXCEPT ![key] = Absent]
    BY <1>6, <2>1 DEF DropUnverified, ClearUnverified, Drop, Verified, IsProved
  <2>3. entries'[key] = Absent /\ \A k \in Keys \ {key} : entries'[k] = entries[k]
    BY <2>1, <2>2 DEF IInv, TypeOK, EntriesType
  <2>4. VerifiedStays
    BY <2>1, <2>3 DEF VerifiedStays
  <2>5. \A k \in Keys : IsPending(k) => entries'[k] = entries[k]
    BY <2>1, <2>3 DEF IsPending, IsProved
  <2>6. JobsPending'
    BY <1>6, <1>c, <2>5, JobsUndisturbed DEF DropUnverified
  <2>7. CandidateFree'
    BY <1>6, <2>3 DEF DropUnverified, CandidateFree, Known
  <2> QED BY <1>6, <1>c, <2>4, <2>6, <2>7, DiskStaysKept DEF DropUnverified, storeVars, KeepInv
<1>7. ASSUME NEW r \in Rewrites, SolveFinds(r) PROVE KeepInv' /\ VerifiedStays
  <2>1. CandidateFree'
    BY <1>c, <1>7 DEF SolveFinds, CandidateFree, Known
  <2>2. pc' # "write"
    BY <1>7 DEF SolveFinds
  <2> QED BY <1>7, <2>1, <2>2, QuietKeeps DEF SolveFinds, storeVars
<1>8. CASE SolveEnds
  <2>1. CandidateFree' /\ pc' # "write"
    BY <1>c, <1>8 DEF SolveEnds, CandidateFree, Known
  <2> QED BY <1>8, <2>1, QuietKeeps DEF SolveEnds, storeVars
<1>9. CASE Defer
  <2>1. key \in Keys /\ ~Known(key)
    BY <1>9, <1>c, <1>k DEF Defer, Visiting, MainAt, CandidateFree
  <2>2. CandidateFree'
    BY <1>9 DEF Defer, CandidateFree
  <2>3. CASE UNCHANGED <<entries, disk, opener, deferral>>
    BY <1>9, <2>2, <2>3, QuietKeeps DEF Defer
  <2>4. CASE Settle("main", key, Pending) /\ deferral' = Append(deferral, key)
    <3>1. entries' = [entries EXCEPT ![key] = Pending] /\ UNCHANGED disk
      BY <2>1, <2>4, RoomySettle DEF IInv, Threads
    <3>2. JobsPending'
      BY <1>9, <1>c, <2>1, <2>4, <3>1, DeferralBegins DEF Defer
    <3>3. VerifiedStays
      BY <2>1, <3>1 DEF VerifiedStays, Verified, Known, Absent, IInv, TypeOK, EntriesType
    <3> QED BY <1>9, <1>c, <2>2, <3>1, <3>2, <3>3, DiskStaysKept DEF Defer, KeepInv
  <2> QED BY <1>9, <2>3, <2>4 DEF Defer
<1>10. CASE Prove
  <2>1. CandidateFree' /\ pc' # "write"
    BY <1>c, <1>10 DEF Prove, CandidateFree, Known
  <2> QED BY <1>10, <2>1, QuietKeeps DEF Prove, storeVars
<1>11. CASE Escalate
  <2>1. key \in Keys /\ ~Known(key) /\ found \in Rewrites
    BY <1>11, <1>c, <1>k
    DEF Escalate, Visiting, MainAt, CandidateFree, IInv, CarriedSound, Bound
  <2>2. CandidateFree'
    BY <1>11 DEF Escalate, CandidateFree
  <2>3. CASE UNCHANGED <<entries, disk, opener, escalation>>
    BY <1>11, <2>2, <2>3, QuietKeeps DEF Escalate
  <2>4. CASE /\ Settle("main", key, Pending)
             /\ escalation' = Append(escalation, [key |-> key, rewrite |-> found])
    <3>1. entries' = [entries EXCEPT ![key] = Pending] /\ UNCHANGED disk
      BY <2>1, <2>4, RoomySettle DEF IInv, Threads
    <3>2. JobsPending'
      BY <1>11, <1>c, <2>1, <2>4, <3>1, EscalationBegins DEF Escalate
    <3>3. VerifiedStays
      BY <2>1, <3>1 DEF VerifiedStays, Verified, Known, Absent, IInv, TypeOK, EntriesType
    <3> QED BY <1>11, <1>c, <2>2, <3>1, <3>2, <3>3, DiskStaysKept DEF Escalate, KeepInv
  <2> QED BY <1>11, <2>3, <2>4 DEF Escalate
<1>12. CASE RecordNegative
  BY <1>12, RecordKeeps DEF RecordNegative
<1>13. CASE RecordFound
  BY <1>13, RecordKeeps DEF RecordFound
<1>14. CASE Install
  <2>1. CandidateFree' /\ pc' # "write"
    BY <1>14 DEF Install, CandidateFree
  <2> QED BY <1>14, <2>1, QuietKeeps DEF Install, storeVars
<1>15. CASE FlushRead
  <2>1. VerifiedStays /\ CandidateFree'
    BY <1>15, <1>u DEF FlushRead, CandidateFree
  <2>2. JobsPending'
    BY <1>15, <1>c, JobsUndisturbed DEF FlushRead
  <2>3. DiskKept'
    BY <1>15, <1>c DEF FlushRead, DiskKept, StoreInv, Verified, Absent
  <2> QED BY <2>1, <2>2, <2>3 DEF KeepInv
<1>16. CASE FlushWrite
  <2>1. VerifiedStays
    BY <1>16, <1>u DEF FlushWrite
  <2>2. JobsPending'
    BY <1>16, <1>c, JobsUndisturbed DEF FlushWrite
  <2>3. pc' \in {"lookup", "idle", "install", "close"}
    BY <1>16 DEF FlushWrite, StoreInv
  <2>4. ASSUME store, NEW k \in Keys, Verified(disk'[k]) PROVE Verified(entries'[k])
    <3>1. disk'[k] = disk[k] \/ disk'[k] = rows[k]
      BY <1>16 DEF FlushWrite
    <3> QED BY <1>16, <1>c, <2>4, <3>1 DEF FlushWrite, DiskKept
  <2> QED BY <1>16, <2>1, <2>2, <2>3, <2>4 DEF FlushWrite, KeepInv, CandidateFree, DiskKept
<1>17. CASE EscalationEnds
  <2> DEFINE k == Head(escalation).key
  <2>1. k \in Keys
    BY <1>17, KeysInHand DEF EscalationEnds
  <2>2. /\ UNCHANGED disk
        /\ \A j \in Keys \ {k} : entries'[j] = entries[j]
    <3>1. ASSUME NEW e, Settle("escalator", k, e)
          PROVE  UNCHANGED disk /\ \A j \in Keys \ {k} : entries'[j] = entries[j]
      <4>1. entries' = [entries EXCEPT ![k] = e] /\ UNCHANGED disk
        BY <2>1, <3>1, RoomySettle DEF IInv, Threads
      <4> QED BY <4>1 DEF IInv, TypeOK, EntriesType
    <3>2. CASE ClearPending(k) /\ UNCHANGED disk
      BY <3>2 DEF ClearPending, Drop, IInv, TypeOK, EntriesType
    <3> QED BY <1>17, <3>1, <3>2 DEF EscalationEnds
  <2>3. IsPending(k) /\ JobsPending'
    BY <1>17, <1>c, <2>2, EscalationLeaves DEF EscalationEnds
  <2> QED BY <1>17, <2>1, <2>2, <2>3, WorkerKeeps DEF EscalationEnds
<1>18. CASE DeferralEnds
  <2> DEFINE k == Head(deferral)
  <2>1. k \in Keys
    BY <1>18, KeysInHand DEF DeferralEnds
  <2>2. /\ UNCHANGED disk
        /\ \A j \in Keys \ {k} : entries'[j] = entries[j]
    <3>1. ASSUME NEW e, Settle("deferred", k, e)
          PROVE  UNCHANGED disk /\ \A j \in Keys \ {k} : entries'[j] = entries[j]
      <4>1. entries' = [entries EXCEPT ![k] = e] /\ UNCHANGED disk
        BY <2>1, <3>1, RoomySettle DEF IInv, Threads
      <4> QED BY <4>1 DEF IInv, TypeOK, EntriesType
    <3>2. CASE ClearPending(k) /\ UNCHANGED disk
      BY <3>2 DEF ClearPending, Drop, IInv, TypeOK, EntriesType
    <3> QED BY <1>18, <3>1, <3>2 DEF DeferralEnds
  <2>3. IsPending(k) /\ JobsPending'
    BY <1>18, <1>c, <2>2, DeferralLeaves DEF DeferralEnds
  <2> QED BY <1>18, <2>1, <2>2, <2>3, WorkerKeeps DEF DeferralEnds
<1>19. CASE StopDeferred
  <2>1. PICK left \in {<<>>} \cup (IF StopTimesOut /\ ~uncounted /\ deferral # <<>>
                                  THEN {<<Head(deferral)>>} ELSE {}) :
           /\ deferral' = left
           /\ entries' = [k \in Keys |->
                 IF /\ IsPending(k)
                    /\ \E i \in DOMAIN deferral : i > Len(left) /\ deferral[i] = k
                 THEN Absent ELSE entries[k]]
    BY <1>19 DEF StopDeferred
  <2>2. /\ deferral \in Seq(Keys)
        /\ \A i \in DOMAIN deferral : i \in 1..Len(deferral)
    BY DEF IInv, TypeOK
  <2>3. \/ left = <<>>
        \/ left = <<deferral[1]>> /\ Len(left) = 1 /\ 1 \in 1..Len(deferral)
    <3>1. deferral # <<>> => Head(deferral) = deferral[1] /\ 1 \in 1..Len(deferral)
      BY <2>2
    <3> QED BY <2>1, <3>1
  <2>4. VerifiedStays
    BY <2>1 DEF VerifiedStays, Verified, IsPending
  <2>5. \A i \in 1..Len(escalation) : IsPending(escalation[i].key)'
    <3> TAKE i \in 1..Len(escalation)
    <3>1. IsPending(escalation[i].key) /\ escalation[i].key \in Keys
      BY <1>c, JobKeys DEF JobsPending
    <3>2. \A j \in DOMAIN deferral : deferral[j] # escalation[i].key
      BY <1>c, <2>2 DEF JobsPending
    <3>3. UNCHANGED escalation
      BY <1>19 DEF StopDeferred
    <3>4. entries'[escalation[i].key] = entries[escalation[i].key]
      BY <2>1, <3>1, <3>2
    <3> QED BY <3>1, <3>3, <3>4 DEF IsPending
  <2>6. \A i \in 1..Len(left) :
           /\ i = 1 /\ left[i] = deferral[1]
           /\ Len(left) = 1 /\ 1 \in 1..Len(deferral)
    <3>1. CASE left = <<>>
      BY <3>1
    <3>2. CASE left = <<deferral[1]>> /\ Len(left) = 1 /\ 1 \in 1..Len(deferral)
      <4>1. left[1] = deferral[1]
        BY <3>2
      <4>2. \A i \in 1..Len(left) : i = 1
        BY <3>2
      <4> QED BY <3>2, <4>1, <4>2
    <3> QED BY <2>3, <3>1, <3>2
  <2>7. \A i \in 1..Len(left) : IsPending(left[i])'
    <3> SUFFICES ASSUME 1 \in 1..Len(deferral), Len(left) = 1
                 PROVE  IsPending(deferral[1])'
      BY <2>1, <2>6 DEF IsPending
    <3>1. IsPending(deferral[1]) /\ deferral[1] \in Keys
      BY <1>c, <2>2, JobKeys DEF JobsPending
    <3>2. \A i \in DOMAIN deferral : i > 1 => deferral[i] # deferral[1]
      BY <1>c, <2>2 DEF JobsPending
    <3> QED BY <2>1, <3>1, <3>2 DEF IsPending
  <2>8. UNCHANGED escalation
    BY <1>19 DEF StopDeferred
  <2>9. JobsPending'
    BY <1>c, <2>1, <2>5, <2>6, <2>7, <2>8 DEF JobsPending
  <2> QED BY <1>19, <1>c, <2>4, <2>9, DiskStaysKept
      DEF StopDeferred, storeVars, KeepInv, CandidateFree
<1>20. CASE StopEscalator
  <2>1. VerifiedStays /\ CandidateFree' /\ pc' # "write"
    BY <1>20, <1>u DEF StopEscalator, CandidateFree
  <2>2. JobsPending'
    BY <1>20, <1>c DEF StopEscalator, JobsPending, IsPending
  <2> QED BY <1>20, <1>c, <2>1, <2>2, DiskStaysKept DEF StopEscalator, storeVars, KeepInv
<1>21. CASE CloseStore
  <2>1. CandidateFree'
    BY <1>21 DEF CloseStore, CandidateFree
  <2> QED BY <1>21, <2>1, QuietKeeps DEF CloseStore
<1>22. CASE Restart
  BY <1>22 DEF Restart, KeepInv, JobsPending, CandidateFree, DiskKept
<1>23. CASE DeferralCounts
  BY <1>23, <1>c, <1>u
  DEF DeferralCounts, storeVars, mainVars, KeepInv, JobsPending, IsPending, CandidateFree,
      Known, IsProved, DiskKept
<1>24. CASE UNCHANGED vars
  BY <1>24, <1>c, <1>u
  DEF vars, storeVars, mainVars, KeepInv, JobsPending, IsPending, CandidateFree, Known,
      IsProved, DiskKept
<1> QED
  BY <1>1, <1>2, <1>3, <1>4, <1>5, <1>6, <1>7, <1>8, <1>9, <1>10, <1>11, <1>12, <1>13, <1>14, <1>15, <1>16, <1>17, <1>18, <1>19, <1>20, <1>21, <1>22, <1>23, <1>24
  DEF Next, MainStep, WorkerStep

(* With nothing to evict, only a flush writes the disk.                    *)
LEMMA RoomyDisk ==
    ASSUME Roomy, IInv, Next
    PROVE  UNCHANGED disk \/ FlushWrite
<1>1. ASSUME NEW t \in Threads, NEW k \in Keys, NEW e, Settle(t, k, e)
      PROVE  UNCHANGED disk
  BY <1>1, RoomySettle DEF IInv
<1>k. /\ pc \in Visiting => key \in Keys
      /\ escalation # <<>> => Head(escalation).key \in Keys
      /\ deferral # <<>> => Head(deferral) \in Keys
  BY KeysInHand
<1>2. CASE Defer
  BY <1>1, <1>2, <1>k DEF Defer, Visiting, MainAt, Threads
<1>3. CASE Escalate
  BY <1>1, <1>3, <1>k DEF Escalate, Visiting, MainAt, Threads
<1>4. CASE RecordNegative
  BY <1>1, <1>4, <1>k DEF RecordNegative, Visiting, MainAt, Threads
<1>5. CASE RecordFound
  BY <1>1, <1>5, <1>k DEF RecordFound, Visiting, MainAt, Threads
<1>6. CASE EscalationEnds
  BY <1>1, <1>6, <1>k DEF EscalationEnds, Threads
<1>7. CASE DeferralEnds
  BY <1>1, <1>7, <1>k DEF DeferralEnds, Threads
<1> QED
  BY <1>2, <1>3, <1>4, <1>5, <1>6, <1>7
  DEF Next, MainStep, WorkerStep, Configure, Visit, EnsureStore, CollectSettled, Lookup,
      DropUnverified, SolveFinds, SolveEnds, Prove, Install, FlushRead, StopEscalator,
      CloseStore, StopDeferred, DeferralCounts, Restart, storeVars

LEMMA KeepInvHolds ==
    ASSUME Roomy, ~OpenMayFail
    PROVE  Spec => []KeepInv
<1>1. Init => KeepInv
  BY DEF Init, KeepInv, JobsPending, CandidateFree, DiskKept
<1>2. IInv /\ StoreInv /\ KeepInv /\ [Next]_vars => KeepInv'
  BY NextKeepInv
<1> QED BY <1>1, <1>2, InvariantHolds, StoreInvHolds, PTL DEF Spec

(* While the table has room for every key, a proof never gives way to a    *)
(* negative result, neither in the table nor on disk: not to the late      *)
(* answer of a worker, nor to an inline solve, a flush or a load.          *)
THEOREM ProofsPrevail ==
    ASSUME Roomy, ~OpenMayFail
    PROVE  Spec => ProofNeverDowngraded
<1> DEFINE Kept == \A k \in Keys :
        /\ IsProved(k) /\ entries[k].proof_verified
              => entries'[k].outcome # "no_rewrite"
        /\ disk[k].outcome = "proved" /\ disk[k].proof_verified
              => disk'[k].outcome # "no_rewrite"
<1>1. ASSUME IInv, StoreInv, KeepInv, [Next]_vars
      PROVE  [Kept]_vars
  <2> SUFFICES ASSUME Next, NEW k \in Keys
      PROVE  /\ Verified(entries[k]) => entries'[k].outcome # "no_rewrite"
             /\ Verified(disk[k]) => disk'[k].outcome # "no_rewrite"
    BY <1>1 DEF Verified, IsProved
  <2>1. ASSUME Verified(entries[k]) PROVE entries'[k].outcome # "no_rewrite"
    <3>1. CASE VerifiedStays
      BY <2>1, <3>1 DEF VerifiedStays, Verified
    <3>2. CASE Restart
      BY <3>2 DEF Restart, EmptyTable, Absent
    <3> QED BY <1>1, <3>1, <3>2, NextKeepInv
  <2>2. ASSUME Verified(disk[k]) PROVE disk'[k].outcome # "no_rewrite"
    <3>1. CASE UNCHANGED disk
      BY <2>2, <3>1 DEF Verified
    <3>2. CASE FlushWrite
      <4>1. \/ disk'[k] = disk[k]
            \/ disk'[k] = rows[k] /\ pc = "write"
        BY <3>2 DEF FlushWrite
      <4> QED BY <1>1, <2>2, <4>1 DEF KeepInv, DiskKept, Verified
    <3>3. UNCHANGED disk \/ FlushWrite
      BY <1>1, RoomyDisk
    <3> QED BY <3>1, <3>2, <3>3
  <2> QED BY <2>1, <2>2
<1> QED BY <1>1, InvariantHolds, StoreInvHolds, KeepInvHolds, PTL
        DEF Spec, ProofNeverDowngraded

=============================================================================
