---------------------------- MODULE MbaSolveRule ----------------------------
(***************************************************************************)
(* The live rule and everything it owns, src/src/d810_cobra/rules/         *)
(* cobra_solve.py and store.py: the decompiler's main thread takes one     *)
(* candidate at a time through the tiers (table, solve, accept, bounded    *)
(* proof, escalation), two background workers settle what it hands over,   *)
(* and the rewrite table is backed by a durable proof cache that outlives  *)
(* the process.                                                            *)
(*                                                                         *)
(* The workers appear here as the promise they implement (the module       *)
(* BackgroundProver): a FIFO of jobs whose head is decided in one step.    *)
(* What this module adds to them is the evict sink, which runs on the      *)
(* thread that stores, against a connection that sqlite3 ties to the       *)
(* thread that opened it.                                                  *)
(***************************************************************************)
EXTENDS RewriteTable, Sequences

CONSTANTS
    Sound,        \* the pairs <<key, rewrite>> that are equivalent
    NoKey,        \* the main thread has no candidate
    MaxQueue,     \* maxsize of the queues of both workers
    FlushEvery,   \* _FLUSH_EVERY
    ProofModes,   \* the values of require_proof a configuration may carry
    Starving,     \* TRUE when an inline solve or proof may run out of budget
    OpenMayFail,  \* TRUE when the cache cannot always be opened
    StopTimesOut  \* TRUE when the deferred solver may outlive its stop

Jobs == [key : Keys, rewrite : Rewrites]
Threads == {"main", "escalator", "deferred"}

ASSUME SoundAssumption == Sound \subseteq Keys \X Rewrites
ASSUME NoKeyAssumption == NoKey \notin Keys
ASSUME BoundsAssumption == MaxQueue \in Nat \ {0} /\ FlushEvery \in Nat \ {0}
ASSUME ProofModesAssumption == ProofModes \subseteq BOOLEAN /\ ProofModes # {}
ASSUME SwitchesAssumption == {Starving, OpenMayFail, StopTimesOut} \subseteq BOOLEAN

VARIABLES
    disk,          \* the rows of cobra_proofs_v2; Absent where there is none
    opener,        \* the thread that opened the sqlite connection, or "none"
    store,         \* _store is not None, and its put_entry is the evict sink
    storeLoaded,   \* _store_loaded
    requireProof,  \* require_proof
    unflushed,     \* _unflushed
    settled,       \* deferred._settled > 0
    uncounted,     \* the deferred worker has recorded a result, and not counted it
    pc,            \* where the main thread is
    after,         \* where it goes when a flush returns
    key,           \* its candidate
    found,         \* the rewrite it solved, or read from the table
    rows,          \* what flush read from the table and is about to write
    escalation,    \* the escalation prover's jobs, the head in hand
    deferral       \* the deferred solver's jobs, the head in hand

storeVars == <<disk, opener, store, storeLoaded>>
mainVars == <<pc, after, key, found, rows>>
vars == <<entries, storeVars, requireProof, unflushed, settled, uncounted, mainVars,
          escalation, deferral>>

MainAt == {"idle", "ensure", "collect", "lookup", "drop", "solve", "defer", "prove",
           "escalate", "negative", "record", "flush", "write", "install",
           "stop", "close", "closed"}

(* What the store agrees to keep: never a pending entry, never a rewrite   *)
(* that was recorded without a proof.                                      *)
Durable(entry) ==
    \/ entry.outcome = "no_rewrite"
    \/ entry.outcome = "proved" /\ entry.proof_verified

(* Rows that an earlier version wrote without a proof may be on disk.      *)
Init ==
    /\ opener = "none" /\ store = FALSE /\ storeLoaded = FALSE
    /\ entries = EmptyTable
    /\ unflushed = 0 /\ settled = FALSE /\ uncounted = FALSE
    /\ pc = "idle" /\ after = "idle"
    /\ key = NoKey /\ found = NoTree /\ rows = EmptyTable
    /\ escalation = <<>> /\ deferral = <<>>
    /\ disk \in [Keys -> {Absent} \cup {Proved(r, FALSE) : r \in Rewrites}]
    /\ requireProof \in ProofModes

-----------------------------------------------------------------------------
(* _connect on `thread`: the connection there is, or one it opens.         *)
Connect(thread) ==
    \/ opener # "none" /\ opener' = opener
    \/ opener = "none" /\ opener' = thread
    \/ opener = "none" /\ OpenMayFail /\ opener' = opener

(* Mutant of Sink: the store is never attached to the table.               *)
SinkUnattached(thread, gone) == UNCHANGED <<disk, opener>>

(* put_entry on `thread`, for the entries a store pushed out.  A thread    *)
(* that did not open the connection gets an sqlite3 error, which is        *)
(* swallowed.                                                              *)
Sink(thread, gone) ==
    LET kept == {k \in gone : Durable(entries[k])}
    IN IF store /\ kept # {}
       THEN /\ Connect(thread)
            /\ disk' = IF opener' = thread
                       THEN [k \in Keys |-> IF k \in kept THEN entries[k] ELSE disk[k]]
                       ELSE disk
       ELSE UNCHANGED <<disk, opener>>

(* A table operation on `thread` that may push an entry out.               *)
Settle(thread, k, entry) ==
    \E gone \in Evictions(k) :
        /\ Store(k, entry, gone)
        /\ Sink(thread, gone)

-----------------------------------------------------------------------------
Configure(mode) ==
    /\ pc = "idle"
    /\ requireProof' = mode
    /\ UNCHANGED <<entries, storeVars, unflushed, settled, uncounted, mainVars,
                   escalation, deferral>>

(* check_and_replace is called with a candidate the gates let through.     *)
Visit(k) ==
    /\ pc = "idle"
    /\ key' = k
    /\ pc' = "ensure"
    /\ UNCHANGED <<entries, storeVars, requireProof, unflushed, settled, uncounted, after,
                   found, rows, escalation, deferral>>

(* What a load may put into the table: the durable rows, as many of them   *)
(* as fit.                                                                 *)
Loadable ==
    LET durable == {k \in Keys : Durable(disk[k])}
    IN {kept \in SUBSET durable :
           \/ kept = durable /\ Cardinality(kept) <= MaxEntries
           \/ Cardinality(kept) = MaxEntries}

(* _ensure_store, once: it loads what fits and then attaches the sink.     *)
(* When the database cannot be opened or read the load is empty, and a     *)
(* later call will try again to open it; any other failure leaves the rule *)
(* without a store.  A rule without the proof gate gets no store.          *)
EnsureStore ==
    /\ pc = "ensure"
    /\ pc' = "collect"
    /\ storeLoaded' = TRUE
    /\ IF storeLoaded \/ ~requireProof
       THEN UNCHANGED <<entries, opener, store>>
       ELSE \/ /\ opener' = "main" /\ store' = TRUE
               /\ \E kept \in Loadable :
                     entries' = [k \in Keys |->
                        IF ~Known(k) /\ k \in kept THEN disk[k] ELSE entries[k]]
            \/ /\ OpenMayFail
               /\ store' \in BOOLEAN /\ opener' \in {opener, "main"}
               /\ UNCHANGED entries
    /\ UNCHANGED <<disk, requireProof, unflushed, settled, uncounted, after, key, found,
                   rows, escalation, deferral>>

(* Mutant of CollectSettled: the completions are taken and forgotten.      *)
CollectUnflushed ==
    /\ pc = "collect"
    /\ settled' = FALSE
    /\ pc' = "lookup"
    /\ UNCHANGED <<entries, storeVars, requireProof, unflushed, uncounted, after, key, found,
                   rows, escalation, deferral>>

(* Completions of the deferred solver ask for a flush.                     *)
CollectSettled ==
    /\ pc = "collect"
    /\ settled' = FALSE
    /\ IF settled /\ store THEN pc' = "flush" /\ after' = "lookup"
                           ELSE pc' = "lookup" /\ UNCHANGED after
    /\ unflushed' = IF settled /\ store THEN 0 ELSE unflushed
    /\ UNCHANGED <<entries, storeVars, requireProof, uncounted, key, found, rows,
                   escalation, deferral>>

(* Mutant of Usable: any proved entry will do.                             *)
UsableUnverified(entry) == entry.outcome = "proved"

(* Tier 1.  A rewrite recorded without a proof is no answer for a rule     *)
(* that requires one.                                                      *)
Usable(entry) == entry.outcome = "proved" /\ (requireProof => entry.proof_verified)

(* Mutant of Lookup: a pending key is solved again.                        *)
LookupIgnoresPending ==
    /\ pc = "lookup"
    /\ \/ /\ Usable(entries[key])
          /\ pc' = "install" /\ found' = entries[key].rewrite
       \/ /\ IsProved(key) /\ ~Usable(entries[key])
          /\ pc' = "drop" /\ UNCHANGED found
       \/ /\ entries[key].outcome = "no_rewrite"
          /\ pc' = "idle" /\ UNCHANGED found
       \/ /\ ~Known(key) \/ IsPending(key)
          /\ pc' = "solve" /\ UNCHANGED found
    /\ UNCHANGED <<entries, storeVars, requireProof, unflushed, settled, uncounted, after,
                   key, rows, escalation, deferral>>

Lookup ==
    /\ pc = "lookup"
    /\ \/ /\ Usable(entries[key])
          /\ pc' = "install" /\ found' = entries[key].rewrite
       \/ /\ IsProved(key) /\ ~Usable(entries[key])
          /\ pc' = "drop" /\ UNCHANGED found
       \/ /\ entries[key].outcome \in {"no_rewrite", "pending"}
          /\ pc' = "idle" /\ UNCHANGED found
       \/ /\ ~Known(key)
          /\ pc' = "solve" /\ UNCHANGED found
    /\ UNCHANGED <<entries, storeVars, requireProof, unflushed, settled, uncounted, after,
                   key, rows, escalation, deferral>>

DropUnverified ==
    /\ pc = "drop"
    /\ ClearUnverified(key)
    /\ pc' = "solve"
    /\ UNCHANGED <<storeVars, requireProof, unflushed, settled, uncounted, after, key,
                   found, rows, escalation, deferral>>

(* Tier 2: solve and accept.                                               *)
SolveFinds(r) ==
    /\ pc = "solve"
    /\ found' = r
    /\ pc' = IF requireProof THEN "prove" ELSE "record"
    /\ UNCHANGED <<entries, storeVars, requireProof, unflushed, settled, uncounted, after,
                   key, rows, escalation, deferral>>

(* Nothing better, nothing acceptable, no budget left, or a failure.       *)
SolveEnds ==
    /\ pc = "solve"
    /\ pc' \in {"negative", "idle"} \cup (IF Starving THEN {"defer"} ELSE {})
    /\ UNCHANGED <<entries, storeVars, requireProof, unflushed, settled, uncounted, after,
                   key, found, rows, escalation, deferral>>

(* deferred.submit: refused when the queue is full or the key is known.    *)
Defer ==
    /\ pc = "defer"
    /\ pc' = "idle"
    /\ IF Len(deferral) >= MaxQueue \/ Known(key)
       THEN UNCHANGED <<entries, disk, opener, deferral>>
       ELSE Settle("main", key, Pending) /\ deferral' = Append(deferral, key)
    /\ UNCHANGED <<store, storeLoaded, requireProof, unflushed, settled, uncounted, after,
                   key, found, rows, escalation>>

(* Tier 2, the bounded proof.                                              *)
Prove ==
    /\ pc = "prove"
    /\ \/ <<key, found>> \in Sound /\ pc' = "record"
       \/ <<key, found>> \notin Sound /\ pc' = "negative"
       \/ Starving /\ pc' = "escalate"
    /\ UNCHANGED <<entries, storeVars, requireProof, unflushed, settled, uncounted, after,
                   key, found, rows, escalation, deferral>>

(* Tier 3: escalator.submit.                                               *)
Escalate ==
    /\ pc = "escalate"
    /\ pc' = "idle"
    /\ IF Len(escalation) >= MaxQueue \/ Known(key)
       THEN UNCHANGED <<entries, disk, opener, escalation>>
       ELSE /\ Settle("main", key, Pending)
            /\ escalation' = Append(escalation, [key |-> key, rewrite |-> found])
    /\ UNCHANGED <<store, storeLoaded, requireProof, unflushed, settled, uncounted, after,
                   key, found, rows, deferral>>

(* Mutant of MaybeFlush: it flushes one record late.                       *)
MaybeFlushLate(next) ==
    IF store /\ unflushed + 1 > FlushEvery
    THEN unflushed' = 0 /\ pc' = "flush" /\ after' = next
    ELSE /\ unflushed' = IF store THEN unflushed + 1 ELSE unflushed
         /\ pc' = next /\ UNCHANGED after

(* _record_and_maybe_flush counts the record and decides on a flush.  A    *)
(* rule without a store never gets one, so what it counts is left out.     *)
MaybeFlush(next) ==
    IF store /\ unflushed + 1 >= FlushEvery
    THEN unflushed' = 0 /\ pc' = "flush" /\ after' = next
    ELSE /\ unflushed' = IF store THEN unflushed + 1 ELSE unflushed
         /\ pc' = next /\ UNCHANGED after

(* Mutant of RecordNegative: it bypasses the counter.                      *)
RecordNegativeUncounted ==
    /\ pc = "negative"
    /\ Settle("main", key, NoRewrite)
    /\ pc' = "idle"
    /\ UNCHANGED <<store, storeLoaded, requireProof, unflushed, settled, uncounted, after,
                   key, found, rows, escalation, deferral>>

RecordNegative ==
    /\ pc = "negative"
    /\ Settle("main", key, NoRewrite)
    /\ MaybeFlush("idle")
    /\ UNCHANGED <<store, storeLoaded, requireProof, settled, uncounted, key, found, rows,
                   escalation, deferral>>

(* Mutant of RecordFound: every record counts as verified.                 *)
RecordFoundAsVerified ==
    /\ pc = "record"
    /\ Settle("main", key, Proved(found, TRUE))
    /\ MaybeFlush("install")
    /\ UNCHANGED <<store, storeLoaded, requireProof, settled, uncounted, key, found, rows,
                   escalation, deferral>>

RecordFound ==
    /\ pc = "record"
    /\ Settle("main", key, Proved(found, requireProof))
    /\ MaybeFlush("install")
    /\ UNCHANGED <<store, storeLoaded, requireProof, settled, uncounted, key, found, rows,
                   escalation, deferral>>

(* build_replacement; the candidate leaves the rule.                       *)
Install ==
    /\ pc = "install"
    /\ pc' = "idle"
    /\ UNCHANGED <<entries, storeVars, requireProof, unflushed, settled, uncounted, after,
                   key, found, rows, escalation, deferral>>

-----------------------------------------------------------------------------
(* flush reads the table under its lock, and writes in one transaction     *)
(* while the workers go on.                                                *)
FlushRead ==
    /\ pc = "flush"
    /\ rows' = [k \in Keys |-> IF Durable(entries[k]) THEN entries[k] ELSE Absent]
    /\ Connect("main")
    /\ pc' = "write"
    /\ UNCHANGED <<entries, disk, store, storeLoaded, requireProof, unflushed, settled,
                   uncounted, after, key, found, escalation, deferral>>

FlushWrite ==
    /\ pc = "write"
    /\ disk' = IF opener = "main"
               THEN [k \in Keys |-> IF rows[k] = Absent THEN disk[k] ELSE rows[k]]
               ELSE disk
    /\ rows' = EmptyTable
    /\ pc' = after
    /\ UNCHANGED <<entries, opener, store, storeLoaded, requireProof, unflushed, settled,
                   uncounted, after, key, found, escalation, deferral>>

-----------------------------------------------------------------------------
(* The workers decide the head of their queues.                            *)
EscalationEnds ==
    /\ escalation # <<>>
    /\ LET j == Head(escalation) IN
          \/ <<j.key, j.rewrite>> \in Sound
             /\ Settle("escalator", j.key, Proved(j.rewrite, TRUE))
          \/ <<j.key, j.rewrite>> \notin Sound
             /\ Settle("escalator", j.key, NoRewrite)
          \/ ClearPending(j.key) /\ UNCHANGED <<disk, opener>>
    /\ escalation' = Tail(escalation)
    /\ UNCHANGED <<store, storeLoaded, requireProof, unflushed, settled, uncounted,
                   mainVars, deferral>>

(* What the deferred worker records it counts afterwards, in a step of its *)
(* own; what it releases is not counted.                                   *)
DeferralEnds ==
    /\ deferral # <<>>
    /\ ~uncounted
    /\ LET k == Head(deferral) IN
          \/ /\ \/ \E r \in Rewrites :
                      <<k, r>> \in Sound /\ Settle("deferred", k, Proved(r, TRUE))
                \/ Settle("deferred", k, NoRewrite)
             /\ uncounted' = TRUE
          \/ ClearPending(k) /\ UNCHANGED <<disk, opener, uncounted>>
    /\ deferral' = Tail(deferral)
    /\ UNCHANGED <<store, storeLoaded, requireProof, unflushed, settled, mainVars, escalation>>

DeferralCounts ==
    /\ uncounted
    /\ settled' = TRUE
    /\ uncounted' = FALSE
    /\ UNCHANGED <<entries, storeVars, requireProof, unflushed, mainVars, escalation, deferral>>

-----------------------------------------------------------------------------
(* Activation shutdown: stop_escalator, flush_store, close_store.          *)
(* deferred.stop releases what is queued and may leave what is in hand, a  *)
(* job or a result to count, to a worker that is still finishing.          *)
StopDeferred ==
    /\ pc = "idle"
    /\ pc' = "stop"
    /\ uncounted => StopTimesOut
    /\ \E left \in {<<>>} \cup (IF StopTimesOut /\ ~uncounted /\ deferral # <<>>
                                THEN {<<Head(deferral)>>} ELSE {}) :
          /\ deferral' = left
          /\ entries' = [k \in Keys |->
                IF /\ IsPending(k)
                   /\ \E i \in DOMAIN deferral : i > Len(left) /\ deferral[i] = k
                THEN Absent ELSE entries[k]]
    /\ UNCHANGED <<storeVars, requireProof, unflushed, settled, uncounted, after, key,
                   found, rows, escalation>>

(* Mutant of StopEscalator: the store is closed without a last flush.      *)
StopEscalatorUnflushed ==
    /\ pc = "stop"
    /\ escalation' = <<>>
    /\ pc' = "close"
    /\ UNCHANGED <<entries, storeVars, requireProof, unflushed, settled, uncounted, after,
                   key, found, rows, deferral>>

(* escalator.stop joins its worker; what it had in hand ended before, or   *)
(* is abandoned and stays pending.  Then the final flush.                  *)
StopEscalator ==
    /\ pc = "stop"
    /\ escalation' = <<>>
    /\ after' = "close"
    /\ pc' = IF store THEN "flush" ELSE "close"
    /\ unflushed' = IF store THEN 0 ELSE unflushed
    /\ UNCHANGED <<entries, storeVars, requireProof, settled, uncounted, key, found, rows,
                   deferral>>

CloseStore ==
    /\ pc = "close"
    /\ opener' = "none"
    /\ pc' = "closed"
    /\ UNCHANGED <<entries, disk, store, storeLoaded, requireProof, unflushed, settled,
                   uncounted, after, key, found, rows, escalation, deferral>>

(* The process dies, or a new rule takes the place of the closed one.      *)
Restart ==
    /\ opener' = "none" /\ store' = FALSE /\ storeLoaded' = FALSE
    /\ entries' = EmptyTable
    /\ unflushed' = 0 /\ settled' = FALSE /\ uncounted' = FALSE
    /\ pc' = "idle" /\ after' = "idle"
    /\ key' = NoKey /\ found' = NoTree /\ rows' = EmptyTable
    /\ escalation' = <<>> /\ deferral' = <<>>
    /\ requireProof' \in ProofModes
    /\ UNCHANGED disk

-----------------------------------------------------------------------------
MainStep ==
    \/ EnsureStore \/ CollectSettled \/ Lookup \/ DropUnverified
    \/ (\E r \in Rewrites : SolveFinds(r)) \/ SolveEnds \/ Defer
    \/ Prove \/ Escalate \/ RecordNegative \/ RecordFound \/ Install
    \/ FlushRead \/ FlushWrite
    \/ StopEscalator \/ CloseStore

WorkerStep == EscalationEnds \/ DeferralEnds \/ DeferralCounts

Next ==
    \/ \E mode \in ProofModes : Configure(mode)
    \/ \E k \in Keys : Visit(k)
    \/ MainStep \/ WorkerStep
    \/ StopDeferred \/ Restart

Spec == Init /\ [][Next]_vars

(* The decompiler goes on visiting candidates, a visit runs to its end and *)
(* the workers keep working.                                               *)
FairSpec ==
    /\ Spec
    /\ WF_vars(MainStep)
    /\ WF_vars(EscalationEnds) /\ WF_vars(DeferralEnds) /\ WF_vars(DeferralCounts)
    /\ WF_vars(\E k \in Keys : Visit(k))

-----------------------------------------------------------------------------
TypeOK ==
    /\ EntriesType
    /\ disk \in [Keys -> Entry]
    /\ opener \in Threads \cup {"none"}
    /\ store \in BOOLEAN /\ storeLoaded \in BOOLEAN
    /\ requireProof \in BOOLEAN
    /\ unflushed \in 0..(FlushEvery - 1)
    /\ settled \in BOOLEAN /\ uncounted \in BOOLEAN
    /\ pc \in MainAt /\ after \in MainAt
    /\ key \in Keys \cup {NoKey}
    /\ found \in Rewrites \cup {NoTree}
    /\ rows \in [Keys -> Entry]
    /\ escalation \in Seq(Jobs)
    /\ deferral \in Seq(Keys)

SoundEntry(k, entry) ==
    entry.outcome = "proved" /\ entry.proof_verified => <<k, entry.rewrite>> \in Sound

(* Proof gate: a rewrite is installed in a rule that requires a proof only *)
(* when it is equivalent to the candidate, whichever tier, worker, earlier *)
(* configuration or earlier session it came from.                          *)
ProofGate ==
    pc = "install" /\ requireProof => <<key, found>> \in Sound

(* Every row of the durable cache that a load would trust is right, across *)
(* crashes, evictions and sessions that ran with the proof gate off.       *)
DurableSound == \A k \in Keys : SoundEntry(k, disk[k])

(* Flush before evict: a settled entry that the bounded table pushes out   *)
(* is on disk afterwards, "so an evicted entry reaches disk on its way     *)
(* out".                                                                   *)
EvictedReachesDisk ==
    [][\A k \in Keys :
          store' /\ Durable(entries[k]) /\ entries'[k] = Absent
             => disk'[k] = entries[k]]_vars

(* After an orderly shutdown everything durable in the table is on disk,   *)
(* including the proofs that the escalation prover recorded without        *)
(* telling anybody.                                                        *)
ShutdownPersists ==
    pc = "closed" /\ store
       => \A k \in Keys : Durable(entries[k]) => disk[k] = entries[k]

(* What a crash would lose: results in the table that are not on disk.     *)
Unsaved == {k \in Keys : Durable(entries[k]) /\ disk[k] # entries[k]}

(* A crash loses at most FlushEvery of the results of the main thread: the *)
(* ones it has counted since the last flush, and from the record that      *)
(* fills a batch, when the counter is back at zero, to the commit of that  *)
(* batch the whole of it (_record_and_maybe_flush, flush_store).          *)
CrashLosesABatch ==
    store => Cardinality(Unsaved) <=
                IF pc \in {"flush", "write"} THEN FlushEvery ELSE unflushed

(* No step replaces a proof by a negative result, in the table or on disk: *)
(* late answers of a worker never undo one that landed first.              *)
ProofNeverDowngraded ==
    [][\A k \in Keys :
          /\ IsProved(k) /\ entries[k].proof_verified
                => entries'[k].outcome # "no_rewrite"
          /\ disk[k].outcome = "proved" /\ disk[k].proof_verified
                => disk'[k].outcome # "no_rewrite"]_vars

DurableEntries == {NoRewrite} \cup {Proved(r, TRUE) : r \in Rewrites}

(* A settled result reaches the disk while the decompiler goes on, without *)
(* waiting for the shutdown, once the deferred solver has recorded a       *)
(* completion that the main thread has not collected, whether it has been  *)
(* counted yet or a visit comes in between and finds nothing to collect,   *)
(* unless a later result takes its place.  A proof of the escalation       *)
(* prover asks nobody for a flush: of it the same cannot be said.          *)
DeferredReachesDisk ==
    \A k \in Keys, e \in DurableEntries :
       store /\ (settled \/ uncounted) /\ entries[k] = e ~> disk[k] = e \/ entries[k] # e

=============================================================================
