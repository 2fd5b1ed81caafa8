# d810-CoBRA in TLA+

d810-CoBRA is a plug-in of the d810 deobfuscator. While Hex-Rays decompiles a
function, its rule `cobra-solve` reassembles mixed boolean-arithmetic
expressions from microcode, asks the CoBRA solver for a smaller equivalent one,
proves the equivalence with z3, and installs the result. The program is small,
but four things run at once: the decompiler's main thread, an off-path prover,
a background solver, and a durable cache that outlives the process. And what it
does must not change what a function computes.

This directory models both sides of that: the threads, tables, budgets and
files on one, and the path from microcode through trees, solver, proof and back
to microcode on the other. TLC checks the models on small instances; TLAPS
proves the safety of the workers, the rule, the activation and the z3 probe for
every instance.

Paths below are relative to `src/d810_cobra/` of the repository.

## 1. The system

| Component | Source | State it keeps | Operations |
|---|---|---|---|
| Rewrite table | `table.py` | a bounded map from canonical key to PROVED / NO_REWRITE / PENDING, an evict sink, a lock | `canonical_key`, `to_positional`, `instantiate`, `lookup`, `record_proved`, `record_no_rewrite`, `record_pending`, `clear_pending`, `clear_unverified`, `to_dict`, `from_dict`, `set_evict_sink` |
| Escalation prover | `escalate.py` | queue with its task count, thread, `_stopping`, `_state_lock`, z3 context | `start`, `stop`, `submit`, `drain`, the worker loop |
| Deferred solver | `deferred_solve.py` | queue, thread, `_stopping`, `_lock`, `_settled` | `start`, `stop`, `submit`, `take_settled`, `configure_timeout`, the worker loop |
| Durable proof cache | `store.py` | rows of `cobra_proofs_v2`, one sqlite connection | `load`, `put_entry`, `flush`, `close` |
| Live rule | `rules/cobra_solve.py` | the table, both workers, the store, `_store_loaded`, `_unflushed`, `require_proof`, a stack of solve budgets, an observation, the tables of the width-lift path | `configure`, `check_and_replace`, `flush_store`, `stop_escalator`, `close_store`, `begin_decompilation`, `end_decompilation`, `pending_provider_observation`, `record_mutation_accepted` / `_rejected` |
| Activation | `plugin.py` | the rules it created, `_closed`, a lock | `create_implementation`, `release_implementation`, `close` |
| Prover and availability | `prove.py`, `width_prove.py` | the cached answer "is z3 there" and its generation | `z3_available`, `prove_equivalent`, `prove_width_equivalent` |
| Detection | `detect.py` | the bindings of temporaries during one block walk | the two lifts, the inliner, `detect_candidates` |
| Batch executor | `executor.py` | a report | one pass over a function's candidates |
| Solve entry | `solve.py`, `expr.py`, `convert.py` | none | `solve_signature`, `evaluate`, `accept_rewrite`, `build_replacement` |
| Native binding | `_cobra.pyx`, `../cpp/cobra_shim.cpp` | none that lasts | flat encoding of a tree, a call of the C++ solver, decoding |
| Installation probe, build, release | `setup.py` and scripts | none | no part of the running system |

How they interact. The main thread calls `check_and_replace` for one
instruction at a time. It looks the expression up (tier 1), solves it and proves
the answer within a budget (tier 2), and hands a starved solve to the deferred
solver and a starved proof to the escalation prover (tier 3). Both mark the key
PENDING, queue it, and write their verdict into the same table from their own
thread. An instruction that mixes widths takes a path of its own with a table
of its own, and never reaches the workers. The table is bounded; what it pushes
out goes to the evict sink, which is the store, *on the thread that stored*. The
main thread flushes the table to the store in batches, when the deferred solver
has counted completions, and at shutdown. An activation calls `stop_escalator`,
`flush_store`, `close_store` of each rule it made, in that order. The batch
executor does not use any of that: it detects candidates across a whole
function, solves, proves and replaces them one after another.

What is hard about it:

* a key is PENDING while a job for it exists, and nothing else would ever make
  it a candidate again. Whatever ends a job must settle or release the key:
  a verdict, a stop, an exception, a full queue;
* `stop` takes candidates from the queue the worker is also taking from, puts
  a sentinel, joins (one worker under its lock, the other without it), may
  time out and be retried, and the thread may be started again;
* results arrive late: a PENDING after a proof, a refutation after a proof;
* the sqlite connection belongs to one thread, the sink runs on three;
* the process may die between a record and its flush, and rows written by an
  ungated configuration may already be on disk;
* `require_proof` can change under a table full of unproved rewrites;
* decompilations nest, and a solve is charged to the innermost one;
* the host may capture an attempt or not, and drains it later;
* z3 may be installed while three threads are asking whether it is there;
* calls that create, release and close overlap, and cleanup methods raise;
* a tree put together from several instructions is put back into one of them,
  after earlier candidates have already been replaced;
* two views of one register are one leaf or two; a rewrite is stored under leaf
  numbers and served over other leaves; a difference goes to the solver as a sum.

What makes each component correct:

* *table*: a settled entry is never replaced by PENDING; an evicted result is
  on disk; what is served computes what was asked;
* *workers*: every job of a running worker ends by deciding its key; queue and
  task count balance; a stop returns, leaves nothing behind, and the next start
  works;
* *store*: a row that a load trusts is right; a crash loses a batch at most;
* *rule*: a rule that requires a proof installs only equivalent rewrites, the
  width-lift path always; the allowance of a decompilation is kept; what the
  manager drains is about the visit that was made;
* *activation*: each rule is given up once and cleaned up once, completely;
* *availability*: who is told that z3 is there finds it; the cached answer is
  that of the newest generation;
* *detection, executor, solve entry, binding*: no rewrite changes what a block
  computes, the solver is asked about the candidate, and rewriting ends;
* *width proof*: the staged proof says of a rewrite what is true of it.

`PROJECT.json` lists every component with what is and is not modelled, and
under `hazards` each hard spot at its line.

## 2. The modules

```
        threads, tables, budgets                     what is computed

 RewriteTable --- EscalationProver(_proofs)    Expressions --- Microcode
   |    |   \          | implements                 |             |
   |    |    \    BackgroundProver                  |         Detection
   |    |     \        | implements                 |             |
   |    |      `- DeferredSolver(_proofs)      WidthProof   NativeBinding
   |    `------- MbaSolveRule(_proofs)               \          /
   `--- RuleVisits(_proofs)                           MbaPipeline
            |
 Z3Availability(_proofs)     Activation(_proofs) implements RuleOwnership
```

The specification modules form two groups. On the left, expressions are model
values and solver and prover are oracles; what is modelled is who does what
when. On the right, one instruction or one pass is a step, and the trees,
words and bits are there. The two meet in the definitions they both translate
from one function: a visit is many steps in `RuleVisits` and `MbaSolveRule` and
one in `MbaPipeline`.

**RewriteTable** is the shared table: the variable `entries` and one operator
per operation. Each holds the table's lock for its whole effect, so it is one
atomic step of whoever calls it. A key is a canonical key and a rewrite a
positional tree, both model values. `Evictions` is what the code relies on in
d810's `CacheImpl`, which is external: a new key in a full table drops one
entry, any one. Statistics are left out.

**BackgroundProver** is the abstract specification of a worker: jobs per key,
accepting or not. While it accepts work, a job ends in the very step in which
its key is settled with a verdict, sound if it is a proof, or released; only
after a stop has begun may it be abandoned. No threads, queue, sentinels or
locks.

**EscalationProver** and **DeferredSolver** are the two workers at the grain at
which their threads interleave. The state of a Python thread is the label of
the stretch of code it is about to run (`pc[c]` for a client, `worker` for the
worker). Stretches were cut wherever another thread may observe or change what
the next line uses: a queue operation, a table operation, a read of the
`_stopping` event, taking or releasing the lock.

| Code | EscalationProver | DeferredSolver |
|---|---|---|
| `start` | `Start` | `Start` |
| `submit` | `BeginSubmit`, `MarkPending`, `Enqueue` | the same |
| `stop` | `StopDead`, or `SignalStop`, `CancelQueued`*, `CancelDone`, `Wake`, `JoinReturns` or `JoinTimesOut` | `BeginStop`, `CancelQueued`*, `CancelDone`, `Wake`, then without the lock `JoinReturns`, `Forget` or `JoinTimesOut` |
| `queue.get` in the worker | `TakeItem`, `TakeWakeup` | the same |
| proving or solving | `ProverAnswers`, `ProverRaises` | `SolveFinds`, `SolveUnchanged`, `SolveGivesUp`, `ProofSucceeds`, `ProofFails` |
| the verdict | `Judge`, `RecordVerdict` | `RecordProof`, `RecordNegative`, `Count`, `ReleaseKey` |
| `task_done`, leaving | `TaskDone`, `Leave` | the same |
| `take_settled` | | `TakeSettled` |
| the live rule | `RuleSettles` | `RuleSettles` |

`unfinished` is the queue's task count, the number `drain` waits for. z3 and
the solver are oracles: an answer, when there is one, is right with respect to
the constant `Sound`; it may always fail to come.

**MbaSolveRule** (the class `CobraSolveRule`) composes the live rule, the table
and the store. The main thread's position in `check_and_replace` is `pc`;
`MainStep` follows the function from `EnsureStore` to `Install`, with the early
returns where the code has them. A flush is two steps (`FlushRead` under the
table's lock, `FlushWrite` in one transaction), because the workers go on
between them. The workers are represented by their promise: a FIFO whose head
is decided in one step (`EscalationEnds`, `DeferralEnds`); what the deferred
worker has recorded it counts in a step of its own (`DeferralCounts`), and a visit
may come in between. `opener` is the
thread that opened the sqlite connection; `Sink` writes only on that thread, or
opens the connection if there is none. `Restart` is a crash at any moment, or
the next session: all but `disk` is lost.

**RuleVisits** is the other half of the same rule: what it keeps from one call
to the next besides the durable side. `Begin` and `End` are
`begin_decompilation` and `end_decompilation` with their stack of allowances;
`Visit`, `Lookup`, `AskBudget`, `Solve`, `AskProver`, `Prove`, `Record` are the
plain path and `LookupWidth`, `SolveWidth`, `WidthUnsupported`, `ProveWidth` the
width-lift path with its own table and abstentions; `Raise` is the handler that
lets no exception out; `Decide` and `Drain` are the manager's answers to an
attempt, and `GoOnUndrained` a manager that does not drain it, so that the next
visit meets what was left; `Configure`, `InstallSupport`, `AskAgain` and `GateOpen` are
`configure`. Time is counted in fractions of a millisecond, because the code
cuts a remaining allowance to whole ones.

**Z3Availability** is `z3_available`: one step per access to its two globals,
any number of threads, an installer that changes the world in between, and
`Reset` by those threads (`Resetters`) that may have z3 installed. `QuietSpec` is
the same when announcements and resets come while nobody asks; in `Z3Spec` they
come at any time. `RuleVisits` extends it: its main thread is one of those threads.

**Activation** is `plugin.py`: `Create`, `CreateAfterClose`, `Release`, `Close`
under the lock, then `CleanUp`, one method of one rule per step, outside it.
**RuleOwnership** is what it promises, without calls or locks: a rule goes from
unborn to owned to leaving to gone, once.

**Expressions** holds the trees of `expr.py` (a record per node, in the set
`Trees` of those no deeper than `TreeDepth`; a recursion of the source is a
recursive function on that set), their evaluation modulo a power of two, signature, node count, acceptance, and the
canonical form of `table.py`. **Microcode** is the reference the pipeline is
held to: what Hex-Rays instructions do to a store. It is external, and
independent of `expr.py`'s evaluator but for the arithmetic of words.
**Detection** is `detect.py`: `Lift` and `WidthLift` are its two tree builders,
`Aliases` the views of a register, `Inline` the inliner, `LiveCandidate` what the
live rule sees in one instruction and `DetectCandidates` the walk of a block.
**NativeBinding** is `_cobra.pyx` with `solve_signature`: `Encoded` is the flat
array, `Decoded` its reading, `NativeAnswers` what the C++ solver may write back:
anything in the constant `Answers` with the right signature *on 0 and 1*, equal
or not, and things that must be refused. **WidthProof** is `width_prove.py`:
grammar, budgets, kernels, groups of bits, and the obligations of the stage
chain. `Instructions`, `ArrayNodes` and `LiftedTrees` are the sets the other
recursions run over: microcode nested up to `InstructionDepth`, the nodes of a
flat array, and the trees that come out of a lift or the solver. A tree that is
deeper is refused (`Bounded`), as the source refuses a nesting that is too deep
(`_MAX_INLINE_DEPTH`, or Python's own limit). **MbaPipeline** puts them together: `TableHit`, `SolveVisit` and
`WidthVisit` are a visit of the live rule, `StartPass` and `NextCandidate` a pass
of `run_mba_solve`, and `Install` is `convert.py`.

The modules whose names end in `_proofs` hold the theorems of the module they
are named after (those of `Z3Availability` are in `RuleVisits_proofs`, whose rule
asks for it). **MCEscalation**,
**MCDeferred**, **MCRule**, **MCActivation**, **MCVisits** and **MCPipeline**
give the constants small values. Each run checks the specification module
itself; a `.cfg` only gives constants their values.

A definition whose comment begins "Mutant of" is not part of any specification:
it is the definition that follows it with a plausible bug, kept to show that
the property named in `PROJECT.json` notices that bug.

## 3. What is checked

| Run | Instance | Properties | Shows |
|---|---|---|---|
| `escalation` | 2 clients, 2 keys, 2 rewrites, table of 1, queue of 2, fair | `TypeOK`, `NothingLeftBehind`, `ResultNeverBecomesPending`, `JobsLeaveDecided`, `ImplementsPromise`, `StopReturns`, `PendingIsDecided` | with untimed stops and a prover that answers, the escalation prover does all it should |
| `escalation_timed` | as above, 1 rewrite, table of 2; stops may time out, the prover may raise | `TaskAccounting`, `PutNeverFull`, `StoppedIsClean` | what survives retries and exceptions |
| `escalation_raise` | 1 client, the prover may raise | violates `JobsLeaveDecided` | finding 1 |
| `deferred` | 2 clients, 2 keys, 2 rewrites, table of 1, queue of 2, one stop per worker, fair | `TypeOK`, `NothingLeftBehind`, `PendingIsOwned`, `TaskAccounting`, `ImplementsPromise`, `PendingIsDecided`, `StopEndsWorker` | the deferred solver, used as `stop_escalator` uses it |
| `rule` | 2 keys, 1 rewrite, table of 1, queues of 1, everything may fail, both proof modes | `TypeOK`, `ProofGate`, `DurableSound` | soundness of what is installed and kept |
| `rule_inline` | 2 rewrites, table of 1, nothing starves | `CrashLosesABatch`, `EvictedReachesDisk` | durability while only the main thread stores: a crash loses at most a batch |
| `rule_roomy` | 2 rewrites, table of 2, workers busy, fair | `ShutdownPersists`, `ProofNeverDowngraded`, `DeferredReachesDisk` | shutdown, late refutations, completions |
| `rule_evict` | table of 1, workers busy | violates `EvictedReachesDisk` | finding 3 |
| `activation` | 3 threads, 3 rules, constructions that fail, cleanup methods that raise, fair | `TypeOK`, `ImplementsOwnership`, `CloseLeavesNothing` | each rule is given up once and cleaned up once, however calls overlap |
| `visits` | 1 key with a right and a wrong rewrite, tables of 1, 2 sessions, allowance of 1 ms in halves under a limit of 2, solver up to half a millisecond late, 1 installation and resets, drained or not, both proof modes | `TypeOK`, `ObservationTruthful`, `BudgetHonoured`, `WidthInstallsProved`, `AnswerIsFresh` | what the rule keeps between visits of both paths |
| `pipeline` | 480 blocks of 3 instructions, widths of 1 and 2 bits | `ServesOnlyEquals`, `EncodingFaithful`, `WidthVerdictExact`, `LiveRewriteSound`, `PassRewriteSound`, `RewritingEnds` | no rewrite changes what a block computes, and rewriting ends |
| `pipeline_stale` | one block in which a part of an input is written between a definition and a use, with and without value numbers | violates `EveryRewriteSound` | finding 5 |

*Bounds of the threaded models.* Keys do not interact except through the
table's room and the queue's, so two of them, with a table of one, already give
every eviction, and a queue of two gives a queue that is full, and a candidate
in front of a sentinel. Two clients are the two calls that can overlap (a main
thread and a thread that shuts down). One right and one wrong rewrite per key
distinguish a proof from a refutation. `FlushEvery = 2` is the least value that
leaves a record unflushed. No counter needs a bound: the queue is bounded by
`MaxQueue`, and it bounds `unfinished`. Counters that would grow are kept as
what the code asks of them: `settled` is `_settled > 0`, and `unflushed` counts
only when there is a store. Three threads and three rules let a create, a
release and a close of the same rule overlap while another is being cleaned up.
In `visits`, one key is enough because the two tables and the abstentions are
asked for the key of the visit only; its eviction is what a key that was
forgotten and is visited again looks like. Two sessions nest; the allowance of
one millisecond in halves, below the limit of a solve, gives a limit that is cut,
an allowance that is used up, and one below a millisecond. The only thread that
asks for z3 there is the decompiler's; several are a matter of proof. Sessions are
interchangeable, hence the symmetry; only invariants are checked there.
Deadlock is checked in every run.

*Bounds of the pipeline.* A byte has one bit, and instructions are one or two
bytes wide, so a word is two bits: enough for a carry out of the low byte, for a
mask that cuts, for a sign that is extended, and for an answer that agrees with
the candidate on 0 and 1 and not elsewhere. Each block takes one instruction
from each of three lists: a definition of a temporary; a second use, another
sum, an input written again in whole or in part, an opcode that is not lifted, a
self-reference, or mixed widths; and a use of what came before. Each comes with
and without value numbers, and with the last two instructions at one address or
at two. The solver knows the leaves, their negations and complements, two
constants and every sum, conjunction, disjunction and exclusive or of two of
those. Trees are up to 12 deep, and so lifted trees up to 6 (an encoded
difference may put a negation under each node); instructions nest up to 8 deep,
more than any of the blocks or their rewrites need. Every store is tried when two blocks are compared, and every assignment
when a proof is asked for. Not reached at this width: a group of bits wider than
one bit whose coefficient must be reduced by more than its place (that needs
three bits), and shifts by more than one.

*Fairness.* A thread that can run does. `EscalationProver` needs weak fairness
of the worker and of each client inside a call: the prover is called with a
timeout, and nothing else can disable a step once it is enabled. In
`DeferredSolver` the worker's `Count` and stop's `Forget` wait for `_lock`, and
other threads may take it any number of times in between, hence strong
fairness; this assumes that a lock that is free again and again is got in the
end, which Python's `RLock` gives in practice and does not promise. Nobody is
assumed ever to call `start`, `stop` or `submit`. `MbaSolveRule` assumes in
addition that the decompiler keeps visiting candidates (`Visit`), which is what
"a later flush" depends on; a crash is never required and never excluded.
`Activation` assumes that a call that has begun to clean up goes on, which rests
on the two stops returning: `StopReturns` and `StopEndsWorker`. `RewritingEnds`
of the pipeline needs no fairness: it says that a block is changed only finitely
often, and a system that does nothing satisfies it.

*Premises.* `MbaPipeline` names what the code assumes of a block.
`DistinctAddresses`: `_find_instruction` (`executor.py:203`) takes the *first*
instruction at an address (finding 7), and two candidates at one address may
replace the same one, possibly for ever. `Undisturbed`: nothing an instruction
reads is written after it, and a place that is written is always taken at one
width (finding 5). `PassRewriteSound` is stated for blocks with both,
`RewritingEnds` for those with the first; `LiveRewriteSound` has no premise.

## 4. Findings

1. **A raising prover strands its key** (`escalate.py:195-197`). The exception
   is logged and the entry stays PENDING with no job. The rule's comment says
   that the prover owns a pending key; here nobody does, and every later visit
   skips it. The deferred solver clears the key in the same place. Run
   `escalation_raise`.
2. **Retried stops leave a sentinel** (`escalate.py:129`). Two stops that time
   out leave two sentinels for one worker; when it dies before a third call, a
   start finds the other one and its new worker leaves at once. No run shows it,
   since no document promises anything about it: `NothingLeftBehind` is checked
   and proved for stops without a timeout, and `StoppedIsClean` shows that a
   *successful* stop does clean up.
3. **An eviction by a worker is lost** (`store.py:159-174`). The write fails on
   another thread's connection and the error is swallowed, against "anything
   pushed out must reach disk on its way". Run `rule_evict`.
4. **An escalated proof waits for somebody else's flush** (`escalate.py:219-223`).
   Nothing counts it; the comment in `prove.py:138-141` says that it is flushed.
   `ShutdownPersists` shows that an orderly shutdown does write it.
5. **A stale binding is inlined** (`detect.py:376-377`). Walking an instruction
   replaces or drops the binding under the name of its destination; a binding
   whose tree *reads* the destination, or the place the destination is a part of,
   stays. In the run's counterexample, `t := a + b`; 1 to the low part of `a`;
   `r := t - (a & b)`, the part has a name of its own, so `a` is not bound and `t`
   still is `a + b`. The last instruction is reassembled over the new `a`, solved,
   proved, and rewritten to `a | b`. `executor.py:5-6` says that refusing is always safe and that
   correctness is never traded for yield. Run `pipeline_stale`. The live rule
   looks at one instruction and has no bindings.
6. **Two overlapping probers may leave a stale "absent"** (`prove.py:154-156`).
   The main thread asks at generation 0 and finds no z3; z3 is installed and
   announced; a worker asks at generation 1, probes, and stores that it is there;
   the main thread stores its absence over that, and its stamp 0; the worker
   stamps 1. "No z3" now stands under the newest generation, and nobody probes
   until the next announcement, against `prove.py:43-45`, where a cached "absent"
   can be detected as stale, and `rules/cobra_solve.py:337-339`, where the gate
   opens after an installation. A reset during a call is milder: that one call
   answers None, which its caller takes for absent. No run shows either, but both
   are the reason for what `AnswerIsFresh` is proved under (section 5): one
   prober, or announcements and resets that find nobody asking.
7. **A rewrite is put where another instruction is** (`executor.py:203`). In
   `t := a + b; u := b; r := t - (a & b)` whose last two instructions have one
   address, `a | b` becomes what `u` is set to, and `r` is left as it was, although
   `executor.py:118-119` matches a candidate "back to the instruction it came
   from" by that address. No run shows it: it is what the premise
   `DistinctAddresses` excludes.

## 5. What is proved

All theorems are about the specification of the module, for every set of keys,
rewrites, rules, clients and threads, every queue, table and batch size and
every value of the switches.

*EscalationProver_proofs.* `TypeCorrect`, `TaskCountBalances`,
`NoPutRaisesFull`, `StopLeavesNothing`, `ResultsStay`, and `RestartIsClean`,
which assumes `~TimedStops` (finding 2 is what happens without it). The
inductive invariant `IInv` adds to the properties three facts they cannot do
without: `LockInv`, that a client in the middle of a call is the one that holds
`_state_lock`, which serialises submits and stops; `HandsInv`, that the worker
holds a real candidate with a verdict exactly where it uses them, and that a
submitting client has its candidate; and `RoomInv`, that the client that is
about to put found room and, holding the lock, is the only one that could have
used it up. The worker only takes, so room stays. `RestartIsClean` rests on one
more invariant, that a sentinel is in the queue, or in the worker's hand, only
while a client is joining. `ResultsStay` is an action property, from a lemma on
each table operation.

*The promise of the escalation prover* (the same module). `LastJobDecides` (`JobsLeaveDecided`) and
`KeepsPromise` (`ImplementsPromise`), for stops that wait and a prover that
answers: with a prover that raises the first is false (finding 1). `StepsInv` says
of each place in a call what the lock makes true there: a submit runs only while
no stop does, the key it is about to mark is not pending, a stop that joins has
left no candidate, and a candidate that is finished while nobody stops has its
key decided, unless another candidate of that key waits. For the refinement a
candidate is counted where it is: in the queue, in the worker's hand, or with the
submit that has marked its key (`JobsCounted`); the lemmas on `Queued` say what
putting and taking do to the count. Marking is the promise's submit, recording is
an end, cancelling and dropping are abandonments, and every other step leaves the
count of every key alone.

*DeferredSolver_proofs.* `TypeCorrect`, `TaskCountBalances`, `NoPutRaisesFull`,
`PendingHasOwner` and `ResultsStay`, without assuming that a worker is stopped
only once: these survive overlapping stops. Here stop gives its lock back before
the worker has taken the sentinel, so the lock covers less, and the invariant
has to say for each label of a client whether it holds it. `PendingHasOwner` is
the one that needs most: a pending key has its job in the queue, in the worker's
hand or in the hand of a client between `MarkPending` and `Enqueue`, and each
step that removes a job from one of these places must settle or release the key
or put the job in another.

*The promise of the deferred solver* (the same module). `KeepsPromise` (`ImplementsPromise`), counting jobs
in the same way and without any assumption on the stops: a stop that forgets a
thread, or a start after one, only closes or opens the promise. And
`RestartIsClean` (`NothingLeftBehind`) for `StopOnce`: after the one sentinel is
put, into an empty queue, nothing may be put behind it, so the worker that takes
it leaves the queue empty.

*MbaSolveRule_proofs.* `TypeCorrect`, `GateHolds` (`ProofGate`) and
`DurableCacheSound` (`DurableSound`). `ProofGate` is about one moment of one
thread, but a rewrite gets there through the table, which was filled by two
workers and by rows on disk, which were written from an earlier table, perhaps
with the gate off. So the invariant says that a *verified* entry is sound
wherever it is: in the table, on disk, and in the rows a flush has read and not
yet written (`TableSound`, `DurableSound`, `RowsSound`); and that the rewrite
the main thread carries has passed the gate at every point from which it can
reach `Install` without passing it again, including while a flush comes in
between (`CarriedSound`, over `pc` and `after`). `SettleKeeps` is the lemma that
carries the proof: a store of a sound entry, with its eviction through the sink,
on any thread.

Five more are about what reaches the disk. All of them assume `~OpenMayFail` (a
cache that cannot be opened keeps nothing), and `StoreInv` says what that buys:
until the store has been loaded there is nothing to lose, while it is open it is
the main thread's connection, and a flush only runs on an open store.

* `OrderlyShutdownSaves` (`ShutdownPersists`), for workers that stop in time.
  `ShutdownInv` follows the order of the shutdown: each worker's queue is empty
  once it has been stopped, so nobody settles anything during the last flush, the
  rows it has read are still what the table holds when it writes them
  (`FlushReads`, `WriteSaves`), and nothing is unsaved at the close.
* `CrashLosesOneBatch` (`CrashLosesABatch`) and `EvictedIsSaved`
  (`EvictedReachesDisk`), while nothing starves and so no worker has anything to
  settle. `BatchInv` counts: the keys whose entry is not on disk are at most as
  many as `unflushed` says, and from the record that fills a batch, when the code
  has set the count back, to the commit of that batch at most `FlushEvery`
  (`Losable`). A record adds one to either side, whatever it evicts
  (`RecordAddsOne`), a flush may begin at any count (`FlushBegins`), and its
  commit takes both to zero.
* `OnlyWorkersLoseEvicted` is what remains of the second without that assumption,
  and bounds finding 3: a step that loses a settled entry by evicting it is a step
  of one of the two workers, never of the main thread.
* `ProofsPrevail` (`ProofNeverDowngraded`), in a table with room for every key.
  A negative result is only ever recorded under a key that a lookup did not find
  or that a worker had been given, and `KeepInv` carries that over the steps in
  between: no two jobs have the same key and that key is still pending, the
  candidate the main thread works on is not in the table, and a proof on disk is
  a proof in the table too, so that a flush (`RoomyDisk`: the only writer then)
  cannot put an older negative over it.

Each assumption is needed, as TLC shows on `MCRule`: `ShutdownPersists` fails
with `StopTimesOut` or `OpenMayFail`, `CrashLosesABatch` with `Starving` or
`OpenMayFail`, `EvictedReachesDisk` with `Starving` (`rule_evict`),
`ProofNeverDowngraded` with a table of 1 or `OpenMayFail`.

*Activation_proofs.* `TypeCorrect`, `Exclusive` (`OneOwner`) and `Refinement`:
every behaviour of the threaded activation is one of `RuleOwnership`. `OneOwner`
is the inductive invariant: owned rules are untouched, a rule waits for cleanup
in one call at most and then has methods left, and one that is neither has had
all three. The refinement needs all of it: that a `CleanUp` which is not the last
is a stutter, and that the last one makes the rule gone and no other, follow
only because no other call has the rule.

*RuleVisits_proofs, on z3's availability.* `Z3TypeCorrect`; `ToldIsBound`
(`ModuleBound`) for any number of threads and whatever overlaps, where the
invariant is that the module is bound wherever a "yes" is: in the cache, in a
probe's hand, in what a caller was told. `AnswerIsFresh` says that a call that
began after an announcement answers yes, neither no nor nothing, and is proved
twice. `SingleProberIsFresh`, for one thread, rests on the stamp never being ahead
of an answer: while it is not being written, a cached "no" stands under a
generation only if z3 was not there when that was announced. `QuietIsFresh`, for
any number of threads under `QuietSpec`, rests on `QuietInv`: all calls under way
have read the newest generation, so what one of them finds is what the others
find, and an older absence does not carry that generation. `ModuleBound` and the
first kind of freshness are lemmas on single steps (`BoundNext`, `FreshNext`, the
second for one prober among any number of threads that neither ask nor reset), so
that a component that makes these steps among its own can cite them.

*RuleVisits_proofs, on visits.* `TypeCorrect`; `BudgetIsKept` (`BudgetHonoured`), `ObservationsAreTrue`
(`ObservationTruthful`) and `WidthStaysProved` (`WidthInstallsProved`), for any
allowance and nesting, any set of keys and any number of visits. `VisitInv` says
of the tables that every proved entry of the width-lift path is sound, and of the
visit under way that its attempt is open exactly while it was captured and has
not ended, that what is left of an earlier one is not taken for it, that nothing is
returned before the end, and that only the plain path
reaches the place where the plain table is written; `EndsWell`, the lemma about
how a visit ends, carries the other two through every early return. `BudgetInv`
says that an allowance which is not used up still covers what its decompilation
has spent, that a solve under way fits in what is left, and that the sessions on
the stack are distinct, so that a solve is charged to one of them only.
`VisitsFindZ3Bound` (`ModuleBound`) and `VisitsAnswerIsFresh` (`AnswerIsFresh`)
bring the facts about z3 to the rule that asks for it. The rule is not simply a
`Z3Spec` with more variables: `InstallSupport` installs and announces in one
step. Freshness assumes that nobody else resets the detection
(`Resetters \subseteq {Main}`; nothing in the repository but its tests does, and d810's installer runs on that
thread). `VisitsAskAlone` shows that every other step is one of the availability's
with the main thread as the only prober, or leaves it alone, and
`InstallKeepsZ3` that this one keeps the invariants too. `TimesInv`, for
`TypeCorrect`, is the part of `BudgetInv` that is true without an allowance: the
limit of a solve that is charged is a number.

*Expressions_proofs.* The trees are sets built layer by layer from a depth bound
(`TreesTo`), and what the source does by recursion is a recursive function on
`Trees`. The library's induction theorems cannot be used (they take an operator
as a parameter), so both principles are stated with sets. Induction: the set of
trees for which a fact holds, if it has the leaves and has a node whenever it has
its children, is all of `Trees`; the depths for which that fails would have a
least element. Recursion: a function like `value` is the union of its layers, one
for each depth, and satisfies its own equation at every tree. From these come the
equations of `Evaluate`, `Walk`, `Rename` and the other recursions, and facts by
induction: evaluation depends only on the values of the leaves, renaming leaves
is substituting their values, names are listed once each. `KeyCarriesRewrite` is
what they are for: if two expressions have one canonical key, what was proved
equivalent to the first, put in positions and given the leaves of the second, is
equivalent to the second and reads only its leaves. A proof is therefore as good
for a stranger that is served from the table as for the expression it was made
for, at every width and with any number of leaves, repeated ones included.

*WidthProof_proofs.* `WidthVerdictSound`: what `prove_width_equivalent` calls
proved is equivalent, and what it calls refuted is not, for any two trees and
every width. The obligations are hypotheses here, checked by the code; the
theorem is that they are the *right* ones. Entries times weights are the skeleton
(`SkeletonHolds` at the values of the kernels), each kernel is its linear form,
collecting is regrouping a double sum, and reducing a coefficient changes nothing
at the value of its atom; so each side equals its normal form on every word, and
comparing normal forms is comparing sides. The argument uses every obligation.

`WidthVerdictComplete` is the other half: where the grammar and the budgets
admit a pair, no obligation fails, so the verdict is *proved* or *refuted* and
never *unknown* (that z3 may run out of time over one is in `RuleVisits`).
`StagesAlwaysHold` proves each obligation of every linear tree. The skeleton is
the weighted sum of its kernels because factors pass through sums, negations and
products with constants (`SkeletonIsSum`, by induction on the tree). A kernel is
linear in its groups (`KernelStage`) because it works bit by bit
(`KernelIsBits`), cannot tell two bits apart that its constants do not
(`BitValueSame`), and every bit has exactly one group, with whose lowest bit all
constants agree (`GroupOfBit`); what the groups contribute is added up bit by
bit (`GroupsAddUp`). Collecting swaps two sums (`SumSwap`), and what reduction
drops from a coefficient is a multiple of the word at any atom, whose bits below
the group are zero (`BitSumMultiple`). The lemmas on sums and on numbers as sums
of their bits are in Expressions_proofs. So the obligations guard against a slip
in computing a side, not against hard inputs: computed as in the source, a side
has none that can fail. A sum over a set is a fold that picks its elements in an
order nobody chose: `SumUnfold` ties it to that order, `SumAnyOrder` frees it of
it, and the rest is by induction on sets.

*MbaPipeline_proofs.* `TablesHoldProofs`, `ServesOnlyEqualsAlways`
(`ServesOnlyEquals`) and `EncodingFaithfulAlways` (`EncodingFaithful`), for
every set of programs, every solver (`Answers` is an operator about which
nothing is assumed), and every bound, and `WidthVerdictExactAlways`
(`WidthVerdictExact`), which is `WidthVerdictComplete` for whatever the walk
finds and the solver says. `PipelineInv` is the inductive invariant. What a
table serves is a claim about instructions that have not been seen yet, so the
invariant cannot speak of the instructions of the block; it says of every proved
entry that *some* expression had that key and *some* rewrite equivalent to it is
what the entry keeps in positions, which every record establishes (through a
brute proof on the plain path, `WidthVerdictSound` on the other) and
`KeyCarriesRewrite` turns into a right answer for whoever asks. It also says
that the block stays a sequence and that what a pass has queued was found by a
walk, so that a queued candidate is a tree with its own leaves in order. It
quantifies over all trees, so TLC does not evaluate it: it checks the
consequences. `EncodingDenotes` is the lemma behind both the second theorem and
the solver's answers: by induction on the tree, flattening only appends to the
array, leaves what is there alone (`BuildStable`: an index below the root reads
the same after more nodes are added), and ends in a node that reads back as an
equal tree, in which a difference has become a sum with a negation.

*Assumptions.* `Sound` relates keys to rewrites; the names of idle threads and
empty hands are not keys or jobs; bounds are positive; switches are Boolean.
That z3 is right when it answers, and that d810's installer announces only what
it has installed, is built into the actions, not assumed of the code. TLC
evaluates all assumptions in the passing runs. Of the pipeline only the shapes of
its constants are assumed: depths and bounds are numbers, a byte has at least one
bit, and a program is a sequence of instructions.

*Only model-checked.* Every invariant, action property and refinement of the
workers, the rule, its visits, activation and z3's availability that a passing
run checks is also proved. What is left to TLC is every liveness property
(`StopReturns`, `PendingIsDecided`, `StopEndsWorker`, `DeferredReachesDisk`,
`CloseLeavesNothing`, `RewritingEnds`: liveness under fairness and `ENABLED` are
out of the prover's reach), and two properties of the pipeline:
`LiveRewriteSound` and `PassRewriteSound` relate a rewrite to what
microcode does to a store: that needs the meaning of every opcode against both
lifts and against the reconstruction, bit by bit.

## 6. What is not modelled

* z3, the CoBRA solver, Hex-Rays, d810 and sqlite are outside: oracles, or the
  rules by which the code uses them. The C++ solver behind the shim is a git
  submodule whose sources are not in the repository.
* A visit is not interrupted by `configure` or a shutdown: both run on the main
  thread.
* In the composed rule the workers are atomic; their inner interleavings are in
  their own modules. A deferred worker that outlives its stop is kept there
  (`StopTimesOut`), but not beyond the next session.
* The worker's own z3 context (`escalate.py:187`): whether sharing the default
  one with the main thread does harm is z3's affair.
* A second process writing the same database; corrupt rows; the text of JSON and
  SQL; the histograms, reports and statistics.
* `cobra-cli` as a fallback of the executor and the parser of its output
  (`solve.py`), the executor without proofs, the solver's clock within one native
  call, buffers and their sizes in the binding.
* Shifts: the pipeline lifts `shl` by a constant and refuses a shift in an answer,
  so `clamp_shift_amounts` has nothing to act on.
* Stores through pointers and calls, which write places no instruction names;
  several blocks (bindings are cleared at each, so one stands for all, but for the
  expressions already seen).
* Build, packaging, release scripts, and the installation probe: no state.

## 7. Plan

Done: the tables, workers, rule, activation, availability, visits and the
pipeline, with the proofs above. What is left, in this order:

1. Proofs: the lifts against the meaning of microcode, and with them
   `LiveRewriteSound`.
2. Proofs: how many results a crash may lose while the workers settle some
   themselves, which needs a bound the code does not state.
3. The pipeline at three bits a word, with fewer blocks: groups of bits wider
   than one, coefficients that a group's place cuts.
4. The composition of `Z3Availability` with both workers, and with it how often
   their calls can overlap with an installation.
5. A detection across several blocks, with the expressions already seen.
6. The executor without proofs and with `cobra-cli`, as far as its text format
   can be treated as data.
