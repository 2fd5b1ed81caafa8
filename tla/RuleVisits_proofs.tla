-------------------------- MODULE RuleVisits_proofs --------------------------
(***************************************************************************)
(* Theorems about what the live rule keeps between visits, for every set   *)
(* of keys, rewrites and decompilations, every allowance, limit and        *)
(* overrun, and every table size.                                          *)
(***************************************************************************)
EXTENDS RuleVisits, TLAPS

(***************************************************************************)
(* Theorems about the cached availability of z3, for every set of threads  *)
(* and every number of announcements.                                      *)
(***************************************************************************)

LEMMA Z3TypeInit == Z3Init => Z3TypeOK
<1> SUFFICES ASSUME Z3Init PROVE Z3TypeOK
  OBVIOUS
<1>1. generation \in 0..MaxGeneration /\ stamp \in -1..MaxGeneration
  BY MaxGenerationAssumption DEF Z3Init
<1>2. seen \in [Threads -> 0..MaxGeneration]
  BY MaxGenerationAssumption DEF Z3Init
<1>3. /\ installed \in BOOLEAN /\ available \in Answers /\ bound \in BOOLEAN
      /\ at \in [Threads -> {"idle", "check", "probe", "store", "stamp", "answer"}]
      /\ found \in [Threads -> {"yes", "no"}] /\ told \in [Threads -> Answers]
  BY Zenon DEF Z3Init, Answers
<1> QED BY <1>1, <1>2, <1>3 DEF Z3TypeOK

LEMMA Z3TypeNext == Z3TypeOK /\ [Z3Next]_z3Vars => Z3TypeOK'
<1> SUFFICES ASSUME Z3TypeOK, [Z3Next]_z3Vars PROVE Z3TypeOK'
  OBVIOUS
<1> USE DEF Z3TypeOK, Answers
<1>1. CASE Environment
  <2>1. CASE Install
    <3>1. installed' \in BOOLEAN
      BY <2>1 DEF Install
    <3> QED BY <2>1, <3>1 DEF Install
  <2>2. CASE Announce
    BY <2>2, MaxGenerationAssumption DEF Announce
  <2>3. CASE \E t \in Resetters : Reset(t)
    BY <2>3 DEF Reset
  <2> QED BY <1>1, <2>1, <2>2, <2>3 DEF Environment
<1>2. ASSUME NEW t \in Threads, Ask(t) PROVE Z3TypeOK'
  BY <1>2 DEF Ask, Move
<1>3. ASSUME NEW t \in Threads, Check(t) PROVE Z3TypeOK'
  BY <1>3 DEF Check, Move
<1>4. ASSUME NEW t \in Threads, Probe(t) PROVE Z3TypeOK'
  <2>1. bound' \in BOOLEAN
    BY <1>4 DEF Probe
  <2> QED BY <1>4, <2>1 DEF Probe, Move
<1>5. ASSUME NEW t \in Threads, StoreAnswer(t) PROVE Z3TypeOK'
  BY <1>5 DEF StoreAnswer, Move
<1>6. ASSUME NEW t \in Threads, StoreStamp(t) PROVE Z3TypeOK'
  BY <1>6 DEF StoreStamp, Move
<1>7. ASSUME NEW t \in Threads, Answer(t) PROVE Z3TypeOK'
  BY <1>7 DEF Answer, Move
<1>8. CASE UNCHANGED z3Vars
  BY <1>8 DEF z3Vars
<1> QED BY <1>1, <1>2, <1>3, <1>4, <1>5, <1>6, <1>7, <1>8 DEF Z3Next, Answering

(* Types: every variable of the availability keeps its type.               *)
THEOREM Z3TypeCorrect == Z3Spec => []Z3TypeOK
BY Z3TypeInit, Z3TypeNext, PTL DEF Z3Spec

-----------------------------------------------------------------------------
(* "yes" is only ever found, stored and told once the module is bound.     *)
BoundInv ==
    /\ available = "yes" => bound
    /\ \A t \in Threads : at[t] \in {"store", "stamp"} /\ found[t] = "yes" => bound
    /\ ModuleBound

LEMMA BoundInit == Z3Init => BoundInv
BY DEF Z3Init, BoundInv, ModuleBound

LEMMA BoundNext == Z3TypeOK /\ BoundInv /\ [Z3Next]_z3Vars => BoundInv'
<1> SUFFICES ASSUME Z3TypeOK, BoundInv, [Z3Next]_z3Vars PROVE BoundInv'
  OBVIOUS
<1> USE DEF Z3TypeOK, BoundInv, ModuleBound
<1>1. CASE Environment
  BY <1>1 DEF Environment, Install, Announce, Reset
<1>2. ASSUME NEW t \in Threads, Ask(t) PROVE BoundInv'
  BY <1>2 DEF Ask, Move
<1>3. ASSUME NEW t \in Threads, Check(t) PROVE BoundInv'
  BY <1>3 DEF Check, Move
<1>4. ASSUME NEW t \in Threads, Probe(t) PROVE BoundInv'
  BY <1>4 DEF Probe, Move
<1>5. ASSUME NEW t \in Threads, StoreAnswer(t) PROVE BoundInv'
  BY <1>5 DEF StoreAnswer, Move
<1>6. ASSUME NEW t \in Threads, StoreStamp(t) PROVE BoundInv'
  BY <1>6 DEF StoreStamp, Move
<1>7. ASSUME NEW t \in Threads, Answer(t) PROVE BoundInv'
  BY <1>7 DEF Answer, Move
<1>8. CASE UNCHANGED z3Vars
  BY <1>8 DEF z3Vars
<1> QED BY <1>1, <1>2, <1>3, <1>4, <1>5, <1>6, <1>7, <1>8 DEF Z3Next, Answering

(* However many threads probe and store at the same time, a thread that    *)
(* has been told that z3 is there can use it.                              *)
THEOREM ToldIsBound == Z3Spec => []ModuleBound
<1>1. BoundInv => ModuleBound
  BY DEF BoundInv
<1> QED BY <1>1, BoundInit, BoundNext, Z3TypeCorrect, PTL DEF Z3Spec

-----------------------------------------------------------------------------
(* With one prober, who alone may reset the detection, an absence that is  *)
(* cached carries no announced generation: z3 was there before the         *)
(* announcement, and what was probed before the call is thrown away.  The  *)
(* other threads never ask.                                                *)
FreshInv(t) ==
    /\ generation > 0 => installed
    /\ stamp <= generation /\ seen[t] <= generation
    /\ available = "no" => stamp <= 0 \/ at[t] = "stamp"
    /\ at[t] \in {"store", "stamp"} /\ seen[t] > 0 => found[t] = "yes"
    /\ at[t] = "stamp" => available = found[t]
    /\ at[t] = "answer" /\ seen[t] > 0 => available = "yes"
    /\ at[t] = "idle" /\ seen[t] > 0 => told[t] = "yes"
    /\ \A u \in Threads \ {t} : at[u] = "idle" /\ seen[u] = 0

LEMMA FreshInit ==
    ASSUME NEW prober \in Threads
    PROVE  Z3Init => FreshInv(prober)
BY DEF Z3Init, FreshInv

LEMMA FreshNext ==
    ASSUME NEW prober \in Threads, Resetters \subseteq {prober}, Z3TypeOK, FreshInv(prober),
           [Environment \/ Ask(prober) \/ Answering(prober)]_z3Vars
    PROVE  FreshInv(prober)'
<1> USE MaxGenerationAssumption DEF Z3TypeOK, Answers, FreshInv
<1>1. CASE Environment
  BY <1>1 DEF Environment, Install, Announce, Reset
<1>2. CASE Ask(prober)
  BY <1>2 DEF Ask, Move
<1>3. CASE Check(prober)
  BY <1>3 DEF Check, Move
<1>4. CASE Probe(prober)
  BY <1>4 DEF Probe, Move
<1>5. CASE StoreAnswer(prober)
  BY <1>5 DEF StoreAnswer, Move
<1>6. CASE StoreStamp(prober)
  BY <1>6 DEF StoreStamp, Move
<1>7. CASE Answer(prober)
  BY <1>7 DEF Answer, Move
<1>8. CASE UNCHANGED z3Vars
  BY <1>8 DEF z3Vars
<1> QED BY <1>1, <1>2, <1>3, <1>4, <1>5, <1>6, <1>7, <1>8 DEF Answering

LEMMA FreshAnswers ==
    ASSUME NEW prober \in Threads, Z3TypeOK, FreshInv(prober)
    PROVE  AnswerIsFresh
BY DEF FreshInv, AnswerIsFresh, Z3TypeOK

(* As long as one thread alone asks and resets, every call that began      *)
(* after z3 was announced answers that it is there: neither False nor the  *)
(* None of a reset, which its callers take for absent.                     *)
THEOREM SingleProberIsFresh ==
    ASSUME NEW prober, Threads = {prober}
    PROVE  Z3Spec => []AnswerIsFresh
<1>1. Z3TypeOK /\ FreshInv(prober) /\ [Z3Next]_z3Vars => FreshInv(prober)'
  BY FreshNext, ResettersAssumption DEF Z3Next
<1>2. Z3Init => FreshInv(prober)
  BY FreshInit
<1>3. Z3TypeOK /\ FreshInv(prober) => AnswerIsFresh
  BY FreshAnswers
<1> QED BY <1>1, <1>2, <1>3, Z3TypeCorrect, PTL DEF Z3Spec

-----------------------------------------------------------------------------
(* Any number of probers, while announcements and resets find nobody       *)
(* asking: the calls that are under way have all read the newest           *)
(* generation, so that what any of them finds is as good as what the       *)
(* others find, and an older absence does not carry that generation.       *)
QuietInv ==
    /\ generation > 0 => installed
    /\ stamp <= generation
    /\ generation > 0 /\ available = "no" => stamp < generation
    /\ \A t \in Threads :
          /\ seen[t] <= generation
          /\ at[t] # "idle" => seen[t] = generation
          /\ at[t] \in {"store", "stamp"} /\ generation > 0 => found[t] = "yes"
          /\ at[t] \in {"stamp", "answer"} /\ generation > 0 => available = "yes"
          /\ at[t] = "idle" /\ seen[t] > 0 => told[t] = "yes"

LEMMA QuietInit == Z3Init => QuietInv
BY DEF Z3Init, QuietInv

LEMMA QuietStep ==
    ASSUME Z3TypeOK, QuietInv, [QuietNext]_z3Vars
    PROVE  QuietInv'
<1> USE MaxGenerationAssumption DEF Z3TypeOK, Answers, QuietInv
<1>1. CASE Install
  BY <1>1 DEF Install
<1>2. CASE NobodyAsks /\ Announce
  BY <1>2 DEF NobodyAsks, Announce
<1>3. CASE NobodyAsks /\ \E t \in Resetters : Reset(t)
  BY <1>3 DEF NobodyAsks, Reset
<1>4. ASSUME NEW t \in Threads, Ask(t) PROVE QuietInv'
  BY <1>4 DEF Ask, Move
<1>5. ASSUME NEW t \in Threads, Check(t) PROVE QuietInv'
  BY <1>5 DEF Check, Move
<1>6. ASSUME NEW t \in Threads, Probe(t) PROVE QuietInv'
  BY <1>6 DEF Probe, Move
<1>7. ASSUME NEW t \in Threads, StoreAnswer(t) PROVE QuietInv'
  BY <1>7 DEF StoreAnswer, Move
<1>8. ASSUME NEW t \in Threads, StoreStamp(t) PROVE QuietInv'
  BY <1>8 DEF StoreStamp, Move
<1>9. ASSUME NEW t \in Threads, Answer(t) PROVE QuietInv'
  BY <1>9 DEF Answer, Move
<1>10. CASE UNCHANGED z3Vars
  BY <1>10 DEF z3Vars
<1> QED BY <1>1, <1>2, <1>3, <1>4, <1>5, <1>6, <1>7, <1>8, <1>9, <1>10
        DEF QuietNext, Answering

(* However many calls overlap, and whatever z3's installation overlaps     *)
(* with, a call that began after its announcement answers that z3 is       *)
(* there, as long as announcements and resets come between the calls.      *)
THEOREM QuietIsFresh == QuietSpec => []AnswerIsFresh
<1>1. [QuietNext]_z3Vars => [Z3Next]_z3Vars
  BY DEF QuietNext, Z3Next, Environment
<1>2. Z3TypeOK /\ QuietInv /\ [QuietNext]_z3Vars => (Z3TypeOK /\ QuietInv)'
  BY <1>1, Z3TypeNext, QuietStep
<1>3. QuietInv => AnswerIsFresh
  BY DEF QuietInv, AnswerIsFresh
<1> QED BY <1>2, <1>3, Z3TypeInit, QuietInit, PTL DEF QuietSpec

-----------------------------------------------------------------------------
Resting == {"idle", "configured", "installed", "reconfigured"}
Working == {"lookup", "budget", "solve", "ask", "prove", "record"}

(* A proved entry has a rewrite, and in the width-lift table a right one.  *)
TablesInv ==
    /\ EntriesType
    /\ Width!EntriesType
    /\ \A k \in Keys : IsProved(k) => entries[k].rewrite \in Rewrites
    /\ \A k \in Keys : Width!IsProved(k) => <<k, widthEntries[k].rewrite>> \in Sound
    /\ abstention \in [Keys -> {"none", "error", "over_budget", "proof_failed", "unavailable"}]

(* An attempt is open exactly while a captured visit is under way; without *)
(* a capture there is what was left before, if anything; nothing is        *)
(* returned before its end, and only the plain path comes to record.       *)
Observations == [status : Statuses \cup {"none"}, current : BOOLEAN]
Visits == [key : Keys, width : BOOLEAN, captured : BOOLEAN, left : BOOLEAN]

PhaseInv ==
    /\ pc \in Resting \cup Working \cup {"returned", "decided"}
    /\ observation \in Observations
    /\ observation.status = "none" => observation = NoObservation
    /\ pc \in Resting => ~observation.current
    /\ pc \in Working \cup {"returned"} => visit \in Visits
    /\ pc \in Working =>
          IF visit.captured
          THEN observation.status = "pending" /\ observation.current
          ELSE /\ ~observation.current
               /\ observation # NoObservation <=> visit.left
    /\ pc \notin {"returned", "decided"} => out = NoTree
    /\ pc \in {"ask", "prove", "record"} => solved \in Rewrites
    /\ pc = "record" => ~visit.width
    /\ WidthInstallsProved
    /\ ObservationTruthful

VisitInv == TablesInv /\ PhaseInv /\ requireProof \in BOOLEAN

-----------------------------------------------------------------------------
LEMMA EntryTypes ==
    /\ Absent \in Entry /\ NoRewrite \in Entry /\ Pending \in Entry
    /\ \A r \in Rewrites, v \in BOOLEAN : Proved(r, v) \in Entry
BY DEF Absent, NoRewrite, Pending, Proved, Entry, Outcomes

(* What may happen to the plain table under one key.                       *)
PlainStep(k) ==
    \/ \E gone :
          \/ \E r \in Rewrites, v \in BOOLEAN : RecordProved(k, r, v, gone)
          \/ RecordNoRewrite(k, gone)
          \/ RecordPending(k, gone)
    \/ ClearPending(k)
    \/ ClearUnverified(k)
    \/ UNCHANGED entries

(* Every operation on the plain table leaves a rewrite in what is proved.  *)
LEMMA PlainTables ==
    ASSUME TablesInv, NEW k \in Keys, PlainStep(k), UNCHANGED <<widthEntries, abstention>>
    PROVE  TablesInv'
<1> DEFINE Kept ==
        EntriesType' /\ \A j \in Keys : IsProved(j)' => entries'[j].rewrite \in Rewrites
<1> USE DEF IsProved, EntriesType
<1>1. ASSUME NEW e \in Entry, NEW gone, Store(k, e, gone),
             e.outcome = "proved" => e.rewrite \in Rewrites
      PROVE  Kept
  <2>1. EntriesType'
    BY <1>1, EntryTypes DEF Store, TablesInv
  <2>2. ASSUME NEW j \in Keys, IsProved(j)' PROVE entries'[j].rewrite \in Rewrites
    BY <1>1, <2>2 DEF Store, Absent, TablesInv
  <2> QED BY <2>1, <2>2
<1>2. ASSUME Drop(k) PROVE Kept
  BY <1>2, EntryTypes DEF Drop, Absent, TablesInv
<1>3. Kept
  <2>1. ASSUME NEW gone, NEW r \in Rewrites, NEW v \in BOOLEAN, RecordProved(k, r, v, gone)
        PROVE  Kept
    <3>1. Proved(r, v) \in Entry /\ Proved(r, v).rewrite = r
      BY EntryTypes DEF Proved
    <3> QED BY <1>1, <2>1, <3>1 DEF RecordProved
  <2>2. ASSUME NEW gone, RecordNoRewrite(k, gone) PROVE Kept
    <3>1. NoRewrite \in Entry /\ NoRewrite.outcome # "proved"
      BY EntryTypes DEF NoRewrite
    <3> QED BY <1>1, <2>2, <3>1 DEF RecordNoRewrite
  <2>3. ASSUME NEW gone, RecordPending(k, gone) PROVE Kept
    <3>1. Pending \in Entry /\ Pending.outcome # "proved"
      BY EntryTypes DEF Pending
    <3> QED BY <1>1, <2>3, <3>1 DEF RecordPending, TablesInv
  <2>4. CASE ClearPending(k) \/ ClearUnverified(k) \/ UNCHANGED entries
    BY <1>2, <2>4 DEF ClearPending, ClearUnverified, TablesInv
  <2> QED BY <2>1, <2>2, <2>3, <2>4 DEF PlainStep
<1> QED BY <1>3 DEF TablesInv, Width!EntriesType, Width!IsProved

(* The width-lift table only ever gets what has been proved, or refused.   *)
LEMMA WidthTables ==
    ASSUME TablesInv, NEW k \in Keys, NEW gone, UNCHANGED <<entries, abstention>>,
           \/ \E r \in Rewrites : Width!RecordProved(k, r, TRUE, gone) /\ <<k, r>> \in Sound
           \/ Width!RecordNoRewrite(k, gone)
    PROVE  TablesInv'
<1> USE DEF Width!IsProved, Width!EntriesType
<1>1. ASSUME NEW e \in Entry, Width!Store(k, e, gone),
             e.outcome = "proved" => <<k, e.rewrite>> \in Sound
      PROVE  TablesInv'
  <2>1. Width!EntriesType'
    BY <1>1, EntryTypes
       DEF TablesInv, Width!Store, Width!Absent, Absent, Width!Entry, Entry, Width!Outcomes, Outcomes
  <2>2. ASSUME NEW j \in Keys, Width!IsProved(j)' PROVE <<j, widthEntries'[j].rewrite>> \in Sound
    BY <1>1, <2>2 DEF TablesInv, Width!Store, Width!Absent
  <2> QED BY <2>1, <2>2 DEF TablesInv, EntriesType, IsProved
<1>2. ASSUME NEW r \in Rewrites, Width!RecordProved(k, r, TRUE, gone), <<k, r>> \in Sound
      PROVE  TablesInv'
  <2>1. Proved(r, TRUE) \in Entry /\ Proved(r, TRUE).rewrite = r
    BY EntryTypes DEF Proved
  <2> QED BY <1>1, <1>2, <2>1 DEF Width!RecordProved, Width!Proved, Proved
<1>3. CASE Width!RecordNoRewrite(k, gone)
  <2>1. NoRewrite \in Entry /\ NoRewrite.outcome # "proved"
    BY EntryTypes DEF NoRewrite
  <2> QED BY <1>1, <1>3, <2>1 DEF Width!RecordNoRewrite, Width!NoRewrite, NoRewrite
<1> QED BY <1>2, <1>3

(* What the width-lift path will not try again has one of four statuses.   *)
LEMMA AbstainTables ==
    ASSUME TablesInv, NEW k \in Keys, UNCHANGED <<entries, widthEntries>>,
           NEW status \in {"error", "over_budget", "proof_failed", "unavailable"},
           Abstain(k, status)
    PROVE  TablesInv'
<1>1. abstention' \in [Keys -> {"none", "error", "over_budget", "proof_failed", "unavailable"}]
  BY DEF Abstain, TablesInv
<1> QED BY <1>1 DEF TablesInv, EntriesType, IsProved, Width!EntriesType, Width!IsProved

(* Finishing an attempt gives it a status, and makes none.                 *)
LEMMA FinishedIs ==
    ASSUME NEW o \in Observations, o.status = "none" => o = NoObservation,
           NEW status \in Statuses
    PROVE  /\ Finished(o, status) \in Observations
           /\ Finished(o, status).current = o.current
           /\ Finished(o, status) = NoObservation <=> o = NoObservation
           /\ o # NoObservation => Finished(o, status).status = status
           /\ Finished(o, status).status = "none" => Finished(o, status) = NoObservation
<1>1. "none" \notin Statuses
  BY DEF Statuses
<1>2. CASE o = NoObservation
  BY <1>2 DEF Finished
<1>3. CASE o # NoObservation
  <2>1. Finished(o, status) = [o EXCEPT !.status = status]
    BY <1>3 DEF Finished
  <2>2. /\ Finished(o, status) \in Observations
        /\ Finished(o, status).status = status /\ Finished(o, status).current = o.current
    BY <2>1 DEF Observations
  <2>3. Finished(o, status) # NoObservation
    BY <1>1, <2>2 DEF NoObservation
  <2> QED BY <1>1, <1>3, <2>2, <2>3
<1> QED BY <1>2, <1>3

(* A visit that ends with a status of its own, and with a rewrite only     *)
(* when it says improved, leaves the manager a true observation.           *)
LEMMA EndsWell ==
    ASSUME PhaseInv, pc \in Working,
           NEW status \in Statuses \ {"pending"}, NEW tree \in Rewrites \cup {NoTree},
           status = "improved" <=> tree # NoTree,
           visit.width /\ tree # NoTree => <<visit.key, tree>> \in Sound,
           Return(status, tree)
    PROVE  PhaseInv'
<1> USE DEF Return, PhaseInv, Working, Resting
<1>1. /\ observation' \in Observations
      /\ observation'.current = observation.current
      /\ observation' = NoObservation <=> observation = NoObservation
      /\ observation # NoObservation => observation'.status = status
      /\ observation'.status = "none" => observation' = NoObservation
  BY FinishedIs
<1>2. pc' = "returned" /\ out' = tree /\ visit' = visit
  OBVIOUS
<1>3. ObservationTruthful'
  <2>1. CASE visit.captured
    <3>1. observation # NoObservation
      BY <2>1 DEF NoObservation
    <3>2. status \notin {"none", "pending"}
      BY DEF Statuses
    <3> QED BY <1>1, <1>2, <2>1, <3>1, <3>2 DEF ObservationTruthful
  <2>2. CASE ~visit.captured
    BY <1>1, <1>2, <2>2 DEF ObservationTruthful
  <2> QED BY <2>1, <2>2
<1>4. WidthInstallsProved'
  BY <1>2 DEF WidthInstallsProved
<1> QED BY <1>1, <1>2, <1>3, <1>4

(* A rewrite that is found in a table, or has been proved, and is rebuilt. *)
LEMMA RebuildEndsWell ==
    ASSUME PhaseInv, pc \in Working, NEW r \in Rewrites,
           visit.width => <<visit.key, r>> \in Sound,
           Rebuild(r)
    PROVE  PhaseInv'
<1>1. r # NoTree
  BY NoTreeAssumption
<1>2. CASE Return("improved", r)
  BY <1>1, <1>2, EndsWell DEF Statuses
<1>3. CASE Return("reconstruction_failed", NoTree)
  BY <1>3, EndsWell DEF Statuses
<1> QED BY <1>1, <1>2, <1>3 DEF Rebuild

(* A visit that goes on.                                                   *)
LEMMA GoesOn ==
    ASSUME PhaseInv, pc \in Working, pc' \in Working,
           UNCHANGED <<observation, visit, out>>,
           pc' \in {"ask", "prove", "record"} => solved' \in Rewrites,
           pc' = "record" => ~visit.width
    PROVE  PhaseInv'
BY DEF PhaseInv, Working, Resting, WidthInstallsProved, ObservationTruthful

-----------------------------------------------------------------------------
LEMMA InitVisitInv == Init => VisitInv
<1> SUFFICES ASSUME Init PROVE VisitInv
  OBVIOUS
<1>1. EntriesType /\ \A k \in Keys : ~IsProved(k)
  BY EntryTypes DEF Init, EntriesType, EmptyTable, IsProved, Absent
<1>2. Width!EntriesType /\ \A k \in Keys : ~Width!IsProved(k)
  BY EntryTypes DEF Init, Width!EntriesType, EmptyTable, Width!IsProved, Absent,
                    Width!Entry, Entry, Width!Outcomes, Outcomes
<1>3. abstention \in [Keys -> {"none", "error", "over_budget", "proof_failed", "unavailable"}]
  BY DEF Init
<1>4. PhaseInv /\ requireProof \in BOOLEAN
  BY DEF Init, PhaseInv, Resting, Working, Observations, NoObservation,
         WidthInstallsProved, ObservationTruthful
<1> QED BY <1>1, <1>2, <1>3, <1>4 DEF VisitInv, TablesInv

(* The host captures an instruction or not, and the visit begins, or is    *)
(* refused at once.                                                        *)
LEMMA VisitKeeps ==
    ASSUME VisitInv, NEW k \in Keys, NEW width \in BOOLEAN, NEW captured \in BOOLEAN,
           Visit(k, width, captured)
    PROVE  VisitInv'
<1> DEFINE begun == IF captured THEN [status |-> "pending", current |-> TRUE] ELSE observation
<1> USE DEF VisitInv, PhaseInv, Resting, Working
<1>1. TablesInv' /\ requireProof' \in BOOLEAN
  BY DEF Visit, TablesInv, EntriesType, Width!EntriesType, IsProved, Width!IsProved
<1>2. /\ visit' \in Visits
      /\ visit'.captured = captured
      /\ visit'.left <=> observation # NoObservation
      /\ out' = NoTree
  <2>1. visit' = [key |-> k, width |-> width, captured |-> captured,
                  left |-> observation # NoObservation]
    BY DEF Visit
  <2>2. (observation # NoObservation) \in BOOLEAN
    OBVIOUS
  <2>3. visit' \in Visits
    BY <2>1, <2>2, Zenon DEF Visits
  <2>4. visit'.captured = captured /\ visit'.left = (observation # NoObservation)
    BY <2>1
  <2>5. out' = NoTree
    BY DEF Visit
  <2> QED BY <2>3, <2>4, <2>5
<1>3. /\ begun \in Observations
      /\ begun.status = "none" => begun = NoObservation
      /\ IF captured THEN begun.status = "pending" /\ begun.current
         ELSE ~begun.current /\ (begun # NoObservation <=> observation # NoObservation)
  <2>1. CASE captured
    BY <2>1 DEF Observations, Statuses
  <2>2. CASE ~captured
    <3>1. pc \in Resting
      BY DEF Visit
    <3> QED BY <2>2, <3>1
  <2> QED BY <2>1, <2>2
<1> HIDE DEF begun
<1>4. ASSUME pc' = "lookup", observation' = begun
      PROVE  PhaseInv'
  BY <1>2, <1>3, <1>4 DEF WidthInstallsProved, ObservationTruthful
<1>5. ASSUME NEW refusal \in {"ineligible", "over_budget", "unavailable", "error"},
             pc' = "returned", observation' = Finished(begun, refusal)
      PROVE  PhaseInv'
  <2>1. refusal \in Statuses /\ refusal \notin {"none", "pending", "improved"}
    BY DEF Statuses
  <2>2. /\ observation' \in Observations
        /\ observation'.current = begun.current
        /\ observation' = NoObservation <=> begun = NoObservation
        /\ begun # NoObservation => observation'.status = refusal
        /\ observation'.status = "none" => observation' = NoObservation
    BY <1>3, <1>5, <2>1, FinishedIs
  <2>3. ObservationTruthful'
    <3>1. captured => begun # NoObservation
      BY <1>3 DEF NoObservation
    <3> QED BY <1>2, <1>3, <2>1, <2>2, <3>1 DEF ObservationTruthful
  <2>4. WidthInstallsProved'
    BY <1>2 DEF WidthInstallsProved
  <2> QED BY <1>2, <1>5, <2>2, <2>3, <2>4
<1> QED BY <1>1, <1>4, <1>5 DEF Visit, begun

(* The plain path: what it installs comes from its table or its solver.    *)
LEMMA PlainKeeps ==
    ASSUME VisitInv, Lookup \/ Solve \/ Prove \/ Record
    PROVE  VisitInv'
<1> USE DEF VisitInv
<1> DEFINE k == visit.key
<1>1. pc \in Working /\ k \in Keys /\ ~visit.width
  BY DEF PhaseInv, Visits, Lookup, Solve, Prove, Record, Working
<1> HIDE DEF k
<1>2. ASSUME NEW status \in Statuses \ {"pending", "improved"}, Return(status, NoTree)
      PROVE  PhaseInv'
  BY <1>1, <1>2, EndsWell
<1>3. CASE Lookup
  <2>1. PlainStep(k) /\ UNCHANGED <<widthEntries, abstention, requireProof>>
    BY <1>3 DEF Lookup, PlainStep, k
  <2>2. ASSUME Return("over_budget", NoTree) \/ Return("unchanged", NoTree)
        PROVE  PhaseInv'
    BY <1>2, <2>2 DEF Statuses
  <2>3. ASSUME IsProved(k) /\ Rebuild(entries[k].rewrite)
        PROVE  PhaseInv'
    BY <1>1, <2>3, RebuildEndsWell DEF TablesInv
  <2>4. ASSUME pc' = "budget" /\ UNCHANGED <<observation, visitVars>>
        PROVE  PhaseInv'
    BY <1>1, <2>4, GoesOn DEF Working, visitVars
  <2>5. PhaseInv'
    BY <1>3, <2>2, <2>3, <2>4 DEF Lookup, k
  <2> QED BY <1>1, <2>1, <2>5, PlainTables
<1>4. CASE Solve
  <2>1. PlainStep(k) /\ UNCHANGED <<widthEntries, abstention, requireProof>>
    BY <1>4 DEF Solve, PlainStep, Submit, Accept, k
  <2>2. ASSUME Return("over_budget", NoTree) \/ Return("error", NoTree) \/ Return("unchanged", NoTree)
        PROVE  PhaseInv'
    BY <1>2, <2>2 DEF Statuses
  <2>3. ASSUME NEW r \in Rewrites, Accept(r, IF requireProof THEN "ask" ELSE "record")
        PROVE  PhaseInv'
    BY <1>1, <2>3, GoesOn DEF Accept, Working
  <2>4. PhaseInv'
    BY <1>4, <2>2, <2>3 DEF Solve
  <2> QED BY <1>1, <2>1, <2>4, PlainTables
<1>5. CASE Prove
  <2>1. PlainStep(k) /\ UNCHANGED <<widthEntries, abstention, requireProof>>
    BY <1>5 DEF Prove, PlainStep, Submit, k
  <2>2. ASSUME Return("over_budget", NoTree) \/ Return("proof_failed", NoTree)
        PROVE  PhaseInv'
    BY <1>2, <2>2 DEF Statuses
  <2>3. ASSUME pc' = "record" /\ UNCHANGED <<observation, visitVars>>
        PROVE  PhaseInv'
    <3>1. solved' \in Rewrites
      BY <1>5, <2>3 DEF Prove, visitVars, PhaseInv
    <3> QED BY <1>1, <2>3, <3>1, GoesOn DEF Working, visitVars
  <2>4. PhaseInv'
    BY <1>5, <2>2, <2>3 DEF Prove
  <2> QED BY <1>1, <2>1, <2>4, PlainTables
<1>6. CASE Record
  <2>1. solved \in Rewrites
    BY <1>6 DEF Record, PhaseInv
  <2>2. PlainStep(k) /\ UNCHANGED <<widthEntries, abstention, requireProof>>
    BY <1>6, <2>1 DEF Record, PlainStep, k
  <2>3. PhaseInv'
    BY <1>1, <1>6, <2>1, RebuildEndsWell DEF Record
  <2> QED BY <1>1, <2>2, <2>3, PlainTables
<1> QED BY <1>3, <1>4, <1>5, <1>6

(* The width-lift path: what it installs comes from its own table, where   *)
(* only proofs are, or has just been proved.                               *)
LEMMA WidthKeeps ==
    ASSUME VisitInv, LookupWidth \/ SolveWidth \/ WidthUnsupported \/ ProveWidth
    PROVE  VisitInv'
<1> USE DEF VisitInv
<1> DEFINE k == visit.key
<1>1. pc \in Working /\ k \in Keys /\ visit.width
  BY DEF PhaseInv, Visits, LookupWidth, SolveWidth, WidthUnsupported, ProveWidth, Working
<1> HIDE DEF k
<1>2. ASSUME NEW status \in Statuses \ {"pending", "improved"}, Return(status, NoTree)
      PROVE  PhaseInv'
  BY <1>1, <1>2, EndsWell
<1>3. UNCHANGED requireProof
  BY DEF LookupWidth, SolveWidth, WidthUnsupported, ProveWidth
<1>4. CASE LookupWidth
  <2>1. TablesInv'
    BY <1>4 DEF LookupWidth, TablesInv, EntriesType, IsProved, Width!EntriesType, Width!IsProved
  <2>2. ASSUME abstention[k] # "none", Return(abstention[k], NoTree)
        PROVE  PhaseInv'
    <3>1. abstention[k] \in Statuses \ {"pending", "improved"}
      BY <1>1, <2>2 DEF TablesInv, Statuses
    <3> QED BY <1>2, <2>2, <3>1
  <2>3. ASSUME Width!IsProved(k), Rebuild(widthEntries[k].rewrite)
        PROVE  PhaseInv'
    <3>1. <<k, widthEntries[k].rewrite>> \in Sound /\ widthEntries[k].rewrite \in Rewrites
      BY <1>1, <2>3, SoundAssumption DEF TablesInv
    <3> QED BY <1>1, <2>3, <3>1, RebuildEndsWell DEF k
  <2>4. ASSUME Return("unchanged", NoTree) PROVE PhaseInv'
    BY <1>2, <2>4 DEF Statuses
  <2>5. ASSUME pc' = "budget", UNCHANGED <<observation, visitVars>>
        PROVE  PhaseInv'
    BY <1>1, <2>5, GoesOn DEF Working, visitVars
  <2>6. PhaseInv'
    BY <1>4, <2>2, <2>3, <2>4, <2>5 DEF LookupWidth, k
  <2> QED BY <1>3, <2>1, <2>6
<1>5. CASE SolveWidth
  <2>1. ASSUME Return("over_budget", NoTree), UNCHANGED <<entries, widthEntries, abstention>>
        PROVE  TablesInv' /\ PhaseInv'
    BY <1>2, <2>1 DEF Statuses, TablesInv, EntriesType, IsProved, Width!EntriesType, Width!IsProved
  <2>2. ASSUME Abstain(k, "error"), Return("error", NoTree), UNCHANGED <<entries, widthEntries>>
        PROVE  TablesInv' /\ PhaseInv'
    BY <1>1, <1>2, <2>2, AbstainTables DEF Statuses
  <2>3. ASSUME NEW gone, Width!RecordNoRewrite(k, gone), Return("unchanged", NoTree),
               UNCHANGED <<entries, abstention>>
        PROVE  TablesInv' /\ PhaseInv'
    BY <1>1, <1>2, <2>3, WidthTables DEF Statuses
  <2>4. ASSUME NEW r \in Rewrites, Accept(r, "ask")
        PROVE  TablesInv' /\ PhaseInv'
    <3>1. TablesInv'
      BY <2>4 DEF Accept, TablesInv, EntriesType, IsProved, Width!EntriesType, Width!IsProved
    <3> QED BY <1>1, <2>4, <3>1, GoesOn DEF Accept, Working
  <2>5. TablesInv' /\ PhaseInv'
    BY <1>5, <2>1, <2>2, <2>3, <2>4 DEF SolveWidth, k
  <2> QED BY <1>3, <2>5
<1>6. CASE WidthUnsupported
  <2>1. Abstain(k, "over_budget") /\ Return("over_budget", NoTree)
        /\ UNCHANGED <<entries, widthEntries>>
    BY <1>6 DEF WidthUnsupported, k
  <2> QED BY <1>1, <1>2, <1>3, <2>1, AbstainTables DEF Statuses
<1>7. CASE ProveWidth
  <2>1. ASSUME NEW gone, <<k, solved>> \in Sound, Width!RecordProved(k, solved, TRUE, gone),
               Rebuild(solved), UNCHANGED <<entries, abstention>>
        PROVE  TablesInv' /\ PhaseInv'
    <3>1. solved \in Rewrites
      BY <2>1, SoundAssumption
    <3>2. PhaseInv'
      BY <1>1, <2>1, <3>1, RebuildEndsWell DEF k
    <3> QED BY <1>1, <2>1, <3>1, <3>2, WidthTables
  <2>2. ASSUME NEW status \in {"over_budget", "proof_failed", "unavailable"},
               Abstain(k, status), Return(status, NoTree), UNCHANGED <<entries, widthEntries>>
        PROVE  TablesInv' /\ PhaseInv'
    BY <1>1, <1>2, <2>2, AbstainTables DEF Statuses
  <2>3. TablesInv' /\ PhaseInv'
    BY <1>7, <2>1, <2>2 DEF ProveWidth, k
  <2> QED BY <1>3, <2>3
<1> QED BY <1>4, <1>5, <1>6, <1>7

(* What is left of an attempt that nobody drained is what it was.          *)
LEMMA LeftBehind ==
    ASSUME observation \in Observations,
           observation.status = "none" => observation = NoObservation,
           observation' = [observation EXCEPT !.current = FALSE]
    PROVE  /\ observation' \in Observations
           /\ ~observation'.current
           /\ observation'.status = "none" => observation' = NoObservation
<1>1. observation' \in Observations /\ ~observation'.current
      /\ observation'.status = observation.status
  BY DEF Observations
<1>2. ASSUME observation'.status = "none" PROVE observation' = NoObservation
  BY <1>1, <1>2 DEF Observations, NoObservation
<1> QED BY <1>1, <1>2

(* What both paths share, and what goes on around them.                    *)
LEMMA RestKeeps ==
    ASSUME VisitInv,
           \/ Configure \/ GateOpen \/ InstallSupport \/ AskAgain
           \/ End \/ \E s \in Sessions : Begin(s)
           \/ AskBudget \/ AskProver \/ Raise \/ Decide \/ Drain \/ GoOnUndrained
           \/ \E k \in Keys : Background(k)
           \/ Elsewhere \/ UNCHANGED vars
    PROVE  VisitInv'
<1> USE DEF VisitInv
<1>1. ASSUME UNCHANGED <<entries, widthEntries, abstention>> PROVE TablesInv'
  BY <1>1 DEF TablesInv, EntriesType, IsProved, Width!EntriesType, Width!IsProved
<1>2. ASSUME UNCHANGED <<observation, pc, visitVars>> PROVE PhaseInv'
  BY <1>2 DEF PhaseInv, WidthInstallsProved, ObservationTruthful, visitVars
<1>3. ASSUME pc \in Resting, pc' \in Resting, UNCHANGED <<observation, visitVars>>
      PROVE  PhaseInv'
  BY <1>3 DEF PhaseInv, Resting, Working, WidthInstallsProved, ObservationTruthful, visitVars
<1>4. CASE Configure \/ GateOpen \/ InstallSupport \/ AskAgain
  <2>1. /\ UNCHANGED <<entries, widthEntries, abstention, observation, visitVars>>
        /\ pc \in Resting /\ pc' \in Resting /\ requireProof' \in BOOLEAN
    BY <1>4 DEF Configure, GateOpen, InstallSupport, AskAgain, Resting
  <2> QED BY <1>1, <1>3, <2>1
<1>5. CASE End \/ (\E s \in Sessions : Begin(s)) \/ Elsewhere \/ UNCHANGED vars
  <2>1. UNCHANGED <<entries, widthEntries, abstention, requireProof, observation, pc, visitVars>>
    BY <1>5 DEF End, Begin, Elsewhere, vars, ruleVars
  <2> QED BY <1>1, <1>2, <2>1
<1>6. CASE AskBudget
  <2>1. pc \in Working /\ visit.key \in Keys /\ PlainStep(visit.key)
        /\ UNCHANGED <<widthEntries, abstention, requireProof>>
    BY <1>6 DEF AskBudget, Submit, PlainStep, PhaseInv, Visits, Working
  <2>2. ASSUME Return("over_budget", NoTree) PROVE PhaseInv'
    BY <2>1, <2>2, EndsWell DEF Statuses
  <2>3. ASSUME pc' = "solve", UNCHANGED <<observation, visit, out>> PROVE PhaseInv'
    BY <2>1, <2>3, GoesOn DEF Working
  <2>4. PhaseInv'
    BY <1>6, <2>2, <2>3 DEF AskBudget
  <2> QED BY <2>1, <2>4, PlainTables
<1>7. CASE AskProver
  <2>1. /\ pc = "ask" /\ pc' = "prove" /\ UNCHANGED visitVars
        /\ UNCHANGED <<entries, widthEntries, abstention, requireProof, observation>>
    BY <1>7 DEF AskProver
  <2>2. solved' \in Rewrites
    BY <2>1 DEF PhaseInv, visitVars
  <2> QED BY <1>1, <2>1, <2>2, GoesOn DEF Working, visitVars
<1>8. CASE Raise
  <2>1. /\ pc \in Working /\ Return("error", NoTree)
        /\ UNCHANGED <<entries, widthEntries, abstention, requireProof>>
    BY <1>8 DEF Raise, Working
  <2> QED BY <1>1, <2>1, EndsWell DEF Statuses
<1>9. CASE Decide \/ Drain \/ GoOnUndrained
  <2>1. UNCHANGED <<entries, widthEntries, abstention, requireProof>>
    BY <1>9 DEF Decide, Drain, GoOnUndrained, VisitOver
  <2>2. CASE Decide
    <3>1. observation' \in Observations
          /\ (observation'.status = "none" => observation' = NoObservation)
      BY <2>2 DEF Decide, PhaseInv, Observations, Statuses
    <3> QED BY <1>1, <2>1, <2>2, <3>1
            DEF Decide, PhaseInv, Resting, Working, WidthInstallsProved, ObservationTruthful
  <2>3. CASE Drain \/ GoOnUndrained
    <3>1. observation' \in Observations /\ ~observation'.current
          /\ (observation'.status = "none" => observation' = NoObservation)
      <4>1. CASE Drain
        BY <4>1 DEF Drain, NoObservation, Observations
      <4>2. CASE GoOnUndrained
        BY <4>2, LeftBehind DEF GoOnUndrained, PhaseInv
      <4> QED BY <2>3, <4>1, <4>2
    <3> QED BY <1>1, <2>1, <2>3, <3>1
            DEF Drain, GoOnUndrained, VisitOver, PhaseInv, Resting, Working, NoVisit,
                WidthInstallsProved, ObservationTruthful
  <2> QED BY <1>9, <2>2, <2>3
<1>10. CASE \E k \in Keys : Background(k)
  <2> PICK k \in Keys : Background(k)
    BY <1>10
  <2>1. PlainStep(k) /\ UNCHANGED <<widthEntries, abstention, requireProof, observation, pc, visitVars>>
    BY DEF Background, PlainStep
  <2> QED BY <1>2, <2>1, PlainTables
<1> QED BY <1>4, <1>5, <1>6, <1>7, <1>8, <1>9, <1>10

LEMMA VisitInvHolds == Spec => []VisitInv
<1>1. VisitInv /\ [Next]_vars => VisitInv'
  <2> SUFFICES ASSUME VisitInv, [Next]_vars PROVE VisitInv'
    OBVIOUS
  <2>1. ASSUME NEW k \in Keys, NEW width \in BOOLEAN, NEW captured \in BOOLEAN,
               Visit(k, width, captured)
        PROVE  VisitInv'
    BY <2>1, VisitKeeps
  <2>2. CASE Lookup \/ Solve \/ Prove \/ Record
    BY <2>2, PlainKeeps
  <2>3. CASE LookupWidth \/ SolveWidth \/ WidthUnsupported \/ ProveWidth
    BY <2>3, WidthKeeps
  <2>4. CASE \/ Configure \/ GateOpen \/ InstallSupport \/ AskAgain
             \/ End \/ \E s \in Sessions : Begin(s)
             \/ AskBudget \/ AskProver \/ Raise \/ Decide \/ Drain \/ GoOnUndrained
             \/ \E k \in Keys : Background(k)
             \/ Elsewhere \/ UNCHANGED vars
    BY <2>4, RestKeeps
  <2> QED BY <2>1, <2>2, <2>3, <2>4 DEF Next
<1> QED BY <1>1, InitVisitInv, PTL DEF Spec

(* Whatever the plain table holds and whether or not proofs are required,  *)
(* the width-lift path only installs rewrites that are equivalent.         *)
THEOREM WidthStaysProved == Spec => []WidthInstallsProved
<1>1. VisitInv => WidthInstallsProved
  BY DEF VisitInv, PhaseInv
<1> QED BY <1>1, VisitInvHolds, PTL

(* On every path through a visit, the observation that is drained after it *)
(* is about it, is finished, and says improved only of a replacement.      *)
THEOREM ObservationsAreTrue == Spec => []ObservationTruthful
<1>1. VisitInv => ObservationTruthful
  BY DEF VisitInv, PhaseInv
<1> QED BY <1>1, VisitInvHolds, PTL

-----------------------------------------------------------------------------
(* Where time is charged.  An allowance that is not used up still covers   *)
(* what has been spent; a solve under way fits into what is left.          *)
Allowance == Budget * Millisecond

BudgetInv ==
    /\ stack \in Seq(Sessions)
    /\ \A i, j \in 1..Len(stack) : stack[i] = stack[j] => i = j
    /\ remaining \in [Sessions -> Nat \cup {NoLimit}]
    /\ spent \in [Sessions -> Nat]
    /\ \A s \in Sessions : (\A i \in 1..Len(stack) : stack[i] # s) => spent[s] = 0
    /\ \A i \in 1..Len(stack) :
          /\ remaining[stack[i]] \in Nat
          /\ remaining[stack[i]] > 0 => spent[stack[i]] + remaining[stack[i]] <= Allowance
    /\ \A s \in Sessions : spent[s] <= Allowance + Overrun
    /\ pc = "solve" /\ stack # <<>> =>
          /\ limit \in Nat \ {0}
          /\ limit * Millisecond <= remaining[Innermost]

(* What the library's Min and Max are on the sets the rule asks for.       *)
LEMMA MaxOfTwo ==
    ASSUME NEW x \in Int
    PROVE  Max({0, x}) = IF x > 0 THEN x ELSE 0
<1>1. \E m \in {0, x} : \A y \in {0, x} : m >= y
  <2>1. CASE x > 0
    BY <2>1
  <2>2. CASE x <= 0
    BY <2>2
  <2> QED BY <2>1, <2>2
<1>2. Max({0, x}) \in {0, x} /\ \A y \in {0, x} : Max({0, x}) >= y
  BY <1>1 DEF Max
<1> QED BY <1>2

LEMMA MinBelow ==
    ASSUME NEW x \in Nat, NEW T \in SUBSET {SolveTimeout}, T \subseteq Nat \ {0}
    PROVE  /\ Min({x} \cup T) \in Nat
           /\ Min({x} \cup T) <= x
<1>1. \E m \in {x} \cup T : \A y \in {x} \cup T : m =< y
  <2>1. CASE T = {}
    BY <2>1
  <2>2. CASE T = {SolveTimeout}
    <3>1. SolveTimeout \in Nat
      BY <2>2
    <3>2. CASE x <= SolveTimeout
      BY <2>2, <3>1, <3>2
    <3>3. CASE SolveTimeout <= x
      BY <2>2, <3>1, <3>3
    <3> QED BY <3>1, <3>2, <3>3
  <2> QED BY <2>1, <2>2
<1>2. Min({x} \cup T) \in {x} \cup T /\ \A y \in {x} \cup T : Min({x} \cup T) =< y
  BY <1>1 DEF Min
<1> QED BY <1>2

LEMMA WholeMilliseconds ==
    ASSUME NEW x \in Nat, NEW m \in Nat \ {0}, NEW n \in Nat, n <= x \div m
    PROVE  x \div m \in Nat /\ n * m <= x
<1>1. x \div m \in Nat /\ (x \div m) * m <= x
  OBVIOUS
<1>2. n * m <= (x \div m) * m
  BY <1>1
<1> QED BY <1>1, <1>2

LEMMA StackFacts ==
    ASSUME NEW q \in Seq(Sessions)
    PROVE  /\ Len(q) \in Nat /\ DOMAIN q = 1..Len(q)
           /\ q # <<>> => Len(q) > 0 /\ Len(q) \in 1..Len(q)
           /\ \A i \in 1..Len(q) : q[i] \in Sessions
           /\ \A s \in Sessions :
                 /\ Append(q, s) \in Seq(Sessions) /\ Len(Append(q, s)) = Len(q) + 1
                 /\ Append(q, s)[Len(q) + 1] = s
                 /\ \A i \in 1..Len(q) : Append(q, s)[i] = q[i]
           /\ q # <<>> =>
                 /\ SubSeq(q, 1, Len(q) - 1) \in Seq(Sessions)
                 /\ Len(SubSeq(q, 1, Len(q) - 1)) = Len(q) - 1
                 /\ \A i \in 1..Len(q) - 1 : SubSeq(q, 1, Len(q) - 1)[i] = q[i]
<1>1. /\ Len(q) \in Nat /\ DOMAIN q = 1..Len(q)
      /\ q # <<>> => Len(q) > 0
      /\ \A i \in 1..Len(q) : q[i] \in Sessions
  OBVIOUS
<1>2. ASSUME NEW s \in Sessions
      PROVE  /\ Append(q, s) \in Seq(Sessions) /\ Len(Append(q, s)) = Len(q) + 1
             /\ Append(q, s)[Len(q) + 1] = s
             /\ \A i \in 1..Len(q) : Append(q, s)[i] = q[i]
  OBVIOUS
<1>3. ASSUME q # <<>>
      PROVE  /\ SubSeq(q, 1, Len(q) - 1) \in Seq(Sessions)
             /\ Len(SubSeq(q, 1, Len(q) - 1)) = Len(q) - 1
             /\ \A i \in 1..Len(q) - 1 : SubSeq(q, 1, Len(q) - 1)[i] = q[i]
  <2>1. Len(q) - 1 \in 0..Len(q) /\ \A i \in 1..Len(q) - 1 : i \in 1..Len(q)
    BY <1>1, <1>3
  <2> QED BY <1>1, <2>1
<1>4. q # <<>> => Len(q) \in 1..Len(q)
  BY <1>1
<1> QED BY <1>1, <1>2, <1>3, <1>4

LEMMA AllowanceType ==
    ASSUME Budget # NoLimit
    PROVE  Budget \in Nat \ {0} /\ Millisecond \in Nat \ {0} /\ Overrun \in Nat
           /\ Allowance \in Nat
BY TimeAssumption DEF Allowance

(* A step that charges nothing and does not begin a solve.                 *)
LEMMA NothingCharged ==
    ASSUME BudgetInv, UNCHANGED sessionVars,
           pc' # "solve" \/ UNCHANGED <<pc, limit>>
    PROVE  BudgetInv'
BY DEF BudgetInv, sessionVars, Innermost

LEMMA BeginKeepsBudget ==
    ASSUME Budget # NoLimit, BudgetInv, NEW s \in Sessions, Begin(s)
    PROVE  BudgetInv'
<1> USE DEF BudgetInv
<1>1. /\ stack' = Append(stack, s) /\ Len(stack') = Len(stack) + 1
      /\ stack' \in Seq(Sessions)
      /\ stack'[Len(stack) + 1] = s
      /\ \A i \in 1..Len(stack) : stack'[i] = stack[i] /\ stack[i] # s /\ stack[i] \in Sessions
      /\ Len(stack) \in Nat
  BY StackFacts DEF Begin
<1>2. remaining' = [remaining EXCEPT ![s] = Allowance] /\ spent' = spent /\ pc' # "solve"
  BY DEF Begin, Allowance
<1>3. spent[s] = 0
  BY <1>1
<1>4. \A i, j \in 1..Len(stack') : stack'[i] = stack'[j] => i = j
  <2> SUFFICES ASSUME NEW i \in 1..Len(stack) + 1, NEW j \in 1..Len(stack) + 1,
                      stack'[i] = stack'[j]
               PROVE  i = j
    BY <1>1
  <2>1. CASE i = Len(stack) + 1 /\ j # Len(stack) + 1
    <3>1. j \in 1..Len(stack)
      BY <1>1, <2>1
    <3> QED BY <1>1, <2>1, <3>1
  <2>2. CASE j = Len(stack) + 1 /\ i # Len(stack) + 1
    <3>1. i \in 1..Len(stack)
      BY <1>1, <2>2
    <3> QED BY <1>1, <2>2, <3>1
  <2>3. CASE i # Len(stack) + 1 /\ j # Len(stack) + 1
    <3>1. i \in 1..Len(stack) /\ j \in 1..Len(stack)
      BY <1>1, <2>3
    <3> QED BY <1>1, <3>1
  <2> QED BY <2>1, <2>2, <2>3
<1>5. remaining' \in [Sessions -> Nat \cup {NoLimit}]
  BY <1>2, AllowanceType
<1>6. ASSUME NEW i \in 1..Len(stack')
      PROVE  /\ remaining'[stack'[i]] \in Nat
             /\ remaining'[stack'[i]] > 0
                  => spent'[stack'[i]] + remaining'[stack'[i]] <= Allowance
  <2>1. CASE i = Len(stack) + 1
    BY <1>1, <1>2, <1>3, <2>1, AllowanceType
  <2>2. CASE i # Len(stack) + 1
    <3>1. i \in 1..Len(stack) /\ stack'[i] = stack[i]
      BY <1>1, <2>2
    <3>2. remaining'[stack[i]] = remaining[stack[i]]
      BY <1>1, <1>2, <3>1
    <3> QED BY <1>2, <3>1, <3>2
  <2> QED BY <2>1, <2>2
<1>7. ASSUME NEW u \in Sessions, \A i \in 1..Len(stack') : stack'[i] # u
      PROVE  spent'[u] = 0
  <2>1. \A i \in 1..Len(stack) : stack[i] # u
    BY <1>1, <1>7
  <2> QED BY <1>2, <2>1
<1> QED BY <1>1, <1>2, <1>4, <1>5, <1>6, <1>7

LEMMA EndKeepsBudget ==
    ASSUME Budget # NoLimit, BudgetInv, End
    PROVE  BudgetInv'
<1> USE DEF BudgetInv
<1> DEFINE top == Innermost
<1>1. /\ Len(stack) \in Nat \ {0} /\ Len(stack') = Len(stack) - 1
      /\ stack' \in Seq(Sessions) /\ top \in Sessions /\ top = stack[Len(stack)]
      /\ \A i \in 1..Len(stack) - 1 : stack'[i] = stack[i] /\ stack[i] \in Sessions
  BY StackFacts DEF End, Innermost
<1>2. ASSUME NEW i \in 1..Len(stack) - 1 PROVE stack[i] # top
  <2>1. i \in 1..Len(stack) /\ Len(stack) \in 1..Len(stack) /\ i # Len(stack)
    BY <1>1
  <2> QED BY <1>1, <2>1
<1>3. /\ remaining' = [remaining EXCEPT ![top] = NoLimit]
      /\ spent' = [spent EXCEPT ![top] = 0] /\ pc' # "solve"
  BY DEF End
<1> HIDE DEF top
<1>4. /\ remaining' \in [Sessions -> Nat \cup {NoLimit}] /\ spent' \in [Sessions -> Nat]
      /\ \A u \in Sessions \ {top} : remaining'[u] = remaining[u] /\ spent'[u] = spent[u]
      /\ spent'[top] = 0
  BY <1>1, <1>3
<1>5. ASSUME NEW i \in 1..Len(stack')
      PROVE  /\ remaining'[stack'[i]] \in Nat
             /\ remaining'[stack'[i]] > 0
                  => spent'[stack'[i]] + remaining'[stack'[i]] <= Allowance
  <2>1. i \in 1..Len(stack) - 1 /\ i \in 1..Len(stack) /\ stack'[i] = stack[i]
    BY <1>1
  <2>2. stack[i] \in Sessions \ {top}
    BY <1>1, <1>2, <2>1
  <2> QED BY <1>4, <2>1, <2>2
<1>6. ASSUME NEW u \in Sessions, \A i \in 1..Len(stack') : stack'[i] # u
      PROVE  spent'[u] = 0
  <2>1. CASE u = top
    BY <1>4, <2>1
  <2>2. CASE u # top
    <3>1. ASSUME NEW i \in 1..Len(stack) PROVE stack[i] # u
      <4>1. CASE i = Len(stack)
        BY <1>1, <2>2, <4>1
      <4>2. CASE i # Len(stack)
        <5>1. i \in 1..Len(stack) - 1 /\ i \in 1..Len(stack')
          BY <1>1, <4>2
        <5> QED BY <1>1, <1>6, <5>1
      <4> QED BY <4>1, <4>2
    <3> QED BY <1>4, <2>2, <3>1
  <2> QED BY <2>1, <2>2
<1>7. ASSUME NEW u \in Sessions PROVE spent'[u] <= Allowance + Overrun
  <2>1. CASE u = top
    BY <1>4, <2>1, AllowanceType
  <2>2. CASE u # top
    BY <1>4, <2>2
  <2> QED BY <2>1, <2>2
<1>8. ASSUME NEW i \in 1..Len(stack'), NEW j \in 1..Len(stack'), stack'[i] = stack'[j]
      PROVE  i = j
  <2>1. i \in 1..Len(stack) - 1 /\ j \in 1..Len(stack) - 1
        /\ i \in 1..Len(stack) /\ j \in 1..Len(stack)
    BY <1>1
  <2> QED BY <1>1, <1>8, <2>1
<1> QED BY <1>1, <1>3, <1>4, <1>5, <1>6, <1>7, <1>8

(* The limit of a solve is in whole milliseconds, and within what is left. *)
LEMMA AskKeepsBudget ==
    ASSUME Budget # NoLimit, BudgetInv, AskBudget
    PROVE  BudgetInv'
<1>1. CASE InlineLimit = 0
  BY <1>1, NothingCharged DEF AskBudget, Return
<1>2. CASE InlineLimit # 0
  <2>1. limit' = InlineLimit /\ UNCHANGED sessionVars
    BY <1>2 DEF AskBudget
  <2>2. ASSUME stack # <<>>
        PROVE  InlineLimit \in Nat \ {0} /\ InlineLimit * Millisecond <= remaining[Innermost]
    <3> DEFINE left == remaining[Innermost]
               T == {SolveTimeout} \ {NoLimit}
    <3>1. left \in Nat /\ left # NoLimit
      BY <2>2, StackFacts, TimeAssumption DEF BudgetInv, Innermost
    <3>2. T \in SUBSET {SolveTimeout} /\ T \subseteq Nat \ {0}
      BY TimeAssumption
    <3>3. InlineLimit = Min({left \div Millisecond} \cup T)
      BY <2>2, <3>1 DEF InlineLimit
    <3> HIDE DEF left, T
    <3>4. left \div Millisecond \in Nat
      BY <3>1, AllowanceType
    <3>5. InlineLimit \in Nat /\ InlineLimit <= left \div Millisecond
      BY <3>2, <3>3, <3>4, MinBelow
    <3>6. InlineLimit * Millisecond <= left
      BY <3>1, <3>5, AllowanceType, WholeMilliseconds
    <3> QED BY <1>2, <3>5, <3>6 DEF left
  <2> QED BY <2>1, <2>2 DEF BudgetInv, sessionVars, Innermost
<1> QED BY <1>1, <1>2

(* A solve takes its limit and the overrun at most, and is charged to the  *)
(* innermost session.                                                      *)
LEMMA SolveKeepsBudget ==
    ASSUME Budget # NoLimit, BudgetInv, Solve \/ SolveWidth
    PROVE  BudgetInv'
<1>1. pc = "solve" /\ pc' # "solve" /\ \E elapsed \in Elapsed : ChargeSolve(elapsed)
  BY DEF Solve, SolveWidth, Return, Accept
<1>2. CASE stack = <<>>
  BY <1>1, <1>2, NothingCharged DEF ChargeSolve
<1>3. CASE stack # <<>>
  <2> DEFINE top == Innermost
  <2>1. /\ top \in Sessions /\ Len(stack) \in 1..Len(stack) /\ top = stack[Len(stack)]
        /\ \A i \in 1..Len(stack) : stack[i] \in Sessions
    BY <1>3, StackFacts DEF BudgetInv, Innermost
  <2>2. /\ remaining[top] \in Nat /\ remaining[top] # NoLimit /\ spent[top] \in Nat
        /\ limit \in Nat \ {0} /\ limit * Millisecond <= remaining[top]
        /\ remaining[top] > 0 => spent[top] + remaining[top] <= Allowance
    BY <1>1, <1>3, <2>1, TimeAssumption DEF BudgetInv
  <2>3. limit * Millisecond \in Nat /\ limit * Millisecond > 0
    BY <2>2, AllowanceType
  <2>4. PICK elapsed \in 0..(limit * Millisecond + Overrun) :
            /\ remaining' = [remaining EXCEPT ![top] = Max({0, remaining[top] - elapsed})]
            /\ spent' = [spent EXCEPT ![top] = spent[top] + elapsed]
            /\ stack' = stack
    BY <1>1, <1>3, <2>2 DEF Elapsed, ChargeSolve
  <2> HIDE DEF top
  <2>5. elapsed \in Nat /\ elapsed <= remaining[top] + Overrun
    BY <2>2, <2>3, <2>4, AllowanceType
  <2>6. Max({0, remaining[top] - elapsed})
          = IF remaining[top] > elapsed THEN remaining[top] - elapsed ELSE 0
    BY <2>2, <2>5, MaxOfTwo
  <2>7. /\ remaining' \in [Sessions -> Nat \cup {NoLimit}] /\ spent' \in [Sessions -> Nat]
        /\ \A u \in Sessions \ {top} : remaining'[u] = remaining[u] /\ spent'[u] = spent[u]
        /\ spent'[top] = spent[top] + elapsed
        /\ remaining'[top] = IF remaining[top] > elapsed THEN remaining[top] - elapsed ELSE 0
    <3>1. Max({0, remaining[top] - elapsed}) \in Nat /\ spent[top] + elapsed \in Nat
      BY <2>2, <2>5, <2>6
    <3>2. /\ remaining \in [Sessions -> Nat \cup {NoLimit}] /\ spent \in [Sessions -> Nat]
      BY DEF BudgetInv
    <3> QED BY <2>1, <2>4, <2>6, <3>1, <3>2
  <2>8. /\ remaining'[top] \in Nat
        /\ remaining'[top] > 0 => spent'[top] + remaining'[top] <= Allowance
        /\ spent'[top] <= Allowance + Overrun
    BY <2>2, <2>3, <2>5, <2>7, AllowanceType
  <2>9. ASSUME NEW i \in 1..Len(stack)
        PROVE  /\ remaining'[stack[i]] \in Nat
               /\ remaining'[stack[i]] > 0
                    => spent'[stack[i]] + remaining'[stack[i]] <= Allowance
    <3>1. CASE stack[i] = top
      BY <2>8, <3>1
    <3>2. CASE stack[i] # top
      BY <2>1, <2>7, <3>2 DEF BudgetInv
    <3> QED BY <3>1, <3>2
  <2>10. ASSUME NEW u \in Sessions, \A i \in 1..Len(stack) : stack[i] # u
         PROVE  spent'[u] = 0
    <3>1. u # top
      BY <2>1, <2>10
    <3> QED BY <2>7, <2>10, <3>1 DEF BudgetInv
  <2>11. \A u \in Sessions : spent'[u] <= Allowance + Overrun
    BY <2>7, <2>8 DEF BudgetInv
  <2> QED BY <1>1, <2>4, <2>7, <2>9, <2>10, <2>11 DEF BudgetInv
<1> QED BY <1>2, <1>3

(* The solves of one decompilation take no longer than its allowance and   *)
(* one overrun, however decompilations nest, whatever the limit of a       *)
(* single solve, and however late the solver notices it.                   *)
THEOREM BudgetIsKept == Spec => []BudgetHonoured
<1>1. CASE Budget = NoLimit
  <2>1. BudgetHonoured
    BY <1>1 DEF BudgetHonoured
  <2> QED BY <2>1, PTL
<1>2. CASE Budget # NoLimit
  <2>1. Init => BudgetInv
    BY <1>2, AllowanceType DEF Init, BudgetInv
  <2>2. BudgetInv /\ [Next]_vars => BudgetInv'
    <3> SUFFICES ASSUME BudgetInv, [Next]_vars PROVE BudgetInv'
      OBVIOUS
    <3>1. CASE (\E s \in Sessions : Begin(s)) \/ End \/ AskBudget \/ Solve \/ SolveWidth
      BY <1>2, <3>1, BeginKeepsBudget, EndKeepsBudget, AskKeepsBudget, SolveKeepsBudget
    <3>2. CASE Configure \/ GateOpen \/ InstallSupport \/ AskAgain
      BY <3>2, NothingCharged DEF Configure, GateOpen, InstallSupport, AskAgain
    <3>3. CASE \E k \in Keys, width, captured \in BOOLEAN : Visit(k, width, captured)
      BY <3>3, NothingCharged DEF Visit
    <3>4. CASE Lookup \/ LookupWidth
      BY <3>4, NothingCharged DEF Lookup, LookupWidth, Rebuild, Return
    <3>5. CASE AskProver \/ WidthUnsupported \/ Prove \/ ProveWidth \/ Record \/ Raise
      BY <3>5, NothingCharged
         DEF AskProver, WidthUnsupported, Prove, ProveWidth, Record, Raise, Rebuild, Return
    <3>6. CASE Decide \/ Drain \/ GoOnUndrained
      BY <3>6, NothingCharged DEF Decide, Drain, GoOnUndrained, VisitOver
    <3>7. CASE (\E k \in Keys : Background(k)) \/ Elsewhere \/ UNCHANGED vars
      BY <3>7, NothingCharged DEF Background, Elsewhere, vars, ruleVars, visitVars
    <3> QED BY <3>1, <3>2, <3>3, <3>4, <3>5, <3>6, <3>7 DEF Next
  <2>3. BudgetInv => BudgetHonoured
    BY DEF BudgetInv, BudgetHonoured, Allowance
  <2> QED BY <2>1, <2>2, <2>3, PTL DEF Spec
<1> QED BY <1>1, <1>2

-----------------------------------------------------------------------------
(* The availability of z3 as the visits see it: the decompiler's thread is *)
(* the only one that asks, and an installer may announce between its asks. *)
Z3Inv == Z3TypeOK /\ BoundInv

LEMMA VisitsAskAlone ==
    ASSUME [Next]_vars
    PROVE  [Environment \/ Ask(Main) \/ Answering(Main)]_z3Vars \/ InstallSupport
<1>1. CASE Configure \/ AskAgain \/ AskProver
  BY <1>1 DEF Configure, AskAgain, AskProver
<1>2. CASE Elsewhere \/ UNCHANGED vars
  BY <1>2 DEF Elsewhere, vars
<1>3. CASE \/ GateOpen \/ End \/ \E s \in Sessions : Begin(s)
           \/ \E k \in Keys, width, captured \in BOOLEAN : Visit(k, width, captured)
           \/ \E k \in Keys : Background(k)
  BY <1>3 DEF GateOpen, End, Begin, Visit, Background
<1>4. CASE \/ Lookup \/ LookupWidth \/ AskBudget \/ Solve \/ SolveWidth
           \/ WidthUnsupported \/ Prove \/ ProveWidth \/ Record \/ Raise
           \/ Decide \/ Drain \/ GoOnUndrained
  BY <1>4 DEF Lookup, LookupWidth, AskBudget, Solve, SolveWidth, WidthUnsupported,
              Prove, ProveWidth, Record, Raise, Decide, Drain, GoOnUndrained, VisitOver
<1> QED BY <1>1, <1>2, <1>3, <1>4 DEF Next

LEMMA InstallKeepsZ3 ==
    ASSUME Z3Inv, InstallSupport
    PROVE  /\ Z3Inv'
           /\ FreshInv(Main) => FreshInv(Main)'
<1> USE DEF Z3Inv
<1>1. \/ /\ generation < MaxGeneration
         /\ installed' = TRUE
         /\ generation' = generation + 1
      \/ UNCHANGED <<installed, generation>>
  BY DEF InstallSupport
<1>2. UNCHANGED <<available, stamp, bound, at, seen, found, told>>
  BY DEF InstallSupport
<1>3. /\ generation \in Nat /\ generation' \in Nat
      /\ generation' \in 0..MaxGeneration /\ installed' \in BOOLEAN
      /\ generation <= generation'
      /\ (generation > 0 => installed) => (generation' > 0 => installed')
  <2>1. generation \in 0..MaxGeneration /\ installed \in BOOLEAN
    BY DEF Z3TypeOK
  <2>2. CASE generation < MaxGeneration /\ installed' = TRUE /\ generation' = generation + 1
    BY <2>1, <2>2, MaxGenerationAssumption
  <2>3. CASE UNCHANGED <<installed, generation>>
    BY <2>1, <2>3, MaxGenerationAssumption
  <2> QED BY <1>1, <2>2, <2>3
<1>4. BoundInv'
  BY <1>2 DEF BoundInv, ModuleBound
<1>5. Z3TypeOK'
  BY <1>2, <1>3 DEF Z3TypeOK
<1>6. ASSUME FreshInv(Main) PROVE FreshInv(Main)'
  <2>1. stamp \in Int /\ seen[Main] \in Int /\ stamp <= generation /\ seen[Main] <= generation
    BY <1>6, MainAssumption, MaxGenerationAssumption DEF FreshInv, Z3TypeOK
  <2>2. stamp' <= generation' /\ seen'[Main] <= generation'
    BY <1>2, <1>3, <2>1
  <2> QED BY <1>2, <1>3, <1>6, <2>2 DEF FreshInv
<1> QED BY <1>4, <1>5, <1>6

LEMMA Z3InvNext == Z3Inv /\ [Next]_vars => Z3Inv'
<1> SUFFICES ASSUME Z3Inv, [Next]_vars PROVE Z3Inv'
  OBVIOUS
<1>1. CASE [Environment \/ Ask(Main) \/ Answering(Main)]_z3Vars
  <2>1. [Z3Next]_z3Vars
    BY <1>1, MainAssumption DEF Z3Next
  <2> QED BY <2>1, Z3TypeNext, BoundNext DEF Z3Inv
<1> QED BY <1>1, VisitsAskAlone, InstallKeepsZ3

LEMMA Z3InvHolds == Spec => []Z3Inv
<1>1. Init => Z3Inv
  BY Z3TypeInit, BoundInit DEF Init, Z3Inv
<1> QED BY <1>1, Z3InvNext, PTL DEF Spec

(* The rule finds the module bound whenever z3_available told it yes, also *)
(* when the installation was its own (_install_solver_support).            *)
THEOREM VisitsFindZ3Bound == Spec => []ModuleBound
<1>1. Z3Inv => ModuleBound
  BY DEF Z3Inv, BoundInv
<1> QED BY <1>1, Z3InvHolds, PTL

(* Where nobody but the decompiler's thread resets the detection, the rule *)
(* is told that z3 is there by every call that began after an announcement,*)
(* its own installation's or another's, so that no candidate is put off,   *)
(* and no width abstained from, for an absence that is over.               *)
THEOREM VisitsAnswerIsFresh ==
    ASSUME Resetters \subseteq {Main}
    PROVE  Spec => []AnswerIsFresh
<1>1. Init => FreshInv(Main)
  BY FreshInit, MainAssumption DEF Init
<1>2. Z3Inv /\ FreshInv(Main) /\ [Next]_vars => FreshInv(Main)'
  <2> SUFFICES ASSUME Z3Inv, FreshInv(Main), [Next]_vars PROVE FreshInv(Main)'
    OBVIOUS
  <2>1. CASE [Environment \/ Ask(Main) \/ Answering(Main)]_z3Vars
    BY <2>1, FreshNext, MainAssumption DEF Z3Inv
  <2> QED BY <2>1, VisitsAskAlone, InstallKeepsZ3
<1>3. Z3Inv /\ FreshInv(Main) => AnswerIsFresh
  BY FreshAnswers, MainAssumption DEF Z3Inv
<1> QED BY <1>1, <1>2, <1>3, Z3InvHolds, PTL DEF Spec

-----------------------------------------------------------------------------
(* Types.  What a visit works on is typed where it is read: the statuses   *)
(* and rewrites it returns, and the limit of a solve that is charged.      *)
SlotsType ==
    /\ observation \in Observations
    /\ visit = NoVisit \/ visit \in Visits
    /\ {solved, out} \subseteq Rewrites \cup {NoTree}

LEMMA ReturnTyped ==
    ASSUME SlotsType, NEW status \in Statuses, NEW tree \in Rewrites \cup {NoTree},
           Return(status, tree)
    PROVE  SlotsType'
<1>1. Finished(observation, status) \in Observations
  BY DEF SlotsType, Finished, NoObservation, Observations
<1> QED BY <1>1 DEF SlotsType, Return

LEMMA RebuildTyped ==
    ASSUME SlotsType, NEW r \in Rewrites, Rebuild(r)
    PROVE  SlotsType'
<1>1. CASE Return("improved", r)
  BY <1>1, ReturnTyped DEF Statuses
<1>2. CASE Return("reconstruction_failed", NoTree)
  BY <1>2, ReturnTyped DEF Statuses
<1> QED BY <1>1, <1>2, NoTreeAssumption DEF Rebuild

LEMMA NextSlotsType ==
    ASSUME VisitInv, SlotsType, [Next]_vars
    PROVE  SlotsType'
<1>s. {"over_budget", "unchanged", "error", "proof_failed", "unavailable", "ineligible"}
         \subseteq Statuses
  BY DEF Statuses
<1>n. ASSUME NEW status \in Statuses, Return(status, NoTree) PROVE SlotsType'
  BY <1>n, ReturnTyped
<1>u. ASSUME UNCHANGED <<observation, visitVars>> PROVE SlotsType'
  BY <1>u DEF SlotsType, visitVars
<1>a. ASSUME NEW r \in Rewrites, NEW next, Accept(r, next) PROVE SlotsType'
  BY <1>a DEF SlotsType, Accept
<1>k. pc \in Working => visit.key \in Keys
  BY DEF VisitInv, PhaseInv, Visits
<1>1. CASE \/ Configure \/ GateOpen \/ InstallSupport \/ AskAgain
           \/ End \/ (\E s \in Sessions : Begin(s)) \/ AskProver
           \/ (\E k \in Keys : Background(k)) \/ Elsewhere \/ UNCHANGED vars
  BY <1>1, <1>u DEF Configure, GateOpen, InstallSupport, AskAgain, End, Begin, AskProver,
                    Background, Elsewhere, vars, ruleVars
<1>2. ASSUME NEW k \in Keys, NEW width \in BOOLEAN, NEW captured \in BOOLEAN,
             Visit(k, width, captured)
      PROVE  SlotsType'
  <2> DEFINE begun == IF captured THEN [status |-> "pending", current |-> TRUE]
                      ELSE observation
  <2>1. begun \in Observations
    BY DEF SlotsType, Statuses, Observations
  <2>2. \A status \in Statuses : Finished(begun, status) \in Observations
    BY <2>1 DEF Finished, NoObservation, Observations
  <2>3. \/ observation' = begun
        \/ \E refusal \in {"ineligible", "over_budget", "unavailable", "error"} :
              observation' = Finished(begun, refusal)
    BY <1>2 DEF Visit
  <2> HIDE DEF begun
  <2>4. observation' \in Observations
    BY <1>s, <2>1, <2>2, <2>3
  <2>5. visit' \in Visits
    BY <1>2 DEF Visit, Visits
  <2> QED BY <1>2, <2>4, <2>5 DEF Visit, SlotsType
<1>3. CASE Lookup
  <2>1. ASSUME IsProved(visit.key) PROVE entries[visit.key].rewrite \in Rewrites
    BY <1>3, <1>k, <2>1 DEF Lookup, Working, VisitInv, TablesInv
  <2>2. ASSUME IsProved(visit.key), Rebuild(entries[visit.key].rewrite) PROVE SlotsType'
    BY <2>1, <2>2, RebuildTyped
  <2> QED BY <1>3, <1>s, <1>n, <1>u, <2>2 DEF Lookup
<1>4. CASE LookupWidth
  <2> DEFINE k == visit.key
  <2>1. k \in Keys
    BY <1>4, <1>k DEF LookupWidth, Working
  <2>2. abstention[k] # "none" => abstention[k] \in Statuses
    BY <2>1 DEF VisitInv, TablesInv, Statuses
  <2>3. Width!IsProved(k) => widthEntries[k].rewrite \in Rewrites
    BY <2>1, SoundAssumption DEF VisitInv, TablesInv
  <2>4. ASSUME Width!IsProved(k), Rebuild(widthEntries[k].rewrite) PROVE SlotsType'
    BY <2>3, <2>4, RebuildTyped
  <2>5. ASSUME abstention[k] # "none", Return(abstention[k], NoTree) PROVE SlotsType'
    BY <1>n, <2>2, <2>5
  <2> QED BY <1>4, <1>s, <1>n, <1>u, <2>4, <2>5 DEF LookupWidth
<1>5. CASE AskBudget
  <2>1. ASSUME UNCHANGED <<observation, visit, solved, out>> PROVE SlotsType'
    BY <2>1 DEF SlotsType
  <2> QED BY <1>5, <1>s, <1>n, <2>1 DEF AskBudget
<1>6. CASE Solve
  BY <1>6, <1>s, <1>n, <1>a DEF Solve
<1>7. CASE SolveWidth
  BY <1>7, <1>s, <1>n, <1>a DEF SolveWidth
<1>8. CASE WidthUnsupported
  BY <1>8, <1>s, <1>n DEF WidthUnsupported
<1>9. CASE Prove
  BY <1>9, <1>s, <1>n, <1>u DEF Prove
<1>10. CASE ProveWidth
  <2>1. solved \in Rewrites
    BY <1>10 DEF ProveWidth, VisitInv, PhaseInv
  <2> QED BY <1>10, <1>s, <1>n, <2>1, RebuildTyped DEF ProveWidth
<1>11. CASE Record
  <2>1. solved \in Rewrites
    BY <1>11 DEF Record, VisitInv, PhaseInv
  <2> QED BY <1>11, <2>1, RebuildTyped DEF Record
<1>12. CASE Raise
  BY <1>12, <1>s, <1>n DEF Raise
<1>13. CASE Decide
  <2>1. observation' \in Observations
    BY <1>13 DEF Decide, SlotsType, Statuses, Observations
  <2> QED BY <1>13, <2>1 DEF Decide, SlotsType, visitVars
<1>14. CASE Drain \/ GoOnUndrained
  <2>1. observation' \in Observations
    <3>1. NoObservation \in Observations
      BY DEF NoObservation, Observations
    <3> QED BY <1>14, <3>1 DEF Drain, GoOnUndrained, SlotsType, Observations
  <2> QED BY <1>14, <2>1 DEF Drain, GoOnUndrained, VisitOver, SlotsType
<1> QED BY <1>1, <1>2, <1>3, <1>4, <1>5, <1>6, <1>7, <1>8, <1>9, <1>10, <1>11, <1>12,
           <1>13, <1>14 DEF Next


-----------------------------------------------------------------------------
(* Times: what is left and what is spent are counted in whole units, with  *)
(* or without an allowance, and a solve that is charged has a limit.       *)
TimesInv ==
    /\ stack \in Seq(Sessions)
    /\ remaining \in [Sessions -> Nat \cup {NoLimit}]
    /\ spent \in [Sessions -> Nat]
    /\ limit \in Nat \cup {NoLimit}
    /\ pc = "solve" /\ stack # <<>> /\ remaining[Innermost] # NoLimit => limit \in Nat

LEMMA InlineLimitType ==
    ASSUME TimesInv
    PROVE  /\ InlineLimit \in Nat \cup {NoLimit}
           /\ stack # <<>> /\ remaining[Innermost] # NoLimit => InlineLimit \in Nat
<1>1. CASE stack = <<>> \/ remaining[Innermost] = NoLimit
  BY <1>1, TimeAssumption DEF InlineLimit
<1>2. CASE stack # <<>> /\ remaining[Innermost] # NoLimit
  <2> DEFINE left == remaining[Innermost]
             T == {SolveTimeout} \ {NoLimit}
  <2>1. left \in Nat
    BY <1>2, StackFacts DEF TimesInv, Innermost
  <2>2. T \in SUBSET {SolveTimeout} /\ T \subseteq Nat \ {0}
    BY TimeAssumption
  <2>3. InlineLimit = Min({left \div Millisecond} \cup T)
    BY <1>2 DEF InlineLimit
  <2> HIDE DEF left, T
  <2>4. left \div Millisecond \in Nat
    BY <2>1, TimeAssumption
  <2> QED BY <2>2, <2>3, <2>4, MinBelow
<1> QED BY <1>1, <1>2

LEMMA TimesNext ==
    ASSUME TimesInv, [Next]_vars
    PROVE  TimesInv'
<1>r. ASSUME UNCHANGED sessionVars, limit' \in {limit, NoLimit}, pc' # "solve"
      PROVE  TimesInv'
  BY <1>r DEF TimesInv, sessionVars
<1>u. ASSUME UNCHANGED <<sessionVars, limit, pc>> PROVE TimesInv'
  BY <1>u DEF TimesInv, sessionVars, Innermost
<1>1. CASE Configure \/ GateOpen \/ InstallSupport \/ AskAgain \/ AskProver
  BY <1>1, <1>r DEF Configure, GateOpen, InstallSupport, AskAgain, AskProver, visitVars
<1>2. CASE (\E k \in Keys : Background(k)) \/ Elsewhere \/ UNCHANGED vars
  BY <1>2, <1>u DEF Background, Elsewhere, vars, ruleVars, visitVars
<1>3. CASE \E k \in Keys, width, captured \in BOOLEAN : Visit(k, width, captured)
  BY <1>3, <1>r DEF Visit
<1>4. CASE Lookup \/ LookupWidth
  BY <1>4, <1>r DEF Lookup, LookupWidth, Rebuild, Return, visitVars
<1>5. CASE WidthUnsupported \/ Prove \/ ProveWidth \/ Record \/ Raise
  BY <1>5, <1>r DEF WidthUnsupported, Prove, ProveWidth, Record, Raise, Rebuild, Return,
                    visitVars
<1>6. CASE Decide \/ Drain \/ GoOnUndrained
  BY <1>6, <1>r DEF Decide, Drain, GoOnUndrained, VisitOver, visitVars
<1>7. ASSUME NEW s \in Sessions, Begin(s) PROVE TimesInv'
  <2>1. stack' \in Seq(Sessions)
    BY <1>7, StackFacts DEF Begin, TimesInv
  <2>2. (IF Budget = NoLimit THEN NoLimit ELSE Budget * Millisecond) \in Nat \cup {NoLimit}
    BY TimeAssumption
  <2>3. remaining' \in [Sessions -> Nat \cup {NoLimit}]
    BY <1>7, <2>2 DEF Begin, TimesInv
  <2> QED BY <1>7, <2>1, <2>3 DEF Begin, TimesInv, visitVars
<1>8. CASE End
  <2>1. stack' \in Seq(Sessions)
    BY <1>8, StackFacts DEF End, TimesInv
  <2>2. remaining' \in [Sessions -> Nat \cup {NoLimit}] /\ spent' \in [Sessions -> Nat]
    BY <1>8 DEF End, TimesInv
  <2> QED BY <1>8, <2>1, <2>2 DEF End, TimesInv, visitVars
<1>9. CASE AskBudget
  <2>1. CASE InlineLimit = 0
    BY <1>9, <2>1, <1>r DEF AskBudget, Return
  <2>2. CASE InlineLimit # 0
    <3>1. limit' = InlineLimit /\ UNCHANGED sessionVars
      BY <1>9, <2>2 DEF AskBudget
    <3> QED BY <3>1, InlineLimitType DEF TimesInv, sessionVars, Innermost
  <2> QED BY <2>1, <2>2
<1>10. CASE Solve \/ SolveWidth
  <2>1. /\ pc = "solve" /\ pc' # "solve" /\ limit' = limit
        /\ \E elapsed \in Elapsed : ChargeSolve(elapsed)
    BY <1>10 DEF Solve, SolveWidth, Return, Accept
  <2>2. CASE stack = <<>> \/ remaining[Innermost] = NoLimit
    BY <2>1, <2>2, <1>r DEF ChargeSolve
  <2>3. CASE stack # <<>> /\ remaining[Innermost] # NoLimit
    <3> DEFINE top == Innermost
    <3>1. top \in Sessions /\ remaining[top] \in Nat /\ spent[top] \in Nat /\ limit \in Nat
      BY <2>1, <2>3, StackFacts DEF TimesInv, Innermost
    <3>2. PICK elapsed \in 0..(limit * Millisecond + Overrun) :
              /\ remaining' = [remaining EXCEPT ![top] = Max({0, remaining[top] - elapsed})]
              /\ spent' = [spent EXCEPT ![top] = spent[top] + elapsed]
              /\ stack' = stack
      BY <2>1, <2>3 DEF Elapsed, ChargeSolve
    <3> HIDE DEF top
    <3>3. limit * Millisecond \in Nat
      BY <3>1, TimeAssumption
    <3>4. elapsed \in Nat
      BY <3>2, <3>3, TimeAssumption
    <3>5. Max({0, remaining[top] - elapsed}) \in Nat
      BY <3>1, <3>4, MaxOfTwo
    <3>6. remaining' \in [Sessions -> Nat \cup {NoLimit}] /\ spent' \in [Sessions -> Nat]
      BY <3>1, <3>2, <3>4, <3>5 DEF TimesInv
    <3> QED BY <2>1, <3>2, <3>6 DEF TimesInv
  <2> QED BY <2>2, <2>3
<1> QED BY <1>1, <1>2, <1>3, <1>4, <1>5, <1>6, <1>7, <1>8, <1>9, <1>10 DEF Next

(* Types: every variable of the rule between visits keeps its type, z3's   *)
(* availability and both tables included.                                  *)
THEOREM TypeCorrect == Spec => []TypeOK
<1>1. Init => SlotsType /\ TimesInv
  BY DEF Init, SlotsType, TimesInv, NoObservation, Observations, Statuses
<1>2. VisitInv /\ SlotsType /\ TimesInv /\ [Next]_vars => (SlotsType /\ TimesInv)'
  BY NextSlotsType, TimesNext
<1>3. Z3Inv /\ VisitInv /\ SlotsType /\ TimesInv => TypeOK
  BY DEF Z3Inv, VisitInv, TablesInv, SlotsType, Observations, Visits, TimesInv, TypeOK, Statuses
<1> QED BY <1>1, <1>2, <1>3, Z3InvHolds, VisitInvHolds, PTL DEF Spec

=============================================================================
