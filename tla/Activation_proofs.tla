-------------------------- MODULE Activation_proofs --------------------------
(***************************************************************************)
(* Theorems about an activation, for every set of threads and of rules.    *)
(***************************************************************************)
EXTENDS Activation, TLAPS

(* Neither half of it is inductive alone: that a method is never called on *)
(* a rule that has had all of them needs that no two calls hold the rule.  *)
IInv == TypeOK /\ OneOwner

LEMMA InitInv == Init => IInv
<1> SUFFICES ASSUME Init PROVE IInv
  OBVIOUS
<1>1. TypeOK
  <2>1. called \in [Rules -> 0..Methods]
    BY DEF Init, Methods
  <2>2. closed \in BOOLEAN /\ raised \in [Threads -> BOOLEAN]
    BY Zenon DEF Init
  <2>3. rules \subseteq born /\ born \subseteq Rules /\ todo \in [Threads -> SUBSET born]
    BY Zenon DEF Init
  <2> QED BY <2>1, <2>2, <2>3 DEF TypeOK
<1>2. OneOwner
  BY DEF Init, OneOwner
<1> QED BY <1>1, <1>2 DEF IInv

LEMMA CreateInv ==
    ASSUME IInv, NEW t \in Threads, NEW r \in Rules, Create(t, r)
    PROVE  IInv'
<1> USE DEF IInv, Idle
<1>1. CASE rules' = rules \cup {r} /\ UNCHANGED todo
  <2>1. /\ raised' = [raised EXCEPT ![t] = FALSE]
        /\ born' = born \cup {r} /\ r \notin born /\ ~closed
        /\ UNCHANGED <<closed, called>>
    BY <1>1 DEF Create, TypeOK, OneOwner
  <2>2. TypeOK'
    BY <1>1, <2>1 DEF TypeOK
  <2>3. OneOwner'
    BY <1>1, <2>1 DEF TypeOK, OneOwner
  <2> QED BY <2>2, <2>3
<1>2. CASE todo' = [todo EXCEPT ![t] = {r}] /\ UNCHANGED rules
  <2>1. /\ raised' = [raised EXCEPT ![t] = TRUE]
        /\ born' = born \cup {r} /\ r \notin born /\ ~closed
        /\ UNCHANGED <<closed, called>>
    BY <1>2 DEF Create, TypeOK, OneOwner
  <2>2. TypeOK'
    BY <1>2, <2>1 DEF TypeOK
  <2>3. \A u \in Threads : todo'[u] = IF u = t THEN {r} ELSE todo[u]
    BY <1>2 DEF TypeOK
  <2>4. OneOwner'
    BY <1>2, <2>1, <2>3 DEF TypeOK, OneOwner, Create, Methods
  <2> QED BY <2>2, <2>4
<1> QED BY <1>1, <1>2 DEF Create

LEMMA TakeInv ==
    ASSUME IInv, NEW t \in Threads, NEW taken \in SUBSET rules,
           Idle(t),
           rules' = rules \ taken,
           todo' = [todo EXCEPT ![t] = taken],
           raised' = [raised EXCEPT ![t] = FALSE],
           closed' \in BOOLEAN, closed' => closed \/ taken = rules,
           UNCHANGED <<born, called>>
    PROVE  IInv'
<1> USE DEF IInv, Idle
<1>1. TypeOK'
  BY DEF TypeOK
<1>2. \A u \in Threads : todo'[u] = IF u = t THEN taken ELSE todo[u]
  BY DEF TypeOK
<1>3. OneOwner'
  <2>1. (closed => rules = {})' /\ (\A r \in rules : called[r] = 0)'
    BY DEF OneOwner
  <2>2. (\A u \in Threads : \A r \in todo[u] : called[r] < Methods /\ r \notin rules)'
    BY <1>2 DEF TypeOK, OneOwner, Methods
  <2>3. (\A u, v \in Threads : u # v => todo[u] \cap todo[v] = {})'
    BY <1>2 DEF TypeOK, OneOwner
  <2>4. (\A r \in born \ rules : called[r] = Methods \/ \E u \in Threads : r \in todo[u])'
    BY <1>2 DEF TypeOK, OneOwner
  <2>5. (\A r \in Rules \ born : called[r] = 0)'
    BY DEF OneOwner
  <2> QED BY <2>1, <2>2, <2>3, <2>4, <2>5 DEF OneOwner
<1> QED BY <1>1, <1>3

LEMMA CleanUpInv ==
    ASSUME IInv, NEW t \in Threads, NEW r \in Rules, NEW fails \in BOOLEAN,
           CleanUp(t, r, fails)
    PROVE  IInv'
<1> USE DEF IInv
<1>1. /\ r \in todo[t] /\ r \in born /\ r \notin rules
      /\ called[r] \in 0..Methods /\ called[r] < Methods
      /\ called' = [called EXCEPT ![r] = @ + 1]
      /\ todo' = [todo EXCEPT ![t] = IF called[r] + 1 < Methods THEN @ ELSE @ \ {r}]
      /\ raised' = [raised EXCEPT ![t] = @ \/ fails]
      /\ UNCHANGED <<closed, rules, born>>
  BY DEF CleanUp, TypeOK, OneOwner
<1>2. \A s \in Rules : called'[s] = IF s = r THEN called[r] + 1 ELSE called[s]
  BY <1>1 DEF TypeOK
<1>3. \A u \in Threads :
         todo'[u] = IF u = t /\ called[r] + 1 >= Methods THEN todo[t] \ {r} ELSE todo[u]
  BY <1>1 DEF TypeOK, Methods
<1>4. raised' \in [Threads -> BOOLEAN]
  <2>1. (raised[t] \/ fails) \in BOOLEAN
    OBVIOUS
  <2> QED BY <1>1, <2>1, Zenon DEF TypeOK
<1>5. called' \in [Rules -> 0..Methods]
  BY <1>1 DEF TypeOK, Methods
<1>6. todo' \in [Threads -> SUBSET born]
  BY <1>1 DEF TypeOK
<1>7. TypeOK'
  BY <1>1, <1>4, <1>5, <1>6 DEF TypeOK
<1>8. OneOwner'
  <2>1. (closed => rules = {})' /\ (\A s \in rules : called[s] = 0)'
    BY <1>1, <1>2 DEF TypeOK, OneOwner
  <2>2. (\A u \in Threads : \A s \in todo[u] : called[s] < Methods /\ s \notin rules)'
    BY <1>1, <1>2, <1>3 DEF TypeOK, OneOwner, Methods
  <2>3. (\A u, v \in Threads : u # v => todo[u] \cap todo[v] = {})'
    BY <1>3 DEF TypeOK, OneOwner
  <2>4. (\A s \in born \ rules : called[s] = Methods \/ \E u \in Threads : s \in todo[u])'
    BY <1>1, <1>2, <1>3 DEF TypeOK, OneOwner, Methods
  <2>5. (\A s \in Rules \ born : called[s] = 0)'
    BY <1>1, <1>2 DEF TypeOK, OneOwner
  <2> QED BY <2>1, <2>2, <2>3, <2>4, <2>5 DEF OneOwner
<1> QED BY <1>7, <1>8

LEMMA StepInv == IInv /\ [Next]_vars => IInv'
<1> SUFFICES ASSUME IInv, [Next]_vars PROVE IInv'
  OBVIOUS
<1>1. ASSUME NEW t \in Threads, CreateAfterClose(t) PROVE IInv'
  BY <1>1 DEF CreateAfterClose, IInv, TypeOK, OneOwner
<1>2. ASSUME NEW t \in Threads, NEW r \in Rules, Create(t, r) PROVE IInv'
  BY <1>2, CreateInv
<1>3. ASSUME NEW t \in Threads, NEW r \in Rules, Release(t, r) PROVE IInv'
  <2>1. CASE closed
    BY <1>3, <2>1 DEF Release, IInv, TypeOK, OneOwner
  <2>2. CASE ~closed
    <3>1. rules' = rules \ ({r} \cap rules) /\ closed' = closed /\ closed \in BOOLEAN
      BY <1>3, <2>2 DEF Release, IInv, TypeOK
    <3>2. /\ {r} \cap rules \in SUBSET rules
          /\ todo' = [todo EXCEPT ![t] = {r} \cap rules]
          /\ raised' = [raised EXCEPT ![t] = FALSE]
          /\ Idle(t) /\ UNCHANGED <<born, called>>
      BY <1>3, <2>2 DEF Release
    <3>3. closed' \in BOOLEAN /\ (closed' => closed \/ {r} \cap rules = rules)
      BY <3>1
    <3> HIDE DEF IInv
    <3> QED BY <3>1, <3>2, <3>3, TakeInv
  <2> QED BY <2>1, <2>2
<1>4. ASSUME NEW t \in Threads, Close(t) PROVE IInv'
  <2>1. CASE closed
    BY <1>4, <2>1 DEF Close, IInv, TypeOK, OneOwner
  <2>2. CASE ~closed
    BY <1>4, <2>2, TakeInv DEF Close
  <2> QED BY <2>1, <2>2
<1>5. ASSUME NEW t \in Threads, Cleaning(t) PROVE IInv'
  BY <1>5, CleanUpInv DEF Cleaning
<1>6. CASE UNCHANGED vars
  BY <1>6 DEF vars, IInv, TypeOK, OneOwner
<1> QED BY <1>1, <1>2, <1>3, <1>4, <1>5, <1>6 DEF Next

THEOREM Invariant == Spec => []IInv
<1> QED BY InitInv, StepInv, PTL DEF Spec

(* The types of the activation's state: in particular no cleanup method is *)
(* called on a rule that has already had all three.                        *)
THEOREM TypeCorrect == Spec => []TypeOK
<1>1. IInv => TypeOK
  BY DEF IInv
<1> QED BY <1>1, Invariant, PTL

(* No two calls, and no call and the list, ever hold the same rule.        *)
THEOREM Exclusive == Spec => []OneOwner
<1>1. IInv => OneOwner
  BY DEF IInv
<1> QED BY <1>1, Invariant, PTL

-----------------------------------------------------------------------------
(* The refinement.  RuleStatus by cases, so that the steps need not open   *)
(* its definition.                                                         *)
LEMMA StatusCases ==
    ASSUME NEW r \in Rules
    PROVE  /\ r \notin born => RuleStatus(r) = "unborn"
           /\ r \in born /\ r \in rules => RuleStatus(r) = "owned"
           /\ r \in born /\ r \notin rules /\ (\E t \in Threads : r \in todo[t])
                => RuleStatus(r) = "leaving"
           /\ r \in born /\ r \notin rules /\ ~(\E t \in Threads : r \in todo[t])
                => RuleStatus(r) = "gone"
BY DEF RuleStatus

LEMMA StatusCasesNext ==
    ASSUME NEW r \in Rules
    PROVE  /\ r \notin born' => RuleStatus(r)' = "unborn"
           /\ r \in born' /\ r \in rules' => RuleStatus(r)' = "owned"
           /\ r \in born' /\ r \notin rules' /\ (\E t \in Threads : r \in todo'[t])
                => RuleStatus(r)' = "leaving"
           /\ r \in born' /\ r \notin rules' /\ ~(\E t \in Threads : r \in todo'[t])
                => RuleStatus(r)' = "gone"
BY DEF RuleStatus

(* A step that changes the status of one rule alone is a move of it.       *)
LEMMA MoveOne ==
    ASSUME NEW r \in Rules, NEW from, NEW to,
           RuleStatus(r) = from, RuleStatus(r)' = to,
           \A s \in Rules \ {r} : RuleStatus(s)' = RuleStatus(s)
    PROVE  Ownership!Move(r, from, to)
<1> DEFINE f == [s \in Rules |-> RuleStatus(s)]
           g == [s \in Rules |-> RuleStatus(s)']
<1>1. f[r] = from
  OBVIOUS
<1>2. g = [f EXCEPT ![r] = to]
  OBVIOUS
<1> QED BY <1>1, <1>2 DEF Ownership!Move

(* A step that changes the status of no rule stutters.                     *)
LEMMA MoveNone ==
    ASSUME UNCHANGED closed, \A s \in Rules : RuleStatus(s)' = RuleStatus(s)
    PROVE  UNCHANGED Ownership!vars
<1> DEFINE f == [s \in Rules |-> RuleStatus(s)]
           g == [s \in Rules |-> RuleStatus(s)']
<1>1. f = g
  OBVIOUS
<1> QED BY <1>1 DEF Ownership!vars

LEMMA CreateImplements ==
    ASSUME IInv, NEW t \in Threads, NEW r \in Rules, Create(t, r)
    PROVE  Ownership!Next
<1>1. /\ r \notin born /\ born' = born \cup {r} /\ ~closed /\ closed' = closed
      /\ rules \subseteq born /\ todo \in [Threads -> SUBSET born]
  BY DEF Create, IInv, TypeOK
<1>2. RuleStatus(r) = "unborn"
  BY <1>1, StatusCases
<1>3. CASE rules' = rules \cup {r} /\ UNCHANGED todo
  <2>1. RuleStatus(r)' = "owned"
    BY <1>1, <1>3, StatusCasesNext
  <2>2. \A s \in Rules \ {r} : RuleStatus(s)' = RuleStatus(s)
    BY <1>1, <1>3, StatusCases, StatusCasesNext
  <2> QED BY <1>1, <1>2, <2>1, <2>2, MoveOne DEF Ownership!Next, Ownership!Adopt
<1>4. CASE todo' = [todo EXCEPT ![t] = {r}] /\ UNCHANGED rules
  <2>1. \A u \in Threads : todo'[u] = IF u = t THEN {r} ELSE todo[u]
    BY <1>1, <1>4
  <2>2. RuleStatus(r)' = "leaving"
    BY <1>1, <1>4, <2>1, StatusCasesNext
  <2>3. todo[t] = {}
    BY DEF Create, Idle
  <2>4. \A s \in Rules \ {r} : RuleStatus(s)' = RuleStatus(s)
    BY <1>1, <1>4, <2>1, <2>3, StatusCases, StatusCasesNext
  <2> QED BY <1>1, <1>2, <2>2, <2>4, MoveOne DEF Ownership!Next, Ownership!Refuse
<1> QED BY <1>3, <1>4 DEF Create

LEMMA ReleaseImplements ==
    ASSUME IInv, NEW t \in Threads, NEW r \in Rules, Release(t, r)
    PROVE  [Ownership!Next]_Ownership!vars
<1>1. /\ UNCHANGED <<closed, born>> /\ todo[t] = {} /\ rules \subseteq born
      /\ todo \in [Threads -> SUBSET born]
  BY DEF Release, Idle, IInv, TypeOK
<1>2. CASE closed \/ r \notin rules
  <2>1. rules' = rules /\ todo' = todo
    BY <1>1, <1>2 DEF Release
  <2>2. \A s \in Rules : RuleStatus(s)' = RuleStatus(s)
    BY <1>1, <2>1, StatusCases, StatusCasesNext
  <2> QED BY <1>1, <2>2, MoveNone
<1>3. CASE ~closed /\ r \in rules
  <2>1. rules' = rules \ {r} /\ todo' = [todo EXCEPT ![t] = {r}]
    BY <1>3 DEF Release
  <2>2. \A u \in Threads : todo'[u] = IF u = t THEN {r} ELSE todo[u]
    BY <1>1, <2>1
  <2>3. RuleStatus(r) = "owned" /\ RuleStatus(r)' = "leaving"
    BY <1>1, <1>3, <2>1, <2>2, StatusCases, StatusCasesNext
  <2>4. \A s \in Rules \ {r} : RuleStatus(s)' = RuleStatus(s)
    BY <1>1, <2>1, <2>2, StatusCases, StatusCasesNext
  <2> QED BY <1>1, <1>3, <2>3, <2>4, MoveOne DEF Ownership!Next, Ownership!GiveUp
<1> QED BY <1>2, <1>3

LEMMA CloseImplements ==
    ASSUME IInv, NEW t \in Threads, Close(t)
    PROVE  [Ownership!Next]_Ownership!vars
<1>1. /\ UNCHANGED born /\ todo[t] = {} /\ rules \subseteq born /\ born \subseteq Rules
      /\ todo \in [Threads -> SUBSET born]
  BY DEF Close, Idle, IInv, TypeOK
<1>2. CASE closed
  <2>1. UNCHANGED <<closed, rules, todo>>
    BY <1>2 DEF Close
  <2>2. \A s \in Rules : RuleStatus(s)' = RuleStatus(s)
    BY <1>1, <2>1, StatusCases, StatusCasesNext
  <2> QED BY <2>1, <2>2, MoveNone
<1>3. CASE ~closed
  <2>1. closed' = TRUE /\ rules' = {} /\ todo' = [todo EXCEPT ![t] = rules]
    BY <1>3 DEF Close
  <2>2. \A u \in Threads : todo'[u] = IF u = t THEN rules ELSE todo[u]
    BY <1>1, <2>1
  <2>3. \A s \in rules : RuleStatus(s) = "owned" /\ RuleStatus(s)' = "leaving"
    BY <1>1, <2>1, <2>2, StatusCases, StatusCasesNext
  <2>4. \A s \in Rules \ rules : RuleStatus(s) # "owned" /\ RuleStatus(s)' = RuleStatus(s)
    BY <1>1, <2>1, <2>2, StatusCases, StatusCasesNext
  <2> DEFINE f == [s \in Rules |-> RuleStatus(s)]
             g == [s \in Rules |-> RuleStatus(s)']
  <2>5. g = [s \in Rules |-> IF f[s] = "owned" THEN "leaving" ELSE f[s]]
    BY <2>3, <2>4
  <2>6. Ownership!Shut
    BY <1>3, <2>1, <2>5 DEF Ownership!Shut
  <2> QED BY <2>6 DEF Ownership!Next
<1> QED BY <1>2, <1>3

LEMMA CleanUpImplements ==
    ASSUME IInv, NEW t \in Threads, NEW r \in Rules, NEW fails \in BOOLEAN,
           CleanUp(t, r, fails)
    PROVE  [Ownership!Next]_Ownership!vars
<1>1. /\ r \in todo[t] /\ r \in born /\ r \notin rules /\ called[r] \in Nat
      /\ todo' = [todo EXCEPT ![t] = IF called[r] + 1 < Methods THEN @ ELSE @ \ {r}]
      /\ UNCHANGED <<closed, rules, born>>
      /\ \A u \in Threads : u # t => r \notin todo[u]
  BY DEF CleanUp, IInv, TypeOK, OneOwner
<1>2. todo \in [Threads -> SUBSET born]
  BY DEF IInv, TypeOK
<1>3. RuleStatus(r) = "leaving"
  BY <1>1, StatusCases
<1>4. CASE called[r] + 1 < Methods
  <2>1. todo' = todo
    BY <1>1, <1>2, <1>4
  <2>2. \A s \in Rules : RuleStatus(s)' = RuleStatus(s)
    BY <1>1, <2>1, StatusCases, StatusCasesNext
  <2> QED BY <1>1, <2>2, MoveNone
<1>5. CASE ~(called[r] + 1 < Methods)
  <2>1. \A u \in Threads : todo'[u] = IF u = t THEN todo[t] \ {r} ELSE todo[u]
    BY <1>1, <1>2, <1>5
  <2>2. RuleStatus(r)' = "gone"
    BY <1>1, <2>1, StatusCasesNext
  <2>3. \A s \in Rules \ {r} : RuleStatus(s)' = RuleStatus(s)
    BY <1>1, <2>1, StatusCases, StatusCasesNext
  <2> QED BY <1>1, <1>3, <2>2, <2>3, MoveOne DEF Ownership!Next, Ownership!Finish
<1> QED BY <1>4, <1>5

(* Whatever any number of threads create, release and close at the same    *)
(* time, the activation gives up each rule once and has it cleaned up by   *)
(* one call.                                                               *)
THEOREM Refinement == Spec => ImplementsOwnership
<1>1. Init => Ownership!Init
  <2> SUFFICES ASSUME Init PROVE Ownership!Init
    OBVIOUS
  <2>1. \A s \in Rules : RuleStatus(s) = "unborn"
    BY StatusCases DEF Init
  <2> QED BY <2>1 DEF Init, Ownership!Init
<1>2. IInv /\ [Next]_vars => [Ownership!Next]_Ownership!vars
  <2> SUFFICES ASSUME IInv, [Next]_vars PROVE [Ownership!Next]_Ownership!vars
    OBVIOUS
  <2>1. ASSUME NEW t \in Threads, CreateAfterClose(t)
        PROVE  [Ownership!Next]_Ownership!vars
    <3>1. \A s \in Rules : RuleStatus(s)' = RuleStatus(s)
      BY <2>1 DEF CreateAfterClose, RuleStatus
    <3> QED BY <2>1, <3>1, MoveNone DEF CreateAfterClose
  <2>2. ASSUME NEW t \in Threads, NEW r \in Rules, Create(t, r)
        PROVE  [Ownership!Next]_Ownership!vars
    BY <2>2, CreateImplements
  <2>3. ASSUME NEW t \in Threads, NEW r \in Rules, Release(t, r)
        PROVE  [Ownership!Next]_Ownership!vars
    BY <2>3, ReleaseImplements
  <2>4. ASSUME NEW t \in Threads, Close(t) PROVE [Ownership!Next]_Ownership!vars
    BY <2>4, CloseImplements
  <2>5. ASSUME NEW t \in Threads, Cleaning(t) PROVE [Ownership!Next]_Ownership!vars
    BY <2>5, CleanUpImplements DEF Cleaning
  <2>6. CASE UNCHANGED vars
    <3>1. \A s \in Rules : RuleStatus(s)' = RuleStatus(s)
      BY <2>6 DEF vars, RuleStatus
    <3> QED BY <2>6, <3>1, MoveNone DEF vars
  <2> QED BY <2>1, <2>2, <2>3, <2>4, <2>5, <2>6 DEF Next
<1> QED BY <1>1, <1>2, Invariant, PTL DEF Spec, ImplementsOwnership, Ownership!Spec

=============================================================================
