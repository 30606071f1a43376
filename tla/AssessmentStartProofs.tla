------------------------- MODULE AssessmentStartProofs -------------------------
(* Theorems about AssessmentStart, resting on those about its lock. *)
EXTENDS AssessmentStart, RedisLockProofs

\* A start uses the lock as RedisLock describes it: whatever is proved of the
\* lock holds while starts use it.
THEOREM StartsUseTheLock == StartSpec => LockSpec
<1>1. StartInit => LockInit
    BY DEF StartInit
<1>2. [StartNext]_startVars => [LockNext]_lockVars
    <2>1. ASSUME NEW p \in Proc, StartStep(p)
          PROVE  [LockNext]_lockVars
        BY <2>1 DEF StartStep, LockMove, CheckEligible, Create, CreateDuplicate,
                    Throw, LockNext, LockStep
    <2>2. ASSUME NEW a \in attempts, NEW s \in {"completed", "failed"},
                 Delete(a) \/ Close(a, s)
          PROVE  UNCHANGED lockVars
        BY <2>2 DEF Delete, Close
    <2>. QED
        BY <2>1, <2>2 DEF StartNext, LockNext, startVars
<1>. QED
    BY <1>1, <1>2, PTL DEF StartSpec, LockSpec

\* A request is inside its function only while withLock runs it.
StepInv ==
    /\ step \in [Proc -> {"none", "checked", "returned", "rethrown", "thrown"}]
    /\ \A p \in Proc : step[p] # "none" => pc[p] = "exec"

LEMMA StepInvariant == StartSpec => []StepInv
<1>1. StartInit => StepInv
    BY DEF StartInit, StepInv
<1>2. ASSUME LockTypeOK, StepInv, [StartNext]_startVars
      PROVE  StepInv'
    <2>1. ASSUME NEW p \in Proc, LockMove(p)
          PROVE  StepInv'
        <3>1. CASE (Acquiring(p) \/ FnStarts(p) \/ Release(p) \/ ReleaseFails(p))
                   /\ UNCHANGED step
            <4>1. \A q \in Proc : q # p => pc'[q] = pc[q]
                BY <1>2, <3>1
                   DEF Acquiring, WithLock, SetApplied, SetRefused, SetFails,
                       FnStarts, Release, ReleaseFails, LockTypeOK
            <4>2. pc[p] # "exec"
                BY <3>1 DEF Acquiring, WithLock, SetApplied, SetRefused, SetFails,
                            FnStarts, Release, ReleaseFails
            <4>. QED
                BY <1>2, <3>1, <4>1, <4>2 DEF StepInv
        <3>2. CASE FnReturns(p) /\ step' = [step EXCEPT ![p] = "none"]
            BY <1>2, <3>2 DEF FnReturns, LockTypeOK, StepInv
        <3>3. CASE Crash(p) /\ step' = [step EXCEPT ![p] = "none"]
            BY <1>2, <3>3 DEF Crash, LockTypeOK, StepInv
        <3>. QED
            BY <2>1, <3>1, <3>2, <3>3 DEF LockMove
    <2>2. ASSUME NEW p \in Proc,
                 CheckEligible(p) \/ Create(p) \/ CreateDuplicate(p) \/ Throw(p)
          PROVE  StepInv'
        BY <1>2, <2>2 DEF CheckEligible, Create, CreateDuplicate, Throw, StepInv,
                          lockVars
    <2>3. CASE Tick /\ UNCHANGED <<step, attempts, created>>
        BY <1>2, <2>3 DEF Tick, StepInv
    <2>4. ASSUME NEW a \in attempts, NEW s \in {"completed", "failed"},
                 Delete(a) \/ Close(a, s)
          PROVE  StepInv'
        BY <1>2, <2>4 DEF Delete, Close, StepInv, lockVars
    <2>5. CASE UNCHANGED startVars
        BY <1>2, <2>5 DEF startVars, StepInv, lockVars
    <2>. QED
        BY <1>2, <2>1, <2>2, <2>3, <2>4, <2>5 DEF StartNext, StartStep
<1>. QED
    BY <1>1, <1>2, StartsUseTheLock, LockTypeCorrect, PTL DEF StartSpec

\* Type invariant: starts are well typed, and no document id is used twice,
\* however attempts are created, closed and deleted.
THEOREM StartTypeCorrect == StartSpec => []StartTypeOK
<1>. DEFINE DocsOK == /\ created \in 0..MaxDocs
                      /\ attempts \subseteq {a \in Attempt : a.id <= created}
                      /\ \A a, b \in attempts : a.id = b.id => a = b
<1>1. StartInit => DocsOK
    BY StartAssumption DEF StartInit
<1>2. ASSUME DocsOK, [StartNext]_startVars
      PROVE  DocsOK'
    <2>1. ASSUME NEW p \in Proc, Create(p)
          PROVE  DocsOK'
        <3>. DEFINE new == [id |-> created + 1, status |-> "in_progress"]
        <3>1. created' = created + 1 /\ created + 1 \in 1..MaxDocs
            BY <1>2, <2>1, StartAssumption DEF Create
        <3>2. new \in Attempt /\ new.id = created + 1
            BY <3>1 DEF Attempt, DocId
        <3>3. attempts' = attempts \cup {new}
            BY <2>1 DEF Create
        <3>4. \A a \in attempts : a \in Attempt /\ a.id \in Nat /\ a.id <= created
            BY <1>2 DEF Attempt, DocId
        <3>. HIDE DEF new
        <3>. QED
            BY <1>2, <3>1, <3>2, <3>3, <3>4
    <2>2. ASSUME NEW a \in attempts, NEW s \in {"completed", "failed"}, Close(a, s)
          PROVE  DocsOK'
        <3>. DEFINE new == [a EXCEPT !.status = s]
        <3>1. new \in Attempt /\ new.id = a.id
            BY <1>2 DEF Attempt
        <3>2. attempts' = (attempts \ {a}) \cup {new} /\ created' = created
            BY <2>2 DEF Close
        <3>. HIDE DEF new
        <3>. QED
            BY <1>2, <3>1, <3>2
    <2>3. ASSUME NEW a \in attempts, Delete(a)
          PROVE  DocsOK'
        BY <1>2, <2>3 DEF Delete
    <2>4. ASSUME UNCHANGED <<attempts, created>>
          PROVE  DocsOK'
        BY <1>2, <2>4
    <2>. QED
        BY <1>2, <2>1, <2>2, <2>3, <2>4
           DEF StartNext, StartStep, CheckEligible, CreateDuplicate, Throw, startVars
<1>3. LockTypeOK /\ StepInv /\ DocsOK => StartTypeOK
    BY DEF StepInv, StartTypeOK
<1>. QED
    BY <1>1, <1>2, <1>3, StartsUseTheLock, LockTypeCorrect, StepInvariant, PTL
       DEF StartSpec

\* As long as no start outlives its lock, no attempt is inserted between the
\* check and the insert of another start, with or without the unique index.
THEOREM CheckAndCreateAreOneStep ==
    ASSUME MaxHold < TTL
    PROVE  StartSpec => NoCreateBehindACheck
<1>1. ASSUME MutualExclusion, StepInv, [StartNext]_startVars
      PROVE  [\A p \in Proc :
                 step[p] = "checked" /\ step'[p] = "checked"
                     => created' = created]_startVars
    <2>1. SUFFICES ASSUME NEW p \in Proc, step[p] = "checked", step'[p] = "checked"
                   PROVE  created' = created
        OBVIOUS
    <2>2. ASSUME NEW q \in Proc, Create(q)
          PROVE  FALSE
        <3>1. pc[p] = "exec" /\ pc[q] = "exec"
            BY <1>1, <2>1, <2>2 DEF StepInv, Create
        <3>2. p = q
            BY <1>1, <3>1 DEF MutualExclusion
        <3>. QED
            BY <1>1, <2>1, <2>2, <3>2 DEF StepInv, Create
    <2>3. ASSUME NEW q \in Proc, StartStep(q)
          PROVE  created' = created
        BY <2>2, <2>3 DEF StartStep, CheckEligible, CreateDuplicate, Throw
    <2>. QED
        BY <1>1, <2>3 DEF StartNext, Delete, Close, startVars
<1>2. LockSpec => []MutualExclusion
    BY LockMutualExclusion
<1>. QED
    BY <1>1, <1>2, StartsUseTheLock, StepInvariant, PTL
       DEF StartSpec, NoCreateBehindACheck

=============================================================================
