--------------------------- MODULE RedisLockProofs ---------------------------
(***************************************************************************)
(* Proofs about RedisLock, for every set of requests, every TTL and every  *)
(* number of retries.                                                      *)
(***************************************************************************)
EXTENDS RedisLock, TLAPS

\* Two requests never have the same token: the token names its request.
LEMMA TokensAreOwned ==
    ASSUME NEW p \in Proc, NEW q \in Proc, Token(p) = Token(q)
    PROVE  p = q
BY DEF Token

\* The type invariant holds whatever MaxHold is.
THEOREM LockTypeCorrect == LockSpec => []LockTypeOK
<1>1. LockInit => LockTypeOK
  BY LockAssumption DEF LockInit, LockTypeOK
<1>2. LockTypeOK /\ [LockNext]_lockVars => LockTypeOK'
  <2> SUFFICES ASSUME LockTypeOK, [LockNext]_lockVars
               PROVE  LockTypeOK'
    OBVIOUS
  <2> USE LockAssumption DEF LockTypeOK
  <2>1. CASE Tick
    BY <2>1 DEF Tick, Holding
  <2>2. ASSUME NEW p \in Proc, WithLock(p)
        PROVE  LockTypeOK'
    BY <2>2 DEF WithLock
  <2>3. ASSUME NEW p \in Proc, SetApplied(p)
        PROVE  LockTypeOK'
    BY <2>3 DEF SetApplied, Token, Tokens
  <2>4. ASSUME NEW p \in Proc, SetRefused(p)
        PROVE  LockTypeOK'
    BY <2>4 DEF SetRefused
  <2>5. ASSUME NEW p \in Proc, SetFails(p)
        PROVE  LockTypeOK'
    BY <2>5 DEF SetFails
  <2>6. ASSUME NEW p \in Proc, FnStarts(p)
        PROVE  LockTypeOK'
    BY <2>6 DEF FnStarts
  <2>7. ASSUME NEW p \in Proc, FnReturns(p)
        PROVE  LockTypeOK'
    BY <2>7 DEF FnReturns
  <2>8. ASSUME NEW p \in Proc, Release(p)
        PROVE  LockTypeOK'
    BY <2>8 DEF Release
  <2>9. ASSUME NEW p \in Proc, ReleaseFails(p) \/ Crash(p)
        PROVE  LockTypeOK'
    BY <2>9 DEF ReleaseFails, Crash
  <2>10. CASE UNCHANGED lockVars
    BY <2>10 DEF lockVars
  <2> QED
    BY <2>1, <2>2, <2>3, <2>4, <2>5, <2>6, <2>7, <2>8, <2>9, <2>10
       DEF LockNext, LockStep, Acquiring
<1> QED
  BY <1>1, <1>2, PTL DEF LockSpec

\* Every step keeps the key of a holder its own and its lease in step with
\* the time the holder has held.
LEMMA LeasePreserved ==
    ASSUME MaxHold < TTL, LockTypeOK, LeaseInv, [LockNext]_lockVars
    PROVE  LeaseInv'
<1> USE LockAssumption
<1>1. CASE Tick
  <2> USE <1>1 DEF Tick
  <2>1. (store = NoToken <=> lease = 0)'
    BY DEF LeaseInv, LockTypeOK
  <2>2. ASSUME NEW p \in Proc, Holding(p)'
        PROVE  (store = Token(p) /\ lease + age[p] = TTL)'
    <3>1. Holding(p) /\ age[p] < MaxHold /\ age'[p] = age[p] + 1
      BY <2>2 DEF Holding, LockTypeOK
    <3>2. store = Token(p) /\ lease + age[p] = TTL /\ Token(p)' = Token(p)
      BY <3>1 DEF LeaseInv, Token
    <3>3. lease > 1
      BY <3>1, <3>2 DEF LockTypeOK
    <3> QED
      BY <3>1, <3>2, <3>3 DEF LockTypeOK
  <2> QED
    BY <2>1, <2>2 DEF LeaseInv
<1>2. ASSUME NEW p \in Proc, WithLock(p)
      PROVE  LeaseInv'
  BY <1>2 DEF WithLock, LeaseInv, LockTypeOK, Holding, Token
<1>3. ASSUME NEW p \in Proc, SetApplied(p)
      PROVE  LeaseInv'
  <2> USE <1>3 DEF SetApplied
  <2>1. \A q \in Proc : ~Holding(q)
    BY DEF LeaseInv, LockTypeOK, Token
  <2>2. ASSUME NEW q \in Proc, Holding(q)'
        PROVE  q = p
    BY <2>1, <2>2 DEF Holding, LockTypeOK
  <2>3. (store = Token(p) /\ lease + age[p] = TTL)'
    BY DEF LockTypeOK, Token
  <2>4. (store = NoToken <=> lease = 0)'
    BY DEF LockTypeOK, Token
  <2> QED
    BY <2>2, <2>3, <2>4 DEF LeaseInv
<1>4. ASSUME NEW p \in Proc, SetRefused(p)
      PROVE  LeaseInv'
  BY <1>4 DEF SetRefused, LeaseInv, LockTypeOK, Holding, Token
<1>5. ASSUME NEW p \in Proc, SetFails(p)
      PROVE  LeaseInv'
  BY <1>5 DEF SetFails, LeaseInv, LockTypeOK, Holding, Token
<1>6. ASSUME NEW p \in Proc, FnStarts(p)
      PROVE  LeaseInv'
  BY <1>6 DEF FnStarts, LeaseInv, LockTypeOK, Holding, Token
<1>7. ASSUME NEW p \in Proc, FnReturns(p)
      PROVE  LeaseInv'
  BY <1>7 DEF FnReturns, LeaseInv, LockTypeOK, Holding, Token
<1>8. ASSUME NEW p \in Proc, Release(p)
      PROVE  LeaseInv'
  <2> USE <1>8 DEF Release
  <2>1. ASSUME NEW q \in Proc, Holding(q)'
        PROVE  (store = Token(q) /\ lease + age[q] = TTL)'
    <3>1. q # p /\ Holding(q)
      BY <2>1 DEF Holding, LockTypeOK
    <3>2. store = Token(q) /\ store # Token(p)
      BY <3>1, TokensAreOwned DEF LeaseInv
    <3> QED
      BY <3>1, <3>2 DEF LeaseInv, Token
  <2>2. (store = NoToken <=> lease = 0)'
    BY DEF LeaseInv
  <2> QED
    BY <2>1, <2>2 DEF LeaseInv
<1>9. ASSUME NEW p \in Proc, ReleaseFails(p) \/ Crash(p)
      PROVE  LeaseInv'
  BY <1>9 DEF ReleaseFails, Crash, LeaseInv, LockTypeOK, Holding, Token
<1>10. CASE UNCHANGED lockVars
  BY <1>10 DEF lockVars, LeaseInv, Holding, Token
<1> QED
  BY <1>1, <1>2, <1>3, <1>4, <1>5, <1>6, <1>7, <1>8, <1>9, <1>10
     DEF LockNext, LockStep, Acquiring

\* While every fn ends before the key expires, the key of whoever holds is its
\* own and has run for as long as the holder has held (acquireLock, withLock).
THEOREM LeaseOfHolder ==
    ASSUME MaxHold < TTL
    PROVE  LockSpec => []LeaseInv
<1>1. LockInit => LeaseInv
  BY DEF LockInit, LeaseInv, Holding
<1>2. LockTypeOK /\ LeaseInv /\ [LockNext]_lockVars => LeaseInv'
  BY LeasePreserved
<1> QED
  BY <1>1, <1>2, LockTypeCorrect, PTL DEF LockSpec

\* If fn always ends before the key expires, no two requests are inside fn at
\* once, however acquires, retries, failures, crashes and ticks interleave.
THEOREM LockMutualExclusion ==
    ASSUME MaxHold < TTL
    PROVE  LockSpec => []MutualExclusion
<1>1. LeaseInv => MutualExclusion
  BY TokensAreOwned DEF LeaseInv, MutualExclusion, Holding
<1>2. LockSpec => []LeaseInv
  BY LeaseOfHolder
<1> QED
  BY <1>1, <1>2, PTL

\* A key held by a request leaves Redis only by running out of time, whatever
\* MaxHold is: no other request's release, failure or crash removes it.
THEOREM HeldKeysOnlyExpire == LockSpec => OnlyExpiryTakesAHeldKey
<1>1. ASSUME LockTypeOK, LockNext, NEW p \in Proc,
             Holding(p), store = Token(p), store' # store
      PROVE  lease = 1
  <2>1. CASE Tick
    BY <1>1, <2>1 DEF Tick
  <2>2. ASSUME NEW q \in Proc, LockStep(q)
        PROVE  lease = 1
    <3>1. CASE SetApplied(q)
      BY <1>1, <3>1, LockAssumption DEF SetApplied, LockTypeOK, Token
    <3>2. CASE Release(q)
      <4>1. q = p
        BY <1>1, <3>2, TokensAreOwned DEF Release
      <4> QED
        BY <1>1, <3>2, <4>1 DEF Release, Holding
    <3> QED
      BY <1>1, <2>2, <3>1, <3>2
         DEF LockStep, Acquiring, WithLock, SetRefused, SetFails, FnStarts,
             FnReturns, ReleaseFails, Crash
  <2> QED
    BY <1>1, <2>1, <2>2 DEF LockNext
<1>2. LockTypeOK /\ [LockNext]_lockVars =>
        [\A p \in Proc :
            Holding(p) /\ store = Token(p) /\ store' # store => lease = 1]_lockVars
  BY <1>1
<1> QED
  BY <1>2, LockTypeCorrect, PTL DEF LockSpec, OnlyExpiryTakesAHeldKey
=============================================================================
