------------------------------ MODULE RedisLock ------------------------------
(***************************************************************************)
(* The distributed lock of apps/api/src/core/infrastructure/Redis.ts:      *)
(* acquireLock, releaseLock and withLock, for one lock key.                *)
(*                                                                         *)
(* A process is one request running withLock in some API instance.  Redis  *)
(* keeps one key: the token that holds the lock, and the time it has left. *)
(* SET .. NX EX is applied in Redis one step before its reply is seen, so  *)
(* a reply can be lost and a process can die while its token is stored.    *)
(***************************************************************************)
EXTENDS Integers

CONSTANTS
    Proc,           \* requests that contend for the key
    TTL,            \* ttlSeconds: lifetime of the key, in ticks
    RetryAttempts,  \* retryAttempts of acquireLock
    MaxHold,        \* longest time from the SET to the end of fn, in ticks
    MaxCalls,       \* bound: withLock calls of one process
    NoToken         \* the key does not exist

\* MaxHold is not a bound the code enforces: fn may await for as long as its
\* queries take and the key is never renewed, so it is a parameter.
ASSUME LockAssumption ==
    /\ TTL \in Nat \ {0}
    /\ RetryAttempts \in Nat \ {0}
    /\ MaxHold \in Nat
    /\ MaxCalls \in Nat
    /\ NoToken \notin Proc \X Nat

VARIABLES
    pc,       \* where each process is in withLock
    attempt,  \* attempts of the current acquireLock that were refused
    call,     \* number of acquireLock calls made, the identity of the token
    age,      \* ticks since the SET of the current call was applied
    store,    \* the token under lock:<key>, or NoToken
    lease     \* ticks until Redis removes the key

lockVars == <<pc, attempt, call, age, store, lease>>

\* lockValue is `${Date.now()}-${Math.random()}`: one per call, never reused.
Token(p) == <<p, call[p]>>

Tokens == Proc \X (0..MaxCalls)

\* The SET of p was applied and fn has not returned.
Holding(p) == pc[p] \in {"granted", "exec"}

LockInit ==
    /\ pc = [p \in Proc |-> "idle"]
    /\ attempt = [p \in Proc |-> 0]
    /\ call = [p \in Proc |-> 0]
    /\ age = [p \in Proc |-> 0]
    /\ store = NoToken
    /\ lease = 0

-----------------------------------------------------------------------------
(* acquireLock *)

\* withLock calls acquireLock, which draws a fresh token.
WithLock(p) ==
    /\ pc[p] = "idle"
    /\ call[p] < MaxCalls
    /\ pc' = [pc EXCEPT ![p] = "trying"]
    /\ attempt' = [attempt EXCEPT ![p] = 0]
    /\ call' = [call EXCEPT ![p] = @ + 1]
    /\ UNCHANGED <<age, store, lease>>

\* Mutant: the NX option dropped from SET.
SetAppliedWithoutNX(p) ==
    /\ pc[p] = "trying"
    /\ store' = Token(p)
    /\ lease' = TTL
    /\ age' = [age EXCEPT ![p] = 0]
    /\ pc' = [pc EXCEPT ![p] = "granted"]
    /\ UNCHANGED <<attempt, call>>

\* Mutant: the EX option dropped from SET (a key without expiration).
SetAppliedWithoutEX(p) ==
    /\ pc[p] = "trying"
    /\ store = NoToken
    /\ store' = Token(p)
    /\ lease' = 0
    /\ age' = [age EXCEPT ![p] = 0]
    /\ pc' = [pc EXCEPT ![p] = "granted"]
    /\ UNCHANGED <<attempt, call>>

\* SET NX found no key: it stores the token with its expiration.
SetApplied(p) ==
    /\ pc[p] = "trying"
    /\ store = NoToken
    /\ store' = Token(p)
    /\ lease' = TTL
    /\ age' = [age EXCEPT ![p] = 0]
    /\ pc' = [pc EXCEPT ![p] = "granted"]
    /\ UNCHANGED <<attempt, call>>

\* Mutant: one attempt too many.
SetRefusedOffByOne(p) ==
    /\ pc[p] = "trying"
    /\ store # NoToken
    /\ \/ /\ attempt[p] < RetryAttempts
          /\ attempt' = [attempt EXCEPT ![p] = @ + 1]
          /\ UNCHANGED pc
       \/ /\ attempt[p] >= RetryAttempts
          /\ attempt' = [attempt EXCEPT ![p] = 0]
          /\ pc' = [pc EXCEPT ![p] = "idle"]
    /\ UNCHANGED <<call, age, store, lease>>

\* The key is held: wait and retry, or return null after the last attempt
\* (withLock then throws).
SetRefused(p) ==
    /\ pc[p] = "trying"
    /\ store # NoToken
    /\ \/ /\ attempt[p] + 1 < RetryAttempts
          /\ attempt' = [attempt EXCEPT ![p] = @ + 1]
          /\ UNCHANGED pc
       \/ /\ attempt[p] + 1 >= RetryAttempts
          /\ attempt' = [attempt EXCEPT ![p] = 0]
          /\ pc' = [pc EXCEPT ![p] = "idle"]
    /\ UNCHANGED <<call, age, store, lease>>

\* The command fails and acquireLock throws: either Redis never applied the
\* SET, or it did and only the reply was lost, which leaves the token stored.
SetFails(p) ==
    /\ pc[p] \in {"trying", "granted"}
    /\ pc' = [pc EXCEPT ![p] = "idle"]
    /\ attempt' = [attempt EXCEPT ![p] = 0]
    /\ UNCHANGED <<call, age, store, lease>>

-----------------------------------------------------------------------------
(* withLock after acquireLock, and releaseLock *)

\* The reply OK arrives: acquireLock returns the token and fn starts.
FnStarts(p) ==
    /\ pc[p] = "granted"
    /\ pc' = [pc EXCEPT ![p] = "exec"]
    /\ UNCHANGED <<attempt, call, age, store, lease>>

\* fn returns or throws: the finally block calls releaseLock.
FnReturns(p) ==
    /\ pc[p] = "exec"
    /\ pc' = [pc EXCEPT ![p] = "releasing"]
    /\ attempt' = [attempt EXCEPT ![p] = 0]
    /\ UNCHANGED <<call, age, store, lease>>

\* Mutant: an unconditional DEL.
ReleaseAny(p) ==
    /\ pc[p] = "releasing"
    /\ store' = NoToken
    /\ lease' = 0
    /\ pc' = [pc EXCEPT ![p] = "idle"]
    /\ UNCHANGED <<attempt, call, age>>

\* The Lua script: delete the key only if it still holds the caller's token.
Release(p) ==
    /\ pc[p] = "releasing"
    /\ IF store = Token(p)
         THEN store' = NoToken /\ lease' = 0
         ELSE UNCHANGED <<store, lease>>
    /\ pc' = [pc EXCEPT ![p] = "idle"]
    /\ UNCHANGED <<attempt, call, age>>

\* The eval command fails: releaseLock logs, returns false, and the key stays.
ReleaseFails(p) ==
    /\ pc[p] = "releasing"
    /\ pc' = [pc EXCEPT ![p] = "idle"]
    /\ UNCHANGED <<attempt, call, age, store, lease>>

\* The API instance that runs p exits (uncaughtException, unhandledRejection).
Crash(p) ==
    /\ pc[p] # "idle"
    /\ pc' = [pc EXCEPT ![p] = "idle"]
    /\ attempt' = [attempt EXCEPT ![p] = 0]
    /\ UNCHANGED <<call, age, store, lease>>

-----------------------------------------------------------------------------
\* One unit of time: Redis expires the key when its lease runs out, and
\* nobody holds for more than MaxHold.
Tick ==
    /\ \A p \in Proc : Holding(p) => age[p] < MaxHold
    /\ age' = [p \in Proc |-> IF Holding(p) THEN age[p] + 1 ELSE age[p]]
    /\ lease' = IF lease > 0 THEN lease - 1 ELSE 0
    /\ store' = IF lease = 1 THEN NoToken ELSE store
    /\ UNCHANGED <<pc, attempt, call>>

Acquiring(p) == WithLock(p) \/ SetApplied(p) \/ SetRefused(p) \/ SetFails(p)

LockStep(p) ==
    \/ Acquiring(p)
    \/ FnStarts(p)
    \/ FnReturns(p)
    \/ Release(p)
    \/ ReleaseFails(p)
    \/ Crash(p)

LockNext == Tick \/ \E p \in Proc : LockStep(p)

LockSpec == LockInit /\ [][LockNext]_lockVars

-----------------------------------------------------------------------------
(* Properties *)

\* Type invariant: in particular acquireLock never makes more than
\* retryAttempts attempts.
LockTypeOK ==
    /\ pc \in [Proc -> {"idle", "trying", "granted", "exec", "releasing"}]
    /\ attempt \in [Proc -> 0..(RetryAttempts - 1)]
    /\ call \in [Proc -> 0..MaxCalls]
    /\ age \in [Proc -> 0..MaxHold]
    /\ store \in Tokens \cup {NoToken}
    /\ lease \in 0..TTL

\* The inductive invariant behind MutualExclusion.  The key exists exactly
\* while it has time left, and, when MaxHold < TTL, the key of whoever holds
\* is its own and has run for as long as the holder has held.
LeaseInv ==
    /\ store = NoToken <=> lease = 0
    /\ \A p \in Proc : Holding(p) => store = Token(p) /\ lease + age[p] = TTL

\* Two requests are never both inside the function they pass to withLock.
\* The code ensures it only while every fn ends before its key expires: it is
\* checked, and proved, for MaxHold < TTL.
MutualExclusion ==
    \A p, q \in Proc : pc[p] = "exec" /\ pc[q] = "exec" => p = q

\* A late release, a crash or a failed acquire of one request never frees the
\* key under another request that holds it: the token of a request between
\* its SET and the end of its fn disappears only by running out of time.
\* Holds whether or not fn overruns the TTL.
OnlyExpiryTakesAHeldKey ==
    [][\A p \in Proc :
          Holding(p) /\ store = Token(p) /\ store' # store => lease = 1]_lockVars

\* A token left behind by a crash, a lost reply or a failed release does not
\* block the key for ever.
EveryTokenGoes ==
    \A t \in Tokens : (store = t) ~> (store # t)

=============================================================================
