--------------------------- MODULE RequestQueueProofs ---------------------------
(* Theorems about RequestQueue, for every value of its constants. *)
EXTENDS RequestQueue, FiniteSetTheorems, SequenceTheorems, TLAPS

-----------------------------------------------------------------------------
(* Sequences: what insertion, removal and shift leave at each place *)

LEMMA Inserted ==
    ASSUME NEW S, NEW q \in Seq(S), NEW e \in S, NEW k \in 1..(Len(q) + 1)
    PROVE  /\ InsertAt(q, k, e) \in Seq(S) /\ Len(InsertAt(q, k, e)) = Len(q) + 1
           /\ \A i \in 1..(Len(q) + 1) :
                 InsertAt(q, k, e)[i] = IF i < k THEN q[i] ELSE IF i = k THEN e ELSE q[i - 1]
<1>. DEFINE p == InsertAt(q, k, e)
            a == SubSeq(q, 1, k - 1)
            b == SubSeq(q, k, Len(q))
            c == a \o <<e>>
<1>1. Len(q) \in Nat /\ \A i \in 1..Len(q) : q[i] \in S
    BY LenProperties, ElementOfSeq
<1>2. /\ a \in Seq(S) /\ Len(a) = k - 1 /\ \A i \in 1..(k - 1) : a[i] = q[i]
      /\ b \in Seq(S) /\ Len(b) = Len(q) - k + 1
      /\ \A i \in 1..(Len(q) - k + 1) : b[i] = q[k + i - 1]
    BY <1>1, SubSeqProperties
<1>3. p = c \o b
    BY DEF InsertAt
<1>. HIDE DEF a, b, p
<1>4. <<e>> \in Seq(S) /\ Len(<<e>>) = 1 /\ <<e>>[1] = e
    OBVIOUS
<1>5. c \in Seq(S) /\ Len(c) = k /\ (\A i \in 1..(k - 1) : c[i] = q[i]) /\ c[k] = e
    <2>1. /\ c \in Seq(S) /\ Len(c) = Len(a) + Len(<<e>>)
          /\ \A i \in 1..Len(a) + Len(<<e>>) :
                c[i] = IF i <= Len(a) THEN a[i] ELSE <<e>>[i - Len(a)]
        BY <1>2, <1>4, ConcatProperties, Zenon
    <2>2. \A i \in 1..k : c[i] = IF i <= k - 1 THEN a[i] ELSE <<e>>[i - (k - 1)]
        BY <1>1, <1>2, <1>4, <2>1
    <2>. HIDE DEF c
    <2>3. k - (k - 1) = 1 /\ k \in 1..k /\ ~(k <= k - 1)
        BY <1>1
    <2>. QED
        BY <1>1, <1>2, <1>4, <2>1, <2>2, <2>3
<1>. HIDE DEF c
<1>6. /\ p \in Seq(S) /\ Len(p) = Len(c) + Len(b)
      /\ \A i \in 1..Len(c) + Len(b) : p[i] = IF i <= Len(c) THEN c[i] ELSE b[i - Len(c)]
    <2>1. c \in Seq(S) /\ b \in Seq(S)
        BY <1>2, <1>5
    <2>2. /\ c \o b \in Seq(S) /\ Len(c \o b) = Len(c) + Len(b)
          /\ \A i \in 1..Len(c) + Len(b) :
                (c \o b)[i] = IF i <= Len(c) THEN c[i] ELSE b[i - Len(c)]
        BY <2>1, ConcatProperties, Zenon
    <2>. QED
        BY <1>3, <2>2, Zenon
<1>7. Len(p) = Len(q) + 1
    BY <1>1, <1>2, <1>5, <1>6
<1>8. \A i \in 1..(Len(q) + 1) : p[i] = IF i <= k THEN c[i] ELSE b[i - k]
    BY <1>1, <1>2, <1>5, <1>6
<1>9. ASSUME NEW i \in 1..(Len(q) + 1)
      PROVE  p[i] = IF i < k THEN q[i] ELSE IF i = k THEN e ELSE q[i - 1]
    <2>1. CASE i <= k
        BY <1>1, <1>5, <1>8, <2>1
    <2>2. CASE i > k
        <3>1. i - k \in 1..(Len(q) - k + 1) /\ k + (i - k) - 1 = i - 1
            BY <1>1, <2>2
        <3>2. b[i - k] = q[i - 1]
            BY <1>2, <3>1
        <3>. QED
            BY <1>1, <1>8, <2>2, <3>2
    <2>. QED
        BY <1>1, <2>1, <2>2
<1>. QED
    BY <1>6, <1>7, <1>9 DEF p

LEMMA Removed ==
    ASSUME NEW S, NEW q \in Seq(S), NEW k \in 1..Len(q)
    PROVE  /\ RemoveAt(q, k) \in Seq(S) /\ Len(RemoveAt(q, k)) = Len(q) - 1
           /\ \A i \in 1..(Len(q) - 1) :
                 RemoveAt(q, k)[i] = IF i < k THEN q[i] ELSE q[i + 1]
<1>. DEFINE p == RemoveAt(q, k)
            a == SubSeq(q, 1, k - 1)
            b == SubSeq(q, k + 1, Len(q))
<1>1. Len(q) \in Nat /\ \A i \in 1..Len(q) : q[i] \in S
    BY LenProperties, ElementOfSeq
<1>2. /\ a \in Seq(S) /\ Len(a) = k - 1 /\ \A i \in 1..(k - 1) : a[i] = q[i]
      /\ b \in Seq(S) /\ Len(b) = Len(q) - k
      /\ \A i \in 1..(Len(q) - k) : b[i] = q[k + i]
    BY <1>1, SubSeqProperties
<1>3. p = a \o b
    BY DEF RemoveAt
<1>. HIDE DEF a, b, p
<1>4. /\ p \in Seq(S) /\ Len(p) = Len(a) + Len(b)
      /\ \A i \in 1..Len(a) + Len(b) : p[i] = IF i <= Len(a) THEN a[i] ELSE b[i - Len(a)]
    <2>1. a \in Seq(S) /\ b \in Seq(S)
        BY <1>2
    <2>2. /\ a \o b \in Seq(S) /\ Len(a \o b) = Len(a) + Len(b)
          /\ \A i \in 1..Len(a) + Len(b) :
                (a \o b)[i] = IF i <= Len(a) THEN a[i] ELSE b[i - Len(a)]
        BY <2>1, ConcatProperties, Zenon
    <2>. QED
        BY <1>3, <2>2, Zenon
<1>5. Len(p) = Len(q) - 1
    BY <1>1, <1>2, <1>4
<1>6. \A i \in 1..(Len(q) - 1) : p[i] = IF i <= k - 1 THEN a[i] ELSE b[i - (k - 1)]
    <2>1. Len(a) = k - 1 /\ Len(a) + Len(b) = Len(q) - 1
        BY <1>1, <1>2
    <2>. QED
        BY <1>4, <2>1, Zenon
<1>7. ASSUME NEW i \in 1..(Len(q) - 1) PROVE p[i] = IF i < k THEN q[i] ELSE q[i + 1]
    <2>1. CASE i < k
        BY <1>1, <1>2, <1>6, <2>1
    <2>2. CASE ~(i < k)
        <3>1. /\ ~(i <= k - 1) /\ i - (k - 1) \in 1..(Len(q) - k)
              /\ k + (i - (k - 1)) = i + 1
            BY <1>1, <2>2
        <3>. QED
            BY <1>2, <1>6, <2>2, <3>1
    <2>. QED
        BY <2>1, <2>2
<1>. QED
    BY <1>4, <1>5, <1>7 DEF p

\* The shift of the head is the removal of the first place.
LEMMA Shifted ==
    ASSUME NEW S, NEW q \in Seq(S), q # <<>>
    PROVE  /\ 1 \in 1..Len(q) /\ Head(q) = q[1]
           /\ Tail(q) \in Seq(S) /\ Len(Tail(q)) = Len(q) - 1
           /\ \A i \in 1..Len(Tail(q)) : Tail(q)[i] = q[i + 1]
OBVIOUS

\* Where the entry of place i was, before the entry of place k was removed,
\* and before one was inserted at place k.
FromRemoval(k, i) == IF i < k THEN i ELSE i + 1

FromInsertion(k, i) == IF i < k THEN i ELSE i - 1

LEMMA Gap ==
    ASSUME NEW n \in Nat, NEW k \in 1..n
    PROVE  /\ \A i \in 1..(n - 1) : FromRemoval(k, i) \in (1..n) \ {k}
           /\ \A i, j \in 1..(n - 1) : i < j => FromRemoval(k, i) < FromRemoval(k, j)
           /\ \A j \in (1..n) \ {k} : \E i \in 1..(n - 1) : FromRemoval(k, i) = j
<1>1. ASSUME NEW j \in (1..n) \ {k} PROVE \E i \in 1..(n - 1) : FromRemoval(k, i) = j
    <2>1. CASE j < k
        <3>1. j \in 1..(n - 1) /\ FromRemoval(k, j) = j
            BY <2>1 DEF FromRemoval
        <3>. QED
            BY <3>1
    <2>2. CASE j > k
        <3>1. j - 1 \in 1..(n - 1) /\ FromRemoval(k, j - 1) = j
            BY <2>2 DEF FromRemoval
        <3>. QED
            BY <3>1
    <2>. QED
        BY <2>1, <2>2
<1>2. /\ \A i \in 1..(n - 1) : FromRemoval(k, i) \in (1..n) \ {k}
      /\ \A i, j \in 1..(n - 1) : i < j => FromRemoval(k, i) < FromRemoval(k, j)
    BY DEF FromRemoval
<1>. QED
    BY <1>1, <1>2

LEMMA Room ==
    ASSUME NEW n \in Nat, NEW k \in 1..(n + 1)
    PROVE  /\ \A i \in (1..(n + 1)) \ {k} :
                 FromInsertion(k, i) \in 1..n /\ (FromInsertion(k, i) < k <=> i < k)
           /\ \A i, j \in (1..(n + 1)) \ {k} : i < j => FromInsertion(k, i) < FromInsertion(k, j)
           /\ \A j \in 1..n : \E i \in (1..(n + 1)) \ {k} : FromInsertion(k, i) = j
<1>1. ASSUME NEW j \in 1..n
      PROVE  \E i \in (1..(n + 1)) \ {k} : FromInsertion(k, i) = j
    <2>1. CASE j < k
        <3>1. j \in (1..(n + 1)) \ {k} /\ FromInsertion(k, j) = j
            BY <2>1 DEF FromInsertion
        <3>. QED
            BY <3>1
    <2>2. CASE j >= k
        <3>1. j + 1 \in (1..(n + 1)) \ {k} /\ FromInsertion(k, j + 1) = j
            BY <2>2 DEF FromInsertion
        <3>. QED
            BY <3>1
    <2>. QED
        BY <2>1, <2>2
<1>2. /\ \A i \in (1..(n + 1)) \ {k} :
            FromInsertion(k, i) \in 1..n /\ (FromInsertion(k, i) < k <=> i < k)
      /\ \A i, j \in (1..(n + 1)) \ {k} : i < j => FromInsertion(k, i) < FromInsertion(k, j)
    BY DEF FromInsertion
<1>. QED
    BY <1>1, <1>2

\* A set of numbers that starts at 1 and has no gap ends at its size.
LEMMA InitialSegment ==
    ASSUME NEW n \in Nat, NEW S \in SUBSET (1..n),
           \A i \in S : \A j \in 1..i : j \in S
    PROVE  Cardinality(S) \in 0..n /\ S = 1..Cardinality(S)
<1>1. IsFiniteSet(1..n) /\ Cardinality(1..n) = n
    BY FS_Interval
<1>2. IsFiniteSet(S) /\ Cardinality(S) \in Nat /\ Cardinality(S) <= n
    BY <1>1, FS_Subset, FS_CardinalityType
<1>3. ASSUME NEW i \in S PROVE i <= Cardinality(S)
    <2>1. 1..i \subseteq S
        OBVIOUS
    <2>2. Cardinality(1..i) = i
        BY FS_Interval
    <2>. QED
        BY <1>2, <2>1, <2>2, FS_Subset
<1>4. S \subseteq 1..Cardinality(S)
    BY <1>2, <1>3
<1>5. IsFiniteSet(1..Cardinality(S)) /\ Cardinality(1..Cardinality(S)) = Cardinality(S)
    BY <1>2, FS_Interval
<1>6. S = 1..Cardinality(S)
    BY <1>4, <1>5, FS_Subset
<1>. QED
    BY <1>2, <1>6
-----------------------------------------------------------------------------
(* The inductive invariant *)

Noted == {r \in Request : arrival[r] # 0}

\* What waits has a timer and no answer; what is new has no place in the order.
WaitingInv ==
    /\ \A r \in Request : stage[r] = "waiting" => r \in timers /\ answer[r] = "none"
    /\ \A r \in Request :
          stage[r] = "new" => arrival[r] = 0 /\ answer[r] = "none" /\ r \notin timers

\* Nothing arrived later than the last.
ArrivalInv ==
    /\ IsFiniteSet(Noted)
    /\ \A r \in Request : arrival[r] <= Arrived

QueueInv ==
    /\ QueueTypeOK
    /\ IsFiniteSet(processing)
    /\ WaitingInv
    /\ ArrivalInv
    /\ QueueInOrder

\* What the type says of the queue, place by place.
LEMMA Places ==
    ASSUME QueueTypeOK
    PROVE  /\ queue \in Seq(Request) /\ Len(queue) \in Nat
           /\ DOMAIN queue = 1..Len(queue)
           /\ \A i \in 1..Len(queue) : queue[i] \in Request /\ stage[queue[i]] = "waiting"
           /\ \A i, j \in 1..Len(queue) : queue[i] = queue[j] => i = j
<1>1. queue \in Seq(Request)
    BY DEF QueueTypeOK
<1>2. Len(queue) \in Nat /\ DOMAIN queue = 1..Len(queue)
      /\ \A i \in 1..Len(queue) : queue[i] \in Request
    BY <1>1, LenProperties, ElementOfSeq
<1>3. \A i, j \in 1..Len(queue) : queue[i] = queue[j] => i = j
    BY <1>2 DEF QueueTypeOK, IsInjective
<1>4. \A i \in 1..Len(queue) : queue[i] \in Waiting
    BY <1>2 DEF Waiting
<1>. QED
    BY <1>1, <1>2, <1>3, <1>4 DEF QueueTypeOK

\* A queue out of which a place is gone.
LEMMA ShorterQueue ==
    ASSUME QueueInv, NEW k \in 1..Len(queue), UNCHANGED arrival,
           queue' \in Seq(Request), Len(queue') = Len(queue) - 1,
           \A i \in 1..Len(queue') : queue'[i] = IF i < k THEN queue[i] ELSE queue[i + 1]
    PROVE  /\ Len(queue') <= MaxQueueSize /\ IsInjective(queue')
           /\ Waiting' = Waiting \ {queue[k]}
           /\ QueueInOrder'
<1>. DEFINE n == Len(queue)
<1>1. /\ n \in Nat /\ k \in 1..n /\ DOMAIN queue = 1..n
      /\ \A i, j \in 1..n : queue[i] = queue[j] => i = j
    BY Places DEF QueueInv
<1>2. DOMAIN queue' = 1..(n - 1) /\ Len(queue') = n - 1
    BY LenProperties
<1>3. Len(queue') <= MaxQueueSize
    BY <1>1, <1>2, QueueAssumption DEF QueueInv, QueueTypeOK
<1>4. \A i \in 1..(n - 1) : queue'[i] = IF i < k THEN queue[i] ELSE queue[i + 1]
    BY <1>2
<1>5. \A i, j \in 1..n :
         i < j => \/ Prio[queue[i]] > Prio[queue[j]]
                  \/ /\ Prio[queue[i]] = Prio[queue[j]]
                     /\ arrival[queue[i]] < arrival[queue[j]]
    BY <1>1 DEF QueueInv, QueueInOrder
<1>. HIDE DEF n
<1>. DEFINE f(i) == FromRemoval(k, i)
<1>6. /\ \A i \in 1..(n - 1) : f(i) \in (1..n) \ {k} /\ queue'[i] = queue[f(i)]
      /\ \A i, j \in 1..(n - 1) : i < j => f(i) < f(j)
      /\ \A j \in (1..n) \ {k} : \E i \in 1..(n - 1) : f(i) = j
    <2>1. \A i \in 1..(n - 1) : queue'[i] = queue[f(i)]
        BY <1>4 DEF FromRemoval
    <2>. QED
        BY <1>1, <2>1, Gap
<1>. HIDE DEF f
<1>7. IsInjective(queue')
    <2>. SUFFICES ASSUME NEW i \in 1..(n - 1), NEW j \in 1..(n - 1), queue'[i] = queue'[j]
                  PROVE  i = j
        BY <1>2 DEF IsInjective
    <2>1. f(i) = f(j) /\ f(i) \in Int
        BY <1>1, <1>6
    <2>. QED
        BY <1>1, <1>6, <2>1
<1>8. Waiting' = Waiting \ {queue[k]}
    <2>1. Waiting = {queue[i] : i \in 1..n} /\ Waiting' = {queue'[i] : i \in 1..(n - 1)}
        BY <1>1, <1>2 DEF Waiting
    <2>2. \A i \in 1..(n - 1) : queue'[i] \in Waiting \ {queue[k]}
        BY <1>1, <1>6, <2>1
    <2>3. \A j \in (1..n) \ {k} : queue[j] \in Waiting'
        BY <1>6, <2>1
    <2>4. \A x \in Waiting \ {queue[k]} : x \in Waiting'
        BY <2>1, <2>3
    <2>5. \A x \in Waiting' : x \in Waiting \ {queue[k]}
        BY <2>1, <2>2
    <2>. QED
        BY <2>4, <2>5
<1>9. QueueInOrder'
    <2>. SUFFICES ASSUME NEW i \in 1..(n - 1), NEW j \in 1..(n - 1), i < j
                  PROVE  \/ Prio[queue'[i]] > Prio[queue'[j]]
                         \/ /\ Prio[queue'[i]] = Prio[queue'[j]]
                            /\ arrival[queue'[i]] < arrival[queue'[j]]
        BY <1>2 DEF QueueInOrder
    <2>. QED
        BY <1>5, <1>6
<1>. QED
    BY <1>3, <1>7, <1>8, <1>9

-----------------------------------------------------------------------------
(* Every step keeps the invariant *)

\* A request that arrives is the last to have arrived.
LEMMA Arrival ==
    ASSUME QueueInv, NEW r \in Request, stage[r] = "new",
           arrival' = [arrival EXCEPT ![r] = Arrived + 1]
    PROVE  /\ ArrivalInv' /\ arrival' \in [Request -> Nat] /\ Arrived \in Nat
           /\ arrival'[r] = Arrived + 1
           /\ \A q \in Request \ {r} : arrival'[q] = arrival[q] /\ arrival[q] <= Arrived
<1>1. IsFiniteSet(Noted) /\ Arrived \in Nat /\ \A q \in Request : arrival[q] <= Arrived
    BY FS_CardinalityType DEF QueueInv, ArrivalInv, Arrived, Noted
<1>2. arrival \in [Request -> Nat] /\ arrival[r] = 0
    BY DEF QueueInv, QueueTypeOK, WaitingInv
<1>3. /\ arrival' \in [Request -> Nat] /\ arrival'[r] = Arrived + 1
      /\ \A q \in Request \ {r} : arrival'[q] = arrival[q]
    BY <1>1, <1>2
<1>4. Noted' = Noted \cup {r} /\ r \notin Noted
    BY <1>1, <1>2, <1>3 DEF Noted
<1>5. IsFiniteSet(Noted') /\ Arrived' = Arrived + 1
    <2>1. IsFiniteSet(Noted \cup {r}) /\ Cardinality(Noted \cup {r}) = Cardinality(Noted) + 1
        BY <1>1, <1>4, FS_AddElement
    <2>2. Arrived = Cardinality(Noted) /\ Arrived' = Cardinality(Noted')
        BY DEF Arrived, Noted
    <2>. QED
        BY <1>4, <2>1, <2>2
<1>6. ArrivalInv'
    BY <1>1, <1>2, <1>3, <1>5 DEF ArrivalInv
<1>. QED
    BY <1>1, <1>3, <1>6

LEMMA EnqueueStep ==
    ASSUME QueueInv, NEW r \in Request, Enqueue(r)
    PROVE  QueueInv'
<1>. DEFINE n == Len(queue)
            S == {i \in DOMAIN queue : Prio[queue[i]] >= Prio[r]}
            k == Cardinality(S)
<1>1. /\ queue \in Seq(Request) /\ n \in Nat /\ DOMAIN queue = 1..n
      /\ \A i \in 1..n : queue[i] \in Request /\ stage[queue[i]] = "waiting"
      /\ \A i, j \in 1..n : queue[i] = queue[j] => i = j
    BY Places DEF QueueInv
<1>2. stage[r] = "new" /\ Prio \in [Request -> Nat] /\ n < MaxQueueSize
    BY QueueAssumption DEF Enqueue
<1>3. \A i, j \in 1..n :
         i < j => \/ Prio[queue[i]] > Prio[queue[j]]
                  \/ /\ Prio[queue[i]] = Prio[queue[j]]
                     /\ arrival[queue[i]] < arrival[queue[j]]
    BY <1>1 DEF QueueInv, QueueInOrder
<1>4. \A i \in 1..n : Prio[queue[i]] \in Nat
    BY <1>1, <1>2
<1>5. S \in SUBSET (1..n) /\ \A i \in S : \A j \in 1..i : j \in S
    <2>. HIDE DEF n
    <2>1. \A i, j \in 1..n : j < i => Prio[queue[j]] >= Prio[queue[i]]
        BY <1>3, <1>4
    <2>2. Prio[r] \in Nat /\ \A i \in S : i \in 1..n /\ Prio[queue[i]] >= Prio[r]
        BY <1>1, <1>2
    <2>3. ASSUME NEW i \in S, NEW j \in 1..i PROVE j \in S
        <3>1. j \in 1..n /\ (j = i \/ j < i)
            BY <1>1, <2>2
        <3>2. Prio[queue[j]] >= Prio[r]
            BY <1>4, <2>1, <2>2, <3>1
        <3>. QED
            BY <1>1, <3>1, <3>2
    <2>. QED
        BY <1>1, <2>3
<1>6. k \in 0..n /\ S = 1..k
    <2>. HIDE DEF S, n
    <2>. QED
        BY <1>1, <1>5, InitialSegment
<1>7. \A i \in 1..n : i <= k <=> Prio[queue[i]] >= Prio[r]
    <2>1. \A i \in 1..n : i \in S <=> Prio[queue[i]] >= Prio[r]
        BY <1>1
    <2>. HIDE DEF S, n, k
    <2>. QED
        BY <1>1, <1>6, <2>1
<1>. DEFINE p == k + 1
<1>8. queue' = InsertAt(queue, p, r)
    BY DEF Enqueue, Sorted
<1>. HIDE DEF S, k
<1>9. p \in 1..(n + 1) /\ \A i \in 1..n : i < p <=> i <= k
    <2>. HIDE DEF n
    <2>. QED
        BY <1>1, <1>6
<1>10. \A i \in 1..n : i < p <=> Prio[queue[i]] >= Prio[r]
    <2>. HIDE DEF n, p
    <2>. QED
        BY <1>7, <1>9
<1>. HIDE DEF p
<1>11. /\ queue' \in Seq(Request) /\ Len(queue') = n + 1
      /\ \A i \in 1..(n + 1) :
            queue'[i] = IF i < p THEN queue[i] ELSE IF i = p THEN r ELSE queue[i - 1]
    <2>1. queue \in Seq(Request) /\ p \in 1..(Len(queue) + 1)
        BY <1>1, <1>9
    <2>. DEFINE new == InsertAt(queue, p, r)
    <2>2. /\ new \in Seq(Request) /\ Len(new) = Len(queue) + 1
          /\ \A i \in 1..(Len(queue) + 1) :
                new[i] = IF i < p THEN queue[i] ELSE IF i = p THEN r ELSE queue[i - 1]
        <3>1. queue \in Seq(Request) /\ r \in Request /\ p \in 1..(Len(queue) + 1)
            BY <2>1
        <3>. QED
            BY <3>1, Inserted
    <2>3. queue' = new
        BY <1>8
    <2>. HIDE DEF new
    <2>. QED
        BY <2>2, <2>3
<1>12. DOMAIN queue' = 1..(n + 1)
    BY <1>11, LenProperties
<1>. HIDE DEF n
<1>13. n + 1 <= MaxQueueSize
    BY <1>1, <1>2, QueueAssumption
<1>. DEFINE f(i) == FromInsertion(p, i)
<1>14. /\ queue'[p] = r
       /\ \A i \in (1..(n + 1)) \ {p} :
             f(i) \in 1..n /\ queue'[i] = queue[f(i)] /\ (f(i) < p <=> i < p)
       /\ \A i, j \in (1..(n + 1)) \ {p} : i < j => f(i) < f(j)
       /\ \A j \in 1..n : \E i \in (1..(n + 1)) \ {p} : f(i) = j
    <2>1. queue'[p] = r /\ \A i \in (1..(n + 1)) \ {p} : queue'[i] = queue[f(i)]
        BY <1>1, <1>11, <1>9 DEF FromInsertion
    <2>. QED
        BY <1>1, <1>9, <2>1, Room
<1>. HIDE DEF f
<1>15. \A i \in 1..n : queue[i] # r
    BY <1>1, <1>2
<1>16. Waiting' = Waiting \cup {r}
    <2>1. Waiting = {queue[i] : i \in 1..n} /\ Waiting' = {queue'[i] : i \in 1..(n + 1)}
        BY <1>1, <1>12 DEF Waiting
    <2>2. \A i \in 1..(n + 1) : queue'[i] \in Waiting \cup {r}
        BY <1>11, <1>14, <2>1
    <2>3. \A j \in 1..n : queue[j] \in Waiting'
        BY <1>14, <2>1
    <2>4. r \in Waiting'
        BY <1>11, <1>9, <2>1
    <2>. QED
        BY <2>1, <2>2, <2>3, <2>4
<1>17. IsInjective(queue')
    <2>. SUFFICES ASSUME NEW i \in 1..(n + 1), NEW j \in 1..(n + 1), queue'[i] = queue'[j]
                  PROVE  i = j
        BY <1>12 DEF IsInjective
    <2>1. CASE i = p \/ j = p
        BY <1>11, <1>14, <1>15, <2>1
    <2>2. CASE i # p /\ j # p
        <3>1. f(i) = f(j) /\ f(i) \in 1..n
            BY <1>1, <1>14, <2>2
        <3>2. f(i) \in Int /\ ~(f(i) < f(j)) /\ ~(f(j) < f(i))
            BY <3>1
        <3>. QED
            BY <1>1, <1>14, <2>2, <3>2
    <2>. QED
        BY <2>1, <2>2
<1>18. /\ ArrivalInv' /\ arrival' \in [Request -> Nat] /\ Arrived \in Nat
       /\ arrival'[r] = Arrived + 1
       /\ \A q \in Request \ {r} : arrival'[q] = arrival[q] /\ arrival[q] <= Arrived
    BY <1>2, Arrival DEF Enqueue
<1>19. arrival \in [Request -> Nat]
    BY DEF QueueInv, QueueTypeOK
<1>20. QueueInOrder'
    <2>. SUFFICES ASSUME NEW i \in 1..(n + 1), NEW j \in 1..(n + 1), i < j
                  PROVE  \/ Prio[queue'[i]] > Prio[queue'[j]]
                         \/ /\ Prio[queue'[i]] = Prio[queue'[j]]
                            /\ arrival'[queue'[i]] < arrival'[queue'[j]]
        BY <1>12 DEF QueueInOrder
    <2>1. CASE j = p
        <3>1. f(i) \in 1..n /\ f(i) < p /\ queue'[i] = queue[f(i)] /\ queue'[j] = r
            <4>1. i \in (1..(n + 1)) \ {p} /\ i < p
                BY <1>1, <2>1
            <4>. QED
                BY <1>14, <2>1, <4>1
        <3>2. Prio[queue[f(i)]] >= Prio[r] /\ Prio[queue[f(i)]] \in Nat /\ Prio[r] \in Nat
            BY <1>2, <1>4, <1>10, <3>1
        <3>3. arrival'[queue[f(i)]] < arrival'[r]
            BY <1>1, <1>15, <1>18, <1>19, <3>1
        <3>. QED
            BY <3>1, <3>2, <3>3
    <2>2. CASE i = p
        <3>1. f(j) \in 1..n /\ ~(f(j) < p) /\ queue'[j] = queue[f(j)] /\ queue'[i] = r
            BY <1>1, <1>14, <2>2
        <3>2. Prio[r] > Prio[queue[f(j)]]
            BY <1>2, <1>4, <1>10, <3>1
        <3>. QED
            BY <3>1, <3>2
    <2>3. CASE i # p /\ j # p
        <3>1. /\ f(i) \in 1..n /\ f(j) \in 1..n /\ f(i) < f(j)
              /\ queue'[i] = queue[f(i)] /\ queue'[j] = queue[f(j)]
            BY <1>14, <2>3
        <3>2. /\ arrival'[queue[f(i)]] = arrival[queue[f(i)]]
              /\ arrival'[queue[f(j)]] = arrival[queue[f(j)]]
            BY <1>1, <1>15, <1>18, <3>1
        <3>. QED
            BY <1>3, <3>1, <3>2
    <2>. QED
        BY <2>1, <2>2, <2>3
<1>21. QueueTypeOK'
    <2>1. /\ stage' \in [Request -> {"new", "waiting", "running", "over"}]
          /\ Waiting' = {q \in Request : stage'[q] = "waiting"}
        BY <1>16 DEF Enqueue, QueueInv, QueueTypeOK
    <2>2. /\ processing' = processing /\ answer' = answer
          /\ timers' = timers \cup {r}
        BY DEF Enqueue
    <2>. QED
        BY <1>11, <1>13, <1>17, <1>18, <2>1, <2>2 DEF QueueTypeOK, QueueInv
<1>22. WaitingInv' /\ IsFiniteSet(processing')
    BY <1>2, <1>18 DEF Enqueue, QueueInv, QueueTypeOK, WaitingInv
<1>. QED
    BY <1>18, <1>20, <1>21, <1>22 DEF QueueInv

\* The head, or a request whose time is over, leaves the queue.
LEMMA ProcessStep ==
    ASSUME QueueInv, ProcessNext
    PROVE  QueueInv' /\ stage[Head(queue)] = "waiting" /\ answer[Head(queue)] = "none"
<1>1. /\ queue \in Seq(Request) /\ queue # <<>> /\ UNCHANGED <<timers, answer, arrival>>
      /\ queue' = Tail(queue)
    BY DEF ProcessNext, QueueInv, QueueTypeOK
<1>2. /\ 1 \in 1..Len(queue) /\ Head(queue) = queue[1]
      /\ queue' \in Seq(Request) /\ Len(queue') = Len(queue) - 1
      /\ \A i \in 1..Len(queue') : queue'[i] = queue[i + 1]
    BY <1>1, Shifted
<1>. DEFINE h == Head(queue)
<1>3. h \in Request /\ stage[h] = "waiting" /\ answer[h] = "none"
    BY <1>2, Places DEF QueueInv, WaitingInv
<1>4. \A i \in 1..Len(queue') : queue'[i] = IF i < 1 THEN queue[i] ELSE queue[i + 1]
    BY <1>2, LenProperties
<1>5. /\ Len(queue') <= MaxQueueSize /\ IsInjective(queue')
      /\ Waiting' = Waiting \ {h} /\ QueueInOrder'
    BY <1>1, <1>2, <1>4, ShorterQueue
<1>. HIDE DEF h
<1>6. /\ IsFiniteSet(processing) /\ Cardinality(processing) < MaxConcurrent
      /\ processing \subseteq Request
      /\ processing' = processing \cup {h} /\ stage' = [stage EXCEPT ![h] = "running"]
    BY DEF ProcessNext, QueueInv, QueueTypeOK, h
<1>7. IsFiniteSet(processing') /\ Cardinality(processing') <= MaxConcurrent
    <2>1. /\ IsFiniteSet(processing \cup {h})
          /\ Cardinality(processing \cup {h}) = IF h \in processing THEN Cardinality(processing)
                                                ELSE Cardinality(processing) + 1
        BY <1>6, FS_AddElement
    <2>2. Cardinality(processing) \in Nat
        BY <1>6, FS_CardinalityType
    <2>. QED
        BY <1>6, <2>1, <2>2, QueueAssumption
<1>8. /\ stage' \in [Request -> {"new", "waiting", "running", "over"}]
      /\ Waiting' = {q \in Request : stage'[q] = "waiting"}
    BY <1>3, <1>5, <1>6 DEF QueueInv, QueueTypeOK
<1>9. QueueTypeOK'
    BY <1>1, <1>2, <1>3, <1>5, <1>6, <1>7, <1>8 DEF QueueInv, QueueTypeOK
<1>10. WaitingInv'
    BY <1>1, <1>3, <1>6 DEF QueueInv, QueueTypeOK, WaitingInv
<1>11. ArrivalInv'
    BY <1>1 DEF QueueInv, ArrivalInv, Arrived, Noted
<1>. QED
    BY <1>3, <1>5, <1>7, <1>9, <1>10, <1>11 DEF QueueInv, h

LEMMA TimeOutStep ==
    ASSUME QueueInv, NEW r \in Request, TimeOut(r)
    PROVE  QueueInv'
<1>1. /\ r \in timers /\ timers' = timers \ {r} /\ UNCHANGED <<processing, arrival>>
      /\ answer' = IF answer[r] = "none" THEN [answer EXCEPT ![r] = "408"] ELSE answer
    BY DEF TimeOut
<1>2. answer' \in [Request -> {"none", "503", "408", "route"}]
      /\ \A q \in Request \ {r} : answer'[q] = answer[q]
    BY <1>1 DEF QueueInv, QueueTypeOK
<1>3. ArrivalInv'
    BY <1>1 DEF QueueInv, ArrivalInv, Arrived, Noted
<1>4. CASE r \notin Waiting /\ UNCHANGED <<queue, stage>>
    <2>1. stage[r] # "waiting" /\ Waiting' = Waiting
        BY <1>4 DEF QueueInv, QueueTypeOK, Waiting
    <2>2. QueueTypeOK' /\ QueueInOrder'
        BY <1>1, <1>2, <1>4, <2>1 DEF QueueInv, QueueTypeOK, QueueInOrder
    <2>3. stage[r] # "new"
        BY <1>1 DEF QueueInv, WaitingInv
    <2>4. WaitingInv'
        BY <1>1, <1>2, <1>4, <2>1, <2>3 DEF QueueInv, WaitingInv
    <2>. QED
        BY <1>1, <1>3, <2>2, <2>4 DEF QueueInv
<1>5. ASSUME NEW i \in DOMAIN queue, queue[i] = r, queue' = RemoveAt(queue, i),
             stage' = [stage EXCEPT ![r] = "over"]
      PROVE  QueueInv'
    <2>1. queue \in Seq(Request) /\ i \in 1..Len(queue)
        BY <1>5, Places DEF QueueInv
    <2>. DEFINE new == RemoveAt(queue, i)
    <2>2. /\ new \in Seq(Request) /\ Len(new) = Len(queue) - 1
          /\ \A j \in 1..(Len(queue) - 1) : new[j] = IF j < i THEN queue[j] ELSE queue[j + 1]
        BY <2>1, Removed, Zenon
    <2>3. queue' = new
        BY <1>5
    <2>. HIDE DEF new
    <2>4. /\ queue' \in Seq(Request)
          /\ Len(queue') <= MaxQueueSize /\ IsInjective(queue')
          /\ Waiting' = Waiting \ {r} /\ QueueInOrder'
        BY <1>1, <1>5, <2>1, <2>2, <2>3, ShorterQueue
    <2>5. /\ stage' \in [Request -> {"new", "waiting", "running", "over"}]
          /\ Waiting' = {q \in Request : stage'[q] = "waiting"}
        BY <1>5, <2>4 DEF QueueInv, QueueTypeOK
    <2>6. QueueTypeOK'
        BY <1>1, <1>2, <2>4, <2>5 DEF QueueInv, QueueTypeOK
    <2>7. WaitingInv'
        BY <1>1, <1>2, <1>5 DEF QueueInv, QueueTypeOK, WaitingInv
    <2>. QED
        BY <1>1, <1>3, <2>4, <2>6, <2>7 DEF QueueInv
<1>. QED
    BY <1>4, <1>5 DEF TimeOut

\* Steps that leave the queue as it is.
LEMMA OtherStep ==
    ASSUME QueueInv, NEW r \in Request, Reject(r) \/ CompleteRequest(r) \/ Respond(r)
    PROVE  QueueInv'
<1>1. UNCHANGED <<queue, timers, arrival>>
    BY DEF Reject, CompleteRequest, Respond
<1>2. QueueInOrder' /\ ArrivalInv' /\ Waiting' = Waiting
    BY <1>1 DEF QueueInv, QueueInOrder, ArrivalInv, Arrived, Noted, Waiting
<1>3. IsFiniteSet(processing') /\ processing' \subseteq Request
      /\ Cardinality(processing') <= MaxConcurrent
    <2>1. /\ IsFiniteSet(processing) /\ processing' \subseteq processing
          /\ processing \subseteq Request
          /\ Cardinality(processing) <= MaxConcurrent
        BY DEF Reject, CompleteRequest, Respond, QueueInv, QueueTypeOK
    <2>2. /\ IsFiniteSet(processing') /\ Cardinality(processing') <= Cardinality(processing)
        BY <2>1, FS_Subset
    <2>3. Cardinality(processing) \in Nat /\ Cardinality(processing') \in Nat
        BY <2>1, <2>2, FS_CardinalityType
    <2>. QED
        BY <2>1, <2>2, <2>3, QueueAssumption
<1>4. /\ stage' \in [Request -> {"new", "waiting", "running", "over"}]
      /\ answer' \in [Request -> {"none", "503", "408", "route"}]
      /\ \A q \in Request : stage'[q] = "waiting" <=> stage[q] = "waiting"
    BY DEF Reject, CompleteRequest, Respond, QueueInv, QueueTypeOK
<1>5. QueueTypeOK'
    BY <1>1, <1>2, <1>3, <1>4 DEF QueueInv, QueueTypeOK
<1>6. WaitingInv'
    BY <1>1, <1>4 DEF Reject, CompleteRequest, Respond, QueueInv, QueueTypeOK, WaitingInv
<1>. QED
    BY <1>2, <1>3, <1>5, <1>6 DEF QueueInv

LEMMA QueueInvStarts == QueueInit => QueueInv
<1>. SUFFICES ASSUME QueueInit PROVE QueueInv
    OBVIOUS
<1>1. /\ queue \in Seq(Request) /\ Len(queue) = 0 /\ DOMAIN queue = {}
    BY DEF QueueInit
<1>2. Cardinality({}) = 0 /\ IsFiniteSet({})
    BY FS_EmptySet
<1>3. Waiting = {} /\ Noted = {}
    BY <1>1 DEF QueueInit, Waiting, Noted
<1>4. QueueTypeOK
    BY <1>1, <1>2, <1>3, QueueAssumption DEF QueueInit, QueueTypeOK, IsInjective
<1>5. WaitingInv /\ QueueInOrder
    BY <1>1 DEF QueueInit, WaitingInv, QueueInOrder
<1>6. ArrivalInv
    <2>1. Arrived = Cardinality(Noted)
        BY DEF Arrived, Noted
    <2>2. Arrived = 0 /\ \A r \in Request : arrival[r] = 0
        BY <1>2, <1>3, <2>1 DEF QueueInit
    <2>. QED
        BY <1>2, <1>3, <2>2 DEF ArrivalInv
<1>. QED
    BY <1>2, <1>4, <1>5, <1>6 DEF QueueInv, QueueInit

LEMMA QueueInvKept == QueueInv /\ [QueueNext]_queueVars => QueueInv'
<1>. SUFFICES ASSUME QueueInv, [QueueNext]_queueVars PROVE QueueInv'
    OBVIOUS
<1>1. CASE UNCHANGED queueVars
    BY <1>1 DEF queueVars, QueueInv, QueueTypeOK, WaitingInv, ArrivalInv, Arrived,
                Noted, QueueInOrder, Waiting
<1>. QED
    BY <1>1, EnqueueStep, ProcessStep, TimeOutStep, OtherStep DEF QueueNext

LEMMA QueueInvHolds == QueueSpec => []QueueInv
BY QueueInvStarts, QueueInvKept, PTL DEF QueueSpec

-----------------------------------------------------------------------------
(* Theorems *)

\* However requests arrive, are let through and time out, the queue and the
\* slots stay within their limits, and exactly the waiting requests are in the
\* queue, each once.
THEOREM QueueTypeCorrect == QueueSpec => []QueueTypeOK
<1>1. QueueInv => QueueTypeOK
    BY DEF QueueInv
<1>. QED
    BY <1>1, QueueInvHolds, PTL

\* The queue is always in order of priority and, within a priority, of arrival
\* (the stable sort of SimpleRequestQueue), for any priorities.
THEOREM QueueOrdered == QueueSpec => []QueueInOrder
<1>1. QueueInv => QueueInOrder
    BY DEF QueueInv
<1>. QED
    BY <1>1, QueueInvHolds, PTL

\* No route is entered for a request that has its answer (removeRequest comes
\* before the 408).
THEOREM AnsweredAreLeftAlone == QueueSpec => NoWorkForTheAnswered
<1>. DEFINE A == \A r \in Request :
                    stage[r] # "running" /\ stage'[r] = "running" => answer[r] = "none"
<1>1. ASSUME QueueInv, QueueNext PROVE A
    <2>1. CASE ProcessNext
        <3>1. answer[Head(queue)] = "none" /\ stage' = [stage EXCEPT ![Head(queue)] = "running"]
            BY <1>1, <2>1, ProcessStep DEF ProcessNext
        <3>. QED
            BY <1>1, <3>1 DEF QueueInv, QueueTypeOK
    <2>2. CASE ~ProcessNext
        BY <1>1, <2>2
        DEF QueueNext, QueueInv, QueueTypeOK, Reject, Enqueue, CompleteRequest, TimeOut, Respond
    <2>. QED
        BY <2>1, <2>2
<1>2. QueueInv /\ [QueueNext]_queueVars => [A]_queueVars
    BY <1>1
<1>. QED
    BY <1>2, QueueInvHolds, PTL DEF QueueSpec, NoWorkForTheAnswered

-----------------------------------------------------------------------------
(* The waiting room *)

\* A request that is over has its answer, so that its timer has nothing to do.
OverInv == \A r \in Request : stage[r] = "over" => answer[r] # "none"

LEMMA OverInvKept ==
    ASSUME QueueInv, OverInv, [QueueNext]_queueVars
    PROVE  OverInv'
<1>1. /\ stage \in [Request -> {"new", "waiting", "running", "over"}]
      /\ answer \in [Request -> {"none", "503", "408", "route"}]
    BY DEF QueueInv, QueueTypeOK
<1>2. CASE ProcessNext
    BY <1>1, <1>2 DEF ProcessNext, OverInv
<1>3. ASSUME NEW r \in Request,
             Reject(r) \/ Enqueue(r) \/ CompleteRequest(r) \/ TimeOut(r) \/ Respond(r)
      PROVE  OverInv'
    BY <1>1, <1>3 DEF Reject, Enqueue, CompleteRequest, TimeOut, Respond, OverInv
<1>4. CASE UNCHANGED queueVars
    BY <1>4 DEF queueVars, OverInv
<1>. QED
    BY <1>2, <1>3, <1>4 DEF QueueNext

\* The service counts as the queue does.
LEMMA SameCount ==
    ASSUME NEW S
    PROVE  Service!Cardinality(S) = Cardinality(S)
BY DEF Cardinality, Service!Cardinality

\* The array holds whoever is in the waiting room, each once.
LEMMA RoomIsQueue ==
    ASSUME QueueTypeOK
    PROVE  Service!InRoom = Waiting /\ Service!Cardinality(Service!InRoom) = Len(queue)
<1>1. Service!InRoom = Waiting
    BY DEF QueueTypeOK, Service!InRoom
<1>2. /\ Len(queue) \in Nat /\ DOMAIN queue = 1..Len(queue)
      /\ queue = [i \in 1..Len(queue) |-> queue[i]]
      /\ \A i, j \in 1..Len(queue) : queue[i] = queue[j] => i = j
    BY Places
<1>3. queue \in Bijection(1..Len(queue), Waiting)
    BY <1>2 DEF Waiting, Bijection, Injection, Surjection, IsInjective
<1>4. Cardinality(Waiting) = Len(queue)
    BY <1>2, <1>3, FS_CountingElements DEF ExistsBijection
<1>. QED
    BY <1>1, <1>4, SameCount

\* The head of the queue goes before all others who wait.
LEMMA HeadIsFirst ==
    ASSUME QueueInv, queue # <<>>
    PROVE  \A q \in Waiting \ {Head(queue)} : Service!GoesBefore(Head(queue), q)
<1>1. /\ queue \in Seq(Request) /\ Len(queue) \in Nat /\ DOMAIN queue = 1..Len(queue)
      /\ Head(queue) = queue[1] /\ 1 \in 1..Len(queue)
    BY Places, Shifted DEF QueueInv
<1>2. ASSUME NEW i \in 1..Len(queue), queue[i] # queue[1]
      PROVE  Service!GoesBefore(queue[1], queue[i])
    <2>1. 1 < i
        BY <1>2
    <2>. QED
        BY <1>1, <2>1 DEF QueueInv, QueueInOrder, Service!GoesBefore
<1>. QED
    BY <1>1, <1>2 DEF Waiting

LEMMA ServiceStep ==
    ASSUME QueueInv, OverInv, [QueueNext]_queueVars
    PROVE  [Service!ServiceNext]_(Service!serviceVars)
<1>1. /\ stage \in [Request -> {"new", "waiting", "running", "over"}]
      /\ answer \in [Request -> {"none", "503", "408", "route"}]
      /\ Service!InRoom = {r \in Request : stage[r] = "waiting"}
      /\ Service!Cardinality(Service!InRoom) = Len(queue) /\ Service!InRoom = Waiting
    BY RoomIsQueue DEF QueueInv, QueueTypeOK
<1>2. CASE ProcessNext
    <2>. DEFINE h == Head(queue)
    <2>1. /\ queue # <<>> /\ stage' = [stage EXCEPT ![h] = "running"]
          /\ UNCHANGED <<answer, arrival>>
        BY <1>2 DEF ProcessNext
    <2>2. h \in Request /\ stage[h] = "waiting"
        BY <2>1, Places, Shifted DEF QueueInv
    <2>3. \A q \in Service!InRoom \ {h} : Service!GoesBefore(h, q)
        BY <1>1, <2>1, HeadIsFirst
    <2>. HIDE DEF h
    <2>4. Service!LetThrough(h)
        BY <2>1, <2>2, <2>3 DEF Service!LetThrough, Service!Becomes
    <2>. QED
        BY <2>2, <2>4 DEF Service!ServiceNext
<1>3. ASSUME NEW r \in Request, Reject(r) PROVE Service!TurnAway(r)
    <2>1. Service!Cardinality(Service!InRoom) >= MaxQueueSize
        BY <1>1, <1>3 DEF Reject
    <2>. QED
        BY <1>3, <2>1 DEF Reject, Service!TurnAway, Service!Becomes, Service!Answered
<1>4. ASSUME NEW r \in Request, Enqueue(r) PROVE Service!Admit(r)
    <2>1. /\ arrival' \in [Request -> Nat] /\ Arrived \in Nat
          /\ arrival'[r] = Arrived + 1
          /\ \A q \in Request \ {r} : arrival'[q] = arrival[q] /\ arrival[q] <= Arrived
        BY <1>4, Arrival DEF Enqueue
    <2>2. \A q \in Request \ {r} : arrival'[q] < arrival'[r]
        BY <2>1
    <2>3. Service!Cardinality(Service!InRoom) < MaxQueueSize
        BY <1>1, <1>4 DEF Enqueue
    <2>. QED
        BY <1>4, <2>1, <2>2, <2>3 DEF Enqueue, Service!Admit, Service!Becomes
<1>5. ASSUME NEW r \in Request, TimeOut(r)
      PROVE  [Service!ServiceNext]_(Service!serviceVars)
    <2>1. /\ r \in timers /\ arrival' = arrival
          /\ answer' = IF answer[r] = "none" THEN [answer EXCEPT ![r] = "408"] ELSE answer
        BY <1>5 DEF TimeOut
    <2>2. CASE r \in Waiting
        <3>1. stage[r] = "waiting" /\ answer[r] = "none"
            BY <1>1, <2>2 DEF QueueInv, WaitingInv
        <3>2. stage' = [stage EXCEPT ![r] = "over"]
            BY <1>5, <2>2 DEF TimeOut
        <3>3. Service!GiveUp(r)
            BY <2>1, <3>1, <3>2 DEF Service!GiveUp, Service!Becomes, Service!Answered
        <3>. QED
            BY <3>3 DEF Service!ServiceNext
    <2>3. CASE r \notin Waiting
        <3>1. stage' = stage
            BY <1>5, <2>3 DEF TimeOut, Waiting
        <3>2. stage[r] \in {"running", "over"}
            BY <1>1, <2>1, <2>3 DEF QueueInv, WaitingInv
        <3>3. CASE answer[r] = "none"
            <4>1. Service!Overdue(r)
                BY <2>1, <3>1, <3>2, <3>3 DEF OverInv, Service!Overdue, Service!Answered
            <4>. QED
                BY <4>1 DEF Service!ServiceNext
        <3>4. CASE answer[r] # "none"
            BY <2>1, <3>1, <3>4 DEF Service!serviceVars
        <3>. QED
            BY <3>3, <3>4
    <2>. QED
        BY <2>2, <2>3
<1>6. ASSUME NEW r \in Request, Respond(r) PROVE Service!RouteEnds(r)
    <2>1. /\ stage[r] = "running" /\ stage' = [stage EXCEPT ![r] = "over"]
          /\ answer[r] = "none" => answer' = [answer EXCEPT ![r] = "route"]
          /\ answer[r] # "none" => answer' = answer
          /\ arrival' = arrival
        BY <1>6 DEF Respond
    <2>. QED
        BY <2>1 DEF Service!RouteEnds, Service!Becomes, Service!Answered
<1>7. ASSUME (\E r \in Request : CompleteRequest(r)) \/ UNCHANGED queueVars
      PROVE  UNCHANGED Service!serviceVars
    BY <1>7 DEF CompleteRequest, queueVars, Service!serviceVars
<1>8. ASSUME NEW r \in Request, Reject(r) \/ Enqueue(r) \/ Respond(r)
      PROVE  Service!ServiceNext
    BY <1>3, <1>4, <1>6, <1>8 DEF Service!ServiceNext
<1>. QED
    BY <1>2, <1>5, <1>7, <1>8 DEF QueueNext

\* SimpleRequestQueue implements PriorityService, for any priorities and limits:
\* with its sorted array, its slots and its timers it is a waiting room that lets
\* the first through, turns away only when it is full, and answers once.
THEOREM QueueIsPriorityService == QueueSpec => ImplementsService
<1>1. QueueInit => Service!ServiceInit
    BY DEF QueueInit, Service!ServiceInit
<1>2. QueueInit => OverInv
    BY DEF QueueInit, OverInv
<1>3. QueueInv /\ OverInv /\ [QueueNext]_queueVars => OverInv'
    BY OverInvKept
<1>4. QueueInv /\ OverInv /\ [QueueNext]_queueVars
         => [Service!ServiceNext]_(Service!serviceVars)
    BY ServiceStep
<1>. QED
    BY <1>1, <1>2, <1>3, <1>4, QueueInvHolds, PTL
    DEF QueueSpec, ImplementsService, Service!ServiceSpec

\* The dispatch of a request, the freeing of its slot and the removals of others
\* leave its timer; only the timer itself lets go, with an answer
\* (SimpleRequestQueue).
THEOREM TimersCoverTheUnanswered == QueueSpec => []UnansweredHaveTimers
<1>1. QueueInit => UnansweredHaveTimers
    BY DEF QueueInit, UnansweredHaveTimers
<1>2. ASSUME QueueInv, UnansweredHaveTimers, [QueueNext]_queueVars
      PROVE  UnansweredHaveTimers'
    <2>1. /\ stage \in [Request -> {"new", "waiting", "running", "over"}]
          /\ answer \in [Request -> {"none", "503", "408", "route"}]
        BY <1>2 DEF QueueInv, QueueTypeOK
    <2>2. CASE ProcessNext
        <3>1. Head(queue) \in Request /\ stage[Head(queue)] = "waiting"
            BY <1>2, <2>2, Places DEF QueueInv, ProcessNext
        <3>. QED
            BY <1>2, <2>1, <2>2, <3>1 DEF ProcessNext, UnansweredHaveTimers
    <2>3. ASSUME NEW r \in Request, Enqueue(r)
          PROVE  UnansweredHaveTimers'
        BY <1>2, <2>1, <2>3 DEF Enqueue, UnansweredHaveTimers
    <2>4. ASSUME NEW r \in Request, TimeOut(r)
          PROVE  UnansweredHaveTimers'
        <3>1. /\ timers' = timers \ {r} /\ answer'[r] # "none"
              /\ \A q \in Request \ {r} : answer'[q] = answer[q] /\ stage'[q] = stage[q]
            BY <2>1, <2>4 DEF TimeOut
        <3>. QED
            BY <1>2, <3>1 DEF UnansweredHaveTimers
    <2>5. ASSUME NEW r \in Request, Reject(r) \/ CompleteRequest(r) \/ Respond(r)
          PROVE  UnansweredHaveTimers'
        BY <1>2, <2>1, <2>5 DEF Reject, CompleteRequest, Respond, UnansweredHaveTimers
    <2>6. CASE UNCHANGED queueVars
        BY <1>2, <2>6 DEF queueVars, UnansweredHaveTimers
    <2>. QED
        BY <1>2, <2>2, <2>3, <2>4, <2>5, <2>6 DEF QueueNext
<1>. QED
    BY <1>1, <1>2, QueueInvHolds, PTL DEF QueueSpec

===============================================================================
