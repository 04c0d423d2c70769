--------------------------- MODULE ChannelProofs ---------------------------
(***************************************************************************)
(* Proofs about the channel, for any senders, receivers, capacities and    *)
(* contexts, and the condition variable, for any waiters, notifiers and    *)
(* contexts.                                                               *)
(***************************************************************************)
EXTENDS Channel, CondVar, Integers, FiniteSetTheorems, WellFoundedInduction, TLAPS

\* The elements of q are all different.
Uniq(q) == \A i, j \in DOMAIN q : q[i] = q[j] => i = j

\* p owns mutex m of L or is queued for it.
In(L, m, p) == L[m].owner = p \/ InSeq(p, L[m].queue)

LockType == [Mutexes -> [owner : Procs \cup {Null}, queue : Seq(Procs)]]

\* What Lock and Unlock preserve.
LockShape(L, m) == /\ Uniq(L[m].queue)
                   /\ L[m].owner = Null => L[m].queue = <<>>
                   /\ ~ InSeq(L[m].owner, L[m].queue)

\* Between lock() and unlock() of m, and not asleep on a condition variable: a
\* receiver of an unbuffered channel notifies there.
Wants(m, p) ==
  IF m = "mtx" THEN \/ pc[p] \in {"body", "wait"} /\ p \notin asleep
                    \/ capacity = 0 /\ p \in Receivers /\ pc[p] \in Notify
  ELSE capacity = 0 /\ m = Outer(p) /\ pc[p] # "idle"

\* Who is between lock() and unlock() owns the mutex or is queued for it.
LocksOK == /\ \A m \in Mutexes : /\ LockShape(lock, m)
                                 /\ \A p \in Procs : In(lock, m, p) <=> Wants(m, p)
           /\ \A p \in Procs : /\ InSeq(p, lock[Outer(p)].queue) => pc[p] = "outer"
                               /\ InSeq(p, lock["mtx"].queue) => pc[p] \in {"body", "wait"}

\* Where they sleep.
SleepersOK == \A p \in asleep : pc[p] = IF capacity = 0 THEN "wait" ELSE "body"

\* What p sleeps on.
CvOf(p) == IF capacity = 0 THEN "match" ELSE IF p \in Senders THEN "not_full" ELSE "not_empty"

ListTypes == /\ arrivals \in [Cvs -> Seq(Procs)] /\ to_resume \in [Cvs -> Seq(Procs)]
             /\ severed \in [Cvs -> BOOLEAN] /\ taken \in [Procs -> Seq(Procs)]

\* A sleeper is in at most one list, which is one of its condition variable, and
\* nobody else is in any.
ListsOK ==
  /\ \A v \in Cvs : Uniq(arrivals[v]) /\ Uniq(to_resume[v])
  /\ \A q \in Procs : Uniq(taken[q])
  /\ \A v \in Cvs : \A x : InSeq(x, arrivals[v]) =>
       x \in asleep /\ CvOf(x) = v /\ ~ InSeq(x, to_resume[v])
  /\ \A v \in Cvs : \A x : InSeq(x, to_resume[v]) => x \in asleep /\ CvOf(x) = v
  /\ \A q \in Procs : \A x : InSeq(x, taken[q]) =>
       /\ x \in asleep /\ CvOf(x) = Notified(q)
       /\ ~ InSeq(x, arrivals[Notified(q)]) /\ ~ InSeq(x, to_resume[Notified(q)])
       /\ \A p \in Procs : InSeq(x, taken[p]) => p = q

\* Who is at work on a batch has one.
HandsOK == \A q \in Procs : /\ taken[q] # <<>> <=> pc[q] \in {"splice", "register"}
                            /\ pc[q] = "register" => Len(taken[q]) = 1

\* The two protocols share no point but the section under m_mtx and notify_one().
PathsOK ==
  \A p \in Procs : /\ capacity > 0 => pc[p] \in {"idle", "body"} \cup Notify
                   /\ pc[p] # "idle" => left[p] > 0

\* A thread is in one notify_one() at most.
NotifiersOK == \A p, q \in Procs : home[p] = home[q] /\ pc[p] \in Notify /\ pc[q] \in Notify => p = q

\* Those on the side of p, and those who notify p when it sleeps.
Side(p) == IF p \in Senders THEN Senders ELSE Receivers

Others(p) == IF p \in Senders THEN Receivers ELSE Senders

\* While those who notify share a thread, every sleeper is in a list, and
\* notify_one() finds to_resume empty once it has found it empty.
ReachOK ==
  capacity > 0 =>
    /\ \A x \in asleep : OneThread(Others(x)) =>
         \/ InSeq(x, arrivals[CvOf(x)]) \/ InSeq(x, to_resume[CvOf(x)])
         \/ \E q \in Others(x) : InSeq(x, taken[q])
    /\ \A q \in Procs : OneThread(Side(q)) /\ pc[q] \in {"exchange", "splice"}
                          => to_resume[Notified(q)] = <<>>

\* The receiver on offer notifies or waits, and the one that was given an item
\* waits and is no longer on offer.
HandOverOK ==
  /\ m_receiver # Null => capacity = 0 /\ pc[m_receiver] \in {"wait"} \cup Notify
  /\ \A r \in Receivers : item[r] # Null => pc[r] = "wait" /\ m_receiver # r

RingOK == capacity > 0 => m_last = (m_first + m_size) % capacity

ChannelInv == /\ LocksOK /\ SleepersOK /\ ListsOK /\ HandsOK /\ PathsOK /\ NotifiersOK /\ ReachOK
              /\ HandOverOK /\ RingOK /\ ItemsInOrder /\ NoLostWakeup
-----------------------------------------------------------------------------
\* Queues and mutexes.

\* A queue after an arrival.
LEMMA AppendIn ==
  ASSUME NEW S, NEW q \in Seq(S), NEW x \in S
  PROVE  /\ Append(q, x) \in Seq(S)
         /\ \A y : InSeq(y, Append(q, x)) <=> InSeq(y, q) \/ y = x
         /\ Uniq(q) /\ ~ InSeq(x, q) => Uniq(Append(q, x))
<1> DEFINE n == Len(q)
           a == Append(q, x)
<1>1. /\ n \in Nat /\ DOMAIN q = 1..n /\ a \in Seq(S) /\ DOMAIN a = 1..n + 1
      /\ a[n + 1] = x /\ \A i \in 1..n : a[i] = q[i]
  OBVIOUS
<1> HIDE DEF n, a
<1>2. \A i \in 1..n + 1 : i \in 1..n \/ i = n + 1
  BY <1>1
<1>3. ASSUME NEW y PROVE InSeq(y, a) <=> InSeq(y, q) \/ y = x
  <2>1. InSeq(y, a) => InSeq(y, q) \/ y = x
    BY <1>1, <1>2 DEF InSeq
  <2>2. n + 1 \in 1..n + 1 /\ 1..n \subseteq 1..n + 1
    BY <1>1
  <2> QED
    BY <1>1, <2>1, <2>2 DEF InSeq
<1>4. ASSUME Uniq(q), ~ InSeq(x, q) PROVE Uniq(a)
  BY <1>1, <1>2, <1>4 DEF Uniq, InSeq
<1> QED
  BY <1>1, <1>3, <1>4 DEF a

\* A queue after its first left.
LEMMA TailIn ==
  ASSUME NEW S, NEW q \in Seq(S), q # <<>>
  PROVE  /\ Head(q) \in S /\ InSeq(Head(q), q) /\ Tail(q) \in Seq(S)
         /\ \A y : InSeq(y, Tail(q)) => InSeq(y, q)
         /\ Uniq(q) => /\ Uniq(Tail(q))
                       /\ \A y : InSeq(y, Tail(q)) <=> InSeq(y, q) /\ y # Head(q)
<1> DEFINE n == Len(q)
           t == Tail(q)
<1>1. /\ n \in Nat /\ n >= 1 /\ DOMAIN q = 1..n /\ t \in Seq(S) /\ DOMAIN t = 1..n - 1
      /\ Head(q) = q[1] /\ q[1] \in S /\ \A i \in 1..n - 1 : t[i] = q[i + 1]
  OBVIOUS
<1> HIDE DEF n, t
<1>2. \A i \in 1..n - 1 : i + 1 \in 1..n /\ i + 1 # 1
  BY <1>1
<1>3. \A i \in 1..n : i = 1 \/ (i - 1 \in 1..n - 1 /\ (i - 1) + 1 = i)
  BY <1>1
<1>4. 1 \in 1..n
  BY <1>1
<1>5. ASSUME NEW y, InSeq(y, t) PROVE InSeq(y, q)
  BY <1>1, <1>2, <1>5 DEF InSeq
<1>6. ASSUME Uniq(q) PROVE Uniq(t)
  <2> SUFFICES ASSUME NEW i \in 1..n - 1, NEW j \in 1..n - 1, t[i] = t[j] PROVE i = j
    BY <1>1 DEF Uniq
  <2>1. i + 1 \in DOMAIN q /\ j + 1 \in DOMAIN q /\ q[i + 1] = q[j + 1]
    BY <1>1, <1>2
  <2>2. i + 1 = j + 1
    BY <1>6, <2>1, Zenon DEF Uniq
  <2> QED
    BY <2>2
<1>7. ASSUME Uniq(q), NEW y PROVE InSeq(y, t) <=> InSeq(y, q) /\ y # q[1]
  <2>1. ASSUME NEW i \in 1..n - 1, t[i] = y PROVE y # q[1]
    <3>1. i + 1 \in DOMAIN q /\ 1 \in DOMAIN q /\ i + 1 # 1 /\ y = q[i + 1]
      BY <1>1, <1>2, <1>4, <2>1
    <3> QED
      BY <1>7, <3>1, Zenon DEF Uniq
  <2>2. ASSUME NEW i \in 1..n, q[i] = y, y # q[1] PROVE InSeq(y, t)
    <3>1. i - 1 \in 1..n - 1 /\ t[i - 1] = q[i]
      BY <1>1, <1>3, <2>2
    <3> QED
      BY <1>1, <2>2, <3>1 DEF InSeq
  <2>3. InSeq(y, t) => y # q[1]
    BY <1>1, <2>1 DEF InSeq
  <2>4. InSeq(y, q) /\ y # q[1] => InSeq(y, t)
    BY <1>1, <2>2 DEF InSeq
  <2> QED
    BY <1>5, <2>3, <2>4
<1>8. InSeq(q[1], q)
  BY <1>1, <1>4 DEF InSeq
<1> QED
  BY <1>1, <1>5, <1>6, <1>7, <1>8 DEF t

\* Nobody is in an empty queue.
LEMMA EmptyIn == Uniq(<<>>) /\ \A y : ~ InSeq(y, <<>>)
BY DEF Uniq, InSeq

\* lock(): p becomes the owner or the last in the queue.
LEMMA LockAdds ==
  ASSUME NEW L \in LockType, NEW m \in Mutexes, NEW p \in Procs,
         LockShape(L, m), ~ In(L, m, p)
  PROVE  /\ Lock(L, m, p) \in LockType
         /\ LockShape(Lock(L, m, p), m)
         /\ \A k \in Mutexes \ {m} : Lock(L, m, p)[k] = L[k]
         /\ \A x \in Procs : In(Lock(L, m, p), m, x) <=> In(L, m, x) \/ x = p
         /\ \A x \in Procs : InSeq(x, Lock(L, m, p)[m].queue) => InSeq(x, L[m].queue) \/ x = p
<1> DEFINE K == Lock(L, m, p)
<1>1. /\ L[m].owner \in Procs \cup {Null} /\ L[m].queue \in Seq(Procs)
      /\ p # Null /\ Null \notin Procs
  BY ChannelAssumption DEF LockType, Procs
<1>2. CASE L[m].owner = Null
  <2>1. K = [L EXCEPT ![m] = [owner |-> p, queue |-> <<>>]]
    BY <1>2 DEF Lock, LockType
  <2>2. L[m].queue = <<>>
    BY <1>2 DEF LockShape
  <2>3. [owner |-> p, queue |-> <<>>] \in [owner : Procs \cup {Null}, queue : Seq(Procs)]
    OBVIOUS
  <2>4. K \in LockType /\ K[m].owner = p /\ K[m].queue = <<>>
    BY <2>1, <2>3 DEF LockType
  <2>5. \A k \in Mutexes \ {m} : K[k] = L[k]
    BY <2>1 DEF LockType
  <2> HIDE DEF K
  <2>6. LockShape(K, m)
    BY <1>1, <2>4, EmptyIn DEF LockShape
  <2>7. \A x \in Procs : In(K, m, x) <=> In(L, m, x) \/ x = p
    BY <1>1, <1>2, <2>2, <2>4, EmptyIn DEF In
  <2>8. \A x \in Procs : InSeq(x, K[m].queue) => InSeq(x, L[m].queue) \/ x = p
    BY <2>4, EmptyIn
  <2> QED
    BY <2>4, <2>5, <2>6, <2>7, <2>8 DEF K
<1>3. CASE L[m].owner # Null
  <2>1. K = [L EXCEPT ![m] = [owner |-> L[m].owner, queue |-> Append(L[m].queue, p)]]
    BY <1>3 DEF Lock, LockType
  <2>2. Append(L[m].queue, p) \in Seq(Procs)
    BY <1>1
  <2>3. [owner |-> L[m].owner, queue |-> Append(L[m].queue, p)]
          \in [owner : Procs \cup {Null}, queue : Seq(Procs)]
    BY <1>1, <2>2
  <2>4. K \in LockType /\ K[m].owner = L[m].owner /\ K[m].queue = Append(L[m].queue, p)
    BY <2>1, <2>3 DEF LockType
  <2>5. \A k \in Mutexes \ {m} : K[k] = L[k]
    BY <2>1 DEF LockType
  <2>6. \A y : InSeq(y, K[m].queue) <=> InSeq(y, L[m].queue) \/ y = p
    BY <1>1, <2>4, AppendIn
  <2>7. Uniq(K[m].queue)
    BY <1>1, <2>4, AppendIn DEF LockShape, In
  <2> HIDE DEF K
  <2>8. LockShape(K, m)
    BY <1>3, <2>4, <2>6, <2>7 DEF LockShape, In
  <2>9. \A x \in Procs : In(K, m, x) <=> In(L, m, x) \/ x = p
    BY <2>4, <2>6 DEF In
  <2> QED
    BY <2>4, <2>5, <2>6, <2>8, <2>9 DEF K
<1> QED
  BY <1>2, <1>3

\* unlock(): the owner leaves, the first in the queue takes its place.
LEMMA UnlockRemoves ==
  ASSUME NEW L \in LockType, NEW m \in Mutexes, LockShape(L, m), L[m].owner \in Procs
  PROVE  /\ Unlock(L, m) \in LockType
         /\ LockShape(Unlock(L, m), m)
         /\ \A k \in Mutexes \ {m} : Unlock(L, m)[k] = L[k]
         /\ \A x \in Procs : In(Unlock(L, m), m, x) <=> In(L, m, x) /\ x # L[m].owner
         /\ \A x \in Procs : InSeq(x, Unlock(L, m)[m].queue) => InSeq(x, L[m].queue)
<1> DEFINE K == Unlock(L, m)
<1>1. L[m].queue \in Seq(Procs) /\ Null \notin Procs
  BY ChannelAssumption DEF LockType, Procs
<1>2. CASE L[m].queue = <<>>
  <2>1. K = [L EXCEPT ![m] = [owner |-> Null, queue |-> <<>>]]
    BY <1>2 DEF Unlock, LockType
  <2>2. [owner |-> Null, queue |-> <<>>] \in [owner : Procs \cup {Null}, queue : Seq(Procs)]
    OBVIOUS
  <2>3. K \in LockType /\ K[m].owner = Null /\ K[m].queue = <<>>
    BY <2>1, <2>2 DEF LockType
  <2>4. \A k \in Mutexes \ {m} : K[k] = L[k]
    BY <2>1 DEF LockType
  <2> QED
    BY <1>1, <1>2, <2>3, <2>4, EmptyIn DEF In, LockShape
<1>3. CASE L[m].queue # <<>>
  <2>1. K = [L EXCEPT ![m] = [owner |-> Head(L[m].queue), queue |-> Tail(L[m].queue)]]
    BY <1>3 DEF Unlock, LockType
  <2>2. /\ Head(L[m].queue) \in Procs /\ Tail(L[m].queue) \in Seq(Procs)
        /\ InSeq(Head(L[m].queue), L[m].queue) /\ Uniq(Tail(L[m].queue))
        /\ \A y : InSeq(y, Tail(L[m].queue)) <=> InSeq(y, L[m].queue) /\ y # Head(L[m].queue)
    BY <1>1, <1>3, TailIn DEF LockShape
  <2>3. [owner |-> Head(L[m].queue), queue |-> Tail(L[m].queue)]
          \in [owner : Procs \cup {Null}, queue : Seq(Procs)]
    BY <2>2
  <2>4. K \in LockType /\ K[m].owner = Head(L[m].queue) /\ K[m].queue = Tail(L[m].queue)
    BY <2>1, <2>3 DEF LockType
  <2>5. \A k \in Mutexes \ {m} : K[k] = L[k]
    BY <2>1 DEF LockType
  <2> HIDE DEF K
  <2>6. LockShape(K, m)
    BY <1>1, <2>2, <2>4 DEF LockShape
  <2>7. \A x \in Procs : In(K, m, x) <=> In(L, m, x) /\ x # L[m].owner
    BY <2>2, <2>4 DEF In, LockShape
  <2> QED
    BY <2>2, <2>4, <2>5, <2>6, <2>7 DEF K
<1> QED
  BY <1>2, <1>3

-----------------------------------------------------------------------------
\* The steps of a coroutine between locks and condition variables.

Points == {"idle", "outer", "body", "wait", "exit"} \cup Notify

Struct == /\ capacity \in Nat /\ home \in Homes
          /\ lock \in LockType /\ asleep \subseteq Procs /\ ListTypes
          /\ pc \in [Procs -> Points] /\ left \in [Procs -> Nat]
          /\ LocksOK /\ SleepersOK /\ ListsOK /\ HandsOK /\ PathsOK

\* Two procs on different sides.
LEMMA Disjoint == /\ Senders \subseteq Procs /\ Receivers \subseteq Procs
                  /\ Senders \cap Receivers = {} /\ Null \notin Procs
                  /\ \A p \in Procs : p \in Receivers <=> p \notin Senders
BY ChannelAssumption DEF Procs

\* The outer mutexes are not m_mtx.
LEMMA OuterIs ==
  ASSUME NEW p \in Procs
  PROVE  Outer(p) \in Mutexes /\ Outer(p) # "mtx"
BY DEF Outer, Mutexes

\* What sleepers wait for and notifiers notify.
LEMMA CvIs ==
  ASSUME NEW p \in Procs
  PROVE  CvOf(p) \in Cvs /\ Notified(p) \in Cvs
BY DEF CvOf, Notified, Cvs

\* Who is suspended is not in notify_one().
LEMMA NotifierAwake ==
  ASSUME Struct, NEW p \in Procs, pc[p] \in Notify
  PROVE  p \notin asleep /\ ~ InSeq(p, lock["mtx"].queue) /\ ~ InSeq(p, lock[Outer(p)].queue)
<1>1. p \notin asleep
  <2>1. SleepersOK
    BY DEF Struct
  <2> QED
    BY <2>1 DEF SleepersOK, Notify
<1>2. /\ InSeq(p, lock["mtx"].queue) => pc[p] \in {"body", "wait"}
      /\ InSeq(p, lock[Outer(p)].queue) => pc[p] = "outer"
  BY DEF Struct, LocksOK
<1> QED
  BY <1>1, <1>2 DEF Notify

\* Who runs in a section under m_mtx owns it.
LEMMA OwnsMtx ==
  ASSUME Struct, NEW p \in Procs, ~ Suspended(p), pc[p] \in {"body", "wait"}
  PROVE  lock["mtx"].owner = p
<1>1. Wants("mtx", p) /\ "mtx" \in Mutexes
  BY DEF Suspended, Wants, Mutexes
<1>2. In(lock, "mtx", p)
  BY <1>1 DEF Struct, LocksOK
<1> QED
  BY <1>1, <1>2 DEF In, Suspended

\* A receiver that notifies under m_match_mtx owns it.
LEMMA OwnsMatch ==
  ASSUME Struct, capacity = 0, NEW p \in Receivers, pc[p] \in Notify
  PROVE  lock["mtx"].owner = p
<1>1. p \in Procs /\ Wants("mtx", p) /\ "mtx" \in Mutexes
  BY Disjoint DEF Wants, Mutexes
<1>2. In(lock, "mtx", p)
  BY <1>1 DEF Struct, LocksOK
<1> QED
  BY <1>1, <1>2, NotifierAwake DEF In

\* The lists and the sleepers are not concerned by a step of p elsewhere.
LEMMA ListsAway ==
  ASSUME Struct, NEW p \in Procs, NEW to \in Points,
         pc[p] \notin {"splice", "register"}, to \notin {"splice", "register"},
         p \notin asleep,
         pc' = [pc EXCEPT ![p] = to], UNCHANGED <<capacity, asleep, lists>>
  PROVE  asleep' \subseteq Procs /\ ListTypes' /\ SleepersOK' /\ ListsOK' /\ HandsOK'
<1>1. /\ pc \in [Procs -> Points] /\ asleep \subseteq Procs /\ ListTypes
      /\ SleepersOK /\ ListsOK /\ HandsOK
  BY DEF Struct
<1>2. \A x \in Procs : pc'[x] = IF x = p THEN to ELSE pc[x]
  BY <1>1
<1>3. UNCHANGED <<arrivals, to_resume, severed, taken>>
  BY DEF lists
<1>4. SleepersOK'
  BY <1>1, <1>2 DEF SleepersOK
<1>5. HandsOK'
  BY <1>1, <1>2, <1>3 DEF HandsOK
<1>6. ListTypes'
  BY <1>1, <1>3 DEF ListTypes
<1>7. ListsOK'
  BY <1>1, <1>3 DEF ListsOK, CvOf, Notified
<1> QED
  BY <1>1, <1>4, <1>5, <1>6, <1>7

\* Begin, LockOuter, LockMatch: p queues up for m.
LEMMA Enters ==
  ASSUME Struct, NEW p \in Procs, NEW m \in Mutexes, NEW to \in {"outer", "body"},
         ~ Suspended(p), left[p] > 0,
         \/ capacity > 0 /\ pc[p] = "idle" /\ m = "mtx" /\ to = "body"
         \/ capacity = 0 /\ pc[p] = "idle" /\ m = Outer(p) /\ to = "outer"
         \/ pc[p] = "outer" /\ m = "mtx" /\ to = "body",
         lock' = Lock(lock, m, p), pc' = [pc EXCEPT ![p] = to],
         UNCHANGED <<capacity, asleep, lists, left, home>>
  PROVE  Struct'
<1>1. /\ capacity \in Nat /\ lock \in LockType /\ home \in Homes
      /\ pc \in [Procs -> Points] /\ left \in [Procs -> Nat] /\ LocksOK /\ PathsOK
  BY DEF Struct
<1>2. pc' \in [Procs -> Points] /\ \A x \in Procs : pc'[x] = IF x = p THEN to ELSE pc[x]
  BY <1>1 DEF Points
<1>a. pc[p] \in {"idle", "outer"} /\ pc[p] \notin Notify /\ to \notin Notify
  BY DEF Notify
<1>3. ~ Wants(m, p)
  BY <1>a, OuterIs DEF Wants
<1>4. LockShape(lock, m) /\ ~ In(lock, m, p)
  BY <1>1, <1>3 DEF LocksOK
<1>5. /\ lock' \in LockType /\ LockShape(lock', m)
      /\ \A k \in Mutexes \ {m} : lock'[k] = lock[k]
      /\ \A x \in Procs : In(lock', m, x) <=> In(lock, m, x) \/ x = p
      /\ \A x \in Procs : InSeq(x, lock'[m].queue) => InSeq(x, lock[m].queue) \/ x = p
  BY <1>1, <1>4, LockAdds
<1>6. \A k \in Mutexes : LockShape(lock', k)
  BY <1>1, <1>5 DEF LocksOK, LockShape
<1>7. ASSUME NEW k \in Mutexes, NEW x \in Procs PROVE In(lock', k, x) <=> Wants(k, x)'
  <2>1. In(lock, k, x) <=> Wants(k, x)
    BY <1>1 DEF LocksOK
  <2>2. CASE x # p
    <3>1. Wants(k, x)' <=> Wants(k, x)
      BY <1>2, <2>2 DEF Wants, Outer
    <3>2. In(lock', k, x) <=> In(lock, k, x)
      BY <1>5, <2>2 DEF In
    <3> QED
      BY <2>1, <3>1, <3>2
  <2>3. CASE x = p /\ k = m
    <3>1. Wants(m, p)'
      BY <1>2, OuterIs DEF Wants, Suspended, Outer
    <3> QED
      BY <1>5, <2>3, <3>1
  <2>4. CASE x = p /\ k # m
    <3>1. Wants(k, p)' <=> Wants(k, p)
      BY <1>2, <1>a, <2>4, OuterIs DEF Wants, Outer
    <3>2. In(lock', k, x) <=> In(lock, k, x)
      BY <1>5, <2>4 DEF In
    <3> QED
      BY <2>1, <2>4, <3>1, <3>2
  <2> QED
    BY <2>2, <2>3, <2>4
<1>8. ASSUME NEW x \in Procs, NEW k \in Mutexes, InSeq(x, lock'[k].queue)
      PROVE  (x # p /\ InSeq(x, lock[k].queue)) \/ (x = p /\ k = m)
  <2>1. InSeq(x, lock[k].queue) \/ (x = p /\ k = m)
    <3>1. CASE k = m
      BY <1>5, <1>8, <3>1
    <3>2. CASE k # m
      BY <1>5, <1>8, <3>2
    <3> QED
      BY <3>1, <3>2
  <2>2. InSeq(x, lock[k].queue) => x # p
    BY DEF Suspended
  <2> QED
    BY <2>1, <2>2
<1>9. ASSUME NEW x \in Procs
      PROVE  /\ InSeq(x, lock'[Outer(x)].queue) => pc'[x] = "outer"
             /\ InSeq(x, lock'["mtx"].queue) => pc'[x] \in {"body", "wait"}
  <2>1. "mtx" \in Mutexes /\ Outer(x) \in Mutexes /\ Outer(x) # "mtx"
    BY OuterIs DEF Mutexes
  <2>2. /\ InSeq(x, lock[Outer(x)].queue) => pc[x] = "outer"
        /\ InSeq(x, lock["mtx"].queue) => pc[x] \in {"body", "wait"}
    BY <1>1 DEF LocksOK
  <2>3. InSeq(x, lock'[Outer(x)].queue) => pc'[x] = "outer"
    BY <1>2, <1>8, <2>1, <2>2
  <2>4. InSeq(x, lock'["mtx"].queue) => pc'[x] \in {"body", "wait"}
    BY <1>2, <1>8, <2>1, <2>2, OuterIs
  <2> QED
    BY <2>3, <2>4
<1>10. LocksOK'
  BY <1>6, <1>7, <1>9 DEF LocksOK, Outer
<1>11. PathsOK'
  BY <1>1, <1>2 DEF PathsOK
<1>12. asleep' \subseteq Procs /\ ListTypes' /\ SleepersOK' /\ ListsOK' /\ HandsOK'
  <2>1. /\ pc[p] \notin {"splice", "register"} /\ to \notin {"splice", "register"} /\ to \in Points
        /\ p \notin asleep
    BY <1>a DEF Notify, Points, Suspended
  <2> QED
    BY <2>1, ListsAway
<1> QED
  BY <1>1, <1>2, <1>5, <1>10, <1>11, <1>12 DEF Struct

\* Unlocking m_mtx: who is in a queue was there before.
LEMMA UnlockQueues ==
  ASSUME Struct, NEW p \in Procs, ~ Suspended(p),
         \A k \in Mutexes : \A x \in Procs : InSeq(x, lock'[k].queue) => InSeq(x, lock[k].queue),
         \A x \in Procs : x # p => pc'[x] = pc[x]
  PROVE  \A x \in Procs : /\ InSeq(x, lock'[Outer(x)].queue) => pc'[x] = "outer"
                          /\ InSeq(x, lock'["mtx"].queue) => pc'[x] \in {"body", "wait"}
<1> SUFFICES ASSUME NEW x \in Procs
             PROVE  /\ InSeq(x, lock'[Outer(x)].queue) => pc'[x] = "outer"
                    /\ InSeq(x, lock'["mtx"].queue) => pc'[x] \in {"body", "wait"}
  OBVIOUS
<1>1. "mtx" \in Mutexes /\ Outer(x) \in Mutexes
  BY OuterIs DEF Mutexes
<1>2. /\ InSeq(x, lock[Outer(x)].queue) => pc[x] = "outer"
      /\ InSeq(x, lock["mtx"].queue) => pc[x] \in {"body", "wait"}
  BY DEF Struct, LocksOK
<1>3. InSeq(x, lock[Outer(x)].queue) \/ InSeq(x, lock["mtx"].queue) => x # p
  BY <1>1 DEF Suspended
<1> QED
  BY <1>1, <1>2, <1>3

\* Release, Acquire, Fill, Take: p leaves the section under m_mtx.
LEMMA Leaves ==
  ASSUME Struct, NEW p \in Procs, NEW to \in {"notify", "exit"},
         ~ Suspended(p), pc[p] \in {"body", "wait"}, capacity > 0 => to = "notify",
         capacity = 0 /\ to = "notify" => p \in Senders,
         lock' = Unlock(lock, "mtx"), pc' = [pc EXCEPT ![p] = to],
         UNCHANGED <<capacity, asleep, lists, left, home>>
  PROVE  Struct'
<1>1. /\ capacity \in Nat /\ lock \in LockType /\ home \in Homes
      /\ pc \in [Procs -> Points] /\ left \in [Procs -> Nat] /\ LocksOK /\ PathsOK
  BY DEF Struct
<1>2. pc' \in [Procs -> Points] /\ \A x \in Procs : pc'[x] = IF x = p THEN to ELSE pc[x]
  BY <1>1 DEF Points, Notify
<1>3. "mtx" \in Mutexes /\ LockShape(lock, "mtx") /\ lock["mtx"].owner = p
  BY <1>1, OwnsMtx DEF LocksOK, Mutexes
<1>4. /\ lock' \in LockType /\ LockShape(lock', "mtx")
      /\ \A k \in Mutexes \ {"mtx"} : lock'[k] = lock[k]
      /\ \A x \in Procs : In(lock', "mtx", x) <=> In(lock, "mtx", x) /\ x # p
      /\ \A x \in Procs : InSeq(x, lock'["mtx"].queue) => InSeq(x, lock["mtx"].queue)
  BY <1>1, <1>3, UnlockRemoves
<1>5. \A k \in Mutexes : LockShape(lock', k)
  BY <1>1, <1>4 DEF LocksOK, LockShape
<1>a. ~ Wants("mtx", p)'
  BY <1>2, Disjoint DEF Wants, Notify
<1>6. ASSUME NEW k \in Mutexes, NEW x \in Procs PROVE In(lock', k, x) <=> Wants(k, x)'
  <2>1. In(lock, k, x) <=> Wants(k, x)
    BY <1>1 DEF LocksOK
  <2>2. CASE k = "mtx" /\ x = p
    BY <1>4, <1>a, <2>2
  <2>3. CASE k = "mtx" /\ x # p
    BY <1>2, <1>4, <2>1, <2>3 DEF Wants
  <2>4. CASE k # "mtx"
    BY <1>2, <1>4, <2>1, <2>4 DEF Wants, Outer, In
  <2> QED
    BY <2>2, <2>3, <2>4
<1>7. \A x \in Procs : /\ InSeq(x, lock'[Outer(x)].queue) => pc'[x] = "outer"
                       /\ InSeq(x, lock'["mtx"].queue) => pc'[x] \in {"body", "wait"}
  <2>1. \A k \in Mutexes : \A x \in Procs : InSeq(x, lock'[k].queue) => InSeq(x, lock[k].queue)
    BY <1>4
  <2> QED
    BY <1>2, <2>1, UnlockQueues
<1>8. LocksOK'
  BY <1>5, <1>6, <1>7 DEF LocksOK, Outer
<1>9. PathsOK'
  BY <1>1, <1>2 DEF PathsOK, Notify
<1>10. asleep' \subseteq Procs /\ ListTypes' /\ SleepersOK' /\ ListsOK' /\ HandsOK'
  <2>1. /\ pc[p] \notin {"splice", "register"} /\ to \notin {"splice", "register"} /\ to \in Points
        /\ p \notin asleep
    BY DEF Notify, Points, Suspended
  <2> QED
    BY <2>1, ListsAway
<1> QED
  BY <1>1, <1>2, <1>4, <1>8, <1>9, <1>10 DEF Struct

\* UnlockOuter: p leaves the channel.
LEMMA LeavesOuter ==
  ASSUME Struct, NEW p \in Procs, ~ Suspended(p), pc[p] = "exit",
         lock' = Unlock(lock, Outer(p)), pc' = [pc EXCEPT ![p] = "idle"],
         left' = [left EXCEPT ![p] = @ - 1],
         UNCHANGED <<capacity, asleep, lists, home>>
  PROVE  Struct'
<1> DEFINE m == Outer(p)
<1>1. /\ capacity \in Nat /\ lock \in LockType /\ home \in Homes
      /\ pc \in [Procs -> Points] /\ left \in [Procs -> Nat] /\ LocksOK /\ PathsOK
  BY DEF Struct
<1>2. pc' \in [Procs -> Points] /\ \A x \in Procs : pc'[x] = IF x = p THEN "idle" ELSE pc[x]
  BY <1>1 DEF Points
<1>3. left[p] > 0 /\ left' \in [Procs -> Nat] /\ \A x \in Procs : x # p => left'[x] = left[x]
  BY <1>1 DEF PathsOK
<1>4. m \in Mutexes /\ m # "mtx" /\ capacity = 0
  BY <1>1, OuterIs DEF PathsOK, Notify
<1>5. In(lock, m, p)
  BY <1>1, <1>4 DEF LocksOK, Wants
<1>6. lock[m].owner = p /\ LockShape(lock, m)
  BY <1>1, <1>4, <1>5 DEF LocksOK, In, Suspended
<1>7. /\ lock' \in LockType /\ LockShape(lock', m)
      /\ \A k \in Mutexes \ {m} : lock'[k] = lock[k]
      /\ \A x \in Procs : In(lock', m, x) <=> In(lock, m, x) /\ x # p
      /\ \A x \in Procs : InSeq(x, lock'[m].queue) => InSeq(x, lock[m].queue)
  BY <1>1, <1>4, <1>6, UnlockRemoves
<1> HIDE DEF m
<1>8. \A k \in Mutexes : LockShape(lock', k)
  BY <1>1, <1>7 DEF LocksOK, LockShape
<1>9. ASSUME NEW k \in Mutexes, NEW x \in Procs PROVE In(lock', k, x) <=> Wants(k, x)'
  <2>1. In(lock, k, x) <=> Wants(k, x)
    BY <1>1 DEF LocksOK
  <2>2. CASE x # p
    <3>1. Wants(k, x)' <=> Wants(k, x)
      BY <1>2, <2>2 DEF Wants, Outer
    <3>2. In(lock', k, x) <=> In(lock, k, x)
      BY <1>7, <2>2 DEF In
    <3> QED
      BY <2>1, <3>1, <3>2
  <2>3. CASE x = p
    <3>1. ~ Wants(k, p)'
      BY <1>2 DEF Wants, Notify
    <3>2. CASE k = m
      BY <1>7, <2>3, <3>1, <3>2
    <3>3. CASE k # m
      <4>1. ~ Wants(k, p)
        BY <3>3 DEF Wants, m, Notify
      <4> QED
        BY <1>7, <2>1, <2>3, <3>1, <3>3, <4>1 DEF In
    <3> QED
      BY <3>2, <3>3
  <2> QED
    BY <2>2, <2>3
<1>10. \A x \in Procs : /\ InSeq(x, lock'[Outer(x)].queue) => pc'[x] = "outer"
                        /\ InSeq(x, lock'["mtx"].queue) => pc'[x] \in {"body", "wait"}
  <2>1. \A k \in Mutexes : \A x \in Procs : InSeq(x, lock'[k].queue) => InSeq(x, lock[k].queue)
    BY <1>7
  <2> QED
    BY <1>2, <2>1, UnlockQueues
<1>11. LocksOK'
  BY <1>8, <1>9, <1>10 DEF LocksOK, Outer
<1>12. PathsOK'
  BY <1>1, <1>2, <1>3 DEF PathsOK
<1>13. asleep' \subseteq Procs /\ ListTypes' /\ SleepersOK' /\ ListsOK' /\ HandsOK'
  <2>1. /\ pc[p] \notin {"splice", "register"} /\ "idle" \notin {"splice", "register"}
        /\ "idle" \in Points /\ p \notin asleep
    BY DEF Points, Suspended
  <2> QED
    BY <2>1, ListsAway
<1> QED
  BY <1>1, <1>2, <1>3, <1>7, <1>11, <1>12, <1>13 DEF Struct

\* ReleaseFull, AcquireEmpty, Announce, AwaitMatch: p goes to sleep on v.
LEMMA Sleeps ==
  ASSUME Struct, NEW p \in Procs, NEW v \in Cvs, NEW to \in {"body", "wait"},
         ~ Suspended(p), pc[p] \in {"body", "wait"},
         v = CvOf(p), to = IF capacity = 0 THEN "wait" ELSE "body",
         Wait(v, p), pc' = [pc EXCEPT ![p] = to],
         UNCHANGED <<capacity, left, home>>
  PROVE  Struct'
<1>1. /\ capacity \in Nat /\ lock \in LockType /\ home \in Homes /\ asleep \subseteq Procs
      /\ ListTypes /\ pc \in [Procs -> Points] /\ left \in [Procs -> Nat]
      /\ LocksOK /\ SleepersOK /\ ListsOK /\ HandsOK /\ PathsOK
  BY DEF Struct
<1>2. pc' \in [Procs -> Points] /\ \A x \in Procs : pc'[x] = IF x = p THEN to ELSE pc[x]
  BY <1>1 DEF Points
<1>3. "mtx" \in Mutexes /\ LockShape(lock, "mtx") /\ lock["mtx"].owner = p
  BY <1>1, OwnsMtx DEF LocksOK, Mutexes
<1>4. /\ lock' \in LockType /\ LockShape(lock', "mtx")
      /\ \A k \in Mutexes \ {"mtx"} : lock'[k] = lock[k]
      /\ \A x \in Procs : In(lock', "mtx", x) <=> In(lock, "mtx", x) /\ x # p
      /\ \A x \in Procs : InSeq(x, lock'["mtx"].queue) => InSeq(x, lock["mtx"].queue)
  BY <1>1, <1>3, UnlockRemoves DEF Wait
<1>5. /\ asleep' = asleep \cup {p} /\ p \notin asleep
      /\ UNCHANGED <<to_resume, severed, taken>>
  BY DEF Wait, Suspended
<1>6. /\ arrivals' \in [Cvs -> Seq(Procs)] /\ arrivals'[v] = Append(arrivals[v], p)
      /\ \A u \in Cvs \ {v} : arrivals'[u] = arrivals[u]
  BY <1>1 DEF Wait, ListTypes
<1>7. /\ \A y : InSeq(y, arrivals'[v]) <=> InSeq(y, arrivals[v]) \/ y = p
      /\ Uniq(arrivals'[v])
  <2>1. arrivals[v] \in Seq(Procs) /\ Uniq(arrivals[v]) /\ ~ InSeq(p, arrivals[v])
    BY <1>1, <1>5 DEF ListsOK, ListTypes
  <2> QED
    BY <1>6, <2>1, AppendIn
<1>8. \A k \in Mutexes : LockShape(lock', k)
  BY <1>1, <1>4 DEF LocksOK, LockShape
<1>9. ASSUME NEW k \in Mutexes, NEW x \in Procs PROVE In(lock', k, x) <=> Wants(k, x)'
  <2>1. In(lock, k, x) <=> Wants(k, x)
    BY <1>1 DEF LocksOK
  <2>2. CASE k = "mtx" /\ x = p
    BY <1>2, <1>4, <1>5, <2>2 DEF Wants, Notify
  <2>3. CASE k = "mtx" /\ x # p
    BY <1>2, <1>4, <1>5, <2>1, <2>3 DEF Wants
  <2>4. CASE k # "mtx"
    BY <1>2, <1>4, <2>1, <2>4 DEF Wants, Outer, In
  <2> QED
    BY <2>2, <2>3, <2>4
<1>10. \A x \in Procs : /\ InSeq(x, lock'[Outer(x)].queue) => pc'[x] = "outer"
                        /\ InSeq(x, lock'["mtx"].queue) => pc'[x] \in {"body", "wait"}
  <2>1. \A k \in Mutexes : \A x \in Procs : InSeq(x, lock'[k].queue) => InSeq(x, lock[k].queue)
    BY <1>4
  <2> QED
    BY <1>2, <2>1, UnlockQueues
<1>11. LocksOK'
  BY <1>8, <1>9, <1>10 DEF LocksOK, Outer
<1>12. SleepersOK'
  BY <1>1, <1>2, <1>5 DEF SleepersOK
<1>13. HandsOK'
  BY <1>1, <1>2, <1>5 DEF HandsOK
<1>14. PathsOK'
  BY <1>1, <1>2 DEF PathsOK
<1>15. ListsOK'
  <2>1. /\ \A u \in Cvs : ~ InSeq(p, arrivals[u]) /\ ~ InSeq(p, to_resume[u])
        /\ \A q \in Procs : ~ InSeq(p, taken[q])
    BY <1>1, <1>5 DEF ListsOK
  <2>2. \A x : CvOf(x)' = CvOf(x) /\ Notified(x)' = Notified(x)
    BY DEF CvOf, Notified
  <2>3. \A u \in Cvs : Uniq(arrivals'[u]) /\ Uniq(to_resume'[u])
    BY <1>1, <1>5, <1>6, <1>7 DEF ListsOK
  <2>4. ASSUME NEW x, NEW u \in Cvs, InSeq(x, arrivals'[u])
        PROVE  x \in asleep' /\ CvOf(x)' = u /\ ~ InSeq(x, to_resume'[u])
    <3>1. CASE InSeq(x, arrivals[u])
      BY <1>1, <1>5, <2>2, <3>1 DEF ListsOK
    <3>2. CASE u = v /\ x = p
      BY <1>5, <2>1, <2>2, <3>2
    <3> QED
      BY <1>6, <1>7, <2>4, <3>1, <3>2
  <2>5. ASSUME NEW x, NEW u \in Cvs, InSeq(x, to_resume'[u])
        PROVE  x \in asleep' /\ CvOf(x)' = u
    BY <1>1, <1>5, <2>2, <2>5 DEF ListsOK
  <2>6. ASSUME NEW x, NEW q \in Procs, InSeq(x, taken'[q])
        PROVE  /\ x \in asleep' /\ CvOf(x)' = Notified(q)'
               /\ ~ InSeq(x, arrivals'[Notified(q)']) /\ ~ InSeq(x, to_resume'[Notified(q)'])
               /\ \A y \in Procs : InSeq(x, taken'[y]) => y = q
    <3>1. /\ InSeq(x, taken[q]) /\ x # p /\ Notified(q) \in Cvs
      BY <1>5, <2>1, <2>6, CvIs
    <3>2. ~ InSeq(x, arrivals'[Notified(q)])
      BY <1>1, <1>6, <1>7, <3>1 DEF ListsOK
    <3> QED
      BY <1>1, <1>5, <2>2, <3>1, <3>2 DEF ListsOK
  <2> QED
    BY <1>1, <1>5, <2>3, <2>4, <2>5, <2>6 DEF ListsOK
<1>16. ListTypes' /\ asleep' \subseteq Procs
  BY <1>1, <1>5, <1>6 DEF ListTypes
<1> QED
  BY <1>1, <1>2, <1>4, <1>11, <1>12, <1>13, <1>14, <1>15, <1>16 DEF Struct

\* What notify_one() does to the lists: it moves awaiters between the two of v and
\* the hands of p, and lets them out of there.
ListMove(p, v) ==
  /\ ListTypes'
  /\ \A u \in Cvs \ {v} : arrivals'[u] = arrivals[u] /\ to_resume'[u] = to_resume[u]
  /\ \A q \in Procs \ {p} : taken'[q] = taken[q]
  /\ Uniq(arrivals'[v]) /\ Uniq(to_resume'[v]) /\ Uniq(taken'[p])
  /\ \A x : /\ InSeq(x, arrivals'[v]) => InSeq(x, arrivals[v])
            /\ InSeq(x, to_resume'[v]) => \/ InSeq(x, to_resume[v])
                                          \/ InSeq(x, taken[p]) \/ InSeq(x, arrivals[v])
            /\ InSeq(x, taken'[p]) => \/ InSeq(x, to_resume[v])
                                      \/ InSeq(x, taken[p]) \/ InSeq(x, arrivals[v])
            /\ ~ (InSeq(x, arrivals'[v]) /\ InSeq(x, to_resume'[v]))
            /\ ~ (InSeq(x, arrivals'[v]) /\ InSeq(x, taken'[p]))
            /\ ~ (InSeq(x, to_resume'[v]) /\ InSeq(x, taken'[p]))

\* Such a move keeps everybody in one list, if who is let out is awake.
LEMMA ListMoves ==
  ASSUME Struct, NEW p \in Procs, NEW v \in Cvs, v = Notified(p), ListMove(p, v),
         UNCHANGED capacity, asleep' \subseteq asleep,
         \A x \in asleep \ asleep' : /\ InSeq(x, taken[p]) /\ ~ InSeq(x, arrivals'[v])
                                     /\ ~ InSeq(x, to_resume'[v]) /\ ~ InSeq(x, taken'[p])
  PROVE  ListsOK'
<1>1. ListsOK
  BY DEF Struct
<1>2. \A x : CvOf(x)' = CvOf(x) /\ Notified(x)' = Notified(x)
  BY DEF CvOf, Notified
<1>3. \A x : InSeq(x, arrivals[v]) \/ InSeq(x, to_resume[v]) \/ InSeq(x, taken[p])
               => /\ x \in asleep /\ CvOf(x) = v
                  /\ \A q \in Procs \ {p} : ~ InSeq(x, taken[q])
  <2> SUFFICES ASSUME NEW x, InSeq(x, arrivals[v]) \/ InSeq(x, to_resume[v]) \/ InSeq(x, taken[p])
               PROVE  /\ x \in asleep /\ CvOf(x) = v
                      /\ \A q \in Procs \ {p} : ~ InSeq(x, taken[q])
    OBVIOUS
  <2>1. x \in asleep /\ CvOf(x) = v
    BY <1>1 DEF ListsOK
  <2>2. ASSUME NEW q \in Procs \ {p}, InSeq(x, taken[q]) PROVE FALSE
    <3>1. v = Notified(q)
      BY <1>1, <2>1, <2>2 DEF ListsOK
    <3>2. ~ InSeq(x, arrivals[v]) /\ ~ InSeq(x, to_resume[v]) /\ ~ InSeq(x, taken[p])
      BY <1>1, <2>2, <3>1 DEF ListsOK
    <3> QED
      BY <3>2
  <2> QED
    BY <2>1, <2>2
<1>4. \A x : InSeq(x, arrivals'[v]) \/ InSeq(x, to_resume'[v]) \/ InSeq(x, taken'[p])
               => /\ x \in asleep' /\ CvOf(x)' = v
                  /\ \A q \in Procs \ {p} : ~ InSeq(x, taken'[q])
  <2> SUFFICES ASSUME NEW x,
                      InSeq(x, arrivals'[v]) \/ InSeq(x, to_resume'[v]) \/ InSeq(x, taken'[p])
               PROVE  /\ x \in asleep' /\ CvOf(x)' = v
                      /\ \A q \in Procs \ {p} : ~ InSeq(x, taken'[q])
    OBVIOUS
  <2>1. InSeq(x, arrivals[v]) \/ InSeq(x, to_resume[v]) \/ InSeq(x, taken[p])
    BY DEF ListMove
  <2>2. x \in asleep /\ CvOf(x) = v /\ \A q \in Procs \ {p} : ~ InSeq(x, taken[q])
    BY <1>3, <2>1, Zenon
  <2>3. x \in asleep'
    BY <2>2
  <2>4. \A q \in Procs \ {p} : taken'[q] = taken[q]
    BY DEF ListMove
  <2> QED
    BY <1>2, <2>2, <2>3, <2>4
<1>5. \A x \in asleep \ asleep' : /\ CvOf(x) = v /\ \A q \in Procs \ {p} : ~ InSeq(x, taken[q])
                                  /\ \A u \in Cvs \ {v} : /\ ~ InSeq(x, arrivals[u])
                                                          /\ ~ InSeq(x, to_resume[u])
  BY <1>1, <1>3 DEF ListsOK
<1>6. /\ \A u \in Cvs \ {v} : arrivals'[u] = arrivals[u] /\ to_resume'[u] = to_resume[u]
      /\ \A q \in Procs \ {p} : taken'[q] = taken[q]
      /\ Uniq(arrivals'[v]) /\ Uniq(to_resume'[v]) /\ Uniq(taken'[p])
  BY DEF ListMove
<1>7. \A x : /\ ~ (InSeq(x, arrivals'[v]) /\ InSeq(x, to_resume'[v]))
             /\ ~ (InSeq(x, arrivals'[v]) /\ InSeq(x, taken'[p]))
             /\ ~ (InSeq(x, to_resume'[v]) /\ InSeq(x, taken'[p]))
  BY DEF ListMove
<1>8. /\ \A u \in Cvs : Uniq(arrivals'[u]) /\ Uniq(to_resume'[u])
      /\ \A q \in Procs : Uniq(taken'[q])
  BY <1>1, <1>6 DEF ListsOK
<1>9. ASSUME NEW x, NEW u \in Cvs, InSeq(x, arrivals'[u])
      PROVE  x \in asleep' /\ CvOf(x)' = u /\ ~ InSeq(x, to_resume'[u])
  <2>1. CASE u = v
    BY <1>4, <1>7, <1>9, <2>1
  <2>2. CASE u # v
    <3>1. InSeq(x, arrivals[u])
      BY <1>6, <1>9, <2>2
    <3>2. x \in asleep /\ CvOf(x) = u /\ ~ InSeq(x, to_resume[u])
      BY <1>1, <3>1 DEF ListsOK
    <3> QED
      BY <1>2, <1>5, <1>6, <2>2, <3>1, <3>2
  <2> QED
    BY <2>1, <2>2
<1>10. ASSUME NEW x, NEW u \in Cvs, InSeq(x, to_resume'[u])
       PROVE  x \in asleep' /\ CvOf(x)' = u
  <2>1. CASE u = v
    BY <1>4, <1>10, <2>1
  <2>2. CASE u # v
    <3>1. InSeq(x, to_resume[u])
      BY <1>6, <1>10, <2>2
    <3>2. x \in asleep /\ CvOf(x) = u
      BY <1>1, <3>1 DEF ListsOK
    <3> QED
      BY <1>2, <1>5, <2>2, <3>1, <3>2
  <2> QED
    BY <2>1, <2>2
<1>11. ASSUME NEW x, NEW q \in Procs, InSeq(x, taken'[q])
       PROVE  /\ x \in asleep' /\ CvOf(x)' = Notified(q)'
              /\ ~ InSeq(x, arrivals'[Notified(q)']) /\ ~ InSeq(x, to_resume'[Notified(q)'])
              /\ \A y \in Procs : InSeq(x, taken'[y]) => y = q
  <2>1. CASE q = p
    BY <1>2, <1>4, <1>7, <1>11, <2>1
  <2>2. CASE q # p
    <3>1. InSeq(x, taken[q])
      BY <1>6, <1>11, <2>2
    <3>2. /\ x \in asleep /\ CvOf(x) = Notified(q)
          /\ ~ InSeq(x, arrivals[Notified(q)]) /\ ~ InSeq(x, to_resume[Notified(q)])
          /\ \A y \in Procs : InSeq(x, taken[y]) => y = q
      BY <1>1, <3>1 DEF ListsOK
    <3>3. ~ InSeq(x, arrivals'[v]) /\ ~ InSeq(x, to_resume'[v]) /\ ~ InSeq(x, taken'[p])
      BY <1>4, <1>11, <2>2
    <3>4. x \in asleep'
      BY <1>5, <2>2, <3>1, <3>2
    <3>5. ~ InSeq(x, arrivals'[Notified(q)]) /\ ~ InSeq(x, to_resume'[Notified(q)])
      BY <1>6, <3>2, <3>3, CvIs
    <3>6. \A y \in Procs : InSeq(x, taken'[y]) => y = q
      BY <1>6, <3>2, <3>3
    <3> QED
      BY <1>2, <3>2, <3>4, <3>5, <3>6
  <2> QED
    BY <2>1, <2>2
<1> QED
  BY <1>8, <1>9, <1>10, <1>11, Zenon DEF ListsOK

\* Where a step of p in notify_one() leads: on there, or back from it.
GoesOn(p, to) ==
  /\ \/ to \in Notify
     \/ to = "idle" /\ capacity > 0
     \/ to = "exit" /\ capacity = 0 /\ p \in Senders
     \/ to = "wait" /\ capacity = 0 /\ p \in Receivers
  /\ pc' = [pc EXCEPT ![p] = to]
  /\ left' = IF to = "idle" THEN [left EXCEPT ![p] = @ - 1] ELSE left

\* Such a step; perhaps h is let out, registered on the mutex.
LEMMA Notifies ==
  ASSUME Struct, NEW p \in Procs, NEW to \in Points, pc[p] \in Notify, GoesOn(p, to),
         UNCHANGED <<capacity, home>>,
         ListTypes', ListsOK', HandsOK',
         \/ UNCHANGED <<asleep, lock>>
         \/ \E h \in asleep : asleep' = asleep \ {h} /\ lock' = Lock(lock, "mtx", h)
  PROVE  Struct'
<1>1. /\ capacity \in Nat /\ lock \in LockType /\ home \in Homes /\ asleep \subseteq Procs
      /\ pc \in [Procs -> Points] /\ left \in [Procs -> Nat]
      /\ LocksOK /\ SleepersOK /\ PathsOK
  BY DEF Struct
<1>2. pc' \in [Procs -> Points] /\ \A x \in Procs : pc'[x] = IF x = p THEN to ELSE pc[x]
  BY <1>1 DEF GoesOn
<1>a. /\ \/ to \in Notify
         \/ to = "idle" /\ capacity > 0
         \/ to = "exit" /\ capacity = 0 /\ p \in Senders
         \/ to = "wait" /\ capacity = 0 /\ p \in Receivers
      /\ left' = IF to = "idle" THEN [left EXCEPT ![p] = @ - 1] ELSE left
  BY DEF GoesOn
<1>3. /\ left[p] > 0 /\ left' \in [Procs -> Nat]
      /\ \A x \in Procs : x # p \/ to # "idle" => left'[x] = left[x]
  <2>1. left[p] > 0
    BY <1>1 DEF PathsOK, Notify
  <2>2. CASE to = "idle"
    BY <1>1, <1>a, <2>1, <2>2
  <2>3. CASE to # "idle"
    BY <1>1, <1>a, <2>1, <2>3
  <2> QED
    BY <2>2, <2>3
<1>4. PathsOK'
  BY <1>1, <1>2, <1>3, <1>a DEF PathsOK, Notify
<1>5. /\ p \notin asleep /\ p \notin asleep' /\ ~ InSeq(p, lock["mtx"].queue)
      /\ ~ InSeq(p, lock[Outer(p)].queue) /\ asleep' \subseteq asleep
  BY NotifierAwake
<1>6. SleepersOK'
  BY <1>1, <1>2, <1>5 DEF SleepersOK
<1>7. \A k \in Mutexes : Wants(k, p)' <=> Wants(k, p)
  <2>1. ASSUME NEW k \in Mutexes, k # "mtx" PROVE Wants(k, p)' <=> Wants(k, p)
    <3>1. capacity = 0 => pc[p] # "idle" /\ to # "idle"
      BY <1>a DEF Notify
    <3> QED
      BY <1>2, <2>1, <3>1 DEF Wants, Outer
  <2>2. Wants("mtx", p)' <=> Wants("mtx", p)
    <3>1. Wants("mtx", p) <=> capacity = 0 /\ p \in Receivers
      BY DEF Wants, Notify
    <3>2. Wants("mtx", p)' <=> \/ to \in {"body", "wait"}
                               \/ capacity = 0 /\ p \in Receivers /\ to \in Notify
      BY <1>2, <1>5 DEF Wants
    <3> QED
      BY <1>1, <1>a, <3>1, <3>2, Disjoint DEF Notify
  <2> QED
    BY <2>1, <2>2
<1>8. CASE UNCHANGED <<asleep, lock>>
  <2>1. ASSUME NEW k \in Mutexes, NEW x \in Procs PROVE In(lock', k, x) <=> Wants(k, x)'
    <3>1. In(lock', k, x) <=> Wants(k, x)
      BY <1>1, <1>8 DEF LocksOK
    <3>2. CASE x = p
      BY <1>7, <3>1, <3>2
    <3>3. CASE x # p
      BY <1>2, <1>8, <3>1, <3>3 DEF Wants, Outer
    <3> QED
      BY <3>2, <3>3
  <2>2. \A x \in Procs : /\ InSeq(x, lock'[Outer(x)].queue) => pc'[x] = "outer"
                         /\ InSeq(x, lock'["mtx"].queue) => pc'[x] \in {"body", "wait"}
    BY <1>1, <1>2, <1>5, <1>8 DEF LocksOK
  <2>3. \A k \in Mutexes : LockShape(lock', k)
    BY <1>1, <1>8 DEF LocksOK
  <2>4. LocksOK'
    BY <2>1, <2>2, <2>3 DEF LocksOK, Outer
  <2> QED
    BY <1>1, <1>2, <1>3, <1>4, <1>6, <1>8, <2>4 DEF Struct
<1>9. CASE \E h \in asleep : asleep' = asleep \ {h} /\ lock' = Lock(lock, "mtx", h)
  <2>1. PICK h \in asleep : asleep' = asleep \ {h} /\ lock' = Lock(lock, "mtx", h)
    BY <1>9
  <2>2. h # p /\ h \in Procs /\ pc[h] \in {"body", "wait"} /\ pc'[h] = pc[h]
    BY <1>1, <1>2, <1>5 DEF SleepersOK
  <2>3. "mtx" \in Mutexes /\ LockShape(lock, "mtx") /\ ~ In(lock, "mtx", h)
    <3>1. ~ Wants("mtx", h)
      BY <2>2 DEF Wants, Notify
    <3> QED
      BY <1>1, <2>2, <3>1 DEF LocksOK, Mutexes
  <2>4. /\ lock' \in LockType /\ LockShape(lock', "mtx")
        /\ \A k \in Mutexes \ {"mtx"} : lock'[k] = lock[k]
        /\ \A x \in Procs : In(lock', "mtx", x) <=> In(lock, "mtx", x) \/ x = h
        /\ \A x \in Procs : InSeq(x, lock'["mtx"].queue) => InSeq(x, lock["mtx"].queue) \/ x = h
    BY <1>1, <2>1, <2>2, <2>3, LockAdds
  <2>5. \A k \in Mutexes : LockShape(lock', k)
    BY <1>1, <2>4 DEF LocksOK, LockShape
  <2>6. ASSUME NEW k \in Mutexes, NEW x \in Procs PROVE In(lock', k, x) <=> Wants(k, x)'
    <3>1. In(lock, k, x) <=> Wants(k, x)
      BY <1>1 DEF LocksOK
    <3>2. CASE x = p
      <4>1. In(lock', k, p) <=> In(lock, k, p)
        BY <2>2, <2>4 DEF In
      <4> QED
        BY <1>7, <3>1, <3>2, <4>1
    <3>3. CASE x # p /\ x # h
      <4>1. Wants(k, x)' <=> Wants(k, x)
        BY <1>2, <2>1, <3>3 DEF Wants, Outer
      <4>2. In(lock', k, x) <=> In(lock, k, x)
        BY <2>4, <3>3 DEF In
      <4> QED
        BY <3>1, <4>1, <4>2
    <3>4. CASE x = h /\ k = "mtx"
      <4>1. Wants("mtx", h)'
        BY <2>1, <2>2 DEF Wants
      <4> QED
        BY <2>4, <3>4, <4>1
    <3>5. CASE x = h /\ k # "mtx"
      <4>1. Wants(k, h)' <=> Wants(k, h)
        BY <2>2, <3>5 DEF Wants, Outer
      <4>2. In(lock', k, h) <=> In(lock, k, h)
        BY <2>4, <3>5 DEF In
      <4> QED
        BY <3>1, <3>5, <4>1, <4>2
    <3> QED
      BY <3>2, <3>3, <3>4, <3>5
  <2>7. ASSUME NEW x \in Procs
        PROVE  /\ InSeq(x, lock'[Outer(x)].queue) => pc'[x] = "outer"
               /\ InSeq(x, lock'["mtx"].queue) => pc'[x] \in {"body", "wait"}
    <3>1. /\ InSeq(x, lock'[Outer(x)].queue) => InSeq(x, lock[Outer(x)].queue)
          /\ InSeq(x, lock'["mtx"].queue) => InSeq(x, lock["mtx"].queue) \/ x = h
      BY <2>4, OuterIs
    <3>2. InSeq(x, lock[Outer(x)].queue) \/ InSeq(x, lock["mtx"].queue) => x # p
      BY <1>5
    <3> QED
      BY <1>1, <1>2, <2>2, <3>1, <3>2 DEF LocksOK
  <2>8. LocksOK'
    BY <2>5, <2>6, <2>7 DEF LocksOK, Outer
  <2> QED
    BY <1>1, <1>2, <1>3, <1>4, <1>5, <1>6, <2>4, <2>8 DEF Struct
<1> QED
  BY <1>8, <1>9

\* Offer: a receiver that owns m_match_mtx goes on to wait, or to notify first.
LEMMA Offers ==
  ASSUME Struct, NEW r \in Receivers, NEW to \in {"notify", "wait"},
         ~ Suspended(r), pc[r] = "body", capacity = 0,
         pc' = [pc EXCEPT ![r] = to],
         UNCHANGED <<capacity, lock, asleep, lists, left, home>>
  PROVE  Struct'
<1>1. /\ capacity \in Nat /\ lock \in LockType /\ home \in Homes
      /\ pc \in [Procs -> Points] /\ left \in [Procs -> Nat] /\ LocksOK /\ PathsOK
      /\ r \in Procs
  BY Disjoint DEF Struct
<1>2. pc' \in [Procs -> Points] /\ \A x \in Procs : pc'[x] = IF x = r THEN to ELSE pc[x]
  BY <1>1 DEF Points, Notify
<1>3. ASSUME NEW k \in Mutexes, NEW x \in Procs PROVE In(lock', k, x) <=> Wants(k, x)'
  <2>1. In(lock', k, x) <=> Wants(k, x)
    BY <1>1 DEF LocksOK
  <2>2. CASE x = r
    <3>1. k = "mtx" => Wants(k, r) /\ Wants(k, r)'
      BY <1>2 DEF Wants, Suspended, Notify
    <3>2. k # "mtx" => (Wants(k, r)' <=> Wants(k, r))
      BY <1>2 DEF Wants, Outer
    <3> QED
      BY <2>1, <2>2, <3>1, <3>2
  <2>3. CASE x # r
    BY <1>2, <2>1, <2>3 DEF Wants, Outer
  <2> QED
    BY <2>2, <2>3
<1>4. \A x \in Procs : /\ InSeq(x, lock'[Outer(x)].queue) => pc'[x] = "outer"
                       /\ InSeq(x, lock'["mtx"].queue) => pc'[x] \in {"body", "wait"}
  <2>1. \A k \in Mutexes : \A x \in Procs : InSeq(x, lock'[k].queue) => InSeq(x, lock[k].queue)
    OBVIOUS
  <2> QED
    BY <1>1, <1>2, <2>1, UnlockQueues
<1>5. \A k \in Mutexes : LockShape(lock', k)
  BY <1>1 DEF LocksOK
<1>6. LocksOK'
  BY <1>3, <1>4, <1>5 DEF LocksOK, Outer
<1>7. PathsOK'
  BY <1>1, <1>2 DEF PathsOK
<1>8. asleep' \subseteq Procs /\ ListTypes' /\ SleepersOK' /\ ListsOK' /\ HandsOK'
  <2>1. /\ pc[r] \notin {"splice", "register"} /\ to \notin {"splice", "register"} /\ to \in Points
        /\ r \notin asleep
    BY DEF Notify, Points, Suspended
  <2> QED
    BY <1>1, <2>1, ListsAway
<1> QED
  BY <1>1, <1>2, <1>6, <1>7, <1>8 DEF Struct

-----------------------------------------------------------------------------
\* The steps of notify_one().

\* A list of one.
LEMMA OneIn == ASSUME NEW x PROVE Uniq(<<x>>) /\ \A y : InSeq(y, <<x>>) <=> y = x
<1>1. DOMAIN <<x>> = {1} /\ <<x>>[1] = x
  OBVIOUS
<1> QED
  BY <1>1 DEF Uniq, InSeq

\* Nobody gets lost between the lists of v and the hands of p.
Keeps(p, v) ==
  \A x \in asleep' : InSeq(x, arrivals[v]) \/ InSeq(x, to_resume[v]) \/ InSeq(x, taken[p])
    => InSeq(x, arrivals'[v]) \/ InSeq(x, to_resume'[v]) \/ InSeq(x, taken'[p])

\* h leaves the hands of p for the queue of the mutex.
LetOut(p, v, h) ==
  /\ asleep' = asleep \ {h} /\ lock' = Lock(lock, "mtx", h)
  /\ InSeq(h, taken[p])
  /\ ~ InSeq(h, arrivals'[v]) /\ ~ InSeq(h, to_resume'[v]) /\ ~ InSeq(h, taken'[p])

\* Where p goes from there.
LandsIn(p, v, to) ==
  /\ GoesOn(p, to)
  /\ to \notin Notify => pc[p] = "register" \/ (arrivals[v] = <<>> /\ pc[p] = "exchange")
  /\ to = "exchange" => to_resume'[v] = <<>>
  /\ to = "splice" => pc[p] = "exchange" /\ to_resume'[v] = to_resume[v]

\* What a step of notify_one() does to the lists.
Moved(p, v) ==
  /\ ListMove(p, v) /\ HandsOK'
  /\ to_resume[v] = <<>> \/ pc[p] # "splice" => Keeps(p, v)
  /\ pc[p] # "register" => UNCHANGED <<asleep, lock>>
  /\ pc[p] = "register" => \E h \in asleep : LetOut(p, v, h)
  /\ \E to \in Points : LandsIn(p, v, to)

\* Facts about the lists before a step of p.
LEMMA HandsBefore ==
  ASSUME Struct, NEW p \in Procs, NEW v, v = Notified(p), pc[p] \in Notify
  PROVE  /\ v \in Cvs /\ ListTypes /\ ListsOK /\ HandsOK
         /\ arrivals[v] \in Seq(Procs) /\ to_resume[v] \in Seq(Procs) /\ taken[p] \in Seq(Procs)
         /\ Uniq(arrivals[v]) /\ Uniq(to_resume[v]) /\ Uniq(taken[p])
         /\ taken[p] # <<>> <=> pc[p] \in {"splice", "register"}
         /\ \A x : InSeq(x, taken[p]) => /\ x \in asleep
                                         /\ ~ InSeq(x, arrivals[v]) /\ ~ InSeq(x, to_resume[v])
         /\ \A x : InSeq(x, to_resume[v]) => x \in asleep /\ ~ InSeq(x, arrivals[v])
         /\ \A x : InSeq(x, arrivals[v]) => x \in asleep
<1>1. v \in Cvs /\ ListTypes /\ ListsOK /\ HandsOK
  BY CvIs DEF Struct
<1> QED
  BY <1>1 DEF ListTypes, ListsOK, HandsOK

\* HandsOK follows from what p has in hand.
LEMMA HandsAfter ==
  ASSUME Struct, NEW p \in Procs, NEW to \in Points, pc' = [pc EXCEPT ![p] = to],
         \A q \in Procs \ {p} : taken'[q] = taken[q],
         taken'[p] # <<>> <=> to \in {"splice", "register"},
         to = "register" => Len(taken'[p]) = 1
  PROVE  HandsOK'
<1>1. HandsOK /\ pc \in [Procs -> Points]
  BY DEF Struct
<1>2. \A x \in Procs : pc'[x] = IF x = p THEN to ELSE pc[x]
  BY <1>1
<1> QED
  BY <1>1, <1>2 DEF HandsOK

\* TakeHead finds somebody.
LEMMA TakeHeadMoves ==
  ASSUME Struct, NEW p \in Procs, NEW v, v = Notified(p), TakeHead(p), to_resume[v] # <<>>
  PROVE  Moved(p, v)
<1>1. pc[p] = "notify" /\ pc[p] \in Notify
  BY DEF TakeHead, At, Notify
<1>2. PICK h : h = Head(to_resume[v])
  OBVIOUS
<1>3. /\ taken' = [taken EXCEPT ![p] = <<h>>]
      /\ to_resume' = [to_resume EXCEPT ![v] = Tail(to_resume[v])]
      /\ pc' = [pc EXCEPT ![p] = "register"]
      /\ UNCHANGED <<capacity, lock, asleep, arrivals, severed, left>>
  <2>1. ListTypes /\ v \in Cvs
    BY CvIs DEF Struct
  <2> QED
    BY <1>2, <2>1 DEF TakeHead, Goto, ListTypes
<1>4. /\ v \in Cvs /\ ListTypes /\ to_resume[v] \in Seq(Procs) /\ Uniq(to_resume[v])
      /\ Uniq(arrivals[v]) /\ taken[p] = <<>>
      /\ \A x : InSeq(x, to_resume[v]) => x \in asleep /\ ~ InSeq(x, arrivals[v])
  BY <1>1, HandsBefore
<1>5. /\ h \in Procs /\ InSeq(h, to_resume[v]) /\ Tail(to_resume[v]) \in Seq(Procs)
      /\ Uniq(Tail(to_resume[v]))
      /\ \A y : InSeq(y, Tail(to_resume[v])) <=> InSeq(y, to_resume[v]) /\ y # h
  BY <1>2, <1>4, TailIn
<1>6. /\ to_resume' \in [Cvs -> Seq(Procs)] /\ to_resume'[v] = Tail(to_resume[v])
      /\ \A u \in Cvs \ {v} : to_resume'[u] = to_resume[u]
  BY <1>3, <1>4, <1>5 DEF ListTypes
<1>7. /\ taken' \in [Procs -> Seq(Procs)] /\ taken'[p] = <<h>>
      /\ \A q \in Procs \ {p} : taken'[q] = taken[q]
  <2>1. <<h>> \in Seq(Procs)
    BY <1>5
  <2> QED
    BY <1>3, <1>4, <2>1 DEF ListTypes
<1>8. ListTypes'
  BY <1>3, <1>4, <1>6, <1>7 DEF ListTypes
<1>9. Uniq(<<h>>) /\ \A y : InSeq(y, <<h>>) <=> y = h
  BY OneIn
<1>10. /\ Uniq(arrivals'[v]) /\ Uniq(to_resume'[v]) /\ Uniq(taken'[p])
       /\ \A x : /\ InSeq(x, arrivals'[v]) <=> InSeq(x, arrivals[v])
                 /\ InSeq(x, to_resume'[v]) <=> InSeq(x, to_resume[v]) /\ x # h
                 /\ InSeq(x, taken'[p]) <=> x = h
                 /\ ~ InSeq(x, taken[p])
  <2>1. \A x : ~ InSeq(x, taken[p])
    BY <1>4, EmptyIn
  <2> QED
    BY <1>3, <1>4, <1>5, <1>6, <1>7, <1>9, <2>1
<1>11. ListMove(p, v)
  BY <1>3, <1>4, <1>5, <1>6, <1>7, <1>8, <1>10 DEF ListMove
<1>12. HandsOK'
  <2>1. taken'[p] # <<>> /\ Len(taken'[p]) = 1 /\ "register" \in Points
    BY <1>7 DEF Points, Notify
  <2> QED
    BY <1>3, <1>7, <2>1, HandsAfter
<1>13. Keeps(p, v)
  BY <1>3, <1>5, <1>10 DEF Keeps
<1>14. "register" \in Points /\ LandsIn(p, v, "register")
  BY <1>1, <1>3 DEF Points, GoesOn, Notify, LandsIn
<1>15. pc[p] # "register" /\ UNCHANGED <<asleep, lock>>
  BY <1>1, <1>3
<1> QED
  BY <1>11, <1>12, <1>13, <1>14, <1>15 DEF Moved

\* A step that leaves the lists.
LEMMA StillMoves ==
  ASSUME Struct, NEW p \in Procs, NEW v, v = Notified(p), NEW to \in Points,
         pc[p] \in {"notify", "exchange"}, to \notin {"splice", "register"}, GoesOn(p, to),
         to \in Notify \/ (arrivals[v] = <<>> /\ pc[p] = "exchange"),
         to = "exchange" => to_resume[v] = <<>>,
         UNCHANGED <<capacity, asleep, lists, lock>>
  PROVE  Moved(p, v)
<1>1. pc[p] \in Notify /\ pc[p] # "register"
  BY DEF Notify
<1>2. UNCHANGED <<arrivals, to_resume, severed, taken>>
  BY DEF lists
<1>3. /\ v \in Cvs /\ ListTypes /\ Uniq(arrivals[v]) /\ Uniq(to_resume[v]) /\ taken[p] = <<>>
      /\ Uniq(taken[p])
      /\ \A x : InSeq(x, to_resume[v]) => ~ InSeq(x, arrivals[v])
      /\ \A x : InSeq(x, taken[p]) => ~ InSeq(x, arrivals[v]) /\ ~ InSeq(x, to_resume[v])
  BY <1>1, HandsBefore
<1>4. ListTypes'
  BY <1>2, <1>3 DEF ListTypes
<1>5. ListMove(p, v)
  BY <1>2, <1>3, <1>4 DEF ListMove
<1>6. HandsOK'
  <2>1. pc' = [pc EXCEPT ![p] = to]
    BY DEF GoesOn
  <2> QED
    BY <1>2, <1>3, <2>1, HandsAfter
<1>7. Keeps(p, v)
  BY <1>2 DEF Keeps
<1>8. LandsIn(p, v, to)
  BY <1>2 DEF LandsIn
<1> QED
  BY <1>1, <1>5, <1>6, <1>7, <1>8 DEF Moved

\* Exchange finds somebody.
LEMMA ExchangeMoves ==
  ASSUME Struct, NEW p \in Procs, NEW v, v = Notified(p), Exchange(p), arrivals[v] # <<>>
  PROVE  Moved(p, v)
<1>1. pc[p] = "exchange" /\ pc[p] \in Notify
  BY DEF Exchange, At, Notify
<1>3. /\ taken' = [taken EXCEPT ![p] = arrivals[v]]
      /\ arrivals' = [arrivals EXCEPT ![v] = <<>>]
      /\ pc' = [pc EXCEPT ![p] = "splice"]
      /\ UNCHANGED <<capacity, lock, asleep, to_resume, severed, left>>
  BY DEF Exchange, Goto
<1>4. /\ v \in Cvs /\ ListTypes /\ arrivals[v] \in Seq(Procs) /\ Uniq(to_resume[v])
      /\ Uniq(arrivals[v]) /\ taken[p] = <<>>
      /\ \A x : InSeq(x, to_resume[v]) => x \in asleep /\ ~ InSeq(x, arrivals[v])
  BY <1>1, HandsBefore
<1>6. /\ arrivals' \in [Cvs -> Seq(Procs)] /\ arrivals'[v] = <<>>
      /\ \A u \in Cvs \ {v} : arrivals'[u] = arrivals[u]
  BY <1>3, <1>4 DEF ListTypes
<1>7. /\ taken' \in [Procs -> Seq(Procs)] /\ taken'[p] = arrivals[v]
      /\ \A q \in Procs \ {p} : taken'[q] = taken[q]
  BY <1>3, <1>4 DEF ListTypes
<1>8. ListTypes'
  BY <1>3, <1>4, <1>6, <1>7 DEF ListTypes
<1>10. /\ Uniq(arrivals'[v]) /\ Uniq(to_resume'[v]) /\ Uniq(taken'[p])
       /\ \A x : /\ ~ InSeq(x, arrivals'[v])
                 /\ InSeq(x, to_resume'[v]) <=> InSeq(x, to_resume[v])
                 /\ InSeq(x, taken'[p]) <=> InSeq(x, arrivals[v])
                 /\ ~ InSeq(x, taken[p])
  BY <1>3, <1>4, <1>6, <1>7, EmptyIn
<1>11. ListMove(p, v)
  BY <1>3, <1>4, <1>6, <1>7, <1>8, <1>10 DEF ListMove
<1>12. HandsOK'
  <2>1. taken'[p] # <<>> /\ "splice" \in Points
    BY <1>7 DEF Points, Notify
  <2> QED
    BY <1>3, <1>7, <2>1, HandsAfter
<1>13. Keeps(p, v)
  BY <1>10 DEF Keeps
<1>14. "splice" \in Points /\ LandsIn(p, v, "splice")
  BY <1>1, <1>3 DEF Points, GoesOn, Notify, LandsIn
<1>15. pc[p] # "register" /\ UNCHANGED <<asleep, lock>>
  BY <1>1, <1>3
<1> QED
  BY <1>11, <1>12, <1>13, <1>14, <1>15 DEF Moved

\* Splice.
LEMMA SpliceMoves ==
  ASSUME Struct, NEW p \in Procs, NEW v, v = Notified(p), Splice(p)
  PROVE  Moved(p, v)
<1>1. pc[p] = "splice" /\ pc[p] \in Notify /\ to_resume[v] = <<>>
  BY DEF Splice, At, Notify
<1>2. PICK h : h = Head(taken[p])
  OBVIOUS
<1>a. v \in Cvs /\ ListTypes
  BY <1>1, HandsBefore
<1>3. /\ taken' = [taken EXCEPT ![p] = <<h>>]
      /\ to_resume' = [to_resume EXCEPT ![v] = Tail(taken[p])]
      /\ severed' \in [Cvs -> BOOLEAN]
      /\ pc' = [pc EXCEPT ![p] = "register"]
      /\ UNCHANGED <<capacity, lock, asleep, arrivals, left>>
  BY <1>2, <1>a DEF Splice, Goto, ListTypes
<1>4. /\ taken[p] \in Seq(Procs) /\ Uniq(taken[p]) /\ taken[p] # <<>>
      /\ Uniq(arrivals[v])
      /\ \A x : InSeq(x, taken[p]) => x \in asleep /\ ~ InSeq(x, arrivals[v])
  BY <1>1, HandsBefore
<1>5. /\ h \in Procs /\ InSeq(h, taken[p]) /\ Tail(taken[p]) \in Seq(Procs)
      /\ Uniq(Tail(taken[p]))
      /\ \A y : InSeq(y, Tail(taken[p])) <=> InSeq(y, taken[p]) /\ y # h
  BY <1>2, <1>4, TailIn
<1>6. /\ to_resume' \in [Cvs -> Seq(Procs)] /\ to_resume'[v] = Tail(taken[p])
      /\ \A u \in Cvs \ {v} : to_resume'[u] = to_resume[u]
  BY <1>3, <1>a, <1>5 DEF ListTypes
<1>7. /\ taken' \in [Procs -> Seq(Procs)] /\ taken'[p] = <<h>>
      /\ \A q \in Procs \ {p} : taken'[q] = taken[q]
  <2>1. <<h>> \in Seq(Procs)
    BY <1>5
  <2> QED
    BY <1>3, <1>a, <2>1 DEF ListTypes
<1>8. ListTypes'
  BY <1>3, <1>a, <1>6, <1>7 DEF ListTypes
<1>9. Uniq(<<h>>) /\ \A y : InSeq(y, <<h>>) <=> y = h
  BY OneIn
<1>10. /\ Uniq(arrivals'[v]) /\ Uniq(to_resume'[v]) /\ Uniq(taken'[p])
       /\ \A x : /\ InSeq(x, arrivals'[v]) <=> InSeq(x, arrivals[v])
                 /\ InSeq(x, to_resume'[v]) <=> InSeq(x, taken[p]) /\ x # h
                 /\ InSeq(x, taken'[p]) <=> x = h
                 /\ ~ InSeq(x, to_resume[v])
  <2>1. \A x : ~ InSeq(x, to_resume[v])
    BY <1>1, EmptyIn
  <2> QED
    BY <1>3, <1>4, <1>5, <1>6, <1>7, <1>9, <2>1
<1>11. ListMove(p, v)
  BY <1>3, <1>4, <1>5, <1>6, <1>7, <1>8, <1>10 DEF ListMove
<1>12. HandsOK'
  <2>1. taken'[p] # <<>> /\ Len(taken'[p]) = 1 /\ "register" \in Points
    BY <1>7 DEF Points, Notify
  <2> QED
    BY <1>3, <1>7, <2>1, HandsAfter
<1>13. Keeps(p, v)
  BY <1>3, <1>5, <1>10 DEF Keeps
<1>14. "register" \in Points /\ LandsIn(p, v, "register")
  BY <1>1, <1>3 DEF Points, GoesOn, Notify, LandsIn
<1>15. pc[p] # "register" /\ UNCHANGED <<asleep, lock>>
  BY <1>1, <1>3
<1> QED
  BY <1>11, <1>12, <1>13, <1>14, <1>15 DEF Moved

\* SpliceBehind: to_resume was filled meanwhile.
LEMMA SpliceBehindMoves ==
  ASSUME Struct, NEW p \in Procs, NEW v, v = Notified(p), SpliceBehind(p)
  PROVE  Moved(p, v)
<1>1. pc[p] = "splice" /\ pc[p] \in Notify /\ to_resume[v] # <<>>
  BY DEF SpliceBehind, At, Notify
<1>2. PICK h, g : h = Head(to_resume[v]) /\ g = Head(taken[p])
  OBVIOUS
<1>a. v \in Cvs /\ ListTypes
  BY <1>1, HandsBefore
<1>3. /\ taken' = [taken EXCEPT ![p] = <<h>>]
      /\ to_resume' = [to_resume EXCEPT ![v] = IF severed[v] THEN Tail(to_resume[v])
                                               ELSE Append(Tail(to_resume[v]), g)]
      /\ severed' \in [Cvs -> BOOLEAN]
      /\ pc' = [pc EXCEPT ![p] = "register"]
      /\ UNCHANGED <<capacity, lock, asleep, arrivals, left>>
  <2>1. severed' = [severed EXCEPT ![v] = severed[v] \/ Len(taken[p]) > 1]
    BY <1>a DEF SpliceBehind, ListTypes
  <2>2. severed' \in [Cvs -> BOOLEAN]
    BY <1>a, <2>1 DEF ListTypes
  <2> QED
    BY <1>2, <1>a, <2>2 DEF SpliceBehind, Goto, ListTypes
<1>4. /\ taken[p] \in Seq(Procs) /\ Uniq(taken[p]) /\ taken[p] # <<>>
      /\ to_resume[v] \in Seq(Procs) /\ Uniq(to_resume[v])
      /\ Uniq(arrivals[v])
      /\ \A x : InSeq(x, taken[p]) => /\ x \in asleep
                                      /\ ~ InSeq(x, arrivals[v]) /\ ~ InSeq(x, to_resume[v])
      /\ \A x : InSeq(x, to_resume[v]) => x \in asleep /\ ~ InSeq(x, arrivals[v])
  BY <1>1, HandsBefore
<1>5. /\ h \in Procs /\ InSeq(h, to_resume[v]) /\ Tail(to_resume[v]) \in Seq(Procs)
      /\ Uniq(Tail(to_resume[v]))
      /\ \A y : InSeq(y, Tail(to_resume[v])) <=> InSeq(y, to_resume[v]) /\ y # h
  BY <1>1, <1>2, <1>4, TailIn
<1>b. g \in Procs /\ InSeq(g, taken[p])
  BY <1>2, <1>4, TailIn
<1>c. /\ Append(Tail(to_resume[v]), g) \in Seq(Procs) /\ Uniq(Append(Tail(to_resume[v]), g))
      /\ \A y : InSeq(y, Append(Tail(to_resume[v]), g)) <=> (InSeq(y, to_resume[v]) /\ y # h) \/ y = g
  <2>1. PICK t \in Seq(Procs) : t = Tail(to_resume[v])
    BY <1>5
  <2>2. Uniq(t) /\ ~ InSeq(g, t) /\ \A y : InSeq(y, t) <=> InSeq(y, to_resume[v]) /\ y # h
    BY <1>4, <1>5, <1>b, <2>1
  <2>3. /\ Append(t, g) \in Seq(Procs) /\ Uniq(Append(t, g))
        /\ \A y : InSeq(y, Append(t, g)) <=> InSeq(y, t) \/ y = g
    BY <1>b, <2>2, AppendIn
  <2> QED
    BY <2>1, <2>2, <2>3
<1>6. /\ to_resume' \in [Cvs -> Seq(Procs)]
      /\ to_resume'[v] \in {Tail(to_resume[v]), Append(Tail(to_resume[v]), g)}
      /\ \A u \in Cvs \ {v} : to_resume'[u] = to_resume[u]
  BY <1>3, <1>a, <1>5, <1>c DEF ListTypes
<1>7. /\ taken' \in [Procs -> Seq(Procs)] /\ taken'[p] = <<h>>
      /\ \A q \in Procs \ {p} : taken'[q] = taken[q]
  <2>1. <<h>> \in Seq(Procs)
    BY <1>5
  <2> QED
    BY <1>3, <1>a, <2>1 DEF ListTypes
<1>8. ListTypes'
  BY <1>3, <1>a, <1>6, <1>7 DEF ListTypes
<1>9. Uniq(<<h>>) /\ \A y : InSeq(y, <<h>>) <=> y = h
  BY OneIn
<1>10. /\ Uniq(arrivals'[v]) /\ Uniq(to_resume'[v]) /\ Uniq(taken'[p])
       /\ \A x : /\ InSeq(x, arrivals'[v]) <=> InSeq(x, arrivals[v])
                 /\ InSeq(x, to_resume'[v]) => (InSeq(x, to_resume[v]) /\ x # h) \/ x = g
                 /\ InSeq(x, taken'[p]) <=> x = h
  BY <1>3, <1>4, <1>5, <1>6, <1>7, <1>9, <1>c
<1>11. ListMove(p, v)
  <2>1. h # g
    BY <1>4, <1>5, <1>b
  <2> QED
    BY <1>3, <1>4, <1>5, <1>6, <1>7, <1>8, <1>10, <1>b, <2>1 DEF ListMove
<1>12. HandsOK'
  <2>1. taken'[p] # <<>> /\ Len(taken'[p]) = 1 /\ "register" \in Points
    BY <1>7 DEF Points, Notify
  <2> QED
    BY <1>3, <1>7, <2>1, HandsAfter
<1>14. "register" \in Points /\ LandsIn(p, v, "register")
  BY <1>1, <1>3 DEF Points, GoesOn, Notify, LandsIn
<1>15. /\ pc[p] # "register" /\ UNCHANGED <<asleep, lock>>
       /\ ~ (to_resume[v] = <<>> \/ pc[p] # "splice")
  BY <1>1, <1>3
<1> QED
  BY <1>11, <1>12, <1>14, <1>15 DEF Moved

\* Where Return leads.
LEMMA ReturnGoes ==
  ASSUME Struct, NEW p \in Procs, pc[p] \in Notify, Return(p)
  PROVE  \E to \in Points : GoesOn(p, to) /\ to \notin Notify
<1>1. CASE capacity > 0
  <2>1. GoesOn(p, "idle")
    BY <1>1 DEF Return, Done, Goto, GoesOn, Struct
  <2> QED
    BY <2>1 DEF Points, Notify
<1>2. CASE capacity = 0
  <2>1. PICK to : to = IF p \in Senders THEN "exit" ELSE "wait"
    OBVIOUS
  <2>2. ~ (capacity > 0) /\ pc' = [pc EXCEPT ![p] = to] /\ left' = left
    BY <1>2, <2>1 DEF Return, Goto
  <2>3. GoesOn(p, to)
    BY <1>2, <2>1, <2>2, Disjoint DEF GoesOn
  <2> QED
    BY <2>1, <2>3 DEF Points, Notify
<1> QED
  BY <1>1, <1>2 DEF Struct

\* RegisterHead.
LEMMA RegisterHeadMoves ==
  ASSUME Struct, NEW p \in Procs, NEW v, v = Notified(p), RegisterHead(p)
  PROVE  Moved(p, v)
<1>1. pc[p] = "register" /\ pc[p] \in Notify
  BY DEF RegisterHead, At, Notify
<1>2. PICK h : h = Head(taken[p])
  OBVIOUS
<1>3. /\ taken' = [taken EXCEPT ![p] = <<>>] /\ Return(p)
      /\ asleep' = asleep \ {h} /\ lock' = Lock(lock, "mtx", h)
      /\ UNCHANGED <<capacity, arrivals, to_resume, severed>>
  BY <1>2 DEF RegisterHead
<1>4. /\ v \in Cvs /\ ListTypes /\ HandsOK /\ taken[p] \in Seq(Procs) /\ taken[p] # <<>>
      /\ Uniq(arrivals[v]) /\ Uniq(to_resume[v])
      /\ \A x : InSeq(x, taken[p]) => /\ x \in asleep
                                      /\ ~ InSeq(x, arrivals[v]) /\ ~ InSeq(x, to_resume[v])
      /\ \A x : InSeq(x, to_resume[v]) => ~ InSeq(x, arrivals[v])
  BY <1>1, HandsBefore
<1>5. h \in asleep /\ \A x : InSeq(x, taken[p]) <=> x = h
  <2>1. Len(taken[p]) = 1
    BY <1>1, <1>4 DEF HandsOK
  <2>2. taken[p] = <<h>>
    BY <1>2, <1>4, <2>1
  <2> QED
    BY <1>4, <2>2, OneIn
<1>7. /\ taken' \in [Procs -> Seq(Procs)] /\ taken'[p] = <<>>
      /\ \A q \in Procs \ {p} : taken'[q] = taken[q]
  BY <1>3, <1>4 DEF ListTypes
<1>8. ListTypes'
  BY <1>3, <1>4, <1>7 DEF ListTypes
<1>10. Uniq(taken'[p]) /\ \A x : ~ InSeq(x, taken'[p])
  BY <1>7, EmptyIn
<1>11. ListMove(p, v)
  BY <1>3, <1>4, <1>7, <1>8, <1>10 DEF ListMove
<1>12. PICK to \in Points : GoesOn(p, to) /\ to \notin Notify
  BY <1>1, <1>3, ReturnGoes
<1>13. HandsOK'
  <2>1. pc' = [pc EXCEPT ![p] = to] /\ to \notin {"splice", "register"}
    BY <1>12 DEF GoesOn, Notify
  <2> QED
    BY <1>7, <2>1, HandsAfter
<1>14. Keeps(p, v)
  BY <1>3, <1>5 DEF Keeps
<1>15. LetOut(p, v, h)
  BY <1>3, <1>4, <1>5, <1>10 DEF LetOut
<1>16. LandsIn(p, v, to)
  BY <1>1, <1>12 DEF LandsIn, Notify
<1> QED
  BY <1>1, <1>5, <1>11, <1>12, <1>13, <1>14, <1>15, <1>16 DEF Moved

\* All of them.
LEMMA NotificationMoves ==
  ASSUME Struct, NEW p \in Procs, NEW v, v = Notified(p), Notification(p)
  PROVE  Moved(p, v) /\ pc[p] \in Notify /\ UNCHANGED <<capacity, data, sent, got>>
<1>1. pc[p] \in Notify /\ UNCHANGED <<capacity, data, sent, got>>
  BY DEF Notification, TakeHead, Exchange, Splice, SpliceBehind, RegisterHead, At, Notify
<1>2. CASE TakeHead(p)
  <2>1. CASE to_resume[v] # <<>>
    BY <1>1, <1>2, <2>1, TakeHeadMoves
  <2>2. CASE to_resume[v] = <<>>
    <3>1. /\ pc[p] = "notify" /\ pc' = [pc EXCEPT ![p] = "exchange"]
          /\ UNCHANGED <<capacity, asleep, lists, lock, left>>
      BY <1>2, <2>2 DEF TakeHead, At, Goto, lists
    <3>2. /\ "exchange" \in Points /\ "exchange" \in Notify /\ GoesOn(p, "exchange")
          /\ "exchange" \notin {"splice", "register"} /\ pc[p] \in {"notify", "exchange"}
      BY <3>1 DEF Points, Notify, GoesOn
    <3> QED
      BY <1>1, <2>2, <3>1, <3>2, StillMoves
  <2> QED
    BY <2>1, <2>2
<1>3. CASE Exchange(p)
  <2>1. CASE arrivals[v] # <<>>
    BY <1>1, <1>3, <2>1, ExchangeMoves
  <2>2. CASE arrivals[v] = <<>>
    <3>1. pc[p] = "exchange" /\ Return(p) /\ UNCHANGED <<capacity, asleep, lists, lock>>
      BY <1>3, <2>2 DEF Exchange, At, lists
    <3>2. PICK to \in Points : GoesOn(p, to) /\ to \notin Notify
      BY <1>1, <3>1, ReturnGoes
    <3>3. to \notin {"splice", "register"} /\ to # "exchange" /\ pc[p] \in {"notify", "exchange"}
      BY <3>1, <3>2 DEF Notify
    <3> QED
      BY <1>1, <2>2, <3>1, <3>2, <3>3, StillMoves
  <2> QED
    BY <2>1, <2>2
<1>4. CASE Splice(p)
  BY <1>1, <1>4, SpliceMoves
<1>5. CASE SpliceBehind(p)
  BY <1>1, <1>5, SpliceBehindMoves
<1>6. CASE RegisterHead(p)
  BY <1>1, <1>6, RegisterHeadMoves
<1> QED
  BY <1>1, <1>2, <1>3, <1>4, <1>5, <1>6 DEF Notification

\* They keep the structure.
LEMMA NotificationStruct ==
  ASSUME Struct, NEW p \in Procs, NEW v, v = Notified(p), Moved(p, v), pc[p] \in Notify,
         UNCHANGED <<capacity, home>>
  PROVE  Struct'
<1>1. v \in Cvs
  BY CvIs
<1>2. ListMove(p, v) /\ HandsOK' /\ ListTypes'
  BY DEF Moved, ListMove
<1>3. \/ UNCHANGED <<asleep, lock>>
      \/ \E h \in asleep : LetOut(p, v, h)
  BY DEF Moved
<1>4. ListsOK'
  <2>1. /\ asleep' \subseteq asleep
        /\ \A x \in asleep \ asleep' : /\ InSeq(x, taken[p]) /\ ~ InSeq(x, arrivals'[v])
                                       /\ ~ InSeq(x, to_resume'[v]) /\ ~ InSeq(x, taken'[p])
    BY <1>3 DEF LetOut
  <2> QED
    BY <1>1, <1>2, <2>1, ListMoves
<1>5. PICK to \in Points : GoesOn(p, to)
  BY DEF Moved, LandsIn
<1>6. \/ UNCHANGED <<asleep, lock>>
      \/ \E h \in asleep : asleep' = asleep \ {h} /\ lock' = Lock(lock, "mtx", h)
  BY <1>3 DEF LetOut
<1> QED
  BY <1>2, <1>4, <1>5, <1>6, Notifies

-----------------------------------------------------------------------------
\* Threads: who is in notify_one() at the same time, and whom it reaches.

\* Only p moves, and nobody else of its thread is in notify_one().
LEMMA NotifiersStep ==
  ASSUME Struct, NotifiersOK, NEW p \in Procs, NEW to, Alone(p),
         pc' = [pc EXCEPT ![p] = to], UNCHANGED home
  PROVE  NotifiersOK'
<1>1. \A x \in Procs : pc'[x] = IF x = p THEN to ELSE pc[x]
  BY DEF Struct
<1> QED
  BY <1>1 DEF NotifiersOK, Alone

\* The side of a notifier, and those it notifies.
LEMMA SideIs ==
  ASSUME capacity > 0, NEW p \in Procs, NEW x \in Procs
  PROVE  /\ p \in Side(p) /\ Side(p) \subseteq Procs /\ Others(x) \subseteq Procs
         /\ p \in Others(x) <=> CvOf(x) = Notified(p)
         /\ p \in Others(x) => Others(x) = Side(p)
<1>1. ~ (capacity = 0)
  BY ChannelAssumption
<1> QED
  BY <1>1, Disjoint DEF Side, Others, CvOf, Notified

\* On one thread, p is the only one of its side in notify_one().
LEMMA OnlyNotifier ==
  ASSUME Struct, NotifiersOK, capacity > 0, NEW p \in Procs, OneThread(Side(p)), pc[p] \in Notify,
         NEW q \in Side(p), q # p
  PROVE  pc[q] \notin Notify /\ taken[q] = <<>>
<1>1. home[p] = home[q] /\ q \in Procs
  BY SideIs DEF OneThread
<1>2. pc[q] \notin Notify
  BY <1>1 DEF NotifiersOK
<1>3. pc[q] \notin {"splice", "register"}
  BY <1>2 DEF Notify
<1> QED
  BY <1>1, <1>2, <1>3 DEF Struct, HandsOK

\* The step of another operation.
LEMMA ReachAway ==
  ASSUME Struct, ReachOK, NEW p \in Procs, NEW to, to \notin {"exchange", "splice"},
         pc' = [pc EXCEPT ![p] = to], UNCHANGED <<capacity, asleep, lists, home>>
  PROVE  ReachOK'
<1>1. \A x \in Procs : pc'[x] = IF x = p THEN to ELSE pc[x]
  BY DEF Struct
<1>2. UNCHANGED <<arrivals, to_resume, severed, taken>>
  BY DEF lists
<1>3. \A x : CvOf(x)' = CvOf(x) /\ Notified(x)' = Notified(x)
  BY DEF CvOf, Notified
<1>4. \A x : OneThread(Others(x))' <=> OneThread(Others(x))
  BY DEF OneThread, Others
<1>5. \A x : OneThread(Side(x))' <=> OneThread(Side(x))
  BY DEF OneThread, Side
<1> QED
  BY <1>1, <1>2, <1>3, <1>4, <1>5 DEF ReachOK, Others

\* Who goes to sleep is in a list.
LEMMA ReachSleep ==
  ASSUME Struct, ReachOK, NEW p \in Procs, NEW v \in Cvs, v = CvOf(p), Wait(v, p),
         NEW to, to \notin {"exchange", "splice"}, pc' = [pc EXCEPT ![p] = to],
         UNCHANGED <<capacity, home>>
  PROVE  ReachOK'
<1> SUFFICES ASSUME capacity > 0 PROVE ReachOK'
  BY DEF ReachOK
<1>1. \A x \in Procs : pc'[x] = IF x = p THEN to ELSE pc[x]
  BY DEF Struct
<1>2. ListTypes /\ asleep \subseteq Procs
  BY DEF Struct
<1>3. /\ asleep' = asleep \cup {p} /\ UNCHANGED <<to_resume, taken>>
      /\ arrivals' = [arrivals EXCEPT ![v] = Append(arrivals[v], p)]
  BY <1>2 DEF Wait, ListTypes
<1>4. \A u \in Cvs : \A x : InSeq(x, arrivals[u]) \/ (u = v /\ x = p) => InSeq(x, arrivals'[u])
  <2>1. arrivals[v] \in Seq(Procs)
    BY <1>2 DEF ListTypes
  <2>2. \A x : InSeq(x, Append(arrivals[v], p)) <=> InSeq(x, arrivals[v]) \/ x = p
    BY <2>1, AppendIn
  <2>3. \A u \in Cvs : arrivals'[u] = IF u = v THEN Append(arrivals[v], p) ELSE arrivals[u]
    BY <1>2, <1>3 DEF ListTypes
  <2> QED
    BY <2>2, <2>3
<1>5. \A x : CvOf(x)' = CvOf(x) /\ Notified(x)' = Notified(x)
  BY DEF CvOf, Notified
<1>6. \A x : OneThread(Others(x))' <=> OneThread(Others(x))
  BY DEF OneThread, Others
<1>7. \A x : OneThread(Side(x))' <=> OneThread(Side(x))
  BY DEF OneThread, Side
<1>8. ASSUME NEW x \in asleep', OneThread(Others(x))'
      PROVE  \/ InSeq(x, arrivals'[CvOf(x)']) \/ InSeq(x, to_resume'[CvOf(x)'])
             \/ \E q \in Others(x)' : InSeq(x, taken'[q])
  <2>1. CASE x = p
    BY <1>4, <1>5, <2>1
  <2>2. CASE x # p
    <3>1. x \in asleep /\ x \in Procs /\ CvOf(x) \in Cvs /\ OneThread(Others(x))
      BY <1>2, <1>3, <1>6, <1>8, <2>2, CvIs
    <3>2. \/ InSeq(x, arrivals[CvOf(x)]) \/ InSeq(x, to_resume[CvOf(x)])
          \/ \E q \in Others(x) : InSeq(x, taken[q])
      BY <3>1 DEF ReachOK
    <3> QED
      BY <1>3, <1>4, <1>5, <3>1, <3>2 DEF Others
  <2> QED
    BY <2>1, <2>2
<1>9. ASSUME NEW q \in Procs, OneThread(Side(q))', pc'[q] \in {"exchange", "splice"}
      PROVE  to_resume'[Notified(q)'] = <<>>
  <2>1. pc[q] \in {"exchange", "splice"} /\ OneThread(Side(q))
    BY <1>1, <1>7, <1>9
  <2> QED
    BY <1>3, <1>5, <2>1 DEF ReachOK
<1> QED
  BY <1>8, <1>9 DEF ReachOK

\* A step of notify_one(): on one thread nobody is lost.
LEMMA ReachNotify ==
  ASSUME Struct, NotifiersOK, ReachOK, NEW p \in Procs, NEW v, v = Notified(p), Moved(p, v),
         pc[p] \in Notify, UNCHANGED <<capacity, home>>
  PROVE  ReachOK'
<1> SUFFICES ASSUME capacity > 0 PROVE ReachOK'
  BY DEF ReachOK
<1>1. PICK to \in Points : LandsIn(p, v, to)
  BY DEF Moved
<1>2. \A x \in Procs : pc'[x] = IF x = p THEN to ELSE pc[x]
  BY <1>1 DEF Struct, LandsIn, GoesOn
<1>3. /\ v \in Cvs /\ asleep \subseteq Procs
      /\ \A u \in Cvs \ {v} : arrivals'[u] = arrivals[u] /\ to_resume'[u] = to_resume[u]
      /\ \A q \in Procs \ {p} : taken'[q] = taken[q]
  BY CvIs DEF Struct, Moved, ListMove
<1>4. asleep' \subseteq asleep
  BY DEF Moved, LetOut
<1>5. \A x : CvOf(x)' = CvOf(x) /\ Notified(x)' = Notified(x)
  BY DEF CvOf, Notified
<1>6. \A x : OneThread(Others(x))' <=> OneThread(Others(x))
  BY DEF OneThread, Others
<1>7. \A x : OneThread(Side(x))' <=> OneThread(Side(x))
  BY DEF OneThread, Side
<1>8. OneThread(Side(p)) => Keeps(p, v)
  <2>1. OneThread(Side(p)) /\ pc[p] = "splice" => to_resume[v] = <<>>
    BY DEF ReachOK
  <2> QED
    BY <2>1 DEF Moved
<1>9. ASSUME NEW x \in asleep', OneThread(Others(x))'
      PROVE  \/ InSeq(x, arrivals'[CvOf(x)']) \/ InSeq(x, to_resume'[CvOf(x)'])
             \/ \E q \in Others(x)' : InSeq(x, taken'[q])
  <2>1. x \in asleep /\ x \in Procs /\ CvOf(x) \in Cvs /\ OneThread(Others(x))
    BY <1>3, <1>4, <1>6, <1>9, CvIs
  <2>2. \/ InSeq(x, arrivals[CvOf(x)]) \/ InSeq(x, to_resume[CvOf(x)])
        \/ \E q \in Others(x) : InSeq(x, taken[q])
    BY <2>1 DEF ReachOK
  <2>3. Others(x)' = Others(x)
    BY DEF Others
  <2>4. /\ Others(x) \subseteq Procs
        /\ p \in Others(x) <=> CvOf(x) = v
        /\ p \in Others(x) => Others(x) = Side(p)
    BY <2>1, SideIs
  <2>5. CASE p \notin Others(x)
    <3>1. CvOf(x) # v /\ \A q \in Others(x) : taken'[q] = taken[q]
      BY <1>3, <2>4, <2>5
    <3> QED
      BY <1>3, <1>5, <2>1, <2>2, <2>3, <3>1
  <2>6. CASE p \in Others(x)
    <3>1. CvOf(x) = v /\ Others(x) = Side(p) /\ Keeps(p, v)
      BY <1>8, <2>1, <2>4, <2>6
    <3>2. InSeq(x, arrivals[v]) \/ InSeq(x, to_resume[v]) \/ InSeq(x, taken[p])
      <4>1. ASSUME NEW q \in Others(x), q # p PROVE ~ InSeq(x, taken[q])
        BY <2>1, <3>1, <4>1, OnlyNotifier, EmptyIn
      <4> QED
        BY <2>2, <3>1, <4>1
    <3>3. InSeq(x, arrivals'[v]) \/ InSeq(x, to_resume'[v]) \/ InSeq(x, taken'[p])
      BY <3>1, <3>2 DEF Keeps
    <3> QED
      BY <1>5, <2>3, <2>6, <3>1, <3>3
  <2> QED
    BY <2>5, <2>6
<1>10. ASSUME NEW q \in Procs, OneThread(Side(q))', pc'[q] \in {"exchange", "splice"}
       PROVE  to_resume'[Notified(q)'] = <<>>
  <2>1. OneThread(Side(q)) /\ Notified(q) \in Cvs
    BY <1>7, <1>10, CvIs
  <2>2. CASE q = p
    <3>1. to \in {"exchange", "splice"}
      BY <1>2, <1>10, <2>2
    <3>2. to = "exchange" => to_resume'[v] = <<>>
      BY <1>1 DEF LandsIn
    <3>3. to = "splice" => to_resume'[v] = <<>>
      <4> SUFFICES ASSUME to = "splice" PROVE to_resume'[v] = <<>>
        OBVIOUS
      <4>1. pc[p] = "exchange"
        BY <1>1 DEF LandsIn
      <4>2. to_resume[v] = <<>>
        BY <2>1, <2>2, <4>1 DEF ReachOK
      <4> QED
        BY <1>1, <4>2 DEF LandsIn
    <3> QED
      BY <1>5, <2>2, <3>1, <3>2, <3>3
  <2>3. CASE q # p
    <3>1. pc[q] \in {"exchange", "splice"}
      BY <1>2, <1>10, <2>3
    <3>2. to_resume[Notified(q)] = <<>>
      BY <2>1, <3>1 DEF ReachOK
    <3>3. Notified(q) # v
      <4> SUFFICES ASSUME Notified(q) = v PROVE FALSE
        OBVIOUS
      <4>1. q \in Side(p)
        BY ChannelAssumption, Disjoint DEF Side, Notified
      <4>2. Side(q) = Side(p)
        BY <4>1, Disjoint DEF Side
      <4>3. pc[q] \notin Notify
        BY <2>1, <2>3, <4>1, <4>2, OnlyNotifier
      <4> QED
        BY <3>1, <4>3 DEF Notify
    <3> QED
      BY <1>3, <1>5, <2>1, <3>2, <3>3
  <2> QED
    BY <2>2, <2>3
<1> QED
  BY <1>9, <1>10 DEF ReachOK

-----------------------------------------------------------------------------
\* Wake-ups.

\* The sleepers of P are covered: n of them would find what they wait for.
Covered(P, Q, n) ==
  OneThread(Q) /\ asleep \cap P # {}
    => n <= Cardinality(Notifying(Q)) + Cardinality(Engaged(P))

\* The counts are numbers.
LEMMA CountsFinite ==
  ASSUME NEW P, IsFiniteSet(P)
  PROVE  /\ IsFiniteSet(Engaged(P)) /\ Cardinality(Engaged(P)) \in Nat
         /\ IsFiniteSet(Notifying(P)) /\ Cardinality(Notifying(P)) \in Nat
<1>1. Engaged(P) \subseteq P /\ Notifying(P) \subseteq P
  BY DEF Engaged, Notifying
<1> QED
  BY <1>1, FS_Subset, FS_CardinalityType

\* NoLostWakeup says it of both sides.
LEMMA WakeupCovered ==
  NoLostWakeup <=> (capacity > 0 => /\ Covered(Receivers, Senders, m_size)
                                    /\ Covered(Senders, Receivers, capacity - m_size))
BY DEF NoLostWakeup, Covered

\* Another coroutine that enters does no harm.
LEMMA CoveredEnter ==
  ASSUME Struct, NEW P, NEW Q, IsFiniteSet(P), IsFiniteSet(Q), P \cup Q = Procs,
         NEW n \in Int, Covered(P, Q, n),
         NEW p \in Procs, pc[p] = "idle", pc' = [pc EXCEPT ![p] = "body"],
         UNCHANGED <<asleep, home>>
  PROVE  Covered(P, Q, n)'
<1>1. \A x \in Procs : pc'[x] = IF x = p THEN "body" ELSE pc[x]
  BY DEF Struct
<1>2. Notifying(Q)' = Notifying(Q)
  BY <1>1 DEF Notifying, Notify
<1>3. Engaged(P) \subseteq Engaged(P)'
  BY <1>1 DEF Engaged
<1>4. IsFiniteSet(Engaged(P)')
  <2>1. Engaged(P)' \subseteq P
    BY DEF Engaged
  <2> QED
    BY <2>1, FS_Subset
<1>5. Cardinality(Engaged(P)) <= Cardinality(Engaged(P)')
  BY <1>3, <1>4, FS_Subset
<1>6. Cardinality(Engaged(P)') \in Nat
  BY <1>4, FS_CardinalityType
<1>7. OneThread(Q)' <=> OneThread(Q)
  BY DEF OneThread
<1> QED
  BY <1>2, <1>5, <1>6, <1>7, CountsFinite DEF Covered

\* Who goes to sleep because there is nothing for it needs no cover, and the
\* other side is not concerned.
LEMMA CoveredSleep ==
  ASSUME Struct, NEW P, NEW Q, IsFiniteSet(P), IsFiniteSet(Q), P \cup Q = Procs, P \cap Q = {},
         NEW n \in Int, Covered(Q, P, n),
         NEW p \in P, asleep' = asleep \cup {p}, UNCHANGED <<pc, home>>
  PROVE  /\ Covered(Q, P, n)'
         /\ \A k \in Int : k = 0 => Covered(P, Q, k)'
<1>1. asleep' \cap Q = asleep \cap Q /\ Engaged(Q)' = Engaged(Q)
  BY DEF Engaged
<1>2. Notifying(P)' = Notifying(P) /\ Notifying(Q)' = Notifying(Q)
  BY DEF Notifying
<1>3. OneThread(P)' <=> OneThread(P)
  BY DEF OneThread
<1>4. Covered(Q, P, n)'
  BY <1>1, <1>2, <1>3 DEF Covered
<1>5. Engaged(P)' \subseteq P /\ Notifying(Q)' \subseteq Q
  BY DEF Engaged, Notifying
<1>6. Cardinality(Engaged(P)') \in Nat /\ Cardinality(Notifying(Q)') \in Nat
  BY <1>5, FS_Subset, FS_CardinalityType
<1> QED
  BY <1>4, <1>6 DEF Covered

\* Who leaves the section takes one from its own side and will notify the other.
LEMMA CoveredLeave ==
  ASSUME Struct, NEW P, NEW Q, IsFiniteSet(P), IsFiniteSet(Q), P \cup Q = Procs, P \cap Q = {},
         NEW k \in Int, NEW n \in Int, Covered(P, Q, k), Covered(Q, P, n),
         NEW p \in P, ~ Suspended(p), pc[p] = "body", pc' = [pc EXCEPT ![p] = "notify"],
         UNCHANGED <<asleep, home>>
  PROVE  /\ \A i \in Int : i = k - 1 => Covered(P, Q, i)'
         /\ \A i \in Int : i = n + 1 => Covered(Q, P, i)'
<1>1. /\ \A x \in Procs : pc'[x] = IF x = p THEN "notify" ELSE pc[x]
      /\ "notify" \in Notify /\ "body" \notin Notify
  BY DEF Struct, Notify
<1>2. Notifying(Q)' = Notifying(Q) /\ Engaged(Q)' = Engaged(Q)
  BY <1>1 DEF Notifying, Engaged
<1>3. p \notin Notifying(P) /\ Notifying(P)' = Notifying(P) \cup {p}
  BY <1>1 DEF Notifying
<1>4. p \in Engaged(P) /\ Engaged(P)' = Engaged(P) \ {p}
  BY <1>1 DEF Engaged, Suspended
<1>5. Cardinality(Notifying(P)') = Cardinality(Notifying(P)) + 1
  BY <1>3, CountsFinite, FS_AddElement
<1>6. Cardinality(Engaged(P)') = Cardinality(Engaged(P)) - 1
  BY <1>4, CountsFinite, FS_RemoveElement
<1>7. /\ Cardinality(Notifying(P)) \in Nat /\ Cardinality(Engaged(P)) \in Nat
      /\ Cardinality(Notifying(Q)) \in Nat /\ Cardinality(Engaged(Q)) \in Nat
  BY CountsFinite
<1>8. (OneThread(P)' <=> OneThread(P)) /\ (OneThread(Q)' <=> OneThread(Q))
  BY DEF OneThread
<1> QED
  BY <1>2, <1>5, <1>6, <1>7, <1>8 DEF Covered

\* A notification under way stays one; when it lets somebody of the other side
\* out, its cover goes over to that one; when it finds nobody, nobody sleeps.
LEMMA CoveredNotify ==
  ASSUME Struct, SleepersOK, NotifiersOK, ReachOK, capacity > 0, NEW P, NEW Q,
         IsFiniteSet(P), IsFiniteSet(Q), P \cup Q = Procs, P \cap Q = {},
         NEW k \in Int, NEW n \in Int, Covered(P, Q, k), Covered(Q, P, n),
         NEW p \in Q, NEW v, v = Notified(p), Q = Side(p), \A x \in P : Others(x) = Q,
         Moved(p, v), pc[p] \in Notify, UNCHANGED <<capacity, home>>
  PROVE  Covered(P, Q, k)' /\ Covered(Q, P, n)'
<1>1. PICK to \in Points : LandsIn(p, v, to)
  BY DEF Moved
<1>2. p \in Procs /\ \A x \in Procs : pc'[x] = IF x = p THEN to ELSE pc[x]
  BY <1>1 DEF Struct, LandsIn, GoesOn
<1>3. (OneThread(P)' <=> OneThread(P)) /\ (OneThread(Q)' <=> OneThread(Q))
  BY DEF OneThread
<1>4. Notifying(P)' = Notifying(P)
  BY <1>2 DEF Notifying
<1>5. p \in Notifying(Q) /\ "body" \notin Notify /\ to # "body"
  BY <1>1 DEF Notifying, Notify, LandsIn, GoesOn
<1>6. /\ Cardinality(Notifying(Q)) \in Nat /\ Cardinality(Engaged(P)) \in Nat
      /\ IsFiniteSet(Notifying(Q)) /\ IsFiniteSet(Engaged(P))
  BY CountsFinite
<1>7. CASE to \in Notify /\ pc[p] # "register"
  <2>1. UNCHANGED asleep
    BY <1>7 DEF Moved
  <2>2. Notifying(Q)' = Notifying(Q) /\ Engaged(Q)' = Engaged(Q) /\ Engaged(P)' = Engaged(P)
    BY <1>2, <1>5, <1>7, <2>1 DEF Notifying, Engaged
  <2> QED
    BY <1>3, <1>4, <2>1, <2>2 DEF Covered
<1>8. CASE to \notin Notify /\ pc[p] # "register"
  <2>1. UNCHANGED asleep
    BY <1>8 DEF Moved
  <2>2. Engaged(Q)' = Engaged(Q)
    BY <1>2, <1>5, <2>1 DEF Engaged
  <2>3. OneThread(Q) => asleep \cap P = {}
    <3> SUFFICES ASSUME OneThread(Q), NEW x \in asleep, x \in P PROVE FALSE
      OBVIOUS
    <3>1. arrivals[v] = <<>> /\ pc[p] = "exchange"
      BY <1>1, <1>8 DEF LandsIn
    <3>2. to_resume[v] = <<>>
      BY <1>2, <3>1 DEF ReachOK
    <3>3. x \in Procs /\ Others(x) = Q /\ CvOf(x) = v
      BY <1>2, SideIs
    <3>4. \E q \in Q : InSeq(x, taken[q])
      <4>1. \/ InSeq(x, arrivals[v]) \/ InSeq(x, to_resume[v])
            \/ \E q \in Q : InSeq(x, taken[q])
        BY <3>3 DEF ReachOK
      <4> QED
        BY <3>1, <3>2, <4>1, EmptyIn
    <3>5. taken[p] = <<>>
      BY <1>2, <3>1 DEF Struct, HandsOK
    <3>6. \A q \in Q : taken[q] = <<>>
      BY <1>2, <3>5, OnlyNotifier
    <3> QED
      BY <3>4, <3>6, EmptyIn
  <2> QED
    BY <1>3, <1>4, <2>1, <2>2, <2>3 DEF Covered
<1>9. CASE pc[p] = "register"
  <2>1. PICK h \in asleep : LetOut(p, v, h)
    BY <1>9 DEF Moved
  <2>2. h \in Procs /\ CvOf(h) = v /\ asleep' = asleep \ {h}
    BY <1>2, <2>1 DEF Struct, ListsOK, LetOut
  <2>3. h \in P /\ h \notin Q /\ pc[h] = "body" /\ h # p
    <3>1. h \notin Q
      <4> SUFFICES ASSUME h \in Q PROVE FALSE
        OBVIOUS
      <4>1. p \in Others(h) /\ Side(h) = Side(p)
        BY <1>2, <2>2, SideIs, Disjoint DEF Side
      <4> QED
        BY <4>1, <1>2, Disjoint DEF Side, Others
    <3>2. pc[h] = "body"
      BY DEF SleepersOK
    <3> QED
      BY <2>2, <3>1, <3>2
  <2>4. Engaged(Q)' = Engaged(Q)
    BY <1>2, <1>5, <2>2, <2>3 DEF Engaged
  <2>5. h \notin Engaged(P) /\ Engaged(P)' = Engaged(P) \cup {h}
    BY <1>2, <2>2, <2>3 DEF Engaged
  <2>6. Cardinality(Engaged(P)') = Cardinality(Engaged(P)) + 1
    BY <1>6, <2>5, FS_AddElement, ZenonT(30)
  <2>7. Notifying(Q) \ {p} \subseteq Notifying(Q)' /\ Notifying(Q)' \subseteq Notifying(Q)
    BY <1>2, <1>5 DEF Notifying
  <2>8. /\ Cardinality(Notifying(Q)') \in Nat
        /\ Cardinality(Notifying(Q)') >= Cardinality(Notifying(Q)) - 1
    <3>1. /\ IsFiniteSet(Notifying(Q)')
          /\ Cardinality(Notifying(Q) \ {p}) = Cardinality(Notifying(Q)) - 1
      BY <1>5, <1>6, <2>7, FS_Subset, FS_RemoveElement
    <3> QED
      BY <2>7, <3>1, FS_Subset, FS_CardinalityType
  <2>9. Covered(P, Q, k)'
    <3> SUFFICES ASSUME OneThread(Q)
                 PROVE  k <= Cardinality(Notifying(Q)') + Cardinality(Engaged(P)')
      BY <1>3 DEF Covered
    <3>1. k <= Cardinality(Notifying(Q)) + Cardinality(Engaged(P))
      BY <2>2, <2>3, <2>1 DEF Covered
    <3> QED
      BY <1>6, <2>6, <2>8, <3>1
  <2>10. Covered(Q, P, n)'
    <3>1. asleep' \cap Q = asleep \cap Q
      BY <2>2, <2>3
    <3> QED
      BY <1>3, <1>4, <2>4, <3>1 DEF Covered
  <2> QED
    BY <2>9, <2>10
<1> QED
  BY <1>7, <1>8, <1>9
-----------------------------------------------------------------------------
\* Items.

\* The index i places after f in a ring of c slots.
LEMMA RingMod ==
  ASSUME NEW c \in Nat, c > 0, NEW f \in 0..c - 1, NEW i \in 0..c
  PROVE  (f + i) % c = IF f + i < c THEN f + i ELSE f + i - c
BY SMT

\* The data part of the type invariant.
DataType ==
  /\ m_buf \in [0..capacity -> Values \cup {Null}] /\ m_buf[capacity] = Null
  /\ m_size \in 0..capacity
  /\ m_first \in 0..capacity /\ m_last \in 0..capacity
  /\ capacity > 0 => m_first < capacity /\ m_last < capacity
  /\ m_receiver \in Receivers \cup {Null}
  /\ m_has_sender \in BOOLEAN
  /\ item \in [Receivers -> Values \cup {Null}]
  /\ sent \in Seq(Values) /\ got \in Seq(Values)

\* TypeOK is the data part and that of Struct.
LEMMA TypeParts ==
  /\ TypeOK => capacity \in Nat /\ DataType
  /\ Struct /\ DataType /\ capacity \in Capacities => TypeOK
BY ChannelAssumption DEF TypeOK, DataType, Struct, LockType, ListTypes, Points

\* The invariant contains Struct.
LEMMA InvStruct == ChannelInv => Struct /\ DataType
BY TypeParts DEF ChannelInv, ItemsInOrder, TypeOK, Struct, LockType, ListTypes, Points

Full == {r \in Receivers : item[r] # Null}

\* The content of a buffered channel, slot by slot.
LEMMA ContentRing ==
  ASSUME capacity \in Nat, DataType, capacity > 0
  PROVE  /\ Content \in Seq(Values \cup {Null}) /\ Len(Content) = m_size
         /\ \A i \in 1..m_size : Content[i] = m_buf[(m_first + i - 1) % capacity]
<1>1. Content = [i \in 1..m_size |-> m_buf[(m_first + i - 1) % capacity]] /\ m_size \in Nat
  BY DEF Content, DataType
<1>2. ASSUME NEW i \in 1..m_size PROVE m_buf[(m_first + i - 1) % capacity] \in Values \cup {Null}
  <2>1. i - 1 \in 0..capacity /\ m_first \in 0..capacity - 1 /\ m_first + i - 1 = m_first + (i - 1)
    BY <1>1 DEF DataType
  <2>2. (m_first + i - 1) % capacity \in 0..capacity
    BY <2>1, RingMod DEF DataType
  <2> QED
    BY <2>2 DEF DataType
<1> QED
  BY <1>1, <1>2

\* ... and of an unbuffered one.
SlotContent == capacity = 0 => /\ Full = {} => Content = <<>>
                               /\ \A r : Full = {r} => Content = <<item[r]>>

\* Full decides what an unbuffered channel holds.
LEMMA ContentSlot == SlotContent
<1> SUFFICES ASSUME capacity = 0
             PROVE  /\ Full = {} => Content = <<>>
                    /\ \A r : Full = {r} => Content = <<item[r]>>
  BY DEF SlotContent
<1>0. ~ (capacity > 0)
  OBVIOUS
<1>1. Content = IF Full = {} THEN <<>> ELSE <<item[CHOOSE x \in Full : TRUE]>>
  BY <1>0, Zenon DEF Content, Full
<1>2. ASSUME NEW r, Full = {r} PROVE Content = <<item[r]>>
  <2>1. Full # {} /\ (CHOOSE x \in Full : TRUE) = r
    BY <1>2
  <2> QED
    BY <1>1, <2>1
<1> QED
  BY <1>1, <1>2

\* push_one() appends to the content ...
LEMMA PushAppends ==
  ASSUME capacity \in Nat, DataType, RingOK, capacity > 0, m_size # capacity, NEW x \in Values,
         m_buf' = [m_buf EXCEPT ![m_last] = x], PushOne, UNCHANGED <<capacity, m_first>>,
         DataType'
  PROVE  Content' = Append(Content, x) /\ RingOK'
<1>1. /\ m_first \in 0..capacity - 1 /\ m_last \in 0..capacity - 1 /\ m_size \in 0..capacity - 1
      /\ m_size' = m_size + 1
  BY DEF DataType, PushOne
<1>2. m_last = (m_first + m_size) % capacity
  BY DEF RingOK
<1>3. m_last = IF m_first + m_size < capacity THEN m_first + m_size ELSE m_first + m_size - capacity
  BY <1>1, <1>2, RingMod
<1>4. RingOK'
  <2>1. (m_first + (m_size + 1)) % capacity
          = IF m_first + (m_size + 1) < capacity THEN m_first + (m_size + 1)
            ELSE m_first + (m_size + 1) - capacity
    BY <1>1, RingMod
  <2>2. m_last' = (m_first + (m_size + 1)) % capacity
    BY <1>1, <1>3, <2>1 DEF PushOne
  <2> QED
    BY <1>1, <2>2 DEF RingOK
<1>5. /\ Content \in Seq(Values \cup {Null}) /\ Len(Content) = m_size
      /\ \A i \in 1..m_size : Content[i] = m_buf[(m_first + i - 1) % capacity]
  BY ContentRing
<1>6. /\ Content' \in Seq(Values \cup {Null}) /\ Len(Content') = m_size + 1
      /\ \A i \in 1..m_size + 1 : Content'[i] = m_buf'[(m_first + i - 1) % capacity]
  <2>1. /\ capacity' \in Nat /\ DataType' /\ capacity' > 0
    OBVIOUS
  <2>2. Content' = [i \in 1..m_size' |-> m_buf'[(m_first' + i - 1) % capacity']]
    BY DEF Content
  <2>3. Content' = [i \in 1..m_size + 1 |-> m_buf'[(m_first + i - 1) % capacity]]
    BY <1>1, <2>2
  <2>4. ASSUME NEW i \in 1..m_size + 1
        PROVE  m_buf'[(m_first + i - 1) % capacity] \in Values \cup {Null}
    <3>1. i - 1 \in 0..capacity /\ m_first + i - 1 = m_first + (i - 1)
      BY <1>1
    <3>2. (m_first + i - 1) % capacity \in 0..capacity
      BY <1>1, <3>1, RingMod
    <3> QED
      BY <3>2 DEF DataType
  <2> QED
    BY <1>1, <2>3, <2>4
<1>7. ASSUME NEW i \in 1..m_size PROVE Content'[i] = Content[i]
  <2>1. i - 1 \in 0..capacity - 1 /\ i - 1 < m_size /\ m_first + i - 1 = m_first + (i - 1)
    BY <1>1
  <2>2. PICK d : d = (m_first + i - 1) % capacity
    OBVIOUS
  <2>3. d = IF m_first + (i - 1) < capacity THEN m_first + (i - 1) ELSE m_first + (i - 1) - capacity
    BY <1>1, <2>1, <2>2, RingMod
  <2>4. d \in 0..capacity - 1 /\ d # m_last
    BY <1>1, <1>3, <2>1, <2>3
  <2>5. m_buf'[d] = m_buf[d]
    BY <2>4 DEF DataType
  <2>6. i \in 1..m_size + 1
    BY <1>1
  <2> QED
    BY <1>5, <1>6, <2>2, <2>5, <2>6
<1>8. Content'[m_size + 1] = x
  <2>1. m_size + 1 \in 1..m_size + 1 /\ m_first + (m_size + 1) - 1 = m_first + m_size
    BY <1>1
  <2>2. m_buf'[m_last] = x
    BY <1>1 DEF DataType
  <2> QED
    BY <1>2, <1>6, <2>1, <2>2
<1>9. Append(Content, x) \in Seq(Values \cup {Null}) /\ Len(Append(Content, x)) = m_size + 1
  BY <1>5
<1>10. \A i \in 1..m_size + 1 : Content'[i] = Append(Content, x)[i]
  BY <1>1, <1>5, <1>7, <1>8
<1> QED
  BY <1>4, <1>6, <1>9, <1>10

\* ... and pop_one() takes its head.
LEMMA PopTakesHead ==
  ASSUME capacity \in Nat, DataType, RingOK, capacity > 0, m_size # 0,
         m_buf' = [m_buf EXCEPT ![m_first] = Null], PopOne, UNCHANGED <<capacity, m_last>>,
         DataType'
  PROVE  /\ Content # <<>> /\ Head(Content) = m_buf[m_first] /\ Content' = Tail(Content)
         /\ RingOK'
<1>1. /\ m_first \in 0..capacity - 1 /\ m_last \in 0..capacity - 1 /\ m_size \in 1..capacity
      /\ m_size' = m_size - 1 /\ m_first' \in 0..capacity - 1
      /\ m_first' = IF m_first + 1 = capacity THEN 0 ELSE m_first + 1
  BY DEF DataType, PopOne
<1>2. m_last = IF m_first + m_size < capacity THEN m_first + m_size ELSE m_first + m_size - capacity
  BY <1>1, RingMod DEF RingOK
<1>3. RingOK'
  <2>1. m_size - 1 \in 0..capacity
    BY <1>1
  <2>2. (m_first' + (m_size - 1)) % capacity
          = IF m_first' + (m_size - 1) < capacity THEN m_first' + (m_size - 1)
            ELSE m_first' + (m_size - 1) - capacity
    BY <1>1, <2>1, RingMod
  <2>3. m_last = (m_first' + (m_size - 1)) % capacity
    BY <1>1, <1>2, <2>2
  <2> QED
    BY <1>1, <2>3 DEF RingOK
<1>4. /\ Content \in Seq(Values \cup {Null}) /\ Len(Content) = m_size
      /\ \A i \in 1..m_size : Content[i] = m_buf[(m_first + i - 1) % capacity]
  BY ContentRing
<1>5. /\ Content' \in Seq(Values \cup {Null}) /\ Len(Content') = m_size - 1
      /\ \A i \in 1..m_size - 1 : Content'[i] = m_buf'[(m_first' + i - 1) % capacity]
  <2>1. Content' = [i \in 1..m_size' |-> m_buf'[(m_first' + i - 1) % capacity']]
    BY DEF Content
  <2>2. Content' = [i \in 1..m_size - 1 |-> m_buf'[(m_first' + i - 1) % capacity]]
    BY <1>1, <2>1
  <2>3. ASSUME NEW i \in 1..m_size - 1
        PROVE  m_buf'[(m_first' + i - 1) % capacity] \in Values \cup {Null}
    <3>1. i - 1 \in 0..capacity /\ m_first' + i - 1 = m_first' + (i - 1)
      BY <1>1
    <3>2. (m_first' + i - 1) % capacity \in 0..capacity
      BY <1>1, <3>1, RingMod
    <3> QED
      BY <3>2 DEF DataType
  <2> QED
    BY <1>1, <2>2, <2>3
<1>6. ASSUME NEW i \in 1..m_size - 1 PROVE Content'[i] = Content[i + 1]
  <2>1. /\ i - 1 \in 0..capacity /\ m_first' + i - 1 = m_first' + (i - 1)
        /\ i \in 0..capacity /\ i < capacity /\ m_first + (i + 1) - 1 = m_first + i
        /\ i + 1 \in 1..m_size
    BY <1>1
  <2>2. (m_first' + (i - 1)) % capacity = IF m_first' + (i - 1) < capacity THEN m_first' + (i - 1)
                                          ELSE m_first' + (i - 1) - capacity
    BY <1>1, <2>1, RingMod
  <2>3. (m_first + i) % capacity = IF m_first + i < capacity THEN m_first + i
                                   ELSE m_first + i - capacity
    BY <1>1, <2>1, RingMod
  <2>4. PICK d : d = (m_first + i) % capacity
    OBVIOUS
  <2>5. (m_first' + (i - 1)) % capacity = d /\ d \in 0..capacity /\ d # m_first
    BY <1>1, <2>1, <2>2, <2>3, <2>4
  <2>6. m_buf'[d] = m_buf[d]
    BY <2>5 DEF DataType
  <2> QED
    BY <1>4, <1>5, <2>1, <2>4, <2>5, <2>6
<1>7. Content[1] = m_buf[m_first]
  <2>1. 1 \in 1..m_size /\ m_first + 1 - 1 = m_first + 0 /\ 0 \in 0..capacity
    BY <1>1
  <2>2. (m_first + 0) % capacity = m_first
    BY <1>1, <2>1, RingMod
  <2> QED
    BY <1>4, <2>1, <2>2
<1>8. Content # <<>> /\ Head(Content) = m_buf[m_first]
  BY <1>1, <1>4, <1>7
<1>9. Tail(Content) \in Seq(Values \cup {Null}) /\ Len(Tail(Content)) = m_size - 1
  BY <1>1, <1>4, <1>8
<1>10. \A i \in 1..m_size - 1 : Content'[i] = Tail(Content)[i]
  BY <1>1, <1>4, <1>6, <1>8
<1> QED
  BY <1>3, <1>5, <1>8, <1>9, <1>10

\* The history after the first item was taken.
LEMMA HistoryPop ==
  ASSUME NEW S, NEW g \in Seq(S), NEW c \in Seq(S), c # <<>>
  PROVE  g \o c = Append(g, Head(c)) \o Tail(c)
<1>1. Tail(c) \in Seq(S) /\ Head(c) \in S /\ Len(Tail(c)) = Len(c) - 1 /\ Len(c) \in Nat /\ Len(c) >= 1
  OBVIOUS
<1>2. Append(g, Head(c)) \in Seq(S) /\ Len(Append(g, Head(c))) = Len(g) + 1
  BY <1>1
<1>3. /\ Len(g \o c) = Len(g) + Len(c)
      /\ Len(Append(g, Head(c)) \o Tail(c)) = Len(g) + 1 + (Len(c) - 1)
  BY <1>1, <1>2
<1>4. ASSUME NEW i \in 1..Len(g) + Len(c)
      PROVE  (g \o c)[i] = (Append(g, Head(c)) \o Tail(c))[i]
  <2>1. CASE i <= Len(g)
    BY <1>1, <1>2, <2>1
  <2>2. CASE i = Len(g) + 1
    BY <1>1, <1>2, <2>2
  <2>3. CASE i > Len(g) + 1
    <3>1. i - Len(g) \in 1..Len(c) /\ i - (Len(g) + 1) \in 1..Len(c) - 1
      BY <1>1, <2>3
    <3>2. (g \o c)[i] = c[i - Len(g)]
      BY <1>1, <2>3, <3>1
    <3>3. (Append(g, Head(c)) \o Tail(c))[i] = Tail(c)[i - (Len(g) + 1)]
      BY <1>1, <1>2, <2>3, <3>1
    <3>4. Tail(c)[i - (Len(g) + 1)] = c[i - (Len(g) + 1) + 1]
      BY <1>1, <3>1
    <3>5. i - (Len(g) + 1) + 1 = i - Len(g)
      BY <1>1
    <3> QED
      BY <3>2, <3>3, <3>4, <3>5
  <2> QED
    BY <1>1, <2>1, <2>2, <2>3
<1> QED
  BY <1>1, <1>2, <1>3, <1>4

\* m_acquire_mtx: one receiver at a time is past it.
LEMMA OneInside ==
  ASSUME Struct, capacity = 0, NEW r \in Receivers, pc[r] \notin {"idle", "outer"}
  PROVE  lock["acquire"].owner = r
<1>1. r \in Procs /\ Outer(r) = "acquire" /\ "acquire" \in Mutexes /\ "acquire" # "mtx"
  BY ChannelAssumption DEF Procs, Outer, Mutexes
<1>2. Wants("acquire", r)
  BY <1>1 DEF Wants
<1>3. In(lock, "acquire", r) /\ ~ InSeq(r, lock["acquire"].queue)
  BY <1>1, <1>2 DEF Struct, LocksOK
<1> QED
  BY <1>3 DEF In

\* What a receiver was given is all there is.
LEMMA FullIs ==
  ASSUME Struct, DataType, HandOverOK, NEW r \in Receivers, item[r] # Null
  PROVE  Full = {r} /\ capacity = 0
<1>1. ASSUME NEW x \in Receivers, item[x] # Null
      PROVE  capacity = 0 /\ lock["acquire"].owner = x
  <2>1. x \in Procs /\ pc[x] = "wait"
    BY <1>1 DEF HandOverOK, Procs
  <2>2. capacity = 0
    BY <2>1 DEF Struct, PathsOK, Notify
  <2> QED
    BY <2>1, <2>2, OneInside
<1> QED
  BY <1>1 DEF Full

\* A step that leaves the data alone, and a receiver that waits or notifies there.
LEMMA QuietStep ==
  ASSUME ChannelInv, Struct',
         UNCHANGED <<capacity, m_buf, m_first, m_last, m_size, m_receiver, item, sent, got>>,
         m_has_sender' \in BOOLEAN,
         \A r \in Receivers : /\ pc[r] = "wait" => pc'[r] = "wait"
                              /\ capacity = 0 /\ pc[r] \in Notify => pc'[r] \in {"wait"} \cup Notify
  PROVE  RingOK' /\ HandOverOK' /\ ItemsInOrder'
<1>1. DataType' /\ capacity' \in Capacities
  BY InvStruct DEF DataType, ChannelInv, ItemsInOrder, TypeOK
<1>2. TypeOK'
  BY <1>1 DEF TypeOK, DataType, Struct, LockType, ListTypes, Points
<1>3. RingOK'
  BY DEF ChannelInv, RingOK
<1>4. HandOverOK'
  <2>1. HandOverOK /\ m_receiver \in Receivers \cup {Null} /\ UNCHANGED <<capacity, m_receiver, item>>
    BY InvStruct DEF ChannelInv, DataType
  <2>2. m_receiver # Null => pc'[m_receiver] \in {"wait"} \cup Notify
    BY <2>1 DEF HandOverOK
  <2> QED
    BY <2>1, <2>2 DEF HandOverOK
<1>5. Content' = Content
  BY DEF Content
<1>6. ItemsInOrder'
  BY <1>2, <1>5 DEF ChannelInv, ItemsInOrder
<1> QED
  BY <1>3, <1>4, <1>6

\* At most one receiver holds an item.
LEMMA FullAtMostOne ==
  Struct /\ DataType /\ HandOverOK => Cardinality(Full) <= 1
<1> SUFFICES ASSUME Struct, DataType, HandOverOK PROVE Cardinality(Full) <= 1
  OBVIOUS
<1>1. CASE Full = {}
  BY <1>1, FS_EmptySet
<1>2. CASE Full # {}
  <2>1. PICK r \in Receivers : item[r] # Null
    BY <1>2 DEF Full
  <2>2. Full = {r}
    BY <2>1, FullIs
  <2>3. Cardinality({r}) = 1
    BY FS_Singleton
  <2> QED
    BY <2>2, <2>3
<1> QED
  BY <1>1, <1>2

\* A step that keeps the parts keeps the whole.
LEMMA AssembleItems ==
  ASSUME Struct', DataType', HandOverOK', capacity' \in Capacities, sent' = got' \o Content'
  PROVE  ItemsInOrder'
<1>1. TypeOK'
  BY DEF TypeOK, DataType, Struct, LockType, ListTypes, Points
<1>2. (Cardinality(Full) <= 1)'
  BY FullAtMostOne, PTL
<1> QED
  BY <1>1, <1>2 DEF ItemsInOrder, Full

\* Item(s) is an item.
LEMMA ItemOK ==
  ASSUME Struct, NEW s \in Senders
  PROVE  Item(s) \in Values /\ Item(s) # Null
<1>1. s \in Procs /\ left[s] \in Nat
  BY DEF Struct, Procs
<1>2. Item(s) \in Values
  BY <1>1 DEF Item, Values
<1> QED
  BY <1>2, ChannelAssumption

-----------------------------------------------------------------------------
\* The invariant holds at the start, and every action keeps it.

\* Nothing is sent, nobody waits.
LEMMA ChannelInvInit == Init => ChannelInv
<1> SUFFICES ASSUME Init PROVE ChannelInv
  OBVIOUS
<1>1. /\ \A m \in Mutexes : lock[m].owner = Null /\ lock[m].queue = <<>>
      /\ asleep = {} /\ \A v \in Cvs : arrivals[v] = <<>> /\ to_resume[v] = <<>>
      /\ \A p \in Procs : pc[p] = "idle" /\ taken[p] = <<>>
      /\ \A r \in Receivers : item[r] = Null
      /\ capacity \in Nat /\ Null \notin Procs
  BY ChannelAssumption DEF Init, Procs
<1>2. lock \in LockType
  <2>1. [owner |-> Null, queue |-> <<>>] \in [owner : Procs \cup {Null}, queue : Seq(Procs)]
    OBVIOUS
  <2> QED
    BY <2>1 DEF Init, LockType
<1>3. LocksOK
  <2>1. \A m \in Mutexes : LockShape(lock, m) /\ \A p \in Procs : ~ In(lock, m, p)
    BY <1>1, EmptyIn DEF LockShape, In
  <2>2. \A m \in Mutexes, p \in Procs : ~ Wants(m, p)
    BY <1>1 DEF Wants, Notify
  <2>3. \A p \in Procs : ~ InSeq(p, lock[Outer(p)].queue) /\ ~ InSeq(p, lock["mtx"].queue)
    BY <1>1, OuterIs, EmptyIn DEF Mutexes
  <2> QED
    BY <2>1, <2>2, <2>3 DEF LocksOK
<1>4. SleepersOK /\ ListsOK /\ HandsOK
  BY <1>1, EmptyIn DEF SleepersOK, ListsOK, HandsOK
<1>a. NotifiersOK /\ ReachOK
  BY <1>1 DEF NotifiersOK, ReachOK, Notify
<1>5. PathsOK
  BY <1>1 DEF PathsOK
<1>6. Struct
  <2>1. pc \in [Procs -> Points] /\ left \in [Procs -> Nat] /\ home \in Homes
    BY ChannelAssumption DEF Init, Points, Procs
  <2>2. ListTypes
    BY DEF Init, ListTypes
  <2> QED
    BY <1>1, <1>2, <1>3, <1>4, <1>5, <2>1, <2>2 DEF Struct
<1>7. DataType
  <2>1. m_buf \in [0..capacity -> Values \cup {Null}] /\ m_buf[capacity] = Null
    BY <1>1 DEF Init
  <2>2. item \in [Receivers -> Values \cup {Null}] /\ sent \in Seq(Values) /\ got \in Seq(Values)
    BY DEF Init
  <2>3. m_has_sender \in BOOLEAN /\ m_receiver \in Receivers \cup {Null}
    BY DEF Init
  <2>4. 0 \in 0..capacity
    BY <1>1
  <2> QED
    BY <2>1, <2>2, <2>3, <2>4 DEF Init, DataType
<1>8. HandOverOK /\ Full = {}
  BY <1>1 DEF HandOverOK, Init, Full
<1>9. RingOK
  <2>1. capacity > 0 => (0 + 0) % capacity = 0
    BY <1>1, RingMod
  <2> QED
    BY <2>1 DEF RingOK, Init
<1>10. Content = <<>>
  <2>1. CASE capacity > 0
    BY <2>1 DEF Content, Init
  <2>2. CASE capacity = 0
    BY <1>8, <2>2, ContentSlot DEF SlotContent
  <2> QED
    BY <1>1, <2>1, <2>2
<1>11. ItemsInOrder
  <2>1. TypeOK
    BY <1>6, <1>7, TypeParts DEF Init
  <2>2. Cardinality(Full) <= 1
    BY <1>6, <1>7, <1>8, FullAtMostOne
  <2>3. sent = got \o Content
    BY <1>10 DEF Init
  <2> QED
    BY <2>1, <2>2, <2>3 DEF ItemsInOrder, Full
<1>12. NoLostWakeup
  BY <1>1 DEF NoLostWakeup
<1> QED
  BY <1>3, <1>4, <1>5, <1>8, <1>9, <1>11, <1>12, <1>a DEF ChannelInv

\* Putting the parts together.
LEMMA Assemble ==
  ASSUME Struct', NotifiersOK', ReachOK', RingOK', HandOverOK', ItemsInOrder', NoLostWakeup'
  PROVE  ChannelInv'
BY DEF ChannelInv, Struct

\* The step of an operation outside notify_one() that leaves the lists.
LEMMA ThreadsAway ==
  ASSUME ChannelInv, NEW p \in Procs, NEW to, to \notin {"exchange", "splice"}, Alone(p),
         pc' = [pc EXCEPT ![p] = to], UNCHANGED <<capacity, asleep, lists, home>>
  PROVE  NotifiersOK' /\ ReachOK'
BY InvStruct, NotifiersStep, ReachAway DEF ChannelInv

\* The step that goes to sleep.
LEMMA ThreadsSleep ==
  ASSUME ChannelInv, NEW p \in Procs, NEW v \in Cvs, v = CvOf(p), Wait(v, p), Alone(p),
         NEW to, to \notin {"exchange", "splice"}, pc' = [pc EXCEPT ![p] = to],
         UNCHANGED <<capacity, home>>
  PROVE  NotifiersOK' /\ ReachOK'
BY InvStruct, NotifiersStep, ReachSleep DEF ChannelInv

\* Facts about the sides that every count needs.
LEMMA Sides ==
  /\ IsFiniteSet(Senders) /\ IsFiniteSet(Receivers)
  /\ Senders \cup Receivers = Procs /\ Receivers \cup Senders = Procs
  /\ Senders \cap Receivers = {} /\ Receivers \cap Senders = {}
  /\ Senders \subseteq Procs /\ Receivers \subseteq Procs
BY ChannelAssumption DEF Procs

\* Begin: p asks for m_mtx.
LEMMA BeginStep ==
  ASSUME ChannelInv, NEW p \in Procs, Begin(p), Alone(p), UNCHANGED home
  PROVE  ChannelInv'
<1>1. Struct /\ DataType
  BY InvStruct
<1>2. /\ capacity > 0 /\ pc[p] = "idle" /\ ~ Suspended(p) /\ left[p] > 0
      /\ lock' = Lock(lock, "mtx", p) /\ pc' = [pc EXCEPT ![p] = "body"]
      /\ UNCHANGED <<capacity, data, asleep, lists, left, sent, got, home>>
  BY DEF Begin, At, Goto
<1>3. Struct'
  BY <1>1, <1>2, Enters DEF Mutexes
<1>4. NotifiersOK' /\ ReachOK'
  BY <1>2, ThreadsAway
<1>5. RingOK' /\ HandOverOK' /\ ItemsInOrder'
  <2>1. \A x \in Receivers : pc[x] = "wait" => pc'[x] = "wait"
    BY <1>1, <1>2, Sides DEF Struct
  <2> QED
    BY <1>1, <1>2, <1>3, <2>1, QuietStep DEF data, DataType
<1>6. /\ Covered(Receivers, Senders, m_size) /\ Covered(Senders, Receivers, capacity - m_size)
      /\ m_size \in Int /\ capacity - m_size \in Int
  BY <1>1, <1>2, WakeupCovered DEF ChannelInv, DataType, Struct
<1>7. PICK n \in Int, k \in Int : n = m_size /\ k = capacity - m_size
  BY <1>6
<1>8. Covered(Receivers, Senders, n)' /\ Covered(Senders, Receivers, k)'
  BY <1>1, <1>2, <1>6, <1>7, Sides, CoveredEnter
<1>9. NoLostWakeup'
  BY <1>2, <1>7, <1>8 DEF Covered, NoLostWakeup, data
<1> QED
  BY <1>3, <1>4, <1>5, <1>9, Assemble

\* ReleaseFull: the buffer is full.
LEMMA ReleaseFullStep ==
  ASSUME ChannelInv, NEW s \in Senders, ReleaseFull(s), Alone(s), UNCHANGED home
  PROVE  ChannelInv'
<1>1. Struct /\ DataType /\ s \in Procs /\ capacity \in Nat
  BY InvStruct, Sides DEF Struct
<1>2. /\ capacity > 0 /\ pc[s] = "body" /\ ~ Suspended(s) /\ m_size = capacity
      /\ Wait("not_full", s) /\ pc' = [pc EXCEPT ![s] = "body"]
      /\ UNCHANGED <<capacity, data, pc, left, sent, got, home>>
  BY <1>1 DEF ReleaseFull, At, Struct
<1>3. "not_full" \in Cvs /\ CvOf(s) = "not_full" /\ capacity # 0
  BY <1>1, <1>2, Disjoint DEF Cvs, CvOf
<1>4. Struct'
  BY <1>1, <1>2, <1>3, Sleeps
<1>5. NotifiersOK' /\ ReachOK'
  BY <1>1, <1>2, <1>3, ThreadsSleep
<1>6. RingOK' /\ HandOverOK' /\ ItemsInOrder'
  BY <1>1, <1>2, <1>4, QuietStep DEF data, DataType
<1>7. /\ Covered(Receivers, Senders, m_size)
      /\ m_size \in Int /\ capacity - m_size = 0 /\ asleep' = asleep \cup {s}
  BY <1>1, <1>2, WakeupCovered DEF ChannelInv, DataType, Wait
<1>8. PICK n \in Int : n = m_size
  BY <1>7
<1>9. Covered(Receivers, Senders, n)' /\ \A k \in Int : k = 0 => Covered(Senders, Receivers, k)'
  BY <1>1, <1>2, <1>7, <1>8, Sides, CoveredSleep
<1>10. NoLostWakeup'
  <2>1. Covered(Senders, Receivers, 0)'
    BY <1>9
  <2>2. UNCHANGED <<capacity, m_size>>
    BY <1>2 DEF data
  <2> QED
    BY <1>1, <1>7, <1>8, <1>9, <2>1, <2>2 DEF Covered, NoLostWakeup
<1> QED
  BY <1>4, <1>5, <1>6, <1>10, Assemble

\* AcquireEmpty: the buffer is empty.
LEMMA AcquireEmptyStep ==
  ASSUME ChannelInv, NEW r \in Receivers, AcquireEmpty(r), Alone(r), UNCHANGED home
  PROVE  ChannelInv'
<1>1. Struct /\ DataType /\ r \in Procs /\ capacity \in Nat
  BY InvStruct, Sides DEF Struct
<1>2. /\ capacity > 0 /\ pc[r] = "body" /\ ~ Suspended(r) /\ m_size = 0
      /\ Wait("not_empty", r) /\ pc' = [pc EXCEPT ![r] = "body"]
      /\ UNCHANGED <<capacity, data, pc, left, sent, got, home>>
  BY <1>1 DEF AcquireEmpty, At, Struct
<1>3. "not_empty" \in Cvs /\ CvOf(r) = "not_empty" /\ capacity # 0
  BY <1>1, <1>2, Disjoint DEF Cvs, CvOf
<1>4. Struct'
  BY <1>1, <1>2, <1>3, Sleeps
<1>5. NotifiersOK' /\ ReachOK'
  BY <1>1, <1>2, <1>3, ThreadsSleep
<1>6. RingOK' /\ HandOverOK' /\ ItemsInOrder'
  BY <1>1, <1>2, <1>4, QuietStep DEF data, DataType
<1>7. /\ Covered(Senders, Receivers, capacity - m_size)
      /\ capacity - m_size \in Int /\ m_size = 0 /\ asleep' = asleep \cup {r}
  BY <1>1, <1>2, WakeupCovered DEF ChannelInv, DataType, Wait
<1>8. PICK n \in Int : n = capacity - m_size
  BY <1>7
<1>9. Covered(Senders, Receivers, n)' /\ \A k \in Int : k = 0 => Covered(Receivers, Senders, k)'
  BY <1>1, <1>2, <1>7, <1>8, Sides, CoveredSleep
<1>10. NoLostWakeup'
  <2>1. Covered(Receivers, Senders, 0)'
    BY <1>9
  <2>2. UNCHANGED <<capacity, m_size>>
    BY <1>2 DEF data
  <2> QED
    BY <1>1, <1>7, <1>8, <1>9, <2>1, <2>2 DEF Covered, NoLostWakeup
<1> QED
  BY <1>4, <1>5, <1>6, <1>10, Assemble

\* Where a receiver of an unbuffered channel goes from notify_one().
LEMMA NotifierStays ==
  ASSUME Struct, capacity = 0, NEW p \in Procs, NEW v, Moved(p, v), pc[p] \in Notify
  PROVE  \A x \in Receivers : /\ pc[x] = "wait" => pc'[x] = "wait"
                              /\ pc[x] \in Notify => pc'[x] \in {"wait"} \cup Notify
<1>1. PICK to \in Points : GoesOn(p, to)
  BY DEF Moved, LandsIn
<1>2. \A x \in Procs : pc'[x] = IF x = p THEN to ELSE pc[x]
  BY <1>1 DEF Struct, GoesOn
<1>3. p \in Receivers => to \in {"wait"} \cup Notify
  BY <1>1, Disjoint DEF GoesOn
<1>4. pc[p] # "wait"
  BY DEF Notify
<1> QED
  BY <1>2, <1>3, <1>4, Sides

\* A step of notify_one().
LEMMA NotificationStep ==
  ASSUME ChannelInv, NEW p \in Procs, Notification(p), Alone(p), UNCHANGED home
  PROVE  ChannelInv'
<1>1. Struct /\ DataType /\ SleepersOK /\ NotifiersOK /\ ReachOK /\ capacity \in Nat
  BY InvStruct DEF ChannelInv, Struct
<1>2. PICK v : v = Notified(p)
  OBVIOUS
<1>3. Moved(p, v) /\ pc[p] \in Notify /\ UNCHANGED <<capacity, data, sent, got>>
  BY <1>1, <1>2, NotificationMoves
<1>4. Struct'
  BY <1>1, <1>2, <1>3, NotificationStruct
<1>5. NotifiersOK'
  <2>1. PICK to \in Points : pc' = [pc EXCEPT ![p] = to]
    BY <1>3 DEF Moved, LandsIn, GoesOn
  <2> QED
    BY <1>1, <2>1, NotifiersStep
<1>6. ReachOK'
  BY <1>1, <1>2, <1>3, ReachNotify
<1>7. \A x \in Receivers : /\ pc[x] = "wait" => pc'[x] = "wait"
                           /\ capacity = 0 /\ pc[x] \in Notify => pc'[x] \in {"wait"} \cup Notify
  <2>1. CASE capacity = 0
    BY <1>1, <1>3, <2>1, NotifierStays
  <2>2. CASE capacity > 0
    <3>1. \A x \in Procs : pc[x] # "wait"
      BY <1>1, <2>2 DEF Struct, PathsOK, Notify
    <3> QED
      BY <1>1, <2>2, <3>1, Sides
  <2> QED
    BY <1>1, <2>1, <2>2
<1>8. RingOK' /\ HandOverOK' /\ ItemsInOrder'
  BY <1>1, <1>3, <1>4, <1>7, QuietStep DEF data, DataType
<1>9. NoLostWakeup'
  <2> SUFFICES ASSUME capacity > 0 PROVE NoLostWakeup'
    BY <1>3 DEF NoLostWakeup
  <2>1. /\ Covered(Receivers, Senders, m_size) /\ Covered(Senders, Receivers, capacity - m_size)
        /\ m_size \in Int /\ capacity - m_size \in Int
    BY <1>1, WakeupCovered DEF ChannelInv, DataType
  <2>2. PICK n \in Int, k \in Int : n = m_size /\ k = capacity - m_size
    BY <2>1
  <2>3. Covered(Receivers, Senders, n)' /\ Covered(Senders, Receivers, k)'
    <3>1. CASE p \in Senders
      <4>1. Senders = Side(p) /\ \A x \in Receivers : Others(x) = Senders
        BY <3>1, Disjoint DEF Side, Others
      <4> QED
        BY <1>1, <1>2, <1>3, <2>1, <2>2, <3>1, <4>1, Sides, CoveredNotify
    <3>2. CASE p \in Receivers
      <4>1. Receivers = Side(p) /\ \A x \in Senders : Others(x) = Receivers
        BY <3>2, Disjoint DEF Side, Others
      <4> QED
        BY <1>1, <1>2, <1>3, <2>1, <2>2, <3>2, <4>1, Sides, CoveredNotify
    <3> QED
      BY <3>1, <3>2 DEF Procs
  <2> QED
    BY <1>3, <2>2, <2>3 DEF Covered, NoLostWakeup, data
<1> QED
  BY <1>4, <1>5, <1>6, <1>8, <1>9, Assemble

\* Release: s puts its item behind the others.
LEMMA ReleaseStep ==
  ASSUME ChannelInv, NEW s \in Senders, Release(s), Alone(s), UNCHANGED home
  PROVE  ChannelInv'
<1>1. Struct /\ DataType /\ s \in Procs /\ capacity \in Nat /\ capacity > 0
  BY InvStruct DEF Procs, Struct, Release
<1>2. /\ pc[s] = "body" /\ ~ Suspended(s) /\ pc' = [pc EXCEPT ![s] = "notify"]
      /\ UNCHANGED <<capacity, asleep, lists, left, home>> /\ lock' = Unlock(lock, "mtx")
  BY DEF Release, At, Goto
<1>3. Struct' /\ NotifiersOK' /\ ReachOK'
  <2>0. ~ (capacity = 0) /\ "notify" \in {"notify", "exit"} /\ pc[s] \in {"body", "wait"}
    BY <1>1, <1>2
  <2>1. Struct'
    BY <1>1, <1>2, <2>0, Leaves
  <2> QED
    BY <1>1, <1>2, <2>1, ThreadsAway
<1>4. PICK x \in Values : x = Item(s)
  BY <1>1, ItemOK
<1>5. /\ m_size # capacity /\ m_buf' = [m_buf EXCEPT ![m_last] = x] /\ sent' = Append(sent, x)
      /\ PushOne /\ UNCHANGED <<capacity, m_first, m_receiver, m_has_sender, item, got>>
  BY <1>4 DEF Release
<1>6. /\ m_size \in 0..capacity - 1 /\ m_last \in 0..capacity - 1 /\ m_size' = m_size + 1
      /\ m_last' \in 0..capacity - 1
  BY <1>1, <1>5 DEF DataType, PushOne
<1>7. DataType'
  <2>1. m_buf' \in [0..capacity' -> Values \cup {Null}]
    BY <1>1, <1>5, <1>6 DEF DataType
  <2>2. m_buf'[capacity'] = Null
    <3>1. m_last # capacity /\ capacity \in 0..capacity
      BY <1>1, <1>6
    <3>2. m_buf'[capacity] = m_buf[capacity]
      BY <1>5, <3>1 DEF DataType
    <3> QED
      BY <1>1, <1>5, <3>2 DEF DataType
  <2>3. sent' \in Seq(Values)
    BY <1>1, <1>5 DEF DataType
  <2>4. m_size' \in 0..capacity' /\ m_last' \in 0..capacity' /\ m_last' < capacity'
    BY <1>1, <1>5, <1>6
  <2> QED
    BY <1>1, <1>5, <2>1, <2>2, <2>3, <2>4 DEF DataType
<1>8. Content' = Append(Content, x) /\ RingOK'
  BY <1>1, <1>5, <1>7, PushAppends DEF ChannelInv
<1>9. HandOverOK'
  <2>1. \A r \in Receivers : pc'[r] = pc[r]
    BY <1>1, <1>2, ChannelAssumption DEF Struct, Procs
  <2>2. HandOverOK
    BY DEF ChannelInv
  <2> QED
    BY <1>1, <1>5, <2>1, <2>2 DEF HandOverOK, DataType
<1>10. sent' = got' \o Content'
  <2>1. sent = got \o Content
    BY DEF ChannelInv, ItemsInOrder
  <2>2. PICK V : V = Values \cup {Null}
    OBVIOUS
  <2>3. got \in Seq(V) /\ Content \in Seq(V) /\ x \in V
    BY <1>1, <2>2, ContentRing DEF DataType
  <2>4. Append(got \o Content, x) = got \o Append(Content, x)
    BY <2>3
  <2> QED
    BY <1>5, <1>8, <2>1, <2>4
<1>11. ItemsInOrder'
  BY <1>2, <1>3, <1>7, <1>9, <1>10, AssembleItems DEF ChannelInv, ItemsInOrder, TypeOK
<1>12. NoLostWakeup'
  <2>1. /\ Covered(Receivers, Senders, m_size)
        /\ Covered(Senders, Receivers, capacity - m_size)
    BY <1>1, WakeupCovered DEF ChannelInv
  <2>2. PICK n \in Int, k \in Int : n = m_size /\ k = capacity - m_size
    BY <1>1, <1>6
  <2>3. /\ \A i \in Int : i = k - 1 => Covered(Senders, Receivers, i)'
        /\ \A i \in Int : i = n + 1 => Covered(Receivers, Senders, i)'
    BY <1>1, <1>2, <2>1, <2>2, Sides, CoveredLeave
  <2>4. m_size' \in Int /\ m_size' = n + 1 /\ capacity' - m_size' \in Int /\ capacity' - m_size' = k - 1
    BY <1>1, <1>2, <1>6, <2>2
  <2>5. Covered(Senders, Receivers, k - 1)'
    BY <2>2, <2>3
  <2>6. Covered(Receivers, Senders, n + 1)'
    BY <2>2, <2>3
  <2> QED
    BY <2>4, <2>5, <2>6 DEF NoLostWakeup, Covered
<1> QED
  BY <1>3, <1>8, <1>9, <1>11, <1>12, Assemble

\* Acquire: r takes the oldest item.
LEMMA AcquireStep ==
  ASSUME ChannelInv, NEW r \in Receivers, Acquire(r), Alone(r), UNCHANGED home
  PROVE  ChannelInv'
<1>1. Struct /\ DataType /\ r \in Procs /\ capacity \in Nat /\ capacity > 0
  BY InvStruct DEF Procs, Struct, Acquire
<1>2. /\ pc[r] = "body" /\ ~ Suspended(r) /\ pc' = [pc EXCEPT ![r] = "notify"]
      /\ UNCHANGED <<capacity, asleep, lists, left, home>> /\ lock' = Unlock(lock, "mtx")
  BY DEF Acquire, At, Goto
<1>3. Struct' /\ NotifiersOK' /\ ReachOK'
  <2>0. ~ (capacity = 0) /\ "notify" \in {"notify", "exit"} /\ pc[r] \in {"body", "wait"}
    BY <1>1, <1>2
  <2>1. Struct'
    BY <1>1, <1>2, <2>0, Leaves
  <2> QED
    BY <1>1, <1>2, <2>1, ThreadsAway
<1>4. /\ m_size # 0 /\ m_buf' = [m_buf EXCEPT ![m_first] = Null]
      /\ got' = Append(got, m_buf[m_first])
      /\ PopOne /\ UNCHANGED <<capacity, m_last, m_receiver, m_has_sender, item, sent>>
  BY DEF Acquire
<1>5. /\ m_size \in 1..capacity /\ m_first \in 0..capacity - 1 /\ m_size' = m_size - 1
      /\ m_first' \in 0..capacity - 1
  BY <1>1, <1>4 DEF DataType, PopOne
<1>6. sent = got \o Content /\ got \in Seq(Values \cup {Null}) /\ Content \in Seq(Values \cup {Null})
      /\ Len(Content) = m_size /\ sent \in Seq(Values) /\ got \in Seq(Values)
  BY <1>1, ContentRing DEF ChannelInv, ItemsInOrder, DataType
<1>7. m_buf[m_first] \in Values
  <2>1. Content[1] = m_buf[m_first]
    <3>1. 1 \in 1..m_size /\ m_first + 1 - 1 = m_first + 0 /\ 0 \in 0..capacity
      BY <1>1, <1>5
    <3>2. (m_first + 0) % capacity = m_first
      BY <1>1, <1>5, <3>1, RingMod
    <3> QED
      BY <1>1, <3>1, <3>2, ContentRing
  <2>2. sent[Len(got) + 1] = Content[1] /\ Len(got) + 1 \in 1..Len(sent)
    BY <1>5, <1>6
  <2>3. sent[Len(got) + 1] \in Values
    BY <1>6, <2>2
  <2> QED
    BY <2>1, <2>2, <2>3
<1>8. DataType'
  <2>1. m_buf' \in [0..capacity' -> Values \cup {Null}]
    BY <1>1, <1>4, <1>5 DEF DataType
  <2>2. m_buf'[capacity'] = Null
    <3>1. m_first # capacity /\ capacity \in 0..capacity
      BY <1>1, <1>5
    <3>2. m_buf'[capacity] = m_buf[capacity]
      BY <1>4, <3>1 DEF DataType
    <3> QED
      BY <1>1, <1>4, <3>2 DEF DataType
  <2>3. got' \in Seq(Values)
    BY <1>4, <1>6, <1>7
  <2>4. m_size' \in 0..capacity' /\ m_first' \in 0..capacity' /\ m_first' < capacity'
    BY <1>1, <1>4, <1>5
  <2> QED
    BY <1>1, <1>4, <2>1, <2>2, <2>3, <2>4 DEF DataType
<1>9. /\ Content # <<>> /\ Head(Content) = m_buf[m_first] /\ Content' = Tail(Content)
      /\ RingOK'
  BY <1>1, <1>4, <1>8, PopTakesHead DEF ChannelInv
<1>10. HandOverOK'
  <2>1. \A x \in Receivers : pc[x] = "wait" => pc'[x] = "wait"
    BY <1>1, <1>2 DEF Struct, Procs
  <2>2. HandOverOK /\ m_receiver = Null
    BY <1>1 DEF ChannelInv, HandOverOK
  <2> QED
    BY <1>1, <1>4, <2>1, <2>2 DEF HandOverOK
<1>11. sent' = got' \o Content'
  <2>1. got \o Content = Append(got, Head(Content)) \o Tail(Content)
    BY <1>6, <1>9, HistoryPop
  <2> QED
    BY <1>4, <1>6, <1>9, <2>1
<1>12. ItemsInOrder'
  BY <1>2, <1>3, <1>8, <1>10, <1>11, AssembleItems DEF ChannelInv, ItemsInOrder, TypeOK
<1>13. NoLostWakeup'
  <2>1. /\ Covered(Receivers, Senders, m_size)
        /\ Covered(Senders, Receivers, capacity - m_size)
    BY <1>1, WakeupCovered DEF ChannelInv
  <2>2. PICK n \in Int, k \in Int : n = m_size /\ k = capacity - m_size
    BY <1>1, <1>5
  <2>3. /\ \A i \in Int : i = n - 1 => Covered(Receivers, Senders, i)'
        /\ \A i \in Int : i = k + 1 => Covered(Senders, Receivers, i)'
    BY <1>1, <1>2, <2>1, <2>2, Sides, CoveredLeave
  <2>4. m_size' \in Int /\ m_size' = n - 1 /\ capacity' - m_size' \in Int /\ capacity' - m_size' = k + 1
    BY <1>1, <1>2, <1>5, <2>2
  <2>5. Covered(Receivers, Senders, n - 1)'
    BY <2>2, <2>3
  <2>6. Covered(Senders, Receivers, k + 1)'
    BY <2>2, <2>3
  <2> QED
    BY <2>4, <2>5, <2>6 DEF NoLostWakeup, Covered
<1> QED
  BY <1>3, <1>9, <1>10, <1>12, <1>13, Assemble

\* The steps of an unbuffered channel outside notify_one() that touch neither
\* m_receiver nor an item.
LEMMA UnbufferedQuiet ==
  ASSUME ChannelInv, NEW p \in Procs, Alone(p), UNCHANGED home,
         \/ LockOuter(p) \/ LockMatch(p) \/ AwaitMatch(p) \/ UnlockOuter(p)
         \/ p \in Senders /\ Announce(p)
  PROVE  ChannelInv'
<1>1. Struct /\ DataType /\ PathsOK
  BY InvStruct DEF ChannelInv
<1>2. capacity = 0 /\ capacity' = 0
  BY <1>1 DEF PathsOK, Struct, LockOuter, LockMatch, AwaitMatch, UnlockOuter, Announce, At, Notify
<1>7. "match" \in Cvs /\ CvOf(p) = "match" /\ ~ (capacity > 0)
  BY <1>2 DEF Cvs, CvOf
<1>3. /\ UNCHANGED <<capacity, m_buf, m_first, m_last, m_size, m_receiver, item, sent, got>>
      /\ m_has_sender' \in BOOLEAN
  BY <1>1 DEF LockOuter, LockMatch, AwaitMatch, UnlockOuter, Announce, data, DataType
<1>4. /\ Struct' /\ NotifiersOK' /\ ReachOK'
      /\ \A r \in Receivers : /\ pc[r] = "wait" => pc'[r] = "wait"
                              /\ pc[r] \in Notify => pc'[r] \in {"wait"} \cup Notify
  <2>0. ASSUME NEW to, pc' = [pc EXCEPT ![p] = to], to # "wait" => pc[p] # "wait", pc[p] \notin Notify
        PROVE  \A r \in Receivers : /\ pc[r] = "wait" => pc'[r] = "wait"
                                    /\ pc[r] \in Notify => pc'[r] \in {"wait"} \cup Notify
    BY <1>1, <2>0, Sides DEF Struct
  <2>1. CASE LockOuter(p)
    <3>1. /\ pc[p] = "idle" /\ ~ Suspended(p) /\ left[p] > 0 /\ pc' = [pc EXCEPT ![p] = "outer"]
          /\ lock' = Lock(lock, Outer(p), p) /\ UNCHANGED <<capacity, asleep, lists, left, home>>
      BY <2>1 DEF LockOuter, At, Goto
    <3>2. Struct'
      BY <1>1, <1>2, <3>1, OuterIs, Enters
    <3>3. NotifiersOK' /\ ReachOK'
      BY <3>1, ThreadsAway
    <3> QED
      BY <2>0, <3>1, <3>2, <3>3 DEF Notify
  <2>2. CASE LockMatch(p)
    <3>1. /\ pc[p] = "outer" /\ ~ Suspended(p) /\ pc' = [pc EXCEPT ![p] = "body"]
          /\ lock' = Lock(lock, "mtx", p) /\ UNCHANGED <<capacity, asleep, lists, left, home>>
      BY <2>2 DEF LockMatch, At, Goto
    <3>2. left[p] > 0 /\ "mtx" \in Mutexes
      BY <1>1, <3>1 DEF PathsOK, Mutexes
    <3>3. Struct'
      BY <1>1, <3>1, <3>2, Enters
    <3>4. NotifiersOK' /\ ReachOK'
      BY <3>1, ThreadsAway
    <3> QED
      BY <2>0, <3>1, <3>3, <3>4 DEF Notify
  <2>3. CASE AwaitMatch(p)
    <3>1. /\ pc[p] = "wait" /\ ~ Suspended(p) /\ pc' = [pc EXCEPT ![p] = "wait"]
          /\ Wait("match", p) /\ UNCHANGED <<capacity, left, home>>
      BY <1>1, <2>3 DEF AwaitMatch, At, Struct
    <3>2. Struct'
      BY <1>1, <1>2, <1>7, <3>1, Sleeps
    <3>3. NotifiersOK' /\ ReachOK'
      BY <1>7, <3>1, ThreadsSleep
    <3> QED
      BY <2>0, <3>1, <3>2, <3>3 DEF Notify
  <2>4. CASE UnlockOuter(p)
    <3>1. /\ pc[p] = "exit" /\ ~ Suspended(p) /\ pc' = [pc EXCEPT ![p] = "idle"]
          /\ left' = [left EXCEPT ![p] = left[p] - 1]
          /\ lock' = Unlock(lock, Outer(p)) /\ UNCHANGED <<capacity, asleep, lists, home>>
      BY <2>4 DEF UnlockOuter, At, Done, Goto
    <3>2. Struct'
      BY <1>1, <3>1, LeavesOuter
    <3>3. NotifiersOK' /\ ReachOK'
      BY <3>1, ThreadsAway
    <3> QED
      BY <2>0, <3>1, <3>2, <3>3 DEF Notify
  <2>5. CASE p \in Senders /\ Announce(p)
    <3>1. /\ pc[p] = "body" /\ ~ Suspended(p) /\ pc' = [pc EXCEPT ![p] = "wait"]
          /\ Wait("match", p) /\ UNCHANGED <<capacity, left, home>>
      BY <1>1, <2>5 DEF Announce, At, Goto
    <3>2. Struct'
      BY <1>1, <1>2, <1>7, <3>1, Sleeps
    <3>3. NotifiersOK' /\ ReachOK'
      BY <1>7, <3>1, ThreadsSleep
    <3> QED
      BY <2>0, <3>1, <3>2, <3>3 DEF Notify
  <2> QED
    BY <2>1, <2>2, <2>3, <2>4, <2>5
<1>5. RingOK' /\ HandOverOK' /\ ItemsInOrder'
  BY <1>1, <1>3, <1>4, QuietStep
<1>6. NoLostWakeup'
  BY <1>2 DEF NoLostWakeup
<1> QED
  BY <1>4, <1>5, <1>6, Assemble

\* Offer: r is the receiver on offer.
LEMMA OfferStep ==
  ASSUME ChannelInv, NEW r \in Receivers, Offer(r), Alone(r), UNCHANGED home
  PROVE  ChannelInv'
<1>1. Struct /\ DataType /\ HandOverOK /\ r \in Procs
  BY InvStruct DEF ChannelInv, Procs
<1>a. PICK to \in {"notify", "wait"} : to = IF m_has_sender THEN "notify" ELSE "wait"
  OBVIOUS
<1>2. /\ capacity = 0 /\ pc[r] = "body" /\ ~ Suspended(r) /\ pc' = [pc EXCEPT ![r] = to]
      /\ m_receiver' = r
      /\ UNCHANGED <<capacity, lock, asleep, lists, left, home>>
      /\ UNCHANGED <<m_buf, m_first, m_last, m_size, m_has_sender, item, sent, got>>
  BY <1>a DEF Offer, At, Goto
<1>3. Struct' /\ NotifiersOK' /\ ReachOK'
  <2>1. Struct'
    BY <1>1, <1>2, Offers
  <2> QED
    BY <1>1, <1>2, <2>1, ThreadsAway
<1>4. \A x \in Procs : pc'[x] = IF x = r THEN to ELSE pc[x]
  BY <1>1, <1>2 DEF Struct
<1>b. to \in {"wait"} \cup Notify
  BY DEF Notify
<1>5. ASSUME NEW x \in Receivers PROVE item[x] = Null
  <2> SUFFICES ASSUME item[x] # Null PROVE FALSE
    OBVIOUS
  <2>1. pc[x] = "wait"
    BY <1>1 DEF HandOverOK
  <2>2. lock["acquire"].owner = x /\ lock["acquire"].owner = r
    BY <1>1, <1>2, <2>1, OneInside
  <2> QED
    BY <1>2, <2>1, <2>2
<1>6. HandOverOK'
  BY <1>1, <1>2, <1>4, <1>5, <1>b DEF HandOverOK
<1>7. DataType'
  BY <1>1, <1>2 DEF DataType
<1>8. Content' = Content /\ sent = got \o Content /\ capacity' \in Capacities
  BY <1>2 DEF Content, ChannelInv, ItemsInOrder, TypeOK
<1>9. ItemsInOrder'
  BY <1>2, <1>3, <1>6, <1>7, <1>8, AssembleItems
<1>10. RingOK' /\ NoLostWakeup'
  BY <1>2 DEF RingOK, NoLostWakeup
<1> QED
  BY <1>3, <1>6, <1>9, <1>10, Assemble

\* Fill: s gives its item to the receiver on offer.
LEMMA FillStep ==
  ASSUME ChannelInv, NEW s \in Senders, Fill(s), Alone(s), UNCHANGED home
  PROVE  ChannelInv'
<1>1. Struct /\ DataType /\ HandOverOK /\ s \in Procs
  BY InvStruct DEF ChannelInv, Procs
<1>2. /\ capacity = 0 /\ pc[s] \in {"body", "wait"} /\ ~ Suspended(s)
      /\ pc' = [pc EXCEPT ![s] = "notify"] /\ m_receiver # Null /\ m_receiver' = Null
      /\ lock' = Unlock(lock, "mtx")
      /\ UNCHANGED <<capacity, asleep, lists, left, home>>
      /\ UNCHANGED <<m_buf, m_first, m_last, m_size, m_has_sender, got>>
  BY DEF Fill, At, Goto
<1>3. Struct' /\ NotifiersOK' /\ ReachOK'
  <2>1. Struct'
    BY <1>1, <1>2, Leaves
  <2> QED
    BY <1>1, <1>2, <2>1, ThreadsAway
<1>4. PICK x \in Values : x = Item(s) /\ x # Null
  BY <1>1, ItemOK
<1>5. PICK r \in Receivers : r = m_receiver
  BY <1>1, <1>2 DEF DataType
<1>6. /\ item' = [item EXCEPT ![r] = x] /\ sent' = Append(sent, x)
  BY <1>4, <1>5 DEF Fill
<1>7. pc[r] = "wait" /\ item[r] = Null
  <2>1. lock["mtx"].owner = s /\ r # s /\ item[r] = Null
    BY <1>1, <1>2, <1>5, OwnsMtx, Disjoint DEF HandOverOK
  <2>2. pc[r] \notin Notify
    BY <1>1, <1>2, <2>1, OwnsMatch
  <2> QED
    BY <1>1, <1>2, <1>5, <2>1, <2>2 DEF HandOverOK
<1>8. ASSUME NEW y \in Receivers PROVE item[y] = Null
  <2> SUFFICES ASSUME item[y] # Null PROVE FALSE
    OBVIOUS
  <2>1. pc[y] = "wait"
    BY <1>1 DEF HandOverOK
  <2>2. lock["acquire"].owner = y /\ lock["acquire"].owner = r
    BY <1>1, <1>2, <1>7, <2>1, OneInside
  <2> QED
    BY <1>7, <2>2
<1>9. /\ item' \in [Receivers -> Values \cup {Null}] /\ item'[r] = x
      /\ \A y \in Receivers : y # r => item'[y] = Null
  BY <1>1, <1>6, <1>8 DEF DataType
<1>10. \A y \in Receivers : pc'[y] = pc[y]
  BY <1>1, <1>2, ChannelAssumption DEF Struct, Procs
<1>11. HandOverOK'
  BY <1>2, <1>7, <1>9, <1>10, ChannelAssumption DEF HandOverOK
<1>12. DataType'
  <2>1. sent' \in Seq(Values)
    BY <1>1, <1>6 DEF DataType
  <2> QED
    BY <1>1, <1>2, <1>9, <2>1 DEF DataType
<1>13. Content = <<>> /\ Content' = <<x>>
  <2>1. Full = {} /\ Full' = {r}
    BY <1>4, <1>8, <1>9 DEF Full
  <2>2. Content = <<>>
    BY <1>2, <2>1, ContentSlot DEF SlotContent
  <2>3. SlotContent'
    BY ContentSlot, PTL
  <2> QED
    BY <1>2, <1>9, <2>1, <2>2, <2>3 DEF SlotContent
<1>14. sent' = got' \o Content'
  <2>1. sent = got \o Content /\ sent \in Seq(Values) /\ got \in Seq(Values)
    BY <1>1 DEF ChannelInv, ItemsInOrder, DataType
  <2>2. sent = got
    BY <1>13, <2>1
  <2>3. Append(got, x) = got \o <<x>>
    BY <2>1
  <2> QED
    BY <1>2, <1>6, <1>13, <2>2, <2>3
<1>15. ItemsInOrder'
  BY <1>2, <1>3, <1>11, <1>12, <1>14, AssembleItems DEF ChannelInv, ItemsInOrder, TypeOK
<1>16. RingOK' /\ NoLostWakeup'
  BY <1>2 DEF RingOK, NoLostWakeup
<1> QED
  BY <1>3, <1>11, <1>15, <1>16, Assemble

\* Take: r returns with what it was given.
LEMMA TakeStep ==
  ASSUME ChannelInv, NEW r \in Receivers, Take(r), Alone(r), UNCHANGED home
  PROVE  ChannelInv'
<1>1. Struct /\ DataType /\ HandOverOK /\ r \in Procs
  BY InvStruct DEF ChannelInv, Procs
<1>2. /\ pc[r] = "wait" /\ ~ Suspended(r) /\ item[r] # Null
      /\ pc' = [pc EXCEPT ![r] = "exit"] /\ m_has_sender' = FALSE
      /\ lock' = Unlock(lock, "mtx") /\ got' = Append(got, item[r])
      /\ item' = [item EXCEPT ![r] = Null]
      /\ UNCHANGED <<capacity, asleep, lists, left, home>>
      /\ UNCHANGED <<m_buf, m_first, m_last, m_size, m_receiver, sent>>
  BY DEF Take, At, Goto
<1>3. Full = {r} /\ capacity = 0
  BY <1>1, <1>2, FullIs
<1>4. Struct' /\ NotifiersOK' /\ ReachOK'
  <2>1. ~ (capacity > 0)
    BY <1>3
  <2>2. Struct'
    BY <1>1, <1>2, <2>1, Leaves
  <2> QED
    BY <1>1, <1>2, <2>2, ThreadsAway
<1>5. /\ item' \in [Receivers -> Values \cup {Null}]
      /\ \A y \in Receivers : item'[y] = Null
  BY <1>1, <1>2, <1>3 DEF DataType, Full
<1>6. HandOverOK'
  <2>1. m_receiver # r
    BY <1>1, <1>2 DEF HandOverOK
  <2>2. \A y \in Receivers : y # r => pc'[y] = pc[y]
    BY <1>1, <1>2 DEF Struct, Procs
  <2> QED
    BY <1>1, <1>2, <1>5, <2>1, <2>2 DEF HandOverOK, DataType
<1>7. item[r] \in Values
  BY <1>1, <1>2 DEF DataType
<1>8. DataType'
  <2>1. got' \in Seq(Values)
    BY <1>1, <1>2, <1>7 DEF DataType
  <2> QED
    BY <1>1, <1>2, <1>5, <2>1 DEF DataType
<1>9. Content = <<item[r]>> /\ Content' = <<>>
  <2>1. Full' = {}
    BY <1>5 DEF Full
  <2>2. Content = <<item[r]>>
    BY <1>3, ContentSlot DEF SlotContent
  <2>3. SlotContent'
    BY ContentSlot, PTL
  <2> QED
    BY <1>2, <1>3, <2>1, <2>2, <2>3 DEF SlotContent
<1>10. sent' = got' \o Content'
  <2>1. sent = got \o Content /\ sent \in Seq(Values) /\ got \in Seq(Values)
    BY <1>1 DEF ChannelInv, ItemsInOrder, DataType
  <2>2. sent = Append(got, item[r])
    BY <1>7, <1>9, <2>1
  <2>3. got' \o <<>> = got'
    BY <1>8 DEF DataType
  <2> QED
    BY <1>2, <1>9, <2>2, <2>3
<1>11. ItemsInOrder'
  BY <1>2, <1>4, <1>6, <1>8, <1>10, AssembleItems DEF ChannelInv, ItemsInOrder, TypeOK
<1>12. RingOK' /\ NoLostWakeup'
  BY <1>2, <1>3 DEF RingOK, NoLostWakeup
<1> QED
  BY <1>4, <1>6, <1>11, <1>12, Assemble

\* Every step keeps the invariant.
LEMMA ChannelInvStep == ChannelInv /\ [Next]_vars => ChannelInv'
<1> SUFFICES ASSUME ChannelInv, [Next]_vars PROVE ChannelInv'
  OBVIOUS
<1>1. ASSUME NEW p \in Procs, Step(p) PROVE ChannelInv'
  <2>0. Alone(p) /\ UNCHANGED home
    BY <1>1 DEF Step
  <2>1. CASE p \in Senders /\ Sender(p)
    <3>1. CASE ReleaseFull(p)
      BY <2>0, <2>1, <3>1, ReleaseFullStep
    <3>2. CASE Release(p)
      BY <2>0, <2>1, <3>2, ReleaseStep
    <3>3. CASE Announce(p)
      BY <2>0, <2>1, <3>3, UnbufferedQuiet
    <3>4. CASE Fill(p)
      BY <2>0, <2>1, <3>4, FillStep
    <3> QED
      BY <2>1, <3>1, <3>2, <3>3, <3>4 DEF Sender
  <2>2. CASE p \in Receivers /\ Receiver(p)
    <3>1. CASE AcquireEmpty(p)
      BY <2>0, <2>2, <3>1, AcquireEmptyStep
    <3>2. CASE Acquire(p)
      BY <2>0, <2>2, <3>2, AcquireStep
    <3>3. CASE Offer(p)
      BY <2>0, <2>2, <3>3, OfferStep
    <3>4. CASE Take(p)
      BY <2>0, <2>2, <3>4, TakeStep
    <3> QED
      BY <2>2, <3>1, <3>2, <3>3, <3>4 DEF Receiver
  <2>3. CASE Begin(p)
    BY <2>0, <2>3, BeginStep
  <2>4. CASE Notification(p)
    BY <2>0, <2>4, NotificationStep
  <2>5. CASE LockOuter(p) \/ LockMatch(p) \/ AwaitMatch(p) \/ UnlockOuter(p)
    BY <2>0, <2>5, UnbufferedQuiet
  <2> QED
    BY <1>1, <2>1, <2>2, <2>3, <2>4, <2>5 DEF Step
<1>2. CASE UNCHANGED vars
  <2>1. LocksOK' /\ SleepersOK' /\ ListsOK' /\ HandsOK' /\ PathsOK' /\ NotifiersOK'
    BY <1>2 DEF vars, lists, ChannelInv, LocksOK, SleepersOK, ListsOK, HandsOK, PathsOK, NotifiersOK,
                Wants, Outer, CvOf, Notified
  <2>2. ReachOK'
    BY <1>2 DEF vars, lists, ChannelInv, ReachOK, OneThread, CvOf, Notified
  <2>3. RingOK' /\ HandOverOK' /\ ItemsInOrder'
    <3>1. Struct'
      BY <1>2, <2>1, InvStruct DEF vars, lists, Struct, ListTypes
    <3> QED
      BY <1>2, <3>1, InvStruct, QuietStep DEF vars, data, DataType
  <2>4. NoLostWakeup'
    BY <1>2 DEF vars, data, ChannelInv, NoLostWakeup, Notifying, Engaged, OneThread
  <2> QED
    BY <2>1, <2>2, <2>3, <2>4 DEF ChannelInv
<1> QED
  BY <1>1, <1>2 DEF Next

\* Whatever the capacity, items come out of channel<T, capacity> in the order in
\* which release() put them in, none lost, doubled or overwritten, and an
\* unbuffered channel hands over one at a time.
THEOREM ChannelKeepsOrder == Spec => []ItemsInOrder
<1>1. ChannelInv => ItemsInOrder
  BY DEF ChannelInv
<1> QED
  BY <1>1, ChannelInvInit, ChannelInvStep, PTL DEF Spec

\* notify_one() after the unlock misses nobody, on whatever threads those who
\* sleep run, if those who notify them share one: who sleeps on not_empty or
\* not_full while there is something for it is matched by a notification to come
\* or by one of its side that is awake.
THEOREM ChannelMissesNoWakeup == Spec => []NoLostWakeup
<1>1. ChannelInv => NoLostWakeup
  BY DEF ChannelInv
<1> QED
  BY <1>1, ChannelInvInit, ChannelInvStep, PTL DEF Spec

\* One coroutine at a time runs between lock() and unlock() of m_mtx.
OneInSection ==
  \A p, q \in Procs : /\ pc[p] \in {"body", "wait"} /\ ~ Suspended(p)
                      /\ pc[q] \in {"body", "wait"} /\ ~ Suspended(q)
                      => p = q

\* The sections of release(), acquire() and drop() exclude each other although
\* condition variables hand the mutex on: what they do to m_first, m_last,
\* m_size and m_receiver is one step, as it is modelled.
THEOREM ChannelSectionsExclusive == Spec => []OneInSection
<1>1. ChannelInv => OneInSection
  BY InvStruct, OwnsMtx DEF OneInSection
<1> QED
  BY <1>1, ChannelInvInit, ChannelInvStep, PTL DEF Spec

-----------------------------------------------------------------------------
\* The condition variable and its mutex.

\* Who is queued for the mutex is suspended, or on the way there after a
\* notifier was faster; a notifier has somebody in hand where it registers or
\* reverses.
CvQueueOK ==
  /\ Uniq(queue)
  /\ \A w \in Waiters : InSeq(w, queue) => cv_pc[w] \in {"suspended", "unlock_ahead"}
  /\ \A n \in Notifiers :
       cv_pc[n] \in {"n_reverse", "n_splice", "n_register", "a_next", "a_next2"}
         => local[n].head \in Waiters

CvInv == CvConstants /\ LockHeldOnResume /\ CvQueueOK

\* InQueue is membership.
LEMMA CvInQueue == \A w : InQueue(w) <=> InSeq(w, queue)
BY DEF InQueue, InSeq

\* The lock is free and nobody waits.
LEMMA CvInvInit == CvConstants /\ CvInit => CvInv
<1> SUFFICES ASSUME CvConstants, CvInit PROVE CvInv
  OBVIOUS
<1>1. queue \in Seq(Waiters)
  BY DEF CvInit
<1>9. stale \in BOOLEAN
  BY DEF CvInit
<1>2. local \in [Notifiers -> [head : Ptr, succ : Ptr, pred : Ptr, tail : Ptr]]
  BY DEF CvInit, Ptr, NoLocals
<1>3. cv_pc \in [Actors -> WaiterPc \cup NotifierPc]
  BY DEF CvInit, WaiterPc
<1>4. next \in [Waiters -> Ptr]
  BY DEF CvInit, Ptr
<1>5. CvTypeOK
  BY <1>1, <1>2, <1>3, <1>4, <1>9 DEF CvInit, CvTypeOK, Ptr
<1>6. \A p \in Actors : cv_pc[p] = "idle"
  BY DEF CvInit
<1>7. LockHeldOnResume
  BY <1>5, <1>6 DEF LockHeldOnResume, CvInit, CvConstants, Actors
<1>8. CvQueueOK
  BY <1>6, EmptyIn DEF CvQueueOK, CvInit, Actors
<1> QED
  BY <1>7, <1>8 DEF CvInv

\* The parts of the invariant that the mutex and the pcs decide.
CvLock ==
  /\ owner \in Ptr /\ queue \in Seq(Waiters) /\ Uniq(queue)
  /\ cv_pc \in [Actors -> WaiterPc \cup NotifierPc]
  /\ \A w \in Waiters : cv_pc[w] \in {"granted", "critical", "unlock_ahead"} <=> owner = w
  /\ owner = nullptr => queue = <<>>
  /\ \A w \in Waiters : InSeq(w, queue) => cv_pc[w] \in {"suspended", "unlock_ahead"}

\* It follows from the invariant.
LEMMA CvInvLock == CvInv => CvLock
BY DEF CvInv, CvLock, CvQueueOK, LockHeldOnResume, CvTypeOK

\* unlock() by w, who goes to `to': the first in the queue, w itself perhaps,
\* is resumed as the owner.
LEMMA CvUnlocks ==
  ASSUME CvConstants, CvLock, NEW w \in Waiters, owner = w,
         NEW to \in {"idle", "suspended"}, to = "idle" => ~ InSeq(w, queue),
         UnlockMutex(w, to)
  PROVE  CvLock' /\ \A n \in Notifiers : cv_pc'[n] = cv_pc[n]
<1>1. /\ w \in Actors /\ w \notin Notifiers /\ to \in WaiterPc /\ "granted" \in WaiterPc
      /\ nullptr \notin Waiters /\ Waiters \subseteq Actors /\ Notifiers \subseteq Actors
  BY DEF CvConstants, Actors, WaiterPc
<1>2. CASE queue = <<>>
  <2>1. owner' = nullptr /\ queue' = <<>> /\ cv_pc' = [cv_pc EXCEPT ![w] = to]
    BY <1>2 DEF UnlockMutex
  <2>2. cv_pc' \in [Actors -> WaiterPc \cup NotifierPc]
    BY <1>1, <2>1 DEF CvLock
  <2>3. \A x \in Actors : cv_pc'[x] = IF x = w THEN to ELSE cv_pc[x]
    BY <1>1, <2>1 DEF CvLock
  <2>4. \A x \in Waiters : cv_pc'[x] \in {"granted", "critical", "unlock_ahead"} <=> owner' = x
    BY <1>1, <2>1, <2>3 DEF CvLock
  <2>5. queue' \in Seq(Waiters) /\ owner' \in Ptr
    BY <2>1 DEF Ptr
  <2> QED
    BY <1>1, <2>1, <2>2, <2>3, <2>4, <2>5, EmptyIn DEF CvLock
<1>3. CASE queue # <<>>
  <2>1. PICK h : h = Head(queue)
    OBVIOUS
  <2>2. /\ h \in Waiters /\ InSeq(h, queue) /\ Tail(queue) \in Seq(Waiters) /\ Uniq(Tail(queue))
        /\ \A y : InSeq(y, Tail(queue)) <=> InSeq(y, queue) /\ y # h
    BY <1>3, <2>1, TailIn DEF CvLock
  <2>3. /\ owner' = h /\ queue' = Tail(queue)
        /\ cv_pc' = [cv_pc EXCEPT ![w] = to, ![h] = "granted"]
    BY <1>3, <2>1 DEF UnlockMutex
  <2>4. cv_pc' \in [Actors -> WaiterPc \cup NotifierPc]
    BY <1>1, <2>2, <2>3 DEF CvLock
  <2>5. \A x \in Actors : cv_pc'[x] = IF x = h THEN "granted" ELSE IF x = w THEN to ELSE cv_pc[x]
    BY <1>1, <2>2, <2>3 DEF CvLock
  <2>6. \A x \in Waiters : cv_pc'[x] \in {"granted", "critical", "unlock_ahead"} <=> owner' = x
    BY <1>1, <2>3, <2>5 DEF CvLock
  <2>7. ASSUME NEW x \in Waiters, InSeq(x, queue') PROVE cv_pc'[x] \in {"suspended", "unlock_ahead"}
    <3>1. InSeq(x, queue) /\ x # h
      BY <2>2, <2>3, <2>7
    <3> QED
      BY <1>1, <2>5, <3>1 DEF CvLock
  <2>8. owner' \in Ptr /\ owner' # nullptr
    BY <1>1, <2>2, <2>3 DEF Ptr
  <2>9. \A n \in Notifiers : cv_pc'[n] = cv_pc[n]
    BY <1>1, <2>2, <2>5 DEF CvConstants
  <2> QED
    BY <2>2, <2>3, <2>4, <2>6, <2>7, <2>8, <2>9 DEF CvLock
<1> QED
  BY <1>2, <1>3

\* A step of notifier n that leaves the mutex alone.
LEMMA CvMoves ==
  ASSUME CvConstants, CvLock, NEW n \in Notifiers, NEW to \in NotifierPc,
         owner' = owner, queue' = queue, cv_pc' = [cv_pc EXCEPT ![n] = to]
  PROVE  CvLock' /\ cv_pc'[n] = to /\ \A m \in Notifiers \ {n} : cv_pc'[m] = cv_pc[m]
<1>1. n \in Actors /\ n \notin Waiters /\ Waiters \subseteq Actors /\ Notifiers \subseteq Actors
  BY DEF CvConstants, Actors
<1>2. cv_pc' \in [Actors -> WaiterPc \cup NotifierPc]
  BY <1>1 DEF CvLock
<1>3. \A x \in Actors : cv_pc'[x] = IF x = n THEN to ELSE cv_pc[x]
  BY <1>1 DEF CvLock
<1>4. \A x \in Waiters : cv_pc'[x] = cv_pc[x]
  BY <1>1, <1>3
<1> QED
  BY <1>1, <1>2, <1>3, <1>4 DEF CvLock

\* register_awaiting() by n.
LEMMA CvRegisters ==
  ASSUME CvConstants, CvLock, NEW n \in Notifiers, NEW w \in Waiters, NEW to \in NotifierPc,
         Register(n, w, to)
  PROVE  CvLock' /\ cv_pc'[n] = to /\ \A m \in Notifiers \ {n} : cv_pc'[m] = cv_pc[m]
<1>1. /\ n \in Actors /\ w \in Actors /\ n # w /\ n \notin Waiters /\ w \notin Notifiers
      /\ "granted" \in WaiterPc /\ nullptr \notin Waiters /\ Waiters \subseteq Actors
      /\ Notifiers \subseteq Actors
  BY DEF CvConstants, Actors, WaiterPc
<1>2. CASE owner' = owner /\ queue' = queue /\ cv_pc' = [cv_pc EXCEPT ![n] = to]
  BY <1>2, CvMoves
<1>3. CASE /\ cv_pc[w] \in {"suspended", "unlock_ahead"} /\ ~ InSeq(w, queue)
           /\ owner = nullptr /\ owner' = w /\ queue' = queue
           /\ cv_pc' = [cv_pc EXCEPT ![n] = to, ![w] = "granted"]
  <2>1. cv_pc' \in [Actors -> WaiterPc \cup NotifierPc]
    BY <1>1, <1>3 DEF CvLock
  <2>2. \A x \in Actors : cv_pc'[x] = IF x = w THEN "granted" ELSE IF x = n THEN to ELSE cv_pc[x]
    BY <1>1, <1>3 DEF CvLock
  <2>3. queue = <<>>
    BY <1>3 DEF CvLock
  <2>4. \A x \in Waiters : cv_pc'[x] \in {"granted", "critical", "unlock_ahead"} <=> owner' = x
    BY <1>1, <1>3, <2>2 DEF CvLock
  <2>5. owner' \in Ptr /\ owner' # nullptr
    BY <1>1, <1>3 DEF Ptr
  <2> QED
    BY <1>1, <1>3, <2>1, <2>2, <2>3, <2>4, <2>5, EmptyIn DEF CvLock
<1>4. CASE /\ cv_pc[w] \in {"suspended", "unlock_ahead"} /\ ~ InSeq(w, queue)
           /\ owner # nullptr /\ owner' = owner /\ queue' = Append(queue, w)
           /\ cv_pc' = [cv_pc EXCEPT ![n] = to]
  <2>1. cv_pc' \in [Actors -> WaiterPc \cup NotifierPc]
    BY <1>1, <1>4 DEF CvLock
  <2>2. \A x \in Actors : cv_pc'[x] = IF x = n THEN to ELSE cv_pc[x]
    BY <1>1, <1>4 DEF CvLock
  <2>3. \A x \in Waiters : cv_pc'[x] = cv_pc[x]
    BY <1>1, <2>2
  <2>4. /\ queue' \in Seq(Waiters) /\ Uniq(queue')
        /\ \A y : InSeq(y, queue') <=> InSeq(y, queue) \/ y = w
    BY <1>4, AppendIn DEF CvLock
  <2> QED
    BY <1>1, <1>4, <2>1, <2>2, <2>3, <2>4 DEF CvLock
<1> QED
  BY <1>2, <1>3, <1>4, CvInQueue DEF Register

\* What the mutex does not decide: the cv's lists and the notifiers' locals.
CvLists == /\ {awaiting, to_resume_head, to_resume_tail} \subseteq Ptr
           /\ next \in [Waiters -> Ptr]
           /\ local \in [Notifiers -> [head : Ptr, succ : Ptr, pred : Ptr, tail : Ptr]]

\* A notifier has somebody in hand where it reverses, registers or advances.
CvHands(n) == cv_pc[n] \in {"n_reverse", "n_splice", "n_register", "a_next", "a_next2"}
                => local[n].head \in Waiters

CvRest == setup \in Setups /\ stale \in BOOLEAN /\ \A n \in Notifiers : CvHands(n)

\* The invariant, split.
LEMMA CvSplit == CvInv <=> CvConstants /\ CvLock /\ CvLists /\ CvRest
BY DEF CvInv, CvLock, CvLists, CvRest, CvHands, CvQueueOK, LockHeldOnResume, CvTypeOK

\* Constants do not change.
LEMMA CvConstantsStay == CvConstants => CvConstants'
BY DEF CvConstants

\* Pointers.
LEMMA CvPtr == ASSUME CvConstants
               PROVE  /\ nullptr \in Ptr /\ nullptr \notin Waiters /\ Waiters \subseteq Ptr
                      /\ \A x \in Ptr : x # nullptr => x \in Waiters
BY DEF CvConstants, Ptr

\* A coroutine's step on the mutex.
LEMMA CvWaiterStep ==
  ASSUME CvInv, NEW w \in Waiters, UNCHANGED setup,
         AwaitLock(w) \/ AwaitWait(w) \/ WaiterStep(w)
  PROVE  CvInv'
<1>1. /\ CvConstants /\ CvLock /\ CvLists /\ setup \in Setups /\ stale \in BOOLEAN
      /\ \A n \in Notifiers : CvHands(n)
  BY CvSplit DEF CvRest
<1>2. /\ w \in Actors /\ w \notin Notifiers /\ nullptr \notin Waiters /\ Waiters \subseteq Actors
      /\ Notifiers \subseteq Actors
      /\ {"idle", "critical", "unlock_ahead", "suspended", "granted"} \subseteq WaiterPc
  BY <1>1 DEF CvConstants, Actors, WaiterPc
<1>3. local' = local /\ stale' = stale
  BY DEF AwaitLock, AwaitWait, WaiterStep, Resume, GuardUnlock, UnlockAhead
<1>4. CvLists'
  <2>1. CASE AwaitWait(w)
    <3>1. /\ awaiting \in Ptr /\ awaiting' = w /\ next' = [next EXCEPT ![w] = awaiting]
          /\ to_resume_head' = to_resume_head /\ to_resume_tail' = to_resume_tail
      BY <1>1, <2>1 DEF CvLists, AwaitWait
    <3>2. next' \in [Waiters -> Ptr]
      BY <1>1, <3>1 DEF CvLists
    <3> QED
      BY <1>1, <1>3, <3>1, <3>2, CvPtr DEF CvLists
  <2>2. CASE ~ AwaitWait(w)
    <3>1. UNCHANGED cvars
      BY <2>2 DEF AwaitLock, WaiterStep, Resume, GuardUnlock, UnlockAhead
    <3> QED
      BY <1>1, <1>3, <3>1 DEF CvLists, cvars
  <2> QED
    BY <2>1, <2>2
<1>5. CvLock' /\ \A n \in Notifiers : cv_pc'[n] = cv_pc[n]
  <2>1. CASE GuardUnlock(w)
    <3>1. cv_pc[w] = "critical" /\ UnlockMutex(w, "idle")
      BY <2>1 DEF GuardUnlock
    <3>2. owner = w /\ ~ InSeq(w, queue)
      BY <1>1, <3>1 DEF CvLock
    <3> QED
      BY <1>1, <3>1, <3>2, CvUnlocks
  <2>2. CASE UnlockAhead(w)
    <3>1. cv_pc[w] = "unlock_ahead" /\ UnlockMutex(w, "suspended")
      BY <2>2 DEF UnlockAhead
    <3>2. owner = w
      BY <1>1, <3>1 DEF CvLock
    <3> QED
      BY <1>1, <3>1, <3>2, CvUnlocks
  <2>3. CASE \/ Resume(w)
             \/ AwaitWait(w)
    <3>1. PICK to : /\ cv_pc[w] \in {"granted", "critical"} /\ to \in {"critical", "unlock_ahead"}
                    /\ cv_pc' = [cv_pc EXCEPT ![w] = to]
      BY <2>3 DEF Resume, AwaitWait, Moves
    <3>2. owner' = owner /\ queue' = queue
      BY <2>3 DEF Resume, AwaitWait
    <3>3. cv_pc' \in [Actors -> WaiterPc \cup NotifierPc]
      BY <1>1, <1>2, <3>1 DEF CvLock
    <3>4. \A x \in Actors : cv_pc'[x] = IF x = w THEN to ELSE cv_pc[x]
      BY <1>1, <1>2, <3>1 DEF CvLock
    <3>5. owner = w /\ ~ InSeq(w, queue)
      BY <1>1, <3>1 DEF CvLock
    <3>6. \A x \in Waiters : cv_pc'[x] \in {"granted", "critical", "unlock_ahead"} <=> owner' = x
      BY <1>1, <1>2, <3>1, <3>2, <3>4, <3>5 DEF CvLock
    <3>7. \A x \in Waiters : InSeq(x, queue') => cv_pc'[x] \in {"suspended", "unlock_ahead"}
      BY <1>1, <1>2, <3>2, <3>4, <3>5 DEF CvLock
    <3> QED
      BY <1>1, <1>2, <3>2, <3>3, <3>4, <3>6, <3>7 DEF CvLock
  <2>4. CASE AwaitLock(w)
    <3>1. CASE owner = nullptr
      <4>1. /\ owner' = w /\ queue' = queue /\ cv_pc[w] = "idle"
            /\ cv_pc' = [cv_pc EXCEPT ![w] = "critical"]
        BY <2>4, <3>1 DEF AwaitLock, Moves
      <4>2. cv_pc' \in [Actors -> WaiterPc \cup NotifierPc]
        BY <1>1, <1>2, <4>1 DEF CvLock
      <4>3. \A x \in Actors : cv_pc'[x] = IF x = w THEN "critical" ELSE cv_pc[x]
        BY <1>1, <1>2, <4>1 DEF CvLock
      <4>4. \A x \in Waiters : cv_pc'[x] \in {"granted", "critical", "unlock_ahead"} <=> owner' = x
        BY <1>1, <1>2, <3>1, <4>1, <4>3 DEF CvLock
      <4>5. queue = <<>>
        BY <1>1, <3>1 DEF CvLock
      <4>6. owner' \in Ptr
        BY <1>1, <4>1, CvPtr
      <4> QED
        BY <1>1, <1>2, <4>1, <4>2, <4>3, <4>4, <4>5, <4>6, EmptyIn DEF CvLock
    <3>2. CASE owner # nullptr
      <4>1. /\ owner' = owner /\ queue' = Append(queue, w) /\ cv_pc[w] = "idle"
            /\ cv_pc' = [cv_pc EXCEPT ![w] = "suspended"]
        BY <2>4, <3>2 DEF AwaitLock, Moves
      <4>2. cv_pc' \in [Actors -> WaiterPc \cup NotifierPc]
        BY <1>1, <1>2, <4>1 DEF CvLock
      <4>3. \A x \in Actors : cv_pc'[x] = IF x = w THEN "suspended" ELSE cv_pc[x]
        BY <1>1, <1>2, <4>1 DEF CvLock
      <4>4. ~ InSeq(w, queue)
        BY <1>1, <4>1 DEF CvLock
      <4>5. /\ queue' \in Seq(Waiters) /\ Uniq(queue')
            /\ \A y : InSeq(y, queue') <=> InSeq(y, queue) \/ y = w
        BY <1>1, <4>1, <4>4, AppendIn DEF CvLock
      <4>6. \A x \in Waiters : cv_pc'[x] \in {"granted", "critical", "unlock_ahead"} <=> owner' = x
        BY <1>1, <1>2, <4>1, <4>3 DEF CvLock
      <4>7. \A x \in Waiters : InSeq(x, queue') => cv_pc'[x] \in {"suspended", "unlock_ahead"}
        BY <1>1, <1>2, <4>3, <4>5 DEF CvLock
      <4> QED
        BY <1>1, <1>2, <3>2, <4>1, <4>2, <4>3, <4>5, <4>6, <4>7 DEF CvLock
    <3> QED
      BY <3>1, <3>2
  <2> QED
    BY <2>1, <2>2, <2>3, <2>4 DEF WaiterStep
<1>6. \A n \in Notifiers : CvHands(n)'
  BY <1>1, <1>3, <1>5 DEF CvHands
<1>7. CvRest'
  BY <1>1, <1>3, <1>6 DEF CvRest
<1> QED
  BY <1>1, <1>4, <1>5, <1>7, CvConstantsStay, CvSplit, PTL

\* What a step of notifier n has to show.
LEMMA CvAssemble ==
  ASSUME CvInv, NEW n \in Notifiers, UNCHANGED setup, stale' \in BOOLEAN, CvLock', CvLists',
         \A m \in Notifiers \ {n} : cv_pc'[m] = cv_pc[m] /\ local'[m] = local[m],
         CvHands(n)'
  PROVE  CvInv'
<1>1. CvConstants /\ CvRest
  BY CvSplit
<1>2. \A m \in Notifiers : CvHands(m)'
  BY <1>1 DEF CvHands, CvRest
<1>3. CvRest'
  BY <1>1, <1>2 DEF CvRest
<1> QED
  BY <1>1, <1>3, CvConstantsStay, CvSplit, PTL

\* A step of n inside notify_one() or notify_all() that leaves the mutex alone
\* and goes to `to'.
LEMMA CvListStep ==
  ASSUME CvInv, NEW n \in Notifiers, UNCHANGED setup, UNCHANGED <<owner, queue, stale>>,
         NEW to \in NotifierPc, cv_pc' = [cv_pc EXCEPT ![n] = to], CvLists',
         \A m \in Notifiers \ {n} : local'[m] = local[m],
         to \in {"n_reverse", "n_splice", "n_register", "a_next", "a_next2"}
           => local'[n].head \in Waiters
  PROVE  CvInv'
<1>1. CvConstants /\ CvLock /\ CvRest
  BY CvSplit
<1>2. CvLock' /\ cv_pc'[n] = to /\ \A m \in Notifiers \ {n} : cv_pc'[m] = cv_pc[m]
  BY <1>1, CvMoves
<1>3. CvHands(n)' /\ stale' \in BOOLEAN
  BY <1>1, <1>2 DEF CvHands, CvRest
<1> QED
  BY <1>2, <1>3, CvAssemble

\* notify_one() and notify_all() on the cv's lists.
LEMMA CvNotifierLists ==
  ASSUME CvInv, NEW n \in Notifiers, UNCHANGED setup,
         \/ NotifyOne(n) \/ ExchangeAwaiting(n) \/ Reverse(n) \/ SpliceEmpty(n)
         \/ SpliceAppend(n) \/ NotifyAll(n) \/ TakeToResume(n) \/ AdvanceHead(n)
  PROVE  CvInv'
<1> DEFINE Locals == [head : Ptr, succ : Ptr, pred : Ptr, tail : Ptr]
<1>1. /\ CvConstants /\ CvLock /\ CvLists /\ CvHands(n) /\ n \in Actors
  BY CvSplit DEF CvRest, Actors
<1>2. /\ nullptr \in Ptr /\ nullptr \notin Waiters /\ Waiters \subseteq Ptr
      /\ \A x \in Ptr : x # nullptr => x \in Waiters
  BY <1>1, CvPtr
<1>3. /\ {"idle", "n_exchange", "n_reverse", "n_splice", "n_register"} \subseteq NotifierPc
      /\ {"a_loop", "a_second", "a_loop2"} \subseteq NotifierPc
  BY DEF NotifierPc
<1>4. /\ awaiting \in Ptr /\ to_resume_head \in Ptr /\ to_resume_tail \in Ptr
      /\ next \in [Waiters -> Ptr] /\ local \in [Notifiers -> Locals]
      /\ local[n] \in Locals /\ NoLocals \in Locals
  BY <1>1, <1>2 DEF CvLists, NoLocals
<1>5. ASSUME NEW l \in Locals, local' = [local EXCEPT ![n] = l]
      PROVE  /\ local' \in [Notifiers -> Locals] /\ local'[n] = l
             /\ \A m \in Notifiers \ {n} : local'[m] = local[m]
  BY <1>4, <1>5
<1>6. ASSUME NEW h \in Ptr, local' = [local EXCEPT ![n].head = h]
      PROVE  /\ local' \in [Notifiers -> Locals] /\ local'[n].head = h
             /\ \A m \in Notifiers \ {n} : local'[m] = local[m]
  BY <1>4, <1>6
<1>7. CASE NotifyOne(n)
  <2>1. CASE to_resume_head # nullptr
    <3>1. /\ cv_pc' = [cv_pc EXCEPT ![n] = "n_register"] /\ to_resume_head' = next[to_resume_head]
          /\ local' = [local EXCEPT ![n].head = to_resume_head]
          /\ UNCHANGED <<owner, queue, awaiting, next, stale, to_resume_tail>>
      BY <1>7, <2>1 DEF NotifyOne, Moves
    <3>2. to_resume_head \in Waiters /\ to_resume_head' \in Ptr
      BY <1>2, <1>4, <2>1, <3>1
    <3>3. CvLists'
      BY <1>4, <1>6, <3>1, <3>2 DEF CvLists
    <3> QED
      BY <1>3, <1>4, <1>6, <3>1, <3>2, <3>3, CvListStep
  <2>2. CASE to_resume_head = nullptr
    <3>1. /\ cv_pc' = [cv_pc EXCEPT ![n] = "n_exchange"] /\ to_resume_tail' = nullptr
          /\ UNCHANGED <<owner, queue, awaiting, next, stale, to_resume_head, local>>
      BY <1>7, <2>2 DEF NotifyOne, Moves
    <3>2. CvLists'
      BY <1>2, <1>4, <3>1 DEF CvLists
    <3> QED
      BY <1>3, <3>1, <3>2, CvListStep
  <2> QED
    BY <2>1, <2>2
<1>8. CASE ExchangeAwaiting(n)
  <2>1. awaiting' = nullptr /\ UNCHANGED <<owner, queue, to_resume_head, to_resume_tail, next, stale>>
    BY <1>8 DEF ExchangeAwaiting
  <2>2. CASE awaiting = nullptr
    <3>1. local' = [local EXCEPT ![n] = NoLocals] /\ cv_pc' = [cv_pc EXCEPT ![n] = "idle"]
      BY <1>8, <2>2 DEF ExchangeAwaiting, Moves
    <3>2. CvLists'
      BY <1>2, <1>4, <1>5, <2>1, <3>1 DEF CvLists
    <3> QED
      BY <1>3, <1>4, <1>5, <2>1, <3>1, <3>2, CvListStep
  <2>3. CASE awaiting # nullptr
    <3>1. PICK l : l = [head |-> awaiting, succ |-> nullptr, pred |-> next[awaiting], tail |-> awaiting]
      OBVIOUS
    <3>2. local' = [local EXCEPT ![n] = l] /\ cv_pc' = [cv_pc EXCEPT ![n] = "n_reverse"]
      BY <1>8, <2>3, <3>1 DEF ExchangeAwaiting, Moves
    <3>3. awaiting \in Waiters /\ l \in Locals /\ l.head = awaiting
      BY <1>2, <1>4, <2>3, <3>1
    <3>4. CvLists'
      BY <1>2, <1>4, <1>5, <2>1, <3>2, <3>3 DEF CvLists
    <3> QED
      BY <1>3, <1>5, <2>1, <3>2, <3>3, <3>4, CvListStep
  <2> QED
    BY <2>2, <2>3
<1>9. CASE Reverse(n)
  <2>1. /\ cv_pc[n] = "n_reverse"
        /\ UNCHANGED <<owner, queue, awaiting, to_resume_head, to_resume_tail, stale>>
    BY <1>9 DEF Reverse, Moves
  <2>2. local[n].head \in Waiters
    BY <1>1, <2>1 DEF CvHands
  <2>3. CASE local[n].pred = nullptr
    <3>1. cv_pc' = [cv_pc EXCEPT ![n] = "n_splice"] /\ UNCHANGED <<next, local>>
      BY <1>9, <2>3 DEF Reverse, Moves
    <3>2. CvLists'
      BY <1>1, <2>1, <3>1 DEF CvLists
    <3> QED
      BY <1>3, <2>1, <2>2, <3>1, <3>2, CvListStep
  <2>4. CASE local[n].pred # nullptr
    <3>1. PICK l : l = [local[n] EXCEPT !.succ = local[n].head, !.head = local[n].pred,
                                        !.pred = next[local[n].pred]]
      OBVIOUS
    <3>2. /\ cv_pc' = [cv_pc EXCEPT ![n] = "n_reverse"] /\ local' = [local EXCEPT ![n] = l]
          /\ next' = [next EXCEPT ![local[n].head] = local[n].succ]
      BY <1>9, <2>4, <3>1 DEF Reverse, Moves
    <3>3. local[n].pred \in Waiters /\ next[local[n].pred] \in Ptr
      BY <1>2, <1>4, <2>4
    <3>4. l \in Locals /\ l.head \in Waiters
      BY <1>2, <1>4, <2>2, <3>1, <3>3
    <3>5. next' \in [Waiters -> Ptr]
      BY <1>4, <3>2
    <3>6. CvLists'
      BY <1>4, <1>5, <2>1, <3>2, <3>4, <3>5 DEF CvLists
    <3> QED
      BY <1>3, <1>5, <2>1, <3>2, <3>4, <3>6, CvListStep
  <2> QED
    BY <2>3, <2>4
<1>10. CASE SpliceEmpty(n)
  <2>1. PICK l : l = [NoLocals EXCEPT !.head = local[n].head]
    OBVIOUS
  <2>2. /\ cv_pc[n] = "n_splice" /\ cv_pc' = [cv_pc EXCEPT ![n] = "n_register"]
        /\ to_resume_head' = local[n].succ /\ to_resume_tail' = local[n].tail
        /\ local' = [local EXCEPT ![n] = l] /\ UNCHANGED <<owner, queue, awaiting, next, stale>>
    BY <1>10, <2>1 DEF SpliceEmpty, Moves
  <2>3. l \in Locals /\ l.head = local[n].head /\ local[n].succ \in Ptr /\ local[n].tail \in Ptr
    BY <1>4, <2>1
  <2>4. local[n].head \in Waiters
    BY <1>1, <2>2 DEF CvHands
  <2>5. CvLists'
    BY <1>4, <1>5, <2>2, <2>3 DEF CvLists
  <2> QED
    BY <1>3, <1>5, <2>2, <2>3, <2>4, <2>5, CvListStep
<1>11. CASE SpliceAppend(n)
  <2>1. PICK l : l = [NoLocals EXCEPT !.head = to_resume_head]
    OBVIOUS
  <2>2. /\ to_resume_head # nullptr /\ cv_pc' = [cv_pc EXCEPT ![n] = "n_register"]
        /\ next' = [next EXCEPT ![to_resume_tail] = local[n].head]
        /\ to_resume_head' = next'[to_resume_head] /\ to_resume_tail' = local[n].tail
        /\ local' = [local EXCEPT ![n] = l] /\ UNCHANGED <<owner, queue, awaiting, stale>>
    BY <1>11, <2>1 DEF SpliceAppend, Moves
  <2>3. l \in Locals /\ l.head = to_resume_head /\ local[n].head \in Ptr /\ local[n].tail \in Ptr
    BY <1>4, <2>1
  <2>4. to_resume_head \in Waiters
    BY <1>2, <1>4, <2>2
  <2>5. next' \in [Waiters -> Ptr]
    BY <1>4, <2>2, <2>3
  <2>6. to_resume_head' \in Ptr
    BY <2>2, <2>4, <2>5
  <2>7. CvLists'
    BY <1>4, <1>5, <2>2, <2>3, <2>5, <2>6 DEF CvLists
  <2> QED
    BY <1>3, <1>5, <2>2, <2>3, <2>4, <2>7, CvListStep
<1>12. CASE NotifyAll(n)
  <2>1. /\ cv_pc' = [cv_pc EXCEPT ![n] = "a_loop"] /\ awaiting' = nullptr
        /\ local' = [local EXCEPT ![n].head = awaiting]
        /\ UNCHANGED <<owner, queue, to_resume_head, to_resume_tail, next, stale>>
    BY <1>12 DEF NotifyAll, Moves
  <2>2. CvLists'
    BY <1>2, <1>4, <1>6, <2>1 DEF CvLists
  <2> QED
    BY <1>3, <1>4, <1>6, <2>1, <2>2, CvListStep
<1>13. CASE TakeToResume(n)
  <2>1. /\ cv_pc' = [cv_pc EXCEPT ![n] = "a_loop2"] /\ to_resume_head' = nullptr
        /\ local' = [local EXCEPT ![n].head = to_resume_head]
        /\ UNCHANGED <<owner, queue, awaiting, to_resume_tail, next, stale>>
    BY <1>13 DEF TakeToResume, Moves
  <2>2. CvLists'
    BY <1>2, <1>4, <1>6, <2>1 DEF CvLists
  <2> QED
    BY <1>3, <1>4, <1>6, <2>1, <2>2, CvListStep
<1>14. CASE AdvanceHead(n)
  <2>1. PICK to \in {"a_loop", "a_loop2"} : cv_pc' = [cv_pc EXCEPT ![n] = to]
    BY <1>14 DEF AdvanceHead
  <2>2. /\ cv_pc[n] \in {"a_next", "a_next2"}
        /\ local' = [local EXCEPT ![n].head = next[local[n].head]]
        /\ UNCHANGED <<owner, queue, awaiting, to_resume_head, to_resume_tail, next, stale>>
    BY <1>14 DEF AdvanceHead, cvars
  <2>3. local[n].head \in Waiters /\ next[local[n].head] \in Ptr
    BY <1>1, <1>4, <2>2 DEF CvHands
  <2>4. CvLists'
    BY <1>4, <1>6, <2>2, <2>3 DEF CvLists
  <2> QED
    BY <1>3, <1>6, <2>1, <2>2, <2>3, <2>4, CvListStep
<1> QED
  BY <1>7, <1>8, <1>9, <1>10, <1>11, <1>12, <1>13, <1>14

\* notify_one() and notify_all() on the mutex.
LEMMA CvNotifierRegisters ==
  ASSUME CvInv, NEW n \in Notifiers, UNCHANGED setup,
         \/ TryNotifyOne(n)
         \/ TryNotifyAll(n)
  PROVE  CvInv'
<1>1. /\ CvConstants /\ CvLock /\ CvLists /\ CvHands(n) /\ stale \in BOOLEAN
  BY CvSplit DEF CvRest
<1>2. {"idle", "a_second", "a_next", "a_next2"} \subseteq NotifierPc
  BY DEF NotifierPc
<1>3. CASE TryNotifyOne(n)
  <2>1. /\ cv_pc[n] = "n_register" /\ Register(n, local[n].head, "idle")
        /\ local' = [local EXCEPT ![n] = NoLocals]
        /\ UNCHANGED <<awaiting, to_resume_head, to_resume_tail, next>>
    BY <1>3 DEF TryNotifyOne, cvars
  <2>2. local[n].head \in Waiters
    BY <1>1, <2>1 DEF CvHands
  <2>3. CvLock' /\ cv_pc'[n] = "idle" /\ \A m \in Notifiers \ {n} : cv_pc'[m] = cv_pc[m]
    BY <1>1, <1>2, <2>1, <2>2, CvRegisters
  <2>4. stale' \in BOOLEAN
    BY <1>1, <2>1 DEF Register
  <2>5. /\ CvLists' /\ \A m \in Notifiers \ {n} : local'[m] = local[m]
    BY <1>1, <2>1 DEF CvLists, NoLocals, Ptr
  <2>6. CvHands(n)'
    BY <2>3 DEF CvHands
  <2> QED
    BY <2>3, <2>4, <2>5, <2>6, CvAssemble
<1>4. CASE TryNotifyAll(n)
  <2>1. local' = local /\ UNCHANGED <<awaiting, to_resume_head, to_resume_tail, next>>
    BY <1>4 DEF TryNotifyAll, cvars
  <2>2. CvLists'
    BY <1>1, <2>1 DEF CvLists
  <2>3. CASE local[n].head = nullptr
    <3>1. PICK to \in {"a_second", "idle"} : cv_pc' = [cv_pc EXCEPT ![n] = to]
      BY <1>4, <2>3 DEF TryNotifyAll
    <3>2. UNCHANGED <<owner, queue, stale>>
      BY <1>4, <2>3 DEF TryNotifyAll
    <3> QED
      BY <1>2, <2>1, <2>2, <3>1, <3>2, CvListStep
  <2>4. CASE local[n].head # nullptr
    <3>1. PICK to \in {"a_next", "a_next2"} : Register(n, local[n].head, to)
      BY <1>4, <2>4 DEF TryNotifyAll
    <3>2. local[n].head \in Waiters
      BY <1>1, <2>4, CvPtr DEF CvLists
    <3>3. CvLock' /\ cv_pc'[n] = to /\ \A m \in Notifiers \ {n} : cv_pc'[m] = cv_pc[m]
      BY <1>1, <1>2, <3>1, <3>2, CvRegisters
    <3>4. stale' \in BOOLEAN
      BY <1>1, <3>1 DEF Register
    <3>5. CvHands(n)'
      BY <2>1, <3>2 DEF CvHands
    <3> QED
      BY <2>1, <2>2, <3>3, <3>4, <3>5, CvAssemble
  <2> QED
    BY <2>3, <2>4
<1> QED
  BY <1>3, <1>4

\* Every step keeps it.
LEMMA CvInvStep == CvInv /\ [CvNext]_(cv_vars) => CvInv'
<1> SUFFICES ASSUME CvInv, [CvNext]_(cv_vars) PROVE CvInv'
  OBVIOUS
<1>1. CASE UNCHANGED cv_vars
  <2>1. CvConstants /\ CvLock /\ CvLists /\ CvRest
    BY CvSplit
  <2>2. CvLock'
    BY <1>1, <2>1 DEF CvLock, cv_vars
  <2>3. CvLists'
    BY <1>1, <2>1 DEF CvLists, cv_vars
  <2>4. CvRest'
    BY <1>1, <2>1 DEF CvRest, CvHands, cv_vars
  <2> QED
    BY <2>1, <2>2, <2>3, <2>4, CvConstantsStay, CvSplit, PTL
<1>2. CASE CvNext
  <2>1. UNCHANGED setup /\ setup.notifiers \subseteq Notifiers
    BY <1>2, CvSplit DEF CvNext, CvRest, CvConstants
  <2>2. CASE \E w \in Waiters : AwaitLock(w) \/ AwaitWait(w) \/ WaiterStep(w)
    BY <2>1, <2>2, CvWaiterStep
  <2>3. CASE \E n \in setup.notifiers : NotifyOne(n) \/ NotifyAll(n) \/ NotifierStep(n)
    <3>1. PICK n \in Notifiers : NotifyOne(n) \/ NotifyAll(n) \/ NotifierStep(n)
      BY <2>1, <2>3
    <3> QED
      BY <2>1, <3>1, CvNotifierLists, CvNotifierRegisters DEF NotifierStep
  <2> QED
    BY <1>2, <2>2, <2>3 DEF CvNext
<1> QED
  BY <1>1, <1>2

\* However many coroutines wait and however many notifiers splice the lists at
\* once, who runs after wait() owns the mutex, alone, and the mutex is never free
\* while somebody is queued for it.
THEOREM CvLockHeld == CvSpec => []LockHeldOnResume
<1>1. CvInv => LockHeldOnResume
  BY DEF CvInv
<1>2. CvInit => CvInv
  BY CvInvInit, CvAssumption
<1> QED
  BY <1>1, <1>2, CvInvStep, PTL DEF CvSpec

-----------------------------------------------------------------------------
\* The lists of the condition variable.

\* Who waits for a notification: suspended in wait(), or about to be, and not
\* queued for the mutex.
CvWaits(w) == cv_pc[w] \in {"suspended", "unlock_ahead"} /\ ~ InSeq(w, queue)

\* notify_one() at work on the awaiting list it has taken.
CvSplices(k) == cv_pc[k] \in {"n_reverse", "n_splice"}

\* A link of w's awaiter that somebody is going to follow: that of an awaiter
\* that a notify_one() has taken off is out of use.
CvDrops(k, w) == (CvSplices(k) \/ cv_pc[k] = "n_register") /\ w = local[k].head

CvLoose(w) == \E k \in Notifiers : CvDrops(k, w)

CvLinked(w) == CvWaits(w) /\ ~ CvLoose(w)

\* The pointers notifier k is going to use.
CvHolds(k, w) ==
  /\ w # nullptr
  /\ \/ CvSplices(k) /\ w \in {local[k].head, local[k].succ, local[k].pred}
     \/ cv_pc[k] \in {"n_register", "a_loop", "a_loop2"} /\ w = local[k].head
     \/ cv_pc[k] \in {"a_next", "a_next2"} /\ w = next[local[k].head]

\* Every awaiter that waits belongs to one list: awaiting, to_resume, the part
\* that notifier k has taken, or the part that it has reversed.
CvAwaiting == <<"awaiting", nullptr>>

CvToResume == <<"to_resume", nullptr>>

CvTaken(k) == <<"taken", k>>

CvReversed(k) == <<"reversed", k>>

\* The pointers of notifier k, if on[w] is the list w is on.
CvLocals(k, on) ==
  /\ CvSplices(k) =>
       LET l == local[k] IN
       /\ CvWaits(l.head) /\ on[l.head] = CvTaken(k) /\ next[l.head] = l.pred /\ l.head # l.pred
       /\ l.pred # nullptr => CvWaits(l.pred) /\ on[l.pred] = CvTaken(k)
       /\ l.succ # nullptr => /\ CvWaits(l.succ) /\ on[l.succ] = CvReversed(k)
                              /\ l.tail \in Waiters
                              /\ CvWaits(l.tail) /\ on[l.tail] = CvReversed(k) /\ next[l.tail] = nullptr
       /\ l.succ = nullptr => l.tail = l.head
       /\ cv_pc[k] = "n_splice" => l.pred = nullptr
  /\ cv_pc[k] \in {"n_register", "a_loop", "a_loop2"} /\ local[k].head # nullptr
       => CvWaits(local[k].head) /\ on[local[k].head] = CvTaken(k)
  /\ cv_pc[k] \in {"a_next", "a_next2"} =>
       LET h == local[k].head IN
       ~ CvWaits(h) /\ (next[h] # nullptr => CvWaits(next[h]) /\ on[next[h]] = CvTaken(k))
  /\ cv_pc[k] \in {"a_loop", "a_next", "a_second", "a_loop2", "a_next2"} => "all" \in setup.kinds

\* The links: at most one leads to an awaiter, and none where a pointer does.
CvOneLink == \A v, w \in Waiters : /\ CvLinked(v) /\ CvLinked(w)
                                   /\ next[v] = next[w] /\ next[v] # nullptr
                                   => v = w

CvLinks(on) ==
  \A w \in Waiters : CvLinked(w) /\ next[w] # nullptr =>
    /\ CvWaits(next[w]) /\ on[next[w]] = on[w]
    /\ next[w] # awaiting /\ next[w] # to_resume_head
    /\ \A k \in Notifiers : ~ CvHolds(k, next[w])

\* The condition variable's own pointers.
CvAnchors(on) ==
  /\ awaiting # nullptr => CvWaits(awaiting) /\ on[awaiting] = CvAwaiting
  /\ to_resume_head # nullptr =>
       /\ CvWaits(to_resume_head) /\ on[to_resume_head] = CvToResume
       /\ to_resume_tail \in Waiters /\ CvWaits(to_resume_tail)
       /\ on[to_resume_tail] = CvToResume /\ next[to_resume_tail] = nullptr

CvShape(on) == /\ CvOneLink /\ CvLinks(on) /\ CvAnchors(on)
               /\ \A k \in Notifiers : CvLocals(k, on)

\* Who waits is found: a pointer or a link leads to it ...
CvCovered == \A x \in Waiters : CvWaits(x) =>
               \/ x = awaiting \/ x = to_resume_head
               \/ \E k \in Notifiers : CvHolds(k, x)
               \/ \E v \in Waiters : CvLinked(v) /\ next[v] = x

\* ... and the links do not go round.
CvNoCycle == \A T \in SUBSET Waiters : T # {} /\ (\A x \in T : CvWaits(x)) =>
               \E x \in T : \A v \in T : CvLinked(v) => next[v] # x

CvKeeps == (CvCovered => CvCovered') /\ (CvNoCycle => CvNoCycle')

\* A thread is inside one operation at a time.
CvBusy(p) == cv_pc[p] \notin {"idle", "critical", "suspended", "granted"}

CvOneBusy == \A p, q \in Actors : /\ p # q /\ CvBusy(p) /\ CvBusy(q)
                                    => setup.home[p] # setup.home[q]

\* With one notification at a time, nothing is put on to_resume between the look
\* at it and the splice.
CvSerial == \A k \in Notifiers :
              /\ CvBusy(k) => k \in setup.notifiers
              /\ CvSplices(k) \/ cv_pc[k] = "n_exchange" => to_resume_head = nullptr

CvNoStale == /\ CvInv /\ CvOneBusy /\ ~ stale
             /\ \E on : CvShape(on)
             /\ OneAtATime => CvSerial /\ CvCovered /\ CvNoCycle

\* The lists have different names.
LEMMA CvNames ==
  /\ CvAwaiting # CvToResume
  /\ \A k : /\ CvTaken(k) # CvAwaiting /\ CvTaken(k) # CvToResume
            /\ CvReversed(k) # CvAwaiting /\ CvReversed(k) # CvToResume
  /\ \A k, m : /\ CvTaken(k) # CvReversed(m)
               /\ k # m => CvTaken(k) # CvTaken(m) /\ CvReversed(k) # CvReversed(m)
BY DEF CvAwaiting, CvToResume, CvTaken, CvReversed

\* One io_context runs all, where notify_all() is used.
CvAlone == \A s \in Setups : "all" \in s.kinds =>
             \A p, q \in Actors : s.home[p] = s.home[q]

\* Nobody begins an operation on a thread that is in the middle of one.
LEMMA CvBusyFrame ==
  ASSUME CvOneBusy, UNCHANGED setup, NEW p \in Actors,
         \A q \in Actors \ {p} : cv_pc'[q] = cv_pc[q] \/ ~ CvBusy(q)',
         ~ CvBusy(p)' \/ CvBusy(p) \/ Runs(p)
  PROVE  CvOneBusy'
BY DEF CvOneBusy, CvBusy, Runs

\* unlock() takes nobody off the condition variable, and puts nobody on it.
LEMMA CvUnlockWaits ==
  ASSUME CvConstants, CvLock, NEW w \in Waiters, NEW to, UnlockMutex(w, to),
         \/ cv_pc[w] = "critical" /\ to = "idle"
         \/ cv_pc[w] = "unlock_ahead" /\ to = "suspended"
  PROVE  /\ \A x \in Waiters : CvWaits(x)' <=> CvWaits(x)
         /\ \A q \in Actors \ {w} : cv_pc'[q] = cv_pc[q] \/ (q \in Waiters /\ ~ CvBusy(q)')
         /\ ~ CvBusy(w)'
<1>1. w \in Actors /\ Waiters \subseteq Actors
  BY DEF Actors
<1>2. CASE queue = <<>>
  <2>1. queue' = queue /\ cv_pc' = [cv_pc EXCEPT ![w] = to]
    BY <1>2 DEF UnlockMutex
  <2>2. \A x \in Actors : cv_pc'[x] = IF x = w THEN to ELSE cv_pc[x]
    BY <1>1, <2>1 DEF CvLock
  <2> QED
    BY <1>1, <2>1, <2>2 DEF CvWaits, CvBusy
<1>3. CASE queue # <<>>
  <2>1. PICK h : h = Head(queue)
    OBVIOUS
  <2>2. /\ h \in Waiters /\ InSeq(h, queue)
        /\ \A y : InSeq(y, Tail(queue)) <=> InSeq(y, queue) /\ y # h
    BY <1>3, <2>1, TailIn DEF CvLock
  <2>3. queue' = Tail(queue) /\ cv_pc' = [cv_pc EXCEPT ![w] = to, ![h] = "granted"]
    BY <1>3, <2>1 DEF UnlockMutex
  <2>4. \A x \in Actors : cv_pc'[x] = IF x = h THEN "granted" ELSE IF x = w THEN to ELSE cv_pc[x]
    BY <1>1, <2>2, <2>3 DEF CvLock
  <2>5. \A y : InSeq(y, queue') <=> InSeq(y, queue) /\ y # h
    BY <2>2, <2>3
  <2> QED
    BY <1>1, <2>2, <2>4, <2>5 DEF CvWaits, CvBusy
<1> QED
  BY <1>2, <1>3

\* What a coroutine does with the mutex is nothing to the condition variable.
LEMMA CvMutexWaits ==
  ASSUME CvInv, NEW w \in Waiters, AwaitLock(w) \/ WaiterStep(w)
  PROVE  /\ \A x \in Waiters : CvWaits(x)' <=> CvWaits(x)
         /\ \A q \in Actors \ {w} : cv_pc'[q] = cv_pc[q] \/ (q \in Waiters /\ ~ CvBusy(q)')
         /\ ~ CvBusy(w)'
<1>1. /\ CvConstants /\ CvLock
  BY CvSplit
<1>2. w \in Actors /\ Waiters \subseteq Actors
  BY DEF Actors
<1>3. CASE AwaitLock(w) /\ owner # nullptr
  <2>1. /\ queue' = Append(queue, w) /\ cv_pc[w] = "idle"
        /\ cv_pc' = [cv_pc EXCEPT ![w] = "suspended"]
    BY <1>3 DEF AwaitLock, Moves
  <2>2. \A x \in Actors : cv_pc'[x] = IF x = w THEN "suspended" ELSE cv_pc[x]
    BY <1>1, <1>2, <2>1 DEF CvLock
  <2>3. ~ InSeq(w, queue)
    BY <1>1, <2>1 DEF CvLock
  <2>4. \A y : InSeq(y, queue') <=> InSeq(y, queue) \/ y = w
    BY <1>1, <2>1, <2>3, AppendIn DEF CvLock
  <2> QED
    BY <1>2, <2>1, <2>2, <2>4 DEF CvWaits, CvBusy
<1>4. CASE \/ AwaitLock(w) /\ owner = nullptr
           \/ Resume(w)
  <2>1. /\ queue' = queue /\ cv_pc[w] \in {"idle", "granted"}
        /\ cv_pc' = [cv_pc EXCEPT ![w] = "critical"]
    BY <1>4 DEF AwaitLock, Resume, Moves
  <2>2. \A x \in Actors : cv_pc'[x] = IF x = w THEN "critical" ELSE cv_pc[x]
    BY <1>1, <1>2, <2>1 DEF CvLock
  <2> QED
    BY <1>2, <2>1, <2>2 DEF CvWaits, CvBusy
<1>5. CASE GuardUnlock(w)
  <2>1. cv_pc[w] = "critical" /\ UnlockMutex(w, "idle")
    BY <1>5 DEF GuardUnlock
  <2> QED
    BY <1>1, <2>1, CvUnlockWaits
<1>6. CASE UnlockAhead(w)
  <2>1. cv_pc[w] = "unlock_ahead" /\ UnlockMutex(w, "suspended")
    BY <1>6 DEF UnlockAhead
  <2> QED
    BY <1>1, <2>1, CvUnlockWaits
<1> QED
  BY <1>3, <1>4, <1>5, <1>6 DEF WaiterStep

\* wait() puts the coroutine on it.
LEMMA CvWaitWaits ==
  ASSUME CvInv, NEW w \in Waiters, AwaitWait(w)
  PROVE  /\ ~ CvWaits(w) /\ \A x \in Waiters : CvWaits(x)' <=> CvWaits(x) \/ x = w
         /\ \A q \in Actors \ {w} : cv_pc'[q] = cv_pc[q]
<1>1. /\ CvConstants /\ CvLock
  BY CvSplit
<1>2. w \in Actors /\ Waiters \subseteq Actors
  BY DEF Actors
<1>3. /\ queue' = queue /\ cv_pc[w] = "critical"
      /\ cv_pc' = [cv_pc EXCEPT ![w] = "unlock_ahead"]
  BY DEF AwaitWait, Moves
<1>4. \A x \in Actors : cv_pc'[x] = IF x = w THEN "unlock_ahead" ELSE cv_pc[x]
  BY <1>1, <1>2, <1>3 DEF CvLock
<1>5. ~ InSeq(w, queue)
  BY <1>1, <1>3 DEF CvLock
<1> QED
  BY <1>2, <1>3, <1>4, <1>5 DEF CvWaits

\* A notifier's work on the lists does not either.
LEMMA CvMovesWaits ==
  ASSUME CvInv, NEW n \in Notifiers, NEW to, queue' = queue, cv_pc' = [cv_pc EXCEPT ![n] = to]
  PROVE  /\ \A x \in Waiters : CvWaits(x)' <=> CvWaits(x)
         /\ \A q \in Actors \ {n} : cv_pc'[q] = cv_pc[q]
         /\ cv_pc'[n] = to
<1>1. /\ CvConstants /\ CvLock /\ n \in Actors /\ Waiters \subseteq Actors /\ n \notin Waiters
  BY CvSplit DEF Actors, CvConstants
<1>2. \A x \in Actors : cv_pc'[x] = IF x = n THEN to ELSE cv_pc[x]
  BY <1>1 DEF CvLock
<1> QED
  BY <1>1, <1>2 DEF CvWaits

\* register_awaiting() takes off the one it is called for, if it was waiting.
LEMMA CvRegisterWaits ==
  ASSUME CvInv, NEW n \in Notifiers, NEW h \in Waiters, NEW to, Register(n, h, to), CvWaits(h)
  PROVE  /\ \A x \in Waiters : CvWaits(x)' <=> CvWaits(x) /\ x # h
         /\ \A q \in Actors \ {n} : cv_pc'[q] = cv_pc[q] \/ (q = h /\ cv_pc'[q] = "granted")
         /\ cv_pc'[n] = to /\ stale' = stale
<1>1. /\ CvConstants /\ CvLock /\ n \in Actors /\ Waiters \subseteq Actors /\ n \notin Waiters
  BY CvSplit DEF Actors, CvConstants
<1>2. ~ InQueue(h) /\ cv_pc[h] \in {"suspended", "unlock_ahead"}
  BY CvInQueue DEF CvWaits
<1>3. CASE owner = nullptr
  <2>1. queue' = queue /\ stale' = stale /\ cv_pc' = [cv_pc EXCEPT ![n] = to, ![h] = "granted"]
    BY <1>2, <1>3 DEF Register
  <2>2. \A x \in Actors : cv_pc'[x] = IF x = h THEN "granted" ELSE IF x = n THEN to ELSE cv_pc[x]
    BY <1>1, <2>1 DEF CvLock
  <2>3. \A x \in Waiters : cv_pc'[x] = IF x = h THEN "granted" ELSE cv_pc[x]
    BY <1>1, <2>2
  <2>4. ASSUME NEW x \in Waiters PROVE CvWaits(x)' <=> CvWaits(x) /\ x # h
    <3>1. InSeq(x, queue') <=> InSeq(x, queue)
      BY <2>1
    <3>2. cv_pc'[x] = IF x = h THEN "granted" ELSE cv_pc[x]
      BY <2>3
    <3> QED
      BY <3>1, <3>2 DEF CvWaits
  <2> QED
    BY <1>1, <2>1, <2>2, <2>4
<1>4. CASE owner # nullptr
  <2>1. queue' = Append(queue, h) /\ stale' = stale /\ cv_pc' = [cv_pc EXCEPT ![n] = to]
    BY <1>2, <1>4 DEF Register
  <2>2. \A x \in Actors : cv_pc'[x] = IF x = n THEN to ELSE cv_pc[x]
    BY <1>1, <2>1 DEF CvLock
  <2>3. \A y : InSeq(y, queue') <=> InSeq(y, queue) \/ y = h
    BY <1>1, <2>1, AppendIn DEF CvLock, CvWaits
  <2>4. \A x \in Waiters : cv_pc'[x] = cv_pc[x]
    BY <1>1, <2>2
  <2>5. \A x \in Waiters : CvWaits(x)' <=> CvWaits(x) /\ x # h
    BY <2>3, <2>4 DEF CvWaits
  <2> QED
    BY <1>1, <2>1, <2>2, <2>5
<1> QED
  BY <1>3, <1>4

\* What a step leaves alone of notifier k's pointers.
LEMMA CvOthers ==
  ASSUME NEW k \in Notifiers, NEW on, NEW no, CvLocals(k, on), CvLists, CvHands(k),
         cv_pc'[k] = cv_pc[k], local'[k] = local[k], UNCHANGED setup,
         \A x \in Waiters : CvWaits(x) /\ on[x] \in {CvTaken(k), CvReversed(k)}
                              => CvWaits(x)' /\ no[x] = on[x] /\ next'[x] = next[x],
         cv_pc[k] \in {"a_next", "a_next2"}
           => next'[local[k].head] = next[local[k].head] /\ ~ CvWaits(local[k].head)'
  PROVE  /\ CvLocals(k, no)'
         /\ \A w : CvHolds(k, w)' <=> CvHolds(k, w)
         /\ \A w : CvDrops(k, w)' <=> CvDrops(k, w)
<1>1. /\ local[k].head \in Ptr /\ local[k].succ \in Ptr /\ local[k].pred \in Ptr
      /\ local[k].tail \in Ptr /\ \A x \in Waiters : next[x] \in Ptr
      /\ \A x \in Ptr : x # nullptr => x \in Waiters
  BY DEF CvLists, Ptr
<1>2. \A w : (CvHolds(k, w)' <=> CvHolds(k, w)) /\ (CvDrops(k, w)' <=> CvDrops(k, w))
  BY DEF CvHolds, CvSplices, CvDrops
<1>3. CASE CvSplices(k)
  <2>1. /\ CvSplices(k)' /\ local[k].head \in Waiters
        /\ cv_pc[k] \notin {"n_register", "a_loop", "a_loop2", "a_next", "a_next2", "a_second"}
    BY <1>3 DEF CvSplices, CvHands
  <2> QED
    BY <1>1, <1>2, <1>3, <2>1 DEF CvLocals
<1>4. CASE ~ CvSplices(k)
  <2>1. /\ ~ CvSplices(k)'
    BY <1>4 DEF CvSplices
  <2>2. cv_pc[k] \in {"a_next", "a_next2"} => local[k].head \in Waiters
    BY DEF CvHands
  <2> QED
    BY <1>1, <1>2, <1>4, <2>1, <2>2 DEF CvLocals
<1> QED
  BY <1>3, <1>4
\* Who is held waits, and is on a list of the notifier's own.
LEMMA CvHeldIs ==
  ASSUME CvInv, NEW on, CvShape(on)
  PROVE  /\ \A k \in Notifiers : \A w :
              /\ CvHolds(k, w) => /\ w \in Waiters /\ w # nullptr
                                  /\ CvWaits(w) /\ on[w] \in {CvTaken(k), CvReversed(k)}
              /\ CvDrops(k, w) => CvHolds(k, w)
         /\ \A w : CvLoose(w) => \E k \in Notifiers : CvHolds(k, w) /\ CvDrops(k, w)
<1>1. /\ CvConstants /\ CvLists /\ CvRest
  BY CvSplit
<1>2. ASSUME NEW k \in Notifiers, NEW w
      PROVE  /\ CvHolds(k, w) => /\ w \in Waiters /\ w # nullptr
                                 /\ CvWaits(w) /\ on[w] \in {CvTaken(k), CvReversed(k)}
             /\ CvDrops(k, w) => CvHolds(k, w)
  <2>1. /\ local[k].head \in Ptr /\ local[k].succ \in Ptr /\ local[k].pred \in Ptr
        /\ \A x \in Waiters : next[x] \in Ptr
        /\ \A x \in Ptr : x # nullptr => x \in Waiters
        /\ nullptr \notin Waiters
    BY <1>1, CvPtr DEF CvLists
  <2>2. CvLocals(k, on) /\ CvHands(k)
    BY <1>1 DEF CvShape, CvRest
  <2>3. CASE CvSplices(k)
    <3>1. /\ local[k].head \in Waiters
          /\ cv_pc[k] \notin {"n_register", "a_loop", "a_loop2", "a_next", "a_next2"}
      BY <2>2, <2>3 DEF CvSplices, CvHands
    <3> QED
      BY <2>1, <2>2, <2>3, <3>1 DEF CvLocals, CvHolds, CvDrops
  <2>4. CASE ~ CvSplices(k)
    <3>1. cv_pc[k] \in {"n_register", "a_next", "a_next2"} => local[k].head \in Waiters
      BY <2>2 DEF CvHands
    <3> QED
      BY <2>1, <2>2, <2>4, <3>1 DEF CvLocals, CvHolds, CvDrops
  <2> QED
    BY <2>3, <2>4
<1> QED
  BY <1>2 DEF CvLoose

\* A step of n leaves the other notifiers' pointers alone, if it touches no
\* link of theirs.  It takes h, if anybody, off the condition variable.
LEMMA CvFrame ==
  ASSUME CvInv, NEW n \in Notifiers, NEW on, NEW no, CvShape(on), UNCHANGED setup,
         \A k \in Notifiers \ {n} : cv_pc'[k] = cv_pc[k] /\ local'[k] = local[k],
         NEW h, \A x \in Waiters : CvWaits(x)' <=> CvWaits(x) /\ x # h,
         h \in Waiters => on[h] = CvTaken(n),
         \A x \in Waiters :
           next'[x] = next[x] \/ (/\ CvWaits(x) /\ \A k \in Notifiers \ {n} :
                                       on[x] # CvTaken(k) /\ on[x] # CvReversed(k)),
         \A x \in Waiters, k \in Notifiers \ {n} :
           on[x] \in {CvTaken(k), CvReversed(k)} => no[x] = on[x]
  PROVE  \A k \in Notifiers \ {n} : /\ CvLocals(k, no)'
                                    /\ \A w : CvHolds(k, w)' <=> CvHolds(k, w)
                                    /\ \A w : CvDrops(k, w)' <=> CvDrops(k, w)
<1>1. CvLists /\ CvRest
  BY CvSplit
<1>2. TAKE k \in Notifiers \ {n}
<1>3. /\ CvLocals(k, on) /\ CvHands(k)
  BY <1>1 DEF CvShape, CvRest
<1>4. ASSUME NEW x \in Waiters, CvWaits(x), on[x] \in {CvTaken(k), CvReversed(k)}
      PROVE  CvWaits(x)' /\ no[x] = on[x] /\ next'[x] = next[x]
  <2>1. x # h
    BY <1>4, CvNames
  <2> QED
    BY <1>4, <2>1
<1>5. ASSUME cv_pc[k] \in {"a_next", "a_next2"}
      PROVE  next'[local[k].head] = next[local[k].head] /\ ~ CvWaits(local[k].head)'
  <2>1. local[k].head \in Waiters /\ ~ CvWaits(local[k].head)
    BY <1>3, <1>5 DEF CvHands, CvLocals
  <2> QED
    BY <2>1
<1> QED
  BY <1>1, <1>3, <1>4, <1>5, CvOthers

\* A step of n that changes no link and may take h off the condition variable:
\* a pointer is an old one, or goes where a link led that is out of use now.
LEMMA CvRelabel ==
  ASSUME CvInv, NEW n \in Notifiers, NEW on, NEW no, CvShape(on), UNCHANGED setup, next' = next,
         \A k \in Notifiers \ {n} : cv_pc'[k] = cv_pc[k] /\ local'[k] = local[k],
         NEW h, \A x \in Waiters : CvWaits(x)' <=> CvWaits(x) /\ x # h,
         h \in Waiters => on[h] = CvTaken(n) /\ CvHolds(n, h),
         \A x \in Waiters, k \in Notifiers \ {n} :
           on[x] \in {CvTaken(k), CvReversed(k)} => no[x] = on[x],
         \A x, y \in Waiters : /\ CvLinked(x) /\ ~ CvDrops(n, x)' /\ x # h
                               /\ y = next[x] /\ on[x] = on[y]
                               => no[x] = no[y],
         \A x \in Waiters : CvDrops(n, x) => CvDrops(n, x)' \/ x = h,
         \A y \in Waiters : y = awaiting' \/ y = to_resume_head' \/ CvHolds(n, y)' =>
           \/ y = awaiting \/ y = to_resume_head \/ CvHolds(n, y)
           \/ \E v \in Waiters : CvLinked(v) /\ (CvDrops(n, v)' \/ v = h) /\ y = next[v],
         \A y \in Waiters :
           \/ y # h /\ (y = awaiting \/ y = to_resume_head \/ CvHolds(n, y))
           \/ \E v \in Waiters : CvLinked(v) /\ (CvDrops(n, v)' \/ v = h) /\ y = next[v]
           => y = awaiting' \/ y = to_resume_head' \/ CvHolds(n, y)',
         CvAnchors(no)', CvLocals(n, no)'
  PROVE  CvShape(no)' /\ CvKeeps
<1>1. \A k \in Notifiers \ {n} : /\ CvLocals(k, no)'
                                 /\ \A w : CvHolds(k, w)' <=> CvHolds(k, w)
                                 /\ \A w : CvDrops(k, w)' <=> CvDrops(k, w)
  BY CvFrame
<1>2. /\ \A x \in Waiters : CvLinked(x)' => CvLinked(x) /\ ~ CvDrops(n, x)' /\ x # h
      /\ \A v \in Waiters : CvDrops(n, v)' \/ v = h => ~ CvLinked(v)'
  BY <1>1 DEF CvLinked, CvLoose
<1>3. CvOneLink'
  BY <1>2 DEF CvShape, CvOneLink
<1>4. ASSUME NEW x \in Waiters, NEW y, CvLinked(x)', y = next'[x], y # nullptr
      PROVE  /\ CvWaits(y)' /\ no[y] = no[x] /\ y # awaiting' /\ y # to_resume_head'
             /\ \A k \in Notifiers : ~ CvHolds(k, y)'
  <2>1. y = next[x] /\ CvLinked(x) /\ y \in Waiters /\ ~ CvDrops(n, x)' /\ x # h
    BY <1>4, <1>2, CvSplit DEF CvLists, Ptr
  <2>2. /\ CvWaits(y) /\ on[y] = on[x] /\ y # awaiting /\ y # to_resume_head
        /\ \A k \in Notifiers : ~ CvHolds(k, y)
    BY <1>4, <2>1 DEF CvShape, CvLinks
  <2>3. ASSUME NEW v \in Waiters, CvLinked(v), ~ CvLinked(v)', y = next[v] PROVE FALSE
    BY <1>4, <2>1, <2>3 DEF CvShape, CvOneLink
  <2>4. ~ (y = awaiting' \/ y = to_resume_head' \/ CvHolds(n, y)')
    BY <1>2, <2>1, <2>2, <2>3
  <2>5. \A k \in Notifiers : ~ CvHolds(k, y)'
    BY <1>1, <2>2, <2>4
  <2>6. CvWaits(y)' /\ no[y] = no[x]
    BY <1>4, <2>1, <2>2
  <2> QED
    BY <2>4, <2>5, <2>6
<1>5. CvLinks(no)'
  BY <1>4 DEF CvLinks
<1>6. \A k \in Notifiers : CvLocals(k, no)'
  BY <1>1
<1>7. CvShape(no)'
  BY <1>3, <1>5, <1>6 DEF CvShape
<1>8. CvNoCycle => CvNoCycle'
  BY <1>2 DEF CvNoCycle
<1>9. ASSUME CvCovered PROVE CvCovered'
  <2>1. ASSUME NEW x \in Waiters, CvWaits(x)'
        PROVE  \/ x = awaiting' \/ x = to_resume_head'
               \/ \E k \in Notifiers : CvHolds(k, x)'
               \/ \E v \in Waiters : CvLinked(v)' /\ next'[v] = x
    <3>1. CvWaits(x) /\ x # h
      BY <2>1
    <3>2. CASE \E v \in Waiters : CvLinked(v) /\ next[v] = x
      <4>1. PICK v \in Waiters : CvLinked(v) /\ next[v] = x
        BY <3>2
      <4>2. CASE CvDrops(n, v)' \/ v = h
        BY <4>1, <4>2
      <4>3. CASE ~ CvDrops(n, v)' /\ v # h
        <5>1. CvLinked(v)'
          BY <1>1, <4>1, <4>3 DEF CvLinked, CvLoose
        <5> QED
          BY <4>1, <5>1
      <4> QED
        BY <4>2, <4>3
    <3>3. CASE x = awaiting \/ x = to_resume_head \/ CvHolds(n, x)
      BY <3>1, <3>3
    <3>4. CASE \E k \in Notifiers \ {n} : CvHolds(k, x)
      BY <1>1, <3>4
    <3> QED
      BY <1>9, <3>1, <3>2, <3>3, <3>4 DEF CvCovered
  <2> QED
    BY <2>1 DEF CvCovered
<1> QED
  BY <1>7, <1>8, <1>9 DEF CvKeeps

\* A step of n that drops pointers and changes no list.
LEMMA CvEasy ==
  ASSUME CvInv, NEW n \in Notifiers, NEW on, CvShape(on), UNCHANGED setup,
         NEW to, cv_pc' = [cv_pc EXCEPT ![n] = to],
         \A k \in Notifiers \ {n} : local'[k] = local[k],
         UNCHANGED <<queue, next, awaiting, to_resume_head>>,
         to_resume_tail' = to_resume_tail \/ to_resume_head = nullptr,
         \A w : CvHolds(n, w)' <=> CvHolds(n, w), \A w : CvDrops(n, w)' <=> CvDrops(n, w),
         CvLocals(n, on)'
  PROVE  CvShape(on)' /\ CvKeeps
<1>1. /\ \A x \in Waiters : CvWaits(x)' <=> CvWaits(x)
      /\ \A k \in Notifiers \ {n} : cv_pc'[k] = cv_pc[k]
  BY CvMovesWaits DEF Actors
<1>2. nullptr \notin Waiters /\ CvLists
  BY CvSplit, CvPtr
<1>3. \A x \in Waiters : CvWaits(x)' <=> CvWaits(x) /\ x # nullptr
  BY <1>1, <1>2
<1>6. CvAnchors(on)'
  <2>1. {awaiting, to_resume_head} \ {nullptr} \subseteq Waiters
    BY <1>2 DEF CvLists, Ptr
  <2> QED
    BY <1>1, <2>1 DEF CvShape, CvAnchors
<1>7. \A v \in Waiters : CvLinked(v) => ~ CvDrops(n, v)
  BY DEF CvLinked, CvLoose
<1> QED
  BY <1>1, <1>2, <1>3, <1>6, <1>7, CvRelabel

\* wait() puts its awaiter at the head of the awaiting list.
LEMMA CvWaitShape ==
  ASSUME CvInv, CvOneBusy, CvAlone, NEW on, CvShape(on), NEW w \in Waiters, UNCHANGED setup,
         AwaitWait(w)
  PROVE  (\E no : CvShape(no)') /\ CvKeeps
<1>1. /\ CvConstants /\ CvLists /\ CvRest /\ setup \in Setups
      /\ nullptr \notin Waiters /\ w \in Actors /\ w # nullptr
      /\ \A k \in Notifiers : k \in Actors /\ k # w /\ k \in Actors \ {w}
  BY CvSplit, CvPtr DEF CvRest, Actors, CvConstants
<1>2. /\ ~ CvWaits(w) /\ \A x \in Waiters : CvWaits(x)' <=> CvWaits(x) \/ x = w
      /\ \A k \in Notifiers : cv_pc'[k] = cv_pc[k] /\ local'[k] = local[k]
  BY <1>1, CvWaitWaits DEF AwaitWait
<1>3. /\ awaiting' = w /\ next' = [next EXCEPT ![w] = awaiting]
      /\ to_resume_head' = to_resume_head /\ to_resume_tail' = to_resume_tail
      /\ Runs(w)
  BY DEF AwaitWait
<1>4. \A x \in Waiters : next'[x] = IF x = w THEN awaiting ELSE next[x]
  BY <1>1, <1>3 DEF CvLists
<1>5. PICK no : \A x \in Waiters : no[x] = IF x = w THEN CvAwaiting ELSE on[x]
  <2>1. \A x \in Waiters : [y \in Waiters |-> IF y = w THEN CvAwaiting ELSE on[y]][x]
                             = IF x = w THEN CvAwaiting ELSE on[x]
    OBVIOUS
  <2> QED
    BY <2>1
<1>6. \A k \in Notifiers : cv_pc[k] \notin {"a_next", "a_next2"}
  <2>1. ASSUME NEW k \in Notifiers, cv_pc[k] \in {"a_next", "a_next2"} PROVE FALSE
    <3>1. "all" \in setup.kinds
      BY <2>1 DEF CvShape, CvLocals
    <3>2. setup.home[k] = setup.home[w]
      BY <1>1, <3>1 DEF CvAlone
    <3>3. k \in Actors \ {w}
      BY <1>1
    <3>4. cv_pc[k] \in {"idle", "critical", "suspended", "granted"}
      BY <1>3, <3>2, <3>3 DEF Runs
    <3> QED
      BY <2>1, <3>4
  <2> QED
    BY <2>1
<1>7. ASSUME NEW k \in Notifiers
      PROVE  /\ CvLocals(k, no)'
             /\ \A x : CvHolds(k, x)' <=> CvHolds(k, x)
             /\ \A x : CvDrops(k, x)' <=> CvDrops(k, x)
  <2>1. CvLocals(k, on) /\ CvHands(k)
    BY <1>1 DEF CvShape, CvRest
  <2>2. \A x \in Waiters : CvWaits(x) => CvWaits(x)' /\ no[x] = on[x] /\ next'[x] = next[x]
    BY <1>2, <1>4, <1>5
  <2> QED
    BY <1>1, <1>2, <1>6, <2>1, <2>2, CvOthers
<1>8. /\ \A k \in Notifiers : \A x : CvHolds(k, x) =>
           x \in Waiters /\ CvWaits(x) /\ on[x] # CvAwaiting
      /\ \A x : CvLoose(x) => CvWaits(x)
  BY CvHeldIs, CvNames
<1>9. \A x \in Waiters : CvLinked(x)' <=> CvLinked(x) \/ x = w
  BY <1>2, <1>7, <1>8 DEF CvLinked, CvLoose
<1>10. /\ \A x \in Waiters : CvLinked(x) /\ next[x] # nullptr => next[x] \in Waiters /\ CvWaits(next[x])
       /\ awaiting # nullptr => awaiting \in Waiters /\ CvWaits(awaiting) /\ on[awaiting] = CvAwaiting
       /\ to_resume_head # nullptr => /\ to_resume_head \in Waiters /\ to_resume_tail \in Waiters
                                      /\ on[to_resume_head] = CvToResume
                                      /\ CvWaits(to_resume_head) /\ CvWaits(to_resume_tail)
  BY <1>1 DEF CvShape, CvLinks, CvAnchors, CvLists, Ptr
<1>11. CvOneLink'
  <2>1. ASSUME NEW x \in Waiters, CvLinked(x), next[x] # nullptr PROVE next[x] # awaiting
    BY <2>1 DEF CvShape, CvLinks
  <2> QED
    BY <1>2, <1>4, <1>9, <2>1 DEF CvShape, CvOneLink
<1>12. CvLinks(no)'
  <2>1. ASSUME NEW x \in Waiters, NEW y, CvLinked(x)', y = next'[x], y # nullptr
        PROVE  /\ CvWaits(y)' /\ no[y] = no[x] /\ y # awaiting' /\ y # to_resume_head'
               /\ \A k \in Notifiers : ~ CvHolds(k, y)'
    <3>1. CASE x = w
      <4>1. y = awaiting /\ awaiting # nullptr
        BY <1>4, <2>1, <3>1
      <4>2. awaiting # to_resume_head /\ awaiting # w
        BY <1>2, <1>10, <4>1, CvNames
      <4>3. \A k \in Notifiers : ~ CvHolds(k, y)'
        BY <1>7, <1>8, <1>10, <4>1
      <4>4. no[y] = CvAwaiting /\ no[x] = CvAwaiting /\ CvWaits(y)'
        BY <1>2, <1>5, <1>10, <3>1, <4>1
      <4> QED
        BY <1>3, <4>1, <4>2, <4>3, <4>4
    <3>2. CASE x # w
      <4>1. y = next[x] /\ CvLinked(x)
        BY <1>4, <1>9, <2>1, <3>2
      <4>2. /\ y \in Waiters /\ CvWaits(y) /\ on[y] = on[x] /\ y # awaiting /\ y # to_resume_head
            /\ \A k \in Notifiers : ~ CvHolds(k, y)
        BY <1>10, <2>1, <4>1 DEF CvShape, CvLinks
      <4>3. y # w
        BY <1>2, <4>2
      <4> QED
        BY <1>2, <1>3, <1>5, <1>7, <3>2, <4>2, <4>3
    <3> QED
      BY <3>1, <3>2
  <2> QED
    BY <2>1 DEF CvLinks
<1>13. CvAnchors(no)'
  <2>1. to_resume_head # nullptr => to_resume_head # w /\ to_resume_tail # w
    BY <1>2, <1>10
  <2> QED
    BY <1>1, <1>2, <1>3, <1>4, <1>5, <1>10, <2>1 DEF CvShape, CvAnchors
<1>14. CvShape(no)'
  BY <1>7, <1>11, <1>12, <1>13 DEF CvShape
<1>15. CvCovered => CvCovered'
  <2> SUFFICES ASSUME CvCovered, NEW x \in Waiters, CvWaits(x)'
               PROVE  \/ x = awaiting' \/ x = to_resume_head'
                      \/ \E k \in Notifiers : CvHolds(k, x)'
                      \/ \E v \in Waiters : CvLinked(v)' /\ next'[v] = x
    BY DEF CvCovered
  <2>1. CASE x = awaiting
    BY <1>4, <1>9, <2>1
  <2>2. CASE \E v \in Waiters : CvLinked(v) /\ next[v] = x
    <3>1. PICK v \in Waiters : CvLinked(v) /\ next[v] = x
      BY <2>2
    <3>2. CvLinked(v)' /\ next'[v] = x
      BY <1>2, <1>4, <1>9, <3>1 DEF CvLinked
    <3> QED
      BY <3>2
  <2> QED
    BY <1>2, <1>3, <1>7, <2>1, <2>2 DEF CvCovered
<1>16. CvNoCycle => CvNoCycle'
  <2> SUFFICES ASSUME CvNoCycle, NEW T \in SUBSET Waiters, T # {}, \A x \in T : CvWaits(x)'
               PROVE  \E x \in T : \A v \in T : CvLinked(v)' => next'[v] # x
    BY DEF CvNoCycle
  <2>1. CASE w \in T
    <3>1. ASSUME NEW v \in T, CvLinked(v)' PROVE next'[v] # w
      BY <1>1, <1>2, <1>4, <1>9, <1>10, <3>1
    <3> QED
      BY <2>1, <3>1
  <2>2. CASE w \notin T
    <3>1. \A x \in T : CvWaits(x) /\ x # w
      BY <1>2, <2>2
    <3>2. PICK x \in T : \A v \in T : CvLinked(v) => next[v] # x
      BY <3>1 DEF CvNoCycle
    <3>3. \A v \in T : CvLinked(v)' => next'[v] # x
      BY <1>4, <1>9, <3>1, <3>2
    <3> QED
      BY <3>3
  <2> QED
    BY <2>1, <2>2
<1> QED
  BY <1>14, <1>15, <1>16 DEF CvKeeps
\* The steps of a notifier that change no list.
LEMMA CvEasySteps ==
  ASSUME CvInv, NEW n \in Notifiers, NEW on, CvShape(on), UNCHANGED setup,
         \/ NotifyOne(n) /\ to_resume_head = nullptr
         \/ ExchangeAwaiting(n) /\ awaiting = nullptr
         \/ Reverse(n) /\ local[n].pred = nullptr
         \/ TryNotifyAll(n) /\ local[n].head = nullptr
         \/ AdvanceHead(n)
  PROVE  CvShape(on)' /\ CvKeeps
<1>1. CvLists /\ CvLocals(n, on) /\ n \in Actors /\ CvLock /\ CvHands(n)
  BY CvSplit DEF CvShape, CvRest, Actors
<1>2. \A to : cv_pc' = [cv_pc EXCEPT ![n] = to] /\ queue' = queue =>
        cv_pc'[n] = to /\ \A x \in Waiters : CvWaits(x)' <=> CvWaits(x)
  BY CvMovesWaits
<1>3. CASE NotifyOne(n) /\ to_resume_head = nullptr
  <2>1. /\ cv_pc[n] = "idle" /\ cv_pc' = [cv_pc EXCEPT ![n] = "n_exchange"] /\ local' = local
        /\ UNCHANGED <<queue, next, awaiting, to_resume_head>>
    BY <1>3 DEF NotifyOne, Moves
  <2>2. cv_pc'[n] = "n_exchange"
    BY <1>2, <2>1
  <2>3. CvLocals(n, on)'
    BY <2>2 DEF CvLocals, CvSplices
  <2>4. \A w : ~ CvHolds(n, w)' /\ ~ CvHolds(n, w) /\ ~ CvDrops(n, w)' /\ ~ CvDrops(n, w)
    BY <2>1, <2>2 DEF CvHolds, CvDrops, CvSplices
  <2> QED
    BY <1>3, <2>1, <2>3, <2>4, CvEasy
<1>4. CASE ExchangeAwaiting(n) /\ awaiting = nullptr
  <2>1. /\ cv_pc[n] = "n_exchange" /\ cv_pc' = [cv_pc EXCEPT ![n] = "idle"]
        /\ \A k \in Notifiers \ {n} : local'[k] = local[k]
        /\ UNCHANGED <<queue, next, awaiting, to_resume_head, to_resume_tail>>
    BY <1>1, <1>4 DEF ExchangeAwaiting, Moves, CvLists
  <2>2. cv_pc'[n] = "idle"
    BY <1>2, <2>1
  <2>3. CvLocals(n, on)'
    BY <2>2 DEF CvLocals, CvSplices
  <2>4. \A w : ~ CvHolds(n, w)' /\ ~ CvHolds(n, w) /\ ~ CvDrops(n, w)' /\ ~ CvDrops(n, w)
    BY <2>1, <2>2 DEF CvHolds, CvDrops, CvSplices
  <2> QED
    BY <2>1, <2>3, <2>4, CvEasy
<1>5. CASE Reverse(n) /\ local[n].pred = nullptr
  <2>1. /\ cv_pc[n] = "n_reverse" /\ cv_pc' = [cv_pc EXCEPT ![n] = "n_splice"] /\ local' = local
        /\ UNCHANGED <<queue, next, awaiting, to_resume_head, to_resume_tail>>
    BY <1>5 DEF Reverse, Moves
  <2>2. cv_pc'[n] = "n_splice" /\ \A x \in Waiters : CvWaits(x)' <=> CvWaits(x)
    BY <1>2, <2>1
  <2>3. /\ local[n].head \in Waiters /\ local[n].succ \in Ptr
        /\ nullptr \notin Waiters /\ \A x \in Ptr : x # nullptr => x \in Waiters
    BY <1>1, <2>1, CvSplit, CvPtr DEF CvHands, CvLists
  <2>4. CvLocals(n, on)'
    BY <1>1, <1>5, <2>1, <2>2, <2>3 DEF CvLocals, CvSplices
  <2>5. \A w : (CvHolds(n, w)' <=> CvHolds(n, w)) /\ (CvDrops(n, w)' <=> CvDrops(n, w))
    BY <2>1, <2>2 DEF CvHolds, CvDrops, CvSplices
  <2> QED
    BY <2>1, <2>4, <2>5, CvEasy
<1>6. CASE TryNotifyAll(n) /\ local[n].head = nullptr
  <2>1. PICK to \in {"a_second", "idle"} :
             /\ cv_pc' = [cv_pc EXCEPT ![n] = to] /\ cv_pc[n] \in {"a_loop", "a_loop2"}
    BY <1>6 DEF TryNotifyAll
  <2>2. local' = local /\ UNCHANGED <<queue, next, awaiting, to_resume_head, to_resume_tail>>
    BY <1>6 DEF TryNotifyAll, cvars
  <2>3. cv_pc'[n] = to
    BY <1>2, <2>1, <2>2
  <2>4. CvLocals(n, on)'
    BY <1>1, <2>1, <2>3 DEF CvLocals, CvSplices
  <2>5. \A w : ~ CvHolds(n, w)' /\ ~ CvHolds(n, w) /\ ~ CvDrops(n, w)' /\ ~ CvDrops(n, w)
    BY <1>6, <2>1, <2>3 DEF CvHolds, CvDrops, CvSplices
  <2> QED
    BY <2>1, <2>2, <2>4, <2>5, CvEasy
<1>7. CASE AdvanceHead(n)
  <2>1. PICK to \in {"a_loop", "a_loop2"} :
             /\ cv_pc' = [cv_pc EXCEPT ![n] = to] /\ cv_pc[n] \in {"a_next", "a_next2"}
    BY <1>7 DEF AdvanceHead
  <2>2. /\ local' = [local EXCEPT ![n].head = next[local[n].head]]
        /\ UNCHANGED <<queue, next, awaiting, to_resume_head, to_resume_tail>>
    BY <1>7 DEF AdvanceHead, cvars
  <2>3. local'[n].head = next[local[n].head] /\ \A k \in Notifiers \ {n} : local'[k] = local[k]
    BY <1>1, <2>2 DEF CvLists
  <2>4. /\ cv_pc'[n] = to /\ \A x \in Waiters : CvWaits(x)' <=> CvWaits(x)
    BY <1>2, <2>1, <2>2
  <2>5. local[n].head \in Waiters /\ (next[local[n].head] # nullptr => next[local[n].head] \in Waiters)
    BY <1>1, <2>1 DEF CvHands, CvLists, Ptr
  <2>6. CvLocals(n, on)'
    BY <1>1, <2>1, <2>3, <2>4, <2>5 DEF CvLocals, CvSplices
  <2>7. \A w : (CvHolds(n, w)' <=> CvHolds(n, w)) /\ ~ CvDrops(n, w)' /\ ~ CvDrops(n, w)
    BY <2>1, <2>3, <2>4 DEF CvHolds, CvDrops, CvSplices
  <2> QED
    BY <2>1, <2>2, <2>3, <2>6, <2>7, CvEasy
<1> QED
  BY <1>3, <1>4, <1>5, <1>6, <1>7
\* notify_one() pops the head of to_resume.
LEMMA CvPopShape ==
  ASSUME CvInv, NEW n \in Notifiers, NEW on, CvShape(on), UNCHANGED setup,
         NotifyOne(n), to_resume_head # nullptr
  PROVE  (\E no : CvShape(no)') /\ CvKeeps
<1>1. CvLists /\ CvLocals(n, on) /\ nullptr \notin Waiters /\ \A x \in Ptr : x # nullptr => x \in Waiters
  BY CvSplit, CvPtr DEF CvShape
<1>2. PICK h : h = to_resume_head
  OBVIOUS
<1>3. /\ cv_pc[n] = "idle" /\ cv_pc' = [cv_pc EXCEPT ![n] = "n_register"] /\ to_resume_head' = next[h]
      /\ local' = [local EXCEPT ![n].head = h]
      /\ UNCHANGED <<queue, awaiting, to_resume_tail, next>>
  BY <1>2 DEF NotifyOne, Moves
<1>4. local'[n].head = h /\ \A k \in Notifiers \ {n} : local'[k] = local[k]
  BY <1>1, <1>3 DEF CvLists
<1>5. /\ \A x \in Waiters : CvWaits(x)' <=> CvWaits(x)
      /\ \A k \in Notifiers \ {n} : cv_pc'[k] = cv_pc[k]
      /\ cv_pc'[n] = "n_register"
  BY <1>3, CvMovesWaits DEF Actors
<1>6. /\ h \in Waiters /\ h # nullptr /\ CvWaits(h) /\ on[h] = CvToResume
      /\ to_resume_tail \in Waiters /\ CvWaits(to_resume_tail) /\ on[to_resume_tail] = CvToResume
      /\ next[to_resume_tail] = nullptr
      /\ awaiting # nullptr => awaiting \in Waiters /\ CvWaits(awaiting) /\ on[awaiting] = CvAwaiting
      /\ next[h] # nullptr => next[h] \in Waiters
  BY <1>1, <1>2 DEF CvShape, CvAnchors, CvLists
<1>7. CvLinked(h)
  BY <1>6, CvHeldIs, CvNames DEF CvLinked
<1>8. next[h] # nullptr => CvWaits(next[h]) /\ on[next[h]] = CvToResume /\ next[h] # h
  BY <1>2, <1>6, <1>7 DEF CvShape, CvLinks
<1>9. PICK no : \A x \in Waiters : no[x] = IF x = h THEN CvTaken(n) ELSE on[x]
  <2>1. \A x \in Waiters : [y \in Waiters |-> IF y = h THEN CvTaken(n) ELSE on[y]][x]
                             = IF x = h THEN CvTaken(n) ELSE on[x]
    OBVIOUS
  <2> QED
    BY <2>1
<1>10. CvAnchors(no)'
  <2>1. awaiting # h
    BY <1>6, CvNames
  <2>2. next[h] # nullptr => to_resume_tail # h
    BY <1>6
  <2> QED
    BY <1>3, <1>5, <1>6, <1>8, <1>9, <2>1, <2>2 DEF CvAnchors
<1>11. CvLocals(n, no)'
  BY <1>3, <1>4, <1>5, <1>6, <1>9 DEF CvLocals, CvSplices
<1>12. \A w : ~ CvDrops(n, w) /\ (CvDrops(n, w)' <=> w = h) /\ (CvHolds(n, w)' => w = h)
  BY <1>3, <1>4, <1>5 DEF CvHolds, CvDrops, CvSplices
<1>13. \A x \in Waiters, k \in Notifiers \ {n} :
         on[x] \in {CvTaken(k), CvReversed(k)} => no[x] = on[x]
  BY <1>6, <1>9, CvNames
<1>14. \A x, y \in Waiters : /\ CvLinked(x) /\ ~ CvDrops(n, x)'
                             /\ y = next[x] /\ on[x] = on[y]
                             => no[x] = no[y]
  <2>1. \A x \in Waiters : CvLinked(x) => next[x] # h
    BY <1>2, <1>6 DEF CvShape, CvLinks
  <2> QED
    BY <1>9, <1>12, <2>1
<1>15. \A x \in Waiters : CvWaits(x)' <=> CvWaits(x) /\ x # nullptr
  BY <1>1, <1>5
<1>16. \A y \in Waiters : y = awaiting' \/ y = to_resume_head' \/ CvHolds(n, y)' =>
         \/ y = awaiting \/ y = to_resume_head
         \/ \E v \in Waiters : CvLinked(v) /\ CvDrops(n, v)' /\ y = next[v]
  BY <1>2, <1>3, <1>6, <1>7, <1>12
<1>17. \A y \in Waiters :
         \/ y = awaiting \/ y = to_resume_head \/ CvHolds(n, y)
         \/ \E v \in Waiters : CvLinked(v) /\ CvDrops(n, v)' /\ y = next[v]
         => y = awaiting' \/ y = to_resume_head' \/ CvHolds(n, y)'
  <2>1. \A w : ~ CvHolds(n, w)
    BY <1>3 DEF CvHolds, CvSplices
  <2>2. CvHolds(n, h)'
    BY <1>4, <1>5, <1>6 DEF CvHolds
  <2> QED
    BY <1>2, <1>3, <1>12, <2>1, <2>2
<1>18. \A x \in Waiters : CvDrops(n, x) => CvDrops(n, x)' \/ x = nullptr
  BY <1>12
<1>19. nullptr \in Waiters => on[nullptr] = CvTaken(n) /\ CvHolds(n, nullptr)
  BY <1>1
<1>20. /\ \A y \in Waiters : y = awaiting' \/ y = to_resume_head' \/ CvHolds(n, y)' =>
            \/ y = awaiting \/ y = to_resume_head \/ CvHolds(n, y)
            \/ \E v \in Waiters : CvLinked(v) /\ (CvDrops(n, v)' \/ v = nullptr) /\ y = next[v]
       /\ \A y \in Waiters :
            \/ y # nullptr /\ (y = awaiting \/ y = to_resume_head \/ CvHolds(n, y))
            \/ \E v \in Waiters : CvLinked(v) /\ (CvDrops(n, v)' \/ v = nullptr) /\ y = next[v]
            => y = awaiting' \/ y = to_resume_head' \/ CvHolds(n, y)'
  BY <1>1, <1>16, <1>17
<1>21. \A x, y \in Waiters : /\ CvLinked(x) /\ ~ CvDrops(n, x)' /\ x # nullptr
                             /\ y = next[x] /\ on[x] = on[y]
                             => no[x] = no[y]
  BY <1>14
<1>22. CvShape(no)' /\ CvKeeps
  BY <1>3, <1>4, <1>5, <1>10, <1>11, <1>13, <1>15, <1>18, <1>19, <1>20, <1>21, CvRelabel
<1> QED
  BY <1>22
\* notify_one() takes the awaiting list.
LEMMA CvExchangeShape ==
  ASSUME CvInv, NEW n \in Notifiers, NEW on, CvShape(on), UNCHANGED setup,
         ExchangeAwaiting(n), awaiting # nullptr
  PROVE  (\E no : CvShape(no)') /\ CvKeeps
<1>1. CvLists /\ CvLocals(n, on) /\ nullptr \notin Waiters /\ \A x \in Ptr : x # nullptr => x \in Waiters
  BY CvSplit, CvPtr DEF CvShape
<1>2. PICK h, p : h = awaiting /\ p = next[h]
  OBVIOUS
<1>3. /\ cv_pc[n] = "n_exchange" /\ cv_pc' = [cv_pc EXCEPT ![n] = "n_reverse"] /\ awaiting' = nullptr
      /\ local' = [local EXCEPT ![n] =
                     [head |-> h, succ |-> nullptr, pred |-> p, tail |-> h]]
      /\ UNCHANGED <<queue, to_resume_head, to_resume_tail, next>>
  BY <1>2 DEF ExchangeAwaiting, Moves
<1>4. /\ local'[n].head = h /\ local'[n].succ = nullptr /\ local'[n].pred = p
      /\ local'[n].tail = h /\ \A k \in Notifiers \ {n} : local'[k] = local[k]
  BY <1>1, <1>3 DEF CvLists
<1>5. /\ \A x \in Waiters : CvWaits(x)' <=> CvWaits(x)
      /\ \A k \in Notifiers \ {n} : cv_pc'[k] = cv_pc[k]
      /\ cv_pc'[n] = "n_reverse"
  BY <1>3, CvMovesWaits DEF Actors
<1>6. /\ to_resume_head # nullptr =>
           /\ to_resume_head \in Waiters /\ CvWaits(to_resume_head) /\ on[to_resume_head] = CvToResume
           /\ to_resume_tail \in Waiters /\ CvWaits(to_resume_tail) /\ on[to_resume_tail] = CvToResume
           /\ next[to_resume_tail] = nullptr
      /\ awaiting # nullptr => awaiting \in Waiters /\ CvWaits(awaiting) /\ on[awaiting] = CvAwaiting
  BY <1>1 DEF CvShape, CvAnchors, CvLists
<1>7. CvLinked(h) /\ h \in Waiters
  BY <1>2, <1>6, CvHeldIs, CvNames DEF CvLinked
<1>8. p # nullptr => CvWaits(p) /\ on[p] = CvAwaiting /\ p # h /\ p \in Waiters
  BY <1>1, <1>2, <1>6, <1>7 DEF CvShape, CvLinks, CvLists
<1>9. PICK no : \A x \in Waiters : no[x] = IF on[x] = CvAwaiting THEN CvTaken(n) ELSE on[x]
  <2>1. \A x \in Waiters : [y \in Waiters |-> IF on[y] = CvAwaiting THEN CvTaken(n) ELSE on[y]][x]
                             = IF on[x] = CvAwaiting THEN CvTaken(n) ELSE on[x]
    OBVIOUS
  <2> QED
    BY <2>1
<1>10. CvAnchors(no)'
  BY <1>3, <1>5, <1>6, <1>9, CvNames DEF CvAnchors
<1>11. CvLocals(n, no)'
  <2>1. no[h] = CvTaken(n) /\ CvWaits(h)' /\ h # nullptr /\ next'[h] = p /\ h # p
    BY <1>1, <1>2, <1>3, <1>5, <1>6, <1>7, <1>8, <1>9
  <2>2. p # nullptr => CvWaits(p)' /\ no[p] = CvTaken(n)
    BY <1>5, <1>8, <1>9
  <2> QED
    BY <1>4, <1>5, <2>1, <2>2 DEF CvLocals, CvSplices
<1>12. \A w : /\ ~ CvDrops(n, w) /\ (CvDrops(n, w)' <=> w = h)
              /\ CvHolds(n, w)' => w = h \/ w = p
  BY <1>3, <1>4, <1>5 DEF CvHolds, CvDrops, CvSplices
<1>13. \A x \in Waiters, k \in Notifiers \ {n} :
         on[x] \in {CvTaken(k), CvReversed(k)} => no[x] = on[x]
  BY <1>9, CvNames
<1>14. \A x, y \in Waiters : on[x] = on[y] => no[x] = no[y]
  BY <1>9
<1>15. \A x \in Waiters : CvWaits(x)' <=> CvWaits(x) /\ x # nullptr
  BY <1>1, <1>5
<1>16. \A y \in Waiters : y = awaiting' \/ y = to_resume_head' \/ CvHolds(n, y)' =>
         \/ y = awaiting \/ y = to_resume_head
         \/ \E v \in Waiters : CvLinked(v) /\ CvDrops(n, v)' /\ y = next[v]
  BY <1>1, <1>2, <1>3, <1>7, <1>12
<1>17. \A y \in Waiters :
         \/ y = awaiting \/ y = to_resume_head \/ CvHolds(n, y)
         \/ \E v \in Waiters : CvLinked(v) /\ CvDrops(n, v)' /\ y = next[v]
         => y = awaiting' \/ y = to_resume_head' \/ CvHolds(n, y)'
  <2>1. \A w : ~ CvHolds(n, w)
    BY <1>3 DEF CvHolds, CvSplices
  <2>2. \A w : w # nullptr /\ w \in {h, p} => CvHolds(n, w)'
    BY <1>4, <1>5 DEF CvHolds, CvSplices
  <2> QED
    BY <1>1, <1>2, <1>3, <1>12, <2>1, <2>2
<1>18. CvShape(no)' /\ CvKeeps
  BY <1>1, <1>3, <1>4, <1>5, <1>10, <1>11, <1>12, <1>13, <1>14, <1>15, <1>16, <1>17, CvRelabel
<1> QED
  BY <1>18

\* notify_one() leaves what it does not need to an empty to_resume.
LEMMA CvSpliceEmptyShape ==
  ASSUME CvInv, NEW n \in Notifiers, NEW on, CvShape(on), UNCHANGED setup, SpliceEmpty(n)
  PROVE  (\E no : CvShape(no)') /\ CvKeeps
<1>1. CvLists /\ CvLocals(n, on) /\ nullptr \notin Waiters /\ \A x \in Ptr : x # nullptr => x \in Waiters
  BY CvSplit, CvPtr DEF CvShape
<1>2. PICK h, s : h = local[n].head /\ s = local[n].succ
  OBVIOUS
<1>3. /\ cv_pc[n] = "n_splice" /\ cv_pc' = [cv_pc EXCEPT ![n] = "n_register"]
      /\ to_resume_head = nullptr /\ to_resume_head' = s /\ to_resume_tail' = local[n].tail
      /\ local' = [local EXCEPT ![n] = [NoLocals EXCEPT !.head = h]]
      /\ UNCHANGED <<queue, awaiting, next>>
  BY <1>2 DEF SpliceEmpty, Moves
<1>4. local'[n].head = h /\ \A k \in Notifiers \ {n} : local'[k] = local[k]
  BY <1>1, <1>3 DEF CvLists, NoLocals
<1>5. /\ \A x \in Waiters : CvWaits(x)' <=> CvWaits(x)
      /\ \A k \in Notifiers \ {n} : cv_pc'[k] = cv_pc[k]
      /\ cv_pc'[n] = "n_register"
  BY <1>3, CvMovesWaits DEF Actors
<1>6. /\ to_resume_head # nullptr =>
           /\ to_resume_head \in Waiters /\ CvWaits(to_resume_head) /\ on[to_resume_head] = CvToResume
           /\ to_resume_tail \in Waiters /\ CvWaits(to_resume_tail) /\ on[to_resume_tail] = CvToResume
           /\ next[to_resume_tail] = nullptr
      /\ awaiting # nullptr => awaiting \in Waiters /\ CvWaits(awaiting) /\ on[awaiting] = CvAwaiting
  BY <1>1 DEF CvShape, CvAnchors, CvLists
<1>7. h \in Waiters /\ CvWaits(h) /\ on[h] = CvTaken(n)
  BY <1>1, <1>2, <1>3, CvSplit DEF CvLocals, CvSplices, CvHands, CvRest
<1>8. s # nullptr => /\ s \in Waiters /\ CvWaits(s) /\ on[s] = CvReversed(n)
                     /\ local[n].tail \in Waiters /\ CvWaits(local[n].tail)
                     /\ on[local[n].tail] = CvReversed(n) /\ next[local[n].tail] = nullptr
  BY <1>1, <1>2, <1>3 DEF CvLocals, CvSplices, CvLists
<1>9. PICK no : \A x \in Waiters : no[x] = IF on[x] = CvReversed(n) THEN CvToResume ELSE on[x]
  <2>1. \A x \in Waiters : [y \in Waiters |-> IF on[y] = CvReversed(n) THEN CvToResume ELSE on[y]][x]
                             = IF on[x] = CvReversed(n) THEN CvToResume ELSE on[x]
    OBVIOUS
  <2> QED
    BY <2>1
<1>10. CvAnchors(no)'
  BY <1>3, <1>5, <1>6, <1>8, <1>9, CvNames DEF CvAnchors
<1>11. CvLocals(n, no)'
  BY <1>4, <1>5, <1>7, <1>9, CvNames DEF CvLocals, CvSplices
<1>12. \A w : /\ CvDrops(n, w)' <=> CvDrops(n, w)
              /\ CvHolds(n, w)' => CvHolds(n, w)
              /\ w = s /\ w # nullptr => CvHolds(n, w)
  BY <1>2, <1>3, <1>4, <1>5 DEF CvHolds, CvDrops, CvSplices
<1>13. \A x \in Waiters, k \in Notifiers \ {n} :
         on[x] \in {CvTaken(k), CvReversed(k)} => no[x] = on[x]
  BY <1>9, CvNames
<1>14. \A x, y \in Waiters : on[x] = on[y] => no[x] = no[y]
  BY <1>9
<1>15. \A x \in Waiters : CvWaits(x)' <=> CvWaits(x) /\ x # nullptr
  BY <1>1, <1>5
<1>16. \A y \in Waiters : y = awaiting' \/ y = to_resume_head' \/ CvHolds(n, y)' =>
         y = awaiting \/ CvHolds(n, y)
  BY <1>1, <1>3, <1>12
<1>17. \A y \in Waiters :
         \/ y = awaiting \/ y = to_resume_head \/ CvHolds(n, y)
         \/ \E v \in Waiters : CvLinked(v) /\ CvDrops(n, v)' /\ y = next[v]
         => y = awaiting' \/ y = to_resume_head' \/ CvHolds(n, y)'
  <2>1. \A y \in Waiters : CvHolds(n, y) => y = h \/ y = s
    BY <1>1, <1>2, <1>3 DEF CvHolds, CvSplices, CvLocals
  <2>2. CvHolds(n, h)'
    BY <1>1, <1>4, <1>5, <1>7 DEF CvHolds
  <2>3. \A v \in Waiters : CvLinked(v) => ~ CvDrops(n, v)'
    BY <1>12 DEF CvLinked, CvLoose
  <2> QED
    BY <1>1, <1>3, <2>1, <2>2, <2>3
<1>18. CvShape(no)' /\ CvKeeps
  BY <1>1, <1>3, <1>4, <1>5, <1>10, <1>11, <1>12, <1>13, <1>14, <1>15, <1>16, <1>17, CvRelabel
<1> QED
  BY <1>18

\* notify_all() takes the awaiting list, and then to_resume.
LEMMA CvTakeShape ==
  ASSUME CvInv, NEW n \in Notifiers, NEW on, CvShape(on), UNCHANGED setup,
         NotifyAll(n) \/ TakeToResume(n)
  PROVE  (\E no : CvShape(no)') /\ CvKeeps
<1>1. CvLists /\ CvLocals(n, on) /\ nullptr \notin Waiters /\ \A x \in Ptr : x # nullptr => x \in Waiters
  BY CvSplit, CvPtr DEF CvShape
<1>2. PICK h, l, to :
        /\ cv_pc[n] \in {"idle", "a_second"} /\ to \in {"a_loop", "a_loop2"}
        /\ cv_pc' = [cv_pc EXCEPT ![n] = to] /\ "all" \in setup.kinds
        /\ local' = [local EXCEPT ![n].head = h]
        /\ \/ /\ h = awaiting /\ l = CvAwaiting /\ awaiting' = nullptr
              /\ to_resume_head' = to_resume_head
           \/ /\ h = to_resume_head /\ l = CvToResume /\ to_resume_head' = nullptr
              /\ awaiting' = awaiting
  <2>1. CASE NotifyAll(n)
    <3>1. /\ cv_pc[n] = "idle" /\ cv_pc' = [cv_pc EXCEPT ![n] = "a_loop"]
          /\ local' = [local EXCEPT ![n].head = awaiting]
          /\ "all" \in setup.kinds /\ awaiting' = nullptr /\ to_resume_head' = to_resume_head
      BY <2>1 DEF NotifyAll, Moves
    <3> WITNESS awaiting, CvAwaiting, "a_loop"
    <3> QED
      BY <3>1
  <2>2. CASE TakeToResume(n)
    <3>1. /\ cv_pc[n] = "a_second" /\ cv_pc' = [cv_pc EXCEPT ![n] = "a_loop2"]
          /\ local' = [local EXCEPT ![n].head = to_resume_head]
          /\ awaiting' = awaiting /\ to_resume_head' = nullptr
      BY <2>2 DEF TakeToResume, Moves
    <3>2. "all" \in setup.kinds
      BY <1>1, <3>1 DEF CvLocals
    <3> WITNESS to_resume_head, CvToResume, "a_loop2"
    <3> QED
      BY <3>1, <3>2
  <2> QED
    BY <2>1, <2>2
<1>3. UNCHANGED <<queue, to_resume_tail, next>>
  BY DEF NotifyAll, TakeToResume
<1>4. local'[n].head = h /\ \A k \in Notifiers \ {n} : local'[k] = local[k]
  BY <1>1, <1>2 DEF CvLists
<1>5. /\ \A x \in Waiters : CvWaits(x)' <=> CvWaits(x)
      /\ \A k \in Notifiers \ {n} : cv_pc'[k] = cv_pc[k]
      /\ cv_pc'[n] = to
  BY <1>2, <1>3, CvMovesWaits DEF Actors
<1>6. /\ to_resume_head # nullptr =>
           /\ to_resume_head \in Waiters /\ CvWaits(to_resume_head) /\ on[to_resume_head] = CvToResume
           /\ to_resume_tail \in Waiters /\ CvWaits(to_resume_tail) /\ on[to_resume_tail] = CvToResume
           /\ next[to_resume_tail] = nullptr
      /\ awaiting # nullptr => awaiting \in Waiters /\ CvWaits(awaiting) /\ on[awaiting] = CvAwaiting
  BY <1>1 DEF CvShape, CvAnchors, CvLists
<1>7. h # nullptr => h \in Waiters /\ CvWaits(h) /\ on[h] = l
  BY <1>2, <1>6
<1>9. PICK no : \A x \in Waiters : no[x] = IF on[x] = l THEN CvTaken(n) ELSE on[x]
  <2>1. \A x \in Waiters : [y \in Waiters |-> IF on[y] = l THEN CvTaken(n) ELSE on[y]][x]
                             = IF on[x] = l THEN CvTaken(n) ELSE on[x]
    OBVIOUS
  <2> QED
    BY <2>1
<1>10. CvAnchors(no)'
  BY <1>2, <1>3, <1>5, <1>6, <1>9, CvNames DEF CvAnchors
<1>11. CvLocals(n, no)'
  <2>1. h # nullptr => CvWaits(h)' /\ no[h] = CvTaken(n)
    BY <1>5, <1>7, <1>9
  <2> QED
    BY <1>2, <1>4, <1>5, <2>1 DEF CvLocals, CvSplices
<1>12. \A w : ~ CvDrops(n, w) /\ (CvHolds(n, w)' => w = awaiting \/ w = to_resume_head)
  BY <1>2, <1>4, <1>5 DEF CvHolds, CvDrops, CvSplices
<1>13. \A x \in Waiters, k \in Notifiers \ {n} :
         on[x] \in {CvTaken(k), CvReversed(k)} => no[x] = on[x]
  BY <1>2, <1>9, CvNames
<1>14. \A x, y \in Waiters : on[x] = on[y] => no[x] = no[y]
  BY <1>9
<1>15. \A x \in Waiters : CvWaits(x)' <=> CvWaits(x) /\ x # nullptr
  BY <1>1, <1>5
<1>16. \A y \in Waiters : y = awaiting' \/ y = to_resume_head' \/ CvHolds(n, y)' =>
         y = awaiting \/ y = to_resume_head
  BY <1>1, <1>2, <1>12
<1>17. \A y \in Waiters :
         \/ y = awaiting \/ y = to_resume_head \/ CvHolds(n, y)
         \/ \E v \in Waiters : CvLinked(v) /\ CvDrops(n, v)' /\ y = next[v]
         => y = awaiting' \/ y = to_resume_head' \/ CvHolds(n, y)'
  <2>1. \A w : ~ CvHolds(n, w) /\ ~ CvDrops(n, w)'
    BY <1>2, <1>5 DEF CvHolds, CvDrops, CvSplices
  <2>2. h # nullptr => CvHolds(n, h)'
    BY <1>2, <1>4, <1>5 DEF CvHolds
  <2> QED
    BY <1>1, <1>2, <2>1, <2>2
<1>18. CvShape(no)' /\ CvKeeps
  BY <1>1, <1>3, <1>4, <1>5, <1>10, <1>11, <1>12, <1>13, <1>14, <1>15, <1>16, <1>17, CvRelabel
<1> QED
  BY <1>18

\* A notifier registers the head of its list, which leaves the condition variable.
LEMMA CvRegisterShape ==
  ASSUME CvInv, NEW n \in Notifiers, NEW on, CvShape(on), UNCHANGED setup,
         \/ TryNotifyOne(n)
         \/ TryNotifyAll(n) /\ local[n].head # nullptr
  PROVE  CvShape(on)' /\ CvKeeps /\ stale' = stale
<1>1. /\ CvLists /\ CvLocals(n, on) /\ CvHands(n)
      /\ nullptr \notin Waiters /\ \A x \in Ptr : x # nullptr => x \in Waiters
  BY CvSplit, CvPtr DEF CvShape, CvRest
<1>2. PICK h, to, p :
        /\ h = local[n].head /\ p = next[h] /\ Register(n, h, to)
        /\ \/ /\ cv_pc[n] = "n_register" /\ to = "idle" /\ local' = [local EXCEPT ![n] = NoLocals]
           \/ /\ cv_pc[n] \in {"a_loop", "a_loop2"} /\ to \in {"a_next", "a_next2"}
              /\ local' = local /\ h # nullptr
  <2>1. CASE TryNotifyOne(n)
    <3> WITNESS local[n].head, "idle", next[local[n].head]
    <3> QED
      BY <2>1 DEF TryNotifyOne
  <2>2. CASE TryNotifyAll(n) /\ local[n].head # nullptr
    <3>1. PICK to \in {"a_next", "a_next2"} : Register(n, local[n].head, to)
      BY <2>2 DEF TryNotifyAll
    <3> WITNESS local[n].head, to, next[local[n].head]
    <3> QED
      BY <2>2, <3>1 DEF TryNotifyAll
  <2> QED
    BY <2>1, <2>2
<1>3. UNCHANGED <<awaiting, to_resume_head, to_resume_tail, next>>
  BY DEF TryNotifyOne, TryNotifyAll, cvars
<1>4. /\ h \in Waiters /\ h # nullptr /\ CvWaits(h) /\ on[h] = CvTaken(n) /\ CvHolds(n, h)
      /\ p # nullptr => p \in Waiters
  BY <1>1, <1>2 DEF CvLocals, CvHands, CvLists, CvHolds
<1>5. /\ \A x \in Waiters : CvWaits(x)' <=> CvWaits(x) /\ x # h
      /\ \A k \in Notifiers \ {n} : cv_pc'[k] = cv_pc[k]
      /\ cv_pc'[n] = to /\ stale' = stale
  <2>1. \A k \in Notifiers \ {n} : k \in Actors \ {n} /\ k # h
    BY <1>4, CvSplit DEF Actors, CvConstants
  <2> QED
    BY <1>2, <1>4, <2>1, CvRegisterWaits
<1>6. \A k \in Notifiers \ {n} : local'[k] = local[k]
  BY <1>1, <1>2 DEF CvLists
<1>7. ASSUME cv_pc[n] # "n_register"
      PROVE  CvLinked(h) /\ (p # nullptr => CvWaits(p) /\ on[p] = CvTaken(n) /\ p # h)
  <2>1. \A w : ~ CvDrops(n, w)
    BY <1>2, <1>7 DEF CvDrops, CvSplices
  <2>2. CvLinked(h)
    BY <1>4, <2>1, CvHeldIs, CvNames DEF CvLinked, CvLoose
  <2> QED
    BY <1>2, <1>4, <2>2 DEF CvShape, CvLinks
<1>8. CvAnchors(on)'
  <2>1. /\ awaiting # nullptr => awaiting \in Waiters /\ awaiting # h
        /\ to_resume_head # nullptr => to_resume_head \in Waiters /\ to_resume_head # h /\ to_resume_tail # h
    BY <1>1, <1>4, CvNames DEF CvShape, CvAnchors, CvLists
  <2> QED
    BY <1>3, <1>5, <2>1 DEF CvShape, CvAnchors
<1>9. CvLocals(n, on)'
  <2>1. CASE cv_pc[n] = "n_register"
    BY <1>2, <1>5, <2>1 DEF CvLocals, CvSplices
  <2>2. CASE cv_pc[n] # "n_register"
    <3>1. ~ CvWaits(h)' /\ (p # nullptr => CvWaits(p)' /\ on[p] = CvTaken(n))
      BY <1>4, <1>5, <1>7, <2>2
    <3>2. local'[n].head = h /\ next'[h] = p /\ "all" \in setup.kinds
      BY <1>1, <1>2, <1>3, <2>2 DEF CvLocals
    <3> QED
      BY <1>2, <1>5, <2>2, <3>1, <3>2 DEF CvLocals, CvSplices
  <2> QED
    BY <2>1, <2>2
<1>10. \A w : CvDrops(n, w) => CvDrops(n, w)' \/ w = h
  BY <1>2 DEF CvDrops, CvSplices
<1>11. \A y \in Waiters : y = awaiting' \/ y = to_resume_head' \/ CvHolds(n, y)' =>
         \/ y = awaiting \/ y = to_resume_head
         \/ \E v \in Waiters : CvLinked(v) /\ v = h /\ y = next[v]
  <2>1. \A w : CvHolds(n, w)' => cv_pc[n] # "n_register" /\ w = p
    BY <1>2, <1>3, <1>5 DEF CvHolds, CvSplices
  <2> QED
    BY <1>2, <1>3, <1>4, <1>7, <2>1
<1>12. \A y \in Waiters :
         \/ y # h /\ (y = awaiting \/ y = to_resume_head \/ CvHolds(n, y))
         \/ \E v \in Waiters : CvLinked(v) /\ (CvDrops(n, v)' \/ v = h) /\ y = next[v]
         => y = awaiting' \/ y = to_resume_head' \/ CvHolds(n, y)'
  <2>1. \A w : (CvHolds(n, w) => w = h) /\ ~ CvDrops(n, w)'
    BY <1>2, <1>5 DEF CvHolds, CvDrops, CvSplices
  <2>2. ASSUME cv_pc[n] # "n_register" PROVE p # nullptr => CvHolds(n, p)'
    <3>1. local'[n].head = h /\ next'[h] = p /\ cv_pc'[n] \in {"a_next", "a_next2"}
      BY <1>2, <1>3, <1>5, <2>2
    <3> QED
      BY <3>1 DEF CvHolds
  <2>3. cv_pc[n] = "n_register" => ~ CvLinked(h)
    BY <1>2 DEF CvLinked, CvLoose, CvDrops
  <2> QED
    BY <1>1, <1>2, <1>3, <2>1, <2>2, <2>3
<1>13. CvShape(on)' /\ CvKeeps
  BY <1>3, <1>4, <1>5, <1>6, <1>8, <1>9, <1>10, <1>11, <1>12, CvRelabel
<1> QED
  BY <1>5, <1>13
\* The rest of a coroutine's steps change nothing here.
LEMMA CvMutexShape ==
  ASSUME CvInv, NEW on, CvShape(on), NEW w \in Waiters, UNCHANGED setup,
         AwaitLock(w) \/ WaiterStep(w)
  PROVE  CvShape(on)' /\ CvKeeps
<1>1. /\ CvLists /\ CvRest
      /\ \A k \in Notifiers : k \in Actors \ {w} /\ k \notin Waiters
  BY CvSplit DEF Actors, CvConstants
<1>2. UNCHANGED <<awaiting, to_resume_head, to_resume_tail, next, local>>
  BY DEF AwaitLock, WaiterStep, Resume, GuardUnlock, UnlockAhead, cvars
<1>3. /\ \A x \in Waiters : CvWaits(x)' <=> CvWaits(x)
      /\ \A k \in Notifiers : cv_pc'[k] = cv_pc[k]
  BY <1>1, CvMutexWaits
<1>4. ASSUME NEW k \in Notifiers
      PROVE  /\ CvLocals(k, on)'
             /\ \A x : CvHolds(k, x)' <=> CvHolds(k, x)
             /\ \A x : CvDrops(k, x)' <=> CvDrops(k, x)
  <2>1. CvLocals(k, on) /\ CvHands(k) /\ cv_pc'[k] = cv_pc[k] /\ local'[k] = local[k]
    BY <1>1, <1>2, <1>3 DEF CvShape, CvRest
  <2>2. cv_pc[k] \in {"a_next", "a_next2"} => ~ CvWaits(local[k].head)'
    <3>1. cv_pc[k] \in {"a_next", "a_next2"}
            => local[k].head \in Waiters /\ ~ CvWaits(local[k].head)
      BY <2>1 DEF CvLocals, CvHands
    <3> QED
      BY <1>2, <1>3, <3>1
  <2> QED
    BY <1>1, <1>2, <1>3, <2>1, <2>2, CvOthers
<1>5. \A x \in Waiters : CvLinked(x)' <=> CvLinked(x)
  BY <1>3, <1>4 DEF CvLinked, CvLoose
<1>6. CvOneLink'
  BY <1>2, <1>5 DEF CvShape, CvOneLink
<1>7. CvLinks(on)'
  <2>1. \A x \in Waiters : next[x] # nullptr => next[x] \in Waiters
    BY <1>1 DEF CvLists, Ptr
  <2> QED
    BY <1>2, <1>3, <1>4, <1>5, <2>1 DEF CvShape, CvLinks
<1>8. CvAnchors(on)'
  <2>1. {awaiting, to_resume_head} \ {nullptr} \subseteq Waiters
    BY <1>1 DEF CvLists, Ptr
  <2> QED
    BY <1>2, <1>3, <2>1 DEF CvShape, CvAnchors
<1>9. CvNoCycle => CvNoCycle'
  BY <1>2, <1>3, <1>5 DEF CvNoCycle
<1>10. CvCovered => CvCovered'
  BY <1>2, <1>3, <1>4, <1>5 DEF CvCovered
<1> QED
  BY <1>4, <1>6, <1>7, <1>8, <1>9, <1>10 DEF CvShape, CvKeeps
\* One round of the reversal moves the head from one part to the other.
LEMMA CvReverseShape ==
  ASSUME CvInv, NEW n \in Notifiers, NEW on, CvShape(on), UNCHANGED setup,
         Reverse(n), local[n].pred # nullptr
  PROVE  (\E no : CvShape(no)') /\ CvKeeps
<1>1. /\ CvLists /\ CvLocals(n, on) /\ CvHands(n)
      /\ nullptr \notin Waiters /\ \A x \in Ptr : x # nullptr => x \in Waiters
  BY CvSplit, CvPtr DEF CvShape, CvRest
<1>2. PICK h, s, p, q, t : /\ h = local[n].head /\ s = local[n].succ /\ p = local[n].pred
                           /\ q = next[p] /\ t = local[n].tail
  OBVIOUS
<1>3. /\ cv_pc[n] = "n_reverse" /\ cv_pc' = [cv_pc EXCEPT ![n] = "n_reverse"]
      /\ next' = [next EXCEPT ![h] = s]
      /\ local' = [local EXCEPT ![n] = [local[n] EXCEPT !.succ = h, !.head = p, !.pred = q]]
      /\ UNCHANGED <<queue, awaiting, to_resume_head, to_resume_tail>>
  BY <1>2 DEF Reverse, Moves
<1>4. /\ local'[n].head = p /\ local'[n].succ = h /\ local'[n].pred = q /\ local'[n].tail = t
      /\ \A k \in Notifiers \ {n} : local'[k] = local[k]
  BY <1>1, <1>2, <1>3 DEF CvLists
<1>5. /\ \A x \in Waiters : CvWaits(x)' <=> CvWaits(x)
      /\ \A k \in Notifiers \ {n} : cv_pc'[k] = cv_pc[k]
      /\ cv_pc'[n] = "n_reverse"
  BY <1>3, CvMovesWaits DEF Actors
<1>6. /\ to_resume_head # nullptr =>
           /\ to_resume_head \in Waiters /\ CvWaits(to_resume_head) /\ on[to_resume_head] = CvToResume
           /\ to_resume_tail \in Waiters /\ CvWaits(to_resume_tail) /\ on[to_resume_tail] = CvToResume
           /\ next[to_resume_tail] = nullptr
      /\ awaiting # nullptr => awaiting \in Waiters /\ CvWaits(awaiting) /\ on[awaiting] = CvAwaiting
  BY <1>1 DEF CvShape, CvAnchors, CvLists
<1>7. /\ h \in Waiters /\ h # nullptr /\ CvWaits(h) /\ on[h] = CvTaken(n)
      /\ p \in Waiters /\ p # nullptr /\ CvWaits(p) /\ on[p] = CvTaken(n) /\ p # h
      /\ s # nullptr => /\ s \in Waiters /\ CvWaits(s) /\ on[s] = CvReversed(n)
                        /\ t \in Waiters /\ CvWaits(t) /\ on[t] = CvReversed(n) /\ next[t] = nullptr
      /\ s = nullptr => t = h
      /\ q # nullptr => q \in Waiters
  BY <1>1, <1>2, <1>3 DEF CvLocals, CvSplices, CvHands, CvLists
<1>8. /\ \A w : CvHolds(n, w) <=> w # nullptr /\ w \in {h, s, p}
      /\ \A w : CvHolds(n, w)' <=> w # nullptr /\ w \in {p, h, q}
      /\ \A w : (CvDrops(n, w) <=> w = h) /\ (CvDrops(n, w)' <=> w = p)
  BY <1>2, <1>3, <1>4, <1>5 DEF CvHolds, CvDrops, CvSplices
<1>9. \A k \in Notifiers \ {n} : \A w : CvHolds(k, w) \/ CvDrops(k, w) =>
        w \in Waiters /\ on[w] # CvTaken(n) /\ on[w] # CvReversed(n)
  BY CvHeldIs, CvNames
<1>10. CvLinked(p) /\ ~ CvLinked(h)
  BY <1>7, <1>8, <1>9 DEF CvLinked, CvLoose
<1>11. q # nullptr => /\ CvWaits(q) /\ on[q] = CvTaken(n) /\ q # h /\ q # p
  BY <1>2, <1>7, <1>8, <1>10 DEF CvShape, CvLinks
<1>12. \A x \in Waiters : next'[x] = IF x = h THEN s ELSE next[x]
  BY <1>1, <1>3 DEF CvLists
<1>13. PICK no : \A x \in Waiters : no[x] = IF x = h THEN CvReversed(n) ELSE on[x]
  <2>1. \A x \in Waiters : [y \in Waiters |-> IF y = h THEN CvReversed(n) ELSE on[y]][x]
                             = IF x = h THEN CvReversed(n) ELSE on[x]
    OBVIOUS
  <2> QED
    BY <2>1
<1>14. \A k \in Notifiers \ {n} : /\ CvLocals(k, no)'
                                  /\ \A w : CvHolds(k, w)' <=> CvHolds(k, w)
                                  /\ \A w : CvDrops(k, w)' <=> CvDrops(k, w)
  <2>1. \A x \in Waiters : CvWaits(x)' <=> CvWaits(x) /\ x # nullptr
    BY <1>1, <1>5
  <2>2. \A x \in Waiters, k \in Notifiers \ {n} :
          on[x] \in {CvTaken(k), CvReversed(k)} => no[x] = on[x]
    BY <1>7, <1>13, CvNames
  <2>3. \A x \in Waiters :
          next'[x] = next[x] \/ (/\ CvWaits(x) /\ \A k \in Notifiers \ {n} :
                                       on[x] # CvTaken(k) /\ on[x] # CvReversed(k))
    BY <1>7, <1>12, CvNames
  <2> QED
    BY <1>1, <1>4, <1>5, <2>1, <2>2, <2>3, CvFrame
<1>15. \A x \in Waiters : CvLinked(x)' <=> (CvLinked(x) /\ x # p) \/ x = h
  <2>1. ASSUME NEW x \in Waiters PROVE CvLoose(x)' <=> x = p \/ (CvLoose(x) /\ x # h)
    <3>1. ASSUME NEW k \in Notifiers \ {n} PROVE ~ CvDrops(k, h)
      BY <1>7, <1>9
    <3> QED
      BY <1>8, <1>14, <3>1 DEF CvLoose
  <2> QED
    BY <1>5, <1>7, <2>1 DEF CvLinked
<1>16. CvOneLink'
  <2>1. \A x \in Waiters : CvLinked(x) /\ next[x] # nullptr => next[x] # s
    BY <1>7, <1>8 DEF CvShape, CvLinks
  <2> QED
    BY <1>7, <1>12, <1>15, <2>1 DEF CvShape, CvOneLink
<1>17. CvLinks(no)'
  <2>1. ASSUME NEW x \in Waiters, NEW y, CvLinked(x)', y = next'[x], y # nullptr
        PROVE  /\ CvWaits(y)' /\ no[y] = no[x] /\ y # awaiting' /\ y # to_resume_head'
               /\ \A k \in Notifiers : ~ CvHolds(k, y)'
    <3>1. CASE x = h
      <4>1. y = s /\ y \in Waiters /\ CvWaits(y) /\ on[y] = CvReversed(n) /\ y # h
        BY <1>7, <1>12, <2>1, <3>1, CvNames
      <4>2. no[y] = no[x] /\ y # awaiting /\ y # to_resume_head
        BY <1>6, <1>13, <2>1, <3>1, <4>1, CvNames
      <4>3. y # p /\ y # q
        BY <1>7, <1>11, <2>1, <4>1, CvNames
      <4>4. \A k \in Notifiers : ~ CvHolds(k, y)'
        BY <1>8, <1>9, <1>14, <4>1, <4>3
      <4> QED
        BY <1>3, <1>5, <4>1, <4>2, <4>4
    <3>2. CASE x # h
      <4>1. y = next[x] /\ CvLinked(x) /\ x # p
        BY <1>12, <1>15, <2>1, <3>2
      <4>2. /\ y \in Waiters /\ CvWaits(y) /\ on[y] = on[x] /\ y # awaiting /\ y # to_resume_head
            /\ \A k \in Notifiers : ~ CvHolds(k, y)
        BY <1>1, <2>1, <4>1 DEF CvShape, CvLinks, CvLists
      <4>3. y # h /\ y # p
        BY <1>7, <1>8, <4>2
      <4>4. y # q
        BY <1>2, <1>7, <1>10, <2>1, <4>1 DEF CvShape, CvOneLink
      <4>5. \A k \in Notifiers : ~ CvHolds(k, y)'
        BY <1>8, <1>14, <4>2, <4>3, <4>4
      <4> QED
        BY <1>3, <1>5, <1>13, <3>2, <4>2, <4>3, <4>5
    <3> QED
      BY <3>1, <3>2
  <2> QED
    BY <2>1 DEF CvLinks
<1>18. CvAnchors(no)'
  <2>1. /\ awaiting # nullptr => awaiting # h
        /\ to_resume_head # nullptr => to_resume_head # h /\ to_resume_tail # h
    BY <1>6, <1>7, CvNames
  <2> QED
    BY <1>3, <1>5, <1>6, <1>12, <1>13, <2>1 DEF CvAnchors
<1>19. CvLocals(n, no)'
  <2>1. CvWaits(p)' /\ no[p] = CvTaken(n) /\ next'[p] = q /\ p # q
    BY <1>2, <1>5, <1>7, <1>11, <1>12, <1>13
  <2>2. q # nullptr => CvWaits(q)' /\ no[q] = CvTaken(n)
    BY <1>5, <1>7, <1>11, <1>13
  <2>3. h # nullptr /\ CvWaits(h)' /\ no[h] = CvReversed(n)
    BY <1>5, <1>7, <1>13
  <2>4. t \in Waiters /\ CvWaits(t)' /\ no[t] = CvReversed(n) /\ next'[t] = nullptr
    <3>1. CASE s = nullptr
      BY <1>7, <1>12, <2>3, <3>1
    <3>2. CASE s # nullptr
      <4>1. t # h
        BY <1>7, <3>2, CvNames
      <4> QED
        BY <1>5, <1>7, <1>12, <1>13, <3>2, <4>1
    <3> QED
      BY <3>1, <3>2
  <2> QED
    BY <1>4, <1>5, <2>1, <2>2, <2>3, <2>4 DEF CvLocals, CvSplices
<1>20. \A k \in Notifiers : CvLocals(k, no)'
  BY <1>14, <1>19
<1>21. CvShape(no)'
  BY <1>16, <1>17, <1>18, <1>20 DEF CvShape
<1>22. CvCovered => CvCovered'
  <2> SUFFICES ASSUME CvCovered, NEW x \in Waiters, CvWaits(x)'
               PROVE  \/ x = awaiting' \/ x = to_resume_head'
                      \/ \E k \in Notifiers : CvHolds(k, x)'
                      \/ \E v \in Waiters : CvLinked(v)' /\ next'[v] = x
    BY DEF CvCovered
  <2>1. CASE x = s
    BY <1>7, <1>12, <1>15, <2>1
  <2>2. CASE x \in {h, p, q}
    BY <1>1, <1>8, <2>2
  <2>3. CASE \E v \in Waiters : CvLinked(v) /\ next[v] = x
    <3>1. PICK v \in Waiters : CvLinked(v) /\ next[v] = x
      BY <2>3
    <3>2. CASE v = p
      BY <1>1, <1>2, <1>8, <3>1, <3>2
    <3>3. CASE v # p
      BY <1>10, <1>12, <1>15, <3>1, <3>3
    <3> QED
      BY <3>2, <3>3
  <2>4. CASE \E k \in Notifiers : CvHolds(k, x)
    BY <1>8, <1>14, <2>1, <2>2, <2>4
  <2> QED
    BY <1>3, <1>5, <2>3, <2>4 DEF CvCovered
<1>23. CvNoCycle => CvNoCycle'
  <2> SUFFICES ASSUME CvNoCycle, NEW T \in SUBSET Waiters, T # {}, \A x \in T : CvWaits(x)'
               PROVE  \E x \in T : \A v \in T : CvLinked(v)' => next'[v] # x
    BY DEF CvNoCycle
  <2>1. CASE h \in T
    <3>1. ASSUME NEW v \in T, CvLinked(v)' PROVE next'[v] # h
      <4>1. CASE v = h
        BY <1>7, <1>12, <4>1, CvNames
      <4>2. CASE v # h
        <5>1. CvLinked(v) /\ next'[v] = next[v]
          BY <1>12, <1>15, <3>1, <4>2
        <5> QED
          BY <1>7, <1>8, <5>1 DEF CvShape, CvLinks
      <4> QED
        BY <4>1, <4>2
    <3> QED
      BY <2>1, <3>1
  <2>2. CASE h \notin T
    <3>1. \A x \in T : CvWaits(x) /\ x # h
      BY <1>5, <2>2
    <3>2. PICK x \in T : \A v \in T : CvLinked(v) => next[v] # x
      BY <3>1 DEF CvNoCycle
    <3>3. \A v \in T : CvLinked(v)' => next'[v] # x
      BY <1>12, <1>15, <3>1, <3>2
    <3> QED
      BY <3>3
  <2> QED
    BY <2>1, <2>2
<1> QED
  BY <1>21, <1>22, <1>23 DEF CvKeeps
\* notify_one() appends what it has taken to a to_resume that another notifier
\* has filled, and pops that.
LEMMA CvSpliceAppendShape ==
  ASSUME CvInv, NEW n \in Notifiers, NEW on, CvShape(on), UNCHANGED setup,
         SpliceAppend(n)
  PROVE  \E no : CvShape(no)'
<1>1. /\ CvLists /\ CvLocals(n, on) /\ CvHands(n)
      /\ nullptr \notin Waiters /\ \A x \in Ptr : x # nullptr => x \in Waiters
  BY CvSplit, CvPtr DEF CvShape, CvRest
<1>2. PICK h, f, e, t : /\ h = local[n].head /\ f = to_resume_head
                        /\ e = to_resume_tail /\ t = local[n].tail
  OBVIOUS
<1>3. /\ cv_pc[n] = "n_splice" /\ cv_pc' = [cv_pc EXCEPT ![n] = "n_register"]
      /\ f # nullptr /\ next' = [next EXCEPT ![e] = h] /\ to_resume_head' = next'[f]
      /\ to_resume_tail' = t
      /\ local' = [local EXCEPT ![n] = [NoLocals EXCEPT !.head = f]]
      /\ UNCHANGED <<queue, awaiting>>
  BY <1>2 DEF SpliceAppend, Moves
<1>4. local'[n].head = f /\ \A k \in Notifiers \ {n} : local'[k] = local[k]
  BY <1>1, <1>3 DEF CvLists, NoLocals
<1>5. /\ \A x \in Waiters : CvWaits(x)' <=> CvWaits(x)
      /\ \A k \in Notifiers \ {n} : cv_pc'[k] = cv_pc[k]
      /\ cv_pc'[n] = "n_register"
  BY <1>3, CvMovesWaits DEF Actors
<1>6. /\ f \in Waiters /\ CvWaits(f) /\ on[f] = CvToResume
      /\ e \in Waiters /\ CvWaits(e) /\ on[e] = CvToResume /\ next[e] = nullptr
      /\ awaiting # nullptr => awaiting \in Waiters /\ CvWaits(awaiting) /\ on[awaiting] = CvAwaiting
  BY <1>1, <1>2, <1>3 DEF CvShape, CvAnchors, CvLists
<1>7. /\ h \in Waiters /\ h # nullptr /\ CvWaits(h) /\ on[h] = CvTaken(n) /\ next[h] = nullptr
      /\ h # e /\ h # f
      /\ t \in Waiters /\ CvWaits(t) /\ on[t] \in {CvTaken(n), CvReversed(n)} /\ next[t] = nullptr
      /\ t # e /\ t # f
  <2>1. h \in Waiters /\ CvWaits(h) /\ on[h] = CvTaken(n) /\ next[h] = nullptr
    BY <1>1, <1>2, <1>3 DEF CvLocals, CvSplices, CvHands
  <2>2. t \in Waiters /\ CvWaits(t) /\ on[t] \in {CvTaken(n), CvReversed(n)} /\ next[t] = nullptr
    BY <1>1, <1>2, <1>3, <2>1 DEF CvLocals, CvSplices
  <2> QED
    BY <1>1, <1>6, <2>1, <2>2, CvNames
<1>8. /\ \A w \in Waiters : CvDrops(n, w) <=> w = h
      /\ CvHolds(n, h)
      /\ \A w : (CvHolds(n, w)' <=> w = f) /\ (CvDrops(n, w)' <=> w = f)
  BY <1>2, <1>3, <1>4, <1>5, <1>7 DEF CvHolds, CvDrops, CvSplices
<1>9. \A k \in Notifiers : \A w : CvHolds(k, w) \/ CvDrops(k, w) =>
        w \in Waiters /\ on[w] \in {CvTaken(k), CvReversed(k)}
  BY CvHeldIs
<1>10. /\ CvLinked(f) /\ CvLinked(e) /\ \A k \in Notifiers \ {n} : ~ CvDrops(k, h)
  BY <1>6, <1>7, <1>9, CvNames DEF CvLinked, CvLoose
<1>11. \A x \in Waiters : next'[x] = IF x = e THEN h ELSE next[x]
  BY <1>1, <1>3 DEF CvLists
<1>12. PICK no : \A x \in Waiters :
         no[x] = IF x = f THEN CvTaken(n)
                 ELSE IF on[x] \in {CvTaken(n), CvReversed(n)} THEN CvToResume ELSE on[x]
  <2> DEFINE No == [y \in Waiters |->
                      IF y = f THEN CvTaken(n)
                      ELSE IF on[y] \in {CvTaken(n), CvReversed(n)} THEN CvToResume ELSE on[y]]
  <2>1. \A x \in Waiters :
          No[x] = IF x = f THEN CvTaken(n)
                  ELSE IF on[x] \in {CvTaken(n), CvReversed(n)} THEN CvToResume ELSE on[x]
    OBVIOUS
  <2> QED
    BY <2>1
<1>13. PICK g : g = to_resume_head'
  OBVIOUS
<1>14. /\ f = e => g = h
       /\ f # e => g = next[f]
       /\ f # e /\ g # nullptr => /\ g \in Waiters /\ CvWaits(g) /\ on[g] = CvToResume /\ g # f
  <2>1. (f = e => g = h) /\ (f # e => g = next[f])
    BY <1>3, <1>6, <1>11, <1>13
  <2>2. ASSUME f # e, g # nullptr
        PROVE  g \in Waiters /\ CvWaits(g) /\ on[g] = CvToResume /\ g # f
    BY <1>1, <1>2, <1>6, <1>10, <2>1, <2>2 DEF CvShape, CvLinks, CvLists
  <2> QED
    BY <2>1, <2>2
<1>15. \A k \in Notifiers \ {n} : /\ CvLocals(k, no)'
                                  /\ \A w : CvHolds(k, w)' <=> CvHolds(k, w)
                                  /\ \A w : CvDrops(k, w)' <=> CvDrops(k, w)
  <2>1. \A x \in Waiters : CvWaits(x)' <=> CvWaits(x) /\ x # nullptr
    BY <1>1, <1>5
  <2>2. \A x \in Waiters, k \in Notifiers \ {n} :
          on[x] \in {CvTaken(k), CvReversed(k)} => no[x] = on[x]
    BY <1>6, <1>12, CvNames
  <2>3. \A x \in Waiters :
          next'[x] = next[x] \/ (/\ CvWaits(x) /\ \A k \in Notifiers \ {n} :
                                       on[x] # CvTaken(k) /\ on[x] # CvReversed(k))
    BY <1>6, <1>11, CvNames
  <2> QED
    BY <1>1, <1>4, <1>5, <2>1, <2>2, <2>3, CvFrame
<1>16. \A x \in Waiters : CvLinked(x)' <=> (CvLinked(x) \/ x = h) /\ x # f
  <2>1. ASSUME NEW x \in Waiters PROVE CvLoose(x)' <=> x = f \/ (CvLoose(x) /\ x # h)
    BY <1>8, <1>10, <1>15 DEF CvLoose
  <2> QED
    BY <1>5, <1>7, <2>1 DEF CvLinked
<1>17. \A x \in Waiters : CvLinked(x) /\ next[x] # nullptr => next[x] # h
  BY <1>8 DEF CvShape, CvLinks
<1>18. CvOneLink'
  BY <1>7, <1>11, <1>16, <1>17 DEF CvShape, CvOneLink
<1>19. CvLinks(no)'
  <2>1. ASSUME NEW x \in Waiters, NEW y, CvLinked(x)', y = next'[x], y # nullptr
        PROVE  /\ CvWaits(y)' /\ no[y] = no[x] /\ y # awaiting' /\ y # to_resume_head'
               /\ \A k \in Notifiers : ~ CvHolds(k, y)'
    <3>1. CASE x = e
      <4>1. y = h /\ x # f
        BY <1>11, <1>16, <2>1, <3>1
      <4>2. no[y] = no[x] /\ y # awaiting
        BY <1>6, <1>7, <1>12, <3>1, <4>1, CvNames
      <4>3. y # to_resume_head'
        BY <1>1, <1>7, <1>13, <1>14, <3>1, <4>1, CvNames
      <4>4. \A k \in Notifiers : ~ CvHolds(k, y)'
        BY <1>7, <1>8, <1>9, <1>15, <4>1, CvNames
      <4> QED
        BY <1>3, <1>5, <1>7, <4>1, <4>2, <4>3, <4>4
    <3>2. CASE x # e
      <4>1. y = next[x] /\ CvLinked(x) /\ x # f
        BY <1>7, <1>11, <1>16, <2>1, <3>2
      <4>2. /\ y \in Waiters /\ CvWaits(y) /\ on[y] = on[x] /\ y # awaiting /\ y # f
            /\ \A k \in Notifiers : ~ CvHolds(k, y)
        BY <1>1, <1>2, <2>1, <4>1 DEF CvShape, CvLinks, CvLists
      <4>3. y # to_resume_head'
        <5>1. CASE f = e
          BY <1>13, <1>14, <1>17, <2>1, <4>1, <5>1
        <5>2. CASE f # e
          BY <1>6, <1>10, <1>13, <1>14, <2>1, <4>1, <5>2 DEF CvShape, CvOneLink
        <5> QED
          BY <5>1, <5>2
      <4>4. \A k \in Notifiers : ~ CvHolds(k, y)'
        BY <1>8, <1>15, <4>2
      <4> QED
        BY <1>3, <1>5, <1>12, <4>1, <4>2, <4>3, <4>4
    <3> QED
      BY <3>1, <3>2
  <2> QED
    BY <2>1 DEF CvLinks
<1>20. CvAnchors(no)'
  <2>1. awaiting # nullptr => awaiting # f /\ CvWaits(awaiting)' /\ no[awaiting] = CvAwaiting
    BY <1>3, <1>5, <1>6, <1>12, CvNames
  <2>2. g # nullptr => CvWaits(g)' /\ no[g] = CvToResume
    <3>1. CASE f = e
      BY <1>5, <1>7, <1>12, <1>14, <3>1
    <3>2. CASE f # e
      BY <1>5, <1>12, <1>14, <3>2
    <3> QED
      BY <3>1, <3>2
  <2>3. CvWaits(t)' /\ no[t] = CvToResume /\ next'[t] = nullptr
    BY <1>5, <1>7, <1>11, <1>12
  <2> QED
    BY <1>3, <1>7, <1>13, <2>1, <2>2, <2>3 DEF CvAnchors
<1>21. CvLocals(n, no)'
  <2>1. CvWaits(f)' /\ no[f] = CvTaken(n)
    BY <1>5, <1>6, <1>12
  <2> QED
    BY <1>4, <1>5, <2>1 DEF CvLocals, CvSplices
<1>22. \A k \in Notifiers : CvLocals(k, no)'
  BY <1>15, <1>21
<1>23. CvShape(no)'
  BY <1>18, <1>19, <1>20, <1>22 DEF CvShape
<1> QED
  BY <1>23

\* Every step of a notifier keeps some such shape, and registers nobody twice.
LEMMA CvNotifierShape ==
  ASSUME CvInv, NEW n \in Notifiers, NEW on, CvShape(on), UNCHANGED setup,
         NotifyOne(n) \/ NotifyAll(n) \/ NotifierStep(n)
  PROVE  (\E no : CvShape(no)') /\ stale' = stale /\ (CvKeeps \/ SpliceAppend(n))
<1>1. CASE \/ TryNotifyOne(n)
           \/ TryNotifyAll(n) /\ local[n].head # nullptr
  BY <1>1, CvRegisterShape
<1>2. CASE \/ NotifyOne(n) /\ to_resume_head = nullptr
           \/ ExchangeAwaiting(n) /\ awaiting = nullptr
           \/ Reverse(n) /\ local[n].pred = nullptr
           \/ TryNotifyAll(n) /\ local[n].head = nullptr
           \/ AdvanceHead(n)
  <2>1. stale' = stale
    BY <1>2 DEF NotifyOne, ExchangeAwaiting, Reverse, TryNotifyAll, AdvanceHead
  <2> QED
    BY <1>2, <2>1, CvEasySteps
<1>3. CASE \/ NotifyOne(n) /\ to_resume_head # nullptr
           \/ ExchangeAwaiting(n) /\ awaiting # nullptr
           \/ Reverse(n) /\ local[n].pred # nullptr
           \/ SpliceEmpty(n)
           \/ NotifyAll(n) \/ TakeToResume(n)
  <2>1. stale' = stale
    BY <1>3 DEF NotifyOne, ExchangeAwaiting, Reverse, SpliceEmpty, NotifyAll,
                TakeToResume
  <2> QED
    BY <1>3, <2>1, CvPopShape, CvExchangeShape, CvReverseShape, CvSpliceEmptyShape,
       CvTakeShape
<1>4. CASE SpliceAppend(n)
  <2>1. stale' = stale
    BY <1>4 DEF SpliceAppend
  <2> QED
    BY <1>4, <2>1, CvSpliceAppendShape
<1> QED
  BY <1>1, <1>2, <1>3, <1>4 DEF NotifierStep

\* A thread is inside one operation at a time: a notifier's step.
LEMMA CvNotifierBusy ==
  ASSUME CvInv, CvOneBusy, NEW n \in Notifiers, NEW on, CvShape(on), UNCHANGED setup,
         NotifyOne(n) \/ NotifyAll(n) \/ NotifierStep(n)
  PROVE  /\ CvOneBusy'
         /\ CvBusy(n) \/ Runs(n)
         /\ \A k \in Notifiers \ {n} : cv_pc'[k] = cv_pc[k]
<1>1. n \in Actors
  BY DEF Actors
<1>2. CvBusy(n) \/ Runs(n)
  BY DEF NotifyOne, NotifyAll, NotifierStep, ExchangeAwaiting, Reverse,
         SpliceEmpty, SpliceAppend, TryNotifyOne, TakeToResume, TryNotifyAll,
         AdvanceHead, Moves, CvBusy
<1>3. \A q \in Actors \ {n} : cv_pc'[q] = cv_pc[q] \/ (q \in Waiters /\ ~ CvBusy(q)')
  <2>1. CASE \/ TryNotifyOne(n)
             \/ TryNotifyAll(n) /\ local[n].head # nullptr
    <3>1. PICK h, to : h = local[n].head /\ Register(n, h, to)
      BY <2>1 DEF TryNotifyOne, TryNotifyAll
    <3>2. h \in Waiters /\ CvWaits(h)
      <4>1. CvLocals(n, on) /\ CvHands(n) /\ CvLists
        BY CvSplit DEF CvShape, CvRest
      <4>2. cv_pc[n] \in {"n_register", "a_loop", "a_loop2"}
        BY <2>1 DEF TryNotifyOne, TryNotifyAll
      <4>3. h # nullptr /\ h \in Waiters
        BY <2>1, <3>1, <4>1, <4>2, CvSplit, CvPtr DEF CvHands, CvLists, TryNotifyOne
      <4> QED
        BY <3>1, <4>1, <4>2, <4>3 DEF CvLocals
    <3> QED
      BY <3>1, <3>2, CvRegisterWaits DEF CvBusy
  <2>2. CASE ~ TryNotifyOne(n) /\ ~ (TryNotifyAll(n) /\ local[n].head # nullptr)
    <3>1. PICK to : cv_pc' = [cv_pc EXCEPT ![n] = to]
      BY <2>2 DEF NotifyOne, NotifyAll, NotifierStep, ExchangeAwaiting, Reverse,
             SpliceEmpty, SpliceAppend, TakeToResume, TryNotifyAll,
             AdvanceHead, Moves
    <3>2. queue' = queue
      BY <2>2 DEF NotifyOne, NotifyAll, NotifierStep, ExchangeAwaiting, Reverse,
             SpliceEmpty, SpliceAppend, TakeToResume, TryNotifyAll, AdvanceHead
    <3> QED
      BY <3>1, <3>2, CvMovesWaits
  <2> QED
    BY <2>1, <2>2
<1>4. \A k \in Notifiers \ {n} : k \in Actors \ {n} /\ k \notin Waiters
  BY CvSplit DEF CvConstants, Actors
<1> QED
  BY <1>1, <1>2, <1>3, <1>4, CvBusyFrame

\* A coroutine's step.
LEMMA CvWaiterBusy ==
  ASSUME CvInv, CvOneBusy, NEW w \in Waiters, UNCHANGED setup,
         AwaitLock(w) \/ AwaitWait(w) \/ WaiterStep(w)
  PROVE  CvOneBusy'
<1>1. w \in Actors
  BY DEF Actors
<1>2. CASE AwaitWait(w)
  <2>1. Runs(w) /\ \A q \in Actors \ {w} : cv_pc'[q] = cv_pc[q]
    BY <1>2, CvWaitWaits DEF AwaitWait
  <2> QED
    BY <1>1, <2>1, CvBusyFrame
<1>3. CASE AwaitLock(w) \/ WaiterStep(w)
  <2>1. \A q \in Actors \ {w} : cv_pc'[q] = cv_pc[q] \/ ~ CvBusy(q)'
    BY <1>3, CvMutexWaits
  <2>2. ~ CvBusy(w)'
    BY <1>3, CvMutexWaits
  <2> QED
    BY <1>1, <2>1, <2>2, CvBusyFrame
<1> QED
  BY <1>2, <1>3

\* One notification at a time: a step of its notifier ...
LEMMA CvNotifierSerial ==
  ASSUME CvInv, CvOneBusy, CvSerial, OneAtATime, NEW on, CvShape(on), UNCHANGED setup,
         NEW n \in Notifiers, n \in setup.notifiers,
         NotifyOne(n) \/ NotifyAll(n) \/ NotifierStep(n)
  PROVE  CvSerial' /\ CvKeeps
<1>1. /\ CvBusy(n) \/ Runs(n)
      /\ \A k \in Notifiers \ {n} : cv_pc'[k] = cv_pc[k]
      /\ \A k \in Notifiers : k \in Actors
  BY CvNotifierBusy DEF Actors
<1>2. ASSUME NEW k \in Notifiers \ {n} PROVE ~ CvBusy(k) /\ cv_pc'[k] = cv_pc[k]
  <2>1. CASE CvBusy(k)
    <3>1. setup.home[k] = setup.home[n]
      BY <2>1 DEF CvSerial, OneAtATime
    <3>2. k \in Actors /\ n \in Actors /\ k \in Actors \ {n}
      BY <1>1
    <3>3. ~ CvBusy(n)
      BY <2>1, <3>1, <3>2 DEF CvOneBusy
    <3> QED
      BY <1>1, <2>1, <3>1, <3>2, <3>3 DEF Runs, CvBusy
  <2>2. CASE ~ CvBusy(k)
    BY <1>1, <2>2
  <2> QED
    BY <2>1, <2>2
<1>3. CvSplices(n)' \/ cv_pc'[n] = "n_exchange" => to_resume_head' = nullptr
  <2>1. CASE \/ TryNotifyOne(n)
             \/ TryNotifyAll(n) /\ local[n].head # nullptr
    <3>1. PICK h, to : /\ h = local[n].head /\ Register(n, h, to)
                       /\ to \in {"idle", "a_next", "a_next2"}
      BY <2>1 DEF TryNotifyOne, TryNotifyAll
    <3>2. CvHands(n) /\ CvLists /\ CvLocals(n, on)
      BY CvSplit DEF CvRest, CvShape
    <3>3. h \in Waiters
      BY <2>1, <3>1, <3>2, CvSplit, CvPtr DEF CvHands, CvLists, TryNotifyOne
    <3>4. cv_pc'[n] = to
      BY <3>1, <3>3, CvSplit, CvRegisters DEF NotifierPc
    <3> QED
      BY <3>1, <3>4 DEF CvSplices
  <2>2. CASE ~ TryNotifyOne(n) /\ ~ (TryNotifyAll(n) /\ local[n].head # nullptr)
    <3>1. PICK to : /\ cv_pc' = [cv_pc EXCEPT ![n] = to]
                    /\ to \in {"n_exchange", "n_reverse", "n_splice"} => to_resume_head' = nullptr
      <4>1. cv_pc[n] \in {"n_exchange", "n_reverse", "n_splice"} => to_resume_head = nullptr
        BY DEF CvSerial, CvSplices
      <4> QED
        BY <2>2, <4>1
           DEF NotifyOne, NotifyAll, NotifierStep, ExchangeAwaiting, Reverse,
               SpliceEmpty, SpliceAppend, TakeToResume, TryNotifyAll,
               AdvanceHead, Moves
    <3>2. queue' = queue
      BY <2>2 DEF NotifyOne, NotifyAll, NotifierStep, ExchangeAwaiting, Reverse,
             SpliceEmpty, SpliceAppend, TakeToResume, TryNotifyAll, AdvanceHead
    <3>3. cv_pc'[n] = to
      BY <3>1, <3>2, CvMovesWaits
    <3> QED
      BY <3>1, <3>3 DEF CvSplices
  <2> QED
    BY <2>1, <2>2
<1>4. CvSerial'
  <2>1. \A k \in Notifiers \ {n} : ~ CvBusy(k)' /\ ~ CvSplices(k)' /\ cv_pc'[k] # "n_exchange"
    BY <1>2 DEF CvBusy, CvSplices
  <2> QED
    BY <1>3, <2>1 DEF CvSerial
<1>5. CvKeeps
  <2>1. CASE SpliceAppend(n)
    <3>1. cv_pc[n] = "n_splice" /\ to_resume_head # nullptr
      BY <2>1 DEF SpliceAppend, Moves
    <3> QED
      BY <3>1 DEF CvSerial, CvSplices
  <2>2. CASE ~ SpliceAppend(n)
    BY <2>2, CvNotifierShape
  <2> QED
    BY <2>1, <2>2
<1> QED
  BY <1>4, <1>5

\* ... and one of a coroutine.
LEMMA CvWaiterSerial ==
  ASSUME CvInv, CvSerial, NEW w \in Waiters, UNCHANGED setup,
         AwaitLock(w) \/ AwaitWait(w) \/ WaiterStep(w)
  PROVE  CvSerial'
<1>1. \A k \in Notifiers : k \in Actors \ {w} /\ k \notin Waiters
  BY CvSplit DEF CvConstants, Actors
<1>2. to_resume_head' = to_resume_head
  BY DEF AwaitLock, AwaitWait, WaiterStep, Resume, GuardUnlock, UnlockAhead, cvars
<1>3. \A k \in Notifiers : cv_pc'[k] = cv_pc[k]
  BY <1>1, CvMutexWaits, CvWaitWaits
<1> QED
  BY <1>2, <1>3 DEF CvSerial, CvBusy, CvSplices

\* In the beginning nobody waits.
LEMMA CvNoStaleInit == CvConstants /\ CvInit => CvNoStale
<1> SUFFICES ASSUME CvConstants, CvInit PROVE CvNoStale
  OBVIOUS
<1>1. CvInv
  BY CvInvInit
<1>2. /\ \A p \in Actors : cv_pc[p] = "idle"
      /\ awaiting = nullptr /\ to_resume_head = nullptr /\ stale = FALSE
      /\ Waiters \subseteq Actors /\ Notifiers \subseteq Actors
  BY DEF CvInit, Actors
<1>3. CvOneBusy /\ CvSerial
  BY <1>2 DEF CvOneBusy, CvSerial, CvBusy, CvSplices
<1>4. \A x \in Waiters : ~ CvWaits(x)
  BY <1>2 DEF CvWaits
<1>5. \A k \in Notifiers : CvLocals(k, nullptr)
  BY <1>2 DEF CvLocals, CvSplices
<1>6. CvShape(nullptr)
  BY <1>2, <1>4, <1>5 DEF CvShape, CvOneLink, CvLinks, CvAnchors, CvLinked
<1>7. CvCovered /\ CvNoCycle
  BY <1>4 DEF CvCovered, CvNoCycle
<1> QED
  BY <1>1, <1>2, <1>3, <1>6, <1>7 DEF CvNoStale

\* Every step keeps it.
LEMMA CvNoStaleStep ==
  ASSUME CvAlone, CvNoStale, [CvNext]_(cv_vars)
  PROVE  CvNoStale'
<1>1. CvInv /\ CvOneBusy /\ ~ stale /\ CvInv'
  BY CvInvStep DEF CvNoStale
<1>2. PICK on : CvShape(on)
  BY DEF CvNoStale
<1>3. CASE UNCHANGED cv_vars
  <2>1. CvOneBusy' /\ ~ stale'
    BY <1>1, <1>3 DEF CvOneBusy, CvBusy, cv_vars
  <2>2. CvShape(on)'
    BY <1>2, <1>3 DEF CvShape, CvOneLink, CvLinks, CvAnchors, CvLocals, CvLinked, CvLoose,
                      CvDrops, CvHolds, CvSplices, CvWaits, cv_vars
  <2>3. CvSerial => CvSerial'
    BY <1>3 DEF CvSerial, CvBusy, CvSplices, cv_vars
  <2>4. CvKeeps
    BY <1>3 DEF CvKeeps, CvCovered, CvNoCycle, CvLinked, CvLoose, CvDrops, CvHolds, CvSplices,
                CvWaits, cv_vars
  <2>5. OneAtATime' <=> OneAtATime
    BY <1>3 DEF OneAtATime, cv_vars
  <2> QED
    BY <1>1, <2>1, <2>2, <2>3, <2>4, <2>5 DEF CvNoStale, CvKeeps
<1>4. CASE CvNext
  <2>1. UNCHANGED setup /\ setup.notifiers \subseteq Notifiers
    BY <1>1, <1>4, CvSplit DEF CvNext, CvRest, CvConstants
  <2>2. OneAtATime' <=> OneAtATime
    BY <2>1 DEF OneAtATime
  <2>3. OneAtATime => CvSerial /\ CvCovered /\ CvNoCycle
    BY DEF CvNoStale
  <2>4. CASE \E w \in Waiters : AwaitLock(w) \/ AwaitWait(w) \/ WaiterStep(w)
    <3>1. PICK w \in Waiters : AwaitLock(w) \/ AwaitWait(w) \/ WaiterStep(w)
      BY <2>4
    <3>2. CvOneBusy'
      BY <1>1, <2>1, <3>1, CvWaiterBusy
    <3>3. (\E no : CvShape(no)') /\ CvKeeps
      BY <1>1, <1>2, <2>1, <3>1, CvWaitShape, CvMutexShape
    <3>4. ~ stale'
      BY <1>1, <3>1 DEF AwaitLock, AwaitWait, WaiterStep, Resume, GuardUnlock, UnlockAhead
    <3>5. CvSerial => CvSerial'
      BY <1>1, <2>1, <3>1, CvWaiterSerial
    <3> QED
      BY <1>1, <2>2, <2>3, <3>2, <3>3, <3>4, <3>5 DEF CvNoStale, CvKeeps
  <2>5. CASE \E n \in setup.notifiers : NotifyOne(n) \/ NotifyAll(n) \/ NotifierStep(n)
    <3>1. PICK n \in Notifiers : /\ n \in setup.notifiers
                                 /\ NotifyOne(n) \/ NotifyAll(n) \/ NotifierStep(n)
      BY <2>1, <2>5
    <3>2. CvOneBusy'
      BY <1>1, <1>2, <2>1, <3>1, CvNotifierBusy
    <3>3. (\E no : CvShape(no)') /\ ~ stale'
      BY <1>1, <1>2, <2>1, <3>1, CvNotifierShape
    <3>4. OneAtATime => CvSerial' /\ CvKeeps
      BY <1>1, <1>2, <2>1, <2>3, <3>1, CvNotifierSerial
    <3> QED
      BY <1>1, <2>2, <2>3, <3>2, <3>3, <3>4 DEF CvNoStale, CvKeeps
  <2> QED
    BY <1>4, <2>4, <2>5 DEF CvNext
<1> QED
  BY <1>3, <1>4

\* No notifier registers an awaiter on the mutex that is not waiting for the
\* condition variable, however the lists are spliced by notifiers at once and
\* with wait(): an awaiter is in one notifier's hands at most, and leaves
\* every list before its coroutine runs.  notify_all() reads head->next when head
\* has been handed to the mutex already; where it is used, all share one thread.
THEOREM CvNoStaleAwaiter ==
  ASSUME CvAlone PROVE CvSpec => []NoStaleAwaiter
<1>1. CvInit => CvNoStale
  BY CvNoStaleInit, CvAssumption
<1>2. CvNoStale /\ [CvNext]_(cv_vars) => CvNoStale'
  BY CvNoStaleStep
<1>3. CvNoStale => NoStaleAwaiter
  BY DEF CvNoStale, NoStaleAwaiter
<1> QED
  BY <1>1, <1>2, <1>3, PTL DEF CvSpec

\* Induction, for a set instead of a predicate.
LEMMA SetInduction ==
  ASSUME NEW S, 0 \in S, \A n \in Nat : n \in S => n + 1 \in S
  PROVE  \A n \in Nat : n \in S
<1> SUFFICES ASSUME NEW m \in Nat, m \notin S PROVE FALSE
  OBVIOUS
<1> DEFINE R == {ss \in Nat \X Nat : ss[1] < ss[2]}
           T == {n \in Nat : n \notin S}
<1>1. PICK x \in T : \A y \in T : ~ (<<y, x>> \in R)
  <2>1. IsWellFoundedOn(R, Nat)
    BY NatLessThanWellFounded DEF OpToRel
  <2>2. T \subseteq Nat /\ T # {}
    OBVIOUS
  <2> HIDE DEF R, T
  <2> QED
    BY <2>1, <2>2, WFMin
<1>2. x \in Nat /\ x # 0
  OBVIOUS
<1>3. x - 1 \in Nat /\ (x - 1) + 1 = x /\ <<x - 1, x>> \in R
  BY <1>2
<1>4. x - 1 \in S
  <2> HIDE DEF R
  <2> QED
    BY <1>1, <1>3
<1> QED
  BY <1>3, <1>4

\* Following next from some awaiters as often as there are awaiters.
LEMMA CvReachSteps ==
  ASSUME IsFiniteSet(Waiters), NEW A
  PROVE  \E g : /\ g[0] = A \ {nullptr}
                /\ \A i \in 1..Cardinality(Waiters) :
                     g[i] = g[i - 1] \cup ({next[w] : w \in g[i - 1]} \ {nullptr})
                /\ Reach(A) = g[Cardinality(Waiters)]
<1> DEFINE N == Cardinality(Waiters)
           More(X) == X \cup ({next[w] : w \in X} \ {nullptr})
           Body(g, i) == IF i = 0 THEN A \ {nullptr} ELSE More(g[i - 1])
           S == {n \in Nat : \E g : g = [i \in 0..n |-> Body(g, i)]}
<1>1. N \in Nat
  BY FS_CardinalityType
<1>2. 0 \in S
  <2> DEFINE g == [i \in 0..0 |-> A \ {nullptr}]
  <2>1. g = [i \in 0..0 |-> Body(g, i)]
    OBVIOUS
  <2> QED
    BY <2>1
<1>3. ASSUME NEW n \in Nat, n \in S PROVE n + 1 \in S
  <2>1. PICK g : g = [i \in 0..n |-> Body(g, i)]
    BY <1>3
  <2> HIDE DEF Body, More
  <2> DEFINE h == [i \in 0..(n + 1) |-> IF i = n + 1 THEN More(g[n]) ELSE g[i]]
  <2>2. \A i \in 0..n : g[i] = Body(g, i)
    BY <2>1
  <2>3. ASSUME NEW i \in 0..(n + 1) PROVE h[i] = Body(h, i)
    <3>1. CASE i = 0
      BY <2>2, <3>1 DEF Body
    <3>2. CASE i # 0
      <4>1. i - 1 \in 0..n /\ i - 1 \in 0..(n + 1) /\ i - 1 # n + 1
        BY <3>2
      <4>2. h[i - 1] = g[i - 1]
        BY <4>1
      <4>3. CASE i = n + 1
        <5>1. h[i] = More(g[n]) /\ i - 1 = n
          BY <4>3
        <5> QED
          BY <3>2, <4>2, <5>1 DEF Body
      <4>4. CASE i # n + 1
        <5>1. i \in 0..n /\ h[i] = g[i]
          BY <4>4
        <5> QED
          BY <2>2, <3>2, <4>2, <5>1 DEF Body
      <4> QED
        BY <4>3, <4>4
    <3> QED
      BY <3>1, <3>2
  <2>4. h = [i \in 0..(n + 1) |-> Body(h, i)]
    BY <2>3
  <2> HIDE DEF h
  <2> QED
    BY <2>4
<1>4. N \in S
  <2> HIDE DEF S
  <2> QED
    BY <1>1, <1>2, <1>3, SetInduction
<1>5. PICK f : f = [i \in 0..N |-> Body(f, i)]
  BY <1>4
<1> DEFINE reach == CHOOSE g : g = [i \in 0..N |-> Body(g, i)]
<1>6. reach = [i \in 0..N |-> Body(reach, i)]
  <2> HIDE DEF Body, N
  <2> QED
    BY <1>5, Zenon
<1>7. Reach(A) = reach[N]
  BY DEF Reach
<1> HIDE DEF reach, N, More, Body
<1>8. \A i \in 0..N : reach[i] = Body(reach, i)
  BY <1>6
<1>9. reach[0] = A \ {nullptr}
  <2>1. 0 \in 0..N
    BY <1>1
  <2> QED
    BY <1>8, <2>1 DEF Body
<1>10. ASSUME NEW i \in 1..N PROVE reach[i] = More(reach[i - 1])
  <2>1. i \in 0..N /\ i # 0
    BY <1>1
  <2> QED
    BY <1>8, <2>1 DEF Body
<1> QED
  BY <1>7, <1>9, <1>10 DEF N, More

\* Of the waiters that are not reached yet, the next round reaches one.
LEMMA CvReachOne ==
  ASSUME CvInv, NEW on, CvShape(on), CvCovered, CvNoCycle,
         NEW X, Anchors \ {nullptr} \subseteq X,
         NEW Y, Y = X \cup ({next[w] : w \in X} \ {nullptr}),
         NEW v \in Waiters, CvWaits(v), v \notin X
  PROVE  \E x \in Waiters : CvWaits(x) /\ x \notin X /\ x \in Y
<1>1. nullptr \notin Waiters
  BY DEF CvInv, CvConstants
<1>2. PICK T : T = {x \in Waiters : CvWaits(x) /\ x \notin X}
  OBVIOUS
<1>3. PICK x \in T : \A u \in T : CvLinked(u) => next[u] # x
  BY <1>2 DEF CvNoCycle
<1>4. x \in Waiters /\ CvWaits(x) /\ x \notin X /\ x # nullptr
  BY <1>1, <1>2, <1>3
<1>5. x # awaiting /\ x # to_resume_head
  BY <1>4 DEF Anchors
<1>6. \A k \in Notifiers : {local[k].head, local[k].succ, local[k].pred} \subseteq Anchors
  BY DEF Anchors
<1>7. CASE \E k \in Notifiers : CvHolds(k, x)
  <2>1. PICK k \in Notifiers : CvHolds(k, x)
    BY <1>7
  <2>2. cv_pc[k] \in {"a_next", "a_next2"} /\ x = next[local[k].head]
    BY <1>4, <1>6, <2>1 DEF CvHolds
  <2>3. local[k].head \in Waiters
    BY <2>2, CvSplit DEF CvRest, CvHands
  <2>4. local[k].head \in X
    BY <1>1, <1>6, <2>3
  <2> QED
    BY <1>4, <2>2, <2>4
<1>8. CASE \E u \in Waiters : CvLinked(u) /\ next[u] = x
  <2>1. PICK u \in Waiters : CvLinked(u) /\ next[u] = x
    BY <1>8
  <2>2. u \in X
    BY <1>2, <1>3, <2>1 DEF CvLinked
  <2> QED
    BY <1>4, <2>1, <2>2
<1> QED
  BY <1>4, <1>5, <1>7, <1>8 DEF CvCovered

\* Who waits is found by following next from the pointers.
LEMMA CvFound ==
  ASSUME CvInv, NEW on, CvShape(on), CvCovered, CvNoCycle
  PROVE  NoWaiterLost
<1> DEFINE N == Cardinality(Waiters)
           A == Anchors
           W == {w \in Waiters : CvWaits(w)}
<1>1. IsFiniteSet(Waiters) /\ IsFiniteSet(W) /\ N \in Nat /\ Cardinality(W) \in Nat /\ Cardinality(W) <= N
  <2>1. IsFiniteSet(Waiters) /\ W \subseteq Waiters
    BY DEF CvInv, CvConstants
  <2> QED
    BY <2>1, FS_CardinalityType, FS_Subset
<1>2. PICK g : /\ g[0] = A \ {nullptr}
               /\ \A i \in 1..N : g[i] = g[i - 1] \cup ({next[w] : w \in g[i - 1]} \ {nullptr})
               /\ Reach(A) = g[N]
  BY <1>1, CvReachSteps
<1> DEFINE C(n) == Cardinality(g[n] \cap W)
           S == {n \in Nat : n <= N => /\ A \ {nullptr} \subseteq g[n]
                                       /\ W \subseteq g[n] \/ C(n) >= n}
<1>3. \A n : IsFiniteSet(g[n] \cap W) /\ C(n) \in Nat
  BY <1>1, FS_Subset, FS_CardinalityType
<1> HIDE DEF N, A
<1>4. 0 \in S
  <2>1. C(0) >= 0
    BY <1>3
  <2> QED
    BY <1>2, <2>1
<1>5. ASSUME NEW n \in Nat, n \in S PROVE n + 1 \in S
  <2> SUFFICES ASSUME n + 1 <= N
               PROVE  /\ A \ {nullptr} \subseteq g[n + 1]
                      /\ W \subseteq g[n + 1] \/ C(n + 1) >= n + 1
    OBVIOUS
  <2>1. A \ {nullptr} \subseteq g[n] /\ (W \subseteq g[n] \/ C(n) >= n)
    BY <1>1, <1>5
  <2>2. g[n + 1] = g[n] \cup ({next[w] : w \in g[n]} \ {nullptr})
    <3>1. n + 1 \in 1..N /\ (n + 1) - 1 = n
      BY <1>1
    <3> QED
      BY <1>2, <3>1
  <2>3. ASSUME NEW v \in W, v \notin g[n] PROVE C(n + 1) >= n + 1
    <3>1. v \in Waiters /\ CvWaits(v) /\ Anchors \ {nullptr} \subseteq g[n]
      BY <2>1, <2>3 DEF A
    <3>2. PICK x \in Waiters : CvWaits(x) /\ x \notin g[n] /\ x \in g[n + 1]
      BY <2>2, <2>3, <3>1, CvReachOne
    <3>3. (g[n] \cap W) \cup {x} \subseteq g[n + 1] \cap W /\ x \notin g[n] \cap W
      BY <2>2, <3>2
    <3>4. Cardinality((g[n] \cap W) \cup {x}) = C(n) + 1
      <4>1. IsFiniteSet(g[n] \cap W)
        BY <1>3
      <4> HIDE DEF W
      <4> QED
        BY <3>3, <4>1, FS_AddElement
    <3>5. Cardinality((g[n] \cap W) \cup {x}) <= C(n + 1)
      <4>1. IsFiniteSet(g[n + 1] \cap W)
        BY <1>3
      <4> HIDE DEF W
      <4> QED
        BY <3>3, <4>1, FS_Subset
    <3>6. C(n) >= n /\ C(n) \in Nat /\ C(n + 1) \in Nat
      BY <1>3, <2>1, <2>3
    <3> HIDE DEF C
    <3> QED
      BY <3>4, <3>5, <3>6
  <2> QED
    BY <2>1, <2>2, <2>3
<1>6. N \in S
  <2> HIDE DEF S
  <2> QED
    BY <1>1, <1>4, <1>5, SetInduction
<1>7. W \subseteq g[N] \/ C(N) >= N
  BY <1>1, <1>6
<1>8. ASSUME NEW d \in W, d \notin g[N] PROVE FALSE
  <2>1. g[N] \cap W \subseteq W \ {d}
    BY <1>8
  <2>2. IsFiniteSet(W \ {d}) /\ Cardinality(W \ {d}) = Cardinality(W) - 1
    BY <1>1, <1>8, FS_RemoveElement
  <2>3. C(N) <= Cardinality(W \ {d})
    BY <2>1, <2>2, FS_Subset
  <2>4. C(N) \in Nat /\ C(N) >= N
    BY <1>3, <1>7, <1>8
  <2> HIDE DEF C, W
  <2> QED
    BY <1>1, <2>2, <2>3, <2>4
<1>9. \A w \in Waiters : cv_pc[w] = "suspended" /\ ~ InQueue(w) => w \in W
  BY CvInQueue DEF CvWaits
<1> QED
  BY <1>2, <1>8, <1>9 DEF NoWaiterLost, A

\* With one notification at a time, however it interleaves with wait(), nobody who
\* waits is dropped from the lists: an awaiter that is on one is the target of a
\* pointer or of the link of another that is, and the links do not go round.
THEOREM CvOneNotifierLosesNone ==
  ASSUME CvAlone PROVE CvSpec => []OneNotifierLosesNone
<1>1. CvInit => CvNoStale
  BY CvNoStaleInit, CvAssumption
<1>2. CvNoStale /\ [CvNext]_(cv_vars) => CvNoStale'
  BY CvNoStaleStep
<1>3. CvNoStale => OneNotifierLosesNone
  BY CvFound DEF CvNoStale, OneNotifierLosesNone
<1> QED
  BY <1>1, <1>2, <1>3, PTL DEF CvSpec
=============================================================================
