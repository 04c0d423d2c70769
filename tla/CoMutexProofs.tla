---------------------------- MODULE CoMutexProofs ----------------------------
(***************************************************************************)
(* Proofs about CoMutex for any set of coroutines.                         *)
(***************************************************************************)
EXTENDS CoMutexFifo, FiniteSetTheorems, SequenceTheorems, WellFoundedInduction, TLAPS

USE CoroAssumption DEF Unlocking, LockedNoAwaiting, Ptr, PcValues, Goto

-----------------------------------------------------------------------------
\* Every step of every operation preserves the inductive invariant.
LEMMA IndInvStep ==
  ASSUME IndInv, [Next]_vars
  PROVE  IndInv'
<1> USE DEF IndInv
<1>1. ASSUME NEW c \in Coros, TryLock(c) PROVE IndInv'
  <2> USE <1>1 DEF TryLock
  <2>1. TypeOK'
    BY DEF TypeOK
  <2>2. MutualExclusion'
    BY DEF TypeOK, MutualExclusion, Owners
  <2>3. LocalsOK'
    BY DEF LocalsOK
  <2>4. OnlyWaitersLinked'
    BY DEF WaiterLinkedOnce, OnlyWaitersLinked, Anchored, Listed, Waiting, Link, Popped
  <2>5. EveryWaiterLinked'
    BY DEF WaiterLinkedOnce, EveryWaiterLinked, Anchored, Listed, Waiting, Link, Popped
  <2>6. LinksDisjoint'
    BY DEF WaiterLinkedOnce, LinksDisjoint, Anchored, Listed, Waiting, Link, Popped
  <2> QED
    BY <2>1, <2>2, <2>3, <2>4, <2>5, <2>6 DEF WaiterLinkedOnce
<1>2. ASSUME NEW c \in Coros, Lock(c) PROVE IndInv'
  <2> USE <1>2 DEF Lock
  <2>1. TypeOK'
    BY DEF TypeOK
  <2>2. MutualExclusion'
    BY DEF MutualExclusion, Owners
  <2>3. LocalsOK'
    BY DEF LocalsOK
  <2>4. OnlyWaitersLinked'
    BY DEF WaiterLinkedOnce, OnlyWaitersLinked, Anchored, Listed, Waiting, Link, Popped
  <2>5. EveryWaiterLinked'
    BY DEF WaiterLinkedOnce, EveryWaiterLinked, Anchored, Listed, Waiting, Link, Popped
  <2>6. LinksDisjoint'
    BY DEF WaiterLinkedOnce, LinksDisjoint, Anchored, Listed, Waiting, Link, Popped
  <2> QED
    BY <2>1, <2>2, <2>3, <2>4, <2>5, <2>6 DEF WaiterLinkedOnce
<1>3. ASSUME NEW c \in Coros, RegisterRetry(c) PROVE IndInv'
  <2> USE <1>3 DEF RegisterRetry
  <2>1. TypeOK'
    BY DEF TypeOK
  <2>2. MutualExclusion'
    BY DEF MutualExclusion, Owners
  <2>3. LocalsOK'
    BY DEF LocalsOK
  <2>4. OnlyWaitersLinked'
    BY DEF WaiterLinkedOnce, OnlyWaitersLinked, Anchored, Listed, Waiting, Link, Popped
  <2>5. EveryWaiterLinked'
    BY DEF WaiterLinkedOnce, EveryWaiterLinked, Anchored, Listed, Waiting, Link, Popped
  <2>6. LinksDisjoint'
    BY DEF WaiterLinkedOnce, LinksDisjoint, Anchored, Listed, Waiting, Link, Popped
  <2> QED
    BY <2>1, <2>2, <2>3, <2>4, <2>5, <2>6 DEF WaiterLinkedOnce
<1>4. ASSUME NEW c \in Coros, RegisterAcquire(c) PROVE IndInv'
  <2> USE <1>4 DEF RegisterAcquire
  <2>1. TypeOK'
    BY DEF TypeOK
  <2>2. MutualExclusion'
    BY DEF TypeOK, MutualExclusion, Owners
  <2>3. LocalsOK'
    BY DEF LocalsOK
  <2>4. OnlyWaitersLinked'
    BY DEF WaiterLinkedOnce, OnlyWaitersLinked, Anchored, Listed, Waiting, Link, Popped
  <2>5. EveryWaiterLinked'
    BY DEF WaiterLinkedOnce, EveryWaiterLinked, Anchored, Listed, Waiting, Link, Popped
  <2>6. LinksDisjoint'
    BY DEF WaiterLinkedOnce, LinksDisjoint, Anchored, Listed, Waiting, Link, Popped
  <2> QED
    BY <2>1, <2>2, <2>3, <2>4, <2>5, <2>6 DEF WaiterLinkedOnce
<1>5. ASSUME NEW c \in Coros, RegisterPush(c) PROVE IndInv'
  <2> USE <1>5 DEF RegisterPush
  <2>1. TypeOK'
    BY DEF TypeOK
  <2>2. MutualExclusion'
    BY DEF MutualExclusion, Owners
  <2>3. LocalsOK'
    BY DEF LocalsOK
  <2>4. OnlyWaitersLinked'
    BY DEF TypeOK, WaiterLinkedOnce, OnlyWaitersLinked, Anchored, Listed, Waiting, Link, Popped
  <2>5. EveryWaiterLinked'
    BY DEF TypeOK, WaiterLinkedOnce, OnlyWaitersLinked, EveryWaiterLinked, Anchored, Listed,
           Waiting, Link, Popped
  <2>6. LinksDisjoint'
    BY DEF TypeOK, WaiterLinkedOnce, OnlyWaitersLinked, LinksDisjoint, Anchored, Listed,
           Waiting, Link, Popped
  <2> QED
    BY <2>1, <2>2, <2>3, <2>4, <2>5, <2>6 DEF WaiterLinkedOnce
<1>6. ASSUME NEW c \in Coros, Resume(c) PROVE IndInv'
  <2> USE <1>6 DEF Resume
  <2>1. TypeOK'
    BY DEF TypeOK
  <2>2. MutualExclusion'
    BY DEF MutualExclusion, Owners
  <2>3. LocalsOK'
    BY DEF LocalsOK
  <2>4. OnlyWaitersLinked'
    BY DEF WaiterLinkedOnce, OnlyWaitersLinked, Anchored, Listed, Waiting, Link, Popped
  <2>5. EveryWaiterLinked'
    BY DEF WaiterLinkedOnce, EveryWaiterLinked, Anchored, Listed, Waiting, Link, Popped
  <2>6. LinksDisjoint'
    BY DEF WaiterLinkedOnce, LinksDisjoint, Anchored, Listed, Waiting, Link, Popped
  <2> QED
    BY <2>1, <2>2, <2>3, <2>4, <2>5, <2>6 DEF WaiterLinkedOnce
<1>7. ASSUME NEW c \in Coros, Unlock(c) PROVE IndInv'
  <2> USE <1>7 DEF Unlock
  <2>1. TypeOK'
    BY DEF TypeOK
  <2>2. MutualExclusion'
    BY DEF MutualExclusion, Owners
  <2>3. LocalsOK'
    BY DEF TypeOK, LocalsOK
  <2>4. OnlyWaitersLinked'
    BY DEF MutualExclusion, Owners, WaiterLinkedOnce, OnlyWaitersLinked, Anchored, Listed,
           Waiting, Link, Popped
  <2>5. EveryWaiterLinked'
    BY DEF TypeOK, LocalsOK, WaiterLinkedOnce, EveryWaiterLinked, Anchored, Listed, Waiting,
           Link, Popped
  <2>6. LinksDisjoint'
    BY DEF TypeOK, MutualExclusion, Owners, WaiterLinkedOnce, LinksDisjoint, Anchored,
           Listed, Waiting, Link, Popped
  <2> QED
    BY <2>1, <2>2, <2>3, <2>4, <2>5, <2>6 DEF WaiterLinkedOnce
<1>8. ASSUME NEW c \in Coros, UnlockCas(c) PROVE IndInv'
  <2> USE <1>8 DEF UnlockCas
  <2>1. TypeOK'
    BY DEF TypeOK
  <2>2. MutualExclusion'
    BY DEF TypeOK, MutualExclusion, Owners
  <2>3. LocalsOK'
    BY DEF TypeOK, LocalsOK, MutualExclusion, Owners
  <2>4. OnlyWaitersLinked'
    BY DEF WaiterLinkedOnce, OnlyWaitersLinked, Anchored, Listed, Waiting, Link, Popped
  <2>5. EveryWaiterLinked'
    BY DEF WaiterLinkedOnce, EveryWaiterLinked, Anchored, Listed, Waiting, Link, Popped
  <2>6. LinksDisjoint'
    BY DEF WaiterLinkedOnce, OnlyWaitersLinked, LinksDisjoint, Anchored, Listed, Waiting,
           Link, Popped
  <2> QED
    BY <2>1, <2>2, <2>3, <2>4, <2>5, <2>6 DEF WaiterLinkedOnce
<1>9. ASSUME NEW c \in Coros, UnlockExchange(c) PROVE IndInv'
  <2> USE <1>9 DEF UnlockExchange
  <2>1. TypeOK'
    BY DEF TypeOK, LocalsOK
  <2>2. MutualExclusion'
    BY DEF MutualExclusion, Owners
  <2>3. LocalsOK'
    BY DEF TypeOK, LocalsOK, MutualExclusion, Owners
  <2>4. OnlyWaitersLinked'
    BY DEF WaiterLinkedOnce, OnlyWaitersLinked, Anchored, Listed, Waiting, Link, Popped
  <2>5. EveryWaiterLinked'
    BY DEF TypeOK, LocalsOK, WaiterLinkedOnce, EveryWaiterLinked, Anchored, Listed, Waiting,
           Link, Popped
  <2>6. LinksDisjoint'
    BY DEF LocalsOK, WaiterLinkedOnce, LinksDisjoint, Anchored, Listed, Waiting, Link, Popped
  <2> QED
    BY <2>1, <2>2, <2>3, <2>4, <2>5, <2>6 DEF WaiterLinkedOnce
<1>10. ASSUME NEW c \in Coros, UnlockReverse(c) PROVE IndInv'
  <2> USE <1>10 DEF UnlockReverse
  <2>1. TypeOK'
    BY DEF TypeOK, LocalsOK
  <2>2. MutualExclusion'
    BY DEF MutualExclusion, Owners
  <2>3. LocalsOK'
    BY DEF TypeOK, LocalsOK
  <2>4. OnlyWaitersLinked'
    BY DEF TypeOK, LocalsOK, WaiterLinkedOnce, OnlyWaitersLinked, LinksDisjoint, Anchored,
           Listed, Waiting, Link, Popped
  <2>5. EveryWaiterLinked'
    BY DEF TypeOK, LocalsOK, MutualExclusion, Owners, WaiterLinkedOnce, OnlyWaitersLinked,
           EveryWaiterLinked, Anchored, Listed, Waiting, Link, Popped
  <2>6. LinksDisjoint'
    BY DEF TypeOK, LocalsOK, MutualExclusion, Owners, WaiterLinkedOnce, OnlyWaitersLinked,
           LinksDisjoint, Anchored, Listed, Waiting, Link, Popped
  <2> QED
    BY <2>1, <2>2, <2>3, <2>4, <2>5, <2>6 DEF WaiterLinkedOnce
<1>11. ASSUME NEW c \in Coros, UnlockPop(c) PROVE IndInv'
  <2> USE <1>11 DEF UnlockPop
  <2>1. TypeOK'
    BY DEF TypeOK, LocalsOK
  <2>2. MutualExclusion'
    BY DEF MutualExclusion, Owners
  <2>3. LocalsOK'
    BY DEF TypeOK, LocalsOK, MutualExclusion, Owners
  <2>4. OnlyWaitersLinked'
    BY DEF TypeOK, LocalsOK, MutualExclusion, Owners, WaiterLinkedOnce, OnlyWaitersLinked,
           Anchored, Listed, Waiting, Link, Popped
  <2>5. EveryWaiterLinked'
    BY DEF MutualExclusion, Owners, WaiterLinkedOnce, EveryWaiterLinked, Anchored, Listed,
           Waiting, Link, Popped
  <2>6. LinksDisjoint'
    BY DEF TypeOK, LocalsOK, MutualExclusion, Owners, WaiterLinkedOnce, OnlyWaitersLinked,
           LinksDisjoint, Anchored, Listed, Waiting, Link, Popped
  <2> QED
    BY <2>1, <2>2, <2>3, <2>4, <2>5, <2>6 DEF WaiterLinkedOnce
<1>12. ASSUME NEW c \in Coros, UnlockSpawn(c) PROVE IndInv'
  <2> USE <1>12 DEF UnlockSpawn
  <2>1. TypeOK'
    BY DEF TypeOK
  <2>2. MutualExclusion'
    BY DEF TypeOK, LocalsOK, MutualExclusion, Owners
  <2>3. LocalsOK'
    BY DEF TypeOK, LocalsOK, WaiterLinkedOnce, OnlyWaitersLinked, Anchored, Waiting
  <2>4. OnlyWaitersLinked'
    BY DEF TypeOK, LocalsOK, MutualExclusion, Owners, WaiterLinkedOnce, OnlyWaitersLinked,
           LinksDisjoint, Anchored, Listed, Waiting, Link, Popped
  <2>5. EveryWaiterLinked'
    BY DEF TypeOK, WaiterLinkedOnce, EveryWaiterLinked, Anchored, Listed, Waiting, Link, Popped
  <2>6. LinksDisjoint'
    BY DEF TypeOK, LocalsOK, MutualExclusion, Owners, WaiterLinkedOnce, LinksDisjoint,
           Anchored, Listed, Waiting, Link, Popped
  <2> QED
    BY <2>1, <2>2, <2>3, <2>4, <2>5, <2>6 DEF WaiterLinkedOnce
<1>13. CASE UNCHANGED vars
  BY <1>13 DEF vars, TypeOK, LocalsOK, MutualExclusion, Owners, WaiterLinkedOnce,
     OnlyWaitersLinked, EveryWaiterLinked, LinksDisjoint, Anchored, Listed, Waiting, Link, Popped
<1> QED
  BY <1>1, <1>2, <1>3, <1>4, <1>5, <1>6, <1>7, <1>8, <1>9, <1>10, <1>11, <1>12, <1>13
  DEF Next, Step

\* The initial state satisfies it: nobody owns or waits, nothing is linked.
LEMMA IndInvInit == Init => IndInv
<1> SUFFICES ASSUME Init PROVE IndInv
  OBVIOUS
<1> USE DEF Init
<1>1. TypeOK /\ LocalsOK
  BY DEF TypeOK, LocalsOK
<1>2. MutualExclusion
  BY DEF MutualExclusion, Owners
<1>3. WaiterLinkedOnce
  BY DEF WaiterLinkedOnce, OnlyWaitersLinked, EveryWaiterLinked, LinksDisjoint,
         Anchored, Listed, Waiting, Link, Popped
<1> QED
  BY <1>1, <1>2, <1>3 DEF IndInv

\* IndInv is an invariant of every behaviour of the mutex.
THEOREM InductiveInvariant == Spec => []IndInv
BY IndInvInit, IndInvStep, PTL DEF Spec

\* Type correctness of the mutex's words, lists and locals.
THEOREM TypeCorrect == Spec => []TypeOK
<1>1. IndInv => TypeOK
  BY DEF IndInv
<1> QED
  BY <1>1, InductiveInvariant, PTL

\* mutex::lock, try_lock and unlock give exclusive ownership, and the word
\* `awaiting' reads NotLocked exactly when nobody owns the lock.
THEOREM MutexExclusive == Spec => []MutualExclusion
<1>1. IndInv => MutualExclusion
  BY DEF IndInv
<1> QED
  BY <1>1, InductiveInvariant, PTL

\* No lock_awaiter suspended on the mutex is ever dropped from, duplicated in
\* or left dangling on the intrusive lists of register_awaiting and unlock.
THEOREM MutexLosesNoWaiter == Spec => []WaiterLinkedOnce
<1>1. IndInv => WaiterLinkedOnce
  BY DEF IndInv
<1> QED
  BY <1>1, InductiveInvariant, PTL
-----------------------------------------------------------------------------
(***************************************************************************)
(* The mutex implements FifoLock.  First, what following links yields.     *)
(***************************************************************************)

\* Induction, for a set instead of a predicate.
LEMMA SetInduction ==
  ASSUME NEW S, 0 \in S, \A n \in Nat : n \in S => n + 1 \in S
  PROVE  \A n \in Nat : n \in S
<1> SUFFICES ASSUME NEW m \in Nat, m \notin S PROVE FALSE
  OBVIOUS
<1> DEFINE R == {ss \in Nat \X Nat : ss[1] < ss[2]}
           T == {n \in Nat : n \notin S}
<1>1. PICK x \in T : \A y \in T : ~ (<<y, x>> \in R)
  <2>1. IsWellFoundedOn(R, Nat)
    BY NatLessThanWellFounded DEF OpToRel
  <2>2. T \subseteq Nat /\ T # {}
    OBVIOUS
  <2> HIDE DEF R, T
  <2> QED
    BY <2>1, <2>2, WFMin
<1>2. x \in Nat /\ x # 0
  OBVIOUS
<1>3. x - 1 \in Nat /\ (x - 1) + 1 = x /\ <<x - 1, x>> \in R
  BY <1>2
<1>4. x - 1 \in S
  <2> HIDE DEF R
  <2> QED
    BY <1>1, <1>3
<1> QED
  BY <1>3, <1>4

\* Walk(f, p) is the last of a sequence of ever longer walks.
LEMMA WalkSteps ==
  ASSUME IsFiniteSet(Coros), NEW f \in [Coros -> Ptr]
  PROVE  \E w : /\ \A q \in Ptr : w[0][q] = <<>>
                /\ \A k \in 1..Cardinality(Coros) : \A q \in Ptr :
                     w[k][q] = IF q = Null THEN <<>> ELSE <<q>> \o w[k - 1][f[q]]
                /\ \A p \in Ptr : Walk(f, p) = w[Cardinality(Coros)][p]
<1> DEFINE N == Cardinality(Coros)
           Body(w, k) == [q \in Ptr |-> IF k = 0 \/ q = Null THEN <<>> ELSE <<q>> \o w[k - 1][f[q]]]
           S == {n \in Nat : \E w : w = [k \in 0..n |-> Body(w, k)]}
<1>1. N \in Nat
  BY FS_CardinalityType
<1>2. 0 \in S
  <2> DEFINE w == [k \in 0..0 |-> [q \in Ptr |-> <<>>]]
  <2>1. w = [k \in 0..0 |-> Body(w, k)]
    OBVIOUS
  <2> HIDE DEF w, Body
  <2> QED
    BY <2>1
<1>3. ASSUME NEW n \in Nat, n \in S PROVE n + 1 \in S
  <2>1. PICK w : w = [k \in 0..n |-> Body(w, k)]
    BY <1>3
  <2> DEFINE v == [k \in 0..(n + 1) |-> IF k = n + 1 THEN Body(w, n + 1) ELSE w[k]]
  <2> HIDE DEF Body
  <2>2. \A k \in 0..n : w[k] = Body(w, k)
    BY <2>1
  <2>3. \A k \in 0..n : v[k] = w[k]
    OBVIOUS
  <2>4. v[n + 1] = Body(w, n + 1)
    OBVIOUS
  <2> HIDE DEF v
  <2>5. ASSUME NEW k \in 0..(n + 1) PROVE Body(v, k) = Body(w, k)
    <3>1. CASE k = 0
      BY <3>1 DEF Body
    <3>2. CASE k # 0
      <4>1. v[k - 1] = w[k - 1]
        BY <2>3, <3>2
      <4> QED
        BY <4>1 DEF Body
    <3> QED
      BY <3>1, <3>2
  <2>6. ASSUME NEW k \in 0..(n + 1) PROVE v[k] = Body(v, k)
    <3>1. CASE k = n + 1
      BY <2>4, <2>5, <3>1
    <3>2. CASE k # n + 1
      <4>1. k \in 0..n
        BY <3>2
      <4> QED
        BY <2>2, <2>3, <2>5, <4>1
    <3> QED
      BY <3>1, <3>2
  <2>7. v = [k \in 0..(n + 1) |-> Body(v, k)]
    <3>1. v = [k \in 0..(n + 1) |-> v[k]]
      BY DEF v
    <3> QED
      BY <2>6, <3>1
  <2> QED
    BY <2>7
<1>4. N \in S
  <2> HIDE DEF S
  <2> QED
    BY <1>1, <1>2, <1>3, SetInduction
<1>5. PICK z : z = [k \in 0..N |-> Body(z, k)]
  BY <1>4
<1> DEFINE walk == CHOOSE w : w = [k \in 0..N |-> Body(w, k)]
<1>6. walk = [k \in 0..N |-> Body(walk, k)]
  BY <1>5
<1>7. \A p : Walk(f, p) = walk[N][p]
  BY DEF Walk
<1> HIDE DEF walk, N, Body
<1>8. \A k \in 0..N : walk[k] = Body(walk, k)
  BY <1>6
<1>9. \A q \in Ptr : walk[0][q] = <<>>
  <2>1. walk[0] = Body(walk, 0)
    BY <1>1, <1>8
  <2> QED
    BY <2>1 DEF Body
<1>10. ASSUME NEW k \in 1..N, NEW q \in Ptr
       PROVE  walk[k][q] = IF q = Null THEN <<>> ELSE <<q>> \o walk[k - 1][f[q]]
  <2>1. walk[k] = Body(walk, k) /\ k # 0
    BY <1>1, <1>8
  <2> QED
    BY <2>1 DEF Body
<1> QED
  BY <1>7, <1>9, <1>10 DEF N

\* A set of awaiters that the links f do not leave.
Closed(f, W) == W \in SUBSET Coros /\ \A q \in W : f[q] \in W \cup {Null}

\* ... and in which they make no cycle.
Acyclic(f, W) == \A T \in SUBSET W : T # {} => \E q \in T : \A d \in T : f[d] # q

\* A walk stays in a closed set, and does not depend on links outside it.
LEMMA WalkFrame ==
  ASSUME IsFiniteSet(Coros), NEW f \in [Coros -> Ptr], NEW g \in [Coros -> Ptr], NEW W,
         Closed(f, W), \A q \in W : g[q] = f[q], NEW p \in W \cup {Null}
  PROVE  Walk(g, p) = Walk(f, p) /\ Walk(f, p) \in Seq(W)
<1> DEFINE N == Cardinality(Coros)
<1>1. PICK v : /\ \A q \in Ptr : v[0][q] = <<>>
               /\ \A k \in 1..N : \A q \in Ptr :
                    v[k][q] = IF q = Null THEN <<>> ELSE <<q>> \o v[k - 1][f[q]]
               /\ \A q \in Ptr : Walk(f, q) = v[N][q]
  BY WalkSteps
<1>2. PICK w : /\ \A q \in Ptr : w[0][q] = <<>>
               /\ \A k \in 1..N : \A q \in Ptr :
                    w[k][q] = IF q = Null THEN <<>> ELSE <<q>> \o w[k - 1][g[q]]
               /\ \A q \in Ptr : Walk(g, q) = w[N][q]
  BY WalkSteps
<1>3. N \in Nat /\ W \cup {Null} \subseteq Ptr
  BY FS_CardinalityType DEF Closed
<1> HIDE DEF N
<1> DEFINE S == {n \in Nat : n <= N => \A q \in W \cup {Null} : w[n][q] = v[n][q] /\ v[n][q] \in Seq(W)}
<1>4. 0 \in S
  <2>1. ASSUME NEW q \in W \cup {Null} PROVE w[0][q] = v[0][q] /\ v[0][q] \in Seq(W)
    <3>1. w[0][q] = <<>> /\ v[0][q] = <<>>
      BY <1>1, <1>2, <1>3
    <3> QED
      BY <3>1
  <2> QED
    BY <2>1
<1>5. ASSUME NEW n \in Nat, n \in S PROVE n + 1 \in S
  <2> SUFFICES ASSUME n + 1 <= N, NEW q \in W \cup {Null}
               PROVE  w[n + 1][q] = v[n + 1][q] /\ v[n + 1][q] \in Seq(W)
    OBVIOUS
  <2>1. n + 1 \in 1..N /\ (n + 1) - 1 = n /\ n <= N /\ q \in Ptr
    BY <1>3
  <2>2. v[n + 1][q] = (IF q = Null THEN <<>> ELSE <<q>> \o v[n][f[q]])
    BY <1>1, <2>1
  <2>3. w[n + 1][q] = (IF q = Null THEN <<>> ELSE <<q>> \o w[n][g[q]])
    BY <1>2, <2>1
  <2>4. CASE q = Null
    BY <2>2, <2>3, <2>4
  <2>5. CASE q # Null
    <3>1. q \in W /\ f[q] \in W \cup {Null} /\ g[q] = f[q]
      BY <2>5 DEF Closed
    <3>2. w[n][f[q]] = v[n][f[q]] /\ v[n][f[q]] \in Seq(W)
      BY <1>5, <2>1, <3>1
    <3>3. <<q>> \in Seq(W)
      BY <3>1
    <3> QED
      BY <2>2, <2>3, <2>5, <3>1, <3>2, <3>3, ConcatProperties
  <2> QED
    BY <2>4, <2>5
<1>6. N \in S
  <2> HIDE DEF S
  <2> QED
    BY <1>3, <1>4, <1>5, SetInduction
<1> QED
  BY <1>1, <1>2, <1>3, <1>6

\* Without a cycle the bound does not matter: a walk is its first awaiter and
\* the walk from the next one.
LEMMA WalkUnfold ==
  ASSUME IsFiniteSet(Coros), NEW f \in [Coros -> Ptr], NEW W, Closed(f, W), Acyclic(f, W)
  PROVE  /\ Walk(f, Null) = <<>>
         /\ \A q \in W : Walk(f, q) = <<q>> \o Walk(f, f[q])
<1> DEFINE N == Cardinality(Coros)
<1>1. PICK w : /\ \A q \in Ptr : w[0][q] = <<>>
               /\ \A k \in 1..N : \A q \in Ptr :
                    w[k][q] = IF q = Null THEN <<>> ELSE <<q>> \o w[k - 1][f[q]]
               /\ \A q \in Ptr : Walk(f, q) = w[N][q]
  BY WalkSteps
<1>2. N \in Nat /\ W \subseteq Coros /\ W \subseteq Ptr /\ Null \in Ptr /\ Null \notin W
  BY FS_CardinalityType DEF Closed
<1>3. N = 0 => W = {}
  BY <1>2, FS_EmptySet
<1>4. \A T \in SUBSET W : IsFiniteSet(T) /\ Cardinality(T) \in Nat /\ Cardinality(T) <= N
  BY <1>2, FS_Subset, FS_CardinalityType
<1> HIDE DEF N
\* T is what is passed on the way from q.
<1> DEFINE Path(T, q) == q \in T /\ \A d \in T : d # q => \E e \in T : f[e] = d
           S == {n \in Nat : n + 1 <= N => \A q \in W :
                   w[n + 1][q] = w[n][q] \/ \E T \in SUBSET W : Path(T, q) /\ Cardinality(T) >= n + 1}
<1>5. ASSUME NEW T \in SUBSET W, NEW q \in W, f[q] # Null, Path(T, f[q])
      PROVE  /\ Path(T \cup {q}, q) /\ T \cup {q} \in SUBSET W
             /\ Cardinality(T \cup {q}) = Cardinality(T) + 1
  <2>1. q \notin T
    <3> SUFFICES ASSUME q \in T PROVE FALSE
      OBVIOUS
    <3>1. PICK d \in T : \A e \in T : f[e] # d
      BY DEF Acyclic
    <3> QED
      BY <1>5, <3>1
  <2>2. Path(T \cup {q}, q)
    BY <1>5
  <2>3. Cardinality(T \cup {q}) = Cardinality(T) + 1
    BY <1>4, <2>1, FS_AddElement
  <2> QED
    BY <2>2, <2>3
<1> HIDE DEF Path
<1>6. 0 \in S
  <2>1. ASSUME NEW q \in W PROVE \E T \in SUBSET W : Path(T, q) /\ Cardinality(T) >= 0 + 1
    <3>1. Path({q}, q) /\ Cardinality({q}) = 1
      BY FS_Singleton DEF Path
    <3> QED
      BY <3>1
  <2> QED
    BY <2>1
<1>7. ASSUME NEW n \in Nat, n \in S PROVE n + 1 \in S
  <2> SUFFICES ASSUME (n + 1) + 1 <= N, NEW q \in W
               PROVE  \/ w[(n + 1) + 1][q] = w[n + 1][q]
                      \/ \E T \in SUBSET W : Path(T, q) /\ Cardinality(T) >= (n + 1) + 1
    OBVIOUS
  <2>1. /\ n + 1 \in 1..N /\ (n + 1) - 1 = n /\ n + 1 <= N
        /\ (n + 1) + 1 \in 1..N /\ ((n + 1) + 1) - 1 = n + 1
    BY <1>2
  <2>2. w[n + 1][q] = <<q>> \o w[n][f[q]] /\ w[(n + 1) + 1][q] = <<q>> \o w[n + 1][f[q]]
    <3>1. ASSUME NEW k \in 1..N PROVE w[k][q] = <<q>> \o w[k - 1][f[q]]
      BY <1>1, <1>2
    <3> HIDE DEF S
    <3>2. w[n + 1][q] = <<q>> \o w[(n + 1) - 1][f[q]]
      BY <2>1, <3>1
    <3>3. w[(n + 1) + 1][q] = <<q>> \o w[((n + 1) + 1) - 1][f[q]]
      BY <2>1, <3>1
    <3> QED
      BY <2>1, <3>2, <3>3
  <2>3. CASE f[q] = Null
    <3>1. w[n + 1][Null] = <<>> /\ w[n][Null] = <<>>
      <4>1. w[n + 1][Null] = <<>>
        BY <1>1, <1>2, <2>1
      <4>2. n = 0 \/ n \in 1..N
        BY <1>2, <2>1
      <4> QED
        BY <1>1, <1>2, <4>1, <4>2
    <3> QED
      BY <2>2, <2>3, <3>1
  <2>4. CASE f[q] # Null
    <3>1. f[q] \in W
      BY <2>4 DEF Closed
    <3>2. w[n + 1][f[q]] = w[n][f[q]]
          \/ \E T \in SUBSET W : Path(T, f[q]) /\ Cardinality(T) >= n + 1
      BY <1>7, <2>1, <3>1
    <3>3. ASSUME NEW T \in SUBSET W, Path(T, f[q]), Cardinality(T) >= n + 1
          PROVE  Path(T \cup {q}, q) /\ T \cup {q} \in SUBSET W
                 /\ Cardinality(T \cup {q}) >= (n + 1) + 1
      <4>1. /\ Path(T \cup {q}, q) /\ T \cup {q} \in SUBSET W
            /\ Cardinality(T \cup {q}) = Cardinality(T) + 1
        BY <1>5, <2>4, <3>3
      <4> QED
        BY <1>4, <3>3, <4>1
    <3> QED
      BY <2>2, <3>2, <3>3
  <2> QED
    BY <2>3, <2>4
<1>8. \A n \in Nat : n \in S
  <2> HIDE DEF S
  <2> QED
    BY <1>6, <1>7, SetInduction
<1>9. Walk(f, Null) = <<>>
  <2>1. N = 0 \/ N \in 1..N
    BY <1>2
  <2> QED
    BY <1>1, <1>2, <2>1
<1>10. ASSUME NEW q \in W PROVE Walk(f, q) = <<q>> \o Walk(f, f[q])
  <2>1. N \in 1..N /\ N - 1 \in Nat /\ (N - 1) + 1 = N
    BY <1>2, <1>3
  <2>2. Walk(f, q) = <<q>> \o w[N - 1][f[q]] /\ f[q] \in W \cup {Null}
    BY <1>1, <1>2, <2>1 DEF Closed
  <2>3. CASE f[q] = Null
    <3>1. w[N - 1][Null] = <<>>
      <4>1. N - 1 = 0 \/ N - 1 \in 1..N
        BY <2>1
      <4> QED
        BY <1>1, <1>2, <4>1
    <3> QED
      BY <1>9, <2>2, <2>3, <3>1
  <2>4. CASE f[q] # Null
    <3>1. N - 1 \in S /\ f[q] \in W
      BY <1>8, <2>1, <2>2, <2>4
    <3>2. w[N][f[q]] = w[N - 1][f[q]] \/ \E T \in SUBSET W : Path(T, f[q]) /\ Cardinality(T) >= N
      BY <1>2, <2>1, <3>1
    <3>3. ASSUME NEW T \in SUBSET W, Path(T, f[q]), Cardinality(T) >= N PROVE FALSE
      <4>1. T \cup {q} \in SUBSET W /\ Cardinality(T \cup {q}) = Cardinality(T) + 1
        BY <1>5, <2>4, <3>3
      <4>2. Cardinality(T) \in Nat /\ Cardinality(T \cup {q}) <= N
        BY <1>4, <4>1
      <4> QED
        BY <1>2, <3>3, <4>1, <4>2
    <3>4. Walk(f, f[q]) = w[N][f[q]]
      BY <1>1, <1>2, <3>1
    <3> QED
      BY <2>2, <3>2, <3>3, <3>4
  <2> QED
    BY <2>3, <2>4
<1> QED
  BY <1>9, <1>10

\* Reversing turns the first into the last.
LEMMA ReversePush ==
  ASSUME NEW S, NEW s \in Seq(S), NEW x \in S
  PROVE  /\ Reverse(s) \in Seq(S) /\ Reverse(<<x>> \o s) = Reverse(s) \o <<x>>
         /\ Reverse(<<>>) = <<>>
<1>1. /\ Reverse(s) \in Seq(S) /\ Len(Reverse(s)) = Len(s)
      /\ \A i \in 1..Len(s) : Reverse(s)[i] = s[(Len(s) - i) + 1]
  BY DEF Reverse
<1>2. /\ <<x>> \in Seq(S) /\ Len(<<x>>) = 1 /\ <<x>>[1] = x /\ Len(s) \in Nat
  OBVIOUS
<1>3. /\ <<x>> \o s \in Seq(S) /\ Len(<<x>> \o s) = 1 + Len(s)
      /\ \A i \in 1..(1 + Len(s)) : (<<x>> \o s)[i] = IF i <= 1 THEN <<x>>[i] ELSE s[i - 1]
  BY <1>2, ConcatProperties
<1>4. /\ Reverse(s) \o <<x>> \in Seq(S) /\ Len(Reverse(s) \o <<x>>) = Len(s) + 1
      /\ \A i \in 1..(Len(s) + 1) :
           (Reverse(s) \o <<x>>)[i] = IF i <= Len(s) THEN Reverse(s)[i] ELSE <<x>>[i - Len(s)]
  BY <1>1, <1>2, ConcatProperties
<1> DEFINE t == <<x>> \o s
<1>5. /\ Reverse(t) \in Seq(S) /\ Len(Reverse(t)) = Len(s) + 1
      /\ \A i \in 1..(Len(s) + 1) : Reverse(t)[i] = t[((1 + Len(s)) - i) + 1]
  <2> HIDE DEF t
  <2>1. t \in Seq(S) /\ Len(t) = 1 + Len(s)
    BY <1>3 DEF t
  <2> QED
    BY <1>2, <2>1 DEF Reverse
<1>6. ASSUME NEW i \in 1..(Len(s) + 1) PROVE Reverse(t)[i] = (Reverse(s) \o <<x>>)[i]
  <2>1. CASE i <= Len(s)
    <3>1. ((1 + Len(s)) - i) + 1 \in 1..(1 + Len(s)) /\ ~ (((1 + Len(s)) - i) + 1 <= 1)
          /\ (((1 + Len(s)) - i) + 1) - 1 = (Len(s) - i) + 1 /\ i \in 1..Len(s)
      BY <1>2, <2>1
    <3>2. Reverse(t)[i] = s[(Len(s) - i) + 1]
      BY <1>3, <1>5, <3>1
    <3> QED
      BY <1>1, <1>4, <2>1, <3>1, <3>2
  <2>2. CASE i = Len(s) + 1
    <3>1. ((1 + Len(s)) - i) + 1 = 1 /\ i - Len(s) = 1 /\ ~ (i <= Len(s)) /\ 1 \in 1..(1 + Len(s))
      BY <1>2, <2>2
    <3>2. Reverse(t)[i] = t[1] /\ t[1] = x
      BY <1>2, <1>3, <1>5, <3>1, SMTT(40)
    <3>3. (Reverse(s) \o <<x>>)[i] = <<x>>[1]
      BY <1>4, <3>1
    <3> QED
      BY <1>2, <3>2, <3>3
  <2>3. i <= Len(s) \/ i = Len(s) + 1
    BY <1>2
  <2> QED
    BY <2>1, <2>2, <2>3
<1>7. Reverse(t) = Reverse(s) \o <<x>>
  <2> HIDE DEF t
  <2> QED
    BY <1>4, <1>5, <1>6, SeqEqual
<1>8. Reverse(<<>>) = <<>>
  BY DEF Reverse
<1> QED
  BY <1>1, <1>7, <1>8

-----------------------------------------------------------------------------
(***************************************************************************)
(* What the refinement needs beyond IndInv: the links make no cycle, and a *)
(* free lock has no batch of waiters left.                                 *)
(***************************************************************************)
NoCycle == \A T \in SUBSET Waiting : T # {} => \E w \in T : \A d \in T : Link(d) # w

FreeIsEmpty == Owners = {} => to_resume = Null

OrderInv == IndInv /\ NoCycle /\ FreeIsEmpty

\* Links that disappear make no cycle.
LEMMA NoCycleFrame ==
  ASSUME NoCycle, Waiting' \subseteq Waiting,
         \A d \in Coros : d \in Waiting' => Link(d)' \in {Link(d), Null}
  PROVE  NoCycle'
<1> SUFFICES ASSUME NEW T \in SUBSET Waiting', T # {}
             PROVE  \E w \in T : \A d \in T : Link(d)' # w
  BY DEF NoCycle
<1>1. T \in SUBSET Waiting /\ T \subseteq Coros
  BY DEF Waiting
<1>2. PICK w \in T : \A d \in T : Link(d) # w
  BY <1>1 DEF NoCycle
<1>3. w # Null
  BY <1>1
<1> QED
  BY <1>1, <1>2, <1>3

\* Every step preserves the two.
LEMMA OrderInvStep ==
  ASSUME OrderInv, [Next]_vars
  PROVE  OrderInv'
<1> USE DEF OrderInv
<1>0. IndInv'
  BY IndInvStep
<1>1. ASSUME NEW c \in Coros,
             TryLock(c) \/ Lock(c) \/ RegisterAcquire(c) \/ Resume(c) \/ Unlock(c) \/ UnlockCas(c)
             \/ UnlockExchange(c)
      PROVE  NoCycle' /\ FreeIsEmpty'
  <2>1. Waiting' = Waiting /\ \A d \in Coros : Link(d)' = Link(d)
    BY <1>1 DEF TryLock, Lock, RegisterAcquire, Resume, Unlock, UnlockCas, UnlockExchange, Waiting,
                Link, Popped, IndInv, TypeOK
  <2>2. FreeIsEmpty'
    BY <1>1 DEF TryLock, Lock, RegisterAcquire, Resume, Unlock, UnlockCas, UnlockExchange, FreeIsEmpty,
                Owners, IndInv, TypeOK, LocalsOK
  <2> QED
    BY <2>1, <2>2, NoCycleFrame
<1>2. ASSUME NEW c \in Coros, RegisterRetry(c) PROVE NoCycle' /\ FreeIsEmpty'
  <2>1. Waiting' = Waiting /\ \A d \in Coros : d \in Waiting => Link(d)' = Link(d)
    BY <1>2 DEF RegisterRetry, Waiting, Link, Popped, IndInv, TypeOK
  <2>2. FreeIsEmpty'
    BY <1>2 DEF RegisterRetry, FreeIsEmpty, Owners
  <2> QED
    BY <2>1, <2>2, NoCycleFrame
<1>3. ASSUME NEW c \in Coros, UnlockPop(c) PROVE NoCycle' /\ FreeIsEmpty'
  <2>1. Waiting' = Waiting /\ \A d \in Coros : Link(d)' \in {Link(d), Null}
    BY <1>3 DEF UnlockPop, Waiting, Link, Popped, IndInv, TypeOK
  <2>2. FreeIsEmpty'
    BY <1>3 DEF UnlockPop, FreeIsEmpty, Owners, IndInv, TypeOK
  <2> QED
    BY <2>1, <2>2, NoCycleFrame
<1>4. ASSUME NEW c \in Coros, UnlockSpawn(c) PROVE NoCycle' /\ FreeIsEmpty'
  <2>1. resume_head[c] \in Waiting /\ resume_head[c] \in Coros /\ resume_head[c] # c
    BY <1>4 DEF UnlockSpawn, IndInv, TypeOK, LocalsOK, WaiterLinkedOnce, OnlyWaitersLinked, Anchored,
                Waiting
  <2>2. Waiting' = Waiting \ {resume_head[c]}
    BY <1>4, <2>1 DEF UnlockSpawn, Waiting, IndInv, TypeOK
  <2>3. \A d \in Coros : pc[d] = "u_spawn" => d = c
    BY <1>4 DEF UnlockSpawn, IndInv, MutualExclusion, Owners
  <2>4. \A d \in Coros : d \in Waiting' => Link(d)' = Link(d)
    BY <1>4, <2>1, <2>2, <2>3 DEF UnlockSpawn, Link, Popped, IndInv, TypeOK
  <2>5. FreeIsEmpty'
    BY <1>4, <2>1 DEF UnlockSpawn, FreeIsEmpty, Owners, IndInv, TypeOK
  <2> QED
    BY <2>2, <2>4, <2>5, NoCycleFrame
<1>5. ASSUME NEW c \in Coros, RegisterPush(c) PROVE NoCycle' /\ FreeIsEmpty'
  <2>1. Waiting' = Waiting \cup {c} /\ c \notin Waiting
    BY <1>5 DEF RegisterPush, Waiting, IndInv, TypeOK
  <2>2. \A d \in Coros : Link(d)' = IF d = c THEN awaiting ELSE Link(d)
    BY <1>5 DEF RegisterPush, Link, Popped, IndInv, TypeOK, WaiterLinkedOnce, OnlyWaitersLinked,
                Anchored, Waiting
  <2>3. awaiting # c /\ \A d \in Waiting : Link(d) # c
    BY <2>1 DEF IndInv, WaiterLinkedOnce, OnlyWaitersLinked, Anchored
  <2>4. FreeIsEmpty'
    BY <1>5 DEF RegisterPush, FreeIsEmpty, Owners
  <2>5. NoCycle'
    <3> SUFFICES ASSUME NEW T \in SUBSET Waiting', T # {}
                 PROVE  \E w \in T : \A d \in T : Link(d)' # w
      BY DEF NoCycle
    <3>1. T \subseteq Coros /\ \A d \in T : d # c => d \in Waiting
      BY <2>1 DEF Waiting
    <3>2. CASE c \in T
      BY <3>1, <3>2, <2>2, <2>3
    <3>3. CASE c \notin T
      <4>1. T \in SUBSET Waiting
        BY <3>1, <3>3
      <4> QED
        BY <3>1, <3>3, <4>1, <2>2 DEF NoCycle
    <3> QED
      BY <3>2, <3>3
  <2> QED
    BY <2>4, <2>5
<1>6. ASSUME NEW c \in Coros, UnlockReverse(c) PROVE NoCycle' /\ FreeIsEmpty'
  <2> DEFINE n == node[c]
  <2>1. n \in Coros /\ n \in Waiting /\ n # resume_head[c] /\ \A d \in Waiting : Link(d) # n
    BY <1>6 DEF UnlockReverse, IndInv, TypeOK, LocalsOK, WaiterLinkedOnce, OnlyWaitersLinked, Anchored,
                LinksDisjoint
  <2>2. \A d \in Coros : pc[d] # "u_spawn" /\ pc'[d] # "u_spawn"
    BY <1>6 DEF UnlockReverse, IndInv, TypeOK, MutualExclusion, Owners
  <2>3. Waiting' = Waiting
    BY <1>6 DEF UnlockReverse, Waiting, IndInv, TypeOK
  <2>4. \A d \in Coros : Link(d)' = IF d = n THEN resume_head[c] ELSE Link(d)
    BY <1>6, <2>2 DEF UnlockReverse, Link, Popped, IndInv, TypeOK
  <2>5. FreeIsEmpty'
    BY <1>6 DEF UnlockReverse, FreeIsEmpty, Owners, IndInv, TypeOK
  <2>6. NoCycle'
    <3> SUFFICES ASSUME NEW T \in SUBSET Waiting', T # {}
                 PROVE  \E w \in T : \A d \in T : Link(d)' # w
      BY DEF NoCycle
    <3>1. T \subseteq Coros /\ T \in SUBSET Waiting
      BY <2>3 DEF Waiting
    <3> HIDE DEF n
    <3>2. CASE n \in T
      BY <3>1, <3>2, <2>1, <2>4
    <3>3. CASE n \notin T
      BY <3>1, <3>3, <2>4 DEF NoCycle
    <3> QED
      BY <3>2, <3>3
  <2> QED
    BY <2>5, <2>6
<1>7. ASSUME UNCHANGED vars PROVE NoCycle' /\ FreeIsEmpty'
  <2>1. Waiting' = Waiting /\ \A d \in Coros : Link(d)' = Link(d)
    BY <1>7 DEF vars, Waiting, Link, Popped
  <2>2. FreeIsEmpty'
    BY <1>7 DEF vars, FreeIsEmpty, Owners
  <2> QED
    BY <2>1, <2>2, NoCycleFrame
<1> QED
  BY <1>0, <1>1, <1>2, <1>3, <1>4, <1>5, <1>6, <1>7 DEF Next, Step

\* They hold initially.
LEMMA OrderInvInit == Init => OrderInv
<1> SUFFICES ASSUME Init PROVE OrderInv
  OBVIOUS
<1>1. Waiting = {}
  BY DEF Init, Waiting
<1>2. NoCycle
  BY <1>1 DEF NoCycle
<1> QED
  BY <1>2, IndInvInit DEF OrderInv, FreeIsEmpty, Init
-----------------------------------------------------------------------------
(***************************************************************************)
(* The awaiters that are still on a list: all but the one being spawned.   *)
(***************************************************************************)
Live == {d \in Waiting : ~ Popped(d)}

\* Their links lead to one another and make no cycle.
LEMMA LiveOK ==
  ASSUME OrderInv
  PROVE  next \in [Coros -> Ptr] /\ Closed(next, Live) /\ Acyclic(next, Live)
<1> USE DEF OrderInv, IndInv
<1>1. next \in [Coros -> Ptr]
  BY DEF TypeOK
<1>2. \A q \in Live : q \in Waiting /\ Link(q) = next[q]
  BY DEF Live, Link
<1>3. ASSUME NEW q \in Live, next[q] # Null PROVE next[q] \in Live
  <2>1. next[q] \in Waiting /\ ~ Anchored(next[q])
    BY <1>2, <1>3 DEF WaiterLinkedOnce, OnlyWaitersLinked, LinksDisjoint
  <2>2. ~ Popped(next[q])
    BY <2>1 DEF Popped, Anchored
  <2> QED
    BY <2>1, <2>2 DEF Live
<1>4. Closed(next, Live)
  BY <1>3 DEF Closed, Live, Waiting
<1>5. Acyclic(next, Live)
  <2> SUFFICES ASSUME NEW T \in SUBSET Live, T # {}
               PROVE  \E q \in T : \A d \in T : next[d] # q
    BY DEF Acyclic
  <2>1. T \in SUBSET Waiting
    BY DEF Live
  <2> QED
    BY <1>2, <2>1 DEF NoCycle
<1> QED
  BY <1>1, <1>4, <1>5

\* What the mutex and the running unlock() hold leads to them.
LEMMA AnchorsLive ==
  ASSUME OrderInv
  PROVE  /\ Top \in Live \cup {Null}
         /\ \A c \in Owners :
              /\ pc[c] = "u_reverse" => node[c] \in Live /\ resume_head[c] \in Live \cup {Null}
              /\ pc[c] = "u_pop" => resume_head[c] \in Live
              /\ pc[c] = "u_spawn" => resume_head[c] \in Waiting \ Live
              /\ pc[c] # "u_pop" => to_resume \in Live \cup {Null}
         /\ Waiting \cap Owners = {}
<1> USE DEF OrderInv, IndInv
<1>1. Top \in Live \cup {Null}
  <2>1. Top # Null => Top = awaiting /\ awaiting \in Coros
    BY DEF Top, TypeOK
  <2>2. awaiting \in Coros => awaiting \in Waiting /\ ~ Popped(awaiting)
    BY DEF WaiterLinkedOnce, OnlyWaitersLinked, LinksDisjoint, Anchored, Popped
  <2> QED
    BY <2>1, <2>2 DEF Live
<1>2. ASSUME NEW c \in Owners
      PROVE  /\ pc[c] = "u_reverse" => node[c] \in Live /\ resume_head[c] \in Live \cup {Null}
             /\ pc[c] = "u_pop" => resume_head[c] \in Live
             /\ pc[c] = "u_spawn" => resume_head[c] \in Waiting \ Live
             /\ pc[c] # "u_pop" => to_resume \in Live \cup {Null}
  <2>1. c \in Coros /\ \A d \in Coros : pc[d] \in {"u_pop", "u_spawn"} => d = c
    BY DEF MutualExclusion, Owners
  <2>2. pc[c] # "u_spawn" => Live = Waiting
    BY <2>1 DEF Live, Popped, Waiting
  <2>3. resume_head[c] \in Coros => resume_head[c] \in Waiting
    BY <2>1 DEF WaiterLinkedOnce, OnlyWaitersLinked, Anchored
  <2>4. node[c] \in Coros => node[c] \in Waiting
    BY <2>1 DEF WaiterLinkedOnce, OnlyWaitersLinked, Anchored
  <2>5. resume_head[c] \in Ptr /\ node[c] \in Ptr /\ to_resume \in Ptr
    BY <2>1 DEF TypeOK
  <2>6. pc[c] \in {"u_pop", "u_spawn"} => resume_head[c] \in Coros
    BY <2>1, <2>5 DEF LocalsOK
  <2>7. pc[c] = "u_reverse" => node[c] \in Coros
    BY <2>1, <2>5 DEF LocalsOK
  <2>8. pc[c] = "u_spawn" => resume_head[c] \notin Live
    BY <2>1 DEF Live, Popped
  <2>9. ASSUME pc[c] # "u_pop", to_resume # Null PROVE to_resume \in Live
    <3>1. Listed = to_resume
      BY <2>1, <2>9 DEF Listed
    <3>2. to_resume \in Waiting
      BY <2>5, <2>9, <3>1 DEF WaiterLinkedOnce, OnlyWaitersLinked, Anchored
    <3>3. ~ Popped(to_resume)
      BY <2>9, <3>1 DEF WaiterLinkedOnce, LinksDisjoint, Popped
    <3> QED
      BY <3>2, <3>3 DEF Live
  <2> QED
    BY <2>2, <2>3, <2>4, <2>5, <2>6, <2>7, <2>8, <2>9
<1>3. Waiting \cap Owners = {}
  BY DEF Waiting, Owners
<1> QED
  BY <1>1, <1>2, <1>3

\* The walk along the links of a state: a sequence of live awaiters that
\* starts with the one it starts from.
LEMMA ChainOK ==
  ASSUME IsFiniteSet(Coros), OrderInv
  PROVE  /\ Chain(Null) = <<>>
         /\ \A p \in Live \cup {Null} : Chain(p) \in Seq(Waiting) /\ Reverse(Chain(p)) \in Seq(Waiting)
         /\ \A p \in Live : Chain(p) = <<p>> \o Chain(next[p])
<1>1. next \in [Coros -> Ptr] /\ Closed(next, Live) /\ Acyclic(next, Live)
  BY LiveOK
<1>2. Walk(next, Null) = <<>> /\ \A p \in Live : Walk(next, p) = <<p>> \o Walk(next, next[p])
  BY <1>1, WalkUnfold
<1>3. ASSUME NEW p \in Live \cup {Null} PROVE Chain(p) \in Seq(Waiting) /\ Reverse(Chain(p)) \in Seq(Waiting)
  <2>1. Walk(next, p) \in Seq(Live)
    BY <1>1, WalkFrame
  <2>2. Live \subseteq Waiting
    BY DEF Live
  <2>3. Chain(p) \in Seq(Waiting)
    BY <2>1, <2>2, SeqMonotonic DEF Chain
  <2>4. Reverse(Chain(p)) \in Seq(Waiting)
    BY <2>3 DEF Reverse
  <2> QED
    BY <2>3, <2>4
<1> QED
  BY <1>2, <1>3 DEF Chain

\* The queue of the abstract lock in a state of the mutex.
QueueShape ==
  /\ Owners = {} => Owner = Null /\ ArrivalOrder = <<>>
  /\ \A c \in Owners : Owner = c /\ ArrivalOrder = TakenBy(c) \o Reverse(Chain(Top))
  /\ Chain(Null) = <<>>
  /\ \A p \in Live \cup {Null} : Chain(p) \in Seq(Waiting) /\ Reverse(Chain(p)) \in Seq(Waiting)
  /\ \A p \in Live : Chain(p) = <<p>> \o Chain(next[p])

\* Every reachable state has that shape: one owner, or a free lock and nobody waiting.
LEMMA QueueShapeHolds == IsFiniteSet(Coros) /\ OrderInv => QueueShape
<1> SUFFICES ASSUME IsFiniteSet(Coros), OrderInv PROVE QueueShape
  OBVIOUS
<1>1. Reverse(<<>>) = <<>> /\ <<>> \o <<>> = <<>>
  BY DEF Reverse
<1>2. Owners = {} => Owner = Null /\ ArrivalOrder = <<>>
  <2> SUFFICES ASSUME Owners = {} PROVE Owner = Null /\ ArrivalOrder = <<>>
    OBVIOUS
  <2>1. Top = Null
    BY DEF Top, OrderInv, IndInv, MutualExclusion
  <2> QED
    BY <1>1, <2>1, ChainOK DEF Owner, ArrivalOrder
<1>3. ASSUME NEW c \in Owners PROVE Owner = c /\ ArrivalOrder = TakenBy(c) \o Reverse(Chain(Top))
  <2>1. Owner \in Owners
    BY DEF Owner
  <2>2. Owner = c
    BY <2>1 DEF OrderInv, IndInv, MutualExclusion
  <2> QED
    BY <2>2 DEF ArrivalOrder
<1> QED
  BY <1>2, <1>3, ChainOK DEF QueueShape

\* Links that change only outside the live awaiters change no walk.
LEMMA ChainFrame ==
  ASSUME IsFiniteSet(Coros), OrderInv, next' \in [Coros -> Ptr], \A d \in Live : next'[d] = next[d]
  PROVE  \A p \in Live \cup {Null} : Walk(next', p) = Walk(next, p)
<1>1. next \in [Coros -> Ptr] /\ Closed(next, Live)
  BY LiveOK
<1> QED
  BY <1>1, WalkFrame

\* The owner's part of the queue is a sequence of suspended awaiters.
LEMMA TakenOK ==
  ASSUME IsFiniteSet(Coros), OrderInv, NEW o \in Owners
  PROVE  TakenBy(o) \in Seq(Waiting)
<1>1. QueueShape
  BY QueueShapeHolds
<1>2. CASE pc[o] = "u_reverse"
  <2>1. node[o] \in Live /\ resume_head[o] \in Live \cup {Null}
    BY <1>2, AnchorsLive
  <2>2. Reverse(Chain(node[o])) \in Seq(Waiting) /\ Chain(resume_head[o]) \in Seq(Waiting)
    BY <1>1, <2>1 DEF QueueShape
  <2>3. Reverse(Chain(node[o])) \o Chain(resume_head[o]) \in Seq(Waiting)
    BY <2>2, ConcatProperties
  <2> QED
    BY <1>2, <2>3 DEF TakenBy
<1>3. CASE pc[o] = "u_pop"
  <2>1. Chain(resume_head[o]) \in Seq(Waiting)
    BY <1>1, <1>3, AnchorsLive DEF QueueShape
  <2> QED
    BY <1>3, <2>1 DEF TakenBy
<1>4. CASE pc[o] = "u_spawn"
  <2>1. resume_head[o] \in Waiting /\ to_resume \in Live \cup {Null}
    BY <1>4, AnchorsLive
  <2>2. <<resume_head[o]>> \in Seq(Waiting) /\ Chain(to_resume) \in Seq(Waiting)
    BY <1>1, <2>1 DEF QueueShape
  <2>3. <<resume_head[o]>> \o Chain(to_resume) \in Seq(Waiting)
    BY <2>2, ConcatProperties
  <2> QED
    BY <1>4, <2>3 DEF TakenBy
<1>5. CASE pc[o] \notin {"u_reverse", "u_pop", "u_spawn"}
  <2>1. to_resume \in Live \cup {Null}
    BY <1>5, AnchorsLive
  <2>2. Chain(to_resume) \in Seq(Waiting)
    BY <1>1, <2>1 DEF QueueShape
  <2> QED
    BY <1>5, <2>2 DEF TakenBy
<1> QED
  BY <1>2, <1>3, <1>4, <1>5

\* It stays the same when the owner's locals do and no live awaiter's link changes.
LEMMA TakenFrame ==
  ASSUME IsFiniteSet(Coros), OrderInv, next' \in [Coros -> Ptr], \A d \in Live : next'[d] = next[d],
         NEW o \in Owners, pc'[o] = pc[o], to_resume' = to_resume,
         resume_head'[o] = resume_head[o], node'[o] = node[o]
  PROVE  TakenBy(o)' = TakenBy(o)
<1>1. \A p \in Live \cup {Null} : Walk(next', p) = Walk(next, p)
  BY ChainFrame
<1>2. CASE pc[o] = "u_reverse"
  <2>1. node[o] \in Live /\ resume_head[o] \in Live \cup {Null}
    BY <1>2, AnchorsLive
  <2> QED
    BY <1>1, <1>2, <2>1 DEF TakenBy, Chain
<1>3. CASE pc[o] = "u_pop"
  <2>1. resume_head[o] \in Live
    BY <1>3, AnchorsLive
  <2> QED
    BY <1>1, <1>3, <2>1 DEF TakenBy, Chain
<1>4. CASE pc[o] \notin {"u_reverse", "u_pop"}
  <2>1. to_resume \in Live \cup {Null}
    BY <1>4, AnchorsLive
  <2> QED
    BY <1>1, <1>4, <2>1 DEF TakenBy, Chain
<1> QED
  BY <1>2, <1>3, <1>4

\* Steps that the abstract lock does not see.
LEMMA SameQueue ==
  ASSUME IsFiniteSet(Coros), OrderInv, OrderInv', Owners' = Owners,
         \A o \in Owners : TakenBy(o)' \o Reverse(Chain(Top))' = TakenBy(o) \o Reverse(Chain(Top))
  PROVE  UNCHANGED <<Owner, ArrivalOrder>>
<1>1. QueueShape /\ QueueShape'
  BY QueueShapeHolds, PTL
<1>2. CASE Owners = {}
  BY <1>1, <1>2 DEF QueueShape
<1>3. ASSUME NEW o \in Owners PROVE UNCHANGED <<Owner, ArrivalOrder>>
  <2>1. Owner = o /\ ArrivalOrder = TakenBy(o) \o Reverse(Chain(Top))
    BY <1>1 DEF QueueShape
  <2>2. Owner' = o /\ ArrivalOrder' = TakenBy(o)' \o Reverse(Chain(Top))'
    BY <1>1 DEF QueueShape
  <2> QED
    BY <2>1, <2>2
<1> QED
  BY <1>2, <1>3

-----------------------------------------------------------------------------
(***************************************************************************)
(* Every step of the mutex is a step of the abstract lock or none of it.   *)
(***************************************************************************)

\* try_lock() and register_awaiting take a free lock: nobody waits then.
LEMMA AcquireRefines ==
  ASSUME IsFiniteSet(Coros), OrderInv, OrderInv', NEW c \in Coros, TryLock(c) \/ RegisterAcquire(c)
  PROVE  Fifo!Acquire(c)
<1> USE DEF TryLock, RegisterAcquire
<1>1. QueueShape /\ QueueShape'
  BY QueueShapeHolds, PTL
<1>2. Owners = {} /\ to_resume = Null
  BY DEF OrderInv, IndInv, MutualExclusion, FreeIsEmpty
<1>3. Owner = Null /\ ArrivalOrder = <<>>
  BY <1>1, <1>2 DEF QueueShape
<1>4. c \in Owners' /\ pc'[c] = "critical" /\ to_resume' = Null /\ Top' = Null
  BY <1>2 DEF OrderInv, IndInv, TypeOK, Owners, Top
<1>5. Owner' = c /\ ArrivalOrder' = TakenBy(c)' \o Reverse(Chain(Top))'
  BY <1>1, <1>4 DEF QueueShape
<1>6. Walk(next', Null) = <<>>
  BY <1>1 DEF QueueShape, Chain
<1>7. TakenBy(c)' = <<>>
  BY <1>4, <1>6 DEF TakenBy, Chain
<1>8. Reverse(Chain(Top))' = <<>>
  <2>1. Reverse(Chain(Top))' = Reverse(<<>>)
    BY <1>4, <1>6 DEF Chain
  <2> QED
    BY <2>1 DEF Reverse
<1>9. ArrivalOrder' = <<>>
  BY <1>5, <1>7, <1>8
<1> QED
  BY <1>3, <1>5, <1>9 DEF Fifo!Acquire

\* Entering lock() and a failed CAS of register_awaiting are invisible.
LEMMA QuietRefines ==
  ASSUME IsFiniteSet(Coros), OrderInv, OrderInv', NEW c \in Coros,
         Lock(c) \/ RegisterRetry(c)
  PROVE  UNCHANGED <<Owner, ArrivalOrder>>
<1> USE DEF Lock, RegisterRetry
<1>1. Owners' = Owners /\ Top' = Top /\ Top \in Live \cup {Null}
  BY AnchorsLive DEF Owners, Top, OrderInv, IndInv, TypeOK
<1>2. next' \in [Coros -> Ptr] /\ \A d \in Live : next'[d] = next[d]
  BY DEF OrderInv, IndInv, TypeOK, Live, Waiting
<1>3. ASSUME NEW o \in Owners PROVE TakenBy(o)' = TakenBy(o)
  <2>1. /\ pc'[o] = pc[o] /\ to_resume' = to_resume
        /\ resume_head'[o] = resume_head[o] /\ node'[o] = node[o]
    BY DEF Owners, OrderInv, IndInv, TypeOK
  <2> QED
    BY <1>2, <2>1, TakenFrame
<1>4. Reverse(Chain(Top))' = Reverse(Chain(Top))
  BY <1>1, <1>2, ChainFrame DEF Chain
<1> QED
  BY <1>1, <1>3, <1>4, SameQueue

\* Running after a hand-over, entering unlock() and finding the stack changed
\* are invisible too.
LEMMA ResumeRefines ==
  ASSUME IsFiniteSet(Coros), OrderInv, OrderInv', NEW c \in Coros,
         Resume(c) \/ Unlock(c) \/ (UnlockCas(c) /\ awaiting # Null)
  PROVE  UNCHANGED <<Owner, ArrivalOrder>>
<1> USE DEF Resume, Unlock, UnlockCas
<1>1. Owners' = Owners /\ awaiting' = awaiting /\ next' = next /\ to_resume' = to_resume
  BY DEF Owners, OrderInv, IndInv, TypeOK
<1>2. \A o \in Owners : o = c
  BY DEF OrderInv, IndInv, MutualExclusion, Owners
<1>3. /\ pc[c] \in {"granted", "critical", "u_cas"}
      /\ \/ pc'[c] \in {"critical", "u_cas", "u_exchange"}
         \/ pc'[c] = "u_pop" /\ resume_head'[c] = to_resume
  BY DEF OrderInv, IndInv, TypeOK
<1>4. TakenBy(c)' = TakenBy(c)
  BY <1>1, <1>3 DEF TakenBy, Chain
<1>5. Reverse(Chain(Top))' = Reverse(Chain(Top))
  BY <1>1 DEF Chain, Top
<1> QED
  BY <1>1, <1>2, <1>4, <1>5, SameQueue

\* The CAS that pushes an awaiter is the moment it joins the queue.
LEMMA PushRefines ==
  ASSUME IsFiniteSet(Coros), OrderInv, OrderInv', NEW c \in Coros, RegisterPush(c)
  PROVE  Fifo!Enqueue(c)
<1> USE DEF RegisterPush
<1>1. QueueShape /\ QueueShape'
  BY QueueShapeHolds, PTL
<1>2. Owners' = Owners /\ c \notin Owners /\ c \notin Waiting /\ c \in Waiting'
  BY DEF Owners, Waiting, OrderInv, IndInv, TypeOK
<1>3. PICK o : o \in Owners
  BY DEF OrderInv, IndInv, MutualExclusion
<1>4. o \in Coros /\ o # c
  BY <1>2, <1>3 DEF Owners
<1>5. c \in Live' /\ next'[c] = awaiting /\ Top' = c /\ Top = awaiting
  <2>1. Top' = c
    BY DEF Top
  <2>2. c \in Live'
    <3>1. \A d \in Coros : resume_head[d] # c
      BY <1>2 DEF OrderInv, IndInv, WaiterLinkedOnce, OnlyWaitersLinked, Anchored
    <3> QED
      BY <1>2, <3>1 DEF Live, Popped
  <2>3. next'[c] = awaiting /\ Top = awaiting
    BY DEF Top, OrderInv, IndInv, TypeOK
  <2> QED
    BY <2>1, <2>2, <2>3
<1>6. next' \in [Coros -> Ptr] /\ \A d \in Live : next'[d] = next[d]
  BY <1>2 DEF OrderInv, IndInv, TypeOK, Live, Waiting
<1>7. TakenBy(o)' = TakenBy(o)
  <2>1. /\ pc'[o] = pc[o] /\ to_resume' = to_resume
        /\ resume_head'[o] = resume_head[o] /\ node'[o] = node[o]
    BY <1>4 DEF OrderInv, IndInv, TypeOK
  <2> QED
    BY <1>3, <1>6, <2>1, TakenFrame
<1>8. Top \in Live \cup {Null} /\ Chain(Top) \in Seq(Waiting) /\ Reverse(Chain(Top)) \in Seq(Waiting)
  BY <1>1, AnchorsLive DEF QueueShape
<1>9. Reverse(Chain(Top))' = Reverse(Chain(Top)) \o <<c>>
  <2>1. Walk(next', c) = <<c>> \o Walk(next', next'[c])
    BY <1>1, <1>5 DEF QueueShape, Chain
  <2>2. Walk(next', next'[c]) = Chain(Top)
    BY <1>5, <1>6, <1>8, ChainFrame DEF Chain
  <2>3. Reverse(Chain(Top))' = Reverse(<<c>> \o Chain(Top))
    BY <1>5, <2>1, <2>2 DEF Chain
  <2>4. Chain(Top) \in Seq(Coros)
    BY <1>8, SeqMonotonic DEF Waiting
  <2> QED
    BY <2>3, <2>4, ReversePush
<1>10. ArrivalOrder = TakenBy(o) \o Reverse(Chain(Top)) /\ Owner = o
  BY <1>1, <1>3 DEF QueueShape
<1>11. ArrivalOrder' = TakenBy(o) \o (Reverse(Chain(Top)) \o <<c>>) /\ Owner' = o
  BY <1>1, <1>2, <1>3, <1>7, <1>9 DEF QueueShape
<1>12. TakenBy(o) \in Seq(Waiting)
  BY <1>3, TakenOK
<1>13. ArrivalOrder \in Seq(Waiting)
  BY <1>8, <1>10, <1>12, ConcatProperties
<1>14. \A i \in DOMAIN ArrivalOrder : ArrivalOrder[i] # c
  BY <1>2, <1>13
<1>15. ArrivalOrder' = Append(ArrivalOrder, c)
  <2> DEFINE t == TakenBy(o)
             r == Reverse(Chain(Top))
  <2>1. t \in Seq(Coros) /\ r \in Seq(Coros) /\ <<c>> \in Seq(Coros)
    BY <1>8, <1>12, SeqMonotonic DEF Waiting
  <2> HIDE DEF t, r
  <2>2. t \o (r \o <<c>>) = (t \o r) \o <<c>>
    BY <2>1, ConcatAssociative
  <2>3. t \o r \in Seq(Coros)
    BY <2>1, ConcatProperties
  <2>4. Append(t \o r, c) = (t \o r) \o <<c>>
    BY <2>3, AppendIsConcat
  <2> QED
    BY <1>10, <1>11, <2>2, <2>4 DEF t, r
<1> QED
  BY <1>4, <1>10, <1>11, <1>14, <1>15 DEF Fifo!Enqueue

\* The CAS of unlock() that succeeds gives up a lock nobody waits for.
LEMMA ReleaseRefines ==
  ASSUME IsFiniteSet(Coros), OrderInv, OrderInv', NEW c \in Coros, UnlockCas(c), awaiting = Null
  PROVE  Fifo!Release
<1> USE DEF UnlockCas
<1>1. QueueShape /\ QueueShape'
  BY QueueShapeHolds, PTL
<1>2. c \in Owners /\ pc[c] = "u_cas" /\ to_resume = Null /\ Top = Null
  BY DEF Owners, Top, OrderInv, IndInv, LocalsOK
<1>3. Owner = c /\ ArrivalOrder = TakenBy(c) \o Reverse(Chain(Null)) /\ Chain(Null) = <<>>
  BY <1>1, <1>2 DEF QueueShape
<1>4. TakenBy(c) = <<>> /\ Reverse(<<>>) = <<>>
  BY <1>2, <1>3 DEF TakenBy, Reverse
<1>5. ArrivalOrder = <<>>
  BY <1>3, <1>4
<1>6. Owners' = {}
  BY <1>2 DEF Owners, OrderInv, IndInv, TypeOK, MutualExclusion
<1>7. Owner' = Null /\ ArrivalOrder' = <<>>
  BY <1>1, <1>6 DEF QueueShape
<1> QED
  BY <1>3, <1>5, <1>7 DEF Fifo!Release

\* Taking the whole stack moves it from the word to the running unlock().
LEMMA ExchangeRefines ==
  ASSUME IsFiniteSet(Coros), OrderInv, OrderInv', NEW c \in Coros, UnlockExchange(c)
  PROVE  UNCHANGED <<Owner, ArrivalOrder>>
<1> USE DEF UnlockExchange
<1>1. QueueShape
  BY QueueShapeHolds
<1>2. Owners' = Owners /\ \A o \in Owners : o = c
  BY DEF Owners, OrderInv, IndInv, TypeOK, MutualExclusion
<1>3. /\ pc[c] = "u_exchange" /\ pc'[c] = "u_reverse" /\ to_resume = Null /\ resume_head'[c] = Null
      /\ node'[c] = awaiting /\ next' = next /\ Top' = Null /\ Top = awaiting
  BY DEF OrderInv, IndInv, TypeOK, LocalsOK, Top
<1>4. Chain(Null) = <<>> /\ Reverse(Chain(awaiting)) \in Seq(Waiting) /\ Reverse(<<>>) = <<>>
  BY <1>1, <1>3, AnchorsLive DEF QueueShape, Reverse
<1>5. TakenBy(c) = <<>>
  BY <1>3, <1>4 DEF TakenBy
<1>6. TakenBy(c)' = Reverse(Chain(awaiting)) \o <<>>
  BY <1>3, <1>4 DEF TakenBy, Chain
<1>7. Reverse(Chain(Top))' = <<>>
  BY <1>3, <1>4 DEF Chain
<1>8. (Reverse(Chain(awaiting)) \o <<>>) \o <<>> = <<>> \o Reverse(Chain(awaiting))
  BY <1>4, ConcatEmptySeq
<1>9. TakenBy(c)' \o Reverse(Chain(Top))' = TakenBy(c) \o Reverse(Chain(Top))
  BY <1>3, <1>5, <1>6, <1>7, <1>8
<1> QED
  BY <1>2, <1>9, SameQueue

\* One round of the reversal turns the first of a stack into the first of a
\* list; read in arrival order it changes nothing.
LEMMA ReverseRefines ==
  ASSUME IsFiniteSet(Coros), OrderInv, OrderInv', NEW c \in Coros, UnlockReverse(c)
  PROVE  UNCHANGED <<Owner, ArrivalOrder>>
<1> DEFINE n == node[c]
           m == next[n]
           r == resume_head[c]
<1>1. QueueShape /\ QueueShape'
  BY QueueShapeHolds, PTL
<1>2. Owners' = Owners /\ c \in Owners /\ \A o \in Owners : o = c
  BY DEF UnlockReverse, Owners, OrderInv, IndInv, TypeOK, MutualExclusion
<1>3. n \in Live /\ r \in Live \cup {Null} /\ Top \in Live \cup {Null} /\ n \in Coros /\ n # Null
  BY <1>2, AnchorsLive DEF UnlockReverse, Live, Waiting
<1>4. /\ next \in [Coros -> Ptr] /\ next' \in [Coros -> Ptr] /\ Closed(next, Live)
      /\ next'[n] = r /\ \A d \in Coros : d # n => next'[d] = next[d]
  BY <1>3, LiveOK DEF UnlockReverse, OrderInv, IndInv, TypeOK
<1>5. /\ pc[c] = "u_reverse" /\ node'[c] = m /\ resume_head'[c] = n /\ Top' = Top
      /\ pc'[c] = IF m = Null THEN "u_pop" ELSE "u_reverse"
  BY <1>2 DEF UnlockReverse, OrderInv, IndInv, TypeOK, Owners, Top
<1>6. \A d \in Live : next[d] # n
  <2>1. Anchored(n) /\ \A d \in Live : d \in Waiting /\ Link(d) = next[d]
    BY DEF Anchored, Live, Link
  <2> QED
    BY <1>3, <2>1 DEF OrderInv, IndInv, WaiterLinkedOnce, LinksDisjoint
<1>7. r # n /\ Top # n
  BY <1>3 DEF OrderInv, IndInv, WaiterLinkedOnce, LinksDisjoint, Top
<1> DEFINE W == Live \ {n}
<1>8. Closed(next, W) /\ \A d \in W : next'[d] = next[d]
  BY <1>4, <1>6 DEF Closed
<1>9. m \in W \cup {Null} /\ r \in W \cup {Null} /\ Top \in W \cup {Null}
  BY <1>3, <1>4, <1>6, <1>7 DEF Closed
<1>10. n \in Live'
  <2>1. n \in Waiting'
    BY <1>3 DEF UnlockReverse, Live, Waiting, OrderInv, IndInv, TypeOK
  <2>2. \A d \in Coros : pc'[d] # "u_spawn"
    BY <1>2, <1>5 DEF Owners
  <2> QED
    BY <2>1, <2>2 DEF Live, Popped
<1> HIDE DEF n, m, r, W
<1>11. /\ Walk(next', m) = Chain(m) /\ Walk(next', r) = Chain(r) /\ Walk(next', Top) = Chain(Top)
       /\ Chain(m) \in Seq(W) /\ Chain(r) \in Seq(W) /\ Chain(Top) \in Seq(W)
  <2>1. ASSUME NEW p \in W \cup {Null} PROVE Walk(next', p) = Walk(next, p) /\ Walk(next, p) \in Seq(W)
    BY <1>4, <1>8, WalkFrame
  <2> QED
    BY <1>9, <2>1 DEF Chain
<1>12. W \subseteq Coros
  BY <1>8 DEF Closed
<1>13. Chain(m) \in Seq(Coros) /\ Chain(r) \in Seq(Coros) /\ <<n>> \in Seq(Coros)
  BY <1>3, <1>11, <1>12, SeqMonotonic
<1>14. Reverse(Chain(n)) = Reverse(Chain(m)) \o <<n>> /\ Reverse(Chain(m)) \in Seq(Coros)
       /\ Reverse(<<>>) = <<>>
  <2>1. Chain(n) = <<n>> \o Chain(m)
    BY <1>1, <1>3 DEF QueueShape, m
  <2> QED
    BY <1>3, <1>13, <2>1, ReversePush
<1>15. Walk(next', n) = <<n>> \o Chain(r)
  <2>1. Walk(next', n) = <<n>> \o Walk(next', next'[n])
    BY <1>1, <1>10 DEF QueueShape, Chain
  <2> QED
    BY <1>4, <1>11, <2>1
<1>16. TakenBy(c) = Reverse(Chain(m)) \o (<<n>> \o Chain(r))
  <2>1. TakenBy(c) = Reverse(Chain(n)) \o Chain(r)
    BY <1>5 DEF TakenBy, n, r
  <2> QED
    BY <1>13, <1>14, <2>1, ConcatAssociative
<1>17. TakenBy(c)' = TakenBy(c)
  <2>1. CASE m = Null
    <3>1. TakenBy(c)' = <<n>> \o Chain(r)
      BY <1>5, <1>15, <2>1 DEF TakenBy, Chain
    <3>2. Reverse(Chain(m)) = <<>>
      BY <1>1, <1>14, <2>1 DEF QueueShape
    <3>3. <<n>> \o Chain(r) \in Seq(Coros)
      BY <1>13, ConcatProperties
    <3> QED
      BY <1>16, <3>1, <3>2, <3>3, ConcatEmptySeq
  <2>2. CASE m # Null
    <3>1. TakenBy(c)' = Reverse(Chain(m)) \o (<<n>> \o Chain(r))
      BY <1>5, <1>11, <1>15, <2>2 DEF TakenBy, Chain
    <3> QED
      BY <1>16, <3>1
  <2> QED
    BY <2>1, <2>2
<1>18. Reverse(Chain(Top))' = Reverse(Chain(Top))
  BY <1>5, <1>11 DEF Chain
<1> QED
  BY <1>2, <1>17, <1>18, SameQueue

\* to_resume = resume_head->next keeps the head apart from the rest.
LEMMA PopRefines ==
  ASSUME IsFiniteSet(Coros), OrderInv, OrderInv', NEW c \in Coros, UnlockPop(c)
  PROVE  UNCHANGED <<Owner, ArrivalOrder>>
<1> USE DEF UnlockPop
<1>1. QueueShape
  BY QueueShapeHolds
<1>2. Owners' = Owners /\ c \in Owners /\ \A o \in Owners : o = c
  BY DEF Owners, OrderInv, IndInv, TypeOK, MutualExclusion
<1>3. /\ pc[c] = "u_pop" /\ pc'[c] = "u_spawn" /\ to_resume' = next[resume_head[c]]
      /\ resume_head' = resume_head /\ next' = next /\ Top' = Top
  BY DEF OrderInv, IndInv, TypeOK, Top
<1>4. Chain(resume_head[c]) = <<resume_head[c]>> \o Chain(next[resume_head[c]])
  BY <1>1, <1>2, <1>3, AnchorsLive DEF QueueShape
<1>5. TakenBy(c) = Chain(resume_head[c])
  BY <1>3 DEF TakenBy
<1>6. TakenBy(c)' = <<resume_head[c]>> \o Chain(next[resume_head[c]])
  BY <1>3 DEF TakenBy, Chain
<1>7. Reverse(Chain(Top))' = Reverse(Chain(Top))
  BY <1>3 DEF Chain
<1> QED
  BY <1>2, <1>4, <1>5, <1>6, <1>7, SameQueue

\* co_spawn of the head hands the lock to who has waited longest.
LEMMA SpawnRefines ==
  ASSUME IsFiniteSet(Coros), OrderInv, OrderInv', NEW c \in Coros, UnlockSpawn(c)
  PROVE  Fifo!HandOver
<1>0. PICK h : h = resume_head[c]
  OBVIOUS
<1> DEFINE rest == Chain(to_resume)
           top == Reverse(Chain(Top))
<1>1. QueueShape /\ QueueShape'
  BY QueueShapeHolds, PTL
<1>2. c \in Owners /\ pc[c] = "u_spawn"
  BY DEF UnlockSpawn, Owners
<1>3. h \in Waiting /\ h \in Coros /\ to_resume \in Live \cup {Null} /\ Top \in Live \cup {Null}
  BY <1>0, <1>2, AnchorsLive DEF Waiting
<1>4. h # c /\ pc'[h] = "granted" /\ h \in Owners' /\ next' = next /\ Top' = Top /\ to_resume' = to_resume
  BY <1>0, <1>2, <1>3 DEF UnlockSpawn, Waiting, Owners, OrderInv, IndInv, TypeOK, Top
<1>5. Owner = c /\ ArrivalOrder = (<<h>> \o rest) \o top
  BY <1>0, <1>1, <1>2 DEF QueueShape, TakenBy
<1>6. Owner' = h /\ ArrivalOrder' = TakenBy(h)' \o Reverse(Chain(Top))'
  BY <1>1, <1>4 DEF QueueShape
<1>7. TakenBy(h)' = rest /\ Reverse(Chain(Top))' = top
  BY <1>4 DEF TakenBy, Chain
<1>8. <<h>> \in Seq(Waiting) /\ rest \in Seq(Waiting) /\ top \in Seq(Waiting)
  BY <1>1, <1>3 DEF QueueShape
<1> HIDE DEF rest, top
<1>9. ArrivalOrder = <<h>> \o (rest \o top) /\ rest \o top \in Seq(Waiting)
  BY <1>5, <1>8, ConcatAssociative, ConcatProperties
<1>10. ArrivalOrder # <<>> /\ Head(ArrivalOrder) = h /\ Tail(ArrivalOrder) = rest \o top
  <2> DEFINE s == rest \o top
  <2>1. s \in Seq(Waiting) /\ h \in Waiting
    BY <1>3, <1>9
  <2> HIDE DEF s
  <2>2. <<h>> \o s # <<>> /\ Head(<<h>> \o s) = h /\ Tail(<<h>> \o s) = s
    BY <2>1
  <2> QED
    BY <1>9, <2>2 DEF s
<1>11. Owner # Null
  BY <1>2, <1>5 DEF Owners
<1> QED
  BY <1>6, <1>7, <1>10, <1>11 DEF Fifo!HandOver

\* co_context::mutex implements the first-come first-served lock: the CAS that
\* pushes an awaiter puts it last, co_spawn in unlock() hands the lock to the
\* first, and lock(), try_lock() and unlock() never let anybody overtake.
THEOREM MutexImplementsFifoLock ==
  ASSUME IsFiniteSet(Coros)
  PROVE  Spec => ImplementsFifoLock
<1>1. Init => Fifo!Init
  <2> SUFFICES ASSUME Init PROVE Fifo!Init
    OBVIOUS
  <2>1. QueueShape
    BY OrderInvInit, QueueShapeHolds
  <2>2. Owners = {}
    BY DEF Init, Owners
  <2> QED
    BY <2>1, <2>2 DEF QueueShape, Fifo!Init
<1>2. OrderInv /\ OrderInv' /\ [Next]_vars => [Fifo!Next]_(Fifo!vars)
  <2> SUFFICES ASSUME OrderInv, OrderInv', [Next]_vars
               PROVE  Fifo!Next \/ UNCHANGED <<Owner, ArrivalOrder>>
    BY DEF Fifo!vars
  <2>1. ASSUME NEW c \in Coros, TryLock(c) \/ RegisterAcquire(c) PROVE Fifo!Next
    BY <2>1, AcquireRefines DEF Fifo!Next
  <2>2. ASSUME NEW c \in Coros, Lock(c) \/ RegisterRetry(c) PROVE UNCHANGED <<Owner, ArrivalOrder>>
    BY <2>2, QuietRefines
  <2>3. ASSUME NEW c \in Coros, RegisterPush(c) PROVE Fifo!Next
    BY <2>3, PushRefines DEF Fifo!Next
  <2>4. ASSUME NEW c \in Coros, Resume(c) \/ Unlock(c) \/ (UnlockCas(c) /\ awaiting # Null)
        PROVE  UNCHANGED <<Owner, ArrivalOrder>>
    BY <2>4, ResumeRefines
  <2>5. ASSUME NEW c \in Coros, UnlockCas(c), awaiting = Null PROVE Fifo!Next
    BY <2>5, ReleaseRefines DEF Fifo!Next
  <2>6. ASSUME NEW c \in Coros, UnlockExchange(c) PROVE UNCHANGED <<Owner, ArrivalOrder>>
    BY <2>6, ExchangeRefines
  <2>7. ASSUME NEW c \in Coros, UnlockReverse(c) PROVE UNCHANGED <<Owner, ArrivalOrder>>
    BY <2>7, ReverseRefines
  <2>8. ASSUME NEW c \in Coros, UnlockPop(c) PROVE UNCHANGED <<Owner, ArrivalOrder>>
    BY <2>8, PopRefines
  <2>9. ASSUME NEW c \in Coros, UnlockSpawn(c) PROVE Fifo!Next
    BY <2>9, SpawnRefines DEF Fifo!Next
  <2>10. ASSUME UNCHANGED vars PROVE UNCHANGED <<Owner, ArrivalOrder>>
    <3>1. next' = next /\ Owners' = Owners /\ Top' = Top
      BY <2>10 DEF vars, Owners, Top
    <3>2. ASSUME NEW o \in Owners PROVE TakenBy(o)' = TakenBy(o)
      BY <2>10 DEF vars, TakenBy, Chain
    <3>3. Reverse(Chain(Top))' = Reverse(Chain(Top))
      BY <3>1 DEF Chain
    <3> QED
      BY <3>1, <3>2, <3>3, SameQueue
  <2> QED
    BY <2>1, <2>2, <2>3, <2>4, <2>5, <2>6, <2>7, <2>8, <2>9, <2>10 DEF Next, Step
<1>3. Spec => []OrderInv
  BY OrderInvInit, OrderInvStep, PTL DEF Spec
<1> QED
  BY <1>1, <1>2, <1>3, PTL DEF Spec, ImplementsFifoLock, Fifo!Spec


=============================================================================
