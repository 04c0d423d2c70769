--------------------------- MODULE SharedTaskProofs ---------------------------
(***************************************************************************)
(* Proofs about shared_task for any set of awaiters on any contexts.       *)
(***************************************************************************)
EXTENDS SharedTask, FiniteSetTheorems, TLAPS

\* The coroutines that have a shared_task object.
Holders == {a \in Awaiters : pc[a] \notin {"none", "gone"}}

\* ref_count_ is exact; the frame is destroyed when nobody refers to it.
RefsOK ==
  /\ ref_count = Cardinality(Holders)
  /\ task.st = "destroyed" => Holders = {}

\* waiters_ says how far the coroutine is.
WordOK ==
  /\ waiters = NotStarted => task.st \in {"initial", "destroyed"}
  /\ waiters = Ready => task.st \in {"final", "destroyed"}
  /\ waiters \in Awaiters \cup {Null} => task.st \in {"running", "suspended"}
  /\ walk.st # "off" => waiters = Ready
  /\ walk.st = "off" => walk.cur = Null

\* What an awaiter has read or been told holds still.
LocalsOK ==
  /\ \A a \in Awaiters : old[a] = Ready => waiters = Ready
  /\ \A a \in Awaiters : pc[a] = "enqueue" => old[a] # NotStarted
  /\ \A a \in Awaiters : pc[a] \in {"granted"} \cup Past => waiters = Ready
  /\ \A a \in Awaiters : pc[a] = "body" => task.by = a
  /\ \A a \in Awaiters : pc[a] \in {"body", "reload", "enqueue", "suspended"} => waiters # NotStarted

\* The awaiter that started the coroutine keeps its shared_task until the final
\* suspend is over: it is on the stack below the coroutine, or it waits.
StarterHolds ==
  /\ task.st \in {"running", "suspended"} \/ walk.st # "off" => task.by \in Awaiters
  /\ task.st = "running" => pc[task.by] \in {"body", "suspended"}
  /\ task.st = "suspended" => pc[task.by] \in {"reload", "enqueue", "suspended"}
  /\ walk.st # "off" => pc[task.by] \in {"body", "suspended", "granted"}

Suspended(a) == a \in Awaiters /\ pc[a] = "suspended"

\* The list: its head and every link lead to suspended awaiters ...
LinksOK ==
  /\ waiters \in Awaiters => Suspended(waiters)
  /\ \A a \in Awaiters : Suspended(a) /\ next[a] # Null => Suspended(next[a])
  /\ walk.st = "spawn" /\ walk.cur # Null => Suspended(walk.cur)
  /\ walk.st = "next" => /\ walk.cur # Null
                         /\ pc[walk.cur] \in {"granted", "gone"} \cup Past
                         /\ next[walk.cur] # Null => Suspended(next[walk.cur])

\* ... none of them twice, and it has no cycle.
LinksDiffer ==
  /\ \A a, b \in Awaiters :
       Suspended(a) /\ Suspended(b) /\ next[a] = next[b] /\ next[a] # Null => a = b
  /\ \A a \in Awaiters : Suspended(a) /\ next[a] # Null =>
       /\ next[a] # waiters
       /\ walk.st = "spawn" => next[a] # walk.cur
       /\ walk.st = "next" => next[a] # next[walk.cur]

NoCycle ==
  \A T \in SUBSET Awaiters :
    T # {} /\ (\A a \in T : Suspended(a)) => \E a \in T : \A b \in T : next[b] # a

\* If the memory of an awaiter is used again, everything is on one context.
Careful == setup.reuse => \A a, b \in Awaiters : setup.home[a] = setup.home[b]

\* A suspended awaiter can be reached: it is the head of the list, the waiter at
\* hand or its successor, or the successor of a suspended awaiter.
Reached ==
  Careful => \A a \in Awaiters : Suspended(a) =>
    \/ waiters = a
    \/ walk.st = "spawn" /\ walk.cur = a
    \/ walk.st = "next" /\ next[walk.cur] = a
    \/ \E b \in Awaiters : Suspended(b) /\ next[b] = a

IndInv == TypeOK /\ RefsOK /\ WordOK /\ LocalsOK /\ StarterHolds /\ LinksOK /\ LinksDiffer
          /\ NoCycle /\ Reached

USE SharedAssumption DEF Word, Inside, Past, Goto

-----------------------------------------------------------------------------
\* The three special values of waiters_ differ.
LEMMA Distinct == Null # NotStarted /\ Null # Ready /\ NotStarted # Ready
<1>1. \A x, y : IsFiniteSet({x, y}) /\ Cardinality({x, y}) <= 2
  <2> SUFFICES ASSUME NEW x, NEW y PROVE IsFiniteSet({x, y}) /\ Cardinality({x, y}) <= 2
    OBVIOUS
  <2>1. IsFiniteSet({x}) /\ Cardinality({x}) = 1
    BY FS_Singleton
  <2>2. {x, y} = {x} \cup {y}
    OBVIOUS
  <2> QED
    BY <2>1, <2>2, FS_AddElement
<1>2. ~ (Cardinality({Null, NotStarted, Ready}) <= 2)
  OBVIOUS
<1>3. Null # NotStarted
  <2>1. Null = NotStarted => {Null, NotStarted, Ready} = {Null, Ready}
    OBVIOUS
  <2> QED
    BY <1>1, <1>2, <2>1
<1>4. Null # Ready
  <2>1. Null = Ready => {Null, NotStarted, Ready} = {Null, NotStarted}
    OBVIOUS
  <2> QED
    BY <1>1, <1>2, <2>1
<1>5. NotStarted # Ready
  <2>1. NotStarted = Ready => {Null, NotStarted, Ready} = {Null, Ready}
    OBVIOUS
  <2> QED
    BY <1>1, <1>2, <2>1
<1> QED
  BY <1>3, <1>4, <1>5

\* A set of references has a size, within the number of awaiters.
LEMMA HoldersFinite ==
  /\ IsFiniteSet(Holders) /\ Cardinality(Holders) \in 0..Cardinality(Awaiters)
  /\ IsFiniteSet(Holders') /\ Cardinality(Holders') \in 0..Cardinality(Awaiters)
<1>1. Holders \in SUBSET Awaiters /\ Holders' \in SUBSET Awaiters
  BY DEF Holders
<1>2. Cardinality(Awaiters) \in Nat
  BY FS_CardinalityType
<1>3. ASSUME NEW S \in SUBSET Awaiters
      PROVE  IsFiniteSet(S) /\ Cardinality(S) \in 0..Cardinality(Awaiters)
  <2>1. IsFiniteSet(S) /\ Cardinality(S) <= Cardinality(Awaiters)
    BY FS_Subset
  <2>2. Cardinality(S) \in Nat
    BY <2>1, FS_CardinalityType
  <2> QED
    BY <1>2, <2>1, <2>2
<1> QED
  BY <1>1, <1>3

\* A step that suspends and wakes nobody and leaves the list and the walk alone
\* (m_next of an awaiter that is not in it does not matter) keeps what is said of
\* the list.
LEMMA ListFrame ==
  ASSUME IndInv, UNCHANGED <<waiters, walk, setup>>,
         \A a \in Awaiters : next'[a] # next[a] => pc[a] = "enqueue",
         \A a \in Awaiters : pc'[a] = "suspended" <=> pc[a] = "suspended",
         walk.st = "next" => pc'[walk.cur] \in {"granted", "gone"} \cup Past
  PROVE  LinksOK' /\ LinksDiffer' /\ NoCycle' /\ Reached'
<1> USE DEF IndInv, Suspended
<1>1. LinksOK'
  BY DEF TypeOK, LinksOK
<1>2. LinksDiffer'
  BY DEF TypeOK, LinksOK, LinksDiffer
<1>3. NoCycle'
  BY DEF TypeOK, LinksOK, NoCycle
<1>4. Reached'
  BY DEF TypeOK, LinksOK, Reached, Careful
<1> QED
  BY <1>1, <1>2, <1>3, <1>4

\* Every initial state satisfies the inductive invariant.
LEMMA IndInvInit == Init => IndInv
<1> SUFFICES ASSUME Init PROVE IndInv
  OBVIOUS
<1> USE Distinct DEF Init
<1>1. RefsOK
  <2>1. Holders = {Creator}
    BY DEF Holders
  <2> QED
    BY <2>1, FS_Singleton DEF RefsOK
<1>2. TypeOK
  BY <1>1, HoldersFinite DEF TypeOK, RefsOK
<1>3. WordOK /\ LocalsOK /\ StarterHolds
  BY DEF WordOK, LocalsOK, StarterHolds
<1>4. LinksOK /\ LinksDiffer /\ NoCycle /\ Reached
  BY DEF LinksOK, LinksDiffer, NoCycle, Reached, Suspended
<1> QED
  BY <1>1, <1>2, <1>3, <1>4 DEF IndInv

-----------------------------------------------------------------------------
\* Every access to the promise, by an awaiter or by the coroutine, preserves the
\* inductive invariant.
LEMMA IndInvStep ==
  ASSUME IndInv, [Next]_vars
  PROVE  IndInv'
<1> USE Distinct DEF IndInv
<1>1. ASSUME NEW a \in Awaiters, NEW b \in Awaiters, UNCHANGED setup, Copy(a, b) PROVE IndInv'
  <2> USE <1>1 DEF Copy, Idle, Busy
  <2>1. Holders' = Holders \cup {b} /\ b \notin Holders /\ a \in Holders
    BY DEF TypeOK, Holders
  <2>2. RefsOK'
    BY <2>1, HoldersFinite, FS_AddElement DEF RefsOK
  <2>3. TypeOK'
    BY <2>2, HoldersFinite DEF TypeOK, RefsOK
  <2>4. WordOK'
    BY DEF TypeOK, WordOK
  <2>5. LocalsOK'
    BY DEF TypeOK, LocalsOK
  <2>6. StarterHolds'
    BY DEF TypeOK, StarterHolds
  <2>7. LinksOK' /\ LinksDiffer' /\ NoCycle' /\ Reached'
    BY ListFrame DEF TypeOK, LinksOK
  <2> QED
    BY <2>2, <2>3, <2>4, <2>5, <2>6, <2>7
<1>2. ASSUME NEW a \in Awaiters, UNCHANGED setup, Destroy(a) PROVE IndInv'
  <2> USE <1>2 DEF Destroy, Idle, Busy
  <2>1. Holders' = Holders \ {a} /\ a \in Holders
    BY DEF TypeOK, Holders
  <2>a. Cardinality(Holders') = Cardinality(Holders) - 1
    BY <2>1, HoldersFinite, FS_RemoveElement
  <2>b. ref_count = 1 <=> Holders' = {}
    BY <2>a, HoldersFinite, FS_EmptySet DEF RefsOK
  <2>2. RefsOK'
    BY <2>1, <2>a, <2>b DEF TypeOK, RefsOK
  <2>3. TypeOK'
    BY <2>2, HoldersFinite DEF TypeOK, RefsOK
  <2>c. ref_count = 1 => task.st \notin {"running", "suspended"}
    <3> SUFFICES ASSUME ref_count = 1, task.st \in {"running", "suspended"} PROVE FALSE
      OBVIOUS
    <3>1. task.by \in Holders /\ task.by # a
      BY DEF StarterHolds, Holders
    <3> QED
      BY <2>1, <2>b, <3>1
  <2>4. WordOK'
    BY <2>c DEF TypeOK, WordOK
  <2>5. LocalsOK'
    BY DEF TypeOK, LocalsOK
  <2>6. StarterHolds'
    BY DEF TypeOK, StarterHolds
  <2>7. LinksOK' /\ LinksDiffer' /\ NoCycle' /\ Reached'
    BY ListFrame DEF TypeOK, LinksOK
  <2> QED
    BY <2>2, <2>3, <2>4, <2>5, <2>6, <2>7
<1>3. ASSUME NEW a \in Awaiters, UNCHANGED setup, AwaitReady(a) PROVE IndInv'
  <2> USE <1>3 DEF AwaitReady, Idle, Busy
  <2>1. Holders' = Holders
    BY DEF TypeOK, Holders
  <2>2. RefsOK'
    BY <2>1 DEF TypeOK, RefsOK
  <2>3. TypeOK'
    BY <2>2, HoldersFinite DEF TypeOK, RefsOK
  <2>4. WordOK'
    BY DEF TypeOK, WordOK
  <2>5. LocalsOK'
    BY DEF TypeOK, LocalsOK
  <2>6. StarterHolds'
    BY DEF TypeOK, StarterHolds
  <2>7. LinksOK' /\ LinksDiffer' /\ NoCycle' /\ Reached'
    BY ListFrame DEF TypeOK, LinksOK
  <2> QED
    BY <2>2, <2>3, <2>4, <2>5, <2>6, <2>7
<1>4. ASSUME NEW a \in Awaiters, UNCHANGED setup, TryAwait(a) PROVE IndInv'
  <2> USE <1>4 DEF TryAwait
  <2>1. Holders' = Holders
    BY DEF TypeOK, Holders
  <2>2. RefsOK'
    BY <2>1 DEF TypeOK, RefsOK
  <2>3. TypeOK'
    BY <2>2, HoldersFinite DEF TypeOK, RefsOK
  <2>4. WordOK'
    BY DEF TypeOK, WordOK
  <2>5. LocalsOK'
    BY DEF TypeOK, LocalsOK
  <2>6. StarterHolds'
    BY DEF TypeOK, StarterHolds
  <2>7. LinksOK' /\ LinksDiffer' /\ NoCycle' /\ Reached'
    BY ListFrame DEF TypeOK, LinksOK
  <2> QED
    BY <2>2, <2>3, <2>4, <2>5, <2>6, <2>7
<1>5. ASSUME NEW a \in Awaiters, UNCHANGED setup, StartTask(a) PROVE IndInv'
  <2> USE <1>5 DEF StartTask
  <2>1. Holders' = Holders
    BY DEF TypeOK, Holders
  <2>2. RefsOK'
    BY <2>1 DEF TypeOK, RefsOK
  <2>3. TypeOK'
    BY <2>2, HoldersFinite DEF TypeOK, RefsOK
  <2>4. WordOK'
    BY DEF TypeOK, WordOK
  <2>5. LocalsOK'
    BY DEF TypeOK, LocalsOK
  <2>6. StarterHolds'
    BY DEF TypeOK, StarterHolds
  <2>7. LinksOK'
    BY DEF TypeOK, LinksOK, Suspended
  <2>8. LinksDiffer'
    BY DEF TypeOK, LinksDiffer, Suspended
  <2>9. NoCycle'
    BY DEF TypeOK, NoCycle, Suspended
  <2>10. Reached'
    BY DEF TypeOK, Reached, Careful, Suspended
  <2> QED
    BY <2>2, <2>3, <2>4, <2>5, <2>6, <2>7, <2>8, <2>9, <2>10
<1>6. ASSUME NEW a \in Awaiters, UNCHANGED setup, Reload(a) PROVE IndInv'
  <2> USE <1>6 DEF Reload
  <2>1. Holders' = Holders
    BY DEF TypeOK, Holders
  <2>2. RefsOK'
    BY <2>1 DEF TypeOK, RefsOK
  <2>3. TypeOK'
    BY <2>2, HoldersFinite DEF TypeOK, RefsOK
  <2>4. WordOK'
    BY DEF TypeOK, WordOK
  <2>5. LocalsOK'
    BY DEF TypeOK, LocalsOK
  <2>6. StarterHolds'
    BY DEF TypeOK, StarterHolds
  <2>7. LinksOK' /\ LinksDiffer' /\ NoCycle' /\ Reached'
    BY ListFrame DEF TypeOK, LinksOK
  <2> QED
    BY <2>2, <2>3, <2>4, <2>5, <2>6, <2>7
<1>7. ASSUME NEW a \in Awaiters, UNCHANGED setup, Enqueue(a) PROVE IndInv'
  <2> USE <1>7 DEF Enqueue
  <2>1. Holders' = Holders
    BY DEF TypeOK, Holders
  <2>2. RefsOK'
    BY <2>1 DEF TypeOK, RefsOK
  <2>3. TypeOK'
    <3>1. old[a] # Ready => old[a] \in Awaiters \cup {Null}
      BY DEF TypeOK, LocalsOK
    <3> QED
      BY <2>2, <3>1, HoldersFinite DEF TypeOK, RefsOK
  <2>4. CASE old[a] = Ready \/ waiters # old[a]
    <3>1. /\ UNCHANGED <<waiters, walk, task, ref_count>>
          /\ pc' = pc \/ (old[a] = Ready /\ pc' = [pc EXCEPT ![a] = "resumed"])
          /\ old' = old \/ old' = [old EXCEPT ![a] = waiters]
          /\ \A b \in Awaiters \ {a} : next'[b] = next[b]
      BY <2>4 DEF TypeOK
    <3>2. WordOK'
      BY <3>1 DEF WordOK
    <3>3. LocalsOK'
      BY <3>1 DEF TypeOK, LocalsOK
    <3>4. StarterHolds'
      BY <3>1 DEF TypeOK, StarterHolds, LocalsOK, WordOK
    <3>5. LinksOK' /\ LinksDiffer' /\ NoCycle' /\ Reached'
      BY <3>1, ListFrame DEF TypeOK, LinksOK
    <3> QED
      BY <2>2, <2>3, <3>2, <3>3, <3>4, <3>5
  <2>5. CASE old[a] # Ready /\ waiters = old[a]
    <3>1. /\ waiters' = a /\ UNCHANGED <<old, walk, task, ref_count>>
          /\ pc' = [pc EXCEPT ![a] = "suspended"]
          /\ next' = [next EXCEPT ![a] = waiters]
      BY <2>5
    <3>2. waiters \in Awaiters \cup {Null} /\ walk.st = "off"
      BY <2>5 DEF TypeOK, LocalsOK, WordOK
    <3>3. WordOK'
      BY <3>1, <3>2 DEF WordOK
    <3>4. LocalsOK'
      BY <3>1, <3>2 DEF TypeOK, LocalsOK
    <3>5. StarterHolds'
      BY <3>1, <3>2 DEF TypeOK, StarterHolds
    <3>6. LinksOK'
      BY <3>1, <3>2 DEF TypeOK, LinksOK, Suspended
    <3>7. LinksDiffer'
      BY <3>1, <3>2 DEF TypeOK, LinksOK, LinksDiffer, Suspended
    <3>8. NoCycle'
      <4> SUFFICES ASSUME NEW T \in SUBSET Awaiters, T # {}, \A b \in T : pc'[b] = "suspended"
                   PROVE  \E x \in T : \A b \in T : next'[b] # x
        BY DEF NoCycle, Suspended
      <4>1. CASE a \in T
        <5>1. \A b \in T : next'[b] # a
          BY <3>1, <3>2 DEF TypeOK, LinksOK, Suspended
        <5> QED
          BY <4>1, <5>1
      <4>2. CASE a \notin T
        <5>1. \A b \in T : next'[b] = next[b] /\ pc[b] = "suspended"
          BY <3>1, <4>2 DEF TypeOK
        <5> QED
          BY <5>1 DEF NoCycle, Suspended
      <4> QED
        BY <4>1, <4>2
    <3>9. Reached'
      BY <3>1, <3>2 DEF TypeOK, Reached, Careful, Suspended
    <3> QED
      BY <2>2, <2>3, <3>3, <3>4, <3>5, <3>6, <3>7, <3>8, <3>9
  <2> QED
    BY <2>4, <2>5
<1>8. ASSUME NEW a \in Awaiters, UNCHANGED setup, Resume(a) PROVE IndInv'
  <2> USE <1>8 DEF Resume, Idle, Busy
  <2>1. Holders' = Holders
    BY DEF TypeOK, Holders
  <2>2. RefsOK'
    BY <2>1 DEF TypeOK, RefsOK
  <2>3. TypeOK'
    BY <2>2, HoldersFinite DEF TypeOK, RefsOK
  <2>4. WordOK'
    BY DEF TypeOK, WordOK
  <2>5. LocalsOK'
    BY DEF TypeOK, LocalsOK
  <2>6. StarterHolds'
    BY DEF TypeOK, StarterHolds
  <2>7. LinksOK' /\ LinksDiffer' /\ NoCycle' /\ Reached'
    BY ListFrame DEF TypeOK, LinksOK
  <2> QED
    BY <2>2, <2>3, <2>4, <2>5, <2>6, <2>7
<1>9. ASSUME NEW a \in Awaiters, UNCHANGED setup, Reuse(a) PROVE IndInv'
  <2> USE <1>9 DEF Reuse, Idle, Busy
  <2>1. Holders' = Holders
    BY DEF TypeOK, Holders
  <2>2. RefsOK'
    BY <2>1 DEF TypeOK, RefsOK
  <2>3. TypeOK'
    BY <2>2, HoldersFinite DEF TypeOK, RefsOK
  <2>4. WordOK'
    BY DEF TypeOK, WordOK
  <2>5. LocalsOK'
    BY DEF TypeOK, LocalsOK
  <2>6. StarterHolds'
    BY DEF TypeOK, StarterHolds
  <2>7. LinksOK'
    BY DEF TypeOK, LinksOK, Suspended
  <2>8. LinksDiffer'
    BY DEF TypeOK, LinksDiffer, Suspended
  <2>9. NoCycle'
    BY DEF TypeOK, NoCycle, Suspended
  <2>10. Reached'
    <3>1. Careful => walk.st = "off"
      BY DEF Careful, StarterHolds, TypeOK
    <3> QED
      BY <3>1 DEF TypeOK, Reached, Careful, Suspended
  <2> QED
    BY <2>2, <2>3, <2>4, <2>5, <2>6, <2>7, <2>8, <2>9, <2>10
<1>10. ASSUME UNCHANGED setup, SuspendBody PROVE IndInv'
  <2> USE <1>10 DEF SuspendBody
  <2>1. Holders' = Holders
    BY DEF TypeOK, Holders
  <2>2. RefsOK'
    BY <2>1 DEF TypeOK, RefsOK
  <2>3. TypeOK'
    BY <2>2, HoldersFinite DEF TypeOK, RefsOK
  <2>4. WordOK'
    BY DEF TypeOK, WordOK
  <2>5. LocalsOK'
    BY DEF TypeOK, WordOK, LocalsOK
  <2>6. StarterHolds'
    BY DEF TypeOK, StarterHolds
  <2>7. LinksOK' /\ LinksDiffer' /\ NoCycle' /\ Reached'
    BY ListFrame DEF TypeOK, LinksOK
  <2> QED
    BY <2>2, <2>3, <2>4, <2>5, <2>6, <2>7
<1>11. ASSUME UNCHANGED setup, ResumeBody PROVE IndInv'
  <2> USE <1>11 DEF ResumeBody, Idle, Busy
  <2>1. Holders' = Holders
    BY DEF TypeOK, Holders
  <2>2. RefsOK'
    BY <2>1 DEF TypeOK, RefsOK
  <2>3. TypeOK'
    BY <2>2, HoldersFinite DEF TypeOK, RefsOK
  <2>4. WordOK'
    BY DEF TypeOK, WordOK
  <2>5. LocalsOK'
    BY DEF TypeOK, LocalsOK
  <2>6. StarterHolds'
    BY DEF TypeOK, StarterHolds
  <2>7. LinksOK' /\ LinksDiffer' /\ NoCycle' /\ Reached'
    BY ListFrame DEF TypeOK, LinksOK
  <2> QED
    BY <2>2, <2>3, <2>4, <2>5, <2>6, <2>7
<1>12. ASSUME UNCHANGED setup, FinalSuspend PROVE IndInv'
  <2> USE <1>12 DEF FinalSuspend
  <2>1. Holders' = Holders
    BY DEF TypeOK, Holders
  <2>2. RefsOK'
    BY <2>1 DEF TypeOK, RefsOK
  <2>3. TypeOK'
    BY <2>2, HoldersFinite DEF TypeOK, RefsOK, WordOK
  <2>4. WordOK'
    BY DEF TypeOK, WordOK
  <2>5. LocalsOK'
    BY DEF TypeOK, LocalsOK
  <2>6. StarterHolds'
    BY DEF TypeOK, StarterHolds
  <2>7. LinksOK'
    BY DEF TypeOK, WordOK, LinksOK, Suspended
  <2>8. LinksDiffer'
    BY DEF TypeOK, LinksDiffer, Suspended
  <2>9. NoCycle'
    BY DEF TypeOK, NoCycle, Suspended
  <2>10. Reached'
    BY DEF TypeOK, WordOK, Reached, Careful, Suspended
  <2> QED
    BY <2>2, <2>3, <2>4, <2>5, <2>6, <2>7, <2>8, <2>9, <2>10
<1>13. ASSUME UNCHANGED setup, SpawnWaiter PROVE IndInv'
  <2> USE <1>13 DEF SpawnWaiter
  <2>0. walk.cur \in Awaiters /\ pc[walk.cur] = "suspended"
    BY DEF TypeOK, LinksOK, Suspended
  <2>1. Holders' = Holders
    BY <2>0 DEF TypeOK, Holders
  <2>2. RefsOK'
    BY <2>1 DEF TypeOK, RefsOK
  <2>3. TypeOK'
    BY <2>2, HoldersFinite DEF TypeOK, RefsOK
  <2>4. WordOK'
    BY DEF TypeOK, WordOK
  <2>5. LocalsOK'
    BY <2>0 DEF TypeOK, WordOK, LocalsOK
  <2>6. StarterHolds'
    BY <2>0 DEF TypeOK, WordOK, StarterHolds
  <2>7. LinksOK'
    BY <2>0 DEF TypeOK, WordOK, LinksDiffer, LinksOK, Suspended
  <2>8. LinksDiffer'
    BY <2>0 DEF TypeOK, LinksDiffer, Suspended
  <2>9. NoCycle'
    BY <2>0 DEF TypeOK, NoCycle, Suspended
  <2>10. Reached'
    BY <2>0 DEF TypeOK, Reached, Careful, Suspended
  <2> QED
    BY <2>2, <2>3, <2>4, <2>5, <2>6, <2>7, <2>8, <2>9, <2>10
<1>14. ASSUME UNCHANGED setup, NextWaiter PROVE IndInv'
  <2> USE <1>14 DEF NextWaiter
  <2>1. Holders' = Holders
    BY DEF TypeOK, Holders
  <2>2. RefsOK'
    BY <2>1 DEF TypeOK, RefsOK
  <2>3. TypeOK'
    BY <2>2, HoldersFinite DEF TypeOK, RefsOK, LinksOK, Suspended
  <2>4. WordOK'
    BY DEF TypeOK, WordOK
  <2>5. LocalsOK'
    BY DEF TypeOK, LocalsOK
  <2>6. StarterHolds'
    BY DEF TypeOK, StarterHolds
  <2>7. LinksOK'
    BY DEF TypeOK, LinksOK, Suspended
  <2>8. LinksDiffer'
    BY DEF TypeOK, LinksDiffer, Suspended
  <2>9. NoCycle'
    BY DEF TypeOK, NoCycle, Suspended
  <2>10. Reached'
    BY DEF TypeOK, Reached, Careful, Suspended
  <2> QED
    BY <2>2, <2>3, <2>4, <2>5, <2>6, <2>7, <2>8, <2>9, <2>10
<1>15. ASSUME UNCHANGED setup, EndWalk PROVE IndInv'
  <2> USE <1>15 DEF EndWalk
  <2>1. Holders' = Holders
    BY DEF TypeOK, Holders
  <2>2. RefsOK'
    BY <2>1 DEF TypeOK, RefsOK
  <2>3. TypeOK'
    BY <2>2, HoldersFinite DEF TypeOK, RefsOK
  <2>4. WordOK'
    BY DEF TypeOK, WordOK
  <2>5. LocalsOK'
    BY DEF TypeOK, WordOK, StarterHolds, LocalsOK
  <2>6. StarterHolds'
    BY DEF TypeOK, WordOK, StarterHolds
  <2>7. LinksOK'
    BY DEF TypeOK, LinksOK, Suspended
  <2>8. LinksDiffer'
    BY DEF TypeOK, LinksDiffer, Suspended
  <2>9. NoCycle'
    BY DEF TypeOK, NoCycle, Suspended
  <2>10. Reached'
    BY DEF TypeOK, Reached, Careful, Suspended
  <2> QED
    BY <2>2, <2>3, <2>4, <2>5, <2>6, <2>7, <2>8, <2>9, <2>10
<1>16. CASE UNCHANGED vars
  <2>1. Holders' = Holders
    BY <1>16 DEF vars, Holders
  <2>2. LinksOK' /\ LinksDiffer' /\ NoCycle' /\ Reached'
    BY <1>16, ListFrame DEF vars, LinksOK
  <2> QED
    BY <1>16, <2>1, <2>2 DEF vars, TypeOK, RefsOK, WordOK, LocalsOK, StarterHolds
<1> QED
  BY <1>1, <1>2, <1>3, <1>4, <1>5, <1>6, <1>7, <1>8, <1>9, <1>10, <1>11, <1>12, <1>13, <1>14, <1>15, <1>16 DEF Next, Await, Use, Coroutine

-----------------------------------------------------------------------------
\* The inductive invariant holds in every reachable state.
THEOREM SharedTaskInvariant == Spec => []IndInv
BY IndInvInit, IndInvStep, PTL DEF Spec

\* Whoever is past its co_await finds the task complete and its frame in place
\* (shared_task.hpp), however many awaiters there are and wherever they run.
THEOREM SharedReadersSafe == Spec => []ReadersSeeResult
<1>1. IndInv => ReadersSeeResult
  <2> SUFFICES ASSUME IndInv, NEW a \in Awaiters, pc[a] \in Past PROVE task.st = "final"
    BY DEF IndInv, ReadersSeeResult
  <2>1. a \in Holders
    BY DEF Holders
  <2> QED
    BY <2>1 DEF IndInv, RefsOK, WordOK, LocalsOK
<1> QED
  BY <1>1, SharedTaskInvariant, PTL

\* ~shared_task never destroys the frame of a coroutine that runs or waits for
\* its I/O: the awaiter that started it still has a reference.
THEOREM SharedNotDestroyedMidway == Spec => NotDestroyedMidway
<1>1. IndInv /\ [Next]_vars
        => [task'.st = "destroyed" => task.st \in {"initial", "final", "destroyed"}]_vars
  <2> SUFFICES ASSUME IndInv, IndInv', Next, task'.st = "destroyed",
                      task.st \in {"running", "suspended"}
               PROVE  FALSE
    BY IndInvStep DEF IndInv, TypeOK
  <2>1. task.by \in Awaiters /\ pc[task.by] \in {"body", "suspended", "reload", "enqueue"}
    BY DEF IndInv, StarterHolds
  <2>2. pc'[task.by] \in {"none", "gone"}
    BY <2>1 DEF IndInv, RefsOK, Holders
  <2>3. PICK a \in Awaiters : Destroy(a)
    BY <2>2, <2>1 DEF Next, Await, Use, Coroutine, Copy, AwaitReady, TryAwait, StartTask, Reload,
        Enqueue, Resume, Reuse, SuspendBody, ResumeBody, FinalSuspend, SpawnWaiter, NextWaiter,
        EndWalk, IndInv, TypeOK
  <2> QED
    BY <2>1, <2>2, <2>3 DEF Destroy, IndInv, TypeOK
<1> QED
  BY <1>1, SharedTaskInvariant, PTL DEF Spec, NotDestroyedMidway

\* When the final suspend has walked its list, no awaiter is left suspended, for
\* every setup in which frames are not reused on other threads during the walk.
THEOREM SharedForgetsNoWaiter == Spec => [](Careful => NoWaiterForgotten)
<1>1. IndInv => (Careful => NoWaiterForgotten)
  <2> SUFFICES ASSUME IndInv, Careful, waiters = Ready, walk.st = "off",
                      NEW a \in Awaiters, pc[a] = "suspended"
               PROVE  FALSE
    BY DEF NoWaiterForgotten
  <2> DEFINE T == {b \in Awaiters : Suspended(b)}
  <2>1. T \in SUBSET Awaiters /\ T # {} /\ \A b \in T : Suspended(b)
    BY DEF Suspended
  <2>2. PICK b \in T : \A d \in T : next[d] # b
    BY <2>1 DEF IndInv, NoCycle
  <2>3. waiters # b
    BY <2>2
  <2>4. \E d \in Awaiters : Suspended(d) /\ next[d] = b
    BY <2>2, <2>3 DEF IndInv, Reached
  <2> QED
    BY <2>2, <2>4
<1> QED
  BY <1>1, SharedTaskInvariant, PTL
=============================================================================
