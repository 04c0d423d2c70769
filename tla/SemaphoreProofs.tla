--------------------------- MODULE SemaphoreProofs ---------------------------
(***************************************************************************)
(* Proofs about counting_semaphore for any coroutines on any io_contexts,  *)
(* any initial value and any arguments of release(update) but 0.           *)
(***************************************************************************)
EXTENDS Semaphore, FiniteSetTheorems, TLAPS

\* Coroutines that own a unit; those that took one from `counter', whether it
\* was there or not.
Owners == In({"held", "ready"})

Claimants == In({"held", "ready", "push", "waiting"})

\* The awaiters that the release of k is still to resume, and all of them: pairs
\* of a releaser and a number.
Owes(k) == CASE pc[k] \in {"r_one", "r_spawn"} -> 1
             [] pc[k] \in {"r_many", "r_loop"} -> update[k]
             [] OTHER -> 0

Debts == {d \in Coros \X (1..MaxPermits + 1) : d[2] <= Owes(d[1])}

Free == IF counter > 0 THEN counter ELSE 0

\* counter falls short of the units by the claims on them; every unit is free,
\* owned, or owed to an awaiter by a release under way.
CountOK ==
  /\ counter = permits - Cardinality(Claimants)
  /\ Cardinality(Owners) + Cardinality(Debts) + Free = permits

LocalsOK ==
  \A k \in Coros : /\ update[k] <= MaxPermits
                   /\ pc[k] \in {"r_many", "r_loop"} => update[k] >= 1

Listed == {k \in Coros : \/ \E i \in 1..Len(awaiting) : awaiting[i] = k
                         \/ \E i \in 1..Len(to_resume) : to_resume[i] = k}

NoDuplicates ==
  /\ \A i, j \in 1..Len(awaiting) : awaiting[i] = awaiting[j] => i = j
  /\ \A i, j \in 1..Len(to_resume) : to_resume[i] = to_resume[j] => i = j
  /\ \A i \in 1..Len(awaiting), j \in 1..Len(to_resume) : awaiting[i] # to_resume[j]

\* The lists hold suspended coroutines, each once.
ListOK == NoDuplicates /\ \A k \in Listed : pc[k] = "waiting"

\* What release() has taken off the lists is suspended, and off them.
SpawnOK ==
  /\ \A k \in Coros : pc[k] = "r_spawn" =>
       awaken[k] \in Coros /\ pc[awaken[k]] = "waiting" /\ awaken[k] \notin Listed
  /\ \A j, k \in Coros : pc[j] = "r_spawn" /\ pc[k] = "r_spawn" /\ awaken[j] = awaken[k] => j = k

\* A suspended coroutine is on a list or in the hands of a release().
Covered ==
  \A k \in Coros : pc[k] = "waiting" =>
    k \in Listed \/ \E j \in Coros : pc[j] = "r_spawn" /\ awaken[j] = k

\* A thread is inside one operation at a time.
OneBusy == OneThread => \A j, k \in Coros : pc[j] \in Busy /\ pc[k] \in Busy => j = k

IndInv == /\ TypeOK /\ CountOK /\ LocalsOK /\ ListOK /\ SpawnOK /\ Covered /\ OneBusy
          /\ OneThreadFindsAwaiter

USE SemAssumption DEF Busy, Goto

-----------------------------------------------------------------------------
\* The awaiting list after a push.
LEMMA PushFirst ==
  ASSUME TypeOK, NoDuplicates, NEW k \in Coros, k \notin Listed,
         awaiting' = <<k>> \o awaiting, to_resume' = to_resume
  PROVE  /\ awaiting' \in Seq(Coros) /\ NoDuplicates'
         /\ Listed' = Listed \cup {k}
<1> DEFINE n == Len(awaiting)
<1>1. n \in Nat /\ awaiting \in Seq(Coros) /\ to_resume \in Seq(Coros)
  BY DEF TypeOK
<1>2. /\ awaiting' \in Seq(Coros) /\ Len(awaiting') = n + 1
      /\ awaiting'[1] = k /\ \A i \in 1..n : awaiting'[i + 1] = awaiting[i]
  BY <1>1
<1>3. \A i \in 1..n + 1 : i = 1 \/ (i - 1 \in 1..n /\ awaiting'[i] = awaiting[i - 1])
  <2> SUFFICES ASSUME NEW i \in 1..n + 1, i # 1
               PROVE  i - 1 \in 1..n /\ awaiting'[i] = awaiting[i - 1]
    OBVIOUS
  <2>1. i - 1 \in 1..n /\ (i - 1) + 1 = i
    BY <1>1
  <2> QED
    BY <1>2, <2>1
<1>4. NoDuplicates'
  <2>1. \A i, j \in 1..n + 1 : awaiting'[i] = awaiting'[j] => i = j
    <3> SUFFICES ASSUME NEW i \in 1..n + 1, NEW j \in 1..n + 1, awaiting'[i] = awaiting'[j]
                 PROVE  i = j
      OBVIOUS
    <3>1. ASSUME i # 1, j # 1 PROVE i = j
      <4>1. i - 1 = j - 1
        BY <1>3, <3>1, ZenonT(60) DEF NoDuplicates
      <4> QED
        BY <1>1, <4>1
    <3>2. ASSUME NEW m \in 1..n + 1, m # 1 PROVE awaiting'[m] # k
      BY <1>3, <3>2 DEF Listed
    <3> QED
      BY <1>2, <3>1, <3>2
  <2>2. \A i \in 1..n + 1, j \in 1..Len(to_resume) : awaiting'[i] # to_resume[j]
    <3> SUFFICES ASSUME NEW i \in 1..n + 1, NEW j \in 1..Len(to_resume)
                 PROVE  awaiting'[i] # to_resume[j]
      OBVIOUS
    <3>1. CASE i = 1
      BY <1>2, <3>1 DEF Listed
    <3>2. CASE i # 1
      BY <1>3, <3>2, SMTT(40) DEF NoDuplicates
    <3> QED
      BY <3>1, <3>2
  <2> QED
    BY <1>2, <2>1, <2>2 DEF NoDuplicates
<1>5. ASSUME NEW j \in Coros PROVE j \in Listed' <=> j \in Listed \/ j = k
  <2>1. j \in Listed' => j \in Listed \/ j = k
    BY <1>1, <1>2, <1>3 DEF Listed
  <2>2. j = k => j \in Listed'
    BY <1>1, <1>2 DEF Listed
  <2>3. ASSUME NEW i \in 1..n, awaiting[i] = j PROVE j \in Listed'
    <3>1. i + 1 \in 1..n + 1 /\ awaiting'[i + 1] = j
      BY <1>1, <1>2, <2>3
    <3> QED
      BY <1>2, <3>1 DEF Listed
  <2> QED
    BY <2>1, <2>2, <2>3 DEF Listed
<1>6. Listed' = Listed \cup {k}
  BY <1>5 DEF Listed
<1> QED
  BY <1>2, <1>4, <1>6

\* try_release() turns the awaiting list around.
LEMMA ReverseOK ==
  ASSUME NEW q \in Seq(Coros)
  PROVE  /\ Reverse(q) \in Seq(Coros) /\ Len(Reverse(q)) = Len(q)
         /\ \A i \in 1..Len(q) : Reverse(q)[i] = q[Len(q) - i + 1] /\ Len(q) - i + 1 \in 1..Len(q)
BY DEF Reverse

\* The list without its first element.
LEMMA TailOK ==
  ASSUME NEW q \in Seq(Coros), q # <<>>
  PROVE  /\ Head(q) = q[1] /\ q[1] \in Coros /\ Len(q) >= 1
         /\ Tail(q) \in Seq(Coros) /\ Len(Tail(q)) = Len(q) - 1
         /\ \A i \in 1..Len(q) - 1 : Tail(q)[i] = q[i + 1]
OBVIOUS

\* What try_release() takes is on the lists, and only that is taken off them.
LEMMA TakeFirstOK ==
  ASSUME TypeOK, NoDuplicates, Candidates # <<>>, TakeFirst
  PROVE  /\ Head(Candidates) \in Coros /\ Head(Candidates) \in Listed
         /\ awaiting' \in Seq(Coros) /\ to_resume' \in Seq(Coros) /\ NoDuplicates'
         /\ Listed' = Listed \ {Head(Candidates)}
<1> DEFINE q == Candidates
<1> DEFINE n == Len(Candidates)
<1>1. awaiting \in Seq(Coros) /\ to_resume \in Seq(Coros)
  BY DEF TypeOK
<1>2. q \in Seq(Coros) /\ n \in Nat
  BY <1>1, ReverseOK DEF Candidates
<1>3. \A i, j \in 1..n : q[i] = q[j] => i = j
  <2>1. CASE to_resume # <<>>
    BY <2>1 DEF Candidates, NoDuplicates
  <2>2. CASE to_resume = <<>>
    <3>1. q = Reverse(awaiting) /\ n = Len(awaiting)
      BY <1>1, <2>2, ReverseOK DEF Candidates
    <3> SUFFICES ASSUME NEW i \in 1..n, NEW j \in 1..n, q[i] = q[j] PROVE i = j
      OBVIOUS
    <3>2. /\ q[i] = awaiting[n - i + 1] /\ n - i + 1 \in 1..n
          /\ q[j] = awaiting[n - j + 1] /\ n - j + 1 \in 1..n
      BY <1>1, <3>1, ReverseOK
    <3>3. n - i + 1 = n - j + 1
      BY <3>1, <3>2 DEF NoDuplicates
    <3> QED
      BY <1>2, <3>3
  <2> QED
    BY <2>1, <2>2
<1>4. awaiting' \in Seq(Coros) /\ (awaiting' = <<>> \/ (to_resume # <<>> /\ awaiting' = awaiting))
  BY <1>1 DEF TakeFirst
<1>5. /\ q[1] \in Coros /\ Head(q) = q[1] /\ n >= 1
      /\ to_resume' \in Seq(Coros) /\ Len(to_resume') = n - 1
      /\ \A i \in 1..n - 1 : to_resume'[i] = q[i + 1]
  BY <1>2, TailOK DEF TakeFirst
<1>6. \A k \in Coros : k \in Listed <=>
        (\E i \in 1..n : q[i] = k) \/ (\E i \in 1..Len(awaiting') : awaiting'[i] = k)
  <2>1. CASE to_resume # <<>>
    BY <2>1 DEF Candidates, Listed, TakeFirst
  <2>2. CASE to_resume = <<>>
    <3>1. q = Reverse(awaiting) /\ n = Len(awaiting) /\ awaiting' = <<>>
      BY <1>1, <2>2, ReverseOK DEF Candidates, TakeFirst
    <3>2. \A i \in 1..n : q[i] = awaiting[n - i + 1] /\ n - i + 1 \in 1..n
      BY <1>1, <3>1, ReverseOK
    <3>3. \A i \in 1..n : awaiting[i] = q[n - i + 1] /\ n - i + 1 \in 1..n
      <4> SUFFICES ASSUME NEW i \in 1..n
                   PROVE  awaiting[i] = q[n - i + 1] /\ n - i + 1 \in 1..n
        OBVIOUS
      <4>1. n - i + 1 \in 1..n /\ n - (n - i + 1) + 1 = i
        BY <1>2
      <4> QED
        BY <3>2, <4>1
    <3> QED
      BY <2>2, <3>1, <3>2, <3>3 DEF Listed
  <2> QED
    BY <2>1, <2>2
<1>7. \A i \in 1..Len(awaiting'), j \in 1..n : awaiting'[i] # q[j]
  BY <1>4 DEF Candidates, NoDuplicates
<1>8. NoDuplicates'
  <2>1. \A i \in 1..n - 1 : i + 1 \in 1..n
    BY <1>2
  <2>2. ASSUME NEW i \in 1..n - 1, NEW j \in 1..n - 1, to_resume'[i] = to_resume'[j] PROVE i = j
    <3>1. i + 1 = j + 1
      BY <1>3, <1>5, <2>1, <2>2
    <3> QED
      BY <1>2, <3>1
  <2>3. \A i, j \in 1..Len(awaiting') : awaiting'[i] = awaiting'[j] => i = j
    BY <1>4 DEF NoDuplicates
  <2>4. \A i \in 1..Len(awaiting'), j \in 1..n - 1 : awaiting'[i] # to_resume'[j]
    BY <1>5, <1>7, <2>1
  <2> QED
    BY <1>5, <2>2, <2>3, <2>4 DEF NoDuplicates
<1>9. ASSUME NEW k \in Coros PROVE k \in Listed' <=> k \in Listed /\ k # q[1]
  <2>1. k \in Listed' => k \in Listed /\ k # q[1]
    BY <1>2, <1>3, <1>5, <1>6, <1>7 DEF Listed
  <2>2. ASSUME NEW i \in 1..n, q[i] = k, k # q[1] PROVE k \in Listed'
    <3>1. i - 1 \in 1..n - 1 /\ (i - 1) + 1 = i
      BY <1>2, <2>2
    <3>2. to_resume'[i - 1] = k
      BY <1>5, <2>2, <3>1
    <3> QED
      BY <1>5, <3>1, <3>2 DEF Listed
  <2> QED
    BY <1>6, <2>1, <2>2 DEF Listed
<1>10. q[1] \in Listed
  BY <1>2, <1>5, <1>6
<1>11. Listed' = Listed \ {q[1]}
  BY <1>9 DEF Listed
<1> QED
  BY <1>4, <1>5, <1>8, <1>10, <1>11

-----------------------------------------------------------------------------
Pairs == Coros \X (1..MaxPermits + 1)

\* The sets that are counted are finite.
LEMMA SetsFinite ==
  /\ IsFiniteSet(Owners) /\ Cardinality(Owners) \in Nat
  /\ IsFiniteSet(Claimants) /\ Cardinality(Claimants) \in Nat
  /\ IsFiniteSet(Debts) /\ Cardinality(Debts) \in Nat
<1>1. IsFiniteSet(Pairs)
  <2>1. IsFiniteSet(1..MaxPermits + 1)
    BY FS_Interval
  <2>2. \A S, T : IsFiniteSet(S) /\ IsFiniteSet(T) => IsFiniteSet(S \X T)
    BY FS_Product
  <2> QED
    BY <2>1, <2>2, Zenon DEF Pairs
<1>2. Owners \in SUBSET Coros /\ Claimants \in SUBSET Coros /\ Debts \in SUBSET Pairs
  BY DEF Owners, Claimants, In, Debts, Pairs
<1>3. IsFiniteSet(Owners) /\ IsFiniteSet(Claimants) /\ IsFiniteSet(Debts)
  BY <1>1, <1>2, FS_Subset
<1> QED
  BY <1>3, FS_CardinalityType

\* Debts are equal if everybody owes the same.
LEMMA DebtsSame ==
  ASSUME \A j \in Coros : Owes(j)' = Owes(j)
  PROVE  Debts' = Debts
BY DEF Debts

\* A step that moves no unit keeps the account.
LEMMA CountFrame ==
  ASSUME CountOK, Owners' = Owners, Claimants' = Claimants, Debts' = Debts,
         UNCHANGED <<counter, permits>>
  PROVE  CountOK'
BY DEF CountOK, Free

\* A release() that finds somebody waiting takes on a debt of one.
LEMMA DebtOfOne ==
  ASSUME TypeOK, NEW k \in Coros, Owes(k) = 0, Owes(k)' = 1,
         \A j \in Coros \ {k} : Owes(j)' = Owes(j)
  PROVE  Cardinality(Debts') = Cardinality(Debts) + 1
<1>1. <<k, 1>> \notin Debts
  BY DEF Debts
<1>2. Debts' = Debts \cup {<<k, 1>>}
  BY DEF Debts
<1> QED
  BY <1>1, <1>2, SetsFinite, FS_AddElement

\* A release(update) takes on a debt of several.
LEMMA DebtOfMany ==
  ASSUME TypeOK, NEW k \in Coros, NEW m \in 0..MaxPermits, Owes(k) = 0, Owes(k)' = m,
         \A j \in Coros \ {k} : Owes(j)' = Owes(j)
  PROVE  Cardinality(Debts') = Cardinality(Debts) + m
<1> DEFINE New == {k} \X (1..m)
<1>1. IsFiniteSet(New) /\ Cardinality(New) = m
  <2>1. IsFiniteSet({k}) /\ Cardinality({k}) = 1
    BY FS_Singleton
  <2>2. IsFiniteSet(1..m) /\ Cardinality(1..m) = m
    BY FS_Interval
  <2>3. \A S, T : IsFiniteSet(S) /\ IsFiniteSet(T) =>
          IsFiniteSet(S \X T) /\ Cardinality(S \X T) = Cardinality(S) * Cardinality(T)
    BY FS_Product
  <2>4. IsFiniteSet(New) /\ Cardinality(New) = Cardinality({k}) * Cardinality(1..m)
    BY <2>1, <2>2, <2>3, Zenon
  <2> QED
    BY <2>1, <2>2, <2>4
<1>2. Debts \cap New = {}
  BY DEF Debts
<1>3. Debts' = Debts \cup New
  BY DEF Debts
<1>4. Cardinality(Debts \cup New) = Cardinality(Debts) + Cardinality(New) - Cardinality(Debts \cap New)
  BY <1>1, SetsFinite, FS_Union
<1>5. Cardinality(Debts \cap New) = 0
  BY <1>2, FS_EmptySet
<1> QED
  BY <1>1, <1>3, <1>4, <1>5, SetsFinite

\* Resuming an awaiter pays one off.
LEMMA DebtPaid ==
  ASSUME TypeOK, LocalsOK, NEW k \in Coros, Owes(k) \in 1..MaxPermits + 1, Owes(k)' = Owes(k) - 1,
         \A j \in Coros \ {k} : Owes(j)' = Owes(j)
  PROVE  Cardinality(Debts') = Cardinality(Debts) - 1
<1>1. <<k, Owes(k)>> \in Debts
  BY DEF Debts
<1>2. Debts' = Debts \ {<<k, Owes(k)>>}
  BY DEF Debts
<1> QED
  BY <1>1, <1>2, SetsFinite, FS_RemoveElement

-----------------------------------------------------------------------------
\* A step that leaves the lists alone.
LEMMA ListFrame ==
  ASSUME UNCHANGED <<awaiting, to_resume>>
  PROVE  Listed' = Listed /\ (NoDuplicates => NoDuplicates')
BY DEF Listed, NoDuplicates

\* Only coroutines are listed.
LEMMA ListedCoros == Listed \subseteq Coros
BY DEF Listed

\* try_release() finds nothing only if both lists are empty.
LEMMA NothingListed ==
  ASSUME TypeOK, Candidates = <<>>
  PROVE  Listed = {}
<1>1. awaiting \in Seq(Coros) /\ to_resume = <<>> /\ Reverse(awaiting) = <<>>
  BY DEF TypeOK, Candidates
<1>2. Len(awaiting) = 0
  BY <1>1, ReverseOK
<1> QED
  BY <1>1, <1>2 DEF Listed

\* Every initial state satisfies the inductive invariant.
LEMMA IndInvInit == Init => IndInv
<1> SUFFICES ASSUME Init PROVE IndInv
  OBVIOUS
<1> USE DEF Init
<1>1. TypeOK
  <2>1. awaiting \in Seq(Coros) /\ to_resume \in Seq(Coros)
    OBVIOUS
  <2>2. counter \in Int /\ permits \in Nat
    OBVIOUS
  <2>4. halted \in BOOLEAN /\ home \in Homes /\ notifier_mtx \in Coros \cup {None}
    BY Zenon
  <2>3. /\ pc \in [Coros -> Busy \cup {"idle", "waiting", "ready", "held"}]
        /\ update \in [Coros -> Nat] /\ awaken \in [Coros -> Coros \cup {None}]
    OBVIOUS
  <2> QED
    BY <2>1, <2>2, <2>3, <2>4 DEF TypeOK
<1>2. Owners = {} /\ Claimants = {} /\ Debts = {}
  BY DEF Owners, Claimants, In, Debts, Owes
<1>3. CountOK
  BY <1>2, FS_EmptySet DEF CountOK, Free
<1>4. Listed = {} /\ NoDuplicates
  BY DEF Listed, NoDuplicates
<1>5. LocalsOK /\ ListOK /\ SpawnOK /\ Covered /\ OneBusy /\ OneThreadFindsAwaiter
  BY <1>4 DEF LocalsOK, ListOK, SpawnOK, Covered, OneBusy, OneThreadFindsAwaiter, ReleaseFindsAwaiter
<1> QED
  BY <1>1, <1>3, <1>5 DEF IndInv

\* Every atomic access of acquire() and release() preserves the inductive
\* invariant, if no release(0) is called.
LEMMA IndInvStep ==
  ASSUME 0 \notin Updates, IndInv, [Next]_vars
  PROVE  IndInv'
<1> USE DEF IndInv
<1>1. ASSUME NEW k \in Coros, ~ halted, TryAcquire(k) PROVE IndInv'
  <2> USE <1>1 DEF TryAcquire, Runs
  <2>1. Listed' = Listed /\ NoDuplicates'
    BY ListFrame DEF ListOK
  <2>3. TypeOK'
    BY DEF TypeOK
  <2>4. CountOK'
    <3>1. k \notin Owners /\ k \notin Claimants /\ Claimants' = Claimants \cup {k}
      BY DEF TypeOK, Owners, Claimants, In
    <3>2. Owners' = IF counter > 0 THEN Owners \cup {k} ELSE Owners
      BY DEF TypeOK, Owners, In
    <3>3. \A j \in Coros : Owes(j)' = Owes(j)
      BY DEF TypeOK, Owes
    <3>4. /\ Cardinality(Claimants') = Cardinality(Claimants) + 1
          /\ Cardinality(Owners') = IF counter > 0 THEN Cardinality(Owners) + 1 ELSE Cardinality(Owners)
      BY <3>1, <3>2, SetsFinite, FS_AddElement
    <3>5. Debts' = Debts
      BY <3>3, DebtsSame
    <3>6. counter \in Int /\ permits \in Nat /\ counter' = counter - 1 /\ permits' = permits
      BY DEF TypeOK
    <3> HIDE <1>1
    <3> QED
      BY <3>4, <3>5, <3>6, SetsFinite DEF CountOK, Free
  <2>5. LocalsOK'
    BY DEF TypeOK, LocalsOK
  <2>6. ListOK'
    BY <2>1 DEF TypeOK, ListOK
  <2>7. SpawnOK'
    BY <2>1 DEF TypeOK, ListOK, SpawnOK
  <2>8. Covered'
    BY <2>1 DEF TypeOK, Covered
  <2>9. OneBusy'
    BY DEF TypeOK, OneBusy, OneThread
  <2>10. OneThreadFindsAwaiter'
    BY DEF OneThreadFindsAwaiter, ReleaseFindsAwaiter, OneThread
  <2> QED
    BY <2>3, <2>4, <2>5, <2>6, <2>7, <2>8, <2>9, <2>10
<1>2. ASSUME NEW k \in Coros, ~ halted, AwaitReady(k) PROVE IndInv'
  <2> USE <1>2 DEF AwaitReady, Runs
  <2>1. Listed' = Listed /\ NoDuplicates'
    BY ListFrame DEF ListOK
  <2>3. TypeOK'
    BY DEF TypeOK
  <2>4. CountOK'
    <3>1. k \notin Owners /\ k \notin Claimants /\ Claimants' = Claimants \cup {k}
      BY DEF TypeOK, Owners, Claimants, In
    <3>2. Owners' = IF counter > 0 THEN Owners \cup {k} ELSE Owners
      BY DEF TypeOK, Owners, In
    <3>3. \A j \in Coros : Owes(j)' = Owes(j)
      BY DEF TypeOK, Owes
    <3>4. /\ Cardinality(Claimants') = Cardinality(Claimants) + 1
          /\ Cardinality(Owners') = IF counter > 0 THEN Cardinality(Owners) + 1 ELSE Cardinality(Owners)
      BY <3>1, <3>2, SetsFinite, FS_AddElement
    <3>5. Debts' = Debts
      BY <3>3, DebtsSame
    <3>6. counter \in Int /\ permits \in Nat /\ counter' = counter - 1 /\ permits' = permits
      BY DEF TypeOK
    <3> HIDE <1>2
    <3> QED
      BY <3>4, <3>5, <3>6, SetsFinite DEF CountOK, Free
  <2>5. LocalsOK'
    BY DEF TypeOK, LocalsOK
  <2>6. ListOK'
    BY <2>1 DEF TypeOK, ListOK
  <2>7. SpawnOK'
    BY <2>1 DEF TypeOK, ListOK, SpawnOK
  <2>8. Covered'
    BY <2>1 DEF TypeOK, Covered
  <2>9. OneBusy'
    BY DEF TypeOK, OneBusy, OneThread
  <2>10. OneThreadFindsAwaiter'
    BY DEF OneThreadFindsAwaiter, ReleaseFindsAwaiter, OneThread
  <2> QED
    BY <2>3, <2>4, <2>5, <2>6, <2>7, <2>8, <2>9, <2>10
<1>3. ASSUME NEW k \in Coros, ~ halted, AwaitSuspend(k) PROVE IndInv'
  <2> USE <1>3 DEF AwaitSuspend
  <2>1. k \notin Listed
    BY DEF ListOK
  <2>2. awaiting' \in Seq(Coros) /\ NoDuplicates' /\ Listed' = Listed \cup {k}
    BY <2>1, PushFirst DEF ListOK
  <2>3. TypeOK'
    BY <2>2 DEF TypeOK
  <2>4. CountOK'
    <3>1. Owners' = Owners /\ Claimants' = Claimants
      BY DEF TypeOK, Owners, Claimants, In
    <3>2. \A j \in Coros : Owes(j)' = Owes(j)
      BY DEF TypeOK, Owes
    <3> QED
      BY <3>1, <3>2, CountFrame, DebtsSame
  <2>5. LocalsOK'
    BY DEF TypeOK, LocalsOK
  <2>6. ListOK'
    BY <2>2 DEF TypeOK, ListOK
  <2>7. SpawnOK'
    BY <2>2 DEF TypeOK, ListOK, SpawnOK
  <2>8. Covered'
    BY <2>2 DEF TypeOK, Covered
  <2>9. OneBusy'
    BY DEF TypeOK, OneBusy, OneThread
  <2>10. OneThreadFindsAwaiter'
    BY DEF OneThreadFindsAwaiter, ReleaseFindsAwaiter, OneThread
  <2> QED
    BY <2>3, <2>4, <2>5, <2>6, <2>7, <2>8, <2>9, <2>10
<1>4. ASSUME NEW k \in Coros, ~ halted, Resume(k) PROVE IndInv'
  <2> USE <1>4 DEF Resume, Runs
  <2>1. Listed' = Listed /\ NoDuplicates'
    BY ListFrame DEF ListOK
  <2>3. TypeOK'
    BY DEF TypeOK
  <2>4. CountOK'
    <3>1. Owners' = Owners /\ Claimants' = Claimants
      BY DEF TypeOK, Owners, Claimants, In
    <3>2. \A j \in Coros : Owes(j)' = Owes(j)
      BY DEF TypeOK, Owes
    <3> QED
      BY <3>1, <3>2, CountFrame, DebtsSame
  <2>5. LocalsOK'
    BY DEF TypeOK, LocalsOK
  <2>6. ListOK'
    BY <2>1 DEF TypeOK, ListOK
  <2>7. SpawnOK'
    BY <2>1 DEF TypeOK, ListOK, SpawnOK
  <2>8. Covered'
    BY <2>1 DEF TypeOK, Covered
  <2>9. OneBusy'
    BY DEF TypeOK, OneBusy, OneThread
  <2>10. OneThreadFindsAwaiter'
    BY DEF OneThreadFindsAwaiter, ReleaseFindsAwaiter, OneThread
  <2> QED
    BY <2>3, <2>4, <2>5, <2>6, <2>7, <2>8, <2>9, <2>10
<1>5. ASSUME NEW k \in Coros, ~ halted, Release(k) PROVE IndInv'
  <2> USE <1>5 DEF Release, Runs
  <2>1. Listed' = Listed /\ NoDuplicates'
    BY ListFrame DEF ListOK
  <2>3. TypeOK'
    BY DEF TypeOK
  <2>4. CountOK'
    <3>1. /\ k \in Owners /\ Owners' = Owners \ {k}
          /\ k \in Claimants /\ Claimants' = Claimants \ {k}
      BY DEF TypeOK, Owners, Claimants, In
    <3>2. /\ Cardinality(Claimants') = Cardinality(Claimants) - 1
          /\ Cardinality(Owners') = Cardinality(Owners) - 1
      BY <3>1, SetsFinite, FS_RemoveElement
    <3>a. counter \in Int /\ permits \in Nat /\ counter' = counter + 1 /\ permits' = permits
      BY DEF TypeOK
    <3>3. CASE counter >= 0
      <4>1. \A j \in Coros : Owes(j)' = Owes(j)
        BY <3>3 DEF TypeOK, Owes
      <4>2. Debts' = Debts
        BY <4>1, DebtsSame
      <4> HIDE <1>5
      <4> QED
        BY <3>a, <3>2, <3>3, <4>2, SetsFinite DEF CountOK, Free
    <3>4. CASE counter < 0
      <4>1. Owes(k) = 0 /\ Owes(k)' = 1 /\ \A j \in Coros \ {k} : Owes(j)' = Owes(j)
        BY <3>4 DEF TypeOK, Owes
      <4>2. Cardinality(Debts') = Cardinality(Debts) + 1
        BY <4>1, DebtOfOne
      <4> HIDE <1>5
      <4> QED
        BY <3>a, <3>2, <3>4, <4>2, SetsFinite DEF CountOK, Free
    <3> QED
      BY <3>3, <3>4 DEF TypeOK
  <2>5. LocalsOK'
    BY DEF TypeOK, LocalsOK
  <2>6. ListOK'
    BY <2>1 DEF TypeOK, ListOK
  <2>7. SpawnOK'
    BY <2>1 DEF TypeOK, ListOK, SpawnOK
  <2>8. Covered'
    BY <2>1 DEF TypeOK, Covered
  <2>9. OneBusy'
    BY DEF TypeOK, OneBusy, OneThread
  <2>10. OneThreadFindsAwaiter'
    BY DEF OneThreadFindsAwaiter, ReleaseFindsAwaiter, OneThread
  <2> QED
    BY <2>3, <2>4, <2>5, <2>6, <2>7, <2>8, <2>9, <2>10
<1>6. ASSUME NEW k \in Coros, ~ halted, ReleaseMany(k) PROVE IndInv'
  <2> USE <1>6 DEF ReleaseMany, Runs
  <2>1. Listed' = Listed /\ NoDuplicates'
    BY ListFrame DEF ListOK
  <2>3. TypeOK'
    BY DEF TypeOK
  <2>4. CountOK'
    <3>1. Owners' = Owners /\ Claimants' = Claimants
      BY DEF TypeOK, Owners, Claimants, In
    <3>2. PICK n \in Updates : /\ permits + n <= MaxPermits
                               /\ counter' = counter + n /\ permits' = permits + n
                               /\ pc' = [pc EXCEPT ![k] = IF counter >= 0 THEN "idle" ELSE "r_many"]
                               /\ update' = [update EXCEPT ![k] = IF counter >= 0 THEN 0
                                               ELSE IF -counter < n THEN -counter ELSE n]
      OBVIOUS
    <3> DEFINE m == IF counter >= 0 THEN 0 ELSE IF -counter < n THEN -counter ELSE n
    <3>3. n \in Nat /\ m \in 0..MaxPermits
      BY <3>2 DEF TypeOK
    <3>4. Owes(k) = 0 /\ Owes(k)' = m /\ \A j \in Coros \ {k} : Owes(j)' = Owes(j)
      BY <3>2 DEF TypeOK, Owes
    <3>5. Cardinality(Debts') = Cardinality(Debts) + m
      BY <3>3, <3>4, DebtOfMany
    <3>6. counter \in Int /\ permits \in Nat
      BY DEF TypeOK
    <3> HIDE <1>6
    <3>7. /\ Cardinality(Claimants') = Cardinality(Claimants)
          /\ Cardinality(Owners') = Cardinality(Owners)
      BY <3>1
    <3>8. counter' = permits' - Cardinality(Claimants')
      BY <3>2, <3>3, <3>6, <3>7, SetsFinite DEF CountOK
    <3>9. m + Free' = n + Free
      BY <3>2, <3>3, <3>6 DEF Free
    <3>10. Free \in Nat /\ Free' \in Nat
      BY <3>2, <3>3, <3>6 DEF Free
    <3>11. Cardinality(Owners') + Cardinality(Debts') + Free' = permits'
      <4>1. PICK d \in 0..MaxPermits : d = m
        BY <3>3
      <4>2. Cardinality(Debts') = Cardinality(Debts) + d /\ d + Free' = n + Free
        BY <3>5, <3>9, <4>1
      <4>3. Cardinality(Owners) + Cardinality(Debts) + Free = permits /\ permits' = permits + n
        BY <3>2 DEF CountOK
      <4>4. d \in Nat /\ n \in Nat
        BY <3>3
      <4>5. Cardinality(Owners) + (Cardinality(Debts) + d) + Free' = permits + n
        <5>1. PICK o \in Nat, c \in Nat, f \in Nat, g \in Nat, p \in Nat :
                /\ o = Cardinality(Owners) /\ c = Cardinality(Debts)
                /\ f = Free /\ g = Free' /\ p = permits
          BY <3>6, <3>10, SetsFinite
        <5>2. o + c + f = p /\ d + g = n + f
          BY <4>2, <4>3, <5>1
        <5>3. o + (c + d) + g = p + n
          BY <4>4, <5>2
        <5> QED
          BY <5>1, <5>3
      <4> QED
        BY <3>7, <4>2, <4>3, <4>5
    <3> QED
      BY <3>8, <3>11 DEF CountOK
  <2>5. LocalsOK'
    BY DEF TypeOK, LocalsOK
  <2>6. ListOK'
    BY <2>1 DEF TypeOK, ListOK
  <2>7. SpawnOK'
    BY <2>1 DEF TypeOK, ListOK, SpawnOK
  <2>8. Covered'
    BY <2>1 DEF TypeOK, Covered
  <2>9. OneBusy'
    BY DEF TypeOK, OneBusy, OneThread
  <2>10. OneThreadFindsAwaiter'
    BY DEF OneThreadFindsAwaiter, ReleaseFindsAwaiter, OneThread
  <2> QED
    BY <2>3, <2>4, <2>5, <2>6, <2>7, <2>8, <2>9, <2>10
<1>7. ASSUME NEW k \in Coros, ~ halted, SpawnNull(k) PROVE IndInv'
  <2> USE <1>7 DEF SpawnNull
  <2>1. Listed' = Listed /\ NoDuplicates'
    BY ListFrame DEF ListOK
  <2>3. TypeOK'
    BY DEF TypeOK
  <2>4. CountOK'
    <3>1. Owners' = Owners /\ Claimants' = Claimants
      BY DEF TypeOK, Owners, Claimants, In
    <3>2. \A j \in Coros : Owes(j)' = Owes(j)
      BY DEF TypeOK, Owes
    <3> QED
      BY <3>1, <3>2, CountFrame, DebtsSame
  <2>5. LocalsOK'
    BY DEF TypeOK, LocalsOK
  <2>6. ListOK'
    BY <2>1 DEF TypeOK, ListOK
  <2>7. SpawnOK'
    BY <2>1 DEF TypeOK, ListOK, SpawnOK
  <2>8. Covered'
    BY <2>1 DEF TypeOK, Covered
  <2>9. OneBusy'
    BY DEF TypeOK, OneBusy, OneThread
  <2>10. OneThreadFindsAwaiter'
    <3> SUFFICES ASSUME OneThread PROVE FALSE
      BY DEF OneThreadFindsAwaiter, OneThread
    <3>1. <<k, 1>> \in Debts
      BY DEF TypeOK, LocalsOK, Debts, Owes
    <3>2. Cardinality(Debts) # 0
      BY <3>1, SetsFinite, FS_EmptySet
    <3>3. Claimants # Owners
      <4>1. counter \in Int /\ permits \in Nat
        BY DEF TypeOK
      <4> HIDE <1>7
      <4> QED
        BY <3>2, <4>1, SetsFinite DEF CountOK, Free
    <3>4. PICK j \in Coros : pc[j] \in {"push", "waiting"}
      BY <3>3 DEF Claimants, Owners, In
    <3>5. pc[j] = "waiting"
      BY <3>4 DEF OneBusy
    <3>6. j \notin Listed
      BY NothingListed
    <3>7. PICK i \in Coros : pc[i] = "r_spawn"
      BY <3>5, <3>6 DEF Covered
    <3> QED
      BY <3>7 DEF OneBusy
  <2> QED
    BY <2>3, <2>4, <2>5, <2>6, <2>7, <2>8, <2>9, <2>10
<1>8. ASSUME NEW k \in Coros, ~ halted, TryRelease(k) PROVE IndInv'
  <2> USE <1>8 DEF TryRelease
  <2> DEFINE h == Head(Candidates)
  <2>1. /\ h \in Coros /\ h \in Listed /\ awaiting' \in Seq(Coros) /\ to_resume' \in Seq(Coros)
        /\ NoDuplicates' /\ Listed' = Listed \ {h}
    BY TakeFirstOK DEF ListOK
  <2>2. pc[h] = "waiting" /\ h # k
    BY <2>1 DEF ListOK
  <2> HIDE DEF h
  <2>3. TypeOK'
    BY <2>1 DEF TypeOK, h
  <2>4. CountOK'
    <3>1. Owners' = Owners /\ Claimants' = Claimants
      BY <2>1, <2>2 DEF TypeOK, Owners, Claimants, In
    <3>2. \A j \in Coros : Owes(j)' = Owes(j)
      BY <2>1, <2>2 DEF TypeOK, Owes
    <3> QED
      BY <3>1, <3>2, CountFrame, DebtsSame
  <2>5. LocalsOK'
    BY DEF TypeOK, LocalsOK
  <2>6. ListOK'
    BY <2>1, <2>2 DEF TypeOK, ListOK, h
  <2>7. SpawnOK'
    BY <2>1, <2>2 DEF TypeOK, ListOK, SpawnOK, h
  <2>8. Covered'
    BY <2>1, <2>2 DEF TypeOK, Covered, h
  <2>9. OneBusy'
    BY <2>1, <2>2 DEF TypeOK, OneBusy, OneThread, h
  <2>10. OneThreadFindsAwaiter'
    BY DEF OneThreadFindsAwaiter, ReleaseFindsAwaiter, OneThread
  <2> QED
    BY <2>3, <2>4, <2>5, <2>6, <2>7, <2>8, <2>9, <2>10
<1>9. ASSUME NEW k \in Coros, ~ halted, CoSpawn(k) PROVE IndInv'
  <2> USE <1>9 DEF CoSpawn
  <2> DEFINE h == awaken[k]
  <2>1. Listed' = Listed /\ NoDuplicates'
    BY ListFrame DEF ListOK
  <2>2. h \in Coros /\ pc[h] = "waiting" /\ h # k /\ h \notin Listed
    BY DEF SpawnOK
  <2>a. \A j \in Coros : pc'[j] = IF j = h THEN "ready" ELSE IF j = k THEN "idle" ELSE pc[j]
    BY <2>2 DEF TypeOK
  <2>3. TypeOK'
    BY <2>2 DEF TypeOK
  <2>4. CountOK'
    <3>1. h \notin Owners /\ Owners' = Owners \cup {h} /\ Claimants' = Claimants
      BY <2>1, <2>2 DEF TypeOK, Owners, Claimants, In
    <3>2. Cardinality(Owners') = Cardinality(Owners) + 1
      BY <3>1, SetsFinite, FS_AddElement
    <3>3. /\ Owes(k) \in 1..MaxPermits + 1 /\ Owes(k)' = Owes(k) - 1
          /\ \A j \in Coros \ {k} : Owes(j)' = Owes(j)
      BY <2>1, <2>2 DEF TypeOK, LocalsOK, Owes
    <3>4. Cardinality(Debts') = Cardinality(Debts) - 1
      BY <3>3, DebtPaid
    <3> QED
      BY <3>1, <3>2, <3>4, SetsFinite DEF TypeOK, CountOK, Free
  <2>5. LocalsOK'
    BY DEF TypeOK, LocalsOK
  <2>6. ListOK'
    BY <2>1, <2>2, <2>a, ListedCoros DEF ListOK
  <2>7. SpawnOK'
    BY <2>1, <2>2 DEF TypeOK, ListOK, SpawnOK
  <2>8. Covered'
    BY <2>1, <2>2 DEF TypeOK, Covered
  <2>9. OneBusy'
    BY <2>2, <2>a DEF OneBusy, OneThread
  <2>10. OneThreadFindsAwaiter'
    BY DEF OneThreadFindsAwaiter, ReleaseFindsAwaiter, OneThread
  <2> QED
    BY <2>3, <2>4, <2>5, <2>6, <2>7, <2>8, <2>9, <2>10
<1>10. ASSUME NEW k \in Coros, ~ halted, LockNotifier(k) PROVE IndInv'
  <2> USE <1>10 DEF LockNotifier
  <2>1. Listed' = Listed /\ NoDuplicates'
    BY ListFrame DEF ListOK
  <2>3. TypeOK'
    BY DEF TypeOK
  <2>4. CountOK'
    <3>1. Owners' = Owners /\ Claimants' = Claimants
      BY DEF TypeOK, Owners, Claimants, In
    <3>2. \A j \in Coros : Owes(j)' = Owes(j)
      BY DEF TypeOK, Owes
    <3> QED
      BY <3>1, <3>2, CountFrame, DebtsSame
  <2>5. LocalsOK'
    BY DEF TypeOK, LocalsOK
  <2>6. ListOK'
    BY <2>1 DEF TypeOK, ListOK
  <2>7. SpawnOK'
    BY <2>1 DEF TypeOK, ListOK, SpawnOK
  <2>8. Covered'
    BY <2>1 DEF TypeOK, Covered
  <2>9. OneBusy'
    BY DEF TypeOK, OneBusy, OneThread
  <2>10. OneThreadFindsAwaiter'
    BY DEF OneThreadFindsAwaiter, ReleaseFindsAwaiter, OneThread
  <2> QED
    BY <2>3, <2>4, <2>5, <2>6, <2>7, <2>8, <2>9, <2>10
<1>11. ASSUME NEW k \in Coros, ~ halted, ReleaseLoop(k) PROVE IndInv'
  <2> USE <1>11 DEF ReleaseLoop
  <2> DEFINE h == Head(Candidates)
  <2>1. /\ h \in Coros /\ h \in Listed /\ awaiting' \in Seq(Coros) /\ to_resume' \in Seq(Coros)
        /\ NoDuplicates' /\ Listed' = Listed \ {h}
    BY TakeFirstOK DEF ListOK
  <2>2. pc[h] = "waiting" /\ h # k
    BY <2>1 DEF ListOK
  <2> HIDE DEF h
  <2>a. \A j \in Coros : pc'[j] = IF j = h THEN "ready"
                                  ELSE IF j = k /\ update[k] <= 1 THEN "idle" ELSE pc[j]
    BY <2>1, <2>2 DEF TypeOK, h
  <2>3. TypeOK'
    <3>1. pc' \in [Coros -> Busy \cup {"idle", "waiting", "ready", "held"}]
      BY <2>1 DEF TypeOK, h
    <3>2. update' \in [Coros -> Nat]
      BY DEF TypeOK
    <3> QED
      BY <2>1, <3>1, <3>2 DEF TypeOK
  <2>4. CountOK'
    <3>1. h \notin Owners /\ Owners' = Owners \cup {h} /\ Claimants' = Claimants
      BY <2>1, <2>2 DEF TypeOK, Owners, Claimants, In, h
    <3>2. Cardinality(Owners') = Cardinality(Owners) + 1
      BY <3>1, SetsFinite, FS_AddElement
    <3>3. /\ Owes(k) \in 1..MaxPermits + 1 /\ Owes(k)' = Owes(k) - 1
          /\ \A j \in Coros \ {k} : Owes(j)' = Owes(j)
      BY <2>1, <2>2 DEF TypeOK, LocalsOK, Owes, h
    <3>4. Cardinality(Debts') = Cardinality(Debts) - 1
      BY <3>3, DebtPaid
    <3> QED
      BY <3>1, <3>2, <3>4, SetsFinite DEF TypeOK, CountOK, Free
  <2>5. LocalsOK'
    BY DEF TypeOK, LocalsOK
  <2>6. ListOK'
    BY <2>1, <2>2, <2>a, ListedCoros DEF ListOK
  <2>7. SpawnOK'
    BY <2>1, <2>2 DEF TypeOK, ListOK, SpawnOK, h
  <2>8. Covered'
    BY <2>1, <2>2 DEF TypeOK, Covered, h
  <2>9. OneBusy'
    BY <2>1, <2>2 DEF TypeOK, OneBusy, OneThread, h
  <2>10. OneThreadFindsAwaiter'
    BY DEF OneThreadFindsAwaiter, ReleaseFindsAwaiter, OneThread
  <2> QED
    BY <2>3, <2>4, <2>5, <2>6, <2>7, <2>8, <2>9, <2>10
<1>12. CASE UNCHANGED vars
  <2> USE <1>12 DEF vars
  <2>1. Listed' = Listed /\ NoDuplicates'
    BY ListFrame DEF ListOK
  <2>2. Owners' = Owners /\ Claimants' = Claimants /\ \A j \in Coros : Owes(j)' = Owes(j)
    BY DEF Owners, Claimants, In, Owes
  <2>3. CountOK'
    BY <2>2, CountFrame, DebtsSame
  <2> QED
    BY <2>1, <2>3 DEF TypeOK, LocalsOK, ListOK, SpawnOK, Covered, OneBusy, OneThread,
                      OneThreadFindsAwaiter, ReleaseFindsAwaiter
<1> QED
  BY <1>1, <1>2, <1>3, <1>4, <1>5, <1>6, <1>7, <1>8, <1>9, <1>10, <1>11, <1>12 DEF Next, Step

-----------------------------------------------------------------------------
\* The inductive invariant holds in every reachable state of a program that does
\* not call release(0).
THEOREM SemaphoreInvariant ==
  ASSUME 0 \notin Updates
  PROVE  Spec => []IndInv
<1>1. IndInv /\ [Next]_vars => IndInv'
  BY IndInvStep
<1> QED
  BY IndInvInit, <1>1, PTL DEF Spec

\* Never more owners of a unit than units, for any number of coroutines on any
\* contexts and any mix of acquire(), try_acquire(), release() and
\* release(update) with update > 0.
THEOREM SemaphorePermitsRespected ==
  ASSUME 0 \notin Updates
  PROVE  Spec => []PermitsRespected
<1>1. IndInv => PermitsRespected
  <2> SUFFICES ASSUME IndInv PROVE PermitsRespected
    OBVIOUS
  <2>1. TypeOK /\ counter \in Int /\ permits \in Nat
    BY DEF IndInv, TypeOK
  <2>2. Free \in Nat
    BY <2>1 DEF Free
  <2>3. Cardinality(Owners) + Cardinality(Debts) + Free = permits
    BY DEF IndInv, CountOK
  <2>4. Cardinality(Owners) <= permits
    BY <2>1, <2>2, <2>3, SetsFinite
  <2> QED
    BY <2>1, <2>4 DEF PermitsRespected, Owners
<1> QED
  BY <1>1, SemaphoreInvariant, PTL

\* While a coroutine is suspended in acquire() and a unit has no owner, some
\* release is under way that owes it: no interleaving of the gap in acquire()
\* with releases strands a waiter beside a free unit.
THEOREM SemaphoreLosesNoPermit ==
  ASSUME 0 \notin Updates
  PROVE  Spec => []NoLostPermit
<1>1. IndInv => NoLostPermit
  <2> SUFFICES ASSUME IndInv, In({"waiting"}) # {}, Cardinality(Owners) < permits, Releasing = {}
               PROVE  FALSE
    BY DEF NoLostPermit, Owners
  <2>1. counter \in Int /\ permits \in Nat
    BY DEF IndInv, TypeOK
  <2>2. Debts = {}
    <3>1. \A k \in Coros : Owes(k) = 0
      BY DEF IndInv, TypeOK, Releasing, In, Owes
    <3> QED
      BY <3>1 DEF Debts
  <2>3. Cardinality(Debts) = 0
    BY <2>2, FS_EmptySet
  <2>4. Cardinality(Claimants) = Cardinality(Owners)
    BY <2>1, <2>3, SetsFinite DEF IndInv, CountOK, Free
  <2>5. Owners \in SUBSET Claimants
    BY DEF Owners, Claimants, In
  <2>6. Owners = Claimants
    BY <2>4, <2>5, SetsFinite, FS_Subset
  <2> QED
    BY <2>6 DEF Owners, Claimants, In
<1> QED
  BY <1>1, SemaphoreInvariant, PTL

\* On one io_context no release co_spawns through the null pointer that
\* try_release() returns when both lists are empty.
THEOREM SemaphoreOneThread ==
  ASSUME 0 \notin Updates
  PROVE  Spec => []OneThreadFindsAwaiter
<1>1. IndInv => OneThreadFindsAwaiter
  BY DEF IndInv
<1> QED
  BY <1>1, SemaphoreInvariant, PTL
=============================================================================
