--------------------------- MODULE RuntimeProofs ---------------------------
(***************************************************************************)
(* Proofs about the event loop, for any contexts, coroutines and programs, *)
(* and before that about SpscCursor, on which its reap_swap rests, for     *)
(* every width of the indices, every capacity that divides it and any      *)
(* items.                                                                  *)
(***************************************************************************)
EXTENDS SpscCursor, IoContext, FiniteSetTheorems, WellFoundedInduction, TLAPS

\* What the locals of the two sides stand for while they are busy.
LocalsOK ==
  /\ producer # "busy" => filled = <<>>
  /\ producer = "busy" => Len(filled) <= room /\ room <= capacity - Len(queue)
  /\ consumer # "busy" => taken = <<>>
  /\ consumer = "busy" => Len(taken) <= ready /\ ready <= Len(queue)

\* The slots behind the published ones hold what is to be published next.
FilledInOrder == \A i \in 1..Len(filled) : slots[Slot(m_tail, i - 1)] = filled[i]

IndInv == /\ CursorTypeOK /\ SizeIsExact /\ LocalsOK
          /\ FilledInOrder /\ SlotsInOrder /\ NoMissedWakeup

-----------------------------------------------------------------------------
\* Arithmetic of the indices.

\* Words are at least twice as wide as the ring.
LEMMA Widths == Word \in Nat /\ capacity \in Nat /\ capacity >= 1 /\ 2 * capacity <= Word
<1>1. PICK n \in 2..Word : Word = n * capacity
  BY CursorAssumption
<1>2. n * capacity >= 2 * capacity
  BY <1>1, CursorAssumption, SMT
<1> QED
  BY <1>1, <1>2, CursorAssumption

\* An index moves by less than the capacity: size() follows.
LEMMA SizeAfterPush ==
  ASSUME NEW h \in Index, NEW t \in Index, NEW k \in Nat, Sub(t, h) + k <= capacity
  PROVE  Add(t, k) \in Index /\ Sub(Add(t, k), h) = Sub(t, h) + k
BY Widths, SMT DEF Index, Add, Sub

\* Popping k items takes k off the size, across the wrap of the index too.
LEMMA SizeAfterPop ==
  ASSUME NEW h \in Index, NEW t \in Index, NEW k \in Nat,
         k <= Sub(t, h), Sub(t, h) <= capacity
  PROVE  Add(h, k) \in Index /\ Sub(t, Add(h, k)) = Sub(t, h) - k
BY Widths, SMT DEF Index, Add, Sub

\* m_head is head_full exactly when the slots are used up.
LEMMA FullIsFull ==
  ASSUME NEW h \in Index, NEW t \in Index, Sub(t, h) <= capacity
  PROVE  h = Sub(t, capacity) <=> Sub(t, h) = capacity
BY Widths, SMT DEF Index, Sub

\* is_empty() compares the indices: equal exactly when the size is 0.
LEMMA EmptyIsEmpty ==
  ASSUME NEW h \in Index, NEW t \in Index
  PROVE  t = h <=> Sub(t, h) = 0
BY Widths, SMT DEF Index, Sub

\* The size is a number of items.
LEMMA SizeNat ==
  ASSUME NEW h \in Index, NEW t \in Index
  PROVE  Sub(t, h) \in Nat
BY Widths, SMT DEF Index, Sub

\* Slots are counted from either index alike.
LEMMA SlotShift ==
  ASSUME NEW h \in Index, NEW k \in 0..capacity, NEW i \in 0..capacity - 1
  PROVE  k + i < capacity => Slot(Add(h, k), i) = Slot(h, k + i)
<1>1. k + i < capacity => Add(Add(h, k), i) = Add(h, k + i)
  BY Widths, SMT DEF Index, Add
<1> QED
  BY <1>1 DEF Slot

\* The tail is the head advanced by the size.
LEMMA TailFromHead ==
  ASSUME NEW h \in Index, NEW t \in Index
  PROVE  t = Add(h, Sub(t, h))
BY Widths, SMT DEF Index, Add, Sub

\* An index is masked into the ring.
LEMMA SlotRange ==
  ASSUME NEW h \in Index, NEW i \in Nat
  PROVE  Slot(h, i) \in 0..capacity - 1
BY Widths, SMT DEF Index, Slot, Add

\* A multiple of the capacity that is smaller than it is 0.
LEMMA SmallMultiple ==
  ASSUME NEW d \in Int, capacity * d < capacity, -capacity < capacity * d
  PROVE  d = 0
<1>1. CASE d >= 1
  BY <1>1, Widths, SMT
<1>2. CASE d <= -1
  BY <1>2, Widths, SMT
<1> QED
  BY <1>1, <1>2

\* What a remainder leaves is a multiple of the capacity.
LEMMA Remainder ==
  ASSUME NEW x \in Nat, NEW r \in Int, r = x % capacity
  PROVE  \E a \in Int : x - r = a * capacity
BY Widths, SMT

\* Two indices of the same slot differ by a multiple of the capacity.
LEMMA SameRemainder ==
  ASSUME NEW x \in Nat, NEW y \in Nat, x % capacity = y % capacity
  PROVE  \E d \in Int : x - y = capacity * d
<1>1. PICK r \in Int : r = x % capacity /\ r = y % capacity
  BY Widths, SMT
<1>2. PICK a \in Int : x - r = a * capacity
  BY <1>1, Remainder
<1>3. PICK b \in Int : y - r = b * capacity
  BY <1>1, Remainder
<1>5. x - y = a * capacity - b * capacity
  <2>1. x - y = (x - r) - (y - r)
    OBVIOUS
  <2> QED
    BY <1>2, <1>3, <2>1
<1>6. a * capacity - b * capacity = capacity * (a - b)
  BY Widths, SMT
<1> QED
  BY <1>5, <1>6

\* Less than `capacity' apart, slots differ, wrapped or not.
LEMMA SlotsDiffer ==
  ASSUME NEW h \in Index, NEW i \in 0..capacity - 1, NEW j \in 0..capacity - 1,
         Slot(h, i) = Slot(h, j)
  PROVE  i = j
<1>1. Add(h, i) \in Nat /\ Add(h, j) \in Nat
  BY Widths, SMT DEF Index, Add
<1>2. PICK d \in Int : Add(h, i) - Add(h, j) = capacity * d
  BY <1>1, SameRemainder, Zenon DEF Slot
<1>3. \/ Add(h, i) - Add(h, j) = i - j
      \/ Add(h, i) - Add(h, j) = i - j - Word
      \/ Add(h, i) - Add(h, j) = i - j + Word
  BY Widths, SMT DEF Index, Add
<1>4. PICK n \in 2..Word : Word = n * capacity
  BY CursorAssumption
<1>5. \/ i - j = capacity * d
      \/ i - j = capacity * d + n * capacity
      \/ i - j = capacity * d - n * capacity
  BY <1>1, <1>2, <1>3, <1>4, Widths, SMT
<1>6. PICK e \in Int : i - j = capacity * e
  <2>1. /\ capacity * d + n * capacity = capacity * (d + n)
        /\ capacity * d - n * capacity = capacity * (d - n)
    BY Widths, SMT
  <2> QED
    BY <1>5, <2>1
<1>7. e = 0
  BY <1>6, SmallMultiple, Widths
<1> QED
  BY <1>6, <1>7, Widths

-----------------------------------------------------------------------------
\* Initially both sides wait and nothing is published.
LEMMA IndInvInit == CursorInit => IndInv
<1> SUFFICES ASSUME CursorInit PROVE IndInv
  OBVIOUS
<1>1. CursorTypeOK
  BY Widths, SMT DEF CursorInit, CursorTypeOK, Index, States
<1>2. size = 0
  BY Widths, EmptyIsEmpty DEF CursorInit, size, Index
<1> QED
  BY <1>1, <1>2, Widths
     DEF CursorInit, IndInv, SizeIsExact, LocalsOK, FilledInOrder, SlotsInOrder, NoMissedWakeup

\* The invariant without its slots, step by step: each index moves by what was
\* filled or taken, so size() stays the length of the queue.
LEMMA IndexStep == IndInv /\ CursorNext => CursorTypeOK' /\ SizeIsExact' /\ LocalsOK'
<1> SUFFICES ASSUME IndInv, CursorNext PROVE CursorTypeOK' /\ SizeIsExact' /\ LocalsOK'
  OBVIOUS
<1> USE DEF IndInv
<1>1. CASE SleepOnHead
  BY <1>1, Zenon DEF SleepOnHead, CursorTypeOK, SizeIsExact, LocalsOK, size, States
<1>2. CASE wait_for_available
  <2>1. available_number \in Nat /\ available_number = capacity - Len(queue)
    BY Widths DEF available_number, SizeIsExact, CursorTypeOK
  <2> QED
    BY <1>2, <2>1 DEF wait_for_available, CursorTypeOK, SizeIsExact, LocalsOK, size, States
<1>3. ASSUME NEW v \in Items, Fill(v) PROVE CursorTypeOK' /\ SizeIsExact' /\ LocalsOK'
  <2>1. Slot(m_tail, Len(filled)) \in 0..capacity - 1
    BY SlotRange DEF CursorTypeOK
  <2>2. filled' \in Seq(Items) /\ Len(filled') = Len(filled) + 1
    BY <1>3 DEF Fill, CursorTypeOK
  <2>3. CursorTypeOK'
    BY <1>3, <2>1, <2>2 DEF Fill, CursorTypeOK
  <2> QED
    BY <1>3, <2>2, <2>3 DEF Fill, SizeIsExact, LocalsOK, size, CursorTypeOK
<1>4. CASE push
  <2>1. Sub(m_tail, m_head) + Len(filled) <= capacity
    BY <1>4, Widths DEF push, LocalsOK, SizeIsExact, size, CursorTypeOK
  <2>2. m_tail' \in Index /\ size' = Len(queue) + Len(filled)
    <3>1. Len(filled) \in Nat /\ m_head \in Index /\ m_tail \in Index
      BY DEF CursorTypeOK
    <3>2. /\ Add(m_tail, Len(filled)) \in Index
          /\ Sub(Add(m_tail, Len(filled)), m_head) = Sub(m_tail, m_head) + Len(filled)
      BY <2>1, <3>1, SizeAfterPush
    <3> QED
      BY <1>4, <3>2 DEF push, SizeIsExact, size
  <2>3. queue' \in Seq(Items) /\ Len(queue') = Len(queue) + Len(filled)
    BY <1>4 DEF push, CursorTypeOK
  <2>4. filled' \in Seq(Items) /\ filled' = <<>>
    BY <1>4 DEF push
  <2> QED
    BY <1>4, <2>1, <2>2, <2>3, <2>4, Widths
       DEF push, CursorTypeOK, SizeIsExact, LocalsOK, size, States
<1>5. CASE push_notify
  BY <1>5 DEF push_notify, CursorTypeOK, SizeIsExact, LocalsOK, size, States
<1>6. CASE SleepOnTail
  BY <1>6, Zenon DEF SleepOnTail, CursorTypeOK, SizeIsExact, LocalsOK, size, States
<1>7. CASE wait_for_not_empty
  <2>1. size \in Nat /\ size = Len(queue)
    BY DEF SizeIsExact, CursorTypeOK
  <2> QED
    BY <1>7, <2>1 DEF wait_for_not_empty, CursorTypeOK, SizeIsExact, LocalsOK, size, States
<1>8. CASE Take
  <2>1. slots[Slot(m_head, Len(taken))] \in Items
    BY SlotRange DEF CursorTypeOK
  <2>2. taken' \in Seq(Items) /\ Len(taken') = Len(taken) + 1
    BY <1>8, <2>1 DEF Take, CursorTypeOK
  <2> QED
    BY <1>8, <2>2 DEF Take, CursorTypeOK, SizeIsExact, LocalsOK, size
<1>9. CASE pop
  <2>1. Len(taken) <= Sub(m_tail, m_head) /\ Sub(m_tail, m_head) <= capacity
    BY <1>9, Widths DEF pop, LocalsOK, SizeIsExact, size, CursorTypeOK
  <2>2. m_head' \in Index /\ size' = Len(queue) - Len(taken)
    BY <1>9, <2>1, SizeAfterPop DEF pop, SizeIsExact, size, CursorTypeOK
  <2>3. queue' \in Seq(Items) /\ Len(queue') = Len(queue) - Len(taken)
    BY <1>9, <2>1 DEF pop, SizeIsExact, size, CursorTypeOK
  <2>4. taken' \in Seq(Items) /\ taken' = <<>>
    BY <1>9 DEF pop
  <2>5. producer = "busy" => room <= capacity - Len(queue')
    BY <2>3, Widths DEF LocalsOK, CursorTypeOK
  <2> QED
    BY <1>9, <2>1, <2>2, <2>3, <2>4, <2>5, Widths, SMTT(40)
       DEF pop, CursorTypeOK, SizeIsExact, LocalsOK, size, States
<1>10. CASE pop_notify
  BY <1>10 DEF pop_notify, CursorTypeOK, SizeIsExact, LocalsOK, size, States
<1> QED
  BY <1>1, <1>2, <1>3, <1>4, <1>5, <1>6, <1>7, <1>8, <1>9, <1>10 DEF CursorNext

-----------------------------------------------------------------------------
\* Slot i behind the published ones, counted from the head.
LEMMA BehindQueue ==
  ASSUME IndInv, NEW i \in Nat, Len(queue) + i < capacity
  PROVE  Slot(m_tail, i) = Slot(m_head, Len(queue) + i)
<1>1. /\ m_head \in Index /\ m_tail \in Index /\ Len(queue) \in Nat
      /\ Sub(m_tail, m_head) = Len(queue)
  BY DEF IndInv, CursorTypeOK, SizeIsExact, size
<1>2. m_tail = Add(m_head, Len(queue))
  BY <1>1, TailFromHead
<1>3. Len(queue) \in 0..capacity /\ i \in 0..capacity - 1
  BY <1>1, Widths
<1> QED
  BY <1>1, <1>2, <1>3, SlotShift

\* A slot that is filled is neither published nor filled before.
LEMMA FillFresh ==
  ASSUME IndInv, producer = "busy", Len(filled) < room
  PROVE  /\ \A i \in 1..Len(queue) : Slot(m_head, i - 1) # Slot(m_tail, Len(filled))
         /\ \A i \in 1..Len(filled) : Slot(m_tail, i - 1) # Slot(m_tail, Len(filled))
<1>1. /\ m_head \in Index /\ m_tail \in Index /\ Len(queue) \in Nat /\ Len(filled) \in Nat
      /\ Len(queue) + Len(filled) < capacity
  BY Widths DEF IndInv, CursorTypeOK, LocalsOK
<1>2. Slot(m_tail, Len(filled)) = Slot(m_head, Len(queue) + Len(filled))
  BY <1>1, BehindQueue
<1>3. ASSUME NEW i \in 1..Len(queue), Slot(m_head, i - 1) = Slot(m_tail, Len(filled))
      PROVE  FALSE
  <2>1. i - 1 \in 0..capacity - 1 /\ Len(queue) + Len(filled) \in 0..capacity - 1
    BY <1>1, Widths
  <2>2. i - 1 = Len(queue) + Len(filled)
    BY <1>1, <1>2, <1>3, <2>1, SlotsDiffer
  <2> QED
    BY <1>1, <2>2
<1>4. ASSUME NEW i \in 1..Len(filled), Slot(m_tail, i - 1) = Slot(m_tail, Len(filled))
      PROVE  FALSE
  <2>1. i - 1 \in 0..capacity - 1 /\ Len(filled) \in 0..capacity - 1
    BY <1>1, Widths
  <2>2. i - 1 = Len(filled)
    BY <1>1, <1>4, <2>1, SlotsDiffer
  <2> QED
    BY <1>1, <2>2
<1> QED
  BY <1>3, <1>4

\* The slots keep what is published, and what is to be, through every step.
LEMMA SlotStep == IndInv /\ CursorNext => FilledInOrder' /\ SlotsInOrder'
<1> SUFFICES ASSUME IndInv, CursorNext PROVE FilledInOrder' /\ SlotsInOrder'
  OBVIOUS
<1>0. CursorTypeOK /\ SizeIsExact /\ LocalsOK /\ FilledInOrder /\ SlotsInOrder
  BY DEF IndInv
<1>1. CASE SleepOnHead \/ wait_for_available \/ push_notify \/ SleepOnTail
           \/ wait_for_not_empty \/ pop_notify
  BY <1>0, <1>1, Zenon DEF FilledInOrder, SlotsInOrder, Slot, SleepOnHead, wait_for_available,
     push_notify, SleepOnTail, wait_for_not_empty, pop_notify
<1>2. ASSUME NEW v \in Items, Fill(v) PROVE FilledInOrder' /\ SlotsInOrder'
  <2> DEFINE s == Slot(m_tail, Len(filled))
  <2>1. s \in 0..capacity - 1 /\ slots \in [0..capacity - 1 -> Items]
    BY <1>0, SlotRange DEF CursorTypeOK
  <2>2. slots'[s] = v /\ \A t \in 0..capacity - 1 : t # s => slots'[t] = slots[t]
    BY <1>2, <2>1 DEF Fill
  <2>3. /\ \A i \in 1..Len(queue) : Slot(m_head, i - 1) # s
        /\ \A i \in 1..Len(filled) : Slot(m_tail, i - 1) # s
    BY <1>2, FillFresh DEF Fill
  <2>4. /\ Len(filled) \in Nat /\ Len(queue) \in Nat /\ m_head \in Index /\ m_tail \in Index
        /\ filled \in Seq(Items)
    BY <1>0 DEF CursorTypeOK
  <2>5. /\ \A i \in 1..Len(queue) : Slot(m_head, i - 1) \in 0..capacity - 1
        /\ \A i \in 1..Len(filled) : Slot(m_tail, i - 1) \in 0..capacity - 1
    <3>1. \A i \in 1..Len(queue) : i - 1 \in Nat
      BY <2>4
    <3>2. \A i \in 1..Len(filled) : i - 1 \in Nat
      BY <2>4
    <3> QED
      BY <2>4, <3>1, <3>2, SlotRange, Zenon
  <2> HIDE DEF s
  <2>6. \A i \in 1..Len(queue) : slots'[Slot(m_head, i - 1)] = queue[i]
    BY <1>0, <2>2, <2>3, <2>5 DEF SlotsInOrder
  <2>7. \A i \in 1..Len(filled) : slots'[Slot(m_tail, i - 1)] = filled[i]
    BY <1>0, <2>2, <2>3, <2>5 DEF FilledInOrder
  <2>8. /\ Len(filled') = Len(filled) + 1 /\ filled'[Len(filled) + 1] = v
        /\ \A i \in 1..Len(filled) : filled'[i] = filled[i]
    BY <1>2, <2>4 DEF Fill
  <2>9. slots'[Slot(m_tail, (Len(filled) + 1) - 1)] = v
    <3>1. (Len(filled) + 1) - 1 = Len(filled)
      BY <2>4
    <3> QED
      BY <2>2, <3>1 DEF s
  <2>10. \A i \in 1..Len(filled') : i \in 1..Len(filled) \/ i = Len(filled) + 1
    BY <2>4, <2>8
  <2>11. \A i \in 1..Len(filled') : slots'[Slot(m_tail, i - 1)] = filled'[i]
    BY <2>7, <2>8, <2>9, <2>10, Zenon
  <2>12. m_head' = m_head /\ m_tail' = m_tail /\ queue' = queue /\ taken' = taken
    BY <1>2 DEF Fill
  <2> QED
    BY <1>0, <2>6, <2>11, <2>12 DEF FilledInOrder, SlotsInOrder, Slot
<1>3. CASE push
  <2>1. /\ Len(filled) \in Nat /\ Len(queue) \in Nat /\ queue \in Seq(Items)
        /\ filled \in Seq(Items) /\ taken \in Seq(Items)
        /\ Len(queue) + Len(filled) <= capacity
    BY <1>0, <1>3, Widths DEF push, LocalsOK, CursorTypeOK
  <2>2. /\ Len(queue') = Len(queue) + Len(filled)
        /\ \A i \in 1..Len(queue) : queue'[i] = queue[i]
        /\ \A i \in 1..Len(filled) : queue'[Len(queue) + i] = filled[i]
    BY <1>3, <2>1 DEF push
  <2>3. \A i \in 1..Len(filled) : slots[Slot(m_head, Len(queue) + (i - 1))] = filled[i]
    <3> SUFFICES ASSUME NEW i \in 1..Len(filled)
                 PROVE  slots[Slot(m_head, Len(queue) + (i - 1))] = filled[i]
      OBVIOUS
    <3>1. i - 1 \in Nat /\ Len(queue) + (i - 1) < capacity
      BY <2>1, Widths
    <3>2. Slot(m_tail, i - 1) = Slot(m_head, Len(queue) + (i - 1))
      BY <3>1, BehindQueue
    <3> QED
      BY <1>0, <3>2 DEF FilledInOrder
  <2>4. ASSUME NEW i \in 1..Len(queue') PROVE slots[Slot(m_head, i - 1)] = queue'[i]
    <3>1. CASE i \in 1..Len(queue)
      BY <1>0, <2>2, <3>1 DEF SlotsInOrder
    <3>2. CASE i \notin 1..Len(queue)
      <4>1. /\ i - Len(queue) \in 1..Len(filled)
            /\ Len(queue) + (i - Len(queue)) = i
            /\ Len(queue) + ((i - Len(queue)) - 1) = i - 1
        BY <2>1, <2>2, <2>4, <3>2
      <4> QED
        BY <2>2, <2>3, <4>1, ZenonT(40)
    <3> QED
      BY <3>1, <3>2
  <2>5. /\ m_head' = m_head /\ slots' = slots /\ taken' = taken /\ filled' = <<>>
    BY <1>3 DEF push
  <2>6. FilledInOrder'
    BY <2>5 DEF FilledInOrder
  <2>7. \A i \in 1..Len(taken) : i <= Len(queue') /\ taken[i] = queue'[i]
    BY <1>0, <2>1, <2>2 DEF SlotsInOrder
  <2> QED
    BY <2>4, <2>5, <2>6, <2>7 DEF SlotsInOrder, Slot
<1>4. CASE Take
  <2>1. /\ Len(taken) \in Nat /\ Len(queue) \in Nat /\ taken \in Seq(Items)
        /\ Len(taken) + 1 <= Len(queue) /\ m_head \in Index
    BY <1>0, <1>4 DEF Take, LocalsOK, CursorTypeOK
  <2>2. /\ Len(taken') = Len(taken) + 1
        /\ taken'[Len(taken) + 1] = slots[Slot(m_head, Len(taken))]
        /\ \A i \in 1..Len(taken) : taken'[i] = taken[i]
    BY <1>4, <2>1 DEF Take
  <2>3. slots[Slot(m_head, Len(taken))] = queue[Len(taken) + 1]
    <3>1. Len(taken) + 1 \in 1..Len(queue) /\ (Len(taken) + 1) - 1 = Len(taken)
      BY <2>1
    <3>2. slots[Slot(m_head, (Len(taken) + 1) - 1)] = queue[Len(taken) + 1]
      BY <1>0, <3>1, Zenon DEF SlotsInOrder
    <3> QED
      BY <3>1, <3>2, Zenon
  <2>4. \A i \in 1..Len(taken') : i <= Len(queue) /\ taken'[i] = queue[i]
    BY <1>0, <2>1, <2>2, <2>3 DEF SlotsInOrder
  <2>5. m_head' = m_head /\ m_tail' = m_tail /\ slots' = slots /\ queue' = queue /\ filled' = filled
    BY <1>4 DEF Take
  <2> QED
    BY <1>0, <2>4, <2>5, Zenon DEF SlotsInOrder, FilledInOrder, Slot
<1>5. CASE pop
  <2>1. /\ Len(taken) \in Nat /\ Len(queue) \in Nat /\ queue \in Seq(Items)
        /\ Len(taken) <= Len(queue) /\ Len(queue) <= capacity /\ m_head \in Index
    BY <1>0, <1>5, Widths DEF pop, LocalsOK, CursorTypeOK, SizeIsExact
  <2>2. /\ Len(queue') = Len(queue) - Len(taken)
        /\ \A i \in 1..Len(queue') : queue'[i] = queue[Len(taken) + i]
    BY <1>5, <2>1 DEF pop
  <2>3. ASSUME NEW i \in 1..Len(queue') PROVE slots[Slot(m_head', i - 1)] = queue'[i]
    <3>1. /\ Len(taken) \in 0..capacity /\ i - 1 \in 0..capacity - 1
          /\ Len(taken) + (i - 1) < capacity
          /\ Len(taken) + i \in 1..Len(queue)
          /\ (Len(taken) + i) - 1 = Len(taken) + (i - 1)
      BY <2>1, <2>2, Widths
    <3>2. Slot(Add(m_head, Len(taken)), i - 1) = Slot(m_head, Len(taken) + (i - 1))
      BY <2>1, <3>1, SlotShift
    <3>3. slots[Slot(m_head, (Len(taken) + i) - 1)] = queue[Len(taken) + i]
      BY <1>0, <3>1, Zenon DEF SlotsInOrder
    <3>4. m_head' = Add(m_head, Len(taken))
      BY <1>5 DEF pop
    <3> QED
      BY <2>2, <3>1, <3>2, <3>3, <3>4, Zenon
  <2>4. m_tail' = m_tail /\ slots' = slots /\ filled' = filled /\ taken' = <<>>
    BY <1>5 DEF pop
  <2> QED
    BY <1>0, <2>3, <2>4 DEF SlotsInOrder, FilledInOrder, Slot
<1> QED
  BY <1>1, <1>2, <1>3, <1>4, <1>5 DEF CursorNext

\* A side falls asleep only when it cannot go on; the other makes that possible
\* by a store, and is then at its notify until the sleeper is awake.
LEMMA WakeupStep == IndInv /\ CursorNext => NoMissedWakeup'
<1> SUFFICES ASSUME IndInv, CursorNext PROVE NoMissedWakeup'
  OBVIOUS
<1>0. /\ NoMissedWakeup /\ LocalsOK /\ SizeIsExact /\ m_head \in Index /\ m_tail \in Index
      /\ queue \in Seq(Items) /\ taken \in Seq(Items) /\ filled \in Seq(Items)
  BY DEF IndInv, CursorTypeOK
<1>1. CASE SleepOnHead
  <2>1. Len(queue) = capacity
    BY <1>0, <1>1, FullIsFull DEF SleepOnHead, SizeIsExact, size
  <2> QED
    BY <1>0, <1>1, <2>1, Widths DEF SleepOnHead, NoMissedWakeup
<1>2. CASE SleepOnTail
  <2>1. queue = <<>>
    BY <1>0, <1>2, EmptyIsEmpty DEF SleepOnTail, SizeIsExact, size
  <2> QED
    BY <1>0, <1>2, <2>1 DEF SleepOnTail, NoMissedWakeup
<1>3. CASE wait_for_available
  BY <1>0, <1>3 DEF wait_for_available, NoMissedWakeup
<1>4. ASSUME NEW v \in Items, Fill(v) PROVE NoMissedWakeup'
  BY <1>0, <1>4 DEF Fill, NoMissedWakeup
<1>5. CASE push
  BY <1>0, <1>5 DEF push, NoMissedWakeup
<1>6. CASE push_notify
  BY <1>0, <1>6 DEF push_notify, NoMissedWakeup
<1>7. CASE wait_for_not_empty
  BY <1>0, <1>7 DEF wait_for_not_empty, NoMissedWakeup
<1>8. CASE Take
  BY <1>0, <1>8 DEF Take, NoMissedWakeup
<1>9. CASE pop
  BY <1>0, <1>9 DEF pop, NoMissedWakeup
<1>10. CASE pop_notify
  BY <1>0, <1>10 DEF pop_notify, NoMissedWakeup
<1> QED
  BY <1>1, <1>2, <1>3, <1>4, <1>5, <1>6, <1>7, <1>8, <1>9, <1>10 DEF CursorNext

\* A stuttering step preserves the invariant.
LEMMA IndInvStutter == IndInv /\ UNCHANGED cursor_vars => IndInv'
BY Zenon DEF IndInv, cursor_vars, CursorTypeOK, SizeIsExact, LocalsOK, FilledInOrder, SlotsInOrder,
             NoMissedWakeup, size, Slot

\* The conjunction is inductive.
THEOREM IndInvHolds == CursorSpec => []IndInv
<1>1. IndInv /\ [CursorNext]_cursor_vars => IndInv'
  BY IndexStep, SlotStep, WakeupStep, IndInvStutter DEF IndInv
<1> QED
  BY <1>1, IndInvInit, PTL DEF CursorSpec

\* The indices, slots and locals keep their types, for every width and capacity.
THEOREM CursorTypeCorrect == CursorSpec => []CursorTypeOK
<1>1. IndInv => CursorTypeOK
  BY DEF IndInv
<1> QED
  BY <1>1, IndInvHolds, PTL

\* size() is exact across any number of wraparounds (m_tail - m_head in T).
THEOREM CursorSizeExact == CursorSpec => []SizeIsExact
<1>1. IndInv => SizeIsExact
  BY DEF IndInv
<1> QED
  BY <1>1, IndInvHolds, PTL

\* What is pushed is popped in order, and nothing is overwritten in between.
THEOREM CursorKeepsOrder == CursorSpec => []SlotsInOrder
<1>1. IndInv => SlotsInOrder
  BY DEF IndInv
<1> QED
  BY <1>1, IndInvHolds, PTL

\* wait_for_available and wait_for_not_empty miss no push_notify or pop_notify.
THEOREM CursorMissesNoWakeup == CursorSpec => []NoMissedWakeup
<1>1. IndInv => NoMissedWakeup
  BY DEF IndInv
<1> QED
  BY <1>1, IndInvHolds, PTL

-----------------------------------------------------------------------------
\* Queues.

InSeq(x, q) == \E i \in DOMAIN q : q[i] = x

\* The elements of q are all different.
Uniq(q) == \A i, j \in DOMAIN q : q[i] = q[j] => i = j

\* A queue after an arrival.
LEMMA AppendIn ==
  ASSUME NEW S, NEW q \in Seq(S), NEW x \in S
  PROVE  /\ Append(q, x) \in Seq(S)
         /\ \A y : InSeq(y, Append(q, x)) <=> InSeq(y, q) \/ y = x
         /\ Uniq(q) /\ ~ InSeq(x, q) => Uniq(Append(q, x))
<1> DEFINE n == Len(q)
           a == Append(q, x)
<1>1. /\ n \in Nat /\ DOMAIN q = 1..n /\ a \in Seq(S) /\ DOMAIN a = 1..n + 1
      /\ a[n + 1] = x /\ \A i \in 1..n : a[i] = q[i]
  OBVIOUS
<1> HIDE DEF n, a
<1>2. \A i \in 1..n + 1 : i \in 1..n \/ i = n + 1
  BY <1>1
<1>3. ASSUME NEW y PROVE InSeq(y, a) <=> InSeq(y, q) \/ y = x
  <2>1. InSeq(y, a) => InSeq(y, q) \/ y = x
    BY <1>1, <1>2 DEF InSeq
  <2>2. n + 1 \in 1..n + 1 /\ 1..n \subseteq 1..n + 1
    BY <1>1
  <2> QED
    BY <1>1, <2>1, <2>2 DEF InSeq
<1>4. ASSUME Uniq(q), ~ InSeq(x, q) PROVE Uniq(a)
  BY <1>1, <1>2, <1>4 DEF Uniq, InSeq
<1> QED
  BY <1>1, <1>3, <1>4 DEF a

\* A queue after its first left.
LEMMA TailIn ==
  ASSUME NEW S, NEW q \in Seq(S), q # <<>>
  PROVE  /\ Head(q) \in S /\ InSeq(Head(q), q) /\ Tail(q) \in Seq(S)
         /\ \A y : InSeq(y, Tail(q)) => InSeq(y, q)
         /\ Uniq(q) => /\ Uniq(Tail(q))
                       /\ \A y : InSeq(y, Tail(q)) <=> InSeq(y, q) /\ y # Head(q)
<1> DEFINE n == Len(q)
           t == Tail(q)
<1>1. /\ n \in Nat /\ n >= 1 /\ DOMAIN q = 1..n /\ t \in Seq(S) /\ DOMAIN t = 1..n - 1
      /\ Head(q) = q[1] /\ q[1] \in S /\ \A i \in 1..n - 1 : t[i] = q[i + 1]
  OBVIOUS
<1> HIDE DEF n, t
<1>2. \A i \in 1..n - 1 : i + 1 \in 1..n /\ i + 1 # 1
  BY <1>1
<1>3. \A i \in 1..n : i = 1 \/ (i - 1 \in 1..n - 1 /\ (i - 1) + 1 = i)
  BY <1>1
<1>4. 1 \in 1..n
  BY <1>1
<1>5. ASSUME NEW y, InSeq(y, t) PROVE InSeq(y, q)
  BY <1>1, <1>2, <1>5 DEF InSeq
<1>6. ASSUME Uniq(q) PROVE Uniq(t)
  <2> SUFFICES ASSUME NEW i \in 1..n - 1, NEW j \in 1..n - 1, t[i] = t[j] PROVE i = j
    BY <1>1 DEF Uniq
  <2>1. i + 1 \in DOMAIN q /\ j + 1 \in DOMAIN q /\ q[i + 1] = q[j + 1]
    BY <1>1, <1>2
  <2>2. i + 1 = j + 1
    BY <1>6, <2>1, Zenon DEF Uniq
  <2> QED
    BY <2>2
<1>7. ASSUME Uniq(q), NEW y PROVE InSeq(y, t) <=> InSeq(y, q) /\ y # q[1]
  <2>1. ASSUME NEW i \in 1..n - 1, t[i] = y PROVE y # q[1]
    <3>1. i + 1 \in DOMAIN q /\ 1 \in DOMAIN q /\ i + 1 # 1 /\ y = q[i + 1]
      BY <1>1, <1>2, <1>4, <2>1
    <3> QED
      BY <1>7, <3>1, Zenon DEF Uniq
  <2>2. ASSUME NEW i \in 1..n, q[i] = y, y # q[1] PROVE InSeq(y, t)
    <3>1. i - 1 \in 1..n - 1 /\ t[i - 1] = q[i]
      BY <1>1, <1>3, <2>2
    <3> QED
      BY <1>1, <2>2, <3>1 DEF InSeq
  <2>3. InSeq(y, t) => y # q[1]
    BY <1>1, <2>1 DEF InSeq
  <2>4. InSeq(y, q) /\ y # q[1] => InSeq(y, t)
    BY <1>1, <2>2 DEF InSeq
  <2> QED
    BY <1>5, <2>3, <2>4
<1>8. InSeq(q[1], q)
  BY <1>1, <1>4 DEF InSeq
<1> QED
  BY <1>1, <1>5, <1>6, <1>7, <1>8 DEF t

-----------------------------------------------------------------------------
\* The event loop.  First, one io_uring, as a value.

Elements(q) == {q[i] : i \in DOMAIN q}

\* The requests of ring x, wherever they are, and those that owe it a cqe.
Present(x) == Elements(x.sq) \cup x.kernel \cup Elements(x.cq)

Owes(r) == r.op \in Counted

SqSet(x) == Elements(x.sq)

CqSet(x) == Elements(x.cq)

Due(R) == {r \in R : Owes(r)}

Debt(r) == Due({r})

Owing(x) == Due(Present(x))

Rings(S) == [sq : Seq(S), kernel : SUBSET S, cq : Seq(S)]

\* A request that owes a cqe is in one place.
OnceIn(x) ==
  /\ \A i, j \in DOMAIN x.sq : Owes(x.sq[i]) /\ x.sq[i] = x.sq[j] => i = j
  /\ \A i, j \in DOMAIN x.cq : Owes(x.cq[i]) /\ x.cq[i] = x.cq[j] => i = j
  /\ \A r \in Elements(x.sq) : Owes(r) => r \notin x.kernel /\ r \notin Elements(x.cq)
  /\ \A r \in Elements(x.cq) : Owes(r) => r \notin x.kernel

\* The elements of a sequence.
LEMMA ElementsOf ==
  ASSUME NEW S, NEW q \in Seq(S)
  PROVE  /\ Elements(q) \subseteq S /\ DOMAIN q = 1..Len(q) /\ Len(q) \in Nat
         /\ q = <<>> <=> Elements(q) = {}
         /\ \A x : InSeq(x, q) <=> x \in Elements(q)
BY DEF Elements, InSeq

\* ... after an arrival
LEMMA ElementsAppend ==
  ASSUME NEW S, NEW q \in Seq(S), NEW r \in S
  PROVE  /\ Append(q, r) \in Seq(S) /\ Elements(Append(q, r)) = Elements(q) \cup {r}
         /\ Len(Append(q, r)) = Len(q) + 1 /\ Append(q, r)[Len(q) + 1] = r
         /\ \A i \in DOMAIN q : Append(q, r)[i] = q[i]
         /\ q \o <<r>> = Append(q, r)
<1>1. /\ Append(q, r) \in Seq(S) /\ Len(Append(q, r)) = Len(q) + 1
      /\ Append(q, r)[Len(q) + 1] = r /\ \A i \in DOMAIN q : Append(q, r)[i] = q[i]
      /\ q \o <<r>> = Append(q, r)
  OBVIOUS
<1>2. DOMAIN Append(q, r) = DOMAIN q \cup {Len(q) + 1}
  OBVIOUS
<1>3. Elements(Append(q, r)) = Elements(q) \cup {r}
  BY <1>1, <1>2 DEF Elements
<1> QED
  BY <1>1, <1>3

\* ... after several
LEMMA ElementsConcat ==
  ASSUME NEW S, NEW q \in Seq(S), NEW p \in Seq(S)
  PROVE  /\ q \o p \in Seq(S) /\ Elements(q \o p) = Elements(q) \cup Elements(p)
         /\ Len(q \o p) = Len(q) + Len(p)
         /\ \A i \in DOMAIN q : (q \o p)[i] = q[i]
         /\ \A i \in DOMAIN p : (q \o p)[Len(q) + i] = p[i]
         /\ \A i \in DOMAIN (q \o p) : i \in DOMAIN q \/ (i - Len(q) \in DOMAIN p)
<1>1. /\ q \o p \in Seq(S) /\ Len(q \o p) = Len(q) + Len(p)
      /\ \A i \in DOMAIN q : (q \o p)[i] = q[i]
      /\ \A i \in DOMAIN p : (q \o p)[Len(q) + i] = p[i]
      /\ \A i \in DOMAIN (q \o p) : i \in DOMAIN q \/ (i - Len(q) \in DOMAIN p)
  OBVIOUS
<1>2. DOMAIN q = 1..Len(q) /\ DOMAIN p = 1..Len(p) /\ DOMAIN (q \o p) = 1..(Len(q) + Len(p))
      /\ Len(q) \in Nat /\ Len(p) \in Nat
  OBVIOUS
<1>3. ASSUME NEW y \in Elements(q \o p) PROVE y \in Elements(q) \cup Elements(p)
  <2>1. PICK i \in DOMAIN (q \o p) : y = (q \o p)[i]
    BY DEF Elements
  <2>2. CASE i \in DOMAIN q
    BY <1>1, <2>1, <2>2 DEF Elements
  <2>3. CASE i - Len(q) \in DOMAIN p
    <3>1. (q \o p)[Len(q) + (i - Len(q))] = p[i - Len(q)] /\ Len(q) + (i - Len(q)) = i
      BY <1>1, <1>2, <2>1, <2>3
    <3> QED
      BY <2>1, <2>3, <3>1 DEF Elements
  <2> QED
    BY <1>1, <2>1, <2>2, <2>3
<1>4. ASSUME NEW y \in Elements(q) \cup Elements(p) PROVE y \in Elements(q \o p)
  <2>1. CASE y \in Elements(q)
    <3>1. PICK i \in DOMAIN q : y = q[i]
      BY <2>1 DEF Elements
    <3>2. i \in DOMAIN (q \o p) /\ (q \o p)[i] = y
      BY <1>1, <1>2, <3>1
    <3> QED
      BY <3>2 DEF Elements
  <2>2. CASE y \in Elements(p)
    <3>1. PICK i \in DOMAIN p : y = p[i]
      BY <2>2 DEF Elements
    <3>2. Len(q) + i \in DOMAIN (q \o p) /\ (q \o p)[Len(q) + i] = y
      BY <1>1, <1>2, <3>1
    <3> QED
      BY <3>2 DEF Elements
  <2> QED
    BY <2>1, <2>2
<1> QED
  BY <1>1, <1>3, <1>4

\* ... after the first has left
LEMMA ElementsTail ==
  ASSUME NEW S, NEW q \in Seq(S), q # <<>>
  PROVE  /\ Tail(q) \in Seq(S) /\ Head(q) \in S /\ Head(q) \in Elements(q)
         /\ Elements(q) = Elements(Tail(q)) \cup {Head(q)}
         /\ Len(Tail(q)) = Len(q) - 1 /\ Len(q) > 0 /\ Head(q) = q[1]
         /\ \A i \in DOMAIN Tail(q) : i + 1 \in DOMAIN q /\ Tail(q)[i] = q[i + 1]
<1>1. /\ Tail(q) \in Seq(S) /\ Head(q) \in S /\ Len(Tail(q)) = Len(q) - 1 /\ Len(q) > 0 /\ Head(q) = q[1]
      /\ \A i \in DOMAIN Tail(q) : i + 1 \in DOMAIN q /\ Tail(q)[i] = q[i + 1]
  OBVIOUS
<1>2. DOMAIN q = 1..Len(q) /\ DOMAIN Tail(q) = 1..(Len(q) - 1) /\ Len(q) \in Nat
  OBVIOUS
<1>3. Head(q) \in Elements(q)
  BY <1>1, <1>2 DEF Elements
<1>4. Elements(Tail(q)) \subseteq Elements(q)
  BY <1>1 DEF Elements
<1>5. ASSUME NEW y \in Elements(q), y # Head(q) PROVE y \in Elements(Tail(q))
  <2>1. PICK i \in DOMAIN q : y = q[i]
    BY DEF Elements
  <2>2. i - 1 \in DOMAIN Tail(q) /\ (i - 1) + 1 = i
    BY <1>1, <1>2, <1>5, <2>1
  <2>3. Tail(q)[i - 1] = y
    BY <1>1, <2>1, <2>2
  <2> QED
    BY <2>2, <2>3 DEF Elements
<1> QED
  BY <1>1, <1>3, <1>4, <1>5

\* get_free_sqe()
LEMMA AddsRequest ==
  ASSUME NEW S, NEW x \in Rings(S), NEW r \in S, OnceIn(x),
         r \notin Owing(x),
         NEW y \in Rings(S), y.sq = Append(x.sq, r), y.kernel = x.kernel, y.cq = x.cq
  PROVE  /\ OnceIn(y) /\ Present(y) = Present(x) \cup {r}
         /\ Owing(y) = Owing(x) \cup Debt(r)
         /\ SqSet(y) = SqSet(x) \cup {r}
<1>1. /\ x.sq \in Seq(S) /\ x.kernel \in SUBSET S /\ x.cq \in Seq(S)
  BY DEF Rings
<1>2. y.kernel = x.kernel /\ y.cq = x.cq /\ y.sq = Append(x.sq, r)
  OBVIOUS
<1>3. Elements(y.sq) = Elements(x.sq) \cup {r}
  BY <1>1, <1>2, ElementsAppend
<1>4. Present(y) = Present(x) \cup {r}
  BY <1>2, <1>3 DEF Present
<1>5. Owing(y) = Owing(x) \cup Debt(r)
  BY <1>4 DEF Owing, Due, Debt
<1>6. ASSUME NEW i \in DOMAIN y.sq, NEW j \in DOMAIN y.sq, Owes(y.sq[i]), y.sq[i] = y.sq[j]
      PROVE  i = j
  <2>1. DOMAIN y.sq = 1..(Len(x.sq) + 1) /\ DOMAIN x.sq = 1..Len(x.sq) /\ Len(x.sq) \in Nat
    BY <1>1, <1>2
  <2>2. /\ y.sq[Len(x.sq) + 1] = r /\ \A n \in DOMAIN x.sq : y.sq[n] = x.sq[n]
    BY <1>1, <1>2, ElementsAppend
  <2>3. CASE i \in DOMAIN x.sq /\ j \in DOMAIN x.sq
    BY <1>6, <2>2, <2>3 DEF OnceIn
  <2>4. ASSUME NEW n \in DOMAIN x.sq, x.sq[n] = r, Owes(r) PROVE FALSE
    BY <2>4 DEF Owing, Due, Debt, Present, Elements
  <2>5. i = Len(x.sq) + 1 \/ i \in DOMAIN x.sq
    BY <2>1
  <2>6. j = Len(x.sq) + 1 \/ j \in DOMAIN x.sq
    BY <2>1
  <2> QED
    BY <1>6, <2>2, <2>3, <2>4, <2>5, <2>6
<1>7. OnceIn(y)
  <2>1. \A s \in Elements(y.sq) : Owes(s) => s \notin y.kernel /\ s \notin Elements(y.cq)
    BY <1>2, <1>3 DEF OnceIn, Owing, Due, Debt, Present
  <2> QED
    BY <1>2, <1>6, <2>1 DEF OnceIn
<1> QED
  BY <1>3, <1>4, <1>5, <1>7 DEF SqSet

\* ... twice
LEMMA AddsTwo ==
  ASSUME NEW S, NEW x \in Rings(S), NEW r \in S, NEW s \in S, OnceIn(x),
         r \notin Owing(x), s \notin Owing(x), r # s,
         NEW z \in Rings(S), z.sq = Append(Append(x.sq, r), s), z.kernel = x.kernel, z.cq = x.cq
  PROVE  /\ OnceIn(z) /\ Present(z) = Present(x) \cup {r, s}
         /\ Owing(z) = (Owing(x) \cup Debt(r)) \cup Debt(s)
         /\ SqSet(z) = SqSet(x) \cup {r, s}
<1>1. x.sq \in Seq(S)
  BY DEF Rings
<1>3. PICK y \in Rings(S) : y.sq = Append(x.sq, r) /\ y.kernel = x.kernel /\ y.cq = x.cq
  <2>1. Append(x.sq, r) \in Seq(S)
    BY <1>1, ElementsAppend
  <2>2. [sq |-> Append(x.sq, r), kernel |-> x.kernel, cq |-> x.cq] \in Rings(S)
    BY <2>1 DEF Rings
  <2> QED
    BY <2>2
<1>4. /\ OnceIn(y) /\ Present(y) = Present(x) \cup {r}
      /\ Owing(y) = Owing(x) \cup Debt(r) /\ SqSet(y) = SqSet(x) \cup {r}
  BY <1>3, AddsRequest
<1>5. z.sq = Append(y.sq, s) /\ z.kernel = y.kernel /\ z.cq = y.cq
  BY <1>3
<1>6. s \notin Owing(y)
  <2>1. s \notin Debt(r)
    BY DEF Due, Debt
  <2> QED
    BY <1>4, <2>1
<1>7. /\ OnceIn(z) /\ Present(z) = Present(y) \cup {s}
      /\ Owing(z) = Owing(y) \cup Debt(s) /\ SqSet(z) = SqSet(y) \cup {s}
  BY <1>4, <1>5, <1>6, AddsRequest
<1>8. Present(z) = Present(x) \cup {r, s} /\ SqSet(z) = SqSet(x) \cup {r, s}
  BY <1>4, <1>7
<1>9. Owing(z) = (Owing(x) \cup Debt(r)) \cup Debt(s)
  BY <1>4, <1>7
<1> QED
  BY <1>7, <1>8, <1>9

\* cq_advance: the first cqe has been seen
LEMMA TakesCqe ==
  ASSUME NEW S, NEW x \in Rings(S), OnceIn(x), x.cq # <<>>, NEW h, h = Head(x.cq),
         NEW y \in Rings(S), y.sq = x.sq, y.kernel = x.kernel, y.cq = Tail(x.cq)
  PROVE  /\ OnceIn(y) /\ h \in S /\ h \in Present(x) /\ Present(x) = Present(y) \cup {h}
         /\ Owing(y) = Owing(x) \ Debt(h) /\ Debt(h) \subseteq Owing(x)
         /\ CqSet(x) = CqSet(y) \cup {h}
<1>1. /\ x.sq \in Seq(S) /\ x.kernel \in SUBSET S /\ x.cq \in Seq(S)
  BY DEF Rings
<1>2. /\ Tail(x.cq) \in Seq(S) /\ h \in S /\ h \in Elements(x.cq)
      /\ Elements(x.cq) = Elements(Tail(x.cq)) \cup {h}
      /\ h = x.cq[1] /\ 1 \in DOMAIN x.cq
      /\ \A i \in DOMAIN Tail(x.cq) : i + 1 \in DOMAIN x.cq /\ Tail(x.cq)[i] = x.cq[i + 1] /\ i \in 1..Len(x.cq)
  <2>1. Len(x.cq) > 0 /\ Len(x.cq) \in Nat /\ DOMAIN x.cq = 1..Len(x.cq) /\ DOMAIN Tail(x.cq) = 1..(Len(x.cq) - 1)
    BY <1>1, ElementsTail
  <2> QED
    BY <1>1, <2>1, ElementsTail
<1>3. y.kernel = x.kernel /\ y.sq = x.sq /\ y.cq = Tail(x.cq)
  OBVIOUS
<1>4. Present(x) = Present(y) \cup {h} /\ h \in Present(x)
  BY <1>2, <1>3 DEF Present
<1>5. ASSUME Owes(h) PROVE h \notin Present(y)
  <2>1. h \notin x.kernel /\ h \notin Elements(x.sq)
    BY <1>2, <1>5 DEF OnceIn
  <2>2. ASSUME NEW i \in DOMAIN Tail(x.cq), Tail(x.cq)[i] = h PROVE FALSE
    <3>1. i + 1 \in DOMAIN x.cq /\ x.cq[i + 1] = x.cq[1] /\ Owes(x.cq[1]) /\ i + 1 # 1
      BY <1>2, <1>5, <2>2
    <3> QED
      BY <1>2, <3>1 DEF OnceIn
  <2> QED
    BY <1>3, <2>1, <2>2 DEF Present, Elements
<1>6. Owing(y) = Owing(x) \ Debt(h) /\ Debt(h) \subseteq Owing(x)
  BY <1>4, <1>5 DEF Owing, Due, Debt
<1>8. CqSet(x) = CqSet(y) \cup {h}
  BY <1>2, <1>3 DEF CqSet
<1>7. OnceIn(y)
  <2>1. ASSUME NEW i \in DOMAIN y.cq, NEW j \in DOMAIN y.cq, Owes(y.cq[i]), y.cq[i] = y.cq[j]
        PROVE  i = j
    <3>1. i + 1 = j + 1
      BY <1>2, <1>3, <2>1 DEF OnceIn
    <3> QED
      BY <1>2, <1>3, <3>1
  <2>2. Elements(y.cq) \subseteq Elements(x.cq)
    BY <1>2, <1>3
  <2> QED
    BY <1>3, <2>1, <2>2 DEF OnceIn
<1> QED
  BY <1>2, <1>4, <1>6, <1>7, <1>8

\* A request completes: its cqe is posted.
LEMMA PostsCqe ==
  ASSUME NEW S, NEW x \in Rings(S), OnceIn(x), NEW r \in x.kernel,
         NEW y \in Rings(S), y.sq = x.sq, y.kernel = x.kernel \ {r}, y.cq = Append(x.cq, r)
  PROVE  /\ OnceIn(y) /\ Present(y) = Present(x) /\ Owing(y) = Owing(x)
         /\ CqSet(y) = CqSet(x) \cup {r}
<1>1. /\ x.sq \in Seq(S) /\ x.kernel \in SUBSET S /\ x.cq \in Seq(S) /\ r \in S
  BY DEF Rings
<1>2. y.kernel = x.kernel \ {r} /\ y.sq = x.sq /\ y.cq = Append(x.cq, r)
  OBVIOUS
<1>3. Elements(y.cq) = Elements(x.cq) \cup {r}
  BY <1>1, <1>2, ElementsAppend
<1>4. Present(y) = Present(x)
  BY <1>2, <1>3 DEF Present
<1>5. ASSUME NEW i \in DOMAIN y.cq, NEW j \in DOMAIN y.cq, Owes(y.cq[i]), y.cq[i] = y.cq[j]
      PROVE  i = j
  <2>1. DOMAIN y.cq = 1..(Len(x.cq) + 1) /\ DOMAIN x.cq = 1..Len(x.cq) /\ Len(x.cq) \in Nat
    BY <1>1, <1>2
  <2>2. /\ y.cq[Len(x.cq) + 1] = r /\ \A n \in DOMAIN x.cq : y.cq[n] = x.cq[n]
    BY <1>1, <1>2, ElementsAppend
  <2>3. CASE i \in DOMAIN x.cq /\ j \in DOMAIN x.cq
    BY <1>5, <2>2, <2>3 DEF OnceIn
  <2>4. ASSUME NEW n \in DOMAIN x.cq, x.cq[n] = r, Owes(r) PROVE FALSE
    <3>1. r \in Elements(x.cq)
      BY <2>4 DEF Elements
    <3> QED
      BY <2>4, <3>1 DEF OnceIn
  <2>5. i = Len(x.cq) + 1 \/ i \in DOMAIN x.cq
    BY <2>1
  <2>6. j = Len(x.cq) + 1 \/ j \in DOMAIN x.cq
    BY <2>1
  <2> QED
    BY <1>5, <2>2, <2>3, <2>4, <2>5, <2>6
<1>6. OnceIn(y)
  <2>1. \A s \in Elements(y.sq) : Owes(s) => s \notin y.kernel /\ s \notin Elements(y.cq)
    BY <1>2, <1>3 DEF OnceIn
  <2>2. \A s \in Elements(y.cq) : Owes(s) => s \notin y.kernel
    BY <1>2, <1>3 DEF OnceIn
  <2> QED
    BY <1>2, <1>5, <2>1, <2>2 DEF OnceIn
<1> QED
  BY <1>3, <1>4, <1>6 DEF Owing, CqSet

\* A request leaves without a cqe.
LEMMA LeavesSilently ==
  ASSUME NEW S, NEW x \in Rings(S), OnceIn(x), NEW r \in x.kernel, ~ Owes(r),
         NEW y \in Rings(S), y.sq = x.sq, y.kernel = x.kernel \ {r}, y.cq = x.cq
  PROVE  /\ OnceIn(y) /\ Present(x) = Present(y) \cup {r} /\ Owing(y) = Owing(x)
<1>1. y.kernel = x.kernel \ {r} /\ y.sq = x.sq /\ y.cq = x.cq
  OBVIOUS
<1>2. Present(x) = Present(y) \cup {r}
  BY <1>1 DEF Present
<1>3. OnceIn(y)
  BY <1>1 DEF OnceIn
<1> QED
  BY <1>1, <1>2, <1>3 DEF Owing, Due, Debt

\* io_uring_enter, on the submitting ring
LEMMA TakesSqes ==
  ASSUME NEW S, NEW x \in Rings(S), OnceIn(x),
         NEW y, y = [sq |-> <<>>, cq |-> x.cq, kernel |-> x.kernel \cup
                       {x.sq[i] : i \in {j \in DOMAIN x.sq : x.sq[j].op # "msg"}}]
  PROVE  /\ y \in Rings(S) /\ OnceIn(y) /\ Owing(y) = Owing(x) /\ Present(y) \subseteq Present(x)
         /\ \A r \in Present(x) : r.op # "msg" => r \in Present(y)
         /\ y.kernel = x.kernel \cup {r \in Elements(x.sq) : r.op # "msg"} /\ y.sq = <<>> /\ y.cq = x.cq
<1>1. /\ x.sq \in Seq(S) /\ x.kernel \in SUBSET S /\ x.cq \in Seq(S) /\ Elements(x.sq) \subseteq S
  BY ElementsOf DEF Rings
<1>2. {x.sq[i] : i \in {j \in DOMAIN x.sq : x.sq[j].op # "msg"}} = {r \in Elements(x.sq) : r.op # "msg"}
  BY DEF Elements
<1>3. y.kernel = x.kernel \cup {r \in Elements(x.sq) : r.op # "msg"} /\ y.sq = <<>> /\ y.cq = x.cq
  BY <1>2
<1>4. y \in Rings(S)
  <2>1. <<>> \in Seq(S)
    OBVIOUS
  <2>2. x.kernel \cup {r \in Elements(x.sq) : r.op # "msg"} \in SUBSET S
    BY <1>1
  <2> QED
    BY <1>1, <1>2, <2>1, <2>2 DEF Rings
<1>5. Elements(y.sq) = {}
  BY <1>3 DEF Elements
<1>6. Present(y) \subseteq Present(x) /\ \A r \in Present(x) : r.op # "msg" => r \in Present(y)
  BY <1>3, <1>5 DEF Present
<1>7. Owing(y) = Owing(x)
  BY <1>6 DEF Owing, Due, Debt, Owes, Counted
<1>8. OnceIn(y)
  BY <1>3, <1>5 DEF OnceIn
<1> QED
  BY <1>3, <1>4, <1>6, <1>7, <1>8

\* ... and on another one
LEMMA ReceivesMessages ==
  ASSUME NEW S, NEW x \in Rings(S), OnceIn(x), NEW m \in Seq(S), \A r \in Elements(m) : r.op = "msg",
         NEW y \in Rings(S), y.sq = x.sq, y.kernel = x.kernel, y.cq = x.cq \o m
  PROVE  /\ OnceIn(y) /\ Owing(y) = Owing(x) /\ Present(y) = Present(x) \cup Elements(m)
         /\ CqSet(y) = CqSet(x) \cup Elements(m)
<1>1. /\ x.sq \in Seq(S) /\ x.kernel \in SUBSET S /\ x.cq \in Seq(S)
  BY DEF Rings
<1>2. y.kernel = x.kernel /\ y.sq = x.sq /\ y.cq = x.cq \o m
  OBVIOUS
<1>3. Elements(y.cq) = Elements(x.cq) \cup Elements(m)
  BY <1>1, <1>2, ElementsConcat
<1>4. Present(y) = Present(x) \cup Elements(m)
  BY <1>2, <1>3 DEF Present
<1>5. Owing(y) = Owing(x)
  BY <1>4 DEF Owing, Due, Debt, Owes, Counted
<1>6. ASSUME NEW i \in DOMAIN y.cq, NEW j \in DOMAIN y.cq, Owes(y.cq[i]), y.cq[i] = y.cq[j]
      PROVE  i = j
  <2>1. ASSUME NEW n \in DOMAIN y.cq, Owes(y.cq[n]) PROVE n \in DOMAIN x.cq /\ y.cq[n] = x.cq[n]
    <3>1. CASE n - Len(x.cq) \in DOMAIN m
      <4>1. y.cq[Len(x.cq) + (n - Len(x.cq))] = m[n - Len(x.cq)]
        BY <1>1, <1>2, <3>1, ElementsConcat
      <4>2. Len(x.cq) + (n - Len(x.cq)) = n
        BY <1>1, <1>2
      <4>3. m[n - Len(x.cq)].op = "msg"
        BY <3>1 DEF Elements
      <4> QED
        BY <2>1, <4>1, <4>2, <4>3 DEF Owes, Counted
    <3> QED
      BY <1>1, <1>2, <3>1, ElementsConcat
  <2> QED
    BY <1>6, <2>1 DEF OnceIn
<1>7. OnceIn(y)
  <2>1. \A s \in Elements(y.cq) : Owes(s) => s \in Elements(x.cq)
    BY <1>3 DEF Owes, Counted
  <2> QED
    BY <1>2, <1>6, <2>1 DEF OnceIn
<1> QED
  BY <1>3, <1>4, <1>5, <1>7 DEF CqSet

\* Induction, for a set instead of a predicate.
LEMMA SetInduction ==
  ASSUME NEW S, 0 \in S, \A n \in Nat : n \in S => n + 1 \in S
  PROVE  \A n \in Nat : n \in S
<1> SUFFICES ASSUME NEW m \in Nat, m \notin S PROVE FALSE
  OBVIOUS
<1> DEFINE R == {ss \in Nat \X Nat : ss[1] < ss[2]}
           T == {n \in Nat : n \notin S}
<1>1. PICK x \in T : \A y \in T : ~ (<<y, x>> \in R)
  <2>1. IsWellFoundedOn(R, Nat)
    BY NatLessThanWellFounded DEF OpToRel
  <2>2. T \subseteq Nat /\ T # {}
    OBVIOUS
  <2> HIDE DEF R, T
  <2> QED
    BY <2>1, <2>2, WFMin
<1>2. x \in Nat /\ x # 0
  OBVIOUS
<1>3. x - 1 \in Nat /\ (x - 1) + 1 = x /\ <<x - 1, x>> \in R
  BY <1>2
<1>4. x - 1 \in S
  <2> HIDE DEF R
  <2> QED
    BY <1>1, <1>3
<1> QED
  BY <1>3, <1>4

\* No two messages in q are about the same coroutine.
OneMsg(q) == \A i, j \in DOMAIN q :
               q[i].op = "msg" /\ q[j].op = "msg" /\ q[i].coro = q[j].coro => i = j

\* One more.
LEMMA OneMsgAppend ==
  ASSUME NEW S, NEW q \in Seq(S), NEW r \in S, OneMsg(q),
         \A s \in Elements(q) : s.op = "msg" /\ r.op = "msg" => s.coro # r.coro
  PROVE  OneMsg(Append(q, r))
<1> SUFFICES ASSUME NEW i \in DOMAIN Append(q, r), NEW j \in DOMAIN Append(q, r),
                    Append(q, r)[i].op = "msg", Append(q, r)[j].op = "msg",
                    Append(q, r)[i].coro = Append(q, r)[j].coro
             PROVE  i = j
  BY DEF OneMsg
<1>1. DOMAIN Append(q, r) = 1..(Len(q) + 1) /\ DOMAIN q = 1..Len(q) /\ Len(q) \in Nat
  OBVIOUS
<1>2. Append(q, r)[Len(q) + 1] = r /\ \A n \in DOMAIN q : Append(q, r)[n] = q[n] /\ q[n] \in Elements(q)
  BY ElementsAppend DEF Elements
<1>3. CASE i \in DOMAIN q /\ j \in DOMAIN q
  BY <1>2, <1>3 DEF OneMsg
<1>4. i = Len(q) + 1 \/ i \in DOMAIN q
  BY <1>1
<1>5. j = Len(q) + 1 \/ j \in DOMAIN q
  BY <1>1
<1> QED
  BY <1>2, <1>3, <1>4, <1>5

\* Several more.
LEMMA OneMsgConcat ==
  ASSUME NEW S, NEW q \in Seq(S), NEW p \in Seq(S), OneMsg(q), OneMsg(p),
         \A s \in Elements(q), r \in Elements(p) : s.op = "msg" /\ r.op = "msg" => s.coro # r.coro
  PROVE  OneMsg(q \o p)
<1> SUFFICES ASSUME NEW i \in DOMAIN (q \o p), NEW j \in DOMAIN (q \o p),
                    (q \o p)[i].op = "msg", (q \o p)[j].op = "msg",
                    (q \o p)[i].coro = (q \o p)[j].coro
             PROVE  i = j
  BY DEF OneMsg
<1>1. /\ DOMAIN (q \o p) = 1..(Len(q) + Len(p)) /\ DOMAIN q = 1..Len(q) /\ DOMAIN p = 1..Len(p)
      /\ Len(q) \in Nat /\ Len(p) \in Nat
  OBVIOUS
<1>2. \A n \in DOMAIN q : (q \o p)[n] = q[n] /\ q[n] \in Elements(q)
  BY ElementsConcat DEF Elements
<1>3. ASSUME NEW n \in DOMAIN (q \o p), n \notin DOMAIN q
      PROVE  n - Len(q) \in DOMAIN p /\ (q \o p)[n] = p[n - Len(q)] /\ p[n - Len(q)] \in Elements(p)
  <2>1. n - Len(q) \in DOMAIN p
    BY <1>3, ElementsConcat
  <2>2. (q \o p)[Len(q) + (n - Len(q))] = p[n - Len(q)] /\ Len(q) + (n - Len(q)) = n
    BY <1>1, <2>1, ElementsConcat
  <2> QED
    BY <2>1, <2>2 DEF Elements
<1>4. CASE i \in DOMAIN q /\ j \in DOMAIN q
  BY <1>2, <1>4 DEF OneMsg
<1>5. CASE i \notin DOMAIN q /\ j \notin DOMAIN q
  <2>1. i - Len(q) = j - Len(q)
    BY <1>3, <1>5 DEF OneMsg
  <2> QED
    BY <1>1, <2>1
<1>6. CASE i \in DOMAIN q /\ j \notin DOMAIN q
  BY <1>2, <1>3, <1>6
<1>7. CASE i \notin DOMAIN q /\ j \in DOMAIN q
  BY <1>2, <1>3, <1>7
<1> QED
  BY <1>4, <1>5, <1>6, <1>7

\* One less.
LEMMA OneMsgTail ==
  ASSUME NEW S, NEW q \in Seq(S), q # <<>>, OneMsg(q)
  PROVE  /\ OneMsg(Tail(q))
         /\ \A s \in Elements(Tail(q)) : s.op = "msg" /\ Head(q).op = "msg" => s.coro # Head(q).coro
<1>1. /\ Len(q) > 0 /\ Len(q) \in Nat /\ Head(q) = q[1] /\ 1 \in DOMAIN q /\ DOMAIN q = 1..Len(q)
      /\ \A i \in DOMAIN Tail(q) : i + 1 \in DOMAIN q /\ Tail(q)[i] = q[i + 1] /\ i \in Nat /\ i + 1 # 1
  <2>1. DOMAIN Tail(q) = 1..(Len(q) - 1) /\ Len(q) \in Nat
    OBVIOUS
  <2> QED
    BY <2>1, ElementsTail
<1>2. ASSUME NEW i \in DOMAIN Tail(q), NEW j \in DOMAIN Tail(q), Tail(q)[i].op = "msg",
             Tail(q)[j].op = "msg", Tail(q)[i].coro = Tail(q)[j].coro
      PROVE  i = j
  <2>1. i + 1 = j + 1
    BY <1>1, <1>2 DEF OneMsg
  <2> QED
    BY <1>1, <2>1
<1>3. ASSUME NEW s \in Elements(Tail(q)), s.op = "msg", Head(q).op = "msg", s.coro = Head(q).coro
      PROVE  FALSE
  <2>1. PICK i \in DOMAIN Tail(q) : s = Tail(q)[i]
    BY DEF Elements
  <2>2. i + 1 = 1
    BY <1>1, <1>3, <2>1 DEF OneMsg
  <2> QED
    BY <1>1, <2>2
<1> QED
  BY <1>2, <1>3 DEF OneMsg

\* f[n] are the messages to d among the first n elements of q.
Selects(f, q, d) ==
  /\ f[0] = <<>> /\ Messages(q, d) = f[Len(q)]
  /\ \A n \in 1..Len(q) : f[n] = IF q[n].op = "msg" /\ q[n].to = d
                                 THEN Append(f[n - 1], q[n]) ELSE f[n - 1]

\* Messages(q, d) is the last of a sequence of ever longer selections.
LEMMA MessagesSteps ==
  ASSUME NEW S, NEW q \in Seq(S), NEW d
  PROVE  \E f : Selects(f, q, d)
<1> DEFINE N == Len(q)
           Body(f, i) == IF i = 0 THEN <<>>
                         ELSE IF q[i].op = "msg" /\ q[i].to = d THEN Append(f[i - 1], q[i])
                         ELSE f[i - 1]
           D == {n \in Nat : \E f : f = [i \in 0..n |-> Body(f, i)]}
<1>1. N \in Nat
  OBVIOUS
<1>2. 0 \in D
  <2> DEFINE f == [i \in 0..0 |-> <<>>]
  <2>1. f = [i \in 0..0 |-> Body(f, i)]
    OBVIOUS
  <2> HIDE DEF f, Body
  <2> QED
    BY <2>1
<1>3. ASSUME NEW n \in Nat, n \in D PROVE n + 1 \in D
  <2>1. PICK f : f = [i \in 0..n |-> Body(f, i)]
    BY <1>3
  <2> DEFINE g == [i \in 0..(n + 1) |-> IF i = n + 1 THEN Body(f, n + 1) ELSE f[i]]
  <2> HIDE DEF Body
  <2>2. \A i \in 0..n : f[i] = Body(f, i)
    BY <2>1
  <2>3. \A i \in 0..n : g[i] = f[i]
    OBVIOUS
  <2>4. g[n + 1] = Body(f, n + 1)
    OBVIOUS
  <2> HIDE DEF g
  <2>5. ASSUME NEW i \in 0..(n + 1) PROVE Body(g, i) = Body(f, i)
    <3>1. CASE i = 0
      BY <3>1 DEF Body
    <3>2. CASE i # 0
      <4>1. g[i - 1] = f[i - 1]
        BY <2>3, <3>2
      <4> QED
        BY <4>1 DEF Body
    <3> QED
      BY <3>1, <3>2
  <2>6. ASSUME NEW i \in 0..(n + 1) PROVE g[i] = Body(g, i)
    <3>1. CASE i = n + 1
      BY <2>4, <2>5, <3>1
    <3>2. CASE i # n + 1
      <4>1. i \in 0..n
        BY <3>2
      <4> QED
        BY <2>2, <2>3, <2>5, <4>1
    <3> QED
      BY <3>1, <3>2
  <2>7. g = [i \in 0..(n + 1) |-> Body(g, i)]
    <3>1. g = [i \in 0..(n + 1) |-> g[i]]
      BY DEF g
    <3> QED
      BY <2>6, <3>1
  <2> QED
    BY <2>7
<1>4. N \in D
  <2> HIDE DEF D
  <2> QED
    BY <1>1, <1>2, <1>3, SetInduction
<1>5. PICK z : z = [i \in 0..N |-> Body(z, i)]
  BY <1>4
<1> DEFINE upTo == CHOOSE f : f = [i \in 0..N |-> Body(f, i)]
<1>6. upTo = [i \in 0..N |-> Body(upTo, i)]
  <2> HIDE DEF Body, N
  <2> QED
    BY <1>5, Zenon
<1>7. Messages(q, d) = upTo[N]
  BY DEF Messages
<1> HIDE DEF upTo, N, Body
<1>8. \A i \in 0..N : upTo[i] = Body(upTo, i)
  BY <1>6
<1>9. upTo[0] = <<>>
  <2>1. upTo[0] = Body(upTo, 0)
    BY <1>1, <1>8
  <2> QED
    BY <2>1 DEF Body
<1>10. ASSUME NEW n \in 1..N
       PROVE  upTo[n] = IF q[n].op = "msg" /\ q[n].to = d THEN Append(upTo[n - 1], q[n])
                        ELSE upTo[n - 1]
  <2>1. upTo[n] = Body(upTo, n) /\ n # 0
    BY <1>1, <1>8
  <2> QED
    BY <2>1 DEF Body
<1>11. Selects(upTo, q, d)
  BY <1>7, <1>9, <1>10 DEF N, Selects
<1> QED
  BY <1>11

\* Messages(q, d) are the messages of q to d, each once.
LEMMA MessagesOf ==
  ASSUME NEW S, NEW q \in Seq(S), NEW d
  PROVE  /\ Messages(q, d) \in Seq(S)
         /\ Elements(Messages(q, d)) = {r \in Elements(q) : r.op = "msg" /\ r.to = d}
         /\ OneMsg(q) => OneMsg(Messages(q, d))
<1>0. PICK f : Selects(f, q, d)
  BY MessagesSteps
<1>1. /\ f[0] = <<>> /\ Messages(q, d) = f[Len(q)]
      /\ \A n \in 1..Len(q) : f[n] = IF q[n].op = "msg" /\ q[n].to = d
                                     THEN Append(f[n - 1], q[n]) ELSE f[n - 1]
  BY <1>0 DEF Selects
<1> DEFINE Sel(j) == q[j].op = "msg" /\ q[j].to = d
           Good(n) == /\ f[n] \in Seq(S)
                      /\ Elements(f[n]) = {q[j] : j \in {i \in 1..n : Sel(i)}}
                      /\ OneMsg(q) => OneMsg(f[n])
           G == {n \in Nat : n <= Len(q) => Good(n)}
<1>2. 0 \in G
  <2>1. <<>> \in Seq(S) /\ Elements(<<>>) = {} /\ OneMsg(<<>>) /\ 1..0 = {}
    BY DEF Elements, OneMsg
  <2> QED
    BY <1>1, <2>1
<1>3. ASSUME NEW n \in Nat, n \in G PROVE n + 1 \in G
  <2> SUFFICES ASSUME n + 1 <= Len(q) PROVE Good(n + 1)
    OBVIOUS
  <2>1. Good(n) /\ n + 1 \in 1..Len(q) /\ (n + 1) - 1 = n /\ q[n + 1] \in S
    BY <1>3
  <2>2. 1..(n + 1) = 1..n \cup {n + 1} /\ n + 1 \notin 1..n /\ 1..n \subseteq DOMAIN q /\ n + 1 \in DOMAIN q
    OBVIOUS
  <2>3. CASE Sel(n + 1)
    <3>1. f[n + 1] = Append(f[n], q[n + 1])
      BY <1>1, <2>1, <2>3
    <3>2. f[n + 1] \in Seq(S) /\ Elements(f[n + 1]) = Elements(f[n]) \cup {q[n + 1]}
      BY <2>1, <3>1, ElementsAppend
    <3>3. Elements(f[n + 1]) = {q[j] : j \in {i \in 1..(n + 1) : Sel(i)}}
      BY <2>1, <2>2, <2>3, <3>2
    <3>4. ASSUME OneMsg(q) PROVE OneMsg(f[n + 1])
      <4>1. \A s \in Elements(f[n]) : s.op = "msg" /\ q[n + 1].op = "msg" => s.coro # q[n + 1].coro
        BY <2>1, <2>2, <2>3, <3>4 DEF OneMsg
      <4> QED
        BY <2>1, <3>1, <3>4, <4>1, OneMsgAppend
    <3> QED
      BY <3>2, <3>3, <3>4
  <2>4. CASE ~ Sel(n + 1)
    <3>1. f[n + 1] = f[n]
      BY <1>1, <2>1, <2>4
    <3>2. {i \in 1..(n + 1) : Sel(i)} = {i \in 1..n : Sel(i)}
      BY <2>2, <2>4
    <3> QED
      BY <2>1, <3>1, <3>2
  <2> QED
    BY <2>3, <2>4
<1>4. Len(q) \in G /\ Len(q) \in Nat
  <2> HIDE DEF G
  <2>1. Len(q) \in Nat
    OBVIOUS
  <2> QED
    BY <1>2, <1>3, <2>1, SetInduction
<1>5. Good(Len(q))
  BY <1>4
<1>6. {q[j] : j \in {i \in 1..Len(q) : Sel(i)}} = {r \in Elements(q) : r.op = "msg" /\ r.to = d}
  BY DEF Elements
<1> QED
  BY <1>1, <1>5, <1>6

-----------------------------------------------------------------------------
\* What holds of the event loops whatever the programs do.

Workers == [reap_swap : Seq(Coros), requests_to_reap : Int, requests_to_submit : Nat]

Loops == [phase : Phases, num : Nat, running : Coros \cup {None}, write : Ctx \cup {None},
          handled : BOOLEAN, will_stop : BOOLEAN]

Inboxes == [queue : Seq(Coros), event : {0, 1}]

Frames == [st : {"unborn", "live", "done"}, fuel : 0..setup.fuel, handle : BOOLEAN,
           prepared : BOOLEAN]

EventReq == [op |-> "event", coro |-> None, to |-> None, no |-> 0]

\* A request names a coroutine, unless it listens for events, and the serial
\* number of one whose cqe is counted will not be used again.
ReqOK(r) == /\ r.op # "event" => r.coro \in Coros
            /\ r.op = "event" => r = EventReq
            /\ r.op \in {"io", "link"} => r.no > coro[r.coro].fuel

\* Messages are on their way to another ring, and never inside the kernel; what
\* posts no cqe is never in a cq.
RingGood(c) ==
  /\ OnceIn(ring[c])
  /\ \A r \in Present(ring[c]) : ReqOK(r)
  /\ \A r \in Elements(ring[c].sq) : r.op = "msg" => r.to \in Ctx \ {c}
  /\ \A r \in ring[c].kernel : r.op # "msg"
  /\ \A r \in Elements(ring[c].cq) : r.op # "timer" /\ (r.op = "skip" => failed)

RingsOK == ring \in [Ctx -> Rings(Requests)] /\ \A c \in Ctx : RingGood(c)

\* requests_to_reap is what the ring owes.
ReapOK(c) == ~ failed => /\ IsFiniteSet(Owing(ring[c]))
                         /\ worker[c].requests_to_reap = Cardinality(Owing(ring[c]))

\* A coroutine runs in do_worker_part only, nothing is awaited before the loop,
\* and a round has no more tasks than reap_swap.
LoopOK(c) ==
  /\ loop[c].num <= Len(worker[c].reap_swap)
  /\ loop[c].running # None => loop[c].phase = "work"
  /\ loop[c].phase \in {"created", "barrier", "run"} => Owing(ring[c]) = {}

Alive == {c \in setup.ctx : loop[c].phase # "stopped"}

Ready == {c \in setup.ctx : loop[c].phase \notin {"created", "stopped"}}

\* create_count and ready_count.
MetaOK == /\ meta \in [create_count : Nat, ready_count : Nat]
          /\ meta.create_count = Cardinality(Alive) /\ meta.ready_count = Cardinality(Ready)

IoTypes == /\ worker \in [Ctx -> Workers] /\ loop \in [Ctx -> Loops] /\ inbox \in [Ctx -> Inboxes]
           /\ coro \in [Coros -> Frames] /\ setup \in Setups
           /\ halted \in {"no", "start_timeout", "empty_task", "reap_swap_full"}

IoBase == IoConstants /\ IoTypes /\ MetaOK /\ RingsOK /\ \A c \in Ctx : ReapOK(c) /\ LoopOK(c)

\* The constants.
LEMMA IoConstantsFacts ==
  ASSUME IoConstants
  PROVE  /\ IsFiniteSet(Ctx) /\ IsFiniteSet(Coros) /\ SwapCapacity \in Nat
         /\ None \notin Ctx /\ None \notin Coros
         /\ \A s \in Setups : /\ s.ctx \subseteq Ctx /\ s.entry \in [s.ctx -> Seq(Coros)]
                              /\ s.fuel \in Nat /\ IsFiniteSet(s.ctx)
         /\ \A s \in Setups : \A c, d \in s.ctx : \A i \in DOMAIN s.entry[c], j \in DOMAIN s.entry[d] :
              s.entry[c][i] = s.entry[d][j] => c = d /\ i = j
<1>1. IsFiniteSet(Ctx) /\ IsFiniteSet(Coros)
  BY DEF IoConstants
<1>2. \A s \in Setups : /\ s.ctx \subseteq Ctx /\ s.entry \in [s.ctx -> Seq(Coros)] /\ s.fuel \in Nat
  BY DEF IoConstants
<1>3. \A s \in Setups : IsFiniteSet(s.ctx)
  BY <1>1, <1>2, FS_Subset
<1>4. \A s \in Setups : \A c, d \in s.ctx : \A i \in DOMAIN s.entry[c], j \in DOMAIN s.entry[d] :
        s.entry[c][i] = s.entry[d][j] => c = d /\ i = j
  BY DEF IoConstants
<1> QED
  BY <1>1, <1>2, <1>3, <1>4 DEF IoConstants

\* TypeOK is part of it.
LEMMA IoBaseTyped == IoBase /\ failed \in BOOLEAN => TypeOK
<1> SUFFICES ASSUME IoBase, failed \in BOOLEAN PROVE TypeOK
  OBVIOUS
<1>1. worker \in [Ctx -> [reap_swap : Seq(Coros), requests_to_reap : Int, requests_to_submit : Nat]]
  BY DEF IoBase, IoTypes, Workers
<1>2. inbox \in [Ctx -> [queue : Seq(Coros), event : {0, 1}]]
  BY DEF IoBase, IoTypes, Inboxes
<1>3. ring \in [Ctx -> [sq : Seq(Requests), kernel : SUBSET Requests, cq : Seq(Requests)]]
  BY DEF IoBase, RingsOK, Rings
<1>4. loop \in [Ctx -> [phase : Phases, num : Nat, running : Coros \cup {None},
                        write : Ctx \cup {None}, handled : BOOLEAN, will_stop : BOOLEAN]]
  BY DEF IoBase, IoTypes, Loops
<1>5. meta \in [create_count : Nat, ready_count : Nat]
  BY DEF IoBase, MetaOK
<1>6. coro \in [Coros -> [st : {"unborn", "live", "done"}, fuel : 0..setup.fuel,
                         handle : BOOLEAN, prepared : BOOLEAN]]
  BY DEF IoBase, IoTypes, Frames
<1>7. halted \in {"no", "start_timeout", "empty_task", "reap_swap_full"} /\ setup \in Setups
  BY DEF IoBase, IoTypes
<1>8. failed \in BOOLEAN
  OBVIOUS
<1> QED
  BY <1>1, <1>2, <1>3, <1>4, <1>5, <1>6, <1>7, <1>8 DEF TypeOK

\* Before start().
LEMMA IoBaseInit == IoConstants /\ Init => IoBase
<1> SUFFICES ASSUME IoConstants, Init PROVE IoBase
  OBVIOUS
<1>1. /\ setup \in Setups /\ setup.ctx \subseteq Ctx /\ setup.fuel \in Nat
      /\ setup.entry \in [setup.ctx -> Seq(Coros)] /\ IsFiniteSet(setup.ctx)
  BY IoConstantsFacts DEF Init
<1>2. worker \in [Ctx -> Workers]
  <2>1. \A c \in Ctx : (IF c \in setup.ctx THEN setup.entry[c] ELSE <<>>) \in Seq(Coros)
    BY <1>1
  <2> QED
    BY <2>1 DEF Init, Workers
<1>3. loop \in [Ctx -> Loops]
  <2>1. "created" \in Phases
    BY DEF Phases
  <2> QED
    BY <2>1 DEF Init, Loops
<1>4. inbox \in [Ctx -> Inboxes]
  <2>1. <<>> \in Seq(Coros)
    OBVIOUS
  <2> QED
    BY <2>1 DEF Init, Inboxes
<1>5. coro \in [Coros -> Frames]
  <2> DEFINE Entered(k) == \E c \in setup.ctx : \E i \in DOMAIN setup.entry[c] : setup.entry[c][i] = k
  <2>1. coro = [k \in Coros |-> [st |-> IF Entered(k) THEN "live" ELSE "unborn", fuel |-> setup.fuel,
                                 handle |-> FALSE, prepared |-> FALSE]]
    BY DEF Init
  <2>2. setup.fuel \in 0..setup.fuel /\ FALSE \in BOOLEAN
    BY <1>1
  <2> HIDE DEF Entered
  <2> QED
    BY <2>1, <2>2 DEF Frames
<1>6. IoTypes
  BY <1>1, <1>2, <1>3, <1>4, <1>5 DEF IoTypes, Init
<1>7. ring \in [Ctx -> Rings(Requests)]
  <2>1. <<>> \in Seq(Requests)
    OBVIOUS
  <2> QED
    BY <2>1 DEF Init, Rings
<1>8. \A c \in Ctx : /\ ring[c].sq = <<>> /\ ring[c].kernel = {} /\ ring[c].cq = <<>>
                     /\ worker[c].requests_to_reap = 0 /\ loop[c].num = 0 /\ loop[c].running = None
                     /\ loop[c].phase = "created" /\ Len(worker[c].reap_swap) \in Nat
  <2>1. \A c \in Ctx : /\ ring[c].sq = <<>> /\ ring[c].kernel = {} /\ ring[c].cq = <<>>
                       /\ worker[c].requests_to_reap = 0 /\ loop[c].num = 0 /\ loop[c].running = None
                       /\ loop[c].phase = "created"
    BY DEF Init
  <2>2. \A c \in Ctx : Len(worker[c].reap_swap) \in Nat
    BY <1>2 DEF Workers
  <2> QED
    BY <2>1, <2>2
<1>9. Elements(<<>>) = {} /\ IsFiniteSet({}) /\ Cardinality({}) = 0
  BY FS_EmptySet DEF Elements
<1>10. \A c \in Ctx : Present(ring[c]) = {} /\ Owing(ring[c]) = {}
  BY <1>8, <1>9 DEF Present, Owing, Due, Debt
<1>11. \A c \in Ctx : RingGood(c)
  BY <1>8, <1>9, <1>10 DEF RingGood, OnceIn
<1>12. \A c \in Ctx : ReapOK(c) /\ LoopOK(c)
  <2>1. \A c \in Ctx : ReapOK(c)
    BY <1>8, <1>9, <1>10 DEF ReapOK
  <2>2. \A c \in Ctx : loop[c].num <= Len(worker[c].reap_swap)
    BY <1>8
  <2> QED
    BY <1>8, <1>10, <2>1, <2>2 DEF LoopOK
<1>13. MetaOK
  <2>1. Alive = setup.ctx /\ Ready = {}
    BY <1>1, <1>8 DEF Alive, Ready
  <2>2. meta.create_count = Cardinality(setup.ctx) /\ meta.ready_count = 0
    BY DEF Init
  <2>3. meta \in [create_count : Nat, ready_count : Nat]
    BY <1>1, FS_CardinalityType DEF Init
  <2> QED
    BY <1>9, <2>1, <2>2, <2>3 DEF MetaOK
<1> QED
  BY <1>6, <1>7, <1>11, <1>12, <1>13 DEF IoBase, RingsOK

\* Nobody's fuel grows.
FuelDown == \A k \in Coros : coro'[k].fuel <= coro[k].fuel

\* A request that was in order stays so.
LEMMA ReqStays ==
  ASSUME coro \in [Coros -> Frames], coro' \in [Coros -> Frames'], setup.fuel \in Nat,
         setup' = setup, FuelDown, NEW r \in Requests, ReqOK(r)
  PROVE  ReqOK(r)'
<1>1. ASSUME r.op \in {"io", "link"} PROVE r.no > coro'[r.coro].fuel
  <2>1. r.coro \in Coros /\ r.no > coro[r.coro].fuel
    BY <1>1 DEF ReqOK
  <2>2. coro'[r.coro].fuel <= coro[r.coro].fuel /\ coro[r.coro].fuel \in 0..setup.fuel
        /\ coro'[r.coro].fuel \in 0..setup.fuel
    BY <2>1 DEF FuelDown, Frames
  <2>3. r.no \in 0..setup.fuel
    BY DEF Requests
  <2> QED
    BY <2>1, <2>2, <2>3
<1> QED
  BY <1>1 DEF ReqOK

\* A step that changes one ring.
LEMMA RingAt ==
  ASSUME RingsOK, coro \in [Coros -> Frames], coro' \in [Coros -> Frames'], setup.fuel \in Nat,
         setup' = setup, failed => failed', FuelDown, NEW c \in Ctx, NEW z \in Rings(Requests),
         ring' = [ring EXCEPT ![c] = z], OnceIn(z),
         \A r \in Present(z) : r \in Present(ring[c]) \/ ReqOK(r)',
         \A r \in Elements(z.sq) : r.op = "msg" => r.to \in Ctx \ {c},
         \A r \in z.kernel : r.op # "msg",
         \A r \in Elements(z.cq) : r.op # "timer" /\ (r.op = "skip" => failed')
  PROVE  RingsOK' /\ ring'[c] = z /\ \A d \in Ctx \ {c} : ring'[d] = ring[d]
<1>1. ring'[c] = z /\ \A d \in Ctx \ {c} : ring'[d] = ring[d]
  BY DEF RingsOK
<1>2. Requests' = Requests
  BY DEF Requests
<1>3. ring' \in [Ctx -> Rings(Requests)']
  <2>1. ring' \in [Ctx -> Rings(Requests)]
    BY DEF RingsOK
  <2> QED
    BY <1>2, <2>1 DEF Rings
<1>4. ASSUME NEW d \in Ctx, NEW r \in Present(ring[d]) PROVE r \in Requests /\ ReqOK(r)'
  <2>1. ring[d] \in Rings(Requests) /\ RingGood(d)
    BY DEF RingsOK
  <2>2. /\ ring[d].sq \in Seq(Requests) /\ ring[d].kernel \in SUBSET Requests
        /\ ring[d].cq \in Seq(Requests)
    BY <2>1 DEF Rings
  <2>3. r \in Requests
    BY <2>2, ElementsOf DEF Present
  <2>4. ReqOK(r)
    BY <2>1 DEF RingGood
  <2> QED
    BY <2>3, <2>4, ReqStays
<1>5. ASSUME NEW d \in Ctx PROVE RingGood(d)'
  <2>1. CASE d = c
    <3>1. \A r \in Present(ring'[c]) : ReqOK(r)'
      BY <1>1, <1>4
    <3> QED
      BY <1>1, <2>1, <3>1 DEF RingGood
  <2>2. CASE d # c
    <3>1. ring'[d] = ring[d] /\ RingGood(d)
      BY <1>1, <2>2 DEF RingsOK
    <3>2. \A r \in Present(ring'[d]) : ReqOK(r)'
      BY <1>4, <3>1
    <3> QED
      BY <3>1, <3>2 DEF RingGood
  <2> QED
    BY <2>1, <2>2
<1> QED
  BY <1>1, <1>3, <1>5 DEF RingsOK

\* A step that changes none.
LEMMA RingsSame ==
  ASSUME RingsOK, coro \in [Coros -> Frames], coro' \in [Coros -> Frames'], setup.fuel \in Nat,
         setup' = setup, failed => failed', FuelDown, ring' = ring
  PROVE  RingsOK'
<1>1. Requests' = Requests
  BY DEF Requests
<1>2. ASSUME NEW c \in Ctx PROVE RingGood(c)'
  <2>1. RingGood(c) /\ ring[c] \in Rings(Requests)
    BY DEF RingsOK
  <2>2. ASSUME NEW r \in Present(ring[c]) PROVE ReqOK(r)'
    <3>1. /\ ring[c].sq \in Seq(Requests) /\ ring[c].kernel \in SUBSET Requests
          /\ ring[c].cq \in Seq(Requests)
      BY <2>1 DEF Rings
    <3>2. r \in Requests
      BY <3>1, ElementsOf DEF Present
    <3>3. ReqOK(r)
      BY <2>1 DEF RingGood
    <3> QED
      BY <3>2, <3>3, ReqStays
  <2> QED
    BY <2>1, <2>2 DEF RingGood
<1>3. ring' \in [Ctx -> Rings(Requests)']
  BY <1>1 DEF RingsOK, Rings
<1> QED
  BY <1>2, <1>3 DEF RingsOK

\* Constants do not change.
LEMMA IoConstantsStay == IoConstants => IoConstants'
BY DEF IoConstants

\* What a step of the thread of c, or of its kernel, has to show.
LEMMA IoAssemble ==
  ASSUME IoBase, NEW c \in Ctx, UNCHANGED <<meta, setup>>, failed => failed', RingsOK',
         NEW w \in Workers, worker' = [worker EXCEPT ![c] = w],
         NEW l \in Loops, loop' = [loop EXCEPT ![c] = l],
         inbox' \in [Ctx -> Inboxes], coro' \in [Coros -> Frames'],
         halted' \in {"no", "start_timeout", "empty_task", "reap_swap_full"},
         \A d \in Ctx \ {c} : Owing(ring'[d]) = Owing(ring[d]),
         ~ failed => /\ IsFiniteSet(Owing(ring'[c]))
                     /\ w.requests_to_reap = Cardinality(Owing(ring'[c])),
         l.num <= Len(w.reap_swap), l.running # None => l.phase = "work",
         l.phase \in {"created", "barrier", "run"} => Owing(ring'[c]) = {},
         \/ l.phase = loop[c].phase
         \/ l.phase \notin {"created", "stopped"} /\ loop[c].phase \notin {"created", "stopped"}
  PROVE  IoBase'
<1>1. IoConstants /\ IoTypes /\ MetaOK /\ \A d \in Ctx : ReapOK(d) /\ LoopOK(d)
  BY DEF IoBase
<1>2. /\ worker'[c] = w /\ loop'[c] = l
      /\ \A d \in Ctx \ {c} : worker'[d] = worker[d] /\ loop'[d] = loop[d]
  BY <1>1 DEF IoTypes
<1>3. worker' \in [Ctx -> Workers] /\ loop' \in [Ctx -> Loops]
  BY <1>1 DEF IoTypes
<1>4. IoTypes'
  BY <1>1, <1>3 DEF IoTypes, Inboxes, Loops, Workers
<1>5. setup.ctx \subseteq Ctx
  BY <1>1, IoConstantsFacts DEF IoTypes
<1>6. Alive' = Alive /\ Ready' = Ready
  BY <1>2, <1>5 DEF Alive, Ready
<1>7. MetaOK'
  BY <1>1, <1>6 DEF MetaOK
<1>8. \A d \in Ctx : ReapOK(d)'
  BY <1>1, <1>2 DEF ReapOK
<1>9. \A d \in Ctx : LoopOK(d)'
  BY <1>1, <1>2 DEF LoopOK
<1>10. IoConstants'
  BY <1>1, IoConstantsStay
<1> QED
  BY <1>4, <1>7, <1>8, <1>9, <1>10 DEF IoBase

\* A function that does not change.
LEMMA Itself == ASSUME NEW S, NEW T, NEW f \in [S -> T], NEW x \in S PROVE f = [f EXCEPT ![x] = f[x]]
OBVIOUS

\* Unpacking the invariant at a context.
LEMMA IoAt ==
  ASSUME IoBase, NEW c \in Ctx
  PROVE  /\ worker \in [Ctx -> Workers] /\ loop \in [Ctx -> Loops] /\ inbox \in [Ctx -> Inboxes]
         /\ coro \in [Coros -> Frames] /\ setup \in Setups /\ setup.fuel \in Nat
         /\ worker[c] \in Workers /\ loop[c] \in Loops /\ inbox[c] \in Inboxes
         /\ ring[c] \in Rings(Requests) /\ RingGood(c) /\ ReapOK(c) /\ LoopOK(c)
         /\ RingsOK /\ ring \in [Ctx -> Rings(Requests)] /\ setup.ctx \subseteq Ctx
         /\ halted \in {"no", "start_timeout", "empty_task", "reap_swap_full"}
         /\ None \notin Ctx /\ None \notin Coros
<1>1. IoConstants /\ setup \in Setups
  BY DEF IoBase, IoTypes
<1>2. setup.fuel \in Nat /\ setup.ctx \subseteq Ctx /\ None \notin Ctx /\ None \notin Coros
  BY <1>1, IoConstantsFacts
<1> QED
  BY <1>1, <1>2 DEF IoBase, IoTypes, RingsOK

\* A step that only moves the thread of c, inside its loop.
LEMMA LoopStep ==
  ASSUME IoBase, NEW c \in Ctx, UNCHANGED <<worker, inbox, ring, meta, coro, halted, setup>>, failed => failed',
         NEW l \in Loops, loop' = [loop EXCEPT ![c] = l],
         l.num <= Len(worker[c].reap_swap), l.running # None => l.phase = "work",
         l.phase \in {"created", "barrier", "run"} => Owing(ring[c]) = {},
         \/ l.phase = loop[c].phase
         \/ l.phase \notin {"created", "stopped"} /\ loop[c].phase \notin {"created", "stopped"}
  PROVE  IoBase'
<1>1. /\ worker \in [Ctx -> Workers] /\ inbox \in [Ctx -> Inboxes] /\ coro \in [Coros -> Frames]
      /\ worker[c] \in Workers /\ RingsOK /\ setup.fuel \in Nat /\ ReapOK(c)
      /\ halted \in {"no", "start_timeout", "empty_task", "reap_swap_full"}
  BY IoAt
<1>2. coro' \in [Coros -> Frames']
  BY <1>1 DEF Frames
<1>3. FuelDown
  BY <1>1 DEF FuelDown, Frames
<1>4. RingsOK'
  BY <1>1, <1>2, <1>3, RingsSame
<1>5. worker' = [worker EXCEPT ![c] = worker[c]]
  BY <1>1
<1>6. ~ failed => /\ IsFiniteSet(Owing(ring[c]))
                  /\ worker[c].requests_to_reap = Cardinality(Owing(ring[c]))
  BY <1>1 DEF ReapOK
<1> QED
  BY <1>1, <1>2, <1>4, <1>5, <1>6, IoAssemble

\* The thread of c goes to p.
LEMMA GotoStep ==
  ASSUME IoBase, NEW c \in Ctx, UNCHANGED <<worker, inbox, ring, meta, coro, halted, setup>>, failed => failed',
         NEW p \in Phases, loop' = [loop EXCEPT ![c].phase = p],
         p \in {"created", "barrier", "run"} => Owing(ring[c]) = {},
         loop[c].phase \notin {"created", "stopped", "work"}, p \notin {"created", "stopped"}
  PROVE  IoBase'
<1>1. loop[c] \in Loops /\ LoopOK(c)
  BY IoAt
<1>2. PICK l : l = [loop[c] EXCEPT !.phase = p]
  OBVIOUS
<1>3. /\ l \in Loops /\ loop' = [loop EXCEPT ![c] = l] /\ l.phase = p /\ l.num = loop[c].num
      /\ l.running = loop[c].running
  BY <1>1, <1>2 DEF Loops
<1>4. l.running = None
  BY <1>1, <1>3 DEF LoopOK
<1>5. l.num <= Len(worker[c].reap_swap)
  BY <1>1, <1>3 DEF LoopOK
<1> QED
  BY <1>3, <1>4, <1>5, LoopStep

\* The next round begins, or the loop ends.
LEMMA RoundStep ==
  ASSUME IoBase, NEW c \in Ctx, UNCHANGED <<worker, inbox, ring, meta, coro, halted, setup>>, failed => failed',
         NEW l \in Loops, loop' = [loop EXCEPT ![c] = l],
         loop[c].phase \notin {"created", "stopped", "work"}, l.running = loop[c].running,
         \/ l.phase = "deinit" /\ l.num = loop[c].num
         \/ l.phase = "work" /\ l.num = Len(worker[c].reap_swap)
  PROVE  IoBase'
<1>1. LoopOK(c) /\ worker[c] \in Workers
  BY IoAt
<1>2. l.running = None
  BY <1>1 DEF LoopOK
<1>3. l.num <= Len(worker[c].reap_swap)
  <2>1. Len(worker[c].reap_swap) \in Nat
    BY <1>1 DEF Workers
  <2> QED
    BY <1>1, <2>1 DEF LoopOK
<1> QED
  BY <1>2, <1>3, LoopStep

\* while (!will_stop)
LEMMA NextRoundLoop ==
  ASSUME IoBase, NEW c \in Ctx, worker'[c].reap_swap = worker[c].reap_swap, NextRound(c)
  PROVE  \E l \in Loops : /\ loop' = [loop EXCEPT ![c] = l] /\ l.running = loop[c].running
                          /\ \/ l.phase = "deinit" /\ l.num = loop[c].num
                             \/ l.phase = "work" /\ l.num = Len(worker[c].reap_swap)
<1>1. loop[c] \in Loops /\ worker[c] \in Workers
  BY IoAt
<1>2. Len(worker[c].reap_swap) \in Nat
  BY <1>1 DEF Workers
<1>3. {"deinit", "work"} \subseteq Phases
  BY DEF Phases
<1>4. CASE loop[c].will_stop
  <2>1. PICK l : l = [loop[c] EXCEPT !.phase = "deinit"]
    OBVIOUS
  <2>2. l \in Loops /\ l.running = loop[c].running /\ l.phase = "deinit" /\ l.num = loop[c].num
    BY <1>1, <1>3, <2>1 DEF Loops
  <2>3. loop' = [loop EXCEPT ![c] = l]
    BY <1>4, <2>1 DEF NextRound
  <2> QED
    BY <2>2, <2>3
<1>5. CASE ~ loop[c].will_stop
  <2>1. PICK l : l = [loop[c] EXCEPT !.phase = "work", !.num = Len(worker[c].reap_swap)]
    OBVIOUS
  <2>2. l \in Loops /\ l.running = loop[c].running /\ l.phase = "work" /\ l.num = Len(worker[c].reap_swap)
    BY <1>1, <1>2, <1>3, <2>1 DEF Loops
  <2>3. loop' = [loop EXCEPT ![c] = l]
    <3>1. loop' = [loop EXCEPT ![c].phase = "work", ![c].num = Len(worker[c].reap_swap)]
      BY <1>5 DEF NextRound
    <3>2. loop \in [Ctx -> Loops]
      BY IoAt
    <3> QED
      BY <1>1, <2>1, <3>1, <3>2 DEF Loops
  <2> QED
    BY <2>2, <2>3
<1> QED
  BY <1>4, <1>5

\* The steps of the loop between its parts.
LEMMA IoMoves ==
  ASSUME IoBase, NEW c \in Ctx, UNCHANGED setup, failed => failed',
         \/ PassBarrier(c) \/ WaitReturns(c) \/ Peek(c) \/ BadPeek(c)
         \/ PollDone(c) \/ BadPollDone(c) \/ DecideOver(c)
  PROVE  IoBase'
<1>1. /\ loop[c] \in Loops /\ LoopOK(c) /\ loop \in [Ctx -> Loops] /\ worker[c] \in Workers
  BY IoAt
<1>2. {"run", "work", "peek", "poll", "bad_peek", "bad_wait", "bad_poll", "over", "deinit"} \subseteq Phases
  BY DEF Phases
<1>3. Len(worker[c].reap_swap) \in Nat
  BY <1>1 DEF Workers
<1>4. UNCHANGED <<worker, inbox, ring, meta, coro, halted, setup>>
  BY DEF PassBarrier, WaitReturns, Peek, BadPeek, PollDone, BadPollDone, DecideOver
<1>5. CASE PassBarrier(c)
  <2>1. loop[c].phase = "barrier" /\ loop' = [loop EXCEPT ![c].phase = "run"]
    BY <1>5 DEF PassBarrier, At, Goto
  <2>2. Owing(ring[c]) = {}
    BY <1>1, <2>1 DEF LoopOK
  <2> QED
    BY <1>2, <1>4, <2>1, <2>2, GotoStep
<1>6. CASE WaitReturns(c)
  <2>1. PICK p \in {"peek", "bad_poll"} : loop' = [loop EXCEPT ![c].phase = p]
    BY <1>6 DEF WaitReturns, Goto
  <2>2. loop[c].phase \in {"submit_wait", "bad_wait"}
    BY <1>6 DEF WaitReturns, At
  <2> QED
    BY <1>2, <1>4, <2>1, <2>2, GotoStep
<1>7. CASE Peek(c)
  <2>1. loop[c].phase = "peek"
    BY <1>7 DEF Peek, At
  <2>2. CASE NextRound(c)
    <3>1. PICK l \in Loops : /\ loop' = [loop EXCEPT ![c] = l] /\ l.running = loop[c].running
                             /\ \/ l.phase = "deinit" /\ l.num = loop[c].num
                                \/ l.phase = "work" /\ l.num = Len(worker[c].reap_swap)
      BY <1>4, <2>2, NextRoundLoop
    <3> QED
      BY <1>4, <2>1, <3>1, RoundStep
  <2>3. CASE ~ NextRound(c)
    <3>1. PICK p \in {"poll", "bad_peek"} : loop' = [loop EXCEPT ![c].phase = p]
      BY <1>7, <2>3 DEF Peek, Goto
    <3> QED
      BY <1>2, <1>4, <2>1, <3>1, GotoStep
  <2> QED
    BY <2>2, <2>3
<1>8. CASE BadPeek(c)
  <2>1. loop[c].phase = "bad_peek"
    BY <1>8 DEF BadPeek, At
  <2>2. PICK p \in {"bad_wait", "bad_poll"} : loop' = [loop EXCEPT ![c].handled = FALSE, ![c].phase = p]
    BY <1>8 DEF BadPeek
  <2>3. PICK l : l = [loop[c] EXCEPT !.handled = FALSE, !.phase = p]
    OBVIOUS
  <2>4. l \in Loops /\ l.phase = p /\ l.num = loop[c].num /\ l.running = loop[c].running
    BY <1>1, <1>2, <2>3 DEF Loops
  <2>5. loop' = [loop EXCEPT ![c] = l]
    BY <1>1, <2>2, <2>3 DEF Loops
  <2>6. l.running = None /\ l.num <= Len(worker[c].reap_swap)
    BY <1>1, <2>1, <2>4 DEF LoopOK
  <2> QED
    BY <1>4, <2>1, <2>4, <2>5, <2>6, LoopStep
<1>9. CASE PollDone(c)
  <2>1. loop[c].phase = "poll" /\ NextRound(c)
    BY <1>9 DEF PollDone, At
  <2>2. PICK l \in Loops : /\ loop' = [loop EXCEPT ![c] = l] /\ l.running = loop[c].running
                           /\ \/ l.phase = "deinit" /\ l.num = loop[c].num
                              \/ l.phase = "work" /\ l.num = Len(worker[c].reap_swap)
    BY <1>4, <2>1, NextRoundLoop
  <2> QED
    BY <1>4, <2>1, <2>2, RoundStep
<1>10. CASE BadPollDone(c)
  <2>1. loop[c].phase = "bad_poll" /\ loop' = [loop EXCEPT ![c].phase = "over"]
    BY <1>10 DEF BadPollDone, At, Goto
  <2> QED
    BY <1>2, <1>4, <2>1, GotoStep
<1>11. CASE DecideOver(c)
  <2>1. loop[c].phase = "over"
    BY <1>11 DEF DecideOver, At
  <2>2. CASE loop' = [loop EXCEPT ![c].phase = "work", ![c].num = Len(worker[c].reap_swap)]
    <3>1. PICK l : l = [loop[c] EXCEPT !.phase = "work", !.num = Len(worker[c].reap_swap)]
      OBVIOUS
    <3>2. l \in Loops /\ l.running = loop[c].running /\ l.phase = "work" /\ l.num = Len(worker[c].reap_swap)
      BY <1>1, <1>2, <1>3, <3>1 DEF Loops
    <3>3. loop' = [loop EXCEPT ![c] = l]
      BY <1>1, <2>2, <3>1 DEF Loops
    <3> QED
      BY <1>4, <2>1, <3>2, <3>3, RoundStep
  <2>3. CASE loop' = [loop EXCEPT ![c].phase = "deinit", ![c].will_stop = TRUE]
    <3>1. PICK l : l = [loop[c] EXCEPT !.phase = "deinit", !.will_stop = TRUE]
      OBVIOUS
    <3>2. l \in Loops /\ l.running = loop[c].running /\ l.phase = "deinit" /\ l.num = loop[c].num
      BY <1>1, <1>2, <3>1 DEF Loops
    <3>3. loop' = [loop EXCEPT ![c] = l]
      BY <1>1, <2>3, <3>1 DEF Loops
    <3> QED
      BY <1>4, <2>1, <3>2, <3>3, RoundStep
  <2> QED
    BY <1>11, <2>2, <2>3 DEF DecideOver
<1> QED
  BY <1>5, <1>6, <1>7, <1>8, <1>9, <1>10, <1>11

\* start(), deinit() and the start-up timeout
LEMMA IoStartStop ==
  ASSUME IoBase, NEW c \in setup.ctx, UNCHANGED setup, failed => failed',
         \/ Start(c)
         \/ Deinit(c)
         \/ BarrierTimeout(c)
  PROVE  IoBase'
<1>0. c \in Ctx
  BY IoAt DEF IoBase, IoTypes, IoConstants
<1>1. /\ worker \in [Ctx -> Workers] /\ loop \in [Ctx -> Loops] /\ inbox \in [Ctx -> Inboxes]
      /\ coro \in [Coros -> Frames] /\ setup \in Setups /\ setup.fuel \in Nat
      /\ loop[c] \in Loops /\ RingsOK /\ setup.ctx \subseteq Ctx
      /\ halted \in {"no", "start_timeout", "empty_task", "reap_swap_full"}
  BY <1>0, IoAt
<1>2. IoConstants /\ MetaOK /\ \A d \in Ctx : ReapOK(d) /\ LoopOK(d)
  BY DEF IoBase
<1>3. UNCHANGED <<worker, inbox, ring, coro, setup>>
  BY DEF Start, Deinit, BarrierTimeout
<1>4. IoConstants' /\ coro' \in [Coros -> Frames'] /\ FuelDown
  BY <1>1, <1>2, <1>3, IoConstantsStay DEF FuelDown, Frames
<1>5. RingsOK'
  BY <1>1, <1>3, <1>4, RingsSame
<1>6. \A d \in Ctx : ReapOK(d)'
  BY <1>2, <1>3 DEF ReapOK
<1>7. IsFiniteSet(setup.ctx)
  BY <1>1, <1>2, IoConstantsFacts
<1>8. IsFiniteSet(Alive) /\ IsFiniteSet(Ready)
  BY <1>7, FS_Subset DEF Alive, Ready
<1>9. CASE BarrierTimeout(c)
  <2>1. UNCHANGED <<loop, meta>> /\ halted' = "start_timeout"
    BY <1>9 DEF BarrierTimeout
  <2>2. IoTypes'
    BY <1>1, <1>3, <1>4, <2>1 DEF IoTypes, Inboxes, Loops, Workers
  <2>3. MetaOK' /\ \A d \in Ctx : LoopOK(d)'
    BY <1>2, <1>3, <2>1 DEF MetaOK, Alive, Ready, LoopOK
  <2> QED
    BY <1>4, <1>5, <1>6, <2>2, <2>3 DEF IoBase
<1>10. ASSUME NEW p \in Phases, loop' = [loop EXCEPT ![c].phase = p], UNCHANGED halted, MetaOK',
              p \in {"created", "barrier", "run"} => Owing(ring[c]) = {},
              loop[c].phase # "work"
       PROVE  IoBase'
  <2>1. loop' \in [Ctx -> Loops] /\ \A d \in Ctx : /\ loop'[d].num = loop[d].num
                                                  /\ loop'[d].running = loop[d].running
                                                  /\ loop'[d].phase = IF d = c THEN p ELSE loop[d].phase
    BY <1>0, <1>1, <1>10 DEF Loops
  <2>2. IoTypes'
    BY <1>1, <1>3, <1>4, <1>10, <2>1 DEF IoTypes, Inboxes, Loops, Workers
  <2>3. \A d \in Ctx : LoopOK(d)'
    BY <1>2, <1>3, <1>10, <2>1 DEF LoopOK
  <2> QED
    BY <1>4, <1>5, <1>6, <1>10, <2>2, <2>3 DEF IoBase
<1>11. CASE Start(c)
  <2>1. /\ loop[c].phase = "created" /\ loop' = [loop EXCEPT ![c].phase = "barrier"] /\ UNCHANGED halted
        /\ meta' = [meta EXCEPT !.ready_count = @ + 1]
    BY <1>11 DEF Start, At, Goto
  <2>2. \A d \in Ctx : loop'[d].phase = IF d = c THEN "barrier" ELSE loop[d].phase
    BY <1>0, <1>1, <2>1 DEF Loops
  <2>3. Alive' = Alive /\ Ready' = Ready \cup {c} /\ c \notin Ready
    BY <1>1, <1>3, <2>1, <2>2 DEF Alive, Ready
  <2>4. Cardinality(Ready') = Cardinality(Ready) + 1
    BY <1>8, <2>3, FS_AddElement
  <2>5. MetaOK'
    BY <1>2, <2>1, <2>3, <2>4 DEF MetaOK
  <2>6. Owing(ring[c]) = {} /\ "barrier" \in Phases
    BY <1>0, <1>2, <2>1 DEF LoopOK, Phases
  <2> QED
    BY <1>10, <2>1, <2>5, <2>6
<1>12. CASE Deinit(c)
  <2>1. /\ loop[c].phase = "deinit" /\ loop' = [loop EXCEPT ![c].phase = "stopped"] /\ UNCHANGED halted
        /\ meta' = [meta EXCEPT !.create_count = @ - 1, !.ready_count = @ - 1]
    BY <1>12 DEF Deinit, At, Goto
  <2>2. \A d \in Ctx : loop'[d].phase = IF d = c THEN "stopped" ELSE loop[d].phase
    BY <1>0, <1>1, <2>1 DEF Loops
  <2>3. Alive' = Alive \ {c} /\ Ready' = Ready \ {c} /\ c \in Ready /\ c \in Alive
    BY <1>1, <1>3, <2>1, <2>2 DEF Alive, Ready
  <2>4. /\ Cardinality(Ready') = Cardinality(Ready) - 1 /\ Cardinality(Alive') = Cardinality(Alive) - 1
        /\ Cardinality(Ready') \in Nat /\ Cardinality(Alive') \in Nat
    BY <1>8, <2>3, FS_RemoveElement, FS_CardinalityType
  <2>5. MetaOK'
    <3>1. meta \in [create_count : Nat, ready_count : Nat]
      BY <1>2 DEF MetaOK
    <3>2. meta'.create_count = Cardinality(Alive') /\ meta'.ready_count = Cardinality(Ready')
      BY <1>2, <2>1, <2>4, <3>1 DEF MetaOK
    <3>3. meta' \in [create_count : Nat, ready_count : Nat]
      <4>1. meta.create_count - 1 \in Nat /\ meta.ready_count - 1 \in Nat
        BY <1>2, <2>4 DEF MetaOK
      <4> QED
        BY <2>1, <3>1, <4>1
    <3> QED
      BY <3>2, <3>3 DEF MetaOK
  <2>6. "stopped" \in Phases
    BY DEF Phases
  <2> QED
    BY <1>10, <2>1, <2>5, <2>6
<1> QED
  BY <1>9, <1>11, <1>12

\* What get_free_sqe() does to the counters: n more requests owe a cqe.
IssuedWith(c, n) ==
  \E w \in Workers :
    /\ worker' = [worker EXCEPT ![c] = w] /\ w.reap_swap = worker[c].reap_swap
    /\ w.requests_to_reap = worker[c].requests_to_reap + n

\* Issue, on worker_meta.
LEMMA IssueCounts ==
  ASSUME IoBase, NEW c \in Ctx, NEW reqs \in Seq(Requests), Issue(c, reqs), NEW n \in Nat,
         Cardinality({i \in DOMAIN reqs : Owes(reqs[i])}) = n
  PROVE  IssuedWith(c, n)
<1>1. worker \in [Ctx -> Workers] /\ worker[c] \in Workers /\ Len(reqs) \in Nat
  BY IoAt
<1>2. worker' = [worker EXCEPT ![c].requests_to_submit = @ + Len(reqs), ![c].requests_to_reap = @ + n]
  BY DEF Issue, Owes
<1>3. PICK w : w = [worker[c] EXCEPT !.requests_to_submit = @ + Len(reqs), !.requests_to_reap = @ + n]
  OBVIOUS
<1>4. /\ w \in Workers /\ w.reap_swap = worker[c].reap_swap
      /\ w.requests_to_reap = worker[c].requests_to_reap + n
  <2>1. worker[c].requests_to_submit + Len(reqs) \in Nat /\ worker[c].requests_to_reap + n \in Int
    BY <1>1 DEF Workers
  <2> QED
    BY <1>1, <1>3, <2>1 DEF Workers
<1>5. worker' = [worker EXCEPT ![c] = w]
  BY <1>1, <1>2, <1>3 DEF Workers
<1> QED
  BY <1>4, <1>5 DEF IssuedWith

\* A request that owes a cqe, and one that does not.
LEMMA DueOf ==
  ASSUME NEW r
  PROVE  /\ r.op \in Counted => Debt(r) = {r}
         /\ r.op \notin Counted => Debt(r) = {}
BY DEF Due, Debt, Owes

\* How many of one or two requests owe a cqe.
LEMMA CountOne ==
  ASSUME NEW r, NEW n, (Debt(r) = {r} /\ n = 1) \/ (Debt(r) = {} /\ n = 0)
  PROVE  Cardinality({i \in DOMAIN <<r>> : Owes(<<r>>[i])}) = n
<1>1. DOMAIN <<r>> = {1} /\ <<r>>[1] = r
  OBVIOUS
<1>2. CASE Debt(r) = {r} /\ n = 1
  <2>1. {i \in DOMAIN <<r>> : Owes(<<r>>[i])} = {1}
    BY <1>1, <1>2 DEF Due, Debt
  <2> QED
    BY <1>2, <2>1, FS_Singleton
<1>3. CASE Debt(r) = {} /\ n = 0
  <2>1. {i \in DOMAIN <<r>> : Owes(<<r>>[i])} = {}
    BY <1>1, <1>3 DEF Due, Debt
  <2> QED
    BY <1>3, <2>1, FS_EmptySet
<1> QED
  BY <1>2, <1>3

\* Likewise.
LEMMA CountTwo ==
  ASSUME NEW r, NEW s, NEW n, Debt(r) = {r},
         (Debt(s) = {s} /\ n = 2) \/ (Debt(s) = {} /\ n = 1)
  PROVE  Cardinality({i \in DOMAIN <<r, s>> : Owes(<<r, s>>[i])}) = n
<1>1. DOMAIN <<r, s>> = {1, 2} /\ <<r, s>>[1] = r /\ <<r, s>>[2] = s
  OBVIOUS
<1>2. CASE Debt(s) = {s} /\ n = 2
  <2>1. {i \in DOMAIN <<r, s>> : Owes(<<r, s>>[i])} = {1} \cup {2}
    BY <1>1, <1>2 DEF Due, Debt
  <2>2. IsFiniteSet({1}) /\ Cardinality({1}) = 1 /\ 2 \notin {1}
    BY FS_Singleton
  <2>3. Cardinality({1} \cup {2}) = Cardinality({1}) + 1
    BY <2>2, FS_AddElement
  <2> QED
    BY <1>2, <2>1, <2>2, <2>3
<1>3. CASE Debt(s) = {} /\ n = 1
  <2>1. {i \in DOMAIN <<r, s>> : Owes(<<r, s>>[i])} = {1}
    BY <1>1, <1>3 DEF Due, Debt
  <2> QED
    BY <1>3, <2>1, FS_Singleton
<1> QED
  BY <1>2, <1>3

\* What the coroutine's frame and the request's serial number are about.
Spends(c) == /\ UNCHANGED setup /\ (failed => failed') /\ coro' \in [Coros -> Frames'] /\ FuelDown

\* What holds of a ring that n more requests owe a cqe.
Issued(c, n) ==
  /\ RingsOK' /\ \A d \in Ctx \ {c} : ring'[d] = ring[d]
  /\ IssuedWith(c, n)
  /\ ~ failed => /\ IsFiniteSet(Owing(ring'[c]))
                 /\ worker[c].requests_to_reap + n = Cardinality(Owing(ring'[c]))

\* Requests R are added to the sq.
LEMMA SqGood ==
  ASSUME IoBase, NEW c \in Ctx, Spends(c), NEW z \in Rings(Requests), ring' = [ring EXCEPT ![c] = z],
         NEW R, \A r \in R : ReqOK(r)' /\ (r.op = "msg" => r.to \in Ctx \ {c}),
         OnceIn(z), Present(z) = Present(ring[c]) \cup R, SqSet(z) = SqSet(ring[c]) \cup R,
         z.kernel = ring[c].kernel, z.cq = ring[c].cq
  PROVE  RingsOK' /\ ring'[c] = z /\ \A d \in Ctx \ {c} : ring'[d] = ring[d]
<1>1. RingGood(c) /\ RingsOK /\ coro \in [Coros -> Frames] /\ setup.fuel \in Nat
  BY IoAt
<1>2. \A q \in Elements(z.sq) : q.op = "msg" => q.to \in Ctx \ {c}
  BY <1>1 DEF RingGood, SqSet
<1>3. \A q \in z.kernel : q.op # "msg"
  BY <1>1 DEF RingGood
<1>4. \A q \in Elements(z.cq) : q.op # "timer" /\ (q.op = "skip" => failed)
  BY <1>1 DEF RingGood
<1>5. \A q \in Present(z) : q \in Present(ring[c]) \/ ReqOK(q)'
  OBVIOUS
<1> QED
  BY <1>1, <1>2, <1>3, <1>4, <1>5, RingAt DEF Spends

\* Counting one more request, or none.
LEMMA OwesMore ==
  ASSUME NEW A, IsFiniteSet(A), NEW r, r \notin A, NEW D, NEW n,
         (D = {r} /\ n = 1) \/ (D = {} /\ n = 0)
  PROVE  IsFiniteSet(A \cup D) /\ Cardinality(A \cup D) = Cardinality(A) + n
<1>1. CASE D = {r} /\ n = 1
  BY <1>1, FS_AddElement
<1>2. CASE D = {} /\ n = 0
  <2>1. A \cup D = A /\ Cardinality(A) \in Nat
    BY <1>2, FS_CardinalityType
  <2> QED
    BY <1>2, <2>1
<1> QED
  BY <1>1, <1>2

\* One sqe.
LEMMA IssueOne ==
  ASSUME IoBase, NEW c \in Ctx, NEW r \in Requests, Issue(c, <<r>>), Spends(c), ReqOK(r)',
         r.op = "msg" => r.to \in Ctx \ {c}, r \notin Owing(ring[c]),
         NEW n, (Debt(r) = {r} /\ n = 1) \/ (Debt(r) = {} /\ n = 0)
  PROVE  /\ Issued(c, n)
         /\ ring'[c].sq = Append(ring[c].sq, r) /\ ring'[c].cq = ring[c].cq
         /\ ring'[c].kernel = ring[c].kernel
<1>1. /\ ring[c] \in Rings(Requests) /\ RingGood(c) /\ ring \in [Ctx -> Rings(Requests)]
      /\ ReapOK(c) /\ worker[c] \in Workers
  BY IoAt
<1>2. ring[c].sq \in Seq(Requests) /\ OnceIn(ring[c])
  BY <1>1 DEF Rings, RingGood
<1>3. ring[c].sq \o <<r>> = Append(ring[c].sq, r) /\ Append(ring[c].sq, r) \in Seq(Requests)
  BY <1>2, ElementsAppend
<1>4. PICK q \in Seq(Requests) : q = Append(ring[c].sq, r)
  BY <1>3
<1>12. ring' = [ring EXCEPT ![c].sq = q]
  BY <1>3, <1>4 DEF Issue
<1>13. PICK x : x = ring[c]
  OBVIOUS
<1>14. PICK z : z = [x EXCEPT !.sq = q]
  OBVIOUS
<1>15. z \in Rings(Requests) /\ z.sq = q /\ z.kernel = x.kernel /\ z.cq = x.cq
  BY <1>1, <1>13, <1>14 DEF Rings
<1>16. ring' = [ring EXCEPT ![c] = z]
  BY <1>12, <1>13, <1>14
<1>5. /\ ring' = [ring EXCEPT ![c] = z] /\ z.sq = Append(ring[c].sq, r)
      /\ z.kernel = ring[c].kernel /\ z.cq = ring[c].cq
  BY <1>4, <1>13, <1>15, <1>16
<1>6. /\ OnceIn(z) /\ Present(z) = Present(ring[c]) \cup {r}
      /\ Owing(z) = Owing(ring[c]) \cup Debt(r) /\ SqSet(z) = SqSet(ring[c]) \cup {r}
  <2>1. /\ x \in Rings(Requests) /\ OnceIn(x) /\ r \notin Owing(x)
        /\ z.sq = Append(x.sq, r) /\ z.kernel = x.kernel /\ z.cq = x.cq
    BY <1>1, <1>2, <1>4, <1>13, <1>15
  <2>2. /\ OnceIn(z) /\ Present(z) = Present(x) \cup {r}
        /\ Owing(z) = Owing(x) \cup Debt(r) /\ SqSet(z) = SqSet(x) \cup {r}
    BY <1>15, <2>1, AddsRequest
  <2> QED
    BY <1>13, <2>2
<1>7. RingsOK' /\ ring'[c] = z /\ \A d \in Ctx \ {c} : ring'[d] = ring[d]
  <2>1. PICK R : R = {r}
    OBVIOUS
  <2>2. \A p \in R : ReqOK(p)' /\ (p.op = "msg" => p.to \in Ctx \ {c})
    BY <2>1
  <2>3. Present(z) = Present(ring[c]) \cup R /\ SqSet(z) = SqSet(ring[c]) \cup R
    BY <1>6, <2>1
  <2> QED
    BY <1>5, <1>6, <1>15, <2>2, <2>3, SqGood
<1>8. n \in Nat
  OBVIOUS
<1>9. IssuedWith(c, n)
  <2>1. <<r>> \in Seq(Requests)
    OBVIOUS
  <2>2. Cardinality({i \in DOMAIN <<r>> : Owes(<<r>>[i])}) = n
    BY CountOne
  <2> QED
    BY <1>8, <2>1, <2>2, IssueCounts
<1>10. ASSUME ~ failed
       PROVE  IsFiniteSet(Owing(z)) /\ worker[c].requests_to_reap + n = Cardinality(Owing(z))
  <2>1. /\ IsFiniteSet(Owing(ring[c])) /\ worker[c].requests_to_reap = Cardinality(Owing(ring[c]))
    BY <1>1, <1>10 DEF ReapOK
  <2>2. /\ IsFiniteSet(Owing(ring[c]) \cup Debt(r))
        /\ Cardinality(Owing(ring[c]) \cup Debt(r)) = Cardinality(Owing(ring[c])) + n
    BY <2>1, OwesMore
  <2> QED
    BY <1>6, <2>1, <2>2
<1>11. Issued(c, n)
  BY <1>7, <1>9, <1>10 DEF Issued
<1> QED
  BY <1>5, <1>7, <1>11

\* Two elements at the end of a sequence.
LEMMA AppendTwo ==
  ASSUME NEW S, NEW q \in Seq(S), NEW r \in S, NEW s \in S
  PROVE  q \o <<r, s>> = Append(Append(q, r), s) /\ Append(Append(q, r), s) \in Seq(S)
OBVIOUS

\* Two sqes, neither a message.
LEMMA IssueTwo ==
  ASSUME IoBase, NEW c \in Ctx, NEW r \in Requests, NEW s \in Requests, Issue(c, <<r, s>>),
         Spends(c), ReqOK(r)', ReqOK(s)', r.op # "msg", s.op # "msg", r # s,
         r \notin Owing(ring[c]), s \notin Owing(ring[c]),
         Debt(r) = {r}, NEW n, NEW m, (Debt(s) = {s} /\ m = 1) \/ (Debt(s) = {} /\ m = 0), n = 1 + m
  PROVE  /\ Issued(c, n)
         /\ ring'[c].sq = Append(Append(ring[c].sq, r), s) /\ ring'[c].cq = ring[c].cq
         /\ ring'[c].kernel = ring[c].kernel
<1>1. /\ ring[c] \in Rings(Requests) /\ RingGood(c) /\ ring \in [Ctx -> Rings(Requests)]
      /\ ReapOK(c) /\ worker[c] \in Workers
  BY IoAt
<1>2. ring[c].sq \in Seq(Requests) /\ OnceIn(ring[c])
  BY <1>1 DEF Rings, RingGood
<1>3. /\ ring[c].sq \o <<r, s>> = Append(Append(ring[c].sq, r), s)
      /\ Append(Append(ring[c].sq, r), s) \in Seq(Requests)
  BY <1>2, AppendTwo
<1>4. PICK q \in Seq(Requests) : q = Append(Append(ring[c].sq, r), s)
  BY <1>3
<1>12. ring' = [ring EXCEPT ![c].sq = q]
  BY <1>3, <1>4 DEF Issue
<1>13. PICK x : x = ring[c]
  OBVIOUS
<1>14. PICK z : z = [x EXCEPT !.sq = q]
  OBVIOUS
<1>15. z \in Rings(Requests) /\ z.sq = q /\ z.kernel = x.kernel /\ z.cq = x.cq
  BY <1>1, <1>13, <1>14 DEF Rings
<1>16. ring' = [ring EXCEPT ![c] = z]
  BY <1>12, <1>13, <1>14
<1>5. /\ ring' = [ring EXCEPT ![c] = z] /\ z.sq = Append(Append(ring[c].sq, r), s)
      /\ z.kernel = ring[c].kernel /\ z.cq = ring[c].cq
  BY <1>4, <1>13, <1>15, <1>16
<1>6. /\ OnceIn(z) /\ Present(z) = Present(ring[c]) \cup {r, s}
      /\ Owing(z) = (Owing(ring[c]) \cup Debt(r)) \cup Debt(s)
      /\ SqSet(z) = SqSet(ring[c]) \cup {r, s}
  <2>1. /\ x \in Rings(Requests) /\ OnceIn(x) /\ r \notin Owing(x) /\ s \notin Owing(x)
        /\ z.sq = Append(Append(x.sq, r), s) /\ z.kernel = x.kernel /\ z.cq = x.cq
    BY <1>1, <1>2, <1>4, <1>13, <1>15
  <2>2. /\ OnceIn(z) /\ Present(z) = Present(x) \cup {r, s}
        /\ Owing(z) = (Owing(x) \cup Debt(r)) \cup Debt(s) /\ SqSet(z) = SqSet(x) \cup {r, s}
    BY <1>15, <2>1, AddsTwo
  <2> QED
    BY <1>13, <2>2
<1>7. RingsOK' /\ ring'[c] = z /\ \A d \in Ctx \ {c} : ring'[d] = ring[d]
  <2>1. PICK R : R = {r, s}
    OBVIOUS
  <2>2. \A p \in R : ReqOK(p)' /\ (p.op = "msg" => p.to \in Ctx \ {c})
    BY <2>1
  <2>3. Present(z) = Present(ring[c]) \cup R /\ SqSet(z) = SqSet(ring[c]) \cup R
    BY <1>6, <2>1
  <2> QED
    BY <1>5, <1>6, <1>15, <2>2, <2>3, SqGood
<1>8. m \in Nat /\ n \in Nat
  OBVIOUS
<1>9. IssuedWith(c, n)
  <2>1. <<r, s>> \in Seq(Requests)
    OBVIOUS
  <2>2. Cardinality({i \in DOMAIN <<r, s>> : Owes(<<r, s>>[i])}) = n
    <3>1. (Debt(s) = {s} /\ n = 2) \/ (Debt(s) = {} /\ n = 1)
      OBVIOUS
    <3> QED
      BY <3>1, CountTwo
  <2> QED
    BY <1>8, <2>1, <2>2, IssueCounts
<1>10. ASSUME ~ failed
       PROVE  IsFiniteSet(Owing(z)) /\ worker[c].requests_to_reap + n = Cardinality(Owing(z))
  <2>1. /\ IsFiniteSet(Owing(ring[c])) /\ worker[c].requests_to_reap = Cardinality(Owing(ring[c]))
    BY <1>1, <1>10 DEF ReapOK
  <2>2. PICK A : A = Owing(ring[c]) \cup Debt(r)
    OBVIOUS
  <2>3. IsFiniteSet(A) /\ Cardinality(A) = Cardinality(Owing(ring[c])) + 1
    BY <2>1, <2>2, FS_AddElement
  <2>4. s \notin A
    BY <2>2
  <2>8. PICK D : D = Debt(s)
    OBVIOUS
  <2>5. IsFiniteSet(A \cup D) /\ Cardinality(A \cup D) = Cardinality(A) + m
    BY <2>3, <2>4, <2>8, OwesMore
  <2>6. Owing(z) = A \cup D
    BY <1>6, <2>2, <2>8
  <2>7. Cardinality(Owing(ring[c])) \in Nat
    BY <2>1, FS_CardinalityType
  <2> QED
    BY <1>8, <2>1, <2>3, <2>5, <2>6, <2>7
<1>11. Issued(c, n)
  BY <1>7, <1>9, <1>10 DEF Issued
<1> QED
  BY <1>5, <1>6, <1>7, <1>11
\* A step of a coroutine on c that issues requests.
LEMMA IoIssueStep ==
  ASSUME IoBase, NEW c \in Ctx, Spends(c), UNCHANGED <<meta, inbox, halted>>,
         NEW n \in Nat, Issued(c, n), NEW l \in Loops, loop' = [loop EXCEPT ![c] = l],
         l.num <= Len(worker[c].reap_swap), l.running # None => l.phase = "work",
         l.phase \notin {"created", "stopped", "barrier", "run"}, loop[c].phase \notin {"created", "stopped"}
  PROVE  IoBase'
<1>1. /\ inbox \in [Ctx -> Inboxes] /\ halted \in {"no", "start_timeout", "empty_task", "reap_swap_full"}
  BY IoAt
<1>2. PICK w \in Workers : /\ worker' = [worker EXCEPT ![c] = w] /\ w.reap_swap = worker[c].reap_swap
                           /\ w.requests_to_reap = worker[c].requests_to_reap + n
  BY DEF Issued, IssuedWith
<1>3. RingsOK' /\ \A d \in Ctx \ {c} : ring'[d] = ring[d]
  BY DEF Issued
<1>4. ~ failed => /\ IsFiniteSet(Owing(ring'[c]))
                  /\ w.requests_to_reap = Cardinality(Owing(ring'[c]))
  BY <1>2 DEF Issued
<1>5. UNCHANGED <<meta, setup>> /\ (failed => failed') /\ coro' \in [Coros -> Frames'] /\ inbox' \in [Ctx -> Inboxes]
      /\ halted' \in {"no", "start_timeout", "empty_task", "reap_swap_full"}
  BY <1>1 DEF Spends
<1>6. \A d \in Ctx \ {c} : Owing(ring'[d]) = Owing(ring[d])
  BY <1>3
<1>7. l.num <= Len(w.reap_swap)
  BY <1>2
<1> QED
  BY <1>2, <1>3, <1>4, <1>5, <1>6, <1>7, IoAssemble

\* One frame changes, and its fuel does not grow.
LEMMA FrameStep ==
  ASSUME IoBase, NEW c \in Ctx, NEW k \in Coros, UNCHANGED setup, failed => failed', NEW f \in Frames,
         f.fuel <= coro[k].fuel, coro' = [coro EXCEPT ![k] = f]
  PROVE  Spends(c) /\ coro'[k] = f /\ \A j \in Coros \ {k} : coro'[j] = coro[j]
<1>1. coro \in [Coros -> Frames] /\ setup.fuel \in Nat
  BY IoAt
<1>2. coro'[k] = f /\ \A j \in Coros \ {k} : coro'[j] = coro[j]
  BY <1>1
<1>3. coro' \in [Coros -> Frames']
  <2>1. coro' \in [Coros -> Frames]
    BY <1>1
  <2> QED
    BY <2>1 DEF Frames
<1>4. FuelDown
  <2>1. \A j \in Coros : coro[j].fuel <= coro[j].fuel
    BY <1>1 DEF Frames
  <2> QED
    BY <1>2, <2>1 DEF FuelDown
<1> QED
  BY <1>2, <1>3, <1>4 DEF Spends

\* One unit of fuel is spent.
LEMMA SpendStep ==
  ASSUME IoBase, NEW c \in Ctx, NEW k \in Coros, UNCHANGED setup, failed => failed', coro[k].fuel > 0,
         \/ coro' = [coro EXCEPT ![k].fuel = @ - 1]
         \/ coro' = [coro EXCEPT ![k].fuel = @ - 1, ![k].handle = TRUE]
         \/ coro' = [coro EXCEPT ![k].fuel = @ - 1, ![k].prepared = TRUE]
  PROVE  /\ Spends(c) /\ coro'[k].fuel = coro[k].fuel - 1 /\ \A j \in Coros \ {k} : coro'[j] = coro[j]
         /\ coro'[k].st = coro[k].st
<1>1. coro \in [Coros -> Frames] /\ setup.fuel \in Nat /\ coro[k] \in Frames
  BY IoAt
<1>2. PICK m : m = coro[k].fuel - 1
  OBVIOUS
<1>3. m \in 0..setup.fuel /\ m <= coro[k].fuel
  BY <1>1, <1>2 DEF Frames
<1>4. CASE coro' = [coro EXCEPT ![k].fuel = @ - 1]
  <2>1. PICK f : f = [coro[k] EXCEPT !.fuel = m]
    OBVIOUS
  <2>2. f \in Frames /\ f.fuel = m /\ f.st = coro[k].st
    BY <1>1, <1>3, <2>1 DEF Frames
  <2>3. coro' = [coro EXCEPT ![k] = f]
    BY <1>1, <1>2, <1>4, <2>1 DEF Frames
  <2>4. f.fuel <= coro[k].fuel
    BY <1>3, <2>2
  <2>5. Spends(c) /\ coro'[k] = f /\ \A j \in Coros \ {k} : coro'[j] = coro[j]
    BY <2>2, <2>3, <2>4, FrameStep
  <2> QED
    BY <1>2, <2>2, <2>5
<1>5. CASE coro' = [coro EXCEPT ![k].fuel = @ - 1, ![k].handle = TRUE]
  <2>1. PICK f : f = [coro[k] EXCEPT !.fuel = m, !.handle = TRUE]
    OBVIOUS
  <2>2. f \in Frames /\ f.fuel = m /\ f.st = coro[k].st
    BY <1>1, <1>3, <2>1 DEF Frames
  <2>3. coro' = [coro EXCEPT ![k] = f]
    BY <1>1, <1>2, <1>5, <2>1 DEF Frames
  <2>4. f.fuel <= coro[k].fuel
    BY <1>3, <2>2
  <2>5. Spends(c) /\ coro'[k] = f /\ \A j \in Coros \ {k} : coro'[j] = coro[j]
    BY <2>2, <2>3, <2>4, FrameStep
  <2> QED
    BY <1>2, <2>2, <2>5
<1>6. CASE coro' = [coro EXCEPT ![k].fuel = @ - 1, ![k].prepared = TRUE]
  <2>1. PICK f : f = [coro[k] EXCEPT !.fuel = m, !.prepared = TRUE]
    OBVIOUS
  <2>2. f \in Frames /\ f.fuel = m /\ f.st = coro[k].st
    BY <1>1, <1>3, <2>1 DEF Frames
  <2>3. coro' = [coro EXCEPT ![k] = f]
    BY <1>1, <1>2, <1>6, <2>1 DEF Frames
  <2>4. f.fuel <= coro[k].fuel
    BY <1>3, <2>2
  <2>5. Spends(c) /\ coro'[k] = f /\ \A j \in Coros \ {k} : coro'[j] = coro[j]
    BY <2>2, <2>3, <2>4, FrameStep
  <2> QED
    BY <1>2, <2>2, <2>5
<1> QED
  BY <1>4, <1>5, <1>6

\* A new request, as a value.
LEMMA ReqIs ==
  ASSUME IoBase, NEW c \in Ctx, NEW k \in Coros, NEW op \in {"io", "link", "skip", "timer", "msg"},
         NEW to \in Ctx \cup {None}, NEW r, r = Req(op, k, to)
  PROVE  /\ r \in Requests /\ r.op = op /\ r.coro = k /\ r.to = to /\ r.no = coro[k].fuel
         /\ r.no \in 0..setup.fuel
<1>1. coro[k] \in Frames /\ None \notin Coros
  BY IoAt
<1>2. coro[k].fuel \in 0..setup.fuel
  BY <1>1 DEF Frames
<1>3. r = [op |-> op, coro |-> k, to |-> to, no |-> coro[k].fuel]
  BY <1>1 DEF Req
<1>4. op \in Resuming \cup Counted \cup {"skip", "timer"}
  BY DEF Resuming, Counted
<1>5. r \in Requests
  BY <1>2, <1>3, <1>4 DEF Requests
<1> QED
  BY <1>2, <1>3, <1>5

\* A new request whose cqe is counted ...
LEMMA NewIo ==
  ASSUME IoBase, NEW c \in Ctx, NEW k \in Coros, NEW op \in {"io", "link"},
         NEW r, r = Req(op, k, None), coro[k].fuel > 0, coro'[k].fuel = coro[k].fuel - 1
  PROVE  /\ r \in Requests /\ r.op = op /\ ReqOK(r)' /\ Debt(r) = {r}
         /\ r \notin Owing(ring[c]) /\ r.coro = k /\ r.no = coro[k].fuel
<1>1. r \in Requests /\ r.op = op /\ r.coro = k /\ r.no = coro[k].fuel /\ r.no \in 0..setup.fuel
  BY ReqIs
<1>2. RingGood(c) /\ setup.fuel \in Nat
  BY IoAt
<1>3. ReqOK(r)'
  <2>1. r.no > coro'[k].fuel
    BY <1>1, <1>2
  <2> QED
    BY <1>1, <2>1 DEF ReqOK
<1>4. Debt(r) = {r}
  BY <1>1 DEF Debt, Due, Owes, Counted
<1>5. r \notin Owing(ring[c])
  <2>1. ASSUME ReqOK(r) PROVE FALSE
    BY <1>1, <1>2, <2>1 DEF ReqOK
  <2> QED
    BY <1>2, <2>1 DEF RingGood, Owing, Due
<1> QED
  BY <1>1, <1>3, <1>4, <1>5

\* ... and one whose cqe is not.
LEMMA NewSilent ==
  ASSUME IoBase, NEW c \in Ctx, NEW k \in Coros, NEW op \in {"skip", "timer", "msg"},
         NEW to \in Ctx \cup {None}, NEW r, r = Req(op, k, to)
  PROVE  /\ r \in Requests /\ r.op = op /\ ReqOK(r)' /\ Debt(r) = {}
         /\ r \notin Owing(ring[c]) /\ r.coro = k /\ r.to = to
<1>1. r \in Requests /\ r.op = op /\ r.coro = k /\ r.to = to
  BY ReqIs
<1>2. r.op \notin Counted
  BY <1>1 DEF Counted
<1>3. ReqOK(r)'
  BY <1>1 DEF ReqOK
<1> QED
  BY <1>1, <1>2, <1>3 DEF Debt, Due, Owes, Owing
\* Where a running coroutine is.
LEMMA IoRunning ==
  ASSUME IoBase, NEW c \in Ctx, NEW k, k = loop[c].running, k # None
  PROVE  /\ k \in Coros /\ loop[c].phase = "work" /\ loop[c] \in Loops /\ loop \in [Ctx -> Loops]
         /\ loop[c].num <= Len(worker[c].reap_swap)
<1>1. loop[c] \in Loops /\ LoopOK(c) /\ loop \in [Ctx -> Loops]
  BY IoAt
<1>2. k \in Coros
  BY <1>1 DEF Loops
<1> QED
  BY <1>1, <1>2 DEF LoopOK

\* await_suspend: the thread goes on without its coroutine.
LEMMA SuspendLoop ==
  ASSUME IoBase, NEW c \in Ctx, loop[c].running # None, Suspend(c)
  PROVE  \E l \in Loops : /\ loop' = [loop EXCEPT ![c] = l] /\ l.num = loop[c].num /\ l.running = None
                          /\ l.phase = "work" /\ l.write = loop[c].write
<1>1. loop[c].phase = "work" /\ loop[c] \in Loops /\ loop \in [Ctx -> Loops]
  BY IoRunning
<1>2. PICK l : l = [loop[c] EXCEPT !.running = None]
  OBVIOUS
<1>3. l \in Loops /\ l.num = loop[c].num /\ l.running = None /\ l.phase = "work" /\ l.write = loop[c].write
  BY <1>1, <1>2 DEF Loops
<1>4. loop' = [loop EXCEPT ![c] = l]
  BY <1>1, <1>2 DEF Suspend
<1> QED
  BY <1>3, <1>4

\* ... or with it.
LEMMA GoesOn ==
  ASSUME IoBase, NEW c \in Ctx, loop[c].running # None, loop' = loop
  PROVE  \E l \in Loops : /\ loop' = [loop EXCEPT ![c] = l] /\ l.num = loop[c].num
                          /\ l.running = loop[c].running /\ l.phase = "work" /\ l = loop[c]
<1>1. loop[c].phase = "work" /\ loop[c] \in Loops /\ loop \in [Ctx -> Loops]
  BY IoRunning
<1>2. loop' = [loop EXCEPT ![c] = loop[c]]
  BY <1>1
<1> QED
  BY <1>1, <1>2

\* co_await lazy::xxx(...), and the constructor alone
LEMMA IoAwaitOne ==
  ASSUME IoBase, NEW c \in Ctx, UNCHANGED setup, failed => failed',
         \/ AwaitIo(c)
         \/ PrepareIo(c)
  PROVE  IoBase'
<1>1. PICK k : k = loop[c].running
  OBVIOUS
<1>2. /\ k # None /\ coro[k].fuel > 0 /\ UNCHANGED <<meta, inbox, halted>>
      /\ Issue(c, <<Req("io", k, None)>>)
  BY <1>1 DEF AwaitIo, PrepareIo, May
<1>3. k \in Coros /\ loop[c].phase = "work" /\ loop[c].num <= Len(worker[c].reap_swap)
  BY <1>1, <1>2, IoRunning
<1>4. \/ coro' = [coro EXCEPT ![k].fuel = @ - 1, ![k].handle = TRUE]
      \/ coro' = [coro EXCEPT ![k].fuel = @ - 1, ![k].prepared = TRUE]
  BY <1>1 DEF AwaitIo, PrepareIo
<1>5. Spends(c) /\ coro'[k].fuel = coro[k].fuel - 1
  BY <1>2, <1>3, <1>4, SpendStep
<1>6. PICK r : r = Req("io", k, None)
  OBVIOUS
<1>7. r \in Requests /\ r.op = "io" /\ ReqOK(r)' /\ Debt(r) = {r} /\ r \notin Owing(ring[c])
  BY <1>2, <1>3, <1>5, <1>6, ZenonT(30), NewIo
<1>8. Issue(c, <<r>>) /\ ~ (r.op = "msg")
  BY <1>2, <1>6, <1>7
<1>9. Issued(c, 1)
  BY <1>5, <1>7, <1>8, IssueOne
<1>10. PICK l \in Loops : /\ loop' = [loop EXCEPT ![c] = l] /\ l.num = loop[c].num
                          /\ l.running # None => l.phase = "work"
                          /\ l.phase = "work"
  <2>1. CASE AwaitIo(c)
    BY <1>1, <1>2, <2>1, SuspendLoop DEF AwaitIo
  <2>2. CASE PrepareIo(c)
    BY <1>1, <1>2, <2>2, GoesOn DEF PrepareIo
  <2> QED
    BY <2>1, <2>2
<1> QED
  BY <1>2, <1>3, <1>5, <1>9, <1>10, IoIssueStep

\* co_await (a && b), co_await timeout(a, d)
LEMMA IoAwaitTwo ==
  ASSUME IoBase, NEW c \in Ctx, UNCHANGED setup, failed => failed',
         \/ AwaitLink(c)
         \/ AwaitTimeout(c)
  PROVE  IoBase'
<1>1. PICK k : k = loop[c].running
  OBVIOUS
<1>2. /\ k # None /\ coro[k].fuel > 0 /\ UNCHANGED <<meta, inbox, halted>>
      /\ coro' = [coro EXCEPT ![k].fuel = @ - 1, ![k].handle = TRUE] /\ Suspend(c)
  BY <1>1 DEF AwaitLink, AwaitTimeout, May
<1>3. k \in Coros /\ loop[c].phase = "work" /\ loop[c].num <= Len(worker[c].reap_swap)
  BY <1>1, <1>2, IoRunning
<1>4. Spends(c) /\ coro'[k].fuel = coro[k].fuel - 1
  BY <1>2, <1>3, SpendStep
<1>5. PICK l \in Loops : /\ loop' = [loop EXCEPT ![c] = l] /\ l.num = loop[c].num /\ l.running = None
                         /\ l.phase = "work" /\ l.write = loop[c].write
  BY <1>1, <1>2, SuspendLoop
<1>6. PICK n \in Nat : Issued(c, n)
  <2>1. CASE AwaitLink(c)
    <3>1. PICK r : r = Req("link", k, None)
      OBVIOUS
    <3>2. PICK s : s = Req("io", k, None)
      OBVIOUS
    <3>3. r \in Requests /\ r.op = "link" /\ ReqOK(r)' /\ Debt(r) = {r} /\ r \notin Owing(ring[c])
      BY <1>2, <1>3, <1>4, <3>1, ZenonT(30), NewIo
    <3>4. s \in Requests /\ s.op = "io" /\ ReqOK(s)' /\ Debt(s) = {s} /\ s \notin Owing(ring[c])
      BY <1>2, <1>3, <1>4, <3>2, ZenonT(30), NewIo
    <3>5. Issue(c, <<r, s>>)
      BY <1>1, <2>1, <3>1, <3>2 DEF AwaitLink
    <3>6. r # s /\ r.op # "msg" /\ s.op # "msg"
      BY <3>3, <3>4
    <3>7. PICK m : m = 1
      OBVIOUS
    <3>8. PICK n : n = 1 + m
      OBVIOUS
    <3>9. Issued(c, n)
      BY <1>4, <3>3, <3>4, <3>5, <3>6, <3>7, <3>8, IssueTwo
    <3> QED
      BY <3>7, <3>8, <3>9
  <2>2. CASE AwaitTimeout(c)
    <3>1. PICK r : r = Req("io", k, None)
      OBVIOUS
    <3>2. PICK s : s = Req("timer", k, None)
      OBVIOUS
    <3>3. r \in Requests /\ r.op = "io" /\ ReqOK(r)' /\ Debt(r) = {r} /\ r \notin Owing(ring[c])
      BY <1>2, <1>3, <1>4, <3>1, ZenonT(30), NewIo
    <3>4. s \in Requests /\ s.op = "timer" /\ ReqOK(s)' /\ Debt(s) = {} /\ s \notin Owing(ring[c])
      BY <1>3, <3>2, NewSilent
    <3>5. Issue(c, <<r, s>>)
      BY <1>1, <2>2, <3>1, <3>2 DEF AwaitTimeout
    <3>6. r # s /\ r.op # "msg" /\ s.op # "msg"
      BY <3>3, <3>4
    <3>7. PICK m : m = 0
      OBVIOUS
    <3>8. PICK n : n = 1 + m
      OBVIOUS
    <3>9. Issued(c, n)
      BY <1>4, <3>3, <3>4, <3>5, <3>6, <3>7, <3>8, IssueTwo
    <3> QED
      BY <3>7, <3>8, <3>9
  <2> QED
    BY <2>1, <2>2
<1> QED
  BY <1>2, <1>3, <1>4, <1>5, <1>6, IoIssueStep

\* lazy::xxx(...).detach()
LEMMA IoDetach ==
  ASSUME IoBase, NEW c \in Ctx, UNCHANGED setup, failed => failed', Detach(c)
  PROVE  IoBase'
<1>1. PICK k : k = loop[c].running
  OBVIOUS
<1>2. /\ k # None /\ coro[k].fuel > 0 /\ UNCHANGED <<meta, inbox, halted, loop>>
      /\ Issue(c, <<Req("skip", k, None)>>) /\ coro' = [coro EXCEPT ![k].fuel = @ - 1]
  BY <1>1 DEF Detach, May, Spend
<1>3. k \in Coros /\ loop[c].phase = "work" /\ loop[c].num <= Len(worker[c].reap_swap)
  BY <1>1, <1>2, IoRunning
<1>4. Spends(c) /\ coro'[k].fuel = coro[k].fuel - 1
  BY <1>2, <1>3, SpendStep
<1>5. PICK r : r = Req("skip", k, None)
  OBVIOUS
<1>6. r \in Requests /\ r.op = "skip" /\ ReqOK(r)' /\ Debt(r) = {} /\ r \notin Owing(ring[c])
  BY <1>3, <1>5, NewSilent
<1>7. Issue(c, <<r>>) /\ ~ (r.op = "msg")
  BY <1>2, <1>5, <1>6
<1>8. Issued(c, 0)
  BY <1>4, <1>6, <1>7, IssueOne
<1>9. PICK l \in Loops : /\ loop' = [loop EXCEPT ![c] = l] /\ l.num = loop[c].num
                         /\ l.running = loop[c].running /\ l.phase = "work" /\ l = loop[c]
  BY <1>1, <1>2, GoesOn
<1> QED
  BY <1>2, <1>3, <1>4, <1>8, <1>9, IoIssueStep
\* A step that issues nothing.
LEMMA IoQuietStep ==
  ASSUME IoBase, NEW c \in Ctx, Spends(c), UNCHANGED <<meta, ring>>, inbox' \in [Ctx -> Inboxes],
         halted' = halted, NEW w \in Workers, worker' = [worker EXCEPT ![c] = w],
         w.requests_to_reap = worker[c].requests_to_reap,
         NEW l \in Loops, loop' = [loop EXCEPT ![c] = l],
         l.num <= Len(w.reap_swap), l.running # None => l.phase = "work", l.phase = loop[c].phase
  PROVE  IoBase'
<1>1. /\ coro \in [Coros -> Frames] /\ setup.fuel \in Nat /\ RingsOK /\ ReapOK(c) /\ LoopOK(c)
      /\ halted \in {"no", "start_timeout", "empty_task", "reap_swap_full"}
  BY IoAt
<1>2. RingsOK'
  BY <1>1, RingsSame DEF Spends
<1>3. ~ failed => /\ IsFiniteSet(Owing(ring'[c]))
                  /\ w.requests_to_reap = Cardinality(Owing(ring'[c]))
  BY <1>1 DEF ReapOK
<1>4. l.phase \in {"created", "barrier", "run"} => Owing(ring'[c]) = {}
  BY <1>1 DEF LoopOK
<1>5. UNCHANGED <<meta, setup>> /\ (failed => failed') /\ coro' \in [Coros -> Frames']
      /\ halted' \in {"no", "start_timeout", "empty_task", "reap_swap_full"}
  BY <1>1 DEF Spends
<1>6. \A d \in Ctx \ {c} : Owing(ring'[d]) = Owing(ring[d])
  OBVIOUS
<1> QED
  BY <1>2, <1>3, <1>4, <1>5, <1>6, IoAssemble

\* Nothing about the frames changes.
LEMMA FramesStay == ASSUME IoBase, NEW c \in Ctx, UNCHANGED <<coro, setup>>, failed => failed' PROVE Spends(c)
<1>1. coro \in [Coros -> Frames]
  BY IoAt
<1>2. coro' \in [Coros -> Frames']
  BY <1>1 DEF Frames
<1>3. FuelDown
  BY <1>1 DEF FuelDown, Frames
<1> QED
  BY <1>2, <1>3 DEF Spends

\* forward_task
LEMMA ForwardSeq ==
  ASSUME NEW q \in Seq(Coros), NEW k \in Coros
  PROVE  Forward(q, k) \in Seq(Coros) /\ Len(Forward(q, k)) = Len(q) + 1
<1> DEFINE p == [i \in DOMAIN q |-> IF i = Len(q) + 1 - SwapCapacity THEN k ELSE q[i]]
<1>1. DOMAIN q = 1..Len(q) /\ Len(q) \in Nat /\ \A i \in DOMAIN q : q[i] \in Coros
  OBVIOUS
<1>2. p \in [1..Len(q) -> Coros]
  BY <1>1
<1>3. p \in Seq(Coros) /\ Len(p) = Len(q)
  BY <1>1, <1>2
<1>4. Forward(q, k) = Append(p, k)
  BY DEF Forward
<1> HIDE DEF p
<1> QED
  BY <1>3, <1>4

\* ... on worker_meta
LEMMA ForwardWorker ==
  ASSUME IoBase, NEW c \in Ctx, NEW k \in Coros, ForwardTask(c, k)
  PROVE  \E w \in Workers : /\ worker' = [worker EXCEPT ![c] = w]
                            /\ w.requests_to_reap = worker[c].requests_to_reap
                            /\ w.reap_swap = Forward(worker[c].reap_swap, k)
                            /\ Len(w.reap_swap) = Len(worker[c].reap_swap) + 1
                            /\ Len(worker[c].reap_swap) \in Nat
<1>1. worker[c] \in Workers /\ worker \in [Ctx -> Workers]
  BY IoAt
<1>2. worker[c].reap_swap \in Seq(Coros)
  BY <1>1 DEF Workers
<1>3. PICK q : q = Forward(worker[c].reap_swap, k)
  OBVIOUS
<1>4. q \in Seq(Coros) /\ Len(q) = Len(worker[c].reap_swap) + 1 /\ Len(worker[c].reap_swap) \in Nat
  <2>1. PICK p : p = worker[c].reap_swap
    OBVIOUS
  <2>2. p \in Seq(Coros) /\ q = Forward(p, k)
    BY <1>2, <1>3, <2>1
  <2>3. q \in Seq(Coros) /\ Len(q) = Len(p) + 1
    BY <2>2, ForwardSeq
  <2>4. Len(p) \in Nat
    BY <2>2
  <2> QED
    BY <2>1, <2>3, <2>4
<1>5. PICK x : x = worker[c]
  OBVIOUS
<1>6. PICK w : w = [x EXCEPT !.reap_swap = q]
  OBVIOUS
<1>7. w \in Workers /\ w.requests_to_reap = x.requests_to_reap /\ w.reap_swap = q
  BY <1>1, <1>4, <1>5, <1>6 DEF Workers
<1>8. worker' = [worker EXCEPT ![c] = w]
  BY <1>3, <1>5, <1>6 DEF ForwardTask
<1> QED
  BY <1>3, <1>4, <1>5, <1>7, <1>8

\* co_await lazy::yield()
LEMMA IoYield ==
  ASSUME IoBase, NEW c \in Ctx, UNCHANGED setup, failed => failed', Yield(c)
  PROVE  IoBase'
<1>1. PICK k : k = loop[c].running
  OBVIOUS
<1>2. /\ k # None /\ coro[k].fuel > 0 /\ UNCHANGED <<meta, inbox, halted, ring>>
      /\ coro' = [coro EXCEPT ![k].fuel = @ - 1] /\ Suspend(c) /\ ForwardTask(c, k)
  BY <1>1 DEF Yield, May, Spend
<1>3. k \in Coros /\ loop[c].phase = "work" /\ loop[c].num <= Len(worker[c].reap_swap)
      /\ loop[c] \in Loops
  BY <1>1, <1>2, IoRunning
<1>4. Spends(c)
  BY <1>2, <1>3, SpendStep
<1>5. PICK l \in Loops : /\ loop' = [loop EXCEPT ![c] = l] /\ l.num = loop[c].num /\ l.running = None
                         /\ l.phase = "work" /\ l.write = loop[c].write
  BY <1>1, <1>2, SuspendLoop
<1>6. PICK w \in Workers : /\ worker' = [worker EXCEPT ![c] = w]
                           /\ w.requests_to_reap = worker[c].requests_to_reap
                           /\ w.reap_swap = Forward(worker[c].reap_swap, k)
                           /\ Len(w.reap_swap) = Len(worker[c].reap_swap) + 1
                           /\ Len(worker[c].reap_swap) \in Nat
  BY <1>2, <1>3, ForwardWorker
<1>7. l.num <= Len(w.reap_swap)
  <2>1. loop[c].num \in Nat
    BY <1>3 DEF Loops
  <2> QED
    BY <1>3, <1>5, <1>6, <2>1
<1>8. inbox' \in [Ctx -> Inboxes]
  BY <1>2, IoAt
<1> QED
  BY <1>2, <1>3, <1>4, <1>5, <1>6, <1>7, <1>8, IoQuietStep

\* co_await io, io_context_stop(), co_return
LEMMA IoOwnSteps ==
  ASSUME IoBase, NEW c \in Ctx, UNCHANGED setup, failed => failed',
         \/ AwaitPrepared(c)
         \/ StopContext(c)
         \/ Return(c)
  PROVE  IoBase'
<1>1. PICK k : k = loop[c].running
  OBVIOUS
<1>2. k # None /\ UNCHANGED <<worker, inbox, ring, meta, halted>>
  BY <1>1 DEF AwaitPrepared, StopContext, Return, May
<1>3. k \in Coros /\ loop[c].phase = "work" /\ loop[c].num <= Len(worker[c].reap_swap)
      /\ loop[c] \in Loops /\ loop \in [Ctx -> Loops]
  BY <1>1, <1>2, IoRunning
<1>4. worker[c] \in Workers /\ worker \in [Ctx -> Workers] /\ inbox \in [Ctx -> Inboxes]
      /\ coro[k] \in Frames /\ coro \in [Coros -> Frames] /\ setup.fuel \in Nat
  BY <1>3, IoAt
<1>5. coro[k].fuel <= coro[k].fuel
  BY <1>4 DEF Frames
<1>6. worker' = [worker EXCEPT ![c] = worker[c]]
  BY <1>2, <1>4
<1>7. Spends(c)
  <2>1. CASE AwaitPrepared(c)
    <3>1. PICK f : f = [coro[k] EXCEPT !.handle = TRUE, !.prepared = FALSE]
      OBVIOUS
    <3>2. f \in Frames /\ f.fuel = coro[k].fuel
      BY <1>4, <3>1 DEF Frames
    <3>3. coro' = [coro EXCEPT ![k].handle = TRUE, ![k].prepared = FALSE]
      BY <1>1, <2>1 DEF AwaitPrepared
    <3>4. coro' = [coro EXCEPT ![k] = f]
      BY <1>4, <3>1, <3>3 DEF Frames
    <3> QED
      BY <1>3, <1>5, <3>2, <3>4, FrameStep
  <2>2. CASE StopContext(c)
    <3>1. coro' = [coro EXCEPT ![k].fuel = @ - 1] /\ coro[k].fuel > 0
      BY <1>1, <2>2 DEF StopContext, Spend, May
    <3> QED
      BY <1>3, <3>1, SpendStep
  <2>3. CASE Return(c)
    <3>1. PICK f : f = [coro[k] EXCEPT !.st = "done"]
      OBVIOUS
    <3>2. f \in Frames /\ f.fuel = coro[k].fuel
      BY <1>4, <3>1 DEF Frames
    <3>3. coro' = [coro EXCEPT ![k] = f]
      BY <1>1, <2>3, <3>1 DEF Return
    <3> QED
      BY <1>3, <1>5, <3>2, <3>3, FrameStep
  <2> QED
    BY <2>1, <2>2, <2>3
<1>8. PICK l \in Loops : /\ loop' = [loop EXCEPT ![c] = l] /\ l.num = loop[c].num /\ l.phase = "work"
  <2>1. CASE AwaitPrepared(c) \/ Return(c)
    <3>1. Suspend(c)
      BY <2>1 DEF AwaitPrepared, Return
    <3> QED
      BY <1>1, <1>2, <3>1, SuspendLoop
  <2>2. CASE StopContext(c)
    <3>1. PICK l : l = [loop[c] EXCEPT !.will_stop = TRUE]
      OBVIOUS
    <3>2. l \in Loops /\ l.num = loop[c].num /\ l.phase = "work"
      BY <1>3, <3>1 DEF Loops
    <3>3. loop' = [loop EXCEPT ![c] = l]
      BY <2>2, <3>1 DEF StopContext
    <3> QED
      BY <3>2, <3>3
  <2> QED
    BY <2>1, <2>2
<1>9. l.num <= Len(worker[c].reap_swap) /\ l.phase = loop[c].phase /\ (l.running # None => l.phase = "work")
  BY <1>3, <1>8
<1>10. inbox' \in [Ctx -> Inboxes]
  BY <1>2, <1>4
<1> QED
  BY <1>2, <1>4, <1>6, <1>7, <1>8, <1>9, <1>10, IoQuietStep
\* co_spawn_auto, called by the coroutine that runs on c.
LEMMA IoSends ==
  ASSUME IoBase, NEW c \in Ctx, NEW t \in Ctx, NEW j \in Coros, Spends(c), UNCHANGED <<meta, halted>>,
         CoSpawnAuto(c, t, j), NEW l \in Loops, loop' = [loop EXCEPT ![c] = l],
         l.num = loop[c].num, l.phase = "work", loop[c].phase = "work"
  PROVE  IoBase'
<1>1. worker[c] \in Workers /\ worker \in [Ctx -> Workers] /\ inbox \in [Ctx -> Inboxes]
      /\ loop[c] \in Loops /\ LoopOK(c) /\ inbox[t] \in Inboxes
  BY IoAt
<1>2. loop[c].num <= Len(worker[c].reap_swap) /\ loop[c].num \in Nat
  BY <1>1 DEF LoopOK, Loops
<1>3. CASE t = c
  <2>1. ForwardTask(c, j) /\ UNCHANGED <<ring, inbox>>
    BY <1>3 DEF CoSpawnAuto
  <2>2. PICK w \in Workers : /\ worker' = [worker EXCEPT ![c] = w]
                             /\ w.requests_to_reap = worker[c].requests_to_reap
                             /\ w.reap_swap = Forward(worker[c].reap_swap, j)
                             /\ Len(w.reap_swap) = Len(worker[c].reap_swap) + 1
                             /\ Len(worker[c].reap_swap) \in Nat
    BY <2>1, ForwardWorker
  <2>3. l.num <= Len(w.reap_swap)
    BY <1>2, <2>2
  <2>4. inbox' \in [Ctx -> Inboxes]
    BY <1>1, <2>1
  <2> QED
    BY <2>1, <2>2, <2>3, <2>4, IoQuietStep
<1>4. CASE t # c /\ setup.msg_ring
  <2>1. Issue(c, <<Req("msg", j, t)>>) /\ UNCHANGED inbox
    BY <1>4 DEF CoSpawnAuto
  <2>2. PICK r : r = Req("msg", j, t)
    OBVIOUS
  <2>3. r \in Requests /\ r.op = "msg" /\ ReqOK(r)' /\ Debt(r) = {} /\ r \notin Owing(ring[c])
        /\ r.to = t
    BY <2>2, NewSilent
  <2>4. Issue(c, <<r>>) /\ (r.op = "msg" => r.to \in Ctx \ {c})
    BY <1>4, <2>1, <2>2, <2>3
  <2>5. Issued(c, 0)
    BY <2>3, <2>4, IssueOne
  <2>6. l.num <= Len(worker[c].reap_swap)
    BY <1>2
  <2> QED
    BY <2>1, <2>5, <2>6, IoIssueStep
<1>5. CASE t # c /\ ~ setup.msg_ring
  <2>1. inbox' = [inbox EXCEPT ![t].queue = Append(@, j)] /\ UNCHANGED <<worker, ring>>
    BY <1>5 DEF CoSpawnAuto
  <2>2. Append(inbox[t].queue, j) \in Seq(Coros)
    BY <1>1 DEF Inboxes
  <2>3. inbox' \in [Ctx -> Inboxes]
    BY <1>1, <2>1, <2>2 DEF Inboxes
  <2>4. worker' = [worker EXCEPT ![c] = worker[c]]
    BY <1>1, <2>1
  <2>5. l.num <= Len(worker[c].reap_swap)
    BY <1>2
  <2> QED
    BY <1>1, <2>1, <2>3, <2>4, <2>5, IoQuietStep
<1> QED
  BY <1>3, <1>4, <1>5

\* co_spawn and resume_on
LEMMA IoCoSpawn ==
  ASSUME IoBase, NEW c \in setup.ctx, UNCHANGED setup, failed => failed',
         \/ CoSpawn(c)
         \/ ResumeOn(c)
  PROVE  IoBase'
<1>1. c \in Ctx /\ setup.ctx \subseteq Ctx
  BY IoAt DEF IoBase, IoTypes, IoConstants
<1>2. PICK k : k = loop[c].running
  OBVIOUS
<1>3. k # None /\ coro[k].fuel > 0 /\ UNCHANGED <<meta, halted>>
  BY <1>2 DEF CoSpawn, ResumeOn, May
<1>4. k \in Coros /\ loop[c].phase = "work" /\ loop[c] \in Loops /\ loop \in [Ctx -> Loops]
  BY <1>1, <1>2, <1>3, IoRunning
<1>5. coro[k] \in Frames /\ coro \in [Coros -> Frames] /\ setup.fuel \in Nat
  BY <1>1, <1>4, IoAt
<1>6. ASSUME NEW t \in Ctx PROVE WriteTo(c, t) \in Ctx \cup {None}
  BY DEF WriteTo
<1>7. CASE CoSpawn(c)
  <2>1. PICK t \in setup.ctx, j \in Coros :
          /\ CoSpawnAuto(c, t, j) /\ loop' = [loop EXCEPT ![c].write = WriteTo(c, t)]
          /\ coro' = [coro EXCEPT ![k].fuel = @ - 1, ![j].st = "live"]
    BY <1>2, <1>7 DEF CoSpawn
  <2>2. t \in Ctx
    BY <1>1
  <2>3. PICK m : m = WriteTo(c, t)
    OBVIOUS
  <2>4. PICK l : l = [loop[c] EXCEPT !.write = m]
    OBVIOUS
  <2>5. l \in Loops /\ l.num = loop[c].num /\ l.phase = "work"
    BY <1>4, <1>6, <2>2, <2>3, <2>4 DEF Loops
  <2>6. loop' = [loop EXCEPT ![c] = l]
    BY <2>1, <2>3, <2>4
  <2>7. Spends(c)
    <3>1. coro[k].fuel - 1 \in 0..setup.fuel
      BY <1>3, <1>5 DEF Frames
    <3>2. PICK g : g = [coro EXCEPT ![k].fuel = @ - 1]
      OBVIOUS
    <3>3. /\ g \in [Coros -> Frames] /\ g[k].fuel = coro[k].fuel - 1
          /\ \A i \in Coros \ {k} : g[i].fuel = coro[i].fuel
      BY <1>4, <1>5, <3>1, <3>2 DEF Frames
    <3>4. coro' = [g EXCEPT ![j].st = "live"]
      BY <2>1, <3>2
    <3>5. coro' \in [Coros -> Frames] /\ \A i \in Coros : coro'[i].fuel = g[i].fuel
      BY <3>3, <3>4 DEF Frames
    <3>6. coro' \in [Coros -> Frames']
      BY <3>5 DEF Frames
    <3>7. \A i \in Coros : coro[i].fuel \in Int
      BY <1>5 DEF Frames
    <3>8. FuelDown
      BY <1>4, <3>3, <3>5, <3>7 DEF FuelDown
    <3> QED
      BY <3>6, <3>8 DEF Spends
  <2> QED
    BY <1>1, <1>3, <1>4, <2>1, <2>2, <2>5, <2>6, <2>7, IoSends
<1>8. CASE ResumeOn(c)
  <2>1. PICK t \in setup.ctx \ {c} :
          /\ CoSpawnAuto(c, t, k)
          /\ loop' = [loop EXCEPT ![c].running = None, ![c].write = WriteTo(c, t)]
    BY <1>2, <1>8 DEF ResumeOn
  <2>2. t \in Ctx
    BY <1>1
  <2>3. PICK m : m = WriteTo(c, t)
    OBVIOUS
  <2>4. PICK l : l = [loop[c] EXCEPT !.running = None, !.write = m]
    OBVIOUS
  <2>5. l \in Loops /\ l.num = loop[c].num /\ l.phase = "work"
    BY <1>4, <1>6, <2>2, <2>3, <2>4 DEF Loops
  <2>6. loop' = [loop EXCEPT ![c] = l]
    BY <1>4, <2>1, <2>3, <2>4 DEF Loops
  <2>7. coro' = [coro EXCEPT ![k].fuel = @ - 1]
    BY <1>2, <1>8 DEF ResumeOn, Spend
  <2>8. Spends(c)
    BY <1>1, <1>3, <1>4, <2>7, SpendStep
  <2> QED
    BY <1>1, <1>3, <1>4, <2>1, <2>2, <2>5, <2>6, <2>8, IoSends
<1> QED
  BY <1>7, <1>8

\* do_worker_part takes a task, co_spawn_safe_eventfd writes
LEMMA IoTakeWrite ==
  ASSUME IoBase, NEW c \in Ctx, UNCHANGED setup, failed => failed',
         \/ WorkOnce(c)
         \/ EventWrite(c)
  PROVE  IoBase'
<1>1. worker[c] \in Workers /\ worker \in [Ctx -> Workers] /\ inbox \in [Ctx -> Inboxes]
      /\ loop[c] \in Loops /\ loop \in [Ctx -> Loops] /\ LoopOK(c)
  BY IoAt
<1>2. UNCHANGED <<ring, meta, coro, halted>>
  BY DEF WorkOnce, EventWrite
<1>3. Spends(c)
  BY <1>2, FramesStay
<1>4. loop[c].num <= Len(worker[c].reap_swap) /\ loop[c].num \in Nat /\ worker[c].reap_swap \in Seq(Coros)
  BY <1>1 DEF LoopOK, Loops, Workers
<1>5. CASE WorkOnce(c)
  <2>1. /\ loop[c].phase = "work" /\ loop[c].num > 0 /\ UNCHANGED inbox
        /\ loop' = [loop EXCEPT ![c].running = Head(worker[c].reap_swap), ![c].num = @ - 1]
        /\ worker' = [worker EXCEPT ![c].reap_swap = Tail(@)]
    BY <1>5 DEF WorkOnce, At
  <2>2. worker[c].reap_swap # <<>>
    BY <1>4, <2>1
  <2>3. PICK p : p = worker[c].reap_swap
    OBVIOUS
  <2>4. /\ Head(p) \in Coros /\ Tail(p) \in Seq(Coros) /\ Len(Tail(p)) = Len(p) - 1
    BY <1>4, <2>2, <2>3, ElementsTail
  <2>5. PICK l : l = [loop[c] EXCEPT !.running = Head(p), !.num = @ - 1]
    OBVIOUS
  <2>6. loop[c].num - 1 \in Nat
    BY <1>4, <2>1
  <2>7. l \in Loops /\ l.num = loop[c].num - 1 /\ l.phase = "work"
    BY <1>1, <2>1, <2>4, <2>5, <2>6 DEF Loops
  <2>8. loop' = [loop EXCEPT ![c] = l]
    BY <1>1, <2>1, <2>3, <2>5 DEF Loops
  <2>9. PICK w : w = [worker[c] EXCEPT !.reap_swap = Tail(p)]
    OBVIOUS
  <2>10. w \in Workers /\ w.requests_to_reap = worker[c].requests_to_reap /\ w.reap_swap = Tail(p)
    BY <1>1, <2>4, <2>9 DEF Workers
  <2>11. worker' = [worker EXCEPT ![c] = w]
    BY <2>1, <2>3, <2>9
  <2>12. l.num <= Len(w.reap_swap)
    <3>1. Len(p) \in Nat /\ loop[c].num <= Len(p)
      BY <1>4, <2>3
    <3> QED
      BY <1>4, <2>4, <2>7, <2>10, <3>1
  <2>13. inbox' \in [Ctx -> Inboxes]
    BY <1>1, <2>1
  <2> QED
    BY <1>2, <1>3, <2>1, <2>7, <2>8, <2>10, <2>11, <2>12, <2>13, IoQuietStep, ZenonT(30)
<1>6. CASE EventWrite(c)
  <2>1. /\ loop[c].write # None /\ UNCHANGED worker /\ loop' = [loop EXCEPT ![c].write = None]
        /\ inbox' = [inbox EXCEPT ![loop[c].write].event = 1]
    BY <1>6 DEF EventWrite
  <2>2. loop[c].write \in Ctx
    BY <1>1, <2>1 DEF Loops
  <2>3. inbox' \in [Ctx -> Inboxes]
    BY <1>1, <2>1, <2>2 DEF Inboxes
  <2>4. PICK l : l = [loop[c] EXCEPT !.write = None]
    OBVIOUS
  <2>5. l \in Loops /\ l.num = loop[c].num /\ l.phase = loop[c].phase /\ l.running = loop[c].running
    BY <1>1, <2>4 DEF Loops
  <2>6. loop' = [loop EXCEPT ![c] = l]
    BY <2>1, <2>4
  <2>7. worker' = [worker EXCEPT ![c] = worker[c]]
    BY <1>1, <2>1
  <2>8. l.num <= Len(worker[c].reap_swap) /\ (l.running # None => l.phase = "work")
    BY <1>1, <1>4, <2>5 DEF LoopOK
  <2> QED
    BY <1>1, <1>2, <1>3, <2>3, <2>5, <2>6, <2>7, <2>8, IoQuietStep
<1> QED
  BY <1>5, <1>6

\* run()
LEMMA IoRun ==
  ASSUME IoBase, NEW c \in Ctx, UNCHANGED setup, failed => failed', Run(c)
  PROVE  IoBase'
<1>1. /\ loop[c].phase = "run" /\ NextRound(c) /\ UNCHANGED <<inbox, meta, coro, halted>>
  BY DEF Run, At
<1>2. worker[c] \in Workers /\ worker \in [Ctx -> Workers] /\ LoopOK(c) /\ RingsOK /\ setup.fuel \in Nat
      /\ loop[c] \in Loops /\ None \notin Coros
  BY IoAt
<1>3. Owing(ring[c]) = {} /\ loop[c].num <= Len(worker[c].reap_swap) /\ loop[c].running = None
  BY <1>1, <1>2 DEF LoopOK
<1>4. Spends(c)
  BY <1>1, FramesStay
<1>5. Len(worker[c].reap_swap) \in Nat
  BY <1>2 DEF Workers
<1>6. CASE UNCHANGED <<worker, ring>>
  <2>1. PICK l \in Loops : /\ loop' = [loop EXCEPT ![c] = l] /\ l.running = loop[c].running
                           /\ \/ l.phase = "deinit" /\ l.num = loop[c].num
                              \/ l.phase = "work" /\ l.num = Len(worker[c].reap_swap)
    BY <1>1, <1>6, NextRoundLoop
  <2> QED
    BY <1>1, <1>6, <2>1, RoundStep
<1>7. CASE Issue(c, <<Req("event", None, None)>>)
  <2>1. PICK r : r = Req("event", None, None)
    OBVIOUS
  <2>2. r = EventReq /\ r.op = "event"
    BY <2>1 DEF Req, EventReq
  <2>3. r \in Requests
    <3>1. "event" \in Resuming \cup Counted \cup {"skip", "timer"} /\ 0 \in 0..setup.fuel
      BY <1>2 DEF Counted
    <3> QED
      BY <2>2, <3>1 DEF EventReq, Requests
  <2>4. ReqOK(r)' /\ Debt(r) = {r} /\ r \notin Owing(ring[c])
    <3>1. r.op \in Counted
      BY <2>2 DEF Counted
    <3>2. Debt(r) = {r}
      BY <3>1 DEF Debt, Due, Owes
    <3>3. ReqOK(r)'
      BY <2>2 DEF ReqOK, EventReq
    <3> QED
      BY <1>3, <3>2, <3>3
  <2>5. Issue(c, <<r>>) /\ ~ (r.op = "msg")
    BY <1>7, <2>1, <2>2
  <2>6. Issued(c, 1)
    BY <1>4, <2>3, <2>4, <2>5, IssueOne
  <2>7. worker'[c].reap_swap = worker[c].reap_swap
    BY <1>2, <2>6 DEF Issued, IssuedWith
  <2>8. PICK l \in Loops : /\ loop' = [loop EXCEPT ![c] = l] /\ l.running = loop[c].running
                           /\ \/ l.phase = "deinit" /\ l.num = loop[c].num
                              \/ l.phase = "work" /\ l.num = Len(worker[c].reap_swap)
    BY <1>1, <2>7, NextRoundLoop
  <2>9. l.num <= Len(worker[c].reap_swap) /\ l.running = None
    BY <1>3, <1>5, <2>8
  <2> QED
    BY <1>1, <1>4, <2>6, <2>8, <2>9, IoIssueStep
<1> QED
  BY <1>6, <1>7 DEF Run
\* io_uring_enter: what becomes of the rings
LEMMA SubmitRings ==
  ASSUME IoBase, NEW c \in Ctx, UNCHANGED <<coro, setup>>, failed => failed', ring' = Submit(c)
  PROVE  RingsOK' /\ \A d \in Ctx : Owing(ring'[d]) = Owing(ring[d])
<1>1. RingsOK /\ ring \in [Ctx -> Rings(Requests)] /\ setup.fuel \in Nat
  BY IoAt
<1>2. PICK x : x = ring[c]
  OBVIOUS
<1>3. x \in Rings(Requests) /\ OnceIn(x) /\ RingGood(c) /\ x.sq \in Seq(Requests)
  BY <1>1, <1>2 DEF RingsOK, RingGood, Rings
<1>4. \A r : ReqOK(r)' <=> ReqOK(r)
  BY DEF ReqOK
<1>5. Requests' = Requests
  BY DEF Requests
<1>6. PICK y : y = [sq |-> <<>>, cq |-> x.cq, kernel |-> x.kernel \cup
                       {x.sq[i] : i \in {j \in DOMAIN x.sq : x.sq[j].op # "msg"}}]
  OBVIOUS
<1>7. ring'[c] = y
  BY <1>2, <1>6 DEF Submit
<1>8. /\ y \in Rings(Requests) /\ OnceIn(y) /\ Owing(y) = Owing(x) /\ Present(y) \subseteq Present(x)
      /\ y.kernel = x.kernel \cup {r \in Elements(x.sq) : r.op # "msg"} /\ y.sq = <<>> /\ y.cq = x.cq
  BY <1>3, <1>6, TakesSqes
<1>9. RingGood(c)'
  <2>1. \A r \in Present(y) : ReqOK(r)'
    BY <1>2, <1>3, <1>4, <1>8 DEF RingGood
  <2>2. Elements(y.sq) = {}
    BY <1>8 DEF Elements
  <2>3. \A r \in y.kernel : r.op # "msg"
    BY <1>2, <1>3, <1>8 DEF RingGood
  <2>4. \A r \in Elements(y.cq) : r.op # "timer" /\ (r.op = "skip" => failed')
    BY <1>2, <1>3, <1>8 DEF RingGood
  <2> QED
    BY <1>7, <1>8, <2>1, <2>2, <2>3, <2>4 DEF RingGood
<1>10. ASSUME NEW d \in Ctx, d # c
       PROVE  ring'[d] \in Rings(Requests) /\ RingGood(d)' /\ Owing(ring'[d]) = Owing(ring[d])
  <2>1. PICK u : u = ring[d]
    OBVIOUS
  <2>2. u \in Rings(Requests) /\ OnceIn(u) /\ RingGood(d) /\ u.cq \in Seq(Requests)
    BY <1>1, <2>1 DEF RingsOK, RingGood, Rings
  <2>3. PICK q : q = x.sq
    OBVIOUS
  <2>4. PICK m : m = Messages(q, d)
    OBVIOUS
  <2>5. m \in Seq(Requests) /\ Elements(m) = {r \in Elements(q) : r.op = "msg" /\ r.to = d}
    BY <1>3, <2>3, <2>4, MessagesOf
  <2>6. PICK v : v = [u EXCEPT !.cq = u.cq \o m]
    OBVIOUS
  <2>7. ring'[d] = v
    BY <1>2, <1>10, <2>1, <2>3, <2>4, <2>6 DEF Submit
  <2>8. u.cq \o m \in Seq(Requests)
    BY <2>2, <2>5
  <2>9. v \in Rings(Requests) /\ v.sq = u.sq /\ v.kernel = u.kernel /\ v.cq = u.cq \o m
    BY <2>2, <2>6, <2>8 DEF Rings
  <2>10. \A r \in Elements(m) : r.op = "msg"
    BY <2>5
  <2>11. /\ OnceIn(v) /\ Owing(v) = Owing(u) /\ Present(v) = Present(u) \cup Elements(m)
         /\ CqSet(v) = CqSet(u) \cup Elements(m)
    BY <2>2, <2>5, <2>9, <2>10, ReceivesMessages
  <2>12. \A r \in Present(v) : ReqOK(r)'
    <3>1. \A r \in Present(u) : ReqOK(r)
      BY <2>1, <2>2 DEF RingGood
    <3>2. \A r \in Elements(m) : r \in Present(x)
      BY <2>3, <2>5 DEF Present
    <3>3. \A r \in Elements(m) : ReqOK(r)
      BY <1>2, <1>3, <3>2 DEF RingGood
    <3> QED
      BY <1>4, <2>11, <3>1, <3>3
  <2>13. \A r \in Elements(v.cq) : r.op # "timer" /\ (r.op = "skip" => failed')
    <3>1. \A r \in CqSet(u) : r.op # "timer" /\ (r.op = "skip" => failed')
      BY <2>1, <2>2 DEF RingGood, CqSet
    <3>2. \A r \in CqSet(v) : r.op # "timer" /\ (r.op = "skip" => failed')
      BY <2>10, <2>11, <3>1
    <3> QED
      BY <3>2 DEF CqSet
  <2>14. /\ \A r \in Elements(v.sq) : r.op = "msg" => r.to \in Ctx \ {d}
         /\ \A r \in v.kernel : r.op # "msg"
    BY <2>1, <2>2, <2>9 DEF RingGood
  <2>15. RingGood(d)'
    BY <2>7, <2>11, <2>12, <2>13, <2>14 DEF RingGood
  <2> QED
    BY <2>1, <2>7, <2>9, <2>11, <2>15
<1>11. ring' \in [Ctx -> Rings(Requests)']
  <2>1. \A d \in Ctx : ring'[d] \in Rings(Requests)
    BY <1>7, <1>8, <1>10
  <2>2. ring' = [d \in Ctx |-> ring'[d]]
    BY DEF Submit
  <2>3. ring' \in [Ctx -> Rings(Requests)]
    BY <2>1, <2>2
  <2> QED
    BY <1>5, <2>3 DEF Rings
<1>12. \A d \in Ctx : RingGood(d)'
  BY <1>9, <1>10
<1>13. \A d \in Ctx : Owing(ring'[d]) = Owing(ring[d])
  BY <1>2, <1>7, <1>8, <1>10
<1> QED
  BY <1>11, <1>12, <1>13 DEF RingsOK

\* do_submission_part
LEMMA IoPollSubmission ==
  ASSUME IoBase, NEW c \in Ctx, UNCHANGED setup, failed => failed', PollSubmission(c)
  PROVE  IoBase'
<1>1. /\ loop[c].phase = "work" /\ loop[c].running = None /\ UNCHANGED <<inbox, meta, coro, halted>>
  BY DEF PollSubmission, At
<1>2. /\ worker[c] \in Workers /\ worker \in [Ctx -> Workers] /\ LoopOK(c) /\ ReapOK(c)
      /\ loop[c] \in Loops /\ loop \in [Ctx -> Loops] /\ inbox \in [Ctx -> Inboxes]
      /\ halted \in {"no", "start_timeout", "empty_task", "reap_swap_full"}
  BY IoAt
<1>3. PICK p \in {"peek", "submit_wait"} : loop' = [loop EXCEPT ![c].phase = p]
  BY DEF PollSubmission, Goto
<1>4. PICK l : l = [loop[c] EXCEPT !.phase = p]
  OBVIOUS
<1>5. l \in Loops /\ l.num = loop[c].num /\ l.running = None /\ l.phase = p
  <2>1. p \in Phases
    BY DEF Phases
  <2> QED
    BY <1>1, <1>2, <1>4, <2>1 DEF Loops
<1>6. loop' = [loop EXCEPT ![c] = l]
  BY <1>3, <1>4
<1>7. l.num <= Len(worker[c].reap_swap)
  BY <1>2, <1>5 DEF LoopOK
<1>8. l.phase \notin {"created", "barrier", "run", "stopped"} /\ loop[c].phase \notin {"created", "stopped"}
  BY <1>1, <1>5
<1>9. CASE UNCHANGED <<worker, ring>>
  BY <1>1, <1>5, <1>6, <1>7, <1>8, <1>9, LoopStep
<1>10. CASE worker' = [worker EXCEPT ![c].requests_to_submit = 0] /\ ring' = Submit(c)
  <2>1. PICK w : w = [worker[c] EXCEPT !.requests_to_submit = 0]
    OBVIOUS
  <2>2. w \in Workers /\ w.requests_to_reap = worker[c].requests_to_reap /\ w.reap_swap = worker[c].reap_swap
    BY <1>2, <2>1 DEF Workers
  <2>3. worker' = [worker EXCEPT ![c] = w]
    BY <1>10, <2>1
  <2>4. RingsOK' /\ \A d \in Ctx : Owing(ring'[d]) = Owing(ring[d])
    BY <1>1, <1>10, SubmitRings
  <2>5. ~ failed => /\ IsFiniteSet(Owing(ring'[c]))
                    /\ w.requests_to_reap = Cardinality(Owing(ring'[c]))
    BY <1>2, <2>2, <2>4 DEF ReapOK
  <2>6. coro' \in [Coros -> Frames'] /\ inbox' \in [Ctx -> Inboxes]
        /\ halted' \in {"no", "start_timeout", "empty_task", "reap_swap_full"}
    BY <1>1, <1>2, FramesStay DEF Spends
  <2>7. l.num <= Len(w.reap_swap)
    BY <1>7, <2>2
  <2> QED
    BY <1>1, <1>5, <1>6, <1>8, <2>2, <2>3, <2>4, <2>5, <2>6, <2>7, IoAssemble
<1> QED
  BY <1>9, <1>10 DEF PollSubmission

\* The ring after one cqe has been seen.
LEMMA ReapRing ==
  ASSUME IoBase, NEW c \in Ctx, ring[c].cq # <<>>, NEW h, h = Head(ring[c].cq), Spends(c),
         ring' = [ring EXCEPT ![c].cq = Tail(@)]
  PROVE  /\ RingsOK' /\ \A d \in Ctx \ {c} : ring'[d] = ring[d]
         /\ Owing(ring'[c]) = Owing(ring[c]) \ Debt(h) /\ Debt(h) \subseteq Owing(ring[c])
<1>1. /\ RingsOK /\ ring \in [Ctx -> Rings(Requests)] /\ setup.fuel \in Nat /\ RingGood(c)
      /\ coro \in [Coros -> Frames]
  BY IoAt
<1>2. PICK x : x = ring[c]
  OBVIOUS
<1>3. x \in Rings(Requests) /\ OnceIn(x) /\ x.cq \in Seq(Requests) /\ x.cq # <<>> /\ h = Head(x.cq)
  BY <1>1, <1>2 DEF RingGood, Rings
<1>4. PICK q : q = Tail(x.cq)
  OBVIOUS
<1>5. q \in Seq(Requests)
  BY <1>3, <1>4, ElementsTail
<1>6. PICK z : z = [x EXCEPT !.cq = q]
  OBVIOUS
<1>7. z \in Rings(Requests) /\ z.sq = x.sq /\ z.kernel = x.kernel /\ z.cq = Tail(x.cq)
  BY <1>3, <1>4, <1>5, <1>6 DEF Rings
<1>8. ring' = [ring EXCEPT ![c] = z]
  BY <1>2, <1>4, <1>6
<1>9. /\ OnceIn(z) /\ Present(x) = Present(z) \cup {h}
      /\ Owing(z) = Owing(x) \ Debt(h) /\ Debt(h) \subseteq Owing(x) /\ CqSet(x) = CqSet(z) \cup {h}
  BY <1>3, <1>7, TakesCqe
<1>10. \A r \in Present(z) : r \in Present(ring[c]) \/ ReqOK(r)'
  BY <1>2, <1>9
<1>11. /\ \A r \in Elements(z.sq) : r.op = "msg" => r.to \in Ctx \ {c}
       /\ \A r \in z.kernel : r.op # "msg"
  BY <1>1, <1>2, <1>7 DEF RingGood
<1>12. \A r \in Elements(z.cq) : r.op # "timer" /\ (r.op = "skip" => failed)
  <2>1. \A r \in CqSet(x) : r.op # "timer" /\ (r.op = "skip" => failed)
    BY <1>1, <1>2 DEF RingGood, CqSet
  <2>2. \A r \in CqSet(z) : r.op # "timer" /\ (r.op = "skip" => failed)
    BY <1>9, <2>1
  <2> QED
    BY <2>2 DEF CqSet
<1>13. RingsOK' /\ ring'[c] = z /\ \A d \in Ctx \ {c} : ring'[d] = ring[d]
  BY <1>1, <1>7, <1>8, <1>9, <1>10, <1>11, <1>12, RingAt DEF Spends
<1> QED
  BY <1>2, <1>9, <1>13

\* The cqe itself.
LEMMA HeadOK ==
  ASSUME IoBase, NEW c \in Ctx, ring[c].cq # <<>>, NEW h, h = Head(ring[c].cq)
  PROVE  /\ h \in Requests /\ ReqOK(h) /\ h.op # "timer" /\ (h.op = "skip" => failed)
         /\ h \in CqSet(ring[c])
<1>1. ring[c] \in Rings(Requests) /\ RingGood(c)
  BY IoAt
<1>2. PICK q : q = ring[c].cq
  OBVIOUS
<1>3. q \in Seq(Requests) /\ q # <<>> /\ h = Head(q)
  BY <1>1, <1>2 DEF Rings
<1>4. h \in Elements(q) /\ h \in Requests
  BY <1>3, ElementsTail
<1>5. ReqOK(h)
  BY <1>1, <1>2, <1>4 DEF RingGood, Present
<1>6. h.op # "timer" /\ (h.op = "skip" => failed)
  BY <1>1, <1>2, <1>4 DEF RingGood
<1> QED
  BY <1>2, <1>4, <1>5, <1>6 DEF CqSet
\* poll_completion: handled = TRUE
LEMMA SeenLoop ==
  ASSUME IoBase, NEW c \in Ctx, loop' = [loop EXCEPT ![c].handled = TRUE]
  PROVE  \E l \in Loops : /\ loop' = [loop EXCEPT ![c] = l] /\ l.num = loop[c].num
                          /\ l.running = loop[c].running /\ l.phase = loop[c].phase /\ l.write = loop[c].write
<1>1. loop[c] \in Loops /\ loop \in [Ctx -> Loops]
  BY IoAt
<1>2. PICK l : l = [loop[c] EXCEPT !.handled = TRUE]
  OBVIOUS
<1>3. l \in Loops /\ l.num = loop[c].num /\ l.running = loop[c].running /\ l.phase = loop[c].phase
      /\ l.write = loop[c].write
  BY <1>1, <1>2 DEF Loops
<1>4. loop' = [loop EXCEPT ![c] = l]
  BY <1>2
<1> QED
  BY <1>3, <1>4

\* One request less.
LEMMA OwesLess ==
  ASSUME NEW A, IsFiniteSet(A), NEW h, NEW D, NEW n, D \subseteq A,
         (D = {h} /\ n = 1) \/ (D = {} /\ n = 0)
  PROVE  IsFiniteSet(A \ D) /\ Cardinality(A \ D) = Cardinality(A) - n
<1>1. CASE D = {h} /\ n = 1
  BY <1>1, FS_RemoveElement
<1>2. CASE D = {} /\ n = 0
  <2>1. A \ D = A /\ Cardinality(A) \in Nat
    BY <1>2, FS_CardinalityType
  <2> QED
    BY <1>2, <2>1
<1> QED
  BY <1>1, <1>2

\* One cqe is handled.
LEMMA IoReapStep ==
  ASSUME IoBase, NEW c \in Ctx, ring[c].cq # <<>>, NEW h, h = Head(ring[c].cq), Spends(c),
         Seen(c), UNCHANGED <<inbox, meta>>, loop[c].phase \in {"poll", "bad_poll"},
         halted' \in {"no", "start_timeout", "empty_task", "reap_swap_full"},
         NEW n, (Debt(h) = {h} /\ n = 1) \/ (Debt(h) = {} /\ n = 0),
         NEW w \in Workers, worker' = [worker EXCEPT ![c] = w],
         ~ failed => w.requests_to_reap = worker[c].requests_to_reap - n,
         Len(worker[c].reap_swap) <= Len(w.reap_swap)
  PROVE  IoBase'
<1>1. ring' = [ring EXCEPT ![c].cq = Tail(@)] /\ loop' = [loop EXCEPT ![c].handled = TRUE]
  BY DEF Seen
<1>2. /\ RingsOK' /\ \A d \in Ctx \ {c} : ring'[d] = ring[d]
      /\ Owing(ring'[c]) = Owing(ring[c]) \ Debt(h) /\ Debt(h) \subseteq Owing(ring[c])
  BY <1>1, ReapRing
<1>3. PICK l \in Loops : /\ loop' = [loop EXCEPT ![c] = l] /\ l.num = loop[c].num
                         /\ l.running = loop[c].running /\ l.phase = loop[c].phase /\ l.write = loop[c].write
  BY <1>1, SeenLoop
<1>4. LoopOK(c) /\ ReapOK(c) /\ inbox \in [Ctx -> Inboxes] /\ worker[c] \in Workers /\ loop[c] \in Loops
  BY IoAt
<1>5. l.num <= Len(w.reap_swap)
  <2>1. Len(worker[c].reap_swap) \in Nat /\ Len(w.reap_swap) \in Nat /\ loop[c].num \in Nat
    BY <1>4 DEF Workers, Loops
  <2>2. loop[c].num <= Len(worker[c].reap_swap)
    BY <1>4 DEF LoopOK
  <2> QED
    BY <1>3, <2>1, <2>2
<1>6. l.running = None
  BY <1>3, <1>4 DEF LoopOK
<1>7. ASSUME ~ failed
      PROVE  IsFiniteSet(Owing(ring'[c])) /\ w.requests_to_reap = Cardinality(Owing(ring'[c]))
  <2>1. IsFiniteSet(Owing(ring[c])) /\ worker[c].requests_to_reap = Cardinality(Owing(ring[c]))
    BY <1>4, <1>7 DEF ReapOK
  <2>2. PICK A : A = Owing(ring[c])
    OBVIOUS
  <2>3. PICK D : D = Debt(h)
    OBVIOUS
  <2>5. IsFiniteSet(A) /\ D \subseteq A
    BY <1>2, <2>1, <2>2, <2>3
  <2>6. (D = {h} /\ n = 1) \/ (D = {} /\ n = 0)
    BY <2>3
  <2>4. IsFiniteSet(A \ D) /\ Cardinality(A \ D) = Cardinality(A) - n
    BY <2>5, <2>6, OwesLess, ZenonT(30)
  <2> QED
    BY <1>2, <1>7, <2>1, <2>2, <2>3, <2>4
<1>8. /\ coro' \in [Coros -> Frames'] /\ UNCHANGED <<meta, setup>> /\ (failed => failed') /\ inbox' \in [Ctx -> Inboxes]
  BY <1>4 DEF Spends
<1>9. \A d \in Ctx \ {c} : Owing(ring'[d]) = Owing(ring[d])
  BY <1>2
<1>10. l.phase \notin {"created", "barrier", "run"}
  BY <1>3
<1> QED
  BY <1>2, <1>3, <1>5, <1>6, <1>7, <1>8, <1>9, <1>10, IoAssemble

\* Reaping, unpacked.
LEMMA ReapingAt ==
  ASSUME NEW c \in Ctx, NEW op, Reaping(c, op)
  PROVE  /\ loop[c].phase \in {"poll", "bad_poll"} /\ ring[c].cq # <<>> /\ Head(ring[c].cq).op = op
         /\ loop[c].write = None
BY DEF Reaping, At

\* task_info_ptr
LEMMA IoHandleIo ==
  ASSUME IoBase, NEW c \in Ctx, UNCHANGED setup, failed => failed', HandleIo(c)
  PROVE  IoBase'
<1>1. PICK h : h = Head(ring[c].cq)
  OBVIOUS
<1>2. PICK op \in {"io", "skip"} : Reaping(c, op)
  BY DEF HandleIo
<1>3. loop[c].phase \in {"poll", "bad_poll"} /\ ring[c].cq # <<>> /\ h.op = op
  BY <1>1, <1>2, ReapingAt
<1>4. h \in Requests /\ ReqOK(h) /\ (h.op = "skip" => failed)
  BY <1>1, <1>3, HeadOK
<1>5. PICK k : k = h.coro
  OBVIOUS
<1>6. k \in Coros
  BY <1>3, <1>4, <1>5 DEF ReqOK
<1>7. PICK t \in {None, k} : ReapAndForward(c, t)
  BY <1>1, <1>5 DEF HandleIo
<1>8. coro' = IF h.op = "io" THEN [coro EXCEPT ![k].handle = FALSE] ELSE coro
  BY <1>1, <1>5 DEF HandleIo
<1>9. Seen(c) /\ UNCHANGED <<inbox, meta>>
  BY DEF HandleIo
<1>10. /\ worker[c] \in Workers /\ worker \in [Ctx -> Workers] /\ coro \in [Coros -> Frames]
       /\ coro[k] \in Frames /\ halted \in {"no", "start_timeout", "empty_task", "reap_swap_full"}
       /\ None \notin Coros /\ setup.fuel \in Nat
  BY <1>6, IoAt
<1>11. Spends(c)
  <2>1. CASE h.op = "io"
    <3>1. PICK f : f = [coro[k] EXCEPT !.handle = FALSE]
      OBVIOUS
    <3>2. f \in Frames /\ f.fuel = coro[k].fuel
      BY <1>10, <3>1 DEF Frames
    <3>3. coro' = [coro EXCEPT ![k] = f]
      BY <1>8, <2>1, <3>1
    <3>4. f.fuel <= coro[k].fuel
      BY <1>10, <3>2 DEF Frames
    <3> QED
      BY <1>6, <3>2, <3>3, <3>4, FrameStep
  <2>2. CASE h.op # "io"
    <3>1. coro' = coro
      BY <1>8, <2>2
    <3> QED
      BY <3>1, FramesStay
  <2> QED
    BY <2>1, <2>2
<1>12. halted' \in {"no", "start_timeout", "empty_task", "reap_swap_full"}
  BY <1>7, <1>10 DEF ReapAndForward
<1>13. PICK q \in Seq(Coros) : /\ q = IF t = None THEN worker[c].reap_swap
                                     ELSE Forward(worker[c].reap_swap, t)
                               /\ Len(worker[c].reap_swap) <= Len(q)
  <2>1. PICK p : p = worker[c].reap_swap
    OBVIOUS
  <2>2. p \in Seq(Coros) /\ Len(p) \in Nat
    BY <1>10, <2>1 DEF Workers
  <2>3. CASE t = None
    BY <2>1, <2>2, <2>3
  <2>4. CASE t # None
    <3>1. t \in Coros
      BY <1>6, <2>4
    <3>2. Forward(p, t) \in Seq(Coros) /\ Len(Forward(p, t)) = Len(p) + 1
      BY <2>2, <3>1, ForwardSeq
    <3>3. Len(p) <= Len(Forward(p, t))
      BY <2>2, <3>2
    <3> QED
      BY <2>1, <2>4, <3>2, <3>3
  <2> QED
    BY <2>3, <2>4
<1>14. PICK w : w = [worker[c] EXCEPT !.requests_to_reap = @ - 1, !.reap_swap = q]
  OBVIOUS
<1>15. w \in Workers /\ w.requests_to_reap = worker[c].requests_to_reap - 1 /\ w.reap_swap = q
  <2>1. worker[c].requests_to_reap - 1 \in Int
    BY <1>10 DEF Workers
  <2> QED
    BY <1>10, <1>13, <1>14, <2>1 DEF Workers
<1>16. worker' = [worker EXCEPT ![c] = w]
  <2>1. worker' = [worker EXCEPT ![c].requests_to_reap = @ - 1, ![c].reap_swap = q]
    BY <1>7, <1>13 DEF ReapAndForward
  <2> QED
    BY <1>10, <1>14, <2>1 DEF Workers
<1>17. CASE h.op = "io"
  <2>1. Debt(h) = {h}
    BY <1>17 DEF Debt, Due, Owes, Counted
  <2> QED
    BY <1>1, <1>3, <1>9, <1>11, <1>12, <1>13, <1>15, <1>16, <2>1, IoReapStep
<1>18. CASE h.op = "skip"
  <2>1. Debt(h) = {} /\ failed
    BY <1>4, <1>18 DEF Debt, Due, Owes, Counted
  <2> QED
    BY <1>1, <1>3, <1>9, <1>11, <1>12, <1>13, <1>15, <1>16, <2>1, IoReapStep
<1> QED
  BY <1>3, <1>17, <1>18

\* task_info_ptr__link_sqe and msg_ring
LEMMA IoHandleLinkMsg ==
  ASSUME IoBase, NEW c \in Ctx, UNCHANGED setup, failed => failed',
         \/ HandleLink(c)
         \/ HandleMsg(c)
  PROVE  IoBase'
<1>1. PICK h : h = Head(ring[c].cq)
  OBVIOUS
<1>2. PICK op \in {"link", "msg"} : Reaping(c, op)
  BY DEF HandleLink, HandleMsg
<1>3. loop[c].phase \in {"poll", "bad_poll"} /\ ring[c].cq # <<>> /\ h.op = op
  BY <1>1, <1>2, ReapingAt
<1>4. h \in Requests /\ ReqOK(h)
  BY <1>1, <1>3, HeadOK
<1>5. Seen(c) /\ UNCHANGED <<inbox, meta, coro, halted>>
  BY DEF HandleLink, HandleMsg
<1>6. Spends(c)
  BY <1>5, FramesStay
<1>7. /\ worker[c] \in Workers /\ worker \in [Ctx -> Workers]
      /\ halted \in {"no", "start_timeout", "empty_task", "reap_swap_full"}
  BY IoAt
<1>8. halted' \in {"no", "start_timeout", "empty_task", "reap_swap_full"}
  BY <1>5, <1>7
<1>9. CASE HandleLink(c)
  <2>1. h.op = "link" /\ worker' = [worker EXCEPT ![c].requests_to_reap = @ - 1]
    BY <1>1, <1>9, ReapingAt DEF HandleLink
  <2>2. Debt(h) = {h}
    BY <2>1 DEF Debt, Due, Owes, Counted
  <2>3. PICK w : w = [worker[c] EXCEPT !.requests_to_reap = @ - 1]
    OBVIOUS
  <2>4. w \in Workers /\ w.requests_to_reap = worker[c].requests_to_reap - 1
        /\ w.reap_swap = worker[c].reap_swap
    <3>1. worker[c].requests_to_reap - 1 \in Int
      BY <1>7 DEF Workers
    <3> QED
      BY <1>7, <2>3, <3>1 DEF Workers
  <2>5. worker' = [worker EXCEPT ![c] = w]
    BY <2>1, <2>3
  <2>6. Len(worker[c].reap_swap) <= Len(w.reap_swap)
    BY <1>7, <2>4 DEF Workers
  <2> QED
    BY <1>1, <1>3, <1>5, <1>6, <1>8, <2>2, <2>4, <2>5, <2>6, IoReapStep
<1>10. CASE HandleMsg(c)
  <2>1. h.op = "msg"
    BY <1>1, <1>10, ReapingAt DEF HandleMsg
  <2>2. Debt(h) = {}
    BY <2>1 DEF Debt, Due, Owes, Counted
  <2>3. PICK k : k = h.coro
    OBVIOUS
  <2>4. k \in Coros /\ ForwardTask(c, k)
    BY <1>1, <1>4, <1>10, <2>1, <2>3 DEF ReqOK, HandleMsg
  <2>5. PICK w \in Workers : /\ worker' = [worker EXCEPT ![c] = w]
                             /\ w.requests_to_reap = worker[c].requests_to_reap
                             /\ w.reap_swap = Forward(worker[c].reap_swap, k)
                             /\ Len(w.reap_swap) = Len(worker[c].reap_swap) + 1
                             /\ Len(worker[c].reap_swap) \in Nat
    BY <2>4, ForwardWorker
  <2>6. Len(worker[c].reap_swap) <= Len(w.reap_swap)
    BY <2>5
  <2>7. w.requests_to_reap = worker[c].requests_to_reap - 0
    BY <1>7, <2>5 DEF Workers
  <2> QED
    BY <1>1, <1>3, <1>5, <1>6, <1>8, <2>2, <2>5, <2>6, <2>7, IoReapStep
<1> QED
  BY <1>9, <1>10
\* The ring after the eventfd is listened to again.
LEMMA ListenRing ==
  ASSUME IoBase, NEW c \in Ctx, ring[c].cq # <<>>, Head(ring[c].cq).op = "event", Spends(c),
         ring' = [ring EXCEPT ![c].cq = Tail(@), ![c].sq = Append(@, Req("event", None, None))]
  PROVE  /\ RingsOK' /\ (\A d \in Ctx \ {c} : ring'[d] = ring[d]) /\ Owing(ring'[c]) = Owing(ring[c])
<1>1. /\ RingsOK /\ ring \in [Ctx -> Rings(Requests)] /\ setup.fuel \in Nat /\ RingGood(c)
      /\ coro \in [Coros -> Frames]
  BY IoAt
<1>2. PICK x : x = ring[c]
  OBVIOUS
<1>3. PICK h : h = Head(x.cq)
  OBVIOUS
<1>4. /\ x \in Rings(Requests) /\ OnceIn(x) /\ x.cq \in Seq(Requests) /\ x.cq # <<>>
      /\ x.sq \in Seq(Requests)
  BY <1>1, <1>2 DEF RingGood, Rings
<1>5. h \in Requests /\ ReqOK(h) /\ h.op = "event"
  BY <1>2, <1>3, HeadOK
<1>6. h = EventReq /\ Debt(h) = {h}
  BY <1>5 DEF ReqOK, Debt, Due, Owes, Counted
<1>7. Req("event", None, None) = h
  BY <1>6 DEF Req, EventReq
<1>8. PICK q : q = Tail(x.cq)
  OBVIOUS
<1>9. PICK p : p = Append(x.sq, h)
  OBVIOUS
<1>10. q \in Seq(Requests) /\ p \in Seq(Requests)
  <2>1. q \in Seq(Requests)
    BY <1>4, <1>8, ElementsTail
  <2>2. p \in Seq(Requests)
    BY <1>4, <1>5, <1>9, ElementsAppend
  <2> QED
    BY <2>1, <2>2
<1>11. PICK y : y = [x EXCEPT !.cq = q]
  OBVIOUS
<1>12. y \in Rings(Requests) /\ y.sq = x.sq /\ y.kernel = x.kernel /\ y.cq = Tail(x.cq)
  BY <1>4, <1>8, <1>10, <1>11 DEF Rings
<1>13. PICK z : z = [y EXCEPT !.sq = p]
  OBVIOUS
<1>14. z \in Rings(Requests) /\ z.sq = Append(y.sq, h) /\ z.kernel = y.kernel /\ z.cq = y.cq
  BY <1>9, <1>10, <1>12, <1>13 DEF Rings
<1>15. ring' = [ring EXCEPT ![c] = z]
  <2>1. ring' = [ring EXCEPT ![c].cq = q, ![c].sq = p]
    BY <1>2, <1>7, <1>8, <1>9
  <2>2. z = [x EXCEPT !.cq = q, !.sq = p]
    BY <1>4, <1>11, <1>13 DEF Rings
  <2> QED
    BY <1>1, <1>2, <1>4, <2>1, <2>2 DEF Rings
<1>16. /\ OnceIn(y) /\ Present(x) = Present(y) \cup {h} /\ h \in Present(x)
       /\ Owing(y) = Owing(x) \ Debt(h) /\ Debt(h) \subseteq Owing(x) /\ CqSet(x) = CqSet(y) \cup {h}
  BY <1>3, <1>4, <1>12, TakesCqe
<1>17. h \notin Owing(y)
  BY <1>6, <1>16
<1>18. /\ OnceIn(z) /\ Present(z) = Present(y) \cup {h} /\ Owing(z) = Owing(y) \cup Debt(h)
       /\ SqSet(z) = SqSet(y) \cup {h}
  BY <1>5, <1>12, <1>14, <1>16, <1>17, AddsRequest
<1>19. Owing(z) = Owing(x) /\ Present(z) = Present(x)
  BY <1>16, <1>18
<1>20. \A r \in Present(z) : r \in Present(ring[c]) \/ ReqOK(r)'
  BY <1>2, <1>19
<1>21. \A r \in Elements(z.sq) : r.op = "msg" => r.to \in Ctx \ {c}
  <2>1. \A r \in SqSet(x) : r.op = "msg" => r.to \in Ctx \ {c}
    BY <1>1, <1>2 DEF RingGood, SqSet
  <2>2. SqSet(y) = SqSet(x)
    BY <1>12 DEF SqSet
  <2>3. \A r \in SqSet(z) : r.op = "msg" => r.to \in Ctx \ {c}
    BY <1>5, <1>18, <2>1, <2>2
  <2> QED
    BY <2>3 DEF SqSet
<1>22. \A r \in z.kernel : r.op # "msg"
  BY <1>1, <1>2, <1>12, <1>14 DEF RingGood
<1>23. \A r \in Elements(z.cq) : r.op # "timer" /\ (r.op = "skip" => failed)
  <2>1. \A r \in CqSet(x) : r.op # "timer" /\ (r.op = "skip" => failed)
    BY <1>1, <1>2 DEF RingGood, CqSet
  <2>2. CqSet(z) = CqSet(y)
    BY <1>14 DEF CqSet
  <2>3. \A r \in CqSet(z) : r.op # "timer" /\ (r.op = "skip" => failed)
    BY <1>16, <2>1, <2>2
  <2> QED
    BY <2>3 DEF CqSet
<1>24. RingsOK' /\ ring'[c] = z /\ \A d \in Ctx \ {c} : ring'[d] = ring[d]
  BY <1>1, <1>14, <1>15, <1>18, <1>20, <1>21, <1>22, <1>23, RingAt DEF Spends
<1> QED
  BY <1>2, <1>19, <1>24

\* handle_co_spawn_events
LEMMA IoHandleEvent ==
  ASSUME IoBase, NEW c \in Ctx, UNCHANGED setup, failed => failed', HandleEvent(c)
  PROVE  IoBase'
<1>1. Reaping(c, "event") /\ UNCHANGED <<meta, coro>> /\ inbox' = [inbox EXCEPT ![c].queue = <<>>]
  BY DEF HandleEvent
<1>2. loop[c].phase \in {"poll", "bad_poll"} /\ ring[c].cq # <<>> /\ Head(ring[c].cq).op = "event"
  BY <1>1, ReapingAt
<1>3. /\ worker[c] \in Workers /\ worker \in [Ctx -> Workers] /\ inbox \in [Ctx -> Inboxes]
      /\ inbox[c] \in Inboxes /\ loop[c] \in Loops /\ loop \in [Ctx -> Loops] /\ LoopOK(c) /\ ReapOK(c)
      /\ halted \in {"no", "start_timeout", "empty_task", "reap_swap_full"} /\ RingsOK
      /\ coro \in [Coros -> Frames] /\ setup.fuel \in Nat
  BY IoAt
<1>4. Spends(c)
  BY <1>1, FramesStay
<1>5. inbox' \in [Ctx -> Inboxes]
  <2>1. <<>> \in Seq(Coros)
    OBVIOUS
  <2> QED
    BY <1>1, <1>3, <2>1 DEF Inboxes
<1>6. loop[c].num <= Len(worker[c].reap_swap) /\ loop[c].running = None /\ loop[c].num \in Nat
  BY <1>2, <1>3 DEF LoopOK, Loops
<1>7. CASE halted' = "reap_swap_full" /\ UNCHANGED <<worker, ring, loop>>
  <2>1. RingsOK'
    BY <1>3, <1>4, <1>7, RingsSame DEF Spends
  <2>2. worker' = [worker EXCEPT ![c] = worker[c]] /\ loop' = [loop EXCEPT ![c] = loop[c]]
    BY <1>3, <1>7
  <2>3. ~ failed => /\ IsFiniteSet(Owing(ring'[c]))
                    /\ worker[c].requests_to_reap = Cardinality(Owing(ring'[c]))
    BY <1>3, <1>7 DEF ReapOK
  <2>4. halted' \in {"no", "start_timeout", "empty_task", "reap_swap_full"}
    BY <1>7
  <2>5. \A d \in Ctx \ {c} : Owing(ring'[d]) = Owing(ring[d])
    BY <1>7
  <2>6. coro' \in [Coros -> Frames'] /\ UNCHANGED <<meta, setup>>
    BY <1>1, <1>4 DEF Spends
  <2>7. loop[c].phase \notin {"created", "barrier", "run"}
    BY <1>2
  <2> QED
    BY <1>3, <1>5, <1>6, <2>1, <2>2, <2>3, <2>4, <2>5, <2>6, <2>7, IoAssemble
<1>8. CASE /\ worker' = [worker EXCEPT ![c].reap_swap = @ \o inbox[c].queue, ![c].requests_to_submit = @ + 1]
           /\ ring' = [ring EXCEPT ![c].cq = Tail(@), ![c].sq = Append(@, Req("event", None, None))]
           /\ loop' = [loop EXCEPT ![c].handled = TRUE]
           /\ UNCHANGED halted
  <2>1. /\ RingsOK' /\ (\A d \in Ctx \ {c} : ring'[d] = ring[d]) /\ Owing(ring'[c]) = Owing(ring[c])
    BY <1>2, <1>4, <1>8, ListenRing
  <2>2. PICK q : q = worker[c].reap_swap \o inbox[c].queue
    OBVIOUS
  <2>3. q \in Seq(Coros) /\ Len(worker[c].reap_swap) <= Len(q) /\ Len(worker[c].reap_swap) \in Nat
        /\ Len(q) \in Nat
    <3>1. PICK p : p = worker[c].reap_swap
      OBVIOUS
    <3>2. PICK u : u = inbox[c].queue
      OBVIOUS
    <3>3. p \in Seq(Coros) /\ u \in Seq(Coros) /\ q = p \o u
      BY <1>3, <2>2, <3>1, <3>2 DEF Workers, Inboxes
    <3>4. q \in Seq(Coros) /\ Len(q) = Len(p) + Len(u) /\ Len(p) \in Nat /\ Len(u) \in Nat
      BY <3>3
    <3> QED
      BY <3>1, <3>4
  <2>4. PICK w : w = [worker[c] EXCEPT !.reap_swap = q, !.requests_to_submit = @ + 1]
    OBVIOUS
  <2>5. w \in Workers /\ w.requests_to_reap = worker[c].requests_to_reap /\ w.reap_swap = q
    <3>1. worker[c].requests_to_submit + 1 \in Nat
      BY <1>3 DEF Workers
    <3> QED
      BY <1>3, <2>3, <2>4, <3>1 DEF Workers
  <2>6. worker' = [worker EXCEPT ![c] = w]
    BY <1>3, <1>8, <2>2, <2>4 DEF Workers
  <2>7. PICK l \in Loops : /\ loop' = [loop EXCEPT ![c] = l] /\ l.num = loop[c].num
                           /\ l.running = loop[c].running /\ l.phase = loop[c].phase /\ l.write = loop[c].write
    BY <1>8, SeenLoop
  <2>8. l.num <= Len(w.reap_swap) /\ l.running = None /\ l.phase \notin {"created", "barrier", "run"}
    BY <1>2, <1>6, <2>3, <2>5, <2>7
  <2>9. ~ failed => /\ IsFiniteSet(Owing(ring'[c]))
                    /\ w.requests_to_reap = Cardinality(Owing(ring'[c]))
    BY <1>3, <2>1, <2>5 DEF ReapOK
  <2>10. halted' \in {"no", "start_timeout", "empty_task", "reap_swap_full"}
    BY <1>3, <1>8
  <2>11. \A d \in Ctx \ {c} : Owing(ring'[d]) = Owing(ring[d])
    BY <2>1
  <2>12. coro' \in [Coros -> Frames'] /\ UNCHANGED <<meta, setup>>
    BY <1>1, <1>4 DEF Spends
  <2> QED
    BY <1>5, <2>1, <2>5, <2>6, <2>7, <2>8, <2>9, <2>10, <2>11, <2>12, IoAssemble
<1> QED
  BY <1>7, <1>8 DEF HandleEvent

\* A completion that changes what the ring of c holds, and not what it owes.
LEMMA IoKernelStep ==
  ASSUME IoBase, NEW c \in Ctx, UNCHANGED <<worker, loop, meta, coro, halted, setup>>, failed => failed',
         inbox' \in [Ctx -> Inboxes], NEW z \in Rings(Requests), ring' = [ring EXCEPT ![c] = z], OnceIn(z),
         Present(z) \subseteq Present(ring[c]), Owing(z) = Owing(ring[c]), z.sq = ring[c].sq,
         z.kernel \subseteq ring[c].kernel,
         \A r \in CqSet(z) : r.op # "timer" /\ (r.op = "skip" => failed')
  PROVE  IoBase'
<1>1. /\ worker[c] \in Workers /\ worker \in [Ctx -> Workers]
      /\ loop[c] \in Loops /\ loop \in [Ctx -> Loops] /\ LoopOK(c) /\ ReapOK(c)
      /\ halted \in {"no", "start_timeout", "empty_task", "reap_swap_full"} /\ RingsOK /\ RingGood(c)
      /\ coro \in [Coros -> Frames] /\ setup.fuel \in Nat
  BY IoAt
<1>2. Spends(c)
  BY FramesStay
<1>3. \A r \in Present(z) : r \in Present(ring[c]) \/ ReqOK(r)'
  OBVIOUS
<1>4. /\ \A r \in Elements(z.sq) : r.op = "msg" => r.to \in Ctx \ {c}
      /\ \A r \in z.kernel : r.op # "msg"
  BY <1>1 DEF RingGood
<1>5. \A r \in Elements(z.cq) : r.op # "timer" /\ (r.op = "skip" => failed')
  BY DEF CqSet
<1>6. RingsOK' /\ ring'[c] = z /\ \A d \in Ctx \ {c} : ring'[d] = ring[d]
  BY <1>1, <1>2, <1>3, <1>4, <1>5, RingAt DEF Spends
<1>7. worker' = [worker EXCEPT ![c] = worker[c]] /\ loop' = [loop EXCEPT ![c] = loop[c]]
  BY <1>1
<1>8. ~ failed => /\ IsFiniteSet(Owing(ring'[c]))
                  /\ worker[c].requests_to_reap = Cardinality(Owing(ring'[c]))
  BY <1>1, <1>6 DEF ReapOK
<1>9. halted' \in {"no", "start_timeout", "empty_task", "reap_swap_full"} /\ UNCHANGED <<meta, setup>>
      /\ coro' \in [Coros -> Frames']
  BY <1>1, <1>2 DEF Spends
<1>10. \A d \in Ctx \ {c} : Owing(ring'[d]) = Owing(ring[d])
  BY <1>6
<1>11. /\ loop[c].num <= Len(worker[c].reap_swap) /\ (loop[c].running # None => loop[c].phase = "work")
       /\ (loop[c].phase \in {"created", "barrier", "run"} => Owing(ring'[c]) = {})
  BY <1>1, <1>6 DEF LoopOK
<1> QED
  BY <1>1, <1>6, <1>7, <1>8, <1>9, <1>10, <1>11, IoAssemble

\* The kernel posts r's cqe ...
LEMMA IoPosts ==
  ASSUME IoBase, NEW c \in Ctx, UNCHANGED <<worker, loop, meta, coro, halted, setup>>, failed => failed',
         inbox' \in [Ctx -> Inboxes], NEW r \in ring[c].kernel,
         r.op # "timer", r.op = "skip" => failed',
         ring' = [Leaves(c, r) EXCEPT ![c].cq = Append(@, r)]
  PROVE  IoBase'
<1>1. ring \in [Ctx -> Rings(Requests)] /\ RingGood(c)
  BY IoAt
<1>2. PICK x : x = ring[c]
  OBVIOUS
<1>3. x \in Rings(Requests) /\ OnceIn(x) /\ x.cq \in Seq(Requests) /\ r \in x.kernel
      /\ x.kernel \in SUBSET Requests
  BY <1>1, <1>2 DEF RingGood, Rings
<1>4. PICK q : q = Append(x.cq, r)
  OBVIOUS
<1>5. PICK p : p = x.kernel \ {r}
  OBVIOUS
<1>6. q \in Seq(Requests) /\ p \in SUBSET Requests /\ p \subseteq x.kernel
  <2>1. r \in Requests
    BY <1>3
  <2>2. q \in Seq(Requests)
    BY <1>3, <1>4, <2>1, ElementsAppend
  <2> QED
    BY <1>3, <1>5, <2>2
<1>7. PICK z : z = [x EXCEPT !.kernel = p, !.cq = q]
  OBVIOUS
<1>8. z \in Rings(Requests) /\ z.sq = x.sq /\ z.kernel = p /\ z.cq = q
  BY <1>3, <1>6, <1>7 DEF Rings
<1>9. ring' = [ring EXCEPT ![c] = z]
  <2>1. PICK y : y = [x EXCEPT !.kernel = p]
    OBVIOUS
  <2>2. Leaves(c, r) = [ring EXCEPT ![c] = y]
    BY <1>2, <1>5, <2>1 DEF Leaves
  <2>3. y \in Rings(Requests) /\ y.cq = x.cq
    BY <1>3, <1>6, <2>1 DEF Rings
  <2>4. z = [y EXCEPT !.cq = Append(y.cq, r)]
    BY <1>3, <1>4, <1>7, <2>1, <2>3 DEF Rings
  <2>5. PICK g : g = Leaves(c, r)
    OBVIOUS
  <2>6. g[c] = y /\ g = [ring EXCEPT ![c] = y] /\ g \in [Ctx -> Rings(Requests)]
    BY <1>1, <2>2, <2>3, <2>5
  <2>7. ring' = [g EXCEPT ![c] = z]
    BY <2>4, <2>5, <2>6
  <2> QED
    BY <1>1, <2>6, <2>7
<1>10. z.kernel = x.kernel \ {r} /\ z.cq = Append(x.cq, r)
  BY <1>4, <1>5, <1>8
<1>11. /\ OnceIn(z) /\ Present(z) = Present(x) /\ Owing(z) = Owing(x) /\ CqSet(z) = CqSet(x) \cup {r}
  BY <1>3, <1>8, <1>10, PostsCqe
<1>12. \A s \in CqSet(z) : s.op # "timer" /\ (s.op = "skip" => failed')
  <2>1. \A s \in CqSet(x) : s.op # "timer" /\ (s.op = "skip" => failed')
    BY <1>1, <1>2 DEF RingGood, CqSet
  <2> QED
    BY <1>11, <2>1
<1>13. /\ Present(z) \subseteq Present(ring[c]) /\ Owing(z) = Owing(ring[c]) /\ z.sq = ring[c].sq
       /\ z.kernel \subseteq ring[c].kernel
  BY <1>2, <1>6, <1>8, <1>11
<1> QED
  BY <1>8, <1>9, <1>11, <1>12, <1>13, IoKernelStep

\* ... or none.
LEMMA IoPostsNone ==
  ASSUME IoBase, NEW c \in Ctx, UNCHANGED <<worker, loop, meta, coro, halted, setup, inbox>>, failed => failed',
         NEW r \in ring[c].kernel, r.op \in {"skip", "timer"}, ring' = Leaves(c, r)
  PROVE  IoBase'
<1>1. ring \in [Ctx -> Rings(Requests)] /\ RingGood(c) /\ inbox \in [Ctx -> Inboxes]
  BY IoAt
<1>2. PICK x : x = ring[c]
  OBVIOUS
<1>3. x \in Rings(Requests) /\ OnceIn(x) /\ r \in x.kernel /\ x.kernel \in SUBSET Requests
  BY <1>1, <1>2 DEF RingGood, Rings
<1>4. PICK p : p = x.kernel \ {r}
  OBVIOUS
<1>5. PICK z : z = [x EXCEPT !.kernel = p]
  OBVIOUS
<1>6. z \in Rings(Requests) /\ z.sq = x.sq /\ z.kernel = p /\ z.cq = x.cq
  BY <1>3, <1>4, <1>5 DEF Rings
<1>7. ring' = [ring EXCEPT ![c] = z]
  BY <1>2, <1>4, <1>5 DEF Leaves
<1>8. ~ Owes(r) /\ z.kernel = x.kernel \ {r}
  BY <1>4, <1>6 DEF Owes, Counted
<1>9. /\ OnceIn(z) /\ Present(x) = Present(z) \cup {r} /\ Owing(z) = Owing(x)
  BY <1>3, <1>6, <1>8, LeavesSilently
<1>10. \A s \in CqSet(z) : s.op # "timer" /\ (s.op = "skip" => failed)
  BY <1>1, <1>2, <1>6 DEF RingGood, CqSet
<1>11. /\ Present(z) \subseteq Present(ring[c]) /\ Owing(z) = Owing(ring[c]) /\ z.sq = ring[c].sq
       /\ z.kernel \subseteq ring[c].kernel /\ inbox' \in [Ctx -> Inboxes]
  BY <1>1, <1>2, <1>6, <1>8, <1>9
<1> QED
  BY <1>6, <1>7, <1>9, <1>10, <1>11, IoKernelStep

\* The kernel.
LEMMA IoKernel ==
  ASSUME IoBase, NEW c \in Ctx, UNCHANGED setup, failed' = (failed \/ DetachedFails(c)), Kernel(c)
  PROVE  IoBase'
<1>1. UNCHANGED <<worker, loop, meta, coro, halted, setup>>
  BY DEF Kernel, KernelIo, KernelSkip, KernelEvent
<1>2. inbox \in [Ctx -> Inboxes] /\ inbox[c] \in Inboxes
  BY IoAt
<1>3. CASE KernelIo(c)
  <2>1. PICK r \in ring[c].kernel : /\ r.op \in {"io", "link"}
                                    /\ ring' = [Leaves(c, r) EXCEPT ![c].cq = Append(@, r)]
    BY <1>3 DEF KernelIo
  <2>2. inbox' \in [Ctx -> Inboxes]
    BY <1>2, <1>3 DEF KernelIo
  <2>3. r.op # "timer" /\ ~ (r.op = "skip")
    BY <2>1
  <2> QED
    BY <1>1, <2>1, <2>2, <2>3, IoPosts
<1>4. CASE KernelEvent(c)
  <2>1. PICK r \in ring[c].kernel : /\ r.op = "event"
                                    /\ ring' = [Leaves(c, r) EXCEPT ![c].cq = Append(@, r)]
    BY <1>4 DEF KernelEvent
  <2>2. inbox' = [inbox EXCEPT ![c].event = 0]
    BY <1>4 DEF KernelEvent
  <2>3. inbox' \in [Ctx -> Inboxes]
    BY <1>2, <2>2 DEF Inboxes
  <2>4. r.op # "timer" /\ ~ (r.op = "skip")
    BY <2>1
  <2> QED
    BY <1>1, <2>1, <2>3, <2>4, IoPosts
<1>5. CASE KernelSkip(c)
  <2>1. PICK r \in ring[c].kernel, ok \in BOOLEAN :
          /\ r.op \in {"skip", "timer"} /\ (ok \/ (setup.skip_fails /\ r.op = "skip"))
          /\ ring' = IF ok THEN Leaves(c, r) ELSE [Leaves(c, r) EXCEPT ![c].cq = Append(@, r)]
    BY <1>5 DEF KernelSkip
  <2>2. inbox' = inbox /\ inbox' \in [Ctx -> Inboxes]
    BY <1>2, <1>5 DEF KernelSkip
  <2>3. CASE ok
    BY <1>1, <2>1, <2>2, <2>3, IoPostsNone
  <2>4. CASE ~ ok
    <3>2. ring' = [Leaves(c, r) EXCEPT ![c].cq = Append(@, r)] /\ r.op = "skip"
      BY <2>1, <2>4
    <3>1. r.op # "timer" /\ (r.op = "skip" => failed')
      <4>1. ring'[c].cq = Append(ring[c].cq, r)
        BY <3>2, IoAt DEF Leaves
      <4>2. DetachedFails(c)
        BY <3>2, <4>1 DEF DetachedFails
      <4> QED
        BY <3>2, <4>2
    <3> QED
      BY <1>1, <2>2, <3>1, <3>2, IoPosts
  <2> QED
    BY <2>3, <2>4
<1> QED
  BY <1>3, <1>4, <1>5 DEF Kernel
\* Every step keeps it.
LEMMA IoBaseNext == IoBase /\ [Next]_(vars) => IoBase'
<1> SUFFICES ASSUME IoBase, [Next]_(vars) PROVE IoBase'
  OBVIOUS
<1>1. CASE UNCHANGED vars
  <2>1. UNCHANGED <<worker, inbox, ring, loop, meta, coro, halted, setup>> /\ (failed => failed')
    BY <1>1 DEF vars
  <2>2. IoConstants /\ IoTypes /\ MetaOK /\ RingsOK /\ \A c \in Ctx : ReapOK(c) /\ LoopOK(c)
    BY DEF IoBase
  <2>3. IoTypes'
    BY <2>1, <2>2 DEF IoTypes, Workers, Loops, Inboxes, Frames
  <2>4. MetaOK' /\ \A c \in Ctx : ReapOK(c)' /\ LoopOK(c)'
    BY <2>1, <2>2 DEF MetaOK, ReapOK, LoopOK, Alive, Ready
  <2>5. coro \in [Coros -> Frames] /\ setup.fuel \in Nat
    BY <2>2, IoConstantsFacts DEF IoTypes
  <2>6. coro' \in [Coros -> Frames'] /\ FuelDown
    BY <2>1, <2>5 DEF FuelDown, Frames
  <2>7. RingsOK'
    BY <2>1, <2>2, <2>5, <2>6, RingsSame
  <2> QED
    BY <2>2, <2>3, <2>4, <2>7, IoConstantsStay DEF IoBase
<1>2. ASSUME NEW c \in Ctx, Step(c, Thread(c)) PROVE IoBase'
  <2>1. c \in setup.ctx /\ Thread(c) /\ UNCHANGED setup /\ (failed => failed')
    BY <1>2 DEF Step
  <2>2. CASE Start(c) \/ Deinit(c)
    BY <2>1, <2>2, IoStartStop
  <2>3. CASE \/ PassBarrier(c) \/ Peek(c) \/ BadPeek(c)
             \/ PollDone(c) \/ BadPollDone(c) \/ DecideOver(c)
    BY <2>1, <2>3, IoMoves
  <2>4. CASE Wake(c)
    <3>1. WaitReturns(c)
      BY <2>4 DEF Wake
    <3> QED
      BY <2>1, <3>1, IoMoves
  <2>5. CASE Run(c)
    BY <2>1, <2>5, IoRun
  <2>6. CASE WorkOnce(c) \/ EventWrite(c)
    BY <2>1, <2>6, IoTakeWrite
  <2>7. CASE PollSubmission(c)
    BY <2>1, <2>7, IoPollSubmission
  <2>8. CASE Reap(c)
    <3>1. HandleIo(c) \/ HandleLink(c) \/ HandleMsg(c) \/ HandleEvent(c)
      BY <2>8 DEF Reap
    <3> QED
      BY <2>1, <3>1, IoHandleIo, IoHandleLinkMsg, IoHandleEvent
  <2>9. CASE Coroutine(c)
    <3>1. CASE AwaitIo(c) \/ PrepareIo(c)
      BY <2>1, <3>1, IoAwaitOne
    <3>2. CASE AwaitLink(c) \/ AwaitTimeout(c)
      BY <2>1, <3>2, IoAwaitTwo
    <3>3. CASE AwaitPrepared(c) \/ StopContext(c) \/ Return(c)
      BY <2>1, <3>3, IoOwnSteps
    <3>4. CASE Detach(c)
      BY <2>1, <3>4, IoDetach
    <3>5. CASE Yield(c)
      BY <2>1, <3>5, IoYield
    <3>6. CASE CoSpawn(c) \/ ResumeOn(c)
      BY <2>1, <3>6, IoCoSpawn
    <3> QED
      BY <2>9, <3>1, <3>2, <3>3, <3>4, <3>5, <3>6 DEF Coroutine
  <2> QED
    BY <2>1, <2>2, <2>3, <2>4, <2>5, <2>6, <2>7, <2>8, <2>9 DEF Thread
<1>3. ASSUME NEW c \in Ctx, Step(c, Kernel(c)) PROVE IoBase'
  BY <1>3, IoKernel DEF Step
<1>4. ASSUME NEW c \in Ctx, Step(c, Interrupt(c)) PROVE IoBase'
  <2>1. WaitReturns(c) /\ UNCHANGED setup /\ (failed => failed')
    BY <1>4 DEF Step, Interrupt
  <2> QED
    BY <2>1, IoMoves
<1>5. ASSUME NEW c \in Ctx, Step(c, BarrierTimeout(c)) PROVE IoBase'
  <2>1. c \in setup.ctx /\ BarrierTimeout(c) /\ UNCHANGED setup /\ (failed => failed')
    BY <1>5 DEF Step
  <2> QED
    BY <2>1, IoStartStop
<1> QED
  BY <1>1, <1>2, <1>3, <1>4, <1>5 DEF Next

\* The counted requests of a ring are as many as the places they are in.
LEMMA OutstandingCount ==
  ASSUME NEW c \in Ctx, OnceIn(ring[c]), IsFiniteSet(Owing(ring[c]))
  PROVE  Cardinality({o \in Outstanding(c) : o[3].op \in Counted}) = Cardinality(Owing(ring[c]))
<1> DEFINE O == {o \in Outstanding(c) : o[3].op \in Counted}
           T == Owing(ring[c])
           f == [o \in O |-> o[3]]
<1>1. PICK x : x = ring[c]
  OBVIOUS
<1>2. O = {o \in {<<"sq", i, x.sq[i]>> : i \in DOMAIN x.sq}
                 \cup {<<"kernel", 0, r>> : r \in x.kernel}
                 \cup {<<"cq", i, x.cq[i]>> : i \in DOMAIN x.cq} : Owes(o[3])}
  BY <1>1 DEF Outstanding, Owes
<1>3. ASSUME NEW o \in O
      PROVE  \/ \E i \in DOMAIN x.sq : o = <<"sq", i, x.sq[i]>> /\ Owes(x.sq[i])
             \/ \E r \in x.kernel : o = <<"kernel", 0, r>> /\ Owes(r)
             \/ \E i \in DOMAIN x.cq : o = <<"cq", i, x.cq[i]>> /\ Owes(x.cq[i])
  <2> HIDE DEF O
  <2> QED
    BY <1>2
<1>4. /\ \A i \in DOMAIN x.sq : Owes(x.sq[i]) => <<"sq", i, x.sq[i]>> \in O
      /\ \A r \in x.kernel : Owes(r) => <<"kernel", 0, r>> \in O
      /\ \A i \in DOMAIN x.cq : Owes(x.cq[i]) => <<"cq", i, x.cq[i]>> \in O
  <2> HIDE DEF O
  <2> QED
    BY <1>2
<1>5. T = {r \in Elements(x.sq) \cup x.kernel \cup Elements(x.cq) : Owes(r)}
  BY <1>1 DEF Owing, Due, Present
<1> HIDE DEF O, T
<1>6. ASSUME NEW o \in O PROVE o[3] \in T
  BY <1>3, <1>5 DEF Elements
<1>7. ASSUME NEW o \in O, NEW p \in O, o[3] = p[3] PROVE o = p
  <2>1. OnceIn(x)
    BY <1>1
  <2>2. CASE \E i \in DOMAIN x.sq : o = <<"sq", i, x.sq[i]>> /\ Owes(x.sq[i])
    <3>1. o[3] \in Elements(x.sq) /\ Owes(o[3])
      BY <2>2 DEF Elements
    <3>2. o[3] \notin x.kernel /\ o[3] \notin Elements(x.cq)
      BY <2>1, <3>1 DEF OnceIn
    <3>3. PICK j \in DOMAIN x.sq : p = <<"sq", j, x.sq[j]>> /\ Owes(x.sq[j])
      BY <1>3, <1>7, <3>2 DEF Elements
    <3>4. PICK i \in DOMAIN x.sq : o = <<"sq", i, x.sq[i]>> /\ Owes(x.sq[i])
      BY <2>2
    <3>5. x.sq[i] = x.sq[j]
      BY <1>7, <3>3, <3>4
    <3>6. i = j
      BY <2>1, <3>4, <3>5 DEF OnceIn
    <3> QED
      BY <3>3, <3>4, <3>6
  <2>3. CASE \E r \in x.kernel : o = <<"kernel", 0, r>> /\ Owes(r)
    <3>1. o[3] \in x.kernel /\ Owes(o[3])
      BY <2>3
    <3>2. o[3] \notin Elements(x.sq) /\ o[3] \notin Elements(x.cq)
      BY <2>1, <3>1 DEF OnceIn
    <3>3. PICK r \in x.kernel : p = <<"kernel", 0, r>>
      BY <1>3, <1>7, <3>2 DEF Elements
    <3> QED
      BY <1>7, <2>3, <3>3
  <2>4. CASE \E i \in DOMAIN x.cq : o = <<"cq", i, x.cq[i]>> /\ Owes(x.cq[i])
    <3>1. o[3] \in Elements(x.cq) /\ Owes(o[3])
      BY <2>4 DEF Elements
    <3>2. o[3] \notin x.kernel /\ o[3] \notin Elements(x.sq)
      BY <2>1, <3>1 DEF OnceIn
    <3>3. PICK j \in DOMAIN x.cq : p = <<"cq", j, x.cq[j]>> /\ Owes(x.cq[j])
      BY <1>3, <1>7, <3>2 DEF Elements
    <3>4. PICK i \in DOMAIN x.cq : o = <<"cq", i, x.cq[i]>> /\ Owes(x.cq[i])
      BY <2>4
    <3>5. x.cq[i] = x.cq[j]
      BY <1>7, <3>3, <3>4
    <3>6. i = j
      BY <2>1, <3>4, <3>5 DEF OnceIn
    <3> QED
      BY <3>3, <3>4, <3>6
  <2> QED
    BY <1>3, <2>2, <2>3, <2>4
<1>8. ASSUME NEW r \in T PROVE \E o \in O : o[3] = r
  <2>1. Owes(r) /\ r \in Elements(x.sq) \cup x.kernel \cup Elements(x.cq)
    BY <1>5
  <2>2. CASE r \in Elements(x.sq)
    <3>1. PICK i \in DOMAIN x.sq : r = x.sq[i]
      BY <2>2 DEF Elements
    <3>2. <<"sq", i, x.sq[i]>> \in O /\ <<"sq", i, x.sq[i]>>[3] = r
      BY <1>4, <2>1, <3>1
    <3> QED
      BY <3>2
  <2>3. CASE r \in x.kernel
    <3>1. <<"kernel", 0, r>> \in O /\ <<"kernel", 0, r>>[3] = r
      BY <1>4, <2>1, <2>3
    <3> QED
      BY <3>1
  <2>4. CASE r \in Elements(x.cq)
    <3>1. PICK i \in DOMAIN x.cq : r = x.cq[i]
      BY <2>4 DEF Elements
    <3>2. <<"cq", i, x.cq[i]>> \in O /\ <<"cq", i, x.cq[i]>>[3] = r
      BY <1>4, <2>1, <3>1
    <3> QED
      BY <3>2
  <2> QED
    BY <2>1, <2>2, <2>3, <2>4
<1>9. f \in Injection(O, T) /\ f \in Surjection(O, T)
  <2>1. f \in [O -> T]
    BY <1>6
  <2>2. \A o, p \in O : f[o] = f[p] => o = p
    BY <1>7
  <2>3. \A r \in T : \E o \in O : f[o] = r
    BY <1>8
  <2> HIDE DEF f
  <2>4. DOMAIN f = O
    BY <2>1
  <2>5. IsInjective(f)
    BY <2>2, <2>4 DEF IsInjective
  <2>6. f \in Injection(O, T)
    BY <2>1, <2>5 DEF Injection
  <2>7. f \in Surjection(O, T)
    BY <2>1, <2>3 DEF Surjection
  <2> QED
    BY <2>6, <2>7
<1> HIDE DEF f
<1>10. IsFiniteSet(T)
  BY DEF T
<1>11. Cardinality(O) = Cardinality(T)
  BY <1>9, <1>10, FS_Injection
<1> QED
  BY <1>11 DEF O, T

\* In every reachable state.
LEMMA IoBaseHolds == Spec => []IoBase
<1>1. Init => IoBase
  BY IoBaseInit, IoAssumption
<1> QED
  BY <1>1, IoBaseNext, PTL DEF Spec

\* The history variable is a truth value.
LEMMA IoFailedTyped == Spec => [](failed \in BOOLEAN)
<1>1. Init => failed \in BOOLEAN
  BY DEF Init
<1>2. failed \in BOOLEAN /\ [Next]_(vars) => (failed \in BOOLEAN)'
  <2>1. CASE UNCHANGED vars
    BY <2>1 DEF vars
  <2>2. CASE Next
    <3>1. PICK c \in Ctx : failed' = (failed \/ DetachedFails(c))
      BY <2>2 DEF Next, Step
    <3> QED
      BY <3>1
  <2> QED
    BY <2>1, <2>2
<1> QED
  BY <1>1, <1>2, PTL DEF Spec

\* TypeOK: the counters, queues and rings keep their types; in particular
\* create_count and ready_count never drop below 0 when contexts deinit.
THEOREM IoTypeCorrect == Spec => []TypeOK
BY IoBaseHolds, IoFailedTyped, IoBaseTyped, PTL

\* The count of IoBase is the one of ReapAccounting.
LEMMA IoCount == IoBase => ReapAccounting
<1> SUFFICES ASSUME IoBase PROVE ReapAccounting
  OBVIOUS
<1>1. ASSUME ~ failed, NEW c \in Ctx
      PROVE  worker[c].requests_to_reap = Cardinality({o \in Outstanding(c) : o[3].op \in Counted})
  <2>1. OnceIn(ring[c]) /\ IsFiniteSet(Owing(ring[c]))
        /\ worker[c].requests_to_reap = Cardinality(Owing(ring[c]))
    BY <1>1, IoAt DEF RingGood, ReapOK
  <2> QED
    BY <2>1, OutstandingCount
<1> QED
  BY <1>1 DEF ReapAccounting

\* ReapAccounting: until a request that asked for no cqe fails,
\* requests_to_reap, on which the decisions to block and to stop rest, is the
\* number of cqes the ring still owes its context, however get_free_sqe, the
\* kernel, msg_ring deliveries and handle_cq_entry interleave.
THEOREM IoReapAccounting == Spec => []ReapAccounting
BY IoBaseHolds, IoCount, PTL

-----------------------------------------------------------------------------
\* Where the coroutines are.  First, sets of coroutines at places, as values.

\* Every member of L is in one place of I, and nothing else is anywhere.
Parted(F, I, L) ==
  /\ F \in [I -> SUBSET Coros]
  /\ \A k \in L : \E p \in I : k \in F[p]
  /\ \A p \in I : F[p] \subseteq L
  /\ \A p, q \in I : \A k \in Coros : k \in F[p] /\ k \in F[q] => p = q

\* Nothing moves.
LEMMA PartSame ==
  ASSUME NEW I, NEW L, NEW F, Parted(F, I, L), NEW G \in [I -> SUBSET Coros],
         \A p \in I : G[p] = F[p]
  PROVE  Parted(G, I, L)
BY DEF Parted

\* One goes from p to q ...
LEMMA PartMove ==
  ASSUME NEW I, NEW L, NEW F, Parted(F, I, L), NEW G \in [I -> SUBSET Coros],
         NEW k, NEW p \in I, NEW q \in I, p # q, k \in F[p],
         G[p] = F[p] \ {k}, G[q] = F[q] \cup {k}, \A r \in I \ {p, q} : G[r] = F[r]
  PROVE  Parted(G, I, L)
<1>1. k \in L /\ k \in Coros
  BY DEF Parted
<1>2. \A j \in Coros : \A r \in I : j # k => (j \in G[r] <=> j \in F[r])
  OBVIOUS
<1>3. \A r \in I : k \in G[r] <=> r = q
  BY <1>1 DEF Parted
<1>4. \A j \in L : \E r \in I : j \in G[r]
  BY <1>2, <1>3 DEF Parted
<1>5. \A r \in I : G[r] \subseteq L
  BY <1>1, <1>2, <1>3 DEF Parted
<1>6. \A r, s \in I : \A j \in Coros : j \in G[r] /\ j \in G[s] => r = s
  BY <1>2, <1>3 DEF Parted
<1> QED
  BY <1>4, <1>5, <1>6 DEF Parted

\* ... comes to q from nowhere ...
LEMMA PartPut ==
  ASSUME NEW I, NEW L, NEW F, Parted(F, I, L), NEW G \in [I -> SUBSET Coros],
         NEW k \in Coros, k \notin L, NEW q \in I,
         G[q] = F[q] \cup {k}, \A r \in I \ {q} : G[r] = F[r]
  PROVE  Parted(G, I, L \cup {k})
<1>1. \A j \in Coros : \A r \in I : j # k => (j \in G[r] <=> j \in F[r])
  OBVIOUS
<1>2. \A r \in I : k \in G[r] <=> r = q
  BY DEF Parted
<1>3. \A j \in L \cup {k} : \E r \in I : j \in G[r]
  BY <1>1, <1>2 DEF Parted
<1>4. \A r \in I : G[r] \subseteq L \cup {k}
  BY <1>1, <1>2 DEF Parted
<1>5. \A r, s \in I : \A j \in Coros : j \in G[r] /\ j \in G[s] => r = s
  BY <1>1, <1>2 DEF Parted
<1> QED
  BY <1>3, <1>4, <1>5 DEF Parted

\* ... or leaves p for good.
LEMMA PartDrop ==
  ASSUME NEW I, NEW L, NEW F, Parted(F, I, L), NEW G \in [I -> SUBSET Coros],
         NEW k, NEW p \in I, k \in F[p],
         G[p] = F[p] \ {k}, \A r \in I \ {p} : G[r] = F[r]
  PROVE  Parted(G, I, L \ {k}) /\ k \in L /\ k \in Coros
<1>1. k \in L /\ k \in Coros
  BY DEF Parted
<1>2. \A j \in Coros : \A r \in I : j # k => (j \in G[r] <=> j \in F[r])
  OBVIOUS
<1>3. \A r \in I : k \notin G[r]
  BY <1>1 DEF Parted
<1>4. \A j \in L \ {k} : \E r \in I : j \in G[r]
  BY <1>2 DEF Parted
<1>5. \A r \in I : G[r] \subseteq L \ {k}
  BY <1>2, <1>3 DEF Parted
<1>6. \A r, s \in I : \A j \in Coros : j \in G[r] /\ j \in G[s] => r = s
  BY <1>2, <1>3 DEF Parted
<1> QED
  BY <1>1, <1>4, <1>5, <1>6 DEF Parted

\* All at p go, each to one other place.
LEMMA PartSpread ==
  ASSUME NEW I, NEW L, NEW F, Parted(F, I, L), NEW G \in [I -> SUBSET Coros], NEW p \in I,
         G[p] = {}, \A r \in I \ {p} : F[r] \subseteq G[r] /\ G[r] \subseteq F[r] \cup F[p],
         \A k \in F[p] : \E r \in I \ {p} : k \in G[r],
         \A k \in F[p] : \A r, s \in I \ {p} : k \in G[r] /\ k \in G[s] => r = s
  PROVE  Parted(G, I, L)
<1>1. \A j \in Coros : \A r \in I : j \notin F[p] => (j \in G[r] <=> j \in F[r])
  OBVIOUS
<1>2. \A j \in L : \E r \in I : j \in G[r]
  BY <1>1 DEF Parted
<1>3. \A r \in I : G[r] \subseteq L
  BY DEF Parted
<1>4. \A r, s \in I : \A j \in Coros : j \in G[r] /\ j \in G[s] => r = s
  <2> SUFFICES ASSUME NEW r \in I, NEW s \in I, NEW j \in Coros, j \in G[r], j \in G[s] PROVE r = s
    OBVIOUS
  <2>1. CASE j \in F[p]
    BY <2>1
  <2>2. CASE j \notin F[p]
    BY <1>1, <2>2 DEF Parted
  <2> QED
    BY <2>1, <2>2
<1> QED
  BY <1>2, <1>3, <1>4 DEF Parted

Kinds == {"running", "reap_swap", "co_spawn_queue", "sq", "cq"}

Spots == Kinds \X Ctx

\* Five functions on the contexts as one on the places.
Grid(f, g, h, i, j) ==
  [p \in Spots |-> IF p[1] = "running" THEN f[p[2]] ELSE IF p[1] = "reap_swap" THEN g[p[2]]
                   ELSE IF p[1] = "co_spawn_queue" THEN h[p[2]]
                   ELSE IF p[1] = "sq" THEN i[p[2]] ELSE j[p[2]]]

\* A place is one of five.
LEMMA SpotOf ==
  ASSUME NEW p \in Spots
  PROVE  \E c \in Ctx : \/ p = <<"running", c>> \/ p = <<"reap_swap", c>>
                        \/ p = <<"co_spawn_queue", c>> \/ p = <<"sq", c>> \/ p = <<"cq", c>>
BY DEF Spots, Kinds

\* The places of a context.
LEMMA SpotsOf ==
  ASSUME NEW c \in Ctx
  PROVE  {<<"running", c>>, <<"reap_swap", c>>, <<"co_spawn_queue", c>>, <<"sq", c>>, <<"cq", c>>} \subseteq Spots
BY DEF Spots, Kinds

\* What is at a place.
LEMMA GridAt ==
  ASSUME NEW f, NEW g, NEW h, NEW i, NEW j, NEW c \in Ctx
  PROVE  /\ Grid(f, g, h, i, j)[<<"running", c>>] = f[c]
         /\ Grid(f, g, h, i, j)[<<"reap_swap", c>>] = g[c]
         /\ Grid(f, g, h, i, j)[<<"co_spawn_queue", c>>] = h[c]
         /\ Grid(f, g, h, i, j)[<<"sq", c>>] = i[c]
         /\ Grid(f, g, h, i, j)[<<"cq", c>>] = j[c]
BY SpotsOf DEF Grid

\* All are sets of coroutines.
LEMMA GridType ==
  ASSUME NEW f \in [Ctx -> SUBSET Coros], NEW g \in [Ctx -> SUBSET Coros],
         NEW h \in [Ctx -> SUBSET Coros], NEW i \in [Ctx -> SUBSET Coros],
         NEW j \in [Ctx -> SUBSET Coros]
  PROVE  Grid(f, g, h, i, j) \in [Spots -> SUBSET Coros]
<1>1. \A p \in Spots : p[2] \in Ctx
  BY DEF Spots
<1> QED
  BY <1>1 DEF Grid

\* The coroutines that the requests of R send, and those that await one of R.
Msgs(R) == {k \in Coros : \E r \in R : r.op = "msg" /\ r.coro = k}

Ios(R) == {k \in Coros : \E r \in R : r.op = "io" /\ r.coro = k}

RunF == [c \in Ctx |-> {loop[c].running} \ {None}]
SwapF == [c \in Ctx |-> Elements(worker[c].reap_swap)]
QueueF == [c \in Ctx |-> Elements(inbox[c].queue)]
SqF == [c \in Ctx |-> Msgs(SqSet(ring[c]))]
CqF == [c \in Ctx |-> Msgs(CqSet(ring[c]))]
IoF == [c \in Ctx |-> Ios(Present(ring[c]))]

Live == {k \in Coros : coro[k].st = "live"}
Held == {k \in Coros : coro[k].handle}
Prep == {k \in Coros : coro[k].prepared}

\* A coroutine awaits one request at most.
OneIo(x) == \A r, s \in Present(x) : r.op = "io" /\ s.op = "io" /\ r.coro = s.coro => r = s

OnceEach(c) == /\ Uniq(worker[c].reap_swap) /\ Uniq(inbox[c].queue)
               /\ OneMsg(ring[c].sq) /\ OneMsg(ring[c].cq) /\ OneIo(ring[c])

\* A live coroutine whose handle is not in an awaiter is in one place, once;
\* one that awaits or has prepared a request has one in one ring.
Cells == Grid(RunF, SwapF, QueueF, SqF, CqF)

FlagsOK == Held \cup Prep \subseteq Live /\ Held \cap Prep = {}

PlacesOK == /\ Parted(Cells, Spots, Live \ Held) /\ Parted(IoF, Ctx, Held \cup Prep)
            /\ FlagsOK /\ \A c \in Ctx : OnceEach(c)

CellsTyped == /\ RunF \in [Ctx -> SUBSET Coros] /\ SwapF \in [Ctx -> SUBSET Coros]
              /\ QueueF \in [Ctx -> SUBSET Coros] /\ SqF \in [Ctx -> SUBSET Coros]
              /\ CqF \in [Ctx -> SUBSET Coros] /\ IoF \in [Ctx -> SUBSET Coros]

\* The types of all these.
LEMMA CellTypes == IoBase => CellsTyped
<1> SUFFICES ASSUME IoBase PROVE CellsTyped
  OBVIOUS
<1>1. ASSUME NEW c \in Ctx
      PROVE /\ {loop[c].running} \ {None} \subseteq Coros
            /\ Elements(worker[c].reap_swap) \subseteq Coros
            /\ Elements(inbox[c].queue) \subseteq Coros
  <2>1. loop[c].running \in Coros \cup {None} /\ worker[c].reap_swap \in Seq(Coros)
        /\ inbox[c].queue \in Seq(Coros)
    BY IoAt DEF Loops, Workers, Inboxes
  <2> QED
    BY <2>1, ElementsOf
<1>2. ASSUME NEW R PROVE Msgs(R) \subseteq Coros /\ Ios(R) \subseteq Coros
  BY DEF Msgs, Ios
<1>3. RunF \in [Ctx -> SUBSET Coros] /\ SwapF \in [Ctx -> SUBSET Coros]
      /\ QueueF \in [Ctx -> SUBSET Coros]
  BY <1>1 DEF RunF, SwapF, QueueF
<1>4. SqF \in [Ctx -> SUBSET Coros] /\ CqF \in [Ctx -> SUBSET Coros] /\ IoF \in [Ctx -> SUBSET Coros]
  BY <1>2 DEF SqF, CqF, IoF
<1> QED
  BY <1>3, <1>4 DEF CellsTyped

\* One request.
LEMMA MsgsOne ==
  ASSUME NEW r, NEW R, R = {r}
  PROVE  /\ r.op # "msg" => Msgs(R) = {}
         /\ r.op # "io" => Ios(R) = {}
         /\ r.op = "msg" /\ r.coro \in Coros => Msgs(R) = {r.coro}
         /\ r.op = "io" /\ r.coro \in Coros => Ios(R) = {r.coro}
BY DEF Msgs, Ios

OneRing(x) == OneMsg(x.sq) /\ OneMsg(x.cq) /\ OneIo(x)

\* The same coroutines are in y as in x.
Alike(x, y) == /\ Msgs(SqSet(y)) = Msgs(SqSet(x)) /\ Msgs(CqSet(y)) = Msgs(CqSet(x))
               /\ Ios(Present(y)) = Ios(Present(x)) /\ OneRing(y)

\* get_free_sqe()
LEMMA PutsSqe ==
  ASSUME NEW S, NEW x \in Rings(S), NEW r \in S,
         NEW y \in Rings(S), y.sq = Append(x.sq, r), y.kernel = x.kernel, y.cq = x.cq
  PROVE  SqSet(y) = SqSet(x) \cup {r} /\ Present(y) = Present(x) \cup {r} /\ CqSet(y) = CqSet(x)
<1>1. x.sq \in Seq(S)
  BY DEF Rings
<1>2. Elements(y.sq) = Elements(x.sq) \cup {r}
  BY <1>1, ElementsAppend
<1> QED
  BY <1>2 DEF SqSet, CqSet, Present

\* ... for a request that carries no coroutine
LEMMA AlikePut ==
  ASSUME NEW S, NEW x \in Rings(S), NEW r \in S, OneRing(x), r.op # "msg", r.op # "io",
         NEW y \in Rings(S), y.sq = Append(x.sq, r), y.kernel = x.kernel, y.cq = x.cq
  PROVE  Alike(x, y)
<1> PICK R : R = {r}
  OBVIOUS
<1>1. SqSet(y) = SqSet(x) \cup R /\ Present(y) = Present(x) \cup R /\ CqSet(y) = CqSet(x)
  BY PutsSqe
<1>2. Msgs(R) = {} /\ Ios(R) = {}
  BY MsgsOne
<1>3. Msgs(SqSet(y)) = Msgs(SqSet(x)) /\ Msgs(CqSet(y)) = Msgs(CqSet(x))
      /\ Ios(Present(y)) = Ios(Present(x))
  <2>1. Msgs(SqSet(y)) = Msgs(SqSet(x))
    BY <1>1, <1>2 DEF Msgs
  <2>2. Msgs(CqSet(y)) = Msgs(CqSet(x))
    BY <1>1, <1>2 DEF Msgs
  <2>3. Ios(Present(y)) = Ios(Present(x))
    BY <1>1, <1>2 DEF Ios
  <2> QED
    BY <2>1, <2>2, <2>3
<1>4. OneMsg(y.sq)
  <2>1. x.sq \in Seq(S) /\ OneMsg(x.sq)
    BY DEF Rings, OneRing
  <2> QED
    BY <2>1, OneMsgAppend
<1>5. OneIo(y)
  BY <1>1 DEF OneIo, OneRing
<1> QED
  BY <1>3, <1>4, <1>5 DEF Alike, OneRing

\* ... for one whose cqe resumes
LEMMA PutsIo ==
  ASSUME NEW S, NEW x \in Rings(S), NEW r \in S, OneRing(x), r.op = "io", NEW k \in Coros, r.coro = k,
         k \notin Ios(Present(x)),
         NEW y \in Rings(S), y.sq = Append(x.sq, r), y.kernel = x.kernel, y.cq = x.cq
  PROVE  /\ Msgs(SqSet(y)) = Msgs(SqSet(x)) /\ Msgs(CqSet(y)) = Msgs(CqSet(x))
         /\ Ios(Present(y)) = Ios(Present(x)) \cup {k} /\ OneRing(y)
<1> PICK R : R = {r}
  OBVIOUS
<1>1. SqSet(y) = SqSet(x) \cup R /\ Present(y) = Present(x) \cup R /\ CqSet(y) = CqSet(x)
  BY PutsSqe
<1>2. Msgs(R) = {} /\ Ios(R) = {k}
  BY MsgsOne
<1>3. Msgs(SqSet(y)) = Msgs(SqSet(x)) /\ Msgs(CqSet(y)) = Msgs(CqSet(x))
      /\ Ios(Present(y)) = Ios(Present(x)) \cup {k}
  <2>1. Msgs(SqSet(y)) = Msgs(SqSet(x))
    BY <1>1, <1>2 DEF Msgs
  <2>2. Msgs(CqSet(y)) = Msgs(CqSet(x))
    BY <1>1, <1>2 DEF Msgs
  <2>3. Ios(Present(y)) = Ios(Present(x)) \cup {k}
    BY <1>1, <1>2 DEF Ios
  <2> QED
    BY <2>1, <2>2, <2>3
<1>4. OneMsg(y.sq)
  <2>1. x.sq \in Seq(S) /\ OneMsg(x.sq)
    BY DEF Rings, OneRing
  <2> QED
    BY <2>1, OneMsgAppend
<1>5. OneIo(y)
  <2>1. \A s \in Present(x) : s.op = "io" => s.coro # k
    BY DEF Ios
  <2> QED
    BY <1>1, <2>1 DEF OneIo, OneRing
<1> QED
  BY <1>3, <1>4, <1>5 DEF OneRing

\* ... for a message
LEMMA PutsMsg ==
  ASSUME NEW S, NEW x \in Rings(S), NEW r \in S, OneRing(x), r.op = "msg", NEW k \in Coros, r.coro = k,
         k \notin Msgs(SqSet(x)),
         NEW y \in Rings(S), y.sq = Append(x.sq, r), y.kernel = x.kernel, y.cq = x.cq
  PROVE  /\ Msgs(SqSet(y)) = Msgs(SqSet(x)) \cup {k} /\ Msgs(CqSet(y)) = Msgs(CqSet(x))
         /\ Ios(Present(y)) = Ios(Present(x)) /\ OneRing(y)
<1> PICK R : R = {r}
  OBVIOUS
<1>1. SqSet(y) = SqSet(x) \cup R /\ Present(y) = Present(x) \cup R /\ CqSet(y) = CqSet(x)
  BY PutsSqe
<1>2. Msgs(R) = {k} /\ Ios(R) = {}
  BY MsgsOne
<1>3. Msgs(SqSet(y)) = Msgs(SqSet(x)) \cup {k} /\ Msgs(CqSet(y)) = Msgs(CqSet(x))
      /\ Ios(Present(y)) = Ios(Present(x))
  <2>1. Msgs(SqSet(y)) = Msgs(SqSet(x)) \cup {k}
    BY <1>1, <1>2 DEF Msgs
  <2>2. Msgs(CqSet(y)) = Msgs(CqSet(x))
    BY <1>1, <1>2 DEF Msgs
  <2>3. Ios(Present(y)) = Ios(Present(x))
    BY <1>1, <1>2 DEF Ios
  <2> QED
    BY <2>1, <2>2, <2>3
<1>4. OneMsg(y.sq)
  <2>1. x.sq \in Seq(S) /\ OneMsg(x.sq)
    BY DEF Rings, OneRing
  <2>2. \A s \in Elements(x.sq) : s.op = "msg" => s.coro # k
    BY DEF Msgs, SqSet
  <2> QED
    BY <2>1, <2>2, OneMsgAppend
<1>5. OneIo(y)
  BY <1>1 DEF OneIo, OneRing
<1> QED
  BY <1>3, <1>4, <1>5 DEF OneRing

\* A request completes: its cqe is posted.
LEMMA AlikePost ==
  ASSUME NEW S, NEW x \in Rings(S), OneRing(x), NEW r \in x.kernel, r.op # "msg",
         NEW y \in Rings(S), y.sq = x.sq, y.kernel = x.kernel \ {r}, y.cq = Append(x.cq, r)
  PROVE  Alike(x, y)
<1> PICK R : R = {r}
  OBVIOUS
<1>1. x.cq \in Seq(S) /\ r \in S
  BY DEF Rings
<1>2. CqSet(y) = CqSet(x) \cup R /\ SqSet(y) = SqSet(x)
  BY <1>1, ElementsAppend DEF CqSet, SqSet
<1>3. Present(y) = Present(x)
  BY <1>2 DEF Present, CqSet, SqSet
<1>4. Msgs(R) = {}
  BY MsgsOne
<1>5. Msgs(SqSet(y)) = Msgs(SqSet(x)) /\ Msgs(CqSet(y)) = Msgs(CqSet(x))
      /\ Ios(Present(y)) = Ios(Present(x))
  <2>1. Msgs(SqSet(y)) = Msgs(SqSet(x))
    BY <1>2, <1>3, <1>4 DEF Msgs
  <2>2. Msgs(CqSet(y)) = Msgs(CqSet(x))
    BY <1>2, <1>3, <1>4 DEF Msgs
  <2>3. Ios(Present(y)) = Ios(Present(x))
    BY <1>2, <1>3, <1>4 DEF Ios
  <2> QED
    BY <2>1, <2>2, <2>3
<1>6. OneMsg(y.cq)
  BY <1>1, OneMsgAppend DEF OneRing
<1>7. OneIo(y)
  BY <1>3 DEF OneIo, OneRing
<1> QED
  BY <1>5, <1>6, <1>7 DEF Alike, OneRing

\* A request leaves without one.
LEMMA AlikeLeave ==
  ASSUME NEW S, NEW x \in Rings(S), OneRing(x), NEW r \in x.kernel, r.op # "msg", r.op # "io",
         NEW y \in Rings(S), y.sq = x.sq, y.kernel = x.kernel \ {r}, y.cq = x.cq
  PROVE  Alike(x, y)
<1> PICK R : R = {r}
  OBVIOUS
<1>1. CqSet(y) = CqSet(x) /\ SqSet(y) = SqSet(x)
  BY DEF CqSet, SqSet
<1>2. Present(x) = Present(y) \cup R
  BY <1>1 DEF Present, CqSet, SqSet
<1>3. Ios(R) = {}
  BY MsgsOne
<1>4. Msgs(SqSet(y)) = Msgs(SqSet(x)) /\ Msgs(CqSet(y)) = Msgs(CqSet(x))
      /\ Ios(Present(y)) = Ios(Present(x))
  <2>1. Msgs(SqSet(y)) = Msgs(SqSet(x))
    BY <1>1, <1>2, <1>3 DEF Msgs
  <2>2. Msgs(CqSet(y)) = Msgs(CqSet(x))
    BY <1>1, <1>2, <1>3 DEF Msgs
  <2>3. Ios(Present(y)) = Ios(Present(x))
    BY <1>1, <1>2, <1>3 DEF Ios
  <2> QED
    BY <2>1, <2>2, <2>3
<1>5. OneIo(y)
  BY <1>2 DEF OneIo, OneRing
<1> QED
  BY <1>4, <1>5 DEF Alike, OneRing

\* cq_advance
LEMMA AlikeTake ==
  ASSUME NEW S, NEW x \in Rings(S), OneRing(x), x.cq # <<>>, NEW h, h = Head(x.cq), h.op # "msg", h.op # "io",
         NEW y \in Rings(S), y.sq = x.sq, y.kernel = x.kernel, y.cq = Tail(x.cq)
  PROVE  Alike(x, y)
<1> PICK R : R = {h}
  OBVIOUS
<1>1. x.cq \in Seq(S)
  BY DEF Rings
<1>2. CqSet(x) = CqSet(y) \cup R /\ SqSet(y) = SqSet(x)
  BY <1>1, ElementsTail DEF CqSet, SqSet
<1>3. Present(x) = Present(y) \cup R
  BY <1>2 DEF Present, CqSet, SqSet
<1>4. Msgs(R) = {} /\ Ios(R) = {}
  BY MsgsOne
<1>5. Msgs(SqSet(y)) = Msgs(SqSet(x)) /\ Msgs(CqSet(y)) = Msgs(CqSet(x))
      /\ Ios(Present(y)) = Ios(Present(x))
  <2>1. Msgs(SqSet(y)) = Msgs(SqSet(x))
    BY <1>2, <1>3, <1>4 DEF Msgs
  <2>2. Msgs(CqSet(y)) = Msgs(CqSet(x))
    BY <1>2, <1>3, <1>4 DEF Msgs
  <2>3. Ios(Present(y)) = Ios(Present(x))
    BY <1>2, <1>3, <1>4 DEF Ios
  <2> QED
    BY <2>1, <2>2, <2>3
<1>6. OneMsg(y.cq)
  BY <1>1, OneMsgTail DEF OneRing
<1>7. OneIo(y)
  BY <1>3 DEF OneIo, OneRing
<1> QED
  BY <1>5, <1>6, <1>7 DEF Alike, OneRing

\* ... of a message
LEMMA TakesMsg ==
  ASSUME NEW S, NEW x \in Rings(S), OneRing(x), x.cq # <<>>, NEW h, h = Head(x.cq), h.op = "msg",
         NEW k \in Coros, h.coro = k,
         NEW y \in Rings(S), y.sq = x.sq, y.kernel = x.kernel, y.cq = Tail(x.cq)
  PROVE  /\ Msgs(SqSet(y)) = Msgs(SqSet(x)) /\ Msgs(CqSet(y)) = Msgs(CqSet(x)) \ {k}
         /\ k \in Msgs(CqSet(x)) /\ Ios(Present(y)) = Ios(Present(x)) /\ OneRing(y)
<1> PICK R : R = {h}
  OBVIOUS
<1>1. x.cq \in Seq(S)
  BY DEF Rings
<1>2. CqSet(x) = CqSet(y) \cup R /\ SqSet(y) = SqSet(x)
  BY <1>1, ElementsTail DEF CqSet, SqSet
<1>3. Present(x) = Present(y) \cup R
  BY <1>2 DEF Present, CqSet, SqSet
<1>4. Msgs(R) = {k} /\ Ios(R) = {}
  BY MsgsOne
<1>5. OneMsg(y.cq) /\ \A s \in CqSet(y) : s.op = "msg" => s.coro # k
  BY <1>1, OneMsgTail DEF OneRing, CqSet
<1>6. k \notin Msgs(CqSet(y))
  BY <1>5 DEF Msgs
<1>7. Msgs(SqSet(y)) = Msgs(SqSet(x)) /\ Msgs(CqSet(x)) = Msgs(CqSet(y)) \cup {k}
      /\ Ios(Present(y)) = Ios(Present(x))
  <2>1. Msgs(SqSet(y)) = Msgs(SqSet(x))
    BY <1>2, <1>3, <1>4 DEF Msgs
  <2>2. Msgs(CqSet(x)) = Msgs(CqSet(y)) \cup {k}
    BY <1>2, <1>3, <1>4 DEF Msgs
  <2>3. Ios(Present(y)) = Ios(Present(x))
    BY <1>2, <1>3, <1>4 DEF Ios
  <2> QED
    BY <2>1, <2>2, <2>3
<1>8. OneIo(y)
  BY <1>3 DEF OneIo, OneRing
<1> QED
  BY <1>5, <1>6, <1>7, <1>8 DEF OneRing

\* ... of a request that resumes
LEMMA TakesIo ==
  ASSUME NEW S, NEW x \in Rings(S), OneRing(x), OnceIn(x), x.cq # <<>>, NEW h, h = Head(x.cq), h.op = "io",
         NEW k \in Coros, h.coro = k,
         NEW y \in Rings(S), y.sq = x.sq, y.kernel = x.kernel, y.cq = Tail(x.cq)
  PROVE  /\ Msgs(SqSet(y)) = Msgs(SqSet(x)) /\ Msgs(CqSet(y)) = Msgs(CqSet(x))
         /\ k \in Ios(Present(x)) /\ Ios(Present(y)) = Ios(Present(x)) \ {k} /\ OneRing(y)
<1> PICK R : R = {h}
  OBVIOUS
<1>1. x.cq \in Seq(S)
  BY DEF Rings
<1>2. CqSet(x) = CqSet(y) \cup R /\ SqSet(y) = SqSet(x)
  BY <1>1, ElementsTail DEF CqSet, SqSet
<1>3. Present(x) = Present(y) \cup R
  BY <1>2 DEF Present, CqSet, SqSet
<1>4. Msgs(R) = {} /\ Ios(R) = {k}
  BY MsgsOne
<1>5. h \notin Present(y)
  <2>1. Debt(h) = {h}
    BY DueOf DEF Counted
  <2>2. Owing(y) = Owing(x) \ Debt(h)
    BY TakesCqe
  <2>3. Owes(h)
    BY DEF Owes, Counted
  <2> QED
    BY <2>1, <2>2, <2>3 DEF Owing, Due
<1>6. \A s \in Present(y) : s.op = "io" => s.coro # k
  BY <1>3, <1>5 DEF OneRing, OneIo
<1>7. k \notin Ios(Present(y))
  BY <1>6 DEF Ios
<1>8. Msgs(SqSet(y)) = Msgs(SqSet(x)) /\ Msgs(CqSet(x)) = Msgs(CqSet(y))
      /\ Ios(Present(x)) = Ios(Present(y)) \cup {k}
  <2>1. Msgs(SqSet(y)) = Msgs(SqSet(x))
    BY <1>2, <1>3, <1>4 DEF Msgs
  <2>2. Msgs(CqSet(x)) = Msgs(CqSet(y))
    BY <1>2, <1>3, <1>4 DEF Msgs
  <2>3. Ios(Present(x)) = Ios(Present(y)) \cup {k}
    BY <1>2, <1>3, <1>4 DEF Ios
  <2> QED
    BY <2>1, <2>2, <2>3
<1>9. OneIo(y) /\ OneMsg(y.cq)
  BY <1>1, <1>3, OneMsgTail DEF OneIo, OneRing
<1> QED
  BY <1>7, <1>8, <1>9 DEF OneRing

\* io_uring_enter, on the submitting ring
LEMMA SubmitsMsgs ==
  ASSUME NEW S, NEW x \in Rings(S), OneRing(x), OnceIn(x),
         NEW y, y = [sq |-> <<>>, cq |-> x.cq, kernel |-> x.kernel \cup
                       {x.sq[i] : i \in {j \in DOMAIN x.sq : x.sq[j].op # "msg"}}]
  PROVE  /\ Msgs(SqSet(y)) = {} /\ Msgs(CqSet(y)) = Msgs(CqSet(x))
         /\ Ios(Present(y)) = Ios(Present(x)) /\ OneRing(y)
<1>1. /\ y \in Rings(S) /\ Present(y) \subseteq Present(x)
      /\ \A r \in Present(x) : r.op # "msg" => r \in Present(y)
      /\ y.sq = <<>> /\ y.cq = x.cq
  BY TakesSqes
<1>2. SqSet(y) = {} /\ CqSet(y) = CqSet(x)
  BY <1>1 DEF SqSet, CqSet, Elements
<1>3. Msgs(SqSet(y)) = {}
  BY <1>2 DEF Msgs
<1>4. Msgs(CqSet(y)) = Msgs(CqSet(x))
  BY <1>2
<1>5. Ios(Present(y)) = Ios(Present(x))
  BY <1>1 DEF Ios
<1>6. OneMsg(y.sq) /\ OneMsg(y.cq)
  BY <1>1 DEF OneMsg, OneRing
<1>7. OneIo(y)
  BY <1>1 DEF OneIo, OneRing
<1> QED
  BY <1>3, <1>4, <1>5, <1>6, <1>7 DEF OneRing

\* ... and on another one
LEMMA ReceivesMsgs ==
  ASSUME NEW S, NEW x \in Rings(S), OneRing(x), NEW m \in Seq(S), \A r \in Elements(m) : r.op = "msg",
         OneMsg(m), NEW M, M = Msgs(Elements(m)), Msgs(CqSet(x)) \cap M = {},
         \A r \in Elements(m) : r.coro \in Coros,
         NEW y \in Rings(S), y.sq = x.sq, y.kernel = x.kernel, y.cq = x.cq \o m
  PROVE  /\ Msgs(SqSet(y)) = Msgs(SqSet(x)) /\ Msgs(CqSet(y)) = Msgs(CqSet(x)) \cup M
         /\ Ios(Present(y)) = Ios(Present(x)) /\ OneRing(y)
<1>1. x.cq \in Seq(S)
  BY DEF Rings
<1>2. SqSet(y) = SqSet(x) /\ CqSet(y) = CqSet(x) \cup Elements(m)
  BY <1>1, ElementsConcat DEF SqSet, CqSet
<1>3. Present(y) = Present(x) \cup Elements(m)
  BY <1>2 DEF Present, SqSet, CqSet
<1>4. Msgs(CqSet(y)) = Msgs(CqSet(x)) \cup M
  BY <1>2 DEF Msgs
<1>5. Ios(Present(y)) = Ios(Present(x))
  BY <1>3 DEF Ios
<1>6. \A s \in Elements(x.cq), r \in Elements(m) : s.op = "msg" /\ r.op = "msg" => s.coro # r.coro
  <2> SUFFICES ASSUME NEW s \in Elements(x.cq), NEW r \in Elements(m), s.op = "msg", s.coro = r.coro
               PROVE  FALSE
    OBVIOUS
  <2>1. r.coro \in Coros /\ r.op = "msg"
    OBVIOUS
  <2>2. r.coro \in M
    BY <2>1 DEF Msgs
  <2>3. r.coro \in Msgs(CqSet(x))
    BY <2>1 DEF Msgs, CqSet
  <2> QED
    BY <2>2, <2>3
<1>7. OneMsg(y.cq)
  BY <1>1, <1>6, OneMsgConcat DEF OneRing
<1>8. OneIo(y)
  BY <1>3 DEF OneIo, OneRing
<1> QED
  BY <1>2, <1>4, <1>5, <1>7, <1>8 DEF OneRing

-----------------------------------------------------------------------------
\* Where the coroutines are, in a state.

CellsAre(c) ==
  /\ Cells[<<"running", c>>] = {loop[c].running} \ {None}
  /\ Cells[<<"reap_swap", c>>] = Elements(worker[c].reap_swap)
  /\ Cells[<<"co_spawn_queue", c>>] = Elements(inbox[c].queue)
  /\ Cells[<<"sq", c>>] = Msgs(SqSet(ring[c]))
  /\ Cells[<<"cq", c>>] = Msgs(CqSet(ring[c]))
  /\ IoF[c] = Ios(Present(ring[c]))

\* Before and after a step.
LEMMA CellsAt == ASSUME NEW c \in Ctx PROVE CellsAre(c) /\ CellsAre(c)'
<1>1. CellsAre(c)
  <2>1. /\ RunF[c] = {loop[c].running} \ {None} /\ SwapF[c] = Elements(worker[c].reap_swap)
        /\ QueueF[c] = Elements(inbox[c].queue) /\ SqF[c] = Msgs(SqSet(ring[c]))
        /\ CqF[c] = Msgs(CqSet(ring[c])) /\ IoF[c] = Ios(Present(ring[c]))
    BY DEF RunF, SwapF, QueueF, SqF, CqF, IoF
  <2> QED
    BY <2>1, SpotsOf DEF Grid, Cells, CellsAre
<1>2. CellsAre(c)'
  <2>1. /\ RunF'[c] = {loop'[c].running} \ {None} /\ SwapF'[c] = Elements(worker'[c].reap_swap)
        /\ QueueF'[c] = Elements(inbox'[c].queue) /\ SqF'[c] = Msgs(SqSet(ring'[c]))
        /\ CqF'[c] = Msgs(CqSet(ring'[c])) /\ IoF'[c] = Ios(Present(ring'[c]))
    BY DEF RunF, SwapF, QueueF, SqF, CqF, IoF
  <2> QED
    BY <2>1, SpotsOf DEF Grid, Cells, CellsAre
<1> QED
  BY <1>1, <1>2

CellsOK == Cells \in [Spots -> SUBSET Coros] /\ IoF \in [Ctx -> SUBSET Coros]

\* Types.
LEMMA CellsType == IoBase => CellsOK
<1> SUFFICES ASSUME IoBase PROVE CellsOK
  OBVIOUS
<1>1. CellsTyped
  BY CellTypes
<1> QED
  BY <1>1, GridType DEF CellsTyped, Cells, CellsOK

\* What changes in the rings, the frames and the queues.
SameRings == \A d \in Ctx : Alike(ring[d], ring'[d])

SameFrames == Live' = Live /\ Held' = Held /\ Prep' = Prep

SameQueues == \A d \in Ctx : /\ worker'[d].reap_swap = worker[d].reap_swap
                             /\ inbox'[d].queue = inbox[d].queue

SameRunning == \A d \in Ctx : loop'[d].running = loop[d].running

\* What was unique stays so.
LEMMA OnceStays ==
  ASSUME PlacesOK, SameRings, SameQueues
  PROVE  \A d \in Ctx : OnceEach(d)'
BY DEF PlacesOK, SameRings, SameQueues, OnceEach, Alike, OneRing

\* Flags stay.
LEMMA FlagsStay == ASSUME FlagsOK, SameFrames PROVE FlagsOK'
BY DEF FlagsOK, SameFrames

\* The requests that resume stay.
LEMMA IosStay ==
  ASSUME IoBase', PlacesOK, Held' \cup Prep' = Held \cup Prep,
         \A d \in Ctx : Ios(Present(ring'[d])) = Ios(Present(ring[d]))
  PROVE  Parted(IoF, Ctx, Held \cup Prep)'
<1>1. CellsOK'
  BY CellsType, PTL
<1>2. \A d \in Ctx : IoF'[d] = IoF[d]
  BY CellsAt DEF CellsAre
<1>3. Parted(IoF, Ctx, Held \cup Prep)
  BY DEF PlacesOK
<1> QED
  BY <1>1, <1>2, <1>3, PartSame DEF CellsOK

\* A step that moves no coroutine.
LEMMA PlacesStay ==
  ASSUME IoBase, IoBase', PlacesOK, SameRings, SameFrames, SameQueues, SameRunning
  PROVE  PlacesOK'
<1>1. CellsOK'
  BY CellsType, PTL
<1>2. ASSUME NEW r \in Spots PROVE Cells'[r] = Cells[r]
  <2>1. PICK d \in Ctx : \/ r = <<"running", d>> \/ r = <<"reap_swap", d>>
                         \/ r = <<"co_spawn_queue", d>> \/ r = <<"sq", d>> \/ r = <<"cq", d>>
    BY SpotOf
  <2>2. CellsAre(d) /\ CellsAre(d)'
    BY CellsAt
  <2> QED
    BY <2>1, <2>2 DEF CellsAre, SameRings, SameQueues, SameRunning, Alike
<1>3. Parted(Cells, Spots, Live \ Held)'
  BY <1>1, <1>2, PartSame DEF PlacesOK, SameFrames, CellsOK
<1>4. Parted(IoF, Ctx, Held \cup Prep)'
  BY IosStay DEF SameRings, Alike, SameFrames
<1> QED
  BY <1>3, <1>4, OnceStays, FlagsStay DEF PlacesOK

\* No ring changes.
LEMMA RingsKept == ASSUME PlacesOK, ring' = ring PROVE SameRings
BY DEF PlacesOK, OnceEach, SameRings, Alike, OneRing

\* One does, but has the same coroutines.
LEMMA RingKept ==
  ASSUME PlacesOK, NEW c \in Ctx, Alike(ring[c], ring'[c]), \A d \in Ctx \ {c} : ring'[d] = ring[d]
  PROVE  SameRings
BY DEF PlacesOK, OnceEach, SameRings, Alike, OneRing

\* The frames change in nothing but their fuel.
LEMMA FramesKept ==
  ASSUME IoBase, coro' = coro \/ \E k \in Coros : Spend(k)
  PROVE  SameFrames
<1>1. coro \in [Coros -> Frames]
  BY DEF IoBase, IoTypes
<1>2. \A j \in Coros : coro'[j].st = coro[j].st /\ coro'[j].handle = coro[j].handle
                       /\ coro'[j].prepared = coro[j].prepared
  BY <1>1 DEF Frames, Spend
<1> QED
  BY <1>2 DEF SameFrames, Live, Held, Prep

\* while (!will_stop)
LEMMA RoundRunning == ASSUME IoBase, NEW c \in Ctx, NextRound(c) PROVE SameRunning
<1>1. loop \in [Ctx -> Loops]
  BY DEF IoBase, IoTypes
<1>2. CASE loop[c].will_stop
  BY <1>1, <1>2 DEF SameRunning, Loops, NextRound
<1>3. CASE ~ loop[c].will_stop
  BY <1>1, <1>3 DEF SameRunning, Loops, NextRound
<1> QED
  BY <1>2, <1>3

\* The steps of the loop between its parts.
LEMMA PlacesMoves ==
  ASSUME IoBase, IoBase', PlacesOK, NEW c \in Ctx, UNCHANGED setup,
         \/ PassBarrier(c) \/ WaitReturns(c) \/ Peek(c) \/ BadPeek(c)
         \/ PollDone(c) \/ BadPollDone(c) \/ DecideOver(c)
         \/ Start(c) \/ Deinit(c) \/ BarrierTimeout(c)
  PROVE  PlacesOK'
<1>1. worker' = worker /\ inbox' = inbox /\ ring' = ring /\ coro' = coro
  BY DEF PassBarrier, WaitReturns, Peek, BadPeek, PollDone, BadPollDone,
         DecideOver, Start, Deinit, BarrierTimeout
<1>2. SameRunning
  <2>1. loop \in [Ctx -> Loops]
    BY DEF IoBase, IoTypes
  <2>2. CASE PassBarrier(c) \/ BadPollDone(c) \/ Start(c) \/ Deinit(c) \/ BarrierTimeout(c)
    BY <2>1, <2>2 DEF SameRunning, Loops, PassBarrier, BadPollDone, Start, Deinit,
                      BarrierTimeout, Goto
  <2>3. CASE WaitReturns(c)
    BY <2>1, <2>3 DEF SameRunning, Loops, WaitReturns, Goto
  <2>4. CASE PollDone(c)
    BY <2>4, RoundRunning DEF PollDone
  <2>5. CASE Peek(c)
    <3>1. CASE NextRound(c)
      BY <3>1, RoundRunning
    <3>2. CASE Goto(c, "poll") \/ Goto(c, "bad_peek")
      BY <2>1, <3>2 DEF SameRunning, Loops, Goto
    <3> QED
      BY <2>5, <3>1, <3>2 DEF Peek
  <2>6. CASE BadPeek(c)
    BY <2>1, <2>6 DEF SameRunning, Loops, BadPeek
  <2>7. CASE DecideOver(c)
    BY <2>1, <2>7 DEF SameRunning, Loops, DecideOver
  <2> QED
    BY <2>2, <2>3, <2>4, <2>5, <2>6, <2>7
<1>3. SameRings
  BY <1>1, RingsKept
<1>4. SameFrames
  BY <1>1, FramesKept
<1>5. SameQueues
  BY <1>1 DEF SameQueues
<1> QED
  BY <1>2, <1>3, <1>4, <1>5, PlacesStay

\* io_context_stop(), and the second half of co_spawn_safe_eventfd
LEMMA PlacesStopWrite ==
  ASSUME IoBase, IoBase', PlacesOK, NEW c \in Ctx, UNCHANGED setup,
         StopContext(c) \/ EventWrite(c)
  PROVE  PlacesOK'
<1>1. worker' = worker /\ ring' = ring
  BY DEF StopContext, EventWrite
<1>2. SameRunning
  <2>1. loop \in [Ctx -> Loops]
    BY DEF IoBase, IoTypes
  <2> QED
    BY <2>1 DEF SameRunning, Loops, StopContext, EventWrite
<1>3. SameRings
  BY <1>1, RingsKept
<1>4. SameFrames
  <2>1. loop[c].running \in Coros \cup {None}
    BY IoAt DEF Loops
  <2> QED
    BY <2>1, FramesKept DEF StopContext, EventWrite, May
<1>5. SameQueues
  <2>1. inbox \in [Ctx -> Inboxes]
    BY DEF IoBase, IoTypes
  <2>2. \A d \in Ctx : inbox'[d].queue = inbox[d].queue
    <3>1. CASE StopContext(c)
      BY <3>1 DEF StopContext
    <3>2. CASE EventWrite(c)
      <4>1. PICK t : inbox' = [inbox EXCEPT ![t].event = 1]
        BY <3>2 DEF EventWrite
      <4> QED
        BY <2>1, <4>1 DEF Inboxes
    <3> QED
      BY <3>1, <3>2
  <2> QED
    BY <1>1, <2>2 DEF SameQueues
<1> QED
  BY <1>2, <1>3, <1>4, <1>5, PlacesStay

\* What Issue does to a ring and a queue.
LEMMA IssueEffect ==
  ASSUME IoBase, NEW c \in Ctx, NEW reqs, Issue(c, reqs)
  PROVE  /\ \A d \in Ctx : worker'[d].reap_swap = worker[d].reap_swap
         /\ \A d \in Ctx \ {c} : ring'[d] = ring[d]
         /\ ring'[c].sq = ring[c].sq \o reqs /\ ring'[c].kernel = ring[c].kernel
         /\ ring'[c].cq = ring[c].cq
<1>1. worker \in [Ctx -> Workers] /\ ring \in [Ctx -> Rings(Requests)]
  BY IoAt
<1>2. \A d \in Ctx : worker'[d].reap_swap = worker[d].reap_swap
  BY <1>1 DEF Issue, Workers
<1>3. \A d \in Ctx \ {c} : ring'[d] = ring[d]
  BY <1>1 DEF Issue
<1>4. ring'[c].sq = ring[c].sq \o reqs /\ ring'[c].kernel = ring[c].kernel
         /\ ring'[c].cq = ring[c].cq
  BY <1>1 DEF Issue, Rings
<1> QED
  BY <1>2, <1>3, <1>4

\* Types after a step.
RingTypes == ring \in [Ctx -> Rings(Requests)]

\* Likewise.
LEMMA RingTyped == IoBase => RingTypes
BY DEF IoBase, RingsOK, RingTypes

\* Requests do not change their type.
LEMMA RequestsStay == UNCHANGED setup => Requests' = Requests
BY DEF Requests, Resuming, Counted

\* Both together, at a context.
LEMMA RingsTyped ==
  ASSUME IoBase, IoBase', UNCHANGED setup, NEW c \in Ctx
  PROVE  ring[c] \in Rings(Requests) /\ ring'[c] \in Rings(Requests)
<1>1. RingTypes /\ RingTypes'
  BY RingTyped, PTL
<1>2. Requests' = Requests
  BY RequestsStay
<1> QED
  BY <1>1, <1>2 DEF RingTypes

\* One sqe.
LEMMA IssueOneEffect ==
  ASSUME IoBase, IoBase', UNCHANGED setup, NEW c \in Ctx, NEW r \in Requests, Issue(c, <<r>>)
  PROVE  /\ \A d \in Ctx : worker'[d].reap_swap = worker[d].reap_swap
         /\ \A d \in Ctx \ {c} : ring'[d] = ring[d]
         /\ ring'[c].sq = Append(ring[c].sq, r) /\ ring'[c].kernel = ring[c].kernel
         /\ ring'[c].cq = ring[c].cq
<1>1. ring[c] \in Rings(Requests)
  BY RingsTyped
<1>2. ring[c].sq \in Seq(Requests)
  BY <1>1 DEF Rings
<1>3. ring[c].sq \o <<r>> = Append(ring[c].sq, r)
  BY <1>2, ElementsAppend
<1> QED
  BY <1>3, IssueEffect

\* One sqe that carries no coroutine.
LEMMA IssueQuiet ==
  ASSUME IoBase, IoBase', PlacesOK, UNCHANGED setup, NEW c \in Ctx, NEW r \in Requests,
         r.op # "msg", r.op # "io", Issue(c, <<r>>)
  PROVE  SameRings /\ \A d \in Ctx : worker'[d].reap_swap = worker[d].reap_swap
<1>1. /\ \A d \in Ctx : worker'[d].reap_swap = worker[d].reap_swap
      /\ \A d \in Ctx \ {c} : ring'[d] = ring[d]
      /\ ring'[c].sq = Append(ring[c].sq, r) /\ ring'[c].kernel = ring[c].kernel
      /\ ring'[c].cq = ring[c].cq
  BY IssueOneEffect
<1>2. ring[c] \in Rings(Requests) /\ ring'[c] \in Rings(Requests)
  BY RingsTyped
<1>3. OneRing(ring[c])
  BY DEF PlacesOK, OnceEach, OneRing
<1>4. Alike(ring[c], ring'[c])
  BY <1>1, <1>2, <1>3, AlikePut
<1> QED
  BY <1>1, <1>4, RingKept

\* run()
LEMMA PlacesRun ==
  ASSUME IoBase, IoBase', PlacesOK, NEW c \in Ctx, UNCHANGED setup, Run(c)
  PROVE  PlacesOK'
<1>1. SameRunning
  BY RoundRunning DEF Run
<1>2. SameFrames
  BY FramesKept DEF Run
<1>3. inbox' = inbox
  BY DEF Run
<1>4. SameRings /\ \A d \in Ctx : worker'[d].reap_swap = worker[d].reap_swap
  <2>1. CASE UNCHANGED <<worker, ring>>
    BY <2>1, RingsKept
  <2>2. CASE Issue(c, <<Req("event", None, None)>>)
    <3>1. PICK r : r = Req("event", None, None)
      OBVIOUS
    <3>2. r.op = "event" /\ r \in Requests
      <4>1. setup.fuel \in Nat
        BY IoAt
      <4> QED
        BY <3>1, <4>1 DEF Req, Requests, Resuming, Counted
    <3>3. Issue(c, <<r>>)
      BY <2>2, <3>1
    <3> QED
      BY <3>2, <3>3, IssueQuiet
  <2> QED
    BY <2>1, <2>2 DEF Run
<1> QED
  BY <1>1, <1>2, <1>3, <1>4, PlacesStay DEF SameQueues

\* lazy::xxx(...).detach()
LEMMA PlacesDetach ==
  ASSUME IoBase, IoBase', PlacesOK, NEW c \in Ctx, UNCHANGED setup, Detach(c)
  PROVE  PlacesOK'
<1>1. PICK k : k = loop[c].running
  OBVIOUS
<1>2. k \in Coros
  BY <1>1, IoRunning DEF Detach, May
<1>3. SameFrames
  BY <1>1, <1>2, FramesKept DEF Detach
<1>4. PICK r : r = Req("skip", k, None)
  OBVIOUS
<1>5. r \in Requests /\ r.op = "skip"
  BY <1>2, <1>4, ReqIs
<1>6. Issue(c, <<r>>) /\ inbox' = inbox /\ loop' = loop
  BY <1>1, <1>4 DEF Detach
<1>7. SameRings /\ \A d \in Ctx : worker'[d].reap_swap = worker[d].reap_swap
  BY <1>5, <1>6, IssueQuiet
<1> QED
  BY <1>3, <1>6, <1>7, PlacesStay DEF SameQueues, SameRunning

\* poll_completion takes a cqe
LEMMA SeenEffect ==
  ASSUME IoBase, NEW c \in Ctx, Seen(c)
  PROVE  /\ SameRunning /\ \A d \in Ctx \ {c} : ring'[d] = ring[d]
         /\ ring'[c].sq = ring[c].sq /\ ring'[c].kernel = ring[c].kernel /\ ring'[c].cq = Tail(ring[c].cq)
<1>1. loop \in [Ctx -> Loops] /\ ring \in [Ctx -> Rings(Requests)]
  BY IoAt
<1>2. SameRunning
  BY <1>1 DEF Seen, SameRunning, Loops
<1>3. /\ \A d \in Ctx \ {c} : ring'[d] = ring[d]
      /\ ring'[c].sq = ring[c].sq /\ ring'[c].kernel = ring[c].kernel /\ ring'[c].cq = Tail(ring[c].cq)
  BY <1>1 DEF Seen, Rings
<1> QED
  BY <1>2, <1>3

\* task_info_ptr__link_sqe
LEMMA PlacesLink ==
  ASSUME IoBase, IoBase', PlacesOK, NEW c \in Ctx, UNCHANGED setup, HandleLink(c)
  PROVE  PlacesOK'
<1>1. inbox' = inbox /\ coro' = coro /\ Seen(c) /\ Reaping(c, "link")
  BY DEF HandleLink
<1>2. ring[c].cq # <<>> /\ Head(ring[c].cq).op = "link"
  BY <1>1, ReapingAt
<1>3. /\ SameRunning /\ \A d \in Ctx \ {c} : ring'[d] = ring[d]
      /\ ring'[c].sq = ring[c].sq /\ ring'[c].kernel = ring[c].kernel /\ ring'[c].cq = Tail(ring[c].cq)
  BY <1>1, SeenEffect
<1>4. ring[c] \in Rings(Requests) /\ ring'[c] \in Rings(Requests)
  BY RingsTyped
<1>5. OneRing(ring[c])
  BY DEF PlacesOK, OnceEach, OneRing
<1>6. SameRings
  BY <1>2, <1>3, <1>4, <1>5, AlikeTake, RingKept
<1>7. \A d \in Ctx : worker'[d].reap_swap = worker[d].reap_swap
  <2>1. worker \in [Ctx -> Workers]
    BY IoAt
  <2> QED
    BY <2>1 DEF HandleLink, Workers
<1>8. SameFrames
  BY <1>1, FramesKept
<1> QED
  BY <1>1, <1>3, <1>6, <1>7, <1>8, PlacesStay DEF SameQueues

\* The kernel posts r's cqe, or none.
LEMMA KernelRings ==
  ASSUME IoBase, IoBase', PlacesOK, NEW c \in Ctx, UNCHANGED setup, NEW r \in ring[c].kernel, r.op # "msg",
         \/ ring' = [Leaves(c, r) EXCEPT ![c].cq = Append(@, r)]
         \/ r.op # "io" /\ ring' = Leaves(c, r)
  PROVE  SameRings
<1>1. ring[c] \in Rings(Requests) /\ ring'[c] \in Rings(Requests)
  BY RingsTyped
<1>2. OneRing(ring[c])
  BY DEF PlacesOK, OnceEach, OneRing
<1>3. ring \in [Ctx -> Rings(Requests)]
  BY IoAt
<1>4. CASE ring' = [Leaves(c, r) EXCEPT ![c].cq = Append(@, r)]
  <2>1. /\ \A d \in Ctx \ {c} : ring'[d] = ring[d]
        /\ ring'[c].sq = ring[c].sq /\ ring'[c].kernel = ring[c].kernel \ {r}
        /\ ring'[c].cq = Append(ring[c].cq, r)
    BY <1>3, <1>4 DEF Leaves, Rings
  <2> QED
    BY <1>1, <1>2, <2>1, AlikePost, RingKept
<1>5. CASE r.op # "io" /\ ring' = Leaves(c, r)
  <2>1. /\ \A d \in Ctx \ {c} : ring'[d] = ring[d]
        /\ ring'[c].sq = ring[c].sq /\ ring'[c].kernel = ring[c].kernel \ {r}
        /\ ring'[c].cq = ring[c].cq
    BY <1>3, <1>5 DEF Leaves, Rings
  <2> QED
    BY <1>1, <1>2, <1>5, <2>1, AlikeLeave, RingKept
<1> QED
  BY <1>4, <1>5

\* The kernel.
LEMMA PlacesKernel ==
  ASSUME IoBase, IoBase', PlacesOK, NEW c \in Ctx, UNCHANGED setup, Kernel(c)
  PROVE  PlacesOK'
<1>1. worker' = worker /\ loop' = loop /\ coro' = coro
  BY DEF Kernel, KernelIo, KernelSkip, KernelEvent
<1>2. \A d \in Ctx : inbox'[d].queue = inbox[d].queue
  <2>1. inbox \in [Ctx -> Inboxes]
    BY IoAt
  <2> QED
    BY <2>1 DEF Inboxes, Kernel, KernelIo, KernelSkip, KernelEvent
<1>3. SameRings
  <2>1. CASE KernelIo(c)
    BY <2>1, KernelRings DEF KernelIo
  <2>2. CASE KernelSkip(c)
    BY <2>2, KernelRings DEF KernelSkip
  <2>3. CASE KernelEvent(c)
    BY <2>3, KernelRings DEF KernelEvent
  <2> QED
    BY <2>1, <2>2, <2>3 DEF Kernel
<1>4. SameFrames
  BY <1>1, FramesKept
<1> QED
  BY <1>1, <1>2, <1>3, <1>4, PlacesStay DEF SameQueues, SameRunning

-----------------------------------------------------------------------------
\* Steps that move a coroutine.

\* A queue of different coroutines after its first left ...
LEMMA TakesFirst ==
  ASSUME NEW q \in Seq(Coros), q # <<>>, Uniq(q), NEW k, k = Head(q)
  PROVE  /\ k \in Coros /\ k \in Elements(q) /\ Uniq(Tail(q)) /\ Elements(Tail(q)) = Elements(q) \ {k}
<1>1. /\ Head(q) \in Coros /\ InSeq(Head(q), q) /\ Tail(q) \in Seq(Coros) /\ Uniq(Tail(q))
      /\ \A y : InSeq(y, Tail(q)) <=> InSeq(y, q) /\ y # Head(q)
  BY TailIn
<1>2. \A y : (InSeq(y, q) <=> y \in Elements(q)) /\ (InSeq(y, Tail(q)) <=> y \in Elements(Tail(q)))
  BY <1>1, ElementsOf
<1> QED
  BY <1>1, <1>2

\* ... and after another arrived.
LEMMA PutsLast ==
  ASSUME NEW q \in Seq(Coros), Uniq(q), NEW k \in Coros, k \notin Elements(q)
  PROVE  Uniq(Append(q, k)) /\ Elements(Append(q, k)) = Elements(q) \cup {k}
<1>1. ~ InSeq(k, q)
  BY ElementsOf
<1> QED
  BY <1>1, AppendIn, ElementsAppend

\* config::swap_capacity is enough for all coroutines.
Roomy == Cardinality(Coros) <= SwapCapacity

\* A queue of some of them, each once, is not full.
LEMMA QueueRoom ==
  ASSUME IoConstants, Roomy, NEW q \in Seq(Coros), Uniq(q), NEW k \in Coros, k \notin Elements(q)
  PROVE  Len(q) < SwapCapacity
<1>1. IsFiniteSet(Coros) /\ SwapCapacity \in Nat
  BY IoConstantsFacts
<1>2. PICK n : n = Len(q)
  OBVIOUS
<1>3. n \in Nat /\ DOMAIN q = 1..n
  BY <1>2
<1>4. PICK T : T = Coros \ {k}
  OBVIOUS
<1>5. IsFiniteSet(T) /\ Cardinality(T) = Cardinality(Coros) - 1 /\ Cardinality(Coros) \in Nat
  BY <1>1, <1>4, FS_RemoveElement, FS_CardinalityType
<1>6. q \in [1..n -> T]
  <2>1. \A i \in 1..n : q[i] \in Coros /\ q[i] # k
    BY <1>3 DEF Elements
  <2>2. q \in [1..n -> Coros]
    BY <1>2
  <2> QED
    BY <1>4, <2>1, <2>2
<1>7. IsInjective(q)
  BY DEF Uniq, IsInjective
<1>8. q \in Injection(1..n, T)
  BY <1>6, <1>7 DEF Injection
<1>9. Cardinality(1..n) <= Cardinality(T)
  BY <1>5, <1>8, FS_Injection
<1>10. Cardinality(1..n) = n
  BY <1>3, FS_Interval
<1> QED
  BY <1>1, <1>2, <1>3, <1>5, <1>9, <1>10 DEF Roomy

\* forward_task, when there is room
LEMMA ForwardAppends ==
  ASSUME IoConstants, Roomy, NEW q \in Seq(Coros), Uniq(q), NEW k \in Coros, k \notin Elements(q)
  PROVE  /\ Forward(q, k) = Append(q, k)
         /\ Uniq(Forward(q, k)) /\ Elements(Forward(q, k)) = Elements(q) \cup {k}
<1>1. Len(q) < SwapCapacity /\ SwapCapacity \in Nat
  BY QueueRoom, IoConstantsFacts
<1>2. \A i \in DOMAIN q : i # Len(q) + 1 - SwapCapacity
  BY <1>1
<1>3. [i \in DOMAIN q |-> IF i = Len(q) + 1 - SwapCapacity THEN k ELSE q[i]] = q
  BY <1>2
<1>4. Forward(q, k) = Append(q, k)
  BY <1>3 DEF Forward
<1> QED
  BY <1>4, PutsLast

\* k goes from p to q.
LEMMA CellsMove ==
  ASSUME IoBase', PlacesOK, NEW p \in Spots, NEW q \in Spots, p # q, NEW k, k \in Cells[p],
         Cells'[p] = Cells[p] \ {k}, Cells'[q] = Cells[q] \cup {k},
         \A r \in Spots \ {p, q} : Cells'[r] = Cells[r], Live' \ Held' = Live \ Held
  PROVE  Parted(Cells, Spots, Live \ Held)'
<1>1. CellsOK'
  BY CellsType, PTL
<1>2. PICK F : F = Cells
  OBVIOUS
<1>3. PICK G : G = Cells'
  OBVIOUS
<1>4. PICK L : L = Live \ Held
  OBVIOUS
<1>5. Parted(F, Spots, L) /\ G \in [Spots -> SUBSET Coros]
  BY <1>1, <1>2, <1>3, <1>4 DEF PlacesOK, CellsOK
<1>6. /\ k \in F[p] /\ G[p] = F[p] \ {k} /\ G[q] = F[q] \cup {k}
      /\ \A r \in Spots \ {p, q} : G[r] = F[r]
  BY <1>2, <1>3
<1>7. Parted(G, Spots, L)
  BY <1>5, <1>6, PartMove
<1> QED
  BY <1>3, <1>4, <1>7

\* k comes to q.
LEMMA CellsPut ==
  ASSUME IoBase', PlacesOK, NEW q \in Spots, NEW k \in Coros, k \notin Live \ Held,
         Cells'[q] = Cells[q] \cup {k}, \A r \in Spots \ {q} : Cells'[r] = Cells[r],
         Live' \ Held' = (Live \ Held) \cup {k}
  PROVE  Parted(Cells, Spots, Live \ Held)'
<1>1. CellsOK'
  BY CellsType, PTL
<1>2. PICK F : F = Cells
  OBVIOUS
<1>3. PICK G : G = Cells'
  OBVIOUS
<1>4. PICK L : L = Live \ Held
  OBVIOUS
<1>5. Parted(F, Spots, L) /\ G \in [Spots -> SUBSET Coros]
  BY <1>1, <1>2, <1>3, <1>4 DEF PlacesOK, CellsOK
<1>6. G[q] = F[q] \cup {k} /\ \A r \in Spots \ {q} : G[r] = F[r]
  BY <1>2, <1>3
<1>7. Parted(G, Spots, L \cup {k})
  BY <1>4, <1>5, <1>6, PartPut
<1> QED
  BY <1>3, <1>4, <1>7

\* k leaves p.
LEMMA CellsDrop ==
  ASSUME IoBase', PlacesOK, NEW p \in Spots, NEW k, k \in Cells[p],
         Cells'[p] = Cells[p] \ {k}, \A r \in Spots \ {p} : Cells'[r] = Cells[r],
         Live' \ Held' = (Live \ Held) \ {k}
  PROVE  Parted(Cells, Spots, Live \ Held)'
<1>1. CellsOK'
  BY CellsType, PTL
<1>2. PICK F : F = Cells
  OBVIOUS
<1>3. PICK G : G = Cells'
  OBVIOUS
<1>4. PICK L : L = Live \ Held
  OBVIOUS
<1>5. Parted(F, Spots, L) /\ G \in [Spots -> SUBSET Coros]
  BY <1>1, <1>2, <1>3, <1>4 DEF PlacesOK, CellsOK
<1>6. k \in F[p] /\ G[p] = F[p] \ {k} /\ \A r \in Spots \ {p} : G[r] = F[r]
  BY <1>2, <1>3
<1>7. Parted(G, Spots, L \ {k})
  BY <1>5, <1>6, PartDrop
<1> QED
  BY <1>3, <1>4, <1>7

\* Who is where is live, and its handle is not in an awaiter.
LEMMA CellsLive ==
  ASSUME PlacesOK, NEW p \in Spots, NEW k, k \in Cells[p]
  PROVE  /\ k \in Coros /\ k \in Live /\ k \notin Held
         /\ \A q \in Spots : k \in Cells[q] => q = p
BY DEF PlacesOK, Parted

\* A place where nothing changes.
LEMMA CellKept ==
  ASSUME NEW r \in Spots,
         \A d \in Ctx : r = <<"running", d>> => loop'[d].running = loop[d].running,
         \A d \in Ctx : r = <<"reap_swap", d>> => worker'[d].reap_swap = worker[d].reap_swap,
         \A d \in Ctx : r = <<"co_spawn_queue", d>> => inbox'[d].queue = inbox[d].queue,
         \A d \in Ctx : r = <<"sq", d>> => Msgs(SqSet(ring'[d])) = Msgs(SqSet(ring[d])),
         \A d \in Ctx : r = <<"cq", d>> => Msgs(CqSet(ring'[d])) = Msgs(CqSet(ring[d]))
  PROVE  Cells'[r] = Cells[r]
<1>1. PICK d \in Ctx : \/ r = <<"running", d>> \/ r = <<"reap_swap", d>>
                       \/ r = <<"co_spawn_queue", d>> \/ r = <<"sq", d>> \/ r = <<"cq", d>>
  BY SpotOf
<1>2. CellsAre(d) /\ CellsAre(d)'
  BY CellsAt
<1> QED
  BY <1>1, <1>2 DEF CellsAre

\* do_worker_part takes a task
LEMMA PlacesWork ==
  ASSUME IoBase, IoBase', PlacesOK, NEW c \in Ctx, UNCHANGED setup, WorkOnce(c)
  PROVE  PlacesOK'
<1>1. /\ worker \in [Ctx -> Workers] /\ loop \in [Ctx -> Loops] /\ LoopOK(c)
      /\ worker[c].reap_swap \in Seq(Coros) /\ None \notin Coros /\ loop[c].num \in Nat
  BY IoAt DEF Workers, Loops
<1>2. /\ loop[c].running = None /\ loop[c].num > 0 /\ UNCHANGED <<inbox, ring, coro>>
      /\ loop' = [loop EXCEPT ![c].running = Head(worker[c].reap_swap), ![c].num = @ - 1]
      /\ worker' = [worker EXCEPT ![c].reap_swap = Tail(@)]
  BY DEF WorkOnce
<1>3. worker[c].reap_swap # <<>>
  BY <1>1, <1>2 DEF LoopOK
<1>4. PICK k : k = Head(worker[c].reap_swap)
  OBVIOUS
<1>5. Uniq(worker[c].reap_swap)
  BY DEF PlacesOK, OnceEach
<1>6. /\ k \in Coros /\ k \in Elements(worker[c].reap_swap) /\ Uniq(Tail(worker[c].reap_swap))
      /\ Elements(Tail(worker[c].reap_swap)) = Elements(worker[c].reap_swap) \ {k}
  BY <1>1, <1>3, <1>4, <1>5, TakesFirst
<1>7. /\ loop'[c].running = k /\ \A d \in Ctx \ {c} : loop'[d].running = loop[d].running
      /\ worker'[c].reap_swap = Tail(worker[c].reap_swap)
      /\ \A d \in Ctx \ {c} : worker'[d].reap_swap = worker[d].reap_swap
  BY <1>1, <1>2, <1>4 DEF Workers, Loops
<1>8. CellsAre(c) /\ CellsAre(c)'
  BY CellsAt
<1>9. SameRings /\ SameFrames
  BY <1>2, RingsKept, FramesKept
<1>10. PICK p : p = <<"reap_swap", c>>
  OBVIOUS
<1>11. PICK q : q = <<"running", c>>
  OBVIOUS
<1>12. p \in Spots /\ q \in Spots /\ p # q
  BY <1>10, <1>11, SpotsOf
<1>13. k \in Cells[p] /\ Cells'[p] = Cells[p] \ {k}
  BY <1>6, <1>7, <1>8, <1>10 DEF CellsAre
<1>14. Cells'[q] = Cells[q] \cup {k}
  BY <1>1, <1>2, <1>6, <1>7, <1>8, <1>11 DEF CellsAre
<1>15. \A r \in Spots \ {p, q} : Cells'[r] = Cells[r]
  BY <1>2, <1>7, <1>10, <1>11, CellKept
<1>16. Parted(Cells, Spots, Live \ Held)'
  BY <1>9, <1>12, <1>13, <1>14, <1>15, CellsMove DEF SameFrames
<1>17. Parted(IoF, Ctx, Held \cup Prep)'
  BY <1>2, <1>9, IosStay DEF SameFrames
<1>18. \A d \in Ctx : OnceEach(d)'
  BY <1>2, <1>6, <1>7 DEF PlacesOK, OnceEach
<1>19. FlagsOK'
  BY <1>9, FlagsStay DEF PlacesOK
<1> QED
  BY <1>16, <1>17, <1>18, <1>19 DEF PlacesOK

\* await_suspend: the coroutine is not running any more.
LEMMA SuspendEffect ==
  ASSUME IoBase, NEW c \in Ctx, NEW k, k = loop[c].running, k # None, Suspend(c)
  PROVE  /\ k \in Coros /\ loop'[c].running = None
         /\ \A d \in Ctx \ {c} : loop'[d].running = loop[d].running
         /\ <<"running", c>> \in Spots
         /\ k \in Cells[<<"running", c>>] /\ Cells'[<<"running", c>>] = Cells[<<"running", c>>] \ {k}
<1>1. k \in Coros /\ loop \in [Ctx -> Loops]
  BY IoRunning
<1>2. loop'[c].running = None /\ \A d \in Ctx \ {c} : loop'[d].running = loop[d].running
  BY <1>1 DEF Suspend, Loops
<1>3. CellsAre(c) /\ CellsAre(c)'
  BY CellsAt
<1> QED
  BY <1>1, <1>2, <1>3, SpotsOf DEF CellsAre

\* co_await lazy::yield()
LEMMA PlacesYield ==
  ASSUME IoBase, IoBase', PlacesOK, Roomy, NEW c \in Ctx, UNCHANGED setup, Yield(c)
  PROVE  PlacesOK'
<1>1. PICK k : k = loop[c].running
  OBVIOUS
<1>2. /\ k # None /\ Suspend(c) /\ ForwardTask(c, k) /\ Spend(k) /\ UNCHANGED <<inbox, ring>>
  BY <1>1 DEF Yield, May
<1>3. PICK p : p = <<"running", c>>
  OBVIOUS
<1>4. PICK q : q = <<"reap_swap", c>>
  OBVIOUS
<1>5. /\ k \in Coros /\ loop'[c].running = None
      /\ \A d \in Ctx \ {c} : loop'[d].running = loop[d].running
      /\ p \in Spots /\ k \in Cells[p] /\ Cells'[p] = Cells[p] \ {k}
  BY <1>1, <1>2, <1>3, SuspendEffect
<1>6. q \in Spots /\ p # q
  BY <1>3, <1>4, SpotsOf
<1>7. CellsAre(c) /\ CellsAre(c)'
  BY CellsAt
<1>8. /\ worker \in [Ctx -> Workers] /\ worker[c].reap_swap \in Seq(Coros) /\ IoConstants
  BY IoAt DEF Workers, IoBase
<1>9. Uniq(worker[c].reap_swap) /\ k \notin Elements(worker[c].reap_swap)
  BY <1>4, <1>5, <1>6, <1>7, CellsLive DEF PlacesOK, OnceEach, CellsAre
<1>10. /\ worker'[c].reap_swap = Forward(worker[c].reap_swap, k)
       /\ \A d \in Ctx \ {c} : worker'[d].reap_swap = worker[d].reap_swap
  BY <1>2, <1>8 DEF ForwardTask, Workers
<1>11. Uniq(worker'[c].reap_swap) /\ Elements(worker'[c].reap_swap) = Elements(worker[c].reap_swap) \cup {k}
  BY <1>5, <1>8, <1>9, <1>10, ForwardAppends
<1>12. SameRings /\ SameFrames
  BY <1>2, <1>5, RingsKept, FramesKept
<1>13. Cells'[q] = Cells[q] \cup {k}
  BY <1>4, <1>7, <1>11 DEF CellsAre
<1>14. \A r \in Spots \ {p, q} : Cells'[r] = Cells[r]
  BY <1>2, <1>3, <1>4, <1>5, <1>10, CellKept
<1>15. Parted(Cells, Spots, Live \ Held)'
  BY <1>5, <1>6, <1>12, <1>13, <1>14, CellsMove DEF SameFrames
<1>16. Parted(IoF, Ctx, Held \cup Prep)'
  BY <1>2, <1>12, IosStay DEF SameFrames
<1>17. \A d \in Ctx : OnceEach(d)'
  BY <1>2, <1>10, <1>11 DEF PlacesOK, OnceEach
<1>18. FlagsOK'
  BY <1>12, FlagsStay DEF PlacesOK
<1> QED
  BY <1>15, <1>16, <1>17, <1>18 DEF PlacesOK

\* What a frame's flags become.
LEMMA FlagSteps ==
  ASSUME IoBase, NEW k \in Coros
  PROVE  /\ coro' = [coro EXCEPT ![k].st = "done"] => Live' = Live \ {k} /\ Held' = Held /\ Prep' = Prep
         /\ coro' = [coro EXCEPT ![k].fuel = @ - 1, ![k].handle = TRUE]
              => Live' = Live /\ Held' = Held \cup {k} /\ Prep' = Prep
         /\ coro' = [coro EXCEPT ![k].fuel = @ - 1, ![k].prepared = TRUE]
              => Live' = Live /\ Held' = Held /\ Prep' = Prep \cup {k}
         /\ coro' = [coro EXCEPT ![k].handle = TRUE, ![k].prepared = FALSE]
              => Live' = Live /\ Held' = Held \cup {k} /\ Prep' = Prep \ {k}
         /\ coro' = [coro EXCEPT ![k].handle = FALSE]
              => Live' = Live /\ Held' = Held \ {k} /\ Prep' = Prep
<1>1. coro \in [Coros -> Frames]
  BY DEF IoBase, IoTypes
<1>2. ASSUME coro' = [coro EXCEPT ![k].st = "done"]
      PROVE  Live' = Live \ {k} /\ Held' = Held /\ Prep' = Prep
  BY <1>1, <1>2 DEF Frames, Live, Held, Prep
<1>3. ASSUME coro' = [coro EXCEPT ![k].fuel = @ - 1, ![k].handle = TRUE]
      PROVE  Live' = Live /\ Held' = Held \cup {k} /\ Prep' = Prep
  BY <1>1, <1>3 DEF Frames, Live, Held, Prep
<1>4. ASSUME coro' = [coro EXCEPT ![k].fuel = @ - 1, ![k].prepared = TRUE]
      PROVE  Live' = Live /\ Held' = Held /\ Prep' = Prep \cup {k}
  BY <1>1, <1>4 DEF Frames, Live, Held, Prep
<1>5. ASSUME coro' = [coro EXCEPT ![k].handle = TRUE, ![k].prepared = FALSE]
      PROVE  Live' = Live /\ Held' = Held \cup {k} /\ Prep' = Prep \ {k}
  BY <1>1, <1>5 DEF Frames, Live, Held, Prep
<1>6. ASSUME coro' = [coro EXCEPT ![k].handle = FALSE]
      PROVE  Live' = Live /\ Held' = Held \ {k} /\ Prep' = Prep
  BY <1>1, <1>6 DEF Frames, Live, Held, Prep
<1> QED
  BY <1>2, <1>3, <1>4, <1>5, <1>6

\* co_await io for an awaiter made before, and co_return
LEMMA PlacesLeaves ==
  ASSUME IoBase, IoBase', PlacesOK, NEW c \in Ctx, UNCHANGED setup,
         AwaitPrepared(c) \/ Return(c)
  PROVE  PlacesOK'
<1>1. PICK k : k = loop[c].running
  OBVIOUS
<1>2. k # None /\ Suspend(c) /\ UNCHANGED <<worker, inbox, ring>>
  BY <1>1 DEF AwaitPrepared, Return
<1>3. PICK p : p = <<"running", c>>
  OBVIOUS
<1>4. /\ k \in Coros /\ loop'[c].running = None
      /\ \A d \in Ctx \ {c} : loop'[d].running = loop[d].running
      /\ p \in Spots /\ k \in Cells[p] /\ Cells'[p] = Cells[p] \ {k}
  BY <1>1, <1>2, <1>3, SuspendEffect
<1>5. k \in Live /\ k \notin Held
  BY <1>4, CellsLive
<1>6. \A r \in Spots \ {p} : Cells'[r] = Cells[r]
  BY <1>2, <1>3, <1>4, CellKept
<1>7. \A d \in Ctx : OnceEach(d)'
  BY <1>2 DEF PlacesOK, OnceEach
<1>8. FlagsOK /\ FlagsOK' /\ Held' \cup Prep' = Held \cup Prep /\ Live' \ Held' = (Live \ Held) \ {k}
  <2>1. CASE AwaitPrepared(c)
    <3>1. coro' = [coro EXCEPT ![k].handle = TRUE, ![k].prepared = FALSE] /\ k \in Prep
      BY <1>1, <1>4, <2>1 DEF AwaitPrepared, Prep
    <3>2. Live' = Live /\ Held' = Held \cup {k} /\ Prep' = Prep \ {k}
      BY <1>4, <3>1, FlagSteps
    <3> QED
      BY <1>5, <3>1, <3>2 DEF FlagsOK, PlacesOK
  <2>2. CASE Return(c)
    <3>1. coro' = [coro EXCEPT ![k].st = "done"] /\ k \notin Prep
      BY <1>1, <1>4, <2>2 DEF Return, Prep
    <3>2. Live' = Live \ {k} /\ Held' = Held /\ Prep' = Prep
      BY <1>4, <3>1, FlagSteps
    <3> QED
      BY <1>5, <3>1, <3>2 DEF FlagsOK, PlacesOK
  <2> QED
    BY <2>1, <2>2
<1>9. Parted(Cells, Spots, Live \ Held)'
  BY <1>4, <1>6, <1>8, CellsDrop
<1>10. Parted(IoF, Ctx, Held \cup Prep)'
  BY <1>2, <1>8, IosStay
<1> QED
  BY <1>7, <1>8, <1>9, <1>10 DEF PlacesOK

\* A coroutine comes to await, or prepare, a request of ring c.
LEMMA IosPut ==
  ASSUME IoBase', PlacesOK, NEW c \in Ctx, NEW k \in Coros, k \notin Held \cup Prep,
         Held' \cup Prep' = (Held \cup Prep) \cup {k},
         Ios(Present(ring'[c])) = Ios(Present(ring[c])) \cup {k},
         \A d \in Ctx \ {c} : ring'[d] = ring[d]
  PROVE  Parted(IoF, Ctx, Held \cup Prep)'
<1>1. CellsOK'
  BY CellsType, PTL
<1>2. PICK F : F = IoF
  OBVIOUS
<1>3. PICK G : G = IoF'
  OBVIOUS
<1>4. PICK L : L = Held \cup Prep
  OBVIOUS
<1>5. Parted(F, Ctx, L) /\ G \in [Ctx -> SUBSET Coros]
  BY <1>1, <1>2, <1>3, <1>4 DEF PlacesOK, CellsOK
<1>6. G[c] = F[c] \cup {k} /\ \A r \in Ctx \ {c} : G[r] = F[r]
  <2>1. \A d \in Ctx : IoF[d] = Ios(Present(ring[d])) /\ IoF'[d] = Ios(Present(ring'[d]))
    BY CellsAt DEF CellsAre
  <2> QED
    BY <1>2, <1>3, <2>1
<1>7. Parted(G, Ctx, L \cup {k})
  BY <1>4, <1>5, <1>6, PartPut
<1> QED
  BY <1>3, <1>4, <1>7

\* ... and its cqe is reaped.
LEMMA IosDrop ==
  ASSUME IoBase', PlacesOK, NEW c \in Ctx, NEW k, k \in Ios(Present(ring[c])),
         Held' \cup Prep' = (Held \cup Prep) \ {k},
         Ios(Present(ring'[c])) = Ios(Present(ring[c])) \ {k},
         \A d \in Ctx \ {c} : ring'[d] = ring[d]
  PROVE  Parted(IoF, Ctx, Held \cup Prep)'
<1>1. CellsOK'
  BY CellsType, PTL
<1>2. PICK F : F = IoF
  OBVIOUS
<1>3. PICK G : G = IoF'
  OBVIOUS
<1>4. PICK L : L = Held \cup Prep
  OBVIOUS
<1>5. Parted(F, Ctx, L) /\ G \in [Ctx -> SUBSET Coros]
  BY <1>1, <1>2, <1>3, <1>4 DEF PlacesOK, CellsOK
<1>6. k \in F[c] /\ G[c] = F[c] \ {k} /\ \A r \in Ctx \ {c} : G[r] = F[r]
  <2>1. \A d \in Ctx : IoF[d] = Ios(Present(ring[d])) /\ IoF'[d] = Ios(Present(ring'[d]))
    BY CellsAt DEF CellsAre
  <2> QED
    BY <1>2, <1>3, <2>1
<1>7. Parted(G, Ctx, L \ {k})
  BY <1>5, <1>6, PartDrop
<1> QED
  BY <1>3, <1>4, <1>7

\* Who awaits in ring c has its handle in an awaiter, or will.
LEMMA IosHeld ==
  ASSUME PlacesOK, NEW c \in Ctx, NEW k, k \in Ios(Present(ring[c]))
  PROVE  k \in Coros /\ k \in Held \cup Prep /\ \A d \in Ctx : k \in Ios(Present(ring[d])) => d = c
<1>1. \A d \in Ctx : IoF[d] = Ios(Present(ring[d]))
  BY CellsAt DEF CellsAre
<1> QED
  BY <1>1 DEF PlacesOK, Parted

\* Coroutine k gets a request that resumes it into the sq of c.
GetsIo(c, k) ==
  /\ \A d \in Ctx : worker'[d].reap_swap = worker[d].reap_swap
  /\ \A d \in Ctx \ {c} : ring'[d] = ring[d]
  /\ Msgs(SqSet(ring'[c])) = Msgs(SqSet(ring[c])) /\ Msgs(CqSet(ring'[c])) = Msgs(CqSet(ring[c]))
  /\ Ios(Present(ring'[c])) = Ios(Present(ring[c])) \cup {k} /\ OneRing(ring'[c])

\* One sqe ...
LEMMA IssueIo ==
  ASSUME IoBase, IoBase', PlacesOK, UNCHANGED setup, NEW c \in Ctx, NEW k \in Coros,
         k \notin Ios(Present(ring[c])), NEW r, r = Req("io", k, None), Issue(c, <<r>>)
  PROVE  GetsIo(c, k)
<1>1. r \in Requests /\ r.op = "io" /\ r.coro = k
  BY ReqIs
<1>2. /\ \A d \in Ctx : worker'[d].reap_swap = worker[d].reap_swap
      /\ \A d \in Ctx \ {c} : ring'[d] = ring[d]
      /\ ring'[c].sq = Append(ring[c].sq, r) /\ ring'[c].kernel = ring[c].kernel
      /\ ring'[c].cq = ring[c].cq
  BY <1>1, IssueOneEffect
<1>3. ring[c] \in Rings(Requests) /\ ring'[c] \in Rings(Requests)
  BY RingsTyped
<1>4. OneRing(ring[c])
  BY DEF PlacesOK, OnceEach, OneRing
<1> QED
  BY <1>1, <1>2, <1>3, <1>4, PutsIo DEF GetsIo

\* ... or two.
LEMMA IssueIoTwo ==
  ASSUME IoBase, IoBase', PlacesOK, UNCHANGED setup, NEW c \in Ctx, NEW k \in Coros,
         k \notin Ios(Present(ring[c])), NEW r, NEW s, Issue(c, <<r, s>>),
         \/ r = Req("link", k, None) /\ s = Req("io", k, None)
         \/ r = Req("io", k, None) /\ s = Req("timer", k, None)
  PROVE  GetsIo(c, k)
<1>1. /\ r \in Requests /\ s \in Requests /\ r.coro = k /\ s.coro = k
      /\ (r.op = "link" /\ s.op = "io") \/ (r.op = "io" /\ s.op = "timer")
  BY ReqIs
<1>2. /\ \A d \in Ctx : worker'[d].reap_swap = worker[d].reap_swap
      /\ \A d \in Ctx \ {c} : ring'[d] = ring[d]
      /\ ring'[c].sq = ring[c].sq \o <<r, s>> /\ ring'[c].kernel = ring[c].kernel
      /\ ring'[c].cq = ring[c].cq
  BY IssueEffect
<1>3. PICK x : x = ring[c]
  OBVIOUS
<1>4. PICK z : z = ring'[c]
  OBVIOUS
<1>5. x \in Rings(Requests) /\ z \in Rings(Requests)
  BY <1>3, <1>4, RingsTyped
<1>6. OneRing(x) /\ k \notin Ios(Present(x))
  BY <1>3 DEF PlacesOK, OnceEach, OneRing
<1>7. PICK y : y = [sq |-> Append(x.sq, r), kernel |-> x.kernel, cq |-> x.cq]
  OBVIOUS
<1>8. /\ y \in Rings(Requests) /\ y.sq = Append(x.sq, r) /\ y.kernel = x.kernel /\ y.cq = x.cq
  BY <1>1, <1>5, <1>7 DEF Rings
<1>9. z.sq = Append(y.sq, s) /\ z.kernel = y.kernel /\ z.cq = y.cq
  <2>1. x.sq \in Seq(Requests)
    BY <1>5 DEF Rings
  <2>2. x.sq \o <<r, s>> = Append(Append(x.sq, r), s)
    BY <1>1, <2>1, AppendTwo
  <2> QED
    BY <1>2, <1>3, <1>4, <1>8, <2>2
<1>10. /\ Msgs(SqSet(z)) = Msgs(SqSet(x)) /\ Msgs(CqSet(z)) = Msgs(CqSet(x))
       /\ Ios(Present(z)) = Ios(Present(x)) \cup {k} /\ OneRing(z)
  <2>1. CASE r.op = "link" /\ s.op = "io"
    <3>1. Alike(x, y)
      BY <1>1, <1>5, <1>6, <1>8, <2>1, AlikePut
    <3>2. OneRing(y) /\ k \notin Ios(Present(y))
      BY <1>6, <3>1 DEF Alike
    <3>3. /\ Msgs(SqSet(z)) = Msgs(SqSet(y)) /\ Msgs(CqSet(z)) = Msgs(CqSet(y))
          /\ Ios(Present(z)) = Ios(Present(y)) \cup {k} /\ OneRing(z)
      BY <1>1, <1>5, <1>8, <1>9, <2>1, <3>2, PutsIo
    <3> QED
      BY <3>1, <3>3 DEF Alike
  <2>2. CASE r.op = "io" /\ s.op = "timer"
    <3>1. /\ Msgs(SqSet(y)) = Msgs(SqSet(x)) /\ Msgs(CqSet(y)) = Msgs(CqSet(x))
          /\ Ios(Present(y)) = Ios(Present(x)) \cup {k} /\ OneRing(y)
      BY <1>1, <1>5, <1>6, <1>8, <2>2, PutsIo
    <3>2. Alike(y, z)
      BY <1>1, <1>5, <1>8, <1>9, <2>2, <3>1, AlikePut
    <3> QED
      BY <3>1, <3>2 DEF Alike
  <2> QED
    BY <1>1, <2>1, <2>2
<1> QED
  BY <1>2, <1>3, <1>4, <1>10 DEF GetsIo

\* What is unique after it.
LEMMA OnceGetsIo ==
  ASSUME PlacesOK, NEW c \in Ctx, NEW k, GetsIo(c, k), inbox' = inbox
  PROVE  \A d \in Ctx : OnceEach(d)'
<1>1. OnceEach(c)'
  BY DEF PlacesOK, OnceEach, GetsIo, OneRing
<1>2. \A d \in Ctx \ {c} : OnceEach(d)'
  BY DEF PlacesOK, OnceEach, GetsIo
<1> QED
  BY <1>1, <1>2

\* co_await lazy::xxx(...), co_await (a && b), co_await timeout(a, d), and the
\* constructor alone
LEMMA PlacesAwait ==
  ASSUME IoBase, IoBase', PlacesOK, NEW c \in Ctx, UNCHANGED setup,
         AwaitIo(c) \/ AwaitLink(c) \/ AwaitTimeout(c) \/ PrepareIo(c)
  PROVE  PlacesOK'
<1>1. PICK k : k = loop[c].running
  OBVIOUS
<1>2. k # None /\ ~ coro[k].prepared /\ inbox' = inbox
  BY <1>1 DEF AwaitIo, AwaitLink, AwaitTimeout, PrepareIo, May
<1>3. k \in Coros
  BY <1>1, <1>2, IoRunning
<1>4. PICK p : p = <<"running", c>>
  OBVIOUS
<1>5. p \in Spots /\ k \in Cells[p]
  BY <1>1, <1>2, <1>4, SpotsOf, CellsAt DEF CellsAre
<1>6. k \in Live /\ k \notin Held /\ k \notin Prep
  BY <1>2, <1>3, <1>5, CellsLive DEF Prep
<1>7. k \notin Ios(Present(ring[c]))
  BY <1>6, IosHeld
<1>8. GetsIo(c, k)
  <2>1. CASE AwaitIo(c) \/ PrepareIo(c)
    <3>1. Issue(c, <<Req("io", k, None)>>)
      BY <1>1, <2>1 DEF AwaitIo, PrepareIo
    <3> QED
      BY <1>3, <1>7, <3>1, IssueIo
  <2>2. CASE AwaitLink(c)
    <3>1. Issue(c, <<Req("link", k, None), Req("io", k, None)>>)
      BY <1>1, <2>2 DEF AwaitLink
    <3> QED
      BY <1>3, <1>7, <3>1, IssueIoTwo
  <2>3. CASE AwaitTimeout(c)
    <3>1. Issue(c, <<Req("io", k, None), Req("timer", k, None)>>)
      BY <1>1, <2>3 DEF AwaitTimeout
    <3> QED
      BY <1>3, <1>7, <3>1, IssueIoTwo
  <2> QED
    BY <2>1, <2>2, <2>3
<1>9. \A d \in Ctx : OnceEach(d)'
  BY <1>2, <1>8, OnceGetsIo
<1>10. CASE PrepareIo(c)
  <2>1. coro' = [coro EXCEPT ![k].fuel = @ - 1, ![k].prepared = TRUE] /\ loop' = loop
    BY <1>1, <1>10 DEF PrepareIo
  <2>2. Live' = Live /\ Held' = Held /\ Prep' = Prep \cup {k}
    BY <1>3, <2>1, FlagSteps
  <2>3. FlagsOK' /\ Held' \cup Prep' = (Held \cup Prep) \cup {k}
    BY <1>6, <2>2 DEF PlacesOK, FlagsOK
  <2>4. Parted(IoF, Ctx, Held \cup Prep)'
    BY <1>3, <1>6, <1>8, <2>3, IosPut DEF GetsIo
  <2>5. \A r \in Spots : Cells'[r] = Cells[r]
    <3>1. \A d \in Ctx : Msgs(SqSet(ring'[d])) = Msgs(SqSet(ring[d])) /\ Msgs(CqSet(ring'[d])) = Msgs(CqSet(ring[d]))
      BY <1>8 DEF GetsIo
    <3> QED
      BY <1>2, <1>8, <2>1, <3>1, CellKept DEF GetsIo
  <2>6. CellsOK'
    BY CellsType, PTL
  <2>7. Parted(Cells, Spots, Live \ Held)'
    BY <2>2, <2>5, <2>6, PartSame DEF PlacesOK, CellsOK
  <2>8. "prepare" \in setup.ops
    BY <1>10 DEF PrepareIo, May
  <2> QED
    BY <1>9, <2>3, <2>4, <2>7 DEF PlacesOK
<1>11. CASE AwaitIo(c) \/ AwaitLink(c) \/ AwaitTimeout(c)
  <2>1. coro' = [coro EXCEPT ![k].fuel = @ - 1, ![k].handle = TRUE] /\ Suspend(c)
    BY <1>1, <1>11 DEF AwaitIo, AwaitLink, AwaitTimeout
  <2>2. Live' = Live /\ Held' = Held \cup {k} /\ Prep' = Prep
    BY <1>3, <2>1, FlagSteps
  <2>3. FlagsOK' /\ Held' \cup Prep' = (Held \cup Prep) \cup {k} /\ Live' \ Held' = (Live \ Held) \ {k}
    BY <1>6, <2>2 DEF PlacesOK, FlagsOK
  <2>4. Parted(IoF, Ctx, Held \cup Prep)'
    BY <1>3, <1>6, <1>8, <2>3, IosPut DEF GetsIo
  <2>5. /\ \A d \in Ctx \ {c} : loop'[d].running = loop[d].running
        /\ Cells'[p] = Cells[p] \ {k}
    BY <1>1, <1>2, <1>4, <2>1, SuspendEffect
  <2>6. \A r \in Spots \ {p} : Cells'[r] = Cells[r]
    <3>1. \A d \in Ctx : Msgs(SqSet(ring'[d])) = Msgs(SqSet(ring[d])) /\ Msgs(CqSet(ring'[d])) = Msgs(CqSet(ring[d]))
      BY <1>8 DEF GetsIo
    <3>2. \A r \in Spots \ {p} : \A d \in Ctx : r = <<"running", d>> => loop'[d].running = loop[d].running
      BY <1>4, <2>5
    <3> QED
      BY <1>2, <1>8, <3>1, <3>2, CellKept DEF GetsIo
  <2>7. Parted(Cells, Spots, Live \ Held)'
    BY <1>5, <2>3, <2>5, <2>6, CellsDrop
  <2> QED
    BY <1>9, <2>3, <2>4, <2>7 DEF PlacesOK
<1> QED
  BY <1>10, <1>11

\* forward_task, seen as a place
LEMMA ForwardEffect ==
  ASSUME IoBase, PlacesOK, Roomy, NEW c \in Ctx, NEW k \in Coros, NEW q, q = <<"reap_swap", c>>,
         k \notin Cells[q], worker'[c].reap_swap = Forward(worker[c].reap_swap, k)
  PROVE  q \in Spots /\ Uniq(worker'[c].reap_swap) /\ Cells'[q] = Cells[q] \cup {k}
<1>1. worker[c].reap_swap \in Seq(Coros) /\ IoConstants
  BY IoAt DEF Workers, IoBase
<1>2. CellsAre(c) /\ CellsAre(c)'
  BY CellsAt
<1>3. Uniq(worker[c].reap_swap) /\ k \notin Elements(worker[c].reap_swap)
  BY <1>2 DEF PlacesOK, OnceEach, CellsAre
<1>4. /\ Uniq(worker'[c].reap_swap)
      /\ Elements(worker'[c].reap_swap) = Elements(worker[c].reap_swap) \cup {k}
  BY <1>1, <1>3, ForwardAppends
<1> QED
  BY <1>2, <1>4, SpotsOf DEF CellsAre

\* task_info_ptr: what the reaper forwards was awaited here.
LEMMA PlacesIo ==
  ASSUME IoBase, IoBase', PlacesOK, Roomy, NEW c \in Ctx, UNCHANGED setup, ~ failed,
         HandleIo(c), halted' = "no"
  PROVE  PlacesOK'
<1>1. PICK h : h = Head(ring[c].cq)
  OBVIOUS
<1>2. PICK k : k = h.coro
  OBVIOUS
<1>3. ring[c].cq # <<>> /\ (h.op = "io" \/ h.op = "skip")
  BY <1>1, ReapingAt DEF HandleIo
<1>4. h \in Requests /\ h.op = "io" /\ k \in Coros
  BY <1>1, <1>2, <1>3, HeadOK DEF ReqOK
<1>5. /\ Seen(c) /\ inbox' = inbox /\ coro' = [coro EXCEPT ![k].handle = FALSE]
      /\ \E g \in {None, k} : (g = k <=> coro[k].handle) /\ ReapAndForward(c, g)
  BY <1>1, <1>2, <1>4 DEF HandleIo
<1>6. None \notin Coros
  BY IoAt
<1>7. coro[k].handle /\ ReapAndForward(c, k)
  BY <1>4, <1>5, <1>6 DEF ReapAndForward
<1>8. k \in Held
  BY <1>4, <1>7 DEF Held
<1>9. /\ SameRunning /\ \A d \in Ctx \ {c} : ring'[d] = ring[d]
      /\ ring'[c].sq = ring[c].sq /\ ring'[c].kernel = ring[c].kernel /\ ring'[c].cq = Tail(ring[c].cq)
  BY <1>5, SeenEffect
<1>10. ring[c] \in Rings(Requests) /\ ring'[c] \in Rings(Requests)
  BY RingsTyped
<1>11. OneRing(ring[c]) /\ OnceIn(ring[c])
  BY IoAt DEF PlacesOK, OnceEach, OneRing, RingGood
<1>12. /\ Msgs(SqSet(ring'[c])) = Msgs(SqSet(ring[c])) /\ Msgs(CqSet(ring'[c])) = Msgs(CqSet(ring[c]))
       /\ k \in Ios(Present(ring[c])) /\ Ios(Present(ring'[c])) = Ios(Present(ring[c])) \ {k}
       /\ OneRing(ring'[c])
  BY <1>1, <1>2, <1>3, <1>4, <1>9, <1>10, <1>11, TakesIo
<1>13. Live' = Live /\ Held' = Held \ {k} /\ Prep' = Prep
  BY <1>4, <1>5, FlagSteps
<1>14. /\ FlagsOK' /\ Held' \cup Prep' = (Held \cup Prep) \ {k}
       /\ Live' \ Held' = (Live \ Held) \cup {k} /\ k \notin Live \ Held
  BY <1>8, <1>13 DEF PlacesOK, FlagsOK
<1>15. Parted(IoF, Ctx, Held \cup Prep)'
  BY <1>9, <1>12, <1>14, IosDrop
<1>16. /\ worker'[c].reap_swap = Forward(worker[c].reap_swap, k)
       /\ \A d \in Ctx \ {c} : worker'[d].reap_swap = worker[d].reap_swap
  <2>1. worker \in [Ctx -> Workers]
    BY IoAt
  <2> QED
    BY <1>4, <1>6, <1>7, <2>1 DEF ReapAndForward, Workers
<1>17. PICK q : q = <<"reap_swap", c>>
  OBVIOUS
<1>18. k \notin Cells[q]
  BY <1>8, <1>17, SpotsOf, CellsLive
<1>19. q \in Spots /\ Uniq(worker'[c].reap_swap) /\ Cells'[q] = Cells[q] \cup {k}
  BY <1>4, <1>16, <1>17, <1>18, ForwardEffect
<1>20. \A r \in Spots \ {q} : Cells'[r] = Cells[r]
  <2>1. \A d \in Ctx : Msgs(SqSet(ring'[d])) = Msgs(SqSet(ring[d])) /\ Msgs(CqSet(ring'[d])) = Msgs(CqSet(ring[d]))
    BY <1>9, <1>12
  <2>2. \A r \in Spots \ {q} : \A d \in Ctx : r = <<"reap_swap", d>> => worker'[d].reap_swap = worker[d].reap_swap
    BY <1>16, <1>17
  <2> QED
    BY <1>5, <1>9, <2>1, <2>2, CellKept DEF SameRunning
<1>21. Parted(Cells, Spots, Live \ Held)'
  BY <1>4, <1>14, <1>19, <1>20, CellsPut
<1>22. \A d \in Ctx : OnceEach(d)'
  <2>1. OnceEach(c)'
    BY <1>5, <1>12, <1>19 DEF PlacesOK, OnceEach, OneRing
  <2>2. \A d \in Ctx \ {c} : OnceEach(d)'
    BY <1>5, <1>9, <1>16 DEF PlacesOK, OnceEach
  <2> QED
    BY <2>1, <2>2
<1> QED
  BY <1>14, <1>15, <1>21, <1>22 DEF PlacesOK

\* msg_ring: a coroutine arrives.
LEMMA PlacesMsg ==
  ASSUME IoBase, IoBase', PlacesOK, Roomy, NEW c \in Ctx, UNCHANGED setup, HandleMsg(c)
  PROVE  PlacesOK'
<1>1. PICK h : h = Head(ring[c].cq)
  OBVIOUS
<1>2. PICK k : k = h.coro
  OBVIOUS
<1>3. ring[c].cq # <<>> /\ h.op = "msg"
  BY <1>1, ReapingAt DEF HandleMsg
<1>4. h \in Requests /\ k \in Coros
  BY <1>1, <1>2, <1>3, HeadOK DEF ReqOK
<1>5. Seen(c) /\ inbox' = inbox /\ coro' = coro /\ ForwardTask(c, k)
  BY <1>1, <1>2 DEF HandleMsg
<1>6. /\ SameRunning /\ \A d \in Ctx \ {c} : ring'[d] = ring[d]
      /\ ring'[c].sq = ring[c].sq /\ ring'[c].kernel = ring[c].kernel /\ ring'[c].cq = Tail(ring[c].cq)
  BY <1>5, SeenEffect
<1>7. ring[c] \in Rings(Requests) /\ ring'[c] \in Rings(Requests)
  BY RingsTyped
<1>8. OneRing(ring[c])
  BY DEF PlacesOK, OnceEach, OneRing
<1>9. /\ Msgs(SqSet(ring'[c])) = Msgs(SqSet(ring[c])) /\ Msgs(CqSet(ring'[c])) = Msgs(CqSet(ring[c])) \ {k}
      /\ k \in Msgs(CqSet(ring[c])) /\ Ios(Present(ring'[c])) = Ios(Present(ring[c]))
      /\ OneRing(ring'[c])
  BY <1>1, <1>2, <1>3, <1>4, <1>6, <1>7, <1>8, TakesMsg
<1>10. SameFrames
  BY <1>5, FramesKept
<1>11. /\ worker'[c].reap_swap = Forward(worker[c].reap_swap, k)
       /\ \A d \in Ctx \ {c} : worker'[d].reap_swap = worker[d].reap_swap
  <2>1. worker \in [Ctx -> Workers]
    BY IoAt
  <2> QED
    BY <1>5, <2>1 DEF ForwardTask, Workers
<1>12. PICK p : p = <<"cq", c>>
  OBVIOUS
<1>13. PICK q : q = <<"reap_swap", c>>
  OBVIOUS
<1>14. p \in Spots /\ q \in Spots /\ p # q
  BY <1>12, <1>13, SpotsOf
<1>15. k \in Cells[p] /\ Cells'[p] = Cells[p] \ {k}
  BY <1>9, <1>12, CellsAt DEF CellsAre
<1>16. k \notin Cells[q]
  BY <1>14, <1>15, CellsLive
<1>17. Uniq(worker'[c].reap_swap) /\ Cells'[q] = Cells[q] \cup {k}
  BY <1>4, <1>11, <1>13, <1>16, ForwardEffect
<1>18. \A r \in Spots \ {p, q} : Cells'[r] = Cells[r]
  <2>1. \A d \in Ctx : Msgs(SqSet(ring'[d])) = Msgs(SqSet(ring[d]))
    BY <1>6, <1>9
  <2>2. \A r \in Spots \ {p, q} : \A d \in Ctx :
          /\ r = <<"reap_swap", d>> => worker'[d].reap_swap = worker[d].reap_swap
          /\ r = <<"cq", d>> => Msgs(CqSet(ring'[d])) = Msgs(CqSet(ring[d]))
    BY <1>6, <1>11, <1>12, <1>13
  <2> QED
    BY <1>5, <1>6, <2>1, <2>2, CellKept DEF SameRunning
<1>19. Parted(Cells, Spots, Live \ Held)'
  BY <1>10, <1>14, <1>15, <1>17, <1>18, CellsMove DEF SameFrames
<1>20. Parted(IoF, Ctx, Held \cup Prep)'
  BY <1>6, <1>9, <1>10, IosStay DEF SameFrames
<1>21. \A d \in Ctx : OnceEach(d)'
  <2>1. OnceEach(c)'
    BY <1>5, <1>9, <1>17 DEF PlacesOK, OnceEach, OneRing
  <2>2. \A d \in Ctx \ {c} : OnceEach(d)'
    BY <1>5, <1>6, <1>11 DEF PlacesOK, OnceEach
  <2> QED
    BY <2>1, <2>2
<1>22. FlagsOK'
  BY <1>10, FlagsStay DEF PlacesOK
<1> QED
  BY <1>19, <1>20, <1>21, <1>22 DEF PlacesOK

\* Two queues with nothing in common, one after the other.
LEMMA ConcatOnce ==
  ASSUME NEW q \in Seq(Coros), NEW p \in Seq(Coros), Uniq(q), Uniq(p), Elements(q) \cap Elements(p) = {}
  PROVE  Uniq(q \o p) /\ Elements(q \o p) = Elements(q) \cup Elements(p)
<1>1. /\ q \o p \in Seq(Coros) /\ Elements(q \o p) = Elements(q) \cup Elements(p)
      /\ \A i \in DOMAIN q : (q \o p)[i] = q[i]
      /\ \A i \in DOMAIN (q \o p) : i \in DOMAIN q \/ (i - Len(q) \in DOMAIN p)
      /\ \A i \in DOMAIN p : (q \o p)[Len(q) + i] = p[i]
  BY ElementsConcat
<1>2. \A i \in DOMAIN (q \o p) : i \in Int /\ Len(q) \in Int /\ Len(q) + (i - Len(q)) = i
  BY <1>1
<1>3. \A i \in DOMAIN (q \o p) : i \notin DOMAIN q => (q \o p)[i] = p[i - Len(q)] /\ i - Len(q) \in DOMAIN p
  BY <1>1, <1>2
<1>4. ASSUME NEW i \in DOMAIN (q \o p), NEW j \in DOMAIN (q \o p), (q \o p)[i] = (q \o p)[j] PROVE i = j
  <2>1. CASE i \in DOMAIN q /\ j \in DOMAIN q
    BY <1>1, <1>4, <2>1 DEF Uniq
  <2>2. CASE i \notin DOMAIN q /\ j \notin DOMAIN q
    <3>1. i - Len(q) = j - Len(q)
      BY <1>3, <1>4, <2>2 DEF Uniq
    <3> QED
      BY <1>2, <3>1
  <2>3. ASSUME NEW a \in DOMAIN q, NEW b \in DOMAIN p PROVE q[a] # p[b]
    <3>1. q[a] \in Elements(q) /\ p[b] \in Elements(p)
      BY DEF Elements
    <3> QED
      BY <3>1
  <2>4. CASE i \in DOMAIN q /\ j \notin DOMAIN q
    BY <1>1, <1>3, <1>4, <2>3, <2>4
  <2>5. CASE i \notin DOMAIN q /\ j \in DOMAIN q
    BY <1>1, <1>3, <1>4, <2>3, <2>5
  <2> QED
    BY <2>1, <2>2, <2>4, <2>5
<1> QED
  BY <1>1, <1>4 DEF Uniq

\* The cqe of the eventfd is seen and the eventfd listened to again.
LEMMA ListenAlike ==
  ASSUME IoBase, IoBase', PlacesOK, UNCHANGED setup, NEW c \in Ctx, ring[c].cq # <<>>,
         Head(ring[c].cq).op = "event",
         ring' = [ring EXCEPT ![c].cq = Tail(@), ![c].sq = Append(@, Req("event", None, None))]
  PROVE  SameRings
<1>1. PICK s : s = Req("event", None, None)
  OBVIOUS
<1>2. s.op = "event" /\ s \in Requests
  <2>1. setup.fuel \in Nat
    BY IoAt
  <2> QED
    BY <1>1, <2>1 DEF Req, Requests, Resuming, Counted
<1>3. ring \in [Ctx -> Rings(Requests)]
  BY IoAt
<1>4. PICK x : x = ring[c]
  OBVIOUS
<1>5. PICK z : z = ring'[c]
  OBVIOUS
<1>6. x \in Rings(Requests) /\ z \in Rings(Requests)
  BY <1>4, <1>5, RingsTyped
<1>7. /\ z.sq = Append(x.sq, s) /\ z.kernel = x.kernel /\ z.cq = Tail(x.cq)
      /\ \A d \in Ctx \ {c} : ring'[d] = ring[d]
  BY <1>1, <1>3, <1>4, <1>5 DEF Rings
<1>8. PICK y : y = [sq |-> x.sq, kernel |-> x.kernel, cq |-> Tail(x.cq)]
  OBVIOUS
<1>9. y \in Rings(Requests) /\ y.sq = x.sq /\ y.kernel = x.kernel /\ y.cq = Tail(x.cq)
  <2>1. Tail(x.cq) \in Seq(Requests)
    BY <1>4, <1>6 DEF Rings
  <2> QED
    BY <1>6, <1>8, <2>1 DEF Rings
<1>10. OneRing(x)
  BY <1>4 DEF PlacesOK, OnceEach, OneRing
<1>11. Alike(x, y)
  BY <1>4, <1>6, <1>9, <1>10, AlikeTake
<1>12. Alike(y, z)
  BY <1>2, <1>6, <1>7, <1>9, <1>11, AlikePut DEF Alike
<1>13. Alike(x, z)
  BY <1>11, <1>12 DEF Alike
<1> QED
  BY <1>4, <1>5, <1>7, <1>13, RingKept

\* handle_co_spawn_events: the whole queue goes to reap_swap.
LEMMA PlacesEvent ==
  ASSUME IoBase, IoBase', PlacesOK, NEW c \in Ctx, UNCHANGED setup, HandleEvent(c), halted' = "no"
  PROVE  PlacesOK'
<1>1. ring[c].cq # <<>> /\ Head(ring[c].cq).op = "event"
  BY ReapingAt DEF HandleEvent
<1>2. /\ inbox' = [inbox EXCEPT ![c].queue = <<>>] /\ coro' = coro
      /\ worker' = [worker EXCEPT ![c].reap_swap = @ \o inbox[c].queue, ![c].requests_to_submit = @ + 1]
      /\ ring' = [ring EXCEPT ![c].cq = Tail(@), ![c].sq = Append(@, Req("event", None, None))]
      /\ loop' = [loop EXCEPT ![c].handled = TRUE]
  BY DEF HandleEvent
<1>3. SameRings
  BY <1>1, <1>2, ListenAlike
<1>4. SameFrames
  BY <1>2, FramesKept
<1>5. /\ worker \in [Ctx -> Workers] /\ loop \in [Ctx -> Loops] /\ inbox \in [Ctx -> Inboxes]
      /\ worker[c].reap_swap \in Seq(Coros) /\ inbox[c].queue \in Seq(Coros)
  BY IoAt DEF Workers, Inboxes
<1>6. SameRunning
  BY <1>2, <1>5 DEF SameRunning, Loops
<1>7. /\ worker'[c].reap_swap = worker[c].reap_swap \o inbox[c].queue
      /\ \A d \in Ctx \ {c} : worker'[d].reap_swap = worker[d].reap_swap
  BY <1>2, <1>5 DEF Workers
<1>8. /\ inbox'[c].queue = <<>> /\ \A d \in Ctx \ {c} : inbox'[d].queue = inbox[d].queue
  BY <1>2, <1>5 DEF Inboxes
<1>9. PICK p : p = <<"co_spawn_queue", c>>
  OBVIOUS
<1>10. PICK q : q = <<"reap_swap", c>>
  OBVIOUS
<1>11. p \in Spots /\ q \in Spots /\ p # q
  BY <1>9, <1>10, SpotsOf
<1>12. CellsAre(c) /\ CellsAre(c)'
  BY CellsAt
<1>13. Cells[p] = Elements(inbox[c].queue) /\ Cells[q] = Elements(worker[c].reap_swap)
  BY <1>9, <1>10, <1>12 DEF CellsAre
<1>14. Cells[q] \cap Cells[p] = {}
  BY <1>11, CellsLive
<1>15. /\ Uniq(worker'[c].reap_swap) /\ Elements(worker'[c].reap_swap) = Cells[q] \cup Cells[p]
  <2>1. Uniq(worker[c].reap_swap) /\ Uniq(inbox[c].queue)
    BY DEF PlacesOK, OnceEach
  <2> QED
    BY <1>5, <1>7, <1>13, <1>14, <2>1, ConcatOnce
<1>16. Cells'[p] = {} /\ Cells'[q] = Cells[q] \cup Cells[p]
  <2>1. Elements(inbox'[c].queue) = {}
    BY <1>8 DEF Elements
  <2>2. Cells'[p] = Elements(inbox'[c].queue)
    BY <1>9, <1>12 DEF CellsAre
  <2>3. Cells'[q] = Elements(worker'[c].reap_swap)
    BY <1>10, <1>12 DEF CellsAre
  <2> QED
    BY <1>15, <2>1, <2>2, <2>3
<1>17. \A r \in Spots \ {p, q} : Cells'[r] = Cells[r]
  <2>1. \A d \in Ctx : Msgs(SqSet(ring'[d])) = Msgs(SqSet(ring[d])) /\ Msgs(CqSet(ring'[d])) = Msgs(CqSet(ring[d]))
    BY <1>3 DEF SameRings, Alike
  <2>2. \A r \in Spots \ {p, q} : \A d \in Ctx :
          /\ r = <<"reap_swap", d>> => worker'[d].reap_swap = worker[d].reap_swap
          /\ r = <<"co_spawn_queue", d>> => inbox'[d].queue = inbox[d].queue
    BY <1>7, <1>8, <1>9, <1>10
  <2> QED
    BY <1>6, <2>1, <2>2, CellKept DEF SameRunning
<1>18. Parted(Cells, Spots, Live \ Held)'
  <2>1. CellsOK'
    BY CellsType, PTL
  <2>2. PICK F : F = Cells
    OBVIOUS
  <2>3. PICK G : G = Cells'
    OBVIOUS
  <2>4. PICK L : L = Live \ Held
    OBVIOUS
  <2>5. Parted(F, Spots, L) /\ G \in [Spots -> SUBSET Coros]
    BY <2>1, <2>2, <2>3, <2>4 DEF PlacesOK, CellsOK
  <2>6. G[p] = {} /\ G[q] = F[q] \cup F[p] /\ \A r \in Spots \ {p, q} : G[r] = F[r]
    BY <1>16, <1>17, <2>2, <2>3
  <2>7. \A r \in Spots \ {p} : F[r] \subseteq G[r] /\ G[r] \subseteq F[r] \cup F[p]
    BY <2>6
  <2>8. \A k \in F[p] : \E r \in Spots \ {p} : k \in G[r]
    BY <1>11, <2>6
  <2>9. \A k \in F[p] : \A r, s \in Spots \ {p} : k \in G[r] /\ k \in G[s] => r = s
    <3> SUFFICES ASSUME NEW k \in F[p], NEW r \in Spots \ {p}, k \in G[r] PROVE r = q
      OBVIOUS
    <3>1. k \in Coros /\ k \notin F[r]
      BY <1>11, <2>5 DEF Parted
    <3> QED
      BY <2>6, <3>1
  <2>10. Parted(G, Spots, L)
    BY <1>11, <2>5, <2>6, <2>7, <2>8, <2>9, PartSpread
  <2> QED
    BY <1>4, <2>3, <2>4, <2>10 DEF SameFrames
<1>19. Parted(IoF, Ctx, Held \cup Prep)'
  BY <1>3, <1>4, IosStay DEF SameFrames, SameRings, Alike
<1>20. \A d \in Ctx : OnceEach(d)'
  <2>1. \A d \in Ctx : OneMsg(ring'[d].sq) /\ OneMsg(ring'[d].cq) /\ OneIo(ring'[d])
    BY <1>3 DEF SameRings, Alike, OneRing
  <2>2. Uniq(inbox'[c].queue)
    BY <1>8 DEF Uniq
  <2>3. \A d \in Ctx : Uniq(worker'[d].reap_swap) /\ Uniq(inbox'[d].queue)
    BY <1>7, <1>8, <1>15, <2>2 DEF PlacesOK, OnceEach
  <2> QED
    BY <2>1, <2>3 DEF OnceEach
<1>21. FlagsOK'
  BY <1>4, FlagsStay DEF PlacesOK
<1> QED
  BY <1>18, <1>19, <1>20, <1>21 DEF PlacesOK

\* k was sent to q, where no coroutine runs.
Sent(k, q) ==
  /\ q \in Spots /\ \A d \in Ctx : q # <<"running", d>>
  /\ Cells'[q] = Cells[q] \cup {k}
  /\ \A r \in Spots \ {q} :
       (\A d \in Ctx : r = <<"running", d>> => loop'[d].running = loop[d].running) => Cells'[r] = Cells[r]
  /\ \A d \in Ctx : Ios(Present(ring'[d])) = Ios(Present(ring[d])) /\ OnceEach(d)'

\* co_spawn_auto, to the calling thread's context ...
LEMMA SendsHere ==
  ASSUME IoBase, PlacesOK, Roomy, NEW c \in Ctx, NEW k \in Coros, NEW q, q = <<"reap_swap", c>>,
         k \notin Cells[q], ForwardTask(c, k), UNCHANGED <<ring, inbox>>
  PROVE  Sent(k, q)
<1>1. /\ worker'[c].reap_swap = Forward(worker[c].reap_swap, k)
      /\ \A d \in Ctx \ {c} : worker'[d].reap_swap = worker[d].reap_swap
  <2>1. worker \in [Ctx -> Workers]
    BY IoAt
  <2> QED
    BY <2>1 DEF ForwardTask, Workers
<1>2. q \in Spots /\ Uniq(worker'[c].reap_swap) /\ Cells'[q] = Cells[q] \cup {k}
  BY <1>1, ForwardEffect
<1>3. ASSUME NEW r \in Spots \ {q}, \A d \in Ctx : r = <<"running", d>> => loop'[d].running = loop[d].running
      PROVE  Cells'[r] = Cells[r]
  <2>1. \A d \in Ctx : r = <<"reap_swap", d>> => worker'[d].reap_swap = worker[d].reap_swap
    BY <1>1
  <2> QED
    BY <1>3, <2>1, CellKept
<1>4. \A d \in Ctx : OnceEach(d)'
  BY <1>1, <1>2 DEF PlacesOK, OnceEach
<1> QED
  BY <1>2, <1>3, <1>4 DEF Sent

\* ... to another by msg_ring ...
LEMMA SendsByRing ==
  ASSUME IoBase, IoBase', PlacesOK, UNCHANGED <<setup, inbox>>, NEW c \in Ctx, NEW t \in Ctx,
         NEW k \in Coros, NEW q, q = <<"sq", c>>, k \notin Cells[q], Issue(c, <<Req("msg", k, t)>>)
  PROVE  Sent(k, q)
<1>1. PICK r : r = Req("msg", k, t)
  OBVIOUS
<1>2. r \in Requests /\ r.op = "msg" /\ r.coro = k
  BY <1>1, ReqIs
<1>3. Issue(c, <<r>>)
  BY <1>1
<1>4. /\ \A d \in Ctx : worker'[d].reap_swap = worker[d].reap_swap
      /\ \A d \in Ctx \ {c} : ring'[d] = ring[d]
      /\ ring'[c].sq = Append(ring[c].sq, r) /\ ring'[c].kernel = ring[c].kernel
      /\ ring'[c].cq = ring[c].cq
  BY <1>2, <1>3, IssueOneEffect
<1>5. ring[c] \in Rings(Requests) /\ ring'[c] \in Rings(Requests)
  BY RingsTyped
<1>6. CellsAre(c) /\ CellsAre(c)'
  BY CellsAt
<1>7. OneRing(ring[c]) /\ k \notin Msgs(SqSet(ring[c]))
  BY <1>6 DEF PlacesOK, OnceEach, OneRing, CellsAre
<1>8. /\ Msgs(SqSet(ring'[c])) = Msgs(SqSet(ring[c])) \cup {k} /\ Msgs(CqSet(ring'[c])) = Msgs(CqSet(ring[c]))
      /\ Ios(Present(ring'[c])) = Ios(Present(ring[c])) /\ OneRing(ring'[c])
  <2>1. PICK x \in Rings(Requests) : x = ring[c]
    BY <1>5
  <2>2. PICK y \in Rings(Requests) : y = ring'[c]
    BY <1>5
  <2>3. /\ y.sq = Append(x.sq, r) /\ y.kernel = x.kernel /\ y.cq = x.cq
        /\ OneRing(x) /\ k \notin Msgs(SqSet(x))
    BY <1>4, <1>7, <2>1, <2>2
  <2>4. /\ Msgs(SqSet(y)) = Msgs(SqSet(x)) \cup {k} /\ Msgs(CqSet(y)) = Msgs(CqSet(x))
        /\ Ios(Present(y)) = Ios(Present(x)) /\ OneRing(y)
    BY <1>2, <2>3, PutsMsg
  <2> QED
    BY <2>1, <2>2, <2>4
<1>9. q \in Spots /\ (\A d \in Ctx : q # <<"running", d>>) /\ Cells'[q] = Cells[q] \cup {k}
  BY <1>6, <1>8, SpotsOf DEF CellsAre
<1>10. ASSUME NEW s \in Spots \ {q}, \A d \in Ctx : s = <<"running", d>> => loop'[d].running = loop[d].running
       PROVE  Cells'[s] = Cells[s]
  <2>1. \A d \in Ctx : s = <<"sq", d>> => Msgs(SqSet(ring'[d])) = Msgs(SqSet(ring[d]))
    BY <1>4
  <2>2. \A d \in Ctx : Msgs(CqSet(ring'[d])) = Msgs(CqSet(ring[d]))
    BY <1>4, <1>8
  <2> QED
    BY <1>4, <1>10, <2>1, <2>2, CellKept
<1>11. \A d \in Ctx : Ios(Present(ring'[d])) = Ios(Present(ring[d])) /\ OnceEach(d)'
  <2>1. OnceEach(c)' /\ Ios(Present(ring'[c])) = Ios(Present(ring[c]))
    BY <1>4, <1>8 DEF PlacesOK, OnceEach, OneRing
  <2>2. \A d \in Ctx \ {c} : OnceEach(d)' /\ Ios(Present(ring'[d])) = Ios(Present(ring[d]))
    BY <1>4 DEF PlacesOK, OnceEach
  <2> QED
    BY <2>1, <2>2
<1> QED
  BY <1>9, <1>10, <1>11 DEF Sent

\* ... or through its co_spawn_queue.
LEMMA SendsByQueue ==
  ASSUME IoBase, PlacesOK, NEW t \in Ctx, NEW k \in Coros, NEW q, q = <<"co_spawn_queue", t>>,
         k \notin Cells[q], inbox' = [inbox EXCEPT ![t].queue = Append(@, k)], UNCHANGED <<worker, ring>>
  PROVE  Sent(k, q)
<1>1. inbox \in [Ctx -> Inboxes] /\ inbox[t].queue \in Seq(Coros)
  BY IoAt DEF Inboxes
<1>2. /\ inbox'[t].queue = Append(inbox[t].queue, k)
      /\ \A d \in Ctx \ {t} : inbox'[d].queue = inbox[d].queue
  BY <1>1 DEF Inboxes
<1>3. CellsAre(t) /\ CellsAre(t)'
  BY CellsAt
<1>4. Uniq(inbox[t].queue) /\ k \notin Elements(inbox[t].queue)
  BY <1>3 DEF PlacesOK, OnceEach, CellsAre
<1>5. Uniq(inbox'[t].queue) /\ Elements(inbox'[t].queue) = Elements(inbox[t].queue) \cup {k}
  BY <1>1, <1>2, <1>4, PutsLast
<1>6. q \in Spots /\ (\A d \in Ctx : q # <<"running", d>>) /\ Cells'[q] = Cells[q] \cup {k}
  BY <1>3, <1>5, SpotsOf DEF CellsAre
<1>7. ASSUME NEW r \in Spots \ {q}, \A d \in Ctx : r = <<"running", d>> => loop'[d].running = loop[d].running
      PROVE  Cells'[r] = Cells[r]
  <2>1. \A d \in Ctx : r = <<"co_spawn_queue", d>> => inbox'[d].queue = inbox[d].queue
    BY <1>2
  <2> QED
    BY <1>7, <2>1, CellKept
<1>8. \A d \in Ctx : OnceEach(d)'
  BY <1>2, <1>5 DEF PlacesOK, OnceEach
<1> QED
  BY <1>6, <1>7, <1>8 DEF Sent

\* All three.
LEMMA Sends ==
  ASSUME IoBase, IoBase', PlacesOK, Roomy, UNCHANGED setup, NEW c \in Ctx, NEW t \in Ctx, NEW k \in Coros,
         \A r \in Spots : k \in Cells[r] => \E d \in Ctx : r = <<"running", d>>, CoSpawnAuto(c, t, k)
  PROVE  \E q : Sent(k, q)
<1>1. ASSUME NEW q \in Spots, \A d \in Ctx : q # <<"running", d>> PROVE k \notin Cells[q]
  BY <1>1
<1>2. k \notin Cells[<<"reap_swap", c>>] /\ k \notin Cells[<<"sq", c>>] /\ k \notin Cells[<<"co_spawn_queue", t>>]
  BY <1>1, SpotsOf
<1>3. CASE t = c
  BY <1>2, <1>3, SendsHere DEF CoSpawnAuto
<1>4. CASE t # c /\ setup.msg_ring
  BY <1>2, <1>4, SendsByRing DEF CoSpawnAuto
<1>5. CASE t # c /\ ~ setup.msg_ring
  BY <1>2, <1>5, SendsByQueue DEF CoSpawnAuto
<1> QED
  BY <1>3, <1>4, <1>5

\* co_spawn(task)
LEMMA PlacesCoSpawn ==
  ASSUME IoBase, IoBase', PlacesOK, Roomy, NEW c \in Ctx, UNCHANGED setup, CoSpawn(c)
  PROVE  PlacesOK'
<1>1. PICK k : k = loop[c].running
  OBVIOUS
<1>2. k # None
  BY <1>1 DEF CoSpawn, May
<1>3. k \in Coros /\ loop \in [Ctx -> Loops]
  BY <1>1, <1>2, IoRunning
<1>4. PICK t \in setup.ctx, j \in Coros :
        /\ coro[j].st = "unborn" /\ CoSpawnAuto(c, t, j)
        /\ loop' = [loop EXCEPT ![c].write = WriteTo(c, t)]
        /\ coro' = [coro EXCEPT ![k].fuel = @ - 1, ![j].st = "live"]
  BY <1>1 DEF CoSpawn
<1>5. t \in Ctx /\ coro \in [Coros -> Frames]
  BY IoAt
<1>6. j \notin Live
  BY <1>4 DEF Live
<1>7. PICK q : Sent(j, q)
  <2>1. \A r \in Spots : j \notin Cells[r]
    BY <1>6, CellsLive
  <2> QED
    BY <1>4, <1>5, <2>1, Sends
<1>8. \A d \in Ctx : loop'[d].running = loop[d].running
  BY <1>3, <1>4 DEF Loops
<1>9. Live' = Live \cup {j} /\ Held' = Held /\ Prep' = Prep
  <2>1. \A i \in Coros : /\ coro'[i].handle = coro[i].handle /\ coro'[i].prepared = coro[i].prepared
                         /\ coro'[i].st = IF i = j THEN "live" ELSE coro[i].st
    BY <1>3, <1>4, <1>5 DEF Frames
  <2> QED
    BY <2>1 DEF Live, Held, Prep
<1>10. FlagsOK' /\ Live' \ Held' = (Live \ Held) \cup {j}
  BY <1>6, <1>9 DEF PlacesOK, FlagsOK
<1>11. Parted(Cells, Spots, Live \ Held)'
  <2>1. q \in Spots /\ Cells'[q] = Cells[q] \cup {j} /\ \A r \in Spots \ {q} : Cells'[r] = Cells[r]
    BY <1>7, <1>8 DEF Sent
  <2> QED
    BY <1>6, <1>10, <2>1, CellsPut
<1>12. Parted(IoF, Ctx, Held \cup Prep)'
  BY <1>7, <1>9, IosStay DEF Sent
<1> QED
  BY <1>7, <1>10, <1>11, <1>12 DEF PlacesOK, Sent

\* co_await lazy::resume_on(t)
LEMMA PlacesResumeOn ==
  ASSUME IoBase, IoBase', PlacesOK, Roomy, NEW c \in Ctx, UNCHANGED setup, ResumeOn(c)
  PROVE  PlacesOK'
<1>1. PICK k : k = loop[c].running
  OBVIOUS
<1>2. k # None /\ Spend(k)
  BY <1>1 DEF ResumeOn, May
<1>3. k \in Coros /\ loop \in [Ctx -> Loops]
  BY <1>1, <1>2, IoRunning
<1>4. PICK t \in setup.ctx \ {c} :
        /\ CoSpawnAuto(c, t, k)
        /\ loop' = [loop EXCEPT ![c].running = None, ![c].write = WriteTo(c, t)]
  BY <1>1 DEF ResumeOn
<1>5. t \in Ctx
  BY IoAt
<1>6. loop'[c].running = None /\ \A d \in Ctx \ {c} : loop'[d].running = loop[d].running
  BY <1>3, <1>4 DEF Loops
<1>7. PICK p : p = <<"running", c>>
  OBVIOUS
<1>8. CellsAre(c) /\ CellsAre(c)'
  BY CellsAt
<1>9. p \in Spots /\ k \in Cells[p] /\ Cells'[p] = Cells[p] \ {k}
  BY <1>1, <1>2, <1>3, <1>6, <1>7, <1>8, SpotsOf DEF CellsAre
<1>10. PICK q : Sent(k, q)
  <2>1. \A r \in Spots : k \in Cells[r] => r = p
    BY <1>9, CellsLive
  <2>2. \A r \in Spots : k \in Cells[r] => \E d \in Ctx : r = <<"running", d>>
    BY <1>7, <2>1
  <2> QED
    BY <1>3, <1>4, <1>5, <2>2, Sends
<1>11. SameFrames
  BY <1>2, <1>3, FramesKept
<1>12. Parted(Cells, Spots, Live \ Held)'
  <2>1. q \in Spots /\ p # q /\ Cells'[q] = Cells[q] \cup {k}
    BY <1>7, <1>10 DEF Sent
  <2>2. ASSUME NEW r \in Spots \ {p, q} PROVE Cells'[r] = Cells[r]
    <3>1. \A d \in Ctx : r = <<"running", d>> => loop'[d].running = loop[d].running
      BY <1>6, <1>7
    <3> QED
      BY <1>10, <3>1 DEF Sent
  <2> QED
    BY <1>9, <1>11, <2>1, <2>2, CellsMove DEF SameFrames
<1>13. Parted(IoF, Ctx, Held \cup Prep)'
  BY <1>10, <1>11, IosStay DEF Sent, SameFrames
<1>14. FlagsOK'
  BY <1>11, FlagsStay DEF PlacesOK
<1> QED
  BY <1>10, <1>12, <1>13, <1>14 DEF PlacesOK, Sent

\* io_uring_enter: where the messages go
LEMMA SubmitMoves ==
  ASSUME IoBase, IoBase', PlacesOK, NEW c \in Ctx, UNCHANGED setup, ring' = Submit(c)
  PROVE  /\ Msgs(SqSet(ring'[c])) = {} /\ Msgs(CqSet(ring'[c])) = Msgs(CqSet(ring[c]))
         /\ Ios(Present(ring'[c])) = Ios(Present(ring[c])) /\ OneRing(ring'[c])
         /\ \A d \in Ctx \ {c} :
              /\ Msgs(SqSet(ring'[d])) = Msgs(SqSet(ring[d]))
              /\ \A k \in Coros : k \in Msgs(CqSet(ring'[d])) <=>
                   \/ k \in Msgs(CqSet(ring[d]))
                   \/ \E r \in SqSet(ring[c]) : r.op = "msg" /\ r.to = d /\ r.coro = k
              /\ Ios(Present(ring'[d])) = Ios(Present(ring[d])) /\ OneRing(ring'[d])
<1>1. PICK x : x = ring[c]
  OBVIOUS
<1>2. x \in Rings(Requests) /\ OneRing(x) /\ OnceIn(x) /\ RingGood(c)
  BY <1>1, IoAt DEF PlacesOK, OnceEach, OneRing, RingGood
<1>3. x.sq \in Seq(Requests) /\ OneMsg(x.sq)
  BY <1>2 DEF Rings, OneRing
<1>4. PICK y : y = [sq |-> <<>>, cq |-> x.cq, kernel |-> x.kernel \cup
                       {x.sq[i] : i \in {j \in DOMAIN x.sq : x.sq[j].op # "msg"}}]
  OBVIOUS
<1>5. ring'[c] = y
  BY <1>1, <1>4 DEF Submit
<1>6. /\ Msgs(SqSet(y)) = {} /\ Msgs(CqSet(y)) = Msgs(CqSet(x))
      /\ Ios(Present(y)) = Ios(Present(x)) /\ OneRing(y)
  BY <1>2, <1>4, SubmitsMsgs
<1>7. ASSUME NEW d \in Ctx \ {c}
      PROVE  /\ Msgs(SqSet(ring'[d])) = Msgs(SqSet(ring[d]))
             /\ \A k \in Coros : k \in Msgs(CqSet(ring'[d])) <=>
                  \/ k \in Msgs(CqSet(ring[d]))
                  \/ \E r \in SqSet(ring[c]) : r.op = "msg" /\ r.to = d /\ r.coro = k
             /\ Ios(Present(ring'[d])) = Ios(Present(ring[d])) /\ OneRing(ring'[d])
  <2>1. PICK u : u = ring[d]
    OBVIOUS
  <2>2. PICK v : v = ring'[d]
    OBVIOUS
  <2>3. u \in Rings(Requests) /\ v \in Rings(Requests) /\ OneRing(u)
    BY <2>1, <2>2, RingsTyped DEF PlacesOK, OnceEach, OneRing
  <2>4. PICK q : q = x.sq
    OBVIOUS
  <2>5. PICK m : m = Messages(q, d)
    OBVIOUS
  <2>6. /\ m \in Seq(Requests) /\ Elements(m) = {r \in Elements(q) : r.op = "msg" /\ r.to = d}
        /\ OneMsg(m)
    BY <1>3, <2>4, <2>5, MessagesOf
  <2>7. ring'[d] = [ring[d] EXCEPT !.cq = @ \o m]
    BY <1>1, <2>4, <2>5 DEF Submit
  <2>8. v.sq = u.sq /\ v.kernel = u.kernel /\ v.cq = u.cq \o m
    BY <2>1, <2>2, <2>3, <2>7 DEF Rings
  <2>9. \A r \in Elements(m) : r.op = "msg" /\ r.coro \in Coros /\ r \in SqSet(x)
    <3>1. \A r \in Elements(m) : r.op = "msg" /\ r \in SqSet(x)
      BY <2>4, <2>6 DEF SqSet
    <3>2. \A r \in SqSet(x) : ReqOK(r)
      BY <1>1, <1>2 DEF RingGood, SqSet, Present
    <3> QED
      BY <3>1, <3>2 DEF ReqOK
  <2>10. PICK M : M = Msgs(Elements(m))
    OBVIOUS
  <2>11. \A k \in Coros : k \in M <=> \E r \in SqSet(x) : r.op = "msg" /\ r.to = d /\ r.coro = k
    BY <2>4, <2>6, <2>10 DEF Msgs, SqSet
  <2>12. Msgs(CqSet(u)) \cap M = {}
    <3> SUFFICES ASSUME NEW k, k \in Msgs(CqSet(u)), k \in M PROVE FALSE
      OBVIOUS
    <3>1. k \in Coros /\ k \in Msgs(SqSet(x))
      BY <2>9, <2>10 DEF Msgs
    <3>2. CellsAre(c) /\ CellsAre(d)
      BY CellsAt
    <3>3. k \in Cells[<<"cq", d>>] /\ k \in Cells[<<"sq", c>>]
      BY <1>1, <2>1, <3>1, <3>2 DEF CellsAre
    <3>4. <<"cq", d>> \in Spots /\ <<"sq", c>> \in Spots
      BY SpotsOf
    <3>5. <<"cq", d>> = <<"sq", c>>
      BY <3>3, <3>4, CellsLive
    <3> QED
      BY <3>5
  <2>13. /\ Msgs(SqSet(v)) = Msgs(SqSet(u)) /\ Msgs(CqSet(v)) = Msgs(CqSet(u)) \cup M
         /\ Ios(Present(v)) = Ios(Present(u)) /\ OneRing(v)
    <3>1. PICK S : S = Requests
      OBVIOUS
    <3>2. u \in Rings(S) /\ v \in Rings(S) /\ m \in Seq(S)
      BY <2>3, <2>6, <3>1
    <3>3. (\A r \in Elements(m) : r.op = "msg") /\ (\A r \in Elements(m) : r.coro \in Coros) /\ OneMsg(m)
      BY <2>6, <2>9
    <3> QED
      BY <2>3, <2>8, <2>10, <2>12, <3>2, <3>3, ReceivesMsgs
  <2> QED
    BY <1>1, <2>1, <2>2, <2>11, <2>13
<1> QED
  BY <1>1, <1>5, <1>6, <1>7

\* do_submission_part: messages go to the rings they are for.
LEMMA PlacesSubmit ==
  ASSUME IoBase, IoBase', PlacesOK, NEW c \in Ctx, UNCHANGED setup, PollSubmission(c)
  PROVE  PlacesOK'
<1>1. inbox' = inbox /\ coro' = coro
  BY DEF PollSubmission
<1>2. SameFrames
  BY <1>1, FramesKept
<1>3. PICK ph : loop' = [loop EXCEPT ![c].phase = ph]
  BY DEF PollSubmission, Goto
<1>4. SameRunning
  <2>1. loop \in [Ctx -> Loops]
    BY IoAt
  <2> QED
    BY <1>3, <2>1 DEF SameRunning, Loops
<1>5. CASE UNCHANGED <<worker, ring>>
  BY <1>1, <1>2, <1>4, <1>5, RingsKept, PlacesStay DEF SameQueues
<1>6. CASE worker' = [worker EXCEPT ![c].requests_to_submit = 0] /\ ring' = Submit(c)
  <2>1. \A d \in Ctx : worker'[d].reap_swap = worker[d].reap_swap
    <3>1. worker \in [Ctx -> Workers]
      BY IoAt
    <3> QED
      BY <1>6, <3>1 DEF Workers
  <2>2. /\ Msgs(SqSet(ring'[c])) = {} /\ Msgs(CqSet(ring'[c])) = Msgs(CqSet(ring[c]))
        /\ Ios(Present(ring'[c])) = Ios(Present(ring[c])) /\ OneRing(ring'[c])
    BY <1>6, SubmitMoves
  <2>3. ASSUME NEW d \in Ctx \ {c}
        PROVE  /\ Msgs(SqSet(ring'[d])) = Msgs(SqSet(ring[d]))
               /\ \A k \in Coros : k \in Msgs(CqSet(ring'[d])) <=>
                    \/ k \in Msgs(CqSet(ring[d]))
                    \/ \E r \in SqSet(ring[c]) : r.op = "msg" /\ r.to = d /\ r.coro = k
               /\ Ios(Present(ring'[d])) = Ios(Present(ring[d])) /\ OneRing(ring'[d])
    BY <1>6, SubmitMoves
  <2>4. PICK p : p = <<"sq", c>>
    OBVIOUS
  <2>5. p \in Spots /\ \A d \in Ctx : <<"cq", d>> \in Spots /\ <<"cq", d>> # p
    BY <2>4, SpotsOf
  <2>6. CellsAre(c) /\ CellsAre(c)'
    BY CellsAt
  <2>7. PICK F : F = Cells
    OBVIOUS
  <2>8. PICK G : G = Cells'
    OBVIOUS
  <2>9. PICK L : L = Live \ Held
    OBVIOUS
  <2>10. G \in [Spots -> SUBSET Coros] /\ F \in [Spots -> SUBSET Coros] /\ Parted(F, Spots, L)
    <3>1. CellsOK /\ CellsOK'
      BY CellsType, PTL
    <3> QED
      BY <2>7, <2>8, <2>9, <3>1 DEF CellsOK, PlacesOK
  <2>11. F[p] = Msgs(SqSet(ring[c])) /\ G[p] = {}
    BY <2>2, <2>4, <2>6, <2>7, <2>8 DEF CellsAre
  <2>12. ASSUME NEW r \in Spots \ {p}, \A d \in Ctx \ {c} : r # <<"cq", d>> PROVE G[r] = F[r]
    <3>1. \A d \in Ctx : r = <<"sq", d>> => Msgs(SqSet(ring'[d])) = Msgs(SqSet(ring[d]))
      BY <2>3, <2>4
    <3>2. \A d \in Ctx : r = <<"cq", d>> => Msgs(CqSet(ring'[d])) = Msgs(CqSet(ring[d]))
      BY <2>2, <2>12
    <3>3. Cells'[r] = Cells[r]
      BY <1>1, <1>4, <2>1, <3>1, <3>2, CellKept DEF SameRunning
    <3> QED
      BY <2>7, <2>8, <3>3
  <2>13. ASSUME NEW d \in Ctx \ {c}, NEW k \in Coros
         PROVE  k \in G[<<"cq", d>>] <=>
                  k \in F[<<"cq", d>>] \/ \E r \in SqSet(ring[c]) : r.op = "msg" /\ r.to = d /\ r.coro = k
    <3>1. CellsAre(d) /\ CellsAre(d)'
      BY CellsAt
    <3> QED
      BY <2>3, <2>7, <2>8, <3>1 DEF CellsAre
  <2>14. ASSUME NEW k \in Coros, NEW d
         PROVE  (\E r \in SqSet(ring[c]) : r.op = "msg" /\ r.to = d /\ r.coro = k) => k \in F[p]
    BY <2>11 DEF Msgs
  <2>15. ASSUME NEW r \in Spots \ {p} PROVE F[r] \subseteq G[r] /\ G[r] \subseteq F[r] \cup F[p]
    <3>1. CASE \E d \in Ctx \ {c} : r = <<"cq", d>>
      <4>1. PICK d \in Ctx \ {c} : r = <<"cq", d>>
        BY <3>1
      <4>2. \A k \in Coros : k \in F[r] => k \in G[r]
        BY <2>13, <4>1
      <4>3. \A k \in Coros : k \in G[r] => k \in F[r] \/ k \in F[p]
        BY <2>13, <2>14, <4>1
      <4> QED
        BY <2>10, <4>2, <4>3
    <3>2. CASE \A d \in Ctx \ {c} : r # <<"cq", d>>
      BY <2>12, <3>2
    <3> QED
      BY <3>1, <3>2
  <2>16. ASSUME NEW k \in F[p]
         PROVE  /\ \E r \in Spots \ {p} : k \in G[r]
                /\ \A r, s \in Spots \ {p} : k \in G[r] /\ k \in G[s] => r = s
    <3>1. k \in Coros /\ \A r \in Spots \ {p} : k \notin F[r]
      BY <2>5, <2>10 DEF Parted
    <3>2. PICK o \in SqSet(ring[c]) : o.op = "msg" /\ o.coro = k
      BY <2>11 DEF Msgs
    <3>3. o.to \in Ctx \ {c}
      BY <3>2, IoAt DEF RingGood, SqSet
    <3>4. k \in G[<<"cq", o.to>>]
      BY <2>13, <3>1, <3>2, <3>3
    <3>5. ASSUME NEW r \in Spots \ {p}, k \in G[r] PROVE r = <<"cq", o.to>>
      <4>1. PICK d \in Ctx \ {c} : r = <<"cq", d>>
        BY <2>12, <3>1, <3>5
      <4>2. PICK s \in SqSet(ring[c]) : s.op = "msg" /\ s.to = d /\ s.coro = k
        BY <2>13, <3>1, <3>5, <4>1
      <4>3. OneMsg(ring[c].sq)
        BY DEF PlacesOK, OnceEach
      <4>4. s = o
        BY <3>2, <4>2, <4>3 DEF OneMsg, SqSet, Elements
      <4> QED
        BY <4>1, <4>2, <4>4
    <3> QED
      BY <2>5, <3>3, <3>4, <3>5
  <2>17. Parted(G, Spots, L)
    <3>1. \A k \in F[p] : \E r \in Spots \ {p} : k \in G[r]
      BY <2>16
    <3>2. \A k \in F[p] : \A r, s \in Spots \ {p} : k \in G[r] /\ k \in G[s] => r = s
      BY <2>16
    <3> QED
      BY <2>5, <2>10, <2>11, <2>15, <3>1, <3>2, PartSpread
  <2>18. Parted(Cells, Spots, Live \ Held)'
    BY <1>2, <2>8, <2>9, <2>17 DEF SameFrames
  <2>19. Parted(IoF, Ctx, Held \cup Prep)'
    <3>1. \A d \in Ctx : Ios(Present(ring'[d])) = Ios(Present(ring[d]))
      BY <2>2, <2>3
    <3> QED
      BY <1>2, <3>1, IosStay DEF SameFrames
  <2>20. \A d \in Ctx : OnceEach(d)'
    <3>1. \A d \in Ctx : OneRing(ring'[d])
      BY <2>2, <2>3
    <3> QED
      BY <1>1, <2>1, <3>1 DEF PlacesOK, OnceEach, OneRing
  <2>21. FlagsOK'
    BY <1>2, FlagsStay DEF PlacesOK
  <2> QED
    BY <2>18, <2>19, <2>20, <2>21 DEF PlacesOK
<1> QED
  BY <1>5, <1>6 DEF PollSubmission

\* At the start every coroutine that lives is in one reap_swap.
LEMMA PlacesInit == ASSUME IoConstants, Init PROVE PlacesOK
<1>1. IoBase
  BY IoBaseInit
<1>2. /\ setup \in Setups /\ setup.ctx \subseteq Ctx
      /\ setup.entry \in [setup.ctx -> Seq(Coros)]
      /\ \A c, d \in setup.ctx : \A i \in DOMAIN setup.entry[c], j \in DOMAIN setup.entry[d] :
           setup.entry[c][i] = setup.entry[d][j] => c = d /\ i = j
  BY IoConstantsFacts DEF Init
<1>3. \A c \in Ctx : /\ ring[c].sq = <<>> /\ ring[c].kernel = {} /\ ring[c].cq = <<>>
                     /\ inbox[c].queue = <<>> /\ loop[c].running = None
  BY DEF Init
<1>4. \A c \in Ctx : /\ c \in setup.ctx => worker[c].reap_swap = setup.entry[c]
                     /\ c \notin setup.ctx => worker[c].reap_swap = <<>>
  BY DEF Init
<1>5. \A k \in Coros : ~ coro[k].handle /\ ~ coro[k].prepared /\ (coro[k].st = "live" <=>
        \E c \in setup.ctx : \E i \in DOMAIN setup.entry[c] : setup.entry[c][i] = k)
  BY DEF Init
<1>6. Held = {} /\ Prep = {}
  BY <1>5 DEF Held, Prep
<1>7. \A c \in Ctx : /\ SqSet(ring[c]) = {} /\ CqSet(ring[c]) = {} /\ Present(ring[c]) = {}
                     /\ Elements(inbox[c].queue) = {}
  BY <1>3 DEF SqSet, CqSet, Present, Elements
<1>8. \A c \in Ctx : Msgs(SqSet(ring[c])) = {} /\ Msgs(CqSet(ring[c])) = {} /\ Ios(Present(ring[c])) = {}
  BY <1>7 DEF Msgs, Ios
<1>9. ASSUME NEW c \in Ctx
      PROVE  /\ Cells[<<"running", c>>] = {} /\ Cells[<<"co_spawn_queue", c>>] = {}
             /\ Cells[<<"sq", c>>] = {} /\ Cells[<<"cq", c>>] = {} /\ IoF[c] = {}
             /\ Cells[<<"reap_swap", c>>] = Elements(worker[c].reap_swap)
  BY <1>3, <1>7, <1>8, CellsAt DEF CellsAre
<1>10. CellsOK
  BY <1>1, CellsType
<1>11. \A c \in Ctx : \A k \in Elements(worker[c].reap_swap) :
         c \in setup.ctx /\ \E i \in DOMAIN setup.entry[c] : setup.entry[c][i] = k
  BY <1>4 DEF Elements
<1>12. \A r \in Spots : \A k \in Cells[r] :
         \E c \in Ctx : r = <<"reap_swap", c>> /\ k \in Elements(worker[c].reap_swap)
  <2> SUFFICES ASSUME NEW r \in Spots, NEW k \in Cells[r]
               PROVE  \E c \in Ctx : r = <<"reap_swap", c>> /\ k \in Elements(worker[c].reap_swap)
    OBVIOUS
  <2>1. PICK c \in Ctx : \/ r = <<"running", c>> \/ r = <<"reap_swap", c>>
                         \/ r = <<"co_spawn_queue", c>> \/ r = <<"sq", c>> \/ r = <<"cq", c>>
    BY SpotOf
  <2>2. /\ Cells[<<"running", c>>] = {} /\ Cells[<<"co_spawn_queue", c>>] = {}
        /\ Cells[<<"sq", c>>] = {} /\ Cells[<<"cq", c>>] = {}
    BY <1>9
  <2>3. r = <<"reap_swap", c>>
    BY <2>1, <2>2
  <2>4. k \in Elements(worker[c].reap_swap)
    BY <1>9, <2>3
  <2> QED
    BY <2>3, <2>4
<1>13. Parted(Cells, Spots, Live \ Held)
  <2>1. ASSUME NEW k \in Live PROVE \E r \in Spots : k \in Cells[r]
    <3>1. PICK c \in setup.ctx : \E i \in DOMAIN setup.entry[c] : setup.entry[c][i] = k
      BY <1>5 DEF Live
    <3>2. c \in Ctx /\ worker[c].reap_swap = setup.entry[c]
      BY <1>2, <1>4
    <3>3. k \in Elements(worker[c].reap_swap)
      BY <3>1, <3>2 DEF Elements
    <3> QED
      BY <1>9, <3>2, <3>3, SpotsOf
  <2>2. ASSUME NEW r \in Spots PROVE Cells[r] \subseteq Live
    <3> SUFFICES ASSUME NEW k \in Cells[r] PROVE k \in Live
      OBVIOUS
    <3>1. k \in Coros
      BY <1>10 DEF CellsOK
    <3> QED
      BY <1>5, <1>11, <1>12, <3>1 DEF Live
  <2>3. ASSUME NEW r \in Spots, NEW s \in Spots, NEW k \in Coros, k \in Cells[r], k \in Cells[s] PROVE r = s
    <3>1. PICK c \in Ctx : r = <<"reap_swap", c>> /\ k \in Elements(worker[c].reap_swap)
      BY <1>12, <2>3
    <3>2. PICK d \in Ctx : s = <<"reap_swap", d>> /\ k \in Elements(worker[d].reap_swap)
      BY <1>12, <2>3
    <3>3. c \in setup.ctx /\ d \in setup.ctx
      BY <1>11, <3>1, <3>2
    <3>4. PICK i \in DOMAIN setup.entry[c] : setup.entry[c][i] = k
      BY <1>11, <3>1
    <3>5. PICK j \in DOMAIN setup.entry[d] : setup.entry[d][j] = k
      BY <1>11, <3>2
    <3>6. c = d
      BY <1>2, <3>3, <3>4, <3>5
    <3> QED
      BY <3>1, <3>2, <3>6
  <2> QED
    BY <1>6, <1>10, <2>1, <2>2, <2>3 DEF Parted, CellsOK
<1>14. Parted(IoF, Ctx, Held \cup Prep)
  BY <1>6, <1>9, <1>10 DEF Parted, CellsOK
<1>15. \A c \in Ctx : OnceEach(c)
  <2>1. \A c \in Ctx : Uniq(worker[c].reap_swap)
    BY <1>2, <1>4 DEF Uniq
  <2>2. \A c \in Ctx : Uniq(inbox[c].queue) /\ OneMsg(ring[c].sq) /\ OneMsg(ring[c].cq) /\ OneIo(ring[c])
    BY <1>3, <1>7 DEF Uniq, OneMsg, OneIo
  <2> QED
    BY <2>1, <2>2 DEF OnceEach
<1> QED
  BY <1>6, <1>13, <1>14, <1>15 DEF PlacesOK, FlagsOK

\* Every step, as long as no detached request has failed.
LEMMA PlacesNext ==
  ASSUME Roomy, IoBase, IoBase', PlacesOK, ~ failed, halted' = "no", [Next]_(vars)
  PROVE  PlacesOK'
<1>1. CASE UNCHANGED vars
  <2>1. UNCHANGED <<worker, inbox, ring, loop, coro>>
    BY <1>1 DEF vars
  <2>2. SameRings /\ SameFrames /\ SameQueues /\ SameRunning
    BY <2>1, RingsKept, FramesKept DEF SameQueues, SameRunning
  <2> QED
    BY <2>2, PlacesStay
<1>2. ASSUME NEW c \in Ctx, Step(c, Thread(c)) PROVE PlacesOK'
  <2>1. Thread(c) /\ UNCHANGED setup
    BY <1>2 DEF Step
  <2>2. CASE \/ PassBarrier(c) \/ Peek(c) \/ BadPeek(c) \/ PollDone(c)
             \/ BadPollDone(c) \/ DecideOver(c) \/ Start(c) \/ Deinit(c)
    BY <2>1, <2>2, PlacesMoves
  <2>3. CASE Wake(c)
    <3>1. WaitReturns(c)
      BY <2>3 DEF Wake
    <3> QED
      BY <2>1, <3>1, PlacesMoves
  <2>4. CASE Run(c)
    BY <2>1, <2>4, PlacesRun
  <2>5. CASE WorkOnce(c)
    BY <2>1, <2>5, PlacesWork
  <2>6. CASE EventWrite(c)
    BY <2>1, <2>6, PlacesStopWrite
  <2>7. CASE PollSubmission(c)
    BY <2>1, <2>7, PlacesSubmit
  <2>8. CASE Reap(c)
    <3>1. CASE HandleIo(c)
      BY <2>1, <3>1, PlacesIo
    <3>2. CASE HandleLink(c)
      BY <2>1, <3>2, PlacesLink
    <3>3. CASE HandleMsg(c)
      BY <2>1, <3>3, PlacesMsg
    <3>4. CASE HandleEvent(c)
      BY <2>1, <3>4, PlacesEvent
    <3> QED
      BY <2>8, <3>1, <3>2, <3>3, <3>4 DEF Reap
  <2>9. CASE Coroutine(c)
    <3>1. CASE AwaitIo(c) \/ AwaitLink(c) \/ AwaitTimeout(c) \/ PrepareIo(c)
      BY <2>1, <3>1, PlacesAwait
    <3>2. CASE AwaitPrepared(c) \/ Return(c)
      BY <2>1, <3>2, PlacesLeaves
    <3>3. CASE Detach(c)
      BY <2>1, <3>3, PlacesDetach
    <3>4. CASE Yield(c)
      BY <2>1, <3>4, PlacesYield
    <3>5. CASE CoSpawn(c)
      BY <2>1, <3>5, PlacesCoSpawn
    <3>6. CASE ResumeOn(c)
      BY <2>1, <3>6, PlacesResumeOn
    <3>7. CASE StopContext(c)
      BY <2>1, <3>7, PlacesStopWrite
    <3> QED
      BY <2>9, <3>1, <3>2, <3>3, <3>4, <3>5, <3>6, <3>7 DEF Coroutine
  <2> QED
    BY <2>1, <2>2, <2>3, <2>4, <2>5, <2>6, <2>7, <2>8, <2>9 DEF Thread
<1>3. ASSUME NEW c \in Ctx, Step(c, Kernel(c)) PROVE PlacesOK'
  BY <1>3, PlacesKernel DEF Step
<1>4. ASSUME NEW c \in Ctx, Step(c, Interrupt(c)) PROVE PlacesOK'
  <2>1. WaitReturns(c) /\ UNCHANGED setup
    BY <1>4 DEF Step, Interrupt
  <2> QED
    BY <2>1, PlacesMoves
<1>5. ASSUME NEW c \in Ctx, Step(c, BarrierTimeout(c)) PROVE PlacesOK'
  BY <1>5, PlacesMoves DEF Step
<1> QED
  BY <1>1, <1>2, <1>3, <1>4, <1>5 DEF Next

Placed == halted = "no" /\ ~ failed => PlacesOK

\* As an invariant.
LEMMA PlacedHolds == ASSUME Roomy PROVE Spec => []Placed
<1>1. Init => Placed
  BY PlacesInit, IoAssumption DEF Placed
<1>2. IoBase /\ IoBase' /\ Placed /\ [Next]_(vars) => Placed'
  <2> SUFFICES ASSUME IoBase, IoBase', Placed, [Next]_(vars), halted' = "no", ~ failed'
               PROVE  PlacesOK'
    BY DEF Placed
  <2>1. halted = "no" /\ ~ failed
    <3>1. CASE UNCHANGED vars
      BY <3>1 DEF vars
    <3>2. CASE Next
      <4>1. PICK c \in Ctx : halted = "no" /\ failed' = (failed \/ DetachedFails(c))
        BY <3>2 DEF Next, Step
      <4> QED
        BY <4>1
    <3> QED
      BY <3>1, <3>2
  <2> QED
    BY <2>1, PlacesNext DEF Placed
<1> QED
  BY <1>1, <1>2, IoBaseHolds, PTL DEF Spec
-----------------------------------------------------------------------------
\* The places of HandleInOnePlace are these places.

AtRunning(h, k, c) == h = <<"running", c>> /\ loop[c].running = k

AtSwap(h, k, c) == \E i \in DOMAIN worker[c].reap_swap :
                     worker[c].reap_swap[i] = k /\ h = <<"reap_swap", c, i>>

AtQueue(h, k, c) == \E i \in DOMAIN inbox[c].queue :
                      inbox[c].queue[i] = k /\ h = <<"co_spawn_queue", c, i>>

AtSq(h, k, c) == \E i \in DOMAIN ring[c].sq : /\ ring[c].sq[i].op = "msg" /\ ring[c].sq[i].coro = k
                                              /\ h = <<"ring", c, <<"sq", i, ring[c].sq[i]>>>>

AtCq(h, k, c) == \E i \in DOMAIN ring[c].cq : /\ ring[c].cq[i].op = "msg" /\ ring[c].cq[i].coro = k
                                              /\ h = <<"ring", c, <<"cq", i, ring[c].cq[i]>>>>

AtIo(h, k, c) == \E o \in Outstanding(c) : o[3].op = "io" /\ o[3].coro = k /\ h = <<"ring", c, o>>

AtSpot(h, k, p) ==
  \E c \in Ctx : \/ p = <<"running", c>> /\ AtRunning(h, k, c)
                 \/ p = <<"reap_swap", c>> /\ AtSwap(h, k, c)
                 \/ p = <<"co_spawn_queue", c>> /\ AtQueue(h, k, c)
                 \/ p = <<"sq", c>> /\ AtSq(h, k, c)
                 \/ p = <<"cq", c>> /\ AtCq(h, k, c)

\* A coroutine in a queue once has one place there.
LEMMA OncePlace ==
  ASSUME NEW q \in Seq(Coros), Uniq(q), NEW k, NEW n, NEW c
  PROVE  /\ (\E i \in DOMAIN q : q[i] = k) <=> k \in Elements(q)
         /\ \A i, j \in DOMAIN q : q[i] = k /\ q[j] = k => <<n, c, i>> = <<n, c, j>>
BY DEF Uniq, Elements

\* So has a message.
LEMMA OnceMsgPlace ==
  ASSUME NEW S, NEW q \in Seq(S), OneMsg(q), NEW k \in Coros
  PROVE  /\ (\E i \in DOMAIN q : q[i].op = "msg" /\ q[i].coro = k) <=> k \in Msgs(Elements(q))
         /\ \A i, j \in DOMAIN q :
              (q[i].op = "msg" /\ q[i].coro = k) /\ (q[j].op = "msg" /\ q[j].coro = k) => i = j
<1>1. (\E i \in DOMAIN q : q[i].op = "msg" /\ q[i].coro = k) <=> k \in Msgs(Elements(q))
  BY DEF Elements, Msgs
<1>2. \A i, j \in DOMAIN q :
        (q[i].op = "msg" /\ q[i].coro = k) /\ (q[j].op = "msg" /\ q[j].coro = k) => i = j
  BY DEF OneMsg
<1> QED
  BY <1>1, <1>2

\* The places of a coroutine: somewhere, and there once.
LEMMA SpotHandles ==
  ASSUME IoBase, PlacesOK, NEW k \in Coros, NEW p \in Spots
  PROVE  /\ k \in Cells[p] <=> \E h : AtSpot(h, k, p)
         /\ \A g, h : AtSpot(g, k, p) /\ AtSpot(h, k, p) => g = h
<1>1. PICK c \in Ctx : \/ p = <<"running", c>> \/ p = <<"reap_swap", c>>
                       \/ p = <<"co_spawn_queue", c>> \/ p = <<"sq", c>> \/ p = <<"cq", c>>
  BY SpotOf
<1>2. CellsAre(c)
  BY CellsAt
<1>3. OnceEach(c)
  BY DEF PlacesOK
<1>4. /\ worker[c].reap_swap \in Seq(Coros) /\ inbox[c].queue \in Seq(Coros) /\ None \notin Coros
      /\ ring[c].sq \in Seq(Requests) /\ ring[c].cq \in Seq(Requests)
  BY IoAt DEF Workers, Inboxes, Rings
<1>5. CASE p = <<"running", c>>
  <2>1. \A h : AtSpot(h, k, p) <=> AtRunning(h, k, c)
    BY <1>5 DEF AtSpot
  <2>2. k \in Cells[p] <=> loop[c].running = k
    BY <1>2, <1>4, <1>5 DEF CellsAre
  <2> QED
    <3>1. AtRunning(<<"running", c>>, k, c) <=> loop[c].running = k
      BY DEF AtRunning
    <3>2. \A h : AtRunning(h, k, c) => loop[c].running = k /\ h = <<"running", c>>
      BY DEF AtRunning
    <3>3. \A g, h : AtRunning(g, k, c) /\ AtRunning(h, k, c) => g = h
      BY <3>2
    <3>4. k \in Cells[p] <=> \E h : AtRunning(h, k, c)
      BY <2>2, <3>1, <3>2
    <3> QED
      BY <2>1, <3>3, <3>4
<1>6. CASE p = <<"reap_swap", c>>
  <2>1. \A h : AtSpot(h, k, p) <=> AtSwap(h, k, c)
    BY <1>6 DEF AtSpot
  <2>2. k \in Cells[p] <=> k \in Elements(worker[c].reap_swap)
    BY <1>2, <1>6 DEF CellsAre
  <2>3. /\ (\E i \in DOMAIN worker[c].reap_swap : worker[c].reap_swap[i] = k) <=> k \in Elements(worker[c].reap_swap)
        /\ \A i, j \in DOMAIN worker[c].reap_swap : worker[c].reap_swap[i] = k /\ worker[c].reap_swap[j] = k => i = j
    BY <1>3, <1>4, OncePlace DEF OnceEach, Uniq
  <2>4. k \in Cells[p] <=> \E h : AtSwap(h, k, c)
    BY <2>2, <2>3 DEF AtSwap
  <2>5. \A g, h : AtSwap(g, k, c) /\ AtSwap(h, k, c) => g = h
    BY <2>3 DEF AtSwap
  <2> QED
    BY <2>1, <2>4, <2>5
<1>7. CASE p = <<"co_spawn_queue", c>>
  <2>1. \A h : AtSpot(h, k, p) <=> AtQueue(h, k, c)
    BY <1>7 DEF AtSpot
  <2>2. k \in Cells[p] <=> k \in Elements(inbox[c].queue)
    BY <1>2, <1>7 DEF CellsAre
  <2>3. /\ (\E i \in DOMAIN inbox[c].queue : inbox[c].queue[i] = k) <=> k \in Elements(inbox[c].queue)
        /\ \A i, j \in DOMAIN inbox[c].queue : inbox[c].queue[i] = k /\ inbox[c].queue[j] = k => i = j
    BY <1>3, <1>4, OncePlace DEF OnceEach, Uniq
  <2>4. k \in Cells[p] <=> \E h : AtQueue(h, k, c)
    BY <2>2, <2>3 DEF AtQueue
  <2>5. \A g, h : AtQueue(g, k, c) /\ AtQueue(h, k, c) => g = h
    BY <2>3 DEF AtQueue
  <2> QED
    BY <2>1, <2>4, <2>5
<1>8. CASE p = <<"sq", c>>
  <2>1. \A h : AtSpot(h, k, p) <=> AtSq(h, k, c)
    BY <1>8 DEF AtSpot
  <2>2. k \in Cells[p] <=> k \in Msgs(Elements(ring[c].sq))
    BY <1>2, <1>8 DEF CellsAre, SqSet
  <2>3. /\ (\E i \in DOMAIN ring[c].sq : ring[c].sq[i].op = "msg" /\ ring[c].sq[i].coro = k)
             <=> k \in Msgs(Elements(ring[c].sq))
        /\ \A i, j \in DOMAIN ring[c].sq : (ring[c].sq[i].op = "msg" /\ ring[c].sq[i].coro = k)
             /\ (ring[c].sq[j].op = "msg" /\ ring[c].sq[j].coro = k) => i = j
    <3>1. PICK q \in Seq(Requests) : q = ring[c].sq
      BY <1>4
    <3>2. OneMsg(q)
      BY <1>3, <3>1 DEF OnceEach
    <3>3. /\ (\E i \in DOMAIN q : q[i].op = "msg" /\ q[i].coro = k) <=> k \in Msgs(Elements(q))
          /\ \A i, j \in DOMAIN q :
               (q[i].op = "msg" /\ q[i].coro = k) /\ (q[j].op = "msg" /\ q[j].coro = k) => i = j
      BY <3>2, OnceMsgPlace
    <3> QED
      BY <3>1, <3>3
  <2>4. k \in Cells[p] <=> \E h : AtSq(h, k, c)
    BY <2>2, <2>3 DEF AtSq
  <2>5. \A g, h : AtSq(g, k, c) /\ AtSq(h, k, c) => g = h
    BY <2>3 DEF AtSq
  <2> QED
    BY <2>1, <2>4, <2>5
<1>9. CASE p = <<"cq", c>>
  <2>1. \A h : AtSpot(h, k, p) <=> AtCq(h, k, c)
    BY <1>9 DEF AtSpot
  <2>2. k \in Cells[p] <=> k \in Msgs(Elements(ring[c].cq))
    BY <1>2, <1>9 DEF CellsAre, CqSet
  <2>3. /\ (\E i \in DOMAIN ring[c].cq : ring[c].cq[i].op = "msg" /\ ring[c].cq[i].coro = k)
             <=> k \in Msgs(Elements(ring[c].cq))
        /\ \A i, j \in DOMAIN ring[c].cq : (ring[c].cq[i].op = "msg" /\ ring[c].cq[i].coro = k)
             /\ (ring[c].cq[j].op = "msg" /\ ring[c].cq[j].coro = k) => i = j
    BY <1>3, <1>4, OnceMsgPlace DEF OnceEach
  <2>4. k \in Cells[p] <=> \E h : AtCq(h, k, c)
    BY <2>2, <2>3 DEF AtCq
  <2>5. \A g, h : AtCq(g, k, c) /\ AtCq(h, k, c) => g = h
    BY <2>3 DEF AtCq
  <2> QED
    BY <2>1, <2>4, <2>5
<1> QED
  BY <1>1, <1>5, <1>6, <1>7, <1>8, <1>9

\* A request that is awaited is in one place of its ring.
LEMMA IoHandles ==
  ASSUME IoBase, PlacesOK, NEW k \in Coros, NEW c \in Ctx
  PROVE  /\ k \in IoF[c] <=> \E h : AtIo(h, k, c)
         /\ \A g, h : AtIo(g, k, c) /\ AtIo(h, k, c) => g = h
<1>1. PICK x : x = ring[c]
  OBVIOUS
<1>2. OneIo(x) /\ OnceIn(x)
  BY <1>1, IoAt DEF PlacesOK, OnceEach, RingGood
<1>3. PICK O : O = Outstanding(c)
  OBVIOUS
<1>4. \A o : o \in O <=> \/ \E i \in DOMAIN x.sq : o = <<"sq", i, x.sq[i]>>
                         \/ \E r \in x.kernel : o = <<"kernel", 0, r>>
                         \/ \E i \in DOMAIN x.cq : o = <<"cq", i, x.cq[i]>>
  BY <1>1, <1>3 DEF Outstanding
<1>5. \A o \in O : o[3] \in Present(x)
  BY <1>4 DEF Present, Elements
<1>6. \A r \in Present(x) : \E o \in O : o[3] = r
  <2> SUFFICES ASSUME NEW r \in Present(x) PROVE \E o \in O : o[3] = r
    OBVIOUS
  <2>1. CASE r \in Elements(x.sq)
    <3>1. PICK i \in DOMAIN x.sq : x.sq[i] = r
      BY <2>1 DEF Elements
    <3>2. PICK o : o = <<"sq", i, r>>
      OBVIOUS
    <3>3. o \in O /\ o[3] = r
      BY <1>4, <3>1, <3>2
    <3> QED
      BY <3>3
  <2>2. CASE r \in x.kernel
    <3>1. PICK o : o = <<"kernel", 0, r>>
      OBVIOUS
    <3>2. o \in O /\ o[3] = r
      BY <1>4, <2>2, <3>1
    <3> QED
      BY <3>2
  <2>3. CASE r \in Elements(x.cq)
    <3>1. PICK i \in DOMAIN x.cq : x.cq[i] = r
      BY <2>3 DEF Elements
    <3>2. PICK o : o = <<"cq", i, r>>
      OBVIOUS
    <3>3. o \in O /\ o[3] = r
      BY <1>4, <3>1, <3>2
    <3> QED
      BY <3>3
  <2> QED
    BY <2>1, <2>2, <2>3 DEF Present
<1>7. k \in IoF[c] <=> \E o \in O : o[3].op = "io" /\ o[3].coro = k
  <2>1. k \in IoF[c] <=> k \in Ios(Present(x))
    BY <1>1, CellsAt DEF CellsAre
  <2> QED
    BY <1>5, <1>6, <2>1 DEF Ios
<1>8. ASSUME NEW o \in O, NEW u \in O, o[3].op = "io", u[3].op = "io", o[3].coro = u[3].coro PROVE o = u
  <2>1. o[3] = u[3]
    BY <1>2, <1>5, <1>8 DEF OneIo
  <2>2. Owes(o[3]) /\ Owes(u[3])
    BY <1>8 DEF Owes, Counted
  <2> QED
    BY <1>2, <1>4, <2>1, <2>2 DEF OnceIn, Elements
<1>9. \A h : AtIo(h, k, c) <=> \E o \in O : o[3].op = "io" /\ o[3].coro = k /\ h = <<"ring", c, o>>
  BY <1>3 DEF AtIo
<1>10. (\E o \in O : o[3].op = "io" /\ o[3].coro = k) <=> \E h : AtIo(h, k, c)
  <2>1. ASSUME NEW o \in O, o[3].op = "io", o[3].coro = k PROVE AtIo(<<"ring", c, o>>, k, c)
    BY <1>9, <2>1
  <2> QED
    BY <1>9, <2>1
<1>11. ASSUME NEW g, NEW h, AtIo(g, k, c), AtIo(h, k, c) PROVE g = h
  <2>1. PICK o \in O : o[3].op = "io" /\ o[3].coro = k /\ g = <<"ring", c, o>>
    BY <1>9, <1>11
  <2>2. PICK u \in O : u[3].op = "io" /\ u[3].coro = k /\ h = <<"ring", c, u>>
    BY <1>9, <1>11
  <2>3. o = u
    BY <1>8, <2>1, <2>2
  <2> QED
    BY <2>1, <2>2, <2>3
<1> QED
  BY <1>7, <1>10, <1>11

\* What Handles(k) is.
LEMMA HandlesAre ==
  ASSUME IoBase, NEW k \in Coros, NEW h
  PROVE  h \in Handles(k) <=> \/ \E p \in Spots : AtSpot(h, k, p)
                              \/ ~ coro[k].prepared /\ \E c \in Ctx : AtIo(h, k, c)
<1> DEFINE AtRing(c) == \E o \in Outstanding(c) : /\ o[3].op \in Resuming /\ o[3].coro = k
                                                  /\ o[3].op = "io" => ~ coro[k].prepared
                                                  /\ h = <<"ring", c, o>>
<1>1. h \in Handles(k) <=> \E c \in Ctx : \/ AtRunning(h, k, c) \/ AtSwap(h, k, c)
                                            \/ AtQueue(h, k, c) \/ AtRing(c)
  <2> DEFINE R(c) == {<<"running", c>> : n \in {m \in {1} : loop[c].running = k}}
             W(c) == {<<"reap_swap", c, i>> : i \in {j \in DOMAIN worker[c].reap_swap :
                                                       worker[c].reap_swap[j] = k}}
             Q(c) == {<<"co_spawn_queue", c, i>> : i \in {j \in DOMAIN inbox[c].queue :
                                                            inbox[c].queue[j] = k}}
             N(c) == {<<"ring", c, o>> : o \in {p \in Outstanding(c) :
                                                  /\ p[3].op \in Resuming /\ p[3].coro = k
                                                  /\ p[3].op = "io" => ~ coro[k].prepared}}
             H(c) == R(c) \cup W(c) \cup Q(c) \cup N(c)
  <2>1. Handles(k) = UNION {H(c) : c \in Ctx}
    BY DEF Handles
  <2>2. ASSUME NEW c \in Ctx PROVE h \in R(c) <=> AtRunning(h, k, c)
    BY DEF AtRunning
  <2>3. ASSUME NEW c \in Ctx PROVE h \in W(c) <=> AtSwap(h, k, c)
    BY DEF AtSwap
  <2>4. ASSUME NEW c \in Ctx PROVE h \in Q(c) <=> AtQueue(h, k, c)
    BY DEF AtQueue
  <2>5. ASSUME NEW c \in Ctx PROVE h \in N(c) <=> AtRing(c)
    OBVIOUS
  <2> HIDE DEF R, W, Q, N, AtRing
  <2>6. ASSUME NEW c \in Ctx
        PROVE  h \in H(c) <=> \/ AtRunning(h, k, c) \/ AtSwap(h, k, c) \/ AtQueue(h, k, c) \/ AtRing(c)
    BY <2>2, <2>3, <2>4, <2>5
  <2> HIDE DEF H
  <2> QED
    BY <2>1, <2>6
<1>2. ASSUME NEW c \in Ctx
      PROVE  AtRing(c) <=> AtSq(h, k, c) \/ AtCq(h, k, c) \/ (~ coro[k].prepared /\ AtIo(h, k, c))
  <2>1. PICK x : x = ring[c]
    OBVIOUS
  <2>2. PICK O : O = Outstanding(c)
    OBVIOUS
  <2>3. \A o : o \in O <=> \/ \E i \in DOMAIN x.sq : o = <<"sq", i, x.sq[i]>>
                           \/ \E r \in x.kernel : o = <<"kernel", 0, r>>
                           \/ \E i \in DOMAIN x.cq : o = <<"cq", i, x.cq[i]>>
    BY <2>1, <2>2 DEF Outstanding
  <2>4. \A r \in x.kernel : r.op # "msg"
    BY <2>1, IoAt DEF RingGood
  <2>5. ASSUME NEW o \in O, o[3].op = "msg", o[3].coro = k, h = <<"ring", c, o>>
        PROVE  AtSq(h, k, c) \/ AtCq(h, k, c)
    <3>1. CASE \E i \in DOMAIN x.sq : o = <<"sq", i, x.sq[i]>>
      <4>1. PICK i \in DOMAIN x.sq : o = <<"sq", i, x.sq[i]>>
        BY <3>1
      <4>2. o[3] = x.sq[i]
        BY <4>1
      <4> QED
        BY <2>1, <2>5, <4>1, <4>2 DEF AtSq
    <3>2. CASE \E i \in DOMAIN x.cq : o = <<"cq", i, x.cq[i]>>
      <4>1. PICK i \in DOMAIN x.cq : o = <<"cq", i, x.cq[i]>>
        BY <3>2
      <4>2. o[3] = x.cq[i]
        BY <4>1
      <4> QED
        BY <2>1, <2>5, <4>1, <4>2 DEF AtCq
    <3>3. CASE \E r \in x.kernel : o = <<"kernel", 0, r>>
      BY <2>4, <2>5, <3>3
    <3> QED
      BY <2>3, <3>1, <3>2, <3>3
  <2>6. ASSUME AtSq(h, k, c) \/ AtCq(h, k, c)
        PROVE  \E o \in O : o[3].op = "msg" /\ o[3].coro = k /\ h = <<"ring", c, o>>
    <3>1. CASE AtSq(h, k, c)
      <4>1. PICK i \in DOMAIN x.sq : /\ x.sq[i].op = "msg" /\ x.sq[i].coro = k
                                     /\ h = <<"ring", c, <<"sq", i, x.sq[i]>>>>
        BY <2>1, <3>1 DEF AtSq
      <4>2. PICK o : o = <<"sq", i, x.sq[i]>>
        OBVIOUS
      <4>3. o \in O /\ o[3] = x.sq[i] /\ h = <<"ring", c, o>>
        BY <2>3, <4>1, <4>2
      <4> QED
        BY <4>1, <4>3
    <3>2. CASE AtCq(h, k, c)
      <4>1. PICK i \in DOMAIN x.cq : /\ x.cq[i].op = "msg" /\ x.cq[i].coro = k
                                     /\ h = <<"ring", c, <<"cq", i, x.cq[i]>>>>
        BY <2>1, <3>2 DEF AtCq
      <4>2. PICK o : o = <<"cq", i, x.cq[i]>>
        OBVIOUS
      <4>3. o \in O /\ o[3] = x.cq[i] /\ h = <<"ring", c, o>>
        BY <2>3, <4>1, <4>2
      <4> QED
        BY <4>1, <4>3
    <3> QED
      BY <2>6, <3>1, <3>2
  <2>7. AtRing(c) <=> \/ \E o \in O : o[3].op = "msg" /\ o[3].coro = k /\ h = <<"ring", c, o>>
                      \/ ~ coro[k].prepared
                         /\ \E o \in O : o[3].op = "io" /\ o[3].coro = k /\ h = <<"ring", c, o>>
    BY <2>2 DEF Resuming
  <2>8. AtIo(h, k, c) <=> \E o \in O : o[3].op = "io" /\ o[3].coro = k /\ h = <<"ring", c, o>>
    BY <2>2 DEF AtIo
  <2> HIDE DEF AtRing
  <2> QED
    BY <2>5, <2>6, <2>7, <2>8
<1> HIDE DEF AtRing
<1>3. (\E p \in Spots : AtSpot(h, k, p)) <=>
        \E c \in Ctx : \/ AtRunning(h, k, c) \/ AtSwap(h, k, c) \/ AtQueue(h, k, c)
                       \/ AtSq(h, k, c) \/ AtCq(h, k, c)
  <2>1. \A c \in Ctx : /\ AtRunning(h, k, c) => AtSpot(h, k, <<"running", c>>)
                       /\ AtSwap(h, k, c) => AtSpot(h, k, <<"reap_swap", c>>)
                       /\ AtQueue(h, k, c) => AtSpot(h, k, <<"co_spawn_queue", c>>)
                       /\ AtSq(h, k, c) => AtSpot(h, k, <<"sq", c>>)
                       /\ AtCq(h, k, c) => AtSpot(h, k, <<"cq", c>>)
    BY DEF AtSpot
  <2>2. \A c \in Ctx : /\ <<"running", c>> \in Spots /\ <<"reap_swap", c>> \in Spots
                       /\ <<"co_spawn_queue", c>> \in Spots /\ <<"sq", c>> \in Spots /\ <<"cq", c>> \in Spots
    BY SpotsOf
  <2>3. \A p : AtSpot(h, k, p) => \E c \in Ctx : \/ AtRunning(h, k, c) \/ AtSwap(h, k, c) \/ AtQueue(h, k, c)
                                                \/ AtSq(h, k, c) \/ AtCq(h, k, c)
    BY DEF AtSpot
  <2> QED
    BY <2>1, <2>2, <2>3
<1> QED
  BY <1>1, <1>2, <1>3

\* HandleInOnePlace, for one coroutine.
LEMMA OneHandle ==
  ASSUME IoBase, PlacesOK, NEW k \in Coros
  PROVE  Cardinality(Handles(k)) = IF coro[k].st = "live" THEN 1 ELSE 0
<1>1. ASSUME NEW h
      PROVE  h \in Handles(k) <=> \/ \E p \in Spots : AtSpot(h, k, p)
                                  \/ ~ coro[k].prepared /\ \E c \in Ctx : AtIo(h, k, c)
  BY HandlesAre
<1>2. \A p \in Spots : /\ k \in Cells[p] <=> \E h : AtSpot(h, k, p)
                       /\ \A g, h : AtSpot(g, k, p) /\ AtSpot(h, k, p) => g = h
  BY SpotHandles
<1>3. \A c \in Ctx : /\ k \in IoF[c] <=> \E h : AtIo(h, k, c)
                     /\ \A g, h : AtIo(g, k, c) /\ AtIo(h, k, c) => g = h
  BY IoHandles
<1>4. (coro[k].prepared <=> k \in Prep) /\ (k \in Live <=> coro[k].st = "live")
  BY DEF Prep, Live
<1>5. FlagsOK /\ Parted(Cells, Spots, Live \ Held) /\ Parted(IoF, Ctx, Held \cup Prep)
  BY DEF PlacesOK
<1>6. CASE k \notin Live
  <2>1. \A p \in Spots : k \notin Cells[p]
    BY <1>5, <1>6 DEF Parted
  <2>2. \A c \in Ctx : k \notin IoF[c]
    BY <1>5, <1>6 DEF Parted, FlagsOK
  <2>3. Handles(k) = {}
    BY <1>1, <1>2, <1>3, <2>1, <2>2
  <2> QED
    BY <1>4, <1>6, <2>3, FS_EmptySet
<1>7. CASE k \in Live /\ k \in Held
  <2>1. \A p \in Spots : k \notin Cells[p]
    BY <1>5, <1>7 DEF Parted
  <2>2. PICK c \in Ctx : k \in IoF[c]
    BY <1>5, <1>7 DEF Parted
  <2>3. \A d \in Ctx : k \in IoF[d] => d = c
    BY <1>5, <2>2 DEF Parted
  <2>4. k \notin Prep
    BY <1>5, <1>7 DEF FlagsOK
  <2>5. PICK g : AtIo(g, k, c)
    BY <1>3, <2>2
  <2>6. \A h : h \in Handles(k) <=> h = g
    BY <1>1, <1>2, <1>3, <1>4, <2>1, <2>3, <2>4, <2>5
  <2>7. Handles(k) = {g}
    BY <2>6
  <2> QED
    BY <1>4, <1>7, <2>7, FS_Singleton
<1>8. CASE k \in Live /\ k \notin Held
  <2>1. PICK p \in Spots : k \in Cells[p]
    BY <1>5, <1>8 DEF Parted
  <2>2. \A r \in Spots : k \in Cells[r] => r = p
    BY <1>5, <2>1 DEF Parted
  <2>3. \A c \in Ctx : k \in IoF[c] => coro[k].prepared
    BY <1>4, <1>5, <1>8 DEF Parted
  <2>4. PICK g : AtSpot(g, k, p)
    BY <1>2, <2>1
  <2>5. ASSUME NEW h \in Handles(k) PROVE h = g
    <3>1. ~ (~ coro[k].prepared /\ \E c \in Ctx : AtIo(h, k, c))
      BY <1>3, <2>3
    <3>2. PICK r \in Spots : AtSpot(h, k, r)
      BY <1>1, <3>1
    <3>3. r = p
      BY <1>2, <2>2, <3>2
    <3> QED
      BY <1>2, <2>4, <3>2, <3>3
  <2>6. g \in Handles(k)
    BY <1>1, <2>4
  <2>7. Handles(k) = {g}
    BY <2>5, <2>6
  <2> QED
    BY <1>4, <1>8, <2>7, FS_Singleton
<1> QED
  BY <1>6, <1>7, <1>8

\* HandleInOnePlace is part of it.
LEMMA OnePlace == IoBase /\ TypeOK /\ Placed => HandleInOnePlace
<1> SUFFICES ASSUME IoBase, TypeOK, Placed PROVE HandleInOnePlace
  OBVIOUS
<1>2. ASSUME halted = "no", ~ failed, NEW k \in Coros
      PROVE  Cardinality(Handles(k)) = IF coro[k].st = "live" THEN 1 ELSE 0
  <2>1. PlacesOK
    BY <1>2 DEF Placed
  <2> QED
    BY <2>1, OneHandle
<1> QED
  BY <1>2 DEF HandleInOnePlace

\* HandleInOnePlace: in a program whose coroutines fit into reap_swap, until a
\* detached request fails, a live coroutine's handle is in exactly one place of
\* one context, whatever it awaits and wherever it is sent, and that of a
\* finished one nowhere.
THEOREM IoHandleInOnePlace ==
  ASSUME Roomy
  PROVE  Spec => []HandleInOnePlace
BY IoBaseHolds, IoTypeCorrect, PlacedHolds, OnePlace, PTL
-----------------------------------------------------------------------------
\* Who reaps an empty handle.

\* An I/O cqe that finds no handle is that of an awaiter whose coroutine has
\* constructed it and not awaited it yet.
LEMMA EmptyHandle ==
  ASSUME IoBase, PlacesOK, ~ failed, halted = "no", NEW c \in Ctx, HandleIo(c),
         halted' = "empty_task"
  PROVE  /\ Reaping(c, "io") /\ Seen(c)
         /\ coro[Head(ring[c].cq).coro].prepared
<1>1. PICK h : h = Head(ring[c].cq)
  OBVIOUS
<1>2. PICK k : k = h.coro
  OBVIOUS
<1>3. ring[c].cq # <<>> /\ (h.op = "io" \/ h.op = "skip")
  BY <1>1, ReapingAt DEF HandleIo
<1>4. h \in Requests /\ h.op = "io" /\ k \in Coros
  BY <1>1, <1>2, <1>3, HeadOK DEF ReqOK
<1>5. h \in Present(ring[c])
  <2>1. ring[c].cq \in Seq(Requests)
    BY IoAt DEF Rings
  <2>2. h \in Elements(ring[c].cq)
    BY <1>1, <1>3, <2>1, ElementsTail
  <2> QED
    BY <2>2 DEF Present
<1>6. k \in Ios(Present(ring[c]))
  BY <1>2, <1>4, <1>5 DEF Ios
<1>7. k \in Held \cup Prep
  BY <1>6, IosHeld
<1>8. \E g \in {None, k} : (g = k <=> coro[k].handle) /\ ReapAndForward(c, g)
  BY <1>1, <1>2, <1>4 DEF HandleIo
<1>9. k # None
  BY <1>4, IoAt
<1>10. ~ coro[k].handle
  BY <1>8, <1>9 DEF ReapAndForward
<1>11. coro[k].prepared
  BY <1>4, <1>7, <1>10 DEF Held, Prep
<1>12. Reaping(c, "io") /\ Seen(c)
  BY <1>1, <1>4 DEF HandleIo, Reaping
<1> QED
  BY <1>1, <1>2, <1>11, <1>12

\* Only the reaper of an I/O can halt a context so.
LEMMA HaltsOnIo ==
  ASSUME Next, halted' = "empty_task"
  PROVE  halted = "no" /\ \E c \in Ctx : HandleIo(c)
<1>1. PICK c \in Ctx : \/ Step(c, Thread(c)) \/ Step(c, Kernel(c))
                       \/ Step(c, Interrupt(c)) \/ Step(c, BarrierTimeout(c))
  BY DEF Next
<1>2. halted = "no"
  BY <1>1 DEF Step
<1>3. Thread(c)
  <2>1. CASE Kernel(c)
    BY <1>2, <2>1 DEF Kernel, KernelIo, KernelSkip, KernelEvent
  <2>2. CASE Interrupt(c)
    BY <1>2, <2>2 DEF Interrupt, WaitReturns
  <2>3. CASE BarrierTimeout(c)
    BY <2>3 DEF BarrierTimeout
  <2> QED
    BY <1>1, <2>1, <2>2, <2>3 DEF Step
<1>4. ~ Coroutine(c)
  BY <1>2 DEF Coroutine, AwaitIo, AwaitLink, AwaitTimeout, PrepareIo, AwaitPrepared,
         Detach, Yield, CoSpawn, ResumeOn, StopContext, Return
<1>5. ~ (HandleLink(c) \/ HandleMsg(c) \/ HandleEvent(c))
  BY <1>2 DEF HandleLink, HandleMsg, HandleEvent
<1>6. ~ (\/ Start(c) \/ PassBarrier(c) \/ Run(c) \/ WorkOnce(c) \/ EventWrite(c)
         \/ PollSubmission(c) \/ Wake(c) \/ Peek(c) \/ BadPeek(c)
         \/ PollDone(c) \/ BadPollDone(c) \/ DecideOver(c) \/ Deinit(c))
  BY <1>2 DEF Start, PassBarrier, Run, WorkOnce, EventWrite, PollSubmission, Wake,
         WaitReturns, Peek, BadPeek, PollDone, BadPollDone, DecideOver, Deinit
<1> QED
  BY <1>2, <1>3, <1>4, <1>5, <1>6 DEF Thread, Reap

\* EmptyOnlyIfCareless: as long as no detached request has failed, the cqe that
\* trips forward_task's assertion is that of an awaiter whose coroutine was
\* suspended on something else between its construction and its co_await; every
\* other request's cqe finds the handle stored, however submission, completion
\* and transfers between the contexts interleave.
THEOREM IoEmptyOnlyIfCareless ==
  ASSUME Roomy
  PROVE  Spec => EmptyOnlyIfCareless
<1>1. ASSUME IoBase, Placed, [Next]_(vars)
      PROVE  [halted' = "empty_task" /\ ~ failed =>
                \E c \in Ctx : /\ Reaping(c, "io") /\ Seen(c)
                               /\ coro[Head(ring[c].cq).coro].prepared]_(vars)
  <2> SUFFICES ASSUME Next, halted' = "empty_task", ~ failed
               PROVE  \E c \in Ctx : /\ Reaping(c, "io") /\ Seen(c)
                                     /\ coro[Head(ring[c].cq).coro].prepared
    BY <1>1
  <2>1. halted = "no" /\ \E c \in Ctx : HandleIo(c)
    BY HaltsOnIo
  <2>2. PlacesOK
    BY <1>1, <2>1 DEF Placed
  <2> QED
    BY <1>1, <2>1, <2>2, EmptyHandle
<1>2. Spec => []IoBase
  BY IoBaseHolds
<1>3. Spec => []Placed
  BY PlacedHolds
<1> QED
  BY <1>1, <1>2, <1>3, PTL DEF Spec, EmptyOnlyIfCareless

-----------------------------------------------------------------------------
\* When a context may stop.

\* Nobody calls io_context_stop().
KeepsOn == "stop" \notin setup.ops

\* The builds and programs in which a context hears of every task sent to it
\* before it decides that all is over: its waits end with a cqe, and messages
\* need no eventfd, or the contexts outlive each other.
Orderly == KeepsOn \/ (setup.msg_ring /\ ~ setup.signals)

\* A request that is not a message, and the I/O ones are sent to nobody.
Plain(r) == r.op # "msg" /\ (r.op = "io" => r.to = None)

\* Every sqe is going to be submitted, messages before the thread leaves the
\* work phase; a message in a cq is for this context; nobody sends to himself.
MailOK(c) ==
  /\ worker[c].requests_to_submit = Len(ring[c].sq)
  /\ \A r \in SqSet(ring[c]) :
       Plain(r) \/ (loop[c].phase = "work" /\ c \in setup.ctx /\ r.op = "msg" /\ setup.ctx # {r.to})
  /\ \A r \in CqSet(ring[c]) : Plain(r) \/ (r.op = "msg" /\ r.to = c /\ setup.ctx # {c})
  /\ \A r \in ring[c].kernel : Plain(r)
  /\ inbox[c].queue # <<>> => ~ setup.msg_ring /\ setup.ctx # {c}

\* Nobody passes the barrier before everybody is there.
BarrierOK == \A c, d \in setup.ctx :
               loop[c].phase \notin {"created", "barrier"} => loop[d].phase # "created"

\* Without io_context_stop() a context ends only if it is the only one.
KeepOK == KeepsOn => \A c \in setup.ctx :
            loop[c].will_stop \/ loop[c].phase \in {"deinit", "stopped"} => setup.ctx = {c}

Alone(c) == \A d \in setup.ctx \ {c} : loop[d].phase = "stopped"

\* Nothing to run here, and nobody is left to send anything, or all stay.
Settled(c) == /\ worker[c].reap_swap = <<>>
              /\ \/ Alone(c) /\ \A r \in CqSet(ring[c]) : r.op # "msg"
                 \/ KeepsOn /\ setup.ctx # {c}

\* do_completion_part_bad_path is entered with nothing to run, and ends with a
\* cqe handled or a settled context.
OverOK(c) ==
  /\ loop[c].phase \in {"bad_peek", "bad_wait"} => worker[c].reap_swap = <<>>
  /\ loop[c].phase = "bad_poll" => loop[c].handled \/ ring[c].cq # <<>> \/ Settled(c)
  /\ loop[c].phase = "over" => loop[c].handled \/ Settled(c)

DrainOK == /\ \A c \in Ctx : MailOK(c)
           /\ BarrierOK /\ KeepOK
           /\ \A c \in setup.ctx : OverOK(c)

\* What most steps do to the requests of d: those that come are plain.
Mailed(d) ==
  /\ worker'[d].requests_to_submit = Len(ring'[d].sq)
  /\ \A r \in SqSet(ring'[d]) : r \in SqSet(ring[d]) \/ Plain(r)
  /\ \A r \in ring'[d].kernel : r \in ring[d].kernel
  /\ \A r \in CqSet(ring'[d]) : r \in CqSet(ring[d]) \/ r \in ring[d].kernel
  /\ inbox'[d].queue \in {<<>>, inbox[d].queue}
  /\ loop[d].phase = "work" => loop'[d].phase = "work"

\* Such a step keeps the mail in order.
LEMMA MailStays == ASSUME NEW d \in Ctx, MailOK(d), Mailed(d), UNCHANGED setup PROVE MailOK(d)'
<1>2. \A r : Plain(r)' <=> Plain(r)
  BY DEF Plain
<1>3. \A r \in SqSet(ring'[d]) :
        Plain(r) \/ (loop'[d].phase = "work" /\ d \in setup'.ctx /\ r.op = "msg" /\ setup'.ctx # {r.to})
  BY DEF MailOK, Mailed
<1>4. \A r \in CqSet(ring'[d]) : Plain(r) \/ (r.op = "msg" /\ r.to = d /\ setup'.ctx # {d})
  BY DEF MailOK, Mailed
<1> QED
  BY <1>2, <1>3, <1>4 DEF MailOK, Mailed, SqSet, CqSet

\* What another context's step leaves alone.
Untouched(d) == worker'[d] = worker[d] /\ loop'[d] = loop[d] /\ ring'[d] = ring[d]

\* Nothing of d changes.
LEMMA MailKept ==
  ASSUME NEW d \in Ctx, MailOK(d), Untouched(d), inbox'[d].queue = inbox[d].queue, UNCHANGED setup
  PROVE  MailOK(d)'
<1>1. Mailed(d)
  BY DEF Mailed, MailOK, Untouched, SqSet, CqSet
<1> QED
  BY <1>1, MailStays

\* The thread of c does not go back before the barrier, nor past it, and ends
\* only if it was told to.
AtGate(c) == /\ loop'[c].phase = "created" => loop[c].phase = "created"
             /\ loop[c].phase \in {"created", "barrier"} => loop'[c].phase \in {"created", "barrier"}

StaysIn(c) == loop'[c].will_stop \/ loop'[c].phase \in {"deinit", "stopped"} =>
                loop[c].will_stop \/ loop[c].phase \in {"deinit", "stopped"}

StaysOut(c) == loop[c].phase = "stopped" => loop'[c].phase = "stopped"

\* The barrier holds.
LEMMA BarrierStays ==
  ASSUME BarrierOK, NEW c \in setup.ctx, setup.ctx \subseteq Ctx, UNCHANGED setup,
         \A d \in Ctx \ {c} : loop'[d] = loop[d], AtGate(c)
  PROVE  BarrierOK'
<1>1. ASSUME NEW d \in setup.ctx PROVE loop'[d].phase = "created" => loop[d].phase = "created"
  BY DEF AtGate
<1>2. ASSUME NEW d \in setup.ctx PROVE loop[d].phase \in {"created", "barrier"} => loop'[d].phase \in {"created", "barrier"}
  BY DEF AtGate
<1> QED
  BY <1>1, <1>2 DEF BarrierOK

\* Nobody ends.
LEMMA KeepStays ==
  ASSUME KeepOK, NEW c \in setup.ctx, setup.ctx \subseteq Ctx, UNCHANGED setup,
         \A d \in Ctx \ {c} : loop'[d] = loop[d], StaysIn(c)
  PROVE  KeepOK'
<1>1. ASSUME NEW d \in setup.ctx, loop'[d].will_stop \/ loop'[d].phase \in {"deinit", "stopped"}
      PROVE  loop[d].will_stop \/ loop[d].phase \in {"deinit", "stopped"}
  BY <1>1 DEF StaysIn
<1>2. KeepsOn' <=> KeepsOn
  BY DEF KeepsOn
<1> QED
  BY <1>1, <1>2 DEF KeepOK

\* A context that is alone stays alone, and a step of another one that is not
\* finished shows that it was not.
LEMMA AloneStays ==
  ASSUME NEW c \in setup.ctx, NEW d \in setup.ctx, setup.ctx \subseteq Ctx, UNCHANGED setup,
         \A e \in Ctx \ {c} : loop'[e] = loop[e], d = c \/ StaysOut(c), Alone(d)
  PROVE  Alone(d)'
BY DEF Alone, StaysOut

\* What another context decides on stays as it was.
LEMMA OverOthers ==
  ASSUME NEW c \in setup.ctx, NEW d \in setup.ctx \ {c}, setup.ctx \subseteq Ctx, UNCHANGED setup,
         \A e \in Ctx \ {c} : loop'[e] = loop[e], StaysOut(c), worker'[d] = worker[d],
         ring'[d] = ring[d] \/ loop[c].phase = "work", ring[d].cq # <<>> => ring'[d].cq # <<>>, OverOK(d)
  PROVE  OverOK(d)'
<1>1. ASSUME Settled(d) PROVE Settled(d)'
  <2>1. KeepsOn' <=> KeepsOn
    BY DEF KeepsOn
  <2>2. CASE Alone(d) /\ \A r \in CqSet(ring[d]) : r.op # "msg"
    <3>1. loop[c].phase = "stopped"
      BY <2>2 DEF Alone
    <3>2. Alone(d)' /\ ring'[d] = ring[d]
      BY <2>2, <3>1, AloneStays
    <3> QED
      BY <1>1, <2>2, <3>2 DEF Settled, CqSet
  <2>3. CASE KeepsOn /\ setup.ctx # {d}
    BY <1>1, <2>1, <2>3 DEF Settled
  <2> QED
    BY <1>1, <2>2, <2>3 DEF Settled
<1>2. loop'[d] = loop[d]
  OBVIOUS
<1> QED
  BY <1>1, <1>2 DEF OverOK

\* All of it.
LEMMA DrainStep ==
  ASSUME IoBase, DrainOK, NEW c \in setup.ctx, UNCHANGED setup, \A d \in Ctx \ {c} : Untouched(d),
         AtGate(c), StaysIn(c), StaysOut(c), \A d \in Ctx : MailOK(d)', OverOK(c)'
  PROVE  DrainOK'
<1>1. setup.ctx \subseteq Ctx
  BY IoConstantsFacts DEF IoBase, IoTypes
<1>2. \A d \in Ctx \ {c} : loop'[d] = loop[d] /\ ring'[d] = ring[d] /\ worker'[d] = worker[d]
  BY DEF Untouched
<1>3. BarrierOK'
  BY <1>1, <1>2, BarrierStays DEF DrainOK
<1>4. KeepOK'
  BY <1>1, <1>2, KeepStays DEF DrainOK
<1>5. ASSUME NEW d \in setup.ctx \ {c} PROVE OverOK(d)'
  BY <1>1, <1>2, OverOthers DEF DrainOK
<1>6. \A d \in setup'.ctx : OverOK(d)'
  BY <1>5
<1> QED
  BY <1>3, <1>4, <1>6 DEF DrainOK

\* Nothing c decides on changes.
LEMMA OverSame ==
  ASSUME NEW c \in setup.ctx, setup.ctx \subseteq Ctx, UNCHANGED setup, OverOK(c),
         \A e \in Ctx \ {c} : loop'[e] = loop[e], loop'[c].phase = loop[c].phase,
         loop'[c].handled = loop[c].handled, worker'[c].reap_swap = worker[c].reap_swap,
         ring[c].cq # <<>> => ring'[c].cq # <<>>,
         \A r \in CqSet(ring'[c]) : r \in CqSet(ring[c]) \/ r.op # "msg"
  PROVE  OverOK(c)'
<1>1. ASSUME Settled(c) PROVE Settled(c)'
  <2>1. KeepsOn' <=> KeepsOn
    BY DEF KeepsOn
  <2>2. Alone(c) => Alone(c)'
    BY AloneStays
  <2>3. (\A r \in CqSet(ring[c]) : r.op # "msg") => \A r \in CqSet(ring'[c]) : r.op # "msg"
    OBVIOUS
  <2> QED
    BY <1>1, <2>1, <2>2, <2>3 DEF Settled, CqSet
<1> QED
  BY <1>1 DEF OverOK

\* Outside do_completion_part_bad_path there is nothing to show.
LEMMA OverElsewhere ==
  ASSUME NEW c, loop'[c].phase \notin {"bad_peek", "bad_wait", "bad_poll", "over"} \/
                (loop'[c].phase = "bad_poll" /\ loop'[c].handled)
  PROVE  OverOK(c)'
BY DEF OverOK

\* The thread moves on.
LEMMA GotoEffect ==
  ASSUME IoBase, NEW c \in Ctx, NEW p, Goto(c, p)
  PROVE  /\ \A d \in Ctx \ {c} : loop'[d] = loop[d]
         /\ loop'[c].phase = p /\ loop'[c].handled = loop[c].handled
         /\ loop'[c].will_stop = loop[c].will_stop
<1>1. loop \in [Ctx -> Loops]
  BY IoAt
<1> QED
  BY <1>1 DEF Goto, Loops

\* while (!will_stop)
LEMMA RoundEffect ==
  ASSUME IoBase, NEW c \in Ctx, NextRound(c)
  PROVE  /\ \A d \in Ctx \ {c} : loop'[d] = loop[d]
         /\ loop'[c].phase = IF loop[c].will_stop THEN "deinit" ELSE "work"
         /\ loop'[c].will_stop = loop[c].will_stop
<1>1. loop \in [Ctx -> Loops]
  BY IoAt
<1>2. CASE loop[c].will_stop
  BY <1>1, <1>2 DEF NextRound, Loops
<1>3. CASE ~ loop[c].will_stop
  BY <1>1, <1>3 DEF NextRound, Loops
<1> QED
  BY <1>2, <1>3

\* A thread at another point than the work phase changes nothing but loop.
LEMMA MailMoves ==
  ASSUME IoBase, DrainOK, NEW c \in Ctx, UNCHANGED <<setup, worker, inbox, ring>>,
         loop[c].phase # "work", \A d \in Ctx \ {c} : loop'[d] = loop[d]
  PROVE  (\A d \in Ctx : MailOK(d)') /\ \A d \in Ctx \ {c} : Untouched(d)
<1>1. ASSUME NEW d \in Ctx PROVE Mailed(d)
  BY DEF DrainOK, MailOK, Mailed
<1> QED
  BY <1>1, MailStays DEF DrainOK, Untouched

\* The steps between the parts of the loop that decide nothing.
LEMMA DrainMoves ==
  ASSUME IoBase, DrainOK, NEW c \in setup.ctx, UNCHANGED setup,
         Start(c) \/ Deinit(c) \/ BarrierTimeout(c) \/ PollDone(c) \/ Peek(c)
  PROVE  DrainOK'
<1>1. c \in Ctx
  BY IoConstantsFacts DEF IoBase, IoTypes
<1>2. CASE Start(c)
  <2>1. loop[c].phase = "created" /\ Goto(c, "barrier") /\ UNCHANGED <<worker, inbox, ring>>
    BY <1>2 DEF Start, At
  <2>2. /\ \A d \in Ctx \ {c} : loop'[d] = loop[d]
        /\ loop'[c].phase = "barrier" /\ loop'[c].will_stop = loop[c].will_stop
    BY <1>1, <2>1, GotoEffect
  <2>3. (\A d \in Ctx : MailOK(d)') /\ \A d \in Ctx \ {c} : Untouched(d)
    BY <1>1, <2>1, <2>2, MailMoves
  <2>4. AtGate(c) /\ StaysIn(c) /\ StaysOut(c)
    BY <2>1, <2>2 DEF AtGate, StaysIn, StaysOut
  <2>5. OverOK(c)'
    BY <2>2, OverElsewhere
  <2> QED
    BY <2>3, <2>4, <2>5, DrainStep
<1>3. CASE Deinit(c)
  <2>1. loop[c].phase = "deinit" /\ Goto(c, "stopped") /\ UNCHANGED <<worker, inbox, ring>>
    BY <1>3 DEF Deinit, At
  <2>2. /\ \A d \in Ctx \ {c} : loop'[d] = loop[d]
        /\ loop'[c].phase = "stopped" /\ loop'[c].will_stop = loop[c].will_stop
    BY <1>1, <2>1, GotoEffect
  <2>3. (\A d \in Ctx : MailOK(d)') /\ \A d \in Ctx \ {c} : Untouched(d)
    BY <1>1, <2>1, <2>2, MailMoves
  <2>4. AtGate(c) /\ StaysIn(c) /\ StaysOut(c)
    BY <2>1, <2>2 DEF AtGate, StaysIn, StaysOut
  <2>5. OverOK(c)'
    BY <2>2, OverElsewhere
  <2> QED
    BY <2>3, <2>4, <2>5, DrainStep
<1>4. CASE BarrierTimeout(c)
  <2>1. loop[c].phase = "barrier" /\ loop' = loop /\ UNCHANGED <<worker, inbox, ring>>
    BY <1>4 DEF BarrierTimeout, At
  <2>2. (\A d \in Ctx : MailOK(d)') /\ \A d \in Ctx \ {c} : Untouched(d)
    BY <1>1, <2>1, MailMoves
  <2>3. AtGate(c) /\ StaysIn(c) /\ StaysOut(c)
    BY <2>1 DEF AtGate, StaysIn, StaysOut
  <2>4. OverOK(c)'
    BY <2>1, OverElsewhere
  <2> QED
    BY <2>2, <2>3, <2>4, DrainStep
<1>5. CASE PollDone(c)
  <2>1. loop[c].phase = "poll" /\ NextRound(c) /\ UNCHANGED <<worker, inbox, ring>>
    BY <1>5 DEF PollDone, At
  <2>2. /\ \A d \in Ctx \ {c} : loop'[d] = loop[d]
        /\ loop'[c].will_stop = loop[c].will_stop
        /\ loop'[c].phase = IF loop[c].will_stop THEN "deinit" ELSE "work"
    BY <1>1, <2>1, RoundEffect
  <2>3. (\A d \in Ctx : MailOK(d)') /\ \A d \in Ctx \ {c} : Untouched(d)
    BY <1>1, <2>1, <2>2, MailMoves
  <2>4. AtGate(c) /\ StaysIn(c) /\ StaysOut(c)
    BY <2>1, <2>2 DEF AtGate, StaysIn, StaysOut
  <2>5. OverOK(c)'
    BY <2>2, OverElsewhere
  <2> QED
    BY <2>3, <2>4, <2>5, DrainStep
<1>6. CASE Peek(c)
  <2>1. loop[c].phase = "peek" /\ UNCHANGED <<worker, inbox, ring>>
    BY <1>6 DEF Peek, At
  <2>2. /\ \A d \in Ctx \ {c} : loop'[d] = loop[d]
        /\ loop'[c].will_stop = loop[c].will_stop
        /\ \/ loop'[c].phase = IF loop[c].will_stop THEN "deinit" ELSE "work"
           \/ loop'[c].phase = "poll"
           \/ loop'[c].phase = "bad_peek" /\ worker[c].reap_swap = <<>>
    <3>1. CASE Goto(c, "poll")
      BY <1>1, <3>1, GotoEffect
    <3>2. CASE NextRound(c)
      BY <1>1, <3>2, RoundEffect
    <3>3. CASE Goto(c, "bad_peek") /\ worker[c].reap_swap = <<>>
      BY <1>1, <3>3, GotoEffect
    <3> QED
      BY <1>6, <3>1, <3>2, <3>3 DEF Peek
  <2>3. (\A d \in Ctx : MailOK(d)') /\ \A d \in Ctx \ {c} : Untouched(d)
    BY <1>1, <2>1, <2>2, MailMoves
  <2>4. AtGate(c) /\ StaysIn(c) /\ StaysOut(c)
    BY <2>1, <2>2 DEF AtGate, StaysIn, StaysOut
  <2>5. OverOK(c)'
    BY <2>1, <2>2 DEF OverOK
  <2> QED
    BY <2>3, <2>4, <2>5, DrainStep
<1> QED
  BY <1>2, <1>3, <1>4, <1>5, <1>6

\* The barrier opens when nobody is missing: create_count and ready_count count
\* Alive and Ready.
LEMMA DrainBarrier ==
  ASSUME IoBase, DrainOK, NEW c \in setup.ctx, UNCHANGED setup, PassBarrier(c)
  PROVE  DrainOK'
<1>1. c \in Ctx /\ setup.ctx \subseteq Ctx /\ IsFiniteSet(setup.ctx)
  BY IoConstantsFacts DEF IoBase, IoTypes
<1>2. loop[c].phase = "barrier" /\ Goto(c, "run") /\ UNCHANGED <<worker, inbox, ring>>
  BY DEF PassBarrier, At
<1>3. /\ \A d \in Ctx \ {c} : loop'[d] = loop[d]
      /\ loop'[c].phase = "run" /\ loop'[c].will_stop = loop[c].will_stop
  BY <1>1, <1>2, GotoEffect
<1>4. (\A d \in Ctx : MailOK(d)') /\ \A d \in Ctx \ {c} : Untouched(d)
  BY <1>1, <1>2, <1>3, MailMoves
<1>5. \A d \in setup.ctx : loop[d].phase # "created"
  <2>1. Cardinality(Alive) = Cardinality(Ready)
    BY DEF PassBarrier, IoBase, MetaOK
  <2>2. IsFiniteSet(Alive) /\ Ready \subseteq Alive
    BY <1>1, FS_Subset DEF Alive, Ready
  <2>3. Ready = Alive
    BY <2>1, <2>2, FS_Subset
  <2> QED
    BY <2>3 DEF Alive, Ready
<1>6. BarrierOK'
  BY <1>1, <1>3, <1>5 DEF BarrierOK
<1>7. StaysIn(c) /\ StaysOut(c)
  BY <1>2, <1>3 DEF StaysIn, StaysOut
<1>8. KeepOK'
  BY <1>1, <1>3, <1>7, KeepStays DEF DrainOK
<1>9. ASSUME NEW d \in setup.ctx \ {c} PROVE OverOK(d)'
  BY <1>1, <1>2, <1>3, <1>7, OverOthers DEF DrainOK
<1>10. OverOK(c)'
  BY <1>3, OverElsewhere
<1> QED
  BY <1>4, <1>6, <1>8, <1>9, <1>10 DEF DrainOK

\* ready_count = 1: the others have left.
LEMMA LastReady ==
  ASSUME IoBase, BarrierOK, NEW c \in setup.ctx, loop[c].phase \notin {"created", "barrier", "stopped"},
         ~ meta.ready_count > 1
  PROVE  Alone(c)
<1>1. IsFiniteSet(setup.ctx)
  BY IoConstantsFacts DEF IoBase, IoTypes
<1> SUFFICES ASSUME NEW d \in setup.ctx \ {c}, loop[d].phase # "stopped" PROVE FALSE
  BY DEF Alone
<1>2. c \in Ready /\ d \in Ready
  BY DEF BarrierOK, Ready
<1>3. IsFiniteSet(Ready)
  BY <1>1, FS_Subset DEF Ready
<1>4. Cardinality({c, d}) <= Cardinality(Ready)
  BY <1>2, <1>3, FS_Subset
<1>5. Cardinality({c, d}) = 2
  <2>1. IsFiniteSet({d}) /\ Cardinality({d}) = 1
    BY FS_Singleton
  <2>2. Cardinality({d} \cup {c}) = Cardinality({d}) + 1
    BY <2>1, FS_AddElement
  <2>3. {c, d} = {d} \cup {c}
    OBVIOUS
  <2> QED
    BY <2>1, <2>2, <2>3
<1>6. Cardinality(Ready) = meta.ready_count /\ meta.ready_count \in Nat
  BY DEF IoBase, MetaOK
<1> QED
  BY <1>4, <1>5, <1>6

\* do_completion_part_bad_path blocks, unless a cqe is there or nobody is left.
LEMMA DrainBadPeek ==
  ASSUME IoBase, DrainOK, NEW c \in setup.ctx, UNCHANGED setup, BadPeek(c)
  PROVE  DrainOK'
<1>1. c \in Ctx /\ setup.ctx \subseteq Ctx /\ loop \in [Ctx -> Loops]
  BY IoConstantsFacts DEF IoBase, IoTypes
<1>2. loop[c].phase = "bad_peek" /\ UNCHANGED <<worker, inbox, ring>>
  BY DEF BadPeek, At
<1>3. PICK p : p = IF ring[c].cq = <<>> /\ (worker[c].requests_to_reap > 0 \/ meta.ready_count > 1)
                   THEN "bad_wait" ELSE "bad_poll"
  OBVIOUS
<1>4. loop' = [loop EXCEPT ![c].handled = FALSE, ![c].phase = p]
  BY <1>3 DEF BadPeek
<1>5. /\ \A d \in Ctx \ {c} : loop'[d] = loop[d]
      /\ loop'[c].will_stop = loop[c].will_stop
      /\ loop'[c].phase = p
  BY <1>1, <1>4 DEF Loops
<1>6. (\A d \in Ctx : MailOK(d)') /\ \A d \in Ctx \ {c} : Untouched(d)
  BY <1>1, <1>2, <1>5, MailMoves
<1>7. AtGate(c) /\ StaysIn(c) /\ StaysOut(c)
  BY <1>2, <1>3, <1>5 DEF AtGate, StaysIn, StaysOut
<1>8. worker[c].reap_swap = <<>>
  BY <1>2 DEF DrainOK, OverOK
<1>9. OverOK(c)'
  <2>1. CASE p = "bad_wait"
    BY <1>2, <1>5, <1>8, <2>1 DEF OverOK
  <2>2. CASE p = "bad_poll" /\ ring[c].cq # <<>>
    BY <1>2, <1>5, <2>2 DEF OverOK
  <2>3. CASE p = "bad_poll" /\ ring[c].cq = <<>>
    <3>1. ~ meta.ready_count > 1
      BY <1>3, <2>3
    <3>2. Alone(c)
      BY <1>2, <3>1, LastReady DEF DrainOK
    <3>3. Alone(c)'
      BY <1>1, <1>5, <3>2, AloneStays
    <3>4. CqSet(ring[c])' = {}
      BY <1>2, <2>3 DEF CqSet, Elements
    <3>5. Settled(c)'
      BY <1>2, <1>8, <3>3, <3>4 DEF Settled
    <3> QED
      BY <1>5, <2>3, <3>5 DEF OverOK
  <2> QED
    BY <1>3, <2>1, <2>2, <2>3
<1> QED
  BY <1>6, <1>7, <1>9, DrainStep

\* A wait ends with a cqe, or with a signal.
LEMMA DrainWait ==
  ASSUME IoBase, DrainOK, Orderly, NEW c \in setup.ctx, UNCHANGED setup, Wake(c) \/ Interrupt(c)
  PROVE  DrainOK'
<1>1. c \in Ctx /\ setup.ctx \subseteq Ctx
  BY IoConstantsFacts DEF IoBase, IoTypes
<1>2. /\ UNCHANGED <<worker, inbox, ring>>
      /\ \/ loop[c].phase = "submit_wait" /\ Goto(c, "peek")
         \/ loop[c].phase = "bad_wait" /\ Goto(c, "bad_poll")
  BY DEF Wake, Interrupt, WaitReturns, At
<1>3. /\ \A d \in Ctx \ {c} : loop'[d] = loop[d]
      /\ loop'[c].will_stop = loop[c].will_stop
      /\ \/ loop[c].phase = "submit_wait" /\ loop'[c].phase = "peek"
         \/ loop[c].phase = "bad_wait" /\ loop'[c].phase = "bad_poll"
  BY <1>1, <1>2, GotoEffect
<1>4. (\A d \in Ctx : MailOK(d)') /\ \A d \in Ctx \ {c} : Untouched(d)
  BY <1>1, <1>2, <1>3, MailMoves
<1>5. AtGate(c) /\ StaysIn(c) /\ StaysOut(c)
  BY <1>2, <1>3 DEF AtGate, StaysIn, StaysOut
<1>6. OverOK(c)'
  <2>1. CASE loop'[c].phase = "peek"
    BY <2>1, OverElsewhere
  <2>2. CASE loop'[c].phase = "bad_poll" /\ ring[c].cq # <<>>
    BY <1>2, <2>2 DEF OverOK
  <2>3. CASE loop'[c].phase = "bad_poll" /\ ring[c].cq = <<>>
    <3>1. setup.signals
      BY <2>3 DEF Wake, Interrupt
    <3>2. KeepsOn
      BY <3>1 DEF Orderly
    <3>3. worker[c].reap_swap = <<>>
      BY <1>3, <2>3 DEF DrainOK, OverOK
    <3>4. CqSet(ring[c])' = {}
      BY <1>2, <2>3 DEF CqSet, Elements
    <3>5. setup.ctx = {c} => Alone(c)'
      BY DEF Alone
    <3>6. KeepsOn'
      BY <3>2 DEF KeepsOn
    <3>7. Settled(c)'
      BY <1>2, <3>3, <3>4, <3>5, <3>6 DEF Settled
    <3> QED
      BY <2>3, <3>7 DEF OverOK
  <2> QED
    BY <1>3, <2>1, <2>2, <2>3
<1> QED
  BY <1>4, <1>5, <1>6, DrainStep

\* poll_completion found the cq empty.
LEMMA DrainPolled ==
  ASSUME IoBase, DrainOK, NEW c \in setup.ctx, UNCHANGED setup, BadPollDone(c)
  PROVE  DrainOK'
<1>1. c \in Ctx /\ setup.ctx \subseteq Ctx
  BY IoConstantsFacts DEF IoBase, IoTypes
<1>2. /\ loop[c].phase = "bad_poll" /\ ring[c].cq = <<>> /\ Goto(c, "over")
      /\ UNCHANGED <<worker, inbox, ring>>
  BY DEF BadPollDone, At
<1>3. /\ \A d \in Ctx \ {c} : loop'[d] = loop[d]
      /\ loop'[c].will_stop = loop[c].will_stop
      /\ loop'[c].phase = "over" /\ loop'[c].handled = loop[c].handled
  BY <1>1, <1>2, GotoEffect
<1>4. (\A d \in Ctx : MailOK(d)') /\ \A d \in Ctx \ {c} : Untouched(d)
  BY <1>1, <1>2, <1>3, MailMoves
<1>5. AtGate(c) /\ StaysIn(c) /\ StaysOut(c)
  BY <1>2, <1>3 DEF AtGate, StaysIn, StaysOut
<1>6. loop[c].handled \/ Settled(c)
  BY <1>2 DEF DrainOK, OverOK
<1>7. ASSUME Settled(c) PROVE Settled(c)'
  <2>1. Alone(c) => Alone(c)'
    BY <1>1, <1>3, AloneStays
  <2>2. KeepsOn' <=> KeepsOn
    BY DEF KeepsOn
  <2> QED
    BY <1>2, <1>7, <2>1, <2>2 DEF Settled, CqSet
<1>8. OverOK(c)'
  BY <1>3, <1>6, <1>7 DEF OverOK
<1> QED
  BY <1>4, <1>5, <1>8, DrainStep

\* The decision: on with the loop, or the end if it was told to stop or nothing
\* was handled, nobody is left and nothing is awaited.
LEMMA DecideEffect ==
  ASSUME IoBase, NEW c \in Ctx, DecideOver(c)
  PROVE  /\ \A d \in Ctx \ {c} : loop'[d] = loop[d]
         /\ loop[c].phase = "over" /\ UNCHANGED <<worker, inbox, ring>>
         /\ \/ loop'[c].phase = "work" /\ loop'[c].will_stop = loop[c].will_stop
            \/ /\ loop'[c].phase = "deinit"
               /\ loop[c].will_stop \/ (~ loop[c].handled /\ ~ meta.ready_count > 1
                                        /\ worker[c].requests_to_reap = 0)
<1>1. loop \in [Ctx -> Loops]
  BY IoAt
<1>2. loop[c].phase = "over" /\ UNCHANGED <<worker, inbox, ring>>
  BY DEF DecideOver, At
<1>3. PICK b : b = (\/ loop[c].handled \/ meta.ready_count > 1 \/ worker[c].requests_to_reap # 0)
  OBVIOUS
<1>4. loop' = IF b /\ ~ loop[c].will_stop
              THEN [loop EXCEPT ![c].phase = "work", ![c].num = Len(worker[c].reap_swap)]
              ELSE [loop EXCEPT ![c].phase = "deinit", ![c].will_stop = TRUE]
  BY <1>3 DEF DecideOver
<1>5. CASE b /\ ~ loop[c].will_stop
  <2>1. loop' = [loop EXCEPT ![c].phase = "work", ![c].num = Len(worker[c].reap_swap)]
    BY <1>4, <1>5
  <2>2. /\ \A d \in Ctx \ {c} : loop'[d] = loop[d]
        /\ loop'[c].phase = "work" /\ loop'[c].will_stop = loop[c].will_stop
    BY <1>1, <2>1 DEF Loops
  <2> QED
    BY <1>2, <2>2
<1>6. CASE ~ (b /\ ~ loop[c].will_stop)
  <2>1. loop' = [loop EXCEPT ![c].phase = "deinit", ![c].will_stop = TRUE]
    BY <1>4, <1>6
  <2>2. /\ \A d \in Ctx \ {c} : loop'[d] = loop[d]
        /\ loop'[c].phase = "deinit"
    BY <1>1, <2>1 DEF Loops
  <2>3. loop[c].will_stop \/ (~ loop[c].handled /\ ~ meta.ready_count > 1
                                        /\ worker[c].requests_to_reap = 0)
    BY <1>3, <1>6
  <2> QED
    BY <1>2, <2>2, <2>3
<1> QED
  BY <1>5, <1>6

\* Without io_context_stop() that happens only to a context that is the only one.
LEMMA OnlyOne ==
  ASSUME IoBase, DrainOK, KeepsOn, NEW c \in setup.ctx, loop[c].phase = "over", ~ meta.ready_count > 1
  PROVE  setup.ctx = {c}
<1>1. Alone(c)
  BY LastReady DEF DrainOK
<1>2. ASSUME NEW d \in setup.ctx \ {c} PROVE FALSE
  <2>1. setup.ctx = {d}
    BY <1>1 DEF Alone, DrainOK, KeepOK
  <2> QED
    BY <2>1
<1> QED
  BY <1>2

\* The decision keeps the invariant.
LEMMA DrainDecide ==
  ASSUME IoBase, DrainOK, NEW c \in setup.ctx, UNCHANGED setup, DecideOver(c)
  PROVE  DrainOK'
<1>1. c \in Ctx /\ setup.ctx \subseteq Ctx
  BY IoConstantsFacts DEF IoBase, IoTypes
<1>2. /\ \A d \in Ctx \ {c} : loop'[d] = loop[d]
      /\ loop[c].phase = "over" /\ UNCHANGED <<worker, inbox, ring>>
      /\ \/ loop'[c].phase = "work" /\ loop'[c].will_stop = loop[c].will_stop
         \/ /\ loop'[c].phase = "deinit"
            /\ loop[c].will_stop \/ (~ loop[c].handled /\ ~ meta.ready_count > 1
                                     /\ worker[c].requests_to_reap = 0)
  BY <1>1, DecideEffect
<1>3. (\A d \in Ctx : MailOK(d)') /\ \A d \in Ctx \ {c} : Untouched(d)
  BY <1>1, <1>2, MailMoves
<1>4. AtGate(c) /\ StaysOut(c)
  BY <1>2 DEF AtGate, StaysOut
<1>5. OverOK(c)'
  BY <1>2, OverElsewhere
<1>6. CASE loop'[c].phase = "work"
  <2>1. StaysIn(c)
    BY <1>2, <1>6 DEF StaysIn
  <2> QED
    BY <1>3, <1>4, <1>5, <2>1, DrainStep
<1>7. CASE loop'[c].phase = "deinit"
  <2>1. ASSUME KeepsOn PROVE setup.ctx = {c}
    <3>1. CASE loop[c].will_stop
      BY <2>1, <3>1 DEF DrainOK, KeepOK
    <3>2. CASE ~ meta.ready_count > 1
      BY <1>2, <2>1, <3>2, OnlyOne
    <3> QED
      BY <1>2, <1>7, <3>1, <3>2
  <2>2. KeepOK'
    <3>1. KeepsOn' <=> KeepsOn
      BY DEF KeepsOn
    <3> QED
      BY <2>1, <3>1 DEF KeepOK
  <2>3. BarrierOK'
    BY <1>1, <1>2, <1>4, BarrierStays DEF DrainOK
  <2>4. ASSUME NEW d \in setup.ctx \ {c} PROVE OverOK(d)'
    BY <1>1, <1>2, <1>4, OverOthers DEF DrainOK
  <2> QED
    BY <1>3, <1>5, <2>2, <2>3, <2>4 DEF DrainOK
<1> QED
  BY <1>2, <1>6, <1>7

\* requests_to_reap = 0: no I/O is left in the ring.
LEMMA NothingOwed ==
  ASSUME IoBase, ~ failed, NEW c \in Ctx, worker[c].requests_to_reap = 0
  PROVE  \A r \in Present(ring[c]) : r.op # "io"
<1>1. IsFiniteSet(Owing(ring[c])) /\ Cardinality(Owing(ring[c])) = 0
  BY IoAt DEF ReapOK
<1>2. Owing(ring[c]) = {}
  BY <1>1, FS_EmptySet
<1> QED
  BY <1>2 DEF Owing, Due, Owes, Counted

\* A context that decides to end although nobody told it to is drained.
LEMMA DecidesDrained ==
  ASSUME IoBase, DrainOK, Orderly, ~ failed, NEW c \in setup.ctx, DecideOver(c), loop'[c].will_stop
  PROVE  loop[c].will_stop \/ Drained(c)
<1>1. c \in Ctx /\ setup.ctx \subseteq Ctx
  BY IoConstantsFacts DEF IoBase, IoTypes
<1>2. /\ loop[c].phase = "over"
      /\ \/ loop'[c].phase = "work" /\ loop'[c].will_stop = loop[c].will_stop
         \/ /\ loop'[c].phase = "deinit"
            /\ loop[c].will_stop \/ (~ loop[c].handled /\ ~ meta.ready_count > 1
                                     /\ worker[c].requests_to_reap = 0)
  BY <1>1, DecideEffect
<1> SUFFICES ASSUME ~ loop[c].will_stop PROVE Drained(c)
  OBVIOUS
<1>3. ~ loop[c].handled /\ ~ meta.ready_count > 1 /\ worker[c].requests_to_reap = 0
  BY <1>2
<1>4. Alone(c) /\ Settled(c)
  BY <1>2, <1>3, LastReady DEF DrainOK, OverOK
<1>5. KeepsOn => setup.ctx = {c}
  BY <1>2, <1>3, OnlyOne
<1>6. \A r \in CqSet(ring[c]) : r.op # "msg"
  BY <1>4, <1>5 DEF Settled
<1>7. inbox[c].queue = <<>>
  BY <1>1, <1>5 DEF DrainOK, MailOK, Orderly
<1>8. \A r \in Present(ring[c]) : r.op \notin Resuming
  <2>1. \A r \in Present(ring[c]) : r.op # "io"
    BY <1>1, <1>3, NothingOwed
  <2>2. \A r \in Present(ring[c]) : r.op # "msg"
    <3>1. MailOK(c)
      BY <1>1 DEF DrainOK
    <3>2. \A r \in SqSet(ring[c]) : r.op # "msg"
      BY <1>2, <3>1 DEF MailOK, Plain
    <3>3. \A r \in ring[c].kernel : r.op # "msg"
      BY <3>1 DEF MailOK, Plain
    <3> QED
      BY <1>6, <3>2, <3>3 DEF Present, SqSet, CqSet
  <2> QED
    BY <2>1, <2>2 DEF Resuming
<1>9. ASSUME NEW d \in Ctx \ {c}, NEW r \in Present(ring[d]), r.op \in Resuming PROVE r.to # c
  <2>1. MailOK(d)
    BY DEF DrainOK
  <2>2. CASE Plain(r)
    <3>1. r.op = "io" /\ r.to = None
      BY <1>9, <2>2 DEF Plain, Resuming
    <3> QED
      BY <1>1, <3>1, IoAt
  <2>3. CASE ~ Plain(r) /\ r \in SqSet(ring[d])
    <3>1. loop[d].phase = "work" /\ d \in setup.ctx
      BY <2>1, <2>3 DEF MailOK
    <3> QED
      BY <1>4, <3>1 DEF Alone
  <2>4. CASE ~ Plain(r) /\ r \in CqSet(ring[d])
    BY <2>1, <2>4 DEF MailOK
  <2>5. CASE ~ Plain(r) /\ r \in ring[d].kernel
    BY <2>1, <2>5 DEF MailOK
  <2> QED
    BY <2>2, <2>3, <2>4, <2>5 DEF Present, SqSet, CqSet
<1>10. \A d \in Ctx : \A o \in Outstanding(d) : o[3] \in Present(ring[d])
  BY DEF Outstanding, Present, Elements
<1>11. worker[c].reap_swap = <<>>
  BY <1>4 DEF Settled
<1> QED
  BY <1>7, <1>8, <1>9, <1>10, <1>11 DEF Drained

\* The coroutine steps keep the thread where it is; only io_context_stop()
\* changes will_stop.
Working(c) == /\ loop[c].phase = "work" /\ loop'[c].phase = "work"
              /\ \A d \in Ctx \ {c} : loop'[d] = loop[d]
              /\ loop'[c].will_stop => loop[c].will_stop \/ ~ KeepsOn

\* What a step of a coroutine, or of do_worker_part, has to show.
LEMMA DrainWorks ==
  ASSUME IoBase, DrainOK, NEW c \in setup.ctx, UNCHANGED setup, Working(c),
         \A d \in Ctx \ {c} : worker'[d] = worker[d] /\ ring'[d] = ring[d], \A d \in Ctx : MailOK(d)'
  PROVE  DrainOK'
<1>1. c \in Ctx /\ setup.ctx \subseteq Ctx
  BY IoConstantsFacts DEF IoBase, IoTypes
<1>2. /\ loop[c].phase = "work" /\ loop'[c].phase = "work"
      /\ \A d \in Ctx \ {c} : loop'[d] = loop[d]
  BY DEF Working
<1>3. AtGate(c) /\ StaysOut(c)
  BY <1>2 DEF AtGate, StaysOut
<1>4. OverOK(c)'
  BY <1>2, OverElsewhere
<1>5. KeepOK'
  <2>1. CASE KeepsOn
    <3>1. StaysIn(c)
      BY <1>2, <2>1 DEF StaysIn, Working
    <3> QED
      BY <1>1, <1>2, <3>1, KeepStays DEF DrainOK
  <2>2. CASE ~ KeepsOn
    BY <2>2 DEF KeepOK, KeepsOn
  <2> QED
    BY <2>1, <2>2
<1>6. BarrierOK'
  BY <1>1, <1>2, <1>3, BarrierStays DEF DrainOK
<1>7. ASSUME NEW d \in setup.ctx \ {c} PROVE OverOK(d)'
  BY <1>1, <1>2, <1>3, OverOthers DEF DrainOK
<1> QED
  BY <1>4, <1>5, <1>6, <1>7 DEF DrainOK

\* A coroutine that asks the ring for nothing, and the loop that resumes it.
LEMMA DrainQuiet ==
  ASSUME IoBase, DrainOK, NEW c \in setup.ctx, UNCHANGED setup,
         \/ WorkOnce(c) \/ AwaitPrepared(c) \/ Yield(c) \/ StopContext(c) \/ Return(c)
  PROVE  DrainOK'
<1>1. c \in Ctx /\ worker \in [Ctx -> Workers] /\ loop \in [Ctx -> Loops]
  BY IoConstantsFacts DEF IoBase, IoTypes
<1>2. inbox' = inbox /\ ring' = ring /\ loop[c].phase = "work"
  BY DEF WorkOnce, AwaitPrepared, Yield, StopContext, Return, May, At
<1>3. /\ \A d \in Ctx \ {c} : worker'[d] = worker[d]
      /\ worker'[c].requests_to_submit = worker[c].requests_to_submit
  <2>1. CASE WorkOnce(c)
    BY <1>1, <2>1 DEF WorkOnce, Workers
  <2>2. CASE Yield(c)
    BY <1>1, <2>2 DEF Yield, ForwardTask, Workers
  <2>3. CASE AwaitPrepared(c) \/ StopContext(c) \/ Return(c)
    BY <2>3 DEF AwaitPrepared, StopContext, Return
  <2> QED
    BY <2>1, <2>2, <2>3
<1>4. Working(c)
  <2>1. CASE WorkOnce(c)
    BY <1>1, <1>2, <2>1 DEF WorkOnce, Working, Loops
  <2>2. CASE Suspend(c)
    BY <1>1, <1>2, <2>2 DEF Suspend, Working, Loops
  <2>3. CASE StopContext(c)
    <3>1. ~ KeepsOn
      BY <2>3 DEF StopContext, May, KeepsOn
    <3> QED
      BY <1>1, <1>2, <2>3, <3>1 DEF StopContext, Working, Loops
  <2> QED
    BY <2>1, <2>2, <2>3 DEF AwaitPrepared, Yield, Return
<1>5. ASSUME NEW d \in Ctx PROVE MailOK(d)'
  <2>1. Mailed(d)
    BY <1>2, <1>3, <1>4 DEF DrainOK, MailOK, Mailed, Working
  <2> QED
    BY <2>1, MailStays DEF DrainOK
<1> QED
  BY <1>2, <1>3, <1>4, <1>5, DrainWorks

\* get_free_sqe() counts what it hands out.
LEMMA IssueMail ==
  ASSUME IoBase, DrainOK, UNCHANGED setup, NEW c \in Ctx, NEW reqs \in Seq(Requests), Issue(c, reqs)
  PROVE  /\ \A d \in Ctx \ {c} : worker'[d] = worker[d] /\ ring'[d] = ring[d]
         /\ worker'[c].requests_to_submit = Len(ring'[c].sq)
         /\ SqSet(ring'[c]) = SqSet(ring[c]) \cup Elements(reqs)
         /\ ring'[c].kernel = ring[c].kernel /\ CqSet(ring'[c]) = CqSet(ring[c])
<1>1. worker \in [Ctx -> Workers] /\ ring[c].sq \in Seq(Requests)
  BY IoAt DEF Rings
<1>2. /\ \A d \in Ctx \ {c} : worker'[d] = worker[d]
      /\ worker'[c].requests_to_submit = worker[c].requests_to_submit + Len(reqs)
  BY <1>1 DEF Issue, Workers
<1>3. /\ \A d \in Ctx \ {c} : ring'[d] = ring[d]
      /\ ring'[c].sq = ring[c].sq \o reqs /\ ring'[c].kernel = ring[c].kernel
      /\ ring'[c].cq = ring[c].cq
  BY IssueEffect
<1>4. /\ Elements(ring[c].sq \o reqs) = Elements(ring[c].sq) \cup Elements(reqs)
      /\ Len(ring[c].sq \o reqs) = Len(ring[c].sq) + Len(reqs)
  BY <1>1, ElementsConcat
<1>5. worker[c].requests_to_submit = Len(ring[c].sq)
  BY DEF DrainOK, MailOK
<1> QED
  BY <1>2, <1>3, <1>4, <1>5 DEF SqSet, CqSet

\* Plain requests leave the mail in order.
LEMMA MailIssue ==
  ASSUME IoBase, DrainOK, UNCHANGED <<setup, inbox>>, NEW c \in Ctx, NEW reqs \in Seq(Requests),
         Issue(c, reqs), \A r \in Elements(reqs) : Plain(r),
         \A d \in Ctx \ {c} : loop'[d] = loop[d], loop[c].phase = "work" => loop'[c].phase = "work"
  PROVE  (\A d \in Ctx : MailOK(d)') /\ \A d \in Ctx \ {c} : Untouched(d)
<1>1. /\ \A d \in Ctx \ {c} : worker'[d] = worker[d] /\ ring'[d] = ring[d]
      /\ worker'[c].requests_to_submit = Len(ring'[c].sq)
      /\ SqSet(ring'[c]) = SqSet(ring[c]) \cup Elements(reqs)
      /\ ring'[c].kernel = ring[c].kernel /\ CqSet(ring'[c]) = CqSet(ring[c])
  BY IssueMail
<1>2. Mailed(c)
  BY <1>1 DEF Mailed
<1>3. \A d \in Ctx \ {c} : Untouched(d)
  BY <1>1 DEF Untouched
<1>4. ASSUME NEW d \in Ctx PROVE MailOK(d)'
  BY <1>2, <1>3, MailStays, MailKept DEF DrainOK
<1> QED
  BY <1>3, <1>4

\* One request, or two.
LEMMA ElementsTwo ==
  ASSUME NEW S, NEW r \in S, NEW s \in S
  PROVE  /\ <<r>> \in Seq(S) /\ Elements(<<r>>) = {r}
         /\ <<r, s>> \in Seq(S) /\ Elements(<<r, s>>) = {r, s}
<1>1. <<r>> \in Seq(S) /\ <<r, s>> \in Seq(S)
  OBVIOUS
<1>2. DOMAIN <<r>> = {1} /\ DOMAIN <<r, s>> = {1, 2}
  OBVIOUS
<1>3. Elements(<<r>>) = {r}
  BY <1>2 DEF Elements
<1>4. Elements(<<r, s>>) = {r, s}
  BY <1>2 DEF Elements
<1> QED
  BY <1>1, <1>3, <1>4

\* A suspended coroutine, or one that goes on.
LEMMA SuspendWorks ==
  ASSUME IoBase, NEW c \in Ctx, loop[c].phase = "work", Suspend(c) \/ loop' = loop
  PROVE  Working(c)
<1>1. loop \in [Ctx -> Loops]
  BY IoAt
<1>2. CASE Suspend(c)
  BY <1>1, <1>2 DEF Suspend, Working, Loops
<1>3. CASE loop' = loop
  BY <1>3 DEF Working
<1> QED
  BY <1>2, <1>3

\* The coroutine steps that take sqes for themselves.
LEMMA DrainAwait ==
  ASSUME IoBase, DrainOK, NEW c \in setup.ctx, UNCHANGED setup,
         \/ AwaitIo(c) \/ AwaitLink(c) \/ AwaitTimeout(c) \/ PrepareIo(c) \/ Detach(c)
  PROVE  DrainOK'
<1>1. c \in Ctx
  BY IoConstantsFacts DEF IoBase, IoTypes
<1>2. PICK k : k = loop[c].running
  OBVIOUS
<1>3. k # None /\ loop[c].phase = "work" /\ inbox' = inbox /\ (Suspend(c) \/ loop' = loop)
  BY <1>2 DEF AwaitIo, AwaitLink, AwaitTimeout, PrepareIo, Detach, May, At
<1>4. k \in Coros
  BY <1>1, <1>2, <1>3, IoRunning
<1>5. ASSUME NEW op \in {"io", "link", "skip", "timer"}, NEW r, r = Req(op, k, None)
      PROVE  r \in Requests /\ Plain(r)
  <2>1. r \in Requests /\ r.op = op /\ r.to = None
    BY <1>1, <1>4, <1>5, ReqIs
  <2> QED
    BY <2>1 DEF Plain
<1>6. PICK reqs \in Seq(Requests) : Issue(c, reqs) /\ \A r \in Elements(reqs) : Plain(r)
  <2>1. CASE AwaitIo(c) \/ PrepareIo(c)
    <3>1. PICK r : r = Req("io", k, None)
      OBVIOUS
    <3>2. Issue(c, <<r>>) /\ r \in Requests /\ Plain(r)
      BY <1>2, <1>5, <2>1, <3>1 DEF AwaitIo, PrepareIo
    <3>3. PICK q : q = <<r>>
      OBVIOUS
    <3>4. q \in Seq(Requests) /\ Elements(q) = {r}
      BY <3>2, <3>3, ElementsTwo
    <3> QED
      BY <3>2, <3>3, <3>4
  <2>2. CASE AwaitLink(c)
    <3>1. PICK r : r = Req("link", k, None)
      OBVIOUS
    <3>2. PICK s : s = Req("io", k, None)
      OBVIOUS
    <3>3. Issue(c, <<r, s>>) /\ r \in Requests /\ Plain(r) /\ s \in Requests /\ Plain(s)
      BY <1>2, <1>5, <2>2, <3>1, <3>2 DEF AwaitLink
    <3>4. PICK q : q = <<r, s>>
      OBVIOUS
    <3>5. q \in Seq(Requests) /\ Elements(q) = {r, s}
      BY <3>3, <3>4, ElementsTwo
    <3> QED
      BY <3>3, <3>4, <3>5
  <2>3. CASE AwaitTimeout(c)
    <3>1. PICK r : r = Req("io", k, None)
      OBVIOUS
    <3>2. PICK s : s = Req("timer", k, None)
      OBVIOUS
    <3>3. Issue(c, <<r, s>>) /\ r \in Requests /\ Plain(r) /\ s \in Requests /\ Plain(s)
      BY <1>2, <1>5, <2>3, <3>1, <3>2 DEF AwaitTimeout
    <3>4. PICK q : q = <<r, s>>
      OBVIOUS
    <3>5. q \in Seq(Requests) /\ Elements(q) = {r, s}
      BY <3>3, <3>4, ElementsTwo
    <3> QED
      BY <3>3, <3>4, <3>5
  <2>4. CASE Detach(c)
    <3>1. PICK r : r = Req("skip", k, None)
      OBVIOUS
    <3>2. Issue(c, <<r>>) /\ r \in Requests /\ Plain(r)
      BY <1>2, <1>5, <2>4, <3>1 DEF Detach
    <3>3. PICK q : q = <<r>>
      OBVIOUS
    <3>4. q \in Seq(Requests) /\ Elements(q) = {r}
      BY <3>2, <3>3, ElementsTwo
    <3> QED
      BY <3>2, <3>3, <3>4
  <2> QED
    BY <2>1, <2>2, <2>3, <2>4
<1>7. Working(c)
  BY <1>1, <1>3, SuspendWorks
<1>8. (\A d \in Ctx : MailOK(d)') /\ \A d \in Ctx \ {c} : Untouched(d)
  BY <1>1, <1>3, <1>6, <1>7, MailIssue DEF Working
<1> QED
  BY <1>7, <1>8, DrainWorks DEF Untouched

\* run()
LEMMA DrainRun ==
  ASSUME IoBase, DrainOK, NEW c \in setup.ctx, UNCHANGED setup, Run(c)
  PROVE  DrainOK'
<1>1. c \in Ctx /\ setup.ctx \subseteq Ctx
  BY IoConstantsFacts DEF IoBase, IoTypes
<1>2. loop[c].phase = "run" /\ inbox' = inbox /\ NextRound(c)
  BY DEF Run, At
<1>3. /\ \A d \in Ctx \ {c} : loop'[d] = loop[d]
      /\ loop'[c].phase = IF loop[c].will_stop THEN "deinit" ELSE "work"
      /\ loop'[c].will_stop = loop[c].will_stop
  BY <1>1, <1>2, RoundEffect
<1>4. (\A d \in Ctx : MailOK(d)') /\ \A d \in Ctx \ {c} : Untouched(d)
  <2>1. CASE UNCHANGED <<worker, ring>>
    BY <1>1, <1>2, <1>3, <2>1, MailMoves
  <2>2. CASE Issue(c, <<Req("event", None, None)>>)
    <3>1. PICK r : r = Req("event", None, None)
      OBVIOUS
    <3>2. r.op = "event" /\ r \in Requests
      <4>1. setup.fuel \in Nat
        BY <1>1, IoAt
      <4> QED
        BY <3>1, <4>1 DEF Req, Requests, Resuming, Counted
    <3>3. Issue(c, <<r>>) /\ Plain(r) /\ <<r>> \in Seq(Requests) /\ Elements(<<r>>) = {r}
      BY <2>2, <3>1, <3>2, ElementsTwo DEF Plain
    <3> QED
      BY <1>1, <1>2, <1>3, <3>3, MailIssue
  <2> QED
    BY <2>1, <2>2 DEF Run
<1>5. AtGate(c) /\ StaysIn(c) /\ StaysOut(c)
  BY <1>2, <1>3 DEF AtGate, StaysIn, StaysOut
<1>6. OverOK(c)'
  BY <1>3, OverElsewhere
<1> QED
  BY <1>4, <1>5, <1>6, DrainStep

\* co_spawn_auto: a message is sent to another context, from the work phase.
LEMMA MailSends ==
  ASSUME IoBase, DrainOK, UNCHANGED setup, NEW c \in setup.ctx, NEW t \in setup.ctx,
         NEW k \in Coros, Working(c), CoSpawnAuto(c, t, k)
  PROVE  /\ \A d \in Ctx : MailOK(d)'
         /\ \A d \in Ctx \ {c} : worker'[d] = worker[d] /\ ring'[d] = ring[d]
<1>1. c \in Ctx /\ t \in Ctx /\ worker \in [Ctx -> Workers] /\ inbox \in [Ctx -> Inboxes]
  BY IoConstantsFacts DEF IoBase, IoTypes
<1>2. /\ loop[c].phase = "work" /\ loop'[c].phase = "work"
      /\ \A d \in Ctx \ {c} : loop'[d] = loop[d]
  BY DEF Working
<1>3. CASE t = c
  <2>1. ForwardTask(c, k) /\ UNCHANGED <<ring, inbox>>
    BY <1>3 DEF CoSpawnAuto
  <2>2. /\ \A d \in Ctx \ {c} : worker'[d] = worker[d]
        /\ worker'[c].requests_to_submit = worker[c].requests_to_submit
    BY <1>1, <2>1 DEF ForwardTask, Workers
  <2>3. ASSUME NEW d \in Ctx PROVE MailOK(d)'
    <3>1. Mailed(d)
      BY <1>2, <2>1, <2>2 DEF DrainOK, MailOK, Mailed
    <3> QED
      BY <3>1, MailStays DEF DrainOK
  <2> QED
    BY <2>1, <2>2, <2>3
<1>4. CASE t # c /\ setup.msg_ring
  <2>1. PICK r : r = Req("msg", k, t)
    OBVIOUS
  <2>2. r \in Requests /\ r.op = "msg" /\ r.to = t
    BY <1>1, <2>1, ReqIs
  <2>3. Issue(c, <<r>>) /\ inbox' = inbox
    BY <1>4, <2>1 DEF CoSpawnAuto
  <2>4. <<r>> \in Seq(Requests) /\ Elements(<<r>>) = {r}
    BY <2>2, ElementsTwo
  <2>5. /\ \A d \in Ctx \ {c} : worker'[d] = worker[d] /\ ring'[d] = ring[d]
        /\ worker'[c].requests_to_submit = Len(ring'[c].sq)
        /\ SqSet(ring'[c]) = SqSet(ring[c]) \cup {r}
        /\ ring'[c].kernel = ring[c].kernel /\ CqSet(ring'[c]) = CqSet(ring[c])
    BY <1>1, <2>3, <2>4, IssueMail
  <2>6. MailOK(c)'
    <3>1. MailOK(c)
      BY <1>1 DEF DrainOK
    <3>2. setup.ctx # {r.to}
      BY <1>4, <2>2
    <3>3. \A s : Plain(s)' <=> Plain(s)
      BY DEF Plain
    <3>4. \A s \in SqSet(ring'[c]) :
            Plain(s) \/ (loop'[c].phase = "work" /\ c \in setup'.ctx /\ s.op = "msg" /\ setup'.ctx # {s.to})
      BY <1>2, <2>2, <2>5, <3>1, <3>2 DEF MailOK
    <3>5. \A s \in CqSet(ring'[c]) : Plain(s) \/ (s.op = "msg" /\ s.to = c /\ setup'.ctx # {c})
      BY <2>5, <3>1 DEF MailOK
    <3>6. SqSet(ring'[c]) = SqSet(ring[c])' /\ CqSet(ring'[c]) = CqSet(ring[c])'
      OBVIOUS
    <3>7. \A s \in ring'[c].kernel : Plain(s)
      BY <2>5, <3>1 DEF MailOK
    <3>8. inbox'[c].queue # <<>> => ~ setup'.msg_ring /\ setup'.ctx # {c}
      BY <2>3, <3>1 DEF MailOK
    <3> QED
      BY <2>5, <3>3, <3>4, <3>5, <3>6, <3>7, <3>8 DEF MailOK
  <2>7. ASSUME NEW d \in Ctx \ {c} PROVE MailOK(d)'
    BY <1>2, <2>3, <2>5, MailKept DEF DrainOK, Untouched
  <2> QED
    BY <2>5, <2>6, <2>7
<1>5. CASE t # c /\ ~ setup.msg_ring
  <2>1. inbox' = [inbox EXCEPT ![t].queue = Append(@, k)] /\ UNCHANGED <<worker, ring>>
    BY <1>5 DEF CoSpawnAuto
  <2>2. \A d \in Ctx \ {t} : inbox'[d].queue = inbox[d].queue
    BY <1>1, <2>1
  <2>3. ASSUME NEW d \in Ctx \ {t} PROVE MailOK(d)'
    <3>1. Mailed(d)
      BY <1>2, <2>1, <2>2 DEF DrainOK, MailOK, Mailed
    <3> QED
      BY <3>1, MailStays DEF DrainOK
  <2>4. MailOK(t)'
    <3>1. setup.ctx # {t}
      BY <1>5
    <3>2. MailOK(t) /\ loop'[t] = loop[t]
      BY <1>1, <1>2, <1>5 DEF DrainOK
    <3> QED
      BY <1>5, <2>1, <3>1, <3>2 DEF MailOK, Plain, SqSet, CqSet
  <2> QED
    BY <2>1, <2>3, <2>4
<1> QED
  BY <1>3, <1>4, <1>5

\* co_spawn(task) and resume_on(t)
LEMMA DrainSends ==
  ASSUME IoBase, DrainOK, NEW c \in setup.ctx, UNCHANGED setup, CoSpawn(c) \/ ResumeOn(c)
  PROVE  DrainOK'
<1>1. c \in Ctx /\ loop \in [Ctx -> Loops]
  BY IoConstantsFacts DEF IoBase, IoTypes
<1>2. loop[c].running # None /\ loop[c].phase = "work"
  BY DEF CoSpawn, ResumeOn, May, At
<1>3. loop[c].running \in Coros
  BY <1>1, <1>2, IoRunning
<1>4. PICK t \in setup.ctx, k \in Coros :
        /\ CoSpawnAuto(c, t, k)
        /\ \/ loop' = [loop EXCEPT ![c].write = WriteTo(c, t)]
           \/ loop' = [loop EXCEPT ![c].running = None, ![c].write = WriteTo(c, t)]
  <2>1. CASE CoSpawn(c)
    BY <2>1 DEF CoSpawn
  <2>2. CASE ResumeOn(c)
    BY <1>3, <2>2 DEF ResumeOn
  <2> QED
    BY <2>1, <2>2
<1>5. Working(c)
  BY <1>1, <1>2, <1>4 DEF Working, Loops
<1>6. /\ \A d \in Ctx : MailOK(d)'
      /\ \A d \in Ctx \ {c} : worker'[d] = worker[d] /\ ring'[d] = ring[d]
  BY <1>4, <1>5, MailSends
<1> QED
  BY <1>5, <1>6, DrainWorks

\* The second half of co_spawn_safe_eventfd.
LEMMA DrainWrite ==
  ASSUME IoBase, DrainOK, NEW c \in setup.ctx, UNCHANGED setup, EventWrite(c)
  PROVE  DrainOK'
<1>1. c \in Ctx /\ setup.ctx \subseteq Ctx /\ loop \in [Ctx -> Loops] /\ inbox \in [Ctx -> Inboxes]
  BY IoConstantsFacts DEF IoBase, IoTypes
<1>2. UNCHANGED <<worker, ring>> /\ loop' = [loop EXCEPT ![c].write = None]
  BY DEF EventWrite
<1>3. /\ \A d \in Ctx \ {c} : loop'[d] = loop[d]
      /\ loop'[c].phase = loop[c].phase /\ loop'[c].handled = loop[c].handled
      /\ loop'[c].will_stop = loop[c].will_stop
  BY <1>1, <1>2 DEF Loops
<1>4. \A d \in Ctx : inbox'[d].queue = inbox[d].queue
  <2>1. PICK t : inbox' = [inbox EXCEPT ![t].event = 1]
    BY DEF EventWrite
  <2> QED
    BY <1>1, <2>1 DEF Inboxes
<1>5. ASSUME NEW d \in Ctx PROVE MailOK(d)'
  <2>1. Mailed(d)
    BY <1>2, <1>3, <1>4 DEF DrainOK, MailOK, Mailed
  <2> QED
    BY <2>1, MailStays DEF DrainOK
<1>6. AtGate(c) /\ StaysIn(c) /\ StaysOut(c)
  BY <1>3 DEF AtGate, StaysIn, StaysOut
<1>7. OverOK(c)'
  BY <1>1, <1>2, <1>3, OverSame DEF DrainOK
<1>8. \A d \in Ctx \ {c} : Untouched(d)
  BY <1>2, <1>3 DEF Untouched
<1> QED
  BY <1>5, <1>6, <1>7, <1>8, DrainStep

\* io_uring_enter takes every sqe: messages arrive where they were sent.
LEMMA SubmitMail ==
  ASSUME IoBase, DrainOK, UNCHANGED setup, NEW c \in Ctx, ring' = Submit(c)
  PROVE  /\ ring'[c].sq = <<>> /\ CqSet(ring'[c]) = CqSet(ring[c])
         /\ \A r \in ring'[c].kernel : Plain(r)
         /\ \A d \in Ctx \ {c} : /\ ring'[d].sq = ring[d].sq /\ ring'[d].kernel = ring[d].kernel
                                 /\ ring[d].cq # <<>> => ring'[d].cq # <<>>
                                 /\ \A r \in CqSet(ring'[d]) : \/ r \in CqSet(ring[d])
                                                               \/ r \in SqSet(ring[c]) /\ r.op = "msg" /\ r.to = d
<1>1. ring[c].sq \in Seq(Requests) /\ MailOK(c) /\ ring \in [Ctx -> Rings(Requests)]
  BY IoAt DEF Rings, DrainOK
<1>2. /\ ring'[c].sq = <<>> /\ ring'[c].cq = ring[c].cq
      /\ ring'[c].kernel = ring[c].kernel \cup
           {ring[c].sq[i] : i \in {j \in DOMAIN ring[c].sq : ring[c].sq[j].op # "msg"}}
  BY DEF Submit
<1>3. \A r \in ring'[c].kernel : Plain(r)
  <2> SUFFICES ASSUME NEW r \in ring'[c].kernel PROVE Plain(r)
    OBVIOUS
  <2>1. r \in ring[c].kernel \/ (r \in SqSet(ring[c]) /\ r.op # "msg")
    BY <1>2 DEF SqSet, Elements
  <2> QED
    BY <1>1, <2>1 DEF MailOK
<1>4. ASSUME NEW d \in Ctx \ {c}
      PROVE  /\ ring'[d].sq = ring[d].sq /\ ring'[d].kernel = ring[d].kernel
             /\ ring[d].cq # <<>> => ring'[d].cq # <<>>
             /\ \A r \in CqSet(ring'[d]) : \/ r \in CqSet(ring[d])
                                           \/ r \in SqSet(ring[c]) /\ r.op = "msg" /\ r.to = d
  <2>1. PICK u : u = ring[d]
    OBVIOUS
  <2>2. PICK q : q = ring[c].sq
    OBVIOUS
  <2>3. PICK m : m = Messages(q, d)
    OBVIOUS
  <2>4. m \in Seq(Requests) /\ Elements(m) = {r \in Elements(q) : r.op = "msg" /\ r.to = d}
    BY <1>1, <2>2, <2>3, MessagesOf
  <2>5. u \in Rings(Requests) /\ u.cq \in Seq(Requests)
    BY <1>1, <2>1 DEF Rings
  <2>6. ring'[d] = [u EXCEPT !.cq = @ \o m]
    BY <2>1, <2>2, <2>3 DEF Submit
  <2>7. ring'[d].sq = u.sq /\ ring'[d].kernel = u.kernel /\ ring'[d].cq = u.cq \o m
    BY <2>5, <2>6 DEF Rings
  <2>8. /\ u.cq \o m \in Seq(Requests) /\ Elements(u.cq \o m) = Elements(u.cq) \cup Elements(m)
    BY <2>4, <2>5, ElementsConcat
  <2>9. u.cq # <<>> => u.cq \o m # <<>>
    BY <2>4, <2>5
  <2> QED
    BY <2>1, <2>2, <2>4, <2>7, <2>8, <2>9 DEF SqSet, CqSet
<1> QED
  BY <1>2, <1>3, <1>4 DEF CqSet

\* poll_submission: after it no message is left behind.
LEMMA DrainSubmit ==
  ASSUME IoBase, DrainOK, NEW c \in setup.ctx, UNCHANGED setup, PollSubmission(c)
  PROVE  DrainOK'
<1>1. c \in Ctx /\ setup.ctx \subseteq Ctx /\ worker \in [Ctx -> Workers]
  BY IoConstantsFacts DEF IoBase, IoTypes
<1>2. loop[c].phase = "work" /\ inbox' = inbox
  BY DEF PollSubmission, At
<1>3. PICK p \in {"peek", "submit_wait"} : Goto(c, p)
  BY DEF PollSubmission
<1>4. /\ \A d \in Ctx \ {c} : loop'[d] = loop[d]
      /\ loop'[c].phase = p /\ loop'[c].will_stop = loop[c].will_stop
  BY <1>1, <1>3, GotoEffect
<1>5. MailOK(c) /\ ring[c].sq \in Seq(Requests)
  BY <1>1, IoAt DEF DrainOK, Rings
<1>6. \A r : Plain(r)' <=> Plain(r)
  BY DEF Plain
<1>7. /\ \A d \in Ctx : MailOK(d)'
      /\ \A d \in Ctx \ {c} : worker'[d] = worker[d] /\ (ring[d].cq # <<>> => ring'[d].cq # <<>>)
  <2>1. CASE worker[c].requests_to_submit = 0
    <3>1. UNCHANGED <<worker, ring>>
      BY <2>1 DEF PollSubmission
    <3>2. ring[c].sq = <<>>
      <4>1. Len(ring[c].sq) = 0
        BY <1>5, <2>1 DEF MailOK
      <4> QED
        BY <1>5, <4>1
    <3>3. SqSet(ring[c]) = {}
      BY <3>2 DEF SqSet, Elements
    <3>4. MailOK(c)'
      BY <1>2, <1>5, <3>1, <3>3 DEF MailOK, Plain, SqSet, CqSet
    <3>5. ASSUME NEW d \in Ctx \ {c} PROVE MailOK(d)'
      BY <1>2, <1>4, <3>1, MailKept DEF DrainOK, Untouched
    <3> QED
      BY <3>1, <3>4, <3>5
  <2>2. CASE worker[c].requests_to_submit # 0
    <3>1. worker' = [worker EXCEPT ![c].requests_to_submit = 0] /\ ring' = Submit(c)
      BY <2>2 DEF PollSubmission
    <3>2. /\ worker'[c].requests_to_submit = 0
          /\ \A d \in Ctx \ {c} : worker'[d] = worker[d]
      BY <1>1, <3>1 DEF Workers
    <3>3. /\ ring'[c].sq = <<>> /\ CqSet(ring'[c]) = CqSet(ring[c])
          /\ \A r \in ring'[c].kernel : Plain(r)
          /\ \A d \in Ctx \ {c} : /\ ring'[d].sq = ring[d].sq /\ ring'[d].kernel = ring[d].kernel
                                  /\ ring[d].cq # <<>> => ring'[d].cq # <<>>
                                  /\ \A r \in CqSet(ring'[d]) : \/ r \in CqSet(ring[d])
                                                                \/ r \in SqSet(ring[c]) /\ r.op = "msg" /\ r.to = d
      BY <1>1, <3>1, SubmitMail
    <3>4. MailOK(c)'
      <4>1. SqSet(ring[c])' = {} /\ Len(ring'[c].sq) = 0
        BY <3>3 DEF SqSet, Elements
      <4>2. \A s \in CqSet(ring[c])' : Plain(s) \/ (s.op = "msg" /\ s.to = c /\ setup'.ctx # {c})
        BY <1>5, <3>3 DEF MailOK
      <4>3. inbox'[c].queue # <<>> => ~ setup'.msg_ring /\ setup'.ctx # {c}
        BY <1>2, <1>5 DEF MailOK
      <4> QED
        BY <1>6, <3>2, <3>3, <4>1, <4>2, <4>3 DEF MailOK
    <3>5. ASSUME NEW d \in Ctx \ {c} PROVE MailOK(d)'
      <4>1. MailOK(d)
        BY DEF DrainOK
      <4>2. \A s \in CqSet(ring[d])' : Plain(s) \/ (s.op = "msg" /\ s.to = d /\ setup'.ctx # {d})
        <5> SUFFICES ASSUME NEW s \in CqSet(ring'[d]), ~ Plain(s)
                     PROVE  s.op = "msg" /\ s.to = d /\ setup.ctx # {d}
          OBVIOUS
        <5>1. CASE s \in CqSet(ring[d])
          BY <4>1, <5>1 DEF MailOK
        <5>2. CASE s \in SqSet(ring[c]) /\ s.op = "msg" /\ s.to = d
          BY <1>5, <5>2 DEF MailOK
        <5> QED
          BY <3>3, <5>1, <5>2
      <4>3. \A s \in SqSet(ring[d])' :
              Plain(s) \/ (loop'[d].phase = "work" /\ d \in setup'.ctx /\ s.op = "msg" /\ setup'.ctx # {s.to})
        BY <1>4, <3>3, <4>1 DEF MailOK, SqSet
      <4>4. worker'[d].requests_to_submit = Len(ring'[d].sq) /\ \A s \in ring'[d].kernel : Plain(s)
        BY <3>2, <3>3, <4>1 DEF MailOK
      <4>5. inbox'[d].queue # <<>> => ~ setup'.msg_ring /\ setup'.ctx # {d}
        BY <1>2, <4>1 DEF MailOK
      <4> QED
        BY <1>6, <4>2, <4>3, <4>4, <4>5 DEF MailOK
    <3> QED
      BY <3>2, <3>3, <3>4, <3>5
  <2> QED
    BY <2>1, <2>2
<1>8. AtGate(c) /\ StaysIn(c) /\ StaysOut(c)
  BY <1>2, <1>4 DEF AtGate, StaysIn, StaysOut
<1>9. BarrierOK' /\ KeepOK'
  BY <1>1, <1>4, <1>8, BarrierStays, KeepStays DEF DrainOK
<1>10. OverOK(c)'
  BY <1>4, OverElsewhere
<1>11. ASSUME NEW d \in setup.ctx \ {c} PROVE OverOK(d)'
  BY <1>1, <1>2, <1>4, <1>7, <1>8, OverOthers DEF DrainOK
<1> QED
  BY <1>7, <1>9, <1>10, <1>11 DEF DrainOK

\* What a step that reaps a cqe has to show.
LEMMA DrainReaps ==
  ASSUME IoBase, DrainOK, NEW c \in setup.ctx, UNCHANGED setup,
         loop[c].phase \in {"poll", "bad_poll"}, loop' = [loop EXCEPT ![c].handled = TRUE],
         \A d \in Ctx \ {c} : worker'[d] = worker[d] /\ ring'[d] = ring[d] /\ inbox'[d].queue = inbox[d].queue,
         worker'[c].requests_to_submit = Len(ring'[c].sq), inbox'[c].queue \in {<<>>, inbox[c].queue},
         \A r \in SqSet(ring'[c]) : r \in SqSet(ring[c]) \/ Plain(r),
         ring'[c].kernel = ring[c].kernel, CqSet(ring'[c]) \subseteq CqSet(ring[c])
  PROVE  DrainOK'
<1>1. c \in Ctx /\ loop \in [Ctx -> Loops]
  BY IoConstantsFacts DEF IoBase, IoTypes
<1>2. /\ \A d \in Ctx \ {c} : loop'[d] = loop[d]
      /\ loop'[c].phase = loop[c].phase /\ loop'[c].handled
      /\ loop'[c].will_stop = loop[c].will_stop
  BY <1>1 DEF Loops
<1>3. Mailed(c)
  BY <1>2 DEF Mailed
<1>4. \A d \in Ctx \ {c} : Untouched(d)
  BY <1>2 DEF Untouched
<1>5. ASSUME NEW d \in Ctx PROVE MailOK(d)'
  BY <1>3, <1>4, MailStays, MailKept DEF DrainOK
<1>6. AtGate(c) /\ StaysIn(c) /\ StaysOut(c)
  BY <1>2 DEF AtGate, StaysIn, StaysOut
<1>7. OverOK(c)'
  BY <1>2, OverElsewhere
<1> QED
  BY <1>4, <1>5, <1>6, <1>7, DrainStep

\* poll_completion, but for the eventfd
LEMMA DrainHandles ==
  ASSUME IoBase, DrainOK, NEW c \in setup.ctx, UNCHANGED setup,
         HandleIo(c) \/ HandleLink(c) \/ HandleMsg(c)
  PROVE  DrainOK'
<1>1. /\ c \in Ctx /\ loop \in [Ctx -> Loops] /\ worker \in [Ctx -> Workers]
      /\ ring \in [Ctx -> Rings(Requests)]
  BY IoConstantsFacts DEF IoBase, IoTypes, RingsOK
<1>2. Seen(c) /\ inbox' = inbox /\ \E op : Reaping(c, op)
  BY DEF HandleIo, HandleLink, HandleMsg
<1>3. loop[c].phase \in {"poll", "bad_poll"} /\ ring[c].cq # <<>>
  BY <1>1, <1>2, ReapingAt
<1>4. loop' = [loop EXCEPT ![c].handled = TRUE]
  BY <1>2 DEF Seen
<1>5. /\ \A d \in Ctx \ {c} : ring'[d] = ring[d]
      /\ ring'[c].sq = ring[c].sq /\ ring'[c].kernel = ring[c].kernel /\ ring'[c].cq = Tail(ring[c].cq)
  BY <1>1, <1>2, SeenEffect
<1>6. /\ \A d \in Ctx \ {c} : worker'[d] = worker[d]
      /\ worker'[c].requests_to_submit = worker[c].requests_to_submit
  <2>1. CASE HandleIo(c)
    <3>1. PICK h : ReapAndForward(c, h)
      BY <2>1 DEF HandleIo
    <3> QED
      BY <1>1, <3>1 DEF ReapAndForward, Workers
  <2>2. CASE HandleLink(c)
    BY <1>1, <2>2 DEF HandleLink, Workers
  <2>3. CASE HandleMsg(c)
    BY <1>1, <2>3 DEF HandleMsg, ForwardTask, Workers
  <2> QED
    BY <2>1, <2>2, <2>3
<1>7. CqSet(ring'[c]) \subseteq CqSet(ring[c])
  <2>1. ring[c].cq \in Seq(Requests)
    BY <1>1 DEF Rings
  <2>2. Elements(Tail(ring[c].cq)) \subseteq Elements(ring[c].cq)
    BY <1>3, <2>1, ElementsTail
  <2> QED
    BY <1>5, <2>2 DEF CqSet
<1>8. worker'[c].requests_to_submit = Len(ring'[c].sq) /\ SqSet(ring'[c]) = SqSet(ring[c])
  BY <1>1, <1>5, <1>6 DEF DrainOK, MailOK, SqSet
<1> QED
  BY <1>2, <1>3, <1>4, <1>5, <1>6, <1>7, <1>8, DrainReaps

\* handle_co_spawn_events
LEMMA DrainEvent ==
  ASSUME IoBase, DrainOK, NEW c \in setup.ctx, UNCHANGED setup, HandleEvent(c)
  PROVE  DrainOK'
<1>1. /\ c \in Ctx /\ setup.ctx \subseteq Ctx /\ loop \in [Ctx -> Loops] /\ worker \in [Ctx -> Workers]
      /\ inbox \in [Ctx -> Inboxes] /\ ring \in [Ctx -> Rings(Requests)]
  BY IoConstantsFacts DEF IoBase, IoTypes, RingsOK
<1>2. loop[c].phase \in {"poll", "bad_poll"} /\ ring[c].cq # <<>>
  BY <1>1, ReapingAt DEF HandleEvent
<1>3. inbox' = [inbox EXCEPT ![c].queue = <<>>]
  BY DEF HandleEvent
<1>4. /\ inbox'[c].queue = <<>> /\ \A d \in Ctx \ {c} : inbox'[d].queue = inbox[d].queue
  BY <1>1, <1>3 DEF Inboxes
<1>5. CASE UNCHANGED <<worker, ring, loop>>
  <2>1. ASSUME NEW d \in Ctx PROVE MailOK(d)'
    <3>1. Mailed(d)
      BY <1>4, <1>5 DEF DrainOK, MailOK, Mailed
    <3> QED
      BY <3>1, MailStays DEF DrainOK
  <2>2. AtGate(c) /\ StaysIn(c) /\ StaysOut(c)
    BY <1>5 DEF AtGate, StaysIn, StaysOut
  <2>3. OverOK(c)'
    BY <1>1, <1>5, OverSame DEF DrainOK
  <2>4. \A d \in Ctx \ {c} : Untouched(d)
    BY <1>5 DEF Untouched
  <2> QED
    BY <2>1, <2>2, <2>3, <2>4, DrainStep
<1>6. CASE ~ UNCHANGED <<worker, ring, loop>>
  <2>1. PICK r : r = Req("event", None, None)
    OBVIOUS
  <2>2. /\ worker' = [worker EXCEPT ![c].reap_swap = @ \o inbox[c].queue, ![c].requests_to_submit = @ + 1]
        /\ ring' = [ring EXCEPT ![c].cq = Tail(@), ![c].sq = Append(@, r)]
        /\ loop' = [loop EXCEPT ![c].handled = TRUE]
    BY <1>6, <2>1 DEF HandleEvent
  <2>3. /\ \A d \in Ctx \ {c} : worker'[d] = worker[d] /\ ring'[d] = ring[d]
        /\ worker'[c].requests_to_submit = worker[c].requests_to_submit + 1
    BY <1>1, <2>2 DEF Workers
  <2>4. /\ ring'[c].cq = Tail(ring[c].cq) /\ ring'[c].sq = Append(ring[c].sq, r)
        /\ ring'[c].kernel = ring[c].kernel
    BY <1>1, <2>2 DEF Rings
  <2>5. r \in Requests /\ Plain(r)
    <3>1. setup.fuel \in Nat
      BY <1>1, IoAt
    <3> QED
      BY <2>1, <3>1 DEF Req, Requests, Resuming, Counted, Plain
  <2>6. ring[c].sq \in Seq(Requests) /\ ring[c].cq \in Seq(Requests)
    BY <1>1 DEF Rings
  <2>7. /\ Elements(Append(ring[c].sq, r)) = Elements(ring[c].sq) \cup {r}
        /\ Len(Append(ring[c].sq, r)) = Len(ring[c].sq) + 1
    BY <2>5, <2>6, ElementsAppend
  <2>8. Elements(Tail(ring[c].cq)) \subseteq Elements(ring[c].cq)
    BY <1>2, <2>6, ElementsTail
  <2>9. worker[c].requests_to_submit = Len(ring[c].sq)
    BY <1>1 DEF DrainOK, MailOK
  <2>10. /\ worker'[c].requests_to_submit = Len(ring'[c].sq)
         /\ \A s \in SqSet(ring'[c]) : s \in SqSet(ring[c]) \/ Plain(s)
         /\ CqSet(ring'[c]) \subseteq CqSet(ring[c])
    BY <2>3, <2>4, <2>5, <2>7, <2>8, <2>9 DEF SqSet, CqSet
  <2> QED
    BY <1>2, <1>4, <2>2, <2>3, <2>4, <2>10, DrainReaps
<1> QED
  BY <1>5, <1>6

\* The kernel posts no message.
LEMMA DrainKernel ==
  ASSUME IoBase, DrainOK, NEW c \in setup.ctx, UNCHANGED setup, Kernel(c)
  PROVE  DrainOK'
<1>1. /\ c \in Ctx /\ setup.ctx \subseteq Ctx /\ inbox \in [Ctx -> Inboxes]
      /\ ring \in [Ctx -> Rings(Requests)]
  BY IoConstantsFacts DEF IoBase, IoTypes, RingsOK
<1>2. worker' = worker /\ loop' = loop
  BY DEF Kernel, KernelIo, KernelSkip, KernelEvent
<1>3. \A d \in Ctx : inbox'[d].queue = inbox[d].queue
  BY <1>1 DEF Inboxes, Kernel, KernelIo, KernelSkip, KernelEvent
<1>4. PICK r \in ring[c].kernel : \/ ring' = [Leaves(c, r) EXCEPT ![c].cq = Append(@, r)]
                                  \/ ring' = Leaves(c, r)
  BY DEF Kernel, KernelIo, KernelSkip, KernelEvent
<1>5. /\ \A d \in Ctx \ {c} : ring'[d] = ring[d]
      /\ ring'[c].sq = ring[c].sq /\ ring'[c].kernel = ring[c].kernel \ {r}
      /\ ring'[c].cq \in {ring[c].cq, Append(ring[c].cq, r)}
  <2>1. CASE ring' = [Leaves(c, r) EXCEPT ![c].cq = Append(@, r)]
    BY <1>1, <2>1 DEF Leaves, Rings
  <2>2. CASE ring' = Leaves(c, r)
    BY <1>1, <2>2 DEF Leaves, Rings
  <2> QED
    BY <1>4, <2>1, <2>2
<1>6. /\ ring[c].cq # <<>> => ring'[c].cq # <<>>
      /\ \A s \in CqSet(ring'[c]) : s \in CqSet(ring[c]) \/ s = r
  <2>1. ring[c].cq \in Seq(Requests) /\ r \in Requests
    BY <1>1 DEF Rings
  <2>2. /\ Append(ring[c].cq, r) # <<>>
        /\ Elements(Append(ring[c].cq, r)) = Elements(ring[c].cq) \cup {r}
    <3>1. PICK q : q = ring[c].cq
      OBVIOUS
    <3>2. q \in Seq(Requests)
      BY <2>1, <3>1
    <3>3. Append(q, r) # <<>>
      <4>1. Len(Append(q, r)) = Len(q) + 1 /\ Len(q) \in Nat /\ Len(<<>>) = 0
        BY <2>1, <3>2
      <4> QED
        BY <4>1
    <3>4. Elements(Append(q, r)) = Elements(q) \cup {r}
      BY <2>1, <3>2, ElementsAppend
    <3> QED
      BY <3>1, <3>3, <3>4
  <2> QED
    BY <1>5, <2>2 DEF CqSet
<1>7. Mailed(c)
  BY <1>1, <1>2, <1>3, <1>5, <1>6 DEF Mailed, DrainOK, MailOK, SqSet
<1>8. \A d \in Ctx \ {c} : Untouched(d)
  BY <1>2, <1>5 DEF Untouched
<1>9. ASSUME NEW d \in Ctx PROVE MailOK(d)'
  BY <1>3, <1>7, <1>8, MailStays, MailKept DEF DrainOK
<1>10. AtGate(c) /\ StaysIn(c) /\ StaysOut(c)
  BY <1>2 DEF AtGate, StaysIn, StaysOut
<1>11. OverOK(c)'
  <2>1. Plain(r)
    BY <1>1 DEF DrainOK, MailOK
  <2>2. \A s \in CqSet(ring'[c]) : s \in CqSet(ring[c]) \/ s.op # "msg"
    BY <1>6, <2>1 DEF Plain
  <2> QED
    BY <1>1, <1>2, <1>6, <2>2, OverSame DEF DrainOK
<1> QED
  BY <1>8, <1>9, <1>10, <1>11, DrainStep

\* Before start().
LEMMA DrainInit == IoBase /\ Init => DrainOK
<1> SUFFICES ASSUME IoBase, Init PROVE DrainOK
  OBVIOUS
<1>1. setup.ctx \subseteq Ctx
  BY IoConstantsFacts DEF IoBase, IoTypes
<1>2. \A c \in Ctx : /\ ring[c].sq = <<>> /\ ring[c].kernel = {} /\ ring[c].cq = <<>>
                     /\ worker[c].requests_to_submit = 0 /\ inbox[c].queue = <<>>
                     /\ loop[c].phase = "created" /\ ~ loop[c].will_stop
  BY DEF Init
<1>3. \A c \in Ctx : SqSet(ring[c]) = {} /\ CqSet(ring[c]) = {} /\ Len(ring[c].sq) = 0
  BY <1>2 DEF SqSet, CqSet, Elements
<1>4. \A c \in Ctx : MailOK(c)
  BY <1>2, <1>3 DEF MailOK
<1>5. BarrierOK /\ KeepOK
  BY <1>1, <1>2 DEF BarrierOK, KeepOK
<1>6. \A c \in setup.ctx : OverOK(c)
  BY <1>1, <1>2 DEF OverOK
<1> QED
  BY <1>4, <1>5, <1>6 DEF DrainOK

\* One action at a time.
LEMMA DrainNext == IoBase /\ (Orderly => DrainOK) /\ [Next]_(vars) => (Orderly => DrainOK)'
<1> SUFFICES ASSUME IoBase, Orderly => DrainOK, [Next]_(vars), Orderly' PROVE DrainOK'
  OBVIOUS
<1>1. UNCHANGED setup
  BY DEF Next, Step, vars
<1>2. Orderly /\ DrainOK
  BY <1>1 DEF Orderly, KeepsOn
<1>3. CASE UNCHANGED vars
  <2>1. UNCHANGED <<worker, inbox, ring, loop, setup>>
    BY <1>3 DEF vars
  <2> QED
    BY <1>2, <2>1 DEF DrainOK, MailOK, BarrierOK, KeepOK, OverOK, Settled, Alone, KeepsOn, Plain, SqSet, CqSet
<1>4. ASSUME NEW c \in Ctx, Step(c, Thread(c)) PROVE DrainOK'
  <2>1. c \in setup.ctx /\ Thread(c)
    BY <1>4 DEF Step
  <2>2. CASE Start(c) \/ Deinit(c) \/ PollDone(c) \/ Peek(c)
    BY <1>1, <1>2, <2>1, <2>2, DrainMoves
  <2>3. CASE PassBarrier(c)
    BY <1>1, <1>2, <2>1, <2>3, DrainBarrier
  <2>4. CASE BadPeek(c)
    BY <1>1, <1>2, <2>1, <2>4, DrainBadPeek
  <2>5. CASE BadPollDone(c)
    BY <1>1, <1>2, <2>1, <2>5, DrainPolled
  <2>6. CASE DecideOver(c)
    BY <1>1, <1>2, <2>1, <2>6, DrainDecide
  <2>7. CASE Wake(c)
    BY <1>1, <1>2, <2>1, <2>7, DrainWait
  <2>8. CASE Run(c)
    BY <1>1, <1>2, <2>1, <2>8, DrainRun
  <2>9. CASE WorkOnce(c)
    BY <1>1, <1>2, <2>1, <2>9, DrainQuiet
  <2>10. CASE EventWrite(c)
    BY <1>1, <1>2, <2>1, <2>10, DrainWrite
  <2>11. CASE PollSubmission(c)
    BY <1>1, <1>2, <2>1, <2>11, DrainSubmit
  <2>12. CASE Reap(c)
    <3>1. HandleIo(c) \/ HandleLink(c) \/ HandleMsg(c) \/ HandleEvent(c)
      BY <2>12 DEF Reap
    <3> QED
      BY <1>1, <1>2, <2>1, <3>1, DrainHandles, DrainEvent
  <2>13. CASE Coroutine(c)
    <3>1. CASE \/ AwaitIo(c) \/ AwaitLink(c) \/ AwaitTimeout(c) \/ PrepareIo(c) \/ Detach(c)
      BY <1>1, <1>2, <2>1, <3>1, DrainAwait
    <3>2. CASE AwaitPrepared(c) \/ Yield(c) \/ StopContext(c) \/ Return(c)
      BY <1>1, <1>2, <2>1, <3>2, DrainQuiet
    <3>3. CASE CoSpawn(c) \/ ResumeOn(c)
      BY <1>1, <1>2, <2>1, <3>3, DrainSends
    <3> QED
      BY <2>13, <3>1, <3>2, <3>3 DEF Coroutine
  <2> QED
    BY <2>1, <2>2, <2>3, <2>4, <2>5, <2>6, <2>7, <2>8, <2>9, <2>10, <2>11, <2>12, <2>13 DEF Thread
<1>5. ASSUME NEW c \in Ctx, Step(c, Kernel(c)) PROVE DrainOK'
  BY <1>1, <1>2, <1>5, DrainKernel DEF Step
<1>6. ASSUME NEW c \in Ctx, Step(c, Interrupt(c)) PROVE DrainOK'
  BY <1>1, <1>2, <1>6, DrainWait DEF Step
<1>7. ASSUME NEW c \in Ctx, Step(c, BarrierTimeout(c)) PROVE DrainOK'
  BY <1>1, <1>2, <1>7, DrainMoves DEF Step
<1> QED
  BY <1>3, <1>4, <1>5, <1>6, <1>7 DEF Next

\* No thread moves another one.
LEMMA OthersStay ==
  ASSUME IoBase, NEW d \in Ctx, NEW c \in Ctx \ {d},
         Thread(d) \/ Kernel(d) \/ Interrupt(d) \/ BarrierTimeout(d)
  PROVE  loop'[c] = loop[c]
<1>1. loop \in [Ctx -> Loops]
  BY IoAt
<1>2. CASE Kernel(d) \/ BarrierTimeout(d)
  BY <1>2 DEF Kernel, KernelIo, KernelSkip, KernelEvent, BarrierTimeout
<1>3. ASSUME NEW p, Goto(d, p) PROVE loop'[c] = loop[c]
  BY <1>3, GotoEffect
<1>4. CASE NextRound(d)
  BY <1>4, RoundEffect
<1>5. CASE Interrupt(d) \/ Wake(d)
  BY <1>3, <1>5 DEF Interrupt, Wake, WaitReturns
<1>6. CASE Suspend(d)
  BY <1>1, <1>6 DEF Suspend
<1>7. CASE Start(d) \/ PassBarrier(d) \/ Run(d) \/ PollDone(d) \/ BadPollDone(d) \/ Deinit(d)
  BY <1>3, <1>4, <1>7 DEF Start, PassBarrier, Run, PollDone, BadPollDone, Deinit
<1>8. CASE PollSubmission(d)
  BY <1>3, <1>8 DEF PollSubmission
<1>9. CASE Peek(d)
  BY <1>3, <1>4, <1>9 DEF Peek
<1>10. CASE BadPeek(d) \/ EventWrite(d) \/ WorkOnce(d)
  BY <1>1, <1>10 DEF BadPeek, EventWrite, WorkOnce
<1>11. CASE DecideOver(d)
  BY <1>11, DecideEffect
<1>12. CASE Reap(d)
  BY <1>1, <1>12 DEF Reap, HandleIo, HandleLink, HandleMsg, HandleEvent, Seen
<1>13. CASE Coroutine(d)
  <2>1. CASE \/ AwaitIo(d) \/ AwaitLink(d) \/ AwaitTimeout(d) \/ AwaitPrepared(d)
             \/ Yield(d) \/ Return(d)
    BY <1>6, <2>1 DEF AwaitIo, AwaitLink, AwaitTimeout, AwaitPrepared, Yield, Return
  <2>2. CASE PrepareIo(d) \/ Detach(d)
    BY <2>2 DEF PrepareIo, Detach
  <2>3. CASE StopContext(d)
    BY <1>1, <2>3 DEF StopContext
  <2>4. CASE CoSpawn(d) \/ ResumeOn(d)
    BY <1>1, <2>4 DEF CoSpawn, ResumeOn
  <2> QED
    BY <1>13, <2>1, <2>2, <2>3, <2>4 DEF Coroutine
<1> QED
  BY <1>2, <1>5, <1>7, <1>8, <1>9, <1>10, <1>11, <1>12, <1>13 DEF Thread

\* At the stop condition a thread can only decide, or finish a write.
LEMMA AtOver ==
  ASSUME IoBase, NEW c \in Ctx, loop[c].phase = "over",
         Thread(c) \/ Kernel(c) \/ Interrupt(c) \/ BarrierTimeout(c)
  PROVE  DecideOver(c) \/ loop'[c].will_stop = loop[c].will_stop
<1>1. CASE Kernel(c) \/ BarrierTimeout(c)
  BY <1>1 DEF Kernel, KernelIo, KernelSkip, KernelEvent, BarrierTimeout
<1>2. CASE EventWrite(c)
  <2>1. loop \in [Ctx -> Loops]
    BY IoAt
  <2> QED
    BY <1>2, <2>1 DEF EventWrite, Loops
<1>3. ~ Interrupt(c) /\ ~ Wake(c)
  BY DEF Interrupt, Wake, WaitReturns, At
<1>4. /\ ~ Start(c) /\ ~ PassBarrier(c) /\ ~ Run(c) /\ ~ PollDone(c) /\ ~ BadPollDone(c)
      /\ ~ Deinit(c) /\ ~ PollSubmission(c) /\ ~ Peek(c) /\ ~ BadPeek(c) /\ ~ WorkOnce(c)
  BY DEF Start, PassBarrier, Run, PollDone, BadPollDone, Deinit, PollSubmission,
         Peek, BadPeek, WorkOnce, At
<1>5. ~ Reap(c)
  <2>1. \A op : ~ Reaping(c, op)
    BY DEF Reaping, At
  <2> QED
    BY <2>1 DEF Reap, HandleIo, HandleLink, HandleMsg, HandleEvent
<1>6. ~ Coroutine(c)
  <2>1. ~ At(c, "work") /\ \A op : ~ May(c, op)
    BY DEF May, At
  <2> QED
    BY <2>1 DEF Coroutine, AwaitIo, AwaitLink, AwaitTimeout, PrepareIo, AwaitPrepared,
                Detach, Yield, CoSpawn, ResumeOn, StopContext, Return
<1> QED
  BY <1>1, <1>2, <1>3, <1>4, <1>5, <1>6 DEF Thread

\* What a step may do at the stop condition.
LEMMA StopStep ==
  ASSUME IoBase, DrainOK, Orderly, ~ failed, Next, NEW c \in Ctx, loop[c].phase = "over", loop'[c].will_stop
  PROVE  loop[c].will_stop \/ Drained(c)
<1>1. PICK d \in Ctx : /\ d \in setup.ctx
                       /\ Thread(d) \/ Kernel(d) \/ Interrupt(d) \/ BarrierTimeout(d)
  BY DEF Next, Step
<1>2. CASE d # c
  BY <1>1, <1>2, OthersStay
<1>3. CASE d = c
  <2>1. DecideOver(c) \/ loop'[c].will_stop = loop[c].will_stop
    BY <1>1, <1>3, AtOver
  <2> QED
    BY <1>1, <1>3, <2>1, DecidesDrained
<1> QED
  BY <1>2, <1>3

\* The invariant.
LEMMA DrainHolds == Spec => [](Orderly => DrainOK)
<1>1. Spec => []IoBase
  BY IoBaseHolds
<1>2. IoBase /\ Init => (Orderly => DrainOK)
  BY DrainInit
<1> QED
  BY <1>1, <1>2, DrainNext, PTL DEF Spec

\* The program does not change.
LEMMA OrderlyStays == Orderly /\ [Next]_(vars) => Orderly'
BY DEF Orderly, KeepsOn, Next, Step, vars

\* do_completion_part_bad_path ends a context that was not told to stop only
\* when nothing is left to run there, nothing is awaited and nothing is on its
\* way to it, whatever the programs do until a detached request fails, if they
\* never call io_context_stop() or if messages go by msg_ring and no signal
\* interrupts a wait: a task that was dispatched to a context is not forgotten by
\* it.
THEOREM IoStopsOnlyWhenDrained ==
  Spec /\ Orderly => StopsOnlyWhenDrained
<1>1. ASSUME IoBase, Orderly => DrainOK, Orderly, [Next]_(vars)
      PROVE  [~ failed => \A c \in Ctx : loop[c].phase = "over" /\ loop'[c].will_stop
                                 => loop[c].will_stop \/ Drained(c)]_(vars)
  BY <1>1, StopStep
<1>2. Spec => []IoBase
  BY IoBaseHolds
<1>3. Spec => [](Orderly => DrainOK)
  BY DrainHolds
<1> QED
  BY <1>1, <1>2, <1>3, OrderlyStays, PTL DEF Spec, StopsOnlyWhenDrained
=============================================================================
