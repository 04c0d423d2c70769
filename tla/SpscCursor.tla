----------------------------- MODULE SpscCursor -----------------------------
(***************************************************************************)
(* spsc_cursor (include/co_context/detail/spsc_cursor.hpp): the two        *)
(* wrapping indices of a ring of slots between one producer and one        *)
(* consumer (in worker_meta, reap_cur over reap_swap).                     *)
(*                                                                         *)
(* The thread-safe instance: every load and store of an index that the     *)
(* other side reads is a step.  The producer waits for room, fills slots   *)
(* from tail() on, and publishes them with push(num); the consumer does    *)
(* the like with pop(num).                                                 *)
(***************************************************************************)
EXTENDS Integers, Sequences

CONSTANTS Word,        \* number of values of T, 2^w: the indices wrap there
          capacity,
          Items,
          is_blocking  \* template parameter: sleep on the index, or spin

ASSUME CursorAssumption ==
  /\ Word \in Nat /\ capacity \in Nat \ {0}
  /\ \E n \in 2..Word : Word = n * capacity  \* both are powers of two
  /\ is_blocking \in BOOLEAN

VARIABLES m_head, m_tail,
          slots,           \* the array the cursor is for (reap_swap)
          producer, room,  \* where the producer is, the room it has found
          filled,          \* what it has put into slots and not yet published
          consumer, ready, \* where the consumer is, the number it has found
          taken,           \* what it has taken from slots and not yet given up
          queue            \* history: published and not yet given up

cursor_vars == <<m_head, m_tail, slots, producer, room, filled, consumer, ready, taken, queue>>

Index == 0..Word - 1

\* Arithmetic of T; `& mask' is `% capacity'.
Add(a, b) == (a + b) % Word

Sub(a, b) == (a - b) % Word

Slot(n, i) == Add(n, i) % capacity

size == Sub(m_tail, m_head)

\* Mutant: one slot too many.
available_number_plus_one == capacity - size + 1

available_number == capacity - size

States == {"wait", "asleep", "busy", "notify"}

CursorTypeOK ==
  /\ m_head \in Index /\ m_tail \in Index
  /\ slots \in [0..capacity - 1 -> Items]
  /\ producer \in States /\ consumer \in States
  /\ room \in Nat /\ ready \in Nat
  /\ filled \in Seq(Items) /\ taken \in Seq(Items) /\ queue \in Seq(Items)

CursorInit ==
  /\ m_head = 0 /\ m_tail = 0
  /\ slots \in [0..capacity - 1 -> Items]
  /\ producer = "wait" /\ room = 0 /\ filled = <<>>
  /\ consumer = "wait" /\ ready = 0 /\ taken = <<>>
  /\ queue = <<>>

-----------------------------------------------------------------------------
\* wait_for_available(): sleep on m_head while it is head_full (or spin) ...
SleepOnHead ==
  /\ producer = "wait" /\ is_blocking
  /\ m_head = Sub(m_tail, capacity)
  /\ producer' = "asleep"
  /\ UNCHANGED <<m_head, m_tail, slots, room, filled, consumer, ready, taken, queue>>

\* ... and go on with what room there is
wait_for_available ==
  /\ producer = "wait"
  /\ m_head # Sub(m_tail, capacity)
  /\ producer' = "busy"
  /\ room' = available_number
  /\ UNCHANGED <<m_head, m_tail, slots, filled, consumer, ready, taken, queue>>

\* Mutant: every item of a batch goes to tail().
FillAtTail(v) ==
  /\ producer = "busy" /\ Len(filled) < room
  /\ slots' = [slots EXCEPT ![Slot(m_tail, 0)] = v]
  /\ filled' = Append(filled, v)
  /\ UNCHANGED <<m_head, m_tail, producer, room, consumer, ready, taken, queue>>

\* reap_swap[tail()] = item
Fill(v) ==
  /\ producer = "busy" /\ Len(filled) < room
  /\ slots' = [slots EXCEPT ![Slot(m_tail, Len(filled))] = v]
  /\ filled' = Append(filled, v)
  /\ UNCHANGED <<m_head, m_tail, producer, room, consumer, ready, taken, queue>>

push ==
  /\ producer = "busy" /\ filled # <<>>
  /\ m_tail' = Add(m_tail, Len(filled))
  /\ queue' = queue \o filled
  /\ filled' = <<>>
  /\ producer' = "notify"
  /\ UNCHANGED <<m_head, slots, room, consumer, ready, taken>>

\* push_notify(): notify_one after the store
push_notify ==
  /\ producer = "notify"
  /\ producer' = "wait"
  /\ consumer' = IF consumer = "asleep" THEN "wait" ELSE consumer
  /\ UNCHANGED <<m_head, m_tail, slots, room, filled, ready, taken, queue>>

-----------------------------------------------------------------------------
\* wait_for_not_empty(), likewise
SleepOnTail ==
  /\ consumer = "wait" /\ is_blocking
  /\ m_tail = m_head
  /\ consumer' = "asleep"
  /\ UNCHANGED <<m_head, m_tail, slots, producer, room, filled, ready, taken, queue>>

wait_for_not_empty ==
  /\ consumer = "wait"
  /\ m_tail # m_head
  /\ consumer' = "busy"
  /\ ready' = size
  /\ UNCHANGED <<m_head, m_tail, slots, producer, room, filled, taken, queue>>

\* item = reap_swap[head()]
Take ==
  /\ consumer = "busy" /\ Len(taken) < ready
  /\ taken' = Append(taken, slots[Slot(m_head, Len(taken))])
  /\ UNCHANGED <<m_head, m_tail, slots, producer, room, filled, consumer, ready, queue>>

\* Mutant: pops one, however many were taken.
pop_one ==
  /\ consumer = "busy" /\ taken # <<>>
  /\ m_head' = Add(m_head, 1)
  /\ queue' = SubSeq(queue, Len(taken) + 1, Len(queue))
  /\ taken' = <<>>
  /\ consumer' = "notify"
  /\ UNCHANGED <<m_tail, slots, producer, room, filled, ready>>

pop ==
  /\ consumer = "busy" /\ taken # <<>>
  /\ m_head' = Add(m_head, Len(taken))
  /\ queue' = SubSeq(queue, Len(taken) + 1, Len(queue))
  /\ taken' = <<>>
  /\ consumer' = "notify"
  /\ UNCHANGED <<m_tail, slots, producer, room, filled, ready>>

\* Mutant: pop() without notify_one.
pop_silently ==
  /\ consumer = "notify"
  /\ consumer' = "wait"
  /\ UNCHANGED <<m_head, m_tail, slots, producer, room, filled, ready, taken, queue>>

pop_notify ==
  /\ consumer = "notify"
  /\ consumer' = "wait"
  /\ producer' = IF producer = "asleep" THEN "wait" ELSE producer
  /\ UNCHANGED <<m_head, m_tail, slots, room, filled, ready, taken, queue>>

-----------------------------------------------------------------------------
CursorNext == \/ SleepOnHead \/ wait_for_available \/ (\E v \in Items : Fill(v)) \/ push \/ push_notify
              \/ SleepOnTail \/ wait_for_not_empty \/ Take \/ pop \/ pop_notify

CursorSpec == CursorInit /\ [][CursorNext]_cursor_vars

-----------------------------------------------------------------------------
\* size() is the number of items published and not given up, wherever the
\* indices have wrapped; there are never more of them than slots.
SizeIsExact == size = Len(queue) /\ Len(queue) <= capacity

\* What the producer publishes is what the consumer takes, in that order: the
\* slots from head() on hold it, no slot is filled again before it is given up.
SlotsInOrder ==
  /\ \A i \in 1..Len(queue) : slots[Slot(m_head, i - 1)] = queue[i]
  /\ \A i \in 1..Len(taken) : i <= Len(queue) /\ taken[i] = queue[i]

\* A side asleep although it could go on is about to be notified.
NoMissedWakeup ==
  /\ producer = "asleep" /\ Len(queue) < capacity => consumer = "notify"
  /\ consumer = "asleep" /\ queue # <<>> => producer = "notify"

=============================================================================
