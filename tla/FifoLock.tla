------------------------------ MODULE FifoLock ------------------------------
(***************************************************************************)
(* What co_context::mutex promises: one owner; whoever has to wait gets    *)
(* the lock in order of arrival, handed over by the owner directly, so     *)
(* that a late lock() or try_lock() never overtakes a waiter.              *)
(***************************************************************************)
EXTENDS Sequences

CONSTANTS Procs, None

VARIABLES owner, queue

vars == <<owner, queue>>

Init == owner = None /\ queue = <<>>

Acquire(p) == /\ owner = None
              /\ queue = <<>>
              /\ owner' = p
              /\ UNCHANGED queue

Enqueue(p) == /\ owner # None
              /\ owner # p
              /\ \A i \in DOMAIN queue : queue[i] # p
              /\ queue' = Append(queue, p)
              /\ UNCHANGED owner

Release == /\ owner # None
           /\ queue = <<>>
           /\ owner' = None
           /\ UNCHANGED queue

HandOver == /\ owner # None
            /\ queue # <<>>
            /\ owner' = Head(queue)
            /\ queue' = Tail(queue)

Next == Release \/ HandOver \/ \E p \in Procs : Acquire(p) \/ Enqueue(p)

Spec == Init /\ [][Next]_vars
=============================================================================
