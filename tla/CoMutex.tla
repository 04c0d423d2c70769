------------------------------- MODULE CoMutex -------------------------------
(***************************************************************************)
(* co_context::mutex (include/co_context/co/mutex.hpp,                     *)
(* lib/co_context/co/mutex.cpp): a lock for coroutines that suspends       *)
(* instead of blocking.                                                    *)
(*                                                                         *)
(* One atomic word, `awaiting', is NotLocked, LockedNoAwaiting (= nullptr) *)
(* or the top of an intrusive stack of lock_awaiters.  `to_resume' is a    *)
(* plain list of awaiters that only the lock holder touches.  A coroutine  *)
(* has one lock_awaiter in its frame, so the awaiter is named by its       *)
(* coroutine and its address is reused when the coroutine locks again.     *)
(*                                                                         *)
(* Coroutines run on io_contexts of their own (one thread each), so every  *)
(* access to `awaiting' interleaves with every other.  An assignment to    *)
(* memory only the executing coroutine can reach is merged with the atomic *)
(* access that follows it.                                                 *)
(***************************************************************************)
CONSTANTS Coros,      \* coroutines that use the mutex
          Null,       \* nullptr, and the value 0 of `awaiting'
          NotLocked   \* the value 1 of `awaiting'

ASSUME CoroAssumption == /\ Null \notin Coros
                         /\ NotLocked \notin Coros
                         /\ NotLocked # Null

\* `awaiting == 0': locked, stack empty; the bottom awaiter's `next' is the same 0.
LockedNoAwaiting == Null

Ptr == Coros \cup {Null}

VARIABLES awaiting,    \* mutex::awaiting
          to_resume,   \* mutex::to_resume
          next,        \* next[c]: lock_awaiter::next of c's awaiter
          old_state,   \* old_state[c]: local of register_awaiting
          resume_head, \* resume_head[c]: local of unlock
          node,        \* node[c]: local of unlock
          pc           \* where each coroutine is

vars == <<awaiting, to_resume, next, old_state, resume_head, node, pc>>

(***************************************************************************)
(* idle      outside the mutex          register  in register_awaiting     *)
(* waiting   suspended on the mutex     granted   co_spawned, not yet run  *)
(* critical  holds the lock             u_...     inside unlock()          *)
(***************************************************************************)
Unlocking == {"u_cas", "u_exchange", "u_reverse", "u_pop", "u_spawn"}

PcValues == {"idle", "register", "waiting", "granted", "critical"} \cup Unlocking

\* The coroutines that own the lock: exactly one of them unless NotLocked.
Owners == {c \in Coros : pc[c] \in {"granted", "critical"} \cup Unlocking}

TypeOK == /\ awaiting \in Ptr \cup {NotLocked}
          /\ to_resume \in Ptr
          /\ next \in [Coros -> Ptr]
          /\ old_state \in [Coros -> Ptr \cup {NotLocked}]
          /\ resume_head \in [Coros -> Ptr]
          /\ node \in [Coros -> Ptr]
          /\ pc \in [Coros -> PcValues]

Init == /\ awaiting = NotLocked
        /\ to_resume = Null
        /\ next = [c \in Coros |-> Null]
        /\ old_state = [c \in Coros |-> NotLocked]
        /\ resume_head = [c \in Coros |-> Null]
        /\ node = [c \in Coros |-> Null]
        /\ pc = [c \in Coros |-> "idle"]

Goto(c, from, to) == pc[c] = from /\ pc' = [pc EXCEPT ![c] = to]

-----------------------------------------------------------------------------
\* try_lock(): one strong CAS from NotLocked; a failure changes nothing.
TryLock(c) ==
  /\ Goto(c, "idle", "critical")
  /\ awaiting = NotLocked
  /\ awaiting' = LockedNoAwaiting
  /\ UNCHANGED <<to_resume, next, old_state, resume_head, node>>

\* co_await lock(): await_suspend enters register_awaiting and loads `awaiting'.
Lock(c) ==
  /\ Goto(c, "idle", "register")
  /\ old_state' = [old_state EXCEPT ![c] = awaiting]
  /\ UNCHANGED <<awaiting, to_resume, next, resume_head, node>>

\* A CAS of register_awaiting that fails reloads old_state and loops.  (A
\* spurious failure of the weak CAS reloads the same value: a stuttering step.)
RegisterRetry(c) ==
  /\ pc[c] = "register"
  /\ awaiting # old_state[c]
  /\ old_state' = [old_state EXCEPT ![c] = awaiting]
  /\ next' = IF old_state[c] = NotLocked THEN next
             ELSE [next EXCEPT ![c] = old_state[c]]
  /\ UNCHANGED <<awaiting, to_resume, resume_head, node, pc>>

\* Mutant: trusts the value loaded earlier instead of comparing again.
RegisterAcquireBlind(c) ==
  /\ Goto(c, "register", "critical")
  /\ old_state[c] = NotLocked
  /\ awaiting' = LockedNoAwaiting
  /\ UNCHANGED <<to_resume, next, old_state, resume_head, node>>

\* CAS NotLocked -> LockedNoAwaiting succeeds: the lock is taken, no suspension.
RegisterAcquire(c) ==
  /\ Goto(c, "register", "critical")
  /\ old_state[c] = NotLocked
  /\ awaiting = NotLocked
  /\ awaiting' = LockedNoAwaiting
  /\ UNCHANGED <<to_resume, next, old_state, resume_head, node>>

\* this->next = old_state, and the CAS that makes `this' the top succeeds.
RegisterPush(c) ==
  /\ Goto(c, "register", "waiting")
  /\ old_state[c] # NotLocked
  /\ awaiting = old_state[c]
  /\ next' = [next EXCEPT ![c] = old_state[c]]
  /\ awaiting' = c
  /\ UNCHANGED <<to_resume, old_state, resume_head, node>>

\* resume_ctx's worker resumes the coroutine that was handed the lock.
Resume(c) ==
  /\ Goto(c, "granted", "critical")
  /\ UNCHANGED <<awaiting, to_resume, next, old_state, resume_head, node>>

\* unlock(): resume_head = to_resume decides which way it goes.
Unlock(c) ==
  /\ Goto(c, "critical", IF to_resume = Null THEN "u_cas" ELSE "u_pop")
  /\ resume_head' = [resume_head EXCEPT ![c] = to_resume]
  /\ UNCHANGED <<awaiting, to_resume, next, old_state, node>>

\* Mutant: a plain store instead of the CAS.
UnlockCasStore(c) ==
  /\ Goto(c, "u_cas", "idle")
  /\ awaiting' = NotLocked
  /\ UNCHANGED <<to_resume, next, old_state, resume_head, node>>

\* The strong CAS LockedNoAwaiting -> NotLocked: done, or somebody has pushed.
UnlockCas(c) ==
  /\ Goto(c, "u_cas", IF awaiting = LockedNoAwaiting THEN "idle" ELSE "u_exchange")
  /\ awaiting' = IF awaiting = LockedNoAwaiting THEN NotLocked ELSE awaiting
  /\ UNCHANGED <<to_resume, next, old_state, resume_head, node>>

\* awaiting.exchange(locked_no_awaiting): take the whole stack.
UnlockExchange(c) ==
  /\ Goto(c, "u_exchange", "u_reverse")
  /\ node' = [node EXCEPT ![c] = awaiting]
  /\ awaiting' = LockedNoAwaiting
  /\ UNCHANGED <<to_resume, next, old_state, resume_head>>

\* Mutant: the stack is not reversed.
UnlockReverseLifo(c) ==
  /\ Goto(c, "u_reverse", "u_pop")
  /\ resume_head' = [resume_head EXCEPT ![c] = node[c]]
  /\ node' = [node EXCEPT ![c] = Null]
  /\ UNCHANGED <<awaiting, to_resume, next, old_state>>

\* One round of the do-while that reverses the stack into arrival order.
UnlockReverse(c) ==
  /\ pc[c] = "u_reverse"
  /\ LET n == node[c] IN
     /\ pc' = [pc EXCEPT ![c] = IF next[n] = Null THEN "u_pop" ELSE "u_reverse"]
     /\ next' = [next EXCEPT ![n] = resume_head[c]]
     /\ resume_head' = [resume_head EXCEPT ![c] = n]
     /\ node' = [node EXCEPT ![c] = next[n]]
  /\ UNCHANGED <<awaiting, to_resume, old_state>>

\* Mutant: forgets the rest of the list.
UnlockPopForgets(c) ==
  /\ Goto(c, "u_pop", "u_spawn")
  /\ to_resume' = Null
  /\ UNCHANGED <<awaiting, next, old_state, resume_head, node>>

\* to_resume = resume_head->next, the last access to the list by this holder.
UnlockPop(c) ==
  /\ Goto(c, "u_pop", "u_spawn")
  /\ to_resume' = next[resume_head[c]]
  /\ UNCHANGED <<awaiting, next, old_state, resume_head, node>>

\* resume_head->co_spawn(): the lock is handed over without being released.
UnlockSpawn(c) ==
  /\ pc[c] = "u_spawn"
  /\ pc' = [pc EXCEPT ![c] = "idle", ![resume_head[c]] = "granted"]
  /\ resume_head' = [resume_head EXCEPT ![c] = Null]
  /\ UNCHANGED <<awaiting, to_resume, next, old_state, node>>

-----------------------------------------------------------------------------
\* The steps a coroutine takes once it has started an operation.
Step(c) == \/ RegisterRetry(c) \/ RegisterAcquire(c) \/ RegisterPush(c)
           \/ Resume(c) \/ Unlock(c) \/ UnlockCas(c) \/ UnlockExchange(c)
           \/ UnlockReverse(c) \/ UnlockPop(c) \/ UnlockSpawn(c)

Next == \E c \in Coros : TryLock(c) \/ Lock(c) \/ Step(c)

Spec == Init /\ [][Next]_vars

\* A thread that has started an operation keeps running, a context keeps
\* resuming what was co_spawned on it, and a holder eventually unlocks.
FairSpec == Spec /\ \A c \in Coros : WF_vars(Step(c))

-----------------------------------------------------------------------------
\* Ownership is exclusive, and `awaiting' says "not locked" exactly when
\* nobody owns the lock, a coroutine that was handed it but has not run yet
\* included (the assertion at the top of unlock() rests on this).
MutualExclusion ==
  /\ \A c, d \in Owners : c = d
  /\ awaiting = NotLocked <=> Owners = {}

(***************************************************************************)
(* The linked structure of suspended awaiters.  Every one of them has to   *)
(* be named by exactly one of `awaiting', `to_resume', a local of the      *)
(* running unlock() or the `next' of another one: by none, it sleeps       *)
(* forever; by two, it is resumed twice.                                   *)
(***************************************************************************)
Waiting == {c \in Coros : pc[c] = "waiting"}

\* Between u_pop and its assignment, `to_resume' repeats resume_head.
Listed == IF \E c \in Coros : pc[c] = "u_pop" THEN Null ELSE to_resume

\* The awaiter about to be spawned: its `next' has been copied to to_resume.
Popped(d) == \E c \in Coros : pc[c] = "u_spawn" /\ resume_head[c] = d

Link(d) == IF Popped(d) THEN Null ELSE next[d]

Anchored(w) == \/ awaiting = w
               \/ Listed = w
               \/ \E c \in Coros : resume_head[c] = w \/ node[c] = w

\* No dangling reference: what is named is suspended.
OnlyWaitersLinked ==
  /\ \A a \in Coros : Anchored(a) => a \in Waiting
  /\ \A d \in Waiting : Link(d) \in Waiting \cup {Null}

\* No suspended awaiter is lost.
EveryWaiterLinked ==
  \A w \in Waiting : Anchored(w) \/ \E d \in Waiting : Link(d) = w

\* No suspended awaiter is named twice.
LinksDisjoint ==
  /\ awaiting \in Coros => /\ awaiting # Listed
                           /\ \A c \in Coros : awaiting \notin {resume_head[c], node[c]}
  /\ Listed # Null => \A c \in Coros : Listed \notin {resume_head[c], node[c]}
  /\ \A c, d \in Coros : resume_head[c] # Null => resume_head[c] # node[d]
  /\ \A d \in Waiting : Link(d) # Null => ~ Anchored(Link(d))
  /\ \A d, e \in Waiting : Link(d) = Link(e) /\ Link(d) # Null => d = e

\* Every suspended lock_awaiter is linked exactly once, and nothing else is,
\* at every step of every interleaving of register_awaiting and unlock.
WaiterLinkedOnce == OnlyWaitersLinked /\ EveryWaiterLinked /\ LinksDisjoint

\* What unlock()'s locals and to_resume hold at each of its points: with
\* TypeOK and the two properties above it is inductive.
LocalsOK ==
  \A c \in Coros :
    /\ pc[c] \in {"u_pop", "u_spawn"} => resume_head[c] # Null
    /\ pc[c] \notin {"u_reverse", "u_pop", "u_spawn"} => resume_head[c] = Null
    /\ pc[c] = "u_reverse" <=> node[c] # Null
    /\ pc[c] = "u_exchange" => awaiting \in Coros
    /\ pc[c] \in {"u_cas", "u_exchange", "u_reverse"} => to_resume = Null
    /\ pc[c] = "u_pop" => to_resume \in {Null, resume_head[c]}

IndInv == TypeOK /\ MutualExclusion /\ LocalsOK /\ WaiterLinkedOnce

\* A coroutine suspended on the mutex eventually owns it, although lock() and
\* try_lock() of others keep coming.  (register_awaiting itself is lock-free,
\* not wait-free: nothing is promised to a coroutine whose CAS keeps failing.)
WaiterEventuallyOwns == \A c \in Coros : pc[c] = "waiting" ~> pc[c] = "critical"

=============================================================================
