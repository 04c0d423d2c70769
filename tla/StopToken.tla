------------------------------ MODULE StopToken ------------------------------
(***************************************************************************)
(* stop_source, stop_token and stop_callback                               *)
(* (include/co_context/co/stop_token.hpp, the implementation used where    *)
(* the standard library has none): one shared stop_state, the handles that *)
(* refer to it, and the callbacks registered with it.                      *)
(*                                                                         *)
(* A thread that requests the stop runs the callbacks one by one, without  *)
(* the lock, while other threads (and the callback it is running) register *)
(* and destroy callbacks.  So a thread has two program counters: where it  *)
(* is in request_stop(), and in a constructor or destructor of a           *)
(* stop_callback, called at top level or from the body of a callback.      *)
(***************************************************************************)
EXTENDS Naturals, FiniteSets

CONSTANTS Threads,
          Sources, Tokens,   \* variables of type stop_source and stop_token
          Callbacks,         \* stop_callback objects, each constructed at most once
          Creator,           \* the source that was default constructed
          Null,              \* nullptr, no thread
          MaxCount,          \* bound: the number of sources m_value counts
          Setups             \* what a run chooses from: the sources and callbacks the program
                             \* uses, and whether it move-assigns sources

ASSUME StopAssumption ==
  /\ IsFiniteSet(Sources) /\ IsFiniteSet(Tokens) /\ IsFiniteSet(Callbacks)
  /\ Sources \cap Tokens = {} /\ Sources \cap Callbacks = {} /\ Tokens \cap Callbacks = {}
  /\ Creator \in Sources
  /\ Null \notin Threads \cup Sources \cup Callbacks
  /\ MaxCount \in Nat
  /\ \A s \in Setups : /\ Creator \in s.sources /\ s.sources \subseteq Sources
                       /\ s.callbacks \subseteq Callbacks
                       /\ s.moves \in BOOLEAN

VARIABLES value,    \* m_value: the number of sources, the locked and the requested bit
          owners,   \* m_owners
          freed,    \* TRUE once the stop_state was deleted
          m_head, m_requester,
          ref,      \* ref[h]: the stop_state_ref of handle h is not null
          cb,       \* stop_cb, its lifetime, and how often it was run (history)
          th,       \* threads
          setup

vars == <<value, owners, freed, m_head, m_requester, ref, cb, th, setup>>

list == <<m_head, m_requester>>

Handles == Sources \cup Tokens \cup Callbacks

\* req: idle, locked (at the top of the while, holds the lock), popped, run
\* (inside the callback), relock.  op: idle, or register .. link in the
\* constructor, remove .. drop in the destructor of stop_callback `arg'.
Threading == [req : {"idle", "locked", "popped", "run", "relock"}, src : Sources \cup {Null},
              cur : Callbacks \cup {Null}, last : BOOLEAN, destroyed : BOOLEAN,
              op : {"idle", "register", "link", "remove", "unlink", "wait", "drop"},
              arg : Callbacks \cup {Null}]

CallbackState == [st : {"none", "constructing", "alive", "dying", "dead"},
                  prev : Callbacks \cup {Null}, next : Callbacks \cup {Null},
                  destroyed : BOOLEAN, done : {0, 1}, runs : Nat]

TypeOK == /\ value \in [src : Nat, locked : BOOLEAN, stop : BOOLEAN]
          /\ owners \in Nat
          /\ freed \in BOOLEAN
          /\ m_head \in Callbacks \cup {Null}
          /\ m_requester \in Threads \cup {Null}
          /\ ref \in [Handles -> BOOLEAN]
          /\ cb \in [Callbacks -> CallbackState]
          /\ th \in [Threads -> Threading]
          /\ setup \in Setups

Init == /\ value = [src |-> 1, locked |-> FALSE, stop |-> FALSE]
        /\ owners = 1
        /\ freed = FALSE
        /\ m_head = Null /\ m_requester = Null
        /\ ref = [h \in Handles |-> h = Creator]
        /\ cb = [c \in Callbacks |-> [st |-> "none", prev |-> Null, next |-> Null,
                                      destroyed |-> FALSE, done |-> 0, runs |-> 0]]
        /\ th = [t \in Threads |-> [req |-> "idle", src |-> Null, cur |-> Null, last |-> FALSE,
                                    destroyed |-> FALSE, op |-> "idle", arg |-> Null]]
        /\ setup \in Setups

-----------------------------------------------------------------------------
\* release_ownership(): the last owner deletes the state.
ReleaseOwnership == owners' = owners - 1 /\ freed' = (owners = 1)

AddOwner == owners' = owners + 1 /\ UNCHANGED freed

\* The handles.  Each operation is one step: nobody can tell that m_owners and
\* m_value change one after the other.

\* stop_source b(a); b = a
CopySource(a, b) ==
  /\ ref[a] /\ ~ ref[b]
  /\ value.src < MaxCount
  /\ ref' = [ref EXCEPT ![b] = TRUE]
  /\ AddOwner
  /\ value' = [value EXCEPT !.src = @ + 1]
  /\ UNCHANGED <<list, cb, th>>

\* stop_source b(std::move(a)); swap(a, b)
MoveSource(a, b) ==
  /\ ref[a] /\ ~ ref[b]
  /\ \A t \in Threads : th[t].src # a
  /\ ref' = [ref EXCEPT ![a] = FALSE, ![b] = TRUE]
  /\ UNCHANGED <<value, owners, freed, list, cb, th>>

\* ~stop_source(), b = an empty source (through `sink').  A source is not
\* destroyed during its own request_stop().
DropSource(b) ==
  /\ ref[b]
  /\ \A t \in Threads : th[t].src # b
  /\ ref' = [ref EXCEPT ![b] = FALSE]
  /\ ReleaseOwnership
  /\ value' = [value EXCEPT !.src = @ - 1]
  /\ UNCHANGED <<list, cb, th>>

\* b = std::move(an empty source), b = std::move(a): the defaulted operator=
\* gives up a share in the state and does not count the source out.
MoveAssign(a, b) ==
  /\ setup.moves
  /\ a # b /\ ref[b]
  /\ \A t \in Threads : th[t].src \notin {a, b}
  /\ ref' = [ref EXCEPT ![b] = ref[a], ![a] = FALSE]
  /\ ReleaseOwnership
  /\ UNCHANGED <<value, list, cb, th>>

\* source.get_token(), or a copy of a token
GetToken(h, k) ==
  /\ ref[h] /\ ~ ref[k]
  /\ ref' = [ref EXCEPT ![k] = TRUE]
  /\ AddOwner
  /\ UNCHANGED <<value, list, cb, th>>

DropToken(k) ==
  /\ ref[k]
  /\ ref' = [ref EXCEPT ![k] = FALSE]
  /\ ReleaseOwnership
  /\ UNCHANGED <<value, list, cb, th>>

-----------------------------------------------------------------------------
\* request_stop().  (When a stop was requested before, it returns false.)
\* try_lock_and_stop: both bits in one CAS; then m_requester.
RequestStop(t, s) ==
  /\ th[t].req = "idle" /\ th[t].op = "idle"
  /\ ref[s]
  /\ ~ value.stop /\ ~ value.locked
  /\ value' = [value EXCEPT !.stop = TRUE, !.locked = TRUE]
  /\ m_requester' = t
  /\ th' = [th EXCEPT ![t].req = "locked", ![t].src = s]
  /\ UNCHANGED <<owners, freed, m_head, ref, cb>>

Unlock == value' = [value EXCEPT !.locked = FALSE]

\* while (m_head): take the first callback out of the list and unlock ...
PopCallback(t) ==
  LET c == m_head IN
  /\ th[t].req = "locked" /\ c # Null
  /\ m_head' = cb[c].next
  /\ cb' = [d \in Callbacks |-> IF d = cb[c].next THEN [cb[d] EXCEPT !.prev = Null] ELSE cb[d]]
  /\ Unlock
  /\ th' = [th EXCEPT ![t].req = "popped", ![t].cur = c, ![t].last = cb[c].next = Null,
                      ![t].destroyed = FALSE]
  /\ UNCHANGED <<owners, freed, m_requester, ref>>

\* ... (or there is none)
NoCallbackLeft(t) ==
  /\ th[t].req = "locked" /\ m_head = Null
  /\ Unlock
  /\ th' = [th EXCEPT ![t].req = "idle", ![t].src = Null]
  /\ UNCHANGED <<owners, freed, list, ref, cb>>

\* ... cb->m_destroyed = &destroyed; cb->run() ...
RunCallback(t) ==
  /\ th[t].req = "popped"
  /\ cb' = [cb EXCEPT ![th[t].cur].destroyed = TRUE, ![th[t].cur].runs = @ + 1]
  /\ th' = [th EXCEPT ![t].req = "run"]
  /\ UNCHANGED <<value, owners, freed, list, ref>>

\* Mutant: m_done is not released.
FinishRunSilent(t) ==
  /\ th[t].req = "run" /\ th[t].op = "idle"
  /\ cb' = IF th[t].destroyed THEN cb ELSE [cb EXCEPT ![th[t].cur].destroyed = FALSE]
  /\ th' = [th EXCEPT ![t].req = IF th[t].last THEN "idle" ELSE "relock", ![t].cur = Null,
                      ![t].src = IF th[t].last THEN Null ELSE @]
  /\ UNCHANGED <<value, owners, freed, list, ref>>

\* ... which returns; *cb is touched again unless it was destroyed meanwhile
\* on this thread, and the lock is not taken if this was the last one
FinishRun(t) ==
  /\ th[t].req = "run" /\ th[t].op = "idle"
  /\ cb' = IF th[t].destroyed THEN cb
           ELSE [cb EXCEPT ![th[t].cur].destroyed = FALSE, ![th[t].cur].done = 1]
  /\ th' = [th EXCEPT ![t].req = IF th[t].last THEN "idle" ELSE "relock", ![t].cur = Null,
                      ![t].src = IF th[t].last THEN Null ELSE @]
  /\ UNCHANGED <<value, owners, freed, list, ref>>

Lock(t) == ~ value.locked /\ value' = [value EXCEPT !.locked = TRUE]

Relock(t) ==
  /\ th[t].req = "relock"
  /\ Lock(t)
  /\ th' = [th EXCEPT ![t].req = "locked"]
  /\ UNCHANGED <<owners, freed, list, ref, cb>>

-----------------------------------------------------------------------------
\* Thread t may call something: outside request_stop(), or in a callback's body.
Free(t) == th[t].req \in {"idle", "run"} /\ th[t].op = "idle"

At(t, op) == th[t].op = op

\* stop_callback c(token, f): a copy of the token's reference (a temporary
\* token's own one) ...
Construct(t, c, k) ==
  /\ Free(t)
  /\ cb[c].st = "none" /\ ref[k]
  /\ cb' = [cb EXCEPT ![c].st = "constructing"]
  /\ ref' = [ref EXCEPT ![c] = TRUE]
  /\ AddOwner
  /\ th' = [th EXCEPT ![t].op = "register", ![t].arg = c]
  /\ UNCHANGED <<value, list>>

\* ... register_callback: after a stop request run it here, without a source
\* do nothing; either way give the reference back ...
NotRegistered(t) ==
  LET c == th[t].arg IN
  /\ At(t, "register")
  /\ value.stop \/ value.src = 0
  /\ cb' = [cb EXCEPT ![c].st = "alive", ![c].runs = IF value.stop THEN @ + 1 ELSE @]
  /\ ref' = [ref EXCEPT ![c] = FALSE]
  /\ ReleaseOwnership
  /\ th' = [th EXCEPT ![t].op = "idle", ![t].arg = Null]
  /\ UNCHANGED <<value, list>>

\* Mutant: the requested bit was looked at before the lock was taken.
RegisterLockLate(t) ==
  /\ At(t, "register")
  /\ value.src # 0
  /\ Lock(t)
  /\ th' = [th EXCEPT ![t].op = "link"]
  /\ UNCHANGED <<owners, freed, list, ref, cb>>

\* ... otherwise lock: the CAS fails if any bit has changed since the look ...
RegisterLock(t) ==
  /\ At(t, "register")
  /\ ~ value.stop /\ value.src # 0
  /\ Lock(t)
  /\ th' = [th EXCEPT ![t].op = "link"]
  /\ UNCHANGED <<owners, freed, list, ref, cb>>

\* Mutant: the old head's m_prev is not set.
LinkNoPrev(t) ==
  LET c == th[t].arg IN
  /\ At(t, "link")
  /\ cb' = [cb EXCEPT ![c].st = "alive", ![c].next = m_head]
  /\ m_head' = c
  /\ Unlock
  /\ th' = [th EXCEPT ![t].op = "idle", ![t].arg = Null]
  /\ UNCHANGED <<owners, freed, m_requester, ref>>

\* ... and link in front
Link(t) ==
  LET c == th[t].arg IN
  /\ At(t, "link")
  /\ cb' = [d \in Callbacks |->
       IF d = c THEN [cb[d] EXCEPT !.st = "alive", !.next = m_head]
       ELSE IF d = m_head THEN [cb[d] EXCEPT !.prev = c]
       ELSE cb[d]]
  /\ m_head' = c
  /\ Unlock
  /\ th' = [th EXCEPT ![t].op = "idle", ![t].arg = Null]
  /\ UNCHANGED <<owners, freed, m_requester, ref>>

-----------------------------------------------------------------------------
\* ~stop_callback(): by any thread, from any callback, its own included
Destroy(t, c) ==
  /\ Free(t)
  /\ cb[c].st = "alive"
  /\ cb' = [cb EXCEPT ![c].st = IF ref[c] THEN "dying" ELSE "dead"]
  /\ th' = IF ref[c] THEN [th EXCEPT ![t].op = "remove", ![t].arg = c] ELSE th
  /\ UNCHANGED <<value, owners, freed, list, ref>>

RemoveLock(t) ==
  /\ At(t, "remove")
  /\ Lock(t)
  /\ th' = [th EXCEPT ![t].op = "unlink"]
  /\ UNCHANGED <<owners, freed, list, ref, cb>>

\* remove_callback: c is the first, or has one before it
Unlink(t) ==
  LET c == th[t].arg IN
  /\ At(t, "unlink")
  /\ c = m_head \/ cb[c].prev # Null
  /\ m_head' = IF c = m_head THEN cb[c].next ELSE m_head
  /\ cb' = [d \in Callbacks |->
       [cb[d] EXCEPT !.prev = IF d = cb[c].next THEN IF c = m_head THEN Null ELSE cb[c].prev ELSE @,
                     !.next = IF c # m_head /\ d = cb[c].prev THEN cb[c].next ELSE @]]
  /\ Unlock
  /\ th' = [th EXCEPT ![t].op = "drop"]
  /\ UNCHANGED <<owners, freed, m_requester, ref>>

\* Mutant: the requester's thread is not told that *cb is gone.
UnlinkedNotTold(t) ==
  LET c == th[t].arg IN
  /\ At(t, "unlink")
  /\ c # m_head /\ cb[c].prev = Null
  /\ Unlock
  /\ th' = [th EXCEPT ![t].op = IF m_requester # t THEN "wait" ELSE "drop"]
  /\ UNCHANGED <<owners, freed, list, ref, cb>>

\* or request_stop() has taken it out: wait until it has been run there, unless
\* that is this thread, which is told not to touch it again
Unlinked(t) ==
  LET c == th[t].arg IN
  /\ At(t, "unlink")
  /\ c # m_head /\ cb[c].prev = Null
  /\ Unlock
  /\ th' = [th EXCEPT ![t].op = IF m_requester # t THEN "wait" ELSE "drop",
                      ![t].destroyed = @ \/ (m_requester = t /\ cb[c].destroyed)]
  /\ UNCHANGED <<owners, freed, list, ref, cb>>

WaitDone(t) ==
  /\ At(t, "wait")
  /\ cb[th[t].arg].done = 1
  /\ cb' = [cb EXCEPT ![th[t].arg].done = 0]
  /\ th' = [th EXCEPT ![t].op = "drop"]
  /\ UNCHANGED <<value, owners, freed, list, ref>>

\* ~stop_state_ref(), and the storage of the callback is gone
DropRef(t) ==
  LET c == th[t].arg IN
  /\ At(t, "drop")
  /\ cb' = [cb EXCEPT ![c].st = "dead"]
  /\ ref' = [ref EXCEPT ![c] = FALSE]
  /\ ReleaseOwnership
  /\ th' = [th EXCEPT ![t].op = "idle", ![t].arg = Null]
  /\ UNCHANGED <<value, list>>

-----------------------------------------------------------------------------
HandleStep == \/ \E a, b \in setup.sources : \/ CopySource(a, b) \/ MoveSource(a, b)
                                               \/ MoveAssign(a, b)
              \/ \E b \in setup.sources : DropSource(b)
              \/ \E k \in Tokens : \/ \E h \in setup.sources \cup Tokens : GetToken(h, k)
                                   \/ DropToken(k)

\* what a thread does once it has begun
Continue(t) == \/ PopCallback(t) \/ NoCallbackLeft(t) \/ RunCallback(t) \/ FinishRun(t) \/ Relock(t)
               \/ NotRegistered(t) \/ RegisterLock(t) \/ Link(t)
               \/ RemoveLock(t) \/ Unlink(t) \/ Unlinked(t) \/ WaitDone(t) \/ DropRef(t)

Next == /\ UNCHANGED setup
        /\ \/ HandleStep
           \/ \E t \in Threads : \/ Continue(t)
                                 \/ \E s \in setup.sources : RequestStop(t, s)
                                 \/ \E c \in setup.callbacks :
                                      \/ \E k \in Tokens : Construct(t, c, k)
                                      \/ Destroy(t, c)

Spec == Init /\ [][Next]_vars

\* A thread goes on with the call it is in.  The spinlock is not fair, but each
\* callback takes it a bounded number of times.
FairSpec == Spec /\ \A t \in Threads : WF_vars(Continue(t) /\ UNCHANGED setup)

-----------------------------------------------------------------------------
\* The callbacks on the list: reachable from m_head.
Linked ==
  LET reach[i \in 0..Cardinality(Callbacks)] ==
        IF i = 0 THEN {m_head} \ {Null}
        ELSE reach[i - 1] \cup ({cb[c].next : c \in reach[i - 1]} \ {Null})
  IN  reach[Cardinality(Callbacks)]

\* remove_callback decides by `cb == m_head' and m_prev alone whether a callback
\* is on the list: that is right for every callback that may be removed, m_prev
\* and m_next agree, and what is on the list was registered and is not dead.
ListSound ==
  /\ TypeOK
  /\ \A c \in Linked : /\ cb[c].st \in {"alive", "dying"} /\ ref[c]
                       /\ c = m_head <=> cb[c].prev = Null
                       /\ cb[c].next # Null => cb[cb[c].next].prev = c
  /\ \A c \in Callbacks \ Linked :
       cb[c].st \in {"alive", "dying"} /\ ~ (\E t \in Threads : At(t, "drop") /\ th[t].arg = c)
         => cb[c].prev = Null

\* Nothing is used after its end: the stop_state is deleted when the last handle
\* goes and not before, so that whoever is inside it still has it; and no
\* callback's destructor returns while request_stop() on another thread is
\* still to run the callback, running it, or to touch it after running it.
NoDanglingUse ==
  /\ owners = Cardinality({h \in Handles : ref[h]})
  /\ freed <=> owners = 0
  /\ \A t \in Threads : th[t].req # "idle" \/ ~ At(t, "idle") => ~ freed
  /\ \A t \in Threads : /\ th[t].req = "popped" => cb[th[t].cur].st # "dead"
                        /\ th[t].req = "run" /\ ~ th[t].destroyed => cb[th[t].cur].st # "dead"

\* A stop request reaches every callback: none is run twice, and when
\* request_stop() has returned, each one that was constructed with a stop
\* possible has been run, or was destroyed first.  register_callback turns a
\* callback away when m_value counts no source: "true if a stop request has
\* already been made or there are still stop_source objects that would allow
\* one to be made" is never denied, and nothing more is said as long as no
\* source is move-assigned.
StopRunsAll ==
  LET sources == Cardinality({s \in Sources : ref[s]}) IN
  /\ \A c \in Callbacks : cb[c].runs <= 1
  /\ value.stop /\ (\A t \in Threads : th[t].req = "idle") =>
       \A c \in Callbacks : cb[c].st = "alive" /\ ref[c] => cb[c].runs = 1
  /\ value.src >= sources /\ (~ setup.moves => value.src = sources)

\* request_stop() and the destructor of a callback return: nobody waits for a
\* callback to finish that is finished already or was never started.
CallsReturn == \A t \in Threads : (th[t].req # "idle" \/ ~ At(t, "idle"))
                                    ~> (th[t].req = "idle" /\ At(t, "idle"))

=============================================================================
