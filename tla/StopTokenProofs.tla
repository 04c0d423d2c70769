--------------------------- MODULE StopTokenProofs ---------------------------
(***************************************************************************)
(* Proofs about stop_token for any number of threads, sources, tokens and  *)
(* callbacks.                                                              *)
(***************************************************************************)
EXTENDS StopToken, FiniteSetTheorems, WellFoundedInduction, TLAPS

\* The handles, and the sources among them, that refer to the stop_state.
Referring == {h \in Handles : ref[h]}

Counted == {s \in Sources : ref[s]}

\* Callbacks that request_stop() has taken out and not yet run, and callbacks
\* whose destructor only has the reference left to give up.
Taken == {c \in Callbacks : \E t \in Threads : th[t].req = "popped" /\ th[t].cur = c}

Leaving == {c \in Callbacks : \E t \in Threads : th[t].op = "drop" /\ th[t].arg = c}

\* The callbacks that belong on the list.
Listed == {c \in Callbacks : /\ cb[c].st \in {"alive", "dying"} /\ ref[c] /\ cb[c].runs = 0
                             /\ c \notin Taken /\ c \notin Leaving}

\* m_owners and the sources in m_value are exact (move-assignment loses count).
CountsOK ==
  /\ owners = Cardinality(Referring)
  /\ freed <=> owners = 0
  /\ value.src >= Cardinality(Counted)
  /\ ~ setup.moves => value.src = Cardinality(Counted)

\* One thread at most is inside request_stop(), with a source that it keeps.
RequestOK ==
  /\ value.stop <=> m_requester # Null
  /\ \A t \in Threads : th[t].req # "idle" => /\ m_requester = t
                                              /\ th[t].src \in Sources /\ ref[th[t].src]
  /\ \A t \in Threads : th[t].req \in {"popped", "run"} => th[t].cur # Null
  /\ \A t \in Threads : th[t].req \in {"locked", "popped", "relock"} => th[t].op = "idle"

\* The lock bit is set while a thread holds the lock, and one thread does.
Holding == {t \in Threads : th[t].req = "locked" \/ th[t].op \in {"link", "unlink"}}

LockOK ==
  /\ Holding # {} => value.locked
  /\ \A t, u \in Holding : t = u
  /\ \A t \in Threads : th[t].op = "link" => ~ value.stop

\* A constructor or destructor has its callback for itself.
CallOK ==
  /\ \A t \in Threads : th[t].op # "idle" => th[t].arg # Null /\ ref[th[t].arg]
  /\ \A t \in Threads : th[t].op \in {"register", "link"} => cb[th[t].arg].st = "constructing"
  /\ \A t \in Threads : th[t].op \in {"remove", "unlink", "wait", "drop"} => cb[th[t].arg].st = "dying"
  /\ \A t, u \in Threads : th[t].op # "idle" /\ th[u].op # "idle" /\ th[t].arg = th[u].arg => t = u

\* A callback is run once at most, and while it is being taken and run nobody
\* gets past its destructor, except the thread that runs it.
RunOK ==
  /\ \A c \in Callbacks : /\ cb[c].runs <= 1
                          /\ cb[c].done = 1 => cb[c].runs = 1
                          /\ cb[c].st \in {"none", "constructing"} => cb[c].runs = 0
                          /\ ref[c] => cb[c].st \in {"constructing", "alive", "dying"}
  /\ \A t \in Threads : th[t].req = "popped" =>
       /\ cb[th[t].cur].st \in {"alive", "dying"} /\ ref[th[t].cur]
       /\ cb[th[t].cur].runs = 0
       /\ th[t].cur \notin Leaving
       /\ ~ th[t].destroyed
  /\ \A t \in Threads : th[t].req = "run" /\ ~ th[t].destroyed =>
       /\ cb[th[t].cur].st \in {"alive", "dying"} /\ ref[th[t].cur]
       /\ cb[th[t].cur].runs = 1 /\ cb[th[t].cur].done = 0 /\ cb[th[t].cur].destroyed
       /\ th[t].cur \notin Leaving

\* m_head, m_prev and m_next are those of one list ...
ListOK ==
  /\ m_head # Null => m_head \in Listed /\ cb[m_head].prev = Null
  /\ \A c \in Listed : /\ cb[c].prev = Null => c = m_head
                       /\ cb[c].prev # Null => cb[c].prev \in Listed /\ cb[cb[c].prev].next = c
                       /\ cb[c].next # Null => cb[c].next \in Listed /\ cb[cb[c].next].prev = c
  /\ \A c \in Callbacks : c \notin Listed /\ c \notin Leaving /\ cb[c].st # "dead" => cb[c].prev = Null

\* ... which has a beginning wherever one looks.
NoCycle == \A T \in SUBSET Listed : T # {} => \E c \in T : cb[c].prev \notin T

\* What is left on the list after a stop request will be reached by it.
StopReaches ==
  value.stop /\ m_head # Null =>
    /\ th[m_requester].req # "idle"
    /\ th[m_requester].req \in {"popped", "run"} => ~ th[m_requester].last

IndInv == TypeOK /\ CountsOK /\ RequestOK /\ LockOK /\ CallOK /\ RunOK /\ ListOK /\ NoCycle /\ StopReaches

USE StopAssumption DEF list

-----------------------------------------------------------------------------
\* Every set of naturals that is not empty has a least element.
LEMMA LeastNumber ==
  ASSUME NEW T \in SUBSET Nat, T # {}
  PROVE  \E x \in T : \A y \in T : x <= y
<1> DEFINE R == {ss \in Nat \X Nat : ss[1] < ss[2]}
<1>1. IsWellFoundedOn(R, Nat)
  BY NatLessThanWellFounded DEF OpToRel
<1> HIDE DEF R
<1>2. PICK x \in T : \A y \in T : ~ (<<y, x>> \in R)
  BY <1>1, WFMin
<1>3. ASSUME NEW y \in T PROVE x <= y
  <2>1. x \in Nat /\ y \in Nat /\ ~ (<<y, x>> \in R)
    BY <1>2
  <2>2. y < x => <<y, x>> \in R
    BY <2>1 DEF R
  <2> QED
    BY <2>1, <2>2
<1> QED
  BY <1>3

\* Induction, for a set instead of a predicate.
LEMMA SetInduction ==
  ASSUME NEW S, 0 \in S, \A n \in Nat : n \in S => n + 1 \in S
  PROVE  \A n \in Nat : n \in S
<1> SUFFICES ASSUME NEW m \in Nat, m \notin S PROVE FALSE
  OBVIOUS
<1> DEFINE T == {n \in Nat : n \notin S}
<1>1. PICK x \in T : \A y \in T : x <= y
  <2>1. T \in SUBSET Nat /\ T # {}
    OBVIOUS
  <2> HIDE DEF T
  <2> QED
    BY <2>1, LeastNumber
<1>2. x \in Nat /\ x # 0
  OBVIOUS
<1>3. x - 1 \in Nat /\ ~ (x <= x - 1) /\ (x - 1) + 1 = x
  BY <1>2
<1>4. x - 1 \in S
  BY <1>1, <1>3
<1> QED
  BY <1>3, <1>4

-----------------------------------------------------------------------------
\* The sets that are counted are finite.
LEMMA Finite ==
  /\ IsFiniteSet(Referring) /\ Cardinality(Referring) \in Nat
  /\ IsFiniteSet(Counted) /\ Cardinality(Counted) \in Nat
<1>1. IsFiniteSet(Handles)
  BY FS_Union DEF Handles
<1>2. Referring \subseteq Handles /\ Counted \subseteq Sources
  BY DEF Referring, Counted
<1>3. IsFiniteSet(Referring) /\ IsFiniteSet(Counted)
  BY <1>1, <1>2, FS_Subset
<1> QED
  BY <1>3, FS_CardinalityType

\* A handle that gets a reference is counted once more ...
LEMMA CountUp ==
  ASSUME TypeOK, NEW h \in Handles, ~ ref[h], ref' = [ref EXCEPT ![h] = TRUE]
  PROVE  /\ Cardinality(Referring') = Cardinality(Referring) + 1
         /\ h \in Sources => Cardinality(Counted') = Cardinality(Counted) + 1
         /\ h \notin Sources => Counted' = Counted
<1>1. Referring' = Referring \cup {h} /\ h \notin Referring
  BY DEF TypeOK, Referring
<1>2. h \in Sources => Counted' = Counted \cup {h} /\ h \notin Counted
  BY DEF TypeOK, Counted, Handles
<1>3. h \notin Sources => Counted' = Counted
  BY DEF TypeOK, Counted, Handles
<1> QED
  BY <1>1, <1>2, <1>3, Finite, FS_AddElement

\* ... and once less when it gives it up.
LEMMA CountDown ==
  ASSUME TypeOK, NEW h \in Handles, ref[h], Referring' = Referring \ {h}, Counted' = Counted \ {h}
  PROVE  /\ Cardinality(Referring) >= 1
         /\ Cardinality(Referring') = Cardinality(Referring) - 1
         /\ h \in Sources => /\ Cardinality(Counted) >= 1
                             /\ Cardinality(Counted') = Cardinality(Counted) - 1
         /\ h \notin Sources => Counted' = Counted
<1>1. h \in Referring /\ (h \in Sources => h \in Counted) /\ (h \notin Sources => h \notin Counted)
  BY DEF Referring, Counted
<1>2. \A S, x : IsFiniteSet(S) /\ x \in S => /\ Cardinality(S) >= 1
                                             /\ Cardinality(S \ {x}) = Cardinality(S) - 1
  <2> SUFFICES ASSUME NEW S, NEW x, IsFiniteSet(S), x \in S
               PROVE  Cardinality(S) >= 1 /\ Cardinality(S \ {x}) = Cardinality(S) - 1
    OBVIOUS
  <2>1. Cardinality(S \ {x}) = Cardinality(S) - 1 /\ IsFiniteSet(S \ {x})
    BY FS_RemoveElement
  <2>2. Cardinality(S) \in Nat /\ Cardinality(S \ {x}) \in Nat
    BY <2>1, FS_CardinalityType
  <2> QED
    BY <2>1, <2>2
<1> QED
  BY <1>1, <1>2, Finite

\* Whoever has a reference keeps the state.
LEMMA OwnedIsNotFreed ==
  ASSUME CountsOK, NEW h \in Handles, ref[h]
  PROVE  owners \in Nat /\ owners >= 1 /\ ~ freed
<1>1. h \in Referring
  BY DEF Referring
<1>2. Cardinality(Referring) # 0
  BY <1>1, Finite, FS_EmptySet
<1> QED
  BY <1>2, Finite DEF CountsOK

\* The owner that gives up the last share deletes the state.
LEMMA Released ==
  ASSUME owners \in Nat, owners >= 1, ReleaseOwnership
  PROVE  owners' = owners - 1 /\ owners' \in Nat /\ (freed' <=> owners' = 0)
<1>1. owners' = owners - 1 /\ owners' \in Nat /\ (owners' = 0 <=> owners = 1)
  BY DEF ReleaseOwnership
<1>2. freed' <=> owners = 1
  BY Zenon DEF ReleaseOwnership
<1> QED
  BY <1>1, <1>2

\* Steps that leave the counts alone.
LEMMA CountsFrame ==
  ASSUME CountsOK, UNCHANGED <<owners, freed, ref, setup>>, value'.src = value.src
  PROVE  CountsOK'
BY DEF CountsOK, Referring, Counted

\* Steps that leave the list alone.
LEMMA ListFrame ==
  ASSUME TypeOK, ListOK, NoCycle, Listed' = Listed, m_head' = m_head,
         \A d \in Callbacks : cb'[d].prev = cb[d].prev /\ cb'[d].next = cb[d].next,
         \A d \in Callbacks : d \notin Leaving' /\ cb'[d].st # "dead"
                                => d \in Listed \/ (d \notin Leaving /\ cb[d].st # "dead")
  PROVE  ListOK' /\ NoCycle'
<1>1. Listed \subseteq Callbacks
  BY DEF Listed
<1>2. \A c \in Listed : cb[c].prev \in Callbacks \cup {Null} /\ cb[c].next \in Callbacks \cup {Null}
  BY <1>1 DEF TypeOK, CallbackState
<1>3. NoCycle'
  BY <1>1 DEF NoCycle
<1>4. ListOK'
  BY <1>1, <1>2 DEF ListOK
<1> QED
  BY <1>3, <1>4

-----------------------------------------------------------------------------
\* Steps of sources and tokens touch neither threads nor callbacks.
LEMMA HandleFrame ==
  ASSUME IndInv, UNCHANGED <<m_head, m_requester, cb, th>>,
         value'.stop = value.stop, value'.locked = value.locked,
         \A c \in Callbacks : ref'[c] = ref[c],
         \A t \in Threads : th[t].req # "idle" => ref'[th[t].src]
  PROVE  RequestOK' /\ LockOK' /\ CallOK' /\ RunOK' /\ ListOK' /\ NoCycle' /\ StopReaches'
<1> USE DEF IndInv
<1>1. Taken' = Taken /\ Leaving' = Leaving /\ Holding' = Holding
  BY DEF Taken, Leaving, Holding
<1>2. Listed' = Listed
  BY <1>1 DEF Listed
<1>3. \A t \in Threads : th[t].op # "idle" => th[t].arg \in Callbacks
  BY DEF TypeOK, Threading, CallOK
<1>4. RequestOK'
  BY DEF RequestOK
<1>5. LockOK'
  BY <1>1 DEF LockOK
<1>6. CallOK'
  BY <1>3 DEF CallOK
<1>7. RunOK'
  <2>1. \A t \in Threads : th[t].req \in {"popped", "run"} => th[t].cur \in Callbacks
    BY DEF RequestOK, TypeOK, Threading
  <2> QED
    BY <1>1, <2>1 DEF RunOK
<1>8. ListOK' /\ NoCycle'
  BY <1>1, <1>2, ListFrame
<1> QED
  BY <1>4, <1>5, <1>6, <1>7, <1>8 DEF StopReaches

\* Every operation on a source or a token preserves the invariant.
LEMMA HandleInv ==
  ASSUME IndInv, HandleStep, UNCHANGED setup
  PROVE  IndInv'
<1> USE DEF IndInv
<1>0. setup.sources \subseteq Sources /\ Sources \subseteq Handles /\ Tokens \subseteq Handles
  BY DEF TypeOK, Handles
<1>1. ASSUME NEW a \in setup.sources, NEW b \in setup.sources, CopySource(a, b) PROVE IndInv'
  <2> USE <1>1 DEF CopySource, AddOwner
  <2>1. a \in Sources /\ b \in Sources /\ a \in Handles /\ b \in Handles
    BY <1>0
  <2>2. value' = [value EXCEPT !.src = value.src + 1] /\ value'.src = value.src + 1
        /\ value'.stop = value.stop /\ value'.locked = value.locked
    BY DEF TypeOK
  <2>3. TypeOK'
    BY <2>1, <2>2 DEF TypeOK
  <2>4. CountsOK'
    <3>1. owners' = owners + 1 /\ freed' = freed /\ ~ freed /\ owners \in Nat
      BY <2>1, OwnedIsNotFreed
    <3>2. /\ Cardinality(Referring') = Cardinality(Referring) + 1
          /\ Cardinality(Counted') = Cardinality(Counted) + 1
      BY <2>1, CountUp
    <3>3. value.src \in Nat /\ setup' = setup
      BY DEF TypeOK
    <3> QED
      BY <2>2, <3>1, <3>2, <3>3, Finite DEF CountsOK
  <2>5. \A c \in Callbacks : ref'[c] = ref[c]
    BY <2>1 DEF TypeOK, Handles
  <2>6. \A t \in Threads : th[t].req # "idle" => ref'[th[t].src]
    BY <2>1, <1>0 DEF TypeOK, RequestOK
  <2> QED
    BY <2>2, <2>3, <2>4, <2>5, <2>6, HandleFrame
<1>2. ASSUME NEW a \in setup.sources, NEW b \in setup.sources, MoveSource(a, b) PROVE IndInv'
  <2> USE <1>2 DEF MoveSource
  <2>1. a \in Sources /\ b \in Sources /\ a \in Handles /\ b \in Handles /\ a # b
    BY <1>0
  <2>3. TypeOK'
    BY <2>1 DEF TypeOK
  <2>4. CountsOK'
    <3>1. Referring' = (Referring \ {a}) \cup {b} /\ a \in Referring /\ b \notin Referring
      BY <2>1 DEF Referring, TypeOK
    <3>2. Counted' = (Counted \ {a}) \cup {b} /\ a \in Counted /\ b \notin Counted
      BY <2>1, <1>0 DEF Counted, TypeOK
    <3>3. Cardinality(Referring') = Cardinality(Referring)
          /\ Cardinality(Counted') = Cardinality(Counted)
      <4>1. \A S : IsFiniteSet(S) /\ a \in S /\ b \notin S
                     => Cardinality((S \ {a}) \cup {b}) = Cardinality(S)
        <5> SUFFICES ASSUME NEW S, IsFiniteSet(S), a \in S, b \notin S
                     PROVE  Cardinality((S \ {a}) \cup {b}) = Cardinality(S)
          OBVIOUS
        <5>1. IsFiniteSet(S \ {a}) /\ Cardinality(S \ {a}) = Cardinality(S) - 1
          BY FS_RemoveElement
        <5>2. Cardinality((S \ {a}) \cup {b}) = Cardinality(S \ {a}) + 1
          BY <5>1, FS_AddElement
        <5> QED
          BY <5>1, <5>2, FS_CardinalityType
      <4> QED
        BY <3>1, <3>2, <4>1, Finite
    <3> QED
      BY <3>3 DEF CountsOK
  <2>5. \A c \in Callbacks : ref'[c] = ref[c]
    BY <2>1 DEF TypeOK, Handles
  <2>6. \A t \in Threads : th[t].req # "idle" => ref'[th[t].src]
    BY <2>1, <1>0 DEF TypeOK, RequestOK
  <2> QED
    BY <2>3, <2>4, <2>5, <2>6, HandleFrame
<1>3. ASSUME NEW a \in setup.sources, NEW b \in setup.sources, MoveAssign(a, b) PROVE IndInv'
  <2> USE <1>3 DEF MoveAssign, ReleaseOwnership
  <2>1. a \in Sources /\ b \in Sources /\ a \in Handles /\ b \in Handles /\ a # b
    BY <1>0
  <2>2. PICK x \in {a, b} : ref[x] /\ Referring' = Referring \ {x} /\ Counted' = Counted \ {x}
    <3>1. CASE ref[a]
      <4>1. Referring' = Referring \ {a} /\ Counted' = Counted \ {a}
        BY <2>1, <1>0, <3>1 DEF Referring, Counted, TypeOK
      <4> QED
        BY <4>1, <3>1
    <3>2. CASE ~ ref[a]
      <4>1. Referring' = Referring \ {b} /\ Counted' = Counted \ {b}
        BY <2>1, <1>0, <3>2 DEF Referring, Counted, TypeOK
      <4> QED
        BY <4>1
    <3> QED
      BY <3>1, <3>2
  <2>3. owners \in Nat /\ owners >= 1 /\ ~ freed
    BY <2>1, OwnedIsNotFreed
  <2>4. TypeOK'
    <3>1. owners' \in Nat
      BY <2>3
    <3> QED
      BY <2>1, <3>1 DEF TypeOK
  <2>5. CountsOK'
    <3>1. /\ Cardinality(Referring') = Cardinality(Referring) - 1
          /\ Cardinality(Counted') = Cardinality(Counted) - 1
      BY <2>1, <2>2, CountDown
    <3>2. value' = value /\ value.src \in Nat /\ setup'.moves
      BY DEF TypeOK
    <3>3. freed' <=> owners' = 0
      BY <2>3, Released
    <3> QED
      BY <2>3, <3>1, <3>2, <3>3, Finite DEF CountsOK
  <2>6. \A c \in Callbacks : ref'[c] = ref[c]
    BY <2>1 DEF TypeOK, Handles
  <2>7. \A t \in Threads : th[t].req # "idle" => ref'[th[t].src]
    BY <2>1, <1>0 DEF TypeOK, RequestOK
  <2> QED
    BY <2>4, <2>5, <2>6, <2>7, HandleFrame
<1>4. ASSUME NEW b \in setup.sources, DropSource(b) PROVE IndInv'
  <2> USE <1>4 DEF DropSource, ReleaseOwnership
  <2>1. b \in Sources /\ b \in Handles
    BY <1>0
  <2>2. Referring' = Referring \ {b} /\ Counted' = Counted \ {b}
    BY <2>1, <1>0 DEF Referring, Counted, TypeOK
  <2>3. owners \in Nat /\ owners >= 1 /\ ~ freed
    BY <2>1, OwnedIsNotFreed
  <2>4. /\ Cardinality(Referring') = Cardinality(Referring) - 1
        /\ Cardinality(Counted') = Cardinality(Counted) - 1
        /\ Cardinality(Counted) >= 1
    BY <2>1, <2>2, CountDown
  <2>5. value.src \in Nat /\ value.src >= 1 /\ value'.src = value.src - 1
        /\ value'.stop = value.stop /\ value'.locked = value.locked
    BY <2>4, Finite DEF TypeOK, CountsOK
  <2>6. TypeOK'
    <3>1. owners' \in Nat /\ value.src - 1 \in Nat
      BY <2>3, <2>5
    <3> QED
      BY <2>1, <3>1 DEF TypeOK
  <2>7. CountsOK'
    <3>1. freed' <=> owners' = 0
      BY <2>3, Released
    <3> QED
      BY <2>3, <2>4, <2>5, <3>1, Finite DEF CountsOK
  <2>8. \A c \in Callbacks : ref'[c] = ref[c]
    BY <2>1 DEF TypeOK, Handles
  <2>9. \A t \in Threads : th[t].req # "idle" => ref'[th[t].src]
    BY <2>1, <1>0 DEF TypeOK, RequestOK
  <2> QED
    BY <2>5, <2>6, <2>7, <2>8, <2>9, HandleFrame
<1>5. ASSUME NEW h \in setup.sources \cup Tokens, NEW k \in Tokens, GetToken(h, k) PROVE IndInv'
  <2> USE <1>5 DEF GetToken, AddOwner
  <2>1. h \in Handles /\ k \in Handles /\ k \notin Sources
    BY <1>0
  <2>2. TypeOK'
    BY <2>1 DEF TypeOK
  <2>3. CountsOK'
    <3>1. owners' = owners + 1 /\ freed' = freed /\ ~ freed /\ owners \in Nat
      BY <2>1, OwnedIsNotFreed
    <3>2. Cardinality(Referring') = Cardinality(Referring) + 1 /\ Counted' = Counted
      BY <2>1, CountUp
    <3> QED
      BY <3>1, <3>2, Finite DEF CountsOK
  <2>4. \A c \in Callbacks : ref'[c] = ref[c]
    BY <2>1 DEF TypeOK, Handles
  <2>5. \A t \in Threads : th[t].req # "idle" => ref'[th[t].src]
    BY <2>1, <1>0 DEF TypeOK, RequestOK
  <2> QED
    BY <2>2, <2>3, <2>4, <2>5, HandleFrame
<1>6. ASSUME NEW k \in Tokens, DropToken(k) PROVE IndInv'
  <2> USE <1>6 DEF DropToken, ReleaseOwnership
  <2>1. k \in Handles /\ k \notin Sources
    BY <1>0
  <2>2. Referring' = Referring \ {k} /\ Counted' = Counted \ {k}
    BY <2>1, <1>0 DEF Referring, Counted, TypeOK
  <2>3. owners \in Nat /\ owners >= 1 /\ ~ freed
    BY <2>1, OwnedIsNotFreed
  <2>4. Cardinality(Referring') = Cardinality(Referring) - 1 /\ Counted' = Counted
    BY <2>1, <2>2, CountDown
  <2>5. TypeOK'
    <3>1. owners' \in Nat
      BY <2>3
    <3> QED
      BY <2>1, <3>1 DEF TypeOK
  <2>6. CountsOK'
    <3>1. freed' <=> owners' = 0
      BY <2>3, Released
    <3> QED
      BY <2>3, <2>4, <3>1, Finite DEF CountsOK
  <2>7. \A c \in Callbacks : ref'[c] = ref[c]
    BY <2>1 DEF TypeOK, Handles
  <2>8. \A t \in Threads : th[t].req # "idle" => ref'[th[t].src]
    BY <2>1, <1>0 DEF TypeOK, RequestOK
  <2> QED
    BY <2>5, <2>6, <2>7, <2>8, HandleFrame
<1> QED
  BY <1>1, <1>2, <1>3, <1>4, <1>5, <1>6 DEF HandleStep

-----------------------------------------------------------------------------
\* Steps that move a thread, or the lock, and leave the rest alone.
LEMMA QuietFrame ==
  ASSUME IndInv, UNCHANGED <<owners, freed, m_head, ref, cb, setup>>, value'.src = value.src,
         Taken' = Taken, Leaving' = Leaving
  PROVE  CountsOK' /\ ListOK' /\ NoCycle'
<1> USE DEF IndInv
<1>1. Listed' = Listed
  BY DEF Listed
<1> QED
  BY <1>1, CountsFrame, ListFrame

\* Steps of request_stop() preserve the invariant ...
LEMMA RequestInv ==
  ASSUME IndInv, NEW t \in Threads, UNCHANGED setup,
         \/ \E s \in setup.sources : RequestStop(t, s)
         \/ NoCallbackLeft(t) \/ Relock(t)
  PROVE  IndInv'
<1> USE DEF IndInv
<1>1. ASSUME NEW s \in setup.sources, RequestStop(t, s) PROVE IndInv'
  <2>0. s \in Sources
    BY DEF TypeOK
  <2>1. /\ \A u \in Threads : u # t => th'[u] = th[u]
        /\ th[t].req = "idle" /\ th'[t].req = "locked" /\ th[t].op = "idle" /\ th'[t].op = "idle"
        /\ th'[t].src = s /\ th'[t].arg = th[t].arg
        /\ ~ value.stop /\ ~ value.locked /\ value'.stop /\ value'.locked /\ value'.src = value.src
        /\ m_requester' = t /\ ref[s]
        /\ UNCHANGED <<owners, freed, m_head, ref, cb, setup>>
    <3>1. th' = [th EXCEPT ![t].req = "locked", ![t].src = s] /\ th[t] \in Threading
      BY <1>1 DEF RequestStop, TypeOK
    <3>2. /\ \A u \in Threads : u # t => th'[u] = th[u]
          /\ th'[t].req = "locked" /\ th'[t].op = th[t].op
          /\ th'[t].src = s /\ th'[t].arg = th[t].arg
      BY <3>1 DEF TypeOK, Threading
    <3>3. value'.stop /\ value'.locked /\ value'.src = value.src
      BY <1>1 DEF RequestStop, TypeOK
    <3> QED
      BY <3>2, <3>3, <1>1 DEF RequestStop
  <2>2. TypeOK'
    <3>1. th[t] \in Threading /\ value \in [src : Nat, locked : BOOLEAN, stop : BOOLEAN]
      BY DEF TypeOK
    <3>2. th'[t] \in Threading
      BY <2>0, <3>1, <1>1 DEF RequestStop, TypeOK, Threading
    <3>3. th' \in [Threads -> Threading]
      BY <3>2, <1>1 DEF RequestStop, TypeOK
    <3>4. value' \in [src : Nat, locked : BOOLEAN, stop : BOOLEAN]
      BY <3>1, <1>1 DEF RequestStop
    <3> QED
      BY <3>3, <3>4, <1>1 DEF RequestStop, TypeOK
  <2>3. \A u \in Threads : th[u].req = "idle"
    BY <2>1 DEF RequestOK
  <2>4. Taken' = Taken /\ Leaving' = Leaving
    BY <2>1 DEF Taken, Leaving
  <2>5. Holding = {} /\ Holding' = {t}
    BY <2>1 DEF LockOK, Holding
  <2>6. RequestOK'
    BY <2>0, <2>1, <2>2, <2>3 DEF RequestOK, TypeOK
  <2>7. LockOK'
    BY <2>1, <2>5 DEF LockOK, Holding
  <2>8. CallOK'
    BY <2>1 DEF CallOK
  <2>9. RunOK'
    BY <2>1, <2>3, <2>4 DEF RunOK
  <2>10. StopReaches'
    BY <2>1 DEF StopReaches, RequestOK, TypeOK
  <2> QED
    BY <2>1, <2>2, <2>4, <2>6, <2>7, <2>8, <2>9, <2>10, QuietFrame
<1>2. ASSUME NoCallbackLeft(t) PROVE IndInv'
  <2>1. /\ \A u \in Threads : u # t => th'[u] = th[u]
        /\ th[t].req = "locked" /\ th'[t].req = "idle" /\ th'[t].op = th[t].op
        /\ th'[t].arg = th[t].arg
        /\ value'.stop = value.stop /\ ~ value'.locked /\ value'.src = value.src
        /\ m_head = Null
        /\ UNCHANGED <<owners, freed, m_head, m_requester, ref, cb, setup>>
    BY <1>2 DEF NoCallbackLeft, Unlock, TypeOK, Threading
  <2>2. TypeOK'
    <3>1. th[t] \in Threading /\ value \in [src : Nat, locked : BOOLEAN, stop : BOOLEAN]
      BY DEF TypeOK
    <3>2. th'[t] \in Threading
      BY <3>1, <1>2 DEF NoCallbackLeft, Unlock, TypeOK, Threading
    <3>3. th' \in [Threads -> Threading]
      BY <3>2, <1>2 DEF NoCallbackLeft, Unlock, TypeOK
    <3>4. value' \in [src : Nat, locked : BOOLEAN, stop : BOOLEAN]
      BY <3>1, <1>2 DEF NoCallbackLeft, Unlock
    <3> QED
      BY <3>3, <3>4, <1>2 DEF NoCallbackLeft, Unlock, TypeOK
  <2>4. Taken' = Taken /\ Leaving' = Leaving
    BY <2>1 DEF Taken, Leaving
  <2>5. Holding' = {}
    BY <2>1 DEF LockOK, Holding, RequestOK
  <2>6. RequestOK'
    BY <2>1 DEF RequestOK
  <2>7. LockOK'
    BY <2>1, <2>5 DEF LockOK, RequestOK
  <2>8. CallOK'
    BY <2>1 DEF CallOK
  <2>9. RunOK'
    BY <2>1, <2>4 DEF RunOK
  <2>10. StopReaches'
    BY <2>1 DEF StopReaches, RequestOK, TypeOK
  <2> QED
    BY <2>1, <2>2, <2>4, <2>6, <2>7, <2>8, <2>9, <2>10, QuietFrame
<1>3. ASSUME Relock(t) PROVE IndInv'
  <2>1. /\ \A u \in Threads : u # t => th'[u] = th[u]
        /\ th[t].req = "relock" /\ th'[t].req = "locked" /\ th'[t].op = th[t].op
        /\ th'[t].arg = th[t].arg /\ th'[t].src = th[t].src
        /\ value'.stop = value.stop /\ ~ value.locked /\ value'.locked /\ value'.src = value.src
        /\ UNCHANGED <<owners, freed, m_head, m_requester, ref, cb, setup>>
    BY <1>3 DEF Relock, Lock, TypeOK, Threading
  <2>2. TypeOK'
    <3>1. th[t] \in Threading /\ value \in [src : Nat, locked : BOOLEAN, stop : BOOLEAN]
      BY DEF TypeOK
    <3>2. th'[t] \in Threading
      BY <3>1, <1>3 DEF Relock, Lock, TypeOK, Threading
    <3>3. th' \in [Threads -> Threading]
      BY <3>2, <1>3 DEF Relock, Lock, TypeOK
    <3>4. value' \in [src : Nat, locked : BOOLEAN, stop : BOOLEAN]
      BY <3>1, <1>3 DEF Relock, Lock
    <3> QED
      BY <3>3, <3>4, <1>3 DEF Relock, Lock, TypeOK
  <2>4. Taken' = Taken /\ Leaving' = Leaving
    BY <2>1 DEF Taken, Leaving
  <2>5. Holding = {} /\ Holding' = {t}
    BY <2>1 DEF LockOK, Holding
  <2>6. RequestOK'
    BY <2>1 DEF RequestOK
  <2>7. LockOK'
    BY <2>1, <2>5 DEF LockOK, RequestOK
  <2>8. CallOK'
    BY <2>1 DEF CallOK
  <2>9. RunOK'
    BY <2>1, <2>4 DEF RunOK
  <2>10. StopReaches'
    BY <2>1 DEF StopReaches, RequestOK
  <2> QED
    BY <2>1, <2>2, <2>4, <2>6, <2>7, <2>8, <2>9, <2>10, QuietFrame
<1> QED
  BY <1>1, <1>2, <1>3

\* ... and so do those of a constructor or destructor that only take the lock,
\* or find that the callback is not on the list.
LEMMA LockInv ==
  ASSUME IndInv, NEW t \in Threads, UNCHANGED setup,
         RegisterLock(t) \/ RemoveLock(t) \/ Unlinked(t)
  PROVE  IndInv'
<1> USE DEF IndInv
<1>1. ASSUME RegisterLock(t) PROVE IndInv'
  <2>1. /\ \A u \in Threads : u # t => th'[u] = th[u]
        /\ th[t].op = "register" /\ th'[t].op = "link" /\ th'[t].req = th[t].req
        /\ th'[t].arg = th[t].arg /\ th'[t].src = th[t].src /\ th'[t].cur = th[t].cur
        /\ th'[t].last = th[t].last /\ th'[t].destroyed = th[t].destroyed
        /\ ~ value.stop /\ ~ value'.stop /\ ~ value.locked /\ value'.locked /\ value'.src = value.src
        /\ UNCHANGED <<owners, freed, m_head, m_requester, ref, cb, setup>>
    BY <1>1 DEF RegisterLock, Lock, At, TypeOK, Threading
  <2>2. TypeOK'
    <3>1. th[t] \in Threading /\ value \in [src : Nat, locked : BOOLEAN, stop : BOOLEAN]
      BY DEF TypeOK
    <3>2. th'[t] \in Threading
      BY <3>1, <1>1 DEF RegisterLock, Lock, At, TypeOK, Threading
    <3>3. th' \in [Threads -> Threading]
      BY <3>2, <1>1 DEF RegisterLock, Lock, At, TypeOK
    <3>4. value' \in [src : Nat, locked : BOOLEAN, stop : BOOLEAN]
      BY <3>1, <1>1 DEF RegisterLock, Lock, At
    <3> QED
      BY <3>3, <3>4, <1>1 DEF RegisterLock, Lock, At, TypeOK
  <2>4. Taken' = Taken /\ Leaving' = Leaving
    BY <2>1 DEF Taken, Leaving
  <2>5. Holding = {} /\ Holding' = {t}
    BY <2>1 DEF LockOK, Holding
  <2>6. RequestOK'
    BY <2>1 DEF RequestOK
  <2>7. LockOK'
    BY <2>1, <2>5 DEF LockOK
  <2>8. CallOK'
    BY <2>1 DEF CallOK
  <2>9. RunOK'
    BY <2>1, <2>4 DEF RunOK
  <2>10. StopReaches'
    BY <2>1 DEF StopReaches, RequestOK, TypeOK
  <2> QED
    BY <2>1, <2>2, <2>4, <2>6, <2>7, <2>8, <2>9, <2>10, QuietFrame
<1>2. ASSUME RemoveLock(t) PROVE IndInv'
  <2>1. /\ \A u \in Threads : u # t => th'[u] = th[u]
        /\ th[t].op = "remove" /\ th'[t].op = "unlink" /\ th'[t].req = th[t].req
        /\ th'[t].arg = th[t].arg /\ th'[t].src = th[t].src /\ th'[t].cur = th[t].cur
        /\ th'[t].last = th[t].last /\ th'[t].destroyed = th[t].destroyed
        /\ value'.stop = value.stop /\ ~ value.locked /\ value'.locked /\ value'.src = value.src
        /\ UNCHANGED <<owners, freed, m_head, m_requester, ref, cb, setup>>
    BY <1>2 DEF RemoveLock, Lock, At, TypeOK, Threading
  <2>2. TypeOK'
    <3>1. th[t] \in Threading /\ value \in [src : Nat, locked : BOOLEAN, stop : BOOLEAN]
      BY DEF TypeOK
    <3>2. th'[t] \in Threading
      BY <3>1, <1>2 DEF RemoveLock, Lock, At, TypeOK, Threading
    <3>3. th' \in [Threads -> Threading]
      BY <3>2, <1>2 DEF RemoveLock, Lock, At, TypeOK
    <3>4. value' \in [src : Nat, locked : BOOLEAN, stop : BOOLEAN]
      BY <3>1, <1>2 DEF RemoveLock, Lock, At
    <3> QED
      BY <3>3, <3>4, <1>2 DEF RemoveLock, Lock, At, TypeOK
  <2>4. Taken' = Taken /\ Leaving' = Leaving
    BY <2>1 DEF Taken, Leaving
  <2>5. Holding = {} /\ Holding' = {t}
    BY <2>1 DEF LockOK, Holding
  <2>6. RequestOK'
    BY <2>1 DEF RequestOK
  <2>7. LockOK'
    BY <2>1, <2>5 DEF LockOK
  <2>8. CallOK'
    BY <2>1 DEF CallOK
  <2>9. RunOK'
    BY <2>1, <2>4 DEF RunOK
  <2>10. StopReaches'
    BY <2>1 DEF StopReaches, RequestOK, TypeOK
  <2> QED
    BY <2>1, <2>2, <2>4, <2>6, <2>7, <2>8, <2>9, <2>10, QuietFrame
<1>3. ASSUME Unlinked(t) PROVE IndInv'
  <2> DEFINE c == th[t].arg
  <2>1. /\ \A u \in Threads : u # t => th'[u] = th[u]
        /\ th[t].op = "unlink" /\ th'[t].op = (IF m_requester # t THEN "wait" ELSE "drop")
        /\ th'[t].req = th[t].req
        /\ th'[t].arg = th[t].arg /\ th'[t].src = th[t].src /\ th'[t].cur = th[t].cur
        /\ th'[t].last = th[t].last
        /\ value'.stop = value.stop /\ ~ value'.locked /\ value'.src = value.src
        /\ c # m_head /\ cb[c].prev = Null
        /\ UNCHANGED <<owners, freed, m_head, m_requester, ref, cb, setup>>
    BY <1>3 DEF Unlinked, Unlock, At, TypeOK, Threading
  <2>2. th'[t].destroyed = (th[t].destroyed \/ (m_requester = t /\ cb[c].destroyed))
    BY <1>3 DEF Unlinked, TypeOK, Threading
  <2>3. TypeOK'
    <3>1. th[t] \in Threading /\ value \in [src : Nat, locked : BOOLEAN, stop : BOOLEAN]
      BY DEF TypeOK
    <3>2. th'[t] \in Threading
      BY <3>1, <1>3, ZenonT(60) DEF Unlinked, Unlock, At, TypeOK, Threading
    <3>3. th' \in [Threads -> Threading]
      BY <3>2, <1>3 DEF Unlinked, Unlock, At, TypeOK
    <3>4. value' \in [src : Nat, locked : BOOLEAN, stop : BOOLEAN]
      BY <3>1, <1>3 DEF Unlinked, Unlock, At
    <3> QED
      BY <3>3, <3>4, <1>3 DEF Unlinked, Unlock, At, TypeOK
  <2>4. c \in Callbacks /\ c \notin Listed /\ cb[c].st = "dying"
    BY <2>1 DEF CallOK, ListOK, TypeOK, Threading
  <2>5. Taken' = Taken /\ Leaving' = (IF m_requester # t THEN Leaving ELSE Leaving \cup {c})
    BY <2>1, <2>4 DEF Taken, Leaving
  <2>6. Holding = {t} /\ Holding' = {}
    BY <2>1 DEF LockOK, Holding, RequestOK
  <2>7. RequestOK'
    BY <2>1 DEF RequestOK
  <2>8. LockOK'
    BY <2>1, <2>6 DEF LockOK
  <2>9. CallOK'
    BY <2>1 DEF CallOK
  <2>10. RunOK'
    <3>1. ASSUME NEW u \in Threads, th'[u].req = "popped"
          PROVE  /\ cb'[th'[u].cur].st \in {"alive", "dying"}
                 /\ cb'[th'[u].cur].runs = 0 /\ ref'[th'[u].cur]
                 /\ th'[u].cur \notin Leaving'
                 /\ ~ th'[u].destroyed
      <4>1. u # t /\ m_requester = u
        BY <2>1, <3>1 DEF RequestOK
      <4> QED
        BY <2>1, <2>5, <3>1, <4>1 DEF RunOK
    <3>2. ASSUME NEW u \in Threads, th'[u].req = "run", ~ th'[u].destroyed
          PROVE  /\ cb'[th'[u].cur].st \in {"alive", "dying"}
                 /\ cb'[th'[u].cur].runs = 1 /\ cb'[th'[u].cur].done = 0
                 /\ cb'[th'[u].cur].destroyed /\ ref'[th'[u].cur]
                 /\ th'[u].cur \notin Leaving'
      <4>1. th[u].req = "run" /\ m_requester = u /\ th'[u].cur = th[u].cur
        BY <2>1, <3>2 DEF RequestOK
      <4>2. ~ th[u].destroyed
        BY <2>1, <2>2, <3>2
      <4>3. u = t => th[u].cur # c
        BY <2>2, <3>2, <4>1, <4>2 DEF RunOK
      <4> QED
        BY <2>1, <2>5, <4>1, <4>2, <4>3 DEF RunOK
    <3> QED
      BY <2>1, <3>1, <3>2 DEF RunOK
  <2>11. StopReaches'
    BY <2>1 DEF StopReaches, RequestOK, TypeOK
  <2>12. Listed' = Listed
    BY <2>1, <2>4, <2>5 DEF Listed
  <2>13. ListOK' /\ NoCycle'
    BY <2>1, <2>5, <2>12, ListFrame
  <2> QED
    BY <2>1, <2>3, <2>7, <2>8, <2>9, <2>10, <2>11, <2>13, CountsFrame
<1> QED
  BY <1>1, <1>2, <1>3

-----------------------------------------------------------------------------
\* request_stop() takes the first callback off the list, runs it and returns to
\* the list.
LEMMA RunInv ==
  ASSUME IndInv, NEW t \in Threads, UNCHANGED setup,
         PopCallback(t) \/ RunCallback(t) \/ FinishRun(t)
  PROVE  IndInv'
<1> USE DEF IndInv
<1>1. ASSUME PopCallback(t) PROVE IndInv'
  <2> DEFINE c == m_head
             n == cb[c].next
  <2>0. c \in Callbacks /\ c \in Listed /\ cb[c].prev = Null /\ n \in Callbacks \cup {Null}
    BY <1>1 DEF PopCallback, TypeOK, ListOK, CallbackState
  <2>1. /\ \A u \in Threads : u # t => th'[u] = th[u]
        /\ th[t].req = "locked" /\ th'[t].req = "popped" /\ th'[t].op = th[t].op
        /\ th'[t].arg = th[t].arg /\ th'[t].src = th[t].src /\ th'[t].cur = c
        /\ (th'[t].last <=> n = Null) /\ ~ th'[t].destroyed
        /\ value'.stop = value.stop /\ ~ value'.locked /\ value'.src = value.src
        /\ m_head' = n
        /\ UNCHANGED <<owners, freed, m_requester, ref, setup>>
    <3>1. /\ th' = [th EXCEPT ![t].req = "popped", ![t].cur = c, ![t].last = cb[c].next = Null,
                              ![t].destroyed = FALSE]
          /\ th[t] \in Threading
      BY <1>1 DEF PopCallback, TypeOK
    <3>2. /\ \A u \in Threads : u # t => th'[u] = th[u]
          /\ th'[t].req = "popped" /\ th'[t].op = th[t].op
          /\ th'[t].arg = th[t].arg /\ th'[t].src = th[t].src /\ th'[t].cur = c
          /\ (th'[t].last <=> n = Null) /\ ~ th'[t].destroyed
      BY <3>1 DEF TypeOK, Threading
    <3>3. value'.stop = value.stop /\ ~ value'.locked /\ value'.src = value.src
      BY <1>1 DEF PopCallback, Unlock, TypeOK
    <3> QED
      BY <3>2, <3>3, <1>1 DEF PopCallback
  <2>2. /\ \A d \in Callbacks : d # n => cb'[d] = cb[d]
        /\ \A d \in Callbacks : /\ cb'[d].st = cb[d].st /\ cb'[d].next = cb[d].next
                                /\ cb'[d].destroyed = cb[d].destroyed /\ cb'[d].done = cb[d].done
                                /\ cb'[d].runs = cb[d].runs
                                /\ cb'[d].prev = IF d = n THEN Null ELSE cb[d].prev
    <3>1. ASSUME NEW d \in Callbacks
          PROVE  cb'[d] = IF d = n THEN [cb[d] EXCEPT !.prev = Null] ELSE cb[d]
      BY <1>1 DEF PopCallback
    <3>2. ASSUME NEW d \in Callbacks
          PROVE  /\ cb'[d].st = cb[d].st /\ cb'[d].next = cb[d].next
                 /\ cb'[d].destroyed = cb[d].destroyed /\ cb'[d].done = cb[d].done
                 /\ cb'[d].runs = cb[d].runs
                 /\ cb'[d].prev = IF d = n THEN Null ELSE cb[d].prev
      <4>1. cb[d] \in CallbackState
        BY DEF TypeOK
      <4> HIDE DEF n
      <4>2. CASE d = n
        BY <3>1, <4>1, <4>2, ZenonT(60) DEF CallbackState
      <4>3. CASE d # n
        BY <3>1, <4>3
      <4> QED
        BY <4>2, <4>3
    <3> QED
      BY <3>1, <3>2
  <2>3. TypeOK'
    <3>1. th[t] \in Threading /\ value \in [src : Nat, locked : BOOLEAN, stop : BOOLEAN]
      BY DEF TypeOK
    <3>2. th'[t] \in Threading
      <4>1. PICK b \in BOOLEAN : b = (cb[c].next = Null)
        OBVIOUS
      <4>2. th' = [th EXCEPT ![t].req = "popped", ![t].cur = c, ![t].last = b,
                             ![t].destroyed = FALSE]
        BY <1>1, <4>1 DEF PopCallback
      <4>3. th'[t] = [th[t] EXCEPT !.req = "popped", !.cur = c, !.last = b, !.destroyed = FALSE]
        BY <4>2 DEF TypeOK
      <4> QED
        BY <2>0, <3>1, <4>3 DEF Threading
    <3>3. th' \in [Threads -> Threading]
      BY <3>2, <1>1 DEF PopCallback, TypeOK
    <3>4. value' \in [src : Nat, locked : BOOLEAN, stop : BOOLEAN]
      BY <3>1, <1>1 DEF PopCallback, Unlock
    <3>5. cb' \in [Callbacks -> CallbackState]
      BY <1>1 DEF PopCallback, TypeOK, CallbackState
    <3> QED
      BY <2>0, <2>1, <3>3, <3>4, <3>5 DEF TypeOK
  <2>4. \A u \in Threads : u # t => th[u].req = "idle"
    BY <2>1 DEF RequestOK
  <2>5. Taken = {} /\ Taken' = {c} /\ Leaving' = Leaving
    BY <2>0, <2>1, <2>4 DEF Taken, Leaving
  <2>6. Listed' = Listed \ {c}
    BY <2>0, <2>1, <2>2, <2>5 DEF Listed
  <2>7. Holding' = {}
    BY <2>1 DEF LockOK, Holding, RequestOK
  <2>8. RequestOK'
    BY <2>0, <2>1 DEF RequestOK
  <2>9. LockOK'
    BY <2>1, <2>7 DEF LockOK, RequestOK
  <2>10. CallOK'
    BY <2>1, <2>2, SMTT(40) DEF CallOK, TypeOK, Threading
  <2>11. RunOK'
    <3>1. cb[c].st \in {"alive", "dying"} /\ cb[c].runs = 0 /\ c \notin Leaving /\ ref[c]
      BY <2>0 DEF Listed
    <3> QED
      BY <2>0, <2>1, <2>2, <2>4, <2>5, <3>1 DEF RunOK
  <2>12. StopReaches'
    BY <2>1, <2>8 DEF StopReaches, RequestOK
  <2>13. n # Null => n \in Listed /\ cb[n].prev = c /\ n # c
    BY <2>0 DEF ListOK
  <2>14. ListOK'
    <3>1. m_head' # Null => m_head' \in Listed' /\ cb'[m_head'].prev = Null
      BY <2>0, <2>1, <2>2, <2>6, <2>13
    <3>2. ASSUME NEW d \in Listed'
          PROVE  /\ cb'[d].prev = Null => d = m_head'
                 /\ cb'[d].prev # Null => cb'[d].prev \in Listed' /\ cb'[cb'[d].prev].next = d
                 /\ cb'[d].next # Null => cb'[d].next \in Listed' /\ cb'[cb'[d].next].prev = d
      <4>1. d \in Listed /\ d # c /\ d \in Callbacks
        BY <2>6 DEF Listed
      <4>2. cb[d].prev # Null /\ cb[d].prev \in Listed /\ cb[cb[d].prev].next = d
        BY <4>1 DEF ListOK
      <4>3. cb[d].next # Null => cb[d].next \in Listed /\ cb[cb[d].next].prev = d
        BY <4>1 DEF ListOK
      <4>4. \A e \in Listed : e \in Callbacks
        BY DEF Listed
      <4>5. cb[d].prev = c => d = n
        BY <4>2
      <4>6. cb[d].next # Null => cb[d].next # c /\ cb[d].next # n
        BY <4>1, <4>3, <2>0, <2>13
      <4> QED
        BY <4>1, <4>2, <4>3, <4>4, <4>5, <4>6, <2>1, <2>2, <2>6
    <3>3. ASSUME NEW d \in Callbacks, d \notin Listed', d \notin Leaving', cb'[d].st # "dead"
          PROVE  cb'[d].prev = Null
      BY <3>3, <2>0, <2>2, <2>5, <2>6 DEF ListOK
    <3> QED
      BY <3>1, <3>2, <3>3 DEF ListOK
  <2>15. NoCycle'
    <3> SUFFICES ASSUME NEW T \in SUBSET Listed', T # {} PROVE \E d \in T : cb'[d].prev \notin T
      BY DEF NoCycle
    <3>1. T \in SUBSET Listed /\ T \subseteq Callbacks
      BY <2>6 DEF Listed
    <3>2. PICK d \in T : cb[d].prev \notin T
      BY <3>1 DEF NoCycle
    <3> QED
      BY <3>1, <3>2, <2>2
  <2> QED
    BY <2>1, <2>3, <2>8, <2>9, <2>10, <2>11, <2>12, <2>14, <2>15, CountsFrame
<1>2. ASSUME RunCallback(t) PROVE IndInv'
  <2> DEFINE c == th[t].cur
  <2>0. c \in Callbacks
    BY <1>2 DEF RunCallback, RequestOK, TypeOK, Threading
  <2>1. /\ \A u \in Threads : u # t => th'[u] = th[u]
        /\ th[t].req = "popped" /\ th'[t].req = "run" /\ th'[t].op = th[t].op
        /\ th'[t].arg = th[t].arg /\ th'[t].src = th[t].src /\ th'[t].cur = c
        /\ th'[t].last = th[t].last /\ th'[t].destroyed = th[t].destroyed
        /\ UNCHANGED <<value, owners, freed, m_head, m_requester, ref, setup>>
    BY <1>2 DEF RunCallback, TypeOK, Threading
  <2>2. /\ \A d \in Callbacks : d # c => cb'[d] = cb[d]
        /\ cb'[c].st = cb[c].st /\ cb'[c].next = cb[c].next /\ cb'[c].prev = cb[c].prev
        /\ cb'[c].destroyed /\ cb'[c].done = cb[c].done /\ cb'[c].runs = cb[c].runs + 1
    BY <1>2, <2>0 DEF RunCallback, TypeOK, CallbackState
  <2>3. TypeOK'
    <3>1. th' \in [Threads -> Threading]
      BY <1>2, SMTT(40) DEF RunCallback, TypeOK, Threading
    <3>2. cb' \in [Callbacks -> CallbackState]
      BY <1>2, <2>0 DEF RunCallback, TypeOK, CallbackState
    <3> QED
      BY <2>1, <3>1, <3>2 DEF TypeOK
  <2>4. \A u \in Threads : u # t => th[u].req = "idle"
    BY <2>1 DEF RequestOK
  <2>5. Taken = {c} /\ Taken' = {} /\ Leaving' = Leaving
    BY <2>0, <2>1, <2>4 DEF Taken, Leaving
  <2>6. cb[c].runs = 0 /\ cb[c].st \in {"alive", "dying"} /\ c \notin Leaving /\ cb[c].done \in {0, 1}
        /\ cb[c].done # 1 /\ ref[c]
    BY <2>0, <2>1 DEF RunOK, TypeOK, CallbackState
  <2>7. Listed' = Listed
    BY <2>0, <2>1, <2>2, <2>5, <2>6 DEF Listed
  <2>8. Holding' = Holding
    BY <2>1 DEF Holding
  <2>9. RequestOK'
    BY <2>0, <2>1 DEF RequestOK
  <2>10. LockOK'
    BY <2>1, <2>8 DEF LockOK
  <2>11. CallOK'
    BY <2>0, <2>1, <2>2, SMTT(40) DEF CallOK, TypeOK, Threading
  <2>12. RunOK'
    <3>a. ASSUME NEW d \in Callbacks
          PROVE  /\ cb'[d].runs <= 1
                 /\ cb'[d].done = 1 => cb'[d].runs = 1
                 /\ cb'[d].st \in {"none", "constructing"} => cb'[d].runs = 0
                 /\ ref'[d] => cb'[d].st \in {"constructing", "alive", "dying"}
      BY <2>0, <2>1, <2>2, <2>4, <2>5, <2>6 DEF RunOK
    <3>b. ASSUME NEW u \in Threads, th'[u].req = "popped"
          PROVE  /\ cb'[th'[u].cur].st \in {"alive", "dying"} /\ ref'[th'[u].cur]
                 /\ cb'[th'[u].cur].runs = 0
                 /\ th'[u].cur \notin Leaving'
                 /\ ~ th'[u].destroyed
      BY <3>b, <2>0, <2>1, <2>2, <2>4, <2>5, <2>6 DEF RunOK
    <3>c. ASSUME NEW u \in Threads, th'[u].req = "run", ~ th'[u].destroyed
          PROVE  /\ cb'[th'[u].cur].st \in {"alive", "dying"} /\ ref'[th'[u].cur]
                 /\ cb'[th'[u].cur].runs = 1 /\ cb'[th'[u].cur].done = 0 /\ cb'[th'[u].cur].destroyed
                 /\ th'[u].cur \notin Leaving'
      BY <3>c, <2>0, <2>1, <2>2, <2>4, <2>5, <2>6 DEF RunOK
    <3> QED
      BY <3>a, <3>b, <3>c DEF RunOK
  <2>13. StopReaches'
    BY <2>1 DEF StopReaches, RequestOK
  <2>14. ListOK' /\ NoCycle'
    BY <2>0, <2>1, <2>2, <2>5, <2>7, ListFrame
  <2> QED
    BY <2>1, <2>3, <2>9, <2>10, <2>11, <2>12, <2>13, <2>14, CountsFrame
<1>3. ASSUME FinishRun(t) PROVE IndInv'
  <2> DEFINE c == th[t].cur
  <2>0. c \in Callbacks
    BY <1>3 DEF FinishRun, RequestOK, TypeOK, Threading
  <2>1. /\ \A u \in Threads : u # t => th'[u] = th[u]
        /\ th[t].req = "run" /\ th[t].op = "idle" /\ th'[t].op = "idle"
        /\ th'[t].req = IF th[t].last THEN "idle" ELSE "relock"
        /\ th'[t].arg = th[t].arg /\ (~ th[t].last => th'[t].src = th[t].src)
        /\ UNCHANGED <<value, owners, freed, m_head, m_requester, ref, setup>>
    BY <1>3 DEF FinishRun, TypeOK, Threading
  <2>2. /\ \A d \in Callbacks : d # c => cb'[d] = cb[d]
        /\ cb'[c].st = cb[c].st /\ cb'[c].next = cb[c].next /\ cb'[c].prev = cb[c].prev
        /\ cb'[c].runs = cb[c].runs
        /\ cb'[c].done # cb[c].done => cb[c].runs = 1
    <3>1. CASE th[t].destroyed
      BY <1>3, <3>1 DEF FinishRun
    <3>2. CASE ~ th[t].destroyed
      <4>1. cb' = [cb EXCEPT ![c].destroyed = FALSE, ![c].done = 1] /\ cb[c] \in CallbackState
        BY <1>3, <2>0, <3>2 DEF FinishRun, TypeOK
      <4>2. cb[c].runs = 1
        BY <2>1, <3>2 DEF RunOK
      <4> QED
        BY <2>0, <4>1, <4>2 DEF TypeOK, CallbackState
    <3> QED
      BY <3>1, <3>2
  <2>3. TypeOK'
    <3>0. th[t] \in Threading
      BY DEF TypeOK
    <3>1. th'[t] \in Threading
      BY <1>3, <3>0 DEF FinishRun, TypeOK, Threading
    <3>2. th' \in [Threads -> Threading]
      BY <1>3, <3>1 DEF FinishRun, TypeOK
    <3>3. cb' \in [Callbacks -> CallbackState]
      <4>1. CASE th[t].destroyed
        BY <1>3, <4>1 DEF FinishRun, TypeOK
      <4>2. CASE ~ th[t].destroyed
        <5>1. cb' = [cb EXCEPT ![c].destroyed = FALSE, ![c].done = 1] /\ cb[c] \in CallbackState
          BY <1>3, <2>0, <4>2 DEF FinishRun, TypeOK
        <5>2. [cb[c] EXCEPT !.destroyed = FALSE, !.done = 1] \in CallbackState
          BY <5>1 DEF CallbackState
        <5> QED
          BY <2>0, <5>1, <5>2 DEF TypeOK
      <4> QED
        BY <4>1, <4>2
    <3> QED
      BY <2>1, <3>2, <3>3 DEF TypeOK
  <2>4. \A u \in Threads : u # t => th[u].req = "idle"
    BY <2>1 DEF RequestOK
  <2>5. Taken' = Taken /\ Leaving' = Leaving
    BY <2>0, <2>1 DEF Taken, Leaving
  <2>6. Listed' = Listed
    BY <2>0, <2>1, <2>2, <2>5 DEF Listed
  <2>7. Holding' = Holding
    BY <2>1 DEF Holding
  <2>8. RequestOK'
    BY <2>1 DEF RequestOK
  <2>9. LockOK'
    BY <2>1, <2>7 DEF LockOK
  <2>10. CallOK'
    BY <2>0, <2>1, <2>2 DEF CallOK, TypeOK, Threading
  <2>11. RunOK'
    <3>a. ASSUME NEW d \in Callbacks
          PROVE  /\ cb'[d].runs <= 1
                 /\ cb'[d].done = 1 => cb'[d].runs = 1
                 /\ cb'[d].st \in {"none", "constructing"} => cb'[d].runs = 0
                 /\ ref'[d] => cb'[d].st \in {"constructing", "alive", "dying"}
      BY <2>0, <2>1, <2>2, <2>4, <2>5 DEF RunOK
    <3>b. ASSUME NEW u \in Threads, th'[u].req = "popped"
          PROVE  /\ cb'[th'[u].cur].st \in {"alive", "dying"} /\ ref'[th'[u].cur]
                 /\ cb'[th'[u].cur].runs = 0
                 /\ th'[u].cur \notin Leaving'
                 /\ ~ th'[u].destroyed
      BY <3>b, <2>0, <2>1, <2>2, <2>4, <2>5 DEF RunOK
    <3>c. ASSUME NEW u \in Threads, th'[u].req = "run", ~ th'[u].destroyed
          PROVE  /\ cb'[th'[u].cur].st \in {"alive", "dying"} /\ ref'[th'[u].cur]
                 /\ cb'[th'[u].cur].runs = 1 /\ cb'[th'[u].cur].done = 0 /\ cb'[th'[u].cur].destroyed
                 /\ th'[u].cur \notin Leaving'
      BY <3>c, <2>0, <2>1, <2>2, <2>4, <2>5 DEF RunOK
    <3> QED
      BY <3>a, <3>b, <3>c DEF RunOK
  <2>12. StopReaches'
    BY <2>1 DEF StopReaches, RequestOK
  <2>13. ListOK' /\ NoCycle'
    BY <2>0, <2>1, <2>2, <2>5, <2>6, ListFrame
  <2> QED
    BY <2>1, <2>3, <2>8, <2>9, <2>10, <2>11, <2>12, <2>13, CountsFrame
<1> QED
  BY <1>1, <1>2, <1>3

-----------------------------------------------------------------------------
\* The constructor of stop_callback: it takes a reference, then gives it back or
\* links the callback in front.
LEMMA ConstructInv ==
  ASSUME IndInv, NEW t \in Threads, UNCHANGED setup,
         \/ \E c \in setup.callbacks, k \in Tokens : Construct(t, c, k)
         \/ NotRegistered(t) \/ Link(t)
  PROVE  IndInv'
<1> USE DEF IndInv
<1>1. ASSUME NEW c \in setup.callbacks, NEW k \in Tokens, Construct(t, c, k) PROVE IndInv'
  <2>0. c \in Callbacks /\ c \in Handles /\ c \notin Sources /\ k \in Handles /\ cb[c].st = "none"
        /\ ref[k] /\ ~ ref[c]
    BY <1>1 DEF TypeOK, Handles, Construct, RunOK
  <2>1. /\ \A u \in Threads : u # t => th'[u] = th[u]
        /\ th[t].op = "idle" /\ th'[t].op = "register" /\ th[t].req \in {"idle", "run"}
        /\ th'[t].arg = c /\ th'[t].req = th[t].req /\ th'[t].src = th[t].src
        /\ th'[t].cur = th[t].cur /\ th'[t].last = th[t].last /\ th'[t].destroyed = th[t].destroyed
        /\ UNCHANGED <<value, m_head, m_requester, setup>>
    <3>1. th' = [th EXCEPT ![t].op = "register", ![t].arg = c] /\ th[t] \in Threading
      BY <1>1 DEF Construct, TypeOK
    <3>2. /\ \A u \in Threads : u # t => th'[u] = th[u]
          /\ th'[t].op = "register" /\ th'[t].arg = c /\ th'[t].req = th[t].req
          /\ th'[t].src = th[t].src /\ th'[t].cur = th[t].cur /\ th'[t].last = th[t].last
          /\ th'[t].destroyed = th[t].destroyed
      BY <3>1 DEF TypeOK, Threading
    <3> QED
      BY <3>2, <1>1 DEF Construct, Free
  <2>2. /\ \A d \in Callbacks : d # c => cb'[d] = cb[d]
        /\ cb'[c].st = "constructing" /\ cb'[c].next = cb[c].next /\ cb'[c].prev = cb[c].prev
        /\ cb'[c].destroyed = cb[c].destroyed /\ cb'[c].done = cb[c].done
        /\ cb'[c].runs = cb[c].runs
    <3>1. cb' = [cb EXCEPT ![c].st = "constructing"] /\ cb[c] \in CallbackState
      BY <1>1, <2>0 DEF Construct, TypeOK
    <3> QED
      BY <2>0, <3>1 DEF TypeOK, CallbackState
  <2>3. ref' = [ref EXCEPT ![c] = TRUE] /\ owners' = owners + 1 /\ freed' = freed
    BY <1>1 DEF Construct, AddOwner
  <2>4. TypeOK'
    <3>1. th' \in [Threads -> Threading]
      <4>1. th' = [th EXCEPT ![t].op = "register", ![t].arg = c] /\ th[t] \in Threading
        BY <1>1 DEF Construct, TypeOK
      <4>2. [th[t] EXCEPT !.op = "register", !.arg = c] \in Threading
        BY <2>0, <4>1 DEF Threading
      <4> QED
        BY <4>1, <4>2 DEF TypeOK
    <3>2. cb' \in [Callbacks -> CallbackState]
      <4>1. cb' = [cb EXCEPT ![c].st = "constructing"] /\ cb[c] \in CallbackState
        BY <1>1, <2>0 DEF Construct, TypeOK
      <4>2. [cb[c] EXCEPT !.st = "constructing"] \in CallbackState
        BY <4>1 DEF CallbackState
      <4> QED
        BY <2>0, <4>1, <4>2 DEF TypeOK
    <3> QED
      BY <2>0, <2>1, <2>3, <3>1, <3>2 DEF TypeOK
  <2>5. CountsOK'
    <3>1. owners \in Nat /\ ~ freed
      BY <2>0, OwnedIsNotFreed
    <3>2. Cardinality(Referring') = Cardinality(Referring) + 1 /\ Counted' = Counted
      BY <2>0, <2>3, CountUp
    <3> QED
      BY <2>1, <2>3, <3>1, <3>2, Finite DEF CountsOK
  <2>6. \A h \in Handles : h # c => ref'[h] = ref[h]
    BY <2>0, <2>3 DEF TypeOK
  <2>7. ref'[c] /\ Callbacks \subseteq Handles /\ Sources \subseteq Handles
    BY <2>0, <2>3 DEF TypeOK, Handles
  <2>8. Taken' = Taken /\ Leaving' = Leaving /\ Holding' = Holding
    BY <2>0, <2>1 DEF Taken, Leaving, Holding
  <2>9. Listed' = Listed
    BY <2>0, <2>2, <2>6, <2>7, <2>8 DEF Listed
  <2>10. RequestOK'
    BY <2>0, <2>1, <2>6, <2>7 DEF RequestOK
  <2>11. LockOK'
    BY <2>1, <2>8 DEF LockOK
  <2>12. CallOK'
    <3>1. \A u \in Threads : th[u].op # "idle" => th[u].arg # c /\ th[u].arg \in Callbacks
      BY <2>0 DEF CallOK, TypeOK, Threading
    <3> QED
      BY <2>0, <2>1, <2>2, <2>6, <2>7, <3>1 DEF CallOK
  <2>13. RunOK'
    <3>1. \A u \in Threads : th[u].req \in {"popped", "run"} => th[u].cur \in Callbacks
      BY DEF RequestOK, TypeOK, Threading
    <3> QED
      BY <2>0, <2>1, <2>2, <2>6, <2>7, <2>8, <3>1 DEF RunOK
  <2>14. StopReaches'
    BY <2>1 DEF StopReaches, RequestOK, TypeOK
  <2>15. ListOK' /\ NoCycle'
    BY <2>0, <2>1, <2>2, <2>8, <2>9, ListFrame
  <2> QED
    BY <2>4, <2>5, <2>10, <2>11, <2>12, <2>13, <2>14, <2>15
<1>2. ASSUME NotRegistered(t) PROVE IndInv'
  <2> DEFINE c == th[t].arg
  <2>0. c \in Callbacks /\ c \in Handles /\ c \notin Sources /\ cb[c].st = "constructing"
        /\ ref[c] /\ th[t].op = "register" /\ cb[c].runs = 0
    BY <1>2 DEF TypeOK, Threading, Handles, NotRegistered, At, RunOK, CallOK
  <2>1. /\ \A u \in Threads : u # t => th'[u] = th[u]
        /\ th'[t].op = "idle" /\ th'[t].req = th[t].req /\ th'[t].src = th[t].src
        /\ th'[t].cur = th[t].cur /\ th'[t].last = th[t].last /\ th'[t].destroyed = th[t].destroyed
        /\ UNCHANGED <<value, m_head, m_requester, setup>>
    BY <1>2 DEF NotRegistered, TypeOK, Threading
  <2>2. /\ \A d \in Callbacks : d # c => cb'[d] = cb[d]
        /\ cb'[c].st = "alive" /\ cb'[c].next = cb[c].next /\ cb'[c].prev = cb[c].prev
        /\ cb'[c].destroyed = cb[c].destroyed /\ cb'[c].done = cb[c].done
        /\ cb'[c].runs \in {0, 1}
    BY <1>2, <2>0 DEF NotRegistered, TypeOK, CallbackState
  <2>3. ref' = [ref EXCEPT ![c] = FALSE] /\ ReleaseOwnership
    BY <1>2 DEF NotRegistered
  <2>4. owners \in Nat /\ owners >= 1
    BY <2>0, OwnedIsNotFreed
  <2>5. Referring' = Referring \ {c} /\ Counted' = Counted \ {c}
    BY <2>0, <2>3 DEF Referring, Counted, TypeOK, Handles
  <2>6. TypeOK'
    <3>1. th' \in [Threads -> Threading]
      <4>1. th' = [th EXCEPT ![t].op = "idle", ![t].arg = Null] /\ th[t] \in Threading
        BY <1>2 DEF NotRegistered, TypeOK
      <4>2. [th[t] EXCEPT !.op = "idle", !.arg = Null] \in Threading
        BY <4>1 DEF Threading
      <4> QED
        BY <4>1, <4>2 DEF TypeOK
    <3>2. cb' \in [Callbacks -> CallbackState]
      <4>1. cb[c] \in CallbackState /\ cb[c].runs + 1 \in Nat
        BY <2>0 DEF TypeOK
      <4>2. PICK r \in Nat : r = IF value.stop THEN cb[c].runs + 1 ELSE cb[c].runs
        BY <2>0, <4>1
      <4>3. cb' = [cb EXCEPT ![c].st = "alive", ![c].runs = r]
        BY <1>2, <4>2 DEF NotRegistered
      <4> QED
        BY <2>0, <4>1, <4>3 DEF TypeOK, CallbackState
    <3>3. owners' \in Nat /\ freed' \in BOOLEAN
      BY <2>3, <2>4 DEF ReleaseOwnership
    <3> QED
      BY <2>0, <2>1, <2>3, <3>1, <3>2, <3>3 DEF TypeOK
  <2>7. CountsOK'
    <3>1. owners' = owners - 1 /\ (freed' <=> owners' = 0)
      BY <2>3, <2>4, Released
    <3>2. Cardinality(Referring') = Cardinality(Referring) - 1 /\ Counted' = Counted
      BY <2>0, <2>5, CountDown
    <3> QED
      BY <2>1, <3>1, <3>2, Finite DEF CountsOK
  <2>8. \A h \in Handles : h # c => ref'[h] = ref[h]
    BY <2>0, <2>3 DEF TypeOK
  <2>9. ~ ref'[c] /\ Callbacks \subseteq Handles /\ Sources \subseteq Handles
    BY <2>0, <2>3 DEF TypeOK, Handles
  <2>10. Taken' = Taken /\ Leaving' = Leaving /\ Holding' = Holding
    BY <2>0, <2>1 DEF Taken, Leaving, Holding
  <2>11. Listed' = Listed
    BY <2>0, <2>2, <2>8, <2>9, <2>10 DEF Listed
  <2>12. RequestOK'
    BY <2>0, <2>1, <2>8, <2>9 DEF RequestOK
  <2>13. LockOK'
    BY <2>1, <2>10 DEF LockOK
  <2>14. CallOK'
    <3>1. \A u \in Threads : u # t /\ th[u].op # "idle" => th[u].arg # c /\ th[u].arg \in Callbacks
      BY <2>0 DEF CallOK, TypeOK, Threading
    <3> QED
      BY <2>0, <2>1, <2>2, <2>8, <2>9, <3>1 DEF CallOK
  <2>15. RunOK'
    <3>1. \A u \in Threads : th[u].req \in {"popped", "run"} => th[u].cur \in Callbacks
      BY DEF RequestOK, TypeOK, Threading
    <3>2. \A d \in Callbacks : cb'[d].done = 1 => cb'[d].runs = 1
      BY <2>0, <2>2 DEF RunOK
    <3>a. ASSUME NEW d \in Callbacks
          PROVE  /\ cb'[d].runs <= 1
                 /\ cb'[d].done = 1 => cb'[d].runs = 1
                 /\ cb'[d].st \in {"none", "constructing"} => cb'[d].runs = 0
                 /\ ref'[d] => cb'[d].st \in {"constructing", "alive", "dying"}
      BY <2>0, <2>1, <2>2, <2>8, <2>9, <2>10, <3>1, <3>2 DEF RunOK
    <3>b. ASSUME NEW u \in Threads, th'[u].req = "popped"
          PROVE  /\ cb'[th'[u].cur].st \in {"alive", "dying"} /\ ref'[th'[u].cur]
                 /\ cb'[th'[u].cur].runs = 0
                 /\ th'[u].cur \notin Leaving'
                 /\ ~ th'[u].destroyed
      BY <3>b, <2>0, <2>1, <2>2, <2>8, <2>9, <2>10, <3>1, <3>2 DEF RunOK
    <3>c. ASSUME NEW u \in Threads, th'[u].req = "run", ~ th'[u].destroyed
          PROVE  /\ cb'[th'[u].cur].st \in {"alive", "dying"} /\ ref'[th'[u].cur]
                 /\ cb'[th'[u].cur].runs = 1 /\ cb'[th'[u].cur].done = 0 /\ cb'[th'[u].cur].destroyed
                 /\ th'[u].cur \notin Leaving'
      BY <3>c, <2>0, <2>1, <2>2, <2>8, <2>9, <2>10, <3>1, <3>2 DEF RunOK
    <3> QED
      BY <3>a, <3>b, <3>c DEF RunOK
  <2>16. StopReaches'
    BY <2>1 DEF StopReaches, RequestOK, TypeOK
  <2>17. ListOK' /\ NoCycle'
    BY <2>0, <2>1, <2>2, <2>10, <2>11, ListFrame
  <2> QED
    BY <2>6, <2>7, <2>12, <2>13, <2>14, <2>15, <2>16, <2>17
<1>3. ASSUME Link(t) PROVE IndInv'
  <2> DEFINE c == th[t].arg
  <2>0. c \in Callbacks /\ cb[c].st = "constructing" /\ ref[c] /\ th[t].op = "link"
        /\ cb[c].runs = 0 /\ c \notin Listed /\ c \notin Leaving /\ cb[c].prev = Null
        /\ c \notin Taken /\ c # m_head
    <3>1. c \in Callbacks /\ cb[c].st = "constructing" /\ ref[c] /\ th[t].op = "link"
          /\ cb[c].runs = 0 /\ c \notin Listed
      BY <1>3 DEF TypeOK, Threading, Link, At, RunOK, CallOK, Listed
    <3>2. c \notin Leaving /\ c \notin Taken
      BY <3>1 DEF Leaving, Taken, CallOK, RunOK
    <3> QED
      BY <3>1, <3>2 DEF ListOK, TypeOK
  <2>1. /\ \A u \in Threads : u # t => th'[u] = th[u]
        /\ th'[t].op = "idle" /\ th'[t].req = th[t].req /\ th'[t].src = th[t].src
        /\ th'[t].cur = th[t].cur /\ th'[t].last = th[t].last /\ th'[t].destroyed = th[t].destroyed
        /\ value'.stop = value.stop /\ ~ value'.locked /\ value'.src = value.src
        /\ m_head' = c
        /\ UNCHANGED <<owners, freed, m_requester, ref, setup>>
    <3>1. value'.stop = value.stop /\ ~ value'.locked /\ value'.src = value.src
      BY <1>3 DEF Link, Unlock, TypeOK
    <3>2. th' = [th EXCEPT ![t].op = "idle", ![t].arg = Null]
      BY <1>3 DEF Link
    <3>3. /\ \A u \in Threads : u # t => th'[u] = th[u]
          /\ th'[t].op = "idle" /\ th'[t].req = th[t].req /\ th'[t].src = th[t].src
          /\ th'[t].cur = th[t].cur /\ th'[t].last = th[t].last /\ th'[t].destroyed = th[t].destroyed
      BY <3>2 DEF TypeOK, Threading
    <3> QED
      BY <1>3, <3>1, <3>3 DEF Link
  <2>2. \A d \in Callbacks :
          /\ cb'[d].st = IF d = c THEN "alive" ELSE cb[d].st
          /\ cb'[d].next = IF d = c THEN m_head ELSE cb[d].next
          /\ cb'[d].prev = IF d = m_head THEN c ELSE cb[d].prev
          /\ cb'[d].destroyed = cb[d].destroyed /\ cb'[d].done = cb[d].done
          /\ cb'[d].runs = cb[d].runs
    <3> SUFFICES ASSUME NEW d \in Callbacks
                 PROVE  /\ cb'[d].st = IF d = c THEN "alive" ELSE cb[d].st
                        /\ cb'[d].next = IF d = c THEN m_head ELSE cb[d].next
                        /\ cb'[d].prev = IF d = m_head THEN c ELSE cb[d].prev
                        /\ cb'[d].destroyed = cb[d].destroyed /\ cb'[d].done = cb[d].done
                        /\ cb'[d].runs = cb[d].runs
      OBVIOUS
    <3>1. cb[d] \in CallbackState
      BY DEF TypeOK
    <3>2. cb'[d] = IF d = c THEN [cb[d] EXCEPT !.st = "alive", !.next = m_head]
                   ELSE IF d = m_head THEN [cb[d] EXCEPT !.prev = c] ELSE cb[d]
      BY <1>3 DEF Link
    <3> HIDE DEF c
    <3>3. CASE d = c
      BY <2>0, <3>1, <3>2, <3>3 DEF CallbackState
    <3>4. CASE d # c /\ d = m_head
      BY <3>1, <3>2, <3>4 DEF CallbackState
    <3>5. CASE d # c /\ d # m_head
      BY <3>1, <3>2, <3>5 DEF CallbackState
    <3> QED
      BY <3>3, <3>4, <3>5
  <2>3. TypeOK'
    <3>1. th' \in [Threads -> Threading]
      <4>1. th' = [th EXCEPT ![t].op = "idle", ![t].arg = Null] /\ th[t] \in Threading
        BY <1>3 DEF Link, TypeOK
      <4>2. [th[t] EXCEPT !.op = "idle", !.arg = Null] \in Threading
        BY <4>1 DEF Threading
      <4> QED
        BY <4>1, <4>2 DEF TypeOK
    <3>2. cb' \in [Callbacks -> CallbackState]
      <4>1. ASSUME NEW d \in Callbacks PROVE cb'[d] \in CallbackState
        <5>1. cb[d] \in CallbackState /\ m_head \in Callbacks \cup {Null}
          BY DEF TypeOK
        <5>2. cb'[d] = IF d = c THEN [cb[d] EXCEPT !.st = "alive", !.next = m_head]
                       ELSE IF d = m_head THEN [cb[d] EXCEPT !.prev = c] ELSE cb[d]
          BY <1>3 DEF Link
        <5>3. /\ [cb[d] EXCEPT !.st = "alive", !.next = m_head] \in CallbackState
              /\ [cb[d] EXCEPT !.prev = c] \in CallbackState
          BY <2>0, <5>1 DEF CallbackState
        <5> QED
          BY <5>1, <5>2, <5>3
      <4>2. cb' = [d \in Callbacks |-> cb'[d]]
        BY <1>3 DEF Link
      <4> QED
        BY <4>1, <4>2
    <3>3. value' \in [src : Nat, locked : BOOLEAN, stop : BOOLEAN]
      BY <1>3 DEF Link, Unlock, TypeOK
    <3> QED
      BY <2>0, <2>1, <3>1, <3>2, <3>3 DEF TypeOK
  <2>4. Taken' = Taken /\ Leaving' = Leaving
    BY <2>0, <2>1 DEF Taken, Leaving
  <2>5. Holding = {t} /\ Holding' = {}
    BY <2>0, <2>1 DEF LockOK, Holding, RequestOK
  <2>6. Listed' = Listed \cup {c}
    BY <2>0, <2>1, <2>2, <2>4 DEF Listed
  <2>7. RequestOK'
    BY <2>1 DEF RequestOK
  <2>8. LockOK'
    BY <2>1, <2>5 DEF LockOK
  <2>9. CallOK'
    <3>1. \A u \in Threads : u # t /\ th[u].op # "idle" => th[u].arg # c /\ th[u].arg \in Callbacks
      BY <2>0 DEF CallOK, TypeOK, Threading
    <3> QED
      BY <2>0, <2>1, <2>2, <3>1 DEF CallOK
  <2>10. RunOK'
    <3>1. \A u \in Threads : th[u].req \in {"popped", "run"} => th[u].cur \in Callbacks
      BY DEF RequestOK, TypeOK, Threading
    <3>a. ASSUME NEW d \in Callbacks
          PROVE  /\ cb'[d].runs <= 1
                 /\ cb'[d].done = 1 => cb'[d].runs = 1
                 /\ cb'[d].st \in {"none", "constructing"} => cb'[d].runs = 0
                 /\ ref'[d] => cb'[d].st \in {"constructing", "alive", "dying"}
      BY <2>0, <2>1, <2>2, <2>4, <3>1 DEF RunOK
    <3>b. ASSUME NEW u \in Threads, th'[u].req = "popped"
          PROVE  /\ cb'[th'[u].cur].st \in {"alive", "dying"} /\ ref'[th'[u].cur]
                 /\ cb'[th'[u].cur].runs = 0
                 /\ th'[u].cur \notin Leaving'
                 /\ ~ th'[u].destroyed
      BY <3>b, <2>0, <2>1, <2>2, <2>4, <3>1 DEF RunOK
    <3>c. ASSUME NEW u \in Threads, th'[u].req = "run", ~ th'[u].destroyed
          PROVE  /\ cb'[th'[u].cur].st \in {"alive", "dying"} /\ ref'[th'[u].cur]
                 /\ cb'[th'[u].cur].runs = 1 /\ cb'[th'[u].cur].done = 0 /\ cb'[th'[u].cur].destroyed
                 /\ th'[u].cur \notin Leaving'
      BY <3>c, <2>0, <2>1, <2>2, <2>4, <3>1 DEF RunOK
    <3> QED
      BY <3>a, <3>b, <3>c DEF RunOK
  <2>11. StopReaches'
    BY <2>0, <2>1 DEF StopReaches, LockOK
  <2>12. m_head # Null => m_head \in Listed /\ cb[m_head].prev = Null
    BY DEF ListOK
  <2>13. Listed \subseteq Callbacks
    BY DEF Listed
  <2>14. ListOK'
    <3>1. m_head' # Null => m_head' \in Listed' /\ cb'[m_head'].prev = Null
      BY <2>0, <2>1, <2>2, <2>6
    <3>2. ASSUME NEW d \in Listed'
          PROVE  /\ cb'[d].prev = Null => d = m_head'
                 /\ cb'[d].prev # Null => cb'[d].prev \in Listed' /\ cb'[cb'[d].prev].next = d
                 /\ cb'[d].next # Null => cb'[d].next \in Listed' /\ cb'[cb'[d].next].prev = d
      <4>1. CASE d = c
        BY <4>1, <2>0, <2>1, <2>2, <2>6, <2>12, <2>13
      <4>2. CASE d # c
        <5>1. d \in Listed /\ d \in Callbacks
          BY <4>2, <2>6, <2>13
        <5>2. /\ cb[d].prev = Null => d = m_head
              /\ cb[d].prev # Null => cb[d].prev \in Listed /\ cb[cb[d].prev].next = d
              /\ cb[d].next # Null => cb[d].next \in Listed /\ cb[cb[d].next].prev = d
          BY <5>1 DEF ListOK
        <5> HIDE DEF c
        <5>3. cb[d].next # m_head \/ cb[d].next = Null
          BY <5>1, <5>2, <2>12
        <5>4. c # Null
          BY <2>0
        <5> QED
          BY <4>2, <5>1, <5>2, <5>3, <5>4, <2>0, <2>1, <2>2, <2>6, <2>12, <2>13
      <4> QED
        BY <4>1, <4>2
    <3>3. ASSUME NEW d \in Callbacks, d \notin Listed', d \notin Leaving', cb'[d].st # "dead"
          PROVE  cb'[d].prev = Null
      BY <3>3, <2>0, <2>2, <2>4, <2>6, <2>12 DEF ListOK
    <3> QED
      BY <3>1, <3>2, <3>3 DEF ListOK
  <2>15. NoCycle'
    <3> SUFFICES ASSUME NEW T \in SUBSET Listed', T # {} PROVE \E d \in T : cb'[d].prev \notin T
      BY DEF NoCycle
    <3>1. CASE c \in T
      BY <3>1, <2>0, <2>2, <2>6, <2>13
    <3>2. CASE c \notin T
      <4>1. T \in SUBSET Listed /\ T \subseteq Callbacks
        BY <2>6, <2>13, <3>2
      <4>2. PICK d \in T : cb[d].prev \notin T
        BY <4>1 DEF NoCycle
      <4> QED
        BY <3>2, <4>1, <4>2, <2>2
    <3> QED
      BY <3>1, <3>2
  <2> QED
    BY <2>1, <2>3, <2>7, <2>8, <2>9, <2>10, <2>11, <2>14, <2>15, CountsFrame
<1> QED
  BY <1>1, <1>2, <1>3

-----------------------------------------------------------------------------
\* The destructor of stop_callback: it takes the callback off the list, or waits
\* until it has been run, and gives the reference up.
LEMMA DestroyInv ==
  ASSUME IndInv, NEW t \in Threads, UNCHANGED setup,
         \/ \E c \in setup.callbacks : Destroy(t, c)
         \/ Unlink(t) \/ WaitDone(t) \/ DropRef(t)
  PROVE  IndInv'
<1> USE DEF IndInv
<1>1. ASSUME NEW c \in setup.callbacks, Destroy(t, c) PROVE IndInv'
  <2>0. c \in Callbacks /\ cb[c].st = "alive" /\ cb[c] \in CallbackState /\ th[t] \in Threading
    BY <1>1 DEF TypeOK, Destroy
  <2>1. /\ \A u \in Threads : u # t => th'[u] = th[u]
        /\ th[t].op = "idle" /\ th'[t].req = th[t].req /\ th'[t].src = th[t].src
        /\ th'[t].cur = th[t].cur /\ th'[t].last = th[t].last /\ th'[t].destroyed = th[t].destroyed
        /\ IF ref[c] THEN th'[t].op = "remove" /\ th'[t].arg = c /\ th[t].req \in {"idle", "run"}
           ELSE th'[t] = th[t]
        /\ UNCHANGED <<value, owners, freed, m_head, m_requester, ref, setup>>
    <3>1. CASE ref[c]
      <4>1. th' = [th EXCEPT ![t].op = "remove", ![t].arg = c]
        BY <1>1, <3>1 DEF Destroy
      <4>2. /\ \A u \in Threads : u # t => th'[u] = th[u]
            /\ th'[t].op = "remove" /\ th'[t].arg = c /\ th'[t].req = th[t].req
            /\ th'[t].src = th[t].src /\ th'[t].cur = th[t].cur /\ th'[t].last = th[t].last
            /\ th'[t].destroyed = th[t].destroyed
        BY <4>1, <2>0 DEF TypeOK, Threading
      <4> QED
        BY <1>1, <3>1, <4>2 DEF Destroy, Free
    <3>2. CASE ~ ref[c]
      BY <1>1, <3>2 DEF Destroy, Free
    <3> QED
      BY <3>1, <3>2
  <2>2. /\ \A d \in Callbacks : d # c => cb'[d] = cb[d]
        /\ cb'[c].st = IF ref[c] THEN "dying" ELSE "dead"
        /\ cb'[c].next = cb[c].next /\ cb'[c].prev = cb[c].prev
        /\ cb'[c].destroyed = cb[c].destroyed /\ cb'[c].done = cb[c].done
        /\ cb'[c].runs = cb[c].runs
    <3>1. cb' = [cb EXCEPT ![c].st = IF ref[c] THEN "dying" ELSE "dead"]
      BY <1>1 DEF Destroy
    <3> QED
      BY <2>0, <3>1 DEF TypeOK, CallbackState
  <2>3. TypeOK'
    <3>1. th' \in [Threads -> Threading]
      <4>1. [th[t] EXCEPT !.op = "remove", !.arg = c] \in Threading
        BY <2>0 DEF Threading
      <4> QED
        BY <1>1, <4>1 DEF Destroy, TypeOK
    <3>2. cb' \in [Callbacks -> CallbackState]
      <4>1. /\ [cb[c] EXCEPT !.st = "dying"] \in CallbackState
            /\ [cb[c] EXCEPT !.st = "dead"] \in CallbackState
        BY <2>0 DEF CallbackState
      <4> QED
        BY <1>1, <2>0, <4>1 DEF Destroy, TypeOK
    <3> QED
      BY <2>1, <3>1, <3>2 DEF TypeOK
  <2>4. Taken' = Taken /\ Leaving' = Leaving /\ Holding' = Holding
    BY <2>0, <2>1 DEF Taken, Leaving, Holding
  <2>5. Listed' = Listed
    BY <2>0, <2>1, <2>2, <2>4 DEF Listed
  <2>6. RequestOK'
    BY <2>1 DEF RequestOK
  <2>7. LockOK'
    BY <2>1, <2>4 DEF LockOK
  <2>8. CallOK'
    <3>1. \A u \in Threads : th[u].op # "idle" => th[u].arg # c /\ th[u].arg \in Callbacks
      BY <2>0 DEF CallOK, TypeOK, Threading
    <3> QED
      BY <2>0, <2>1, <2>2, <3>1 DEF CallOK
  <2>9. RunOK'
    <3>1. \A u \in Threads : th[u].req \in {"popped", "run"} => th[u].cur \in Callbacks
      BY DEF RequestOK, TypeOK, Threading
    <3> QED
      BY <2>0, <2>1, <2>2, <2>4, <3>1 DEF RunOK
  <2>10. StopReaches'
    BY <2>1 DEF StopReaches, RequestOK, TypeOK
  <2>11. ListOK' /\ NoCycle'
    BY <2>0, <2>1, <2>2, <2>4, <2>5, ListFrame
  <2> QED
    BY <2>1, <2>3, <2>6, <2>7, <2>8, <2>9, <2>10, <2>11, CountsFrame
<1>2. ASSUME WaitDone(t) PROVE IndInv'
  <2> DEFINE c == th[t].arg
  <2>0. c \in Callbacks /\ cb[c].st = "dying" /\ ref[c] /\ cb[c] \in CallbackState
        /\ th[t] \in Threading /\ cb[c].done = 1 /\ cb[c].runs = 1 /\ th[t].op = "wait"
    BY <1>2 DEF TypeOK, Threading, WaitDone, At, CallOK, RunOK
  <2>1. /\ \A u \in Threads : u # t => th'[u] = th[u]
        /\ th'[t].op = "drop" /\ th'[t].arg = c /\ th'[t].req = th[t].req
        /\ th'[t].src = th[t].src /\ th'[t].cur = th[t].cur /\ th'[t].last = th[t].last
        /\ th'[t].destroyed = th[t].destroyed
        /\ UNCHANGED <<value, owners, freed, m_head, m_requester, ref, setup>>
    <3>1. th' = [th EXCEPT ![t].op = "drop"]
      BY <1>2 DEF WaitDone
    <3>2. /\ \A u \in Threads : u # t => th'[u] = th[u]
          /\ th'[t].op = "drop" /\ th'[t].arg = c /\ th'[t].req = th[t].req
          /\ th'[t].src = th[t].src /\ th'[t].cur = th[t].cur /\ th'[t].last = th[t].last
          /\ th'[t].destroyed = th[t].destroyed
      BY <2>0, <3>1 DEF TypeOK, Threading
    <3> QED
      BY <1>2, <3>2 DEF WaitDone
  <2>2. /\ \A d \in Callbacks : d # c => cb'[d] = cb[d]
        /\ cb'[c].st = cb[c].st /\ cb'[c].next = cb[c].next /\ cb'[c].prev = cb[c].prev
        /\ cb'[c].destroyed = cb[c].destroyed /\ cb'[c].done = 0
        /\ cb'[c].runs = cb[c].runs
    <3>1. cb' = [cb EXCEPT ![c].done = 0]
      BY <1>2 DEF WaitDone
    <3> QED
      BY <2>0, <3>1 DEF TypeOK, CallbackState
  <2>3. TypeOK'
    <3>1. th' \in [Threads -> Threading]
      <4>1. [th[t] EXCEPT !.op = "drop"] \in Threading
        BY <2>0 DEF Threading
      <4> QED
        BY <1>2, <4>1 DEF WaitDone, TypeOK
    <3>2. cb' \in [Callbacks -> CallbackState]
      <4>1. [cb[c] EXCEPT !.done = 0] \in CallbackState
        BY <2>0 DEF CallbackState
      <4> QED
        BY <1>2, <2>0, <4>1 DEF WaitDone, TypeOK
    <3> QED
      BY <2>1, <3>1, <3>2 DEF TypeOK
  <2>4. Taken' = Taken /\ Leaving' = Leaving \cup {c} /\ Holding' = Holding
    BY <2>0, <2>1 DEF Taken, Leaving, Holding
  <2>5. Listed' = Listed
    BY <2>0, <2>1, <2>2, <2>4 DEF Listed
  <2>6. RequestOK'
    BY <2>0, <2>1 DEF RequestOK
  <2>7. LockOK'
    BY <2>0, <2>1, <2>4 DEF LockOK
  <2>8. CallOK'
    <3>1. \A u \in Threads : th[u].op # "idle" => th[u].arg \in Callbacks
      BY DEF CallOK, TypeOK, Threading
    <3> QED
      BY <2>0, <2>1, <2>2, <3>1 DEF CallOK
  <2>9. RunOK'
    <3>1. \A u \in Threads : th[u].req \in {"popped", "run"} => th[u].cur \in Callbacks
      BY DEF RequestOK, TypeOK, Threading
    <3>a. ASSUME NEW d \in Callbacks
          PROVE  /\ cb'[d].runs <= 1
                 /\ cb'[d].done = 1 => cb'[d].runs = 1
                 /\ cb'[d].st \in {"none", "constructing"} => cb'[d].runs = 0
                 /\ ref'[d] => cb'[d].st \in {"constructing", "alive", "dying"}
      BY <2>0, <2>1, <2>2, <2>4, <3>1 DEF RunOK
    <3>b. ASSUME NEW u \in Threads, th'[u].req = "popped"
          PROVE  /\ cb'[th'[u].cur].st \in {"alive", "dying"} /\ ref'[th'[u].cur]
                 /\ cb'[th'[u].cur].runs = 0
                 /\ th'[u].cur \notin Leaving'
                 /\ ~ th'[u].destroyed
      BY <3>b, <2>0, <2>1, <2>2, <2>4, <3>1 DEF RunOK
    <3>c. ASSUME NEW u \in Threads, th'[u].req = "run", ~ th'[u].destroyed
          PROVE  /\ cb'[th'[u].cur].st \in {"alive", "dying"} /\ ref'[th'[u].cur]
                 /\ cb'[th'[u].cur].runs = 1 /\ cb'[th'[u].cur].done = 0 /\ cb'[th'[u].cur].destroyed
                 /\ th'[u].cur \notin Leaving'
      BY <3>c, <2>0, <2>1, <2>2, <2>4, <3>1 DEF RunOK
    <3> QED
      BY <3>a, <3>b, <3>c DEF RunOK
  <2>10. StopReaches'
    BY <2>1 DEF StopReaches, RequestOK, TypeOK
  <2>11. ListOK' /\ NoCycle'
    BY <2>0, <2>1, <2>2, <2>4, <2>5, ListFrame
  <2> QED
    BY <2>1, <2>3, <2>6, <2>7, <2>8, <2>9, <2>10, <2>11, CountsFrame
<1>3. ASSUME DropRef(t) PROVE IndInv'
  <2> DEFINE c == th[t].arg
  <2>0. c \in Callbacks /\ c \in Handles /\ c \notin Sources /\ cb[c].st = "dying" /\ ref[c]
        /\ cb[c] \in CallbackState /\ th[t] \in Threading /\ th[t].op = "drop" /\ c \in Leaving
    BY <1>3 DEF TypeOK, Threading, Handles, DropRef, At, CallOK, Leaving
  <2>1. /\ \A u \in Threads : u # t => th'[u] = th[u]
        /\ th'[t].op = "idle" /\ th'[t].req = th[t].req /\ th'[t].src = th[t].src
        /\ th'[t].cur = th[t].cur /\ th'[t].last = th[t].last /\ th'[t].destroyed = th[t].destroyed
        /\ UNCHANGED <<value, m_head, m_requester, setup>>
    <3>1. th' = [th EXCEPT ![t].op = "idle", ![t].arg = Null]
      BY <1>3 DEF DropRef
    <3>2. /\ \A u \in Threads : u # t => th'[u] = th[u]
          /\ th'[t].op = "idle" /\ th'[t].req = th[t].req /\ th'[t].src = th[t].src
          /\ th'[t].cur = th[t].cur /\ th'[t].last = th[t].last /\ th'[t].destroyed = th[t].destroyed
      BY <2>0, <3>1 DEF TypeOK, Threading
    <3> QED
      BY <1>3, <3>2 DEF DropRef
  <2>2. /\ \A d \in Callbacks : d # c => cb'[d] = cb[d]
        /\ cb'[c].st = "dead" /\ cb'[c].next = cb[c].next /\ cb'[c].prev = cb[c].prev
        /\ cb'[c].destroyed = cb[c].destroyed /\ cb'[c].done = cb[c].done
        /\ cb'[c].runs = cb[c].runs
    <3>1. cb' = [cb EXCEPT ![c].st = "dead"]
      BY <1>3 DEF DropRef
    <3> QED
      BY <2>0, <3>1 DEF TypeOK, CallbackState
  <2>3. ref' = [ref EXCEPT ![c] = FALSE] /\ ReleaseOwnership
    BY <1>3 DEF DropRef
  <2>4. owners \in Nat /\ owners >= 1
    BY <2>0, OwnedIsNotFreed
  <2>5. Referring' = Referring \ {c} /\ Counted' = Counted \ {c}
    BY <2>0, <2>3 DEF Referring, Counted, TypeOK, Handles
  <2>6. TypeOK'
    <3>1. th' \in [Threads -> Threading]
      <4>1. [th[t] EXCEPT !.op = "idle", !.arg = Null] \in Threading
        BY <2>0 DEF Threading
      <4> QED
        BY <1>3, <4>1 DEF DropRef, TypeOK
    <3>2. cb' \in [Callbacks -> CallbackState]
      <4>1. [cb[c] EXCEPT !.st = "dead"] \in CallbackState
        BY <2>0 DEF CallbackState
      <4> QED
        BY <1>3, <2>0, <4>1 DEF DropRef, TypeOK
    <3>3. owners' \in Nat /\ freed' \in BOOLEAN
      BY <2>3, <2>4 DEF ReleaseOwnership
    <3> QED
      BY <2>0, <2>1, <2>3, <3>1, <3>2, <3>3 DEF TypeOK
  <2>7. CountsOK'
    <3>1. owners' = owners - 1 /\ (freed' <=> owners' = 0)
      BY <2>3, <2>4, Released
    <3>2. Cardinality(Referring') = Cardinality(Referring) - 1 /\ Counted' = Counted
      BY <2>0, <2>5, CountDown
    <3> QED
      BY <2>1, <3>1, <3>2, Finite DEF CountsOK
  <2>8. \A h \in Handles : h # c => ref'[h] = ref[h]
    BY <2>0, <2>3 DEF TypeOK
  <2>9. ~ ref'[c] /\ Callbacks \subseteq Handles /\ Sources \subseteq Handles
    BY <2>0, <2>3 DEF TypeOK, Handles
  <2>10. \A u \in Threads : u # t /\ th[u].op # "idle" => th[u].arg # c /\ th[u].arg \in Callbacks
    BY <2>0 DEF CallOK, TypeOK, Threading
  <2>11. Taken' = Taken /\ Leaving' = Leaving \ {c} /\ Holding' = Holding
    BY <2>0, <2>1, <2>10 DEF Taken, Leaving, Holding
  <2>12. Listed' = Listed
    BY <2>0, <2>2, <2>8, <2>9, <2>11 DEF Listed
  <2>13. RequestOK'
    BY <2>0, <2>1, <2>8, <2>9 DEF RequestOK
  <2>14. LockOK'
    BY <2>1, <2>11 DEF LockOK
  <2>15. CallOK'
    BY <2>0, <2>1, <2>2, <2>8, <2>9, <2>10 DEF CallOK
  <2>16. RunOK'
    <3>1. \A u \in Threads : th[u].req \in {"popped", "run"} => th[u].cur \in Callbacks
      BY DEF RequestOK, TypeOK, Threading
    <3>a. ASSUME NEW d \in Callbacks
          PROVE  /\ cb'[d].runs <= 1
                 /\ cb'[d].done = 1 => cb'[d].runs = 1
                 /\ cb'[d].st \in {"none", "constructing"} => cb'[d].runs = 0
                 /\ ref'[d] => cb'[d].st \in {"constructing", "alive", "dying"}
      BY <2>0, <2>1, <2>2, <2>8, <2>9, <2>11, <3>1 DEF RunOK
    <3>b. ASSUME NEW u \in Threads, th'[u].req = "popped"
          PROVE  /\ cb'[th'[u].cur].st \in {"alive", "dying"} /\ ref'[th'[u].cur]
                 /\ cb'[th'[u].cur].runs = 0
                 /\ th'[u].cur \notin Leaving'
                 /\ ~ th'[u].destroyed
      BY <3>b, <2>0, <2>1, <2>2, <2>8, <2>9, <2>11, <3>1 DEF RunOK
    <3>c. ASSUME NEW u \in Threads, th'[u].req = "run", ~ th'[u].destroyed
          PROVE  /\ cb'[th'[u].cur].st \in {"alive", "dying"} /\ ref'[th'[u].cur]
                 /\ cb'[th'[u].cur].runs = 1 /\ cb'[th'[u].cur].done = 0 /\ cb'[th'[u].cur].destroyed
                 /\ th'[u].cur \notin Leaving'
      BY <3>c, <2>0, <2>1, <2>2, <2>8, <2>9, <2>11, <3>1 DEF RunOK
    <3> QED
      BY <3>a, <3>b, <3>c DEF RunOK
  <2>17. StopReaches'
    BY <2>1 DEF StopReaches, RequestOK, TypeOK
  <2>18. ListOK' /\ NoCycle'
    BY <2>0, <2>1, <2>2, <2>11, <2>12, ListFrame
  <2> QED
    BY <2>6, <2>7, <2>13, <2>14, <2>15, <2>16, <2>17, <2>18
<1>4. ASSUME Unlink(t) PROVE IndInv'
  <2> DEFINE c == th[t].arg
             n == cb[c].next
             p == cb[c].prev
  <2>0. c \in Callbacks /\ cb[c].st = "dying" /\ ref[c] /\ cb[c] \in CallbackState
        /\ th[t] \in Threading /\ th[t].op = "unlink" /\ c \in Listed
        /\ n \in Callbacks \cup {Null} /\ p \in Callbacks \cup {Null}
    <3>1. c \in Callbacks /\ cb[c].st = "dying" /\ ref[c] /\ cb[c] \in CallbackState
          /\ th[t] \in Threading /\ th[t].op = "unlink"
      BY <1>4 DEF TypeOK, Threading, Unlink, At, CallOK
    <3>2. c \notin Leaving
      BY <3>1 DEF Leaving, CallOK
    <3>3. c = m_head \/ cb[c].prev # Null
      BY <1>4 DEF Unlink
    <3>4. c \in Listed
      BY <3>1, <3>2, <3>3 DEF ListOK
    <3> QED
      BY <3>1, <3>4 DEF CallbackState
  <2>1. /\ \A u \in Threads : u # t => th'[u] = th[u]
        /\ th'[t].op = "drop" /\ th'[t].arg = c /\ th'[t].req = th[t].req
        /\ th'[t].src = th[t].src /\ th'[t].cur = th[t].cur /\ th'[t].last = th[t].last
        /\ th'[t].destroyed = th[t].destroyed
        /\ value'.stop = value.stop /\ ~ value'.locked /\ value'.src = value.src
        /\ m_head' = (IF c = m_head THEN n ELSE m_head)
        /\ UNCHANGED <<owners, freed, m_requester, ref, setup>>
    <3>1. th' = [th EXCEPT ![t].op = "drop"]
      BY <1>4 DEF Unlink
    <3>2. /\ \A u \in Threads : u # t => th'[u] = th[u]
          /\ th'[t].op = "drop" /\ th'[t].arg = c /\ th'[t].req = th[t].req
          /\ th'[t].src = th[t].src /\ th'[t].cur = th[t].cur /\ th'[t].last = th[t].last
          /\ th'[t].destroyed = th[t].destroyed
      BY <2>0, <3>1 DEF TypeOK, Threading
    <3>3. value'.stop = value.stop /\ ~ value'.locked /\ value'.src = value.src
      BY <1>4 DEF Unlink, Unlock, TypeOK
    <3> QED
      BY <1>4, <3>2, <3>3 DEF Unlink
  <2>2. (c = m_head <=> p = Null) /\ (n # Null => n \in Listed /\ cb[n].prev = c)
        /\ (p # Null => p \in Listed /\ cb[p].next = c)
    BY <2>0 DEF ListOK
  <2>3. ASSUME NEW d \in Callbacks
        PROVE  /\ cb'[d] \in CallbackState
               /\ cb'[d].st = cb[d].st /\ cb'[d].destroyed = cb[d].destroyed
               /\ cb'[d].done = cb[d].done /\ cb'[d].runs = cb[d].runs
               /\ cb'[d].prev = IF d = n THEN p ELSE cb[d].prev
               /\ cb'[d].next = IF d = p THEN n ELSE cb[d].next
    <3>1. cb[d] \in CallbackState
      BY DEF TypeOK
    <3>2. PICK x : x = IF d = n THEN IF c = m_head THEN Null ELSE p ELSE cb[d].prev
      OBVIOUS
    <3>3. PICK y : y = IF c # m_head /\ d = p THEN n ELSE cb[d].next
      OBVIOUS
    <3>4. cb'[d] = [cb[d] EXCEPT !.prev = x, !.next = y]
      BY <1>4, <3>2, <3>3 DEF Unlink
    <3>5. x = (IF d = n THEN p ELSE cb[d].prev) /\ y = (IF d = p THEN n ELSE cb[d].next)
      BY <2>0, <2>2, <3>2, <3>3
    <3>6. x \in Callbacks \cup {Null} /\ y \in Callbacks \cup {Null}
      BY <2>0, <3>1, <3>5 DEF CallbackState
    <3>7. /\ cb'[d] \in CallbackState
          /\ cb'[d].st = cb[d].st /\ cb'[d].destroyed = cb[d].destroyed
          /\ cb'[d].done = cb[d].done /\ cb'[d].runs = cb[d].runs
          /\ cb'[d].prev = x /\ cb'[d].next = y
      BY <3>1, <3>4, <3>6 DEF CallbackState
    <3> QED
      BY <3>5, <3>7
  <2>4. TypeOK'
    <3>1. th' \in [Threads -> Threading]
      <4>1. [th[t] EXCEPT !.op = "drop"] \in Threading
        BY <2>0 DEF Threading
      <4> QED
        BY <1>4, <4>1 DEF Unlink, TypeOK
    <3>2. cb' \in [Callbacks -> CallbackState]
      <4>1. cb' = [d \in Callbacks |-> cb'[d]]
        BY <1>4 DEF Unlink
      <4> QED
        BY <2>3, <4>1
    <3>3. value' \in [src : Nat, locked : BOOLEAN, stop : BOOLEAN]
      BY <1>4 DEF Unlink, Unlock, TypeOK
    <3> QED
      BY <2>0, <2>1, <3>1, <3>2, <3>3 DEF TypeOK
  <2>5. Taken' = Taken /\ Leaving' = Leaving \cup {c}
    BY <2>0, <2>1 DEF Taken, Leaving
  <2>6. Listed' = Listed \ {c}
    BY <2>0, <2>1, <2>3, <2>5 DEF Listed
  <2>7. Holding = {t} /\ Holding' = {}
    BY <2>0, <2>1 DEF LockOK, Holding, RequestOK
  <2>8. RequestOK'
    BY <2>0, <2>1 DEF RequestOK
  <2>9. LockOK'
    BY <2>1, <2>7 DEF LockOK
  <2>10. CallOK'
    <3>1. \A u \in Threads : th[u].op # "idle" => th[u].arg \in Callbacks
      BY DEF CallOK, TypeOK, Threading
    <3> QED
      BY <2>0, <2>1, <2>3, <3>1 DEF CallOK
  <2>11. RunOK'
    <3>1. \A u \in Threads : th[u].req \in {"popped", "run"} => th[u].cur \in Callbacks
      BY DEF RequestOK, TypeOK, Threading
    <3>2. \A u \in Threads : th[u].req = "popped" => th[u].cur # c
      BY <2>0, <3>1 DEF Listed, Taken
    <3>3. \A u \in Threads : th[u].req = "run" /\ ~ th[u].destroyed => th[u].cur # c
      BY <2>0 DEF Listed, RunOK
    <3> QED
      BY <2>0, <2>1, <2>3, <2>5, <3>1, <3>2, <3>3 DEF RunOK
  <2>12. StopReaches'
    BY <2>0, <2>1 DEF StopReaches, RequestOK, TypeOK
  <2>13. n # c /\ p # c
    <3>1. {c} \in SUBSET Listed
      BY <2>0
    <3>2. p # c
      BY <3>1 DEF NoCycle
    <3> QED
      BY <2>0, <2>2, <3>2
  <2>14. Listed \subseteq Callbacks
    BY DEF Listed
  <2>15. ListOK'
    <3>1. m_head' # Null => m_head' \in Listed' /\ cb'[m_head'].prev = Null
      <4>1. CASE c = m_head
        BY <4>1, <2>0, <2>1, <2>2, <2>3, <2>6, <2>13, <2>14
      <4>2. CASE c # m_head
        <5>1. m_head # Null => m_head \in Listed /\ cb[m_head].prev = Null
          BY DEF ListOK
        <5> QED
          BY <4>2, <5>1, <2>0, <2>1, <2>2, <2>3, <2>6, <2>14
      <4> QED
        BY <4>1, <4>2
    <3>2. ASSUME NEW d \in Listed'
          PROVE  /\ cb'[d].prev = Null => d = m_head'
                 /\ cb'[d].prev # Null => cb'[d].prev \in Listed' /\ cb'[cb'[d].prev].next = d
                 /\ cb'[d].next # Null => cb'[d].next \in Listed' /\ cb'[cb'[d].next].prev = d
      <4>1. d \in Listed /\ d # c /\ d \in Callbacks /\ d # Null
        BY <2>6, <2>14
      <4>2. /\ cb[d].prev = Null => d = m_head
            /\ cb[d].prev # Null => cb[d].prev \in Listed /\ cb[cb[d].prev].next = d
            /\ cb[d].next # Null => cb[d].next \in Listed /\ cb[cb[d].next].prev = d
        BY <4>1 DEF ListOK
      <4>3. cb[d].prev = c => d = n
        BY <4>2, <2>0
      <4>4. cb[d].next = c => d = p
        BY <4>2, <2>0
      <4> HIDE DEF c, n, p
      <4>5. cb'[d].prev = Null => d = m_head'
        BY <4>1, <4>2, <4>3, <2>0, <2>1, <2>2, <2>3
      <4>6. cb'[d].prev # Null => cb'[d].prev \in Listed' /\ cb'[cb'[d].prev].next = d
        <5>1. CASE d = n
          BY <5>1, <4>1, <2>0, <2>2, <2>3, <2>6, <2>13, <2>14
        <5>2. CASE d # n
          <6>1. cb'[d].prev = cb[d].prev /\ cb[d].prev # c
            BY <5>2, <4>1, <4>3, <2>3
          <6>2. cb[d].prev # Null => cb[d].prev # p
            BY <4>1, <4>2, <2>2
          <6> QED
            BY <6>1, <6>2, <4>2, <2>3, <2>6, <2>14
        <5> QED
          BY <5>1, <5>2
      <4>7. cb'[d].next # Null => cb'[d].next \in Listed' /\ cb'[cb'[d].next].prev = d
        <5>1. CASE d = p
          BY <5>1, <4>1, <2>0, <2>2, <2>3, <2>6, <2>13, <2>14
        <5>2. CASE d # p
          <6>1. cb'[d].next = cb[d].next /\ cb[d].next # c
            BY <5>2, <4>1, <4>4, <2>3
          <6>2. cb[d].next # Null => cb[d].next # n
            BY <4>1, <4>2, <2>2
          <6> QED
            BY <6>1, <6>2, <4>2, <2>3, <2>6, <2>14
        <5> QED
          BY <5>1, <5>2
      <4> QED
        BY <4>5, <4>6, <4>7
    <3>3. ASSUME NEW d \in Callbacks, d \notin Listed', d \notin Leaving', cb'[d].st # "dead"
          PROVE  cb'[d].prev = Null
      <4>1. d # c /\ d \notin Listed /\ d \notin Leaving /\ cb[d].st # "dead" /\ d # n
        BY <3>3, <2>2, <2>3, <2>5, <2>6
      <4> QED
        BY <4>1, <2>3 DEF ListOK
    <3> QED
      BY <3>1, <3>2, <3>3 DEF ListOK
  <2>16. NoCycle'
    <3> SUFFICES ASSUME NEW T \in SUBSET Listed', T # {} PROVE \E d \in T : cb'[d].prev \notin T
      BY DEF NoCycle
    <3>1. T \in SUBSET Listed /\ T \cup {c} \in SUBSET Listed /\ c \notin T /\ T \subseteq Callbacks
      BY <2>0, <2>6, <2>14
    <3>2. PICK d \in T \cup {c} : cb[d].prev \notin T \cup {c}
      <4>1. T \cup {c} # {}
        OBVIOUS
      <4> HIDE DEF c
      <4> QED
        BY <3>1, <4>1 DEF NoCycle
    <3>3. PICK e \in T : cb[e].prev \notin T
      BY <3>1 DEF NoCycle
    <3>4. CASE d # c
      BY <3>1, <3>2, <3>4, <2>0, <2>2, <2>3
    <3>5. CASE d = c /\ n \in T
      BY <3>1, <3>2, <3>5, <2>0, <2>3
    <3>6. CASE n \notin T
      BY <3>1, <3>3, <3>6, <2>3
    <3> QED
      BY <3>4, <3>5, <3>6
  <2> QED
    BY <2>1, <2>4, <2>8, <2>9, <2>10, <2>11, <2>12, <2>15, <2>16, CountsFrame
<1> QED
  BY <1>1, <1>2, <1>3, <1>4

-----------------------------------------------------------------------------
\* Following m_next from m_head as often as there are callbacks.
LEMMA LinkedSteps ==
  \E g : /\ g[0] = {m_head} \ {Null}
         /\ \A i \in 1..Cardinality(Callbacks) :
              g[i] = g[i - 1] \cup ({cb[c].next : c \in g[i - 1]} \ {Null})
         /\ Linked = g[Cardinality(Callbacks)]
<1> DEFINE N == Cardinality(Callbacks)
           More(X) == X \cup ({cb[c].next : c \in X} \ {Null})
           Body(g, i) == IF i = 0 THEN {m_head} \ {Null} ELSE More(g[i - 1])
           S == {n \in Nat : \E g : g = [i \in 0..n |-> Body(g, i)]}
<1>1. N \in Nat
  BY FS_CardinalityType
<1>2. 0 \in S
  <2> DEFINE g == [i \in 0..0 |-> {m_head} \ {Null}]
  <2>1. g = [i \in 0..0 |-> Body(g, i)]
    OBVIOUS
  <2> QED
    BY <2>1
<1>3. ASSUME NEW n \in Nat, n \in S PROVE n + 1 \in S
  <2>1. PICK g : g = [i \in 0..n |-> Body(g, i)]
    BY <1>3
  <2> HIDE DEF Body, More
  <2> DEFINE h == [i \in 0..(n + 1) |-> IF i = n + 1 THEN More(g[n]) ELSE g[i]]
  <2>2. \A i \in 0..n : g[i] = Body(g, i)
    BY <2>1
  <2>3. ASSUME NEW i \in 0..(n + 1) PROVE h[i] = Body(h, i)
    <3>1. CASE i = 0
      BY <2>2, <3>1 DEF Body
    <3>2. CASE i # 0
      <4>1. i - 1 \in 0..n /\ i - 1 \in 0..(n + 1) /\ i - 1 # n + 1
        BY <3>2
      <4>2. h[i - 1] = g[i - 1]
        BY <4>1
      <4>3. CASE i = n + 1
        <5>1. h[i] = More(g[n]) /\ i - 1 = n
          BY <4>3
        <5> QED
          BY <3>2, <4>2, <5>1 DEF Body
      <4>4. CASE i # n + 1
        <5>1. i \in 0..n /\ h[i] = g[i]
          BY <4>4
        <5> QED
          BY <2>2, <3>2, <4>2, <5>1 DEF Body
      <4> QED
        BY <4>3, <4>4
    <3> QED
      BY <3>1, <3>2
  <2>4. h = [i \in 0..(n + 1) |-> Body(h, i)]
    BY <2>3
  <2> HIDE DEF h
  <2> QED
    BY <2>4
<1>4. N \in S
  <2> HIDE DEF S
  <2> QED
    BY <1>1, <1>2, <1>3, SetInduction
<1>5. PICK f : f = [i \in 0..N |-> Body(f, i)]
  BY <1>4
<1> DEFINE reach == CHOOSE g : g = [i \in 0..N |-> Body(g, i)]
<1>6. reach = [i \in 0..N |-> Body(reach, i)]
  BY <1>5
<1>7. Linked = reach[N]
  BY DEF Linked
<1> HIDE DEF reach, N, More, Body
<1>8. \A i \in 0..N : reach[i] = Body(reach, i)
  BY <1>6
<1>9. reach[0] = {m_head} \ {Null}
  <2>1. 0 \in 0..N
    BY <1>1
  <2> QED
    BY <1>8, <2>1 DEF Body
<1>10. ASSUME NEW i \in 1..N PROVE reach[i] = More(reach[i - 1])
  <2>1. i \in 0..N /\ i # 0
    BY <1>1
  <2> QED
    BY <1>8, <2>1 DEF Body
<1> QED
  BY <1>7, <1>9, <1>10 DEF N, More


\* What is reached from m_head is what belongs on the list.
LEMMA LinkedIsListed ==
  ASSUME IndInv
  PROVE  Linked = Listed
<1> USE DEF IndInv
<1> DEFINE N == Cardinality(Callbacks)
<1>1. PICK g : /\ g[0] = {m_head} \ {Null}
               /\ \A i \in 1..N : g[i] = g[i - 1] \cup ({cb[c].next : c \in g[i - 1]} \ {Null})
               /\ Linked = g[N]
  BY LinkedSteps
<1>2. N \in Nat /\ Listed \subseteq Callbacks /\ IsFiniteSet(Listed) /\ Cardinality(Listed) <= N
      /\ Cardinality(Listed) \in Nat
  <2>1. Listed \subseteq Callbacks
    BY DEF Listed
  <2> QED
    BY <2>1, FS_CardinalityType, FS_Subset
<1>3. m_head # Null => m_head \in Listed
  BY DEF ListOK
<1> DEFINE S == {n \in Nat : n <= N => /\ g[n] \subseteq Listed /\ {m_head} \ {Null} \subseteq g[n]
                                       /\ g[n] = Listed \/ Cardinality(g[n]) >= n}
<1> HIDE DEF N
<1>4. 0 \in S
  <2>1. g[0] \subseteq Listed /\ IsFiniteSet(g[0])
    BY <1>1, <1>2, <1>3, FS_Subset
  <2>2. Cardinality(g[0]) >= 0
    BY <2>1, FS_CardinalityType
  <2> QED
    BY <1>1, <2>1, <2>2
<1>5. ASSUME NEW n \in Nat, n \in S PROVE n + 1 \in S
  <2> SUFFICES ASSUME n + 1 <= N
               PROVE  /\ g[n + 1] \subseteq Listed /\ {m_head} \ {Null} \subseteq g[n + 1]
                      /\ g[n + 1] = Listed \/ Cardinality(g[n + 1]) >= n + 1
    OBVIOUS
  <2>1. g[n] \subseteq Listed /\ {m_head} \ {Null} \subseteq g[n]
        /\ (g[n] = Listed \/ Cardinality(g[n]) >= n)
    BY <1>2, <1>5
  <2>2. g[n + 1] = g[n] \cup ({cb[c].next : c \in g[n]} \ {Null})
    <3>1. n + 1 \in 1..N /\ (n + 1) - 1 = n
      BY <1>2
    <3> QED
      BY <1>1, <3>1
  <2>3. g[n + 1] \subseteq Listed
    BY <2>1, <2>2 DEF ListOK
  <2>4. ASSUME g[n] # Listed PROVE Cardinality(g[n + 1]) >= n + 1
    <3>1. Listed \ g[n] \in SUBSET Listed /\ Listed \ g[n] # {}
      BY <2>1, <2>4
    <3>2. PICK d \in Listed \ g[n] : cb[d].prev \notin Listed \ g[n]
      BY <3>1 DEF NoCycle
    <3>3. cb[d].prev # Null
      BY <2>1, <3>2 DEF ListOK, Listed
    <3>4. cb[d].prev \in g[n] /\ cb[cb[d].prev].next = d /\ d # Null
      BY <3>2, <3>3, <1>2 DEF ListOK
    <3>5. d \in g[n + 1] /\ g[n] \cup {d} \subseteq g[n + 1]
      BY <2>2, <3>4
    <3>6. IsFiniteSet(g[n]) /\ IsFiniteSet(g[n + 1])
      BY <1>2, <2>1, <2>3, FS_Subset
    <3>7. Cardinality(g[n] \cup {d}) = Cardinality(g[n]) + 1
      BY <3>2, <3>6, FS_AddElement
    <3>8. Cardinality(g[n] \cup {d}) <= Cardinality(g[n + 1])
      BY <3>5, <3>6, FS_Subset
    <3>9. Cardinality(g[n]) \in Nat /\ Cardinality(g[n + 1]) \in Nat
      BY <3>6, FS_CardinalityType
    <3> QED
      BY <2>1, <2>4, <3>7, <3>8, <3>9
  <2> QED
    BY <2>1, <2>2, <2>3, <2>4
<1>6. N \in S
  <2> HIDE DEF S
  <2> QED
    BY <1>2, <1>4, <1>5, SetInduction
<1>7. g[N] \subseteq Listed /\ (g[N] = Listed \/ Cardinality(g[N]) >= N)
  BY <1>2, <1>6
<1>8. ASSUME g[N] # Listed PROVE FALSE
  <2>1. PICK d \in Listed : d \notin g[N]
    BY <1>7, <1>8
  <2>2. g[N] \subseteq Listed \ {d}
    BY <1>7, <2>1
  <2>3. IsFiniteSet(Listed \ {d}) /\ Cardinality(Listed \ {d}) = Cardinality(Listed) - 1
    BY <1>2, <2>1, FS_RemoveElement
  <2>4. Cardinality(g[N]) <= Cardinality(Listed \ {d}) /\ IsFiniteSet(g[N])
    BY <2>2, <2>3, FS_Subset
  <2>5. Cardinality(g[N]) \in Nat
    BY <2>4, FS_CardinalityType
  <2> QED
    BY <1>2, <1>7, <1>8, <2>3, <2>4, <2>5
<1> QED
  BY <1>1, <1>8

-----------------------------------------------------------------------------
\* The invariant holds initially ...
LEMMA IndInvInit == Init => IndInv
<1> SUFFICES ASSUME Init PROVE IndInv
  OBVIOUS
<1> USE DEF Init
<1>1. \A t \in Threads : th[t].req = "idle" /\ th[t].op = "idle"
  OBVIOUS
<1>2. \A c \in Callbacks : /\ cb[c].st = "none" /\ cb[c].prev = Null /\ cb[c].runs = 0
                           /\ cb[c].done = 0 /\ ~ ref[c]
  BY DEF Handles
<1>3. Taken = {} /\ Leaving = {} /\ Listed = {} /\ Holding = {}
  BY <1>1, <1>2 DEF Taken, Leaving, Listed, Holding
<1>4. TypeOK
  BY DEF TypeOK, Threading, CallbackState, Handles
<1>5. CountsOK
  <2>1. Referring = {Creator} /\ Counted = {Creator}
    BY DEF Referring, Counted, Handles
  <2>2. Cardinality(Referring) = 1 /\ Cardinality(Counted) = 1
    BY <2>1, FS_Singleton
  <2> QED
    BY <2>2 DEF CountsOK
<1>6. RequestOK /\ LockOK /\ CallOK
  BY <1>1, <1>3 DEF RequestOK, LockOK, CallOK
<1> HIDE DEF Init
<1>7. RunOK
  BY <1>1, <1>2 DEF RunOK
<1>8. ListOK /\ StopReaches
  BY <1>2, <1>3 DEF Init, ListOK, StopReaches
<1>9. NoCycle
  BY <1>3 DEF NoCycle
<1> QED
  BY <1>4, <1>5, <1>6, <1>7, <1>8, <1>9 DEF IndInv

\* ... and every step of every thread preserves it.
LEMMA IndInvStep ==
  ASSUME IndInv, [Next]_vars
  PROVE  IndInv'
<1>1. CASE Next
  <2>1. UNCHANGED setup
    BY <1>1 DEF Next
  <2>2. CASE HandleStep
    BY <2>1, <2>2, HandleInv
  <2>3. ASSUME NEW t \in Threads, Continue(t) PROVE IndInv'
    BY <2>1, <2>3, RequestInv, LockInv, RunInv, ConstructInv, DestroyInv DEF Continue
  <2>4. ASSUME NEW t \in Threads, NEW s \in setup.sources, RequestStop(t, s) PROVE IndInv'
    BY <2>1, <2>4, RequestInv
  <2>5. ASSUME NEW t \in Threads, NEW c \in setup.callbacks, NEW k \in Tokens, Construct(t, c, k)
        PROVE  IndInv'
    BY <2>1, <2>5, ConstructInv
  <2>6. ASSUME NEW t \in Threads, NEW c \in setup.callbacks, Destroy(t, c) PROVE IndInv'
    BY <2>1, <2>6, DestroyInv
  <2> QED
    BY <1>1, <2>2, <2>3, <2>4, <2>5, <2>6 DEF Next
<1>2. CASE UNCHANGED vars
  <2> USE DEF IndInv
  <2>0. /\ value' = value /\ owners' = owners /\ freed' = freed /\ m_head' = m_head
        /\ m_requester' = m_requester /\ ref' = ref /\ cb' = cb /\ th' = th /\ setup' = setup
    BY <1>2 DEF vars
  <2>1. Taken' = Taken /\ Leaving' = Leaving /\ Holding' = Holding
    BY <2>0 DEF Taken, Leaving, Holding
  <2>2. TypeOK'
    BY <2>0 DEF TypeOK
  <2>3. RequestOK' /\ CallOK'
    BY <2>0 DEF RequestOK, CallOK
  <2>4. LockOK' /\ StopReaches'
    BY <2>0, <2>1 DEF LockOK, StopReaches
  <2>5. RunOK'
    BY <2>0, <2>1 DEF RunOK
  <2> QED
    BY <2>0, <2>1, <2>2, <2>3, <2>4, <2>5, QuietFrame
<1> QED
  BY <1>1, <1>2

-----------------------------------------------------------------------------
\* The inductive invariant holds in every reachable state.
THEOREM StopInvariant == Spec => []IndInv
BY IndInvInit, IndInvStep, PTL DEF Spec

\* The intrusive list of callbacks is sound: what remove_callback concludes from
\* m_head and m_prev is right, m_prev and m_next agree, and the list holds only
\* registered callbacks, for any number of them and of threads.
THEOREM StopListSound == Spec => []ListSound
<1>1. IndInv => ListSound
  <2> SUFFICES ASSUME IndInv PROVE ListSound
    OBVIOUS
  <2>1. Linked = Listed
    BY LinkedIsListed
  <2>2. \A c \in Callbacks : ~ (\E t \in Threads : At(t, "drop") /\ th[t].arg = c) => c \notin Leaving
    BY DEF Leaving, At
  <2> QED
    BY <2>1, <2>2 DEF ListSound, IndInv, ListOK, Listed
<1> QED
  BY <1>1, StopInvariant, PTL

\* The stop_state outlives everybody inside it, and a callback outlives the
\* request_stop() that runs it, unless it is destroyed by that very thread.
THEOREM StopNoDanglingUse == Spec => []NoDanglingUse
<1>1. IndInv => NoDanglingUse
  <2> SUFFICES ASSUME IndInv PROVE NoDanglingUse
    OBVIOUS
  <2> USE DEF IndInv
  <2>1. ASSUME NEW t \in Threads, th[t].req # "idle" \/ ~ At(t, "idle") PROVE ~ freed
    <3>1. \E h \in Handles : ref[h]
      BY <2>1 DEF RequestOK, CallOK, At, Handles, TypeOK, Threading
    <3> QED
      BY <3>1, OwnedIsNotFreed
  <2> QED
    BY <2>1 DEF NoDanglingUse, CountsOK, Referring, RunOK
<1> QED
  BY <1>1, StopInvariant, PTL

\* A stop request reaches every registered callback, and none is run twice; the
\* number of sources in m_value never falls below the truth.
THEOREM StopReachesAll == Spec => []StopRunsAll
<1>1. IndInv => StopRunsAll
  <2> SUFFICES ASSUME IndInv PROVE StopRunsAll
    OBVIOUS
  <2> USE DEF IndInv
  <2>1. ASSUME value.stop, \A t \in Threads : th[t].req = "idle",
               NEW c \in Callbacks, cb[c].st = "alive", ref[c]
        PROVE  cb[c].runs = 1
    <3>1. m_head = Null
      BY <2>1 DEF StopReaches, RequestOK, TypeOK
    <3>2. Listed = {}
      <4>1. Listed \in SUBSET Listed
        OBVIOUS
      <4>2. ASSUME Listed # {} PROVE FALSE
        <5>1. PICK d \in Listed : cb[d].prev \notin Listed
          BY <4>1, <4>2 DEF NoCycle
        <5>2. d = m_head /\ d # Null
          BY <5>1 DEF ListOK, Listed
        <5> QED
          BY <3>1, <5>2
      <4> QED
        BY <4>2
    <3>3. c \notin Taken /\ c \notin Leaving
      BY <2>1 DEF Taken, Leaving, CallOK
    <3>4. cb[c].runs # 0
      BY <2>1, <3>2, <3>3 DEF Listed
    <3>5. cb[c].runs \in Nat /\ cb[c].runs <= 1
      BY DEF TypeOK, CallbackState, RunOK
    <3> QED
      BY <3>4, <3>5
  <2> QED
    BY <2>1 DEF StopRunsAll, CountsOK, Counted, RunOK
<1> QED
  BY <1>1, StopInvariant, PTL

==============================================================================
