-------------------------- MODULE CombinatorsProofs --------------------------
(***************************************************************************)
(* Proofs about all, any and some for any number of children, any number   *)
(* of results and any contexts the children end on.                        *)
(***************************************************************************)
EXTENDS Combinators, FiniteSets, FiniteSetTheorems, TLAPS

\* The children that may still count.
Uncounted ==
  {c \in Children : pc[c] \in {"unborn", "queued", "awaiting", "ended", "result", "count"}}

\* The count and the children: all() counts down the ones to come, any() and
\* some() never count more than there are (a child that skips its node does not
\* count).
CountOK ==
  /\ setup.kind = "all" => count = Cardinality(Uncounted)
  /\ setup.kind = "some" => count + Cardinality(Uncounted) <= N

\* No child runs before the parent has suspended; the parent goes on after a
\* wake; and the two kinds keep to their own steps.
ParentOK ==
  /\ wakes \in {0, 1}
  /\ parent = "running" => \A c \in Children : pc[c] \in {"unborn", "queued"}
  /\ parent = "done" => wakes = 1
  /\ setup.kind = "all" => \A c \in Children : pc[c] # "write"
  /\ setup.kind = "some" => \A c \in Children : pc[c] # "count"

\* all(): a wake was or is to be sent only when the count is 0, by one child, and
\* every result that was constructed is in its place.
AllOK ==
  setup.kind = "all" =>
    /\ \A c \in Children : pc[c] = "wake" => count = 0 /\ wakes = 0
    /\ wakes = 1 => count = 0
    /\ \A c, d \in Children : pc[c] = "wake" /\ pc[d] = "wake" => c = d
    /\ \A c \in Children : pc[c] \in {"count", "wake", "finished"} => buffer[c] = c

\* any() and some(): the ranks in use differ and are below both the count and
\* need, and the last rank is the one that wakes.
RankOK ==
  setup.kind = "some" =>
    /\ \A c \in Children : pc[c] \in {"write", "wake"} => rank[c] < count /\ rank[c] < setup.need
    /\ \A c, d \in Children :
         pc[c] \in {"write", "wake"} /\ pc[d] \in {"write", "wake"} /\ rank[c] = rank[d] => c = d
    /\ \A c \in Children : pc[c] = "wake" => rank[c] + 1 = setup.need
    /\ wakes = 1 => /\ count >= setup.need
                    /\ \A c \in Children : pc[c] # "wake" /\ (pc[c] = "write" => rank[c] + 1 # setup.need)

\* any() and some(): a slot whose rank was taken is filled or has its writer
\* still at it; no child's result is in two slots.
SlotOK ==
  setup.kind = "some" =>
    /\ \A i \in 1..setup.need : i <= count =>
         buffer[i] # Null \/ \E c \in Children : pc[c] = "write" /\ rank[c] + 1 = i
    /\ \A i \in Children : buffer[i] # Null => pc[buffer[i]] \in {"wake", "finished"}
    /\ \A i, j \in Children : buffer[i] = buffer[j] /\ buffer[i] # Null => i = j

\* any() and some(): the child that wakes the parent is the one that wrote the
\* last slot.
WakerOK ==
  /\ wakes = 1 => waker \in Children
  /\ setup.kind = "some" =>
       /\ \A c \in Children : pc[c] = "wake" => buffer[setup.need] = c
       /\ wakes = 1 => buffer[setup.need] = waker

\* Children that end on one context run their steps one after the other.
Together == \A c, d \in Children : setup.home[c] = setup.home[d]

OneInside ==
  Together =>
    /\ \A c, d \in Children : pc[c] \in Inside /\ pc[d] \in Inside => c = d
    /\ setup.kind = "some" /\ wakes = 1 => \A c \in Children : pc[c] # "write"

IndInv == /\ TypeOK /\ CountOK /\ ParentOK /\ AllOK /\ RankOK /\ SlotOK /\ WakerOK /\ OneInside
          /\ ResultCompleteUnlessApart

USE CombinatorAssumption DEF Children, Null, Goto, Inside

-----------------------------------------------------------------------------
\* Facts about the set of children that may still count.
LEMMA UncountedFinite ==
  /\ IsFiniteSet(Children) /\ Cardinality(Children) = N
  /\ IsFiniteSet(Uncounted) /\ Cardinality(Uncounted) \in Nat
  /\ IsFiniteSet(Uncounted') /\ Cardinality(Uncounted') \in Nat
<1>1. IsFiniteSet(Children) /\ Cardinality(Children) = N
  BY FS_Interval
<1>2. Uncounted \in SUBSET Children /\ Uncounted' \in SUBSET Children
  BY DEF Uncounted
<1> QED
  BY <1>1, <1>2, FS_Subset, FS_CardinalityType DEF Uncounted

\* A child that leaves the set lowers its size by one.
LEMMA UncountedLeaves ==
  ASSUME NEW c \in Children, c \in Uncounted, Uncounted' = Uncounted \ {c}
  PROVE  Cardinality(Uncounted') = Cardinality(Uncounted) - 1
BY UncountedFinite, FS_RemoveElement DEF Uncounted

\* Every initial state of the combinator satisfies the inductive invariant.
LEMMA IndInvInit == Init => IndInv
<1> SUFFICES ASSUME Init PROVE IndInv
  OBVIOUS
<1> USE DEF Init, Empty
<1>1. Uncounted = Children
  BY DEF Uncounted
<1>2. Cardinality(Uncounted) = N
  BY <1>1, UncountedFinite
<1>3. TypeOK
  BY DEF TypeOK
<1>4. CountOK
  BY <1>2 DEF CountOK
<1>5. ParentOK /\ AllOK /\ RankOK /\ SlotOK /\ WakerOK /\ OneInside
  BY DEF ParentOK, AllOK, RankOK, SlotOK, WakerOK, OneInside
<1>6. ResultCompleteUnlessApart
  BY DEF ResultCompleteUnlessApart, ResultComplete
<1> QED
  BY <1>3, <1>4, <1>5, <1>6 DEF IndInv

-----------------------------------------------------------------------------
\* Every step of the parent and of a child preserves the inductive invariant.
LEMMA IndInvStep ==
  ASSUME IndInv, [Next]_vars
  PROVE  IndInv'
<1> USE DEF IndInv
<1>1. ASSUME NEW c \in Children, UNCHANGED setup, SpawnChild(c) PROVE IndInv'
  <2> USE <1>1 DEF SpawnChild
  <2>1. TypeOK'
    BY DEF TypeOK
  <2>2. Uncounted' = Uncounted
    BY DEF TypeOK, Uncounted
  <2>3. CountOK'
    BY <2>2 DEF CountOK
  <2>4. ParentOK'
    BY DEF TypeOK, ParentOK
  <2>5. AllOK'
    BY DEF TypeOK, AllOK
  <2>6. RankOK'
    BY DEF TypeOK, RankOK
  <2>7. SlotOK'
    BY DEF TypeOK, SlotOK
  <2>w. WakerOK'
    BY DEF TypeOK, WakerOK
  <2>8. OneInside'
    BY ZenonT(60) DEF TypeOK, OneInside, Together
  <2>9. ResultCompleteUnlessApart'
    BY DEF TypeOK, ParentOK, ResultCompleteUnlessApart, ResultComplete, Apart
  <2> QED
    BY <2>1, <2>3, <2>4, <2>5, <2>6, <2>7, <2>w, <2>8, <2>9
<1>2. ASSUME NEW c \in Children, UNCHANGED setup, StartChild(c) PROVE IndInv'
  <2> USE <1>2 DEF StartChild
  <2>1. TypeOK'
    BY DEF TypeOK
  <2>2. ASSUME pc'[c] = "awaiting" PROVE CountOK'
    <3>1. Uncounted' = Uncounted
      BY <2>2 DEF TypeOK, Uncounted
    <3> QED
      BY <3>1 DEF CountOK
  <2>3. ASSUME pc'[c] # "awaiting" PROVE CountOK'
    <3>1. setup.kind = "some" /\ pc' = [pc EXCEPT ![c] = "finished"]
      BY <2>3 DEF TypeOK
    <3>2. Uncounted' = Uncounted \ {c} /\ c \in Uncounted
      BY <3>1 DEF TypeOK, Uncounted
    <3>3. Cardinality(Uncounted') = Cardinality(Uncounted) - 1
      BY <3>2, UncountedLeaves
    <3> QED
      BY <3>1, <3>3, UncountedFinite DEF TypeOK, CountOK
  <2>4. ParentOK'
    BY DEF TypeOK, ParentOK
  <2>5. AllOK'
    BY DEF TypeOK, AllOK
  <2>6. RankOK'
    BY DEF TypeOK, RankOK
  <2>7. SlotOK'
    BY DEF TypeOK, SlotOK
  <2>w. WakerOK'
    BY DEF TypeOK, WakerOK
  <2>8. OneInside'
    BY DEF TypeOK, OneInside, Together
  <2>9. ResultCompleteUnlessApart'
    BY DEF TypeOK, ParentOK, ResultCompleteUnlessApart, ResultComplete, Apart
  <2> QED
    BY <2>1, <2>2, <2>3, <2>4, <2>5, <2>6, <2>7, <2>w, <2>8, <2>9
<1>3. ASSUME NEW c \in Children, UNCHANGED setup, NodeCompletes(c) PROVE IndInv'
  <2> USE <1>3 DEF NodeCompletes
  <2>1. TypeOK'
    BY DEF TypeOK
  <2>2. Uncounted' = Uncounted
    BY DEF TypeOK, Uncounted
  <2>3. CountOK'
    BY <2>2 DEF CountOK
  <2>4. ParentOK'
    BY DEF TypeOK, ParentOK
  <2>5. AllOK'
    BY DEF TypeOK, AllOK
  <2>6. RankOK'
    BY DEF TypeOK, RankOK
  <2>7. SlotOK'
    BY DEF TypeOK, SlotOK
  <2>w. WakerOK'
    BY DEF TypeOK, WakerOK
  <2>8. OneInside'
    BY DEF TypeOK, OneInside, Together
  <2>9. ResultCompleteUnlessApart'
    BY DEF TypeOK, ParentOK, ResultCompleteUnlessApart, ResultComplete, Apart
  <2> QED
    BY <2>1, <2>3, <2>4, <2>5, <2>6, <2>7, <2>w, <2>8, <2>9
<1>4. ASSUME NEW c \in Children, UNCHANGED setup, ResumeChild(c) PROVE IndInv'
  <2> USE <1>4 DEF ResumeChild, Alone
  <2>1. TypeOK'
    BY DEF TypeOK
  <2>2. Uncounted' = Uncounted
    BY DEF TypeOK, Uncounted
  <2>3. CountOK'
    BY <2>2 DEF CountOK
  <2>4. ParentOK'
    BY DEF TypeOK, ParentOK
  <2>5. AllOK'
    BY DEF TypeOK, AllOK
  <2>6. RankOK'
    BY DEF TypeOK, RankOK
  <2>7. SlotOK'
    BY DEF TypeOK, SlotOK
  <2>w. WakerOK'
    BY DEF TypeOK, WakerOK
  <2>8. OneInside'
    BY DEF TypeOK, OneInside, Together
  <2>9. ResultCompleteUnlessApart'
    BY DEF TypeOK, ParentOK, ResultCompleteUnlessApart, ResultComplete, Apart
  <2> QED
    BY <2>1, <2>3, <2>4, <2>5, <2>6, <2>7, <2>w, <2>8, <2>9
<1>5. ASSUME NEW c \in Children, UNCHANGED setup, Construct(c) PROVE IndInv'
  <2> USE <1>5 DEF Construct
  <2>1. TypeOK'
    BY DEF TypeOK
  <2>2. Uncounted' = Uncounted
    BY DEF TypeOK, Uncounted
  <2>3. CountOK'
    BY <2>2 DEF CountOK
  <2>4. ParentOK'
    BY DEF TypeOK, ParentOK
  <2>5. AllOK'
    BY DEF TypeOK, AllOK
  <2>6. RankOK'
    BY DEF TypeOK, RankOK
  <2>7. SlotOK'
    BY DEF TypeOK, SlotOK
  <2>w. WakerOK'
    BY DEF TypeOK, WakerOK
  <2>8. OneInside'
    BY DEF TypeOK, OneInside, Together
  <2>9. ResultCompleteUnlessApart'
    BY DEF TypeOK, ParentOK, ResultCompleteUnlessApart, ResultComplete, Apart
  <2> QED
    BY <2>1, <2>3, <2>4, <2>5, <2>6, <2>7, <2>w, <2>8, <2>9
<1>6. ASSUME NEW c \in Children, UNCHANGED setup, CountDown(c) PROVE IndInv'
  <2> USE <1>6 DEF CountDown
  <2>0. setup.kind = "all"
    BY DEF TypeOK, ParentOK
  <2>1. Uncounted' = Uncounted \ {c} /\ c \in Uncounted
    BY <2>0 DEF TypeOK, Uncounted, ParentOK
  <2>2. /\ Cardinality(Uncounted) \in Nat /\ Cardinality(Uncounted') \in Nat
        /\ Cardinality(Uncounted') = Cardinality(Uncounted) - 1
    BY <2>1, UncountedLeaves, UncountedFinite
  <2>3. TypeOK' /\ CountOK'
    BY <2>0, <2>2 DEF TypeOK, CountOK
  <2>a. count >= 1
    BY <2>0, <2>2 DEF CountOK
  <2>4. ParentOK'
    BY DEF TypeOK, ParentOK
  <2>5. AllOK'
    BY <2>0, <2>a DEF TypeOK, ParentOK, AllOK
  <2>6. RankOK'
    BY <2>0 DEF TypeOK, RankOK
  <2>7. SlotOK'
    BY <2>0 DEF TypeOK, SlotOK
  <2>w. WakerOK'
    BY <2>0 DEF TypeOK, WakerOK
  <2>8. OneInside'
    BY DEF TypeOK, OneInside, Together
  <2>9. ResultCompleteUnlessApart'
    BY DEF TypeOK, ParentOK, ResultCompleteUnlessApart, ResultComplete, Apart
  <2> QED
    BY <2>3, <2>4, <2>5, <2>6, <2>7, <2>w, <2>8, <2>9
<1>7. ASSUME NEW c \in Children, UNCHANGED setup, Preempt(c) PROVE IndInv'
  <2> USE <1>7 DEF Preempt
  <2>0. setup.kind = "some"
    BY DEF TypeOK, ParentOK
  <2>1. Uncounted' = Uncounted \ {c} /\ c \in Uncounted
    BY <2>0 DEF TypeOK, Uncounted, ParentOK
  <2>2. /\ Cardinality(Uncounted) \in Nat /\ Cardinality(Uncounted') \in Nat
        /\ Cardinality(Uncounted') = Cardinality(Uncounted) - 1
    BY <2>1, UncountedLeaves, UncountedFinite
  <2>3. TypeOK' /\ CountOK'
    BY <2>0, <2>2, SMTT(40) DEF TypeOK, CountOK
  <2>4. ParentOK'
    BY DEF TypeOK, ParentOK
  <2>5. AllOK'
    BY <2>0 DEF TypeOK, AllOK
  <2>6. RankOK'
    <3>1. /\ \A d \in Children : d # c => pc'[d] = pc[d] /\ rank'[d] = rank[d]
          /\ pc'[c] \in {"write", "finished"} /\ (pc'[c] = "write" => count < setup.need)
          /\ rank'[c] = count /\ count' = count + 1 /\ wakes' = wakes
      BY DEF TypeOK
    <3>2. count \in Nat /\ setup.need \in Nat /\ \A d \in Children : rank[d] \in Nat
      <4>1. setup.need \in Nat
        BY DEF TypeOK
      <4>2. count \in Nat /\ \A d \in Children : rank[d] \in 0..N
        BY DEF TypeOK
      <4> QED
        BY <4>1, <4>2
    <3>3. \A d \in Children : pc'[d] \in {"write", "wake"} => rank'[d] < count' /\ rank'[d] < setup.need
      BY <2>0, <3>1, <3>2 DEF RankOK
    <3>4. ASSUME NEW d \in Children, NEW e \in Children,
                 pc'[d] \in {"write", "wake"}, pc'[e] \in {"write", "wake"}, rank'[d] = rank'[e]
          PROVE  d = e
      BY <2>0, <3>1, <3>2, <3>4 DEF RankOK
    <3>5. \A d \in Children : pc'[d] = "wake" => rank'[d] + 1 = setup.need
      BY <2>0, <3>1 DEF RankOK
    <3>6. wakes' = 1 => /\ count' >= setup.need
                        /\ \A d \in Children : pc'[d] # "wake" /\ (pc'[d] = "write" => rank'[d] + 1 # setup.need)
      BY <2>0, <3>1, <3>2 DEF RankOK
    <3> QED
      BY <3>3, <3>4, <3>5, <3>6 DEF RankOK
  <2>7. SlotOK'
    <3>1. \A d \in Children : pc[d] # "result" => pc'[d] = pc[d] /\ rank'[d] = rank[d]
      BY DEF TypeOK
    <3>2. count + 1 <= setup.need => pc'[c] = "write" /\ rank'[c] + 1 = count + 1
      BY DEF TypeOK
    <3>3. \A i \in 1..setup.need : i <= count' =>
            buffer'[i] # Null \/ \E d \in Children : pc'[d] = "write" /\ rank'[d] + 1 = i
      <4> SUFFICES ASSUME NEW i \in 1..setup.need, i <= count'
                   PROVE  buffer'[i] # Null \/ \E d \in Children : pc'[d] = "write" /\ rank'[d] + 1 = i
        OBVIOUS
      <4>1. CASE i <= count
        BY <2>0, <3>1, <4>1 DEF SlotOK
      <4>2. CASE i = count + 1
        BY <3>2, <4>2
      <4> QED
        BY <4>1, <4>2 DEF TypeOK
    <3>4. \A i \in Children : buffer[i] # Null => pc'[buffer[i]] \in {"wake", "finished"}
      BY <2>0, <3>1 DEF TypeOK, SlotOK
    <3> QED
      BY <2>0, <3>3, <3>4 DEF SlotOK
  <2>w. WakerOK'
    BY DEF TypeOK, WakerOK
  <2>8. OneInside'
    <3> SUFFICES ASSUME Together
                 PROVE  /\ \A d, e \in Children : pc'[d] \in Inside /\ pc'[e] \in Inside => d = e
                        /\ wakes' = 1 => \A d \in Children : pc'[d] # "write"
      BY <2>0 DEF OneInside, Together
    <3>1. \A d \in Children : /\ d # c => pc'[d] = pc[d]
                              /\ pc'[d] \in Inside => pc[d] \in Inside
                              /\ pc'[d] = "write" => pc[d] = "write" \/ count < setup.need
      BY DEF TypeOK
    <3>2. \A d, e \in Children : pc'[d] \in Inside /\ pc'[e] \in Inside => d = e
      <4>1. \A d, e \in Children : pc[d] \in Inside /\ pc[e] \in Inside => d = e
        BY DEF OneInside
      <4>2. \A d \in Children : pc'[d] \in Inside => pc[d] \in Inside
        BY <3>1
      <4> QED
        BY <4>1, <4>2
    <3>3. wakes = 1 => ~ (count < setup.need) /\ \A d \in Children : pc[d] # "write"
      BY <2>0 DEF OneInside, RankOK, TypeOK
    <3> QED
      BY <3>1, <3>2, <3>3
  <2>9. ResultCompleteUnlessApart'
    BY DEF TypeOK, ParentOK, ResultCompleteUnlessApart, ResultComplete, Apart
  <2> QED
    BY <2>3, <2>4, <2>5, <2>6, <2>7, <2>w, <2>8, <2>9
<1>8. ASSUME NEW c \in Children, UNCHANGED setup, Write(c) PROVE IndInv'
  <2> USE <1>8 DEF Write
  <2>1. TypeOK'
    BY DEF TypeOK
  <2>2. Uncounted' = Uncounted
    BY DEF TypeOK, Uncounted
  <2>3. CountOK'
    BY <2>2 DEF CountOK
  <2>4. ParentOK'
    BY DEF TypeOK, ParentOK
  <2>5. AllOK'
    BY DEF TypeOK, AllOK, ParentOK
  <2>6. RankOK'
    BY SMTT(40) DEF TypeOK, RankOK
  <2>7. SlotOK'
    <3> SUFFICES ASSUME setup.kind = "some" PROVE SlotOK'
      BY DEF SlotOK
    <3>0. PICK r : r = rank[c] + 1
      OBVIOUS
    <3>1. r \in 1..setup.need /\ r \in Children /\ c # Null
      BY <3>0 DEF TypeOK, RankOK
    <3>2. buffer'[r] = c /\ \A i \in Children : i # r => buffer'[i] = buffer[i]
      BY <3>0, <3>1 DEF TypeOK
    <3>3. pc'[c] \in {"wake", "finished"} /\ \A d \in Children : d # c => pc'[d] = pc[d]
      BY DEF TypeOK
    <3>4. \A i \in 1..setup.need : i <= count =>
            buffer'[i] # Null \/ \E d \in Children : pc'[d] = "write" /\ rank'[d] + 1 = i
      <4> SUFFICES ASSUME NEW i \in 1..setup.need, i <= count, i # r
                   PROVE  buffer'[i] # Null \/ \E d \in Children : pc'[d] = "write" /\ rank'[d] + 1 = i
        BY <3>1, <3>2
      <4>1. i \in Children
        BY DEF TypeOK
      <4>2. buffer[i] # Null \/ \E d \in Children : d # c /\ pc[d] = "write" /\ rank[d] + 1 = i
        BY <3>0 DEF SlotOK
      <4> QED
        BY <4>1, <4>2, <3>2, <3>3
    <3>5. \A i \in Children : buffer[i] \in Children \cup {Null}
      BY DEF TypeOK
    <3>6. \A i \in Children : buffer[i] # c
      BY <3>1, <3>5 DEF SlotOK
    <3>7. \A i \in Children : buffer'[i] # Null => pc'[buffer'[i]] \in {"wake", "finished"}
      <4> SUFFICES ASSUME NEW i \in Children, buffer'[i] # Null
                   PROVE  pc'[buffer'[i]] \in {"wake", "finished"}
        OBVIOUS
      <4>1. CASE i = r
        BY <3>2, <3>3, <4>1
      <4>2. CASE i # r
        <5>1. buffer'[i] = buffer[i] /\ buffer[i] \in Children /\ buffer[i] # c
          BY <3>2, <3>5, <3>6, <4>2
        <5>2. pc[buffer[i]] \in {"wake", "finished"}
          BY <5>1 DEF SlotOK
        <5> QED
          BY <5>1, <5>2, <3>3
      <4> QED
        BY <4>1, <4>2
    <3>8. \A i, j \in Children : buffer'[i] = buffer'[j] /\ buffer'[i] # Null => i = j
      BY <3>1, <3>2, <3>6 DEF SlotOK
    <3> QED
      BY <3>4, <3>7, <3>8 DEF SlotOK
  <2>w. WakerOK'
    <3> SUFFICES ASSUME setup.kind = "some" PROVE WakerOK'
      BY DEF TypeOK, ParentOK, WakerOK
    <3>1. setup.need \in 1..N /\ buffer \in [Children -> Children \cup {Null}] /\ rank[c] \in Nat
      BY DEF TypeOK
    <3>2. pc'[c] = "wake" => buffer'[setup.need] = c
      BY <3>1 DEF TypeOK
    <3>3. (\E d \in Children : d # c /\ pc[d] = "wake") => rank[c] + 1 # setup.need
      <4> SUFFICES ASSUME NEW d \in Children, d # c, pc[d] = "wake", rank[c] + 1 = setup.need
                   PROVE  FALSE
        OBVIOUS
      <4>1. rank[d] \in Nat /\ rank[d] + 1 = setup.need
        BY DEF RankOK, TypeOK
      <4>2. rank[c] = rank[d]
        BY <3>1, <4>1
      <4> QED
        BY <4>2 DEF RankOK
    <3>4. wakes = 1 => rank[c] + 1 # setup.need
      BY DEF RankOK
    <3>5. rank[c] + 1 # setup.need => buffer'[setup.need] = buffer[setup.need]
      BY <3>1
    <3>6. \A d \in Children : d # c => pc'[d] = pc[d]
      BY DEF TypeOK
    <3>7. \A d \in Children : pc'[d] = "wake" => buffer'[setup.need] = d
      BY <3>2, <3>3, <3>5, <3>6 DEF WakerOK
    <3> QED
      BY <3>4, <3>5, <3>7 DEF WakerOK
  <2>8. OneInside'
    BY DEF TypeOK, OneInside, Together
  <2>9. ResultCompleteUnlessApart'
    BY DEF TypeOK, ParentOK, ResultCompleteUnlessApart, ResultComplete, Apart
  <2> QED
    BY <2>1, <2>3, <2>4, <2>5, <2>6, <2>7, <2>w, <2>8, <2>9
<1>9. ASSUME NEW c \in Children, UNCHANGED setup, Wake(c) PROVE IndInv'
  <2> USE <1>9 DEF Wake
  <2>1. TypeOK'
    BY DEF TypeOK
  <2>2. Uncounted' = Uncounted
    BY DEF TypeOK, Uncounted
  <2>3. CountOK'
    BY <2>2 DEF CountOK
  <2>4. ParentOK'
    BY DEF TypeOK, ParentOK, AllOK, RankOK
  <2>5. AllOK'
    BY DEF TypeOK, AllOK
  <2>6. RankOK'
    BY SMTT(40) DEF TypeOK, RankOK
  <2>7. SlotOK'
    BY DEF TypeOK, SlotOK
  <2>w. WakerOK'
    BY DEF TypeOK, AllOK, RankOK, WakerOK
  <2>8. OneInside'
    BY DEF TypeOK, OneInside, Together
  <2>9. ResultCompleteUnlessApart'
    BY DEF TypeOK, ParentOK, AllOK, RankOK, ResultCompleteUnlessApart, ResultComplete, Apart
  <2> QED
    BY <2>1, <2>3, <2>4, <2>5, <2>6, <2>7, <2>w, <2>8, <2>9
<1>10. ASSUME UNCHANGED setup, Forget PROVE IndInv'
  <2> USE <1>10 DEF Forget
  <2>1. TypeOK'
    BY DEF TypeOK
  <2>2. Uncounted' = Uncounted
    BY DEF TypeOK, Uncounted
  <2>3. CountOK'
    BY <2>2 DEF CountOK
  <2>4. ParentOK'
    BY DEF TypeOK, ParentOK
  <2>5. AllOK'
    BY DEF TypeOK, AllOK
  <2>6. RankOK'
    BY DEF TypeOK, RankOK
  <2>7. SlotOK'
    BY DEF TypeOK, SlotOK
  <2>w. WakerOK'
    BY DEF TypeOK, WakerOK
  <2>8. OneInside'
    BY DEF TypeOK, OneInside, Together
  <2>9. ResultCompleteUnlessApart'
    BY DEF TypeOK, ParentOK, ResultCompleteUnlessApart, ResultComplete, Apart
  <2> QED
    BY <2>1, <2>3, <2>4, <2>5, <2>6, <2>7, <2>w, <2>8, <2>9
<1>11. ASSUME UNCHANGED setup, ResumeParent PROVE IndInv'
  <2> USE <1>11 DEF ResumeParent
  <2>1. TypeOK'
    BY DEF TypeOK
  <2>2. Uncounted' = Uncounted
    BY DEF TypeOK, Uncounted
  <2>3. CountOK'
    BY <2>2 DEF CountOK
  <2>4. ParentOK'
    BY DEF TypeOK, ParentOK
  <2>5. AllOK'
    BY DEF TypeOK, AllOK
  <2>6. RankOK'
    BY DEF TypeOK, RankOK
  <2>7. SlotOK'
    BY DEF TypeOK, SlotOK
  <2>w. WakerOK'
    BY DEF TypeOK, WakerOK
  <2>8. OneInside'
    BY DEF TypeOK, OneInside, Together
  <2>9. ResultCompleteUnlessApart'
    <3> SUFFICES ASSUME ~ Apart' PROVE ResultComplete'
      BY DEF ResultCompleteUnlessApart
    <3>0. wakes = 1
      BY DEF ParentOK
    <3>1. ASSUME Together PROVE Unordered = {}
      BY <3>0, <3>1 DEF Together, Unordered, TypeOK, WakerOK
    <3>2. CASE setup.kind = "all"
      <4>1. count = 0 /\ Cardinality(Uncounted) = 0
        BY <3>0, <3>2 DEF AllOK, CountOK
      <4>2. Uncounted = {}
        BY <4>1, UncountedFinite, FS_EmptySet
      <4>3. \A d \in Children : buffer[d] = d
        <5> TAKE d \in Children
        <5>1. d \notin Uncounted
          BY <4>2
        <5>2. pc[d] \in {"wake", "finished"}
          BY <3>2, <5>1 DEF TypeOK, ParentOK, Uncounted
        <5> QED
          BY <3>2, <5>2 DEF AllOK
      <4>4. setup.need = N /\ Together
        BY <3>2 DEF Apart, Together, TypeOK
      <4>5. result' = [i \in Children |-> buffer[i]]
        BY <3>1, <4>4
      <4> QED
        BY <4>3, <4>4, <4>5 DEF ResultComplete
    <3>3. CASE setup.kind = "some"
      <4>1. \A d \in Children : pc[d] # "write"
        <5>1. CASE setup.need = 1
          BY <3>0, <3>3, <5>1 DEF RankOK, TypeOK
        <5>2. CASE Together
          BY <3>0, <3>3, <5>2 DEF OneInside
        <5> QED
          BY <3>3, <5>1, <5>2 DEF Apart, Together, TypeOK
      <4>2. \A i \in 1..setup.need : buffer[i] # Null
        BY <3>0, <3>3, <4>1 DEF RankOK, SlotOK, TypeOK
      <4>3. \A i \in 1..setup.need : i \notin Unordered
        <5>1. CASE setup.need = 1
          BY <3>0, <3>3, <5>1 DEF Unordered, WakerOK
        <5>2. CASE Together
          BY <3>1, <5>2
        <5> QED
          BY <5>1, <5>2 DEF Apart, Together, TypeOK
      <4>4. setup.need \in 1..N
        BY DEF TypeOK
      <4>5. \A i \in 1..setup.need : result'[i] = buffer[i]
        BY <4>3, <4>4
      <4> QED
        <5>1. \A i \in 1..setup.need : i \in Children
          BY <4>4
        <5>2. \A i, j \in 1..setup.need : buffer[i] = buffer[j] => i = j
          BY <3>3, <4>2, <5>1 DEF SlotOK
        <5>3. /\ \A i \in 1..setup.need : result'[i] # Null
              /\ \A i, j \in 1..setup.need : result'[i] = result'[j] => i = j
          BY <4>2, <4>5, <5>2, Zenon
        <5>4. setup' = setup
          OBVIOUS
        <5> QED
          BY <5>3, <5>4, Zenon DEF ResultComplete
    <3> QED
      BY <3>2, <3>3 DEF TypeOK
  <2> QED
    BY <2>1, <2>3, <2>4, <2>5, <2>6, <2>7, <2>w, <2>8, <2>9
<1>12. CASE UNCHANGED vars
  <2>1. Uncounted' = Uncounted
    BY <1>12 DEF vars, Uncounted
  <2> QED
    BY <2>1, <1>12 DEF vars, TypeOK, CountOK, ParentOK, AllOK, RankOK, SlotOK, WakerOK, OneInside, Together,
                      ResultCompleteUnlessApart, ResultComplete, Apart
<1> QED
  BY <1>1, <1>2, <1>3, <1>4, <1>5, <1>6, <1>7, <1>8, <1>9, <1>10, <1>11, <1>12 DEF Next, Child

-----------------------------------------------------------------------------
\* The inductive invariant holds in every reachable state.
THEOREM CombinatorInvariant == Spec => []IndInv
BY IndInvInit, IndInvStep, PTL DEF Spec

\* co_spawn_handle(await_handle) is called once at most, and not before the
\* parent has suspended with lazy::forget(): for any number of children, on any
\* contexts (when_all.hpp, when_any.hpp).
THEOREM ParentWokenOnce == Spec => []ParentResumedOnce
<1>1. IndInv => ParentResumedOnce
  <2> SUFFICES ASSUME IndInv PROVE ParentResumedOnce
    OBVIOUS
  <2>1. wakes = 1 => parent # "running"
    <3> SUFFICES ASSUME wakes = 1, parent = "running" PROVE FALSE
      OBVIOUS
    <3>1. \A c \in Children : pc[c] \in {"unborn", "queued"}
      BY DEF IndInv, ParentOK
    <3>2. Uncounted = Children
      BY <3>1 DEF Uncounted
    <3>3. Cardinality(Uncounted) = N
      BY <3>2, UncountedFinite
    <3> QED
      BY <3>3 DEF IndInv, TypeOK, CountOK, AllOK, RankOK
  <2> QED
    BY <2>1 DEF IndInv, ParentOK, ParentResumedOnce
<1> QED
  BY <1>1, CombinatorInvariant, PTL

\* any() returns the result of one child wherever the children end; all() and
\* some() return `need' results of different children if they end on one context.
THEOREM ResultsComplete == Spec => []ResultCompleteUnlessApart
<1>1. IndInv => ResultCompleteUnlessApart
  BY DEF IndInv
<1> QED
  BY <1>1, CombinatorInvariant, PTL

\* Once the parent of all() goes on, no child will touch the count and the buffer
\* in its frame.
THEOREM MetaOutlivesChildren == Spec => []NoChildTouchesDeadMeta
<1>1. IndInv => NoChildTouchesDeadMeta
  <2> SUFFICES ASSUME IndInv, setup.kind = "all", parent = "done"
               PROVE  \A c \in Children : pc[c] = "finished"
    BY DEF NoChildTouchesDeadMeta
  <2>1. wakes = 1 /\ count = 0 /\ Cardinality(Uncounted) = 0
    BY DEF IndInv, ParentOK, AllOK, CountOK
  <2>2. Uncounted = {}
    BY <2>1, UncountedFinite, FS_EmptySet
  <2>3. \A c \in Children : pc[c] # "wake" /\ pc[c] # "write"
    BY <2>1 DEF IndInv, ParentOK, AllOK
  <2>4. \A c \in Children : c \notin Uncounted
    BY <2>2
  <2> QED
    BY <2>3, <2>4 DEF IndInv, TypeOK, Uncounted
<1> QED
  BY <1>1, CombinatorInvariant, PTL
=============================================================================
