-------------------------- MODULE CoroutinesProofs --------------------------
(***************************************************************************)
(* Proofs about Coroutines: for any numbers of tasks and generators, nested *)
(* to any depth, and any layout of a generator's frame.                    *)
(***************************************************************************)
EXTENDS Coroutines, TLAPS

-----------------------------------------------------------------------------
(***************************************************************************)
(* The blocks of a generator's frame.                                      *)
(***************************************************************************)

\* A quotient names the greatest multiple that is not above the dividend.
LEMMA Quotient ==
  ASSUME NEW d \in Nat \ {0}, NEW x \in Nat
  PROVE  /\ x \div d \in Nat /\ (x \div d) * d \in Nat
         /\ (x \div d) * d <= x /\ x < (x \div d) * d + d
         /\ \A k \in Nat : k * d <= x => k * d <= (x \div d) * d
<1>1. /\ x \div d \in Nat /\ (x \div d) * d \in Nat
      /\ (x \div d) * d <= x /\ x < (x \div d) * d + d
  OBVIOUS
<1>2. ASSUME NEW k \in Nat, k * d <= x PROVE k * d <= (x \div d) * d
  <2>1. PICK q \in Nat : q = x \div d
    BY <1>1
  <2>2. x < (q + 1) * d
    BY <1>1, <2>1
  <2>3. k < q + 1
    <3> SUFFICES ASSUME k >= q + 1 PROVE FALSE
      OBVIOUS
    <3>1. k * d >= (q + 1) * d
      OBVIOUS
    <3> QED
      BY <1>2, <2>2, <3>1
  <2>4. k * d <= q * d
    BY <2>3
  <2> QED
    BY <2>1, <2>4
<1> QED
  BY <1>1, <1>2

\* What leaves no remainder is a multiple.
LEMMA Multiple ==
  ASSUME NEW d \in Nat \ {0}, NEW x \in Nat
  PROVE  x % d = 0 <=> \E k \in Nat : x = k * d
<1>1. ASSUME x % d = 0 PROVE \E k \in Nat : x = k * d
  <2>1. x \div d \in Nat /\ x = (x \div d) * d
    BY <1>1
  <2> QED
    BY <2>1
<1>2. ASSUME NEW k \in Nat, x = k * d PROVE x % d = 0
  BY <1>2
<1> QED
  BY <1>1, <1>2

\* Aligning an address yields the least multiple that is not below it.
LEMMA AlignUpLeast ==
  ASSUME NEW d \in Nat \ {0}, NEW x \in Nat
  PROVE  /\ AlignUp(x, d) \in Nat /\ x <= AlignUp(x, d) /\ AlignUp(x, d) <= x + d - 1
         /\ \E k \in Nat : AlignUp(x, d) = k * d
         /\ \A k \in Nat : x <= k * d => AlignUp(x, d) <= k * d
<1> DEFINE y == x + d - 1
<1>1. y \in Nat /\ AlignUp(x, d) = (y \div d) * d
  BY DEF AlignUp
<1> HIDE DEF y
<1>2. /\ y \div d \in Nat /\ (y \div d) * d \in Nat /\ (y \div d) * d <= y /\ y < (y \div d) * d + d
  BY <1>1, Quotient
<1>3. x <= AlignUp(x, d) /\ AlignUp(x, d) <= x + d - 1
  BY <1>1, <1>2 DEF y
<1>4. ASSUME NEW k \in Nat, x <= k * d PROVE AlignUp(x, d) <= k * d
  <2>1. PICK q \in Nat : q = y \div d
    BY <1>2
  <2>2. q * d <= y /\ y < k * d + d
    BY <1>2, <1>4, <2>1 DEF y
  <2>3. q * d < (k + 1) * d
    BY <1>1, <2>2
  <2>4. q < k + 1
    <3> SUFFICES ASSUME q >= k + 1 PROVE FALSE
      OBVIOUS
    <3>1. q * d >= (k + 1) * d
      OBVIOUS
    <3> QED
      BY <2>3, <3>1
  <2>5. q * d <= k * d
    BY <2>4
  <2> QED
    BY <1>1, <2>1, <2>5
<1> QED
  BY <1>1, <1>2, <1>3, <1>4
\* _Allocate asks for enough blocks, puts the allocator where it is aligned and
\* fits, and operator delete finds it there: for every layout.
LEMMA LayoutFits ==
  ASSUME NEW l, IsLayout(l)
  PROVE  LET extra == l.ptr + l.size + FnRoom(l.erased)
             end   == l.ptr + Count(l.erased, l.al, l.size) * BlockSize
             at    == StoredAt(l.erased, l.al, l.ptr, l.size)
         IN  /\ extra <= end
             /\ l.al.stored => /\ extra <= at /\ at + l.al.size <= end
                               /\ at % l.al.align = 0
                               /\ LoadedFrom(l.erased, l.al, l.ptr, l.size) = at
             /\ DeallocCount(l.erased, l.al, l.size) = Count(l.erased, l.al, l.size)
<1> DEFINE B == BlockSize
           A == l.al.align
           s == l.al.size
           p == l.ptr
           x == l.size + FnRoom(l.erased)
           at == StoredAt(l.erased, l.al, l.ptr, l.size)
           count == Count(l.erased, l.al, l.size)
<1>1. /\ B \in Nat \ {0} /\ A \in Nat \ {0} /\ s \in Nat /\ p \in Nat /\ x \in Nat /\ l.size \in Nat
      /\ s % A = 0 /\ p % B = 0 /\ (A % B = 0 \/ B % A = 0)
  BY AllocAssumption DEF IsLayout, FnRoom
<1>2. /\ l.ptr + l.size + FnRoom(l.erased) = p + x
      /\ at = AlignUp(p + x, A)
      /\ Align(l.al) = IF A > B THEN A ELSE B
      /\ count = IF l.al.stored THEN (x + s + Align(l.al) - 1) \div B ELSE (x + B - 1) \div B
  BY <1>1, AllocAssumption DEF StoredAt, Count, Align, FnRoom
<1>3. /\ LoadedFrom(l.erased, l.al, l.ptr, l.size) = at
      /\ DeallocCount(l.erased, l.al, l.size) = count
  BY <1>1, AllocAssumption DEF LoadedFrom, StoredAt, DeallocCount, Count, FnRoom, IsLayout
<1> HIDE DEF B, A, s, p, x, at, count
<1>4. PICK i \in Nat, j \in Nat : s = i * A /\ p = j * B
  BY <1>1, Multiple, ZenonT(60)
<1>5. /\ at \in Nat /\ p + x <= at /\ at <= p + x + A - 1 /\ \E k \in Nat : at = k * A
      /\ \A k \in Nat : p + x <= k * A => at <= k * A
  <2>1. p + x \in Nat
    BY <1>1
  <2> QED
    BY <1>1, <1>2, <2>1, AlignUpLeast
<1>6. at % A = 0
  BY <1>1, <1>5, Multiple
<1>7. ASSUME NEW a \in Nat, NEW b \in Nat, a >= B - 1, b = a \div B
      PROVE  b \in Nat /\ b * B \in Nat /\ a - (B - 1) <= b * B
             /\ \A k \in Nat : k * B <= a => k * B <= b * B
  BY <1>1, <1>7, Quotient
<1>8. ASSUME ~ l.al.stored PROVE p + x <= p + count * B
  <2> DEFINE a == x + B - 1
  <2>1. a \in Nat /\ a >= B - 1 /\ count = a \div B /\ a - (B - 1) = x /\ a \div B \in Nat
    BY <1>1, <1>2, <1>8, Quotient
  <2> HIDE DEF a
  <2>2. x <= count * B /\ count * B \in Nat
    BY <1>7, <2>1
  <2> QED
    BY <1>1, <2>2
<1>9. ASSUME l.al.stored, B % A = 0 PROVE at + s <= p + count * B
  <2>1. PICK k \in Nat : B = k * A
    BY <1>1, <1>9, Multiple
  <2>2. k # 0
    BY <1>1, <2>1
  <2>3. B >= A
    BY <1>1, <2>1, <2>2
  <2>4. Align(l.al) = B
    BY <1>1, <1>2, <2>3
  <2> DEFINE a == x + s + B - 1
  <2>5. a \in Nat /\ a >= B - 1 /\ count = a \div B /\ a - (B - 1) = x + s /\ a \div B \in Nat
    BY <1>1, <1>2, <1>9, <2>4, Quotient
  <2> HIDE DEF a
  <2>6. x + s <= count * B /\ count * B \in Nat /\ count \in Nat
    BY <1>7, <2>5
  <2>7. PICK c \in Nat : c = count
    BY <2>6
  \* The end of the blocks less the allocator is a multiple of A, and not below p + x.
  <2>8. (p + c * B) - s = ((j * k + c * k) - i) * A
    BY <1>1, <1>4, <2>1
  <2>9. (p + c * B) - s >= p + x /\ p + x \in Nat /\ (p + c * B) - s >= 0
    BY <1>1, <2>6, <2>7
  <2>10. (j * k + c * k) - i \in Nat
    <3>1. PICK m \in Int : m = (j * k + c * k) - i
      OBVIOUS
    <3>2. m * A >= 0
      BY <2>8, <2>9, <3>1
    <3>3. m >= 0
      BY <1>1, <3>2
    <3> QED
      BY <3>1, <3>3
  <2>11. PICK m \in Nat : m = (j * k + c * k) - i
    BY <2>10
  <2>12. (p + c * B) - s = m * A /\ p + x <= m * A
    BY <2>8, <2>9, <2>11
  <2>13. at <= m * A
    BY <1>5, <2>12
  <2> QED
    BY <1>1, <1>5, <2>6, <2>7, <2>12, <2>13
<1>10. ASSUME l.al.stored, A % B = 0 PROVE at + s <= p + count * B
  <2>1. PICK k \in Nat : A = k * B
    BY <1>1, <1>10, Multiple
  <2>2. k # 0
    BY <1>1, <2>1
  <2>3. A >= B
    BY <1>1, <2>1, <2>2
  <2>4. Align(l.al) = A
    BY <1>1, <1>2, <2>3
  <2> DEFINE a == x + s + A - 1
  <2>5. a \in Nat /\ a >= B - 1 /\ count = a \div B /\ a \div B \in Nat
    <3>1. a \in Nat /\ a >= B - 1
      BY <1>1, <2>3
    <3>2. count = a \div B
      BY <1>2, <1>10, <2>4
    <3> HIDE DEF a
    <3> QED
      BY <1>1, <3>1, <3>2, Quotient
  <2>6. at + s - p <= a
    BY <1>1, <1>5
  <2> HIDE DEF a
  <2>7. count \in Nat /\ count * B \in Nat /\ \A q \in Nat : q * B <= a => q * B <= count * B
    BY <1>7, <2>5
  \* The end of the allocator is a multiple of B from the start of the blocks.
  <2>8. PICK n \in Nat : at = n * A
    BY <1>5
  <2>9. at + s - p = (n * k + i * k - j) * B
    BY <1>1, <1>4, <2>1, <2>8
  <2>10. n * k + i * k - j \in Nat
    <3>1. PICK m \in Int : m = n * k + i * k - j
      OBVIOUS
    <3>2. m * B >= 0
      BY <1>1, <1>5, <2>9, <3>1
    <3>3. m >= 0
      BY <1>1, <3>2
    <3> QED
      BY <3>1, <3>3
  <2>11. PICK m \in Nat : m = n * k + i * k - j
    BY <2>10
  <2>12. at + s - p = m * B
    BY <2>9, <2>11
  <2>13. at + s - p <= count * B
    BY <2>6, <2>7, <2>12
  <2> QED
    BY <1>1, <1>5, <2>7, <2>13
<1>11. ASSUME l.al.stored PROVE at + s <= p + count * B /\ p + x <= p + count * B
  <2>1. at + s <= p + count * B
    BY <1>1, <1>9, <1>10, <1>11
  <2>2. count \in Nat /\ count * B \in Int
    <3>1. x + s + Align(l.al) - 1 \in Nat
      BY <1>1, <1>2
    <3> QED
      BY <1>1, <1>2, <1>11, <3>1, Quotient
  <2> QED
    BY <1>1, <1>5, <2>1, <2>2
<1> QED
  BY <1>2, <1>3, <1>5, <1>6, <1>8, <1>11 DEF B, A, s, p, x, at, count

\* A program keeps the setup it started with.
LEMMA SetupKept == Spec => [](setup \in Setups)
<1>1. Init => setup \in Setups
  BY DEF Init
<1>2. setup \in Setups /\ [Next]_vars => (setup \in Setups)'
  BY DEF Next, vars
<1> QED
  BY <1>1, <1>2, PTL DEF Spec

\* Whatever the allocator's size and alignment and the size of the frame, the
\* frame, _Dealloc_fn and the allocator fit in the blocks operator new asked for,
\* and operator delete finds the allocator and gives back as many blocks.
THEOREM GeneratorFrameFits == Spec => []FrameBlocksFit
<1>1. setup \in Setups => FrameBlocksFit
  BY SetupAssumption, LayoutFits DEF FrameBlocksFit
<1> QED
  BY <1>1, SetupKept, PTL

-----------------------------------------------------------------------------
(***************************************************************************)
(* The tasks.                                                              *)
(***************************************************************************)
Active == {"running", "awaiting", "waiting", "finishing", "resuming"}

\* What the two properties need to be inductive: who started a coroutine is
\* suspended in the await of it, and a started one is owned by who awaits it.
FrameLinks(f) ==
  /\ task[f].st = "none" =>
       task[f].owner = NoTask /\ task[f].parent_coro = NoTask /\ task[f].outcome = "mono"
  /\ task[f].st = "initial" => task[f].parent_coro = NoTask /\ task[f].kind # "trival"
  /\ task[f].st \in Active =>
       /\ task[f].parent_coro = NoTask <=> task[f].outcome = "detached"
       /\ task[f].parent_coro # NoTask => /\ task[task[f].parent_coro].st = "awaiting"
                                          /\ task[task[f].parent_coro].child = f
       /\ task[f].owner # NoTask => task[f].parent_coro = task[f].owner
  /\ f \in ready /\ task[f].st = "initial" => task[f].outcome = "detached"
  /\ task[f].kind = "value" => task[f].outcome # "detached"
  /\ task[f].st \in {"awaiting", "resuming"} => task[f].child # NoTask

TaskLinks == \A f \in Tasks : FrameLinks(f)

TaskInv == FramesOwned /\ ResumesTheRight /\ TaskLinks

TaskRec == [st : Places, kind : Kinds, outcome : Outcomes,
            parent_coro : Tasks \cup {NoTask}, owner : Tasks \cup {NoTask},
            param : BOOLEAN, child : Tasks \cup {NoTask}, want : BOOLEAN]

TaskStates == [Tasks -> TaskRec]

\* Every field names a frame or nobody.
LEMMA TaskFields ==
  ASSUME FramesOwned, NEW k \in Tasks
  PROVE  /\ task[k].owner \in Tasks \cup {NoTask} /\ task[k].child \in Tasks \cup {NoTask}
         /\ task[k].parent_coro \in Tasks \cup {NoTask} /\ task[k].st \in Places
BY DEF FramesOwned, TaskTypeOK

\* Steps that leave the frames alone.
LEMMA TaskSame ==
  ASSUME TaskInv, UNCHANGED <<task, cur, ready>>, exc' \in BOOLEAN, ended' \in BOOLEAN
  PROVE  TaskInv'
<1> USE DEF TaskInv
<1>1. FramesOwned'
  BY DEF FramesOwned, TaskTypeOK, Live
<1>2. ResumesTheRight'
  BY DEF ResumesTheRight
<1>3. TaskLinks'
  BY DEF TaskLinks, FrameLinks
<1> QED
  BY <1>1, <1>2, <1>3

\* The worker resumes a coroutine: a new one is detached and has no parent.
LEMMA ResumeReadyStep ==
  ASSUME TaskInv, NEW f \in Tasks, ResumeReady(f)
  PROVE  TaskInv'
<1> USE TaskAssumption DEF TaskInv
<1>1. task' = [task EXCEPT ![f].st = "running"] /\ task \in TaskStates
  BY DEF ResumeReady, FramesOwned, TaskTypeOK, TaskRec, TaskStates
<1>2. task' \in TaskStates
  <2>1. [task[f] EXCEPT !.st = "running"] \in TaskRec
    BY <1>1 DEF TaskRec, TaskStates, Places
  <2> QED
    BY <1>1, <2>1 DEF TaskStates
<1>3. TaskTypeOK'
  BY <1>2 DEF TaskTypeOK, ResumeReady, FramesOwned, TaskRec, TaskStates
<1>4. /\ \A k \in Tasks : k # f => task'[k] = task[k]
      /\ task'[f].st = "running" /\ task'[f].kind = task[f].kind /\ task'[f].outcome = task[f].outcome
      /\ task'[f].parent_coro = task[f].parent_coro /\ task'[f].owner = task[f].owner
      /\ task'[f].param = task[f].param /\ task'[f].child = task[f].child
  BY <1>1 DEF TaskRec, TaskStates
<1>5. FramesOwned'
  BY <1>3, <1>4 DEF FramesOwned, Live, ResumeReady, ResumesTheRight, TaskLinks, FrameLinks
<1>6. ResumesTheRight'
  BY <1>4 DEF ResumesTheRight, ResumeReady, TaskLinks, FrameLinks
<1>7. TaskLinks'
  BY <1>4, TaskFields DEF ResumesTheRight, ResumeReady, TaskLinks, FrameLinks, Active, FramesOwned, Live
<1> QED
  BY <1>5, <1>6, <1>7

\* A call makes a frame that the caller owns, and that owns what is moved into it.
LEMMA CallStep ==
  ASSUME TaskInv, NEW f \in Tasks, NEW h \in Tasks, NEW kind \in Kinds, NEW args \in SUBSET Owned(f),
         Call(f, h, kind, args)
  PROVE  TaskInv'
<1> USE TaskAssumption DEF TaskInv
<1>0. /\ cur = f /\ task[f].st = "running" /\ task[h].st = "none" /\ task[h].owner = NoTask
      /\ kind # "trival" /\ h \notin args /\ h # f /\ args \subseteq Tasks
      /\ cur' = cur /\ ready' = ready
      /\ \A k \in args : task[k].owner = f /\ task[k].st \notin Active
  <2>1. /\ cur = f /\ task[f].st = "running" /\ task[h].st = "none" /\ kind # "trival" /\ h # f
        /\ cur' = cur /\ ready' = ready
    BY DEF Call, Runs
  <2>2. args \subseteq Tasks /\ \A k \in args : task[k].owner = f
    BY DEF Owned
  <2>3. task[h].owner = NoTask /\ h \notin args
    BY <2>1, <2>2 DEF TaskLinks, FrameLinks
  <2>4. \A k \in args : task[k].st \notin Active
    BY <2>1, <2>2 DEF TaskLinks, FrameLinks
  <2> QED
    BY <2>1, <2>2, <2>3, <2>4
<1>1. task \in TaskStates /\ task' = [k \in Tasks |->
       IF k = h THEN [task[h] EXCEPT !.st = "initial", !.kind = kind, !.owner = f]
       ELSE IF k \in args THEN [task[k] EXCEPT !.owner = h, !.param = TRUE]
       ELSE task[k]]
  BY DEF Call, FramesOwned, TaskTypeOK, TaskRec, TaskStates
<1>2. task' \in TaskStates
  <2>1. [task[h] EXCEPT !.st = "initial", !.kind = kind, !.owner = f] \in TaskRec
    BY <1>1, ZenonT(60) DEF TaskRec, Places, TaskStates
  <2>2. \A k \in Tasks : [task[k] EXCEPT !.owner = h, !.param = TRUE] \in TaskRec /\ task[k] \in TaskRec
    BY <1>1 DEF TaskRec, TaskStates
  <2> QED
    BY <1>1, <2>1, <2>2 DEF TaskStates
<1>3. TaskTypeOK'
  BY <1>2 DEF TaskTypeOK, Call, FramesOwned, TaskRec, TaskStates
<1>4. /\ \A k \in Tasks : k # h /\ k \notin args => task'[k] = task[k]
      /\ task'[h].st = "initial" /\ task'[h].kind = kind /\ task'[h].outcome = task[h].outcome
      /\ task'[h].parent_coro = task[h].parent_coro /\ task'[h].owner = f
      /\ task'[h].child = task[h].child
      /\ \A k \in args : /\ task'[k].st = task[k].st /\ task'[k].kind = task[k].kind
                         /\ task'[k].outcome = task[k].outcome /\ task'[k].child = task[k].child
                         /\ task'[k].parent_coro = task[k].parent_coro /\ task'[k].owner = h
                         /\ task'[k].param
  <2>1. \A k \in Tasks : k # h /\ k \notin args => task'[k] = task[k]
    BY <1>1
  <2>2. /\ task'[h] = [task[h] EXCEPT !.st = "initial", !.kind = kind, !.owner = f]
        /\ task[h] \in TaskRec
    BY <1>1 DEF TaskStates
  <2>3. \A k \in args : /\ task'[k] = [task[k] EXCEPT !.owner = h, !.param = TRUE]
                         /\ task[k] \in TaskRec
    BY <1>0, <1>1 DEF TaskStates
  <2>4. /\ task'[h].st = "initial" /\ task'[h].kind = kind /\ task'[h].outcome = task[h].outcome
        /\ task'[h].parent_coro = task[h].parent_coro /\ task'[h].owner = f
        /\ task'[h].child = task[h].child
    BY <2>2 DEF TaskRec
  <2>5. ASSUME NEW k \in args
        PROVE  /\ task'[k].st = task[k].st /\ task'[k].kind = task[k].kind
               /\ task'[k].outcome = task[k].outcome /\ task'[k].child = task[k].child
               /\ task'[k].parent_coro = task[k].parent_coro /\ task'[k].owner = h
               /\ task'[k].param
    BY <2>3, ZenonT(60) DEF TaskRec
  <2> QED
    BY <2>1, <2>4, <2>5
<1>5. FramesOwned'
  BY <1>0, <1>3, <1>4, TaskFields DEF FramesOwned, Live, Places, Active, TaskLinks, FrameLinks
<1>6. ResumesTheRight'
  <2>1. /\ \A k \in Tasks : k # h => /\ task'[k].st = task[k].st /\ task'[k].kind = task[k].kind
                                     /\ task'[k].child = task[k].child
                                     /\ task'[k].parent_coro = task[k].parent_coro
        /\ task'[h].st = "initial"
    BY <1>4
  <2> QED
    BY <1>0, <2>1, TaskFields DEF ResumesTheRight, TaskLinks, FrameLinks
<1>7. TaskLinks'
  <2>1. \A k \in Tasks : k # h => /\ task'[k].st = task[k].st /\ task'[k].kind = task[k].kind
                                  /\ task'[k].child = task[k].child
                                  /\ task'[k].parent_coro = task[k].parent_coro
                                  /\ task'[k].outcome = task[k].outcome
                                  /\ task[k].st \in Active => task'[k].owner = task[k].owner
                                  /\ task[k].st = "none" => task'[k].owner = task[k].owner
    BY <1>0, <1>4 DEF FramesOwned, Live, Active
  <2>2. task'[h].st = "initial" /\ task'[h].outcome = "mono" /\ task'[h].kind = kind
        /\ task'[h].parent_coro = NoTask /\ h \notin ready
    BY <1>0, <1>4 DEF TaskLinks, FrameLinks, ResumesTheRight
  <2> QED
    BY <1>0, <2>1, <2>2, TaskFields DEF TaskLinks, FrameLinks, Active
<1> QED
  BY <1>5, <1>6, <1>7

\* co_await starts a child: the awaiter is suspended in the await of it.
LEMMA AwaitStartStep ==
  ASSUME TaskInv, NEW f \in Tasks, NEW h \in Tasks, NEW want \in BOOLEAN, AwaitStart(f, h, want)
  PROVE  TaskInv'
<1> USE TaskAssumption DEF TaskInv
<1>0. /\ cur = f /\ cur' = h /\ task[f].st = "running" /\ task[h].st = "initial" /\ task[h].owner = f
      /\ h # f /\ h \notin ready /\ ready' = ready /\ task[h].outcome # "detached"
      /\ task[h].parent_coro = NoTask
  BY DEF AwaitStart, Runs, Owned, TaskLinks, FrameLinks, FramesOwned, Live
<1>1. task \in TaskStates /\
      task' = [task EXCEPT ![f].st = "awaiting", ![f].child = h, ![f].want = want,
                           ![h].st = "running", ![h].parent_coro = f]
  BY DEF AwaitStart, FramesOwned, TaskTypeOK, TaskRec, TaskStates
<1>2. task' \in TaskStates
  <2>1. [task[f] EXCEPT !.st = "awaiting", !.child = h, !.want = want] \in TaskRec
    <3>0. task[f] \in TaskRec
      BY <1>1 DEF TaskStates
    <3>1. [task[f] EXCEPT !.st = "awaiting", !.child = h, !.want = TRUE] \in TaskRec
      BY <3>0 DEF TaskRec, Places
    <3>2. [task[f] EXCEPT !.st = "awaiting", !.child = h, !.want = FALSE] \in TaskRec
      BY <3>0 DEF TaskRec, Places
    <3> QED
      BY <3>1, <3>2, Zenon
  <2>2. [task[h] EXCEPT !.st = "running", !.parent_coro = f] \in TaskRec
    BY <1>1 DEF TaskRec, Places, TaskStates
  <2>3. task' = [task EXCEPT ![f] = [task[f] EXCEPT !.st = "awaiting", !.child = h, !.want = want],
                             ![h] = [task[h] EXCEPT !.st = "running", !.parent_coro = f]]
    BY <1>0, <1>1 DEF TaskStates
  <2> QED
    BY <1>1, <2>1, <2>2, <2>3 DEF TaskStates
<1>3. TaskTypeOK'
  BY <1>0, <1>2 DEF TaskTypeOK, AwaitStart, FramesOwned, TaskRec, TaskStates
<1>4. /\ \A k \in Tasks : k # h /\ k # f => task'[k] = task[k]
      /\ task'[f].st = "awaiting" /\ task'[f].kind = task[f].kind /\ task'[f].outcome = task[f].outcome
      /\ task'[f].parent_coro = task[f].parent_coro /\ task'[f].owner = task[f].owner
      /\ task'[f].param = task[f].param /\ task'[f].child = h
      /\ task'[h].st = "running" /\ task'[h].kind = task[h].kind /\ task'[h].outcome = task[h].outcome
      /\ task'[h].parent_coro = f /\ task'[h].owner = task[h].owner
      /\ task'[h].param = task[h].param /\ task'[h].child = task[h].child
  BY <1>0, <1>1 DEF TaskRec, TaskStates
<1>5. FramesOwned'
  BY <1>0, <1>3, <1>4, TaskFields DEF FramesOwned, Live, Places
<1>6. ResumesTheRight'
  BY <1>0, <1>4, TaskFields DEF ResumesTheRight, TaskLinks, FrameLinks
<1>7. TaskLinks'
  BY <1>0, <1>4 DEF ResumesTheRight, TaskLinks, FrameLinks, Active, FramesOwned, TaskTypeOK
<1> QED
  BY <1>5, <1>6, <1>7

\* The same for a trival_task, which nobody owns.
LEMMA AwaitTrivalStep ==
  ASSUME TaskInv, NEW f \in Tasks, NEW h \in Tasks, AwaitTrival(f, h)
  PROVE  TaskInv'
<1> USE TaskAssumption DEF TaskInv
<1>0. /\ cur = f /\ cur' = h /\ task[f].st = "running" /\ task[h].st = "none" /\ task[h].owner = NoTask
      /\ h # f /\ h \notin ready /\ ready' = ready /\ task[h].outcome = "mono"
  BY DEF AwaitTrival, Runs, TaskLinks, FrameLinks, ResumesTheRight
<1>1. task \in TaskStates /\
      task' = [task EXCEPT ![f].st = "awaiting", ![f].child = h, ![f].want = FALSE,
                           ![h].st = "running", ![h].kind = "trival", ![h].parent_coro = f]
  BY DEF AwaitTrival, FramesOwned, TaskTypeOK, TaskRec, TaskStates
<1>2. task' \in TaskStates
  <2>0. task[f] \in TaskRec /\ task[h] \in TaskRec
    BY <1>1 DEF TaskStates
  <2>1. [task[f] EXCEPT !.st = "awaiting", !.child = h, !.want = FALSE] \in TaskRec
    BY <2>0 DEF TaskRec, Places
  <2>2. [task[h] EXCEPT !.st = "running", !.kind = "trival", !.parent_coro = f] \in TaskRec
    BY <2>0 DEF TaskRec, Places, Kinds
  <2>3. task' = [task EXCEPT ![f] = [task[f] EXCEPT !.st = "awaiting", !.child = h, !.want = FALSE],
                             ![h] = [task[h] EXCEPT !.st = "running", !.kind = "trival",
                                                    !.parent_coro = f]]
    BY <1>0, <1>1 DEF TaskStates
  <2> QED
    BY <1>1, <2>1, <2>2, <2>3, ZenonT(60) DEF TaskStates
<1>3. TaskTypeOK'
  BY <1>0, <1>2, SMTT(40) DEF TaskTypeOK, AwaitTrival, FramesOwned, TaskRec, TaskStates
<1>4. /\ \A k \in Tasks : k # h /\ k # f => task'[k] = task[k]
      /\ task'[f].st = "awaiting" /\ task'[f].kind = task[f].kind /\ task'[f].outcome = task[f].outcome
      /\ task'[f].parent_coro = task[f].parent_coro /\ task'[f].owner = task[f].owner
      /\ task'[f].param = task[f].param /\ task'[f].child = h
      /\ task'[h].st = "running" /\ task'[h].kind = "trival" /\ task'[h].outcome = task[h].outcome
      /\ task'[h].parent_coro = f /\ task'[h].owner = task[h].owner
      /\ task'[h].param = task[h].param /\ task'[h].child = task[h].child
  BY <1>0, <1>1 DEF TaskRec, TaskStates
<1>5. FramesOwned'
  BY <1>0, <1>3, <1>4, TaskFields DEF FramesOwned, Live, Places
<1>6. ResumesTheRight'
  BY <1>0, <1>4, TaskFields DEF ResumesTheRight, TaskLinks, FrameLinks
<1>7. TaskLinks'
  BY <1>0, <1>4 DEF ResumesTheRight, TaskLinks, FrameLinks, Active, FramesOwned, TaskTypeOK
<1> QED
  BY <1>5, <1>6, <1>7

\* co_spawn: the frame leaves its task object and owns itself.
LEMMA SpawnStep ==
  ASSUME TaskInv, NEW f \in Tasks, NEW h \in Tasks, Spawn(f, h)
  PROVE  TaskInv'
<1> USE TaskAssumption DEF TaskInv
<1>0. /\ cur' = cur /\ task[h].st = "initial" /\ task[h].kind = "void" /\ ready' = ready \cup {h}
      /\ task[h].parent_coro = NoTask
  BY DEF Spawn, Runs, TaskLinks, FrameLinks
<1>1. task \in TaskStates /\ task' = [task EXCEPT ![h].outcome = "detached", ![h].owner = NoTask]
  BY DEF Spawn, FramesOwned, TaskTypeOK, TaskRec, TaskStates
<1>2. task' \in TaskStates
  <2>1. [task[h] EXCEPT !.outcome = "detached", !.owner = NoTask] \in TaskRec
    BY <1>1 DEF TaskRec, Outcomes, TaskStates
  <2> QED
    BY <1>1, <2>1 DEF TaskStates
<1>3. TaskTypeOK'
  BY <1>0, <1>2 DEF TaskTypeOK, Spawn, FramesOwned, TaskRec, TaskStates
<1>4. /\ \A k \in Tasks : k # h => task'[k] = task[k]
      /\ task'[h].st = "initial" /\ task'[h].kind = "void" /\ task'[h].outcome = "detached"
      /\ task'[h].parent_coro = task[h].parent_coro /\ task'[h].owner = NoTask
      /\ task'[h].child = task[h].child
  BY <1>0, <1>1 DEF TaskRec, TaskStates
<1>5. FramesOwned'
  BY <1>0, <1>3, <1>4, TaskFields DEF FramesOwned, Live, Places
<1>6. ResumesTheRight'
  BY <1>0, <1>4, TaskFields DEF ResumesTheRight, TaskLinks, FrameLinks
<1>7. TaskLinks'
  BY <1>0, <1>4 DEF ResumesTheRight, TaskLinks, FrameLinks, Active, FramesOwned, TaskTypeOK
<1> QED
  BY <1>5, <1>6, <1>7

\* A coroutine is suspended for I/O.
LEMMA AwaitIoStep ==
  ASSUME TaskInv, NEW f \in Tasks, AwaitIo(f)
  PROVE  TaskInv'
<1> USE TaskAssumption DEF TaskInv
<1>0. cur = f /\ cur' = NoTask /\ task[f].st = "running" /\ ready' = ready
  BY DEF AwaitIo, Runs
<1>1. task \in TaskStates /\ task' = [task EXCEPT ![f].st = "waiting"]
  BY DEF AwaitIo, FramesOwned, TaskTypeOK, TaskRec, TaskStates
<1>2. task' \in TaskStates
  <2>1. [task[f] EXCEPT !.st = "waiting"] \in TaskRec
    BY <1>1 DEF TaskRec, Places, TaskStates
  <2> QED
    BY <1>1, <2>1 DEF TaskStates
<1>3. TaskTypeOK'
  BY <1>0, <1>2 DEF TaskTypeOK, AwaitIo, FramesOwned, TaskRec, TaskStates
<1>4. /\ \A k \in Tasks : k # f => task'[k] = task[k]
      /\ task'[f].st = "waiting" /\ task'[f].kind = task[f].kind /\ task'[f].outcome = task[f].outcome
      /\ task'[f].parent_coro = task[f].parent_coro /\ task'[f].owner = task[f].owner
      /\ task'[f].param = task[f].param /\ task'[f].child = task[f].child
  BY <1>0, <1>1 DEF TaskRec, TaskStates
<1>5. FramesOwned'
  BY <1>0, <1>3, <1>4, TaskFields DEF FramesOwned, Live, Places
<1>6. ResumesTheRight'
  BY <1>0, <1>4, TaskFields DEF ResumesTheRight, TaskLinks, FrameLinks
<1>7. TaskLinks'
  BY <1>0, <1>4 DEF ResumesTheRight, TaskLinks, FrameLinks, Active, FramesOwned, TaskTypeOK
<1> QED
  BY <1>5, <1>6, <1>7

\* The completion of the I/O makes it ready.
LEMMA IoCompletesStep ==
  ASSUME TaskInv, NEW f \in Tasks, IoCompletes(f)
  PROVE  TaskInv'
<1> USE DEF TaskInv, IoCompletes
<1>1. FramesOwned'
  BY DEF FramesOwned, TaskTypeOK, Live
<1>2. ResumesTheRight'
  BY DEF ResumesTheRight
<1>3. TaskLinks'
  BY DEF TaskLinks, FrameLinks
<1> QED
  BY <1>1, <1>2, <1>3

\* await_resume: the parent goes on with the result of its child.
LEMMA AwaitResumeStep ==
  ASSUME TaskInv, NEW f \in Tasks, AwaitResume(f)
  PROVE  TaskInv'
<1> USE TaskAssumption DEF TaskInv
<1>0. cur = f /\ cur' = f /\ task[f].st = "resuming" /\ ready' = ready
  BY DEF AwaitResume
<1>1. task \in TaskStates /\ task' = [task EXCEPT ![f].st = "running", ![f].child = NoTask]
  BY DEF AwaitResume, FramesOwned, TaskTypeOK, TaskRec, TaskStates
<1>2. task' \in TaskStates
  <2>1. [task[f] EXCEPT !.st = "running", !.child = NoTask] \in TaskRec
    BY <1>1, ZenonT(60) DEF TaskRec, Places, TaskStates
  <2> QED
    BY <1>1, <2>1 DEF TaskStates
<1>3. TaskTypeOK'
  <2>1. exc' \in BOOLEAN
    BY <1>1 DEF AwaitResume, TaskStates, TaskRec
  <2> QED
    BY <1>0, <1>2, <2>1 DEF TaskTypeOK, AwaitResume, FramesOwned, TaskRec, TaskStates
<1>4. /\ \A k \in Tasks : k # f => task'[k] = task[k]
      /\ task'[f].st = "running" /\ task'[f].kind = task[f].kind /\ task'[f].outcome = task[f].outcome
      /\ task'[f].parent_coro = task[f].parent_coro /\ task'[f].owner = task[f].owner
      /\ task'[f].param = task[f].param
  BY <1>0, <1>1 DEF TaskRec, TaskStates
<1>5. FramesOwned'
  BY <1>0, <1>3, <1>4, TaskFields DEF FramesOwned, Live, Places
<1>6. ResumesTheRight'
  BY <1>0, <1>4, TaskFields DEF ResumesTheRight, TaskLinks, FrameLinks
<1>7. TaskLinks'
  BY <1>0, <1>4 DEF ResumesTheRight, TaskLinks, FrameLinks, Active, FramesOwned, TaskTypeOK
<1> QED
  BY <1>5, <1>6, <1>7

(***************************************************************************)
(* Destroying frames.  The owned frames that are not started, or done:     *)
(* nobody else refers to them.                                             *)
(***************************************************************************)
Idle == {k \in Tasks : task[k].owner # NoTask /\ task[k].st \in {"initial", "final"}}

\* Whoever does not await owns idle frames only.
LEMMA OwnedIdle ==
  ASSUME TaskInv, NEW h \in Tasks, task[h].st # "awaiting"
  PROVE  Owned(h) \subseteq Idle
<1> USE TaskAssumption DEF TaskInv
<1> SUFFICES ASSUME NEW k \in Tasks, task[k].owner = h PROVE k \in Idle
  BY DEF Owned
<1>1. task[k].st \notin {"none", "destroyed"} /\ task[k].st \in Places
  BY TaskFields DEF FramesOwned, Live
<1>2. task[k].st \notin Active
  BY DEF TaskLinks, FrameLinks, Active
<1> QED
  BY <1>1, <1>2 DEF Places, Active, Idle

\* handle.destroy() destroys all that is owned below, and nothing else: idle
\* frames if it starts from idle ones, or from a coroutine that does not await.
LEMMA DestroyedFrames ==
  ASSUME TaskInv, NEW frames \in SUBSET Tasks
  PROVE  /\ frames \subseteq WithOwned(frames) /\ WithOwned(frames) \subseteq Tasks
         /\ \A h \in WithOwned(frames) : Owned(h) \subseteq WithOwned(frames)
         /\ frames \subseteq Idle => WithOwned(frames) \subseteq Idle
         /\ \A f \in Tasks : frames = {f} /\ task[f].st # "awaiting" => WithOwned(frames) \subseteq Idle \cup {f}
<1> DEFINE D == WithOwned(frames)
           IsClosed(W) == \A h \in W : Owned(h) \subseteq W
<1>1. /\ D \subseteq Tasks
      /\ \A k \in Tasks : k \in D <=> \A W \in SUBSET Tasks : frames \subseteq W /\ IsClosed(W) => k \in W
  BY DEF WithOwned
<1>2. Idle \subseteq Tasks /\ \A h \in Idle : Owned(h) \subseteq Idle
  BY OwnedIdle DEF Idle
<1>3. frames \subseteq D
  BY <1>1
<1>4. ASSUME NEW h \in D, NEW k \in Owned(h) PROVE k \in D
  <2>1. k \in Tasks /\ h \in Tasks
    BY <1>1 DEF Owned
  <2>2. ASSUME NEW W \in SUBSET Tasks, frames \subseteq W, IsClosed(W) PROVE k \in W
    <3>1. h \in W
      BY <1>1, <2>1, <2>2
    <3> QED
      BY <2>2, <3>1
  <2> QED
    BY <1>1, <2>1, <2>2
<1>5. ASSUME frames \subseteq Idle PROVE D \subseteq Idle
  BY <1>1, <1>2, <1>5
<1>6. ASSUME NEW f \in Tasks, frames = {f}, task[f].st # "awaiting" PROVE D \subseteq Idle \cup {f}
  <2>1. Owned(f) \subseteq Idle
    BY <1>6, OwnedIdle
  <2>2. IsClosed(Idle \cup {f}) /\ Idle \cup {f} \in SUBSET Tasks /\ frames \subseteq Idle \cup {f}
    BY <1>2, <1>6, <2>1
  <2> HIDE DEF D, IsClosed
  <2> QED
    BY <1>1, <2>2
<1> QED
  BY <1>1, <1>3, <1>4, <1>5, <1>6

\* What becomes of the frames.
LEMMA DestroyingFields ==
  ASSUME task \in TaskStates, NEW frames \in SUBSET Tasks, NEW d, d = Destroying(frames)
  PROVE  /\ d \in TaskStates
         /\ \A k \in Tasks \ WithOwned(frames) : d[k] = task[k]
         /\ \A k \in Tasks \cap WithOwned(frames) :
              /\ d[k].st = "destroyed" /\ d[k].owner = NoTask
              /\ d[k].kind = task[k].kind /\ d[k].outcome = task[k].outcome
              /\ d[k].parent_coro = task[k].parent_coro /\ d[k].param = task[k].param
              /\ d[k].child = task[k].child
<1> DEFINE D == WithOwned(frames)
<1>1. d = [h \in Tasks |-> IF h \in D THEN [task[h] EXCEPT !.st = "destroyed", !.owner = NoTask]
                           ELSE task[h]]
  BY DEF Destroying
<1> HIDE DEF D
<1>2. ASSUME NEW k \in Tasks PROVE task[k] \in TaskRec
  BY DEF TaskStates
<1>3. ASSUME NEW k \in Tasks PROVE [task[k] EXCEPT !.st = "destroyed", !.owner = NoTask] \in TaskRec
  BY <1>2 DEF TaskRec, Places
<1>4. d \in TaskStates
  BY <1>1, <1>2, <1>3 DEF TaskStates
<1>5. \A k \in Tasks \ D : d[k] = task[k]
  BY <1>1
<1>6. ASSUME NEW k \in Tasks \cap D
      PROVE  /\ d[k].st = "destroyed" /\ d[k].owner = NoTask
             /\ d[k].kind = task[k].kind /\ d[k].outcome = task[k].outcome
             /\ d[k].parent_coro = task[k].parent_coro /\ d[k].param = task[k].param
             /\ d[k].child = task[k].child
  <2>1. d[k] = [task[k] EXCEPT !.st = "destroyed", !.owner = NoTask] /\ task[k] \in TaskRec
    BY <1>1, <1>2
  <2> QED
    BY <2>1 DEF TaskRec
<1> QED
  BY <1>4, <1>5, <1>6 DEF D

\* ~task(): the coroutine destroys a task object of its own.
LEMMA DestroyStep ==
  ASSUME TaskInv, NEW f \in Tasks, NEW h \in Tasks, Destroy(f, h)
  PROVE  TaskInv'
<1> USE TaskAssumption DEF TaskInv
<1> DEFINE D == WithOwned({h})
<1>0. /\ cur = f /\ task[f].st = "running" /\ h \in Owned(f) /\ ready' = ready /\ cur' = cur
      /\ task' = Destroying({h})
  BY DEF Destroy, Runs
<1>1. {h} \subseteq Idle
  BY <1>0, OwnedIdle
<1>2. /\ D \subseteq Idle /\ \A k \in D : Owned(k) \subseteq D
  BY <1>1, DestroyedFrames
<1>3. task \in TaskStates
  BY DEF FramesOwned, TaskTypeOK, TaskRec, TaskStates
<1>4. /\ task' \in TaskStates
      /\ \A k \in Tasks \ D : task'[k] = task[k]
      /\ \A k \in Tasks \cap D :
              /\ task'[k].st = "destroyed" /\ task'[k].owner = NoTask
              /\ task'[k].kind = task[k].kind /\ task'[k].outcome = task[k].outcome
              /\ task'[k].parent_coro = task[k].parent_coro /\ task'[k].param = task[k].param
              /\ task'[k].child = task[k].child
  BY <1>0, <1>3, DestroyingFields
<1>5. TaskTypeOK'
  <2>1. task' \in TaskStates /\ exc' = exc /\ ended' = ended
    BY <1>4 DEF Destroy
  <2> QED
    BY <1>0, <2>1 DEF TaskTypeOK, FramesOwned, TaskRec, TaskStates
<1>6. /\ \A k \in D : task[k].owner # NoTask /\ task[k].st \in {"initial", "final"}
      /\ \A i \in Tasks : i \notin D => task[i].owner \notin D
      /\ D \subseteq Tasks
  BY <1>2 DEF Idle, Owned
<1> HIDE DEF D
<1>7. /\ \A k \in Tasks : k \notin D => task'[k] = task[k]
      /\ \A k \in D : task'[k].st = "destroyed" /\ task'[k].owner = NoTask
      /\ \A k \in Tasks : task'[k].kind = task[k].kind /\ task'[k].outcome = task[k].outcome
      /\ \A k \in D : k \notin ready
  <2>1. \A k \in D : k \notin ready
    BY <1>6 DEF TaskLinks, FrameLinks, ResumesTheRight, FramesOwned, Live
  <2> QED
    BY <1>4, <1>6, <2>1
<1>8. FramesOwned'
  BY <1>5, <1>6, <1>7, TaskFields DEF FramesOwned, Live
<1>9. ResumesTheRight'
  <2> SUFFICES ASSUME NEW k \in Tasks
               PROVE  /\ task'[k].st = "awaiting" =>
                           /\ task'[task'[k].child].parent_coro = k
                           /\ task'[task'[k].child].st \in Active
                      /\ k \in ready' => task'[k].st \in {"initial", "waiting"}
                      /\ task'[k].st \in {"running", "finishing", "resuming"} <=> cur' = k
                      /\ task'[k].st # "resuming"
    BY DEF ResumesTheRight, Active
  <2>1. CASE k \in D
    BY <1>0, <1>6, <1>7, <2>1
  <2>2. CASE k \notin D
    <3>1. task'[k] = task[k] /\ task[k].st # "resuming"
      BY <1>0, <1>7, <2>2 DEF ResumesTheRight
    <3>2. ASSUME task[k].st = "awaiting" PROVE task'[task[k].child] = task[task[k].child]
      BY <1>6, <1>7, <3>2, TaskFields DEF ResumesTheRight, TaskLinks, FrameLinks
    <3> QED
      BY <1>0, <1>7, <3>1, <3>2 DEF ResumesTheRight, Active
  <2> QED
    BY <2>1, <2>2
<1>10. TaskLinks'
  <2>1. ASSUME NEW k \in Tasks, k \notin D, task[k].st \in Active, task[k].parent_coro # NoTask
        PROVE  task'[task[k].parent_coro] = task[task[k].parent_coro]
    BY <1>6, <1>7, <2>1, TaskFields DEF TaskLinks, FrameLinks
  <2>2. ASSUME NEW k \in Tasks, k \in D PROVE FrameLinks(k)'
    BY <1>7, <2>2 DEF TaskLinks, FrameLinks, Active
  <2>3. ASSUME NEW k \in Tasks, k \notin D PROVE FrameLinks(k)'
    <3>1. task'[k] = task[k]
      BY <1>7, <2>3
    <3> QED
      BY <1>0, <2>1, <2>3, <3>1 DEF TaskLinks, FrameLinks, Active
  <2> QED
    BY <2>2, <2>3 DEF TaskLinks
<1> QED
  BY <1>8, <1>9, <1>10

\* A body is left: its locals are destroyed, its parameters stay.
LEMMA LeaveBodyStep ==
  ASSUME TaskInv, NEW f \in Tasks, cur = f, task[f].st = "running", NEW o \in Outcomes,
         o = "detached" <=> task[f].outcome = "detached", LeaveBody(f, o),
         UNCHANGED <<cur, ready>>, exc' \in BOOLEAN, ended' \in BOOLEAN
  PROVE  TaskInv'
<1> USE TaskAssumption DEF TaskInv
<1> DEFINE F == {h \in Owned(f) : ~ task[h].param}
           D == WithOwned(F)
           d == Destroying(F)
<1>0. task' = [d EXCEPT ![f].st = "finishing", ![f].outcome = o]
  BY DEF LeaveBody
<1>1. F \subseteq Idle /\ F \in SUBSET Tasks
  BY OwnedIdle DEF Owned
<1>2. D \subseteq Idle /\ F \subseteq D /\ \A k \in D : Owned(k) \subseteq D
  BY <1>1, DestroyedFrames
<1>3. task \in TaskStates
  BY DEF FramesOwned, TaskTypeOK, TaskRec, TaskStates
<1>4. /\ \A k \in D : task[k].owner # NoTask /\ task[k].st \in {"initial", "final"}
      /\ \A i \in Tasks : i \notin D => task[i].owner \notin D
      /\ \A i \in Tasks : i \notin D /\ task[i].owner = f => task[i].param
      /\ D \subseteq Tasks /\ f \notin D
  BY <1>2 DEF Idle, Owned
<1>5. /\ d \in TaskStates
      /\ \A k \in Tasks : k \notin D => d[k] = task[k]
      /\ \A k \in D : /\ d[k].st = "destroyed" /\ d[k].owner = NoTask
                      /\ d[k].kind = task[k].kind /\ d[k].outcome = task[k].outcome
  BY <1>1, <1>3, <1>4, DestroyingFields
<1> HIDE DEF D, d, F
<1>6. task' \in TaskStates
  <2>1. [d[f] EXCEPT !.st = "finishing", !.outcome = o] \in TaskRec
    BY <1>5, ZenonT(60) DEF TaskStates, TaskRec, Places
  <2> QED
    BY <1>0, <1>5, <2>1 DEF TaskStates
<1>7. TaskTypeOK'
  BY <1>6 DEF TaskTypeOK, FramesOwned, TaskRec, TaskStates
<1>8. /\ \A k \in Tasks : k \notin D /\ k # f => task'[k] = task[k]
      /\ \A k \in D : /\ task'[k].st = "destroyed" /\ task'[k].owner = NoTask
                      /\ task'[k].kind = task[k].kind /\ task'[k].outcome = task[k].outcome
      /\ task'[f].st = "finishing" /\ task'[f].outcome = o /\ task'[f].kind = task[f].kind
      /\ task'[f].owner = task[f].owner /\ task'[f].param = task[f].param
      /\ task'[f].parent_coro = task[f].parent_coro
  <2>1. /\ \A k \in Tasks : k # f => task'[k] = d[k]
        /\ task'[f] = [d[f] EXCEPT !.st = "finishing", !.outcome = o]
        /\ d[f] = task[f] /\ task[f] \in TaskRec
    BY <1>0, <1>3, <1>4, <1>5 DEF TaskStates
  <2>2. /\ task'[f].st = "finishing" /\ task'[f].outcome = o /\ task'[f].kind = task[f].kind
        /\ task'[f].owner = task[f].owner /\ task'[f].param = task[f].param
        /\ task'[f].parent_coro = task[f].parent_coro
    BY <2>1 DEF TaskRec
  <2> QED
    BY <1>4, <1>5, <2>1, <2>2
<1>9. \A k \in D : k \notin ready
  BY <1>4 DEF TaskLinks, FrameLinks, ResumesTheRight, FramesOwned, Live
<1>10. FramesOwned'
  BY <1>4, <1>7, <1>8, TaskFields DEF FramesOwned, Live
<1>11. ResumesTheRight'
  <2> SUFFICES ASSUME NEW k \in Tasks
               PROVE  /\ task'[k].st = "awaiting" =>
                           /\ task'[task'[k].child].parent_coro = k
                           /\ task'[task'[k].child].st \in Active
                      /\ k \in ready' => task'[k].st \in {"initial", "waiting"}
                      /\ task'[k].st \in {"running", "finishing", "resuming"} <=> cur' = k
                      /\ task'[k].st # "resuming"
    BY DEF ResumesTheRight, Active
  <2>1. CASE k \in D
    BY <1>4, <1>8, <1>9, <2>1
  <2>2. CASE k \notin D /\ k # f
    <3>1. task'[k] = task[k] /\ task[k].st # "resuming"
      BY <1>8, <2>2 DEF ResumesTheRight
    <3>2. ASSUME task[k].st = "awaiting" PROVE task[k].child \in Tasks /\ task[k].child \notin D
      BY <1>4, <3>2, TaskFields DEF ResumesTheRight, TaskLinks, FrameLinks
    <3>3. ASSUME task[k].st = "awaiting"
          PROVE  /\ task'[task[k].child].parent_coro = task[task[k].child].parent_coro
                 /\ task'[task[k].child].st \in {task[task[k].child].st, "finishing"}
      BY <1>8, <3>2, <3>3
    <3> QED
      BY <2>2, <3>1, <3>3 DEF ResumesTheRight, Active
  <2>3. CASE k = f
    BY <1>8, <2>3 DEF ResumesTheRight
  <2> QED
    BY <2>1, <2>2, <2>3
<1>12. TaskLinks'
  <2>1. ASSUME NEW k \in Tasks, k \notin D, task[k].st \in Active, task[k].parent_coro # NoTask
        PROVE  task'[task[k].parent_coro] = task[task[k].parent_coro]
    BY <1>4, <1>8, <2>1, TaskFields DEF TaskLinks, FrameLinks
  <2>2. ASSUME NEW k \in D PROVE FrameLinks(k)'
    BY <1>4, <1>8, <2>2 DEF TaskLinks, FrameLinks, Active
  <2>3. ASSUME NEW k \in Tasks, k \notin D, k # f PROVE FrameLinks(k)'
    <3>1. task'[k] = task[k]
      BY <1>8, <2>3
    <3> QED
      BY <2>1, <2>3, <3>1 DEF TaskLinks, FrameLinks, Active
  <2>4. FrameLinks(f)'
    BY <1>4, <1>8, <2>1 DEF TaskLinks, FrameLinks, Active
  <2> QED
    BY <2>2, <2>3, <2>4 DEF TaskLinks
<1> QED
  BY <1>10, <1>11, <1>12

\* co_return, and an exception that leaves the body.
LEMMA LeaveStepStep ==
  ASSUME TaskInv, NEW f \in Tasks, LeaveStep(f)
  PROVE  TaskInv'
<1> USE DEF TaskInv
<1>1. task[f].outcome \in Outcomes /\ exc \in BOOLEAN /\ ended \in BOOLEAN
      /\ (task[f].kind = "value" => task[f].outcome # "detached")
  BY DEF FramesOwned, TaskTypeOK, TaskLinks, FrameLinks
<1>2. CASE Return(f)
  <2> DEFINE o == IF task[f].kind = "value" THEN "value" ELSE task[f].outcome
  <2>1. LeaveBody(f, o) /\ cur = f /\ task[f].st = "running" /\ UNCHANGED <<cur, exc, ready, ended>>
    BY <1>2 DEF Return, Runs
  <2>2. o \in Outcomes /\ (o = "detached" <=> task[f].outcome = "detached")
    BY <1>1 DEF Outcomes
  <2> HIDE DEF o
  <2> QED
    BY <1>1, <2>1, <2>2, LeaveBodyStep
<1>3. CASE Unhandled(f)
  <2> DEFINE o == IF task[f].outcome = "detached" \/ task[f].kind = "trival"
                  THEN task[f].outcome ELSE "exception"
  <2>1. LeaveBody(f, o) /\ cur = f /\ task[f].st = "running" /\ UNCHANGED <<cur, ready>> /\ exc' \in BOOLEAN
    BY <1>3 DEF Unhandled
  <2>2. o \in Outcomes /\ (o = "detached" <=> task[f].outcome = "detached")
    BY <1>1 DEF Outcomes
  <2>3. ended' \in BOOLEAN
    BY <1>3 DEF Unhandled
  <2> HIDE DEF o
  <2> QED
    BY <2>1, <2>2, <2>3, LeaveBodyStep
<1> QED
  BY <1>2, <1>3 DEF LeaveStep

\* At final_suspend a coroutine destroys itself or stays for its owner, and
\* control goes to the parent, which has been waiting for just this.
LEMMA FinalSuspendStep ==
  ASSUME TaskInv, NEW f \in Tasks, FinalSuspend(f)
  PROVE  TaskInv'
<1> USE TaskAssumption DEF TaskInv
<1> DEFINE self == task[f].outcome = "detached" \/ task[f].kind = "trival"
           up == task[f].parent_coro
           D == IF self THEN WithOwned({f}) ELSE {}
           d == IF self THEN Destroying({f}) ELSE [task EXCEPT ![f].st = "final"]
<1>0. /\ cur = f /\ task[f].st = "finishing" /\ cur' = up /\ ready' = ready /\ exc' = exc /\ ended' = ended
      /\ task' = [h \in Tasks |-> IF h = up THEN [d[h] EXCEPT !.st = "resuming"] ELSE d[h]]
  BY DEF FinalSuspend, ParentGoesOn
<1>1. task \in TaskStates
  BY DEF FramesOwned, TaskTypeOK, TaskRec, TaskStates
<1>2. /\ \A k \in D : k = f \/ (task[k].owner # NoTask /\ task[k].st \in {"initial", "final"})
      /\ \A i \in Tasks : i \notin D => task[i].owner \notin D
      /\ D \subseteq Tasks /\ (f \in D <=> self)
  <2>1. CASE self
    <3>1. /\ {f} \subseteq D /\ D \subseteq Tasks /\ \A k \in D : Owned(k) \subseteq D
          /\ D \subseteq Idle \cup {f}
      BY <1>0, <2>1, DestroyedFrames, ZenonT(60)
    <3> HIDE DEF D, self
    <3> QED
      BY <2>1, <3>1 DEF Idle, Owned
  <2>2. CASE ~ self
    BY <2>2
  <2> QED
    BY <2>1, <2>2
<1>3. /\ d \in TaskStates
      /\ \A k \in Tasks : k \notin D /\ k # f => d[k] = task[k]
      /\ \A k \in D : /\ d[k].st = "destroyed" /\ d[k].owner = NoTask
                      /\ d[k].kind = task[k].kind /\ d[k].outcome = task[k].outcome
      /\ ~ self => /\ d[f].st = "final" /\ d[f].owner = task[f].owner
                   /\ d[f].kind = task[f].kind /\ d[f].outcome = task[f].outcome
                   /\ d[f].param = task[f].param /\ d[f].parent_coro = task[f].parent_coro
  <2>1. CASE self
    <3>1. /\ d \in TaskStates
          /\ \A k \in Tasks : k \notin D => d[k] = task[k]
          /\ \A k \in Tasks \cap D : /\ d[k].st = "destroyed" /\ d[k].owner = NoTask
                      /\ d[k].kind = task[k].kind /\ d[k].outcome = task[k].outcome
      BY <1>1, <2>1, DestroyingFields
    <3> HIDE DEF D, d, self
    <3> QED
      BY <1>2, <2>1, <3>1
  <2>2. CASE ~ self
    <3>1. d = [task EXCEPT ![f].st = "final"] /\ D = {} /\ task[f] \in TaskRec
      BY <1>1, <2>2 DEF TaskStates
    <3>2. [task[f] EXCEPT !.st = "final"] \in TaskRec
      BY <3>1 DEF TaskRec, Places
    <3> HIDE DEF D, d, self
    <3>3. d \in TaskStates /\ \A k \in Tasks : k # f => d[k] = task[k]
      BY <1>1, <3>1, <3>2 DEF TaskStates
    <3>4. /\ d[f].st = "final" /\ d[f].owner = task[f].owner
          /\ d[f].kind = task[f].kind /\ d[f].outcome = task[f].outcome
          /\ d[f].param = task[f].param /\ d[f].parent_coro = task[f].parent_coro
      BY <1>1, <3>1 DEF TaskRec, TaskStates
    <3> QED
      BY <3>1, <3>3, <3>4
  <2> QED
    BY <2>1, <2>2
<1>4. PICK u : u = task[f].parent_coro
  OBVIOUS
<1>5. /\ u \in Tasks \cup {NoTask} /\ (u = NoTask <=> task[f].outcome = "detached")
      /\ u # NoTask => task[u].st = "awaiting" /\ task[u].child = f /\ u # f /\ u \notin D
  <2>1. /\ u \in Tasks \cup {NoTask} /\ (u = NoTask <=> task[f].outcome = "detached")
        /\ u # NoTask => task[u].st = "awaiting" /\ task[u].child = f /\ u # f
    BY <1>0, <1>4, TaskFields DEF TaskLinks, FrameLinks, Active
  <2> HIDE DEF D
  <2> QED
    BY <1>2, <2>1
<1>6. self <=> (task[f].outcome = "detached" \/ task[f].kind = "trival")
  OBVIOUS
<1>7. /\ cur' = u
      /\ task' = [h \in Tasks |-> IF h = u THEN [d[h] EXCEPT !.st = "resuming"] ELSE d[h]]
  BY <1>0, <1>4
<1>s. cur = f /\ task[f].st = "finishing" /\ ready' = ready /\ exc' = exc /\ ended' = ended /\ cur' = u
  BY <1>0, <1>7
<1> HIDE DEF D, d, self, up
<1>8. task' \in TaskStates
  <2>1. ASSUME NEW r \in TaskRec PROVE [r EXCEPT !.st = "resuming"] \in TaskRec
    BY DEF TaskRec, Places
  <2>2. \A k \in Tasks : d[k] \in TaskRec
    BY <1>3 DEF TaskStates
  <2> QED
    BY <1>7, <2>1, <2>2 DEF TaskStates
<1>9. TaskTypeOK'
  BY <1>s, <1>5, <1>8 DEF TaskTypeOK, FramesOwned, TaskRec, TaskStates
<1>10. /\ \A k \in Tasks : k \notin D /\ k # f /\ k # u => task'[k] = task[k]
       /\ \A k \in D : /\ task'[k].st = "destroyed" /\ task'[k].owner = NoTask
                       /\ task'[k].kind = task[k].kind /\ task'[k].outcome = task[k].outcome
       /\ f \notin D => /\ task'[f].st = "final" /\ task'[f].owner = task[f].owner
                        /\ task'[f].kind = task[f].kind /\ task'[f].outcome = task[f].outcome
                        /\ task'[f].param = task[f].param
                        /\ task'[f].parent_coro = task[f].parent_coro
       /\ u # NoTask => /\ task'[u].st = "resuming" /\ task'[u].owner = task[u].owner
                        /\ task'[u].kind = task[u].kind /\ task'[u].outcome = task[u].outcome
                        /\ task'[u].param = task[u].param /\ task'[u].child = f
                        /\ task'[u].parent_coro = task[u].parent_coro
  <2>1. \A k \in Tasks : k # u => task'[k] = d[k]
    BY <1>7
  <2>2. ASSUME u # NoTask
        PROVE  /\ task'[u].st = "resuming" /\ task'[u].owner = task[u].owner
               /\ task'[u].kind = task[u].kind /\ task'[u].outcome = task[u].outcome
               /\ task'[u].param = task[u].param /\ task'[u].child = f
               /\ task'[u].parent_coro = task[u].parent_coro
    <3>1. task'[u] = [task[u] EXCEPT !.st = "resuming"] /\ task[u] \in TaskRec /\ task[u].child = f
      BY <1>1, <1>3, <1>5, <1>7, <2>2 DEF TaskStates
    <3> QED
      BY <3>1 DEF TaskRec
  <2> QED
    BY <1>2, <1>3, <1>5, <2>1, <2>2
<1>11. (\A k \in D : k \notin ready) /\ (f \notin D => task[f].owner # NoTask)
  BY <1>s, <1>2, <1>6 DEF TaskLinks, FrameLinks, ResumesTheRight, FramesOwned, Live
<1>12. FramesOwned'
  <2>1. ASSUME NEW k \in Tasks, task'[k].owner # NoTask
        PROVE  /\ task'[k].st \notin {"none", "destroyed"}
               /\ task'[task'[k].owner].st \notin {"none", "destroyed"}
               /\ task'[task'[k].owner].st \in {"initial", "finishing", "final"} => task'[k].param
    <3>1. k \notin D /\ task'[k].owner = task[k].owner /\ task'[k].param = task[k].param
      BY <1>10, <2>1
    <3>2. task[k].owner \in Tasks /\ task[k].owner \notin D
      BY <1>2, <2>1, <3>1, TaskFields
    <3>3. /\ task[k].st \notin {"none", "destroyed"} /\ task[task[k].owner].st \notin {"none", "destroyed"}
          /\ task[task[k].owner].st \in {"initial", "finishing", "final"} => task[k].param
      BY <2>1, <3>1 DEF FramesOwned, Live
    <3>4. ASSUME NEW j \in Tasks, j \notin D
          PROVE  /\ task[j].st \notin {"none", "destroyed"} => task'[j].st \notin {"none", "destroyed"}
                 /\ task'[j].st \in {"initial", "finishing", "final"} =>
                      task[j].st \in {"initial", "finishing", "final"}
      BY <1>s, <1>5, <1>10, <3>4
    <3> QED
      BY <3>1, <3>2, <3>3, <3>4
  <2>2. ASSUME NEW k \in Tasks, task'[k].st \notin {"none", "destroyed"}
        PROVE  /\ task'[k].owner = NoTask <=> task'[k].outcome = "detached" \/ task'[k].kind = "trival"
               /\ task'[k].st = "final" => task'[k].owner # NoTask
    <3>1. k \notin D /\ task[k].st \notin {"none", "destroyed"}
      BY <1>s, <1>5, <1>10, <2>2
    <3>2. /\ task'[k].owner = task[k].owner /\ task'[k].outcome = task[k].outcome
          /\ task'[k].kind = task[k].kind
          /\ k # f /\ task'[k].st = "final" => task[k].st = "final"
      BY <1>10, <3>1
    <3> QED
      BY <1>11, <3>1, <3>2 DEF FramesOwned, Live
  <2> QED
    BY <1>9, <2>1, <2>2 DEF FramesOwned, Live
<1>13. ResumesTheRight'
  <2> SUFFICES ASSUME NEW k \in Tasks
               PROVE  /\ task'[k].st = "awaiting" =>
                           /\ task'[task'[k].child].parent_coro = k
                           /\ task'[task'[k].child].st \in Active
                      /\ k \in ready' => task'[k].st \in {"initial", "waiting"}
                      /\ task'[k].st \in {"running", "finishing", "resuming"} <=> cur' = k
                      /\ task'[k].st = "resuming" =>
                           task'[task'[k].child].st = IF task'[task'[k].child].kind = "trival"
                                                      THEN "destroyed" ELSE "final"
    BY DEF ResumesTheRight, Active
  <2>1. CASE k \in D
    BY <1>s, <1>5, <1>10, <1>11, <2>1
  <2>2. CASE k \notin D /\ k # f /\ k # u
    <3>1. task'[k] = task[k] /\ task[k].st # "resuming"
      BY <1>s, <1>10, <2>2 DEF ResumesTheRight
    <3>2. ASSUME task[k].st = "awaiting"
          PROVE  task[k].child \in Tasks /\ task[k].child \notin D /\ task[k].child # f
      BY <1>2, <1>4, <2>2, <3>2, TaskFields DEF ResumesTheRight, TaskLinks, FrameLinks
    <3>3. ASSUME task[k].st = "awaiting"
          PROVE  /\ task'[task[k].child].parent_coro = task[task[k].child].parent_coro
                 /\ task'[task[k].child].st \in {task[task[k].child].st, "resuming"}
      BY <1>10, <3>2, <3>3
    <3> QED
      BY <1>s, <2>2, <3>1, <3>3 DEF ResumesTheRight, Active
  <2>3. CASE k = f /\ f \notin D
    BY <1>s, <1>5, <1>10, <2>3 DEF ResumesTheRight
  <2>4. CASE k = u
    <3>1. task'[u].st = "resuming" /\ task'[u].child = f /\ cur' = u /\ u \notin ready
      BY <1>s, <1>5, <1>10, <2>4 DEF ResumesTheRight
    <3>2. task'[f].kind = task[f].kind
          /\ task'[f].st = IF task[f].kind = "trival" THEN "destroyed" ELSE "final"
      BY <1>2, <1>5, <1>6, <1>10, <2>4
    <3> QED
      BY <1>s, <2>4, <3>1, <3>2
  <2> QED
    BY <2>1, <2>2, <2>3, <2>4
<1>14. TaskLinks'
  <2>1. ASSUME NEW k \in Tasks, k \notin D, k # f, task[k].st \in Active, task[k].parent_coro # NoTask
        PROVE  task'[task[k].parent_coro] = task[task[k].parent_coro]
    <3>1. /\ task[k].parent_coro \in Tasks /\ task[task[k].parent_coro].st = "awaiting"
          /\ task[task[k].parent_coro].child = k
      BY <2>1, TaskFields DEF TaskLinks, FrameLinks
    <3>2. task[k].parent_coro \notin D /\ task[k].parent_coro # f /\ task[k].parent_coro # u
      BY <1>s, <1>2, <1>5, <2>1, <3>1
    <3> QED
      BY <1>10, <3>1, <3>2
  <2>2. ASSUME NEW k \in D PROVE FrameLinks(k)'
    BY <1>2, <1>10, <2>2 DEF TaskLinks, FrameLinks, Active
  <2>3. ASSUME NEW k \in Tasks, k \notin D, k # f, k # u PROVE FrameLinks(k)'
    <3>1. task'[k] = task[k]
      BY <1>10, <2>3
    <3> QED
      BY <1>s, <2>1, <2>3, <3>1 DEF TaskLinks, FrameLinks, Active
  <2>4. f \notin D => FrameLinks(f)'
    BY <1>10 DEF TaskLinks, FrameLinks, Active
  <2>5. u # NoTask => FrameLinks(u)'
    <3> SUFFICES ASSUME u # NoTask PROVE FrameLinks(u)'
      OBVIOUS
    <3>1. u \in Tasks /\ u \notin D /\ u # f /\ task[u].st = "awaiting"
      BY <1>5
    <3>2. task[u].parent_coro # NoTask => task'[task[u].parent_coro] = task[task[u].parent_coro]
      BY <2>1, <3>1 DEF Active
    <3> QED
      BY <1>s, <1>10, <3>1, <3>2 DEF TaskLinks, FrameLinks, Active
  <2> QED
    BY <1>2, <2>2, <2>3, <2>4, <2>5 DEF TaskLinks
<1> QED
  BY <1>12, <1>13, <1>14

\* Every step of a program preserves it, a generator's included.
LEMMA TaskInvStep ==
  ASSUME TaskInv, setup \in Setups, [Next]_vars
  PROVE  TaskInv'
<1>0. exc \in BOOLEAN /\ ended \in BOOLEAN /\ setup.tasks \subseteq Tasks
  BY SetupAssumption DEF TaskInv, FramesOwned, TaskTypeOK
<1>1. ASSUME UNCHANGED <<task, cur, ready>>, exc' \in BOOLEAN, ended' \in BOOLEAN PROVE TaskInv'
  BY <1>1, TaskSame
<1>2. CASE TaskMoves
  <2>1. PICK f \in setup.tasks : TaskStep(setup.tasks, f)
    BY <1>2 DEF TaskMoves
  <2>2. f \in Tasks
    BY <1>0
  <2>3. ASSUME NEW h \in setup.tasks, NEW kind \in Kinds, NEW args \in SUBSET Owned(f),
               Call(f, h, kind, args)
        PROVE  TaskInv'
    BY <1>0, <2>2, <2>3, CallStep
  <2>4. ASSUME NEW h \in setup.tasks, NEW want \in BOOLEAN, AwaitDone(f, h, want) PROVE TaskInv'
    <3>1. UNCHANGED <<task, cur, ready>> /\ exc' \in BOOLEAN /\ ended' = ended
      BY <2>4 DEF AwaitDone
    <3> QED
      BY <1>0, <1>1, <3>1
  <2>5. ASSUME NEW h \in setup.tasks, NEW want \in BOOLEAN, AwaitStart(f, h, want) PROVE TaskInv'
    BY <1>0, <2>2, <2>5, AwaitStartStep
  <2>6. ASSUME NEW h \in setup.tasks, AwaitTrival(f, h) \/ Spawn(f, h) \/ Destroy(f, h) PROVE TaskInv'
    BY <1>0, <2>2, <2>6, AwaitTrivalStep, SpawnStep, DestroyStep
  <2>7. CASE Throw(f) \/ Catch(f)
    <3>1. UNCHANGED <<task, cur, ready>> /\ exc' \in BOOLEAN /\ ended' = ended
      BY <2>7 DEF Throw, Catch
    <3> QED
      BY <1>0, <1>1, <3>1
  <2>8. CASE ResumeReady(f) \/ AwaitIo(f) \/ IoCompletes(f) \/ FinalSuspend(f) \/ AwaitResume(f)
    BY <2>2, <2>8, ResumeReadyStep, AwaitIoStep, IoCompletesStep, FinalSuspendStep, AwaitResumeStep
  <2> QED
    BY <2>1, <2>3, <2>4, <2>5, <2>6, <2>7, <2>8 DEF TaskStep
<1>3. ASSUME NEW f \in setup.tasks, TaskLeaves(f) PROVE TaskInv'
  BY <1>0, <1>3, LeaveStepStep DEF TaskLeaves
<1>4. ASSUME NEW f \in setup.tasks, NEW g \in setup.gens, HolderAssigns(f, g) PROVE TaskInv'
  BY <1>0, <1>1, <1>4 DEF HolderAssigns, taskVars
<1>5. CASE HolderIterates \/ GeneratorMoves
  BY <1>0, <1>1, <1>5 DEF HolderIterates, GeneratorMoves, taskVars
<1>6. CASE GeneratorThrows
  BY <1>0, <1>1, <1>6 DEF GeneratorThrows
<1>7. CASE UNCHANGED vars
  BY <1>0, <1>1, <1>7 DEF vars
<1> QED
  BY <1>2, <1>3, <1>4, <1>5, <1>6, <1>7 DEF Next

\* main() has spawned one coroutine; nothing else exists.
LEMMA TaskInvInit == TaskInit => TaskInv
<1> SUFFICES ASSUME TaskInit PROVE TaskInv
  OBVIOUS
<1> USE TaskAssumption
<1>1. \A f \in Tasks :
        /\ task[f].st = (IF f = Main THEN "initial" ELSE "none") /\ task[f].kind = "void"
        /\ task[f].outcome = (IF f = Main THEN "detached" ELSE "mono")
        /\ task[f].parent_coro = NoTask /\ task[f].owner = NoTask /\ task[f].child = NoTask
  BY DEF TaskInit
<1>2. TaskTypeOK
  BY DEF TaskInit, TaskTypeOK, Places, Kinds, Outcomes
<1>3. ready = {Main} /\ cur = NoTask
  BY DEF TaskInit
<1>4. FramesOwned
  BY <1>1, <1>2 DEF FramesOwned, Live
<1>5. ResumesTheRight
  BY <1>1, <1>3 DEF ResumesTheRight
<1>6. TaskLinks
  BY <1>1, <1>3 DEF TaskLinks, FrameLinks, Active
<1> QED
  BY <1>4, <1>5, <1>6 DEF TaskInv

\* It is an invariant of every program of tasks and generators.
THEOREM TaskInvariant == Spec => []TaskInv
<1>1. Init => TaskInv
  BY TaskInvInit DEF Init
<1>2. TaskInv /\ setup \in Setups /\ [Next]_vars => TaskInv'
  BY TaskInvStep
<1> QED
  BY <1>1, <1>2, SetupKept, PTL DEF Spec

\* Each coroutine frame will be destroyed exactly once, by its owner or by
\* itself, and no task object outlives its frame: whatever is called, awaited,
\* spawned, moved into parameters and destroyed, and whatever is thrown.
THEOREM TaskFramesOwned == Spec => []FramesOwned
<1>1. TaskInv => FramesOwned
  BY DEF TaskInv
<1> QED
  BY <1>1, TaskInvariant, PTL

\* A coroutine that ends resumes the one that is suspended in the await of it,
\* everyone who awaits will be resumed that way, and the worker resumes only new
\* and waiting coroutines.
THEOREM TaskResumesTheRight == Spec => []ResumesTheRight
<1>1. TaskInv => ResumesTheRight
  BY DEF TaskInv
<1> QED
  BY <1>1, TaskInvariant, PTL

-----------------------------------------------------------------------------
(***************************************************************************)
(* The generators: the frames that exist form a chain from the consumer's  *)
(* generator, each nested in the one before, and only the end of it moves. *)
(***************************************************************************)
GLive == {g \in Gens : gen[g].st \notin {"none", "destroyed"}}

FreshOK ==
  \A g \in Gens : gen[g].st = "none" =>
    gen[g].top = g /\ gen[g].info = NoGen /\ gen[g].nested = NoGen /\ ~ gen[g].except

\* How a frame is tied to the one it is nested in, and to the root.
NestOK(g) ==
  /\ gen[g].nested # NoGen <=> gen[g].st \in {"nesting", "resuming"}
  /\ gen[g].nested # NoGen => gen[g].nested \in GLive /\ gen[g].nested # var /\ gen[g].root = var
  /\ g # var => \E p \in GLive : gen[p].nested = g
  /\ gen[g].info # NoGen => /\ gen[g].info \in GLive /\ gen[gen[g].info].nested = g
                            /\ gen[gen[g].info].st = "nesting"
  /\ g = var => gen[g].info = NoGen
  /\ g # var /\ gen[g].st # "final" => gen[g].info # NoGen

ChainedOK ==
  /\ var = NoGen => GLive = {}
  /\ var # NoGen => var \in GLive
  /\ \A g \in GLive : NestOK(g)
  /\ \A g, h \in GLive : gen[g].nested = gen[h].nested /\ gen[g].nested # NoGen => g = h

NestAcyclic == \A T \in SUBSET GLive : T # {} => \E w \in T : \A d \in T : gen[d].nested # w

\* Which frame is at the end of the chain, and where the others are.
EndOK ==
  /\ gcur # NoGen =>
       /\ gcur \in GLive /\ gen[gcur].st \in {"running", "resuming", "finishing"}
       /\ gen[gcur].st # "finishing" => gen[var].top = gcur
       /\ gen[gcur].st = "resuming" => gen[gen[gcur].nested].st = "final"
       /\ \A g \in GLive : g # gcur =>
            \/ gen[g].st = "nesting"
            \/ gen[g].st = "final" /\ gen[gcur].st = "resuming" /\ gen[gcur].nested = g
  /\ gcur = NoGen /\ var # NoGen =>
       \/ /\ gen[var].st \in {"initial", "final"}
          /\ gen[var].st = "initial" => gen[var].top = var
          /\ \A g \in GLive : g # var => gen[g].st = "nesting"
       \/ /\ gen[var].st \notin {"initial", "final"}
          /\ gen[var].top \in GLive /\ gen[gen[var].top].st = "yielded"
          /\ gen[gen[var].top].ptr = last
          /\ \A g \in GLive : g # gen[var].top => gen[g].st = "nesting"

\* Where an exception is.
ExceptOK ==
  /\ gexc => /\ gcur # NoGen /\ gen[gcur].st = "running"
             /\ \A g \in GLive : ~ gen[g].except
  /\ \A g \in GLive : gen[g].except =>
       \/ gen[g].nested = gcur /\ gcur # NoGen /\ gen[gcur].st = "finishing"
       \/ gcur = g /\ gen[g].st = "resuming"

GenInv == GenTypeOK /\ FreshOK /\ ChainedOK /\ NestAcyclic /\ EndOK /\ ExceptOK

GenRec == [st : GenPlaces, top : Gens, ptr : Values \cup {NoGen},
           info : Gens \cup {NoGen}, nested : Gens \cup {NoGen},
           root : Gens \cup {NoGen}, except : BOOLEAN]

GenStates == [Gens -> GenRec]

\* The body of GenExceptionKept.
ExceptionKept ==
  /\ Pending /\ ~ Pending' => \E g \in Gens : GenCatch(g) \/ GenEscape(g)
  /\ ~ Pending /\ Pending' => \E g \in Gens : GenThrow(g)
  /\ ~ (gexc' /\ \E g \in Gens : gen'[g].except /\ gen'[g].st # "destroyed")

\* Every field names a frame or nobody.
LEMMA GenFields ==
  ASSUME GenTypeOK
  PROVE  /\ gen \in GenStates /\ gcur \in Gens \cup {NoGen} /\ var \in Gens \cup {NoGen}
         /\ \A g \in Gens : /\ gen[g] \in GenRec /\ gen[g].top \in Gens /\ gen[g].info \in Gens \cup {NoGen}
                            /\ gen[g].nested \in Gens \cup {NoGen} /\ gen[g].root \in Gens \cup {NoGen}
                            /\ gen[g].st \in GenPlaces
BY DEF GenTypeOK, GenStates, GenRec

\* What the destruction of a frame destroys: from the consumer's generator, all
\* that exist; from one that has nothing nested in it, that one.
LEMMA NestedInIs ==
  ASSUME GenInv
  PROVE  /\ NestedIn(var) = GLive
         /\ \A h \in Gens : gen[h].nested = NoGen => NestedIn(h) = {h}
<1> USE GenAssumption DEF GenInv
<1> DEFINE IsClosed(W) == \A g \in W : gen[g].nested \in W \cup {NoGen}
<1>0. \A f : \A k : k \in NestedIn(f) <=>
        k \in Gens /\ \A W \in SUBSET Gens : f \in W \cup {NoGen} /\ IsClosed(W) => k \in W
  BY DEF NestedIn
<1>1. IsClosed(GLive) /\ var \in GLive \cup {NoGen} /\ GLive \in SUBSET Gens
  BY DEF ChainedOK, NestOK, GLive
<1>2. \A k \in NestedIn(var) : k \in GLive
  <2> HIDE DEF IsClosed
  <2> QED
    BY <1>0, <1>1
<1>3. ASSUME NEW k \in GLive PROVE k \in NestedIn(var)
  <2> SUFFICES ASSUME NEW W \in SUBSET Gens, var \in W \cup {NoGen}, IsClosed(W), k \notin W PROVE FALSE
    <3>1. k \in Gens
      BY DEF GLive
    <3> HIDE DEF IsClosed
    <3> QED
      BY <1>0, <3>1
  <2> DEFINE T == GLive \ W
  <2>1. PICK w \in T : \A d \in T : gen[d].nested # w
    BY DEF NestAcyclic
  <2>2. var \in W
    BY DEF ChainedOK
  <2>3. w \in GLive /\ w # var /\ w \notin W /\ w # NoGen
    BY <2>1, <2>2 DEF GLive
  <2>4. PICK p \in GLive : gen[p].nested = w
    BY <2>3 DEF ChainedOK, NestOK
  <2>5. p \in W
    BY <2>1, <2>4
  <2> QED
    BY <2>3, <2>4, <2>5
<1>4. ASSUME NEW h \in Gens, gen[h].nested = NoGen PROVE NestedIn(h) = {h}
  <2>1. IsClosed({h}) /\ {h} \in SUBSET Gens /\ h \in {h} \cup {NoGen}
    BY <1>4
  <2>2. \A W \in SUBSET Gens : h \in W \cup {NoGen} => h \in W
    OBVIOUS
  <2> HIDE DEF IsClosed
  <2>3. \A k \in NestedIn(h) : k \in {h}
    BY <1>0, <2>1
  <2>4. h \in NestedIn(h)
    BY <1>0, <2>2
  <2> QED
    BY <2>3, <2>4
<1> QED
  BY <1>2, <1>3, <1>4

\* The invariant is what the property says.
LEMMA GenInvImplies == GenInv => TopIsInnermost
<1> SUFFICES ASSUME GenInv PROVE TopIsInnermost
  OBVIOUS
<1> USE GenAssumption DEF GenInv
<1>1. NestedIn(var) = GLive
  BY NestedInIs
<1>2. {g \in Gens : gen[g].st \notin {"none", "destroyed"}} = NestedIn(var)
  BY <1>1 DEF GLive
<1>3. \A g \in GLive : Done(g) => g = var \/ \E f \in Gens : gen[f].nested = g /\ gcur = f
  BY GenFields DEF EndOK, Done, ChainedOK, GLive
<1>4. var # NoGen /\ gcur = NoGen /\ gen[var].st \notin {"initial", "final"} =>
       /\ gen[gen[var].top].st = "yielded"
       /\ gen[gen[var].top].ptr = last
       /\ \A g \in GLive \ {gen[var].top} : gen[g].st = "nesting"
  BY DEF EndOK
<1>5. var # NoGen /\ gcur # NoGen /\ gen[gcur].st # "finishing" => gen[var].top = gcur
  BY DEF EndOK
<1> QED
  BY <1>1, <1>2, <1>3, <1>4, <1>5 DEF TopIsInnermost

\* A step that moves frames between places where nothing is nested in them
\* leaves the chain as it is.
LEMMA ShapeKept ==
  ASSUME GenInv, gen' \in GenStates, var' = var,
         \A f \in Gens :
           /\ gen'[f].top = gen[f].top /\ gen'[f].info = gen[f].info
           /\ gen'[f].nested = gen[f].nested /\ gen'[f].root = gen[f].root
           /\ \/ gen'[f].st = gen[f].st
              \/ /\ gen[f].st \notin {"none", "destroyed", "nesting", "resuming", "final"}
                 /\ gen'[f].st \notin {"none", "destroyed", "nesting", "resuming"}
           /\ gen[f].st = "none" => (gen'[f].except => gen[f].except)
  PROVE  GLive' = GLive /\ FreshOK' /\ ChainedOK' /\ NestAcyclic'
<1> USE GenAssumption DEF GenInv
<1>1. GLive' = GLive
  BY DEF GLive
<1>2. FreshOK'
  BY DEF FreshOK
<1>3. NestAcyclic'
  <2>1. \A f \in GLive : gen'[f].nested = gen[f].nested
    BY DEF GLive
  <2> QED
    BY <1>1, <2>1 DEF NestAcyclic
<1>4. ASSUME NEW g \in GLive PROVE NestOK(g)'
  <2>1. NestOK(g) /\ g \in Gens
    BY DEF ChainedOK, GLive
  <2>2. g # var => \E p \in GLive : gen'[p].nested = g
    BY <2>1 DEF NestOK, GLive
  <2>3. gen[g].info # NoGen => gen[g].info \in Gens
    BY <2>1 DEF NestOK, GLive
  <2>4. gen[g].info # NoGen => gen'[gen[g].info].nested = g /\ gen'[gen[g].info].st = "nesting"
    BY <2>1, <2>3 DEF NestOK
  <2> QED
    BY <1>1, <2>1, <2>2, <2>3, <2>4 DEF NestOK
<1>5. ChainedOK'
  BY <1>1, <1>4 DEF ChainedOK, GLive
<1> QED
  BY <1>1, <1>2, <1>3, <1>5

\* The frames of a step that gives one frame another place.
LEMMA GenMoved ==
  ASSUME GenTypeOK, NEW g \in Gens, NEW p \in GenPlaces,
         gen' = [gen EXCEPT ![g].st = p]
  PROVE  /\ gen' \in GenStates
         /\ \A f \in Gens :
              /\ gen'[f].top = gen[f].top /\ gen'[f].info = gen[f].info
              /\ gen'[f].nested = gen[f].nested /\ gen'[f].root = gen[f].root
              /\ gen'[f].ptr = gen[f].ptr /\ gen'[f].except = gen[f].except
              /\ gen'[f].st = IF f = g THEN p ELSE gen[f].st
<1>1. gen \in GenStates /\ [gen[g] EXCEPT !.st = p] \in GenRec
  BY GenFields DEF GenRec
<1>2. gen' \in GenStates
  BY <1>1 DEF GenStates
<1>3. \A f \in Gens : f # g => gen'[f] = gen[f]
  BY <1>1 DEF GenStates
<1>4. gen'[g] = [gen[g] EXCEPT !.st = p] /\ gen[g] \in GenRec
  BY <1>1 DEF GenStates
<1>5. /\ gen'[g].top = gen[g].top /\ gen'[g].info = gen[g].info
      /\ gen'[g].nested = gen[g].nested /\ gen'[g].root = gen[g].root
      /\ gen'[g].ptr = gen[g].ptr /\ gen'[g].except = gen[g].except
      /\ gen'[g].st = p
  BY <1>4 DEF GenRec
<1> QED
  BY <1>2, <1>3, <1>5

\* A step of the tasks that leaves the generators alone.
LEMMA GenIdle ==
  ASSUME GenInv, UNCHANGED genVars
  PROVE  GenInv'
BY SMTT(40) DEF GenInv, genVars, GenTypeOK, FreshOK, ChainedOK, NestOK, NestAcyclic, EndOK, ExceptOK, GLive

\* The types after a step, from those of its variables.
LEMMA GenTyped ==
  ASSUME gen' \in GenStates, var' \in Gens \cup {NoGen}, gcur' \in Gens \cup {NoGen},
         gexc' \in BOOLEAN, last' \in Values \cup {NoGen}
  PROVE  GenTypeOK'
BY DEF GenTypeOK, GenStates, GenRec

\* What a step may do to the exceptions: the first two parts of ExceptionKept.
PendingOK ==
  /\ Pending /\ ~ Pending' => \E g \in Gens : GenCatch(g) \/ GenEscape(g)
  /\ ~ Pending /\ Pending' => \E g \in Gens : GenThrow(g)

\* Where the exceptions are decides whether one is pending.
LEMMA PendingIs ==
  GenInv => (Pending <=> gexc \/ \E g \in GLive : gen[g].except)
BY DEF GenInv, Pending, FreshOK, GLive

\* There is at most one.
LEMMA OneException ==
  GenInv => ~ (gexc /\ \E g \in Gens : gen[g].except /\ gen[g].st # "destroyed")
BY DEF GenInv, ExceptOK, FreshOK, GLive

\* begin() resumes the root, which nothing is nested in yet.
LEMMA BeginStep ==
  ASSUME GenInv, Begin
  PROVE  GenInv' /\ PendingOK
<1> USE GenAssumption DEF GenInv
<1>0. var \in Gens /\ var \in GLive /\ gcur = NoGen /\ gen[var].st = "initial" /\ var # NoGen
  BY DEF Begin, ChainedOK, GLive
<1>1. /\ gen' = [gen EXCEPT ![var].st = "running"] /\ gcur' = var
      /\ var' = var /\ gexc' = gexc /\ last' = last
  BY DEF Begin, Resume
<1>2. /\ gen' \in GenStates
      /\ \A f \in Gens :
           /\ gen'[f].top = gen[f].top /\ gen'[f].info = gen[f].info
           /\ gen'[f].nested = gen[f].nested /\ gen'[f].root = gen[f].root
           /\ gen'[f].ptr = gen[f].ptr /\ gen'[f].except = gen[f].except
           /\ gen'[f].st = IF f = var THEN "running" ELSE gen[f].st
  BY <1>0, <1>1, GenMoved DEF GenPlaces
<1>3. GLive' = GLive /\ FreshOK' /\ ChainedOK' /\ NestAcyclic'
  BY <1>0, <1>1, <1>2, ShapeKept
<1>4. GenTypeOK'
  BY <1>0, <1>1, <1>2, GenTyped DEF GenTypeOK
<1>5. ~ gexc /\ \A g \in GLive : ~ gen[g].except
  BY <1>0 DEF ExceptOK, GLive
<1>6. gen[var].top = var /\ \A g \in GLive : g # var => gen[g].st = "nesting"
  BY <1>0 DEF EndOK
<1>7. EndOK'
  <2>1. gen'[var].top = var /\ gen'[var].st = "running" /\ \A g \in GLive : g # var => gen'[g].st = "nesting"
    BY <1>0, <1>2, <1>6 DEF GLive
  <2>2. gcur' = var /\ var' = var /\ GLive' = GLive /\ var \in GLive /\ var # NoGen
    BY <1>0, <1>1, <1>3
  <2> QED
    BY <2>1, <2>2 DEF EndOK
<1>8. \A g \in GLive : ~ gen'[g].except
  BY <1>2, <1>5 DEF GLive
<1>9. ExceptOK'
  BY <1>1, <1>3, <1>5, <1>8 DEF ExceptOK
<1>10. GenInv'
  BY <1>3, <1>4, <1>7, <1>9
<1>11. ~ Pending
  BY <1>5, PendingIs
<1>12. ~ Pending'
  BY <1>1, <1>3, <1>5, <1>8 DEF Pending, FreshOK, GLive
<1> QED
  BY <1>10, <1>11, <1>12 DEF PendingOK

\* ++it resumes the innermost frame, which is suspended at a co_yield.
LEMMA IncrementStep ==
  ASSUME GenInv, Increment
  PROVE  GenInv' /\ PendingOK
<1> USE GenAssumption DEF GenInv
<1>0. var \in Gens /\ var \in GLive /\ gcur = NoGen /\ gen[var].st \notin {"initial", "final"} /\ var # NoGen
  BY DEF Increment, ChainedOK, GLive
<1>t. PICK t : t = gen[var].top
  OBVIOUS
<1>6. /\ t \in GLive /\ gen[t].st = "yielded"
      /\ \A g \in GLive : g # t => gen[g].st = "nesting"
  BY <1>0, <1>t DEF EndOK
<1>1. /\ gen' = [gen EXCEPT ![t].st = "running"] /\ gcur' = t
      /\ var' = var /\ gexc' = gexc /\ last' = last /\ t \in Gens /\ t # NoGen
  BY <1>6, <1>t DEF Increment, Resume, GLive
<1>2. /\ gen' \in GenStates
      /\ \A f \in Gens :
           /\ gen'[f].top = gen[f].top /\ gen'[f].info = gen[f].info
           /\ gen'[f].nested = gen[f].nested /\ gen'[f].root = gen[f].root
           /\ gen'[f].ptr = gen[f].ptr /\ gen'[f].except = gen[f].except
           /\ gen'[f].st = IF f = t THEN "running" ELSE gen[f].st
  BY <1>1, GenMoved DEF GenPlaces
<1>3. GLive' = GLive /\ FreshOK' /\ ChainedOK' /\ NestAcyclic'
  BY <1>1, <1>2, <1>6, ShapeKept
<1>4. GenTypeOK'
  BY <1>0, <1>1, <1>2, GenTyped DEF GenTypeOK
<1>5. ~ gexc /\ \A g \in GLive : ~ gen[g].except
  BY <1>0 DEF ExceptOK, GLive
<1>7. EndOK'
  <2>1. gen'[var].top = t /\ gen'[t].st = "running" /\ \A g \in GLive : g # t => gen'[g].st = "nesting"
    BY <1>0, <1>1, <1>2, <1>6, <1>t DEF GLive
  <2>2. gcur' = t /\ var' = var /\ GLive' = GLive /\ t \in GLive /\ t # NoGen
    BY <1>1, <1>3, <1>6
  <2> QED
    BY <2>1, <2>2 DEF EndOK
<1>8. \A g \in GLive : ~ gen'[g].except
  BY <1>2, <1>5 DEF GLive
<1>9. ExceptOK'
  BY <1>1, <1>3, <1>5, <1>8 DEF ExceptOK
<1>10. GenInv'
  BY <1>3, <1>4, <1>7, <1>9
<1>11. ~ Pending
  BY <1>5, PendingIs
<1>12. ~ Pending'
  BY <1>1, <1>3, <1>5, <1>8 DEF Pending, FreshOK, GLive
<1> QED
  BY <1>10, <1>11, <1>12 DEF PendingOK

\* A generator that runs is at the end of the chain: the others wait for what is
\* nested in them, and no exception is kept for them.
LEMMA RunningEnd ==
  ASSUME GenInv, NEW g \in Gens, gcur = g, gen[g].st = "running"
  PROVE  /\ g \in GLive /\ var # NoGen /\ var \in GLive /\ var \in Gens /\ gen[var].top = g /\ g # NoGen
         /\ \A h \in GLive : h # g => gen[h].st = "nesting"
         /\ \A h \in GLive : ~ gen[h].except
         /\ gen[g].nested = NoGen
         /\ gen[g].info = NoGen <=> g = var
<1> USE GenAssumption DEF GenInv
<1>1. g \in GLive /\ var # NoGen /\ var \in GLive /\ var \in Gens /\ g # NoGen
  BY DEF GLive, ChainedOK
<1>2. gen[var].top = g /\ \A h \in GLive : h # g => gen[h].st = "nesting"
  BY <1>1 DEF EndOK
<1>3. \A h \in GLive : ~ gen[h].except
  BY <1>1 DEF ExceptOK
<1>4. gen[g].nested = NoGen /\ (gen[g].info = NoGen <=> g = var)
  BY <1>1 DEF ChainedOK, NestOK
<1> QED
  BY <1>1, <1>2, <1>3, <1>4

\* co_yield of a value hands it, and control, to the consumer.
LEMMA YieldStep ==
  ASSUME GenInv, NEW g \in Gens, NEW v \in Values, Yield(g, v)
  PROVE  GenInv' /\ PendingOK
<1> USE GenAssumption DEF GenInv
<1>0. gcur = g /\ gen[g].st = "running" /\ ~ gexc
  BY DEF Yield, GenRuns
<1>6. /\ g \in GLive /\ var # NoGen /\ var \in GLive /\ var \in Gens /\ gen[var].top = g /\ g # NoGen
      /\ \A h \in GLive : h # g => gen[h].st = "nesting"
      /\ \A h \in GLive : ~ gen[h].except
  BY <1>0, RunningEnd
<1>1. /\ gen' = [gen EXCEPT ![g].st = "yielded", ![g].ptr = v] /\ gcur' = NoGen
      /\ var' = var /\ gexc' = gexc /\ last' = v
  BY DEF Yield
<1>2. /\ gen' \in GenStates
      /\ \A f \in Gens :
           /\ gen'[f].top = gen[f].top /\ gen'[f].info = gen[f].info
           /\ gen'[f].nested = gen[f].nested /\ gen'[f].root = gen[f].root
           /\ gen'[f].except = gen[f].except
           /\ gen'[f].st = IF f = g THEN "yielded" ELSE gen[f].st
      /\ gen'[g].ptr = v
  <2>1. gen \in GenStates /\ [gen[g] EXCEPT !.st = "yielded", !.ptr = v] \in GenRec /\ gen[g] \in GenRec
    BY GenFields DEF GenRec, GenPlaces
  <2>2. gen' \in GenStates
    BY <1>1, <2>1 DEF GenStates
  <2>3. \A f \in Gens : f # g => gen'[f] = gen[f]
    BY <1>1, <2>1 DEF GenStates
  <2>4. gen'[g] = [gen[g] EXCEPT !.st = "yielded", !.ptr = v]
    BY <1>1, <2>1 DEF GenStates
  <2>5. /\ gen'[g].top = gen[g].top /\ gen'[g].info = gen[g].info
        /\ gen'[g].nested = gen[g].nested /\ gen'[g].root = gen[g].root
        /\ gen'[g].ptr = v /\ gen'[g].except = gen[g].except
        /\ gen'[g].st = "yielded"
    BY <2>1, <2>4 DEF GenRec
  <2> QED
    BY <2>2, <2>3, <2>5
<1>3. GLive' = GLive /\ FreshOK' /\ ChainedOK' /\ NestAcyclic'
  <2>1. \A f \in Gens :
          /\ \/ gen'[f].st = gen[f].st
             \/ /\ gen[f].st \notin {"none", "destroyed", "nesting", "resuming", "final"}
                /\ gen'[f].st \notin {"none", "destroyed", "nesting", "resuming"}
          /\ gen[f].st = "none" => (gen'[f].except => gen[f].except)
    BY <1>0, <1>2
  <2> QED
    BY <1>1, <1>2, <2>1, ShapeKept
<1>4. GenTypeOK'
  BY <1>0, <1>1, <1>2, GenTyped DEF GenTypeOK
<1>7. EndOK'
  <2>1. gen'[var].top = g /\ gen'[g].st = "yielded" /\ gen'[g].ptr = v
        /\ gen'[var].st \notin {"initial", "final"}
        /\ \A h \in GLive : h # g => gen'[h].st = "nesting"
    BY <1>2, <1>6 DEF GLive
  <2>2. gcur' = NoGen /\ var' = var /\ last' = v /\ GLive' = GLive /\ g \in GLive
    BY <1>1, <1>3, <1>6
  <2> QED
    BY <2>1, <2>2 DEF EndOK
<1>8. \A h \in GLive : ~ gen'[h].except
  BY <1>2, <1>6 DEF GLive
<1>9. ExceptOK'
  BY <1>0, <1>1, <1>3, <1>8 DEF ExceptOK
<1>10. GenInv'
  BY <1>3, <1>4, <1>7, <1>9
<1>11. ~ Pending
  BY <1>0, <1>6, PendingIs
<1>12. ~ Pending'
  BY <1>0, <1>1, <1>3, <1>8 DEF Pending, FreshOK, GLive
<1> QED
  BY <1>10, <1>11, <1>12 DEF PendingOK

\* A generator that runs off its end has nothing nested in it.
LEMMA GenReturnStep ==
  ASSUME GenInv, NEW g \in Gens, GenReturn(g)
  PROVE  GenInv' /\ PendingOK
<1> USE GenAssumption DEF GenInv
<1>0. gcur = g /\ gen[g].st = "running" /\ ~ gexc
  BY DEF GenReturn, GenRuns
<1>6. /\ g \in GLive /\ var # NoGen /\ var \in GLive /\ var \in Gens /\ g # NoGen
      /\ \A h \in GLive : h # g => gen[h].st = "nesting"
      /\ \A h \in GLive : ~ gen[h].except
  BY <1>0, RunningEnd
<1>1. /\ gen' = [gen EXCEPT ![g].st = "finishing"] /\ gcur' = gcur
      /\ var' = var /\ gexc' = gexc /\ last' = last
  BY DEF GenReturn
<1>2. /\ gen' \in GenStates
      /\ \A f \in Gens :
           /\ gen'[f].top = gen[f].top /\ gen'[f].info = gen[f].info
           /\ gen'[f].nested = gen[f].nested /\ gen'[f].root = gen[f].root
           /\ gen'[f].ptr = gen[f].ptr /\ gen'[f].except = gen[f].except
           /\ gen'[f].st = IF f = g THEN "finishing" ELSE gen[f].st
  BY <1>1, GenMoved DEF GenPlaces
<1>3. GLive' = GLive /\ FreshOK' /\ ChainedOK' /\ NestAcyclic'
  BY <1>0, <1>1, <1>2, ShapeKept
<1>4. GenTypeOK'
  BY <1>0, <1>1, <1>2, GenTyped DEF GenTypeOK
<1>7. EndOK'
  <2>1. gen'[g].st = "finishing" /\ \A h \in GLive : h # g => gen'[h].st = "nesting"
    BY <1>2, <1>6 DEF GLive
  <2>2. gcur' = g /\ var' = var /\ GLive' = GLive /\ g \in GLive /\ g # NoGen
    BY <1>0, <1>1, <1>3, <1>6
  <2> QED
    BY <2>1, <2>2 DEF EndOK
<1>8. \A h \in GLive : ~ gen'[h].except
  BY <1>2, <1>6 DEF GLive
<1>9. ExceptOK'
  BY <1>0, <1>1, <1>3, <1>8 DEF ExceptOK
<1>10. GenInv'
  BY <1>3, <1>4, <1>7, <1>9
<1>11. ~ Pending
  BY <1>0, <1>6, PendingIs
<1>12. ~ Pending'
  BY <1>0, <1>1, <1>3, <1>8 DEF Pending, FreshOK, GLive
<1> QED
  BY <1>10, <1>11, <1>12 DEF PendingOK

\* Only the root throws out of resume(): a nested frame that runs has _Nest_info.
LEMMA GenEscapeStep ==
  ASSUME GenInv, NEW g \in Gens, GenEscape(g)
  PROVE  GenInv' /\ PendingOK
<1> USE GenAssumption DEF GenInv
<1>0. gcur = g /\ gen[g].st = "running" /\ gexc /\ gen[g].info = NoGen
  BY DEF GenEscape
<1>6. /\ g \in GLive /\ var # NoGen /\ g = var
      /\ \A h \in GLive : h # g => gen[h].st = "nesting"
      /\ \A h \in GLive : ~ gen[h].except
  BY <1>0, RunningEnd
<1>1. /\ gen' = [gen EXCEPT ![g].st = "final"] /\ gcur' = NoGen
      /\ var' = var /\ gexc' = FALSE /\ last' = last
  BY DEF GenEscape
<1>2. /\ gen' \in GenStates
      /\ \A f \in Gens :
           /\ gen'[f].top = gen[f].top /\ gen'[f].info = gen[f].info
           /\ gen'[f].nested = gen[f].nested /\ gen'[f].root = gen[f].root
           /\ gen'[f].ptr = gen[f].ptr /\ gen'[f].except = gen[f].except
           /\ gen'[f].st = IF f = g THEN "final" ELSE gen[f].st
  BY <1>1, GenMoved DEF GenPlaces
<1>3. GLive' = GLive /\ FreshOK' /\ ChainedOK' /\ NestAcyclic'
  BY <1>0, <1>1, <1>2, ShapeKept
<1>4. GenTypeOK'
  BY <1>0, <1>1, <1>2, GenTyped DEF GenTypeOK
<1>7. EndOK'
  <2>1. gen'[var].st = "final" /\ \A h \in GLive : h # var => gen'[h].st = "nesting"
    BY <1>2, <1>6 DEF GLive
  <2>2. gcur' = NoGen /\ var' = var /\ GLive' = GLive
    BY <1>1, <1>3
  <2> QED
    BY <2>1, <2>2 DEF EndOK
<1>8. \A h \in GLive : ~ gen'[h].except
  BY <1>2, <1>6 DEF GLive
<1>9. ExceptOK'
  BY <1>0, <1>1, <1>3, <1>8 DEF ExceptOK
<1>10. GenInv'
  BY <1>3, <1>4, <1>7, <1>9
<1>11. Pending
  BY <1>0 DEF Pending
<1> QED
  BY <1>10, <1>11 DEF PendingOK

\* An exception is raised or caught while none is kept for a parent.
LEMMA GenThrowStep ==
  ASSUME GenInv, NEW g \in Gens, GenThrow(g) \/ GenCatch(g)
  PROVE  GenInv' /\ PendingOK
<1> USE GenAssumption DEF GenInv
<1>0. gcur = g /\ gen[g].st = "running"
  BY DEF GenThrow, GenCatch, GenRuns
<1>6. g # NoGen /\ \A h \in GLive : ~ gen[h].except
  BY <1>0, RunningEnd
<1>1. gen' = gen /\ gcur' = gcur /\ var' = var /\ last' = last /\ gexc' \in BOOLEAN
  BY DEF GenThrow, GenCatch
<1>2. GLive' = GLive /\ FreshOK' /\ ChainedOK' /\ NestAcyclic' /\ EndOK' /\ GenTypeOK'
  BY <1>1 DEF GLive, FreshOK, ChainedOK, NestOK, NestAcyclic, EndOK, GenTypeOK
<1>3. ExceptOK'
  BY <1>0, <1>1, <1>2, <1>6 DEF ExceptOK
<1>4. GenInv'
  BY <1>2, <1>3
<1>5. Pending <=> gexc
  BY <1>6, PendingIs
<1>7. Pending' <=> gexc'
  BY <1>1, <1>6 DEF Pending, FreshOK, GLive
<1> QED
  BY <1>4, <1>5, <1>7 DEF PendingOK, GenThrow, GenCatch, GenRuns

\* The exception of a nested generator is kept in the one frame that waits for it.
LEMMA GenUnhandledStep ==
  ASSUME GenInv, NEW g \in Gens, GenUnhandled(g)
  PROVE  GenInv' /\ PendingOK
<1> USE GenAssumption DEF GenInv
<1>0. gcur = g /\ gen[g].st = "running" /\ gexc /\ gen[g].info # NoGen
  BY DEF GenUnhandled
<1>6. /\ g \in GLive /\ var # NoGen /\ var \in GLive /\ var \in Gens /\ g # NoGen
      /\ \A h \in GLive : h # g => gen[h].st = "nesting"
      /\ \A h \in GLive : ~ gen[h].except
  BY <1>0, RunningEnd
<1>p. PICK p : p = gen[g].info
  OBVIOUS
<1>q. p \in GLive /\ p \in Gens /\ p # g /\ gen[p].nested = g /\ gen[p].st = "nesting"
  BY <1>0, <1>6, <1>p DEF ChainedOK, NestOK, GLive
<1>1. /\ gen' = [gen EXCEPT ![g].st = "finishing", ![p].except = TRUE] /\ gcur' = gcur
      /\ var' = var /\ gexc' = FALSE /\ last' = last
  BY <1>p DEF GenUnhandled
<1>2. /\ gen' \in GenStates
      /\ \A f \in Gens :
           /\ gen'[f].top = gen[f].top /\ gen'[f].info = gen[f].info
           /\ gen'[f].nested = gen[f].nested /\ gen'[f].root = gen[f].root
           /\ gen'[f].st = IF f = g THEN "finishing" ELSE gen[f].st
      /\ \A f \in Gens : f # p => gen'[f].except = gen[f].except
      /\ gen'[p].except
  <2>1. /\ gen \in GenStates /\ gen[g] \in GenRec /\ gen[p] \in GenRec
        /\ [gen[g] EXCEPT !.st = "finishing"] \in GenRec
        /\ [gen[p] EXCEPT !.except = TRUE] \in GenRec
    <3>1. gen \in GenStates /\ gen[g] \in GenRec /\ gen[p] \in GenRec
      BY <1>q, GenFields
    <3>2. [gen[g] EXCEPT !.st = "finishing"] \in GenRec
      BY <3>1 DEF GenRec, GenPlaces
    <3>3. [gen[p] EXCEPT !.except = TRUE] \in GenRec
      BY <3>1 DEF GenRec
    <3> QED
      BY <3>1, <3>2, <3>3
  <2>2. gen' \in GenStates
    BY <1>1, <1>q, <2>1 DEF GenStates
  <2>3. \A f \in Gens : f # g /\ f # p => gen'[f] = gen[f]
    BY <1>1, <2>1 DEF GenStates
  <2>4. gen'[g] = [gen[g] EXCEPT !.st = "finishing"] /\ gen'[p] = [gen[p] EXCEPT !.except = TRUE]
    BY <1>1, <1>q, <2>1 DEF GenStates
  <2>5. /\ gen'[g].top = gen[g].top /\ gen'[g].info = gen[g].info
        /\ gen'[g].nested = gen[g].nested /\ gen'[g].root = gen[g].root
        /\ gen'[g].except = gen[g].except
        /\ gen'[g].st = "finishing"
    BY <2>1, <2>4 DEF GenRec
  <2>6. /\ gen'[p].top = gen[p].top /\ gen'[p].info = gen[p].info
        /\ gen'[p].nested = gen[p].nested /\ gen'[p].root = gen[p].root
        /\ gen'[p].st = gen[p].st
        /\ gen'[p].except
    BY <2>1, <2>4 DEF GenRec
  <2> QED
    BY <1>q, <2>2, <2>3, <2>5, <2>6
<1>3. GLive' = GLive /\ FreshOK' /\ ChainedOK' /\ NestAcyclic'
  <2>1. \A f \in Gens :
          /\ \/ gen'[f].st = gen[f].st
             \/ /\ gen[f].st \notin {"none", "destroyed", "nesting", "resuming", "final"}
                /\ gen'[f].st \notin {"none", "destroyed", "nesting", "resuming"}
          /\ gen[f].st = "none" => (gen'[f].except => gen[f].except)
    BY <1>0, <1>q, <1>2
  <2> QED
    BY <1>1, <1>2, <2>1, ShapeKept
<1>4. GenTypeOK'
  BY <1>0, <1>1, <1>2, GenTyped DEF GenTypeOK
<1>7. EndOK'
  <2>1. gen'[g].st = "finishing" /\ \A h \in GLive : h # g => gen'[h].st = "nesting"
    BY <1>2, <1>6 DEF GLive
  <2>2. gcur' = g /\ var' = var /\ GLive' = GLive /\ g \in GLive
    BY <1>0, <1>1, <1>3, <1>6
  <2> QED
    BY <1>6, <2>1, <2>2 DEF EndOK
<1>8. \A h \in GLive : h # p => ~ gen'[h].except
  BY <1>2, <1>6 DEF GLive
<1>9. ExceptOK'
  <2>1. gcur' = g /\ gexc' = FALSE /\ GLive' = GLive /\ gen'[p].nested = g /\ gen'[g].st = "finishing"
    BY <1>0, <1>1, <1>2, <1>3, <1>q
  <2> QED
    BY <1>6, <1>8, <2>1 DEF ExceptOK
<1>10. GenInv'
  BY <1>3, <1>4, <1>7, <1>9
<1>11. Pending
  BY <1>0 DEF Pending
<1>12. Pending'
  BY <1>2, <1>q DEF Pending
<1> QED
  BY <1>10, <1>11, <1>12 DEF PendingOK

\* The frame that goes on destroys the finished one that was nested in it, and that only.
LEMMA NestedResumeStep ==
  ASSUME GenInv, NEW g \in Gens, NestedResume(g)
  PROVE  GenInv' /\ PendingOK
<1> USE GenAssumption DEF GenInv
<1>h. PICK h : h = gen[g].nested
  OBVIOUS
<1>0. gcur = g /\ gen[g].st = "resuming" /\ g \in GLive /\ g # NoGen /\ var # NoGen /\ ~ gexc
  BY DEF NestedResume, GLive, ChainedOK, ExceptOK
<1>a. h \in GLive /\ h # var /\ h \in Gens /\ h # NoGen /\ gen[h].st = "final" /\ gen[h].nested = NoGen
  <2>1. h # NoGen /\ h \in GLive /\ h # var
    BY <1>0, <1>h DEF ChainedOK, NestOK
  <2>2. gen[h].st = "final"
    BY <1>0, <1>h DEF EndOK
  <2> QED
    BY <2>1, <2>2 DEF ChainedOK, NestOK, GLive
<1>b. gen[var].top = g /\ \A k \in GLive : k # g /\ k # h => gen[k].st = "nesting"
  BY <1>0, <1>h DEF EndOK
<1>c. \A k \in GLive : k # g => ~ gen[k].except
  BY <1>0 DEF ExceptOK
<1>1. /\ gen' = [Destroyed({h}) EXCEPT
               ![g].st = "running", ![g].nested = NoGen, ![g].root = NoGen, ![g].except = FALSE]
      /\ var' = var /\ gcur' = gcur /\ last' = last /\ gexc' = gen[g].except
  BY <1>a, <1>h, NestedInIs DEF NestedResume
<1>2. /\ gen' \in GenStates
      /\ \A f \in Gens : f # g /\ f # h => gen'[f] = gen[f]
      /\ /\ gen'[g].st = "running" /\ gen'[g].nested = NoGen /\ ~ gen'[g].except
         /\ gen'[g].top = gen[g].top /\ gen'[g].info = gen[g].info
      /\ gen'[h].st = "destroyed" /\ gen'[h].top = gen[h].top
  <2> DEFINE M == Destroyed({h})
  <2>1. gen \in GenStates /\ gen[g] \in GenRec /\ gen[h] \in GenRec /\ g # h
        /\ [gen[h] EXCEPT !.st = "destroyed"] \in GenRec
    BY <1>0, <1>a, GenFields DEF GenRec, GenPlaces
  <2>2. M \in GenStates /\ M[h] = [gen[h] EXCEPT !.st = "destroyed"] /\ \A f \in Gens : f # h => M[f] = gen[f]
    BY <2>1, <1>a DEF GenStates, Destroyed
  <2>3. gen' = [M EXCEPT ![g].st = "running", ![g].nested = NoGen, ![g].root = NoGen, ![g].except = FALSE]
    BY <1>1
  <2> HIDE DEF M
  <2>4. gen'[g] = [gen[g] EXCEPT !.st = "running", !.nested = NoGen, !.root = NoGen, !.except = FALSE]
        /\ \A f \in Gens : f # g => gen'[f] = M[f]
    BY <2>1, <2>2, <2>3 DEF GenStates
  <2>5. [gen[g] EXCEPT !.st = "running", !.nested = NoGen, !.root = NoGen, !.except = FALSE] \in GenRec
    BY <2>1 DEF GenRec, GenPlaces
  <2>6. gen' \in GenStates
    BY <2>1, <2>2, <2>3, <2>5 DEF GenStates
  <2>7. /\ gen'[g].st = "running" /\ gen'[g].nested = NoGen /\ ~ gen'[g].except
        /\ gen'[g].top = gen[g].top /\ gen'[g].info = gen[g].info
    BY <2>1, <2>4 DEF GenRec
  <2>8. gen'[h].st = "destroyed" /\ gen'[h].top = gen[h].top
    BY <1>a, <2>1, <2>2, <2>4 DEF GenRec
  <2>9. \A f \in Gens : f # g /\ f # h => gen'[f] = gen[f]
    BY <2>2, <2>4
  <2> QED
    BY <2>6, <2>7, <2>8, <2>9
<1>3. GLive' = GLive \ {h} /\ g \in GLive'
  BY <1>0, <1>2, <1>a DEF GLive
<1>4. GenTypeOK'
  BY <1>0, <1>1, <1>2, GenTyped, GenFields DEF GenTypeOK, GenRec
<1>5. FreshOK'
  BY <1>0, <1>2, <1>a DEF FreshOK
<1>6. ASSUME NEW k \in GLive' PROVE NestOK(k)'
  <2>1. NestOK(k) /\ k \in GLive /\ k # h /\ k \in Gens /\ k # NoGen /\ NestOK(g)
    BY <1>0, <1>3 DEF ChainedOK, GLive
  <2>2. k # var => \E p \in GLive' : gen'[p].nested = k
    <3> SUFFICES ASSUME k # var PROVE \E p \in GLive' : gen'[p].nested = k
      OBVIOUS
    <3>1. PICK p \in GLive : gen[p].nested = k
      BY <2>1 DEF NestOK
    <3>2. p # h /\ p # g /\ p \in Gens
      BY <1>a, <1>h, <2>1, <3>1 DEF GLive
    <3> QED
      BY <1>2, <1>3, <3>1, <3>2
  <2>3. gen[k].info # NoGen => gen[k].info # g /\ gen[k].info # h
    BY <1>0, <1>a, <2>1 DEF NestOK
  <2>4. gen'[k].info = gen[k].info
    BY <1>2, <2>1
  <2>5. gen[k].info # NoGen => gen[k].info \in GLive' /\ gen'[gen[k].info] = gen[gen[k].info]
    BY <1>2, <1>3, <2>1, <2>3 DEF NestOK, GLive
  <2>6. gen'[k].nested # NoGen => k # g /\ gen'[k] = gen[k]
    BY <1>2, <2>1
  <2>7. gen'[k].nested # NoGen => gen[k].nested # h
    BY <1>0, <1>a, <1>h, <2>1, <2>6 DEF ChainedOK
  <2>8. gen'[k].nested # NoGen <=> gen'[k].st \in {"nesting", "resuming"}
    BY <1>2, <2>1 DEF NestOK
  <2>9. gen'[k].nested # NoGen => gen'[k].nested \in GLive' /\ gen'[k].nested # var /\ gen'[k].root = var
    BY <1>3, <2>1, <2>6, <2>7 DEF NestOK
  <2>10. k = var => gen'[k].info = NoGen
    BY <2>1, <2>4 DEF NestOK
  <2>11. k # var /\ gen'[k].st # "final" => gen'[k].info # NoGen
    BY <1>0, <1>2, <2>1, <2>4 DEF NestOK
  <2>12. gen'[k].info # NoGen => gen'[gen'[k].info].nested = k /\ gen'[gen'[k].info].st = "nesting"
    BY <2>1, <2>4, <2>5 DEF NestOK
  <2>13. var' = var
    BY <1>1
  <2> QED
    BY <2>2, <2>4, <2>5, <2>8, <2>9, <2>10, <2>11, <2>12, <2>13 DEF NestOK
<1>7. ChainedOK'
  <2>1. var' = var /\ var \in GLive'
    BY <1>0, <1>1, <1>3, <1>a DEF ChainedOK
  <2>2. ASSUME NEW a \in GLive', NEW b \in GLive', gen'[a].nested = gen'[b].nested, gen'[a].nested # NoGen
        PROVE  a = b
    <3>1. a # g /\ b # g /\ a \in GLive /\ b \in GLive /\ a # h /\ b # h
      BY <1>2, <1>3, <2>2
    <3>2. gen'[a] = gen[a] /\ gen'[b] = gen[b]
      BY <1>2, <3>1 DEF GLive
    <3> QED
      BY <2>2, <3>1, <3>2 DEF ChainedOK
  <2> QED
    BY <1>0, <1>6, <2>1, <2>2 DEF ChainedOK
<1>8. NestAcyclic'
  <2> SUFFICES ASSUME NEW T \in SUBSET GLive', T # {} PROVE \E w \in T : \A d \in T : gen'[d].nested # w
    BY DEF NestAcyclic
  <2>1. PICK w \in T : \A d \in T : gen[d].nested # w
    BY <1>3 DEF NestAcyclic
  <2>2. \A d \in T : d \in Gens /\ (d = g \/ gen'[d] = gen[d]) /\ d # NoGen
    BY <1>2, <1>3 DEF GLive
  <2> QED
    BY <1>2, <2>1, <2>2
<1>9. EndOK'
  <2>1. gen'[var].top = g /\ gen'[g].st = "running" /\ \A k \in GLive' : k # g => gen'[k].st = "nesting"
    BY <1>2, <1>3, <1>a, <1>b DEF GLive, ChainedOK
  <2>2. gcur' = g /\ var' = var /\ g \in GLive'
    BY <1>0, <1>1, <1>3
  <2> QED
    BY <1>0, <2>1, <2>2 DEF EndOK
<1>10. \A k \in GLive' : ~ gen'[k].except
  BY <1>2, <1>3, <1>c DEF GLive
<1>11. ExceptOK'
  <2>1. gcur' = g /\ gen'[g].st = "running"
    BY <1>0, <1>1, <1>2
  <2> QED
    BY <1>0, <1>10, <2>1 DEF ExceptOK
<1>12. GenInv'
  BY <1>4, <1>5, <1>7, <1>8, <1>9, <1>11
<1>13. Pending <=> gen[g].except
  BY <1>0, <1>c, PendingIs
<1>14. Pending' <=> gexc'
  BY <1>5, <1>10 DEF Pending, FreshOK, GLive
<1> QED
  BY <1>1, <1>12, <1>13, <1>14 DEF PendingOK

\* A frame that ends gives _Top of the root and control back to its parent.
LEMMA GenFinalSuspendStep ==
  ASSUME GenInv, NEW g \in Gens, GenFinalSuspend(g)
  PROVE  GenInv' /\ PendingOK
<1> USE GenAssumption DEF GenInv
<1>0. gcur = g /\ gen[g].st = "finishing" /\ g \in GLive /\ g # NoGen /\ var # NoGen /\ ~ gexc
      /\ var \in GLive /\ var \in Gens
  BY DEF GenFinalSuspend, GLive, ChainedOK, ExceptOK
<1>p. PICK p : p = gen[g].info
  OBVIOUS
<1>r. PICK r : r = IF p = NoGen THEN g ELSE gen[p].root
  OBVIOUS
<1>a. gen[g].nested = NoGen /\ \A k \in GLive : k # g => gen[k].st = "nesting"
  BY <1>0 DEF EndOK, ChainedOK, NestOK
<1>b. \A k \in GLive : gen[k].except => gen[k].nested = g
  BY <1>0 DEF ExceptOK
<1>1. /\ gen' = [f \in Gens |->
            [gen[f] EXCEPT !.st = IF f = g THEN "final" ELSE IF f = p THEN "resuming" ELSE @,
                           !.info = IF f = g THEN NoGen ELSE @,
                           !.top = IF f = r /\ p # NoGen THEN p ELSE @]]
      /\ gcur' = p /\ var' = var /\ gexc' = gexc /\ last' = last
  BY <1>p, <1>r DEF GenFinalSuspend
<1>t. p \in Gens \cup {NoGen} /\ gen \in GenStates /\ \A f \in Gens : gen[f] \in GenRec
  BY <1>p, GenFields
<1>2. /\ gen' \in GenStates
      /\ \A f \in Gens :
           /\ gen'[f].nested = gen[f].nested /\ gen'[f].root = gen[f].root
           /\ gen'[f].ptr = gen[f].ptr /\ gen'[f].except = gen[f].except
           /\ gen'[f].st = IF f = g THEN "final" ELSE IF f = p THEN "resuming" ELSE gen[f].st
           /\ gen'[f].info = IF f = g THEN NoGen ELSE gen[f].info
           /\ gen'[f].top = IF f = r /\ p # NoGen THEN p ELSE gen[f].top
  <2>1. ASSUME NEW f \in Gens
        PROVE  /\ gen'[f] = [gen[f] EXCEPT !.st = IF f = g THEN "final" ELSE IF f = p THEN "resuming" ELSE @,
                                           !.info = IF f = g THEN NoGen ELSE @,
                                           !.top = IF f = r /\ p # NoGen THEN p ELSE @]
               /\ gen'[f] \in GenRec
    <3>1. gen'[f] = [gen[f] EXCEPT !.st = IF f = g THEN "final" ELSE IF f = p THEN "resuming" ELSE @,
                                   !.info = IF f = g THEN NoGen ELSE @,
                                   !.top = IF f = r /\ p # NoGen THEN p ELSE @]
      BY <1>1
    <3> QED
      BY <3>1, <1>t DEF GenRec, GenPlaces
  <2>2. gen' \in GenStates
    BY <1>1, <2>1 DEF GenStates
  <2>3. ASSUME NEW f \in Gens
        PROVE  /\ gen'[f].nested = gen[f].nested /\ gen'[f].root = gen[f].root
               /\ gen'[f].ptr = gen[f].ptr /\ gen'[f].except = gen[f].except
               /\ gen'[f].st = IF f = g THEN "final" ELSE IF f = p THEN "resuming" ELSE gen[f].st
               /\ gen'[f].info = IF f = g THEN NoGen ELSE gen[f].info
               /\ gen'[f].top = IF f = r /\ p # NoGen THEN p ELSE gen[f].top
    <3>a. PICK a : a = IF f = g THEN "final" ELSE IF f = p THEN "resuming" ELSE gen[f].st
      OBVIOUS
    <3>b. PICK b : b = IF f = g THEN NoGen ELSE gen[f].info
      OBVIOUS
    <3>c. PICK c : c = IF f = r /\ p # NoGen THEN p ELSE gen[f].top
      OBVIOUS
    <3>1. gen'[f] = [gen[f] EXCEPT !.st = a, !.info = b, !.top = c]
      BY <2>1, <3>a, <3>b, <3>c
    <3>2. gen[f] \in GenRec
      BY <1>t
    <3>3. /\ gen'[f].nested = gen[f].nested /\ gen'[f].root = gen[f].root
          /\ gen'[f].ptr = gen[f].ptr /\ gen'[f].except = gen[f].except
          /\ gen'[f].st = a /\ gen'[f].info = b /\ gen'[f].top = c
      BY <3>1, <3>2 DEF GenRec
    <3> QED
      BY <3>3, <3>a, <3>b, <3>c
  <2> QED
    BY <2>2, <2>3
<1>4. GenTypeOK'
  BY <1>1, <1>2, <1>t, GenTyped DEF GenTypeOK
<1>5. CASE p = NoGen
  <2>1. g = var
    BY <1>0, <1>5, <1>p DEF ChainedOK, NestOK
  <2>2. \A f \in Gens :
          /\ gen'[f].top = gen[f].top /\ gen'[f].info = gen[f].info
          /\ \/ gen'[f].st = gen[f].st
             \/ /\ gen[f].st \notin {"none", "destroyed", "nesting", "resuming", "final"}
                /\ gen'[f].st \notin {"none", "destroyed", "nesting", "resuming"}
          /\ gen[f].st = "none" => (gen'[f].except => gen[f].except)
    BY <1>0, <1>2, <1>5, <1>p
  <2>3. GLive' = GLive /\ FreshOK' /\ ChainedOK' /\ NestAcyclic'
    BY <1>1, <1>2, <2>2, ShapeKept
  <2>4. \A k \in GLive : ~ gen[k].except
    BY <1>0, <1>b, <2>1 DEF ChainedOK, NestOK
  <2>5. \A k \in GLive : ~ gen'[k].except
    BY <1>2, <2>4 DEF GLive
  <2>6. EndOK'
    <3>1. gcur' = NoGen /\ var' = var
      BY <1>1, <1>5
    <3>2. gen'[var].st = "final" /\ \A k \in GLive : k # var => gen'[k].st = "nesting"
      BY <1>2, <1>5, <1>a, <2>1 DEF GLive
    <3> QED
      BY <2>3, <3>1, <3>2 DEF EndOK
  <2>7. ExceptOK'
    BY <1>0, <1>1, <2>3, <2>5 DEF ExceptOK
  <2>8. ~ Pending
    BY <1>0, <2>4, PendingIs
  <2>9. ~ Pending'
    BY <1>0, <1>1, <2>3, <2>5 DEF Pending, FreshOK, GLive
  <2> QED
    BY <1>4, <2>3, <2>6, <2>7, <2>8, <2>9 DEF PendingOK
<1>6. CASE p # NoGen
  <2>1. /\ p \in GLive /\ p \in Gens /\ gen[p].nested = g /\ gen[p].st = "nesting" /\ p # g /\ g # var
        /\ gen[p].root = var /\ r = var
    <3>1. p \in GLive /\ p \in Gens /\ gen[p].nested = g /\ gen[p].st = "nesting" /\ g # var
      BY <1>0, <1>6, <1>p DEF ChainedOK, NestOK, GLive
    <3>2. gen[p].root = var
      BY <1>0, <3>1 DEF ChainedOK, NestOK
    <3> QED
      BY <1>0, <1>6, <1>r, <3>1, <3>2
  <2>2. GLive' = GLive
    <3>1. \A f \in Gens : gen'[f].st \in {"none", "destroyed"} <=> gen[f].st \in {"none", "destroyed"}
      BY <1>0, <1>2, <2>1
    <3> QED
      BY <3>1 DEF GLive
  <2>3. FreshOK'
    BY <1>0, <1>2, <2>1 DEF FreshOK, GLive
  <2>4. NestAcyclic'
    <3>1. \A f \in GLive : gen'[f].nested = gen[f].nested
      BY <1>2 DEF GLive
    <3> QED
      BY <2>2, <3>1 DEF NestAcyclic
  <2>5. ASSUME NEW k \in GLive PROVE NestOK(k)'
    <3>1. NestOK(k) /\ k \in Gens /\ k # NoGen /\ var' = var
      BY <1>1 DEF ChainedOK, GLive
    <3>2. gen'[k].nested = gen[k].nested /\ gen'[k].root = gen[k].root
      BY <1>2, <3>1
    <3>3. gen'[k].nested # NoGen <=> gen'[k].st \in {"nesting", "resuming"}
      BY <1>0, <1>2, <1>a, <2>1, <3>1 DEF NestOK
    <3>4. k # var => \E q \in GLive' : gen'[q].nested = k
      BY <1>2, <2>2, <3>1 DEF NestOK, GLive
    <3>5. ASSUME gen'[k].info # NoGen
          PROVE  /\ gen'[k].info = gen[k].info /\ gen[k].info \in GLive
                 /\ gen'[gen[k].info].nested = k /\ gen'[gen[k].info].st = "nesting"
      <4>1. k # g /\ gen'[k].info = gen[k].info
        BY <1>2, <3>1, <3>5
      <4>2. PICK q : q = gen[k].info
        OBVIOUS
      <4>3. q \in GLive /\ q \in Gens /\ gen[q].nested = k /\ gen[q].st = "nesting"
        BY <3>1, <3>5, <4>1, <4>2 DEF NestOK, GLive
      <4>4. q # g /\ q # p
        BY <1>0, <2>1, <4>1, <4>3
      <4>5. gen'[q].nested = k /\ gen'[q].st = "nesting"
        BY <1>2, <4>3, <4>4
      <4> QED
        BY <4>1, <4>2, <4>3, <4>5
    <3>6. k = var => gen'[k].info = NoGen
      BY <1>2, <2>1, <3>1 DEF NestOK
    <3>7. k # var /\ gen'[k].st # "final" => gen'[k].info # NoGen
      BY <1>0, <1>2, <1>a, <3>1, <2>1 DEF NestOK
    <3> QED
      BY <2>2, <3>1, <3>2, <3>3, <3>4, <3>5, <3>6, <3>7 DEF NestOK
  <2>6. ChainedOK'
    <3>1. var' = var /\ \A f \in GLive : gen'[f].nested = gen[f].nested
      BY <1>1, <1>2 DEF GLive
    <3> QED
      BY <1>0, <2>2, <2>5, <3>1 DEF ChainedOK
  <2>7. EndOK'
    <3>1. gcur' = p /\ var' = var
      BY <1>1
    <3>2. /\ gen'[var].top = p /\ gen'[p].st = "resuming" /\ gen'[p].nested = g /\ gen'[g].st = "final"
          /\ \A k \in GLive : k # p /\ k # g => gen'[k].st = "nesting"
      BY <1>0, <1>2, <1>6, <1>a, <2>1 DEF GLive
    <3> QED
      BY <1>6, <2>1, <2>2, <3>1, <3>2 DEF EndOK
  <2>8. \A k \in GLive : gen[k].except => k = p
    BY <1>0, <1>b, <2>1 DEF ChainedOK
  <2>9. \A k \in GLive : gen'[k].except <=> gen[k].except
    BY <1>2 DEF GLive
  <2>10. ExceptOK'
    <3>1. gcur' = p /\ ~ gexc'
      BY <1>0, <1>1
    <3>2. gen'[p].st = "resuming"
      BY <1>2, <2>1
    <3> QED
      BY <2>2, <2>8, <2>9, <3>1, <3>2 DEF ExceptOK
  <2>11. Pending <=> \E k \in GLive : gen[k].except
    BY <1>0, PendingIs
  <2>12. Pending' <=> \E k \in GLive : gen'[k].except
    BY <1>0, <1>1, <2>2, <2>3 DEF Pending, FreshOK, GLive
  <2> QED
    BY <1>4, <2>3, <2>4, <2>6, <2>7, <2>9, <2>10, <2>11, <2>12 DEF PendingOK
<1> QED
  BY <1>5, <1>6

\* Between two resumptions nothing is pending.
LEMMA ConsumerRuns ==
  ASSUME GenInv, gcur = NoGen
  PROVE  ~ gexc /\ \A k \in GLive : ~ gen[k].except
BY GenAssumption DEF GenInv, ExceptOK, GLive

\* The consumer's generator goes with everything that is nested in it.
LEMMA DestroyGeneratorStep ==
  ASSUME GenInv, DestroyGenerator
  PROVE  GenInv' /\ PendingOK
<1> USE GenAssumption DEF GenInv
<1>0. gcur = NoGen /\ ~ gexc /\ \A k \in GLive : ~ gen[k].except
  BY ConsumerRuns DEF DestroyGenerator
<1>1. gen' = Destroyed(GLive) /\ var' = NoGen /\ last' = NoGen /\ gcur' = gcur /\ gexc' = gexc
  BY NestedInIs DEF DestroyGenerator
<1>t. gen \in GenStates /\ \A f \in Gens : gen[f] \in GenRec
  BY GenFields
<1>2. ASSUME NEW f \in Gens
      PROVE  /\ f \in GLive => gen'[f].st = "destroyed"
             /\ f \notin GLive => gen'[f] = gen[f]
             /\ gen'[f] \in GenRec
  BY <1>1, <1>t DEF Destroyed, GenRec, GenPlaces
<1>3. gen' \in GenStates
  BY <1>1, <1>2 DEF GenStates, Destroyed
<1>4. GLive' = {}
  BY <1>2 DEF GLive
<1>5. GenTypeOK'
  BY <1>0, <1>1, <1>3, GenTyped DEF GenTypeOK
<1>6. FreshOK'
  BY <1>2 DEF FreshOK, GLive
<1>7. ChainedOK' /\ NestAcyclic' /\ ExceptOK' /\ EndOK'
  BY <1>0, <1>1, <1>4 DEF ChainedOK, NestAcyclic, ExceptOK, EndOK
<1>8. ~ Pending
  BY <1>0, PendingIs
<1>9. ~ Pending'
  BY <1>0, <1>1, <1>4, <1>6 DEF Pending, FreshOK, GLive
<1> QED
  BY <1>5, <1>6, <1>7, <1>8, <1>9 DEF PendingOK

\* A new generator takes the place of the old one and all that was nested in it.
LEMMA AssignStep ==
  ASSUME GenInv, NEW g \in Gens, Assign(g)
  PROVE  GenInv' /\ PendingOK
<1> USE GenAssumption DEF GenInv
<1>0. /\ gcur = NoGen /\ ~ gexc /\ \A k \in GLive : ~ gen[k].except
      /\ gen[g].st = "none" /\ g \notin GLive /\ g # NoGen
  BY ConsumerRuns DEF Assign, GLive
<1>1. /\ gen' = [Destroyed(GLive) EXCEPT ![g].st = "initial"]
      /\ var' = g /\ last' = NoGen /\ gcur' = gcur /\ gexc' = gexc
  BY NestedInIs DEF Assign
<1>t. gen \in GenStates /\ \A f \in Gens : gen[f] \in GenRec
  BY GenFields
<1> DEFINE M == Destroyed(GLive)
<1>m. /\ M \in GenStates
      /\ \A f \in Gens : f \in GLive => M[f].st = "destroyed"
      /\ \A f \in Gens : f \notin GLive => M[f] = gen[f]
  <2>1. ASSUME NEW f \in Gens
        PROVE  /\ f \in GLive => M[f].st = "destroyed"
               /\ f \notin GLive => M[f] = gen[f]
               /\ M[f] \in GenRec
    BY <1>t DEF Destroyed, GenRec, GenPlaces
  <2> QED
    BY <2>1 DEF GenStates, Destroyed
<1>2. /\ gen' \in GenStates /\ gen'[g] = [gen[g] EXCEPT !.st = "initial"]
      /\ \A f \in Gens : f # g => gen'[f] = M[f]
  <2>1. gen' = [M EXCEPT ![g].st = "initial"] /\ M[g] = gen[g]
    BY <1>0, <1>1, <1>m
  <2> HIDE DEF M
  <2>2. [gen[g] EXCEPT !.st = "initial"] \in GenRec
    BY <1>t DEF GenRec, GenPlaces
  <2> QED
    BY <1>m, <2>1, <2>2 DEF GenStates
<1> HIDE DEF M
<1>3. /\ gen'[g].st = "initial" /\ gen'[g].top = g /\ gen'[g].info = NoGen /\ gen'[g].nested = NoGen
      /\ ~ gen'[g].except
  <2>1. gen[g].top = g /\ gen[g].info = NoGen /\ gen[g].nested = NoGen /\ ~ gen[g].except
    BY <1>0 DEF FreshOK
  <2>2. gen[g] \in GenRec
    BY <1>t
  <2> QED
    BY <1>2, <2>1, <2>2 DEF GenRec
<1>f. \A f \in Gens : f # g => /\ f \in GLive => gen'[f].st = "destroyed"
                               /\ f \notin GLive => gen'[f] = gen[f]
  BY <1>2, <1>m
<1>4. GLive' = {g}
  BY <1>3, <1>f DEF GLive
<1>5. GenTypeOK'
  BY <1>0, <1>1, <1>2, GenTyped DEF GenTypeOK
<1>6. FreshOK'
  BY <1>3, <1>f DEF FreshOK, GLive
<1>7. ChainedOK'
  <2>1. var' = g
    BY <1>1
  <2>2. NestOK(g)'
    BY <1>0, <1>3, <2>1 DEF NestOK
  <2> QED
    BY <1>0, <1>4, <2>1, <2>2 DEF ChainedOK
<1>8. NestAcyclic'
  BY <1>0, <1>3, <1>4 DEF NestAcyclic
<1>9. EndOK' /\ ExceptOK'
  <2>1. gcur' = NoGen /\ var' = g /\ ~ gexc'
    BY <1>0, <1>1
  <2> QED
    BY <1>3, <1>4, <2>1 DEF EndOK, ExceptOK
<1>10. ~ Pending
  BY <1>0, PendingIs
<1>11. ~ Pending'
  <2>1. ~ gexc'
    BY <1>0, <1>1
  <2> QED
    BY <1>3, <1>4, <1>6, <2>1 DEF Pending, FreshOK, GLive
<1> QED
  BY <1>5, <1>6, <1>7, <1>8, <1>9, <1>10, <1>11 DEF PendingOK

\* elements_of appends a frame to the chain, whose root is the consumer's generator.
LEMMA YieldElementsStep ==
  ASSUME GenInv, NEW g \in Gens, NEW h \in Gens, YieldElements(g, h)
  PROVE  GenInv' /\ PendingOK
<1> USE GenAssumption DEF GenInv
<1>0. gcur = g /\ gen[g].st = "running" /\ ~ gexc /\ gen[h].st = "none" /\ h \notin GLive /\ h # g /\ h # NoGen
  BY DEF YieldElements, GenRuns, GLive
<1>a. /\ g \in GLive /\ var # NoGen /\ var \in GLive /\ var \in Gens /\ g # NoGen /\ h # var
      /\ \A k \in GLive : k # g => gen[k].st = "nesting"
      /\ \A k \in GLive : ~ gen[k].except
      /\ gen[g].nested = NoGen
      /\ gen[g].info = NoGen <=> g = var
  BY <1>0, RunningEnd
<1>b. gen[h].top = h /\ gen[h].info = NoGen /\ gen[h].nested = NoGen /\ ~ gen[h].except
  BY <1>0 DEF FreshOK
<1>r. (IF gen[g].info # NoGen THEN gen[gen[g].info].root ELSE g) = var
  <2>1. gen[g].info # NoGen => gen[gen[g].info].nested = g /\ gen[g].info \in GLive
    BY <1>a DEF ChainedOK, NestOK
  <2>2. gen[g].info # NoGen => gen[gen[g].info].root = var
    BY <1>a, <2>1 DEF ChainedOK, NestOK
  <2> QED
    BY <1>a, <2>2
<1>1. /\ gen' = [[gen EXCEPT ![g].st = "nesting", ![g].nested = h, ![g].root = var,
                             ![g].except = FALSE, ![h].st = "running", ![h].info = g]
                 EXCEPT ![var].top = h]
      /\ gcur' = h /\ var' = var /\ gexc' = gexc /\ last' = last
  BY <1>r DEF YieldElements
<1>t. gen \in GenStates /\ \A f \in Gens : gen[f] \in GenRec
  BY GenFields
<1>2. /\ gen' \in GenStates
      /\ \A f \in Gens : f # g /\ f # h =>
           /\ gen'[f].nested = gen[f].nested /\ gen'[f].root = gen[f].root /\ gen'[f].info = gen[f].info
           /\ gen'[f].st = gen[f].st /\ gen'[f].except = gen[f].except
      /\ \A f \in Gens : f # var => gen'[f].top = gen[f].top
      /\ /\ gen'[g].st = "nesting" /\ gen'[g].nested = h /\ gen'[g].root = var /\ ~ gen'[g].except
         /\ gen'[g].info = gen[g].info
      /\ /\ gen'[h].st = "running" /\ gen'[h].info = g /\ gen'[h].nested = NoGen /\ ~ gen'[h].except
      /\ gen'[var].top = h
  <2>m. PICK M : M = [gen EXCEPT ![g].st = "nesting", ![g].nested = h, ![g].root = var,
                                 ![g].except = FALSE, ![h].st = "running", ![h].info = g]
    OBVIOUS
  <2>1. M[g] = [gen[g] EXCEPT !.st = "nesting", !.nested = h, !.root = var, !.except = FALSE]
        /\ M[h] = [gen[h] EXCEPT !.st = "running", !.info = g]
        /\ \A f \in Gens : f # g /\ f # h => M[f] = gen[f]
    BY <1>0, <1>t, <2>m DEF GenStates
  <2>2. /\ M[g] \in GenRec /\ M[g].st = "nesting" /\ M[g].nested = h /\ M[g].root = var
        /\ M[g].info = gen[g].info /\ M[g].top = gen[g].top /\ ~ M[g].except
    <3>1. gen[g] \in GenRec /\ M[g] = [gen[g] EXCEPT !.st = "nesting", !.nested = h, !.root = var, !.except = FALSE]
      BY <1>t, <2>1
    <3> QED
      BY <1>a, <3>1 DEF GenRec, GenPlaces
  <2>3. /\ M[h] \in GenRec /\ M[h].st = "running" /\ M[h].info = g /\ M[h].top = gen[h].top
        /\ M[h].nested = gen[h].nested /\ M[h].except = gen[h].except
    <3>1. gen[h] \in GenRec /\ M[h] = [gen[h] EXCEPT !.st = "running", !.info = g]
      BY <1>t, <2>1
    <3> QED
      BY <3>1 DEF GenRec, GenPlaces
  <2>4. M \in GenStates
    <3>1. \A f \in Gens : M[f] \in GenRec
      BY <1>t, <2>1, <2>2, <2>3
    <3> QED
      BY <1>t, <2>m, <3>1 DEF GenStates
  <2>5. gen' = [M EXCEPT ![var].top = h]
    BY <1>1, <2>m
  <2>6. gen'[var] = [M[var] EXCEPT !.top = h] /\ M[var] \in GenRec /\ \A f \in Gens : f # var => gen'[f] = M[f]
    BY <1>a, <2>4, <2>5 DEF GenStates
  <2>7. /\ gen'[var].top = h /\ gen'[var] \in GenRec
        /\ gen'[var].nested = M[var].nested /\ gen'[var].root = M[var].root /\ gen'[var].info = M[var].info
        /\ gen'[var].st = M[var].st /\ gen'[var].except = M[var].except
    <3>1. gen'[var] = [M[var] EXCEPT !.top = h] /\ M[var] \in GenRec
      BY <2>6
    <3> QED
      BY <3>1 DEF GenRec
  <2>8. gen' \in GenStates
    BY <2>4, <2>5, <2>7, <1>a DEF GenStates
  <2>9. \A f \in Gens : /\ gen'[f].nested = M[f].nested /\ gen'[f].root = M[f].root
                        /\ gen'[f].info = M[f].info /\ gen'[f].st = M[f].st /\ gen'[f].except = M[f].except
    BY <2>6, <2>7
  <2>10. \A f \in Gens : f # var => gen'[f].top = gen[f].top
    <3>1. \A f \in Gens : M[f].top = gen[f].top
      <4>1. \A f \in Gens : f # g /\ f # h => M[f] = gen[f]
        BY <2>1
      <4>2. M[g].top = gen[g].top /\ M[h].top = gen[h].top
        BY <2>2, <2>3
      <4> QED
        BY <4>1, <4>2
    <3>2. \A f \in Gens : f # var => gen'[f] = M[f]
      BY <2>6
    <3> QED
      BY <3>1, <3>2
  <2>11. \A f \in Gens : f # g /\ f # h =>
           /\ gen'[f].nested = gen[f].nested /\ gen'[f].root = gen[f].root /\ gen'[f].info = gen[f].info
           /\ gen'[f].st = gen[f].st /\ gen'[f].except = gen[f].except
    BY <2>1, <2>9
  <2>12. /\ gen'[g].st = "nesting" /\ gen'[g].nested = h /\ gen'[g].root = var /\ ~ gen'[g].except
         /\ gen'[g].info = gen[g].info
    BY <2>2, <2>9
  <2>13. gen'[h].st = "running" /\ gen'[h].info = g /\ gen'[h].nested = NoGen /\ ~ gen'[h].except
    BY <1>b, <2>3, <2>9
  <2> QED
    BY <2>7, <2>8, <2>10, <2>11, <2>12, <2>13
<1>3. GLive' = GLive \cup {h}
  BY <1>0, <1>2, <1>a DEF GLive
<1>4. GenTypeOK'
  BY <1>0, <1>1, <1>2, GenTyped DEF GenTypeOK
<1>5. FreshOK'
  <2> SUFFICES ASSUME NEW f \in Gens, gen'[f].st = "none"
               PROVE  gen'[f].top = f /\ gen'[f].info = NoGen /\ gen'[f].nested = NoGen /\ ~ gen'[f].except
    BY DEF FreshOK
  <2>1. f # g /\ f # h /\ gen[f].st = "none" /\ f # var
    BY <1>2, <1>a DEF GLive
  <2> QED
    BY <1>2, <2>1 DEF FreshOK
<1>6. ASSUME NEW k \in GLive' PROVE NestOK(k)'
  <2>v. var' = var
    BY <1>1
  <2>1. CASE k = h
    <3>1. \E p \in GLive' : gen'[p].nested = h
      BY <1>2, <1>3, <1>a
    <3> QED
      BY <1>0, <1>2, <1>3, <1>a, <2>1, <2>v, <3>1 DEF NestOK
  <2>2. CASE k # h
    <3>1. NestOK(k) /\ k \in GLive /\ k \in Gens /\ k # NoGen
      BY <1>3, <2>2 DEF ChainedOK, GLive
    <3>2. gen'[k].info = gen[k].info
      BY <1>2, <2>2, <3>1
    <3>3. k # var => \E p \in GLive' : gen'[p].nested = k
      <4> SUFFICES ASSUME k # var PROVE \E p \in GLive' : gen'[p].nested = k
        OBVIOUS
      <4>1. PICK p \in GLive : gen[p].nested = k
        BY <3>1 DEF NestOK
      <4>2. p # g /\ p # h /\ p \in Gens
        BY <1>0, <1>a, <3>1, <4>1 DEF GLive
      <4> QED
        BY <1>2, <1>3, <4>1, <4>2
    <3>4. ASSUME gen[k].info # NoGen
          PROVE  gen[k].info \in GLive' /\ gen'[gen[k].info].nested = k /\ gen'[gen[k].info].st = "nesting"
      <4>1. PICK q : q = gen[k].info
        OBVIOUS
      <4>2. q \in GLive /\ q \in Gens /\ gen[q].nested = k /\ gen[q].st = "nesting"
        BY <3>1, <3>4, <4>1 DEF NestOK, GLive
      <4>3. q # g /\ q # h
        BY <1>0, <4>2
      <4>4. gen'[q].nested = k /\ gen'[q].st = "nesting" /\ q \in GLive'
        BY <1>2, <1>3, <4>2, <4>3
      <4> QED
        BY <4>1, <4>4
    <3>5. gen'[k].nested # NoGen <=> gen'[k].st \in {"nesting", "resuming"}
      BY <1>0, <1>2, <2>2, <3>1 DEF NestOK
    <3>6. gen'[k].nested # NoGen => gen'[k].nested \in GLive' /\ gen'[k].nested # var /\ gen'[k].root = var
      BY <1>2, <1>3, <1>a, <2>2, <3>1 DEF NestOK
    <3>7. /\ k = var => gen'[k].info = NoGen
          /\ k # var /\ gen'[k].st # "final" => gen'[k].info # NoGen
      BY <1>0, <1>2, <2>2, <3>1, <3>2 DEF NestOK
    <3> QED
      BY <2>v, <3>2, <3>3, <3>4, <3>5, <3>6, <3>7 DEF NestOK
  <2> QED
    BY <2>1, <2>2
<1>7. ChainedOK'
  <2>1. var' = var /\ var \in GLive'
    BY <1>1, <1>3, <1>a
  <2>2. \A k \in GLive' : k = g \/ k = h \/ (k \in GLive /\ gen'[k].nested = gen[k].nested /\ gen[k].nested # h)
    BY <1>0, <1>2, <1>3, <1>b DEF GLive, ChainedOK, NestOK
  <2>3. ASSUME NEW a \in GLive', NEW b \in GLive', gen'[a].nested = gen'[b].nested, gen'[a].nested # NoGen
        PROVE  a = b
    <3>1. a # h /\ b # h /\ gen'[g].nested = h
      BY <1>2, <2>3
    <3>2. CASE a = g \/ b = g
      BY <2>2, <2>3, <3>1, <3>2
    <3>3. CASE a # g /\ b # g
      BY <2>2, <2>3, <3>1, <3>3 DEF ChainedOK
    <3> QED
      BY <3>2, <3>3
  <2> QED
    BY <1>6, <1>a, <2>1, <2>3 DEF ChainedOK
<1>8. NestAcyclic'
  <2> SUFFICES ASSUME NEW T \in SUBSET GLive', T # {} PROVE \E w \in T : \A d \in T : gen'[d].nested # w
    BY DEF NestAcyclic
  <2>1. CASE T \ {h} = {}
    <3>1. T = {h}
      BY <2>1
    <3> QED
      BY <1>0, <1>2, <3>1
  <2>2. CASE T \ {h} # {}
    <3>1. T \ {h} \in SUBSET GLive
      BY <1>3
    <3>2. PICK w \in T \ {h} : \A d \in T \ {h} : gen[d].nested # w
      BY <2>2, <3>1 DEF NestAcyclic
    <3>3. w # NoGen /\ w # h
      BY <3>1, <3>2 DEF GLive
    <3>4. \A d \in T : d = g \/ d = h \/ gen'[d].nested = gen[d].nested
      BY <1>2, <3>1 DEF GLive
    <3>5. \A d \in T : gen'[d].nested # w
      BY <1>2, <3>2, <3>3, <3>4
    <3> QED
      BY <3>2, <3>5
  <2> QED
    BY <2>1, <2>2
<1>9. EndOK'
  <2>1. /\ gen'[var].top = h /\ gen'[h].st = "running"
        /\ \A k \in GLive' : k # h => gen'[k].st = "nesting"
    BY <1>2, <1>3, <1>a DEF GLive
  <2>2. gcur' = h /\ var' = var /\ h \in GLive'
    BY <1>1, <1>3
  <2> QED
    BY <1>0, <2>1, <2>2 DEF EndOK
<1>10. \A k \in GLive' : ~ gen'[k].except
  BY <1>2, <1>3, <1>a DEF GLive
<1>11. ~ gexc'
  BY <1>0, <1>1
<1>12. ExceptOK'
  BY <1>10, <1>11 DEF ExceptOK
<1>13. ~ Pending
  BY <1>0, <1>a, PendingIs
<1>14. ~ Pending'
  BY <1>5, <1>10, <1>11 DEF Pending, FreshOK, GLive
<1> QED
  BY <1>4, <1>5, <1>7, <1>8, <1>9, <1>12, <1>13, <1>14 DEF PendingOK

\* One step of the whole: the invariant is kept, and so are the exceptions.
LEMMA GenInvStep ==
  ASSUME GenInv, setup \in Setups, [Next]_vars
  PROVE  GenInv' /\ (UNCHANGED genVars \/ PendingOK)
<1>0. setup.gens \subseteq Gens
  BY SetupAssumption
<1>1. ASSUME UNCHANGED genVars PROVE GenInv' /\ (UNCHANGED genVars \/ PendingOK)
  BY <1>1, GenIdle
<1>2. CASE UNCHANGED vars
  <2>1. UNCHANGED genVars
    BY <1>2 DEF vars, genVars
  <2> QED
    BY <1>1, <2>1
<1>3. CASE TaskMoves
  <2>1. UNCHANGED genVars
    BY <1>3 DEF TaskMoves
  <2> QED
    BY <1>1, <2>1
<1>4. ASSUME NEW f \in setup.tasks, TaskLeaves(f)
      PROVE  GenInv' /\ (UNCHANGED genVars \/ PendingOK)
  <2>1. DestroyGenerator \/ UNCHANGED genVars
    BY <1>4 DEF TaskLeaves
  <2> QED
    BY <1>1, <2>1, DestroyGeneratorStep
<1>5. ASSUME NEW f \in setup.tasks, NEW g \in setup.gens, HolderAssigns(f, g)
      PROVE  GenInv' /\ (UNCHANGED genVars \/ PendingOK)
  <2>1. Assign(g) /\ g \in Gens
    BY <1>0, <1>5 DEF HolderAssigns
  <2> QED
    BY <2>1, AssignStep
<1>6. CASE HolderIterates
  <2>1. Begin \/ Increment
    BY <1>6 DEF HolderIterates
  <2> QED
    BY <2>1, BeginStep, IncrementStep
<1>7. CASE GeneratorMoves
  <2>1. PICK g \in setup.gens : GenStep(setup.gens, g)
    BY <1>7 DEF GeneratorMoves
  <2>2. g \in Gens
    BY <1>0
  <2>3. ASSUME NEW v \in Values, Yield(g, v) PROVE GenInv' /\ PendingOK
    BY <2>2, <2>3, YieldStep
  <2>4. ASSUME NEW h \in setup.gens, YieldElements(g, h) PROVE GenInv' /\ PendingOK
    BY <1>0, <2>2, <2>4, YieldElementsStep
  <2>5. ASSUME GenThrow(g) \/ GenCatch(g) PROVE GenInv' /\ PendingOK
    BY <2>2, <2>5, GenThrowStep
  <2>6. ASSUME GenReturn(g) PROVE GenInv' /\ PendingOK
    BY <2>2, <2>6, GenReturnStep
  <2>7. ASSUME GenUnhandled(g) PROVE GenInv' /\ PendingOK
    BY <2>2, <2>7, GenUnhandledStep
  <2>8. ASSUME GenFinalSuspend(g) PROVE GenInv' /\ PendingOK
    BY <2>2, <2>8, GenFinalSuspendStep
  <2>9. ASSUME NestedResume(g) PROVE GenInv' /\ PendingOK
    BY <2>2, <2>9, NestedResumeStep
  <2> QED
    BY <2>1, <2>3, <2>4, <2>5, <2>6, <2>7, <2>8, <2>9 DEF GenStep
<1>8. CASE GeneratorThrows
  <2>1. PICK g \in setup.gens : GenEscape(g)
    BY <1>8 DEF GeneratorThrows
  <2> QED
    BY <1>0, <2>1, GenEscapeStep
<1> QED
  BY <1>2, <1>3, <1>4, <1>5, <1>6, <1>7, <1>8 DEF Next

\* No generator exists in the beginning.
LEMMA GenInvInit ==
  ASSUME GenInit
  PROVE  GenInv
<1> USE GenAssumption
<1>1. ASSUME NEW g \in Gens
      PROVE  /\ gen[g].st = "none" /\ gen[g].top = g /\ gen[g].info = NoGen /\ gen[g].nested = NoGen
             /\ ~ gen[g].except
  BY DEF GenInit
<1>2. GenTypeOK
  BY DEF GenInit, GenTypeOK, GenPlaces
<1>3. GLive = {}
  BY <1>1 DEF GLive
<1>4. FreshOK
  BY <1>1 DEF FreshOK
<1>5. var = NoGen /\ gcur = NoGen /\ gexc = FALSE
  BY DEF GenInit
<1>6. ChainedOK /\ NestAcyclic /\ EndOK /\ ExceptOK
  BY <1>3, <1>5 DEF ChainedOK, NestAcyclic, EndOK, ExceptOK
<1> QED
  BY <1>2, <1>4, <1>6 DEF GenInv

\* The chain of nested generators is sound whatever the tasks around it do.
THEOREM GeneratorInvariant == Spec => []GenInv
<1>1. Init => GenInv
  BY GenInvInit DEF Init
<1>2. GenInv /\ setup \in Setups /\ [Next]_vars => GenInv'
  BY GenInvStep
<1> QED
  BY <1>1, <1>2, SetupKept, PTL DEF Spec

\* The generator frames that exist are the ones nested in the consumer's, _Top
\* of the root names the innermost, and *it reads what was yielded last, to any
\* depth of nesting and with any number of generators assigned in turn.
THEOREM GeneratorTopIsInnermost == Spec => []TopIsInnermost
  BY GeneratorInvariant, GenInvImplies, PTL

\* No exception is lost, made up or doubled between the frames of nested
\* generators: only a catch, or the consumer, takes a pending one.
THEOREM GeneratorExceptionsKept == Spec => GenExceptionKept
<1>1. GenInv /\ GenInv' /\ setup \in Setups /\ [Next]_vars => [ExceptionKept]_genVars
  <2> SUFFICES ASSUME GenInv, GenInv', setup \in Setups, [Next]_vars
               PROVE  [ExceptionKept]_genVars
    OBVIOUS
  <2>1. UNCHANGED genVars \/ PendingOK
    BY GenInvStep
  <2>2. ~ (gexc' /\ \E g \in Gens : gen'[g].except /\ gen'[g].st # "destroyed")
    BY DEF GenInv, ExceptOK, FreshOK, GLive
  <2> QED
    BY <2>1, <2>2 DEF PendingOK, ExceptionKept
<1>2. GenExceptionKept <=> [][ExceptionKept]_genVars
  BY DEF GenExceptionKept, ExceptionKept
<1> QED
  BY <1>1, <1>2, GeneratorInvariant, SetupKept, PTL DEF Spec
=============================================================================
