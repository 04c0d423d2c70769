----------------------------- MODULE FrameAlloc -----------------------------
(***************************************************************************)
(* Where a generator's coroutine frame lives: _Promise_allocator in        *)
(* include/co_context/generator.hpp.  operator new gets a number of        *)
(* _Aligned_blocks, and puts behind the frame what operator delete will    *)
(* need: the allocator (unless every instance of its type is as good) and, *)
(* if the allocator's type is erased, the function that deallocates.       *)
(* Addresses and sizes are in bytes.                                       *)
(***************************************************************************)
EXTENDS Integers

CONSTANTS BlockSize,     \* sizeof(_Aligned_block) and its alignment
          FnSize         \* sizeof(_Dealloc_fn)

\* How a program makes its frames: whether the allocator's type is erased, the
\* allocator (its sizeof is a multiple of its alignof, and alignments are powers
\* of two, one of which divides the other; one that is `stored' has state), the
\* size of the frame, and an address that the allocator returns.
IsLayout(l) ==
  /\ l.erased \in BOOLEAN /\ l.al.stored \in BOOLEAN
  /\ l.al.align \in Nat \ {0} /\ l.al.size \in Nat /\ l.al.size % l.al.align = 0
  /\ l.al.align % BlockSize = 0 \/ BlockSize % l.al.align = 0
  /\ l.size \in Nat /\ l.ptr \in Nat /\ l.ptr % BlockSize = 0

ASSUME AllocAssumption == BlockSize \in Nat \ {0} /\ FnSize \in Nat

\* (address + alignof - 1) & ~(alignof - 1), for a power of two
AlignUp(address, align) == ((address + align - 1) \div align) * align

\* (std::max)(alignof(_Alloc), sizeof(_Aligned_block))
Align(a) == IF a.align > BlockSize THEN a.align ELSE BlockSize

\* What lies between the frame and the allocator: _Dealloc_fn, in the
\* type-erased _Promise_allocator<void>.
FnRoom(erased) == IF erased THEN FnSize ELSE 0

\* Mutant: the slack of an over-aligned allocator is forgotten.
CountTight(erased, a, size) ==
  IF a.stored THEN (size + FnRoom(erased) + a.size + BlockSize - 1) \div BlockSize
  ELSE (size + FnRoom(erased) + BlockSize - 1) \div BlockSize

\* _Count in _Allocate
Count(erased, a, size) ==
  IF a.stored THEN (size + FnRoom(erased) + a.size + Align(a) - 1) \div BlockSize
  ELSE (size + FnRoom(erased) + BlockSize - 1) \div BlockSize

\* _Al_address in _Allocate
StoredAt(erased, a, ptr, size) == AlignUp(ptr + size + FnRoom(erased), a.align)

\* _Al_address and _Count in operator delete and in the _Dealloc lambdas; the
\* erased ones add sizeof(_Dealloc_fn) to _Size first
LoadedFrom(erased, a, ptr, size) ==
  LET _Size == IF erased THEN size + FnSize ELSE size IN AlignUp(ptr + _Size, a.align)

DeallocCount(erased, a, size) ==
  IF a.stored THEN LET _Size == IF erased THEN size + FnSize ELSE size
                   IN  (_Size + a.size + Align(a) - 1) \div BlockSize
  ELSE (size + FnRoom(erased) + BlockSize - 1) \div BlockSize

=============================================================================
