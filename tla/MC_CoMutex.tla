----------------------------- MODULE MC_CoMutex -----------------------------
(***************************************************************************)
(* Model checking of CoMutex and of its refinement of FifoLock.            *)
(***************************************************************************)
EXTENDS CoMutexFifo
=============================================================================
