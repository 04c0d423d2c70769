---------------------------- MODULE MC_IoContext ----------------------------
(***************************************************************************)
(* Model checking of IoContext: the programs that are checked.  k1 is      *)
(* spawned on c1 before start(); the other coroutine during the run.       *)
(***************************************************************************)
EXTENDS IoContext

CONSTANTS c1, c2, k1

One == [ctx |-> {c1}, entry |-> [c \in {c1} |-> <<k1>>], ops |-> {}, fuel |-> 3,
        msg_ring |-> TRUE, skip_fails |-> FALSE, signals |-> TRUE]

Two == [One EXCEPT !.ctx = {c1, c2},
                   !.entry = [c \in {c1, c2} |-> IF c = c1 THEN <<k1>> ELSE <<>>]]

\* one context: requests that post cqes, requests that do not
Single == {[One EXCEPT !.ops = {"io", "spawn"} \cup o] :
             o \in {{"link", "yield"}, {"timeout", "detach"}}}

\* coroutines handed to and fro, in either build
Transfer == {[Two EXCEPT !.ops = {"io", "spawn", "resume_on"}, !.fuel = 2, !.msg_ring = b] :
               b \in BOOLEAN}

\* a context told to stop while the other may still send to it
Stopping == [Two EXCEPT !.ops = {"io", "spawn", "stop", "prepare"}, !.signals = FALSE]

\* An awaiter constructed, and awaited only after the coroutine has been away.
PrepareYield == {[One EXCEPT !.ops = {"prepare", "yield"}, !.fuel = 2]}

\* The same on another context, and detached requests that fail.
Careless == PrepareYield
  \cup {[Two EXCEPT !.ops = {"prepare", "resume_on"}, !.fuel = 2, !.msg_ring = b] : b \in BOOLEAN}
  \cup {[One EXCEPT !.ops = {"io", "spawn", "detach"}, !.fuel = 2, !.skip_fails = TRUE]}

Programs == Single \cup Transfer \cup {Stopping} \cup Careless
=============================================================================
