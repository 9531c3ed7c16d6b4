---------------------------- MODULE MemoryOrder ----------------------------
(***************************************************************************)
(* What the C++ memory model lets the threads of this program conclude      *)
(* from an atomic operation.  The store is a message; a release store       *)
(* carries everything its thread knows, an acquire load that reads the      *)
(* message learns it.  Knowledge is a set of accesses (what happens before  *)
(* the thread's next step) or, where one thread's accesses are numbered,    *)
(* the number of the latest of them.                                        *)
(***************************************************************************)
EXTENDS Naturals

ReleaseOrders == {"release", "acq_rel"}
AcquireOrders == {"acquire", "acq_rel"}

\* Numbered accesses: the message of a store, and the knowledge after a load.
Carried(order, known) == IF order \in ReleaseOrders THEN known ELSE 0
Learned(order, known, message) ==
    IF order \in AcquireOrders /\ message > known THEN message ELSE known

\* Sets of accesses.
CarriedSet(order, known) == IF order \in ReleaseOrders THEN known ELSE {}
LearnedSet(order, known, message) ==
    IF order \in AcquireOrders THEN known \union message ELSE known
=============================================================================
