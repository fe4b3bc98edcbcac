------------------------------- MODULE Mutex --------------------------------
(***************************************************************************)
(* What the kernel expects of the big kernel lock (kern/spinlock.h): at    *)
(* most one processor has it, and only its owner gives it back.            *)
(***************************************************************************)
CONSTANTS
  Cpus,   \* the processors
  NoCpu   \* "nobody": the null struct Cpu *

VARIABLE owner

Init == owner = NoCpu

\* lock_kernel() returns to c.
Acquire(c) == owner = NoCpu /\ owner' = c

\* unlock_kernel() by c.
Release(c) == owner = c /\ owner' = NoCpu

Next == \E c \in Cpus : Acquire(c) \/ Release(c)

Spec == Init /\ [][Next]_owner
=============================================================================
