------------------------------ MODULE Spinlock ------------------------------
(***************************************************************************)
(* spin_lock() and spin_unlock() (kern/spinlock.c), one memory access per  *)
(* step, compiled with DEBUG_SPINLOCK as kern/spinlock.h has it.  The      *)
(* order of the accesses is the program's: x86 keeps a processor's stores  *)
(* in order, and xchg is a locked instruction.  The call stack kept in     *)
(* pcs[] is only ever printed and is left out.                             *)
(***************************************************************************)
CONSTANTS
  Cpus,   \* the processors
  NoCpu   \* the null struct Cpu *

ASSUME SpinlockAssumption == NoCpu \notin Cpus

VARIABLES
  locked,  \* lk->locked
  cpu,     \* lk->cpu, the processor on record as the holder
  pc       \* where each processor is, see Places

vars == <<locked, cpu, pc>>

\* out: not using the lock;  lock_locked, lock_cpu: the two reads of holding()
\* in spin_lock();  xchg: spinning;  record: about to set lk->cpu;  held: in
\* the kernel;  unlock_locked, unlock_cpu: the two reads of holding() in
\* spin_unlock();  clear: about to clear lk->cpu;  release: about to xchg 0.
Places == {"out", "lock_locked", "lock_cpu", "xchg", "record", "held",
           "unlock_locked", "unlock_cpu", "clear", "release", "panic"}

Goto(c, place) == pc' = [pc EXCEPT ![c] = place]

Init ==
  /\ locked = FALSE
  /\ cpu = NoCpu
  /\ pc = [c \in Cpus |-> "out"]

\* spin_lock() is called; holding() reads lk->locked ...
LockCall(c) ==
  /\ pc[c] = "out"
  /\ Goto(c, "lock_locked")
  /\ UNCHANGED <<locked, cpu>>

LockReadLocked(c) ==
  /\ pc[c] = "lock_locked"
  /\ Goto(c, IF locked THEN "lock_cpu" ELSE "xchg")
  /\ UNCHANGED <<locked, cpu>>

\* ... and then lk->cpu, which may have changed hands in between.
LockReadCpu(c) ==
  /\ pc[c] = "lock_cpu"
  /\ Goto(c, IF cpu = c THEN "panic" ELSE "xchg")
  /\ UNCHANGED <<locked, cpu>>

\* Mutant: the flag is read and then set, not exchanged.
Xchg_NotAtomic(c) ==
  /\ pc[c] = "xchg"
  /\ locked' = TRUE
  /\ Goto(c, "record")
  /\ UNCHANGED cpu

\* Mutant: one attempt, no loop.
Xchg_Once(c) ==
  /\ pc[c] = "xchg"
  /\ locked' = TRUE
  /\ Goto(c, IF locked THEN "out" ELSE "record")
  /\ UNCHANGED cpu

\* The xchg that finds the lock free.  One that does not changes nothing.
Xchg(c) ==
  /\ pc[c] = "xchg"
  /\ ~ locked
  /\ locked' = TRUE
  /\ Goto(c, "record")
  /\ UNCHANGED cpu

Record(c) ==
  /\ pc[c] = "record"
  /\ cpu' = c
  /\ Goto(c, "held")
  /\ UNCHANGED locked

\* spin_unlock() is called; holding() again.
UnlockCall(c) ==
  /\ pc[c] = "held"
  /\ Goto(c, "unlock_locked")
  /\ UNCHANGED <<locked, cpu>>

UnlockReadLocked(c) ==
  /\ pc[c] = "unlock_locked"
  /\ Goto(c, IF locked THEN "unlock_cpu" ELSE "panic")
  /\ UNCHANGED <<locked, cpu>>

UnlockReadCpu(c) ==
  /\ pc[c] = "unlock_cpu"
  /\ Goto(c, IF cpu = c THEN "clear" ELSE "panic")
  /\ UNCHANGED <<locked, cpu>>

\* Mutant: the record of the holder is left behind.
Clear_Not(c) ==
  /\ pc[c] = "clear"
  /\ Goto(c, "release")
  /\ UNCHANGED <<locked, cpu>>

Clear(c) ==
  /\ pc[c] = "clear"
  /\ cpu' = NoCpu
  /\ Goto(c, "release")
  /\ UNCHANGED locked

Release(c) ==
  /\ pc[c] = "release"
  /\ locked' = FALSE
  /\ Goto(c, "out")
  /\ UNCHANGED cpu

\* The steps of spin_lock() and those of spin_unlock() and its caller.
Acquiring(c) == LockReadLocked(c) \/ LockReadCpu(c) \/ Xchg(c) \/ Record(c)
Leaving(c)   == UnlockCall(c) \/ UnlockReadLocked(c) \/ UnlockReadCpu(c) \/ Clear(c) \/ Release(c)

Next == \E c \in Cpus : LockCall(c) \/ Acquiring(c) \/ Leaving(c)

Spec == Init /\ [][Next]_vars

\* A processor that has entered spin_lock() or holds the lock keeps running:
\* interrupts are off in the kernel.
FairSpec == Spec /\ \A c \in Cpus : WF_vars(Acquiring(c)) /\ WF_vars(Leaving(c))

-----------------------------------------------------------------------------
\* Types.
TypeOK ==
  /\ locked \in BOOLEAN
  /\ cpu \in Cpus \cup {NoCpu}
  /\ pc \in [Cpus -> Places]

\* Places between the exchange that took the lock and the one that frees it.
Owns(c) == pc[c] \in {"record", "held", "unlock_locked", "unlock_cpu", "clear", "release"}

\* Two processors are never between lock_kernel() and unlock_kernel() at once.
MutualExclusion == \A c, d \in Cpus : Owns(c) /\ Owns(d) => c = d

\* The debugging checks never raise a false alarm: neither "already holding"
\* nor "cannot release", although holding() reads two fields that other
\* processors write between the reads.
NoPanic == \A c \in Cpus : pc[c] # "panic"

\* The lock's owner, as the kernel sees it.
owner == IF \E c \in Cpus : Owns(c) THEN CHOOSE c \in Cpus : Owns(c) ELSE NoCpu

\* The spin lock is the mutex that the kernel expects: every memory access is
\* an acquisition, a release, or of no account.
M == INSTANCE Mutex

ImplementsMutex == M!Spec

\* Nobody waits for a lock that nobody takes: while processors spin, the lock
\* keeps being acquired.  (Which of them gets it is up to the hardware.)
SomebodyGetsIn ==
  (\E c \in Cpus : pc[c] = "xchg") ~> (\E c \in Cpus : pc[c] = "held")
=============================================================================
