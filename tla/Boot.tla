-------------------------------- MODULE Boot --------------------------------
(***************************************************************************)
(* Bringing up the processors: mp_init() (kern/mpconfig.c) reads the       *)
(* configuration table, boot_aps() (kern/init.c) starts the application    *)
(* processors (APs) one by one, and each of them goes through mpentry.S    *)
(* and mp_main() to the scheduler.                                         *)
(*                                                                         *)
(* A processor is named by its local APIC id.  Its struct Cpu is the entry *)
(* of cpus[] at that index (cpunum()).  A kernel stack is named by its     *)
(* index in percpu_kstacks[].                                              *)
(***************************************************************************)
EXTENDS Integers, Sequences

CONSTANTS
  NCPU,   \* size of cpus[]
  Tables  \* configuration tables: sequences of [type, id, boot]

Proc(e)  == e.type = "MPPROC"
None     == -1
NoTable  == << >>

\* What the constants must satisfy.
BootAssumption ==
  /\ NCPU \in Nat \ {0}
  /\ \A t \in Tables :
       Len(t) \in Nat /\ DOMAIN t = 1 .. Len(t) /\ \A k \in DOMAIN t : Proc(t[k]) => t[k].id \in Nat

\* Tables as firmware writes them: one processor boots, it is listed before the
\* others and has the number 0.
BootFirst ==
  \A t \in Tables :
    \E b \in DOMAIN t :
      /\ Proc(t[b]) /\ t[b].boot /\ t[b].id = 0
      /\ \A k \in DOMAIN t : Proc(t[k]) /\ k # b => b < k /\ ~t[k].boot /\ t[k].id # 0

VARIABLES
  conf,      \* the table that mpconfig() found, or NoTable
  entry,     \* the next entry
  ncpu, bootcpu, ismp,
  cpu_id,    \* cpus[].cpu_id
  status,    \* indices with cpu_status = CPU_STARTED
  bsp,       \* where the boot processor is
  boot_c,    \* the index boot_aps() is at
  mpentry_kstack,
  ap,        \* where each other processor is
  stack,     \* the stack each processor runs on, None if it has none yet
  tss,       \* the processor that set up and loaded cpus[].cpu_ts
  lock,      \* who holds the kernel lock
  envs       \* the first environments have been created

varsBoot == <<conf, entry, ncpu, bootcpu, ismp, cpu_id, status, bsp, boot_c, mpentry_kstack, ap, stack, tss, lock, envs>>

\* The processors that the table lists, and the one that boots.
Listed(t) == {t[k].id : k \in {k \in DOMAIN t : Proc(t[k])}}
Boots(t)  == t[CHOOSE k \in DOMAIN t : Proc(t[k]) /\ t[k].boot].id

AllCpus == IF conf = NoTable THEN {0} ELSE Listed(conf)
Bsp  == IF conf = NoTable THEN 0 ELSE Boots(conf)

InitBoot ==
  /\ conf \in Tables \cup {NoTable}
  /\ entry = 1
  /\ ncpu = 0 /\ bootcpu = 0 /\ ismp = (conf # NoTable)
  /\ cpu_id = [k \in 0 .. NCPU - 1 |-> 0]
  /\ status = {}
  /\ bsp = IF conf = NoTable THEN "locking" ELSE "mp_init"
  /\ boot_c = 0
  /\ mpentry_kstack = None
  /\ ap = [p \in AllCpus \ {Bsp} |-> "halted"]
  /\ stack = [p \in AllCpus |-> None]
  /\ tss = [k \in 0 .. NCPU - 1 |-> IF k = 0 THEN Bsp ELSE None]  \* trap_init()
  /\ lock = None
  /\ envs = FALSE

-----------------------------------------------------------------------------
\* mp_init()

Scanning == bsp = "mp_init" /\ entry <= Len(conf)

IsBoot(e) == e.boot
Room      == ncpu < NCPU

\* A processor's entry.  The boot processor is noted before the limit is tested,
\* and the entry's APIC id is not used.
EntryProc ==
  /\ Scanning /\ Proc(conf[entry])
  /\ bootcpu' = IF IsBoot(conf[entry]) THEN ncpu ELSE bootcpu
  /\ IF Room
     THEN cpu_id' = [cpu_id EXCEPT ![ncpu] = ncpu] /\ ncpu' = ncpu + 1
     ELSE UNCHANGED <<cpu_id, ncpu>>
  /\ entry' = entry + 1
  /\ UNCHANGED <<conf, ismp, status, bsp, boot_c, mpentry_kstack, ap, stack, tss, lock, envs>>

\* An entry of another kind.
EntryOther ==
  /\ Scanning /\ conf[entry].type = "other"
  /\ entry' = entry + 1
  /\ UNCHANGED <<conf, ncpu, bootcpu, ismp, cpu_id, status, bsp, boot_c, mpentry_kstack, ap, stack, tss, lock, envs>>

\* An entry of no known kind ends the scan.
EntryUnknown ==
  /\ Scanning /\ conf[entry].type = "unknown"
  /\ ismp' = FALSE
  /\ entry' = Len(conf) + 1
  /\ UNCHANGED <<conf, ncpu, bootcpu, cpu_id, status, bsp, boot_c, mpentry_kstack, ap, stack, tss, lock, envs>>

\* The end of the table; without MP the machine has one processor.
MpInitDone ==
  /\ bsp = "mp_init" /\ entry > Len(conf)
  /\ status' = status \cup {bootcpu}
  /\ ncpu' = IF ismp THEN ncpu ELSE 1
  /\ bsp' = "locking"
  /\ UNCHANGED <<conf, entry, bootcpu, ismp, cpu_id, boot_c, mpentry_kstack, ap, stack, tss, lock, envs>>

-----------------------------------------------------------------------------
\* i386_init() and boot_aps()

\* cpunum() of a processor: 0 while there is no lapic.
cpunum(p) == IF ismp THEN p ELSE 0

\* lock_kernel()
BspLock ==
  /\ bsp = "locking" /\ lock = None
  /\ lock' = Bsp
  /\ bsp' = "boot_aps"
  /\ UNCHANGED <<conf, entry, ncpu, bootcpu, ismp, cpu_id, status, boot_c, mpentry_kstack, ap, stack, tss, envs>>

\* The loop passes over the boot processor itself.
SkipSelf ==
  /\ bsp = "boot_aps" /\ boot_c < ncpu
  /\ boot_c = cpunum(Bsp)
  /\ boot_c' = boot_c + 1
  /\ UNCHANGED <<conf, entry, ncpu, bootcpu, ismp, cpu_id, status, bsp, mpentry_kstack, ap, stack, tss, lock, envs>>

\* The stack is announced and lapic_startap() sends INIT and STARTUP to the
\* processor with the APIC id cpu_id, if there is one.
StartAp ==
  /\ bsp = "boot_aps" /\ boot_c < ncpu
  /\ boot_c # cpunum(Bsp)
  /\ mpentry_kstack' = boot_c
  /\ ap' = [p \in DOMAIN ap |-> IF p = cpu_id[boot_c] THEN "mpentry" ELSE ap[p]]
  /\ bsp' = "wait"
  /\ UNCHANGED <<conf, entry, ncpu, bootcpu, ismp, cpu_id, status, boot_c, stack, tss, lock, envs>>

\* Mutant: the acknowledgement is not waited for.
WaitAp_Not ==
  /\ bsp = "wait"
  /\ bsp' = "boot_aps" /\ boot_c' = boot_c + 1
  /\ UNCHANGED <<conf, entry, ncpu, bootcpu, ismp, cpu_id, status, mpentry_kstack, ap, stack, tss, lock, envs>>

\* Until that one says that it has started.
WaitAp ==
  /\ bsp = "wait" /\ boot_c \in status
  /\ bsp' = "boot_aps" /\ boot_c' = boot_c + 1
  /\ UNCHANGED <<conf, entry, ncpu, bootcpu, ismp, cpu_id, status, mpentry_kstack, ap, stack, tss, lock, envs>>

\* All are up; ENV_CREATE()
CreateEnvs ==
  /\ bsp = "boot_aps" /\ boot_c >= ncpu
  /\ envs' = TRUE
  /\ bsp' = "sched_yield"
  /\ UNCHANGED <<conf, entry, ncpu, bootcpu, ismp, cpu_id, status, boot_c, mpentry_kstack, ap, stack, tss, lock>>

\* Mutant: the lock is kept.
BspRun_Holds ==
  /\ bsp = "sched_yield"
  /\ bsp' = "user"
  /\ UNCHANGED <<conf, entry, ncpu, bootcpu, ismp, cpu_id, status, boot_c, mpentry_kstack, ap, stack, tss, lock, envs>>

\* sched_yield() runs an environment and releases the lock.
BspRun ==
  /\ bsp = "sched_yield"
  /\ lock' = None
  /\ bsp' = "user"
  /\ UNCHANGED <<conf, entry, ncpu, bootcpu, ismp, cpu_id, status, boot_c, mpentry_kstack, ap, stack, tss, envs>>

-----------------------------------------------------------------------------
\* An AP in mpentry.S and mp_main()

Moves(p, from, to) == ap[p] = from /\ ap' = [ap EXCEPT ![p] = to]

\* mpentry.S loads the stack pointer ...
ApStack(p) ==
  /\ Moves(p, "mpentry", "mp_main")
  /\ stack' = [stack EXCEPT ![p] = mpentry_kstack]
  /\ UNCHANGED <<conf, entry, ncpu, bootcpu, ismp, cpu_id, status, bsp, boot_c, mpentry_kstack, tss, lock, envs>>

\* An entry that is set up already is not loaded.
trap_init_percpu(p) ==
  tss' = IF tss[cpunum(p)] = None THEN [tss EXCEPT ![cpunum(p)] = p] ELSE tss

\* ... and mp_main(), with its own tables set up, reports.
ApStarted(p) ==
  /\ Moves(p, "mp_main", "locking")
  /\ trap_init_percpu(p)
  /\ status' = status \cup {cpunum(p)}
  /\ UNCHANGED <<conf, entry, ncpu, bootcpu, ismp, cpu_id, bsp, boot_c, mpentry_kstack, stack, lock, envs>>

\* lock_kernel()
ApLock(p) ==
  /\ Moves(p, "locking", "sched_yield")
  /\ lock = None /\ lock' = p
  /\ UNCHANGED <<conf, entry, ncpu, bootcpu, ismp, cpu_id, status, bsp, boot_c, mpentry_kstack, stack, tss, envs>>

\* sched_yield(), as for the boot processor
ApRun(p) ==
  /\ Moves(p, "sched_yield", "user")
  /\ lock' = None
  /\ UNCHANGED <<conf, entry, ncpu, bootcpu, ismp, cpu_id, status, bsp, boot_c, mpentry_kstack, stack, tss, envs>>

-----------------------------------------------------------------------------
BspStep ==
  \/ EntryProc \/ EntryOther \/ EntryUnknown \/ MpInitDone
  \/ BspLock \/ SkipSelf \/ StartAp \/ WaitAp \/ CreateEnvs \/ BspRun

ApStep(p) == ApStack(p) \/ ApStarted(p) \/ ApLock(p) \/ ApRun(p)

NextBoot == BspStep \/ \E p \in AllCpus \ {Bsp} : ApStep(p)

SpecBoot == InitBoot /\ [][NextBoot]_varsBoot

\* Processors that run keep running.
FairnessBoot ==
  WF_varsBoot(BspStep) /\ \A p \in UNION {Listed(t) : t \in Tables} : WF_varsBoot(p \in AllCpus \ {Bsp} /\ ApStep(p))

-----------------------------------------------------------------------------
\* Types; cpus[] is never written past its end by the scan of the table.
TypeOKBoot ==
  /\ ncpu \in 0 .. NCPU
  /\ cpu_id \in [0 .. NCPU - 1 -> 0 .. NCPU - 1]
  /\ status \subseteq 0 .. NCPU
  /\ boot_c \in 0 .. NCPU
  /\ lock \in AllCpus \cup {None}
  /\ tss \in [0 .. NCPU - 1 -> AllCpus \cup {None}]
  /\ stack \in [AllCpus -> 0 .. NCPU - 1 \cup {None}]

\* Every AP runs on its own kernel stack, the one that its TSS names for traps
\* (percpu_kstacks[cpunum()]), and has loaded that TSS, although all learn their
\* stacks from the one variable mpentry_kstack: it is not overwritten before the
\* processor it is meant for has read it.
KernelStacks ==
  \A p \in DOMAIN ap :
    /\ stack[p] \in {None, cpunum(p)}
    /\ ap[p] \in {"locking", "sched_yield", "user"} => tss[cpunum(p)] = p

\* "make sure that only one CPU can enter the scheduler at a time" (mp_main()):
\* and none before the boot processor has created the first environments.
InScheduler ==
  {p \in AllCpus : p = Bsp /\ bsp \in {"boot_aps", "wait", "sched_yield"}}
    \cup {p \in DOMAIN ap : ap[p] = "sched_yield"}

SchedulerGuarded ==
  /\ \A p, q \in InScheduler : p = q
  /\ \A p \in DOMAIN ap : ap[p] \in {"sched_yield", "user"} => envs

\* bootcpu is "The boot-strap processor (BSP)" of cpus[NCPU] (kern/cpu.h).
BootcpuExists == bootcpu \in 0 .. NCPU - 1

\* A processor that enters the scheduler does so on its own stack, with its own
\* TSS, under the lock and after the first environments exist.
ProcessorsReady == KernelStacks /\ SchedulerGuarded /\ BootcpuExists

\* "Boot each AP one at a time" (boot_aps()): every processor that mp_init()
\* accepted comes to run environments.
Accepted == IF ismp THEN {p \in AllCpus : p < ncpu} ELSE {Bsp}

ProcessorsRun ==
  <>[](bsp = "user" /\ \A p \in DOMAIN ap : p \in Accepted => ap[p] = "user")
=============================================================================
