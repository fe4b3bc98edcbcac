------------------------------ MODULE EnvSched ------------------------------
(***************************************************************************)
(* Environments, the scheduler and the big kernel lock on a multiprocessor *)
(* (kern/env.c, kern/sched.c, kern/trap.c, kern/init.c and the system      *)
(* calls of kern/syscall.c that change an environment's life).             *)
(*                                                                         *)
(* Every handler runs from lock_kernel() in trap() to unlock_kernel() in   *)
(* env_run() with interrupts off, so a handler is one action.  What runs   *)
(* outside the lock is modelled as steps of its own: user code, the wait   *)
(* for the lock, and the tail of env_run() after unlock_kernel(), which    *)
(* still reads curenv and loads %cr3.                                      *)
(*                                                                         *)
(* An envid is a pair <<generation, slot>>: ENVX(id) is the slot.          *)
(***************************************************************************)
EXTENDS Naturals, Sequences, FiniteSets

CONSTANTS
  NCPU,    \* processors; slots 0 .. NCPU-1 are their idle environments
  NUSER,   \* user environments that i386_init creates
  NENV,    \* length of envs[]
  MAXGEN,  \* last generation of an envid before it wraps (2^19 - 1 in the code)
  Ops      \* the operations the user programs perform, a subset of AllOps

\* What the programs of lib/ and user/ do, and what else the kernel lets programs do:
\* set a status at any time of a child's life, or one that is none of the documented
\* two, and destroy a child that was destroyed before and is not yet freed.
LibraryOps == {"exofork", "status", "destroy", "send", "recv", "fault"}
AllOps     == LibraryOps \cup {"restatus", "badstatus", "redestroy"}

\* Programs call the kernel as those of lib/ and user/ do.
LibraryCalls == Ops \subseteq LibraryOps

ASSUME ConstantsAssumption ==
  /\ NCPU \in Nat \ {0}
  /\ NUSER \in Nat
  /\ NENV \in Nat
  /\ NCPU + NUSER <= NENV
  /\ MAXGEN \in Nat \ {0}
  /\ Ops \subseteq AllOps

Cpus  == 0 .. NCPU - 1
Slots == 0 .. NENV - 1
Idle  == 0 .. NCPU - 1

\* "no environment" (a null struct Env *) and "no processor".
NoEnv == NENV
NoCpu == NCPU

Statuses == {"FREE", "DYING", "RUNNABLE", "RUNNING", "NOT_RUNNABLE"}
EnvIds   == (0 .. MAXGEN) \X Slots

\* The envid 0: the parent of the environments created at boot, and, as an
\* argument, a name for the caller itself.
NullId == <<0, 0>>

\* kern_pgdir as a value of %cr3; an environment's page directory is named by
\* the envid it was set up for, whose generation is never 0.
KernPgdir == NullId

VARIABLES
  env_status,       \* [Slots -> Statuses]
  env_gen,          \* generation of env_id; 0 before the slot is first used
  env_parent_id,    \* [Slots -> EnvIds]
  env_ipc_recving,  \* blocked in sys_ipc_recv
  env_free_list,    \* sequence of slots, the head first
  curenv,           \* cpu_env of each processor, or NoEnv
  cr3,              \* page directory in use on each processor
  kernel_lock,      \* the processor that holds the lock, or NoCpu
  pc                \* what each processor is doing, see Modes

vars == <<env_status, env_gen, env_parent_id, env_ipc_recving,
          env_free_list, curenv, cr3, kernel_lock, pc>>

\* mp_main: an AP before lock_kernel();  sched: holds the lock, calls
\* sched_yield() with no trap;  user: user mode;  trap: in trap(), before
\* lock_kernel();  kernel: in trap(), lock held;  exit: in env_run(), after
\* unlock_kernel();  monitor, panic: in the kernel monitor for good.
Modes == {"mp_main", "sched", "user", "trap", "kernel", "exit", "monitor", "panic"}

env_id(e) == <<env_gen[e], e>>

-----------------------------------------------------------------------------
(* Switching and scheduling.  The operators take the intermediate value st  *)
(* of env_status and the intermediate value cur of curenv on processor c    *)
(* that the code has computed when it calls the function.                   *)

\* Mutant: env_run() forgets to make the old environment runnable again.
Preempted_Forgotten(st, cur) == st

\* RUNNING goes back to RUNNABLE when the processor leaves cur.
Preempted(st, cur) ==
  IF cur # NoEnv /\ st[cur] = "RUNNING"
  THEN [st EXCEPT ![cur] = "RUNNABLE"]
  ELSE st

\* env_run() up to and including unlock_kernel().
EnvRun(c, e, cur, st) ==
  /\ env_status' = [Preempted(st, cur) EXCEPT ![e] = "RUNNING"]
  /\ curenv' = [curenv EXCEPT ![c] = e]
  /\ kernel_lock' = NoCpu
  /\ pc' = [pc EXCEPT ![c] = "exit"]

\* Falling into the kernel monitor with the lock held.
Stop(c, cur, st, mode) ==
  /\ env_status' = st
  /\ curenv' = [curenv EXCEPT ![c] = cur]
  /\ pc' = [pc EXCEPT ![c] = mode]
  /\ UNCHANGED kernel_lock

\* Mutant: every search starts at envs[0].
SearchStart_Zero(cur, st) == 0

\* The slot where sched_yield starts its search.
SearchStart(cur, st) ==
  IF cur = NoEnv THEN 0
  ELSE IF st[cur] = "RUNNING" THEN cur + 1 ELSE cur

\* The k-th slot of the circular search that starts at i.
SearchSlot(i, k) == IF i + k < NENV THEN i + k ELSE i + k - NENV

\* Mutant: an environment that runs elsewhere may be chosen.
Candidates_Running(i, st) ==
  {k \in Slots : /\ SearchSlot(i, k) \notin Idle
                 /\ st[SearchSlot(i, k)] \in {"RUNNABLE", "RUNNING"}}

\* Distances from i to the environments that sched_yield may choose.
Candidates(i, st) ==
  {k \in Slots : /\ SearchSlot(i, k) \notin Idle
                 /\ st[SearchSlot(i, k)] = "RUNNABLE"}

\* Mutant: only the environments that run now keep the machine busy.
OthersBusy_Never(st) == FALSE

\* Some user environment still runs on another processor.
OthersBusy(st) == \E e \in Slots \ Idle : st[e] \in {"RUNNABLE", "RUNNING"}

\* sched_yield()
SchedYield(c, cur, st) ==
  LET i    == SearchStart(cur, st)
      st1  == Preempted(st, cur)
      cand == Candidates(i, st1)
  IN  \/ \E k \in cand : /\ \A j \in cand : k <= j
                         /\ EnvRun(c, SearchSlot(i, k), cur, st1)
      \/ /\ cand = {}
         /\ ~ OthersBusy(st1)
         /\ Stop(c, cur, st1, "monitor")
      \/ /\ cand = {}
         /\ OthersBusy(st1)
         /\ IF st1[c] \in {"RUNNABLE", "RUNNING"}
            THEN EnvRun(c, c, cur, st1)
            ELSE Stop(c, cur, st1, "panic")

\* The end of trap(): back to the current environment if that makes sense.
TrapReturn(c, st) ==
  IF st[curenv[c]] = "RUNNING"
  THEN EnvRun(c, curenv[c], curenv[c], st)
  ELSE SchedYield(c, curenv[c], st)

-----------------------------------------------------------------------------
(* Environments.                                                            *)

\* envid2env() succeeds and yields e.  The id 0 means the caller.
EnvId2Env(c, id, checkperm, e) ==
  \/ /\ id = NullId
     /\ e = curenv[c]
  \/ /\ id # NullId
     /\ e = id[2]
     /\ env_status[e] # "FREE"
     /\ env_id(e) = id
     /\ \/ ~ checkperm
        \/ e = curenv[c]
        \/ env_parent_id[e] = env_id(curenv[c])

\* The generation that env_alloc gives to a slot.
NextGeneration(g) == IF g >= MAXGEN THEN 1 ELSE g + 1

\* env_alloc() of the head of the free list followed by sys_exofork's own
\* assignments: the child is not runnable until its parent says so.
EnvAlloc(parent) ==
  LET e == Head(env_free_list)
  IN  /\ env_gen' = [env_gen EXCEPT ![e] = NextGeneration(@)]
      /\ env_parent_id' = [env_parent_id EXCEPT ![e] = parent]
      /\ env_ipc_recving' = [env_ipc_recving EXCEPT ![e] = FALSE]
      /\ env_free_list' = Tail(env_free_list)

\* Mutant: the slot is not put back on the free list.
EnvFree_NoPush(c, e) ==
  /\ cr3' = IF e = curenv[c] THEN [cr3 EXCEPT ![c] = KernPgdir] ELSE cr3
  /\ UNCHANGED <<env_gen, env_parent_id, env_ipc_recving, env_free_list>>

\* env_free(): the slot goes to the head of the free list; the caller gives
\* env_status its new value.  Freeing the current environment loads kern_pgdir.
EnvFree(c, e) ==
  /\ env_free_list' = <<e>> \o env_free_list
  /\ cr3' = IF e = curenv[c] THEN [cr3 EXCEPT ![c] = KernPgdir] ELSE cr3
  /\ UNCHANGED <<env_gen, env_parent_id, env_ipc_recving>>

Freed(e) == [env_status EXCEPT ![e] = "FREE"]

\* Mutant: an environment that runs on another processor is freed at once.
EnvDestroy_AtOnce(c, e) ==
  /\ EnvFree(c, e)
  /\ \/ e = curenv[c] /\ SchedYield(c, NoEnv, Freed(e))
     \/ e # curenv[c] /\ TrapReturn(c, Freed(e))

\* env_destroy()
EnvDestroy(c, e) ==
  \/ /\ env_status[e] = "RUNNING"
     /\ e # curenv[c]
     /\ TrapReturn(c, [env_status EXCEPT ![e] = "DYING"])
     /\ UNCHANGED <<env_gen, env_parent_id, env_ipc_recving, env_free_list, cr3>>
  \/ /\ e = curenv[c]
     /\ EnvFree(c, e)
     /\ SchedYield(c, NoEnv, Freed(e))
  \/ /\ env_status[e] # "RUNNING"
     /\ e # curenv[c]
     /\ EnvFree(c, e)
     /\ TrapReturn(c, Freed(e))

-----------------------------------------------------------------------------
(* Steps of a processor outside the lock.                                   *)

\* lock_kernel(), in mp_main() or in trap().
Lock(c) ==
  /\ pc[c] \in {"mp_main", "trap"}
  /\ kernel_lock = NoCpu
  /\ kernel_lock' = c
  /\ pc' = [pc EXCEPT ![c] = IF @ = "mp_main" THEN "sched" ELSE "kernel"]
  /\ UNCHANGED <<env_status, env_gen, env_parent_id, env_ipc_recving,
                 env_free_list, curenv, cr3>>

\* The end of env_run(), after unlock_kernel(): lcr3() and env_pop_tf().
PopTf(c) ==
  /\ pc[c] = "exit"
  /\ cr3' = [cr3 EXCEPT ![c] = env_id(curenv[c])]
  /\ pc' = [pc EXCEPT ![c] = "user"]
  /\ UNCHANGED <<env_status, env_gen, env_parent_id, env_ipc_recving,
                 env_free_list, curenv, kernel_lock>>

\* A system call, an exception or an interrupt in user mode.
Trap(c) ==
  /\ pc[c] = "user"
  /\ pc' = [pc EXCEPT ![c] = "trap"]
  /\ UNCHANGED <<env_status, env_gen, env_parent_id, env_ipc_recving,
                 env_free_list, curenv, cr3, kernel_lock>>

-----------------------------------------------------------------------------
(* Handlers, with the lock held.                                            *)

\* The end of i386_init() and of mp_main().
Start(c) ==
  /\ pc[c] = "sched"
  /\ SchedYield(c, NoEnv, env_status)
  /\ UNCHANGED <<env_gen, env_parent_id, env_ipc_recving, env_free_list, cr3>>

\* trap() finds that the environment was destroyed while it ran.
Reap(c) ==
  /\ pc[c] = "kernel"
  /\ env_status[curenv[c]] = "DYING"
  /\ EnvFree(c, curenv[c])
  /\ SchedYield(c, NoEnv, Freed(curenv[c]))

\* Mutant: trap() does not look for a zombie.
Dispatch_NoZombieCheck(c) == pc[c] = "kernel"

\* trap() goes on to dispatch for a live environment.
Dispatch(c) == pc[c] = "kernel" /\ env_status[curenv[c]] # "DYING"

\* ... which, but for the idle loop, performs the operation op.
Call(c, op) == Dispatch(c) /\ curenv[c] \notin Idle /\ op \in Ops

\* The clock interrupt and sys_yield() both give up the processor.
Yield(c) ==
  /\ Dispatch(c)
  /\ SchedYield(c, curenv[c], env_status)
  /\ UNCHANGED <<env_gen, env_parent_id, env_ipc_recving, env_free_list, cr3>>

\* A trap that returns to the environment: a system call that fails or that
\* only concerns memory or the console, a device interrupt, a page fault
\* passed to the user's handler.  (A breakpoint enters the monitor, which never
\* returns.)
Nop(c) ==
  /\ Dispatch(c)
  /\ TrapReturn(c, env_status)
  /\ UNCHANGED <<env_gen, env_parent_id, env_ipc_recving, env_free_list, cr3>>

\* sys_exofork(); it fails, as Nop, when there is no free slot or no memory.
SysExofork(c) ==
  /\ Call(c, "exofork")
  /\ env_free_list # << >>
  /\ EnvAlloc(env_id(curenv[c]))
  /\ TrapReturn(c, [env_status EXCEPT ![Head(env_free_list)] = "NOT_RUNNABLE"])
  /\ UNCHANGED cr3

\* How lib/fork.c and user/dumbfork.c call sys_env_set_status(): they start the
\* child that they have just built, which has not run yet.
Starts(e, status) ==
  env_status[e] = "NOT_RUNNABLE" /\ status = "RUNNABLE" /\ ~ env_ipc_recving[e]

\* sys_env_set_status(): it is the target's present status that is checked,
\* not the argument.
SysEnvSetStatus(c) ==
  /\ Call(c, "status")
  /\ \E id \in EnvIds, e \in Slots, status \in Statuses :
       /\ Ops \cap {"restatus", "badstatus"} = {} => Starts(e, status)
       /\ "badstatus" \notin Ops => status \in {"RUNNABLE", "NOT_RUNNABLE"}
       /\ EnvId2Env(c, id, TRUE, e)
       /\ env_status[e] \in {"RUNNABLE", "NOT_RUNNABLE"}
       /\ TrapReturn(c, [env_status EXCEPT ![e] = status])
  /\ UNCHANGED <<env_gen, env_parent_id, env_ipc_recving, env_free_list, cr3>>

\* sys_env_destroy() of oneself or of a child.
SysEnvDestroy(c) ==
  /\ Call(c, "destroy")
  /\ \E id \in EnvIds, e \in Slots :
       /\ "redestroy" \notin Ops => env_status[e] # "DYING"
       /\ EnvId2Env(c, id, TRUE, e)
       /\ EnvDestroy(c, e)

\* A fault that no handler takes, or a bad user pointer: env_destroy(curenv).
Fault(c) ==
  /\ Call(c, "fault")
  /\ EnvDestroy(c, curenv[c])

\* Mutant: the receiver is woken but stays marked as receiving.
SysIpcTrySend_StillReceiving(c) ==
  /\ Call(c, "send")
  /\ \E id \in EnvIds, e \in Slots :
       /\ EnvId2Env(c, id, FALSE, e)
       /\ env_ipc_recving[e]
       /\ TrapReturn(c, [env_status EXCEPT ![e] = "RUNNABLE"])
  /\ UNCHANGED <<env_gen, env_parent_id, env_ipc_recving, env_free_list, cr3>>

\* sys_ipc_try_send() when the target is receiving; it fails, as Nop, when it
\* is not.
SysIpcTrySend(c) ==
  /\ Call(c, "send")
  /\ \E id \in EnvIds, e \in Slots :
       /\ EnvId2Env(c, id, FALSE, e)
       /\ env_ipc_recving[e]
       /\ env_ipc_recving' = [env_ipc_recving EXCEPT ![e] = FALSE]
       /\ TrapReturn(c, [env_status EXCEPT ![e] = "RUNNABLE"])
  /\ UNCHANGED <<env_gen, env_parent_id, env_free_list, cr3>>

\* sys_ipc_recv()
SysIpcRecv(c) ==
  /\ Call(c, "recv")
  /\ env_ipc_recving' = [env_ipc_recving EXCEPT ![curenv[c]] = TRUE]
  /\ SchedYield(c, curenv[c], [env_status EXCEPT ![curenv[c]] = "NOT_RUNNABLE"])
  /\ UNCHANGED <<env_gen, env_parent_id, env_free_list, cr3>>

-----------------------------------------------------------------------------
\* i386_init() before its sched_yield(): the boot processor holds the lock and
\* has created the idle environments and the first user environments; the
\* other processors wait in mp_main().
Init ==
  /\ env_status = [e \in Slots |-> IF e < NCPU + NUSER THEN "RUNNABLE" ELSE "FREE"]
  /\ env_gen = [e \in Slots |-> IF e < NCPU + NUSER THEN 1 ELSE 0]
  /\ env_parent_id = [e \in Slots |-> NullId]
  /\ env_ipc_recving = [e \in Slots |-> FALSE]
  /\ env_free_list = [i \in 1 .. NENV - (NCPU + NUSER) |-> NCPU + NUSER + i - 1]
  /\ curenv = [c \in Cpus |-> NoEnv]
  /\ cr3 = [c \in Cpus |-> KernPgdir]
  /\ kernel_lock = 0
  /\ pc = [c \in Cpus |-> IF c = 0 THEN "sched" ELSE "mp_main"]

Handler(c) ==
  \/ Start(c) \/ Reap(c) \/ Yield(c) \/ Nop(c)
  \/ SysExofork(c) \/ SysEnvSetStatus(c)
  \/ SysEnvDestroy(c) \/ Fault(c)
  \/ SysIpcTrySend(c) \/ SysIpcRecv(c)

Next == \E c \in Cpus : Lock(c) \/ PopTf(c) \/ Trap(c) \/ Handler(c)

Spec == Init /\ [][Next]_vars

-----------------------------------------------------------------------------
(* The properties are about programs that call the kernel as lib/ and user/  *)
(* do (LibraryCalls).  With "redestroy", "restatus" or "badstatus" in Ops    *)
(* the kernel keeps none of the promises about who runs where: a second      *)
(* sys_env_destroy() frees the environment under the processor that runs it. *)

\* Types; the generation in an env_id stays within its bound (env_alloc()).
TypeOK ==
  /\ env_status \in [Slots -> Statuses]
  /\ env_gen \in [Slots -> 0 .. MAXGEN]
  /\ env_parent_id \in [Slots -> EnvIds]
  /\ env_ipc_recving \in [Slots -> BOOLEAN]
  /\ env_free_list \in Seq(Slots)
  /\ curenv \in [Cpus -> Slots \cup {NoEnv}]
  /\ cr3 \in [Cpus -> EnvIds]
  /\ kernel_lock \in Cpus \cup {NoCpu}
  /\ pc \in [Cpus -> Modes]

\* Modes in which a processor works for its current environment, and modes in
\* which it holds the lock.
OnBehalf(c) == pc[c] \in {"user", "trap", "kernel", "exit"}
Locked(c)   == pc[c] \in {"sched", "kernel", "monitor", "panic"}

\* One environment never runs on two processors at once, which is what
\* user/stresssched.c tests: no two processors have the same cpu_env.
OneCpu ==
  \A c, d \in Cpus : c # d /\ curenv[c] # NoEnv => curenv[c] # curenv[d]

\* An environment is RUNNING or DYING exactly while some processor works for
\* it.  So no environment is left RUNNING on no processor, and every zombie
\* is on a processor whose next trap frees it (the test in trap()).
RunningIffCurrent ==
  \A e \in Slots :
    env_status[e] \in {"RUNNING", "DYING"} <=>
      \E c \in Cpus : OnBehalf(c) /\ curenv[c] = e

\* From the return to user mode to the end of the next trap a processor uses the page
\* directory of its own, still allocated environment: env_destroy() on another
\* processor leaves a running environment's memory alone, although env_run()
\* reads env_pgdir after it has released the lock.  (Before that read, between
\* unlock_kernel() and lcr3(), see NoFreedPgdirInUse.)
UserAddressSpace ==
  \A c \in Cpus : pc[c] \in {"user", "trap", "kernel"} =>
    /\ curenv[c] # NoEnv
    /\ env_status[curenv[c]] # "FREE"
    /\ cr3[c] = env_id(curenv[c])

\* env_free_list holds every free slot once and nothing else, whatever the
\* order in which processors allocate, destroy and reap environments.
FreeListExact ==
  /\ \A i, j \in DOMAIN env_free_list :
       env_free_list[i] = env_free_list[j] => i = j
  /\ \A e \in Slots : env_status[e] = "FREE" <=>
       \E i \in DOMAIN env_free_list : env_free_list[i] = e

\* A live environment that env_ipc_recving marks as receiving is blocked, so
\* sys_ipc_try_send() only ever wakes an environment that is not running.
ReceiverBlocked ==
  \A e \in Slots : env_ipc_recving[e] /\ env_status[e] # "FREE" =>
    env_status[e] = "NOT_RUNNABLE"

\* sched_yield() never finds its processor's idle environment missing: the
\* panic "No idle environment!" cannot happen.
IdleAvailable == \A c \in Cpus : pc[c] # "panic"

\* The kernel gives up ("No more runnable environments!") only when no user
\* environment can run, and that stays so: processors that are still in user
\* mode then run idle or dying environments only.
MonitorMeansDone ==
  (\E c \in Cpus : pc[c] = "monitor") =>
    \A e \in Slots \ Idle : env_status[e] \notin {"RUNNABLE", "RUNNING"}

\* A page directory that some processor uses has not been freed: "switch to
\* kern_pgdir before freeing the page directory, just in case the page gets
\* reused" (env_free).  It fails between unlock_kernel() and lcr3() in env_run():
\* the environment that the processor has left may be freed by then.
NoFreedPgdirInUse ==
  \A c \in Cpus : cr3[c] # KernPgdir =>
    \E e \in Slots : env_status[e] # "FREE" /\ cr3[c] = env_id(e)

\* The life of an environment as a relation between two successive statuses:
\* a zombie never comes back to life, a blocked environment is woken before it
\* runs, only a free slot is allocated, and a child starts as NOT_RUNNABLE.
LegalMoves ==
  {<<s, s>> : s \in Statuses} \cup
  {<<"FREE", "NOT_RUNNABLE">>, <<"NOT_RUNNABLE", "RUNNABLE">>,
   <<"RUNNABLE", "RUNNING">>, <<"RUNNING", "RUNNABLE">>,
   <<"RUNNING", "NOT_RUNNABLE">>, <<"RUNNING", "DYING">>} \cup
  {<<s, "FREE">> : s \in Statuses}

\* Every step moves every environment along its life, and an environment that
\* another processor works for is freed by that processor only: "A zombie
\* environment will be freed the next time it traps to the kernel"
\* (env_destroy), if it is not destroyed again.
LifeStep ==
  /\ \A e \in Slots : <<env_status[e], env_status'[e]>> \in LegalMoves
  /\ \A c \in Cpus : OnBehalf(c) /\ env_status'[curenv[c]] = "FREE" =>
       pc[c] = "kernel" /\ pc'[c] # "kernel"

EnvLife == [][LifeStep]_vars

\* sys_ipc_try_send() completes only to an environment that is blocked: "The
\* send fails with a return value of -E_IPC_NOT_RECV if the target is not
\* blocked, waiting for an IPC" (kern/syscall.c).
SendStep ==
  \A e \in Slots :
    env_ipc_recving[e] /\ ~ env_ipc_recving'[e] /\ env_gen'[e] = env_gen[e] =>
      env_status[e] = "NOT_RUNNABLE"

SendOnlyToBlocked == [][SendStep]_vars

-----------------------------------------------------------------------------
(* Liveness.  User code is interrupted by the periodic clock (Trap, and SF   *)
(* of Yield: the clock finds every environment sooner or later); a processor *)
(* that spins for the lock is not passed over forever (SF of Lock); the      *)
(* kernel's own steps are not delayed forever.                               *)
Fairness ==
  \A c \in Cpus : /\ WF_vars(Trap(c)) /\ WF_vars(PopTf(c)) /\ WF_vars(Handler(c))
                  /\ SF_vars(Lock(c)) /\ SF_vars(Yield(c))

FairSpec == Spec /\ Fairness

\* The kernel has dropped into the monitor, which ends all progress.
Stopped == \E c \in Cpus : pc[c] \in {"monitor", "panic"}

\* A zombie is freed in the end, unless the machine stops.
ZombieFreed ==
  \A e \in Slots : env_status[e] = "DYING" ~> (env_status[e] = "FREE" \/ Stopped)

\* Round-robin scheduling starves nobody: a runnable user environment gets a
\* processor in the end, or leaves the run queue, or the machine stops.
NoStarvation ==
  \A e \in Slots \ Idle :
    env_status[e] = "RUNNABLE" ~> (env_status[e] # "RUNNABLE" \/ Stopped)
=============================================================================
