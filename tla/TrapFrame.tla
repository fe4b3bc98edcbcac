----------------------------- MODULE TrapFrame ------------------------------
(***************************************************************************)
(* The registers of an environment on their way through the kernel: the    *)
(* processor and kern/trapentry.S push them on the kernel stack of the     *)
(* processor, trap() (kern/trap.c) copies them to env_tf, trap_dispatch()  *)
(* and the system calls read and change them there, and env_pop_tf()       *)
(* (kern/env.c) loads them, perhaps on another processor.  The stubs of    *)
(* lib/syscall.c and inc/lib.h put a system call's number and arguments    *)
(* into registers and take its result from one.                            *)
(*                                                                         *)
(* A word is a tuple: <<"user", e, r, n>> is what program e had put in its *)
(* register r, <<"int", k>> the number k.  Idle environments, about whose  *)
(* registers nothing is said, are the place "idle" of a processor.  An     *)
(* environment is destroyed by itself only; one that another destroys      *)
(* while it runs, a zombie, is in EnvSched.                                *)
(***************************************************************************)
EXTENDS Integers, Sequences, FiniteSets

CONSTANTS
  Cpus, Envs,
  First,     \* the environments that exist at the start
  Vectors,   \* exceptions and interrupts that happen to programs
  Ints,      \* operands of the int instructions that programs execute
  Calls      \* the system calls that they make

None == "none"

Num(k)    == <<"int", k>>
Env(e)    == <<"env", e>>
RegNames  == {"edi", "esi", "ebp", "ebx", "edx", "ecx", "eax", "es", "ds", "eip", "cs", "eflags", "esp", "ss"}

\* inc/trap.h
T_BRKPT == 3
T_GPFLT == 13
T_PGFLT == 14
T_SYSCALL == 48
IRQ_OFFSET == 32
IRQ_TIMER == 0
Printed == {1, 4, 7, 14}   \* IRQ_KBD, IRQ_SERIAL, IRQ_SPURIOUS, IRQ_IDE

VARIABLES
  at,          \* where each processor is
  regs,        \* its registers in user mode
  stack,       \* the words on its kernel stack, the lowest first
  curenv, lock, panicstr,
  env_status, env_tf, env_ipc_recving, env_parent,
  asked,       \* what made each environment trap last: [v, code, call, args]
  want         \* the registers that it has to go on with (not part of the code)

vars == <<at, regs, stack, curenv, lock, panicstr, env_status, env_tf, env_ipc_recving,
          env_parent, asked, want>>

-----------------------------------------------------------------------------
\* inc/syscall.h and lib/syscall.c: number, number of arguments, and whether the
\* stub takes a positive result for an error
Stub(num, args, check) == [num |-> num, args |-> args, check |-> check]

stubs ==
  [ cputs      |-> Stub(0, 2, FALSE),  cgetc        |-> Stub(1, 0, FALSE),
    getenvid   |-> Stub(2, 0, FALSE),  env_destroy  |-> Stub(3, 1, TRUE),
    page_alloc |-> Stub(4, 3, TRUE),   page_map     |-> Stub(5, 5, TRUE),
    page_unmap |-> Stub(6, 2, TRUE),   exofork      |-> Stub(7, 0, FALSE),
    env_set_status |-> Stub(8, 2, TRUE), env_set_pgfault_upcall |-> Stub(9, 2, TRUE),
    yield      |-> Stub(10, 0, FALSE), ipc_try_send |-> Stub(11, 4, FALSE),
    ipc_recv   |-> Stub(12, 1, TRUE) ]

\* What the constants must satisfy.  A program makes its system calls through the
\* stubs.
TrapFrameAssumption ==
  /\ None \notin Envs
  /\ Vectors \subseteq 0 .. 47
  /\ Ints \subseteq Nat \ {T_SYSCALL}
  /\ Calls \subseteq DOMAIN stubs

\* No program sets EFLAGS.AC and accesses unaligned memory: the processor pushes an
\* error code for the alignment check, and its stub does not expect one.
NoAlignmentCheck == 17 \notin Vectors

\* syscall() of lib/syscall.c: "pass system call number in AX, up to five
\* parameters in DX, CX, BX, DI, SI"; sys_exofork() of inc/lib.h loads AX only.
Arg(args, k) == IF k <= Len(args) THEN args[k] ELSE Num(0)

StubRegs(r, call, args) ==
  IF call = "exofork" THEN [r EXCEPT !.eax = Num(stubs[call].num)]
  ELSE [r EXCEPT !.eax = Num(stubs[call].num), !.edx = Arg(args, 1), !.ecx = Arg(args, 2),
                 !.ebx = Arg(args, 3), !.edi = Arg(args, 4), !.esi = Arg(args, 5)]

-----------------------------------------------------------------------------
\* Mutant: every gate is open.
DPL_Open(v) == 3

\* trap_init(): the privilege that a gate asks of an int instruction
DPL(v) == IF v \in {T_SYSCALL, T_BRKPT} THEN 3 ELSE 0

\* The processor: exceptions that push an error code ...
PushesError(v) == v \in {8} \cup 10 .. 14 \cup {17}

\* ... what it pushes when it comes from user mode ...
HardwarePush(r, code) == code \o <<r.eip, r.cs, r.eflags, r.esp, r.ss>>

\* ... and iret, popal
Popped(tf) ==
  [edi |-> tf[1], esi |-> tf[2], ebp |-> tf[3], ebx |-> tf[5], edx |-> tf[6], ecx |-> tf[7],
   eax |-> tf[8], es |-> tf[9], ds |-> tf[10], eip |-> tf[13], cs |-> tf[14],
   eflags |-> tf[15], esp |-> tf[16], ss |-> tf[17]]

\* Mutant: every vector uses TRAPHANDLER_NOEC, those with an error code too.
EntryPush_Always(v) == <<Num(v), Num(0)>>

\* trapentry.S: TRAPHANDLER pushes the vector, TRAPHANDLER_NOEC a zero before it.
TRAPHANDLER == {8} \cup 10 .. 14

EntryPush(v) == IF v \in TRAPHANDLER THEN <<Num(v)>> ELSE <<Num(v), Num(0)>>

\* Mutant: es and ds in the other order.
alltraps_Swapped(r) ==
  <<r.edi, r.esi, r.ebp, Num(0), r.ebx, r.edx, r.ecx, r.eax, r.ds, r.es>>

\* _alltraps: pushl %ds, pushl %es, pushal (whose %esp is "Useless")
alltraps(r) ==
  <<r.edi, r.esi, r.ebp, Num(0), r.ebx, r.edx, r.ecx, r.eax, r.es, r.ds>>

\* struct Trapframe: the word of a field
tf_eax == 8
tf_trapno == 11
tf_err == 12
tf_eip == 13
tf_esp == 16

\* env_alloc() and load_icode(): the registers of a new environment
NewRegs(e) ==
  [r \in RegNames |->
     CASE r \in {"ds", "es", "ss"} -> <<"GD_UD">>
       [] r = "cs"                 -> <<"GD_UT">>
       [] r = "esp"                -> <<"USTACKTOP">>
       [] r = "eip"                -> <<"e_entry", e>>
       [] r = "eflags"             -> <<"FL_IF">>
       [] OTHER                    -> Num(0)]

Frame(r, v, code) == alltraps(r) \o EntryPush(v) \o HardwarePush(r, code)

Init ==
  /\ at = [c \in Cpus |-> "idle"]
  /\ regs = [c \in Cpus |-> NewRegs(None)]
  /\ stack = [c \in Cpus |-> << >>]
  /\ curenv = [c \in Cpus |-> None]
  /\ lock = None
  /\ panicstr = FALSE
  /\ env_status = [e \in Envs |-> IF e \in First THEN "RUNNABLE" ELSE "FREE"]
  /\ want = [e \in Envs |-> NewRegs(e)]
  /\ env_tf = [e \in Envs |-> Frame(want[e], 0, << >>)]
  /\ env_ipc_recving = [e \in Envs |-> FALSE]
  /\ env_parent = [e \in Envs |-> None]
  /\ asked = [e \in Envs |-> [v |-> 0, code |-> << >>, call |-> None, args |-> << >>]]

-----------------------------------------------------------------------------
\* A program computes, which leaves other values in its registers.
Computed(e, r) ==
  LET n == IF r.ebp = <<"user", e, "ebp", 1>> THEN 0 ELSE 1
  IN  [x \in RegNames |-> <<"user", e, x, n>>]

\* It traps with registers r: the pushes on the kernel stack, and the first lines
\* of trap(): "Halt the CPU if some other CPU has called panic()".  The values
\* that the kernel has in the registers are not modelled.
Trap(c, r, v, code, call, args) ==
  /\ at[c] = "user"
  /\ stack' = [stack EXCEPT ![c] = Frame(r, v, code)]
  /\ at' = [at EXCEPT ![c] = IF panicstr THEN "halt" ELSE "lock_kernel"]
  /\ regs' = [regs EXCEPT ![c] = NewRegs(None)]
  /\ want' = [want EXCEPT ![curenv[c]] = r]
  /\ asked' = [asked EXCEPT ![curenv[c]] = [v |-> v, code |-> code, call |-> call, args |-> args]]
  /\ UNCHANGED <<curenv, lock, panicstr, env_status, env_tf, env_ipc_recving, env_parent>>

Now(c) == Computed(curenv[c], regs[c])

\* An exception or an interrupt
Exception(c, v) == Trap(c, Now(c), v, IF PushesError(v) THEN <<Num(4)>> ELSE << >>, "exception", << >>)

\* An int instruction; without the privilege it is a general protection fault.
SoftInt(c, n) ==
  LET open == DPL(n) = 3
  IN  Trap(c, Now(c), IF open THEN n ELSE T_GPFLT, IF open THEN << >> ELSE <<Num(n * 8 + 2)>>, "int", << >>)

\* A stub, for the calls whose arguments the kernel passes on
SysCall(c, call, args) == Trap(c, StubRegs(Now(c), call, args), T_SYSCALL, << >>, call, args)

\* fork() sets its child going, and does so once.
NewChildren(e) ==
  {d \in Envs : env_parent[d] = e /\ env_status[d] = "NOT_RUNNABLE" /\ ~env_ipc_recving[d]}

Args(call, e) ==
  CASE call \in {"env_destroy"} -> {<<Env(e)>>}
    [] call = "ipc_try_send"    -> {<<Env(d), <<"arg", 2>>, <<"arg", 3>>, <<"arg", 4>>>> : d \in Envs \ {e}}
    [] call = "env_set_status"  -> {<<Env(d), <<"ENV_RUNNABLE">>>> : d \in NewChildren(e)}
    [] OTHER                    -> {[k \in 1 .. stubs[call].args |-> <<"arg", k>>]}

-----------------------------------------------------------------------------
\* The lock, and the copy to curenv->env_tf
TrapLock(c) ==
  /\ at[c] = "lock_kernel" /\ lock = None
  /\ lock' = c
  /\ env_tf' = [env_tf EXCEPT ![curenv[c]] = stack[c]]
  /\ stack' = [stack EXCEPT ![c] = << >>]   \* "should be ignored from here on"
  /\ at' = [at EXCEPT ![c] = "trap_dispatch"]
  /\ UNCHANGED <<regs, curenv, panicstr, env_status, env_ipc_recving, env_parent, asked, want>>

\* env_run(): status, curenv, the lock; the registers are loaded after that.
EnvRun(c, e, st) ==
  /\ env_status' = [x \in Envs |-> IF x = e THEN "RUNNING"
                                   ELSE IF x = curenv[c] /\ st[x] = "RUNNING" THEN "RUNNABLE" ELSE st[x]]
  /\ curenv' = [curenv EXCEPT ![c] = e]
  /\ lock' = None
  /\ at' = [at EXCEPT ![c] = "env_pop_tf"]

\* sched_yield(): another one that is runnable, the same one, or the idle one
SchedYield(c, st) ==
  LET others == {x \in Envs : st[x] = "RUNNABLE"}
      own    == {x \in {curenv[c]} \cap Envs : st[x] = "RUNNING"}
  IN  \/ \E e \in IF others # {} THEN others ELSE own : EnvRun(c, e, st)
      \/ /\ others \cup own = {}
         /\ env_status' = st
         /\ curenv' = [curenv EXCEPT ![c] = None]
         /\ lock' = None
         /\ at' = [at EXCEPT ![c] = "idle"]

\* The idle environment yields all the time.
IdleYield(c) ==
  /\ at[c] = "idle" /\ lock = None /\ ~panicstr
  /\ SchedYield(c, env_status) /\ at'[c] # "idle"
  /\ UNCHANGED <<regs, stack, panicstr, env_tf, env_ipc_recving, env_parent, asked, want>>

\* env_pop_tf()
EnvPopTf(c) ==
  /\ at[c] = "env_pop_tf"
  /\ regs' = [regs EXCEPT ![c] = Popped(env_tf[curenv[c]])]
  /\ at' = [at EXCEPT ![c] = "user"]
  /\ UNCHANGED <<stack, curenv, lock, panicstr, env_status, env_tf, env_ipc_recving, env_parent, asked, want>>

-----------------------------------------------------------------------------
\* trap_dispatch(), by the number in the frame

InKernel(c)  == at[c] = "trap_dispatch"
Tf(c)        == env_tf[curenv[c]]
Trapno(c)    == Tf(c)[tf_trapno][2]
IsIrq(n)     == n \in IRQ_OFFSET .. IRQ_OFFSET + 15

\* env_destroy(curenv)
Destroy(c) ==
  /\ SchedYield(c, [env_status EXCEPT ![curenv[c]] = "FREE"])
  /\ UNCHANGED <<regs, stack, panicstr, env_tf, env_ipc_recving, env_parent, asked, want>>

Timer(c) ==
  /\ InKernel(c) /\ Trapno(c) = IRQ_OFFSET + IRQ_TIMER
  /\ SchedYield(c, env_status)
  /\ UNCHANGED <<regs, stack, panicstr, env_tf, env_ipc_recving, env_parent, asked, want>>

\* Interrupts that are only printed: trap() goes on with the same environment.
PrintedIrq(c) ==
  /\ InKernel(c) /\ Trapno(c) - IRQ_OFFSET \in Printed
  /\ EnvRun(c, curenv[c], env_status)
  /\ UNCHANGED <<regs, stack, panicstr, env_tf, env_ipc_recving, env_parent, asked, want>>

\* panic(): the processor stays in the monitor and keeps the lock.
Panic(c) ==
  /\ panicstr' = TRUE
  /\ at' = [at EXCEPT ![c] = "monitor"]
  /\ UNCHANGED <<regs, stack, curenv, lock, env_status, env_tf, env_ipc_recving, env_parent, asked, want>>

\* breakpoint_handler(): monitor() does not come back, no command of it does.
Breakpoint(c) ==
  /\ InKernel(c) /\ Trapno(c) = T_BRKPT
  /\ at' = [at EXCEPT ![c] = "monitor"]
  /\ UNCHANGED <<regs, stack, curenv, lock, panicstr, env_status, env_tf, env_ipc_recving, env_parent, asked, want>>

\* page_fault_handler(): the upcall on the exception stack, or the end of the
\* environment, or of the kernel (see PgFault for which)
PageFault(c) ==
  /\ InKernel(c) /\ Trapno(c) = T_PGFLT
  /\ \/ /\ env_tf' = [env_tf EXCEPT ![curenv[c]][tf_eip] = <<"upcall">>, ![curenv[c]][tf_esp] = <<"utf">>]
        /\ want' = [want EXCEPT ![curenv[c]].eip = <<"upcall">>, ![curenv[c]].esp = <<"utf">>]
        /\ EnvRun(c, curenv[c], env_status)
        /\ UNCHANGED <<regs, stack, panicstr, env_ipc_recving, env_parent, asked>>
     \/ Destroy(c)
     \/ Panic(c)

\* default: "Unexpected trap"
Unexpected(c) ==
  /\ InKernel(c) /\ ~IsIrq(Trapno(c)) /\ Trapno(c) \notin {T_PGFLT, T_BRKPT, T_SYSCALL}
  /\ Destroy(c)

-----------------------------------------------------------------------------
\* syscall() of kern/syscall.c

\* Mutant: the third and the fourth argument change places.
Params_Swapped(tf) == <<tf[6], tf[7], tf[1], tf[5], tf[2]>>

\* trap_dispatch() passes edx, ecx, ebx, edi, esi.
Params(tf) == <<tf[6], tf[7], tf[5], tf[1], tf[2]>>

\* The function that the switch calls, and the parameters it is given
Called(tf) ==
  LET calls == {x \in DOMAIN stubs : stubs[x].num = tf[tf_eax][2]}
  IN  IF calls = {} THEN None ELSE CHOOSE x \in calls : TRUE

Given(tf) == SubSeq(Params(tf), 1, stubs[Called(tf)].args)

Syscall(c, call) == InKernel(c) /\ Trapno(c) = T_SYSCALL /\ Called(Tf(c)) = call

\* syscall() returns k to trap_dispatch(), which stores it; trap() goes on.
Return(c, tfs, w, k, st) ==
  /\ env_tf' = [tfs EXCEPT ![curenv[c]][tf_eax] = Num(k)]
  /\ want' = [w EXCEPT ![curenv[c]].eax = Num(k)]
  /\ EnvRun(c, curenv[c], st)
  /\ UNCHANGED <<regs, stack, panicstr, asked>>

\* The results that a call may have, if it changes nothing here
Results(call) ==
  CASE call = "getenvid"    -> {1}
    [] call = "cgetc"       -> {0, 1}
    [] call = "cputs"       -> {0}
    [] OTHER                -> {0, -1}

SysOther(c) ==
  /\ \E call \in DOMAIN stubs \ {"env_destroy", "yield", "exofork", "env_set_status", "ipc_try_send", "ipc_recv"} :
       Syscall(c, call) /\ \E k \in Results(call) : Return(c, env_tf, want, k, env_status)
  /\ UNCHANGED <<env_ipc_recving, env_parent>>

SysYield(c) ==
  /\ Syscall(c, "yield")
  /\ SchedYield(c, env_status)
  /\ UNCHANGED <<regs, stack, panicstr, env_tf, env_ipc_recving, env_parent, asked, want>>

\* sys_env_destroy() of the caller
SysEnvDestroy(c) ==
  /\ Syscall(c, "env_destroy") /\ Given(Tf(c))[1] = Env(curenv[c])
  /\ Destroy(c)

\* sys_exofork(): the parent's frame, with another result; or -E_NO_FREE_ENV
SysExofork(c) ==
  /\ Syscall(c, "exofork")
  /\ LET free == {x \in Envs : env_status[x] = "FREE"}
     IN  \/ \E x \in free :
              /\ Return(c, [env_tf EXCEPT ![x] = [Tf(c) EXCEPT ![tf_eax] = Num(0)]],
                        [want EXCEPT ![x] = [want[curenv[c]] EXCEPT !.eax = Num(0)]],
                        1, [env_status EXCEPT ![x] = "NOT_RUNNABLE"])
              /\ env_parent' = [y \in Envs |-> IF y = x THEN curenv[c]
                                               ELSE IF env_parent[y] = x THEN None ELSE env_parent[y]]
              /\ env_ipc_recving' = [env_ipc_recving EXCEPT ![x] = FALSE]
         \/ /\ free = {}
            /\ Return(c, env_tf, want, -1, env_status)
            /\ UNCHANGED <<env_ipc_recving, env_parent>>

\* sys_env_set_status() of a child
SysEnvSetStatus(c) ==
  /\ Syscall(c, "env_set_status")
  /\ LET x == Given(Tf(c))[1][2]
     IN  IF env_parent[x] = curenv[c] /\ env_status[x] # "FREE"
         THEN Return(c, env_tf, want, 0, [env_status EXCEPT ![x] = "RUNNABLE"])
         ELSE Return(c, env_tf, want, -1, env_status)
  /\ UNCHANGED <<env_ipc_recving, env_parent>>

\* Mutant: the receiver's result is not set.
Delivered_NoResult(x) == env_tf

\* sys_ipc_try_send() makes the receiver's system call return 0.
Delivered(x) == [env_tf EXCEPT ![x][tf_eax] = Num(0)]

SysIpcTrySend(c) ==
  /\ Syscall(c, "ipc_try_send")
  /\ LET x == Given(Tf(c))[1][2]
     IN  IF env_status[x] # "FREE" /\ env_ipc_recving[x]
         THEN /\ Return(c, Delivered(x), [want EXCEPT ![x].eax = Num(0)], 0, [env_status EXCEPT ![x] = "RUNNABLE"])
              /\ env_ipc_recving' = [env_ipc_recving EXCEPT ![x] = FALSE]
         ELSE Return(c, env_tf, want, -1, env_status) /\ UNCHANGED env_ipc_recving
  /\ UNCHANGED env_parent

\* sys_ipc_recv(): blocked, without a result
SysIpcRecv(c) ==
  /\ Syscall(c, "ipc_recv")
  /\ env_ipc_recving' = [env_ipc_recving EXCEPT ![curenv[c]] = TRUE]
  /\ SchedYield(c, [env_status EXCEPT ![curenv[c]] = "NOT_RUNNABLE"])
  /\ UNCHANGED <<regs, stack, panicstr, env_tf, env_parent, asked, want>>

-----------------------------------------------------------------------------
Kernel(c) ==
  \/ TrapLock(c) \/ IdleYield(c) \/ EnvPopTf(c)
  \/ Timer(c) \/ PrintedIrq(c) \/ Breakpoint(c) \/ PageFault(c) \/ Unexpected(c)
  \/ SysOther(c) \/ SysYield(c) \/ SysEnvDestroy(c) \/ SysExofork(c) \/ SysEnvSetStatus(c)
  \/ SysIpcTrySend(c) \/ SysIpcRecv(c)

User(c) ==
  \/ \E v \in Vectors : Exception(c, v)
  \/ \E n \in Ints : SoftInt(c, n)
  \/ \E call \in Calls : \E args \in Args(call, curenv[c]) : SysCall(c, call, args)

Next == \E c \in Cpus : Kernel(c) \/ User(c)

Spec == Init /\ [][Next]_vars

-----------------------------------------------------------------------------
\* Types; a frame on a kernel stack has the size of struct Trapframe.
TypeOK ==
  /\ \A c \in Cpus : stack[c] # << >> => Len(stack[c]) = 17
  /\ env_status \in [Envs -> {"FREE", "RUNNABLE", "RUNNING", "NOT_RUNNABLE"}]
  /\ lock \in Cpus \cup {None}

\* A program goes on with the registers it trapped with, but for what its trap
\* is to change: the result of its system call, the entry of its upcall.  That
\* is so whichever processor it runs on next and whoever was there meanwhile,
\* and for a child of sys_exofork() with the registers of its parent.
ContextKept == \A c \in Cpus : at[c] = "user" => regs[c] = want[curenv[c]]

\* "so the trap frame has the same format in either case" (trapentry.S): what
\* trap_dispatch() reads is what happened.  An int instruction cannot pass for
\* an exception, and a system call reaches the function that the stub names,
\* with the arguments in the order they were given.
TrapDecoded ==
  \A c \in Cpus : InKernel(c) =>
    LET why == asked[curenv[c]]
    IN  /\ Tf(c)[tf_trapno] = Num(why.v)
        /\ <<Tf(c)[tf_err]>> = IF why.code = << >> THEN <<Num(0)>> ELSE why.code
        /\ why.call \in DOMAIN stubs => Called(Tf(c)) = why.call /\ Given(Tf(c)) = why.args
        /\ why.call = "int" => Trapno(c) \in {T_BRKPT, T_GPFLT}

\* "if (check && ret > 0) panic" (lib/syscall.c): no stub panics; in particular
\* sys_ipc_recv(), whose result is set by whoever sends, does not find its own
\* number in the register.
StubsContent ==
  \A c \in Cpus : at[c] = "user" /\ asked[curenv[c]].call \in DOMAIN stubs =>
    (stubs[asked[curenv[c]].call].check => regs[c].eax[2] <= 0)

\* A trap is invisible to the program but for its purpose.
TrapsTransparent == ContextKept /\ TrapDecoded /\ StubsContent
=============================================================================
