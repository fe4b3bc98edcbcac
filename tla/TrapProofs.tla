----------------------------- MODULE TrapProofs -----------------------------
(***************************************************************************)
(* Proofs about TrapFrame: for any number of processors and environments,  *)
(* whatever exceptions, interrupts and system calls there are, save the    *)
(* alignment check (NoAlignmentCheck), traps are transparent: an           *)
(* environment goes on with the registers that it has to go on with, and   *)
(* the kernel is told what happened.                                       *)
(*                                                                         *)
(* The inductive invariant TInv says where the registers of an environment *)
(* are while it runs, is on its way into the kernel, is served, waits and  *)
(* is on its way out, and which answers the system call stubs may get.     *)
(* Every step of the kernel that serves a trap ends in sched_yield(), in   *)
(* env_run() or in a halt; KernelStep is what these have in common.        *)
(***************************************************************************)
EXTENDS TrapFrame, TLAPS

-----------------------------------------------------------------------------
\* r is a set of registers.
IsRegs(r) == r = [x \in RegNames |-> r[x]]

\* env_pop_tf() of frame tf loads the registers r.
Loads(tf, r) == DOMAIN tf = 1 .. 17 /\ Popped(tf) = r

\* The processor pushes an error code exactly where trapentry.S expects it.
Fits(v, code) ==
  \/ v \in TRAPHANDLER /\ \E w : code = <<w>>
  \/ v \notin TRAPHANDLER /\ code = << >>

\* The parts of what made an environment trap.
VectorOf(why) == why.v
CallOf(why)   == why.call
ArgsOf(why)   == why.args
Target(why)   == why.args[1][2]
IsStub(why)   == why.call \in DOMAIN stubs
Checked(why)  == stubs[why.call].check

\* The error code of a trap: the processor's, or else the zero of TRAPHANDLER_NOEC.
ErrWord(code) == IF code = << >> THEN <<Num(0)>> ELSE code

\* What trap_dispatch() reads in tf is what happened.
Decoded(tf, why) ==
  /\ tf[tf_trapno] = Num(why.v)
  /\ <<tf[tf_err]>> = ErrWord(why.code)
  /\ IsStub(why) => Called(tf) = why.call /\ Given(tf) = why.args
  /\ why.call = "int" => why.v \in {T_BRKPT, T_GPFLT}
  /\ IsStub(why) <=> why.v = T_SYSCALL

\* A result that the stubs that check it accept.
NotPositive(r) == r.eax[2] <= 0

-----------------------------------------------------------------------------
\* The words of a frame: the processor, the entry point and _alltraps together
\* push a struct Trapframe.
LEMMA FrameWords ==
  ASSUME NEW r, NEW v, NEW code, Fits(v, code)
  PROVE  /\ DOMAIN Frame(r, v, code) = 1 .. 17
         /\ Frame(r, v, code)[1] = r.edi /\ Frame(r, v, code)[2] = r.esi
         /\ Frame(r, v, code)[3] = r.ebp /\ Frame(r, v, code)[5] = r.ebx
         /\ Frame(r, v, code)[6] = r.edx /\ Frame(r, v, code)[7] = r.ecx
         /\ Frame(r, v, code)[8] = r.eax /\ Frame(r, v, code)[9] = r.es
         /\ Frame(r, v, code)[10] = r.ds /\ Frame(r, v, code)[11] = Num(v)
         /\ <<Frame(r, v, code)[12]>> = ErrWord(code)
         /\ Frame(r, v, code)[13] = r.eip /\ Frame(r, v, code)[14] = r.cs
         /\ Frame(r, v, code)[15] = r.eflags /\ Frame(r, v, code)[16] = r.esp
         /\ Frame(r, v, code)[17] = r.ss
  <1>1. CASE v \in TRAPHANDLER
    <2>1. PICK w : code = <<w>>
      BY <1>1, Zenon DEF Fits
    <2>2. Frame(r, v, code) = alltraps(r) \o <<Num(v)>> \o (<<w>> \o <<r.eip, r.cs, r.eflags, r.esp, r.ss>>)
      BY <1>1, <2>1, Zenon DEF Frame, EntryPush, HardwarePush
    <2> QED  BY <2>1, <2>2 DEF alltraps, ErrWord
  <1>2. CASE v \notin TRAPHANDLER
    <2>1. code = << >>
      BY <1>2, Zenon DEF Fits
    <2>2. Frame(r, v, code) = alltraps(r) \o <<Num(v), Num(0)>> \o (<< >> \o <<r.eip, r.cs, r.eflags, r.esp, r.ss>>)
      BY <1>2, <2>1, Zenon DEF Frame, EntryPush, HardwarePush
    <2> QED  BY <2>1, <2>2, SMTT(40) DEF alltraps, ErrWord
  <1> QED  BY <1>1, <1>2, Zenon

\* The trap number and the error code of a frame.
LEMMA FrameHead ==
  ASSUME NEW r, NEW v, NEW code, Fits(v, code)
  PROVE  /\ Frame(r, v, code)[tf_trapno] = Num(v)
         /\ <<Frame(r, v, code)[tf_err]>> = ErrWord(code)
  <1>1. Frame(r, v, code)[11] = Num(v) /\ <<Frame(r, v, code)[12]>> = ErrWord(code)
    BY FrameWords
  <1> QED  BY <1>1, Zenon DEF tf_trapno, tf_err

\* Registers are the record of their values.
LEMMA RegsRecord ==
  ASSUME NEW r, IsRegs(r)
  PROVE  r = [edi |-> r.edi, esi |-> r.esi, ebp |-> r.ebp, ebx |-> r.ebx, edx |-> r.edx, ecx |-> r.ecx,
              eax |-> r.eax, es |-> r.es, ds |-> r.ds, eip |-> r.eip, cs |-> r.cs,
              eflags |-> r.eflags, esp |-> r.esp, ss |-> r.ss]
  BY Zenon DEF IsRegs, RegNames

\* What is pushed is what would be popped.
LEMMA FrameLoads ==
  ASSUME NEW r, NEW v, NEW code, IsRegs(r), Fits(v, code)
  PROVE  Loads(Frame(r, v, code), r)
  <1>1. r = [edi |-> r.edi, esi |-> r.esi, ebp |-> r.ebp, ebx |-> r.ebx, edx |-> r.edx, ecx |-> r.ecx,
              eax |-> r.eax, es |-> r.es, ds |-> r.ds, eip |-> r.eip, cs |-> r.cs,
              eflags |-> r.eflags, esp |-> r.esp, ss |-> r.ss]
    BY RegsRecord, Zenon
  <1> QED  BY <1>1, FrameWords DEF Loads, Popped

\* A result that is stored in a frame is loaded with it.
LEMMA LoadsEax ==
  ASSUME NEW tf, NEW r, NEW w, Loads(tf, r)
  PROVE  Loads([tf EXCEPT ![tf_eax] = w], [r EXCEPT !.eax = w])
  BY DEF Loads, Popped, tf_eax

\* So is the program counter
LEMMA LoadsEip ==
  ASSUME NEW tf, NEW r, NEW w, Loads(tf, r)
  PROVE  Loads([tf EXCEPT ![tf_eip] = w], [r EXCEPT !.eip = w])
  BY DEF Loads, Popped, tf_eip

\* and so is the stack pointer: page_fault_handler() stores the two
LEMMA LoadsEsp ==
  ASSUME NEW tf, NEW r, NEW w, Loads(tf, r)
  PROVE  Loads([tf EXCEPT ![tf_esp] = w], [r EXCEPT !.esp = w])
  BY DEF Loads, Popped, tf_esp

\* together, for the upcall.
LEMMA LoadsUpcall ==
  ASSUME NEW tf, NEW r, NEW u, NEW w, Loads(tf, r)
  PROVE  Loads([tf EXCEPT ![tf_eip] = u, ![tf_esp] = w], [r EXCEPT !.eip = u, !.esp = w])
  <1>1. PICK t : t = [tf EXCEPT ![tf_eip] = u]
    BY Zenon
  <1>2. PICK q : q = [r EXCEPT !.eip = u]
    BY Zenon
  <1>3. Loads([t EXCEPT ![tf_esp] = w], [q EXCEPT !.esp = w])
    BY <1>1, <1>2, LoadsEip, LoadsEsp, Zenon
  <1>4. [r EXCEPT !.eip = u, !.esp = w] = [q EXCEPT !.esp = w]
    BY <1>2, Zenon
  <1>5. [tf EXCEPT ![tf_eip] = u, ![tf_esp] = w] = [t EXCEPT ![tf_esp] = w]
    BY <1>1, Zenon
  <1> QED  BY <1>3, <1>4, <1>5, Zenon

\* The registers that a program computes, and those that a stub loads.
LEMMA ComputedRegs ==
  ASSUME NEW e, NEW r, NEW call, NEW args
  PROVE  IsRegs(Computed(e, r)) /\ IsRegs(StubRegs(Computed(e, r), call, args))
  <1>1. \A q : IsRegs([x \in RegNames |-> <<"user", e, x, q>>])
    BY Zenon DEF IsRegs
  <1>2. IsRegs(Computed(e, r))
    BY <1>1, Zenon DEF Computed
  <1>3. ASSUME NEW p, IsRegs(p) PROVE IsRegs(StubRegs(p, call, args))
    BY <1>3, Zenon DEF IsRegs, StubRegs
  <1> QED  BY <1>2, <1>3, Zenon

-----------------------------------------------------------------------------
\* The numbers of the system calls, and of their arguments.
NumOf(call)  == stubs[call].num
ArityOf(call) == stubs[call].args
Complete(call, args) == args = [k \in 1 .. ArityOf(call) |-> args[k]]

\* The system calls (inc/syscall.h): their numbers differ.
LEMMA StubNumbers ==
  /\ \A x \in DOMAIN stubs : ArityOf(x) \in 0 .. 5
  /\ \A x, y \in DOMAIN stubs : NumOf(x) = NumOf(y) => x = y
  /\ "exofork" \in DOMAIN stubs /\ ArityOf("exofork") = 0
  /\ "exception" \notin DOMAIN stubs /\ "int" \notin DOMAIN stubs /\ None \notin DOMAIN stubs
  <1>1. DOMAIN stubs =
          {"cputs", "cgetc", "getenvid", "env_destroy", "page_alloc", "page_map", "page_unmap", "exofork",
           "env_set_status", "env_set_pgfault_upcall", "yield", "ipc_try_send", "ipc_recv"}
    BY Zenon DEF stubs
  <1>2. /\ NumOf("cputs") = 0 /\ NumOf("cgetc") = 1 /\ NumOf("getenvid") = 2 /\ NumOf("env_destroy") = 3
        /\ NumOf("page_alloc") = 4 /\ NumOf("page_map") = 5 /\ NumOf("page_unmap") = 6
        /\ NumOf("exofork") = 7 /\ NumOf("env_set_status") = 8 /\ NumOf("env_set_pgfault_upcall") = 9
        /\ NumOf("yield") = 10 /\ NumOf("ipc_try_send") = 11 /\ NumOf("ipc_recv") = 12
    BY Zenon DEF NumOf, stubs, Stub
  <1>3. /\ ArityOf("cputs") = 2 /\ ArityOf("cgetc") = 0 /\ ArityOf("getenvid") = 0
        /\ ArityOf("env_destroy") = 1 /\ ArityOf("page_alloc") = 3 /\ ArityOf("page_map") = 5
        /\ ArityOf("page_unmap") = 2 /\ ArityOf("exofork") = 0 /\ ArityOf("env_set_status") = 2
        /\ ArityOf("env_set_pgfault_upcall") = 2 /\ ArityOf("yield") = 0
        /\ ArityOf("ipc_try_send") = 4 /\ ArityOf("ipc_recv") = 1
    BY Zenon DEF ArityOf, stubs, Stub
  <1>4. \A x, y \in DOMAIN stubs : NumOf(x) = NumOf(y) => x = y
    BY <1>1, <1>2
  <1>5. \A x \in DOMAIN stubs : ArityOf(x) \in 0 .. 5
    BY <1>1, <1>3
  <1>6. "exception" \notin DOMAIN stubs /\ "int" \notin DOMAIN stubs /\ None \notin DOMAIN stubs
    BY <1>1, Zenon DEF None
  <1> QED  BY <1>1, <1>3, <1>4, <1>5, <1>6, Zenon

\* The frame of a system call names it and has its arguments, in their order:
\* the stub loads the registers that trap_dispatch() passes on.
LEMMA StubFrame ==
  ASSUME NEW p, IsRegs(p), NEW call \in DOMAIN stubs, NEW args,
         Complete(call, args), NEW tf, tf = Frame(StubRegs(p, call, args), T_SYSCALL, << >>)
  PROVE  Called(tf) = call /\ Given(tf) = args
  <1>1. PICK r : r = StubRegs(p, call, args)
    BY Zenon
  <1>2. Fits(T_SYSCALL, << >>)
    BY DEF Fits, T_SYSCALL, TRAPHANDLER
  <1>3. tf[8] = r.eax /\ tf[6] = r.edx /\ tf[7] = r.ecx /\ tf[5] = r.ebx /\ tf[1] = r.edi /\ tf[2] = r.esi
    BY <1>1, <1>2, FrameWords
  <1>4. r.eax = Num(NumOf(call))
    BY <1>1, Zenon DEF StubRegs, IsRegs, RegNames, NumOf
  <1>5. tf[tf_eax][2] = NumOf(call)
    BY <1>3, <1>4 DEF Num, tf_eax
  <1>6. Called(tf) = call
    <2>1. \A x \in DOMAIN stubs : stubs[x].num = tf[tf_eax][2] <=> x = call
      BY <1>5, StubNumbers, Zenon DEF NumOf
    <2>2. {x \in DOMAIN stubs : stubs[x].num = tf[tf_eax][2]} = {call}
      BY <2>1, Zenon
    <2>3. (CHOOSE x \in {call} : TRUE) = call
      BY Zenon
    <2>4. {call} # {}
      BY Zenon
    <2> QED  BY <2>2, <2>3, <2>4, Zenon DEF Called
  <1>7. PICK n \in 0 .. 5 : n = ArityOf(call)
    BY StubNumbers, Zenon
  <1>8. Given(tf) = SubSeq(Params(tf), 1, n)
    BY <1>6, <1>7, Zenon DEF Given, ArityOf
  <1>9. Params(tf) = <<r.edx, r.ecx, r.ebx, r.edi, r.esi>>
    BY <1>3, Zenon DEF Params
  <1>10. SubSeq(Params(tf), 1, n) = [k \in 1 .. n |-> Params(tf)[k]]
    BY <1>9
  <1>11. ASSUME NEW k \in 1 .. n PROVE Params(tf)[k] = args[k]
    <2>1. call # "exofork"
      BY <1>7, <1>11, StubNumbers
    <2>2. Len(args) = n
      BY <1>7 DEF Complete
    <2>3. /\ r.edx = Arg(args, 1) /\ r.ecx = Arg(args, 2) /\ r.ebx = Arg(args, 3)
          /\ r.edi = Arg(args, 4) /\ r.esi = Arg(args, 5)
      BY <1>1, <2>1, Zenon DEF StubRegs, IsRegs, RegNames
    <2>4. k = 1 \/ k = 2 \/ k = 3 \/ k = 4 \/ k = 5
      OBVIOUS
    <2> QED  BY <1>9, <2>2, <2>3, <2>4 DEF Arg
  <1>12. Given(tf) = args
    BY <1>7, <1>8, <1>10, <1>11, Zenon DEF Complete
  <1> QED  BY <1>6, <1>12, Zenon

\* The stubs that accept a positive result.
LEMMA Unchecked ==
  /\ ~stubs["yield"].check /\ ~stubs["exofork"].check /\ ~stubs["ipc_try_send"].check
  /\ ~stubs["getenvid"].check /\ ~stubs["cgetc"].check /\ ~stubs["cputs"].check
  BY Zenon DEF stubs, Stub

-----------------------------------------------------------------------------
Places   == {"idle", "user", "lock_kernel", "halt", "trap_dispatch", "env_pop_tf", "monitor"}
Statuses == {"FREE", "RUNNABLE", "RUNNING", "NOT_RUNNABLE"}

\* Where the registers of the current environment are not in its env_tf.
Away == {"user", "lock_kernel", "halt"}

\* Types.
Typed ==
  /\ at \in [Cpus -> Places] /\ curenv \in [Cpus -> Envs \cup {None}]
  /\ env_status \in [Envs -> Statuses] /\ env_ipc_recving \in [Envs -> BOOLEAN]
  /\ DOMAIN regs = Cpus /\ DOMAIN stack = Cpus
  /\ DOMAIN env_tf = Envs /\ DOMAIN want = Envs /\ DOMAIN asked = Envs /\ DOMAIN env_parent = Envs
  /\ \A e \in Envs : DOMAIN env_tf[e] = 1 .. 17

\* A processor that is not idle runs an environment of its own.
Scheduled ==
  /\ \A c \in Cpus : at[c] # "idle" => curenv[c] \in Envs /\ env_status[curenv[c]] = "RUNNING"
  /\ \A c \in Cpus : at[c] = "idle" => curenv[c] = None
  /\ \A c, d \in Cpus : curenv[c] = curenv[d] /\ curenv[c] \in Envs => c = d

\* An environment that receives is blocked.
Receiving == \A e \in Envs : env_ipc_recving[e] => env_status[e] = "NOT_RUNNABLE"

\* What processor c has been asked for: a child that it is to set going waits,
\* and one that it sends to exists.
AskedOf(c) ==
  /\ CallOf(asked[curenv[c]]) \in {"env_set_status", "ipc_try_send"} => Target(asked[curenv[c]]) \in Envs
  /\ CallOf(asked[curenv[c]]) = "env_set_status" =>
       /\ env_status[Target(asked[curenv[c]])] = "NOT_RUNNABLE"
       /\ ~env_ipc_recving[Target(asked[curenv[c]])]
       /\ env_parent[Target(asked[curenv[c]])] = curenv[c]

Requests == \A c \in Cpus : at[c] \in {"lock_kernel", "trap_dispatch"} => AskedOf(c)

\* The registers of an environment are where they have to be.
RegsOf(c) ==
  /\ at[c] = "user" => regs[c] = want[curenv[c]]
  /\ at[c] = "lock_kernel" => Loads(stack[c], want[curenv[c]]) /\ Decoded(stack[c], asked[curenv[c]])
  /\ at[c] = "trap_dispatch" => Decoded(env_tf[curenv[c]], asked[curenv[c]])

\* No processor is on its way into the kernel or out of it with e.
Settled(e) == \A c \in Cpus : curenv[c] = e => at[c] \notin Away

Saved == \A e \in Envs : Settled(e) => Loads(env_tf[e], want[e])

\* The result in the registers of e is one that its stub accepts.
ContentOf(e) == IsStub(asked[e]) /\ Checked(asked[e]) => NotPositive(want[e])

\* e has been given the result of its last system call.
Answered(e) ==
  /\ \A c \in Cpus : curenv[c] = e => at[c] \in {"user", "env_pop_tf"}
  /\ ~env_ipc_recving[e] /\ env_status[e] # "FREE"

Answers == \A e \in Envs : Answered(e) => ContentOf(e)

TInv ==
  /\ Typed /\ Scheduled /\ Receiving /\ Requests /\ Saved /\ Answers
  /\ \A c \in Cpus : RegsOf(c)

-----------------------------------------------------------------------------
\* What sched_yield() and env_run() on processor c do to statuses st.
Resched(c, st) ==
  /\ at' \in [Cpus -> Places] /\ curenv' \in [Cpus -> Envs \cup {None}]
  /\ env_status' \in [Envs -> Statuses]
  /\ Scheduled'
  /\ \A d \in Cpus : d # c => at'[d] = at[d] /\ curenv'[d] = curenv[d]
  /\ at'[c] \in {"idle", "env_pop_tf"}
  /\ \A x \in Envs : \/ env_status'[x] = st[x]
                     \/ env_status'[x] \in {"RUNNABLE", "RUNNING"} /\ st[x] \in {"RUNNABLE", "RUNNING"}

\* The environments of other processors run.
OthersRun(c, st) ==
  /\ st \in [Envs -> Statuses]
  /\ \A d \in Cpus : d # c /\ curenv[d] \in Envs => st[curenv[d]] = "RUNNING"

\* env_run() of an environment that no other processor runs.
LEMMA EnvRunResched ==
  ASSUME TrapFrameAssumption, Typed, Scheduled, NEW c \in Cpus, NEW st, OthersRun(c, st),
         NEW e \in Envs, st[e] = "RUNNABLE" \/ (e = curenv[c] /\ st[e] = "RUNNING"),
         EnvRun(c, e, st)
  PROVE  Resched(c, st)
  <1>1. /\ env_status' = [x \in Envs |-> IF x = e THEN "RUNNING"
                             ELSE IF x = curenv[c] /\ st[x] = "RUNNING" THEN "RUNNABLE" ELSE st[x]]
        /\ curenv' = [curenv EXCEPT ![c] = e]
        /\ at' = [at EXCEPT ![c] = "env_pop_tf"]
    BY Zenon DEF EnvRun
  <1>2. at \in [Cpus -> Places] /\ curenv \in [Cpus -> Envs \cup {None}] /\ st \in [Envs -> Statuses]
    BY Zenon DEF Typed, OthersRun
  <1>3. at' \in [Cpus -> Places] /\ curenv' \in [Cpus -> Envs \cup {None}] /\ env_status' \in [Envs -> Statuses]
    <2>1. at' \in [Cpus -> Places]
      BY <1>1, <1>2, Zenon DEF Places
    <2>2. curenv' \in [Cpus -> Envs \cup {None}]
      BY <1>1, <1>2, Zenon
    <2>3. env_status' \in [Envs -> Statuses]
      BY <1>1, <1>2, Zenon DEF Statuses
    <2> QED  BY <2>1, <2>2, <2>3, Zenon
  <1>4. /\ at'[c] = "env_pop_tf" /\ curenv'[c] = e /\ env_status'[e] = "RUNNING"
        /\ \A d \in Cpus : d # c => at'[d] = at[d] /\ curenv'[d] = curenv[d]
    BY <1>1, <1>2, Zenon
  <1>5. ASSUME NEW x \in Envs
        PROVE  \/ env_status'[x] = st[x]
               \/ env_status'[x] \in {"RUNNABLE", "RUNNING"} /\ st[x] \in {"RUNNABLE", "RUNNING"}
    <2>1. CASE x = e
      BY <2>1, <1>4, Zenon
    <2>2. CASE x # e
      BY <2>2, <1>1, Zenon
    <2> QED  BY <2>1, <2>2, Zenon
  <1>6. ASSUME NEW d \in Cpus, d # c, curenv[d] \in Envs
        PROVE  curenv[d] # e /\ curenv[d] # curenv[c] /\ env_status'[curenv[d]] = "RUNNING"
    <2>1. st[curenv[d]] = "RUNNING"
      BY <1>6, Zenon DEF OthersRun
    <2>2. curenv[d] # curenv[c]
      BY <1>6, Zenon DEF Scheduled
    <2>3. curenv[d] # e
      BY <2>1, <2>2, Zenon
    <2> QED  BY <2>1, <2>2, <2>3, <1>1, <1>6, Zenon
  <1>7. Scheduled'
    <2>1. ASSUME NEW d \in Cpus, at'[d] # "idle"
          PROVE  curenv'[d] \in Envs /\ env_status'[curenv'[d]] = "RUNNING"
      <3>1. CASE d = c
        BY <3>1, <1>4, Zenon
      <3>2. CASE d # c
        <4>1. at[d] # "idle" /\ curenv'[d] = curenv[d]
          BY <3>2, <2>1, <1>4, Zenon
        <4>2. curenv[d] \in Envs
          BY <4>1, Zenon DEF Scheduled
        <4> QED  BY <4>1, <4>2, <3>2, <1>6, Zenon
      <3> QED  BY <3>1, <3>2, Zenon
    <2>2. ASSUME NEW d \in Cpus, at'[d] = "idle" PROVE curenv'[d] = None
      BY <2>2, <1>4 DEF Scheduled
    <2>3. ASSUME NEW b \in Cpus, NEW d \in Cpus, curenv'[b] = curenv'[d], curenv'[b] \in Envs
          PROVE  b = d
      <3>1. CASE b = c /\ d # c
        BY <3>1, <2>3, <1>4, <1>6, Zenon
      <3>2. CASE b # c /\ d = c
        BY <3>2, <2>3, <1>4, <1>6, Zenon
      <3>3. CASE b # c /\ d # c
        BY <3>3, <2>3, <1>4 DEF Scheduled
      <3> QED  BY <3>1, <3>2, <3>3, Zenon
    <2> QED  BY <2>1, <2>2, <2>3, Zenon DEF Scheduled
  <1> QED  BY <1>3, <1>4, <1>5, <1>7, Zenon DEF Resched

\* sched_yield()
LEMMA YieldResched ==
  ASSUME TrapFrameAssumption, Typed, Scheduled, NEW c \in Cpus, NEW st, OthersRun(c, st),
         SchedYield(c, st)
  PROVE  Resched(c, st)
  <1> DEFINE others == {x \in Envs : st[x] = "RUNNABLE"}
             own    == {x \in {curenv[c]} \cap Envs : st[x] = "RUNNING"}
  <1>1. CASE \E e \in IF others # {} THEN others ELSE own : EnvRun(c, e, st)
    <2>1. PICK e \in IF others # {} THEN others ELSE own : EnvRun(c, e, st)
      BY <1>1, Zenon
    <2>2. CASE e \in others
      BY <2>1, <2>2, EnvRunResched, Zenon
    <2>3. CASE e \in own
      BY <2>1, <2>3, EnvRunResched, Zenon
    <2>4. e \in others \/ e \in own
      BY <2>1, Zenon
    <2> QED  BY <2>2, <2>3, <2>4, Zenon
  <1>2. CASE /\ env_status' = st
             /\ curenv' = [curenv EXCEPT ![c] = None]
             /\ at' = [at EXCEPT ![c] = "idle"]
    <2>1. at \in [Cpus -> Places] /\ curenv \in [Cpus -> Envs \cup {None}] /\ st \in [Envs -> Statuses]
      BY Zenon DEF Typed, OthersRun
    <2>2. /\ at' \in [Cpus -> Places] /\ curenv' \in [Cpus -> Envs \cup {None}]
          /\ env_status' \in [Envs -> Statuses]
      BY <1>2, <2>1, Zenon DEF Places
    <2>3. /\ at'[c] = "idle" /\ curenv'[c] = None /\ None \notin Envs
          /\ \A d \in Cpus : d # c => at'[d] = at[d] /\ curenv'[d] = curenv[d]
      BY <1>2, <2>1, Zenon DEF TrapFrameAssumption
    <2>4. Scheduled'
      <3>1. ASSUME NEW d \in Cpus, at'[d] # "idle"
            PROVE  curenv'[d] \in Envs /\ env_status'[curenv'[d]] = "RUNNING"
        <4>1. d # c /\ at[d] # "idle" /\ curenv'[d] = curenv[d]
          BY <3>1, <2>3, Zenon
        <4>2. curenv[d] \in Envs
          BY <4>1, Zenon DEF Scheduled
        <4> QED  BY <4>1, <4>2, <1>2, Zenon DEF OthersRun
      <3>2. ASSUME NEW d \in Cpus, at'[d] = "idle" PROVE curenv'[d] = None
        BY <3>2, <2>3, Zenon DEF Scheduled
      <3>3. ASSUME NEW b \in Cpus, NEW d \in Cpus, curenv'[b] = curenv'[d], curenv'[b] \in Envs
            PROVE  b = d
        BY <3>3, <2>3 DEF Scheduled
      <3> QED  BY <3>1, <3>2, <3>3, Zenon DEF Scheduled
    <2> QED  BY <2>2, <2>3, <2>4, <1>2, Zenon DEF Resched
  <1> QED  BY <1>1, <1>2, Zenon DEF SchedYield

-----------------------------------------------------------------------------
\* e is current on no processor but c.
Mine(c, e) == \A d \in Cpus : curenv[d] = e => d = c

\* A step of the kernel on processor c changes no frame of an environment that
\* another processor runs, and leaves every other frame as it has to be.
FramesRight(c) ==
  /\ DOMAIN env_tf' = Envs /\ DOMAIN want' = Envs
  /\ \A e \in Envs : DOMAIN env_tf'[e] = 1 .. 17
  /\ \A d \in Cpus : d # c /\ curenv[d] \in Envs =>
       env_tf'[curenv[d]] = env_tf[curenv[d]] /\ want'[curenv[d]] = want[curenv[d]]
  /\ \A e \in Envs : Mine(c, e) => Loads(env_tf'[e], want'[e])

\* It blocks those who receive, and leaves alone the child that another
\* processor is about to set going.
StatusRight(c, st) ==
  /\ env_ipc_recving' \in [Envs -> BOOLEAN] /\ DOMAIN env_parent' = Envs
  /\ \A e \in Envs : env_ipc_recving'[e] => st[e] = "NOT_RUNNABLE"
  /\ \A d \in Cpus :
       d # c /\ at[d] \in {"lock_kernel", "trap_dispatch"} /\ CallOf(asked[curenv[d]]) = "env_set_status" =>
         /\ st[Target(asked[curenv[d]])] = "NOT_RUNNABLE"
         /\ ~env_ipc_recving'[Target(asked[curenv[d]])]
         /\ env_parent'[Target(asked[curenv[d]])] = curenv[d]

\* It lets no environment go on without a result that its stub accepts.
AnswersRight(c, st) ==
  \A e \in Envs : Mine(c, e) /\ ~env_ipc_recving'[e] /\ st[e] # "FREE" =>
    (IsStub(asked[e]) /\ Checked(asked[e]) => NotPositive(want'[e]))

\* Then the step is right.
LEMMA KernelStep ==
  ASSUME TrapFrameAssumption, TInv, NEW c \in Cpus, at[c] \in {"idle", "trap_dispatch"},
         NEW st, OthersRun(c, st), Resched(c, st), UNCHANGED <<regs, stack, asked>>,
         FramesRight(c), StatusRight(c, st), AnswersRight(c, st)
  PROVE  TInv'
  <1>1. /\ \A d \in Cpus : d # c => at'[d] = at[d] /\ curenv'[d] = curenv[d]
        /\ at'[c] \in {"idle", "env_pop_tf"}
        /\ \A x \in Envs : \/ env_status'[x] = st[x]
                           \/ env_status'[x] \in {"RUNNABLE", "RUNNING"} /\ st[x] \in {"RUNNABLE", "RUNNING"}
    BY Zenon DEF Resched
  <1>2. Typed'
    BY Zenon DEF TInv, Typed, Resched, FramesRight, StatusRight
  <1>3. Scheduled'
    BY Zenon DEF Resched
  <1>4. Receiving'
    BY <1>1 DEF StatusRight, Receiving
  <1>5. ASSUME NEW d \in Cpus, d # c, curenv[d] \in Envs, NEW e, e = curenv[d]
        PROVE  /\ env_tf'[e] = env_tf[e] /\ want'[e] = want[e]
               /\ \A b \in Cpus : curenv[b] = e => b = d
               /\ curenv'[d] = e /\ at'[d] = at[d]
    BY <1>1, <1>5, Zenon DEF FramesRight, TInv, Scheduled
  <1>6. ASSUME NEW d \in Cpus, d # c, at[d] # "idle" PROVE curenv[d] \in Envs
    BY <1>6, Zenon DEF TInv, Scheduled
  <1>7. Requests'
    <2> SUFFICES ASSUME NEW d \in Cpus, at'[d] \in {"lock_kernel", "trap_dispatch"}
                 PROVE  AskedOf(d)'
      BY Zenon DEF Requests
    <2>1. d # c /\ at[d] \in {"lock_kernel", "trap_dispatch"} /\ curenv'[d] = curenv[d]
      BY <1>1, Zenon
    <2>2. AskedOf(d)
      BY <2>1, Zenon DEF TInv, Requests
    <2>3. PICK why : why = asked[curenv[d]]
      BY Zenon
    <2>4. asked'[curenv'[d]] = why
      BY <2>1, <2>3, Zenon
    <2>5. CallOf(why) \in {"env_set_status", "ipc_try_send"} => Target(why) \in Envs
      BY <2>2, <2>3, Zenon DEF AskedOf
    <2>6. ASSUME CallOf(why) = "env_set_status"
          PROVE  /\ env_status'[Target(why)] = "NOT_RUNNABLE"
                 /\ ~env_ipc_recving'[Target(why)]
                 /\ env_parent'[Target(why)] = curenv'[d]
      <3>1. /\ st[Target(why)] = "NOT_RUNNABLE" /\ ~env_ipc_recving'[Target(why)]
            /\ env_parent'[Target(why)] = curenv[d]
        BY <2>1, <2>3, <2>6, Zenon DEF StatusRight
      <3>2. env_status'[Target(why)] = "NOT_RUNNABLE"
        BY <3>1, <2>5, <2>6, <1>1, Zenon
      <3> QED  BY <3>1, <3>2, <2>1, Zenon
    <2> QED  BY <2>4, <2>5, <2>6, Zenon DEF AskedOf
  <1>8. ASSUME NEW e \in Envs, ~Mine(c, e)
        PROVE  \E d \in Cpus : d # c /\ curenv[d] = e
    BY <1>8, Zenon DEF Mine
  <1>9. Saved'
    <2> SUFFICES ASSUME NEW e \in Envs, Settled(e)' PROVE Loads(env_tf'[e], want'[e])
      BY Zenon DEF Saved
    <2>1. CASE Mine(c, e)
      BY <2>1, Zenon DEF FramesRight
    <2>2. CASE ~Mine(c, e)
      <3>1. PICK d \in Cpus : d # c /\ curenv[d] = e
        BY <2>2, <1>8, Zenon
      <3>2. at[d] \notin Away
        BY <3>1, <1>5, Zenon DEF Settled
      <3>3. Settled(e)
        BY <3>1, <3>2, <1>5, Zenon DEF Settled
      <3>4. Loads(env_tf[e], want[e])
        BY <3>3, Zenon DEF TInv, Saved
      <3> QED  BY <3>1, <3>4, <1>5, Zenon
    <2> QED  BY <2>1, <2>2, Zenon
  <1>10. Answers'
    <2> SUFFICES ASSUME NEW e \in Envs, Answered(e)' PROVE ContentOf(e)'
      BY Zenon DEF Answers
    <2>1. ~env_ipc_recving'[e] /\ env_status'[e] # "FREE"
      BY Zenon DEF Answered
    <2>2. asked'[e] = asked[e]
      BY Zenon
    <2>3. CASE Mine(c, e)
      <3>1. st[e] # "FREE"
        BY <2>1, <1>1, Zenon
      <3>2. IsStub(asked[e]) /\ Checked(asked[e]) => NotPositive(want'[e])
        BY <2>1, <2>3, <3>1, Zenon DEF AnswersRight
      <3> QED  BY <2>2, <3>2, Zenon DEF ContentOf
    <2>4. CASE ~Mine(c, e)
      <3>1. PICK d \in Cpus : d # c /\ curenv[d] = e
        BY <2>4, <1>8, Zenon
      <3>2. at[d] \in {"user", "env_pop_tf"}
        BY <3>1, <1>5, Zenon DEF Answered
      <3>3. env_status[e] = "RUNNING"
        BY <3>1, <3>2, Zenon DEF TInv, Scheduled
      <3>4. ~env_ipc_recving[e]
        BY <3>3, Zenon DEF TInv, Receiving
      <3>5. Answered(e)
        BY <3>1, <3>2, <3>3, <3>4, <1>5, Zenon DEF Answered
      <3>6. ContentOf(e)
        BY <3>5, Zenon DEF TInv, Answers
      <3>7. want'[e] = want[e]
        BY <3>1, <1>5
      <3> QED  BY <2>2, <3>6, <3>7, Zenon DEF ContentOf
    <2> QED  BY <2>3, <2>4, Zenon
  <1>11. ASSUME NEW d \in Cpus PROVE RegsOf(d)'
    <2>1. CASE d = c
      <3>1. at'[d] # "user" /\ at'[d] # "lock_kernel" /\ at'[d] # "trap_dispatch"
        BY <2>1, <1>1, Zenon
      <3> QED  BY <3>1, Zenon DEF RegsOf
    <2>2. CASE d # c /\ at[d] = "idle"
      <3>1. at'[d] # "user" /\ at'[d] # "lock_kernel" /\ at'[d] # "trap_dispatch"
        BY <2>2, <1>1, Zenon
      <3> QED  BY <3>1, Zenon DEF RegsOf
    <2>3. CASE d # c /\ at[d] # "idle"
      <3>1. PICK e \in Envs : e = curenv[d]
        BY <2>3, <1>6, Zenon
      <3>2. /\ env_tf'[e] = env_tf[e] /\ want'[e] = want[e] /\ asked'[e] = asked[e]
            /\ curenv'[d] = e /\ at'[d] = at[d] /\ stack'[d] = stack[d] /\ regs'[d] = regs[d]
        BY <2>3, <3>1, <1>5, Zenon
      <3>3. RegsOf(d)
        BY Zenon DEF TInv
      <3> QED  BY <3>1, <3>2, <3>3, Zenon DEF RegsOf
    <2> QED  BY <2>1, <2>2, <2>3, Zenon
  <1> QED  BY <1>2, <1>3, <1>4, <1>7, <1>9, <1>10, <1>11, Zenon DEF TInv

-----------------------------------------------------------------------------
\* What holds of the environment that trap_dispatch() serves.
LEMMA Serving ==
  ASSUME TInv, NEW c \in Cpus, InKernel(c)
  PROVE  /\ curenv[c] \in Envs /\ env_status[curenv[c]] = "RUNNING" /\ Mine(c, curenv[c])
         /\ ~env_ipc_recving[curenv[c]]
         /\ Decoded(env_tf[curenv[c]], asked[curenv[c]])
         /\ Loads(env_tf[curenv[c]], want[curenv[c]])
         /\ AskedOf(c)
         /\ Trapno(c) = VectorOf(asked[curenv[c]])
  <1>1. at[c] = "trap_dispatch"
    BY Zenon DEF InKernel
  <1>2. curenv[c] \in Envs /\ env_status[curenv[c]] = "RUNNING"
    BY <1>1, Zenon DEF TInv, Scheduled
  <1>3. Mine(c, curenv[c])
    BY <1>2, Zenon DEF TInv, Scheduled, Mine
  <1>4. ~env_ipc_recving[curenv[c]]
    BY <1>2, Zenon DEF TInv, Receiving
  <1>5. Decoded(env_tf[curenv[c]], asked[curenv[c]])
    BY <1>1, Zenon DEF TInv, RegsOf
  <1>6. Settled(curenv[c])
    BY <1>1, <1>3, Zenon DEF Settled, Mine, Away
  <1>7. Loads(env_tf[curenv[c]], want[curenv[c]])
    BY <1>2, <1>6, Zenon DEF TInv, Saved
  <1>8. AskedOf(c)
    BY <1>1, Zenon DEF TInv, Requests
  <1>9. Trapno(c) = VectorOf(asked[curenv[c]])
    BY <1>5 DEF Trapno, Tf, Decoded, Num, VectorOf
  <1> QED  BY <1>2, <1>3, <1>4, <1>5, <1>7, <1>8, <1>9, Zenon

\* The other processors' environments run.
LEMMA OthersAre ==
  ASSUME TInv, NEW c \in Cpus, TrapFrameAssumption
  PROVE  /\ OthersRun(c, env_status)
         /\ \A w \in Statuses : OthersRun(c, [env_status EXCEPT ![curenv[c]] = w])
         /\ \A x \in Envs, w \in Statuses : env_status[x] # "RUNNING" =>
              OthersRun(c, [env_status EXCEPT ![x] = w])
  <1>1. env_status \in [Envs -> Statuses]
    BY Zenon DEF TInv, Typed
  <1>2. ASSUME NEW d \in Cpus, d # c, curenv[d] \in Envs
        PROVE  env_status[curenv[d]] = "RUNNING" /\ curenv[d] # curenv[c]
    <2>1. curenv[d] # None
      BY <1>2, Zenon DEF TrapFrameAssumption
    <2> QED  BY <2>1, <1>2, Zenon DEF TInv, Scheduled
  <1> QED  BY <1>1, <1>2, Zenon DEF OthersRun

\* Frames that a step does not change are right.
LEMMA SameFrames ==
  ASSUME TInv, NEW c \in Cpus, at[c] \in {"idle", "trap_dispatch"}, UNCHANGED <<env_tf, want>>
  PROVE  FramesRight(c)
  <1>1. ASSUME NEW e \in Envs, Mine(c, e) PROVE Loads(env_tf[e], want[e])
    <2>1. Settled(e)
      BY <1>1, Zenon DEF Settled, Mine, Away
    <2> QED  BY <2>1, Zenon DEF TInv, Saved
  <1> QED  BY <1>1, Zenon DEF FramesRight, TInv, Typed

\* So are statuses st, if who was blocked is blocked.
LEMMA SameStatus ==
  ASSUME TInv, NEW c \in Cpus, NEW st, UNCHANGED <<env_ipc_recving, env_parent>>,
         \A x \in Envs : env_status[x] = "NOT_RUNNABLE" => st[x] = "NOT_RUNNABLE"
  PROVE  StatusRight(c, st)
  <1>1. \A e \in Envs : env_ipc_recving'[e] => st[e] = "NOT_RUNNABLE"
    BY Zenon DEF TInv, Receiving
  <1>2. ASSUME NEW d \in Cpus, at[d] \in {"lock_kernel", "trap_dispatch"},
               CallOf(asked[curenv[d]]) = "env_set_status"
        PROVE  /\ st[Target(asked[curenv[d]])] = "NOT_RUNNABLE"
               /\ ~env_ipc_recving'[Target(asked[curenv[d]])]
               /\ env_parent'[Target(asked[curenv[d]])] = curenv[d]
    <2>1. AskedOf(d)
      BY <1>2, Zenon DEF TInv, Requests
    <2> QED  BY <2>1, <1>2, Zenon DEF AskedOf
  <1> QED  BY <1>1, <1>2, Zenon DEF StatusRight, TInv, Typed

\* So are results that a step does not change, if the environment it serves
\* wants none or does not go on.
LEMMA SameAnswers ==
  ASSUME TInv, NEW c \in Cpus, NEW st, want' = want,
         \A x \in Envs : x # curenv[c] =>
           (env_status[x] = "FREE" => st[x] = "FREE") /\ (env_ipc_recving[x] => env_ipc_recving'[x]),
         curenv[c] \in Envs =>
           \/ ~(IsStub(asked[curenv[c]]) /\ Checked(asked[curenv[c]]))
           \/ st[curenv[c]] = "FREE" \/ env_ipc_recving'[curenv[c]]
  PROVE  AnswersRight(c, st)
  <1> SUFFICES ASSUME NEW e \in Envs, Mine(c, e), ~env_ipc_recving'[e], st[e] # "FREE",
                      IsStub(asked[e]), Checked(asked[e])
               PROVE  NotPositive(want'[e])
    BY Zenon DEF AnswersRight
  <1>1. e # curenv[c]
    BY Zenon
  <1>2. Answered(e)
    BY <1>1, Zenon DEF Answered, Mine
  <1> QED  BY <1>2, Zenon DEF TInv, Answers, ContentOf

-----------------------------------------------------------------------------
\* The vector and the call of the trap that is served.
LEMMA Causes ==
  ASSUME TInv, NEW c \in Cpus, InKernel(c), NEW e, e = curenv[c]
  PROVE  /\ Trapno(c) # T_SYSCALL => ~IsStub(asked[e])
         /\ Trapno(c) = T_SYSCALL =>
              Called(Tf(c)) = CallOf(asked[e]) /\ Given(Tf(c)) = ArgsOf(asked[e])
  <1>1. Decoded(env_tf[e], asked[e]) /\ Trapno(c) = VectorOf(asked[e])
    BY Serving, Zenon
  <1> QED  BY <1>1, Zenon DEF Decoded, VectorOf, CallOf, ArgsOf, Tf

\* sched_yield() that changes no registers, for an environment that wants no
\* result or does not go on.
LEMMA YieldStep ==
  ASSUME TrapFrameAssumption, TInv, NEW c \in Cpus, at[c] \in {"idle", "trap_dispatch"},
         NEW st, OthersRun(c, st), SchedYield(c, st) \/ Resched(c, st),
         UNCHANGED <<regs, stack, panicstr, env_tf, env_parent, asked, want>>,
         StatusRight(c, st),
         \A x \in Envs : x # curenv[c] =>
           (env_status[x] = "FREE" => st[x] = "FREE") /\ (env_ipc_recving[x] => env_ipc_recving'[x]),
         curenv[c] \in Envs =>
           \/ ~(IsStub(asked[curenv[c]]) /\ Checked(asked[curenv[c]]))
           \/ st[curenv[c]] = "FREE" \/ env_ipc_recving'[curenv[c]]
  PROVE  TInv'
  <1>1. Resched(c, st)
    BY YieldResched, Zenon DEF TInv
  <1>2. FramesRight(c)
    BY SameFrames, Zenon
  <1>3. AnswersRight(c, st)
    BY SameAnswers, Zenon
  <1> QED  BY <1>1, <1>2, <1>3, KernelStep, Zenon

\* The idle environment yields.
LEMMA IdleYieldRight ==
  ASSUME TrapFrameAssumption, TInv, NEW c \in Cpus, IdleYield(c)
  PROVE  TInv'
  <1>1. /\ at[c] = "idle" /\ SchedYield(c, env_status)
        /\ UNCHANGED <<regs, stack, panicstr, env_tf, env_ipc_recving, env_parent, asked, want>>
    BY Zenon DEF IdleYield
  <1>2. curenv[c] \notin Envs
    BY <1>1, Zenon DEF TInv, Scheduled, TrapFrameAssumption
  <1>3. OthersRun(c, env_status)
    BY OthersAre, Zenon
  <1>4. StatusRight(c, env_status)
    BY <1>1, SameStatus, Zenon
  <1> QED  BY <1>1, <1>2, <1>3, <1>4, YieldStep, Zenon

\* The timer.
LEMMA TimerRight ==
  ASSUME TrapFrameAssumption, TInv, NEW c \in Cpus, Timer(c)
  PROVE  TInv'
  <1>1. /\ InKernel(c) /\ Trapno(c) = 32 /\ SchedYield(c, env_status)
        /\ UNCHANGED <<regs, stack, panicstr, env_tf, env_ipc_recving, env_parent, asked, want>>
    BY DEF Timer, IRQ_OFFSET, IRQ_TIMER
  <1>2. ~IsStub(asked[curenv[c]])
    BY <1>1, Causes DEF T_SYSCALL
  <1>3. OthersRun(c, env_status) /\ at[c] \in {"idle", "trap_dispatch"}
    BY <1>1, OthersAre, Zenon DEF InKernel
  <1>4. StatusRight(c, env_status)
    BY <1>1, SameStatus, Zenon
  <1> QED  BY <1>1, <1>2, <1>3, <1>4, YieldStep, Zenon

\* sys_yield()
LEMMA SysYieldRight ==
  ASSUME TrapFrameAssumption, TInv, NEW c \in Cpus, SysYield(c)
  PROVE  TInv'
  <1>1. /\ InKernel(c) /\ Trapno(c) = T_SYSCALL /\ Called(Tf(c)) = "yield"
        /\ SchedYield(c, env_status)
        /\ UNCHANGED <<regs, stack, panicstr, env_tf, env_ipc_recving, env_parent, asked, want>>
    BY Zenon DEF SysYield, Syscall
  <1>2. ~Checked(asked[curenv[c]])
    BY <1>1, Causes, Unchecked, Zenon DEF Checked, CallOf
  <1>3. OthersRun(c, env_status) /\ at[c] \in {"idle", "trap_dispatch"}
    BY <1>1, OthersAre, Zenon DEF InKernel
  <1>4. StatusRight(c, env_status)
    BY <1>1, SameStatus, Zenon
  <1> QED  BY <1>1, <1>2, <1>3, <1>4, YieldStep, Zenon

\* Interrupts that are only printed.
LEMMA PrintedIrqRight ==
  ASSUME TrapFrameAssumption, TInv, NEW c \in Cpus, PrintedIrq(c)
  PROVE  TInv'
  <1>1. /\ InKernel(c) /\ Trapno(c) - 32 \in {1, 4, 7, 14} /\ EnvRun(c, curenv[c], env_status)
        /\ UNCHANGED <<regs, stack, panicstr, env_tf, env_ipc_recving, env_parent, asked, want>>
    BY Zenon DEF PrintedIrq, IRQ_OFFSET, Printed
  <1>2. ~IsStub(asked[curenv[c]])
    BY <1>1, Causes DEF T_SYSCALL
  <1>3. OthersRun(c, env_status) /\ at[c] \in {"idle", "trap_dispatch"}
    BY <1>1, OthersAre, Zenon DEF InKernel
  <1>4. StatusRight(c, env_status)
    BY <1>1, SameStatus, Zenon
  <1>5. Resched(c, env_status)
    BY <1>1, <1>3, Serving, EnvRunResched, Zenon DEF TInv
  <1> QED  BY <1>1, <1>2, <1>3, <1>4, <1>5, YieldStep, Zenon

\* env_destroy() of the environment that is served.
LEMMA DestroyRight ==
  ASSUME TrapFrameAssumption, TInv, NEW c \in Cpus, InKernel(c), Destroy(c)
  PROVE  TInv'
  <1>1. PICK st : st = [env_status EXCEPT ![curenv[c]] = "FREE"]
    BY Zenon
  <1>2. /\ SchedYield(c, st)
        /\ UNCHANGED <<regs, stack, panicstr, env_tf, env_ipc_recving, env_parent, asked, want>>
    BY <1>1, Zenon DEF Destroy
  <1>3. OthersRun(c, st) /\ at[c] \in {"idle", "trap_dispatch"}
    BY <1>1, OthersAre, Zenon DEF InKernel, Statuses
  <1>4. /\ curenv[c] \in Envs /\ st[curenv[c]] = "FREE" /\ env_status[curenv[c]] = "RUNNING"
        /\ \A x \in Envs : x # curenv[c] => st[x] = env_status[x]
    BY <1>1, Serving, Zenon DEF TInv, Typed
  <1>5. StatusRight(c, st)
    BY <1>2, <1>4, SameStatus, Zenon
  <1>6. /\ UNCHANGED <<regs, stack, panicstr, env_tf, env_parent, asked, want>>
        /\ \A x \in Envs : x # curenv[c] =>
             (env_status[x] = "FREE" => st[x] = "FREE") /\ (env_ipc_recving[x] => env_ipc_recving'[x])
    BY <1>2, <1>4, Zenon
  <1> QED  BY <1>2, <1>3, <1>4, <1>5, <1>6, YieldStep, ZenonT(40)

\* sys_ipc_recv()
LEMMA SysIpcRecvRight ==
  ASSUME TrapFrameAssumption, TInv, NEW c \in Cpus, SysIpcRecv(c)
  PROVE  TInv'
  <1>1. PICK st : st = [env_status EXCEPT ![curenv[c]] = "NOT_RUNNABLE"]
    BY Zenon
  <1>2. /\ InKernel(c) /\ SchedYield(c, st)
        /\ env_ipc_recving' = [env_ipc_recving EXCEPT ![curenv[c]] = TRUE]
        /\ UNCHANGED <<regs, stack, panicstr, env_tf, env_parent, asked, want>>
    BY <1>1, Zenon DEF SysIpcRecv, Syscall
  <1>3. OthersRun(c, st) /\ at[c] \in {"idle", "trap_dispatch"}
    BY <1>1, <1>2, OthersAre, ZenonT(40) DEF InKernel, Statuses
  <1>4. /\ curenv[c] \in Envs /\ st[curenv[c]] = "NOT_RUNNABLE" /\ env_status[curenv[c]] = "RUNNING"
        /\ \A x \in Envs : x # curenv[c] => st[x] = env_status[x]
    BY <1>1, <1>2, Serving, Zenon DEF TInv, Typed
  <1>5. /\ env_ipc_recving' \in [Envs -> BOOLEAN] /\ env_ipc_recving'[curenv[c]]
        /\ \A x \in Envs : x # curenv[c] => (env_ipc_recving'[x] <=> env_ipc_recving[x])
    BY <1>2, <1>4, Zenon DEF TInv, Typed
  <1>6. StatusRight(c, st)
    <2>1. ASSUME NEW e \in Envs, env_ipc_recving'[e] PROVE st[e] = "NOT_RUNNABLE"
      BY <2>1, <1>4, <1>5, Zenon DEF TInv, Receiving
    <2>2. ASSUME NEW d \in Cpus, d # c, at[d] \in {"lock_kernel", "trap_dispatch"},
                 CallOf(asked[curenv[d]]) = "env_set_status"
          PROVE  /\ st[Target(asked[curenv[d]])] = "NOT_RUNNABLE"
                 /\ ~env_ipc_recving'[Target(asked[curenv[d]])]
                 /\ env_parent'[Target(asked[curenv[d]])] = curenv[d]
      <3>1. PICK x : x = Target(asked[curenv[d]])
        BY Zenon
      <3>2. x \in Envs /\ env_status[x] = "NOT_RUNNABLE" /\ ~env_ipc_recving[x] /\ env_parent[x] = curenv[d]
        BY <2>2, <3>1, Zenon DEF TInv, Requests, AskedOf
      <3>3. x # curenv[c]
        BY <3>2, <1>4, Zenon
      <3>4. st[x] = "NOT_RUNNABLE" /\ ~env_ipc_recving'[x] /\ env_parent'[x] = curenv[d]
        BY <3>2, <3>3, <1>2, <1>4, <1>5, Zenon
      <3> QED  BY <3>1, <3>4, Zenon
    <2> QED  BY <2>1, <2>2, <1>2, <1>5, Zenon DEF StatusRight, TInv, Typed
  <1> QED  BY <1>2, <1>3, <1>4, <1>5, <1>6, YieldStep

-----------------------------------------------------------------------------
\* Frames tfs and registers w are right, as FramesRight says of the next ones.
Prepared(c, tfs, w) ==
  /\ DOMAIN tfs = Envs /\ DOMAIN w = Envs
  /\ \A e \in Envs : DOMAIN tfs[e] = 1 .. 17
  /\ \A d \in Cpus : d # c /\ curenv[d] \in Envs =>
       tfs[curenv[d]] = env_tf[curenv[d]] /\ w[curenv[d]] = want[curenv[d]]
  /\ \A e \in Envs : Mine(c, e) => Loads(tfs[e], w[e])

\* As they are, they are.
LEMMA PreparedSame ==
  ASSUME TInv, NEW c \in Cpus, InKernel(c)
  PROVE  Prepared(c, env_tf, want)
  <1>1. ASSUME NEW e \in Envs, Mine(c, e) PROVE Loads(env_tf[e], want[e])
    <2>1. Settled(e)
      BY <1>1, Zenon DEF Settled, Mine, Away, InKernel
    <2> QED  BY <2>1, Zenon DEF TInv, Saved
  <1> QED  BY <1>1, Zenon DEF Prepared, TInv, Typed

\* syscall() returns: the result goes to the frame, and the environment goes on.
LEMMA ReturnStep ==
  ASSUME TrapFrameAssumption, TInv, NEW c \in Cpus, InKernel(c),
         NEW tfs, NEW w, NEW k \in Int, NEW st, Return(c, tfs, w, k, st),
         OthersRun(c, st), st[curenv[c]] = "RUNNING", Prepared(c, tfs, w), StatusRight(c, st),
         ~Checked(asked[curenv[c]]) \/ k <= 0,
         \A e \in Envs : e # curenv[c] /\ Mine(c, e) /\ ~env_ipc_recving'[e] /\ st[e] # "FREE" =>
           (IsStub(asked[e]) /\ Checked(asked[e]) => NotPositive(w[e]))
  PROVE  TInv'
  <1>1. PICK x \in Envs : x = curenv[c]
    BY Serving, Zenon
  <1>2. /\ env_tf' = [tfs EXCEPT ![x][tf_eax] = Num(k)]
        /\ want' = [w EXCEPT ![x].eax = Num(k)]
        /\ EnvRun(c, x, st) /\ UNCHANGED <<regs, stack, asked>>
    BY <1>1, Zenon DEF Return
  <1>3. at[c] \in {"idle", "trap_dispatch"} /\ Mine(c, x)
    BY <1>1, Serving, ZenonT(40) DEF InKernel
  <1>4. DOMAIN tfs = Envs /\ DOMAIN w = Envs /\ DOMAIN tfs[x] = 1 .. 17
    BY Zenon DEF Prepared
  <1>5. /\ DOMAIN env_tf' = Envs /\ env_tf'[x] = [tfs[x] EXCEPT ![tf_eax] = Num(k)]
        /\ \A e \in Envs : e # x => env_tf'[e] = tfs[e]
    BY <1>2, <1>4, Zenon
  <1>6. /\ DOMAIN want' = Envs /\ want'[x] = [w[x] EXCEPT !.eax = Num(k)]
        /\ \A e \in Envs : e # x => want'[e] = w[e]
    BY <1>2, <1>4, Zenon
  <1>7. Resched(c, st)
    BY <1>1, <1>2, EnvRunResched, Zenon DEF TInv
  <1>8. Loads(tfs[x], w[x])
    BY <1>3, Zenon DEF Prepared
  <1>9. Loads(env_tf'[x], want'[x])
    <2>1. Loads([tfs[x] EXCEPT ![tf_eax] = Num(k)], [w[x] EXCEPT !.eax = Num(k)])
      BY <1>8, LoadsEax, Zenon
    <2> QED  BY <2>1, <1>5, <1>6, Zenon
  <1>10. FramesRight(c)
    <2>1. ASSUME NEW e \in Envs PROVE DOMAIN env_tf'[e] = 1 .. 17
      <3>1. CASE e = x
        BY <3>1, <1>9, Zenon DEF Loads
      <3>2. CASE e # x
        BY <3>2, <1>5, Zenon DEF Prepared
      <3> QED  BY <3>1, <3>2, Zenon
    <2>2. ASSUME NEW d \in Cpus, d # c, curenv[d] \in Envs
          PROVE  env_tf'[curenv[d]] = env_tf[curenv[d]] /\ want'[curenv[d]] = want[curenv[d]]
      <3>1. curenv[d] # x
        BY <2>2, <1>3, Zenon DEF Mine
      <3> QED  BY <3>1, <2>2, <1>5, <1>6, Zenon DEF Prepared
    <2>3. ASSUME NEW e \in Envs, Mine(c, e) PROVE Loads(env_tf'[e], want'[e])
      <3>1. CASE e = x
        BY <3>1, <1>9, Zenon
      <3>2. CASE e # x
        BY <3>2, <2>3, <1>5, <1>6, ZenonT(40) DEF Prepared
      <3> QED  BY <3>1, <3>2, Zenon
    <2> QED  BY <2>1, <2>2, <2>3, <1>5, <1>6, Zenon DEF FramesRight
  <1>11. AnswersRight(c, st)
    <2> SUFFICES ASSUME NEW e \in Envs, Mine(c, e), ~env_ipc_recving'[e], st[e] # "FREE",
                        IsStub(asked[e]), Checked(asked[e])
                 PROVE  NotPositive(want'[e])
      BY ZenonT(40) DEF AnswersRight
    <2>1. CASE e = x
      <3>1. k <= 0
        BY <2>1, <1>1, ZenonT(40)
      <3>2. "eax" \in DOMAIN w[x]
        <4>1. PICK t : t = tfs[x]
          BY Zenon
        <4>2. Popped(t) = w[x]
          BY <4>1, <1>8, ZenonT(40) DEF Loads
        <4>3. "eax" \in DOMAIN Popped(t)
          BY Zenon DEF Popped
        <4> QED  BY <4>2, <4>3, Zenon
      <3>3. want'[x].eax = Num(k)
        BY <3>2, <1>6, Zenon
      <3>4. Num(k)[2] = k
        BY Zenon DEF Num
      <3>5. want'[x].eax[2] <= 0
        BY <3>1, <3>3, <3>4, Zenon
      <3>6. NotPositive(want'[x])
        BY <3>5, Zenon DEF NotPositive
      <3> QED  BY <2>1, <3>6, Zenon
    <2>2. CASE e # x
      BY <2>2, <1>1, <1>6, Zenon
    <2> QED  BY <2>1, <2>2, Zenon
  <1> QED  BY <1>2, <1>3, <1>7, <1>10, <1>11, KernelStep, Zenon

\* Frames tfs and registers w differ from those there are in x only, where they
\* fit each other.
PreparedWith(c, tfs, w, x) ==
  /\ DOMAIN tfs = Envs /\ DOMAIN w = Envs
  /\ Loads(tfs[x], w[x])
  /\ \A e \in Envs : e # x => tfs[e] = env_tf[e] /\ w[e] = want[e]

\* If no other processor runs x, they are right.
LEMMA PreparedOne ==
  ASSUME NEW c \in Cpus, NEW x \in Envs, Mine(c, x), NEW tfs, NEW w,
         Prepared(c, env_tf, want), PreparedWith(c, tfs, w, x)
  PROVE  Prepared(c, tfs, w)
  <1>1. ASSUME NEW e \in Envs PROVE DOMAIN tfs[e] = 1 .. 17
    <2>1. CASE e = x
      BY <2>1, Zenon DEF PreparedWith, Loads
    <2>2. CASE e # x
      BY <2>2, Zenon DEF PreparedWith, Prepared
    <2> QED  BY <2>1, <2>2, Zenon
  <1>2. ASSUME NEW d \in Cpus, d # c, curenv[d] \in Envs
        PROVE  tfs[curenv[d]] = env_tf[curenv[d]] /\ w[curenv[d]] = want[curenv[d]]
    BY <1>2, Zenon DEF PreparedWith, Mine
  <1>3. ASSUME NEW e \in Envs, Mine(c, e) PROVE Loads(tfs[e], w[e])
    <2>1. CASE e = x
      BY <2>1, Zenon DEF PreparedWith
    <2>2. CASE e # x
      BY <2>2, <1>3, Zenon DEF PreparedWith, Prepared
    <2> QED  BY <2>1, <2>2, Zenon
  <1> QED  BY <1>1, <1>2, <1>3, Zenon DEF Prepared, PreparedWith

\* A zero is accepted.
LEMMA AnswerZero ==
  ASSUME NEW tf, NEW r, Loads(tf, r)
  PROVE  NotPositive([r EXCEPT !.eax = Num(0)])
  <1>1. "eax" \in DOMAIN r
    BY Zenon DEF Loads, Popped
  <1>2. [r EXCEPT !.eax = Num(0)].eax = Num(0)
    BY <1>1, Zenon
  <1> QED  BY <1>2 DEF NotPositive, Num

\* The environments that no processor runs have their results.
LEMMA RestAnswered ==
  ASSUME TInv, NEW c \in Cpus, NEW e \in Envs, e # curenv[c], Mine(c, e),
         ~env_ipc_recving[e], env_status[e] # "FREE"
  PROVE  IsStub(asked[e]) /\ Checked(asked[e]) => NotPositive(want[e])
  <1>1. Answered(e)
    BY Zenon DEF Answered, Mine
  <1> QED  BY <1>1, Zenon DEF TInv, Answers, ContentOf

\* A system call that changes nothing else.
LEMMA PlainReturn ==
  ASSUME TrapFrameAssumption, TInv, NEW c \in Cpus, InKernel(c),
         NEW k \in Int, Return(c, env_tf, want, k, env_status),
         UNCHANGED <<env_ipc_recving, env_parent>>, ~Checked(asked[curenv[c]]) \/ k <= 0
  PROVE  TInv'
  <1>1. OthersRun(c, env_status) /\ env_status[curenv[c]] = "RUNNING"
    BY Serving, OthersAre, ZenonT(40)
  <1>2. Prepared(c, env_tf, want)
    BY PreparedSame, Zenon
  <1>3. StatusRight(c, env_status)
    BY SameStatus, Zenon
  <1>4. \A e \in Envs : e # curenv[c] /\ Mine(c, e) /\ ~env_ipc_recving'[e] /\ env_status[e] # "FREE" =>
          (IsStub(asked[e]) /\ Checked(asked[e]) => NotPositive(want[e]))
    BY RestAnswered, Zenon
  <1> QED  BY <1>1, <1>2, <1>3, <1>4, ReturnStep, ZenonT(40)

\* The system calls whose results are all that is modelled of them.
LEMMA SysOtherRight ==
  ASSUME TrapFrameAssumption, TInv, NEW c \in Cpus, SysOther(c)
  PROVE  TInv'
  <1>1. PICK call \in DOMAIN stubs :
          Syscall(c, call) /\ \E k \in Results(call) : Return(c, env_tf, want, k, env_status)
    BY Zenon DEF SysOther
  <1>2. PICK k \in Results(call) : Return(c, env_tf, want, k, env_status)
    BY <1>1, Zenon
  <1>3. InKernel(c) /\ Trapno(c) = T_SYSCALL /\ Called(Tf(c)) = call
    BY <1>1, Zenon DEF Syscall
  <1>4. CallOf(asked[curenv[c]]) = call
    BY <1>3, Causes, Zenon
  <1>5. k \in Int /\ (k <= 0 \/ call \in {"getenvid", "cgetc"})
    BY <1>2 DEF Results
  <1>6. call \in {"getenvid", "cgetc"} => ~Checked(asked[curenv[c]])
    <2>1. call = "getenvid" => ~Checked(asked[curenv[c]])
      BY <1>4, Unchecked, Zenon DEF Checked, CallOf
    <2>2. call = "cgetc" => ~Checked(asked[curenv[c]])
      BY <1>4, Unchecked, Zenon DEF Checked, CallOf
    <2> QED  BY <2>1, <2>2, Zenon
  <1>7. UNCHANGED <<env_ipc_recving, env_parent>>
    BY Zenon DEF SysOther
  <1>8. ~Checked(asked[curenv[c]]) \/ k <= 0
    BY <1>5, <1>6, Zenon
  <1> QED  BY <1>2, <1>3, <1>5, <1>7, <1>8, PlainReturn, Zenon

\* The call that is served, and its first argument.
LEMMA ServedCall ==
  ASSUME TInv, NEW c \in Cpus, NEW call, Syscall(c, call)
  PROVE  /\ InKernel(c)
         /\ CallOf(asked[curenv[c]]) = call
         /\ Given(Tf(c))[1][2] = Target(asked[curenv[c]])
  <1>1. InKernel(c) /\ Trapno(c) = T_SYSCALL /\ Called(Tf(c)) = call
    BY Zenon DEF Syscall
  <1>2. CallOf(asked[curenv[c]]) = call /\ Given(Tf(c)) = ArgsOf(asked[curenv[c]])
    BY <1>1, Causes, Zenon
  <1> QED  BY <1>1, <1>2, Zenon DEF ArgsOf, Target

\* sys_env_set_status()
LEMMA SysEnvSetStatusRight ==
  ASSUME TrapFrameAssumption, TInv, NEW c \in Cpus, SysEnvSetStatus(c)
  PROVE  TInv'
  <1>1. Syscall(c, "env_set_status") /\ UNCHANGED <<env_ipc_recving, env_parent>>
    BY Zenon DEF SysEnvSetStatus
  <1>2. InKernel(c) /\ CallOf(asked[curenv[c]]) = "env_set_status"
    BY <1>1, ServedCall, Zenon
  <1>3. PICK x : x = Target(asked[curenv[c]])
    BY Zenon
  <1>4. x = Given(Tf(c))[1][2]
    BY <1>1, <1>3, ServedCall, Zenon
  <1>5. x \in Envs /\ env_status[x] = "NOT_RUNNABLE" /\ ~env_ipc_recving[x] /\ env_parent[x] = curenv[c]
    BY <1>2, <1>3, Serving, Zenon DEF AskedOf
  <1>6. Return(c, env_tf, want, 0, [env_status EXCEPT ![x] = "RUNNABLE"])
    <2>1. env_parent[x] = curenv[c] /\ env_status[x] # "FREE"
      BY <1>5, Zenon
    <2> QED  BY <2>1, <1>4, ZenonT(40) DEF SysEnvSetStatus
  <1>7. PICK st : st = [env_status EXCEPT ![x] = "RUNNABLE"]
    BY ZenonT(40)
  <1>8. /\ st[x] = "RUNNABLE" /\ env_status[curenv[c]] = "RUNNING" /\ curenv[c] \in Envs
        /\ \A y \in Envs : y # x => st[y] = env_status[y]
    BY <1>2, <1>5, <1>7, Serving, Zenon DEF TInv, Typed
  <1>9. OthersRun(c, st) /\ st[curenv[c]] = "RUNNING"
    BY <1>5, <1>7, <1>8, OthersAre, Zenon DEF Statuses
  <1>10. StatusRight(c, st)
    <2>1. ASSUME NEW e \in Envs, env_ipc_recving'[e] PROVE st[e] = "NOT_RUNNABLE"
      BY <2>1, <1>1, <1>5, <1>8, Zenon DEF TInv, Receiving
    <2>2. ASSUME NEW d \in Cpus, d # c, at[d] \in {"lock_kernel", "trap_dispatch"},
                 CallOf(asked[curenv[d]]) = "env_set_status"
          PROVE  /\ st[Target(asked[curenv[d]])] = "NOT_RUNNABLE"
                 /\ ~env_ipc_recving'[Target(asked[curenv[d]])]
                 /\ env_parent'[Target(asked[curenv[d]])] = curenv[d]
      <3>1. PICK y : y = Target(asked[curenv[d]])
        BY Zenon
      <3>2. y \in Envs /\ env_status[y] = "NOT_RUNNABLE" /\ ~env_ipc_recving[y] /\ env_parent[y] = curenv[d]
        BY <2>2, <3>1, Zenon DEF TInv, Requests, AskedOf
      <3>3. curenv[d] # curenv[c]
        BY <2>2, <1>8, Zenon DEF TInv, Scheduled
      <3>4. st[y] = "NOT_RUNNABLE" /\ ~env_ipc_recving'[y] /\ env_parent'[y] = curenv[d]
        BY <3>2, <3>3, <1>1, <1>5, <1>8, Zenon
      <3> QED  BY <3>1, <3>4, Zenon
    <2> QED  BY <2>1, <2>2, <1>1, ZenonT(40) DEF StatusRight, TInv, Typed
  <1>11. \A e \in Envs : e # curenv[c] /\ Mine(c, e) /\ ~env_ipc_recving'[e] /\ st[e] # "FREE" =>
           (IsStub(asked[e]) /\ Checked(asked[e]) => NotPositive(want[e]))
    <2>1. \A e \in Envs : st[e] # "FREE" => env_status[e] # "FREE"
      BY <1>5, <1>8, Zenon
    <2>2. \A e \in Envs : ~env_ipc_recving'[e] => ~env_ipc_recving[e]
      BY <1>1, Zenon
    <2> QED  BY <2>1, <2>2, RestAnswered, Zenon
  <1>12. Prepared(c, env_tf, want)
    BY <1>2, PreparedSame, Zenon
  <1>13. Return(c, env_tf, want, 0, st)
    BY <1>6, <1>7, Zenon
  <1>14. 0 \in Int /\ 0 <= 0
    OBVIOUS
  <1> QED  BY <1>2, <1>9, <1>10, <1>11, <1>12, <1>13, <1>14, ReturnStep, ZenonT(40)

\* sys_ipc_try_send()
LEMMA SysIpcTrySendRight ==
  ASSUME TrapFrameAssumption, TInv, NEW c \in Cpus, SysIpcTrySend(c)
  PROVE  TInv'
  <1>1. Syscall(c, "ipc_try_send") /\ env_parent' = env_parent
    BY Zenon DEF SysIpcTrySend
  <1>2. InKernel(c) /\ CallOf(asked[curenv[c]]) = "ipc_try_send"
    BY <1>1, ServedCall, Zenon
  <1>3. ~Checked(asked[curenv[c]])
    BY <1>2, Unchecked, Zenon DEF Checked, CallOf
  <1>4. PICK x : x = Target(asked[curenv[c]])
    BY Zenon
  <1>5. x = Given(Tf(c))[1][2]
    BY <1>1, <1>4, ServedCall, Zenon
  <1>6. x \in Envs
    BY <1>2, <1>4, Serving, Zenon DEF AskedOf
  <1>7. CASE env_status[x] # "FREE" /\ env_ipc_recving[x]
    <2>1. PICK st : st = [env_status EXCEPT ![x] = "RUNNABLE"]
      BY Zenon
    <2>2. PICK tfs : tfs = [env_tf EXCEPT ![x][tf_eax] = Num(0)]
      BY Zenon
    <2>3. PICK w : w = [want EXCEPT ![x].eax = Num(0)]
      BY ZenonT(40)
    <2>4. /\ Return(c, tfs, w, 0, st)
          /\ env_ipc_recving' = [env_ipc_recving EXCEPT ![x] = FALSE]
      BY <1>5, <1>7, <2>1, <2>2, <2>3, ZenonT(40) DEF SysIpcTrySend, Delivered
    <2>5. env_status[x] = "NOT_RUNNABLE" /\ env_status[curenv[c]] = "RUNNING" /\ curenv[c] \in Envs
      BY <1>2, <1>6, <1>7, Serving, Zenon DEF TInv, Receiving
    <2>6. st[x] = "RUNNABLE" /\ \A y \in Envs : y # x => st[y] = env_status[y]
      BY <2>1, <1>6, Zenon DEF TInv, Typed
    <2>7. OthersRun(c, st) /\ st[curenv[c]] = "RUNNING"
      BY <2>1, <2>5, <2>6, <1>6, OthersAre, ZenonT(40) DEF Statuses
    <2>8. /\ env_ipc_recving' \in [Envs -> BOOLEAN] /\ ~env_ipc_recving'[x]
          /\ \A y \in Envs : y # x => (env_ipc_recving'[y] <=> env_ipc_recving[y])
      BY <2>4, <1>6, Zenon DEF TInv, Typed
    <2>9. StatusRight(c, st)
      <3>1. ASSUME NEW e \in Envs, env_ipc_recving'[e] PROVE st[e] = "NOT_RUNNABLE"
        BY <3>1, <2>6, <2>8, Zenon DEF TInv, Receiving
      <3>2. ASSUME NEW d \in Cpus, d # c, at[d] \in {"lock_kernel", "trap_dispatch"},
                   CallOf(asked[curenv[d]]) = "env_set_status"
            PROVE  /\ st[Target(asked[curenv[d]])] = "NOT_RUNNABLE"
                   /\ ~env_ipc_recving'[Target(asked[curenv[d]])]
                   /\ env_parent'[Target(asked[curenv[d]])] = curenv[d]
        <4>1. PICK y : y = Target(asked[curenv[d]])
          BY Zenon
        <4>2. y \in Envs /\ env_status[y] = "NOT_RUNNABLE" /\ ~env_ipc_recving[y] /\ env_parent[y] = curenv[d]
          BY <3>2, <4>1, Zenon DEF TInv, Requests, AskedOf
        <4>3. st[y] = "NOT_RUNNABLE" /\ ~env_ipc_recving'[y] /\ env_parent'[y] = curenv[d]
          BY <4>2, <1>1, <1>7, <2>6, <2>8, Zenon
        <4> QED  BY <4>1, <4>3, Zenon
      <3> QED  BY <3>1, <3>2, <2>8, <1>1, Zenon DEF StatusRight, TInv, Typed
    <2>10. Mine(c, x)
      BY <2>5, OthersAre DEF Mine, OthersRun
    <2>11. Prepared(c, env_tf, want)
      BY <1>2, PreparedSame, Zenon
    <2>12. PreparedWith(c, tfs, w, x) /\ NotPositive(w[x])
      <3>1. DOMAIN env_tf = Envs /\ DOMAIN want = Envs /\ Loads(env_tf[x], want[x])
        BY <2>10, <2>11, <1>6, Zenon DEF Prepared
      <3>2. /\ DOMAIN tfs = Envs /\ tfs[x] = [env_tf[x] EXCEPT ![tf_eax] = Num(0)]
            /\ \A e \in Envs : e # x => tfs[e] = env_tf[e]
        BY <2>2, <3>1, <1>6, Zenon
      <3>3. /\ DOMAIN w = Envs /\ w[x] = [want[x] EXCEPT !.eax = Num(0)]
            /\ \A e \in Envs : e # x => w[e] = want[e]
        BY <2>3, <3>1, <1>6, Zenon
      <3>4. Loads([env_tf[x] EXCEPT ![tf_eax] = Num(0)], [want[x] EXCEPT !.eax = Num(0)])
        BY <3>1, LoadsEax, Zenon
      <3>5. Loads(tfs[x], w[x])
        BY <3>2, <3>3, <3>4, Zenon
      <3>6. NotPositive(w[x])
        BY <3>1, <3>3, AnswerZero, Zenon
      <3> QED  BY <3>2, <3>3, <3>5, <3>6, Zenon DEF PreparedWith
    <2>13. Prepared(c, tfs, w)
      BY <2>10, <2>11, <2>12, <1>6, PreparedOne, Zenon
    <2>14. \A e \in Envs : e # curenv[c] /\ Mine(c, e) /\ ~env_ipc_recving'[e] /\ st[e] # "FREE" =>
             (IsStub(asked[e]) /\ Checked(asked[e]) => NotPositive(w[e]))
      <3> SUFFICES ASSUME NEW e \in Envs, e # curenv[c], Mine(c, e), ~env_ipc_recving'[e], st[e] # "FREE",
                          IsStub(asked[e]), Checked(asked[e])
                   PROVE  NotPositive(w[e])
        BY Zenon
      <3>1. CASE e = x
        BY <3>1, <2>12, Zenon
      <3>2. CASE e # x
        <4>1. ~env_ipc_recving[e] /\ env_status[e] # "FREE"
          BY <3>2, <2>6, <2>8, Zenon
        <4>2. w[e] = want[e]
          BY <3>2, <2>12, Zenon DEF PreparedWith
        <4> QED  BY <4>1, <4>2, RestAnswered, Zenon
      <3> QED  BY <3>1, <3>2, Zenon
    <2>15. 0 \in Int
      OBVIOUS
    <2> QED  BY <1>2, <1>3, <2>4, <2>7, <2>9, <2>13, <2>14, <2>15, ReturnStep, Zenon
  <1>8. CASE ~(env_status[x] # "FREE" /\ env_ipc_recving[x])
    <2>1. Return(c, env_tf, want, -1, env_status) /\ env_ipc_recving' = env_ipc_recving
      BY <1>5, <1>8, Zenon DEF SysIpcTrySend
    <2>2. -1 \in Int
      OBVIOUS
    <2> QED  BY <1>1, <1>2, <1>3, <2>1, <2>2, PlainReturn, Zenon
  <1> QED  BY <1>7, <1>8, Zenon

\* sys_exofork()
LEMMA SysExoforkRight ==
  ASSUME TrapFrameAssumption, TInv, NEW c \in Cpus, SysExofork(c)
  PROVE  TInv'
  <1>1. Syscall(c, "exofork")
    BY Zenon DEF SysExofork
  <1>2. InKernel(c) /\ CallOf(asked[curenv[c]]) = "exofork"
    BY <1>1, ServedCall, Zenon
  <1>3. ~Checked(asked[curenv[c]])
    BY <1>2, Unchecked, Zenon DEF Checked, CallOf
  <1>4. ASSUME NEW x \in Envs, env_status[x] = "FREE",
               Return(c, [env_tf EXCEPT ![x] = [Tf(c) EXCEPT ![tf_eax] = Num(0)]],
                        [want EXCEPT ![x] = [want[curenv[c]] EXCEPT !.eax = Num(0)]],
                        1, [env_status EXCEPT ![x] = "NOT_RUNNABLE"]),
               env_parent' = [y \in Envs |-> IF y = x THEN curenv[c]
                                             ELSE IF env_parent[y] = x THEN None ELSE env_parent[y]],
               env_ipc_recving' = [env_ipc_recving EXCEPT ![x] = FALSE]
        PROVE  TInv'
    <2>1. PICK st : st = [env_status EXCEPT ![x] = "NOT_RUNNABLE"]
      BY Zenon
    <2>2. PICK tfs : tfs = [env_tf EXCEPT ![x] = [Tf(c) EXCEPT ![tf_eax] = Num(0)]]
      BY Zenon
    <2>3. PICK w : w = [want EXCEPT ![x] = [want[curenv[c]] EXCEPT !.eax = Num(0)]]
      BY Zenon
    <2>4. Return(c, tfs, w, 1, st)
      BY <1>4, <2>1, <2>2, <2>3, ZenonT(40)
    <2>5. /\ env_status[curenv[c]] = "RUNNING" /\ curenv[c] \in Envs
          /\ Loads(env_tf[curenv[c]], want[curenv[c]])
      BY <1>2, Serving, Zenon
    <2>6. st[x] = "NOT_RUNNABLE" /\ \A y \in Envs : y # x => st[y] = env_status[y]
      BY <2>1, <1>4, Zenon DEF TInv, Typed
    <2>7. OthersRun(c, st) /\ st[curenv[c]] = "RUNNING"
      BY <2>1, <2>5, <2>6, <1>4, OthersAre, ZenonT(40) DEF Statuses
    <2>8. /\ env_ipc_recving' \in [Envs -> BOOLEAN] /\ ~env_ipc_recving'[x]
          /\ \A y \in Envs : y # x => (env_ipc_recving'[y] <=> env_ipc_recving[y])
      BY <1>4, Zenon DEF TInv, Typed
    <2>9. StatusRight(c, st)
      <3>1. ASSUME NEW e \in Envs, env_ipc_recving'[e] PROVE st[e] = "NOT_RUNNABLE"
        BY <3>1, <2>6, <2>8, Zenon DEF TInv, Receiving
      <3>2. ASSUME NEW d \in Cpus, d # c, at[d] \in {"lock_kernel", "trap_dispatch"},
                   CallOf(asked[curenv[d]]) = "env_set_status"
            PROVE  /\ st[Target(asked[curenv[d]])] = "NOT_RUNNABLE"
                   /\ ~env_ipc_recving'[Target(asked[curenv[d]])]
                   /\ env_parent'[Target(asked[curenv[d]])] = curenv[d]
        <4>1. PICK y : y = Target(asked[curenv[d]])
          BY Zenon
        <4>2. y \in Envs /\ env_status[y] = "NOT_RUNNABLE" /\ ~env_ipc_recving[y] /\ env_parent[y] = curenv[d]
          BY <3>2, <4>1, Zenon DEF TInv, Requests, AskedOf
        <4>3. y # x /\ env_parent[y] # x
          BY <3>2, <4>2, <1>4, Zenon DEF TInv, Scheduled
        <4>4. env_parent'[y] = curenv[d]
          BY <4>2, <4>3, <1>4, Zenon
        <4>5. st[y] = "NOT_RUNNABLE" /\ ~env_ipc_recving'[y]
          BY <4>2, <4>3, <2>6, <2>8, Zenon
        <4> QED  BY <4>1, <4>4, <4>5, ZenonT(40)
      <3>3. DOMAIN env_parent' = Envs
        BY <1>4, Zenon
      <3> QED  BY <3>1, <3>2, <3>3, <2>8, Zenon DEF StatusRight
    <2>10. Mine(c, x)
      BY <1>4, OthersAre DEF Mine, OthersRun
    <2>11. Prepared(c, env_tf, want)
      BY <1>2, PreparedSame, Zenon
    <2>12. PreparedWith(c, tfs, w, x) /\ NotPositive(w[x])
      <3>1. DOMAIN env_tf = Envs /\ DOMAIN want = Envs
        BY Zenon DEF TInv, Typed
      <3>2. /\ DOMAIN tfs = Envs /\ tfs[x] = [env_tf[curenv[c]] EXCEPT ![tf_eax] = Num(0)]
            /\ \A e \in Envs : e # x => tfs[e] = env_tf[e]
        BY <2>2, <3>1, Zenon DEF Tf
      <3>3. /\ DOMAIN w = Envs /\ w[x] = [want[curenv[c]] EXCEPT !.eax = Num(0)]
            /\ \A e \in Envs : e # x => w[e] = want[e]
        BY <2>3, <3>1, Zenon
      <3>4. Loads([env_tf[curenv[c]] EXCEPT ![tf_eax] = Num(0)], [want[curenv[c]] EXCEPT !.eax = Num(0)])
        BY <2>5, LoadsEax, Zenon
      <3>5. Loads(tfs[x], w[x])
        BY <3>2, <3>3, <3>4, Zenon
      <3>6. NotPositive(w[x])
        BY <2>5, <3>3, AnswerZero
      <3> QED  BY <3>2, <3>3, <3>5, <3>6, Zenon DEF PreparedWith
    <2>13. Prepared(c, tfs, w)
      BY <2>10, <2>11, <2>12, PreparedOne, Zenon
    <2>14. \A e \in Envs : e # curenv[c] /\ Mine(c, e) /\ ~env_ipc_recving'[e] /\ st[e] # "FREE" =>
             (IsStub(asked[e]) /\ Checked(asked[e]) => NotPositive(w[e]))
      <3> SUFFICES ASSUME NEW e \in Envs, e # curenv[c], Mine(c, e), ~env_ipc_recving'[e], st[e] # "FREE",
                          IsStub(asked[e]), Checked(asked[e])
                   PROVE  NotPositive(w[e])
        BY Zenon
      <3>1. CASE e = x
        BY <3>1, <2>12, Zenon
      <3>2. CASE e # x
        <4>1. ~env_ipc_recving[e] /\ env_status[e] # "FREE"
          BY <3>2, <2>6, <2>8, Zenon
        <4>2. w[e] = want[e]
          BY <3>2, <2>12, Zenon DEF PreparedWith
        <4> QED  BY <4>1, <4>2, RestAnswered, Zenon
      <3> QED  BY <3>1, <3>2, Zenon
    <2>15. 1 \in Int
      OBVIOUS
    <2> QED  BY <1>2, <1>3, <2>4, <2>7, <2>9, <2>13, <2>14, <2>15, ReturnStep, Zenon
  <1>5. ASSUME Return(c, env_tf, want, -1, env_status), UNCHANGED <<env_ipc_recving, env_parent>>
        PROVE  TInv'
    <2>1. -1 \in Int
      OBVIOUS
    <2> QED  BY <1>2, <1>3, <1>5, <2>1, PlainReturn, Zenon
  <1> QED  BY <1>4, <1>5, Zenon DEF SysExofork

\* sys_env_destroy(), and a trap that is not expected.
LEMMA EndRight ==
  ASSUME TrapFrameAssumption, TInv, NEW c \in Cpus, SysEnvDestroy(c) \/ Unexpected(c)
  PROVE  TInv'
  BY DestroyRight, Zenon DEF SysEnvDestroy, Unexpected, Syscall

-----------------------------------------------------------------------------
\* A processor that stays in the monitor.
LEMMA MonitorRight ==
  ASSUME TInv, NEW c \in Cpus, InKernel(c), at' = [at EXCEPT ![c] = "monitor"],
         UNCHANGED <<regs, stack, curenv, env_status, env_tf, env_ipc_recving, env_parent, asked, want>>
  PROVE  TInv'
  <1>1. at \in [Cpus -> Places] /\ at[c] = "trap_dispatch"
    BY Zenon DEF TInv, Typed, InKernel
  <1>2. at'[c] = "monitor" /\ \A d \in Cpus : d # c => at'[d] = at[d]
    BY <1>1, Zenon
  <1>3. Typed'
    <2>1. at' \in [Cpus -> Places]
      BY <1>1, Zenon DEF Places
    <2> QED  BY <2>1, Zenon DEF TInv, Typed
  <1>4. Scheduled'
    BY <1>1, <1>2, Zenon DEF TInv, Scheduled
  <1>5. Receiving'
    BY Zenon DEF TInv, Receiving
  <1>6. Requests'
    <2>1. ASSUME NEW d \in Cpus, at'[d] \in {"lock_kernel", "trap_dispatch"} PROVE AskedOf(d)'
      <3>1. AskedOf(d)
        BY <2>1, <1>2, Zenon DEF TInv, Requests
      <3> QED  BY <3>1, Zenon DEF AskedOf
    <2> QED  BY <2>1, Zenon DEF Requests
  <1>7. Saved'
    <2>1. ASSUME NEW e \in Envs, Settled(e)' PROVE Loads(env_tf[e], want[e])
      <3>1. Settled(e)
        BY <2>1, <1>1, <1>2, Zenon DEF Settled, Away
      <3> QED  BY <3>1, Zenon DEF TInv, Saved
    <2> QED  BY <2>1, Zenon DEF Saved
  <1>8. Answers'
    <2>1. ASSUME NEW e \in Envs, Answered(e)' PROVE ContentOf(e)'
      <3>1. Answered(e)
        BY <2>1, <1>1, <1>2, Zenon DEF Answered
      <3>2. ContentOf(e)
        BY <3>1, Zenon DEF TInv, Answers
      <3> QED  BY <3>2, Zenon DEF ContentOf
    <2> QED  BY <2>1, Zenon DEF Answers
  <1>9. ASSUME NEW d \in Cpus PROVE RegsOf(d)'
    <2>1. CASE d = c
      BY <2>1, <1>2, Zenon DEF RegsOf
    <2>2. CASE d # c
      <3>1. RegsOf(d) /\ at'[d] = at[d]
        BY <2>2, <1>2, Zenon DEF TInv
      <3> QED  BY <3>1, Zenon DEF RegsOf
    <2> QED  BY <2>1, <2>2, Zenon
  <1> QED  BY <1>3, <1>4, <1>5, <1>6, <1>7, <1>8, <1>9, ZenonT(40) DEF TInv

\* page_fault_handler()
LEMMA PageFaultRight ==
  ASSUME TrapFrameAssumption, TInv, NEW c \in Cpus, PageFault(c)
  PROVE  TInv'
  <1>1. InKernel(c) /\ Trapno(c) = 14
    BY Zenon DEF PageFault, T_PGFLT
  <1>2. CASE Destroy(c)
    BY <1>1, <1>2, DestroyRight, Zenon
  <1>3. CASE Panic(c)
    BY <1>1, <1>3, MonitorRight, Zenon DEF Panic
  <1>4. ASSUME env_tf' = [env_tf EXCEPT ![curenv[c]][tf_eip] = <<"upcall">>,
                                        ![curenv[c]][tf_esp] = <<"utf">>],
               want' = [want EXCEPT ![curenv[c]].eip = <<"upcall">>, ![curenv[c]].esp = <<"utf">>],
               EnvRun(c, curenv[c], env_status),
               UNCHANGED <<regs, stack, panicstr, env_ipc_recving, env_parent, asked>>
        PROVE  TInv'
    <2>1. PICK x \in Envs : x = curenv[c]
      BY <1>1, Serving, Zenon
    <2>2. env_status[x] = "RUNNING" /\ Mine(c, x) /\ Loads(env_tf[x], want[x])
      BY <1>1, <2>1, Serving, Zenon
    <2>3. DOMAIN env_tf = Envs /\ DOMAIN want = Envs
      BY Zenon DEF TInv, Typed
    <2>4. PICK u, w : u = <<"upcall">> /\ w = <<"utf">>
      BY Zenon
    <2>5. /\ DOMAIN env_tf' = Envs
          /\ env_tf'[x] = [env_tf[x] EXCEPT ![tf_eip] = u, ![tf_esp] = w]
          /\ \A e \in Envs : e # x => env_tf'[e] = env_tf[e]
      BY <1>4, <2>1, <2>3, <2>4, Zenon
    <2>6. /\ DOMAIN want' = Envs
          /\ want'[x] = [want[x] EXCEPT !.eip = u, !.esp = w]
          /\ \A e \in Envs : e # x => want'[e] = want[e]
      BY <1>4, <2>1, <2>3, <2>4, Zenon
    <2>7. Loads([env_tf[x] EXCEPT ![tf_eip] = u, ![tf_esp] = w], [want[x] EXCEPT !.eip = u, !.esp = w])
      BY <2>2, LoadsUpcall, Zenon
    <2>8. Loads(env_tf'[x], want'[x])
      BY <2>5, <2>6, <2>7, Zenon
    <2>9. PreparedWith(c, env_tf', want', x)
      BY <2>5, <2>6, <2>8, ZenonT(40) DEF PreparedWith
    <2>10. Prepared(c, env_tf', want')
      BY <1>1, <2>2, <2>9, PreparedSame, PreparedOne, Zenon
    <2>11. FramesRight(c)
      BY <2>10, Zenon DEF Prepared, FramesRight
    <2>12. OthersRun(c, env_status) /\ at[c] \in {"idle", "trap_dispatch"}
      BY <1>1, OthersAre, Zenon DEF InKernel
    <2>13. Resched(c, env_status)
      BY <1>4, <2>1, <2>2, <2>12, EnvRunResched, Zenon DEF TInv
    <2>14. StatusRight(c, env_status)
      BY <1>4, SameStatus, Zenon
    <2>15. ~IsStub(asked[x])
      BY <1>1, <2>1, Causes DEF T_SYSCALL
    <2>16. AnswersRight(c, env_status)
      <3> SUFFICES ASSUME NEW e \in Envs, Mine(c, e), ~env_ipc_recving'[e], env_status[e] # "FREE",
                          IsStub(asked[e]), Checked(asked[e])
                   PROVE  NotPositive(want'[e])
        BY Zenon DEF AnswersRight
      <3>1. e # x
        BY <2>15, Zenon
      <3>2. ~env_ipc_recving[e]
        BY <1>4, Zenon
      <3>3. NotPositive(want[e])
        BY <2>1, <3>1, <3>2, RestAnswered, Zenon
      <3> QED  BY <2>6, <3>1, <3>3, Zenon
    <2> QED  BY <1>4, <2>11, <2>12, <2>13, <2>14, <2>16, KernelStep, Zenon
  <1> QED  BY <1>2, <1>3, <1>4, Zenon DEF PageFault

-----------------------------------------------------------------------------
\* trap() takes the lock and copies the frame to env_tf.
LEMMA TrapLockRight ==
  ASSUME TInv, NEW c \in Cpus, TrapLock(c)
  PROVE  TInv'
  <1>1. /\ at[c] = "lock_kernel" /\ at' = [at EXCEPT ![c] = "trap_dispatch"]
        /\ env_tf' = [env_tf EXCEPT ![curenv[c]] = stack[c]]
        /\ stack' = [stack EXCEPT ![c] = << >>]
        /\ UNCHANGED <<regs, curenv, env_status, env_ipc_recving, env_parent, asked, want>>
    BY Zenon DEF TrapLock
  <1>2. PICK x : x = curenv[c]
    BY Zenon
  <1>3. x \in Envs /\ \A d \in Cpus : curenv[d] = x => d = c
    BY <1>1, <1>2, Zenon DEF TInv, Scheduled
  <1>4. Loads(stack[c], want[x]) /\ Decoded(stack[c], asked[x])
    BY <1>1, <1>2, Zenon DEF TInv, RegsOf
  <1>5. /\ at \in [Cpus -> Places] /\ DOMAIN env_tf = Envs /\ DOMAIN stack = Cpus
        /\ \A e \in Envs : DOMAIN env_tf[e] = 1 .. 17
    BY Zenon DEF TInv, Typed
  <1>6. at'[c] = "trap_dispatch" /\ \A d \in Cpus : d # c => at'[d] = at[d] /\ stack'[d] = stack[d]
    BY <1>1, <1>5, Zenon
  <1>7. /\ DOMAIN env_tf' = Envs /\ env_tf'[x] = stack[c]
        /\ \A e \in Envs : e # x => env_tf'[e] = env_tf[e]
    BY <1>1, <1>2, <1>3, <1>5, Zenon
  <1>8. Typed'
    <2>1. at' \in [Cpus -> Places] /\ DOMAIN stack' = Cpus
      BY <1>1, <1>5, Zenon DEF Places
    <2>2. ASSUME NEW e \in Envs PROVE DOMAIN env_tf'[e] = 1 .. 17
      <3>1. DOMAIN stack[c] = 1 .. 17
        BY <1>4, Zenon DEF Loads
      <3> QED  BY <3>1, <1>5, <1>7, Zenon
    <2> QED  BY <2>1, <2>2, <1>1, <1>7, Zenon DEF TInv, Typed
  <1>9. Scheduled'
    BY <1>1, <1>6 DEF TInv, Scheduled
  <1>10. Receiving'
    BY <1>1, Zenon DEF TInv, Receiving
  <1>11. Requests'
    <2>1. ASSUME NEW d \in Cpus, at'[d] \in {"lock_kernel", "trap_dispatch"} PROVE AskedOf(d)'
      <3>1. at[d] \in {"lock_kernel", "trap_dispatch"}
        BY <2>1, <1>1, <1>6, Zenon
      <3>2. AskedOf(d)
        BY <3>1, Zenon DEF TInv, Requests
      <3> QED  BY <3>2, <1>1, Zenon DEF AskedOf
    <2> QED  BY <2>1, Zenon DEF Requests
  <1>12. Saved'
    <2>1. ASSUME NEW e \in Envs, Settled(e)' PROVE Loads(env_tf'[e], want[e])
      <3>1. CASE e = x
        BY <3>1, <1>4, <1>7, Zenon
      <3>2. CASE e # x
        <4>1. Settled(e)
          BY <2>1, <3>2, <1>1, <1>2, <1>6, Zenon DEF Settled
        <4>2. Loads(env_tf[e], want[e])
          BY <4>1, Zenon DEF TInv, Saved
        <4> QED  BY <3>2, <4>2, <1>7, Zenon
      <3> QED  BY <3>1, <3>2, Zenon
    <2> QED  BY <2>1, <1>1, Zenon DEF Saved
  <1>13. Answers'
    <2>1. ASSUME NEW e \in Envs, Answered(e)' PROVE ContentOf(e)'
      <3>1. Answered(e)
        BY <2>1, <1>1, <1>6, Zenon DEF Answered
      <3>2. ContentOf(e)
        BY <3>1, Zenon DEF TInv, Answers
      <3> QED  BY <3>2, <1>1, Zenon DEF ContentOf
    <2> QED  BY <2>1, Zenon DEF Answers
  <1>14. ASSUME NEW d \in Cpus PROVE RegsOf(d)'
    <2>1. CASE d = c
      <3>1. Decoded(env_tf'[x], asked'[x]) /\ curenv'[c] = x
        BY <1>1, <1>2, <1>4, <1>7, Zenon
      <3> QED  BY <2>1, <3>1, <1>6, ZenonT(40) DEF RegsOf
    <2>2. CASE d # c
      <3>1. RegsOf(d) /\ at'[d] = at[d] /\ stack'[d] = stack[d] /\ curenv'[d] = curenv[d]
        BY <2>2, <1>1, <1>6, Zenon DEF TInv
      <3>2. at[d] = "trap_dispatch" => env_tf'[curenv[d]] = env_tf[curenv[d]]
        BY <2>2, <1>3, <1>7, Zenon DEF TInv, Scheduled
      <3> QED  BY <3>1, <3>2, <1>1, Zenon DEF RegsOf
    <2> QED  BY <2>1, <2>2, Zenon
  <1> QED  BY <1>8, <1>9, <1>10, <1>11, <1>12, <1>13, <1>14, Zenon DEF TInv

\* A processor that moves between the kernel and its environment keeps it.
LEMMA SchedKept ==
  ASSUME Scheduled, NEW c \in Cpus, at[c] # "idle", at'[c] # "idle",
         \A d \in Cpus : d # c => at'[d] = at[d],
         curenv' = curenv, env_status' = env_status
  PROVE  Scheduled'
  BY Zenon DEF Scheduled

\* env_pop_tf() loads the registers.
LEMMA EnvPopTfRight ==
  ASSUME TInv, NEW c \in Cpus, EnvPopTf(c)
  PROVE  TInv'
  <1>1. /\ at[c] = "env_pop_tf" /\ at' = [at EXCEPT ![c] = "user"]
        /\ regs' = [regs EXCEPT ![c] = Popped(env_tf[curenv[c]])]
        /\ UNCHANGED <<stack, curenv, env_status, env_tf, env_ipc_recving, env_parent, asked, want>>
    BY Zenon DEF EnvPopTf
  <1>2. PICK x : x = curenv[c]
    BY Zenon
  <1>3. x \in Envs /\ \A d \in Cpus : curenv[d] = x => d = c
    BY <1>1, <1>2, Zenon DEF TInv, Scheduled
  <1>4. Loads(env_tf[x], want[x])
    <2>1. Settled(x)
      BY <1>1, <1>3, Zenon DEF Settled, Away
    <2> QED  BY <1>3, <2>1, Zenon DEF TInv, Saved
  <1>5. at \in [Cpus -> Places] /\ DOMAIN regs = Cpus
    BY Zenon DEF TInv, Typed
  <1>6. /\ at'[c] = "user" /\ regs'[c] = want[x] /\ curenv'[c] = x
        /\ \A d \in Cpus : d # c => at'[d] = at[d] /\ regs'[d] = regs[d]
    <2>1. Popped(env_tf[curenv[c]]) = want[x]
      BY <1>2, <1>4, Zenon DEF Loads
    <2> QED  BY <2>1, <1>1, <1>2, <1>5, Zenon
  <1>7. Typed'
    <2>1. at' \in [Cpus -> Places] /\ DOMAIN regs' = Cpus
      BY <1>1, <1>5, Zenon DEF Places
    <2> QED  BY <2>1, <1>1, Zenon DEF TInv, Typed
  <1>8. Scheduled'
    <2>1. Scheduled /\ at[c] # "idle"
      BY <1>1, Zenon DEF TInv
    <2>2. curenv' = curenv /\ env_status' = env_status
      BY <1>1, Zenon
    <2> QED  BY <2>1, <2>2, <1>6, SchedKept, Zenon
  <1>9. Receiving'
    BY <1>1, Zenon DEF TInv, Receiving
  <1>10. Requests'
    <2>1. ASSUME NEW d \in Cpus, at'[d] \in {"lock_kernel", "trap_dispatch"} PROVE AskedOf(d)'
      <3>1. AskedOf(d)
        BY <2>1, <1>6, Zenon DEF TInv, Requests
      <3> QED  BY <3>1, <1>1, Zenon DEF AskedOf
    <2> QED  BY <2>1, Zenon DEF Requests
  <1>11. Saved'
    <2>1. ASSUME NEW e \in Envs, Settled(e)' PROVE Loads(env_tf[e], want[e])
      <3>1. Settled(e)
        BY <2>1, <1>1, <1>6, Zenon DEF Settled, Away
      <3> QED  BY <3>1, Zenon DEF TInv, Saved
    <2> QED  BY <2>1, <1>1, ZenonT(40) DEF Saved
  <1>12. Answers'
    <2>1. ASSUME NEW e \in Envs, Answered(e)' PROVE ContentOf(e)'
      <3>1. Answered(e)
        BY <2>1, <1>1, <1>6, Zenon DEF Answered
      <3>2. ContentOf(e)
        BY <3>1, Zenon DEF TInv, Answers
      <3> QED  BY <3>2, <1>1, ZenonT(40) DEF ContentOf
    <2> QED  BY <2>1, Zenon DEF Answers
  <1>13. ASSUME NEW d \in Cpus PROVE RegsOf(d)'
    <2>1. CASE d = c
      BY <2>1, <1>1, <1>6, Zenon DEF RegsOf
    <2>2. CASE d # c
      <3>1. RegsOf(d) /\ at'[d] = at[d] /\ regs'[d] = regs[d]
        BY <2>2, <1>6, Zenon DEF TInv
      <3> QED  BY <3>1, <1>1, Zenon DEF RegsOf
    <2> QED  BY <2>1, <2>2, Zenon
  <1> QED  BY <1>7, <1>8, <1>9, <1>10, <1>11, <1>12, <1>13, Zenon DEF TInv

-----------------------------------------------------------------------------
\* A trap from user mode: the frame that is pushed loads the registers there
\* were, and says what happened.
LEMMA TrapRight ==
  ASSUME TInv, NEW c \in Cpus, NEW r, NEW v, NEW code, NEW call, NEW args, NEW why,
         why = [v |-> v, code |-> code, call |-> call, args |-> args],
         Trap(c, r, v, code, call, args),
         Loads(Frame(r, v, code), r), Decoded(Frame(r, v, code), why),
         CallOf(why) \in {"env_set_status", "ipc_try_send"} => Target(why) \in Envs,
         CallOf(why) = "env_set_status" =>
           /\ env_status[Target(why)] = "NOT_RUNNABLE" /\ ~env_ipc_recving[Target(why)]
           /\ env_parent[Target(why)] = curenv[c]
  PROVE  TInv'
  <1>1. PICK tf : tf = Frame(r, v, code)
    BY ZenonT(40)
  <1>2. PICK w : w = IF panicstr THEN "halt" ELSE "lock_kernel"
    BY Zenon
  <1>3. /\ at[c] = "user" /\ stack' = [stack EXCEPT ![c] = tf] /\ at' = [at EXCEPT ![c] = w]
        /\ regs' = [regs EXCEPT ![c] = NewRegs(None)]
        /\ want' = [want EXCEPT ![curenv[c]] = r]
        /\ asked' = [asked EXCEPT ![curenv[c]] = why]
        /\ UNCHANGED <<curenv, env_status, env_tf, env_ipc_recving, env_parent>>
    BY <1>1, <1>2, ZenonT(40) DEF Trap
  <1>4. w = "halt" \/ w = "lock_kernel"
    BY <1>2, Zenon
  <1>5. PICK x : x = curenv[c]
    BY Zenon
  <1>6. x \in Envs /\ \A d \in Cpus : curenv[d] = x => d = c
    BY <1>3, <1>5, ZenonT(40) DEF TInv, Scheduled
  <1>7. /\ at \in [Cpus -> Places] /\ DOMAIN stack = Cpus /\ DOMAIN regs = Cpus
        /\ DOMAIN want = Envs /\ DOMAIN asked = Envs
    BY ZenonT(40) DEF TInv, Typed
  <1>8. /\ at'[c] = w /\ stack'[c] = tf
        /\ \A d \in Cpus : d # c => at'[d] = at[d] /\ stack'[d] = stack[d] /\ regs'[d] = regs[d]
    BY <1>3, <1>7, Zenon
  <1>9. /\ want'[x] = r /\ asked'[x] = why /\ DOMAIN want' = Envs /\ DOMAIN asked' = Envs
        /\ \A e \in Envs : e # x => want'[e] = want[e] /\ asked'[e] = asked[e]
    <2>1. want' = [want EXCEPT ![x] = r] /\ asked' = [asked EXCEPT ![x] = why]
      BY <1>3, <1>5, ZenonT(40)
    <2>2. PICK q : q = why
      BY ZenonT(40)
    <2>3. asked' = [asked EXCEPT ![x] = q]
      BY <2>1, <2>2, ZenonT(40)
    <2> HIDE <2>2
    <2>4. asked'[x] = q /\ DOMAIN asked' = Envs /\ \A e \in Envs : e # x => asked'[e] = asked[e]
      BY <2>3, <1>6, <1>7, ZenonT(40)
    <2>5. want'[x] = r /\ DOMAIN want' = Envs /\ \A e \in Envs : e # x => want'[e] = want[e]
      BY <2>1, <1>6, <1>7, ZenonT(40)
    <2> QED  BY <2>2, <2>4, <2>5, ZenonT(40)
  <1>10. Typed'
    <2>1. at' \in [Cpus -> Places] /\ DOMAIN stack' = Cpus /\ DOMAIN regs' = Cpus
      BY <1>3, <1>4, <1>7, ZenonT(40) DEF Places
    <2> QED  BY <2>1, <1>3, <1>9, ZenonT(40) DEF TInv, Typed
  <1>11. Scheduled'
    <2>1. at'[c] = w
      BY <1>3, <1>7, Zenon
    <2>2. Scheduled /\ at[c] # "idle" /\ at'[c] # "idle"
      BY <2>1, <1>3, <1>4, Zenon DEF TInv
    <2>3. curenv' = curenv /\ env_status' = env_status
      BY <1>3, Zenon
    <2> QED  BY <2>2, <2>3, <1>8, SchedKept, Zenon
  <1>12. Receiving'
    BY <1>3, Zenon DEF TInv, Receiving
  <1>13. Requests'
    <2> SUFFICES ASSUME NEW d \in Cpus, at'[d] \in {"lock_kernel", "trap_dispatch"}
                 PROVE  AskedOf(d)'
      BY Zenon DEF Requests
    <2>1. CASE d = c
      <3>1. curenv'[d] = x /\ asked'[curenv'[d]] = why
        BY <2>1, <1>3, <1>5, <1>9, Zenon
      <3> QED  BY <3>1, <1>3, <1>5, Zenon DEF AskedOf
    <2>2. CASE d # c
      <3>1. at[d] \in {"lock_kernel", "trap_dispatch"}
        BY <2>2, <1>8, ZenonT(40)
      <3>2. AskedOf(d) /\ curenv[d] \in Envs /\ curenv[d] # x
        BY <2>2, <3>1, <1>6, ZenonT(40) DEF TInv, Requests, Scheduled
      <3>3. asked'[curenv[d]] = asked[curenv[d]] /\ curenv'[d] = curenv[d]
        BY <3>2, <1>3, <1>9, Zenon
      <3> QED  BY <3>2, <3>3, <1>3, ZenonT(40) DEF AskedOf
    <2> QED  BY <2>1, <2>2, ZenonT(40)
  <1>14. Saved'
    <2> SUFFICES ASSUME NEW e \in Envs, Settled(e)' PROVE Loads(env_tf'[e], want'[e])
      BY ZenonT(40) DEF Saved
    <2>1. e # x
      BY <1>3, <1>4, <1>5, <1>8, ZenonT(40) DEF Settled, Away
    <2>2. Settled(e)
      BY <2>1, <1>3, <1>5, <1>8, ZenonT(40) DEF Settled
    <2>3. Loads(env_tf[e], want[e])
      BY <2>2, Zenon DEF TInv, Saved
    <2> QED  BY <2>1, <2>3, <1>3, <1>9, Zenon
  <1>15. Answers'
    <2> SUFFICES ASSUME NEW e \in Envs, Answered(e)' PROVE ContentOf(e)'
      BY ZenonT(40) DEF Answers
    <2>1. e # x
      BY <1>3, <1>4, <1>5, <1>8, ZenonT(40) DEF Answered
    <2>2. Answered(e)
      BY <2>1, <1>3, <1>5, <1>8, ZenonT(40) DEF Answered
    <2>3. ContentOf(e)
      BY <2>2, ZenonT(40) DEF TInv, Answers
    <2> QED  BY <2>1, <2>3, <1>9, Zenon DEF ContentOf
  <1>16. ASSUME NEW d \in Cpus PROVE RegsOf(d)'
    <2>1. CASE d = c
      <3>1. curenv'[d] = x /\ at'[d] # "user" /\ at'[d] # "trap_dispatch"
        BY <2>1, <1>3, <1>4, <1>5, <1>8, Zenon
      <3>2. Loads(stack'[d], want'[x]) /\ Decoded(stack'[d], asked'[x])
        BY <2>1, <1>1, <1>8, <1>9, Zenon
      <3> QED  BY <3>1, <3>2, ZenonT(40) DEF RegsOf
    <2>2. CASE d # c
      <3>1. /\ RegsOf(d) /\ at'[d] = at[d] /\ regs'[d] = regs[d] /\ stack'[d] = stack[d]
            /\ curenv'[d] = curenv[d]
        BY <2>2, <1>3, <1>8, ZenonT(40) DEF TInv
      <3>2. at[d] # "idle" => want'[curenv[d]] = want[curenv[d]] /\ asked'[curenv[d]] = asked[curenv[d]]
        BY <2>2, <1>6, <1>9, Zenon DEF TInv, Scheduled
      <3> QED  BY <3>1, <3>2, <1>3, ZenonT(40) DEF RegsOf
    <2> QED  BY <2>1, <2>2, Zenon
  <1> QED  BY <1>10, <1>11, <1>12, <1>13, <1>14, <1>15, <1>16, ZenonT(40) DEF TInv

\* What the frame of a trap says, if it is not a system call.
LEMMA FrameDecoded ==
  ASSUME NEW r, NEW v, NEW code, Fits(v, code), NEW why, why.v = v, why.code = code,
         why.call = "exception" \/ (why.call = "int" /\ v \in {T_BRKPT, T_GPFLT}),
         v # T_SYSCALL
  PROVE  /\ Decoded(Frame(r, v, code), why)
         /\ CallOf(why) \notin {"env_set_status", "ipc_try_send"}
  <1>2. ~IsStub(why)
    BY StubNumbers, Zenon DEF IsStub
  <1>1. Frame(r, v, code)[tf_trapno] = Num(v) /\ <<Frame(r, v, code)[tf_err]>> = ErrWord(code)
    BY FrameHead
  <1>3. Frame(r, v, code)[tf_trapno] = Num(why.v)
    BY <1>1, Zenon
  <1>4. <<Frame(r, v, code)[tf_err]>> = ErrWord(why.code)
    BY <1>1, Zenon
  <1>5. CallOf(why) \notin {"env_set_status", "ipc_try_send"}
    BY Zenon DEF CallOf
  <1>6. Decoded(Frame(r, v, code), why)
    <2>1. why.call = "int" => why.v \in {T_BRKPT, T_GPFLT}
      BY Zenon
    <2> QED  BY <1>2, <1>3, <1>4, <2>1, Zenon DEF Decoded
  <1> QED  BY <1>5, <1>6, Zenon

\* An exception or an interrupt: the entry point of the vector expects the error
\* code exactly if the processor pushes one.
LEMMA ExceptionRight ==
  ASSUME TrapFrameAssumption, NoAlignmentCheck, TInv, NEW c \in Cpus, NEW v \in Vectors,
         Exception(c, v)
  PROVE  TInv'
  <1>1. PICK code : code = IF PushesError(v) THEN <<Num(4)>> ELSE << >>
    BY Zenon
  <1>2. PICK r : r = Computed(curenv[c], regs[c])
    BY Zenon
  <1>3. Trap(c, r, v, code, "exception", << >>)
    BY <1>1, <1>2, Zenon DEF Exception, Now
  <1>4. v \in 0 .. 47 /\ v # 17 /\ v # T_SYSCALL
    BY DEF TrapFrameAssumption, NoAlignmentCheck, T_SYSCALL
  <1>5. PushesError(v) <=> v \in TRAPHANDLER
    BY <1>4, Zenon DEF PushesError, TRAPHANDLER
  <1>6. Fits(v, code)
    BY <1>1, <1>5, Zenon DEF Fits
  <1>7. IsRegs(r)
    BY <1>2, ComputedRegs, Zenon
  <1>8. Loads(Frame(r, v, code), r)
    BY <1>6, <1>7, FrameLoads, Zenon
  <1>9. PICK why : why = [v |-> v, code |-> code, call |-> "exception", args |-> << >>]
    BY Zenon
  <1>10. why.v = v /\ why.code = code /\ why.call = "exception"
    BY <1>9, Zenon
  <1>11. Decoded(Frame(r, v, code), why) /\ CallOf(why) \notin {"env_set_status", "ipc_try_send"}
    BY <1>4, <1>6, <1>10, FrameDecoded, Zenon
  <1> QED  BY <1>3, <1>8, <1>9, <1>11, TrapRight, Zenon

\* An int instruction: trap_init() opens the gates of the breakpoint and of the
\* system calls only.
LEMMA SoftIntRight ==
  ASSUME TrapFrameAssumption, TInv, NEW c \in Cpus, NEW n \in Ints, SoftInt(c, n)
  PROVE  TInv'
  <1>1. PICK v : v = IF DPL(n) = 3 THEN n ELSE T_GPFLT
    BY Zenon
  <1>2. PICK code : code = IF DPL(n) = 3 THEN << >> ELSE <<Num(n * 8 + 2)>>
    BY Zenon
  <1>3. PICK r : r = Computed(curenv[c], regs[c])
    BY Zenon
  <1>4. Trap(c, r, v, code, "int", << >>)
    BY <1>1, <1>2, <1>3, Zenon DEF SoftInt, Now
  <1>5. DPL(n) = 3 <=> n = T_BRKPT
    BY DEF DPL, TrapFrameAssumption, T_BRKPT, T_SYSCALL
  <1>6. v \in {T_BRKPT, T_GPFLT} /\ v # T_SYSCALL
    BY <1>1, <1>5 DEF T_BRKPT, T_GPFLT, T_SYSCALL
  <1>7. T_BRKPT \notin TRAPHANDLER /\ T_GPFLT \in TRAPHANDLER
    BY DEF T_BRKPT, T_GPFLT, TRAPHANDLER
  <1>8. Fits(v, code)
    BY <1>1, <1>2, <1>5, <1>7, Zenon DEF Fits
  <1>9. Loads(Frame(r, v, code), r)
    BY <1>3, <1>8, ComputedRegs, FrameLoads, Zenon
  <1>10. PICK why : why = [v |-> v, code |-> code, call |-> "int", args |-> << >>]
    BY Zenon
  <1>11. why.v = v /\ why.code = code /\ why.call = "int"
    BY <1>10, Zenon
  <1>12. Decoded(Frame(r, v, code), why) /\ CallOf(why) \notin {"env_set_status", "ipc_try_send"}
    BY <1>6, <1>8, <1>11, FrameDecoded, ZenonT(40)
  <1> QED  BY <1>4, <1>9, <1>10, <1>12, TrapRight, Zenon

\* The arguments that programs give: as many as the call takes.  One that sets a
\* child going has made it and not set it going before.
LEMMA ArgsRight ==
  ASSUME NEW e, NEW call \in DOMAIN stubs, NEW args \in Args(call, e)
  PROVE  /\ args = [k \in 1 .. ArityOf(call) |-> args[k]]
         /\ call \in {"env_set_status", "ipc_try_send"} => args[1][2] \in Envs
         /\ call = "env_set_status" =>
              /\ env_status[args[1][2]] = "NOT_RUNNABLE" /\ ~env_ipc_recving[args[1][2]]
              /\ env_parent[args[1][2]] = e
  <1>1. CASE call = "env_destroy"
    <2>1. args = <<Env(e)>>
      BY <1>1, Zenon DEF Args
    <2>2. ArityOf(call) = 1
      BY <1>1, Zenon DEF ArityOf, stubs, Stub
    <2>3. args = [k \in 1 .. 1 |-> args[k]]
      BY <2>1
    <2> QED  BY <1>1, <2>2, <2>3, Zenon
  <1>2. CASE call = "ipc_try_send"
    <2>1. PICK d \in Envs : args = <<Env(d), <<"arg", 2>>, <<"arg", 3>>, <<"arg", 4>>>>
      BY <1>2, Zenon DEF Args
    <2>2. ArityOf(call) = 4
      BY <1>2, Zenon DEF ArityOf, stubs, Stub
    <2>3. args = [k \in 1 .. 4 |-> args[k]]
      BY <2>1
    <2>4. args[1][2] = d
      BY <2>1, Zenon DEF Env
    <2> QED  BY <1>2, <2>2, <2>3, <2>4, Zenon
  <1>3. CASE call = "env_set_status"
    <2>1. PICK d \in NewChildren(e) : args = <<Env(d), <<"ENV_RUNNABLE">>>>
      BY <1>3, Zenon DEF Args
    <2>2. ArityOf(call) = 2
      BY <1>3, Zenon DEF ArityOf, stubs, Stub
    <2>3. args = [k \in 1 .. 2 |-> args[k]]
      BY <2>1
    <2>4. args[1][2] = d
      BY <2>1, Zenon DEF Env
    <2>5. d \in Envs /\ env_parent[d] = e /\ env_status[d] = "NOT_RUNNABLE" /\ ~env_ipc_recving[d]
      BY <2>1, Zenon DEF NewChildren
    <2> QED  BY <1>3, <2>2, <2>3, <2>4, <2>5, Zenon
  <1>4. CASE call \notin {"env_destroy", "ipc_try_send", "env_set_status"}
    <2>1. args = [k \in 1 .. ArityOf(call) |-> <<"arg", k>>]
      BY <1>4, Zenon DEF Args, ArityOf
    <2>2. PICK n : n = ArityOf(call)
      BY Zenon
    <2>3. args = [k \in 1 .. n |-> <<"arg", k>>]
      BY <2>1, <2>2, Zenon
    <2>4. args = [k \in 1 .. n |-> args[k]]
      BY <2>3, Zenon
    <2> QED  BY <1>4, <2>2, <2>4, Zenon
  <1> QED  BY <1>1, <1>2, <1>3, <1>4, Zenon

\* A system call: the stub leaves its number and arguments where trap_dispatch()
\* looks for them.
LEMMA SysCallRight ==
  ASSUME TrapFrameAssumption, TInv, NEW c \in Cpus, NEW call \in Calls,
         NEW args \in Args(call, curenv[c]), SysCall(c, call, args)
  PROVE  TInv'
  <1>1. PICK p : p = Computed(curenv[c], regs[c])
    BY Zenon
  <1>2. PICK r : r = StubRegs(p, call, args)
    BY Zenon
  <1>3. Trap(c, r, T_SYSCALL, << >>, call, args)
    BY <1>1, <1>2, ZenonT(40) DEF SysCall, Now
  <1>4. IsRegs(p) /\ IsRegs(r)
    BY <1>1, <1>2, ComputedRegs, Zenon
  <1>5. call \in DOMAIN stubs
    BY Zenon DEF TrapFrameAssumption
  <1>6. /\ args = [k \in 1 .. ArityOf(call) |-> args[k]]
        /\ call \in {"env_set_status", "ipc_try_send"} => args[1][2] \in Envs
        /\ call = "env_set_status" =>
             /\ env_status[args[1][2]] = "NOT_RUNNABLE" /\ ~env_ipc_recving[args[1][2]]
             /\ env_parent[args[1][2]] = curenv[c]
    BY <1>5, ArgsRight
  <1>7. Fits(T_SYSCALL, << >>)
    BY DEF Fits, T_SYSCALL, TRAPHANDLER
  <1>8. PICK tf : tf = Frame(r, T_SYSCALL, << >>)
    BY Zenon
  <1>9. Loads(Frame(r, T_SYSCALL, << >>), r)
    BY <1>4, <1>7, FrameLoads, Zenon
  <1>10. Called(tf) = call /\ Given(tf) = args
    <2>1. tf = Frame(StubRegs(p, call, args), T_SYSCALL, << >>)
      BY <1>2, <1>8, Zenon
    <2>2. Complete(call, args)
      BY <1>6, Zenon DEF Complete
    <2> QED  BY <1>4, <1>5, <2>1, <2>2, StubFrame
  <1>11. tf[tf_trapno] = Num(T_SYSCALL)
    BY <1>7, <1>8, FrameHead, Zenon
  <1>12. <<tf[tf_err]>> = ErrWord(<< >>)
    BY <1>7, <1>8, FrameHead, Zenon
  <1>13. PICK why : why = [v |-> T_SYSCALL, code |-> << >>, call |-> call, args |-> args]
    BY Zenon
  <1>14. why.v = T_SYSCALL /\ why.code = << >> /\ why.call = call /\ why.args = args
    BY <1>13, Zenon
  <1>15. why.call # "int"
    BY <1>5, <1>14, StubNumbers, Zenon
  <1>16. Decoded(Frame(r, T_SYSCALL, << >>), why)
    BY <1>5, <1>8, <1>10, <1>11, <1>12, <1>14, <1>15, Zenon DEF Decoded, IsStub
  <1>17. CallOf(why) = call /\ Target(why) = args[1][2]
    BY <1>14, Zenon DEF CallOf, Target
  <1> QED  BY <1>3, <1>6, <1>9, <1>13, <1>16, <1>17, TrapRight, Zenon

-----------------------------------------------------------------------------
\* At the start every environment has the registers that env_alloc() and
\* load_icode() give it.
LEMMA TInit ==
  ASSUME TrapFrameAssumption, Init
  PROVE  TInv
  <1>1. /\ at = [c \in Cpus |-> "idle"] /\ curenv = [c \in Cpus |-> None]
        /\ want = [e \in Envs |-> NewRegs(e)]
        /\ env_tf = [e \in Envs |-> Frame(want[e], 0, << >>)]
        /\ env_ipc_recving = [e \in Envs |-> FALSE]
    BY Zenon DEF Init
  <1>2. Fits(0, << >>)
    BY DEF Fits, TRAPHANDLER
  <1>3. ASSUME NEW e \in Envs PROVE Loads(env_tf[e], want[e])
    <2>1. PICK r : r = NewRegs(e)
      BY Zenon
    <2>2. want[e] = r /\ env_tf[e] = Frame(r, 0, << >>)
      BY <1>1, <2>1, Zenon
    <2>3. IsRegs(r)
      BY <2>1, Zenon DEF NewRegs, IsRegs
    <2> QED  BY <1>2, <2>2, <2>3, FrameLoads, Zenon
  <1>4. Typed
    <2>1. \A e \in Envs : DOMAIN env_tf[e] = 1 .. 17
      BY <1>3, Zenon DEF Loads
    <2>2. env_status \in [Envs -> Statuses]
      BY Zenon DEF Init, Statuses
    <2>3. at \in [Cpus -> Places]
      BY <1>1, Zenon DEF Places
    <2> QED  BY <1>1, <2>1, <2>2, <2>3, Zenon DEF Init, Typed
  <1>5. Scheduled
    BY <1>1, Zenon DEF Scheduled, TrapFrameAssumption
  <1>6. Receiving /\ Requests
    BY <1>1, Zenon DEF Receiving, Requests
  <1>7. Saved
    BY <1>3, Zenon DEF Saved
  <1>8. Answers
    <2>1. ASSUME NEW e \in Envs PROVE ~IsStub(asked[e])
      <3>1. asked[e].call = None
        BY Zenon DEF Init
      <3> QED  BY <3>1, StubNumbers, Zenon DEF IsStub
    <2> QED  BY <2>1, Zenon DEF Answers, ContentOf
  <1>9. \A c \in Cpus : RegsOf(c)
    BY <1>1, Zenon DEF RegsOf
  <1> QED  BY <1>4, <1>5, <1>6, <1>7, <1>8, <1>9, ZenonT(40) DEF TInv

\* Every step keeps it.
LEMMA TNext ==
  ASSUME TrapFrameAssumption, NoAlignmentCheck, TInv, [Next]_(vars)
  PROVE  TInv'
  <1>1. CASE UNCHANGED vars
    <2>1. UNCHANGED <<at, regs, stack, curenv, env_status, env_tf, env_ipc_recving, env_parent, asked, want>>
      BY <1>1, Zenon DEF vars
    <2> QED  BY <2>1, Zenon DEF TInv, Typed, Scheduled, Receiving, Requests, AskedOf, RegsOf, Saved, Settled,
                         Answers, Answered, ContentOf
  <1>2. ASSUME NEW c \in Cpus, Kernel(c) PROVE TInv'
    <2>1. CASE Breakpoint(c)
      BY <2>1, MonitorRight, Zenon DEF Breakpoint
    <2> QED  BY <1>2, <2>1, TrapLockRight, IdleYieldRight, EnvPopTfRight, TimerRight, PrintedIrqRight,
                PageFaultRight, SysOtherRight, SysYieldRight, EndRight, SysExoforkRight,
                SysEnvSetStatusRight, SysIpcTrySendRight, SysIpcRecvRight, Zenon DEF Kernel
  <1>3. ASSUME NEW c \in Cpus, User(c) PROVE TInv'
    BY <1>3, ExceptionRight, SoftIntRight, SysCallRight, Zenon DEF User
  <1> QED  BY <1>1, <1>2, <1>3, Zenon DEF Next

\* It says that traps are transparent.
LEMMA TSafe ==
  ASSUME TInv
  PROVE  TrapsTransparent
  <1>1. ContextKept
    BY Zenon DEF TInv, RegsOf, ContextKept
  <1>2. ASSUME NEW c \in Cpus, InKernel(c), NEW why, why = asked[curenv[c]]
        PROVE  /\ Tf(c)[tf_trapno] = Num(why.v)
               /\ <<Tf(c)[tf_err]>> = IF why.code = << >> THEN <<Num(0)>> ELSE why.code
               /\ why.call \in DOMAIN stubs => Called(Tf(c)) = why.call /\ Given(Tf(c)) = why.args
               /\ why.call = "int" => Trapno(c) \in {T_BRKPT, T_GPFLT}
    <2>1. Decoded(Tf(c), why) /\ Trapno(c) = why.v
      BY <1>2, Serving, Zenon DEF VectorOf, Tf
    <2> QED  BY <2>1, Zenon DEF Decoded, IsStub, ErrWord
  <1>3. TrapDecoded
    BY <1>2, Zenon DEF TrapDecoded
  <1>4. ASSUME NEW c \in Cpus, at[c] = "user", asked[curenv[c]].call \in DOMAIN stubs,
               stubs[asked[curenv[c]].call].check
        PROVE  regs[c].eax[2] <= 0
    <2>1. PICK e \in Envs : e = curenv[c]
      BY <1>4, Zenon DEF TInv, Scheduled
    <2>2. Answered(e)
      BY <1>4, <2>1, Zenon DEF TInv, Scheduled, Receiving, Answered
    <2>3. NotPositive(want[e])
      BY <1>4, <2>1, <2>2, ZenonT(40) DEF TInv, Answers, ContentOf, IsStub, Checked
    <2>4. regs[c] = want[e]
      BY <1>4, <2>1, Zenon DEF TInv, RegsOf
    <2> QED  BY <2>3, <2>4, Zenon DEF NotPositive
  <1>5. StubsContent
    BY <1>4, Zenon DEF StubsContent
  <1> QED  BY <1>1, <1>3, <1>5, Zenon DEF TrapsTransparent

\* Traps are transparent to programs, whatever makes them trap but the alignment check.
THEOREM TrapsAreTransparent ==
  ASSUME TrapFrameAssumption, NoAlignmentCheck
  PROVE  Spec => []TrapsTransparent
  <1>1. Init => TInv
    BY TInit, Zenon
  <1>2. TInv /\ [Next]_(vars) => TInv'
    BY TNext, Zenon
  <1>3. TInv => TrapsTransparent
    BY TSafe, Zenon
  <1> QED  BY <1>1, <1>2, <1>3, PTL DEF Spec
=============================================================================
