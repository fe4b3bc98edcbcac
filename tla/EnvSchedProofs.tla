--------------------------- MODULE EnvSchedProofs ---------------------------
(***************************************************************************)
(* Proofs about EnvSched, for any number of processors, environments and   *)
(* generations.  IInv is the inductive invariant.  All handlers end in     *)
(* sched_yield() or in trap()'s return, so what a handler owes these two   *)
(* is collected in Ready and what they leave behind is proved once.        *)
(***************************************************************************)
EXTENDS EnvSched, TLAPS

\* The lock is held by the processor that is in kernel code, and by no other.
LockInv == \A c \in Cpus : kernel_lock = c <=> Locked(c)

\* A processor that works for an environment has one; one that is starting
\* has none.
CurInv ==
  \A c \in Cpus : /\ OnBehalf(c) => curenv[c] \in Slots
                  /\ pc[c] \in {"mp_main", "sched"} => curenv[c] = NoEnv

\* A processor in user mode, or just out of it, uses its environment's pages.
Cr3Inv ==
  \A c \in Cpus : pc[c] \in {"user", "trap", "kernel"} =>
                    cr3[c] = env_id(curenv[c])

\* The idle environments are never blocked, destroyed or anyone's child, and
\* run on their own processor only.
IdleInv ==
  /\ \A e \in Idle : /\ env_status[e] \in {"RUNNABLE", "RUNNING"}
                     /\ ~ env_ipc_recving[e]
                     /\ env_parent_id[e] = NullId
  /\ \A c \in Cpus : curenv[c] \in Idle => curenv[c] = c

\* An environment in use has an envid that is not 0.
GenInv == \A e \in Slots : env_status[e] # "FREE" => env_gen[e] >= 1

IInv ==
  /\ TypeOK
  /\ LockInv
  /\ CurInv
  /\ OneCpu
  /\ RunningIffCurrent
  /\ Cr3Inv
  /\ IdleInv
  /\ GenInv
  /\ FreeListExact
  /\ ReceiverBlocked
  /\ IdleAvailable
  /\ MonitorMeansDone

-----------------------------------------------------------------------------
(* The end of a handler.                                                    *)

\* What sched_yield() may rely on when processor c calls it with the statuses
\* st and the current environment cur: the invariant, but for what the other
\* processors do not care about.
Ready(c, cur, st) ==
  /\ st \in [Slots -> Statuses]
  /\ cur \in Slots \cup {NoEnv}
  /\ cur \in Idle => cur = c
  /\ cur # NoEnv => st[cur] # "DYING" /\ \A d \in Cpus \ {c} : curenv[d] # cur
  /\ \A e \in Slots : st[e] \in {"RUNNING", "DYING"} <=>
       \/ e = cur /\ st[e] = "RUNNING"
       \/ \E d \in Cpus \ {c} : OnBehalf(d) /\ curenv[d] = e
  /\ \A e \in Idle : st[e] \in {"RUNNABLE", "RUNNING"}

\* What the end of a handler leaves of the statuses st: only the exchange
\* between RUNNABLE and RUNNING.
Kept(st) ==
  \A e \in Slots :
    \/ env_status'[e] = st[e]
    \/ /\ st[e] \in {"RUNNABLE", "RUNNING"}
       /\ env_status'[e] \in {"RUNNABLE", "RUNNING"}

\* The parts of the invariant that the end of a handler must establish.
SwitchInv ==
  /\ LockInv
  /\ CurInv
  /\ OneCpu
  /\ RunningIffCurrent
  /\ \A c \in Cpus : curenv[c] \in Idle => curenv[c] = c
  /\ IdleAvailable
  /\ MonitorMeansDone

\* A handler's effect, as far as the rest of the invariant needs it.
Switched(c, st) ==
  /\ env_status' \in [Slots -> Statuses]
  /\ curenv' \in [Cpus -> Slots \cup {NoEnv}]
  /\ kernel_lock' \in Cpus \cup {NoCpu}
  /\ pc' \in [Cpus -> Modes]
  /\ pc'[c] \in {"exit", "monitor"}
  /\ \A d \in Cpus \ {c} : pc'[d] = pc[d] /\ curenv'[d] = curenv[d]
  /\ Kept(st)

\* What the assumptions on the constants say about slots and idle environments.
LEMMA Constants ==
  /\ NCPU \in Nat /\ NCPU > 0 /\ NENV \in Nat /\ NENV >= NCPU
  /\ 0 \in Slots /\ Idle \subseteq Slots /\ Cpus = Idle
  /\ NoEnv \notin Slots /\ NoEnv \notin Idle /\ NoCpu \notin Cpus
  /\ NullId \in EnvIds
BY ConstantsAssumption DEF Cpus, Slots, Idle, NoEnv, NoCpu, NullId, EnvIds

\* Programs like those of lib/ neither destroy twice nor set other statuses.
LEMMA OrdinaryCalls ==
  ASSUME LibraryCalls
  PROVE  "redestroy" \notin Ops /\ Ops \cap {"restatus", "badstatus"} = {}
BY DEF LibraryCalls, LibraryOps

\* The circular search stays inside envs[].
LEMMA SearchSlotInSlots ==
  ASSUME NEW i \in 0 .. NENV, NEW k \in Slots
  PROVE  SearchSlot(i, k) \in Slots
BY Constants DEF SearchSlot, Slots

\* sched_yield() starts its search at an index of envs[], or just past the last.
LEMMA SearchStartInRange ==
  ASSUME NEW st, NEW cur \in Slots \cup {NoEnv}
  PROVE  SearchStart(cur, st) \in 0 .. NENV
BY Constants DEF SearchStart, Slots, NoEnv

\* While c holds the lock every other processor is outside the kernel.
LEMMA OthersOutside ==
  ASSUME IInv, NEW c \in Cpus, Locked(c), NEW d \in Cpus \ {c}
  PROVE  ~ Locked(d) /\ kernel_lock = c
BY Constants, Zenon DEF IInv, LockInv, Cpus

\* env_run() of an environment that is runnable in st, or of c's own
\* environment, restores the invariant.
LEMMA EnvRunSwitches ==
  ASSUME IInv, NEW c \in Cpus, Locked(c),
         NEW st, NEW cur, Ready(c, cur, st), NEW e \in Slots,
         \/ e = cur
         \/ st[e] = "RUNNABLE",
         st[e] \in {"RUNNABLE", "RUNNING"},
         e \in Idle => e = c,
         EnvRun(c, e, cur, st)
  PROVE  SwitchInv' /\ Switched(c, st)
<1> DEFINE st1 == Preempted(st, cur)
<1>1. /\ st1 \in [Slots -> Statuses]
      /\ \A x \in Slots : st1[x] = IF x = cur /\ st[x] = "RUNNING" THEN "RUNNABLE" ELSE st[x]
  BY Constants DEF Ready, Preempted, Statuses
<1>2. /\ env_status' = [st1 EXCEPT ![e] = "RUNNING"]
      /\ curenv' = [curenv EXCEPT ![c] = e]
      /\ kernel_lock' = NoCpu
      /\ pc' = [pc EXCEPT ![c] = "exit"]
  BY Zenon DEF EnvRun
<1> HIDE DEF st1
<1>3. /\ env_status' \in [Slots -> Statuses]
      /\ \A x \in Slots : env_status'[x] = IF x = e THEN "RUNNING"
            ELSE IF x = cur /\ st[x] = "RUNNING" THEN "RUNNABLE" ELSE st[x]
  BY <1>1, <1>2, Zenon DEF Statuses
<1>4. /\ curenv' \in [Cpus -> Slots \cup {NoEnv}]
      /\ curenv'[c] = e
      /\ \A d \in Cpus \ {c} : curenv'[d] = curenv[d]
  BY <1>2, Zenon DEF IInv, TypeOK
<1>5. /\ pc' \in [Cpus -> Modes]
      /\ pc'[c] = "exit"
      /\ \A d \in Cpus \ {c} : pc'[d] = pc[d]
  BY <1>2, Zenon DEF IInv, TypeOK, Modes
<1>6. \A d \in Cpus \ {c} : ~ Locked(d)
  BY OthersOutside, Zenon
<1>7. \A d \in Cpus \ {c} : OnBehalf(d) => curenv[d] # e
  <2>1. CASE e = cur
    BY <2>1, Constants DEF Ready
  <2>2. CASE st[e] = "RUNNABLE"
    BY <2>2, Zenon DEF Ready
  <2> QED BY <2>1, <2>2, Zenon
<1>8. \A d \in Cpus \ {c} : curenv[d] # e
  <2>1. \A d \in Cpus : ~ Locked(d) => OnBehalf(d) \/ curenv[d] = NoEnv
    BY Zenon DEF IInv, TypeOK, Modes, Locked, OnBehalf, CurInv
  <2> QED BY <2>1, <1>6, <1>7, Constants, Zenon
<1>9. LockInv'
  BY <1>2, <1>5, <1>6, Constants, Zenon DEF LockInv, Locked
<1>10. CurInv'
  BY <1>4, <1>5, Zenon DEF IInv, CurInv, OnBehalf
<1>11. OneCpu'
  BY <1>4, <1>8, Zenon DEF IInv, OneCpu
<1>12. RunningIffCurrent'
  <2> SUFFICES ASSUME NEW x \in Slots
               PROVE  env_status'[x] \in {"RUNNING", "DYING"} <=>
                        \E d \in Cpus : OnBehalf(d)' /\ curenv'[d] = x
    BY Zenon DEF RunningIffCurrent
  <2>1. OnBehalf(c)' /\ \A d \in Cpus \ {c} : OnBehalf(d)' <=> OnBehalf(d)
    BY <1>5, Zenon DEF OnBehalf
  <2>2. CASE x = e
    BY <2>1, <2>2, <1>3, <1>4, Zenon
  <2>3. CASE x # e
    <3>1. (\E d \in Cpus : OnBehalf(d)' /\ curenv'[d] = x)
             <=> \E d \in Cpus \ {c} : OnBehalf(d) /\ curenv[d] = x
      BY <2>1, <2>3, <1>4, Zenon
    <3>2. env_status'[x] \in {"RUNNING", "DYING"} <=>
             st[x] \in {"RUNNING", "DYING"} /\ ~ (x = cur /\ st[x] = "RUNNING")
      BY <2>3, <1>3, Zenon
    <3>3. x = cur => ~ \E d \in Cpus \ {c} : OnBehalf(d) /\ curenv[d] = x
      BY Constants DEF Ready
    <3> QED BY <3>1, <3>2, <3>3, Zenon DEF Ready
  <2> QED BY <2>2, <2>3, Zenon
<1>13. \A d \in Cpus : curenv'[d] \in Idle => curenv'[d] = d
  BY <1>4, Zenon DEF IInv, IdleInv
<1>14. IdleAvailable'
  BY <1>5, Zenon DEF IInv, IdleAvailable
<1>15. MonitorMeansDone'
  BY <1>5, <1>6, Zenon DEF MonitorMeansDone, Locked
<1>16. Kept(st)
  BY <1>3, Zenon DEF Kept
<1> QED
  BY <1>2, <1>3, <1>4, <1>5, <1>9, <1>10, <1>11, <1>12, <1>13, <1>14, <1>15, <1>16, Zenon
  DEF SwitchInv, Switched

\* sched_yield() restores the invariant; in particular it finds the idle
\* environment of its processor, which cannot be running elsewhere.
LEMMA SchedYieldSwitches ==
  ASSUME IInv, NEW c \in Cpus, Locked(c),
         NEW st, NEW cur, Ready(c, cur, st), SchedYield(c, cur, st)
  PROVE  SwitchInv' /\ Switched(c, st)
<1> DEFINE i   == SearchStart(cur, st)
           st1 == Preempted(st, cur)
           cand == Candidates(i, st1)
<1>1. /\ st1 \in [Slots -> Statuses]
      /\ \A x \in Slots : st1[x] = IF x = cur /\ st[x] = "RUNNING" THEN "RUNNABLE" ELSE st[x]
  BY Constants DEF Ready, Preempted, Statuses
<1>2. Ready(c, cur, st1)
  <2> HIDE DEF st1
  <2>1. cur # NoEnv => cur \in Slots /\ st1[cur] # "DYING"
    BY <1>1, Zenon DEF Ready
  <2>2. ASSUME NEW e \in Slots
        PROVE  st1[e] \in {"RUNNING", "DYING"} <=>
                 \/ e = cur /\ st1[e] = "RUNNING"
                 \/ \E d \in Cpus \ {c} : OnBehalf(d) /\ curenv[d] = e
    <3>1. CASE e = cur
      <4>1. ~ \E d \in Cpus \ {c} : OnBehalf(d) /\ curenv[d] = e
        BY <3>1, Constants DEF Ready
      <4> QED BY <3>1, <4>1, <1>1, Constants DEF Ready
    <3>2. CASE e # cur
      BY <3>2, <1>1, Zenon DEF Ready
    <3> QED BY <3>1, <3>2, Zenon
  <2>3. \A e \in Idle : st1[e] \in {"RUNNABLE", "RUNNING"}
    BY <1>1, Constants, Zenon DEF Ready
  <2> QED BY <1>1, <2>1, <2>2, <2>3, Zenon DEF Ready
<1>3. i \in 0 .. NENV
  BY SearchStartInRange, Zenon DEF Ready
<1>4. ASSUME Switched(c, st1) PROVE Switched(c, st)
  BY <1>1, <1>4, Zenon DEF Switched, Kept
<1>5. c \in Slots /\ c \in Idle
  BY Constants, Zenon
<1>6. /\ st1[c] \in {"RUNNABLE", "RUNNING"}
      /\ st1[c] = "RUNNABLE" \/ c = cur
  <2>1. st1[c] \in {"RUNNABLE", "RUNNING"}
    BY <1>2, <1>5, Zenon DEF Ready
  <2>2. \A d \in Cpus \ {c} : curenv[d] # c
    BY <1>5, Zenon DEF IInv, IdleInv
  <2> QED BY <2>1, <2>2, <1>2, <1>5, Zenon DEF Ready
<1>7. CASE \E k \in cand : EnvRun(c, SearchSlot(i, k), cur, st1)
  <2>1. PICK k \in cand : EnvRun(c, SearchSlot(i, k), cur, st1)
    BY <1>7, Zenon
  <2>2. k \in Slots /\ SearchSlot(i, k) \notin Idle /\ st1[SearchSlot(i, k)] = "RUNNABLE"
    BY <2>1, Zenon DEF Candidates
  <2>3. SearchSlot(i, k) \in Slots
    BY <2>2, <1>3, SearchSlotInSlots, Zenon
  <2> HIDE DEF i, st1, cand
  <2> QED BY <2>1, <2>2, <2>3, <1>2, <1>4, EnvRunSwitches, Zenon
<1>8. CASE ~ OthersBusy(st1) /\ Stop(c, cur, st1, "monitor")
  <2> HIDE DEF st1
  <2>1. /\ env_status' = st1
        /\ curenv' = [curenv EXCEPT ![c] = cur]
        /\ pc' = [pc EXCEPT ![c] = "monitor"]
        /\ kernel_lock' = kernel_lock
    BY <1>8, Zenon DEF Stop
  <2>2. /\ curenv' \in [Cpus -> Slots \cup {NoEnv}]
        /\ curenv'[c] = cur
        /\ \A d \in Cpus \ {c} : curenv'[d] = curenv[d]
    BY <2>1 DEF IInv, TypeOK, Ready
  <2>3. /\ pc' \in [Cpus -> Modes]
        /\ pc'[c] = "monitor"
        /\ \A d \in Cpus \ {c} : pc'[d] = pc[d]
    BY <2>1, Zenon DEF IInv, TypeOK, Modes
  <2>4. \A d \in Cpus \ {c} : ~ Locked(d)
    BY OthersOutside, Zenon
  <2>5. LockInv'
    BY <2>1, <2>3, <2>4, Zenon DEF IInv, LockInv, Locked
  <2>6. CurInv'
    BY <2>2, <2>3, Zenon DEF IInv, CurInv, OnBehalf
  <2>7. OneCpu'
    BY <2>2 DEF IInv, OneCpu, Ready
  <2>8. ~ (cur \in Slots /\ st1[cur] = "RUNNING")
    BY <1>1, Zenon
  <2>9. RunningIffCurrent'
    <3> SUFFICES ASSUME NEW x \in Slots
                 PROVE  env_status'[x] \in {"RUNNING", "DYING"} <=>
                          \E d \in Cpus : OnBehalf(d)' /\ curenv'[d] = x
      BY Zenon DEF RunningIffCurrent
    <3>1. ~ OnBehalf(c)' /\ \A d \in Cpus \ {c} : OnBehalf(d)' <=> OnBehalf(d)
      BY <2>3, Zenon DEF OnBehalf
    <3>2. (\E d \in Cpus : OnBehalf(d)' /\ curenv'[d] = x)
             <=> \E d \in Cpus \ {c} : OnBehalf(d) /\ curenv[d] = x
      BY <3>1, <2>2, Zenon
    <3>3. st1[x] \in {"RUNNING", "DYING"}
             <=> \E d \in Cpus \ {c} : OnBehalf(d) /\ curenv[d] = x
      BY <1>2, <2>8 DEF Ready
    <3> QED BY <3>2, <3>3, <2>1, Zenon
  <2>10. \A d \in Cpus : curenv'[d] \in Idle => curenv'[d] = d
    BY <2>2, Zenon DEF IInv, IdleInv, Ready
  <2>11. IdleAvailable'
    BY <2>3, Zenon DEF IInv, IdleAvailable
  <2>12. MonitorMeansDone'
    BY <1>8, <2>1, Zenon DEF MonitorMeansDone, OthersBusy
  <2>13. Switched(c, st1)
    BY <1>1, <2>1, <2>2, <2>3, Zenon DEF Switched, Kept, IInv, TypeOK
  <2> QED
    BY <2>5, <2>6, <2>7, <2>9, <2>10, <2>11, <2>12, <2>13, <1>4, Zenon DEF SwitchInv
<1>9. CASE EnvRun(c, c, cur, st1)
  <2> HIDE DEF st1
  <2> QED BY <1>9, <1>2, <1>4, <1>5, <1>6, EnvRunSwitches, Zenon
<1> QED
  <2>1. \/ \E k \in cand : EnvRun(c, SearchSlot(i, k), cur, st1)
        \/ ~ OthersBusy(st1) /\ Stop(c, cur, st1, "monitor")
        \/ EnvRun(c, c, cur, st1)
    BY <1>6, Zenon DEF SchedYield
  <2> QED BY <2>1, <1>7, <1>8, <1>9, Zenon

\* So does the end of trap().
LEMMA TrapReturnSwitches ==
  ASSUME IInv, NEW c \in Cpus, Locked(c), NEW st,
         Ready(c, curenv[c], st), curenv[c] \in Slots, TrapReturn(c, st)
  PROVE  SwitchInv' /\ Switched(c, st)
<1>1. CASE st[curenv[c]] = "RUNNING"
  <2>1. curenv[c] \in Idle => curenv[c] = c
    BY Zenon DEF Ready
  <2>2. EnvRun(c, curenv[c], curenv[c], st)
    BY <1>1, Zenon DEF TrapReturn
  <2> QED BY <1>1, <2>1, <2>2, EnvRunSwitches, Zenon
<1>2. CASE st[curenv[c]] # "RUNNING"
  BY <1>2, SchedYieldSwitches, Zenon DEF TrapReturn
<1> QED BY <1>1, <1>2, Zenon

-----------------------------------------------------------------------------
(* The start of a handler.                                                  *)

\* trap() with the lock held works for an environment that is RUNNING or
\* DYING and that no other processor has.
LEMMA KernelMode ==
  ASSUME IInv, NEW c \in Cpus, pc[c] = "kernel"
  PROVE  /\ Locked(c) /\ OnBehalf(c)
         /\ curenv[c] \in Slots
         /\ env_status[curenv[c]] \in {"RUNNING", "DYING"}
         /\ \A d \in Cpus \ {c} : curenv[d] # curenv[c]
         /\ curenv[c] \in Idle => curenv[c] = c
         /\ env_gen[curenv[c]] >= 1
<1>1. Locked(c) /\ OnBehalf(c)
  BY Zenon DEF Locked, OnBehalf
<1>2. curenv[c] \in Slots
  BY <1>1, Zenon DEF IInv, CurInv
<1>3. env_status[curenv[c]] \in {"RUNNING", "DYING"}
  BY <1>1, <1>2, Zenon DEF IInv, RunningIffCurrent
<1> QED
  BY <1>1, <1>2, <1>3, Constants, Zenon DEF IInv, OneCpu, IdleInv, GenInv

\* The statuses as a handler finds them ...
LEMMA ReadyUnchanged ==
  ASSUME IInv, NEW c \in Cpus, Dispatch(c)
  PROVE  Ready(c, curenv[c], env_status)
<1>1. pc[c] = "kernel" /\ env_status[curenv[c]] = "RUNNING"
  BY KernelMode, Zenon DEF Dispatch
<1>2. ASSUME NEW e \in Slots
      PROVE  env_status[e] \in {"RUNNING", "DYING"} <=>
               \/ e = curenv[c] /\ env_status[e] = "RUNNING"
               \/ \E d \in Cpus \ {c} : OnBehalf(d) /\ curenv[d] = e
  BY <1>1, KernelMode, Zenon DEF IInv, RunningIffCurrent
<1> QED BY <1>1, <1>2, KernelMode, Zenon DEF IInv, TypeOK, IdleInv, Ready

\* ... and when it has changed the status of an environment e that is neither
\* its own nor an idle one, without starting or stopping it, or has marked it
\* as a zombie.
LEMMA ReadyOther ==
  ASSUME IInv, NEW c \in Cpus, Dispatch(c),
         NEW e \in Slots, e \notin Idle, e # curenv[c], NEW s \in Statuses,
         env_status[e] \in {"RUNNING", "DYING"} <=> s \in {"RUNNING", "DYING"}
  PROVE  Ready(c, curenv[c], [env_status EXCEPT ![e] = s])
<1> DEFINE st == [env_status EXCEPT ![e] = s]
<1>1. Ready(c, curenv[c], env_status)
  BY ReadyUnchanged, Zenon
<1>2. /\ st \in [Slots -> Statuses]
      /\ st[e] = s
      /\ \A x \in Slots \ {e} : st[x] = env_status[x]
  BY Zenon DEF IInv, TypeOK
<1>3. curenv[c] \in Slots
  BY KernelMode, Zenon DEF Dispatch
<1> HIDE DEF st
<1>4. ASSUME NEW x \in Slots
      PROVE  st[x] \in {"RUNNING", "DYING"} <=>
               \/ x = curenv[c] /\ st[x] = "RUNNING"
               \/ \E d \in Cpus \ {c} : OnBehalf(d) /\ curenv[d] = x
  BY <1>1, <1>2 DEF Ready
<1>5. \A x \in Idle : st[x] \in {"RUNNABLE", "RUNNING"}
  BY <1>1, <1>2, Constants DEF Ready
<1>6. Ready(c, curenv[c], st)
  BY <1>1, <1>2, <1>3, <1>4, <1>5, Zenon DEF Ready
<1> QED BY <1>6, Zenon DEF st

\* ... and when its own environment blocks or is freed.
LEMMA ReadyOwn ==
  ASSUME IInv, NEW c \in Cpus, pc[c] = "kernel", curenv[c] \notin Idle,
         NEW s \in {"FREE", "NOT_RUNNABLE"}, NEW cur \in {NoEnv, curenv[c]}
  PROVE  Ready(c, cur, [env_status EXCEPT ![curenv[c]] = s])
<1> DEFINE e == curenv[c]
           st == [env_status EXCEPT ![e] = s]
<1>1. e \in Slots /\ \A d \in Cpus \ {c} : curenv[d] # e
  BY KernelMode, Zenon
<1>2. /\ st \in [Slots -> Statuses]
      /\ st[e] = s
      /\ \A x \in Slots \ {e} : st[x] = env_status[x]
  BY <1>1, Zenon DEF IInv, TypeOK, Statuses
<1> HIDE DEF st
<1>3. ASSUME NEW x \in Slots
      PROVE  st[x] \in {"RUNNING", "DYING"} <=>
               \/ x = cur /\ st[x] = "RUNNING"
               \/ \E d \in Cpus \ {c} : OnBehalf(d) /\ curenv[d] = x
  <2>1. CASE x = e
    BY <2>1, <1>1, <1>2, Zenon
  <2>2. CASE x # e
    <3>1. x # cur
      BY <2>2, Constants, Zenon
    <3>2. env_status[x] \in {"RUNNING", "DYING"} <=>
             \E d \in Cpus \ {c} : OnBehalf(d) /\ curenv[d] = x
      BY <2>2, Zenon DEF IInv, RunningIffCurrent
    <3> QED BY <2>2, <3>1, <3>2, <1>2, Zenon
  <2> QED BY <2>1, <2>2, Zenon
<1>4. \A x \in Idle : st[x] \in {"RUNNABLE", "RUNNING"}
  BY <1>2, Constants, Zenon DEF IInv, IdleInv
<1>5. Ready(c, cur, st)
  BY <1>1, <1>2, <1>3, <1>4, Constants DEF Ready
<1> QED BY <1>5, Zenon DEF st

\* ... and for a processor that is starting.
LEMMA ReadyStart ==
  ASSUME IInv, NEW c \in Cpus, pc[c] = "sched"
  PROVE  Ready(c, NoEnv, env_status)
<1>1. ~ OnBehalf(c)
  BY Zenon DEF OnBehalf
<1>2. ASSUME NEW e \in Slots
      PROVE  env_status[e] \in {"RUNNING", "DYING"} <=>
               \/ e = NoEnv /\ env_status[e] = "RUNNING"
               \/ \E d \in Cpus \ {c} : OnBehalf(d) /\ curenv[d] = e
  BY <1>1, Constants, Zenon DEF IInv, RunningIffCurrent
<1> QED BY <1>2, Constants, Zenon DEF IInv, TypeOK, IdleInv, Ready

-----------------------------------------------------------------------------
(* From the end of a handler to the invariant.                              *)

\* What a handler owes, besides Ready, for the statuses st it computed.
Owed(c, st) ==
  /\ env_gen' \in [Slots -> 0 .. MAXGEN]
  /\ env_parent_id' \in [Slots -> EnvIds]
  /\ env_ipc_recving' \in [Slots -> BOOLEAN]
  /\ env_free_list' \in Seq(Slots)
  /\ cr3' \in [Cpus -> EnvIds]
  /\ \A e \in Slots : st[e] # "FREE" => env_gen'[e] >= 1
  /\ \A d \in Cpus \ {c} :
       /\ cr3'[d] = cr3[d]
       /\ OnBehalf(d) => env_gen'[curenv[d]] = env_gen[curenv[d]]
  /\ \A i, j \in DOMAIN env_free_list' :
       env_free_list'[i] = env_free_list'[j] => i = j
  /\ \A e \in Slots : st[e] = "FREE" <=>
       \E i \in DOMAIN env_free_list' : env_free_list'[i] = e
  /\ \A e \in Slots : env_ipc_recving'[e] /\ st[e] # "FREE" =>
       st[e] = "NOT_RUNNABLE"
  /\ \A e \in Idle : ~ env_ipc_recving'[e] /\ env_parent_id'[e] = NullId
  /\ \A e \in Idle : st[e] \in {"RUNNABLE", "RUNNING"}

\* A handler ends in env_run() or in the monitor; with what the handler owes the
\* invariant holds again.
LEMMA SettledInv ==
  ASSUME IInv, NEW c \in Cpus, NEW st, st \in [Slots -> Statuses],
         SwitchInv', Switched(c, st), Owed(c, st)
  PROVE  IInv'
<1>1. TypeOK'
  BY Zenon DEF TypeOK, Switched, Owed
<1>2. Cr3Inv'
  <2> SUFFICES ASSUME NEW d \in Cpus, pc'[d] \in {"user", "trap", "kernel"}
               PROVE  cr3'[d] = env_id(curenv[d])'
    BY Zenon DEF Cr3Inv
  <2>1. d # c /\ pc'[d] = pc[d] /\ curenv'[d] = curenv[d]
    BY Zenon DEF Switched
  <2>2. OnBehalf(d) /\ cr3[d] = env_id(curenv[d])
    BY <2>1, Zenon DEF IInv, Cr3Inv, OnBehalf
  <2> QED BY <2>1, <2>2 DEF Owed, env_id
<1>3. \A e \in Slots : env_status'[e] = "FREE" <=> st[e] = "FREE"
  BY Zenon DEF Switched, Kept
<1>4. GenInv' /\ FreeListExact'
  BY <1>3, Zenon DEF Owed, GenInv, FreeListExact
<1>5. ReceiverBlocked'
  <2> SUFFICES ASSUME NEW e \in Slots, env_ipc_recving'[e], env_status'[e] # "FREE"
               PROVE  env_status'[e] = "NOT_RUNNABLE"
    BY Zenon DEF ReceiverBlocked
  <2>1. st[e] # "FREE"
    BY <1>3, Zenon
  <2>2. st[e] = "NOT_RUNNABLE"
    BY <2>1, Zenon DEF Owed
  <2> QED BY <2>2, Zenon DEF Switched, Kept
<1>6. IdleInv'
  <2>1. \A e \in Idle : env_status'[e] \in {"RUNNABLE", "RUNNING"}
    BY Constants, Zenon DEF Owed, Switched, Kept
  <2> QED BY <2>1, Zenon DEF Owed, IdleInv, SwitchInv
<1> QED BY <1>1, <1>2, <1>4, <1>5, <1>6, Zenon DEF IInv, SwitchInv

\* A handler that only switches owes nothing more.
LEMMA OwedUnchanged ==
  ASSUME IInv, NEW c \in Cpus,
         UNCHANGED <<env_gen, env_parent_id, env_ipc_recving, env_free_list, cr3>>
  PROVE  Owed(c, env_status)
BY Zenon DEF IInv, TypeOK, GenInv, FreeListExact, ReceiverBlocked, IdleInv, Owed

-----------------------------------------------------------------------------
(* The actions.                                                             *)

\* The invariant holds when the boot processor has created the environments and
\* starts to schedule (the end of i386_init()).
THEOREM InitIInv == Init => IInv
<1> SUFFICES ASSUME Init PROVE IInv
  BY Zenon
<1> USE ConstantsAssumption, Constants DEF Init
<1>1. TypeOK
  <2>1. env_free_list \in Seq(Slots)
    BY DEF Slots
  <2>2. curenv \in [Cpus -> Slots \cup {NoEnv}] /\ cr3 \in [Cpus -> EnvIds]
    BY Zenon DEF KernPgdir
  <2>3. kernel_lock \in Cpus \cup {NoCpu}
    BY DEF Cpus
  <2>4. env_gen \in [Slots -> 0 .. MAXGEN]
    OBVIOUS
  <2> QED BY <2>1, <2>2, <2>3, <2>4, Zenon DEF TypeOK, Statuses, Modes
<1>2. LockInv
  BY Zenon DEF LockInv, Locked, Cpus
<1>3. CurInv /\ OneCpu /\ Cr3Inv
  BY Zenon DEF CurInv, OneCpu, Cr3Inv, OnBehalf
<1>4. RunningIffCurrent
  BY Zenon DEF RunningIffCurrent, OnBehalf
<1>5. IdleInv /\ GenInv
  BY DEF IdleInv, GenInv, Idle, Slots, NoEnv
<1>6. FreeListExact
  <2>1. DOMAIN env_free_list = 1 .. NENV - (NCPU + NUSER)
    BY Zenon
  <2>2. \A i, j \in DOMAIN env_free_list :
          env_free_list[i] = env_free_list[j] => i = j
    BY <2>1
  <2>3. ASSUME NEW e \in Slots
        PROVE  env_status[e] = "FREE" <=>
                 \E i \in DOMAIN env_free_list : env_free_list[i] = e
    <3>1. ASSUME env_status[e] = "FREE"
          PROVE  \E i \in DOMAIN env_free_list : env_free_list[i] = e
      <4>1. e - (NCPU + NUSER) + 1 \in 1 .. NENV - (NCPU + NUSER)
        BY <3>1 DEF Slots
      <4>2. env_free_list[e - (NCPU + NUSER) + 1] = e
        BY <4>1 DEF Slots
      <4> QED BY <4>1, <4>2, <2>1, Zenon
    <3>2. ASSUME NEW i \in DOMAIN env_free_list, env_free_list[i] = e
          PROVE  env_status[e] = "FREE"
      BY <3>2, <2>1 DEF Slots
    <3> QED BY <3>1, <3>2, Zenon
  <2> QED BY <2>2, <2>3, Zenon DEF FreeListExact
<1>7. ReceiverBlocked /\ IdleAvailable /\ MonitorMeansDone
  BY Zenon DEF ReceiverBlocked, IdleAvailable, MonitorMeansDone
<1> QED BY <1>1, <1>2, <1>3, <1>4, <1>5, <1>6, <1>7, Zenon DEF IInv

\* lock_kernel(): only one processor gets in.
LEMMA LockInvariant ==
  ASSUME IInv, NEW c \in Cpus, Lock(c)
  PROVE  IInv'
<1> USE DEF Lock
<1>1. /\ pc[c] \in {"mp_main", "trap"}
      /\ pc' \in [Cpus -> Modes]
      /\ pc'[c] = IF pc[c] = "mp_main" THEN "sched" ELSE "kernel"
      /\ \A d \in Cpus \ {c} : pc'[d] = pc[d]
  BY Zenon DEF IInv, TypeOK, Modes
<1>2. TypeOK'
  BY <1>1, Zenon DEF IInv, TypeOK
<1>3. LockInv'
  BY <1>1, Constants, Zenon DEF IInv, LockInv, Locked
<1>4. CurInv' /\ OneCpu' /\ IdleInv'
  BY <1>1 DEF IInv, CurInv, OneCpu, IdleInv, OnBehalf
<1>5. \A d \in Cpus : OnBehalf(d)' <=> OnBehalf(d)
  BY <1>1, Zenon DEF OnBehalf
<1>6. RunningIffCurrent'
  BY <1>5, Zenon DEF IInv, RunningIffCurrent
<1>7. Cr3Inv' /\ GenInv' /\ FreeListExact' /\ ReceiverBlocked'
  BY <1>1 DEF IInv, Cr3Inv, GenInv, FreeListExact, ReceiverBlocked, env_id
<1>8. IdleAvailable' /\ MonitorMeansDone'
  BY <1>1, Zenon DEF IInv, IdleAvailable, MonitorMeansDone
<1> QED BY <1>2, <1>3, <1>4, <1>6, <1>7, <1>8, Zenon DEF IInv

\* The unlocked tail of env_run() and the way back into trap(), outside the lock.
LEMMA OutsideInvariant ==
  ASSUME IInv, NEW c \in Cpus, PopTf(c) \/ Trap(c)
  PROVE  IInv'
<1> DEFINE m == IF pc[c] = "exit" THEN "user" ELSE "trap"
<1>1. /\ pc[c] \in {"exit", "user"}
      /\ pc' \in [Cpus -> Modes]
      /\ pc'[c] = m
      /\ \A d \in Cpus \ {c} : pc'[d] = pc[d]
      /\ \A d \in Cpus \ {c} : cr3'[d] = cr3[d]
      /\ UNCHANGED <<env_status, env_gen, env_parent_id, env_ipc_recving,
                     env_free_list, curenv, kernel_lock>>
  BY Zenon DEF PopTf, Trap, IInv, TypeOK, Modes
<1>2. curenv[c] \in Slots
  BY <1>1, Zenon DEF IInv, CurInv, OnBehalf
<1>3. cr3' \in [Cpus -> EnvIds] /\ cr3'[c] = env_id(curenv[c])
  <2>1. env_id(curenv[c]) \in EnvIds
    BY <1>2, Zenon DEF env_id, EnvIds, IInv, TypeOK
  <2>2. cr3 \in [Cpus -> EnvIds]
    BY Zenon DEF IInv, TypeOK
  <2>3. CASE PopTf(c)
    BY <2>1, <2>2, <2>3, Zenon DEF PopTf
  <2>4. CASE Trap(c)
    <3>1. cr3' = cr3 /\ pc[c] = "user"
      BY <2>4, Zenon DEF Trap
    <3>2. cr3[c] = env_id(curenv[c])
      BY <3>1, Zenon DEF IInv, Cr3Inv
    <3> QED BY <2>2, <3>1, <3>2, Zenon
  <2> QED BY <2>3, <2>4, Zenon
<1>4. TypeOK'
  BY <1>1, <1>3, Zenon DEF IInv, TypeOK
<1>5. LockInv' /\ CurInv' /\ OneCpu' /\ IdleInv'
  BY <1>1 DEF IInv, LockInv, Locked, CurInv, OneCpu, IdleInv, OnBehalf
<1>6. \A d \in Cpus : OnBehalf(d)' <=> OnBehalf(d)
  BY <1>1, Zenon DEF OnBehalf
<1>7. RunningIffCurrent'
  BY <1>1, <1>6, Zenon DEF IInv, RunningIffCurrent
<1>8. Cr3Inv'
  BY <1>1, <1>3, Zenon DEF IInv, Cr3Inv, env_id
<1>9. GenInv' /\ FreeListExact' /\ ReceiverBlocked'
  BY <1>1 DEF IInv, GenInv, FreeListExact, ReceiverBlocked
<1>10. IdleAvailable' /\ MonitorMeansDone'
  BY <1>1, Zenon DEF IInv, IdleAvailable, MonitorMeansDone
<1> QED BY <1>4, <1>5, <1>7, <1>8, <1>9, <1>10, Zenon DEF IInv

\* Start, Yield and Nop change nothing but who runs.
LEMMA SwitchingInvariant ==
  ASSUME IInv, NEW c \in Cpus, Start(c) \/ Yield(c) \/ Nop(c)
  PROVE  IInv'
<1>1. Owed(c, env_status) /\ env_status \in [Slots -> Statuses]
  BY OwedUnchanged, Zenon DEF Start, Yield, Nop, IInv, TypeOK
<1>2. SwitchInv' /\ Switched(c, env_status)
  <2>1. CASE Start(c)
    BY <2>1, ReadyStart, SchedYieldSwitches, Zenon DEF Start, Locked
  <2>2. CASE Yield(c)
    BY <2>2, ReadyUnchanged, KernelMode, SchedYieldSwitches, Zenon DEF Yield, Dispatch
  <2>3. CASE Nop(c)
    BY <2>3, ReadyUnchanged, KernelMode, TrapReturnSwitches, Zenon DEF Nop, Dispatch
  <2> QED BY <2>1, <2>2, <2>3, Zenon
<1> QED BY <1>1, <1>2, SettledInv, Zenon


\* A user environment never gets past envid2env()'s permission check with the
\* envid of an idle environment, because those have no parent.
LEMMA PermittedNotIdle ==
  ASSUME IInv, NEW c \in Cpus, pc[c] = "kernel", curenv[c] \notin Idle,
         NEW id \in EnvIds, NEW e \in Slots, EnvId2Env(c, id, TRUE, e)
  PROVE  e \notin Idle
<1>1. env_id(curenv[c]) # NullId
  BY KernelMode DEF env_id, NullId, IInv, TypeOK
<1>2. e \in Idle => env_parent_id[e] = NullId
  BY Zenon DEF IInv, IdleInv
<1> QED BY <1>1, <1>2, Zenon DEF EnvId2Env

\* The free list after env_free(e) of an environment that was in use.
LEMMA OwedFree ==
  ASSUME IInv, NEW c \in Cpus, NEW e \in Slots, e \notin Idle,
         env_status[e] # "FREE", EnvFree(c, e)
  PROVE  Owed(c, Freed(e))
<1> DEFINE st == Freed(e)
<1> USE DEF EnvFree
<1>1. /\ st \in [Slots -> Statuses]
      /\ st[e] = "FREE"
      /\ \A x \in Slots \ {e} : st[x] = env_status[x]
  BY Zenon DEF Freed, IInv, TypeOK, Statuses
<1> HIDE DEF st
<1>2. /\ env_free_list \in Seq(Slots)
      /\ env_free_list' \in Seq(Slots)
      /\ Len(env_free_list') = Len(env_free_list) + 1
      /\ DOMAIN env_free_list = 1 .. Len(env_free_list)
      /\ DOMAIN env_free_list' = 1 .. Len(env_free_list')
      /\ env_free_list'[1] = e
      /\ \A i \in 2 .. Len(env_free_list') :
           i - 1 \in DOMAIN env_free_list /\ env_free_list'[i] = env_free_list[i - 1]
  BY DEF IInv, TypeOK
<1>3. \A i \in DOMAIN env_free_list : env_free_list[i] # e
  BY Zenon DEF IInv, FreeListExact
<1>4. \A i, j \in DOMAIN env_free_list' :
        env_free_list'[i] = env_free_list'[j] => i = j
  <2> SUFFICES ASSUME NEW i \in DOMAIN env_free_list', NEW j \in DOMAIN env_free_list',
                      env_free_list'[i] = env_free_list'[j]
               PROVE  i = j
    BY Zenon
  <2>1. CASE i = 1 \/ j = 1
    BY <2>1, <1>2, <1>3
  <2>2. CASE i # 1 /\ j # 1
    <3>1. i - 1 = j - 1
      BY <2>2, <1>2 DEF IInv, FreeListExact
    <3> QED BY <3>1, <1>2
  <2> QED BY <2>1, <2>2, Zenon
<1>5. ASSUME NEW x \in Slots
      PROVE  st[x] = "FREE" <=> \E i \in DOMAIN env_free_list' : env_free_list'[i] = x
  <2>1. CASE x = e
    <3>1. 1 \in DOMAIN env_free_list'
      BY <1>2
    <3> QED BY <2>1, <1>1, <1>2, <3>1, Zenon
  <2>2. CASE x # e
    <3>1. ASSUME NEW i \in DOMAIN env_free_list, env_free_list[i] = x
          PROVE  i + 1 \in DOMAIN env_free_list' /\ env_free_list'[i + 1] = x
      BY <3>1, <1>2
    <3>2. ASSUME NEW i \in DOMAIN env_free_list', env_free_list'[i] = x
          PROVE  i - 1 \in DOMAIN env_free_list /\ env_free_list[i - 1] = x
      BY <3>2, <2>2, <1>2
    <3>3. (\E i \in DOMAIN env_free_list : env_free_list[i] = x) <=>
            (\E i \in DOMAIN env_free_list' : env_free_list'[i] = x)
      BY <3>1, <3>2, Zenon
    <3> QED BY <3>3, <2>2, <1>1 DEF IInv, FreeListExact
  <2> QED BY <2>1, <2>2, Zenon
<1>6. cr3' \in [Cpus -> EnvIds] /\ \A d \in Cpus \ {c} : cr3'[d] = cr3[d]
  BY Constants, Zenon DEF IInv, TypeOK, KernPgdir
<1>7. \A x \in Slots : st[x] # "FREE" => env_gen'[x] >= 1
  BY <1>1, Zenon DEF IInv, GenInv
<1>8. ASSUME NEW x \in Slots, env_ipc_recving'[x], st[x] # "FREE"
      PROVE  st[x] = "NOT_RUNNABLE"
  BY <1>8, <1>1, Zenon DEF IInv, ReceiverBlocked
<1>9. \A x \in Idle : /\ ~ env_ipc_recving'[x] /\ env_parent_id'[x] = NullId
                      /\ st[x] \in {"RUNNABLE", "RUNNING"}
  BY <1>1, Constants, Zenon DEF IInv, IdleInv
<1>10. Owed(c, st)
  BY <1>2, <1>4, <1>5, <1>6, <1>7, <1>8, <1>9, Zenon DEF Owed, IInv, TypeOK
<1> QED BY <1>10, Zenon DEF st

\* env_destroy(), of oneself and of another environment.
LEMMA DestroyInvariant ==
  ASSUME IInv, NEW c \in Cpus, Dispatch(c), curenv[c] \notin Idle,
         NEW e \in Slots, e \notin Idle, env_status[e] \notin {"FREE", "DYING"},
         EnvDestroy(c, e)
  PROVE  IInv'
<1>1. pc[c] = "kernel" /\ Locked(c) /\ curenv[c] \in Slots
  BY KernelMode, Zenon DEF Dispatch
<1>2. CASE /\ env_status[e] = "RUNNING" /\ e # curenv[c]
           /\ TrapReturn(c, [env_status EXCEPT ![e] = "DYING"])
           /\ UNCHANGED <<env_gen, env_parent_id, env_ipc_recving, env_free_list, cr3>>
  <2> DEFINE st == [env_status EXCEPT ![e] = "DYING"]
  <2>1. Ready(c, curenv[c], st)
    BY <1>2, ReadyOther, Zenon DEF Statuses
  <2>2. /\ st \in [Slots -> Statuses]
        /\ st[e] = "DYING"
        /\ \A x \in Slots \ {e} : st[x] = env_status[x]
    BY Zenon DEF IInv, TypeOK, Statuses
  <2>3. SwitchInv' /\ Switched(c, st)
    BY <1>1, <1>2, <2>1, TrapReturnSwitches, Zenon
  <2> HIDE DEF st
  <2>4. \A x \in Slots : st[x] = "FREE" <=> env_status[x] = "FREE"
    BY <1>2, <2>2, Zenon
  <2>5. ASSUME NEW x \in Slots, env_ipc_recving'[x], st[x] # "FREE"
        PROVE  st[x] = "NOT_RUNNABLE"
    BY <2>5, <1>2, <2>2, <2>4, Zenon DEF IInv, ReceiverBlocked
  <2>6. \A x \in Idle : st[x] \in {"RUNNABLE", "RUNNING"}
    BY <2>1, Zenon DEF Ready
  <2>7. Owed(c, st)
    <3>1. UNCHANGED <<env_gen, env_parent_id, env_ipc_recving, env_free_list, cr3>>
      BY <1>2, Zenon
    <3>2. /\ env_gen' \in [Slots -> 0 .. MAXGEN]
          /\ env_parent_id' \in [Slots -> EnvIds]
          /\ env_ipc_recving' \in [Slots -> BOOLEAN]
          /\ env_free_list' \in Seq(Slots)
          /\ cr3' \in [Cpus -> EnvIds]
      BY <3>1, Zenon DEF IInv, TypeOK
    <3>3. \A x \in Slots : st[x] # "FREE" => env_gen'[x] >= 1
      BY <3>1, <2>4, Zenon DEF IInv, GenInv
    <3>4. \A i, j \in DOMAIN env_free_list' :
            env_free_list'[i] = env_free_list'[j] => i = j
      BY <3>1, Zenon DEF IInv, FreeListExact
    <3>5. \A x \in Slots : st[x] = "FREE" <=>
            \E i \in DOMAIN env_free_list' : env_free_list'[i] = x
      BY <3>1, <2>4, Zenon DEF IInv, FreeListExact
    <3>6. \A x \in Slots : env_ipc_recving'[x] /\ st[x] # "FREE" =>
            st[x] = "NOT_RUNNABLE"
      BY <2>5, Zenon
    <3>7. \A d \in Cpus : cr3'[d] = cr3[d] /\ env_gen'[curenv[d]] = env_gen[curenv[d]]
      BY <3>1, Zenon
    <3>8. \A x \in Idle : ~ env_ipc_recving'[x] /\ env_parent_id'[x] = NullId
      BY <3>1, Zenon DEF IInv, IdleInv
    <3> QED BY <3>2, <3>3, <3>4, <3>5, <3>6, <3>7, <3>8, <2>6, Zenon DEF Owed
  <2> QED BY <2>2, <2>3, <2>7, SettledInv, Zenon
<1>3. CASE e = curenv[c] /\ EnvFree(c, e) /\ SchedYield(c, NoEnv, Freed(e))
  <2>1. Ready(c, NoEnv, Freed(e))
    BY <1>1, <1>3, ReadyOwn, Zenon DEF Freed
  <2>2. SwitchInv' /\ Switched(c, Freed(e))
    BY <1>1, <1>3, <2>1, SchedYieldSwitches, Zenon
  <2> QED BY <1>3, <2>1, <2>2, OwedFree, SettledInv, Zenon DEF Ready
<1>4. CASE /\ env_status[e] # "RUNNING" /\ e # curenv[c]
           /\ EnvFree(c, e) /\ TrapReturn(c, Freed(e))
  <2>1. Ready(c, curenv[c], Freed(e))
    BY <1>4, ReadyOther, Zenon DEF Statuses, Freed
  <2>2. SwitchInv' /\ Switched(c, Freed(e))
    BY <1>1, <1>4, <2>1, TrapReturnSwitches, Zenon
  <2> QED BY <1>4, <2>1, <2>2, OwedFree, SettledInv, Zenon DEF Ready
<1> QED BY <1>2, <1>3, <1>4, Zenon DEF EnvDestroy


\* trap() frees the zombie it finds.
LEMMA ReapInvariant ==
  ASSUME IInv, NEW c \in Cpus, Reap(c)
  PROVE  IInv'
<1> DEFINE e == curenv[c]
<1>1. /\ pc[c] = "kernel" /\ env_status[e] = "DYING"
      /\ EnvFree(c, e) /\ SchedYield(c, NoEnv, Freed(e))
  BY Zenon DEF Reap
<1>2. Locked(c) /\ e \in Slots /\ e \notin Idle
  BY <1>1, KernelMode, Zenon DEF IInv, IdleInv
<1>3. Ready(c, NoEnv, Freed(e))
  BY <1>1, <1>2, ReadyOwn, Zenon DEF Freed
<1>4. SwitchInv' /\ Switched(c, Freed(e))
  BY <1>1, <1>2, <1>3, SchedYieldSwitches, Zenon
<1>5. Owed(c, Freed(e))
  BY <1>1, <1>2, OwedFree, Zenon
<1> QED BY <1>3, <1>4, <1>5, SettledInv, Zenon DEF Ready

\* sys_env_destroy() of the caller or of one of its children.
LEMMA SysEnvDestroyInvariant ==
  ASSUME LibraryCalls, IInv, NEW c \in Cpus, SysEnvDestroy(c) \/ Fault(c)
  PROVE  IInv'
<1>1. /\ Dispatch(c) /\ pc[c] = "kernel" /\ curenv[c] \notin Idle
      /\ curenv[c] \in Slots /\ env_status[curenv[c]] = "RUNNING"
  BY KernelMode, Zenon DEF SysEnvDestroy, Fault, Call, Dispatch
<1>2. CASE SysEnvDestroy(c)
  <2>1. PICK id \in EnvIds, e \in Slots :
          EnvId2Env(c, id, TRUE, e) /\ env_status[e] # "DYING" /\ EnvDestroy(c, e)
    BY <1>2, OrdinaryCalls, Zenon DEF SysEnvDestroy
  <2>2. e \notin Idle
    BY <1>1, <2>1, PermittedNotIdle, Zenon
  <2>3. env_status[e] # "FREE"
    BY <1>1, <2>1, Zenon DEF EnvId2Env
  <2> QED BY <1>1, <2>1, <2>2, <2>3, DestroyInvariant, Zenon
<1>3. CASE Fault(c)
  BY <1>1, <1>3, DestroyInvariant, Zenon DEF Fault
<1> QED BY <1>2, <1>3, Zenon

\* sys_exofork(): the slot at the head of the free list belongs to nobody.
LEMMA SysExoforkInvariant ==
  ASSUME IInv, NEW c \in Cpus, SysExofork(c)
  PROVE  IInv'
<1> DEFINE e  == Head(env_free_list)
           st == [env_status EXCEPT ![e] = "NOT_RUNNABLE"]
<1>1. /\ Dispatch(c) /\ pc[c] = "kernel" /\ Locked(c) /\ curenv[c] \notin Idle
      /\ curenv[c] \in Slots /\ env_status[curenv[c]] = "RUNNING"
  BY KernelMode, Zenon DEF SysExofork, Call, Dispatch
<1>2. /\ env_free_list \in Seq(Slots) /\ env_free_list # << >>
      /\ DOMAIN env_free_list = 1 .. Len(env_free_list)
      /\ Len(env_free_list) >= 1
      /\ e = env_free_list[1] /\ e \in Slots
      /\ Tail(env_free_list) \in Seq(Slots)
      /\ DOMAIN Tail(env_free_list) = 1 .. Len(env_free_list) - 1
      /\ \A i \in 1 .. Len(env_free_list) - 1 :
           Tail(env_free_list)[i] = env_free_list[i + 1]
  BY DEF SysExofork, IInv, TypeOK
<1>3. /\ env_gen' = [env_gen EXCEPT ![e] = NextGeneration(@)]
      /\ env_parent_id' = [env_parent_id EXCEPT ![e] = env_id(curenv[c])]
      /\ env_ipc_recving' = [env_ipc_recving EXCEPT ![e] = FALSE]
      /\ env_free_list' = Tail(env_free_list)
      /\ TrapReturn(c, st)
      /\ cr3' = cr3
  BY Zenon DEF SysExofork, EnvAlloc
<1> HIDE DEF e
<1>4. env_status[e] = "FREE" /\ e # curenv[c] /\ e \notin Idle
  BY <1>1, <1>2 DEF IInv, FreeListExact, IdleInv
<1>5. Ready(c, curenv[c], st)
  BY <1>1, <1>2, <1>4, ReadyOther, Zenon DEF Statuses
<1>6. SwitchInv' /\ Switched(c, st)
  BY <1>1, <1>3, <1>5, TrapReturnSwitches, Zenon
<1>7. /\ st \in [Slots -> Statuses]
      /\ st[e] = "NOT_RUNNABLE"
      /\ \A x \in Slots \ {e} : st[x] = env_status[x]
  BY <1>2, Zenon DEF IInv, TypeOK, Statuses
<1> HIDE DEF st
<1>8. /\ env_gen' \in [Slots -> 0 .. MAXGEN]
      /\ env_gen'[e] >= 1
      /\ \A x \in Slots \ {e} : env_gen'[x] = env_gen[x]
  <2>1. NextGeneration(env_gen[e]) \in 1 .. MAXGEN
    BY <1>2, ConstantsAssumption DEF NextGeneration, IInv, TypeOK
  <2> QED BY <2>1, <1>2, <1>3, ConstantsAssumption DEF IInv, TypeOK
<1>9. /\ env_parent_id' \in [Slots -> EnvIds]
      /\ \A x \in Slots \ {e} : env_parent_id'[x] = env_parent_id[x]
  <2>1. env_id(curenv[c]) \in EnvIds
    BY <1>1, Zenon DEF env_id, EnvIds, IInv, TypeOK
  <2> QED BY <2>1, <1>2, <1>3, Zenon DEF IInv, TypeOK
<1>10. /\ env_ipc_recving' \in [Slots -> BOOLEAN]
       /\ ~ env_ipc_recving'[e]
       /\ \A x \in Slots \ {e} : env_ipc_recving'[x] = env_ipc_recving[x]
  BY <1>2, <1>3, Zenon DEF IInv, TypeOK
<1>11. \A i, j \in DOMAIN env_free_list' :
         env_free_list'[i] = env_free_list'[j] => i = j
  <2> SUFFICES ASSUME NEW i \in DOMAIN env_free_list', NEW j \in DOMAIN env_free_list',
                      env_free_list'[i] = env_free_list'[j]
               PROVE  i = j
    BY Zenon
  <2>1. /\ i + 1 \in DOMAIN env_free_list /\ j + 1 \in DOMAIN env_free_list
        /\ env_free_list[i + 1] = env_free_list[j + 1]
        /\ i \in Nat /\ j \in Nat
    BY <1>2, <1>3
  <2>2. i + 1 = j + 1
    BY <2>1 DEF IInv, FreeListExact
  <2> QED BY <2>1, <2>2
<1>12. ASSUME NEW x \in Slots
       PROVE  st[x] = "FREE" <=> \E i \in DOMAIN env_free_list' : env_free_list'[i] = x
  <2>1. CASE x = e
    <3>1. ASSUME NEW i \in 1 .. Len(env_free_list) - 1 PROVE env_free_list[i + 1] # e
      <4>1. i + 1 \in DOMAIN env_free_list /\ i + 1 # 1 /\ 1 \in DOMAIN env_free_list
        BY <1>2
      <4> QED BY <4>1, <1>2, Zenon DEF IInv, FreeListExact
    <3> QED BY <2>1, <3>1, <1>2, <1>3, <1>7
  <2>2. CASE x # e
    <3>1. ASSUME NEW i \in DOMAIN env_free_list, env_free_list[i] = x
          PROVE  i - 1 \in DOMAIN env_free_list' /\ env_free_list'[i - 1] = x
      BY <3>1, <2>2, <1>2, <1>3
    <3>2. ASSUME NEW i \in DOMAIN env_free_list', env_free_list'[i] = x
          PROVE  i + 1 \in DOMAIN env_free_list /\ env_free_list[i + 1] = x
      BY <3>2, <1>2, <1>3
    <3>3. (\E i \in DOMAIN env_free_list : env_free_list[i] = x) <=>
            (\E i \in DOMAIN env_free_list' : env_free_list'[i] = x)
      BY <3>1, <3>2, Zenon
    <3> QED BY <3>3, <2>2, <1>7, Zenon DEF IInv, FreeListExact
  <2> QED BY <2>1, <2>2, Zenon
<1>13. ASSUME NEW x \in Slots, env_ipc_recving'[x], st[x] # "FREE"
       PROVE  st[x] = "NOT_RUNNABLE"
  <2>1. x # e
    BY <1>13, <1>10, Zenon
  <2>2. env_ipc_recving[x] /\ env_status[x] # "FREE"
    BY <2>1, <1>13, <1>7, <1>10, Zenon
  <2> QED BY <2>1, <2>2, <1>7, Zenon DEF IInv, ReceiverBlocked
<1>14. \A x \in Idle : /\ ~ env_ipc_recving'[x] /\ env_parent_id'[x] = NullId
                       /\ st[x] \in {"RUNNABLE", "RUNNING"}
  BY <1>4, <1>7, <1>9, <1>10, Constants, Zenon DEF IInv, IdleInv
<1>15. \A d \in Cpus : OnBehalf(d) => curenv[d] \in Slots \ {e}
  BY <1>4, Zenon DEF IInv, CurInv, RunningIffCurrent
<1>16. \A x \in Slots : st[x] # "FREE" => env_gen'[x] >= 1
  BY <1>7, <1>8, Zenon DEF IInv, GenInv
<1>17. Owed(c, st)
  BY <1>2, <1>3, <1>8, <1>9, <1>10, <1>11, <1>12, <1>13, <1>14, <1>15, <1>16
  DEF Owed, IInv, TypeOK
<1> QED BY <1>6, <1>7, <1>17, SettledInv, Zenon


\* A handler that changes env_status and env_ipc_recving of one environment e
\* in use, and leaves it blocked if it receives.
LEMMA OwedOne ==
  ASSUME IInv, NEW c \in Cpus, NEW e \in Slots, e \notin Idle,
         env_status[e] # "FREE", NEW s \in Statuses, s # "FREE", NEW b \in BOOLEAN,
         b => s = "NOT_RUNNABLE",
         env_ipc_recving' = [env_ipc_recving EXCEPT ![e] = b],
         UNCHANGED <<env_gen, env_parent_id, env_free_list, cr3>>
  PROVE  /\ Owed(c, [env_status EXCEPT ![e] = s])
         /\ [env_status EXCEPT ![e] = s] \in [Slots -> Statuses]
<1> DEFINE st == [env_status EXCEPT ![e] = s]
<1>1. /\ st \in [Slots -> Statuses]
      /\ st[e] = s
      /\ \A x \in Slots \ {e} : st[x] = env_status[x]
  BY Zenon DEF IInv, TypeOK
<1>2. /\ env_ipc_recving' \in [Slots -> BOOLEAN]
      /\ env_ipc_recving'[e] = b
      /\ \A x \in Slots \ {e} : env_ipc_recving'[x] = env_ipc_recving[x]
  BY Zenon DEF IInv, TypeOK
<1> HIDE DEF st
<1>3. \A x \in Slots : st[x] = "FREE" <=> env_status[x] = "FREE"
  BY <1>1, Zenon
<1>4. ASSUME NEW x \in Slots, env_ipc_recving'[x], st[x] # "FREE"
      PROVE  st[x] = "NOT_RUNNABLE"
  <2>1. CASE x = e
    BY <2>1, <1>4, <1>1, <1>2, Zenon
  <2>2. CASE x # e
    <3>1. env_ipc_recving[x] /\ env_status[x] # "FREE"
      BY <2>2, <1>4, <1>2, <1>3, Zenon
    <3> QED BY <2>2, <3>1, <1>1, Zenon DEF IInv, ReceiverBlocked
  <2> QED BY <2>1, <2>2, Zenon
<1>5. \A x \in Idle : /\ ~ env_ipc_recving'[x] /\ env_parent_id'[x] = NullId
                      /\ st[x] \in {"RUNNABLE", "RUNNING"}
  BY <1>1, <1>2, Constants, Zenon DEF IInv, IdleInv
<1>6. \A x \in Slots : st[x] = "FREE" <=>
        \E i \in DOMAIN env_free_list' : env_free_list'[i] = x
  BY <1>3, Zenon DEF IInv, FreeListExact
<1>7. \A i, j \in DOMAIN env_free_list' :
        env_free_list'[i] = env_free_list'[j] => i = j
  BY Zenon DEF IInv, FreeListExact
<1>8. \A x \in Slots : st[x] # "FREE" => env_gen'[x] >= 1
  BY <1>3, Zenon DEF IInv, GenInv
<1>9. Owed(c, st)
  BY <1>2, <1>4, <1>5, <1>6, <1>7, <1>8, Zenon DEF IInv, TypeOK, Owed
<1> QED BY <1>1, <1>9, Zenon DEF st

\* sys_env_set_status() of a child that was just built.
LEMMA SysEnvSetStatusInvariant ==
  ASSUME LibraryCalls, IInv, NEW c \in Cpus, SysEnvSetStatus(c)
  PROVE  IInv'
<1>1. /\ Dispatch(c) /\ pc[c] = "kernel" /\ Locked(c) /\ curenv[c] \notin Idle
      /\ curenv[c] \in Slots /\ env_status[curenv[c]] = "RUNNING"
  BY KernelMode, Zenon DEF SysEnvSetStatus, Call, Dispatch
<1>2. PICK id \in EnvIds, e \in Slots :
        /\ EnvId2Env(c, id, TRUE, e)
        /\ env_status[e] = "NOT_RUNNABLE"
        /\ ~ env_ipc_recving[e]
        /\ TrapReturn(c, [env_status EXCEPT ![e] = "RUNNABLE"])
  BY OrdinaryCalls, Zenon DEF SysEnvSetStatus, Starts
<1> DEFINE st == [env_status EXCEPT ![e] = "RUNNABLE"]
<1>3. e \notin Idle /\ e # curenv[c]
  BY <1>1, <1>2, PermittedNotIdle, Zenon
<1>4. Ready(c, curenv[c], st)
  BY <1>1, <1>2, <1>3, ReadyOther, Zenon DEF Statuses
<1>5. TrapReturn(c, st)
      /\ UNCHANGED <<env_gen, env_parent_id, env_ipc_recving, env_free_list, cr3>>
  BY <1>2, Zenon DEF SysEnvSetStatus
<1>6. SwitchInv' /\ Switched(c, st)
  BY <1>1, <1>4, <1>5, TrapReturnSwitches, Zenon
<1>7. env_ipc_recving' = [env_ipc_recving EXCEPT ![e] = FALSE]
  BY <1>2, <1>5, Zenon DEF IInv, TypeOK
<1>8. Owed(c, st) /\ st \in [Slots -> Statuses]
  BY <1>2, <1>3, <1>5, <1>7, OwedOne, Zenon DEF Statuses
<1> QED BY <1>6, <1>8, SettledInv, Zenon

\* sys_ipc_try_send(): the receiver is blocked, so it is on no processor.
LEMMA SysIpcTrySendInvariant ==
  ASSUME IInv, NEW c \in Cpus, SysIpcTrySend(c)
  PROVE  IInv'
<1>1. /\ Dispatch(c) /\ pc[c] = "kernel" /\ Locked(c) /\ curenv[c] \notin Idle
      /\ curenv[c] \in Slots /\ env_status[curenv[c]] = "RUNNING"
  BY KernelMode, Zenon DEF SysIpcTrySend, Call, Dispatch
<1>2. PICK id \in EnvIds, e \in Slots :
        /\ EnvId2Env(c, id, FALSE, e)
        /\ env_ipc_recving[e]
        /\ env_ipc_recving' = [env_ipc_recving EXCEPT ![e] = FALSE]
        /\ TrapReturn(c, [env_status EXCEPT ![e] = "RUNNABLE"])
  BY Zenon DEF SysIpcTrySend
<1> DEFINE st == [env_status EXCEPT ![e] = "RUNNABLE"]
<1>3. env_status[e] # "FREE"
  BY <1>1, <1>2, Zenon DEF EnvId2Env
<1>4. env_status[e] = "NOT_RUNNABLE" /\ e # curenv[c] /\ e \notin Idle
  BY <1>1, <1>2, <1>3, Zenon DEF IInv, ReceiverBlocked, IdleInv
<1>5. Ready(c, curenv[c], st)
  BY <1>1, <1>4, ReadyOther, Zenon DEF Statuses
<1>6. SwitchInv' /\ Switched(c, st)
  BY <1>1, <1>2, <1>5, TrapReturnSwitches, Zenon
<1>7. UNCHANGED <<env_gen, env_parent_id, env_free_list, cr3>>
  BY Zenon DEF SysIpcTrySend
<1>8. Owed(c, st) /\ st \in [Slots -> Statuses]
  BY <1>2, <1>4, <1>7, OwedOne, Zenon DEF Statuses
<1> QED BY <1>6, <1>8, SettledInv, Zenon

\* sys_ipc_recv(): the caller blocks and gives up its processor.
LEMMA SysIpcRecvInvariant ==
  ASSUME IInv, NEW c \in Cpus, SysIpcRecv(c)
  PROVE  IInv'
<1> DEFINE e  == curenv[c]
           st == [env_status EXCEPT ![e] = "NOT_RUNNABLE"]
<1>1. /\ pc[c] = "kernel" /\ Locked(c) /\ e \notin Idle
      /\ e \in Slots /\ env_status[e] = "RUNNING"
  BY KernelMode, Zenon DEF SysIpcRecv, Call, Dispatch
<1>2. /\ env_ipc_recving' = [env_ipc_recving EXCEPT ![e] = TRUE]
      /\ SchedYield(c, e, st)
      /\ UNCHANGED <<env_gen, env_parent_id, env_free_list, cr3>>
  BY Zenon DEF SysIpcRecv
<1>3. Ready(c, e, st)
  BY <1>1, ReadyOwn, Zenon
<1>4. SwitchInv' /\ Switched(c, st)
  BY <1>1, <1>2, <1>3, SchedYieldSwitches, Zenon
<1>5. Owed(c, st) /\ st \in [Slots -> Statuses]
  BY <1>1, <1>2, OwedOne, Zenon DEF Statuses
<1> QED BY <1>4, <1>5, SettledInv, Zenon

-----------------------------------------------------------------------------
(* What the handlers do to the statuses, and the life of an environment.    *)

\* trap() goes back to an environment that is still RUNNING without touching
\* the statuses that the handler computed.
LEMMA TrapReturnExact ==
  ASSUME NEW c \in Cpus, NEW st \in [Slots -> Statuses], curenv[c] \in Slots,
         st[curenv[c]] = "RUNNING", TrapReturn(c, st)
  PROVE  /\ env_status' = st
         /\ pc' = [pc EXCEPT ![c] = "exit"]
         /\ curenv' = [curenv EXCEPT ![c] = curenv[c]]
<1>1. /\ env_status' = [Preempted(st, curenv[c]) EXCEPT ![curenv[c]] = "RUNNING"]
      /\ pc' = [pc EXCEPT ![c] = "exit"]
      /\ curenv' = [curenv EXCEPT ![c] = curenv[c]]
  BY Zenon DEF TrapReturn, EnvRun
<1> QED BY <1>1, Constants, Zenon DEF Preempted

\* Start, Yield and Nop exchange RUNNABLE and RUNNING at most.
LEMMA SwitchingMoves ==
  ASSUME IInv, NEW c \in Cpus, Start(c) \/ Yield(c) \/ Nop(c)
  PROVE  Switched(c, env_status)
<1>1. CASE Start(c)
  BY <1>1, ReadyStart, SchedYieldSwitches, Zenon DEF Start, Locked
<1>2. CASE Yield(c)
  BY <1>2, ReadyUnchanged, KernelMode, SchedYieldSwitches, Zenon DEF Yield, Dispatch
<1>3. CASE Nop(c)
  BY <1>3, ReadyUnchanged, KernelMode, TrapReturnSwitches, Zenon DEF Nop, Dispatch
<1> QED BY <1>1, <1>2, <1>3, Zenon

\* sys_env_set_status() and sys_ipc_try_send() wake one blocked environment.
LEMMA WakingMoves ==
  ASSUME LibraryCalls, IInv, NEW c \in Cpus, SysEnvSetStatus(c) \/ SysIpcTrySend(c)
  PROVE  \E e \in Slots : /\ env_status[e] = "NOT_RUNNABLE"
                          /\ env_status' = [env_status EXCEPT ![e] = "RUNNABLE"]
                          /\ pc' = [pc EXCEPT ![c] = "exit"]
                          /\ curenv' = [curenv EXCEPT ![c] = curenv[c]]
<1>1. /\ curenv[c] \in Slots /\ env_status[curenv[c]] = "RUNNING"
  BY KernelMode, Zenon DEF SysEnvSetStatus, SysIpcTrySend, Call, Dispatch
<1>2. \E e \in Slots : /\ env_status[e] = "NOT_RUNNABLE"
                       /\ TrapReturn(c, [env_status EXCEPT ![e] = "RUNNABLE"])
  <2>1. CASE SysEnvSetStatus(c)
    BY <2>1, OrdinaryCalls, Zenon DEF SysEnvSetStatus, Starts
  <2>2. CASE SysIpcTrySend(c)
    <3>1. PICK id \in EnvIds, e \in Slots :
            /\ EnvId2Env(c, id, FALSE, e)
            /\ env_ipc_recving[e]
            /\ TrapReturn(c, [env_status EXCEPT ![e] = "RUNNABLE"])
      BY <2>2, Zenon DEF SysIpcTrySend
    <3>2. env_status[e] # "FREE"
      BY <1>1, <3>1, Zenon DEF EnvId2Env
    <3> QED BY <3>1, <3>2, Zenon DEF IInv, ReceiverBlocked
  <2> QED BY <2>1, <2>2, Zenon
<1>3. PICK e \in Slots : /\ env_status[e] = "NOT_RUNNABLE"
                         /\ TrapReturn(c, [env_status EXCEPT ![e] = "RUNNABLE"])
  BY <1>2, Zenon
<1> DEFINE st == [env_status EXCEPT ![e] = "RUNNABLE"]
<1>4. st \in [Slots -> Statuses] /\ st[curenv[c]] = "RUNNING"
  BY <1>1, <1>3, Zenon DEF IInv, TypeOK, Statuses
<1> QED BY <1>1, <1>3, <1>4, TrapReturnExact, Zenon

\* sys_ipc_recv() blocks the caller.
LEMMA RecvMoves ==
  ASSUME IInv, NEW c \in Cpus, SysIpcRecv(c)
  PROVE  /\ curenv[c] \in Slots /\ env_status[curenv[c]] = "RUNNING"
         /\ Switched(c, [env_status EXCEPT ![curenv[c]] = "NOT_RUNNABLE"])
<1>1. /\ pc[c] = "kernel" /\ Locked(c) /\ curenv[c] \notin Idle
      /\ curenv[c] \in Slots /\ env_status[curenv[c]] = "RUNNING"
  BY KernelMode, Zenon DEF SysIpcRecv, Call, Dispatch
<1>2. Ready(c, curenv[c], [env_status EXCEPT ![curenv[c]] = "NOT_RUNNABLE"])
  BY <1>1, ReadyOwn, Zenon
<1> QED BY <1>1, <1>2, SchedYieldSwitches, Zenon DEF SysIpcRecv

\* sys_exofork() takes a free slot and leaves it NOT_RUNNABLE.
LEMMA ExoforkMoves ==
  ASSUME IInv, NEW c \in Cpus, SysExofork(c)
  PROVE  LET e == Head(env_free_list)
         IN  /\ e \in Slots \ Idle /\ env_status[e] = "FREE"
             /\ env_status' = [env_status EXCEPT ![e] = "NOT_RUNNABLE"]
             /\ pc' = [pc EXCEPT ![c] = "exit"]
             /\ curenv' = [curenv EXCEPT ![c] = curenv[c]]
<1> DEFINE e  == Head(env_free_list)
           st == [env_status EXCEPT ![e] = "NOT_RUNNABLE"]
<1>1. /\ curenv[c] \in Slots /\ env_status[curenv[c]] = "RUNNING"
  BY KernelMode, Zenon DEF SysExofork, Call, Dispatch
<1>2. e = env_free_list[1] /\ 1 \in DOMAIN env_free_list /\ e \in Slots
  BY DEF SysExofork, IInv, TypeOK
<1>3. TrapReturn(c, st)
  BY Zenon DEF SysExofork
<1> HIDE DEF e
<1>4. env_status[e] = "FREE"
  BY <1>2, Zenon DEF IInv, FreeListExact
<1>5. st \in [Slots -> Statuses] /\ st[curenv[c]] = "RUNNING"
  BY <1>1, <1>2, <1>4, Zenon DEF IInv, TypeOK, Statuses
<1>6. e \notin Idle
  BY <1>4, Zenon DEF IInv, IdleInv
<1>7. /\ env_status' = st
      /\ pc' = [pc EXCEPT ![c] = "exit"]
      /\ curenv' = [curenv EXCEPT ![c] = curenv[c]]
  BY <1>1, <1>3, <1>5, TrapReturnExact, Zenon
<1> QED BY <1>2, <1>4, <1>6, <1>7, Zenon DEF e

\* env_destroy() and the end of a zombie free one environment, or mark one that
\* runs on another processor.
LEMMA DestroyMoves ==
  ASSUME LibraryCalls, IInv, NEW c \in Cpus, Reap(c) \/ SysEnvDestroy(c) \/ Fault(c)
  PROVE  \E e \in Slots \ Idle :
           /\ env_status[e] # "FREE"
           /\ e = curenv[c] \/ env_parent_id[e] = env_id(curenv[c])
           /\ \/ Switched(c, Freed(e))
              \/ /\ env_status[e] = "RUNNING"
                 /\ Switched(c, [env_status EXCEPT ![e] = "DYING"])
<1>1. /\ pc[c] = "kernel" /\ Locked(c) /\ curenv[c] \in Slots
      /\ env_status[curenv[c]] # "FREE"
  BY KernelMode, Zenon DEF Reap, SysEnvDestroy, Fault, Call, Dispatch
<1>2. CASE Reap(c)
  <2>1. curenv[c] \notin Idle
    BY <1>2, Zenon DEF Reap, IInv, IdleInv
  <2>2. Ready(c, NoEnv, Freed(curenv[c]))
    BY <1>1, <2>1, ReadyOwn, Zenon DEF Freed
  <2>3. Switched(c, Freed(curenv[c]))
    BY <1>1, <1>2, <2>2, SchedYieldSwitches, Zenon DEF Reap
  <2> QED BY <1>1, <2>1, <2>3, Zenon
<1>3. CASE SysEnvDestroy(c) \/ Fault(c)
  <2>1. Dispatch(c) /\ curenv[c] \notin Idle
    BY <1>3, Zenon DEF SysEnvDestroy, Fault, Call
  <2>2. PICK e \in Slots : /\ e \notin Idle /\ env_status[e] \notin {"FREE", "DYING"}
                           /\ e = curenv[c] \/ env_parent_id[e] = env_id(curenv[c])
                           /\ EnvDestroy(c, e)
    <3>1. CASE SysEnvDestroy(c)
      <4>1. PICK id \in EnvIds, e \in Slots :
              EnvId2Env(c, id, TRUE, e) /\ env_status[e] # "DYING" /\ EnvDestroy(c, e)
        BY <3>1, OrdinaryCalls, Zenon DEF SysEnvDestroy
      <4> QED BY <4>1, <1>1, <2>1, PermittedNotIdle, Zenon DEF EnvId2Env
    <3>2. CASE Fault(c)
      BY <3>2, <1>1, <2>1, Zenon DEF Fault, Dispatch
    <3> QED BY <1>3, <3>1, <3>2, Zenon
  <2>3. CASE env_status[e] = "RUNNING" /\ e # curenv[c]
             /\ TrapReturn(c, [env_status EXCEPT ![e] = "DYING"])
    <3>1. Ready(c, curenv[c], [env_status EXCEPT ![e] = "DYING"])
      BY <2>1, <2>2, <2>3, ReadyOther, Zenon DEF Statuses
    <3> QED BY <1>1, <2>2, <2>3, <3>1, TrapReturnSwitches, Zenon
  <2>4. CASE e = curenv[c] /\ SchedYield(c, NoEnv, Freed(e))
    <3>1. Ready(c, NoEnv, Freed(e))
      BY <1>1, <2>1, <2>4, ReadyOwn, Zenon DEF Freed
    <3> QED BY <1>1, <2>2, <2>4, <3>1, SchedYieldSwitches, Zenon
  <2>5. CASE env_status[e] # "RUNNING" /\ e # curenv[c] /\ TrapReturn(c, Freed(e))
    <3>1. Ready(c, curenv[c], Freed(e))
      BY <2>1, <2>2, <2>5, ReadyOther, Zenon DEF Statuses, Freed
    <3> QED BY <1>1, <2>2, <2>5, <3>1, TrapReturnSwitches, Zenon
  <2> QED BY <2>2, <2>3, <2>4, <2>5, Zenon DEF EnvDestroy
<1> QED BY <1>2, <1>3, Zenon

\* The end of a handler only exchanges RUNNABLE and RUNNING, so a legal move of one
\* environment to another status is all that happens besides.
LEMMA LegalSwitch ==
  ASSUME IInv, NEW c \in Cpus, NEW e \in Slots,
         NEW s \in Statuses \ {"RUNNABLE", "RUNNING"}, <<env_status[e], s>> \in LegalMoves,
         Switched(c, [env_status EXCEPT ![e] = s])
  PROVE  \A x \in Slots : <<env_status[x], env_status'[x]>> \in LegalMoves
<1> SUFFICES ASSUME NEW x \in Slots
             PROVE  <<env_status[x], env_status'[x]>> \in LegalMoves
  BY Zenon
<1> DEFINE st == [env_status EXCEPT ![e] = s]
<1>1. st[e] = s /\ (x # e => st[x] = env_status[x]) /\ env_status[x] \in Statuses
  BY Zenon DEF IInv, TypeOK
<1>2. \/ env_status'[x] = st[x]
      \/ /\ st[x] \in {"RUNNABLE", "RUNNING"}
         /\ env_status'[x] \in {"RUNNABLE", "RUNNING"}
  BY Zenon DEF Switched, Kept
<1> HIDE DEF st
<1> QED BY <1>1, <1>2, Zenon DEF LegalMoves, Statuses

\* Every step, on whichever processor, is a step in the life of each environment.
LEMMA StepLegal ==
  ASSUME LibraryCalls, IInv, NEW c \in Cpus, Lock(c) \/ PopTf(c) \/ Trap(c) \/ Handler(c)
  PROVE  \A x \in Slots : <<env_status[x], env_status'[x]>> \in LegalMoves
<1> USE DEF LegalMoves
<1>0. env_status \in [Slots -> Statuses]
  BY Zenon DEF IInv, TypeOK
<1>1. CASE Lock(c) \/ PopTf(c) \/ Trap(c)
  BY <1>0, <1>1, Zenon DEF Lock, PopTf, Trap
<1>2. CASE Start(c) \/ Yield(c) \/ Nop(c)
  <2>1. Kept(env_status)
    BY <1>2, SwitchingMoves, Zenon DEF Switched
  <2> QED BY <1>0, <2>1, Zenon DEF Kept
<1>3. CASE SysEnvSetStatus(c) \/ SysIpcTrySend(c)
  BY <1>0, <1>3, WakingMoves
<1>4. CASE SysIpcRecv(c)
  <2>1. <<env_status[curenv[c]], "NOT_RUNNABLE">> \in LegalMoves
    BY <1>4, RecvMoves, Zenon
  <2> QED BY <1>4, <2>1, RecvMoves, LegalSwitch, Zenon DEF Statuses
<1>5. CASE SysExofork(c)
  BY <1>0, <1>5, ExoforkMoves
<1>6. CASE Reap(c) \/ SysEnvDestroy(c) \/ Fault(c)
  <2>1. PICK e \in Slots \ Idle :
          /\ env_status[e] # "FREE"
          /\ \/ Switched(c, Freed(e))
             \/ env_status[e] = "RUNNING" /\ Switched(c, [env_status EXCEPT ![e] = "DYING"])
    BY <1>6, DestroyMoves, Zenon
  <2>2. <<env_status[e], "FREE">> \in LegalMoves /\ <<"RUNNING", "DYING">> \in LegalMoves
    BY <1>0, Zenon
  <2> QED BY <2>1, <2>2, LegalSwitch, Zenon DEF Freed, Statuses
<1> QED BY <1>1, <1>2, <1>3, <1>4, <1>5, <1>6, Zenon DEF Handler

\* An environment that a processor works for is freed by that processor, in
\* trap() or a handler, and by no other: the others leave it RUNNING or DYING.
LEMMA FreedByItsCpu ==
  ASSUME LibraryCalls, IInv, IInv', NEW c \in Cpus, Lock(c) \/ PopTf(c) \/ Trap(c) \/ Handler(c),
         NEW d \in Cpus, OnBehalf(d), env_status'[curenv[d]] = "FREE"
  PROVE  pc[d] = "kernel" /\ pc'[d] # "kernel"
<1>1. /\ curenv[d] \in Slots
      /\ env_status[curenv[d]] # "FREE"
  BY Zenon DEF IInv, CurInv, RunningIffCurrent
<1>2. Handler(c)
  BY <1>1, Zenon DEF Lock, PopTf, Trap
<1>3. /\ pc' \in [Cpus -> Modes]
      /\ pc'[c] \in {"exit", "monitor"}
      /\ \A x \in Cpus \ {c} : pc'[x] = pc[x] /\ curenv'[x] = curenv[x]
  <2>1. CASE Start(c) \/ Yield(c) \/ Nop(c)
    BY <2>1, SwitchingMoves, Zenon DEF Switched
  <2>2. CASE SysIpcRecv(c)
    BY <2>2, RecvMoves, Zenon DEF Switched
  <2>3. CASE Reap(c) \/ SysEnvDestroy(c) \/ Fault(c)
    BY <2>3, DestroyMoves, Zenon DEF Switched
  <2>4. CASE SysEnvSetStatus(c) \/ SysIpcTrySend(c) \/ SysExofork(c)
    <3>1. \A x \in Slots : env_status'[x] = "FREE" => env_status[x] = "FREE"
      <4>1. \E e \in Slots, s \in {"RUNNABLE", "NOT_RUNNABLE"} : env_status' = [env_status EXCEPT ![e] = s]
        BY <2>4, WakingMoves, ExoforkMoves, Zenon
      <4>2. env_status \in [Slots -> Statuses]
        BY Zenon DEF IInv, TypeOK
      <4> QED BY <4>1, <4>2, Zenon
    <3> QED BY <3>1, <1>1, Zenon
  <2> QED BY <1>2, <2>1, <2>2, <2>3, <2>4, Zenon DEF Handler
<1>4. d = c
  <2> SUFFICES ASSUME d # c PROVE FALSE
    BY Zenon
  <2>1. OnBehalf(d)' /\ curenv'[d] = curenv[d]
    BY <1>3, Zenon DEF OnBehalf
  <2> QED BY <1>1, <2>1, Zenon DEF IInv, RunningIffCurrent
<1>5. pc[c] = "kernel"
  BY <1>2, <1>4, Zenon DEF Handler, Start, Reap, Yield, Nop, SysExofork, SysEnvSetStatus, SysEnvDestroy,
     Fault, SysIpcTrySend, SysIpcRecv, Call, Dispatch, OnBehalf
<1> QED BY <1>3, <1>4, <1>5, Zenon

-----------------------------------------------------------------------------
(* The theorems.                                                            *)

\* Every step of every processor preserves IInv.
THEOREM NextIInv == ASSUME LibraryCalls PROVE IInv /\ [Next]_vars => IInv'
<1> SUFFICES ASSUME IInv, [Next]_vars PROVE IInv'
  BY Zenon
<1>1. ASSUME NEW c \in Cpus,
             Lock(c) \/ PopTf(c) \/ Trap(c) \/ Handler(c)
      PROVE  IInv'
  BY <1>1, LockInvariant, OutsideInvariant, SwitchingInvariant, ReapInvariant,
     SysEnvDestroyInvariant, SysExoforkInvariant, SysEnvSetStatusInvariant,
     SysIpcTrySendInvariant, SysIpcRecvInvariant, Zenon
  DEF Handler
<1>2. CASE UNCHANGED vars
  BY <1>2 DEF vars, IInv, TypeOK, LockInv, CurInv, OneCpu, RunningIffCurrent,
     Cr3Inv, IdleInv, GenInv, FreeListExact, ReceiverBlocked, IdleAvailable,
     MonitorMeansDone, Locked, OnBehalf, env_id
<1> QED BY <1>1, <1>2, Zenon DEF Next

\* The invariant holds throughout: env_run(), sched_yield() and the handlers
\* keep the table consistent on any number of processors.
THEOREM Invariance == ASSUME LibraryCalls PROVE Spec => []IInv
BY InitIInv, NextIInv, PTL DEF Spec

\* The environment table, the processors and the lock keep their types.
THEOREM TypeCorrect == ASSUME LibraryCalls PROVE Spec => []TypeOK
<1>1. IInv => TypeOK
  BY Zenon DEF IInv
<1> QED BY <1>1, Invariance, PTL

\* No environment is ever the current one of two processors (sched_yield,
\* env_run and env_destroy with any number of processors).
THEOREM NeverOnTwoCpus == ASSUME LibraryCalls PROVE Spec => []OneCpu
<1>1. IInv => OneCpu
  BY Zenon DEF IInv
<1> QED BY <1>1, Invariance, PTL

\* RUNNING and DYING mean: on a processor, at every point between two handlers.
THEOREM RunningMeansOnCpu == ASSUME LibraryCalls PROVE Spec => []RunningIffCurrent
<1>1. IInv => RunningIffCurrent
  BY Zenon DEF IInv
<1> QED BY <1>1, Invariance, PTL

\* User code never runs on another environment's or a freed page directory.
THEOREM OwnAddressSpace == ASSUME LibraryCalls PROVE Spec => []UserAddressSpace
<1>1. IInv => UserAddressSpace
  <2> SUFFICES ASSUME IInv, NEW c \in Cpus, pc[c] \in {"user", "trap", "kernel"}
               PROVE  /\ curenv[c] # NoEnv
                      /\ env_status[curenv[c]] # "FREE"
                      /\ cr3[c] = env_id(curenv[c])
    BY Zenon DEF UserAddressSpace
  <2>1. OnBehalf(c) /\ curenv[c] \in Slots
    BY Zenon DEF OnBehalf, IInv, CurInv
  <2>2. env_status[curenv[c]] \in {"RUNNING", "DYING"}
    BY <2>1, Zenon DEF IInv, RunningIffCurrent
  <2> QED BY <2>1, <2>2, Constants, Zenon DEF IInv, Cr3Inv
<1> QED BY <1>1, Invariance, PTL

\* env_free_list is exactly the set of free slots, without repetition.
THEOREM FreeListIsExact == ASSUME LibraryCalls PROVE Spec => []FreeListExact
<1>1. IInv => FreeListExact
  BY Zenon DEF IInv
<1> QED BY <1>1, Invariance, PTL

\* sys_ipc_try_send() never wakes an environment that is not blocked.
THEOREM ReceiversAreBlocked == ASSUME LibraryCalls PROVE Spec => []ReceiverBlocked
<1>1. IInv => ReceiverBlocked
  BY Zenon DEF IInv
<1> QED BY <1>1, Invariance, PTL

\* sched_yield() never panics for want of an idle environment.
THEOREM IdleIsAvailable == ASSUME LibraryCalls PROVE Spec => []IdleAvailable
<1>1. IInv => IdleAvailable
  BY Zenon DEF IInv
<1> QED BY <1>1, Invariance, PTL

\* The kernel stops in the monitor only when no user environment can run.
THEOREM MonitorOnlyWhenDone == ASSUME LibraryCalls PROVE Spec => []MonitorMeansDone
<1>1. IInv => MonitorMeansDone
  BY Zenon DEF IInv
<1> QED BY <1>1, Invariance, PTL

\* Every environment goes through its life in order, on any number of processors:
\* no zombie comes back, a blocked environment is woken before it runs, and one
\* that a processor works for is freed by that processor (env_destroy, trap).
THEOREM LivesInOrder == ASSUME LibraryCalls PROVE Spec => EnvLife
<1>1. IInv /\ IInv' /\ [Next]_vars => [LifeStep]_vars
  <2> SUFFICES ASSUME IInv, IInv', Next PROVE LifeStep
    BY Zenon
  <2>1. PICK c \in Cpus : Lock(c) \/ PopTf(c) \/ Trap(c) \/ Handler(c)
    BY Zenon DEF Next
  <2> QED BY <2>1, StepLegal, FreedByItsCpu, Zenon DEF LifeStep
<1> QED BY <1>1, Invariance, PTL DEF Spec, EnvLife
=============================================================================
