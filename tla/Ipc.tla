-------------------------------- MODULE Ipc ---------------------------------
(***************************************************************************)
(* Inter-process communication: ipc_send() and ipc_recv() (lib/ipc.c) over *)
(* sys_ipc_try_send() and sys_ipc_recv() (kern/syscall.c).  A system call  *)
(* runs under the kernel lock and is one step; the library's steps around  *)
(* it, among them the reads of thisenv->env_ipc_*, are steps of their own. *)
(*                                                                         *)
(* An element of Envs is one environment with one envid; reuse of slots    *)
(* and the scheduler's part are in module EnvSched.  Of an address space   *)
(* there is the place where a page is asked for (dstva); how the sender    *)
(* has its page mapped comes with the call.                                *)
(***************************************************************************)
EXTENDS Naturals

CONSTANTS
  Envs,       \* the environments
  Senders,    \* those that call ipc_send()
  Receivers,  \* those that call ipc_recv()
  Vals,       \* values that are sent
  Perms,      \* permissions a page is sent with: "W", "R", or "0" with no bit set
  NoEnv,      \* an env_ipc_from that was never set
  Scarce      \* TRUE if memory for a page table may run out

ASSUME IpcAssumption ==
  /\ NoEnv \notin Envs
  /\ Senders \subseteq Envs /\ Receivers \subseteq Envs
  /\ Perms \subseteq {"W", "R", "0"}
  /\ Scarce \in BOOLEAN

NoPage  == "nopage"          \* IPC_NO_PAGE, in the place of the permissions
Nothing == [to |-> NoEnv]

\* The arguments of ipc_send(), and how srcva is mapped in the sender.
Args == [to : Receivers, value : Vals, perm : Perms \cup {NoPage}, src : {"none", "R", "W"}]

VARIABLES
  pc,       \* "user", "recv", "send", "dead", or the error ipc_send() panicked with
  recving,  \* env_ipc_recving
  asked,    \* env_ipc_dstva # IPC_NO_PAGE
  field,    \* env_ipc_from, env_ipc_value, env_ipc_perm
  dst,      \* dstva is mapped
  args,     \* the arguments of ipc_send()
  moved,    \* with which permission the last message's page came (not in the code)
  kernel    \* "up" or "panic"

vars == <<pc, recving, asked, field, dst, args, moved, kernel>>

Init ==
  /\ pc = [e \in Envs |-> "user"]
  /\ recving = [e \in Envs |-> FALSE]
  /\ asked = [e \in Envs |-> FALSE]
  /\ field = [e \in Envs |-> [from |-> NoEnv, value |-> 0, perm |-> "0"]]
  /\ dst = [e \in Envs |-> FALSE]
  /\ args = [e \in Envs |-> Nothing]
  /\ moved = [e \in Envs |-> NoPage]
  /\ kernel = "up"

-----------------------------------------------------------------------------
\* ipc_recv() is called: sys_ipc_recv() with or without a place for a page
\* marks the environment and gives up the processor.
SysIpcRecv(e, page) ==
  /\ pc[e] = "user" /\ kernel = "up"
  /\ pc' = [pc EXCEPT ![e] = "recv"]
  /\ recving' = [recving EXCEPT ![e] = TRUE]
  /\ asked' = [asked EXCEPT ![e] = page]
  /\ UNCHANGED <<field, dst, args, moved, kernel>>

\* Once made runnable, ipc_recv() reads the fields and returns them.
RecvReturn(e) ==
  /\ pc[e] = "recv" /\ ~ recving[e] /\ kernel = "up"
  /\ pc' = [pc EXCEPT ![e] = "user"]
  /\ UNCHANGED <<recving, asked, field, dst, args, moved, kernel>>

\* The receiver is done with a page and unmaps it.
Unmap(e) ==
  /\ pc[e] = "user" /\ dst[e] /\ kernel = "up"
  /\ dst' = [dst EXCEPT ![e] = FALSE]
  /\ UNCHANGED <<pc, recving, asked, field, args, moved, kernel>>

\* ipc_send() is called.
IpcSend(e, a) ==
  /\ pc[e] = "user" /\ kernel = "up" /\ a.to # e
  /\ pc' = [pc EXCEPT ![e] = "send"]
  /\ args' = [args EXCEPT ![e] = a]
  /\ UNCHANGED <<recving, asked, field, dst, moved, kernel>>

-----------------------------------------------------------------------------
\* sys_ipc_try_send() of the sender e

Target(e)  == args[e].to
Trying(e)  == pc[e] = "send" /\ kernel = "up"
HasPage(e) == args[e].perm # NoPage

\* Any return value but 0 and -E_IPC_NOT_RECV makes ipc_send() panic.
SendFails(e, r) ==
  /\ pc' = [pc EXCEPT ![e] = r]
  /\ args' = [args EXCEPT ![e] = Nothing]

\* -E_BAD_ENV
SendBadEnv(e) ==
  /\ Trying(e) /\ pc[Target(e)] = "dead"
  /\ SendFails(e, "E_BAD_ENV")
  /\ UNCHANGED <<recving, asked, field, dst, moved, kernel>>

\* Mutant: whoever calls is let through.
Receives_Always(e) == Trying(e) /\ pc[Target(e)] # "dead"

\* Mutant: the test is the wrong way round.
Receives_Negated(e) == Trying(e) /\ pc[Target(e)] # "dead" /\ ~ recving[Target(e)]

\* The target is asking for a message.  While it is not, the call returns
\* -E_IPC_NOT_RECV and ipc_send() yields and tries again.
Receives(e) == Trying(e) /\ pc[Target(e)] # "dead" /\ recving[Target(e)]

\* The page is not there, or is sent with more access than the sender has.
BadPage(e) ==
  HasPage(e) /\ (args[e].src = "none" \/ (args[e].perm = "W" /\ args[e].src # "W"))

\* -E_INVAL
SendInval(e) ==
  /\ Receives(e) /\ BadPage(e)
  /\ SendFails(e, "E_INVAL")
  /\ UNCHANGED <<recving, asked, field, dst, moved, kernel>>

\* A page is to be transferred.
Transfers(e) == HasPage(e) /\ asked[Target(e)]

\* env_ipc_perm is cleared before the page is looked at.
ClearPerm(t) == [field EXCEPT ![t].perm = "0"]

\* -E_NO_MEM, because there is a page at dstva already
SendNoMem(e) ==
  /\ Receives(e) /\ ~ BadPage(e) /\ Transfers(e) /\ dst[Target(e)]
  /\ SendFails(e, "E_NO_MEM")
  /\ field' = ClearPerm(Target(e))
  /\ UNCHANGED <<recving, asked, dst, moved, kernel>>

\* sys_page_map() finds no memory for a page table: the kernel panics.
SendPanic(e) ==
  /\ Scarce
  /\ Receives(e) /\ ~ BadPage(e) /\ Transfers(e) /\ ~ dst[Target(e)]
  /\ kernel' = "panic"
  /\ field' = ClearPerm(Target(e))
  /\ UNCHANGED <<pc, recving, asked, dst, args, moved>>

\* Mutant: env_ipc_perm keeps what an earlier message left there.
SentPerm_Stale(e) == IF Transfers(e) THEN args[e].perm ELSE field[Target(e)].perm

\* The permissions that the target is told.
SentPerm(e) == IF Transfers(e) THEN args[e].perm ELSE "0"

\* The message is handed over and the target made runnable.
SendSucceeds(e) ==
  LET t == Target(e)
  IN  /\ Receives(e) /\ ~ BadPage(e) /\ ~ (Transfers(e) /\ dst[t])
      /\ field' = [field EXCEPT ![t] =
                     [from |-> e, value |-> args[e].value, perm |-> SentPerm(e)]]
      /\ dst' = [dst EXCEPT ![t] = @ \/ Transfers(e)]
      /\ recving' = [recving EXCEPT ![t] = FALSE]
      /\ moved' = [moved EXCEPT ![t] = IF Transfers(e) THEN args[e].perm ELSE NoPage]
      /\ pc' = [pc EXCEPT ![e] = "user"]
      /\ args' = [args EXCEPT ![e] = Nothing]
      /\ UNCHANGED <<asked, kernel>>

\* An environment exits or is destroyed; its slot's fields stay as they are.
EnvDestroy(e) ==
  /\ pc[e] # "dead" /\ kernel = "up"
  /\ pc' = [pc EXCEPT ![e] = "dead"]
  /\ args' = [args EXCEPT ![e] = Nothing]
  /\ dst' = [dst EXCEPT ![e] = FALSE]
  /\ UNCHANGED <<recving, asked, field, moved, kernel>>

-----------------------------------------------------------------------------
TrySend(e) ==
  SendBadEnv(e) \/ SendInval(e) \/ SendNoMem(e) \/ SendPanic(e) \/ SendSucceeds(e)

Next ==
  \/ \E e \in Receivers :
       \/ \E page \in BOOLEAN : SysIpcRecv(e, page)
       \/ RecvReturn(e) \/ Unmap(e)
  \/ \E e \in Senders :
       \/ \E a \in Args : IpcSend(e, a)
       \/ TrySend(e)
  \/ \E e \in Envs : EnvDestroy(e)

Spec == Init /\ [][Next]_vars

\* The scheduler runs every environment that can run, again and again.
FairSpec ==
  Spec /\ (\A e \in Senders : WF_vars(TrySend(e))) /\ (\A e \in Receivers : WF_vars(RecvReturn(e)))

-----------------------------------------------------------------------------
\* Types.
TypeOK ==
  /\ pc \in [Envs -> {"user", "recv", "send", "dead", "E_BAD_ENV", "E_INVAL", "E_NO_MEM"}]
  /\ {recving, asked, dst} \subseteq [Envs -> BOOLEAN]
  /\ moved \in [Envs -> Perms \cup {NoPage}]
  /\ field \in [Envs -> [from : Envs \cup {NoEnv}, value : Vals \cup {0}, perm : Perms \cup {"0"}]]
  /\ args \in [Envs -> Args \cup {Nothing}]
  /\ kernel \in {"up", "panic"}

\* An environment that waits in ipc_recv(), and one that has been given a
\* message there and has not read it yet.
Waits(e) == pc[e] = "recv" /\ recving[e]
Holds(e) == pc[e] = "recv" /\ ~ recving[e]

R == INSTANCE Rendezvous WITH
       Offers  <- Args,
       waiting <- {e \in Envs : Waits(e)},
       offer   <- args,
       box     <- [e \in Envs |-> IF Holds(e)
                                  THEN [from |-> field[e].from, value |-> field[e].value]
                                  ELSE Nothing]

\* The protocol over struct Env's fields is a rendezvous: every message whose
\* sender was told of success reaches its receiver, exactly once and whole,
\* although the receiver reads the fields after its wake-up, with the kernel
\* lock released, and however many senders compete.
ImplementsRendezvous == R!Spec

\* "this is nonzero iff a page was successfully transferred to 'pg'" (lib/ipc.c,
\* of *perm_store), if it was transferred with a permission: sys_ipc_try_send() takes
\* perm = 0, too, and maps the page.
PermTellsPage ==
  \A e \in Envs : Holds(e) => (field[e].perm # "0" <=> moved[e] \notin {NoPage, "0"})

\* "-E_NO_MEM if there's not enough memory to map srcva in envid's address
\* space" (kern/syscall.c): with memory to spare no send fails that way.
NoMemMeansNoMemory == \A e \in Envs : pc[e] # "E_NO_MEM"

\* And if there is not, the sender is told (the same comment): the kernel goes on.
KernelSurvives == kernel = "up"

\* Competing senders do not block each other: while somebody keeps trying to
\* send to an environment that waits, the wait ends.  (Which sender succeeds is
\* up to the order of envs[]; one may always be too late.)
WaitEnds ==
  \A t \in Receivers :
    (Waits(t) /\ \E e \in Senders : Trying(e) /\ Target(e) = t)
      ~> (~ Waits(t) \/ \A e \in Senders : ~ (Trying(e) /\ Target(e) = t))
=============================================================================
