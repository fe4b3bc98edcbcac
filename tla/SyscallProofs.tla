--------------------------- MODULE SyscallProofs ----------------------------
(***************************************************************************)
(* Proofs about what the kernel does for programs that call on it.         *)
(*                                                                         *)
(* Ipc: for any number of senders and receivers, any values and            *)
(* permissions, memory scarce or not, the protocol over struct Env's       *)
(* fields implements the rendezvous.                                       *)
(*                                                                         *)
(* UserMem: for any page and word size and any mappings, a range that      *)
(* starts on a page boundary, or stays inside a page, and is accepted may  *)
(* be accessed; of any range that is refused, user_mem_check() names the   *)
(* first address that may not.                                             *)
(*                                                                         *)
(* PgFault: for stacks of any size, and any depth of nesting, a page fault *)
(* that is handled leaves the program as it was, as long as the handlers   *)
(* keep to the exception stack.  The inductive invariant PInv says that    *)
(* the frames of the faults being handled lie one below the other, above   *)
(* the stack pointer, and still hold what was pushed.                      *)
(*                                                                         *)
(* Kdebug: the binary search behind the monitor's backtrace finds the stab *)
(* that contains an address, in tables of any length.                      *)
(***************************************************************************)
EXTENDS Ipc, UserMem, PgFault, Kdebug, TLAPS

-----------------------------------------------------------------------------
\* Who is in ipc_send() has its arguments, and nobody else has any.
ArgsInv == \A e \in Envs : IF pc[e] = "send" THEN args[e] \in Args ELSE args[e] = Nothing

\* Only who is in ipc_recv(), or was when it was destroyed, is marked as receiving.
RecvInv == \A e \in Envs : recving[e] => pc[e] \in {"recv", "dead"}

\* The types, one by one.
Typed ==
  /\ pc \in [Envs -> {"user", "recv", "send", "dead", "E_BAD_ENV", "E_INVAL", "E_NO_MEM"}]
  /\ recving \in [Envs -> BOOLEAN] /\ asked \in [Envs -> BOOLEAN]
  /\ dst \in [Envs -> BOOLEAN] /\ moved \in [Envs -> Perms \cup {NoPage}]
  /\ field \in [Envs -> [from : Envs \cup {NoEnv}, value : Vals \cup {0}, perm : Perms \cup {"0"}]]
  /\ args \in [Envs -> Args \cup {Nothing}]
  /\ kernel \in {"up", "panic"}

IInv == Typed /\ ArgsInv /\ RecvInv

\* A sender that tries has arguments, which name a receiver other than itself, and
\* a target that is not dead and is receiving waits.
LEMMA Sending ==
  ASSUME IInv, NEW e \in Senders, Trying(e)
  PROVE  /\ e \in Envs /\ args[e] \in Args /\ Target(e) \in Envs
         /\ Receives(e) => Waits(Target(e)) /\ Target(e) # e
<1>1. e \in Envs /\ pc[e] = "send"
  BY IpcAssumption, Zenon DEF Trying
<1>2. args[e] \in Args
  BY <1>1, Zenon DEF IInv, ArgsInv
<1>3. Target(e) \in Envs
  BY <1>2, IpcAssumption, Zenon DEF Args, Target
<1>4. Receives(e) => Waits(Target(e)) /\ Target(e) # e
  BY <1>1, <1>3, Zenon DEF IInv, RecvInv, Receives, Waits
<1> QED BY <1>1, <1>2, <1>3, <1>4, Zenon

\* An offer is told from none, and a full box from an empty one.
LEMMA Distinct ==
  /\ \A a \in Args : a # Nothing
  /\ \A x, y : [from |-> x, value |-> y] # Nothing
<1>1. \A a \in Args : a.to \in Envs /\ a.to # NoEnv
  BY IpcAssumption, Zenon DEF Args
<1>2. Nothing.to = NoEnv
  BY Zenon DEF Nothing
<1>3. \A x, y : "from" \in DOMAIN [from |-> x, value |-> y]
  BY Zenon
<1>4. "from" \notin DOMAIN Nothing
  BY Zenon DEF Nothing
<1> QED BY <1>1, <1>2, <1>3, <1>4, Zenon

\* The invariant holds at first.
LEMMA InitIInv == Init => IInv
BY DEF Init, IInv, Typed, ArgsInv, RecvInv

\* The steps of a receiver, of a sender in its own code, and of one that ends.
LEMMA OwnSteps ==
  ASSUME IInv, NEW e \in Envs,
         \/ \E page \in BOOLEAN : SysIpcRecv(e, page)
         \/ RecvReturn(e) \/ Unmap(e) \/ EnvDestroy(e)
         \/ \E a \in Args : IpcSend(e, a)
  PROVE  IInv'
<1>0. Typed
  BY Zenon DEF IInv
<1>1. Typed'
  <2>1. CASE \E page \in BOOLEAN : SysIpcRecv(e, page)
    BY <1>0, <2>1, Zenon DEF Typed, SysIpcRecv
  <2>2. CASE RecvReturn(e)
    BY <1>0, <2>2, Zenon DEF Typed, RecvReturn
  <2>3. CASE Unmap(e) \/ EnvDestroy(e)
    BY <1>0, <2>3, Zenon DEF Typed, Unmap, EnvDestroy
  <2>4. CASE \E a \in Args : IpcSend(e, a)
    BY <1>0, <2>4 DEF Typed, IpcSend
  <2> QED BY <2>1, <2>2, <2>3, <2>4, Zenon
<1>2. ArgsInv'
  BY <1>0 DEF Typed, IInv, ArgsInv, SysIpcRecv, RecvReturn, Unmap, EnvDestroy, IpcSend
<1>3. RecvInv'
  BY <1>0 DEF Typed, IInv, RecvInv, SysIpcRecv, RecvReturn, Unmap, EnvDestroy, IpcSend
<1> QED BY <1>1, <1>2, <1>3, Zenon DEF IInv

\* sys_ipc_try_send(), however it ends.
LEMMA TrySendSteps ==
  ASSUME IInv, NEW e \in Senders, TrySend(e)
  PROVE  IInv'
<1>0. Typed /\ Trying(e)
  BY Zenon DEF IInv, TrySend, SendBadEnv, SendInval, SendNoMem, SendPanic, SendSucceeds, Receives
<1>1. /\ e \in Envs /\ args[e] \in Args /\ Target(e) \in Envs
      /\ pc[e] = "send" /\ ~ recving[e]
  BY <1>0, Sending, Zenon DEF Trying, IInv, RecvInv
<1>2. CASE SendBadEnv(e) \/ SendInval(e)
  BY <1>0, <1>1, <1>2, ZenonT(40) DEF IInv, Typed, ArgsInv, RecvInv, SendBadEnv, SendInval, SendFails
<1>3. ASSUME field' = ClearPerm(Target(e))
      PROVE  field' \in [Envs -> [from : Envs \cup {NoEnv}, value : Vals \cup {0},
                                  perm : Perms \cup {"0"}]]
  BY <1>0, <1>1, <1>3 DEF Typed, ClearPerm
<1>4. CASE SendNoMem(e)
  BY <1>0, <1>1, <1>3, <1>4, Zenon DEF IInv, Typed, ArgsInv, RecvInv, SendNoMem, SendFails
<1>5. CASE SendPanic(e)
  BY <1>0, <1>1, <1>3, <1>5, Zenon DEF IInv, Typed, ArgsInv, RecvInv, SendPanic
<1>6. CASE SendSucceeds(e)
  <2> DEFINE t == Target(e)
  <2>1. t \in Envs /\ args[e].value \in Vals /\ SentPerm(e) \in Perms \cup {"0"}
    BY <1>1, Zenon DEF Args, SentPerm, Transfers, HasPage
  <2>2. /\ field' = [field EXCEPT ![t] =
                       [from |-> e, value |-> args[e].value, perm |-> SentPerm(e)]]
        /\ dst' = [dst EXCEPT ![t] = @ \/ Transfers(e)]
        /\ recving' = [recving EXCEPT ![t] = FALSE]
        /\ moved' = [moved EXCEPT ![t] = IF Transfers(e) THEN args[e].perm ELSE NoPage]
        /\ pc' = [pc EXCEPT ![e] = "user"]
        /\ args' = [args EXCEPT ![e] = Nothing]
        /\ UNCHANGED <<asked, kernel>>
    BY <1>6, Zenon DEF SendSucceeds
  <2>3. t # e
    BY <1>0, <1>6, Sending, Zenon DEF SendSucceeds
  <2>4. Transfers(e) \in BOOLEAN
    BY Zenon DEF Transfers
  <2> DEFINE came == IF Transfers(e) THEN args[e].perm ELSE NoPage
  <2>5. came \in Perms \cup {NoPage}
    BY <1>1, Zenon DEF Args
  <2> HIDE DEF t, came
  <2>6. moved' = [moved EXCEPT ![t] = came]
    BY <2>2, Zenon DEF came
  <2>7. Typed'
    <3>1. moved' \in [Envs -> Perms \cup {NoPage}]
      BY <1>0, <2>1, <2>5, <2>6, Zenon DEF Typed
    <3> QED BY <1>0, <1>1, <2>1, <2>2, <2>4, <3>1, Zenon DEF Typed
  <2>8. ArgsInv' /\ RecvInv'
    BY <1>0, <1>1, <2>1, <2>2, <2>3, Zenon DEF Typed, IInv, ArgsInv, RecvInv
  <2> QED BY <2>7, <2>8, Zenon DEF IInv
<1> QED BY <1>2, <1>4, <1>5, <1>6, Zenon DEF TrySend

\* Every step preserves the invariant.
LEMMA NextIInv == IInv /\ [Next]_vars => IInv'
<1> SUFFICES ASSUME IInv, [Next]_vars PROVE IInv'
  BY Zenon
<1>1. CASE Next
  BY <1>1, OwnSteps, TrySendSteps, IpcAssumption, Zenon DEF Next
<1>2. CASE UNCHANGED vars
  BY <1>2, Zenon DEF vars, IInv, Typed, ArgsInv, RecvInv
<1> QED BY <1>1, <1>2, Zenon

-----------------------------------------------------------------------------
(* The refinement.                                                          *)

\* The state of the rendezvous that a state of the protocol stands for.
waiting == {e \in Envs : Waits(e)}
Box(e)  == IF Holds(e) THEN [from |-> field[e].from, value |-> field[e].value] ELSE Nothing
box     == [e \in Envs |-> Box(e)]

\* Clearing env_ipc_perm leaves who sent what.
LEMMA ClearPermKeeps ==
  ASSUME Typed, NEW t \in Envs, field' = ClearPerm(t)
  PROVE  \A x \in Envs : field'[x].from = field[x].from /\ field'[x].value = field[x].value
BY Zenon DEF Typed, ClearPerm

\* Initially nobody waits, offers or holds anything.
LEMMA InitRefines == Init => R!Init
BY Zenon DEF Init, R!Init, Waits, Holds

\* A step of the protocol in terms of the rendezvous.
LEMMA StepRefines ==
  ASSUME IInv, Next
  PROVE  \/ /\ waiting' = waiting /\ args' = args /\ box' = box
         \/ \E e \in Envs :
              \/ /\ e \notin waiting /\ box[e] = Nothing
                 /\ waiting' = waiting \cup {e} /\ args' = args /\ box' = box
              \/ /\ args' = [args EXCEPT ![e] = Nothing] /\ waiting' = waiting /\ box' = box
              \/ /\ box[e] # Nothing
                 /\ box' = [box EXCEPT ![e] = Nothing] /\ waiting' = waiting /\ args' = args
              \/ /\ waiting' = waiting \ {e} /\ args' = [args EXCEPT ![e] = Nothing]
                 /\ box' = [box EXCEPT ![e] = Nothing]
              \/ \E o \in Args : /\ args[e] = Nothing /\ args' = [args EXCEPT ![e] = o]
                                 /\ waiting' = waiting /\ box' = box
              \/ \E t \in Envs : /\ args[e] # Nothing /\ args[e].to = t /\ t \in waiting
                                 /\ waiting' = waiting \ {t}
                                 /\ box' = [box EXCEPT ![t] = [from |-> e, value |-> args[e].value]]
                                 /\ args' = [args EXCEPT ![e] = Nothing]
<1>0. Typed
  BY Zenon DEF IInv
<1>1. ASSUME NEW e \in Receivers, NEW page \in BOOLEAN, SysIpcRecv(e, page)
      PROVE  /\ e \in Envs /\ e \notin waiting /\ box[e] = Nothing
             /\ waiting' = waiting \cup {e} /\ args' = args /\ box' = box
  <2>1. e \in Envs /\ pc[e] = "user"
    BY <1>1, IpcAssumption, Zenon DEF SysIpcRecv
  <2>2. /\ pc' = [pc EXCEPT ![e] = "recv"] /\ recving' = [recving EXCEPT ![e] = TRUE]
        /\ field' = field /\ args' = args
    BY <1>1, Zenon DEF SysIpcRecv
  <2>3. /\ Waits(e)' /\ ~ Holds(e)' /\ ~ Waits(e) /\ ~ Holds(e)
        /\ \A x \in Envs \ {e} : (Waits(x)' <=> Waits(x)) /\ (Holds(x)' <=> Holds(x))
    BY <1>0, <2>1, <2>2, Zenon DEF Typed, Waits, Holds
  <2> QED BY <2>1, <2>2, <2>3, Zenon DEF waiting, box, Box
<1>2. ASSUME NEW e \in Receivers, RecvReturn(e)
      PROVE  /\ e \in Envs /\ box[e] # Nothing
             /\ box' = [box EXCEPT ![e] = Nothing] /\ waiting' = waiting /\ args' = args
  <2>1. e \in Envs /\ Holds(e)
    BY <1>2, IpcAssumption, Zenon DEF RecvReturn, Holds
  <2>2. /\ pc' = [pc EXCEPT ![e] = "user"] /\ recving' = recving
        /\ field' = field /\ args' = args
    BY <1>2, Zenon DEF RecvReturn
  <2>3. /\ ~ Waits(e)' /\ ~ Holds(e)' /\ ~ Waits(e)
        /\ \A x \in Envs \ {e} : (Waits(x)' <=> Waits(x)) /\ (Holds(x)' <=> Holds(x))
    BY <1>0, <2>1, <2>2, Zenon DEF Typed, Waits, Holds
  <2> QED BY <2>1, <2>2, <2>3, Distinct, Zenon DEF waiting, box, Box
<1>3. ASSUME NEW e \in Receivers, Unmap(e)
      PROVE  waiting' = waiting /\ args' = args /\ box' = box
  BY <1>3, Zenon DEF Unmap, waiting, box, Box, Waits, Holds
<1>4. ASSUME NEW e \in Senders, NEW a \in Args, IpcSend(e, a)
      PROVE  /\ e \in Envs /\ args[e] = Nothing /\ args' = [args EXCEPT ![e] = a]
             /\ waiting' = waiting /\ box' = box
  <2>1. e \in Envs /\ pc[e] = "user" /\ args[e] = Nothing
    BY <1>4, IpcAssumption, Zenon DEF IpcSend, IInv, ArgsInv
  <2>2. /\ pc' = [pc EXCEPT ![e] = "send"] /\ recving' = recving
        /\ field' = field /\ args' = [args EXCEPT ![e] = a]
    BY <1>4, Zenon DEF IpcSend
  <2>3. \A x \in Envs : (Waits(x)' <=> Waits(x)) /\ (Holds(x)' <=> Holds(x))
    BY <1>0, <2>1, <2>2, Zenon DEF Typed, Waits, Holds
  <2> QED BY <2>1, <2>2, <2>3, Zenon DEF waiting, box, Box
<1>5. ASSUME NEW e \in Envs, EnvDestroy(e)
      PROVE  /\ waiting' = waiting \ {e} /\ args' = [args EXCEPT ![e] = Nothing]
             /\ box' = [box EXCEPT ![e] = Nothing]
  <2>1. /\ pc' = [pc EXCEPT ![e] = "dead"] /\ recving' = recving
        /\ field' = field /\ args' = [args EXCEPT ![e] = Nothing]
    BY <1>5, Zenon DEF EnvDestroy
  <2>2. /\ ~ Waits(e)' /\ ~ Holds(e)'
        /\ \A x \in Envs \ {e} : (Waits(x)' <=> Waits(x)) /\ (Holds(x)' <=> Holds(x))
    BY <1>0, <2>1, Zenon DEF Typed, Waits, Holds
  <2> QED BY <2>1, <2>2, Zenon DEF waiting, box, Box
<1>6. ASSUME NEW e \in Senders, TrySend(e)
      PROVE  /\ e \in Envs
             /\ \/ /\ waiting' = waiting /\ args' = args /\ box' = box
                \/ /\ args' = [args EXCEPT ![e] = Nothing] /\ waiting' = waiting /\ box' = box
                \/ \E t \in Envs : /\ args[e] # Nothing /\ args[e].to = t /\ t \in waiting
                                   /\ waiting' = waiting \ {t}
                                   /\ box' = [box EXCEPT ![t] =
                                                [from |-> e, value |-> args[e].value]]
                                   /\ args' = [args EXCEPT ![e] = Nothing]
  <2>0. Trying(e)
    BY <1>6, Zenon DEF TrySend, SendBadEnv, SendInval, SendNoMem, SendPanic, SendSucceeds, Receives
  <2>1. e \in Envs /\ args[e] \in Args /\ Target(e) \in Envs /\ pc[e] = "send"
    BY <2>0, Sending, Zenon DEF Trying
  <2>2. ASSUME NEW res \in {"E_BAD_ENV", "E_INVAL", "E_NO_MEM"}, SendFails(e, res),
               recving' = recving, field' = field \/ field' = ClearPerm(Target(e))
        PROVE  /\ args' = [args EXCEPT ![e] = Nothing] /\ waiting' = waiting /\ box' = box
    <3>1. pc' = [pc EXCEPT ![e] = res] /\ args' = [args EXCEPT ![e] = Nothing]
      BY <2>2, Zenon DEF SendFails
    <3>2. \A x \in Envs : field'[x].from = field[x].from /\ field'[x].value = field[x].value
      BY <1>0, <2>1, <2>2, ClearPermKeeps, Zenon
    <3>3. \A x \in Envs : (Waits(x)' <=> Waits(x)) /\ (Holds(x)' <=> Holds(x))
      BY <1>0, <2>1, <2>2, <3>1, Zenon DEF Typed, Waits, Holds
    <3> QED BY <3>1, <3>2, <3>3, Zenon DEF waiting, box, Box
  <2>3. CASE SendBadEnv(e) \/ SendInval(e) \/ SendNoMem(e)
    BY <2>1, <2>2, <2>3, Zenon DEF SendBadEnv, SendInval, SendNoMem
  <2>4. CASE SendPanic(e)
    <3>1. pc' = pc /\ recving' = recving /\ args' = args /\ field' = ClearPerm(Target(e))
      BY <2>4, Zenon DEF SendPanic
    <3>2. \A x \in Envs : field'[x].from = field[x].from /\ field'[x].value = field[x].value
      BY <1>0, <2>1, <3>1, ClearPermKeeps, Zenon
    <3> QED BY <2>1, <3>1, <3>2, Zenon DEF waiting, box, Box, Waits, Holds
  <2>5. CASE SendSucceeds(e)
    <3>0. PICK t \in Envs : t = Target(e)
      BY <2>1, Zenon
    <3>1. t \in Envs /\ t # e /\ Waits(t) /\ args[e] # Nothing /\ args[e].to = t
      BY <2>0, <2>1, <2>5, <3>0, Sending, Distinct, Zenon DEF SendSucceeds, Target
    <3>2. /\ field' = [field EXCEPT ![t] =
                         [from |-> e, value |-> args[e].value, perm |-> SentPerm(e)]]
          /\ recving' = [recving EXCEPT ![t] = FALSE]
          /\ pc' = [pc EXCEPT ![e] = "user"]
          /\ args' = [args EXCEPT ![e] = Nothing]
      BY <2>5, <3>0, Zenon DEF SendSucceeds
    <3>3. /\ ~ Waits(t)' /\ Holds(t)'
          /\ \A x \in Envs \ {t} : (Waits(x)' <=> Waits(x)) /\ (Holds(x)' <=> Holds(x))
      BY <1>0, <2>1, <3>1, <3>2, Zenon DEF Typed, Waits, Holds
    <3>4. /\ field'[t].from = e /\ field'[t].value = args[e].value
          /\ \A x \in Envs \ {t} : field'[x] = field[x]
      BY <1>0, <3>1, <3>2, Zenon DEF Typed
    <3>5. waiting' = waiting \ {t} /\ t \in waiting
      BY <3>1, <3>3, Zenon DEF waiting
    <3>6. box' = [box EXCEPT ![t] = [from |-> e, value |-> args[e].value]]
      BY <3>1, <3>3, <3>4, Zenon DEF box, Box
    <3> QED BY <2>1, <3>1, <3>2, <3>5, <3>6, Zenon
  <2> QED BY <1>6, <2>1, <2>3, <2>4, <2>5, Zenon DEF TrySend
<1> QED BY <1>1, <1>2, <1>3, <1>4, <1>5, <1>6, Zenon DEF Next

\* The theorem of the invariant: the fields, the program counters and the
\* arguments agree in every reachable state of sys_ipc_recv, sys_ipc_try_send
\* and their library wrappers.
THEOREM Invariance == Spec => []IInv
<1>1. IInv /\ UNCHANGED vars => IInv'
  BY Zenon DEF IInv, Typed, ArgsInv, RecvInv, vars
<1> QED BY InitIInv, NextIInv, <1>1, PTL DEF Spec

\* The protocol of ipc_recv, ipc_send and the two system calls behind them
\* implements a rendezvous: a delivery takes one offer of a sender to one
\* environment that waits, once, and what the receiver takes is that offer.
THEOREM SendsMeetReceives == Spec => ImplementsRendezvous
<1>1. ASSUME IInv, [Next]_vars
      PROVE  [R!Next]_(R!vars)
  <2>1. CASE UNCHANGED vars
    BY <2>1, Zenon DEF vars, R!vars, Waits, Holds
  <2>2. CASE Next
    BY <2>2, <1>1, StepRefines, Zenon DEF R!Next, R!vars, waiting, box, Box, R!Wait, R!Take,
       R!Offer, R!Refuse, R!Leave, R!Deliver
  <2> QED BY <1>1, <2>1, <2>2, Zenon
<1> QED BY <1>1, InitRefines, Invariance, PTL DEF Spec, ImplementsRendezvous, R!Spec

\* No step of the protocol makes env_ipc_perm and the transfer disagree for an
\* environment that has yet to read them.
LEMMA PermStep ==
  ASSUME IInv, PermTellsPage, [Next]_vars
  PROVE  PermTellsPage'
<1> SUFFICES ASSUME NEW rcv \in Envs, Holds(rcv)'
             PROVE  (field[rcv].perm # "0" <=> moved[rcv] \notin {NoPage, "0"})'
  BY Zenon DEF PermTellsPage
<1>0. Typed
  BY Zenon DEF IInv
<1>1. ASSUME Holds(rcv), field'[rcv] = field[rcv], moved'[rcv] = moved[rcv]
      PROVE  (field[rcv].perm # "0" <=> moved[rcv] \notin {NoPage, "0"})'
  BY <1>1, Zenon DEF PermTellsPage
<1>2. CASE UNCHANGED vars
  BY <1>1, <1>2, Zenon DEF vars, Holds
<1>3. ASSUME NEW e \in Receivers, NEW page \in BOOLEAN, SysIpcRecv(e, page)
      PROVE  (field[rcv].perm # "0" <=> moved[rcv] \notin {NoPage, "0"})'
  BY <1>0, <1>1, <1>3, IpcAssumption, Zenon DEF Typed, SysIpcRecv, Holds
<1>4. ASSUME NEW e \in Receivers, RecvReturn(e) \/ Unmap(e)
      PROVE  (field[rcv].perm # "0" <=> moved[rcv] \notin {NoPage, "0"})'
  BY <1>0, <1>1, <1>4, IpcAssumption, Zenon DEF Typed, RecvReturn, Unmap, Holds
<1>5. ASSUME NEW e \in Senders, NEW a \in Args, IpcSend(e, a)
      PROVE  (field[rcv].perm # "0" <=> moved[rcv] \notin {NoPage, "0"})'
  BY <1>0, <1>1, <1>5, IpcAssumption, Zenon DEF Typed, IpcSend, Holds
<1>6. ASSUME NEW e \in Envs, EnvDestroy(e)
      PROVE  (field[rcv].perm # "0" <=> moved[rcv] \notin {NoPage, "0"})'
  BY <1>0, <1>1, <1>6, Zenon DEF Typed, EnvDestroy, Holds
<1>7. ASSUME NEW e \in Senders, TrySend(e)
      PROVE  (field[rcv].perm # "0" <=> moved[rcv] \notin {NoPage, "0"})'
  <2>0. Trying(e)
    BY <1>7, Zenon DEF TrySend, SendBadEnv, SendInval, SendNoMem, SendPanic, SendSucceeds, Receives
  <2>1. PICK t \in Envs : t = Target(e) /\ (Receives(e) => Waits(t) /\ t # e)
    BY <2>0, Sending, Zenon
  <2>2. e \in Envs /\ args[e] \in Args /\ pc[e] = "send"
    BY <2>0, Sending, Zenon DEF Trying
  <2>3. CASE SendBadEnv(e) \/ SendInval(e)
    <3>1. /\ pc' \in {[pc EXCEPT ![e] = "E_BAD_ENV"], [pc EXCEPT ![e] = "E_INVAL"]}
          /\ recving' = recving /\ field' = field /\ moved' = moved
      BY <2>3, Zenon DEF SendBadEnv, SendInval, SendFails
    <3> QED BY <1>0, <1>1, <2>2, <3>1, Zenon DEF Typed, Holds
  <2>4. CASE SendNoMem(e) \/ SendPanic(e)
    <3>1. /\ pc' \in {[pc EXCEPT ![e] = "E_NO_MEM"], pc} /\ recving' = recving
          /\ moved' = moved /\ field' = ClearPerm(t) /\ Waits(t)
      BY <2>1, <2>4, Zenon DEF SendNoMem, SendPanic, SendFails
    <3>2. Holds(rcv) /\ rcv # t
      BY <1>0, <2>2, <3>1, Zenon DEF Typed, Holds, Waits
    <3>3. field'[rcv] = field[rcv]
      BY <1>0, <3>1, <3>2, Zenon DEF Typed, ClearPerm
    <3> QED BY <1>1, <3>1, <3>2, <3>3, Zenon
  <2>5. CASE SendSucceeds(e)
    <3>1. /\ field' = [field EXCEPT ![t] =
                         [from |-> e, value |-> args[e].value, perm |-> SentPerm(e)]]
          /\ recving' = [recving EXCEPT ![t] = FALSE]
          /\ moved' = [moved EXCEPT ![t] = IF Transfers(e) THEN args[e].perm ELSE NoPage]
          /\ pc' = [pc EXCEPT ![e] = "user"]
      BY <2>1, <2>5, Zenon DEF SendSucceeds
    <3>2. CASE rcv = t
      <4>1. /\ field'[rcv].perm = SentPerm(e)
            /\ moved'[rcv] = IF Transfers(e) THEN args[e].perm ELSE NoPage
        BY <1>0, <3>1, <3>2, Zenon DEF Typed
      <4> QED BY <4>1 DEF SentPerm, Transfers, HasPage, NoPage
    <3>3. CASE rcv # t
      BY <1>0, <1>1, <2>2, <3>1, <3>3, Zenon DEF Typed, Holds
    <3> QED BY <3>2, <3>3, Zenon
  <2> QED BY <1>7, <2>3, <2>4, <2>5, Zenon DEF TrySend
<1> QED BY <1>2, <1>3, <1>4, <1>5, <1>6, <1>7, Zenon DEF Next

\* "this is nonzero iff a page was successfully transferred": what ipc_recv()
\* stores in *perm_store tells whether a page came with a permission bit.  (A page
\* that came without any is not announced.)
THEOREM PermIsTrue == Spec => []PermTellsPage
<1>1. Init => PermTellsPage
  BY Zenon DEF Init, PermTellsPage, Holds
<1> QED BY <1>1, PermStep, Invariance, PTL DEF Spec

-----------------------------------------------------------------------------
\* Multiples of a number are at least that number apart.
LEMMA Apart ==
  ASSUME NEW P \in Nat \ {0}, NEW k \in Int, NEW n \in Int, k < n
  PROVE  P * k + P <= P * n
<1>1. PICK d \in Nat : n = k + 1 + d
  BY n - k - 1 \in Nat
<1>2. P * d >= 0
  OBVIOUS
<1>3. P * n = P * k + P + P * d
  BY <1>1
<1> QED BY <1>2, <1>3

\* Division with remainder
LEMMA Division ==
  ASSUME NEW P \in Nat \ {0}, NEW a \in Nat
  PROVE  /\ a \div P \in Nat /\ a % P \in 0 .. P - 1
         /\ a = P * (a \div P) + (a % P)
<1>1. a \div P \in Int /\ a % P \in 0 .. P - 1 /\ a = P * (a \div P) + (a % P)
  OBVIOUS
<1>2. a \div P >= 0
  <2> SUFFICES ASSUME a \div P < 0 PROVE FALSE
    BY <1>1
  <2>1. P * (a \div P) + P <= P * 0
    BY <1>1, Apart
  <2> QED BY <1>1, <2>1
<1> QED BY <1>1, <1>2

\* The quotient is the only one.
LEMMA Quotient ==
  ASSUME NEW P \in Nat \ {0}, NEW a \in Nat, NEW q \in Int, P * q <= a, a < P * q + P
  PROVE  a \div P = q /\ a % P = a - P * q
<1>1. PICK d \in Nat : d = a \div P
  BY Division, Zenon
<1>2. PICK z \in 0 .. P - 1 : z = a % P
  BY Division, Zenon
<1>3. a = P * d + z
  BY <1>1, <1>2, Division, Zenon
<1>4. P * d \in Int /\ P * q \in Int
  OBVIOUS
<1>5. CASE d < q
  <2>1. P * d + P <= P * q
    BY <1>5, Apart
  <2> QED BY <1>3, <1>4, <2>1
<1>6. CASE q < d
  <2>1. P * q + P <= P * d
    BY <1>6, Apart
  <2> QED BY <1>3, <1>4, <2>1
<1>7. CASE d = q
  <2>1. z = a - P * q
    BY <1>3, <1>4, <1>7
  <2> QED BY <1>1, <1>2, <1>7, <2>1, Zenon
<1> QED BY <1>5, <1>6, <1>7

\* An address from the start of another one's page up to the next page
SamePage(x, a) ==
  ROUNDDOWN(x) <= a /\ a < ROUNDDOWN(x) + PGSIZE =>
    Page(a) = Page(x) /\ (x < ULIM <=> a < ULIM)

\* The start of an address' page: the addresses up to the next one are in the same
\* page and on the same side of ULIM, and the next page is the next one's.
LEMMA PageStart ==
  ASSUME UserMemAssumption, NEW x \in Nat
  PROVE  /\ ROUNDDOWN(x) \in Nat /\ ROUNDDOWN(x) <= x /\ x < ROUNDDOWN(x) + PGSIZE
         /\ ROUNDDOWN(x + PGSIZE) = ROUNDDOWN(x) + PGSIZE
         /\ x % PGSIZE = 0 => ROUNDDOWN(x) = x
         /\ \A a \in Nat : SamePage(x, a)
<1>1. PGSIZE \in Nat \ {0} /\ ULIM \in Nat /\ ULIM % PGSIZE = 0
  BY DEF UserMemAssumption
<1>2. PICK q \in Nat : q = x \div PGSIZE
  BY <1>1, Division, Zenon
<1>3. PICK z \in 0 .. PGSIZE - 1 : z = x % PGSIZE
  BY <1>1, Division, Zenon
<1>4. x = PGSIZE * q + z
  BY <1>1, <1>2, <1>3, Division, Zenon
<1>5. PGSIZE * q \in Nat
  BY <1>1
<1>6. ROUNDDOWN(x) = PGSIZE * q
  BY <1>1, <1>3, <1>4, <1>5 DEF ROUNDDOWN
<1>7. PICK u \in Nat : u = ULIM \div PGSIZE /\ ULIM = PGSIZE * u
  BY <1>1, Division
<1>8. PGSIZE * (q + 1) = PGSIZE * q + PGSIZE
  BY <1>1
<1>9. ROUNDDOWN(x + PGSIZE) = ROUNDDOWN(x) + PGSIZE
  <2>1. PICK y \in Nat, k \in Nat : y = x + PGSIZE /\ k = q + 1
    BY <1>1
  <2>2. PGSIZE * k <= y /\ y < PGSIZE * k + PGSIZE /\ PGSIZE * k = PGSIZE * q + PGSIZE
    BY <1>1, <1>3, <1>4, <1>5, <1>8, <2>1
  <2>3. y % PGSIZE = y - PGSIZE * k
    BY <1>1, <2>2, k \in Int, Quotient, Zenon
  <2>4. ROUNDDOWN(y) = PGSIZE * k
    BY <1>1, <1>5, <2>2, <2>3 DEF ROUNDDOWN
  <2> QED BY <1>6, <2>1, <2>2, <2>4, Zenon
<1>10. ASSUME NEW a \in Nat, PGSIZE * q <= a, a < PGSIZE * q + PGSIZE
       PROVE  Page(a) = Page(x) /\ (x < ULIM <=> a < ULIM)
  <2>1. Page(a) = Page(x)
    <3>1. a \div PGSIZE = q
      BY <1>1, <1>10, Quotient
    <3> QED BY <1>2, <3>1, Zenon DEF Page
  <2>2. CASE q < u
    <3>1. PGSIZE * q + PGSIZE <= PGSIZE * u
      BY <1>1, <2>2, Apart
    <3> QED BY <1>1, <1>3, <1>4, <1>5, <1>7, <1>10, <2>1, <3>1
  <2>3. CASE q >= u
    <3>1. PGSIZE * u <= PGSIZE * q
      <4>1. CASE q = u
        BY <1>5, <4>1
      <4>2. CASE u < q
        BY <1>1, <1>5, <1>7, <4>2, Apart
      <4> QED BY <2>3, <4>1, <4>2
    <3> QED BY <1>1, <1>3, <1>4, <1>5, <1>7, <1>10, <2>1, <3>1
  <2> QED BY <2>2, <2>3
<1>11. \A a \in Nat : SamePage(x, a)
  BY <1>6, <1>10, Zenon DEF SamePage
<1> QED BY <1>1, <1>3, <1>4, <1>5, <1>6, <1>9, <1>11

\* The addresses of the range before the page that the loop is at are good.
Good(b) == \A a \in Addrs : va <= a /\ a < b => ~Rejected(a)

\* The loop goes from page to page and ends at the end of the range.
LoopInv ==
  result = "none" =>
    /\ va_cnt + iterate_len = va + len
    /\ va_cnt >= va /\ va_cnt <= va + len
    /\ iterate_len = len => va_cnt = va
    /\ iterate_len # len => va_cnt >= va + PGSIZE /\ va_cnt < va + len
    /\ va % PGSIZE = 0 => ROUNDDOWN(va_cnt) = va_cnt
    /\ Good(ROUNDDOWN(va_cnt))
    /\ va_cnt # va => ~Rejected(va)

\* After an answer the range is known.
EndInv ==
  /\ result = "ok" => ~Rejected(va) /\ (va % PGSIZE = 0 => Good(va + len))
  /\ result = "fault" =>
       /\ Rejected(user_mem_check_addr)
       /\ user_mem_check_addr = va
            \/ (va <= user_mem_check_addr /\ user_mem_check_addr < va + len)
       /\ user_mem_check_addr \in Addrs
       /\ Good(user_mem_check_addr)

UInv ==
  /\ va \in Addrs /\ len \in Addrs /\ result \in {"none", "ok", "fault"}
  /\ Proper =>
       va_cnt \in Addrs /\ iterate_len \in Addrs /\ LoopInv /\ EndInv

\* The loop starts at va.
LEMMA UInit ==
  ASSUME UserMemAssumption, InitCheck
  PROVE  UInv
<1>1. WORD \in Nat /\ va \in Nat /\ len \in Nat
  BY DEF UserMemAssumption, InitCheck, Addrs
<1>2. ROUNDDOWN(va) <= va /\ ROUNDDOWN(va) \in Nat /\ (va % PGSIZE = 0 => ROUNDDOWN(va) = va)
  BY <1>1, PageStart, Zenon
<1>3. Good(ROUNDDOWN(va))
  BY <1>1, <1>2 DEF Good, Addrs
<1> QED BY <1>1, <1>2, <1>3 DEF UInv, LoopInv, EndInv, InitCheck, Addrs

\* An iteration that accepts its page makes the next one's start the bound.
LEMMA PageAccepted ==
  ASSUME UserMemAssumption, va \in Nat, va_cnt \in Nat, va_cnt < WORD,
         ~Rejected(va_cnt), Good(ROUNDDOWN(va_cnt))
  PROVE  Good(ROUNDDOWN(va_cnt) + PGSIZE)
<1>1. PICK b \in Nat : b = ROUNDDOWN(va_cnt)
  BY PageStart, Zenon
<1>2. PGSIZE \in Nat /\ WORD \in Nat /\ ULIM \in Nat
  BY DEF UserMemAssumption
<1> SUFFICES ASSUME NEW a \in Addrs, va <= a, a < b + PGSIZE PROVE ~Rejected(a)
  BY <1>1, Zenon DEF Good
<1>3. a \in Nat
  BY <1>2 DEF Addrs
<1>4. CASE a < b
  BY <1>1, <1>4, Zenon DEF Good
<1>5. CASE b <= a
  <2>1. Page(a) = Page(va_cnt) /\ (va_cnt < ULIM <=> a < ULIM)
    <3>1. SamePage(va_cnt, a)
      BY <1>3, PageStart, Zenon
    <3> QED BY <1>1, <1>5, <3>1, Zenon DEF SamePage
  <2>2. va_cnt < ULIM /\ Page(va_cnt) \in allowed
    BY <1>2 DEF Rejected
  <2> QED BY <1>2, <1>3, <2>1, <2>2 DEF Rejected
<1> QED BY <1>1, <1>3, <1>4, <1>5

\* An iteration that gives up
LEMMA FailInv ==
  ASSUME UserMemAssumption, UInv, Fail
  PROVE  UInv'
<1>1. /\ result = "none" /\ result' = "fault" /\ Rejected(va_cnt)
      /\ user_mem_check_addr' = BadAddr
      /\ allowed' = allowed /\ va' = va /\ len' = len /\ va_cnt' = va_cnt /\ iterate_len' = iterate_len
  BY Zenon DEF Fail
<1>2. (\A a : Rejected(a)' <=> Rejected(a)) /\ (\A b : Good(b)' <=> Good(b)) /\ (Proper' <=> Proper)
      /\ Addrs' = Addrs
  BY <1>1, Zenon DEF Rejected, Good, Proper, Addrs
<1> SUFFICES ASSUME Proper PROVE LoopInv' /\ EndInv'
  BY <1>1, <1>2, Zenon DEF UInv
<1>3. /\ PGSIZE \in Nat \ {0} /\ WORD \in Nat /\ ULIM \in Nat
      /\ va \in Nat /\ len \in Nat /\ va_cnt \in Nat /\ iterate_len \in Nat /\ va_cnt < WORD /\ va < WORD
  BY DEF UserMemAssumption, UInv, Addrs
<1>4. LoopInv
  BY Zenon DEF UInv
<1>5. LoopInv'
  BY <1>1, Zenon DEF LoopInv
<1>6. CASE iterate_len = len
  <2>1. va_cnt = va /\ user_mem_check_addr' = va
    BY <1>1, <1>4, <1>6, Zenon DEF LoopInv, BadAddr
  <2>2. Good(va)
    BY <1>3 DEF Good, Addrs
  <2> QED BY <1>1, <1>2, <1>3, <1>5, <2>1, <2>2, Zenon DEF EndInv, UInv
<1>7. CASE iterate_len # len
  <2>1. PICK b \in Nat : b = ROUNDDOWN(va_cnt) /\ b <= va_cnt /\ va_cnt < b + PGSIZE
    BY <1>3, PageStart, Zenon
  <2>2. user_mem_check_addr' = b
    BY <1>1, <1>7, <2>1, Zenon DEF BadAddr
  <2>3. va_cnt >= va + PGSIZE /\ va_cnt < va + len /\ Good(b)
    BY <1>1, <1>4, <1>7, <2>1, Zenon DEF LoopInv
  <2>4. Page(b) = Page(va_cnt) /\ (va_cnt < ULIM <=> b < ULIM)
    <3>1. SamePage(va_cnt, b)
      BY <1>3, PageStart, Zenon
    <3> QED BY <1>3, <2>1, <3>1 DEF SamePage
  <2>5. Rejected(b)
    BY <1>1, <1>3, <2>4 DEF Rejected
  <2>6. b \in Addrs /\ va <= b /\ b < va + len
    BY <1>3, <2>1, <2>3 DEF Addrs
  <2> QED BY <1>1, <1>2, <1>5, <2>2, <2>3, <2>5, <2>6, Zenon DEF EndInv
<1> QED BY <1>6, <1>7, Zenon

\* An iteration that accepts
LEMMA AcceptInv ==
  ASSUME UserMemAssumption, UInv, Accept
  PROVE  UInv'
<1>1. /\ result = "none" /\ ~Rejected(va_cnt)
      /\ va_cnt' = (va_cnt + (IF iterate_len < PGSIZE THEN iterate_len ELSE PGSIZE)) % WORD
      /\ iterate_len' = Left(iterate_len)
      /\ result' = IF Goes(va_cnt') THEN "none" ELSE "ok"
      /\ allowed' = allowed /\ va' = va /\ len' = len
  BY Zenon DEF Accept
<1>2. (\A a : Rejected(a)' <=> Rejected(a)) /\ (\A b : Good(b)' <=> Good(b)) /\ (Proper' <=> Proper)
      /\ Addrs' = Addrs
  BY <1>1, Zenon DEF Rejected, Good, Proper, Addrs
<1> SUFFICES ASSUME Proper
             PROVE  va_cnt' \in Addrs /\ iterate_len' \in Addrs /\ LoopInv' /\ EndInv'
  BY <1>1, <1>2, Zenon DEF UInv
<1>3. /\ PGSIZE \in Nat \ {0} /\ WORD \in Nat /\ ULIM \in Nat
      /\ va \in Nat /\ len \in Nat /\ va_cnt \in Nat /\ iterate_len \in Nat /\ va_cnt < WORD /\ va < WORD
      /\ va + len < WORD
  BY DEF UserMemAssumption, UInv, Addrs, Proper
<1>4. LoopInv
  BY Zenon DEF UInv
<1>5. PICK n \in Nat : n = IF iterate_len < PGSIZE THEN iterate_len ELSE PGSIZE
  BY <1>3, Zenon
<1>6. va_cnt + n <= va + len
  BY <1>1, <1>3, <1>4, <1>5 DEF LoopInv
<1>7. va_cnt' = va_cnt + n
  <2>1. PICK w \in Nat : w = va_cnt + n /\ w < WORD
    BY <1>3, <1>6
  <2>2. WORD * 0 = 0 /\ WORD \in Nat \ {0}
    BY <1>3
  <2>3. w % WORD = w
    BY <2>1, <2>2
  <2> QED BY <1>1, <1>5, <2>1, <2>3, Zenon
<1>8. result' = IF va_cnt' < va + len THEN "none" ELSE "ok"
  <2>1. PICK w \in Nat : w = va + len /\ w < WORD
    BY <1>3
  <2>2. w % WORD = w
    BY <1>3, <2>1
  <2> QED BY <1>1, <2>1, <2>2, Zenon DEF Goes
<1>9. PICK b \in Nat : b = ROUNDDOWN(va_cnt) /\ b <= va_cnt /\ va_cnt < b + PGSIZE
  BY <1>3, PageStart, Zenon
<1>10. Good(b + PGSIZE)
  BY <1>1, <1>3, <1>4, <1>9, PageAccepted, Zenon DEF LoopInv
<1>11. ~Rejected(va)
  BY <1>1, <1>4, Zenon DEF LoopInv
<1>12. CASE iterate_len < PGSIZE
  <2>1. va_cnt' = va + len /\ iterate_len' = iterate_len /\ result' = "ok"
    BY <1>1, <1>3, <1>4, <1>5, <1>7, <1>8, <1>12 DEF LoopInv, Left
  <2>2. va % PGSIZE = 0 => Good(va + len)
    <3> SUFFICES ASSUME va % PGSIZE = 0 PROVE Good(va + len)
      BY Zenon
    <3>1. b = va_cnt
      BY <1>1, <1>4, <1>9, Zenon DEF LoopInv
    <3>2. va + len <= b + PGSIZE
      BY <1>1, <1>3, <1>4, <1>12, <3>1 DEF LoopInv
    <3> QED BY <1>3, <1>10, <3>2 DEF Good, Addrs
  <2> QED BY <1>1, <1>2, <1>3, <1>11, <2>1, <2>2 DEF LoopInv, EndInv, Addrs, UInv
<1>13. CASE iterate_len >= PGSIZE
  <2>1. va_cnt' = va_cnt + PGSIZE /\ iterate_len' = iterate_len - PGSIZE
    BY <1>1, <1>3, <1>5, <1>7, <1>13 DEF Left
  <2>2. ROUNDDOWN(va_cnt') = b + PGSIZE
    BY <1>3, <1>9, <2>1, PageStart, Zenon
  <2>3. va_cnt' \in Addrs /\ iterate_len' \in Addrs
    BY <1>3, <1>5, <1>6, <1>13, <2>1 DEF Addrs, UInv
  <2>4. iterate_len <= len /\ (iterate_len = len => va_cnt = va)
    BY <1>1, <1>3, <1>4 DEF LoopInv
  <2>5. va % PGSIZE = 0 => b = va_cnt
    BY <1>1, <1>4, <1>9, Zenon DEF LoopInv
  <2>6. LoopInv'
    <3> SUFFICES ASSUME result' = "none"
                 PROVE  /\ va_cnt' + iterate_len' = va + len
                        /\ va_cnt' >= va /\ va_cnt' <= va + len
                        /\ iterate_len' = len => va_cnt' = va
                        /\ iterate_len' # len => va_cnt' >= va + PGSIZE /\ va_cnt' < va + len
                        /\ va % PGSIZE = 0 => ROUNDDOWN(va_cnt') = va_cnt'
                        /\ Good(ROUNDDOWN(va_cnt'))
                        /\ va_cnt' # va => ~Rejected(va)
      BY <1>1, <1>2, Zenon DEF LoopInv
    <3>1. va_cnt' < va + len
      BY <1>8, Zenon
    <3>2. va_cnt + iterate_len = va + len /\ va_cnt >= va
      BY <1>1, <1>4, Zenon DEF LoopInv
    <3>3. Good(ROUNDDOWN(va_cnt')) /\ ~Rejected(va)
      BY <1>10, <1>11, <2>2, Zenon
    <3> QED BY <1>3, <1>13, <2>1, <2>2, <2>4, <2>5, <3>1, <3>2, <3>3
  <2>7. EndInv'
    <3>1. CASE result' = "none"
      BY <3>1, Zenon DEF EndInv
    <3>2. CASE result' = "ok"
      <4>1. va_cnt' = va + len
        BY <1>3, <1>6, <1>7, <1>8, <3>2
      <4>2. va % PGSIZE = 0 => Good(va + len)
        BY <1>10, <2>1, <2>5, <4>1, Zenon
      <4> QED BY <1>1, <1>2, <1>11, <3>2, <4>2, Zenon DEF EndInv
    <3> QED BY <1>8, <3>1, <3>2, Zenon
  <2> QED BY <2>3, <2>6, <2>7, Zenon
<1> QED BY <1>3, <1>12, <1>13

\* Every step keeps the invariant.
LEMMA UNext ==
  ASSUME UserMemAssumption, UInv, [NextCheck]_varsCheck
  PROVE  UInv'
<1>1. CASE Assert \/ UNCHANGED varsCheck
  <2>1. /\ allowed' = allowed /\ va' = va /\ len' = len /\ va_cnt' = va_cnt
        /\ iterate_len' = iterate_len /\ result' = result /\ user_mem_check_addr' = user_mem_check_addr
    BY <1>1, Zenon DEF Assert, varsCheck
  <2> QED BY <2>1, Zenon DEF UInv, Addrs, Proper, LoopInv, EndInv, Good, Rejected, Page, ROUNDDOWN
<1> QED BY <1>1, FailInv, AcceptInv, Zenon DEF NextCheck

\* The invariant implies that the answer is right.
LEMMA UImplies == ASSUME UserMemAssumption PROVE UInv => AnswerRight
<1> SUFFICES ASSUME UInv PROVE AnswerRight
  BY Zenon
<1>1. /\ PGSIZE \in Nat \ {0} /\ WORD \in Nat /\ ULIM \in Nat /\ va \in Nat /\ len \in Nat
  BY DEF UserMemAssumption, UInv, Addrs
<1>2. FirstBadReported
  <2> SUFFICES ASSUME result = "fault", Proper
               PROVE  /\ Rejected(user_mem_check_addr)
                      /\ user_mem_check_addr \in Asked \cup {va}
                      /\ \A a \in Asked : a < user_mem_check_addr => ~ Rejected(a)
    BY Zenon DEF FirstBadReported
  <2>1. EndInv
    BY Zenon DEF UInv
  <2> QED BY <2>1, Zenon DEF EndInv, Good, Asked
<1>3. AlignedRangeChecked
  <2> SUFFICES ASSUME result = "ok", Proper, NEW a \in Asked,
                      va % PGSIZE = 0 \/ (len > 0 /\ Page(va) = Page(va + len - 1))
               PROVE  ~Rejected(a)
    BY Zenon DEF AlignedRangeChecked
  <2>1. ~Rejected(va) /\ (va % PGSIZE = 0 => Good(va + len))
    BY Zenon DEF UInv, EndInv
  <2>2. a \in Addrs /\ va <= a /\ a < va + len /\ a \in Nat
    BY <1>1 DEF Asked, Addrs
  <2>3. CASE va % PGSIZE = 0
    BY <2>1, <2>2, <2>3, Zenon DEF Good
  <2>4. CASE len > 0 /\ Page(va) = Page(va + len - 1)
    <3>1. PICK b \in Nat : b = ROUNDDOWN(va) /\ b <= va /\ va < b + PGSIZE
      BY <1>1, PageStart, Zenon
    <3>2. a < b + PGSIZE
      <4>1. PICK y \in Nat : y = va + len - 1
        BY <1>1, <2>4
      <4>2. PICK c \in Nat : c = ROUNDDOWN(y) /\ y < c + PGSIZE
        BY <4>1, PageStart, Zenon
      <4>3. b = PGSIZE * Page(va) /\ c = PGSIZE * Page(y)
        <5>1. va = PGSIZE * (va \div PGSIZE) + (va % PGSIZE) /\ y = PGSIZE * (y \div PGSIZE) + (y % PGSIZE)
          BY <1>1, Division, Zenon
        <5>2. PICK d \in Nat, e \in Nat : d = va \div PGSIZE /\ e = y \div PGSIZE
          BY <1>1, Division, Zenon
        <5>3. PICK z \in 0 .. PGSIZE - 1, s \in 0 .. PGSIZE - 1 : z = va % PGSIZE /\ s = y % PGSIZE
          BY <1>1, Division, Zenon
        <5>4. PGSIZE * d \in Nat /\ PGSIZE * e \in Nat
          BY <1>1
        <5>5. va - z = PGSIZE * d /\ y - s = PGSIZE * e
          BY <1>1, <5>1, <5>2, <5>3, <5>4
        <5> QED BY <3>1, <4>2, <5>2, <5>3, <5>5, Zenon DEF Page, ROUNDDOWN
      <4>4. b = c
        BY <2>4, <4>1, <4>3, Zenon
      <4> QED BY <1>1, <2>2, <4>1, <4>2, <4>4
    <3>3. Page(a) = Page(va) /\ (va < ULIM <=> a < ULIM)
      <4>1. SamePage(va, a)
        BY <1>1, <2>2, PageStart, Zenon
      <4>2. b <= a
        BY <1>1, <2>2, <3>1
      <4> QED BY <3>1, <3>2, <4>1, <4>2, Zenon DEF SamePage
    <3> QED BY <1>1, <2>1, <2>2, <3>3 DEF Rejected
  <2> QED BY <2>3, <2>4, Zenon
<1> QED BY <1>2, <1>3, Zenon DEF AnswerRight

\* For every page size, address space and set of accessible pages: when
\* user_mem_check() says no it reports the first bad address of the range, and when it
\* says yes to a range that is aligned or inside one page, all of it may be accessed.
THEOREM AnswersAreRight == ASSUME UserMemAssumption PROVE SpecCheck => []AnswerRight
<1>1. InitCheck => UInv
  BY UInit, Zenon
<1>2. UInv /\ [NextCheck]_varsCheck => UInv'
  BY UNext, Zenon
<1> QED BY <1>1, <1>2, UImplies, PTL DEF SpecCheck

-----------------------------------------------------------------------------
\* A handler's stack stays on the exception stack.  That is up to the program:
\* a handler that has run off the stack gets its next frame over its own
\* (kern/trap.c), which the kernel cannot tell from a first fault.
OnStack == Len(faults) > 0 => UXSTACKBASE <= user_regs.esp

\* What the registers of a program hold.
Held ==
  {<<"start">>, <<"_pgfault_upcall">>} \cup
  {<<"eip", x>> : x \in Codes} \cup {<<"gpr", x>> : x \in Codes} \cup {<<"fl", x>> : x \in Codes}

Registers == [eip : Held, gpr : Held, eflags : Held, esp : Nat]

Fault == [regs : Registers, utf : Nat]

EspOf(f) == f.regs.esp
UtfOf(f) == f.utf

\* The frame of fault f, in the memory words, still holds the registers of the fault.
Kept(words, f) ==
  /\ words[f.utf + 2] = f.regs.gpr
  /\ words[f.utf + 10] = f.regs.eip
  /\ words[f.utf + 11] = f.regs.eflags
  /\ words[f.utf + 12] = <<"esp", f.regs.esp>>

\* Types.
Shape ==
  /\ DOMAIN mem = Words
  /\ user_regs \in Registers
  /\ faults \in Seq(Fault)

\* The frames lie inside the exception stack, each with a word of scratch below
\* the one before; a recursive fault happened right above that word.
Layout(fs) ==
  /\ \A i \in 1 .. Len(fs) : UXSTACKBASE <= UtfOf(fs[i]) /\ UtfOf(fs[i]) + 13 <= UXSTACKTOP
  /\ \A i, j \in 1 .. Len(fs) : i < j => UtfOf(fs[j]) + 14 <= UtfOf(fs[i])
  /\ \A i \in 1 .. Len(fs) : i > 1 => EspOf(fs[i]) = UtfOf(fs[i]) + 14
  /\ \A i \in 1 .. Len(fs) : i = 1 => EspOf(fs[i]) <= USTACKTOP

\* The stack pointer is not above the one that the running code was entered with.
BelowStack(fs, esp) ==
  /\ Len(fs) = 0 => esp <= USTACKTOP
  /\ Len(fs) > 0 => esp <= UtfOf(fs[Len(fs)])

Stored(words, fs) == \A i \in 1 .. Len(fs) : Kept(words, fs[i])

PInv == Shape /\ Layout(faults) /\ BelowStack(faults, user_regs.esp) /\ Stored(mem, faults)

-----------------------------------------------------------------------------
\* The faults that are left when the innermost one has been handled.
LEMMA Fronts ==
  ASSUME NEW S, NEW s \in Seq(S), Len(s) > 0
  PROVE  /\ SubSeq(s, 1, Len(s) - 1) \in Seq(S)
         /\ Len(SubSeq(s, 1, Len(s) - 1)) = Len(s) - 1
         /\ \A i \in 1 .. Len(s) - 1 : SubSeq(s, 1, Len(s) - 1)[i] = s[i]
         /\ s[Len(s)] \in S
  <1>1. Len(s) \in Nat /\ Len(s) - 1 \in Nat /\ Len(s) \in 1 .. Len(s)
    OBVIOUS
  <1>2. s[Len(s)] \in S
    BY <1>1
  <1>3. \A i \in 1 .. Len(s) - 1 : s[i] \in S
    BY <1>1
  <1>4. SubSeq(s, 1, Len(s) - 1) = [i \in 1 .. Len(s) - 1 |-> s[i]]
    BY <1>1
  <1>5. [i \in 1 .. Len(s) - 1 |-> s[i]] \in Seq(S)
    BY <1>1, <1>3
  <1>6. Len([i \in 1 .. Len(s) - 1 |-> s[i]]) = Len(s) - 1
    BY <1>1
  <1> QED  BY <1>2, <1>4, <1>5, <1>6, Zenon

\* Append(), which page_fault_handler() uses for a new fault.
LEMMA Appends ==
  ASSUME NEW S, NEW s \in Seq(S), NEW e \in S
  PROVE  /\ Append(s, e) \in Seq(S)
         /\ Len(Append(s, e)) = Len(s) + 1
         /\ \A i \in 1 .. Len(s) : Append(s, e)[i] = s[i]
         /\ Append(s, e)[Len(s) + 1] = e
  OBVIOUS

\* The fields of a fault.
LEMMA Fields ==
  ASSUME NEW f \in Fault
  PROVE  EspOf(f) \in Nat /\ UtfOf(f) \in Nat /\ f.regs \in Registers
  BY Zenon DEF Fault, Registers, EspOf, UtfOf

\* A frame's words keep what they hold when nothing from utf up is written
\* there.
LEMMA KeptKept ==
  ASSUME NEW words, NEW n, NEW f \in Fault, Kept(words, f),
         \A a \in f.utf .. f.utf + 12 : n[a] = words[a]
  PROVE  Kept(n, f)
  <1>1. f.utf \in Nat
    BY Zenon DEF Fault
  <1>2. /\ f.utf + 2 \in f.utf .. f.utf + 12 /\ f.utf + 10 \in f.utf .. f.utf + 12
        /\ f.utf + 11 \in f.utf .. f.utf + 12 /\ f.utf + 12 \in f.utf .. f.utf + 12
    BY <1>1
  <1> QED  BY <1>2, Zenon DEF Kept

\* The stack pointer with which the running code was entered.
LEMMA Entry ==
  ASSUME Shape
  PROVE  /\ Len(faults) = 0 => EntrySp = USTACKTOP
         /\ Len(faults) > 0 => EntrySp = UtfOf(faults[Len(faults)])
         /\ Len(faults) \in Nat
         /\ faults = << >> <=> Len(faults) = 0
  <1>1. /\ Len(faults) \in Nat
        /\ faults = << >> <=> Len(faults) = 0
    BY DEF Shape
  <1> QED  BY <1>1 DEF EntrySp, Innermost, UtfOf

-----------------------------------------------------------------------------
\* The words of the frames up to the n-th, and the stacks that their faults
\* interrupted.
Guarded(n, a) == a < USTACKTOP \/ a >= UtfOf(faults[n])

\* The part of FaultStep about the i-th fault.
StackKept(i) ==
  LET sp  == faults[i].regs.esp
      top == IF i = 1 THEN USTACKTOP ELSE faults[i - 1].utf + UTRAP_SIZE
  IN  \A a \in Words : sp <= a /\ a < top => mem'[a] = mem[a]

\* When no word is written from the n-th frame up, then the frames and the
\* stacks of the first n faults are kept.
LEMMA GuardedKept ==
  ASSUME PgFaultAssumption, PInv, NEW n \in 1 .. Len(faults),
         \A a \in Words : Guarded(n, a) => mem'[a] = mem[a]
  PROVE  \A i \in 1 .. n : Kept(mem', faults[i]) /\ StackKept(i)
  <1> SUFFICES ASSUME NEW i \in 1 .. n
               PROVE  Kept(mem', faults[i]) /\ StackKept(i)
    BY Zenon
  <1>1. Len(faults) \in Nat
    BY DEF PInv, Shape
  <1>2. i \in 1 .. Len(faults) /\ i \in Nat /\ n \in Nat /\ i <= n
    BY <1>1
  <1>3. faults[i] \in Fault /\ faults[n] \in Fault
    BY <1>1, <1>2 DEF PInv, Shape
  <1>4. UtfOf(faults[n]) <= UtfOf(faults[i])
    <2>1. CASE i = n
      BY <2>1, <1>3, Fields
    <2>2. CASE i < n
      <3>1. UtfOf(faults[n]) + 14 <= UtfOf(faults[i])
        BY <2>2, <1>2, Zenon DEF PInv, Layout
      <3> QED  BY <3>1, <1>3, Fields
    <2> QED  BY <2>1, <2>2, <1>2
  <1>5. Kept(mem', faults[i])
    <2>1. Kept(mem, faults[i])
      BY <1>2, Zenon DEF PInv, Stored
    <2>2. UXSTACKBASE <= UtfOf(faults[i]) /\ UtfOf(faults[i]) + 13 <= UXSTACKTOP
      BY <1>2, Zenon DEF PInv, Layout
    <2>3. ASSUME NEW a \in UtfOf(faults[i]) .. UtfOf(faults[i]) + 12
          PROVE  mem'[a] = mem[a]
      <3>1. a \in Words
        <4>1. UtfOf(faults[i]) \in Nat /\ UXSTACKBASE \in Nat /\ UXSTACKTOP \in Nat
          BY <1>3, Fields, Zenon DEF PgFaultAssumption
        <4>2. a \in UXSTACKBASE .. UXSTACKTOP - 1
          BY <2>2, <4>1
        <4> QED  BY <4>2, Zenon DEF Words
      <3>2. Guarded(n, a)
        BY <1>4, <1>3, Fields DEF Guarded
      <3> QED  BY <3>1, <3>2, Zenon
    <2> QED  BY <2>1, <2>3, <1>3, KeptKept, Zenon DEF UtfOf
  <1>6. StackKept(i)
    <2> SUFFICES ASSUME NEW a \in Words, faults[i].regs.esp <= a,
                        a < IF i = 1 THEN USTACKTOP ELSE faults[i - 1].utf + UTRAP_SIZE
                 PROVE  mem'[a] = mem[a]
      BY Zenon DEF StackKept
    <2>1. CASE i = 1
      BY <2>1, Zenon DEF Guarded
    <2>2. CASE i # 1
      <3>1. EspOf(faults[i]) = UtfOf(faults[i]) + 14
        BY <2>2, <1>2 DEF PInv, Layout
      <3>2. EspOf(faults[i]) <= a
        BY Zenon DEF EspOf
      <3>3. a \in Int
        BY DEF Words, PgFaultAssumption
      <3>4. a >= UtfOf(faults[n])
        BY <3>1, <3>2, <3>3, <1>3, <1>4, Fields
      <3> QED  BY <3>4, Zenon DEF Guarded
    <2> QED  BY <2>1, <2>2, Zenon
  <1> QED  BY <1>5, <1>6, Zenon

-----------------------------------------------------------------------------
\* Memory is made of the two stacks.
LEMMA WordsAre ==
  ASSUME PgFaultAssumption
  PROVE  \A a \in Words : a \in Int /\ (a < USTACKTOP \/ a >= UXSTACKBASE)
  BY DEF Words, PgFaultAssumption

\* The values that a program puts in its registers.
LEMMA HeldValues ==
  ASSUME NEW x \in Codes
  PROVE  <<"eip", x>> \in Held /\ <<"gpr", x>> \in Held /\ <<"fl", x>> \in Held
  BY Zenon DEF Held

\* What a step keeps and what it returns to.
StepRight == PInv' /\ ReturnStep /\ FaultStep

\* A step that neither begins nor ends a fault, and writes no guarded word, is
\* right if the registers stay in their range.
LEMMA SameFaults ==
  ASSUME PgFaultAssumption, PInv, faults' = faults,
         DOMAIN mem' = Words, user_regs' \in Registers, BelowStack(faults, user_regs'.esp),
         Len(faults) > 0 => \A a \in Words : Guarded(Len(faults), a) => mem'[a] = mem[a]
  PROVE  StepRight
  <1>1. Len(faults) \in Nat
    BY DEF PInv, Shape
  <1>2. \A i \in 1 .. Len(faults) : Kept(mem', faults[i]) /\ StackKept(i)
    <2>1. CASE Len(faults) = 0
      BY <2>1
    <2>2. CASE Len(faults) > 0
      <3>1. Len(faults) \in 1 .. Len(faults)
        BY <2>2, <1>1
      <3> QED  BY <3>1, <2>2, GuardedKept, Zenon
    <2> QED  BY <2>1, <2>2, <1>1
  <1>3. Stored(mem', faults')
    BY <1>2, Zenon DEF Stored
  <1>4. Layout(faults')
    BY Zenon DEF PInv
  <1>5. BelowStack(faults', user_regs'.esp)
    BY Zenon
  <1>6. Shape'
    BY Zenon DEF PInv, Shape, Words
  <1>7. ReturnStep
    BY <1>1 DEF ReturnStep
  <1>8. FaultStep
    BY <1>2, Zenon DEF FaultStep, StackKept
  <1>9. PInv'
    BY <1>3, <1>4, <1>5, <1>6, Zenon DEF PInv
  <1> QED  BY <1>7, <1>8, <1>9, Zenon DEF StepRight

\* The program runs: it writes its own words and forgets those below.
LEMMA RunRight ==
  ASSUME PgFaultAssumption, PInv, OnStack', NEW x \in Codes, NEW k \in Depths, Run(x, k)
  PROVE  StepRight
  <1>1. faults' = faults /\ k \in Nat /\ k <= EntrySp
    BY Zenon DEF Run, PgFaultAssumption
  <1>2. user_regs' = [eip |-> <<"eip", x>>, gpr |-> <<"gpr", x>>, eflags |-> <<"fl", x>>,
                      esp |-> EntrySp - k]
    BY Zenon DEF Run
  <1>3. user_regs'.esp = EntrySp - k
    BY <1>2, Zenon
  <1>4. /\ Len(faults) \in Nat
        /\ Len(faults) = 0 => EntrySp = USTACKTOP
        /\ Len(faults) > 0 => EntrySp = UtfOf(faults[Len(faults)])
    BY Entry, Zenon DEF PInv
  <1>5. EntrySp \in Nat /\ (Len(faults) > 0 => UtfOf(faults[Len(faults)]) \in Nat)
    <2>1. CASE Len(faults) = 0
      BY <2>1, <1>4, Zenon DEF PgFaultAssumption
    <2>2. CASE Len(faults) > 0
      <3>1. faults[Len(faults)] \in Fault
        BY <2>2, <1>4 DEF PInv, Shape
      <3> QED  BY <3>1, <2>2, <1>4, Fields, Zenon
    <2> QED  BY <2>1, <2>2, <1>4
  <1>6. user_regs'.esp \in Nat
    BY <1>1, <1>3, <1>5
  <1>7. user_regs' \in Registers
    BY <1>2, <1>3, <1>6, HeldValues, Zenon DEF Registers
  <1>8. BelowStack(faults, user_regs'.esp)
    BY <1>1, <1>3, <1>4, <1>5 DEF BelowStack
  <1>9. mem' = [a \in Words |->
                  IF \/ a < EntrySp - k /\ (a < USTACKTOP <=> EntrySp - k <= USTACKTOP)
                     \/ a >= UXSTACKBASE /\ faults = << >>
                  THEN <<"free">>
                  ELSE [b \in Words |-> IF b \in OwnWords(EntrySp - k) THEN <<"own">> ELSE mem[b]][a]]
    BY Zenon DEF Run, Forget
  <1>10. DOMAIN mem' = Words
    BY <1>9, Zenon
  <1>11. ASSUME Len(faults) > 0, NEW a \in Words, Guarded(Len(faults), a)
         PROVE  mem'[a] = mem[a]
    <2>1. UXSTACKBASE <= EntrySp - k
      BY <1>1, <1>3, <1>11, Zenon DEF OnStack
    <2>2. a \in Int /\ (a < USTACKTOP \/ a >= EntrySp)
      BY <1>4, <1>11, WordsAre, Zenon DEF Guarded
    <2>3. ~(a < EntrySp - k /\ (a < USTACKTOP <=> EntrySp - k <= USTACKTOP))
      BY <2>1, <2>2, <1>1, <1>5 DEF PgFaultAssumption
    <2>4. a \notin OwnWords(EntrySp - k)
      BY <2>1, <2>2, <1>1, <1>5 DEF OwnWords, PgFaultAssumption
    <2>5. faults # << >>
      BY <1>11
    <2> QED  BY <1>9, <2>3, <2>4, <2>5, <1>11, Zenon
  <1> QED  BY <1>1, <1>7, <1>8, <1>10, <1>11, SameFaults, Zenon

\* page_fault_handler(): the frame goes below the interrupted stack pointer, or
\* to the top of the exception stack.
LEMMA DeliverRight ==
  ASSUME PgFaultAssumption, PInv, OnStack, Deliver
  PROVE  StepRight
  <1> DEFINE utf == FrameTop - UTRAP_SIZE
             f   == [regs |-> user_regs, utf |-> utf]
  <1>1. /\ faults' = Append(faults, f)
        /\ user_regs' = [user_regs EXCEPT !.esp = utf, !.eip = <<"_pgfault_upcall">>]
        /\ ~ NoRoom
        /\ mem' = [a \in Words |->
                     IF a \in utf .. FrameTop - 1 THEN FrameWord(a - utf)
                     ELSE IF Recursive /\ a = FrameTop THEN <<"zero">> ELSE mem[a]]
    BY Zenon DEF Deliver
  <1>2. /\ Len(faults) \in Nat
        /\ faults \in Seq(Fault)
        /\ user_regs \in Registers
        /\ user_regs.esp \in Nat
    BY DEF PInv, Shape, Registers
  <1>3. ASSUME Len(faults) > 0
        PROVE  /\ faults[Len(faults)] \in Fault
               /\ Len(faults) \in 1 .. Len(faults)
               /\ UtfOf(faults[Len(faults)]) \in Nat
               /\ UXSTACKBASE <= user_regs.esp
               /\ user_regs.esp <= UtfOf(faults[Len(faults)])
               /\ UtfOf(faults[Len(faults)]) + 13 <= UXSTACKTOP
    <2>1. Len(faults) \in 1 .. Len(faults)
      BY <1>2, <1>3
    <2>2. faults[Len(faults)] \in Fault
      BY <2>1, <1>2
    <2>3. UtfOf(faults[Len(faults)]) + 13 <= UXSTACKTOP
      BY <2>1, Zenon DEF PInv, Layout
    <2> QED  BY <2>1, <2>2, <2>3, <1>3, Fields, Zenon DEF PInv, BelowStack, OnStack
  <1>4. Len(faults) = 0 => user_regs.esp <= USTACKTOP
    BY Zenon DEF PInv, BelowStack
  <1>5. Recursive <=> Len(faults) > 0
    BY <1>2, <1>3, <1>4 DEF Recursive, PgFaultAssumption
  <1>6. /\ utf \in Nat /\ FrameTop = utf + 13
        /\ UXSTACKBASE <= utf /\ utf + 13 <= UXSTACKTOP
        /\ Len(faults) > 0 => utf + 14 = user_regs.esp
    <2>1. CASE Len(faults) = 0
      <3>1. FrameTop = UXSTACKTOP
        BY <2>1, <1>5 DEF FrameTop
      <3> QED  BY <3>1, <2>1 DEF UTRAP_SIZE, PgFaultAssumption
    <2>2. CASE Len(faults) > 0
      <3>1. FrameTop = user_regs.esp - 1
        BY <2>2, <1>5, Zenon DEF FrameTop
      <3>2. user_regs.esp - 14 >= UXSTACKBASE
        BY <2>2, <1>1, <1>2, <1>5 DEF NoRoom, UTRAP_SIZE, PgFaultAssumption
      <3>3. UXSTACKBASE \in Nat /\ UXSTACKTOP \in Nat /\ user_regs.esp \in Nat /\ utf = FrameTop - 13
        BY <1>2, Zenon DEF UTRAP_SIZE, PgFaultAssumption
      <3>4. user_regs.esp + 13 <= UXSTACKTOP
        BY <2>2, <3>3, <1>3
      <3> QED  BY <3>1, <3>2, <3>3, <3>4
    <2> QED  BY <2>1, <2>2, <1>2
  <1>7. f \in Fault /\ UtfOf(f) = utf /\ EspOf(f) = user_regs.esp
    BY <1>2, <1>6, Zenon DEF Fault, UtfOf, EspOf
  <1>8. user_regs' \in Registers /\ user_regs'.esp = utf
    <2>1. <<"_pgfault_upcall">> \in Held
      BY Zenon DEF Held
    <2> HIDE DEF utf
    <2> QED  BY <2>1, <1>1, <1>2, <1>6, Zenon DEF Registers
  <1> HIDE DEF utf, f
  <1>9. /\ faults' \in Seq(Fault)
        /\ Len(faults') = Len(faults) + 1
        /\ \A i \in 1 .. Len(faults) : faults'[i] = faults[i]
        /\ faults'[Len(faults) + 1] = f
    BY <1>1, <1>2, <1>7, Appends
  <1>10. ASSUME NEW i \in 1 .. Len(faults')
         PROVE  i \in 1 .. Len(faults) \/ i = Len(faults) + 1
    BY <1>2, <1>9, <1>10
  <1>11. DOMAIN mem' = Words
    BY <1>1, Zenon
  <1>12. Kept(mem', f)
    <2>1. ASSUME NEW i \in 0 .. 12 PROVE mem'[utf + i] = FrameWord(i)
      <3>1. utf + i \in Words /\ utf + i \in utf .. FrameTop - 1 /\ (utf + i) - utf = i
        BY <1>6 DEF Words, PgFaultAssumption
      <3> QED  BY <3>1, <1>1, Zenon
    <2>2. /\ FrameWord(2) = user_regs.gpr /\ FrameWord(10) = user_regs.eip
          /\ FrameWord(11) = user_regs.eflags /\ FrameWord(12) = <<"esp", user_regs.esp>>
      BY DEF FrameWord
    <2>3. f.utf = utf /\ f.regs = user_regs
      BY Zenon DEF f
    <2>4. 2 \in 0 .. 12 /\ 10 \in 0 .. 12 /\ 11 \in 0 .. 12 /\ 12 \in 0 .. 12
      OBVIOUS
    <2> QED  BY <2>1, <2>2, <2>3, <2>4, Zenon DEF Kept
  <1>13. ASSUME Len(faults) > 0, NEW a \in Words, Guarded(Len(faults), a)
         PROVE  mem'[a] = mem[a]
    <2>1. a \in Int /\ (a < USTACKTOP \/ a >= UtfOf(faults[Len(faults)]))
      BY <1>13, WordsAre, Zenon DEF Guarded
    <2>2. ~(a \in utf .. FrameTop - 1) /\ a # FrameTop
      BY <2>1, <1>2, <1>3, <1>6, <1>13 DEF PgFaultAssumption
    <2> QED  BY <2>2, <1>1, <1>13, Zenon
  <1>14. \A i \in 1 .. Len(faults) : Kept(mem', faults[i]) /\ StackKept(i)
    <2>1. CASE Len(faults) = 0
      BY <2>1
    <2>2. CASE Len(faults) > 0
      BY <2>2, <1>3, <1>13, GuardedKept, Zenon
    <2> QED  BY <2>1, <2>2, <1>2
  <1>15. Stored(mem', faults')
    <2> SUFFICES ASSUME NEW i \in 1 .. Len(faults') PROVE Kept(mem', faults'[i])
      BY Zenon DEF Stored
    <2>1. CASE i \in 1 .. Len(faults)
      BY <2>1, <1>9, <1>14, Zenon
    <2>2. CASE i = Len(faults) + 1
      BY <2>2, <1>9, <1>12, Zenon
    <2> QED  BY <2>1, <2>2, <1>10, Zenon
  <1>16. Layout(faults')
    <2>1. ASSUME NEW i \in 1 .. Len(faults')
          PROVE  /\ UXSTACKBASE <= UtfOf(faults'[i]) /\ UtfOf(faults'[i]) + 13 <= UXSTACKTOP
                 /\ i > 1 => EspOf(faults'[i]) = UtfOf(faults'[i]) + 14
                 /\ i = 1 => EspOf(faults'[i]) <= USTACKTOP
      <3>1. CASE i \in 1 .. Len(faults)
        <4>1. faults'[i] = faults[i]
          BY <3>1, <1>9, Zenon
        <4>2. /\ UXSTACKBASE <= UtfOf(faults[i]) /\ UtfOf(faults[i]) + 13 <= UXSTACKTOP
              /\ i > 1 => EspOf(faults[i]) = UtfOf(faults[i]) + 14
              /\ i = 1 => EspOf(faults[i]) <= USTACKTOP
          BY <3>1, Zenon DEF PInv, Layout
        <4> QED  BY <4>1, <4>2, Zenon
      <3>2. CASE i = Len(faults) + 1
        <4>1. faults'[i] = f
          BY <3>2, <1>9, Zenon
        <4>2. (i > 1 => Len(faults) > 0) /\ (i = 1 => Len(faults) = 0)
          BY <3>2, <1>2
        <4> QED  BY <4>1, <4>2, <1>4, <1>6, <1>7, Zenon
      <3> QED  BY <3>1, <3>2, <1>10, <2>1, Zenon
    <2>2. ASSUME NEW i \in 1 .. Len(faults'), NEW j \in 1 .. Len(faults'), i < j
          PROVE  UtfOf(faults'[j]) + 14 <= UtfOf(faults'[i])
      <3>1. i \in 1 .. Len(faults) /\ faults'[i] = faults[i]
        BY <2>2, <1>2, <1>9
      <3>2. CASE j \in 1 .. Len(faults)
        <4>1. faults'[j] = faults[j]
          BY <3>2, <1>9, Zenon
        <4> QED  BY <3>1, <3>2, <4>1, <2>2, Zenon DEF PInv, Layout
      <3>3. CASE j = Len(faults) + 1
        <4>1. faults'[j] = f
          BY <3>3, <1>9, Zenon
        <4>2. Len(faults) > 0
          BY <3>1, <1>2
        <4>3. UtfOf(faults[Len(faults)]) <= UtfOf(faults[i])
          <5>1. CASE i = Len(faults)
            BY <5>1, <4>2, <1>3
          <5>2. CASE i < Len(faults)
            <6>1. UtfOf(faults[Len(faults)]) + 14 <= UtfOf(faults[i])
              BY <5>2, <3>1, <4>2, <1>3, Zenon DEF PInv, Layout
            <6>2. faults[i] \in Fault
              BY <3>1, <1>2
            <6> QED  BY <6>1, <6>2, <4>2, <1>3, Fields
          <5> QED  BY <5>1, <5>2, <3>1, <1>2
        <4>4. faults[i] \in Fault
          BY <3>1, <1>2
        <4>5. utf + 14 <= UtfOf(faults[Len(faults)]) /\ UtfOf(faults[Len(faults)]) \in Nat
          BY <4>2, <1>3, <1>6, Zenon
        <4>6. UtfOf(faults[i]) \in Nat
          BY <4>4, Fields, Zenon
        <4>7. utf + 14 <= UtfOf(faults[i])
          BY <4>3, <4>5, <4>6, <1>6
        <4> QED  BY <3>1, <4>1, <4>7, <1>7, Zenon
      <3> QED  BY <3>2, <3>3, <1>10, <2>2, Zenon
    <2> QED  BY <2>1, <2>2, Zenon DEF Layout
  <1>17. BelowStack(faults', user_regs'.esp)
    BY <1>2, <1>6, <1>7, <1>8, <1>9 DEF BelowStack
  <1>18. Shape'
    BY <1>8, <1>9, <1>11, Zenon DEF Shape, Words
  <1>19. PInv'
    BY <1>15, <1>16, <1>17, <1>18, Zenon DEF PInv
  <1>20. ReturnStep
    BY <1>2, <1>9 DEF ReturnStep
  <1>21. FaultStep
    BY <1>14, Zenon DEF FaultStep, StackKept
  <1> QED  BY <1>19, <1>20, <1>21, Zenon DEF StepRight

\* _pgfault_upcall returns to the code that faulted.
LEMMA ReturnRight ==
  ASSUME PgFaultAssumption, PInv, UpcallReturn
  PROVE  StepRight
  <1>1. /\ Len(faults) \in Nat
        /\ faults \in Seq(Fault)
        /\ DOMAIN mem = Words
        /\ Len(faults) > 0
        /\ EntrySp = UtfOf(faults[Len(faults)])
    <2>1. faults # << >>
      BY Zenon DEF UpcallReturn
    <2> QED  BY <2>1, Entry DEF PInv, Shape
  <1>2. PICK n \in Nat : n = Len(faults)
    BY <1>1, Zenon
  <1>3. PICK f \in Fault : f = faults[n]
    BY <1>1, <1>2
  <1>4. PICK utf \in Nat : utf = UtfOf(f)
    BY Fields, Zenon
  <1>5. PICK esp \in Nat : esp = EspOf(f)
    BY Fields, Zenon
  <1>6. n \in 1 .. Len(faults) /\ n \in 1 .. n /\ n > 0
    BY <1>1, <1>2
  <1>7. /\ UXSTACKBASE <= utf /\ utf + 13 <= UXSTACKTOP
        /\ n > 1 => esp = utf + 14
        /\ n = 1 => esp <= USTACKTOP
    BY <1>3, <1>4, <1>5, <1>6, Zenon DEF PInv, Layout
  <1>8. /\ mem[utf + 2] = f.regs.gpr /\ mem[utf + 10] = f.regs.eip
        /\ mem[utf + 11] = f.regs.eflags /\ mem[utf + 12] = <<"esp", esp>>
    <2>1. Kept(mem, f)
      BY <1>3, <1>6, Zenon DEF PInv, Stored
    <2> QED  BY <2>1, <1>4, <1>5, Zenon DEF Kept, UtfOf, EspOf
  <1>9. mem[utf + 12][2] - 1 = esp - 1
    BY <1>8
  <1>10. /\ esp - 1 \in Words
         /\ utf + 2 \in Words /\ utf + 10 \in Words /\ utf + 11 \in Words /\ utf + 12 \in Words
    <2>1. esp - 1 \in Words
      BY <1>1, <1>2, <1>3, <1>4, <1>9, Zenon DEF UpcallReturn
    <2> QED  BY <2>1, <1>7 DEF Words, PgFaultAssumption
  <1>11. PICK words : words = Pushed(utf)
    BY Zenon
  <1>12. words = [[mem EXCEPT ![esp - 1] = mem[utf + 10]] EXCEPT ![utf + 12] = <<"esp", esp - 1>>]
    BY <1>9, <1>11, Zenon DEF Pushed
  <1>13. esp - 1 # utf + 12 /\ esp - 1 # utf + 11 /\ esp - 1 # utf + 2 /\ esp - 1 \in Int
    BY <1>6, <1>7 DEF PgFaultAssumption
  <1>14. /\ DOMAIN words = Words
         /\ words[utf + 12] = <<"esp", esp - 1>>
         /\ words[esp - 1] = f.regs.eip
         /\ words[utf + 2] = f.regs.gpr
         /\ words[utf + 11] = f.regs.eflags
         /\ \A a \in Words : a # esp - 1 /\ a # utf + 12 => words[a] = mem[a]
    <2>1. utf + 2 # utf + 12 /\ utf + 11 # utf + 12
      OBVIOUS
    <2> QED  BY <2>1, <1>1, <1>8, <1>10, <1>12, <1>13, Zenon
  <1>15. words[utf + 12][2] = esp - 1
    BY <1>14
  <1>16. /\ mem' = Forget(words, esp - 1 + 1, Outer)
         /\ user_regs' = [eip |-> words[esp - 1], gpr |-> words[utf + 2], eflags |-> words[utf + 11], esp |-> esp - 1 + 1]
         /\ faults' = Outer
    BY <1>1, <1>2, <1>3, <1>4, <1>11, <1>15, Zenon DEF UpcallReturn
  <1>17. esp - 1 + 1 = esp
    OBVIOUS
  <1>18. user_regs' = f.regs
    <2>1. user_regs' = [eip |-> f.regs.eip, gpr |-> f.regs.gpr, eflags |-> f.regs.eflags, esp |-> f.regs.esp]
      BY <1>5, <1>14, <1>16, <1>17, Zenon DEF EspOf
    <2>2. f.regs \in Registers
      BY Fields, Zenon
    <2> QED  BY <2>1, <2>2, Zenon DEF Registers
  <1>19. /\ faults' \in Seq(Fault)
         /\ Len(faults') = n - 1
         /\ \A i \in 1 .. n - 1 : faults'[i] = faults[i]
         /\ Innermost = f
    <2>1. /\ SubSeq(faults, 1, Len(faults) - 1) \in Seq(Fault)
          /\ Len(SubSeq(faults, 1, Len(faults) - 1)) = Len(faults) - 1
          /\ \A i \in 1 .. Len(faults) - 1 : SubSeq(faults, 1, Len(faults) - 1)[i] = faults[i]
      BY <1>1, <1>2, <1>3, Fronts, Zenon DEF PInv, Shape
    <2>2. faults' = SubSeq(faults, 1, Len(faults) - 1)
      BY <1>16, Zenon DEF Outer
    <2> QED  BY <2>1, <2>2, <1>2, <1>3, Zenon DEF Innermost
  <1>20. DOMAIN mem' = Words
    BY <1>16, Zenon DEF Forget
  <1>21. ASSUME n > 1, NEW a \in Words, Guarded(n - 1, a)
         PROVE  mem'[a] = mem[a]
    <2>1. /\ n - 1 \in 1 .. Len(faults) /\ n - 1 < n
          /\ faults[n - 1] \in Fault
      BY <1>1, <1>2, <1>21
    <2>2. utf + 14 <= UtfOf(faults[n - 1]) /\ UtfOf(faults[n - 1]) \in Nat
      BY <2>1, <1>3, <1>4, <1>6, Fields, Zenon DEF PInv, Layout
    <2>3. a \in Int /\ (a < USTACKTOP \/ a >= UtfOf(faults[n - 1]))
      BY <1>21, WordsAre, Zenon DEF Guarded
    <2>4. a # esp - 1 /\ a # utf + 12
      BY <2>2, <2>3, <1>7, <1>21 DEF PgFaultAssumption
    <2>5. ~(a < esp /\ (a < USTACKTOP <=> esp <= USTACKTOP))
      BY <2>2, <2>3, <1>7, <1>21 DEF PgFaultAssumption
    <2>6. Outer # << >>
      BY <1>2, <1>16, <1>19, <1>21
    <2>7. mem'[a] = words[a]
      BY <2>5, <2>6, <1>16, <1>17, <1>21, Zenon DEF Forget
    <2> QED  BY <2>4, <2>7, <1>14, <1>21, Zenon
  <1>22. \A i \in 1 .. n - 1 : Kept(mem', faults[i]) /\ StackKept(i)
    <2>1. CASE n = 1
      BY <2>1
    <2>2. CASE n > 1
      <3>1. n - 1 \in 1 .. Len(faults)
        BY <2>2, <1>2
      <3> QED  BY <3>1, <2>2, <1>21, GuardedKept, Zenon
    <2> QED  BY <2>1, <2>2, <1>6
  <1>23. Stored(mem', faults')
    BY <1>19, <1>22, Zenon DEF Stored
  <1>24. Layout(faults')
    <2>1. ASSUME NEW i \in 1 .. Len(faults')
          PROVE  i \in 1 .. Len(faults) /\ faults'[i] = faults[i]
      BY <1>2, <1>19
    <2>2. ASSUME NEW i \in 1 .. Len(faults')
          PROVE  /\ UXSTACKBASE <= UtfOf(faults'[i]) /\ UtfOf(faults'[i]) + 13 <= UXSTACKTOP
                 /\ i > 1 => EspOf(faults'[i]) = UtfOf(faults'[i]) + 14
                 /\ i = 1 => EspOf(faults'[i]) <= USTACKTOP
      BY <2>1, Zenon DEF PInv, Layout
    <2>3. ASSUME NEW i \in 1 .. Len(faults'), NEW j \in 1 .. Len(faults'), i < j
          PROVE  UtfOf(faults'[j]) + 14 <= UtfOf(faults'[i])
      BY <2>1, <2>3, Zenon DEF PInv, Layout
    <2> QED  BY <2>2, <2>3, Zenon DEF Layout
  <1>25. BelowStack(faults', user_regs'.esp)
    <2>1. user_regs'.esp = esp
      BY <1>5, <1>18, Zenon DEF EspOf
    <2>2. CASE n = 1
      BY <2>1, <2>2, <1>7, <1>19 DEF BelowStack
    <2>3. CASE n > 1
      <3>1. /\ n - 1 \in 1 .. Len(faults) /\ n - 1 < n
            /\ faults[n - 1] \in Fault
            /\ faults'[n - 1] = faults[n - 1]
        BY <1>1, <1>2, <1>19, <2>3
      <3>2. utf + 14 <= UtfOf(faults[n - 1])
        BY <3>1, <1>3, <1>4, <1>6, Zenon DEF PInv, Layout
      <3> QED  BY <3>1, <3>2, <2>1, <2>3, <1>7, <1>19 DEF BelowStack
    <2> QED  BY <2>2, <2>3, <1>6
  <1>26. user_regs' \in Registers
    BY <1>18, Fields, Zenon
  <1>27. Shape'
    BY <1>19, <1>20, <1>26, Zenon DEF Shape, Words
  <1>28. PInv'
    BY <1>23, <1>24, <1>25, <1>27, Zenon DEF PInv
  <1>29. ReturnStep
    <2>1. f.regs = Innermost.regs
      BY <1>19, Zenon
    <2> QED  BY <2>1, <1>18, Zenon DEF ReturnStep
  <1>30. FaultStep
    <2> SUFFICES ASSUME NEW i \in 1 .. Len(faults), Len(faults') >= i PROVE StackKept(i)
      BY Zenon DEF FaultStep, StackKept
    <2>1. i \in 1 .. n - 1
      BY <1>2, <1>19
    <2> QED  BY <2>1, <1>22, Zenon
  <1> QED  BY <1>28, <1>29, <1>30, Zenon DEF StepRight

\* Nothing is being handled at the start.
LEMMA PInit ==
  ASSUME PgFaultAssumption, InitUpcall
  PROVE  PInv
  <1>1. <<"start">> \in Held
    BY Zenon DEF Held
  <1>2. /\ mem = [a \in Words |-> <<"free">>] /\ faults = << >>
        /\ user_regs = [eip |-> <<"start">>, gpr |-> <<"start">>, eflags |-> <<"start">>, esp |-> USTACKTOP]
    BY Zenon DEF InitUpcall
  <1>3. user_regs \in Registers /\ user_regs.esp = USTACKTOP
    BY <1>1, <1>2, Zenon DEF Registers, PgFaultAssumption
  <1>4. faults \in Seq(Fault) /\ Len(faults) = 0
    BY <1>2
  <1>5. Shape
    BY <1>2, <1>3, <1>4, Zenon DEF Shape
  <1>6. Layout(faults) /\ Stored(mem, faults)
    BY <1>4 DEF Layout, Stored
  <1>7. BelowStack(faults, user_regs.esp)
    BY <1>3, <1>4 DEF BelowStack, PgFaultAssumption
  <1> QED  BY <1>5, <1>6, <1>7, Zenon DEF PInv

\* Every step.
LEMMA PNext ==
  ASSUME PgFaultAssumption, PInv, OnStack, OnStack', [NextUpcall]_varsUpcall
  PROVE  PInv' /\ [ReturnStep /\ FaultStep]_varsUpcall
  <1>1. ASSUME mem' = mem, user_regs' = user_regs, faults' = faults
        PROVE  StepRight
    <2>1. DOMAIN mem' = Words /\ user_regs' \in Registers /\ BelowStack(faults, user_regs'.esp)
      BY <1>1, Zenon DEF PInv, Shape
    <2> QED  BY <2>1, <1>1, SameFaults, Zenon
  <1>2. CASE UNCHANGED varsUpcall
    <2>1. StepRight
      BY <1>1, <1>2, Zenon DEF varsUpcall
    <2> QED  BY <2>1, Zenon DEF StepRight
  <1>3. CASE NextUpcall
    <2> SUFFICES StepRight
      BY Zenon DEF StepRight
    <2>1. ASSUME NEW x \in Codes, NEW k \in Depths, Run(x, k) PROVE StepRight
      BY <2>1, RunRight, Zenon
    <2>2. CASE SysPageAlloc
      BY <2>2, <1>1, Zenon DEF SysPageAlloc
    <2>3. CASE SysEnvSetPgfaultUpcall
      BY <2>3, <1>1, Zenon DEF SysEnvSetPgfaultUpcall
    <2>4. CASE Undeliverable
      BY <2>4, <1>1, Zenon DEF Undeliverable
    <2>5. CASE Overflow
      BY <2>5, <1>1, Zenon DEF Overflow
    <2>6. CASE Deliver
      BY <2>6, DeliverRight, Zenon
    <2>7. CASE UpcallReturn
      BY <2>7, ReturnRight, Zenon
    <2> QED  BY <1>3, <2>1, <2>2, <2>3, <2>4, <2>5, <2>6, <2>7, Zenon DEF NextUpcall
  <1> QED  BY <1>2, <1>3, Zenon

\* The frames stay apart.
LEMMA PSafe ==
  ASSUME PgFaultAssumption, PInv
  PROVE  FramesSafe
  <1>1. Len(faults) \in Nat /\ \A i \in 1 .. Len(faults) : faults[i] \in Fault
    BY DEF PInv, Shape
  <1>2. \A i, j \in 1 .. Len(faults) : i < j => UtfOf(faults[j]) + 13 <= UtfOf(faults[i])
    <2> SUFFICES ASSUME NEW i \in 1 .. Len(faults), NEW j \in 1 .. Len(faults), i < j
                 PROVE  UtfOf(faults[j]) + 13 <= UtfOf(faults[i])
      BY Zenon
    <2>1. UtfOf(faults[j]) + 14 <= UtfOf(faults[i])
      BY Zenon DEF PInv, Layout
    <2>2. UtfOf(faults[j]) \in Nat /\ UtfOf(faults[i]) \in Nat
      BY <1>1, Fields, Zenon
    <2> QED  BY <2>1, <2>2
  <1>3. \A i \in 1 .. Len(faults) : UXSTACKBASE <= UtfOf(faults[i]) /\ UtfOf(faults[i]) + 13 <= UXSTACKTOP
    BY Zenon DEF PInv, Layout
  <1>4. FramesDisjoint
    BY <1>2, Zenon DEF FramesDisjoint, UTRAP_SIZE, UtfOf
  <1>5. InsideStacks
    BY <1>3, Zenon DEF InsideStacks, UTRAP_SIZE, UtfOf
  <1> QED  BY <1>4, <1>5, Zenon DEF FramesSafe

\* The page faults of a program whose handlers stay on the exception stack are
\* invisible to it: page_fault_handler() puts the frames of nested faults apart
\* and inside the exception stack, and _pgfault_upcall returns to the code that
\* faulted with its registers, having left its stack alone.
THEOREM FaultsAreHandled ==
  ASSUME PgFaultAssumption
  PROVE  SpecUpcall /\ []OnStack => FaultsHandled
  <1>1. InitUpcall => PInv
    BY PInit, Zenon
  <1>2. PInv /\ OnStack /\ OnStack' /\ [NextUpcall]_varsUpcall => PInv' /\ [ReturnStep /\ FaultStep]_varsUpcall
    BY PNext, Zenon
  <1>3. PInv => FramesSafe
    BY PSafe, Zenon
  <1> QED  BY <1>1, <1>2, <1>3, PTL DEF SpecUpcall, FaultsHandled, ReturnsToFault

-----------------------------------------------------------------------------
(* Searching the stabs                                                      *)

\* The tables: a stab has a number for an address, and the matching ones' increase.
Sorted ==
  /\ \A k \in Index : stabs[k].value \in Nat /\ stabs[k].match \in BOOLEAN
  /\ \A j, k \in Index : j < k /\ stabs[j].match /\ stabs[k].match => stabs[j].value < stabs[k].value

\* The call: its arguments are within the table.
Given ==
  /\ Sorted /\ goal \in Nat
  /\ first \in Index /\ last \in Index /\ first <= last
  /\ search \in {"loop", "back", "done"} /\ any_matches \in BOOLEAN

\* What is left of l contains the address or lies before it, with the last stab of it
\* in region_left; what is right of r lies after the address and starts with a stab.
BoundsInv ==
  /\ l \in Int /\ r \in Int /\ first <= l /\ l <= last + 1 /\ first - 1 <= r /\ r <= last
  /\ region_right = r
  /\ region_left \in Int /\ first <= region_left /\ region_left <= last
  /\ addr \in {goal, goal + 1}
  /\ \A k \in Matches : k < l => stabs[k].value < addr /\ k <= region_left
  /\ \A k \in Matches : k > r => stabs[k].value > goal
  /\ r = last \/ r + 1 \in Matches
  /\ region_left # first \/ addr # goal =>
       region_left \in Matches /\ stabs[region_left].value <= goal
  /\ addr # goal => stabs[region_left].value = goal /\ region_left <= l
  /\ ~any_matches => r = last /\ \A k \in Matches : k >= l
  /\ any_matches => Matches # {}

\* There is no matching stab between m and the middle.
InnerInv ==
  Looping => /\ m \in Int /\ l - 1 <= m /\ m <= true_m
             /\ \A k \in Matches : k > m => k > true_m

\* After the loop: the stab that contains the address, if there is one, is in
\* region_left, and no other one up to region_right.
BackInv ==
  /\ Matches # {} /\ region_left \in Int /\ region_right \in Int /\ l \in Int /\ region_right <= last
  /\ Containing # {} =>
       /\ region_left \in Containing /\ \A k \in Containing : k <= region_left
       /\ region_left <= l /\ l <= region_right
       /\ \A k \in Matches : k > region_left => k > region_right
       /\ region_right = last \/ region_right + 1 \in Matches

KInv ==
  /\ Given /\ RegionFound
  /\ search = "loop" /\ ~Followed => BoundsInv /\ InnerInv
  /\ search = "back" /\ ~Followed => BackInv

\* The matching stabs of the region are stabs of the table, in order.
LEMMA MatchFacts ==
  ASSUME KdebugAssumption, Given
  PROVE  /\ \A k \in Matches : k \in Int /\ first <= k /\ k <= last /\ stabs[k].value \in Nat
         /\ \A j, k \in Matches : j < k => stabs[j].value < stabs[k].value
         /\ first \in Int /\ last \in Int
BY DEF KdebugAssumption, Given, Sorted, Index, Matches

\* The middle, as stab_binsearch() takes it, is between the two ends.
LEMMA Half ==
  ASSUME NEW a \in Int, NEW b \in Int, a <= b
  PROVE  (a + b) \div 2 \in Int /\ a <= (a + b) \div 2 /\ (a + b) \div 2 <= b
OBVIOUS

LEMMA Halves ==
  ASSUME l \in Int, r \in Int, l <= r
  PROVE  true_m \in Int /\ l <= true_m /\ true_m <= r
BY Half, Zenon DEF true_m

\* A search starts with the whole region and nothing found.
LEMMA InitKInv == ASSUME KdebugAssumption PROVE InitSearch => KInv
<1> SUFFICES ASSUME InitSearch PROVE KInv
  BY Zenon
<1>1. Sorted
  BY Zenon DEF InitSearch, StabTables, Sorted, KdebugAssumption
<1>2. Given
  <2>1. goal \in Nat /\ search = "loop" /\ any_matches = FALSE
    BY Zenon DEF InitSearch, KdebugAssumption
  <2>2. first \in Index /\ last \in Index /\ first <= last
    BY DEF InitSearch, Index, KdebugAssumption
  <2> QED BY <1>1, <2>1, <2>2, Zenon DEF Given
<1>3. BoundsInv
  BY <1>2, MatchFacts DEF InitSearch, BoundsInv, Given
<1>4. RegionFound /\ search = "loop"
  BY Zenon DEF InitSearch, RegionFound, Brackets, NoneIsEmpty
<1>5. InnerInv
  <2>1. l \in Int /\ r \in Int /\ m = true_m /\ \A k \in Matches : k \in Int
    BY <1>2, MatchFacts, Zenon DEF InitSearch, true_m
  <2> QED BY <2>1, Halves DEF InnerInv, Looping
<1> QED BY <1>2, <1>3, <1>4, <1>5, Zenon DEF KInv

\* m goes down from the middle to the last matching stab before it.
LEMMA Middle ==
  ASSUME KdebugAssumption, Given, BoundsInv, InnerInv, Looping
  PROVE  /\ true_m \in Int /\ l <= true_m /\ true_m <= r
         /\ m \in Int /\ l - 1 <= m /\ m <= true_m
         /\ m >= l /\ stabs[m].match => m \in Matches
         /\ \A k \in Matches : l <= k /\ k <= true_m => k <= m
<1>1. l \in Int /\ r \in Int /\ l <= r /\ first <= l /\ r <= last /\ first \in Int /\ last \in Int
  BY MatchFacts, Zenon DEF BoundsInv, Looping
<1>2. true_m \in Int /\ l <= true_m /\ true_m <= r
  BY <1>1, Halves, Zenon
<1>3. m \in Int /\ l - 1 <= m /\ m <= true_m /\ \A k \in Matches : k > m => k > true_m
  BY Zenon DEF InnerInv
<1>4. ASSUME m >= l, stabs[m].match PROVE m \in Matches
  BY <1>1, <1>2, <1>3, <1>4 DEF Matches
<1>5. ASSUME NEW k \in Matches, l <= k, k <= true_m PROVE k <= m
  BY <1>2, <1>3, <1>5, MatchFacts
<1> QED BY <1>2, <1>3, <1>4, <1>5, Zenon

\* A turn of the loop leaves the table and the arguments alone.
LEMMA SameTable ==
  ASSUME UNCHANGED <<stabs, goal, first, last>>
  PROVE  Matches' = Matches /\ Followed' = Followed /\ Sorted' = Sorted
BY Zenon DEF Matches, Followed, Sorted, Index

\* The numbers of a turn of the loop.
LEMMA TurnFacts ==
  ASSUME KdebugAssumption, Given, BoundsInv, InnerInv, Looping
  PROVE  /\ first \in Int /\ last \in Int /\ l \in Int /\ r \in Int /\ m \in Int /\ true_m \in Int
         /\ goal \in Int /\ (addr = goal \/ addr = goal + 1)
         /\ first <= l /\ l <= true_m /\ true_m <= r /\ r <= last /\ m <= true_m
         /\ \A k \in Matches : k \in Int /\ first <= k /\ k <= last /\ stabs[k].value \in Nat
<1>1. first \in Int /\ last \in Int /\ \A k \in Matches : k \in Int /\ first <= k /\ k <= last /\ stabs[k].value \in Nat
  BY MatchFacts, Zenon
<1>2. l \in Int /\ r \in Int /\ first <= l /\ r <= last /\ addr \in {goal, goal + 1}
  BY Zenon DEF BoundsInv
<1>3. goal \in Int
  BY DEF Given
<1> QED BY <1>1, <1>2, <1>3, Middle, Zenon

\* The matching stabs, as seen from the one that is found.
LEMMA AtFacts ==
  ASSUME KdebugAssumption, Given, BoundsInv, InnerInv, AtMatch
  PROVE  /\ m \in Matches /\ l <= m /\ stabs[m].value \in Nat
         /\ \A k \in Matches : k <= true_m => k <= m
         /\ \A k \in Matches : k <= m => stabs[k].value <= stabs[m].value
         /\ \A k \in Matches : k < m => stabs[k].value < stabs[m].value
         /\ \A k \in Matches : k >= m => stabs[k].value >= stabs[m].value
<1>1. Looping /\ m >= l /\ stabs[m].match
  BY Zenon DEF AtMatch
<1>2. m \in Matches /\ m \in Int /\ l \in Int
  BY <1>1, Middle, TurnFacts, Zenon
<1>3. ASSUME NEW k \in Matches, k <= true_m PROVE k <= m
  <2>1. k \in Int /\ (l <= k => k <= m)
    BY <1>1, <1>3, Middle, TurnFacts, Zenon
  <2> QED BY <1>1, <1>2, <2>1
<1>4. ASSUME NEW k \in Matches
      PROVE  /\ k \in Int /\ stabs[k].value \in Nat /\ stabs[m].value \in Nat
             /\ k < m => stabs[k].value < stabs[m].value
             /\ m < k => stabs[m].value < stabs[k].value
  BY <1>2, MatchFacts, Zenon
<1>5. ASSUME NEW k \in Matches
      PROVE  /\ k <= m => stabs[k].value <= stabs[m].value
             /\ k >= m => stabs[k].value >= stabs[m].value
  <2>1. CASE k = m
    BY <1>4, <2>1
  <2>2. CASE k < m
    BY <1>2, <1>4, <2>2
  <2>3. CASE m < k
    BY <1>2, <1>4, <2>3
  <2> QED BY <1>2, <1>4, <2>1, <2>2, <2>3
<1> QED BY <1>1, <1>2, <1>3, <1>4, <1>5, Zenon

\* The four turns of the loop: no match up to the middle,
LEMMA NoMatchTurn ==
  ASSUME KdebugAssumption, Given, BoundsInv, InnerInv, NoMatch
  PROVE  BoundsInv'
<1>1. /\ Looping /\ m < l /\ l' = true_m + 1
      /\ UNCHANGED <<stabs, addr, goal, first, last, region_left, region_right, r, any_matches>>
  BY Zenon DEF NoMatch
<1>2. Matches' = Matches
  BY <1>1, SameTable, Zenon
<1>3. ASSUME NEW k \in Matches PROVE k < l' <=> k < l
  <2>1. k \in Int /\ (l <= k /\ k <= true_m => k <= m)
    BY <1>1, Middle, TurnFacts, Zenon
  <2>2. l \in Int /\ m \in Int /\ true_m \in Int /\ l <= true_m
    BY <1>1, TurnFacts, Zenon
  <2> QED BY <1>1, <2>1, <2>2
<1>4. ASSUME NEW k \in Matches PROVE k >= l => k >= l'
  <2>1. k \in Int /\ l \in Int /\ l' \in Int
    BY <1>1, TurnFacts
  <2> QED BY <1>3, <2>1
<1>5. l' \in Int /\ first <= l' /\ l' <= last + 1 /\ l <= l'
  BY <1>1, TurnFacts
<1>6. region_left <= l => region_left <= l'
  <2>1. region_left \in Int /\ l \in Int
    BY Zenon DEF BoundsInv
  <2> QED BY <1>5, <2>1
<1> QED BY <1>1, <1>2, <1>3, <1>4, <1>5, <1>6, Zenon DEF BoundsInv

\* a match below the address,
LEMMA BelowTurn ==
  ASSUME KdebugAssumption, Given, BoundsInv, InnerInv, Below
  PROVE  BoundsInv'
<1>1. /\ AtMatch /\ Looping /\ stabs[m].value < addr
      /\ l' = true_m + 1 /\ region_left' = m /\ any_matches' = TRUE
      /\ UNCHANGED <<stabs, addr, goal, first, last, region_right, r>>
  BY Zenon DEF Below, AtMatch
<1>2. Matches' = Matches
  BY <1>1, SameTable, Zenon
<1>3. m \in Matches /\ stabs[m].value \in Nat
  BY <1>1, AtFacts, Zenon
<1>4. ASSUME NEW k \in Matches, k < l' PROVE stabs[k].value < addr /\ k <= m
  <2>1. k \in Int /\ true_m \in Int /\ addr \in Int /\ stabs[k].value \in Nat
    BY <1>1, TurnFacts
  <2>2. k <= m
    BY <1>1, <1>4, <2>1, AtFacts
  <2>3. stabs[k].value <= stabs[m].value
    BY <1>1, <2>2, AtFacts, Zenon
  <2> QED BY <1>1, <1>3, <2>1, <2>2, <2>3
<1>5. stabs[m].value <= goal
  BY <1>1, <1>3, TurnFacts
<1>6. l' \in Int /\ first <= l' /\ l' <= last + 1 /\ m \in Int /\ first <= m /\ m <= last /\ m <= l'
  BY <1>1, <1>3, TurnFacts
<1>7. ASSUME addr # goal PROVE stabs[m].value = goal
  <2>1. region_left \in Matches /\ stabs[region_left].value = goal /\ region_left <= l
    BY <1>7, Zenon DEF BoundsInv
  <2>2. region_left <= m
    BY <1>1, <2>1, AtFacts, TurnFacts
  <2>3. goal <= stabs[m].value
    BY <1>1, <2>1, <2>2, AtFacts, Zenon
  <2> QED BY <1>1, <1>3, <1>5, <2>3, TurnFacts
<1> QED BY <1>1, <1>2, <1>3, <1>4, <1>5, <1>6, <1>7, Zenon DEF BoundsInv

\* a match above it,
LEMMA AboveTurn ==
  ASSUME KdebugAssumption, Given, BoundsInv, InnerInv, Above
  PROVE  BoundsInv'
<1>1. /\ AtMatch /\ Looping /\ stabs[m].value > addr
      /\ r' = m - 1 /\ region_right' = m - 1 /\ any_matches' = TRUE
      /\ UNCHANGED <<stabs, addr, goal, first, last, region_left, l>>
  BY Zenon DEF Above, AtMatch
<1>2. Matches' = Matches
  BY <1>1, SameTable, Zenon
<1>3. m \in Matches /\ stabs[m].value \in Nat /\ stabs[m].value > goal
  BY <1>1, AtFacts, TurnFacts
<1>4. ASSUME NEW k \in Matches, k > r' PROVE stabs[k].value > goal
  <2>1. k >= m /\ stabs[k].value \in Nat /\ goal \in Int
    BY <1>1, <1>4, TurnFacts
  <2>2. stabs[k].value >= stabs[m].value
    BY <1>1, <2>1, AtFacts, Zenon
  <2> QED BY <1>3, <2>1, <2>2
<1>5. r' \in Int /\ first - 1 <= r' /\ r' <= last /\ r' + 1 = m
  BY <1>1, <1>3, TurnFacts
<1> QED BY <1>1, <1>2, <1>3, <1>4, <1>5, Zenon DEF BoundsInv

\* and the match itself, after which the next address is looked for.
LEMMA ExactTurn ==
  ASSUME KdebugAssumption, Given, BoundsInv, InnerInv, ~Followed, Exact
  PROVE  BoundsInv'
<1>1. /\ AtMatch /\ Looping /\ stabs[m].value = addr
      /\ l' = m /\ region_left' = m /\ any_matches' = TRUE /\ addr' = addr + 1
      /\ UNCHANGED <<stabs, goal, first, last, region_right, r>>
  BY Zenon DEF Exact, AtMatch
<1>2. Matches' = Matches
  BY <1>1, SameTable, Zenon
<1>3. m \in Matches
  BY <1>1, AtFacts, Zenon
<1>4. addr = goal
  <2>1. ASSUME addr # goal PROVE FALSE
    <3>1. region_left \in Matches /\ stabs[region_left].value = goal
      BY <2>1, Zenon DEF BoundsInv
    <3>2. addr = goal + 1
      BY <1>1, <2>1, TurnFacts, Zenon
    <3> QED BY <1>1, <1>3, <3>1, <3>2, Zenon DEF Followed
  <2> QED BY <2>1, Zenon
<1>5. ASSUME NEW k \in Matches, k < l' PROVE stabs[k].value < addr' /\ k <= m
  <2>1. k \in Int /\ m \in Int /\ goal \in Int /\ stabs[k].value \in Nat
    BY <1>1, TurnFacts, Zenon
  <2>2. stabs[k].value < stabs[m].value
    BY <1>1, <1>5, AtFacts, Zenon
  <2> QED BY <1>1, <1>4, <1>5, <2>1, <2>2
<1>6. l' \in Int /\ first <= l' /\ l' <= last + 1 /\ first <= m /\ m <= last /\ m <= l'
  BY <1>1, <1>3, TurnFacts
<1>7. addr' \in {goal, goal + 1} /\ stabs[m].value = goal /\ stabs[m].value <= goal
  BY <1>1, <1>4, TurnFacts
<1> QED BY <1>1, <1>2, <1>3, <1>5, <1>6, <1>7, Zenon DEF BoundsInv

\* A new turn starts to scan at its middle.
LEMMA TurnScan ==
  ASSUME KdebugAssumption, Given', BoundsInv', m' = true_m'
  PROVE  InnerInv'
<1>1. l' \in Int /\ r' \in Int /\ \A k \in Matches' : k \in Int
  <2>1. first' \in Int /\ last' \in Int
    BY DEF KdebugAssumption, Given, Index
  <2> QED BY <2>1 DEF BoundsInv, Matches
<1>2. ASSUME Looping' PROVE true_m' \in Int /\ l' <= true_m'
  <2>1. l' <= r'
    BY <1>2, Zenon DEF Looping
  <2> QED BY <1>1, <2>1, Half, Zenon DEF true_m
<1> QED BY <1>1, <1>2 DEF InnerInv

\* A step of the inner loop goes past a stab that does not match.
LEMMA ScanStep ==
  ASSUME KdebugAssumption, Given, BoundsInv, InnerInv, Scan
  PROVE  BoundsInv' /\ InnerInv'
<1>1. /\ Matches' = Matches /\ true_m' = true_m /\ m' = m - 1 /\ Looping' = Looping
      /\ UNCHANGED <<stabs, addr, goal, first, last, region_left, region_right, l, r, any_matches, search>>
  BY SameTable, Zenon DEF Scan, Looping, true_m
<1>2. BoundsInv'
  BY <1>1, Zenon DEF BoundsInv
<1>3. /\ m \in Int /\ l <= m /\ m <= true_m /\ true_m \in Int /\ l \in Int /\ m \notin Matches
      /\ \A k \in Matches : k \in Int /\ (k > m => k > true_m)
  BY Middle, MatchFacts, Zenon DEF Scan, InnerInv, BoundsInv, Matches
<1> QED BY <1>1, <1>2, <1>3 DEF InnerInv

\* The end, with nothing found: no stab matches.
LEMMA NotFoundEnds ==
  ASSUME KdebugAssumption, Given, BoundsInv, NotFound
  PROVE  RegionFound'
<1>1. Matches' = Matches /\ UNCHANGED <<stabs, goal, first, last>>
  BY SameTable, Zenon DEF NotFound
<1>2. Matches = {}
  BY MatchFacts DEF NotFound, BoundsInv
<1>3. Containing' = {}
  BY <1>1, <1>2, Zenon DEF Containing
<1>4. region_left' > region_right'
  BY DEF NotFound, BoundsInv
<1> QED BY <1>3, <1>4, Zenon DEF RegionFound, Brackets, NoneIsEmpty

\* The end of the loop, with a match: the stab that contains the address is in
\* region_left, if there is one, and the next one is right of region_right.
LEMMA LoopEnds ==
  ASSUME KdebugAssumption, Given, BoundsInv, FoundSome
  PROVE  BackInv'
<1>1. Matches' = Matches /\ UNCHANGED <<stabs, goal, first, last>>
  BY SameTable, Zenon DEF FoundSome
<1>2. Containing' = Containing
  BY <1>1, Zenon DEF Containing
<1>3. /\ l \in Int /\ r \in Int /\ l > r /\ region_right = r /\ region_left \in Int
      /\ first \in Int /\ last \in Int /\ goal \in Int /\ r <= last
  BY MatchFacts DEF FoundSome, BoundsInv, Given
<1>4. ASSUME NEW k \in Matches PROVE (k <= r <=> stabs[k].value <= goal) /\ (k <= r => k <= region_left)
  <2>1. k \in Int /\ stabs[k].value \in Int
    BY MatchFacts
  <2>2. CASE k <= r
    <3>1. k < l
      BY <1>3, <2>1, <2>2
    <3>2. stabs[k].value < addr /\ k <= region_left /\ addr <= goal + 1 /\ addr \in Int
      BY <1>3, <3>1 DEF BoundsInv
    <3> QED BY <1>3, <2>1, <2>2, <3>2
  <2>3. CASE k > r
    <3>1. stabs[k].value > goal
      BY <2>3, Zenon DEF BoundsInv
    <3> QED BY <1>3, <2>1, <2>3, <3>1
  <2> QED BY <1>3, <2>1, <2>2, <2>3
<1>5. ASSUME Containing # {}
      PROVE  /\ region_left \in Containing /\ \A k \in Containing : k <= region_left
             /\ region_left <= r
             /\ \A k \in Matches : k > region_left => k > r
             /\ r = last \/ r + 1 \in Matches
  <2>1. PICK x \in Matches : stabs[x].value <= goal
    BY <1>5, Zenon DEF Containing
  <2>2. x \in Int /\ first <= x /\ x <= r /\ x <= region_left
    BY <1>4, <2>1, MatchFacts, Zenon
  <2>3. region_left \in Matches /\ region_left <= r /\ stabs[region_left].value <= goal
    <3>1. CASE region_left = first
      <4>1. x = region_left
        BY <1>3, <2>2, <3>1
      <4> QED BY <2>1, <2>2, <4>1, Zenon
    <3>2. CASE region_left # first
      <4>1. region_left \in Matches /\ stabs[region_left].value <= goal
        BY <3>2, Zenon DEF BoundsInv
      <4> QED BY <1>4, <4>1, Zenon
    <3> QED BY <3>1, <3>2, Zenon
  <2>4. \A k \in Matches : k \in Int /\ k <= last /\ (k > region_left => k > r)
    BY <1>3, <1>4, MatchFacts
  <2>5. region_left \in Containing /\ \A k \in Containing : k <= region_left
    BY <1>4, <2>3, Zenon DEF Containing
  <2> QED BY <2>3, <2>4, <2>5, Zenon DEF BoundsInv
<1>6. l' = r /\ region_left' = region_left /\ region_right' = r /\ Matches # {}
  BY <1>3, Zenon DEF FoundSome, BoundsInv
<1> QED BY <1>1, <1>2, <1>3, <1>5, <1>6 DEF BackInv

\* The last loop stays between the two ends.
LEMMA BackStep ==
  ASSUME BackInv, BackOver
  PROVE  BackInv'
<1>1. /\ Matches' = Matches /\ l' = l - 1 /\ l > region_left
      /\ UNCHANGED <<stabs, goal, first, last, region_left, region_right>>
  BY SameTable, Zenon DEF BackOver
<1>2. Containing' = Containing
  BY <1>1, Zenon DEF Containing
<1> QED BY <1>1, <1>2 DEF BackInv

\* It ends at region_left, as there is no matching stab after it.
LEMMA FoundEnds ==
  ASSUME KdebugAssumption, Given, BackInv, Found
  PROVE  RegionFound'
<1>1. Matches' = Matches /\ UNCHANGED <<stabs, goal, first, last, region_right>> /\ region_left' = l
  BY SameTable, Zenon DEF Found
<1>2. Containing' = Containing
  BY <1>1, Zenon DEF Containing
<1>3. ASSUME Containing # {} PROVE l = region_left
  <2>1. /\ region_left \in Matches /\ region_left <= l /\ l <= region_right /\ region_right <= last
        /\ region_left \in Int /\ l \in Int /\ region_right \in Int
        /\ \A k \in Matches : k > region_left => k > region_right
    BY <1>3, Zenon DEF BackInv, Containing
  <2>2. first <= region_left /\ first \in Int /\ last \in Int
    BY <2>1, MatchFacts, Zenon
  <2>3. ASSUME l > region_left PROVE FALSE
    <3>1. stabs[l].match
      BY <2>3, Zenon DEF Found
    <3>2. l \in Matches
      BY <2>1, <2>2, <3>1 DEF Matches
    <3> QED BY <2>1, <2>3, <3>2
  <2> QED BY <2>1, <2>3
<1>4. Brackets'
  BY <1>1, <1>2, <1>3, Zenon DEF Brackets, BackInv
<1> QED BY <1>1, <1>4, Zenon DEF RegionFound, NoneIsEmpty, BackInv

\* Every step of the three loops, and the end, keep the invariant.
LEMMA NextKInv == ASSUME KdebugAssumption PROVE KInv /\ [NextSearch]_varsSearch => KInv'
<1> SUFFICES ASSUME KInv, [NextSearch]_varsSearch PROVE KInv'
  BY Zenon
<1>1. CASE UNCHANGED varsSearch
  <2>1. UNCHANGED <<stabs, addr, goal, first, last, region_left, region_right, l, r, m, any_matches, search>>
    BY <1>1, Zenon DEF varsSearch
  <2>2. Matches' = Matches /\ Followed' = Followed /\ Sorted' = Sorted
    BY <2>1, SameTable, Zenon
  <2>3. Given' = Given /\ Containing' = Containing
    BY <2>1, <2>2, Zenon DEF Given, Index, Containing
  <2>4. BoundsInv' = BoundsInv
    BY <2>1, <2>2, Zenon DEF BoundsInv
  <2>5. InnerInv' = InnerInv
    BY <2>1, <2>2, Zenon DEF InnerInv, Looping, true_m
  <2>6. BackInv' = BackInv
    BY <2>1, <2>2, <2>3, Zenon DEF BackInv
  <2>7. RegionFound' = RegionFound
    BY <2>1, <2>2, <2>3, Zenon DEF RegionFound, Brackets, NoneIsEmpty
  <2> QED BY <2>1, <2>2, <2>3, <2>4, <2>5, <2>6, <2>7, Zenon DEF KInv
<1>2. CASE NextSearch
  <2>1. /\ UNCHANGED <<stabs, goal, first, last>>
        /\ search' \in {"loop", "back", "done"} /\ any_matches' \in BOOLEAN
    BY <1>2, Zenon DEF NextSearch, Scan, NoMatch, Below, Above, Exact, NotFound, FoundSome, BackOver, Found, KInv, Given
  <2>2. Matches' = Matches /\ Followed' = Followed /\ Sorted' = Sorted
    BY <2>1, SameTable, Zenon
  <2>3. Given'
    BY <2>1, <2>2, Zenon DEF KInv, Given, Index
  <2>4. ASSUME search' # "done" PROVE RegionFound'
    BY <2>4, Zenon DEF RegionFound, Brackets, NoneIsEmpty
  <2>5. CASE NoMatch \/ Below \/ Above \/ Exact
    <3>1. Looping /\ search = "loop" /\ search' = "loop" /\ m' = true_m'
      BY <2>5, Zenon DEF NoMatch, Below, Above, Exact, AtMatch, Looping
    <3>2. ASSUME ~Followed PROVE BoundsInv'
      <4>1. Given /\ BoundsInv /\ InnerInv
        BY <3>1, <3>2, Zenon DEF KInv
      <4> QED BY <2>5, <3>2, <4>1, NoMatchTurn, BelowTurn, AboveTurn, ExactTurn, Zenon
    <3>3. ASSUME ~Followed PROVE InnerInv'
      BY <2>3, <3>1, <3>2, <3>3, TurnScan, Zenon
    <3> QED BY <2>2, <2>3, <2>4, <3>1, <3>2, <3>3, Zenon DEF KInv
  <2>6. CASE Scan
    <3>1. search = "loop" /\ search' = "loop"
      BY <2>6, Zenon DEF Scan, Looping
    <3> QED BY <2>2, <2>3, <2>4, <2>6, <3>1, ScanStep, Zenon DEF KInv
  <2>7. CASE FoundSome
    <3>1. search = "loop" /\ search' = "back"
      BY <2>7, Zenon DEF FoundSome
    <3> QED BY <2>2, <2>3, <2>4, <2>7, <3>1, LoopEnds, Zenon DEF KInv
  <2>8. CASE BackOver
    <3>1. search = "back" /\ search' = "back"
      BY <2>8, Zenon DEF BackOver
    <3> QED BY <2>2, <2>3, <2>4, <2>8, <3>1, BackStep, Zenon DEF KInv
  <2>9. CASE NotFound \/ Found
    <3>1. search' = "done" /\ (NotFound => search = "loop") /\ (Found => search = "back")
      BY <2>9, Zenon DEF NotFound, Found
    <3>2. ASSUME ~Followed PROVE RegionFound'
      BY <2>9, <3>1, <3>2, NotFoundEnds, FoundEnds, Zenon DEF KInv
    <3>3. ASSUME Followed PROVE RegionFound'
      <4>1. Followed' /\ Matches' # {}
        BY <2>2, <3>3, Zenon DEF Followed
      <4> QED BY <4>1, Zenon DEF RegionFound, NoneIsEmpty
    <3> QED BY <2>3, <3>1, <3>2, <3>3, Zenon DEF KInv
  <2> QED BY <1>2, <2>5, <2>6, <2>7, <2>8, <2>9, Zenon DEF NextSearch
<1> QED BY <1>1, <1>2, Zenon

\* stab_binsearch() finds the stab that contains the address and the end of its
\* region, for tables of any length, with stabs of other types anywhere between: the
\* contract that debuginfo_eip() relies on, unless a stab starts right after the one
\* that is met exactly.
THEOREM SearchIsRight == ASSUME KdebugAssumption PROVE SpecSearch => []RegionFound
<1>1. KInv => RegionFound
  BY Zenon DEF KInv
<1> QED BY <1>1, InitKInv, NextKInv, PTL DEF SpecSearch
=============================================================================
