-------------------------------- MODULE EnvVm -------------------------------
(***************************************************************************)
(* Environments and their memory together: EnvSched, with several          *)
(* processors, and Pmap, with memory that runs out.  env_alloc() needs a   *)
(* page for the directory, env_free() gives back what the environment has  *)
(* mapped, the memory system calls change the caller's or a child's        *)
(* address space (sys_page_map() anybody's), sys_ipc_try_send() the        *)
(* receiver's, and %cr3 holds the address of a page, which may have been   *)
(* freed since.                                                            *)
(*                                                                         *)
(* The memory of the idle environments is taken at boot and never given    *)
(* back; it is not among Pages.                                            *)
(***************************************************************************)
EXTENDS EnvSched, Pmap

CONSTANTS KernDir, IdleDir  \* kern_pgdir; the directories of the idle environments

VARIABLE pgdir  \* the page directory that each processor's %cr3 names

allVars == <<env_status, env_gen, env_parent_id, env_ipc_recving, env_free_list, curenv, cr3,
             kernel_lock, pc, ptr, perm, pp_ref, free, pgdir>>

\* The slots whose memory is among Pages are those of the user environments.
ASSUME EnvVmAssumption ==
  /\ Envs = Slots \ Idle
  /\ {KernDir, IdleDir} \cap Pages = {}
  /\ Cardinality(Pages) >= NUSER

\* env_pgdir
Pgdir(e) == IF e \in Idle THEN IdleDir ELSE ptr[<<e>>]

\* Mutant: the memory system calls do not ask envid2env() to check permissions.
Mine_Any(c) ==
  {e \in Envs : \E id \in EnvIds : EnvId2Env(c, id, FALSE, e)}

\* Environments that envid2env() finds with checkperm: the caller and its children,
\* zombies included.
Mine(c) ==
  {e \in Envs : \E id \in EnvIds : EnvId2Env(c, id, TRUE, e)}

\* Environments that it finds without: all there are.
Anyone(c) ==
  {e \in Envs : \E id \in EnvIds : EnvId2Env(c, id, FALSE, e)}

-----------------------------------------------------------------------------
\* env_create() of the first user environments; load_icode() is left out.
InitVm ==
  /\ Init
  /\ \E dirs \in [NCPU .. NCPU + NUSER - 1 -> Pages] :
       /\ \A e, d \in DOMAIN dirs : dirs[e] = dirs[d] => e = d
       /\ ptr = [r \in Places |-> IF Len(r) = 1 /\ r[1] \in DOMAIN dirs THEN dirs[r[1]] ELSE Nil]
       /\ pp_ref = [p \in Pages |-> IF \E e \in DOMAIN dirs : dirs[e] = p THEN 1 ELSE 0]
       /\ free = [p \in Pages |-> 1 - pp_ref[p]]
  /\ perm = [r \in Entries |-> {}]
  /\ pgdir = [c \in Cpus |-> KernDir]

\* Steps and handlers that leave memory alone.
NoMemory(c) ==
  /\ \/ Lock(c) \/ Trap(c) \/ Start(c) \/ Yield(c) \/ Nop(c)
     \/ SysEnvSetStatus(c) \/ SysIpcTrySend(c) \/ SysIpcRecv(c)
  /\ UNCHANGED <<memVars, pgdir>>

\* The end of env_run() loads env_pgdir, as it is by then.
LoadPgdir(c) ==
  /\ PopTf(c)
  /\ pgdir' = [pgdir EXCEPT ![c] = Pgdir(curenv[c])]
  /\ UNCHANGED memVars

\* Mutant: env_alloc() goes on when env_setup_vm() has failed.
Exofork_Unchecked(c) ==
  /\ SysExofork(c)
  /\ EnvSetupVm(Head(env_free_list)) \/ UNCHANGED memVars
  /\ UNCHANGED pgdir

\* sys_exofork(): env_setup_vm() finds a page.  Otherwise env_alloc() returns
\* before it has changed anything, and the call is a Nop.
Exofork(c) ==
  /\ SysExofork(c)
  /\ EnvSetupVm(Head(env_free_list))
  /\ UNCHANGED pgdir

\* The environment that the handler frees, if any.
FreedNow == {e \in Slots : env_status[e] # "FREE" /\ env_status'[e] = "FREE"}

\* Mutant: the processor keeps the directory that it frees.
Unload_Not(c) == pgdir' = pgdir

\* env_free(): "If freeing the current environment, switch to kern_pgdir"
Unload(c) == pgdir' = IF curenv[c] \in FreedNow THEN [pgdir EXCEPT ![c] = KernDir] ELSE pgdir

\* env_destroy(), in any handler, and the zombies of trap(): the memory goes when
\* the environment does, and not when it is only marked DYING.
Release(c) ==
  /\ Reap(c) \/ SysEnvDestroy(c) \/ Fault(c)
  /\ IF FreedNow \cap Envs = {} THEN UNCHANGED memVars
     ELSE \E e \in FreedNow \cap Envs : EnvFreeVm(e)
  /\ Unload(c)

\* The memory system calls.  sys_page_map() checks whose page it takes and not where
\* it puts it.
Memory(c) ==
  /\ Nop(c) /\ curenv[c] \notin Idle
  /\ \E e \in Anyone(c), x \in Pdxs, y \in Ptxs :
       \/ e \in Mine(c) /\ SysPageAllocFails(e, x)
       \/ e \in Mine(c) /\ SysPageUnmap(e, x, y)
       \/ \E pm \in Perms : e \in Mine(c) /\ SysPageAlloc(e, x, y, pm)
       \/ \E pm \in Perms, src \in PagePlaces :
            src[1] \in Mine(c) /\ SysPageMap(src, e, x, y, pm)
  /\ UNCHANGED pgdir

\* sys_ipc_try_send() of a page to a receiver that has nothing mapped there.  It
\* refuses a perm that is more than flags.
SendPage(c) ==
  /\ SysIpcTrySend(c)
  /\ \E to \in Envs : env_ipc_recving[to] /\ ~env_ipc_recving'[to] /\
       \E src \in PagePlaces, x \in Pdxs, y \in Ptxs, pm \in Perms :
         /\ src[1] = curenv[c] /\ ptr[<<to, x, y>>] = Nil /\ "ADDR" \notin pm
         /\ SysPageMap(src, to, x, y, pm)
  /\ UNCHANGED pgdir

NextVm ==
  \E c \in Cpus :
    NoMemory(c) \/ LoadPgdir(c) \/ Exofork(c) \/ Release(c) \/ Memory(c) \/ SendPage(c)

SpecVm == InitVm /\ [][NextVm]_allVars

-----------------------------------------------------------------------------
\* Types; %cr3 names a page or one of the two directories that stay.
TypeOKVm == TypeOK /\ TypeOKPmap /\ pgdir \in [Cpus -> Pages \cup {KernDir, IdleDir}]

\* An environment has a page directory exactly as long as it is allocated, and
\* what a free slot had mapped is gone: env_alloc() commits nothing without the
\* directory, and a zombie keeps its memory until its processor lets go of it.
MemoryFollowsLife ==
  \A e \in Envs :
    /\ env_status[e] # "FREE" <=> ptr[<<e>>] # Nil
    /\ env_status[e] = "FREE" => \A r \in PlacesOf(e) : ptr[r] = Nil

\* Between env_pop_tf() and the end of the next trap %cr3 holds the page that is
\* the current environment's directory now, and that page is nothing else: not
\* free, not another's directory, not data, although the other processors destroy
\* (each environment once), allocate and map meanwhile.
DirectoryLive ==
  \A c \in Cpus : pc[c] \in {"user", "trap", "kernel"} /\ curenv[c] \in Envs =>
    /\ pgdir[c] = ptr[<<curenv[c]>>]
    /\ pgdir[c] \in Pages /\ free[pgdir[c]] = 0 /\ Cardinality(RefsTo(pgdir[c])) = 1

\* A processor has let go of a directory before it frees it: "switch to
\* kern_pgdir before freeing the page directory, just in case the page gets
\* reused" (env_free), while it goes on in the kernel and another processor
\* may already fill the page.
LetsGo ==
  \A c \in Cpus, p \in Pages :
    pc[c] = "kernel" /\ pc'[c] # "kernel" /\ free[p] = 0 /\ free'[p] # 0 => pgdir'[c] # p

\* Memory and life agree, processors run on directories that are alive and let
\* go of those that they free.
AddressSpacesLive == [](MemoryFollowsLife /\ DirectoryLive) /\ [][LetsGo]_allVars

\* The environment e is the one that processor c works for, or its child.
Owns(c, e) == e = curenv[c] \/ env_parent_id[e] = env_id(curenv[c])

\* A processor in a handler may leave page p (or nothing) at the place r: nothing, in
\* an address space of its environment's or of a child's; a page that had no use, in
\* such an address space or where there was nothing (a directory or a table); and a
\* page that its environment or a child has mapped, in any address space
\* (sys_page_map(), sys_ipc_try_send()).
MayLeave(c, r, p) ==
  \/ p = Nil /\ Owns(c, r[1])
  \/ p \in Pages /\ RefsTo(p) = {} /\ (ptr[r] = Nil \/ Owns(c, r[1]))
  \/ p \in Pages /\ \E q \in PagePlaces : ptr[q] = p /\ Owns(c, q[1])

\* Nobody but an environment and its parent empties a place of its address space or
\* gets at a page in it; others can put pages there that they have mapped, also over
\* what was there.  Its directory stays the same page all its life.
OwnerStep ==
  /\ \A r \in Places : ptr'[r] # ptr[r] =>
       \E c \in Cpus : pc[c] = "kernel" /\ pc'[c] # "kernel" /\ MayLeave(c, r, ptr'[r])
  /\ \A e \in Envs : env_status[e] # "FREE" /\ env_status'[e] # "FREE" =>
       ptr'[<<e>>] = ptr[<<e>>]

\* Each of the two components behaves as it does alone, so that what is shown of
\* EnvSched and of Pmap holds of the kernel that has both.
ComponentsKept ==
  /\ Init /\ [][Next]_vars
  /\ [][NextPmap]_memVars
  /\ [][OwnerStep]_allVars
=============================================================================
