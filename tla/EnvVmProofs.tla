---------------------------- MODULE EnvVmProofs -----------------------------
(***************************************************************************)
(* Proofs about EnvVm: environments and memory together, for any number of *)
(* processors, environments, pages and table entries, as long as no count  *)
(* of references can wrap (NoWrap), the system calls get flags as          *)
(* permissions (FlagsOnly) and what the library passes them                *)
(* (LibraryCalls).  The invariants of the two components are taken from    *)
(* EnvSchedProofs and PmapProofs; IVm adds what relates one to the other.  *)
(***************************************************************************)
EXTENDS EnvVm, EnvSchedProofs, PmapProofs

\* A processor that has an environment's %cr3 has its present directory.
PgdirInv ==
  \A c \in Cpus : pc[c] \in {"user", "trap", "kernel"} => pgdir[c] = Pgdir(curenv[c])

IVm ==
  /\ IInv /\ PmapInv
  /\ pgdir \in [Cpus -> Pages \cup {KernDir, IdleDir}]
  /\ MemoryFollowsLife
  /\ PgdirInv

-----------------------------------------------------------------------------
\* The page directories of the kernel are not among the pages, and the idle
\* environments not among those whose memory is modelled.
LEMMA MemoryConstants ==
  /\ Nil \notin Pages /\ KernDir \notin Pages /\ IdleDir \notin Pages
  /\ Envs \subseteq Slots /\ Envs \cap Idle = {}
<1>1. Nil \notin Pages
  BY PmapAssumption, Zenon
<1>2. KernDir \notin Pages /\ IdleDir \notin Pages
  BY EnvVmAssumption, Zenon
<1>3. Envs \subseteq Slots /\ Envs \cap Idle = {}
  BY EnvVmAssumption, Zenon
<1> QED BY <1>1, <1>2, <1>3, Zenon

-----------------------------------------------------------------------------
(* What an operation on memory does to the places of an environment.        *)

\* The places of environments, seen from a pointer.
LEMMA PlaceOwners ==
  /\ \A e \in Envs : <<e>> \in Places /\ <<e>> \in PlacesOf(e)
  /\ \A e \in Envs : PlacesOf(e) \subseteq Places
  /\ \A e \in Envs, x \in Pdxs : <<e, x>> \in Places /\ <<e, x>> # <<e>>
  /\ \A e \in Envs, x \in Pdxs, y \in Ptxs : <<e, x, y>> \in Places
  /\ \A e, d \in Envs, x \in Pdxs, y \in Ptxs :
       /\ <<d>> # <<e, x>> /\ <<d>> # <<e, x, y>>
       /\ d # e => <<e, x>> \notin PlacesOf(d) /\ <<e, x, y>> \notin PlacesOf(d)
  /\ \A e, d \in Envs : <<e>> = <<d>> => e = d
  /\ \A e, d \in Envs : e # d => <<e>> \notin PlacesOf(d)
<1>1. \A e \in Envs : <<e>> \in DirPlaces /\ <<e>>[1] = e
  BY Zenon DEF DirPlaces
<1>2. \A e \in Envs, x \in Pdxs : <<e, x>> \in TablePlaces /\ <<e, x>>[1] = e
  BY Zenon DEF TablePlaces
<1>3. \A e \in Envs, x \in Pdxs, y \in Ptxs :
        <<e, x, y>> \in PagePlaces /\ <<e, x, y>>[1] = e
  BY Zenon DEF PagePlaces
<1>4. \A e \in Envs, x \in Pdxs : \A d \in Envs : <<d>> # <<e, x>>
  BY <1>1, <1>2, PlaceKinds
<1>5. \A e \in Envs, x \in Pdxs, y \in Ptxs : \A d \in Envs : <<d>> # <<e, x, y>>
  BY <1>1, <1>3, PlaceKinds, Zenon
<1> QED BY <1>1, <1>2, <1>3, <1>4, <1>5, Zenon DEF Places, PlacesOf

\* A memory system call on environment e: only entries of e change, and no directory
\* is replaced.
EntriesOnly(e) ==
  /\ ptr[<<e>>] # Nil
  /\ \A d \in Envs : ptr'[<<d>>] = ptr[<<d>>]
  /\ \A d \in Envs \ {e} : \A r \in PlacesOf(d) : ptr'[r] = ptr[r]

\* What is changed, processor c may change.
Allowed(c) == \A r \in Places : ptr'[r] # ptr[r] => MayLeave(c, r, ptr'[r])

\* A page that page_alloc() may return has no use.
LEMMA FreshUnused ==
  ASSUME PmapInv, NEW p \in Pages, Allocatable(p, free)
  PROVE  RefsTo(p) = {}
<1>1. free[p] # 0
  BY DEF Allocatable
<1> QED BY <1>1, Zenon DEF PmapInv, FreeIffUnused

\* The entry <<e, x, y>> gets p, and the directory entry, if it was empty, a page that
\* had no use.
Inserted(e, x, y, p) ==
  /\ \A q \in Places \ {<<e, x>>, <<e, x, y>>} : ptr'[q] = ptr[q]
  /\ ptr'[<<e, x, y>>] = p
  /\ ptr'[<<e, x>>] # ptr[<<e, x>>] =>
       /\ ptr[<<e, x>>] = Nil
       /\ ptr'[<<e, x>>] \in Pages /\ RefsTo(ptr'[<<e, x>>]) = {}

\* page_insert() changes the entry it is for, and a directory entry that was empty,
\* which gets a page that had no use.
LEMMA Insertion ==
  ASSUME PmapInv, NEW p \in Pages, NEW e \in Envs, NEW x \in Pdxs, NEW y \in Ptxs, NEW pm,
         NEW ref, NEW fr, PageInsert(e, x, y, p, pm, ref, fr),
         \A t \in Pages : Allocatable(t, fr) => Allocatable(t, free)
  PROVE  Inserted(e, x, y, p)
<1> DEFINE d == <<e, x>>
           r == <<e, x, y>>
<1>1. /\ ptr \in [Places -> Pages \cup {Nil}] /\ d \in Places /\ r \in Places /\ d # r
  <2>1. d \in TablePlaces /\ r \in PagePlaces
    BY Zenon DEF TablePlaces, PagePlaces
  <2> QED BY <2>1, PlaceKinds, Zenon DEF Places, PmapInv, TypeOKPmap
<1>2. \/ ptr' = [ptr EXCEPT ![r] = p]
      \/ /\ ptr[d] = Nil
         /\ \E t \in Pages : /\ Allocatable(t, fr)
                             /\ ptr' = [[ptr EXCEPT ![d] = t] EXCEPT ![r] = p]
  BY Zenon DEF PageInsert, Replace
<1> HIDE DEF d, r
<1>3. CASE ptr' = [ptr EXCEPT ![r] = p]
  <2>1. ptr'[d] = ptr[d] /\ ptr'[r] = p /\ \A q \in Places \ {d, r} : ptr'[q] = ptr[q]
    BY <1>1, <1>3, Zenon
  <2> QED BY <2>1, Zenon DEF d, r, Inserted
<1>4. CASE ptr[d] = Nil /\ \E t \in Pages :
             Allocatable(t, fr) /\ ptr' = [[ptr EXCEPT ![d] = t] EXCEPT ![r] = p]
  <2>1. PICK t \in Pages : Allocatable(t, fr) /\ ptr' = [[ptr EXCEPT ![d] = t] EXCEPT ![r] = p]
    BY <1>4, Zenon
  <2>2. RefsTo(t) = {}
    BY <2>1, FreshUnused, Zenon
  <2>3. ptr'[d] = t /\ ptr'[r] = p /\ \A q \in Places \ {d, r} : ptr'[q] = ptr[q]
    BY <1>1, <2>1, Zenon
  <2> QED BY <1>4, <2>2, <2>3, Zenon DEF d, r, Inserted
<1> QED BY <1>2, <1>3, <1>4, Zenon

\* sys_page_alloc() and sys_page_unmap() on an address space of the caller's or a
\* child's, and sys_page_map() of a page of theirs to any address space, do that.
LEMMA CallEffect ==
  ASSUME FlagsOnly, PmapInv, NEW c \in Cpus, NEW e \in Envs, NEW x \in Pdxs, NEW y \in Ptxs,
         \/ Owns(c, e) /\ SysPageAllocFails(e, x)
         \/ Owns(c, e) /\ SysPageUnmap(e, x, y)
         \/ \E pm \in Perms : Owns(c, e) /\ SysPageAlloc(e, x, y, pm)
         \/ \E pm \in Perms, src \in PagePlaces :
              Owns(c, src[1]) /\ SysPageMap(src, e, x, y, pm)
  PROVE  EntriesOnly(e) /\ Allowed(c)
<1> DEFINE d == <<e, x>>
           s == <<e, x, y>>
<1>0. /\ TypeOKPmap /\ TreeShape /\ Nil \notin Pages
      /\ d \in TablePlaces /\ s \in PagePlaces /\ d \in Places /\ s \in Places
      /\ d[1] = e /\ s[1] = e /\ s[2] = x
  <2>1. d \in TablePlaces /\ s \in PagePlaces /\ d[1] = e /\ s[1] = e /\ s[2] = x
    BY Zenon DEF TablePlaces, PagePlaces
  <2> QED BY <2>1, MemoryConstants, Zenon DEF PmapInv, Shape, Places
<1>1. /\ \A q \in Places \ {d, s} : ptr'[q] = ptr[q]
      /\ ptr[<<e>>] # Nil
      /\ ptr'[d] # ptr[d] => MayLeave(c, d, ptr'[d])
      /\ ptr'[s] # ptr[s] => MayLeave(c, s, ptr'[s])
  <2>1. CASE SysPageAllocFails(e, x)
    BY <2>1, Zenon DEF SysPageAllocFails
  <2>2. CASE Owns(c, e) /\ SysPageUnmap(e, x, y)
    <3>1. ptr[s] # Nil /\ ptr' = [ptr EXCEPT ![s] = Nil]
      BY <2>2, Zenon DEF SysPageUnmap, PageRemove
    <3>2. ptr[<<e, x>>] # Nil
      BY <1>0, <3>1, Zenon DEF TreeShape
    <3>3. ptr[<<e>>] # Nil
      BY <1>0, <3>2, Zenon DEF TreeShape
    <3>4. d # s
      BY <1>0, PlaceKinds, Zenon
    <3> HIDE DEF d, s
    <3>5. ptr'[s] = Nil /\ ptr'[d] = ptr[d] /\ \A q \in Places \ {d, s} : ptr'[q] = ptr[q]
      BY <1>0, <3>1, <3>4, Zenon DEF TypeOKPmap
    <3>6. MayLeave(c, s, ptr'[s])
      BY <1>0, <2>2, <3>5, Zenon DEF MayLeave
    <3> QED BY <3>3, <3>5, <3>6, Zenon
  <2>3. ASSUME NEW pm \in Perms, Owns(c, e), SysPageAlloc(e, x, y, pm)
        PROVE  /\ \A q \in Places \ {d, s} : ptr'[q] = ptr[q]
               /\ ptr[<<e>>] # Nil
               /\ ptr'[d] # ptr[d] => MayLeave(c, d, ptr'[d])
               /\ ptr'[s] # ptr[s] => MayLeave(c, s, ptr'[s])
    <3>1. PICK p \in Pages :
            /\ Allocatable(p, free)
            /\ PageInsert(e, x, y, p, pm, [pp_ref EXCEPT ![p] = 0], Popped(p, free))
      BY <2>3, Zenon DEF SysPageAlloc
    <3>2. ptr[<<e>>] # Nil
      BY <2>3, Zenon DEF SysPageAlloc
    <3>3. \A t \in Pages : Allocatable(t, Popped(p, free)) => Allocatable(t, free)
      BY <1>0 DEF Allocatable, Popped, TypeOKPmap
    <3>4. /\ \A q \in Places \ {d, s} : ptr'[q] = ptr[q]
          /\ ptr'[s] = p
          /\ ptr'[d] # ptr[d] => /\ ptr[d] = Nil
                               /\ ptr'[d] \in Pages /\ RefsTo(ptr'[d]) = {}
      <4>1. Inserted(e, x, y, p)
        BY <3>1, <3>3, Insertion, Zenon
      <4> QED BY <4>1, Zenon DEF Inserted
    <3>5. RefsTo(p) = {}
      BY <3>1, FreshUnused, Zenon
    <3> HIDE DEF d, s
    <3> QED BY <1>0, <2>3, <3>2, <3>4, <3>5, Zenon DEF MayLeave
  <2>4. ASSUME NEW pm \in Perms, NEW src \in PagePlaces, Owns(c, src[1]),
               SysPageMap(src, e, x, y, pm)
        PROVE  /\ \A q \in Places \ {d, s} : ptr'[q] = ptr[q]
               /\ ptr[<<e>>] # Nil
               /\ ptr'[d] # ptr[d] => MayLeave(c, d, ptr'[d])
               /\ ptr'[s] # ptr[s] => MayLeave(c, s, ptr'[s])
    <3> DEFINE p == ptr[src]
    <3>1. p # Nil /\ PageInsert(e, x, y, p, pm, pp_ref, free) /\ ptr[<<e>>] # Nil
      BY <2>4, Zenon DEF SysPageMap, FlagsOnly
    <3>2. p \in Pages
      BY <1>0, <3>1, Zenon DEF TypeOKPmap, Places
    <3> HIDE DEF p
    <3>3. /\ \A q \in Places \ {d, s} : ptr'[q] = ptr[q]
          /\ ptr'[s] = p
          /\ ptr'[d] # ptr[d] => /\ ptr[d] = Nil
                               /\ ptr'[d] \in Pages /\ RefsTo(ptr'[d]) = {}
      <4>1. Inserted(e, x, y, p)
        BY <3>1, <3>2, Insertion, Zenon
      <4> QED BY <4>1, Zenon DEF Inserted
    <3>4. MayLeave(c, s, p)
      BY <2>4, <3>2, Zenon DEF MayLeave, p
    <3> HIDE DEF d, s
    <3> QED BY <3>1, <3>3, <3>4, Zenon DEF MayLeave
  <2> QED BY <2>1, <2>2, <2>3, <2>4, Zenon
<1>2. \A b \in Envs : <<b>> \in Places \ {d, s}
  BY PlaceOwners, Zenon
<1>3. \A b \in Envs \ {e} : PlacesOf(b) \subseteq Places \ {d, s}
  <2> SUFFICES ASSUME NEW b \in Envs \ {e}, NEW r \in PlacesOf(b)
               PROVE  r \in Places \ {d, s}
    BY Zenon
  <2>1. b \in Envs /\ b # e
    BY Zenon
  <2>2. d \notin PlacesOf(b) /\ s \notin PlacesOf(b) /\ PlacesOf(b) \subseteq Places
    BY <2>1, PlaceOwners, Zenon
  <2> QED BY <2>2, Zenon
<1> HIDE DEF d, s
<1>4. Allowed(c)
  BY <1>1, Zenon DEF Allowed
<1> QED BY <1>1, <1>2, <1>3, <1>4, Zenon DEF EntriesOnly

\* env_setup_vm() gives environment e a directory, a page that had no use, and touches
\* no other place.
LEMMA SetupEffect ==
  ASSUME PmapInv, NEW c \in Cpus, NEW e \in Envs, EnvSetupVm(e)
  PROVE  /\ ptr'[<<e>>] # Nil
         /\ \A d \in Envs \ {e} : \A r \in PlacesOf(d) : ptr'[r] = ptr[r]
         /\ Allowed(c)
<1>1. PICK p \in Pages :
        ptr[<<e>>] = Nil /\ Allocatable(p, free) /\ ptr' = [ptr EXCEPT ![<<e>>] = p]
  BY Zenon DEF EnvSetupVm
<1>2. ptr \in [Places -> Pages \cup {Nil}]
  BY Zenon DEF PmapInv, TypeOKPmap
<1>3. ptr'[<<e>>] = p /\ p # Nil
  BY <1>1, <1>2, PlaceOwners, MemoryConstants
<1>4. ASSUME NEW d \in Envs \ {e}, NEW r \in PlacesOf(d) PROVE ptr'[r] = ptr[r]
  <2>1. r # <<e>> /\ r \in Places
    BY PlaceOwners
  <2> QED BY <1>1, <1>2, <2>1, Zenon
<1>5. RefsTo(p) = {}
  BY <1>1, FreshUnused, Zenon
<1>6. ASSUME NEW r \in Places, ptr'[r] # ptr[r] PROVE MayLeave(c, r, ptr'[r])
  <2>1. r = <<e>>
    BY <1>1, <1>2, <1>6, Zenon
  <2> QED BY <1>1, <1>3, <1>5, <2>1, Zenon DEF MayLeave
<1> QED BY <1>3, <1>4, <1>6, Zenon DEF Allowed

\* env_free() clears the places of e and no other.
LEMMA FreeEffect ==
  ASSUME NEW c \in Cpus, NEW e \in Envs, Owns(c, e), EnvFreeVm(e)
  PROVE  /\ \A r \in PlacesOf(e) : ptr'[r] = Nil
         /\ \A d \in Envs \ {e} : \A r \in PlacesOf(d) : ptr'[r] = ptr[r]
         /\ Allowed(c)
<1>1. ptr' = [r \in Places |-> IF r \in PlacesOf(e) THEN Nil ELSE ptr[r]]
  BY Zenon DEF EnvFreeVm
<1>2. \A d \in Envs : PlacesOf(d) \subseteq Places
  BY PlaceOwners, Zenon
<1>3. \A d \in Envs \ {e} : \A r \in PlacesOf(d) : r \notin PlacesOf(e)
  BY Zenon DEF PlacesOf
<1>4. ASSUME NEW r \in Places, ptr'[r] # ptr[r] PROVE MayLeave(c, r, ptr'[r])
  <2>1. r \in PlacesOf(e) \/ r \notin PlacesOf(e)
    OBVIOUS
  <2>2. ptr'[r] = Nil /\ r \in PlacesOf(e)
    BY <1>1, <1>4, <2>1, Zenon
  <2>3. r[1] = e
    BY <2>2, Zenon DEF PlacesOf
  <2> QED BY <2>2, <2>3, Zenon DEF MayLeave
<1> QED BY <1>1, <1>2, <1>3, <1>4, Zenon DEF Allowed

-----------------------------------------------------------------------------
(* What a step of processor c does to the environments and their memory.    *)

\* What changes, a handler on processor c has changed that may.
Hands(c) ==
  \A r \in Places : ptr'[r] # ptr[r] =>
    pc[c] = "kernel" /\ pc'[c] # "kernel" /\ MayLeave(c, r, ptr'[r])

\* Memory comes with an environment's life, goes with it, and is touched by those
\* who may.
Effect(c) ==
  /\ Hands(c)
  /\ \A e \in Envs :
       /\ env_status[e] # "FREE" /\ env_status'[e] # "FREE" => ptr'[<<e>>] = ptr[<<e>>]
       /\ env_status[e] = "FREE" /\ env_status'[e] = "FREE" =>
            \A r \in PlacesOf(e) : ptr'[r] = ptr[r]
       /\ env_status[e] = "FREE" /\ env_status'[e] # "FREE" => ptr'[<<e>>] # Nil
       /\ env_status[e] # "FREE" /\ env_status'[e] = "FREE" =>
            \A r \in PlacesOf(e) : ptr'[r] = Nil

\* Nobody is allocated or freed.
NobodyNew == \A e \in Slots : env_status'[e] = "FREE" <=> env_status[e] = "FREE"

\* The end of a handler on processor c.
Leaves(c) ==
  /\ pc'[c] \in {"exit", "monitor"}
  /\ \A d \in Cpus \ {c} : pc'[d] = pc[d] /\ curenv'[d] = curenv[d]

\* sched_yield() and env_run() leave the kernel or halt.
LEMMA LeavesSwitched ==
  ASSUME NEW c \in Cpus, NEW st, Switched(c, st)
  PROVE  Leaves(c)
BY Zenon DEF Switched, Leaves

\* So does the return from a trap to the environment that was running.
LEMMA LeavesReturn ==
  ASSUME IInv, NEW c \in Cpus, pc' = [pc EXCEPT ![c] = "exit"],
         curenv' = [curenv EXCEPT ![c] = curenv[c]]
  PROVE  Leaves(c)
BY Zenon DEF IInv, TypeOK, Leaves

\* The handlers that only switch, wake or block.
LEMMA OthersLive ==
  ASSUME LibraryCalls, IInv, NEW c \in Cpus,
         Start(c) \/ Yield(c) \/ Nop(c) \/ SysEnvSetStatus(c) \/ SysIpcTrySend(c) \/ SysIpcRecv(c)
  PROVE  NobodyNew /\ Leaves(c)
<1>0. env_status \in [Slots -> Statuses]
  BY Zenon DEF IInv, TypeOK
<1>1. CASE Start(c) \/ Yield(c) \/ Nop(c)
  <2>1. Switched(c, env_status)
    BY <1>1, SwitchingMoves, Zenon
  <2>2. Kept(env_status)
    BY <2>1, Zenon DEF Switched
  <2> QED BY <2>1, <2>2, LeavesSwitched, Zenon DEF Kept, NobodyNew
<1>2. CASE SysEnvSetStatus(c) \/ SysIpcTrySend(c)
  <2>1. PICK e \in Slots : /\ env_status[e] = "NOT_RUNNABLE"
                           /\ env_status' = [env_status EXCEPT ![e] = "RUNNABLE"]
                           /\ pc' = [pc EXCEPT ![c] = "exit"]
                           /\ curenv' = [curenv EXCEPT ![c] = curenv[c]]
    BY <1>2, WakingMoves, Zenon
  <2>2. NobodyNew
    BY <1>0, <2>1, Zenon DEF NobodyNew
  <2> QED BY <2>1, <2>2, LeavesReturn, Zenon
<1>3. CASE SysIpcRecv(c)
  <2> DEFINE st == [env_status EXCEPT ![curenv[c]] = "NOT_RUNNABLE"]
  <2>1. /\ curenv[c] \in Slots /\ env_status[curenv[c]] = "RUNNING"
        /\ Switched(c, st)
    BY <1>3, RecvMoves, Zenon
  <2>2. \A e \in Slots : st[e] = "FREE" <=> env_status[e] = "FREE"
    BY <1>0, <2>1, Zenon
  <2>3. Kept(st)
    BY <2>1, Zenon DEF Switched
  <2> HIDE DEF st
  <2>4. NobodyNew
    BY <2>2, <2>3, Zenon DEF Kept, NobodyNew
  <2> QED BY <2>1, <2>4, LeavesSwitched
<1> QED BY <1>1, <1>2, <1>3, Zenon

\* Memory that does not change, while nobody is allocated or freed.
LEMMA NoEffect ==
  ASSUME NEW c \in Cpus, NobodyNew, ptr' = ptr
  PROVE  Effect(c)
BY MemoryConstants, Zenon DEF NobodyNew, Effect, Hands

\* A memory system call, or the page of a message, for environment e.
LEMMA EntriesEffect ==
  ASSUME MemoryFollowsLife, NEW c \in Cpus, NobodyNew, NEW e \in Envs, EntriesOnly(e),
         Allowed(c), pc[c] = "kernel", Leaves(c)
  PROVE  Effect(c)
<1>1. env_status[e] # "FREE"
  BY Zenon DEF MemoryFollowsLife, EntriesOnly
<1>2. ASSUME NEW d \in Envs
      PROVE  /\ ptr'[<<d>>] = ptr[<<d>>]
             /\ env_status[d] = "FREE" => \A r \in PlacesOf(d) : ptr'[r] = ptr[r]
  BY <1>1, Zenon DEF EntriesOnly
<1>3. Hands(c)
  BY Zenon DEF Hands, Allowed, Leaves
<1> QED BY <1>2, <1>3, MemoryConstants, Zenon DEF NobodyNew, Effect

\* sys_exofork(): the slot gets a directory.
LEMMA ExoforkEffect ==
  ASSUME IVm, NEW c \in Cpus, Exofork(c)
  PROVE  Effect(c) /\ Leaves(c)
<1> DEFINE e == Head(env_free_list)
<1>1. /\ e \in Slots \ Idle /\ env_status[e] = "FREE"
      /\ env_status' = [env_status EXCEPT ![e] = "NOT_RUNNABLE"]
      /\ pc' = [pc EXCEPT ![c] = "exit"]
      /\ curenv' = [curenv EXCEPT ![c] = curenv[c]]
  BY ExoforkMoves, Zenon DEF IVm, Exofork
<1>2. EnvSetupVm(e) /\ pc[c] = "kernel"
  BY Zenon DEF Exofork, SysExofork, Call, Dispatch
<1> HIDE DEF e
<1>3. e \in Envs
  BY <1>1, EnvVmAssumption, Zenon
<1>4. /\ ptr'[<<e>>] # Nil
      /\ \A d \in Envs \ {e} : \A r \in PlacesOf(d) : ptr'[r] = ptr[r]
      /\ Allowed(c)
  BY <1>2, <1>3, SetupEffect, Zenon DEF IVm
<1>5. Leaves(c)
  BY <1>1, LeavesReturn, Zenon DEF IVm
<1>6. Hands(c)
  BY <1>2, <1>4, <1>5, Zenon DEF Hands, Allowed, Leaves
<1>7. /\ env_status'[e] = "NOT_RUNNABLE"
      /\ \A d \in Envs \ {e} : env_status'[d] = env_status[d]
  BY <1>1, MemoryConstants, Zenon DEF IVm, IInv, TypeOK
<1>8. \A d \in Envs : <<d>> \in PlacesOf(d)
  BY PlaceOwners, Zenon
<1> QED BY <1>1, <1>4, <1>5, <1>6, <1>7, <1>8 DEF Effect

\* The memory system calls.
LEMMA MemoryEffect ==
  ASSUME FlagsOnly, LibraryCalls, IVm, NEW c \in Cpus, Memory(c)
  PROVE  Effect(c) /\ Leaves(c)
<1>1. NobodyNew /\ Leaves(c) /\ pc[c] = "kernel"
  BY OthersLive, Zenon DEF IVm, Memory, Nop, Dispatch
<1>2. \A e \in Mine(c) : Owns(c, e)
  BY Zenon DEF Mine, EnvId2Env, Owns
<1>3. PICK e \in Envs, x \in Pdxs, y \in Ptxs :
         \/ e \in Mine(c) /\ SysPageAllocFails(e, x)
         \/ e \in Mine(c) /\ SysPageUnmap(e, x, y)
         \/ \E pm \in Perms : e \in Mine(c) /\ SysPageAlloc(e, x, y, pm)
         \/ \E pm \in Perms, src \in PagePlaces :
              src[1] \in Mine(c) /\ SysPageMap(src, e, x, y, pm)
  BY Zenon DEF Memory, Anyone
<1>4. EntriesOnly(e) /\ Allowed(c)
  BY <1>2, <1>3, CallEffect, Zenon DEF IVm
<1> QED BY <1>1, <1>4, EntriesEffect DEF IVm

\* A page sent with a message.
LEMMA SendEffect ==
  ASSUME FlagsOnly, LibraryCalls, IVm, NEW c \in Cpus, SendPage(c)
  PROVE  Effect(c) /\ Leaves(c)
<1>1. NobodyNew /\ Leaves(c) /\ pc[c] = "kernel"
  BY OthersLive, Zenon DEF IVm, SendPage, SysIpcTrySend, Call, Dispatch
<1>2. PICK to \in Envs, src \in PagePlaces, x \in Pdxs, y \in Ptxs, pm \in Perms :
         src[1] = curenv[c] /\ SysPageMap(src, to, x, y, pm)
  BY Zenon DEF SendPage
<1>3. Owns(c, src[1])
  BY <1>2, Zenon DEF Owns
<1>4. EntriesOnly(to) /\ Allowed(c)
  BY <1>2, <1>3, CallEffect, Zenon DEF IVm
<1> QED BY <1>1, <1>4, EntriesEffect DEF IVm

\* env_destroy() and the end of a zombie.
LEMMA ReleaseEffect ==
  ASSUME LibraryCalls, IVm, NEW c \in Cpus, Release(c)
  PROVE  Effect(c) /\ Leaves(c)
<1>0. env_status \in [Slots -> Statuses] /\ pc[c] = "kernel"
  BY Zenon DEF IVm, IInv, TypeOK, Release, Reap, SysEnvDestroy, Fault, Call, Dispatch
<1>1. PICK e \in Slots \ Idle :
         /\ env_status[e] # "FREE"
         /\ e = curenv[c] \/ env_parent_id[e] = env_id(curenv[c])
         /\ \/ Switched(c, Freed(e))
            \/ /\ env_status[e] = "RUNNING"
               /\ Switched(c, [env_status EXCEPT ![e] = "DYING"])
  BY DestroyMoves, Zenon DEF IVm, Release
<1>2. e \in Envs /\ Leaves(c)
  BY <1>1, LeavesSwitched, EnvVmAssumption, Zenon
<1>3. Owns(c, e)
  BY <1>1, Zenon DEF Owns
<1>4. CASE Switched(c, Freed(e))
  <2>1. /\ env_status'[e] = "FREE"
        /\ \A d \in Slots \ {e} : env_status'[d] = "FREE" <=> env_status[d] = "FREE"
    BY <1>0, <1>1, <1>4 DEF Switched, Kept, Freed
  <2>2. FreedNow = {e}
    BY <1>1, <2>1, Zenon DEF FreedNow
  <2>3. EnvFreeVm(e)
    BY <1>2, <2>2, Zenon DEF Release
  <2>4. /\ \A r \in PlacesOf(e) : ptr'[r] = Nil
        /\ \A d \in Envs \ {e} : \A r \in PlacesOf(d) : ptr'[r] = ptr[r]
        /\ Allowed(c)
    BY <1>2, <1>3, <2>3, FreeEffect, Zenon
  <2>5. \A d \in Envs : d \in Slots /\ <<d>> \in PlacesOf(d)
    BY PlaceOwners, MemoryConstants, Zenon
  <2>6. Effect(c)
    <3>0. Hands(c)
      BY <1>0, <1>2, <2>4, Zenon DEF Hands, Allowed, Leaves
    <3> SUFFICES ASSUME NEW d \in Envs
                 PROVE  /\ env_status[d] # "FREE" /\ env_status'[d] # "FREE" => ptr'[<<d>>] = ptr[<<d>>]
                        /\ env_status[d] = "FREE" /\ env_status'[d] = "FREE" =>
                             \A r \in PlacesOf(d) : ptr'[r] = ptr[r]
                        /\ env_status[d] = "FREE" /\ env_status'[d] # "FREE" => ptr'[<<d>>] # Nil
                        /\ env_status[d] # "FREE" /\ env_status'[d] = "FREE" =>
                             \A r \in PlacesOf(d) : ptr'[r] = Nil
      BY <3>0, Zenon DEF Effect
    <3>1. CASE d = e
      BY <3>1, <1>1, <2>1, <2>4, Zenon
    <3>2. CASE d # e
      BY <3>2, <2>1, <2>4, <2>5, Zenon
    <3> QED BY <3>1, <3>2, Zenon
  <2> QED BY <1>2, <2>6, Zenon
<1>5. CASE env_status[e] = "RUNNING" /\ Switched(c, [env_status EXCEPT ![e] = "DYING"])
  <2> DEFINE st == [env_status EXCEPT ![e] = "DYING"]
  <2>1. \A d \in Slots : st[d] = "FREE" <=> env_status[d] = "FREE"
    BY <1>0, <1>5, Zenon
  <2>2. Kept(st)
    BY <1>5, Zenon DEF Switched
  <2> HIDE DEF st
  <2>3. NobodyNew
    BY <2>1, <2>2, Zenon DEF Kept, NobodyNew
  <2>4. FreedNow = {}
    BY <2>3, Zenon DEF FreedNow, NobodyNew
  <2>5. ptr' = ptr
    BY <2>4, Zenon DEF Release, memVars
  <2> QED BY <1>2, <2>3, <2>5, NoEffect
<1> QED BY <1>1, <1>4, <1>5, Zenon

\* Handlers that leave memory alone.
LEMMA NoMemoryEffect ==
  ASSUME LibraryCalls, IVm, NEW c \in Cpus, NoMemory(c)
  PROVE  /\ Effect(c) /\ pgdir' = pgdir
         /\ \/ Leaves(c)
            \/ Lock(c) \/ Trap(c)
<1>1. ptr' = ptr /\ pgdir' = pgdir
  BY Zenon DEF NoMemory, memVars
<1>2. CASE Lock(c) \/ Trap(c)
  <2>1. NobodyNew
    BY <1>2, Zenon DEF Lock, Trap, NobodyNew
  <2> QED BY <1>1, <1>2, <2>1, NoEffect, Zenon
<1>3. CASE ~ (Lock(c) \/ Trap(c))
  <2>1. NobodyNew /\ Leaves(c)
    BY <1>3, OthersLive, Zenon DEF NoMemory, IVm
  <2> QED BY <1>1, <2>1, NoEffect, Zenon
<1> QED BY <1>2, <1>3, Zenon

\* How the directories in use change.
Unloaded(c) ==
  \/ pgdir' = pgdir /\ env_status'[curenv[c]] # "FREE"
  \/ pgdir' = [pgdir EXCEPT ![c] = KernDir]

\* Each step of the composition, in these terms.
StepFacts(c) ==
  /\ Effect(c)
  /\ \/ Leaves(c) /\ (pc[c] = "kernel" => Unloaded(c)) /\ (pc[c] # "kernel" => pgdir' = pgdir)
     \/ (Lock(c) \/ Trap(c)) /\ pgdir' = pgdir
     \/ PopTf(c) /\ pgdir' = [pgdir EXCEPT ![c] = Pgdir(curenv[c])]

\* Every step is a step of EnvSched and, or leaving memory alone, one of Pmap.
LEMMA Components ==
  ASSUME NEW c \in Cpus,
         NoMemory(c) \/ LoadPgdir(c) \/ Exofork(c) \/ Release(c) \/ Memory(c) \/ SendPage(c),
         IVm
  PROVE  Next /\ [NextPmap]_memVars
<1>1. CASE NoMemory(c) \/ LoadPgdir(c)
  BY <1>1, Zenon DEF NoMemory, LoadPgdir, Next, Handler, memVars
<1>2. CASE Exofork(c)
  <2>1. Head(env_free_list) \in Envs
    BY <1>2, ExoforkMoves, EnvVmAssumption, Zenon DEF Exofork, IVm
  <2> QED BY <1>2, <2>1, Zenon DEF Exofork, Next, Handler, NextPmap
<1>3. CASE Release(c)
  <2>1. UNCHANGED memVars \/ \E e \in Envs : EnvFreeVm(e)
    BY <1>3, Zenon DEF Release
  <2> QED BY <1>3, <2>1, Zenon DEF Release, Next, Handler, NextPmap
<1>4. CASE Memory(c)
  <2>1. PICK e \in Envs, x \in Pdxs, y \in Ptxs :
         \/ SysPageAllocFails(e, x)
         \/ SysPageUnmap(e, x, y)
         \/ \E pm \in Perms : SysPageAlloc(e, x, y, pm)
         \/ \E pm \in Perms, src \in PagePlaces : SysPageMap(src, e, x, y, pm)
    BY <1>4, Zenon DEF Memory, Anyone
  <2>2. NextPmap
    BY <2>1, Zenon DEF NextPmap
  <2> QED BY <1>4, <2>2, Zenon DEF Memory, Next, Handler
<1>5. CASE SendPage(c)
  <2>1. PICK to \in Envs, src \in PagePlaces, x \in Pdxs, y \in Ptxs, pm \in Perms :
          SysPageMap(src, to, x, y, pm)
    BY <1>5, Zenon DEF SendPage
  <2>2. NextPmap
    BY <2>1, Zenon DEF NextPmap
  <2> QED BY <1>5, <2>2, Zenon DEF SendPage, Next, Handler
<1> QED BY <1>1, <1>2, <1>3, <1>4, <1>5

\* What every handler does to memory and to the directories in use, from the lemmas above.
LEMMA Facts ==
  ASSUME FlagsOnly, LibraryCalls, NEW c \in Cpus,
         NoMemory(c) \/ LoadPgdir(c) \/ Exofork(c) \/ Release(c) \/ Memory(c) \/ SendPage(c),
         IVm
  PROVE  StepFacts(c)
<1>0. ASSUME pc[c] = "kernel"
      PROVE  curenv[c] \in Slots /\ env_status[curenv[c]] # "FREE"
  BY <1>0, KernelMode, Zenon DEF IVm
<1>1. CASE NoMemory(c)
  <2>1. CASE Lock(c) \/ Trap(c)
    BY <1>1, <2>1, NoMemoryEffect, Zenon DEF StepFacts
  <2>2. CASE ~ (Lock(c) \/ Trap(c))
    <3>1. NobodyNew
      BY <1>1, <2>2, OthersLive, Zenon DEF NoMemory, IVm
    <3> QED BY <1>0, <1>1, <2>2, <3>1, NoMemoryEffect DEF StepFacts, Unloaded, NobodyNew
  <2> QED BY <2>1, <2>2, Zenon
<1>2. CASE LoadPgdir(c)
  <2>1. NobodyNew /\ ptr' = ptr
    BY <1>2, Zenon DEF LoadPgdir, PopTf, NobodyNew, memVars
  <2> QED BY <1>2, <2>1, NoEffect DEF StepFacts, LoadPgdir
<1>3. CASE Exofork(c)
  <2>1. env_status'[curenv[c]] # "FREE" /\ pgdir' = pgdir /\ pc[c] = "kernel"
    <3>1. pc[c] = "kernel" /\ pgdir' = pgdir
      BY <1>3, Zenon DEF Exofork, SysExofork, Call, Dispatch
    <3>2. /\ Head(env_free_list) \in Slots
          /\ env_status' = [env_status EXCEPT ![Head(env_free_list)] = "NOT_RUNNABLE"]
      BY <1>3, ExoforkMoves, Zenon DEF Exofork, IVm
    <3> QED BY <1>0, <3>1, <3>2, Zenon DEF IVm, IInv, TypeOK
  <2> QED BY <1>3, <2>1, ExoforkEffect DEF StepFacts, Unloaded
<1>4. CASE Release(c)
  <2>1. pc[c] = "kernel" /\ Unload(c)
    BY <1>4, Zenon DEF Release, Reap, SysEnvDestroy, Fault, Call, Dispatch
  <2>2. Unloaded(c)
    BY <1>0, <2>1, Zenon DEF Unload, Unloaded, FreedNow
  <2> QED BY <1>4, <2>1, <2>2, ReleaseEffect DEF StepFacts
<1>5. CASE Memory(c) \/ SendPage(c)
  <2>1. NobodyNew /\ pgdir' = pgdir /\ pc[c] = "kernel"
    BY <1>5, OthersLive, Zenon DEF IVm, Memory, SendPage, Nop, SysIpcTrySend, Call, Dispatch
  <2> QED BY <1>0, <1>5, <2>1, MemoryEffect, SendEffect DEF StepFacts, Unloaded, NobodyNew
<1> QED BY <1>1, <1>2, <1>3, <1>4, <1>5

-----------------------------------------------------------------------------
(* The invariant.                                                           *)

\* After env_create() of the first environments.
LEMMA InitIVm == InitVm => IVm
<1> SUFFICES ASSUME InitVm PROVE IVm
  BY Zenon
<1>1. IInv
  BY InitIInv, Zenon DEF InitVm
<1>2. PICK dirs \in [NCPU .. NCPU + NUSER - 1 -> Pages] :
       /\ \A e, d \in DOMAIN dirs : dirs[e] = dirs[d] => e = d
       /\ ptr = [r \in Places |->
                   IF Len(r) = 1 /\ r[1] \in DOMAIN dirs THEN dirs[r[1]] ELSE Nil]
       /\ pp_ref = [p \in Pages |-> IF \E e \in DOMAIN dirs : dirs[e] = p THEN 1 ELSE 0]
       /\ free = [p \in Pages |-> 1 - pp_ref[p]]
  BY Zenon DEF InitVm
<1> DEFINE First == DOMAIN dirs
<1>3. /\ First \subseteq Envs
      /\ \A e \in Envs : e \in First <=> env_status[e] # "FREE"
      /\ \A e \in First : dirs[e] \in Pages
  <2>1. First = NCPU .. NCPU + NUSER - 1 /\ \A e \in First : dirs[e] \in Pages
    BY Zenon
  <2> QED BY <2>1, ConstantsAssumption, EnvVmAssumption DEF InitVm, Init, Slots, Idle
<1>4. /\ \A e \in Envs : ptr[<<e>>] = IF e \in First THEN dirs[e] ELSE Nil
      /\ \A r \in Entries : ptr[r] = Nil
  <2>1. \A r \in Entries : Len(r) # 1 /\ r \in Places
    BY DEF Entries, Places, TablePlaces, PagePlaces
  <2>2. \A e \in Envs : Len(<<e>>) = 1 /\ <<e>>[1] = e /\ <<e>> \in Places
    BY PlaceOwners, Zenon
  <2> QED BY <1>2, <2>1, <2>2, Zenon
<1>5. /\ \A r \in Places : r \in Entries \/ \E e \in Envs : r = <<e>>
      /\ \A e \in Envs : <<e>> \notin Entries
  <2>1. \A r \in DirPlaces : \E e \in Envs : r = <<e>>
    BY Zenon DEF DirPlaces
  <2>2. \A e \in Envs : <<e>> \in DirPlaces
    BY Zenon DEF DirPlaces
  <2>3. ASSUME NEW e \in Envs PROVE <<e>> \notin TablePlaces /\ <<e>> \notin PagePlaces
    BY <2>2, PlaceKinds, MemoryConstants, Zenon
  <2> QED BY <2>1, <2>3, Zenon DEF Places, Entries
<1>6. ptr \in [Places -> Pages \cup {Nil}]
  BY <1>2, Zenon
<1>7. TypeOKPmap
  <2>1. perm \in [Entries -> SUBSET {"U", "W"}]
    BY Zenon DEF InitVm
  <2>2. pp_ref \in [Pages -> 0 .. REFMOD - 1] /\ free \in [Pages -> Nat]
    BY <1>2, PmapAssumption
  <2> QED BY <1>6, <2>1, <2>2, Zenon DEF TypeOKPmap
<1>8. RefCountExact /\ FreeIffUnused
  <2> SUFFICES ASSUME NEW p \in Pages
               PROVE  /\ pp_ref[p] = Cardinality(RefsTo(p))
                      /\ free[p] = IF RefsTo(p) = {} THEN 1 ELSE 0
    BY Zenon DEF RefCountExact, FreeIffUnused
  <2>1. CASE \E e \in First : dirs[e] = p
    <3>1. PICK e \in First : dirs[e] = p
      BY <2>1, Zenon
    <3>2. RefsTo(p) = {<<e>>}
      <4>1. <<e>> \in RefsTo(p)
        BY <1>3, <1>4, <3>1, PlaceOwners DEF RefsTo
      <4>2. ASSUME NEW r \in RefsTo(p) PROVE r = <<e>>
        <5>1. r \in Places /\ ptr[r] = p /\ p # Nil
          BY PmapAssumption DEF RefsTo
        <5>2. PICK d \in Envs : r = <<d>>
          BY <5>1, <1>4, <1>5, Zenon
        <5> QED BY <5>1, <5>2, <1>2, <1>3, <1>4, <3>1
      <4> QED BY <4>1, <4>2, Zenon
    <3>3. Cardinality(RefsTo(p)) = 1
      BY <3>2, FS_Singleton, Zenon
    <3>4. pp_ref[p] = 1 /\ free[p] = 0
      BY <1>2, <2>1
    <3>5. RefsTo(p) # {}
      BY <3>2, Zenon
    <3> QED BY <3>3, <3>4, <3>5, Zenon
  <2>2. CASE ~ \E e \in First : dirs[e] = p
    <3>1. RefsTo(p) = {}
      <4>1. ASSUME NEW r \in Places, ptr[r] = p PROVE FALSE
        <5>1. p # Nil
          BY PmapAssumption
        <5>2. PICK d \in Envs : r = <<d>>
          BY <4>1, <5>1, <1>4, <1>5, Zenon
        <5> QED BY <4>1, <5>1, <5>2, <1>4, <2>2
      <4> QED BY <4>1, Zenon DEF RefsTo
    <3>2. Cardinality(RefsTo(p)) = 0
      BY <3>1, FS_EmptySet, Zenon
    <3> QED BY <1>2, <2>2, <3>1, <3>2
  <2> QED BY <2>1, <2>2, Zenon
<1>9. Shape
  <2>1. TablesPrivate
    <3> SUFFICES ASSUME NEW r \in DirPlaces \cup TablePlaces, NEW q \in Places,
                        ptr[r] # Nil, ptr[q] = ptr[r]
                 PROVE  q = r
      BY Zenon DEF TablesPrivate
    <3>1. r \in Places
      BY Zenon DEF Places
    <3>2. PICK e \in Envs, d \in Envs : r = <<e>> /\ q = <<d>>
      BY <3>1, <1>4, <1>5, Zenon
    <3>3. e \in First /\ d \in First /\ dirs[e] = dirs[d]
      BY <3>2, <1>4, Zenon
    <3> QED BY <3>2, <3>3, <1>2, Zenon
  <2>2. TreeShape /\ PdePermissive
    BY <1>4, Zenon DEF TreeShape, PdePermissive, Entries
  <2> QED BY <2>1, <2>2, Zenon DEF Shape
<1>10. PmapInv
  BY <1>7, <1>8, <1>9, Zenon DEF PmapInv
<1>11. MemoryFollowsLife
  <2> SUFFICES ASSUME NEW e \in Envs
               PROVE  /\ env_status[e] # "FREE" <=> ptr[<<e>>] # Nil
                      /\ env_status[e] = "FREE" => \A r \in PlacesOf(e) : ptr[r] = Nil
    BY Zenon DEF MemoryFollowsLife
  <2>1. e \in First => dirs[e] # Nil
    BY PmapAssumption
  <2>2. ASSUME e \notin First, NEW r \in PlacesOf(e) PROVE ptr[r] = Nil
    <3>1. r \in Places /\ r[1] = e
      BY Zenon DEF PlacesOf
    <3> QED BY <1>2, <2>2, <3>1, Zenon
  <2> QED BY <1>3, <1>4, <2>1, <2>2
<1>12. PgdirInv /\ pgdir \in [Cpus -> Pages \cup {KernDir, IdleDir}]
  BY Zenon DEF InitVm, Init, PgdirInv
<1> QED BY <1>1, <1>10, <1>11, <1>12 DEF IVm

\* Memory goes on following the lives of the environments.
LEMMA LifeStepVm ==
  ASSUME MemoryFollowsLife, NEW c \in Cpus, Effect(c)
  PROVE  MemoryFollowsLife'
<1>1. \A e \in Envs : <<e>> \in PlacesOf(e)
  BY PlaceOwners, Zenon
<1>2. \A e : PlacesOf(e)' = PlacesOf(e)
  BY Zenon DEF PlacesOf, Places, DirPlaces, TablePlaces, PagePlaces
<1> SUFFICES ASSUME NEW e \in Envs
             PROVE  /\ env_status'[e] # "FREE" <=> ptr'[<<e>>] # Nil
                    /\ env_status'[e] = "FREE" => \A r \in PlacesOf(e) : ptr'[r] = Nil
  BY <1>2, Zenon DEF MemoryFollowsLife
<1>3. /\ env_status[e] # "FREE" <=> ptr[<<e>>] # Nil
      /\ env_status[e] = "FREE" => \A r \in PlacesOf(e) : ptr[r] = Nil
  BY Zenon DEF MemoryFollowsLife
<1> QED BY <1>1, <1>3, Zenon DEF Effect

\* An environment that a processor works for has a directory.
LEMMA WorkedFor ==
  ASSUME IInv, NEW c \in Cpus, OnBehalf(c)
  PROVE  curenv[c] \in Slots /\ env_status[curenv[c]] # "FREE"
BY Zenon DEF IInv, CurInv, RunningIffCurrent

\* The directories in use stay the right ones.
LEMMA PgdirStep ==
  ASSUME IVm, IInv', NEW c \in Cpus, StepFacts(c)
  PROVE  PgdirInv' /\ pgdir' \in [Cpus -> Pages \cup {KernDir, IdleDir}]
<1>0. /\ pgdir \in [Cpus -> Pages \cup {KernDir, IdleDir}]
      /\ pc \in [Cpus -> Modes] /\ curenv \in [Cpus -> Slots \cup {NoEnv}]
  BY Zenon DEF IVm, IInv, TypeOK
<1>1. ASSUME NEW d \in Cpus, OnBehalf(d), OnBehalf(d)', curenv'[d] = curenv[d]
      PROVE  Pgdir(curenv[d])' = Pgdir(curenv[d])
  <2>1. /\ curenv[d] \in Slots /\ env_status[curenv[d]] # "FREE"
        /\ env_status'[curenv[d]] # "FREE"
    BY <1>1, WorkedFor, Zenon DEF IVm, IInv, CurInv, RunningIffCurrent
  <2>2. curenv[d] \in Envs => ptr'[<<curenv[d]>>] = ptr[<<curenv[d]>>]
    BY <2>1, Zenon DEF StepFacts, Effect
  <2> QED BY <1>1, <2>1, <2>2, EnvVmAssumption, Zenon DEF Pgdir
<1>2. CASE Leaves(c) /\ (pc[c] = "kernel" => Unloaded(c)) /\ (pc[c] # "kernel" => pgdir' = pgdir)
  <2>1. /\ pgdir' \in [Cpus -> Pages \cup {KernDir, IdleDir}]
        /\ \A d \in Cpus \ {c} : pgdir'[d] = pgdir[d]
    BY <1>0, <1>2, Zenon DEF Unloaded
  <2>2. ASSUME NEW d \in Cpus, pc'[d] \in {"user", "trap", "kernel"}
        PROVE  pgdir'[d] = Pgdir(curenv[d])'
    <3>1. d # c /\ pc'[d] = pc[d] /\ curenv'[d] = curenv[d]
      BY <1>2, <2>2, Zenon DEF Leaves
    <3>2. OnBehalf(d) /\ OnBehalf(d)'
      BY <2>2, <3>1, Zenon DEF OnBehalf
    <3> QED BY <1>1, <2>1, <2>2, <3>1, <3>2 DEF IVm, PgdirInv
  <2> QED BY <2>1, <2>2, Zenon DEF PgdirInv
<1>3. CASE (Lock(c) \/ Trap(c)) /\ pgdir' = pgdir
  <2>1. ASSUME NEW d \in Cpus, pc'[d] \in {"user", "trap", "kernel"}
        PROVE  pgdir'[d] = Pgdir(curenv[d])'
    <3>1. pc[d] \in {"user", "trap", "kernel"} /\ curenv'[d] = curenv[d]
      BY <1>0, <1>3, <2>1 DEF Lock, Trap
    <3>2. OnBehalf(d) /\ OnBehalf(d)'
      BY <2>1, <3>1, Zenon DEF OnBehalf
    <3> QED BY <1>1, <1>3, <3>1, <3>2, Zenon DEF IVm, PgdirInv
  <2> QED BY <1>0, <1>3, <2>1, Zenon DEF PgdirInv
<1>4. CASE PopTf(c) /\ pgdir' = [pgdir EXCEPT ![c] = Pgdir(curenv[c])]
  <2>1. /\ pc[c] = "exit" /\ pc' = [pc EXCEPT ![c] = "user"] /\ curenv' = curenv
    BY <1>4, Zenon DEF PopTf
  <2>2. curenv[c] \in Slots /\ env_status[curenv[c]] # "FREE"
    BY <2>1, WorkedFor, Zenon DEF OnBehalf, IVm
  <2>3. Pgdir(curenv[c]) \in Pages \cup {KernDir, IdleDir}
    <3>1. CASE curenv[c] \in Idle
      BY <3>1, Zenon DEF Pgdir
    <3>2. CASE curenv[c] \notin Idle
      <4>1. curenv[c] \in Envs
        BY <2>2, <3>2, EnvVmAssumption, Zenon
      <4>2. ptr[<<curenv[c]>>] # Nil
        BY <2>2, <4>1, Zenon DEF IVm, MemoryFollowsLife
      <4>3. ptr[<<curenv[c]>>] \in Pages \cup {Nil}
        BY <4>1, PlaceOwners, Zenon DEF IVm, PmapInv, TypeOKPmap
      <4> QED BY <3>2, <4>2, <4>3, Zenon DEF Pgdir
    <3> QED BY <3>1, <3>2, Zenon
  <2>4. ASSUME NEW d \in Cpus, pc'[d] \in {"user", "trap", "kernel"}
        PROVE  pgdir'[d] = Pgdir(curenv[d])'
    <3>1. OnBehalf(d) /\ OnBehalf(d)' /\ curenv'[d] = curenv[d]
      BY <1>0, <2>1, <2>4, Zenon DEF OnBehalf
    <3>2. pgdir'[d] = Pgdir(curenv[d])
      BY <1>0, <1>4, <2>1, <2>4, Zenon DEF IVm, PgdirInv
    <3> QED BY <1>1, <3>1, <3>2, Zenon
  <2> QED BY <1>0, <1>4, <2>3, <2>4 DEF PgdirInv
<1> QED BY <1>2, <1>3, <1>4, Zenon DEF StepFacts

\* Every step of every processor preserves IVm.
LEMMA NextIVm == ASSUME NoWrap, FlagsOnly, LibraryCalls PROVE IVm /\ [NextVm]_allVars => IVm'
<1> SUFFICES ASSUME IVm, [NextVm]_allVars PROVE IVm'
  BY Zenon
<1>1. CASE NextVm
  <2>1. PICK c \in Cpus :
          NoMemory(c) \/ LoadPgdir(c) \/ Exofork(c) \/ Release(c) \/ Memory(c) \/ SendPage(c)
    BY <1>1, Zenon DEF NextVm
  <2>2. Next /\ [NextPmap]_memVars /\ StepFacts(c)
    BY <2>1, Components, Facts, Zenon
  <2>3. IInv'
    BY <2>2, NextIInv, Zenon DEF IVm
  <2>4. [NextPmap]_(memVars)
    BY <2>2, Zenon DEF memVars
  <2>5. PmapInv'
    BY <2>4, NextPmapInv, MemoryConstants, Zenon DEF IVm
  <2>6. MemoryFollowsLife'
    BY <2>2, LifeStepVm, Zenon DEF IVm, StepFacts
  <2> QED BY <2>2, <2>3, <2>5, <2>6, PgdirStep, Zenon DEF IVm
<1>2. CASE UNCHANGED allVars
  <2>1. UNCHANGED vars /\ UNCHANGED memVars /\ pgdir' = pgdir /\ pc' = pc /\ curenv' = curenv
        /\ ptr' = ptr /\ env_status' = env_status
    BY <1>2, Zenon DEF allVars, vars, memVars
  <2>2. IInv' /\ PmapInv'
    BY <2>1, NextIInv, NextPmapInv, MemoryConstants, Zenon DEF IVm
  <2>3. MemoryFollowsLife' /\ PgdirInv'
    BY <2>1, Zenon DEF IVm, MemoryFollowsLife, PgdirInv, Pgdir
  <2> QED BY <2>1, <2>2, <2>3, Zenon DEF IVm
<1> QED BY <1>1, <1>2, Zenon

\* A directory in use is a page that has this one use.
LEMMA DirectoriesAlive == IVm => DirectoryLive
<1> SUFFICES ASSUME IVm, NEW c \in Cpus, pc[c] \in {"user", "trap", "kernel"}, curenv[c] \in Envs
             PROVE  /\ pgdir[c] = ptr[<<curenv[c]>>]
                    /\ pgdir[c] \in Pages /\ free[pgdir[c]] = 0
                    /\ Cardinality(RefsTo(pgdir[c])) = 1
  BY Zenon DEF DirectoryLive
<1> DEFINE e == curenv[c]
           p == pgdir[c]
<1>1. e \in Envs /\ <<e>> \in Places /\ <<e>> \in DirPlaces
  BY PlaceOwners, Zenon DEF DirPlaces
<1>2. p = ptr[<<e>>]
  BY <1>1, MemoryConstants, Zenon DEF IVm, PgdirInv, Pgdir
<1>3. p \in Pages
  <2>1. env_status[e] # "FREE"
    BY WorkedFor, Zenon DEF IVm, OnBehalf
  <2>2. ptr[<<e>>] # Nil
    BY <1>1, <2>1, Zenon DEF IVm, MemoryFollowsLife
  <2> QED BY <1>1, <1>2, <2>2, Zenon DEF IVm, PmapInv, TypeOKPmap
<1> HIDE DEF e, p
<1>4. RefsTo(p) = {<<e>>}
  <2>1. \A q \in Places : ptr[q] = ptr[<<e>>] => q = <<e>>
    BY <1>1, <1>2, <1>3, MemoryConstants DEF IVm, PmapInv, Shape, TablesPrivate
  <2> QED BY <1>1, <1>2, <2>1, Zenon DEF RefsTo
<1>5. free[p] = 0
  <2>1. RefsTo(p) # {}
    BY <1>4, Zenon
  <2> QED BY <1>3, <2>1, Zenon DEF IVm, PmapInv, FreeIffUnused
<1>6. Cardinality(RefsTo(p)) = 1
  BY <1>4, FS_Singleton, Zenon
<1> QED BY <1>2, <1>3, <1>5, <1>6, Zenon DEF e, p

\* A processor that leaves the kernel has let go of what it freed.
LEMMA LetsGoStep ==
  ASSUME FlagsOnly, LibraryCalls, IVm, IVm', NextVm
  PROVE  LetsGo
<1> SUFFICES ASSUME NEW c \in Cpus, NEW p \in Pages, pc[c] = "kernel", pc'[c] # "kernel",
                    free[p] = 0, free'[p] # 0
             PROVE  pgdir'[c] # p
  BY Zenon DEF LetsGo
<1>1. PICK b \in Cpus :
        NoMemory(b) \/ LoadPgdir(b) \/ Exofork(b) \/ Release(b) \/ Memory(b) \/ SendPage(b)
  BY Zenon DEF NextVm
<1>2. StepFacts(b)
  BY <1>1, Facts, Zenon
<1>3. c = b /\ Unloaded(c)
  <2>1. ASSUME Lock(b) \/ Trap(b) \/ PopTf(b) PROVE FALSE
    BY <2>1, Zenon DEF Lock, Trap, PopTf, IVm, IInv, TypeOK
  <2>2. Leaves(b) /\ (pc[b] = "kernel" => Unloaded(b))
    BY <1>2, <2>1, Zenon DEF StepFacts
  <2> QED BY <2>2, Zenon DEF Leaves
<1>4. CASE pgdir' = [pgdir EXCEPT ![c] = KernDir]
  BY <1>4, MemoryConstants, Zenon DEF IVm
<1>5. CASE pgdir' = pgdir /\ env_status'[curenv[c]] # "FREE"
  <2>1. curenv[c] \in Slots /\ env_status[curenv[c]] # "FREE" /\ pgdir[c] = Pgdir(curenv[c])
    BY WorkedFor, Zenon DEF IVm, PgdirInv, OnBehalf
  <2>2. CASE curenv[c] \in Idle
    BY <1>5, <2>1, <2>2, MemoryConstants DEF Pgdir
  <2>3. CASE curenv[c] \in Envs
    <3> DEFINE r == <<curenv[c]>>
    <3>1. ptr'[r] = ptr[r] /\ pgdir[c] = ptr[r] /\ r \in Places
      BY <1>2, <1>5, <2>1, <2>3, PlaceOwners, MemoryConstants DEF StepFacts, Effect, Pgdir
    <3>2. RefsTo(p)' = {}
      BY Zenon DEF IVm, PmapInv, FreeIffUnused
    <3>3. ptr'[r] # p
      BY <3>1, <3>2, Zenon DEF RefsTo
    <3> QED BY <1>5, <3>1, <3>3, Zenon
  <2> QED BY <2>1, <2>2, <2>3, EnvVmAssumption
<1> QED BY <1>3, <1>4, <1>5, Zenon DEF Unloaded

\* Address spaces change by the hands of those who may.
LEMMA OwnerStepVm ==
  ASSUME FlagsOnly, LibraryCalls, IVm, NextVm
  PROVE  OwnerStep
<1>1. PICK c \in Cpus :
        NoMemory(c) \/ LoadPgdir(c) \/ Exofork(c) \/ Release(c) \/ Memory(c) \/ SendPage(c)
  BY Zenon DEF NextVm
<1>2. Effect(c)
  BY <1>1, Facts, Zenon DEF StepFacts
<1> QED BY <1>2, Zenon DEF OwnerStep, Effect, Hands

-----------------------------------------------------------------------------
(* The theorems.                                                            *)

\* Environments and memory keep their invariants, and their relation, together:
\* env_alloc(), env_free(), env_run() and the memory system calls on any number of
\* processors.
THEOREM InvarianceVm ==
  ASSUME NoWrap, FlagsOnly, LibraryCalls PROVE SpecVm => []IVm
<1>1. IVm /\ [NextVm]_allVars => IVm'
  BY NextIVm, Zenon
<1> QED BY <1>1, InitIVm, PTL DEF SpecVm

\* An environment has memory exactly as long as it lives, every processor in user
\* mode runs on the live directory of its environment, and one that frees a
\* directory has let go of it (env_free's lcr3(PADDR(kern_pgdir))).
THEOREM AddressSpacesStayLive ==
  ASSUME NoWrap, FlagsOnly, LibraryCalls PROVE SpecVm => AddressSpacesLive
<1>1. IVm => MemoryFollowsLife /\ DirectoryLive
  BY DirectoriesAlive, Zenon DEF IVm
<1>2. IVm /\ IVm' /\ [NextVm]_allVars => [LetsGo]_allVars
  BY LetsGoStep, Zenon
<1> QED BY <1>1, <1>2, InvarianceVm, PTL DEF SpecVm, AddressSpacesLive

\* The composition implements its components, so that the theorems about EnvSched
\* hold of it, and nobody but an environment and its parent empties a place of its
\* address space or gets at one in it (envid2env with checkperm, sys_ipc_try_send,
\* env_free).
THEOREM ComponentsAreKept ==
  ASSUME NoWrap, FlagsOnly, LibraryCalls PROVE SpecVm => ComponentsKept
<1>1. InitVm => Init
  BY Zenon DEF InitVm
<1>2. IVm /\ [NextVm]_allVars => [Next]_vars /\ [NextPmap]_memVars /\ [OwnerStep]_allVars
  <2> SUFFICES ASSUME IVm, [NextVm]_allVars
               PROVE  [Next]_vars /\ [NextPmap]_memVars /\ [OwnerStep]_allVars
    BY Zenon
  <2>1. CASE NextVm
    <3>1. Next /\ [NextPmap]_memVars
      BY <2>1, Components, Zenon DEF NextVm
    <3> QED BY <2>1, <3>1, OwnerStepVm, Zenon
  <2>2. CASE UNCHANGED allVars
    BY <2>2, Zenon DEF allVars, vars, memVars
  <2> QED BY <2>1, <2>2, Zenon
<1> QED BY <1>1, <1>2, InvarianceVm, PTL DEF SpecVm, ComponentsKept

\* Tables, counts, free list and page directories in use keep their types.
THEOREM TypeCorrectVm ==
  ASSUME NoWrap, FlagsOnly, LibraryCalls PROVE SpecVm => []TypeOKVm
<1>1. IVm => TypeOKVm
  BY Zenon DEF IVm, IInv, PmapInv, TypeOKPmap, TypeOKVm
<1> QED BY <1>1, InvarianceVm, PTL
=============================================================================
