-------------------------------- MODULE Pmap --------------------------------
(***************************************************************************)
(* Physical pages, their reference counts and the two-level page tables of *)
(* the environments (kern/pmap.c), as changed by env_setup_vm() and        *)
(* env_free() (kern/env.c) and by the memory system calls                  *)
(* (kern/syscall.c).  The kernel lock makes each of them one action.       *)
(*                                                                         *)
(* A place is somewhere a counted pointer to a page is kept:               *)
(*   <<e>>        env_pgdir of environment e                               *)
(*   <<e, x>>     entry x of its page directory, below UTOP                *)
(*   <<e, x, y>>  entry y of the page table that entry x points to         *)
(* The page tables of the kernel above UTOP are not counted and not here.  *)
(*                                                                         *)
(* The free list is kept as the number of times a page is on it, and       *)
(* page_alloc() may return any page on it: no property depends on the      *)
(* order, and a page freed twice shows as a 2.                             *)
(***************************************************************************)
EXTENDS Integers, FiniteSets

CONSTANTS
  Pages,    \* physical pages that page_init() put on the free list
  Envs,     \* slots of envs[]
  Pdxs,     \* page directory indices below PDX(UTOP)
  Ptxs,     \* page table indices
  Perms,    \* arguments perm of the callers, see FlagsOnly
  REFMOD,   \* pp_ref is a uint16_t: REFMOD is 2^16 in the code
  Nil       \* the null pointer

ASSUME PmapAssumption ==
  /\ IsFiniteSet(Pages) /\ IsFiniteSet(Envs)
  /\ IsFiniteSet(Pdxs) /\ IsFiniteSet(Ptxs)
  /\ Perms \subseteq SUBSET {"U", "W", "ADDR"}
  /\ REFMOD \in Nat \ {0, 1}
  /\ Nil \notin Pages

\* What the kernel is told of an entry is a word: PTE_U, PTE_W, other flags, which
\* make no difference here, and bits of an address, for which "ADDR" stands.  The
\* library passes flags only: lib/fork.c PGOFF(vpt[pn]), which may hold PTE_A and
\* PTE_D, all others constants.  sys_page_map() does not check that.
FlagsOnly == \A pm \in Perms : "ADDR" \notin pm

DirPlaces   == {<<e>> : e \in Envs}
TablePlaces == Envs \X Pdxs
PagePlaces  == Envs \X Pdxs \X Ptxs
Places      == DirPlaces \cup TablePlaces \cup PagePlaces

\* The places that belong to environment e.
PlacesOf(e) == {r \in Places : r[1] = e}

VARIABLES
  ptr,     \* [Places -> Pages \cup {Nil}]; not Nil means PTE_P is set
  perm,    \* PTE_U and PTE_W of directory and table entries
  pp_ref,  \* [Pages -> 0 .. REFMOD-1]
  free     \* [Pages -> Nat], how often a page is on page_free_list

memVars == <<ptr, perm, pp_ref, free>>

Entries == TablePlaces \cup PagePlaces

-----------------------------------------------------------------------------
\* pp_ref++ and --pp_ref, in sixteen bits.
Inc(n) == IF n = REFMOD - 1 THEN 0 ELSE n + 1
Dec(n) == IF n = 0 THEN REFMOD - 1 ELSE n - 1

\* page_alloc() may return p: p is on the list.
Allocatable(p, fr) == fr[p] > 0

\* Mutant: the page stays on the free list.
Popped_Not(p, fr) == fr

\* The free list after page_alloc() returned p ...
Popped(p, fr) == [fr EXCEPT ![p] = @ - 1]

\* ... and after page_free(p).
Pushed(p, fr) == [fr EXCEPT ![p] = @ + 1]

\* The free list after page_decref(p) left the counts ref.
Decreffed(p, ref, fr) == IF ref[p] = 0 THEN Pushed(p, fr) ELSE fr

\* Mutant: inserting the page that is there already counts it again.
Replace_Again(r, p, pt, ref, fr) ==
  /\ ptr' = [pt EXCEPT ![r] = p]
  /\ LET old  == pt[r]
         ref1 == [ref EXCEPT ![p] = Inc(@)]
         ref2 == IF old = Nil \/ old = p THEN ref1 ELSE [ref1 EXCEPT ![old] = Dec(@)]
     IN  /\ pp_ref' = ref2
         /\ free' = IF old = Nil \/ old = p THEN fr ELSE Decreffed(old, ref2, fr)

\* The counts and the free list after page_insert() of p where old was mapped:
\* page_remove(), which follows the increment for the new page, finds gone there.
Counted(p, old, gone, ref, fr) ==
  LET ref1 == [ref EXCEPT ![p] = Inc(@)]
      ref2 == IF Nil \in {old, gone} THEN ref1 ELSE [ref1 EXCEPT ![gone] = Dec(@)]
  IN  IF old = p
      THEN pp_ref' = ref /\ free' = fr
      ELSE /\ pp_ref' = ref2
           /\ free' = IF Nil \in {old, gone} THEN fr ELSE Decreffed(gone, ref2, fr)

\* page_insert() once the page table is there: page p replaces what is mapped at r.
\* pt, ref and fr are the tables, counts and free list at that point.
Replace(r, p, pt, ref, fr) ==
  /\ ptr' = [pt EXCEPT ![r] = p]
  /\ Counted(p, pt[r], pt[r], ref, fr)

\* The permissions page_insert() leaves: pgdir_walk() creates a directory
\* entry with PTE_W, and the entry is widened by the new page's permissions.
Permit(d, r, pm) ==
  perm' = [perm EXCEPT ![d] = (IF ptr[d] = Nil THEN {"W"} ELSE @) \cup pm,
                       ![r] = pm]

\* page_insert(): pgdir_walk() allocates a missing page table, if it can.
PageInsert(e, x, y, p, pm, ref, fr) ==
  LET d == <<e, x>>
      r == <<e, x, y>>
  IN  /\ \/ /\ ptr[d] # Nil
            /\ Replace(r, p, ptr, ref, fr)
         \/ /\ ptr[d] = Nil
            /\ \E t \in Pages :
                 /\ Allocatable(t, fr)
                 /\ Replace(r, p, [ptr EXCEPT ![d] = t],
                            [ref EXCEPT ![t] = Inc(0)], Popped(t, fr))
      /\ Permit(d, r, pm)

\* page_insert() with bits of an address in perm, which it ors into both entries: the
\* directory entry then names some other table, page_remove() takes away whatever
\* it finds there, and nothing is known of what is mapped afterwards.  (A page that
\* is not among Pages counts as Nil.)
PageInsertRaw(e, x, y, p, ref, fr) ==
  LET d    == <<e, x>>
      tabs == IF ptr[d] = Nil THEN {t \in Pages : Allocatable(t, fr)} ELSE {Nil}
  IN  /\ ptr' \in [Places -> Pages \cup {Nil}]
      /\ perm' \in [Entries -> SUBSET {"U", "W"}]
      /\ \E t \in tabs, gone \in Pages \cup {Nil} :
           IF t = Nil THEN Counted(p, ptr[<<e, x, y>>], gone, ref, fr)
           ELSE Counted(p, Nil, gone, [ref EXCEPT ![t] = Inc(0)], Popped(t, fr))

\* page_insert() returns -E_NO_MEM.
NoTable(e, x, fr) ==
  /\ ptr[<<e, x>>] = Nil
  /\ \A t \in Pages : ~ Allocatable(t, fr)

-----------------------------------------------------------------------------
\* env_setup_vm(): a fresh page directory; page_alloc() clears pp_ref.
EnvSetupVm(e) ==
  /\ ptr[<<e>>] = Nil
  /\ \E p \in Pages :
       /\ Allocatable(p, free)
       /\ ptr' = [ptr EXCEPT ![<<e>>] = p]
       /\ pp_ref' = [pp_ref EXCEPT ![p] = Inc(0)]
       /\ free' = Popped(p, free)
  /\ UNCHANGED perm

\* sys_page_alloc() that succeeds.  It refuses a perm that is more than flags.
SysPageAlloc(e, x, y, pm) ==
  /\ "ADDR" \notin pm
  /\ ptr[<<e>>] # Nil
  /\ \E p \in Pages :
       /\ Allocatable(p, free)
       /\ PageInsert(e, x, y, p, pm, [pp_ref EXCEPT ![p] = 0], Popped(p, free))

\* Mutant: the page is not given back.
SysPageAllocFails_Leak(e, x) ==
  /\ ptr[<<e>>] # Nil
  /\ \E p \in Pages :
       /\ Allocatable(p, free)
       /\ NoTable(e, x, Popped(p, free))
       /\ pp_ref' = [pp_ref EXCEPT ![p] = 0]
       /\ free' = Popped(p, free)
  /\ UNCHANGED <<ptr, perm>>

\* sys_page_alloc() that has its page but finds no page for the page table:
\* it gives the page back.  (With no page at all nothing happens.)
SysPageAllocFails(e, x) ==
  /\ ptr[<<e>>] # Nil
  /\ \E p \in Pages :
       /\ Allocatable(p, free)
       /\ NoTable(e, x, Popped(p, free))
       /\ pp_ref' = [pp_ref EXCEPT ![p] = 0]
       /\ free' = Pushed(p, Popped(p, free))
  /\ UNCHANGED <<ptr, perm>>

\* Mutant: write permission may be asked for a page that is mapped read-only.
SysPageMap_AnyPerm(src, dst, x, y, pm) ==
  /\ ptr[<<src[1]>>] # Nil
  /\ ptr[<<dst>>] # Nil
  /\ ptr[src] # Nil
  /\ PageInsert(dst, x, y, ptr[src], pm, pp_ref, free)

\* sys_page_map() from the place src that succeeds; so does the page transfer
\* of sys_ipc_try_send().  It never grants write access to a page that the
\* source maps read-only; what else is in perm is not looked at.
SysPageMap(src, dst, x, y, pm) ==
  /\ ptr[<<src[1]>>] # Nil
  /\ ptr[<<dst>>] # Nil
  /\ ptr[src] # Nil
  /\ "W" \in pm => "W" \in perm[src]
  /\ IF "ADDR" \in pm
     THEN PageInsertRaw(dst, x, y, ptr[src], pp_ref, free)
     ELSE PageInsert(dst, x, y, ptr[src], pm, pp_ref, free)

\* page_remove() of a mapped page; with no page there nothing happens.
PageRemove(r) ==
  /\ ptr[r] # Nil
  /\ ptr' = [ptr EXCEPT ![r] = Nil]
  /\ perm' = [perm EXCEPT ![r] = {}]
  /\ pp_ref' = [pp_ref EXCEPT ![ptr[r]] = Dec(@)]
  /\ free' = Decreffed(ptr[r], pp_ref', free)

\* sys_page_unmap() of one of the caller's or a child's places.
SysPageUnmap(e, x, y) == PageRemove(<<e, x, y>>)

\* How many places of e point to p: that many page_decref(p) in env_free(e).
Uses(e, p) == Cardinality({r \in PlacesOf(e) : ptr[r] = p})

\* Mutant: the page directory entries are left in place.
EnvFreeVm_KeepsTables(e) ==
  /\ ptr[<<e>>] # Nil
  /\ ptr' = [r \in Places |-> IF r \in PlacesOf(e) \ TablePlaces THEN Nil ELSE ptr[r]]
  /\ perm' = [r \in Entries |-> IF r \in PlacesOf(e) THEN {} ELSE perm[r]]
  /\ pp_ref' = [p \in Pages |-> (pp_ref[p] - Uses(e, p)) % REFMOD]
  /\ free' = [p \in Pages |-> IF pp_ref[p] \in 1 .. Uses(e, p)
                              THEN free[p] + 1 ELSE free[p]]

\* env_free(): every page, page table and finally the page directory of e is
\* dereferenced.  A count that is n before comes to 0 if there are n of them.
EnvFreeVm(e) ==
  /\ ptr[<<e>>] # Nil
  /\ ptr' = [r \in Places |-> IF r \in PlacesOf(e) THEN Nil ELSE ptr[r]]
  /\ perm' = [r \in Entries |-> IF r \in PlacesOf(e) THEN {} ELSE perm[r]]
  /\ pp_ref' = [p \in Pages |-> (pp_ref[p] - Uses(e, p)) % REFMOD]
  /\ free' = [p \in Pages |-> IF pp_ref[p] \in 1 .. Uses(e, p)
                              THEN free[p] + 1 ELSE free[p]]

-----------------------------------------------------------------------------
InitPmap ==
  /\ ptr = [r \in Places |-> Nil]
  /\ perm = [r \in Entries |-> {}]
  /\ pp_ref = [p \in Pages |-> 0]
  /\ free = [p \in Pages |-> 1]

NextPmap ==
  \/ \E e \in Envs : EnvSetupVm(e) \/ EnvFreeVm(e)
  \/ \E e \in Envs, x \in Pdxs : SysPageAllocFails(e, x)
  \/ \E e \in Envs, x \in Pdxs, y \in Ptxs, pm \in Perms :
       \/ SysPageAlloc(e, x, y, pm)
       \/ \E src \in PagePlaces : SysPageMap(src, e, x, y, pm)
  \/ \E e \in Envs, x \in Pdxs, y \in Ptxs : SysPageUnmap(e, x, y)

SpecPmap == InitPmap /\ [][NextPmap]_memVars

-----------------------------------------------------------------------------
\* Types; pp_ref stays within its width.
TypeOKPmap ==
  /\ ptr \in [Places -> Pages \cup {Nil}]
  /\ perm \in [Entries -> SUBSET {"U", "W"}]
  /\ pp_ref \in [Pages -> 0 .. REFMOD - 1]
  /\ free \in [Pages -> Nat]

\* The places that point to page p.
RefsTo(p) == {r \in Places : ptr[r] = p}

\* "pp_ref is the count of pointers (usually in page table entries) to this
\* page" (inc/memlayout.h): page directories and page tables are counted too.
RefCountExact == \A p \in Pages : pp_ref[p] = Cardinality(RefsTo(p))

\* A page is on the free list once if nothing points to it, and not at all if
\* something does: no page is leaked, freed twice, or reused while mapped.
FreeIffUnused ==
  \A p \in Pages : free[p] = IF RefsTo(p) = {} THEN 1 ELSE 0

\* A page that serves as page directory or page table has that one use: it is
\* never mapped as data and never shared ("assert (p->pp_ref == 1)",
\* env_setup_vm).
TablesPrivate ==
  \A r \in DirPlaces \cup TablePlaces, q \in Places :
    ptr[r] # Nil /\ ptr[q] = ptr[r] => q = r

\* Whatever is mapped hangs off a page table, and every page table off a page
\* directory, so env_free() finds everything an environment has mapped.
TreeShape ==
  /\ \A r \in TablePlaces : ptr[r] # Nil => ptr[<<r[1]>>] # Nil
  /\ \A r \in PagePlaces : ptr[r] # Nil => ptr[<<r[1], r[2]>>] # Nil

\* A page directory entry permits at least what the entries of its page table
\* permit (the hardware checks both), although page_insert() only widens it.
PdePermissive ==
  \A r \in PagePlaces : ptr[r] # Nil => perm[r] \subseteq perm[<<r[1], r[2]>>]

\* What is mapped can be reached: env_free() finds it, and the processor's walk
\* through the directory is not refused what the table's entry permits; and the
\* pages of the trees are nothing else, so that no program writes to them.
TreesWhole == TablesPrivate /\ TreeShape /\ PdePermissive

\* Write access to a page spreads only from write access: a step that leaves a
\* page mapped writable at a place where it was not finds it mapped writable
\* somewhere or unused (sys_page_map's "must not grant write access to a
\* read-only page").
WriteStep ==
  \A r \in PagePlaces :
    ptr'[r] # Nil /\ "W" \in perm'[r] =>
      \/ ptr[r] = ptr'[r] /\ "W" \in perm[r]
      \/ RefsTo(ptr'[r]) = {}
      \/ \E q \in PagePlaces : ptr[q] = ptr'[r] /\ "W" \in perm[q]

WriteAccessSpreads == [][WriteStep]_memVars
=============================================================================
