------------------------------ MODULE KernMap -------------------------------
(***************************************************************************)
(* The kernel part of the address space: the calls of boot_map_region() in *)
(* mem_init() and mem_init_mp() (kern/pmap.c), page by page.  Addresses    *)
(* are numbers below 2^W, with the layout of inc/memlayout.h.              *)
(***************************************************************************)
EXTENDS Integers, Sequences

CONSTANTS
  W,                  \* width of an address
  PGSIZE, PTSIZE,
  KERNBASE, IOMEMBASE, IOMEM_PADDR,
  KSTKSIZE, KSTKGAP,
  NSTACKS,            \* NCPU, the length of percpu_kstacks[]
  NPages,             \* numbers of pages the machine may have
  PagesPA, EnvsPA, BootstackPA, KstacksPA,  \* physical addresses of pages[] ...
  SizeofPage, EnvsSize

MAX == 2^W - 1

KSTACKTOP == KERNBASE - PTSIZE
ULIM      == KSTACKTOP - PTSIZE
UVPT      == ULIM - PTSIZE
UPAGES    == UVPT - PTSIZE
UENVS     == UPAGES - PTSIZE

\* The layout leaves room for what is mapped: the stacks and the arrays fit in
\* the space of one page table each, and the memory ends where the devices begin.
\* The linker and boot_alloc() put the arrays and the stacks on whole pages.
ASSUME KernMapAssumption ==
  /\ PGSIZE \in Nat /\ PTSIZE \in Nat /\ KERNBASE \in Nat /\ IOMEMBASE \in Nat /\ 2^W \in Nat
  /\ KSTKSIZE \in Nat /\ KSTKGAP \in Nat /\ NSTACKS \in Nat /\ SizeofPage \in Nat /\ EnvsSize \in Nat
  /\ 4 <= PGSIZE /\ PGSIZE < PTSIZE
  /\ PTSIZE % PGSIZE = 0 /\ 2^W % PTSIZE = 0 /\ KERNBASE % PTSIZE = 0 /\ IOMEMBASE % PTSIZE = 0
  /\ 5 * PTSIZE <= KERNBASE /\ KERNBASE <= IOMEMBASE /\ IOMEMBASE < 2^W
  /\ 0 < KSTKSIZE /\ KSTKSIZE % PGSIZE = 0 /\ KSTKGAP % PGSIZE = 0
  /\ 0 < NSTACKS /\ NSTACKS * (KSTKSIZE + KSTKGAP) <= PTSIZE
  /\ NPages \subseteq Nat
  /\ \A n \in NPages : n * SizeofPage <= PTSIZE /\ n * PGSIZE <= IOMEMBASE - KERNBASE
  /\ EnvsSize <= PTSIZE
  /\ {PagesPA, EnvsPA, BootstackPA, KstacksPA, IOMEM_PADDR} \subseteq Nat
  /\ \A x \in {PagesPA, EnvsPA, BootstackPA, KstacksPA, IOMEM_PADDR} : x % PGSIZE = 0
  /\ \A x \in {PagesPA, EnvsPA, BootstackPA, KstacksPA} : x + PTSIZE < 2^W
  /\ IOMEM_PADDR <= IOMEMBASE

VARIABLES
  npages,
  call,     \* the call of boot_map_region() that is running
  map_i,    \* its loop variable
  pde,      \* page directory entries that are present: index -> permissions
  pte       \* page table entries that are present: address -> [pa, perm]

varsMap == <<npages, call, map_i, pde, pte>>

PDX(va)     == va \div PTSIZE
PTE_ADDR(x) == x - (x % PGSIZE)
ROUNDUP(x)  == PTE_ADDR(x + PGSIZE - 1)

\* Entry x becomes v, in a table that holds the entries that are present.
Stored(table, x, v) == [y \in DOMAIN table \cup {x} |-> IF y = x THEN v ELSE table[y]]

-----------------------------------------------------------------------------
\* Mutant: no gap between the stacks.
KstackVA_NoGap(n) == KSTACKTOP - KSTKSIZE * (n + 1)

\* mem_init_mp(): the bottom of processor n's stack
KstackVA(n) == KSTACKTOP - KSTKSIZE * (n + 1) - KSTKGAP * n

\* The calls, in order.
Region(va, size, pa, perm) == [va |-> va, size |-> size, pa |-> pa, perm |-> perm]

PagesPerm == {"U"}

Calls ==
  << Region(UPAGES, npages * SizeofPage, PagesPA, PagesPerm),
     Region(KSTACKTOP - KSTKSIZE, KSTKSIZE, BootstackPA, {"W"}),
     Region(KERNBASE, MAX - KERNBASE, 0, {"W"}),
     Region(UENVS, EnvsSize, EnvsPA, {"U"}),
     Region(IOMEMBASE, 2^W - IOMEMBASE, IOMEM_PADDR, {"W"}) >>
  \o [n \in 1 .. NSTACKS |-> Region(KstackVA(n - 1), KSTKSIZE, KstacksPA + (n - 1) * KSTKSIZE, {"W"})]

InitMap ==
  /\ npages \in NPages
  /\ call = 1
  /\ map_i = 0
  /\ pde = [d \in {PDX(UVPT)} |-> {"U"}]    \* kern_pgdir[PDX(UVPT)]
  /\ pte = << >>

-----------------------------------------------------------------------------
\* compare_MAX(): the start is not among the last four addresses.
BelowMAX(x) == \A k \in 0 .. 3 : x + k # MAX

\* The loop's condition.
Covers(r) == map_i < ROUNDUP(r.size) /\ BelowMAX(r.va) /\ BelowMAX(r.pa)

\* One page: pgdir_walk() with CREATE, the entry, and the directory's PTE_U.
MapPage ==
  /\ call <= Len(Calls)
  /\ LET r == Calls[call]
         va == (r.va + map_i) % (2^W)
         d == PDX(va)
         old == IF d \in DOMAIN pde THEN pde[d] ELSE {"W"}
     IN  /\ Covers(r)
         /\ pte' = Stored(pte, va, [pa |-> PTE_ADDR(r.pa + map_i) % (2^W), perm |-> r.perm])
         /\ pde' = Stored(pde, d, old \cup (r.perm \cap {"U"}))
  /\ map_i' = map_i + PGSIZE
  /\ UNCHANGED <<npages, call>>

\* boot_map_region() returns.
Return ==
  /\ call <= Len(Calls)
  /\ ~Covers(Calls[call])
  /\ call' = call + 1
  /\ map_i' = 0
  /\ UNCHANGED <<npages, pde, pte>>

NextMap == MapPage \/ Return

SpecMap == InitMap /\ [][NextMap]_varsMap

-----------------------------------------------------------------------------
Pages(from, size) == {a \in from .. from + size - 1 : a % PGSIZE = 0}

\* Every mapped address has a page directory entry and lies in the kernel's part.
TypeOKMap ==
  \A va \in DOMAIN pte : va \in Pages(UENVS, 2^W - UENVS) /\ PDX(va) \in DOMAIN pde

\* check_va2pa()
va2pa(va) == IF va \in DOMAIN pte THEN pte[va].pa ELSE -1

\* What check_kern_pgdir() asserts when all calls have returned, for every number
\* of pages: the two arrays, the physical memory, the devices and the stacks are
\* where inc/memlayout.h says, although later calls map over earlier ones.
KernPgdirChecked ==
  call > Len(Calls) =>
    /\ \A a \in Pages(0, ROUNDUP(npages * SizeofPage)) : va2pa(UPAGES + a) = PagesPA + a
    /\ \A a \in Pages(0, ROUNDUP(EnvsSize)) : va2pa(UENVS + a) = EnvsPA + a
    /\ \A a \in Pages(0, npages * PGSIZE) : va2pa(KERNBASE + a) = a
    /\ \A a \in Pages(IOMEMBASE, 2^W - IOMEMBASE) : va2pa(a) = IOMEM_PADDR + a - IOMEMBASE
    /\ \A n \in 0 .. NSTACKS - 1, a \in Pages(0, KSTKSIZE) :
         va2pa(KSTACKTOP - (KSTKSIZE + KSTKGAP) * (n + 1) + KSTKGAP + a) = KstacksPA + n * KSTKSIZE + a
    /\ \A d \in PDX(KERNBASE) .. PDX(MAX) : d \in DOMAIN pde /\ "W" \in pde[d]

\* 'The kernel ensures that "Invalid Memory" (ULIM) is *never* mapped'
\* (inc/memlayout.h): not below a stack, where an overflow must fault, not
\* above the stacks, and at no time while the map is built.
InvalidUnmapped ==
  \A va \in DOMAIN pte :
    /\ va \notin KSTACKTOP .. KERNBASE - 1
    /\ \A n \in 0 .. NSTACKS - 1 :
         LET bottom == KSTACKTOP - n * (KSTKSIZE + KSTKGAP) - KSTKSIZE
         IN  va \notin bottom - KSTKGAP .. bottom - 1

\* The processor lets a user program use a page only if the directory's entry
\* and the table's both have PTE_U.  Of what boot_map_region() maps that is so
\* for the two arrays alone, whatever shares their page tables, and never for
\* writing.  (Programs also read the page tables themselves, at UVPT: the slot
\* holds the directory, and has no table of its own.)
UserReadsArrays ==
  \A va \in DOMAIN pte :
    "U" \in pte[va].perm /\ "U" \in pde[PDX(va)] =>
      /\ va \in Pages(UPAGES, npages * SizeofPage) \cup Pages(UENVS, EnvsSize)
      /\ ~("W" \in pte[va].perm /\ "W" \in pde[PDX(va)])

\* The address space is that of inc/memlayout.h: mapped where check_kern_pgdir()
\* looks, not mapped around the stacks, and what boot_map_region() maps closed to
\* programs but for two arrays.
KernelMapped == KernPgdirChecked /\ InvalidUnmapped /\ UserReadsArrays
=============================================================================
