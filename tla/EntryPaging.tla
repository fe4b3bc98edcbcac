---------------------------- MODULE EntryPaging -----------------------------
(***************************************************************************)
(* The first page directory (kern/entrypgdir.c) and those who use it: the  *)
(* boot processor from kern/entry.S to the end of mem_init(), where it     *)
(* switches to kern_pgdir, and every application processor (AP) from       *)
(* kern/mpentry.S to mp_main().  entry_pgdir maps little, so the model     *)
(* says for each step which addresses its instructions fetch and touch.    *)
(*                                                                         *)
(* Addresses are page numbers.  mem_init() is PhysMem's, with page_alloc() *)
(* called by pgdir_walk() for the page tables of boot_map_region() and,    *)
(* together with page_free(), by check_page_alloc() and check_page().      *)
(***************************************************************************)
EXTENDS PhysMem

CONSTANTS
  NPTENTRIES,     \* pages that one page table maps
  KERNBASE,       \* as a page number
  NTABLES,        \* page tables that boot_map_region() needs
  TESTPAGES,      \* pages that the checks hold at a time
  APs             \* numbers of the other processors

\* What the constants must satisfy: the image lies in what entry_pgdir maps,
\* and so does enough free memory for the tables and the checks.
EntryPagingAssumption ==
  /\ LOW = NPTENTRIES /\ KERNBASE % NPTENTRIES = 0 /\ KERNBASE >= NPTENTRIES
  /\ \A base \in Basemem, ext \in Extmem :
       LET arrays == 1 + Needed(Detect(base, ext)) + ENVPAGES
       IN  /\ END + arrays <= LOW
           /\ \A n \in {NTABLES, TESTPAGES} : IOPHYS - 2 + LOW - END - arrays >= n

VARIABLES
  at,       \* where each processor is
  cr3,      \* the page directory it uses: "off", "entry" or "kern"
  tables    \* the page tables of kern_pgdir

Bsp        == 0
Processors == {Bsp} \cup APs

PDX(va) == va \div NPTENTRIES
PTX(va) == va % NPTENTRIES

all == <<pc, npages, basemem, nextfree, nAvailPages, link, page_free_list, held, at, cr3, tables>>

-----------------------------------------------------------------------------
\* entry_pgtable: entry i is page i.
entry_pgtable(i) == i

\* Mutant: "[0, 4MB)" is not mapped.
entry_pgdir_HighOnly(d) == IF d = PDX(KERNBASE) THEN {"P", "W"} ELSE {}

\* entry_pgdir: permissions of the two entries; both name entry_pgtable.
entry_pgdir(d) ==
  CASE d = 0             -> {"P"}
    [] d = PDX(KERNBASE) -> {"P", "W"}
    [] OTHER             -> {}

Access(va, pa, perm) == [va |-> va, pa |-> pa, perm |-> perm]

\* What the processor does with an access, with CR0_WP set.  kern_pgdir maps
\* the memory at KERNBASE (see KernMap) and nothing below.
Reaches(p, a) ==
  CASE cr3[p] = "off"   -> a.va = a.pa
    [] cr3[p] = "entry" -> /\ a.perm \subseteq entry_pgdir(PDX(a.va))
                           /\ entry_pgtable(PTX(a.va)) = a.pa
    [] cr3[p] = "kern"  -> a.va - KERNBASE = a.pa

High(page, perm) == Access(KERNBASE + page, page, perm)

\* The kernel's code and its static data: the page at EXTPHYS stands for all.
Code  == High(EXTPHYS, {"P"})
Stack == High(EXTPHYS, {"P", "W"})

\* mem_init() and those it calls: the page directory that it clears, pages[],
\* and the page that pgdir_walk() gets next and clears, or the checks fill.
MemInitTouches ==
  LET touched ==
        CASE pc = "pages"     -> {END}
          [] pc = "page_init" -> END + 1 .. nextfree - 1
          [] pc = "check"     -> END + 1 .. nextfree - 1 \cup {q \in ToSet(FreeList) : q < LOW}
          [] pc = "run" /\ Cardinality(tables) < NTABLES -> {page_free_list}
          [] OTHER            -> {}
  IN  {High(q, {"P", "W"}) : q \in touched}

\* The accesses of the step that a processor takes next.
Touches(p) ==
  CASE at[p] = "entry"    -> {Access(EXTPHYS, EXTPHYS, {"P"})}
    [] at[p] = "mpentry"  -> {Access(MPENTRY, MPENTRY, {"P"})}
    [] at[p] = "mpstack"  -> {Access(MPENTRY, MPENTRY, {"P"}), Code, Stack}
    [] at[p] = "mem_init" -> {Code, Stack} \cup MemInitTouches
    [] at[p] \in {"relocated", "mp_main"} -> {Code, Stack}
    [] at[p] = "up"       -> {Code, Stack} \cup {High(q, {"P", "W"}) : q \in Pages}
    [] OTHER              -> {}

-----------------------------------------------------------------------------
InitAll ==
  /\ Init
  /\ at = [p \in Processors |-> IF p = Bsp THEN "entry" ELSE "halted"]
  /\ cr3 = [p \in Processors |-> "off"]
  /\ tables = {}

Moves(p, from, to) == at[p] = from /\ at' = [at EXCEPT ![p] = to]
Loads(p, dir)      == cr3' = [cr3 EXCEPT ![p] = dir]

\* entry.S: entry_pgdir into %cr3 and CR0_PG; execution goes on at a low address
EntryPagingOn ==
  /\ at[Bsp] = "entry" /\ cr3[Bsp] = "off"
  /\ Loads(Bsp, "entry")
  /\ UNCHANGED <<vars, at, tables>>

\* jmp *%eax
EntryJump ==
  /\ cr3[Bsp] = "entry" /\ Moves(Bsp, "entry", "relocated")
  /\ UNCHANGED <<vars, cr3, tables>>

\* call i386_init, and mem_init()
CallInit == Moves(Bsp, "relocated", "mem_init") /\ UNCHANGED <<vars, cr3, tables>>

MemInit ==
  /\ at[Bsp] = "mem_init"
  /\ AllocPgdir \/ AllocPages \/ AllocEnvs \/ PageInit \/ CheckPageFreeList
  /\ UNCHANGED <<at, cr3, tables>>

\* check_page_alloc() and check_page()
Check ==
  /\ at[Bsp] = "mem_init" /\ tables = {}
  /\ \/ Cardinality(held) < TESTPAGES /\ PageAlloc
     \/ \E p \in held : PageFree(p)
  /\ UNCHANGED <<at, cr3, tables>>

\* boot_map_region(), at an address whose page table does not exist
MapTable ==
  /\ at[Bsp] = "mem_init" /\ held = tables /\ Cardinality(tables) < NTABLES
  /\ PageAlloc
  /\ tables' = held'
  /\ UNCHANGED <<at, cr3>>

\* lcr3(PADDR(kern_pgdir))
SwitchPgdir ==
  /\ Cardinality(tables) = NTABLES /\ held = tables
  /\ Moves(Bsp, "mem_init", "up") /\ Loads(Bsp, "kern")
  /\ UNCHANGED <<vars, tables>>

\* boot_aps() copies mpentry.S to MPENTRY and starts a processor there.
StartAp(p) == at[Bsp] = "up" /\ Moves(p, "halted", "mpentry") /\ UNCHANGED <<vars, cr3, tables>>

\* Mutant: an AP loads the directory that the boot processor already uses.
ApPagingOn_Kern(p) ==
  /\ Moves(p, "mpentry", "mpstack")
  /\ Loads(p, "kern")
  /\ UNCHANGED <<vars, tables>>

\* mpentry.S: "We cannot use kern_pgdir yet because we are still running at a
\* low EIP."
ApPagingOn(p) ==
  /\ Moves(p, "mpentry", "mpstack")
  /\ Loads(p, "entry")
  /\ UNCHANGED <<vars, tables>>

\* movl mpentry_kstack, %esp; call *%eax pushes and jumps.
ApCall(p) == Moves(p, "mpstack", "mp_main") /\ UNCHANGED <<vars, cr3, tables>>

\* mp_main(): "We are in high EIP now, safe to switch to kern_pgdir"
ApSwitch(p) ==
  /\ Moves(p, "mp_main", "up")
  /\ Loads(p, "kern")
  /\ UNCHANGED <<vars, tables>>

NextAll ==
  \/ EntryPagingOn \/ EntryJump \/ CallInit \/ MemInit \/ Check \/ MapTable \/ SwitchPgdir
  \/ \E p \in APs : StartAp(p) \/ ApPagingOn(p) \/ ApCall(p) \/ ApSwitch(p)

SpecAll == InitAll /\ [][NextAll]_all

-----------------------------------------------------------------------------
\* From the instruction after paging is turned on to the first use of all of
\* memory, each access of each processor finds a mapping, with PTE_W where it
\* writes, and reaches the memory that is meant: while the processor runs at
\* low addresses, while page tables are made from pages that "entry_pgdir does
\* not map all" of (check_page_free_list()), and when the directories change
\* under the running code.
EarlyAccess == \A p \in Processors : \A a \in Touches(p) : Reaches(p, a)
=============================================================================
