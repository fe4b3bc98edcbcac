----------------------------- MODULE MCStartup ------------------------------
(***************************************************************************)
(* The parts of the kernel's start, model-checked together: the boot       *)
(* loader (BootMain), the first page directory (EntryPaging), physical     *)
(* memory (PhysMem), the kernel's address space (KernMap), the processors  *)
(* (Boot) and the first programs (LoadIcode).  A behaviour runs one of     *)
(* them and leaves the others in one state.                                *)
(***************************************************************************)
EXTENDS Boot, KernMap, TLC

CONSTANTS
  MPENTRY, IOPHYS, EXTPHYS, END, ENVPAGES, LOW, Basemem, Extmem,
  UTOP, USTACKTOP, Vas, Sizes, Phnum, Frames,
  Starts, Lengths, Offsets,
  NPTENTRIES, NTABLES, TESTPAGES, APs

VARIABLES
  part,  \* the part that runs
  mem_pc, mem_npages, basemem, nextfree, nAvailPages, link, page_free_list, held,
  ph, magic, ph_i, pc, cr3, frames, tables, mem,
  elf, image, seg, ldr_pc, pa, end_pa, offset, lba, ready, loaded,
  at, pgdir, pgtables

memVars  == <<mem_pc, mem_npages, basemem, nextfree, nAvailPages, link, page_free_list, held>>
loadVars == <<ph, magic, ph_i, pc, cr3, frames, tables, mem>>
diskVars == <<elf, image, seg, ldr_pc, pa, end_pa, offset, lba, ready, loaded>>
pagVars  == <<at, pgdir, pgtables>>
vars     == <<part, memVars, varsMap, loadVars, varsBoot, diskVars, pagVars>>

\* Tables as firmware writes them: the boot processor is number 0 and comes
\* first, the others have the numbers that follow, in any order; among them
\* tables with more processors than cpus[] holds.
Processor(n, b) == [type |-> "MPPROC", id |-> n, boot |-> b]
Other      == [type |-> "other", id |-> 0, boot |-> FALSE]
Unknown    == [type |-> "unknown", id |-> 0, boot |-> FALSE]

Processors(n) ==
  { <<Processor(0, TRUE)>> \o [k \in 1 .. n |-> Processor(order[k], FALSE)] : order \in Permutations(1 .. n) }

FirmwareTables ==
  UNION {Processors(n) : n \in 0 .. 4}
    \cup {t \o <<Other>> : t \in Processors(2)}
    \cup {t \o <<Unknown, Processor(3, FALSE)>> : t \in Processors(2)}

P == INSTANCE PhysMem   WITH PGSIZE <- 4, pc <- mem_pc, npages <- mem_npages
L == INSTANCE LoadIcode WITH PGSIZE <- 3, PTSIZE <- 6, i <- ph_i
D == INSTANCE BootMain  WITH
       SECTSIZE <- 2, HDRSECTS <- 2, ELFHDR <- 0, TOP <- 16,
       magic <- elf, k <- seg, pc <- ldr_pc, mem <- loaded
E == INSTANCE EntryPaging WITH
       PGSIZE <- 4, KERNBASE <- 4 * NPTENTRIES,
       pc <- mem_pc, npages <- mem_npages, cr3 <- pgdir, tables <- pgtables

ASSUME StartupAssumption ==
  /\ P!PhysMemAssumption /\ L!LoadIcodeAssumption
  /\ BootAssumption /\ BootFirst
  /\ E!EntryPagingAssumption

-----------------------------------------------------------------------------
One(S) == CHOOSE x \in S : TRUE

\* A part that does not run.  The processors and the boot loader then have no
\* step to take, so that fairness asks none of them.
PIdle == mem_npages = EXTPHYS + One(Extmem) /\ basemem = IOPHYS /\ P!Init
EIdle == at = [p \in {0} \cup APs |-> "halted"] /\ pgdir = [p \in {0} \cup APs |-> "off"] /\ pgtables = {}
KIdle == npages = One(NPages) /\ InitMap
LIdle == ph = One(L!Binaries) /\ frames = 9 /\ magic = FALSE /\ L!Init
BIdle ==
  /\ conf = << >> /\ entry = 1 /\ ncpu = 0 /\ bootcpu = 0 /\ ismp = FALSE /\ cpu_id = << >> /\ status = {}
  /\ bsp = "off" /\ boot_c = 0 /\ mpentry_kstack = None /\ ap = << >> /\ stack = << >> /\ tss = << >>
  /\ lock = None /\ envs = FALSE
DIdle ==
  /\ elf = FALSE /\ image = << >> /\ seg = 0 /\ ldr_pc = "off" /\ pa = 0 /\ end_pa = 0 /\ offset = 0
  /\ lba = 0 /\ ready = TRUE /\ loaded = << >>

Init ==
  \/ part = "loader"  /\ PIdle /\ KIdle /\ LIdle /\ BIdle /\ EIdle /\ D!Init
  \/ part = "paging"  /\ KIdle /\ LIdle /\ BIdle /\ DIdle /\ E!InitAll
  \/ part = "memory"  /\ KIdle /\ LIdle /\ BIdle /\ EIdle /\ DIdle /\ P!Init
  \/ part = "map"     /\ PIdle /\ LIdle /\ BIdle /\ EIdle /\ DIdle /\ InitMap
  \/ part = "program" /\ PIdle /\ KIdle /\ BIdle /\ EIdle /\ DIdle /\ L!Init
  \/ part = "cpus"    /\ PIdle /\ KIdle /\ LIdle /\ EIdle /\ DIdle /\ InitBoot

Next ==
  \/ part = "loader"  /\ D!Next /\ UNCHANGED <<part, memVars, varsMap, loadVars, varsBoot, pagVars>>
  \/ part = "paging"  /\ E!NextAll /\ UNCHANGED <<part, varsMap, loadVars, varsBoot, diskVars>>
  \/ part = "memory"  /\ P!Next /\ UNCHANGED <<part, varsMap, loadVars, varsBoot, diskVars, pagVars>>
  \/ part = "map"     /\ NextMap /\ UNCHANGED <<part, memVars, loadVars, varsBoot, diskVars, pagVars>>
  \/ part = "program" /\ L!Next /\ UNCHANGED <<part, memVars, varsMap, varsBoot, diskVars, pagVars>>
  \/ part = "cpus"    /\ NextBoot /\ UNCHANGED <<part, memVars, varsMap, loadVars, diskVars, pagVars>>

FairSpec == Init /\ [][Next]_vars /\ FairnessBoot /\ D!Fairness

-----------------------------------------------------------------------------
\* See PhysMem: every page is reserved, in the free list once, or handed out,
\* whatever page_init(), page_alloc() and page_free() do to the links, and what
\* boot_alloc() gives to pages[] and envs[] holds them; and until kern_pgdir is
\* in use (EntryPaging) the kernel touches only what the first directory maps.
MemoryReady == P!PagesAccounted /\ E!EarlyAccess

\* See LoadIcode and BootMain: load_icode() loads the whole program, or panics
\* for a cause, and the boot loader loads the whole kernel.
ProgramLoaded == L!ProgramLoaded /\ (part = "loader" => D!LoadedWhole)

\* See Boot and BootMain: every processor that mp_init() accepted comes to run
\* environments, and the boot loader comes to call the kernel.
AllRun == (part = "cpus" => ProcessorsRun) /\ (part = "loader" => D!Boots)
=============================================================================
