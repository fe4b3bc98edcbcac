------------------------------ MODULE PhysMem -------------------------------
(***************************************************************************)
(* Physical memory while the kernel starts (kern/pmap.c): the allocator    *)
(* boot_alloc() that only moves a pointer, page_init(), which threads the  *)
(* list of free pages through the array pages[] and cuts the pages in use  *)
(* out of it by rewriting single links, the reordering of the list in      *)
(* check_page_free_list(), and page_alloc() and page_free() on the result. *)
(*                                                                         *)
(* Memory is counted in pages; PGSIZE is the number of struct Page that    *)
(* fit in one.                                                             *)
(***************************************************************************)
EXTENDS Integers, Sequences, SequencesExt, FiniteSets

CONSTANTS
  PGSIZE,
  MPENTRY,            \* PGNUM(MPENTRY_PADDR)
  IOPHYS, EXTPHYS,    \* the I/O hole is [IOPHYS, EXTPHYS)
  END,                \* first page after the kernel's image
  ENVPAGES,           \* pages of the array envs[]
  LOW,                \* first page that entry_pgdir does not map
  Basemem, Extmem     \* what the CMOS may report, in pages

NIL == -1

\* What the constants must satisfy.
PhysMemAssumption ==
  /\ PGSIZE \in Nat \ {0}
  /\ 1 < MPENTRY /\ MPENTRY + 1 < IOPHYS /\ IOPHYS < EXTPHYS /\ EXTPHYS < END

VARIABLES
  pc,                 \* how far mem_init() has come
  npages, basemem,
  nextfree,           \* boot_alloc()'s pointer
  nAvailPages,
  link,               \* pages[].pp_link
  page_free_list,
  held                \* pages that page_alloc() has handed out

vars == <<pc, npages, basemem, nextfree, nAvailPages, link, page_free_list, held>>

Pages == 0 .. npages - 1

\* i386_detect_memory()
Detect(base, ext) == IF ext # 0 THEN EXTPHYS + ext ELSE base

Init ==
  /\ pc = "kern_pgdir"
  /\ basemem \in Basemem
  /\ \E ext \in Extmem : npages = Detect(basemem, ext)
  /\ nextfree = END
  /\ nAvailPages = npages
  /\ link = << >>
  /\ page_free_list = NIL
  /\ held = {}

-----------------------------------------------------------------------------
\* boot_alloc()
Needed(n) == n \div PGSIZE + (IF n % PGSIZE # 0 THEN 1 ELSE 0)

boot_alloc(n, from, to) ==
  /\ pc = from
  /\ IF nAvailPages < Needed(n)
     THEN pc' = "panic" /\ UNCHANGED <<nextfree, nAvailPages>>
     ELSE /\ pc' = to
          /\ nextfree' = nextfree + Needed(n)
          /\ nAvailPages' = nAvailPages - Needed(n)
  /\ UNCHANGED <<npages, basemem, link, page_free_list, held>>

AllocPgdir == boot_alloc(PGSIZE, "kern_pgdir", "pages")
AllocPages == boot_alloc(npages, "pages", "envs")
AllocEnvs  == boot_alloc(ENVPAGES * PGSIZE, "envs", "page_init")

\* page_init(): every page points to the next one; then the links over page 0,
\* the hole with the kernel, and the page of mpentry.S are rewritten in turn.
Threaded == [p \in Pages |-> IF p = npages - 1 THEN NIL ELSE p + 1]

CutHole(l) ==
  [l EXCEPT ![IOPHYS - 1] = nextfree, ![nextfree - 1] = NIL, ![0] = IOPHYS]

\* Mutant: the page of mpentry.S stays in the list.
CutMpentry_Not(l) == l

CutMpentry(l) ==
  [l EXCEPT ![MPENTRY - 1] = MPENTRY + 1, ![MPENTRY] = NIL, ![IOPHYS] = MPENTRY]

PageInit ==
  /\ pc = "page_init"
  /\ link' = CutMpentry(CutHole(Threaded))
  /\ page_free_list' = 1
  /\ nAvailPages' = nAvailPages - (1 + EXTPHYS - IOPHYS)
  /\ pc' = "check"
  /\ UNCHANGED <<npages, basemem, nextfree, held>>

-----------------------------------------------------------------------------
\* The list, as the links give it: its first n pages, as far as there are any.
FreeList ==
  LET walk[n \in 0 .. npages] ==
        IF n = 0 THEN << >>
        ELSE LET before == walk[n - 1]
                 next == IF before = << >> THEN page_free_list ELSE link[Last(before)]
             IN  IF Len(before) < n - 1 \/ next = NIL THEN before ELSE Append(before, next)
  IN  walk[npages]

\* The links of a list that holds the pages of low and then those of high.
Relink(l, low, high) ==
  LET all == low \o high
      at  == [p \in ToSet(all) |-> CHOOSE k \in DOMAIN all : all[k] = p]
  IN  [p \in DOMAIN l |->
         IF p \notin ToSet(all) THEN l[p]
         ELSE IF at[p] = Len(all) THEN NIL ELSE all[at[p] + 1]]

\* check_page_free_list(1) moves the pages that entry_pgdir maps to the front.
CheckPageFreeList ==
  /\ pc = "check"
  /\ LET low  == SelectSeq(FreeList, LAMBDA p : p < LOW)
         high == SelectSeq(FreeList, LAMBDA p : p >= LOW)
     IN  /\ link' = Relink(link, low, high)
         /\ page_free_list' = Head(low \o high)
  /\ pc' = "run"
  /\ UNCHANGED <<npages, basemem, nextfree, nAvailPages, held>>

\* page_alloc(); with an empty list nothing changes.
PageAlloc ==
  /\ pc = "run" /\ page_free_list # NIL
  /\ held' = held \cup {page_free_list}
  /\ page_free_list' = link[page_free_list]
  /\ link' = [link EXCEPT ![page_free_list] = NIL]
  /\ nAvailPages' = nAvailPages - 1
  /\ UNCHANGED <<pc, npages, basemem, nextfree>>

\* page_free(), called by the last user of a page
PageFree(p) ==
  /\ pc = "run" /\ p \in held
  /\ held' = held \ {p}
  /\ link' = [link EXCEPT ![p] = page_free_list]
  /\ page_free_list' = p
  /\ nAvailPages' = nAvailPages + 1
  /\ UNCHANGED <<pc, npages, basemem, nextfree>>

Next ==
  \/ AllocPgdir \/ AllocPages \/ AllocEnvs
  \/ PageInit \/ CheckPageFreeList
  \/ PageAlloc \/ \E p \in held : PageFree(p)

Spec == Init /\ [][Next]_vars

-----------------------------------------------------------------------------
\* Types; the links stay within pages[].
TypeOK ==
  /\ nextfree \in Nat /\ nAvailPages \in Nat
  /\ pc \in {"check", "run"} => /\ link \in [Pages -> Pages \cup {NIL}]
                                /\ page_free_list \in Pages \cup {NIL}
  /\ held \subseteq Pages

\* "What memory is free?" (page_init()): page 0, the page of mpentry.S, the I/O
\* hole and what boot_alloc() gave out are not.
Reserved == {0, MPENTRY} \cup IOPHYS .. nextfree - 1

\* Every page that is not reserved is either in the free list, once, or handed
\* out, and no other page is either, whatever page_init(), the reordering and
\* any sequence of page_alloc() and page_free() do to the links.
FreeOrHeld ==
  pc \in {"check", "run"} =>
    /\ IsInjective(FreeList)
    /\ ToSet(FreeList) \cap held = {}
    /\ ToSet(FreeList) \cup held = Pages \ Reserved

\* What boot_alloc() gives to the arrays pages[] and envs[] holds them: the
\* areas follow one another and lie below the first page of the free list.
ArraysFit ==
  pc \in {"check", "run"} => (nextfree - END - 1 - ENVPAGES) * PGSIZE >= npages

\* Physical memory is accounted for from the first boot_alloc() to the last
\* page_free(): every page has one use, and the kernel's arrays have enough.
PagesAccounted == FreeOrHeld /\ ArraysFit

\* "[PGSIZE, npages_basemem * PGSIZE) is free" (page_init()): below the I/O hole
\* only memory that the machine has is handed out.
FreeIsMemory ==
  pc \in {"check", "run"} => \A p \in ToSet(FreeList) \cup held : p < basemem \/ p >= EXTPHYS

\* "If we're out of memory, boot_alloc should panic."
PanicsWhenOut == pc # "panic" => nextfree <= npages

\* nAvailPages is the "Amount of available physical memory (in pages)".
AvailIsCounted == pc = "run" => nAvailPages = Len(FreeList)
=============================================================================
