----------------------------- MODULE LoadIcode ------------------------------
(***************************************************************************)
(* Loading a program into a new environment: load_icode() and              *)
(* region_alloc() (kern/env.c), with memory that may run out.              *)
(*                                                                         *)
(* A byte of memory is a tuple: <<"file", k>> is the byte at offset k of   *)
(* the binary, <<"stale">> what a page happens to hold when it is          *)
(* allocated, <<"none">> an address that is not mapped.                    *)
(***************************************************************************)
EXTENDS Integers, Sequences, FiniteSets

CONSTANTS
  PGSIZE, PTSIZE, UTOP, USTACKTOP,
  Vas, Sizes, Phnum,   \* where segments may start, how long they may be, how many
  Frames               \* how many physical pages may be free

\* What the constants must satisfy.
LoadIcodeAssumption ==
  /\ PGSIZE \in Nat \ {0}
  /\ UTOP % PGSIZE = 0 /\ USTACKTOP % PGSIZE = 0 /\ USTACKTOP < UTOP

VARIABLES
  ph,       \* the program headers: sequence of [load, va, memsz, filesz, offset]
  magic,    \* the binary is an ELF file
  i,        \* the header load_icode() is at
  pc,
  cr3,      \* whose addresses the kernel uses: "kern" or "env"
  frames,   \* free physical pages
  tables,   \* page directory indices with a page table
  mem       \* the environment's memory, byte by byte

vars == <<ph, magic, i, pc, cr3, frames, tables, mem>>

None  == <<"none">>
Stale == <<"stale">>
Zero  == <<"zero">>

ROUNDDOWN(x) == x - (x % PGSIZE)
ROUNDUP(x)   == ROUNDDOWN(x + PGSIZE - 1)
PDX(va)      == va \div PTSIZE

\* The pages that a segment touches.
Touched(s) == {a \in ROUNDDOWN(s.va) .. ROUNDUP(s.va + s.memsz) - 1 : a % PGSIZE = 0}

\* Headers.  "no two segments will touch the same virtual page" (load_icode()),
\* and none the stack's.
Headers ==
  { [load |-> l, va |-> v, memsz |-> m, filesz |-> f, offset |-> 0] :
      l \in BOOLEAN, v \in Vas, m \in Sizes, f \in Sizes }

Binaries ==
  { [k \in 1 .. Phnum |-> [s[k] EXCEPT !.offset = 100 * k]] : s \in
      {s \in [1 .. Phnum -> Headers] :
         \A k \in 1 .. Phnum :
           /\ USTACKTOP - PGSIZE \notin Touched(s[k])
           /\ \A j \in 1 .. k - 1 : Touched(s[j]) \cap Touched(s[k]) = {}} }

Init ==
  /\ ph \in Binaries
  /\ magic \in BOOLEAN
  /\ i = 1
  /\ pc = "load_icode"
  /\ cr3 = "kern"
  /\ frames \in Frames
  /\ tables = {}
  /\ mem = [a \in 0 .. UTOP - 1 |-> None]

-----------------------------------------------------------------------------
\* region_alloc()

\* Mutant: the loop that the source keeps under "Bug Code".
RegionPages_Bug(va, len) == {a \in ROUNDDOWN(va) .. va + len : a % PGSIZE = 0}

RegionPages(va, len) == {a \in ROUNDDOWN(va) .. ROUNDUP(va + len) - 1 : a % PGSIZE = 0}

\* The pages of the region in order; each takes a frame, and page_insert()
\* another one for a page table that does not exist yet.  That it may fail for
\* want of one is ignored.  The result is a record: the frames left, the tables,
\* the pages mapped, and whether page_alloc() failed.
RegionAlloc(va, len) ==
  LET pages == RegionPages(va, len)
      first == [frames |-> frames, tables |-> tables, mapped |-> {}, failed |-> FALSE]
      Step(r, a) ==
        LET new == PDX(a) \notin r.tables
        IN  IF r.failed \/ r.frames = 0 THEN [r EXCEPT !.failed = TRUE]
            ELSE IF new /\ r.frames = 1 THEN [r EXCEPT !.frames = 0]
            ELSE [r EXCEPT !.frames = @ - (IF new THEN 2 ELSE 1),
                           !.tables = @ \cup {PDX(a)},
                           !.mapped = @ \cup {a}]
      at == [n \in 0 .. Cardinality(pages) - 1 |-> ROUNDDOWN(va) + n * PGSIZE]
      run[n \in 0 .. Cardinality(pages)] == IF n = 0 THEN first ELSE Step(run[n - 1], at[n - 1])
  IN  run[Cardinality(pages)]

\* New pages hold whatever they held before.
WithPages(m, mapped) == [a \in DOMAIN m |-> IF ROUNDDOWN(a) \in mapped THEN Stale ELSE m[a]]

\* memmove() and memset() to the environment's addresses, which fault in the
\* kernel if one of them is not mapped
Faults(m, from, len) == \E a \in from .. from + len - 1 : cr3 # "env" \/ m[a] = None

Fill(m, s) ==
  [a \in DOMAIN m |->
     IF a \in s.va .. s.va + s.filesz - 1 THEN <<"file", s.offset + a - s.va>>
     ELSE IF a \in s.va + s.filesz .. s.va + s.memsz - 1 THEN Zero
     ELSE m[a]]

-----------------------------------------------------------------------------
\* load_icode()

Panic == pc' = "panic" /\ UNCHANGED <<ph, magic, i, cr3, frames, tables, mem>>

BadMagic ==
  /\ pc = "load_icode" /\ ~magic
  /\ pc' = "return"
  /\ UNCHANGED <<ph, magic, i, cr3, frames, tables, mem>>

Start ==
  /\ pc = "load_icode" /\ magic
  /\ cr3' = "env"
  /\ pc' = "segments"
  /\ UNCHANGED <<ph, magic, i, frames, tables, mem>>

SkipSegment ==
  /\ pc = "segments" /\ i <= Len(ph) /\ ~ph[i].load
  /\ i' = i + 1
  /\ UNCHANGED <<ph, magic, pc, cr3, frames, tables, mem>>

TooLong(s) == s.filesz > s.memsz

Loaded(m, s) == Fill(m, s)

LoadSegment ==
  /\ pc = "segments" /\ i <= Len(ph) /\ ph[i].load
  /\ LET s == ph[i]
         r == RegionAlloc(s.va, s.memsz)
         m == WithPages(mem, r.mapped)
     IN  IF TooLong(s) \/ UTOP <= ROUNDUP(s.va + s.memsz) \/ r.failed \/ Faults(m, s.va, s.memsz)
         THEN Panic
         ELSE /\ frames' = r.frames /\ tables' = r.tables
              /\ mem' = Loaded(m, s)
              /\ i' = i + 1
              /\ UNCHANGED <<ph, magic, pc, cr3>>

\* The stack's page.
LoadStack ==
  /\ pc = "segments" /\ i > Len(ph)
  /\ LET r == RegionAlloc(USTACKTOP - PGSIZE, PGSIZE)
         m == WithPages(mem, r.mapped)
     IN  IF r.failed \/ r.mapped = {}
         THEN Panic
         ELSE /\ frames' = r.frames /\ tables' = r.tables
              /\ mem' = [a \in DOMAIN m |-> IF a \in USTACKTOP - PGSIZE .. USTACKTOP - 1 THEN Zero ELSE m[a]]
              /\ cr3' = "kern"
              /\ pc' = "return"
              /\ UNCHANGED <<ph, magic, i>>

Next == BadMagic \/ Start \/ SkipSegment \/ LoadSegment \/ LoadStack

Spec == Init /\ [][Next]_vars

-----------------------------------------------------------------------------
Loadable == {k \in 1 .. Len(ph) : ph[k].load}

\* When load_icode() returns, every byte of every segment is the file's or zero,
\* in whatever order the segments come and wherever in a page they start and
\* end, and the stack's page is clear: a failed allocation, also the one of a
\* page table, which region_alloc() does not notice, never goes unnoticed.
ImageComplete ==
  pc = "return" /\ magic =>
    /\ \A k \in Loadable : \A a \in 0 .. ph[k].memsz - 1 :
         mem[ph[k].va + a] = IF a < ph[k].filesz THEN <<"file", ph[k].offset + a>> ELSE Zero
    /\ \A a \in USTACKTOP - PGSIZE .. USTACKTOP - 1 : mem[a] = Zero

\* Only the pages that segments touch, and the stack's, are mapped.
OnlyTouched ==
  pc = "return" =>
    \A a \in DOMAIN mem : mem[a] # None =>
      \/ ROUNDDOWN(a) = USTACKTOP - PGSIZE
      \/ \E k \in Loadable : ROUNDDOWN(a) \in Touched(ph[k])

\* The kernel panics only for a segment that is longer in the file than in
\* memory or that reaches UTOP, or when there are fewer free pages than the
\* program's pages and their page tables need.
Needed ==
  LET pages == {USTACKTOP - PGSIZE} \cup UNION {Touched(ph[k]) : k \in Loadable}
  IN  Cardinality(pages) + Cardinality({PDX(a) : a \in pages})

Had == frames + Cardinality({ROUNDDOWN(a) : a \in {a \in DOMAIN mem : mem[a] # None}}) + Cardinality(tables)

PanicsForCause ==
  pc = "panic" =>
    \/ \E k \in Loadable : ph[k].filesz > ph[k].memsz \/ ROUNDUP(ph[k].va + ph[k].memsz) >= UTOP
    \/ Had < Needed

\* load_icode() loads the whole program and nothing else, or panics for a cause.
ProgramLoaded == ImageComplete /\ OnlyTouched /\ PanicsForCause
=============================================================================
