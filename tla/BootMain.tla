------------------------------ MODULE BootMain ------------------------------
(***************************************************************************)
(* The boot loader's C part (boot/main.c): bootmain() reads the ELF header *)
(* of the kernel and then its segments from the disk, sector by sector,    *)
(* and calls the kernel, whose i386_init() first clears the BSS.           *)
(*                                                                         *)
(* A byte of memory is a tuple: <<"disk", k>> is byte k of the kernel's    *)
(* image, which starts at sector 1; <<"stale">> is what memory or the data *)
(* port of a disk that is not ready happens to hold.                       *)
(***************************************************************************)
EXTENDS Integers, Sequences

CONSTANTS
  SECTSIZE,
  HDRSECTS,        \* sectors that are read for the header
  ELFHDR,          \* where they go
  TOP,             \* size of the memory
  Starts, Lengths, \* where segments may start, how long they may be
  Offsets          \* where in the image they may start

VARIABLES
  magic,       \* the image is an ELF file
  image,       \* its program headers: <<text, data>>
  k,           \* the header whose segment is read, 0 for the header itself
  pc, pa, end_pa, offset,
  lba, ready,  \* the disk: sector it was last asked for, status register
  mem

vars == <<magic, image, k, pc, pa, end_pa, offset, lba, ready, mem>>

Stale == <<"stale">>
Zero  == <<"zero">>

ROUNDDOWN(x) == x - (x % SECTSIZE)

Seg(s, filesz, memsz, off) == [pa |-> s, filesz |-> filesz, memsz |-> memsz, offset |-> off]

\* The sectors of memory that readseg() writes for a segment.
Sectors(s) == {a \in ROUNDDOWN(s.pa) .. s.pa + s.memsz - 1 : a % SECTSIZE = 0}

\* Images as kern/kernel.ld lays them out: text, then data with the BSS, above
\* the header's place; addresses and offsets agree within a sector.  Two
\* segments that meet in a sector come from the same sector of the image.
Images ==
  {<<t, d>> \in
     {Seg(s, n, n, o) : s \in Starts, n \in Lengths, o \in Offsets} \X
     {Seg(s, f, m, o) : s \in Starts, f \in Lengths, m \in Lengths, o \in Offsets} :
     /\ ELFHDR + HDRSECTS * SECTSIZE <= ROUNDDOWN(t.pa)
     /\ t.pa % SECTSIZE = t.offset % SECTSIZE /\ d.pa % SECTSIZE = d.offset % SECTSIZE
     /\ t.pa + t.memsz <= d.pa /\ t.offset + t.filesz <= d.offset /\ d.filesz <= d.memsz
     /\ Sectors(t) \cap Sectors(d) = {} \/ d.pa - t.pa = d.offset - t.offset }

-----------------------------------------------------------------------------
\* Mutant: the boot sector is not counted.
FirstSector_Kernel(off) == off \div SECTSIZE

\* "kernel starts at sector 1"
FirstSector(off) == (off \div SECTSIZE) + 1

\* bootmain() first calls readseg() for the header.
Init ==
  /\ magic \in BOOLEAN
  /\ image \in Images
  /\ k = 0
  /\ pc = "readseg"
  /\ pa = ROUNDDOWN(ELFHDR) /\ end_pa = ELFHDR + HDRSECTS * SECTSIZE
  /\ offset = FirstSector(0)
  /\ lba = 0 /\ ready \in BOOLEAN
  /\ mem = [a \in 0 .. TOP - 1 |-> Stale]

\* The disk, in its own time.
DiskReady ==
  /\ ~ready /\ ready' = TRUE
  /\ UNCHANGED <<magic, image, k, pc, pa, end_pa, offset, lba, mem>>

\* readsect(): waitdisk() and the command
ReadCommand ==
  /\ pc = "readseg" /\ pa < end_pa
  /\ ready
  /\ lba' = offset /\ ready' = FALSE
  /\ pc' = "insl"
  /\ UNCHANGED <<magic, image, k, pa, end_pa, offset, mem>>

\* What the data port gives.
Port(j) == IF ready THEN <<"disk", (lba - 1) * SECTSIZE + j>> ELSE Stale

\* The sector goes to memory, and readseg()'s loop body ends.
Transfer ==
  /\ pc = "insl"
  /\ mem' = [a \in DOMAIN mem |-> IF a \in pa .. pa + SECTSIZE - 1 THEN Port(a - pa) ELSE mem[a]]
  /\ pa' = pa + SECTSIZE /\ offset' = offset + 1
  /\ pc' = "readseg"
  /\ UNCHANGED <<magic, image, k, end_pa, lba, ready>>

\* Mutant: without the second waitdisk().
Insl_NoWait == Transfer

\* waitdisk() again, then the data
Insl == ready /\ Transfer

Read == pc = "readseg" /\ pa >= end_pa

\* A header without the magic number: bad
BadMagic ==
  /\ Read /\ k = 0 /\ ~magic
  /\ pc' = "bad"
  /\ UNCHANGED <<magic, image, k, pa, end_pa, offset, lba, ready, mem>>

\* readseg(ph->p_pa, ph->p_memsz, ph->p_offset) for the next header
NextSegment ==
  /\ Read /\ (k = 0 => magic) /\ k < Len(image)
  /\ k' = k + 1
  /\ pa' = ROUNDDOWN(image[k'].pa)
  /\ end_pa' = image[k'].pa + image[k'].memsz
  /\ offset' = FirstSector(image[k'].offset)
  /\ UNCHANGED <<magic, image, pc, lba, ready, mem>>

\* The entry point; i386_init() clears [edata, end).
CallEntry ==
  /\ Read /\ k = Len(image)
  /\ LET edata == image[k].pa + image[k].filesz
         end   == image[k].pa + image[k].memsz
     IN  mem' = [a \in DOMAIN mem |-> IF a \in edata .. end - 1 THEN Zero ELSE mem[a]]
  /\ pc' = "i386_init"
  /\ UNCHANGED <<magic, image, k, pa, end_pa, offset, lba, ready>>

Next == DiskReady \/ ReadCommand \/ Insl \/ BadMagic \/ NextSegment \/ CallEntry

Spec == Init /\ [][Next]_vars

-----------------------------------------------------------------------------
\* The header and the program headers stay as they are on the disk while they
\* are used, although readseg() "Might copy more than asked".
HeaderIntact ==
  (Read \/ k > 0) /\ pc \in {"readseg", "insl"} =>
    \A j \in 0 .. HDRSECTS * SECTSIZE - 1 : mem[ELFHDR + j] = <<"disk", j>>

\* "We'd write more to memory than asked, but it doesn't matter -- we load in
\* increasing order" (readseg()): the kernel starts with every byte of its
\* segments in place and its BSS cleared, although segments are read in whole
\* sectors, the BSS is read from the disk too, and the disk takes its time.
KernelLoaded ==
  pc = "i386_init" =>
    \A n \in DOMAIN image : \A j \in 0 .. image[n].memsz - 1 :
      mem[image[n].pa + j] =
        IF j < image[n].filesz THEN <<"disk", image[n].offset + j>> ELSE Zero

\* The boot loader hands over a whole kernel, read from whole headers.
LoadedWhole == HeaderIntact /\ KernelLoaded

\* The disk answers and the loader goes on.
Fairness == WF_vars(Next)

\* bootmain() gets to the kernel, or to the loop for images that are none.
Boots == <>(pc \in {"i386_init", "bad"})
=============================================================================
