---------------------------- MODULE KernelProofs ----------------------------
(***************************************************************************)
(* Proofs about the kernel's own machinery.  KernMap: for any layout that  *)
(* fits, mem_init() maps what check_kern_pgdir() asserts and nothing       *)
(* around the stacks.  Boot: a processor that enters the scheduler is      *)
(* ready for it, for any table and any size of cpus[].  Tlb: no stale      *)
(* translation is used in user mode, for any number of processors,         *)
(* environments, addresses and pages.  Spinlock: for any number of         *)
(* processors the lock excludes, raises no false alarm and implements      *)
(* Mutex; the flag is set exactly while some processor is between the two  *)
(* exchanges, and lk->cpu names a processor exactly while that one is      *)
(* between Record and Clear.                                               *)
(***************************************************************************)
EXTENDS Spinlock, Tlb, Boot, KernMap, TLAPS

-----------------------------------------------------------------------------
(* The kernel's part of the address space                                   *)

\* Whole pages.
Aligned(x) == x \in Nat /\ \E k \in Nat : x = k * PGSIZE

\* A page is not empty.
Sizes == PGSIZE \in Nat /\ PGSIZE > 0

\* The alignment check_kern_pgdir() steps by is divisibility by PGSIZE.
LEMMA AlignedMod ==
  ASSUME Sizes, NEW x \in Nat
  PROVE  Aligned(x) <=> x % PGSIZE = 0
<1>1. ASSUME x % PGSIZE = 0 PROVE \E k \in Nat : x = k * PGSIZE
  <2>1. x \div PGSIZE \in Nat /\ x = (x \div PGSIZE) * PGSIZE
    BY <1>1 DEF Sizes
  <2> QED BY <2>1, Zenon
<1>2. ASSUME NEW k \in Nat, x = k * PGSIZE PROVE x % PGSIZE = 0
  BY <1>2 DEF Sizes
<1> QED BY <1>1, <1>2, Zenon DEF Aligned

\* boot_map_region()'s va + i and pa + i stay on whole pages, and two such
\* addresses are a page apart.
LEMMA AlignedSum ==
  ASSUME Sizes, NEW x, NEW y, Aligned(x), Aligned(y)
  PROVE  /\ Aligned(x + y)
         /\ y <= x => Aligned(x - y)
         /\ x < y => x + PGSIZE <= y
<1>1. PICK k \in Nat : x = k * PGSIZE
  BY Zenon DEF Aligned
<1>2. PICK j \in Nat : y = j * PGSIZE
  BY Zenon DEF Aligned
<1>3. k + j \in Nat /\ x + y = (k + j) * PGSIZE /\ x + y \in Nat
  BY <1>1, <1>2 DEF Sizes
<1>4. ASSUME y <= x PROVE k - j \in Nat /\ x - y = (k - j) * PGSIZE /\ x - y \in Nat
  <2>1. j <= k
    BY <1>1, <1>2, <1>4 DEF Sizes
  <2> QED BY <1>1, <1>2, <1>4, <2>1 DEF Sizes
<1>5. x < y => x + PGSIZE <= y
  BY <1>1, <1>2 DEF Sizes
<1> QED BY <1>3, <1>4, <1>5, Zenon DEF Aligned

\* ROUNDUP(size, PGSIZE), the bound of the loop in boot_map_region(), is the
\* least whole number of pages that covers the size.
LEMMA RoundUp ==
  ASSUME Sizes, NEW s \in Nat
  PROVE  /\ Aligned(ROUNDUP(s)) /\ s <= ROUNDUP(s)
         /\ ROUNDUP(s) < s + PGSIZE
         /\ \A b : Aligned(b) /\ s <= b => ROUNDUP(s) <= b
<1> DEFINE t == s + PGSIZE - 1
<1>1. t \in Nat /\ t \div PGSIZE \in Nat /\ ROUNDUP(s) = (t \div PGSIZE) * PGSIZE
      /\ ROUNDUP(s) \in Nat /\ s <= ROUNDUP(s) /\ ROUNDUP(s) < s + PGSIZE
  <2>1. t \in Nat
    BY DEF Sizes
  <2>2. t \div PGSIZE \in Nat /\ t = (t \div PGSIZE) * PGSIZE + (t % PGSIZE) /\ t % PGSIZE \in 0 .. PGSIZE - 1
    <3> HIDE DEF t
    <3> QED BY <2>1 DEF Sizes
  <2>3. ROUNDUP(s) = t - (t % PGSIZE)
    BY Zenon DEF ROUNDUP, PTE_ADDR
  <2> QED BY <2>1, <2>2, <2>3 DEF Sizes
<1>2. Aligned(ROUNDUP(s))
  BY <1>1, Zenon DEF Aligned
<1>3. ASSUME NEW b, Aligned(b), s <= b PROVE ROUNDUP(s) <= b
  <2>1. b < ROUNDUP(s) => b + PGSIZE <= ROUNDUP(s)
    BY <1>2, <1>3, AlignedSum, Zenon
  <2>2. b \in Nat
    BY <1>3, Zenon DEF Aligned
  <2> QED BY <1>1, <1>3, <2>1, <2>2 DEF Sizes
<1> QED BY <1>1, <1>2, <1>3, Zenon

\* PTE_ADDR() keeps a whole page as it is.
LEMMA RoundDown ==
  ASSUME Sizes, NEW x, Aligned(x)
  PROVE  PTE_ADDR(x) = x
<1>1. x \in Nat /\ x % PGSIZE = 0
  BY AlignedMod, Zenon DEF Aligned
<1> QED BY <1>1 DEF PTE_ADDR

\* A row of things that are whole pages ends on a whole page.
LEMMA AlignedTimes ==
  ASSUME Sizes, NEW x, NEW n \in Nat, Aligned(x)
  PROVE  Aligned(n * x)
<1>1. PICK k \in Nat : x = k * PGSIZE
  BY Zenon DEF Aligned
<1>2. n * k \in Nat /\ n * x \in Nat /\ n * x = (n * k) * PGSIZE
  BY <1>1 DEF Sizes
<1> QED BY <1>2, Zenon DEF Aligned

\* What a page table divides is a number of page tables.
LEMMA WholeTables ==
  ASSUME NEW p \in Nat, p > 0, NEW x \in Nat, x % p = 0
  PROVE  \E k \in Nat : x = k * p
<1>1. x \div p \in Nat /\ x = (x \div p) * p
  OBVIOUS
<1> QED BY <1>1, Zenon

\* The assumptions on the layout, with its addresses on whole pages.
LEMMA LayoutFacts ==
  /\ Sizes /\ PTSIZE \in Nat /\ 4 <= PGSIZE /\ PGSIZE < PTSIZE
  /\ 2^W \in Nat /\ KERNBASE \in Nat /\ IOMEMBASE \in Nat /\ KSTKSIZE \in Nat /\ KSTKGAP \in Nat
  /\ NSTACKS \in Nat /\ 0 < NSTACKS /\ EnvsSize \in Nat /\ SizeofPage \in Nat
  /\ 5 * PTSIZE <= KERNBASE /\ KERNBASE <= IOMEMBASE /\ IOMEMBASE + PTSIZE <= 2^W
  /\ Aligned(PTSIZE) /\ Aligned(2^W) /\ Aligned(KERNBASE) /\ Aligned(IOMEMBASE)
  /\ Aligned(KSTKSIZE) /\ Aligned(KSTKGAP)
<1>1. /\ PGSIZE \in Nat /\ PTSIZE \in Nat /\ 4 <= PGSIZE /\ PGSIZE < PTSIZE
      /\ 2^W \in Nat /\ KERNBASE \in Nat /\ IOMEMBASE \in Nat /\ KSTKSIZE \in Nat /\ KSTKGAP \in Nat
      /\ NSTACKS \in Nat /\ 0 < NSTACKS /\ EnvsSize \in Nat /\ SizeofPage \in Nat
      /\ 5 * PTSIZE <= KERNBASE /\ KERNBASE <= IOMEMBASE /\ IOMEMBASE < 2^W
  <2>1. PGSIZE \in Nat /\ PTSIZE \in Nat /\ 4 <= PGSIZE /\ PGSIZE < PTSIZE
    BY KernMapAssumption, Zenon
  <2>2. 2^W \in Nat /\ KERNBASE \in Nat /\ IOMEMBASE \in Nat /\ KSTKSIZE \in Nat /\ KSTKGAP \in Nat
    BY KernMapAssumption, Zenon
  <2>3. NSTACKS \in Nat /\ 0 < NSTACKS /\ EnvsSize \in Nat /\ SizeofPage \in Nat
    BY KernMapAssumption, Zenon
  <2>4. 5 * PTSIZE <= KERNBASE /\ KERNBASE <= IOMEMBASE /\ IOMEMBASE < 2^W
    BY KernMapAssumption, Zenon
  <2> QED BY <2>1, <2>2, <2>3, <2>4, Zenon
<1>2. Sizes /\ PTSIZE > 0
  BY <1>1 DEF Sizes
<1>3. Aligned(PTSIZE) /\ Aligned(KSTKSIZE) /\ Aligned(KSTKGAP)
  BY <1>1, <1>2, AlignedMod, KernMapAssumption, Zenon
<1>4. /\ \E k \in Nat : 2^W = k * PTSIZE
      /\ \E k \in Nat : KERNBASE = k * PTSIZE
      /\ \E k \in Nat : IOMEMBASE = k * PTSIZE
  <2>1. 2^W % PTSIZE = 0 /\ KERNBASE % PTSIZE = 0 /\ IOMEMBASE % PTSIZE = 0
    BY KernMapAssumption, Zenon
  <2> QED BY <1>1, <1>2, <2>1, WholeTables, Zenon
<1>5. Aligned(2^W) /\ Aligned(KERNBASE) /\ Aligned(IOMEMBASE)
  BY <1>2, <1>3, <1>4, AlignedTimes, Zenon
<1>6. \A x, y \in Nat : x * PTSIZE < y * PTSIZE => x * PTSIZE + PTSIZE <= y * PTSIZE
  BY <1>1
<1>7. IOMEMBASE + PTSIZE <= 2^W
  BY <1>1, <1>4, <1>6, Zenon
<1> QED BY <1>1, <1>2, <1>3, <1>5, <1>7, Zenon

\* The addresses of inc/memlayout.h, from the bottom up.
LEMMA Landmarks ==
  /\ UENVS \in Nat /\ UPAGES \in Nat /\ UVPT \in Nat /\ ULIM \in Nat /\ KSTACKTOP \in Nat
  /\ UENVS + PTSIZE = UPAGES /\ UPAGES + PTSIZE = UVPT /\ UVPT + PTSIZE = ULIM
  /\ ULIM + PTSIZE = KSTACKTOP /\ KSTACKTOP + PTSIZE = KERNBASE
  /\ Aligned(UENVS) /\ Aligned(UPAGES) /\ Aligned(UVPT) /\ Aligned(KSTACKTOP)
<1>1. /\ PTSIZE \in Nat /\ KERNBASE \in Nat /\ 5 * PTSIZE <= KERNBASE
      /\ Sizes /\ Aligned(PTSIZE) /\ Aligned(KERNBASE)
  BY LayoutFacts, Zenon
<1>2. /\ KSTACKTOP \in Nat /\ PTSIZE <= KERNBASE /\ KSTACKTOP + PTSIZE = KERNBASE
      /\ ULIM \in Nat /\ PTSIZE <= KSTACKTOP /\ ULIM + PTSIZE = KSTACKTOP
      /\ UVPT \in Nat /\ PTSIZE <= ULIM /\ UVPT + PTSIZE = ULIM
      /\ UPAGES \in Nat /\ PTSIZE <= UVPT /\ UPAGES + PTSIZE = UVPT
      /\ UENVS \in Nat /\ PTSIZE <= UPAGES /\ UENVS + PTSIZE = UPAGES
  BY <1>1 DEF KSTACKTOP, ULIM, UVPT, UPAGES, UENVS
<1>3. Aligned(KSTACKTOP)
  BY <1>1, <1>2, AlignedSum, Zenon DEF KSTACKTOP
<1>4. Aligned(ULIM)
  BY <1>1, <1>2, <1>3, AlignedSum, Zenon DEF ULIM
<1>5. Aligned(UVPT)
  BY <1>1, <1>2, <1>4, AlignedSum, Zenon DEF UVPT
<1>6. Aligned(UPAGES)
  BY <1>1, <1>2, <1>5, AlignedSum, Zenon DEF UPAGES
<1>7. Aligned(UENVS)
  BY <1>1, <1>2, <1>6, AlignedSum, Zenon DEF UENVS
<1> QED BY <1>2, <1>3, <1>5, <1>6, <1>7, Zenon

\* mem_init_mp()'s stacks lie between ULIM and KSTACKTOP, each with its gap below it.
Stacks == 0 .. NSTACKS - 1

\* KstackVA(n), where mem_init_mp() maps stack n: in its table, on whole pages,
\* and the gap below a stack separates it from the next.
LEMMA StackPlaces ==
  /\ \A n \in Stacks : /\ KstackVA(n) \in Nat /\ Aligned(KstackVA(n))
                       /\ ULIM + KSTKGAP <= KstackVA(n) /\ KstackVA(n) + KSTKSIZE <= KSTACKTOP
                       /\ KstackVA(n) = KSTACKTOP - n * (KSTKSIZE + KSTKGAP) - KSTKSIZE
                       /\ Aligned(n * KSTKSIZE) /\ n * KSTKSIZE + KSTKSIZE <= PTSIZE
  /\ \A n, p \in Stacks : n < p => KstackVA(p) + KSTKSIZE + KSTKGAP <= KstackVA(n)
<1> DEFINE T == KSTKSIZE + KSTKGAP
<1>1. /\ KSTKSIZE \in Nat /\ KSTKGAP \in Nat /\ NSTACKS \in Nat /\ PTSIZE \in Nat /\ Sizes
      /\ Aligned(KSTKSIZE) /\ Aligned(KSTKGAP) /\ Aligned(KSTACKTOP)
      /\ ULIM \in Nat /\ KSTACKTOP \in Nat /\ ULIM + PTSIZE = KSTACKTOP
  BY LayoutFacts, Landmarks, Zenon
<1>2. NSTACKS * T <= PTSIZE
  BY KernMapAssumption, Zenon
<1>3. T \in Nat /\ KSTKSIZE <= T /\ Aligned(T)
  <2>1. T \in Nat /\ KSTKSIZE <= T
    BY <1>1
  <2> QED BY <1>1, <2>1, AlignedSum, Zenon
<1>4. ASSUME NEW n \in Stacks
      PROVE  /\ n \in Nat /\ n * T \in Nat /\ n * T + T <= NSTACKS * T /\ NSTACKS * T \in Nat
             /\ KstackVA(n) = KSTACKTOP - n * T - KSTKSIZE
             /\ n * KSTKSIZE \in Nat /\ n * KSTKSIZE <= n * T
  <2>1. n \in Nat /\ n < NSTACKS
    BY <1>1 DEF Stacks
  <2>2. KstackVA(n) = KSTACKTOP - n * T - KSTKSIZE
    BY <1>1, <2>1 DEF KstackVA
  <2>3. n * KSTKSIZE \in Nat /\ n * KSTKSIZE <= n * T
    BY <1>1, <2>1
  <2>4. n * T \in Nat /\ n * T + T <= NSTACKS * T /\ NSTACKS * T \in Nat
    <3> HIDE DEF T
    <3> QED BY <1>1, <1>3, <2>1
  <2> QED BY <2>1, <2>2, <2>3, <2>4, Zenon
<1>5. ASSUME NEW n \in Stacks
      PROVE  /\ KstackVA(n) \in Nat
             /\ ULIM + KSTKGAP <= KstackVA(n) /\ KstackVA(n) + KSTKSIZE <= KSTACKTOP
             /\ n * KSTKSIZE + KSTKSIZE <= PTSIZE
             /\ n * T + KSTKSIZE <= KSTACKTOP /\ KstackVA(n) = KSTACKTOP - (n * T + KSTKSIZE)
  BY <1>1, <1>2, <1>4
<1>6. ASSUME NEW n \in Stacks
      PROVE  Aligned(KstackVA(n)) /\ Aligned(n * KSTKSIZE)
  <2>1. Aligned(n * T) /\ Aligned(n * KSTKSIZE)
    BY <1>1, <1>3, <1>4, AlignedTimes, Zenon
  <2>2. Aligned(n * T + KSTKSIZE)
    BY <1>1, <2>1, AlignedSum, Zenon
  <2> QED BY <1>1, <1>5, <2>1, <2>2, AlignedSum, Zenon
<1>7. ASSUME NEW n \in Stacks, NEW p \in Stacks, n < p
      PROVE  KstackVA(p) + KSTKSIZE + KSTKGAP <= KstackVA(n)
  <2>1. n * T + T <= p * T
    <3> HIDE DEF T
    <3> QED BY <1>3, <1>4, <1>7
  <2> QED BY <1>1, <1>4, <2>1
<1> QED BY <1>4, <1>5, <1>6, <1>7, Zenon

\* What call c of boot_map_region() maps: from Base(c), Size(c) addresses.
Base(c)  == Calls[c].va
Phys(c)  == Calls[c].pa
Size(c)  == ROUNDUP(Calls[c].size)
CallNos  == 1 .. 5 + NSTACKS

\* The calls of mem_init() and mem_init_mp() one by one.
LEMMA CallList ==
  ASSUME npages \in NPages
  PROVE  /\ Len(Calls) = 5 + NSTACKS
         /\ Calls[1] = Region(UPAGES, npages * SizeofPage, PagesPA, {"U"})
         /\ Calls[2] = Region(KSTACKTOP - KSTKSIZE, KSTKSIZE, BootstackPA, {"W"})
         /\ Calls[3] = Region(KERNBASE, MAX - KERNBASE, 0, {"W"})
         /\ Calls[4] = Region(UENVS, EnvsSize, EnvsPA, {"U"})
         /\ Calls[5] = Region(IOMEMBASE, 2^W - IOMEMBASE, IOMEM_PADDR, {"W"})
         /\ \A n \in Stacks : Calls[6 + n] = Region(KstackVA(n), KSTKSIZE, KstacksPA + n * KSTKSIZE, {"W"})
<1>1. NSTACKS \in Nat
  BY LayoutFacts, Zenon
<1> DEFINE F(n) == Region(KstackVA(n - 1), KSTKSIZE, KstacksPA + (n - 1) * KSTKSIZE, {"W"})
           t    == [n \in 1 .. NSTACKS |-> F(n)]
           a    == Region(UPAGES, npages * SizeofPage, PagesPA, {"U"})
           b    == Region(KSTACKTOP - KSTKSIZE, KSTKSIZE, BootstackPA, {"W"})
           c    == Region(KERNBASE, MAX - KERNBASE, 0, {"W"})
           d    == Region(UENVS, EnvsSize, EnvsPA, {"U"})
           e    == Region(IOMEMBASE, 2^W - IOMEMBASE, IOMEM_PADDR, {"W"})
           s    == <<a, b, c, d, e>>
<1>2. Calls = s \o t
  BY Zenon DEF Calls, PagesPerm
<1> HIDE DEF F, t, a, b, c, d, e, s
<1>3. /\ Len(s \o t) = 5 + NSTACKS
      /\ (s \o t)[1] = a /\ (s \o t)[2] = b /\ (s \o t)[3] = c /\ (s \o t)[4] = d /\ (s \o t)[5] = e
      /\ \A n \in Stacks : (s \o t)[6 + n] = F(n + 1)
  BY <1>1 DEF Stacks, s, t
<1>4. \A n \in Stacks : F(n + 1) = Region(KstackVA(n), KSTKSIZE, KstacksPA + n * KSTKSIZE, {"W"})
  <2> SUFFICES ASSUME NEW n \in Stacks
               PROVE  F(n + 1) = Region(KstackVA(n), KSTKSIZE, KstacksPA + n * KSTKSIZE, {"W"})
    BY Zenon
  <2>1. PICK p : p = (n + 1) - 1
    BY Zenon
  <2>2. p = n
    BY <1>1, <2>1 DEF Stacks
  <2>3. F(n + 1) = Region(KstackVA(p), KSTKSIZE, KstacksPA + p * KSTKSIZE, {"W"})
    BY <2>1, Zenon DEF F
  <2> QED BY <2>2, <2>3, Zenon
<1>5. /\ Len(Calls) = 5 + NSTACKS /\ Calls[1] = a /\ Calls[2] = b /\ Calls[3] = c /\ Calls[4] = d /\ Calls[5] = e
      /\ \A n \in Stacks : Calls[6 + n] = F(n + 1)
  BY <1>2, <1>3, Zenon
<1> QED BY <1>4, <1>5, Zenon DEF a, b, c, d, e

\* A size of whole pages is not rounded, and the missing byte of MAX - KERNBASE
\* is made up for by the rounding.
LEMMA RoundedSize ==
  ASSUME Sizes, NEW b, Aligned(b)
  PROVE  /\ ROUNDUP(b) = b
         /\ 4 <= PGSIZE /\ 0 < b => ROUNDUP(b - 1) = b
<1>1. b \in Nat
  BY Zenon DEF Aligned
<1>2. ROUNDUP(b) = b
  <2>1. ROUNDUP(b) \in Nat /\ b <= ROUNDUP(b) /\ ROUNDUP(b) <= b
    <3>1. Aligned(ROUNDUP(b)) /\ b <= b
      BY <1>1, RoundUp
    <3> QED BY <1>1, <3>1, RoundUp, Zenon DEF Aligned
  <2> QED BY <1>1, <2>1
<1>3. ASSUME 4 <= PGSIZE, 0 < b PROVE ROUNDUP(b - 1) = b
  <2>1. b - 1 \in Nat /\ b - 1 <= b
    BY <1>1, <1>3
  <2>2. Aligned(ROUNDUP(b - 1)) /\ b - 1 <= ROUNDUP(b - 1) /\ ROUNDUP(b - 1) <= b
    BY <2>1, RoundUp, Zenon
  <2>3. ROUNDUP(b - 1) < b => ROUNDUP(b - 1) + PGSIZE <= b
    BY <2>2, AlignedSum, Zenon
  <2>4. ROUNDUP(b - 1) \in Nat
    BY <2>2, Zenon DEF Aligned
  <2> QED BY <1>1, <1>3, <2>2, <2>3, <2>4 DEF Sizes
<1> QED BY <1>2, <1>3, Zenon

\* Its permissions.
Perm(c) == Calls[c].perm

\* Base, Phys, Size and Perm of a call are the arguments it is given.
LEMMA CallIs ==
  ASSUME NEW c, NEW va, NEW size, NEW pa, NEW perm, Calls[c] = Region(va, size, pa, perm)
  PROVE  Base(c) = va /\ Phys(c) = pa /\ Perm(c) = perm /\ Size(c) = ROUNDUP(size)
<1>1. Calls[c].va = va /\ Calls[c].size = size /\ Calls[c].pa = pa /\ Calls[c].perm = perm
  BY DEF Region
<1> QED BY <1>1, Zenon DEF Base, Phys, Perm, Size

\* Where each call maps.
LEMMA CallPlaces ==
  ASSUME npages \in NPages
  PROVE  /\ Base(1) = UPAGES /\ Phys(1) = PagesPA /\ Perm(1) = {"U"}
         /\ npages * SizeofPage \in Nat /\ Size(1) = ROUNDUP(npages * SizeofPage) /\ Aligned(Size(1)) /\ Size(1) <= PTSIZE
         /\ Base(2) = KSTACKTOP - KSTKSIZE /\ Phys(2) = BootstackPA /\ Perm(2) = {"W"} /\ Size(2) = KSTKSIZE
         /\ Base(3) = KERNBASE /\ Phys(3) = 0 /\ Perm(3) = {"W"} /\ Size(3) = 2^W - KERNBASE
         /\ Base(4) = UENVS /\ Phys(4) = EnvsPA /\ Perm(4) = {"U"}
         /\ Size(4) = ROUNDUP(EnvsSize) /\ Aligned(Size(4)) /\ Size(4) <= PTSIZE
         /\ Base(5) = IOMEMBASE /\ Phys(5) = IOMEM_PADDR /\ Perm(5) = {"W"} /\ Size(5) = 2^W - IOMEMBASE
         /\ \A n \in Stacks : /\ Base(6 + n) = KstackVA(n) /\ Phys(6 + n) = KstacksPA + n * KSTKSIZE
                              /\ Perm(6 + n) = {"W"} /\ Size(6 + n) = KSTKSIZE
<1>1. Sizes /\ 4 <= PGSIZE /\ Aligned(PTSIZE) /\ Aligned(KSTKSIZE) /\ EnvsSize \in Nat
  BY LayoutFacts, Zenon
<1>2. /\ npages * SizeofPage \in Nat /\ npages * SizeofPage <= PTSIZE /\ EnvsSize <= PTSIZE
  <2>1. npages \in Nat /\ SizeofPage \in Nat /\ npages * SizeofPage <= PTSIZE /\ EnvsSize <= PTSIZE
    BY KernMapAssumption, Zenon
  <2> QED BY <2>1
<1>3. /\ Aligned(2^W - KERNBASE) /\ Aligned(2^W - IOMEMBASE) /\ MAX - KERNBASE = (2^W - KERNBASE) - 1
      /\ 0 < 2^W - KERNBASE
  <2>1. /\ 2^W \in Nat /\ KERNBASE \in Nat /\ IOMEMBASE \in Nat /\ PTSIZE \in Nat /\ PGSIZE < PTSIZE
        /\ KERNBASE <= IOMEMBASE /\ IOMEMBASE + PTSIZE <= 2^W
        /\ Aligned(2^W) /\ Aligned(KERNBASE) /\ Aligned(IOMEMBASE)
    BY LayoutFacts, Zenon
  <2>2. KERNBASE <= 2^W /\ IOMEMBASE <= 2^W /\ MAX - KERNBASE = (2^W - KERNBASE) - 1 /\ 0 < 2^W - KERNBASE
    BY <1>1, <2>1 DEF MAX, Sizes
  <2> QED BY <1>1, <2>1, <2>2, AlignedSum, Zenon
<1>4. /\ ROUNDUP(KSTKSIZE) = KSTKSIZE /\ ROUNDUP(2^W - IOMEMBASE) = 2^W - IOMEMBASE
      /\ ROUNDUP(MAX - KERNBASE) = 2^W - KERNBASE
  BY <1>1, <1>3, RoundedSize, Zenon
<1>5. /\ Aligned(ROUNDUP(npages * SizeofPage)) /\ ROUNDUP(npages * SizeofPage) <= PTSIZE
      /\ Aligned(ROUNDUP(EnvsSize)) /\ ROUNDUP(EnvsSize) <= PTSIZE
  BY <1>1, <1>2, RoundUp, Zenon
<1>6. /\ Calls[1] = Region(UPAGES, npages * SizeofPage, PagesPA, {"U"})
      /\ Calls[2] = Region(KSTACKTOP - KSTKSIZE, KSTKSIZE, BootstackPA, {"W"})
      /\ Calls[3] = Region(KERNBASE, MAX - KERNBASE, 0, {"W"})
      /\ Calls[4] = Region(UENVS, EnvsSize, EnvsPA, {"U"})
      /\ Calls[5] = Region(IOMEMBASE, 2^W - IOMEMBASE, IOMEM_PADDR, {"W"})
      /\ \A n \in Stacks : Calls[6 + n] = Region(KstackVA(n), KSTKSIZE, KstacksPA + n * KSTKSIZE, {"W"})
  BY CallList, Zenon
<1>7. /\ Base(1) = UPAGES /\ Phys(1) = PagesPA /\ Perm(1) = {"U"} /\ Size(1) = ROUNDUP(npages * SizeofPage)
      /\ Base(4) = UENVS /\ Phys(4) = EnvsPA /\ Perm(4) = {"U"} /\ Size(4) = ROUNDUP(EnvsSize)
  <2>1. Base(1) = UPAGES /\ Phys(1) = PagesPA /\ Perm(1) = {"U"} /\ Size(1) = ROUNDUP(npages * SizeofPage)
    BY <1>6, CallIs, Zenon
  <2>2. Base(4) = UENVS /\ Phys(4) = EnvsPA /\ Perm(4) = {"U"} /\ Size(4) = ROUNDUP(EnvsSize)
    BY <1>6, CallIs, Zenon
  <2> QED BY <2>1, <2>2, Zenon
<1>8. /\ Base(2) = KSTACKTOP - KSTKSIZE /\ Phys(2) = BootstackPA /\ Perm(2) = {"W"} /\ Size(2) = ROUNDUP(KSTKSIZE)
      /\ Base(3) = KERNBASE /\ Phys(3) = 0 /\ Perm(3) = {"W"} /\ Size(3) = ROUNDUP(MAX - KERNBASE)
  <2>1. Base(2) = KSTACKTOP - KSTKSIZE /\ Phys(2) = BootstackPA /\ Perm(2) = {"W"} /\ Size(2) = ROUNDUP(KSTKSIZE)
    BY <1>6, CallIs, Zenon
  <2>2. Base(3) = KERNBASE /\ Phys(3) = 0 /\ Perm(3) = {"W"} /\ Size(3) = ROUNDUP(MAX - KERNBASE)
    BY <1>6, CallIs, Zenon
  <2> QED BY <2>1, <2>2, Zenon
<1>9. Base(5) = IOMEMBASE /\ Phys(5) = IOMEM_PADDR /\ Perm(5) = {"W"} /\ Size(5) = ROUNDUP(2^W - IOMEMBASE)
  BY <1>6, CallIs, Zenon
<1>10. ASSUME NEW n \in Stacks
       PROVE  /\ Base(6 + n) = KstackVA(n) /\ Phys(6 + n) = KstacksPA + n * KSTKSIZE
              /\ Perm(6 + n) = {"W"} /\ Size(6 + n) = ROUNDUP(KSTKSIZE)
  <2>1. Calls[6 + n] = Region(KstackVA(n), KSTKSIZE, KstacksPA + n * KSTKSIZE, {"W"})
    BY <1>6, Zenon
  <2> QED BY <2>1, CallIs, Zenon
<1>11. Size(2) = KSTKSIZE /\ Size(3) = 2^W - KERNBASE /\ Size(5) = 2^W - IOMEMBASE
  BY <1>4, <1>8, <1>9, Zenon
<1>12. \A n \in Stacks : Size(6 + n) = KSTKSIZE
  BY <1>4, <1>10, Zenon
<1>13. /\ npages * SizeofPage \in Nat /\ Aligned(Size(1)) /\ Size(1) <= PTSIZE /\ Aligned(Size(4)) /\ Size(4) <= PTSIZE
  BY <1>2, <1>5, <1>7, Zenon
<1> QED BY <1>7, <1>8, <1>9, <1>10, <1>11, <1>12, <1>13, Zenon

\* A call is one of the five of mem_init() or one of a stack.
LEMMA CallKinds ==
  /\ \A c \in CallNos : c \in {1, 2, 3, 4, 5} \/ \E n \in Stacks : c = 6 + n
  /\ \A n \in Stacks : n \in Nat /\ 6 + n \in CallNos
  /\ 0 \in Stacks /\ {1, 2, 3, 4, 5} \subseteq CallNos
<1>1. NSTACKS \in Nat /\ 0 < NSTACKS
  BY LayoutFacts, Zenon
<1>2. ASSUME NEW c \in CallNos, c \notin {1, 2, 3, 4, 5} PROVE c - 6 \in Stacks /\ c = 6 + (c - 6)
  BY <1>1, <1>2 DEF CallNos, Stacks
<1>3. \A c \in CallNos : c \in {1, 2, 3, 4, 5} \/ \E n \in Stacks : c = 6 + n
  BY <1>2, Zenon
<1>4. /\ \A n \in Stacks : n \in Nat /\ 6 + n \in CallNos
      /\ 0 \in Stacks /\ {1, 2, 3, 4, 5} \subseteq CallNos
  BY <1>1 DEF CallNos, Stacks
<1> QED BY <1>3, <1>4, Zenon

\* An address of a call: in one of the arrays, in a stack, or above KERNBASE.
Addr(c, x) == x \in Nat /\ Base(c) <= x /\ x < Base(c) + Size(c)

\* Where the addresses of each call lie in the layout of inc/memlayout.h.
LEMMA AddrKinds ==
  ASSUME npages \in NPages, NEW c \in CallNos, NEW x, Addr(c, x)
  PROVE  /\ c = 1 => UPAGES <= x /\ x < UVPT
         /\ c = 4 => UENVS <= x /\ x < UPAGES
         /\ c = 3 => KERNBASE <= x /\ x < 2^W
         /\ c = 5 => IOMEMBASE <= x /\ x < 2^W
         /\ c = 2 => KstackVA(0) <= x /\ x < KstackVA(0) + KSTKSIZE
         /\ \A n \in Stacks : c = 6 + n => KstackVA(n) <= x /\ x < KstackVA(n) + KSTKSIZE
         /\ c = 2 \/ (\E n \in Stacks : c = 6 + n) => ULIM <= x /\ x < KSTACKTOP
<1>1. x \in Nat /\ Base(c) <= x /\ x < Base(c) + Size(c)
  BY Zenon DEF Addr
<1>2. /\ 2^W \in Nat /\ KERNBASE \in Nat /\ IOMEMBASE \in Nat /\ KSTKSIZE \in Nat /\ KSTKGAP \in Nat /\ PTSIZE \in Nat
      /\ UENVS \in Nat /\ UPAGES \in Nat /\ UVPT \in Nat /\ ULIM \in Nat /\ KSTACKTOP \in Nat
      /\ UENVS + PTSIZE = UPAGES /\ UPAGES + PTSIZE = UVPT
  BY LayoutFacts, Landmarks, Zenon
<1>3. ASSUME c = 1 PROVE UPAGES <= x /\ x < UVPT
  <2>1. Base(c) = UPAGES /\ Size(c) <= PTSIZE /\ Size(c) \in Nat
    BY <1>3, CallPlaces, Zenon DEF Aligned
  <2> QED BY <1>1, <1>2, <2>1
<1>4. ASSUME c = 4 PROVE UENVS <= x /\ x < UPAGES
  <2>1. Base(c) = UENVS /\ Size(c) <= PTSIZE /\ Size(c) \in Nat
    BY <1>4, CallPlaces, Zenon DEF Aligned
  <2> QED BY <1>1, <1>2, <2>1
<1>5. ASSUME c = 3 PROVE KERNBASE <= x /\ x < 2^W
  <2>1. Base(c) = KERNBASE /\ Size(c) = 2^W - KERNBASE
    BY <1>5, CallPlaces, Zenon
  <2> QED BY <1>1, <1>2, <2>1
<1>6. ASSUME c = 5 PROVE IOMEMBASE <= x /\ x < 2^W
  <2>1. Base(c) = IOMEMBASE /\ Size(c) = 2^W - IOMEMBASE
    BY <1>6, CallPlaces, Zenon
  <2> QED BY <1>1, <1>2, <2>1
<1>7. ASSUME NEW n \in Stacks, c = 6 + n PROVE KstackVA(n) <= x /\ x < KstackVA(n) + KSTKSIZE
  <2>1. Base(c) = KstackVA(n) /\ Size(c) = KSTKSIZE
    BY <1>7, CallPlaces, Zenon
  <2> QED BY <1>1, <2>1, Zenon
<1>8. ASSUME c = 2 PROVE KstackVA(0) <= x /\ x < KstackVA(0) + KSTKSIZE
  <2>1. Base(c) = KSTACKTOP - KSTKSIZE /\ Size(c) = KSTKSIZE
    BY <1>8, CallPlaces, Zenon
  <2>2. KstackVA(0) = KSTACKTOP - KSTKSIZE
    BY <1>2 DEF KstackVA
  <2> QED BY <1>1, <2>1, <2>2, Zenon
<1>9. ASSUME NEW n \in Stacks, KstackVA(n) <= x, x < KstackVA(n) + KSTKSIZE
      PROVE  ULIM <= x /\ x < KSTACKTOP
  <2>1. KstackVA(n) \in Nat /\ ULIM + KSTKGAP <= KstackVA(n) /\ KstackVA(n) + KSTKSIZE <= KSTACKTOP
    BY StackPlaces, Zenon
  <2> QED BY <1>1, <1>2, <1>9, <2>1
<1>10. c = 2 \/ (\E n \in Stacks : c = 6 + n) => ULIM <= x /\ x < KSTACKTOP
  BY <1>7, <1>8, <1>9, CallKinds, Zenon
<1> QED BY <1>3, <1>4, <1>5, <1>6, <1>7, <1>8, <1>10, Zenon

\* A later call maps over an earlier one in two places only: the boot stack and
\* the devices.
LEMMA Apart ==
  ASSUME npages \in NPages, NEW c \in CallNos, NEW d \in CallNos, c < d, c # 2,
         NEW x, Addr(c, x), Addr(d, x), c = 3 => x < IOMEMBASE
  PROVE  FALSE
<1>1. /\ x \in Nat /\ IOMEMBASE \in Nat /\ KERNBASE \in Nat /\ KERNBASE <= IOMEMBASE /\ PTSIZE \in Nat
      /\ UPAGES \in Nat /\ UVPT \in Nat /\ ULIM \in Nat /\ KSTACKTOP \in Nat
      /\ UVPT + PTSIZE = ULIM /\ KSTACKTOP + PTSIZE = KERNBASE
  BY LayoutFacts, Landmarks, Zenon DEF Addr
<1> DEFINE S(k) == k = 2 \/ \E n \in Stacks : k = 6 + n
<1>2. ASSUME NEW k \in {c, d}
      PROVE  /\ k = 1 \/ k = 4 \/ k \in {3, 5} \/ S(k)
             /\ k = 1 => UPAGES <= x /\ x < UVPT
             /\ k = 4 => x < UPAGES
             /\ k \in {3, 5} => KERNBASE <= x
             /\ S(k) => ULIM <= x /\ x < KSTACKTOP
  <2>1. k \in CallNos /\ Addr(k, x)
    BY <1>2, Zenon
  <2>2. k \in {1, 2, 3, 4, 5} \/ \E n \in Stacks : k = 6 + n
    BY <2>1, CallKinds, Zenon
  <2>3. k = 5 => KERNBASE <= x
    <3>1. k = 5 => IOMEMBASE <= x
      BY <2>1, AddrKinds, Zenon
    <3> QED BY <1>1, <3>1
  <2>4. /\ k = 1 => UPAGES <= x /\ x < UVPT
        /\ k = 4 => x < UPAGES
        /\ k = 3 => KERNBASE <= x
        /\ S(k) => ULIM <= x /\ x < KSTACKTOP
    BY <2>1, AddrKinds, Zenon
  <2> QED BY <2>2, <2>3, <2>4, Zenon
<1>3. \/ S(c) /\ S(d)
      \/ c \in {3, 5} /\ d \in {3, 5}
  <2> HIDE DEF S
  <2>1. c < d => c # d
    <3>1. NSTACKS \in Nat /\ c \in 1 .. 5 + NSTACKS /\ d \in 1 .. 5 + NSTACKS
      BY LayoutFacts, Zenon DEF CallNos
    <3> QED BY <3>1
  <2>2. /\ ~ (UPAGES <= x /\ x < UPAGES) /\ ~ (KERNBASE <= x /\ x < UVPT) /\ ~ (KERNBASE <= x /\ x < UPAGES)
        /\ ~ (ULIM <= x /\ x < UVPT) /\ ~ (ULIM <= x /\ x < UPAGES) /\ ~ (KERNBASE <= x /\ x < KSTACKTOP)
    BY <1>1, Landmarks
  <2> QED BY <1>2, <2>1, <2>2, Zenon
<1>4. CASE S(c) /\ S(d)
  <2>1. PICK n \in Stacks, p \in Stacks : c = 6 + n /\ d = 6 + p
    <3>1. d # 2
      <4>1. c \in 1 .. 5 + NSTACKS /\ NSTACKS \in Nat /\ (c = 1 => ~ S(c))
        <5>1. \A n \in Stacks : n \in Nat
          BY CallKinds, Zenon
        <5>2. c = 1 => ~ S(c)
          BY <5>1
        <5> QED BY <5>2, LayoutFacts, Zenon DEF CallNos
      <4> QED BY <1>4, <4>1
    <3> QED BY <1>4, <3>1, Zenon
  <2>2. n \in Nat /\ p \in Nat
    BY CallKinds, Zenon
  <2>3. n < p
    BY <2>1, <2>2
  <2>4. KstackVA(n) <= x /\ x < KstackVA(p) + KSTKSIZE
    BY <2>1, AddrKinds, Zenon
  <2>5. KstackVA(p) + KSTKSIZE + KSTKGAP <= KstackVA(n) /\ KstackVA(n) \in Nat /\ KstackVA(p) \in Nat
    BY <2>3, StackPlaces, Zenon
  <2>6. KSTKSIZE \in Nat /\ KSTKGAP \in Nat
    BY LayoutFacts, Zenon
  <2> QED BY <1>1, <2>4, <2>5, <2>6
<1>5. CASE c \in {3, 5} /\ d \in {3, 5}
  <2>1. c = 3 /\ d = 5
    BY <1>5
  <2>2. IOMEMBASE <= x /\ x < IOMEMBASE
    BY <2>1, AddrKinds, Zenon
  <2> QED BY <1>1, <2>2
<1> QED BY <1>3, <1>4, <1>5, Zenon

\* Every call maps whole pages to whole pages, inside the address space, and
\* starts far enough from its end for compare_MAX().
LEMMA EveryCall ==
  ASSUME npages \in NPages, NEW c \in CallNos
  PROVE  /\ Aligned(Base(c)) /\ Aligned(Phys(c)) /\ Aligned(Size(c))
         /\ Base(c) + Size(c) <= 2^W /\ Phys(c) + Size(c) <= 2^W
         /\ Base(c) + 5 <= 2^W /\ Phys(c) + 5 <= 2^W /\ UENVS <= Base(c)
<1>1. /\ Sizes /\ PTSIZE \in Nat /\ 4 <= PGSIZE /\ PGSIZE < PTSIZE /\ PGSIZE \in Nat
      /\ 2^W \in Nat /\ KERNBASE \in Nat /\ IOMEMBASE \in Nat
      /\ KERNBASE <= IOMEMBASE /\ IOMEMBASE + PTSIZE <= 2^W
  BY LayoutFacts, Zenon DEF Sizes
<1>2. /\ UENVS \in Nat /\ UPAGES \in Nat /\ UVPT \in Nat /\ ULIM \in Nat /\ KSTACKTOP \in Nat
      /\ UENVS + PTSIZE = UPAGES /\ UPAGES + PTSIZE = UVPT /\ UVPT + PTSIZE = ULIM
      /\ ULIM + PTSIZE = KSTACKTOP /\ KSTACKTOP + PTSIZE = KERNBASE
  BY Landmarks, Zenon
<1>3. /\ Aligned(2^W) /\ Aligned(KERNBASE) /\ Aligned(IOMEMBASE) /\ Aligned(KSTKSIZE)
      /\ Aligned(UENVS) /\ Aligned(UPAGES) /\ Aligned(KSTACKTOP)
  BY LayoutFacts, Landmarks, Zenon
<1>4. /\ PagesPA \in Nat /\ EnvsPA \in Nat /\ BootstackPA \in Nat /\ KstacksPA \in Nat /\ IOMEM_PADDR \in Nat
      /\ PagesPA + PTSIZE < 2^W /\ EnvsPA + PTSIZE < 2^W /\ BootstackPA + PTSIZE < 2^W /\ KstacksPA + PTSIZE < 2^W
      /\ IOMEM_PADDR <= IOMEMBASE
  <2>1. PagesPA \in Nat /\ EnvsPA \in Nat /\ BootstackPA \in Nat /\ KstacksPA \in Nat /\ IOMEM_PADDR \in Nat
    BY KernMapAssumption, Zenon
  <2>2. PagesPA + PTSIZE < 2^W /\ EnvsPA + PTSIZE < 2^W /\ BootstackPA + PTSIZE < 2^W /\ KstacksPA + PTSIZE < 2^W
    BY KernMapAssumption, Zenon
  <2>3. IOMEM_PADDR <= IOMEMBASE
    BY KernMapAssumption, Zenon
  <2> QED BY <2>1, <2>2, <2>3, Zenon
<1>5. Aligned(PagesPA) /\ Aligned(EnvsPA) /\ Aligned(BootstackPA) /\ Aligned(KstacksPA) /\ Aligned(IOMEM_PADDR)
  <2>1. /\ PagesPA % PGSIZE = 0 /\ EnvsPA % PGSIZE = 0 /\ BootstackPA % PGSIZE = 0 /\ KstacksPA % PGSIZE = 0
        /\ IOMEM_PADDR % PGSIZE = 0
    BY KernMapAssumption, Zenon
  <2> QED BY <1>1, <1>4, <2>1, AlignedMod, Zenon
<1>6. CASE c = 1
  <2>1. Base(c) = UPAGES /\ Phys(c) = PagesPA /\ Size(c) \in Nat /\ Size(c) <= PTSIZE /\ Aligned(Size(c))
    BY <1>6, CallPlaces, Zenon DEF Aligned
  <2>2. UPAGES + Size(c) <= 2^W /\ PagesPA + Size(c) <= 2^W /\ UPAGES + 5 <= 2^W /\ PagesPA + 5 <= 2^W /\ UENVS <= UPAGES
    BY <1>1, <1>2, <1>4, <2>1
  <2> QED BY <1>3, <1>5, <2>1, <2>2, Zenon
<1>7. CASE c = 4
  <2>1. Base(c) = UENVS /\ Phys(c) = EnvsPA /\ Size(c) \in Nat /\ Size(c) <= PTSIZE /\ Aligned(Size(c))
    BY <1>7, CallPlaces, Zenon DEF Aligned
  <2>2. UENVS + Size(c) <= 2^W /\ EnvsPA + Size(c) <= 2^W /\ UENVS + 5 <= 2^W /\ EnvsPA + 5 <= 2^W /\ UENVS <= UENVS
    BY <1>1, <1>2, <1>4, <2>1
  <2> QED BY <1>3, <1>5, <2>1, <2>2, Zenon
<1>8. CASE c = 3
  <2>1. Base(c) = KERNBASE /\ Phys(c) = 0 /\ Size(c) = 2^W - KERNBASE
    BY <1>8, CallPlaces, Zenon
  <2>2. /\ KERNBASE + (2^W - KERNBASE) <= 2^W /\ 0 + (2^W - KERNBASE) <= 2^W /\ KERNBASE + 5 <= 2^W /\ 0 + 5 <= 2^W
        /\ UENVS <= KERNBASE /\ KERNBASE <= 2^W /\ 0 = 0 * PGSIZE
    BY <1>1, <1>2
  <2>3. Aligned(2^W - KERNBASE) /\ Aligned(0)
    <3>1. Aligned(2^W - KERNBASE)
      BY <1>1, <1>3, <2>2, AlignedSum, Zenon
    <3>2. 0 \in Nat
      OBVIOUS
    <3> QED BY <2>2, <3>1, <3>2, Zenon DEF Aligned
  <2> QED BY <1>3, <2>1, <2>2, <2>3, Zenon
<1>9. CASE c = 5
  <2>1. Base(c) = IOMEMBASE /\ Phys(c) = IOMEM_PADDR /\ Size(c) = 2^W - IOMEMBASE
    BY <1>9, CallPlaces, Zenon
  <2>2. /\ IOMEMBASE + (2^W - IOMEMBASE) <= 2^W /\ IOMEM_PADDR + (2^W - IOMEMBASE) <= 2^W /\ IOMEMBASE + 5 <= 2^W
        /\ IOMEM_PADDR + 5 <= 2^W /\ UENVS <= IOMEMBASE /\ IOMEMBASE <= 2^W
    BY <1>1, <1>2, <1>4
  <2>3. Aligned(2^W - IOMEMBASE)
    BY <1>1, <1>3, <2>2, AlignedSum, Zenon
  <2> QED BY <1>3, <1>5, <2>1, <2>2, <2>3, Zenon
<1>10. KSTKSIZE \in Nat /\ 4 <= KSTKSIZE /\ KSTKGAP \in Nat
  <2>1. KSTKSIZE \in Nat /\ 0 < KSTKSIZE /\ KSTKGAP \in Nat
    BY KernMapAssumption, Zenon
  <2>2. 0 = 0 * PGSIZE /\ 0 \in Nat
    BY <1>1
  <2>3. 0 + PGSIZE <= KSTKSIZE
    BY <1>1, <1>3, <2>1, <2>2, AlignedSum, Zenon DEF Aligned
  <2> QED BY <1>1, <2>1, <2>3
<1>11. ASSUME NEW n \in Stacks
       PROVE  /\ KstackVA(n) \in Nat /\ Aligned(KstackVA(n)) /\ KstackVA(n) + KSTKSIZE <= KSTACKTOP
              /\ UENVS <= KstackVA(n) /\ n * KSTKSIZE \in Nat /\ Aligned(n * KSTKSIZE)
              /\ n * KSTKSIZE + KSTKSIZE <= PTSIZE
  <2>1. /\ KstackVA(n) \in Nat /\ Aligned(KstackVA(n)) /\ KstackVA(n) + KSTKSIZE <= KSTACKTOP
        /\ ULIM + KSTKGAP <= KstackVA(n) /\ n * KSTKSIZE \in Nat /\ Aligned(n * KSTKSIZE)
        /\ n * KSTKSIZE + KSTKSIZE <= PTSIZE
    BY StackPlaces, Zenon DEF Aligned
  <2>2. UENVS <= KstackVA(n)
    BY <1>1, <1>2, <1>10, <2>1
  <2> QED BY <2>1, <2>2, Zenon
<1>12. CASE c = 2
  <2>1. Base(c) = KSTACKTOP - KSTKSIZE /\ Phys(c) = BootstackPA /\ Size(c) = KSTKSIZE
    BY <1>12, CallPlaces, Zenon
  <2>2. KstackVA(0) = KSTACKTOP - KSTKSIZE /\ 0 \in Stacks
    <3>1. KstackVA(0) = KSTACKTOP - KSTKSIZE
      BY <1>2, <1>10 DEF KstackVA
    <3> QED BY <3>1, CallKinds, Zenon
  <2>3. /\ KstackVA(0) + KSTKSIZE <= 2^W /\ BootstackPA + KSTKSIZE <= 2^W /\ KstackVA(0) + 5 <= 2^W
        /\ BootstackPA + 5 <= 2^W
    <3>1. 0 * KSTKSIZE = 0
      BY <1>10
    <3>2. KSTKSIZE <= PTSIZE
      BY <1>10, <1>11, <2>2, <3>1
    <3>3. KstackVA(0) \in Nat /\ KstackVA(0) + KSTKSIZE <= KSTACKTOP
      BY <1>11, <2>2, Zenon
    <3> QED BY <1>1, <1>2, <1>4, <1>10, <3>2, <3>3
  <2> QED BY <1>3, <1>5, <1>11, <2>1, <2>2, <2>3, Zenon
<1>13. CASE \E n \in Stacks : c = 6 + n
  <2>1. PICK n \in Stacks : c = 6 + n
    BY <1>13, Zenon
  <2>2. Base(c) = KstackVA(n) /\ Phys(c) = KstacksPA + n * KSTKSIZE /\ Size(c) = KSTKSIZE
    BY <2>1, CallPlaces, Zenon
  <2>3. Aligned(KstacksPA + n * KSTKSIZE)
    BY <1>1, <1>5, <1>11, AlignedSum, Zenon
  <2>4. PICK k \in Nat, v \in Nat : /\ k = n * KSTKSIZE /\ k + KSTKSIZE <= PTSIZE
                                   /\ v = KstackVA(n) /\ v + KSTKSIZE <= KSTACKTOP
    BY <1>11, Zenon
  <2>5. /\ v + KSTKSIZE <= 2^W /\ KstacksPA + k + KSTKSIZE <= 2^W /\ v + 5 <= 2^W
        /\ KstacksPA + k + 5 <= 2^W
    BY <1>1, <1>2, <1>4, <1>10, <2>4
  <2> QED BY <1>3, <1>11, <2>2, <2>3, <2>4, <2>5, Zenon
<1> QED BY <1>6, <1>7, <1>8, <1>9, <1>12, <1>13, CallKinds, Zenon

-----------------------------------------------------------------------------
\* The loop counts in pages.
CountInv == npages \in NPages /\ call \in 1 .. 6 + NSTACKS /\ Aligned(map_i)

\* Each entry was made by a call that maps its address.
MadeInv == \A va \in DOMAIN pte : Aligned(va) /\ \E c \in CallNos : Addr(c, va) /\ pte[va].perm = Perm(c)

\* A call's pages that are done stay, except where a later call maps over them.
Done(c, x) ==
  /\ Addr(c, x) /\ Aligned(x) /\ c # 2 /\ (c = 3 => x < IOMEMBASE)
  /\ c < call \/ (c = call /\ x < Base(c) + map_i)

\* They hold the physical address that follows from the arguments.
DoneInv ==
  \A c \in CallNos : \A x : Done(c, x) => x \in DOMAIN pte /\ pte[x].pa = Phys(c) + (x - Base(c))

\* A page has a page table, and the kernel may write through all but UVPT's.
DirInv ==
  /\ \A va \in DOMAIN pte : PDX(va) \in DOMAIN pde
  /\ \A d \in DOMAIN pde : d # PDX(UVPT) => "W" \in pde[d]

\* The inductive invariant.
MapInv == CountInv /\ MadeInv /\ DoneInv /\ DirInv

\* The directory with the one entry for UVPT satisfies it.
LEMMA InitMapInv ==
  InitMap => MapInv
<1> SUFFICES ASSUME InitMap PROVE MapInv
  BY Zenon
<1>1. npages \in NPages /\ call = 1 /\ map_i = 0 /\ pte = << >> /\ pde = [d \in {PDX(UVPT)} |-> {"U"}]
  BY Zenon DEF InitMap
<1>2. /\ NSTACKS \in Nat /\ Sizes
  BY LayoutFacts, Zenon
<1>3. CountInv
  <2>1. 0 \in Nat /\ 0 = 0 * PGSIZE /\ 1 \in 1 .. 6 + NSTACKS
    BY <1>2 DEF Sizes
  <2> QED BY <1>1, <2>1, Zenon DEF CountInv, Aligned
<1>4. DOMAIN pte = {}
  BY <1>1
<1>5. DoneInv
  <2> SUFFICES ASSUME NEW c \in CallNos, NEW x, Done(c, x) PROVE FALSE
    BY Zenon DEF DoneInv
  <2>1. x \in Nat /\ Base(c) <= x /\ (c < 1 \/ (c = 1 /\ x < Base(c) + 0)) /\ Base(c) \in Nat
    BY <1>1, EveryCall, Zenon DEF Done, Addr, Aligned
  <2>2. c \in Nat /\ c >= 1
    BY <1>2 DEF CallNos
  <2> QED BY <2>1, <2>2
<1>6. MadeInv /\ DirInv
  BY <1>1, <1>4, Zenon DEF MadeInv, DirInv
<1> QED BY <1>3, <1>5, <1>6, Zenon DEF MapInv

\* The parts of a call do not change.
LEMMA SameCalls ==
  ASSUME npages' = npages
  PROVE  /\ \A c : Base(c)' = Base(c) /\ Phys(c)' = Phys(c) /\ Size(c)' = Size(c) /\ Perm(c)' = Perm(c)
         /\ \A c, x : Addr(c, x)' = Addr(c, x)
         /\ Calls' = Calls
<1>1. Calls' = Calls
  BY Zenon DEF Calls
<1>2. \A c : Base(c)' = Base(c) /\ Phys(c)' = Phys(c) /\ Size(c)' = Size(c) /\ Perm(c)' = Perm(c)
  BY <1>1, Zenon DEF Base, Phys, Size, Perm
<1> QED BY <1>1, <1>2, Zenon DEF Addr

\* The loop's condition: compare_MAX() never ends a call early.
LEMMA CallRuns ==
  ASSUME CountInv, call <= Len(Calls)
  PROVE  /\ call \in CallNos /\ BelowMAX(Base(call)) /\ BelowMAX(Phys(call))
         /\ Covers(Calls[call]) <=> map_i < Size(call)
<1>1. npages \in NPages /\ call \in 1 .. 6 + NSTACKS /\ NSTACKS \in Nat /\ Len(Calls) = 5 + NSTACKS
  BY CallList, LayoutFacts, Zenon DEF CountInv
<1>2. call \in CallNos
  BY <1>1 DEF CallNos
<1>3. /\ Base(call) \in Nat /\ Phys(call) \in Nat /\ 2^W \in Nat
      /\ Base(call) + 5 <= 2^W /\ Phys(call) + 5 <= 2^W
  BY <1>1, <1>2, EveryCall, LayoutFacts, Zenon DEF Aligned
<1>4. BelowMAX(Base(call)) /\ BelowMAX(Phys(call))
  BY <1>3 DEF BelowMAX, MAX
<1>5. Covers(Calls[call]) <=> map_i < Size(call)
  BY <1>4, Zenon DEF Covers, Base, Phys, Size
<1> QED BY <1>2, <1>4, <1>5, Zenon

\* One page of a call: its address x, its entry and the directory's.
MapsPage(x, v) ==
  /\ call \in CallNos /\ Addr(call, x) /\ Aligned(x) /\ x = Base(call) + map_i
  /\ pte' = Stored(pte, x, [pa |-> Phys(call) + map_i, perm |-> Perm(call)])
  /\ pde' = Stored(pde, PDX(x), v)
  /\ PDX(x) \notin DOMAIN pde \/ "W" \in pde[PDX(x)] => "W" \in v
  /\ map_i' = map_i + PGSIZE /\ npages' = npages /\ call' = call

\* One iteration of boot_map_region() stores one entry of the running call, with
\* no sum that wraps around, and takes no write permission from the directory.
LEMMA MapPageFacts ==
  ASSUME CountInv, MapPage
  PROVE  \E x, v : MapsPage(x, v)
<1>1. call <= Len(Calls) /\ Covers(Calls[call]) /\ npages \in NPages /\ Aligned(map_i)
  BY Zenon DEF MapPage, CountInv
<1>2. call \in CallNos /\ map_i < Size(call)
  BY <1>1, CallRuns, Zenon
<1>3. /\ Aligned(Base(call)) /\ Aligned(Phys(call)) /\ Aligned(Size(call))
      /\ Base(call) + Size(call) <= 2^W /\ Phys(call) + Size(call) <= 2^W
  BY <1>1, <1>2, EveryCall, Zenon
<1>4. 2^W \in Nat /\ Sizes
  BY LayoutFacts, Zenon
<1> DEFINE x == Base(call) + map_i
           y == Phys(call) + map_i
<1>5. Aligned(x) /\ Aligned(y) /\ Base(call) \in Nat /\ Phys(call) \in Nat /\ Size(call) \in Nat /\ map_i \in Nat
  <2>1. Aligned(x) /\ Aligned(y)
    BY <1>1, <1>3, <1>4, AlignedSum, Zenon
  <2> QED BY <1>1, <1>3, <2>1, Zenon DEF Aligned
<1>6. x \in Nat /\ y \in Nat /\ x < 2^W /\ y < 2^W /\ Base(call) <= x /\ x < Base(call) + Size(call)
  BY <1>2, <1>3, <1>4, <1>5
<1>7. x % (2^W) = x /\ y % (2^W) = y
  <2>1. \A p \in Nat, k \in Nat : p < k => p % k = p
    OBVIOUS
  <2> QED BY <1>4, <1>6, <2>1, Zenon
<1>8. PTE_ADDR(y) = y
  BY <1>4, <1>5, RoundDown, Zenon
<1> DEFINE old == IF PDX(x) \in DOMAIN pde THEN pde[PDX(x)] ELSE {"W"}
           v   == old \cup (Perm(call) \cap {"U"})
<1>9. /\ pte' = Stored(pte, x, [pa |-> y, perm |-> Perm(call)])
      /\ pde' = Stored(pde, PDX(x), v)
  <2>1. /\ pte' = Stored(pte, x % (2^W), [pa |-> PTE_ADDR(y) % (2^W), perm |-> Perm(call)])
        /\ pde' = Stored(pde, PDX(x % (2^W)),
                         (IF PDX(x % (2^W)) \in DOMAIN pde THEN pde[PDX(x % (2^W))] ELSE {"W"})
                           \cup (Perm(call) \cap {"U"}))
    BY Zenon DEF MapPage, Base, Phys, Perm
  <2> QED BY <1>7, <1>8, <2>1, Zenon
<1>10. PDX(x) \notin DOMAIN pde \/ "W" \in pde[PDX(x)] => "W" \in v
  BY Zenon
<1>11. map_i' = map_i + PGSIZE /\ npages' = npages /\ call' = call
  BY Zenon DEF MapPage
<1>12. Addr(call, x)
  BY <1>6, Zenon DEF Addr
<1>13. MapsPage(x, v)
  BY <1>2, <1>5, <1>9, <1>10, <1>11, <1>12, Zenon DEF MapsPage
<1> QED BY <1>13, Zenon

\* The iteration preserves the invariant: what it maps over is not done.
LEMMA MapPageStep ==
  ASSUME MapInv, MapPage
  PROVE  MapInv'
<1>1. CountInv /\ MadeInv /\ DoneInv /\ DirInv /\ npages \in NPages /\ Sizes
  BY LayoutFacts, Zenon DEF MapInv, CountInv
<1>2. PICK x0, v : MapsPage(x0, v)
  BY <1>1, MapPageFacts, Zenon
<1>3. /\ call \in CallNos /\ Addr(call, x0) /\ Aligned(x0) /\ x0 = Base(call) + map_i
      /\ PDX(x0) \notin DOMAIN pde \/ "W" \in pde[PDX(x0)] => "W" \in v
      /\ map_i' = map_i + PGSIZE /\ npages' = npages /\ call' = call
  BY <1>2, Zenon DEF MapsPage
<1> DEFINE entry0 == [pa |-> Phys(call) + map_i, perm |-> Perm(call)]
<1>4. /\ DOMAIN pte' = DOMAIN pte \cup {x0} /\ pte'[x0] = entry0
      /\ \A y \in DOMAIN pte : y # x0 => pte'[y] = pte[y]
      /\ DOMAIN pde' = DOMAIN pde \cup {PDX(x0)} /\ pde'[PDX(x0)] = v
      /\ \A d \in DOMAIN pde : d # PDX(x0) => pde'[d] = pde[d]
  <2>1. pte' = Stored(pte, x0, entry0) /\ pde' = Stored(pde, PDX(x0), v)
    BY <1>2, Zenon DEF MapsPage
  <2> HIDE DEF entry0
  <2>2. /\ DOMAIN pte' = DOMAIN pte \cup {x0} /\ pte'[x0] = entry0
        /\ \A y \in DOMAIN pte : y # x0 => pte'[y] = pte[y]
    BY <2>1 DEF Stored
  <2>3. /\ DOMAIN pde' = DOMAIN pde \cup {PDX(x0)} /\ pde'[PDX(x0)] = v
        /\ \A d \in DOMAIN pde : d # PDX(x0) => pde'[d] = pde[d]
    BY <2>1 DEF Stored
  <2> QED BY <2>2, <2>3, Zenon
<1>5. entry0.pa = Phys(call) + map_i /\ entry0.perm = Perm(call)
  OBVIOUS
<1> HIDE DEF entry0
<1>6. /\ \A c : Base(c)' = Base(c) /\ Phys(c)' = Phys(c) /\ Perm(c)' = Perm(c)
      /\ \A c, x : Addr(c, x)' = Addr(c, x)
  BY <1>3, SameCalls, Zenon
<1>7. CountInv'
  <2>1. PGSIZE = 1 * PGSIZE /\ 1 \in Nat /\ PGSIZE \in Nat
    BY <1>1 DEF Sizes
  <2>2. Aligned(PGSIZE)
    BY <2>1, Zenon DEF Aligned
  <2>3. Aligned(map_i + PGSIZE)
    BY <1>1, <2>2, AlignedSum, Zenon DEF CountInv
  <2>4. Aligned(map_i')
    BY <1>3, <2>3, Zenon
  <2> QED BY <1>1, <1>3, <2>4, Zenon DEF CountInv, Aligned
<1>8. MadeInv'
  <2> SUFFICES ASSUME NEW y \in DOMAIN pte'
               PROVE  Aligned(y) /\ \E c \in CallNos : Addr(c, y) /\ pte'[y].perm = Perm(c)
    BY <1>6, Zenon DEF MadeInv, Aligned
  <2>1. CASE y = x0
    BY <1>3, <1>4, <1>5, <2>1, Zenon
  <2>2. CASE y # x0
    BY <1>1, <1>4, <2>2, Zenon DEF MadeInv
  <2> QED BY <2>1, <2>2, Zenon
<1>9. DoneInv'
  <2> SUFFICES ASSUME NEW c \in CallNos, NEW y, Done(c, y)'
               PROVE  y \in DOMAIN pte' /\ pte'[y].pa = Phys(c) + (y - Base(c))
    BY <1>6, Zenon DEF DoneInv
  <2>1. /\ Addr(c, y) /\ Aligned(y) /\ c # 2 /\ (c = 3 => y < IOMEMBASE)
        /\ c < call \/ (c = call /\ y < Base(c) + (map_i + PGSIZE))
    BY <1>3, <1>6, Zenon DEF Done, Aligned
  <2>2. Base(c) \in Nat /\ map_i \in Nat /\ y \in Nat /\ PGSIZE \in Nat /\ x0 \in Nat
    BY <1>1, <1>3, <2>1, EveryCall, Zenon DEF CountInv, Aligned, Sizes
  <2>3. CASE y = x0
    <3>1. c = call
      BY <1>1, <1>3, <2>1, <2>3, Apart, Zenon
    <3>2. y - Base(c) = map_i
      BY <1>3, <2>2, <2>3, <3>1
    <3> QED BY <1>4, <1>5, <2>3, <3>1, <3>2, Zenon
  <2>4. CASE y # x0
    <3>1. c = call => y < Base(c) + map_i
      <4>1. x0 < y => x0 + PGSIZE <= y
        BY <1>1, <1>3, <2>1, AlignedSum, Zenon
      <4>2. c = call /\ ~ (c < call) => y < x0 + PGSIZE
        BY <1>3, <2>1, <2>2
      <4>3. c = call => ~ (c < call)
        <5>1. NSTACKS \in Nat /\ c \in 1 .. 5 + NSTACKS
          BY LayoutFacts, Zenon DEF CallNos
        <5> QED BY <5>1
      <4>4. c = call => x0 = Base(c) + map_i
        BY <1>3, Zenon
      <4> QED BY <2>2, <2>4, <4>1, <4>2, <4>3, <4>4
    <3>2. Done(c, y)
      BY <2>1, <3>1, Zenon DEF Done
    <3> QED BY <1>1, <1>4, <2>4, <3>2, Zenon DEF DoneInv
  <2> QED BY <2>3, <2>4, Zenon
<1>10. DirInv'
  <2>1. \A y \in DOMAIN pte' : PDX(y) \in DOMAIN pde'
    BY <1>1, <1>4, Zenon DEF DirInv
  <2>2. \A d \in DOMAIN pde' : d # PDX(UVPT) => "W" \in pde'[d]
    BY <1>1, <1>3, <1>4, Zenon DEF DirInv
  <2> QED BY <2>1, <2>2, Zenon DEF DirInv, PDX, UVPT, ULIM, KSTACKTOP
<1> QED BY <1>7, <1>8, <1>9, <1>10, Zenon DEF MapInv

\* A return preserves it: the call that ends has done all of its pages.
LEMMA ReturnStep ==
  ASSUME MapInv, Return
  PROVE  MapInv'
<1>1. CountInv /\ MadeInv /\ DoneInv /\ DirInv /\ npages \in NPages /\ Sizes /\ NSTACKS \in Nat
  BY LayoutFacts, Zenon DEF MapInv, CountInv
<1>2. /\ call <= Len(Calls) /\ ~Covers(Calls[call]) /\ call' = call + 1 /\ map_i' = 0
      /\ npages' = npages /\ pde' = pde /\ pte' = pte
  BY Zenon DEF Return
<1>3. call \in CallNos /\ ~(map_i < Size(call))
  BY <1>1, <1>2, CallRuns, Zenon
<1>4. /\ \A c : Base(c)' = Base(c) /\ Phys(c)' = Phys(c) /\ Perm(c)' = Perm(c)
      /\ \A c, x : Addr(c, x)' = Addr(c, x)
  BY <1>2, SameCalls, Zenon
<1>5. CountInv'
  <2>1. call + 1 \in 1 .. 6 + NSTACKS /\ 0 \in Nat /\ 0 = 0 * PGSIZE
    BY <1>1, <1>3 DEF CallNos, Sizes
  <2> QED BY <1>1, <1>2, <2>1, Zenon DEF CountInv, Aligned
<1>6. MadeInv'
  BY <1>1, <1>2, <1>4, Zenon DEF MadeInv, Aligned
<1>7. DoneInv'
  <2> SUFFICES ASSUME NEW c \in CallNos, NEW y, Done(c, y)'
               PROVE  y \in DOMAIN pte /\ pte[y].pa = Phys(c) + (y - Base(c))
    BY <1>2, <1>4, Zenon DEF DoneInv
  <2>1. /\ Addr(c, y) /\ Aligned(y) /\ c # 2 /\ (c = 3 => y < IOMEMBASE)
        /\ c < call + 1 \/ (c = call + 1 /\ y < Base(c) + 0)
    BY <1>2, <1>4, Zenon DEF Done, Aligned
  <2>2. /\ Base(c) \in Nat /\ Size(c) \in Nat /\ map_i \in Nat /\ y \in Nat
        /\ Base(c) <= y /\ y < Base(c) + Size(c)
    BY <1>1, <2>1, EveryCall, Zenon DEF CountInv, Aligned, Addr
  <2>3. c < call \/ c = call
    BY <1>1, <1>3, <2>1, <2>2 DEF CallNos
  <2>4. c = call => y < Base(c) + map_i
    <3>1. c = call => ~(map_i < Size(c))
      BY <1>3, Zenon
    <3> QED BY <2>2, <3>1
  <2>5. Done(c, y)
    BY <2>1, <2>3, <2>4, Zenon DEF Done
  <2> QED BY <1>1, <2>5, Zenon DEF DoneInv
<1>8. DirInv'
  BY <1>1, <1>2, Zenon DEF DirInv, PDX, UVPT, ULIM, KSTACKTOP
<1> QED BY <1>5, <1>6, <1>7, <1>8, Zenon DEF MapInv

\* The invariant holds at all times while mem_init() maps the kernel.
THEOREM InvarianceMap == SpecMap => []MapInv
<1>1. MapInv /\ [NextMap]_varsMap => MapInv'
  <2> SUFFICES ASSUME MapInv, [NextMap]_varsMap PROVE MapInv'
    BY Zenon
  <2>1. CASE UNCHANGED varsMap
    <3>1. npages' = npages /\ call' = call /\ map_i' = map_i /\ pde' = pde /\ pte' = pte
      BY <2>1, Zenon DEF varsMap
    <3>2. /\ \A c : Base(c)' = Base(c) /\ Phys(c)' = Phys(c) /\ Perm(c)' = Perm(c)
          /\ \A c, x : Addr(c, x)' = Addr(c, x)
      BY <3>1, SameCalls, Zenon
    <3>3. CountInv' /\ MadeInv'
      BY <3>1, <3>2, Zenon DEF MapInv, CountInv, MadeInv, Aligned
    <3>4. \A c, x : Done(c, x)' => Done(c, x)
      BY <3>1, <3>2, Zenon DEF Done, Aligned
    <3>5. DoneInv'
      BY <3>1, <3>2, <3>4, Zenon DEF MapInv, DoneInv
    <3>6. DirInv'
      BY <3>1, Zenon DEF MapInv, DirInv, PDX, UVPT, ULIM, KSTACKTOP
    <3> QED BY <3>3, <3>5, <3>6, Zenon DEF MapInv
  <2> QED BY <2>1, MapPageStep, ReturnStep, Zenon DEF NextMap
<1> QED BY <1>1, InitMapInv, PTL DEF SpecMap

\* The space around the stacks is never mapped (inc/memlayout.h).
LEMMA GapsUnmapped ==
  MapInv => InvalidUnmapped
<1> SUFFICES ASSUME MapInv, NEW va \in DOMAIN pte
             PROVE  /\ va \notin KSTACKTOP .. KERNBASE - 1
                    /\ \A n \in 0 .. NSTACKS - 1 :
                         LET bottom == KSTACKTOP - n * (KSTKSIZE + KSTKGAP) - KSTKSIZE
                         IN  va \notin bottom - KSTKGAP .. bottom - 1
  BY Zenon DEF InvalidUnmapped
<1>1. npages \in NPages
  BY Zenon DEF MapInv, CountInv
<1>2. PICK c \in CallNos : Addr(c, va)
  BY Zenon DEF MapInv, MadeInv
<1>3. /\ va \in Nat /\ KERNBASE \in Nat /\ IOMEMBASE \in Nat /\ KERNBASE <= IOMEMBASE /\ PTSIZE \in Nat
      /\ KSTKSIZE \in Nat /\ KSTKGAP \in Nat
  BY <1>2, LayoutFacts, Zenon DEF Addr
<1>4. /\ UPAGES \in Nat /\ UVPT \in Nat /\ ULIM \in Nat /\ KSTACKTOP \in Nat
      /\ UPAGES + PTSIZE = UVPT /\ UVPT + PTSIZE = ULIM /\ ULIM + PTSIZE = KSTACKTOP /\ KSTACKTOP + PTSIZE = KERNBASE
  BY Landmarks, Zenon
<1>5. \/ va < ULIM
      \/ KERNBASE <= va
      \/ va < KSTACKTOP /\ \E p \in Stacks : KstackVA(p) <= va /\ va < KstackVA(p) + KSTKSIZE
  <2>1. CASE c = 1 \/ c = 4
    <3>1. va < UVPT \/ va < UPAGES
      BY <1>1, <1>2, <2>1, AddrKinds, Zenon
    <3> QED BY <1>3, <1>4, <3>1
  <2>2. CASE c = 3 \/ c = 5
    <3>1. KERNBASE <= va \/ IOMEMBASE <= va
      BY <1>1, <1>2, <2>2, AddrKinds, Zenon
    <3> QED BY <1>3, <3>1
  <2>3. CASE c = 2 \/ \E n \in Stacks : c = 6 + n
    BY <1>1, <1>2, <2>3, AddrKinds, CallKinds, Zenon
  <2> QED BY <2>1, <2>2, <2>3, CallKinds, Zenon
<1>6. va \notin KSTACKTOP .. KERNBASE - 1
  BY <1>3, <1>4, <1>5
<1>7. ASSUME NEW n \in 0 .. NSTACKS - 1
      PROVE  va \notin KSTACKTOP - n * (KSTKSIZE + KSTKGAP) - KSTKSIZE - KSTKGAP ..
                         KSTACKTOP - n * (KSTKSIZE + KSTKGAP) - KSTKSIZE - 1
  <2>1. PICK b \in Nat : b = KstackVA(n) /\ b = KSTACKTOP - n * (KSTKSIZE + KSTKGAP) - KSTKSIZE /\ ULIM + KSTKGAP <= b
                          /\ b + KSTKSIZE <= KSTACKTOP
    BY StackPlaces, Zenon DEF Stacks
  <2>2. ASSUME NEW p \in Stacks, KstackVA(p) <= va, va < KstackVA(p) + KSTKSIZE
        PROVE  b <= va \/ va < b - KSTKGAP
    <3>1. /\ n < p => KstackVA(p) + KSTKSIZE + KSTKGAP <= b
          /\ p < n => b + KSTKSIZE + KSTKGAP <= KstackVA(p)
          /\ p = n => KstackVA(p) = b
      BY <2>1, StackPlaces, Zenon DEF Stacks
    <3>2. n \in Nat /\ p \in Nat /\ KstackVA(p) \in Nat
      BY StackPlaces, CallKinds, Zenon DEF Stacks
    <3>3. n < p \/ p < n \/ p = n
      BY <3>2
    <3> QED BY <1>3, <2>1, <2>2, <3>1, <3>2, <3>3
  <2>3. b <= va \/ va < b - KSTKGAP
    BY <1>3, <1>4, <1>5, <2>1, <2>2
  <2>4. va \notin b - KSTKGAP .. b - 1
    BY <1>3, <2>1, <2>3
  <2> QED BY <2>1, <2>4
<1> QED BY <1>6, <1>7, Zenon

\* Programs may read pages[] and envs[] and nothing else of the kernel.
LEMMA ArraysReadable ==
  MapInv => UserReadsArrays
<1> SUFFICES ASSUME MapInv, NEW va \in DOMAIN pte, "U" \in pte[va].perm
             PROVE  /\ va \in Pages(UPAGES, npages * SizeofPage) \cup Pages(UENVS, EnvsSize)
                    /\ "W" \notin pte[va].perm
  BY Zenon DEF UserReadsArrays
<1>1. npages \in NPages /\ Aligned(va) /\ Sizes
  BY LayoutFacts, Zenon DEF MapInv, CountInv, MadeInv
<1>2. PICK c \in CallNos : Addr(c, va) /\ pte[va].perm = Perm(c)
  BY Zenon DEF MapInv, MadeInv
<1>3. c = 1 \/ c = 4
  <2>1. "U" \notin {"W"}
    OBVIOUS
  <2>2. Perm(2) = {"W"} /\ Perm(3) = {"W"} /\ Perm(5) = {"W"} /\ \A n \in Stacks : Perm(6 + n) = {"W"}
    BY <1>1, CallPlaces, Zenon
  <2> QED BY <1>2, <2>1, <2>2, CallKinds, Zenon
<1>4. Perm(c) = {"U"}
  BY <1>1, <1>3, CallPlaces, Zenon
<1>5. ASSUME NEW s \in Nat, Size(c) = ROUNDUP(s), Aligned(Base(c)) PROVE va \in Pages(Base(c), s)
  <2>1. va \in Nat /\ Base(c) \in Nat /\ Base(c) <= va /\ va < Base(c) + ROUNDUP(s)
    BY <1>2, <1>5, Zenon DEF Addr, Aligned
  <2>2. Aligned(va - Base(c))
    BY <1>1, <1>5, <2>1, AlignedSum, Zenon
  <2>3. s <= va - Base(c) => ROUNDUP(s) <= va - Base(c)
    BY <1>1, <2>2, RoundUp, Zenon
  <2>4. ROUNDUP(s) \in Nat
    BY <1>1, RoundUp, Zenon DEF Aligned
  <2>5. va \in Base(c) .. Base(c) + s - 1
    BY <2>1, <2>3, <2>4
  <2>6. va % PGSIZE = 0
    BY <1>1, <2>1, AlignedMod, Zenon
  <2> QED BY <2>5, <2>6, Zenon DEF Pages
<1>6. Aligned(UPAGES) /\ Aligned(UENVS) /\ EnvsSize \in Nat /\ npages * SizeofPage \in Nat
  BY <1>1, Landmarks, LayoutFacts, CallPlaces, Zenon
<1>7. c = 1 => va \in Pages(UPAGES, npages * SizeofPage)
  BY <1>1, <1>5, <1>6, CallPlaces, Zenon
<1>8. c = 4 => va \in Pages(UENVS, EnvsSize)
  BY <1>1, <1>5, <1>6, CallPlaces, Zenon
<1>9. "W" \notin pte[va].perm
  BY <1>2, <1>4
<1> QED BY <1>3, <1>7, <1>8, <1>9, Zenon

\* When all calls have returned, an address of a call is mapped as the call says.
LEMMA MappedAt ==
  ASSUME MapInv, call > Len(Calls), NEW c \in CallNos, c # 2, NEW a \in Nat, Aligned(a), a < Size(c),
         c = 3 => KERNBASE + a < IOMEMBASE
  PROVE  Base(c) + a \in DOMAIN pte /\ va2pa(Base(c) + a) = Phys(c) + a
<1>1. /\ npages \in NPages /\ call \in 1 .. 6 + NSTACKS /\ Len(Calls) = 5 + NSTACKS /\ NSTACKS \in Nat /\ Sizes
      /\ Base(3) = KERNBASE
  BY CallList, CallPlaces, LayoutFacts, Zenon DEF MapInv, CountInv
<1>2. Aligned(Base(c)) /\ Aligned(Size(c))
  BY <1>1, EveryCall, Zenon
<1>3. Aligned(Base(c) + a) /\ Base(c) \in Nat /\ Size(c) \in Nat
  <2>1. Aligned(Base(c) + a)
    BY <1>1, <1>2, AlignedSum, Zenon
  <2> QED BY <1>2, <2>1, Zenon DEF Aligned
<1>4. c < call
  BY <1>1 DEF CallNos
<1>5. Base(c) + a \in Nat /\ Base(c) <= Base(c) + a /\ Base(c) + a < Base(c) + Size(c) /\ (Base(c) + a) - Base(c) = a
  BY <1>3
<1>6. Done(c, Base(c) + a)
  BY <1>1, <1>3, <1>4, <1>5, Zenon DEF Done, Addr
<1>7. Base(c) + a \in DOMAIN pte /\ pte[Base(c) + a].pa = Phys(c) + a
  BY <1>5, <1>6, Zenon DEF MapInv, DoneInv
<1> QED BY <1>7, Zenon DEF va2pa

\* The pages of a range are whole pages in it.
LEMMA PageFacts ==
  ASSUME Sizes, NEW b \in Nat, NEW s \in Nat, NEW a \in Pages(b, s)
  PROVE  a \in Nat /\ Aligned(a) /\ b <= a /\ a < b + s
<1>1. a \in b .. b + s - 1 /\ a % PGSIZE = 0
  BY Zenon DEF Pages
<1>2. a \in Nat /\ b <= a /\ a < b + s
  BY <1>1
<1> QED BY <1>1, <1>2, AlignedMod, Zenon

\* What check_kern_pgdir() asserts then holds.
LEMMA CheckPasses ==
  MapInv => KernPgdirChecked
<1> SUFFICES ASSUME MapInv, call > Len(Calls) PROVE KernPgdirChecked
  BY Zenon DEF KernPgdirChecked
<1>1. npages \in NPages /\ Sizes /\ {1, 2, 3, 4, 5} \subseteq CallNos
  BY LayoutFacts, CallKinds, Zenon DEF MapInv, CountInv
<1>2. /\ 2^W \in Nat /\ KERNBASE \in Nat /\ IOMEMBASE \in Nat /\ PTSIZE \in Nat /\ PGSIZE \in Nat /\ KSTKSIZE \in Nat
      /\ KERNBASE <= IOMEMBASE /\ IOMEMBASE + PTSIZE <= 2^W /\ 0 < PTSIZE
  <2>1. 0 < PTSIZE
    BY LayoutFacts DEF Sizes
  <2> QED BY <2>1, LayoutFacts, Zenon DEF Sizes
<1>3. 0 \in Nat /\ \A x \in Nat : 0 + x = x
  OBVIOUS
<1>4. ASSUME NEW a \in Pages(0, ROUNDUP(npages * SizeofPage)) PROVE va2pa(UPAGES + a) = PagesPA + a
  <2>1. Size(1) \in Nat /\ Size(1) = ROUNDUP(npages * SizeofPage) /\ Base(1) = UPAGES /\ Phys(1) = PagesPA
    BY <1>1, CallPlaces, Zenon DEF Aligned
  <2>2. a \in Nat /\ Aligned(a) /\ a < Size(1)
    BY <1>1, <1>3, <2>1, PageFacts, Zenon
  <2>3. 1 \in CallNos /\ 1 # 2 /\ 1 # 3
    BY <1>1
  <2> QED BY <2>1, <2>2, <2>3, MappedAt, Zenon
<1>5. ASSUME NEW a \in Pages(0, ROUNDUP(EnvsSize)) PROVE va2pa(UENVS + a) = EnvsPA + a
  <2>1. Size(4) \in Nat /\ Size(4) = ROUNDUP(EnvsSize) /\ Base(4) = UENVS /\ Phys(4) = EnvsPA
    BY <1>1, CallPlaces, Zenon DEF Aligned
  <2>2. a \in Nat /\ Aligned(a) /\ a < Size(4)
    BY <1>1, <1>3, <2>1, PageFacts, Zenon
  <2>3. 4 \in CallNos /\ 4 # 2 /\ 4 # 3
    BY <1>1
  <2> QED BY <2>1, <2>2, <2>3, MappedAt, Zenon
<1>6. ASSUME NEW a \in Nat, Aligned(a), KERNBASE + a < IOMEMBASE
      PROVE  KERNBASE + a \in DOMAIN pte /\ va2pa(KERNBASE + a) = a
  <2>1. Size(3) = 2^W - KERNBASE /\ Base(3) = KERNBASE /\ Phys(3) = 0
    BY <1>1, CallPlaces, Zenon
  <2>2. a < 2^W - KERNBASE
    BY <1>2, <1>6
  <2>3. 3 \in CallNos /\ 3 # 2
    BY <1>1
  <2>4. KERNBASE + a \in DOMAIN pte /\ va2pa(KERNBASE + a) = 0 + a
    BY <1>6, <2>1, <2>2, <2>3, MappedAt, Zenon
  <2> QED BY <1>3, <2>4, Zenon
<1>7. ASSUME NEW a \in Pages(0, npages * PGSIZE) PROVE va2pa(KERNBASE + a) = a
  <2>1. npages \in Nat /\ npages * PGSIZE <= IOMEMBASE - KERNBASE
    BY <1>1, KernMapAssumption, Zenon
  <2>2. npages * PGSIZE \in Nat
    BY <1>2, <2>1
  <2>3. a \in Nat /\ Aligned(a) /\ a < npages * PGSIZE
    BY <1>1, <1>3, <2>2, PageFacts, Zenon
  <2>4. KERNBASE + a < IOMEMBASE
    BY <1>2, <2>1, <2>2, <2>3
  <2> QED BY <1>6, <2>3, <2>4, Zenon
<1>8. ASSUME NEW a \in Nat, Aligned(a), IOMEMBASE <= a, a < 2^W
      PROVE  a \in DOMAIN pte /\ va2pa(a) = IOMEM_PADDR + a - IOMEMBASE
  <2>1. Size(5) = 2^W - IOMEMBASE /\ Base(5) = IOMEMBASE /\ Phys(5) = IOMEM_PADDR
    BY <1>1, CallPlaces, Zenon
  <2>2. a - IOMEMBASE \in Nat /\ a - IOMEMBASE < 2^W - IOMEMBASE /\ IOMEMBASE + (a - IOMEMBASE) = a
    BY <1>2, <1>8
  <2>3. Aligned(a - IOMEMBASE)
    BY <1>1, <1>8, AlignedSum, LayoutFacts, Zenon
  <2>4. 5 \in CallNos /\ 5 # 2 /\ 5 # 3
    BY <1>1
  <2>5. a \in DOMAIN pte /\ va2pa(a) = IOMEM_PADDR + (a - IOMEMBASE)
    BY <2>1, <2>2, <2>3, <2>4, MappedAt, Zenon
  <2>6. IOMEM_PADDR \in Nat
    BY KernMapAssumption, Zenon
  <2>7. IOMEM_PADDR + (a - IOMEMBASE) = IOMEM_PADDR + a - IOMEMBASE
    BY <1>2, <2>6
  <2> QED BY <2>5, <2>7, Zenon
<1>9. ASSUME NEW a \in Pages(IOMEMBASE, 2^W - IOMEMBASE) PROVE va2pa(a) = IOMEM_PADDR + a - IOMEMBASE
  <2>1. 2^W - IOMEMBASE \in Nat /\ IOMEMBASE + (2^W - IOMEMBASE) = 2^W
    BY <1>2
  <2> QED BY <1>1, <1>2, <1>8, <2>1, PageFacts, Zenon
<1>10. ASSUME NEW n \in 0 .. NSTACKS - 1, NEW a \in Pages(0, KSTKSIZE)
       PROVE  va2pa(KSTACKTOP - (KSTKSIZE + KSTKGAP) * (n + 1) + KSTKGAP + a) = KstacksPA + n * KSTKSIZE + a
  <2>1. n \in Stacks /\ 6 + n \in CallNos /\ n \in Nat
    BY CallKinds, Zenon DEF Stacks
  <2>2. Base(6 + n) = KstackVA(n) /\ Phys(6 + n) = KstacksPA + n * KSTKSIZE /\ Size(6 + n) = KSTKSIZE
    BY <1>1, <2>1, CallPlaces, Zenon
  <2>3. a \in Nat /\ Aligned(a) /\ a < KSTKSIZE
    BY <1>1, <1>2, <1>3, PageFacts, Zenon
  <2>4. 6 + n # 2 /\ 6 + n # 3
    BY <2>1
  <2>5. va2pa(KstackVA(n) + a) = KstacksPA + n * KSTKSIZE + a
    BY <2>1, <2>2, <2>3, <2>4, MappedAt, Zenon
  <2>6. KSTKGAP \in Nat /\ KSTACKTOP \in Nat
    BY LayoutFacts, Landmarks, Zenon
  <2>7. KSTACKTOP - (KSTKSIZE + KSTKGAP) * (n + 1) + KSTKGAP = KstackVA(n)
    BY <1>2, <2>1, <2>6 DEF KstackVA
  <2> QED BY <2>5, <2>7, Zenon
<1>11. ASSUME NEW d \in PDX(KERNBASE) .. PDX(MAX) PROVE d \in DOMAIN pde /\ "W" \in pde[d]
  <2>1. PICK k \in Nat, j \in Nat : KERNBASE = k * PTSIZE /\ 2^W = j * PTSIZE
    <3>1. KERNBASE % PTSIZE = 0 /\ 2^W % PTSIZE = 0
      BY KernMapAssumption, Zenon
    <3>2. (\E k \in Nat : KERNBASE = k * PTSIZE) /\ \E j \in Nat : 2^W = j * PTSIZE
      <4>1. PTSIZE > 0
        BY <1>2
      <4> QED BY <1>2, <3>1, <4>1, WholeTables, Zenon
    <3> QED BY <3>2, Zenon
  <2>2. PDX(KERNBASE) = k /\ PDX(MAX) = j - 1 /\ PDX(UVPT) < k
    <3>1. \A x, q, y \in Nat : 0 < q /\ y < q => (x * q + y) \div q = x
      OBVIOUS
    <3>2. k * PTSIZE + 0 = KERNBASE /\ 0 < PTSIZE /\ 0 \in Nat
      BY <1>2, <2>1
    <3>3. j - 1 \in Nat /\ PTSIZE - 1 \in Nat /\ PTSIZE - 1 < PTSIZE /\ (j - 1) * PTSIZE + (PTSIZE - 1) = MAX
      BY <1>2, <2>1 DEF MAX
    <3>4. UVPT \in Nat /\ UVPT < KERNBASE
      BY <1>2, Landmarks
    <3>5. \A x, q, y \in Nat : 0 < q /\ y < x * q => y \div q < x
      OBVIOUS
    <3>6. PDX(KERNBASE) = k
      BY <1>2, <2>1, <3>1, <3>2, Zenon DEF PDX
    <3>7. PDX(MAX) = j - 1
      BY <1>2, <3>1, <3>2, <3>3, Zenon DEF PDX
    <3>8. PDX(UVPT) < k
      BY <1>2, <2>1, <3>2, <3>4, <3>5, Zenon DEF PDX
    <3> QED BY <3>6, <3>7, <3>8, Zenon
  <2>3. d \in Nat /\ k <= d /\ d < j /\ d # PDX(UVPT)
    <3>1. UVPT \in Nat
      BY Landmarks, Zenon
    <3>2. PDX(UVPT) \in Nat
      BY <1>2, <3>1 DEF PDX
    <3> QED BY <2>1, <2>2, <3>2
  <2>4. d * PTSIZE \in Nat /\ KERNBASE <= d * PTSIZE /\ d * PTSIZE < 2^W /\ PDX(d * PTSIZE) = d
    <3>1. \A x, y, q \in Nat : x <= y => x * q <= y * q
      OBVIOUS
    <3>2. \A x, y, q \in Nat : x < y /\ 0 < q => x * q < y * q
      OBVIOUS
    <3>3. \A x, q \in Nat : 0 < q => (x * q) \div q = x /\ x * q \in Nat
      OBVIOUS
    <3>4. KERNBASE <= d * PTSIZE
      BY <1>2, <2>1, <2>3, <3>1, Zenon
    <3>5. d * PTSIZE < 2^W
      BY <1>2, <2>1, <2>3, <3>2, Zenon
    <3>6. d * PTSIZE \in Nat /\ (d * PTSIZE) \div PTSIZE = d
      BY <1>2, <2>3, <3>3, Zenon
    <3> QED BY <3>4, <3>5, <3>6, Zenon DEF PDX
  <2>5. Aligned(d * PTSIZE)
    BY <1>1, <2>3, AlignedTimes, LayoutFacts, Zenon
  <2>6. d * PTSIZE \in DOMAIN pte
    <3>1. CASE IOMEMBASE <= d * PTSIZE
      BY <1>8, <2>4, <2>5, <3>1, Zenon
    <3>2. CASE d * PTSIZE < IOMEMBASE
      <4>1. d * PTSIZE - KERNBASE \in Nat /\ KERNBASE + (d * PTSIZE - KERNBASE) = d * PTSIZE
        BY <1>2, <2>4
      <4>2. Aligned(d * PTSIZE - KERNBASE)
        BY <1>1, <2>4, <2>5, AlignedSum, LayoutFacts, Zenon
      <4> QED BY <1>6, <3>2, <4>1, <4>2, Zenon
    <3>3. IOMEMBASE <= d * PTSIZE \/ d * PTSIZE < IOMEMBASE
      BY <1>2, <2>4
    <3> QED BY <3>1, <3>2, <3>3, Zenon
  <2> QED BY <2>3, <2>4, <2>6, Zenon DEF MapInv, DirInv
<1>12. \A n \in 0 .. NSTACKS - 1, a \in Pages(0, KSTKSIZE) :
         va2pa(KSTACKTOP - (KSTKSIZE + KSTKGAP) * (n + 1) + KSTKGAP + a) = KstacksPA + n * KSTKSIZE + a
  BY <1>10, Zenon
<1>13. \A d \in PDX(KERNBASE) .. PDX(MAX) : d \in DOMAIN pde /\ "W" \in pde[d]
  BY <1>11, Zenon
<1> QED BY <1>4, <1>5, <1>7, <1>9, <1>12, <1>13, Zenon DEF KernPgdirChecked

\* The calls map nothing below UENVS, and each page has its page table.
LEMMA KernelPart ==
  MapInv => TypeOKMap
<1> SUFFICES ASSUME MapInv, NEW va \in DOMAIN pte
             PROVE  va \in Pages(UENVS, 2^W - UENVS) /\ PDX(va) \in DOMAIN pde
  BY Zenon DEF TypeOKMap
<1>1. npages \in NPages /\ Aligned(va) /\ Sizes /\ PDX(va) \in DOMAIN pde
  BY LayoutFacts, Zenon DEF MapInv, CountInv, MadeInv, DirInv
<1>2. PICK c \in CallNos : Addr(c, va)
  BY Zenon DEF MapInv, MadeInv
<1>3. UENVS <= Base(c) /\ Base(c) + Size(c) <= 2^W /\ Aligned(Base(c)) /\ Aligned(Size(c))
  BY <1>1, EveryCall, Zenon
<1>4. va \in Nat /\ Base(c) <= va /\ va < Base(c) + Size(c) /\ Base(c) \in Nat /\ Size(c) \in Nat
  BY <1>2, <1>3, Zenon DEF Addr, Aligned
<1>5. UENVS \in Nat /\ 2^W \in Nat
  BY Landmarks, LayoutFacts, Zenon
<1>6. va \in UENVS .. UENVS + (2^W - UENVS) - 1
  BY <1>3, <1>4, <1>5
<1>7. va % PGSIZE = 0
  BY <1>1, <1>4, AlignedMod, Zenon
<1> QED BY <1>1, <1>6, <1>7, Zenon DEF Pages

\* While mem_init() maps the kernel, every entry lies in the kernel's part of the
\* address space and has a page table.
THEOREM TypeCorrectMap == SpecMap => []TypeOKMap
  BY InvarianceMap, KernelPart, PTL

\* For every layout, number of pages and number of stacks that fits: the map that
\* mem_init() and mem_init_mp() build passes check_kern_pgdir(), leaves the gaps
\* around the stacks unmapped and lets programs read two arrays only.
THEOREM KernelIsMapped == SpecMap => []KernelMapped
<1>1. MapInv => KernelMapped
  BY CheckPasses, GapsUnmapped, ArraysReadable, Zenon DEF KernelMapped
<1> QED BY <1>1, InvarianceMap, PTL

-----------------------------------------------------------------------------
(* Bringing up the processors                                               *)

\* Where an AP is before and after it has reported.
Reported == {"locking", "sched_yield", "user"}

APs == AllCpus \ {Bsp}

\* mp_init() numbers the processors in the order of the table.
ScanInv ==
  /\ NCPU \in Nat \ {0} /\ conf \in Tables \cup {NoTable}
  /\ Bsp = 0 /\ Bsp \in AllCpus /\ AllCpus \subseteq Nat
  /\ ncpu \in 0 .. NCPU /\ bootcpu = 0
  /\ ismp => conf # NoTable
  /\ \A k \in 0 .. NCPU - 1 : k < ncpu \/ k = 0 => cpu_id[k] = k
  /\ DOMAIN cpu_id = 0 .. NCPU - 1

\* While it does, the APs have not been started.
BeforeInv ==
  bsp \in {"mp_init", "locking"} =>
    /\ boot_c = 0 /\ lock = None /\ \A p \in APs : ap[p] = "halted"
    /\ bsp = "mp_init" =>
         /\ entry \in Nat /\ entry > 0 /\ conf # NoTable
         /\ \A k \in DOMAIN conf : k >= entry /\ Proc(conf[k]) /\ conf[k].boot => ncpu = 0

\* boot_aps() starts the processors one by one under the lock.
StartInv ==
  /\ bsp \in {"mp_init", "locking", "boot_aps", "wait", "sched_yield", "user"}
  /\ boot_c \in Nat
  /\ ~ismp /\ bsp # "mp_init" => ncpu <= 1
  /\ bsp = "wait" => boot_c # 0 /\ boot_c < ncpu /\ ismp
  /\ bsp \in {"boot_aps", "wait", "sched_yield"} => lock = 0
  /\ bsp \in {"sched_yield", "user"} => envs
  /\ \A k \in status : k = 0 \/ (k \in APs /\ ap[k] \in Reported)

\* An AP and the boot processor: what has been set up for it at each place.
ApOf(p) ==
  /\ ap[p] \in {"halted", "mpentry", "mp_main"} \cup Reported
  /\ ap[p] # "halted" => ismp /\ p < ncpu /\ p <= boot_c
  /\ ap[p] \in {"halted", "mpentry"} => stack[p] = None
  /\ ap[p] \notin {"halted", "mpentry"} => stack[p] = p
  /\ ap[p] \in Reported => tss[p] = p
  /\ ap[p] \notin Reported /\ p < NCPU => tss[p] = None
  /\ ap[p] \in {"mpentry", "mp_main"} => bsp = "wait" /\ boot_c = p /\ mpentry_kstack = p
  /\ p = boot_c /\ bsp # "wait" => ap[p] = "halted"
  /\ ap[p] \in {"sched_yield", "user"} => bsp = "user"
  /\ ap[p] = "sched_yield" => lock = p

BInv ==
  /\ ScanInv /\ BeforeInv /\ StartInv
  /\ ap \in [APs -> {"halted", "mpentry", "mp_main"} \cup Reported]
  /\ DOMAIN stack = AllCpus /\ DOMAIN tss = 0 .. NCPU - 1
  /\ \A p \in APs : ApOf(p)

\* The boot processor has the number 0.
LEMMA BspIs ==
  ASSUME BootAssumption, BootFirst, conf \in Tables \cup {NoTable}
  PROVE  Bsp = 0 /\ Bsp \in AllCpus /\ AllCpus \subseteq Nat
<1>1. CASE conf = NoTable
  BY <1>1 DEF Bsp, AllCpus
<1>2. CASE conf # NoTable
  <2>1. PICK b \in DOMAIN conf :
          /\ Proc(conf[b]) /\ conf[b].boot /\ conf[b].id = 0
          /\ \A k \in DOMAIN conf :
               Proc(conf[k]) /\ k # b => b < k /\ ~conf[k].boot /\ conf[k].id # 0
    BY <1>2, Zenon DEF BootFirst
  <2>2. Boots(conf) = 0
    <3>1. PICK n : n = CHOOSE k \in DOMAIN conf : Proc(conf[k]) /\ conf[k].boot
      BY Zenon
    <3>2. n \in DOMAIN conf /\ Proc(conf[n]) /\ conf[n].boot
      BY <2>1, <3>1, Zenon
    <3>3. n = b
      BY <2>1, <3>2, Zenon
    <3> QED BY <2>1, <3>1, <3>3, Zenon DEF Boots
  <2>3. 0 \in Listed(conf)
    BY <2>1, Zenon DEF Listed
  <2>4. \A k \in DOMAIN conf : Proc(conf[k]) => conf[k].id \in Nat
    BY <1>2, Zenon DEF BootAssumption
  <2>5. Listed(conf) \subseteq Nat
    BY <2>4, Zenon DEF Listed
  <2> QED BY <1>2, <2>2, <2>3, <2>5, Zenon DEF Bsp, AllCpus
<1> QED BY <1>1, <1>2, Zenon

\* The machine comes up with all processors but one halted.
LEMMA BInit ==
  ASSUME BootAssumption, BootFirst, InitBoot
  PROVE  BInv
<1>1. conf \in Tables \cup {NoTable}
  BY Zenon DEF InitBoot
<1>2. Bsp = 0 /\ Bsp \in AllCpus /\ AllCpus \subseteq Nat
  BY <1>1, BspIs, Zenon
<1>3. NCPU \in Nat \ {0}
  BY Zenon DEF BootAssumption
<1>4. ScanInv
  <2>1. ismp => conf # NoTable
    BY Zenon DEF InitBoot
  <2>2. /\ ncpu \in 0 .. NCPU /\ bootcpu = 0
        /\ \A k \in 0 .. NCPU - 1 : k < ncpu \/ k = 0 => cpu_id[k] = k
    BY <1>3 DEF InitBoot
  <2>3. DOMAIN cpu_id = 0 .. NCPU - 1
    BY Zenon DEF InitBoot
  <2> QED BY <1>1, <1>2, <1>3, <2>1, <2>2, <2>3, Zenon DEF ScanInv
<1>5. BeforeInv /\ StartInv
  BY <1>2, <1>3 DEF InitBoot, BeforeInv, StartInv, APs
<1>6. /\ ap \in [APs -> {"halted", "mpentry", "mp_main"} \cup Reported]
      /\ DOMAIN stack = AllCpus /\ DOMAIN tss = 0 .. NCPU - 1
  BY Zenon DEF InitBoot, APs
<1>7. ASSUME NEW p \in APs PROVE ApOf(p)
  BY <1>2, <1>3, <1>7 DEF InitBoot, ApOf, APs, Reported, None
<1> QED BY <1>4, <1>5, <1>6, <1>7, Zenon DEF BInv

\* The processors are those of the table.
LEMMA SameCpus ==
  ASSUME conf' = conf
  PROVE  APs' = APs /\ Bsp' = Bsp /\ AllCpus' = AllCpus
BY Zenon DEF APs, Bsp, AllCpus

\* mp_init()
LEMMA ScanSteps ==
  ASSUME BootAssumption, BootFirst, BInv,
         EntryProc \/ EntryOther \/ EntryUnknown \/ MpInitDone
  PROVE  BInv'
<1>1. /\ conf' = conf /\ boot_c' = boot_c /\ mpentry_kstack' = mpentry_kstack /\ ap' = ap
      /\ stack' = stack /\ tss' = tss /\ lock' = lock /\ envs' = envs /\ bsp = "mp_init"
  BY Zenon DEF EntryProc, EntryOther, EntryUnknown, MpInitDone, Scanning
<1>2. APs' = APs /\ Bsp' = Bsp /\ AllCpus' = AllCpus
  BY <1>1, SameCpus, Zenon
<1>3. /\ boot_c = 0 /\ lock = None /\ \A p \in APs : ap[p] = "halted"
      /\ entry \in Nat /\ entry > 0 /\ conf # NoTable
      /\ \A k \in DOMAIN conf : k >= entry /\ Proc(conf[k]) /\ conf[k].boot => ncpu = 0
  BY <1>1, Zenon DEF BInv, BeforeInv
<1>4. /\ NCPU \in Nat \ {0} /\ conf \in Tables \cup {NoTable}
      /\ ncpu \in 0 .. NCPU /\ bootcpu = 0
  BY Zenon DEF BInv, ScanInv
<1>5. Len(conf) \in Nat /\ DOMAIN conf = 1 .. Len(conf)
  BY <1>3, <1>4, Zenon DEF BootAssumption
<1>6. CASE EntryProc
  <2>1. /\ entry' = entry + 1 /\ entry \in DOMAIN conf /\ Proc(conf[entry])
        /\ ismp' = ismp /\ status' = status /\ bsp' = bsp
        /\ bootcpu' = IF IsBoot(conf[entry]) THEN ncpu ELSE bootcpu
    BY <1>3, <1>5, <1>6 DEF EntryProc, Scanning
  <2>2. bootcpu' = 0
    <3>1. IsBoot(conf[entry]) => ncpu = 0
      BY <1>3, <2>1 DEF IsBoot
    <3> QED BY <1>4, <2>1, <3>1, Zenon
  <2>3. \A k \in DOMAIN conf : k >= entry + 1 /\ Proc(conf[k]) => ~conf[k].boot
    <3>1. PICK b \in DOMAIN conf :
            /\ Proc(conf[b]) /\ conf[b].boot /\ conf[b].id = 0
            /\ \A k \in DOMAIN conf :
                 Proc(conf[k]) /\ k # b => b < k /\ ~conf[k].boot /\ conf[k].id # 0
      BY <1>3, <1>4, Zenon DEF BootFirst
    <3>2. b <= entry
      BY <1>5, <2>1, <3>1
    <3>3. \A k \in DOMAIN conf : k >= entry + 1 => k # b
      BY <1>3, <1>5, <3>2
    <3> QED BY <3>1, <3>3, Zenon
  <2>4. /\ ncpu' \in 0 .. NCPU /\ DOMAIN cpu_id' = 0 .. NCPU - 1
        /\ \A k \in 0 .. NCPU - 1 : k < ncpu' \/ k = 0 => cpu_id'[k] = k
    <3>1. CASE Room
      BY <1>4, <1>6, <3>1 DEF BInv, ScanInv, EntryProc, Room
    <3>2. CASE ~Room
      BY <1>4, <1>6, <3>2, Zenon DEF BInv, ScanInv, EntryProc
    <3> QED BY <3>1, <3>2, Zenon
  <2>5. ScanInv'
    BY <1>1, <1>2, <2>1, <2>2, <2>4, Zenon DEF BInv, ScanInv
  <2>6. BeforeInv'
    BY <1>1, <1>2, <1>3, <2>1, <2>3 DEF BeforeInv
  <2>7. StartInv'
    BY <1>1, <1>2, <2>1, Zenon DEF BInv, StartInv
  <2>8. \A p \in APs : ApOf(p)'
    BY <1>1, <1>3, <2>1, Zenon DEF BInv, ApOf, Reported
  <2> QED BY <1>1, <1>2, <2>5, <2>6, <2>7, <2>8, Zenon DEF BInv
<1>7. CASE EntryOther \/ EntryUnknown
  <2>1. /\ ncpu' = ncpu /\ bootcpu' = bootcpu /\ cpu_id' = cpu_id /\ status' = status /\ bsp' = bsp
        /\ entry' \in Nat /\ entry' >= entry /\ entry <= Len(conf) /\ (ismp' = ismp \/ ~ismp')
    <3>1. entry \in Int /\ Len(conf) \in Int /\ entry + 1 \in Nat /\ Len(conf) + 1 \in Nat
      BY <1>3, <1>5
    <3>2. /\ ncpu' = ncpu /\ bootcpu' = bootcpu /\ cpu_id' = cpu_id /\ status' = status /\ bsp' = bsp
          /\ entry <= Len(conf) /\ (entry' = entry + 1 \/ entry' = Len(conf) + 1)
      BY <1>7, Zenon DEF EntryOther, EntryUnknown, Scanning
    <3>3. ismp' = ismp \/ ~ismp'
      BY <1>7, Zenon DEF EntryOther, EntryUnknown
    <3>4. entry' \in Nat /\ entry' >= entry
      BY <3>1, <3>2
    <3> QED BY <3>2, <3>3, <3>4, Zenon
  <2>2. ScanInv'
    <3>1. ismp' => conf' # NoTable
      BY <1>1, <1>3, Zenon DEF NoTable
    <3> QED BY <1>1, <1>2, <2>1, <3>1, Zenon DEF BInv, ScanInv
  <2>3. BeforeInv'
    <3>1. \A k \in DOMAIN conf : k >= entry' => k >= entry
      BY <1>3, <1>5, <2>1
    <3> QED BY <1>1, <1>2, <1>3, <2>1, <3>1 DEF BeforeInv
  <2>4. StartInv'
    BY <1>1, <1>2, <2>1, Zenon DEF BInv, StartInv
  <2>5. \A p \in APs : ApOf(p)'
    BY <1>1, <1>3, <2>1, Zenon DEF BInv, ApOf, Reported
  <2> QED BY <1>1, <1>2, <2>2, <2>3, <2>4, <2>5, Zenon DEF BInv
<1>8. CASE MpInitDone
  <2>1. /\ bootcpu' = bootcpu /\ cpu_id' = cpu_id /\ bsp' = "locking" /\ entry' = entry
        /\ ismp' = ismp /\ status' = status \cup {bootcpu} /\ ncpu' = IF ismp THEN ncpu ELSE 1
    BY <1>8, Zenon DEF MpInitDone
  <2>2. ScanInv'
    BY <1>1, <1>2, <2>1 DEF BInv, ScanInv
  <2>3. BeforeInv'
    BY <1>1, <1>2, <1>3, <2>1, Zenon DEF BeforeInv
  <2>4. StartInv'
    BY <1>1, <1>2, <1>4, <2>1 DEF BInv, StartInv
  <2>5. \A p \in APs : ApOf(p)'
    BY <1>1, <1>3, <2>1, Zenon DEF BInv, ApOf, Reported
  <2> QED BY <1>1, <1>2, <2>2, <2>3, <2>4, <2>5, Zenon DEF BInv
<1> QED BY <1>6, <1>7, <1>8, Zenon

\* A step that leaves the table and what mp_init() made of it alone
LEMMA ScanKept ==
  ASSUME ScanInv, conf' = conf, ncpu' = ncpu, bootcpu' = bootcpu, ismp' = ismp, cpu_id' = cpu_id
  PROVE  ScanInv'
<1>1. APs' = APs /\ Bsp' = Bsp /\ AllCpus' = AllCpus
  BY SameCpus, Zenon
<1> QED BY <1>1, Zenon DEF ScanInv

\* boot_aps() and the steps of i386_init() around it
LEMMA BspSteps ==
  ASSUME BInv,
         BspLock \/ SkipSelf \/ StartAp \/ WaitAp \/ CreateEnvs \/ BspRun
  PROVE  BInv'
<1>1. /\ conf' = conf /\ ncpu' = ncpu /\ bootcpu' = bootcpu /\ ismp' = ismp /\ cpu_id' = cpu_id
      /\ stack' = stack /\ tss' = tss /\ status' = status
      /\ bsp' \notin {"mp_init", "locking"} /\ bsp # "mp_init"
  BY Zenon DEF BspLock, SkipSelf, StartAp, WaitAp, CreateEnvs, BspRun
<1>2. APs' = APs /\ Bsp' = Bsp /\ AllCpus' = AllCpus
  BY <1>1, SameCpus, Zenon
<1>3. ScanInv'
  BY <1>1, ScanKept, Zenon DEF BInv
<1>4. BeforeInv'
  BY <1>1, Zenon DEF BeforeInv
<1>5. /\ Bsp = 0 /\ ncpu \in Nat /\ boot_c \in Nat /\ NCPU \in Nat /\ ncpu <= NCPU
      /\ \A k \in 0 .. NCPU - 1 : k < ncpu => cpu_id[k] = k
      /\ ~ismp => ncpu <= 1
  BY <1>1 DEF BInv, ScanInv, StartInv
<1>6. cpunum(Bsp) = 0
  BY <1>5, Zenon DEF cpunum
<1>7. \A p \in APs : p \in Nat /\ p # 0
  BY <1>5, Zenon DEF APs, BInv, ScanInv
<1>8. CASE StartAp
  <2>1. /\ bsp = "boot_aps" /\ boot_c < ncpu /\ boot_c # 0 /\ mpentry_kstack' = boot_c
        /\ ap' = [p \in DOMAIN ap |-> IF p = cpu_id[boot_c] THEN "mpentry" ELSE ap[p]]
        /\ bsp' = "wait" /\ boot_c' = boot_c /\ lock' = lock /\ envs' = envs
    BY <1>6, <1>8, Zenon DEF StartAp
  <2>2. cpu_id[boot_c] = boot_c /\ ismp
    BY <1>5, <2>1
  <2>3. /\ ap' \in [APs -> {"halted", "mpentry", "mp_main"} \cup Reported]
        /\ \A p \in APs : ap'[p] = IF p = boot_c THEN "mpentry" ELSE ap[p]
    BY <2>1, <2>2, Zenon DEF BInv
  <2>4. \A p \in APs : p = boot_c => ap[p] = "halted"
    BY <2>1, Zenon DEF BInv, ApOf
  <2>5. StartInv'
    BY <1>1, <1>2, <2>1, <2>2, <2>3, <2>4, Zenon DEF BInv, StartInv, Reported
  <2>6. ASSUME NEW p \in APs PROVE ApOf(p)'
    <3>1. CASE p = boot_c
      BY <1>1, <1>7, <2>1, <2>2, <2>3, <2>4, <3>1 DEF BInv, ApOf, Reported
    <3>2. CASE p # boot_c
      BY <1>1, <1>7, <2>1, <2>2, <2>3, <3>2 DEF BInv, ApOf, Reported
    <3> QED BY <3>1, <3>2, Zenon
  <2> QED BY <1>1, <1>2, <1>3, <1>4, <2>3, <2>5, <2>6, Zenon DEF BInv
<1>9. CASE WaitAp
  <2>1. /\ bsp = "wait" /\ boot_c \in status /\ bsp' = "boot_aps" /\ boot_c' = boot_c + 1
        /\ mpentry_kstack' = mpentry_kstack /\ ap' = ap /\ lock' = lock /\ envs' = envs
    BY <1>9, Zenon DEF WaitAp
  <2>2. boot_c # 0 /\ boot_c \in APs /\ ap[boot_c] \in Reported
    BY <2>1, Zenon DEF BInv, StartInv
  <2>3. StartInv'
    BY <1>1, <1>2, <1>5, <2>1 DEF BInv, StartInv
  <2>4. ASSUME NEW p \in APs PROVE ApOf(p)'
    <3>1. ap[p] \notin {"mpentry", "mp_main"}
      BY <2>2, Zenon DEF BInv, ApOf, Reported
    <3>2. p = boot_c + 1 => ap[p] = "halted"
      BY <1>5 DEF BInv, ApOf
    <3> QED BY <1>1, <1>5, <1>7, <2>1, <3>1, <3>2 DEF BInv, ApOf, Reported
  <2> QED BY <1>1, <1>2, <1>3, <1>4, <2>1, <2>3, <2>4, Zenon DEF BInv
<1>10. CASE SkipSelf
  <2>1. /\ bsp = "boot_aps" /\ boot_c = 0 /\ bsp' = "boot_aps" /\ boot_c' = boot_c + 1
        /\ mpentry_kstack' = mpentry_kstack /\ ap' = ap /\ lock' = lock /\ envs' = envs
    BY <1>6, <1>10, Zenon DEF SkipSelf
  <2>2. StartInv'
    BY <1>1, <1>2, <1>5, <2>1 DEF BInv, StartInv
  <2>3. ASSUME NEW p \in APs PROVE ApOf(p)'
    <3>1. ap[p] = "halted"
      BY <1>5, <1>7, <2>1 DEF BInv, ApOf
    <3> QED BY <1>1, <2>1, <3>1, Zenon DEF BInv, ApOf, Reported
  <2> QED BY <1>1, <1>2, <1>3, <1>4, <2>1, <2>2, <2>3, Zenon DEF BInv
<1>11. CASE BspLock
  <2>1. /\ bsp = "locking" /\ bsp' = "boot_aps" /\ boot_c' = boot_c /\ lock' = 0
        /\ mpentry_kstack' = mpentry_kstack /\ ap' = ap /\ envs' = envs
    BY <1>5, <1>11, Zenon DEF BspLock
  <2>2. \A p \in APs : ap[p] = "halted"
    BY <2>1, Zenon DEF BInv, BeforeInv
  <2>3. StartInv'
    BY <1>1, <1>2, <2>1, Zenon DEF BInv, StartInv
  <2>4. ASSUME NEW p \in APs PROVE ApOf(p)'
    BY <1>1, <2>1, <2>2, Zenon DEF BInv, ApOf, Reported
  <2> QED BY <1>1, <1>2, <1>3, <1>4, <2>1, <2>3, <2>4, Zenon DEF BInv
<1>12. CASE CreateEnvs
  <2>1. /\ bsp = "boot_aps" /\ bsp' = "sched_yield" /\ boot_c' = boot_c /\ lock' = lock
        /\ mpentry_kstack' = mpentry_kstack /\ ap' = ap /\ envs'
    BY <1>12, Zenon DEF CreateEnvs
  <2>2. StartInv'
    BY <1>1, <1>2, <2>1, Zenon DEF BInv, StartInv
  <2>3. ASSUME NEW p \in APs PROVE ApOf(p)'
    BY <1>1, <2>1, Zenon DEF BInv, ApOf, Reported
  <2> QED BY <1>1, <1>2, <1>3, <1>4, <2>1, <2>2, <2>3, Zenon DEF BInv
<1>13. CASE BspRun
  <2>1. /\ bsp = "sched_yield" /\ bsp' = "user" /\ boot_c' = boot_c
        /\ mpentry_kstack' = mpentry_kstack /\ ap' = ap /\ envs' = envs
    BY <1>13, Zenon DEF BspRun
  <2>2. StartInv'
    BY <1>1, <1>2, <2>1, Zenon DEF BInv, StartInv
  <2>3. ASSUME NEW p \in APs PROVE ApOf(p)'
    BY <1>1, <2>1, Zenon DEF BInv, ApOf, Reported
  <2> QED BY <1>1, <1>2, <1>3, <1>4, <2>1, <2>2, <2>3, Zenon DEF BInv
<1> QED BY <1>8, <1>9, <1>10, <1>11, <1>12, <1>13, Zenon

\* An AP in mpentry.S and mp_main()
LEMMA ApSteps ==
  ASSUME BInv, NEW p \in APs, ApStep(p)
  PROVE  BInv'
<1>1. /\ conf' = conf /\ ncpu' = ncpu /\ bootcpu' = bootcpu /\ ismp' = ismp /\ cpu_id' = cpu_id
      /\ bsp' = bsp /\ boot_c' = boot_c /\ mpentry_kstack' = mpentry_kstack /\ envs' = envs
  BY Zenon DEF ApStep, ApStack, ApStarted, ApLock, ApRun
<1>2. APs' = APs /\ Bsp' = Bsp /\ AllCpus' = AllCpus
  BY <1>1, SameCpus, Zenon
<1>3. ScanInv'
  BY <1>1, ScanKept, Zenon DEF BInv
<1>4. /\ ap[p] # "halted"
      /\ ap' \in [APs -> {"halted", "mpentry", "mp_main"} \cup Reported]
      /\ \A q \in APs : q # p => ap'[q] = ap[q]
  BY Zenon DEF ApStep, ApStack, ApStarted, ApLock, ApRun, Moves, BInv, Reported
<1>5. bsp \notin {"mp_init", "locking"}
  BY <1>4, Zenon DEF BInv, BeforeInv
<1>6. BeforeInv'
  BY <1>1, <1>5, Zenon DEF BeforeInv
<1>7. /\ p \in Nat /\ p # 0 /\ ismp /\ p < ncpu /\ NCPU \in Nat /\ ncpu \in Nat /\ ncpu <= NCPU
      /\ p \in 0 .. NCPU - 1
  BY <1>4 DEF APs, BInv, ScanInv, ApOf
<1>8. cpunum(p) = p
  BY <1>7, Zenon DEF cpunum
<1>9. CASE ApStack(p)
  <2>1. /\ ap[p] = "mpentry" /\ ap'[p] = "mp_main" /\ stack' = [stack EXCEPT ![p] = mpentry_kstack]
        /\ status' = status /\ tss' = tss /\ lock' = lock
    BY <1>9, Zenon DEF ApStack, Moves, BInv
  <2>2. /\ DOMAIN stack' = AllCpus /\ stack'[p] = p
        /\ \A q \in APs : q # p => stack'[q] = stack[q]
    BY <2>1, Zenon DEF BInv, ApOf, APs
  <2>3. StartInv'
    BY <1>1, <1>2, <1>4, <2>1, Zenon DEF BInv, StartInv, Reported
  <2>4. ASSUME NEW q \in APs PROVE ApOf(q)'
    BY <1>1, <1>4, <2>1, <2>2 DEF BInv, ApOf, Reported
  <2> QED BY <1>1, <1>2, <1>3, <1>4, <1>6, <2>1, <2>2, <2>3, <2>4, Zenon DEF BInv
<1>10. CASE ApStarted(p)
  <2>1. /\ ap[p] = "mp_main" /\ ap'[p] = "locking" /\ stack' = stack /\ lock' = lock
        /\ status' = status \cup {p}
        /\ tss' = IF tss[p] = None THEN [tss EXCEPT ![p] = p] ELSE tss
    BY <1>8, <1>10, Zenon DEF ApStarted, Moves, BInv, trap_init_percpu
  <2>2. tss[p] = None
    BY <1>7, <2>1 DEF BInv, ApOf, Reported
  <2>3. /\ DOMAIN tss' = 0 .. NCPU - 1 /\ tss'[p] = p
        /\ \A q \in 0 .. NCPU - 1 : q # p => tss'[q] = tss[q]
    BY <1>7, <2>1, <2>2, Zenon DEF BInv
  <2>4. StartInv'
    BY <1>1, <1>2, <1>4, <2>1, Zenon DEF BInv, StartInv, Reported
  <2>5. ASSUME NEW q \in APs PROVE ApOf(q)'
    <3>1. CASE q = p
      BY <1>1, <1>4, <2>1, <2>3, <3>1, Zenon DEF BInv, ApOf, Reported
    <3>2. CASE q # p
      <4>1. q < NCPU => q \in 0 .. NCPU - 1
        BY <1>7 DEF APs, BInv, ScanInv
      <4> QED BY <1>1, <1>4, <2>1, <2>3, <3>2, <4>1 DEF BInv, ApOf, Reported
    <3> QED BY <3>1, <3>2, Zenon
  <2> QED BY <1>1, <1>2, <1>3, <1>4, <1>6, <2>1, <2>3, <2>4, <2>5, Zenon DEF BInv
<1>11. CASE ApLock(p)
  <2>1. /\ ap[p] = "locking" /\ ap'[p] = "sched_yield" /\ lock = None /\ lock' = p
        /\ stack' = stack /\ tss' = tss /\ status' = status
    BY <1>11, Zenon DEF ApLock, Moves, BInv
  <2>2. None \notin Nat
    BY DEF None
  <2>3. bsp = "user"
    BY <1>5, <2>1, <2>2 DEF BInv, StartInv
  <2>4. StartInv'
    BY <1>1, <1>2, <1>4, <2>1, <2>3, Zenon DEF BInv, StartInv, Reported
  <2>5. ASSUME NEW q \in APs PROVE ApOf(q)'
    <3>1. q \in Nat
      BY Zenon DEF APs, BInv, ScanInv
    <3>2. q # p => ap[q] # "sched_yield"
      BY <2>1, <2>2, <3>1, Zenon DEF BInv, ApOf
    <3> QED BY <1>1, <1>4, <2>1, <2>3, <3>2 DEF BInv, ApOf, Reported
  <2> QED BY <1>1, <1>2, <1>3, <1>4, <1>6, <2>1, <2>4, <2>5, Zenon DEF BInv
<1>12. CASE ApRun(p)
  <2>1. /\ ap[p] = "sched_yield" /\ ap'[p] = "user"
        /\ stack' = stack /\ tss' = tss /\ status' = status
    BY <1>12, Zenon DEF ApRun, Moves, BInv
  <2>2. bsp = "user" /\ lock = p
    BY <2>1, Zenon DEF BInv, ApOf
  <2>3. StartInv'
    BY <1>1, <1>2, <1>4, <2>1, <2>2, Zenon DEF BInv, StartInv, Reported
  <2>4. ASSUME NEW q \in APs PROVE ApOf(q)'
    <3>1. q # p => ap[q] # "sched_yield"
      BY <2>2, Zenon DEF BInv, ApOf
    <3> QED BY <1>1, <1>4, <2>1, <2>2, <3>1 DEF BInv, ApOf, Reported
  <2> QED BY <1>1, <1>2, <1>3, <1>4, <1>6, <2>1, <2>3, <2>4, Zenon DEF BInv
<1> QED BY <1>9, <1>10, <1>11, <1>12, Zenon DEF ApStep

\* Every step keeps the invariant.
LEMMA BNext ==
  ASSUME BootAssumption, BootFirst, BInv, [NextBoot]_(varsBoot)
  PROVE  BInv'
<1>1. CASE UNCHANGED varsBoot
  <2>1. APs' = APs /\ Bsp' = Bsp /\ AllCpus' = AllCpus
    BY <1>1, SameCpus, Zenon DEF varsBoot
  <2>2. ScanInv' /\ BeforeInv' /\ StartInv'
    BY <1>1, <2>1, Zenon DEF varsBoot, BInv, ScanInv, BeforeInv, StartInv
  <2>3. \A p \in APs : ApOf(p)'
    BY <1>1, Zenon DEF varsBoot, BInv, ApOf
  <2> QED BY <1>1, <2>1, <2>2, <2>3, Zenon DEF varsBoot, BInv
<1>2. CASE BspStep
  BY <1>2, ScanSteps, BspSteps, Zenon DEF BspStep
<1>3. CASE \E p \in APs : ApStep(p)
  BY <1>3, ApSteps, Zenon
<1> QED BY <1>1, <1>2, <1>3, Zenon DEF NextBoot, APs

\* The invariant implies that processors are ready when they enter the scheduler.
LEMMA BImplies == BInv => ProcessorsReady
<1> SUFFICES ASSUME BInv PROVE ProcessorsReady
  BY Zenon
<1>1. DOMAIN ap = APs
  BY Zenon DEF BInv
<1>2. \A p \in APs : p \in Nat /\ p # 0 /\ p \in AllCpus
  BY Zenon DEF APs, BInv, ScanInv
<1>3. KernelStacks
  <2>1. ASSUME NEW p \in APs
        PROVE  /\ stack[p] \in {None, cpunum(p)}
               /\ ap[p] \in {"locking", "sched_yield", "user"} => tss[cpunum(p)] = p
    <3>1. CASE ap[p] = "halted"
      BY <3>1, Zenon DEF BInv, ApOf, Reported
    <3>2. CASE ap[p] # "halted"
      <4>1. cpunum(p) = p
        BY <3>2, Zenon DEF BInv, ApOf, cpunum
      <4> QED BY <4>1, Zenon DEF BInv, ApOf, Reported
    <3> QED BY <3>1, <3>2, Zenon
  <2> QED BY <1>1, <2>1, Zenon DEF KernelStacks
<1>4. \A p \in InScheduler : p = lock
  <2>1. Bsp = 0
    BY Zenon DEF BInv, ScanInv
  <2> QED BY <1>1, <2>1, Zenon DEF InScheduler, BInv, StartInv, ApOf
<1>5. \A p \in APs : ap[p] \in {"sched_yield", "user"} => envs
  BY Zenon DEF BInv, StartInv, ApOf
<1>6. SchedulerGuarded
  BY <1>1, <1>4, <1>5, Zenon DEF SchedulerGuarded
<1>7. BootcpuExists
  BY DEF BInv, ScanInv, BootcpuExists
<1> QED BY <1>3, <1>6, <1>7, Zenon DEF ProcessorsReady

\* With tables as firmware writes them, of any length, and any size of cpus[]: an AP
\* runs on its own kernel stack and with its own TSS although boot_aps() announces
\* all stacks in one variable, one processor at a time is in the scheduler and none
\* before the first environments exist, and bootcpu is an entry of cpus[].
THEOREM ProcessorsAreReady ==
  ASSUME BootAssumption, BootFirst PROVE SpecBoot => []ProcessorsReady
<1>1. InitBoot => BInv
  BY BInit, Zenon
<1>2. BInv /\ [NextBoot]_(varsBoot) => BInv'
  BY BNext, Zenon
<1> QED BY <1>1, <1>2, BImplies, PTL DEF SpecBoot

-----------------------------------------------------------------------------
(* Translation caches                                                       *)

\* The inductive invariant: UserAgrees needs that an environment whose mappings
\* change in the kernel of one processor does not run on another.
TInv == TypeOKTlb /\ RunsOnce /\ OneInKernel /\ UserAgrees

\* The invariant holds when the processors start with empty TLBs.
LEMMA TInit == InitTlb => TInv
BY DEF InitTlb, Entries, TInv, TypeOKTlb, RunsOnce, OneInKernel, UserAgrees, Agrees

\* A processor that fills its TLB from the page table of the environment it runs
\* keeps the invariant.
LEMMA AccessInv ==
  ASSUME TInv, NEW c \in Cores, NEW va \in Vas, Access(c, va)
  PROVE  TInv'
<1> USE DEF TInv
<1>1. TypeOKTlb'
  BY Zenon DEF TypeOKTlb, Access
<1>2. RunsOnce' /\ OneInKernel'
  BY Zenon DEF RunsOnce, OneInKernel, Access
<1>3. ASSUME NEW d \in Cores, mode'[d] = "user", NEW w \in Vas
      PROVE  tlb'[d][w] \in {NoEntry, pt'[curenv'[d]][w]}
  <2>1. tlb[d][w] \in {NoEntry, pt[curenv[d]][w]}
    BY <1>3, Zenon DEF UserAgrees, Agrees, Access
  <2>2. CASE d = c /\ w = va
    BY <2>2, Zenon DEF Access, TypeOKTlb
  <2>3. CASE ~(d = c /\ w = va)
    <3>1. tlb'[d][w] = tlb[d][w]
      BY <2>3, Zenon DEF Access, TypeOKTlb
    <3> QED BY <2>1, <3>1, Zenon DEF Access
  <2> QED BY <2>2, <2>3, Zenon
<1> QED BY <1>1, <1>2, <1>3, Zenon DEF UserAgrees, Agrees

\* Entering the kernel changes no mapping; the lock keeps the others out.
LEMMA TrapInv ==
  ASSUME TInv, NEW c \in Cores, Trap(c)
  PROVE  TInv'
<1> USE DEF TInv
<1>1. TypeOKTlb'
  BY Zenon DEF TypeOKTlb, Trap
<1>2. RunsOnce' /\ OneInKernel'
  BY Zenon DEF RunsOnce, OneInKernel, Trap, TypeOKTlb
<1>3. UserAgrees'
  BY Zenon DEF UserAgrees, Agrees, Trap, TypeOKTlb
<1> QED BY <1>1, <1>2, <1>3, Zenon

\* tlb_invalidate() can only remove entries, and only on the processor that
\* calls it.
LEMMA InvalidatedType ==
  ASSUME TypeOKTlb, NEW c \in Cores, NEW e \in Envs, NEW va \in Vas
  PROVE  /\ Invalidated(c, e, va) \in [Cores -> [Vas -> Entries]]
         /\ \A d \in Cores : d # c => Invalidated(c, e, va)[d] = tlb[d]
BY Zenon DEF Invalidated, TypeOKTlb, Entries

\* A change of e's page table by the processor c in the kernel: user programs on
\* the other processors run other environments.
LEMMA EditInv ==
  ASSUME RemoteEdits = FALSE, TInv,
         NEW c \in Cores, NEW e \in Envs, NEW va \in Vas, NEW x \in Entries,
         Edits(c, e),
         tlb' \in [Cores -> [Vas -> Entries]],
         \A d \in Cores : d # c => tlb'[d] = tlb[d],
         pt' = [pt EXCEPT ![e][va] = x],
         UNCHANGED <<curenv, mode>>
  PROVE  TInv'
<1> USE DEF TInv
<1>1. TypeOKTlb'
  BY Zenon DEF TypeOKTlb
<1>2. RunsOnce' /\ OneInKernel'
  BY Zenon DEF RunsOnce, OneInKernel
<1>3. ASSUME NEW d \in Cores, mode'[d] = "user"
      PROVE  Agrees(d)'
  <2>1. d # c /\ mode[d] = "user"
    BY <1>3, Zenon DEF Edits
  <2>2. curenv[d] # e
    BY <2>1, Zenon DEF Edits
  <2>3. pt'[curenv[d]] = pt[curenv[d]]
    BY <2>2, Zenon DEF TypeOKTlb
  <2>4. Agrees(d)
    BY <2>1, Zenon DEF UserAgrees
  <2> QED BY <2>1, <2>3, <2>4, Zenon DEF Agrees
<1> QED BY <1>1, <1>2, <1>3, Zenon DEF UserAgrees

\* A return to user mode starts with an empty TLB.
LEMMA EnvRunInv ==
  ASSUME TInv, NEW c \in Cores, NEW e \in Envs, EnvRun(c, e)
  PROVE  TInv'
<1> USE DEF TInv
<1>1. TypeOKTlb'
  BY Zenon DEF TypeOKTlb, EnvRun, Lcr3, Entries
<1>2. RunsOnce' /\ OneInKernel'
  BY Zenon DEF RunsOnce, OneInKernel, EnvRun, TypeOKTlb
<1>3. ASSUME NEW d \in Cores, mode'[d] = "user"
      PROVE  Agrees(d)'
  <2>1. CASE d = c
    BY <2>1, Zenon DEF Agrees, EnvRun, Lcr3, TypeOKTlb
  <2>2. CASE d # c
    BY <1>3, <2>2, Zenon DEF UserAgrees, Agrees, EnvRun, Lcr3, TypeOKTlb
  <2> QED BY <2>1, <2>2, Zenon
<1> QED BY <1>1, <1>2, <1>3, Zenon DEF UserAgrees

\* Every step keeps the invariant, as long as no environment changes the mappings
\* of one that runs on another processor.
LEMMA TNext ==
  ASSUME RemoteEdits = FALSE, TInv, [NextTlb]_(varsTlb)
  PROVE  TInv'
<1>1. ASSUME NEW c \in Cores, NEW e \in Envs, NEW va \in Vas, PageRemove(c, e, va)
      PROVE  TInv'
  <2>1. TypeOKTlb
    BY Zenon DEF TInv
  <2>2. /\ tlb' \in [Cores -> [Vas -> Entries]]
        /\ \A d \in Cores : d # c => tlb'[d] = tlb[d]
    BY <1>1, <2>1, InvalidatedType, Zenon DEF PageRemove
  <2>3. NoEntry \in Entries
    BY Zenon DEF Entries
  <2> QED BY <1>1, <2>2, <2>3, EditInv, Zenon DEF PageRemove
<1>2. ASSUME NEW c \in Cores, NEW e \in Envs, NEW va \in Vas, NEW f \in Frames, NEW perm \in Perms,
             PageInsert(c, e, va, f, perm)
      PROVE  TInv'
  <2>1. TypeOKTlb
    BY Zenon DEF TInv
  <2>2. /\ tlb' \in [Cores -> [Vas -> Entries]]
        /\ \A d \in Cores : d # c => tlb'[d] = tlb[d]
    <3>1. CASE tlb' = tlb
      BY <2>1, <3>1, Zenon DEF TypeOKTlb
    <3>2. CASE tlb' = Invalidated(c, e, va)
      BY <2>1, <3>2, InvalidatedType, Zenon
    <3> QED BY <1>2, <3>1, <3>2, Zenon DEF PageInsert
  <2>3. <<f, perm>> \in Entries
    BY Zenon DEF Entries
  <2> QED BY <1>2, <2>2, <2>3, EditInv, Zenon DEF PageInsert
<1>3. CASE UNCHANGED varsTlb
  BY <1>3, Zenon DEF varsTlb, TInv, TypeOKTlb, RunsOnce, OneInKernel, UserAgrees, Agrees
<1> QED BY <1>1, <1>2, <1>3, AccessInv, TrapInv, EnvRunInv, Zenon DEF NextTlb

\* In user mode a processor uses only translations that the page tables hold at
\* that moment: page_remove() and page_insert() may leave stale entries behind,
\* and env_run() gets rid of them.  The hypothesis is what fork() and the other
\* callers keep to, and what the code does not enforce.
THEOREM Coherent == RemoteEdits = FALSE => (SpecTlb => []UserAgrees)
<1>1. SUFFICES ASSUME RemoteEdits = FALSE PROVE SpecTlb => []UserAgrees
  BY Zenon
<1>2. InitTlb => TInv
  BY TInit, Zenon
<1>3. TInv /\ [NextTlb]_(varsTlb) => TInv'
  BY <1>1, TNext, Zenon
<1>4. TInv => UserAgrees
  BY Zenon DEF TInv
<1> QED BY <1>2, <1>3, <1>4, PTL DEF SpecTlb

-----------------------------------------------------------------------------
(* The lock                                                                 *)

\* Places where lk->cpu is on record.
Recorded(c) == pc[c] \in {"held", "unlock_locked", "unlock_cpu", "clear"}

LockedIffOwned == locked <=> \E c \in Cpus : Owns(c)
RecordExact    == \A c \in Cpus : cpu = c <=> Recorded(c)

\* The inductive invariant.
IInv == TypeOK /\ MutualExclusion /\ NoPanic /\ LockedIffOwned /\ RecordExact

\* The lock starts free with nobody on record.
LEMMA InitIInv == Init => IInv
BY SpinlockAssumption, Zenon
DEF Init, IInv, TypeOK, Places, MutualExclusion, NoPanic, LockedIffOwned,
    RecordExact, Recorded, Owns

\* What a step of c does to the others: nothing.
LEMMA Goes ==
  ASSUME TypeOK, NEW c \in Cpus, NEW p \in Places, Goto(c, p)
  PROVE  /\ pc' \in [Cpus -> Places]
         /\ pc'[c] = p
         /\ \A d \in Cpus \ {c} : pc'[d] = pc[d]
BY Zenon DEF TypeOK, Goto

\* Steps that take or free no lock and record nothing: they stay among the
\* places that own the lock or among those that do not, and do not panic.
LEMMA QuietStep ==
  ASSUME IInv, NEW c \in Cpus, NEW p \in Places, Goto(c, p),
         UNCHANGED <<locked, cpu>>, p # "panic",
         Owns(c) <=> p \in {"record", "held", "unlock_locked", "unlock_cpu", "clear", "release"},
         Recorded(c) <=> p \in {"held", "unlock_locked", "unlock_cpu", "clear"}
  PROVE  IInv' /\ \A d \in Cpus : Owns(d)' <=> Owns(d)
<1>1. /\ pc' \in [Cpus -> Places]
      /\ pc'[c] = p
      /\ \A d \in Cpus \ {c} : pc'[d] = pc[d]
  BY Goes, Zenon DEF IInv
<1>2. \A d \in Cpus : Owns(d)' <=> Owns(d)
  BY <1>1, Zenon DEF Owns
<1>3. \A d \in Cpus : Recorded(d)' <=> Recorded(d)
  BY <1>1, Zenon DEF Recorded
<1>4. TypeOK' /\ NoPanic'
  BY <1>1 DEF IInv, TypeOK, NoPanic
<1>5. MutualExclusion' /\ LockedIffOwned' /\ RecordExact'
  BY <1>2, <1>3, Zenon DEF IInv, MutualExclusion, LockedIffOwned, RecordExact
<1> QED BY <1>2, <1>4, <1>5, Zenon DEF IInv

\* The steps of holding() and the calls around it.
LEMMA HoldingSteps ==
  ASSUME IInv, NEW c \in Cpus,
         \/ LockCall(c) \/ LockReadLocked(c) \/ LockReadCpu(c)
         \/ UnlockCall(c) \/ UnlockReadLocked(c) \/ UnlockReadCpu(c)
  PROVE  IInv' /\ \A d \in Cpus : Owns(d)' <=> Owns(d)
<1>1. CASE LockCall(c)
  BY <1>1, QuietStep, Zenon DEF LockCall, Owns, Recorded, Places
<1>2. CASE LockReadLocked(c)
  BY <1>2, QuietStep, Zenon DEF LockReadLocked, Owns, Recorded, Places
<1>3. CASE LockReadCpu(c)
  <2>1. cpu # c
    BY <1>3, Zenon DEF LockReadCpu, IInv, RecordExact, Recorded
  <2> QED BY <1>3, <2>1, QuietStep, Zenon DEF LockReadCpu, Owns, Recorded, Places
<1>4. CASE UnlockCall(c)
  BY <1>4, QuietStep, Zenon DEF UnlockCall, Owns, Recorded, Places
<1>5. CASE UnlockReadLocked(c)
  <2>1. locked
    BY <1>5, Zenon DEF UnlockReadLocked, IInv, LockedIffOwned, Owns
  <2> QED BY <1>5, <2>1, QuietStep, Zenon DEF UnlockReadLocked, Owns, Recorded, Places
<1>6. CASE UnlockReadCpu(c)
  <2>1. cpu = c
    BY <1>6, Zenon DEF UnlockReadCpu, IInv, RecordExact, Recorded
  <2> QED BY <1>6, <2>1, QuietStep, Zenon DEF UnlockReadCpu, Owns, Recorded, Places
<1> QED BY <1>1, <1>2, <1>3, <1>4, <1>5, <1>6, Zenon

\* The exchange that takes the lock finds nobody there.
LEMMA XchgStep ==
  ASSUME IInv, NEW c \in Cpus, Xchg(c)
  PROVE  /\ IInv'
         /\ \A d \in Cpus : ~ Owns(d)
         /\ \A d \in Cpus : Owns(d)' <=> d = c
<1>1. /\ pc' \in [Cpus -> Places]
      /\ pc'[c] = "record"
      /\ \A d \in Cpus \ {c} : pc'[d] = pc[d]
  BY Goes, Zenon DEF IInv, Xchg, Places
<1>2. \A d \in Cpus : ~ Owns(d)
  BY Zenon DEF IInv, LockedIffOwned, Xchg
<1>3. \A d \in Cpus : Owns(d)' <=> d = c
  BY <1>1, <1>2, Zenon DEF Owns
<1>4. \A d \in Cpus : Recorded(d)' <=> Recorded(d)
  BY <1>1, Zenon DEF Recorded, Xchg
<1>5. locked' = TRUE /\ cpu' = cpu
  BY Zenon DEF Xchg
<1>6. TypeOK' /\ NoPanic'
  BY <1>1, <1>5, Zenon DEF IInv, TypeOK, NoPanic
<1>7. MutualExclusion' /\ LockedIffOwned' /\ RecordExact'
  BY <1>3, <1>4, <1>5, Zenon DEF IInv, MutualExclusion, LockedIffOwned, RecordExact
<1> QED BY <1>2, <1>3, <1>6, <1>7, Zenon DEF IInv

\* Record and Clear change lk->cpu under the lock.
LEMMA RecordingSteps ==
  ASSUME IInv, NEW c \in Cpus, Record(c) \/ Clear(c)
  PROVE  IInv' /\ \A d \in Cpus : Owns(d)' <=> Owns(d)
<1> DEFINE p == IF pc[c] = "record" THEN "held" ELSE "release"
<1>1. p \in Places /\ Goto(c, p)
  BY Zenon DEF Record, Clear, Places
<1>2. /\ pc' \in [Cpus -> Places]
      /\ pc'[c] = p
      /\ \A d \in Cpus \ {c} : pc'[d] = pc[d]
  BY <1>1, Goes, Zenon DEF IInv
<1>3. Owns(c)
  BY Zenon DEF Record, Clear, Owns
<1>4. \A d \in Cpus : Owns(d)' <=> Owns(d)
  BY <1>2, <1>3, Zenon DEF Owns
<1>5. \A d \in Cpus \ {c} : ~ Recorded(d)
  BY <1>3, Zenon DEF IInv, MutualExclusion, Owns, Recorded
<1>6. locked' = locked /\ cpu' = IF pc[c] = "record" THEN c ELSE NoCpu
  BY Zenon DEF Record, Clear
<1>7. TypeOK' /\ NoPanic'
  BY <1>2, <1>6, Zenon DEF IInv, TypeOK, NoPanic
<1>8. MutualExclusion' /\ LockedIffOwned'
  BY <1>4, <1>6, Zenon DEF IInv, MutualExclusion, LockedIffOwned
<1>9. RecordExact'
  <2>1. \A d \in Cpus \ {c} : ~ Recorded(d)'
    BY <1>2, <1>5, Zenon DEF Recorded
  <2>2. Recorded(c)' <=> pc[c] = "record"
    BY <1>2, Zenon DEF Recorded, Record, Clear
  <2> QED BY <1>6, <2>1, <2>2, SpinlockAssumption, Zenon DEF RecordExact
<1> QED BY <1>4, <1>7, <1>8, <1>9, Zenon DEF IInv

\* The exchange that frees the lock leaves nobody there.
LEMMA ReleaseStep ==
  ASSUME IInv, NEW c \in Cpus, Release(c)
  PROVE  /\ IInv'
         /\ \A d \in Cpus : Owns(d) <=> d = c
         /\ \A d \in Cpus : ~ Owns(d)'
<1>1. /\ pc' \in [Cpus -> Places]
      /\ pc'[c] = "out"
      /\ \A d \in Cpus \ {c} : pc'[d] = pc[d]
  BY Goes, Zenon DEF IInv, Release, Places
<1>2. Owns(c)
  BY Zenon DEF Release, Owns
<1>3. \A d \in Cpus : Owns(d) <=> d = c
  BY <1>2, Zenon DEF IInv, MutualExclusion
<1>4. \A d \in Cpus : ~ Owns(d)'
  BY <1>1, <1>3, Zenon DEF Owns
<1>5. \A d \in Cpus : Recorded(d)' <=> Recorded(d)
  BY <1>1, Zenon DEF Recorded, Release
<1>6. locked' = FALSE /\ cpu' = cpu
  BY Zenon DEF Release
<1>7. TypeOK' /\ NoPanic'
  BY <1>1, <1>6, Zenon DEF IInv, TypeOK, NoPanic
<1>8. MutualExclusion' /\ LockedIffOwned' /\ RecordExact'
  BY <1>4, <1>5, <1>6, Zenon DEF IInv, MutualExclusion, LockedIffOwned, RecordExact
<1> QED BY <1>3, <1>4, <1>7, <1>8, Zenon DEF IInv

-----------------------------------------------------------------------------
\* Every memory access of spin_lock() and spin_unlock() preserves the
\* invariant.
THEOREM NextIInv == IInv /\ [Next]_vars => IInv'
<1> SUFFICES ASSUME IInv, [Next]_vars PROVE IInv'
  BY Zenon
<1>1. CASE Next
  BY <1>1, HoldingSteps, XchgStep, RecordingSteps, ReleaseStep, Zenon
  DEF Next, Acquiring, Leaving
<1>2. CASE UNCHANGED vars
  BY <1>2, Zenon DEF vars, IInv, TypeOK, MutualExclusion, NoPanic, LockedIffOwned,
     RecordExact, Recorded, Owns
<1> QED BY <1>1, <1>2, Zenon

\* The invariant holds throughout.
THEOREM Invariance == Spec => []IInv
BY InitIInv, NextIInv, PTL DEF Spec

\* At most one processor is between spin_lock() and spin_unlock().
THEOREM Excludes == Spec => []MutualExclusion
<1>1. IInv => MutualExclusion
  BY Zenon DEF IInv
<1> QED BY <1>1, Invariance, PTL

\* The checks of holding() never panic.
THEOREM NeverPanics == Spec => []NoPanic
<1>1. IInv => NoPanic
  BY Zenon DEF IInv
<1> QED BY <1>1, Invariance, PTL

-----------------------------------------------------------------------------
(* The lock implements Mutex.                                               *)

\* The owner is the one processor between the exchanges.
LEMMA OwnerIs ==
  ASSUME NEW c \in Cpus, \A d \in Cpus : Owns(d) <=> d = c
  PROVE  owner = c
BY Zenon DEF owner

\* The same after a step.
LEMMA OwnerBecomes ==
  ASSUME NEW c \in Cpus, \A d \in Cpus : Owns(d)' <=> d = c
  PROVE  owner' = c
BY Zenon DEF owner

\* A step that changes nobody's hold of the lock does not change the owner.
LEMMA OwnerStays ==
  ASSUME IInv, \A d \in Cpus : Owns(d)' <=> Owns(d)
  PROVE  owner' = owner
<1>1. CASE \E c \in Cpus : Owns(c)
  <2>1. PICK c \in Cpus : Owns(c)
    BY <1>1, Zenon
  <2>2. \A d \in Cpus : Owns(d) <=> d = c
    BY <2>1, Zenon DEF IInv, MutualExclusion
  <2>3. \A d \in Cpus : Owns(d)' <=> d = c
    BY <2>2, Zenon
  <2> QED BY <2>2, <2>3, OwnerIs, OwnerBecomes, Zenon
<1>2. CASE ~ \E c \in Cpus : Owns(c)
  BY <1>2, Zenon DEF owner
<1> QED BY <1>1, <1>2, Zenon

\* Every memory access acquires the mutex, releases it, or leaves it alone.
LEMMA StepRefines == IInv /\ [Next]_vars => [M!Next]_owner
<1> SUFFICES ASSUME IInv, [Next]_vars PROVE [M!Next]_owner
  BY Zenon
<1>1. ASSUME NEW c \in Cpus, Xchg(c) PROVE M!Next
  <2>1. (\A d \in Cpus : ~ Owns(d)) /\ (\A d \in Cpus : Owns(d)' <=> d = c)
    BY <1>1, XchgStep, Zenon
  <2>2. owner = NoCpu
    BY <2>1, Zenon DEF owner
  <2>3. owner' = c
    BY <2>1, OwnerBecomes, Zenon
  <2> QED BY <2>2, <2>3, Zenon DEF M!Next, M!Acquire
<1>2. ASSUME NEW c \in Cpus, Release(c) PROVE M!Next
  <2>1. (\A d \in Cpus : Owns(d) <=> d = c) /\ (\A d \in Cpus : ~ Owns(d)')
    BY <1>2, ReleaseStep, Zenon
  <2>2. owner = c
    BY <2>1, OwnerIs, Zenon
  <2>3. owner' = NoCpu
    BY <2>1, Zenon DEF owner
  <2> QED BY <2>2, <2>3, Zenon DEF M!Next, M!Release
<1>3. ASSUME NEW c \in Cpus,
             \/ LockCall(c) \/ LockReadLocked(c) \/ LockReadCpu(c)
             \/ UnlockCall(c) \/ UnlockReadLocked(c) \/ UnlockReadCpu(c)
             \/ Record(c) \/ Clear(c)
      PROVE  owner' = owner
  BY <1>3, HoldingSteps, RecordingSteps, OwnerStays, Zenon
<1>4. CASE UNCHANGED vars
  <2>1. \A d \in Cpus : Owns(d)' <=> Owns(d)
    BY <1>4, Zenon DEF vars, Owns
  <2> QED BY <2>1, OwnerStays, Zenon
<1>5. CASE Next
  BY <1>5, <1>1, <1>2, <1>3, Zenon DEF Next, Acquiring, Leaving
<1> QED BY <1>4, <1>5, Zenon

\* The spin lock implements the mutex that the kernel relies on.
THEOREM Implements == Spec => ImplementsMutex
<1>1. Init => M!Init
  BY Zenon DEF Init, M!Init, owner, Owns
<1> QED BY <1>1, StepRefines, Invariance, PTL DEF Spec, ImplementsMutex, M!Spec
=============================================================================
