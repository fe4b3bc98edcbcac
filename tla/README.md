# A TLA+ verification of the JOS exokernel

JOS is a small exokernel for x86 multiprocessors (`kern/`) with a library
operating system on top of it (`lib/`).  This directory holds TLA+
specifications of its parts, TLC configurations that check them on small
instances, and proofs, checked by TLAPS, of what matters most for instances of
any size.  `PROJECT.json` lists the components, runs, hazards, findings and
theorems, and maps every definition to the lines it models.

The models follow the code as it is built by default: `TESTING_GRADE_PURPOSE`
and `DEBUG_SPINLOCK` are defined; `__PT_REF__`, `__PD_REF__` and `bug_017` are
not.

## 1. The system

All kernel code runs under one lock with interrupts off, from `lock_kernel()` in
`trap()` to `unlock_kernel()` in `env_run()`.  So a system call is one atomic step
for all the others, and what interleaves is: user code, the library code
between two system calls, the wait for the lock, the few instructions after
`unlock_kernel()`, the processors while they boot, and the devices.

| part | code | module |
|---|---|---|
| environments, scheduler, big kernel lock | `kern/env.c`, `kern/sched.c`, `kern/trap.c`, `kern/syscall.c` | `EnvSched` |
| physical pages, reference counts, page tables | `kern/pmap.c`, `kern/env.c`, `kern/syscall.c` | `Pmap` |
| environments and their memory together | the same | `EnvVm` over `EnvSched` and `Pmap` |
| TLBs of the processors | `kern/pmap.c`, `kern/env.c` | `Tlb` |
| spin lock | `kern/spinlock.c` | `Spinlock` over `Mutex` |
| copy-on-write fork | `lib/fork.c` | `ForkCow` |
| IPC | `kern/syscall.c`, `lib/ipc.c` | `Ipc` over `Rendezvous` |
| traps and system calls, as the program sees them | `kern/trapentry.S`, `kern/trap.c`, `kern/env.c`, `lib/syscall.c` | `TrapFrame` |
| page fault upcalls | `kern/trap.c`, `lib/pfentry.S`, `lib/pgfault.c` | `PgFault` |
| checks of user pointers | `kern/pmap.c` | `UserMem` |
| program loading | `kern/env.c` | `LoadIcode` |
| boot loader | `boot/main.c` | `BootMain` |
| the first page directory | `kern/entry.S`, `kern/entrypgdir.c`, `kern/mpentry.S` | `EntryPaging` |
| start of the processors | `kern/init.c`, `kern/mpconfig.c`, `kern/mpentry.S`, `kern/lapic.c` | `Boot` |
| memory at boot | `kern/pmap.c` | `PhysMem`, `KernMap` |
| console ring, keyboard, screen, line input | `kern/console.c`, `lib/readline.c` | `Console` over `Fifo`, `Keyboard`, `Terminal` |
| formatted output | `lib/printfmt.c`, `lib/printf.c` | `PrintFmt`, `Snprintf`, `Cprintf` |
| strings and memory | `lib/string.c` | `MemMove`, `Strings`, `Strtol` |
| debugging information | `kern/kdebug.c` | `Kdebug`, `Debuginfo` |
| monitor | `kern/monitor.c` | `Monitor` |

Not modelled, and why:

* `boot/boot.S`: a straight line of instructions into protected mode.
* `kern/picirq.c`, the rest of `kern/lapic.c`, `kern/kclock.c`: writes of constants to
  the registers of devices; nothing of the kernel's state depends on them.
* The monitor's commands, which only print, and the walk of `mon_backtrace()` from frame
  to frame.
* `lib/libmain.c`, `lib/exit.c`, `lib/panic.c`, `lib/entry.S`: they keep no state but
  `thisenv` and end in a system call that is modelled.
* Traps taken in the kernel, which end in a panic or in the monitor.
* The programs under `user/`, which are tests and examples, but for the idle loop
  (`TrapFrame`).  `qemu-bin/` is somebody else's program.

## 2. How the modules correspond to the code

**EnvSched.**  State: `env_status`, `env_gen` (the generation part of `env_id`; an
envid is `<<generation, slot>>`), `env_parent_id`, `env_ipc_recving`,
`env_free_list`, and for each processor `curenv`, `cr3` and where it is (`pc`).
Actions: `Lock`, `Trap` and `PopTf` (outside the lock) and one action per handler:
`Yield` (timer and `sys_yield`), `SysExofork`, `SysEnvSetStatus`, `SysEnvDestroy`, `SysIpcTrySend`,
`SysIpcRecv`, `Fault`, `Reap`, `Nop`, `Start`.  Each handler includes the call of
`sched_yield()` or `env_run()` it ends in.  `PopTf` is the tail of `env_run()` after
`unlock_kernel()`: another processor can run a whole handler before it.
`Ops` selects which system calls programs make.  Three of its members are arguments that
the kernel accepts and the library never passes: `"restatus"` (`sys_env_set_status()` of an
environment that has been started), `"badstatus"` (a status other than `ENV_RUNNABLE` and
`ENV_NOT_RUNNABLE`) and `"redestroy"` (`sys_env_destroy()` of a zombie).  `LibraryCalls`
says that none of them is among `Ops`.

**Pmap.**  A *place* is somewhere a counted pointer to a page is kept: an
environment's page directory, an entry of the directory, an entry of a page
table.  `ptr` says which page a place points to, `pp_ref` is the count with its
width (`REFMOD`), `free` is the number of times a page is on the free list, so that a
page that is freed twice is visible.  The links of the list are in `PhysMem`.
Every allocation can fail; the error paths are those of the code.  `sys_page_map()` takes
`perm` as it is: the test of its bits is commented out (`kern/syscall.c:305`), and
`page_insert()` ors them into both entries (`kern/pmap.c:776`, `kern/pmap.c:825`).  A member
of `Perms` with `"ADDR"` in it is a `perm` with address bits, after which the entry points to
any page at all, uncounted (`PageInsertRaw`); `FlagsOnly` says that there is none.

**EnvVm** extends both, with the user environments' slots as `Envs`: every action is an action of `EnvSched` together with what
it does to memory.  `env_alloc()` fails when `env_setup_vm()` finds no page,
`env_free()` unmaps and frees everything (`EnvFreeVm` of `Pmap`), whoever calls it, the
system calls on memory find their target with `envid2env()`, and a send maps a page in
the receiver.  `sys_page_map()` asks `envid2env()` to check the permission for the source and
not for the destination (`kern/syscall.c:304`), so that is any environment.  `pgdir` says which page each processor's `cr3` names, which
neither component alone can say.

**TrapFrame.**  A processor holds registers, a kernel stack is a sequence of words.  The
processor's push (external), the stub's and `_alltraps`'s, `trap()`'s copy into `env_tf`,
`trap_dispatch()`, the system calls that change somebody's frame, and `env_pop_tf()`
are steps; `want` is what the program expects to find in its registers.  `TRAPHANDLER` is
the table of stubs as it stands, with the one for vector 17 that pushes a second error code.

**Tlb.**  `Access` is the processor's page walk (external).  `PageRemove` and
`PageInsert` invalidate as the code does, which is seldom; `EnvRun` loads `cr3`.
`RemoteEdits` says whether environments change the mappings of one that is
running on another processor; the library does not, the kernel lets them.

**Spinlock** takes one memory access per step, `holding()` included, and
implements **Mutex** (acquire, release).  The recorded call stack is left out.

**ForkCow.**  One system call of `fork()`, `duppage()` and `pgfault()` per step, so
the scheduler interleaves anything in between.  A page is free when nobody maps
it, which is what `Pmap` proves.  `view` remembers what each environment has
written, as the reference that `Isolation` compares memory with.

**Ipc** implements **Rendezvous**: an offer goes once and unchanged to the
environment it is meant for, while that one waits.  `Scarce` makes the allocation of
a page table fail.

**PgFault.**  Memory is an array of words tagged with what they hold; frames have
the layout of `struct UTrapframe`; the return path of `pfentry.S` runs instruction
group by instruction group and can be interrupted by a further fault of the
handler.

**BootMain.**  The disk answers after a while (external); `readseg()` reads whole
sectors into memory, whose words are tagged with the byte of the image they
hold.  **EntryPaging** lists what the code touches, step by step, under which page
directory and at which `EIP`, from `entry.S` to `mem_init()` and from `mpentry.S` to
`mp_main()`, with pages as large as the ones `entry_pgtable` maps.

**Boot.**  `mp_init()` over a configuration table, `boot_aps()` and the processors
step by step: `mpentry_kstack`, `cpu_status`, the TSS, the lock.  The search of
`mpsearch()` and the signatures, versions and sums that `mpconfig()` tests are left out: that a
table is found, or none, is an input.

**PhysMem, KernMap, LoadIcode, UserMem** run `boot_alloc()`/`page_init()`,
`boot_map_region()`, `load_icode()`/`region_alloc()` and `user_mem_check()` with the
address arithmetic modulo the word size where it matters.

**Console** (implements **Fifo**), **Keyboard**, **Terminal**: input ring, shift
state, screen with scrolling and `readline()`'s editing.

**PrintFmt, Snprintf, Strtol, Cprintf, MemMove, Strings, Kdebug, Debuginfo, Monitor**:
the algorithms, step by step, against reference definitions: a number reads back, the
bytes arrive as they were before the move, a string function returns what its
definition says, the file, function and line are those of the program that the stabs
describe, the words of a line are its words.

## 3. What is checked

| run | module | shows |
|---|---|---|
| `envsched` | `EnvSched` | One environment on one processor; `RUNNING`/`DYING` exactly while on a processor; user code on its own page directory; the free list is exact; receivers are blocked; the monitor only when nothing can run; the life cycle of a slot; a destroyed environment that runs elsewhere is freed in the end |
| `envsched_fair` | `EnvSched` | No starvation as long as environments yield and exchange messages |
| `pmap_safety` | `MCPmap` | Counts and free list exact, tables private, trees whole, directory entries permissive enough; write access spreads only through a mapping that has it |
| `envvm` | `MCEnvVm` | A live environment has a directory and memory of its own and a free slot has none; from the end of `env_run()` to the end of the next trap a processor's `cr3` names its environment's directory, a page that is nothing else; nobody but an environment and its parent empties a place of its address space or gets at a page in it, though others may put pages of theirs there; each component still behaves as its own specification |
| `tlb` | `Tlb` | No stale translation is used in user mode |
| `spinlock` | `Spinlock` | Refinement of `Mutex`, hence mutual exclusion; no false alarm of `holding()`; progress |
| `traps` | `MCTrap` | `TrapFrame`: a program finds the registers it left, but for `eax` after a system call and what another environment was asked to set, on whichever processor it goes on. `PgFault`: frames of nested faults lie inside the exception stack and do not overlap; the handler leaves the interrupted stack alone and returns to where the fault came from. `ForkCow`: parent, child and grandchild never see each other's writes; what is writable is private; a child starts with every page, unless a call failed |
| `ipc` | `Ipc` | Refinement of `Rendezvous`; `env_ipc_perm` tells whether a page came with a permission; as long as a receiver waits and a sender offers, somebody gets through |
| `startup` | `MCStartup` | `BootMain`: every segment arrives where it belongs, with its BSS cleared, and the kernel is entered at its start. `EntryPaging`: nothing is touched that the loaded directory does not map to its place. `PhysMem`: a page is on the free list or held, never both, and the arrays fit. `KernMap`: the mappings that `check_kern_pgdir()` expects, and nothing where there should be nothing. `LoadIcode`: the image is complete, nothing else is touched, the kernel panics only for cause. `Boot`: each processor has its own stack and TSS, none schedules early, all run in the end |
| `console` | `MCConsole` | `Console`: the ring is a FIFO and is read. `Keyboard`: a modifier means that a key is down. `Terminal`: the screen shows the tail of what was written, and `readline()` returns what was typed (a `DEL` that finds nothing to erase is a character like others). `Cprintf`: no character is lost, and lines that fit are printed by one call |
| `library` | `MCLibrary` | `PrintFmt`: a printed number reads back with `strtol()`, unless blanks come between its sign and its digits. `MemMove`: `memmove`, `memset`, `strlcpy` for all places and lengths, overlapping or not. `Strings`: each function returns and writes what the C library's would. `Strtol`: the value and the end of the number. `Snprintf`: the text is cut to the buffer, terminated, and its full length returned. `Kdebug`: the search finds the bracketing stabs. `Debuginfo`: file, function, line and arguments are the right ones. `Monitor`: the words are those of the line, and at most `MAXARGS - 1`. `UserMem`: an aligned range is checked page by page, and the reported address is the first bad one. All of them return |
| `envsched_twocpus` | `EnvSched` | (a violation, see below) |

`MCTrap`, `MCStartup`, `MCConsole` and `MCLibrary` each put together several modules that
share no state: they extend those that the proofs are about, whose definitions carry a
suffix where they would clash (`InitFork`, `SpecBoot`), and instantiate the others.  A behaviour chooses one of them, runs it, and leaves the others
in an initial state, so the reachable states are the sum of the parts', and a
property of one part is checked in all the states of that part.  What a property
says is explained in the module it comes from.

Where a component's correctness is several statements about the same state, a run
checks their conjunction under one name, and the module states each conjunct
with a comment of its own: `TreesWhole` (`Pmap`), `AddressSpacesLive`, `ComponentsKept` (`EnvVm`), `TrapsTransparent`
(`TrapFrame`), `FaultsHandled` (`PgFault`),
`PagesAccounted` (`PhysMem`), `KernelMapped` (`KernMap`: `KernPgdirChecked`,
`InvalidUnmapped` and `UserReadsArrays`), `ProgramLoaded` (`LoadIcode`),
`ProcessorsReady` (`Boot`), `KeysTracked` (`Keyboard`), `LineInput` (`Terminal`),
`OutputWhole` (`Cprintf`), `Isolation` (`ForkCow`), `RegionFound` (`Kdebug`),
`AnswerRight` (`UserMem`), and in `MCConsole` `InputServed` (the ring refines `Fifo`, and
every character is read).  The modules that join several parts add the statements of one
to the related one of another: `MemoryReady` is `PagesAccounted` (`PhysMem`) with
`EarlyAccess` (`EntryPaging`), `ProgramLoaded` and `AllRun` include `LoadedWhole` and
`Boots` (`BootMain`), and `ResultsRight` is what the functions of the library and the monitor
promise: `RegionsRight` (`MemMove`), `StringsRight` (`Strings`), `ParsesNumber`
(`Strtol`), `BufferRight` (`Snprintf`), `CommandRight` (`Monitor`) and `InfoRight`
(`Debuginfo`).

Every property of a passing run has a mutant: a plausible slip in a modelled
definition (`X_...` before `X` in the module) under which TLC finds the property
violated.

### Where the code departs from its comments

`envsched_twocpus` is a run of its own: a parent that wakes its child with
`sys_env_set_status()` while the child waits in `sys_ipc_recv()` leaves
`env_ipc_recving` set; a send then marks the running child `ENV_RUNNABLE`, and a
second processor runs it too, which `user/stresssched.c` is there to exclude.  The
programs of the other runs call `sys_env_set_status()` as `lib/fork.c` does.

The other departures we met limit what the passing runs claim.  Each can be seen
by giving TLC the definition in the second column, with the change in the third:

| module | definition | with | the code |
|---|---|---|---|
| `EnvSched` | `NoFreedPgdirInUse` | the constants of `envsched` | `env_run()` unlocks before `lcr3()` (`kern/env.c:697`), so a directory can be freed while another processor still has it loaded |
| `EnvSched` | `NoStarvation` | forks and exits among `Ops` | after an exit the search starts at slot 0, and a high slot can starve (`kern/sched.c:33`) |
| `EnvSched` | `EnvLife`, `RunningIffCurrent` | `"redestroy"` among `Ops` | a second `sys_env_destroy()` frees a zombie at once, under the processor that runs it (`kern/env.c:618`) |
| `EnvSched` | `FreeListExact` | `"badstatus"` among `Ops` | `sys_env_set_status()` stores any status (`kern/syscall.c:163`) |
| `EnvSched` | `SendOnlyToBlocked`, `EnvLife` | `"restatus"` among `Ops` | the first half of `envsched_twocpus` |
| `Pmap` | `RefCountExact` | as many places as `REFMOD` | `pp_ref` wraps (`kern/pmap.c:806`) |
| `Pmap` | `RefCountExact` | `{"ADDR"}` among `Perms` | `sys_page_map()` does not test `perm` (`kern/syscall.c:305`) |
| `Tlb` | `UserAgrees` | `RemoteEdits = TRUE` | `tlb_invalidate()` acts on its own processor (`kern/pmap.c:934`) |
| `Tlb` | `AlwaysAgrees` | | translations outlive their entries until the return to user mode (`kern/pmap.c:899`) |
| `UserMem` | `RangeChecked` | | the last page of an unaligned range is not checked (`kern/pmap.c:993`) |
| `PgFault` | `KernelSurvivesFaults` | | a full exception stack panics the kernel (`kern/trap.c:506`) |
| `PgFault` | `FramesDisjoint` | a `Depths` beyond the stack | a handler that has run off its stack gets a frame over its own (`kern/trap.c:499`) |
| `ForkCow` | `StartedIsComplete` | | `duppage()` ignores failures; the child starts without a page (`lib/fork.c:159`) |
| `Ipc` | `NoMemMeansNoMemory` | `Scarce = FALSE` | `-E_NO_MEM` when `dstva` is in use (`kern/syscall.c:472`) |
| `Ipc` | `KernelSurvives` | `Scarce = TRUE` | no memory for a page table panics the kernel (`kern/syscall.c:480`) |
| `Boot` | `BootcpuExists`, `KernelStacks`, `ProcessorsRun` | tables with the boot processor after `NCPU` others, not numbered 0, or with gaps in the numbers | `kern/mpconfig.c:196`, `kern/trap.c:125`, `kern/mpconfig.c:198` |
| `PhysMem` | `FreeIsMemory`, `PanicsWhenOut`, `AvailIsCounted` | less base memory than the hole leaves; little extended memory; any | `npages_basemem` is ignored (`kern/pmap.c:489`), `boot_alloc()` does not notice the end of memory (`kern/pmap.c:146`), `nAvailPages` is too large (`kern/pmap.c:502`) |
| `Console` | `ImplementsFifo` | `MAXBACKLOG = CONSBUFSIZE` | a full ring looks empty (`kern/console.c:412`) |
| `Kdebug` | `NoneContainsIsEmpty`; `Brackets` | any; stabs one byte apart | `kern/kdebug.c:101`, `kern/kdebug.c:97` |
| `PrintFmt` | `PadsRight`, `NumberWidth` | | numbers with the `-` flag, negative numbers with a width (`lib/printfmt.c:46`, `lib/printfmt.c:207`) |
| `PrintFmt` | `ReadsBack` | without `SignApart` | `%3d` prints `- 1`, and `strtol()` skips blanks before the sign only (`lib/printfmt.c:207`) |
| `TrapFrame` | `TrapsTransparent` | 17 among `Vectors` | `vect17` pushes an error code for the alignment check, which brings one (`kern/trapentry.S:69`; `CR0_AM` is set) |
| `Cprintf` | `LinesWhole` | | a line of exactly the buffer's size takes two calls (`lib/printf.c:31`) |

Others were met while reading and are left out of the models, or are in them without a
property of their own:

* `ipc_recv()` says that the permission is "nonzero iff a page was successfully
  transferred".  A page sent with `perm = 0` is mapped and not announced
  (`kern/syscall.c:483`); `PermTellsPage` speaks of pages that come with a permission.
* `sys_page_map()` promises `-E_BAD_ENV` if the caller may not change the destination, and
  does not ask (`kern/syscall.c:304`).  `ComponentsKept` says what is left: others can put
  pages of theirs into an address space, in the place of what was there, and cannot get at
  what it holds.
* `user_mem_check()` accepts some unaligned ranges whose last page is not accessible
  (`RangeChecked` above); `AnswerRight` and its theorem leave those ranges out.
* `entrypgdir.c` says of the low mapping that it is "critical for a few instructions in
  entry.S and then we never use it again": `mpentry.S` uses it again, and `EntryPaging`
  shows that it must.
* `debuginfo_eip()` says "If not found, return -1" of the line; there is no such test.
* `readseg()` says that overwriting neighbours "doesn't matter -- we load in increasing
  order".  That is so for segments that share a sector on the disk as they do in memory,
  which are the `Images` of `BootMain`.
* `putch()` of `kern/printf.c` advances its pointer and not the count (`*cnt++`), so
  `vcprintf()` returns 0.
* No command returns -1 "to force monitor to exit", so `monitor()` does not return and a
  breakpoint is the end (`EnvSched` and `TrapFrame` treat it so).

## 4. Bounds

The instances are the smallest in which the cases of interest meet.

* `EnvSched`: two processors, so that one can act while the other is in the
  unlocked tail of `env_run()` or waits; one user environment and one spare slot, so
  that slots are reused; `MAXGEN = 2`, so that generations wrap.  The safety
  properties are proved for any number (section 6).  `envsched_fair` has three user
  environments for two processors, because with as many processors as
  environments nobody can starve.
* `Pmap`: two environments, two directory and two table indices, six pages, fewer
  than all tables and mappings need, so that every allocation can fail.  `REFMOD` is above the
  number of mappings, so no count wraps, and `Perms` are flags only.  Pages,
  environments and indices are interchangeable (symmetry; no liveness is checked
  there).
* `EnvVm`: two processors, one first environment and two idle ones, one spare slot, five
  pages where two environments with a directory, a table and a page each need six, so
  every allocation can fail, a page can be sent, and a slot is reused while its old
  directory is somebody's data.
* `TrapFrame`: two processors and two environments, so that one can go on elsewhere while its
  frame is overwritten; an exception with and one without an error code, two interrupts (the
  timer and a device), two `int` instructions, and every kind of system call with an
  effect on a frame.
* `Tlb`: two processors, three environments (one is off the processors), two pages,
  two permissions; addresses do not interact, so there is one.
* `ForkCow`: three environments and two forks (a fork of a fork), one page and the
  frames that all copies need; `MAXFORKS` bounds the forks.
* `PgFault`: stacks a few frames deep, three nested faults (`MAXNEST`).
* `Ipc`: two senders, two receivers, one of them both; pages are sent with a permission
  and with none.
* `Boot`: `NCPU = 3`, tables with up to five processors in any order.
* `BootMain`: sectors of two bytes, two segments at all alignments, with and without BSS.
  `EntryPaging`: 16 pages in `entry_pgtable` and memory that ends before, at and after them.
* `PhysMem`, `KernMap`, `LoadIcode`, `UserMem`, `MemMove`: page and word sizes of a
  few units, all alignments.  `PhysMem` has extended memory beyond the end of
  the kernel; `LoadIcode` takes images whose segments do not touch a common page or
  the stack's, which `load_icode()`'s comment allows it to assume, and which end well below
  4 GB: `va + len` does not wrap there as it can in `region_alloc()` (`kern/env.c:363`).
* `Console`: a ring of five and a backlog that does not fill it (`MAXBACKLOG`).
  `Terminal`: a 3 by 2 screen, a line of three characters, `MAXTOP` scrolls.
  `Keyboard`: three keys down at once.
* `PrintFmt`: five-bit integers, formats of up to three characters after the first
  `%` (`MAXLEN`).  `Cprintf`: a buffer of four, two lines each.
* `Strings`: two strings anywhere in six bytes, three characters, one above 127.
  `Strtol`: every text of up to `MAXLEN` characters, in base 0, 8, 10 and 16.
  `Snprintf`: every buffer of up to five characters.  `Monitor`: every line of five
  characters, room for two words and the null pointer.
* `Kdebug`: six stabs at increasing addresses, one or two apart, with other types in
  between, and any part of the table as the region.  `Debuginfo`: the tables of
  programs of up to three files or functions (`UNITS`), with and without lines.

Deadlock is checked except where the system may stop: in the monitor, after a
panic, with all environments gone, at the end of a function that is run once, or
at a bound.

## 5. Fairness

* `EnvSched`: `WF` of `Trap`, `PopTf` and `Handler` of each processor, because they run
  instructions; `SF` of `Lock`: `xchg` in a loop gives no guarantee, and we assume
  that a processor does not lose every race for ever; `SF` of `Yield`: the periodic
  timer interrupts a program whatever system calls it makes.
* `Spinlock`: `WF` of each processor only, and the property is that *somebody* gets in.
* `Ipc`: `WF` of a sender's next try and of a receiver's return, because the scheduler
  runs both; `WaitEnds` promises that somebody gets through, not a given sender.
* `Boot`: `WF` of each processor.  `Console`: `WF` of the reader's next call, `SF` of a
  device running dry: it delivers slower than the loop polls.
* `BootMain`: `WF` of the loader with its disk: a disk that was given a command answers
  some time.
* `MCLibrary`: `WF` of the next step of a sequential function.

## 6. What is proved

Eight modules hold theorems; every leaf is checked by TLAPS.  A module that several
components share is divided by headings.  Most leaves name the prover that finds
them: `Zenon` where there is no arithmetic, the SMT solver otherwise.

The named assumptions on constants (`...Assumption`) say that they are of the right
kind: page sizes are positive, a buffer holds two characters, stacks do not overlap.
The runs evaluate them.  Where a theorem needs more than that, it is given as its hypothesis
below.

**EnvSchedProofs** (any `NCPU`, `NENV`, `MAXGEN` that satisfy
`ConstantsAssumption`).  Hypothesis `LibraryCalls`: programs make the system calls with the
arguments that the library passes; with the others the properties fail (section 3).  The invariant adds to the checked properties: who holds the lock
(`LockInv`), that a processor that works for an environment has one (`CurInv`),
that it has its page directory loaded in user mode (`Cr3Inv`), that idle environments are
nobody's children and run at home (`IdleInv`), and that envids in use are not 0
(`GenInv`).  Handlers end in the same two ways, so what a handler must hand over to
`sched_yield()` is collected in `Ready`, what remains in `Owed`, and the switch is
proved once.  Results: `TypeCorrect`, `NeverOnTwoCpus`, `RunningMeansOnCpu`, `OwnAddressSpace`,
`FreeListIsExact`, `ReceiversAreBlocked`, `IdleIsAvailable`, `MonitorOnlyWhenDone`, and the
action property `LivesInOrder`, from the invariant and one lemma per handler.

**PmapProofs** (any finite sets of pages, environments and indices).  Hypothesis
`NoWrap`: there are fewer places than values of `pp_ref`; without it the count wraps.
Hypothesis `FlagsOnly`: no `perm` has address bits; without it an entry can point to a page
that was never counted (section 3).  The operations pass through states in which a page is off the free list
and not yet pointed to; `Exact` is the invariant with a set of such pages, and is
proved for one pointer change at a time.  Results: `CountsAreExact`,
`FreePagesAreUnused`, `TablesArePrivate`, `TreesAreWhole`, `TypeCorrectPmap`, and the action
property `WriteAccessSpreadsOnly`.

**EnvVmProofs** (any constants that satisfy `EnvVmAssumption`; hypotheses `NoWrap` and
`FlagsOnly` of `Pmap` and `LibraryCalls` of `EnvSched`).  The composition inherits the two invariants: a step of `EnvVm` is a step of
`EnvSched` and a step of `Pmap` or a stutter of either (`Components`).  What is
proved here relates the two: an environment exists just when it has a page directory
(`MemoryFollowsLife`), and a processor that works for an environment stands on that
environment's present directory (`PgdirInv`).  The effects of the memory operations
on other environments' places are lemmas of their own (`CallEffect`, `SetupEffect`,
`FreeEffect`), because `env_free()` of one environment must leave the directory that
another processor stands on.  Results: `AddressSpacesStayLive`, `ComponentsAreKept`,
`TypeCorrectVm`.

**TrapProofs** (any processors, environments, vectors, `int` instructions and system
calls).  Hypothesis `NoAlignmentCheck`: vector 17 is not among them (section 3).  `TrapsTransparent` says what a program finds when it goes on.  The
inductive invariant `TInv` says where its registers are until then: in the
processor (`"user"`), in the words on the kernel stack (`"lock_kernel"`), in `env_tf`
(`Saved`), and that what the trap was can be read from the frame (`Decoded`).  That an
environment is on one processor at most (`Scheduled`), that a receiver is blocked
(`Receiving`), and that the child that a parent is about to start waits (`Requests`)
are needed because the system calls of one environment write to another's frame, which
they may do only while its registers are there.  The lemmas at the start are about the
seventeen words of a frame: what the processor, the entry point and `_alltraps` push is
what `env_pop_tf()` pops, and the five arguments of a stub are read back in their
order.  What all handlers have in common is `KernelStep`.  Result: `TrapsAreTransparent`.

**SyscallProofs** is about four parts.

* `Ipc` (any sets).  The invariant says that an environment has arguments
  exactly while it sends (`ArgsInv`) and that only who is in `ipc_recv()`, or was when it
  was destroyed, is marked as receiving (`RecvInv`).  Results: `SendsMeetReceives` (every
  step of `Ipc` is a step of `Rendezvous` or a stutter) and `PermIsTrue`.
* `UserMem` (any page size, any word size and `ULIM` that it divides).  The loop has found
  nothing wrong below the page it is at, and what is left ends where the range does
  (`LoopInv`); the answer says what it should (`EndInv`).  The first page of an unaligned
  range and a range that ends at the top of the address space are the cases that the
  arithmetic is about.  Result: `AnswersAreRight`: an address that is reported is the first
  bad one, and a range that is accepted is accessible if it is aligned or lies in one page.
* `PgFault` (stacks of any size, faults nested to any depth).  The frames of the faults being
  handled lie one below the other above the stack pointer, with the scratch word between
  them, and still hold what was pushed (`PInv`).  Hypothesis `OnStack`: a handler's stack
  pointer stays on the exception stack; without it the next frame is written over the
  present one (section 3).  Result: `FaultsAreHandled`.
* `Kdebug` (tables of any length, any region of them, any address).  What lies left of `l` is
  at or before the address, with its last stab in `region_left`; what lies right of `r` is
  after it and starts with a stab of the type (`BoundsInv`); there is no such stab between `m`
  and the middle (`InnerInv`); and the last loop does not leave the stab it looks for
  (`BackInv`).  An exact match changes `addr`, so the invariant speaks of `addr` on the left
  and of the caller's address on the right.  Result: `SearchIsRight`.

**ForkCowProofs** (any number of environments, frames and pages).  The two properties
are inductive only together with where everybody is: a parent in `fork()` has a child
of its own that does not run (`ChildInv`), the child has nothing yet at the pages the
loop has not reached (`LoopInv`) and has the others (`CopyInv`), and `pgfault()`
leaves `PFTEMP` empty when it is not at work (`FaultInv`).  The frame at `PFTEMP` is
nobody else's while it is filled (`TempPrivate`).  One lemma per action; what an
action does not touch is carried over by `LoopKept`, `CopyKept`, `FaultKept` and
`ExemptKept`.  Results: `MemoriesStayApart` (`Isolation`),
`ChildrenAreComplete`, `FaultsAreResolved`.

**ConsoleProofs** is about three parts.

* `Console` (any ring size and backlog).  Hypothesis `Bounded`: less than a ring
  of characters is waiting; without it a full ring looks empty (section 3).  The queue is
  the stretch of the ring from `rpos` to `wpos`; the lemmas are about positions modulo the
  size (`Remainders`), since the two wrap at different times.  Result: `RingIsQueue`, the
  refinement of `Fifo` that the run checks as part of `InputServed`.
* `Keyboard` (any of the keys, any number of them down and of codes not yet read).  The
  inductive part is about the codes on their way (`QueueInv`): an escape byte is followed
  by the byte it belongs to, and `E0ESC` is set just when the escape has been read and the
  byte has not.  With it the index into `shiftcode[]` is always that of the key.  Result:
  `KeysAreTracked`.
* `Cprintf` (buffers of two characters or more, lines of any length).  `OutInv` says of each
  environment which characters of its present line are on the screen, which in the buffer
  and which still to come, and that the characters of a short line that are on the screen
  lie together.  Result: `OutputIsWhole`.

**KernelProofs** is about four parts.

* `KernMap` (any page size, page table size, address width, number of pages, stacks and
  sizes of the arrays that fit).  `KernMapAssumption` is the layout: sizes and addresses are
  whole pages, `KERNBASE` and the devices begin at whole page tables, each array and the row of stacks fit in one
  page table's space, memory ends where the devices begin, and the arrays and stacks do not
  lie at the very end of physical memory.  The invariant `MapInv` says that the loop counts
  in pages (`CountInv`), that every entry was made by a call whose region contains it, with
  that call's permissions (`MadeInv`), that what a call has done is still as it left it,
  except the boot stack and the devices, which later calls map again (`DoneInv`), and that
  every page has a page table and the kernel may write through the directory's entries
  (`DirInv`).  `DoneInv` needs that no two other calls meet (`Apart`).  The lemmas before it are about
  `ROUNDUP` and whole pages; `MapPageFacts` has that no sum wraps around and that
  `compare_MAX()` never ends a call early.  Results: `KernelIsMapped`, `TypeCorrectMap`.
* `Boot` (any configuration tables, any `NCPU`).  Hypothesis `BootFirst`: the firmware lists
  the boot processor before the others, with number 0; otherwise the properties fail
  (section 3).  The invariant `BInv` says that `mp_init()` has numbered the processors in the
  order of the table (`ScanInv`), that nobody runs before `boot_aps()` (`BeforeInv`), and for
  each AP how far it is, given which one `boot_aps()` waits for (`StartInv`, `ApOf`): the one
  variable `mpentry_kstack` is enough because of that order.  Result: `ProcessorsAreReady`.
* `Tlb` (any sets).  Hypothesis: `RemoteEdits = FALSE`, without which it does not
  hold (section 3).  The invariant adds that no environment is on two processors (what
  `NeverOnTwoCpus` proves) and one processor at most is in the kernel.  Result:
  `Coherent`.
* `Spinlock` (any set of processors).  The lock word is
  set exactly while some processor is between its two exchanges, one at most is,
  and `lk->cpu` names a processor exactly between its `Record` and `Clear`.  The second
  part is needed because `holding()` reads two variables in turn: whatever mixture
  it sees, `cpu` is never the reader itself unless it holds the lock.  Results:
  `Excludes`, `NeverPanics`, and `Implements` (every step is a step of `Mutex` or a stutter).

`TypeCorrect`, `TypeCorrectPmap`, `TypeCorrectVm`, `TypeCorrectMap`, `IdleIsAvailable`, `TablesArePrivate`,
`Excludes` and `FaultsAreResolved` are theorems about definitions that no run lists by itself
(`TypeOK`, `TypeOKPmap`, `TypeOKVm`, `TypeOKMap`, `IdleAvailable`, `TablesPrivate`, `MutualExclusion`,
`FaultResolves`), and the theorems named `Invariance...` are about the inductive invariants;
the others state the property of a run.

Only model-checked:

* all liveness (`ZombieFreed`, `NoStarvation`, `SomebodyGetsIn`, `WaitEnds`, `AllRun`,
  `CallsReturn`, the second half of `InputServed`), which needs fairness and `ENABLED`;
* `ReadsBack`, `LineInput` and the parts of `ResultsRight` (`PrintFmt`, `Terminal`, `Snprintf`,
  `Strtol`, `MemMove`, `Strings`, `Monitor`, `Debuginfo`): their reference definitions are
  recursive over texts and numbers, or are about tables built by recursion, and induction
  over data is out of the prover's reach;
* `MemoryReady` and `ProgramLoaded` (`PhysMem`, `EntryPaging`, `LoadIcode`, `BootMain`): a
  free list followed through its links, and memory filled segment by segment, are
  recursive as well.

## 7. Plan

Next for the models: the walk of `mon_backtrace()` from frame to frame on a stack that
`TrapFrame` lays out, and the two polls of the keyboard controller in `boot.S`.

Next for the proofs: `EarlyAccess` for any number of entries, with the free list that
`page_init()` leaves given by its order instead of by its links.
