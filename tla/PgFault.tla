------------------------------ MODULE PgFault -------------------------------
(***************************************************************************)
(* Page faults handed to user code: page_fault_handler() (kern/trap.c)     *)
(* builds a frame on the user exception stack, _pgfault_upcall             *)
(* (lib/pfentry.S) calls the C handler and then returns to the faulting    *)
(* code without the kernel's help; set_pgfault_handler() (lib/pgfault.c)   *)
(* sets this up.  Handlers may fault themselves.                           *)
(*                                                                         *)
(* Memory is an array of words, each tagged with what it holds.  The user  *)
(* stack ends at USTACKTOP, the exception stack is UXSTACKBASE ..          *)
(* UXSTACKTOP-1, and there is nothing in between.  A frame has the layout  *)
(* of struct UTrapframe, in words:                                         *)
(*   0 utf_fault_va, 1 utf_err, 2-9 utf_regs, 10 utf_eip, 11 utf_eflags,   *)
(*   12 utf_esp.                                                           *)
(***************************************************************************)
EXTENDS Integers, Sequences

CONSTANTS
  USTACKTOP,    \* top of the user stack, in words
  UXSTACKBASE,  \* bottom and
  UXSTACKTOP,   \* top of the exception stack
  Codes,        \* what the registers of a program may hold when it faults
  Depths,       \* how many words of stack a program has in use when it faults
  MAXNEST       \* bound on the number of faults that are being handled

\* What the constants must satisfy.
PgFaultAssumption ==
  /\ USTACKTOP \in Nat /\ UXSTACKBASE \in Nat /\ UXSTACKTOP \in Nat
  /\ USTACKTOP < UXSTACKBASE /\ UXSTACKBASE + 13 <= UXSTACKTOP
  /\ Depths \subseteq Nat /\ MAXNEST \in Nat

UTRAP_SIZE == 13

Words == (0 .. USTACKTOP - 1) \cup (UXSTACKBASE .. UXSTACKTOP - 1)

VARIABLES
  mem,        \* the words of the two stacks
  user_regs,  \* the program's registers: eip, gpr, eflags, esp
  upcall,     \* env_pgfault_upcall is set
  uxpage,     \* the exception stack page is mapped writable
  status,     \* "alive", "destroyed" or, for the kernel, "panic"
  faults      \* what the registers were at the faults being handled, and the
              \* frame of each (not part of the program)

varsUpcall == <<mem, user_regs, upcall, uxpage, status, faults>>

-----------------------------------------------------------------------------
\* The fault that is being handled, and those that it interrupted.
Innermost == faults[Len(faults)]
Outer     == SubSeq(faults, 1, Len(faults) - 1)

\* The stack pointer with which the code that runs now was entered.
EntrySp == IF faults = << >> THEN USTACKTOP ELSE Innermost.utf

\* The words from esp up to the entry are the program's own; it may write them.
OwnWords(esp) == {a \in Words : esp <= a /\ a < EntrySp}

\* Words below the stack pointer are nobody's and are forgotten; with no fault
\* being handled that is the whole exception stack.
Forget(m, esp, fs) ==
  [a \in Words |-> IF \/ a < esp /\ (a < USTACKTOP <=> esp <= USTACKTOP)
                      \/ a >= UXSTACKBASE /\ fs = << >>
                   THEN <<"free">> ELSE m[a]]

\* The program runs for a while and is about to fault with x in its registers
\* and k words of its stack in use.
Run(x, k) ==
  /\ status = "alive"
  /\ k <= EntrySp
  /\ user_regs' = [eip |-> <<"eip", x>>, gpr |-> <<"gpr", x>>, eflags |-> <<"fl", x>>,
                   esp |-> EntrySp - k]
  /\ mem' = Forget([a \in Words |-> IF a \in OwnWords(EntrySp - k) THEN <<"own">> ELSE mem[a]],
                   EntrySp - k, faults)
  /\ UNCHANGED <<upcall, uxpage, status, faults>>

\* set_pgfault_handler(): sys_page_alloc() of the exception stack ...
SysPageAlloc ==
  /\ status = "alive" /\ ~ uxpage
  /\ uxpage' = TRUE
  /\ UNCHANGED <<mem, user_regs, upcall, status, faults>>

\* ... and then sys_env_set_pgfault_upcall().
SysEnvSetPgfaultUpcall ==
  /\ status = "alive" /\ uxpage /\ ~ upcall
  /\ upcall' = TRUE
  /\ UNCHANGED <<mem, user_regs, uxpage, status, faults>>

-----------------------------------------------------------------------------
\* page_fault_handler()

\* Mutant: every fault is taken to be the first.
Recursive_Never == FALSE

\* The fault happened on the exception stack.
Recursive == UXSTACKBASE <= user_regs.esp /\ user_regs.esp < UXSTACKTOP

\* No upcall, or user_mem_assert() fails for the exception stack.
Undeliverable ==
  /\ status = "alive"
  /\ ~ upcall \/ ~ uxpage
  /\ status' = "destroyed"
  /\ UNCHANGED <<mem, user_regs, upcall, uxpage, faults>>

\* The test for the overflow of the exception stack.
NoRoom == Recursive /\ user_regs.esp - (UTRAP_SIZE + 1) < UXSTACKBASE

\* It does not destroy the environment: it panics.
Overflow ==
  /\ status = "alive" /\ upcall /\ uxpage
  /\ NoRoom
  /\ status' = "panic"
  /\ UNCHANGED <<mem, user_regs, upcall, uxpage, faults>>

\* Mutant: the scratch word is left out.
FrameTop_NoScratch == IF Recursive THEN user_regs.esp ELSE UXSTACKTOP

\* Where the frame ends: a recursive fault leaves one word of scratch space.
FrameTop == IF Recursive THEN user_regs.esp - 1 ELSE UXSTACKTOP

\* The word at offset i of the frame that the kernel pushes.
FrameWord(i) ==
  CASE i = 12      -> <<"esp", user_regs.esp>>
    [] i = 11      -> user_regs.eflags
    [] i = 10      -> user_regs.eip
    [] i \in 2 .. 9 -> user_regs.gpr
    [] OTHER       -> <<"info">>

\* The frame is pushed, with a zero above it in the recursive case, and the
\* environment continues in its upcall.
Deliver ==
  LET utf == FrameTop - UTRAP_SIZE
  IN  /\ status = "alive" /\ upcall /\ uxpage
      /\ ~ NoRoom
      /\ Len(faults) < MAXNEST
      /\ mem' = [a \in Words |->
                   IF a \in utf .. FrameTop - 1 THEN FrameWord(a - utf)
                   ELSE IF Recursive /\ a = FrameTop THEN <<"zero">> ELSE mem[a]]
      /\ user_regs' = [user_regs EXCEPT !.esp = utf, !.eip = <<"_pgfault_upcall">>]
      /\ faults' = Append(faults, [regs |-> user_regs, utf |-> utf])
      /\ UNCHANGED <<upcall, uxpage, status>>

-----------------------------------------------------------------------------
\* _pgfault_upcall, once the C handler has returned with %esp at the frame.

\* It pushes the trap-time eip on the trap-time stack and stores the new
\* trap-time esp in the frame.
Pushed(utf) ==
  LET sp == mem[utf + 12][2] - 1
  IN  [[mem EXCEPT ![sp] = mem[utf + 10]] EXCEPT ![utf + 12] = <<"esp", sp>>]

\* Then popal, popf and popl %esp take the registers from the frame, and ret
\* takes the eip from the trap-time stack.
UpcallReturn ==
  /\ status = "alive"
  /\ faults # << >>
  /\ LET utf == EntrySp
         sp  == Pushed(utf)[utf + 12][2]
     IN  /\ mem[utf + 12][2] - 1 \in Words
         /\ mem' = Forget(Pushed(utf), sp + 1, Outer)
         /\ user_regs' = [eip |-> Pushed(utf)[sp], gpr |-> Pushed(utf)[utf + 2],
                          eflags |-> Pushed(utf)[utf + 11], esp |-> sp + 1]
  /\ faults' = Outer
  /\ UNCHANGED <<upcall, uxpage, status>>

-----------------------------------------------------------------------------
InitUpcall ==
  /\ mem = [a \in Words |-> <<"free">>]
  /\ user_regs = [eip |-> <<"start">>, gpr |-> <<"start">>, eflags |-> <<"start">>, esp |-> USTACKTOP]
  /\ upcall = FALSE
  /\ uxpage = FALSE
  /\ status = "alive"
  /\ faults = << >>

NextUpcall ==
  \/ \E x \in Codes, k \in Depths : Run(x, k)
  \/ SysPageAlloc \/ SysEnvSetPgfaultUpcall
  \/ Undeliverable \/ Overflow \/ Deliver
  \/ UpcallReturn

SpecUpcall == InitUpcall /\ [][NextUpcall]_varsUpcall

-----------------------------------------------------------------------------
\* The handler returns to the code that faulted with the registers, the
\* program counter and the stack pointer that it had, however deep the
\* handlers are nested: "all registers must have their trap-time values after
\* the return" (lib/pfentry.S).
ReturnStep ==
  Len(faults') < Len(faults) => user_regs' = Innermost.regs

\* The stack in use by the interrupted code survives: a fault and its handler
\* change no word above the interrupted stack pointer.
FaultStep ==
  \A i \in 1 .. Len(faults) :
    LET sp  == faults[i].regs.esp
        top == IF i = 1 THEN USTACKTOP ELSE faults[i - 1].utf + UTRAP_SIZE
    IN  Len(faults') >= i => \A a \in Words : sp <= a /\ a < top => mem'[a] = mem[a]

\* The code that faulted goes on as if nothing had happened: _pgfault_upcall()
\* returns to it with its registers, and its stack is as it left it.
ReturnsToFault == [][ReturnStep /\ FaultStep]_varsUpcall

\* Frames that are in use never overlap: a recursive fault pushes "another
\* page fault stack frame on top of the user exception stack" (kern/trap.c).
FramesDisjoint ==
  \A i, j \in 1 .. Len(faults) : i < j => faults[j].utf + UTRAP_SIZE <= faults[i].utf

\* Everything the kernel and the upcall write is inside the two stacks.
InsideStacks ==
  \A i \in 1 .. Len(faults) :
    UXSTACKBASE <= faults[i].utf /\ faults[i].utf + UTRAP_SIZE <= UXSTACKTOP

\* The frames of nested faults lie one below the other, inside the exception
\* stack: page_fault_handler() puts none over another or past an end.
FramesSafe == FramesDisjoint /\ InsideStacks

\* A page fault that user code handles disturbs nothing: the frames stay apart
\* and inside the exception stack, and the code that faulted goes on.
FaultsHandled == []FramesSafe /\ ReturnsToFault

\* "If there's no page fault upcall, the environment didn't allocate a page for
\* its exception stack or can't write to it, or the exception stack overflows,
\* then destroy the environment that caused the fault": a user program's
\* faults never stop the kernel.
KernelSurvivesFaults == status # "panic"
=============================================================================
