------------------------------ MODULE ForkCow -------------------------------
(***************************************************************************)
(* Copy-on-write fork in user space (lib/fork.c): fork(), duppage() and    *)
(* the page fault handler pgfault(), one system call per step, so that the *)
(* steps of several environments interleave as the scheduler pleases.      *)
(*                                                                         *)
(* What a system call does to page tables is sys_page_alloc/map/unmap() as *)
(* module Pmap has them.  Pmap shows that a frame is on the free list just *)
(* when nobody maps it, and that is how a free frame is defined here.      *)
(***************************************************************************)
EXTENDS Integers

CONSTANTS
  Procs,   \* slots of envs[]
  Root,    \* the environment that exists at the start
  Frames,  \* physical pages
  N,       \* pages 1 .. N of an address space are ordinary
  Values,  \* contents of a page, 0 among them
  MAXFORKS \* bound on the calls of fork()

\* What the constants must satisfy.
ForkCowAssumption ==
  /\ Root \in Procs
  /\ Frames \subseteq Nat
  /\ N \in Nat \ {0} /\ 1 .. N + 1 \subseteq Frames
  /\ 0 \in Values /\ MAXFORKS \in Nat

PFTEMP   == 0         \* where the fault handler builds a copy
UXSTACK  == N + 1     \* the exception stack, the last page below UTOP
Ordinary == 1 .. N
Pages    == PFTEMP .. UXSTACK

Unmapped == [frame |-> -1, perm |-> "none"]
Idle     == [child |-> Root, pn |-> 0, step |-> "none"]
NoFault  == [pn |-> 0, step |-> "none"]

VARIABLES
  proc_status, \* of each slot: "free", "embryo" (NOT_RUNNABLE), "run", "panic"
  pt,          \* page tables: a frame and "W", "R" or "COW" for each page
  content,     \* contents of the frames
  forking,     \* how far each environment is in fork()
  fault,       \* how far each environment is in pgfault()
  view,        \* what each environment believes its pages to hold (not in the code)
  forks,       \* calls of fork() so far (not in the code)
  lost         \* children that miss a page because a call failed (not in the code)

varsFork == <<proc_status, pt, content, forking, fault, view, forks, lost>>

-----------------------------------------------------------------------------
Entry(f, p) == [frame |-> f, perm |-> p]

Used       == {pt[e][n].frame : e \in Procs, n \in Pages}
FreeFrames == Frames \ Used

\* The page that page_alloc() takes off the free list; any free one will do.
page_alloc == CHOOSE f \in FreeFrames : TRUE

\* What a frame holds is forgotten when the last mapping goes: nobody reads it
\* before sys_page_alloc() clears it.
ForgetFrames(p) ==
  [f \in Frames |-> IF \E e \in Procs, n \in Pages : p[e][n].frame = f THEN content[f] ELSE 0]

\* e executes user code: not in a system call, not in a fault handler.
Runs(e) == proc_status[e] = "run" /\ fault[e] = NoFault

Panics(e) == proc_status' = [proc_status EXCEPT ![e] = "panic"]

InitFork ==
  /\ proc_status = [e \in Procs |-> IF e = Root THEN "run" ELSE "free"]
  /\ \E ro \in SUBSET Ordinary :
       pt = [e \in Procs |-> [n \in Pages |->
               IF e # Root \/ n = PFTEMP THEN Unmapped
               ELSE Entry(n, IF n \in ro THEN "R" ELSE "W")]]
  /\ content = [f \in Frames |-> 0]
  /\ forking = [e \in Procs |-> Idle]
  /\ fault = [e \in Procs |-> NoFault]
  /\ view = [e \in Procs |-> [n \in Pages |-> 0]]
  /\ forks = 0
  /\ lost = {}

-----------------------------------------------------------------------------
\* fork()

\* sys_exofork() creates the child, whose upcall is set to the parent's.
Exofork(e, c) ==
  /\ Runs(e) /\ forking[e] = Idle
  /\ forks < MAXFORKS
  /\ proc_status[c] = "free"
  /\ proc_status' = [proc_status EXCEPT ![c] = "embryo"]
  /\ forking' = [forking EXCEPT ![e] = [child |-> c, pn |-> PFTEMP, step |-> "child"]]
  /\ forks' = forks + 1
  /\ UNCHANGED <<pt, content, fault, view, lost>>

\* No slot is free: fork() panics.
ExoforkFails(e) ==
  /\ Runs(e) /\ forking[e] = Idle
  /\ \A c \in Procs : proc_status[c] # "free"
  /\ Panics(e)
  /\ UNCHANGED <<pt, content, forking, fault, view, forks, lost>>

\* Mutant: a step too far.
NextPage_Two(e) == [forking EXCEPT ![e].pn = @ + 2, ![e].step = "child"]

\* Where the loop over the pages goes after page n.
NextPage(e) == [forking EXCEPT ![e].pn = @ + 1, ![e].step = "child"]

\* The loop passes over a page that is not mapped.
SkipPage(e) ==
  /\ Runs(e)
  /\ forking[e].step = "child" /\ forking[e].pn < UXSTACK
  /\ pt[e][forking[e].pn] = Unmapped
  /\ forking' = NextPage(e)
  /\ UNCHANGED <<proc_status, pt, content, fault, view, forks, lost>>

\* Mutant: the child gets the parent's permissions.
ChildPerm_Same(p) == p

\* The permissions that duppage() gives the child.
ChildPerm(p) == IF p = "R" THEN "R" ELSE "COW"

\* duppage(): the first sys_page_map().  A failure, for want of a page table in
\* the child, is ignored.  A read-only page needs no second call.
DupChild(e, ok) ==
  LET n == forking[e].pn
      c == forking[e].child
  IN  /\ Runs(e)
      /\ forking[e].step = "child" /\ n < UXSTACK
      /\ pt[e][n] # Unmapped
      /\ pt' = IF ok THEN [pt EXCEPT ![c][n] = Entry(pt[e][n].frame, ChildPerm(pt[e][n].perm))]
                     ELSE pt
      /\ view' = [view EXCEPT ![c][n] = view[e][n]]
      /\ lost' = IF ok THEN lost ELSE lost \cup {c}
      /\ forking' = IF pt[e][n].perm = "R" THEN NextPage(e)
                    ELSE [forking EXCEPT ![e].step = "self"]
      /\ UNCHANGED <<proc_status, content, fault, forks>>

\* Mutant: the parent's mapping stays writable.
DupSelf_Not(e) ==
  /\ Runs(e)
  /\ forking[e].step = "self"
  /\ forking' = NextPage(e)
  /\ UNCHANGED <<proc_status, pt, content, fault, view, forks, lost>>

\* duppage(): the second sys_page_map() marks the parent's own mapping.
DupSelf(e) ==
  LET n == forking[e].pn
  IN  /\ Runs(e)
      /\ forking[e].step = "self"
      /\ pt' = [pt EXCEPT ![e][n].perm = "COW"]
      /\ forking' = NextPage(e)
      /\ UNCHANGED <<proc_status, content, fault, view, forks, lost>>

\* The child's exception stack is a new page; a failure is ignored.
AllocUxstack(e) ==
  LET c == forking[e].child
  IN  /\ Runs(e)
      /\ forking[e].step = "child" /\ forking[e].pn = UXSTACK
      /\ \/ /\ FreeFrames # {}
            /\ pt' = [pt EXCEPT ![c][UXSTACK] = Entry(page_alloc, "W")]
            /\ content' = [content EXCEPT ![page_alloc] = 0]
            /\ view' = [view EXCEPT ![c][UXSTACK] = 0]
            /\ UNCHANGED lost
         \/ /\ FreeFrames = {}
            /\ lost' = lost \cup {c}
            /\ UNCHANGED <<pt, content, view>>
      /\ forking' = [forking EXCEPT ![e].step = "start"]
      /\ UNCHANGED <<proc_status, fault, forks>>

\* sys_env_set_status() starts the child and fork() returns.
SetStatus(e) ==
  /\ Runs(e)
  /\ forking[e].step = "start"
  /\ proc_status' = [proc_status EXCEPT ![forking[e].child] = "run"]
  /\ forking' = [forking EXCEPT ![e] = Idle]
  /\ UNCHANGED <<pt, content, fault, view, forks, lost>>

-----------------------------------------------------------------------------
\* Stores and pgfault()

\* e is in duppage() between the two calls for page n.
HalfCopied(e, n) == forking[e].step = "self" /\ forking[e].pn = n

\* And both map the same frame.
SharedHalf(e, n) == HalfCopied(e, n) /\ pt[forking[e].child][n].frame = pt[e][n].frame

\* A store of the program, or of fork() itself, to a writable page.  A child's
\* copy of a page that is not private yet is only fixed by the second call.
Write(e, n, v) ==
  /\ Runs(e)
  /\ pt[e][n].perm = "W"
  /\ content' = [content EXCEPT ![pt[e][n].frame] = v]
  /\ view' = [d \in Procs |-> [m \in Pages |->
                IF m = n /\ (d = e \/ (d = forking[e].child /\ SharedHalf(e, n)))
                THEN v ELSE view[d][m]]]
  /\ UNCHANGED <<proc_status, pt, forking, fault, forks, lost>>

\* A store to a copy-on-write page enters pgfault(), if there is a stack for it.
WriteFault(e, n) ==
  /\ Runs(e)
  /\ pt[e][n].perm = "COW" /\ pt[e][UXSTACK] # Unmapped
  /\ fault' = [fault EXCEPT ![e] = [pn |-> n, step |-> "alloc"]]
  /\ UNCHANGED <<proc_status, pt, content, forking, view, forks, lost>>

\* A store to another page makes pgfault() panic.
BadWrite(e, n) ==
  /\ Runs(e)
  /\ pt[e][n].perm \in {"R", "none"} /\ pt[e][UXSTACK] # Unmapped
  /\ Panics(e)
  /\ UNCHANGED <<pt, content, forking, fault, view, forks, lost>>

\* sys_page_alloc(PFTEMP); without memory pgfault() panics.
FaultAlloc(e) ==
  /\ proc_status[e] = "run" /\ fault[e].step = "alloc"
  /\ \/ /\ FreeFrames # {}
        /\ pt' = [pt EXCEPT ![e][PFTEMP] = Entry(page_alloc, "W")]
        /\ content' = [content EXCEPT ![page_alloc] = 0]
        /\ fault' = [fault EXCEPT ![e].step = "copy"]
        /\ UNCHANGED proc_status
     \/ /\ FreeFrames = {}
        /\ Panics(e)
        /\ UNCHANGED <<pt, content, fault>>
  /\ UNCHANGED <<forking, view, forks, lost>>

\* memmove()
FaultCopy(e) ==
  /\ proc_status[e] = "run" /\ fault[e].step = "copy"
  /\ content' = [content EXCEPT ![pt[e][PFTEMP].frame] = content[pt[e][fault[e].pn].frame]]
  /\ fault' = [fault EXCEPT ![e].step = "map"]
  /\ UNCHANGED <<proc_status, pt, forking, view, forks, lost>>

\* sys_page_map() of the copy over the old page
FaultMap(e) ==
  /\ proc_status[e] = "run" /\ fault[e].step = "map"
  /\ pt' = [pt EXCEPT ![e][fault[e].pn] = Entry(pt[e][PFTEMP].frame, "W")]
  /\ content' = ForgetFrames(pt')
  /\ fault' = [fault EXCEPT ![e].step = "unmap"]
  /\ UNCHANGED <<proc_status, forking, view, forks, lost>>

\* sys_page_unmap(PFTEMP); pgfault() returns and the store is tried again.
FaultUnmap(e) ==
  /\ proc_status[e] = "run" /\ fault[e].step = "unmap"
  /\ pt' = [pt EXCEPT ![e][PFTEMP] = Unmapped]
  /\ fault' = [fault EXCEPT ![e] = NoFault]
  /\ UNCHANGED <<proc_status, content, forking, view, forks, lost>>

\* The environment exits, or is destroyed by its parent or for a fault it has no
\* stack for; env_free() gives its pages back.  A child that it was copying
\* itself into stays behind as it is.
EnvFree(e) ==
  /\ proc_status[e] \in {"run", "panic"}
  /\ proc_status' = [proc_status EXCEPT ![e] = "free"]
  /\ pt' = [pt EXCEPT ![e] = [n \in Pages |-> Unmapped]]
  /\ forking' = [forking EXCEPT ![e] = Idle]
  /\ fault' = [fault EXCEPT ![e] = NoFault]
  /\ lost' = lost \ {e}
  /\ view' = [view EXCEPT ![e] = [n \in Pages |-> 0]]
  /\ content' = ForgetFrames(pt')
  /\ UNCHANGED forks

-----------------------------------------------------------------------------
ForkStep(e) ==
  \/ SkipPage(e) \/ DupChild(e, TRUE) \/ DupChild(e, FALSE) \/ DupSelf(e)
  \/ AllocUxstack(e) \/ SetStatus(e)

PgfaultStep(e) == FaultAlloc(e) \/ FaultCopy(e) \/ FaultMap(e) \/ FaultUnmap(e)

NextFork ==
  \E e \in Procs :
    \/ \E c \in Procs : Exofork(e, c)
    \/ ExoforkFails(e)
    \/ ForkStep(e)
    \/ \E n \in Ordinary, v \in Values : Write(e, n, v)
    \/ \E n \in Ordinary : WriteFault(e, n) \/ BadWrite(e, n)
    \/ PgfaultStep(e)
    \/ EnvFree(e)

SpecFork == InitFork /\ [][NextFork]_varsFork

-----------------------------------------------------------------------------
\* Types; a mapping in the child or after a fault has one of the permissions that
\* duppage() and pgfault() give.
TypeOKFork ==
  /\ proc_status \in [Procs -> {"free", "embryo", "run", "panic"}]
  /\ pt \in [Procs -> [Pages -> [frame : Frames, perm : {"W", "R", "COW"}] \cup {Unmapped}]]
  /\ content \in [Frames -> Values]
  /\ forking \in [Procs -> [child : Procs, pn : Pages, step : {"child", "self", "start", "none"}]]
  /\ fault \in [Procs -> [pn : Pages, step : {"alloc", "copy", "map", "unmap", "none"}]]
  /\ view \in [Procs -> [Pages -> Values]]
  /\ lost \subseteq Procs

\* After fork() parent and child have memories of their own: every page holds what
\* its own environment last stored there, or what it held when it was copied,
\* whatever the relatives do and wherever they are in fork() or pgfault().
SeparateMemories ==
  \A e \in Procs, n \in Ordinary :
    pt[e][n] # Unmapped => content[pt[e][n].frame] = view[e][n]

\* Why: a frame that somebody may write is mapped nowhere else.  There are two
\* exceptions, both short: the parent is between the two calls of duppage() (and
\* the child does not run yet), or pgfault() has mapped its copy in place and
\* still has it at PFTEMP.
WritableIsPrivate ==
  \A d, e \in Procs, m, n \in Pages :
    /\ <<d, m>> # <<e, n>>
    /\ pt[d][m].perm = "W"
    /\ pt[e][n].frame = pt[d][m].frame
    => \/ SharedHalf(d, m) /\ e = forking[d].child /\ n = m /\ proc_status[e] = "embryo"
       \/ d = e /\ PFTEMP \in {m, n} /\ fault[e].step = "unmap"

\* Separate memories, and the reason that keeps them so.
Isolation == SeparateMemories /\ WritableIsPrivate

\* A child that fork() starts, with no call having failed, has all the ordinary
\* pages of its parent and an exception stack of its own.
StartStep ==
  \A e \in Procs :
    proc_status[e] = "embryo" /\ proc_status'[e] = "run" /\ e \notin lost =>
      \E d \in Procs :
        /\ forking[d].child = e /\ forking[d].step = "start"
        /\ \A n \in Ordinary : pt[d][n] # Unmapped => pt[e][n] # Unmapped
        /\ pt[e][UXSTACK] # Unmapped

StartsComplete == [][StartStep]_varsFork

\* fork() "Returns: child's envid to the parent, 0 to the child, < 0 on error"
\* (lib/fork.c): a child whose copy is incomplete is not started.
StartedIsComplete ==
  \A e \in Procs : proc_status[e] = "run" => e \notin lost

\* A store that faulted can go ahead when pgfault() returns.
ResolveStep ==
  \A e \in Procs :
    fault[e].step = "unmap" /\ fault'[e] = NoFault /\ proc_status'[e] = "run" =>
      pt'[e][fault[e].pn].perm = "W"

FaultResolves == [][ResolveStep]_varsFork
=============================================================================
