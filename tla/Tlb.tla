-------------------------------- MODULE Tlb ---------------------------------
(***************************************************************************)
(* The translation caches (TLBs) of the processors against the page tables *)
(* that page_insert() and page_remove() (kern/pmap.c) change.  A processor *)
(* fills its TLB as a user program uses addresses; only invlpg and a load  *)
(* of cr3 empty it.                                                        *)
(***************************************************************************)
EXTENDS Integers, FiniteSets

CONSTANTS
  Cores, Envs, Vas, Frames, Perms, NoEntry,
  RemoteEdits   \* an environment may change the mappings of one that runs elsewhere

ASSUME TlbAssumption ==
  /\ NoEntry \notin Frames \X Perms
  /\ Cardinality(Cores) <= Cardinality(Envs)
  /\ RemoteEdits \in BOOLEAN

VARIABLES
  pt,      \* the page tables: environment, address -> <<page, perm>>
  tlb,     \* processor, address -> <<page, perm>>
  curenv,
  mode     \* "user" or "kernel"; the kernel lock admits one processor

varsTlb == <<pt, tlb, curenv, mode>>

Entries == (Frames \X Perms) \cup {NoEntry}

InitTlb ==
  /\ pt = [e \in Envs |-> [va \in Vas |-> NoEntry]]
  /\ tlb = [c \in Cores |-> [va \in Vas |-> NoEntry]]
  /\ curenv \in {f \in [Cores -> Envs] : \A c, d \in Cores : c # d => f[c] # f[d]}
  /\ mode = [c \in Cores |-> "user"]

-----------------------------------------------------------------------------
\* The processor walks the page tables for an address that is not cached, in user
\* mode or for the kernel.
Access(c, va) ==
  /\ tlb[c][va] = NoEntry
  /\ pt[curenv[c]][va] # NoEntry
  /\ tlb' = [tlb EXCEPT ![c][va] = pt[curenv[c]][va]]
  /\ UNCHANGED <<pt, curenv, mode>>

\* trap() takes the kernel lock.
Trap(c) ==
  /\ \A d \in Cores : mode[d] = "user"
  /\ mode' = [mode EXCEPT ![c] = "kernel"]
  /\ UNCHANGED <<pt, tlb, curenv>>

\* The environments whose mappings the system calls of c may change.
Edits(c, e) ==
  /\ mode[c] = "kernel"
  /\ RemoteEdits \/ \A d \in Cores : curenv[d] = e => d = c

Maps(x, f) == x # NoEntry /\ x[1] = f

\* pp_ref
Refs(f) == Cardinality({p \in Envs \X Vas : Maps(pt[p[1]][p[2]], f)})

\* tlb_invalidate(), which page_remove() calls when the page is free
Invalidated(c, e, va) ==
  IF Refs(pt[e][va][1]) = 1 /\ curenv[c] = e THEN [tlb EXCEPT ![c][va] = NoEntry] ELSE tlb

PageRemove(c, e, va) ==
  /\ Edits(c, e)
  /\ pt[e][va] # NoEntry
  /\ tlb' = Invalidated(c, e, va)
  /\ pt' = [pt EXCEPT ![e][va] = NoEntry]
  /\ UNCHANGED <<curenv, mode>>

\* page_insert(): a different page that is there is removed first; for the same
\* page only the permissions change.
PageInsert(c, e, va, f, perm) ==
  /\ Edits(c, e)
  /\ tlb' = IF pt[e][va] # NoEntry /\ ~Maps(pt[e][va], f) THEN Invalidated(c, e, va) ELSE tlb
  /\ pt' = [pt EXCEPT ![e][va] = <<f, perm>>]
  /\ UNCHANGED <<curenv, mode>>

\* Mutant: cr3 is loaded only for another environment.
Lcr3_OnSwitch(c, e) ==
  IF curenv[c] = e THEN tlb ELSE [tlb EXCEPT ![c] = [va \in Vas |-> NoEntry]]

\* lcr3() empties the TLB.
Lcr3(c, e) == [tlb EXCEPT ![c] = [va \in Vas |-> NoEntry]]

\* env_run()
EnvRun(c, e) ==
  /\ mode[c] = "kernel"
  /\ \A d \in Cores \ {c} : curenv[d] # e
  /\ tlb' = Lcr3(c, e)
  /\ curenv' = [curenv EXCEPT ![c] = e]
  /\ mode' = [mode EXCEPT ![c] = "user"]
  /\ UNCHANGED pt

NextTlb ==
  \E c \in Cores :
    \/ \E va \in Vas : Access(c, va)
    \/ Trap(c)
    \/ \E e \in Envs, va \in Vas : PageRemove(c, e, va)
    \/ \E e \in Envs, va \in Vas, f \in Frames, perm \in Perms :
         PageInsert(c, e, va, f, perm)
    \/ \E e \in Envs : EnvRun(c, e)

SpecTlb == InitTlb /\ [][NextTlb]_varsTlb

-----------------------------------------------------------------------------
\* Types.
TypeOKTlb ==
  /\ pt \in [Envs -> [Vas -> Entries]]
  /\ tlb \in [Cores -> [Vas -> Entries]]
  /\ curenv \in [Cores -> Envs]
  /\ mode \in [Cores -> {"user", "kernel"}]

\* No environment runs on two processors (the invariant of module EnvSched, here
\* for the part of it that a TLB depends on), and one processor at most is in
\* the kernel.
RunsOnce == \A c, d \in Cores : c # d => curenv[c] # curenv[d]

OneInKernel == \A c, d \in Cores : mode[c] = "kernel" /\ mode[d] = "kernel" => c = d

Agrees(c) == \A va \in Vas : tlb[c][va] \in {NoEntry, pt[curenv[c]][va]}

\* A user program reaches only the pages that its environment's page tables map
\* at that moment, with the permissions they give, although page_remove() seldom invalidates anything: each
\* return to user mode goes through env_run(), which loads cr3.
UserAgrees == \A c \in Cores : mode[c] = "user" => Agrees(c)

\* "The TLB must be invalidated if you remove an entry from the page table."
\* (page_remove()): also while the kernel still runs.
AlwaysAgrees == \A c \in Cores : Agrees(c)
=============================================================================
