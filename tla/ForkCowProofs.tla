---------------------------- MODULE ForkCowProofs ---------------------------
(***************************************************************************)
(* Proofs about ForkCow: for any number of environments, frames and pages, *)
(* whatever the order of the system calls of fork() and pgfault(), the     *)
(* memories of parent and child stay apart.                                *)
(***************************************************************************)
EXTENDS ForkCow, TLAPS

Mapped == [frame : Frames, perm : {"W", "R", "COW"}]

\* The types, one by one.
Typed ==
  /\ proc_status \in [Procs -> {"free", "embryo", "run", "panic"}]
  /\ pt \in [Procs -> [Pages -> Mapped \cup {Unmapped}]]
  /\ content \in [Frames -> Values]
  /\ forking \in [Procs -> [child : Procs, pn : Pages, step : {"child", "self", "start", "none"}]]
  /\ fault \in [Procs -> [pn : Pages, step : {"alloc", "copy", "map", "unmap", "none"}]]
  /\ view \in [Procs -> [Pages -> Values]]
  /\ lost \subseteq Procs

\* A free slot has no memory.
FreeInv == \A e \in Procs : proc_status[e] = "free" => \A n \in Pages : pt[e][n] = Unmapped

\* Who is in fork() has a child of its own that does not run.
ChildOf(e) ==
  forking[e].step # "none" =>
    /\ proc_status[e] \in {"run", "panic"}
    /\ proc_status[forking[e].child] = "embryo"
    /\ \A d \in Procs \ {e} : forking[d].step # "none" => forking[d].child # forking[e].child

\* What the loop has yet to reach is not mapped in the child, and the page between the
\* two calls of duppage() is one that is copied.
LoopOf(e) ==
  /\ forking[e].step = "child" =>
       \A n \in Pages : n >= forking[e].pn => pt[forking[e].child][n] = Unmapped
  /\ forking[e].step = "self" =>
       /\ forking[e].pn \in Ordinary /\ pt[e][forking[e].pn].perm \in {"W", "COW"}
       /\ \A n \in Pages : n > forking[e].pn => pt[forking[e].child][n] = Unmapped

\* The loop has passed page n.
Passed(e, n) ==
  forking[e].step = "start" \/ n < forking[e].pn \/ (forking[e].step = "self" /\ n = forking[e].pn)

\* And the pages it has passed are mapped in the child.
CopyOf(e) ==
  forking[e].step # "none" /\ forking[e].child \notin lost =>
    /\ \A n \in Ordinary : Passed(e, n) /\ pt[e][n] # Unmapped => pt[forking[e].child][n] # Unmapped
    /\ forking[e].step = "start" => pt[forking[e].child][UXSTACK] # Unmapped

\* What pgfault() has done so far.
FaultOf(e) ==
  /\ fault[e].step # "none" => proc_status[e] \in {"run", "panic"} /\ fault[e].pn \in Ordinary
  /\ fault[e].step \in {"none", "alloc"} => pt[e][PFTEMP] = Unmapped
  /\ fault[e].step \in {"alloc", "copy", "map"} => pt[e][fault[e].pn].perm = "COW"
  /\ fault[e].step \in {"copy", "map"} => pt[e][PFTEMP].perm = "W"
  /\ fault[e].step = "map" => content[pt[e][PFTEMP].frame] = view[e][fault[e].pn]
  /\ fault[e].step = "unmap" => pt[e][fault[e].pn].perm = "W"

\* The two cases in which a frame that d may write at m is mapped at l of b too.
Exempt(d, m, b, l) ==
  \/ SharedHalf(d, m) /\ b = forking[d].child /\ l = m /\ proc_status[b] = "embryo"
  \/ d = b /\ PFTEMP \in {m, l} /\ fault[b].step = "unmap"

ChildInv == \A e \in Procs : ChildOf(e)
LoopInv  == \A e \in Procs : LoopOf(e)
CopyInv  == \A e \in Procs : CopyOf(e)
FaultInv == \A e \in Procs : FaultOf(e)

Inv  == FreeInv /\ ChildInv /\ LoopInv /\ CopyInv /\ FaultInv /\ SeparateMemories /\ WritableIsPrivate
IInv == Typed /\ Inv

-----------------------------------------------------------------------------
\* The entries of a page table.
LEMMA Entries ==
  ASSUME ForkCowAssumption
  PROVE  /\ Unmapped.frame = -1 /\ Unmapped.perm = "none" /\ -1 \notin Frames
         /\ \A x \in Mapped : x # Unmapped /\ x.frame \in Frames /\ x.perm \in {"W", "R", "COW"}
         /\ \A f \in Frames, p \in {"W", "R", "COW"} :
              Entry(f, p) \in Mapped /\ Entry(f, p).frame = f /\ Entry(f, p).perm = p
<1>1. -1 \notin Frames
  BY DEF ForkCowAssumption
<1>2. \A x \in Mapped : x.frame \in Frames /\ x.perm \in {"W", "R", "COW"}
  BY Zenon DEF Mapped
<1>3. Unmapped.frame = -1 /\ Unmapped.perm = "none"
  BY Zenon DEF Unmapped
<1>4. \A f \in Frames, p \in {"W", "R", "COW"} :
        Entry(f, p) \in Mapped /\ Entry(f, p).frame = f /\ Entry(f, p).perm = p
  BY Zenon DEF Mapped, Entry
<1> QED BY <1>1, <1>2, <1>3, <1>4, Zenon

\* The pages of an address space.
LEMMA PageFacts ==
  ASSUME ForkCowAssumption
  PROVE  /\ PFTEMP \in Pages /\ UXSTACK \in Pages /\ Ordinary \subseteq Pages
         /\ PFTEMP \notin Ordinary /\ UXSTACK \notin Ordinary /\ PFTEMP # UXSTACK
         /\ \A n \in Pages : n \in Nat /\ n <= UXSTACK /\ (n # PFTEMP /\ n # UXSTACK => n \in Ordinary)
         /\ \A n \in Pages : n < UXSTACK => n + 1 \in Pages
         /\ \A n \in Ordinary : n < UXSTACK
BY DEF ForkCowAssumption, PFTEMP, UXSTACK, Pages, Ordinary

\* page_alloc() returns a frame that nobody maps.
LEMMA AllocFree ==
  ASSUME ForkCowAssumption, FreeFrames # {}
  PROVE  /\ page_alloc \in Frames
         /\ \A e \in Procs, n \in Pages : pt[e][n].frame # page_alloc
<1>1. page_alloc \in FreeFrames
  BY Zenon DEF page_alloc
<1> QED BY <1>1 DEF FreeFrames, Used

\* What the types say of the single entries.
TypeFacts ==
  /\ \A e \in Procs : /\ proc_status[e] \in {"free", "embryo", "run", "panic"}
                      /\ forking[e].child \in Procs /\ forking[e].pn \in Pages
                      /\ forking[e].step \in {"child", "self", "start", "none"}
                      /\ fault[e].pn \in Pages
                      /\ fault[e].step \in {"alloc", "copy", "map", "unmap", "none"}
  /\ \A e \in Procs, n \in Pages :
       \/ pt[e][n] = Unmapped
       \/ /\ pt[e][n] # Unmapped /\ pt[e][n] \in Mapped
          /\ pt[e][n].frame \in Frames /\ pt[e][n].perm \in {"W", "R", "COW"}
  /\ Unmapped.frame \notin Frames /\ Unmapped.perm = "none"

\* So they do.
LEMMA TypesOfEntries == ASSUME ForkCowAssumption, Typed PROVE TypeFacts
<1>1. \A e \in Procs, n \in Pages : pt[e][n] \in Mapped \cup {Unmapped}
  BY DEF Typed
<1>2. \A e \in Procs : /\ proc_status[e] \in {"free", "embryo", "run", "panic"}
                       /\ forking[e].child \in Procs /\ forking[e].pn \in Pages
                       /\ forking[e].step \in {"child", "self", "start", "none"}
                       /\ fault[e].pn \in Pages
                       /\ fault[e].step \in {"alloc", "copy", "map", "unmap", "none"}
  BY Zenon DEF Typed
<1> QED BY <1>1, <1>2, Entries DEF TypeFacts

\* WritableIsPrivate of two mappings, and for the next state.
LEMMA Unshared ==
  ASSUME WritableIsPrivate, NEW d \in Procs, NEW b \in Procs, NEW m \in Pages, NEW l \in Pages,
         ~ (d = b /\ m = l), pt[d][m].perm = "W", pt[b][l].frame = pt[d][m].frame
  PROVE  Exempt(d, m, b, l)
<1>1. <<d, m>> # <<b, l>>
  BY Zenon
<1> QED BY <1>1 DEF WritableIsPrivate, Exempt

\* It is enough to look at two different mappings at a time.
LEMMA PrivateAfter ==
  ASSUME \A d, b \in Procs, m, l \in Pages :
           ~ (d = b /\ m = l) /\ pt'[d][m].perm = "W" /\ pt'[b][l].frame = pt'[d][m].frame =>
             Exempt(d, m, b, l)'
  PROVE  WritableIsPrivate'
<1> SUFFICES ASSUME NEW d \in Procs, NEW b \in Procs, NEW m \in Pages, NEW l \in Pages,
                    <<d, m>> # <<b, l>>, pt'[d][m].perm = "W", pt'[b][l].frame = pt'[d][m].frame
             PROVE  Exempt(d, m, b, l)'
  BY DEF WritableIsPrivate, Exempt
<1>1. ~ (d = b /\ m = l)
  BY Zenon
<1> QED BY <1>1, Zenon

\* An exception lasts as long as the call of duppage() or pgfault() that makes it.
LEMMA ExemptKept ==
  ASSUME NEW d \in Procs, NEW b \in Procs, NEW m \in Pages, NEW l \in Pages, Exempt(d, m, b, l),
         HalfCopied(d, m) => /\ forking'[d] = forking[d]
                             /\ proc_status[forking[d].child] = "embryo" => proc_status'[forking[d].child] = "embryo",
         fault[b].step = "unmap" => fault'[b].step = "unmap",
         pt'[d][m].frame = pt[d][m].frame, pt'[b][l].frame = pt[b][l].frame
  PROVE  Exempt(d, m, b, l)'
BY Zenon DEF Exempt, SharedHalf, HalfCopied

\* Steps that map nothing.
LEMMA PrivateKept ==
  ASSUME WritableIsPrivate, pt' = pt,
         \A d \in Procs, m \in Pages : HalfCopied(d, m) =>
           /\ forking'[d] = forking[d]
           /\ proc_status[forking[d].child] = "embryo" => proc_status'[forking[d].child] = "embryo",
         \A d \in Procs : fault[d].step = "unmap" => fault'[d].step = "unmap"
  PROVE  WritableIsPrivate'
<1> SUFFICES ASSUME NEW d \in Procs, NEW b \in Procs, NEW m \in Pages, NEW l \in Pages,
                    ~ (d = b /\ m = l), pt'[d][m].perm = "W", pt'[b][l].frame = pt'[d][m].frame
             PROVE  Exempt(d, m, b, l)'
  BY PrivateAfter, Zenon
<1>1. Exempt(d, m, b, l)
  BY Unshared, Zenon
<1> QED BY <1>1, ExemptKept, Zenon

\* What others do, as long as it is not to the pages of d or its child, is nothing to
\* the loop of fork() that d is in.
LEMMA LoopKept ==
  ASSUME NEW d \in Procs, LoopOf(d), forking'[d] = forking[d],
         forking[d].step # "none" =>
           /\ \A m \in Ordinary : pt[d][m].perm \in {"W", "COW"} => pt'[d][m].perm \in {"W", "COW"}
           /\ \A m \in Pages : pt'[forking[d].child][m] = pt[forking[d].child][m]
  PROVE  LoopOf(d)'
<1>1. CASE forking[d].step = "child"
  BY <1>1, Zenon DEF LoopOf
<1>2. CASE forking[d].step = "self"
  BY <1>2, Zenon DEF LoopOf
<1>3. CASE forking[d].step \notin {"child", "self"}
  BY <1>3, Zenon DEF LoopOf
<1> QED BY <1>1, <1>2, <1>3, Zenon

\* Nor to the pages it has passed.
LEMMA CopyKept ==
  ASSUME ForkCowAssumption, NEW d \in Procs, CopyOf(d), forking'[d] = forking[d],
         forking[d].step # "none" =>
           /\ forking[d].child \notin lost' => forking[d].child \notin lost
           /\ \A m \in Ordinary : pt'[d][m] # Unmapped => pt[d][m] # Unmapped
           /\ \A m \in Pages : pt'[forking[d].child][m] = pt[forking[d].child][m]
  PROVE  CopyOf(d)'
<1> SUFFICES ASSUME forking[d].step # "none", forking[d].child \notin lost'
             PROVE  CopyOf(d)'
  BY Zenon DEF CopyOf
<1>1. \A m \in Ordinary : Passed(d, m)' => Passed(d, m)
  BY Zenon DEF Passed
<1>2. UXSTACK \in Pages /\ Ordinary \subseteq Pages
  BY PageFacts, Zenon
<1> QED BY <1>1, <1>2, Zenon DEF CopyOf

\* Nor to its pgfault().
LEMMA FaultKept ==
  ASSUME NEW d \in Procs, FaultOf(d), fault'[d] = fault[d], pt'[d][PFTEMP] = pt[d][PFTEMP],
         proc_status[d] \in {"run", "panic"} => proc_status'[d] \in {"run", "panic"},
         fault[d].step # "none" =>
           \A m \in Ordinary : pt'[d][m] = pt[d][m] /\ view'[d][m] = view[d][m],
         fault[d].step = "map" => content'[pt[d][PFTEMP].frame] = content[pt[d][PFTEMP].frame]
  PROVE  FaultOf(d)'
<1>1. CASE fault[d].step = "none"
  BY <1>1, Zenon DEF FaultOf
<1>2. CASE fault[d].step # "none"
  <2>1. fault[d].pn \in Ordinary /\ proc_status[d] \in {"run", "panic"}
    BY <1>2, Zenon DEF FaultOf
  <2>2. pt'[d][fault[d].pn] = pt[d][fault[d].pn] /\ view'[d][fault[d].pn] = view[d][fault[d].pn]
    BY <1>2, <2>1, Zenon
  <2> QED BY <1>2, <2>1, <2>2, Zenon DEF FaultOf
<1> QED BY <1>1, <1>2, Zenon

\* e is not in pgfault(), and so not in a state that belongs to it.
LEMMA RunsFacts ==
  ASSUME ForkCowAssumption, IInv, NEW e \in Procs, Runs(e)
  PROVE  proc_status[e] = "run" /\ fault[e].step = "none" /\ pt[e][PFTEMP] = Unmapped
BY DEF Runs, NoFault, IInv, Inv, FaultInv, FaultOf

\* The loop of fork() goes on to the next page.
LEMMA NextPageFacts ==
  ASSUME ForkCowAssumption, Typed, NEW e \in Procs, forking[e].pn < UXSTACK
  PROVE  /\ NextPage(e) \in [Procs -> [child : Procs, pn : Pages, step : {"child", "self", "start", "none"}]]
         /\ NextPage(e)[e].pn = forking[e].pn + 1
         /\ NextPage(e)[e].step = "child" /\ NextPage(e)[e].child = forking[e].child
         /\ \A d \in Procs \ {e} : NextPage(e)[d] = forking[d]
<1>1. forking[e].pn \in Pages /\ forking[e].pn + 1 \in Pages
  BY TypesOfEntries, PageFacts, Zenon DEF TypeFacts
<1>2. forking[e] \in [child : Procs, pn : Pages, step : {"child", "self", "start", "none"}]
  BY Zenon DEF Typed
<1> DEFINE k == [child |-> forking[e].child, pn |-> forking[e].pn + 1, step |-> "child"]
<1>3. k \in [child : Procs, pn : Pages, step : {"child", "self", "start", "none"}]
  BY <1>1, <1>2, Zenon
<1>4. [[forking[e] EXCEPT !.pn = forking[e].pn + 1] EXCEPT !.step = "child"] = k
  <2>1. PICK r \in [child : Procs, pn : Pages, step : {"child", "self", "start", "none"}] : r = forking[e]
    BY <1>2, Zenon
  <2>2. [r EXCEPT !.pn = r.pn + 1] = [child |-> r.child, pn |-> r.pn + 1, step |-> r.step]
    OBVIOUS
  <2>3. [[child |-> r.child, pn |-> r.pn + 1, step |-> r.step] EXCEPT !.step = "child"]
          = [child |-> r.child, pn |-> r.pn + 1, step |-> "child"]
    OBVIOUS
  <2> QED BY <2>1, <2>2, <2>3, Zenon
<1>5. NextPage(e) = [forking EXCEPT ![e] = [[forking[e] EXCEPT !.pn = forking[e].pn + 1] EXCEPT !.step = "child"]]
  BY Zenon DEF NextPage, Typed
<1>6. NextPage(e) = [forking EXCEPT ![e] = k]
  BY <1>4, <1>5, Zenon
<1>7. k.child = forking[e].child /\ k.pn = forking[e].pn + 1 /\ k.step = "child"
  BY Zenon
<1> HIDE DEF k
<1> QED BY <1>3, <1>6, <1>7 DEF Typed

\* sys_exofork() by fork(), and its failure.
LEMMA ExoforkStep ==
  ASSUME ForkCowAssumption, IInv, NEW e \in Procs, NEW c \in Procs, Exofork(e, c)
  PROVE  IInv'
<1> DEFINE k == [child |-> c, pn |-> PFTEMP, step |-> "child"]
<1>1. /\ proc_status[e] = "run" /\ forking[e].step = "none" /\ proc_status[c] = "free"
      /\ proc_status' = [proc_status EXCEPT ![c] = "embryo"] /\ forking' = [forking EXCEPT ![e] = k]
      /\ UNCHANGED <<pt, content, fault, view, lost>>
  BY DEF Exofork, Runs, Idle
<1>2. Typed /\ TypeFacts
  BY TypesOfEntries, Zenon DEF IInv
<1>3. k \in [child : Procs, pn : Pages, step : {"child", "self", "start", "none"}]
  BY PageFacts, Zenon
<1>4. k.child = c /\ k.pn = PFTEMP /\ k.step = "child"
  BY Zenon
<1> HIDE DEF k
<1>5. Typed'
  BY <1>1, <1>2, <1>3, Zenon DEF Typed
<1>6. /\ proc_status'[c] = "embryo" /\ \A d \in Procs \ {c} : proc_status'[d] = proc_status[d]
      /\ forking'[e] = k /\ \A d \in Procs \ {e} : forking'[d] = forking[d]
      /\ c # e
  BY <1>1, <1>2, Zenon DEF Typed
<1>7. \A n \in Pages : pt[c][n] = Unmapped
  BY <1>1, Zenon DEF IInv, Inv, FreeInv
<1>8. FreeInv'
  BY <1>1, <1>6, Zenon DEF IInv, Inv, FreeInv
<1>9. ChildInv'
  BY <1>1, <1>2, <1>4, <1>6 DEF IInv, Inv, ChildInv, ChildOf, TypeFacts
<1>10. LoopInv'
  BY <1>1, <1>2, <1>4, <1>6, <1>7 DEF IInv, Inv, LoopInv, LoopOf, TypeFacts
<1>11. CopyInv'
  BY <1>1, <1>2, <1>4, <1>6, <1>7, PageFacts DEF IInv, Inv, CopyInv, CopyOf, Passed, TypeFacts, PFTEMP
<1>12. FaultInv'
  BY <1>1, <1>2, <1>6 DEF IInv, Inv, FaultInv, FaultOf
<1>13. SeparateMemories'
  BY <1>1, Zenon DEF IInv, Inv, SeparateMemories
<1>14. WritableIsPrivate'
  <2>1. WritableIsPrivate
    BY Zenon DEF IInv, Inv
  <2>2. \A d \in Procs, m \in Pages : HalfCopied(d, m) =>
          /\ forking'[d] = forking[d]
          /\ proc_status[forking[d].child] = "embryo" => proc_status'[forking[d].child] = "embryo"
    BY <1>1, <1>2, <1>6, Zenon DEF HalfCopied, TypeFacts
  <2> QED BY <1>1, <2>1, <2>2, PrivateKept, Zenon
<1> QED BY <1>5, <1>8, <1>9, <1>10, <1>11, <1>12, <1>13, <1>14, Zenon DEF IInv, Inv

\* An environment that panics stops where it is.
LEMMA PanicStep ==
  ASSUME ForkCowAssumption, IInv, NEW e \in Procs, proc_status[e] = "run", Panics(e),
         UNCHANGED <<pt, content, forking, fault, view, lost>>
  PROVE  IInv'
<1>1. Typed /\ TypeFacts
  BY TypesOfEntries, Zenon DEF IInv
<1>2. Typed'
  BY <1>1, Zenon DEF Typed, Panics
<1>3. proc_status'[e] = "panic" /\ \A d \in Procs \ {e} : proc_status'[d] = proc_status[d]
  BY <1>1, Zenon DEF Typed, Panics
<1>4. FreeInv' /\ FaultInv'
  BY <1>3 DEF IInv, Inv, FreeInv, FaultInv, FaultOf
<1>5. ChildInv'
  BY <1>1, <1>3 DEF IInv, Inv, ChildInv, ChildOf, TypeFacts
<1>6. LoopInv' /\ CopyInv' /\ SeparateMemories'
  BY DEF IInv, Inv, LoopInv, LoopOf, CopyInv, CopyOf, Passed, SeparateMemories
<1>7. WritableIsPrivate'
  <2>1. WritableIsPrivate
    BY Zenon DEF IInv, Inv
  <2>2. \A d \in Procs, m \in Pages : HalfCopied(d, m) =>
          /\ forking'[d] = forking[d]
          /\ proc_status[forking[d].child] = "embryo" => proc_status'[forking[d].child] = "embryo"
    BY <1>1, <1>3, Zenon DEF HalfCopied, TypeFacts
  <2> QED BY <2>1, <2>2, PrivateKept, Zenon
<1> QED BY <1>2, <1>4, <1>5, <1>6, <1>7, Zenon DEF IInv, Inv

\* The loop of fork() passes over a page.
LEMMA SkipPageStep ==
  ASSUME ForkCowAssumption, IInv, NEW e \in Procs, SkipPage(e)
  PROVE  IInv'
<1>1. Typed /\ TypeFacts
  BY TypesOfEntries, Zenon DEF IInv
<1> DEFINE n == forking[e].pn
<1>2. /\ forking[e].step = "child" /\ n < UXSTACK /\ n \in Pages /\ pt[e][n] = Unmapped
      /\ n + 1 \in Pages /\ n \in Nat
      /\ UNCHANGED <<proc_status, pt, content, fault, view, lost>>
  BY <1>1, PageFacts, Zenon DEF SkipPage, TypeFacts
<1>3. /\ forking' \in [Procs -> [child : Procs, pn : Pages, step : {"child", "self", "start", "none"}]]
      /\ forking'[e].pn = n + 1 /\ forking'[e].step = "child" /\ forking'[e].child = forking[e].child
      /\ \A d \in Procs \ {e} : forking'[d] = forking[d]
  BY <1>1, <1>2, NextPageFacts, Zenon DEF SkipPage
<1> HIDE DEF n
<1>4. Typed'
  BY <1>1, <1>2, <1>3, Zenon DEF Typed
<1>5. FreeInv' /\ FaultInv' /\ SeparateMemories'
  BY <1>2 DEF IInv, Inv, FreeInv, FaultInv, FaultOf, SeparateMemories
<1>6. ChildInv'
  BY <1>2, <1>3 DEF IInv, Inv, ChildInv, ChildOf
<1>7. LoopInv'
  BY <1>2, <1>3, PageFacts DEF IInv, Inv, LoopInv, LoopOf, n
<1>8. CopyInv'
  <2> SUFFICES ASSUME NEW d \in Procs
               PROVE  CopyOf(d)'
    BY Zenon DEF CopyInv
  <2>1. CopyOf(d)
    BY Zenon DEF IInv, Inv, CopyInv
  <2>2. CASE d # e
    BY <1>2, <1>3, <2>1, <2>2, CopyKept, Zenon
  <2>3. CASE d = e
    <3>1. ASSUME NEW m \in Ordinary, Passed(e, m)', pt[e][m] # Unmapped
          PROVE  Passed(e, m)
      <4>1. m \in Nat /\ m < n + 1 /\ m # n
        BY <1>2, <1>3, <3>1, PageFacts, Zenon DEF Passed
      <4> QED BY <1>2, <4>1 DEF Passed, n
    <3> QED BY <1>2, <1>3, <2>1, <2>3, <3>1, Zenon DEF CopyOf
  <2> QED BY <2>2, <2>3, Zenon
<1>9. WritableIsPrivate'
  <2>1. WritableIsPrivate
    BY Zenon DEF IInv, Inv
  <2>2. \A d \in Procs, m \in Pages : HalfCopied(d, m) =>
          /\ forking'[d] = forking[d]
          /\ proc_status[forking[d].child] = "embryo" => proc_status'[forking[d].child] = "embryo"
    BY <1>2, <1>3, Zenon DEF HalfCopied
  <2> QED BY <1>2, <2>1, <2>2, PrivateKept, Zenon
<1> QED BY <1>4, <1>5, <1>6, <1>7, <1>8, <1>9, Zenon DEF IInv, Inv

\* The child is started.
LEMMA SetStatusStep ==
  ASSUME ForkCowAssumption, IInv, NEW e \in Procs, SetStatus(e)
  PROVE  IInv'
<1>1. Typed /\ TypeFacts
  BY TypesOfEntries, Zenon DEF IInv
<1>2. PICK c \in Procs : c = forking[e].child
  BY <1>1, Zenon DEF TypeFacts
<1>3. /\ forking[e].step = "start" /\ proc_status' = [proc_status EXCEPT ![c] = "run"]
      /\ forking' = [forking EXCEPT ![e] = Idle]
      /\ UNCHANGED <<pt, content, fault, view, lost>>
  BY <1>2, Zenon DEF SetStatus
<1>4. Idle \in [child : Procs, pn : Pages, step : {"child", "self", "start", "none"}] /\ Idle.step = "none"
  BY PageFacts, Zenon DEF Idle, ForkCowAssumption, PFTEMP
<1>5. Typed'
  BY <1>1, <1>3, <1>4, Zenon DEF Typed
<1>6. /\ proc_status'[c] = "run" /\ \A d \in Procs \ {c} : proc_status'[d] = proc_status[d]
      /\ forking'[e].step = "none" /\ \A d \in Procs \ {e} : forking'[d] = forking[d]
  BY <1>1, <1>3, <1>4, Zenon DEF Typed
<1>7. /\ proc_status[e] \in {"run", "panic"} /\ proc_status[c] = "embryo"
      /\ \A d \in Procs \ {e} : forking[d].step # "none" => forking[d].child # c
  BY <1>2, <1>3, Zenon DEF IInv, Inv, ChildInv, ChildOf
<1>8. FreeInv' /\ FaultInv' /\ SeparateMemories'
  BY <1>3, <1>6, <1>7 DEF IInv, Inv, FreeInv, FaultInv, FaultOf, SeparateMemories
<1>9. ChildInv'
  BY <1>1, <1>6, <1>7 DEF IInv, Inv, ChildInv, ChildOf, TypeFacts
<1>10. LoopInv' /\ CopyInv'
  BY <1>3, <1>6 DEF IInv, Inv, LoopInv, LoopOf, CopyInv, CopyOf, Passed
<1>11. WritableIsPrivate'
  <2>1. WritableIsPrivate
    BY Zenon DEF IInv, Inv
  <2>2. \A d \in Procs, m \in Pages : HalfCopied(d, m) =>
          /\ forking'[d] = forking[d]
          /\ proc_status[forking[d].child] = "embryo" => proc_status'[forking[d].child] = "embryo"
    BY <1>1, <1>3, <1>6, <1>7 DEF HalfCopied, TypeFacts
  <2> QED BY <1>3, <2>1, <2>2, PrivateKept, Zenon
<1> QED BY <1>5, <1>8, <1>9, <1>10, <1>11, Zenon DEF IInv, Inv

\* A store to a copy-on-write page enters pgfault().
LEMMA WriteFaultStep ==
  ASSUME ForkCowAssumption, IInv, NEW e \in Procs, NEW n \in Ordinary, WriteFault(e, n)
  PROVE  IInv'
<1>1. Typed /\ TypeFacts /\ n \in Pages
  BY TypesOfEntries, PageFacts, Zenon DEF IInv
<1> DEFINE k == [pn |-> n, step |-> "alloc"]
<1>2. /\ proc_status[e] = "run" /\ fault[e].step = "none" /\ pt[e][PFTEMP] = Unmapped
      /\ pt[e][n].perm = "COW" /\ fault' = [fault EXCEPT ![e] = k]
      /\ UNCHANGED <<proc_status, pt, content, forking, view, lost>>
  BY RunsFacts, Zenon DEF WriteFault
<1>3. /\ k \in [pn : Pages, step : {"alloc", "copy", "map", "unmap", "none"}]
      /\ k.pn = n /\ k.step = "alloc"
  BY <1>1, Zenon
<1> HIDE DEF k
<1>4. Typed'
  BY <1>1, <1>2, <1>3, Zenon DEF Typed
<1>5. fault'[e] = k /\ \A d \in Procs \ {e} : fault'[d] = fault[d]
  BY <1>1, <1>2, Zenon DEF Typed
<1>6. FreeInv' /\ ChildInv' /\ LoopInv' /\ CopyInv' /\ SeparateMemories'
  <2>1. FreeInv' /\ SeparateMemories'
    BY <1>2, Zenon DEF IInv, Inv, FreeInv, SeparateMemories
  <2>2. ChildInv' /\ LoopInv'
    BY <1>2 DEF IInv, Inv, ChildInv, ChildOf, LoopInv, LoopOf
  <2>3. CopyInv'
    BY <1>2, Zenon DEF IInv, Inv, CopyInv, CopyOf, Passed
  <2> QED BY <2>1, <2>2, <2>3, Zenon
<1>7. FaultInv'
  <2> SUFFICES ASSUME NEW d \in Procs
               PROVE  FaultOf(d)'
    BY Zenon DEF FaultInv
  <2>1. CASE d = e
    BY <1>2, <1>3, <1>5, <2>1, Zenon DEF FaultOf
  <2>2. CASE d # e
    <3>1. FaultOf(d) /\ fault'[d] = fault[d]
      BY <1>5, <2>2, Zenon DEF IInv, Inv, FaultInv
    <3> QED BY <1>2, <3>1, FaultKept, Zenon
  <2> QED BY <2>1, <2>2, Zenon
<1>8. WritableIsPrivate'
  <2>1. WritableIsPrivate
    BY Zenon DEF IInv, Inv
  <2> QED BY <1>2, <1>5, <2>1, PrivateKept, Zenon
<1> QED BY <1>4, <1>6, <1>7, <1>8, Zenon DEF IInv, Inv

\* duppage(): the first call, with its failure.
LEMMA DupChildStep ==
  ASSUME ForkCowAssumption, IInv, NEW e \in Procs, NEW ok \in BOOLEAN, DupChild(e, ok)
  PROVE  IInv'
<1>1. Typed /\ TypeFacts
  BY TypesOfEntries, Zenon DEF IInv
<1>2. PICK c \in Procs, n \in Pages : c = forking[e].child /\ n = forking[e].pn
  BY <1>1, Zenon DEF TypeFacts
<1>3. /\ proc_status[e] = "run" /\ fault[e].step = "none" /\ pt[e][PFTEMP] = Unmapped
      /\ forking[e].step = "child" /\ n < UXSTACK /\ pt[e][n] # Unmapped
      /\ view' = [view EXCEPT ![c][n] = view[e][n]]
      /\ lost' = (IF ok THEN lost ELSE lost \cup {c})
      /\ UNCHANGED <<proc_status, content, fault>>
  BY <1>2, RunsFacts, Zenon DEF DupChild
<1>4. n \in Ordinary /\ n \in Nat /\ n + 1 \in Pages
  BY <1>3, PageFacts
<1>5. /\ proc_status[c] = "embryo" /\ c # e
      /\ \A d \in Procs \ {e} : forking[d].step # "none" => forking[d].child # c
      /\ \A m \in Pages : m >= n => pt[c][m] = Unmapped
  BY <1>2, <1>3 DEF IInv, Inv, ChildInv, ChildOf, LoopInv, LoopOf
<1>6. PICK f \in Frames, p \in {"W", "R", "COW"} : pt[e][n].frame = f /\ pt[e][n].perm = p
  BY <1>1, <1>3, Zenon DEF TypeFacts
<1>7. PICK q \in {"R", "COW"} : q = ChildPerm(p)
  BY Zenon DEF ChildPerm
<1>8. PICK x \in Mapped : x = Entry(f, q) /\ x.frame = f /\ x.perm = q /\ x # Unmapped
  BY <1>7, Entries
<1>9. pt' = IF ok THEN [pt EXCEPT ![c][n] = x] ELSE pt
  BY <1>2, <1>6, <1>7, <1>8, Zenon DEF DupChild
<1>10. /\ \A d \in Procs, m \in Pages : ~ (d = c /\ m = n) => pt'[d][m] = pt[d][m]
       /\ pt'[c][n] = IF ok THEN x ELSE Unmapped
  BY <1>1, <1>5, <1>4, <1>9 DEF Typed
<1>11. /\ \A d \in Procs, m \in Pages : ~ (d = c /\ m = n) => view'[d][m] = view[d][m]
       /\ view'[c][n] = view[e][n]
  BY <1>1, <1>3, Zenon DEF Typed
<1>12. /\ forking' \in [Procs -> [child : Procs, pn : Pages, step : {"child", "self", "start", "none"}]]
       /\ forking'[e].child = c
       /\ \/ p = "R" /\ forking'[e].pn = n + 1 /\ forking'[e].step = "child"
          \/ p # "R" /\ forking'[e].pn = n /\ forking'[e].step = "self"
       /\ \A d \in Procs \ {e} : forking'[d] = forking[d]
  <2>1. CASE p = "R"
    <3>1. forking' = NextPage(e)
      BY <1>2, <1>6, <2>1, Zenon DEF DupChild
    <3> QED BY <1>1, <1>2, <1>3, <2>1, <3>1, NextPageFacts, Zenon
  <2>2. CASE p # "R"
    <3>1. forking' = [forking EXCEPT ![e].step = "self"]
      BY <1>2, <1>6, <2>2, Zenon DEF DupChild
    <3>2. \A d \in Procs \ {e} : forking'[d] = forking[d]
      BY <1>1, <3>1, Zenon DEF Typed
    <3>3. forking'[e].child = c /\ forking'[e].pn = n /\ forking'[e].step = "self"
      BY <1>1, <1>2, <3>1 DEF Typed
    <3>4. forking' \in [Procs -> [child : Procs, pn : Pages, step : {"child", "self", "start", "none"}]]
      <4>1. PICK r \in [child : Procs, pn : Pages, step : {"child", "self", "start", "none"}] : r = forking[e]
        BY <1>1, Zenon DEF Typed
      <4>2. PICK k \in [child : Procs, pn : Pages, step : {"child", "self", "start", "none"}] :
              k = [r EXCEPT !.step = "self"]
        BY Zenon
      <4>3. forking' = [forking EXCEPT ![e] = k]
        BY <3>1, <4>1, <4>2, Zenon
      <4> QED BY <1>1, <4>3, Zenon DEF Typed
    <3> QED BY <2>2, <3>2, <3>3, <3>4, Zenon
  <2> QED BY <2>1, <2>2, Zenon
<1>13. Typed'
  <2>1. pt' \in [Procs -> [Pages -> Mapped \cup {Unmapped}]]
    BY <1>1, <1>9, Zenon DEF Typed
  <2>2. view' \in [Procs -> [Pages -> Values]] /\ lost' \subseteq Procs
    BY <1>1, <1>3 DEF Typed
  <2> QED BY <1>1, <1>3, <1>12, <2>1, <2>2, Zenon DEF Typed
<1>14. FreeInv'
  BY <1>3, <1>5, <1>10 DEF IInv, Inv, FreeInv
<1>15. ChildInv'
  BY <1>2, <1>3, <1>12 DEF IInv, Inv, ChildInv, ChildOf
<1>16. LoopInv'
  <2> SUFFICES ASSUME NEW d \in Procs
               PROVE  LoopOf(d)'
    BY Zenon DEF LoopInv
  <2>1. CASE d = e
    <3>1. \A m \in Pages : m > n => m >= n /\ m # n
      BY <1>4, PageFacts
    <3>2. pt'[e][n].perm = p
      BY <1>5, <1>6, <1>10, Zenon
    <3>3. \A m \in Pages : m > n => pt'[c][m] = Unmapped
      BY <1>5, <1>10, <3>1, Zenon
    <3>4. \A m \in Pages : m >= n + 1 => m > n
      BY <1>4, PageFacts
    <3> QED BY <1>4, <1>12, <2>1, <3>2, <3>3, <3>4, Zenon DEF LoopOf
  <2>2. CASE d # e
    <3>1. forking'[d] = forking[d] /\ forking[d].child \in Procs /\ forking[d].pn \in Pages
      BY <1>1, <1>12, <2>2, Zenon DEF TypeFacts
    <3>2. LoopOf(d) /\ ChildOf(d)
      BY Zenon DEF IInv, Inv, LoopInv, ChildInv
    <3>3. ASSUME forking[d].step # "none"
          PROVE  \A m \in Pages : pt'[d][m] = pt[d][m] /\ pt'[forking[d].child][m] = pt[forking[d].child][m]
      BY <1>5, <1>10, <2>2, <3>1, <3>2, <3>3 DEF ChildOf
    <3> QED BY <3>1, <3>2, <3>3, PageFacts, LoopKept, Zenon
  <2> QED BY <2>1, <2>2, Zenon
<1>17. CopyInv'
  <2> SUFFICES ASSUME NEW d \in Procs, (forking[d].step # "none" /\ forking[d].child \notin lost)'
               PROVE  CopyOf(d)'
    BY Zenon DEF CopyInv, CopyOf
  <2>1. CASE d # e
    <3>1. forking'[d] = forking[d] /\ forking[d].child \in Procs
      BY <1>1, <1>12, <2>1, Zenon DEF TypeFacts
    <3>2. CopyOf(d) /\ ChildOf(d)
      BY Zenon DEF IInv, Inv, CopyInv, ChildInv
    <3>3. \A m \in Pages : pt'[d][m] = pt[d][m] /\ pt'[forking[d].child][m] = pt[forking[d].child][m]
      BY <1>5, <1>10, <2>1, <3>1, <3>2 DEF ChildOf
    <3> QED BY <1>3, <3>1, <3>2, <3>3, PageFacts, CopyKept, Zenon
  <2>2. CASE d = e
    <3>1. ok /\ c \notin lost
      BY <1>3, <1>12, <2>2, Zenon
    <3>2. \A m \in Ordinary : m < n /\ pt[e][m] # Unmapped => pt[c][m] # Unmapped
      BY <1>2, <1>3, <3>1, Zenon DEF IInv, Inv, CopyInv, CopyOf, Passed
    <3>3. ASSUME NEW m \in Ordinary, Passed(e, m)'
          PROVE  m <= n
      <4>1. m \in Nat /\ n \in Nat
        BY <1>4, PageFacts, Zenon
      <4>2. m < n + 1 \/ m < n \/ m = n
        BY <1>12, <3>3, Zenon DEF Passed
      <4> QED BY <4>1, <4>2
    <3>4. ASSUME NEW m \in Ordinary, m <= n
          PROVE  m < n \/ m = n
      <4>1. m \in Nat /\ n \in Nat
        BY <1>4, PageFacts, Zenon
      <4> QED BY <3>4, <4>1
    <3>5. \A m \in Ordinary : pt'[e][m] = pt[e][m] /\ (m # n => pt'[c][m] = pt[c][m])
      BY <1>5, <1>10, PageFacts, Zenon
    <3>6. \A m \in Ordinary : Passed(e, m)' /\ pt'[e][m] # Unmapped => pt'[c][m] # Unmapped
      BY <1>8, <1>10, <3>1, <3>2, <3>3, <3>4, <3>5, Zenon
    <3> QED BY <1>12, <2>2, <3>6, Zenon DEF CopyOf
  <2> QED BY <2>1, <2>2, Zenon
<1>18. FaultInv'
  <2> SUFFICES ASSUME NEW d \in Procs
               PROVE  FaultOf(d)'
    BY Zenon DEF FaultInv
  <2>1. FaultOf(d) /\ pt'[d][PFTEMP] = pt[d][PFTEMP]
    BY <1>4, <1>10, PageFacts, Zenon DEF IInv, Inv, FaultInv
  <2>2. fault[d].step # "none" => \A m \in Ordinary : pt'[d][m] = pt[d][m] /\ view'[d][m] = view[d][m]
    BY <1>5, <1>10, <1>11, <2>1, PageFacts, Zenon DEF FaultOf
  <2> QED BY <1>3, <2>1, <2>2, FaultKept, Zenon
<1>19. SeparateMemories'
  <2> SUFFICES ASSUME NEW d \in Procs, NEW m \in Ordinary, pt'[d][m] # Unmapped
               PROVE  content'[pt'[d][m].frame] = view'[d][m]
    BY Zenon DEF SeparateMemories
  <2>1. content[pt[e][n].frame] = view[e][n] /\ (pt[d][m] # Unmapped => content[pt[d][m].frame] = view[d][m])
    BY <1>3, <1>4, Zenon DEF IInv, Inv, SeparateMemories
  <2>2. CASE d = c /\ m = n
    BY <1>3, <1>6, <1>8, <1>10, <1>11, <2>1, <2>2
  <2>3. CASE ~ (d = c /\ m = n)
    BY <1>3, <1>10, <1>11, <2>1, <2>3, PageFacts
  <2> QED BY <2>2, <2>3, Zenon
<1>20. WritableIsPrivate'
  <2> SUFFICES ASSUME NEW d \in Procs, NEW b \in Procs, NEW m \in Pages, NEW l \in Pages,
                      ~ (d = b /\ m = l), pt'[d][m].perm = "W", pt'[b][l].frame = pt'[d][m].frame
               PROVE  Exempt(d, m, b, l)'
    BY PrivateAfter, Zenon
  <2>1. ~ (d = c /\ m = n) /\ pt'[d][m] = pt[d][m] /\ pt[d][m] # Unmapped /\ pt[d][m].frame \in Frames
    <3>1. ~ (d = c /\ m = n)
      BY <1>7, <1>8, <1>10, Entries
    <3>2. pt'[d][m] = pt[d][m]
      BY <1>10, <3>1, Zenon
    <3> QED BY <1>1, <3>1, <3>2, Zenon DEF TypeFacts
  <2>2. CASE b = c /\ l = n
    <3>1. ok /\ pt[d][m].frame = f
      <4>1. pt'[c][n].frame \in Frames /\ Unmapped.frame \notin Frames
        BY <2>1, <2>2, Entries
      <4> QED BY <1>8, <1>10, <2>1, <2>2, <4>1, Zenon
    <3>2. CASE d = e /\ m = n
      BY <1>3, <1>5, <1>6, <1>8, <1>10, <1>12, <2>1, <2>2, <3>1, <3>2, Zenon DEF Exempt, SharedHalf, HalfCopied
    <3>3. CASE ~ (d = e /\ m = n)
      <4>1. Exempt(d, m, e, n)
        BY <1>6, <2>1, <3>1, <3>3, Unshared, Zenon DEF IInv, Inv
      <4>2. ~ SharedHalf(d, m) \/ forking[d].child # e
        BY <1>3, Zenon DEF IInv, Inv, ChildInv, ChildOf, SharedHalf, HalfCopied
      <4> QED BY <1>3, <4>1, <4>2, Zenon DEF Exempt
    <3> QED BY <3>2, <3>3, Zenon
  <2>3. CASE ~ (b = c /\ l = n)
    <3>1. pt'[b][l] = pt[b][l]
      BY <1>10, <2>3, Zenon
    <3>2. Exempt(d, m, b, l)
      BY <2>1, <3>1, Unshared, Zenon DEF IInv, Inv
    <3>3. HalfCopied(d, m) => forking'[d] = forking[d]
      BY <1>3, <1>12, Zenon DEF HalfCopied
    <3> QED BY <1>3, <2>1, <3>1, <3>2, <3>3, ExemptKept, Zenon
  <2> QED BY <2>2, <2>3, Zenon
<1> QED BY <1>13, <1>14, <1>15, <1>16, <1>17, <1>18, <1>19, <1>20, Zenon DEF IInv, Inv

\* duppage(): the second call.
LEMMA DupSelfStep ==
  ASSUME ForkCowAssumption, IInv, NEW e \in Procs, DupSelf(e)
  PROVE  IInv'
<1>1. Typed /\ TypeFacts
  BY TypesOfEntries, Zenon DEF IInv
<1>2. PICK c \in Procs, n \in Pages : c = forking[e].child /\ n = forking[e].pn
  BY <1>1, Zenon DEF TypeFacts
<1>3. /\ proc_status[e] = "run" /\ fault[e].step = "none"
      /\ forking[e].step = "self" /\ forking' = NextPage(e)
      /\ pt' = [pt EXCEPT ![e][n].perm = "COW"]
      /\ UNCHANGED <<proc_status, content, fault, view, lost>>
  BY <1>2, RunsFacts, Zenon DEF DupSelf
<1>4. /\ n \in Ordinary /\ n < UXSTACK /\ n \in Nat /\ pt[e][n].perm \in {"W", "COW"}
      /\ \A m \in Pages : m > n => pt[c][m] = Unmapped
  BY <1>2, <1>3, PageFacts, Zenon DEF IInv, Inv, LoopInv, LoopOf
<1>5. proc_status[c] = "embryo" /\ c # e
  BY <1>2, <1>3, Zenon DEF IInv, Inv, ChildInv, ChildOf
<1>6. PICK x \in Mapped : x = [pt[e][n] EXCEPT !.perm = "COW"] /\ x.perm = "COW" /\ x.frame = pt[e][n].frame
  <2>1. pt[e][n] \in Mapped /\ pt[e][n].frame \in Frames
    BY <1>1, <1>4, Zenon DEF TypeFacts
  <2>2. [pt[e][n] EXCEPT !.perm = "COW"] = Entry(pt[e][n].frame, "COW")
    BY <2>1 DEF Mapped, Entry
  <2> QED BY <2>1, <2>2, Entries
<1>7. pt' = [pt EXCEPT ![e][n] = x]
  BY <1>3, <1>6, Zenon
<1>8. /\ pt'[e][n] = x /\ x # Unmapped
      /\ \A d \in Procs, m \in Pages : ~ (d = e /\ m = n) => pt'[d][m] = pt[d][m]
  <2>1. x # Unmapped
    BY Entries, Zenon
  <2> QED BY <1>1, <1>7, <2>1, Zenon DEF Typed
<1>9. \A d \in Procs, m \in Pages : /\ pt'[d][m].frame = pt[d][m].frame
                                    /\ pt'[d][m] = Unmapped <=> pt[d][m] = Unmapped
                                    /\ pt'[d][m].perm = "W" => pt[d][m].perm = "W" /\ pt'[d][m] = pt[d][m]
  <2> SUFFICES ASSUME NEW d \in Procs, NEW m \in Pages
               PROVE  /\ pt'[d][m].frame = pt[d][m].frame
                      /\ pt'[d][m] = Unmapped <=> pt[d][m] = Unmapped
                      /\ pt'[d][m].perm = "W" => pt[d][m].perm = "W" /\ pt'[d][m] = pt[d][m]
    BY Zenon
  <2>1. CASE d = e /\ m = n
    <3>1. pt[e][n] # Unmapped
      BY <1>1, <1>4, Zenon DEF TypeFacts
    <3> QED BY <1>6, <1>8, <2>1, <3>1, Zenon
  <2>2. CASE ~ (d = e /\ m = n)
    BY <1>8, <2>2, Zenon
  <2> QED BY <2>1, <2>2, Zenon
<1>10. /\ forking' \in [Procs -> [child : Procs, pn : Pages, step : {"child", "self", "start", "none"}]]
       /\ forking'[e].child = c /\ forking'[e].pn = n + 1 /\ forking'[e].step = "child"
       /\ \A d \in Procs \ {e} : forking'[d] = forking[d]
  BY <1>1, <1>2, <1>3, <1>4, NextPageFacts, Zenon
<1>11. Typed'
  <2>1. pt' \in [Procs -> [Pages -> Mapped \cup {Unmapped}]]
    BY <1>1, <1>7, Zenon DEF Typed
  <2> QED BY <1>1, <1>3, <1>10, <2>1, Zenon DEF Typed
<1>12. FreeInv'
  BY <1>3, <1>9, Zenon DEF IInv, Inv, FreeInv
<1>13. ChildInv'
  BY <1>2, <1>3, <1>10 DEF IInv, Inv, ChildInv, ChildOf
<1>14. LoopInv'
  <2> SUFFICES ASSUME NEW d \in Procs
               PROVE  LoopOf(d)'
    BY Zenon DEF LoopInv
  <2>1. CASE d = e
    <3>1. \A m \in Pages : m >= n + 1 => pt'[c][m] = Unmapped
      BY <1>4, <1>9, PageFacts
    <3> QED BY <1>10, <2>1, <3>1, Zenon DEF LoopOf
  <2>2. CASE d # e
    <3>1. /\ forking'[d] = forking[d] /\ forking[d].child \in Procs /\ forking[d].pn \in Pages
          /\ \A m \in Pages : pt'[d][m] = pt[d][m]
      BY <1>1, <1>8, <1>10, <2>2 DEF TypeFacts
    <3>2. LoopOf(d) /\ (forking[d].step # "none" => forking[d].child # e)
      BY <1>3, Zenon DEF IInv, Inv, LoopInv, ChildInv, ChildOf
    <3>3. ASSUME forking[d].step # "none"
          PROVE  \A m \in Pages : pt'[forking[d].child][m] = pt[forking[d].child][m]
      BY <1>8, <3>1, <3>2, <3>3, Zenon
    <3> QED BY <3>1, <3>2, <3>3, PageFacts, LoopKept, Zenon
  <2> QED BY <2>1, <2>2, Zenon
<1>15. CopyInv'
  <2> SUFFICES ASSUME NEW d \in Procs, (forking[d].step # "none" /\ forking[d].child \notin lost)'
               PROVE  CopyOf(d)'
    BY Zenon DEF CopyInv, CopyOf
  <2>1. /\ forking'[d].child = forking[d].child /\ forking[d].child \in Procs /\ forking[d].step # "none"
        /\ forking[d].child \notin lost
        /\ forking'[d].step = "start" => forking[d].step = "start"
    BY <1>1, <1>2, <1>3, <1>10 DEF TypeFacts
  <2>2. \A m \in Ordinary : Passed(d, m)' => Passed(d, m)
    <3> SUFFICES ASSUME NEW m \in Ordinary, Passed(d, m)'
                 PROVE  Passed(d, m)
      BY Zenon
    <3>1. m < n + 1 => m < n \/ m = n
      BY <1>4, PageFacts
    <3>2. CASE d = e
      <4>1. m < n + 1
        BY <1>10, <3>2 DEF Passed
      <4> QED BY <1>2, <1>3, <1>4, <3>1, <3>2, <4>1, Zenon DEF Passed
    <3>3. CASE d # e
      BY <1>10, <3>3, Zenon DEF Passed
    <3> QED BY <3>2, <3>3, Zenon
  <2>3. CopyOf(d) /\ UXSTACK \in Pages /\ Ordinary \subseteq Pages
    BY PageFacts, Zenon DEF IInv, Inv, CopyInv
  <2>4. \A m \in Ordinary : Passed(d, m)' /\ pt'[d][m] # Unmapped => pt'[forking[d].child][m] # Unmapped
    BY <1>9, <2>1, <2>2, <2>3 DEF CopyOf
  <2>5. forking'[d].step = "start" => pt'[forking[d].child][UXSTACK] # Unmapped
    BY <1>9, <2>1, <2>3, Zenon DEF CopyOf
  <2> QED BY <2>1, <2>4, <2>5, Zenon DEF CopyOf
<1>16. FaultInv'
  <2> SUFFICES ASSUME NEW d \in Procs
               PROVE  FaultOf(d)'
    BY Zenon DEF FaultInv
  <2>1. FaultOf(d) /\ pt'[d][PFTEMP] = pt[d][PFTEMP]
    BY <1>4, <1>8, PageFacts, Zenon DEF IInv, Inv, FaultInv
  <2>2. fault[d].step # "none" => \A m \in Ordinary : pt'[d][m] = pt[d][m]
    BY <1>3, <1>8, PageFacts, Zenon
  <2> QED BY <1>3, <2>1, <2>2, FaultKept, Zenon
<1>17. SeparateMemories'
  BY <1>3, <1>9, PageFacts DEF IInv, Inv, SeparateMemories
<1>18. WritableIsPrivate'
  <2> SUFFICES ASSUME NEW d \in Procs, NEW b \in Procs, NEW m \in Pages, NEW l \in Pages,
                      ~ (d = b /\ m = l), pt'[d][m].perm = "W", pt'[b][l].frame = pt'[d][m].frame
               PROVE  Exempt(d, m, b, l)'
    BY PrivateAfter, Zenon
  <2>1. Exempt(d, m, b, l)
    BY <1>9, Unshared, Zenon DEF IInv, Inv
  <2>2. ~ (d = e /\ m = n)
    BY <1>6, <1>8, Zenon
  <2>3. HalfCopied(d, m) => forking'[d] = forking[d]
    BY <1>2, <1>10, <2>2, Zenon DEF HalfCopied
  <2> QED BY <1>3, <1>9, <2>1, <2>3, ExemptKept
<1> QED BY <1>11, <1>12, <1>13, <1>14, <1>15, <1>16, <1>17, <1>18, Zenon DEF IInv, Inv

\* The child's exception stack, or none if there is no memory.
LEMMA AllocUxstackStep ==
  ASSUME ForkCowAssumption, IInv, NEW e \in Procs, AllocUxstack(e)
  PROVE  IInv'
<1>1. Typed /\ TypeFacts /\ UXSTACK \in Pages /\ UXSTACK \notin Ordinary /\ UXSTACK # PFTEMP
  BY TypesOfEntries, PageFacts, Zenon DEF IInv
<1>2. PICK c \in Procs : c = forking[e].child
  BY <1>1, Zenon DEF TypeFacts
<1>3. /\ proc_status[e] = "run" /\ fault[e].step = "none" /\ forking[e].step = "child"
      /\ forking[e].pn = UXSTACK /\ forking' = [forking EXCEPT ![e].step = "start"]
      /\ UNCHANGED <<proc_status, fault>>
  BY RunsFacts, Zenon DEF AllocUxstack
<1>4. /\ proc_status[c] = "embryo" /\ c # e /\ pt[c][UXSTACK] = Unmapped
      /\ \A d \in Procs \ {e} : forking[d].step # "none" => forking[d].child # c
  BY <1>1, <1>2, <1>3, PageFacts DEF IInv, Inv, ChildInv, ChildOf, LoopInv, LoopOf
<1>5. /\ forking' \in [Procs -> [child : Procs, pn : Pages, step : {"child", "self", "start", "none"}]]
      /\ forking'[e].child = c /\ forking'[e].step = "start"
      /\ \A d \in Procs \ {e} : forking'[d] = forking[d]
  BY <1>1, <1>2, <1>3, ZenonT(40) DEF Typed
<1>6. \A m \in Ordinary : Passed(e, m)
  BY <1>3, PageFacts, Zenon DEF Passed
<1>7. ChildInv'
  BY <1>2, <1>3, <1>5 DEF IInv, Inv, ChildInv, ChildOf
<1>8. CASE FreeFrames = {}
  <2>1. lost' = lost \cup {c} /\ UNCHANGED <<pt, content, view>>
    BY <1>2, <1>8, Zenon DEF AllocUxstack
  <2>2. Typed'
    BY <1>1, <1>3, <1>5, <2>1 DEF Typed
  <2>3. FreeInv' /\ FaultInv' /\ SeparateMemories'
    BY <1>3, <2>1 DEF IInv, Inv, FreeInv, FaultInv, FaultOf, SeparateMemories
  <2>4. LoopInv'
    BY <1>5, <2>1 DEF IInv, Inv, LoopInv, LoopOf
  <2>5. CopyInv'
    BY <1>5, <2>1 DEF IInv, Inv, CopyInv, CopyOf, Passed
  <2>6. WritableIsPrivate'
    <3>1. WritableIsPrivate
      BY Zenon DEF IInv, Inv
    <3>2. \A d \in Procs, m \in Pages : HalfCopied(d, m) =>
            /\ forking'[d] = forking[d]
            /\ proc_status[forking[d].child] = "embryo" => proc_status'[forking[d].child] = "embryo"
      BY <1>3, <1>5, Zenon DEF HalfCopied
    <3> QED BY <1>3, <2>1, <3>1, <3>2, PrivateKept, Zenon
  <2> QED BY <1>7, <2>2, <2>3, <2>4, <2>5, <2>6, Zenon DEF IInv, Inv
<1>9. CASE FreeFrames # {}
  <2>1. PICK f \in Frames : f = page_alloc /\ \A d \in Procs, n \in Pages : pt[d][n].frame # f
    BY <1>9, AllocFree, Zenon
  <2>2. PICK x \in Mapped : x = Entry(f, "W") /\ x.frame = f /\ x.perm = "W" /\ x # Unmapped
    BY Entries
  <2>3. /\ pt' = [pt EXCEPT ![c][UXSTACK] = x] /\ content' = [content EXCEPT ![f] = 0]
        /\ view' = [view EXCEPT ![c][UXSTACK] = 0] /\ lost' = lost
    BY <1>2, <1>9, <2>1, <2>2, Zenon DEF AllocUxstack
  <2>4. /\ pt'[c][UXSTACK] = x
        /\ \A d \in Procs, n \in Pages : ~ (d = c /\ n = UXSTACK) => pt'[d][n] = pt[d][n]
    BY <1>1, <2>3, Zenon DEF Typed
  <2>5. \A d \in Procs, n \in Pages : ~ (d = c /\ n = UXSTACK) => view'[d][n] = view[d][n]
    BY <1>1, <2>3, Zenon DEF Typed
  <2>6. \A g \in Frames \ {f} : content'[g] = content[g]
    BY <1>1, <2>3, Zenon DEF Typed
  <2>7. Typed'
    <3>1. pt' \in [Procs -> [Pages -> Mapped \cup {Unmapped}]]
      BY <1>1, <2>3, Zenon DEF Typed
    <3>2. content' \in [Frames -> Values] /\ view' \in [Procs -> [Pages -> Values]]
      BY <1>1, <2>3, Zenon DEF Typed, ForkCowAssumption
    <3> QED BY <1>1, <1>3, <1>5, <2>3, <3>1, <3>2, Zenon DEF Typed
  <2>8. FreeInv'
    BY <1>3, <1>4, <2>4, Zenon DEF IInv, Inv, FreeInv
  <2>9. LoopInv'
    <3> SUFFICES ASSUME NEW d \in Procs \ {e}
                 PROVE  LoopOf(d)'
      BY <1>5, Zenon DEF LoopInv, LoopOf
    <3>1. forking'[d] = forking[d] /\ forking[d].child \in Procs /\ forking[d].pn \in Pages
      BY <1>1, <1>5, Zenon DEF TypeFacts
    <3>2. LoopOf(d) /\ ChildOf(d)
      BY Zenon DEF IInv, Inv, LoopInv, ChildInv
    <3>3. ASSUME forking[d].step # "none"
          PROVE  \A m \in Pages : pt'[d][m] = pt[d][m] /\ pt'[forking[d].child][m] = pt[forking[d].child][m]
      BY <1>4, <2>4, <3>1, <3>2, <3>3, Zenon DEF ChildOf
    <3> QED BY <3>1, <3>2, <3>3, PageFacts, LoopKept, Zenon
  <2>10. CopyInv'
    <3> SUFFICES ASSUME NEW d \in Procs, (forking[d].step # "none" /\ forking[d].child \notin lost)'
                 PROVE  CopyOf(d)'
      BY Zenon DEF CopyInv, CopyOf
    <3>1. CASE d = e
      <4>1. \A m \in Ordinary : pt[e][m] # Unmapped => pt[c][m] # Unmapped
        BY <1>2, <1>3, <1>5, <1>6, <2>3, <3>1 DEF IInv, Inv, CopyInv, CopyOf
      <4>2. \A m \in Ordinary : pt'[e][m] = pt[e][m] /\ pt'[c][m] = pt[c][m]
        BY <1>1, <2>4, PageFacts, Zenon
      <4> QED BY <1>5, <2>2, <2>4, <3>1, <4>1, <4>2 DEF CopyOf
    <3>2. CASE d # e
      <4>1. forking'[d] = forking[d] /\ forking[d].child \in Procs /\ forking[d].child # c /\ d # c
        BY <1>1, <1>4, <1>5, <3>2 DEF TypeFacts, IInv, Inv, ChildInv, ChildOf
      <4>2. \A m \in Pages : pt'[d][m] = pt[d][m] /\ pt'[forking[d].child][m] = pt[forking[d].child][m]
        BY <2>4, <4>1, Zenon
      <4>3. CopyOf(d)
        BY Zenon DEF IInv, Inv, CopyInv
      <4> QED BY <2>3, <4>1, <4>2, <4>3, PageFacts, CopyKept, Zenon
    <3> QED BY <3>1, <3>2, Zenon
  <2>11. FaultInv'
    <3> SUFFICES ASSUME NEW d \in Procs
                 PROVE  FaultOf(d)'
      BY Zenon DEF FaultInv
    <3>1. pt'[d][PFTEMP] = pt[d][PFTEMP]
      BY <1>1, <2>4, PageFacts, Zenon
    <3>2. \A m \in Ordinary : pt'[d][m] = pt[d][m] /\ view'[d][m] = view[d][m]
      BY <1>1, <2>4, <2>5, PageFacts, Zenon
    <3>3. pt[d][PFTEMP].perm = "W" => content'[pt[d][PFTEMP].frame] = content[pt[d][PFTEMP].frame]
      BY <1>1, <2>1, <2>6, PageFacts DEF TypeFacts
    <3>4. FaultOf(d)
      BY Zenon DEF IInv, Inv, FaultInv
    <3>5. fault[d].step = "map" => pt[d][PFTEMP].perm = "W"
      BY <3>4, Zenon DEF FaultOf
    <3> QED BY <1>3, <3>1, <3>2, <3>3, <3>4, <3>5, FaultKept, Zenon
  <2>12. SeparateMemories'
    <3> SUFFICES ASSUME NEW d \in Procs, NEW m \in Ordinary, pt'[d][m] # Unmapped
                 PROVE  content'[pt'[d][m].frame] = view'[d][m]
      BY Zenon DEF SeparateMemories
    <3>1. pt'[d][m] = pt[d][m] /\ view'[d][m] = view[d][m] /\ m \in Pages
      BY <1>1, <2>4, <2>5, PageFacts, Zenon
    <3>2. pt[d][m].frame \in Frames \ {f}
      BY <1>1, <2>1, <3>1, Zenon DEF TypeFacts
    <3> QED BY <2>6, <3>1, <3>2, Zenon DEF IInv, Inv, SeparateMemories
  <2>13. WritableIsPrivate'
    <3> SUFFICES ASSUME NEW d \in Procs, NEW b \in Procs, NEW m \in Pages, NEW l \in Pages,
                        ~ (d = b /\ m = l), pt'[d][m].perm = "W", pt'[b][l].frame = pt'[d][m].frame
                 PROVE  Exempt(d, m, b, l)'
      BY PrivateAfter, Zenon
    <3>1. pt'[d][m] = pt[d][m] /\ pt'[b][l] = pt[b][l]
      BY <2>1, <2>2, <2>4
    <3>2. Exempt(d, m, b, l)
      BY <3>1, Unshared, Zenon DEF IInv, Inv
    <3>3. HalfCopied(d, m) => forking'[d] = forking[d]
      BY <1>3, <1>5, Zenon DEF HalfCopied
    <3> QED BY <1>3, <3>1, <3>2, <3>3, ExemptKept, Zenon
  <2> QED BY <1>7, <2>7, <2>8, <2>9, <2>10, <2>11, <2>12, <2>13, Zenon DEF IInv, Inv
<1> QED BY <1>8, <1>9, Zenon

\* What an environment does to its own pages, as long as none of the ordinary ones
\* comes or goes, is nothing to fork(): its child's pages are not its own.
LEMMA ForkKept ==
  ASSUME ForkCowAssumption, IInv, NEW e \in Procs, proc_status[e] \in {"run", "panic"},
         UNCHANGED <<proc_status, forking, lost>>,
         \A d \in Procs \ {e}, m \in Pages : pt'[d][m] = pt[d][m],
         \A m \in Ordinary : /\ pt'[e][m] # Unmapped <=> pt[e][m] # Unmapped
                             /\ pt[e][m].perm \in {"W", "COW"} => pt'[e][m].perm \in {"W", "COW"}
  PROVE  FreeInv' /\ ChildInv' /\ LoopInv' /\ CopyInv'
<1>1. TypeFacts
  BY TypesOfEntries, Zenon DEF IInv
<1>2. FreeInv' /\ ChildInv'
  BY DEF IInv, Inv, FreeInv, ChildInv, ChildOf
<1>3. \A d \in Procs : forking[d].step # "none" =>
        forking[d].child # e /\ \A m \in Pages : pt'[forking[d].child][m] = pt[forking[d].child][m]
  BY <1>1 DEF IInv, Inv, ChildInv, ChildOf, TypeFacts
<1>4. LoopInv'
  <2> SUFFICES ASSUME NEW d \in Procs
               PROVE  LoopOf(d)'
    BY Zenon DEF LoopInv
  <2>1. LoopOf(d)
    BY Zenon DEF IInv, Inv, LoopInv
  <2>2. \A m \in Ordinary : pt[d][m].perm \in {"W", "COW"} => pt'[d][m].perm \in {"W", "COW"}
    BY PageFacts, Zenon
  <2> QED BY <1>3, <2>1, <2>2, LoopKept, Zenon
<1>5. CopyInv'
  <2> SUFFICES ASSUME NEW d \in Procs, (forking[d].step # "none" /\ forking[d].child \notin lost)'
               PROVE  CopyOf(d)'
    BY Zenon DEF CopyInv, CopyOf
  <2>1. \A m \in Ordinary : pt'[d][m] # Unmapped <=> pt[d][m] # Unmapped
    BY PageFacts, Zenon
  <2>2. CopyOf(d)
    BY Zenon DEF IInv, Inv, CopyInv
  <2> QED BY <1>3, <2>1, <2>2, CopyKept, Zenon
<1> QED BY <1>2, <1>4, <1>5, Zenon

\* A store to a page that is writable: it reaches nobody else.
LEMMA WriteStep ==
  ASSUME ForkCowAssumption, IInv, NEW e \in Procs, NEW n \in Ordinary, NEW v \in Values,
         Write(e, n, v)
  PROVE  IInv'
<1>1. Typed /\ TypeFacts /\ n \in Pages /\ n # PFTEMP
  BY TypesOfEntries, PageFacts, Zenon DEF IInv
<1>2. /\ proc_status[e] = "run" /\ fault[e].step = "none" /\ pt[e][n].perm = "W"
      /\ UNCHANGED <<proc_status, pt, forking, fault, lost>>
  BY RunsFacts, Zenon DEF Write
<1>3. PICK f \in Frames, c \in Procs : f = pt[e][n].frame /\ c = forking[e].child
  BY <1>1, <1>2, Zenon DEF TypeFacts
<1>4. content' = [content EXCEPT ![f] = v]
  BY <1>3, Zenon DEF Write
<1>5. content'[f] = v /\ \A g \in Frames \ {f} : content'[g] = content[g]
  BY <1>1, <1>4, Zenon DEF Typed
<1>6. \A d \in Procs, m \in Pages :
        view'[d][m] = IF m = n /\ (d = e \/ (d = c /\ SharedHalf(e, n))) THEN v ELSE view[d][m]
  BY <1>3, Zenon DEF Write
<1>7. Typed'
  <2>1. content' \in [Frames -> Values]
    BY <1>1, <1>4, Zenon DEF Typed
  <2>2. view' \in [Procs -> [Pages -> Values]]
    BY <1>1, Zenon DEF Typed, Write
  <2> QED BY <1>1, <1>2, <2>1, <2>2, Zenon DEF Typed
<1>8. \* whoever else has the frame is the child that is just being given it
      \A d \in Procs, m \in Pages : pt[d][m].frame = f /\ ~ (d = e /\ m = n) =>
        SharedHalf(e, n) /\ d = c /\ m = n
  <2> SUFFICES ASSUME NEW d \in Procs, NEW m \in Pages, pt[d][m].frame = f, ~ (d = e /\ m = n)
               PROVE  SharedHalf(e, n) /\ d = c /\ m = n
    BY Zenon
  <2>1. Exempt(e, n, d, m)
    BY <1>1, <1>2, <1>3, Unshared, Zenon DEF IInv, Inv
  <2> QED BY <1>2, <1>3, <2>1, Zenon DEF Exempt
<1>9. SharedHalf(e, n) => pt[c][n].frame = f /\ proc_status[c] = "embryo"
  BY <1>3, Zenon DEF SharedHalf, HalfCopied, IInv, Inv, ChildInv, ChildOf
<1>10. FreeInv' /\ ChildInv' /\ LoopInv' /\ CopyInv'
  BY <1>2, ForkKept, Zenon
<1>11. FaultInv'
  <2> SUFFICES ASSUME NEW d \in Procs, fault[d].step = "map"
               PROVE  content'[pt[d][PFTEMP].frame] = view'[d][fault[d].pn]
    BY <1>2 DEF IInv, Inv, FaultInv, FaultOf
  <2>1. d # e /\ proc_status[d] \in {"run", "panic"} /\ pt[d][PFTEMP].perm = "W" /\ fault[d].pn \in Pages
    BY <1>1, <1>2, Zenon DEF IInv, Inv, FaultInv, FaultOf, TypeFacts
  <2>2. pt[d][PFTEMP].frame \in Frames \ {f}
    BY <1>1, <1>8, <2>1, PageFacts DEF TypeFacts
  <2>3. view'[d][fault[d].pn] = view[d][fault[d].pn]
    BY <1>6, <1>9, <2>1, Zenon
  <2>4. FaultOf(d)
    BY Zenon DEF IInv, Inv, FaultInv
  <2>5. content[pt[d][PFTEMP].frame] = view[d][fault[d].pn]
    BY <2>4, Zenon DEF FaultOf
  <2> QED BY <1>5, <2>2, <2>3, <2>5, Zenon
<1>12. SeparateMemories'
  <2> SUFFICES ASSUME NEW d \in Procs, NEW m \in Ordinary, pt[d][m] # Unmapped
               PROVE  content'[pt[d][m].frame] = view'[d][m]
    BY <1>2, Zenon DEF SeparateMemories
  <2>1. m \in Pages /\ pt[d][m].frame \in Frames
    BY <1>1, PageFacts, Zenon DEF TypeFacts
  <2>2. CASE pt[d][m].frame = f
    BY <1>5, <1>6, <1>8, <2>1, <2>2
  <2>3. CASE pt[d][m].frame # f
    <3>1. view'[d][m] = view[d][m]
      BY <1>3, <1>6, <1>9, <2>1, <2>3, Zenon
    <3> QED BY <1>5, <2>1, <2>3, <3>1, Zenon DEF IInv, Inv, SeparateMemories
  <2> QED BY <2>2, <2>3, Zenon
<1>13. WritableIsPrivate'
  <2>1. WritableIsPrivate
    BY Zenon DEF IInv, Inv
  <2> QED BY <1>2, <2>1, PrivateKept, Zenon
<1> QED BY <1>7, <1>10, <1>11, <1>12, <1>13, Zenon DEF IInv, Inv

\* The frame at PFTEMP, while it is filled, is nobody else's.
LEMMA TempPrivate ==
  ASSUME ForkCowAssumption, IInv, NEW e \in Procs, fault[e].step \in {"copy", "map"}
  PROVE  /\ pt[e][PFTEMP].frame \in Frames /\ pt[e][PFTEMP].perm = "W"
         /\ \A d \in Procs, m \in Pages : pt[d][m].frame = pt[e][PFTEMP].frame => d = e /\ m = PFTEMP
<1>1. TypeFacts /\ PFTEMP \in Pages /\ PFTEMP \notin Ordinary
  BY TypesOfEntries, PageFacts, Zenon DEF IInv
<1>2. pt[e][PFTEMP].perm = "W" /\ fault[e].step # "unmap"
  BY Zenon DEF IInv, Inv, FaultInv, FaultOf
<1>3. ~ HalfCopied(e, PFTEMP)
  BY <1>1, Zenon DEF IInv, Inv, LoopInv, LoopOf, HalfCopied
<1>4. ASSUME NEW d \in Procs, NEW m \in Pages, pt[d][m].frame = pt[e][PFTEMP].frame, ~ (d = e /\ m = PFTEMP)
      PROVE  FALSE
  <2>1. Exempt(e, PFTEMP, d, m)
    BY <1>1, <1>2, <1>4, Unshared, Zenon DEF IInv, Inv
  <2> QED BY <1>2, <1>3, <2>1, Zenon DEF Exempt, SharedHalf
<1> QED BY <1>1, <1>2, <1>4 DEF TypeFacts

\* pgfault(): memmove() to the new page.
LEMMA FaultCopyStep ==
  ASSUME ForkCowAssumption, IInv, NEW e \in Procs, FaultCopy(e)
  PROVE  IInv'
<1>1. Typed /\ TypeFacts /\ PFTEMP \in Pages /\ PFTEMP \notin Ordinary /\ Ordinary \subseteq Pages
  BY TypesOfEntries, PageFacts, Zenon DEF IInv
<1>2. /\ proc_status[e] = "run" /\ fault[e].step = "copy" /\ fault' = [fault EXCEPT ![e].step = "map"]
      /\ UNCHANGED <<proc_status, pt, forking, view, lost>>
  BY Zenon DEF FaultCopy
<1>3. PICK n \in Ordinary : n = fault[e].pn /\ pt[e][n].perm = "COW"
  BY <1>2, Zenon DEF IInv, Inv, FaultInv, FaultOf
<1>4. PICK f \in Frames, g \in Frames : f = pt[e][n].frame /\ g = pt[e][PFTEMP].frame /\ f # g
  BY <1>1, <1>2, <1>3, TempPrivate DEF TypeFacts
<1>5. content' = [content EXCEPT ![g] = content[f]]
  BY <1>3, <1>4, Zenon DEF FaultCopy
<1>6. content'[g] = content[f] /\ \A h \in Frames \ {g} : content'[h] = content[h]
  BY <1>1, <1>5, Zenon DEF Typed
<1>7. /\ fault' \in [Procs -> [pn : Pages, step : {"alloc", "copy", "map", "unmap", "none"}]]
      /\ fault'[e].step = "map" /\ fault'[e].pn = n
      /\ \A d \in Procs \ {e} : fault'[d] = fault[d]
  BY <1>1, <1>2, <1>3, Zenon DEF Typed
<1>8. Typed'
  <2>1. content' \in [Frames -> Values]
    BY <1>1, <1>5, Zenon DEF Typed
  <2> QED BY <1>1, <1>2, <1>7, <2>1, Zenon DEF Typed
<1>9. FreeInv' /\ ChildInv' /\ LoopInv' /\ CopyInv'
  BY <1>2, ForkKept, Zenon
<1>10. \A d \in Procs, m \in Pages : pt[d][m].frame = g => d = e /\ m = PFTEMP
  BY <1>2, <1>4, TempPrivate, Zenon
<1>11. content[f] = view[e][n]
  BY <1>1, <1>3, <1>4, Zenon DEF IInv, Inv, SeparateMemories, TypeFacts
<1>12. FaultInv'
  <2> SUFFICES ASSUME NEW d \in Procs
               PROVE  FaultOf(d)'
    BY Zenon DEF FaultInv
  <2>1. CASE d = e
    BY <1>2, <1>3, <1>4, <1>6, <1>7, <1>11, <2>1, TempPrivate, Zenon DEF FaultOf
  <2>2. CASE d # e
    <3>1. pt[d][PFTEMP].perm = "W" => pt[d][PFTEMP].frame \in Frames \ {g}
      BY <1>1, <1>10, <2>2, Zenon DEF TypeFacts
    <3>2. FaultOf(d)
      BY Zenon DEF IInv, Inv, FaultInv
    <3>3. fault[d].step = "map" => pt[d][PFTEMP].perm = "W"
      BY <3>2, Zenon DEF FaultOf
    <3> QED BY <1>2, <1>6, <1>7, <2>2, <3>1, <3>2, <3>3, FaultKept, Zenon
  <2> QED BY <2>1, <2>2, Zenon
<1>13. SeparateMemories'
  BY <1>1, <1>2, <1>6, <1>10 DEF IInv, Inv, SeparateMemories, TypeFacts
<1>14. WritableIsPrivate'
  <2>1. WritableIsPrivate
    BY Zenon DEF IInv, Inv
  <2> QED BY <1>2, <1>7, <2>1, PrivateKept, Zenon
<1> QED BY <1>8, <1>9, <1>12, <1>13, <1>14, Zenon DEF IInv, Inv

\* pgfault(): a page at PFTEMP, or a panic.
LEMMA FaultAllocStep ==
  ASSUME ForkCowAssumption, IInv, NEW e \in Procs, FaultAlloc(e)
  PROVE  IInv'
<1>1. Typed /\ TypeFacts /\ PFTEMP \in Pages /\ PFTEMP \notin Ordinary /\ Ordinary \subseteq Pages
  BY TypesOfEntries, PageFacts, Zenon DEF IInv
<1>2. proc_status[e] = "run" /\ fault[e].step = "alloc" /\ UNCHANGED <<forking, view, lost>>
  BY Zenon DEF FaultAlloc
<1>3. CASE FreeFrames = {}
  BY <1>2, <1>3, PanicStep, Zenon DEF FaultAlloc
<1>4. CASE FreeFrames # {}
  <2>1. PICK f \in Frames : f = page_alloc /\ \A d \in Procs, n \in Pages : pt[d][n].frame # f
    BY <1>4, AllocFree, Zenon
  <2>2. PICK x \in Mapped : x = Entry(f, "W") /\ x.frame = f /\ x.perm = "W" /\ x # Unmapped
    BY Entries
  <2>3. /\ pt' = [pt EXCEPT ![e][PFTEMP] = x] /\ content' = [content EXCEPT ![f] = 0]
        /\ fault' = [fault EXCEPT ![e].step = "copy"] /\ proc_status' = proc_status
    BY <1>4, <2>1, <2>2, Zenon DEF FaultAlloc
  <2>4. /\ pt'[e][PFTEMP] = x
        /\ \A d \in Procs, n \in Pages : ~ (d = e /\ n = PFTEMP) => pt'[d][n] = pt[d][n]
    BY <1>1, <2>3, Zenon DEF Typed
  <2>5. \A g \in Frames \ {f} : content'[g] = content[g]
    BY <1>1, <2>3, Zenon DEF Typed
  <2>6. /\ fault' \in [Procs -> [pn : Pages, step : {"alloc", "copy", "map", "unmap", "none"}]]
        /\ fault'[e].step = "copy" /\ fault'[e].pn = fault[e].pn
        /\ \A d \in Procs \ {e} : fault'[d] = fault[d]
    BY <1>1, <2>3 DEF Typed
  <2>7. Typed'
    <3>1. pt' \in [Procs -> [Pages -> Mapped \cup {Unmapped}]]
      BY <1>1, <2>3, Zenon DEF Typed
    <3>2. content' \in [Frames -> Values]
      BY <1>1, <2>3, Zenon DEF Typed, ForkCowAssumption
    <3> QED BY <1>1, <1>2, <2>3, <2>6, <3>1, <3>2, Zenon DEF Typed
  <2>8. FreeInv' /\ ChildInv' /\ LoopInv' /\ CopyInv'
    <3>1. /\ \A d \in Procs \ {e}, m \in Pages : pt'[d][m] = pt[d][m]
          /\ \A m \in Ordinary : pt'[e][m] = pt[e][m]
      BY <1>1, <2>4, Zenon
    <3> QED BY <1>2, <2>3, <3>1, ForkKept, Zenon
  <2>9. FaultInv'
    <3> SUFFICES ASSUME NEW d \in Procs
                 PROVE  FaultOf(d)'
      BY Zenon DEF FaultInv
    <3>1. \A m \in Ordinary : pt'[d][m] = pt[d][m]
      BY <1>1, <2>4, Zenon
    <3>2. CASE d = e
      <4>1. FaultOf(e)
        BY Zenon DEF IInv, Inv, FaultInv
      <4>2. fault[e].pn \in Ordinary /\ pt[e][fault[e].pn].perm = "COW"
        BY <1>2, <4>1, Zenon DEF FaultOf
      <4>3. pt'[e][fault'[e].pn].perm = "COW" /\ pt'[e][PFTEMP].perm = "W" /\ proc_status'[e] = "run"
        BY <1>2, <2>2, <2>3, <2>4, <2>6, <3>1, <3>2, <4>2
      <4> QED BY <2>6, <3>2, <4>2, <4>3, Zenon DEF FaultOf
    <3>3. CASE d # e
      <4>1. pt'[d][PFTEMP] = pt[d][PFTEMP]
        BY <1>1, <2>4, <3>3, Zenon
      <4>2. pt[d][PFTEMP].perm = "W" => content'[pt[d][PFTEMP].frame] = content[pt[d][PFTEMP].frame]
        BY <1>1, <2>1, <2>5 DEF TypeFacts
      <4>3. FaultOf(d)
        BY Zenon DEF IInv, Inv, FaultInv
      <4>4. fault[d].step = "map" => pt[d][PFTEMP].perm = "W"
        BY <4>3, Zenon DEF FaultOf
      <4> QED BY <1>2, <2>3, <2>6, <3>1, <3>3, <4>1, <4>2, <4>3, <4>4, FaultKept
    <3> QED BY <3>2, <3>3, Zenon
  <2>10. SeparateMemories'
    <3> SUFFICES ASSUME NEW d \in Procs, NEW m \in Ordinary, pt'[d][m] # Unmapped
                 PROVE  content'[pt'[d][m].frame] = view'[d][m]
      BY Zenon DEF SeparateMemories
    <3>1. pt'[d][m] = pt[d][m] /\ pt[d][m].frame \in Frames \ {f}
      BY <1>1, <2>1, <2>4 DEF TypeFacts
    <3> QED BY <1>2, <2>5, <3>1, Zenon DEF IInv, Inv, SeparateMemories
  <2>11. WritableIsPrivate'
    <3> SUFFICES ASSUME NEW d \in Procs, NEW b \in Procs, NEW m \in Pages, NEW l \in Pages,
                        ~ (d = b /\ m = l), pt'[d][m].perm = "W", pt'[b][l].frame = pt'[d][m].frame
                 PROVE  Exempt(d, m, b, l)'
      BY PrivateAfter, Zenon
    <3>1. pt'[d][m] = pt[d][m] /\ pt'[b][l] = pt[b][l]
      BY <2>1, <2>2, <2>4
    <3>2. Exempt(d, m, b, l)
      BY <3>1, Unshared, Zenon DEF IInv, Inv
    <3> QED BY <1>2, <2>3, <2>6, <3>1, <3>2, ExemptKept, Zenon
  <2> QED BY <2>7, <2>8, <2>9, <2>10, <2>11, Zenon DEF IInv, Inv
<1> QED BY <1>3, <1>4, Zenon

\* What Forget() does not forget.
LEMMA Remembered ==
  ASSUME Typed, NEW p, content' = ForgetFrames(p), 0 \in Values
  PROVE  /\ content' \in [Frames -> Values]
         /\ \A d \in Procs, m \in Pages : p[d][m].frame \in Frames => content'[p[d][m].frame] = content[p[d][m].frame]
BY Zenon DEF Typed, ForgetFrames

\* pgfault(): the copy takes the place of the page.
LEMMA FaultMapStep ==
  ASSUME ForkCowAssumption, IInv, NEW e \in Procs, FaultMap(e)
  PROVE  IInv'
<1>1. Typed /\ TypeFacts /\ PFTEMP \in Pages /\ PFTEMP \notin Ordinary /\ Ordinary \subseteq Pages
  BY TypesOfEntries, PageFacts, Zenon DEF IInv
<1>2. /\ proc_status[e] = "run" /\ fault[e].step = "map" /\ fault' = [fault EXCEPT ![e].step = "unmap"]
      /\ content' = ForgetFrames(pt') /\ UNCHANGED <<proc_status, forking, view, lost>>
  BY Zenon DEF FaultMap
<1>3. PICK n \in Ordinary : n = fault[e].pn /\ pt[e][n].perm = "COW"
  BY <1>2, Zenon DEF IInv, Inv, FaultInv, FaultOf
<1>4. PICK g \in Frames : /\ g = pt[e][PFTEMP].frame /\ content[g] = view[e][n] /\ pt[e][PFTEMP].perm = "W"
                          /\ \A d \in Procs, m \in Pages : pt[d][m].frame = g => d = e /\ m = PFTEMP
  BY <1>2, <1>3, TempPrivate, Zenon DEF IInv, Inv, FaultInv, FaultOf
<1>5. PICK x \in Mapped : x = Entry(g, "W") /\ x.frame = g /\ x.perm = "W" /\ x # Unmapped
  BY Entries
<1>6. pt' = [pt EXCEPT ![e][n] = x]
  BY <1>3, <1>4, <1>5, Zenon DEF FaultMap
<1>7. /\ pt'[e][n] = x
      /\ \A d \in Procs, m \in Pages : ~ (d = e /\ m = n) => pt'[d][m] = pt[d][m]
  BY <1>1, <1>6, Zenon DEF Typed
<1>8. pt' \in [Procs -> [Pages -> Mapped \cup {Unmapped}]]
  BY <1>1, <1>6, Zenon DEF Typed
<1>9. /\ content' \in [Frames -> Values]
      /\ \A d \in Procs, m \in Pages : pt'[d][m].frame \in Frames => content'[pt'[d][m].frame] = content[pt'[d][m].frame]
  BY <1>1, <1>2, Remembered DEF ForkCowAssumption
<1>10. /\ fault' \in [Procs -> [pn : Pages, step : {"alloc", "copy", "map", "unmap", "none"}]]
       /\ fault'[e].step = "unmap" /\ fault'[e].pn = n
       /\ \A d \in Procs \ {e} : fault'[d] = fault[d]
  BY <1>1, <1>2, <1>3, Zenon DEF Typed
<1>11. Typed'
  BY <1>1, <1>2, <1>8, <1>9, <1>10, Zenon DEF Typed
<1>12. FreeInv' /\ ChildInv' /\ LoopInv' /\ CopyInv'
  <2>1. /\ \A d \in Procs \ {e}, m \in Pages : pt'[d][m] = pt[d][m]
        /\ \A m \in Ordinary : /\ pt'[e][m] # Unmapped <=> pt[e][m] # Unmapped
                               /\ pt[e][m].perm \in {"W", "COW"} => pt'[e][m].perm \in {"W", "COW"}
    BY <1>1, <1>3, <1>5, <1>7 DEF TypeFacts
  <2> QED BY <1>2, <2>1, ForkKept, Zenon
<1>13. FaultInv'
  <2> SUFFICES ASSUME NEW d \in Procs
               PROVE  FaultOf(d)'
    BY Zenon DEF FaultInv
  <2>1. CASE d = e
    <3>1. pt'[e][n].perm = "W" /\ proc_status'[e] = "run"
      BY <1>2, <1>5, <1>7, Zenon
    <3> QED BY <1>10, <2>1, <3>1, Zenon DEF FaultOf
  <2>2. CASE d # e
    <3>1. \A m \in Pages : pt'[d][m] = pt[d][m]
      BY <1>7, <2>2, Zenon
    <3>2. pt[d][PFTEMP].perm = "W" => content'[pt[d][PFTEMP].frame] = content[pt[d][PFTEMP].frame]
      BY <1>1, <1>9, <3>1 DEF TypeFacts
    <3>3. FaultOf(d)
      BY Zenon DEF IInv, Inv, FaultInv
    <3>4. fault[d].step = "map" => pt[d][PFTEMP].perm = "W"
      BY <3>3, Zenon DEF FaultOf
    <3> QED BY <1>1, <1>2, <1>10, <2>2, <3>1, <3>2, <3>3, <3>4, FaultKept, Zenon
  <2> QED BY <2>1, <2>2, Zenon
<1>14. SeparateMemories'
  <2> SUFFICES ASSUME NEW d \in Procs, NEW m \in Ordinary, pt'[d][m] # Unmapped
               PROVE  content'[pt'[d][m].frame] = view'[d][m]
    BY Zenon DEF SeparateMemories
  <2>1. CASE d = e /\ m = n
    BY <1>1, <1>2, <1>4, <1>5, <1>7, <1>9, <2>1
  <2>2. CASE ~ (d = e /\ m = n)
    <3>1. pt'[d][m] = pt[d][m] /\ pt[d][m].frame \in Frames
      BY <1>1, <1>7, <2>2 DEF TypeFacts
    <3> QED BY <1>1, <1>2, <1>9, <3>1 DEF IInv, Inv, SeparateMemories
  <2> QED BY <2>1, <2>2, Zenon
<1>15. WritableIsPrivate'
  <2> SUFFICES ASSUME NEW d \in Procs, NEW b \in Procs, NEW m \in Pages, NEW l \in Pages,
                      ~ (d = b /\ m = l), pt'[d][m].perm = "W", pt'[b][l].frame = pt'[d][m].frame
               PROVE  Exempt(d, m, b, l)'
    BY PrivateAfter, Zenon
  <2>1. CASE (d = e /\ m = n) \/ (b = e /\ l = n)
    <3>1. pt'[d][m].frame = g /\ pt'[b][l].frame = g
      BY <1>5, <1>7, <2>1, Zenon
    <3>2. ASSUME NEW a \in Procs, NEW k \in Pages, pt'[a][k].frame = g
          PROVE  a = e /\ (k = n \/ k = PFTEMP)
      <4>1. CASE ~ (a = e /\ k = n)
        <5>1. pt'[a][k] = pt[a][k]
          BY <1>7, <4>1, Zenon
        <5> QED BY <1>4, <3>2, <5>1, Zenon
      <4> QED BY <4>1, Zenon
    <3> QED BY <1>10, <2>1, <3>1, <3>2, Zenon DEF Exempt
  <2>2. CASE ~ ((d = e /\ m = n) \/ (b = e /\ l = n))
    <3>1. pt'[d][m] = pt[d][m] /\ pt'[b][l] = pt[b][l]
      BY <1>7, <2>2, Zenon
    <3>2. Exempt(d, m, b, l)
      BY <3>1, Unshared, Zenon DEF IInv, Inv
    <3> QED BY <1>2, <1>10, <3>1, <3>2, ExemptKept, Zenon
  <2> QED BY <2>1, <2>2, Zenon
<1> QED BY <1>11, <1>12, <1>13, <1>14, <1>15, Zenon DEF IInv, Inv

\* pgfault(): PFTEMP is unmapped.
LEMMA FaultUnmapStep ==
  ASSUME ForkCowAssumption, IInv, NEW e \in Procs, FaultUnmap(e)
  PROVE  IInv'
<1>1. Typed /\ TypeFacts /\ PFTEMP \in Pages /\ PFTEMP \notin Ordinary /\ Ordinary \subseteq Pages
  BY TypesOfEntries, PageFacts, Zenon DEF IInv
<1>2. /\ proc_status[e] = "run" /\ fault[e].step = "unmap" /\ fault' = [fault EXCEPT ![e] = NoFault]
      /\ pt' = [pt EXCEPT ![e][PFTEMP] = Unmapped] /\ UNCHANGED <<proc_status, content, forking, view, lost>>
  BY Zenon DEF FaultUnmap
<1>3. /\ NoFault \in [pn : Pages, step : {"alloc", "copy", "map", "unmap", "none"}]
      /\ NoFault.step = "none"
  BY <1>1, Zenon DEF NoFault, PFTEMP
<1>4. /\ pt'[e][PFTEMP] = Unmapped
      /\ \A d \in Procs, m \in Pages : ~ (d = e /\ m = PFTEMP) => pt'[d][m] = pt[d][m]
  BY <1>1, <1>2, Zenon DEF Typed
<1>5. fault'[e].step = "none" /\ \A d \in Procs \ {e} : fault'[d] = fault[d]
  BY <1>1, <1>2, <1>3, Zenon DEF Typed
<1>6. Typed'
  <2>1. pt' \in [Procs -> [Pages -> Mapped \cup {Unmapped}]]
    BY <1>1, <1>2, Zenon DEF Typed
  <2> QED BY <1>1, <1>2, <1>3, <2>1, Zenon DEF Typed
<1>7. FreeInv' /\ ChildInv' /\ LoopInv' /\ CopyInv'
  <2>1. /\ \A d \in Procs \ {e}, m \in Pages : pt'[d][m] = pt[d][m]
        /\ \A m \in Ordinary : pt'[e][m] = pt[e][m]
    BY <1>1, <1>4, Zenon
  <2> QED BY <1>2, <2>1, ForkKept, Zenon
<1>8. FaultInv'
  <2> SUFFICES ASSUME NEW d \in Procs
               PROVE  FaultOf(d)'
    BY Zenon DEF FaultInv
  <2>1. CASE d = e
    BY <1>4, <1>5, <2>1, Zenon DEF FaultOf
  <2>2. CASE d # e
    <3>1. FaultOf(d) /\ \A m \in Pages : pt'[d][m] = pt[d][m]
      BY <1>4, <2>2, Zenon DEF IInv, Inv, FaultInv
    <3> QED BY <1>1, <1>2, <1>5, <2>2, <3>1, FaultKept, Zenon
  <2> QED BY <2>1, <2>2, Zenon
<1>9. SeparateMemories'
  BY <1>1, <1>2, <1>4 DEF IInv, Inv, SeparateMemories
<1>10. WritableIsPrivate'
  <2> SUFFICES ASSUME NEW d \in Procs, NEW b \in Procs, NEW m \in Pages, NEW l \in Pages,
                      ~ (d = b /\ m = l), pt'[d][m].perm = "W", pt'[b][l].frame = pt'[d][m].frame
               PROVE  Exempt(d, m, b, l)'
    BY PrivateAfter, Zenon
  <2>1. ~ (d = e /\ m = PFTEMP) /\ pt'[d][m] = pt[d][m] /\ pt[d][m].frame \in Frames
    BY <1>1, <1>4 DEF TypeFacts
  <2>2. ~ (b = e /\ l = PFTEMP) /\ pt'[b][l] = pt[b][l]
    BY <1>1, <1>4, <2>1 DEF TypeFacts
  <2>3. Exempt(d, m, b, l)
    BY <2>1, <2>2, Unshared, Zenon DEF IInv, Inv
  <2>4. CASE b # e
    BY <1>2, <1>5, <2>1, <2>2, <2>3, <2>4, ExemptKept, Zenon
  <2>5. CASE b = e
    <3>1. ~ (SharedHalf(d, m) /\ b = forking[d].child)
      BY <1>2, <2>5, Zenon DEF IInv, Inv, ChildInv, ChildOf, SharedHalf, HalfCopied
    <3> QED BY <2>1, <2>2, <2>3, <2>5, <3>1, Zenon DEF Exempt
  <2> QED BY <2>4, <2>5, Zenon
<1> QED BY <1>6, <1>7, <1>8, <1>9, <1>10, Zenon DEF IInv, Inv

\* env_free(): the pages go, and what others hold stays as it is.
LEMMA EnvFreeStep ==
  ASSUME ForkCowAssumption, IInv, NEW e \in Procs, EnvFree(e)
  PROVE  IInv'
<1>1. Typed /\ TypeFacts /\ PFTEMP \in Pages /\ UXSTACK \in Pages /\ Ordinary \subseteq Pages
  BY TypesOfEntries, PageFacts, Zenon DEF IInv
<1>2. /\ proc_status[e] \in {"run", "panic"} /\ proc_status' = [proc_status EXCEPT ![e] = "free"]
      /\ pt' = [pt EXCEPT ![e] = [n \in Pages |-> Unmapped]]
      /\ forking' = [forking EXCEPT ![e] = Idle] /\ fault' = [fault EXCEPT ![e] = NoFault]
      /\ lost' = lost \ {e} /\ view' = [view EXCEPT ![e] = [n \in Pages |-> 0]]
      /\ content' = ForgetFrames(pt')
  BY Zenon DEF EnvFree
<1>3. /\ NoFault \in [pn : Pages, step : {"alloc", "copy", "map", "unmap", "none"}]
      /\ NoFault.step = "none"
      /\ Idle \in [child : Procs, pn : Pages, step : {"child", "self", "start", "none"}]
      /\ Idle.step = "none"
  BY <1>1, Zenon DEF NoFault, Idle, PFTEMP, ForkCowAssumption
<1>4. /\ \A m \in Pages : pt'[e][m] = Unmapped
      /\ \A d \in Procs, m \in Pages : d # e => pt'[d][m] = pt[d][m] /\ view'[d][m] = view[d][m]
  BY <1>1, <1>2, Zenon DEF Typed
<1>5. /\ proc_status'[e] = "free" /\ forking'[e].step = "none" /\ fault'[e].step = "none"
      /\ \A d \in Procs : d # e => proc_status'[d] = proc_status[d] /\ forking'[d] = forking[d] /\ fault'[d] = fault[d]
  BY <1>1, <1>2, <1>3, Zenon DEF Typed
<1>6. /\ content' \in [Frames -> Values]
      /\ \A d \in Procs, m \in Pages : pt'[d][m].frame \in Frames => content'[pt'[d][m].frame] = content[pt'[d][m].frame]
  <2>1. content' = ForgetFrames(pt') /\ 0 \in Values
    BY Zenon DEF EnvFree, ForkCowAssumption
  <2> QED BY <1>1, <2>1, Remembered
<1>7. Typed'
  <2>1. pt' \in [Procs -> [Pages -> Mapped \cup {Unmapped}]]
    BY <1>1, <1>2, Zenon DEF Typed
  <2>2. view' \in [Procs -> [Pages -> Values]]
    BY <1>1, <1>2, Zenon DEF Typed, ForkCowAssumption
  <2>3. proc_status' \in [Procs -> {"free", "embryo", "run", "panic"}] /\ lost' \subseteq Procs
    BY <1>1, <1>2, Zenon DEF Typed
  <2> QED BY <1>1, <1>2, <1>3, <1>6, <2>1, <2>2, <2>3, Zenon DEF Typed
<1>8. \A d \in Procs : forking[d].step # "none" => forking[d].child # e /\ forking[d].child \in Procs
  BY <1>1, <1>2, Zenon DEF IInv, Inv, ChildInv, ChildOf, TypeFacts
<1>9. FreeInv'
  <2> SUFFICES ASSUME NEW d \in Procs, proc_status'[d] = "free", NEW m \in Pages
               PROVE  pt'[d][m] = Unmapped
    BY Zenon DEF FreeInv
  <2>1. CASE d = e
    BY <1>4, <2>1, Zenon
  <2>2. CASE d # e
    <3>1. proc_status[d] = "free" /\ pt'[d][m] = pt[d][m]
      BY <1>4, <1>5, <2>2, Zenon
    <3> QED BY <3>1, Zenon DEF IInv, Inv, FreeInv
  <2> QED BY <2>1, <2>2, Zenon
<1>10. ChildInv'
  <2> SUFFICES ASSUME NEW d \in Procs, forking'[d].step # "none"
               PROVE  ChildOf(d)'
    BY Zenon DEF ChildInv, ChildOf
  <2>1. d # e /\ forking'[d] = forking[d] /\ proc_status'[d] = proc_status[d] /\ ChildOf(d)
    BY <1>5, Zenon DEF IInv, Inv, ChildInv
  <2>2. proc_status'[forking[d].child] = proc_status[forking[d].child]
    BY <1>5, <1>8, <2>1, Zenon
  <2>3. \A a \in Procs : forking'[a].step # "none" => forking'[a] = forking[a]
    BY <1>5, Zenon
  <2> QED BY <2>1, <2>2, <2>3, Zenon DEF ChildOf
<1>11. LoopInv'
  <2> SUFFICES ASSUME NEW d \in Procs \ {e}, forking[d].step # "none"
               PROVE  LoopOf(d)'
    <3>1. \A d \in Procs : forking'[d].step = "none" => LoopOf(d)'
      BY Zenon DEF LoopOf
    <3>2. \A d \in Procs : forking'[d].step # "none" => d # e /\ forking[d].step # "none"
      BY <1>5, Zenon
    <3> QED BY <3>1, <3>2, Zenon DEF LoopInv
  <2>1. \A m \in Pages : pt'[d][m] = pt[d][m] /\ pt'[forking[d].child][m] = pt[forking[d].child][m]
    BY <1>4, <1>8, Zenon
  <2>2. LoopOf(d) /\ forking'[d] = forking[d]
    BY <1>5, Zenon DEF IInv, Inv, LoopInv
  <2> QED BY <1>1, <2>1, <2>2, LoopKept, Zenon
<1>12. CopyInv'
  <2> SUFFICES ASSUME NEW d \in Procs, (forking[d].step # "none" /\ forking[d].child \notin lost)'
               PROVE  CopyOf(d)'
    BY Zenon DEF CopyInv, CopyOf
  <2>1. d # e /\ forking'[d] = forking[d] /\ forking[d].step # "none" /\ forking[d].child \notin lost
    BY <1>2, <1>5, <1>8
  <2>2. \A m \in Pages : pt'[d][m] = pt[d][m] /\ pt'[forking[d].child][m] = pt[forking[d].child][m]
    BY <1>4, <1>8, <2>1, Zenon
  <2>3. CopyOf(d)
    BY Zenon DEF IInv, Inv, CopyInv
  <2> QED BY <1>1, <2>1, <2>2, <2>3, CopyKept, Zenon
<1>13. FaultInv'
  <2> SUFFICES ASSUME NEW d \in Procs
               PROVE  FaultOf(d)'
    BY Zenon DEF FaultInv
  <2>1. CASE d = e
    BY <1>1, <1>4, <1>5, <2>1, Zenon DEF FaultOf
  <2>2. CASE d # e
    <3>1. \A m \in Pages : pt'[d][m] = pt[d][m] /\ view'[d][m] = view[d][m]
      BY <1>4, <2>2, Zenon
    <3>2. pt[d][PFTEMP].perm = "W" => pt[d][PFTEMP].frame \in Frames
      BY <1>1, Zenon DEF TypeFacts
    <3>3. pt[d][PFTEMP].perm = "W" => content'[pt[d][PFTEMP].frame] = content[pt[d][PFTEMP].frame]
      BY <1>1, <1>6, <3>1, <3>2
    <3>4. FaultOf(d)
      BY Zenon DEF IInv, Inv, FaultInv
    <3>5. fault[d].step = "map" => pt[d][PFTEMP].perm = "W"
      BY <3>4, Zenon DEF FaultOf
    <3> QED BY <1>1, <1>5, <2>2, <3>1, <3>3, <3>4, <3>5, FaultKept, Zenon
  <2> QED BY <2>1, <2>2, Zenon
<1>14. SeparateMemories'
  <2> SUFFICES ASSUME NEW d \in Procs, NEW m \in Ordinary, pt'[d][m] # Unmapped
               PROVE  content'[pt'[d][m].frame] = view'[d][m]
    BY Zenon DEF SeparateMemories
  <2>1. d # e /\ pt'[d][m] = pt[d][m] /\ view'[d][m] = view[d][m] /\ m \in Pages
    BY <1>1, <1>4, Zenon
  <2>2. pt[d][m].frame \in Frames
    BY <1>1, <2>1, Zenon DEF TypeFacts
  <2>3. content[pt[d][m].frame] = view[d][m]
    BY <2>1, Zenon DEF IInv, Inv, SeparateMemories
  <2> QED BY <1>6, <2>1, <2>2, <2>3, Zenon
<1>15. WritableIsPrivate'
  <2> SUFFICES ASSUME NEW d \in Procs, NEW b \in Procs, NEW m \in Pages, NEW l \in Pages,
                      ~ (d = b /\ m = l), pt'[d][m].perm = "W", pt'[b][l].frame = pt'[d][m].frame
               PROVE  Exempt(d, m, b, l)'
    BY PrivateAfter, Zenon
  <2>1. d # e /\ pt'[d][m] = pt[d][m] /\ pt[d][m].frame \in Frames
    <3>1. d # e
      BY <1>4, Entries
    <3>2. pt'[d][m] = pt[d][m]
      BY <1>4, <3>1, Zenon
    <3> QED BY <1>1, <3>1, <3>2, Zenon DEF TypeFacts
  <2>2. b # e /\ pt'[b][l] = pt[b][l]
    <3>1. b # e
      BY <1>4, <2>1, Entries
    <3> QED BY <1>4, <3>1, Zenon
  <2>3. Exempt(d, m, b, l)
    BY <2>1, <2>2, Unshared, Zenon DEF IInv, Inv
  <2>4. HalfCopied(d, m) => /\ forking'[d] = forking[d]
                            /\ proc_status'[forking[d].child] = proc_status[forking[d].child]
    BY <1>5, <1>8, <2>1, Zenon DEF HalfCopied
  <2> QED BY <1>5, <2>1, <2>2, <2>3, <2>4, ExemptKept, Zenon
<1> QED BY <1>7, <1>9, <1>10, <1>11, <1>12, <1>13, <1>14, <1>15, Zenon DEF IInv, Inv

-----------------------------------------------------------------------------
\* The first environment's pages are its own.
LEMMA InitIInv == ASSUME ForkCowAssumption PROVE InitFork => IInv
<1> SUFFICES ASSUME InitFork PROVE IInv
  BY Zenon
<1>1. /\ PFTEMP \in Pages /\ UXSTACK \in Pages /\ Ordinary \subseteq Pages /\ PFTEMP \notin Ordinary
      /\ \A n \in Pages : n # PFTEMP => n \in Frames
  BY PageFacts DEF ForkCowAssumption, UXSTACK, Pages, PFTEMP
<1>2. PICK ro \in SUBSET Ordinary :
        pt = [e \in Procs |-> [n \in Pages |->
               IF e # Root \/ n = PFTEMP THEN Unmapped
               ELSE Entry(n, IF n \in ro THEN "R" ELSE "W")]]
  BY Zenon DEF InitFork
<1>3. \A e \in Procs, n \in Pages :
        pt[e][n] = IF e # Root \/ n = PFTEMP THEN Unmapped ELSE Entry(n, IF n \in ro THEN "R" ELSE "W")
  BY <1>2, Zenon
<1>4. \A e \in Procs, n \in Pages :
        \/ pt[e][n] = Unmapped
        \/ e = Root /\ n # PFTEMP /\ pt[e][n] \in Mapped /\ pt[e][n] # Unmapped /\ pt[e][n].frame = n
  BY <1>1, <1>3, Entries
<1>5. /\ NoFault \in [pn : Pages, step : {"alloc", "copy", "map", "unmap", "none"}]
      /\ NoFault.step = "none"
      /\ Idle \in [child : Procs, pn : Pages, step : {"child", "self", "start", "none"}]
      /\ Idle.step = "none"
  BY <1>1, Zenon DEF NoFault, Idle, PFTEMP, ForkCowAssumption
<1>6. /\ \A e \in Procs : /\ forking[e].step = "none" /\ fault[e].step = "none"
                          /\ proc_status[e] = IF e = Root THEN "run" ELSE "free"
      /\ \A f \in Frames : content[f] = 0
      /\ \A e \in Procs, n \in Pages : view[e][n] = 0
  BY <1>5, Zenon DEF InitFork
<1>7. Typed
  <2>1. pt \in [Procs -> [Pages -> Mapped \cup {Unmapped}]]
    BY <1>2, <1>4, Zenon
  <2>2. content \in [Frames -> Values] /\ view \in [Procs -> [Pages -> Values]]
    BY Zenon DEF InitFork, ForkCowAssumption
  <2>3. proc_status \in [Procs -> {"free", "embryo", "run", "panic"}] /\ lost \subseteq Procs
    BY Zenon DEF InitFork
  <2>4. /\ forking \in [Procs -> [child : Procs, pn : Pages, step : {"child", "self", "start", "none"}]]
        /\ fault \in [Procs -> [pn : Pages, step : {"alloc", "copy", "map", "unmap", "none"}]]
    BY <1>5, Zenon DEF InitFork
  <2> QED BY <2>1, <2>2, <2>3, <2>4, Zenon DEF Typed
<1>8. FreeInv /\ ChildInv /\ LoopInv /\ CopyInv
  BY <1>4, <1>6, Zenon DEF FreeInv, ChildInv, ChildOf, LoopInv, LoopOf, CopyInv, CopyOf
<1>9. FaultInv
  BY <1>1, <1>4, <1>6, Zenon DEF FaultInv, FaultOf
<1>10. SeparateMemories
  <2> SUFFICES ASSUME NEW e \in Procs, NEW n \in Ordinary, pt[e][n] # Unmapped
               PROVE  content[pt[e][n].frame] = view[e][n]
    BY Zenon DEF SeparateMemories
  <2>1. n \in Pages /\ pt[e][n].frame = n /\ n \in Frames
    BY <1>1, <1>4, Zenon
  <2> QED BY <1>6, <2>1, Zenon
<1>11. WritableIsPrivate
  BY <1>1, <1>4, Entries DEF WritableIsPrivate
<1> QED BY <1>7, <1>8, <1>9, <1>10, <1>11, Zenon DEF IInv, Inv

\* Every step preserves the invariant.
LEMMA NextIInv == ASSUME ForkCowAssumption PROVE IInv /\ [NextFork]_varsFork => IInv'
<1> SUFFICES ASSUME IInv, [NextFork]_varsFork PROVE IInv'
  BY Zenon
<1>1. CASE UNCHANGED varsFork
  <2>1. UNCHANGED <<proc_status, pt, content, forking, fault, view, lost>>
    BY <1>1, Zenon DEF varsFork
  <2>2. Typed'
    BY <2>1, Zenon DEF IInv, Typed
  <2>3. FreeInv' /\ SeparateMemories'
    BY <2>1, Zenon DEF IInv, Inv, FreeInv, SeparateMemories
  <2>4. ChildInv'
    BY <2>1, Zenon DEF IInv, Inv, ChildInv, ChildOf
  <2>5. LoopInv'
    BY <2>1, LoopKept, Zenon DEF IInv, Inv, LoopInv
  <2>6. CopyInv'
    BY <2>1, CopyKept, Zenon DEF IInv, Inv, CopyInv
  <2>7. FaultInv'
    BY <2>1, FaultKept, Zenon DEF IInv, Inv, FaultInv
  <2>8. WritableIsPrivate
    BY Zenon DEF IInv, Inv
  <2>9. WritableIsPrivate'
    BY <2>1, <2>8, PrivateKept, Zenon
  <2> QED BY <2>2, <2>3, <2>4, <2>5, <2>6, <2>7, <2>9, Zenon DEF IInv, Inv
<1>2. ASSUME NEW e \in Procs, ExoforkFails(e) \/ \E n \in Ordinary : BadWrite(e, n)
      PROVE  IInv'
  BY <1>2, PanicStep, Zenon DEF ExoforkFails, BadWrite, Runs
<1>3. ASSUME NEW e \in Procs, ForkStep(e)
      PROVE  IInv'
  BY <1>3, SkipPageStep, DupChildStep, DupSelfStep, AllocUxstackStep, SetStatusStep, Zenon DEF ForkStep
<1>4. ASSUME NEW e \in Procs, PgfaultStep(e)
      PROVE  IInv'
  BY <1>4, FaultAllocStep, FaultCopyStep, FaultMapStep, FaultUnmapStep, Zenon DEF PgfaultStep
<1> QED BY <1>1, <1>2, <1>3, <1>4, ExoforkStep, WriteStep, WriteFaultStep, EnvFreeStep, Zenon DEF NextFork

\* The invariant, from which the others follow.
THEOREM Invariance == ASSUME ForkCowAssumption PROVE SpecFork => []IInv
BY InitIInv, NextIInv, PTL DEF SpecFork

\* After fork() parent and child have separate memories, whatever the order of the
\* calls of duppage() and pgfault() of however many relatives.  Why: but for two short
\* moments of duppage() and pgfault(), a frame that somebody may write is mapped
\* nowhere else.
THEOREM MemoriesStayApart == ASSUME ForkCowAssumption PROVE SpecFork => []Isolation
<1>1. IInv => Isolation
  BY Zenon DEF IInv, Inv, Isolation
<1> QED BY <1>1, Invariance, PTL

\* Only sys_env_set_status() at the end of fork() starts a child.
LEMMA StartedBy ==
  ASSUME ForkCowAssumption, IInv, NextFork, NEW x \in Procs, proc_status[x] = "embryo", proc_status'[x] = "run"
  PROVE  \E d \in Procs : forking[d].child = x /\ forking[d].step = "start"
<1>1. Typed /\ TypeFacts
  BY TypesOfEntries, Zenon DEF IInv
<1>2. proc_status' # proc_status
  BY Zenon
<1>3. ASSUME NEW e \in Procs, NEW c \in Procs, Exofork(e, c)
      PROVE  FALSE
  BY <1>1, <1>3, Zenon DEF Exofork, Typed
<1>4. ASSUME NEW e \in Procs, Panics(e)
      PROVE  FALSE
  BY <1>1, <1>4, Zenon DEF Panics, Typed
<1>5. ASSUME NEW e \in Procs, EnvFree(e)
      PROVE  FALSE
  BY <1>1, <1>5, Zenon DEF EnvFree, Typed
<1>6. ASSUME NEW e \in Procs, SetStatus(e)
      PROVE  forking[e].child = x /\ forking[e].step = "start"
  BY <1>1, <1>6, Zenon DEF SetStatus, Typed, TypeFacts
<1>7. ASSUME NEW e \in Procs, ForkStep(e)
      PROVE  SetStatus(e)
  BY <1>2, <1>7, Zenon DEF ForkStep, SkipPage, DupChild, DupSelf, AllocUxstack
<1>8. ASSUME NEW e \in Procs, PgfaultStep(e)
      PROVE  FALSE
  BY <1>2, <1>4, <1>8, Zenon DEF PgfaultStep, FaultAlloc, FaultCopy, FaultMap, FaultUnmap
<1>9. ASSUME NEW e \in Procs, NEW n \in Ordinary,
             BadWrite(e, n) \/ WriteFault(e, n) \/ \E v \in Values : Write(e, n, v)
      PROVE  FALSE
  BY <1>2, <1>4, <1>9, Zenon DEF BadWrite, WriteFault, Write
<1>10. ASSUME NEW e \in Procs, ExoforkFails(e)
      PROVE  FALSE
  BY <1>4, <1>10, Zenon DEF ExoforkFails
<1> QED BY <1>3, <1>5, <1>6, <1>7, <1>8, <1>9, <1>10, Zenon DEF NextFork

\* A child that fork() starts, with no call having failed, has all the ordinary
\* pages of its parent and an exception stack of its own.
THEOREM ChildrenAreComplete == ASSUME ForkCowAssumption PROVE SpecFork => StartsComplete
<1>1. IInv /\ [NextFork]_varsFork => [StartStep]_varsFork
  <2> SUFFICES ASSUME IInv, NextFork PROVE StartStep
    BY Zenon
  <2> SUFFICES ASSUME NEW x \in Procs, proc_status[x] = "embryo", proc_status'[x] = "run", x \notin lost
               PROVE  \E d \in Procs :
                        /\ forking[d].child = x /\ forking[d].step = "start"
                        /\ \A n \in Ordinary : pt[d][n] # Unmapped => pt[x][n] # Unmapped
                        /\ pt[x][UXSTACK] # Unmapped
    BY Zenon DEF StartStep
  <2>1. PICK d \in Procs : forking[d].child = x /\ forking[d].step = "start"
    BY StartedBy, Zenon
  <2>2. \A n \in Ordinary : Passed(d, n)
    BY <2>1, Zenon DEF Passed
  <2> QED BY <2>1, <2>2, Zenon DEF IInv, Inv, CopyInv, CopyOf
<1> QED BY <1>1, Invariance, PTL DEF SpecFork, StartsComplete

\* A store that faulted can go ahead when pgfault() returns.
THEOREM FaultsAreResolved == ASSUME ForkCowAssumption PROVE SpecFork => FaultResolves
<1>1. IInv /\ [NextFork]_varsFork => [ResolveStep]_varsFork
  <2> SUFFICES ASSUME IInv, NextFork PROVE ResolveStep
    BY Zenon
  <2> SUFFICES ASSUME NEW x \in Procs, fault[x].step = "unmap", fault'[x] = NoFault, proc_status'[x] = "run"
               PROVE  pt'[x][fault[x].pn].perm = "W"
    BY Zenon DEF ResolveStep
  <2>1. Typed /\ TypeFacts /\ PFTEMP \in Pages /\ PFTEMP \notin Ordinary /\ Ordinary \subseteq Pages
    BY TypesOfEntries, PageFacts, Zenon DEF IInv
  <2>2. fault' # fault /\ fault'[x].step = "none"
    BY DEF NoFault
  <2>3. fault[x].pn \in Ordinary /\ pt[x][fault[x].pn].perm = "W"
    BY Zenon DEF IInv, Inv, FaultInv, FaultOf
  <2>4. ASSUME NEW e \in Procs, EnvFree(e)
        PROVE  FALSE
    <3>1. e # x
      BY <2>1, <2>4, Zenon DEF EnvFree, Typed
    <3> QED BY <2>1, <2>2, <2>4, <3>1, Zenon DEF EnvFree, Typed
  <2>5. ASSUME NEW e \in Procs, NEW n \in Ordinary, WriteFault(e, n)
        PROVE  FALSE
    <3>1. fault' = [fault EXCEPT ![e] = [pn |-> n, step |-> "alloc"]]
      BY <2>5, Zenon DEF WriteFault
    <3>2. fault'[x].step # "none"
      BY <2>1, <3>1, Zenon DEF Typed
    <3> QED BY <2>2, <3>2, Zenon
  <2>6. ASSUME NEW e \in Procs, FaultAlloc(e) \/ FaultCopy(e) \/ FaultMap(e)
        PROVE  FALSE
    <3>1. \E s \in {"copy", "map", "unmap"} : fault' = [fault EXCEPT ![e].step = s]
      BY <2>2, <2>6, Zenon DEF FaultAlloc, FaultCopy, FaultMap
    <3>2. fault'[x].step # "none"
      BY <2>1, <3>1 DEF Typed
    <3> QED BY <2>2, <3>2, Zenon
  <2>7. ASSUME NEW e \in Procs, FaultUnmap(e)
        PROVE  pt'[x][fault[x].pn].perm = "W"
    <3>1. pt' = [pt EXCEPT ![e][PFTEMP] = Unmapped]
      BY <2>7, Zenon DEF FaultUnmap
    <3>2. pt'[x][fault[x].pn] = pt[x][fault[x].pn]
      BY <2>1, <2>3, <3>1, Zenon DEF Typed
    <3> QED BY <2>3, <3>2, Zenon
  <2>8. ASSUME NEW e \in Procs, ForkStep(e) \/ ExoforkFails(e)
        PROVE  FALSE
    BY <2>2, <2>8, Zenon DEF ForkStep, SkipPage, DupChild, DupSelf, AllocUxstack, SetStatus, ExoforkFails
  <2>9. ASSUME NEW e \in Procs, NEW n \in Ordinary, BadWrite(e, n) \/ \E v \in Values : Write(e, n, v)
        PROVE  FALSE
    BY <2>2, <2>9, Zenon DEF BadWrite, Write
  <2>10. ASSUME NEW e \in Procs, NEW c \in Procs, Exofork(e, c)
        PROVE  FALSE
    BY <2>2, <2>10, Zenon DEF Exofork
  <2> QED BY <2>4, <2>5, <2>6, <2>7, <2>8, <2>9, <2>10, Zenon DEF NextFork, PgfaultStep
<1> QED BY <1>1, Invariance, PTL DEF SpecFork, FaultResolves
=============================================================================
