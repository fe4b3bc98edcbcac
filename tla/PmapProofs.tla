----------------------------- MODULE PmapProofs -----------------------------
(***************************************************************************)
(* Proofs about Pmap: for any number of pages, environments and table      *)
(* entries, as long as the places that can point to a page are fewer than  *)
(* the values of pp_ref (NoWrap) and callers pass flags as permissions     *)
(* (FlagsOnly), the reference counts and the free list are exact.          *)
(*                                                                         *)
(* The operations pass through states in which a page is already off the   *)
(* free list and not yet pointed to; Exact is the invariant with such a    *)
(* set H of held pages, and is proved for one pointer change at a time.    *)
(***************************************************************************)
EXTENDS Pmap, FiniteSetTheorems, TLAPS

\* A count cannot come back to 0 by being incremented.
NoWrap == Cardinality(Places) < REFMOD

RefsIn(pt, p) == {r \in Places : pt[r] = p}

\* The tables pt with the place r pointing to v.
Put(pt, r, v) == [pt EXCEPT ![r] = v]

Exact(pt, ref, fr, H) ==
  /\ pt \in [Places -> Pages \cup {Nil}]
  /\ ref \in [Pages -> Nat]
  /\ fr \in [Pages -> Nat]
  /\ \A p \in Pages :
       /\ ref[p] = Cardinality(RefsIn(pt, p))
       /\ fr[p] = IF RefsIn(pt, p) = {} /\ p \notin H THEN 1 ELSE 0

\* Callers that pass flags pass PTE_U and PTE_W or neither.
LEMMA FlagsAre == ASSUME FlagsOnly PROVE Perms \subseteq SUBSET {"U", "W"}
BY PmapAssumption DEF FlagsOnly

\* The kinds of places are disjoint.
LEMMA PlaceKinds ==
  /\ \A r \in DirPlaces : r \notin TablePlaces /\ r \notin PagePlaces
  /\ \A r \in TablePlaces : r \notin PagePlaces
<1>1. \A r \in DirPlaces : DOMAIN r = 1 .. 1
  BY DEF DirPlaces
<1>2. \A r \in TablePlaces : DOMAIN r = 1 .. 2
  BY DEF TablePlaces
<1>3. \A r \in PagePlaces : DOMAIN r = 1 .. 3
  BY DEF PagePlaces
<1>4. 2 \in 1 .. 2 /\ 2 \notin 1 .. 1 /\ 3 \in 1 .. 3 /\ 3 \notin 1 .. 2 /\ 3 \notin 1 .. 1
  OBVIOUS
<1> QED BY <1>1, <1>2, <1>3, <1>4, Zenon

\* There are finitely many places that can refer to a page.
LEMMA PlacesFinite == IsFiniteSet(Places)
<1>1. IsFiniteSet(DirPlaces)
  <2> DEFINE f == [e \in Envs |-> <<e>>]
  <2>1. f \in Surjection(Envs, DirPlaces)
    BY Zenon DEF Surjection, DirPlaces
  <2> QED BY <2>1, PmapAssumption, FS_Surjection, Zenon
<1>2. IsFiniteSet(TablePlaces)
  BY PmapAssumption, FS_Product, Zenon DEF TablePlaces
<1>3. IsFiniteSet(PagePlaces)
  <2> DEFINE f == [q \in TablePlaces \X Ptxs |-> <<q[1][1], q[1][2], q[2]>>]
  <2>1. IsFiniteSet(TablePlaces \X Ptxs)
    BY <1>2, PmapAssumption, FS_Product, Zenon
  <2>2. f \in Surjection(TablePlaces \X Ptxs, PagePlaces)
    <3>1. \A q \in TablePlaces \X Ptxs : <<q[1][1], q[1][2], q[2]>> \in PagePlaces
      BY Zenon DEF TablePlaces, PagePlaces
    <3>2. ASSUME NEW r \in PagePlaces
          PROVE  \E q \in TablePlaces \X Ptxs : f[q] = r
      <4>1. r[1] \in Envs /\ r[2] \in Pdxs /\ r[3] \in Ptxs /\ r = <<r[1], r[2], r[3]>>
        BY DEF PagePlaces
      <4>2. <<<<r[1], r[2]>>, r[3]>> \in TablePlaces \X Ptxs
        BY <4>1, Zenon DEF TablePlaces
      <4>3. f[<<<<r[1], r[2]>>, r[3]>>] = r
        BY <4>1, <4>2, Zenon
      <4> QED BY <4>2, <4>3, Zenon
    <3> QED BY <3>1, <3>2, Zenon DEF Surjection
  <2> QED BY <2>1, <2>2, FS_Surjection, Zenon
<1> QED BY <1>1, <1>2, <1>3, FS_Union, Zenon DEF Places

\* References to a page are finitely many, and fewer than pp_ref can count.
LEMMA RefsFinite ==
  ASSUME NEW pt, NEW p
  PROVE  /\ IsFiniteSet(RefsIn(pt, p))
         /\ Cardinality(RefsIn(pt, p)) \in Nat
         /\ Cardinality(RefsIn(pt, p)) <= Cardinality(Places)
         /\ Cardinality(RefsIn(pt, p)) = 0 <=> RefsIn(pt, p) = {}
<1>1. RefsIn(pt, p) \in SUBSET Places
  BY Zenon DEF RefsIn
<1>2. IsFiniteSet(RefsIn(pt, p)) /\ Cardinality(RefsIn(pt, p)) <= Cardinality(Places)
  BY <1>1, PlacesFinite, FS_Subset, Zenon
<1> QED BY <1>2, FS_CardinalityType, FS_EmptySet, Zenon

\* The number of references to a page fits in pp_ref.
LEMMA CountsFit ==
  ASSUME NoWrap, NEW pt, NEW p
  PROVE  Cardinality(RefsIn(pt, p)) \in 0 .. REFMOD - 1
<1>1. Cardinality(Places) \in Nat
  BY PlacesFinite, FS_CardinalityType, Zenon
<1> QED BY <1>1, RefsFinite, PmapAssumption DEF NoWrap

\* What one pointer change does to the sets of references.
LEMMA OnePointer ==
  ASSUME NEW pt \in [Places -> Pages \cup {Nil}], NEW r \in Places,
         NEW v \in Pages \cup {Nil}, pt[r] # v, NEW p \in Pages
  PROVE  /\ RefsIn(Put(pt, r, v), p) = IF p = v THEN RefsIn(pt, p) \cup {r}
                            ELSE IF p = pt[r] THEN RefsIn(pt, p) \ {r}
                            ELSE RefsIn(pt, p)
         /\ Cardinality(RefsIn(Put(pt, r, v), p)) =
              IF p = v THEN Cardinality(RefsIn(pt, p)) + 1
              ELSE IF p = pt[r] THEN Cardinality(RefsIn(pt, p)) - 1
              ELSE Cardinality(RefsIn(pt, p))
<1>1. RefsIn(Put(pt, r, v), p) = IF p = v THEN RefsIn(pt, p) \cup {r}
                      ELSE IF p = pt[r] THEN RefsIn(pt, p) \ {r}
                      ELSE RefsIn(pt, p)
  BY Zenon DEF RefsIn, Put
<1>2. IsFiniteSet(RefsIn(pt, p))
  BY RefsFinite, Zenon
<1>3. p = v => r \notin RefsIn(pt, p)
  BY Zenon DEF RefsIn
<1>4. p = pt[r] => r \in RefsIn(pt, p)
  BY Zenon DEF RefsIn
<1>5. Cardinality(RefsIn(Put(pt, r, v), p)) =
              IF p = v THEN Cardinality(RefsIn(pt, p)) + 1
              ELSE IF p = pt[r] THEN Cardinality(RefsIn(pt, p)) - 1
              ELSE Cardinality(RefsIn(pt, p))
  <2>1. CASE p = v
    <3>1. RefsIn(Put(pt, r, v), p) = RefsIn(pt, p) \cup {r}
      BY <2>1, <1>1, Zenon
    <3>2. Cardinality(RefsIn(pt, p) \cup {r}) = Cardinality(RefsIn(pt, p)) + 1
      BY <2>1, <1>2, <1>3, FS_AddElement, Zenon
    <3> QED BY <2>1, <3>1, <3>2, Zenon
  <2>2. CASE p # v /\ p = pt[r]
    <3>1. RefsIn(Put(pt, r, v), p) = RefsIn(pt, p) \ {r}
      BY <2>2, <1>1, Zenon
    <3>2. Cardinality(RefsIn(pt, p) \ {r}) = Cardinality(RefsIn(pt, p)) - 1
      BY <2>2, <1>2, <1>4, FS_RemoveElement, Zenon
    <3> QED BY <2>2, <3>1, <3>2, Zenon
  <2>3. CASE p # v /\ p # pt[r]
    BY <2>3, <1>1, Zenon
  <2> QED BY <2>1, <2>2, <2>3, Zenon
<1> QED BY <1>1, <1>5, Zenon

-----------------------------------------------------------------------------
(* Exact through the pieces of an operation.                                *)

\* page_alloc() returns p.
LEMMA ExactHold ==
  ASSUME NEW pt, NEW ref, NEW fr, Exact(pt, ref, fr, {}),
         NEW p \in Pages, Allocatable(p, fr)
  PROVE  Exact(pt, [ref EXCEPT ![p] = 0], Popped(p, fr), {p})
<1>1. fr[p] = 1 /\ RefsIn(pt, p) = {} /\ ref[p] = 0
  BY RefsFinite DEF Exact, Allocatable
<1> QED BY <1>1 DEF Exact, Popped

\* A page from the free list becomes a page directory or a page table.
LEMMA ExactLink ==
  ASSUME NEW pt, NEW ref, NEW fr, NEW H, Exact(pt, ref, fr, H),
         NEW t \in Pages, Allocatable(t, fr), NEW d \in Places, pt[d] = Nil
  PROVE  Exact([pt EXCEPT ![d] = t], [ref EXCEPT ![t] = Inc(0)], Popped(t, fr), H)
<1> DEFINE nt == [pt EXCEPT ![d] = t]
<1>1. fr[t] = 1 /\ RefsIn(pt, t) = {} /\ ref[t] = 0 /\ t \notin H
  BY RefsFinite DEF Exact, Allocatable
<1>2. Inc(0) = 1 /\ t # Nil
  BY PmapAssumption DEF Inc
<1>3. nt \in [Places -> Pages \cup {Nil}] /\ nt = Put(pt, d, t)
  BY Zenon DEF Exact, Put
<1> HIDE DEF nt
<1>4. ASSUME NEW p \in Pages
      PROVE  /\ [ref EXCEPT ![t] = 1][p] = Cardinality(RefsIn(nt, p))
             /\ Popped(t, fr)[p] = IF RefsIn(nt, p) = {} /\ p \notin H THEN 1 ELSE 0
  <2>1. /\ RefsIn(nt, p) = IF p = t THEN RefsIn(pt, p) \cup {d} ELSE RefsIn(pt, p)
        /\ Cardinality(RefsIn(nt, p)) =
             IF p = t THEN Cardinality(RefsIn(pt, p)) + 1 ELSE Cardinality(RefsIn(pt, p))
    <3>1. pt \in [Places -> Pages \cup {Nil}] /\ t \in Pages \cup {Nil} /\ pt[d] # t /\ p # Nil
      BY <1>2, PmapAssumption, Zenon DEF Exact
    <3> QED BY <3>1, <1>3, OnePointer
  <2> QED BY <2>1, <1>1 DEF Exact, Popped
<1>5. Exact(nt, [ref EXCEPT ![t] = 1], Popped(t, fr), H)
  <2>1. [ref EXCEPT ![t] = 1] \in [Pages -> Nat] /\ Popped(t, fr) \in [Pages -> Nat]
    BY <1>1 DEF Exact, Popped
  <2> QED BY <2>1, <1>3, <1>4, Zenon DEF Exact
<1> QED BY <1>2, <1>5, Zenon DEF nt

\* page_insert()'s replacement of what r maps by p, which is held or in use.
LEMMA ExactReplace ==
  ASSUME NoWrap, NEW pt, NEW ref, NEW fr, NEW H, Exact(pt, ref, fr, H),
         NEW p \in Pages, H \subseteq {p}, p \in H \/ RefsIn(pt, p) # {},
         NEW r \in Places, Replace(r, p, pt, ref, fr)
  PROVE  Exact(ptr', pp_ref', free', {})
<1>1. ptr' = [pt EXCEPT ![r] = p] /\ ptr' \in [Places -> Pages \cup {Nil}]
  BY Zenon DEF Replace, Exact
<1>2. fr[p] = 0
  BY Zenon DEF Exact
<1>3. p # Nil
  BY PmapAssumption, Zenon
<1>4. CASE pt[r] = p
  <2>1. ptr' = pt /\ pp_ref' = ref /\ free' = fr
    BY <1>1, <1>4, Zenon DEF Replace, Counted, Exact
  <2>2. RefsIn(pt, p) # {}
    BY <1>4, Zenon DEF RefsIn
  <2> QED BY <2>1, <2>2, Zenon DEF Exact
<1>5. CASE pt[r] # p
  <2> DEFINE old == pt[r]
             n(q) == Cardinality(RefsIn(pt, q))
  <2>1. ASSUME NEW q \in Pages
        PROVE  /\ RefsIn(ptr', q) = IF q = p THEN RefsIn(pt, q) \cup {r}
                                    ELSE IF q = old THEN RefsIn(pt, q) \ {r}
                                    ELSE RefsIn(pt, q)
               /\ Cardinality(RefsIn(ptr', q)) =
                    IF q = p THEN n(q) + 1 ELSE IF q = old THEN n(q) - 1 ELSE n(q)
    <3>1. pt \in [Places -> Pages \cup {Nil}] /\ p \in Pages \cup {Nil}
      BY Zenon DEF Exact
    <3>2. ptr' = Put(pt, r, p)
      BY <1>1, Zenon DEF Put
    <3> QED BY <3>1, <3>2, <1>5, OnePointer
  <2>2. ASSUME NEW q \in Pages
        PROVE  /\ Cardinality(RefsIn(ptr', q)) \in 0 .. REFMOD - 1
               /\ n(q) \in 0 .. REFMOD - 1 /\ ref[q] = n(q)
               /\ Cardinality(RefsIn(ptr', q)) = 0 <=> RefsIn(ptr', q) = {}
    BY CountsFit, RefsFinite, Zenon DEF Exact
  <2> HIDE DEF n
  <2>3. Inc(ref[p]) = Cardinality(RefsIn(ptr', p))
    BY <2>1, <2>2, PmapAssumption DEF Inc
  <2>4. CASE old = Nil
    <3>1. pp_ref' = [ref EXCEPT ![p] = Inc(@)] /\ free' = fr
      BY <1>5, <2>4, Zenon DEF Replace, Counted
    <3>2. \A q \in Pages : pp_ref'[q] = Cardinality(RefsIn(ptr', q))
      BY <3>1, <2>1, <2>2, <2>3, <2>4, PmapAssumption, Zenon DEF Exact
    <3>3. \A q \in Pages : free'[q] = IF RefsIn(ptr', q) = {} /\ q \notin {} THEN 1 ELSE 0
      BY <3>1, <1>2, <2>1, <2>4, PmapAssumption DEF Exact
    <3>4. pp_ref' \in [Pages -> Nat] /\ free' \in [Pages -> Nat]
      BY <3>1, <2>2, <2>3 DEF Exact
    <3> QED BY <1>1, <3>2, <3>3, <3>4, Zenon DEF Exact
  <2>5. CASE old # Nil
    <3>1. old \in Pages /\ old # p
      BY <1>5, <2>5, Zenon DEF Exact
    <3>2. /\ pp_ref' = [[ref EXCEPT ![p] = Inc(@)] EXCEPT ![old] = Dec(@)]
          /\ free' = Decreffed(old, pp_ref', fr)
      BY <1>5, <2>5, <3>1, Zenon DEF Replace, Counted
    <3>3. Dec(ref[old]) = Cardinality(RefsIn(ptr', old))
      BY <3>1, <2>1, <2>2, PmapAssumption DEF Dec
    <3>4. pp_ref' \in [Pages -> Nat] /\ \A q \in Pages : pp_ref'[q] = Cardinality(RefsIn(ptr', q))
      <4>1. \A q \in Pages : pp_ref'[q] = IF q = p THEN Inc(ref[p]) ELSE
                               IF q = old THEN Dec(ref[old]) ELSE ref[q]
        BY <3>1, <3>2, Zenon DEF Exact
      <4>2. \A q \in Pages : pp_ref'[q] = Cardinality(RefsIn(ptr', q))
        BY <4>1, <3>1, <3>3, <2>1, <2>2, <2>3, Zenon
      <4>3. Inc(ref[p]) \in Nat /\ Dec(ref[old]) \in Nat
        BY <2>2, <2>3, <3>1, <3>3
      <4>4. pp_ref' \in [Pages -> Nat]
        BY <4>3, <3>1, <3>2, Zenon DEF Exact
      <4> QED BY <4>2, <4>4, Zenon
    <3>5. RefsIn(pt, old) # {} /\ fr[old] = 0
      <4>1. r \in RefsIn(pt, old)
        BY Zenon DEF RefsIn
      <4> QED BY <4>1, <3>1, Zenon DEF Exact
    <3>6. \A q \in Pages : free'[q] = IF RefsIn(ptr', q) = {} THEN 1 ELSE 0
      <4>1. pp_ref'[old] = 0 <=> RefsIn(ptr', old) = {}
        BY <3>1, <3>4, <2>2, Zenon
      <4>2. free'[old] = IF RefsIn(ptr', old) = {} THEN 1 ELSE 0
        BY <4>1, <3>1, <3>2, <3>5 DEF Decreffed, Pushed, Exact
      <4>3. \A q \in Pages \ {old} : free'[q] = fr[q]
        BY <3>1, <3>2, Zenon DEF Decreffed, Pushed, Exact
      <4>4. ASSUME NEW q \in Pages \ {old}
            PROVE  fr[q] = IF RefsIn(ptr', q) = {} THEN 1 ELSE 0
        <5>1. CASE q = p
          <6>1. r \in RefsIn(ptr', p)
            BY <2>1, Zenon
          <6> QED BY <5>1, <6>1, <1>2, Zenon
        <5>2. CASE q # p
          <6>1. RefsIn(ptr', q) = RefsIn(pt, q) /\ q \notin H
            BY <5>2, <2>1, Zenon
          <6> QED BY <6>1, Zenon DEF Exact
        <5> QED BY <5>1, <5>2, Zenon
      <4> QED BY <4>2, <4>3, <4>4, Zenon
    <3>7. free' \in [Pages -> Nat]
      BY <3>1, <3>2 DEF Decreffed, Pushed, Exact
    <3> QED BY <1>1, <3>4, <3>6, <3>7, Zenon DEF Exact
  <2> QED BY <2>4, <2>5, Zenon
<1> QED BY <1>4, <1>5, Zenon

\* page_remove() of what r maps.
LEMMA ExactUnmap ==
  ASSUME NoWrap, Exact(ptr, pp_ref, free, {}), NEW r \in PagePlaces, PageRemove(r)
  PROVE  Exact(ptr', pp_ref', free', {})
<1> DEFINE old == ptr[r]
           n(q) == Cardinality(RefsIn(ptr, q))
<1>1. r \in Places /\ old \in Pages /\ old # Nil
  BY Zenon DEF Places, Exact, PageRemove
<1>2. /\ ptr' = [ptr EXCEPT ![r] = Nil] /\ ptr' \in [Places -> Pages \cup {Nil}]
      /\ pp_ref' = [pp_ref EXCEPT ![old] = Dec(@)]
      /\ free' = Decreffed(old, pp_ref', free)
  BY Zenon DEF PageRemove, Exact
<1>3. ASSUME NEW q \in Pages
      PROVE  /\ RefsIn(ptr', q) = IF q = old THEN RefsIn(ptr, q) \ {r} ELSE RefsIn(ptr, q)
             /\ Cardinality(RefsIn(ptr', q)) = IF q = old THEN n(q) - 1 ELSE n(q)
  <2>1. ptr \in [Places -> Pages \cup {Nil}] /\ Nil \in Pages \cup {Nil} /\ q # Nil
    BY PmapAssumption, Zenon DEF Exact
  <2>2. ptr' = Put(ptr, r, Nil)
    BY <1>2, Zenon DEF Put
  <2> QED BY <2>1, <2>2, <1>1, OnePointer
<1>4. ASSUME NEW q \in Pages
      PROVE  /\ Cardinality(RefsIn(ptr', q)) \in 0 .. REFMOD - 1
             /\ n(q) \in 0 .. REFMOD - 1 /\ pp_ref[q] = n(q)
             /\ Cardinality(RefsIn(ptr', q)) = 0 <=> RefsIn(ptr', q) = {}
  BY CountsFit, RefsFinite, Zenon DEF Exact
<1> HIDE DEF n
<1>5. Dec(pp_ref[old]) = Cardinality(RefsIn(ptr', old))
  BY <1>1, <1>3, <1>4, PmapAssumption DEF Dec
<1>6. \A q \in Pages : pp_ref'[q] = Cardinality(RefsIn(ptr', q))
  BY <1>1, <1>2, <1>3, <1>4, <1>5, Zenon DEF Exact
<1>7. RefsIn(ptr, old) # {} /\ free[old] = 0
  <2>1. r \in RefsIn(ptr, old)
    BY <1>1, Zenon DEF RefsIn
  <2> QED BY <2>1, <1>1, Zenon DEF Exact
<1>8. \A q \in Pages : free'[q] = IF RefsIn(ptr', q) = {} THEN 1 ELSE 0
  <2>1. pp_ref'[old] = 0 <=> RefsIn(ptr', old) = {}
    BY <1>1, <1>4, <1>6, Zenon
  <2>2. free'[old] = IF RefsIn(ptr', old) = {} THEN 1 ELSE 0
    <3>1. CASE pp_ref'[old] = 0
      <4>1. free' = [free EXCEPT ![old] = @ + 1]
        BY <3>1, <1>2, Zenon DEF Decreffed, Pushed
      <4> HIDE DEF old
      <4>2. free'[old] = free[old] + 1
        BY <4>1, <1>1, Zenon DEF Exact
      <4> QED BY <3>1, <4>2, <2>1, <1>7
    <3>2. CASE pp_ref'[old] # 0
      BY <3>2, <2>1, <1>1, <1>2, <1>7, Zenon DEF Decreffed, Exact
    <3> QED BY <3>1, <3>2, Zenon
  <2>3. \A q \in Pages \ {old} : free'[q] = free[q]
    BY <1>1, <1>2, Zenon DEF Decreffed, Pushed, Exact
  <2>4. \A q \in Pages \ {old} : free[q] = IF RefsIn(ptr', q) = {} THEN 1 ELSE 0
    BY <1>3, Zenon DEF Exact
  <2> QED BY <2>2, <2>3, <2>4, Zenon
<1>9. pp_ref' \in [Pages -> Nat] /\ free' \in [Pages -> Nat]
  <2>1. Dec(pp_ref[old]) \in Nat
    BY <1>1, <1>4, <1>5
  <2> QED BY <2>1, <1>1, <1>2 DEF Decreffed, Pushed, Exact
<1> QED BY <1>2, <1>6, <1>8, <1>9, Zenon DEF Exact

\* page_insert() as a whole.
LEMMA ExactInsert ==
  ASSUME NoWrap, NEW ref, NEW fr, NEW H, Exact(ptr, ref, fr, H),
         NEW p \in Pages, H \subseteq {p}, p \in H \/ RefsIn(ptr, p) # {},
         NEW e \in Envs, NEW x \in Pdxs, NEW y \in Ptxs, NEW pm,
         PageInsert(e, x, y, p, pm, ref, fr)
  PROVE  Exact(ptr', pp_ref', free', {})
<1> DEFINE d == <<e, x>>
           r == <<e, x, y>>
<1>1. d \in Places /\ r \in Places
  BY Zenon DEF Places, TablePlaces, PagePlaces
<1>2. CASE ptr[d] # Nil
  BY <1>1, <1>2, ExactReplace, Zenon DEF PageInsert
<1>3. CASE ptr[d] = Nil
  <2>1. PICK t \in Pages :
          /\ Allocatable(t, fr)
          /\ Replace(r, p, [ptr EXCEPT ![d] = t], [ref EXCEPT ![t] = Inc(0)], Popped(t, fr))
    BY <1>3, Zenon DEF PageInsert
  <2> DEFINE nt == [ptr EXCEPT ![d] = t]
             nr == [ref EXCEPT ![t] = Inc(0)]
             nf == Popped(t, fr)
  <2>2. Exact(nt, nr, nf, H)
    BY <1>1, <1>3, <2>1, ExactLink, Zenon
  <2>3. p \in H \/ RefsIn(nt, p) # {}
    <3>1. ASSUME NEW q \in RefsIn(ptr, p) PROVE q \in RefsIn(nt, p)
      BY <1>3, PmapAssumption DEF RefsIn, Exact
    <3> QED BY <3>1, Zenon
  <2> HIDE DEF nt, nr, nf
  <2>4. Replace(r, p, nt, nr, nf)
    BY <2>1, Zenon DEF nt, nr, nf
  <2> QED BY <1>1, <2>2, <2>3, <2>4, ExactReplace, Zenon
<1> QED BY <1>2, <1>3, Zenon

\* A count that fits is not changed by the width of pp_ref.
LEMMA SmallModulus ==
  ASSUME NEW m \in Nat \ {0}, NEW n \in 0 .. m - 1
  PROVE  n % m = n
OBVIOUS

\* env_free(): all the places of e at once.
LEMMA ExactFree ==
  ASSUME NoWrap, Exact(ptr, pp_ref, free, {}), NEW e \in Envs, EnvFreeVm(e)
  PROVE  Exact(ptr', pp_ref', free', {})
<1>1. ptr' = [r \in Places |-> IF r \in PlacesOf(e) THEN Nil ELSE ptr[r]]
  BY Zenon DEF EnvFreeVm
<1>2. ptr' \in [Places -> Pages \cup {Nil}]
  BY <1>1, Zenon DEF Exact
<1>3. ASSUME NEW p \in Pages
      PROVE  /\ RefsIn(ptr', p) = RefsIn(ptr, p) \ PlacesOf(e)
             /\ Uses(e, p) = Cardinality(RefsIn(ptr, p) \cap PlacesOf(e))
  <2>1. RefsIn(ptr', p) = RefsIn(ptr, p) \ PlacesOf(e)
    BY <1>1, PmapAssumption, Zenon DEF RefsIn
  <2>2. {r \in PlacesOf(e) : ptr[r] = p} = RefsIn(ptr, p) \cap PlacesOf(e)
    BY Zenon DEF RefsIn, PlacesOf
  <2> QED BY <2>1, <2>2, Zenon DEF Uses
<1>4. ASSUME NEW p \in Pages
      PROVE  /\ Cardinality(RefsIn(ptr', p)) = pp_ref[p] - Uses(e, p)
             /\ Uses(e, p) \in Nat
             /\ pp_ref[p] \in 0 .. REFMOD - 1
             /\ Cardinality(RefsIn(ptr', p)) \in 0 .. REFMOD - 1
             /\ Cardinality(RefsIn(ptr', p)) = 0 <=> RefsIn(ptr', p) = {}
             /\ pp_ref[p] = 0 <=> RefsIn(ptr, p) = {}
  <2>1. IsFiniteSet(RefsIn(ptr, p))
    BY RefsFinite, Zenon
  <2>2. Cardinality(RefsIn(ptr', p)) = Cardinality(RefsIn(ptr, p)) - Uses(e, p)
    <3>1. Cardinality(RefsIn(ptr, p) \ PlacesOf(e)) =
            Cardinality(RefsIn(ptr, p)) - Cardinality(RefsIn(ptr, p) \cap PlacesOf(e))
      BY <2>1, FS_Difference, Zenon
    <3> QED BY <3>1, <1>3, Zenon
  <2>3. Uses(e, p) \in Nat
    BY <2>1, <1>3, FS_Intersection, FS_CardinalityType, Zenon
  <2> QED BY <2>2, <2>3, CountsFit, RefsFinite DEF Exact
<1>5. ASSUME NEW p \in Pages
      PROVE  pp_ref'[p] = Cardinality(RefsIn(ptr', p))
  <2>1. pp_ref'[p] = (pp_ref[p] - Uses(e, p)) % REFMOD
    BY Zenon DEF EnvFreeVm
  <2> QED BY <2>1, <1>4, SmallModulus, PmapAssumption, Zenon
<1>6. ASSUME NEW p \in Pages
      PROVE  free'[p] = IF RefsIn(ptr', p) = {} THEN 1 ELSE 0
  <2>1. free'[p] = IF pp_ref[p] \in 1 .. Uses(e, p) THEN free[p] + 1 ELSE free[p]
    BY Zenon DEF EnvFreeVm
  <2>2. free[p] = IF RefsIn(ptr, p) = {} THEN 1 ELSE 0
    BY Zenon DEF Exact
  <2>3. RefsIn(ptr, p) = {} => RefsIn(ptr', p) = {}
    BY <1>3, Zenon
  <2>4. pp_ref[p] \in 1 .. Uses(e, p) <=> RefsIn(ptr', p) = {} /\ RefsIn(ptr, p) # {}
    BY <1>4
  <2> QED BY <2>1, <2>2, <2>3, <2>4
<1>7. pp_ref' \in [Pages -> Nat] /\ free' \in [Pages -> Nat]
  <2>1. \A p \in Pages : (pp_ref[p] - Uses(e, p)) % REFMOD \in Nat
    <3> SUFFICES ASSUME NEW p \in Pages
                 PROVE  (pp_ref[p] - Uses(e, p)) % REFMOD \in Nat
      BY Zenon
    <3>1. pp_ref[p] - Uses(e, p) \in 0 .. REFMOD - 1
      BY <1>4, Zenon
    <3>2. (pp_ref[p] - Uses(e, p)) % REFMOD = pp_ref[p] - Uses(e, p)
      BY <3>1, SmallModulus, PmapAssumption, Zenon
    <3> QED BY <3>1, <3>2
  <2>2. \A p \in Pages : free[p] \in Nat
    BY Zenon DEF Exact
  <2> QED BY <2>1, <2>2 DEF EnvFreeVm
<1> QED BY <1>2, <1>5, <1>6, <1>7, Zenon DEF Exact

-----------------------------------------------------------------------------
(* The shape of the page tables.                                            *)

Shape == TablesPrivate /\ TreeShape /\ PdePermissive

PmapInv == TypeOKPmap /\ RefCountExact /\ FreeIffUnused /\ Shape

\* Exact is the part of the invariant about counts and the free list.
LEMMA ExactIffInv ==
  ASSUME TypeOKPmap
  PROVE  Exact(ptr, pp_ref, free, {}) <=> RefCountExact /\ FreeIffUnused
<1>1. \A p : RefsTo(p) = RefsIn(ptr, p)
  BY Zenon DEF RefsTo, RefsIn
<1>2. pp_ref \in [Pages -> Nat]
  BY PmapAssumption DEF TypeOKPmap
<1> QED BY <1>1, <1>2, Zenon DEF TypeOKPmap, Exact, RefCountExact, FreeIffUnused

\* Exact after a step gives back the part of the invariant it stands for.
LEMMA ExactNext ==
  ASSUME NoWrap, Exact(ptr', pp_ref', free', {}),
         perm' \in [Entries -> SUBSET {"U", "W"}]
  PROVE  TypeOKPmap' /\ RefCountExact' /\ FreeIffUnused'
<1>1. \A p : RefsTo(p)' = RefsIn(ptr', p)
  BY Zenon DEF RefsTo, RefsIn
<1>2. \A p \in Pages : pp_ref'[p] \in 0 .. REFMOD - 1
  BY CountsFit, Zenon DEF Exact
<1>3. TypeOKPmap'
  BY <1>2, Zenon DEF TypeOKPmap, Exact
<1> QED BY <1>1, <1>3, Zenon DEF Exact, RefCountExact, FreeIffUnused

\* Directories, page table slots and entries are places.
LEMMA PlaceFacts ==
  ASSUME NEW e \in Envs, NEW x \in Pdxs, NEW y \in Ptxs
  PROVE  /\ <<e>> \in DirPlaces /\ <<e, x>> \in TablePlaces /\ <<e, x, y>> \in PagePlaces
         /\ <<e, x>> \in Entries /\ <<e, x, y>> \in Entries
         /\ <<e>> \in Places /\ <<e, x>> \in Places /\ <<e, x, y>> \in Places
         /\ <<e>> # <<e, x>> /\ <<e>> # <<e, x, y>> /\ <<e, x>> # <<e, x, y>>
<1>1. <<e>> \in DirPlaces /\ <<e, x>> \in TablePlaces /\ <<e, x, y>> \in PagePlaces
  BY Zenon DEF DirPlaces, TablePlaces, PagePlaces
<1> QED BY <1>1, PlaceKinds, Zenon DEF Entries, Places

\* page_insert() keeps the shape, if p is not a page directory or page table.
LEMMA ShapeInsert ==
  ASSUME FlagsOnly, TypeOKPmap, Shape, NEW ref, NEW fr, NEW H, Exact(ptr, ref, fr, H),
         NEW p \in Pages, fr[p] = 0,
         \A q \in DirPlaces \cup TablePlaces : ptr[q] # p,
         NEW e \in Envs, NEW x \in Pdxs, NEW y \in Ptxs, NEW pm \in Perms,
         ptr[<<e>>] # Nil, PageInsert(e, x, y, p, pm, ref, fr)
  PROVE  Shape' /\ perm' \in [Entries -> SUBSET {"U", "W"}]
<1> DEFINE d == <<e, x>>
           r == <<e, x, y>>
<1>1. /\ d \in TablePlaces /\ r \in PagePlaces /\ d \in Places /\ r \in Places
      /\ d \in Entries /\ r \in Entries /\ d # r
      /\ d[1] = e /\ r[1] = e /\ r[2] = x
  BY PlaceFacts, Zenon
<1>2. p # Nil
  BY PmapAssumption, Zenon
<1>3. PICK t \in Pages \cup {Nil} :
        /\ t # Nil
        /\ ptr[d] # Nil => t = ptr[d]
        /\ ptr[d] = Nil => t # p /\ \A q \in Places : ptr[q] # t
        /\ ptr' = [[ptr EXCEPT ![d] = t] EXCEPT ![r] = p]
  <2>1. CASE ptr[d] # Nil
    <3>1. ptr' = [ptr EXCEPT ![r] = p]
      BY <2>1, Zenon DEF PageInsert, Replace
    <3>2. [ptr EXCEPT ![d] = ptr[d]] = ptr /\ ptr[d] \in Pages \cup {Nil}
      BY <1>1, Zenon DEF TypeOKPmap
    <3> QED BY <2>1, <3>1, <3>2, Zenon
  <2>2. CASE ptr[d] = Nil
    <3>1. PICK t \in Pages :
            /\ Allocatable(t, fr)
            /\ ptr' = [[ptr EXCEPT ![d] = t] EXCEPT ![r] = p]
      BY <2>2, Zenon DEF PageInsert, Replace
    <3>2. t # p
      BY <3>1 DEF Allocatable
    <3>3. RefsIn(ptr, t) = {}
      BY <3>1 DEF Allocatable, Exact
    <3>4. \A q \in Places : ptr[q] # t
      BY <3>3, Zenon DEF RefsIn
    <3> QED BY <2>2, <3>1, <3>2, <3>4, PmapAssumption, Zenon
  <2> QED BY <2>1, <2>2, Zenon
<1>4. /\ ptr'[d] = t /\ ptr'[r] = p
      /\ \A q \in Places \ {d, r} : ptr'[q] = ptr[q]
  BY <1>1, <1>3, Zenon DEF TypeOKPmap
<1>5. /\ perm' \in [Entries -> SUBSET {"U", "W"}]
      /\ perm'[r] = pm /\ pm \subseteq perm'[d]
      /\ perm'[d] = (IF ptr[d] = Nil THEN {"W"} ELSE perm[d]) \cup pm
      /\ \A q \in Entries \ {d, r} : perm'[q] = perm[q]
  <2>1. pm \in SUBSET {"U", "W"}
    BY FlagsAre, Zenon
  <2>2. perm' = [perm EXCEPT ![d] = (IF ptr[d] = Nil THEN {"W"} ELSE perm[d]) \cup pm,
                             ![r] = pm]
    BY <1>1, Zenon DEF PageInsert, Permit, TypeOKPmap
  <2>3. perm[d] \in SUBSET {"U", "W"}
    BY <1>1, Zenon DEF TypeOKPmap
  <2>4. (IF ptr[d] = Nil THEN {"W"} ELSE perm[d]) \cup pm \in SUBSET {"U", "W"}
    BY <2>1, <2>3, Zenon
  <2> QED BY <1>1, <2>1, <2>2, <2>4, Zenon DEF TypeOKPmap
<1>6. TablesPrivate'
  <2> SUFFICES ASSUME NEW a \in DirPlaces \cup TablePlaces, NEW q \in Places,
                      ptr'[a] # Nil, ptr'[q] = ptr'[a]
               PROVE  q = a
    BY Zenon DEF TablesPrivate
  <2>0. t # p
    BY <1>1, <1>3, Zenon
  <2>1. a \in Places /\ a # r
    BY <1>1, PlaceKinds, Zenon DEF Places
  <2>2. CASE a = d
    <3>1. q # r
      BY <2>2, <2>0, <1>4, Zenon
    <3>2. ASSUME q # d PROVE FALSE
      <4>1. ptr[q] = t
        BY <2>2, <3>1, <3>2, <1>4, Zenon
      <4>2. t = ptr[d]
        BY <4>1, <1>3, Zenon
      <4> QED BY <3>2, <4>1, <4>2, <1>1, <1>3, Zenon DEF Shape, TablesPrivate
    <3> QED BY <2>2, <3>2, Zenon
  <2>3. CASE a # d
    <3>1. ptr'[a] = ptr[a] /\ ptr[a] # p
      BY <2>1, <2>3, <1>4, Zenon
    <3>2. q # r
      BY <3>1, <1>4, Zenon
    <3>3. ASSUME q = d PROVE FALSE
      <4>1. ptr[a] = t
        BY <3>1, <3>3, <1>4, Zenon
      <4>2. t = ptr[d]
        BY <4>1, <2>1, <1>3, Zenon
      <4> QED BY <4>1, <4>2, <2>3, <1>1, <1>3, Zenon DEF Shape, TablesPrivate
    <3> QED BY <3>1, <3>2, <3>3, <1>4, Zenon DEF Shape, TablesPrivate
  <2> QED BY <2>2, <2>3, Zenon
<1>7. \A q \in Places : ptr[q] # Nil => ptr'[q] # Nil
  BY <1>2, <1>3, <1>4, Zenon
<1>8. TreeShape'
  <2>1. ASSUME NEW q \in TablePlaces, ptr'[q] # Nil
        PROVE  ptr'[<<q[1]>>] # Nil
    <3>1. q[1] \in Envs /\ q \in Places /\ q # r /\ <<q[1]>> \in Places
      BY <1>1, PlaceKinds, Zenon DEF TablePlaces, Places, DirPlaces
    <3>2. CASE q = d
      BY <3>1, <3>2, <1>1, <1>7, Zenon
    <3>3. CASE q # d
      BY <2>1, <3>1, <3>3, <1>4, <1>7 DEF Shape, TreeShape
    <3> QED BY <3>2, <3>3, Zenon
  <2>2. ASSUME NEW q \in PagePlaces, ptr'[q] # Nil
        PROVE  ptr'[<<q[1], q[2]>>] # Nil
    <3>1. q \in Places /\ q # d /\ <<q[1], q[2]>> \in Places
      BY <1>1, PlaceKinds, Zenon DEF PagePlaces, Places, TablePlaces
    <3>2. CASE q = r
      BY <3>1, <3>2, <1>1, <1>3, <1>4, Zenon
    <3>3. CASE q # r
      BY <2>2, <3>1, <3>3, <1>4, <1>7, Zenon DEF Shape, TreeShape
    <3> QED BY <3>2, <3>3, Zenon
  <2> QED BY <2>1, <2>2, Zenon DEF TreeShape
<1>9. PdePermissive'
  <2> SUFFICES ASSUME NEW q \in PagePlaces, ptr'[q] # Nil
               PROVE  perm'[q] \subseteq perm'[<<q[1], q[2]>>]
    BY Zenon DEF PdePermissive
  <2>1. /\ q \in Places /\ q \in Entries /\ q # d
        /\ <<q[1], q[2]>> \in TablePlaces /\ <<q[1], q[2]>> \in Entries
        /\ <<q[1], q[2]>> # r /\ <<q[1], q[2]>> \in Places
    BY <1>1, PlaceKinds, Zenon DEF PagePlaces, Places, TablePlaces, Entries
  <2>2. CASE q = r
    BY <2>2, <1>1, <1>5, Zenon
  <2>3. CASE q # r
    <3>1. ptr[q] # Nil /\ perm'[q] = perm[q]
      BY <2>1, <2>3, <1>4, <1>5, Zenon
    <3>2. perm[q] \subseteq perm[<<q[1], q[2]>>] /\ ptr[<<q[1], q[2]>>] # Nil
      BY <3>1, Zenon DEF Shape, PdePermissive, TreeShape
    <3>3. CASE <<q[1], q[2]>> = d
      BY <3>1, <3>2, <3>3, <1>5, Zenon
    <3>4. CASE <<q[1], q[2]>> # d
      BY <3>1, <3>2, <3>4, <2>1, <1>5, Zenon
    <3> QED BY <3>3, <3>4, Zenon
  <2> QED BY <2>2, <2>3, Zenon
<1> QED BY <1>5, <1>6, <1>8, <1>9, Zenon DEF Shape

-----------------------------------------------------------------------------
(* The actions.                                                             *)

\* The invariant holds after mem_init(), with every page of the pool free.
THEOREM InitPmapInv == InitPmap => PmapInv
<1> SUFFICES ASSUME InitPmap PROVE PmapInv
  BY Zenon
<1>1. TypeOKPmap
  BY PmapAssumption DEF InitPmap, TypeOKPmap
<1>2. \A p \in Pages : RefsTo(p) = {}
  BY PmapAssumption, Zenon DEF InitPmap, RefsTo
<1>3. RefCountExact /\ FreeIffUnused
  BY <1>2, FS_EmptySet, Zenon DEF InitPmap, RefCountExact, FreeIffUnused
<1>4. \A r \in Places : ptr[r] = Nil
  BY Zenon DEF InitPmap
<1>5. Shape
  <2>1. DirPlaces \subseteq Places /\ TablePlaces \subseteq Places /\ PagePlaces \subseteq Places
    BY Zenon DEF Places
  <2> QED BY <1>4, <2>1, Zenon DEF Shape, TablesPrivate, TreeShape, PdePermissive
<1> QED BY <1>1, <1>3, <1>5, Zenon DEF PmapInv

\* env_setup_vm()
LEMMA EnvSetupVmInvariant ==
  ASSUME NoWrap, PmapInv, NEW e \in Envs, EnvSetupVm(e)
  PROVE  PmapInv'
<1> DEFINE d == <<e>>
<1>1. PICK p \in Pages :
        /\ Allocatable(p, free)
        /\ ptr' = [ptr EXCEPT ![d] = p]
        /\ pp_ref' = [pp_ref EXCEPT ![p] = Inc(0)]
        /\ free' = Popped(p, free)
  BY Zenon DEF EnvSetupVm
<1>2. ptr[d] = Nil /\ perm' = perm
  BY Zenon DEF EnvSetupVm
<1>3. d \in DirPlaces /\ d \in Places
  BY Zenon DEF DirPlaces, Places
<1>4. Exact(ptr, pp_ref, free, {})
  BY ExactIffInv, Zenon DEF PmapInv
<1>5. Exact(ptr', pp_ref', free', {})
  BY <1>1, <1>2, <1>3, <1>4, ExactLink, Zenon
<1>6. TypeOKPmap' /\ RefCountExact' /\ FreeIffUnused'
  BY <1>2, <1>5, ExactNext, Zenon DEF PmapInv, TypeOKPmap
<1>7. \A q \in Places : ptr[q] # p
  <2>1. RefsIn(ptr, p) = {}
    BY <1>1, <1>4 DEF Exact, Allocatable
  <2> QED BY <2>1, Zenon DEF RefsIn
<1>8. ptr'[d] = p /\ \A q \in Places \ {d} : ptr'[q] = ptr[q]
  BY <1>1, <1>3, Zenon DEF PmapInv, TypeOKPmap
<1>9. p # Nil
  BY PmapAssumption, Zenon
<1>10. TablesPrivate'
  <2> SUFFICES ASSUME NEW a \in DirPlaces \cup TablePlaces, NEW q \in Places,
                      ptr'[a] # Nil, ptr'[q] = ptr'[a]
               PROVE  q = a
    BY Zenon DEF TablesPrivate
  <2>1. a \in Places
    BY Zenon DEF Places
  <2> QED BY <2>1, <1>7, <1>8, Zenon DEF PmapInv, Shape, TablesPrivate
<1>11. TreeShape'
  <2>1. ASSUME NEW q \in TablePlaces, ptr'[q] # Nil
        PROVE  ptr'[<<q[1]>>] # Nil
    <3>1. q \in Places /\ q # d /\ <<q[1]>> \in Places
      BY <1>3, PlaceKinds, Zenon DEF TablePlaces, Places, DirPlaces
    <3>2. ptr[<<q[1]>>] # Nil
      BY <2>1, <3>1, <1>8, Zenon DEF PmapInv, Shape, TreeShape
    <3> QED BY <3>1, <3>2, <1>8, <1>9, Zenon
  <2>2. ASSUME NEW q \in PagePlaces, ptr'[q] # Nil
        PROVE  ptr'[<<q[1], q[2]>>] # Nil
    <3>1. q \in Places /\ q # d /\ <<q[1], q[2]>> \in Places
      BY <1>3, PlaceKinds, Zenon DEF PagePlaces, Places, TablePlaces
    <3>2. ptr[<<q[1], q[2]>>] # Nil
      BY <2>2, <3>1, <1>8, Zenon DEF PmapInv, Shape, TreeShape
    <3> QED BY <3>1, <3>2, <1>8, <1>9, Zenon
  <2> QED BY <2>1, <2>2, Zenon DEF TreeShape
<1>12. PdePermissive'
  <2>1. \A q \in PagePlaces : q \in Places /\ q # d
    BY <1>3, PlaceKinds, Zenon DEF Places
  <2> QED BY <2>1, <1>2, <1>8, Zenon DEF PmapInv, Shape, PdePermissive
<1> QED BY <1>6, <1>10, <1>11, <1>12, Zenon DEF PmapInv, Shape

\* sys_page_alloc()
LEMMA SysPageAllocInvariant ==
  ASSUME NoWrap, FlagsOnly, PmapInv, NEW e \in Envs, NEW x \in Pdxs, NEW y \in Ptxs,
         NEW pm \in Perms, SysPageAlloc(e, x, y, pm)
  PROVE  PmapInv'
<1>1. PICK p \in Pages :
        /\ Allocatable(p, free)
        /\ PageInsert(e, x, y, p, pm, [pp_ref EXCEPT ![p] = 0], Popped(p, free))
  BY Zenon DEF SysPageAlloc
<1> DEFINE ref == [pp_ref EXCEPT ![p] = 0]
           fr  == Popped(p, free)
<1>2. Exact(ptr, pp_ref, free, {})
  BY ExactIffInv, Zenon DEF PmapInv
<1>3. Exact(ptr, ref, fr, {p})
  BY <1>1, <1>2, ExactHold, Zenon
<1> HIDE DEF ref, fr
<1>4. PageInsert(e, x, y, p, pm, ref, fr)
  BY <1>1, Zenon DEF ref, fr
<1>5. Exact(ptr', pp_ref', free', {})
  BY <1>3, <1>4, ExactInsert, Zenon
<1>6. RefsIn(ptr, p) = {} /\ fr[p] = 0
  BY <1>1, <1>2, <1>3 DEF Exact, Allocatable
<1>7. \A q \in DirPlaces \cup TablePlaces : ptr[q] # p
  BY <1>6, Zenon DEF RefsIn, Places
<1>8. Shape' /\ perm' \in [Entries -> SUBSET {"U", "W"}]
  BY <1>3, <1>4, <1>6, <1>7, ShapeInsert, Zenon DEF PmapInv, SysPageAlloc
<1> QED BY <1>5, <1>8, ExactNext, Zenon DEF PmapInv

\* sys_page_alloc() that fails gives the page back.
LEMMA SysPageAllocFailsInvariant ==
  ASSUME NoWrap, PmapInv, NEW e \in Envs, NEW x \in Pdxs, SysPageAllocFails(e, x)
  PROVE  PmapInv'
<1>1. PICK p \in Pages :
        /\ Allocatable(p, free)
        /\ pp_ref' = [pp_ref EXCEPT ![p] = 0]
        /\ free' = Pushed(p, Popped(p, free))
  BY Zenon DEF SysPageAllocFails
<1>2. Exact(ptr, pp_ref, free, {})
  BY ExactIffInv, Zenon DEF PmapInv
<1>3. pp_ref[p] = 0 /\ free[p] = 1
  BY <1>1, <1>2, RefsFinite DEF Exact, Allocatable
<1>4. pp_ref' = pp_ref /\ free' = free
  BY <1>1, <1>3 DEF PmapInv, TypeOKPmap, Pushed, Popped
<1>5. ptr' = ptr /\ perm' = perm
  BY Zenon DEF SysPageAllocFails
<1> QED
  BY <1>4, <1>5 DEF PmapInv, TypeOKPmap, RefCountExact, FreeIffUnused, RefsTo, Shape,
     TablesPrivate, TreeShape, PdePermissive

\* sys_page_map()
LEMMA SysPageMapInvariant ==
  ASSUME NoWrap, FlagsOnly, PmapInv, NEW src \in PagePlaces, NEW e \in Envs, NEW x \in Pdxs,
         NEW y \in Ptxs, NEW pm \in Perms, SysPageMap(src, e, x, y, pm)
  PROVE  PmapInv'
<1> DEFINE p == ptr[src]
<1>1. src \in Places /\ p \in Pages
  BY Zenon DEF Places, SysPageMap, PmapInv, TypeOKPmap
<1>2. PageInsert(e, x, y, p, pm, pp_ref, free) /\ ptr[<<e>>] # Nil
  BY Zenon DEF SysPageMap, FlagsOnly
<1>3. Exact(ptr, pp_ref, free, {})
  BY ExactIffInv, Zenon DEF PmapInv
<1>4. RefsIn(ptr, p) # {}
  BY <1>1, Zenon DEF RefsIn
<1>5. free[p] = 0
  BY <1>1, <1>3, <1>4, Zenon DEF Exact
<1>6. ASSUME NEW q \in DirPlaces \cup TablePlaces PROVE ptr[q] # p
  <2>1. q # src
    BY PlaceKinds, Zenon
  <2>2. p # Nil
    BY <1>1, PmapAssumption, Zenon
  <2> QED BY <2>1, <2>2, <1>1, Zenon DEF PmapInv, Shape, TablesPrivate
<1> HIDE DEF p
<1>7. Exact(ptr', pp_ref', free', {})
  BY <1>1, <1>2, <1>3, <1>4, ExactInsert
<1>8. Shape' /\ perm' \in [Entries -> SUBSET {"U", "W"}]
  BY <1>1, <1>2, <1>3, <1>5, <1>6, ShapeInsert, Zenon DEF PmapInv
<1> QED BY <1>7, <1>8, ExactNext, Zenon DEF PmapInv

\* Dropping mappings and whole address spaces keeps the shape.
LEMMA ShapeSmaller ==
  ASSUME TypeOKPmap, Shape,
         \A r \in Places : ptr'[r] = ptr[r] \/ ptr'[r] = Nil,
         \A r \in TablePlaces : ptr'[r] # Nil => ptr'[<<r[1]>>] = ptr[<<r[1]>>],
         \A r \in PagePlaces : ptr'[r] # Nil =>
           /\ ptr'[<<r[1], r[2]>>] = ptr[<<r[1], r[2]>>]
           /\ perm'[r] = perm[r]
           /\ perm'[<<r[1], r[2]>>] = perm[<<r[1], r[2]>>]
  PROVE  Shape'
<1>1. DirPlaces \subseteq Places /\ TablePlaces \subseteq Places /\ PagePlaces \subseteq Places
  BY Zenon DEF Places
<1>2. TablesPrivate'
  BY <1>1 DEF Shape, TablesPrivate
<1>3. TreeShape'
  BY <1>1, Zenon DEF Shape, TreeShape
<1>4. PdePermissive'
  BY <1>1, Zenon DEF Shape, PdePermissive
<1> QED BY <1>2, <1>3, <1>4, Zenon DEF Shape

\* page_remove(), which is all that sys_page_unmap() does
LEMMA PageRemoveInvariant ==
  ASSUME NoWrap, PmapInv, NEW r \in PagePlaces, PageRemove(r)
  PROVE  PmapInv'
<1>1. Exact(ptr', pp_ref', free', {})
  BY ExactIffInv, ExactUnmap, Zenon DEF PmapInv
<1>2. r \in Places /\ r \in Entries
  BY Zenon DEF Places, Entries
<1>3. ptr'[r] = Nil /\ \A q \in Places \ {r} : ptr'[q] = ptr[q]
  BY <1>2, Zenon DEF PageRemove, PmapInv, TypeOKPmap
<1>4. /\ perm' \in [Entries -> SUBSET {"U", "W"}]
      /\ \A q \in Entries \ {r} : perm'[q] = perm[q]
  BY <1>2, Zenon DEF PageRemove, PmapInv, TypeOKPmap
<1>5. \A q \in TablePlaces : <<q[1]>> \in Places \ {r}
  <2>1. \A q \in TablePlaces : <<q[1]>> \in DirPlaces
    BY Zenon DEF TablePlaces, DirPlaces
  <2> QED BY <2>1, PlaceKinds, Zenon DEF Places
<1>6. \A q \in PagePlaces : /\ q \in Places /\ q \in Entries
                            /\ <<q[1], q[2]>> \in Places \ {r}
                            /\ <<q[1], q[2]>> \in Entries \ {r}
  <2>1. \A q \in PagePlaces : <<q[1], q[2]>> \in TablePlaces
    BY Zenon DEF TablePlaces, PagePlaces
  <2> QED BY <2>1, PlaceKinds, Zenon DEF Places, Entries
<1>7. Shape'
  <2>1. \A q \in Places : ptr'[q] = ptr[q] \/ ptr'[q] = Nil
    BY <1>3, Zenon
  <2>2. \A q \in TablePlaces : ptr'[q] # Nil => ptr'[<<q[1]>>] = ptr[<<q[1]>>]
    BY <1>3, <1>5, Zenon
  <2>3. \A q \in PagePlaces : ptr'[q] # Nil =>
           /\ ptr'[<<q[1], q[2]>>] = ptr[<<q[1], q[2]>>]
           /\ perm'[q] = perm[q]
           /\ perm'[<<q[1], q[2]>>] = perm[<<q[1], q[2]>>]
    BY <1>3, <1>4, <1>6, Zenon
  <2> QED BY <2>1, <2>2, <2>3, ShapeSmaller, Zenon DEF PmapInv
<1> QED BY <1>1, <1>4, <1>7, ExactNext, Zenon DEF PmapInv

\* env_free()
LEMMA EnvFreeInvariant ==
  ASSUME NoWrap, PmapInv, NEW e \in Envs, EnvFreeVm(e)
  PROVE  PmapInv'
<1>1. Exact(ptr', pp_ref', free', {})
  BY ExactIffInv, ExactFree, Zenon DEF PmapInv
<1>2. \A q \in Places : ptr'[q] = IF q[1] = e THEN Nil ELSE ptr[q]
  BY Zenon DEF EnvFreeVm, PlacesOf
<1>3. Entries \subseteq Places
  BY Zenon DEF Entries, Places
<1>4. /\ perm' \in [Entries -> SUBSET {"U", "W"}]
      /\ \A q \in Entries : perm'[q] = IF q[1] = e THEN {} ELSE perm[q]
  BY <1>3, Zenon DEF EnvFreeVm, PlacesOf, PmapInv, TypeOKPmap
<1>5. \A q \in TablePlaces : /\ q \in Places /\ <<q[1]>> \in Places
                             /\ <<q[1]>>[1] = q[1]
  BY Zenon DEF TablePlaces, DirPlaces, Places
<1>6. \A q \in PagePlaces : /\ q \in Places /\ q \in Entries
                            /\ <<q[1], q[2]>> \in Places
                            /\ <<q[1], q[2]>> \in Entries
                            /\ <<q[1], q[2]>>[1] = q[1]
  BY Zenon DEF TablePlaces, PagePlaces, Places, Entries
<1>7. Shape'
  <2>1. \A q \in Places : ptr'[q] = ptr[q] \/ ptr'[q] = Nil
    BY <1>2, Zenon
  <2>2. \A q \in TablePlaces : ptr'[q] # Nil => ptr'[<<q[1]>>] = ptr[<<q[1]>>]
    BY <1>2, <1>5, Zenon
  <2>3. \A q \in PagePlaces : ptr'[q] # Nil =>
           /\ ptr'[<<q[1], q[2]>>] = ptr[<<q[1], q[2]>>]
           /\ perm'[q] = perm[q]
           /\ perm'[<<q[1], q[2]>>] = perm[<<q[1], q[2]>>]
    BY <1>2, <1>4, <1>6, Zenon
  <2> QED BY <2>1, <2>2, <2>3, ShapeSmaller, Zenon DEF PmapInv
<1> QED BY <1>1, <1>4, <1>7, ExactNext, Zenon DEF PmapInv

-----------------------------------------------------------------------------
(* Which entries an operation changes, and how write access spreads.        *)

\* page_insert() changes one entry of a table, and the directory entry above it.
LEMMA InsertEffect ==
  ASSUME TypeOKPmap, NEW p \in Pages, NEW e \in Envs, NEW x \in Pdxs, NEW y \in Ptxs,
         NEW pm \in SUBSET {"U", "W"}, NEW ref, NEW fr, PageInsert(e, x, y, p, pm, ref, fr)
  PROVE  /\ ptr'[<<e, x, y>>] = p /\ perm'[<<e, x, y>>] = pm
         /\ \A q \in PagePlaces \ {<<e, x, y>>} : ptr'[q] = ptr[q] /\ perm'[q] = perm[q]
         /\ \A q \in Places \ {<<e, x>>, <<e, x, y>>} : ptr'[q] = ptr[q]
<1> DEFINE d == <<e, x>>
           r == <<e, x, y>>
<1>1. /\ d \in TablePlaces /\ r \in PagePlaces /\ d \in Places /\ r \in Places
      /\ d \in Entries /\ r \in Entries /\ d # r /\ d \notin PagePlaces
      /\ PagePlaces \subseteq Places /\ PagePlaces \subseteq Entries
  BY PlaceFacts, PlaceKinds, Zenon DEF Places, Entries
<1>2. /\ perm' = [perm EXCEPT ![d] = (IF ptr[d] = Nil THEN {"W"} ELSE @) \cup pm, ![r] = pm]
      /\ \/ ptr' = [ptr EXCEPT ![r] = p]
         \/ \E t \in Pages : ptr' = [[ptr EXCEPT ![d] = t] EXCEPT ![r] = p]
  BY Zenon DEF PageInsert, Permit, Replace
<1> HIDE DEF d, r
<1>3. /\ ptr'[r] = p
      /\ \A q \in Places \ {d, r} : ptr'[q] = ptr[q]
  BY <1>1, <1>2, Zenon DEF TypeOKPmap
<1>4. perm'[r] = pm /\ \A q \in Entries \ {d, r} : perm'[q] = perm[q]
  BY <1>1, <1>2, Zenon DEF TypeOKPmap
<1> QED BY <1>1, <1>3, <1>4, Zenon DEF d, r

\* A page becomes writable somewhere only if it was so somewhere, or was free
\* (sys_page_map, sys_page_alloc).
LEMMA WriteSpreads ==
  ASSUME FlagsOnly, PmapInv, NextPmap
  PROVE  WriteStep
<1>0. /\ TypeOKPmap /\ PagePlaces \subseteq Places
      /\ \A e \in Envs, x \in Pdxs, y \in Ptxs : <<e, x, y>> \in PagePlaces
      /\ Perms \subseteq SUBSET {"U", "W"}
  BY FlagsAre, Zenon DEF PmapInv, Places, PagePlaces
<1>1. ASSUME NEW e \in Envs, EnvSetupVm(e) PROVE WriteStep
  <2>1. \A q \in PagePlaces : ptr'[q] = ptr[q] /\ perm' = perm
    <3>1. <<e>> \in DirPlaces
      BY Zenon DEF DirPlaces
    <3> QED BY <1>0, <1>1, <3>1, PlaceKinds, Zenon DEF EnvSetupVm, TypeOKPmap
  <2> QED BY <2>1, Zenon DEF WriteStep
<1>2. ASSUME NEW e \in Envs, EnvFreeVm(e) PROVE WriteStep
  <2>1. \A q \in PagePlaces : \/ ptr'[q] = Nil
                              \/ ptr'[q] = ptr[q] /\ perm'[q] = perm[q]
    BY <1>0, <1>2, Zenon DEF EnvFreeVm, Entries
  <2> QED BY <2>1, Zenon DEF WriteStep
<1>3. ASSUME NEW e \in Envs, NEW x \in Pdxs, SysPageAllocFails(e, x) PROVE WriteStep
  BY <1>3, Zenon DEF SysPageAllocFails, WriteStep
<1>4. ASSUME NEW e \in Envs, NEW x \in Pdxs, NEW y \in Ptxs, NEW pm \in Perms,
             SysPageAlloc(e, x, y, pm)
      PROVE  WriteStep
  <2>1. PICK p \in Pages :
          /\ Allocatable(p, free)
          /\ PageInsert(e, x, y, p, pm, [pp_ref EXCEPT ![p] = 0], Popped(p, free))
    BY <1>4, Zenon DEF SysPageAlloc
  <2>2. RefsTo(p) = {}
    BY <2>1 DEF Allocatable, PmapInv, FreeIffUnused
  <2>3. pm \in SUBSET {"U", "W"}
    BY <1>0, Zenon
  <2>4. /\ ptr'[<<e, x, y>>] = p
        /\ \A q \in PagePlaces \ {<<e, x, y>>} : ptr'[q] = ptr[q] /\ perm'[q] = perm[q]
    BY <1>0, <2>1, <2>3, InsertEffect
  <2> QED BY <2>2, <2>4, Zenon DEF WriteStep
<1>5. ASSUME NEW src \in PagePlaces, NEW e \in Envs, NEW x \in Pdxs, NEW y \in Ptxs,
             NEW pm \in Perms, SysPageMap(src, e, x, y, pm)
      PROVE  WriteStep
  <2> DEFINE p == ptr[src]
  <2>1. /\ p \in Pages /\ pm \in SUBSET {"U", "W"}
        /\ PageInsert(e, x, y, p, pm, pp_ref, free)
    BY <1>0, <1>5, Zenon DEF SysPageMap, TypeOKPmap, FlagsOnly
  <2> HIDE DEF p
  <2>2. /\ ptr'[<<e, x, y>>] = p /\ perm'[<<e, x, y>>] = pm
        /\ \A q \in PagePlaces \ {<<e, x, y>>} : ptr'[q] = ptr[q] /\ perm'[q] = perm[q]
    BY <1>0, <2>1, InsertEffect
  <2>3. "W" \in pm => "W" \in perm[src]
    BY <1>5, Zenon DEF SysPageMap
  <2> QED BY <2>2, <2>3, Zenon DEF WriteStep, p
<1>6. ASSUME NEW e \in Envs, NEW x \in Pdxs, NEW y \in Ptxs, SysPageUnmap(e, x, y)
      PROVE  WriteStep
  <2> DEFINE r == <<e, x, y>>
  <2>1. r \in PagePlaces /\ PageRemove(r)
    BY <1>0, <1>6, Zenon DEF SysPageUnmap
  <2> HIDE DEF r
  <2>2. \A q \in PagePlaces : \/ ptr'[q] = Nil
                              \/ ptr'[q] = ptr[q] /\ perm'[q] = perm[q]
    BY <1>0, <2>1, Zenon DEF PageRemove, TypeOKPmap, Entries
  <2> QED BY <2>2, Zenon DEF WriteStep
<1>7. CASE \E e \in Envs, x \in Pdxs, y \in Ptxs : SysPageUnmap(e, x, y)
  BY <1>6, <1>7, Zenon
<1>8. CASE ~ \E e \in Envs, x \in Pdxs, y \in Ptxs : SysPageUnmap(e, x, y)
  BY <1>1, <1>2, <1>3, <1>4, <1>5, <1>8, Zenon DEF NextPmap
<1> QED BY <1>7, <1>8, Zenon

-----------------------------------------------------------------------------
(* The theorems.                                                            *)

\* Every operation preserves the invariant, if no count can wrap.
THEOREM NextPmapInv == ASSUME NoWrap, FlagsOnly PROVE PmapInv /\ [NextPmap]_memVars => PmapInv'
<1> SUFFICES ASSUME PmapInv, [NextPmap]_memVars PROVE PmapInv'
  BY Zenon
<1>1. ASSUME NEW e \in Envs, NEW x \in Pdxs, NEW y \in Ptxs, SysPageUnmap(e, x, y)
      PROVE  PmapInv'
  <2>1. <<e, x, y>> \in PagePlaces /\ PageRemove(<<e, x, y>>)
    BY <1>1, Zenon DEF PagePlaces, SysPageUnmap
  <2> QED BY <2>1, PageRemoveInvariant, Zenon
<1>3. CASE NextPmap
  <2>1. CASE \E e \in Envs, x \in Pdxs, y \in Ptxs : SysPageUnmap(e, x, y)
    BY <1>1, <2>1, Zenon
  <2>2. CASE ~ \E e \in Envs, x \in Pdxs, y \in Ptxs : SysPageUnmap(e, x, y)
    BY <1>3, <2>2, EnvSetupVmInvariant, EnvFreeInvariant,
       SysPageAllocFailsInvariant, SysPageAllocInvariant, SysPageMapInvariant, Zenon
    DEF NextPmap
  <2> QED BY <2>1, <2>2, Zenon
<1>2. CASE UNCHANGED memVars
  BY <1>2 DEF memVars, PmapInv, TypeOKPmap, RefCountExact, FreeIffUnused, RefsTo, Shape,
     TablesPrivate, TreeShape, PdePermissive
<1> QED BY <1>2, <1>3, Zenon

\* The invariant holds throughout, whatever the order of the page operations.
THEOREM InvariancePmap == ASSUME NoWrap, FlagsOnly PROVE SpecPmap => []PmapInv
<1>1. PmapInv /\ [NextPmap]_memVars => PmapInv'
  BY NextPmapInv, Zenon
<1> QED BY <1>1, InitPmapInv, PTL DEF SpecPmap

\* pp_ref is the number of places that point to the page, for page_insert(),
\* page_remove(), env_setup_vm() and env_free() in any order.
THEOREM CountsAreExact == ASSUME NoWrap, FlagsOnly PROVE SpecPmap => []RefCountExact
<1>1. PmapInv => RefCountExact
  BY Zenon DEF PmapInv
<1> QED BY <1>1, InvariancePmap, PTL

\* No page is lost, freed twice, or handed out while something points to it.
THEOREM FreePagesAreUnused == ASSUME NoWrap, FlagsOnly PROVE SpecPmap => []FreeIffUnused
<1>1. PmapInv => FreeIffUnused
  BY Zenon DEF PmapInv
<1> QED BY <1>1, InvariancePmap, PTL

\* The pages of page directories and page tables are never shared or mapped.
THEOREM TablesArePrivate == ASSUME NoWrap, FlagsOnly PROVE SpecPmap => []TablesPrivate
<1>1. PmapInv => TablesPrivate
  BY Zenon DEF PmapInv, Shape
<1> QED BY <1>1, InvariancePmap, PTL

\* env_free() can find everything an environment has mapped, and the directory
\* never denies what a table entry permits.
THEOREM TreesAreWhole == ASSUME NoWrap, FlagsOnly PROVE SpecPmap => []TreesWhole
<1>1. PmapInv => TreesWhole
  BY Zenon DEF PmapInv, Shape, TreesWhole
<1> QED BY <1>1, InvariancePmap, PTL

\* The tables, counts and free list keep their types.
THEOREM TypeCorrectPmap == ASSUME NoWrap, FlagsOnly PROVE SpecPmap => []TypeOKPmap
<1>1. PmapInv => TypeOKPmap
  BY Zenon DEF PmapInv
<1> QED BY <1>1, InvariancePmap, PTL

\* No sequence of memory system calls gives write access to a page that nobody may
\* write: it comes with a fresh page or from a mapping that has it.
THEOREM WriteAccessSpreadsOnly == ASSUME NoWrap, FlagsOnly PROVE SpecPmap => WriteAccessSpreads
<1>1. PmapInv /\ [NextPmap]_memVars => [WriteStep]_memVars
  BY WriteSpreads, Zenon
<1> QED BY <1>1, InvariancePmap, PTL DEF SpecPmap, WriteAccessSpreads
=============================================================================
