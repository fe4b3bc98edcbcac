------------------------------- MODULE Kdebug -------------------------------
(***************************************************************************)
(* stab_binsearch() (kern/kdebug.c), iteration by iteration of its three  *)
(* loops, on every table of N stabs.  Only the stabs of the type that is   *)
(* searched for have increasing addresses; the others lie among them.      *)
(***************************************************************************)
EXTENDS Integers

CONSTANTS
  N,        \* number of stabs
  Values,   \* addresses of stabs
  Targets   \* instruction addresses

\* What the constants must satisfy.
KdebugAssumption == N \in Nat \ {0} /\ Values \subseteq Nat /\ Targets \subseteq Nat

VARIABLES
  stabs,    \* index -> [match: n_type = type, value]
  addr,     \* the address that is looked for, as the loop changes it
  goal,     \* the address as the caller gave it
  first, last,                   \* the region as the caller gave it
  region_left, region_right,
  l, r, m, any_matches,
  search    \* "loop", then "back" if there were matches, then "done"

varsSearch == <<stabs, addr, goal, first, last, region_left, region_right, l, r, m, any_matches, search>>

Index == 0 .. N - 1

\* The tables: the matching stabs' addresses increase.
StabTables ==
  {t \in [Index -> [match : BOOLEAN, value : Values]] :
     /\ \A j \in Index : ~t[j].match => \A v \in Values : t[j].value <= v
     /\ \A j, k \in Index : j < k /\ t[j].match /\ t[k].match => t[j].value < t[k].value}

InitSearch ==
  /\ stabs \in StabTables
  /\ goal \in Targets /\ addr = goal
  /\ first \in Index /\ last \in first .. N - 1
  /\ region_left = first /\ region_right = last
  /\ l = first /\ r = last /\ m = (first + last) \div 2
  /\ any_matches = FALSE
  /\ search = "loop"

-----------------------------------------------------------------------------
true_m == (l + r) \div 2

Looping == search = "loop" /\ l <= r
AtMatch == Looping /\ m >= l /\ stabs[m].match

\* Back from the middle to the nearest matching stab.
Scan ==
  /\ Looping /\ m >= l /\ ~stabs[m].match
  /\ m' = m - 1
  /\ UNCHANGED <<stabs, addr, goal, first, last, region_left, region_right, l, r, any_matches, search>>

\* The turns of the loop, each with the middle of the next one.
NoMatch ==
  /\ Looping /\ m < l
  /\ l' = true_m + 1 /\ UNCHANGED r /\ m' = true_m'
  /\ UNCHANGED <<stabs, addr, goal, first, last, region_left, region_right, any_matches, search>>

Below ==
  /\ AtMatch /\ stabs[m].value < addr
  /\ any_matches' = TRUE
  /\ region_left' = m /\ l' = true_m + 1 /\ UNCHANGED r /\ m' = true_m'
  /\ UNCHANGED <<stabs, addr, goal, first, last, region_right, search>>

\* Mutant: the right end of the region is not moved.
Above_Keeps ==
  /\ AtMatch /\ stabs[m].value > addr
  /\ any_matches' = TRUE
  /\ r' = m - 1 /\ UNCHANGED l /\ m' = true_m'
  /\ UNCHANGED <<stabs, addr, goal, first, last, region_left, region_right, search>>

Above ==
  /\ AtMatch /\ stabs[m].value > addr
  /\ any_matches' = TRUE
  /\ region_right' = m - 1 /\ r' = m - 1 /\ UNCHANGED l /\ m' = true_m'
  /\ UNCHANGED <<stabs, addr, goal, first, last, region_left, search>>

\* Mutant: addr is not moved on, and the same stab is found again.
Exact_Again ==
  /\ AtMatch /\ stabs[m].value = addr
  /\ any_matches' = TRUE
  /\ region_left' = m /\ l' = m /\ UNCHANGED r /\ m' = true_m'
  /\ UNCHANGED <<stabs, addr, goal, first, last, region_right, search>>

\* An exact match; the loop goes on to find the right end.
Exact ==
  /\ AtMatch /\ stabs[m].value = addr
  /\ any_matches' = TRUE
  /\ region_left' = m /\ l' = m /\ UNCHANGED r /\ m' = true_m'
  /\ addr' = addr + 1
  /\ UNCHANGED <<stabs, goal, first, last, region_right, search>>

NotFound ==
  /\ search = "loop" /\ l > r /\ ~any_matches
  /\ region_right' = region_left - 1
  /\ search' = "done"
  /\ UNCHANGED <<stabs, addr, goal, first, last, region_left, l, r, m, any_matches>>

\* From the right end back to the last matching stab, or to the left end.
FoundSome ==
  /\ search = "loop" /\ l > r /\ any_matches
  /\ l' = region_right
  /\ search' = "back"
  /\ UNCHANGED <<stabs, addr, goal, first, last, region_left, region_right, r, m, any_matches>>

BackOver ==
  /\ search = "back" /\ l > region_left /\ ~stabs[l].match
  /\ l' = l - 1
  /\ UNCHANGED <<stabs, addr, goal, first, last, region_left, region_right, r, m, any_matches, search>>

Found ==
  /\ search = "back" /\ ~(l > region_left /\ ~stabs[l].match)
  /\ region_left' = l
  /\ search' = "done"
  /\ UNCHANGED <<stabs, addr, goal, first, last, region_right, l, r, m, any_matches>>

NextSearch ==
  Scan \/ NoMatch \/ Below \/ Above \/ Exact \/ NotFound \/ FoundSome \/ BackOver \/ Found

SpecSearch == InitSearch /\ [][NextSearch]_varsSearch

-----------------------------------------------------------------------------
\* Types; no stab outside the region is looked at.
TypeOKSearch ==
  /\ l \in first - 1 .. last + 1 /\ r \in first - 1 .. last
  /\ Looping => m \in l - 1 .. r
  /\ region_left \in first - 1 .. last /\ region_right \in first - 1 .. last

Matches    == {k \in first .. last : stabs[k].match}
Containing == {k \in Matches : stabs[k].value <= goal}

\* A stab starts at the address, and another one a byte later.
Followed == \E j, k \in Matches : stabs[j].value = goal /\ stabs[k].value = goal + 1

\* "*region_left points to the matching stab that contains 'addr', and
\* *region_right points just before the next stab", if there is such a stab.
Brackets ==
  search = "done" /\ Containing # {} =>
    /\ region_left \in Containing /\ \A k \in Containing : k <= region_left
    /\ region_left <= region_right
    /\ \A k \in Matches : k > region_left => k > region_right
    /\ region_right = last \/ region_right + 1 \in Matches

\* "If *region_left > *region_right, then 'addr' is not contained in any
\* matching stab": and so it is when the region has no matching stab.
NoneIsEmpty == search = "done" /\ Matches = {} => region_left > region_right

\* The two ends that stab_binsearch() returns are right if there is a stab that
\* contains the address, and if there is no stab at all.  An exact match makes the
\* loop look for the next byte, and it must not take a stab there for another.
RegionFound == (Followed \/ Brackets) /\ NoneIsEmpty

\* The same for a region whose matching stabs all lie above the address.
NoneContainsIsEmpty == search = "done" /\ Containing = {} => region_left > region_right
=============================================================================
