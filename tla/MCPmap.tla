------------------------------- MODULE MCPmap -------------------------------
(* Instances of Pmap for TLC. *)
EXTENDS Pmap, TLC

CONSTANTS e1, e2, p1, p2, p3, p4, p5, p6, x1, x2, y1, y2, y3, y4

\* Pages, environments, directory and table indices are interchangeable.
PmapSymmetry ==
  Permutations(Pages) \cup Permutations(Envs) \cup
  Permutations(Pdxs) \cup Permutations(Ptxs)

\* read-only and read-write user pages
UserPerms == {{"U"}, {"U", "W"}}
=============================================================================
