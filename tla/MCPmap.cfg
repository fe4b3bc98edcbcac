SPECIFICATION SpecPmap
CONSTANTS
  Pages = {p1, p2, p3, p4, p5, p6}
  Envs = {e1, e2}
  Pdxs = {x1, x2}
  Ptxs = {y1, y2}
  Perms <- UserPerms
  REFMOD = 65536
  Nil = Nil
  e1 = e1
  e2 = e2
  p1 = p1
  p2 = p2
  p3 = p3
  p4 = p4
  p5 = p5
  p6 = p6
  x1 = x1
  x2 = x2
  y1 = y1
  y2 = y2
  y3 = y3
  y4 = y4
SYMMETRY PmapSymmetry
INVARIANTS
  RefCountExact
  FreeIffUnused
  TreesWhole
PROPERTIES
  WriteAccessSpreads
