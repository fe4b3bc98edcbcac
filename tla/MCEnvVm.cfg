SPECIFICATION SpecVm
CONSTANTS
  NCPU = 2
  NUSER = 1
  NENV = 4
  MAXGEN = 2
  Ops = {"exofork", "status", "destroy", "send", "recv", "fault"}
  Envs = {2, 3}
  Pages = {p1, p2, p3, p4, p5}
  Pdxs = {x1}
  Ptxs = {y1}
  Perms <- UserPerms
  REFMOD = 65536
  Nil = Nil
  KernDir = KernDir
  IdleDir = IdleDir
SYMMETRY PageSymmetry
PROPERTIES
  AddressSpacesLive
  ComponentsKept
CHECK_DEADLOCK FALSE
