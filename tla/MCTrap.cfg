SPECIFICATION SpecMC
CONSTANTS
  Cpus = {c1, c2}
  Envs = {e1, e2}
  First = {e1}
  Vectors = {32, 33, 14, 0}
  Ints = {3, 14}
  Calls = {"yield", "env_destroy", "ipc_recv", "ipc_try_send", "exofork", "env_set_status", "page_map"}
  USTACKTOP = 6
  UXSTACKBASE = 21
  UXSTACKTOP = 67
  Codes = {1, 2}
  Depths = {0, 1, 5}
  MAXNEST = 3
  Procs = {e1, e2, e3}
  Root = e1
  Frames = {1, 2, 3, 4, 5}
  N = 1
  Values = {0, 1}
  MAXFORKS = 2
SYMMETRY CpuSymmetry
INVARIANTS
  TrapsTransparent
  Isolation
PROPERTIES
  FaultsHandled
  StartsComplete
CHECK_DEADLOCK FALSE
