SPECIFICATION SpecTlb
CONSTANTS
  Cores = {c1, c2}
  Envs = {e1, e2, e3}
  Vas = {v1}
  Frames = {p1, p2}
  Perms = {ro, rw}
  NoEntry = NoEntry
  RemoteEdits = FALSE
INVARIANT
  UserAgrees
