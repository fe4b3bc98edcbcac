SPECIFICATION FairSpec
CONSTANTS
  Envs = {e1, e2, e3}
  Senders = {e1, e2}
  Receivers = {e2, e3}
  Vals = {7}
  Perms = {"W", "0"}
  NoEnv = NoEnv
  Scarce = TRUE
INVARIANTS
  PermTellsPage
PROPERTIES
  ImplementsRendezvous
  WaitEnds
CHECK_DEADLOCK FALSE
