SPECIFICATION FairSpecMC
CONSTANTS
  CONSBUFSIZE = 5
  Chars = {1, 2}
  HOLDS = 1
  MAXBACKLOG = 4
  Keys = {"LShift", "RShift", "LCtl", "RCtl", "LAlt", "Fake", "Caps", "Letter", "Del", "Dot"}
  MAXHELD = 3
  MAXQUEUE = 2
  CRT_COLS = 3
  CRT_ROWS = 2
  BUFLEN = 4
  Printable = {"x", "y"}
  MAXTOP = 2
  Envs = {e1, e2}
  BUFSIZE = 4
  Lengths = {0, 2, 3, 7}
  MAXLINES = 2
INVARIANTS
  KeysTracked
  OutputWhole
PROPERTIES
  InputServed
  LineInput
CHECK_DEADLOCK FALSE
