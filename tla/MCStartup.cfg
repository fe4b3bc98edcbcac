SPECIFICATION FairSpec
CONSTANTS
  MPENTRY = 2
  IOPHYS = 5
  EXTPHYS = 7
  END = 8
  ENVPAGES = 1
  LOW = 16
  Basemem = {5}
  Extmem = {8, 9, 12}
  W = 9
  PGSIZE = 4
  PTSIZE = 32
  KERNBASE = 384
  IOMEMBASE = 480
  IOMEM_PADDR = 480
  KSTKSIZE = 4
  KSTKGAP = 4
  NCPU = 3
  NSTACKS = 3
  NPages = {5, 6, 13, 21}
  PagesPA = 40
  EnvsPA = 72
  BootstackPA = 20
  KstacksPA = 24
  SizeofPage = 1
  EnvsSize = 18
  UTOP = 18
  USTACKTOP = 15
  Vas = {0, 1, 3, 5, 15}
  Sizes = {0, 1, 3, 5}
  Phnum = 2
  Frames = {3, 4, 9}
  Starts = {4, 5, 7, 8, 9}
  Lengths = {0, 1, 3, 4}
  Offsets = {4, 5, 8, 9}
  NPTENTRIES = 16
  NTABLES = 4
  TESTPAGES = 3
  APs = {1, 2}
  Tables <- FirmwareTables
INVARIANTS
  MemoryReady
  KernelMapped
  ProgramLoaded
  ProcessorsReady
PROPERTIES
  AllRun
CHECK_DEADLOCK FALSE
