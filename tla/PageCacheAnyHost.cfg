SPECIFICATION Spec
CONSTANTS
  Sectors = {s1, s2}
  Offsets = {o1, o2}
  Bytes = {ff, b1}
  Erased = ff
  TOTAL_FLASH_PAGES = 2
  NoSector = NoSector
  HostWaits = FALSE
SYMMETRY Symmetry
INVARIANTS ReadyPrefix DistinctSectors FlushedAll PageFound PointerFresh
PROPERTY ImplementsStore
