SPECIFICATION FairSpec
CONSTANTS
  Sectors = {s1, s2}
  Offsets = {o1}
  Bytes = {ff, b1}
  Erased = ff
  TOTAL_FLASH_PAGES = 2
  NoSector = NoSector
  HostWaits = TRUE
INVARIANTS TypeOK MutexOwnerAlive NoLockoutDeadlock
PROPERTY CommitHappens
