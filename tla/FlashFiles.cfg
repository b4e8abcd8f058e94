SPECIFICATION FairSpec
CONSTANTS
  Fids = {pin, cred, rp, otp}
  Static = {pin}
  Blocked = {pin}
  x = x
  Contents <- MCContents
  Missing = Missing
  NoFile = NoFile
  HEADER = 1
  SECTOR = 5
  Start = 5
  End = 18
  MAX_DYNAMIC_FILES = 2
INVARIANTS TypeOK ListIntact BackLinks ExtentsSound TableMatches
PROPERTIES ImplementsMap OperationEnds
