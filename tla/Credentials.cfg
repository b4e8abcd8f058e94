SPECIFICATION Spec
CONSTANTS
  Rps = {a, b}
  u1 = u1
  u12 = u12
  u2 = u2
  u3 = u3
  Users = {u1, u12, u2, u3}
  Alike <- MCAlike
  Protected = {u1, u12}
  SLOTS = 3
  TABLE = 4
  COUNTS = 4
  LIST = 2
  TEARS = 1
  NoCred = NoCred
  NoRp = NoRp
SYMMETRY Symmetry
INVARIANTS TypeOK OneCredentialPerUser CountsMatch RpsComplete CredsComplete AssertionsComplete
PROPERTY ImplementsAccounts
