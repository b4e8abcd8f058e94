SPECIFICATION Spec
CONSTANTS
  Rps = {a}
  u1 = u1
  u12 = u12
  u2 = u13
  u3 = u3
  Users = {u1, u12, u13}
  Alike <- MCBeginsWith
  Protected = {}
  SLOTS = 2
  TABLE = 4
  COUNTS = 4
  LIST = 2
  TEARS = 1
  NoCred = NoCred
  NoRp = NoRp
INVARIANT SameUserOverwrites
