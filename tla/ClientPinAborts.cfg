SPECIFICATION Spec
CONSTANTS
  short = short
  long = long
  Pins = {short, long}
  PinLen <- Lengths
  NoPin = NoPin
  MinLens = {4}
  DefaultMin = 4
  Permissions = {"mc", "ga", "lbw", "acfg"}
  Requests = {}
  RPs = {rp1}
  NoRp = NoRp
  MAX_PIN_RETRIES = 2
  MaxTokens = 4
  HostWaits = FALSE
INVARIANT GuessBudget
PROPERTY ImplementsGuard
