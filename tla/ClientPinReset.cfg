SPECIFICATION Spec
CONSTANTS
  short = short
  long = long
  Pins = {short, long}
  PinLen <- Lengths
  NoPin = NoPin
  MinLens = {4, 6}
  DefaultMin = 4
  Permissions = {"mc", "ga", "lbw", "acfg"}
  Requests = {}
  RPs = {rp1}
  NoRp = NoRp
  MAX_PIN_RETRIES = 4
  MaxTokens = 3
  HostWaits = TRUE
INVARIANT BlockedAfterThree
