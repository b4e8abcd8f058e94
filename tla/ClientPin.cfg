SPECIFICATION Spec
CONSTANTS
  short = short
  long = long
  Pins = {short, long}
  PinLen <- Lengths
  NoPin = NoPin
  MinLens = {0, 6, 260}
  DefaultMin = 4
  Permissions = {"mc", "ga", "lbw", "acfg"}
  Requests = {{"acfg"}, {"mc", "lbw"}}
  RPs = {rp1, rp2}
  NoRp = NoRp
  MAX_PIN_RETRIES = 1
  MaxTokens = 4
  HostWaits = TRUE
INVARIANTS TypeOK TokenSound MinPinEnforced
