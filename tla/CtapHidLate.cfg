SPECIFICATION FairSpec
CONSTANTS
  Clients = {c1}
  Channels = {x1}
  Broadcast = Broadcast
  Zero = Zero
  Requests <- Plain
  MaxParts = 3
  MaxInbox = 2
  Cancels = FALSE
  Abandons = FALSE
  Prompt = FALSE
PROPERTY InitAnswered
CHECK_DEADLOCK FALSE
