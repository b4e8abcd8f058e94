SPECIFICATION Spec
CONSTANTS
  Clients = {c1, c2}
  Channels = {x1, x2}
  Broadcast = Broadcast
  Zero = Zero
  Requests <- Mixed
  MaxParts = 3
  MaxInbox = 1
  Cancels = TRUE
  Abandons = TRUE
  Prompt = FALSE
INVARIANTS TypeOK Reassembled
PROPERTY TransactionKept
SYMMETRY Symmetry
