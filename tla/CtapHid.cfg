SPECIFICATION FairSpec
CONSTANTS
  Clients = {c1}
  Channels = {x1}
  Broadcast = Broadcast
  Zero = Zero
  Requests <- Polite
  MaxParts = 3
  MaxInbox = 2
  Cancels = FALSE
  Abandons = FALSE
  Prompt = TRUE
INVARIANT AnswerIsMine
PROPERTY EveryRequestAnswered
