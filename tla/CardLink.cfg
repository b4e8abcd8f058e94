SPECIFICATION FairSpec
CONSTANTS
  QSIZE = 4
  DEPTH = 2
  HostWaits = TRUE
INVARIANTS TypeOK AnswersAsker OneDialog QueuesSuffice
PROPERTIES RequestAnswered ImplementsCommands
