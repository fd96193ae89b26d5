SPECIFICATION FairSpec
CONSTANTS
  c1 = c1
  c2 = c2
  x = x
  y = y
  NL = NL
  JUNK = JUNK
  KeptStacks = 0
  Clients = {c1, c2}
  Scenarios <- MCScenarios
  Slots = 3
  recv_len = 2
  NULL = NULL
  NoClient = NoClient
  NoReply = NoReply
INVARIANTS
  TypeOK
  AnswersAgree
  ReadFits
  LengthIsDevice
  BuffersUnderLock
  DescriptorsOwned
PROPERTIES
  ServedUnlessHindered
  MainAccepts
  StopEnds
CHECK_DEADLOCK FALSE
