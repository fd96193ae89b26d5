SPECIFICATION FairSpec
CONSTANTS
  c1 = c1
  c2 = c2
  x = x
  y = y
  NL = NL
  JUNK = JUNK
  KeptStacks = 2
  Clients = {c1, c2}
  Scenarios <- MCShortLines
  Slots = 1
  recv_len = 1
  NULL = NULL
  NoClient = NoClient
  NoReply = NoReply
PROPERTIES
  EveryClientServed
CHECK_DEADLOCK FALSE
