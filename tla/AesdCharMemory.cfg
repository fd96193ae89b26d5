SPECIFICATION FairSpec
CONSTANTS
  Slots = 1
  NULL = NULL
  Readers = {r}
  Writers = {w1, w2}
  Blocks = {b1, b2}
  ZERO_SIZE_PTR = ZERO_SIZE_PTR
  a = a
  b = b
  NL = NL
  Byte = {a, NL}
  Inputs <- MCInputsShort
  Counts = {1}
  MaxPartial = 1
  Faults = {"kmalloc", "krealloc", "copy", "signal", "unload"}
  NoProc = NoProc
  NoReply = NoReply
INVARIANTS
  EntriesOwnBlocks
  CopiesFit
PROPERTIES
  FreedWhenDropped
  EveryCallReturns
