SPECIFICATION Spec
CONSTANTS
  Slots = 2
  NULL = NULL
  Readers = {r}
  Writers = {w}
  Blocks = {b1, b2, b3}
  ZERO_SIZE_PTR = ZERO_SIZE_PTR
  a = a
  b = b
  NL = NL
  Byte = {a, b, NL}
  Inputs <- MCInputsCut
  Counts = {2}
  MaxPartial = 1
  Faults = {"kmalloc", "copy", "signal", "unload"}
  NoProc = NoProc
  NoReply = NoReply
SYMMETRY InterchangeableBlocks
PROPERTIES
  ImplementsLog
