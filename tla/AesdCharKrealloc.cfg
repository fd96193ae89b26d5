SPECIFICATION Spec
CONSTANTS
  Slots = 1
  NULL = NULL
  Readers = {r}
  Writers = {w1, w2}
  Blocks = {b1, b2, b3}
  ZERO_SIZE_PTR = ZERO_SIZE_PTR
  a = a
  b = b
  NL = NL
  Byte = {a, b, NL}
  Inputs <- MCInputs
  Counts = {2}
  MaxPartial = 2
  Faults = {"krealloc"}
  NoProc = NoProc
  NoReply = NoReply
SYMMETRY Interchangeable
PROPERTIES
  InsertedByNewline
