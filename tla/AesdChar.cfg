SPECIFICATION Spec
CONSTANTS
  Slots = 2
  NULL = NULL
  Readers = {r}
  Writers = {w1, w2}
  Blocks = {b1, b2, b3, b4}
  ZERO_SIZE_PTR = ZERO_SIZE_PTR
  a = a
  b = b
  NL = NL
  Byte = {a, b, NL}
  Inputs <- MCInputs
  Counts = {1, 2}
  MaxPartial = 2
  Faults = {"kmalloc", "signal"}
  NoProc = NoProc
  NoReply = NoReply
SYMMETRY Interchangeable
INVARIANTS
  TypeOK
  MutualExclusion
  BufferOK
  EntriesOwnBlocks
  CopiesFit
  NoLeak
PROPERTIES
  ImplementsLog
