SPECIFICATION Spec
CONSTANTS
  Slots = 3
  NULL = NULL
  Pointers = {p1, p2, p3, p4}
  Entries <- MCEntries
  Offsets <- MCOffsets
INVARIANTS
  TypeOK
  OffsetsAgree
  FindIsConcatenation
PROPERTIES
  FailsOnlyPastEnd
  OnlyOverwrittenLeaves
  ImplementsLog
