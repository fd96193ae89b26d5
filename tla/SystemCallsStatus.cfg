SPECIFICATION Spec
CONSTANTS
  Pids = {p1, p2}
  NoPid = NoPid
  NoResult = NoResult
  MaxFds = 2
INVARIANTS
  TrueMeansSuccess
CHECK_DEADLOCK FALSE
