SPECIFICATION Spec
CONSTANTS
  x = x
  m1 = m1
  m2 = m2
  NL = NL
  aesdsocket = aesdsocket
  Majors = {m1, m2}
  Lines <- MCLines
  MaxBytes = 3
  Slots = 2
  Missing = Missing
  File = File
  NotLoaded = NotLoaded
  NoReply = NoReply
INVARIANTS
  TypeOK
  NodeNamesModule
  DeviceInPlace
  AnswersOwnLines
  OverrunNeedsHistory
