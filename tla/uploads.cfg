CONSTANTS
  None = None
  c1 = c1
  x1 = x1
  p1 = p1
  m1 = m1
  Csv = {c1, x1}
  Pdf = {p1}
  Unusable = {x1}
  Mapping = {m1}
  Readable <- MCReadable
  Detect <- MCDetect
  Legible = {}
  UseModel = TRUE
  Call = {1, 2}
  Token = {1, 2}
  MaxRequests = 5
  MaxFaults = 1
SPECIFICATION Spec
INVARIANTS
  TypeOK
  ImportsTheChosenFile
  ImportedOnce
  DoneOnce
CHECK_DEADLOCK FALSE
