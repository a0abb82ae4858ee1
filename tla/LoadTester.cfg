SPECIFICATION Spec
CONSTANTS
  Workers = {w1, w2}
  N = 2
  Max = 3
  Window = 5
  Closed = Closed
  NoAnswer = NoAnswer
  NoResult = NoResult
  NotRun = NotRun
INVARIANTS
  TypeOK
  ReportsComplete
  DecryptAfterSuccess
PROPERTIES
  WrittenOnce
  Ends
