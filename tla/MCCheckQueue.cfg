SPECIFICATION LiveSpec
CONSTANTS
  Workers = {w1, w2}
  Master = m
  Checks = {c1, c2, c3, c4}
  Bad = {c4}
  nBatchSize = 2
  GroupMasters = 1
INVARIANTS
  AnswerIsVerdict
  NoCheckOutlivesControl
PROPERTIES
  ImplementsControl
  WaitReturns
