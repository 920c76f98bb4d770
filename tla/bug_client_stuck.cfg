SPECIFICATION FairSpec
CONSTANTS
  a = a
  b = b
  Client = {a, b}
  F = 1
  Answers = 3
  MaxTx = 4
  LastTx <- MCLastTx
  MaxRetries = 1
PROPERTY EverythingSent
CHECK_DEADLOCK FALSE
