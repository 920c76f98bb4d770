SPECIFICATION Spec
CONSTANTS
  n1 = n1
  n2 = n2
  n3 = n3
  n4 = n4
  t1 = t1
  t2 = t2
  NoTx = NoTx
  Node = {n1, n2, n3, n4}
  Tx = {t1}
  F = 1
  N = 4
  CollectorMod = 2
  InitView = 1
  ServerMapping <- MCServerMapping
  TxId <- MCTxId
  TxDigest <- MCTxDigest
  CheckPoint = 15
  QueueCap = 100
  MaxSeq = 1
  MaxAttempts = 1
  MaxWindows = 1
  MaxFaults = 0
  MaxCommits = 2
  MaxEarly = 1
INVARIANT ProcessSurvives
CHECK_DEADLOCK FALSE
