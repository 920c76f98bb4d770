SPECIFICATION Spec
CONSTANTS
  n1 = n1
  n2 = n2
  n3 = n3
  n4 = n4
  t1 = t1
  t2 = t2
  NoTx = NoTx
  NoNode = NoNode
  Node = {n1, n2, n3, n4}
  Tx = {t1, t2}
  F = 1
  N = 4
  CollectorMod = 2
  InitView = 1
  ServerMapping <- MCServerMapping
  TxId <- MCTxId
  Starts <- Prepared1
  Malicious <- None
  Killable <- None
  NotifyCap = 1
  Prompt <- None
  MaxSeq = 1
  MaxProposals = 2
  MaxView = 2
INVARIANT Agreement
CHECK_DEADLOCK FALSE
