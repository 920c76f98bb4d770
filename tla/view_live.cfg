SPECIFICATION FairSpec
CONSTANTS
  n1 = n1
  n2 = n2
  n3 = n3
  n4 = n4
  t1 = t1
  t2 = t2
  NoTx = NoTx
  NoNode = NoNode
  Node = {n1, n2, n3, n4}
  Tx = {t1}
  F = 1
  N = 4
  CollectorMod = 2
  InitView = 1
  ServerMapping <- MCServerMapping
  TxId <- MCTxId
  Starts <- Prepared0
  Malicious <- Faulty
  Killable <- None
  NotifyCap = 1
  Prompt <- Node
  MaxSeq = 1
  MaxProposals = 1
  MaxView = 3
PROPERTY LeaderReplaced
CHECK_DEADLOCK FALSE
