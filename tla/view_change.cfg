SPECIFICATION Spec
CONSTANTS
  n1 = n1
  n2 = n2
  n3 = n3
  n4 = n4
  t1 = t1
  t2 = t2
  NoTx = NoTx
  NoNode = NoNode
  Node = {n1, n2, n3, n4}
  Tx = {t1}
  F = 1
  N = 4
  CollectorMod = 2
  InitView = 1
  ServerMapping <- MCServerMapping
  TxId <- MCTxId
  Starts <- Late
  Malicious <- None
  Killable <- Faulty
  NotifyCap = 1
  Prompt <- Node
  MaxSeq = 3
  MaxProposals = 1
  MaxView = 2
INVARIANT IInv
INVARIANT TimersBackViewChange
INVARIANT ReproposalsGenuine
INVARIANT AcceptedIsWatched
CHECK_DEADLOCK FALSE
