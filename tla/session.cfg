SPECIFICATION Spec
CONSTANTS
  Node = {1, 2}
  Observed = {1}
  Payload <- MCPayload
  Account = {"A", "B"}
  NoCell = NoCell
  NoTx = NoTx
  Files <- MCFiles
  MaxSet = 2
  MaxSeq = 2
  MaxWindows = 1
  MaxSent = 1
  MaxReads = 2
  MaxFlushes = 1
  MaxLate = 1
INVARIANTS SessionTypeOK ReadAsWritten IdsNeverReused ListedAreAlive Conserved 
CHECK_DEADLOCK FALSE
