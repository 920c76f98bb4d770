---------------------------- MODULE MCCheckpoint ----------------------------
(***************************************************************************)
(* Checkpoint on the four replicas of MCNormalCase, with a checkpoint at   *)
(* every sequence number instead of every fifteenth.                       *)
(***************************************************************************)
EXTENDS Checkpoint, TLC

CONSTANTS n1, n2, n3, n4, t1, t2

MCServerMapping == 0 :> n4 @@ 1 :> n1 @@ 2 :> n2 @@ 3 :> n3
MCTxId == [t \in Tx |-> IF t = t1 THEN 5 ELSE 6]
MCTxDigest == [t \in Tx |-> t]
Backups == Permutations({n2, n3, n4})
=============================================================================
