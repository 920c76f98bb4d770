---------------------------- MODULE MCNormalCase ----------------------------
(***************************************************************************)
(* NormalCase on four replicas.  The first is leader and collector of view *)
(* 1, as node 1 is in the program; the other three are interchangeable     *)
(* because no other entry of ServerMapping is looked up in view 1.         *)
(***************************************************************************)
EXTENDS NormalCase, TLC

CONSTANTS n1, n2, n3, n4, t1, t2

MCServerMapping == 0 :> n4 @@ 1 :> n1 @@ 2 :> n2 @@ 3 :> n3
\* Transaction ids start at 1 and differ from the sequence numbers as soon
\* as a transaction is not the first of its run.
MCTxId == [t \in Tx |-> IF t = t1 THEN 5 ELSE 6]
MCTxDigest == [t \in Tx |-> t]
Backups == Permutations({n2, n3, n4})
=============================================================================
