---------------------------- MODULE MCViewChange ----------------------------
(***************************************************************************)
(* ViewChange on four replicas.  The first leads and collects in view 1,   *)
(* the second leads view 2, the last collects in it, as nodes 1, 2 and 7   *)
(* do in the program.                                                      *)
(***************************************************************************)
EXTENDS ViewChange, TLC

CONSTANTS n1, n2, n3, n4, t1, t2

MCServerMapping == 0 :> n4 @@ 1 :> n1 @@ 2 :> n2 @@ 3 :> n3
MCTxId == [t \in Tx |-> IF t = t1 THEN 5 ELSE 6]
None == {}
Faulty == {n1}
ButLast == {n1, n2, n3}

Start(first, held, gaveUp, times, down) ==
  [first |-> first, gaveUp |-> gaveUp, early |-> times, down |-> down,
   held |-> [s \in SeqNums |-> IF s <= Len(held) THEN held[s] ELSE {}]]
\* Everybody has accepted the proposal, and the leader lives or does not.
Prepared0 == {Start(<<t1>>, <<{n2, n3, n4}>>, FALSE, 0, down) : down \in {{}, {n1}}}
Prepared1 == {Start(<<t1>>, <<{n2, n3, n4}>>, FALSE, 1, {})}
\* From nothing; with two proposals whose prepares came too late, one still on
\* its way to a backup; with one proposal more than a lone backup takes.
Late == {Start(<<>>, <<>>, FALSE, 0, {n3}),
         Start(<<t1, t1>>, <<{n2, n4}, {n2}>>, TRUE, 1, {n3}),
         Start(<<t1, t1, t1>>, <<{n2}, {n2}>>, TRUE, 0, {n3, n4})}
=============================================================================
