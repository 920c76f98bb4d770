------------------------ MODULE ClientHandlerProofs ------------------------
(***************************************************************************)
(* Theorems about ClientHandler, for any client ids, any sets of           *)
(* transactions, any F and any number of answers and retries.              *)
(***************************************************************************)
EXTENDS ClientHandler, TLAPS

USE DEF handlerVars, networkVars

\* What a set allows is within the bound.
LEMMA QuotaType ==
  ASSUME TypeOK, NEW c \in Client
  PROVE  Quota(c) \in 0 .. MaxTx
<1>1. set = 0 => Quota(c) \in 0 .. MaxTx
  BY ClientAssumption DEF Quota
<1>2. set # 0 => LastTx[set] \in [Client -> 0 .. MaxTx]
  <2>1. set \in 0 .. Len(LastTx)
    BY DEF TypeOK
  <2> QED
    BY <2>1, ClientAssumption
<1> QED
  BY <1>1, <1>2 DEF Quota

\* No transaction has been started, counted or completed at first.
LEMMA InitHolds == Init => IInv
<1> SUFFICES ASSUME Init PROVE IInv
  OBVIOUS
<1>1. TypeOK
  BY ClientAssumption DEF Init, TypeOK
<1>2. Fresh /\ CountedArrived
  BY DEF Init, Fresh, CountedArrived
<1>3. LatenciesBehind /\ LatenciesBacked /\ CompletedInOrder
  BY DEF Init, LatenciesBehind, LatenciesBacked, CompletedInOrder
<1> QED
  BY <1>1, <1>2, <1>3 DEF IInv

\* A step that writes none of what the other conjuncts read.
LEMMA QuietKeeps ==
  ASSUME IInv, TypeOK', UNCHANGED <<currentTx, replyCount, latencies, calls, delivered>>,
         \A c \in Client : processing'[c] => processing[c]
  PROVE  IInv'
<1>1. Fresh' /\ CountedArrived'
  BY DEF IInv, Fresh, CountedArrived
<1>2. LatenciesBehind' /\ LatenciesBacked' /\ CompletedInOrder'
  BY DEF IInv, LatenciesBehind, LatenciesBacked, CompletedInOrder
<1> QED
  BY <1>1, <1>2 DEF IInv

\* Option 2 of the menu starts senders and touches no handler.
LEMMA SendSetKeeps ==
  ASSUME IInv, SendSet
  PROVE  IInv'
<1>1. TypeOK
  BY DEF IInv
<1>2. set' \in 0 .. Len(LastTx)
  BY <1>1, ClientAssumption DEF SendSet, TypeOK
<1>3. sender' \in [Client -> {"none", "loop", "wait"}]
  BY DEF SendSet
<1>4. TypeOK'
  BY <1>1, <1>2, <1>3 DEF SendSet, TypeOK
<1> QED
  BY <1>4, QuietKeeps DEF SendSet

\* What the goroutine that sends keeps: it starts a transaction that nobody
\* has sent, counting from zero, and otherwise only waits or ends.
LEMMA SenderKeeps ==
  ASSUME IInv, NEW c \in Client, Sender(c)
  PROVE  IInv'
<1>0. /\ TypeOK /\ Fresh /\ CountedArrived /\ LatenciesBehind
      /\ LatenciesBacked /\ CompletedInOrder
  BY DEF IInv
<1>types. /\ currentTx \in [Client -> 0 .. MaxTx]
         /\ processing \in [Client -> BOOLEAN]
         /\ replyCount \in [Client -> Nat]
         /\ calls \in [Client -> [TxNum -> Nat]]
         /\ delivered \in [Client -> [TxNum -> Nat]]
         /\ latencies \in [Client -> Seq(TxNum)]
  BY <1>0 DEF TypeOK
<1>1. ASSUME StartTransaction(c) PROVE IInv'
  <2>0. PICK i : i = currentTx[c] + 1
    OBVIOUS
  <2>1. i \in TxNum /\ ~processing[c]
    <3>1. ~processing[c] /\ currentTx[c] < Quota(c)
      BY <1>1 DEF StartTransaction, More
    <3>2. Quota(c) \in 0 .. MaxTx
      BY <1>0, QuotaType
    <3> QED
      BY <1>types, <2>0, <3>1, <3>2, ClientAssumption DEF TxNum
  <2>2. /\ currentTx' = [currentTx EXCEPT ![c] = i]
        /\ replyCount' = [replyCount EXCEPT ![c] = 0]
        /\ processing' = [processing EXCEPT ![c] = TRUE]
        /\ calls' = [calls EXCEPT ![c][i] = @ + 1]
        /\ UNCHANGED <<latencies, delivered>>
    BY <1>1, <2>0 DEF StartTransaction, CountAtStart
  <2>3. /\ currentTx' \in [Client -> 0 .. MaxTx]
        /\ replyCount' \in [Client -> Nat]
        /\ processing' \in [Client -> BOOLEAN]
        /\ calls' \in [Client -> [TxNum -> Nat]]
    <3>1. i \in 0 .. MaxTx
      BY <2>1, ClientAssumption DEF TxNum
    <3>2. calls' \in [Client -> [TxNum -> Nat]]
      BY <1>types, <2>1, <2>2
    <3> QED
      BY <1>types, <2>2, <3>1, <3>2
  <2>4. TypeOK'
    BY <1>0, <1>1, <2>3 DEF StartTransaction, TypeOK
  <2>5. Fresh'
    BY <1>0, <1>types, <2>0, <2>1, <2>2 DEF Fresh, TxNum
  <2>6. CountedArrived'
    BY <1>0, <1>types, <2>1, <2>2 DEF CountedArrived
  <2>7. LatenciesBehind'
    <3>1. ASSUME NEW d \in Client, NEW k \in DOMAIN latencies[d]
          PROVE  /\ latencies[d][k] <= currentTx'[d]
                 /\ processing'[d] => latencies[d][k] < currentTx'[d]
      <4>0. latencies[d][k] \in TxNum
        BY <1>types
      <4>1. latencies[d][k] \in Nat /\ latencies[d][k] <= currentTx[d]
        BY <1>0, <4>0, ClientAssumption DEF LatenciesBehind, TxNum
      <4>2. CASE d = c
        BY <1>types, <2>0, <2>2, <4>1, <4>2
      <4>3. CASE d # c
        BY <1>0, <1>types, <2>2, <4>3 DEF LatenciesBehind
      <4> QED
        BY <4>2, <4>3
    <3> QED
      BY <2>2, <3>1 DEF LatenciesBehind
  <2>8. LatenciesBacked' /\ CompletedInOrder'
    BY <1>0, <2>2 DEF LatenciesBacked, CompletedInOrder
  <2> QED
    BY <2>4, <2>5, <2>6, <2>7, <2>8 DEF IInv
<1>2. ASSUME SenderWaits(c) \/ SenderEnds(c) PROVE IInv'
  <2>1. TypeOK'
    BY <1>0, <1>2 DEF SenderWaits, SenderEnds, TypeOK
  <2> QED
    BY <1>2, <2>1, QuietKeeps DEF SenderWaits, SenderEnds
<1>3. ASSUME SenderWoken(c) PROVE IInv'
  <2>1. TypeOK'
    BY <1>0, <1>3 DEF SenderWoken, TakeDone, TypeOK
  <2> QED
    BY <1>3, <2>1, QuietKeeps DEF SenderWoken
<1> QED
  BY <1>1, <1>2, <1>3 DEF Sender

\* monitorReplies only resends the current transaction or ends its
\* processing.
LEMMA MonitorKeeps ==
  ASSUME IInv, NEW c \in Client, Monitor(c)
  PROVE  IInv'
<1>0. /\ TypeOK /\ Fresh /\ CountedArrived /\ LatenciesBehind
      /\ LatenciesBacked /\ CompletedInOrder
  BY DEF IInv
<1>1. ASSUME MonitorTimeout(c) PROVE IInv'
  <2>1. currentTx[c] \in TxNum
    BY <1>0, <1>1 DEF MonitorTimeout, CountedArrived
  <2>2. calls \in [Client -> [TxNum -> Nat]]
    BY <1>0 DEF TypeOK
  <2>3. calls' \in [Client -> [TxNum -> Nat]]
    <3>1. PICK i \in TxNum : i = currentTx[c]
      BY <2>1
    <3>2. calls' = [calls EXCEPT ![c][i] = @ + 1]
      BY <1>1, <3>1 DEF MonitorTimeout
    <3> QED
      BY <2>2, <3>2
  <2>4. retries' \in [Client -> Nat]
    BY <1>0, <1>1 DEF MonitorTimeout, TypeOK
  <2>5. TypeOK'
    BY <1>0, <1>1, <2>3, <2>4 DEF MonitorTimeout, TypeOK
  <2>6. \A d \in Client, i \in TxNum :
          i # currentTx[d] => calls'[d][i] = calls[d][i]
    BY <1>1, <2>2 DEF MonitorTimeout
  <2>7. Fresh'
    <3>1. \A d \in Client : currentTx[d] \in Nat
      BY <1>0 DEF TypeOK
    <3> QED
      BY <1>0, <1>1, <2>6, <3>1 DEF MonitorTimeout, Fresh, TxNum
  <2>8. CountedArrived' /\ LatenciesBehind'
    BY <1>0, <1>1 DEF MonitorTimeout, CountedArrived, LatenciesBehind
  <2>9. LatenciesBacked' /\ CompletedInOrder'
    BY <1>0, <1>1 DEF MonitorTimeout, LatenciesBacked, CompletedInOrder
  <2> QED
    BY <2>5, <2>7, <2>8, <2>9 DEF IInv
<1>2. ASSUME MonitorTakesDone(c) PROVE IInv'
  <2>1. TypeOK'
    BY <1>0, <1>2 DEF MonitorTakesDone, TakeDone, TypeOK
  <2>2. \A d \in Client : processing'[d] => processing[d]
    BY <1>0, <1>2 DEF MonitorTakesDone, TypeOK
  <2> QED
    BY <1>2, <2>1, <2>2, QuietKeeps DEF MonitorTakesDone
<1> QED
  BY <1>1, <1>2 DEF Monitor

\* A reply counts once and for the current transaction; the last one needed
\* records a transaction later than all recorded before.
LEMMA ResponseKeeps ==
  ASSUME IInv, NEW c \in Client, NEW i \in TxNum, ServerResponse(c, i)
  PROVE  IInv'
<1>0. /\ TypeOK /\ Fresh /\ CountedArrived /\ LatenciesBehind
      /\ LatenciesBacked /\ CompletedInOrder
  BY DEF IInv
<1>types. /\ currentTx \in [Client -> 0 .. MaxTx]
         /\ processing \in [Client -> BOOLEAN]
         /\ replyCount \in [Client -> Nat]
         /\ calls \in [Client -> [TxNum -> Nat]]
         /\ delivered \in [Client -> [TxNum -> Nat]]
         /\ latencies \in [Client -> Seq(TxNum)]
         /\ processDone \in [Client -> BOOLEAN]
         /\ mu \in [Client -> {"free", "held"}]
  BY <1>0 DEF TypeOK
<1>1. /\ delivered' = [delivered EXCEPT ![c][i] = @ + 1]
      /\ UNCHANGED <<set, sender, currentTx, retries, calls>>
  BY DEF ServerResponse
<1>2. /\ delivered' \in [Client -> [TxNum -> Nat]]
      /\ \A d \in Client, j \in TxNum : delivered[d][j] <= delivered'[d][j]
  <2>1. i \in TxNum
    OBVIOUS
  <2> QED
    BY <1>types, <1>1, <2>1
<1>backed. ASSUME NEW d \in Client, NEW k \in DOMAIN latencies[d]
          PROVE  /\ latencies[d][k] \in TxNum
                 /\ delivered'[d][latencies[d][k]] >= F + 1
  <2>1. PICK j \in TxNum : j = latencies[d][k]
    BY <1>types
  <2>2. delivered[d][j] >= F + 1 /\ delivered[d][j] <= delivered'[d][j]
    BY <1>0, <1>2, <2>1 DEF LatenciesBacked
  <2>3. delivered[d][j] \in Nat /\ delivered'[d][j] \in Nat
    BY <1>2, <1>types
  <2> QED
    BY <2>1, <2>2, <2>3, ClientAssumption
<1>3. Fresh'
  <2>1. calls[c][i] # 0
    BY <1>types, ClientAssumption DEF ServerResponse
  <2>2. \A d \in Client, j \in TxNum :
          calls[d][j] = 0 => delivered'[d][j] = delivered[d][j]
    BY <1>types, <1>1, <2>1
  <2> QED
    BY <1>0, <1>1, <2>2 DEF Fresh
<1>4. CASE ReplyNotLast(c, i)
  <2>1. replyCount' \in [Client -> Nat]
    BY <1>4, <1>types DEF ReplyNotLast
  <2>2. TypeOK'
    BY <1>0, <1>1, <1>2, <1>4, <2>1 DEF ReplyNotLast, TypeOK
  <2>3. CountedArrived'
    <3>1. ASSUME NEW d \in Client, processing[d]
          PROVE  /\ currentTx[d] \in TxNum
                 /\ replyCount'[d] <= delivered'[d][currentTx[d]]
      <4>1. /\ currentTx[d] \in TxNum
            /\ replyCount[d] <= delivered[d][currentTx[d]]
        BY <1>0, <3>1 DEF CountedArrived
      <4>2. CASE replyCount'[d] = replyCount[d]
        <5>1. PICK j \in TxNum : j = currentTx[d]
          BY <4>1
        <5>2. /\ delivered[d][j] <= delivered'[d][j]
              /\ delivered[d][j] \in Nat /\ delivered'[d][j] \in Nat
          BY <1>2, <1>types
        <5>3. replyCount[d] \in Nat
          BY <1>types
        <5> QED
          BY <4>1, <4>2, <5>1, <5>2, <5>3
      <4>3. CASE replyCount'[d] # replyCount[d]
        <5>1. d = c /\ i = currentTx[c] /\ replyCount'[c] = replyCount[c] + 1
          BY <1>4, <1>types, <4>3 DEF ReplyNotLast, ReplyCounts
        <5>2. delivered'[c][i] = delivered[c][i] + 1
          BY <1>1, <1>types
        <5> QED
          BY <1>types, <4>1, <5>1, <5>2
      <4> QED
        BY <4>2, <4>3, <4>1
    <3> QED
      BY <1>1, <1>4, <3>1 DEF ReplyNotLast, CountedArrived
  <2>4. LatenciesBehind' /\ CompletedInOrder'
    BY <1>0, <1>1, <1>4 DEF ReplyNotLast, LatenciesBehind, CompletedInOrder
  <2>5. LatenciesBacked'
    BY <1>4, <1>backed DEF ReplyNotLast, LatenciesBacked
  <2> QED
    BY <1>3, <2>2, <2>3, <2>4, <2>5 DEF IInv
<1>5. CASE ReplyLast(c, i)
  <2>1. /\ processing[c] /\ i = currentTx[c] /\ replyCount[c] + 1 >= F + 1
        /\ latencies' = [latencies EXCEPT ![c] = Append(@, i)]
        /\ processing' = [processing EXCEPT ![c] = FALSE]
        /\ replyCount' = [replyCount EXCEPT ![c] = 0]
    BY <1>5 DEF ReplyLast, ReplyCounts
  <2>2. TypeOK'
    <3>1. /\ latencies' \in [Client -> Seq(TxNum)]
          /\ processing' \in [Client -> BOOLEAN]
          /\ replyCount' \in [Client -> Nat]
      BY <1>types, <2>1
    <3>2. /\ processDone' \in [Client -> BOOLEAN]
          /\ mu' \in [Client -> {"free", "held"}]
      BY <1>5, <1>types DEF ReplyLast
    <3> QED
      BY <1>0, <1>1, <1>2, <3>1, <3>2 DEF TypeOK
  <2>3. CountedArrived'
    <3>1. \A d \in Client : processing'[d] =>
            d # c /\ processing[d] /\ replyCount'[d] = replyCount[d]
      BY <1>types, <2>1
    <3>2. \A d \in Client : d # c => delivered'[d] = delivered[d]
      BY <1>1, <1>types
    <3> QED
      BY <1>0, <1>1, <3>1, <3>2 DEF CountedArrived
  <2>4. /\ \A d \in Client : d # c => latencies'[d] = latencies[d]
        /\ DOMAIN latencies'[c] = DOMAIN latencies[c] \cup {Len(latencies[c]) + 1}
        /\ latencies'[c][Len(latencies[c]) + 1] = i
        /\ \A k \in DOMAIN latencies[c] : latencies'[c][k] = latencies[c][k]
    BY <1>types, <2>1
  <2>5. LatenciesBehind'
    BY <1>0, <1>1, <1>types, <2>1, <2>4 DEF LatenciesBehind, TxNum
  <2>6. LatenciesBacked'
    <3>1. delivered'[c][i] >= F + 1
      <4>1. replyCount[c] <= delivered[c][i]
        BY <1>0, <2>1 DEF CountedArrived
      <4>2. delivered'[c][i] = delivered[c][i] + 1
        BY <1>1, <1>types
      <4> QED
        BY <1>types, <2>1, <4>1, <4>2, ClientAssumption
    <3> QED
      BY <1>backed, <2>4, <3>1 DEF LatenciesBacked
  <2>7. CompletedInOrder'
    <3>1. \A k \in DOMAIN latencies[c] : latencies[c][k] < i
      BY <1>0, <2>1 DEF LatenciesBehind
    <3>2. DOMAIN latencies[c] = 1 .. Len(latencies[c]) /\ Len(latencies[c]) \in Nat
      BY <1>types
    <3> QED
      BY <1>0, <2>4, <3>1, <3>2 DEF CompletedInOrder
  <2> QED
    BY <1>3, <2>2, <2>3, <2>5, <2>6, <2>7 DEF IInv
<1> QED
  BY <1>4, <1>5 DEF ServerResponse

\* Every step of the client keeps the invariant.
LEMMA NextKeeps == IInv /\ [Next]_vars => IInv'
<1> SUFFICES ASSUME IInv, [Next]_vars PROVE IInv'
  OBVIOUS
<1>1. CASE UNCHANGED vars
  <2>1. TypeOK'
    BY <1>1 DEF IInv, TypeOK, vars
  <2> QED
    BY <1>1, <2>1, QuietKeeps DEF vars
<1>2. CASE Next
  BY <1>2, SendSetKeeps, SenderKeeps, MonitorKeeps, ResponseKeeps
  DEF Next, Respond
<1> QED
  BY <1>1, <1>2

\* The invariant behind the two below, and type correctness with it.
THEOREM InvariantHolds == Spec => []IInv
BY InitHolds, NextKeeps, PTL DEF Spec

\* Every variable keeps its type: the handler never starts a transaction that
\* its set does not have.
THEOREM TypeCorrect == Spec => []TypeOK
<1>1. IInv => TypeOK
  BY DEF IInv
<1> QED
  BY <1>1, InvariantHolds, PTL

\* F + 1 replies about a transaction have arrived when its latency is
\* recorded, also when a stale token let it start early.
THEOREM RepliesBackLatencies == Spec => []LatenciesBacked
<1>1. IInv => LatenciesBacked
  BY DEF IInv
<1> QED
  BY <1>1, InvariantHolds, PTL

\* No transaction of a client id completes twice or out of order.
THEOREM CompletionInOrder == Spec => []CompletedInOrder
<1>1. IInv => CompletedInOrder
  BY DEF IInv
<1> QED
  BY <1>1, InvariantHolds, PTL
=============================================================================
