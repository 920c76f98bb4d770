-------------------------- MODULE ViewChangeProofs --------------------------
(***************************************************************************)
(* Proofs about ViewChange: types, who is behind a change of view, where   *)
(* re-proposals come from, and that backups watch what they accept.        *)
(***************************************************************************)
EXTENDS ViewChange, FiniteSetTheorems, TLAPS

USE DEF adminVars, viewVars, leaderVars, trackerVars, entryVars, poolVars,
        clockVars, timerVars, countVars, goVars, newViewVars, historyVars,
        changeVars, orderNet, loadVars, changeNet

-----------------------------------------------------------------------------
(* Constants, bags and messages.                                            *)

\* Sequence numbers and views.
LEMMA Ranges ==
  /\ SeqNums \subseteq Nat /\ Views \subseteq Nat
  /\ InitView \in Views
  /\ \A v \in Views : v >= InitView /\ v <= MaxView
  /\ \A v \in Nat : v >= InitView /\ v <= MaxView => v \in Views
BY BoundAssumption, ReplicaAssumption DEF SeqNums, Views

LEMMA LeaderIsNode == ASSUME NEW v \in Nat PROVE Leader(v) \in Node
<1>1. v % N \in 0 .. N - 1
  BY ReplicaAssumption
<1> QED
  BY <1>1, MappingAssumption DEF Leader

LEMMA CollectorIsNode == ASSUME NEW v \in Nat PROVE Collector(v) \in Node
<1>1. v % CollectorMod \in 0 .. N - 1
  BY ReplicaAssumption
<1> QED
  BY <1>1, MappingAssumption DEF Collector

\* Bags of loads stay so when loads are added or taken out.
LEMMA BagsOfLoads ==
  /\ Loads(EmptyBag) /\ BagToSet(EmptyBag) = {}
  /\ \A S \in SUBSET Load : Loads(SetToBag(S)) /\ BagToSet(SetToBag(S)) = S
BY DEF Loads, EmptyBag, SetToBag, IsABag, BagToSet

LEMMA BagsAdded ==
  ASSUME NEW a, NEW b, Loads(a), Loads(b)
  PROVE  Loads(a (+) b) /\ BagToSet(a (+) b) = BagToSet(a) \cup BagToSet(b)
BY DEF Loads, IsABag, BagToSet, (+)

LEMMA BagsTaken ==
  ASSUME NEW a, NEW b, Loads(a), Loads(b)
  PROVE  Loads(a (-) b) /\ BagToSet(a (-) b) \subseteq BagToSet(a)
BY DEF Loads, IsABag, BagToSet, (-)

\* Counters of messages.
LEMMA SentTypes ==
  ASSUME NEW S, NEW net \in [Node -> [S -> Nat]], NEW to, NEW s \in S
  PROVE  Sent(net, to, s) \in [Node -> [S -> Nat]]
BY DEF Sent

LEMMA ReceivedTypes ==
  ASSUME NEW S, NEW net \in [Node -> [S -> Nat]], NEW n \in Node, NEW s \in S,
         net[n][s] > 0
  PROVE  Received(net, n, s) \in [Node -> [S -> Nat]]
BY DEF Received

\* Trackers.
LEMMA CountedTypes ==
  ASSUME NEW t \in Tracker, NEW n
  PROVE  /\ Counted(t, n) \in Tracker
         /\ [t EXCEPT !.monitor = "done"] \in Tracker
         /\ NoTracker \in Tracker
BY DEF Counted, Tracker, NoTracker

-----------------------------------------------------------------------------
(* Types.                                                                   *)

LEMMA EntriesTyped ==
  ASSUME NEW e \in Entry, NEW t \in Tx, NEW k \in Node, NEW c \in Nat, NEW b \in BOOLEAN
  PROVE  /\ NoEntry \in Entry
         /\ [NoEntry EXCEPT !.exists = TRUE, !.tx = t, !.digest = t,
                            !.signer = k] \in Entry
         /\ [Signed(e, k) EXCEPT !.tx = t, !.digest = t] \in Entry
         /\ [Signed(e, k) EXCEPT !.digest = t] \in Entry
         /\ [e EXCEPT !.exists = TRUE, !.prepares = @ + 1] \in Entry
         /\ [e EXCEPT !.exists = TRUE, !.prepares = c, !.isCommitted = b] \in Entry
         /\ [e EXCEPT !.exists = TRUE] \in Entry
         /\ [e EXCEPT !.isCommitted = TRUE] \in Entry
<1>1. NoEntry \in Entry
  BY DEF NoEntry, Entry
<1>2. [NoEntry EXCEPT !.exists = TRUE, !.tx = t, !.digest = t, !.signer = k] \in Entry
  BY DEF NoEntry, Entry
<1>3. Signed(e, k) \in Entry
  BY DEF Signed, Entry
<1>4. [Signed(e, k) EXCEPT !.tx = t, !.digest = t] \in Entry
  BY <1>3 DEF Entry
<1>5. [Signed(e, k) EXCEPT !.digest = t] \in Entry
  BY <1>3 DEF Entry
<1>6. e.prepares \in Nat
  BY DEF Entry
<1>7. [e EXCEPT !.exists = TRUE, !.prepares = @ + 1] \in Entry
  <2>1. \A q \in Nat : [e EXCEPT !.exists = TRUE, !.prepares = q] \in Entry
    BY DEF Entry
  <2>2. e.prepares + 1 \in Nat
    BY <1>6
  <2> QED
    BY <2>1, <2>2, Zenon
<1>8. [e EXCEPT !.exists = TRUE, !.prepares = c, !.isCommitted = b] \in Entry
  BY DEF Entry
<1>9. /\ [e EXCEPT !.exists = TRUE] \in Entry
      /\ [e EXCEPT !.isCommitted = TRUE] \in Entry
  BY DEF Entry
<1> QED
  BY <1>1, <1>2, <1>4, <1>5, <1>7, <1>8, <1>9

\* A handler that puts a number into processPool.
LEMMA WatchTypes ==
  ASSUME TypeOK, NEW n \in Node, NEW s \in SeqNums, Watch(n, s)
  PROVE  /\ processPool' \in [Node -> SUBSET Nat]
         /\ processNotify' \in [Node -> 0 .. NotifyCap]
         /\ blocked' \in [Node -> 0 .. MaxSeq]
         /\ prepareNet' \in [Node -> [SeqNums -> Nat]]
<1>1. /\ processPool \in [Node -> SUBSET Nat]
      /\ processNotify \in [Node -> 0 .. NotifyCap]
      /\ blocked \in [Node -> 0 .. MaxSeq]
      /\ prepareNet \in [Node -> [SeqNums -> Nat]]
  BY DEF TypeOK, TimerTypes, OrderNetTypes
<1>2. s \in Nat /\ s \in 0 .. MaxSeq /\ NotifyCap \in Nat
  BY BoundAssumption DEF SeqNums
<1>3. processPool' \in [Node -> SUBSET Nat]
  BY <1>1, <1>2 DEF Watch, HasRoom
<1>4. processNotify' \in [Node -> 0 .. NotifyCap]
  BY <1>1, <1>2 DEF Watch, HasRoom
<1>5. blocked' \in [Node -> 0 .. MaxSeq]
  BY <1>1, <1>2 DEF Watch, HasRoom
<1>6. prepareNet' \in [Node -> [SeqNums -> Nat]]
  <2>1. Sent(prepareNet, {Collector(view[n])}, s) \in [Node -> [SeqNums -> Nat]]
    BY <1>1, SentTypes
  <2> QED
    BY <1>1, <2>1 DEF Watch, HasRoom
<1> QED
  BY <1>3, <1>4, <1>5, <1>6

LEMMA LooksTypes ==
  ASSUME TypeOK, NEW n \in Node, Looks(n)
  PROVE  /\ thread' \in [Node -> [pc : {"idle", "arming", "waiting"}, seq : Nat]]
         /\ timer' \in [Node -> {"nil", "thread", "other"}]
<1>1. /\ thread \in [Node -> [pc : {"idle", "arming", "waiting"}, seq : Nat]]
      /\ timer \in [Node -> {"nil", "thread", "other"}]
      /\ processPool[n] \subseteq Nat
  BY DEF TypeOK, TimerTypes
<1>2. timer' \in [Node -> {"nil", "thread", "other"}]
  BY <1>1 DEF Looks
<1>3. CASE isViewChangeProcess[n] \/ processPool[n] = {}
  <2>1. thread' = [thread EXCEPT ![n].pc = "idle"]
    BY <1>3 DEF Looks
  <2> QED
    BY <1>1, <1>2, <2>1
<1>4. CASE ~(isViewChangeProcess[n] \/ processPool[n] = {})
  <2>1. PICK s \in processPool[n] :
          thread' = [thread EXCEPT ![n] = [pc |-> "arming", seq |-> s]]
    BY <1>4 DEF Looks
  <2> QED
    BY <1>1, <1>2, <2>1
<1> QED
  BY <1>3, <1>4

\* What a request carries.
LEMMA FirstLoadTypes ==
  ASSUME TypeOK, NEW n \in Node
  PROVE  /\ Reported(n) \subseteq SeqNums
         /\ AllGenuine /\ ~(\E s \in Reported(n) : logs[n][s].signer = NoNode)
            => /\ FirstLoad(n) \subseteq Load
               /\ \A l \in FirstLoad(n) : Genuine(l.seq, l.tx, l.signer)
<1>1. Reported(n) \subseteq SeqNums
  <2> DEFINE Q == {q \in SeqNums : logs[n][q].exists}
  <2>1. Q \subseteq 1 .. MaxSeq
    BY DEF SeqNums
  <2>2. Cardinality(Q) \in Nat /\ Cardinality(Q) <= MaxSeq
    <3>1. IsFiniteSet(1 .. MaxSeq) /\ Cardinality(1 .. MaxSeq) = MaxSeq
      BY FS_Interval, BoundAssumption
    <3> QED
      BY <2>1, <3>1, FS_Subset, FS_CardinalityType, BoundAssumption
  <2>3. \A c, m \in Nat : c <= m => 1 .. c - 1 \subseteq 1 .. m
    OBVIOUS
  <2> QED
    BY <2>2, <2>3, BoundAssumption DEF Reported, SeqNums
<1>2. ASSUME AllGenuine, ~(\E s \in Reported(n) : logs[n][s].signer = NoNode),
             NEW l \in FirstLoad(n)
      PROVE  l \in Load /\ Genuine(l.seq, l.tx, l.signer)
  <2>1. PICK s \in Reported(n) :
          l = [seq |-> s, tx |-> logs[n][s].digest, signer |-> logs[n][s].signer]
    BY <1>2 DEF FirstLoad
  <2>2. s \in SeqNums /\ logs[n][s].signer # NoNode
    BY <1>1, <1>2, <2>1
  <2>3. logs[n][s] \in Entry
    BY <2>2 DEF TypeOK, EntryTypes
  <2>4. Genuine(s, logs[n][s].digest, logs[n][s].signer)
    BY <1>2, <2>2 DEF AllGenuine
  <2>5. logs[n][s].digest \in Tx /\ logs[n][s].signer \in Node
    BY <2>2, <2>3, <2>4 DEF Genuine, Proposal, Entry, TypeOK, LeaderTypes
  <2> QED
    BY <2>1, <2>2, <2>4, <2>5 DEF Load
<1> QED
  BY <1>1, <1>2

\* The loads a request brings to the leader of the view it asks for.
LEMMA InitiateTypes ==
  ASSUME TypeOK, AllGenuine, NEW n \in Node, view[n] < MaxView,
         InitiateViewChange(n)
  PROVE  /\ crashed' \in [Node -> {"no", "nil", "unlock", "index"}]
         /\ requestNet' \in [Node -> [Views -> Nat]]
         /\ asked' \subseteq Node
         /\ DOMAIN loadNet' = Views
         /\ \A v \in Views :
              /\ Loads(loadNet'[v])
              /\ \A l \in BagToSet(loadNet'[v]) :
                   l \in BagToSet(loadNet[v]) \/ Genuine(l.seq, l.tx, l.signer)
<1>1. /\ crashed \in [Node -> {"no", "nil", "unlock", "index"}]
      /\ requestNet \in [Node -> [Views -> Nat]]
      /\ asked \subseteq Node
      /\ DOMAIN loadNet = Views
      /\ \A v \in Views : Loads(loadNet[v])
  BY DEF TypeOK, AdminTypes, ChangeTypes, ChangeNetTypes
<1>2. view[n] + 1 \in Views
  <2>1. view[n] \in Views
    BY DEF TypeOK, AdminTypes
  <2> QED
    BY <2>1, BoundAssumption, ReplicaAssumption DEF Views
<1>3. CASE \E s \in Reported(n) : logs[n][s].signer = NoNode
  BY <1>1, <1>3 DEF InitiateViewChange, Crash, loadVars
<1>4. CASE ~(\E s \in Reported(n) : logs[n][s].signer = NoNode)
  <2>1. /\ requestNet' = Sent(requestNet, Node, view[n] + 1)
        /\ loadNet' = IF Hearing({Leader(view[n] + 1)}) = {} THEN loadNet
                      ELSE [loadNet EXCEPT ![view[n] + 1] =
                              @ (+) SetToBag(FirstLoad(n))]
        /\ asked' = asked \cup {n}
        /\ UNCHANGED crashed
    BY <1>4 DEF InitiateViewChange
  <2>2. /\ FirstLoad(n) \subseteq Load
        /\ \A l \in FirstLoad(n) : Genuine(l.seq, l.tx, l.signer)
    BY <1>4, FirstLoadTypes
  <2>3. /\ Loads(SetToBag(FirstLoad(n)))
        /\ BagToSet(SetToBag(FirstLoad(n))) = FirstLoad(n)
    BY <2>2, BagsOfLoads
  <2>4. \A v \in Views :
          /\ Loads(loadNet[v] (+) SetToBag(FirstLoad(n)))
          /\ BagToSet(loadNet[v] (+) SetToBag(FirstLoad(n)))
               = BagToSet(loadNet[v]) \cup FirstLoad(n)
    BY <1>1, <2>3, BagsAdded
  <2>5. DOMAIN loadNet' = Views
    BY <1>1, <2>1
  <2>6. \A v \in Views :
          \/ loadNet'[v] = loadNet[v]
          \/ loadNet'[v] = loadNet[v] (+) SetToBag(FirstLoad(n))
    BY <1>1, <2>1
  <2>7. requestNet' \in [Node -> [Views -> Nat]]
    BY <1>1, <1>2, <2>1, SentTypes
  <2> QED
    BY <1>1, <2>1, <2>2, <2>4, <2>5, <2>6, <2>7
<1> QED
  BY <1>3, <1>4

\* A request that arrives.
LEMMA ArrivesTypes ==
  ASSUME TypeOK, NEW n \in Node, NEW v \in Views, Arrives(n, v)
  PROVE  /\ requestNet' \in [Node -> [Views -> Nat]]
         /\ requestNet' = Received(requestNet, n, v)
         /\ DOMAIN loadNet' = Views /\ DOMAIN loadLog' = Views
         /\ \A w \in Views : Loads(loadNet'[w]) /\ Loads(loadLog'[w])
         /\ \A w \in Views :
              /\ BagToSet(loadNet'[w]) \subseteq BagToSet(loadNet[w])
              /\ BagToSet(loadLog'[w])
                   \subseteq BagToSet(loadLog[w]) \cup BagToSet(loadNet[w])
<1>1. /\ requestNet \in [Node -> [Views -> Nat]]
      /\ DOMAIN loadNet = Views /\ DOMAIN loadLog = Views
      /\ \A w \in Views : Loads(loadNet[w]) /\ Loads(loadLog[w])
  BY DEF TypeOK, ChangeNetTypes
<1>2. /\ requestNet' = Received(requestNet, n, v)
      /\ requestNet[n][v] > 0
  BY DEF Arrives
<1>3. requestNet' \in [Node -> [Views -> Nat]]
  BY <1>1, <1>2, ReceivedTypes
<1>4. CASE UNCHANGED <<loadNet, loadLog>>
  BY <1>1, <1>2, <1>3, <1>4
<1>5. CASE ~UNCHANGED <<loadNet, loadLog>>
  <2>1. PICK l \in BagToSet(loadNet[v]) :
          /\ loadNet' = [loadNet EXCEPT ![v] = @ (-) SetToBag({l})]
          /\ loadLog' = [loadLog EXCEPT ![v] = @ (+) SetToBag({l})]
    BY <1>5 DEF Arrives
  <2>2. {l} \subseteq Load
    BY <1>1, <2>1 DEF Loads
  <2>3. Loads(SetToBag({l})) /\ BagToSet(SetToBag({l})) = {l}
    BY <2>2, BagsOfLoads
  <2>4. /\ Loads(loadNet[v] (-) SetToBag({l}))
        /\ BagToSet(loadNet[v] (-) SetToBag({l})) \subseteq BagToSet(loadNet[v])
    BY <1>1, <2>3, BagsTaken
  <2>5. /\ Loads(loadLog[v] (+) SetToBag({l}))
        /\ BagToSet(loadLog[v] (+) SetToBag({l})) = BagToSet(loadLog[v]) \cup {l}
    BY <1>1, <2>3, BagsAdded
  <2>6. /\ DOMAIN loadNet' = Views /\ DOMAIN loadLog' = Views
        /\ loadNet'[v] = loadNet[v] (-) SetToBag({l})
        /\ loadLog'[v] = loadLog[v] (+) SetToBag({l})
        /\ \A w \in Views \ {v} : loadNet'[w] = loadNet[w] /\ loadLog'[w] = loadLog[w]
    BY <1>1, <2>1
  <2> QED
    BY <1>1, <1>2, <1>3, <2>1, <2>4, <2>5, <2>6
<1> QED
  BY <1>4, <1>5

\* The normal case keeps the types.
LEMMA TypeOrder ==
  ASSUME TypeOK, NEW n \in Node, Order(n)
  PROVE  TypeOK'
<1>types. /\ isActive \in [Node -> BOOLEAN]
          /\ crashed \in [Node -> {"no", "nil", "unlock", "index"}]
          /\ view \in [Node -> Views]
          /\ globalSequence \in [Node -> 0 .. MaxSeq]
          /\ spawned \in [Node -> SUBSET Tx]
          /\ proposed \subseteq Proposal
          /\ logs \in [Node -> [SeqNums -> Entry]]
          /\ prepareTrackers \in [Node -> [SeqNums -> Tracker]]
          /\ commitTrackers \in [Node -> [SeqNums -> Tracker]]
          /\ executed \in [Node -> Seq(Tx)]
          /\ processPool \in [Node -> SUBSET Nat]
          /\ prePrepareNet \subseteq PrePrepareMsg
          /\ prepareNet \in [Node -> [SeqNums -> Nat]]
          /\ collectedNet \subseteq CollectedMsg
          /\ commitNet \in [Node -> [SeqNums -> Nat]]
  BY DEF TypeOK, AdminTypes, LeaderTypes, EntryTypes, TimerTypes, OrderNetTypes
<1>1. ASSUME NEW t \in Tx, SendPreprepare(n, t) PROVE TypeOK'
  <2>1. globalSequence[n] + 1 \in SeqNums /\ globalSequence[n] + 1 \in 0 .. MaxSeq
    BY <1>1, <1>types, BoundAssumption DEF SendPreprepare, SeqNums
  <2>2. PICK s \in SeqNums : s = globalSequence[n] + 1 /\ s \in 0 .. MaxSeq /\ s \in Nat
    BY <2>1 DEF SeqNums
  <2>3. globalSequence' \in [Node -> 0 .. MaxSeq]
    BY <1>1, <1>types, <2>1 DEF SendPreprepare
  <2>4. spawned' \in [Node -> SUBSET Tx]
    BY <1>1, <1>types DEF SendPreprepare
  <2>5. logs' \in [Node -> [SeqNums -> Entry]]
    <3>1. logs' = [logs EXCEPT ![n][s] =
                [NoEntry EXCEPT !.exists = TRUE, !.tx = t, !.digest = t,
                                !.signer = n]]
      BY <1>1, <2>2 DEF SendPreprepare
    <3>2. [NoEntry EXCEPT !.exists = TRUE, !.tx = t, !.digest = t,
                          !.signer = n] \in Entry
      BY DEF NoEntry, Entry
    <3> QED
      BY <1>types, <3>1, <3>2
  <2>6. processPool' \in [Node -> SUBSET Nat]
    <3>1. TxId[t] \in Nat
      BY StartAssumption
    <3> QED
      BY <1>1, <1>types, <3>1 DEF SendPreprepare
  <2>7. view[n] \in Nat
    BY <1>types, Ranges
  <2>8. prePrepareNet' \subseteq PrePrepareMsg
    <3>1. prePrepareNet' = prePrepareNet \cup
            {[to |-> m, from |-> n, view |-> view[n], seq |-> s, tx |-> t] :
               m \in Hearing(Node \ {n})}
      BY <1>1, <2>2 DEF SendPreprepare
    <3> QED
      BY <1>types, <2>7, <3>1 DEF PrePrepareMsg, Hearing
  <2>9. proposed' \subseteq Proposal
    <3>1. proposed' = proposed \cup
            {[view |-> view[n], seq |-> s, tx |-> t, from |-> n]}
      BY <1>1, <2>2 DEF SendPreprepare
    <3> QED
      BY <1>types, <2>7, <3>1 DEF Proposal
  <2>10. UNCHANGED <<adminVars, viewVars, trackerVars, executed, processNotify,
                     blocked, clockVars, changeVars, prepareNet, collectedNet,
                     commitNet, changeNet>>
    BY <1>1 DEF SendPreprepare
  <2> QED
    BY <2>3, <2>4, <2>5, <2>6, <2>8, <2>9, <2>10
    DEF TypeOK, AdminTypes, LeaderTypes, EntryTypes, TimerTypes, ChangeTypes,
        OrderNetTypes, ChangeNetTypes
<1>2. ASSUME NEW m \in prePrepareNet, m.to = n, PrePrepare(m) PROVE TypeOK'
  <2>1. m \in PrePrepareMsg
    BY <1>types
  <2>2. m.seq \in SeqNums /\ m.tx \in Tx /\ m.from \in Node
    BY <2>1 DEF PrePrepareMsg
  <2>3. logs' \in [Node -> [SeqNums -> Entry]]
    <3>1. logs' = [logs EXCEPT ![n][m.seq] =
                [Signed(@, m.from) EXCEPT !.tx = m.tx, !.digest = m.tx]]
      BY <1>2 DEF PrePrepare
    <3>2. logs[n][m.seq] \in Entry
      BY <1>types, <2>2
    <3>3. [Signed(logs[n][m.seq], m.from) EXCEPT !.tx = m.tx, !.digest = m.tx]
            \in Entry
      BY <2>2, <3>2, EntriesTyped
    <3> QED
      BY <1>types, <2>2, <3>1, <3>3
  <2>4. /\ processPool' \in [Node -> SUBSET Nat]
        /\ processNotify' \in [Node -> 0 .. NotifyCap]
        /\ blocked' \in [Node -> 0 .. MaxSeq]
        /\ prepareNet' \in [Node -> [SeqNums -> Nat]]
    BY <1>2, <2>2, WatchTypes DEF PrePrepare
  <2>5. prePrepareNet' \subseteq PrePrepareMsg
    BY <1>2, <1>types DEF PrePrepare
  <2>6. UNCHANGED <<adminVars, viewVars, leaderVars, trackerVars, executed,
                    clockVars, changeVars, collectedNet, commitNet, changeNet>>
    BY <1>2 DEF PrePrepare
  <2> QED
    BY <2>3, <2>4, <2>5, <2>6
    DEF TypeOK, AdminTypes, LeaderTypes, EntryTypes, TimerTypes, ChangeTypes,
        OrderNetTypes, ChangeNetTypes
<1>3. ASSUME NEW m \in prePrepareNet, RejectPrePrepare(m) PROVE TypeOK'
  <2>1. prePrepareNet' \subseteq PrePrepareMsg
    BY <1>3, <1>types DEF RejectPrePrepare
  <2>2. UNCHANGED <<adminVars, viewVars, leaderVars, entryVars, timerVars,
                    changeVars, prepareNet, collectedNet, commitNet, changeNet>>
    BY <1>3 DEF RejectPrePrepare
  <2> QED
    BY <2>1, <2>2
    DEF TypeOK, AdminTypes, LeaderTypes, EntryTypes, TimerTypes, ChangeTypes,
        OrderNetTypes, ChangeNetTypes
<1>4. ASSUME NEW c \in collectedNet, c.to = n, CollectedPrepare(c) PROVE TypeOK'
  <2>1. c \in CollectedMsg
    BY <1>types
  <2>2. c.seq \in SeqNums /\ c.size \in Nat
    BY <2>1 DEF CollectedMsg
  <2>3. logs[n][c.seq] \in Entry
    BY <1>types, <2>2
  <2>4. PICK q \in Nat : q = logs[n][c.seq].prepares + c.size
    BY <2>2, <2>3 DEF Entry
  <2>5. /\ [logs[n][c.seq] EXCEPT !.exists = TRUE, !.isCommitted = TRUE,
                                  !.prepares = q] \in Entry
        /\ [logs[n][c.seq] EXCEPT !.exists = TRUE] \in Entry
    BY <2>3 DEF Entry
  <2>6. Collected(logs[n][c.seq], c.size) \in Entry
    BY <2>4, <2>5 DEF Collected
  <2>7. logs' \in [Node -> [SeqNums -> Entry]]
    <3>1. PICK e \in Entry : e = Collected(logs[n][c.seq], c.size)
      BY <2>6
    <3>2. logs' = logs \/ logs' = [logs EXCEPT ![n][c.seq] = e]
      BY <1>4, <3>1 DEF CollectedPrepare
    <3>3. [logs EXCEPT ![n][c.seq] = e] \in [Node -> [SeqNums -> Entry]]
      BY <1>types, <2>2
    <3> QED
      BY <1>types, <3>2, <3>3
  <2>8. commitNet' \in [Node -> [SeqNums -> Nat]]
    <3>1. Sent(commitNet, Node \ {n}, c.seq) \in [Node -> [SeqNums -> Nat]]
      BY <1>types, <2>2, SentTypes
    <3>2. commitNet' = commitNet \/ commitNet' = Sent(commitNet, Node \ {n}, c.seq)
      BY <1>4 DEF CollectedPrepare
    <3> QED
      BY <1>types, <3>1, <3>2
  <2>9. collectedNet' \subseteq CollectedMsg
    BY <1>4, <1>types DEF CollectedPrepare
  <2>10. UNCHANGED <<adminVars, viewVars, leaderVars, trackerVars, executed,
                     timerVars, changeVars, prePrepareNet, prepareNet, changeNet>>
    BY <1>4 DEF CollectedPrepare
  <2> QED
    BY <2>7, <2>8, <2>9, <2>10
    DEF TypeOK, AdminTypes, LeaderTypes, EntryTypes, TimerTypes, ChangeTypes,
        OrderNetTypes, ChangeNetTypes
<1>5. ASSUME NEW s \in SeqNums, Prepare(n, s) PROVE TypeOK'
  <2>1. logs[n][s] \in Entry /\ prepareTrackers[n][s] \in Tracker
    BY <1>types
  <2>2. prepareNet' \in [Node -> [SeqNums -> Nat]]
    BY <1>5, <1>types, ReceivedTypes DEF Prepare
  <2>3. prepareTrackers' \in [Node -> [SeqNums -> Tracker]]
    BY <1>5, <1>types, <2>1, CountedTypes DEF Prepare
  <2>4. logs' \in [Node -> [SeqNums -> Entry]]
    <3>1. PICK q \in Nat : q = logs[n][s].prepares + 1
      BY <2>1 DEF Entry
    <3>2. [logs[n][s] EXCEPT !.exists = TRUE, !.prepares = q] \in Entry
      BY <2>1 DEF Entry
    <3>3. logs' = [logs EXCEPT ![n][s] =
                     [@ EXCEPT !.exists = TRUE, !.prepares = q]]
      BY <1>5, <1>types, <2>1, <3>1 DEF Prepare, Entry
    <3> QED
      BY <1>types, <3>2, <3>3
  <2>5. UNCHANGED <<adminVars, viewVars, leaderVars, commitTrackers, executed,
                    timerVars, changeVars, prePrepareNet, collectedNet,
                    commitNet, changeNet>>
    BY <1>5 DEF Prepare
  <2> QED
    BY <2>2, <2>3, <2>4, <2>5
    DEF TypeOK, AdminTypes, LeaderTypes, EntryTypes, TimerTypes, ChangeTypes,
        OrderNetTypes, ChangeNetTypes
<1>6. ASSUME NEW s \in SeqNums, MonitorPrepare(n, s) PROVE TypeOK'
  <2>1. logs[n][s].prepares \in Nat /\ prepareTrackers[n][s] \in Tracker
    BY <1>types DEF Entry
  <2>2. prepareTrackers' \in [Node -> [SeqNums -> Tracker]]
    BY <1>6, <1>types, <2>1, CountedTypes DEF MonitorPrepare
  <2>3. crashed' \in [Node -> {"no", "nil", "unlock", "index"}]
    BY <1>6, <1>types DEF MonitorPrepare
  <2>4. collectedNet' \subseteq CollectedMsg
    <3>1. {[to |-> m, seq |-> s, size |-> logs[n][s].prepares] : m \in Hearing(Node)}
            \subseteq CollectedMsg
      BY <2>1 DEF CollectedMsg, Hearing
    <3> QED
      BY <1>6, <1>types, <3>1 DEF MonitorPrepare
  <2>5. UNCHANGED <<isActive, viewVars, leaderVars, logs, commitTrackers,
                    executed, timerVars, changeVars, prePrepareNet, prepareNet,
                    commitNet, changeNet>>
    BY <1>6 DEF MonitorPrepare
  <2> QED
    BY <2>2, <2>3, <2>4, <2>5
    DEF TypeOK, AdminTypes, LeaderTypes, EntryTypes, TimerTypes, ChangeTypes,
        OrderNetTypes, ChangeNetTypes
<1>7. ASSUME NEW s \in SeqNums, Commit(n, s) PROVE TypeOK'
  <2>1. logs[n][s] \in Entry /\ commitTrackers[n][s] \in Tracker
    BY <1>types
  <2>2. commitNet' \in [Node -> [SeqNums -> Nat]]
    BY <1>7, <1>types, ReceivedTypes DEF Commit
  <2>3. commitTrackers' \in [Node -> [SeqNums -> Tracker]]
    BY <1>7, <1>types, <2>1, CountedTypes DEF Commit
  <2>4. logs' \in [Node -> [SeqNums -> Entry]]
    <3>1. [logs[n][s] EXCEPT !.exists = TRUE] \in Entry
      BY <2>1 DEF Entry
    <3> QED
      BY <1>7, <1>types, <3>1 DEF Commit
  <2>5. UNCHANGED <<adminVars, viewVars, leaderVars, prepareTrackers, executed,
                    timerVars, changeVars, prePrepareNet, prepareNet,
                    collectedNet, changeNet>>
    BY <1>7 DEF Commit
  <2> QED
    BY <2>2, <2>3, <2>4, <2>5
    DEF TypeOK, AdminTypes, LeaderTypes, EntryTypes, TimerTypes, ChangeTypes,
        OrderNetTypes, ChangeNetTypes
<1>8. ASSUME NEW s \in SeqNums, MonitorCommit(n, s) PROVE TypeOK'
  <2>1. logs[n][s] \in Entry /\ commitTrackers[n][s] \in Tracker
    BY <1>types
  <2>2. commitTrackers' \in [Node -> [SeqNums -> Tracker]]
    BY <1>8, <1>types, <2>1, CountedTypes DEF MonitorCommit
  <2>3. logs' \in [Node -> [SeqNums -> Entry]]
    <3>1. [logs[n][s] EXCEPT !.isCommitted = TRUE] \in Entry
      BY <2>1 DEF Entry
    <3> QED
      BY <1>8, <1>types, <3>1 DEF MonitorCommit
  <2>4. UNCHANGED <<adminVars, viewVars, leaderVars, prepareTrackers, executed,
                    timerVars, changeVars, orderNet, changeNet>>
    BY <1>8 DEF MonitorCommit
  <2> QED
    BY <2>2, <2>3, <2>4
    DEF TypeOK, AdminTypes, LeaderTypes, EntryTypes, TimerTypes, ChangeTypes,
        OrderNetTypes, ChangeNetTypes
<1>9. ASSUME Execute(n) PROVE TypeOK'
  <2>1. NextSeq(n) \in SeqNums
    BY <1>9 DEF Execute, NextCommitted
  <2>2. logs[n][NextSeq(n)].tx \in Tx \cup {NoTx}
    BY <1>types, <2>1 DEF Entry
  <2>3. executed' \in [Node -> Seq(Tx)]
    <3>1. \/ UNCHANGED executed
          \/ /\ logs[n][NextSeq(n)].tx # NoTx
             /\ executed' = [executed EXCEPT ![n] =
                               Append(@, logs[n][NextSeq(n)].tx)]
      BY <1>9 DEF Execute
    <3>2. logs[n][NextSeq(n)].tx # NoTx
            => Append(executed[n], logs[n][NextSeq(n)].tx) \in Seq(Tx)
      BY <1>types, <2>2
    <3> QED
      BY <1>types, <3>1, <3>2
  <2>4. processPool' \in [Node -> SUBSET Nat]
    <3>1. \/ UNCHANGED processPool
          \/ processPool' = [processPool EXCEPT ![n] = @ \ {NextSeq(n)}]
      BY <1>9 DEF Execute
    <3> QED
      BY <1>types, <3>1
  <2>5. crashed' \in [Node -> {"no", "nil", "unlock", "index"}]
    BY <1>9, <1>types DEF Execute, Crash
  <2>6. UNCHANGED <<isActive, viewVars, leaderVars, logs, trackerVars,
                    processNotify, blocked, clockVars, changeVars, orderNet,
                    changeNet>>
    BY <1>9 DEF Execute
  <2> QED
    BY <2>3, <2>4, <2>5, <2>6
    DEF TypeOK, AdminTypes, LeaderTypes, EntryTypes, TimerTypes, ChangeTypes,
        OrderNetTypes, ChangeNetTypes
<1> QED
  BY <1>1, <1>2, <1>3, <1>4, <1>5, <1>6, <1>7, <1>8, <1>9 DEF Order

\* timerThread keeps the types.
LEMMA TypeTime ==
  ASSUME TypeOK, AllGenuine, NEW n \in Node, Time(n)
  PROVE  TypeOK'
<1>types. /\ isViewChangeProcess \in [Node -> BOOLEAN]
          /\ processPool \in [Node -> SUBSET Nat]
          /\ processNotify \in [Node -> 0 .. NotifyCap]
          /\ blocked \in [Node -> 0 .. MaxSeq]
          /\ thread \in [Node -> [pc : {"idle", "arming", "waiting"}, seq : Nat]]
          /\ timer \in [Node -> {"nil", "thread", "other"}]
          /\ due \subseteq Node /\ timedOut \subseteq Node
          /\ crashed \in [Node -> {"no", "nil", "unlock", "index"}]
          /\ prepareNet \in [Node -> [SeqNums -> Nat]]
          /\ requestNet \in [Node -> [Views -> Nat]]
          /\ asked \subseteq Node
          /\ DOMAIN loadNet = Views
          /\ \A v \in Views : Loads(loadNet[v])
  BY DEF TypeOK, AdminTypes, TimerTypes, ChangeTypes, OrderNetTypes, ChangeNetTypes
<1>1. ASSUME TimerThreadWakes(n) PROVE TypeOK'
  <2>1. /\ thread' \in [Node -> [pc : {"idle", "arming", "waiting"}, seq : Nat]]
        /\ timer' \in [Node -> {"nil", "thread", "other"}]
    BY <1>1, LooksTypes DEF TimerThreadWakes
  <2>2. processNotify[n] > 0 /\ processNotify[n] \in 0 .. NotifyCap
    BY <1>1, <1>types DEF TimerThreadWakes
  <2>3. processNotify' \in [Node -> 0 .. NotifyCap]
    <3>1. processNotify[n] - 1 \in 0 .. NotifyCap
      BY <2>2, BoundAssumption
    <3> QED
      BY <1>1, <1>types, <3>1 DEF TimerThreadWakes
  <2>4. blocked' \in [Node -> 0 .. MaxSeq]
    <3>1. 0 \in 0 .. MaxSeq
      BY BoundAssumption
    <3> QED
      BY <1>1, <1>types, <3>1 DEF TimerThreadWakes
  <2>5. prepareNet' \in [Node -> [SeqNums -> Nat]]
    <3>1. CASE blocked[n] = 0
      BY <1>1, <1>types, <3>1 DEF TimerThreadWakes
    <3>2. CASE blocked[n] # 0
      <4>1. blocked[n] \in SeqNums
        BY <1>types, <3>2, BoundAssumption DEF SeqNums
      <4>2. Sent(prepareNet, {Collector(view[n])}, blocked[n])
              \in [Node -> [SeqNums -> Nat]]
        BY <1>types, <4>1, SentTypes
      <4>3. \/ prepareNet' = prepareNet
            \/ prepareNet' = Sent(prepareNet, {Collector(view[n])}, blocked[n])
        BY <1>1, <3>2 DEF TimerThreadWakes
      <4> QED
        BY <1>types, <4>2, <4>3
    <3> QED
      BY <3>1, <3>2
  <2>6. UNCHANGED <<adminVars, viewVars, leaderVars, entryVars, processPool, due,
                    early, changeVars, prePrepareNet, collectedNet, commitNet,
                    changeNet>>
    BY <1>1 DEF TimerThreadWakes
  <2> QED
    BY <2>1, <2>3, <2>4, <2>5, <2>6
    DEF TypeOK, AdminTypes, LeaderTypes, EntryTypes, TimerTypes, ChangeTypes,
        OrderNetTypes, ChangeNetTypes
<1>2. ASSUME TimerArms(n) PROVE TypeOK'
  <2>1. /\ thread' \in [Node -> [pc : {"idle", "arming", "waiting"}, seq : Nat]]
        /\ timer' \in [Node -> {"nil", "thread", "other"}]
    BY <1>2, <1>types DEF TimerArms
  <2>2. UNCHANGED <<adminVars, viewVars, leaderVars, entryVars, poolVars, due,
                    early, changeVars, orderNet, changeNet>>
    BY <1>2 DEF TimerArms
  <2> QED
    BY <2>1, <2>2
    DEF TypeOK, AdminTypes, LeaderTypes, EntryTypes, TimerTypes, ChangeTypes,
        OrderNetTypes, ChangeNetTypes
<1>3. ASSUME TimerExpires(n) PROVE TypeOK'
  <2>1. /\ due' \subseteq Node
        /\ processPool' \in [Node -> SUBSET Nat]
        /\ thread' \in [Node -> [pc : {"idle", "arming", "waiting"}, seq : Nat]]
    <3>1. /\ due' = due \ {n}
          /\ processPool' = [processPool EXCEPT ![n] = {}]
          /\ thread' = [thread EXCEPT ![n].pc = "idle"]
      BY <1>3 DEF TimerExpires
    <3>2. processPool' \in [Node -> SUBSET Nat]
      BY <1>types, <3>1
    <3>3. thread' \in [Node -> [pc : {"idle", "arming", "waiting"}, seq : Nat]]
      BY <1>types, <3>1
    <3> QED
      BY <1>types, <3>1, <3>2, <3>3
  <2>2. /\ isViewChangeProcess' \in [Node -> BOOLEAN]
        /\ timer' \in [Node -> {"nil", "thread", "other"}]
        /\ timedOut' \subseteq Node
    BY <1>3, <1>types DEF TimerExpires
  <2>3. UNCHANGED <<isActive, view, isLeader, leaderVars, entryVars,
                    processNotify, blocked, early, countVars, loadLog, goVars,
                    newViewVars, orderNet, newViewNet>>
    BY <1>3 DEF TimerExpires
  <2>4. /\ crashed' \in [Node -> {"no", "nil", "unlock", "index"}]
        /\ requestNet' \in [Node -> [Views -> Nat]]
        /\ asked' \subseteq Node
        /\ DOMAIN loadNet' = Views
        /\ \A v \in Views : Loads(loadNet'[v])
    <3>1. CASE isViewChangeProcess[n]
      BY <1>3, <1>types, <3>1 DEF TimerExpires
    <3>2. CASE ~isViewChangeProcess[n]
      BY <1>3, <3>2, InitiateTypes DEF TimerExpires
    <3> QED
      BY <3>1, <3>2
  <2> QED
    BY <2>1, <2>2, <2>3, <2>4
    DEF TypeOK, AdminTypes, LeaderTypes, EntryTypes, TimerTypes, ChangeTypes,
        OrderNetTypes, ChangeNetTypes
<1>4. ASSUME TimerGoesOn(n) PROVE TypeOK'
  <2>1. /\ thread' \in [Node -> [pc : {"idle", "arming", "waiting"}, seq : Nat]]
        /\ timer' \in [Node -> {"nil", "thread", "other"}]
    BY <1>4, LooksTypes DEF TimerGoesOn
  <2>2. due' \subseteq Node
    BY <1>4, <1>types DEF TimerGoesOn
  <2>3. UNCHANGED <<adminVars, viewVars, leaderVars, entryVars, poolVars, early,
                    changeVars, orderNet, changeNet>>
    BY <1>4 DEF TimerGoesOn
  <2> QED
    BY <2>1, <2>2, <2>3
    DEF TypeOK, AdminTypes, LeaderTypes, EntryTypes, TimerTypes, ChangeTypes,
        OrderNetTypes, ChangeNetTypes
<1> QED
  BY <1>1, <1>2, <1>3, <1>4 DEF Time

\* Requests and new views keep the types.
LEMMA TypeChange ==
  ASSUME TypeOK, AllGenuine, NEW n \in Node, Change(n)
  PROVE  TypeOK'
<1>types. /\ view \in [Node -> Views]
          /\ isLeader \in [Node -> BOOLEAN]
          /\ isViewChangeProcess \in [Node -> BOOLEAN]
          /\ logs \in [Node -> [SeqNums -> Entry]]
          /\ crashed \in [Node -> {"no", "nil", "unlock", "index"}]
          /\ processPool \in [Node -> SUBSET Nat]
          /\ timer \in [Node -> {"nil", "thread", "other"}]
          /\ due \subseteq Node
          /\ viewChangeLog \in [Node -> SUBSET Views]
          /\ viewChangeCount \in [Node -> Nat]
          /\ newViewMessages \in [Node -> SUBSET Views]
          /\ initiating \in [Node -> Nat]
          /\ startingTimer \in [Node -> Nat]
          /\ sendingNewView \in [Node -> [Views -> Nat]]
          /\ DOMAIN accepting = Node
          /\ \A k \in Node : DOMAIN accepting[k] = Views
          /\ \A k \in Node, v \in Views : Loads(accepting[k][v])
          /\ \A v \in Views : Loads(loadLog[v])
          /\ \A m \in newViewNet :
               m.to \in Node /\ m.view \in Views /\ Loads(m.loads)
  BY DEF TypeOK, AdminTypes, EntryTypes, TimerTypes, ChangeTypes, ChangeNetTypes
<1>1. ASSUME StartInitiate(n) PROVE TypeOK'
  <2>1. initiating' \in [Node -> Nat]
    BY <1>1, <1>types DEF StartInitiate
  <2>2. /\ crashed' \in [Node -> {"no", "nil", "unlock", "index"}]
        /\ requestNet' \in [Node -> [Views -> Nat]]
        /\ asked' \subseteq Node
        /\ DOMAIN loadNet' = Views
        /\ \A v \in Views : Loads(loadNet'[v])
    BY <1>1, InitiateTypes DEF StartInitiate
  <2>3. UNCHANGED <<isActive, viewVars, leaderVars, entryVars, timerVars,
                    countVars, loadLog, startingTimer, sendingNewView,
                    newViewVars, timedOut, orderNet, newViewNet>>
    BY <1>1 DEF StartInitiate
  <2> QED
    BY <2>1, <2>2, <2>3
    DEF TypeOK, AdminTypes, LeaderTypes, EntryTypes, TimerTypes, ChangeTypes,
        OrderNetTypes, ChangeNetTypes
<1>2. ASSUME StartTimer(n) PROVE TypeOK'
  <2>1. startingTimer' \in [Node -> Nat]
    BY <1>2, <1>types DEF StartTimer
  <2>2. timer' \in [Node -> {"nil", "thread", "other"}] /\ due' \subseteq Node
    BY <1>2, <1>types DEF StartTimer, OtherTimer
  <2>3. UNCHANGED <<adminVars, viewVars, leaderVars, entryVars, poolVars, thread,
                    early, countVars, loadLog, initiating, sendingNewView,
                    newViewVars, historyVars, orderNet, changeNet>>
    BY <1>2 DEF StartTimer
  <2> QED
    BY <2>1, <2>2, <2>3
    DEF TypeOK, AdminTypes, LeaderTypes, EntryTypes, TimerTypes, ChangeTypes,
        OrderNetTypes, ChangeNetTypes
<1>3. ASSUME NEW v \in Views, CountWith(n, v) \in Nat,
             viewChangeLog' = [viewChangeLog EXCEPT ![n] = @ \cup {v}],
             \/ viewChangeCount' = [viewChangeCount EXCEPT ![n] = CountWith(n, v)]
             \/ viewChangeCount' = [viewChangeCount EXCEPT ![n] = 0]
      PROVE  /\ viewChangeLog' \in [Node -> SUBSET Views]
             /\ viewChangeCount' \in [Node -> Nat]
  <2>1. viewChangeLog' \in [Node -> SUBSET Views]
    BY <1>3, <1>types
  <2>2. viewChangeCount' \in [Node -> Nat]
    <3>1. PICK q \in Nat : viewChangeCount' = [viewChangeCount EXCEPT ![n] = q]
      BY <1>3
    <3> QED
      BY <1>types, <3>1
  <2> QED
    BY <2>1, <2>2
<1>4. \A v \in Views : CountWith(n, v) \in Nat
  BY <1>types DEF CountWith
<1>5. ASSUME NEW v \in Views, RequestMoves(n, v) PROVE TypeOK'
  <2>1. /\ viewChangeLog' \in [Node -> SUBSET Views]
        /\ viewChangeCount' \in [Node -> Nat]
    BY <1>3, <1>4, <1>5 DEF RequestMoves
  <2>2. /\ view' \in [Node -> Views]
        /\ isLeader' \in [Node -> BOOLEAN]
        /\ isViewChangeProcess' \in [Node -> BOOLEAN]
        /\ startingTimer' \in [Node -> Nat]
        /\ sendingNewView' \in [Node -> [Views -> Nat]]
    BY <1>5, <1>types DEF RequestMoves
  <2>3. /\ requestNet' \in [Node -> [Views -> Nat]]
        /\ DOMAIN loadNet' = Views /\ DOMAIN loadLog' = Views
        /\ \A w \in Views : Loads(loadNet'[w]) /\ Loads(loadLog'[w])
    BY <1>5, ArrivesTypes DEF RequestMoves
  <2>4. UNCHANGED <<adminVars, leaderVars, entryVars, timerVars, initiating,
                    newViewVars, historyVars, orderNet, newViewNet>>
    BY <1>5 DEF RequestMoves
  <2> QED
    BY <2>1, <2>2, <2>3, <2>4
    DEF TypeOK, AdminTypes, LeaderTypes, EntryTypes, TimerTypes, ChangeTypes,
        OrderNetTypes, ChangeNetTypes
<1>6. ASSUME NEW v \in Views, RequestJoins(n, v) PROVE TypeOK'
  <2>1. /\ viewChangeLog' \in [Node -> SUBSET Views]
        /\ viewChangeCount' \in [Node -> Nat]
    BY <1>3, <1>4, <1>6 DEF RequestJoins
  <2>2. /\ isViewChangeProcess' \in [Node -> BOOLEAN]
        /\ initiating' \in [Node -> Nat]
    BY <1>6, <1>types DEF RequestJoins
  <2>3. /\ requestNet' \in [Node -> [Views -> Nat]]
        /\ DOMAIN loadNet' = Views /\ DOMAIN loadLog' = Views
        /\ \A w \in Views : Loads(loadNet'[w]) /\ Loads(loadLog'[w])
    BY <1>6, ArrivesTypes DEF RequestJoins
  <2>4. UNCHANGED <<adminVars, view, isLeader, leaderVars, entryVars, timerVars,
                    startingTimer, sendingNewView, newViewVars, historyVars,
                    orderNet, newViewNet>>
    BY <1>6 DEF RequestJoins
  <2> QED
    BY <2>1, <2>2, <2>3, <2>4
    DEF TypeOK, AdminTypes, LeaderTypes, EntryTypes, TimerTypes, ChangeTypes,
        OrderNetTypes, ChangeNetTypes
<1>7. ASSUME NEW v \in Views, RequestNoted(n, v) PROVE TypeOK'
  <2>1. /\ viewChangeLog' \in [Node -> SUBSET Views]
        /\ viewChangeCount' \in [Node -> Nat]
    BY <1>3, <1>4, <1>7 DEF RequestNoted
  <2>2. /\ requestNet' \in [Node -> [Views -> Nat]]
        /\ DOMAIN loadNet' = Views /\ DOMAIN loadLog' = Views
        /\ \A w \in Views : Loads(loadNet'[w]) /\ Loads(loadLog'[w])
    BY <1>7, ArrivesTypes DEF RequestNoted
  <2>3. UNCHANGED <<adminVars, viewVars, leaderVars, entryVars, timerVars,
                    goVars, newViewVars, historyVars, orderNet, newViewNet>>
    BY <1>7 DEF RequestNoted
  <2> QED
    BY <2>1, <2>2, <2>3
    DEF TypeOK, AdminTypes, LeaderTypes, EntryTypes, TimerTypes, ChangeTypes,
        OrderNetTypes, ChangeNetTypes
<1>8. ASSUME NEW v \in Views, SendNewView(n, v) PROVE TypeOK'
  <2>1. /\ sendingNewView' \in [Node -> [Views -> Nat]]
        /\ isLeader' \in [Node -> BOOLEAN]
    BY <1>8, <1>types DEF SendNewView
  <2>2. \A m \in newViewNet' : m.to \in Node /\ m.view \in Views /\ Loads(m.loads)
    BY <1>8, <1>types DEF SendNewView, Hearing
  <2>3. UNCHANGED <<adminVars, view, isViewChangeProcess, leaderVars, entryVars,
                    timerVars, countVars, loadLog, initiating, startingTimer,
                    newViewVars, historyVars, orderNet, loadVars>>
    BY <1>8 DEF SendNewView
  <2> QED
    BY <2>1, <2>2, <2>3
    DEF TypeOK, AdminTypes, LeaderTypes, EntryTypes, TimerTypes, ChangeTypes,
        OrderNetTypes, ChangeNetTypes
<1>9. ASSUME NEW m \in newViewNet, m.to = n, NewView(m) PROVE TypeOK'
  <2>1. m.view \in Views /\ Loads(m.loads)
    BY <1>types
  <2>2. {l.seq : l \in BagToSet(m.loads)} \subseteq Nat
    BY <2>1, Ranges DEF Loads, Load
  <2>3. /\ isViewChangeProcess' \in [Node -> BOOLEAN]
        /\ newViewMessages' \in [Node -> SUBSET Views]
        /\ newViewNet' \subseteq newViewNet
    BY <1>9, <1>types, <2>1 DEF NewView
  <2>4. processPool' \in [Node -> SUBSET Nat]
    BY <1>9, <1>types, <2>2 DEF NewView
  <2>5. timer' \in [Node -> {"nil", "thread", "other"}] /\ due' \subseteq Node
    BY <1>9, <1>types DEF NewView, OtherTimer
  <2>6. /\ DOMAIN accepting' = Node
        /\ \A k \in Node : DOMAIN accepting'[k] = Views
        /\ \A k \in Node, v \in Views : Loads(accepting'[k][v])
    <3>1. accepting' = [accepting EXCEPT ![n][m.view] = @ (+) m.loads]
      BY <1>9 DEF NewView
    <3>2. Loads(accepting[n][m.view] (+) m.loads)
      BY <1>types, <2>1, BagsAdded
    <3>3. \A k \in Node, v \in Views :
            \/ accepting'[k][v] = accepting[k][v]
            \/ accepting'[k][v] = accepting[n][m.view] (+) m.loads
      BY <1>types, <2>1, <3>1
    <3> QED
      BY <1>types, <2>1, <3>1, <3>2, <3>3
  <2>7. UNCHANGED <<adminVars, view, isLeader, leaderVars, entryVars,
                    processNotify, blocked, thread, early, countVars, loadLog,
                    goVars, historyVars, orderNet, loadVars>>
    BY <1>9 DEF NewView
  <2> QED
    BY <1>types, <2>3, <2>4, <2>5, <2>6, <2>7
    DEF TypeOK, AdminTypes, LeaderTypes, EntryTypes, TimerTypes, ChangeTypes,
        OrderNetTypes, ChangeNetTypes
<1>10. ASSUME NEW v \in Views, NEW l \in BagToSet(accepting[n][v]),
              AcceptNewViewPrePrepare(n, v, l)
       PROVE  TypeOK'
  <2>1. l \in Load
    BY <1>types DEF Loads
  <2>2. l.seq \in SeqNums /\ l.tx \in Tx
    BY <2>1 DEF Load
  <2>3. viewChangeCount' \in [Node -> Nat]
    BY <1>10, <1>types DEF AcceptNewViewPrePrepare
  <2>4. crashed' \in [Node -> {"no", "nil", "unlock", "index"}]
    BY <1>10, <1>types DEF AcceptNewViewPrePrepare
  <2>5. /\ DOMAIN accepting' = Node
        /\ \A k \in Node : DOMAIN accepting'[k] = Views
        /\ \A k \in Node, w \in Views : Loads(accepting'[k][w])
    <3>1. accepting' = [accepting EXCEPT ![n][v] = @ (-) SetToBag({l})]
      BY <1>10 DEF AcceptNewViewPrePrepare
    <3>2. Loads(SetToBag({l}))
      BY <2>1, BagsOfLoads
    <3>3. Loads(accepting[n][v] (-) SetToBag({l}))
      BY <1>types, <3>2, BagsTaken
    <3>4. \A k \in Node, w \in Views :
            \/ accepting'[k][w] = accepting[k][w]
            \/ accepting'[k][w] = accepting[n][v] (-) SetToBag({l})
      BY <1>types, <3>1
    <3> QED
      BY <1>types, <3>1, <3>3, <3>4
  <2>6. /\ logs' \in [Node -> [SeqNums -> Entry]]
        /\ processPool' \in [Node -> SUBSET Nat]
        /\ processNotify' \in [Node -> 0 .. NotifyCap]
        /\ blocked' \in [Node -> 0 .. MaxSeq]
        /\ prepareNet' \in [Node -> [SeqNums -> Nat]]
    <3>1. CASE AcceptsAnew(n, v, l)
      <4>1. logs[n][l.seq] \in Entry /\ Leader(v) \in Node
        BY <1>types, <2>2, LeaderIsNode, Ranges
      <4>2. [Signed(logs[n][l.seq], Leader(v)) EXCEPT !.digest = l.tx] \in Entry
        BY <2>2, <4>1, EntriesTyped
      <4>3. logs' \in [Node -> [SeqNums -> Entry]]
        <5>1. PICK e \in Entry :
                e = [Signed(logs[n][l.seq], Leader(v)) EXCEPT !.digest = l.tx]
          BY <4>2
        <5>2. logs' = [logs EXCEPT ![n][l.seq] = e]
          BY <1>10, <3>1, <5>1 DEF AcceptNewViewPrePrepare
        <5> QED
          BY <1>types, <2>2, <5>2
      <4>4. Watch(n, l.seq)
        BY <1>10, <3>1 DEF AcceptNewViewPrePrepare
      <4> QED
        BY <2>2, <4>3, <4>4, WatchTypes
    <3>2. CASE ~AcceptsAnew(n, v, l)
      BY <1>10, <3>2
      DEF AcceptNewViewPrePrepare, TypeOK, EntryTypes, TimerTypes, OrderNetTypes
    <3> QED
      BY <3>1, <3>2
  <2>7. UNCHANGED <<isActive, viewVars, leaderVars, trackerVars, executed,
                    clockVars, viewChangeLog, loadLog, goVars, newViewMessages,
                    historyVars, prePrepareNet, collectedNet, commitNet,
                    changeNet>>
    BY <1>10 DEF AcceptNewViewPrePrepare
  <2> QED
    BY <2>3, <2>4, <2>5, <2>6, <2>7
    DEF TypeOK, AdminTypes, LeaderTypes, EntryTypes, TimerTypes, ChangeTypes,
        OrderNetTypes, ChangeNetTypes
<1> QED
  BY <1>1, <1>2, <1>5, <1>6, <1>7, <1>8, <1>9, <1>10 DEF Change

LEMMA TypeNext ==
  ASSUME TypeOK, AllGenuine, [Next]_vars
  PROVE  TypeOK'
<1>1. ASSUME NEW n \in Node, NEW t \in Tx, TakeTransaction(n, t) PROVE TypeOK'
  <2>1. spawned \in [Node -> SUBSET Tx]
    BY DEF TypeOK, LeaderTypes
  <2>2. spawned' \in [Node -> SUBSET Tx]
    BY <1>1, <2>1 DEF TakeTransaction
  <2>3. UNCHANGED <<adminVars, viewVars, globalSequence, proposed, entryVars,
                    timerVars, changeVars, orderNet, changeNet>>
    BY <1>1 DEF TakeTransaction
  <2> QED
    BY <2>2, <2>3
    DEF TypeOK, AdminTypes, LeaderTypes, EntryTypes, TimerTypes, ChangeTypes,
        OrderNetTypes, ChangeNetTypes
<1>2. ASSUME NEW n \in Node, Kill(n) PROVE TypeOK'
  <2>1. isActive' \in [Node -> BOOLEAN]
    BY <1>2 DEF Kill, TypeOK, AdminTypes
  <2>2. UNCHANGED <<crashed, viewVars, leaderVars, entryVars, timerVars,
                    changeVars, orderNet, changeNet>>
    BY <1>2 DEF Kill
  <2> QED
    BY <2>1, <2>2
    DEF TypeOK, AdminTypes, LeaderTypes, EntryTypes, TimerTypes, ChangeTypes,
        OrderNetTypes, ChangeNetTypes
<1>3. ASSUME TimePasses PROVE TypeOK'
  <2>1. due' \subseteq Node
    BY <1>3 DEF TimePasses
  <2>2. early' \in Nat
    BY <1>3 DEF TimePasses, TypeOK, TimerTypes
  <2>3. UNCHANGED <<adminVars, viewVars, leaderVars, entryVars, poolVars, thread,
                    timer, changeVars, orderNet, changeNet>>
    BY <1>3 DEF TimePasses
  <2> QED
    BY <2>1, <2>2, <2>3
    DEF TypeOK, AdminTypes, LeaderTypes, EntryTypes, TimerTypes, ChangeTypes,
        OrderNetTypes, ChangeNetTypes
<1>4. ASSUME UNCHANGED vars PROVE TypeOK'
  BY <1>4
  DEF vars, TypeOK, AdminTypes, LeaderTypes, EntryTypes, TimerTypes, ChangeTypes,
      OrderNetTypes, ChangeNetTypes
<1> QED
  BY <1>1, <1>2, <1>3, <1>4, TypeOrder, TypeTime, TypeChange DEF Next

-----------------------------------------------------------------------------
(* Who is behind a change of view.                                          *)

\* Histories only grow, and sets of replicas are finite.
LEMMA HistoryGrows ==
  ASSUME [Next]_vars
  PROVE  timedOut \subseteq timedOut' /\ asked \subseteq asked'
<1>1. ASSUME NEW n \in Node, InitiateViewChange(n)
      PROVE  asked \subseteq asked'
  BY <1>1 DEF InitiateViewChange
<1>2. ASSUME NEW n \in Node, Order(n)
      PROVE  timedOut \subseteq timedOut' /\ asked \subseteq asked'
  BY <1>2 DEF Order, SendPreprepare, PrePrepare, RejectPrePrepare,
              CollectedPrepare, Prepare, MonitorPrepare, Commit, MonitorCommit,
              Execute
<1>3. ASSUME NEW n \in Node, Time(n)
      PROVE  timedOut \subseteq timedOut' /\ asked \subseteq asked'
  <2>1. CASE TimerExpires(n)
    BY <1>1, <2>1 DEF TimerExpires
  <2> QED
    BY <1>3, <2>1 DEF Time, TimerThreadWakes, TimerArms, TimerGoesOn
<1>4. ASSUME NEW n \in Node, Change(n)
      PROVE  timedOut \subseteq timedOut' /\ asked \subseteq asked'
  <2>1. CASE StartInitiate(n)
    BY <1>1, <2>1 DEF StartInitiate
  <2> QED
    BY <1>4, <2>1 DEF Change, StartTimer, RequestMoves, RequestJoins,
                      RequestNoted, SendNewView, NewView, AcceptNewViewPrePrepare
<1>5. ASSUME \/ \E n \in Node, t \in Tx : TakeTransaction(n, t)
             \/ \E n \in Node : Kill(n)
             \/ TimePasses
             \/ UNCHANGED vars
      PROVE  timedOut \subseteq timedOut' /\ asked \subseteq asked'
  BY <1>5 DEF TakeTransaction, Kill, TimePasses, vars
<1> QED
  BY <1>2, <1>3, <1>4, <1>5 DEF Next

LEMMA Sizes ==
  ASSUME NEW S \in SUBSET Node
  PROVE  /\ Cardinality(S) \in Nat
         /\ \A T \in SUBSET S : Cardinality(T) \in Nat /\ Cardinality(T) <= Cardinality(S)
         /\ \A n \in Node \ S : Cardinality(S \cup {n}) = Cardinality(S) + 1
<1>1. IsFiniteSet(S)
  BY NodeAssumption, FS_Subset
<1>2. Cardinality(S) \in Nat
  BY <1>1, FS_CardinalityType
<1>3. ASSUME NEW T \in SUBSET S
      PROVE  Cardinality(T) \in Nat /\ Cardinality(T) <= Cardinality(S)
  BY <1>1, FS_Subset, FS_CardinalityType
<1>4. ASSUME NEW n \in Node \ S PROVE Cardinality(S \cup {n}) = Cardinality(S) + 1
  BY <1>1, <1>4, FS_AddElement
<1> QED
  BY <1>2, <1>3, <1>4

\* What a replica's first request adds.
LEMMA FirstRequest ==
  ASSUME TypeOK, Unmoved, NEW n \in Node, n \notin asked, view[n] < MaxView,
         InitiateViewChange(n), asked' \subseteq Node
  PROVE  /\ asked' \subseteq asked \cup {n}
         /\ \A m \in Node, v \in Views :
              /\ requestNet'[m][v] > 0 => v = InitView + 1
              /\ viewChangeCount[m] + requestNet'[m][v] <= Cardinality(asked')
<1>types. /\ requestNet \in [Node -> [Views -> Nat]]
          /\ viewChangeCount \in [Node -> Nat]
          /\ asked \subseteq Node
  BY DEF TypeOK, ChangeTypes, ChangeNetTypes
<1>1. view[n] = InitView
  BY DEF Unmoved
<1>2. CASE \E s \in Reported(n) : logs[n][s].signer = NoNode
  BY <1>2 DEF InitiateViewChange, Unmoved
<1>3. CASE ~(\E s \in Reported(n) : logs[n][s].signer = NoNode)
  <2>1. /\ requestNet' = Sent(requestNet, Node, InitView + 1)
        /\ asked' = asked \cup {n}
    BY <1>1, <1>3 DEF InitiateViewChange
  <2>2. Cardinality(asked') = Cardinality(asked) + 1 /\ Cardinality(asked) \in Nat
    BY <1>types, <2>1, Sizes
  <2>3. ASSUME NEW m \in Node, NEW v \in Views
        PROVE  /\ requestNet'[m][v] > 0 => v = InitView + 1
               /\ viewChangeCount[m] + requestNet'[m][v] <= Cardinality(asked')
    <3>1. /\ requestNet'[m][v] \in {requestNet[m][v], requestNet[m][v] + 1}
          /\ v # InitView + 1 => requestNet'[m][v] = requestNet[m][v]
      BY <1>types, <2>1 DEF Sent
    <3>2. /\ requestNet[m][v] > 0 => v = InitView + 1
          /\ viewChangeCount[m] + requestNet[m][v] <= Cardinality(asked)
          /\ requestNet[m][v] \in Nat /\ viewChangeCount[m] \in Nat
      BY <1>types DEF Unmoved
    <3> QED
      BY <2>2, <3>1, <3>2
  <2> QED
    BY <2>1, <2>3
<1> QED
  BY <1>2, <1>3

\* A request that is counted is one of those on their way.
LEMMA CountedRequest ==
  ASSUME TypeOK, Unmoved, NEW n \in Node, NEW v \in Views, Arrives(n, v)
  PROVE  /\ v = InitView + 1
         /\ CountWith(n, v) \in Nat /\ CountWith(n, v) <= Cardinality(asked)
         /\ \A q \in 0 .. CountWith(n, v), m \in Node, w \in Views :
              /\ requestNet'[m][w] > 0 => w = InitView + 1
              /\ [viewChangeCount EXCEPT ![n] = q][m] + requestNet'[m][w]
                   <= Cardinality(asked)
<1>types. /\ requestNet \in [Node -> [Views -> Nat]]
          /\ viewChangeCount \in [Node -> Nat]
          /\ asked \subseteq Node
  BY DEF TypeOK, ChangeTypes, ChangeNetTypes
<1>0. Cardinality(asked) \in Nat
  BY <1>types, Sizes
<1>1. requestNet[n][v] > 0 /\ requestNet' = Received(requestNet, n, v)
  BY DEF Arrives
<1>2. v = InitView + 1
  BY <1>1 DEF Unmoved
<1>3. /\ viewChangeCount[n] + requestNet[n][v] <= Cardinality(asked)
      /\ viewChangeCount[n] \in Nat /\ requestNet[n][v] \in Nat
  BY <1>types DEF Unmoved
<1>4. /\ CountWith(n, v) \in Nat /\ CountWith(n, v) <= Cardinality(asked)
      /\ CountWith(n, v) <= viewChangeCount[n] + 1
  BY <1>0, <1>1, <1>3 DEF CountWith
<1>5. ASSUME NEW q \in 0 .. CountWith(n, v), NEW m \in Node, NEW w \in Views
      PROVE  /\ requestNet'[m][w] > 0 => w = InitView + 1
             /\ [viewChangeCount EXCEPT ![n] = q][m] + requestNet'[m][w]
                  <= Cardinality(asked)
  <2>1. /\ requestNet[m][w] > 0 => w = InitView + 1
        /\ viewChangeCount[m] + requestNet[m][w] <= Cardinality(asked)
        /\ viewChangeCount[m] \in Nat /\ requestNet[m][w] \in Nat
    BY <1>types DEF Unmoved
  <2>2. requestNet'[m][w] = IF m = n /\ w = v THEN requestNet[m][w] - 1
                            ELSE requestNet[m][w]
    BY <1>types, <1>1 DEF Received
  <2>3. [viewChangeCount EXCEPT ![n] = q][m] = IF m = n THEN q ELSE viewChangeCount[m]
    BY <1>types
  <2>4. CASE m # n
    BY <2>1, <2>2, <2>3, <2>4
  <2>5. CASE m = n /\ w = v
    <3>1. q \in Nat /\ q <= viewChangeCount[n] + 1
      BY <1>3, <1>4
    <3> QED
      BY <1>0, <1>2, <1>3, <2>2, <2>3, <2>5, <3>1
  <2>6. CASE m = n /\ w # v
    <3>1. requestNet[m][w] = 0
      BY <1>2, <2>1, <2>6
    <3>2. q \in Nat /\ q <= Cardinality(asked)
      BY <1>0, <1>4
    <3> QED
      BY <1>0, <2>1, <2>2, <2>3, <2>6, <3>1, <3>2
  <2> QED
    BY <2>4, <2>5, <2>6
<1> QED
  BY <1>2, <1>4, <1>5

\* Steps that concern neither requests nor timers that expire.
LEMMA UnmovedKept ==
  ASSUME Unmoved,
         UNCHANGED <<newViewNet, view, sendingNewView, requestNet,
                     viewChangeCount, asked, initiating, isViewChangeProcess,
                     timedOut>>
  PROVE  Unmoved'
BY DEF Unmoved

\* Unmoved ends when 2F+1 replicas have asked, no sooner.
LEMMA UnmovedNext ==
  ASSUME TypeOK, TypeOK', Unmoved, [Next]_vars
  PROVE  Unmoved' \/ Moved'
<1>types. /\ initiating \in [Node -> Nat]
          /\ viewChangeCount \in [Node -> Nat]
          /\ isViewChangeProcess \in [Node -> BOOLEAN]
          /\ requestNet \in [Node -> [Views -> Nat]]
          /\ asked \subseteq Node /\ timedOut \subseteq Node
          /\ asked' \subseteq Node /\ timedOut' \subseteq Node
  BY DEF TypeOK, AdminTypes, ChangeTypes, ChangeNetTypes
<1>sizes. /\ Cardinality(asked) \in Nat /\ Cardinality(timedOut) \in Nat
          /\ Cardinality(timedOut') \in Nat
          /\ Cardinality(timedOut) <= Cardinality(timedOut')
          /\ asked \subseteq timedOut => Cardinality(asked) <= Cardinality(timedOut)
  BY <1>types, HistoryGrows, Sizes
<1>1. ASSUME NEW n \in Node, Order(n) PROVE Unmoved'
  <2>1. UNCHANGED <<newViewNet, view, sendingNewView, requestNet,
                    viewChangeCount, asked, initiating, isViewChangeProcess,
                    timedOut>>
    BY <1>1 DEF Order, SendPreprepare, PrePrepare, RejectPrePrepare,
                CollectedPrepare, Prepare, MonitorPrepare, Commit,
                MonitorCommit, Execute
  <2> QED
    BY <2>1, UnmovedKept
<1>2. ASSUME NEW n \in Node, TimerExpires(n) PROVE Unmoved'
  <2>1. CASE isViewChangeProcess[n]
    <3>1. UNCHANGED <<newViewNet, view, sendingNewView, requestNet,
                      viewChangeCount, asked, initiating, isViewChangeProcess,
                      timedOut>>
      BY <1>2, <2>1 DEF TimerExpires
    <3> QED
      BY <3>1, UnmovedKept
  <2>2. CASE ~isViewChangeProcess[n]
    <3>1. n \notin asked /\ initiating[n] = 0
      BY <2>2 DEF Unmoved
    <3>2. /\ isViewChangeProcess' = [isViewChangeProcess EXCEPT ![n] = TRUE]
          /\ timedOut' = timedOut \cup {n}
          /\ InitiateViewChange(n) /\ view[n] < MaxView
          /\ UNCHANGED <<newViewNet, view, sendingNewView, viewChangeCount, initiating>>
      BY <1>2, <2>2 DEF TimerExpires
    <3>3. /\ asked' \subseteq asked \cup {n}
          /\ \A m \in Node, v \in Views :
               /\ requestNet'[m][v] > 0 => v = InitView + 1
               /\ viewChangeCount[m] + requestNet'[m][v] <= Cardinality(asked')
      BY <1>types, <3>1, <3>2, FirstRequest
    <3>4. /\ newViewNet' = {}
          /\ \A m \in Node :
               /\ view'[m] = InitView
               /\ \A v \in Views : /\ sendingNewView'[m][v] = 0
                                   /\ requestNet'[m][v] > 0 => v = InitView + 1
                                   /\ viewChangeCount'[m] + requestNet'[m][v]
                                        <= Cardinality(asked')
      BY <3>2, <3>3 DEF Unmoved
    <3>5. ASSUME NEW m \in Node
          PROVE  /\ initiating'[m] \in {0, 1}
                 /\ initiating'[m] = 1 => m \notin asked'
                 /\ ~isViewChangeProcess'[m] => m \notin asked' /\ initiating'[m] = 0
      BY <1>types, <3>1, <3>2, <3>3 DEF Unmoved
    <3>6. \/ Cardinality(timedOut') >= F + 1
          \/ /\ asked' \subseteq timedOut'
             /\ \A m \in Node : isViewChangeProcess'[m] => m \in timedOut'
      <4>1. CASE Cardinality(timedOut) >= F + 1
        BY <1>sizes, <4>1, ReplicaAssumption
      <4>2. CASE /\ asked \subseteq timedOut
                 /\ \A m \in Node : isViewChangeProcess[m] => m \in timedOut
        BY <1>types, <3>2, <3>3, <4>2
      <4> QED
        BY <4>1, <4>2 DEF Unmoved
    <3> QED
      BY <3>4, <3>5, <3>6 DEF Unmoved
  <2> QED
    BY <2>1, <2>2
<1>3. ASSUME NEW n \in Node, StartInitiate(n) PROVE Unmoved'
  <2>1. initiating[n] = 1 /\ n \notin asked /\ isViewChangeProcess[n]
    BY <1>3 DEF StartInitiate, Unmoved
  <2>2. /\ initiating' = [initiating EXCEPT ![n] = @ - 1]
        /\ InitiateViewChange(n) /\ view[n] < MaxView
        /\ UNCHANGED <<newViewNet, view, sendingNewView, viewChangeCount,
                       isViewChangeProcess, timedOut>>
    BY <1>3 DEF StartInitiate
  <2>3. /\ asked' \subseteq asked \cup {n}
        /\ \A m \in Node, v \in Views :
             /\ requestNet'[m][v] > 0 => v = InitView + 1
             /\ viewChangeCount[m] + requestNet'[m][v] <= Cardinality(asked')
    BY <1>types, <2>1, <2>2, FirstRequest
  <2>4. /\ newViewNet' = {}
        /\ \A m \in Node :
             /\ view'[m] = InitView
             /\ \A v \in Views : /\ sendingNewView'[m][v] = 0
                                 /\ requestNet'[m][v] > 0 => v = InitView + 1
                                 /\ viewChangeCount'[m] + requestNet'[m][v]
                                      <= Cardinality(asked')
    BY <2>2, <2>3 DEF Unmoved
  <2>5. ASSUME NEW m \in Node
        PROVE  /\ initiating'[m] \in {0, 1}
               /\ initiating'[m] = 1 => m \notin asked'
               /\ ~isViewChangeProcess'[m] => m \notin asked' /\ initiating'[m] = 0
    BY <1>types, <2>1, <2>2, <2>3 DEF Unmoved
  <2>6. \/ Cardinality(timedOut') >= F + 1
        \/ /\ asked' \subseteq timedOut'
           /\ \A m \in Node : isViewChangeProcess'[m] => m \in timedOut'
    BY <2>1, <2>2, <2>3 DEF Unmoved
  <2> QED
    BY <2>4, <2>5, <2>6 DEF Unmoved
<1>4. ASSUME NEW n \in Node, NEW v \in Views, RequestMoves(n, v) PROVE Moved'
  <2>1. CountWith(n, v) \in Nat /\ CountWith(n, v) <= Cardinality(asked)
    BY <1>4, CountedRequest DEF RequestMoves
  <2>2. CountWith(n, v) >= 2 * F + 1 /\ UNCHANGED historyVars
    BY <1>4 DEF RequestMoves, Moves
  <2>3. Cardinality(asked) >= 2 * F + 1
    BY <1>sizes, <2>1, <2>2, ReplicaAssumption
  <2>4. Cardinality(timedOut) >= F + 1
    <3>1. Cardinality(timedOut) >= F + 1 \/ Cardinality(asked) <= Cardinality(timedOut)
      BY <1>sizes DEF Unmoved
    <3> QED
      BY <1>sizes, <2>3, <3>1, ReplicaAssumption
  <2> QED
    BY <2>2, <2>3, <2>4 DEF Moved
<1>5. ASSUME NEW n \in Node, NEW v \in Views, RequestJoins(n, v) PROVE Unmoved'
  <2>1. /\ CountWith(n, v) \in 0 .. CountWith(n, v)
        /\ CountWith(n, v) <= Cardinality(asked)
        /\ \A q \in 0 .. CountWith(n, v), m \in Node, w \in Views :
              /\ requestNet'[m][w] > 0 => w = InitView + 1
              /\ [viewChangeCount EXCEPT ![n] = q][m] + requestNet'[m][w]
                   <= Cardinality(asked)
    BY <1>5, CountedRequest DEF RequestJoins
  <2>2. /\ ~isViewChangeProcess[n] /\ CountWith(n, v) >= F + 1
        /\ viewChangeCount' = [viewChangeCount EXCEPT ![n] = CountWith(n, v)]
        /\ isViewChangeProcess' = [isViewChangeProcess EXCEPT ![n] = TRUE]
        /\ initiating' = [initiating EXCEPT ![n] = @ + 1]
        /\ UNCHANGED <<newViewNet, view, sendingNewView, asked, timedOut>>
    BY <1>5 DEF RequestJoins, Joins
  <2>3. n \notin asked /\ initiating[n] = 0
    BY <2>2 DEF Unmoved
  <2>4. /\ newViewNet' = {}
        /\ \A m \in Node :
             /\ view'[m] = InitView
             /\ \A w \in Views : /\ sendingNewView'[m][w] = 0
                                 /\ requestNet'[m][w] > 0 => w = InitView + 1
                                 /\ viewChangeCount'[m] + requestNet'[m][w]
                                      <= Cardinality(asked')
    BY <2>1, <2>2 DEF Unmoved
  <2>5. ASSUME NEW m \in Node
        PROVE  /\ initiating'[m] \in {0, 1}
               /\ initiating'[m] = 1 => m \notin asked'
               /\ ~isViewChangeProcess'[m] => m \notin asked' /\ initiating'[m] = 0
    BY <1>types, <2>2, <2>3 DEF Unmoved
  <2>6. Cardinality(timedOut') >= F + 1
    <3>1. CountWith(n, v) \in Nat
      BY <1>5, CountedRequest DEF RequestJoins
    <3>2. Cardinality(timedOut) >= F + 1 \/ Cardinality(asked) <= Cardinality(timedOut)
      BY <1>sizes DEF Unmoved
    <3> QED
      BY <1>sizes, <2>1, <2>2, <3>1, <3>2, ReplicaAssumption
  <2> QED
    BY <2>4, <2>5, <2>6 DEF Unmoved
<1>6. ASSUME NEW n \in Node, NEW v \in Views, RequestNoted(n, v) PROVE Unmoved'
  <2>1. /\ CountWith(n, v) \in 0 .. CountWith(n, v)
        /\ \A q \in 0 .. CountWith(n, v), m \in Node, w \in Views :
              /\ requestNet'[m][w] > 0 => w = InitView + 1
              /\ [viewChangeCount EXCEPT ![n] = q][m] + requestNet'[m][w]
                   <= Cardinality(asked)
    BY <1>6, CountedRequest DEF RequestNoted
  <2>2. /\ viewChangeCount' = [viewChangeCount EXCEPT ![n] = CountWith(n, v)]
        /\ UNCHANGED <<newViewNet, view, sendingNewView, asked, timedOut,
                       isViewChangeProcess, initiating>>
    BY <1>6 DEF RequestNoted
  <2> QED
    BY <2>1, <2>2 DEF Unmoved
<1>7. ASSUME NEW n \in Node, NEW v \in Views, NEW l,
             AcceptNewViewPrePrepare(n, v, l)
      PROVE  Unmoved'
  <2>1. /\ viewChangeCount' = [viewChangeCount EXCEPT ![n] = 0]
        /\ UNCHANGED <<newViewNet, view, sendingNewView, requestNet, asked,
                       initiating, isViewChangeProcess, timedOut>>
    BY <1>7 DEF AcceptNewViewPrePrepare
  <2>2. ASSUME NEW m \in Node, NEW w \in Views
        PROVE  viewChangeCount'[m] + requestNet[m][w] <= Cardinality(asked)
    <3>1. /\ viewChangeCount[m] + requestNet[m][w] <= Cardinality(asked)
          /\ viewChangeCount[m] \in Nat /\ requestNet[m][w] \in Nat
          /\ viewChangeCount'[m] \in {0, viewChangeCount[m]}
      BY <1>types, <2>1 DEF Unmoved
    <3> QED
      BY <1>sizes, <3>1
  <2> QED
    BY <2>1, <2>2 DEF Unmoved
<1>8. ASSUME NEW n \in Node, Change(n) PROVE Unmoved' \/ Moved'
  <2>1. ~(\E v \in Views : SendNewView(n, v)) /\ ~(\E m \in newViewNet : NewView(m))
    BY DEF Unmoved, SendNewView
  <2>2. CASE StartTimer(n)
    BY <2>2, UnmovedKept DEF StartTimer
  <2> QED
    BY <1>3, <1>4, <1>5, <1>6, <1>7, <1>8, <2>1, <2>2 DEF Change
<1>9. ASSUME \/ \E n \in Node : \/ \E t \in Tx : TakeTransaction(n, t)
                                \/ TimerThreadWakes(n) \/ TimerArms(n)
                                \/ TimerGoesOn(n) \/ Kill(n)
             \/ TimePasses
             \/ UNCHANGED vars
      PROVE  Unmoved'
  <2>1. UNCHANGED <<newViewNet, view, sendingNewView, requestNet,
                    viewChangeCount, asked, initiating, isViewChangeProcess,
                    timedOut>>
    BY <1>9 DEF TakeTransaction, TimerThreadWakes, TimerArms, TimerGoesOn, Kill,
                TimePasses, vars
  <2> QED
    BY <2>1, UnmovedKept
<1> QED
  BY <1>1, <1>2, <1>8, <1>9 DEF Next, Time

\* What the histories say of a change of view stays said.
LEMMA MovedNext ==
  ASSUME TypeOK', Moved, [Next]_vars
  PROVE  Moved'
<1>1. asked' \subseteq Node /\ timedOut' \subseteq Node
  BY DEF TypeOK, ChangeTypes
<1>2. /\ Cardinality(asked) \in Nat /\ Cardinality(asked') \in Nat
      /\ Cardinality(timedOut) \in Nat /\ Cardinality(timedOut') \in Nat
      /\ Cardinality(asked) <= Cardinality(asked')
      /\ Cardinality(timedOut) <= Cardinality(timedOut')
  BY <1>1, HistoryGrows, Sizes
<1> QED
  BY <1>2, ReplicaAssumption DEF Moved

-----------------------------------------------------------------------------
(* Backups in the first view.                                               *)

\* FirstView of one replica.
Settles(n) ==
  /\ \A v \in Views : requestNet[n][v] > 0 => v # InitView
  /\ n # L /\ view[n] = InitView => Follows(n)
  /\ /\ n # L /\ view[n] = InitView /\ newViewMessages[n] = {}
     /\ ~isViewChangeProcess[n]
     => /\ thread[n].pc = "waiting" => timer[n] = "thread"
        /\ thread[n].pc = "idle" /\ processPool[n] # {} => processNotify[n] > 0

LEMMA FirstViewIs == FirstView <=> \A n \in Node : Settles(n)
BY DEF FirstView, Settles

\* What happens at another replica does not matter.
LEMMA SettlesKept ==
  ASSUME NEW m \in Node, Settles(m),
         \A v \in Views : requestNet'[m][v] > 0 => v # InitView,
         view'[m] = view[m], isLeader'[m] = isLeader[m],
         spawned'[m] = spawned[m], startingTimer'[m] = startingTimer[m],
         sendingNewView'[m] = sendingNewView[m],
         newViewMessages'[m] = newViewMessages[m],
         isViewChangeProcess'[m] = isViewChangeProcess[m],
         thread'[m] = thread[m], timer'[m] = timer[m],
         processPool'[m] = processPool[m], processNotify'[m] = processNotify[m]
  PROVE  Settles(m)'
BY DEF Settles, Follows

\* Nobody asks for the first view.
LEMMA RequestsLater ==
  ASSUME TypeOK, FirstView, [Next]_vars, NEW m \in Node, NEW v \in Views,
         requestNet'[m][v] > 0
  PROVE  v # InitView
<1>types. /\ requestNet \in [Node -> [Views -> Nat]]
          /\ view \in [Node -> Views]
  BY DEF TypeOK, AdminTypes, ChangeNetTypes
<1>0. requestNet[m][v] > 0 => v # InitView
  BY DEF FirstView
<1>1. ASSUME NEW n \in Node, InitiateViewChange(n) PROVE v # InitView
  <2>0. view[n] \in Nat /\ InitView \in Nat /\ view[n] >= InitView
    BY <1>types, Ranges
  <2>1. view[n] + 1 # InitView
    BY <2>0
  <2>2. requestNet' = requestNet \/ requestNet' = Sent(requestNet, Node, view[n] + 1)
    BY <1>1 DEF InitiateViewChange
  <2> QED
    BY <1>types, <1>0, <2>1, <2>2 DEF Sent
<1>2. ASSUME NEW n \in Node, NEW w \in Views, Arrives(n, w) PROVE v # InitView
  <2>1. requestNet' = Received(requestNet, n, w) /\ requestNet[n][w] > 0
    BY <1>2 DEF Arrives
  <2>2. requestNet'[m][v] > 0 => requestNet[m][v] > 0
    BY <1>types, <2>1 DEF Received
  <2> QED
    BY <1>0, <2>2
<1>3. ASSUME NEW n \in Node, Order(n) PROVE UNCHANGED requestNet
  BY <1>3 DEF Order, SendPreprepare, PrePrepare, RejectPrePrepare,
              CollectedPrepare, Prepare, MonitorPrepare, Commit, MonitorCommit,
              Execute
<1>4. ASSUME NEW n \in Node, Time(n) PROVE v # InitView
  BY <1>0, <1>1, <1>4 DEF Time, TimerThreadWakes, TimerArms, TimerExpires, TimerGoesOn
<1>5. ASSUME NEW n \in Node, Change(n) PROVE v # InitView
  BY <1>0, <1>1, <1>2, <1>5
  DEF Change, StartInitiate, StartTimer, RequestMoves, RequestJoins, RequestNoted,
      SendNewView, NewView, AcceptNewViewPrePrepare
<1>6. ASSUME \/ \E n \in Node, t \in Tx : TakeTransaction(n, t)
             \/ \E n \in Node : Kill(n)
             \/ TimePasses
             \/ UNCHANGED vars
      PROVE  UNCHANGED requestNet
  BY <1>6 DEF TakeTransaction, Kill, TimePasses, vars
<1> QED
  BY <1>0, <1>3, <1>4, <1>5, <1>6 DEF Next

\* A signal is there after every number put into processPool.
LEMMA WatchNotifies ==
  ASSUME TypeOK, NEW n \in Node, NEW s, Watch(n, s)
  PROVE  /\ processNotify'[n] > 0
         /\ \A m \in Node \ {n} : /\ processPool'[m] = processPool[m]
                                  /\ processNotify'[m] = processNotify[m]
<1>1. /\ processPool \in [Node -> SUBSET Nat]
      /\ processNotify \in [Node -> 0 .. NotifyCap]
  BY DEF TypeOK, TimerTypes
<1>2. NotifyCap \in Nat \ {0}
  BY BoundAssumption
<1>3. CASE HasRoom(n)
  <2>1. processNotify' = [processNotify EXCEPT ![n] = @ + 1]
    BY <1>3 DEF Watch
  <2>2. processPool' = [processPool EXCEPT ![n] = @ \cup {s}]
    BY DEF Watch
  <2> QED
    BY <1>1, <1>2, <1>3, <2>1, <2>2 DEF HasRoom
<1>4. CASE ~HasRoom(n)
  <2>1. processNotify' = processNotify /\ processPool' = [processPool EXCEPT ![n] = @ \cup {s}]
    BY <1>4 DEF Watch
  <2> QED
    BY <1>1, <1>2, <1>4, <2>1 DEF HasRoom
<1> QED
  BY <1>3, <1>4

\* The thread sleeps only with nothing to watch, or while the view changes.
LEMMA LooksSettles ==
  ASSUME TypeOK, NEW n \in Node, Looks(n)
  PROVE  /\ thread'[n].pc # "waiting"
         /\ thread'[n].pc = "idle" => isViewChangeProcess[n] \/ processPool[n] = {}
         /\ \A m \in Node \ {n} : thread'[m] = thread[m] /\ timer'[m] = timer[m]
<1>1. /\ thread \in [Node -> [pc : {"idle", "arming", "waiting"}, seq : Nat]]
      /\ timer \in [Node -> {"nil", "thread", "other"}]
  BY DEF TypeOK, TimerTypes
<1>2. CASE isViewChangeProcess[n]
  <2>1. thread' = [thread EXCEPT ![n].pc = "idle"] /\ timer' = timer
    BY <1>2 DEF Looks
  <2> QED
    BY <1>1, <1>2, <2>1
<1>3. CASE ~isViewChangeProcess[n] /\ processPool[n] = {}
  <2>1. thread' = [thread EXCEPT ![n].pc = "idle"] /\ timer' = [timer EXCEPT ![n] = "nil"]
    BY <1>3 DEF Looks
  <2> QED
    BY <1>1, <1>3, <2>1
<1>4. CASE ~isViewChangeProcess[n] /\ processPool[n] # {}
  <2>1. PICK s : thread' = [thread EXCEPT ![n] = [pc |-> "arming", seq |-> s]]
    BY <1>4 DEF Looks
  <2>2. timer' = timer
    BY <1>4 DEF Looks
  <2> QED
    BY <1>1, <2>1, <2>2
<1> QED
  BY <1>2, <1>3, <1>4

LEMMA FirstViewNext ==
  ASSUME TypeOK, FirstView, [Next]_vars
  PROVE  FirstView'
<1>types. /\ view \in [Node -> Views]
          /\ isLeader \in [Node -> BOOLEAN]
          /\ isViewChangeProcess \in [Node -> BOOLEAN]
          /\ spawned \in [Node -> SUBSET Tx]
          /\ processPool \in [Node -> SUBSET Nat]
          /\ processNotify \in [Node -> 0 .. NotifyCap]
          /\ thread \in [Node -> [pc : {"idle", "arming", "waiting"}, seq : Nat]]
          /\ timer \in [Node -> {"nil", "thread", "other"}]
          /\ newViewMessages \in [Node -> SUBSET Views]
          /\ startingTimer \in [Node -> Nat]
          /\ sendingNewView \in [Node -> [Views -> Nat]]
  BY DEF TypeOK, AdminTypes, LeaderTypes, TimerTypes, ChangeTypes
<1>settled. \A m \in Node : Settles(m)
  BY FirstViewIs
<1>later. \A m \in Node, v \in Views : requestNet'[m][v] > 0 => v # InitView
  BY RequestsLater
<1> DEFINE Quiet(m) ==
  /\ view'[m] = view[m] /\ isLeader'[m] = isLeader[m]
  /\ spawned'[m] = spawned[m] /\ startingTimer'[m] = startingTimer[m]
  /\ sendingNewView'[m] = sendingNewView[m]
  /\ newViewMessages'[m] = newViewMessages[m]
  /\ isViewChangeProcess'[m] = isViewChangeProcess[m]
  /\ thread'[m] = thread[m] /\ timer'[m] = timer[m]
  /\ processPool'[m] = processPool[m] /\ processNotify'[m] = processNotify[m]
<1>quiet. \A m \in Node : Quiet(m) => Settles(m)'
  BY <1>settled, <1>later, SettlesKept
<1> DEFINE Same(m) ==
  /\ view'[m] = view[m] /\ isLeader'[m] = isLeader[m]
  /\ spawned'[m] = spawned[m] /\ startingTimer'[m] = startingTimer[m]
  /\ sendingNewView'[m] = sendingNewView[m]
  /\ newViewMessages'[m] = newViewMessages[m]
<1> HIDE DEF Quiet, Same
<1>follows. ASSUME NEW m \in Node, Same(m), m # L, view'[m] = InitView
            PROVE  Follows(m)'
  <2>1. /\ view'[m] = view[m] /\ isLeader'[m] = isLeader[m]
        /\ spawned'[m] = spawned[m] /\ startingTimer'[m] = startingTimer[m]
        /\ sendingNewView'[m] = sendingNewView[m]
    BY <1>follows DEF Same
  <2>2. Follows(m)
    BY <1>follows, <2>1, <1>settled DEF Settles
  <2> QED
    BY <2>1, <2>2 DEF Follows
<1>same. ASSUME NEW m \in Node, Same(m),
                ~isViewChangeProcess'[m] =>
                  /\ thread'[m].pc = "waiting" => timer'[m] = "thread"
                  /\ thread'[m].pc = "idle" /\ processPool'[m] # {} => processNotify'[m] > 0
         PROVE  Settles(m)'
  BY <1>same, <1>follows, <1>later DEF Settles
<1>watching. ASSUME NEW m \in Node, m # L, view[m] = InitView,
                    newViewMessages[m] = {}, ~isViewChangeProcess[m]
             PROVE  /\ thread[m].pc = "waiting" => timer[m] = "thread"
                    /\ thread[m].pc = "idle" /\ processPool[m] # {} => processNotify[m] > 0
  BY <1>watching, <1>settled DEF Settles
<1>changed. ASSUME NEW m \in Node, Same(m), isViewChangeProcess'[m]
            PROVE  Settles(m)'
  BY <1>changed, <1>same
<1>elsewhere. ASSUME NEW m \in Node, m = L \/ view'[m] # InitView
              PROVE  Settles(m)'
  BY <1>elsewhere, <1>later DEF Settles
<1>less. ASSUME NEW m \in Node, Same(m),
                isViewChangeProcess'[m] = isViewChangeProcess[m],
                thread'[m] = thread[m], timer'[m] = timer[m],
                processNotify'[m] = processNotify[m],
                processPool'[m] \subseteq processPool[m]
         PROVE  Settles(m)'
  <2>1. CASE m # L /\ view[m] = InitView /\ newViewMessages[m] = {} /\ ~isViewChangeProcess[m]
    BY <1>less, <2>1, <1>watching, <1>same
  <2>2. CASE ~(m # L /\ view[m] = InitView /\ newViewMessages[m] = {} /\ ~isViewChangeProcess[m])
    BY <1>less, <2>2, <1>follows, <1>later DEF Settles, Same
  <2> QED
    BY <2>1, <2>2
<1>1. ASSUME NEW n \in Node, NEW t \in Tx, TakeTransaction(n, t) \/ SendPreprepare(n, t)
      PROVE  \A m \in Node : Settles(m)'
  <2>1. ASSUME NEW m \in Node, m # n PROVE Settles(m)'
    <3>1. spawned'[m] = spawned[m] /\ processPool'[m] = processPool[m]
      BY <1>1, <1>types, <2>1 DEF TakeTransaction, SendPreprepare
    <3>2. UNCHANGED <<viewVars, startingTimer, sendingNewView, newViewMessages,
                      thread, timer, processNotify>>
      BY <1>1 DEF TakeTransaction, SendPreprepare
    <3> QED
      BY <3>1, <3>2, <1>quiet DEF Quiet
  <2>2. n = L \/ view[n] # InitView
    BY <1>1, <1>settled DEF Settles, Follows, TakeTransaction, SendPreprepare
  <2>3. view' = view
    BY <1>1 DEF TakeTransaction, SendPreprepare
  <2> QED
    BY <2>1, <2>2, <2>3, <1>elsewhere
<1>2. ASSUME NEW n \in Node, NEW s, Watch(n, s),
             UNCHANGED <<viewVars, spawned, thread, timer, startingTimer,
                         sendingNewView, newViewMessages>>
      PROVE  \A m \in Node : Settles(m)'
  <2>1. ASSUME NEW m \in Node, m # n PROVE Settles(m)'
    BY <1>2, <2>1, WatchNotifies, <1>quiet DEF Quiet
  <2>2. Same(n) /\ processNotify'[n] > 0
    BY <1>2, WatchNotifies DEF Same
  <2>3. Settles(n)'
    <3>1. CASE n # L /\ view[n] = InitView /\ newViewMessages[n] = {} /\ ~isViewChangeProcess[n]
      <4>1. thread[n].pc = "waiting" => timer[n] = "thread"
        BY <3>1, <1>watching
      <4> QED
        BY <1>2, <2>2, <4>1, <1>same
    <3>2. CASE ~(n # L /\ view[n] = InitView /\ newViewMessages[n] = {} /\ ~isViewChangeProcess[n])
      BY <1>2, <2>2, <3>2, <1>follows, <1>later DEF Settles
    <3> QED
      BY <3>1, <3>2
  <2> QED
    BY <2>1, <2>3
<1>3. ASSUME NEW n \in Node, Order(n) PROVE \A m \in Node : Settles(m)'
  <2>1. ASSUME NEW msg \in prePrepareNet, msg.to = n, PrePrepare(msg)
        PROVE  \A m \in Node : Settles(m)'
    BY <2>1, <1>2 DEF PrePrepare
  <2>2. CASE Execute(n)
    <3>1. /\ UNCHANGED <<viewVars, spawned, thread, timer, startingTimer,
                         sendingNewView, newViewMessages, processNotify>>
          /\ \/ processPool' = processPool
             \/ processPool' = [processPool EXCEPT ![n] = @ \ {NextSeq(n)}]
      BY <2>2 DEF Execute
    <3>2. \A m \in Node : processPool'[m] \subseteq processPool[m]
      BY <3>1, <1>types
    <3>3. \A m \in Node : Same(m)
      BY <3>1 DEF Same
    <3> QED
      BY <3>1, <3>2, <3>3, <1>less
  <2>3. ASSUME \/ \E msg \in prePrepareNet : RejectPrePrepare(msg)
               \/ \E c \in collectedNet : CollectedPrepare(c)
               \/ \E s \in SeqNums : \/ Prepare(n, s) \/ MonitorPrepare(n, s)
                                     \/ Commit(n, s) \/ MonitorCommit(n, s)
        PROVE  \A m \in Node : Settles(m)'
    <3>1. UNCHANGED <<viewVars, spawned, startingTimer, sendingNewView,
                      newViewMessages, thread, timer, processPool, processNotify>>
      BY <2>3 DEF RejectPrePrepare, CollectedPrepare, Prepare, MonitorPrepare,
                  Commit, MonitorCommit
    <3> QED
      BY <3>1, <1>quiet DEF Quiet
  <2> QED
    BY <1>1, <1>3, <2>1, <2>2, <2>3 DEF Order
<1>4. ASSUME NEW n \in Node, TimerThreadWakes(n) \/ TimerGoesOn(n)
      PROVE  \A m \in Node : Settles(m)'
  <2>1. /\ thread'[n].pc # "waiting"
        /\ thread'[n].pc = "idle" => isViewChangeProcess[n] \/ processPool[n] = {}
        /\ \A m \in Node \ {n} : thread'[m] = thread[m] /\ timer'[m] = timer[m]
    BY <1>4, LooksSettles DEF TimerThreadWakes, TimerGoesOn
  <2>2. UNCHANGED <<viewVars, spawned, startingTimer, sendingNewView,
                    newViewMessages, processPool>>
    BY <1>4 DEF TimerThreadWakes, TimerGoesOn
  <2>3. \A m \in Node \ {n} : processNotify'[m] = processNotify[m]
    BY <1>4, <1>types DEF TimerThreadWakes, TimerGoesOn
  <2>4. ASSUME NEW m \in Node, m # n PROVE Settles(m)'
    BY <2>1, <2>2, <2>3, <2>4, <1>quiet DEF Quiet
  <2>5. Same(n)
    BY <2>2 DEF Same
  <2>6. Settles(n)'
    BY <2>1, <2>2, <2>5, <1>same
  <2> QED
    BY <2>4, <2>6
<1>5. ASSUME NEW n \in Node, TimerArms(n) PROVE \A m \in Node : Settles(m)'
  <2>1. /\ thread'[n].pc = "waiting" /\ timer'[n] = "thread"
        /\ \A m \in Node \ {n} : thread'[m] = thread[m] /\ timer'[m] = timer[m]
    <3>1. /\ thread' = [thread EXCEPT ![n].pc = "waiting"]
          /\ timer' = [timer EXCEPT ![n] = "thread"]
      BY <1>5 DEF TimerArms
    <3> QED
      BY <3>1, <1>types
  <2>2. UNCHANGED <<viewVars, spawned, startingTimer, sendingNewView,
                    newViewMessages, processPool, processNotify>>
    BY <1>5 DEF TimerArms
  <2>3. ASSUME NEW m \in Node, m # n PROVE Settles(m)'
    BY <2>1, <2>2, <2>3, <1>quiet DEF Quiet
  <2>4. Same(n)
    BY <2>2 DEF Same
  <2>5. Settles(n)'
    BY <2>1, <2>2, <2>4, <1>same
  <2> QED
    BY <2>3, <2>5
<1>6. ASSUME NEW n \in Node, TimerExpires(n) PROVE \A m \in Node : Settles(m)'
  <2>1. /\ isViewChangeProcess'[n]
        /\ \A m \in Node \ {n} : /\ isViewChangeProcess'[m] = isViewChangeProcess[m]
                                 /\ processPool'[m] = processPool[m]
                                 /\ thread'[m] = thread[m] /\ timer'[m] = timer[m]
    <3>1. /\ processPool' = [processPool EXCEPT ![n] = {}]
          /\ thread' = [thread EXCEPT ![n].pc = "idle"]
          /\ \/ isViewChangeProcess[n] /\ UNCHANGED <<isViewChangeProcess, timer>>
             \/ /\ isViewChangeProcess' = [isViewChangeProcess EXCEPT ![n] = TRUE]
                /\ timer' = [timer EXCEPT ![n] = "nil"]
      BY <1>6 DEF TimerExpires
    <3> QED
      BY <3>1, <1>types
  <2>2. UNCHANGED <<view, isLeader, spawned, startingTimer, sendingNewView,
                    newViewMessages, processNotify>>
    BY <1>6 DEF TimerExpires
  <2>3. ASSUME NEW m \in Node, m # n PROVE Settles(m)'
    BY <2>1, <2>2, <2>3, <1>quiet DEF Quiet
  <2>4. Same(n)
    BY <2>2 DEF Same
  <2> QED
    BY <2>1, <2>3, <2>4, <1>changed
<1>7. ASSUME NEW n \in Node, StartInitiate(n) PROVE \A m \in Node : Settles(m)'
  <2>1. UNCHANGED <<viewVars, spawned, startingTimer, sendingNewView,
                    newViewMessages, thread, timer, processPool, processNotify>>
    BY <1>7 DEF StartInitiate
  <2> QED
    BY <2>1, <1>quiet DEF Quiet
<1>8. ASSUME NEW n \in Node, StartTimer(n) PROVE \A m \in Node : Settles(m)'
  <2>1. n = L \/ view[n] # InitView
    BY <1>8, <1>settled DEF Settles, Follows, StartTimer
  <2>2. UNCHANGED <<viewVars, spawned, sendingNewView, newViewMessages, thread,
                    processPool, processNotify>>
    BY <1>8 DEF StartTimer
  <2>3. \A m \in Node \ {n} : startingTimer'[m] = startingTimer[m] /\ timer'[m] = timer[m]
    BY <1>8, <1>types DEF StartTimer, OtherTimer
  <2>4. ASSUME NEW m \in Node, m # n PROVE Settles(m)'
    BY <2>2, <2>3, <2>4, <1>quiet DEF Quiet
  <2> QED
    BY <2>1, <2>2, <2>4, <1>elsewhere
<1>9. ASSUME NEW n \in Node, NEW v \in Views, RequestMoves(n, v)
      PROVE  \A m \in Node : Settles(m)'
  <2>1. v # InitView
    BY <1>9, <1>settled DEF RequestMoves, Arrives, Settles
  <2>2. /\ view' = [view EXCEPT ![n] = v]
        /\ isLeader' = [isLeader EXCEPT ![n] = Leader(v) = n]
        /\ isViewChangeProcess' = [isViewChangeProcess EXCEPT ![n] = FALSE]
        /\ startingTimer' = [startingTimer EXCEPT ![n] = @ + 1]
        /\ \/ sendingNewView' = [sendingNewView EXCEPT ![n][v] = @ + 1]
           \/ sendingNewView' = sendingNewView
        /\ UNCHANGED <<spawned, newViewMessages, thread, timer, processPool,
                       processNotify>>
    BY <1>9 DEF RequestMoves
  <2>3. ASSUME NEW m \in Node, m # n PROVE Settles(m)'
    <3>1. /\ view'[m] = view[m] /\ isLeader'[m] = isLeader[m]
          /\ isViewChangeProcess'[m] = isViewChangeProcess[m]
          /\ startingTimer'[m] = startingTimer[m]
          /\ sendingNewView'[m] = sendingNewView[m]
      BY <1>types, <2>2, <2>3
    <3> QED
      BY <2>2, <3>1, <1>quiet DEF Quiet
  <2>4. view'[n] # InitView
    BY <1>types, <2>1, <2>2
  <2> QED
    BY <2>3, <2>4, <1>elsewhere
<1>10. ASSUME NEW n \in Node, NEW v \in Views, RequestJoins(n, v)
       PROVE  \A m \in Node : Settles(m)'
  <2>1. /\ isViewChangeProcess' = [isViewChangeProcess EXCEPT ![n] = TRUE]
        /\ UNCHANGED <<view, isLeader, spawned, startingTimer, sendingNewView,
                       newViewMessages, thread, timer, processPool, processNotify>>
    BY <1>10 DEF RequestJoins
  <2>2. ASSUME NEW m \in Node, m # n PROVE Settles(m)'
    BY <1>types, <2>1, <2>2, <1>quiet DEF Quiet
  <2>3. Same(n) /\ isViewChangeProcess'[n]
    BY <1>types, <2>1 DEF Same
  <2> QED
    BY <2>2, <2>3, <1>changed
<1>11. ASSUME NEW n \in Node, NEW v \in Views, RequestNoted(n, v)
       PROVE  \A m \in Node : Settles(m)'
  <2>1. UNCHANGED <<viewVars, spawned, startingTimer, sendingNewView,
                    newViewMessages, thread, timer, processPool, processNotify>>
    BY <1>11 DEF RequestNoted
  <2> QED
    BY <2>1, <1>quiet DEF Quiet
<1>12. ASSUME NEW n \in Node, NEW v \in Views, SendNewView(n, v)
       PROVE  \A m \in Node : Settles(m)'
  <2>1. n = L \/ view[n] # InitView
    BY <1>12, <1>settled DEF Settles, Follows, SendNewView
  <2>2. UNCHANGED <<view, isViewChangeProcess, spawned, startingTimer,
                    newViewMessages, thread, timer, processPool, processNotify>>
    BY <1>12 DEF SendNewView
  <2>3. \A m \in Node \ {n} : /\ isLeader'[m] = isLeader[m]
                              /\ sendingNewView'[m] = sendingNewView[m]
    BY <1>12, <1>types DEF SendNewView
  <2>4. ASSUME NEW m \in Node, m # n PROVE Settles(m)'
    BY <2>2, <2>3, <2>4, <1>quiet DEF Quiet
  <2> QED
    BY <2>1, <2>2, <2>4, <1>elsewhere
<1>13. ASSUME NEW msg \in newViewNet, NewView(msg), msg.to \in Node, msg.view \in Views
       PROVE  \A m \in Node : Settles(m)'
  <2> DEFINE n == msg.to
  <2>1. UNCHANGED <<view, isLeader, spawned, startingTimer, sendingNewView,
                    thread, processNotify>>
    BY <1>13 DEF NewView
  <2>2. /\ isViewChangeProcess' = [isViewChangeProcess EXCEPT ![n] = FALSE]
        /\ newViewMessages' = [newViewMessages EXCEPT ![n] = @ \cup {msg.view}]
        /\ \A m \in Node \ {n} : processPool'[m] = processPool[m] /\ timer'[m] = timer[m]
    BY <1>13, <1>types DEF NewView, OtherTimer
  <2>3. ASSUME NEW m \in Node, m # n PROVE Settles(m)'
    BY <1>types, <1>13, <2>1, <2>2, <2>3, <1>quiet DEF Quiet
  <2>4. newViewMessages'[n] # {}
    BY <1>types, <1>13, <2>2
  <2>5. n # L /\ view[n] = InitView => Follows(n)'
    BY <2>1, <1>13, <1>settled DEF Settles, Follows
  <2>6. Settles(n)'
    BY <2>1, <2>4, <2>5, <1>later, <1>13 DEF Settles
  <2> QED
    BY <2>3, <2>6
<1>14. ASSUME NEW n \in Node, NEW v \in Views, NEW l, AcceptNewViewPrePrepare(n, v, l)
       PROVE  \A m \in Node : Settles(m)'
  <2>1. UNCHANGED <<viewVars, spawned, thread, timer, startingTimer,
                    sendingNewView, newViewMessages>>
    BY <1>14 DEF AcceptNewViewPrePrepare
  <2>2. CASE Watch(n, l.seq)
    BY <1>2, <2>1, <2>2
  <2>3. CASE UNCHANGED poolVars
    BY <2>1, <2>3, <1>quiet DEF Quiet
  <2> QED
    BY <1>14, <2>2, <2>3 DEF AcceptNewViewPrePrepare
<1>15. ASSUME (\E n \in Node : Kill(n)) \/ TimePasses \/ UNCHANGED vars
       PROVE  \A m \in Node : Settles(m)'
  <2>1. UNCHANGED <<viewVars, spawned, startingTimer, sendingNewView,
                    newViewMessages, thread, timer, processPool, processNotify>>
    BY <1>15 DEF Kill, TimePasses, vars
  <2> QED
    BY <2>1, <1>quiet DEF Quiet
<1>16. ASSUME NEW n \in Node, Change(n) PROVE \A m \in Node : Settles(m)'
  <2>1. \A msg \in newViewNet : msg.to \in Node /\ msg.view \in Views
    BY DEF TypeOK, ChangeNetTypes
  <2> QED
    BY <1>7, <1>8, <1>9, <1>10, <1>11, <1>12, <1>13, <1>14, <1>16, <2>1 DEF Change
<1>17. \A m \in Node : Settles(m)'
  BY <1>1, <1>3, <1>4, <1>5, <1>6, <1>15, <1>16 DEF Next, Time
<1> QED
  BY <1>17, FirstViewIs DEF FirstView, Settles

-----------------------------------------------------------------------------
(* What was proposed.                                                       *)

LEMMA ProposedGrows ==
  ASSUME [Next]_vars
  PROVE  proposed \subseteq proposed'
<1>1. ASSUME NEW n \in Node, Order(n) PROVE proposed \subseteq proposed'
  BY <1>1 DEF Order, SendPreprepare, PrePrepare, RejectPrePrepare,
              CollectedPrepare, Prepare, MonitorPrepare, Commit, MonitorCommit,
              Execute
<1>2. ASSUME NEW n \in Node, Time(n) PROVE proposed \subseteq proposed'
  BY <1>2 DEF Time, TimerThreadWakes, TimerArms, TimerExpires, TimerGoesOn
<1>3. ASSUME NEW n \in Node, Change(n) PROVE proposed \subseteq proposed'
  BY <1>3 DEF Change, StartInitiate, StartTimer, RequestMoves, RequestJoins,
              RequestNoted, SendNewView, NewView, AcceptNewViewPrePrepare
<1>4. ASSUME \/ \E n \in Node, t \in Tx : TakeTransaction(n, t)
             \/ \E n \in Node : Kill(n)
             \/ TimePasses
             \/ UNCHANGED vars
      PROVE  proposed \subseteq proposed'
  BY <1>4 DEF TakeTransaction, Kill, TimePasses, vars
<1> QED
  BY <1>1, <1>2, <1>3, <1>4 DEF Next

LEMMA GenuineKept ==
  ASSUME proposed \subseteq proposed', NEW s, NEW t, NEW k, Genuine(s, t, k)
  PROVE  Genuine(s, t, k)'
BY DEF Genuine

LEMMA GenuineTx ==
  ASSUME TypeOK, NEW s, NEW t, NEW k, Genuine(s, t, k)
  PROVE  t \in Tx /\ t # NoTx
BY StartAssumption DEF Genuine, TypeOK, LeaderTypes, Proposal

\* An entry keeps its first signature and the digest that goes with it.
LEMMA EntrySigned ==
  ASSUME TypeOK, AllGenuine, NEW n \in Node, NEW s \in SeqNums, NEW t \in Tx,
         NEW k \in Node, Genuine(s, t, k), logs[n][s].digest \in {NoTx, t}
  PROVE  /\ Signed(logs[n][s], k).signer \in Node
         /\ Genuine(s, t, Signed(logs[n][s], k).signer)
         /\ Signed(logs[n][s], k) \in Entry
<1>1. logs[n][s] \in Entry
  BY DEF TypeOK, EntryTypes
<1>2. CASE logs[n][s].signer = NoNode
  <2>1. Signed(logs[n][s], k).signer = k
    BY <1>1, <1>2 DEF Signed, Entry
  <2>2. Signed(logs[n][s], k) \in Entry
    BY <1>1 DEF Signed, Entry
  <2> QED
    BY <2>1, <2>2
<1>3. CASE logs[n][s].signer # NoNode
  <2>1. Signed(logs[n][s], k).signer = logs[n][s].signer
    BY <1>1, <1>3 DEF Signed, Entry
  <2>2. Genuine(s, logs[n][s].digest, logs[n][s].signer)
    BY <1>3 DEF AllGenuine
  <2>3. logs[n][s].digest = t
    BY <2>2, GenuineTx
  <2>4. Signed(logs[n][s], k) \in Entry
    BY <1>1 DEF Signed, Entry
  <2>5. logs[n][s].signer \in Node
    BY <1>1, <1>3 DEF Entry
  <2> QED
    BY <2>1, <2>2, <2>3, <2>4, <2>5
<1> QED
  BY <1>2, <1>3

EntryGenuine(n, s) ==
  logs[n][s].signer # NoNode => Genuine(s, logs[n][s].digest, logs[n][s].signer)

\* Steps that write no entry, or write one but not what it says was proposed.
LEMMA EntriesKept ==
  ASSUME TypeOK, AllGenuine, proposed \subseteq proposed',
         NEW n \in Node, NEW s \in SeqNums, NEW e \in Entry,
         e.digest = logs[n][s].digest, e.signer = logs[n][s].signer,
         logs' = logs \/ logs' = [logs EXCEPT ![n][s] = e],
         NEW m \in Node, NEW q \in SeqNums
  PROVE  EntryGenuine(m, q)'
<1>1. logs \in [Node -> [SeqNums -> Entry]]
  BY DEF TypeOK, EntryTypes
<1>2. /\ logs'[m][q].digest = logs[m][q].digest
      /\ logs'[m][q].signer = logs[m][q].signer
  BY <1>1
<1>3. EntryGenuine(m, q)
  BY DEF AllGenuine, EntryGenuine
<1> QED
  BY <1>2, <1>3 DEF Genuine, EntryGenuine

\* Steps that sign one.
LEMMA EntryWritten ==
  ASSUME TypeOK, AllGenuine, proposed \subseteq proposed',
         NEW n \in Node, NEW s \in SeqNums, NEW e \in Entry,
         \E p \in proposed' : p.seq = s /\ p.tx = e.digest /\ p.from = e.signer,
         logs' = [logs EXCEPT ![n][s] = e],
         NEW m \in Node, NEW q \in SeqNums
  PROVE  EntryGenuine(m, q)'
<1>1. logs \in [Node -> [SeqNums -> Entry]]
  BY DEF TypeOK, EntryTypes
<1>2. CASE m = n /\ q = s
  <2>1. logs'[m][q] = e
    BY <1>1, <1>2
  <2> QED
    BY <1>2, <2>1 DEF Genuine, EntryGenuine
<1>3. CASE ~(m = n /\ q = s)
  <2>1. logs'[m][q] = logs[m][q]
    BY <1>1, <1>3
  <2>2. EntryGenuine(m, q)
    BY DEF AllGenuine, EntryGenuine
  <2> QED
    BY <2>1, <2>2 DEF Genuine, EntryGenuine
<1> QED
  BY <1>2, <1>3

\* What an entry says was proposed; the step may be any.
LEMMA EntriesNext ==
  ASSUME TypeOK, AllGenuine, [Next]_vars, NEW m \in Node, NEW q \in SeqNums
  PROVE  EntryGenuine(m, q)'
<1>types. /\ logs \in [Node -> [SeqNums -> Entry]]
          /\ prePrepareNet \subseteq PrePrepareMsg
          /\ collectedNet \subseteq CollectedMsg
          /\ globalSequence \in [Node -> 0 .. MaxSeq]
          /\ executed \in [Node -> Seq(Tx)]
  BY DEF TypeOK, LeaderTypes, EntryTypes, OrderNetTypes
<1>grows. proposed \subseteq proposed'
  BY ProposedGrows
<1>0. ASSUME UNCHANGED logs PROVE EntryGenuine(m, q)'
  <2>1. EntryGenuine(m, q)
    BY DEF AllGenuine, EntryGenuine
  <2> QED
    BY <1>0, <1>grows, <2>1 DEF EntryGenuine, Genuine
<1>1. ASSUME NEW n \in Node, NEW t \in Tx, SendPreprepare(n, t)
      PROVE  EntryGenuine(m, q)'
  <2>1. globalSequence[n] + 1 \in SeqNums
    BY <1>1, <1>types, BoundAssumption DEF SendPreprepare, SeqNums
  <2>2. PICK e \in Entry : e = [NoEntry EXCEPT !.exists = TRUE, !.tx = t,
                                               !.digest = t, !.signer = n]
    BY EntriesTyped, <1>types, <2>1
  <2>3. e.digest = t /\ e.signer = n
    BY <2>2 DEF NoEntry
  <2>4. /\ logs' = [logs EXCEPT ![n][globalSequence[n] + 1] = e]
        /\ [view |-> view[n], seq |-> globalSequence[n] + 1, tx |-> t, from |-> n]
             \in proposed'
    BY <1>1, <2>2 DEF SendPreprepare
  <2>5. \E p \in proposed' : /\ p.seq = globalSequence[n] + 1
                             /\ p.tx = e.digest /\ p.from = e.signer
    BY <2>3, <2>4
  <2> QED
    BY <1>grows, <2>1, <2>4, <2>5, EntryWritten
<1>2. ASSUME NEW msg \in prePrepareNet, PrePrepare(msg)
      PROVE  EntryGenuine(m, q)'
  <2> DEFINE n == msg.to
             e == Signed(logs[n][msg.seq], msg.from)
  <2>1. n \in Node /\ msg.seq \in SeqNums /\ msg.from \in Node /\ msg.tx \in Tx
    BY <1>types DEF PrePrepareMsg
  <2>2. /\ Genuine(msg.seq, msg.tx, msg.from)
        /\ logs[n][msg.seq].digest \in {NoTx, msg.tx}
    BY <1>2 DEF PrePrepare, Accepts, AllGenuine
  <2>3. e.signer \in Node /\ Genuine(msg.seq, msg.tx, e.signer) /\ e \in Entry
    BY <2>1, <2>2, EntrySigned
  <2>4. logs' = [logs EXCEPT ![n][msg.seq] = [e EXCEPT !.tx = msg.tx, !.digest = msg.tx]]
    BY <1>2, <1>types, <2>1 DEF PrePrepare
  <2>5. PICK f \in Entry : f = [e EXCEPT !.tx = msg.tx, !.digest = msg.tx]
    BY <2>1, <2>3 DEF Entry
  <2>6. f.digest = msg.tx /\ f.signer = e.signer
    BY <2>3, <2>5 DEF Entry
  <2>7. \E p \in proposed' : p.seq = msg.seq /\ p.tx = f.digest /\ p.from = f.signer
    BY <1>grows, <2>3, <2>6 DEF Genuine
  <2>8. logs' = [logs EXCEPT ![n][msg.seq] = f]
    BY <2>4, <2>5
  <2> QED
    BY <1>grows, <2>1, <2>7, <2>8, EntryWritten
<1>3. ASSUME NEW n \in Node, NEW v \in Views, NEW l \in BagToSet(accepting[n][v]),
             AcceptNewViewPrePrepare(n, v, l)
      PROVE  EntryGenuine(m, q)'
  <2>1. CASE ~AcceptsAnew(n, v, l)
    BY <1>0, <1>3, <2>1 DEF AcceptNewViewPrePrepare
  <2>2. CASE AcceptsAnew(n, v, l)
    <3> DEFINE e == Signed(logs[n][l.seq], Leader(v))
    <3>1. l \in Load /\ Genuine(l.seq, l.tx, l.signer)
      <4>1. l \in Load
        BY DEF TypeOK, ChangeNetTypes, Loads
      <4> QED
        BY <4>1 DEF AllGenuine, GenuineLoads
    <3>2. /\ l.seq \in SeqNums /\ l.tx \in Tx /\ l.signer = Leader(v)
          /\ Leader(v) \in Node /\ logs[n][l.seq].digest \in {NoTx, l.tx}
      BY <2>2, <3>1 DEF Load, AcceptsAnew
    <3>3. e.signer \in Node /\ Genuine(l.seq, l.tx, e.signer) /\ e \in Entry
      BY <3>1, <3>2, EntrySigned
    <3>4. logs' = [logs EXCEPT ![n][l.seq] = [e EXCEPT !.digest = l.tx]]
      BY <1>3, <1>types, <2>2, <3>2 DEF AcceptNewViewPrePrepare
    <3>5. PICK f \in Entry : f = [e EXCEPT !.digest = l.tx]
      BY <3>2, <3>3 DEF Entry
    <3>6. f.digest = l.tx /\ f.signer = e.signer
      BY <3>3, <3>5 DEF Entry
    <3>7. \E p \in proposed' : p.seq = l.seq /\ p.tx = f.digest /\ p.from = f.signer
      BY <1>grows, <3>3, <3>6 DEF Genuine
    <3>8. logs' = [logs EXCEPT ![n][l.seq] = f]
      BY <3>4, <3>5
    <3> QED
      BY <1>grows, <3>2, <3>7, <3>8, EntryWritten
  <2> QED
    BY <2>1, <2>2
<1>4. ASSUME NEW n \in Node, NEW s \in SeqNums, NEW e \in Entry,
             e.digest = logs[n][s].digest, e.signer = logs[n][s].signer,
             logs' = logs \/ logs' = [logs EXCEPT ![n][s] = e]
      PROVE  EntryGenuine(m, q)'
  BY <1>4, <1>grows, EntriesKept
<1>5. ASSUME NEW n \in Node, NEW s \in SeqNums, Prepare(n, s)
      PROVE  EntryGenuine(m, q)'
  <2>1. logs[n][s] \in Entry /\ logs[n][s].prepares \in Nat
    BY <1>types DEF Entry
  <2>2. PICK k \in Nat : k = logs[n][s].prepares + 1
    BY <2>1
  <2>3. logs' = [logs EXCEPT ![n][s] = [@ EXCEPT !.exists = TRUE, !.prepares = k]]
    BY <1>5, <1>types, <2>2 DEF Prepare
  <2>4. PICK e \in Entry : e = [logs[n][s] EXCEPT !.exists = TRUE, !.prepares = k]
    BY <2>1 DEF Entry
  <2>5. e.digest = logs[n][s].digest /\ e.signer = logs[n][s].signer
    BY <2>1, <2>4 DEF Entry
  <2> QED
    BY <1>4, <1>types, <2>3, <2>4, <2>5
<1>6. ASSUME NEW c \in collectedNet, CollectedPrepare(c)
      PROVE  EntryGenuine(m, q)'
  <2> DEFINE n == c.to
  <2>1. n \in Node /\ c.seq \in SeqNums /\ c.size \in Nat
    BY <1>types DEF CollectedMsg
  <2>2. logs[n][c.seq] \in Entry /\ logs[n][c.seq].prepares \in Nat
    BY <1>types, <2>1 DEF Entry
  <2>3. PICK k \in Nat : k = logs[n][c.seq].prepares + c.size
    BY <2>1, <2>2
  <2>4. PICK e \in Entry : e = Collected(logs[n][c.seq], c.size)
    <3>1. Fast(c.size) => Collected(logs[n][c.seq], c.size)
            = [logs[n][c.seq] EXCEPT !.exists = TRUE, !.isCommitted = TRUE, !.prepares = k]
      BY <2>2, <2>3 DEF Collected, Entry
    <3>2. Collected(logs[n][c.seq], c.size) \in Entry
      BY <2>2, <3>1 DEF Collected, Entry
    <3> QED
      BY <3>2
  <2>5. e.digest = logs[n][c.seq].digest /\ e.signer = logs[n][c.seq].signer
    BY <2>2, <2>4 DEF Collected, Entry
  <2>6. logs' = logs \/ logs' = [logs EXCEPT ![n][c.seq] = e]
    BY <1>6, <2>4, <1>types, <2>1 DEF CollectedPrepare
  <2> QED
    BY <1>4, <2>1, <2>5, <2>6
<1>7. ASSUME NEW n \in Node, NEW s \in SeqNums, Commit(n, s) \/ MonitorCommit(n, s)
      PROVE  EntryGenuine(m, q)'
  <2>1. logs[n][s] \in Entry
    BY <1>types
  <2>2. PICK e \in Entry : e = [logs[n][s] EXCEPT !.exists = TRUE]
    BY <2>1 DEF Entry
  <2>3. PICK f \in Entry : f = [logs[n][s] EXCEPT !.isCommitted = TRUE]
    BY <2>1 DEF Entry
  <2>4. /\ e.digest = logs[n][s].digest /\ e.signer = logs[n][s].signer
        /\ f.digest = logs[n][s].digest /\ f.signer = logs[n][s].signer
    BY <2>1, <2>2, <2>3 DEF Entry
  <2>5. logs' = logs \/ logs' = [logs EXCEPT ![n][s] = e]
                     \/ logs' = [logs EXCEPT ![n][s] = f]
    BY <1>7, <1>types, <2>2, <2>3 DEF Commit, MonitorCommit
  <2> QED
    BY <1>4, <2>4, <2>5
<1>8. ASSUME NEW n \in Node, Order(n) PROVE EntryGenuine(m, q)'
  <2>1. ASSUME NEW msg, RejectPrePrepare(msg) PROVE EntryGenuine(m, q)'
    BY <1>0, <2>1 DEF RejectPrePrepare
  <2>2. ASSUME NEW s \in SeqNums, MonitorPrepare(n, s) PROVE EntryGenuine(m, q)'
    BY <1>0, <2>2 DEF MonitorPrepare
  <2>3. ASSUME Execute(n) PROVE EntryGenuine(m, q)'
    BY <1>0, <2>3 DEF Execute
  <2> QED
    BY <1>1, <1>2, <1>5, <1>6, <1>7, <1>8, <2>1, <2>2, <2>3 DEF Order
<1>9. ASSUME NEW n \in Node, Time(n) PROVE EntryGenuine(m, q)'
  BY <1>0, <1>9 DEF Time, TimerThreadWakes, TimerArms, TimerExpires, TimerGoesOn
<1>10. ASSUME NEW n \in Node, Change(n) PROVE EntryGenuine(m, q)'
  <2>1. CASE UNCHANGED logs
    BY <1>0, <2>1
  <2>2. CASE ~UNCHANGED logs
    BY <1>3, <1>10, <2>2 DEF Change, StartInitiate, StartTimer, RequestMoves,
       RequestJoins, RequestNoted, SendNewView, NewView
  <2> QED
    BY <2>1, <2>2
<1>11. ASSUME \/ \E n \in Node, t \in Tx : TakeTransaction(n, t)
              \/ \E n \in Node : Kill(n)
              \/ TimePasses
              \/ UNCHANGED vars
       PROVE  EntryGenuine(m, q)'
  BY <1>0, <1>11 DEF TakeTransaction, Kill, TimePasses, vars
<1> QED
  BY <1>8, <1>9, <1>10, <1>11 DEF Next

\* What requests and NewView messages carry was proposed.
LEMMA LoadsNext ==
  ASSUME TypeOK, AllGenuine, [Next]_vars
  PROVE  /\ \A v \in Views : GenuineLoads(loadNet[v])' /\ GenuineLoads(loadLog[v])'
         /\ \A n \in Node, v \in Views : GenuineLoads(accepting[n][v])'
         /\ \A m \in newViewNet' : \A l \in BagToSet(m.loads) :
              \E p \in proposed' : p.seq = l.seq /\ p.tx = l.tx /\ p.from = l.signer
<1>types. /\ DOMAIN accepting = Node
          /\ \A n \in Node : DOMAIN accepting[n] = Views
          /\ \A n \in Node, v \in Views : Loads(accepting[n][v])
          /\ DOMAIN loadNet = Views /\ DOMAIN loadLog = Views
          /\ \A v \in Views : Loads(loadNet[v]) /\ Loads(loadLog[v])
          /\ \A m \in newViewNet : m.to \in Node /\ m.view \in Views /\ Loads(m.loads)
  BY DEF TypeOK, ChangeNetTypes
<1>grows. proposed \subseteq proposed'
  BY ProposedGrows
<1> DEFINE Was(l) == Genuine(l.seq, l.tx, l.signer)
           NetWas == \A v \in Views : \A l \in BagToSet(loadNet'[v]) : Was(l)
           LogWas == \A v \in Views : \A l \in BagToSet(loadLog'[v]) : Was(l)
           AcceptingWas == \A n \in Node, v \in Views :
                             \A l \in BagToSet(accepting'[n][v]) : Was(l)
           NewViewWas == \A m \in newViewNet' : \A l \in BagToSet(m.loads) : Was(l)
<1>was. /\ \A v \in Views : \A l \in BagToSet(loadNet[v]) : Was(l)
        /\ \A v \in Views : \A l \in BagToSet(loadLog[v]) : Was(l)
        /\ \A n \in Node, v \in Views : \A l \in BagToSet(accepting[n][v]) : Was(l)
        /\ \A m \in newViewNet : \A l \in BagToSet(m.loads) : Was(l)
  BY DEF AllGenuine, GenuineLoads
<1> HIDE DEF Was
<1>0. ASSUME UNCHANGED <<loadNet, loadLog, accepting, newViewNet>>
      PROVE  NetWas /\ LogWas /\ AcceptingWas /\ NewViewWas
  BY <1>0, <1>was
<1>1. ASSUME NEW n \in Node, InitiateViewChange(n), view[n] < MaxView,
             UNCHANGED <<loadLog, accepting, newViewNet>>
      PROVE  NetWas /\ LogWas /\ AcceptingWas /\ NewViewWas
  <2>1. NetWas
    BY <1>1, <1>was, InitiateTypes DEF Was
  <2> QED
    BY <1>1, <1>was, <2>1
<1>2. ASSUME NEW n \in Node, NEW v \in Views, Arrives(n, v),
             UNCHANGED <<accepting, newViewNet>>
      PROVE  NetWas /\ LogWas /\ AcceptingWas /\ NewViewWas
  <2>1. \A w \in Views :
          /\ BagToSet(loadNet'[w]) \subseteq BagToSet(loadNet[w])
          /\ BagToSet(loadLog'[w]) \subseteq BagToSet(loadLog[w]) \cup BagToSet(loadNet[w])
    BY <1>2, ArrivesTypes
  <2>2. NetWas
    BY <2>1, <1>was
  <2>3. LogWas
    BY <2>1, <1>was
  <2> QED
    BY <1>2, <1>was, <2>2, <2>3
<1>3. ASSUME NEW n \in Node, NEW v \in Views, SendNewView(n, v)
      PROVE  NetWas /\ LogWas /\ AcceptingWas /\ NewViewWas
  <2>1. UNCHANGED <<loadNet, loadLog, accepting>>
    BY <1>3 DEF SendNewView
  <2>2. \A m \in newViewNet' : m \in newViewNet \/ m.loads = loadLog[v]
    BY <1>3 DEF SendNewView
  <2>3. NewViewWas
    BY <2>2, <1>was
  <2> QED
    BY <2>1, <2>3, <1>was
<1>4. ASSUME NEW m \in newViewNet, NewView(m)
      PROVE  NetWas /\ LogWas /\ AcceptingWas /\ NewViewWas
  <2>1. UNCHANGED <<loadNet, loadLog>> /\ newViewNet' \subseteq newViewNet
    BY <1>4 DEF NewView
  <2>2. accepting' = [accepting EXCEPT ![m.to][m.view] = @ (+) m.loads]
    BY <1>4 DEF NewView
  <2>3. m.to \in Node /\ m.view \in Views /\ Loads(m.loads)
    BY <1>types
  <2>4. BagToSet(accepting[m.to][m.view] (+) m.loads)
          = BagToSet(accepting[m.to][m.view]) \cup BagToSet(m.loads)
    BY <1>types, <2>3, BagsAdded
  <2>5. ASSUME NEW n \in Node, NEW v \in Views, NEW l \in BagToSet(accepting'[n][v])
        PROVE  Was(l)
    <3>1. CASE n = m.to /\ v = m.view
      <4>1. accepting'[n][v] = accepting[m.to][m.view] (+) m.loads
        BY <1>types, <2>2, <3>1
      <4> QED
        BY <2>3, <2>4, <2>5, <4>1, <1>was
    <3>2. CASE ~(n = m.to /\ v = m.view)
      <4>1. accepting'[n][v] = accepting[n][v]
        BY <1>types, <2>2, <3>2
      <4> QED
        BY <2>5, <4>1, <1>was
    <3> QED
      BY <3>1, <3>2
  <2> QED
    BY <2>1, <2>5, <1>was
<1>5. ASSUME NEW n \in Node, NEW v \in Views, NEW l \in BagToSet(accepting[n][v]),
             AcceptNewViewPrePrepare(n, v, l)
      PROVE  NetWas /\ LogWas /\ AcceptingWas /\ NewViewWas
  <2>1. UNCHANGED <<loadNet, loadLog, newViewNet>>
    BY <1>5 DEF AcceptNewViewPrePrepare
  <2>2. accepting' = [accepting EXCEPT ![n][v] = @ (-) SetToBag({l})]
    BY <1>5 DEF AcceptNewViewPrePrepare
  <2>3. {l} \subseteq Load
    BY <1>types DEF Loads
  <2>4. BagToSet(accepting[n][v] (-) SetToBag({l})) \subseteq BagToSet(accepting[n][v])
    BY <1>types, <2>3, BagsOfLoads, BagsTaken
  <2>5. \A m \in Node, w \in Views :
          BagToSet(accepting'[m][w]) \subseteq BagToSet(accepting[m][w])
    <3>1. TAKE m \in Node, w \in Views
    <3>2. CASE m = n /\ w = v
      <4>1. accepting'[m][w] = accepting[n][v] (-) SetToBag({l})
        BY <1>types, <2>2, <3>2
      <4> QED
        BY <2>4, <3>2, <4>1
    <3>3. CASE ~(m = n /\ w = v)
      <4>1. accepting'[m][w] = accepting[m][w]
        BY <1>types, <2>2, <3>3
      <4> QED
        BY <4>1
    <3> QED
      BY <3>2, <3>3
  <2> QED
    BY <2>1, <2>5, <1>was
<1>6. ASSUME NEW n \in Node, Order(n) PROVE NetWas /\ LogWas /\ AcceptingWas /\ NewViewWas
  <2>1. UNCHANGED <<loadNet, loadLog, accepting, newViewNet>>
    BY <1>6 DEF Order, SendPreprepare, PrePrepare, RejectPrePrepare,
                CollectedPrepare, Prepare, MonitorPrepare, Commit,
                MonitorCommit, Execute
  <2> QED
    BY <1>0, <2>1
<1>7. ASSUME NEW n \in Node, Time(n) PROVE NetWas /\ LogWas /\ AcceptingWas /\ NewViewWas
  <2>1. CASE UNCHANGED <<loadNet, loadLog, accepting, newViewNet>>
    BY <1>0, <2>1
  <2>2. CASE ~UNCHANGED <<loadNet, loadLog, accepting, newViewNet>>
    <3>1. /\ InitiateViewChange(n) /\ view[n] < MaxView
          /\ UNCHANGED <<loadLog, accepting, newViewNet>>
      BY <1>7, <2>2 DEF Time, TimerThreadWakes, TimerArms, TimerExpires, TimerGoesOn
    <3> QED
      BY <1>1, <3>1
  <2> QED
    BY <2>1, <2>2
<1>8. ASSUME NEW n \in Node, Change(n) PROVE NetWas /\ LogWas /\ AcceptingWas /\ NewViewWas
  <2>1. CASE StartInitiate(n)
    BY <1>1, <2>1 DEF StartInitiate
  <2>2. CASE StartTimer(n)
    BY <1>0, <2>2 DEF StartTimer
  <2>3. ASSUME NEW v \in Views, RequestMoves(n, v) \/ RequestJoins(n, v) \/ RequestNoted(n, v)
        PROVE  NetWas /\ LogWas /\ AcceptingWas /\ NewViewWas
    <3>1. Arrives(n, v) /\ UNCHANGED <<accepting, newViewNet>>
      BY <2>3 DEF RequestMoves, RequestJoins, RequestNoted
    <3> QED
      BY <1>2, <3>1
  <2> QED
    BY <1>3, <1>4, <1>5, <1>8, <2>1, <2>2, <2>3 DEF Change
<1>9. ASSUME \/ \E n \in Node, t \in Tx : TakeTransaction(n, t)
             \/ \E n \in Node : Kill(n)
             \/ TimePasses
             \/ UNCHANGED vars
      PROVE  NetWas /\ LogWas /\ AcceptingWas /\ NewViewWas
  <2>1. UNCHANGED <<loadNet, loadLog, accepting, newViewNet>>
    BY <1>9 DEF TakeTransaction, Kill, TimePasses, vars
  <2> QED
    BY <1>0, <2>1
<1>10. NetWas /\ LogWas /\ AcceptingWas /\ NewViewWas
  BY <1>6, <1>7, <1>8, <1>9 DEF Next
<1>11. ASSUME NEW l, Was(l)
       PROVE  \E p \in proposed' : p.seq = l.seq /\ p.tx = l.tx /\ p.from = l.signer
  BY <1>11, <1>grows DEF Was, Genuine
<1> QED
  BY <1>10, <1>11 DEF GenuineLoads, Genuine

LEMMA AllGenuineNext ==
  ASSUME TypeOK, AllGenuine, [Next]_vars
  PROVE  AllGenuine'
<1>1. \A n \in Node, s \in SeqNums : EntryGenuine(n, s)'
  BY EntriesNext
<1>2. \A m \in prePrepareNet' :
        \E p \in proposed' : p.seq = m.seq /\ p.tx = m.tx /\ p.from = m.from
  <2>grows. proposed \subseteq proposed'
    BY ProposedGrows
  <2>was. \A m \in prePrepareNet :
            \E p \in proposed' : p.seq = m.seq /\ p.tx = m.tx /\ p.from = m.from
    BY <2>grows DEF AllGenuine, Genuine
  <2>1. ASSUME NEW n \in Node, NEW t \in Tx, SendPreprepare(n, t)
        PROVE  \A m \in prePrepareNet' :
                 \E p \in proposed' : p.seq = m.seq /\ p.tx = m.tx /\ p.from = m.from
    <3>1. ASSUME NEW m \in prePrepareNet'
          PROVE  \/ m \in prePrepareNet
                 \/ m.seq = globalSequence[n] + 1 /\ m.tx = t /\ m.from = n
      BY <2>1 DEF SendPreprepare
    <3>2. PICK p \in proposed' :
            p = [view |-> view[n], seq |-> globalSequence[n] + 1, tx |-> t, from |-> n]
      BY <2>1 DEF SendPreprepare
    <3>3. p.seq = globalSequence[n] + 1 /\ p.tx = t /\ p.from = n
      BY <3>2
    <3> QED
      BY <2>was, <3>1, <3>3
  <2>2. ASSUME NEW n \in Node, Order(n),
               ~(\E t \in Tx : SendPreprepare(n, t))
        PROVE  prePrepareNet' \subseteq prePrepareNet
    BY <2>2 DEF Order, PrePrepare, RejectPrePrepare, CollectedPrepare, Prepare,
                MonitorPrepare, Commit, MonitorCommit, Execute
  <2>3. ASSUME NEW n \in Node, Time(n) PROVE UNCHANGED prePrepareNet
    BY <2>3 DEF Time, TimerThreadWakes, TimerArms, TimerExpires, TimerGoesOn
  <2>4. ASSUME NEW n \in Node, Change(n) PROVE UNCHANGED prePrepareNet
    BY <2>4 DEF Change, StartInitiate, StartTimer, RequestMoves, RequestJoins,
                RequestNoted, SendNewView, NewView, AcceptNewViewPrePrepare
  <2>5. ASSUME \/ \E n \in Node, t \in Tx : TakeTransaction(n, t)
               \/ \E n \in Node : Kill(n)
               \/ TimePasses
               \/ UNCHANGED vars
        PROVE  UNCHANGED prePrepareNet
    BY <2>5 DEF TakeTransaction, Kill, TimePasses, vars
  <2> QED
    BY <2>was, <2>1, <2>2, <2>3, <2>4, <2>5 DEF Next
<1> QED
  BY <1>1, <1>2, LoadsNext DEF AllGenuine, EntryGenuine, Genuine, GenuineLoads

-----------------------------------------------------------------------------
(* The initial states.                                                      *)

LEMMA StartFacts ==
  ASSUME NEW st \in Starts
  PROVE  /\ st.first \in Seq(Tx) /\ Len(st.first) \in 0 .. MaxSeq
         /\ DOMAIN st.first \subseteq SeqNums
         /\ \A s \in DOMAIN st.first : st.first[s] \in Tx
         /\ st.held \in [SeqNums -> SUBSET Node]
         /\ st.early \in Nat /\ L \in Node
         /\ \A n \in Node, s \in SeqNums : Came(st, n, s) \in Nat
<1>1. /\ st \in [first : Seq(Tx), held : [SeqNums -> SUBSET Node],
                 gaveUp : BOOLEAN, early : Nat, down : SUBSET Node]
      /\ Len(st.first) <= MaxSeq
  BY StartAssumption DEF StartStates
<1>2. /\ st.first \in Seq(Tx) /\ st.held \in [SeqNums -> SUBSET Node] /\ st.early \in Nat
  BY <1>1
<1>3. /\ Len(st.first) \in 0 .. MaxSeq /\ DOMAIN st.first \subseteq SeqNums
      /\ \A s \in DOMAIN st.first : st.first[s] \in Tx
  BY <1>1, <1>2, BoundAssumption DEF SeqNums
<1>4. L \in Node
  BY LeaderIsNode, ReplicaAssumption DEF L
<1>5. ASSUME NEW n \in Node, NEW s \in SeqNums PROVE Came(st, n, s) \in Nat
  <2>1. st.held[s] \ Malicious \in SUBSET Node
    BY <1>2
  <2>2. Cardinality(st.held[s] \ Malicious) \in Nat
    BY <2>1, Sizes
  <2> QED
    BY <2>2 DEF Came
<1> QED
  BY <1>2, <1>3, <1>4, <1>5

\* A backup that has accepted something has one signal less than numbers.
LEMMA StartSignals ==
  ASSUME NEW st \in Starts, NEW n \in Node, NEW H,
         H = {s \in SeqNums : n \in st.held[s]}
  PROVE  /\ H \in SUBSET Nat
         /\ H # {} => Cardinality(H) - 1 \in 0 .. NotifyCap
<1>1. Cardinality(H) <= NotifyCap + 1
  BY StartAssumption DEF StartStates
<1>2. H \subseteq 1 .. MaxSeq /\ H \in SUBSET Nat
  BY Ranges DEF SeqNums
<1>3. IsFiniteSet(H)
  <2>1. IsFiniteSet(1 .. MaxSeq)
    BY FS_Interval, BoundAssumption
  <2> QED
    BY <1>2, <2>1, FS_Subset
<1>4. Cardinality(H) \in Nat /\ (H # {} => Cardinality(H) # 0)
  BY <1>3, FS_CardinalityType, FS_EmptySet
<1>5. NotifyCap \in Nat
  BY BoundAssumption
<1> QED
  BY <1>1, <1>2, <1>4, <1>5

LEMMA FirstMessages ==
  ASSUME NEW v \in Nat, NEW n \in Node
  PROVE  /\ \A s \in SeqNums, t \in Tx :
              [view |-> v, seq |-> s, tx |-> t, from |-> n] \in Proposal
         /\ \A S \in SUBSET Node, D \in SUBSET SeqNums :
              [to : Node \ S, from : {n}, view : {v}, seq : D, tx : Tx]
                \subseteq PrePrepareMsg
<1>1. ASSUME NEW s \in SeqNums, NEW t \in Tx
      PROVE  [view |-> v, seq |-> s, tx |-> t, from |-> n] \in Proposal
  BY DEF Proposal
<1>2. ASSUME NEW S \in SUBSET Node, NEW D \in SUBSET SeqNums,
             NEW m \in [to : Node \ S, from : {n}, view : {v}, seq : D, tx : Tx]
      PROVE  m \in PrePrepareMsg
  BY DEF PrePrepareMsg
<1> QED
  BY <1>1, <1>2

LEMMA TypeInit == Init => TypeOK
<1> SUFFICES ASSUME Init PROVE TypeOK
  OBVIOUS
<1>1. PICK st \in Starts : InitFrom(st)
  BY DEF Init
<1> DEFINE held(n) == {s \in SeqNums : n \in st.held[s]}
<1>2. /\ st.first \in Seq(Tx) /\ Len(st.first) \in 0 .. MaxSeq
      /\ DOMAIN st.first \subseteq SeqNums
      /\ \A s \in DOMAIN st.first : st.first[s] \in Tx
      /\ st.held \in [SeqNums -> SUBSET Node]
      /\ st.early \in Nat /\ L \in Node
      /\ \A n \in Node, s \in SeqNums : Came(st, n, s) \in Nat
  BY StartFacts
<1>3. \A n \in Node : /\ held(n) \in SUBSET Nat
                      /\ held(n) # {} => Cardinality(held(n)) - 1 \in 0 .. NotifyCap
  BY StartSignals
<1>4. InitView \in Views /\ MaxSeq \in Nat /\ NotifyCap \in Nat
  BY BoundAssumption
<1>from. /\ logs = [n \in Node |-> [s \in SeqNums |-> StartEntry(st, n, s)]]
         /\ prepareTrackers =
              [n \in Node |-> [s \in SeqNums |-> StartTracker(st, n, s)]]
         /\ globalSequence = [n \in Node |-> IF n = L THEN Len(st.first) ELSE 0]
         /\ processPool = [n \in Node |->
              IF n = L THEN {TxId[st.first[s]] : s \in DOMAIN st.first} ELSE held(n)]
         /\ processNotify = [n \in Node |->
              IF held(n) = {} THEN 0 ELSE Cardinality(held(n)) - 1]
         /\ timer = [n \in Node |-> IF held(n) = {} THEN "nil" ELSE "thread"]
         /\ thread \in [Node -> [pc : {"idle", "waiting"}, seq : 0 .. MaxSeq]]
         /\ early = st.early
         /\ isActive = [n \in Node |-> n \notin st.down]
  BY <1>1 DEF InitFrom
<1>5. AdminTypes
  BY <1>4, <1>from DEF Init, AdminTypes
<1>6. LeaderTypes
  <2>1. proposed \subseteq Proposal
    <3>1. ASSUME NEW p \in proposed PROVE p \in Proposal
      <4>1. PICK s \in DOMAIN st.first :
              p = [view |-> InitView, seq |-> s, tx |-> st.first[s], from |-> L]
        BY <1>1, <3>1 DEF InitFrom
      <4>2. s \in SeqNums /\ st.first[s] \in Tx /\ L \in Node /\ InitView \in Nat
        BY <1>2, <1>4, <4>1, Ranges
      <4> QED
        BY <4>1, <4>2, FirstMessages
    <3> QED
      BY <3>1
  <2>2. globalSequence \in [Node -> 0 .. MaxSeq]
    BY <1>2, <1>4, <1>from
  <2> QED
    BY <2>1, <2>2 DEF Init, LeaderTypes
<1>7. EntryTypes
  <2>1. ASSUME NEW n \in Node, NEW s \in SeqNums PROVE StartEntry(st, n, s) \in Entry
    <3>1. Holds(st, n, s) => st.first[s] \in Tx
      BY <1>2 DEF Holds
    <3>2. Came(st, n, s) \in Nat /\ Holds(st, n, s) \in BOOLEAN
      BY <1>2 DEF Holds
    <3>3. (Holds(st, n, s) \/ Came(st, n, s) > 0) \in BOOLEAN
      OBVIOUS
    <3> QED
      BY <1>2, <3>1, <3>2, <3>3 DEF StartEntry, Entry
  <2>2. ASSUME NEW n \in Node, NEW s \in SeqNums PROVE StartTracker(st, n, s) \in Tracker
    BY <1>2 DEF StartTracker, NoTracker, Tracker
  <2>3. /\ logs \in [Node -> [SeqNums -> Entry]]
        /\ prepareTrackers \in [Node -> [SeqNums -> Tracker]]
    BY <1>from, <2>1, <2>2
  <2>4. /\ commitTrackers = [n \in Node |-> [s \in SeqNums |-> NoTracker]]
        /\ executed = [n \in Node |-> <<>>]
    BY DEF Init
  <2>5. NoTracker \in Tracker
    BY DEF NoTracker, Tracker
  <2>6. <<>> \in Seq(Tx)
    OBVIOUS
  <2>7. /\ commitTrackers \in [Node -> [SeqNums -> Tracker]]
        /\ executed \in [Node -> Seq(Tx)]
    BY <2>4, <2>5, <2>6
  <2> QED
    BY <2>3, <2>7 DEF EntryTypes
<1>8. TimerTypes
  <2>1. processPool \in [Node -> SUBSET Nat]
    <3>1. {TxId[st.first[s]] : s \in DOMAIN st.first} \in SUBSET Nat
      BY <1>2, StartAssumption
    <3> QED
      BY <1>3, <1>from, <3>1
  <2>2. processNotify \in [Node -> 0 .. NotifyCap]
    <3>1. \A n \in Node : (IF held(n) = {} THEN 0 ELSE Cardinality(held(n)) - 1)
                            \in 0 .. NotifyCap
      BY <1>3, <1>4
    <3> HIDE DEF held
    <3> QED
      BY <1>from, <3>1
  <2>3. /\ timer \in [Node -> {"nil", "thread", "other"}]
        /\ thread \in [Node -> [pc : {"idle", "arming", "waiting"}, seq : Nat]]
    BY <1>4, <1>from
  <2>4. blocked \in [Node -> 0 .. MaxSeq] /\ due \subseteq Node /\ early \in Nat
    BY <1>2, <1>4, <1>from DEF Init
  <2> QED
    BY <2>1, <2>2, <2>3, <2>4 DEF TimerTypes
<1>9. ChangeTypes
  BY DEF Init, ChangeTypes
<1>10. OrderNetTypes
  <2>1. prePrepareNet \subseteq PrePrepareMsg
    <3>1. prePrepareNet \subseteq [to : Node \ ({L} \cup st.down), from : {L},
            view : {InitView}, seq : DOMAIN st.first, tx : Tx]
      BY <1>1 DEF InitFrom
    <3>2. L \in Node /\ InitView \in Nat /\ DOMAIN st.first \subseteq SeqNums
      BY <1>2, <1>4, Ranges
    <3> QED
      BY <3>1, <3>2, FirstMessages
  <2> QED
    BY <2>1 DEF Init, OrderNetTypes
<1>11. ChangeNetTypes
  BY BagsOfLoads DEF Init, ChangeNetTypes
<1> QED
  BY <1>5, <1>6, <1>7, <1>8, <1>9, <1>10, <1>11 DEF TypeOK

LEMMA UnmovedInit == Init => Unmoved
<1>1. Cardinality({}) = 0
  BY FS_EmptySet
<1> QED
  BY <1>1 DEF Init, Unmoved

LEMMA FirstViewInit == Init => FirstView
<1> SUFFICES ASSUME Init PROVE FirstView
  OBVIOUS
<1>1. PICK st \in Starts : InitFrom(st)
  BY DEF Init
<1> DEFINE held(n) == {s \in SeqNums : n \in st.held[s]}
<1>2. ASSUME NEW n \in Node PROVE Settles(n)
  <2>1. n # L => Follows(n)
    BY DEF Init, Follows
  <2>2. /\ thread[n].pc = "waiting" => timer[n] = "thread"
        /\ thread[n].pc = "idle" /\ n # L => processPool[n] = {}
    <3>1. CASE held(n) = {}
      BY <1>1, <3>1 DEF InitFrom
    <3>2. CASE held(n) # {}
      BY <1>1, <3>2 DEF InitFrom
    <3> QED
      BY <3>1, <3>2
  <2>3. \A v \in Views : requestNet[n][v] = 0
    BY DEF Init
  <2> QED
    BY <2>1, <2>2, <2>3 DEF Settles
<1> QED
  BY <1>2, FirstViewIs

LEMMA AllGenuineInit == Init => AllGenuine
<1> SUFFICES ASSUME Init PROVE AllGenuine
  OBVIOUS
<1>1. PICK st \in Starts : InitFrom(st)
  BY DEF Init
<1>2. ASSUME NEW s \in DOMAIN st.first PROVE Genuine(s, st.first[s], L)
  <2>1. PICK p \in proposed :
          p = [view |-> InitView, seq |-> s, tx |-> st.first[s], from |-> L]
    BY <1>1 DEF InitFrom
  <2> QED
    BY <2>1 DEF Genuine
<1>3. ASSUME NEW n \in Node, NEW s \in SeqNums, logs[n][s].signer # NoNode
      PROVE  Genuine(s, logs[n][s].digest, logs[n][s].signer)
  <2>1. logs[n][s] = StartEntry(st, n, s)
    BY <1>1 DEF InitFrom
  <2>2. Holds(st, n, s)
    BY <1>3, <2>1 DEF StartEntry
  <2>3. s \in DOMAIN st.first /\ logs[n][s].digest = st.first[s] /\ logs[n][s].signer = L
    BY <2>1, <2>2 DEF StartEntry, Holds
  <2> QED
    BY <1>2, <2>3
<1>4. ASSUME NEW m \in prePrepareNet PROVE Genuine(m.seq, m.tx, m.from)
  <2>1. m.seq \in DOMAIN st.first /\ m.tx = st.first[m.seq] /\ m.from = L
    BY <1>1 DEF InitFrom
  <2> QED
    BY <1>2, <2>1
<1>5. /\ \A v \in Views : GenuineLoads(loadNet[v]) /\ GenuineLoads(loadLog[v])
      /\ \A n \in Node, v \in Views : GenuineLoads(accepting[n][v])
      /\ newViewNet = {}
  BY BagsOfLoads DEF Init, GenuineLoads
<1> QED
  BY <1>3, <1>4, <1>5 DEF AllGenuine

-----------------------------------------------------------------------------
(* The invariant, and what follows from it.                                 *)

\* What the theorems below rest on holds in every reachable state: the types,
\* who is behind a view change, how backups in the first view stand, and that
\* everything signed was proposed.
THEOREM IInvInductive == Spec => []IInv
<1>1. Init => IInv
  BY TypeInit, UnmovedInit, FirstViewInit, AllGenuineInit DEF IInv
<1>2. IInv /\ [Next]_vars => IInv'
  <2> SUFFICES ASSUME IInv, [Next]_vars PROVE IInv'
    OBVIOUS
  <2>1. TypeOK'
    BY TypeNext DEF IInv
  <2>2. Unmoved' \/ Moved'
    BY <2>1, UnmovedNext, MovedNext DEF IInv
  <2>3. FirstView'
    BY FirstViewNext DEF IInv
  <2>4. AllGenuine'
    BY AllGenuineNext DEF IInv
  <2> QED
    BY <2>1, <2>2, <2>3, <2>4 DEF IInv
<1> QED
  BY <1>1, <1>2, PTL DEF Spec

\* Whatever messages, goroutines and timers do, F replicas whose timers expire
\* never make another one join or leave the first view, although the counter
\* of checkViewChangeThresholds does not look at who asks.
THEOREM TimersBehindEveryChange == Spec => []TimersBackViewChange
<1>1. IInv => TimersBackViewChange
  <2> SUFFICES ASSUME IInv PROVE TimersBackViewChange
    OBVIOUS
  <2>1. CASE Unmoved
    BY <2>1 DEF Unmoved, TimersBackViewChange
  <2>2. CASE Moved
    BY <2>2 DEF Moved, TimersBackViewChange
  <2> QED
    BY <2>1, <2>2 DEF IInv
<1> QED
  BY <1>1, IInvInductive, PTL

\* No view change invents a proposal: what the new leader sends on was proposed
\* under that number by the replica whose signature it carries.
THEOREM NewViewsCarryProposals == Spec => []ReproposalsGenuine
<1>1. IInv => ReproposalsGenuine
  BY DEF IInv, AllGenuine, ReproposalsGenuine
<1> QED
  BY <1>1, IInvInductive, PTL

\* In the first view timerThread never sleeps over a proposal its replica has
\* accepted, whatever the capacity of processNotify.
THEOREM BackupsWatch == Spec => []AcceptedIsWatched
<1>1. IInv => AcceptedIsWatched
  <2> SUFFICES ASSUME IInv, NEW n \in Node \ {L}, Up(n), view[n] = InitView,
                      newViewMessages[n] = {}, ~isViewChangeProcess[n],
                      processPool[n] # {}
               PROVE  \/ thread[n].pc = "idle" /\ processNotify[n] > 0
                      \/ thread[n].pc = "arming"
                      \/ Runs(n)
    BY DEF AcceptedIsWatched
  <2>1. thread[n].pc \in {"idle", "arming", "waiting"}
    BY DEF IInv, TypeOK, TimerTypes
  <2>2. /\ thread[n].pc = "waiting" => timer[n] = "thread"
        /\ thread[n].pc = "idle" => processNotify[n] > 0
    BY DEF IInv, FirstView
  <2> QED
    BY <2>1, <2>2 DEF Runs
<1> QED
  BY <1>1, IInvInductive, PTL
=============================================================================
