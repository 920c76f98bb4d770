---------------------------- MODULE QuorumProofs ----------------------------
(***************************************************************************)
(* Why an entry of NormalCase is committed only when 2F+1 replicas hold    *)
(* its transaction, for every finite set of replicas and every bound.      *)
(***************************************************************************)
EXTENDS NormalCaseProofs, FiniteSetTheorems

USE DEF Up, Honest, Assigned, Rescan, adminVars, viewVars, leaderVars,
        trackerVars, timerVars, execVars, netVars

-----------------------------------------------------------------------------
(* Counting replicas.                                                       *)

\* Sets of replicas can be counted, and a larger set has no fewer of them.
LEMMA ReplicaCounts ==
  /\ \A S \in SUBSET Node : IsFiniteSet(S) /\ Cardinality(S) \in Nat
  /\ \A T \in SUBSET Node : \A S \in SUBSET T : Cardinality(S) <= Cardinality(T)
  /\ \A S \in SUBSET Node : \A x :
       x \notin S => Cardinality(S \cup {x}) = Cardinality(S) + 1
<1>1. \A S \in SUBSET Node : IsFiniteSet(S)
  BY NodeAssumption, FS_Subset
<1>2. \A S \in SUBSET Node : Cardinality(S) \in Nat
  BY <1>1, FS_CardinalityType
<1>3. \A T \in SUBSET Node : \A S \in SUBSET T : Cardinality(S) <= Cardinality(T)
  BY <1>1, FS_Subset
<1>4. \A S \in SUBSET Node : \A x :
        x \notin S => Cardinality(S \cup {x}) = Cardinality(S) + 1
  BY <1>1, FS_AddElement
<1> QED
  BY <1>1, <1>2, <1>3, <1>4

\* 2F replicas next to the leader are 2F+1, and when no window is open about
\* the sequence number they all keep its transaction.
LEMMA LeaderCompletes ==
  ASSUME NEW s, L \in Holders(s), Uncollected(s),
         Cardinality(Holders(s) \ {L}) >= 2 * F
  PROVE  Quorate(s)
<1>1. Keepers(s) = Holders(s)
  BY DEF Keepers, Holders, Uncollected
<1>2. Holders(s) \ {L} \in SUBSET Node
  BY DEF Holders
<1>3. Holders(s) = (Holders(s) \ {L}) \cup {L}
  OBVIOUS
<1>4. Cardinality(Holders(s)) = Cardinality(Holders(s) \ {L}) + 1
  BY <1>2, <1>3, ReplicaCounts
<1>5. Cardinality(Holders(s) \ {L}) \in Nat
  BY <1>2, ReplicaCounts
<1> QED
  BY <1>1, <1>4, <1>5, SizeAssumption, ReplicaAssumption DEF Quorate

-----------------------------------------------------------------------------
(* Replicas that keep a transaction go on keeping it.                       *)

\* Only the write-back of a window opened before the transaction came takes
\* it out of a log again, and a window opened now has seen it.
ErasedByStaleWindows ==
  \A n \in Node, s \in SeqNums :
    /\ logs'[n][s].tx = NoTx =>
         \/ logs[n][s].tx = NoTx
         \/ \E w \in windows[n] : w.seq = s /\ w.entry.tx = NoTx
    /\ \A w \in windows'[n] :
         w.seq = s => w \in windows[n] \/ w.entry = logs[n][s]

\* The handlers erase nothing.
LEMMA HandleErases ==
  ASSUME IInv, NEW k \in Node, Handle(k)
  PROVE  ErasedByStaleWindows
<1>0. /\ logs \in [Node -> [SeqNums -> Entry]]
      /\ windows \in [Node -> SUBSET Window]
  BY DEF IInv, TypeOK
<1>1. ASSUME NEW m \in prePrepareNet, m.to = k, PrePrepare(m)
      PROVE  ErasedByStaleWindows
  <2>1. m.seq \in SeqNums /\ m.tx \in Tx
    BY DEF IInv, TypeOK, PrePrepareMsg
  <2>2. PrePrepared(logs[k][m.seq], m.tx).tx # NoTx
    BY <1>0, <2>1, EntryFields, TxAssumption
  <2>3. \A n \in Node, s \in SeqNums :
          logs'[n][s].tx = NoTx => logs[n][s].tx = NoTx
    BY <1>0, <1>1, <2>1, <2>2 DEF PrePrepare
  <2> QED
    BY <1>1, <2>3 DEF PrePrepare, ErasedByStaleWindows
<1>2. ASSUME NEW s \in SeqNums, Prepare(k, s) PROVE ErasedByStaleWindows
  <2>1. WithPrepares(logs[k][s], 1).tx = logs[k][s].tx
    BY <1>0, EntryFields
  <2>2. \A n \in Node, q \in SeqNums : logs'[n][q].tx = logs[n][q].tx
    BY <1>0, <1>2, <2>1 DEF Prepare
  <2> QED
    BY <1>2, <2>2 DEF Prepare, ErasedByStaleWindows
<1>3. ASSUME NEW c \in collectedNet, c.to = k, CollectedPrepare(c)
      PROVE  ErasedByStaleWindows
  BY <1>0, <1>3 DEF CollectedPrepare, Opened, ErasedByStaleWindows
<1>4. ASSUME UNCHANGED <<logs, windows>> PROVE ErasedByStaleWindows
  BY <1>4 DEF ErasedByStaleWindows
<1> QED
  BY <1>1, <1>2, <1>3, <1>4
  DEF Handle, RejectPrePrepare, IgnoreCollectedPrepare, Commit, IgnoreVote

\* Of the other goroutines only a write-back does.
LEMMA WorkErases ==
  ASSUME IInv, NEW k \in Node, Work(k)
  PROVE  ErasedByStaleWindows
<1>0. /\ logs \in [Node -> [SeqNums -> Entry]]
      /\ windows \in [Node -> SUBSET Window]
  BY DEF IInv, TypeOK
<1>1. ASSUME NEW t \in Tx, SendPreprepare(k, t) PROVE ErasedByStaleWindows
  <2>1. PrePrepared(NoEntry, t).tx # NoTx
    BY EntryTypes, EntryFields, TxAssumption
  <2>2. \A n \in Node, s \in SeqNums :
          logs'[n][s].tx = NoTx => logs[n][s].tx = NoTx
    BY <1>0, <1>1, <2>1 DEF SendPreprepare
  <2> QED
    BY <1>1, <2>2 DEF SendPreprepare, ErasedByStaleWindows
<1>2. ASSUME NEW s \in SeqNums, MonitorCommit(k, s) PROVE ErasedByStaleWindows
  BY <1>0, <1>2 DEF MonitorCommit, Opened, ErasedByStaleWindows
<1>3. ASSUME NEW w \in windows[k], WriteBack(k, w) PROVE ErasedByStaleWindows
  <2>1. w \in Window
    BY <1>0
  <2>2. Modified(w).tx = w.entry.tx
    BY <2>1, EntryFields
  <2>3. \A n \in Node, s \in SeqNums : logs'[n][s].tx = NoTx =>
          \/ logs[n][s].tx = NoTx
          \/ n = k /\ s = w.seq /\ w.entry.tx = NoTx
    BY <1>0, <1>3, <2>2 DEF WriteBack
  <2>4. \A n \in Node : windows'[n] \subseteq windows[n]
    BY <1>0, <1>3 DEF WriteBack
  <2> QED
    BY <2>3, <2>4 DEF ErasedByStaleWindows
<1>4. ASSUME UNCHANGED <<logs, windows>> PROVE ErasedByStaleWindows
  BY <1>4 DEF ErasedByStaleWindows
<1> QED
  BY <1>1, <1>2, <1>3, <1>4
  DEF Work, ProcessTransaction, MonitorPrepare, CommitTimeout

\* No step erases a transaction otherwise: the copy the executor writes back
\* has one.
LEMMA NextErases ==
  ASSUME IInv, [Next]_vars
  PROVE  ErasedByStaleWindows
<1>0. /\ logs \in [Node -> [SeqNums -> Entry]]
      /\ executor \in [Node -> [pc : {"idle", "scan", "apply"}, entry : Entry]]
      /\ TypeOK /\ LogsFollow /\ ExecutorFollows
  BY DEF IInv, TypeOK
<1>1. ASSUME NEW k \in Node, ExecApply(k) PROVE ErasedByStaleWindows
  <2>1. /\ Proposed(NextSeq(k))
        /\ executor[k].entry.tx = Proposal(NextSeq(k))
    BY <1>0, <1>1 DEF ExecApply, ExecutorFollows
  <2>2. executor[k].entry.tx # NoTx
    BY <1>0, <2>1, ProposedHolds, TxAssumption
  <2>3. [executor[k].entry EXCEPT !.status = "E"].tx # NoTx
    BY <1>0, <2>2, EntryFields
  <2>4. \A n \in Node, s \in SeqNums :
          logs'[n][s].tx = NoTx => logs[n][s].tx = NoTx
    BY <1>0, <1>1, <2>3 DEF ExecApply
  <2> QED
    BY <1>1, <2>4 DEF ExecApply, ErasedByStaleWindows
<1>2. ASSUME UNCHANGED <<logs, windows>> PROVE ErasedByStaleWindows
  BY <1>2 DEF ErasedByStaleWindows
<1>3. ASSUME NEW k \in Node, Execute(k) PROVE ErasedByStaleWindows
  BY <1>1, <1>2, <1>3 DEF Execute, ExecWake, ExecSleep, ExecRead, ExecCrash
<1>4. ASSUME \/ \E n \in Node, t \in Tx : SendTransaction(n, t)
             \/ \E n \in Node : Operate(n)
             \/ UNCHANGED vars
      PROVE  ErasedByStaleWindows
  BY <1>2, <1>4
  DEF SendTransaction, Operate, Kill, Revive, BecomeMalicious, DataRace, vars
<1> QED
  BY <1>3, <1>4, HandleErases, WorkErases DEF Next

\* A quorum that keeps a transaction is never lost.
LEMMA QuorumKept ==
  ASSUME IInv, [Next]_vars, NEW s \in SeqNums, Quorate(s)
  PROVE  Quorate(s)'
<1>1. ErasedByStaleWindows
  BY NextErases
<1>2. Keepers(s) \subseteq Keepers(s)'
  BY <1>1 DEF Keepers, Holders, ErasedByStaleWindows
<1>3. Keepers(s)' \in SUBSET Node
  BY DEF Keepers, Holders
<1>4. /\ Cardinality(Keepers(s)) \in Nat
      /\ Cardinality(Keepers(s)') \in Nat
      /\ Cardinality(Keepers(s)) <= Cardinality(Keepers(s)')
  BY <1>2, <1>3, ReplicaCounts
<1> QED
  BY <1>4, SizeAssumption, ReplicaAssumption DEF Quorate

-----------------------------------------------------------------------------
(* Until prepares have been collected, each stands for a backup.            *)

\* A step that creates no message, window or certificate about a sequence
\* number leaves it uncollected.
LEMMA UncollectedKept ==
  ASSUME TypeOK', NEW s \in SeqNums, Uncollected(s),
         \A c \in collectedNet' : c.seq = s => c \in collectedNet,
         \A n \in Node :
           /\ \A w \in windows'[n] : w.seq = s => w \in windows[n]
           /\ commitNet'[n][s] <= commitNet[n][s]
           /\ commitTrackers'[n][s].monitor = "wait" =>
                commitTrackers[n][s].monitor = "wait"
           /\ logs'[n][s].isCommitted => logs[n][s].isCommitted
           /\ Len(executed'[n]) < s
           /\ executor'[n].pc = "apply" => NextSeq(n)' # s
  PROVE  Uncollected(s)'
<1>1. \A n \in Node : commitNet'[n][s] = 0
  <2>1. \A n \in Node : commitNet'[n][s] \in Nat /\ commitNet[n][s] = 0
    BY DEF TypeOK, Uncollected
  <2> QED
    BY <2>1
<1> QED
  BY <1>1 DEF Uncollected

\* A step that moreover adds no prepares leaves it collecting.
LEMMA CollectingKept ==
  ASSUME IInv, [Next]_vars, TypeOK', NEW s \in SeqNums, Collecting(s),
         \A c \in collectedNet' : c.seq = s => c \in collectedNet,
         \A m \in prePrepareNet' :
           m.seq = s => m \in prePrepareNet /\ logs'[m.to][s].tx = NoTx,
         \A n \in Node :
           /\ \A w \in windows'[n] : w.seq = s => w \in windows[n]
           /\ commitNet'[n][s] <= commitNet[n][s]
           /\ commitTrackers'[n][s].monitor = "wait" =>
                commitTrackers[n][s].monitor = "wait"
           /\ logs'[n][s].isCommitted => logs[n][s].isCommitted
           /\ Len(executed'[n]) < s
           /\ executor'[n].pc = "apply" => NextSeq(n)' # s
           /\ prepareNet'[n][s] + prepareTrackers'[n][s].count
                <= prepareNet[n][s] + prepareTrackers[n][s].count
  PROVE  Collecting(s)'
<1>1. Uncollected(s)
  BY DEF Collecting
<1>2. Uncollected(s)'
  BY <1>1, UncollectedKept
<1>3. Holders(s) \subseteq Holders(s)'
  <2>1. ErasedByStaleWindows
    BY NextErases
  <2> QED
    BY <1>1, <2>1 DEF ErasedByStaleWindows, Holders, Uncollected
<1>4. /\ Cardinality(Holders(s) \ {L}) \in Nat
      /\ Cardinality(Holders(s)' \ {L}) \in Nat
      /\ Cardinality(Holders(s) \ {L}) <= Cardinality(Holders(s)' \ {L})
  <2>1. Holders(s)' \ {L} \in SUBSET Node
    BY DEF Holders
  <2>2. Holders(s) \ {L} \in SUBSET (Holders(s)' \ {L})
    BY <1>3
  <2> QED
    BY <2>1, <2>2, ReplicaCounts
<1>5. ASSUME NEW n \in Node
      PROVE  prepareNet'[n][s] + prepareTrackers'[n][s].count
               <= Cardinality(Holders(s)' \ {L})
  <2>1. /\ prepareNet[n][s] \in Nat /\ prepareTrackers[n][s].count \in Nat
        /\ prepareNet'[n][s] \in Nat /\ prepareTrackers'[n][s].count \in Nat
    BY DEF IInv, TypeOK, Tracker
  <2>2. prepareNet[n][s] + prepareTrackers[n][s].count
          <= Cardinality(Holders(s) \ {L})
    BY DEF Collecting
  <2> QED
    BY <1>4, <2>1, <2>2
<1>6. L' = L
  BY DEF L, Leader
<1> QED
  BY <1>2, <1>5, <1>6 DEF Collecting, Holders

\* What collecting means for one replica, for the steps below.
LEMMA CollectingMeans ==
  ASSUME IInv, NEW s \in SeqNums, Collecting(s)
  PROVE  /\ \A c \in collectedNet : c.seq # s
         /\ \A m \in prePrepareNet : m.seq = s =>
              m.to \in Node /\ logs[m.to][s].tx = NoTx
         /\ \A n \in Node :
              /\ \A w \in windows[n] : w.seq # s
              /\ commitNet[n][s] = 0
              /\ commitTrackers[n][s].monitor # "wait"
              /\ ~logs[n][s].isCommitted
              /\ Len(executed[n]) < s
              /\ executor[n].pc = "apply" => NextSeq(n) # s
              /\ prepareNet[n][s] + prepareTrackers[n][s].count \in Nat
<1>1. Uncollected(s)
  BY DEF Collecting
<1>2. \A m \in prePrepareNet : m.seq = s =>
        m.to \in Node /\ logs[m.to][s].tx = NoTx
  <2>1. prePrepareNet \subseteq PrePrepareMsg
    BY DEF IInv, TypeOK
  <2> QED
    BY <2>1 DEF Collecting, Holders, PrePrepareMsg
<1>3. \A n \in Node :
        prepareNet[n][s] + prepareTrackers[n][s].count \in Nat
  <2>1. /\ prepareNet \in [Node -> [SeqNums -> Nat]]
        /\ prepareTrackers \in [Node -> [SeqNums -> Tracker]]
    BY DEF IInv, TypeOK
  <2>2. \A n \in Node : prepareTrackers[n][s].count \in Nat
    BY <2>1 DEF Tracker
  <2> QED
    BY <2>1, <2>2
<1> QED
  BY <1>1, <1>2, <1>3 DEF Uncollected

\* Steps that leave the logs, the windows and the prepares counted alone, and
\* only take messages away.
LEMMA QuietKeeps ==
  ASSUME IInv, [Next]_vars, NEW s \in SeqNums, Collecting(s),
         UNCHANGED <<logs, windows, executed, prepareTrackers>>,
         collectedNet' \subseteq collectedNet,
         prePrepareNet' \subseteq prePrepareNet,
         \A n \in Node :
           /\ commitNet'[n][s] <= commitNet[n][s]
           /\ prepareNet'[n][s] <= prepareNet[n][s]
           /\ commitTrackers'[n][s].monitor = "wait" =>
                commitTrackers[n][s].monitor = "wait"
           /\ executor'[n].pc = "apply" => executor[n].pc = "apply"
  PROVE  Collecting(s)'
<1>1. TypeOK'
  BY TypeNext
<1>2. ASSUME NEW n \in Node
      PROVE  prepareNet'[n][s] + prepareTrackers'[n][s].count
               <= prepareNet[n][s] + prepareTrackers[n][s].count
  <2>1. /\ prepareNet[n][s] \in Nat /\ prepareNet'[n][s] \in Nat
        /\ prepareTrackers[n][s].count \in Nat
    BY <1>1 DEF IInv, TypeOK, Tracker
  <2> QED
    BY <2>1
<1>3. \A n \in Node : NextSeq(n)' = NextSeq(n)
  BY DEF NextSeq
<1> QED
  BY <1>1, <1>2, <1>3, CollectingMeans, CollectingKept

\* The handlers: a PrePrepare turns one message into one holder and at most
\* one prepare, and a Prepare turns one prepare on its way into a counted one.
LEMMA HandleCollects ==
  ASSUME QuorumInv, [Next]_vars, NEW k \in Node, Handle(k),
         NEW s \in SeqNums, Collecting(s)
  PROVE  Collecting(s)'
<1>0. /\ IInv /\ TypeOK /\ TypeOK' /\ MessagesFollow /\ OneProposalEach
  BY TypeNext DEF QuorumInv, IInv
<1>state. /\ logs \in [Node -> [SeqNums -> Entry]]
         /\ windows \in [Node -> SUBSET Window]
         /\ prepareNet \in [Node -> [SeqNums -> Nat]]
         /\ commitNet \in [Node -> [SeqNums -> Nat]]
         /\ prepareTrackers \in [Node -> [SeqNums -> Tracker]]
         /\ commitTrackers \in [Node -> [SeqNums -> Tracker]]
         /\ prePrepareNet \subseteq PrePrepareMsg
  BY <1>0 DEF TypeOK
<1>counts. \A n \in Node : prepareTrackers[n][s].count \in Nat
  BY <1>state DEF Tracker
<1>means. /\ \A c \in collectedNet : c.seq # s
         /\ \A m \in prePrepareNet : m.seq = s => logs[m.to][s].tx = NoTx
  BY <1>0, CollectingMeans
<1>zero. \A n \in Node : commitNet[n][s] = 0
  BY <1>0, CollectingMeans
<1>later. \A n \in Node : /\ Len(executed[n]) < s
                          /\ executor[n].pc = "apply" => NextSeq(n) # s
  BY <1>0, CollectingMeans
<1>1. ASSUME NEW m \in prePrepareNet, m.to = k, PrePrepare(m)
      PROVE  Collecting(s)'
  <2>1. m \in PrePrepareMsg /\ m.to \in Node /\ m.tx \in Tx /\ m.seq \in SeqNums
    BY <1>state DEF PrePrepareMsg
  <2>2. UNCHANGED <<commitNet, prepareTrackers, commitTrackers, windows,
                    executed, executor, collectedNet>>
    BY <1>1 DEF PrePrepare
  <2>3. PICK e : /\ logs' = [logs EXCEPT ![k][m.seq] = e]
                 /\ e.tx # NoTx
                 /\ e.isCommitted = logs[k][m.seq].isCommitted
    <3>1. /\ PrePrepared(logs[k][m.seq], m.tx).tx # NoTx
          /\ PrePrepared(logs[k][m.seq], m.tx).isCommitted
               = logs[k][m.seq].isCommitted
      BY <1>state, <2>1, EntryFields, TxAssumption
    <3> QED
      BY <1>1, <3>1 DEF PrePrepare
  <2>4. \A n \in Node : /\ logs'[n][s].isCommitted = logs[n][s].isCommitted
                        /\ (n # k \/ m.seq # s) => logs'[n][s] = logs[n][s]
    BY <1>state, <2>1, <2>3
  <2>5. \A n \in Node :
          /\ Len(executed'[n]) < s
          /\ executor'[n].pc = "apply" => NextSeq(n)' # s
    BY <1>later, <2>2 DEF NextSeq
  <2>6. \A n \in Node : commitNet'[n][s] <= commitNet[n][s]
    BY <1>state, <2>2
  <2>7. prePrepareNet' = prePrepareNet \ {m}
    BY <1>1 DEF PrePrepare
  <2>8. CASE m.seq # s
    <3>1. \A n \in Node : prepareNet'[n][s] = prepareNet[n][s]
      BY <1>1, <1>state, <2>8 DEF PrePrepare, Sent
    <3>2. \A n \in Node :
            prepareNet'[n][s] + prepareTrackers'[n][s].count
              <= prepareNet[n][s] + prepareTrackers[n][s].count
      BY <1>state, <1>counts, <2>2, <3>1
    <3>3. \A o \in prePrepareNet' :
            o.seq = s => o \in prePrepareNet /\ logs'[o.to][s].tx = NoTx
      BY <1>state, <1>means, <2>4, <2>7, <2>8 DEF PrePrepareMsg
    <3> QED
      BY <1>0, <2>2, <2>4, <2>5, <2>6, <3>2, <3>3, CollectingKept
  <2>9. CASE m.seq = s
    <3>1. Uncollected(s)'
      <4>1. Uncollected(s)
        BY DEF Collecting
      <4> QED
        BY <1>0, <2>2, <2>4, <2>5, <2>6, <4>1, UncollectedKept
    <3>2. Holders(s)' \ {L} = (Holders(s) \ {L}) \cup {k}
      <4>1. k # L
        BY <1>0, <1>1 DEF OneProposalEach
      <4>2. logs'[k][s].tx # NoTx
        BY <1>state, <2>1, <2>3, <2>9
      <4> QED
        BY <2>4, <4>1, <4>2 DEF Holders
    <3>3. k \notin Holders(s)
      BY <1>1, <1>means, <2>9 DEF Holders
    <3>4. /\ Cardinality(Holders(s)' \ {L}) = Cardinality(Holders(s) \ {L}) + 1
          /\ Cardinality(Holders(s) \ {L}) \in Nat
      <4>1. Holders(s) \ {L} \in SUBSET Node /\ k \notin Holders(s) \ {L}
        BY <3>3 DEF Holders
      <4> QED
        BY <3>2, <4>1, ReplicaCounts
    <3>5. ASSUME NEW n \in Node
          PROVE  prepareNet'[n][s] + prepareTrackers'[n][s].count
                   <= Cardinality(Holders(s)' \ {L})
      <4>1. PICK a \in Nat, b \in Nat :
              a = prepareNet[n][s] /\ b = prepareTrackers[n][s].count
        BY <1>state, <1>counts
      <4>2. prepareNet'[n][s] = a \/ prepareNet'[n][s] = a + 1
        <5>1. \/ prepareNet' = prepareNet
              \/ prepareNet' = Sent(prepareNet, {Collector(view[k])}, s)
          BY <1>1, <2>9 DEF PrePrepare
        <5> QED
          BY <1>state, <4>1, <5>1 DEF Sent
      <4>3. prepareTrackers'[n][s].count = b
        BY <2>2, <4>1
      <4>4. a + b <= Cardinality(Holders(s) \ {L})
        BY <4>1 DEF Collecting
      <4> QED
        BY <3>4, <4>2, <4>3, <4>4
    <3>6. ASSUME NEW o \in prePrepareNet', o.seq = s
          PROVE  o.to \notin Holders(s)'
      <4>1. o \in prePrepareNet /\ o # m /\ o \in PrePrepareMsg
        BY <1>state, <2>7, <3>6
      <4>2. o.tx = m.tx /\ o.from = m.from /\ o.view = m.view
        BY <1>0, <2>9, <3>6, <4>1 DEF MessagesFollow, OneProposalEach
      <4>3. o.to # k
        BY <1>1, <2>1, <2>9, <3>6, <4>1, <4>2 DEF PrePrepareMsg
      <4> QED
        BY <1>means, <2>4, <3>6, <4>1, <4>3 DEF Holders, PrePrepareMsg
    <3>7. L' = L
      BY DEF L, Leader
    <3> QED
      BY <3>1, <3>5, <3>6, <3>7 DEF Collecting
  <2> QED
    BY <2>8, <2>9
<1>2. ASSUME NEW m \in prePrepareNet, RejectPrePrepare(m)
      PROVE  Collecting(s)'
  <2>1. /\ UNCHANGED <<logs, windows, executed, prepareTrackers, commitNet,
                       prepareNet, commitTrackers, executor, collectedNet>>
        /\ prePrepareNet' \subseteq prePrepareNet
    BY <1>2 DEF RejectPrePrepare
  <2>2. \A n \in Node : /\ commitNet'[n][s] <= commitNet[n][s]
                        /\ prepareNet'[n][s] <= prepareNet[n][s]
    BY <1>state, <2>1
  <2> QED
    BY <1>0, <2>1, <2>2, QuietKeeps
<1>3. ASSUME NEW c \in collectedNet, c.to = k, CollectedPrepare(c)
      PROVE  Collecting(s)'
  <2>1. \A n \in Node : \A w \in windows'[n] : w.seq = s => w \in windows[n]
    BY <1>3, <1>state, <1>means DEF CollectedPrepare, Opened
  <2>2. /\ UNCHANGED <<logs, commitNet, prepareNet, prepareTrackers,
                       commitTrackers, executed, executor, prePrepareNet>>
        /\ collectedNet' \subseteq collectedNet
    BY <1>3 DEF CollectedPrepare
  <2>3. \A n \in Node :
          /\ commitNet'[n][s] <= commitNet[n][s]
          /\ prepareNet'[n][s] + prepareTrackers'[n][s].count
               <= prepareNet[n][s] + prepareTrackers[n][s].count
    BY <1>state, <1>counts, <2>2
  <2>4. \A n \in Node :
          /\ Len(executed'[n]) < s
          /\ executor'[n].pc = "apply" => NextSeq(n)' # s
    BY <1>later, <2>2 DEF NextSeq
  <2>5. \A m \in prePrepareNet' :
          m.seq = s => m \in prePrepareNet /\ logs'[m.to][s].tx = NoTx
    BY <1>means, <2>2
  <2> QED
    BY <1>0, <2>1, <2>2, <2>3, <2>4, <2>5, CollectingKept
<1>4. ASSUME NEW c \in collectedNet, IgnoreCollectedPrepare(c)
      PROVE  Collecting(s)'
  <2>1. /\ UNCHANGED <<logs, windows, executed, prepareTrackers, commitNet,
                       prepareNet, commitTrackers, executor, prePrepareNet>>
        /\ collectedNet' \subseteq collectedNet
    BY <1>4 DEF IgnoreCollectedPrepare
  <2>2. \A n \in Node : /\ commitNet'[n][s] <= commitNet[n][s]
                        /\ prepareNet'[n][s] <= prepareNet[n][s]
    BY <1>state, <2>1
  <2> QED
    BY <1>0, <2>1, <2>2, QuietKeeps
<1>5. ASSUME NEW q \in SeqNums, Prepare(k, q) PROVE Collecting(s)'
  <2>1. \A n \in Node :
          prepareNet'[n][s] + prepareTrackers'[n][s].count
            <= prepareNet[n][s] + prepareTrackers[n][s].count
    BY <1>5, <1>state, <1>counts DEF Prepare, Received, Counted
  <2>2. \A n \in Node :
          /\ logs'[n][s].isCommitted = logs[n][s].isCommitted
          /\ logs'[n][s].tx = logs[n][s].tx
    <3>1. logs[k][q] \in Entry
      BY <1>state
    <3>2. /\ WithPrepares(logs[k][q], 1).isCommitted = logs[k][q].isCommitted
          /\ WithPrepares(logs[k][q], 1).tx = logs[k][q].tx
      BY <3>1, EntryFields
    <3> QED
      BY <1>5, <1>state, <3>2 DEF Prepare
  <2>3. UNCHANGED <<commitNet, commitTrackers, windows, executed, executor,
                    prePrepareNet, collectedNet>>
    BY <1>5 DEF Prepare
  <2>4. \A n \in Node :
          /\ Len(executed'[n]) < s
          /\ executor'[n].pc = "apply" => NextSeq(n)' # s
    BY <1>later, <2>3 DEF NextSeq
  <2>6. \A n \in Node : commitNet'[n][s] <= commitNet[n][s]
    BY <1>state, <2>3
  <2>5. \A m \in prePrepareNet' :
          m.seq = s => m \in prePrepareNet /\ logs'[m.to][s].tx = NoTx
    BY <1>state, <1>means, <2>2, <2>3 DEF PrePrepareMsg
  <2> QED
    BY <1>0, <2>1, <2>2, <2>3, <2>4, <2>5, <2>6, CollectingKept
<1>6. ASSUME NEW q \in SeqNums, Commit(k, q) PROVE Collecting(s)'
  <2>1. q # s
    <3>1. commitNet[k][q] > 0
      BY <1>6 DEF Commit
    <3> QED
      BY <3>1, <1>zero
  <2>2. \A n \in Node : /\ commitNet'[n][s] = commitNet[n][s]
                        /\ commitTrackers'[n][s] = commitTrackers[n][s]
    BY <1>6, <1>state, <2>1 DEF Commit, Received
  <2>3. UNCHANGED <<logs, windows, executed, prepareTrackers, prepareNet,
                    executor, collectedNet, prePrepareNet>>
    BY <1>6 DEF Commit
  <2>4. \A n \in Node : /\ commitNet'[n][s] <= commitNet[n][s]
                        /\ prepareNet'[n][s] <= prepareNet[n][s]
    BY <1>state, <2>2, <2>3
  <2> QED
    BY <1>0, <2>2, <2>3, <2>4, QuietKeeps
<1>7. ASSUME NEW q \in SeqNums, IgnoreVote(k, q) PROVE Collecting(s)'
  <2>1. \A n \in Node : /\ commitNet'[n][s] <= commitNet[n][s]
                        /\ prepareNet'[n][s] <= prepareNet[n][s]
    <3>1. ASSUME NEW net \in [Node -> [SeqNums -> Nat]]
          PROVE  \A n \in Node : /\ net[n][s] <= net[n][s]
                                 /\ Received(net, k, q)[n][s] <= net[n][s]
      BY DEF Received
    <3>2. /\ prepareNet' = prepareNet \/ prepareNet' = Received(prepareNet, k, q)
          /\ commitNet' = commitNet \/ commitNet' = Received(commitNet, k, q)
      BY <1>7 DEF IgnoreVote
    <3>3. \A n \in Node :
            /\ prepareNet[n][s] <= prepareNet[n][s]
            /\ Received(prepareNet, k, q)[n][s] <= prepareNet[n][s]
            /\ commitNet[n][s] <= commitNet[n][s]
            /\ Received(commitNet, k, q)[n][s] <= commitNet[n][s]
      BY <1>state, <3>1
    <3> QED
      BY <3>2, <3>3
  <2>2. UNCHANGED <<logs, windows, executed, prepareTrackers, commitTrackers,
                    executor, collectedNet, prePrepareNet>>
    BY <1>7 DEF IgnoreVote
  <2> QED
    BY <1>0, <2>1, <2>2, QuietKeeps
<1> QED
  BY <1>1, <1>2, <1>3, <1>4, <1>5, <1>6, <1>7 DEF Handle

\* The leader's proposal starts the collecting: nobody holds a transaction for
\* the new number, so no other can be collected for it.
LEMMA ProposalCollects ==
  ASSUME QuorumInv, [Next]_vars, NEW k \in Node, NEW t \in Tx,
         SendPreprepare(k, t), NEW s \in SeqNums, Collecting(s)
  PROVE  Collecting(s)'
<1>0. /\ IInv /\ TypeOK /\ TypeOK' /\ MessagesFollow /\ LogsFollow
      /\ OnlyLeaderProposes
  BY TypeNext DEF QuorumInv, IInv
<1>state. /\ logs \in [Node -> [SeqNums -> Entry]]
         /\ prepareNet \in [Node -> [SeqNums -> Nat]]
         /\ commitNet \in [Node -> [SeqNums -> Nat]]
         /\ prepareTrackers \in [Node -> [SeqNums -> Tracker]]
         /\ globalSequence \in [Node -> 0 .. MaxSeq]
         /\ spawned \in [Node -> [Tx -> Nat]]
         /\ prePrepareNet \subseteq PrePrepareMsg
  BY <1>0 DEF TypeOK
<1>counts. \A n \in Node : prepareTrackers[n][s].count \in Nat
  BY <1>state DEF Tracker
<1>means. \A m \in prePrepareNet : m.seq = s => logs[m.to][s].tx = NoTx
  BY <1>0, CollectingMeans
<1>later. \A n \in Node : /\ Len(executed[n]) < s
                          /\ executor[n].pc = "apply" => NextSeq(n) # s
  BY <1>0, CollectingMeans
<1>1. k = L
  BY <1>0, <1>state DEF SendPreprepare, OnlyLeaderProposes
<1>2. PICK q \in SeqNums : q = globalSequence[k] + 1
  BY <1>0, <1>state, SizeAssumption, ReplicaAssumption DEF SendPreprepare, SeqNums
<1>3. ~Proposed(q)
  BY <1>1, <1>2, <1>state, SizeAssumption, ReplicaAssumption DEF Proposed
<1>4. /\ UNCHANGED <<commitNet, prepareNet, prepareTrackers, commitTrackers,
                     windows, executed, executor, collectedNet>>
      /\ logs' = [logs EXCEPT ![k][q] = PrePrepared(NoEntry, t)]
  BY <1>2 DEF SendPreprepare
<1>5. ~PrePrepared(NoEntry, t).isCommitted
  BY DEF PrePrepared, NoEntry
<1>6. \A n \in Node : logs'[n][s].isCommitted => logs[n][s].isCommitted
  BY <1>state, <1>4, <1>5
<1>7. \A m \in prePrepareNet' : m.seq = s =>
        \/ m \in prePrepareNet /\ m.seq # q
        \/ s = q /\ m.to \in Node \ {k}
  <2>1. \A m \in prePrepareNet : m.seq # q
    BY <1>0, <1>3 DEF MessagesFollow
  <2>2. \A m \in prePrepareNet' :
          m \in prePrepareNet \/ (m.seq = q /\ m.to \in Node \ {k})
    BY <1>2 DEF SendPreprepare
  <2> QED
    BY <2>1, <2>2
<1>8. CASE s # q
  <2>1. \A n \in Node : logs'[n][s] = logs[n][s]
    BY <1>state, <1>4, <1>8
  <2>2. \A m \in prePrepareNet' :
          m.seq = s => m \in prePrepareNet /\ logs'[m.to][s].tx = NoTx
    BY <1>state, <1>means, <1>7, <1>8, <2>1 DEF PrePrepareMsg
  <2>3. \A n \in Node :
          /\ commitNet'[n][s] <= commitNet[n][s]
          /\ prepareNet'[n][s] + prepareTrackers'[n][s].count
               <= prepareNet[n][s] + prepareTrackers[n][s].count
    BY <1>state, <1>counts, <1>4
  <2>4. \A n \in Node :
          /\ Len(executed'[n]) < s
          /\ executor'[n].pc = "apply" => NextSeq(n)' # s
    BY <1>later, <1>4 DEF NextSeq
  <2> QED
    BY <1>0, <1>4, <1>6, <2>2, <2>3, <2>4, CollectingKept
<1>9. CASE s = q
  <2>1. Uncollected(s)'
    <3>1. Uncollected(s)
      BY DEF Collecting
    <3>2. \A n \in Node : commitNet'[n][s] <= commitNet[n][s]
      BY <1>state, <1>4
    <3>3. \A n \in Node :
            /\ Len(executed'[n]) < s
            /\ executor'[n].pc = "apply" => NextSeq(n)' # s
      BY <1>later, <1>4 DEF NextSeq
    <3> QED
      BY <1>0, <1>4, <1>6, <3>1, <3>2, <3>3, UncollectedKept
  <2>2. \A n \in Node : logs[n][s].tx = NoTx
    BY <1>0, <1>3, <1>9 DEF LogsFollow
  <2>3. \A n \in Node \ {L} : logs'[n][s].tx = NoTx
    BY <1>1, <1>state, <1>4, <2>2
  <2>4. Holders(s) \ {L} = Holders(s)' \ {L}
    BY <2>2, <2>3 DEF Holders
  <2>5. \A n \in Node : prepareNet'[n][s] + prepareTrackers'[n][s].count
                          <= Cardinality(Holders(s)' \ {L})
    <3>1. \A n \in Node : prepareNet[n][s] + prepareTrackers[n][s].count
                            <= Cardinality(Holders(s) \ {L})
      BY DEF Collecting
    <3> QED
      BY <1>4, <2>4, <3>1
  <2>6. \A m \in prePrepareNet' : m.seq = s => m.to \notin Holders(s)'
    BY <1>1, <1>7, <1>9, <2>3 DEF Holders
  <2>7. L' = L
    BY DEF L, Leader
  <2> QED
    BY <2>1, <2>5, <2>6, <2>7 DEF Collecting
<1> QED
  BY <1>8, <1>9

\* The other goroutines: the collector sends what it has collected only when
\* 2F backups and the leader hold the transaction, and no window is open then.
LEMMA WorkCollects ==
  ASSUME QuorumInv, [Next]_vars, NEW k \in Node, Work(k),
         NEW s \in SeqNums, Collecting(s)
  PROVE  Collecting(s)' \/ Quorate(s)'
<1>0. /\ IInv /\ TypeOK /\ TypeOK' /\ LogsFollow /\ TrackersFollow
  BY TypeNext DEF QuorumInv, IInv
<1>state. /\ logs \in [Node -> [SeqNums -> Entry]]
         /\ windows \in [Node -> SUBSET Window]
         /\ prepareNet \in [Node -> [SeqNums -> Nat]]
         /\ commitNet \in [Node -> [SeqNums -> Nat]]
         /\ prepareTrackers \in [Node -> [SeqNums -> Tracker]]
         /\ commitTrackers \in [Node -> [SeqNums -> Tracker]]
  BY <1>0 DEF TypeOK
<1>counts. \A n \in Node : prepareTrackers[n][s].count \in Nat
  BY <1>state DEF Tracker
<1>same. \A n \in Node : /\ commitNet[n][s] <= commitNet[n][s]
                         /\ prepareNet[n][s] <= prepareNet[n][s]
  BY <1>state
<1>means. \A m \in prePrepareNet : m.seq = s => logs[m.to][s].tx = NoTx
  BY <1>0, CollectingMeans
<1>none. \A n \in Node : /\ commitTrackers[n][s].monitor # "wait"
                         /\ \A w \in windows[n] : w.seq # s
  BY <1>0, CollectingMeans
<1>later. \A n \in Node : /\ Len(executed[n]) < s
                          /\ executor[n].pc = "apply" => NextSeq(n) # s
  BY <1>0, CollectingMeans
<1>1. ASSUME ProcessTransaction(k) PROVE Collecting(s)'
  <2>1. UNCHANGED <<logs, windows, executed, prepareTrackers, commitNet,
                    prepareNet, commitTrackers, executor, collectedNet,
                    prePrepareNet>>
    BY <1>1 DEF ProcessTransaction
  <2> QED
    BY <1>0, <1>same, <2>1, QuietKeeps
<1>2. ASSUME NEW t \in Tx, SendPreprepare(k, t) PROVE Collecting(s)'
  BY <1>2, ProposalCollects
<1>3. ASSUME NEW q \in SeqNums, MonitorPrepare(k, q)
      PROVE  Collecting(s)' \/ Quorate(s)'
  <2>1. UNCHANGED <<logs, windows, executed, commitNet, prepareNet,
                    commitTrackers, executor, prePrepareNet>>
    BY <1>3 DEF MonitorPrepare
  <2>2. prepareTrackers' = [prepareTrackers EXCEPT ![k][q] = Ended(@)]
    BY <1>3 DEF MonitorPrepare
  <2>3. \A n \in Node : prepareTrackers'[n][s].count = prepareTrackers[n][s].count
    <3>1. \A o \in Tracker : Ended(o).count = o.count
      BY DEF Ended, Tracker
    <3> QED
      BY <1>state, <2>2, <3>1
  <2>4. \A n \in Node :
          prepareNet'[n][s] + prepareTrackers'[n][s].count
            <= prepareNet[n][s] + prepareTrackers[n][s].count
    BY <1>state, <1>counts, <2>1, <2>3
  <2>5. \A n \in Node :
          /\ Len(executed'[n]) < s
          /\ executor'[n].pc = "apply" => NextSeq(n)' # s
    BY <1>later, <2>1 DEF NextSeq
  <2>6. CASE \A c \in collectedNet' : c.seq = s => c \in collectedNet
    BY <1>0, <1>same, <1>means, <2>1, <2>4, <2>5, <2>6, CollectingKept
  <2>7. CASE ~ \A c \in collectedNet' : c.seq = s => c \in collectedNet
    <3>1. q = s /\ Prepared(prepareTrackers[k][s].count)
      BY <1>3, <2>7 DEF MonitorPrepare, SendCollectedPrepare
    <3>2. prepareTrackers[k][s].monitor = "wait"
      BY <1>3, <3>1 DEF MonitorPrepare
    <3>3. L \in Holders(s)
      BY <1>0, <3>2, LeaderIsNode DEF TrackersFollow, LogsFollow, Proposal, Holders
    <3>4. Cardinality(Holders(s) \ {L}) >= 2 * F
      <4>1. PICK a \in Nat, b \in Nat :
              a = prepareNet[k][s] /\ b = prepareTrackers[k][s].count
        BY <1>state, <1>counts
      <4>2. a + b <= Cardinality(Holders(s) \ {L})
        BY <4>1 DEF Collecting
      <4>3. Cardinality(Holders(s) \ {L}) \in Nat
        BY ReplicaCounts DEF Holders
      <4> QED
        BY <3>1, <4>1, <4>2, <4>3, SizeAssumption, ReplicaAssumption DEF Prepared
    <3>5. Quorate(s)
      BY <3>3, <3>4, LeaderCompletes DEF Collecting
    <3> QED
      BY <1>0, <3>5, QuorumKept
  <2> QED
    BY <2>6, <2>7
<1>4. ASSUME NEW q \in SeqNums, MonitorCommit(k, q) PROVE Collecting(s)'
  <2>1. UNCHANGED <<logs, executed, commitNet, prepareNet, prepareTrackers,
                    executor, prePrepareNet, collectedNet>>
    BY <1>4 DEF MonitorCommit
  <2>2. q # s
    BY <1>4, <1>none DEF MonitorCommit
  <2>3. \A n \in Node : commitTrackers'[n][s] = commitTrackers[n][s]
    BY <1>4, <1>state, <2>2 DEF MonitorCommit
  <2>4. \A n \in Node : \A w \in windows'[n] : w.seq = s => w \in windows[n]
    BY <1>4, <1>state, <2>2 DEF MonitorCommit, Opened
  <2>5. \A n \in Node :
          prepareNet'[n][s] + prepareTrackers'[n][s].count
            <= prepareNet[n][s] + prepareTrackers[n][s].count
    BY <1>state, <1>counts, <2>1
  <2>6. \A n \in Node :
          /\ Len(executed'[n]) < s
          /\ executor'[n].pc = "apply" => NextSeq(n)' # s
    BY <1>later, <2>1 DEF NextSeq
  <2> QED
    BY <1>0, <1>same, <1>means, <2>1, <2>3, <2>4, <2>5, <2>6, CollectingKept
<1>5. ASSUME NEW q \in SeqNums, CommitTimeout(k, q) PROVE Collecting(s)'
  <2>1. UNCHANGED <<logs, windows, executed, prepareTrackers, commitNet,
                    prepareNet, executor, collectedNet, prePrepareNet>>
    BY <1>5 DEF CommitTimeout
  <2>2. q # s
    BY <1>5, <1>none DEF CommitTimeout
  <2>3. \A n \in Node : commitTrackers'[n][s] = commitTrackers[n][s]
    BY <1>5, <1>state, <2>2 DEF CommitTimeout
  <2> QED
    BY <1>0, <1>same, <2>1, <2>3, QuietKeeps
<1>6. ASSUME NEW w \in windows[k], WriteBack(k, w) PROVE Collecting(s)'
  <2>1. w.seq # s
    BY <1>none
  <2>2. UNCHANGED <<executed, prepareNet, prepareTrackers, commitTrackers,
                    executor, prePrepareNet, collectedNet>>
    BY <1>6 DEF WriteBack
  <2>3. \A n \in Node : logs'[n][s] = logs[n][s]
    <3>1. \/ logs' = logs
          \/ \E e : logs' = [logs EXCEPT ![k][w.seq] = e]
      BY <1>6 DEF WriteBack
    <3>2. ASSUME NEW e, logs' = [logs EXCEPT ![k][w.seq] = e], NEW n \in Node
          PROVE  logs'[n][s] = logs[n][s]
      BY <1>state, <2>1, <3>2
    <3> QED
      BY <3>1, <3>2
  <2>4. \A n \in Node : commitNet'[n][s] <= commitNet[n][s]
    <3>1. \/ commitNet' = commitNet
          \/ commitNet' = Sent(commitNet, Node \ {k}, w.seq)
      BY <1>6 DEF WriteBack
    <3> QED
      BY <1>state, <1>same, <2>1, <3>1 DEF Sent
  <2>5. \A n \in Node : \A v \in windows'[n] : v.seq = s => v \in windows[n]
    BY <1>6, <1>state DEF WriteBack
  <2>6. \A n \in Node :
          prepareNet'[n][s] + prepareTrackers'[n][s].count
            <= prepareNet[n][s] + prepareTrackers[n][s].count
    BY <1>state, <1>counts, <2>2
  <2>7. \A n \in Node :
          /\ Len(executed'[n]) < s
          /\ executor'[n].pc = "apply" => NextSeq(n)' # s
    BY <1>later, <2>2 DEF NextSeq
  <2>8. \A m \in prePrepareNet' :
          m.seq = s => m \in prePrepareNet /\ logs'[m.to][s].tx = NoTx
    <3>1. prePrepareNet \subseteq PrePrepareMsg
      BY <1>0 DEF TypeOK
    <3> QED
      BY <1>means, <2>2, <2>3, <3>1 DEF PrePrepareMsg
  <2> QED
    BY <1>0, <2>2, <2>3, <2>4, <2>5, <2>6, <2>7, <2>8, CollectingKept
<1> QED
  BY <1>1, <1>2, <1>3, <1>4, <1>5, <1>6 DEF Work

\* The executor applies what is committed, never what is being collected.
LEMMA ExecuteCollects ==
  ASSUME QuorumInv, [Next]_vars, NEW k \in Node, Execute(k),
         NEW s \in SeqNums, Collecting(s)
  PROVE  Collecting(s)'
<1>0. IInv /\ TypeOK /\ TypeOK'
  BY TypeNext DEF QuorumInv, IInv
<1>state. /\ logs \in [Node -> [SeqNums -> Entry]]
         /\ executor \in [Node -> [pc : {"idle", "scan", "apply"}, entry : Entry]]
         /\ executed \in [Node -> Seq(Tx)]
         /\ prepareNet \in [Node -> [SeqNums -> Nat]]
         /\ commitNet \in [Node -> [SeqNums -> Nat]]
         /\ prepareTrackers \in [Node -> [SeqNums -> Tracker]]
         /\ prePrepareNet \subseteq PrePrepareMsg
  BY <1>0 DEF TypeOK
<1>counts. \A n \in Node : prepareTrackers[n][s].count \in Nat
  BY <1>state DEF Tracker
<1>same. \A n \in Node : /\ commitNet[n][s] <= commitNet[n][s]
                         /\ prepareNet[n][s] <= prepareNet[n][s]
  BY <1>state
<1>means. \A m \in prePrepareNet : m.seq = s => logs[m.to][s].tx = NoTx
  BY <1>0, CollectingMeans
<1>later. \A n \in Node : /\ ~logs[n][s].isCommitted
                          /\ Len(executed[n]) < s
                          /\ executor[n].pc = "apply" => NextSeq(n) # s
  BY <1>0, CollectingMeans
<1>1. ASSUME ExecWake(k) \/ ExecSleep(k) \/ ExecCrash(k) PROVE Collecting(s)'
  <2>1. UNCHANGED <<logs, windows, executed, prepareTrackers, commitNet,
                    prepareNet, commitTrackers, collectedNet, prePrepareNet>>
    BY <1>1 DEF ExecWake, ExecSleep, ExecCrash
  <2>2. \A n \in Node : executor'[n].pc = "apply" => executor[n].pc = "apply"
    BY <1>1, <1>state DEF ExecWake, ExecSleep, ExecCrash
  <2> QED
    BY <1>0, <1>same, <2>1, <2>2, QuietKeeps
<1>2. ASSUME ExecRead(k) PROVE Collecting(s)'
  <2>1. UNCHANGED <<logs, windows, executed, prepareTrackers, commitNet,
                    prepareNet, commitTrackers, collectedNet, prePrepareNet>>
    BY <1>2 DEF ExecRead
  <2>2. NextSeq(k) # s
    BY <1>2, <1>later DEF ExecRead, NextCommitted
  <2>3. \A n \in Node :
          /\ Len(executed'[n]) < s
          /\ executor'[n].pc = "apply" => NextSeq(n)' # s
    <3>1. \A n \in Node : NextSeq(n)' = NextSeq(n)
      BY <2>1 DEF NextSeq
    <3>2. \A n \in Node : n # k => executor'[n] = executor[n]
      BY <1>2, <1>state DEF ExecRead
    <3> QED
      BY <1>later, <2>1, <2>2, <3>1, <3>2
  <2>4. \A n \in Node :
          prepareNet'[n][s] + prepareTrackers'[n][s].count
            <= prepareNet[n][s] + prepareTrackers[n][s].count
    BY <1>state, <1>counts, <2>1
  <2> QED
    BY <1>0, <1>same, <1>means, <2>1, <2>3, <2>4, CollectingKept
<1>3. ASSUME ExecApply(k) PROVE Collecting(s)'
  <2>1. UNCHANGED <<windows, prepareTrackers, commitNet, prepareNet,
                    commitTrackers, collectedNet, prePrepareNet>>
    BY <1>3 DEF ExecApply
  <2>2. NextSeq(k) # s
    BY <1>3, <1>later DEF ExecApply
  <2>3. \A n \in Node : logs'[n][s] = logs[n][s]
    BY <1>3, <1>state, <2>2 DEF ExecApply
  <2>4. \A n \in Node :
          /\ Len(executed'[n]) < s
          /\ executor'[n].pc = "apply" => NextSeq(n)' # s
    <3>1. \A n \in Node : n # k =>
            executor'[n] = executor[n] /\ executed'[n] = executed[n]
      BY <1>3, <1>state DEF ExecApply
    <3>2. executor'[k].pc = "scan"
      BY <1>3, <1>state DEF ExecApply
    <3>3. Len(executed'[k]) = Len(executed[k]) + 1 /\ Len(executed[k]) \in Nat
      BY <1>3, <1>0, <1>state DEF ExecApply
    <3>4. Len(executed'[k]) < s
      BY <1>later, <2>2, <3>3 DEF NextSeq, SeqNums
    <3> QED
      BY <1>later, <3>1, <3>2, <3>4 DEF NextSeq
  <2>5. \A n \in Node :
          prepareNet'[n][s] + prepareTrackers'[n][s].count
            <= prepareNet[n][s] + prepareTrackers[n][s].count
    BY <1>state, <1>counts, <2>1
  <2>6. \A m \in prePrepareNet' :
          m.seq = s => m \in prePrepareNet /\ logs'[m.to][s].tx = NoTx
    BY <1>state, <1>means, <2>1, <2>3 DEF PrePrepareMsg
  <2> QED
    BY <1>0, <1>same, <2>1, <2>3, <2>4, <2>5, <2>6, CollectingKept
<1> QED
  BY <1>1, <1>2, <1>3 DEF Execute

-----------------------------------------------------------------------------
(* The theorems.                                                            *)

\* At first nothing is collected: no replica holds anything.
LEMMA QuorumInit == Init => QuorumInv
<1> SUFFICES ASSUME Init PROVE QuorumInv
  OBVIOUS
<1>1. IInv
  BY InitHolds
<1>2. OneProposalEach
  BY DEF Init, OneProposalEach
<1>3. ASSUME NEW s \in SeqNums PROVE Collecting(s)
  <2>1. Uncollected(s)
    BY DEF Init, Uncollected, NoTracker, NoEntry, SeqNums
  <2>2. Cardinality(Holders(s) \ {L}) \in Nat
    BY ReplicaCounts DEF Holders
  <2>3. \A n \in Node : prepareNet[n][s] = 0 /\ prepareTrackers[n][s].count = 0
    BY DEF Init, NoTracker
  <2>4. prePrepareNet = {}
    BY DEF Init
  <2> QED
    BY <2>1, <2>2, <2>3, <2>4 DEF Collecting
<1> QED
  BY <1>1, <1>2, <1>3 DEF QuorumInv

\* Only the leader of InitView proposes, to others and in InitView.
LEMMA ProposalsKept ==
  ASSUME QuorumInv, [Next]_vars
  PROVE  OneProposalEach'
<1>0. /\ OneProposalEach /\ OnlyLeaderProposes /\ TypeOK
      /\ spawned \in [Node -> [Tx -> Nat]]
  BY DEF QuorumInv, IInv, TypeOK
<1>1. ASSUME NEW n \in Node, NEW t \in Tx, SendPreprepare(n, t)
      PROVE  OneProposalEach'
  <2>1. n = L /\ view[n] = InitView
    BY <1>0, <1>1 DEF SendPreprepare, OnlyLeaderProposes
  <2>2. L' = L
    BY DEF L, Leader
  <2> QED
    BY <1>0, <1>1, <2>1, <2>2 DEF SendPreprepare, OneProposalEach
<1>2. ASSUME prePrepareNet' \subseteq prePrepareNet
      PROVE  OneProposalEach'
  <2>1. L' = L
    BY DEF L, Leader
  <2> QED
    BY <1>0, <1>2, <2>1 DEF OneProposalEach
<1>3. ASSUME NEW n \in Node, Handle(n) PROVE prePrepareNet' \subseteq prePrepareNet
  BY <1>3 DEF Handle, PrePrepare, RejectPrePrepare, Prepare, CollectedPrepare,
              IgnoreCollectedPrepare, Commit, IgnoreVote
<1>4. ASSUME NEW n \in Node, Work(n), ~ \E t \in Tx : SendPreprepare(n, t)
      PROVE  prePrepareNet' \subseteq prePrepareNet
  BY <1>4 DEF Work, ProcessTransaction, MonitorPrepare, MonitorCommit,
              CommitTimeout, WriteBack
<1>5. ASSUME \/ \E n \in Node : Execute(n) \/ Operate(n)
             \/ \E n \in Node, t \in Tx : SendTransaction(n, t)
             \/ UNCHANGED vars
      PROVE  prePrepareNet' \subseteq prePrepareNet
  BY <1>5 DEF Execute, ExecWake, ExecSleep, ExecRead, ExecCrash, ExecApply,
              Operate, Kill, Revive, BecomeMalicious, DataRace,
              SendTransaction, vars
<1> QED
  BY <1>1, <1>2, <1>3, <1>4, <1>5 DEF Next

\* Every step keeps the invariant behind CommitQuorum.
LEMMA QuorumNext == QuorumInv /\ [Next]_vars => QuorumInv'
<1> SUFFICES ASSUME QuorumInv, [Next]_vars PROVE QuorumInv'
  OBVIOUS
<1>1. IInv /\ IInv' /\ OneProposalEach'
  BY NextKeeps, ProposalsKept DEF QuorumInv
<1>2. SeqNums' = SeqNums
  BY DEF SeqNums
<1>3. ASSUME NEW s \in SeqNums PROVE Quorate(s)' \/ Collecting(s)'
  <2>1. CASE Quorate(s)
    BY <1>1, <2>1, QuorumKept
  <2>2. CASE Collecting(s)
    <3>1. ASSUME \/ \E n \in Node : Operate(n)
                 \/ \E n \in Node, t \in Tx : SendTransaction(n, t)
                 \/ UNCHANGED vars
          PROVE  Collecting(s)'
      <4>1. UNCHANGED <<logs, windows, executed, prepareTrackers, commitNet,
                        prepareNet, commitTrackers, executor, collectedNet,
                        prePrepareNet>>
        BY <3>1 DEF Operate, Kill, Revive, BecomeMalicious, DataRace,
                    SendTransaction, vars
      <4>2. \A n \in Node : /\ commitNet[n][s] <= commitNet[n][s]
                            /\ prepareNet[n][s] <= prepareNet[n][s]
        <5>1. /\ commitNet \in [Node -> [SeqNums -> Nat]]
              /\ prepareNet \in [Node -> [SeqNums -> Nat]]
          BY <1>1 DEF IInv, TypeOK
        <5> QED
          BY <5>1
      <4> QED
        BY <1>1, <2>2, <4>1, <4>2, QuietKeeps
    <3> QED
      BY <2>2, <3>1, HandleCollects, WorkCollects, ExecuteCollects DEF Next
  <2> QED
    BY <2>1, <2>2 DEF QuorumInv
<1> QED
  BY <1>1, <1>2, <1>3 DEF QuorumInv

\* A sequence number is being collected, each of its prepares standing for a
\* backup that holds the transaction, or 2F+1 replicas keep the transaction
\* whatever is written back.
THEOREM QuorumInvariant == Spec => []QuorumInv
BY QuorumInit, QuorumNext, PTL DEF Spec

\* Whatever is committed or executed is held by 2F+1 replicas: no timeout,
\* operator command or stale write-back makes a certificate stand for less.
THEOREM CommitQuorumHolds == Spec => []CommitQuorum
<1>1. QuorumInv => CommitQuorum
  <2> SUFFICES ASSUME QuorumInv, NEW n \in Node, NEW s \in SeqNums,
                      logs[n][s].isCommitted \/ s <= Len(executed[n])
               PROVE  Cardinality(Holders(s)) >= 2 * F + 1
    BY DEF CommitQuorum
  <2>1. executed[n] \in Seq(Tx) /\ s \in Nat
    BY DEF QuorumInv, IInv, TypeOK, SeqNums
  <2>2. ~Uncollected(s)
    BY <2>1 DEF Uncollected
  <2>3. Quorate(s)
    BY <2>2 DEF QuorumInv, Collecting
  <2>4. /\ Cardinality(Keepers(s)) <= Cardinality(Holders(s))
        /\ Cardinality(Keepers(s)) \in Nat /\ Cardinality(Holders(s)) \in Nat
    <3>1. Holders(s) \in SUBSET Node /\ Keepers(s) \in SUBSET Holders(s)
      BY DEF Holders, Keepers
    <3> QED
      BY <3>1, ReplicaCounts
  <2> QED
    BY <2>3, <2>4, SizeAssumption, ReplicaAssumption DEF Quorate
<1> QED
  BY <1>1, QuorumInvariant, PTL
=============================================================================
