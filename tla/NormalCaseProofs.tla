-------------------------- MODULE NormalCaseProofs --------------------------
(***************************************************************************)
(* Theorems about NormalCase, for every set of replicas and transactions,  *)
(* every F and N, every mapping of views to leaders and every bound.       *)
(***************************************************************************)
EXTENDS NormalCase, TLAPS

USE DEF Up, Honest, Assigned, Rescan, adminVars, viewVars, leaderVars, trackerVars, timerVars,
        execVars, netVars

-----------------------------------------------------------------------------
(* What the helpers of the model return.                                    *)

\* What is written into a log is an entry again.
LEMMA EntryTypes ==
  /\ NoEntry \in Entry
  /\ \A e \in Entry, t \in Tx : PrePrepared(e, t) \in Entry
  /\ \A e \in Entry, k \in Nat : WithPrepares(e, k) \in Entry
  /\ \A w \in Window : Modified(w) \in Entry
  /\ \A e \in Entry : [e EXCEPT !.status = "E"] \in Entry
<1>1. NoEntry \in Entry
  BY DEF NoEntry, Entry
<1>2. ASSUME NEW e \in Entry, NEW t \in Tx PROVE PrePrepared(e, t) \in Entry
  BY DEF PrePrepared, Entry
<1>3. ASSUME NEW e \in Entry, NEW k \in Nat PROVE WithPrepares(e, k) \in Entry
  BY DEF WithPrepares, Entry
<1>4. ASSUME NEW w \in Window PROVE Modified(w) \in Entry
  <2>1. w.entry \in Entry /\ w.size \in Nat
    BY DEF Window
  <2>2. WithPrepares(w.entry, w.size) \in Entry
    BY <2>1, <1>3
  <2>3. [w.entry EXCEPT !.status = "P"] \in Entry
    BY <2>1 DEF Entry
  <2>4. ASSUME NEW e \in Entry
        PROVE  [e EXCEPT !.status = "C", !.isCommitted = TRUE] \in Entry
    BY DEF Entry
  <2> QED
    BY <2>2, <2>3, <2>4 DEF Modified
<1>5. ASSUME NEW e \in Entry PROVE [e EXCEPT !.status = "E"] \in Entry
  BY DEF Entry
<1> QED
  BY <1>1, <1>2, <1>3, <1>4, <1>5

\* A message or a goroutine that ends leaves a tracker a tracker.
LEMMA TrackerTypes ==
  ASSUME TypeOK, NEW n \in Node, NEW k \in Nat
  PROVE  /\ NoTracker \in Tracker
         /\ \A t \in Tracker : Counted(t, n, k) \in Tracker
         /\ \A t \in Tracker : Ended(t) \in Tracker
<1>1. isbyzantine[n] \in BOOLEAN
  BY DEF TypeOK
<1>2. NoTracker \in Tracker
  BY DEF NoTracker, Tracker
<1>3. ASSUME NEW t \in Tracker PROVE Counted(t, n, k) \in Tracker
  BY <1>1 DEF Counted, Tracker
<1>4. ASSUME NEW t \in Tracker PROVE Ended(t) \in Tracker
  BY DEF Ended, Tracker
<1> QED
  BY <1>2, <1>3, <1>4

\* Counts of messages stay natural numbers, as only a message that is there
\* is received.
LEMMA NetTypes ==
  ASSUME NEW net \in [Node -> [SeqNums -> Nat]], NEW to, NEW q
  PROVE  /\ Sent(net, to, q) \in [Node -> [SeqNums -> Nat]]
         /\ \A n \in Node, s \in SeqNums : net[n][s] > 0 =>
              Received(net, n, s) \in [Node -> [SeqNums -> Nat]]
  BY DEF Sent, Received

\* The leader of InitView is a replica: ServerMapping knows every residue.
LEMMA LeaderIsNode == L \in Node
<1>1. InitView % N \in 0 .. N - 1
  BY SizeAssumption, ReplicaAssumption
<1> QED
  BY <1>1, MappingAssumption DEF L, Leader

-----------------------------------------------------------------------------
(* Type correctness.                                                        *)

\* The initial state has the types.
LEMMA TypeInit == Init => TypeOK
<1>1. NoTracker \in Tracker
  BY DEF NoTracker, Tracker
<1> QED
  BY <1>1, EntryTypes, SizeAssumption, ReplicaAssumption DEF Init, TypeOK

\* The handlers of messages keep the types.
LEMMA TypeHandle ==
  ASSUME TypeOK, NEW n \in Node, Handle(n)
  PROVE  TypeOK'
<1>logs. logs \in [Node -> [SeqNums -> Entry]]
  BY DEF TypeOK
<1>prepares. /\ prepareTrackers \in [Node -> [SeqNums -> Tracker]]
            /\ prepareNet \in [Node -> [SeqNums -> Nat]]
  BY DEF TypeOK
<1>commits. /\ commitTrackers \in [Node -> [SeqNums -> Tracker]]
           /\ commitNet \in [Node -> [SeqNums -> Nat]]
  BY DEF TypeOK
<1>windows. windows \in [Node -> SUBSET Window]
  BY DEF TypeOK
<1>timer. /\ processPool \in [Node -> SUBSET Nat]
         /\ processNotify \in [Node -> Nat]
  BY DEF TypeOK
<1>1. ASSUME NEW m \in prePrepareNet, m.to = n, PrePrepare(m) PROVE TypeOK'
  <2>1. m.to \in Node /\ m.seq \in SeqNums /\ m.tx \in Tx
    BY DEF TypeOK, PrePrepareMsg
  <2>2. logs' \in [Node -> [SeqNums -> Entry]]
    BY <1>1, <1>logs, <2>1, EntryTypes DEF PrePrepare
  <2>3. prepareNet' \in [Node -> [SeqNums -> Nat]]
    BY <1>1, <1>prepares, NetTypes DEF PrePrepare
  <2>4. processPool' \in [Node -> SUBSET Nat] /\ processNotify' \in [Node -> Nat]
    BY <1>1, <1>timer, <2>1, SizeAssumption, ReplicaAssumption DEF PrePrepare, SeqNums
  <2> QED
    BY <1>1, <2>2, <2>3, <2>4 DEF PrePrepare, TypeOK
<1>2. ASSUME NEW m \in prePrepareNet, RejectPrePrepare(m) PROVE TypeOK'
  BY <1>2 DEF RejectPrePrepare, TypeOK
<1>3. ASSUME NEW c \in collectedNet, c.to = n, CollectedPrepare(c) PROVE TypeOK'
  <2>1. c.seq \in SeqNums /\ c.size \in Nat
    BY DEF TypeOK, CollectedMsg
  <2>2. logs[n][c.seq] \in Entry
    BY <2>1 DEF TypeOK
  <2>3. \A k \in {"collected3F", "collected2F"} :
          [kind |-> k, seq |-> c.seq, size |-> c.size, entry |-> logs[n][c.seq]]
            \in Window
    BY <2>1, <2>2 DEF Window
  <2>4. windows' \in [Node -> SUBSET Window]
    BY <1>3, <1>windows, <2>3 DEF CollectedPrepare, Opened
  <2> QED
    BY <1>3, <2>4 DEF CollectedPrepare, TypeOK
<1>4. ASSUME NEW c \in collectedNet, IgnoreCollectedPrepare(c) PROVE TypeOK'
  BY <1>4 DEF IgnoreCollectedPrepare, TypeOK
<1>5. ASSUME NEW s \in SeqNums, Prepare(n, s) PROVE TypeOK'
  <2>1. prepareNet' \in [Node -> [SeqNums -> Nat]]
    BY <1>5, <1>prepares, NetTypes DEF Prepare
  <2>2. prepareTrackers' \in [Node -> [SeqNums -> Tracker]]
    <3>1. \A t \in Tracker : Counted(t, n, 3 * F) \in Tracker
      BY TrackerTypes, SizeAssumption, ReplicaAssumption
    <3> QED
      BY <1>5, <1>prepares, <3>1 DEF Prepare
  <2>3. logs' \in [Node -> [SeqNums -> Entry]]
    BY <1>5, <1>logs, EntryTypes DEF Prepare
  <2> QED
    BY <1>5, <2>1, <2>2, <2>3 DEF Prepare, TypeOK
<1>6. ASSUME NEW s \in SeqNums, Commit(n, s) PROVE TypeOK'
  <2>1. commitNet' \in [Node -> [SeqNums -> Nat]]
    BY <1>6, <1>commits, NetTypes DEF Commit
  <2>2. commitTrackers' \in [Node -> [SeqNums -> Tracker]]
    <3>1. \A t \in Tracker : Counted(t, n, 2 * F) \in Tracker
      BY TrackerTypes, SizeAssumption, ReplicaAssumption
    <3> QED
      BY <1>6, <1>commits, <3>1 DEF Commit
  <2> QED
    BY <1>6, <2>1, <2>2 DEF Commit, TypeOK
<1>7. ASSUME NEW s \in SeqNums, IgnoreVote(n, s) PROVE TypeOK'
  <2>1. prepareNet[n][s] > 0 =>
          Received(prepareNet, n, s) \in [Node -> [SeqNums -> Nat]]
    BY <1>prepares, NetTypes
  <2>2. commitNet[n][s] > 0 =>
          Received(commitNet, n, s) \in [Node -> [SeqNums -> Nat]]
    BY <1>commits, NetTypes
  <2>3. /\ prepareNet' \in [Node -> [SeqNums -> Nat]]
        /\ commitNet' \in [Node -> [SeqNums -> Nat]]
    BY <1>7, <1>prepares, <1>commits, <2>1, <2>2 DEF IgnoreVote
  <2> QED
    BY <1>7, <2>3 DEF IgnoreVote, TypeOK
<1> QED
  BY <1>1, <1>2, <1>3, <1>4, <1>5, <1>6, <1>7 DEF Handle

\* The goroutines of the leader, the monitors and the write-backs keep the
\* types.
LEMMA TypeWork ==
  ASSUME TypeOK, NEW n \in Node, Work(n)
  PROVE  TypeOK'
<1>logs. logs \in [Node -> [SeqNums -> Entry]]
  BY DEF TypeOK
<1>prepares. /\ prepareTrackers \in [Node -> [SeqNums -> Tracker]]
            /\ prepareNet \in [Node -> [SeqNums -> Nat]]
  BY DEF TypeOK
<1>commits. /\ commitTrackers \in [Node -> [SeqNums -> Tracker]]
           /\ commitNet \in [Node -> [SeqNums -> Nat]]
  BY DEF TypeOK
<1>windows. windows \in [Node -> SUBSET Window]
  BY DEF TypeOK
<1>leader. /\ transactionQueue \in [Node -> Seq(Tx)]
          /\ spawned \in [Node -> [Tx -> Nat]]
          /\ globalSequence \in [Node -> 0 .. MaxSeq]
          /\ view \in [Node -> Nat]
  BY DEF TypeOK
<1>nets. /\ prePrepareNet \subseteq PrePrepareMsg
        /\ collectedNet \subseteq CollectedMsg
  BY DEF TypeOK
<1>pool. /\ processPool \in [Node -> SUBSET Nat]
        /\ crashed \in [Node -> {"no", "nil", "unlock", "race"}]
        /\ notifyCh \in [Node -> Nat]
  BY DEF TypeOK
<1>1. ASSUME ProcessTransaction(n) PROVE TypeOK'
  <2>1. /\ transactionQueue' \in [Node -> Seq(Tx)]
        /\ Head(transactionQueue[n]) \in Tx
    BY <1>1, <1>leader DEF ProcessTransaction
  <2>2. spawned' \in [Node -> [Tx -> Nat]]
    BY <1>1, <1>leader, <2>1 DEF ProcessTransaction
  <2> QED
    BY <1>1, <2>1, <2>2 DEF ProcessTransaction, TypeOK
<1>2. ASSUME NEW t \in Tx, SendPreprepare(n, t) PROVE TypeOK'
  <2> DEFINE s == globalSequence[n] + 1
  <2>1. s \in SeqNums /\ view[n] \in Nat
    BY <1>2, <1>leader, SizeAssumption, ReplicaAssumption DEF SendPreprepare, SeqNums
  <2>2. globalSequence' \in [Node -> 0 .. MaxSeq]
    BY <1>2, <1>leader, SizeAssumption, ReplicaAssumption DEF SendPreprepare
  <2>3. spawned' \in [Node -> [Tx -> Nat]]
    BY <1>2, <1>leader, SizeAssumption, ReplicaAssumption DEF SendPreprepare
  <2>4. logs' \in [Node -> [SeqNums -> Entry]]
    BY <1>2, <1>logs, <2>1, EntryTypes DEF SendPreprepare
  <2>5. processPool' \in [Node -> SUBSET Nat]
    BY <1>2, <1>pool, TxAssumption DEF SendPreprepare
  <2>6. {[to |-> m, from |-> n, view |-> view[n], seq |-> s, tx |-> t] :
           m \in Node \ {n}} \subseteq PrePrepareMsg
    BY <2>1 DEF PrePrepareMsg
  <2>7. prePrepareNet' \subseteq PrePrepareMsg
    BY <1>2, <1>nets, <2>6 DEF SendPreprepare
  <2> QED
    BY <1>2, <2>2, <2>3, <2>4, <2>5, <2>7 DEF SendPreprepare, TypeOK
<1>3. ASSUME NEW s \in SeqNums, MonitorPrepare(n, s) PROVE TypeOK'
  <2>1. prepareTrackers' \in [Node -> [SeqNums -> Tracker]]
    BY <1>3, <1>prepares, TrackerTypes DEF MonitorPrepare
  <2>2. logs[n][s].prepares \in Nat
    BY DEF TypeOK, Entry
  <2>3. {[to |-> m, seq |-> s, size |-> logs[n][s].prepares] : m \in Node}
          \subseteq CollectedMsg
    BY <2>2 DEF CollectedMsg
  <2>4. collectedNet' \subseteq CollectedMsg
    BY <1>3, <1>nets, <2>3 DEF MonitorPrepare, SendCollectedPrepare
  <2>5. crashed' \in [Node -> {"no", "nil", "unlock", "race"}]
    BY <1>3, <1>pool DEF MonitorPrepare, SendCollectedPrepare, Crash
  <2>6. early' \in Nat
    BY <1>3 DEF MonitorPrepare, Expire, TypeOK
  <2> QED
    BY <1>3, <2>1, <2>4, <2>5, <2>6 DEF MonitorPrepare, TypeOK
<1>4. ASSUME NEW s \in SeqNums, MonitorCommit(n, s) PROVE TypeOK'
  <2>1. commitTrackers' \in [Node -> [SeqNums -> Tracker]]
    BY <1>4, <1>commits, TrackerTypes DEF MonitorCommit
  <2>2. logs[n][s] \in Entry
    BY DEF TypeOK
  <2>3. [kind |-> "commit", seq |-> s, size |-> 0, entry |-> logs[n][s]]
          \in Window
    BY <2>2 DEF Window
  <2>4. windows' \in [Node -> SUBSET Window]
    BY <1>4, <1>windows, <2>3 DEF MonitorCommit, Opened
  <2> QED
    BY <1>4, <2>1, <2>4 DEF MonitorCommit, TypeOK
<1>5. ASSUME NEW s \in SeqNums, CommitTimeout(n, s) PROVE TypeOK'
  <2>1. commitTrackers' \in [Node -> [SeqNums -> Tracker]]
    BY <1>5, <1>commits, TrackerTypes DEF CommitTimeout
  <2>2. early' \in Nat
    BY <1>5 DEF CommitTimeout, Expire, TypeOK
  <2> QED
    BY <1>5, <2>1, <2>2 DEF CommitTimeout, TypeOK
<1>6. ASSUME NEW w \in windows[n], WriteBack(n, w) PROVE TypeOK'
  <2>1. w \in Window
    BY DEF TypeOK
  <2>2. logs' \in [Node -> [SeqNums -> Entry]]
    BY <1>6, <1>logs, <2>1, EntryTypes DEF WriteBack
  <2>3. commitNet' \in [Node -> [SeqNums -> Nat]]
    BY <1>6, <1>commits, NetTypes DEF WriteBack
  <2>4. notifyCh' \in [Node -> Nat]
    BY <1>6, <1>pool DEF WriteBack
  <2>5. windows' \in [Node -> SUBSET Window]
    BY <1>6, <1>windows DEF WriteBack
  <2> QED
    BY <1>6, <2>2, <2>3, <2>4, <2>5 DEF WriteBack, TypeOK
<1> QED
  BY <1>1, <1>2, <1>3, <1>4, <1>5, <1>6 DEF Work

\* What is proposed is a sequence number with a transaction.
LEMMA ProposedHolds ==
  ASSUME TypeOK, LogsFollow, NEW s, Proposed(s)
  PROVE  s \in SeqNums /\ L \in Node /\ Proposal(s) \in Tx
<1>1. L \in Node
  BY LeaderIsNode
<1>2. s \in SeqNums
  BY <1>1, SizeAssumption, ReplicaAssumption DEF TypeOK, Proposed, SeqNums
<1>3. logs[L][s] \in Entry
  BY <1>1, <1>2 DEF TypeOK
<1> QED
  BY <1>1, <1>2, <1>3 DEF LogsFollow, Proposal, Entry

\* The executor keeps the types: it applies a transaction, never a nil one.
LEMMA TypeExecute ==
  ASSUME TypeOK, LogsFollow, ExecutorFollows, NEW n \in Node, Execute(n)
  PROVE  TypeOK'
<1>exec. /\ executor \in [Node -> [pc : {"idle", "scan", "apply"}, entry : Entry]]
        /\ notifyCh \in [Node -> Nat]
        /\ executed \in [Node -> Seq(Tx)]
  BY DEF TypeOK
<1>1. CASE ExecWake(n)
  <2>1. executor' \in [Node -> [pc : {"idle", "scan", "apply"}, entry : Entry]]
    <3>1. [executor[n] EXCEPT !.pc = "scan"]
            \in [pc : {"idle", "scan", "apply"}, entry : Entry]
      BY <1>exec
    <3> QED
      BY <1>1, <1>exec, <3>1 DEF ExecWake
  <2>2. notifyCh' \in [Node -> Nat]
    BY <1>1, <1>exec DEF ExecWake
  <2> QED
    BY <1>1, <2>1, <2>2 DEF ExecWake, TypeOK
<1>5. CASE ExecSleep(n)
  <2>1. [executor[n] EXCEPT !.pc = "idle"]
          \in [pc : {"idle", "scan", "apply"}, entry : Entry]
    BY <1>exec
  <2>2. executor' \in [Node -> [pc : {"idle", "scan", "apply"}, entry : Entry]]
    BY <1>5, <1>exec, <2>1 DEF ExecSleep
  <2> QED
    BY <1>5, <2>2 DEF ExecSleep, TypeOK
<1>2. CASE ExecRead(n)
  <2>1. logs[n][NextSeq(n)] \in Entry
    BY <1>2 DEF ExecRead, NextCommitted, TypeOK
  <2> QED
    BY <1>2, <2>1 DEF ExecRead, TypeOK
<1>3. CASE ExecCrash(n)
  BY <1>3 DEF ExecCrash, Crash, TypeOK
<1>4. CASE ExecApply(n)
  <2>1. executor[n].entry \in Entry
    BY <1>exec
  <2>2. logs' \in [Node -> [SeqNums -> Entry]]
    <3>1. [executor[n].entry EXCEPT !.status = "E"] \in Entry
      BY <2>1, EntryTypes
    <3>2. logs \in [Node -> [SeqNums -> Entry]]
      BY DEF TypeOK
    <3> QED
      BY <1>4, <3>1, <3>2 DEF ExecApply
  <2>3. checkpointNet' \in [Node -> [SeqNums -> Nat]]
    BY <1>4, NetTypes DEF ExecApply, TypeOK
  <2>4. executor' \in [Node -> [pc : {"idle", "scan", "apply"}, entry : Entry]]
    BY <1>4, <1>exec, EntryTypes DEF ExecApply
  <2>5. executed' \in [Node -> Seq(Tx)]
    <3>1. executor[n].entry.tx \in Tx
      BY <1>4, ProposedHolds DEF ExecApply, ExecutorFollows
    <3> QED
      BY <1>4, <1>exec, <3>1 DEF ExecApply
  <2>6. processPool' \in [Node -> SUBSET Nat]
    BY <1>4 DEF ExecApply, TypeOK
  <2> QED
    BY <1>4, <2>2, <2>3, <2>4, <2>5, <2>6 DEF ExecApply, TypeOK
<1> QED
  BY <1>1, <1>2, <1>3, <1>4, <1>5 DEF Execute

\* Every step keeps the types.
LEMMA TypeNext == IInv /\ [Next]_vars => TypeOK'
<1> SUFFICES ASSUME IInv, [Next]_vars PROVE TypeOK'
  OBVIOUS
<1>0. TypeOK /\ LogsFollow /\ ExecutorFollows
  BY DEF IInv
<1>1. ASSUME NEW n \in Node, NEW t \in Tx, SendTransaction(n, t)
      PROVE  TypeOK'
  <2>1. attempts' \in [Tx -> Nat]
    BY <1>0, <1>1 DEF SendTransaction, TypeOK
  <2>2. transactionQueue \in [Node -> Seq(Tx)]
    BY <1>0 DEF TypeOK
  <2>3. transactionQueue' \in [Node -> Seq(Tx)]
    BY <1>1, <2>2 DEF SendTransaction
  <2> QED
    BY <1>0, <1>1, <2>1, <2>3 DEF SendTransaction, TypeOK
<1>2. ASSUME NEW n \in Node, Operate(n) PROVE TypeOK'
  <2>1. /\ isActive \in [Node -> BOOLEAN]
        /\ isbyzantine \in [Node -> BOOLEAN]
        /\ crashed \in [Node -> {"no", "nil", "unlock", "race"}]
        /\ faults \in Nat
    BY <1>0 DEF TypeOK
  <2>2. /\ isActive' \in [Node -> BOOLEAN]
        /\ isbyzantine' \in [Node -> BOOLEAN]
    BY <1>2, <2>1 DEF Operate, Kill, Revive, BecomeMalicious, DataRace
  <2>3. /\ crashed' \in [Node -> {"no", "nil", "unlock", "race"}]
        /\ faults' \in Nat
    BY <1>2, <2>1 DEF Operate, Kill, Revive, BecomeMalicious, DataRace, Crash
  <2>4. UNCHANGED <<viewVars, leaderVars, logs, trackerVars, timerVars, windows,
                    execVars, netVars>>
    BY <1>2 DEF Operate, Kill, Revive, BecomeMalicious, DataRace
  <2> QED
    BY <1>0, <2>2, <2>3, <2>4 DEF TypeOK
<1>3. CASE UNCHANGED vars
  BY <1>0, <1>3 DEF vars, TypeOK
<1>4. CASE Next
  BY <1>0, <1>1, <1>2, <1>4, TypeHandle, TypeWork, TypeExecute DEF Next
<1> QED
  BY <1>3, <1>4

-----------------------------------------------------------------------------
(* The leader's proposals never change, and the rest follows them.          *)

\* A step keeps every proposal already made.
Grows == \A s \in SeqNums : Proposed(s) =>
           /\ Proposed(s)'
           /\ Proposal(s)' = Proposal(s)

\* The initial state has proposed nothing, and there is nothing to follow.
LEMMA InitHolds == Init => IInv
<1> SUFFICES ASSUME Init PROVE IInv
  OBVIOUS
<1>1. TypeOK
  BY TypeInit
<1>2. L \in Node
  BY LeaderIsNode
<1>3. \A s : ~Proposed(s)
  BY <1>2 DEF Init, Proposed
<1>4. OnlyLeaderProposes
  BY DEF Init, OnlyLeaderProposes, L
<1>5. MessagesFollow
  BY DEF Init, MessagesFollow
<1>6. TrackersFollow
  BY DEF Init, TrackersFollow, NoTracker
<1>7. LogsFollow
  BY <1>2, <1>3 DEF Init, LogsFollow, Proposal, NoEntry
<1>8. WindowsFollow
  BY DEF Init, WindowsFollow
<1>9. ExecutorFollows
  BY DEF Init, ExecutorFollows
<1>10. ExecutedFollows
  BY DEF Init, ExecutedFollows
<1> QED
  BY <1>1, <1>4, <1>5, <1>6, <1>7, <1>8, <1>9, <1>10 DEF IInv

\* A step that leaves the logs alone keeps the proposals and the logs in line
\* with them.
LEMMA LogsKept ==
  ASSUME IInv, UNCHANGED <<logs, globalSequence>>
  PROVE  Grows /\ LogsFollow'
<1> USE DEF IInv
<1>1. \A s : Proposed(s)' <=> Proposed(s)
  BY DEF Proposed
<1>2. \A s : Proposal(s)' = Proposal(s)
  BY DEF Proposal
<1> QED
  BY <1>1, <1>2 DEF Grows, LogsFollow

\* A step that writes one entry, with no other transaction than the one
\* proposed for it, keeps the proposals and the logs in line with them.
LEMMA LogsWritten ==
  ASSUME IInv, NEW n \in Node, NEW s \in SeqNums, NEW e \in Entry,
         logs' = [logs EXCEPT ![n][s] = e],
         e.tx \in {NoTx, Proposal(s)},
         n = L => e.tx = Proposal(s),
         e.isCommitted => Proposed(s),
         UNCHANGED globalSequence
  PROVE  Grows /\ LogsFollow'
<1>0. LogsFollow /\ L \in Node /\ logs \in [Node -> [SeqNums -> Entry]]
  BY LeaderIsNode DEF IInv, TypeOK
<1>1. \A q : Proposed(q)' <=> Proposed(q)
  BY DEF Proposed
<1>2. \A m \in Node, q \in SeqNums :
        logs'[m][q] = IF m = n /\ q = s THEN e ELSE logs[m][q]
  BY <1>0
<1>3. \A q \in SeqNums : Proposal(q)' = Proposal(q)
  BY <1>0, <1>2 DEF Proposal
<1> QED
  BY <1>0, <1>1, <1>2, <1>3 DEF Grows, LogsFollow

\* Messages that were there, or are about something proposed, follow.
LEMMA MessagesKept ==
  ASSUME IInv, Grows,
         \A m \in prePrepareNet' : \/ m \in prePrepareNet
                                   \/ Proposed(m.seq)' /\ m.tx = Proposal(m.seq)',
         \A c \in collectedNet' : c \in collectedNet \/ Proposed(c.seq)',
         \A n \in Node, s \in SeqNums : prepareNet'[n][s] > 0 =>
           prepareNet[n][s] > 0 \/ Proposed(s)',
         \A n \in Node, s \in SeqNums : commitNet'[n][s] > 0 =>
           commitNet[n][s] > 0 \/ Proposed(s)'
  PROVE  MessagesFollow'
<1>1. MessagesFollow /\ TypeOK /\ LogsFollow
  BY DEF IInv
<1>2. \A s : Proposed(s) => s \in SeqNums
  BY <1>1, ProposedHolds
<1> QED
  BY <1>1, <1>2 DEF MessagesFollow, Grows

\* Monitors wait only where they did, or where something is proposed.
LEMMA TrackersKept ==
  ASSUME IInv, Grows,
         \A n \in Node, s \in SeqNums :
           prepareTrackers'[n][s].monitor = "wait" =>
             prepareTrackers[n][s].monitor = "wait" \/ Proposed(s)',
         \A n \in Node, s \in SeqNums :
           commitTrackers'[n][s].monitor = "wait" =>
             commitTrackers[n][s].monitor = "wait" \/ Proposed(s)'
  PROVE  TrackersFollow'
<1>1. TrackersFollow
  BY DEF IInv
<1> QED
  BY <1>1 DEF TrackersFollow, Grows

\* A window opened on an entry of the log follows as the entry did.
LEMMA WindowsKept ==
  ASSUME IInv, Grows,
         \A n \in Node : \A w \in windows'[n] :
           \/ w \in windows[n]
           \/ /\ Proposed(w.seq)
              /\ w.entry = logs[n][w.seq]
  PROVE  WindowsFollow'
<1>1. WindowsFollow /\ LogsFollow /\ TypeOK
  BY DEF IInv
<1>2. \A s : Proposed(s) => s \in SeqNums
  BY <1>1, ProposedHolds
<1>3. ASSUME NEW n \in Node, NEW w \in windows'[n]
      PROVE  /\ Proposed(w.seq)
             /\ w.entry.tx \in {NoTx, Proposal(w.seq)}
             /\ n = L => w.entry.tx = Proposal(w.seq)
  BY <1>1, <1>2, <1>3 DEF WindowsFollow, LogsFollow, Proposal
<1> QED
  BY <1>2, <1>3 DEF WindowsFollow, Grows

\* An executor that stays as it is, or copies what is proposed, follows.
LEMMA ExecutionKept ==
  ASSUME IInv, Grows, UNCHANGED executed,
         \A n \in Node : executor'[n].pc = "apply" =>
           \/ executor'[n] = executor[n]
           \/ /\ Proposed(NextSeq(n))
              /\ executor'[n].entry.tx = Proposal(NextSeq(n))
  PROVE  ExecutorFollows' /\ ExecutedFollows'
<1>1. /\ ExecutorFollows /\ ExecutedFollows /\ LogsFollow /\ TypeOK
  BY DEF IInv
<1>2. \A s : Proposed(s) => s \in SeqNums
  BY <1>1, ProposedHolds
<1>3. \A n \in Node : NextSeq(n)' = NextSeq(n)
  BY DEF NextSeq
<1>4. ExecutorFollows'
  BY <1>1, <1>2, <1>3 DEF ExecutorFollows, Grows
<1>5. ExecutedFollows'
  BY <1>1, <1>2 DEF ExecutedFollows, Grows
<1> QED
  BY <1>4, <1>5

\* What the helpers leave of an entry.
LEMMA EntryFields ==
  /\ \A e \in Entry, t \in Tx :
       PrePrepared(e, t).tx = t /\ PrePrepared(e, t).isCommitted = e.isCommitted
  /\ \A e \in Entry, k \in Nat :
       /\ WithPrepares(e, k).tx = e.tx
       /\ WithPrepares(e, k).isCommitted = e.isCommitted
  /\ \A w \in Window : Modified(w).tx = w.entry.tx
  /\ \A e \in Entry : [e EXCEPT !.status = "E"].tx = e.tx
<1>1. \A w \in Window : w.entry \in Entry /\ w.size \in Nat
  BY DEF Window
<1>2. ASSUME NEW e \in Entry
      PROVE  /\ [e EXCEPT !.status = "P"].tx = e.tx
             /\ [e EXCEPT !.status = "C", !.isCommitted = TRUE].tx = e.tx
  BY DEF Entry
<1>3. ASSUME NEW e \in Entry, NEW k \in Nat
      PROVE  /\ WithPrepares(e, k) \in Entry
             /\ WithPrepares(e, k).tx = e.tx
             /\ WithPrepares(e, k).isCommitted = e.isCommitted
  BY DEF Entry, WithPrepares
<1>4. ASSUME NEW w \in Window PROVE Modified(w).tx = w.entry.tx
  BY <1>1, <1>2, <1>3 DEF Modified
<1>6. ASSUME NEW e \in Entry PROVE [e EXCEPT !.status = "E"].tx = e.tx
  BY DEF Entry
<1>5. ASSUME NEW e \in Entry, NEW t \in Tx
      PROVE  /\ PrePrepared(e, t).tx = t
             /\ PrePrepared(e, t).isCommitted = e.isCommitted
  BY DEF Entry, PrePrepared
<1> QED
  BY <1>3, <1>4, <1>5, <1>6

\* A step of no consequence to who proposes.
LEMMA LeaderKept ==
  ASSUME IInv, UNCHANGED <<view, isLeader, transactionQueue, spawned>>
  PROVE  OnlyLeaderProposes'
BY DEF IInv, OnlyLeaderProposes

-----------------------------------------------------------------------------
(* One lemma for each goroutine's steps.                                    *)

\* The handlers of messages keep the invariant.
LEMMA HandleKeeps ==
  ASSUME IInv, NEW n \in Node, Handle(n)
  PROVE  IInv' /\ Grows
<1>0. /\ TypeOK /\ MessagesFollow /\ LogsFollow /\ TypeOK'
  BY TypeHandle DEF IInv
<1>logs. /\ logs \in [Node -> [SeqNums -> Entry]]
        /\ prepareTrackers \in [Node -> [SeqNums -> Tracker]]
        /\ commitTrackers \in [Node -> [SeqNums -> Tracker]]
  BY <1>0 DEF TypeOK
<1>nets. /\ prepareNet \in [Node -> [SeqNums -> Nat]]
        /\ commitNet \in [Node -> [SeqNums -> Nat]]
        /\ windows \in [Node -> SUBSET Window]
  BY <1>0 DEF TypeOK
<1>1. ASSUME NEW m \in prePrepareNet, m.to = n, PrePrepare(m) PROVE IInv' /\ Grows
  <2> DEFINE s == m.seq
             e == PrePrepared(logs[n][s], m.tx)
  <2>1. s \in SeqNums /\ m.tx \in Tx /\ Proposed(s) /\ m.tx = Proposal(s)
    BY <1>0 DEF TypeOK, PrePrepareMsg, MessagesFollow
  <2>2. e \in Entry /\ e.tx = Proposal(s)
    BY <1>logs, <2>1, EntryTypes, EntryFields
  <2>3. logs' = [logs EXCEPT ![n][s] = e]
    BY <1>1 DEF PrePrepare
  <2>4. Grows /\ LogsFollow'
    <3> HIDE DEF e, s
    <3> QED
      BY <1>1, <2>1, <2>2, <2>3, LogsWritten DEF PrePrepare
  <2>5. OnlyLeaderProposes'
    BY <1>1, LeaderKept DEF PrePrepare
  <2>6. MessagesFollow'
    <3>1. \A k \in Node, q \in SeqNums : prepareNet'[k][q] > 0 =>
            prepareNet[k][q] > 0 \/ Proposed(q)'
      BY <1>1, <1>nets, <2>1, <2>4 DEF PrePrepare, Sent, Grows
    <3> QED
      BY <1>1, <2>4, <3>1, MessagesKept DEF PrePrepare
  <2>7. TrackersFollow'
    BY <1>1, <2>4, TrackersKept DEF PrePrepare
  <2>8. WindowsFollow'
    BY <1>1, <2>4, WindowsKept DEF PrePrepare
  <2>9. ExecutorFollows' /\ ExecutedFollows'
    BY <1>1, <2>4, ExecutionKept DEF PrePrepare
  <2> QED
    BY <1>0, <2>4, <2>5, <2>6, <2>7, <2>8, <2>9 DEF IInv
<1>2. ASSUME NEW m \in prePrepareNet, RejectPrePrepare(m) PROVE IInv' /\ Grows
  <2>1. Grows /\ LogsFollow'
    BY <1>2, LogsKept DEF RejectPrePrepare
  <2>2. OnlyLeaderProposes'
    BY <1>2, LeaderKept DEF RejectPrePrepare
  <2>3. MessagesFollow' /\ TrackersFollow' /\ WindowsFollow'
    BY <1>2, <2>1, MessagesKept, TrackersKept, WindowsKept DEF RejectPrePrepare
  <2>4. ExecutorFollows' /\ ExecutedFollows'
    BY <1>2, <2>1, ExecutionKept DEF RejectPrePrepare
  <2> QED
    BY <1>0, <2>1, <2>2, <2>3, <2>4 DEF IInv
<1>3. ASSUME NEW c \in collectedNet, c.to = n, CollectedPrepare(c) PROVE IInv' /\ Grows
  <2>1. Grows /\ LogsFollow'
    BY <1>3, LogsKept DEF CollectedPrepare
  <2>2. OnlyLeaderProposes'
    BY <1>3, LeaderKept DEF CollectedPrepare
  <2>3. MessagesFollow' /\ TrackersFollow'
    BY <1>3, <2>1, MessagesKept, TrackersKept DEF CollectedPrepare
  <2>4. WindowsFollow'
    <3>1. Proposed(c.seq)
      BY <1>0 DEF MessagesFollow
    <3>2. \A k \in Node : \A w \in windows'[k] :
            \/ w \in windows[k]
            \/ Proposed(w.seq) /\ w.entry = logs[k][w.seq]
      BY <1>3, <1>nets, <3>1 DEF CollectedPrepare, Opened
    <3> QED
      BY <2>1, <3>2, WindowsKept
  <2>5. ExecutorFollows' /\ ExecutedFollows'
    BY <1>3, <2>1, ExecutionKept DEF CollectedPrepare
  <2> QED
    BY <1>0, <2>1, <2>2, <2>3, <2>4, <2>5 DEF IInv
<1>4. ASSUME NEW c \in collectedNet, IgnoreCollectedPrepare(c) PROVE IInv' /\ Grows
  <2>1. Grows /\ LogsFollow'
    BY <1>4, LogsKept DEF IgnoreCollectedPrepare
  <2>2. OnlyLeaderProposes'
    BY <1>4, LeaderKept DEF IgnoreCollectedPrepare
  <2>3. MessagesFollow' /\ TrackersFollow' /\ WindowsFollow'
    BY <1>4, <2>1, MessagesKept, TrackersKept, WindowsKept
    DEF IgnoreCollectedPrepare
  <2>4. ExecutorFollows' /\ ExecutedFollows'
    BY <1>4, <2>1, ExecutionKept DEF IgnoreCollectedPrepare
  <2> QED
    BY <1>0, <2>1, <2>2, <2>3, <2>4 DEF IInv
<1>5. ASSUME NEW s \in SeqNums, Prepare(n, s) PROVE IInv' /\ Grows
  <2> DEFINE e == WithPrepares(logs[n][s], 1)
  <2>1. Proposed(s)
    BY <1>0, <1>5 DEF Prepare, MessagesFollow
  <2>2. e \in Entry /\ e.tx = logs[n][s].tx
    <3>1. logs[n][s] \in Entry
      BY <1>logs
    <3> HIDE DEF e
    <3>2. e = WithPrepares(logs[n][s], 1)
      BY DEF e
    <3> QED
      BY <3>1, <3>2, EntryTypes, EntryFields
  <2>3. e.tx \in {NoTx, Proposal(s)} /\ (n = L => e.tx = Proposal(s))
    BY <1>0, <2>2 DEF LogsFollow, Proposal
  <2>4. logs' = [logs EXCEPT ![n][s] = e]
    BY <1>5 DEF Prepare
  <2>5. Grows /\ LogsFollow'
    <3> HIDE DEF e
    <3> QED
      BY <1>5, <2>1, <2>2, <2>3, <2>4, LogsWritten DEF Prepare
  <2>6. OnlyLeaderProposes'
    BY <1>5, LeaderKept DEF Prepare
  <2>7. MessagesFollow'
    <3>1. \A k \in Node, q \in SeqNums :
            prepareNet'[k][q] > 0 => prepareNet[k][q] > 0
      BY <1>5, <1>nets DEF Prepare, Received
    <3> QED
      BY <1>5, <2>5, <3>1, MessagesKept DEF Prepare
  <2>8. TrackersFollow'
    <3>1. \A k \in Node, q \in SeqNums :
            prepareTrackers'[k][q] = prepareTrackers[k][q] \/ q = s
      BY <1>5, <1>logs DEF Prepare
    <3> QED
      BY <1>5, <2>1, <2>5, <3>1, TrackersKept DEF Prepare, Grows
  <2>9. WindowsFollow'
    BY <1>5, <2>5, WindowsKept DEF Prepare
  <2>10. ExecutorFollows' /\ ExecutedFollows'
    BY <1>5, <2>5, ExecutionKept DEF Prepare
  <2> QED
    BY <1>0, <2>5, <2>6, <2>7, <2>8, <2>9, <2>10 DEF IInv
<1>6. ASSUME NEW s \in SeqNums, Commit(n, s) PROVE IInv' /\ Grows
  <2>1. Proposed(s)
    BY <1>0, <1>6 DEF Commit, MessagesFollow
  <2>2. Grows /\ LogsFollow'
    BY <1>6, LogsKept DEF Commit
  <2>3. OnlyLeaderProposes'
    BY <1>6, LeaderKept DEF Commit
  <2>4. MessagesFollow'
    <3>1. \A k \in Node, q \in SeqNums :
            commitNet'[k][q] > 0 => commitNet[k][q] > 0
      BY <1>6, <1>nets DEF Commit, Received
    <3> QED
      BY <1>6, <2>2, <3>1, MessagesKept DEF Commit
  <2>5. TrackersFollow'
    <3>1. \A k \in Node, q \in SeqNums :
            commitTrackers'[k][q] = commitTrackers[k][q] \/ q = s
      BY <1>6, <1>logs DEF Commit
    <3> QED
      BY <1>6, <2>1, <2>2, <3>1, TrackersKept DEF Commit, Grows
  <2>6. WindowsFollow'
    BY <1>6, <2>2, WindowsKept DEF Commit
  <2>7. ExecutorFollows' /\ ExecutedFollows'
    BY <1>6, <2>2, ExecutionKept DEF Commit
  <2> QED
    BY <1>0, <2>2, <2>3, <2>4, <2>5, <2>6, <2>7 DEF IInv
<1>7. ASSUME NEW s \in SeqNums, IgnoreVote(n, s) PROVE IInv' /\ Grows
  <2>1. Grows /\ LogsFollow'
    BY <1>7, LogsKept DEF IgnoreVote
  <2>2. OnlyLeaderProposes'
    BY <1>7, LeaderKept DEF IgnoreVote
  <2>3. MessagesFollow'
    <3>0. ASSUME NEW net \in [Node -> [SeqNums -> Nat]]
          PROVE  \A k \in Node, q \in SeqNums :
                   Received(net, n, s)[k][q] > 0 => net[k][q] > 0
      BY DEF Received
    <3>1. \A k \in Node, q \in SeqNums :
            prepareNet'[k][q] > 0 => prepareNet[k][q] > 0
      <4>1. prepareNet' = prepareNet \/ prepareNet' = Received(prepareNet, n, s)
        BY <1>7 DEF IgnoreVote
      <4> QED
        BY <1>nets, <3>0, <4>1
    <3>2. \A k \in Node, q \in SeqNums :
            commitNet'[k][q] > 0 => commitNet[k][q] > 0
      <4>1. commitNet' = commitNet \/ commitNet' = Received(commitNet, n, s)
        BY <1>7 DEF IgnoreVote
      <4> QED
        BY <1>nets, <3>0, <4>1
    <3>3. UNCHANGED <<prePrepareNet, collectedNet>>
      BY <1>7 DEF IgnoreVote
    <3> QED
      BY <2>1, <3>1, <3>2, <3>3, MessagesKept
  <2>4. TrackersFollow' /\ WindowsFollow'
    BY <1>7, <2>1, TrackersKept, WindowsKept DEF IgnoreVote
  <2>5. ExecutorFollows' /\ ExecutedFollows'
    BY <1>7, <2>1, ExecutionKept DEF IgnoreVote
  <2> QED
    BY <1>0, <2>1, <2>2, <2>3, <2>4, <2>5 DEF IInv
<1> QED
  BY <1>1, <1>2, <1>3, <1>4, <1>5, <1>6, <1>7 DEF Handle

\* The only step that proposes.
LEMMA ProposalKeeps ==
  ASSUME IInv, NEW n \in Node, NEW t \in Tx, SendPreprepare(n, t), TypeOK'
  PROVE  IInv' /\ Grows
<1> DEFINE s == globalSequence[n] + 1
<1>0. /\ TypeOK /\ OnlyLeaderProposes /\ LogsFollow
      /\ L \in Node
  BY LeaderIsNode DEF IInv
<1>types. /\ logs \in [Node -> [SeqNums -> Entry]]
         /\ globalSequence \in [Node -> 0 .. MaxSeq]
         /\ spawned \in [Node -> [Tx -> Nat]]
  BY <1>0 DEF TypeOK
<1>1. n = L
  BY <1>0, <1>types DEF SendPreprepare, OnlyLeaderProposes
<1>2. s \in SeqNums /\ ~Proposed(s)
  BY <1>0, <1>1, <1>types, SizeAssumption, ReplicaAssumption DEF SendPreprepare, SeqNums, Proposed
<1>3. globalSequence'[L] = s
  BY <1>0, <1>1, <1>types DEF SendPreprepare
<1>4. \A q : Proposed(q)' <=> Proposed(q) \/ q = s
  <2>1. globalSequence[L] \in Nat /\ s = globalSequence[L] + 1
    BY <1>0, <1>1, <1>types, SizeAssumption, ReplicaAssumption
  <2>2. \A k \in Nat : \A q : q \in 1 .. k + 1 <=> q \in 1 .. k \/ q = k + 1
    OBVIOUS
  <2> HIDE DEF s
  <2> QED
    BY <1>3, <2>1, <2>2 DEF Proposed
<1>5. \A m \in Node, q \in SeqNums :
        logs'[m][q] = IF m = n /\ q = s THEN PrePrepared(NoEntry, t)
                      ELSE logs[m][q]
  BY <1>2, <1>types DEF SendPreprepare
<1>6. PrePrepared(NoEntry, t).tx = t /\ ~PrePrepared(NoEntry, t).isCommitted
  BY DEF PrePrepared, NoEntry
<1>7. \A q \in SeqNums : Proposal(q)' = IF q = s THEN t ELSE Proposal(q)
  BY <1>0, <1>1, <1>2, <1>5, <1>6 DEF Proposal
<1>8. Proposal(s) = NoTx /\ t # NoTx
  BY <1>0, <1>2, TxAssumption DEF LogsFollow
<1> HIDE DEF s
<1>9. Grows
  BY <1>2, <1>4, <1>7 DEF Grows
<1>10. LogsFollow'
  <2>1. \A q \in SeqNums : Proposal(q)' # NoTx <=> Proposed(q)'
    BY <1>0, <1>4, <1>7, <1>8 DEF LogsFollow
  <2>2. ASSUME NEW m \in Node, NEW q \in SeqNums
        PROVE  /\ logs'[m][q].tx \in {NoTx, Proposal(q)'}
               /\ logs'[m][q].isCommitted => Proposed(q)'
    <3>1. CASE m = n /\ q = s
      BY <1>5, <1>6, <1>7, <3>1
    <3>2. CASE ~(m = n /\ q = s)
      BY <1>0, <1>4, <1>5, <1>7, <1>8, <3>2 DEF LogsFollow
    <3> QED
      BY <3>1, <3>2
  <2> QED
    BY <2>1, <2>2 DEF LogsFollow
<1>11. OnlyLeaderProposes'
  BY <1>0, <1>1, <1>types DEF SendPreprepare, OnlyLeaderProposes
<1>12. MessagesFollow'
  <2>1. \A m \in prePrepareNet' :
          \/ m \in prePrepareNet
          \/ Proposed(m.seq)' /\ m.tx = Proposal(m.seq)'
    BY <1>2, <1>4, <1>7 DEF SendPreprepare, s
  <2> QED
    BY <1>9, <2>1, MessagesKept DEF SendPreprepare
<1>13. TrackersFollow' /\ WindowsFollow'
  BY <1>9, TrackersKept, WindowsKept DEF SendPreprepare
<1>14. ExecutorFollows' /\ ExecutedFollows'
  BY <1>9, ExecutionKept DEF SendPreprepare
<1> QED
  BY <1>9, <1>10, <1>11, <1>12, <1>13, <1>14 DEF IInv

\* The goroutines of the leader, the monitors and the write-backs keep the
\* invariant, a stale write-back included.
LEMMA WorkKeeps ==
  ASSUME IInv, NEW n \in Node, Work(n)
  PROVE  IInv' /\ Grows
<1>0. /\ TypeOK /\ OnlyLeaderProposes /\ TrackersFollow /\ LogsFollow
      /\ WindowsFollow /\ TypeOK'
  BY TypeWork DEF IInv
<1>types. /\ logs \in [Node -> [SeqNums -> Entry]]
         /\ prepareTrackers \in [Node -> [SeqNums -> Tracker]]
         /\ commitTrackers \in [Node -> [SeqNums -> Tracker]]
         /\ commitNet \in [Node -> [SeqNums -> Nat]]
         /\ windows \in [Node -> SUBSET Window]
         /\ transactionQueue \in [Node -> Seq(Tx)]
         /\ spawned \in [Node -> [Tx -> Nat]]
  BY <1>0 DEF TypeOK
<1>1. ASSUME ProcessTransaction(n) PROVE IInv' /\ Grows
  <2>1. Grows /\ LogsFollow'
    BY <1>1, LogsKept DEF ProcessTransaction
  <2>2. OnlyLeaderProposes'
    <3>1. n = L
      BY <1>0, <1>1 DEF ProcessTransaction, OnlyLeaderProposes
    <3>2. \A m \in Node \ {L} : /\ transactionQueue'[m] = transactionQueue[m]
                                /\ spawned'[m] = spawned[m]
      BY <1>1, <1>types, <3>1 DEF ProcessTransaction
    <3>3. UNCHANGED <<view, isLeader>>
      BY <1>1 DEF ProcessTransaction
    <3> QED
      BY <1>0, <3>2, <3>3 DEF OnlyLeaderProposes
  <2>3. MessagesFollow' /\ TrackersFollow' /\ WindowsFollow'
    BY <1>1, <2>1, MessagesKept, TrackersKept, WindowsKept
    DEF ProcessTransaction
  <2>4. ExecutorFollows' /\ ExecutedFollows'
    BY <1>1, <2>1, ExecutionKept DEF ProcessTransaction
  <2> QED
    BY <1>0, <2>1, <2>2, <2>3, <2>4 DEF IInv
<1>2. ASSUME NEW t \in Tx, SendPreprepare(n, t) PROVE IInv' /\ Grows
  BY <1>0, <1>2, ProposalKeeps
<1>3. ASSUME NEW s \in SeqNums, MonitorPrepare(n, s) PROVE IInv' /\ Grows
  <2>1. Proposed(s)
    BY <1>0, <1>3 DEF MonitorPrepare, TrackersFollow
  <2>2. Grows /\ LogsFollow'
    BY <1>3, LogsKept DEF MonitorPrepare
  <2>3. OnlyLeaderProposes'
    BY <1>3, LeaderKept DEF MonitorPrepare
  <2>4. MessagesFollow'
    <3>1. \A c \in collectedNet' : c \in collectedNet \/ Proposed(c.seq)'
      BY <1>3, <2>1, <2>2 DEF MonitorPrepare, SendCollectedPrepare, Grows
    <3> QED
      BY <1>3, <2>2, <3>1, MessagesKept DEF MonitorPrepare
  <2>5. TrackersFollow'
    <3>1. \A k \in Node, q \in SeqNums :
            prepareTrackers'[k][q] = prepareTrackers[k][q] \/ q = s
      BY <1>3, <1>types DEF MonitorPrepare
    <3> QED
      BY <1>3, <2>1, <2>2, <3>1, TrackersKept DEF MonitorPrepare, Grows
  <2>6. WindowsFollow'
    BY <1>3, <2>2, WindowsKept DEF MonitorPrepare
  <2>7. ExecutorFollows' /\ ExecutedFollows'
    BY <1>3, <2>2, ExecutionKept DEF MonitorPrepare
  <2> QED
    BY <1>0, <2>2, <2>3, <2>4, <2>5, <2>6, <2>7 DEF IInv
<1>4. ASSUME NEW s \in SeqNums, MonitorCommit(n, s) \/ CommitTimeout(n, s)
      PROVE  IInv' /\ Grows
  <2>1. Proposed(s)
    BY <1>0, <1>4 DEF MonitorCommit, CommitTimeout, TrackersFollow
  <2>2. Grows /\ LogsFollow'
    BY <1>4, LogsKept DEF MonitorCommit, CommitTimeout
  <2>3. OnlyLeaderProposes'
    BY <1>4, LeaderKept DEF MonitorCommit, CommitTimeout
  <2>4. MessagesFollow'
    BY <1>4, <2>2, MessagesKept DEF MonitorCommit, CommitTimeout
  <2>5. TrackersFollow'
    <3>1. \A k \in Node, q \in SeqNums :
            commitTrackers'[k][q] = commitTrackers[k][q] \/ q = s
      <4>1. commitTrackers' =
              [commitTrackers EXCEPT ![n][s] = Ended(@)]
        BY <1>4 DEF MonitorCommit, CommitTimeout
      <4> QED
        BY <1>types, <4>1
    <3>2. UNCHANGED prepareTrackers
      BY <1>4 DEF MonitorCommit, CommitTimeout
    <3> QED
      BY <2>1, <2>2, <3>1, <3>2, TrackersKept DEF Grows
  <2>6. WindowsFollow'
    <3>1. \A k \in Node : \A w \in windows'[k] :
            \/ w \in windows[k]
            \/ Proposed(w.seq) /\ w.entry = logs[k][w.seq]
      <4>1. CASE MonitorCommit(n, s)
        BY <1>types, <2>1, <4>1 DEF MonitorCommit, Opened
      <4>2. CASE CommitTimeout(n, s)
        BY <4>2 DEF CommitTimeout
      <4> QED
        BY <1>4, <4>1, <4>2
    <3> QED
      BY <2>2, <3>1, WindowsKept
  <2>7. ExecutorFollows' /\ ExecutedFollows'
    BY <1>4, <2>2, ExecutionKept DEF MonitorCommit, CommitTimeout
  <2> QED
    BY <1>0, <2>2, <2>3, <2>4, <2>5, <2>6, <2>7 DEF IInv
<1>5. ASSUME NEW w \in windows[n], WriteBack(n, w) PROVE IInv' /\ Grows
  <2> DEFINE s == w.seq
             e == Modified(w)
  <2>1. w \in Window /\ s \in SeqNums
    BY <1>types DEF Window
  <2>2. /\ Proposed(s)
        /\ w.entry.tx \in {NoTx, Proposal(s)}
        /\ n = L => w.entry.tx = Proposal(s)
    BY <1>0 DEF WindowsFollow
  <2>3. e \in Entry /\ e.tx = w.entry.tx
    BY <2>1, EntryTypes, EntryFields
  <2>4. Grows /\ LogsFollow'
    <3>1. CASE logs' = [logs EXCEPT ![n][s] = e]
      <4> HIDE DEF e, s
      <4>1. UNCHANGED globalSequence
        BY <1>5 DEF WriteBack
      <4> QED
        BY <2>1, <2>2, <2>3, <3>1, <4>1, LogsWritten
    <3>2. CASE UNCHANGED logs
      BY <1>5, <3>2, LogsKept DEF WriteBack
    <3> QED
      BY <1>5, <3>1, <3>2 DEF WriteBack
  <2>5. OnlyLeaderProposes'
    BY <1>5, LeaderKept DEF WriteBack
  <2>6. MessagesFollow'
    <3>1. \A k \in Node, q \in SeqNums : commitNet'[k][q] > 0 =>
            commitNet[k][q] > 0 \/ Proposed(q)'
      <4>1. UNCHANGED commitNet
              \/ commitNet' = Sent(commitNet, Node \ {n}, s)
        BY <1>5 DEF WriteBack
      <4>2. Proposed(s)'
        BY <2>1, <2>2, <2>4 DEF Grows
      <4> QED
        BY <4>1, <4>2 DEF Sent
    <3> QED
      BY <1>5, <2>4, <3>1, MessagesKept DEF WriteBack
  <2>7. TrackersFollow'
    BY <1>5, <2>4, TrackersKept DEF WriteBack
  <2>8. WindowsFollow'
    <3>1. \A k \in Node : windows'[k] \subseteq windows[k]
      BY <1>5, <1>types DEF WriteBack
    <3> QED
      BY <2>4, <3>1, WindowsKept
  <2>9. ExecutorFollows' /\ ExecutedFollows'
    BY <1>5, <2>4, ExecutionKept DEF WriteBack
  <2> QED
    BY <1>0, <2>4, <2>5, <2>6, <2>7, <2>8, <2>9 DEF IInv
<1> QED
  BY <1>1, <1>2, <1>3, <1>4, <1>5 DEF Work

\* The executor keeps the invariant: its copy of an entry carries what is
\* proposed, also when the log no longer does.
LEMMA ExecuteKeeps ==
  ASSUME IInv, NEW n \in Node, Execute(n)
  PROVE  IInv' /\ Grows
<1>0. /\ TypeOK /\ LogsFollow /\ ExecutorFollows /\ ExecutedFollows /\ TypeOK'
  BY TypeExecute DEF IInv
<1>types. /\ executor \in [Node -> [pc : {"idle", "scan", "apply"}, entry : Entry]]
         /\ executed \in [Node -> Seq(Tx)]
  BY <1>0 DEF TypeOK
<1>1. ASSUME ExecApply(n) PROVE IInv' /\ Grows
  <2> DEFINE s == NextSeq(n)
             e == [executor[n].entry EXCEPT !.status = "E"]
  <2>1. Proposed(s) /\ executor[n].entry.tx = Proposal(s)
    BY <1>0, <1>1 DEF ExecApply, ExecutorFollows
  <2>2. s \in SeqNums
    BY <1>0, <2>1, ProposedHolds
  <2>3. e \in Entry /\ e.tx = Proposal(s)
    BY <1>types, <2>1, EntryTypes, EntryFields
  <2>4. Grows /\ LogsFollow'
    <3>1. logs' = [logs EXCEPT ![n][s] = e] /\ UNCHANGED globalSequence
      BY <1>1 DEF ExecApply
    <3> HIDE DEF s, e
    <3> QED
      BY <2>1, <2>2, <2>3, <3>1, LogsWritten
  <2>5. OnlyLeaderProposes'
    BY <1>1, LeaderKept DEF ExecApply
  <2>6. MessagesFollow' /\ TrackersFollow' /\ WindowsFollow'
    BY <1>1, <2>4, MessagesKept, TrackersKept, WindowsKept DEF ExecApply
  <2>7. \A q : Proposed(q) => Proposed(q)' /\ Proposal(q)' = Proposal(q)
    BY <1>0, <2>4, ProposedHolds DEF Grows
  <2>8. \A m \in Node \ {n} :
          /\ executed'[m] = executed[m]
          /\ executor'[m] = executor[m]
    BY <1>1, <1>types DEF ExecApply
  <2>9. ExecutorFollows'
    <3>1. executor'[n].pc = "scan"
      BY <1>1, <1>types DEF ExecApply
    <3> QED
      BY <1>0, <2>7, <2>8, <3>1 DEF ExecutorFollows, NextSeq
  <2>10. ExecutedFollows'
    <3>1. /\ DOMAIN executed'[n] = DOMAIN executed[n] \cup {s}
          /\ executed'[n][s] = executor[n].entry.tx
          /\ \A i \in DOMAIN executed[n] : executed'[n][i] = executed[n][i]
      BY <1>1, <1>types DEF ExecApply, NextSeq
    <3> QED
      BY <1>0, <2>1, <2>7, <2>8, <3>1 DEF ExecutedFollows
  <2> QED
    BY <1>0, <2>4, <2>5, <2>6, <2>9, <2>10 DEF IInv
<1>2. ASSUME ExecRead(n) PROVE IInv' /\ Grows
  <2>1. Grows /\ LogsFollow'
    BY <1>2, LogsKept DEF ExecRead
  <2>2. OnlyLeaderProposes'
    BY <1>2, LeaderKept DEF ExecRead
  <2>3. MessagesFollow' /\ TrackersFollow' /\ WindowsFollow'
    BY <1>2, <2>1, MessagesKept, TrackersKept, WindowsKept DEF ExecRead
  <2>4. ExecutorFollows' /\ ExecutedFollows'
    <3>1. /\ Proposed(NextSeq(n))
          /\ logs[n][NextSeq(n)].tx = Proposal(NextSeq(n))
      BY <1>0, <1>2 DEF ExecRead, NextCommitted, LogsFollow
    <3>2. \A m \in Node : executor'[m].pc = "apply" =>
            \/ executor'[m] = executor[m]
            \/ /\ Proposed(NextSeq(m))
               /\ executor'[m].entry.tx = Proposal(NextSeq(m))
      BY <1>2, <1>types, <3>1 DEF ExecRead
    <3> QED
      BY <1>2, <2>1, <3>2, ExecutionKept DEF ExecRead
  <2> QED
    BY <1>0, <2>1, <2>2, <2>3, <2>4 DEF IInv
<1>3. ASSUME ExecWake(n) \/ ExecSleep(n) \/ ExecCrash(n) PROVE IInv' /\ Grows
  <2>1. Grows /\ LogsFollow'
    BY <1>3, LogsKept DEF ExecWake, ExecSleep, ExecCrash
  <2>2. OnlyLeaderProposes'
    BY <1>3, LeaderKept DEF ExecWake, ExecSleep, ExecCrash
  <2>3. MessagesFollow' /\ TrackersFollow' /\ WindowsFollow'
    BY <1>3, <2>1, MessagesKept, TrackersKept, WindowsKept
    DEF ExecWake, ExecSleep, ExecCrash
  <2>4. ExecutorFollows' /\ ExecutedFollows'
    <3>1. \A m \in Node :
            executor'[m].pc = "apply" => executor'[m] = executor[m]
      BY <1>3, <1>types DEF ExecWake, ExecSleep, ExecCrash
    <3> QED
      BY <1>3, <2>1, <3>1, ExecutionKept DEF ExecWake, ExecSleep, ExecCrash
  <2> QED
    BY <1>0, <2>1, <2>2, <2>3, <2>4 DEF IInv
<1> QED
  BY <1>1, <1>2, <1>3 DEF Execute

\* Every step keeps the invariant and what was proposed before.
LEMMA NextKeeps == IInv /\ [Next]_vars => IInv' /\ Grows
<1> SUFFICES ASSUME IInv, [Next]_vars PROVE IInv' /\ Grows
  OBVIOUS
<1>0. TypeOK /\ OnlyLeaderProposes /\ TypeOK'
  BY TypeNext DEF IInv
<1>1. ASSUME NEW n \in Node, NEW t \in Tx, SendTransaction(n, t)
      PROVE  IInv' /\ Grows
  <2>1. Grows /\ LogsFollow'
    BY <1>1, LogsKept DEF SendTransaction
  <2>2. OnlyLeaderProposes'
    <3>1. n = L
      BY <1>0, <1>1 DEF SendTransaction, OnlyLeaderProposes
    <3>2. transactionQueue \in [Node -> Seq(Tx)]
      BY <1>0 DEF TypeOK
    <3>3. \A m \in Node \ {L} : transactionQueue'[m] = transactionQueue[m]
      BY <1>1, <3>1, <3>2 DEF SendTransaction
    <3>4. UNCHANGED <<view, isLeader, spawned>>
      BY <1>1 DEF SendTransaction
    <3> QED
      BY <1>0, <3>3, <3>4 DEF OnlyLeaderProposes
  <2>3. MessagesFollow' /\ TrackersFollow' /\ WindowsFollow'
    BY <1>1, <2>1, MessagesKept, TrackersKept, WindowsKept DEF SendTransaction
  <2>4. ExecutorFollows' /\ ExecutedFollows'
    BY <1>1, <2>1, ExecutionKept DEF SendTransaction
  <2> QED
    BY <1>0, <2>1, <2>2, <2>3, <2>4 DEF IInv
<1>2. ASSUME \/ \E n \in Node : Operate(n)
             \/ UNCHANGED vars
      PROVE  IInv' /\ Grows
  <2>1. UNCHANGED <<viewVars, leaderVars, logs, trackerVars, windows, execVars,
                    netVars>>
    BY <1>2 DEF Operate, Kill, Revive, BecomeMalicious, DataRace, vars
  <2>2. Grows /\ LogsFollow'
    BY <2>1, LogsKept
  <2>3. OnlyLeaderProposes'
    BY <2>1, LeaderKept
  <2>4. MessagesFollow' /\ TrackersFollow' /\ WindowsFollow'
    BY <2>1, <2>2, MessagesKept, TrackersKept, WindowsKept
  <2>5. ExecutorFollows' /\ ExecutedFollows'
    BY <2>1, <2>2, ExecutionKept
  <2> QED
    BY <1>0, <2>2, <2>3, <2>4, <2>5 DEF IInv
<1>3. CASE Next
  BY <1>1, <1>2, <1>3, HandleKeeps, WorkKeeps, ExecuteKeeps DEF Next
<1> QED
  BY <1>2, <1>3

-----------------------------------------------------------------------------
(* The theorems.                                                            *)

\* Every variable keeps its type: in particular no counter of messages on
\* their way goes below zero, and what is executed is always a transaction.
THEOREM TypeCorrect == Spec => []TypeOK
<1>1. IInv => TypeOK
  BY DEF IInv
<1> QED
  BY <1>1, InitHolds, NextKeeps, PTL DEF Spec

\* Everything a replica holds about a sequence number follows the leader's
\* proposal for it, through every unlocked write and every operator command.
THEOREM InvariantHolds == Spec => []IInv
BY InitHolds, NextKeeps, PTL DEF Spec

\* Replicas that executed the same sequence number executed the same
\* transaction there, for any number of replicas and faults and any schedule,
\* as long as the view does not change.
THEOREM AgreementHolds == Spec => []Agreement
<1>1. IInv => Agreement
  BY DEF IInv, ExecutedFollows, Agreement
<1> QED
  BY <1>1, InvariantHolds, PTL

\* The model, looked at only through the leader's proposals and what replicas
\* have executed, is an ordered execution: at first nothing is proposed.
LEMMA RefinesInit == Init => Ordered!Init
<1> SUFFICES ASSUME Init PROVE Ordered!Init
  OBVIOUS
<1>1. globalSequence[L] = 0
  BY LeaderIsNode DEF Init
<1>2. proposals = <<>>
  BY <1>1 DEF proposals
<1> QED
  BY <1>2 DEF Init, Ordered!Init

\* A step that proposes is a Choose of OrderedExecution, one that executes an
\* Apply, and every other one a stutter.
LEMMA RefinesNext ==
  IInv /\ [Next]_vars => [Ordered!Next]_(Ordered!vars)
<1> SUFFICES ASSUME IInv, [Next]_vars
             PROVE  Ordered!Next \/ UNCHANGED <<proposals, executed>>
  BY DEF Ordered!vars
<1>0. /\ Grows /\ TypeOK /\ LogsFollow /\ ExecutorFollows /\ OnlyLeaderProposes
      /\ L \in Node
  BY NextKeeps, LeaderIsNode DEF IInv
<1>state. /\ executed \in [Node -> Seq(Tx)]
         /\ globalSequence \in [Node -> 0 .. MaxSeq]
         /\ logs \in [Node -> [SeqNums -> Entry]]
         /\ spawned \in [Node -> [Tx -> Nat]]
  BY <1>0 DEF TypeOK
<1>types. /\ globalSequence[L] \in Nat
         /\ \A s \in 1 .. globalSequence[L] : s \in SeqNums /\ Proposed(s)
  BY <1>0, <1>state, SizeAssumption, ReplicaAssumption DEF SeqNums, Proposed
<1>1. UNCHANGED globalSequence => UNCHANGED proposals
  BY <1>0, <1>types DEF Grows, proposals
<1>2. Len(proposals) = globalSequence[L]
  BY <1>types DEF proposals
<1>3. ASSUME NEW n \in Node, NEW t \in Tx, SendPreprepare(n, t)
      PROVE  Ordered!Next
  <2>1. Ordered!Choose(t)
    <3>0. PICK s : s = globalSequence[L] + 1
      OBVIOUS
    <3>1. n = L
      BY <1>0, <1>3, <1>state DEF SendPreprepare, OnlyLeaderProposes
    <3>2. globalSequence'[L] = s /\ s \in SeqNums
      BY <1>0, <1>3, <1>state, <3>0, <3>1, SizeAssumption, ReplicaAssumption DEF SendPreprepare, SeqNums
    <3>3. Proposal(s)' = t
      <4>1. PrePrepared(NoEntry, t).tx = t
        BY DEF PrePrepared, NoEntry
      <4>2. logs'[L][s] = PrePrepared(NoEntry, t)
        BY <1>0, <1>3, <1>state, <3>0, <3>1, <3>2 DEF SendPreprepare
      <4> QED
        BY <4>1, <4>2 DEF Proposal
    <3>4. \A q \in 1 .. globalSequence[L] : Proposal(q)' = Proposal(q)
      BY <1>0, <1>types DEF Grows
    <3>5. proposals' = Append(proposals, t)
      <4>1. proposals' = [q \in 1 .. s |-> Proposal(q)']
        BY <3>2 DEF proposals
      <4>2. Append(proposals, t) =
              [q \in 1 .. s |-> IF q = s THEN t ELSE Proposal(q)]
        BY <1>types, <1>2, <3>0 DEF proposals
      <4>3. \A q \in 1 .. s :
              Proposal(q)' = IF q = s THEN t ELSE Proposal(q)
        BY <1>types, <3>0, <3>3, <3>4
      <4> QED
        BY <4>1, <4>2, <4>3
    <3>6. UNCHANGED executed
      BY <1>3 DEF SendPreprepare
    <3> QED
      BY <3>5, <3>6 DEF Ordered!Choose
  <2> QED
    BY <2>1 DEF Ordered!Next
<1>4. ASSUME NEW n \in Node, ExecApply(n) PROVE Ordered!Next
  <2>1. /\ Proposed(NextSeq(n))
        /\ executor[n].entry.tx = Proposal(NextSeq(n))
    BY <1>0, <1>4 DEF ExecApply, ExecutorFollows
  <2>2. Len(executed[n]) < Len(proposals)
    BY <1>2, <1>types, <1>state, <2>1 DEF Proposed, NextSeq
  <2>3. proposals[Len(executed[n]) + 1] = executor[n].entry.tx
    BY <2>1 DEF proposals, Proposed, NextSeq
  <2>4. UNCHANGED proposals
    BY <1>1, <1>4 DEF ExecApply
  <2>5. executed' =
          [executed EXCEPT ![n] = Append(@, proposals[Len(@) + 1])]
    BY <1>4, <1>state, <2>3 DEF ExecApply
  <2>6. Ordered!Apply(n)
    BY <2>2, <2>4, <2>5 DEF Ordered!Apply
  <2> QED
    BY <2>6 DEF Ordered!Next
<1>5. ASSUME UNCHANGED <<globalSequence, executed>>
      PROVE  UNCHANGED <<proposals, executed>>
  BY <1>1, <1>5
<1>6. ASSUME NEW n \in Node, Handle(n)
      PROVE  UNCHANGED <<globalSequence, executed>>
  BY <1>6 DEF Handle, PrePrepare, RejectPrePrepare, Prepare, CollectedPrepare,
              IgnoreCollectedPrepare, Commit, IgnoreVote
<1>7. ASSUME NEW n \in Node, Work(n)
      PROVE  \/ UNCHANGED <<globalSequence, executed>>
             \/ \E t \in Tx : SendPreprepare(n, t)
  BY <1>7 DEF Work, ProcessTransaction, MonitorPrepare, MonitorCommit,
              CommitTimeout, WriteBack
<1>8. ASSUME NEW n \in Node, Execute(n)
      PROVE  UNCHANGED <<globalSequence, executed>> \/ ExecApply(n)
  BY <1>8 DEF Execute, ExecWake, ExecSleep, ExecRead, ExecCrash
<1>9. ASSUME \/ \E n \in Node, t \in Tx : SendTransaction(n, t)
             \/ \E n \in Node : Operate(n)
             \/ UNCHANGED vars
      PROVE  UNCHANGED <<globalSequence, executed>>
  BY <1>9 DEF SendTransaction, Operate, Kill, Revive, BecomeMalicious, DataRace,
              vars
<1> QED
  BY <1>3, <1>4, <1>5, <1>6, <1>7, <1>8, <1>9 DEF Next

\* NormalCase implements OrderedExecution: the leader appends to one order that
\* never changes, and every replica executes it from its start and leaves
\* nothing out.
THEOREM RefinementHolds == Spec => ImplementsOrderedExecution
BY InvariantHolds, RefinesInit, RefinesNext, PTL
DEF Spec, ImplementsOrderedExecution, Ordered!Spec
=============================================================================
