-------------------------- MODULE CheckpointProofs --------------------------
(***************************************************************************)
(* Proofs about Checkpoint: the counters of checkpoint messages are backed *)
(* by replicas that have executed.  The bound on what is counted is not    *)
(* inductive; the one on what is counted or on its way is.                 *)
(***************************************************************************)
EXTENDS Checkpoint, NormalCaseProofs, FiniteSetTheorems

\* The replicas that have executed a sequence number.
Executors(s) == {m \in Node : Len(executed[m]) >= s}

\* Every replica that executes s sends each replica one checkpoint for s.
CheckpointsSent ==
  \A n \in Node, s \in SeqNums :
    checkpointTracker[n][s].count + checkpointNet[n][s]
      <= Cardinality(Executors(s))

CheckpointInv == /\ IInv
                 /\ CheckpointTypeOK
                 /\ CheckpointsSent

-----------------------------------------------------------------------------
\* Sets of replicas are finite: one more member counts one more.
LEMMA ExecutorCounts ==
  /\ \A S \in SUBSET Node : IsFiniteSet(S) /\ Cardinality(S) \in Nat
  /\ \A S \in SUBSET Node : \A x :
       x \notin S => Cardinality(S \cup {x}) = Cardinality(S) + 1
<1>1. \A S \in SUBSET Node : IsFiniteSet(S)
  BY NodeAssumption, FS_Subset
<1>2. \A S \in SUBSET Node : Cardinality(S) \in Nat
  BY <1>1, FS_CardinalityType
<1>3. \A S \in SUBSET Node : \A x :
        x \notin S => Cardinality(S \cup {x}) = Cardinality(S) + 1
  BY <1>1, FS_AddElement
<1> QED
  BY <1>1, <1>2, <1>3

LEMMA CheckpointInitHolds == CheckpointInit => CheckpointInv
<1> SUFFICES ASSUME CheckpointInit PROVE CheckpointInv
  OBVIOUS
<1>1. IInv
  BY InitHolds DEF CheckpointInit
<1>2. NoTracker \in Tracker /\ NoTracker.count = 0
  BY DEF NoTracker, Tracker
<1>3. CheckpointTypeOK
  BY <1>1, <1>2, SizeAssumption DEF IInv, CheckpointInit, CheckpointTypeOK
<1>4. CheckpointsSent
  <2>1. ASSUME NEW n \in Node, NEW s \in SeqNums
        PROVE  checkpointTracker[n][s].count + checkpointNet[n][s] = 0
    BY <1>2 DEF CheckpointInit, Init
  <2>2. ASSUME NEW s \in SeqNums
        PROVE  Cardinality(Executors(s)) \in Nat
    BY ExecutorCounts DEF Executors
  <2> QED
    BY <2>1, <2>2 DEF CheckpointsSent
<1> QED
  BY <1>1, <1>3, <1>4 DEF CheckpointInv

\* In the normal case only the executor executes, and only it sends
\* checkpoints.
LEMMA ExecutorSends ==
  ASSUME [Next]_vars
  PROVE  \/ UNCHANGED <<executed, checkpointNet>>
         \/ \E k \in Node : ExecApply(k)
<1>1. ASSUME NEW k \in Node, NEW t \in Tx, SendTransaction(k, t)
      PROVE  UNCHANGED <<executed, checkpointNet>>
  BY <1>1 DEF SendTransaction, execVars, netVars
<1>2. ASSUME NEW k \in Node, Handle(k)
      PROVE  UNCHANGED <<executed, checkpointNet>>
  BY <1>2 DEF Handle, PrePrepare, RejectPrePrepare, CollectedPrepare,
              IgnoreCollectedPrepare, Prepare, Commit, IgnoreVote, execVars
<1>3. ASSUME NEW k \in Node, Work(k)
      PROVE  UNCHANGED <<executed, checkpointNet>>
  BY <1>3 DEF Work, ProcessTransaction, SendPreprepare, MonitorPrepare,
              MonitorCommit, CommitTimeout, WriteBack, execVars, netVars
<1>4. ASSUME NEW k \in Node, Execute(k)
      PROVE  UNCHANGED <<executed, checkpointNet>> \/ ExecApply(k)
  BY <1>4 DEF Execute, ExecWake, ExecSleep, ExecRead, ExecCrash, execVars,
              netVars
<1>5. ASSUME NEW k \in Node, Operate(k)
      PROVE  UNCHANGED <<executed, checkpointNet>>
  BY <1>5 DEF Operate, Kill, Revive, BecomeMalicious, DataRace, execVars,
              netVars
<1>6. ASSUME UNCHANGED vars
      PROVE  UNCHANGED <<executed, checkpointNet>>
  BY <1>6 DEF vars, execVars, netVars
<1> QED
  BY <1>1, <1>2, <1>3, <1>4, <1>5, <1>6 DEF Next

\* Executing s makes the executor one of the replicas that have executed s,
\* and sends everybody at most one checkpoint, about s.
LEMMA ApplySends ==
  ASSUME CheckpointInv, NEW k \in Node, ExecApply(k), UNCHANGED cpVars
  PROVE  CheckpointsSent'
<1>types. /\ executed \in [Node -> Seq(Tx)]
          /\ checkpointNet \in [Node -> [SeqNums -> Nat]]
          /\ checkpointTracker \in [Node -> [SeqNums -> Tracker]]
          /\ SeqNums \subseteq Nat
  BY DEF CheckpointInv, CheckpointTypeOK, TypeOK, SeqNums
<1>1. PICK q \in Nat : /\ q = NextSeq(k)
                      /\ q = Len(executed[k]) + 1 /\ Len(executed[k]) \in Nat
  BY <1>types DEF NextSeq
<1>2. /\ executed' = [executed EXCEPT ![k] = Append(@, executor[k].entry.tx)]
      /\ \/ checkpointNet' = Sent(checkpointNet, Node, q)
         \/ checkpointNet' = checkpointNet
  BY <1>1 DEF ExecApply
<1>3. /\ Len(executed'[k]) = q
      /\ \A m \in Node : m # k => executed'[m] = executed[m]
  BY <1>1, <1>2, <1>types
<1>4. \A s \in SeqNums : s # q => Executors(s)' = Executors(s)
  <2>1. ASSUME NEW s \in SeqNums, s # q, NEW m \in Node
        PROVE  Len(executed'[m]) >= s <=> Len(executed[m]) >= s
    <3>1. s \in Nat
      BY <1>types
    <3>2. CASE m = k
      <4>1. Len(executed'[m]) = q /\ q = Len(executed[m]) + 1
        BY <1>1, <1>3, <3>2
      <4>2. Len(executed[m]) \in Nat
        BY <1>1, <3>2
      <4> QED
        BY <2>1, <3>1, <4>1, <4>2
    <3>3. CASE m # k
      BY <1>3, <3>3
    <3> QED
      BY <3>2, <3>3
  <2> QED
    BY <2>1 DEF Executors
<1>5. k \notin Executors(q) /\ Executors(q)' = Executors(q) \cup {k}
  <2>1. ~(Len(executed[k]) >= q)
    BY <1>1
  <2>2. Len(executed'[k]) >= q
    BY <1>1, <1>3
  <2> QED
    BY <1>3, <2>1, <2>2 DEF Executors
<1>6. Cardinality(Executors(q)') = Cardinality(Executors(q)) + 1
  <2>1. Executors(q) \in SUBSET Node
    BY DEF Executors
  <2> QED
    BY <1>5, <2>1, ExecutorCounts
<1>7. \A n \in Node, s \in SeqNums :
        checkpointNet'[n][s] <= IF s = q THEN checkpointNet[n][s] + 1
                                ELSE checkpointNet[n][s]
  BY <1>2, <1>types DEF Sent
<1>8. ASSUME NEW n \in Node, NEW s \in SeqNums
      PROVE  checkpointTracker'[n][s].count + checkpointNet'[n][s]
               <= Cardinality(Executors(s)')
  <2>1. checkpointTracker'[n][s].count + checkpointNet[n][s]
          <= Cardinality(Executors(s))
    BY DEF CheckpointInv, CheckpointsSent, cpVars
  <2>2. /\ checkpointTracker'[n][s].count \in Nat
        /\ checkpointNet[n][s] \in Nat /\ checkpointNet'[n][s] \in Nat
    <3>1. checkpointTracker'[n][s] \in Tracker
      BY <1>types DEF cpVars
    <3>2. checkpointNet' \in [Node -> [SeqNums -> Nat]]
      BY <1>2, <1>types, NetTypes
    <3> QED
      BY <3>1, <3>2, <1>types DEF Tracker
  <2>3. Cardinality(Executors(s)) \in Nat
    BY ExecutorCounts DEF Executors
  <2>4. CASE s = q
    BY <1>6, <1>7, <2>1, <2>2, <2>3, <2>4
  <2>5. CASE s # q
    BY <1>4, <1>7, <2>1, <2>2, <2>3, <2>5
  <2> QED
    BY <2>4, <2>5
<1> QED
  BY <1>8 DEF CheckpointsSent, Executors

\* The two steps of the checkpoint goroutines leave the normal case as it is,
\* but for the messages taken and the timers counted.
LEMMA NormalCaseKept ==
  ASSUME IInv, early' \in Nat, checkpointNet' \in [Node -> [SeqNums -> Nat]],
         UNCHANGED <<adminVars, viewVars, leaderVars, logs, prepareTrackers,
                     commitTrackers, timerVars, windows, execVars,
                     prePrepareNet, prepareNet, collectedNet, commitNet>>
  PROVE  IInv'
<1> USE DEF adminVars, viewVars, leaderVars, timerVars, execVars
<1>1. TypeOK'
  BY DEF IInv, TypeOK
<1>2. OnlyLeaderProposes'
  BY DEF IInv, OnlyLeaderProposes
<1>3. \A s : (Proposed(s)' <=> Proposed(s)) /\ Proposal(s)' = Proposal(s)
  BY DEF Proposed, Proposal
<1>4. MessagesFollow' /\ TrackersFollow'
  BY <1>3 DEF IInv, MessagesFollow, TrackersFollow
<1>5. LogsFollow' /\ WindowsFollow'
  BY <1>3 DEF IInv, LogsFollow, WindowsFollow
<1>6. ExecutorFollows' /\ ExecutedFollows'
  BY <1>3 DEF IInv, ExecutorFollows, ExecutedFollows, NextSeq
<1> QED
  BY <1>1, <1>2, <1>4, <1>5, <1>6 DEF IInv

LEMMA RecieveKeeps ==
  ASSUME CheckpointInv, NEW k \in Node, NEW q \in SeqNums,
         RecieveCheckpoint(k, q)
  PROVE  CheckpointInv'
<1>types. /\ checkpointNet \in [Node -> [SeqNums -> Nat]]
          /\ checkpointTracker \in [Node -> [SeqNums -> Tracker]]
          /\ lastStableCheckpoint \in [Node -> 0 .. MaxSeq]
          /\ early \in Nat /\ TypeOK
  BY DEF CheckpointInv, CheckpointTypeOK, TypeOK
<1>1. /\ checkpointNet[k][q] > 0
      /\ checkpointNet' = [checkpointNet EXCEPT ![k][q] = @ - 1]
      /\ checkpointTracker' =
           [checkpointTracker EXCEPT ![k][q] = Counted(@, k, 2 * F)]
      /\ UNCHANGED <<lastStableCheckpoint, executed, early>>
  BY DEF RecieveCheckpoint, Received, execVars, trackerVars
<1>2. checkpointNet' \in [Node -> [SeqNums -> Nat]]
  BY <1>1, <1>types
<1>3. IInv'
  BY <1>1, <1>2, <1>types, NormalCaseKept
  DEF CheckpointInv, RecieveCheckpoint, trackerVars
<1>4. PICK counted \in Tracker :
        /\ counted.count = checkpointTracker[k][q].count + 1
        /\ checkpointTracker' = [checkpointTracker EXCEPT ![k][q] = counted]
  <2> DEFINE c == Counted(checkpointTracker[k][q], k, 2 * F)
  <2>1. c \in Tracker
    BY <1>types, TrackerTypes, ReplicaAssumption
  <2>2. c.count = checkpointTracker[k][q].count + 1
    BY DEF Counted
  <2>3. checkpointTracker' = [checkpointTracker EXCEPT ![k][q] = c]
    BY <1>1
  <2> HIDE DEF c
  <2> QED
    BY <2>1, <2>2, <2>3
<1>5. CheckpointTypeOK'
  BY <1>1, <1>3, <1>4, <1>types DEF IInv, CheckpointTypeOK
<1>6. ASSUME NEW n \in Node, NEW s \in SeqNums
      PROVE  checkpointTracker'[n][s].count + checkpointNet'[n][s]
               = checkpointTracker[n][s].count + checkpointNet[n][s]
  <2>1. CASE n = k /\ s = q
    <3>1. /\ checkpointTracker'[n][s].count = checkpointTracker[n][s].count + 1
          /\ checkpointNet'[n][s] = checkpointNet[n][s] - 1
      BY <1>1, <1>4, <1>types, <2>1
    <3>2. checkpointTracker[n][s].count \in Nat /\ checkpointNet[n][s] \in Nat
      BY <1>types DEF Tracker
    <3> QED
      BY <3>1, <3>2
  <2>2. CASE ~(n = k /\ s = q)
    BY <1>1, <1>4, <1>types, <2>2
  <2> QED
    BY <2>1, <2>2
<1>7. \A s : Executors(s)' = Executors(s)
  BY <1>1 DEF Executors
<1>8. CheckpointsSent'
  BY <1>6, <1>7 DEF CheckpointInv, CheckpointsSent
<1> QED
  BY <1>3, <1>5, <1>8 DEF CheckpointInv

LEMMA MonitorKeeps ==
  ASSUME CheckpointInv, NEW k \in Node, NEW q \in SeqNums,
         MonitorCheckpoint(k, q)
  PROVE  CheckpointInv'
<1>types. /\ checkpointNet \in [Node -> [SeqNums -> Nat]]
          /\ checkpointTracker \in [Node -> [SeqNums -> Tracker]]
          /\ lastStableCheckpoint \in [Node -> 0 .. MaxSeq]
          /\ early \in Nat /\ TypeOK
  BY DEF CheckpointInv, CheckpointTypeOK, TypeOK
<1>1. /\ checkpointTracker' =
           [checkpointTracker EXCEPT ![k][q].monitor = "done"]
      /\ UNCHANGED <<lastStableCheckpoint, executed, checkpointNet>>
      /\ early' \in Nat
  BY <1>types DEF MonitorCheckpoint, CheckPointChan, execVars, netVars
<1>2. IInv'
  BY <1>1, <1>types, NormalCaseKept
  DEF CheckpointInv, MonitorCheckpoint, netVars
<1>3. PICK ended \in Tracker :
        /\ ended.count = checkpointTracker[k][q].count
        /\ checkpointTracker' = [checkpointTracker EXCEPT ![k][q] = ended]
  <2> DEFINE e == [checkpointTracker[k][q] EXCEPT !.monitor = "done"]
  <2>0. checkpointTracker[k][q] \in Tracker
    BY <1>types
  <2>1. e \in Tracker /\ e.count = checkpointTracker[k][q].count
    BY <2>0 DEF Tracker
  <2>2. checkpointTracker' = [checkpointTracker EXCEPT ![k][q] = e]
    BY <1>1, <1>types
  <2> HIDE DEF e
  <2> QED
    BY <2>1, <2>2
<1>4. CheckpointTypeOK'
  BY <1>1, <1>2, <1>3, <1>types DEF IInv, CheckpointTypeOK
<1>5. \A n \in Node, s \in SeqNums :
        checkpointTracker'[n][s].count = checkpointTracker[n][s].count
  BY <1>3, <1>types
<1>6. \A s : Executors(s)' = Executors(s)
  BY <1>1 DEF Executors
<1>7. CheckpointsSent'
  BY <1>1, <1>5, <1>6 DEF CheckpointInv, CheckpointsSent
<1> QED
  BY <1>2, <1>4, <1>7 DEF CheckpointInv

-----------------------------------------------------------------------------
LEMMA CheckpointNextKeeps ==
  CheckpointInv /\ [CheckpointNext]_allVars => CheckpointInv'
<1> SUFFICES ASSUME CheckpointInv, [CheckpointNext]_allVars
             PROVE  CheckpointInv'
  OBVIOUS
<1>1. ASSUME [Next]_vars, UNCHANGED cpVars
      PROVE  CheckpointInv'
  <2>1. IInv'
    BY <1>1, NextKeeps DEF CheckpointInv
  <2>2. CheckpointTypeOK'
    BY <1>1, <2>1 DEF CheckpointInv, CheckpointTypeOK, IInv, cpVars
  <2>3. CheckpointsSent'
    <3>1. CASE UNCHANGED <<executed, checkpointNet>>
      BY <1>1, <3>1 DEF CheckpointInv, CheckpointsSent, Executors, cpVars
    <3>2. ASSUME NEW k \in Node, ExecApply(k)
          PROVE  CheckpointsSent'
      BY <1>1, <3>2, ApplySends
    <3> QED
      BY <1>1, <3>1, <3>2, ExecutorSends
  <2> QED
    BY <2>1, <2>2, <2>3 DEF CheckpointInv
<1>2. ASSUME NEW n \in Node, CheckpointStep(n)
      PROVE  CheckpointInv'
  BY <1>2, RecieveKeeps, MonitorKeeps DEF CheckpointStep
<1> QED
  BY <1>1, <1>2 DEF CheckpointNext, allVars

\* The state of the checkpoint counters keeps its type, together with the
\* state of the normal case below it.
THEOREM CheckpointTypesHold == CheckpointSpec => []CheckpointTypeOK
<1>1. CheckpointInv => CheckpointTypeOK
  BY DEF CheckpointInv
<1> QED
  BY <1>1, CheckpointInitHolds, CheckpointNextKeeps, PTL DEF CheckpointSpec

\* RecieveCheckpoint never counts more checkpoints for a sequence number than
\* there are replicas that have executed it.
THEOREM CheckpointsAreBacked == CheckpointSpec => []CheckpointsBacked
<1>1. CheckpointInv => CheckpointsBacked
  <2> SUFFICES ASSUME CheckpointInv, NEW n \in Node, NEW s \in SeqNums
               PROVE  checkpointTracker[n][s].count <= Cardinality(Executors(s))
    BY DEF CheckpointsBacked, Executors
  <2>1. checkpointTracker[n][s].count + checkpointNet[n][s]
          <= Cardinality(Executors(s))
    BY DEF CheckpointInv, CheckpointsSent
  <2>2. /\ checkpointTracker[n][s].count \in Nat /\ checkpointNet[n][s] \in Nat
        /\ Cardinality(Executors(s)) \in Nat
    <3>1. Executors(s) \in SUBSET Node
      BY DEF Executors
    <3> QED
      BY <3>1, ExecutorCounts
      DEF CheckpointInv, CheckpointTypeOK, TypeOK, Tracker
  <2> QED
    BY <2>1, <2>2
<1> QED
  BY <1>1, CheckpointInitHolds, CheckpointNextKeeps, PTL DEF CheckpointSpec
=============================================================================
