----------------------------- MODULE Checkpoint -----------------------------
(***************************************************************************)
(* Checkpoints, on top of NormalCase: the replicas that execute a multiple *)
(* of CheckPoint tell everybody (NormalCase!ExecApply); here every replica *)
(* counts what it is told and a goroutine waits to call the checkpoint     *)
(* stable.                                                                 *)
(***************************************************************************)
EXTENDS NormalCase

VARIABLES checkpointTracker,    \* per replica and sequence number
          lastStableCheckpoint  \* per replica

cpVars == <<checkpointTracker, lastStableCheckpoint>>
allVars == <<vars, cpVars>>

CheckpointTypeOK ==
  /\ TypeOK
  /\ checkpointTracker \in [Node -> [SeqNums -> Tracker]]
  /\ lastStableCheckpoint \in [Node -> 0 .. MaxSeq]

CheckpointInit ==
  /\ Init
  /\ checkpointTracker = [n \in Node |-> [s \in SeqNums |-> NoTracker]]
  /\ lastStableCheckpoint = [n \in Node |-> 0]

\* A killed replica counts checkpoints too: there is no test of isActive.
\* What the handler writes into the log entry is read by nobody here, but
\* while it runs it undoes unlocked writes (Overlapped).
RecieveCheckpoint(n, s) ==
  /\ Up(n) /\ checkpointNet[n][s] > 0
  /\ checkpointNet' = Received(checkpointNet, n, s)
  /\ checkpointTracker' =
       [checkpointTracker EXCEPT ![n][s] = Counted(@, n, 2 * F)]
  /\ UNCHANGED <<lastStableCheckpoint, adminVars, viewVars, leaderVars, logs,
                 trackerVars, timerVars, windows, execVars, prePrepareNet,
                 prepareNet, collectedNet, commitNet>>

\* monitorCheckpointTimeout selects on checkPointChan; checkPointThresholds
\* puts its token into quorumChan, and nothing is sent to checkPointChan.
CheckPointChan(n, s) == FALSE

MonitorCheckpoint(n, s) ==
  LET settled == Settled(s) /\ \A m \in Node : checkpointNet[m][s] = 0 IN
  /\ Up(n) /\ checkpointTracker[n][s].monitor = "wait"
  /\ CheckPointChan(n, s) \/ settled \/ early < MaxEarly
  /\ early' = IF CheckPointChan(n, s) \/ settled THEN early ELSE early + 1
  /\ checkpointTracker' = [checkpointTracker EXCEPT ![n][s].monitor = "done"]
  /\ lastStableCheckpoint' = IF CheckPointChan(n, s)
                             THEN [lastStableCheckpoint EXCEPT ![n] = s]
                             ELSE lastStableCheckpoint
  /\ UNCHANGED <<adminVars, viewVars, leaderVars, logs, prepareTrackers,
                 commitTrackers, timerVars, windows, execVars, netVars>>

CheckpointStep(n) ==
  \E s \in SeqNums : RecieveCheckpoint(n, s) \/ MonitorCheckpoint(n, s)

CheckpointNext == \/ Next /\ UNCHANGED cpVars
                  \/ \E n \in Node : CheckpointStep(n)

CheckpointSpec == CheckpointInit /\ [][CheckpointNext]_allVars

\* The fairness of NormalCase, and of the two new goroutines.
CheckpointFairSpec ==
  /\ CheckpointSpec
  /\ Fairness
  /\ \A n \in Node : WF_allVars(CheckpointStep(n))

-----------------------------------------------------------------------------
\* A replica has counted no more checkpoints for a sequence number than there
\* are replicas that have executed it, though nothing checks who sends them.
CheckpointsBacked ==
  \A n \in Node, s \in SeqNums :
    checkpointTracker[n][s].count <=
      Cardinality({m \in Node : Len(executed[m]) >= s})
=============================================================================
