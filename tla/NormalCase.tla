----------------------------- MODULE NormalCase -----------------------------
(***************************************************************************)
(* The normal case of Linear-PBFT as node/ implements it: the leader takes *)
(* transactions from its queue, gives each a sequence number and sends it  *)
(* in a PrePrepare; backups answer the collector with a Prepare; the       *)
(* collector sends what it has collected to everybody, which commits at    *)
(* once (3F prepares, the fast path) or after one round of Commit messages *)
(* (2F prepares, the slow path); a goroutine executes committed entries in *)
(* sequence order.  The module stops where the view changes: the timer of  *)
(* timerThread does not expire, so every replica stays in InitView.        *)
(*                                                                         *)
(* Handlers that hold node.lock are one action each.  Three pieces of code *)
(* read logs[seq] and write it back without the lock: CollectedPrepare,    *)
(* monitorCommitTimeout and the executor.  Each of them is a window: one   *)
(* action that reads the entry and a later one that writes it back, with   *)
(* whatever the other goroutines of the replica do in between.             *)
(*                                                                         *)
(* In-flight messages that a handler cannot tell apart are counted.        *)
(***************************************************************************)
EXTENDS Replicas, Naturals, Sequences, FiniteSets

CONSTANTS
  Tx,             \* the transactions clients submit
  NoTx,           \* a nil transaction pointer
  TxId,           \* transactionId of a transaction
  TxDigest,       \* digest of a transaction (its id is not part of it)
  CheckPoint,     \* replicas send a checkpoint every so many sequence numbers
  QueueCap,       \* capacity of transactionQueue
  MaxSeq,         \* bound: sequence numbers the leader assigns
  MaxAttempts,    \* bound: calls of SendTransaction that enqueue one transaction
  MaxWindows,     \* bound: windows open at one time, at one replica
  MaxFaults,      \* bound: operator commands and detected data races
  MaxCommits,     \* bound: commits a replica reads about a sequence number
  MaxEarly        \* bound: timers that expire while messages they wait for
                  \* are still on their way

SeqNums == 1 .. MaxSeq

ASSUME SizeAssumption ==
  /\ CheckPoint \in Nat \ {0}
  /\ MaxSeq \in Nat
ASSUME TxAssumption == NoTx \notin Tx /\ TxId \in [Tx -> Nat]

VARIABLES
  isActive, isbyzantine,  \* operator's switches, per replica
  crashed,                \* "no", or what ended the replica's process
  faults,                 \* operator commands and data races so far
  early,                  \* timers that have expired early so far
  view, isLeader, globalSequence,
  attempts,               \* attempts[t]: how often t has been enqueued
  transactionQueue,       \* per replica, a FIFO channel
  spawned,                \* spawned[n][t]: goroutines about to sendPreprepare t
  logs,                   \* logs[n][s]: the entry, NoEntry if there is none
  prepareTrackers, commitTrackers,  \* per replica and sequence number
  processPool,            \* keys of processPool, per replica
  processNotify,          \* signals to timerThread that nobody has taken
  windows,                \* unlocked read-modify-writes in progress, per replica
  notifyCh,               \* signals to the executor, sent or blocked in sending
  executor,               \* state of executionThread
  executed,               \* executed[n]: what n has applied to its balances
  prePrepareNet, prepareNet, collectedNet, commitNet, checkpointNet

adminVars == <<isActive, isbyzantine, crashed, faults>>
viewVars == <<view, isLeader>>
leaderVars == <<globalSequence, attempts, transactionQueue, spawned>>
trackerVars == <<prepareTrackers, commitTrackers, early>>
timerVars == <<processPool, processNotify>>
execVars == <<notifyCh, executor, executed>>
netVars == <<prePrepareNet, prepareNet, collectedNet, commitNet, checkpointNet>>
vars == <<adminVars, viewVars, leaderVars, logs, trackerVars, timerVars,
          windows, execVars, netVars>>

\* The fields of Log that the protocol reads.  The digest is set together
\* with the transaction; prepares is the length of prepareMsgLog.
Entry == [tx : Tx \cup {NoTx}, status : {"none", "PP", "P", "C", "E"},
          prepares : Nat, isCommitted : BOOLEAN]
NoEntry == [tx |-> NoTx, status |-> "none", prepares |-> 0, isCommitted |-> FALSE]

\* monitor: "none" before the first message creates the tracker, "off" when
\* the replica was byzantine then and starts no goroutine, "wait" while the
\* goroutine selects, "done" after.  signal: the token in quorumChan
\* (commitChan for commits).
Tracker == [count : Nat, monitor : {"none", "off", "wait", "done"},
            signal : BOOLEAN]
NoTracker == [count |-> 0, monitor |-> "none", signal |-> FALSE]

PrePrepareMsg == [to : Node, from : Node, view : Nat, seq : SeqNums, tx : Tx]
CollectedMsg == [to : Node, seq : SeqNums, size : Nat]
Window == [kind : {"collected3F", "collected2F", "commit"}, seq : SeqNums,
           size : Nat, entry : Entry]

TypeOK ==
  /\ isActive \in [Node -> BOOLEAN]
  /\ isbyzantine \in [Node -> BOOLEAN]
  /\ crashed \in [Node -> {"no", "nil", "unlock", "race"}]
  /\ faults \in Nat
  /\ early \in Nat
  /\ view \in [Node -> Nat]
  /\ isLeader \in [Node -> BOOLEAN]
  /\ globalSequence \in [Node -> 0 .. MaxSeq]
  /\ attempts \in [Tx -> Nat]
  /\ transactionQueue \in [Node -> Seq(Tx)]
  /\ spawned \in [Node -> [Tx -> Nat]]
  /\ logs \in [Node -> [SeqNums -> Entry]]
  /\ prepareTrackers \in [Node -> [SeqNums -> Tracker]]
  /\ commitTrackers \in [Node -> [SeqNums -> Tracker]]
  /\ processPool \in [Node -> SUBSET Nat]
  /\ processNotify \in [Node -> Nat]
  /\ windows \in [Node -> SUBSET Window]
  /\ notifyCh \in [Node -> Nat]
  /\ executor \in [Node -> [pc : {"idle", "scan", "apply"}, entry : Entry]]
  /\ executed \in [Node -> Seq(Tx)]
  /\ prePrepareNet \subseteq PrePrepareMsg
  /\ prepareNet \in [Node -> [SeqNums -> Nat]]
  /\ collectedNet \subseteq CollectedMsg
  /\ commitNet \in [Node -> [SeqNums -> Nat]]
  /\ checkpointNet \in [Node -> [SeqNums -> Nat]]

Init ==
  /\ isActive = [n \in Node |-> TRUE]
  /\ isbyzantine = [n \in Node |-> FALSE]
  /\ crashed = [n \in Node |-> "no"]
  /\ faults = 0
  /\ early = 0
  /\ view = [n \in Node |-> InitView]
  /\ isLeader = [n \in Node |-> Leader(InitView) = n]
  /\ globalSequence = [n \in Node |-> 0]
  /\ attempts = [t \in Tx |-> 0]
  /\ transactionQueue = [n \in Node |-> <<>>]
  /\ spawned = [n \in Node |-> [t \in Tx |-> 0]]
  /\ logs = [n \in Node |-> [s \in SeqNums |-> NoEntry]]
  /\ prepareTrackers = [n \in Node |-> [s \in SeqNums |-> NoTracker]]
  /\ commitTrackers = [n \in Node |-> [s \in SeqNums |-> NoTracker]]
  /\ processPool = [n \in Node |-> {}]
  /\ processNotify = [n \in Node |-> 0]
  /\ windows = [n \in Node |-> {}]
  /\ notifyCh = [n \in Node |-> 0]
  /\ executor = [n \in Node |-> [pc |-> "idle", entry |-> NoEntry]]
  /\ executed = [n \in Node |-> <<>>]
  /\ prePrepareNet = {}
  /\ prepareNet = [n \in Node |-> [s \in SeqNums |-> 0]]
  /\ collectedNet = {}
  /\ commitNet = [n \in Node |-> [s \in SeqNums |-> 0]]
  /\ checkpointNet = [n \in Node |-> [s \in SeqNums |-> 0]]

Up(n) == crashed[n] = "no"
Honest(n) == isActive[n] /\ ~isbyzantine[n]
Crash(n, why) == crashed' = [crashed EXCEPT ![n] = why]

\* A mutant: the counter starts at 2.
NextSeqFromTwo(n) == Len(executed[n]) + 2

\* The sequence number executionThread looks at: its seqCounter.
NextSeq(n) == Len(executed[n]) + 1

\* A mutant: every message arrives twice, and is counted twice.
SentTwice(net, to, s) ==
  [m \in Node |-> [q \in SeqNums |->
     IF m \in to /\ q = s THEN net[m][q] + 2 ELSE net[m][q]]]

\* One more message about s, to every replica in a set.
Sent(net, to, s) ==
  [m \in Node |-> [q \in SeqNums |->
     IF m \in to /\ q = s THEN net[m][q] + 1 ELSE net[m][q]]]

\* Mutants: a message that is handled stays, or goes with the next one.
ReceivedAgain(net, n, s) == net
ReceivedTwice(net, n, s) == [net EXCEPT ![n][s] = @ - 2]

\* One message about s less, at n.
Received(net, n, s) == [net EXCEPT ![n][s] = @ - 1]

\* Goroutines of n that have read an entry, or are about to, without the
\* lock.  Windows of two replicas do not see each other: one replica has them
\* at a time.
Busy(n) == windows[n] # {} \/ executor[n].pc # "idle"
CanOpen(n) ==
  /\ \A m \in Node \ {n} : ~Busy(m)
  /\ Cardinality(windows[n]) + (IF executor[n].pc = "idle" THEN 0 ELSE 1)
       < MaxWindows

Opened(n, kind, s, size) ==
  [windows EXCEPT ![n] = @ \cup
     {[kind |-> kind, seq |-> s, size |-> size, entry |-> logs[n][s]]}]

\* No message about s that the timers wait for is still on its way.
Settled(s) ==
  /\ \A m \in prePrepareNet \cup collectedNet : m.seq # s
  /\ \A n \in Node : /\ prepareNet[n][s] = 0 /\ commitNet[n][s] = 0
                     /\ \A w \in windows[n] : w.seq # s
Expire(s) == \/ Settled(s) /\ UNCHANGED early
             \/ ~Settled(s) /\ early < MaxEarly /\ early' = early + 1

-----------------------------------------------------------------------------
(* The leader: queue, processor goroutine, proposal.                        *)

\* A call by a client at a replica that is not an active leader has no
\* effect, so only the calls that enqueue are steps.
SendTransaction(n, t) ==
  /\ Up(n) /\ isActive[n] /\ isLeader[n]
  /\ attempts[t] < MaxAttempts
  /\ Len(transactionQueue[n]) < QueueCap
  /\ attempts' = [attempts EXCEPT ![t] = @ + 1]
  /\ transactionQueue' = [transactionQueue EXCEPT ![n] = Append(@, t)]
  /\ UNCHANGED <<adminVars, viewVars, globalSequence, spawned, logs,
                 trackerVars, timerVars, windows, execVars, netVars>>

ProcessTransaction(n) ==
  /\ Up(n) /\ transactionQueue[n] # <<>>
  /\ transactionQueue' = [transactionQueue EXCEPT ![n] = Tail(@)]
  /\ spawned' = IF isActive[n] /\ isLeader[n]
                THEN [spawned EXCEPT ![n][Head(transactionQueue[n])] = @ + 1]
                ELSE spawned
  /\ UNCHANGED <<adminVars, viewVars, globalSequence, attempts, logs,
                 trackerVars, timerVars, windows, execVars, netVars>>

\* An entry that receives the transaction.
PrePrepared(entry, t) == [entry EXCEPT !.tx = t, !.status = "PP"]

\* A mutant: the counter is not kept.
AssignedAnew(n) == 1

\* The sequence number the leader gives next.
Assigned(n) == globalSequence[n] + 1

\* The goroutine started by ProcessTransaction.  It does not look again
\* whether the replica is active or the leader.
SendPreprepare(n, t) ==
  LET s == Assigned(n) IN
  /\ Up(n) /\ spawned[n][t] > 0
  /\ globalSequence[n] < MaxSeq
  /\ spawned' = [spawned EXCEPT ![n][t] = @ - 1]
  /\ globalSequence' = [globalSequence EXCEPT ![n] = s]
  /\ logs' = [logs EXCEPT ![n][s] = PrePrepared(NoEntry, t)]
  /\ processPool' = [processPool EXCEPT ![n] = @ \cup {TxId[t]}]
  /\ prePrepareNet' = prePrepareNet \cup
       {[to |-> m, from |-> n, view |-> view[n], seq |-> s, tx |-> t] :
          m \in Node \ {n}}
  /\ UNCHANGED <<adminVars, viewVars, attempts, transactionQueue, trackerVars,
                 processNotify, windows, execVars, prepareNet, collectedNet,
                 commitNet, checkpointNet>>

-----------------------------------------------------------------------------
(* Agreement on a sequence number: PrePrepare, Prepare, CollectedPrepare,   *)
(* Commit.                                                                  *)

\* The checks of PrePrepare.  Signatures are valid: keys are exchanged before
\* the first transaction.
Accepts(n, m) ==
  LET old == logs[n][m.seq].tx IN
  /\ isActive[n]
  /\ m.view = view[n]
  /\ old # NoTx => TxDigest[old] = TxDigest[m.tx]

PrePrepare(m) ==
  LET n == m.to
      s == m.seq
      c == Collector(view[n])
  IN
  /\ Up(n) /\ Accepts(n, m)
  /\ prePrepareNet' = prePrepareNet \ {m}
  /\ logs' = [logs EXCEPT ![n][s] = PrePrepared(@, m.tx)]
  /\ processPool' = [processPool EXCEPT ![n] = @ \cup {s}]
  /\ processNotify' = [processNotify EXCEPT ![n] = @ + 1]
  /\ prepareNet' = IF isbyzantine[n] THEN prepareNet
                   ELSE Sent(prepareNet, {c}, s)
  /\ UNCHANGED <<adminVars, viewVars, leaderVars, trackerVars, windows,
                 execVars, collectedNet, commitNet, checkpointNet>>

RejectPrePrepare(m) ==
  /\ Up(m.to) /\ ~Accepts(m.to, m)
  /\ prePrepareNet' = prePrepareNet \ {m}
  /\ UNCHANGED <<adminVars, viewVars, leaderVars, logs, trackerVars, timerVars,
                 windows, execVars, prepareNet, collectedNet, commitNet,
                 checkpointNet>>

\* An entry whose prepareMsgLog grows.
WithPrepares(entry, k) == [entry EXCEPT !.prepares = @ + k]

\* What a message does to its tracker: the first one creates it and starts
\* the monitor unless the replica is byzantine; reaching the threshold puts a
\* token into the channel.
Counted(tracker, n, threshold) ==
  [count |-> tracker.count + 1,
   monitor |-> IF tracker.monitor # "none" THEN tracker.monitor
               ELSE IF isbyzantine[n] THEN "off" ELSE "wait",
   signal |-> \/ tracker.signal
              \/ ~isbyzantine[n] /\ tracker.count + 1 >= threshold]

Prepare(n, s) ==
  /\ Up(n) /\ prepareNet[n][s] > 0
  /\ isActive[n]
  /\ prepareNet' = Received(prepareNet, n, s)
  /\ prepareTrackers' =
       [prepareTrackers EXCEPT ![n][s] = Counted(@, n, 3 * F)]
  /\ logs' = [logs EXCEPT ![n][s] = WithPrepares(@, 1)]
  /\ UNCHANGED <<adminVars, viewVars, leaderVars, commitTrackers, early,
                 timerVars, windows, execVars, prePrepareNet, collectedNet,
                 commitNet, checkpointNet>>

\* sendCollectedPrepare, with node.lock held by its caller: it looks into the
\* transaction of the entry before it sends prepareMsgLog to everybody, itself
\* included.
SendCollectedPrepare(n, s) ==
  IF logs[n][s].tx = NoTx
  THEN Crash(n, "nil") /\ UNCHANGED collectedNet
  ELSE /\ collectedNet' = collectedNet \cup
            {[to |-> m, seq |-> s, size |-> logs[n][s].prepares] : m \in Node}
       /\ UNCHANGED crashed

\* The prepares that are enough for the slow path.
Prepared(k) == k >= 2 * F

\* The goroutine of a tracker returns; a token it took is gone.
Ended(tracker) == [tracker EXCEPT !.monitor = "done", !.signal = FALSE]

\* monitorPrepareTimeout runs once for a sequence number: on the 3F token or
\* on the timeout, whichever comes first.
MonitorPrepare(n, s) ==
  LET tracker == prepareTrackers[n][s] IN
  /\ Up(n) /\ tracker.monitor = "wait"
  /\ (tracker.signal /\ UNCHANGED early) \/ Expire(s)
  /\ prepareTrackers' = [prepareTrackers EXCEPT ![n][s] = Ended(@)]
  /\ IF Prepared(tracker.count) THEN SendCollectedPrepare(n, s)
     ELSE UNCHANGED <<crashed, collectedNet>>
  /\ UNCHANGED <<isActive, isbyzantine, faults, viewVars, leaderVars, logs,
                 commitTrackers, timerVars, windows, execVars, prePrepareNet,
                 prepareNet, commitNet, checkpointNet>>

\* CollectedPrepare reads the entry without the lock ...
CollectedPrepare(c) ==
  LET n == c.to IN
  /\ Up(n) /\ Honest(n) /\ Prepared(c.size)
  /\ CanOpen(n)
  /\ collectedNet' = collectedNet \ {c}
  /\ windows' = Opened(n, IF c.size >= 3 * F THEN "collected3F"
                          ELSE "collected2F", c.seq, c.size)
  /\ UNCHANGED <<adminVars, viewVars, leaderVars, logs, trackerVars, timerVars,
                 execVars, prePrepareNet, prepareNet, commitNet, checkpointNet>>

IgnoreCollectedPrepare(c) ==
  /\ Up(c.to) /\ ~(Honest(c.to) /\ Prepared(c.size))
  /\ collectedNet' = collectedNet \ {c}
  /\ UNCHANGED <<adminVars, viewVars, leaderVars, logs, trackerVars, timerVars,
                 windows, execVars, prePrepareNet, prepareNet, commitNet,
                 checkpointNet>>

Commit(n, s) ==
  /\ Up(n) /\ commitNet[n][s] > 0
  /\ isActive[n] /\ commitTrackers[n][s].count < MaxCommits
  /\ commitNet' = Received(commitNet, n, s)
  /\ commitTrackers' = [commitTrackers EXCEPT ![n][s] = Counted(@, n, 2 * F)]
  /\ UNCHANGED <<adminVars, viewVars, leaderVars, logs, prepareTrackers,
                 early, timerVars, windows, execVars, prePrepareNet, prepareNet,
                 collectedNet, checkpointNet>>

\* An inactive replica answers Prepare and Commit calls without reading them.
IgnoreVote(n, s) ==
  /\ Up(n) /\ ~isActive[n]
  /\ \/ /\ prepareNet[n][s] > 0
        /\ prepareNet' = Received(prepareNet, n, s)
        /\ UNCHANGED commitNet
     \/ /\ commitNet[n][s] > 0
        /\ commitNet' = Received(commitNet, n, s)
        /\ UNCHANGED prepareNet
  /\ UNCHANGED <<adminVars, viewVars, leaderVars, logs, trackerVars, timerVars,
                 windows, execVars, prePrepareNet, collectedNet, checkpointNet>>

\* monitorCommitTimeout on the token: it reads the entry without the lock.
MonitorCommit(n, s) ==
  /\ Up(n) /\ commitTrackers[n][s].monitor = "wait"
  /\ commitTrackers[n][s].signal
  /\ CanOpen(n)
  /\ commitTrackers' = [commitTrackers EXCEPT ![n][s] = Ended(@)]
  /\ windows' = Opened(n, "commit", s, 0)
  /\ UNCHANGED <<adminVars, viewVars, leaderVars, logs, prepareTrackers,
                 early, timerVars, execVars, netVars>>

CommitTimeout(n, s) ==
  /\ Up(n) /\ commitTrackers[n][s].monitor = "wait"
  /\ Expire(s)
  /\ commitTrackers' = [commitTrackers EXCEPT ![n][s] = Ended(@)]
  /\ UNCHANGED <<adminVars, viewVars, leaderVars, logs, prepareTrackers,
                 timerVars, windows, execVars, netVars>>

-----------------------------------------------------------------------------
(* ... and the end of an unlocked read-modify-write.                        *)

\* A mutant: it writes a new entry, as sendPreprepare does.
ModifiedAnew(w) ==
  IF w.kind = "collected2F"
  THEN [NoEntry EXCEPT !.status = "P"]
  ELSE [NoEntry EXCEPT !.status = "C", !.isCommitted = TRUE]

\* The entry as the goroutine that opened window w changes its copy of it.
Modified(w) ==
  IF w.kind = "collected2F"
  THEN [w.entry EXCEPT !.status = "P"]
  ELSE [WithPrepares(w.entry, w.size) EXCEPT !.status = "C",
                                             !.isCommitted = TRUE]

\* A handler that does hold the lock reads and writes the same entry: while
\* one of them runs, what the unlocked goroutine writes is overwritten.
Overlapped(n, s) ==
  \/ \E m \in prePrepareNet : m.to = n /\ m.seq = s
  \/ prepareNet[n][s] > 0 \/ commitNet[n][s] > 0 \/ checkpointNet[n][s] > 0

\* Mutants: one of the two paths forgets the executor.
NotifiesFast(w) == w.kind = "collected3F"
NotifiesSlow(w) == w.kind = "commit"

\* The goroutines that signal the executor.
Notifies(w) == w.kind # "collected2F"

\* The write-back, and what the goroutine does after it: signal the executor,
\* or send a Commit to the others.
WriteBack(n, w) ==
  /\ Up(n) /\ w \in windows[n]
  /\ windows' = [windows EXCEPT ![n] = @ \ {w}]
  /\ \/ logs' = [logs EXCEPT ![n][w.seq] = Modified(w)]
     \/ Overlapped(n, w.seq) /\ UNCHANGED logs
  /\ notifyCh' = IF Notifies(w) THEN [notifyCh EXCEPT ![n] = @ + 1]
                  ELSE notifyCh
  /\ commitNet' = IF w.kind = "collected2F"
                   THEN Sent(commitNet, Node \ {n}, w.seq)
                   ELSE commitNet
  /\ UNCHANGED <<adminVars, viewVars, leaderVars, trackerVars, timerVars,
                 executor, executed, prePrepareNet, prepareNet, collectedNet,
                 checkpointNet>>

-----------------------------------------------------------------------------
(* The executor.                                                            *)

ExecWake(n) ==
  /\ Up(n) /\ executor[n].pc = "idle" /\ notifyCh[n] > 0
  /\ CanOpen(n)
  /\ notifyCh' = [notifyCh EXCEPT ![n] = @ - 1]
  /\ executor' = [executor EXCEPT ![n].pc = "scan"]
  /\ UNCHANGED <<adminVars, viewVars, leaderVars, logs, trackerVars, timerVars,
                 windows, executed, netVars>>

NextCommitted(n) == NextSeq(n) \in SeqNums /\ logs[n][NextSeq(n)].isCommitted

ExecSleep(n) ==
  /\ Up(n) /\ executor[n].pc = "scan" /\ ~NextCommitted(n)
  /\ executor' = [executor EXCEPT ![n].pc = "idle"]
  /\ UNCHANGED <<adminVars, viewVars, leaderVars, logs, trackerVars, timerVars,
                 windows, notifyCh, executed, netVars>>

\* It copies the entry without the lock.
ExecRead(n) ==
  /\ Up(n) /\ executor[n].pc = "scan" /\ NextCommitted(n)
  /\ Honest(n) /\ logs[n][NextSeq(n)].tx # NoTx
  /\ executor' = [executor EXCEPT
       ![n] = [pc |-> "apply", entry |-> logs[n][NextSeq(n)]]]
  /\ UNCHANGED <<adminVars, viewVars, leaderVars, logs, trackerVars, timerVars,
                 windows, notifyCh, executed, netVars>>

\* A committed entry without a transaction is dereferenced; an inactive or
\* byzantine replica unlocks a mutex the executor has not locked.  Either ends
\* the process.
ExecCrash(n) ==
  /\ Up(n) /\ executor[n].pc = "scan" /\ NextCommitted(n)
  /\ \/ ~Honest(n) /\ Crash(n, "unlock")
     \/ Honest(n) /\ logs[n][NextSeq(n)].tx = NoTx /\ Crash(n, "nil")
  /\ UNCHANGED <<isActive, isbyzantine, faults, viewVars, leaderVars, logs,
                 trackerVars, timerVars, windows, execVars, netVars>>

\* After an entry the executor looks for the next one before it sleeps.
Rescan == [pc |-> "scan", entry |-> NoEntry]

\* It moves the money, writes its copy back, and at every CheckPoint-th
\* sequence number sends a checkpoint to everybody.  The response to the
\* client carries the transaction: who has answered is who has executed.
ExecApply(n) ==
  LET s == NextSeq(n) IN
  /\ Up(n) /\ executor[n].pc = "apply"
  /\ executed' = [executed EXCEPT ![n] = Append(@, executor[n].entry.tx)]
  /\ logs' = [logs EXCEPT ![n][s] = [executor[n].entry EXCEPT !.status = "E"]]
  /\ processPool' = [processPool EXCEPT ![n] = @ \ {s}]
  /\ executor' = [executor EXCEPT ![n] = Rescan]
  /\ checkpointNet' = IF s % CheckPoint = 0
                      THEN Sent(checkpointNet, Node, s)
                      ELSE checkpointNet
  /\ UNCHANGED <<adminVars, viewVars, leaderVars, trackerVars, processNotify,
                 windows, notifyCh, prePrepareNet, prepareNet, collectedNet,
                 commitNet>>

-----------------------------------------------------------------------------
(* The operator's commands, and what the Go runtime may do to the program.  *)

Kill(n) ==
  /\ Up(n) /\ isActive[n] /\ faults < MaxFaults
  /\ faults' = faults + 1
  /\ isActive' = [isActive EXCEPT ![n] = FALSE]
  /\ UNCHANGED <<isbyzantine, crashed, viewVars, leaderVars, logs, trackerVars,
                 timerVars, windows, execVars, netVars>>

Revive(n) ==
  /\ Up(n) /\ ~Honest(n) /\ faults < MaxFaults
  /\ faults' = faults + 1
  /\ isActive' = [isActive EXCEPT ![n] = TRUE]
  /\ isbyzantine' = [isbyzantine EXCEPT ![n] = FALSE]
  /\ UNCHANGED <<crashed, viewVars, leaderVars, logs, trackerVars, timerVars,
                 windows, execVars, netVars>>

BecomeMalicious(n) ==
  /\ Up(n) /\ ~isbyzantine[n] /\ faults < MaxFaults
  /\ faults' = faults + 1
  /\ isbyzantine' = [isbyzantine EXCEPT ![n] = TRUE]
  /\ UNCHANGED <<isActive, crashed, viewVars, leaderVars, logs, trackerVars,
                 timerVars, windows, execVars, netVars>>

\* An unlocked access to the logs map may meet another one: the runtime then
\* may end the process (concurrent map read and map write).
DataRace(n) ==
  /\ Up(n) /\ faults < MaxFaults
  /\ windows[n] # {} \/ executor[n].pc = "scan"
  /\ faults' = faults + 1
  /\ Crash(n, "race")
  /\ UNCHANGED <<isActive, isbyzantine, viewVars, leaderVars, logs,
                 trackerVars, timerVars, windows, execVars, netVars>>

-----------------------------------------------------------------------------
Handle(n) ==
  \/ \E m \in prePrepareNet : m.to = n /\ (PrePrepare(m) \/ RejectPrePrepare(m))
  \/ \E c \in collectedNet :
       c.to = n /\ (CollectedPrepare(c) \/ IgnoreCollectedPrepare(c))
  \/ \E s \in SeqNums : Prepare(n, s) \/ Commit(n, s) \/ IgnoreVote(n, s)

Work(n) ==
  \/ ProcessTransaction(n)
  \/ \E t \in Tx : SendPreprepare(n, t)
  \/ \E s \in SeqNums :
       MonitorPrepare(n, s) \/ MonitorCommit(n, s) \/ CommitTimeout(n, s)
  \/ \E w \in windows[n] : WriteBack(n, w)

Execute(n) == \/ ExecWake(n) \/ ExecSleep(n) \/ ExecRead(n)
              \/ ExecCrash(n) \/ ExecApply(n)

Operate(n) == Kill(n) \/ Revive(n) \/ BecomeMalicious(n) \/ DataRace(n)

Next ==
  \/ \E n \in Node, t \in Tx : SendTransaction(n, t)
  \/ \E n \in Node : Handle(n) \/ Work(n) \/ Execute(n) \/ Operate(n)

Spec == Init /\ [][Next]_vars

\* Clients submit, the network delivers and goroutines are scheduled.
\* Operators and data races need not happen.
Fairness ==
  /\ \A t \in Tx : WF_vars(\E n \in Node : SendTransaction(n, t))
  /\ \A n \in Node : WF_vars(Handle(n) \/ Work(n) \/ Execute(n))

FairSpec == Spec /\ Fairness

-----------------------------------------------------------------------------
(* Why replicas agree: everything a replica holds about a sequence number,  *)
(* on its way, in its log, in an open window or in its executor, is what    *)
(* the leader of InitView has proposed for that number.                     *)

L == Leader(InitView)
Proposed(s) == s \in 1 .. globalSequence[L]
Proposal(s) == logs[L][s].tx

OnlyLeaderProposes ==
  \A n \in Node :
    /\ view[n] = InitView
    /\ isLeader[n] = (L = n)
    /\ n # L => /\ transactionQueue[n] = <<>>
                /\ \A t \in Tx : spawned[n][t] = 0

MessagesFollow ==
  /\ \A m \in prePrepareNet : Proposed(m.seq) /\ m.tx = Proposal(m.seq)
  /\ \A c \in collectedNet : Proposed(c.seq)
  /\ \A n \in Node, s \in SeqNums :
       prepareNet[n][s] > 0 \/ commitNet[n][s] > 0 => Proposed(s)

TrackersFollow ==
  \A n \in Node, s \in SeqNums :
    \/ prepareTrackers[n][s].monitor = "wait"
    \/ commitTrackers[n][s].monitor = "wait"
    => Proposed(s)

\* A stale write-back may erase a transaction from a log, but not from the
\* leader's, and it never puts another one there.
LogsFollow ==
  /\ \A s \in SeqNums : Proposal(s) # NoTx <=> Proposed(s)
  /\ \A n \in Node, s \in SeqNums :
       /\ logs[n][s].tx \in {NoTx, Proposal(s)}
       /\ logs[n][s].isCommitted => Proposed(s)

WindowsFollow ==
  \A n \in Node : \A w \in windows[n] :
    /\ Proposed(w.seq)
    /\ w.entry.tx \in {NoTx, Proposal(w.seq)}
    /\ n = L => w.entry.tx = Proposal(w.seq)

ExecutorFollows ==
  \A n \in Node : executor[n].pc = "apply" =>
    Proposed(NextSeq(n)) /\ executor[n].entry.tx = Proposal(NextSeq(n))

ExecutedFollows ==
  \A n \in Node : \A i \in DOMAIN executed[n] :
    Proposed(i) /\ executed[n][i] = Proposal(i)

\* The invariant that is preserved by every step.
IInv == /\ TypeOK
        /\ OnlyLeaderProposes
        /\ MessagesFollow
        /\ TrackersFollow
        /\ LogsFollow
        /\ WindowsFollow
        /\ ExecutorFollows
        /\ ExecutedFollows

-----------------------------------------------------------------------------
(* Why commits have a quorum: as long as no prepares about a sequence       *)
(* number have been collected, a prepare that has been sent stands for a    *)
(* backup that holds the transaction; from then on 2F+1 replicas keep it,   *)
(* as no window that is open could erase it there.                          *)

Holders(s) == {m \in Node : logs[m][s].tx # NoTx}
Keepers(s) == {m \in Holders(s) :
                 \A w \in windows[m] : w.seq = s => w.entry.tx # NoTx}
Quorate(s) == Cardinality(Keepers(s)) >= 2 * F + 1

Uncollected(s) ==
  /\ \A c \in collectedNet : c.seq # s
  /\ \A n \in Node :
       /\ \A w \in windows[n] : w.seq # s
       /\ commitNet[n][s] = 0 /\ commitTrackers[n][s].monitor # "wait"
       /\ ~logs[n][s].isCommitted /\ Len(executed[n]) < s
       /\ executor[n].pc = "apply" => NextSeq(n) # s

Collecting(s) ==
  /\ Uncollected(s)
  /\ \A n \in Node : prepareNet[n][s] + prepareTrackers[n][s].count
                        <= Cardinality(Holders(s) \ {L})
  /\ \A m \in prePrepareNet : m.seq = s => m.to \notin Holders(s)

OneProposalEach ==
  \A m \in prePrepareNet : m.from = L /\ m.view = InitView /\ m.to # L

\* The invariant behind CommitQuorum.
QuorumInv == /\ IInv
             /\ OneProposalEach
             /\ \A s \in SeqNums : Quorate(s) \/ Collecting(s)

-----------------------------------------------------------------------------
(* Properties.                                                              *)

\* Two replicas never execute different transactions at the same sequence
\* number, whatever is killed, reordered, timed out or overwritten by an
\* unlocked goroutine.
Agreement ==
  \A n, m \in Node : \A i \in DOMAIN executed[n] \cap DOMAIN executed[m] :
    executed[n][i] = executed[m][i]

\* A sequence number is committed, and executed, only when 2F+1 replicas hold
\* its transaction, the certificate that collecting 2F prepares next to the
\* leader's own log stands for, even when stale entries are written back over
\* newer ones.
CommitQuorum ==
  \A n \in Node, s \in SeqNums :
    logs[n][s].isCommitted \/ s <= Len(executed[n]) =>
      Cardinality(Holders(s)) >= 2 * F + 1

\* The executor does not sleep on work: when its next entry is committed, it
\* is running or a signal for it is waiting in notifyCh.
NoLostWakeup ==
  \A n \in Node :
    Up(n) /\ NextCommitted(n) => executor[n].pc # "idle" \/ notifyCh[n] > 0

\* The proposals of the leader, in the order of their sequence numbers, are
\* the order of OrderedExecution.
proposals == [s \in 1 .. globalSequence[L] |-> Proposal(s)]
Ordered == INSTANCE OrderedExecution WITH order <- proposals
ImplementsOrderedExecution == Ordered!Spec

\* With timely messages and nobody killed, every transaction submitted is
\* executed by every replica.
EverybodyExecutes ==
  \A t \in Tx : <>(\A n \in Node : \E i \in DOMAIN executed[n] :
                                      executed[n][i] = t)

\* Killing a replica, making it malicious or delaying its messages does not
\* end its process.
ProcessSurvives == \A n \in Node : crashed[n] \in {"no", "race"}
=============================================================================
