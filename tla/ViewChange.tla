----------------------------- MODULE ViewChange -----------------------------
(***************************************************************************)
(* How replicas leave a view: timerThread watches the transactions in      *)
(* processPool and, when one stays too long, asks everybody for the next   *)
(* view; F+1 requests make a replica ask as well, 2F+1 make it move; the   *)
(* leader of the new view sends NewView with what it has been told was     *)
(* prepared.                                                               *)
(*                                                                         *)
(* A behaviour starts (Starts) with some transactions proposed in InitView *)
(* and accepted by some replicas.  Its normal case is that of module   *)
(* NormalCase in larger steps: unlocked reads and writes of an entry are   *)
(* one action, and the executor needs no signal.  Transactions stand for   *)
(* their digests.  There are no checkpoints: lastStableCheckpoint is 0.    *)
(*                                                                         *)
(* Time: timers of timerThread that run may become due when nothing else   *)
(* is about to happen, and early times before that.                       *)
(***************************************************************************)
EXTENDS Replicas, Naturals, Sequences, FiniteSets, Bags

CONSTANTS
  Tx, NoTx,       \* transactions; a nil transaction or digest
  NoNode,         \* no replica
  TxId,           \* transactionId of a transaction
  Starts,         \* where a behaviour may begin
  Malicious,      \* the replicas the operator has made malicious before that
  Killable,       \* the replicas the operator may kill
  NotifyCap,      \* capacity of processNotify
  Prompt,         \* replicas whose goroutines outrun the messages
  MaxSeq,         \* bound: sequence numbers a leader assigns
  MaxProposals,   \* bound: proposals of all leaders
  MaxView         \* bound: views

SeqNums == 1 .. MaxSeq
Views == InitView .. MaxView
L == Leader(InitView)

\* first: what the leader of InitView has proposed, in order; held[s]: the
\* backups that have accepted number s; gaveUp: the collector's monitors timed
\* out before these backups' prepares came; early: how often timers come due
\* although something else is about to happen; down: replicas killed before.
StartStates ==
  {st \in [first : Seq(Tx), held : [SeqNums -> SUBSET Node],
           gaveUp : BOOLEAN, early : Nat, down : SUBSET Node] :
     /\ Len(st.first) <= MaxSeq
     /\ \A s \in SeqNums : /\ L \notin st.held[s]
                            /\ s > Len(st.first) => st.held[s] = {}
     /\ \A n \in Node :
          Cardinality({s \in SeqNums : n \in st.held[s]}) <= NotifyCap + 1}

ASSUME BoundAssumption ==
  /\ MaxSeq \in Nat /\ MaxView \in Nat /\ NotifyCap \in Nat \ {0}
  /\ InitView \in Views
ASSUME StartAssumption ==
  /\ NoTx \notin Tx /\ NoNode \notin Node
  /\ TxId \in [Tx -> Nat]
  /\ Starts \subseteq StartStates
  /\ Malicious \subseteq Node /\ Prompt \subseteq Node

VARIABLES
  isActive, crashed, early,
  view, isLeader, isViewChangeProcess, globalSequence,
  spawned,                 \* spawned[n]: what sendPreprepare goroutines hold
  logs, prepareTrackers, commitTrackers,
  executed,                \* executed[n]: what n has applied to its balances
  processPool, processNotify,
  blocked,                 \* number whose handler sleeps on processNotify, or 0
  thread,                  \* timerThread: where it is, and its currentSeq
  timer,                   \* node.timer: none, the thread's, or another one
  due,                     \* the replicas whose timer is about to expire
  viewChangeLog,           \* viewChangeLog[n]: the views it has requests for
  viewChangeCount,
  newViewMessages,         \* the views whose NewView a replica has handled
  initiating, startingTimer,  \* goroutines about to run, per replica
  sendingNewView,          \* ... per replica and view
  accepting,               \* ... per replica, view and re-proposal
  loadLog,                 \* loadLog[v]: first loads the leader of v has got
  prePrepareNet, prepareNet, collectedNet, commitNet,
  requestNet, loadNet,     \* requests for a view; those that carry a load
  newViewNet,
  timedOut, asked,         \* history: whose timer expired on a transaction,
                           \* who has asked for a view
  proposed                 \* history: all proposals

adminVars == <<isActive, crashed>>
viewVars == <<view, isLeader, isViewChangeProcess>>
leaderVars == <<globalSequence, spawned, proposed>>
trackerVars == <<prepareTrackers, commitTrackers>>
entryVars == <<logs, trackerVars, executed>>
poolVars == <<processPool, processNotify, blocked>>
clockVars == <<thread, timer, due, early>>
timerVars == <<poolVars, clockVars>>
countVars == <<viewChangeLog, viewChangeCount>>
goVars == <<initiating, startingTimer, sendingNewView>>
newViewVars == <<newViewMessages, accepting>>
historyVars == <<timedOut, asked>>
changeVars == <<countVars, loadLog, goVars, newViewVars, historyVars>>
orderNet == <<prePrepareNet, prepareNet, collectedNet, commitNet>>
loadVars == <<requestNet, loadNet>>
changeNet == <<loadVars, newViewNet>>
vars == <<adminVars, viewVars, leaderVars, entryVars, timerVars, changeVars,
          orderNet, changeNet>>

\* The fields of Log that matter here.  signer is the replica that signed
\* prePrepareMsgLog[0].
Entry == [exists : BOOLEAN, tx : Tx \cup {NoTx}, digest : Tx \cup {NoTx},
          signer : Node \cup {NoNode}, prepares : Nat, isCommitted : BOOLEAN]
NoEntry == [exists |-> FALSE, tx |-> NoTx, digest |-> NoTx, signer |-> NoNode,
            prepares |-> 0, isCommitted |-> FALSE]

\* A message counter and its goroutine; "off" at a malicious replica.
Tracker == [count : Nat, monitor : {"none", "off", "wait", "done"}]
NoTracker == [count |-> 0, monitor |-> "none"]

\* What a request carries, of which the new leader looks at the first only: an
\* entry with 2F prepares.
Load == [seq : SeqNums, tx : Tx, signer : Node]
Loads(bag) == IsABag(bag) /\ BagToSet(bag) \subseteq Load

PrePrepareMsg == [to : Node, from : Node, view : Nat, seq : SeqNums, tx : Tx]
CollectedMsg == [to : Node, seq : SeqNums, size : Nat]
Proposal == [view : Nat, seq : SeqNums, tx : Tx, from : Node]

AdminTypes ==
  /\ isActive \in [Node -> BOOLEAN]
  /\ crashed \in [Node -> {"no", "nil", "unlock", "index"}]
  /\ view \in [Node -> Views]
  /\ isLeader \in [Node -> BOOLEAN]
  /\ isViewChangeProcess \in [Node -> BOOLEAN]
LeaderTypes ==
  /\ globalSequence \in [Node -> 0 .. MaxSeq]
  /\ spawned \in [Node -> SUBSET Tx]
  /\ proposed \subseteq Proposal
EntryTypes ==
  /\ logs \in [Node -> [SeqNums -> Entry]]
  /\ prepareTrackers \in [Node -> [SeqNums -> Tracker]]
  /\ commitTrackers \in [Node -> [SeqNums -> Tracker]]
  /\ executed \in [Node -> Seq(Tx)]
TimerTypes ==
  /\ processPool \in [Node -> SUBSET Nat]
  /\ processNotify \in [Node -> 0 .. NotifyCap]
  /\ blocked \in [Node -> 0 .. MaxSeq]
  /\ thread \in [Node -> [pc : {"idle", "arming", "waiting"}, seq : Nat]]
  /\ timer \in [Node -> {"nil", "thread", "other"}]
  /\ due \subseteq Node
  /\ early \in Nat
ChangeTypes ==
  /\ viewChangeLog \in [Node -> SUBSET Views]
  /\ viewChangeCount \in [Node -> Nat]
  /\ newViewMessages \in [Node -> SUBSET Views]
  /\ initiating \in [Node -> Nat]
  /\ startingTimer \in [Node -> Nat]
  /\ sendingNewView \in [Node -> [Views -> Nat]]
  /\ timedOut \subseteq Node /\ asked \subseteq Node
OrderNetTypes ==
  /\ prePrepareNet \subseteq PrePrepareMsg
  /\ prepareNet \in [Node -> [SeqNums -> Nat]]
  /\ collectedNet \subseteq CollectedMsg
  /\ commitNet \in [Node -> [SeqNums -> Nat]]
ChangeNetTypes ==
  /\ requestNet \in [Node -> [Views -> Nat]]
  /\ DOMAIN accepting = Node
  /\ \A n \in Node : DOMAIN accepting[n] = Views
  /\ \A n \in Node, v \in Views : Loads(accepting[n][v])
  /\ DOMAIN loadNet = Views /\ DOMAIN loadLog = Views
  /\ \A v \in Views : Loads(loadNet[v]) /\ Loads(loadLog[v])
  /\ \A m \in newViewNet : m.to \in Node /\ m.view \in Views /\ Loads(m.loads)
TypeOK == /\ AdminTypes /\ LeaderTypes /\ EntryTypes /\ TimerTypes
          /\ ChangeTypes /\ OrderNetTypes /\ ChangeNetTypes

-----------------------------------------------------------------------------
\* Whether n has accepted, or is the leader that has proposed, number s.
Holds(st, n, s) == s \in DOMAIN st.first /\ (n = L \/ n \in st.held[s])

\* The prepares about s that have come to n: backups send one, the malicious
\* do not.
Came(st, n, s) ==
  IF n = Collector(InitView) THEN Cardinality(st.held[s] \ Malicious) ELSE 0

StartEntry(st, n, s) ==
  [exists |-> Holds(st, n, s) \/ Came(st, n, s) > 0,
   tx |-> IF Holds(st, n, s) THEN st.first[s] ELSE NoTx,
   digest |-> IF Holds(st, n, s) THEN st.first[s] ELSE NoTx,
   signer |-> IF Holds(st, n, s) THEN L ELSE NoNode,
   prepares |-> Came(st, n, s),
   isCommitted |-> FALSE]

StartTracker(st, n, s) ==
  IF Came(st, n, s) = 0 THEN NoTracker
  ELSE [count |-> Came(st, n, s),
        monitor |-> IF n \in Malicious THEN "off"
                    ELSE IF st.gaveUp THEN "done" ELSE "wait"]

\* A backup that has accepted something: its timerThread has taken one signal
\* and watches one of the numbers.
InitFrom(st) ==
  LET held(n) == {s \in SeqNums : n \in st.held[s]} IN
  /\ logs = [n \in Node |-> [s \in SeqNums |-> StartEntry(st, n, s)]]
  /\ prepareTrackers =
       [n \in Node |-> [s \in SeqNums |-> StartTracker(st, n, s)]]
  /\ globalSequence = [n \in Node |-> IF n = L THEN Len(st.first) ELSE 0]
  /\ processPool = [n \in Node |->
       IF n = L THEN {TxId[st.first[s]] : s \in DOMAIN st.first} ELSE held(n)]
  /\ processNotify = [n \in Node |->
       IF held(n) = {} THEN 0 ELSE Cardinality(held(n)) - 1]
  /\ timer = [n \in Node |-> IF held(n) = {} THEN "nil" ELSE "thread"]
  /\ thread \in [Node -> [pc : {"idle", "waiting"}, seq : 0 .. MaxSeq]]
  /\ \A n \in Node :
       IF held(n) = {} THEN thread[n] = [pc |-> "idle", seq |-> 0]
       ELSE thread[n].pc = "waiting" /\ thread[n].seq \in held(n)
  /\ prePrepareNet =
       {m \in [to : Node \ ({L} \cup st.down), from : {L}, view : {InitView},
               seq : DOMAIN st.first, tx : Tx] :
          m.tx = st.first[m.seq] /\ m.to \notin st.held[m.seq]}
  /\ proposed =
       {[view |-> InitView, seq |-> s, tx |-> st.first[s], from |-> L] :
          s \in DOMAIN st.first}
  /\ early = st.early
  /\ isActive = [n \in Node |-> n \notin st.down]

Init ==
  /\ \E st \in Starts : InitFrom(st)
  /\ crashed = [n \in Node |-> "no"]
  /\ view = [n \in Node |-> InitView]
  /\ isLeader = [n \in Node |-> n = L]
  /\ isViewChangeProcess = [n \in Node |-> FALSE]
  /\ spawned = [n \in Node |-> {}]
  /\ commitTrackers = [n \in Node |-> [s \in SeqNums |-> NoTracker]]
  /\ executed = [n \in Node |-> <<>>]
  /\ blocked = [n \in Node |-> 0]
  /\ due = {}
  /\ viewChangeLog = [n \in Node |-> {}]
  /\ viewChangeCount = [n \in Node |-> 0]
  /\ newViewMessages = [n \in Node |-> {}]
  /\ initiating = [n \in Node |-> 0]
  /\ startingTimer = [n \in Node |-> 0]
  /\ sendingNewView = [n \in Node |-> [v \in Views |-> 0]]
  /\ accepting = [n \in Node |-> [v \in Views |-> EmptyBag]]
  /\ loadLog = [v \in Views |-> EmptyBag]
  /\ prepareNet = [n \in Node |-> [s \in SeqNums |-> 0]]
  /\ collectedNet = {}
  /\ commitNet = [n \in Node |-> [s \in SeqNums |-> 0]]
  /\ requestNet = [n \in Node |-> [v \in Views |-> 0]]
  /\ loadNet = [v \in Views |-> EmptyBag]
  /\ newViewNet = {}
  /\ timedOut = {} /\ asked = {}

Up(n) == crashed[n] = "no"
Crash(n, why) == crashed' = [crashed EXCEPT ![n] = why]

\* Nobody sleeps in n with node.lock held.
Free(n) == Up(n) /\ blocked[n] = 0

\* Replicas that are killed stay so and read nothing.
Hearing(to) == {m \in to : isActive[m]}

\* A mutant: the caller repeats a call whose answer is late.
SentTwice(net, to, s) == [m \in Node |->
  IF m \in Hearing(to) THEN [net[m] EXCEPT ![s] = @ + 2] ELSE net[m]]

\* One message more, to every replica in a set; one less.
Sent(net, to, s) == [m \in Node |->
  IF m \in Hearing(to) THEN [net[m] EXCEPT ![s] = @ + 1] ELSE net[m]]
Received(net, n, s) == [net EXCEPT ![n][s] = @ - 1]

NextSeq(n) == Len(executed[n]) + 1

-----------------------------------------------------------------------------
(* The normal case, in whatever view the replica is.                        *)

\* SendTransaction and processTransaction at an active leader.
TakeTransaction(n, t) ==
  /\ Free(n) /\ isActive[n] /\ isLeader[n]
  /\ globalSequence[n] < MaxSeq /\ Cardinality(proposed) < MaxProposals
  /\ t \notin spawned[n]
  /\ spawned' = [spawned EXCEPT ![n] = @ \cup {t}]
  /\ UNCHANGED <<adminVars, viewVars, globalSequence, proposed, entryVars,
                 timerVars, changeVars, orderNet, changeNet>>

\* sendPreprepare: it numbers from its own globalSequence and writes a new
\* entry, whatever is there.
SendPreprepare(n, t) ==
  LET s == globalSequence[n] + 1 IN
  /\ Free(n) /\ t \in spawned[n]
  /\ globalSequence[n] < MaxSeq /\ Cardinality(proposed) < MaxProposals
  /\ spawned' = [spawned EXCEPT ![n] = @ \ {t}]
  /\ globalSequence' = [globalSequence EXCEPT ![n] = s]
  /\ logs' = [logs EXCEPT ![n][s] =
                [NoEntry EXCEPT !.exists = TRUE, !.tx = t, !.digest = t,
                                !.signer = n]]
  /\ processPool' = [processPool EXCEPT ![n] = @ \cup {TxId[t]}]
  /\ prePrepareNet' = prePrepareNet \cup
       {[to |-> m, from |-> n, view |-> view[n], seq |-> s, tx |-> t] :
          m \in Hearing(Node \ {n})}
  /\ proposed' = proposed \cup
       {[view |-> view[n], seq |-> s, tx |-> t, from |-> n]}
  /\ UNCHANGED <<adminVars, viewVars, trackerVars, executed, processNotify,
                 blocked, clockVars, changeVars, prepareNet, collectedNet,
                 commitNet, changeNet>>

\* The checks of PrePrepare.  Nobody checks that the sender leads the view.
Accepts(n, m) ==
  /\ m.view = view[n]
  /\ logs[n][m.seq].digest \in {NoTx, m.tx}

\* An entry that receives a PrePrepare of replica k; the first one counts.
Signed(entry, k) ==
  [entry EXCEPT !.exists = TRUE, !.signer = IF @ = NoNode THEN k ELSE @]

\* A mutant: the channel is one signal shorter.
HasLessRoom(n) == processNotify[n] + 1 < NotifyCap
HasRoom(n) == processNotify[n] < NotifyCap

\* processPool[s] = true, then the send on processNotify, with node.lock held,
\* then the prepare to the collector.
Watch(n, s) ==
  /\ processPool' = [processPool EXCEPT ![n] = @ \cup {s}]
  /\ IF HasRoom(n)
     THEN /\ processNotify' = [processNotify EXCEPT ![n] = @ + 1]
          /\ UNCHANGED blocked
          /\ prepareNet' = IF n \in Malicious THEN prepareNet
                           ELSE Sent(prepareNet, {Collector(view[n])}, s)
     ELSE /\ blocked' = [blocked EXCEPT ![n] = s]
          /\ UNCHANGED <<processNotify, prepareNet>>

PrePrepare(m) ==
  LET n == m.to IN
  /\ Free(n) /\ isActive[n] /\ Accepts(n, m)
  /\ prePrepareNet' = prePrepareNet \ {m}
  /\ logs' = [logs EXCEPT ![n][m.seq] =
                [Signed(@, m.from) EXCEPT !.tx = m.tx, !.digest = m.tx]]
  /\ Watch(n, m.seq)
  /\ UNCHANGED <<adminVars, viewVars, leaderVars, trackerVars, executed,
                 clockVars, changeVars, collectedNet, commitNet, changeNet>>

RejectPrePrepare(m) ==
  /\ Free(m.to) /\ isActive[m.to] /\ ~Accepts(m.to, m)
  /\ prePrepareNet' = prePrepareNet \ {m}
  /\ UNCHANGED <<adminVars, viewVars, leaderVars, entryVars, timerVars,
                 changeVars, prepareNet, collectedNet, commitNet, changeNet>>

\* A message is counted; the first one starts the monitor.
Counted(tracker, n) ==
  [count |-> tracker.count + 1,
   monitor |-> IF tracker.monitor # "none" THEN tracker.monitor
               ELSE IF n \in Malicious THEN "off" ELSE "wait"]

Prepare(n, s) ==
  /\ Free(n) /\ prepareNet[n][s] > 0 /\ isActive[n]
  /\ prepareNet' = Received(prepareNet, n, s)
  /\ prepareTrackers' = [prepareTrackers EXCEPT ![n][s] = Counted(@, n)]
  /\ logs' = [logs EXCEPT ![n][s].exists = TRUE, ![n][s].prepares = @ + 1]
  /\ UNCHANGED <<adminVars, viewVars, leaderVars, commitTrackers, executed,
                 timerVars, changeVars, prePrepareNet, collectedNet, commitNet,
                 changeNet>>

Prepared(k) == k >= 2 * F

\* monitorPrepareTimeout ends, on the 3F-th prepare or on its timeout, and
\* calls sendCollectedPrepare.
MonitorPrepare(n, s) ==
  LET entry == logs[n][s]
      collects == Prepared(prepareTrackers[n][s].count)
  IN
  /\ Free(n) /\ prepareTrackers[n][s].monitor = "wait"
  /\ prepareTrackers' = [prepareTrackers EXCEPT ![n][s].monitor = "done"]
  /\ collectedNet' = IF collects /\ entry.tx # NoTx
                     THEN collectedNet \cup
                       {[to |-> m, seq |-> s, size |-> entry.prepares] :
                          m \in Hearing(Node)}
                     ELSE collectedNet
  /\ crashed' = IF collects /\ entry.tx = NoTx
                THEN [crashed EXCEPT ![n] = "nil"] ELSE crashed
  /\ UNCHANGED <<isActive, viewVars, leaderVars, logs, commitTrackers,
                 executed, timerVars, changeVars, prePrepareNet, prepareNet,
                 commitNet, changeNet>>

Fast(k) == k >= 3 * F
Collected(entry, k) ==
  IF Fast(k) THEN [entry EXCEPT !.exists = TRUE, !.isCommitted = TRUE,
                                !.prepares = @ + k]
  ELSE [entry EXCEPT !.exists = TRUE]

\* It takes no lock, and does not look at the view.
CollectedPrepare(c) ==
  LET n == c.to IN
  /\ Up(n) /\ isActive[n]
  /\ collectedNet' = collectedNet \ {c}
  /\ IF n \notin Malicious /\ Prepared(c.size)
     THEN /\ logs' = [logs EXCEPT ![n][c.seq] = Collected(@, c.size)]
          /\ commitNet' = IF Fast(c.size) THEN commitNet
                          ELSE Sent(commitNet, Node \ {n}, c.seq)
     ELSE UNCHANGED <<logs, commitNet>>
  /\ UNCHANGED <<adminVars, viewVars, leaderVars, trackerVars, executed,
                 timerVars, changeVars, prePrepareNet, prepareNet, changeNet>>

Commit(n, s) ==
  /\ Free(n) /\ commitNet[n][s] > 0 /\ isActive[n]
  /\ commitNet' = Received(commitNet, n, s)
  /\ commitTrackers' = [commitTrackers EXCEPT ![n][s] = Counted(@, n)]
  /\ logs' = [logs EXCEPT ![n][s].exists = TRUE]
  /\ UNCHANGED <<adminVars, viewVars, leaderVars, prepareTrackers, executed,
                 timerVars, changeVars, prePrepareNet, prepareNet,
                 collectedNet, changeNet>>

\* monitorCommitTimeout ends, on 2F commits or on its timeout.
MonitorCommit(n, s) ==
  /\ Up(n) /\ commitTrackers[n][s].monitor = "wait"
  /\ commitTrackers' = [commitTrackers EXCEPT ![n][s].monitor = "done"]
  /\ logs' = IF commitTrackers[n][s].count >= 2 * F
             THEN [logs EXCEPT ![n][s].isCommitted = TRUE] ELSE logs
  /\ UNCHANGED <<adminVars, viewVars, leaderVars, prepareTrackers, executed,
                 timerVars, changeVars, orderNet, changeNet>>

NextCommitted(n) == NextSeq(n) \in SeqNums /\ logs[n][NextSeq(n)].isCommitted

\* The executor removes the number it has executed from processPool; it ends
\* the process at an entry without a transaction, or at a replica that is not
\* to execute (NormalCase!ExecCrash).
Execute(n) ==
  LET t == logs[n][NextSeq(n)].tx
      honest == isActive[n] /\ n \notin Malicious
  IN
  /\ Up(n) /\ NextCommitted(n)
  /\ IF honest /\ t # NoTx
     THEN /\ Free(n)
          /\ executed' = [executed EXCEPT ![n] = Append(@, t)]
          /\ processPool' = [processPool EXCEPT ![n] = @ \ {NextSeq(n)}]
          /\ UNCHANGED crashed
     ELSE /\ Crash(n, IF honest THEN "nil" ELSE "unlock")
          /\ UNCHANGED <<executed, processPool>>
  /\ UNCHANGED <<isActive, viewVars, leaderVars, logs, trackerVars,
                 processNotify, blocked, clockVars, changeVars, orderNet,
                 changeNet>>

-----------------------------------------------------------------------------
(* timerThread.                                                             *)

\* The top of the inner loop: the thread goes back to sleep while the view
\* changes, or when there is nothing to watch; else it picks a number.
Looks(n) ==
  IF isViewChangeProcess[n]
  THEN /\ thread' = [thread EXCEPT ![n].pc = "idle"]
       /\ UNCHANGED timer
  ELSE IF processPool[n] = {}
  THEN /\ thread' = [thread EXCEPT ![n].pc = "idle"]
       /\ timer' = [timer EXCEPT ![n] = "nil"]
  ELSE /\ \E s \in processPool[n] :
            thread' = [thread EXCEPT ![n] = [pc |-> "arming", seq |-> s]]
       /\ UNCHANGED timer

\* It takes one signal, which lets a handler that sleeps on the full channel
\* leave, and looks.
TimerThreadWakes(n) ==
  LET s == blocked[n] IN
  /\ Up(n) /\ thread[n].pc = "idle" /\ processNotify[n] > 0
  /\ Looks(n)
  /\ IF s = 0
     THEN /\ processNotify' = [processNotify EXCEPT ![n] = @ - 1]
          /\ UNCHANGED <<blocked, prepareNet>>
     ELSE /\ blocked' = [blocked EXCEPT ![n] = 0]
          /\ prepareNet' = IF n \in Malicious THEN prepareNet
                           ELSE Sent(prepareNet, {Collector(view[n])}, s)
          /\ UNCHANGED processNotify
  /\ UNCHANGED <<adminVars, viewVars, leaderVars, entryVars, processPool, due,
                 early, changeVars, prePrepareNet, collectedNet, commitNet,
                 changeNet>>

\* startOrResetTimer: a timer that runs is stopped, and whoever waits for it
\* waits for ever.
TimerArms(n) ==
  /\ Up(n) /\ thread[n].pc = "arming"
  /\ thread' = [thread EXCEPT ![n].pc = "waiting"]
  /\ timer' = [timer EXCEPT ![n] = "thread"]
  /\ UNCHANGED <<adminVars, viewVars, leaderVars, entryVars, poolVars, due,
                 early, changeVars, orderNet, changeNet>>

\* The entries initiateViewChange looks for: it stops before the last one.
Reported(n) ==
  {s \in 1 .. Cardinality({q \in SeqNums : logs[n][q].exists}) - 1 :
     n \notin Malicious /\ Prepared(logs[n][s].prepares)}

\* A mutant: what is carried over is signed by the replica that will lead.
LoadSignedAnew(n) ==
  {[seq |-> s, tx |-> logs[n][s].digest, signer |-> Leader(view[n] + 1)] :
     s \in {r \in Reported(n) : \A q \in Reported(n) : r <= q}}

\* The first load of a request, the only one its receiver looks at.
FirstLoad(n) ==
  {[seq |-> s, tx |-> logs[n][s].digest, signer |-> logs[n][s].signer] :
     s \in {r \in Reported(n) : \A q \in Reported(n) : r <= q}}

\* initiateViewChange asks everybody, itself included.  prePrepareMsgLog[0] of
\* an entry without a PrePrepare is out of range.
InitiateViewChange(n) ==
  LET v == view[n] + 1 IN
  IF \E s \in Reported(n) : logs[n][s].signer = NoNode
  THEN Crash(n, "index") /\ UNCHANGED <<asked, loadVars>>
  ELSE /\ requestNet' = Sent(requestNet, Node, v)
       /\ loadNet' = IF Hearing({Leader(v)}) = {} THEN loadNet
                     ELSE [loadNet EXCEPT ![v] = @ (+) SetToBag(FirstLoad(n))]
       /\ asked' = asked \cup {n}
       /\ UNCHANGED crashed

\* The timer expires and the number the thread watches has not been executed.
\* Being killed does not stop the thread.
Runs(n) == Up(n) /\ thread[n].pc = "waiting" /\ timer[n] = "thread"

TimerExpires(n) ==
  /\ Runs(n) /\ n \in due /\ thread[n].seq \in processPool[n]
  /\ view[n] < MaxView
  /\ due' = due \ {n}
  /\ processPool' = [processPool EXCEPT ![n] = {}]
  /\ thread' = [thread EXCEPT ![n].pc = "idle"]
  /\ IF isViewChangeProcess[n]
     THEN UNCHANGED <<crashed, isViewChangeProcess, timer, historyVars,
                      loadVars>>
     ELSE /\ isViewChangeProcess' = [isViewChangeProcess EXCEPT ![n] = TRUE]
          /\ timer' = [timer EXCEPT ![n] = "nil"]
          /\ timedOut' = timedOut \cup {n}
          /\ InitiateViewChange(n)
  /\ UNCHANGED <<isActive, view, isLeader, leaderVars, entryVars,
                 processNotify, blocked, early, countVars, loadLog, goVars,
                 newViewVars, orderNet, newViewNet>>

\* The timer expires and the number has been executed: stopTimer if there is
\* no other, else another round.
TimerGoesOn(n) ==
  /\ Runs(n) /\ n \in due /\ thread[n].seq \notin processPool[n]
  /\ due' = due \ {n}
  /\ Looks(n)
  /\ UNCHANGED <<adminVars, viewVars, leaderVars, entryVars, poolVars, early,
                 changeVars, orderNet, changeNet>>

-----------------------------------------------------------------------------
(* Requests.                                                                *)

\* The goroutine a replica starts when F+1 others have asked.
StartInitiate(n) ==
  /\ Up(n) /\ initiating[n] > 0 /\ view[n] < MaxView
  /\ initiating' = [initiating EXCEPT ![n] = @ - 1]
  /\ InitiateViewChange(n)
  /\ UNCHANGED <<isActive, viewVars, leaderVars, entryVars, timerVars,
                 countVars, loadLog, startingTimer, sendingNewView,
                 newViewVars, timedOut, orderNet, newViewNet>>

\* Where goroutines are prompt, those that can run have run before a
\* view-change message is handled.
Ready(n) ==
  n \in Prompt => /\ initiating[n] = 0 /\ startingTimer[n] = 0
                  /\ \A v \in Views : sendingNewView[n][v] = 0
                  /\ thread[n].pc # "arming"
                  /\ thread[n].pc = "idle" => processNotify[n] = 0

\* A request for view v arrives at n, with a load or without; loads are kept
\* by the leader of v.
Arrives(n, v) ==
  /\ Ready(n) /\ requestNet[n][v] > 0
  /\ requestNet' = Received(requestNet, n, v)
  /\ IF n # Leader(v) THEN UNCHANGED <<loadLog, loadNet>>
     ELSE \/ /\ requestNet[n][v] > BagCardinality(loadNet[v])
             /\ UNCHANGED <<loadLog, loadNet>>
          \/ \E l \in BagToSet(loadNet[v]) :
               /\ loadNet' = [loadNet EXCEPT ![v] = @ (-) SetToBag({l})]
               /\ loadLog' = [loadLog EXCEPT ![v] = @ (+) SetToBag({l})]

\* viewChangeCount with this request: the first one for a view resets the
\* counter, which all views share.
CountWith(n, v) ==
  IF v \in viewChangeLog[n] THEN viewChangeCount[n] + 1 ELSE 1

\* checkViewChangeThresholds.
Decides(n) == Free(n) /\ isActive[n] /\ timer[n] = "nil"

\* A mutant: one request more than needed.
MovesLate(n, v) == /\ Decides(n) /\ CountWith(n, v) > 2 * F + 1
                   /\ isViewChangeProcess[n]
Moves(n, v) == /\ Decides(n) /\ CountWith(n, v) >= 2 * F + 1
               /\ isViewChangeProcess[n]

\* A mutant: the faulty alone can make a replica join.
JoinsEarly(n, v) == /\ Decides(n) /\ CountWith(n, v) >= F
                    /\ ~isViewChangeProcess[n]
Joins(n, v) == /\ Decides(n) /\ CountWith(n, v) >= F + 1
               /\ ~isViewChangeProcess[n]

RequestMoves(n, v) ==
  /\ Moves(n, v) /\ Arrives(n, v)
  /\ viewChangeLog' = [viewChangeLog EXCEPT ![n] = @ \cup {v}]
  /\ viewChangeCount' = [viewChangeCount EXCEPT ![n] = 0]
  /\ view' = [view EXCEPT ![n] = v]
  /\ isLeader' = [isLeader EXCEPT ![n] = Leader(v) = n]
  /\ isViewChangeProcess' = [isViewChangeProcess EXCEPT ![n] = FALSE]
  /\ startingTimer' = [startingTimer EXCEPT ![n] = @ + 1]
  /\ sendingNewView' = IF Leader(v) = n
                       THEN [sendingNewView EXCEPT ![n][v] = @ + 1]
                       ELSE sendingNewView
  /\ UNCHANGED <<adminVars, leaderVars, entryVars, timerVars, initiating,
                 newViewVars, historyVars, orderNet, newViewNet>>

RequestJoins(n, v) ==
  /\ Joins(n, v) /\ Arrives(n, v)
  /\ viewChangeLog' = [viewChangeLog EXCEPT ![n] = @ \cup {v}]
  /\ viewChangeCount' = [viewChangeCount EXCEPT ![n] = CountWith(n, v)]
  /\ isViewChangeProcess' = [isViewChangeProcess EXCEPT ![n] = TRUE]
  /\ initiating' = [initiating EXCEPT ![n] = @ + 1]
  /\ UNCHANGED <<adminVars, view, isLeader, leaderVars, entryVars, timerVars,
                 startingTimer, sendingNewView, newViewVars, historyVars,
                 orderNet, newViewNet>>

RequestNoted(n, v) ==
  /\ Free(n) /\ isActive[n] /\ ~Moves(n, v) /\ ~Joins(n, v)
  /\ Arrives(n, v)
  /\ viewChangeLog' = [viewChangeLog EXCEPT ![n] = @ \cup {v}]
  /\ viewChangeCount' = [viewChangeCount EXCEPT ![n] = CountWith(n, v)]
  /\ UNCHANGED <<adminVars, viewVars, leaderVars, entryVars, timerVars, goVars,
                 newViewVars, historyVars, orderNet, newViewNet>>

-----------------------------------------------------------------------------
(* The new view.                                                            *)

\* startOrResetTimer by somebody else than the thread: nobody waits for the
\* new timer, and a timer the thread waits for has been stopped.
OtherTimer(n) ==
  /\ timer' = [timer EXCEPT ![n] = "other"]
  /\ due' = due \ {n}

StartTimer(n) ==
  /\ Up(n) /\ startingTimer[n] > 0
  /\ startingTimer' = [startingTimer EXCEPT ![n] = @ - 1]
  /\ OtherTimer(n)
  /\ UNCHANGED <<adminVars, viewVars, leaderVars, entryVars, poolVars, thread,
                 early, countVars, loadLog, initiating, sendingNewView,
                 newViewVars, historyVars, orderNet, changeNet>>

\* sendNewView, in a goroutine, with the requests that have come by then.
SendNewView(n, v) ==
  /\ Free(n) /\ sendingNewView[n][v] > 0
  /\ sendingNewView' = [sendingNewView EXCEPT ![n][v] = @ - 1]
  /\ isLeader' = [isLeader EXCEPT ![n] = TRUE]
  /\ newViewNet' = newViewNet \cup
       {[to |-> m, view |-> v, loads |-> loadLog[v]] :
          m \in Hearing(Node \ {n})}
  /\ UNCHANGED <<adminVars, view, isViewChangeProcess, leaderVars, entryVars,
                 timerVars, countVars, loadLog, initiating, startingTimer,
                 newViewVars, historyVars, orderNet, loadVars>>

\* NewView ends the replica's view change but does not move it: its view stays.
NewView(m) ==
  LET n == m.to
      carried == BagToSet(m.loads)
  IN
  /\ Free(n) /\ Ready(n) /\ isActive[n]
  /\ newViewNet' = newViewNet \ {m}
  /\ isViewChangeProcess' = [isViewChangeProcess EXCEPT ![n] = FALSE]
  /\ newViewMessages' = [newViewMessages EXCEPT ![n] = @ \cup {m.view}]
  /\ processPool' = [processPool EXCEPT ![n] = @ \cup {l.seq : l \in carried}]
  /\ accepting' = [accepting EXCEPT ![n][m.view] = @ (+) m.loads]
  /\ IF carried # {} /\ timer[n] # "nil" THEN OtherTimer(n)
     ELSE UNCHANGED <<timer, due>>
  /\ UNCHANGED <<adminVars, view, isLeader, leaderVars, entryVars,
                 processNotify, blocked, thread, early, countVars, loadLog,
                 goVars, historyVars, orderNet, loadVars>>

\* The checks of AcceptNewViewPrePrepare.  The message names the new leader and
\* carries the signature of the old one.
AcceptsAnew(n, v, l) ==
  /\ isActive[n]
  /\ logs[n][l.seq].exists => logs[n][l.seq].tx # NoTx
  /\ l.signer = Leader(v)
  /\ view[n] = v
  /\ logs[n][l.seq].digest \in {NoTx, l.tx}

\* A goroutine that NewView has started.  An entry it creates has a digest but
\* no transaction; one that has none is dereferenced.
AcceptNewViewPrePrepare(n, v, l) ==
  LET entry == logs[n][l.seq] IN
  /\ Free(n) /\ BagIn(l, accepting[n][v])
  /\ accepting' = [accepting EXCEPT ![n][v] = @ (-) SetToBag({l})]
  /\ viewChangeCount' = [viewChangeCount EXCEPT ![n] = 0]
  /\ crashed' = IF isActive[n] /\ entry.exists /\ entry.tx = NoTx
                THEN [crashed EXCEPT ![n] = "nil"] ELSE crashed
  /\ IF AcceptsAnew(n, v, l)
     THEN /\ logs' = [logs EXCEPT ![n][l.seq] =
                        [Signed(@, Leader(v)) EXCEPT !.digest = l.tx]]
          /\ Watch(n, l.seq)
     ELSE UNCHANGED <<logs, poolVars, prepareNet>>
  /\ UNCHANGED <<isActive, viewVars, leaderVars, trackerVars, executed,
                 clockVars, viewChangeLog, loadLog, goVars, newViewMessages,
                 historyVars, prePrepareNet, collectedNet, commitNet,
                 changeNet>>

-----------------------------------------------------------------------------
(* The operator, and time.                                                  *)

Kill(n) ==
  /\ Up(n) /\ isActive[n] /\ n \in Killable
  /\ isActive' = [isActive EXCEPT ![n] = FALSE]
  /\ UNCHANGED <<crashed, viewVars, leaderVars, entryVars, timerVars,
                 changeVars, orderNet, changeNet>>

\* Everything sent has arrived and every goroutine waits: what is left to
\* happen takes a timer.
Settled ==
  /\ \A m \in prePrepareNet \cup collectedNet \cup newViewNet :
       ~(Up(m.to) /\ isActive[m.to])
  /\ \A n \in Node : Up(n) =>
       /\ isActive[n] => /\ \A s \in SeqNums : /\ prepareNet[n][s] = 0
                                               /\ commitNet[n][s] = 0
                         /\ \A v \in Views : requestNet[n][v] = 0
       /\ \A s \in SeqNums : prepareTrackers[n][s].monitor # "wait"
       /\ \A v \in Views : /\ sendingNewView[n][v] = 0
                           /\ accepting[n][v] = EmptyBag
       /\ spawned[n] = {} /\ ~NextCommitted(n)
       /\ initiating[n] = 0 /\ startingTimer[n] = 0
       /\ thread[n].pc # "arming"
       /\ thread[n].pc = "idle" => processNotify[n] = 0

\* Timers of some replicas, started at about the same time, come due.
TimePasses ==
  /\ due = {}
  /\ \E S \in SUBSET {n \in Node : Runs(n)} : S # {} /\ due' = S
  /\ \/ Settled /\ UNCHANGED early
     \/ ~Settled /\ early > 0 /\ early' = early - 1
  /\ UNCHANGED <<adminVars, viewVars, leaderVars, entryVars, poolVars, thread,
                 timer, changeVars, orderNet, changeNet>>

-----------------------------------------------------------------------------
Order(n) ==
  \/ \E t \in Tx : SendPreprepare(n, t)
  \/ \E m \in prePrepareNet : m.to = n /\ (PrePrepare(m) \/ RejectPrePrepare(m))
  \/ \E c \in collectedNet :
       c.to = n /\ CollectedPrepare(c)
  \/ \E s \in SeqNums : \/ Prepare(n, s) \/ MonitorPrepare(n, s)
                        \/ Commit(n, s) \/ MonitorCommit(n, s)
  \/ Execute(n)

Time(n) == \/ TimerThreadWakes(n) \/ TimerArms(n)
           \/ TimerExpires(n) \/ TimerGoesOn(n)

Change(n) ==
  \/ StartInitiate(n) \/ StartTimer(n)
  \/ \E v \in Views : \/ RequestMoves(n, v) \/ RequestJoins(n, v)
                      \/ RequestNoted(n, v)
                      \/ SendNewView(n, v)
                      \/ \E l \in BagToSet(accepting[n][v]) :
                           AcceptNewViewPrePrepare(n, v, l)
  \/ \E m \in newViewNet : m.to = n /\ NewView(m)

Next ==
  \/ \E n \in Node : \/ \E t \in Tx : TakeTransaction(n, t)
                     \/ Order(n) \/ Time(n) \/ Change(n) \/ Kill(n)
  \/ TimePasses

Spec == Init /\ [][Next]_vars

\* As long as a message can arrive, a goroutine run or time pass, something of
\* the kind happens.  Clients and operators need do nothing.
Fairness ==
  WF_vars((\E n \in Node : Order(n) \/ Time(n) \/ Change(n)) \/ TimePasses)
FairSpec == Spec /\ Fairness

-----------------------------------------------------------------------------
(* Properties.                                                              *)

\* F faulty replicas alone cannot make anybody change the view: a replica that
\* joins a view change or leaves InitView has the timers of F+1 replicas
\* behind it, and one that leaves the requests of 2F+1, although
\* viewChangeCount counts requests and not replicas.
TimersBackViewChange ==
  /\ \A n \in Node : isViewChangeProcess[n] =>
       n \in timedOut \/ Cardinality(timedOut) >= F + 1
  /\ \A n \in Node : view[n] # InitView =>
       Cardinality(timedOut) >= F + 1 /\ Cardinality(asked) >= 2 * F + 1

Genuine(s, t, k) == \E p \in proposed : p.seq = s /\ p.tx = t /\ p.from = k
GenuineLoads(bag) ==
  \A l \in BagToSet(bag) : Genuine(l.seq, l.tx, l.signer)

\* What a NewView carries over was proposed, for that number, by the replica
\* whose signature goes with it.
ReproposalsGenuine == \A m \in newViewNet : GenuineLoads(m.loads)

\* In the first view a backup watches what it has accepted: as long as
\* processPool is not empty, the thread is about to look at it, or waits for
\* the timer that runs.
AcceptedIsWatched ==
  \A n \in Node \ {L} :
    /\ Up(n) /\ view[n] = InitView /\ newViewMessages[n] = {}
    /\ ~isViewChangeProcess[n] /\ processPool[n] # {}
    => \/ thread[n].pc = "idle" /\ processNotify[n] > 0
       \/ thread[n].pc = "arming"
       \/ Runs(n)

\* The first request is the only one a replica sends before it moves, so the
\* requests that are counted or on their way are those of different replicas.
Unmoved ==
  /\ newViewNet = {}
  /\ \A n \in Node :
       /\ view[n] = InitView
       /\ \A v \in Views : /\ sendingNewView[n][v] = 0
                           /\ requestNet[n][v] > 0 => v = InitView + 1
                           /\ viewChangeCount[n] + requestNet[n][v]
                                <= Cardinality(asked)
       /\ initiating[n] \in {0, 1}
       /\ initiating[n] = 1 => n \notin asked
       /\ ~isViewChangeProcess[n] => n \notin asked /\ initiating[n] = 0
  /\ \/ Cardinality(timedOut) >= F + 1
     \/ /\ asked \subseteq timedOut
        /\ \A n \in Node : isViewChangeProcess[n] => n \in timedOut
Moved == Cardinality(timedOut) >= F + 1 /\ Cardinality(asked) >= 2 * F + 1

\* A backup in the first view does not lead, and no timer but that of its
\* thread is about to start.
Follows(n) == /\ ~isLeader[n] /\ spawned[n] = {} /\ startingTimer[n] = 0
              /\ \A v \in Views : sendingNewView[n][v] = 0
FirstView ==
  \A n \in Node :
    /\ \A v \in Views : requestNet[n][v] > 0 => v # InitView
    /\ n # L /\ view[n] = InitView => Follows(n)
    /\ /\ n # L /\ view[n] = InitView /\ newViewMessages[n] = {}
       /\ ~isViewChangeProcess[n]
       => /\ thread[n].pc = "waiting" => timer[n] = "thread"
          /\ thread[n].pc = "idle" /\ processPool[n] # {} => processNotify[n] > 0

AllGenuine ==
  /\ \A n \in Node, s \in SeqNums : logs[n][s].signer # NoNode =>
       Genuine(s, logs[n][s].digest, logs[n][s].signer)
  /\ \A m \in prePrepareNet : Genuine(m.seq, m.tx, m.from)
  /\ \A v \in Views : GenuineLoads(loadNet[v]) /\ GenuineLoads(loadLog[v])
  /\ \A n \in Node, v \in Views : GenuineLoads(accepting[n][v])
  /\ \A m \in newViewNet : GenuineLoads(m.loads)

\* What the three invariants above rest on.
IInv == TypeOK /\ (Unmoved \/ Moved) /\ FirstView /\ AllGenuine

\* A leader that proposes and then lets no transaction through is replaced:
\* with timers that outlast the messages, everybody who is not killed ends in
\* the next view and follows its leader, whether the old one lives or not.
LeaderReplaced ==
  <>[](\A n \in Node : isActive[n] =>
         /\ view[n] = InitView + 1
         /\ isLeader[n] = (n = Leader(InitView + 1)))

\* Replicas do not execute different transactions at a sequence number.
Agreement ==
  \A n, m \in Node : \A i \in DOMAIN executed[n] \cap DOMAIN executed[m] :
    executed[n][i] = executed[m][i]
=============================================================================
