# Linear-PBFT in TLA+

TLA+ modules, TLC configurations and TLAPS proofs for the Go program in `src/`:
a replicated bank of seven replicas (`src/node`) that order transfers with a
linear variant of PBFT, and a client program (`src/client`) that sends them.

## The system

| part | state | operations | talks to |
|---|---|---|---|
| **leader** (`helperutils.go:68-188`) | `transactionQueue`, `globalSequence`, `processPool` | `SendTransaction` enqueues; the processor goroutine dequeues and spawns `sendPreprepare`, which takes a number, logs the transaction and calls every replica | clients, backups |
| **agreement** (`node.go:140-308, 374-415`, `timeutils.go`) | `logs`, one `PrepareTracker` and one `CommitTracker` per sequence number, each with a goroutine that waits for a token or a timeout | `PrePrepare`, `Prepare`, `CollectedPrepare`, `Commit`, `monitorPrepareTimeout`, `monitorCommitTimeout` | the collector gets the prepares and sends them on; everybody sends commits |
| **executor** (`helperutils.go:263-342`) | `seqCounter`, `notifyCh`, `nodeBalances` | waits for a signal, applies committed entries in sequence order, answers the client, sends checkpoints | agreement (through `logs` and `notifyCh`), client, checkpoints |
| **checkpoints** (`node.go:417-439`) | `checkpointTracker`, `lastStableCheckpoint` | `RecieveCheckpoint`, `monitorCheckpointTimeout` | executors of all replicas |
| **view change** (`helperutils.go:189-262, 411-556`, `node.go:310-372`) | `timer`, `processPool`, `viewChangeLog`, `viewChangeTracker`, `view`, `isLeader` | `timerThread`, `initiateViewChange`, `RequestViewChange`, `sendNewView`, `NewView`, `AcceptNewViewPrePrepare` | all replicas |
| **operator's calls** (`node.go:441-467, 487-554`) | `isActive`, `isbyzantine` | `Kill`, `Revive`, `BecomeMalicious`, `Flush` | the client's menu |
| **menu** (`client.go:60-230, 346-355`) | `killedServers`, `currentSetNumber`, `allSetsRead` | read the sets, send the next one, flush | reader, client handlers, every server |
| **client** (`client.go:107-230, 401-438`, `client/helperutils.go:19-75`) | one `ClientHandler` per client id: current transaction, reply count, `processDone`, `mu` | the sending goroutine, `ServerResponse`, `monitorReplies` | leader; on a timeout every replica |
| **reader** (`client/helperutils.go:77-207`) | sets of transactions, live and byzantine servers, `globalTransactionID` | `ReadTransactions` | the menu |
| **keys** (`node/netutils.go:68-115`) | `publickeys` | `sendKey`, `ReceivePublicKey`, `ReceiveServerPublicKey` | all |
| the rest | | gRPC set-up, queries, tables, threshold signatures that nobody calls, tests that are commented out | |

What is hard here:

* `node.lock` guards the handlers, but three pieces of code read `logs[seq]` and
  write it back without it: `CollectedPrepare` (node.go:269-275, 287-289),
  `monitorCommitTimeout` (timeutils.go:149-152) and the executor (it reads at
  helperutils.go:273 and writes at 298).
* Messages are gRPC calls in goroutines of their own, so they overtake each
  other; a slow replica sees the certificate before the proposal.
* Counters of messages do not look at who sends, in which view, about what.
* Monitors run once: a token or a timeout, whichever comes first.
* A killed replica goes on running what does not look at `isActive`.
* The client's three goroutines share one mutex and a channel of capacity one,
  and send on the channel with the mutex held.
* A view change is counted by one counter for all views, decided only where no
  timer runs, and finished by goroutines that read the view when they get to run.
  Handlers, `timerThread` and those goroutines start and stop one timer.
* `Flush` resets the state under goroutines that go on: executors, handlers with
  an entry in their hands, senders on channels that it closes.
* The menu notes what it asked of a server, not what the server did.

What makes each part correct: replicas execute the same transactions in the
same order, none left out; a commit has a quorum of 2F+1 behind it; nothing that
committed is lost; the executor does not sleep on work; checkpoints are backed
by executions; a transaction of a client completes once, in order, on F+1
replies about it; every transaction is sent; a replica leaves a view only for reasons
that faulty replicas alone cannot make up, and a leader that blocks is replaced;
what a new view carries over was proposed; the file is sent as written, under
fresh ids, to the servers it lists; balances are those of the log.
`PROJECT.json` lists the hazards at their lines with the properties for them.

## Modules

| module | what it is |
|---|---|
| `Replicas` | who the replicas are, who leads and who collects a view |
| `OrderedExecution` | the promise: an append-only order of transactions, and replicas that execute it from its start without gaps |
| `NormalCase` | EXTENDS `Replicas`: leader, agreement, executor, Kill / Revive / BecomeMalicious, in the view the replicas start in; implements `OrderedExecution` |
| `Checkpoint` | EXTENDS `NormalCase` with the receiving side of checkpoints |
| `ViewChange` | EXTENDS `Replicas`: timers, requests, the new view, over a normal case in larger steps |
| `ClientHandler` | the client's goroutines for each client id |
| `TransactionReader` | the reader, as a fold over the rows of a file, and what a file says, read off it |
| `Server` | EXTENDS `TransactionReader`: a server's switches, log, executors and balances through `Flush` |
| `Session` | EXTENDS `Server`: the menu, the servers it drives, its late calls |
| `NormalCaseProofs`, `QuorumProofs`, `WakeupProofs` | theorems about `NormalCase` |
| `CheckpointProofs`, `ViewChangeProofs`, `ClientHandlerProofs` | theorems about these modules |
| `ReaderProofs`, `SessionProofs` | theorems about `TransactionReader`; about `Session` and `Server` |
| `MCNormalCase`, `MCCheckpoint`, `MCViewChange`, `MCClientHandler`, `MCSession` | instances for TLC |

### NormalCase

State. A variable has the name it has in the code, with the replica as its
first index. `logs[n][s]` keeps of the struct `Log` what the protocol reads:
transaction (the digest is set with it), status, length of `prepareMsgLog`,
`isCommitted`. A tracker is its count, the state of its goroutine and the token
in its channel. `spawned` are `sendPreprepare` goroutines that have not got the
lock, `notifyCh` the signal in the channel and the goroutines blocked behind it,
`executed[n]` the transactions applied to `nodeBalances` (`NextSeq` is
`seqCounter`). The answer to the client is not a variable: it says the same as
`executed`. `windows[n]` are the unlocked read-modify-writes in progress.

Actions. A handler that holds the lock is one action. `CollectedPrepare` and
`monitorCommitTimeout` open a window with the entry they read, and `WriteBack`
stores the changed copy, whatever happened to the entry in between, then
signals the executor or sends commits. A handler that reads and writes the
same entry under the lock may also undo the unlocked write if it runs across it
(`Overlapped`: such a handler could be running because its message is there).
This covers slightly more than the code: the handler's own changes come in a
step of their own. The executor is `ExecWake`, `ExecSleep`, `ExecRead`,
`ExecApply`, `ExecCrash`.

Calls. A pre-prepare and a collected prepare are records; prepares, commits and
checkpoints, which handlers count without looking at them, are numbers per
receiver and sequence number. A call may be delayed for ever in the runs
without fairness, which is what a lost one looks like. The code
never sends one twice. `checkCommitThresholds` runs in a goroutine that
only looks at the count just incremented and fills the channel; it is merged
with `Commit`. If the token is taken, or the timer expires, the goroutine is
gone, so a later token is read by nobody (`Ended`).

Timers. A timer may expire when nothing it waits for is on its way
(`Settled`), and `MaxEarly` times in a behaviour before that. The timeouts
of ten and two seconds are not compared with each other.

Ends of a process. The executor dereferences a nil transaction
(helperutils.go:284) or, at an inactive or byzantine replica, unlocks a mutex
(335) nobody holds or somebody else does, who then unlocks in vain; both are the
end of the process. `sendCollectedPrepare` (22) dereferences too. `DataRace` is
what the Go runtime may do when an unlocked map access meets another.

Left to the environment: signatures are valid (keys have been exchanged),
a call of `SendTransaction` at a replica that is not an active leader does
nothing (helperutils.go:75-85) and so is not a step, and processes that end are
not started again: nothing is stored.

### Checkpoint

`ExecApply` of `NormalCase` sends the checkpoints, so that module has their
messages; `Checkpoint` adds the tracker, its monitor and the handler.
The threshold fills `quorumChan` (timeutils.go:182), the monitor reads
`checkPointChan` (162), which nothing fills: `CheckPointChan` is FALSE, and the
monitor always ends in its timeout.

### ClientHandler

A client id's transactions are numbered in the order they are read.
`sender[c]` is the goroutine that works through a set. `mu[c] = "held"` is a
`ServerResponse` asleep on the send at client.go:432 with the mutex; every other
critical section is one action with the guard `mu[c] = "free"`. Whoever takes
the token also lets such a sleeper put its own and leave (`TakeDone`).
`processDone` is one Boolean as its capacity is one. Timer reads are the
`MonitorTimeout` action: with Go 1.23 (`go.mod`) `Stop` and `Reset` leave no
stale value, so the drain at client.go:422-423 does not block. The replicas are
outside: each call that reaches the leader brings `Answers` replies, a repeated one too
(they execute it again: `SendTransaction` enqueues it like a new one). A replica's answer
may come at any time after the call, or never.

### ViewChange

State. Variables as in the code, plus the goroutines that are about to run:
`initiating` (`go initiateViewChange`, timeutils.go:114), `startingTimer`
(`go startOrResetTimer`, 98-106), `sendingNewView`, `accepting`. `thread` is
`timerThread`: asleep on `processNotify`, about to arm the timer, or waiting for
it. `timer` says whether `node.timer` is nil, the one the thread waits for, or
another: `startOrResetTimer` and `stopTimer` replace the timer under a thread
that waits, which then waits for ever. `blocked` is a handler asleep on a full
`processNotify` with `node.lock` held; `Free` guards every action that
takes the lock. `timedOut`, `asked` and `proposed` are history: nothing in the
program reads them.

Actions. One per handler, one per goroutine, and three for `timerThread`
(`TimerThreadWakes`, `TimerArms`, `TimerExpires` or `TimerGoesOn`).
`RequestViewChange` with `checkViewChangeThresholds` is `RequestMoves`,
`RequestJoins` or `RequestNoted`, by what the one counter says and whether a
timer runs. `initiateViewChange` stops before the last entry (helperutils.go:413),
`sendNewView` keeps of each request only its first load (451): `Reported`,
`FirstLoad`. `NewView` does not move its receiver, which is why a replica that
missed the requests stays behind.

The normal case under it takes larger steps than `NormalCase`: unlocked
reads and writes are one action, the executor needs no signal, the trackers'
goroutines decide in one step. What overlaps there is the matter of `NormalCase`;
here the entries only have to be what a view change can find.

Starts. A behaviour begins in the middle of the first view: `StartStates` are the
states in which some transactions have been proposed and accepted and the
prepares counted. `Malicious` replicas send no prepares and report nothing, as
in the code; `Killable` ones may be killed. `lastStableCheckpoint` is 0, as no
checkpoint ever becomes stable (see Checkpoint).

Time. `due` are the timers about to expire. Timers become due when everything
else has been done (`Settled`), and `early` times before that. `Prompt`
replicas run their goroutines before they handle another message.

The accepting branch of `AcceptNewViewPrePrepare` needs an old proposal with the
signature of the replica that leads the new view, hence N view changes, and is
not reached within the bounds; the theorems cover it.

### TransactionReader, Server, Session

A row is its set number, transaction and two lists, or a cell that does not
parse. `ReadTransactions` folds over the rows; `AsWritten` says what the result
should be by looking at the file as a whole: a set has as many transactions as it has
rows, each at the place of its row among them, and its lists are those of the last row that gives
any. The menu (`Session`) reads a file,
starts the next set if the numbers have no gap, revives, kills and corrupts
servers one call after the other, sends, and flushes. A call whose handler takes
`node.lock` can run into the client's 100 s timeout: the client goes on, the call
is carried out later (`late`). `Kill` takes no lock. If the process has ended,
`Dial` blocks and the menu with it, so the actions ask for `Up`.

A server keeps its switches, a log of transactions with `isCommitted`, `MaxWindows`
handlers that can each be between reading an entry and writing it back (`windows`), the
signals on `notifyCh`, and its executors: `Flush` adds one and wakes the old ones by closing
the channel they wait on. Agreement is abstracted: requests come in the order they were
sent, entries commit in any order. Two variables are history: `since` (the counter of
an executor at the last `Flush`) and `disturbed`. A server is disturbed when a `Flush` meets
an executor between its reading an entry and its taking the lock (its old entry then goes
into the new log and the new balances), and when a handler writes back a copy over an entry that
another one has committed with another transaction meanwhile (`Overtaken`), which takes a
`Flush` between the two.

## Runs

Four replicas, F = 1, in the runs about replicas. Replica 1 is leader and collector of view 1
as node 1 is in the program: `ServerMapping[1 % 7]` and `ServerMapping[1 % 2]`
there; `CollectorMod = 2` keeps the second so. The other three are
interchangeable in view 1 and permuted by symmetry, in the runs about one view
that check no liveness.

| run | bounds | shows |
|---|---|---|
| `normal_faults` | 1 transaction, 2 operator commands or races, 1 window | `IInv`, `QuorumInv`, `CommitQuorum`, `NoLostWakeup` |
| `normal_live` | 2 transactions, all commits, no faults | `Agreement`, `ImplementsOrderedExecution`; `EverybodyExecutes` under fairness |
| `checkpoint` | 1 transaction, checkpoint at every number, 1 command or race, fast path | `CheckpointTypeOK`, `CheckpointsBacked` |
| `client` | 2 client ids, 3 sets, up to 4 transactions, 1 retry | `TypeOK`, `LatenciesBacked`, `CompletedInOrder` |
| `view_change` | 3 starts, up to 3 numbers, 1 early timer, leader killed at any time, `processNotify` of 1, 2 views | `IInv`, `TimersBackViewChange`, `ReproposalsGenuine`, `AcceptedIsWatched` |
| `view_live` | malicious leader, alive or killed, 3 views, fair | `LeaderReplaced` |
| `session` | 2 servers, 3 files, 2 readings, 1 flush, 1 late call, 2 sequence numbers | `SessionTypeOK`, `ReadAsWritten`, `IdsNeverReused`, `ListedAreAlive`, `Conserved`, `BalancesFromLog` |
| `bug_process_ends` | 1 transaction, 1 early timer | violates `ProcessSurvives` |
| `bug_checkpoint_stall` | 1 transaction, checkpoint at every number | violates `EverybodyExecutes` |
| `bug_client_stuck` | as `client`, fair | violates `EverythingSent` |
| `bug_view_agreement` | 2 transactions, 1 early timer, no fault | violates `Agreement` |
| `bug_view_stalls` | malicious leader, one replica's goroutines late, fair | violates `LeaderReplaced` |

Bounds of the normal case. Windows of different replicas commute (they
touch only their own log and executor), so only one replica has windows at a
time (`CanOpen`). One sequence number is enough for what replicas do to one
entry, since numbers share nothing but the executor; two are
needed, and given in `normal_live`, for gaps, order and the leader's counter.
`MaxCommits = 2` is the threshold 2F: a commit read after it changes nothing but
the count. `checkpoint` leaves the commits unread (`MaxCommits = 0`): its
replicas execute by the fast path, and an execution sends the same checkpoint
whichever path led to it. Two overlapping windows at a replica and timers that
expire early are in no passing run but in `NormalCase`, and so covered by the theorems, which know
no bound: every invariant of the normal case and of checkpoints is proved.

Bounds of the view change. `Late` has three starts: from nothing, with a replica
down; two proposals whose prepares came too late, one still on its way; and one
proposal more than a lone backup's `processNotify` takes. `NotifyCap = 1` stands
for 100 signals: what matters is that the channel can be full. Two views are
enough for the invariants, which speak of leaving the first; `view_live` has a
third, so that a replica could go too far.

Bounds of the session. One of the two servers is followed in detail
(`Observed`), the other keeps its switches. The files have sets in order, sets
out of order with a gap and a header that comes back, and a row that does not
parse; two readings put any two one after the other. One flush makes two
executors, and one late call can meet every call of a later set. One handler at a time
has a copy in its hands; two are needed for one to overtake the other, and are left to the
theorem, which knows no bound.

All passing runs allow deadlock: with the transactions done, the system stops.

Fairness (`NormalCase!FairSpec`): clients send, and of each replica some handler,
goroutine or executor step is taken if one stays possible; Go schedules every
goroutine, gRPC delivers when both ends are up. It is weak fairness of the
replica as a whole, the least that suffices. Operators, races and early timers
need not happen. `ClientHandler!FairSpec` is weak fairness of each goroutine.
`ViewChange!FairSpec` is weaker still: as long as a message can arrive, a goroutine
run or time pass, one of these happens, which is no more than that the program runs. It suffices because
the bounds leave every behaviour finitely many such steps.

## What the counterexamples show

* **A process ends** (`bug_process_ends`). A slow PrePrepare: the certificate of
  the others commits an entry with no transaction.
* **A replica stops executing** (`bug_checkpoint_stall`). A checkpoint of a
  faster replica is handled across a commit and puts the uncommitted entry back.
* **The client stops** (`bug_client_stuck`). The last transaction of a set leaves
  a token that nobody takes; when a later one completes, `ServerResponse` waits
  to send a second one, holding the mutex that both takers need.
* **Two transactions under one number** (`bug_view_agreement`). No replica is faulty; timers
  expire once before the messages are through. The leader of the next view numbers from its
  own `globalSequence`, which is 0, and proposes number 1 anew, over its own entry. The
  certificate of the old proposal then reaches it, commits the new one, and it
  executes that where another replica has executed the old.
* **The view change stalls** (`bug_view_stalls`). A replica joins a view change by
  `go node.initiateViewChange()`, moves before that goroutine runs, and then asks for view 3. The
  first request for a view resets the one counter (node.go:322-326), so that the
  replicas that have not moved never count 2F + 1 for view 2.

The session has no counterexample run, but two things it takes care not to claim.
Servers that are malicious while a set is sent need not be those listed for it:
a malicious server that was not killed meanwhile stays malicious
(with test.csv, S7 of set 1 still is in set 2 beside S4 and S6, three of seven with F = 2). And
`BalancesFromLog` ends where the new log reaches the counter of an old executor
(`OldAreIdle`) or where the server is `disturbed`: from there on an entry is applied
twice, an old one once more, or one is in the balances and no longer in the log.

## Proofs

All with TLAPS, for every value of the constants under these assumptions:
`ReplicaAssumption`, `MappingAssumption`, `NodeAssumption` (F a natural number, N
a positive one, the collector's modulus at most N, `ServerMapping` total into
finitely many replicas), `SizeAssumption`, `TxAssumption` (nil is not a
transaction), `BoundAssumption`, `StartAssumption` (a start is one of
`StartStates`) and `ClientAssumption`; for the session, that servers are numbers (the
client loops over them), that a file is a sequence of rows, that a transaction names two
accounts and an integer amount, that there are finitely many accounts, and that an empty cell is
not a set number. In particular nothing is assumed
about F against N, nor about how many replicas are faulty.

`NormalCaseProofs`:

* `InvariantHolds` (Spec => []IInv). `Agreement` compares what two replicas have
  executed; that is not inductive, as an executor may be about to apply a copy
  of an entry it read long ago. `IInv` says that everything about a number follows
  the leader's proposal for it: messages on their way (`MessagesFollow`),
  trackers whose monitor may still act (`TrackersFollow`), log entries
  (`LogsFollow`), the copies in windows (`WindowsFollow`) and in the executor
  (`ExecutorFollows`), and what was executed (`ExecutedFollows`). A stale
  write-back may erase a transaction from a log, never from the leader's, which
  writes it before anybody can open a window on it, and never replaces it by
  another. `Grows` (proposals are only added) goes along with every step.
  `HandleKeeps`, `WorkKeeps`, `ExecuteKeeps` and `ProposalKeeps` take the actions one by one.
* `TypeCorrect` and `AgreementHolds` follow.
* `RefinementHolds`: with `order` the leader's proposals, `SendPreprepare` is
  `Choose`, `ExecApply` is `Apply`, and everything else stutters.

`QuorumProofs`: `CommitQuorumHolds` (Spec => []CommitQuorum). The code counts
prepares without looking at them, so the invariant `QuorumInv` has to say what
a count stands for. About each sequence number one of two things holds.

* `Collecting`: nothing has been collected for it (`Uncollected`: no certificate,
  window, commit or committed entry anywhere), a collector's count and the
  prepares on their way to it are together at most the backups that hold the transaction,
  and a PrePrepare still on its way is for a replica that does not hold it yet.
* `Quorate`: 2F+1 replicas hold it and none of them has a window open on a copy
  without it (`Keepers`).

`QuorumKept`: only a write-back of a copy without the transaction erases it
(`NextErases`), and keepers have no such window and open none, so `Quorate` is
never lost. `HandleCollects`: a PrePrepare makes one holder and at most one prepare, a
Prepare moves one from the network to the count. `WorkCollects`: the monitor that
collects has 2F prepares, each a backup, beside the leader, whose log has the
transaction since `SendPreprepare`; at that moment no window is open about the
number, so all holders are keepers (`LeaderCompletes`). Everything that is
`Uncollected` is created after it. Only the counting uses that `Node` is finite.

`ClientHandlerProofs`: `IInv` adds to the two properties that transactions not
yet started have no calls or replies (`Fresh`), that what is counted has arrived
(`CountedArrived`) and that recorded transactions are behind the current one
(`LatenciesBehind`). `RepliesBackLatencies` and `CompletionInOrder` follow, also
for tokens that end a transaction early.

`WakeupProofs`: `NoWakeupIsLost` (Spec => []NoLostWakeup). The executor sleeping on a
committed entry can only come about by a write-back that commits without
signalling, or restores a committed copy after the signal was used. `WakeInv` excludes both:
prepares are counted at the collector only (`OnlyCollectorCounts`), whose monitor
collects once (`CollectedOnce`), so a replica sees one certificate for a number
(`OneCertificate`), and a copy that is written back without a signal was
committed only if the entry still is (`CopiesCommitted`). `CommitsSignal` then takes the
steps that make an entry committed, `SignalsKept` and `IdleSteps` those that use a signal up.

`CheckpointProofs`: `CheckpointTypesHold` and `CheckpointsAreBacked`. The bound on
counted checkpoints is not inductive; that on counted ones and those on their way
(`CheckpointsSent`) is: `ApplySends` shows that the one step that sends to every
replica makes its sender one more executor of that number, and `RecieveKeeps`
that receiving moves one from the network to the count.

`ViewChangeProofs`: `IInvInductive`, and from it the three invariants.

* `TimersBehindEveryChange`. The code counts requests, not requesters. As long as
  nobody has moved (`Unmoved`) everybody has sent at most one request, all for the
  second view, so a counter and what is on its way to it are at most the number
  of those who have asked; they have asked because their timer expired, or because F+1
  had already. From the first move on (`Moved`) both sets are large enough, and they only
  grow. `UnmovedNext` is the proof that one turns into the other.
* `BackupsWatch`. In the first view a backup's timer is started and stopped only
  by its own thread (`FirstView`), so the thread never waits for a stopped one, and
  a number enters `processPool` together with a signal.
* `NewViewsCarryProposals`. Every signature in a log, a load or a message belongs to
  a proposal of its signer (`AllGenuine`), although a new leader may overwrite entries.

`ReaderProofs`: what the fold over the rows gives, for a file of any length. The library's
induction theorems take a predicate as a parameter, which the provers do not; the
induction is set up on sets instead. `LeastNatural` (from the
library's `NatLessThanWellFounded` and `WFMin`) gives `IntervalInduction` over the numbers with a
property, and that `FoldExists`: the recursive function a fold of the community modules
chooses exists. `RowByRow` then says that the fold goes through readings, one after each row.

* `FileAsWritten`. The invariant over the rows is `SoFar`: the reading is what the first i
  rows say. `RowAsWritten` adds a row, which `SetOfNext`, `TransactionsNext`,
  `RowsNext`, `LiveNext` and `ByzNext` do on the other side: with a row, the set it belongs to
  is the one its header gives or the one before, its place in the set the number of rows so far.
* `ReadingIdsApart`, over the same readings: `RowIdsApart` adds an id that is new.
* `ReadTransactionsType`.

`SessionProofs`. `NextServers`: a step of the session is at most one `ServerMove`, so that what
concerns a server is shown for its own steps.

* `SessionTyped` needs `HandsFull` (what an executor is about to apply has a transaction) and
  `ServingASet` (the set being served has a number a file can give).
* `SessionReadsAsWritten` follows from `FileAsWritten`.
* `SessionIdsOnce`: `IdsInv` says that ids below `globalTransactionID` are used up, that those
  of a reading differ (`IdsApart`), and that those of the sets still to come have not been
  sent; the second is why a set that is sent leaves the third true of the sets behind it.
* `ListedStayAlive`: `AliveInv` says of every server, in every state, that the client takes it for
  killed, or it is alive, or its Revive is still to come (`TakenForAlive`).
* `MoneyConserved`: `TotalOf` shows, by `FiniteInduction`, that the sum the fold computes does not
  depend on the order in which it takes the accounts; so a change of one balance changes the sum by as much
  (`TotalOfChanged`), and a transfer not at all (`TransferConserves`), also to oneself.
* `BalancesFollowLog`. `Sound` is the invariant of a server that is not disturbed: what executors
  hold is what the log has (`HeldFromLog`), what the newest one has passed is committed there
  (`PassedInLog`), an old one that holds or has applied something since the last `Flush` found the
  log committed where it came from (`OldHaveReached`, which is what `OldAreIdle` denies), and the balances
  follow. `SoundLog` takes the writes into the log, `SoundLook`, `SoundApply` and
  `SoundFlush` the executors. `BalancesNext` and `BalancesOfPrefix` say what the balances after an entry
  are and that later entries do not matter. The proof fails, and the
  property with it, if a late copy replaces a committed transaction: hence `Overtaken`.

Only model-checked: liveness (`EverybodyExecutes`, `LeaderReplaced`), which is out of the
prover's reach. Every invariant of a run is proved.

## Not modelled

* **Key exchange** (`node/netutils.go:68-115`, option 3 of the menu). A retry loop and map
  writes. Nothing orders it before the first transaction, so the only thing to say
  about the order would be false; all modules start after it and signatures are valid.
* **Part of `Flush`**: the transaction queue, `processNotify`, the timer, the trackers and
  the view. `Server` has the channel, the log and the executors, where old and new
  goroutines meet; the rest would need `NormalCase` and `ViewChange` with two generations of
  every goroutine.
* **The client's guess of the view** (client.go:203, 407): any reply overwrites it,
  and a view divisible by 7 makes the client call itself. `ClientHandler` takes a
  call to reach the leader or not.
* **Widths**: float32 carries the integers below 2^24 that the reader makes, and the balances
  of int32 do not wrap with such amounts; larger ones are left out.
* **Several view changes over one log.** Beyond the second view `ViewChange` is
  checked for liveness only; that an entry executed in one view is not proposed
  anew in the next is false already there.
* gRPC set-up, printing, read-only queries, the unused threshold signatures, the
  commented-out tests.
