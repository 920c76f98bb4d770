------------------------------- MODULE Server -------------------------------
(***************************************************************************)
(* A server as the operator drives it: its switches, its balances, and what *)
(* Flush does to a program that is running.  Flush replaces the log, the    *)
(* balances and the channels and starts the goroutines again, but the old   *)
(* ones go on: an old executionThread keeps its seqCounter, is woken by the *)
(* closed channel, and then waits on the new one next to the new executor.  *)
(* Agreement is NormalCase's matter; here entries are accepted and          *)
(* committed in any order, by handlers that copy them without the lock.     *)
(***************************************************************************)
EXTENDS TransactionReader, Functions

CONSTANTS
  Account,    \* clients, each with an account
  NoTx,       \* a nil transaction pointer
  Observed,   \* bound: the servers whose logs are followed
  MaxSeq,     \* bound: sequence numbers of a log
  MaxWindows  \* bound: handlers that have read an entry and not written it back

ASSUME PayloadAssumption ==
  Payload \subseteq [sender : Account, receiver : Account, amount : Int]
ASSUME AccountAssumption == IsFiniteSet(Account)
ASSUME LogAssumption == MaxSeq \in Nat /\ MaxWindows \in Nat

SeqNums == 1 .. MaxSeq
StartBalance == 10

VARIABLES
  isActive, isbyzantine,  \* the operator's switches
  crashed,                \* has the process ended?
  logs, windows,          \* the log, and the copies of entries about to commit
  notifyCh,               \* signals in notifyCh, or blocked in sending
  executors,              \* the executionThreads, oldest first
  nodeBalances,
  disturbed               \* did a Flush hit an executor between its reading
                          \* an entry and its taking the lock, or a late copy
                          \* replace a committed transaction by another?

switchVars == <<isActive, isbyzantine>>
logVars == <<logs, windows>>
execVars == <<notifyCh, executors, nodeBalances>>
serverVars == <<switchVars, crashed, logVars, execVars, disturbed>>

Entry == [tx : Request \cup {NoTx}, isCommitted : BOOLEAN]
NoEntry == [tx |-> NoTx, isCommitted |-> FALSE]
Window == [handler : 1 .. MaxWindows, seq : SeqNums, entry : Entry]
\* since: the counter at the last Flush.
Executor == [seqCounter : Nat \ {0}, since : Nat \ {0},
             pc : {"idle", "scan", "apply"}, entry : Entry]

EmptyLog == [s \in SeqNums |-> NoEntry]
StartBalances == [a \in Account |-> StartBalance]
\* A mutant: sequence numbers are taken to start at 0.
NewExecutorAtZero ==
  [seqCounter |-> 0, since |-> 1, pc |-> "idle", entry |-> NoEntry]

NewExecutor == [seqCounter |-> 1, since |-> 1, pc |-> "idle", entry |-> NoEntry]

ServerTypeOK ==
  /\ isActive \in [Node -> BOOLEAN] /\ isbyzantine \in [Node -> BOOLEAN]
  /\ crashed \in [Node -> BOOLEAN] /\ disturbed \in [Node -> BOOLEAN]
  /\ logs \in [Node -> [SeqNums -> Entry]]
  /\ windows \in [Node -> SUBSET Window]
  /\ notifyCh \in [Node -> Nat]
  /\ executors \in [Node -> Seq(Executor)]
  /\ nodeBalances \in [Node -> [Account -> Int]]

ServerInit ==
  /\ isActive = [n \in Node |-> TRUE]
  /\ isbyzantine = [n \in Node |-> FALSE]
  /\ crashed = [n \in Node |-> FALSE]
  /\ logs = [n \in Node |-> EmptyLog]
  /\ windows = [n \in Node |-> {}]
  /\ notifyCh = [n \in Node |-> 0]
  /\ executors = [n \in Node |-> <<NewExecutor>>]
  /\ nodeBalances = [n \in Node |-> StartBalances]
  /\ disturbed = [n \in Node |-> FALSE]

Up(n) == ~crashed[n]
Honest(n) == isActive[n] /\ ~isbyzantine[n]
Crash(n) == crashed' = [crashed EXCEPT ![n] = TRUE]

-----------------------------------------------------------------------------
(* The operator's calls.  Kill takes no lock; the others wait for it.       *)

Kill(n) ==
  /\ Up(n)
  /\ isActive' = [isActive EXCEPT ![n] = FALSE]
  /\ UNCHANGED <<isbyzantine, crashed, logVars, execVars, disturbed>>

Revive(n) ==
  /\ Up(n)
  /\ isActive' = [isActive EXCEPT ![n] = TRUE]
  /\ isbyzantine' = [isbyzantine EXCEPT ![n] = FALSE]
  /\ UNCHANGED <<crashed, logVars, execVars, disturbed>>

BecomeMalicious(n) ==
  /\ Up(n)
  /\ isbyzantine' = [isbyzantine EXCEPT ![n] = TRUE]
  /\ UNCHANGED <<isActive, crashed, logVars, execVars, disturbed>>

\* A mutant: all executors share one counter, which starts again.
FlushedShared(executor) ==
  [executor EXCEPT !.seqCounter = 1,
                   !.since = executor.seqCounter,
                   !.pc = IF @ = "idle" THEN "scan" ELSE @]

\* What closing notifyCh does to a goroutine that waits on it.
Flushed(executor) ==
  [executor EXCEPT !.since = executor.seqCounter,
                   !.pc = IF @ = "idle" THEN "scan" ELSE @]

Applying(n) == \E i \in DOMAIN executors[n] : executors[n][i].pc = "apply"

\* notifyCh holds one signal: a goroutine that is blocked in sending another
\* when the channel is closed panics.
Flush(n) ==
  /\ Up(n)
  /\ IF notifyCh[n] > 1
     THEN Crash(n) /\ UNCHANGED <<switchVars, logVars, execVars, disturbed>>
     ELSE /\ isActive' = [isActive EXCEPT ![n] = TRUE]
          /\ isbyzantine' = [isbyzantine EXCEPT ![n] = FALSE]
          /\ logs' = [logs EXCEPT ![n] = EmptyLog]
          /\ notifyCh' = [notifyCh EXCEPT ![n] = 0]
          /\ executors' = [executors EXCEPT ![n] =
               Append([i \in DOMAIN @ |-> Flushed(@[i])], NewExecutor)]
          /\ nodeBalances' = [nodeBalances EXCEPT ![n] = StartBalances]
          /\ disturbed' = [disturbed EXCEPT ![n] = @ \/ Applying(n)]
          /\ UNCHANGED <<crashed, windows>>

-----------------------------------------------------------------------------
(* The log.                                                                 *)

\* A request that a client has sent arrives with the sequence number the
\* leader gave it.
PrePrepare(n, r) ==
  LET free == {s \in SeqNums : logs[n][s].tx = NoTx} IN
  /\ Up(n) /\ isActive[n] /\ n \in Observed
  /\ \A s \in SeqNums : logs[n][s].tx # r
  /\ free # {}
  /\ logs' = [logs EXCEPT ![n][Min(free)].tx = r]
  /\ UNCHANGED <<switchVars, crashed, windows, execVars, disturbed>>

IdleHandlers(n) == (1 .. MaxWindows) \ {w.handler : w \in windows[n]}

\* CollectedPrepare reads the entry.  After a Flush it may be about a
\* sequence number the new log has nothing about.
CollectedPrepare(n, s) ==
  /\ Up(n) /\ Honest(n) /\ IdleHandlers(n) # {}
  /\ ~logs[n][s].isCommitted
  /\ \/ logs[n][s].tx # NoTx
     \/ Len(executors[n]) > 1 /\ n \in Observed
  /\ windows' = [windows EXCEPT ![n] = @ \cup
       {[handler |-> Min(IdleHandlers(n)), seq |-> s, entry |-> logs[n][s]]}]
  /\ UNCHANGED <<switchVars, crashed, logs, execVars, disturbed>>

\* Another handler has committed the entry with another transaction.
Overtaken(n, w) ==
  logs[n][w.seq].isCommitted /\ logs[n][w.seq].tx # w.entry.tx

\* ... and writes it back, committed, and signals the executors.
WriteBack(n, w) ==
  /\ Up(n)
  /\ windows' = [windows EXCEPT ![n] = @ \ {w}]
  /\ logs' = [logs EXCEPT ![n][w.seq] = [w.entry EXCEPT !.isCommitted = TRUE]]
  /\ notifyCh' = [notifyCh EXCEPT ![n] = @ + 1]
  /\ disturbed' = [disturbed EXCEPT ![n] = @ \/ Overtaken(n, w)]
  /\ UNCHANGED <<switchVars, crashed, executors, nodeBalances>>

-----------------------------------------------------------------------------
(* The executors.                                                           *)

Goto(n, i, pc) == executors' = [executors EXCEPT ![n][i].pc = pc]
NextEntry(n, i) ==
  LET s == executors[n][i].seqCounter IN
  IF s \in SeqNums THEN logs[n][s] ELSE NoEntry
Committed(n, i) == NextEntry(n, i).isCommitted

ExecWake(n, i) ==
  /\ Up(n) /\ executors[n][i].pc = "idle" /\ notifyCh[n] > 0
  /\ notifyCh' = [notifyCh EXCEPT ![n] = @ - 1]
  /\ Goto(n, i, "scan")
  /\ UNCHANGED <<switchVars, crashed, logVars, nodeBalances, disturbed>>

ExecSleep(n, i) ==
  /\ Up(n) /\ executors[n][i].pc = "scan" /\ ~Committed(n, i)
  /\ Goto(n, i, "idle")
  /\ UNCHANGED <<switchVars, crashed, logVars, notifyCh, nodeBalances, disturbed>>

ExecRead(n, i) ==
  /\ Up(n) /\ executors[n][i].pc = "scan" /\ Committed(n, i)
  /\ Honest(n) /\ NextEntry(n, i).tx # NoTx
  /\ executors' = [executors EXCEPT ![n][i].pc = "apply",
                                    ![n][i].entry = NextEntry(n, i)]
  /\ UNCHANGED <<switchVars, crashed, logVars, notifyCh, nodeBalances, disturbed>>

\* A committed entry without a transaction, or a mutex it has not locked.
ExecCrash(n, i) ==
  /\ Up(n) /\ executors[n][i].pc = "scan" /\ Committed(n, i)
  /\ ~Honest(n) \/ NextEntry(n, i).tx = NoTx
  /\ Crash(n)
  /\ UNCHANGED <<switchVars, logVars, execVars, disturbed>>

\* A mutant: both balances are read before either is written.
TransferredAtOnce(balances, t) ==
  [balances EXCEPT ![t.sender] = balances[t.sender] - t.amount,
                   ![t.receiver] = balances[t.receiver] + t.amount]

\* The sender may have less than the amount, or be the receiver.
Transferred(balances, t) ==
  LET debited == [balances EXCEPT ![t.sender] = @ - t.amount] IN
  [debited EXCEPT ![t.receiver] = @ + t.amount]

\* With the lock: the balances, and the copy of the entry into the log.
ExecApply(n, i) ==
  LET e == executors[n][i] IN
  /\ Up(n) /\ e.pc = "apply"
  /\ nodeBalances' = [nodeBalances EXCEPT ![n] = Transferred(@, e.entry.tx.tx)]
  /\ logs' = [logs EXCEPT ![n][e.seqCounter] = e.entry]
  /\ executors' = [executors EXCEPT
       ![n][i] = [e EXCEPT !.seqCounter = @ + 1, !.pc = "scan",
                           !.entry = NoEntry]]
  /\ UNCHANGED <<switchVars, crashed, windows, notifyCh, disturbed>>

Execute(n, i) == \/ ExecWake(n, i) \/ ExecSleep(n, i) \/ ExecRead(n, i)
                 \/ ExecCrash(n, i) \/ ExecApply(n, i)

\* What a server does by itself.
ServerStep(n) ==
  \/ \E s \in SeqNums : CollectedPrepare(n, s)
  \/ \E w \in windows[n] : WriteBack(n, w)
  \/ \E i \in DOMAIN executors[n] : Execute(n, i)

-----------------------------------------------------------------------------
\* Money is neither made nor lost, although several executors and Flush write
\* the balances, overdrafts are not refused and a sender may pay himself.
Conserved ==
  \A n \in Node :
    FoldFunction(+, 0, nodeBalances[n]) = StartBalance * Cardinality(Account)

\* The balances after the first s transactions of a log.
BalancesAfter(log, s) ==
  FoldLeft(LAMBDA b, entry : Transferred(b, entry.tx.tx), StartBalances,
           SubSeq(log, 1, s))

\* The log has not reached the counter that an old executor came with.
OldAreIdle(n) ==
  \A i \in 1 .. Len(executors[n]) - 1 : \A s \in SeqNums :
    logs[n][s].isCommitted => s < executors[n][i].since

\* A server whose Flush met no executor with an entry in its hands starts
\* anew: until the new log reaches the counter of an old executor, its balances
\* are those of the transactions that the new executor has passed, each applied
\* once, however the old executors take its signals, and whatever handlers of
\* the old log still write into the new one.
BalancesFromLog ==
  \A n \in Node :
    Up(n) /\ ~disturbed[n] /\ OldAreIdle(n) =>
      nodeBalances[n] =
        BalancesAfter(logs[n], executors[n][Len(executors[n])].seqCounter - 1)
=============================================================================
