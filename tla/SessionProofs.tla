---------------------------- MODULE SessionProofs ----------------------------
(***************************************************************************)
(* The invariants of a session of the operator, for any servers, files,    *)
(* accounts and bounds.                                                    *)
(***************************************************************************)
EXTENDS Session, ReaderProofs

-----------------------------------------------------------------------------
(* The parts of the inductive invariants.                                   *)

\* The set that is served has a number that a file can give.
ServingASet ==
  pc \in {"alive", "malicious", "sending"} => currentSetNumber \in SetNums

\* A server that the client does not take for killed is alive, or its Revive
\* is still to come.
TakenForAlive ==
  \A n \in Node \ killedServers :
    isActive[n] \/ [to |-> n, kind |-> "Revive"] \in late

\* The servers listed for a set are revived before anything else.
ListedRevived ==
  pc \in {"malicious", "sending"} => AliveServers \cap killedServers = {}

\* An executor that is about to apply an entry has one with a transaction.
HandsFull ==
  \A n \in Node : \A i \in DOMAIN executors[n] :
    executors[n][i].pc = "apply" => executors[n][i].entry.tx \in Request

TypeInv == SessionTypeOK /\ ServingASet /\ HandsFull

AliveInv == TakenForAlive /\ ListedRevived

\* Ids below globalTransactionID are used up, those of the file that was read
\* among them; those of the sets not yet sent have not been sent.
IdsInv ==
  /\ read.nextId = globalTransactionID
  /\ IdsApart(read, firstId)
  /\ \A i \in DOMAIN sent : sent[i].id < globalTransactionID
  /\ \A k \in SetNums : currentSetNumber <= k =>
       \A m \in DOMAIN read.sets[k], i \in DOMAIN sent :
         read.sets[k][m].id # sent[i].id
  /\ IdsNeverReused

\* An entry of a log that an executor may apply.
Executable(log, s) ==
  s \in SeqNums /\ log[s].isCommitted /\ log[s].tx # NoTx

NewestOf(ex) == ex[Len(ex)]

\* An executor holds the entry that the log still has.
HeldFromLog(ex, log) ==
  \A i \in DOMAIN ex : ex[i].pc = "apply" =>
    Executable(log, ex[i].seqCounter) /\ ex[i].entry = log[ex[i].seqCounter]

\* What the newest executor has passed is in the log.
PassedInLog(ex, log) ==
  \A s \in 1 .. NewestOf(ex).seqCounter - 1 : Executable(log, s)

\* An old executor that has done something since the last Flush has found a
\* committed entry where it came from.
OldHaveReached(ex, log) ==
  \A i \in 1 .. Len(ex) - 1 :
    /\ ex[i].since <= ex[i].seqCounter
    /\ ex[i].pc = "apply" \/ ex[i].since < ex[i].seqCounter =>
         ex[i].since \in SeqNums /\ log[ex[i].since].isCommitted

\* The old executors have nothing to do yet.
OldWait(ex, log) ==
  \A i \in 1 .. Len(ex) - 1 : \A s \in SeqNums :
    log[s].isCommitted => s < ex[i].since

\* The balances are those of the log up to the newest executor.
BalancesFollow(ex, log, balances) ==
  OldWait(ex, log) =>
    balances = BalancesAfter(log, NewestOf(ex).seqCounter - 1)

Sound(ex, log, balances) ==
  /\ HeldFromLog(ex, log) /\ PassedInLog(ex, log) /\ OldHaveReached(ex, log)
  /\ BalancesFollow(ex, log, balances)

\* A server is sound until it is disturbed.
LogInv ==
  \A n \in Node :
    executors[n] # <<>> /\ (disturbed[n] \/ Sound(executors[n], logs[n], nodeBalances[n]))

-----------------------------------------------------------------------------
(* The type of a server's state.                                            *)

\* The server that the client calls next is one of the list.
LEMMA FirstOfServers ==
  ASSUME NEW S \in SUBSET Node, S # {}
  PROVE  First(S) \in S
<1>1. S \in SUBSET Nat
  BY ServersAssumption
<1>. QED  BY <1>1, MinOfNats DEF First

\* The parts of ServerTypeOK about one server.
LEMMA ServerParts ==
  ASSUME ServerTypeOK, NEW n \in Node
  PROVE  /\ isActive[n] \in BOOLEAN /\ isbyzantine[n] \in BOOLEAN
         /\ logs[n] \in [SeqNums -> Entry] /\ windows[n] \in SUBSET Window
         /\ notifyCh[n] \in Nat /\ executors[n] \in Seq(Executor)
         /\ Len(executors[n]) \in Nat /\ DOMAIN executors[n] = 1 .. Len(executors[n])
         /\ nodeBalances[n] \in [Account -> Int] /\ disturbed[n] \in BOOLEAN
         /\ \A i \in DOMAIN executors[n] : executors[n][i] \in Executor
<1>1. executors[n] \in Seq(Executor)
  BY DEF ServerTypeOK
<1>2. \A i \in DOMAIN executors[n] : executors[n][i] \in Executor
  BY <1>1, ElementOfSeq, LenProperties
<1>. QED  BY <1>1, <1>2, LenProperties DEF ServerTypeOK

\* The fields of an executor and of an entry have their types.
LEMMA ExecutorFields ==
  ASSUME NEW e \in Executor
  PROVE  /\ e.seqCounter \in Nat \ {0} /\ e.since \in Nat \ {0}
         /\ e.pc \in {"idle", "scan", "apply"} /\ e.entry \in Entry
         /\ e = [seqCounter |-> e.seqCounter, since |-> e.since, pc |-> e.pc,
                 entry |-> e.entry]
BY DEF Executor

\* Nothing is an entry.
LEMMA NoEntryType == NoEntry \in Entry /\ EmptyLog \in [SeqNums -> Entry]
BY DEF NoEntry, Entry, EmptyLog

\* A new executor is one.
LEMMA NewExecutorType == NewExecutor \in Executor
BY NoEntryType DEF NewExecutor, Executor

\* Closing the channel wakes an executor and leaves it its counter.
LEMMA FlushedType ==
  ASSUME NEW e \in Executor
  PROVE  /\ Flushed(e) \in Executor
         /\ Flushed(e).seqCounter = e.seqCounter
         /\ Flushed(e).since = e.seqCounter
         /\ Flushed(e).pc = (IF e.pc = "idle" THEN "scan" ELSE e.pc)
         /\ Flushed(e).entry = e.entry
<1>1. Flushed(e) = [seqCounter |-> e.seqCounter, since |-> e.seqCounter,
                    pc |-> IF e.pc = "idle" THEN "scan" ELSE e.pc,
                    entry |-> e.entry]
  BY ExecutorFields DEF Flushed, Executor
<1>. QED  BY <1>1, ExecutorFields DEF Executor

\* The executors after a Flush: the old ones, woken, and a new one.
LEMMA FlushedExecutors ==
  ASSUME NEW ex \in Seq(Executor), NEW all,
         all = Append([i \in DOMAIN ex |-> Flushed(ex[i])], NewExecutor)
  PROVE  /\ all \in Seq(Executor) /\ Len(all) = Len(ex) + 1
         /\ \A i \in 1 .. Len(ex) : all[i] = Flushed(ex[i])
         /\ all[Len(ex) + 1] = NewExecutor
<1>. DEFINE m == Len(ex)
            old == [i \in DOMAIN ex |-> Flushed(ex[i])]
<1>1. m \in Nat /\ DOMAIN ex = 1 .. m /\ \A i \in 1 .. m : ex[i] \in Executor
  BY LenProperties, ElementOfSeq
<1>2. old \in [1 .. m -> Executor]
  BY <1>1, FlushedType
<1>3. old \in Seq(Executor)
  BY <1>1, <1>2, SeqDef
<1>4. Len(old) = m
  BY <1>1, <1>2
<1>5. \A i \in 1 .. m : old[i] = Flushed(ex[i])
  BY <1>1
<1>. HIDE DEF old
<1>6. all = Append(old, NewExecutor)
  BY DEF old
<1>. QED  BY <1>3, <1>4, <1>5, <1>6, NewExecutorType, AppendProperties

\* A transfer changes the balances of two accounts.
LEMMA TransferredType ==
  ASSUME NEW b \in [Account -> Int], NEW t \in Payload
  PROVE  Transferred(b, t) \in [Account -> Int]
<1>1. t.sender \in Account /\ t.receiver \in Account /\ t.amount \in Int
  BY PayloadAssumption
<1>2. [b EXCEPT ![t.sender] = @ - t.amount] \in [Account -> Int]
  BY <1>1
<1>. QED  BY <1>1, <1>2 DEF Transferred

\* One executor of a server changes.
LEMMA ExecutorChanged ==
  ASSUME ServerTypeOK, NEW n \in Node, NEW i \in DOMAIN executors[n],
         NEW e \in Executor, executors' = [executors EXCEPT ![n][i] = e]
  PROVE  /\ executors' \in [Node -> Seq(Executor)]
         /\ Len(executors'[n]) = Len(executors[n])
         /\ executors'[n][i] = e
         /\ \A j \in DOMAIN executors[n] : j # i => executors'[n][j] = executors[n][j]
         /\ \A m \in Node : m # n => executors'[m] = executors[m]
<1>1. executors \in [Node -> Seq(Executor)] /\ executors[n] \in Seq(Executor)
      /\ DOMAIN executors[n] = 1 .. Len(executors[n])
  BY ServerParts DEF ServerTypeOK
<1>2. [executors[n] EXCEPT ![i] = e] \in Seq(Executor)
  BY <1>1, ExceptSeq
<1>3. executors' = [executors EXCEPT ![n] = [executors[n] EXCEPT ![i] = e]]
  OBVIOUS
<1>. QED  BY <1>1, <1>2, <1>3, ExceptSeq

\* The operator's switches keep the types.
LEMMA SwitchTypes ==
  ASSUME ServerTypeOK, NEW n \in Node, Kill(n) \/ Revive(n) \/ BecomeMalicious(n)
  PROVE  ServerTypeOK'
<1>. USE DEF ServerTypeOK, logVars, execVars, serverVars
<1>1. CASE Kill(n)
  BY <1>1 DEF Kill
<1>2. CASE Revive(n)
  BY <1>2 DEF Revive
<1>3. CASE BecomeMalicious(n)
  BY <1>3 DEF BecomeMalicious
<1>. QED  BY <1>1, <1>2, <1>3

\* Flush keeps the types.
LEMMA FlushTypes ==
  ASSUME ServerTypeOK, NEW n \in Node, Flush(n)
  PROVE  ServerTypeOK'
<1>1. CASE notifyCh[n] > 1
  BY <1>1 DEF Flush, Crash, ServerTypeOK, switchVars, logVars, execVars
<1>2. CASE ~(notifyCh[n] > 1)
  <2>. DEFINE all == Append([i \in DOMAIN executors[n] |-> Flushed(executors[n][i])],
                            NewExecutor)
  <2>1. all \in Seq(Executor)
    BY ServerParts, FlushedExecutors
  <2>2. executors' = [executors EXCEPT ![n] = all]
    BY <1>2 DEF Flush, ServerTypeOK
  <2>. HIDE DEF all
  <2>3. executors' \in [Node -> Seq(Executor)]
    BY <2>1, <2>2 DEF ServerTypeOK
  <2>4. StartBalances \in [Account -> Int]
    BY DEF StartBalances, StartBalance
  <2>5. (disturbed[n] \/ Applying(n)) \in BOOLEAN
    OBVIOUS
  <2>6. /\ logs' \in [Node -> [SeqNums -> Entry]]
        /\ nodeBalances' \in [Node -> [Account -> Int]]
        /\ notifyCh' \in [Node -> Nat]
        /\ isActive' \in [Node -> BOOLEAN] /\ isbyzantine' \in [Node -> BOOLEAN]
    <3>1. /\ isActive' = [isActive EXCEPT ![n] = TRUE]
          /\ isbyzantine' = [isbyzantine EXCEPT ![n] = FALSE]
          /\ logs' = [logs EXCEPT ![n] = EmptyLog]
          /\ notifyCh' = [notifyCh EXCEPT ![n] = 0]
          /\ nodeBalances' = [nodeBalances EXCEPT ![n] = StartBalances]
      BY <1>2 DEF Flush
    <3>2. EmptyLog \in [SeqNums -> Entry]
      BY NoEntryType
    <3>. QED  BY <2>4, <3>1, <3>2 DEF ServerTypeOK
  <2>7. /\ disturbed' = [disturbed EXCEPT ![n] = disturbed[n] \/ Applying(n)]
        /\ UNCHANGED <<crashed, windows>>
    BY <1>2 DEF Flush
  <2>8. disturbed' \in [Node -> BOOLEAN]
    BY <2>7, <2>5 DEF ServerTypeOK
  <2>. QED  BY <2>3, <2>6, <2>7, <2>8 DEF ServerTypeOK
<1>. QED  BY <1>1, <1>2

\* Accepting a transaction keeps the types.
LEMMA PrePrepareTypes ==
  ASSUME ServerTypeOK, NEW n \in Node, NEW r \in Request, PrePrepare(n, r)
  PROVE  ServerTypeOK'
<1>. DEFINE free == {s \in SeqNums : logs[n][s].tx = NoTx}
<1>1. free \in SUBSET Nat /\ free # {}
  BY DEF PrePrepare, SeqNums
<1>2. PICK s \in free : s = Min(free)
  <2>. HIDE DEF free
  <2>. QED  BY <1>1, MinOfNats
<1>3. PICK e \in Entry : e = logs[n][s]
  BY DEF ServerTypeOK
<1>4. [e EXCEPT !.tx = r] \in Entry
  BY DEF Entry
<1>5. logs' = [logs EXCEPT ![n][s].tx = r]
  <2>1. logs' = [logs EXCEPT ![n][Min(free)].tx = r]
    BY DEF PrePrepare
  <2>. HIDE DEF free
  <2>. QED  BY <1>2, <2>1
<1>6. logs' \in [Node -> [SeqNums -> Entry]]
  BY <1>3, <1>4, <1>5 DEF ServerTypeOK
<1>. QED  BY <1>6 DEF PrePrepare, ServerTypeOK, switchVars, execVars

\* A handler that reads an entry keeps the types.
LEMMA CollectedPrepareTypes ==
  ASSUME ServerTypeOK, NEW n \in Node, NEW s \in SeqNums, CollectedPrepare(n, s)
  PROVE  ServerTypeOK'
<1>1. IdleHandlers(n) \in SUBSET Nat /\ IdleHandlers(n) # {}
  BY DEF CollectedPrepare, IdleHandlers
<1>2. PICK h \in 1 .. MaxWindows : h = Min(IdleHandlers(n))
  <2>1. Min(IdleHandlers(n)) \in IdleHandlers(n)
    BY <1>1, MinOfNats
  <2>. QED  BY <2>1 DEF IdleHandlers
<1>3. [handler |-> h, seq |-> s, entry |-> logs[n][s]] \in Window
  BY ServerParts DEF Window
<1>4. windows' = [windows EXCEPT ![n] = windows[n] \cup
                    {[handler |-> h, seq |-> s, entry |-> logs[n][s]]}]
  BY <1>2 DEF CollectedPrepare
<1>5. windows' \in [Node -> SUBSET Window]
  BY <1>3, <1>4 DEF ServerTypeOK
<1>. QED  BY <1>5 DEF CollectedPrepare, ServerTypeOK, switchVars, execVars

\* A handler that writes its copy back keeps the types.
LEMMA WriteBackTypes ==
  ASSUME ServerTypeOK, NEW n \in Node, NEW w \in windows[n], WriteBack(n, w)
  PROVE  ServerTypeOK'
<1>1. w \in Window
  BY ServerParts
<1>2. w.seq \in SeqNums /\ [w.entry EXCEPT !.isCommitted = TRUE] \in Entry
  BY <1>1 DEF Window, Entry
<1>3. logs' \in [Node -> [SeqNums -> Entry]]
  BY <1>2 DEF WriteBack, ServerTypeOK
<1>4. disturbed' \in [Node -> BOOLEAN]
  <2>1. (disturbed[n] \/ Overtaken(n, w)) \in BOOLEAN
    OBVIOUS
  <2>2. disturbed' = [disturbed EXCEPT ![n] = disturbed[n] \/ Overtaken(n, w)]
    BY DEF WriteBack
  <2>. QED  BY <2>1, <2>2 DEF ServerTypeOK
<1>. QED  BY <1>3, <1>4 DEF WriteBack, ServerTypeOK, switchVars

\* The entry an executor comes to is one.
LEMMA NextEntryType ==
  ASSUME ServerTypeOK, NEW n \in Node, NEW i \in DOMAIN executors[n]
  PROVE  /\ NextEntry(n, i) \in Entry
         /\ Committed(n, i) =>
              /\ executors[n][i].seqCounter \in SeqNums
              /\ NextEntry(n, i) = logs[n][executors[n][i].seqCounter]
BY NoEntryType, ServerParts DEF NextEntry, Committed, NoEntry

\* An executor with other fields.
LEMMA ExecutorWith ==
  ASSUME NEW e \in Executor, NEW x \in Entry, NEW y \in Nat \ {0}
  PROVE  /\ [e EXCEPT !.pc = "apply", !.entry = x] =
              [seqCounter |-> e.seqCounter, since |-> e.since, pc |-> "apply",
               entry |-> x]
         /\ [e EXCEPT !.seqCounter = y, !.pc = "scan", !.entry = x] =
              [seqCounter |-> y, since |-> e.since, pc |-> "scan", entry |-> x]
<1>1. [e EXCEPT !.pc = "apply", !.entry = x] =
        [seqCounter |-> e.seqCounter, since |-> e.since, pc |-> "apply",
         entry |-> x]
  BY ExecutorFields DEF Executor
<1>2. [e EXCEPT !.seqCounter = y, !.pc = "scan", !.entry = x] =
        [seqCounter |-> y, since |-> e.since, pc |-> "scan", entry |-> x]
  BY ExecutorFields DEF Executor
<1>. QED  BY <1>1, <1>2

\* An executor that moves on keeps the types.
LEMMA GotoTypes ==
  ASSUME ServerTypeOK, NEW n \in Node, NEW i \in DOMAIN executors[n],
         NEW p \in {"idle", "scan", "apply"}, Goto(n, i, p)
  PROVE  /\ [executors[n][i] EXCEPT !.pc = p] \in Executor
         /\ executors' = [executors EXCEPT ![n][i] = [executors[n][i] EXCEPT !.pc = p]]
         /\ executors' \in [Node -> Seq(Executor)]
<1>1. [executors[n][i] EXCEPT !.pc = p] \in Executor
  <2>1. PICK e \in Executor : e = executors[n][i]
    BY ServerParts
  <2>2. [e EXCEPT !.pc = p] \in Executor
    BY DEF Executor
  <2>. QED  BY <2>1, <2>2
<1>2. executors' = [executors EXCEPT ![n][i] = [executors[n][i] EXCEPT !.pc = p]]
  BY DEF Goto
<1>. QED  BY <1>1, <1>2, ExecutorChanged

\* An executor that takes the next entry into its hands.
LEMMA ReadTypes ==
  ASSUME ServerTypeOK, NEW n \in Node, NEW i \in DOMAIN executors[n], ExecRead(n, i)
  PROVE  \E e \in Executor :
           /\ e = [seqCounter |-> executors[n][i].seqCounter,
                   since |-> executors[n][i].since, pc |-> "apply",
                   entry |-> NextEntry(n, i)]
           /\ executors' = [executors EXCEPT ![n][i] = e]
           /\ executors' \in [Node -> Seq(Executor)]
<1>1. PICK old \in Executor : old = executors[n][i]
  BY ServerParts
<1>. DEFINE e == [seqCounter |-> old.seqCounter, since |-> old.since,
                  pc |-> "apply", entry |-> NextEntry(n, i)]
<1>2. e \in Executor
  BY NextEntryType, ExecutorFields DEF Executor
<1>3. [old EXCEPT !.pc = "apply", !.entry = NextEntry(n, i)] = e
  <2>1. PICK x \in Entry : x = NextEntry(n, i)
    BY NextEntryType
  <2>2. [old EXCEPT !.pc = "apply", !.entry = x] =
          [seqCounter |-> old.seqCounter, since |-> old.since, pc |-> "apply",
           entry |-> x]
    BY ExecutorFields DEF Executor
  <2>. QED  BY <2>1, <2>2
<1>4. executors' = [executors EXCEPT ![n][i] = e]
  <2>1. executors' = [executors EXCEPT ![n][i].pc = "apply",
                                       ![n][i].entry = NextEntry(n, i)]
    BY DEF ExecRead
  <2>2. executors' = [executors EXCEPT ![n][i] =
                        [executors[n][i] EXCEPT !.pc = "apply",
                                                !.entry = NextEntry(n, i)]]
    BY <2>1, ServerParts DEF ServerTypeOK
  <2>. QED  BY <1>1, <1>3, <2>2
<1>. HIDE DEF e
<1>5. executors' \in [Node -> Seq(Executor)]
  BY <1>2, <1>4, ExecutorChanged
<1>. QED  BY <1>1, <1>2, <1>4, <1>5 DEF e

\* An executor that has applied its entry goes on with the next number.
LEMMA ApplyTypes ==
  ASSUME ServerTypeOK, NEW n \in Node, NEW i \in DOMAIN executors[n], ExecApply(n, i)
  PROVE  \E e \in Executor :
           /\ e = [seqCounter |-> executors[n][i].seqCounter + 1,
                   since |-> executors[n][i].since, pc |-> "scan",
                   entry |-> NoEntry]
           /\ executors' = [executors EXCEPT ![n][i] = e]
           /\ executors' \in [Node -> Seq(Executor)]
<1>1. PICK old \in Executor : old = executors[n][i]
  BY ServerParts
<1>. DEFINE e == [seqCounter |-> old.seqCounter + 1, since |-> old.since,
                  pc |-> "scan", entry |-> NoEntry]
<1>2. e \in Executor
  BY NoEntryType, ExecutorFields DEF Executor
<1>3. PICK y \in Nat \ {0} : y = old.seqCounter + 1
  BY ExecutorFields
<1>4. executors' = [executors EXCEPT ![n][i] = e]
  <2>1. executors' = [executors EXCEPT ![n][i] =
                        [old EXCEPT !.seqCounter = y, !.pc = "scan",
                                    !.entry = NoEntry]]
    BY <1>1, <1>3 DEF ExecApply
  <2>2. [old EXCEPT !.seqCounter = y, !.pc = "scan", !.entry = NoEntry] = e
    BY <1>3, NoEntryType, ExecutorWith
  <2>. HIDE DEF e
  <2>. QED  BY <2>1, <2>2
<1>. HIDE DEF e
<1>5. executors' \in [Node -> Seq(Executor)]
  BY <1>2, <1>4, ExecutorChanged
<1>. QED  BY <1>1, <1>2, <1>4, <1>5 DEF e

\* What an executor does keeps the types.
LEMMA ExecuteTypes ==
  ASSUME ServerTypeOK, HandsFull, NEW n \in Node, NEW i \in DOMAIN executors[n],
         Execute(n, i)
  PROVE  ServerTypeOK'
<1>1. CASE ExecWake(n, i)
  <2>1. Goto(n, i, "scan") /\ notifyCh[n] \in Nat /\ notifyCh[n] > 0
    BY <1>1, ServerParts DEF ExecWake
  <2>2. executors' \in [Node -> Seq(Executor)]
    BY <2>1, GotoTypes
  <2>3. notifyCh' \in [Node -> Nat]
    BY <1>1, <2>1 DEF ExecWake, ServerTypeOK
  <2>. QED  BY <1>1, <2>2, <2>3 DEF ExecWake, ServerTypeOK, switchVars, logVars
<1>2. CASE ExecSleep(n, i)
  <2>1. executors' \in [Node -> Seq(Executor)]
    BY <1>2, GotoTypes DEF ExecSleep
  <2>. QED  BY <1>2, <2>1 DEF ExecSleep, ServerTypeOK, switchVars, logVars
<1>3. CASE ExecRead(n, i)
  <2>1. executors' \in [Node -> Seq(Executor)]
    BY <1>3, ReadTypes
  <2>. QED  BY <1>3, <2>1 DEF ExecRead, ServerTypeOK, switchVars, logVars
<1>4. CASE ExecCrash(n, i)
  BY <1>4 DEF ExecCrash, Crash, ServerTypeOK, switchVars, logVars, execVars
<1>5. CASE ExecApply(n, i)
  <2>1. executors' \in [Node -> Seq(Executor)]
    BY <1>5, ApplyTypes
  <2>2. PICK e \in Executor : e = executors[n][i]
    BY ServerParts
  <2>3. e.pc = "apply" /\ e.entry.tx \in Request
    BY <1>5, <2>2 DEF ExecApply, HandsFull
  <2>4. e.entry \in Entry /\ e.entry.tx.tx \in Payload
    BY <2>3, ExecutorFields DEF Request
  <2>5. Transferred(nodeBalances[n], e.entry.tx.tx) \in [Account -> Int]
    BY <2>4, ServerParts, TransferredType
  <2>6. nodeBalances' = [nodeBalances EXCEPT ![n] =
                           Transferred(nodeBalances[n], e.entry.tx.tx)]
    BY <1>5, <2>2 DEF ExecApply
  <2>7. logs' = [logs EXCEPT ![n][e.seqCounter] = e.entry]
    BY <1>5, <2>2 DEF ExecApply
  <2>8. nodeBalances' \in [Node -> [Account -> Int]]
    BY <2>5, <2>6 DEF ServerTypeOK
  <2>9. logs' \in [Node -> [SeqNums -> Entry]]
    BY <2>4, <2>7 DEF ServerTypeOK
  <2>. QED  BY <1>5, <2>1, <2>8, <2>9 DEF ExecApply, ServerTypeOK, switchVars
<1>. QED  BY <1>1, <1>2, <1>3, <1>4, <1>5 DEF Execute

\* An executor that is about to apply an entry still has one with a transaction.
LEMMA ExecuteHands ==
  ASSUME ServerTypeOK, HandsFull, NEW n \in Node, NEW i \in DOMAIN executors[n],
         Execute(n, i)
  PROVE  HandsFull'
<1>1. ASSUME NEW e \in Executor, executors' = [executors EXCEPT ![n][i] = e],
             e.pc = "apply" => e.entry.tx \in Request
      PROVE  HandsFull'
  <2>1. SUFFICES ASSUME NEW m \in Node, NEW j \in DOMAIN executors'[m],
                        executors'[m][j].pc = "apply"
                 PROVE  executors'[m][j].entry.tx \in Request
    BY DEF HandsFull
  <2>2. CASE m = n /\ j = i
    BY <1>1, <2>1, <2>2, ExecutorChanged
  <2>3. CASE ~(m = n /\ j = i)
    <3>1. executors[m] \in Seq(Executor) /\ executors'[m] \in Seq(Executor)
      BY <1>1, ExecutorChanged, ServerParts
    <3>2. Len(executors'[m]) = Len(executors[m])
      BY <1>1, ExecutorChanged
    <3>3. j \in DOMAIN executors[m]
      BY <3>1, <3>2, LenProperties
    <3>4. executors'[m][j] = executors[m][j]
      BY <1>1, <2>3, <3>3, ExecutorChanged
    <3>. QED  BY <2>1, <3>3, <3>4 DEF HandsFull
  <2>. QED  BY <2>2, <2>3
<1>2. ASSUME NEW p \in {"idle", "scan"}, Goto(n, i, p)
      PROVE  HandsFull'
  <2>0. /\ [executors[n][i] EXCEPT !.pc = p] \in Executor
        /\ executors' = [executors EXCEPT ![n][i] = [executors[n][i] EXCEPT !.pc = p]]
    <3>1. p \in {"idle", "scan", "apply"}
      BY <1>2
    <3>2. [executors[n][i] EXCEPT !.pc = p] \in Executor
      BY <1>2, <3>1, GotoTypes
    <3>. QED  BY <1>2, <3>2 DEF Goto
  <2>1. PICK e \in Executor : e = [executors[n][i] EXCEPT !.pc = p]
    BY <2>0
  <2>2. PICK old \in Executor : old = executors[n][i]
    BY ServerParts
  <2>3. e.pc = p
    BY <2>1, <2>2 DEF Executor
  <2>4. executors' = [executors EXCEPT ![n][i] = e]
    BY <2>0, <2>1, Zenon
  <2>. QED  BY <1>1, <2>3, <2>4
<1>3. CASE ExecWake(n, i) \/ ExecSleep(n, i)
  BY <1>2, <1>3 DEF ExecWake, ExecSleep
<1>4. CASE ExecRead(n, i)
  <2>1. PICK e \in Executor :
           /\ e = [seqCounter |-> executors[n][i].seqCounter,
                   since |-> executors[n][i].since, pc |-> "apply",
                   entry |-> NextEntry(n, i)]
           /\ executors' = [executors EXCEPT ![n][i] = e]
    BY <1>4, ReadTypes
  <2>2. e.entry.tx \in Request
    BY <1>4, <2>1, NextEntryType DEF ExecRead, Entry
  <2>. QED  BY <1>1, <2>1, <2>2
<1>5. CASE ExecApply(n, i)
  <2>1. PICK e \in Executor :
           /\ e = [seqCounter |-> executors[n][i].seqCounter + 1,
                   since |-> executors[n][i].since, pc |-> "scan",
                   entry |-> NoEntry]
           /\ executors' = [executors EXCEPT ![n][i] = e]
    BY <1>5, ApplyTypes
  <2>. QED  BY <1>1, <2>1
<1>6. CASE ExecCrash(n, i)
  BY <1>6 DEF ExecCrash, execVars, HandsFull
<1>. QED  BY <1>3, <1>4, <1>5, <1>6 DEF Execute

\* Flush leaves an entry in the hands of an executor.
LEMMA FlushHands ==
  ASSUME ServerTypeOK, HandsFull, NEW n \in Node, Flush(n)
  PROVE  HandsFull'
<1>1. CASE notifyCh[n] > 1
  BY <1>1 DEF Flush, execVars, HandsFull
<1>2. CASE ~(notifyCh[n] > 1)
  <2>. DEFINE all == Append([i \in DOMAIN executors[n] |-> Flushed(executors[n][i])],
                            NewExecutor)
  <2>1. PICK ex \in Seq(Executor) : ex = executors[n]
    BY ServerParts
  <2>2. /\ all \in Seq(Executor) /\ Len(all) = Len(ex) + 1
        /\ \A i \in 1 .. Len(ex) : all[i] = Flushed(ex[i])
        /\ all[Len(ex) + 1] = NewExecutor
    BY <2>1, FlushedExecutors
  <2>3. executors' = [executors EXCEPT ![n] = all]
    BY <1>2 DEF Flush, ServerTypeOK
  <2>. HIDE DEF all
  <2>4. SUFFICES ASSUME NEW m \in Node, NEW j \in DOMAIN executors'[m],
                        executors'[m][j].pc = "apply"
                 PROVE  executors'[m][j].entry.tx \in Request
    BY DEF HandsFull
  <2>5. CASE m # n
    <3>1. executors'[m] = executors[m]
      BY <2>3, <2>5 DEF ServerTypeOK
    <3>. QED  BY <2>4, <3>1 DEF HandsFull
  <2>6. CASE m = n
    <3>1. executors'[m] = all
      BY <2>3, <2>6 DEF ServerTypeOK
    <3>2. j \in 1 .. Len(ex) + 1 /\ Len(ex) \in Nat
      BY <2>1, <2>2, <3>1, LenProperties
    <3>3. j # Len(ex) + 1
      BY <2>2, <2>4, <3>1 DEF NewExecutor
    <3>4. j \in 1 .. Len(ex) /\ ex[j] \in Executor
      BY <3>2, <3>3, ElementOfSeq
    <3>5. ex[j].pc = "apply" /\ all[j].entry = ex[j].entry
      BY <2>2, <2>4, <3>1, <3>4, FlushedType, ExecutorFields
    <3>6. j \in DOMAIN executors[n]
      BY <2>1, <3>4, LenProperties
    <3>. QED  BY <2>1, <3>1, <3>5, <3>6 DEF HandsFull
  <2>. QED  BY <2>5, <2>6
<1>. QED  BY <1>1, <1>2

-----------------------------------------------------------------------------
(* The type of the session's state.                                         *)

\* What may happen to a server in one step.
ServerMove(n) ==
  \/ Kill(n) \/ Revive(n) \/ BecomeMalicious(n) \/ Flush(n)
  \/ \E r \in Request : PrePrepare(n, r)
  \/ ServerStep(n)

\* The list of servers for a set is one, and so is its rest.
LEMMA SetOfServers ==
  ASSUME SessionTypeOK, currentSetNumber \in SetNums
  PROVE  /\ AliveServers \subseteq Node /\ read.byz[currentSetNumber] \subseteq Node
         /\ ToRevive \subseteq Node /\ ToKill \subseteq Node
         /\ read.sets[currentSetNumber] \in Seq(Request)
BY DEF SessionTypeOK, Reading, AliveServers, ToRevive, ToKill

\* The server that is called next.
LEMMA CalledServers ==
  ASSUME TypeInv
  PROVE  /\ pc = "alive" /\ ToRevive # {} => First(ToRevive) \in Node
         /\ pc = "alive" /\ ToKill # {} => First(ToKill) \in Node
         /\ todo # {} => First(todo) \in Node
<1>1. pc = "alive" => ToRevive \subseteq Node /\ ToKill \subseteq Node
  BY SetOfServers DEF TypeInv, ServingASet
<1>2. todo \subseteq Node
  BY DEF TypeInv, SessionTypeOK
<1>. QED  BY <1>1, <1>2, FirstOfServers

\* In a step of the session at most one server does something.
LEMMA NextServers ==
  ASSUME TypeInv, [Next]_sessionVars
  PROVE  UNCHANGED serverVars \/ \E n \in Node : ServerMove(n)
<1>1. CASE UNCHANGED sessionVars
  BY <1>1 DEF sessionVars
<1>2. CASE ReadSets \/ StartSet \/ AliveDone \/ MaliciousDone \/ SendSet
           \/ StartFlush \/ FlushDone
  BY <1>2 DEF ReadSets, StartSet, AliveDone, MaliciousDone, SendSet, StartFlush,
              FlushDone
<1>3. CASE ReviveNext \/ KillNext \/ CorruptNext \/ FlushNext
  BY <1>3, CalledServers DEF ReviveNext, KillNext, CorruptNext, FlushNext, Called,
                             ServerMove
<1>4. ASSUME NEW call \in late, CarryOut(call)
      PROVE  \E n \in Node : ServerMove(n)
  <2>1. call.to \in Node
    BY DEF TypeInv, SessionTypeOK, Call
  <2>. QED  BY <1>4, <2>1 DEF CarryOut, ServerMove
<1>5. ASSUME NEW n \in Node, Receive(n) \/ ServerStep(n)
      PROVE  ServerMove(n)
  <2>1. CASE Receive(n)
    <3>1. PICK i \in DOMAIN sent : PrePrepare(n, sent[i])
      BY <2>1 DEF Receive
    <3>2. sent[i] \in Request
      <4>1. sent \in Seq(Request)
        BY DEF TypeInv, SessionTypeOK
      <4>. QED  BY <4>1, ElementOfSeq, LenProperties
    <3>. QED  BY <3>1, <3>2 DEF ServerMove
  <2>. QED  BY <1>5, <2>1 DEF ServerMove
<1>. QED  BY <1>1, <1>2, <1>3, <1>4, <1>5 DEF Next, Menu

\* The servers keep their types.
LEMMA ServerMoveTypes ==
  ASSUME ServerTypeOK, HandsFull, NEW n \in Node, ServerMove(n)
  PROVE  ServerTypeOK' /\ HandsFull'
<1>1. CASE Kill(n) \/ Revive(n) \/ BecomeMalicious(n)
  <2>1. UNCHANGED executors
    BY <1>1 DEF Kill, Revive, BecomeMalicious, execVars
  <2>. QED  BY <1>1, <2>1, SwitchTypes DEF HandsFull
<1>2. CASE Flush(n)
  BY <1>2, FlushTypes, FlushHands
<1>3. ASSUME NEW r \in Request, PrePrepare(n, r)
      PROVE  ServerTypeOK' /\ HandsFull'
  BY <1>3, PrePrepareTypes DEF PrePrepare, execVars, HandsFull
<1>4. ASSUME NEW s \in SeqNums, CollectedPrepare(n, s)
      PROVE  ServerTypeOK' /\ HandsFull'
  BY <1>4, CollectedPrepareTypes DEF CollectedPrepare, execVars, HandsFull
<1>5. ASSUME NEW w \in windows[n], WriteBack(n, w)
      PROVE  ServerTypeOK' /\ HandsFull'
  BY <1>5, WriteBackTypes DEF WriteBack, HandsFull
<1>6. ASSUME NEW i \in DOMAIN executors[n], Execute(n, i)
      PROVE  ServerTypeOK' /\ HandsFull'
  BY <1>6, ExecuteTypes, ExecuteHands
<1>. QED  BY <1>1, <1>2, <1>3, <1>4, <1>5, <1>6 DEF ServerMove, ServerStep

\* The client keeps its types.
ClientTypeOK ==
  /\ pc \in {"menu", "alive", "malicious", "sending", "flush"}
  /\ todo \subseteq Node /\ killedServers \subseteq Node
  /\ read \in Reading
  /\ lastFile \in Files \cup {<<>>}
  /\ allSetsRead \in BOOLEAN
  /\ currentSetNumber \in Nat
  /\ globalTransactionID \in Nat /\ firstId \in Nat
  /\ sent \in Seq(Request)
  /\ late \subseteq Call
  /\ reads \in 0 .. MaxReads /\ flushes \in 0 .. MaxFlushes
  /\ ServingASet

\* Reading a file.
LEMMA ReadSetsTypes ==
  ASSUME ClientTypeOK, ReadSets
  PROVE  ClientTypeOK'
<1>1. PICK file \in Files : read' = ReadTransactions(file, NextId) /\ lastFile' = file
  BY DEF ReadSets
<1>2. file \in Seq(Row) /\ NextId \in Nat
  BY FilesAssumption DEF ClientTypeOK, NextId
<1>3. read' \in Reading
  BY <1>1, <1>2, ReadTransactionsType
<1>4. globalTransactionID' \in Nat /\ firstId' \in Nat /\ read'.ok \in BOOLEAN
  BY <1>2, <1>3, ReadingFields DEF ReadSets
<1>5. reads' \in 0 .. MaxReads
  BY BoundsAssumption DEF ReadSets, ClientTypeOK
<1>6. currentSetNumber' \in Nat /\ allSetsRead' \in BOOLEAN
  BY <1>4 DEF ReadSets, ClientTypeOK
<1>7. UNCHANGED <<pc, todo, killedServers, sent, flushes, late>> /\ pc = "menu"
  BY DEF ReadSets
<1>. QED  BY <1>1, <1>3, <1>4, <1>5, <1>6, <1>7 DEF ClientTypeOK, ServingASet

\* A call that the client no longer waits for.
LEMMA CallTypes ==
  ASSUME ClientTypeOK, NEW n \in Node, NEW kind \in {"Revive", "BecomeMalicious", "Flush"},
         UNCHANGED late \/ late' = late \cup {[to |-> n, kind |-> kind]}
  PROVE  late' \subseteq Call
<1>1. [to |-> n, kind |-> kind] \in Call
  BY DEF Call
<1>. QED  BY <1>1 DEF ClientTypeOK

\* The calls of the menu.
LEMMA MenuCallTypes ==
  ASSUME TypeInv, ClientTypeOK, ReviveNext \/ KillNext \/ CorruptNext \/ FlushNext
  PROVE  ClientTypeOK'
<1>. USE DEF readVars
<1>1. CASE ReviveNext
  <2>1. PICK n \in Node : n = First(ToRevive)
    BY <1>1, CalledServers DEF ReviveNext
  <2>2. late' \subseteq Call
    BY <1>1, <2>1, CallTypes DEF ReviveNext, Called
  <2>. QED  BY <1>1, <2>1, <2>2 DEF ReviveNext, ClientTypeOK, ServingASet
<1>2. CASE KillNext
  <2>1. PICK n \in Node : n = First(ToKill)
    BY <1>2, CalledServers DEF KillNext
  <2>. QED  BY <1>2, <2>1 DEF KillNext, ClientTypeOK, ServingASet
<1>3. CASE CorruptNext
  <2>1. PICK n \in Node : n = First(todo)
    BY <1>3, CalledServers DEF CorruptNext
  <2>2. late' \subseteq Call
    BY <1>3, <2>1, CallTypes DEF CorruptNext, Called
  <2>. QED  BY <1>3, <2>1, <2>2 DEF CorruptNext, ClientTypeOK, ServingASet
<1>4. CASE FlushNext
  <2>1. PICK n \in Node : n = First(todo)
    BY <1>4, CalledServers DEF FlushNext
  <2>2. late' \subseteq Call
    BY <1>4, <2>1, CallTypes DEF FlushNext, Called
  <2>. QED  BY <1>4, <2>1, <2>2 DEF FlushNext, ClientTypeOK, ServingASet
<1>. QED  BY <1>1, <1>2, <1>3, <1>4

\* The other steps of the menu.
LEMMA MenuTypes ==
  ASSUME TypeInv, ClientTypeOK, Menu
  PROVE  ClientTypeOK'
<1>. USE DEF readVars
<1>1. CASE StartSet
  BY <1>1 DEF StartSet, SetsRead, ClientTypeOK, ServingASet
<1>2. CASE AliveDone
  BY <1>2 DEF AliveDone, ClientTypeOK, ServingASet, Reading
<1>3. CASE MaliciousDone
  BY <1>3 DEF MaliciousDone, ClientTypeOK, ServingASet
<1>4. CASE SendSet
  <2>1. read.sets[currentSetNumber] \in Seq(Request)
    BY <1>4 DEF SendSet, ClientTypeOK, ServingASet, Reading
  <2>2. sent' \in Seq(Request)
    BY <1>4, <2>1, ConcatProperties DEF SendSet, ClientTypeOK
  <2>. QED  BY <1>4, <2>2 DEF SendSet, ClientTypeOK, ServingASet
<1>5. CASE StartFlush
  BY <1>5, BoundsAssumption DEF StartFlush, ClientTypeOK, ServingASet
<1>6. CASE FlushDone
  BY <1>6 DEF FlushDone, ClientTypeOK, ServingASet
<1>. QED  BY <1>1, <1>2, <1>3, <1>4, <1>5, <1>6, MenuCallTypes, ReadSetsTypes DEF Menu

\* The session keeps its types, and serves a set whose number a file can give.
LEMMA TypeStep ==
  ASSUME TypeInv, [Next]_sessionVars
  PROVE  TypeInv'
<1>1. ServerTypeOK' /\ HandsFull'
  <2>1. ServerTypeOK /\ HandsFull
    BY DEF TypeInv, SessionTypeOK
  <2>2. CASE UNCHANGED serverVars
    BY <2>1, <2>2 DEF serverVars, switchVars, logVars, execVars, ServerTypeOK, HandsFull
  <2>. QED  BY <2>1, <2>2, NextServers, ServerMoveTypes
<1>2. ClientTypeOK
  BY DEF TypeInv, SessionTypeOK, ClientTypeOK
<1>3. ClientTypeOK'
  <2>1. CASE UNCHANGED clientVars /\ late' \subseteq late
    BY <1>2, <2>1 DEF clientVars, readVars, ClientTypeOK, ServingASet
  <2>2. ASSUME NEW call \in late, CarryOut(call)
        PROVE  ClientTypeOK'
    BY <2>1, <2>2 DEF CarryOut
  <2>3. CASE UNCHANGED sessionVars
    BY <2>1, <2>3 DEF sessionVars
  <2>. QED  BY <1>2, <2>1, <2>2, <2>3, MenuTypes DEF Next
<1>. QED  BY <1>1, <1>3 DEF TypeInv, SessionTypeOK, ClientTypeOK

\* The session starts with the types.
LEMMA TypeStart ==
  ASSUME Init
  PROVE  TypeInv
<1>1. StartBalances \in [Account -> Int]
  BY DEF StartBalances, StartBalance
<1>2. <<NewExecutor>> \in Seq(Executor)
  BY NewExecutorType
<1>3. ServerTypeOK
  BY <1>1, <1>2, NoEntryType DEF Init, ServerInit, ServerTypeOK
<1>4. NothingRead(1) \in Reading
  BY NothingReadType
<1>5. HandsFull
  BY DEF Init, ServerInit, HandsFull, NewExecutor
<1>6. 0 \in 0 .. MaxReads /\ 0 \in 0 .. MaxFlushes
  BY BoundsAssumption
<1>7. sent \in Seq(Request)
  BY EmptySeq DEF Init
<1>8. ClientTypeOK
  BY <1>4, <1>6, <1>7 DEF Init, ClientTypeOK, ServingASet
<1>. QED  BY <1>3, <1>5, <1>8 DEF TypeInv, SessionTypeOK, ClientTypeOK

\* In every state of a session, whatever servers, files and bounds, each
\* variable has its type: an executor's counter is positive, balances are
\* integers of every account, the ids and sets of a reading are numbers.
THEOREM SessionTyped == Spec => []SessionTypeOK
<1>1. Init => TypeInv
  BY TypeStart
<1>2. TypeInv /\ [Next]_sessionVars => TypeInv'
  BY TypeStep
<1>3. TypeInv => SessionTypeOK
  BY DEF TypeInv
<1>. QED  BY <1>1, <1>2, <1>3, PTL DEF Spec

-----------------------------------------------------------------------------
(* The servers that are alive while a set is sent.                          *)

\* AliveInv is kept.
LEMMA AliveStep ==
  ASSUME TypeInv, AliveInv, [Next]_sessionVars
  PROVE  AliveInv'
<1>. USE DEF TakenForAlive, ListedRevived
<1>0. ServerTypeOK /\ killedServers \subseteq Node /\ TakenForAlive /\ ListedRevived
  BY DEF TypeInv, SessionTypeOK, AliveInv
<1>1. ASSUME UNCHANGED isActive, UNCHANGED late, UNCHANGED killedServers,
             ListedRevived'
      PROVE  AliveInv'
  BY <1>0, <1>1 DEF AliveInv
<1>2. ASSUME NEW n \in Node, isActive' = [isActive EXCEPT ![n] = TRUE] \/ UNCHANGED isActive,
             late \subseteq late', killedServers' = killedServers
      PROVE  TakenForAlive'
  BY <1>0, <1>2 DEF ServerTypeOK
<1>3. CASE ReviveNext
  <2>1. PICK n \in Node : n = First(ToRevive)
    BY <1>3, CalledServers DEF ReviveNext
  <2>2. \/ Revive(n) /\ UNCHANGED late
        \/ late' = late \cup {[to |-> n, kind |-> "Revive"]} /\ UNCHANGED serverVars
    BY <1>3, <2>1 DEF ReviveNext, Called
  <2>3. killedServers' = killedServers \ {n}
    BY <1>3, <2>1 DEF ReviveNext
  <2>4. TakenForAlive'
    BY <1>0, <2>2, <2>3 DEF Revive, serverVars, switchVars, ServerTypeOK
  <2>. QED  BY <1>3, <2>4 DEF ReviveNext, AliveInv
<1>4. CASE KillNext
  <2>1. PICK n \in Node : n = First(ToKill)
    BY <1>4, CalledServers DEF KillNext
  <2>2. Kill(n) /\ UNCHANGED late /\ killedServers' = killedServers \cup {n} /\ pc' = "alive"
    BY <1>4, <2>1 DEF KillNext
  <2>3. TakenForAlive'
    BY <1>0, <2>2 DEF Kill, ServerTypeOK
  <2>. QED  BY <2>2, <2>3 DEF AliveInv
<1>5. CASE AliveDone
  BY <1>0, <1>1, <1>5 DEF AliveDone, ToRevive, AliveServers, serverVars, switchVars, readVars
<1>6. CASE MaliciousDone
  BY <1>0, <1>1, <1>6 DEF MaliciousDone, AliveServers, serverVars, switchVars, readVars
<1>7. CASE ReadSets \/ StartSet \/ SendSet \/ StartFlush \/ FlushDone
  BY <1>0, <1>1, <1>7 DEF ReadSets, StartSet, SendSet, StartFlush, FlushDone,
                          serverVars, switchVars
<1>8. CASE CorruptNext
  <2>1. PICK n \in Node : n = First(todo)
    BY <1>8, CalledServers DEF CorruptNext
  <2>2. UNCHANGED isActive /\ late \subseteq late'
    BY <1>8, <2>1 DEF CorruptNext, Called, BecomeMalicious, serverVars, switchVars
  <2>3. UNCHANGED <<pc, killedServers, AliveServers>>
    BY <1>8 DEF CorruptNext, AliveServers, readVars
  <2>. QED  BY <1>0, <1>2, <2>1, <2>2, <2>3 DEF AliveInv
<1>9. CASE FlushNext
  <2>1. PICK n \in Node : n = First(todo)
    BY <1>9, CalledServers DEF FlushNext
  <2>2. isActive' = [isActive EXCEPT ![n] = TRUE] \/ UNCHANGED isActive
    BY <1>9, <2>1 DEF FlushNext, Called, Flush, serverVars, switchVars
  <2>3. late \subseteq late' /\ killedServers' = killedServers /\ pc' = "flush"
    BY <1>9 DEF FlushNext, Called
  <2>. QED  BY <1>2, <2>2, <2>3 DEF AliveInv
<1>10. ASSUME NEW call \in late, CarryOut(call)
       PROVE  AliveInv'
  <2>1. PICK n \in Node : n = call.to
    BY DEF TypeInv, SessionTypeOK, Call
  <2>2. late' = late \ {call} /\ UNCHANGED <<pc, killedServers, AliveServers>>
    BY <1>10 DEF CarryOut, clientVars, readVars, AliveServers
  <2>3. CASE Revive(n)
    <3>1. TakenForAlive'
      <4>1. SUFFICES ASSUME NEW m \in Node \ killedServers, m # n
                     PROVE  isActive'[m] \/ [to |-> m, kind |-> "Revive"] \in late'
        <5>1. isActive'[n]
          BY <1>0, <2>3 DEF Revive, ServerTypeOK
        <5>. QED  BY <2>2, <5>1
      <4>2. [to |-> m, kind |-> "Revive"] # call
        BY <2>1, <4>1
      <4>3. isActive'[m] = isActive[m]
        BY <1>0, <2>3, <4>1 DEF Revive, ServerTypeOK
      <4>. QED  BY <1>0, <2>2, <4>2, <4>3
    <3>. QED  BY <1>0, <2>2, <3>1 DEF AliveInv
  <2>4. CASE call.kind # "Revive"
    <3>1. isActive' = [isActive EXCEPT ![n] = TRUE] \/ UNCHANGED isActive
      BY <1>10, <2>1, <2>4 DEF CarryOut, Flush, BecomeMalicious, switchVars
    <3>2. \A m \in Node : [to |-> m, kind |-> "Revive"] # call
      BY <2>4
    <3>3. TakenForAlive'
      BY <1>0, <2>2, <3>1, <3>2 DEF ServerTypeOK
    <3>. QED  BY <1>0, <2>2, <3>3 DEF AliveInv
  <2>. QED  BY <1>10, <2>1, <2>3, <2>4 DEF CarryOut
<1>11. ASSUME NEW n \in Node, Receive(n) \/ ServerStep(n), UNCHANGED <<clientVars, late>>
       PROVE  AliveInv'
  <2>1. UNCHANGED isActive
    BY <1>11 DEF Receive, PrePrepare, ServerStep, CollectedPrepare, WriteBack, Execute,
          ExecWake, ExecSleep, ExecRead, ExecCrash, ExecApply, switchVars
  <2>2. UNCHANGED <<pc, killedServers, AliveServers>>
    BY <1>11 DEF clientVars, readVars, AliveServers
  <2>. QED  BY <1>0, <1>1, <1>11, <2>1, <2>2
<1>12. CASE UNCHANGED sessionVars
  BY <1>0, <1>1, <1>12 DEF sessionVars, clientVars, readVars, serverVars, switchVars,
                           AliveServers
<1>. QED  BY <1>3, <1>4, <1>5, <1>6, <1>7, <1>8, <1>9, <1>10, <1>11, <1>12 DEF Next, Menu

\* A server that the file lists for a set is alive while the set is sent,
\* however the client came to believe so: it was revived for this set, or never
\* killed since it was, and no late call has undone it; unless its own Revive is
\* still to come.
THEOREM ListedStayAlive == Spec => []ListedAreAlive
<1>1. Init => TypeInv /\ AliveInv
  <2>1. ASSUME Init PROVE AliveInv
    BY <2>1 DEF Init, ServerInit, AliveInv, TakenForAlive, ListedRevived
  <2>. QED  BY <2>1, TypeStart
<1>2. TypeInv /\ AliveInv /\ [Next]_sessionVars => (TypeInv /\ AliveInv)'
  BY TypeStep, AliveStep
<1>3. TypeInv /\ AliveInv => ListedAreAlive
  <2>. SUFFICES ASSUME TypeInv, AliveInv, pc = "sending", NEW n \in AliveServers,
                       [to |-> n, kind |-> "Revive"] \notin late
                PROVE  isActive[n]
    BY DEF ListedAreAlive
  <2>1. n \in Node /\ n \notin killedServers
    BY SetOfServers DEF TypeInv, ServingASet, AliveInv, ListedRevived
  <2>. QED  BY <2>1 DEF AliveInv, TakenForAlive
<1>. QED  BY <1>1, <1>2, <1>3, PTL DEF Spec

-----------------------------------------------------------------------------
(* The sets are those of the file.                                          *)

\* Whatever the files contain and however often one is read, what the client
\* goes through is what is written in the last one: the transactions of each
\* set in the order of their rows, with the ids that follow those given before,
\* and the lists of the last row of a set that has one.
THEOREM SessionReadsAsWritten == Spec => []ReadAsWritten
<1>1. Init => TypeInv /\ ReadAsWritten
  <2>. SUFFICES ASSUME Init PROVE ReadAsWritten
    BY TypeStart
  <2>1. ReadTransactions(<<>>, 1) = NothingRead(1)
    <3>1. FoldLeft(ReadRow, NothingRead(1), <<>>) = NothingRead(1)
      <4>1. <<>> \in Seq(Row) /\ Len(<<>>) = 0
        BY EmptySeq
      <4>2. PICK r \in [0 .. Len(<<>>) -> Reading] :
               /\ r[0] = NothingRead(1)
               /\ r[Len(<<>>)] = FoldLeft(ReadRow, NothingRead(1), <<>>)
        BY <4>1, RowByRow
      <4>. QED  BY <4>1, <4>2
    <3>2. NothingRead(1).ok
      BY DEF NothingRead
    <3>. QED  BY <3>1, <3>2 DEF ReadTransactions
  <2>2. AsWritten(ReadTransactions(<<>>, 1), <<>>, 1)
    BY EmptySeq, FileAsWritten
  <2>. QED  BY <2>1, <2>2 DEF Init, ReadAsWritten
<1>2. TypeInv /\ ReadAsWritten /\ [Next]_sessionVars => (TypeInv /\ ReadAsWritten)'
  <2>. SUFFICES ASSUME TypeInv, ReadAsWritten, [Next]_sessionVars
                PROVE  ReadAsWritten'
    BY TypeStep
  <2>1. CASE ReadSets
    <3>1. PICK file \in Files : read' = ReadTransactions(file, NextId) /\ lastFile' = file
      BY <2>1 DEF ReadSets
    <3>2. file \in Seq(Row) /\ NextId \in Nat /\ firstId' = NextId
      BY <2>1, FilesAssumption DEF TypeInv, SessionTypeOK, NextId, ReadSets
    <3>3. AsWritten(read', lastFile', firstId')
      BY <3>1, <3>2, FileAsWritten
    <3>. QED  BY <3>3 DEF ReadAsWritten
  <2>2. CASE UNCHANGED <<read, lastFile, firstId>>
    BY <2>2 DEF ReadAsWritten
  <2>. QED  BY <2>1, <2>2 DEF Next, Menu, sessionVars, clientVars, readVars, StartSet,
               ReviveNext, KillNext, AliveDone, CorruptNext, MaliciousDone, SendSet,
               StartFlush, FlushNext, FlushDone, CarryOut
<1>. QED  BY <1>1, <1>2, PTL DEF Spec

-----------------------------------------------------------------------------
(* The ids of the transactions that are sent.                               *)

\* A new reading has ids of its own.
LEMMA IdsReadSets ==
  ASSUME TypeInv, IdsInv, ReadSets
  PROVE  IdsInv'
<1>1. PICK file \in Files : read' = ReadTransactions(file, NextId)
  BY DEF ReadSets
<1>2. /\ file \in Seq(Row) /\ NextId \in Nat /\ NextId = globalTransactionID
      /\ firstId' = NextId /\ globalTransactionID' = read'.nextId /\ sent' = sent
      /\ currentSetNumber \in Nat /\ sent \in Seq(Request)
  BY FilesAssumption DEF TypeInv, SessionTypeOK, NextId, ReadSets
<1>3. read' \in Reading /\ IdsApart(read', NextId)
  BY <1>1, <1>2, ReadTransactionsType, ReadingIdsApart
<1>4. read'.nextId \in Nat /\ NextId <= read'.nextId
  BY <1>3, ReadingFields DEF IdsApart
<1>5. \A i \in DOMAIN sent : sent[i].id \in Nat /\ sent[i].id < NextId
  <2>1. \A i \in DOMAIN sent : sent[i] \in Request
    BY <1>2, ElementOfSeq, LenProperties
  <2>. QED  BY <1>2, <2>1 DEF IdsInv, Request
<1>6. \A k \in SetNums : \A m \in DOMAIN read'.sets[k] :
         read'.sets[k][m].id \in Nat /\ NextId <= read'.sets[k][m].id
  <2>. SUFFICES ASSUME NEW k \in SetNums, NEW m \in DOMAIN read'.sets[k]
                PROVE  read'.sets[k][m].id \in Nat
    BY <1>3 DEF IdsApart
  <2>1. PICK s \in Seq(Request) : s = read'.sets[k]
    BY <1>3 DEF Reading
  <2>2. s[m] \in Request
    BY <2>1, ElementOfSeq, LenProperties
  <2>. QED  BY <2>1, <2>2 DEF Request
<1>7. \A i \in DOMAIN sent : sent[i].id < read'.nextId
  BY <1>2, <1>4, <1>5
<1>8. \A k \in SetNums : \A m \in DOMAIN read'.sets[k], i \in DOMAIN sent :
         read'.sets[k][m].id # sent[i].id
  BY <1>2, <1>5, <1>6
<1>. QED  BY <1>2, <1>3, <1>7, <1>8 DEF IdsInv, IdsNeverReused

\* A set that is sent has ids that were not sent, and the sets after it have
\* others.
LEMMA IdsSendSet ==
  ASSUME TypeInv, IdsInv, SendSet
  PROVE  IdsInv'
<1>. DEFINE k == currentSetNumber
            s == read.sets[k]
<1>1. /\ k \in SetNums /\ k \in Nat /\ s \in Seq(Request) /\ sent \in Seq(Request)
      /\ read \in Reading
  BY SetOfServers DEF TypeInv, SessionTypeOK, ServingASet, SendSet
<1>2. /\ sent' = sent \o s /\ currentSetNumber' = k + 1
      /\ UNCHANGED <<read, firstId, globalTransactionID>>
  BY DEF SendSet, readVars
<1>3. /\ IdsApart(read, firstId) /\ read.nextId = globalTransactionID
      /\ \A i \in DOMAIN sent : sent[i].id < globalTransactionID
      /\ \A l \in SetNums : k <= l =>
           \A m \in DOMAIN read.sets[l], i \in DOMAIN sent :
             read.sets[l][m].id # sent[i].id
      /\ \A i, j \in DOMAIN sent : sent[i].id = sent[j].id => i = j
  BY DEF IdsInv, IdsNeverReused
<1>. HIDE DEF k, s
<1>4. PICK a \in Nat, b \in Nat : a = Len(sent) /\ b = Len(s)
  BY <1>1, LenProperties
<1>5. DOMAIN sent = 1 .. a /\ DOMAIN s = 1 .. b
  BY <1>1, <1>4, LenProperties
<1>6. /\ sent' \in Seq(Request) /\ Len(sent') = a + b /\ DOMAIN sent' = 1 .. a + b
      /\ \A i \in 1 .. a + b : sent'[i] = IF i <= a THEN sent[i] ELSE s[i - a]
  <2>1. /\ sent' \in Seq(Request) /\ Len(sent') = a + b
        /\ \A i \in 1 .. a + b : sent'[i] = IF i <= a THEN sent[i] ELSE s[i - a]
    BY <1>1, <1>2, <1>4, ConcatProperties
  <2>. QED  BY <2>1, LenProperties
<1>7. \A i \in DOMAIN sent' : (i \in DOMAIN sent /\ sent'[i] = sent[i])
                              \/ (i - a \in DOMAIN s /\ i > a /\ sent'[i] = s[i - a])
  BY <1>4, <1>5, <1>6
<1>8. /\ \A m \in DOMAIN s : s[m].id < globalTransactionID
      /\ \A m, p \in DOMAIN s : s[m].id = s[p].id => m = p
      /\ \A m \in DOMAIN s, i \in DOMAIN sent : s[m].id # sent[i].id
      /\ \A l \in SetNums : \A m \in DOMAIN s, p \in DOMAIN read.sets[l] :
           read.sets[l][p].id = s[m].id => k = l
  BY <1>1, <1>3 DEF IdsApart, s
<1>9. \A i \in DOMAIN sent' : sent'[i].id < globalTransactionID
  BY <1>3, <1>7, <1>8
<1>10. ASSUME NEW l \in SetNums, k + 1 <= l, NEW m \in DOMAIN read.sets[l],
              NEW i \in DOMAIN sent'
       PROVE  read.sets[l][m].id # sent'[i].id
  <2>1. k <= l /\ k # l
    BY <1>1, <1>10 DEF SetNums
  <2>. QED  BY <1>3, <1>7, <1>8, <2>1
<1>11. ASSUME NEW i \in DOMAIN sent', NEW j \in DOMAIN sent', sent'[i].id = sent'[j].id
       PROVE  i = j
  <2>1. i \in Int /\ j \in Int
    BY <1>6
  <2>2. CASE i \in DOMAIN sent /\ sent'[i] = sent[i]
    BY <1>3, <1>7, <1>8, <1>11, <2>2
  <2>3. CASE i - a \in DOMAIN s /\ i > a /\ sent'[i] = s[i - a]
    <3>1. CASE j \in DOMAIN sent /\ sent'[j] = sent[j]
      BY <1>8, <1>11, <2>3, <3>1
    <3>2. CASE j - a \in DOMAIN s /\ j > a /\ sent'[j] = s[j - a]
      <4>1. i - a = j - a
        BY <1>8, <1>11, <2>3, <3>2
      <4>. QED  BY <1>4, <2>1, <4>1
    <3>. QED  BY <1>7, <3>1, <3>2
  <2>. QED  BY <1>7, <2>2, <2>3
<1>12. IdsNeverReused'
  BY <1>11 DEF IdsNeverReused
<1>. QED  BY <1>2, <1>3, <1>9, <1>10, <1>12 DEF IdsInv

\* Ids are never given twice: a transaction id is sent once, whatever files are
\* read, however often, whether the reading fails halfway or not, and although
\* a failed reading leaves the client its place in the sets.
THEOREM SessionIdsOnce == Spec => []IdsNeverReused
<1>1. Init => TypeInv /\ IdsInv
  <2>. SUFFICES ASSUME Init PROVE IdsInv
    BY TypeStart
  <2>1. /\ read = NothingRead(1) /\ firstId = 1 /\ globalTransactionID = 1 /\ sent = <<>>
    BY DEF Init
  <2>2. DOMAIN sent = {} /\ \A k \in SetNums : DOMAIN read.sets[k] = {}
    BY <2>1 DEF NothingRead
  <2>3. read.nextId = 1
    BY <2>1 DEF NothingRead
  <2>. QED  BY <2>1, <2>2, <2>3 DEF IdsInv, IdsApart, IdsNeverReused
<1>2. TypeInv /\ IdsInv /\ [Next]_sessionVars => (TypeInv /\ IdsInv)'
  <2>. SUFFICES ASSUME TypeInv, IdsInv, [Next]_sessionVars
                PROVE  IdsInv'
    BY TypeStep
  <2>1. CASE UNCHANGED <<read, firstId, globalTransactionID, currentSetNumber, sent>>
    BY <2>1 DEF IdsInv, IdsNeverReused
  <2>. QED  BY <2>1, IdsReadSets, IdsSendSet DEF Next, Menu, sessionVars, clientVars,
               readVars, StartSet, ReviveNext, KillNext, AliveDone, CorruptNext,
               MaliciousDone, StartFlush, FlushNext, FlushDone, CarryOut
<1>3. IdsInv => IdsNeverReused
  BY DEF IdsInv
<1>. QED  BY <1>1, <1>2, <1>3, PTL DEF Spec

-----------------------------------------------------------------------------
(* Money.                                                                   *)

\* What holds of a finite set when it holds of each of its subsets of which all
\* parts with one element less have it, holds of all its subsets.
LEMMA FiniteInduction ==
  ASSUME NEW D, IsFiniteSet(D), NEW P,
         \A T \in SUBSET D : (\A x \in T : T \ {x} \in P) => T \in P
  PROVE  \A T \in SUBSET D : T \in P
<1>. DEFINE n == Cardinality(D)
            UpTo(k) == \A T \in SUBSET D : Cardinality(T) <= k => T \in P
            K == {k \in 0 .. n : UpTo(k)}
<1>1. n \in Nat /\ \A T \in SUBSET D :
         IsFiniteSet(T) /\ Cardinality(T) \in Nat /\ Cardinality(T) <= n
  BY FS_Subset, FS_CardinalityType
<1>2. 0 \in K
  <2>1. ASSUME NEW T \in SUBSET D, Cardinality(T) <= 0
        PROVE  T \in P
    <3>1. Cardinality(T) = 0
      BY <1>1, <2>1
    <3>2. T = {}
      BY <1>1, <3>1, FS_EmptySet
    <3>. QED  BY <3>2
  <2>. QED  BY <1>1, <2>1
<1>3. ASSUME NEW k \in 0 .. n - 1, k \in K
      PROVE  k + 1 \in K
  <2>1. ASSUME NEW T \in SUBSET D, Cardinality(T) <= k + 1
        PROVE  T \in P
    <3>1. ASSUME NEW x \in T
          PROVE  T \ {x} \in P
      <4>1. Cardinality(T \ {x}) = Cardinality(T) - 1
        BY <1>1, FS_RemoveElement
      <4>2. Cardinality(T \ {x}) <= k
        BY <1>1, <2>1, <4>1
      <4>. QED  BY <1>3, <4>2
    <3>. QED  BY <3>1
  <2>2. k + 1 \in 0 .. n
    BY <1>1
  <2>. QED  BY <2>1, <2>2
<1>4. \A k \in 0 .. n : k \in K
  <2>. HIDE DEF K
  <2>. QED  BY <1>1, <1>2, <1>3, IntervalInduction
<1>5. n \in K
  <2>1. n \in 0 .. n
    BY <1>1
  <2>. HIDE DEF K, n
  <2>. QED  BY <1>4, <2>1
<1>. QED  BY <1>1, <1>5

\* What the accounts have together.
Total(b) == FoldFunction(+, 0, b)

\* g[T] adds up the balances of T, whichever account comes first.
Totals(g, b, D) ==
  /\ g \in [SUBSET D -> Int]
  /\ g[{}] = 0
  /\ \A T \in SUBSET D : \A x \in T : g[T] = b[x] + g[T \ {x}]

\* FoldFunction adds up what a function gives, in any order.
LEMMA TotalOf ==
  ASSUME NEW D, IsFiniteSet(D), NEW b \in [D -> Int]
  PROVE  \E g : Totals(g, b, D) /\ Total(b) = g[D]
<1>. DEFINE zero == 0
            first(T) == CHOOSE x \in T : TRUE
            pick == [T \in SUBSET D |-> first(T)]
            step == [x \in D |-> [v \in Int |-> b[x] + v]]
            F(g) == [T \in SUBSET D |-> IF T = {} THEN 0
                       ELSE b[first(T)] + g[T \ {first(T)}]]
            iter == CHOOSE g : g = F(g)
            Typed == {T \in SUBSET D : iter[T] \in Int}
            AnyFirst == {T \in SUBSET D : \A x \in T : iter[T] = b[x] + iter[T \ {x}]}
<1>0. \A T \in SUBSET D : T # {} => first(T) \in T /\ first(T) \in D
  OBVIOUS
<1>1. Picks(pick, D)
  BY <1>0 DEF Picks
<1>2. step \in [D -> [Int -> Int]]
  OBVIOUS
<1>3. \E g : g = F(g)
  <2>1. PICK g \in [SUBSET D -> Int] : Folds(g, D, zero, pick, step)
    <3>1. zero \in Int
      OBVIOUS
    <3>. HIDE DEF pick, step, zero
    <3>. QED  BY <1>1, <1>2, <3>1, FoldExists
  <2>2. ASSUME NEW T \in SUBSET D, T # {}
        PROVE  step[pick[T]][g[T \ {pick[T]}]] = b[first(T)] + g[T \ {first(T)}]
    <3>1. first(T) \in D /\ pick[T] = first(T)
      BY <1>0, <2>2
    <3>2. g[T \ {first(T)}] \in Int
      OBVIOUS
    <3>. HIDE DEF pick, first
    <3>. QED  BY <3>1, <3>2
  <2>3. g = F(g)
    <3>. HIDE DEF step, pick, first
    <3>. QED  BY <2>1, <2>2 DEF Folds
  <2>. QED  BY <2>3
<1>4. iter = F(iter)
  <2>. HIDE DEF F
  <2>. QED  BY <1>3
<1>5. Total(b) = iter[D]
  <2>. USE DEF Total, FoldFunction, FoldFunctionOnSet, MapThenFoldSet
  <2>1. DOMAIN b = D
    OBVIOUS
  <2>. QED  BY <2>1
<1>. HIDE DEF iter
<1>6. iter[{}] = 0 /\ iter = [T \in SUBSET D |-> iter[T]]
  BY <1>4
<1>7. \A T \in SUBSET D : T # {} => iter[T] = b[first(T)] + iter[T \ {first(T)}]
  <2>. HIDE DEF first
  <2>. QED  BY <1>4
<1>. HIDE DEF F, first
<1>8. \A T \in SUBSET D : T \in Typed
  <2>1. ASSUME NEW T \in SUBSET D, \A x \in T : T \ {x} \in Typed
        PROVE  T \in Typed
    <3>1. CASE T = {}
      BY <1>6, <3>1
    <3>2. CASE T # {}
      <4>1. first(T) \in T /\ first(T) \in D
        BY <1>0, <3>2
      <4>2. iter[T \ {first(T)}] \in Int /\ b[first(T)] \in Int
        BY <2>1, <4>1
      <4>3. iter[T] = b[first(T)] + iter[T \ {first(T)}]
        BY <1>7, <3>2
      <4>4. iter[T] \in Int
        BY <4>2, <4>3
      <4>. QED  BY <4>4
    <3>. QED  BY <3>1, <3>2
  <2>. HIDE DEF Typed
  <2>. QED  BY <2>1, FiniteInduction
<1>9. iter \in [SUBSET D -> Int]
  BY <1>6, <1>8
<1>10. \A T \in SUBSET D : T \in AnyFirst
  <2>1. ASSUME NEW T \in SUBSET D, \A x \in T : T \ {x} \in AnyFirst, NEW x \in T
        PROVE  iter[T] = b[x] + iter[T \ {x}]
    <3>. DEFINE c == first(T)
                rest == (T \ {x}) \ {c}
    <3>1. c \in T /\ iter[T] = b[c] + iter[T \ {c}]
      BY <1>0, <1>7
    <3>. HIDE DEF c
    <3>2. CASE x # c
      <4>1. iter[T \ {c}] = b[x] + iter[(T \ {c}) \ {x}]
        BY <2>1, <3>1, <3>2
      <4>2. iter[T \ {x}] = b[c] + iter[rest]
        BY <2>1, <3>1, <3>2
      <4>3. (T \ {c}) \ {x} = rest
        OBVIOUS
      <4>4. PICK p \in Int, q \in Int, r \in Int :
               p = b[x] /\ q = b[c] /\ r = iter[rest]
        BY <1>9, <3>1
      <4>. HIDE DEF rest
      <4>5. iter[T] = q + (p + r) /\ iter[T \ {x}] = q + r
        BY <3>1, <4>1, <4>2, <4>3, <4>4
      <4>6. q + (p + r) = p + (q + r)
        OBVIOUS
      <4>. QED  BY <4>4, <4>5, <4>6
    <3>3. CASE x = c
      BY <3>1, <3>3
    <3>. QED  BY <3>2, <3>3
  <2>2. \A T \in SUBSET D : (\A x \in T : T \ {x} \in AnyFirst) => T \in AnyFirst
    BY <2>1
  <2>. HIDE DEF AnyFirst
  <2>. QED  BY <2>2, FiniteInduction
<1>11. Totals(iter, b, D)
  BY <1>6, <1>9, <1>10 DEF Totals
<1>. QED  BY <1>5, <1>11

\* b and c are the same on S.
Agree(b, c, S) == \A x \in S : b[x] = c[x]

\* Balances that agree on a set of accounts have the same total there.
LEMMA TotalsAgree ==
  ASSUME NEW D, IsFiniteSet(D), NEW b, NEW c, NEW g, NEW h,
         Totals(g, b, D), Totals(h, c, D), NEW S \in SUBSET D,
         Agree(b, c, S)
  PROVE  g[S] = h[S]
<1>. DEFINE P == {T \in SUBSET D : T \subseteq S => g[T] = h[T]}
<1>1. ASSUME NEW T \in SUBSET D, \A x \in T : T \ {x} \in P
      PROVE  T \in P
  <2>1. CASE T = {}
    BY <2>1 DEF Totals
  <2>2. ASSUME NEW x \in T, T \subseteq S
        PROVE  g[T] = h[T]
    <3>1. g[T] = b[x] + g[T \ {x}] /\ h[T] = c[x] + h[T \ {x}]
      BY DEF Totals
    <3>2. g[T \ {x}] = h[T \ {x}] /\ b[x] = c[x]
      BY <1>1, <2>2 DEF Agree
    <3>. QED  BY <3>1, <3>2
  <2>. QED  BY <2>1, <2>2
<1>2. \A T \in SUBSET D : T \in P
  <2>. HIDE DEF P
  <2>. QED  BY <1>1, FiniteInduction
<1>. QED  BY <1>2

\* The total of the balances at the start.
LEMMA TotalOfSame ==
  ASSUME NEW D, IsFiniteSet(D), NEW v \in Int
  PROVE  Total([a \in D |-> v]) = v * Cardinality(D)
<1>. DEFINE b == [a \in D |-> v]
<1>1. b \in [D -> Int] /\ \A x \in D : b[x] = v
  OBVIOUS
<1>. HIDE DEF b
<1>2. PICK g : Totals(g, b, D) /\ Total(b) = g[D]
  BY <1>1, TotalOf
<1>. DEFINE P == {T \in SUBSET D : g[T] = v * Cardinality(T)}
<1>3. ASSUME NEW T \in SUBSET D, \A x \in T : T \ {x} \in P
      PROVE  T \in P
  <2>1. CASE T = {}
    <3>1. g[T] = 0 /\ Cardinality(T) = 0
      BY <1>2, <2>1, FS_EmptySet DEF Totals
    <3>2. v * 0 = 0
      OBVIOUS
    <3>. QED  BY <3>1, <3>2
  <2>2. ASSUME NEW x \in T
        PROVE  g[T] = v * Cardinality(T)
    <3>1. IsFiniteSet(T) /\ Cardinality(T) \in Nat
      BY FS_Subset, FS_CardinalityType
    <3>2. Cardinality(T \ {x}) = Cardinality(T) - 1
      BY <3>1, FS_RemoveElement
    <3>3. g[T] = v + g[T \ {x}] /\ g[T \ {x}] = v * Cardinality(T \ {x})
      BY <1>1, <1>2, <1>3 DEF Totals
    <3>4. v + v * (Cardinality(T) - 1) = v * Cardinality(T)
      BY <3>1
    <3>. QED  BY <3>2, <3>3, <3>4
  <2>. QED  BY <2>1, <2>2
<1>4. \A T \in SUBSET D : T \in P
  <2>. HIDE DEF P
  <2>. QED  BY <1>3, FiniteInduction
<1>5. g[D] = v * Cardinality(D)
  BY <1>4
<1>. QED  BY <1>2, <1>5 DEF b

\* c is b with d more for x.
Credited(c, b, x, d) == c = [b EXCEPT ![x] = @ + d]

\* The total when one balance changes.
LEMMA TotalOfChanged ==
  ASSUME NEW D, IsFiniteSet(D), NEW b \in [D -> Int], NEW x \in D, NEW d \in Int,
         NEW c \in [D -> Int], Credited(c, b, x, d)
  PROVE  /\ Total(c) = Total(b) + d
         /\ Total(b) \in Int
<1>1. PICK g : Totals(g, b, D) /\ Total(b) = g[D]
  BY TotalOf
<1>2. PICK h : Totals(h, c, D) /\ Total(c) = h[D]
  BY TotalOf
<1>3. PICK S \in SUBSET D : S = D \ {x}
  OBVIOUS
<1>4. c[x] = b[x] + d /\ Agree(b, c, S)
  BY <1>3 DEF Agree, Credited
<1>5. g[S] = h[S]
  BY <1>1, <1>2, <1>4, TotalsAgree
<1>6. g[D] = b[x] + g[S] /\ h[D] = c[x] + h[S]
  BY <1>1, <1>2, <1>3 DEF Totals
<1>7. PICK p \in Int, q \in Int : p = b[x] /\ q = g[S]
  BY <1>1 DEF Totals
<1>8. g[D] = p + q /\ h[D] = (p + d) + q
  BY <1>4, <1>5, <1>6, <1>7
<1>. QED  BY <1>1, <1>2, <1>8

\* A transfer neither makes nor loses money, whoever pays whom and however much.
THEOREM TransferConserves ==
  ASSUME NEW b \in [Account -> Int], NEW t \in Payload
  PROVE  Total(Transferred(b, t)) = Total(b)
<1>1. PICK s \in Account, r \in Account, d \in Int :
         s = t.sender /\ r = t.receiver /\ d = t.amount
  BY PayloadAssumption
<1>2. PICK e \in Int : e = -d
  OBVIOUS
<1>. DEFINE debited == [b EXCEPT ![s] = @ + e]
            all == [debited EXCEPT ![r] = @ + d]
<1>3. debited = [b EXCEPT ![s] = @ - d]
  BY <1>2
<1>4. Transferred(b, t) = all
  BY <1>1, <1>3 DEF Transferred
<1>5. debited \in [Account -> Int] /\ all \in [Account -> Int]
  OBVIOUS
<1>6. Credited(debited, b, s, e) /\ Credited(all, debited, r, d)
  BY DEF Credited
<1>. HIDE DEF debited, all
<1>7. Total(debited) = Total(b) + e /\ Total(b) \in Int
  BY <1>5, <1>6, AccountAssumption, TotalOfChanged
<1>8. Total(all) = Total(debited) + d
  BY <1>5, <1>6, AccountAssumption, TotalOfChanged
<1>9. Total(all) = Total(b)
  BY <1>2, <1>7, <1>8
<1>. QED  BY <1>4, <1>9

\* What a step may make of the balances of a server.
LEMMA MoveBalances ==
  ASSUME ServerTypeOK, HandsFull, NEW n \in Node, ServerMove(n)
  PROVE  \/ UNCHANGED nodeBalances
         \/ nodeBalances' = [nodeBalances EXCEPT ![n] = StartBalances]
         \/ \E t \in Payload :
              nodeBalances' = [nodeBalances EXCEPT ![n] = Transferred(nodeBalances[n], t)]
<1>1. CASE UNCHANGED nodeBalances
  BY <1>1
<1>2. CASE Flush(n)
  BY <1>2 DEF Flush, execVars
<1>3. ASSUME NEW i \in DOMAIN executors[n], ExecApply(n, i)
      PROVE  \E t \in Payload :
               nodeBalances' = [nodeBalances EXCEPT ![n] = Transferred(nodeBalances[n], t)]
  <2>1. PICK e \in Executor : e = executors[n][i]
    BY ServerParts
  <2>2. e.pc = "apply" /\ e.entry.tx \in Request
    BY <1>3, <2>1 DEF ExecApply, HandsFull
  <2>3. e.entry.tx.tx \in Payload
    BY <2>2 DEF Request
  <2>4. nodeBalances' = [nodeBalances EXCEPT ![n] =
                           Transferred(nodeBalances[n], e.entry.tx.tx)]
    BY <1>3, <2>1 DEF ExecApply
  <2>. QED  BY <2>3, <2>4
<1>. QED  BY <1>1, <1>2, <1>3 DEF ServerMove, Kill, Revive, BecomeMalicious, PrePrepare,
          ServerStep, CollectedPrepare, WriteBack, Execute, ExecWake, ExecSleep,
          ExecRead, ExecCrash, execVars

\* Conserved, in terms of Total.
TotalsKept == \A n \in Node : Total(nodeBalances[n]) = Total(StartBalances)

\* The accounts of every server have together what they started with, in every
\* state, whatever executors a Flush has left behind, however often an entry is
\* applied, and although a client may overdraw or pay himself.
THEOREM MoneyConserved == Spec => []Conserved
<1>1. Total(StartBalances) = StartBalance * Cardinality(Account)
  <2>1. PICK v \in Int : v = StartBalance
    BY DEF StartBalance
  <2>2. Total([a \in Account |-> v]) = v * Cardinality(Account)
    BY AccountAssumption, TotalOfSame
  <2>. QED  BY <2>1, <2>2 DEF StartBalances
<1>2. TotalsKept => Conserved
  BY <1>1 DEF Conserved, Total, TotalsKept
<1>3. Init => TypeInv /\ TotalsKept
  BY TypeStart DEF Init, ServerInit, TotalsKept
<1>4. TypeInv /\ TotalsKept /\ [Next]_sessionVars => (TypeInv /\ TotalsKept)'
  <2>. SUFFICES ASSUME TypeInv, TotalsKept, [Next]_sessionVars
                PROVE  TotalsKept'
    BY TypeStep
  <2>1. ServerTypeOK /\ HandsFull
    BY DEF TypeInv, SessionTypeOK
  <2>2. CASE UNCHANGED nodeBalances
    BY <2>2 DEF TotalsKept
  <2>3. ASSUME NEW n \in Node, ServerMove(n)
        PROVE  TotalsKept'
    <3>1. ASSUME NEW b, Total(b) = Total(StartBalances),
                 nodeBalances' = [nodeBalances EXCEPT ![n] = b]
          PROVE  TotalsKept'
      BY <2>1, <3>1 DEF ServerTypeOK, TotalsKept
    <3>2. nodeBalances[n] \in [Account -> Int] /\ Total(nodeBalances[n]) = Total(StartBalances)
      BY <2>1, ServerParts DEF TotalsKept
    <3>3. ASSUME NEW t \in Payload, nodeBalances' = [nodeBalances EXCEPT
                                ![n] = Transferred(nodeBalances[n], t)]
          PROVE  TotalsKept'
      <4>1. Total(Transferred(nodeBalances[n], t)) = Total(StartBalances)
        BY <3>2, TransferConserves
      <4>. QED  BY <3>1, <3>3, <4>1
    <3>4. CASE nodeBalances' = [nodeBalances EXCEPT ![n] = StartBalances]
      BY <3>1, <3>4
    <3>. QED  BY <2>1, <2>2, <2>3, <3>3, <3>4, MoveBalances
  <2>. QED  BY <2>2, <2>3, NextServers DEF serverVars, execVars
<1>. QED  BY <1>2, <1>3, <1>4, PTL DEF Spec

-----------------------------------------------------------------------------
(* Balances and the log.                                                    *)

\* Entries 1 to s of a log have transactions.
Full(log, s) == s \in Nat /\ \A i \in 1 .. s : log[i].tx \in Request

\* The balances after the entries of a log come about one entry after the other.
LEMMA EntryByEntry ==
  ASSUME NEW log, NEW s, Full(log, s)
  PROVE  \E f \in [0 .. s -> [Account -> Int]] :
           /\ f[0] = StartBalances
           /\ \A i \in 1 .. s : f[i] = Transferred(f[i - 1], log[i].tx.tx)
           /\ f[s] = BalancesAfter(log, s)
<1>. DEFINE S == 1 .. s
            V == [Account -> Int]
            seq == SubSeq(log, 1, s)
            E == {log[i] : i \in S}
            base == StartBalances
            pick == [T \in SUBSET S |-> Max(T)]
            step == [i \in S |-> [b \in V |-> Transferred(b, seq[i].tx.tx)]]
            F(g) == [T \in SUBSET S |-> IF T = {} THEN base
                       ELSE Transferred(g[T \ {Max(T)}], seq[Max(T)].tx.tx)]
            iter == CHOOSE g : g = F(g)
<1>1. s \in Nat /\ \A i \in S : log[i].tx.tx \in Payload
  BY DEF Full, Request
<1>2. seq \in Seq(E) /\ Len(seq) = s /\ \A i \in S : seq[i] = log[i]
  <2>1. \A i \in 1 .. s : log[i] \in E
    OBVIOUS
  <2>2. /\ seq \in Seq(E) /\ Len(seq) = IF 1 <= s THEN s - 1 + 1 ELSE 0
        /\ \A i \in 1 .. s - 1 + 1 : seq[i] = log[1 + i - 1]
    <3>. HIDE DEF E
    <3>. QED  BY <1>1, <2>1, SubSeqProperties
  <2>3. s - 1 + 1 = s /\ \A i \in S : 1 + i - 1 = i
    BY <1>1
  <2>4. Len(seq) = s
    BY <1>1, <2>2
  <2>. HIDE DEF seq, E
  <2>. QED  BY <2>2, <2>3, <2>4
<1>3. DOMAIN seq = S
  BY <1>2, LenProperties
<1>. HIDE DEF seq
<1>4. base \in V
  BY DEF StartBalances, StartBalance
<1>5. Picks(pick, S)
  <2>. USE DEF Picks
  <2>. TAKE T \in SUBSET S
  <2>1. T \in SUBSET (0 .. s)
    OBVIOUS
  <2>. QED  BY <1>1, <2>1, MaxOfInterval
<1>6. \A i \in S : \A b \in V : Transferred(b, seq[i].tx.tx) \in V
  BY <1>1, <1>2, TransferredType
<1>7. step \in [S -> [V -> V]]
  <2>. HIDE DEF V
  <2>. QED  BY <1>6
<1>. HIDE DEF V
<1>8. \E g : g = F(g)
  <2>1. IsFiniteSet(S)
    BY <1>1, FS_Interval
  <2>2. PICK g \in [SUBSET S -> V] : Folds(g, S, base, pick, step)
    <3>. HIDE DEF S, base, pick, step
    <3>. QED  BY <1>4, <1>5, <1>7, <2>1, FoldExists
  <2>3. ASSUME NEW T \in SUBSET S, T # {}
        PROVE  step[pick[T]][g[T \ {pick[T]}]] =
                 Transferred(g[T \ {Max(T)}], seq[Max(T)].tx.tx)
    <3>1. Max(T) \in S /\ pick[T] = Max(T)
      BY <1>5, <2>3 DEF Picks
    <3>2. g[T \ {Max(T)}] \in V
      OBVIOUS
    <3>. QED  BY <3>1, <3>2
  <2>4. g = F(g)
    <3>. HIDE DEF step, pick, base
    <3>. QED  BY <2>2, <2>3 DEF Folds
  <2>. QED  BY <2>4
<1>9. iter = F(iter)
  <2>. HIDE DEF F
  <2>. QED  BY <1>8
<1>10. BalancesAfter(log, s) = iter[S]
  <2>. USE DEF BalancesAfter, FoldLeft, MapThenFoldSet
  <2>. QED  BY <1>3 DEF seq
<1>. HIDE DEF iter
<1>. DEFINE f == [i \in 0 .. s |-> iter[1 .. i]]
            Typed == {i \in 0 .. s : f[i] \in V}
<1>11. f[0] = base
  <2>1. 1 .. 0 = {} /\ {} \in SUBSET S
    OBVIOUS
  <2>2. iter[{}] = base
    BY <1>9, <2>1
  <2>. QED  BY <1>1, <2>1, <2>2
<1>12. ASSUME NEW i \in 1 .. s
       PROVE  f[i] = Transferred(f[i - 1], seq[i].tx.tx)
  <2>1. 1 .. i \in SUBSET S /\ 1 .. i # {} /\ i \in 1 .. i
    <3>1. i \in Nat /\ 1 <= i /\ i <= s
      BY <1>1
    <3>2. i \in 1 .. i
      BY <3>1
    <3>3. \A j \in 1 .. i : j \in S
      BY <1>1, <3>1
    <3>. QED  BY <3>2, <3>3
  <2>2. Max(1 .. i) = i
    BY <2>1, MaxOfWhole
  <2>3. (1 .. i) \ {i} = 1 .. i - 1
    OBVIOUS
  <2>4. iter[1 .. i] = Transferred(iter[1 .. i - 1], seq[i].tx.tx)
    <3>. HIDE DEF base
    <3>. QED  BY <1>9, <2>1, <2>2, <2>3
  <2>. QED  BY <1>1, <2>4
<1>13. \A i \in 0 .. s : f[i] \in V
  <2>1. 0 \in Typed
    BY <1>1, <1>4, <1>11
  <2>2. ASSUME NEW i \in 0 .. s - 1, i \in Typed
        PROVE  i + 1 \in Typed
    <3>1. i + 1 \in S /\ (i + 1) - 1 = i
      BY <1>1
    <3>2. f[i + 1] = Transferred(f[i], seq[i + 1].tx.tx)
      BY <1>12, <3>1
    <3>3. f[i] \in V
      BY <2>2
    <3>4. f[i + 1] \in V
      <4>. HIDE DEF f
      <4>. QED  BY <1>6, <3>1, <3>2, <3>3
    <3>. QED  BY <1>1, <3>4
  <2>3. \A i \in 0 .. s : i \in Typed
    <3>. HIDE DEF Typed
    <3>. QED  BY <1>1, <2>1, <2>2, IntervalInduction
  <2>. QED  BY <2>3
<1>14. f \in [0 .. s -> V]
  BY <1>13
<1>15. f[s] = iter[S]
  BY <1>1
<1>16. \A i \in 1 .. s : f[i] = Transferred(f[i - 1], log[i].tx.tx)
  <2>. HIDE DEF f
  <2>. QED  BY <1>2, <1>12
<1>. HIDE DEF f
<1>. QED  BY <1>10, <1>11, <1>14, <1>15, <1>16 DEF V

\* Before any entry the balances are those of the start; each entry with a
\* transaction adds its transfer.
LEMMA BalancesNext ==
  ASSUME NEW log
  PROVE  /\ BalancesAfter(log, 0) = StartBalances
         /\ \A s : Full(log, s + 1) /\ s \in Nat =>
              BalancesAfter(log, s + 1) =
                Transferred(BalancesAfter(log, s), log[s + 1].tx.tx)
<1>1. Full(log, 0)
  BY DEF Full
<1>2. ASSUME NEW s \in Nat, Full(log, s + 1)
      PROVE  BalancesAfter(log, s + 1) =
               Transferred(BalancesAfter(log, s), log[s + 1].tx.tx)
  <2>1. Full(log, s)
    BY <1>2 DEF Full
  <2>2. PICK f : /\ f[0] = StartBalances
                 /\ \A i \in 1 .. s + 1 : f[i] = Transferred(f[i - 1], log[i].tx.tx)
                 /\ f[s + 1] = BalancesAfter(log, s + 1)
    BY <1>2, EntryByEntry
  <2>3. PICK h : /\ h[0] = StartBalances
                 /\ \A i \in 1 .. s : h[i] = Transferred(h[i - 1], log[i].tx.tx)
                 /\ h[s] = BalancesAfter(log, s)
    BY <2>1, EntryByEntry
  <2>. DEFINE Same == {i \in 0 .. s : f[i] = h[i]}
  <2>4. 0 \in Same
    BY <2>2, <2>3
  <2>5. ASSUME NEW i \in 0 .. s - 1, i \in Same
        PROVE  i + 1 \in Same
    <3>1. i + 1 \in 1 .. s /\ i + 1 \in 1 .. s + 1 /\ (i + 1) - 1 = i
      OBVIOUS
    <3>. QED  BY <2>2, <2>3, <2>5, <3>1
  <2>6. \A i \in 0 .. s : i \in Same
    <3>. HIDE DEF Same
    <3>. QED  BY <2>4, <2>5, IntervalInduction
  <2>7. f[s] = h[s]
    BY <2>6
  <2>8. s + 1 \in 1 .. s + 1 /\ (s + 1) - 1 = s
    OBVIOUS
  <2>. QED  BY <2>2, <2>3, <2>7, <2>8
<1>3. BalancesAfter(log, 0) = StartBalances
  BY <1>1, EntryByEntry
<1>. QED  BY <1>2, <1>3

\* The balances after s entries depend on these entries only.
LEMMA BalancesOfPrefix ==
  ASSUME NEW log, NEW log2, NEW s \in Nat, \A i \in 1 .. s : log[i] = log2[i]
  PROVE  BalancesAfter(log, s) = BalancesAfter(log2, s)
<1>1. SubSeq(log, 1, s) = SubSeq(log2, 1, s)
  <2>. DEFINE E == {log[i] : i \in 1 .. s}
              p == SubSeq(log, 1, s)
              q == SubSeq(log2, 1, s)
  <2>1. \A i \in 1 .. s : log[i] \in E /\ log2[i] \in E
    OBVIOUS
  <2>. HIDE DEF E
  <2>2. /\ p \in Seq(E) /\ Len(p) = IF 1 <= s THEN s - 1 + 1 ELSE 0
        /\ \A i \in 1 .. s - 1 + 1 : p[i] = log[1 + i - 1]
    BY <2>1, SubSeqProperties
  <2>3. /\ q \in Seq(E) /\ Len(q) = IF 1 <= s THEN s - 1 + 1 ELSE 0
        /\ \A i \in 1 .. s - 1 + 1 : q[i] = log2[1 + i - 1]
    BY <2>1, SubSeqProperties
  <2>4. s - 1 + 1 = s /\ \A i \in 1 .. s : 1 + i - 1 = i
    OBVIOUS
  <2>. HIDE DEF p, q
  <2>5. Len(p) = s /\ Len(q) = s
    BY <2>2, <2>3
  <2>6. \A i \in 1 .. Len(p) : p[i] = q[i]
    BY <2>2, <2>3, <2>4, <2>5
  <2>7. p = q
    BY <2>2, <2>3, <2>5, <2>6, SeqEqual
  <2>. QED  BY <2>7 DEF p, q
<1>. QED  BY <1>1 DEF BalancesAfter

\* A log that keeps what executors may apply and what is committed.
LEMMA SoundLog ==
  ASSUME NEW ex \in Seq(Executor), ex # <<>>, NEW log, NEW log2, NEW balances,
         Sound(ex, log, balances),
         \A s \in SeqNums : Executable(log, s) => log2[s] = log[s],
         \A s \in SeqNums : log[s].isCommitted => log2[s].isCommitted
  PROVE  Sound(ex, log2, balances)
<1>1. \A s : Executable(log, s) => Executable(log2, s) /\ log2[s] = log[s]
  BY DEF Executable
<1>2. HeldFromLog(ex, log2)
  BY <1>1 DEF Sound, HeldFromLog
<1>3. PassedInLog(ex, log2)
  BY <1>1 DEF Sound, PassedInLog
<1>4. OldHaveReached(ex, log2)
  BY DEF Sound, OldHaveReached
<1>5. BalancesFollow(ex, log2, balances)
  <2>. SUFFICES ASSUME OldWait(ex, log2)
                PROVE  balances = BalancesAfter(log2, NewestOf(ex).seqCounter - 1)
    BY DEF BalancesFollow
  <2>1. OldWait(ex, log)
    BY DEF OldWait
  <2>2. NewestOf(ex) \in Executor
    BY ElementOfSeq, EmptySeq, LenProperties DEF NewestOf
  <2>3. PICK k \in Nat : k = NewestOf(ex).seqCounter - 1
    BY <2>2, ExecutorFields
  <2>4. \A s \in 1 .. k : log[s] = log2[s]
    BY <1>1, <2>3 DEF Sound, PassedInLog
  <2>5. BalancesAfter(log, k) = BalancesAfter(log2, k)
    BY <2>4, BalancesOfPrefix
  <2>. QED  BY <2>1, <2>3, <2>5 DEF Sound, BalancesFollow
<1>. QED  BY <1>2, <1>3, <1>4, <1>5 DEF Sound

\* After a Flush that met no executor with an entry in its hands.
LEMMA SoundFlush ==
  ASSUME NEW ex \in Seq(Executor), \A i \in DOMAIN ex : ex[i].pc # "apply",
         NEW all, all = Append([i \in DOMAIN ex |-> Flushed(ex[i])], NewExecutor)
  PROVE  Sound(all, EmptyLog, StartBalances) /\ all # <<>>
<1>. DEFINE m == Len(ex)
<1>1. m \in Nat /\ DOMAIN ex = 1 .. m /\ \A i \in 1 .. m : ex[i] \in Executor
  BY LenProperties, ElementOfSeq
<1>2. /\ all \in Seq(Executor) /\ Len(all) = m + 1
      /\ \A i \in 1 .. m : all[i] = Flushed(ex[i])
      /\ all[m + 1] = NewExecutor
  BY FlushedExecutors
<1>3. DOMAIN all = 1 .. m + 1 /\ all # <<>>
  BY <1>1, <1>2, LenProperties, EmptySeq
<1>4. ASSUME NEW i \in 1 .. m
      PROVE  /\ all[i].since = all[i].seqCounter /\ all[i].seqCounter \in Nat
             /\ all[i].pc # "apply"
  <2>1. PICK e \in Executor : e = ex[i]
    BY <1>1
  <2>2. all[i] = Flushed(e) /\ e.pc # "apply"
    BY <1>1, <1>2, <2>1
  <2>3. /\ e.seqCounter \in Nat /\ e.pc \in {"idle", "scan", "apply"}
        /\ Flushed(e).seqCounter = e.seqCounter /\ Flushed(e).since = e.seqCounter
        /\ Flushed(e).pc = (IF e.pc = "idle" THEN "scan" ELSE e.pc)
    BY FlushedType, ExecutorFields
  <2>. QED  BY <2>2, <2>3
<1>5. NewestOf(all).seqCounter = 1 /\ all[m + 1].pc = "idle"
  BY <1>2 DEF NewestOf, NewExecutor
<1>. HIDE DEF m
<1>6. HeldFromLog(all, EmptyLog)
  BY <1>1, <1>3, <1>4, <1>5 DEF HeldFromLog
<1>7. PassedInLog(all, EmptyLog)
  BY <1>5 DEF PassedInLog
<1>8. OldHaveReached(all, EmptyLog)
  BY <1>1, <1>2, <1>4 DEF OldHaveReached
<1>9. BalancesFollow(all, EmptyLog, StartBalances)
  BY <1>5, BalancesNext DEF BalancesFollow
<1>. QED  BY <1>3, <1>6, <1>7, <1>8, <1>9 DEF Sound

\* ex2 is ex but for executor i, which is e.
OneMoved(ex, ex2, i, e) ==
  /\ ex2 \in Seq(Executor) /\ Len(ex2) = Len(ex) /\ i \in DOMAIN ex /\ ex2[i] = e
  /\ \A j \in DOMAIN ex : j # i => ex2[j] = ex[j]

\* The other executors are as they were.
LEMMA OthersStay ==
  ASSUME NEW ex \in Seq(Executor), NEW ex2, NEW i, NEW e, OneMoved(ex, ex2, i, e)
  PROVE  /\ i \in 1 .. Len(ex) /\ Len(ex) \in Nat /\ Len(ex2) = Len(ex)
         /\ DOMAIN ex = 1 .. Len(ex) /\ DOMAIN ex2 = 1 .. Len(ex)
         /\ ex[i] \in Executor /\ NewestOf(ex) \in Executor
         /\ NewestOf(ex2) = IF i = Len(ex) THEN e ELSE NewestOf(ex)
         /\ \A j \in 1 .. Len(ex) : ex2[j] = IF j = i THEN e ELSE ex[j]
<1>1. /\ DOMAIN ex = 1 .. Len(ex) /\ DOMAIN ex2 = 1 .. Len(ex) /\ Len(ex) \in Nat
      /\ i \in 1 .. Len(ex)
  BY LenProperties DEF OneMoved
<1>2. Len(ex) \in 1 .. Len(ex) /\ ex[i] \in Executor /\ ex[Len(ex)] \in Executor
  BY <1>1, ElementOfSeq
<1>. QED  BY <1>1, <1>2 DEF OneMoved, NewestOf

\* An executor that wakes, goes to sleep or takes the next entry from the log.
LEMMA SoundLook ==
  ASSUME NEW ex \in Seq(Executor), NEW log, NEW balances, Sound(ex, log, balances),
         NEW ex2, NEW i, NEW e \in Executor, OneMoved(ex, ex2, i, e),
         e.seqCounter = ex[i].seqCounter, e.since = ex[i].since, ex[i].pc # "apply",
         e.pc = "apply" =>
           Executable(log, e.seqCounter) /\ e.entry = log[e.seqCounter]
  PROVE  Sound(ex2, log, balances)
<1>1. /\ i \in 1 .. Len(ex) /\ Len(ex) \in Nat /\ Len(ex2) = Len(ex)
      /\ DOMAIN ex = 1 .. Len(ex) /\ DOMAIN ex2 = 1 .. Len(ex)
      /\ ex[i] \in Executor /\ NewestOf(ex) \in Executor
      /\ NewestOf(ex2) = IF i = Len(ex) THEN e ELSE NewestOf(ex)
      /\ \A j \in 1 .. Len(ex) : ex2[j] = IF j = i THEN e ELSE ex[j]
  BY OthersStay
<1>2. HeldFromLog(ex2, log)
  BY <1>1 DEF Sound, HeldFromLog
<1>3. NewestOf(ex2).seqCounter = NewestOf(ex).seqCounter
  BY <1>1 DEF NewestOf
<1>4. PassedInLog(ex2, log)
  BY <1>3 DEF Sound, PassedInLog
<1>5. OldHaveReached(ex2, log)
  <2>. SUFFICES ASSUME NEW j \in 1 .. Len(ex) - 1
                PROVE  /\ ex2[j].since <= ex2[j].seqCounter
                       /\ ex2[j].pc = "apply" \/ ex2[j].since < ex2[j].seqCounter =>
                            ex2[j].since \in SeqNums /\ log[ex2[j].since].isCommitted
    BY <1>1 DEF OldHaveReached
  <2>1. /\ ex[j].since <= ex[j].seqCounter
        /\ ex[j].pc = "apply" \/ ex[j].since < ex[j].seqCounter =>
             ex[j].since \in SeqNums /\ log[ex[j].since].isCommitted
    BY DEF Sound, OldHaveReached
  <2>2. j \in 1 .. Len(ex) /\ ex2[j] = IF j = i THEN e ELSE ex[j]
    BY <1>1
  <2>3. CASE j # i
    BY <2>1, <2>2, <2>3
  <2>4. CASE j = i
    <3>1. PICK c \in Nat, d \in Nat : c = e.since /\ d = e.seqCounter
      BY ExecutorFields
    <3>2. c < d \/ c = d
      BY <2>1, <2>4, <3>1
    <3>3. CASE c < d
      BY <2>1, <2>2, <2>4, <3>1, <3>3
    <3>4. CASE c = d
      BY <2>1, <2>2, <2>4, <3>1, <3>4 DEF Executable
    <3>. QED  BY <3>2, <3>3, <3>4
  <2>. QED  BY <2>3, <2>4
<1>6. OldWait(ex2, log) => OldWait(ex, log)
  <2>1. \A j \in 1 .. Len(ex) - 1 : ex2[j].since = ex[j].since
    BY <1>1
  <2>. QED  BY <1>1, <2>1 DEF OldWait
<1>7. BalancesFollow(ex2, log, balances)
  BY <1>3, <1>6 DEF Sound, BalancesFollow
<1>. QED  BY <1>2, <1>4, <1>5, <1>7 DEF Sound

\* An executor that applies the entry it holds.
LEMMA SoundApply ==
  ASSUME NEW ex \in Seq(Executor), NEW log \in [SeqNums -> Entry], NEW balances,
         Sound(ex, log, balances),
         NEW ex2, NEW i, NEW e \in Executor, OneMoved(ex, ex2, i, e),
         e.seqCounter = ex[i].seqCounter + 1, e.since = ex[i].since,
         e.pc = "scan", ex[i].pc = "apply"
  PROVE  /\ [log EXCEPT ![ex[i].seqCounter] = ex[i].entry] = log
         /\ Sound(ex2, log, Transferred(balances, ex[i].entry.tx.tx))
<1>0. PICK m \in Nat : m = Len(ex)
  BY LenProperties
<1>1. /\ i \in 1 .. m /\ Len(ex2) = m
      /\ DOMAIN ex = 1 .. m /\ DOMAIN ex2 = 1 .. m
      /\ ex[i] \in Executor /\ NewestOf(ex) \in Executor
      /\ NewestOf(ex2) = IF i = m THEN e ELSE NewestOf(ex)
      /\ \A j \in 1 .. m : ex2[j] = IF j = i THEN e ELSE ex[j]
  BY <1>0, OthersStay
<1>2. PICK c \in Nat \ {0}, d \in Nat : c = ex[i].seqCounter /\ d = ex[i].since
  BY <1>1, ExecutorFields
<1>10. /\ e.seqCounter = c + 1 /\ e.since = d /\ ex[i].pc = "apply" /\ ex2[i] = e
       /\ i = m => NewestOf(ex2) = e /\ NewestOf(ex) = ex[i]
       /\ i # m => i \in 1 .. m - 1 /\ NewestOf(ex2) = NewestOf(ex)
  BY <1>0, <1>1, <1>2 DEF NewestOf
<1>11. \A j \in 1 .. m - 1 : j \in 1 .. m /\ j # m
  BY <1>0
<1>12. ASSUME NEW j \in 1 .. m - 1
       PROVE  ex2[j].since = ex[j].since /\ (j # i => ex2[j] = ex[j])
  <2>1. j \in 1 .. m /\ ex2[j] = IF j = i THEN e ELSE ex[j]
    BY <1>1, <1>11
  <2>2. CASE j = i
    BY <1>2, <1>10, <2>1, <2>2
  <2>3. CASE j # i
    BY <2>1, <2>3
  <2>. QED  BY <2>2, <2>3
<1>3. Executable(log, c) /\ ex[i].entry = log[c]
  BY <1>1, <1>2 DEF Sound, HeldFromLog
<1>4. [log EXCEPT ![ex[i].seqCounter] = ex[i].entry] = log
  BY <1>2, <1>3 DEF Executable
<1>5. HeldFromLog(ex2, log)
  BY <1>1 DEF Sound, HeldFromLog
<1>6. PassedInLog(ex2, log)
  <2>1. CASE i = m
    <3>1. NewestOf(ex2).seqCounter - 1 = c /\ NewestOf(ex).seqCounter = c
      BY <1>2, <1>10, <2>1
    <3>2. \A s \in 1 .. c : s = c \/ s \in 1 .. c - 1
      BY <1>2
    <3>. QED  BY <1>3, <3>1, <3>2 DEF Sound, PassedInLog
  <2>2. CASE i # m
    BY <1>10, <2>2 DEF Sound, PassedInLog
  <2>. QED  BY <2>1, <2>2
<1>7. i # m => i \in 1 .. m - 1 /\ d <= c /\ d \in SeqNums /\ log[d].isCommitted
  BY <1>0, <1>2, <1>10 DEF Sound, OldHaveReached
<1>8. OldHaveReached(ex2, log)
  <2>. SUFFICES ASSUME NEW j \in 1 .. m - 1
                PROVE  /\ ex2[j].since <= ex2[j].seqCounter
                       /\ ex2[j].pc = "apply" \/ ex2[j].since < ex2[j].seqCounter =>
                            ex2[j].since \in SeqNums /\ log[ex2[j].since].isCommitted
    BY <1>1 DEF OldHaveReached
  <2>1. j \in 1 .. m /\ j # m
    BY <1>11
  <2>2. CASE j # i
    <3>1. /\ ex[j].since <= ex[j].seqCounter
          /\ ex[j].pc = "apply" \/ ex[j].since < ex[j].seqCounter =>
               ex[j].since \in SeqNums /\ log[ex[j].since].isCommitted
      BY <1>0 DEF Sound, OldHaveReached
    <3>2. ex2[j] = ex[j]
      BY <1>12, <2>2
    <3>. QED  BY <3>1, <3>2
  <2>3. CASE j = i
    <3>1. ex2[j].since = d /\ ex2[j].seqCounter = c + 1
      BY <1>10, <2>3
    <3>2. d <= c /\ d \in SeqNums /\ log[d].isCommitted
      BY <1>7, <2>1, <2>3
    <3>. QED  BY <1>2, <3>1, <3>2
  <2>. QED  BY <2>2, <2>3
<1>9. BalancesFollow(ex2, log, Transferred(balances, ex[i].entry.tx.tx))
  <2>. SUFFICES ASSUME OldWait(ex2, log)
                PROVE  Transferred(balances, ex[i].entry.tx.tx) =
                         BalancesAfter(log, NewestOf(ex2).seqCounter - 1)
    BY DEF BalancesFollow
  <2>2. OldWait(ex, log)
    BY <1>0, <1>1, <1>12 DEF OldWait
  <2>3. i = m
    <3>1. SUFFICES ASSUME i # m PROVE FALSE
      OBVIOUS
    <3>2. i \in 1 .. m - 1 /\ d \in SeqNums /\ log[d].isCommitted
      BY <1>7, <3>1
    <3>3. d < d
      BY <1>0, <1>2, <2>2, <3>2 DEF OldWait
    <3>. QED  BY <1>2, <3>3
  <2>4. NewestOf(ex2).seqCounter - 1 = c /\ NewestOf(ex).seqCounter = c
    BY <1>2, <1>10, <2>3
  <2>5. PICK k \in Nat : k + 1 = c /\ k = c - 1
    BY <1>2
  <2>6. balances = BalancesAfter(log, k)
    BY <2>2, <2>4, <2>5 DEF Sound, BalancesFollow
  <2>7. Full(log, k + 1)
    <3>1. \A s \in 1 .. c : Executable(log, s)
      BY <1>6, <2>4 DEF PassedInLog
    <3>2. \A s \in 1 .. c : log[s].tx \in Request
      BY <3>1 DEF Executable, Entry
    <3>. QED  BY <1>2, <2>5, <3>2 DEF Full
  <2>8. BalancesAfter(log, k + 1) = Transferred(BalancesAfter(log, k), log[k + 1].tx.tx)
    BY <2>7, BalancesNext
  <2>. QED  BY <1>3, <2>4, <2>5, <2>6, <2>8
<1>. QED  BY <1>4, <1>5, <1>6, <1>8, <1>9 DEF Sound

\* A step of a server is about its own log, executors and balances.
LEMMA MoveOthers ==
  ASSUME ServerTypeOK, HandsFull, NEW n \in Node, ServerMove(n), NEW m \in Node, m # n
  PROVE  /\ executors'[m] = executors[m] /\ logs'[m] = logs[m]
         /\ nodeBalances'[m] = nodeBalances[m] /\ disturbed'[m] = disturbed[m]
<1>. USE DEF ServerTypeOK
<1>1. CASE Kill(n) \/ Revive(n) \/ BecomeMalicious(n)
  BY <1>1 DEF Kill, Revive, BecomeMalicious, logVars, execVars
<1>2. CASE Flush(n)
  BY <1>2 DEF Flush, logVars, execVars
<1>3. ASSUME NEW r \in Request, PrePrepare(n, r)
      PROVE  executors' = executors /\ nodeBalances' = nodeBalances
             /\ disturbed' = disturbed /\ logs'[m] = logs[m]
  BY <1>3 DEF PrePrepare, execVars
<1>4. ASSUME NEW s \in SeqNums, CollectedPrepare(n, s)
      PROVE  UNCHANGED <<executors, nodeBalances, disturbed, logs>>
  BY <1>4 DEF CollectedPrepare, execVars
<1>5. ASSUME NEW w \in windows[n], WriteBack(n, w)
      PROVE  executors' = executors /\ nodeBalances' = nodeBalances
             /\ disturbed'[m] = disturbed[m] /\ logs'[m] = logs[m]
  BY <1>5 DEF WriteBack
<1>6. ASSUME NEW i \in DOMAIN executors[n], Execute(n, i)
      PROVE  executors'[m] = executors[m] /\ nodeBalances'[m] = nodeBalances[m]
             /\ disturbed' = disturbed /\ logs'[m] = logs[m]
  <2>1. CASE ExecWake(n, i) \/ ExecSleep(n, i)
    BY <2>1 DEF ExecWake, ExecSleep, Goto, logVars
  <2>2. CASE ExecRead(n, i)
    BY <2>2 DEF ExecRead, logVars
  <2>3. CASE ExecCrash(n, i)
    BY <2>3 DEF ExecCrash, logVars, execVars
  <2>4. CASE ExecApply(n, i)
    BY <2>4 DEF ExecApply
  <2>. QED  BY <1>6, <2>1, <2>2, <2>3, <2>4 DEF Execute
<1>. QED  BY <1>1, <1>2, <1>3, <1>4, <1>5, <1>6 DEF ServerMove, ServerStep

\* Executors that change as OneMoved says.
LEMMA MovedOne ==
  ASSUME ServerTypeOK, NEW n \in Node, NEW i \in DOMAIN executors[n],
         NEW e \in Executor, executors' = [executors EXCEPT ![n][i] = e]
  PROVE  OneMoved(executors[n], executors'[n], i, e) /\ executors'[n] # <<>>
<1>1. /\ executors'[n] \in Seq(Executor) /\ Len(executors'[n]) = Len(executors[n])
      /\ executors'[n][i] = e
      /\ \A j \in DOMAIN executors[n] : j # i => executors'[n][j] = executors[n][j]
  BY ExecutorChanged
<1>2. Len(executors[n]) # 0
  BY ServerParts
<1>. QED  BY <1>1, <1>2, EmptySeq DEF OneMoved

\* A server that is sound stays so, or is disturbed, whatever its executors do.
LEMMA ExecuteSound ==
  ASSUME ServerTypeOK, HandsFull, NEW n \in Node, NEW i \in DOMAIN executors[n],
         Execute(n, i), executors[n] # <<>>,
         Sound(executors[n], logs[n], nodeBalances[n])
  PROVE  executors'[n] # <<>> /\ Sound(executors'[n], logs'[n], nodeBalances'[n])
<1>1. PICK ex \in Seq(Executor), log \in [SeqNums -> Entry], b \in [Account -> Int] :
         ex = executors[n] /\ log = logs[n] /\ b = nodeBalances[n]
  BY ServerParts
<1>2. PICK old \in Executor : old = ex[i]
  BY <1>1, ServerParts
<1>3. ASSUME NEW p \in {"idle", "scan"}, Goto(n, i, p), old.pc # "apply",
             UNCHANGED <<logs, nodeBalances>>
      PROVE  executors'[n] # <<>> /\ Sound(executors'[n], logs'[n], nodeBalances'[n])
  <2>1. [old EXCEPT !.pc = p] \in Executor
    BY DEF Executor
  <2>2. PICK e \in Executor : e = [old EXCEPT !.pc = p]
    BY <2>1
  <2>3. e.pc = p /\ e.seqCounter = old.seqCounter /\ e.since = old.since
    BY <2>2 DEF Executor
  <2>4. executors' = [executors EXCEPT ![n][i] = e]
    BY <1>1, <1>2, <1>3, <2>2 DEF Goto
  <2>5. OneMoved(ex, executors'[n], i, e) /\ executors'[n] # <<>>
    BY <1>1, <2>4, MovedOne
  <2>6. Sound(ex, log, b)
    BY <1>1
  <2>7. e.pc # "apply"
    BY <2>3
  <2>8. Sound(executors'[n], log, b)
    BY <1>2, <1>3, <2>3, <2>5, <2>6, <2>7, SoundLook
  <2>. QED  BY <1>1, <1>3, <2>5, <2>8
<1>4. CASE ExecWake(n, i) \/ ExecSleep(n, i)
  <2>1. old.pc # "apply" /\ UNCHANGED <<logs, nodeBalances>>
    BY <1>1, <1>2, <1>4 DEF ExecWake, ExecSleep, logVars
  <2>. QED  BY <1>3, <1>4, <2>1 DEF ExecWake, ExecSleep
<1>5. CASE ExecRead(n, i)
  <2>1. PICK e \in Executor :
           /\ e = [seqCounter |-> old.seqCounter, since |-> old.since, pc |-> "apply",
                   entry |-> NextEntry(n, i)]
           /\ executors' = [executors EXCEPT ![n][i] = e]
    BY <1>1, <1>2, <1>5, ReadTypes
  <2>2. OneMoved(ex, executors'[n], i, e) /\ executors'[n] # <<>>
    BY <1>1, <2>1, MovedOne
  <2>3. /\ old.pc # "apply" /\ Committed(n, i) /\ NextEntry(n, i).tx # NoTx
        /\ UNCHANGED <<logs, nodeBalances>>
    BY <1>1, <1>2, <1>5 DEF ExecRead, logVars
  <2>4. old.seqCounter \in SeqNums /\ NextEntry(n, i) = log[old.seqCounter]
    BY <1>1, <1>2, <2>3, NextEntryType
  <2>5. Executable(log, e.seqCounter) /\ e.entry = log[e.seqCounter]
    BY <2>1, <2>3, <2>4 DEF Executable, Committed
  <2>6. Sound(ex, log, b)
    BY <1>1
  <2>7. e.seqCounter = ex[i].seqCounter /\ e.since = ex[i].since /\ ex[i].pc # "apply"
    BY <1>2, <2>1, <2>3
  <2>8. Sound(executors'[n], log, b)
    BY <2>2, <2>5, <2>6, <2>7, SoundLook
  <2>. QED  BY <1>1, <2>2, <2>3, <2>8
<1>6. CASE ExecApply(n, i)
  <2>1. PICK e \in Executor :
           /\ e = [seqCounter |-> old.seqCounter + 1, since |-> old.since, pc |-> "scan",
                   entry |-> NoEntry]
           /\ executors' = [executors EXCEPT ![n][i] = e]
    BY <1>1, <1>2, <1>6, ApplyTypes
  <2>2. OneMoved(ex, executors'[n], i, e) /\ executors'[n] # <<>>
    BY <1>1, <2>1, MovedOne
  <2>3. /\ old.pc = "apply"
        /\ nodeBalances' = [nodeBalances EXCEPT ![n] = Transferred(b, old.entry.tx.tx)]
        /\ logs' = [logs EXCEPT ![n][old.seqCounter] = old.entry]
    BY <1>1, <1>2, <1>6 DEF ExecApply
  <2>4. /\ nodeBalances'[n] = Transferred(b, old.entry.tx.tx)
        /\ logs'[n] = [log EXCEPT ![old.seqCounter] = old.entry]
    BY <1>1, <2>3 DEF ServerTypeOK
  <2>5. Sound(ex, log, b)
    BY <1>1
  <2>6. /\ e.seqCounter = ex[i].seqCounter + 1 /\ e.since = ex[i].since
        /\ e.pc = "scan" /\ ex[i].pc = "apply"
    BY <1>2, <2>1, <2>3
  <2>7. /\ [log EXCEPT ![ex[i].seqCounter] = ex[i].entry] = log
        /\ Sound(executors'[n], log, Transferred(b, ex[i].entry.tx.tx))
    BY <2>2, <2>5, <2>6, SoundApply
  <2>. QED  BY <1>2, <2>2, <2>4, <2>7
<1>7. CASE ExecCrash(n, i)
  BY <1>7 DEF ExecCrash, logVars, execVars
<1>. QED  BY <1>4, <1>5, <1>6, <1>7 DEF Execute

\* ... nor whatever is written into its log: a transaction that is accepted goes
\* where none is, and a copy that is written back commits an entry that was not,
\* or repeats what is there, unless the server is disturbed.
LEMMA WrittenSound ==
  ASSUME ServerTypeOK, NEW n \in Node, executors[n] # <<>>,
         Sound(executors[n], logs[n], nodeBalances[n]),
         \/ \E r \in Request : PrePrepare(n, r)
         \/ \E w \in windows[n] : WriteBack(n, w) /\ ~Overtaken(n, w)
  PROVE  executors'[n] # <<>> /\ Sound(executors'[n], logs'[n], nodeBalances'[n])
<1>1. PICK ex \in Seq(Executor), log \in [SeqNums -> Entry], b \in [Account -> Int] :
         ex = executors[n] /\ log = logs[n] /\ b = nodeBalances[n]
  BY ServerParts
<1>2. ASSUME NEW log2, log2 = logs'[n], UNCHANGED <<executors, nodeBalances>>,
             \A s \in SeqNums : Executable(log, s) => log2[s] = log[s],
             \A s \in SeqNums : log[s].isCommitted => log2[s].isCommitted
      PROVE  executors'[n] # <<>> /\ Sound(executors'[n], logs'[n], nodeBalances'[n])
  BY <1>1, <1>2, SoundLog
<1>3. ASSUME NEW r \in Request, PrePrepare(n, r)
      PROVE  executors'[n] # <<>> /\ Sound(executors'[n], logs'[n], nodeBalances'[n])
  <2>. DEFINE free == {s \in SeqNums : logs[n][s].tx = NoTx}
  <2>1. free \in SUBSET Nat /\ free # {}
    BY <1>3 DEF PrePrepare, SeqNums
  <2>2. PICK s \in free : s = Min(free)
    <3>. HIDE DEF free
    <3>. QED  BY <2>1, MinOfNats
  <2>3. logs' = [logs EXCEPT ![n][Min(free)].tx = r]
    BY <1>3 DEF PrePrepare
  <2>4. logs' = [logs EXCEPT ![n][s].tx = r]
    <3>. HIDE DEF free
    <3>. QED  BY <2>2, <2>3
  <2>5. PICK old \in Entry : old = log[s]
    BY <1>1
  <2>6. logs'[n] = [log EXCEPT ![s] = [old EXCEPT !.tx = r]]
    BY <1>1, <2>4, <2>5 DEF ServerTypeOK
  <2>7. s \in SeqNums /\ log[s].tx = NoTx
    BY <1>1
  <2>8. PICK log2 : log2 = logs'[n]
    OBVIOUS
  <2>9. PICK new : new = [old EXCEPT !.tx = r]
    OBVIOUS
  <2>10. new.isCommitted = old.isCommitted
    BY <2>9 DEF Entry
  <2>11. log2 = [log EXCEPT ![s] = new]
    BY <2>6, <2>8, <2>9
  <2>12. \A k \in SeqNums : Executable(log, k) => log2[k] = log[k]
    BY <2>7, <2>11 DEF Executable
  <2>13. \A k \in SeqNums : log[k].isCommitted => log2[k].isCommitted
    BY <2>5, <2>7, <2>10, <2>11
  <2>14. UNCHANGED <<executors, nodeBalances>>
    BY <1>3 DEF PrePrepare, execVars
  <2>. QED  BY <1>2, <2>8, <2>12, <2>13, <2>14
<1>4. ASSUME NEW w \in windows[n], WriteBack(n, w), ~Overtaken(n, w)
      PROVE  executors'[n] # <<>> /\ Sound(executors'[n], logs'[n], nodeBalances'[n])
  <2>1. w \in Window
    BY ServerParts
  <2>2. PICK s \in SeqNums, copy \in Entry : s = w.seq /\ copy = w.entry
    BY <2>1 DEF Window
  <2>3. PICK new : new = [copy EXCEPT !.isCommitted = TRUE]
    OBVIOUS
  <2>4. new = [tx |-> copy.tx, isCommitted |-> TRUE]
    BY <2>3 DEF Entry
  <2>5. PICK log2 : log2 = logs'[n]
    OBVIOUS
  <2>6. log2 = [log EXCEPT ![s] = new]
    BY <1>1, <1>4, <2>2, <2>3, <2>5 DEF WriteBack, ServerTypeOK
  <2>7. log[s].isCommitted => log[s] = new
    <3>1. ASSUME log[s].isCommitted PROVE log[s] = new
      <4>1. log[s].tx = copy.tx
        BY <1>1, <1>4, <2>2, <3>1 DEF Overtaken
      <4>2. PICK old \in Entry : old = log[s]
        OBVIOUS
      <4>3. old.isCommitted = TRUE /\ old = [tx |-> old.tx, isCommitted |-> old.isCommitted]
        BY <3>1, <4>2 DEF Entry
      <4>. QED  BY <2>4, <4>1, <4>2, <4>3
    <3>. QED  BY <3>1
  <2>8. \A k \in SeqNums : Executable(log, k) => log2[k] = log[k]
    BY <2>6, <2>7 DEF Executable
  <2>9. \A k \in SeqNums : log[k].isCommitted => log2[k].isCommitted
    BY <2>4, <2>6
  <2>10. UNCHANGED <<executors, nodeBalances>>
    BY <1>4 DEF WriteBack
  <2>. QED  BY <1>2, <2>5, <2>8, <2>9, <2>10
<1>. QED  BY <1>3, <1>4

\* What happens to a server disturbs it or leaves it sound.
LEMMA MoveSound ==
  ASSUME ServerTypeOK, HandsFull, NEW n \in Node, ServerMove(n), executors[n] # <<>>,
         disturbed[n] \/ Sound(executors[n], logs[n], nodeBalances[n])
  PROVE  /\ executors'[n] # <<>>
         /\ disturbed'[n] \/ Sound(executors'[n], logs'[n], nodeBalances'[n])
<1>1. CASE UNCHANGED <<executors, logs, nodeBalances, disturbed>>
  BY <1>1
<1>2. CASE Kill(n) \/ Revive(n) \/ BecomeMalicious(n)
  BY <1>1, <1>2 DEF Kill, Revive, BecomeMalicious, logVars, execVars
<1>3. CASE Flush(n)
  <2>1. CASE notifyCh[n] > 1
    BY <1>1, <1>3, <2>1 DEF Flush, logVars, execVars
  <2>2. CASE ~(notifyCh[n] > 1)
    <3>. DEFINE all == Append([i \in DOMAIN executors[n] |-> Flushed(executors[n][i])],
                              NewExecutor)
    <3>1. /\ executors'[n] = all /\ logs'[n] = EmptyLog /\ nodeBalances'[n] = StartBalances
          /\ disturbed'[n] = (disturbed[n] \/ Applying(n))
      BY <1>3, <2>2 DEF Flush, ServerTypeOK
    <3>2. executors[n] \in Seq(Executor)
      BY ServerParts
    <3>3. CASE ~Applying(n)
      <4>1. \A i \in DOMAIN executors[n] : executors[n][i].pc # "apply"
        BY <3>3 DEF Applying
      <4>2. Sound(all, EmptyLog, StartBalances) /\ all # <<>>
        BY <3>2, <4>1, SoundFlush
      <4>. QED  BY <3>1, <4>2
    <3>4. all # <<>>
      <4>1. /\ all \in Seq(Executor) /\ Len(all) = Len(executors[n]) + 1
            /\ Len(executors[n]) \in Nat
        BY <3>2, FlushedExecutors, LenProperties
      <4>. HIDE DEF all
      <4>2. Len(all) # 0
        BY <4>1
      <4>. QED  BY <4>2, EmptySeq
    <3>. QED  BY <3>1, <3>3, <3>4
  <2>. QED  BY <2>1, <2>2
<1>4. ASSUME NEW r \in Request, PrePrepare(n, r)
      PROVE  /\ executors'[n] # <<>>
             /\ disturbed'[n] \/ Sound(executors'[n], logs'[n], nodeBalances'[n])
  <2>1. UNCHANGED <<executors, disturbed>>
    BY <1>4 DEF PrePrepare, execVars
  <2>. QED  BY <1>4, <2>1, WrittenSound
<1>5. ASSUME NEW s \in SeqNums, CollectedPrepare(n, s)
      PROVE  /\ executors'[n] # <<>>
             /\ disturbed'[n] \/ Sound(executors'[n], logs'[n], nodeBalances'[n])
  BY <1>1, <1>5 DEF CollectedPrepare, execVars
<1>6. ASSUME NEW w \in windows[n], WriteBack(n, w)
      PROVE  /\ executors'[n] # <<>>
             /\ disturbed'[n] \/ Sound(executors'[n], logs'[n], nodeBalances'[n])
  <2>1. disturbed'[n] = (disturbed[n] \/ Overtaken(n, w)) /\ UNCHANGED executors
    BY <1>6 DEF WriteBack, ServerTypeOK
  <2>. QED  BY <1>6, <2>1, WrittenSound
<1>7. ASSUME NEW i \in DOMAIN executors[n], Execute(n, i)
      PROVE  /\ executors'[n] # <<>>
             /\ disturbed'[n] \/ Sound(executors'[n], logs'[n], nodeBalances'[n])
  <2>1. UNCHANGED disturbed
    BY <1>7 DEF Execute, ExecWake, ExecSleep, ExecRead, ExecCrash, ExecApply
  <2>2. executors'[n] # <<>>
    <3>1. CASE UNCHANGED executors
      BY <3>1
    <3>2. ASSUME NEW e \in Executor, executors' = [executors EXCEPT ![n][i] = e]
          PROVE  executors'[n] # <<>>
      BY <3>2, MovedOne
    <3>3. ASSUME NEW p \in {"idle", "scan", "apply"}, Goto(n, i, p)
          PROVE  executors'[n] # <<>>
      <4>1. [executors[n][i] EXCEPT !.pc = p] \in Executor
        BY <3>3, GotoTypes
      <4>2. PICK e \in Executor : e = [executors[n][i] EXCEPT !.pc = p]
        BY <4>1
      <4>3. executors' = [executors EXCEPT ![n][i] = [executors[n][i] EXCEPT !.pc = p]]
        BY <3>3 DEF Goto
      <4>4. executors' = [executors EXCEPT ![n][i] = e]
        BY <4>2, <4>3, Zenon
      <4>. QED  BY <3>2, <4>4
    <3>4. CASE ExecWake(n, i) \/ ExecSleep(n, i)
      BY <3>3, <3>4 DEF ExecWake, ExecSleep
    <3>5. CASE ExecCrash(n, i)
      BY <3>1, <3>5 DEF ExecCrash, execVars
    <3>6. CASE ExecRead(n, i)
      BY <3>2, <3>6, ReadTypes
    <3>7. CASE ExecApply(n, i)
      BY <3>2, <3>7, ApplyTypes
    <3>. QED  BY <1>7, <3>4, <3>5, <3>6, <3>7 DEF Execute
  <2>. QED  BY <1>7, <2>1, <2>2, ExecuteSound
<1>. QED  BY <1>2, <1>3, <1>4, <1>5, <1>6, <1>7 DEF ServerMove, ServerStep

\* A server that no Flush has met with an entry in the hands of an executor, and
\* in which no late copy has replaced a committed transaction, has the balances
\* of the transactions its newest executor has passed, each applied once, until
\* its log reaches the counter of an old executor: for any number of servers,
\* executors, handlers and entries.
THEOREM BalancesFollowLog == Spec => []BalancesFromLog
<1>1. Init => TypeInv /\ LogInv
  <2>. SUFFICES ASSUME Init, NEW n \in Node
                PROVE  executors[n] # <<>> /\ Sound(executors[n], logs[n], nodeBalances[n])
    BY TypeStart DEF LogInv
  <2>1. /\ executors[n] = <<NewExecutor>> /\ logs[n] = EmptyLog
        /\ nodeBalances[n] = StartBalances
    BY DEF Init, ServerInit
  <2>2. /\ <<NewExecutor>> # <<>> /\ Len(<<NewExecutor>>) = 1
        /\ <<NewExecutor>>[1] = NewExecutor /\ DOMAIN <<NewExecutor>> = {1}
    OBVIOUS
  <2>3. NewestOf(<<NewExecutor>>) = NewExecutor
    BY <2>2 DEF NewestOf
  <2>4. HeldFromLog(<<NewExecutor>>, EmptyLog)
    BY <2>2 DEF HeldFromLog, NewExecutor
  <2>5. PassedInLog(<<NewExecutor>>, EmptyLog)
    BY <2>3 DEF PassedInLog, NewExecutor
  <2>6. OldHaveReached(<<NewExecutor>>, EmptyLog)
    BY <2>2 DEF OldHaveReached
  <2>7. BalancesFollow(<<NewExecutor>>, EmptyLog, StartBalances)
    BY <2>3, BalancesNext DEF BalancesFollow, NewExecutor
  <2>. QED  BY <2>1, <2>2, <2>4, <2>5, <2>6, <2>7 DEF Sound
<1>2. TypeInv /\ LogInv /\ [Next]_sessionVars => (TypeInv /\ LogInv)'
  <2>. SUFFICES ASSUME TypeInv, LogInv, [Next]_sessionVars
                PROVE  LogInv'
    BY TypeStep
  <2>1. ServerTypeOK /\ HandsFull
    BY DEF TypeInv, SessionTypeOK
  <2>2. CASE UNCHANGED serverVars
    BY <2>2 DEF serverVars, logVars, execVars, LogInv
  <2>3. ASSUME NEW n \in Node, ServerMove(n), NEW m \in Node
        PROVE  /\ executors'[m] # <<>>
               /\ disturbed'[m] \/ Sound(executors'[m], logs'[m], nodeBalances'[m])
    <3>1. /\ executors[m] # <<>>
          /\ disturbed[m] \/ Sound(executors[m], logs[m], nodeBalances[m])
      BY DEF LogInv
    <3>2. CASE m = n
      BY <2>1, <2>3, <3>1, <3>2, MoveSound
    <3>3. CASE m # n
      BY <2>1, <2>3, <3>1, <3>3, MoveOthers
    <3>. QED  BY <3>2, <3>3
  <2>. QED  BY <2>2, <2>3, NextServers DEF LogInv
<1>3. LogInv => BalancesFromLog
  BY DEF LogInv, BalancesFromLog, OldAreIdle, Sound, BalancesFollow, OldWait, NewestOf
<1>. QED  BY <1>1, <1>2, <1>3, PTL DEF Spec
=============================================================================
