---------------------------- MODULE ClientHandler ----------------------------
(***************************************************************************)
(* The client program of Linear-PBFT: the menu sends the transactions of a *)
(* set, one goroutine per client id working through its own in order; the  *)
(* replicas' answers arrive in ServerResponse; monitorReplies polls the    *)
(* handler, retries on a timeout and takes the token that says a           *)
(* transaction is done.  All three share one handler per client id, with   *)
(* its mutex mu and its channel processDone of capacity one.               *)
(*                                                                         *)
(* The transactions of a client id are numbered in the order they are      *)
(* read.  The replicas are outside: each call of SendTransaction that      *)
(* reaches the leader is executed, and answered, by every correct replica, *)
(* also when it repeats an earlier one (NormalCase!SendTransaction).       *)
(***************************************************************************)
EXTENDS Naturals, Sequences

CONSTANTS
  Client,      \* client ids
  F,           \* a transaction is done after F + 1 replies
  Answers,     \* replies to one call: the replicas that answer
  MaxTx,       \* bound: transactions of one client id
  LastTx,      \* LastTx[k][c]: c's last transaction in the sets 1 .. k
  MaxRetries   \* bound: timeouts of a client id's monitor

ASSUME ClientAssumption ==
  /\ F \in Nat
  /\ Answers \in Nat
  /\ MaxTx \in Nat
  /\ LastTx \in Seq([Client -> 0 .. MaxTx])

VARIABLES
  set,          \* the set being sent, 0 before the first
  sender,       \* the goroutine that sends a client id's transactions
  currentTx,    \* per client id, 0 before the first
  processing,
  replyCount,
  processDone,  \* whether the token is in the channel
  mu,           \* whether a ServerResponse sleeps holding the mutex
  retries,
  latencies,    \* the transactions whose latency was recorded, in that order
  calls,        \* calls[c][i]: calls that carried transaction i to the leader
  delivered     \* delivered[c][i]: replies about it that have arrived

handlerVars == <<currentTx, processing, replyCount, processDone, mu, latencies>>
networkVars == <<retries, calls, delivered>>
vars == <<set, sender, handlerVars, networkVars>>

TxNum == 1 .. MaxTx
Quota(c) == IF set = 0 THEN 0 ELSE LastTx[set][c]

TypeOK ==
  /\ set \in 0 .. Len(LastTx)
  /\ sender \in [Client -> {"none", "loop", "wait"}]
  /\ currentTx \in [Client -> 0 .. MaxTx]
  /\ processing \in [Client -> BOOLEAN]
  /\ replyCount \in [Client -> Nat]
  /\ processDone \in [Client -> BOOLEAN]
  /\ mu \in [Client -> {"free", "held"}]
  /\ latencies \in [Client -> Seq(TxNum)]
  /\ retries \in [Client -> Nat]
  /\ calls \in [Client -> [TxNum -> Nat]]
  /\ delivered \in [Client -> [TxNum -> Nat]]

Init ==
  /\ set = 0
  /\ sender = [c \in Client |-> "none"]
  /\ currentTx = [c \in Client |-> 0]
  /\ processing = [c \in Client |-> FALSE]
  /\ replyCount = [c \in Client |-> 0]
  /\ processDone = [c \in Client |-> FALSE]
  /\ mu = [c \in Client |-> "free"]
  /\ latencies = [c \in Client |-> <<>>]
  /\ retries = [c \in Client |-> 0]
  /\ calls = [c \in Client |-> [i \in TxNum |-> 0]]
  /\ delivered = [c \in Client |-> [i \in TxNum |-> 0]]

-----------------------------------------------------------------------------
(* The menu and the goroutines that send.                                   *)

\* Option 2, once wg.Wait has let go of the set before.
SendSet ==
  /\ set < Len(LastTx)
  /\ \A c \in Client : sender[c] = "none"
  /\ set' = set + 1
  /\ sender' = [c \in Client |-> IF LastTx[set'][c] > currentTx[c] THEN "loop"
                                 ELSE "none"]
  /\ UNCHANGED <<handlerVars, networkVars>>

\* A mutant: one step too far.
MoreByOne(c) == currentTx[c] <= Quota(c)

\* The range loop over c's transactions in the set has another one.
More(c) == currentTx[c] < Quota(c)

\* A mutant: the count of the transaction before is not cleared.
CountKept(c) == replyCount[c]

\* What a new transaction starts counting from.
CountAtStart(c) == 0

StartTransaction(c) ==
  LET i == currentTx[c] + 1 IN
  /\ sender[c] = "loop" /\ mu[c] = "free"
  /\ More(c) /\ ~processing[c]
  /\ currentTx' = [currentTx EXCEPT ![c] = i]
  /\ replyCount' = [replyCount EXCEPT ![c] = CountAtStart(c)]
  /\ processing' = [processing EXCEPT ![c] = TRUE]
  /\ calls' = [calls EXCEPT ![c][i] = @ + 1]
  /\ UNCHANGED <<set, sender, processDone, mu, latencies, retries, delivered>>

\* It unlocks mu and waits for the token ...
SenderWaits(c) ==
  /\ sender[c] = "loop" /\ mu[c] = "free"
  /\ More(c) /\ processing[c]
  /\ sender' = [sender EXCEPT ![c] = "wait"]
  /\ UNCHANGED <<set, handlerVars, networkVars>>

\* Somebody takes the token.  If a ServerResponse is asleep with the next one,
\* it puts it into the channel, returns and unlocks mu.
TakeDone(c) ==
  /\ processDone[c]
  /\ processDone' = [processDone EXCEPT ![c] = mu[c] = "held"]
  /\ mu' = [mu EXCEPT ![c] = "free"]

\* ... and looks at processing again.
SenderWoken(c) ==
  /\ sender[c] = "wait" /\ TakeDone(c)
  /\ sender' = [sender EXCEPT ![c] = "loop"]
  /\ UNCHANGED <<set, currentTx, processing, replyCount, latencies,
                 networkVars>>

\* The goroutine does not wait for its last transaction.
SenderEnds(c) ==
  /\ sender[c] = "loop" /\ ~More(c)
  /\ sender' = [sender EXCEPT ![c] = "none"]
  /\ UNCHANGED <<set, handlerVars, networkVars>>

-----------------------------------------------------------------------------
(* monitorReplies and ServerResponse.                                       *)

\* Ten seconds have passed: every replica gets the transaction again.
MonitorTimeout(c) ==
  /\ mu[c] = "free" /\ processing[c]
  /\ retries[c] < MaxRetries
  /\ retries' = [retries EXCEPT ![c] = @ + 1]
  /\ calls' = [calls EXCEPT ![c][currentTx[c]] = @ + 1]
  /\ UNCHANGED <<set, sender, handlerVars, delivered>>

\* The token may be that of an earlier transaction.
MonitorTakesDone(c) ==
  /\ mu[c] = "free" /\ processing[c]
  /\ TakeDone(c)
  /\ processing' = [processing EXCEPT ![c] = FALSE]
  /\ UNCHANGED <<set, sender, currentTx, replyCount, latencies, networkVars>>

\* A mutant: a reply counts for a transaction that is complete.
LateReplyCounts(c, i) == i = currentTx[c]

\* A reply counts for the transaction being processed only.
ReplyCounts(c, i) == processing[c] /\ i = currentTx[c]

\* Two cases of ServerResponse: the reply is not the last one needed, or not
\* needed at all ...
ReplyNotLast(c, i) ==
  /\ ~(ReplyCounts(c, i) /\ replyCount[c] + 1 >= F + 1)
  /\ replyCount' = IF ReplyCounts(c, i) THEN [replyCount EXCEPT ![c] = @ + 1]
                   ELSE replyCount
  /\ UNCHANGED <<processing, latencies, processDone, mu>>

\* ... or it completes the transaction, and the token goes into processDone
\* with mu held.
ReplyLast(c, i) ==
  /\ ReplyCounts(c, i) /\ replyCount[c] + 1 >= F + 1
  /\ replyCount' = [replyCount EXCEPT ![c] = 0]
  /\ processing' = [processing EXCEPT ![c] = FALSE]
  /\ latencies' = [latencies EXCEPT ![c] = Append(@, currentTx[c])]
  /\ processDone' = [processDone EXCEPT ![c] = TRUE]
  /\ mu' = IF processDone[c] THEN [mu EXCEPT ![c] = "held"] ELSE mu

ServerResponse(c, i) ==
  /\ mu[c] = "free"
  /\ delivered[c][i] < Answers * calls[c][i]
  /\ delivered' = [delivered EXCEPT ![c][i] = @ + 1]
  /\ ReplyNotLast(c, i) \/ ReplyLast(c, i)
  /\ UNCHANGED <<set, sender, currentTx, retries, calls>>

-----------------------------------------------------------------------------
Sender(c) == \/ StartTransaction(c) \/ SenderWaits(c)
             \/ SenderWoken(c) \/ SenderEnds(c)
Monitor(c) == MonitorTimeout(c) \/ MonitorTakesDone(c)
Respond(c) == \E i \in TxNum : ServerResponse(c, i)

Next == SendSet \/ \E c \in Client : Sender(c) \/ Monitor(c) \/ Respond(c)

Spec == Init /\ [][Next]_vars

\* The user sends every set; goroutines are scheduled and replies arrive.
FairSpec ==
  /\ Spec
  /\ WF_vars(SendSet)
  /\ \A c \in Client : WF_vars(Sender(c)) /\ WF_vars(Monitor(c))
                       /\ WF_vars(Respond(c))

-----------------------------------------------------------------------------
(* Why latencies are backed by replies: the handler has counted only replies *)
(* about the current transaction.                                           *)

Fresh == \A c \in Client : \A i \in TxNum :
  i > currentTx[c] => calls[c][i] = 0 /\ delivered[c][i] = 0

CountedArrived == \A c \in Client :
  processing[c] => /\ currentTx[c] \in TxNum
                   /\ replyCount[c] <= delivered[c][currentTx[c]]

LatenciesBehind == \A c \in Client : \A k \in DOMAIN latencies[c] :
  /\ latencies[c][k] <= currentTx[c]
  /\ processing[c] => latencies[c][k] < currentTx[c]

\* A latency is recorded for a transaction only when F + 1 replies about this
\* transaction have arrived, whatever was left counted or in flight from the
\* one before it when it started early.
LatenciesBacked == \A c \in Client : \A k \in DOMAIN latencies[c] :
  delivered[c][latencies[c][k]] >= F + 1

\* A transaction completes at most once and in the order of sending, however
\* often it is retried and however late its other replies come.
CompletedInOrder == \A c \in Client : \A j, k \in DOMAIN latencies[c] :
  j < k => latencies[c][j] < latencies[c][k]

IInv == /\ TypeOK
        /\ Fresh
        /\ CountedArrived
        /\ LatenciesBehind
        /\ LatenciesBacked
        /\ CompletedInOrder

\* "Wait for the current transaction to complete": the wait ends, and every
\* transaction of every set is sent.
EverythingSent == <>(\A c \in Client : currentTx[c] = LastTx[Len(LastTx)][c])
=============================================================================
