------------------------------ MODULE Session ------------------------------
(***************************************************************************)
(* A session of the operator: the menu of the client, which reads the file *)
(* of transaction sets, sends one set after the other, each after reviving, *)
(* killing and making malicious the servers the file lists for it, and      *)
(* flushes the servers; and the servers that its calls reach.  What the     *)
(* client believes about a server is in killedServers and is set whether    *)
(* the call succeeds or not.  Calls of handlers that take node.lock may run *)
(* into the timeout of the client: they are carried out later.              *)
(***************************************************************************)
EXTENDS Server

CONSTANTS
  Files,      \* the contents the file may have when it is read
  MaxReads,   \* bound: how often the file is read
  MaxSent,    \* bound: transactions sent before the last set is started
  MaxFlushes, \* bound: how often the servers are flushed
  MaxLate     \* bound: calls that are late at one time

ASSUME ServersAssumption == Node \subseteq Nat
ASSUME FilesAssumption == Files \subseteq Seq(Row)
ASSUME BoundsAssumption == MaxReads \in Nat /\ MaxFlushes \in Nat

VARIABLES
  pc,                   \* where the menu is
  todo,                 \* servers still to be called
  read,                 \* what the last reading of the file gave
  lastFile, firstId,    \* the file it was given, and the first id
  allSetsRead, currentSetNumber, globalTransactionID,
  killedServers,        \* servers the client takes for killed
  sent,                 \* the transactions sent, in the order of their sets
  late,                 \* calls that the client no longer waits for
  reads, flushes

readVars == <<read, lastFile, firstId, allSetsRead, globalTransactionID, reads>>
clientVars == <<pc, todo, readVars, currentSetNumber, killedServers, sent, flushes>>
sessionVars == <<clientVars, late, serverVars>>

Call == [to : Node, kind : {"Revive", "BecomeMalicious", "Flush"}]

SessionTypeOK ==
  /\ ServerTypeOK
  /\ pc \in {"menu", "alive", "malicious", "sending", "flush"}
  /\ todo \subseteq Node /\ killedServers \subseteq Node
  /\ read \in Reading
  /\ lastFile \in Files \cup {<<>>}
  /\ allSetsRead \in BOOLEAN
  /\ currentSetNumber \in Nat
  /\ globalTransactionID \in Nat /\ firstId \in Nat
  /\ sent \in Seq(Request)
  /\ late \subseteq Call
  /\ reads \in 0 .. MaxReads /\ flushes \in 0 .. MaxFlushes

Init ==
  /\ ServerInit
  /\ pc = "menu" /\ todo = {} /\ killedServers = {}
  /\ read = NothingRead(1) /\ lastFile = <<>> /\ firstId = 1
  /\ allSetsRead = FALSE /\ currentSetNumber = 1 /\ globalTransactionID = 1
  /\ sent = <<>> /\ late = {}
  /\ reads = 0 /\ flushes = 0

\* The client calls the servers of a list one after the other.
First(S) == Min(S)

-----------------------------------------------------------------------------
(* Option 1.                                                                *)

\* A mutant: ids start again with every reading.
NextIdAnew == 1

\* The id that the first transaction of the next reading gets.
NextId == globalTransactionID

\* An error leaves the client without sets, but with its place in them.
ReadSets ==
  /\ pc = "menu" /\ reads < MaxReads
  /\ reads' = reads + 1
  /\ \E file \in Files :
       /\ read' = ReadTransactions(file, NextId)
       /\ lastFile' = file
  /\ firstId' = NextId
  /\ globalTransactionID' = read'.nextId
  /\ allSetsRead' = (allSetsRead \/ read'.ok)
  /\ currentSetNumber' = IF read'.ok THEN 1 ELSE currentSetNumber
  /\ UNCHANGED <<pc, todo, killedServers, sent, flushes, late, serverVars>>

-----------------------------------------------------------------------------
(* Option 2.                                                                *)

SetsRead == {k \in SetNums : read.sets[k] # <<>>}
AliveServers == read.live[currentSetNumber]

\* With a gap in the set numbers there are "no more sets", for good.
StartSet ==
  /\ pc = "menu" /\ allSetsRead /\ Len(sent) <= MaxSent
  /\ currentSetNumber <= Cardinality(SetsRead)
  /\ currentSetNumber \in SetsRead
  /\ pc' = "alive"
  /\ UNCHANGED <<todo, readVars, currentSetNumber, killedServers, sent,
                 flushes, late, serverVars>>

\* A call whose handler takes the lock: it takes effect now, or the client
\* gives up waiting.
Called(n, kind, handler) ==
  \/ handler /\ UNCHANGED late
  \/ /\ Up(n) /\ Cardinality(late) < MaxLate
     /\ late' = late \cup {[to |-> n, kind |-> kind]} /\ late' # late
     /\ UNCHANGED serverVars

\* A mutant: every server that is to be alive is taken for alive.
ToReviveNone == {}

\* Only a server that the client takes for killed is revived.
ToRevive == AliveServers \cap killedServers
ToKill == Node \ (AliveServers \cup killedServers)

ReviveNext ==
  /\ pc = "alive" /\ ToRevive # {}
  /\ LET n == First(ToRevive) IN
       /\ Called(n, "Revive", Revive(n))
       /\ killedServers' = killedServers \ {n}
  /\ UNCHANGED <<pc, todo, readVars, currentSetNumber, sent, flushes>>

KillNext ==
  /\ pc = "alive" /\ ToRevive = {} /\ ToKill # {}
  /\ LET n == First(ToKill) IN
       /\ Kill(n)
       /\ killedServers' = killedServers \cup {n}
  /\ UNCHANGED <<pc, todo, readVars, currentSetNumber, sent, flushes, late>>

AliveDone ==
  /\ pc = "alive" /\ ToRevive = {} /\ ToKill = {}
  /\ pc' = "malicious" /\ todo' = read.byz[currentSetNumber]
  /\ UNCHANGED <<readVars, currentSetNumber, killedServers, sent, flushes,
                 late, serverVars>>

CorruptNext ==
  /\ pc = "malicious" /\ todo # {}
  /\ LET n == First(todo) IN
       /\ Called(n, "BecomeMalicious", BecomeMalicious(n))
       /\ todo' = todo \ {n}
  /\ UNCHANGED <<pc, readVars, currentSetNumber, killedServers, sent, flushes>>

MaliciousDone ==
  /\ pc = "malicious" /\ todo = {}
  /\ pc' = "sending"
  /\ UNCHANGED <<todo, readVars, currentSetNumber, killedServers, sent,
                 flushes, late, serverVars>>

\* The transactions of a set go out one by one (ClientHandler); the menu comes
\* back when the last one of every client has been sent.
SendSet ==
  /\ pc = "sending"
  /\ sent' = sent \o read.sets[currentSetNumber]
  /\ currentSetNumber' = currentSetNumber + 1
  /\ pc' = "menu"
  /\ UNCHANGED <<todo, readVars, killedServers, flushes, late, serverVars>>

-----------------------------------------------------------------------------
(* Option 9.                                                                *)

StartFlush ==
  /\ pc = "menu" /\ flushes < MaxFlushes
  /\ flushes' = flushes + 1
  /\ pc' = "flush" /\ todo' = Node
  /\ UNCHANGED <<readVars, currentSetNumber, killedServers, sent, late,
                 serverVars>>

FlushNext ==
  /\ pc = "flush" /\ todo # {}
  /\ LET n == First(todo) IN
       /\ Called(n, "Flush", Flush(n))
       /\ todo' = todo \ {n}
  /\ UNCHANGED <<pc, readVars, currentSetNumber, killedServers, sent, flushes>>

FlushDone ==
  /\ pc = "flush" /\ todo = {}
  /\ pc' = "menu"
  /\ UNCHANGED <<todo, readVars, currentSetNumber, killedServers, sent,
                 flushes, late, serverVars>>

-----------------------------------------------------------------------------
\* A handler gets the lock after the client has given up.
CarryOut(call) ==
  /\ \/ call.kind = "Revive" /\ Revive(call.to)
     \/ call.kind = "BecomeMalicious" /\ BecomeMalicious(call.to)
     \/ call.kind = "Flush" /\ Flush(call.to)
  /\ late' = late \ {call}
  /\ UNCHANGED clientVars

Menu == \/ ReadSets \/ StartSet \/ ReviveNext \/ KillNext \/ AliveDone
        \/ CorruptNext \/ MaliciousDone \/ SendSet
        \/ StartFlush \/ FlushNext \/ FlushDone

\* The leader takes the transactions in the order they were sent, and after a
\* Flush again any that the old queue or a retry brings.
Receive(n) ==
  \E i \in DOMAIN sent :
    /\ \A s \in SeqNums : \A j \in i .. Len(sent) : logs[n][s].tx # sent[j]
    /\ PrePrepare(n, sent[i])

Next == \/ Menu
        \/ \E call \in late : CarryOut(call)
        \/ \E n \in Node :
             (Receive(n) \/ ServerStep(n)) /\ UNCHANGED <<clientVars, late>>

Spec == Init /\ [][Next]_sessionVars

-----------------------------------------------------------------------------
\* The sets, and the servers listed for each, are those written in the file.
ReadAsWritten == AsWritten(read, lastFile, firstId)

\* A transaction id is sent once, however often and whatever file is read: a
\* reply to an earlier transaction is never taken for one to a later one.
IdsNeverReused ==
  \A i, j \in DOMAIN sent : sent[i].id = sent[j].id => i = j

\* While a set is sent, the servers listed for it are alive, whatever was
\* killed, flushed or late before; but for those whose Revive is still to come.
ListedAreAlive ==
  pc = "sending" =>
    \A n \in AliveServers :
      [to |-> n, kind |-> "Revive"] \notin late => isActive[n]
=============================================================================
