---------------------------- MODULE WakeupProofs ----------------------------
(***************************************************************************)
(* Why the executor of NormalCase does not sleep on a committed entry, for *)
(* every value of the constants, however unlocked write-backs overlap.     *)
(***************************************************************************)
EXTENDS NormalCaseProofs

C == Collector(InitView)
Certifies(w) == w.kind # "commit"

\* Prepares go to the collector, so nobody else starts a monitor for them.
OnlyCollectorCounts ==
  \A n \in Node \ {C}, s \in SeqNums :
    prepareNet[n][s] = 0 /\ prepareTrackers[n][s].monitor = "none"

\* A replica sees one certificate for a number, on its way or being written;
\* none before the collector's monitor is done.
OneCertificate ==
  /\ \A c, d \in collectedNet : c.to = d.to /\ c.seq = d.seq => c = d
  /\ \A n \in Node : \A v \in windows[n] : Certifies(v) =>
       /\ \A c \in collectedNet : c.to = n => c.seq # v.seq
       /\ \A w \in windows[n] : Certifies(w) /\ w.seq = v.seq => w = v

CollectedOnce ==
  \A s \in SeqNums :
    (C \in Node => prepareTrackers[C][s].monitor # "done") =>
      /\ \A c \in collectedNet : c.seq # s
      /\ \A n \in Node : \A w \in windows[n] : Certifies(w) => w.seq # s

\* A write-back that signals nobody does not commit an entry: its copy was
\* committed only if the entry was, and nobody but itself undoes that.
CopiesCommitted ==
  \A n \in Node :
    /\ \A w \in windows[n] : w.kind = "collected2F" /\ w.entry.isCommitted =>
         logs[n][w.seq].isCommitted
    /\ executor[n].pc = "apply" => executor[n].entry.isCommitted

WakeInv == /\ OnlyCollectorCounts
           /\ OneCertificate
           /\ CollectedOnce
           /\ CopiesCommitted
           /\ NoLostWakeup

USE DEF Up, Honest, adminVars, viewVars, leaderVars, trackerVars, timerVars,
        execVars, netVars

-----------------------------------------------------------------------------
\* The collector of InitView is a replica.
LEMMA CollectorIsNode == C \in Node
<1>1. InitView % CollectorMod \in 0 .. N - 1
  BY ReplicaAssumption
<1> QED
  BY <1>1, MappingAssumption DEF C, Collector

\* The steps that touch prepares on their way or their trackers, and the rest.
LEMMA PrepareSteps ==
  ASSUME [Next]_vars
  PROVE  \/ UNCHANGED <<prepareNet, prepareTrackers>>
         \/ \E m \in prePrepareNet : PrePrepare(m)
         \/ \E n \in Node, s \in SeqNums :
              Prepare(n, s) \/ IgnoreVote(n, s) \/ MonitorPrepare(n, s)
<1>1. ASSUME NEW n \in Node, Handle(n)
      PROVE  \/ UNCHANGED <<prepareNet, prepareTrackers>>
             \/ \E m \in prePrepareNet : PrePrepare(m)
             \/ \E s \in SeqNums : Prepare(n, s) \/ IgnoreVote(n, s)
  BY <1>1 DEF Handle, RejectPrePrepare, CollectedPrepare,
              IgnoreCollectedPrepare, Commit
<1>2. ASSUME NEW n \in Node, Work(n)
      PROVE  \/ UNCHANGED <<prepareNet, prepareTrackers>>
             \/ \E s \in SeqNums : MonitorPrepare(n, s)
  BY <1>2 DEF Work, ProcessTransaction, SendPreprepare, MonitorCommit,
              CommitTimeout, WriteBack
<1>3. ASSUME NEW n \in Node, Execute(n)
      PROVE  UNCHANGED <<prepareNet, prepareTrackers>>
  BY <1>3 DEF Execute, ExecWake, ExecSleep, ExecRead, ExecCrash, ExecApply
<1>4. ASSUME NEW n \in Node, Operate(n)
      PROVE  UNCHANGED <<prepareNet, prepareTrackers>>
  BY <1>4 DEF Operate, Kill, Revive, BecomeMalicious, DataRace
<1>5. ASSUME NEW n \in Node, NEW t \in Tx, SendTransaction(n, t)
      PROVE  UNCHANGED <<prepareNet, prepareTrackers>>
  BY <1>5 DEF SendTransaction
<1>6. CASE UNCHANGED vars
  BY <1>6 DEF vars
<1> QED
  BY <1>1, <1>2, <1>3, <1>4, <1>5, <1>6 DEF Next

\* Nobody but the collector gets a prepare, and starts a monitor.
LEMMA CountsKept ==
  ASSUME IInv, OnlyCollectorCounts, [Next]_vars
  PROVE  OnlyCollectorCounts'
<1>types. /\ prepareNet \in [Node -> [SeqNums -> Nat]]
          /\ prepareTrackers \in [Node -> [SeqNums -> Tracker]]
  BY DEF IInv, TypeOK
<1>views. \A n \in Node : Collector(view[n]) = C
  BY DEF IInv, OnlyLeaderProposes, C
<1>1. ASSUME NEW m \in prePrepareNet, PrePrepare(m)
      PROVE  OnlyCollectorCounts'
  <2>1. m.to \in Node
    BY DEF IInv, TypeOK, PrePrepareMsg
  <2>2. ASSUME NEW n \in Node \ {C}, NEW s \in SeqNums
        PROVE  prepareNet'[n][s] = prepareNet[n][s]
    BY <1>1, <1>types, <1>views, <2>1, <2>2 DEF PrePrepare, Sent
  <2>3. UNCHANGED prepareTrackers
    BY <1>1 DEF PrePrepare
  <2> QED
    BY <2>2, <2>3 DEF OnlyCollectorCounts
<1>2. ASSUME NEW k \in Node, NEW q \in SeqNums, Prepare(k, q)
      PROVE  OnlyCollectorCounts'
  <2>1. k = C
    BY <1>2 DEF Prepare, OnlyCollectorCounts
  <2>2. ASSUME NEW n \in Node \ {C}, NEW s \in SeqNums
        PROVE  /\ prepareNet'[n][s] = prepareNet[n][s]
               /\ prepareTrackers'[n][s] = prepareTrackers[n][s]
    BY <1>2, <1>types, <2>1 DEF Prepare, Received
  <2> QED
    BY <2>2 DEF OnlyCollectorCounts
<1>3. ASSUME NEW k \in Node, NEW q \in SeqNums, IgnoreVote(k, q)
      PROVE  OnlyCollectorCounts'
  <2>1. UNCHANGED prepareTrackers
    BY <1>3 DEF IgnoreVote
  <2>2. CASE prepareNet[k][q] > 0 /\ prepareNet' = Received(prepareNet, k, q)
    <3>1. k = C
      BY <2>2 DEF OnlyCollectorCounts
    <3>2. ASSUME NEW n \in Node \ {C}, NEW s \in SeqNums
          PROVE  prepareNet'[n][s] = prepareNet[n][s]
      BY <1>types, <2>2, <3>1 DEF Received
    <3> QED
      BY <2>1, <3>2 DEF OnlyCollectorCounts
  <2>3. CASE UNCHANGED prepareNet
    BY <2>1, <2>3 DEF OnlyCollectorCounts
  <2> QED
    BY <1>3, <2>2, <2>3 DEF IgnoreVote
<1>4. ASSUME NEW k \in Node, NEW q \in SeqNums, MonitorPrepare(k, q)
      PROVE  OnlyCollectorCounts'
  <2>1. k = C
    BY <1>4 DEF MonitorPrepare, OnlyCollectorCounts
  <2>2. ASSUME NEW n \in Node \ {C}, NEW s \in SeqNums
        PROVE  prepareTrackers'[n][s] = prepareTrackers[n][s]
    BY <1>4, <1>types, <2>1 DEF MonitorPrepare
  <2>3. UNCHANGED prepareNet
    BY <1>4 DEF MonitorPrepare
  <2> QED
    BY <2>2, <2>3 DEF OnlyCollectorCounts
<1>5. CASE UNCHANGED <<prepareNet, prepareTrackers>>
  BY <1>5 DEF OnlyCollectorCounts
<1> QED
  BY <1>1, <1>2, <1>3, <1>4, <1>5, PrepareSteps

-----------------------------------------------------------------------------
\* The steps that touch certificates, windows or the trackers of prepares.
LEMMA CertificateSteps ==
  ASSUME [Next]_vars
  PROVE  \/ UNCHANGED <<collectedNet, windows, prepareTrackers>>
         \/ \E c \in collectedNet : CollectedPrepare(c) \/ IgnoreCollectedPrepare(c)
         \/ \E n \in Node, s \in SeqNums :
              Prepare(n, s) \/ MonitorPrepare(n, s) \/ MonitorCommit(n, s)
         \/ \E n \in Node : \E w \in windows[n] : WriteBack(n, w)
<1>1. ASSUME NEW n \in Node, Handle(n)
      PROVE  \/ UNCHANGED <<collectedNet, windows, prepareTrackers>>
             \/ \E c \in collectedNet :
                  CollectedPrepare(c) \/ IgnoreCollectedPrepare(c)
             \/ \E s \in SeqNums : Prepare(n, s)
  BY <1>1 DEF Handle, PrePrepare, RejectPrePrepare, Commit, IgnoreVote
<1>2. ASSUME NEW n \in Node, Work(n)
      PROVE  \/ UNCHANGED <<collectedNet, windows, prepareTrackers>>
             \/ \E s \in SeqNums : MonitorPrepare(n, s) \/ MonitorCommit(n, s)
             \/ \E w \in windows[n] : WriteBack(n, w)
  BY <1>2 DEF Work, ProcessTransaction, SendPreprepare, CommitTimeout
<1>3. ASSUME NEW n \in Node, Execute(n)
      PROVE  UNCHANGED <<collectedNet, windows, prepareTrackers>>
  BY <1>3 DEF Execute, ExecWake, ExecSleep, ExecRead, ExecCrash, ExecApply
<1>4. ASSUME NEW n \in Node, Operate(n)
      PROVE  UNCHANGED <<collectedNet, windows, prepareTrackers>>
  BY <1>4 DEF Operate, Kill, Revive, BecomeMalicious, DataRace
<1>5. ASSUME NEW n \in Node, NEW t \in Tx, SendTransaction(n, t)
      PROVE  UNCHANGED <<collectedNet, windows, prepareTrackers>>
  BY <1>5 DEF SendTransaction
<1>6. CASE UNCHANGED vars
  BY <1>6 DEF vars
<1> QED
  BY <1>1, <1>2, <1>3, <1>4, <1>5, <1>6 DEF Next

\* Certificates are only consumed, and windows only closed or opened by a
\* commit: a replica still sees one certificate for a number.
LEMMA NoNewCertificate ==
  ASSUME OneCertificate, CollectedOnce, collectedNet' \subseteq collectedNet,
         \A n \in Node : \A w \in windows'[n] : Certifies(w) => w \in windows[n],
         C \in Node, \A s \in SeqNums : prepareTrackers[C][s].monitor = "done" =>
                            prepareTrackers'[C][s].monitor = "done"
  PROVE  OneCertificate' /\ CollectedOnce'
<1>1. OneCertificate'
  BY DEF OneCertificate, Certifies
<1>2. CollectedOnce'
  BY DEF CollectedOnce, Certifies
<1> QED
  BY <1>1, <1>2

\* The collector's monitor ends once for a number, and sends each replica one
\* certificate; a replica turns it into a window.
LEMMA CertificatesKept ==
  ASSUME IInv, OnlyCollectorCounts, OneCertificate, CollectedOnce, [Next]_vars
  PROVE  OneCertificate' /\ CollectedOnce'
<1>types. /\ prepareTrackers \in [Node -> [SeqNums -> Tracker]]
          /\ windows \in [Node -> SUBSET Window]
          /\ collectedNet \subseteq CollectedMsg
  BY DEF IInv, TypeOK
<1>c. C \in Node
  BY CollectorIsNode
<1>1. ASSUME NEW c \in collectedNet, CollectedPrepare(c)
      PROVE  OneCertificate' /\ CollectedOnce'
  <2>1. c.to \in Node /\ c.seq \in SeqNums
    BY <1>types DEF CollectedMsg
  <2>2. PICK o : /\ o.seq = c.seq
                 /\ windows' = [windows EXCEPT ![c.to] = @ \cup {o}]
    BY <1>1 DEF CollectedPrepare, Opened
  <2>3. /\ collectedNet' = collectedNet \ {c}
        /\ UNCHANGED prepareTrackers
    BY <1>1 DEF CollectedPrepare
  <2>4. \A n \in Node : windows'[n] = IF n = c.to THEN windows[n] \cup {o}
                                      ELSE windows[n]
    BY <1>types, <2>2
  <2>5. \A w \in windows[c.to] : Certifies(w) => w.seq # c.seq
    BY <2>1 DEF OneCertificate
  <2>6. OneCertificate'
    <3>1. \A d, e \in collectedNet' : d.to = e.to /\ d.seq = e.seq => d = e
      BY <2>3 DEF OneCertificate
    <3>2. ASSUME NEW n \in Node, NEW v \in windows'[n], Certifies(v)
          PROVE  \A d \in collectedNet' : d.to = n => d.seq # v.seq
      BY <2>1, <2>2, <2>3, <2>4, <3>2 DEF OneCertificate
    <3>3. ASSUME NEW n \in Node, NEW v \in windows'[n], Certifies(v),
                 NEW w \in windows'[n], Certifies(w), w.seq = v.seq
          PROVE  w = v
      BY <2>2, <2>4, <2>5, <3>3 DEF OneCertificate
    <3> QED
      BY <3>1, <3>2, <3>3 DEF OneCertificate, Certifies
  <2>7. CollectedOnce'
    BY <1>c, <2>1, <2>2, <2>3, <2>4 DEF CollectedOnce, Certifies
  <2> QED
    BY <2>6, <2>7
<1>2. ASSUME NEW c \in collectedNet, IgnoreCollectedPrepare(c)
      PROVE  OneCertificate' /\ CollectedOnce'
  BY <1>2, <1>c, NoNewCertificate DEF IgnoreCollectedPrepare
<1>3. ASSUME NEW k \in Node, NEW q \in SeqNums, Prepare(k, q)
      PROVE  OneCertificate' /\ CollectedOnce'
  <2>1. \A s \in SeqNums : prepareTrackers[C][s].monitor = "done" =>
                             prepareTrackers'[C][s].monitor = "done"
    BY <1>3, <1>types, <1>c DEF Prepare, Counted
  <2>2. UNCHANGED <<collectedNet, windows>>
    BY <1>3 DEF Prepare
  <2> QED
    BY <1>c, <2>1, <2>2, NoNewCertificate
<1>4. ASSUME NEW k \in Node, NEW q \in SeqNums, MonitorPrepare(k, q)
      PROVE  OneCertificate' /\ CollectedOnce'
  <2>1. k = C /\ prepareTrackers[C][q].monitor = "wait"
    BY <1>4 DEF MonitorPrepare, OnlyCollectorCounts
  <2>2. /\ \A c \in collectedNet : c.seq # q
        /\ \A n \in Node : \A w \in windows[n] : Certifies(w) => w.seq # q
    BY <1>c, <2>1 DEF CollectedOnce
  <2>3. PICK size : collectedNet' \subseteq collectedNet \cup
                      {[to |-> m, seq |-> q, size |-> size] : m \in Node}
    BY <1>4 DEF MonitorPrepare, SendCollectedPrepare
  <2>4. UNCHANGED windows
    BY <1>4 DEF MonitorPrepare
  <2>5. /\ prepareTrackers'[C][q].monitor = "done"
        /\ \A s \in SeqNums \ {q} : prepareTrackers'[C][s] = prepareTrackers[C][s]
    BY <1>4, <1>types, <1>c, <2>1 DEF MonitorPrepare, Ended, Tracker
  <2>6. OneCertificate'
    <3>1. \A c, d \in collectedNet' : c.to = d.to /\ c.seq = d.seq => c = d
      BY <2>2, <2>3 DEF OneCertificate
    <3>2. ASSUME NEW n \in Node, NEW v \in windows[n], Certifies(v)
          PROVE  \A c \in collectedNet' : c.to = n => c.seq # v.seq
      BY <2>2, <2>3, <3>2 DEF OneCertificate
    <3> QED
      BY <2>4, <3>1, <3>2 DEF OneCertificate, Certifies
  <2>7. CollectedOnce'
    BY <1>c, <2>3, <2>4, <2>5 DEF CollectedOnce, Certifies
  <2> QED
    BY <2>6, <2>7
<1>5. ASSUME NEW k \in Node, NEW q \in SeqNums, MonitorCommit(k, q)
      PROVE  OneCertificate' /\ CollectedOnce'
  <2>1. PICK o : /\ o.kind = "commit"
                 /\ windows' = [windows EXCEPT ![k] = @ \cup {o}]
    BY <1>5 DEF MonitorCommit, Opened
  <2>2. \A n \in Node : \A w \in windows'[n] : Certifies(w) => w \in windows[n]
    BY <1>types, <2>1 DEF Certifies
  <2>3. UNCHANGED <<collectedNet, prepareTrackers>>
    BY <1>5 DEF MonitorCommit
  <2> QED
    BY <1>c, <2>2, <2>3, NoNewCertificate
<1>6. ASSUME NEW k \in Node, NEW w \in windows[k], WriteBack(k, w)
      PROVE  OneCertificate' /\ CollectedOnce'
  <2>1. \A n \in Node : windows'[n] \subseteq windows[n]
    BY <1>6, <1>types DEF WriteBack
  <2>2. UNCHANGED <<collectedNet, prepareTrackers>>
    BY <1>6 DEF WriteBack
  <2> QED
    BY <1>c, <2>1, <2>2, NoNewCertificate
<1>7. CASE UNCHANGED <<collectedNet, windows, prepareTrackers>>
  BY <1>7, <1>c, NoNewCertificate
<1> QED
  BY <1>1, <1>2, <1>3, <1>4, <1>5, <1>6, <1>7, CertificateSteps

-----------------------------------------------------------------------------
\* What the helpers leave of whether an entry is committed.
LEMMA CommittedFields ==
  /\ \A w \in Window : Modified(w).isCommitted =
                         (Notifies(w) \/ w.entry.isCommitted)
  /\ \A e \in Entry : [e EXCEPT !.status = "E"].isCommitted = e.isCommitted
<1>1. \A e \in Entry : [e EXCEPT !.status = "E"].isCommitted = e.isCommitted
  BY DEF Entry
<1>2. ASSUME NEW w \in Window
      PROVE  Modified(w).isCommitted = (Notifies(w) \/ w.entry.isCommitted)
  <2>1. w.entry \in Entry /\ w.size \in Nat
    BY DEF Window
  <2>2. WithPrepares(w.entry, w.size) \in Entry
    BY <2>1, EntryTypes
  <2>3. CASE w.kind = "collected2F"
    BY <2>1, <2>3 DEF Modified, Notifies, Entry
  <2>4. CASE w.kind # "collected2F"
    <3>1. \A e \in Entry :
            [e EXCEPT !.status = "C", !.isCommitted = TRUE].isCommitted = TRUE
      BY DEF Entry
    <3>2. Modified(w).isCommitted = TRUE
      BY <2>2, <2>4, <3>1 DEF Modified
    <3> QED
      BY <2>4, <3>2 DEF Notifies
  <2> QED
    BY <2>3, <2>4
<1> QED
  BY <1>1, <1>2

\* What a step does to the entries of a log: most leave them as committed as
\* they were.
LEMMA LogSteps ==
  ASSUME IInv, [Next]_vars
  PROVE  \/ \A n \in Node, s \in SeqNums :
              logs'[n][s].isCommitted = logs[n][s].isCommitted
         \/ \E n \in Node : \E w \in windows[n] : WriteBack(n, w)
         \/ \E n \in Node, t \in Tx : SendPreprepare(n, t)
         \/ \E n \in Node : ExecApply(n)
<1> DEFINE Same == \A n \in Node, s \in SeqNums :
                     logs'[n][s].isCommitted = logs[n][s].isCommitted
<1>types. logs \in [Node -> [SeqNums -> Entry]]
  BY DEF IInv, TypeOK
<1>0. UNCHANGED logs => Same
  OBVIOUS
<1>1. ASSUME NEW m \in prePrepareNet, PrePrepare(m) PROVE Same
  <2>1. m.to \in Node /\ m.seq \in SeqNums /\ m.tx \in Tx
    BY DEF IInv, TypeOK, PrePrepareMsg
  <2>2. PrePrepared(logs[m.to][m.seq], m.tx).isCommitted
          = logs[m.to][m.seq].isCommitted
    BY <1>types, <2>1, EntryFields
  <2>3. logs' = [logs EXCEPT ![m.to][m.seq]
                   = PrePrepared(logs[m.to][m.seq], m.tx)]
    BY <1>1 DEF PrePrepare
  <2> QED
    BY <1>types, <2>1, <2>2, <2>3
<1>2. ASSUME NEW k \in Node, NEW q \in SeqNums, Prepare(k, q) PROVE Same
  <2>1. WithPrepares(logs[k][q], 1).isCommitted = logs[k][q].isCommitted
    BY <1>types, EntryFields
  <2>2. logs' = [logs EXCEPT ![k][q] = WithPrepares(logs[k][q], 1)]
    BY <1>2 DEF Prepare
  <2> QED
    BY <1>types, <2>1, <2>2
<1>3. ASSUME NEW n \in Node, Handle(n) PROVE Same
  BY <1>0, <1>1, <1>2, <1>3 DEF Handle, RejectPrePrepare, CollectedPrepare,
     IgnoreCollectedPrepare, Commit, IgnoreVote
<1>4. ASSUME NEW n \in Node, Work(n)
      PROVE  \/ Same
             \/ \E w \in windows[n] : WriteBack(n, w)
             \/ \E t \in Tx : SendPreprepare(n, t)
  BY <1>0, <1>4 DEF Work, ProcessTransaction, MonitorPrepare, MonitorCommit,
     CommitTimeout
<1>5. ASSUME NEW n \in Node, Execute(n) PROVE Same \/ ExecApply(n)
  BY <1>0, <1>5 DEF Execute, ExecWake, ExecSleep, ExecRead, ExecCrash
<1>6. ASSUME NEW n \in Node, Operate(n) PROVE Same
  BY <1>0, <1>6 DEF Operate, Kill, Revive, BecomeMalicious, DataRace
<1>7. ASSUME NEW n \in Node, NEW t \in Tx, SendTransaction(n, t) PROVE Same
  BY <1>0, <1>7 DEF SendTransaction
<1>8. CASE UNCHANGED vars
  BY <1>0, <1>8 DEF vars
<1> QED
  BY <1>3, <1>4, <1>5, <1>6, <1>7, <1>8 DEF Next

\* A new window has copied the entry as it was.
LEMMA WindowSteps ==
  ASSUME IInv, [Next]_vars
  PROVE  \A n \in Node : \A w \in windows'[n] :
           w \in windows[n] \/ (w.entry = logs[n][w.seq] /\ UNCHANGED logs)
<1> DEFINE Copies == \A n \in Node : \A w \in windows'[n] :
             w \in windows[n] \/ (w.entry = logs[n][w.seq] /\ UNCHANGED logs)
<1>types. windows \in [Node -> SUBSET Window]
  BY DEF IInv, TypeOK
<1>1. ASSUME NEW c \in collectedNet, CollectedPrepare(c) PROVE Copies
  <2> DEFINE kind == IF c.size >= 3 * F THEN "collected3F" ELSE "collected2F"
             o == [kind |-> kind, seq |-> c.seq, size |-> c.size,
                   entry |-> logs[c.to][c.seq]]
  <2>1. /\ o.entry = logs[c.to][c.seq] /\ o.seq = c.seq
        /\ windows' = [windows EXCEPT ![c.to] = @ \cup {o}]
    BY <1>1 DEF CollectedPrepare, Opened
  <2> HIDE DEF o
  <2>2. UNCHANGED logs
    BY <1>1 DEF CollectedPrepare
  <2> QED
    BY <1>types, <2>1, <2>2
<1>2. ASSUME NEW k \in Node, NEW q \in SeqNums, MonitorCommit(k, q) PROVE Copies
  <2>1. PICK o : /\ o.entry = logs[k][q] /\ o.seq = q
                 /\ windows' = [windows EXCEPT ![k] = @ \cup {o}]
    BY <1>2 DEF MonitorCommit, Opened
  <2>2. UNCHANGED logs
    BY <1>2 DEF MonitorCommit
  <2> QED
    BY <1>types, <2>1, <2>2
<1>3. ASSUME NEW k \in Node, NEW w \in windows[k], WriteBack(k, w) PROVE Copies
  BY <1>3, <1>types DEF WriteBack
<1>4. CASE UNCHANGED windows
  BY <1>4
<1>5. ASSUME NEW c \in collectedNet, IgnoreCollectedPrepare(c) PROVE Copies
  BY <1>5, <1>4 DEF IgnoreCollectedPrepare
<1>6. ASSUME NEW k \in Node, NEW q \in SeqNums,
             Prepare(k, q) \/ MonitorPrepare(k, q)
      PROVE  Copies
  BY <1>6, <1>4 DEF Prepare, MonitorPrepare
<1> QED
  BY <1>1, <1>2, <1>3, <1>4, <1>5, <1>6, CertificateSteps

\* What a step does to executors: most leave them alone, and only ExecRead,
\* at a committed entry, lets one apply.
LEMMA ExecutorSteps ==
  ASSUME [Next]_vars
  PROVE  \/ UNCHANGED <<executor, executed>>
         \/ \E n \in Node : \/ ExecWake(n) \/ ExecSleep(n)
                            \/ ExecRead(n) \/ ExecApply(n)
<1>1. ASSUME NEW n \in Node, Handle(n) PROVE UNCHANGED <<executor, executed>>
  BY <1>1 DEF Handle, PrePrepare, RejectPrePrepare, CollectedPrepare,
     IgnoreCollectedPrepare, Prepare, Commit, IgnoreVote
<1>2. ASSUME NEW n \in Node, Work(n) PROVE UNCHANGED <<executor, executed>>
  BY <1>2 DEF Work, ProcessTransaction, SendPreprepare, MonitorPrepare,
     MonitorCommit, CommitTimeout, WriteBack
<1>3. ASSUME NEW n \in Node, ExecCrash(n) PROVE UNCHANGED <<executor, executed>>
  BY <1>3 DEF ExecCrash
<1>4. ASSUME NEW n \in Node, Operate(n) PROVE UNCHANGED <<executor, executed>>
  BY <1>4 DEF Operate, Kill, Revive, BecomeMalicious, DataRace
<1>5. ASSUME NEW n \in Node, NEW t \in Tx, SendTransaction(n, t)
      PROVE  UNCHANGED <<executor, executed>>
  BY <1>5 DEF SendTransaction
<1>6. CASE UNCHANGED vars
  BY <1>6 DEF vars
<1> QED
  BY <1>1, <1>2, <1>3, <1>4, <1>5, <1>6 DEF Next, Execute

\* A process that has ended stays so.
LEMMA EndedStays ==
  ASSUME IInv, [Next]_vars, NEW n \in Node, crashed'[n] = "no"
  PROVE  crashed[n] = "no"
<1>types. crashed \in [Node -> {"no", "nil", "unlock", "race"}]
  BY DEF IInv, TypeOK
<1>0. CASE UNCHANGED crashed
  BY <1>0
<1>1. ASSUME NEW k \in Node, NEW why \in {"nil", "unlock", "race"}, Crash(k, why)
      PROVE  crashed[n] = "no"
  BY <1>1, <1>types DEF Crash
<1>2. ASSUME NEW k \in Node, Handle(k) PROVE UNCHANGED crashed
  BY <1>2 DEF Handle, PrePrepare, RejectPrePrepare, CollectedPrepare,
     IgnoreCollectedPrepare, Prepare, Commit, IgnoreVote
<1>3. ASSUME NEW k \in Node, Work(k)
      PROVE  UNCHANGED crashed \/ Crash(k, "nil")
  BY <1>3 DEF Work, ProcessTransaction, SendPreprepare, MonitorPrepare,
     SendCollectedPrepare, MonitorCommit, CommitTimeout, WriteBack
<1>4. ASSUME NEW k \in Node, Execute(k)
      PROVE  UNCHANGED crashed \/ Crash(k, "nil") \/ Crash(k, "unlock")
  BY <1>4 DEF Execute, ExecWake, ExecSleep, ExecRead, ExecCrash, ExecApply
<1>5. ASSUME NEW k \in Node, Operate(k)
      PROVE  UNCHANGED crashed \/ Crash(k, "race")
  BY <1>5 DEF Operate, Kill, Revive, BecomeMalicious, DataRace
<1>6. ASSUME NEW k \in Node, NEW t \in Tx, SendTransaction(k, t)
      PROVE  UNCHANGED crashed
  BY <1>6 DEF SendTransaction
<1>7. CASE UNCHANGED vars
  BY <1>0, <1>7 DEF vars
<1> QED
  BY <1>0, <1>1, <1>2, <1>3, <1>4, <1>5, <1>6, <1>7 DEF Next

-----------------------------------------------------------------------------
\* The proposal of a number that is new at the leader, where no window is open
\* and nothing is committed, changes nothing that is committed.
LEMMA ProposalCommits ==
  ASSUME IInv, NEW k \in Node, NEW t \in Tx, SendPreprepare(k, t)
  PROVE  /\ \A w \in windows[k] : w.seq # Assigned(k)
         /\ \A n \in Node, s \in SeqNums :
              logs'[n][s].isCommitted = logs[n][s].isCommitted
<1>types. /\ logs \in [Node -> [SeqNums -> Entry]]
          /\ spawned \in [Node -> [Tx -> Nat]]
          /\ globalSequence \in [Node -> 0 .. MaxSeq]
  BY DEF IInv, TypeOK
<1>1. k = L
  BY <1>types DEF IInv, OnlyLeaderProposes, SendPreprepare
<1>2. Assigned(k) \in SeqNums /\ ~Proposed(Assigned(k))
  BY <1>1, <1>types, SizeAssumption DEF SendPreprepare, SeqNums, Proposed,
     Assigned
<1>3. ~logs[k][Assigned(k)].isCommitted
  BY <1>2 DEF IInv, LogsFollow
<1>4. ~PrePrepared(NoEntry, t).isCommitted
  BY EntryTypes, EntryFields DEF NoEntry
<1>5. logs' = [logs EXCEPT ![k][Assigned(k)] = PrePrepared(NoEntry, t)]
  BY DEF SendPreprepare
<1>6. /\ logs[k][Assigned(k)].isCommitted \in BOOLEAN
      /\ PrePrepared(NoEntry, t).isCommitted \in BOOLEAN
  BY <1>2, <1>types, EntryTypes DEF Entry
<1> HIDE DEF Assigned
<1> QED
  BY <1>types, <1>1, <1>2, <1>3, <1>4, <1>5, <1>6 DEF IInv, WindowsFollow

\* A write-back that signals nobody commits nothing that was not committed.
LEMMA WriteBackCommits ==
  ASSUME IInv, CopiesCommitted, NEW k \in Node, NEW w \in windows[k],
         WriteBack(k, w)
  PROVE  \A n \in Node, s \in SeqNums :
           \/ n = k /\ s = w.seq
           \/ logs'[n][s].isCommitted = logs[n][s].isCommitted
<1>types. /\ logs \in [Node -> [SeqNums -> Entry]] /\ w.seq \in SeqNums
  BY DEF IInv, TypeOK, Window
<1> QED
  BY <1>types DEF WriteBack

\* What is copied is committed only as long as the entry is.
LEMMA CopiesKept ==
  ASSUME IInv, OneCertificate, CopiesCommitted, [Next]_vars
  PROVE  CopiesCommitted'
<1> DEFINE Held(n, w) == w.kind = "collected2F" /\ w.entry.isCommitted =>
                           logs[n][w.seq].isCommitted
           HeldAfter(n, w) == w.kind = "collected2F" /\ w.entry.isCommitted =>
                                logs'[n][w.seq].isCommitted
<1>types. /\ logs \in [Node -> [SeqNums -> Entry]]
          /\ windows \in [Node -> SUBSET Window]
          /\ windows' \in [Node -> SUBSET Window]
          /\ executor \in [Node -> [pc : {"idle", "scan", "apply"}, entry : Entry]]
  BY TypeNext DEF IInv, TypeOK
<1>seq. \A n \in Node : \A w \in windows'[n] : w.seq \in SeqNums
  BY <1>types DEF Window
<1>old. \A n \in Node : \A w \in windows[n] : Held(n, w)
  BY DEF CopiesCommitted
<1>1. \A n \in Node : \A w \in windows'[n] : HeldAfter(n, w)
  <2>1. ASSUME \A n \in Node, s \in SeqNums :
                 logs'[n][s].isCommitted = logs[n][s].isCommitted
        PROVE  \A n \in Node : \A w \in windows'[n] : HeldAfter(n, w)
    BY <2>1, <1>old, <1>seq, WindowSteps
  <2>2. ASSUME NEW k \in Node, NEW t \in Tx, SendPreprepare(k, t)
        PROVE  \A n \in Node : \A w \in windows'[n] : HeldAfter(n, w)
    BY <2>1, <2>2, ProposalCommits
  <2>3. ASSUME NEW k \in Node, NEW v \in windows[k], WriteBack(k, v)
        PROVE  \A n \in Node : \A w \in windows'[n] : HeldAfter(n, w)
    <3>1. ASSUME NEW n \in Node, NEW w \in windows'[n],
                 w.kind = "collected2F", w.entry.isCommitted
          PROVE  logs'[n][w.seq].isCommitted
      <4>1. /\ w \in windows[n]
            /\ n = k => w # v
        BY <2>3, <1>types DEF WriteBack
      <4>2. logs[n][w.seq].isCommitted
        BY <4>1, <3>1, <1>old
      <4>3. CASE n = k /\ w.seq = v.seq
        <5>1. v.kind # "collected2F"
          BY <3>1, <4>1, <4>3 DEF OneCertificate, Certifies
        <5>2. Modified(v).isCommitted
          <6>1. v \in Window
            BY <1>types
          <6> QED
            BY <5>1, <6>1, CommittedFields DEF Notifies
        <5>3. /\ k \in Node /\ v.seq \in SeqNums
              /\ \/ logs' = [logs EXCEPT ![k][v.seq] = Modified(v)]
                 \/ UNCHANGED logs
          BY <2>3, <4>3, <1>seq DEF WriteBack
        <5> QED
          BY <1>types, <4>2, <4>3, <5>2, <5>3
      <4>4. CASE ~(n = k /\ w.seq = v.seq)
        BY <2>3, <4>2, <4>4, <1>seq, WriteBackCommits
      <4> QED
        BY <4>3, <4>4
    <3> QED
      BY <3>1
  <2>4. ASSUME NEW k \in Node, ExecApply(k)
        PROVE  \A n \in Node : \A w \in windows'[n] : HeldAfter(n, w)
    <3>1. executor[k].entry \in Entry /\ executor[k].entry.isCommitted
      BY <2>4, <1>types DEF ExecApply, CopiesCommitted
    <3>2. [executor[k].entry EXCEPT !.status = "E"].isCommitted
      BY <3>1, CommittedFields
    <3>3. ASSUME NEW n \in Node, NEW s \in SeqNums, logs[n][s].isCommitted
          PROVE  logs'[n][s].isCommitted
      BY <2>4, <3>2, <3>3, <1>types DEF ExecApply
    <3>4. windows' = windows
      BY <2>4 DEF ExecApply
    <3> QED
      BY <1>old, <1>seq, <3>3, <3>4
  <2> QED
    BY <2>1, <2>2, <2>3, <2>4, LogSteps
<1>2. \A n \in Node : executor'[n].pc = "apply" => executor'[n].entry.isCommitted
  <2>1. CASE UNCHANGED executor
    BY <2>1 DEF CopiesCommitted
  <2>2. ASSUME NEW k \in Node, ExecWake(k) \/ ExecSleep(k)
        PROVE  \A n \in Node : executor'[n].pc = "apply" =>
                 executor'[n].entry.isCommitted
    BY <2>2, <1>types DEF ExecWake, ExecSleep, CopiesCommitted
  <2>3. ASSUME NEW k \in Node, ExecRead(k)
        PROVE  \A n \in Node : executor'[n].pc = "apply" =>
                 executor'[n].entry.isCommitted
    BY <2>3, <1>types DEF ExecRead, NextCommitted, CopiesCommitted
  <2>4. ASSUME NEW k \in Node, ExecApply(k)
        PROVE  \A n \in Node : executor'[n].pc = "apply" =>
                 executor'[n].entry.isCommitted
    BY <2>4, <1>types DEF ExecApply, Rescan, CopiesCommitted
  <2> QED
    BY <2>1, <2>2, <2>3, <2>4, ExecutorSteps
<1> QED
  BY <1>1, <1>2 DEF CopiesCommitted

-----------------------------------------------------------------------------
\* The signals for the executor: only the executor takes one.
LEMMA SignalsKept ==
  ASSUME IInv, [Next]_vars, NEW n \in Node
  PROVE  notifyCh'[n] >= notifyCh[n] \/ executor'[n].pc # "idle"
<1>types. /\ notifyCh \in [Node -> Nat]
          /\ executor \in [Node -> [pc : {"idle", "scan", "apply"}, entry : Entry]]
  BY DEF IInv, TypeOK
<1>0. CASE UNCHANGED notifyCh
  BY <1>0, <1>types
<1>1. ASSUME NEW k \in Node, Handle(k) PROVE UNCHANGED notifyCh
  BY <1>1 DEF Handle, PrePrepare, RejectPrePrepare, CollectedPrepare,
     IgnoreCollectedPrepare, Prepare, Commit, IgnoreVote
<1>2. ASSUME NEW k \in Node, NEW w \in windows[k], WriteBack(k, w)
      PROVE  notifyCh'[n] >= notifyCh[n]
  BY <1>2, <1>types DEF WriteBack
<1>3. ASSUME NEW k \in Node, Work(k)
      PROVE  UNCHANGED notifyCh \/ \E w \in windows[k] : WriteBack(k, w)
  BY <1>3 DEF Work, ProcessTransaction, SendPreprepare, MonitorPrepare,
     MonitorCommit, CommitTimeout
<1>4. ASSUME NEW k \in Node, ExecWake(k)
      PROVE  notifyCh'[n] >= notifyCh[n] \/ executor'[n].pc # "idle"
  <2>1. CASE n = k
    BY <1>4, <1>types, <2>1 DEF ExecWake
  <2>2. CASE n # k
    BY <1>4, <1>types, <2>2 DEF ExecWake
  <2> QED
    BY <2>1, <2>2
<1>5. ASSUME NEW k \in Node, Execute(k)
      PROVE  UNCHANGED notifyCh \/ ExecWake(k)
  BY <1>5 DEF Execute, ExecSleep, ExecRead, ExecCrash, ExecApply
<1>6. ASSUME NEW k \in Node, Operate(k) PROVE UNCHANGED notifyCh
  BY <1>6 DEF Operate, Kill, Revive, BecomeMalicious, DataRace
<1>7. ASSUME NEW k \in Node, NEW t \in Tx, SendTransaction(k, t)
      PROVE  UNCHANGED notifyCh
  BY <1>7 DEF SendTransaction
<1>8. CASE UNCHANGED vars
  BY <1>0, <1>8 DEF vars
<1> QED
  BY <1>0, <1>1, <1>2, <1>3, <1>4, <1>5, <1>6, <1>7, <1>8 DEF Next

\* An executor that is idle after a step was so before it, or has found its
\* next entry uncommitted.
LEMMA IdleSteps ==
  ASSUME IInv, [Next]_vars, NEW n \in Node, executor'[n].pc = "idle"
  PROVE  \/ executor[n].pc = "idle" /\ NextSeq(n)' = NextSeq(n)
         \/ ~NextCommitted(n)'
<1>types. executor \in [Node -> [pc : {"idle", "scan", "apply"}, entry : Entry]]
  BY DEF IInv, TypeOK
<1>1. CASE UNCHANGED <<executor, executed>>
  BY <1>1 DEF NextSeq
<1>2. ASSUME NEW k \in Node, ExecWake(k) \/ ExecRead(k)
      PROVE  executor[n].pc = "idle" /\ NextSeq(n)' = NextSeq(n)
  BY <1>2, <1>types DEF ExecWake, ExecRead, NextSeq
<1>3. ASSUME NEW k \in Node, ExecSleep(k)
      PROVE  \/ executor[n].pc = "idle" /\ NextSeq(n)' = NextSeq(n)
             \/ ~NextCommitted(n)'
  <2>1. NextSeq(n)' = NextSeq(n) /\ logs' = logs
    BY <1>3 DEF ExecSleep, NextSeq
  <2>2. CASE n = k
    BY <1>3, <2>1, <2>2 DEF ExecSleep, NextCommitted
  <2>3. CASE n # k
    BY <1>3, <1>types, <2>1, <2>3 DEF ExecSleep
  <2> QED
    BY <2>2, <2>3
<1>4. ASSUME NEW k \in Node, ExecApply(k)
      PROVE  executor[n].pc = "idle" /\ NextSeq(n)' = NextSeq(n)
  <2>1. executed \in [Node -> Seq(Tx)]
    BY DEF IInv, TypeOK
  <2>2. n # k
    BY <1>4, <1>types DEF ExecApply, Rescan
  <2> QED
    BY <1>4, <1>types, <2>1, <2>2 DEF ExecApply, NextSeq
<1> QED
  BY <1>1, <1>2, <1>3, <1>4, ExecutorSteps

\* A commit that appears at a replica comes with a signal, or was there.
LEMMA CommitsSignal ==
  ASSUME IInv, CopiesCommitted, [Next]_vars, NEW n \in Node,
         NEW s \in SeqNums, logs'[n][s].isCommitted, executor'[n].pc = "idle"
  PROVE  logs[n][s].isCommitted \/ notifyCh'[n] > 0
<1>types. /\ logs \in [Node -> [SeqNums -> Entry]]
          /\ windows \in [Node -> SUBSET Window]
          /\ notifyCh \in [Node -> Nat]
          /\ executor \in [Node -> [pc : {"idle", "scan", "apply"}, entry : Entry]]
  BY DEF IInv, TypeOK
<1>1. ASSUME NEW k \in Node, NEW w \in windows[k], WriteBack(k, w)
      PROVE  logs[n][s].isCommitted \/ notifyCh'[n] > 0
  <2>1. w \in Window /\ w.seq \in SeqNums
    BY <1>types DEF Window
  <2>2. CASE n = k /\ s = w.seq /\ Notifies(w)
    BY <1>1, <2>2, <1>types DEF WriteBack
  <2>3. CASE n = k /\ s = w.seq /\ ~Notifies(w)
    <3>1. w.kind = "collected2F"
      BY <2>3 DEF Notifies
    <3>2. Modified(w).isCommitted => w.entry.isCommitted
      BY <2>1, <2>3, CommittedFields
    <3>3. logs' = [logs EXCEPT ![k][w.seq] = Modified(w)] \/ UNCHANGED logs
      BY <1>1 DEF WriteBack
    <3> QED
      BY <1>types, <2>1, <2>3, <3>1, <3>2, <3>3 DEF CopiesCommitted
  <2>4. CASE ~(n = k /\ s = w.seq)
    BY <1>1, <2>4, WriteBackCommits
  <2> QED
    BY <2>2, <2>3, <2>4
<1>2. ASSUME NEW k \in Node, ExecApply(k)
      PROVE  logs[n][s].isCommitted
  <2>1. n # k
    BY <1>2, <1>types DEF ExecApply, Rescan
  <2> QED
    BY <1>2, <2>1, <1>types DEF ExecApply
<1>3. ASSUME NEW k \in Node, NEW t \in Tx, SendPreprepare(k, t)
      PROVE  logs[n][s].isCommitted
  BY <1>3, ProposalCommits
<1> QED
  BY <1>1, <1>2, <1>3, LogSteps

\* The executor is never left asleep with its next entry committed.
LEMMA WakeKept ==
  ASSUME IInv, CopiesCommitted, NoLostWakeup, [Next]_vars
  PROVE  NoLostWakeup'
<1> SUFFICES ASSUME NEW n \in Node, Up(n)', NextCommitted(n)',
                    executor'[n].pc = "idle"
             PROVE  notifyCh'[n] > 0
  BY DEF NoLostWakeup
<1>types. notifyCh \in [Node -> Nat] /\ notifyCh' \in [Node -> Nat]
  BY TypeNext DEF IInv, TypeOK
<1>1. executor[n].pc = "idle" /\ NextSeq(n)' = NextSeq(n)
  BY IdleSteps
<1>2. NextSeq(n) \in SeqNums /\ logs'[n][NextSeq(n)].isCommitted
  BY <1>1 DEF NextCommitted
<1>3. CASE logs[n][NextSeq(n)].isCommitted
  <2>1. notifyCh[n] > 0
    BY <1>1, <1>2, <1>3, EndedStays DEF NoLostWakeup, NextCommitted
  <2> QED
    BY <1>types, <2>1, SignalsKept
<1>4. CASE ~logs[n][NextSeq(n)].isCommitted
  BY <1>2, <1>4, CommitsSignal
<1> QED
  BY <1>3, <1>4

-----------------------------------------------------------------------------
\* At first nothing is on its way, copied or committed.
LEMMA WakeInit == Init => WakeInv
<1> SUFFICES ASSUME Init PROVE WakeInv
  OBVIOUS
<1>1. /\ prepareNet = [n \in Node |-> [s \in SeqNums |-> 0]]
      /\ prepareTrackers = [n \in Node |-> [s \in SeqNums |-> NoTracker]]
      /\ collectedNet = {} /\ windows = [n \in Node |-> {}]
      /\ executor = [n \in Node |-> [pc |-> "idle", entry |-> NoEntry]]
      /\ logs = [n \in Node |-> [s \in SeqNums |-> NoEntry]]
  BY DEF Init
<1>2. OnlyCollectorCounts
  BY <1>1 DEF OnlyCollectorCounts, NoTracker
<1>3. OneCertificate /\ CollectedOnce
  BY <1>1 DEF OneCertificate, CollectedOnce
<1>4. CopiesCommitted
  BY <1>1 DEF CopiesCommitted
<1>5. NoLostWakeup
  BY <1>1 DEF NoLostWakeup, NextCommitted, NoEntry
<1> QED
  BY <1>2, <1>3, <1>4, <1>5 DEF WakeInv

\* The executor does not sleep on work, in any behaviour: a commit brings its
\* signal, and no stale write-back makes an entry committed without one.
THEOREM NoWakeupIsLost == Spec => []NoLostWakeup
<1>1. IInv /\ WakeInv /\ [Next]_vars => WakeInv'
  BY CountsKept, CertificatesKept, CopiesKept, WakeKept DEF WakeInv
<1>2. Spec => []WakeInv
  BY <1>1, WakeInit, InvariantHolds, PTL DEF Spec
<1>3. WakeInv => NoLostWakeup
  BY DEF WakeInv
<1> QED
  BY <1>2, <1>3, PTL
=============================================================================
