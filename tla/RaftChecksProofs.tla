-------------------------- MODULE RaftChecksProofs --------------------------
(***************************************************************************)
(* Theorems about RaftChecks, for any number of servers, commands, restarts  *)
(* and checks, and for any length of the log: first about the appliers, and  *)
(* then about the checks that a test calls, which are right if a server      *)
(* whose applierSnap is busy is not restarted: a right Raft is never blamed, *)
(* and what one and wait return is so.                                       *)
(***************************************************************************)
EXTENDS RaftChecks, Integers, TLAPS

Logs == [Indexes -> Commands \cup {None}]
Snapshots == [index : 0 .. MaxIndex, xlog : Logs]

CommandMsgs == [kind : {"command"}, index : Indexes, cmd : Commands]
SnapshotMsgs == [kind : {"snapshot"}, index : Indexes, snap : Snapshots]

Errors == {"none", "apply out of order", "commit differs"}

Busy ==
  [at : {"received", "log", "advance", "snapshot"}, m : CommandMsgs, err : Errors] \cup
  [at : {"received"}, m : SnapshotMsgs, err : {"none"}]

CfgTypes ==
  /\ test \in Tests /\ honest \in BOOLEAN /\ (snapshot => honest)
  /\ decided \in Seq(Commands) /\ Len(decided) <= MaxIndex
  /\ sent \in [Instances -> 0 .. MaxIndex]
  /\ gen \in [Peers -> 1 .. MaxStarts]
  /\ running \in [Peers -> BOOLEAN] /\ connected \in [Peers -> BOOLEAN]
  /\ logs \in [Peers -> Logs]
  /\ lastApplied \in [Peers -> 0 .. MaxIndex]
  /\ saved \in [Peers -> Snapshots]
  /\ applier \in [Instances -> {Idle} \cup Busy]

\* Without snapshots the appliers are those of applier, and nothing is saved.
PlainInv ==
  ~snapshot =>
    /\ \A i \in Peers : saved[i] = NoSnapshot
    /\ \A x \in Instances : applier[x] # Idle => applier[x].at = "received" /\ applier[x].m \in CommandMsgs

----------------------------------------------------------------------------
\* What the test does while it checks changes neither Raft nor the config.
Judging ==
  \/ \E cmd \in Commands, n \in 1 .. N : one(cmd, n)
  \/ \E k \in Indexes, n \in 1 .. N : wait(k, n)
  \/ StartCommand \/ Count \/ OneReturns \/ OneGoesOn \/ WaitGoesOn \/ WaitReturns
  \/ \E kind \in {"checkOneLeader", "checkTerms", "checkNoLeader"} : BeginProbe(kind)
  \/ GetState \/ checkOneLeader \/ checkTerms \/ checkNoLeader

\* one, wait, checkOneLeader, checkTerms and checkNoLeader only look: they
\* change neither Raft nor the logs of the config nor an applier.
LEMMA JudgingChangesNothing == Judging => UNCHANGED <<raftVars, cfgVars, applier>>
  BY Zenon DEF Judging, one, wait, StartCommand, Count, OneReturns, OneGoesOn, WaitGoesOn, WaitReturns, BeginProbe,
         GetState, checkOneLeader, checkTerms, checkNoLeader, BeginCheck, Goon, Finish, Fail, Keep

\* An instance and its server.
LEMMA InstanceTypes ==
  /\ \A x \in Instances : x[1] \in Peers /\ x[2] \in 1 .. MaxStarts /\ x = <<x[1], x[2]>>
  /\ \A i \in Peers, g \in 1 .. MaxStarts : <<i, g>> \in Instances
  BY DEF Instances

\* The messages and places of an applier.
LEMMA BusyTypes ==
  /\ Idle \notin Busy /\ Idle.at = "idle"
  /\ \A a \in Busy :
       /\ a.at \in {"received", "log", "advance", "snapshot"} /\ a.err \in Errors
       /\ a.m.index \in Indexes
       /\ a.m.kind = "command" <=> a.m \in CommandMsgs
       /\ a.m.kind = "snapshot" <=> a.m \in SnapshotMsgs
       /\ a.m \in CommandMsgs \/ a.m \in SnapshotMsgs
       /\ a.at # "received" => a.m \in CommandMsgs
  BY Zenon DEF Idle, Busy, CommandMsgs, SnapshotMsgs, Errors

\* An applier that is at a place other than idle holds a message.
LEMMA AtBusy ==
  CfgTypes => \A x \in Instances : applier[x].at # "idle" => applier[x] \in Busy
  BY BusyTypes, Zenon DEF CfgTypes

\* The comparison gives one of three results.
LEMMA FaultTypes == \A i, m : Fault(i, m) \in Errors
  BY Zenon DEF Fault, Errors

\* The type and the shape of the appliers hold initially.
LEMMA CfgInit == Init => CfgTypes /\ PlainInv
<1> SUFFICES ASSUME Init PROVE CfgTypes /\ PlainInv
  BY Zenon
<1> USE RaftChecksAssumption
<1>1. NoLog \in Logs /\ NoSnapshot \in Snapshots
  BY DEF NoLog, Logs, NoSnapshot, Snapshots
<1>2. CfgTypes
  BY <1>1 DEF Init, CfgTypes, Instances
<1>3. PlainInv
  BY Zenon DEF Init, PlainInv
<1> QED
  BY <1>2, <1>3, Zenon

\* Every step of Next is one of these.
LEMMA NextCases ==
  ASSUME Next
  PROVE  /\ alarm = "none"
         /\ \/ \E c \in Commands : Decide(c)
            \/ \E x \in Instances, k \in Indexes, c \in Commands : ApplyCommand(x, k, c)
            \/ \E x \in Instances, k \in Indexes, j \in Peers : ApplySnapshot(x, saved[j], k)
            \/ \E i \in Peers, t \in 1 .. MaxTerm : Elect(i, t) \/ Learn(i, t)
            \/ \E x \in Instances : Applier(x)
            \/ \E x \in Instances : IngestSnap(x)
            \/ \E x \in Instances : ReadLastApplied(x)
            \/ \E x \in Instances : CheckLogs(x)
            \/ \E x \in Instances : Advance(x)
            \/ \E x \in Instances : TakeSnapshot(x)
            \/ \E i \in Peers : crash1(i)
            \/ \E i \in Peers : start1(i)
            \/ \E i \in Peers, yes \in BOOLEAN : connect(i, yes)
            \/ Judging
<1>1. CASE Raft
  BY <1>1, Zenon DEF Raft, Next
<1>2. CASE Appliers
  BY <1>2, Zenon DEF Appliers, Next
<1>3. CASE Test
  BY <1>3, Zenon DEF Test, Judging, Next
<1> QED
  BY <1>1, <1>2, <1>3, Zenon DEF Next

\* Raft's steps keep the types.
LEMMA RaftTypes ==
  ASSUME CfgTypes, PlainInv, Raft
  PROVE  CfgTypes' /\ PlainInv'
<1> USE RaftChecksAssumption
<1>1. ASSUME NEW c \in Commands, Decide(c) PROVE CfgTypes' /\ PlainInv'
  <2>1. decided' \in Seq(Commands) /\ Len(decided') = Len(decided) + 1 /\ Len(decided) < MaxIndex
    BY <1>1 DEF Decide, CfgTypes
  <2>2. Len(decided) \in Nat
    BY DEF CfgTypes
  <2> QED
    BY <1>1, <2>1, <2>2 DEF Decide, CfgTypes, PlainInv, cfgVars, snapshot
<1>2. ASSUME NEW x \in Instances, NEW k \in Indexes, NEW c \in Commands, ApplyCommand(x, k, c)
      PROVE  CfgTypes' /\ PlainInv'
  <2> DEFINE m == [kind |-> "command", index |-> k, cmd |-> c]
             b == [at |-> "received", m |-> m, err |-> "none"]
  <2>1. m \in CommandMsgs
    BY Zenon DEF CommandMsgs
  <2>2. b \in Busy /\ b.at = "received" /\ b.m \in CommandMsgs
    BY <2>1, Zenon DEF Busy, Errors
  <2>3. applier' = [applier EXCEPT ![x] = b]
    BY <1>2, Zenon DEF ApplyCommand, Hand
  <2>4. sent' \in [Instances -> 0 .. MaxIndex]
    BY <1>2 DEF ApplyCommand, CfgTypes, Indexes
  <2> HIDE DEF b
  <2>5. applier' \in [Instances -> {Idle} \cup Busy]
    BY <2>2, <2>3, Zenon DEF CfgTypes
  <2>6. CfgTypes'
    BY <1>2, <2>4, <2>5, Zenon DEF ApplyCommand, CfgTypes, cfgVars, snapshot
  <2>7. PlainInv'
    BY <1>2, <2>2, <2>3, Zenon DEF ApplyCommand, CfgTypes, cfgVars, snapshot, PlainInv
  <2> QED
    BY <2>6, <2>7, Zenon
<1>3. ASSUME NEW x \in Instances, NEW k \in Indexes, NEW j \in Peers, ApplySnapshot(x, saved[j], k)
      PROVE  CfgTypes' /\ PlainInv'
  <2> DEFINE m == [kind |-> "snapshot", index |-> k, snap |-> saved[j]]
             b == [at |-> "received", m |-> m, err |-> "none"]
  <2>1. m \in SnapshotMsgs
    BY Zenon DEF SnapshotMsgs, CfgTypes
  <2>2. b \in Busy
    BY <2>1, Zenon DEF Busy
  <2>3. applier' = [applier EXCEPT ![x] = b]
    BY <1>3, Zenon DEF ApplySnapshot, Hand
  <2>4. sent' \in [Instances -> 0 .. MaxIndex]
    BY <1>3 DEF ApplySnapshot, CfgTypes, Indexes
  <2>5. saved' \in [Peers -> Snapshots]
    BY <1>3, InstanceTypes, Zenon DEF ApplySnapshot, CfgTypes
  <2> HIDE DEF b
  <2>6. applier' \in [Instances -> {Idle} \cup Busy]
    BY <2>2, <2>3, Zenon DEF CfgTypes
  <2>7. CfgTypes'
    BY <1>3, <2>4, <2>5, <2>6, Zenon DEF ApplySnapshot, CfgTypes, snapshot
  <2> QED
    BY <1>3, <2>7, Zenon DEF ApplySnapshot, PlainInv, snapshot
<1>4. ASSUME NEW i \in Peers, NEW t \in 1 .. MaxTerm, Elect(i, t) \/ Learn(i, t)
      PROVE  CfgTypes' /\ PlainInv'
  BY <1>4, SMTT(60) DEF Elect, Learn, CfgTypes, PlainInv, cfgVars, snapshot
<1> QED
  BY <1>1, <1>2, <1>3, <1>4, Zenon DEF Raft

\* Nothing but the log of one index is changed by a comparison.
LEMMA SetLogTypes ==
  ASSUME CfgTypes, NEW i \in Peers, NEW m \in CommandMsgs, SetLog(i, m)
  PROVE  /\ logs' \in [Peers -> Logs]
         /\ m.index \in Indexes /\ m.cmd \in Commands
         /\ \A j \in Peers, k \in Indexes :
              logs'[j][k] = IF j = i /\ k = m.index THEN m.cmd ELSE logs[j][k]
<1>1. m.index \in Indexes /\ m.cmd \in Commands
  BY Zenon DEF CommandMsgs
<1>2. logs' = [logs EXCEPT ![i] = [logs[i] EXCEPT ![m.index] = m.cmd]]
  BY Zenon DEF SetLog, CfgTypes
<1>3. [logs[i] EXCEPT ![m.index] = m.cmd] \in Logs
  BY <1>1, Zenon DEF CfgTypes, Logs
<1>4. \A j \in Peers : logs[j] \in Logs
  BY Zenon DEF CfgTypes
<1> QED
  BY <1>1, <1>2, <1>3, <1>4, Zenon DEF CfgTypes, Logs

\* applierSnap goes to another place with the same message.
LEMMA MoveTypes ==
  ASSUME NEW a \in Busy, a.m \in CommandMsgs, NEW e \in Errors,
         NEW p \in {"received", "log", "advance", "snapshot"}
  PROVE  /\ [a EXCEPT !.at = p] \in Busy /\ [a EXCEPT !.at = p, !.err = e] \in Busy
         /\ [a EXCEPT !.at = p].m = a.m /\ [a EXCEPT !.at = p, !.err = e].m = a.m
         /\ [a EXCEPT !.at = p].at = p /\ [a EXCEPT !.at = p, !.err = e].at = p
         /\ [a EXCEPT !.at = p].err = a.err /\ [a EXCEPT !.at = p, !.err = e].err = e
<1>1. a \in [at : {"received", "log", "advance", "snapshot"}, m : CommandMsgs, err : Errors]
  BY Zenon DEF Busy, CommandMsgs, SnapshotMsgs, Errors
<1> QED
  BY <1>1, ZenonT(60) DEF Busy

\* The appliers' steps keep the types.
LEMMA AppliersTypes ==
  ASSUME CfgTypes, PlainInv, Appliers
  PROVE  CfgTypes' /\ PlainInv'
<1> USE RaftChecksAssumption
<1> PICK x \in Instances :
      \/ Applier(x) \/ IngestSnap(x) \/ ReadLastApplied(x)
      \/ CheckLogs(x) \/ Advance(x) \/ TakeSnapshot(x)
  BY Zenon DEF Appliers
<1> DEFINE i == x[1]
           m == applier[x].m
<1>i. i \in Peers
  BY InstanceTypes, Zenon
<1>t. test \in Tests /\ honest \in BOOLEAN /\ (snapshot => honest) /\ applier[x] \in {Idle} \cup Busy
  BY Zenon DEF CfgTypes
<1>1. CASE Applier(x)
  <2>1. m \in CommandMsgs /\ ~snapshot
    BY <1>1, BusyTypes, Zenon DEF Applier, PlainInv
  <2>2. SetLog(i, m)
    BY <1>1, Zenon DEF Applier
  <2> HIDE DEF i, m
  <2>3. logs' \in [Peers -> Logs]
    BY <1>i, <2>1, <2>2, SetLogTypes, Zenon
  <2>4. applier' = [applier EXCEPT ![x] = Idle]
    BY <1>1, Zenon DEF Applier
  <2>5. applier' \in [Instances -> {Idle} \cup Busy]
    BY <2>4, Zenon DEF CfgTypes
  <2>6. UNCHANGED <<raftVars, gen, running, connected, lastApplied, saved>>
    BY <1>1, Zenon DEF Applier
  <2>7. CfgTypes'
    BY <2>3, <2>5, <2>6, Zenon DEF CfgTypes, raftVars, snapshot
  <2>8. PlainInv'
    BY <2>4, <2>6, Zenon DEF CfgTypes, PlainInv, raftVars, snapshot
  <2> QED
    BY <2>7, <2>8, Zenon
<1>2. CASE IngestSnap(x)
  <2>1. snapshot /\ m.kind = "snapshot" /\ applier[x].at = "received"
    BY <1>2, Zenon DEF IngestSnap
  <2>2. m \in SnapshotMsgs
    BY <2>1, AtBusy, BusyTypes, Zenon
  <2>3. m.snap \in Snapshots
    BY <2>2, Zenon DEF SnapshotMsgs
  <2>4. m.snap.index \in 0 .. MaxIndex /\ m.snap.xlog \in Logs
    BY <2>3, Zenon DEF Snapshots
  <2>5. applier' \in [Instances -> {Idle} \cup Busy]
    BY <1>2, Zenon DEF CfgTypes, IngestSnap
  <2>6. logs' \in [Peers -> Logs] /\ lastApplied' \in [Peers -> 0 .. MaxIndex]
    BY <1>i, <1>2, <2>4, ZenonT(60) DEF CfgTypes, IngestSnap
  <2>7. CfgTypes'
    BY <1>2, <2>5, <2>6, ZenonT(60) DEF CfgTypes, IngestSnap, raftVars, snapshot
  <2> QED
    BY <1>2, <2>1, <2>7, Zenon DEF IngestSnap, raftVars, snapshot, PlainInv
<1>3. CASE ReadLastApplied(x)
  <2>1. snapshot /\ m.kind = "command" /\ applier[x].at = "received"
    BY <1>3, Zenon DEF ReadLastApplied
  <2>2. m \in CommandMsgs /\ applier[x] \in Busy
    BY <2>1, AtBusy, BusyTypes, Zenon
  <2>3. PICK b \in Busy : applier' = [applier EXCEPT ![x] = b]
    <3>1. CASE m.index # lastApplied[i] + 1
      <4>1. [applier[x] EXCEPT !.at = "advance", !.err = "apply out of order"] \in Busy
        BY <2>2, MoveTypes, ZenonT(60) DEF Errors
      <4>2. applier' = [applier EXCEPT ![x] = [applier[x] EXCEPT !.at = "advance", !.err = "apply out of order"]]
        BY <1>3, <3>1, Zenon DEF ReadLastApplied, CfgTypes
      <4> QED
        BY <4>1, <4>2, Zenon
    <3>2. CASE m.index = lastApplied[i] + 1
      <4>1. [applier[x] EXCEPT !.at = "log"] \in Busy
        BY <2>2, MoveTypes, ZenonT(60) DEF Errors
      <4>2. applier' = [applier EXCEPT ![x] = [applier[x] EXCEPT !.at = "log"]]
        BY <1>3, <3>2, Zenon DEF ReadLastApplied, CfgTypes
      <4> QED
        BY <4>1, <4>2, Zenon
    <3> QED
      BY <3>1, <3>2, Zenon
  <2>4. applier' \in [Instances -> {Idle} \cup Busy]
    BY <2>3, Zenon DEF CfgTypes
  <2>5. UNCHANGED <<raftVars, cfgVars>>
    BY <1>3, Zenon DEF ReadLastApplied
  <2>6. CfgTypes'
    BY <2>4, <2>5, Zenon DEF CfgTypes, raftVars, cfgVars, snapshot
  <2> QED
    BY <2>1, <2>5, <2>6, Zenon DEF raftVars, snapshot, PlainInv
<1>4. CASE CheckLogs(x)
  <2>1. applier[x].at = "log"
    BY <1>4, Zenon DEF CheckLogs
  <2>2. m \in CommandMsgs /\ applier[x] \in Busy
    BY <2>1, AtBusy, BusyTypes, Zenon
  <2>3. snapshot
    BY <2>1, BusyTypes, Zenon DEF PlainInv
  <2>4. SetLog(i, m) /\ Fault(i, m) \in Errors
    BY <1>4, FaultTypes, Zenon DEF CheckLogs
  <2>5. [applier[x] EXCEPT !.at = "advance", !.err = Fault(i, m)] \in Busy
    BY <2>2, <2>4, MoveTypes, ZenonT(60)
  <2>6. applier' = [applier EXCEPT ![x] = [applier[x] EXCEPT !.at = "advance", !.err = Fault(i, m)]]
    BY <1>4, Zenon DEF CheckLogs, CfgTypes
  <2>7. applier' \in [Instances -> {Idle} \cup Busy]
    BY <2>5, <2>6, Zenon DEF CfgTypes
  <2>8. UNCHANGED <<raftVars, gen, running, connected, lastApplied, saved>>
    BY <1>4, Zenon DEF CheckLogs
  <2> HIDE DEF i, m
  <2>9. logs' \in [Peers -> Logs]
    BY <1>i, <2>2, <2>4, SetLogTypes, Zenon
  <2>10. CfgTypes'
    BY <2>7, <2>8, <2>9, Zenon DEF CfgTypes, raftVars, snapshot
  <2> QED
    BY <2>3, <2>8, <2>10, Zenon DEF raftVars, snapshot, PlainInv
<1>5. CASE Advance(x)
  <2>1. applier[x].at = "advance"
    BY <1>5, Zenon DEF Advance
  <2>2. m \in CommandMsgs /\ applier[x] \in Busy
    BY <2>1, AtBusy, BusyTypes, Zenon
  <2>3. snapshot
    BY <2>1, BusyTypes, Zenon DEF PlainInv
  <2>4. m.index \in 0 .. MaxIndex
    BY <2>2 DEF CommandMsgs, Indexes
  <2>5. [applier[x] EXCEPT !.at = "snapshot"] \in Busy
    BY <2>2, MoveTypes, Zenon DEF Errors
  <2>6. \/ applier' = [applier EXCEPT ![x] = [applier[x] EXCEPT !.at = "snapshot"]]
        \/ applier' = [applier EXCEPT ![x] = Idle]
    BY <1>5, Zenon DEF Advance, CfgTypes
  <2>7. applier' \in [Instances -> {Idle} \cup Busy]
    BY <2>5, <2>6, ZenonT(60) DEF CfgTypes
  <2>8. UNCHANGED <<raftVars, gen, running, connected, logs, saved>>
    BY <1>5, Zenon DEF Advance
  <2>9. lastApplied' \in [Peers -> 0 .. MaxIndex]
    BY <1>5, <1>i, <2>4, Zenon DEF Advance, CfgTypes
  <2>10. CfgTypes'
    BY <2>7, <2>8, <2>9, Zenon DEF CfgTypes, raftVars, snapshot
  <2> QED
    BY <2>3, <2>8, <2>10, Zenon DEF raftVars, snapshot, PlainInv
<1>6. CASE TakeSnapshot(x)
  <2>1. applier[x].at = "snapshot"
    BY <1>6, Zenon DEF TakeSnapshot
  <2>2. m \in CommandMsgs /\ applier[x] \in Busy
    BY <2>1, AtBusy, BusyTypes, Zenon
  <2>3. snapshot
    BY <2>1, BusyTypes, Zenon DEF PlainInv
  <2>4. m.index \in 0 .. MaxIndex
    BY <2>2 DEF CommandMsgs, Indexes
  <2>5. logs[i] \in Logs
    BY <1>i, Zenon DEF CfgTypes
  <2>6. Cut(logs[i], m.index) \in Logs
    BY <2>5, Zenon DEF Cut, Logs
  <2>7. [index |-> m.index, xlog |-> Cut(logs[i], m.index)] \in Snapshots
    BY <2>4, <2>6, Zenon DEF Snapshots
  <2>8. saved' \in [Peers -> Snapshots]
    BY <1>6, <1>i, <2>7, Zenon DEF TakeSnapshot, CfgTypes
  <2>9. applier' \in [Instances -> {Idle} \cup Busy]
    BY <1>6, Zenon DEF TakeSnapshot, CfgTypes
  <2>10. UNCHANGED <<raftVars, gen, running, connected, logs, lastApplied>>
    BY <1>6, Zenon DEF TakeSnapshot
  <2>11. CfgTypes'
    BY <2>8, <2>9, <2>10, Zenon DEF CfgTypes, raftVars, snapshot
  <2> QED
    BY <2>3, <2>10, <2>11, Zenon DEF raftVars, snapshot, PlainInv
<1> QED
  BY <1>1, <1>2, <1>3, <1>4, <1>5, <1>6, Zenon

\* The test's steps keep the types.
LEMMA TestTypes ==
  ASSUME CfgTypes, PlainInv, NEW i \in Peers,
         crash1(i) \/ start1(i) \/ \E yes \in BOOLEAN : connect(i, yes)
  PROVE  CfgTypes' /\ PlainInv'
<1> USE RaftChecksAssumption
<1>1. CASE crash1(i)
  BY <1>1, Zenon DEF crash1, CfgTypes, PlainInv, raftVars, snapshot
<1>2. CASE start1(i)
  <2>1. gen[i] \in 1 .. MaxStarts /\ gen[i] < MaxStarts
    BY <1>2, Zenon DEF start1, CfgTypes
  <2>2. gen' \in [Peers -> 1 .. MaxStarts] /\ <<i, gen[i] + 1>> \in Instances
    BY <1>2, <2>1, SMTT(60) DEF start1, CfgTypes, Instances
  <2>3. saved[i] \in Snapshots
    BY Zenon DEF CfgTypes
  <2>4. saved[i].index \in 0 .. MaxIndex /\ saved[i].xlog \in Logs
    BY <2>3, Zenon DEF Snapshots
  <2>5. lastApplied' \in [Peers -> 0 .. MaxIndex] /\ sent' \in [Instances -> 0 .. MaxIndex]
    BY <1>2, <2>2, <2>4, Zenon DEF start1, CfgTypes
  <2>6. logs' \in [Peers -> Logs]
    BY <1>2, <2>4, Zenon DEF start1, CfgTypes
  <2>7. running' \in [Peers -> BOOLEAN] /\ connected' \in [Peers -> BOOLEAN]
    BY <1>2, Zenon DEF start1, CfgTypes
  <2>8. UNCHANGED <<test, honest, decided, saved, applier>>
    BY <1>2, Zenon DEF start1
  <2>9. CfgTypes'
    BY <2>2, <2>5, <2>6, <2>7, <2>8, Zenon DEF CfgTypes, snapshot
  <2> QED
    BY <2>8, <2>9, Zenon DEF PlainInv, snapshot
<1>3. ASSUME NEW yes \in BOOLEAN, connect(i, yes) PROVE CfgTypes' /\ PlainInv'
  BY <1>3, Zenon DEF connect, CfgTypes, PlainInv, raftVars, snapshot
<1> QED
  BY <1>1, <1>2, <1>3, Zenon

\* Every step keeps the types.
LEMMA CfgStep == CfgTypes /\ PlainInv /\ [Next]_vars => CfgTypes' /\ PlainInv'
<1> SUFFICES ASSUME CfgTypes, PlainInv, [Next]_vars PROVE CfgTypes' /\ PlainInv'
  BY Zenon
<1>1. CASE Raft
  BY <1>1, RaftTypes, Zenon
<1>2. CASE Appliers
  BY <1>2, AppliersTypes, Zenon
<1>3. ASSUME NEW i \in Peers, crash1(i) \/ start1(i) \/ \E yes \in BOOLEAN : connect(i, yes)
      PROVE  CfgTypes' /\ PlainInv'
  BY <1>3, TestTypes, Zenon
<1>4. CASE UNCHANGED <<raftVars, cfgVars, applier>>
  BY <1>4, Zenon DEF CfgTypes, PlainInv, raftVars, cfgVars, snapshot
<1>5. CASE Judging
  BY <1>4, <1>5, JudgingChangesNothing, Zenon
<1>6. CASE UNCHANGED vars
  BY <1>4, <1>6, Zenon DEF vars
<1> QED
  BY <1>1, <1>2, <1>3, <1>5, <1>6, Zenon DEF Next, Test, Judging

----------------------------------------------------------------------------
\* Without snapshots a step leaves the logs alone, or an applier adds a command.
LEMMA PlainLogs ==
  ASSUME CfgTypes, PlainInv, [Next]_vars, ~snapshot, logs' # logs
  PROVE  /\ alarm = "none"
         /\ \E i \in Peers, m \in CommandMsgs : SetLog(i, m) /\ alarm' = Fault(i, m)
<1>1. Next
  BY Zenon DEF vars, cfgVars
<1>2. alarm = "none"
  BY <1>1, NextCases, Zenon
<1>3. ASSUME NEW x \in Instances, Applier(x)
      PROVE  \E i \in Peers, m \in CommandMsgs : SetLog(i, m) /\ alarm' = Fault(i, m)
  <2>1. applier[x].m \in CommandMsgs
    BY <1>3, BusyTypes, Zenon DEF Applier, PlainInv
  <2>2. SetLog(x[1], applier[x].m) /\ alarm' = Fault(x[1], applier[x].m)
    BY <1>2, <1>3, Zenon DEF Applier, Fatal
  <2> QED
    BY <2>1, <2>2, InstanceTypes, Zenon
<1>4. ASSUME NEW i \in Peers, start1(i) PROVE FALSE
  BY <1>4, Zenon DEF start1, PlainInv
<1>5. ASSUME NEW x \in Instances, CheckLogs(x) PROVE FALSE
  BY <1>5, BusyTypes, Zenon DEF CheckLogs, PlainInv
<1>6. ASSUME NEW x \in Instances, IngestSnap(x) PROVE FALSE
  BY <1>6, Zenon DEF IngestSnap
<1>7. \/ \E x \in Instances : Applier(x)
      \/ \E x \in Instances : CheckLogs(x)
      \/ \E i \in Peers : start1(i)
  BY <1>1, <1>6, NextCases, JudgingChangesNothing, Zenon
     DEF Decide, ApplyCommand, ApplySnapshot, Elect, Learn, ReadLastApplied, Advance, TakeSnapshot,
         crash1, connect, cfgVars
<1> QED
  BY <1>2, <1>3, <1>4, <1>5, <1>7, Zenon

\* A comparison that passes adds a command where the logs allow it.
LEMMA PassedComparison ==
  ASSUME CfgTypes, NEW i \in Peers, NEW m \in CommandMsgs, Fault(i, m) = "none"
  PROVE  /\ \A j \in Peers : logs[j][m.index] \in {None, m.cmd}
         /\ m.index > 1 => logs[i][m.index - 1] # None
  BY Zenon DEF Fault, Differs, OutOfOrder

\* What the logs agree on stays so with every step.
LEMMA AgreeStep ==
  CfgTypes /\ PlainInv /\ LogsAgree /\ [Next]_vars => LogsAgree'
<1> SUFFICES ASSUME CfgTypes, PlainInv, LogsAgree, [Next]_vars, ~snapshot', alarm' = "none"
             PROVE  LogsAgree'
  BY Zenon DEF LogsAgree
<1> USE RaftChecksAssumption
<1>1. ~snapshot
  BY NextCases, JudgingChangesNothing, ZenonT(60)
     DEF Decide, ApplyCommand, ApplySnapshot, Elect, Learn, Applier, IngestSnap, ReadLastApplied, CheckLogs,
         Advance, TakeSnapshot, crash1, start1, connect, raftVars, snapshot, vars
<1>2. alarm = "none"
  BY NextCases, Zenon DEF vars
<1>3. CASE logs' = logs
  BY <1>1, <1>2, <1>3, Zenon DEF LogsAgree
<1>4. CASE logs' # logs
  <2>1. PICK i \in Peers, m \in CommandMsgs : SetLog(i, m) /\ alarm' = Fault(i, m)
    BY <1>1, <1>4, PlainLogs, Zenon
  <2>2. /\ \A j \in Peers : logs[j][m.index] \in {None, m.cmd}
        /\ m.index > 1 => logs[i][m.index - 1] # None
    BY <2>1, PassedComparison, Zenon
  <2>3. /\ m.index \in Indexes /\ m.cmd \in Commands
        /\ \A j \in Peers, k \in Indexes :
             logs'[j][k] = IF j = i /\ k = m.index THEN m.cmd ELSE logs[j][k]
    BY <2>1, SetLogTypes
  <2>4. \A a \in Peers, k \in Indexes :
          logs[a][k] # None => /\ \A j \in Peers : logs[j][k] \in {None, logs[a][k]}
                               /\ k > 1 => logs[a][k - 1] # None
    BY <1>1, <1>2, Zenon DEF LogsAgree
  <2>5. ASSUME NEW a \in Peers, NEW k \in Indexes, logs'[a][k] # None
        PROVE  /\ \A j \in Peers : logs'[j][k] \in {None, logs'[a][k]}
               /\ k > 1 => logs'[a][k - 1] # None
    <3>1. \A j \in Peers : logs'[j][k] \in {None, logs'[a][k]}
      BY <2>2, <2>3, <2>4, <2>5, SMTT(60)
    <3>2. ASSUME k > 1 PROVE logs'[a][k - 1] # None
      <4>1. k - 1 \in Indexes /\ k - 1 # k
        BY <3>2 DEF Indexes
      <4>2. logs[a][k - 1] # None
        BY <2>2, <2>3, <2>4, <2>5, <3>2
      <4> QED
        BY <2>3, <4>1, <4>2
    <3> QED
      BY <3>1, <3>2, Zenon
  <2> QED
    BY <2>5, Zenon DEF LogsAgree
<1> QED
  BY <1>3, <1>4, Zenon

\* The types hold in every state.
LEMMA CfgCorrect == Spec => [](CfgTypes /\ PlainInv)
<1>1. Init => CfgTypes /\ PlainInv
  BY CfgInit, Zenon
<1>2. (CfgTypes /\ PlainInv) /\ [Next]_vars => (CfgTypes /\ PlainInv)'
  BY CfgStep, Zenon
<1> QED
  BY <1>1, <1>2, PTL DEF Spec

\* Whatever Raft applies, and however often servers are killed and restarted, as
\* long as the appliers (checkLogs) report nothing the servers' logs agree at
\* every index and have no hole.
THEOREM NoUnnoticedDisagreement == Spec => []LogsAgree
<1>1. Init => LogsAgree
  BY RaftChecksAssumption DEF Init, LogsAgree, NoLog
<1>2. CfgTypes /\ PlainInv /\ LogsAgree /\ [Next]_vars => LogsAgree'
  BY AgreeStep, Zenon
<1> QED
  BY <1>1, <1>2, CfgCorrect, PTL DEF Spec

\* As long as the appliers report nothing, a log only grows.
LEMMA PlainKept ==
  ASSUME CfgTypes, PlainInv, [Next]_vars, ~snapshot, alarm' = "none"
  PROVE  \A i \in Peers, k \in Indexes : logs[i][k] \in {None, logs'[i][k]}
<1> SUFFICES ASSUME NEW a \in Peers, NEW k \in Indexes
             PROVE  logs[a][k] \in {None, logs'[a][k]}
  BY Zenon
<1>1. CASE logs' = logs
  BY <1>1, Zenon
<1>2. CASE logs' # logs
  <2>1. PICK i \in Peers, m \in CommandMsgs : SetLog(i, m) /\ alarm' = Fault(i, m)
    BY <1>2, PlainLogs, Zenon
  <2>2. \A j \in Peers : logs[j][m.index] \in {None, m.cmd}
    BY <2>1, PassedComparison, Zenon
  <2>3. logs'[a][k] = IF a = i /\ k = m.index THEN m.cmd ELSE logs[a][k]
    BY <2>1, SetLogTypes
  <2> QED
    BY <2>2, <2>3, Zenon
<1> QED
  BY <1>1, <1>2, Zenon

\* As long as the appliers report nothing, no server applies a second command
\* at an index, before or after a restart.
THEOREM NoUnnoticedChange == Spec => CommittedStays
<1> DEFINE Kept == ~snapshot /\ alarm' = "none" =>
                     \A i \in Peers, k \in Indexes : logs[i][k] \in {None, logs'[i][k]}
<1>1. CfgTypes /\ PlainInv /\ [Next]_vars => [Kept]_vars
  BY PlainKept, Zenon
<1> QED
  BY <1>1, CfgCorrect, PTL DEF Spec, CommittedStays

----------------------------------------------------------------------------
\* The commands of a log are the decided ones; a log has the first n.
Right(log) == \A k \in Indexes : log[k] # None => k <= Len(decided) /\ log[k] = decided[k]
Upto(log, n) == \A k \in Indexes : k <= n => log[k] # None
RightSnapshot(s) == Right(s.xlog) /\ s.index <= Len(decided) /\ Upto(s.xlog, s.index)

\* The message of an applier is what Raft has sent last.
RightMessage(x) ==
  /\ applier[x].err = "none"
  /\ applier[x].m.index = sent[x]
  /\ applier[x].m.kind = "command" => applier[x].m.cmd = decided[sent[x]]
  /\ applier[x].m.kind = "snapshot" => /\ applier[x].m.snap.index = sent[x]
                                       /\ RightSnapshot(applier[x].m.snap)

DataInv ==
  /\ \A i \in Peers : Right(logs[i]) /\ RightSnapshot(saved[i])
  /\ \A x \in Instances : sent[x] <= Len(decided) /\ (applier[x] # Idle => RightMessage(x))

\* Without snapshots: an instance's server has all that the instance has sent,
\* but for the message that its applier holds.
OrderInv ==
  ~snapshot =>
    \A x \in Instances, k \in Indexes :
      k <= sent[x] => logs[x[1]][k] # None \/ (k = sent[x] /\ applier[x] # Idle)

\* With snapshots: only the last instance of a server has a busy applier, and
\* lastApplied follows what this instance has sent.
Follows(i) ==
  LET a == applier[current(i)] s == sent[current(i)] IN
  /\ a.at \in {"idle", "snapshot"} => lastApplied[i] = s
  /\ a.at = "log" \/ (a.at = "received" /\ a.m.kind = "command") => s = lastApplied[i] + 1
  /\ a.at = "advance" => Upto(logs[i], s)

SnapInv ==
  snapshot =>
    \A i \in Peers :
      /\ Upto(logs[i], lastApplied[i])
      /\ \A g \in 1 .. MaxStarts : g # gen[i] => applier[<<i, g>>] = Idle
      /\ Follows(i)

\* The applier of an instance that is not made yet is idle.
FreshInv == \A x \in Instances : applier[x] # Idle => x[2] <= gen[x[1]]

ApplierInv == honest => DataInv /\ OrderInv /\ SnapInv

----------------------------------------------------------------------------
\* The invariant holds initially.
LEMMA ApplierInit == Init => ApplierInv
<1> SUFFICES ASSUME Init PROVE DataInv /\ OrderInv /\ SnapInv
  BY Zenon DEF ApplierInv
<1> USE RaftChecksAssumption
<1>1. Right(NoLog) /\ \A n : n = 0 => Upto(NoLog, n)
  BY DEF Right, NoLog, Upto, Indexes
<1>2. Len(decided) = 0
  BY Zenon DEF Init
<1>3. RightSnapshot(NoSnapshot)
  BY <1>1, <1>2 DEF RightSnapshot, NoSnapshot
<1>4. DataInv
  BY <1>1, <1>2, <1>3 DEF Init, DataInv
<1>5. OrderInv
  BY DEF Init, OrderInv, Indexes
<1>6. \A i \in Peers : current(i) \in Instances
  BY DEF Init, current, Instances
<1>7. SnapInv
  BY <1>1, <1>6, InstanceTypes, Zenon DEF Init, SnapInv, Follows, Idle
<1> QED
  BY <1>4, <1>5, <1>7, Zenon

\* Only instances that are made apply, and instances are never unmade.
LEMMA FreshStep == CfgTypes /\ FreshInv /\ [Next]_vars => FreshInv'
<1> SUFFICES ASSUME CfgTypes, FreshInv, [Next]_vars PROVE FreshInv'
  BY Zenon
<1>1. ASSUME gen' = gen, \A y \in Instances : applier[y] = Idle => applier'[y] = Idle PROVE FreshInv'
  BY <1>1, Zenon DEF FreshInv
<1>2. ASSUME NEW x \in Instances, MayApply(x), gen' = gen,
             \A y \in Instances : y # x => applier'[y] = applier[y]
      PROVE  FreshInv'
  BY <1>2, Zenon DEF FreshInv, MayApply, Made
<1>3. ASSUME NEW x \in Instances, NEW k \in Indexes, NEW c \in Commands, ApplyCommand(x, k, c) PROVE FreshInv'
  BY <1>2, <1>3, Zenon DEF ApplyCommand, Hand, cfgVars, CfgTypes
<1>4. ASSUME NEW x \in Instances, NEW k \in Indexes, NEW j \in Peers, ApplySnapshot(x, saved[j], k) PROVE FreshInv'
  BY <1>2, <1>4, Zenon DEF ApplySnapshot, Hand, CfgTypes
<1>5. ASSUME NEW x \in Instances, Applier(x) \/ IngestSnap(x) \/ TakeSnapshot(x) PROVE FreshInv'
  BY <1>1, <1>5, Zenon DEF Applier, IngestSnap, TakeSnapshot, CfgTypes
<1>6. ASSUME NEW x \in Instances, ReadLastApplied(x) \/ CheckLogs(x) \/ Advance(x) PROVE FreshInv'
  <2>1. gen' = gen /\ applier[x] # Idle
    BY <1>6, BusyTypes, Zenon DEF ReadLastApplied, CheckLogs, Advance, cfgVars
  <2>2. \A y \in Instances : y # x => applier'[y] = applier[y]
    BY <1>6 DEF ReadLastApplied, CheckLogs, Advance, CfgTypes
  <2> QED
    BY <1>1, <2>1, <2>2, Zenon
<1>7. ASSUME NEW i \in Peers, start1(i) PROVE FreshInv'
  <2>1. applier' = applier /\ \A j \in Peers : gen'[j] \in {gen[j], gen[j] + 1} /\ gen[j] \in Nat
    BY <1>7, RaftChecksAssumption, SMTT(60) DEF start1, CfgTypes
  <2> QED
    BY <2>1, InstanceTypes DEF FreshInv
<1>8. CASE UNCHANGED <<gen, applier>>
  BY <1>1, <1>8, Zenon
<1> QED
  BY <1>3, <1>4, <1>5, <1>6, <1>7, <1>8, NextCases, JudgingChangesNothing, Zenon
     DEF Decide, Elect, Learn, crash1, connect, cfgVars, vars

\* A right log stays right when one more command is decided.
LEMMA DecideRight ==
  ASSUME CfgTypes, ApplierInv, NEW c \in Commands, Decide(c)
  PROVE  ApplierInv'
<1> USE RaftChecksAssumption
<1>1. honest /\ honest' /\ DataInv /\ OrderInv /\ SnapInv
  BY Zenon DEF Decide, ApplierInv
<1>2. /\ Len(decided) \in Nat /\ Len(decided') = Len(decided) + 1
      /\ \A k \in 1 .. Len(decided) : decided'[k] = decided[k]
  BY DEF Decide, CfgTypes
<1>3. UNCHANGED <<test, sent, cfgVars, applier>>
  BY Zenon DEF Decide
<1>4. ASSUME NEW log, Right(log) 
      PROVE  \A k \in Indexes : log[k] # None => k <= Len(decided') /\ log[k] = decided'[k]
  BY <1>2, <1>4 DEF Right, Indexes
<1>5. \A i \in Peers : Right(logs[i])'
  BY <1>1, <1>3, <1>4, Zenon DEF DataInv, Right, cfgVars
<1>6. ASSUME NEW s \in Snapshots, RightSnapshot(s)
      PROVE  /\ \A k \in Indexes : s.xlog[k] # None => k <= Len(decided') /\ s.xlog[k] = decided'[k]
             /\ s.index <= Len(decided')
  BY <1>2, <1>4, <1>6 DEF RightSnapshot, Snapshots
<1>7. \A i \in Peers : RightSnapshot(saved[i])'
  <2> TAKE i \in Peers
  <2>1. saved[i] \in Snapshots /\ RightSnapshot(saved[i]) /\ saved' = saved
    BY <1>1, <1>3, Zenon DEF DataInv, CfgTypes, cfgVars
  <2> QED
    BY <1>6, <2>1, Zenon DEF RightSnapshot, Right, Upto
<1>8. ASSUME NEW x \in Instances
      PROVE  (sent[x] <= Len(decided))' /\ (applier[x] # Idle => RightMessage(x))'
  <2>1. sent[x] \in 0 .. MaxIndex /\ sent[x] <= Len(decided) /\ sent' = sent
    BY <1>1, <1>3, Zenon DEF DataInv, CfgTypes
  <2>2. ASSUME applier[x] # Idle PROVE RightMessage(x)'
    <3>1. RightMessage(x) /\ applier[x] \in Busy /\ applier' = applier
      BY <1>1, <1>3, <2>2, Zenon DEF DataInv, CfgTypes
    <3>2. sent[x] \in 1 .. Len(decided)
      BY <2>1, <3>1, BusyTypes DEF RightMessage, Indexes
    <3>3. applier[x].m.kind = "snapshot" => applier[x].m.snap \in Snapshots
      BY <3>1, BusyTypes, Zenon DEF SnapshotMsgs
    <3>4. applier[x].m.kind = "snapshot" => RightSnapshot(applier[x].m.snap)'
      BY <1>6, <3>1, <3>3, SMTT(60) DEF RightSnapshot, Right, Upto, RightMessage
    <3> QED
      BY <1>2, <2>1, <3>1, <3>2, <3>4, Zenon DEF RightMessage
  <2> QED
    BY <1>2, <1>3, <2>1, <2>2
<1>9. OrderInv' /\ SnapInv'
  BY <1>1, <1>3 DEF OrderInv, SnapInv, Follows, Upto, current, cfgVars, snapshot
<1> QED
  BY <1>5, <1>7, <1>8, <1>9, Zenon DEF ApplierInv, DataInv

\* A step that leaves an instance, its message and the decided commands alone
\* leaves its message right.
LEMMA OthersRight ==
  ASSUME DataInv, UNCHANGED decided, NEW y \in Instances,
         UNCHANGED <<sent[y], applier[y]>>
  PROVE  (sent[y] <= Len(decided))' /\ (applier[y] # Idle => RightMessage(y))'
  BY DEF DataInv, RightMessage, RightSnapshot, Right, Upto

\* With snapshots the instance of a busy applier is the last of its server.
LEMMA BusyIsCurrent ==
  ASSUME CfgTypes, SnapInv, snapshot, NEW x \in Instances, applier[x] # Idle
  PROVE  x = current(x[1])
<1>1. x[1] \in Peers /\ x[2] \in 1 .. MaxStarts /\ x = <<x[1], x[2]>>
  BY InstanceTypes, Zenon
<1>2. x[2] = gen[x[1]]
  BY <1>1 DEF SnapInv
<1> QED
  BY <1>1, <1>2, Zenon DEF current

\* The last instance of a server is an instance, and no other server's.
LEMMA CurrentTypes ==
  CfgTypes => /\ \A i \in Peers : current(i) \in Instances /\ current(i)[1] = i
              /\ \A i, j \in Peers : i # j => current(i) # current(j)
  BY InstanceTypes, Zenon DEF CfgTypes, current

\* With snapshots, a step of one applier is judged by what it does to its server.
LEMMA SnapStep ==
  ASSUME CfgTypes, SnapInv, snapshot, NEW x \in Instances, x = current(x[1]), gen' = gen,
         \A y \in Instances : y # x => applier'[y] = applier[y] /\ sent'[y] = sent[y],
         \A i \in Peers : i # x[1] => logs'[i] = logs[i] /\ lastApplied'[i] = lastApplied[i],
         Upto(logs[x[1]], lastApplied[x[1]])', Follows(x[1])'
  PROVE  SnapInv'
<1> SUFFICES ASSUME NEW i \in Peers
             PROVE  /\ Upto(logs[i], lastApplied[i])'
                    /\ \A g \in 1 .. MaxStarts : g # gen'[i] => applier'[<<i, g>>] = Idle
                    /\ Follows(i)'
  BY Zenon DEF SnapInv
<1>1. /\ Upto(logs[i], lastApplied[i]) /\ Follows(i)
      /\ \A g \in 1 .. MaxStarts : g # gen[i] => applier[<<i, g>>] = Idle
  BY Zenon DEF SnapInv
<1>2. ASSUME NEW g \in 1 .. MaxStarts, g # gen[i] PROVE applier'[<<i, g>>] = Idle
  BY <1>1, <1>2, InstanceTypes DEF current
<1>3. CASE i # x[1]
  <2>1. current(i) # x /\ current(i)' = current(i) /\ current(i) \in Instances
    BY <1>3, CurrentTypes, InstanceTypes, Zenon DEF current
  <2>2. Upto(logs[i], lastApplied[i])'
    BY <1>1, <1>3, Zenon DEF Upto
  <2>3. Follows(i)'
    BY <1>1, <1>3, <2>1, SMTT(60) DEF Follows, Upto
  <2> QED
    BY <1>2, <2>2, <2>3, Zenon
<1>4. CASE i = x[1]
  BY <1>2, <1>4, Zenon
<1> QED
  BY <1>3, <1>4, Zenon

\* Raft applies a command.
LEMMA CommandRight ==
  ASSUME CfgTypes, CfgTypes', ApplierInv, NEW x \in Instances, NEW k \in Indexes, NEW c \in Commands,
         ApplyCommand(x, k, c)
  PROVE  ApplierInv'
<1> SUFFICES ASSUME honest PROVE DataInv' /\ OrderInv' /\ SnapInv'
  BY Zenon DEF ApplierInv, ApplyCommand
<1> USE RaftChecksAssumption
<1> DEFINE b == [at |-> "received", m |-> [kind |-> "command", index |-> k, cmd |-> c], err |-> "none"]
<1>1. DataInv /\ OrderInv /\ SnapInv
  BY Zenon DEF ApplierInv
<1>2. applier[x] = Idle /\ (snapshot => Alive(x))
  BY Zenon DEF ApplyCommand, MayApply
<1>3. k = sent[x] + 1 /\ k <= Len(decided) /\ c = decided[k]
  BY Zenon DEF ApplyCommand
<1>4. UNCHANGED <<test, decided, cfgVars>>
  BY Zenon DEF ApplyCommand
<1>5. applier' = [applier EXCEPT ![x] = b] /\ sent' = [sent EXCEPT ![x] = k]
  BY Zenon DEF ApplyCommand, Hand
<1>6. b.at = "received" /\ b.err = "none" /\ b.m.kind = "command" /\ b.m.index = k /\ b.m.cmd = c /\ b # Idle
  BY Zenon DEF Idle
<1> HIDE DEF b
<1>7. applier'[x] = b /\ sent'[x] = k
  BY <1>5, Zenon DEF CfgTypes
<1>8. \A y \in Instances : y # x => applier'[y] = applier[y] /\ sent'[y] = sent[y]
  BY <1>5, Zenon DEF CfgTypes
<1>9. DataInv'
  <2>1. \A i \in Peers : Right(logs[i])' /\ RightSnapshot(saved[i])'
    BY <1>1, <1>4, SMTT(60) DEF DataInv, Right, RightSnapshot, Upto, cfgVars
  <2>2. \A y \in Instances : y # x => (sent[y] <= Len(decided))' /\ (applier[y] # Idle => RightMessage(y))'
    BY <1>1, <1>4, <1>8, OthersRight, Zenon
  <2>3. (sent[x] <= Len(decided))' /\ (applier[x] # Idle => RightMessage(x))'
    BY <1>3, <1>4, <1>6, <1>7, Zenon DEF RightMessage
  <2> QED
    BY <2>1, <2>2, <2>3, Zenon DEF DataInv
<1>10. OrderInv'
  <2> SUFFICES ASSUME ~snapshot', NEW y \in Instances, NEW n \in Indexes, n <= sent'[y]
               PROVE  logs'[y[1]][n] # None \/ (n = sent'[y] /\ applier'[y] # Idle)
    BY Zenon DEF OrderInv
  <2>1. ~snapshot /\ logs' = logs
    BY <1>4, Zenon DEF snapshot, cfgVars
  <2>2. n <= sent[y] => logs[y[1]][n] # None \/ (n = sent[y] /\ applier[y] # Idle)
    BY <1>1, <2>1, Zenon DEF OrderInv
  <2>3. CASE y = x
    <3>1. CASE n <= sent[x]
      BY <1>2, <2>1, <2>2, <2>3, <3>1, Zenon
    <3>2. CASE n = k
      BY <1>6, <1>7, <2>3, <3>2, Zenon
    <3> QED
      BY <1>3, <1>7, <2>3, <3>1, <3>2, SMTT(60) DEF CfgTypes, Indexes
  <2>4. CASE y # x
    BY <1>8, <2>1, <2>2, <2>4, Zenon
  <2> QED
    BY <2>3, <2>4, Zenon
<1>11. SnapInv'
  <2> SUFFICES ASSUME snapshot' PROVE SnapInv'
    BY Zenon DEF SnapInv
  <2>1. snapshot /\ logs' = logs /\ lastApplied' = lastApplied /\ gen' = gen
    BY <1>4, Zenon DEF snapshot, cfgVars
  <2>2. x = current(x[1]) /\ x[1] \in Peers
    BY <1>2, <2>1, InstanceTypes, Zenon DEF Alive, current
  <2>3. current(x[1])' = x
    BY <2>1, <2>2 DEF current
  <2>4. Upto(logs[x[1]], lastApplied[x[1]]) /\ Follows(x[1])
    BY <1>1, <2>1, <2>2, Zenon DEF SnapInv
  <2>5. lastApplied[x[1]] = sent[x]
    BY <1>2, <2>2, <2>4, BusyTypes, Zenon DEF Follows
  <2>6. Follows(x[1])'
    BY <1>3, <1>6, <1>7, <2>1, <2>3, <2>5, Zenon DEF Follows
  <2>7. Upto(logs[x[1]], lastApplied[x[1]])'
    BY <2>1, <2>4, Zenon DEF Upto
  <2> QED
    BY <1>1, <1>8, <2>1, <2>2, <2>6, <2>7, SnapStep, Zenon
<1> QED
  BY <1>9, <1>10, <1>11, Zenon

\* Raft hands up a snapshot.
LEMMA SnapshotRight ==
  ASSUME CfgTypes, CfgTypes', ApplierInv, NEW x \in Instances, NEW k \in Indexes, NEW j \in Peers,
         ApplySnapshot(x, saved[j], k)
  PROVE  ApplierInv'
<1> USE RaftChecksAssumption
<1> DEFINE s == saved[j]
           b == [at |-> "received", m |-> [kind |-> "snapshot", index |-> k, snap |-> s], err |-> "none"]
<1>1. honest /\ DataInv /\ SnapInv /\ snapshot
  BY Zenon DEF ApplierInv, ApplySnapshot, CfgTypes
<1>2. applier[x] = Idle /\ Alive(x)
  BY Zenon DEF ApplySnapshot, MayApply
<1>3. s.index = k /\ RightSnapshot(s)
  BY <1>1, Zenon DEF ApplySnapshot, DataInv
<1>4. UNCHANGED <<test, decided, gen, logs, lastApplied>> /\ saved' = [saved EXCEPT ![x[1]] = s]
  BY Zenon DEF ApplySnapshot
<1>5. applier' = [applier EXCEPT ![x] = b] /\ sent' = [sent EXCEPT ![x] = k]
  BY Zenon DEF ApplySnapshot, Hand
<1>6. b.at = "received" /\ b.err = "none" /\ b.m.kind = "snapshot" /\ b.m.index = k /\ b.m.snap = s /\ b # Idle
  BY Zenon DEF Idle
<1>a. \A t : RightSnapshot(t) <=> /\ \A n \in Indexes : t.xlog[n] # None => n <= Len(decided') /\ t.xlog[n] = decided'[n]
                                 /\ t.index <= Len(decided') /\ Upto(t.xlog, t.index)
  BY <1>4, Zenon DEF RightSnapshot, Right
<1> HIDE DEF b, s
<1>7. applier'[x] = b /\ sent'[x] = k
  BY <1>5, Zenon DEF CfgTypes
<1>8. \A y \in Instances : y # x => applier'[y] = applier[y] /\ sent'[y] = sent[y]
  BY <1>5, Zenon DEF CfgTypes
<1>9. DataInv'
  <2>1. \A i \in Peers : Right(logs[i])'
    BY <1>1, <1>4, Zenon DEF DataInv, Right
  <2>2. \A i \in Peers : RightSnapshot(saved'[i])
    BY <1>1, <1>3, <1>4, Zenon DEF DataInv, CfgTypes
  <2>3. \A i \in Peers : RightSnapshot(saved[i])'
    BY <1>a, <2>2, Zenon DEF RightSnapshot, Right, Upto
  <2>4. \A y \in Instances : y # x => (sent[y] <= Len(decided))' /\ (applier[y] # Idle => RightMessage(y))'
    BY <1>1, <1>4, <1>8, OthersRight, Zenon
  <2>5. RightSnapshot(applier'[x].m.snap)
    BY <1>3, <1>6, <1>7, Zenon
  <2>6. RightSnapshot(applier[x].m.snap)'
    BY <1>a, <2>5, Zenon DEF RightSnapshot, Right, Upto
  <2>7. k <= Len(decided')
    BY <1>3, <1>4, Zenon DEF RightSnapshot
  <2>8. (sent[x] <= Len(decided))' /\ (applier[x] # Idle => RightMessage(x))'
    BY <1>3, <1>4, <1>6, <1>7, <2>6, <2>7, Zenon DEF RightMessage
  <2> QED
    BY <2>1, <2>3, <2>4, <2>8, Zenon DEF DataInv
<1>10. OrderInv'
  BY <1>1, <1>4, Zenon DEF OrderInv, snapshot
<1>11. SnapInv'
  <2>1. x = current(x[1]) /\ x[1] \in Peers
    BY <1>2, InstanceTypes, Zenon DEF Alive, current
  <2>2. current(x[1])' = x
    BY <1>4, <2>1, Zenon DEF current
  <2>3. Follows(x[1])'
    BY <1>6, <1>7, <2>2, Zenon DEF Follows
  <2>4. Upto(logs[x[1]], lastApplied[x[1]])'
    BY <1>1, <1>4, <2>1, Zenon DEF SnapInv, Upto
  <2> QED
    BY <1>1, <1>4, <1>8, <2>1, <2>3, <2>4, SnapStep, Zenon
<1> QED
  BY <1>9, <1>10, <1>11, Zenon DEF ApplierInv

----------------------------------------------------------------------------
\* The appliers.

\* A comparison of a right message finds no fault, if the server has the command
\* before it.
LEMMA NoFault ==
  ASSUME CfgTypes, DataInv, NEW x \in Instances, applier[x] \in Busy, applier[x].m \in CommandMsgs,
         sent[x] > 1 => logs[x[1]][sent[x] - 1] # None
  PROVE  Fault(x[1], applier[x].m) = "none"
<1> DEFINE m == applier[x].m
<1>1. m.index \in Indexes /\ m.index = sent[x] /\ m.cmd = decided[m.index]
  BY BusyTypes, Zenon DEF DataInv, RightMessage
<1>2. ~OutOfOrder(x[1], m)
  BY <1>1, Zenon DEF OutOfOrder
<1>3. \A j \in Peers : logs[j][m.index] \in {None, m.cmd}
  BY <1>1, Zenon DEF DataInv, Right
<1> QED
  BY <1>2, <1>3, Zenon DEF Fault, Differs

\* A right message makes a right log.
LEMMA SetLogRight ==
  ASSUME CfgTypes, DataInv, NEW x \in Instances, applier[x] \in Busy, applier[x].m \in CommandMsgs,
         SetLog(x[1], applier[x].m), decided' = decided
  PROVE  /\ \A i \in Peers : Right(logs[i])'
         /\ \A k \in Indexes : logs'[x[1]][k] # None <=> logs[x[1]][k] # None \/ k = sent[x]
         /\ \A i \in Peers, k \in Indexes : logs[i][k] # None => logs'[i][k] # None
         /\ \A i \in Peers : i # x[1] => logs'[i] = logs[i]
<1> DEFINE m == applier[x].m
<1> USE RaftChecksAssumption
<1>1. m.index = sent[x] /\ m.cmd = decided[sent[x]] /\ sent[x] <= Len(decided)
  BY BusyTypes DEF DataInv, RightMessage
<1>2. x[1] \in Peers
  BY InstanceTypes, Zenon
<1>3. /\ m.index \in Indexes /\ m.cmd \in Commands
      /\ \A j \in Peers, k \in Indexes : logs'[j][k] = IF j = x[1] /\ k = m.index THEN m.cmd ELSE logs[j][k]
  BY <1>2, SetLogTypes
<1>4. \A i \in Peers : i # x[1] => logs'[i] = logs[i]
  BY <1>2, Zenon DEF SetLog, CfgTypes
<1> HIDE DEF m
<1>5. \A i \in Peers : Right(logs[i])'
  BY <1>1, <1>3 DEF DataInv, Right
<1> QED
  BY <1>1, <1>2, <1>3, <1>4, <1>5, SMTT(60)

\* A step that changes neither decided nor saved leaves the snapshots right.
LEMMA SavedStaysRight ==
  ASSUME DataInv, UNCHANGED <<decided, saved>>
  PROVE  \A i \in Peers : RightSnapshot(saved[i])'
  BY Zenon DEF DataInv, RightSnapshot, Right, Upto

\* applier compares and stores a command.
LEMMA ApplierRight ==
  ASSUME CfgTypes, PlainInv, ApplierInv, NEW x \in Instances, Applier(x)
  PROVE  ApplierInv' /\ (honest => UNCHANGED alarm)
<1> SUFFICES ASSUME honest PROVE DataInv' /\ OrderInv' /\ SnapInv' /\ UNCHANGED alarm
  BY Zenon DEF ApplierInv, Applier, raftVars
<1> USE RaftChecksAssumption
<1> DEFINE m == applier[x].m
<1>1. DataInv /\ OrderInv /\ ~snapshot
  BY Zenon DEF ApplierInv, Applier
<1>2. applier[x] \in Busy /\ m \in CommandMsgs
  BY AtBusy, BusyTypes, Zenon DEF Applier, PlainInv
<1>3. UNCHANGED <<test, decided, sent, saved>> /\ applier' = [applier EXCEPT ![x] = Idle] /\ SetLog(x[1], m)
  BY Zenon DEF Applier, raftVars
<1>4. Fault(x[1], m) = "none"
  <2>1. ASSUME sent[x] > 1 PROVE logs[x[1]][sent[x] - 1] # None
    <3>1. sent[x] - 1 \in Indexes /\ sent[x] - 1 <= sent[x] /\ sent[x] - 1 # sent[x]
      BY <2>1 DEF CfgTypes, Indexes
    <3> QED
      BY <1>1, <3>1, Zenon DEF OrderInv
  <2> QED
    BY <1>1, <1>2, <2>1, NoFault, Zenon
<1>5. UNCHANGED alarm
  BY <1>4, Zenon DEF Applier, Fatal
<1>6. /\ \A i \in Peers : Right(logs[i])'
      /\ \A k \in Indexes : logs'[x[1]][k] # None <=> logs[x[1]][k] # None \/ k = sent[x]
      /\ \A i \in Peers, k \in Indexes : logs[i][k] # None => logs'[i][k] # None
  BY <1>1, <1>2, <1>3, SetLogRight, Zenon
<1>7. applier'[x] = Idle /\ \A y \in Instances : y # x => applier'[y] = applier[y]
  BY <1>3, Zenon DEF CfgTypes
<1>8. DataInv'
  <2>1. \A y \in Instances : (sent[y] <= Len(decided))' /\ (applier[y] # Idle => RightMessage(y))'
    <3> TAKE y \in Instances
    <3>1. CASE y = x
      BY <1>1, <1>3, <1>7, <3>1, Zenon DEF DataInv
    <3>2. CASE y # x
      BY <1>1, <1>3, <1>7, <3>2, OthersRight, Zenon
    <3> QED
      BY <3>1, <3>2, Zenon
  <2> QED
    BY <1>1, <1>3, <1>6, <2>1, SavedStaysRight, Zenon DEF DataInv
<1>9. OrderInv'
  <2> SUFFICES ASSUME NEW y \in Instances, NEW k \in Indexes, k <= sent[y]
               PROVE  logs'[y[1]][k] # None \/ (k = sent[y] /\ applier'[y] # Idle)
    BY <1>3, Zenon DEF OrderInv
  <2>1. logs[y[1]][k] # None \/ (k = sent[y] /\ applier[y] # Idle)
    BY <1>1, Zenon DEF OrderInv
  <2>2. y[1] \in Peers
    BY InstanceTypes, Zenon
  <2>3. CASE y = x
    BY <1>6, <2>1, <2>3, Zenon
  <2>4. CASE y # x
    BY <1>6, <1>7, <2>1, <2>2, <2>4, Zenon
  <2> QED
    BY <2>3, <2>4, Zenon
<1>10. SnapInv'
  BY <1>1, <1>3, Zenon DEF SnapInv, snapshot
<1> QED
  BY <1>5, <1>8, <1>9, <1>10, Zenon

\* A step of one applier leaves the messages of the others right.
LEMMA MessagesStayRight ==
  ASSUME CfgTypes, DataInv, UNCHANGED <<decided, sent>>, NEW x \in Instances,
         \A y \in Instances : y # x => applier'[y] = applier[y],
         (applier[x] # Idle => RightMessage(x))'
  PROVE  \A y \in Instances : (sent[y] <= Len(decided))' /\ (applier[y] # Idle => RightMessage(y))'
<1> TAKE y \in Instances
<1>1. CASE y = x
  BY <1>1, Zenon DEF DataInv
<1>2. CASE y # x
  BY <1>2, OthersRight, Zenon
<1> QED
  BY <1>1, <1>2, Zenon

\* The fields of an applier that holds a command.
LEMMA CommandBusy ==
  \A a \in Busy : a.m \in CommandMsgs =>
    a \in [at : {"received", "log", "advance", "snapshot"}, m : CommandMsgs, err : Errors]
  BY Zenon DEF Busy, CommandMsgs, SnapshotMsgs

\* ingestSnap replaces the log.
LEMMA IngestRight ==
  ASSUME CfgTypes, ApplierInv, NEW x \in Instances, IngestSnap(x)
  PROVE  ApplierInv' /\ UNCHANGED alarm
<1> USE RaftChecksAssumption
<1> DEFINE m == applier[x].m
           i == x[1]
<1>1. honest /\ DataInv /\ SnapInv /\ snapshot /\ m.kind = "snapshot" /\ applier[x].at = "received"
  BY ZenonT(60) DEF ApplierInv, IngestSnap, CfgTypes
<1>2. applier[x] \in Busy /\ applier[x] # Idle /\ i \in Peers
  BY <1>1, AtBusy, BusyTypes, InstanceTypes, Zenon
<1>3. m.index = sent[x] /\ m.snap.index = sent[x] /\ RightSnapshot(m.snap)
  BY <1>1, <1>2, Zenon DEF DataInv, RightMessage
<1>4. UNCHANGED <<test, honest, decided, sent, saved, gen>> /\ applier' = [applier EXCEPT ![x] = Idle]
  BY ZenonT(60) DEF IngestSnap, raftVars
<1>5. /\ logs' = [logs EXCEPT ![i] = m.snap.xlog] /\ lastApplied' = [lastApplied EXCEPT ![i] = sent[x]]
      /\ UNCHANGED alarm
  BY <1>3, Zenon DEF IngestSnap
<1> HIDE DEF m, i
<1>6. applier'[x] = Idle /\ \A y \in Instances : y # x => applier'[y] = applier[y]
  BY <1>4, Zenon DEF CfgTypes
<1>7. /\ logs'[i] = m.snap.xlog /\ lastApplied'[i] = sent[x]
      /\ \A j \in Peers : j # i => logs'[j] = logs[j] /\ lastApplied'[j] = lastApplied[j]
  BY <1>2, <1>5 DEF CfgTypes
<1>8. \A j \in Peers : Right(logs[j])'
  <2>1. \A j \in Peers : Right(logs'[j])
    BY <1>1, <1>3, <1>7, Zenon DEF DataInv, RightSnapshot
  <2> QED
    BY <1>4, <2>1, Zenon DEF Right
<1>9. DataInv'
  BY <1>1, <1>4, <1>6, <1>8, MessagesStayRight, SavedStaysRight, Zenon DEF DataInv
<1>10. x = current(i) /\ current(i)' = x
  BY <1>1, <1>2, <1>4, BusyIsCurrent, Zenon DEF i, current
<1>11. Upto(logs[i], lastApplied[i])'
  BY <1>3, <1>7, Zenon DEF RightSnapshot, Upto
<1>12. Follows(i)'
  BY <1>4, <1>6, <1>7, <1>10, BusyTypes, Zenon DEF Follows
<1>13. SnapInv'
  BY <1>1, <1>4, <1>6, <1>7, <1>10, <1>11, <1>12, SnapStep, ZenonT(60) DEF i
<1>14. OrderInv'
  BY <1>1, <1>4, Zenon DEF OrderInv, snapshot
<1> QED
  BY <1>5, <1>9, <1>13, <1>14, Zenon DEF ApplierInv

\* applierSnap finds lastApplied where it expects it.
LEMMA ReadRight ==
  ASSUME CfgTypes, ApplierInv, NEW x \in Instances, ReadLastApplied(x)
  PROVE  ApplierInv'
<1> USE RaftChecksAssumption
<1> DEFINE m == applier[x].m
           i == x[1]
           b == [applier[x] EXCEPT !.at = "log"]
<1>1. honest /\ DataInv /\ SnapInv /\ snapshot /\ m.kind = "command" /\ applier[x].at = "received"
  BY Zenon DEF ApplierInv, ReadLastApplied, CfgTypes
<1>2. applier[x] \in Busy /\ applier[x] # Idle /\ i \in Peers /\ m \in CommandMsgs
  BY <1>1, AtBusy, BusyTypes, InstanceTypes, Zenon
<1>3. x = current(i)
  BY <1>1, <1>2, BusyIsCurrent, Zenon
<1>4. m.index = sent[x] /\ RightMessage(x)
  BY <1>1, <1>2, Zenon DEF DataInv, RightMessage
<1>5. sent[x] = lastApplied[i] + 1 /\ Upto(logs[i], lastApplied[i])
  BY <1>1, <1>2, <1>3 DEF SnapInv, Follows
<1>6. applier' = [applier EXCEPT ![x] = b]
  BY <1>4, <1>5, Zenon DEF ReadLastApplied, CfgTypes
<1>7. b.at = "log" /\ b.m = m /\ b.err = applier[x].err
  BY <1>2, CommandBusy, Zenon
<1>8. UNCHANGED <<test, honest, decided, sent, saved, gen, logs, lastApplied>>
  BY Zenon DEF ReadLastApplied, raftVars, cfgVars
<1> HIDE DEF b
<1>9. applier'[x] = b /\ \A y \in Instances : y # x => applier'[y] = applier[y]
  BY <1>6, Zenon DEF CfgTypes
<1>10. RightMessage(x)'
  BY <1>1, <1>4, <1>7, <1>8, <1>9, Zenon DEF RightMessage
<1>11. DataInv'
  <2>1. \A j \in Peers : Right(logs[j])'
    BY <1>1, <1>8, Zenon DEF DataInv, Right
  <2> QED
    BY <1>1, <1>8, <1>9, <1>10, <2>1, MessagesStayRight, SavedStaysRight, Zenon DEF DataInv
<1>12. current(i)' = x
  BY <1>3, <1>8, Zenon DEF current
<1>13. Upto(logs[i], lastApplied[i])'
  BY <1>5, <1>8, Zenon DEF Upto
<1>14. Follows(i)'
  BY <1>5, <1>7, <1>8, <1>9, <1>12, Zenon DEF Follows
<1>15. SnapInv'
  BY <1>1, <1>3, <1>8, <1>9, <1>13, <1>14, SnapStep, ZenonT(60)
<1>16. OrderInv'
  BY <1>1, <1>8, Zenon DEF OrderInv, snapshot
<1> QED
  BY <1>11, <1>15, <1>16, Zenon DEF ApplierInv

\* applierSnap compares and stores a command.
LEMMA CheckRight ==
  ASSUME CfgTypes, PlainInv, ApplierInv, NEW x \in Instances, CheckLogs(x)
  PROVE  ApplierInv'
<1> USE RaftChecksAssumption
<1> DEFINE m == applier[x].m
           i == x[1]
           b == [applier[x] EXCEPT !.at = "advance", !.err = Fault(i, m)]
<1>1. applier[x].at = "log" /\ SetLog(i, m)
  BY Zenon DEF CheckLogs
<1>2. applier[x] \in Busy /\ applier[x] # Idle /\ i \in Peers /\ m \in CommandMsgs
  BY <1>1, AtBusy, BusyTypes, InstanceTypes, Zenon
<1>3. snapshot /\ honest /\ DataInv /\ SnapInv
  BY <1>1, <1>2, Zenon DEF PlainInv, CfgTypes, ApplierInv
<1>4. x = current(i)
  BY <1>2, <1>3, BusyIsCurrent, Zenon
<1>5. m.index = sent[x] /\ RightMessage(x)
  BY <1>2, <1>3, ZenonT(60) DEF DataInv, RightMessage
<1>6. sent[x] = lastApplied[i] + 1 /\ Upto(logs[i], lastApplied[i])
  BY <1>1, <1>2, <1>3, <1>4, Zenon DEF SnapInv, Follows
<1>7. lastApplied[i] \in 0 .. MaxIndex /\ sent[x] \in 0 .. MaxIndex
  BY <1>2, Zenon DEF CfgTypes
<1>8. Fault(i, m) = "none"
  <2>1. sent[x] > 1 => logs[i][sent[x] - 1] # None
    BY <1>6, <1>7 DEF Upto, Indexes
  <2> QED
    BY <1>2, <1>3, <2>1, NoFault, ZenonT(60)
<1>9. b.at = "advance" /\ b.m = m /\ b.err = "none"
  BY <1>2, <1>8, CommandBusy, Zenon
<1>10. applier' = [applier EXCEPT ![x] = b]
  BY Zenon DEF CheckLogs, CfgTypes
<1>11. UNCHANGED <<test, honest, decided, sent, saved, gen, lastApplied>>
  BY Zenon DEF CheckLogs, raftVars
<1>12. /\ \A j \in Peers : Right(logs[j])'
       /\ \A k \in Indexes : logs'[i][k] # None <=> logs[i][k] # None \/ k = sent[x]
       /\ \A j \in Peers : j # i => logs'[j] = logs[j]
  BY <1>1, <1>2, <1>3, <1>11, SetLogRight, Zenon
<1> HIDE DEF b
<1>13. applier'[x] = b /\ \A y \in Instances : y # x => applier'[y] = applier[y]
  BY <1>10, Zenon DEF CfgTypes
<1>14. RightMessage(x)'
  BY <1>2, <1>5, <1>9, <1>11, <1>13, BusyTypes, Zenon DEF RightMessage
<1>15. DataInv'
  BY <1>3, <1>11, <1>12, <1>13, <1>14, MessagesStayRight, SavedStaysRight, Zenon DEF DataInv
<1>16. current(i)' = x
  BY <1>4, <1>11, Zenon DEF current
<1>17. Upto(logs[i], lastApplied[i])'
  BY <1>6, <1>11, <1>12, Zenon DEF Upto
<1>18. Upto(logs'[i], sent[x])
  BY <1>6, <1>7, <1>12 DEF Upto, Indexes
<1>19. Follows(i)'
  BY <1>9, <1>11, <1>13, <1>16, <1>18, Zenon DEF Follows, Upto
<1>20. SnapInv'
  BY <1>3, <1>4, <1>11, <1>12, <1>13, <1>17, <1>19, SnapStep, ZenonT(60)
<1>21. OrderInv'
  BY <1>3, <1>11, Zenon DEF OrderInv, snapshot
<1> QED
  BY <1>15, <1>20, <1>21, Zenon DEF ApplierInv

\* applierSnap moves lastApplied to the index of its message.
LEMMA AdvanceRight ==
  ASSUME CfgTypes, PlainInv, ApplierInv, NEW x \in Instances, Advance(x)
  PROVE  ApplierInv' /\ UNCHANGED alarm
<1> USE RaftChecksAssumption
<1> DEFINE m == applier[x].m
           i == x[1]
           b == [applier[x] EXCEPT !.at = "snapshot"]
<1>1. applier[x].at = "advance"
  BY Zenon DEF Advance
<1>2. applier[x] \in Busy /\ applier[x] # Idle /\ i \in Peers /\ m \in CommandMsgs
  BY <1>1, AtBusy, BusyTypes, InstanceTypes, Zenon
<1>3. snapshot /\ honest /\ DataInv /\ SnapInv
  BY <1>1, <1>2, Zenon DEF PlainInv, CfgTypes, ApplierInv
<1>4. x = current(i)
  BY <1>2, <1>3, BusyIsCurrent, Zenon
<1>5. m.index = sent[x] /\ RightMessage(x) /\ applier[x].err = "none"
  BY <1>2, <1>3, Zenon DEF DataInv, RightMessage
<1>6. Upto(logs[i], sent[x])
  BY <1>1, <1>2, <1>3, <1>4, Zenon DEF SnapInv, Follows
<1>7. b.at = "snapshot" /\ b.m = m /\ b.err = applier[x].err
  BY <1>2, CommandBusy, Zenon
<1>8. applier' = [applier EXCEPT ![x] = b] \/ applier' = [applier EXCEPT ![x] = Idle]
  BY Zenon DEF Advance, CfgTypes
<1>9. UNCHANGED <<test, honest, decided, sent, saved, gen, logs, alarm>>
  BY <1>5, Zenon DEF Advance, raftVars, Fatal
<1>10. lastApplied' = [lastApplied EXCEPT ![i] = m.index]
  BY Zenon DEF Advance
<1> HIDE DEF b, m, i
<1>11. applier'[x] \in {b, Idle} /\ \A y \in Instances : y # x => applier'[y] = applier[y]
  BY <1>8, Zenon DEF CfgTypes
<1>12. lastApplied'[i] = sent[x] /\ \A j \in Peers : j # i => lastApplied'[j] = lastApplied[j]
  BY <1>2, <1>5, <1>10, Zenon DEF CfgTypes
<1>13. (applier[x] # Idle => RightMessage(x))'
  BY <1>2, <1>5, <1>7, <1>9, <1>11, BusyTypes DEF RightMessage, m
<1>14. DataInv'
  <2>1. \A j \in Peers : Right(logs[j])'
    BY <1>3, <1>9, ZenonT(60) DEF DataInv, Right
  <2> QED
    BY <1>3, <1>9, <1>11, <1>13, <2>1, MessagesStayRight, SavedStaysRight, ZenonT(60) DEF DataInv
<1>15. current(i)' = x
  BY <1>4, <1>9, Zenon DEF current
<1>16. Upto(logs[i], lastApplied[i])'
  BY <1>6, <1>9, <1>12, Zenon DEF Upto
<1>17. Follows(i)'
  BY <1>7, <1>9, <1>11, <1>12, <1>15, BusyTypes, Zenon DEF Follows
<1>18. SnapInv'
  BY <1>3, <1>4, <1>9, <1>11, <1>12, <1>16, <1>17, SnapStep, ZenonT(60) DEF i
<1>19. OrderInv'
  BY <1>3, <1>9, Zenon DEF OrderInv, snapshot
<1> QED
  BY <1>9, <1>14, <1>18, <1>19, Zenon DEF ApplierInv

\* applierSnap has Raft save a snapshot.
LEMMA TakeRight ==
  ASSUME CfgTypes, PlainInv, ApplierInv, NEW x \in Instances, TakeSnapshot(x)
  PROVE  ApplierInv' /\ UNCHANGED alarm
<1> USE RaftChecksAssumption
<1> DEFINE m == applier[x].m
           i == x[1]
           s == [index |-> sent[x], xlog |-> Cut(logs[i], sent[x])]
<1>1. applier[x].at = "snapshot"
  BY Zenon DEF TakeSnapshot
<1>2. applier[x] \in Busy /\ applier[x] # Idle /\ i \in Peers /\ m \in CommandMsgs
  BY <1>1, AtBusy, BusyTypes, InstanceTypes, Zenon
<1>3. snapshot /\ honest /\ DataInv /\ SnapInv
  BY <1>1, <1>2, Zenon DEF PlainInv, CfgTypes, ApplierInv
<1>4. x = current(i)
  BY <1>2, <1>3, BusyIsCurrent, Zenon
<1>5. m.index = sent[x] /\ applier[x].err = "none" /\ sent[x] <= Len(decided)
  BY <1>2, <1>3, Zenon DEF DataInv, RightMessage
<1>6. lastApplied[i] = sent[x] /\ Upto(logs[i], lastApplied[i])
  BY <1>1, <1>2, <1>3, <1>4, Zenon DEF SnapInv, Follows
<1>7. UNCHANGED <<test, honest, decided, sent, gen, logs, lastApplied, alarm>>
  BY <1>5, Zenon DEF TakeSnapshot, raftVars, Fatal
<1>8. applier' = [applier EXCEPT ![x] = Idle]
  BY Zenon DEF TakeSnapshot
<1>9. saved' = saved \/ saved' = [saved EXCEPT ![i] = s]
  BY <1>5, Zenon DEF TakeSnapshot
<1>10. RightSnapshot(s)
  <2>1. Right(logs[i])
    BY <1>2, <1>3, Zenon DEF DataInv
  <2> QED
    BY <1>5, <1>6, <2>1, Zenon DEF RightSnapshot, Right, Upto, Cut
<1> HIDE DEF s, m, i
<1>11. \A j \in Peers : RightSnapshot(saved'[j])
  BY <1>2, <1>3, <1>9, <1>10, ZenonT(60) DEF DataInv, CfgTypes
<1>12. \A j \in Peers : RightSnapshot(saved[j])'
  BY <1>7, <1>11, Zenon DEF RightSnapshot, Right, Upto
<1>13. applier'[x] = Idle /\ \A y \in Instances : y # x => applier'[y] = applier[y]
  BY <1>8, Zenon DEF CfgTypes
<1>14. DataInv'
  <2>1. \A j \in Peers : Right(logs[j])'
    BY <1>3, <1>7, ZenonT(60) DEF DataInv, Right
  <2> QED
    BY <1>3, <1>7, <1>12, <1>13, <2>1, MessagesStayRight, Zenon DEF DataInv
<1>15. current(i)' = x
  BY <1>4, <1>7, Zenon DEF current
<1>16. Upto(logs[i], lastApplied[i])'
  BY <1>6, <1>7, Zenon DEF Upto
<1>17. Follows(i)'
  BY <1>6, <1>7, <1>13, <1>15, BusyTypes, Zenon DEF Follows
<1>18. SnapInv'
  BY <1>3, <1>4, <1>7, <1>13, <1>16, <1>17, SnapStep, Zenon DEF i
<1>19. OrderInv'
  BY <1>3, <1>7, Zenon DEF OrderInv, snapshot
<1> QED
  BY <1>7, <1>14, <1>18, <1>19, Zenon DEF ApplierInv

----------------------------------------------------------------------------
\* start1: the new instance goes on from the snapshot.
LEMMA StartRight ==
  ASSUME CfgTypes, PlainInv, FreshInv, ApplierInv, ~BusyRestarts, NEW i \in Peers, start1(i)
  PROVE  ApplierInv'
<1> SUFFICES ASSUME honest PROVE DataInv' /\ OrderInv' /\ SnapInv'
  BY Zenon DEF ApplierInv, start1
<1> USE RaftChecksAssumption
<1> DEFINE x == <<i, gen[i] + 1>>
           s == saved[i]
<1>1. DataInv /\ OrderInv /\ SnapInv
  BY Zenon DEF ApplierInv
<1>2. gen[i] \in 1 .. MaxStarts /\ gen[i] < MaxStarts
  BY Zenon DEF start1, CfgTypes
<1>3. x \in Instances /\ x[1] = i /\ x[2] = gen[i] + 1 /\ gen[i] + 1 \in 1 .. MaxStarts
  BY <1>2, InstanceTypes, SMTT(60)
<1>4. s.index \in 0 .. MaxIndex /\ RightSnapshot(s)
  BY <1>1, Zenon DEF DataInv, CfgTypes, Snapshots
<1>5. /\ UNCHANGED <<test, decided, saved, applier>> /\ gen' = [gen EXCEPT ![i] = gen[i] + 1]
      /\ lastApplied' = [lastApplied EXCEPT ![i] = s.index] /\ sent' = [sent EXCEPT ![x] = s.index]
      /\ logs' = IF s = NoSnapshot THEN logs ELSE [logs EXCEPT ![i] = s.xlog]
  BY Zenon DEF start1
<1>6. snapshot => \A g \in 1 .. gen[i] : applier[<<i, g>>] = Idle
  BY Zenon DEF start1
<1> HIDE DEF x, s
<1>7. sent'[x] = s.index /\ \A y \in Instances : y # x => sent'[y] = sent[y]
  BY <1>3, <1>5, Zenon DEF CfgTypes
<1>8. /\ lastApplied'[i] = s.index /\ gen'[i] = gen[i] + 1
      /\ \A j \in Peers : j # i => logs'[j] = logs[j] /\ lastApplied'[j] = lastApplied[j] /\ gen'[j] = gen[j]
      /\ s = NoSnapshot => logs' = logs
      /\ s # NoSnapshot => logs'[i] = s.xlog
  BY <1>5, Zenon DEF CfgTypes
<1>9. \A j \in Peers : Right(logs[j])'
  <2>1. Right(s.xlog) /\ \A j \in Peers : Right(logs[j])
    BY <1>1, <1>4, Zenon DEF RightSnapshot, DataInv
  <2>2. \A j \in Peers : Right(logs'[j])
    BY <1>8, <2>1, Zenon
  <2> QED
    BY <1>5, <2>2, SMTT(60) DEF Right
<1>10. applier[x] = Idle
  BY <1>2, <1>3, SMTT(60) DEF FreshInv
<1>11. DataInv'
  <2>1. s.index <= Len(decided')
    BY <1>4, <1>5, Zenon DEF RightSnapshot
  <2>2. \A y \in Instances : (sent[y] <= Len(decided))' /\ (applier[y] # Idle => RightMessage(y))'
    <3> TAKE y \in Instances
    <3>1. CASE y = x
      BY <1>5, <1>7, <1>10, <2>1, <3>1, Zenon
    <3>2. CASE y # x
      BY <1>1, <1>5, <1>7, <3>2, OthersRight, Zenon
    <3> QED
      BY <3>1, <3>2, Zenon
  <2> QED
    BY <1>1, <1>5, <1>9, <2>2, SavedStaysRight, Zenon DEF DataInv
<1>12. OrderInv'
  <2> SUFFICES ASSUME ~snapshot, NEW y \in Instances, NEW k \in Indexes, k <= sent'[y]
               PROVE  logs'[y[1]][k] # None \/ (k = sent'[y] /\ applier'[y] # Idle)
    BY <1>5, Zenon DEF OrderInv, snapshot
  <2>0. s = NoSnapshot
    BY ZenonT(60) DEF PlainInv, s
  <2>1. s = NoSnapshot /\ s.index = 0
    BY <2>0, Zenon DEF NoSnapshot
  <2>2. y # x
    BY <1>7, <2>1 DEF Indexes
  <2> QED
    BY <1>1, <1>5, <1>7, <1>8, <2>1, <2>2, SMTT(60) DEF OrderInv
<1>13. SnapInv'
  <2> SUFFICES ASSUME snapshot, NEW j \in Peers
               PROVE  /\ Upto(logs[j], lastApplied[j])'
                      /\ \A g \in 1 .. MaxStarts : g # gen'[j] => applier'[<<j, g>>] = Idle
                      /\ Follows(j)'
    BY <1>5, Zenon DEF SnapInv, snapshot
  <2>1. CASE j = i
    <3>1. Upto(logs[i], lastApplied[i])'
      <4>1. CASE s = NoSnapshot
        BY <1>8, <4>1, SMTT(60) DEF Upto, NoSnapshot, Indexes
      <4>2. CASE s # NoSnapshot
        BY <1>4, <1>8, <4>2, Zenon DEF Upto, RightSnapshot
      <4> QED
        BY <4>1, <4>2, Zenon
    <3>2. \A g \in 1 .. MaxStarts : g # gen[i] => applier[<<i, g>>] = Idle
      BY <1>1, Zenon DEF SnapInv
    <3>3. \A g \in 1 .. MaxStarts : applier[<<i, g>>] = Idle
      BY <1>2, <1>6, <3>2, SMTT(60)
    <3>4. current(i)' = x /\ applier'[x] = Idle
      BY <1>5, <1>8, <1>10, Zenon DEF current, x
    <3>5. Follows(i)'
      BY <1>7, <1>8, <3>4, BusyTypes, Zenon DEF Follows
    <3> QED
      BY <1>5, <2>1, <3>1, <3>3, <3>5, Zenon
  <2>2. CASE j # i
    <3>1. /\ Upto(logs[j], lastApplied[j]) /\ Follows(j)
          /\ \A g \in 1 .. MaxStarts : g # gen[j] => applier[<<j, g>>] = Idle
      BY <1>1, Zenon DEF SnapInv
    <3>2. current(j)' = current(j) /\ current(j) # x /\ current(j) \in Instances
      BY <1>3, <1>8, <2>2, CurrentTypes, Zenon DEF current
    <3>3. Upto(logs[j], lastApplied[j])'
      BY <1>8, <2>2, <3>1, Zenon DEF Upto
    <3>4. sent'[current(j)] = sent[current(j)] /\ applier' = applier
      BY <1>5, <1>7, <3>2, Zenon
    <3>5. Follows(j)'
      BY <1>8, <2>2, <3>1, <3>2, <3>4, ZenonT(60) DEF Follows, Upto
    <3> QED
      BY <1>8, <2>2, <3>1, <3>3, <3>4, <3>5, Zenon
  <2> QED
    BY <2>1, <2>2, ZenonT(60)
<1> QED
  BY <1>11, <1>12, <1>13, Zenon

\* A step that changes none of it keeps the invariant.
LEMMA NothingWrong ==
  ASSUME ApplierInv, UNCHANGED <<test, honest, decided, sent, gen, logs, lastApplied, saved, applier>>
  PROVE  ApplierInv'
<1>1. honest => DataInv'
  BY ZenonT(60) DEF ApplierInv, DataInv, RightMessage, RightSnapshot, Right, Upto
<1>2. honest => OrderInv' /\ SnapInv'
  BY ZenonT(60) DEF ApplierInv, OrderInv, SnapInv, Follows, Upto, current, snapshot
<1> QED
  BY <1>1, <1>2, Zenon DEF ApplierInv

\* Every step keeps the appliers right.
LEMMA ApplierStep ==
  ASSUME ~BusyRestarts
  PROVE  CfgTypes /\ PlainInv /\ FreshInv /\ ApplierInv /\ [Next]_vars => ApplierInv'
<1> SUFFICES ASSUME CfgTypes, PlainInv, FreshInv, ApplierInv, [Next]_vars PROVE ApplierInv'
  BY Zenon
<1>1. CfgTypes'
  BY CfgStep, Zenon
<1>2. ASSUME NEW x \in Instances, NEW k \in Indexes, NEW c \in Commands, ApplyCommand(x, k, c) PROVE ApplierInv'
  BY <1>1, <1>2, CommandRight, Zenon
<1>3. ASSUME NEW x \in Instances, NEW k \in Indexes, NEW j \in Peers, ApplySnapshot(x, saved[j], k)
      PROVE  ApplierInv'
  BY <1>1, <1>3, SnapshotRight, Zenon
<1>4. ASSUME NEW x \in Instances, Applier(x) \/ IngestSnap(x) \/ ReadLastApplied(x) PROVE ApplierInv'
  BY <1>4, ApplierRight, IngestRight, ReadRight, Zenon
<1>5. ASSUME NEW x \in Instances, CheckLogs(x) \/ Advance(x) \/ TakeSnapshot(x) PROVE ApplierInv'
  BY <1>5, CheckRight, AdvanceRight, TakeRight, Zenon
<1>6. ASSUME NEW i \in Peers, start1(i) PROVE ApplierInv'
  BY <1>6, StartRight, Zenon
<1>7. ASSUME NEW c \in Commands, Decide(c) PROVE ApplierInv'
  BY <1>7, DecideRight, Zenon
<1>8. CASE UNCHANGED <<test, honest, decided, sent, gen, logs, lastApplied, saved, applier>>
  BY <1>8, NothingWrong, Zenon
<1>9. ASSUME NEW i \in Peers, NEW t \in 1 .. MaxTerm, Elect(i, t) \/ Learn(i, t) PROVE ApplierInv'
  BY <1>8, <1>9, Zenon DEF Elect, Learn, cfgVars
<1>10. ASSUME NEW i \in Peers, crash1(i) \/ \E yes \in BOOLEAN : connect(i, yes) PROVE ApplierInv'
  BY <1>8, <1>10, ZenonT(60) DEF crash1, connect, raftVars
<1>11. CASE Judging \/ UNCHANGED vars
  BY <1>8, <1>11, JudgingChangesNothing, Zenon DEF raftVars, cfgVars, vars
<1> QED
  BY <1>2, <1>3, <1>4, <1>5, <1>6, <1>7, <1>9, <1>10, <1>11, NextCases, Zenon

\* The appliers of a right Raft hold what it decided.
LEMMA AppliersCorrect ==
  ASSUME ~BusyRestarts
  PROVE  Spec => [](FreshInv /\ ApplierInv)
<1>1. Init => FreshInv /\ ApplierInv
  BY ApplierInit, Zenon DEF Init, FreshInv
<1>2. CfgTypes /\ PlainInv /\ FreshInv /\ ApplierInv /\ [Next]_vars => FreshInv' /\ ApplierInv'
  BY FreshStep, ApplierStep, Zenon
<1> QED
  BY <1>1, <1>2, CfgCorrect, PTL DEF Spec

\* If a server whose applierSnap is busy is not restarted, then after any
\* restart from a snapshot lastApplied and the log are what a right Raft goes on
\* from, and every saved snapshot is a prefix of the decided commands.
THEOREM RestartsContinue ==
  ASSUME ~BusyRestarts
  PROVE  Spec => []RestartContinues
<1>1. CfgTypes /\ ApplierInv => RestartContinues
  <2> SUFFICES ASSUME CfgTypes, ApplierInv, snapshot, NEW i \in Peers
               PROVE  /\ \A k \in 1 .. saved[i].index : saved[i].xlog[k] = decided[k]
                      /\ \A k \in 1 .. lastApplied[i] : logs[i][k] = decided[k]
                      /\ running[i] /\ applier[current(i)] = Idle => lastApplied[i] = sent[current(i)]
    BY Zenon DEF RestartContinues
  <2> USE RaftChecksAssumption
  <2>1. DataInv /\ SnapInv
    BY Zenon DEF ApplierInv, CfgTypes
  <2>2. saved[i].index \in 0 .. MaxIndex /\ lastApplied[i] \in 0 .. MaxIndex
    BY Zenon DEF CfgTypes, Snapshots
  <2>3. \A k \in 1 .. saved[i].index : saved[i].xlog[k] = decided[k]
    BY <2>1, <2>2, SMTT(60) DEF DataInv, RightSnapshot, Right, Upto, Indexes
  <2>4. \A k \in 1 .. lastApplied[i] : logs[i][k] = decided[k]
    BY <2>1, <2>2 DEF DataInv, SnapInv, Right, Upto, Indexes
  <2>5. applier[current(i)] = Idle => lastApplied[i] = sent[current(i)]
    BY <2>1, BusyTypes, ZenonT(60) DEF SnapInv, Follows
  <2> QED
    BY <2>3, <2>4, <2>5, Zenon
<1> QED
  BY <1>1, CfgCorrect, AppliersCorrect, PTL

----------------------------------------------------------------------------
\* With snapshots, a log only grows while the test checks.

\* applierSnap takes a snapshot at such an index; there is none before k.
Due(k) == (k + 1) % SnapShotInterval = 0
NoneDue(k) == \A j \in Indexes : j < k => ~Due(j)

\* A snapshot was due, and holds nothing beyond its index.
GoodSnapshot(s) ==
  /\ s.index \in Indexes /\ Due(s.index)
  /\ \A k \in Indexes : s.xlog[k] # None => k <= s.index

GoodMessage(x) ==
  applier[x] # Idle =>
    /\ applier[x].m.kind = "snapshot" => GoodSnapshot(applier[x].m.snap) /\ saved[x[1]] # NoSnapshot
    /\ applier[x].at = "snapshot" => Due(applier[x].m.index)

\* A log holds nothing beyond what the last instance of its server has sent.  But a
\* server that has saved nothing keeps its log when it is restarted, and then
\* no snapshot was due before the end of the log.
Within(i) ==
  \A k \in Indexes : logs[i][k] # None => k <= sent[current(i)] \/ (saved[i] = NoSnapshot /\ NoneDue(k))

\* A running instance that applied a command at which a snapshot is due has one.
Saves(i) ==
  saved[i] = NoSnapshot =>
    /\ NoneDue(sent[current(i)])
    /\ running[i] /\ applier[current(i)] = Idle => NoneDue(sent[current(i)] + 1)

Grows(i) == (saved[i] # NoSnapshot => GoodSnapshot(saved[i])) /\ Within(i) /\ Saves(i)

GrowInv == snapshot => (\A i \in Peers : Grows(i)) /\ (\A x \in Instances : GoodMessage(x))

\* No snapshot is due before a smaller index either.
LEMMA NoneDueBelow ==
  ASSUME NEW k \in Nat, NEW n \in Nat, k <= n, NoneDue(n)
  PROVE  NoneDue(k)
  BY DEF NoneDue, Indexes

\* What cannot be seen of a server does not matter.
LEMMA OtherGrows ==
  ASSUME NEW j \in Peers, Grows(j), UNCHANGED <<gen[j], saved[j], logs[j], running[j]>>,
         sent'[current(j)] = sent[current(j)], applier'[current(j)] = applier[current(j)]
  PROVE  Grows(j)'
<1>1. current(j)' = current(j)
  BY Zenon DEF current
<1>2. sent[current(j)]' = sent[current(j)] /\ applier[current(j)]' = applier[current(j)]
  BY <1>1, Zenon
<1>3. Within(j)'
  BY <1>2, Zenon DEF Grows, Within, NoneDue, Due
<1>4. Saves(j)'
  BY <1>2, Zenon DEF Grows, Saves, NoneDue, Due
<1>5. (saved[j] # NoSnapshot => GoodSnapshot(saved[j]))'
  BY Zenon DEF Grows, GoodSnapshot, Due
<1> QED
  BY <1>3, <1>4, <1>5, Zenon DEF Grows

\* A step of one applier is judged by what it does to its server.
LEMMA GrowStep ==
  ASSUME CfgTypes, GrowInv, snapshot, NEW x \in Instances, x = current(x[1]), UNCHANGED <<test, gen, running>>,
         \A y \in Instances : y # x => applier'[y] = applier[y] /\ sent'[y] = sent[y],
         \A i \in Peers : i # x[1] => logs'[i] = logs[i] /\ saved'[i] = saved[i],
         \A i \in Peers : saved[i] # NoSnapshot => saved'[i] # NoSnapshot,
         Grows(x[1])', GoodMessage(x)'
  PROVE  GrowInv'
<1>1. ASSUME NEW i \in Peers, i # x[1] PROVE Grows(i)'
  <2>1. current(i) # x /\ current(i) \in Instances
    BY <1>1, CurrentTypes, InstanceTypes, Zenon
  <2>2. Grows(i)
    BY Zenon DEF GrowInv
  <2>3. sent'[current(i)] = sent[current(i)] /\ applier'[current(i)] = applier[current(i)]
    BY <2>1, Zenon
  <2> QED
    BY <1>1, <2>2, <2>3, OtherGrows, Zenon
<1>2. ASSUME NEW y \in Instances, y # x PROVE GoodMessage(y)'
  <2>1. GoodMessage(y) /\ applier'[y] = applier[y] /\ y[1] \in Peers
    BY <1>2, InstanceTypes, Zenon DEF GrowInv
  <2> QED
    BY <2>1, Zenon DEF GoodMessage, GoodSnapshot, Due
<1> QED
  BY <1>1, <1>2, Zenon DEF GrowInv

\* Raft applies a command.
LEMMA GrowCommand ==
  ASSUME CfgTypes, ApplierInv, GrowInv, snapshot,
         NEW x \in Instances, NEW k \in Indexes, NEW c \in Commands, ApplyCommand(x, k, c)
  PROVE  GrowInv'
<1> USE RaftChecksAssumption
<1> DEFINE i == x[1]
           b == [at |-> "received", m |-> [kind |-> "command", index |-> k, cmd |-> c], err |-> "none"]
<1>1. honest /\ applier[x] = Idle /\ Alive(x) /\ i \in Peers
  BY InstanceTypes, Zenon DEF ApplyCommand, MayApply, CfgTypes
<1>2. k = sent[x] + 1
  BY <1>1, Zenon DEF ApplyCommand
<1>3. UNCHANGED <<test, gen, running, logs, saved>>
  BY Zenon DEF ApplyCommand, cfgVars
<1>4. applier' = [applier EXCEPT ![x] = b] /\ sent' = [sent EXCEPT ![x] = k]
  BY <1>1, Zenon DEF ApplyCommand, Hand
<1>5. b.m.kind = "command" /\ b.at = "received" /\ b # Idle
  BY Zenon DEF Idle
<1> HIDE DEF b, i
<1>6. x = current(i) /\ current(i)' = x
  BY <1>1, <1>3, InstanceTypes, Zenon DEF Alive, current, i
<1>7. applier'[x] = b /\ sent'[x] = k /\ \A y \in Instances : y # x => applier'[y] = applier[y] /\ sent'[y] = sent[y]
  BY <1>4, Zenon DEF CfgTypes
<1>8. sent[x] \in Nat
  BY SMT DEF CfgTypes
<1>9. Grows(i)
  BY <1>1, Zenon DEF GrowInv
<1>10. Within(i)'
  <2> SUFFICES ASSUME NEW n \in Indexes, logs[i][n] # None
               PROVE  n <= k \/ (saved[i] = NoSnapshot /\ NoneDue(n))
    BY <1>3, <1>6, <1>7, Zenon DEF Within, NoneDue, Due
  <2>1. n <= sent[x] \/ (saved[i] = NoSnapshot /\ NoneDue(n))
    BY <1>6, <1>9, Zenon DEF Grows, Within
  <2> QED
    BY <1>2, <1>8, <2>1, SMT DEF Indexes
<1>11. Saves(i)'
  <2>1. saved[i] = NoSnapshot => NoneDue(k)
    BY <1>1, <1>2, <1>6, <1>9, Zenon DEF Grows, Saves, Alive, i
  <2> QED
    BY <1>3, <1>5, <1>6, <1>7, <2>1, Zenon DEF Saves, NoneDue, Due
<1>12. Grows(i)'
  BY <1>3, <1>9, <1>10, <1>11, Zenon DEF Grows, GoodSnapshot, Due
<1>13. GoodMessage(x)'
  BY <1>5, <1>7, Zenon DEF GoodMessage
<1> QED
  BY <1>3, <1>6, <1>7, <1>12, <1>13, GrowStep, Zenon DEF i

\* Raft hands up a snapshot: nothing in the log is beyond it.
LEMMA GrowSnapshot ==
  ASSUME CfgTypes, GrowInv, snapshot,
         NEW x \in Instances, NEW k \in Indexes, NEW j \in Peers, ApplySnapshot(x, saved[j], k)
  PROVE  GrowInv'
<1> USE RaftChecksAssumption
<1> DEFINE i == x[1]
           s == saved[j]
           b == [at |-> "received", m |-> [kind |-> "snapshot", index |-> k, snap |-> s], err |-> "none"]
<1>1. applier[x] = Idle /\ Alive(x) /\ i \in Peers /\ s.index = k /\ k > sent[x]
  BY InstanceTypes, Zenon DEF ApplySnapshot, MayApply
<1>2. UNCHANGED <<test, gen, running, logs>> /\ saved' = [saved EXCEPT ![i] = s]
  BY Zenon DEF ApplySnapshot
<1>3. applier' = [applier EXCEPT ![x] = b] /\ sent' = [sent EXCEPT ![x] = k]
  BY Zenon DEF ApplySnapshot, Hand
<1>4. b.m.kind = "snapshot" /\ b.m.snap = s /\ b.at = "received" /\ b # Idle
  BY Zenon DEF Idle
<1>5. s # NoSnapshot /\ GoodSnapshot(s)
  <2>1. s.index # 0
    BY <1>1, SMT DEF Indexes
  <2>2. NoSnapshot.index = 0
    BY Zenon DEF NoSnapshot
  <2>3. Grows(j)
    BY Zenon DEF GrowInv
  <2> QED
    BY <2>1, <2>2, <2>3, Zenon DEF Grows
<1> HIDE DEF b, i, s
<1>6. x = current(i) /\ current(i)' = x
  BY <1>1, <1>2, InstanceTypes, Zenon DEF Alive, current, i
<1>7. applier'[x] = b /\ sent'[x] = k /\ \A y \in Instances : y # x => applier'[y] = applier[y] /\ sent'[y] = sent[y]
  BY <1>3, Zenon DEF CfgTypes
<1>8. saved'[i] = s /\ \A n \in Peers : n # i => saved'[n] = saved[n]
  BY <1>1, <1>2, Zenon DEF CfgTypes
<1>9. sent[x] \in Nat
  BY SMT DEF CfgTypes
<1>10. Within(i)'
  <2> SUFFICES ASSUME NEW n \in Indexes, logs[i][n] # None PROVE n <= k
    BY <1>2, <1>6, <1>7, Zenon DEF Within
  <2>1. n <= sent[x] \/ NoneDue(n)
    BY <1>1, <1>6, Zenon DEF GrowInv, Grows, Within
  <2>2. CASE n <= sent[x]
    BY <1>1, <1>9, <2>2, SMT DEF Indexes
  <2>3. CASE NoneDue(n)
    <3>1. ~(k < n)
      BY <1>1, <1>5, <2>3, Zenon DEF NoneDue, GoodSnapshot
    <3> QED
      BY <3>1, SMT DEF Indexes
  <2> QED
    BY <2>1, <2>2, <2>3, Zenon
<1>11. Grows(i)'
  <2>1. Saves(i)'
    BY <1>5, <1>8, Zenon DEF Saves
  <2>2. GoodSnapshot(saved[i])'
    BY <1>5, <1>8, Zenon DEF GoodSnapshot, Due
  <2> QED
    BY <1>10, <2>1, <2>2, Zenon DEF Grows
<1>12. GoodMessage(x)'
  BY <1>4, <1>5, <1>7, <1>8, Zenon DEF GoodMessage, GoodSnapshot, Due, i
<1>13. \A n \in Peers : saved[n] # NoSnapshot => saved'[n] # NoSnapshot
  BY <1>5, <1>8, Zenon
<1> QED
  BY <1>2, <1>6, <1>7, <1>8, <1>11, <1>12, <1>13, GrowStep, Zenon DEF i

\* ingestSnap replaces the log by one that goes up to what was sent.
LEMMA GrowIngest ==
  ASSUME CfgTypes, ApplierInv, GrowInv, NEW x \in Instances, IngestSnap(x)
  PROVE  GrowInv' /\ \A i \in Peers, k \in Indexes : logs[i][k] \in {None, logs'[i][k]}
<1> USE RaftChecksAssumption
<1> DEFINE m == applier[x].m
           i == x[1]
<1>1. honest /\ DataInv /\ SnapInv /\ snapshot /\ m.kind = "snapshot" /\ applier[x].at = "received"
  BY ZenonT(60) DEF ApplierInv, IngestSnap, CfgTypes
<1>2. applier[x] \in Busy /\ applier[x] # Idle /\ i \in Peers /\ x = current(i)
  BY <1>1, AtBusy, BusyTypes, InstanceTypes, BusyIsCurrent, Zenon
<1>3. m.index = sent[x] /\ m.snap.index = sent[x] /\ RightSnapshot(m.snap)
  BY <1>1, <1>2, Zenon DEF DataInv, RightMessage
<1>4. GoodSnapshot(m.snap) /\ saved[i] # NoSnapshot
  BY <1>1, <1>2, Zenon DEF GrowInv, GoodMessage
<1>5. UNCHANGED <<test, sent, saved, gen, running>> /\ applier' = [applier EXCEPT ![x] = Idle]
  BY ZenonT(60) DEF IngestSnap, raftVars
<1>6. logs' = [logs EXCEPT ![i] = m.snap.xlog]
  BY <1>3, Zenon DEF IngestSnap
<1> HIDE DEF m, i
<1>7. Grows(i) /\ Right(logs[i])
  BY <1>1, <1>2, Zenon DEF GrowInv, DataInv
<1>8. applier'[x] = Idle /\ \A y \in Instances : y # x => applier'[y] = applier[y]
  BY <1>5, Zenon DEF CfgTypes
<1>9. logs'[i] = m.snap.xlog /\ \A j \in Peers : j # i => logs'[j] = logs[j]
  BY <1>2, <1>6, Zenon DEF CfgTypes
<1>10. current(i)' = x
  BY <1>2, <1>5, Zenon DEF current
<1>11. Grows(i)'
  <2>1. Within(i)'
    BY <1>3, <1>4, <1>5, <1>9, <1>10, Zenon DEF Within, GoodSnapshot
  <2>2. Saves(i)'
    BY <1>4, <1>5, Zenon DEF Saves
  <2>3. GoodSnapshot(saved[i])'
    BY <1>4, <1>5, <1>7, Zenon DEF Grows, GoodSnapshot, Due
  <2> QED
    BY <2>1, <2>2, <2>3, Zenon DEF Grows
<1>12. GoodMessage(x)'
  BY <1>8, Zenon DEF GoodMessage
<1>13. GrowInv'
  BY <1>1, <1>2, <1>5, <1>8, <1>9, <1>11, <1>12, GrowStep, Zenon DEF i
<1>14. ASSUME NEW k \in Indexes, logs[i][k] # None PROVE logs[i][k] = logs'[i][k]
  <2>1. k <= sent[x]
    BY <1>2, <1>4, <1>7, <1>14, Zenon DEF Grows, Within
  <2>2. m.snap.xlog[k] # None /\ Right(m.snap.xlog)
    BY <1>3, <2>1, Zenon DEF RightSnapshot, Upto
  <2> QED
    BY <1>7, <1>9, <1>14, <2>2, Zenon DEF Right
<1>15. \A j \in Peers, k \in Indexes : logs[j][k] \in {None, logs'[j][k]}
  BY <1>9, <1>14, Zenon
<1> QED
  BY <1>13, <1>15, Zenon

\* applierSnap goes on with a command.
LEMMA GrowMove ==
  ASSUME CfgTypes, GrowInv, snapshot, NEW x \in Instances, x = current(x[1]),
         NEW b \in Busy, b.m \in CommandMsgs, b.at = "snapshot" => Due(b.m.index),
         applier' = [applier EXCEPT ![x] = b], UNCHANGED <<test, sent, saved, gen, running>>,
         \A i \in Peers : i # x[1] => logs'[i] = logs[i], Within(x[1])'
  PROVE  GrowInv'
<1>1. x[1] \in Peers /\ b # Idle /\ b.m.kind = "command"
  BY InstanceTypes, BusyTypes, Zenon DEF CommandMsgs
<1>2. applier'[x] = b /\ \A y \in Instances : y # x => applier'[y] = applier[y]
  BY Zenon DEF CfgTypes
<1>3. Grows(x[1])
  BY <1>1, Zenon DEF GrowInv
<1>4. current(x[1])' = x
  BY Zenon DEF current
<1>5. Saves(x[1])'
  BY <1>1, <1>2, <1>3, <1>4, Zenon DEF Grows, Saves, NoneDue, Due
<1>6. Grows(x[1])'
  BY <1>3, <1>5, Zenon DEF Grows, GoodSnapshot, Due
<1>7. GoodMessage(x)'
  BY <1>1, <1>2, Zenon DEF GoodMessage, Due
<1> QED
  BY <1>2, <1>6, <1>7, GrowStep, Zenon

\* A log that stays is within what was sent.
LEMMA WithinStays ==
  ASSUME CfgTypes, GrowInv, snapshot, NEW i \in Peers, UNCHANGED <<sent, saved, gen, logs>>
  PROVE  Within(i)'
<1>1. Within(i)
  BY Zenon DEF GrowInv, Grows
<1> QED
  BY <1>1, Zenon DEF Within, current, NoneDue, Due

\* applierSnap reads lastApplied.
LEMMA GrowRead ==
  ASSUME CfgTypes, ApplierInv, GrowInv, NEW x \in Instances, ReadLastApplied(x)
  PROVE  GrowInv'
<1> DEFINE i == x[1]
<1>1. honest /\ SnapInv /\ snapshot /\ applier[x].m.kind = "command" /\ applier[x].at = "received"
  BY Zenon DEF ApplierInv, ReadLastApplied, CfgTypes
<1>2. applier[x] \in Busy /\ applier[x] # Idle /\ i \in Peers /\ applier[x].m \in CommandMsgs /\ x = current(i)
  BY <1>1, AtBusy, BusyTypes, InstanceTypes, BusyIsCurrent, Zenon
<1>3. /\ UNCHANGED <<test, sent, saved, gen, running, logs>>
      /\ \E b \in Busy : b.m = applier[x].m /\ b.at # "snapshot" /\ applier' = [applier EXCEPT ![x] = b]
  <2>1. UNCHANGED <<test, sent, saved, gen, running, logs>>
    BY Zenon DEF ReadLastApplied, raftVars, cfgVars
  <2>2. /\ [applier[x] EXCEPT !.at = "advance", !.err = "apply out of order"] \in Busy
        /\ [applier[x] EXCEPT !.at = "advance", !.err = "apply out of order"].m = applier[x].m
        /\ [applier[x] EXCEPT !.at = "advance", !.err = "apply out of order"].at = "advance"
    BY <1>2, MoveTypes, Zenon DEF Errors
  <2>3. /\ [applier[x] EXCEPT !.at = "log"] \in Busy /\ [applier[x] EXCEPT !.at = "log"].m = applier[x].m
        /\ [applier[x] EXCEPT !.at = "log"].at = "log"
    BY <1>2, MoveTypes, Zenon DEF Errors
  <2>4. \/ applier' = [applier EXCEPT ![x] = [applier[x] EXCEPT !.at = "advance", !.err = "apply out of order"]]
        \/ applier' = [applier EXCEPT ![x] = [applier[x] EXCEPT !.at = "log"]]
    BY Zenon DEF ReadLastApplied, CfgTypes
  <2> QED
    BY <2>1, <2>2, <2>3, <2>4, Zenon
<1>4. Within(i)'
  BY <1>1, <1>2, <1>3, WithinStays, Zenon
<1> QED
  BY <1>1, <1>2, <1>3, <1>4, GrowMove, Zenon

\* applierSnap compares and stores the command that was sent last.
LEMMA GrowCheck ==
  ASSUME CfgTypes, PlainInv, ApplierInv, GrowInv, NEW x \in Instances, CheckLogs(x)
  PROVE  GrowInv' /\ \A i \in Peers, k \in Indexes : logs[i][k] \in {None, logs'[i][k]}
<1> USE RaftChecksAssumption
<1> DEFINE m == applier[x].m
           i == x[1]
           b == [applier[x] EXCEPT !.at = "advance", !.err = Fault(i, m)]
<1>1. applier[x].at = "log" /\ SetLog(i, m)
  BY Zenon DEF CheckLogs
<1>2. applier[x] \in Busy /\ applier[x] # Idle /\ i \in Peers /\ m \in CommandMsgs
  BY <1>1, AtBusy, BusyTypes, InstanceTypes, Zenon
<1>3. snapshot /\ honest /\ DataInv /\ SnapInv
  BY <1>1, <1>2, Zenon DEF PlainInv, CfgTypes, ApplierInv
<1>4. x = current(i)
  BY <1>2, <1>3, BusyIsCurrent, Zenon
<1>5. m.index = sent[x] /\ m.cmd = decided[sent[x]]
  BY <1>2, <1>3, BusyTypes, ZenonT(60) DEF DataInv, RightMessage, CommandMsgs
<1>6. b \in Busy /\ b.m = m /\ b.at = "advance"
  <2> DEFINE e == Fault(i, m)
  <2>1. e \in Errors /\ applier[x].m \in CommandMsgs /\ m = applier[x].m
    BY <1>2, FaultTypes, Zenon
  <2>2. b = [applier[x] EXCEPT !.at = "advance", !.err = e]
    BY Zenon
  <2> HIDE DEF e, b, m, i
  <2>3. [applier[x] EXCEPT !.at = "advance", !.err = e] \in Busy
    BY <1>2, <2>1, MoveTypes, ZenonT(60)
  <2>4. [applier[x] EXCEPT !.at = "advance", !.err = e].m = applier[x].m
    BY <1>2, <2>1, CommandBusy, Zenon
  <2>5. [applier[x] EXCEPT !.at = "advance", !.err = e].at = "advance"
    BY <1>2, <2>1, CommandBusy, Zenon
  <2> QED
    BY <2>1, <2>2, <2>3, <2>4, <2>5, Zenon
<1>7. applier' = [applier EXCEPT ![x] = b] /\ UNCHANGED <<test, sent, saved, gen, running>>
  BY Zenon DEF CheckLogs, raftVars, CfgTypes
<1> HIDE DEF b, m, i
<1>8. /\ m.index \in Indexes
      /\ \A j \in Peers, k \in Indexes : logs'[j][k] = IF j = i /\ k = m.index THEN m.cmd ELSE logs[j][k]
  BY <1>1, <1>2, SetLogTypes, Zenon
<1>9. \A j \in Peers : j # i => logs'[j] = logs[j]
  BY <1>1, <1>2, Zenon DEF SetLog, CfgTypes
<1>10. current(i)' = x
  BY <1>4, <1>7, Zenon DEF current
<1>11. Within(i)'
  <2> SUFFICES ASSUME NEW k \in Indexes, logs'[i][k] # None
               PROVE  k <= sent[x] \/ (saved[i] = NoSnapshot /\ NoneDue(k))
    BY <1>7, <1>10, Zenon DEF Within, NoneDue, Due
  <2>1. CASE k = m.index
    BY <1>5, <1>8, <2>1, SMT DEF Indexes
  <2>2. CASE k # m.index
    <3>1. logs[i][k] # None
      BY <1>2, <1>8, <2>2, Zenon
    <3>2. Within(i)
      BY <1>2, <1>3, Zenon DEF GrowInv, Grows
    <3> QED
      BY <1>4, <3>1, <3>2, Zenon DEF Within
  <2> QED
    BY <2>1, <2>2, Zenon
<1>12. GrowInv'
  BY <1>2, <1>3, <1>4, <1>6, <1>7, <1>9, <1>11, GrowMove, Zenon DEF i
<1>13. ASSUME NEW j \in Peers, NEW k \in Indexes PROVE logs[j][k] \in {None, logs'[j][k]}
  <2>1. Right(logs[j])
    BY <1>3, Zenon DEF DataInv
  <2>2. CASE j = i /\ k = m.index /\ logs[j][k] # None
    <3>1. logs[j][k] = decided[k]
      BY <2>1, <2>2, Zenon DEF Right
    <3> QED
      BY <1>5, <1>8, <2>2, <3>1, Zenon
  <2>3. CASE ~(j = i /\ k = m.index)
    BY <1>8, <2>3, Zenon
  <2> QED
    BY <2>2, <2>3, Zenon
<1> QED
  BY <1>12, <1>13, Zenon

\* applierSnap is done with a command, and has saved a snapshot if one was due.
LEMMA GrowDone ==
  ASSUME CfgTypes, GrowInv, snapshot, NEW x \in Instances, x = current(x[1]),
         applier' = [applier EXCEPT ![x] = Idle], UNCHANGED <<test, sent, gen, running, logs>>,
         \A i \in Peers : i # x[1] => saved'[i] = saved[i],
         \/ saved' = saved
         \/ saved'[x[1]] # NoSnapshot /\ GoodSnapshot(saved'[x[1]]) /\ saved'[x[1]].index = sent[x],
         saved' = saved /\ saved[x[1]] = NoSnapshot /\ running[x[1]] => NoneDue(sent[x] + 1)
  PROVE  GrowInv'
<1> DEFINE i == x[1]
<1>1. i \in Peers
  BY InstanceTypes, Zenon
<1>2. applier'[x] = Idle /\ \A y \in Instances : y # x => applier'[y] = applier[y]
  BY Zenon DEF CfgTypes
<1>3. Grows(i) /\ current(i)' = x
  BY <1>1, Zenon DEF GrowInv, current
<1>4. Saves(i)'
  <2>1. CASE saved' = saved
    BY <1>1, <1>2, <1>3, <2>1, Zenon DEF Grows, Saves, NoneDue, Due
  <2>2. CASE saved'[i] # NoSnapshot
    BY <2>2, Zenon DEF Saves
  <2> QED
    BY <2>1, <2>2, Zenon
<1>5. Within(i)'
  <2>1. CASE saved' = saved
    BY <1>1, <2>1, WithinStays, Zenon
  <2>2. CASE saved'[i] # NoSnapshot /\ GoodSnapshot(saved'[i]) /\ saved'[i].index = sent[x]
    <3> SUFFICES ASSUME NEW k \in Indexes, logs[i][k] # None PROVE k <= sent[x]
      BY <1>3, Zenon DEF Within
    <3>1. k <= sent[x] \/ NoneDue(k)
      BY <1>3, Zenon DEF Grows, Within
    <3>2. sent[x] \in Indexes /\ Due(sent[x])
      BY <2>2, Zenon DEF GoodSnapshot
    <3>3. NoneDue(k) => ~(sent[x] < k)
      BY <3>2, Zenon DEF NoneDue
    <3> QED
      BY <3>1, <3>2, <3>3, SMT DEF Indexes
  <2> QED
    BY <2>1, <2>2, Zenon
<1>6. (saved[i] # NoSnapshot => GoodSnapshot(saved[i]))'
  <2>1. saved'[i] # NoSnapshot => GoodSnapshot(saved'[i])
    BY <1>3, Zenon DEF Grows
  <2> QED
    BY <2>1, Zenon DEF GoodSnapshot, Due
<1>7. GoodMessage(x)'
  BY <1>2, Zenon DEF GoodMessage
<1>8. \A j \in Peers : saved[j] # NoSnapshot => saved'[j] # NoSnapshot
  BY Zenon
<1> HIDE DEF i
<1>9. Grows(i)'
  BY <1>4, <1>5, <1>6, Zenon DEF Grows
<1> QED
  BY <1>2, <1>7, <1>8, <1>9, GrowStep, Zenon DEF i

\* applierSnap moves lastApplied, and goes on to a snapshot if one is due.
LEMMA GrowAdvance ==
  ASSUME CfgTypes, PlainInv, ApplierInv, GrowInv, NEW x \in Instances, Advance(x)
  PROVE  GrowInv'
<1> USE RaftChecksAssumption
<1> DEFINE m == applier[x].m
           i == x[1]
           b == [applier[x] EXCEPT !.at = "snapshot"]
<1>1. applier[x].at = "advance"
  BY Zenon DEF Advance
<1>2. applier[x] \in Busy /\ applier[x] # Idle /\ i \in Peers /\ m \in CommandMsgs
  BY <1>1, AtBusy, BusyTypes, InstanceTypes, Zenon
<1>3. snapshot /\ honest /\ DataInv /\ SnapInv
  BY <1>1, <1>2, Zenon DEF PlainInv, CfgTypes, ApplierInv
<1>4. x = current(i)
  BY <1>2, <1>3, BusyIsCurrent, Zenon
<1>5. m.index = sent[x] /\ m.index \in Indexes
  BY <1>2, <1>3, BusyTypes, Zenon DEF DataInv, RightMessage
<1>6. b \in Busy /\ b.m = m
  BY <1>2, MoveTypes, Zenon DEF Errors
<1>7. UNCHANGED <<test, sent, saved, gen, running, logs>>
  BY Zenon DEF Advance, raftVars
<1>8. \/ Due(sent[x]) /\ applier' = [applier EXCEPT ![x] = b]
      \/ ~Due(sent[x]) /\ applier' = [applier EXCEPT ![x] = Idle]
  BY <1>5, Zenon DEF Advance, CfgTypes, Due
<1> HIDE DEF b, m
<1>9. CASE Due(sent[x]) /\ applier' = [applier EXCEPT ![x] = b]
  <2>1. Within(i)'
    BY <1>2, <1>3, <1>7, WithinStays, Zenon
  <2> QED
    BY <1>2, <1>3, <1>4, <1>5, <1>6, <1>7, <1>9, <2>1, GrowMove, Zenon
<1>10. CASE ~Due(sent[x]) /\ applier' = [applier EXCEPT ![x] = Idle]
  <2>1. Grows(i)
    BY <1>2, <1>3, Zenon DEF GrowInv
  <2>2. saved[i] = NoSnapshot => NoneDue(sent[x])
    BY <1>4, <2>1, Zenon DEF Grows, Saves
  <2>3. NoneDue(sent[x]) => NoneDue(sent[x] + 1)
    <3> SUFFICES ASSUME NoneDue(sent[x]), NEW j \in Indexes, j < sent[x] + 1 PROVE ~Due(j)
      BY Zenon DEF NoneDue
    <3>1. j < sent[x] \/ j = sent[x]
      BY <1>5, SMT DEF Indexes
    <3> QED
      BY <1>10, <3>1, Zenon DEF NoneDue
  <2> QED
    BY <1>3, <1>4, <1>7, <1>10, <2>2, <2>3, GrowDone, Zenon
<1> QED
  BY <1>8, <1>9, <1>10, Zenon

\* applierSnap has Raft save a snapshot.
LEMMA GrowTake ==
  ASSUME CfgTypes, PlainInv, ApplierInv, GrowInv, NEW x \in Instances, TakeSnapshot(x)
  PROVE  GrowInv'
<1> USE RaftChecksAssumption
<1> DEFINE m == applier[x].m
           i == x[1]
           s == [index |-> sent[x], xlog |-> Cut(logs[i], sent[x])]
<1>1. applier[x].at = "snapshot"
  BY Zenon DEF TakeSnapshot
<1>2. applier[x] \in Busy /\ applier[x] # Idle /\ i \in Peers /\ m \in CommandMsgs
  BY <1>1, AtBusy, BusyTypes, InstanceTypes, Zenon
<1>3. snapshot /\ honest /\ DataInv /\ SnapInv
  BY <1>1, <1>2, Zenon DEF PlainInv, CfgTypes, ApplierInv
<1>4. x = current(i)
  BY <1>2, <1>3, BusyIsCurrent, Zenon
<1>5. m.index = sent[x] /\ sent[x] \in Indexes
  BY <1>2, <1>3, BusyTypes, Zenon DEF DataInv, RightMessage
<1>6. Due(sent[x])
  BY <1>1, <1>2, <1>3, <1>5, Zenon DEF GrowInv, GoodMessage
<1>7. UNCHANGED <<test, sent, gen, running, logs>> /\ applier' = [applier EXCEPT ![x] = Idle]
  BY Zenon DEF TakeSnapshot, raftVars
<1>8. saved' = IF Alive(x) /\ sent[x] > saved[i].index THEN [saved EXCEPT ![i] = s] ELSE saved
  BY <1>5, Zenon DEF TakeSnapshot
<1>9. s.index = sent[x] /\ s # NoSnapshot
  <2>1. NoSnapshot.index = 0 /\ sent[x] # 0 /\ s.index = sent[x]
    BY <1>5, SMT DEF NoSnapshot, Indexes
  <2> QED
    BY <2>1, Zenon
<1>10. GoodSnapshot(s)
  <2>1. ASSUME NEW k \in Indexes, s.xlog[k] # None PROVE k <= sent[x]
    BY <2>1, Zenon DEF Cut
  <2> QED
    BY <1>5, <1>6, <1>9, <2>1, Zenon DEF GoodSnapshot
<1> HIDE DEF s, m
<1>11. saved[i] = NoSnapshot /\ running[i] => Alive(x) /\ sent[x] > saved[i].index
  <2>1. NoSnapshot.index = 0 /\ sent[x] > 0
    BY <1>5, SMT DEF NoSnapshot, Indexes
  <2>2. running[i] => Alive(x)
    BY <1>2, <1>4, InstanceTypes, Zenon DEF Alive, current
  <2> QED
    BY <2>1, <2>2, Zenon
<1>12. CASE saved' = [saved EXCEPT ![i] = s]
  <2>1. saved'[i] = s /\ \A j \in Peers : j # i => saved'[j] = saved[j]
    BY <1>2, <1>12, Zenon DEF CfgTypes
  <2>2. /\ saved'[i] # NoSnapshot /\ GoodSnapshot(saved'[i]) /\ saved'[i].index = sent[x]
        /\ ~(saved' = saved /\ saved[i] = NoSnapshot)
    BY <1>9, <1>10, <2>1, Zenon
  <2> QED
    BY <1>3, <1>4, <1>7, <2>1, <2>2, GrowDone, Zenon
<1>13. CASE saved' = saved /\ ~(saved[i] = NoSnapshot /\ running[i])
  BY <1>3, <1>4, <1>7, <1>13, GrowDone, Zenon
<1> QED
  BY <1>8, <1>11, <1>12, <1>13, Zenon

\* start1: the log goes back to the snapshot, or stays if there is none.
LEMMA GrowStart ==
  ASSUME CfgTypes, FreshInv, ApplierInv, GrowInv, snapshot, NEW i \in Peers, start1(i)
  PROVE  GrowInv'
<1> USE RaftChecksAssumption
<1> DEFINE x == <<i, gen[i] + 1>>
           s == saved[i]
<1>1. gen[i] \in 1 .. MaxStarts /\ gen[i] < MaxStarts
  BY Zenon DEF start1, CfgTypes
<1>2. x \in Instances /\ x[1] = i /\ x[2] = gen[i] + 1
  BY <1>1, InstanceTypes, SMTT(60)
<1>3. s.index \in 0 .. MaxIndex
  BY Zenon DEF CfgTypes, Snapshots
<1>4. /\ UNCHANGED <<test, saved, applier>> /\ gen' = [gen EXCEPT ![i] = gen[i] + 1]
      /\ sent' = [sent EXCEPT ![x] = s.index] /\ running' = [running EXCEPT ![i] = TRUE]
      /\ logs' = IF s = NoSnapshot THEN logs ELSE [logs EXCEPT ![i] = s.xlog]
  BY Zenon DEF start1
<1> HIDE DEF x, s
<1>5. sent'[x] = s.index /\ \A y \in Instances : y # x => sent'[y] = sent[y]
  BY <1>2, <1>4, Zenon DEF CfgTypes
<1>6. /\ gen'[i] = gen[i] + 1
      /\ s = NoSnapshot => logs' = logs
      /\ s # NoSnapshot => logs'[i] = s.xlog
  BY <1>4, Zenon DEF CfgTypes
<1>7. \A j \in Peers : j # i => logs'[j] = logs[j] /\ gen'[j] = gen[j] /\ running'[j] = running[j]
  BY <1>4, Zenon DEF CfgTypes
<1>8. current(i)' = x /\ saved'[i] = s
  BY <1>4, <1>6, Zenon DEF current, x, s
<1>9. Grows(i)
  BY Zenon DEF GrowInv
<1>10. \A k \in Nat : k <= 1 => NoneDue(k)
  BY SMT DEF NoneDue, Indexes
<1>11. Within(i)'
  <2> SUFFICES ASSUME NEW k \in Indexes, logs'[i][k] # None
               PROVE  k <= s.index \/ (s = NoSnapshot /\ NoneDue(k))
    BY <1>5, <1>8, Zenon DEF Within, NoneDue, Due
  <2>1. CASE s # NoSnapshot
    <3>1. GoodSnapshot(s) /\ s.xlog[k] # None
      BY <1>6, <1>9, <2>1, Zenon DEF Grows, s
    <3> QED
      BY <3>1, Zenon DEF GoodSnapshot
  <2>2. CASE s = NoSnapshot
    <3>1. k <= sent[current(i)] \/ NoneDue(k)
      BY <1>6, <1>9, <2>2, Zenon DEF Grows, Within
    <3>2. NoneDue(sent[current(i)])
      BY <1>9, <2>2, Zenon DEF Grows, Saves, s
    <3>3. sent[current(i)] \in Nat /\ k \in Nat
      BY CurrentTypes, SMT DEF CfgTypes, Indexes
    <3> QED
      BY <2>2, <3>1, <3>2, <3>3, NoneDueBelow, Zenon
  <2> QED
    BY <2>1, <2>2, Zenon
<1>12. Saves(i)'
  <2> SUFFICES ASSUME s = NoSnapshot PROVE NoneDue(s.index) /\ NoneDue(s.index + 1)
    BY <1>5, <1>8, Zenon DEF Saves, NoneDue, Due
  <2>1. s.index = 0
    BY Zenon DEF NoSnapshot
  <2> QED
    BY <1>10, <2>1, SMT
<1>13. Grows(i)'
  <2>1. (saved[i] # NoSnapshot => GoodSnapshot(saved[i]))'
    BY <1>8, <1>9, Zenon DEF Grows, GoodSnapshot, Due, s
  <2> QED
    BY <1>11, <1>12, <2>1, Zenon DEF Grows
<1>14. ASSUME NEW j \in Peers, j # i PROVE Grows(j)'
  <2>1. Grows(j)
    BY Zenon DEF GrowInv
  <2>2. current(j) # x /\ current(j) \in Instances
    BY <1>2, <1>14, CurrentTypes, Zenon
  <2>3. sent'[current(j)] = sent[current(j)] /\ applier'[current(j)] = applier[current(j)] /\ saved'[j] = saved[j]
    BY <1>4, <1>5, <2>2, Zenon
  <2> QED
    BY <1>7, <1>14, <2>1, <2>3, OtherGrows, Zenon
<1>15. ASSUME NEW y \in Instances PROVE GoodMessage(y)'
  <2>1. GoodMessage(y)
    BY Zenon DEF GrowInv
  <2> QED
    BY <1>4, <2>1, Zenon DEF GoodMessage, GoodSnapshot, Due
<1> QED
  BY <1>13, <1>14, <1>15, Zenon DEF GrowInv

\* A step that changes none of it, or kills a server.
LEMMA GrowNothing ==
  ASSUME CfgTypes, GrowInv, UNCHANGED <<test, sent, gen, logs, saved, applier>>,
         \A j \in Peers : running'[j] => running[j]
  PROVE  GrowInv'
<1> SUFFICES ASSUME snapshot PROVE GrowInv'
  BY Zenon DEF GrowInv, snapshot
<1>1. ASSUME NEW j \in Peers PROVE Grows(j)'
  <2>1. Grows(j) /\ current(j)' = current(j)
    BY Zenon DEF GrowInv, current
  <2>2. Saves(j)'
    BY <2>1, Zenon DEF Grows, Saves, NoneDue, Due
  <2>3. Within(j)'
    BY WithinStays, Zenon
  <2> QED
    BY <2>1, <2>2, <2>3, Zenon DEF Grows, GoodSnapshot, Due
<1>2. ASSUME NEW y \in Instances PROVE GoodMessage(y)'
  <2>1. GoodMessage(y)
    BY Zenon DEF GrowInv
  <2> QED
    BY <2>1, Zenon DEF GoodMessage, GoodSnapshot, Due
<1> QED
  BY <1>1, <1>2, Zenon DEF GrowInv

\* Every step keeps the logs within what was sent.
LEMMA GrowNext ==
  ASSUME ~BusyRestarts
  PROVE  CfgTypes /\ PlainInv /\ FreshInv /\ ApplierInv /\ GrowInv /\ [Next]_vars => GrowInv'
<1> SUFFICES ASSUME CfgTypes, PlainInv, FreshInv, ApplierInv, GrowInv, [Next]_vars PROVE GrowInv'
  BY Zenon
<1>1. test' = test
  BY NextCases, JudgingChangesNothing, ZenonT(60)
     DEF Decide, ApplyCommand, ApplySnapshot, Elect, Learn, Applier, IngestSnap, ReadLastApplied, CheckLogs,
         Advance, TakeSnapshot, crash1, start1, connect, raftVars, vars
<1> SUFFICES ASSUME snapshot PROVE GrowInv'
  BY <1>1, Zenon DEF GrowInv, snapshot
<1>2. ASSUME NEW x \in Instances, NEW k \in Indexes, NEW c \in Commands, ApplyCommand(x, k, c) PROVE GrowInv'
  BY <1>2, GrowCommand, Zenon
<1>3. ASSUME NEW x \in Instances, NEW k \in Indexes, NEW j \in Peers, ApplySnapshot(x, saved[j], k)
      PROVE  GrowInv'
  BY <1>3, GrowSnapshot, Zenon
<1>4. ASSUME NEW x \in Instances, Applier(x) PROVE FALSE
  BY <1>4, Zenon DEF Applier
<1>5. ASSUME NEW x \in Instances, IngestSnap(x) \/ ReadLastApplied(x) \/ CheckLogs(x) PROVE GrowInv'
  BY <1>5, GrowIngest, GrowRead, GrowCheck, Zenon
<1>6. ASSUME NEW x \in Instances, Advance(x) \/ TakeSnapshot(x) PROVE GrowInv'
  BY <1>6, GrowAdvance, GrowTake, Zenon
<1>7. ASSUME NEW i \in Peers, start1(i) PROVE GrowInv'
  BY <1>7, GrowStart, Zenon
<1>8. CASE UNCHANGED <<test, sent, gen, running, logs, saved, applier>>
  BY <1>8, GrowNothing, Zenon
<1>9. ASSUME NEW i \in Peers, NEW t \in 1 .. MaxTerm, Elect(i, t) \/ Learn(i, t) PROVE GrowInv'
  BY <1>8, <1>9, Zenon DEF Elect, Learn, cfgVars
<1>10. ASSUME NEW i \in Peers, crash1(i) PROVE GrowInv'
  <2>1. UNCHANGED <<test, sent, gen, logs, saved, applier>> /\ running' = [running EXCEPT ![i] = FALSE]
    BY <1>10, Zenon DEF crash1, raftVars
  <2>2. \A j \in Peers : running'[j] => running[j]
    BY <2>1, Zenon DEF CfgTypes
  <2> QED
    BY <2>1, <2>2, GrowNothing, Zenon
<1>11. ASSUME NEW i \in Peers, \E yes \in BOOLEAN : connect(i, yes) PROVE GrowInv'
  BY <1>8, <1>11, Zenon DEF connect, raftVars
<1>12. ASSUME NEW c \in Commands, Decide(c) PROVE GrowInv'
  BY <1>8, <1>12, Zenon DEF Decide, cfgVars
<1>13. CASE Judging \/ UNCHANGED vars
  BY <1>8, <1>13, JudgingChangesNothing, Zenon DEF raftVars, cfgVars, vars
<1> QED
  BY <1>2, <1>3, <1>4, <1>5, <1>6, <1>7, <1>9, <1>10, <1>11, <1>12, <1>13, NextCases, Zenon

\* The logs are within what was sent in every state.
LEMMA GrowCorrect ==
  ASSUME ~BusyRestarts
  PROVE  Spec => []GrowInv
<1>1. Init => GrowInv
  <2> SUFFICES ASSUME Init PROVE GrowInv
    BY Zenon
  <2>1. \A i \in Peers : current(i) \in Instances
    BY RaftChecksAssumption DEF Init, current, Instances
  <2>2. \A k \in Nat : k <= 1 => NoneDue(k)
    BY SMT DEF NoneDue, Indexes
  <2>3. NoneDue(0) /\ NoneDue(0 + 1)
    BY <2>2, SMT
  <2>4. ASSUME NEW i \in Peers PROVE Grows(i)
    <3>1. saved[i] = NoSnapshot /\ logs[i] = NoLog /\ sent[current(i)] = 0
      BY <2>1, Zenon DEF Init
    <3>2. Within(i)
      BY <3>1, Zenon DEF Within, NoLog
    <3>3. Saves(i)
      BY <2>3, <3>1, Zenon DEF Saves
    <3> QED
      BY <3>1, <3>2, <3>3, Zenon DEF Grows
  <2>5. ASSUME NEW x \in Instances PROVE GoodMessage(x)
    BY Zenon DEF Init, GoodMessage
  <2> QED
    BY <2>4, <2>5, Zenon DEF GrowInv
<1>2. CfgTypes /\ PlainInv /\ FreshInv /\ ApplierInv /\ GrowInv /\ [Next]_vars => GrowInv'
  BY GrowNext, Zenon
<1> QED
  BY <1>1, <1>2, CfgCorrect, AppliersCorrect, PTL DEF Spec

\* While the test checks, no server loses a command that it has applied.
LEMMA LogsKept ==
  ASSUME CfgTypes, PlainInv, ApplierInv, GrowInv, [Next]_vars, ~Free, alarm' = "none"
  PROVE  \A i \in Peers, k \in Indexes : logs[i][k] \in {None, logs'[i][k]}
<1>1. CASE logs' = logs
  BY <1>1, Zenon
<1>2. CASE logs' # logs /\ ~snapshot
  BY <1>2, PlainKept, Zenon
<1>3. CASE logs' # logs /\ snapshot
  <2>1. Next
    BY <1>3, Zenon DEF vars, cfgVars
  <2>2. \/ \E x \in Instances : Applier(x)
        \/ \E x \in Instances : IngestSnap(x)
        \/ \E x \in Instances : CheckLogs(x)
        \/ \E i \in Peers : start1(i)
    BY <1>3, <2>1, NextCases, JudgingChangesNothing, Zenon
       DEF Decide, ApplyCommand, ApplySnapshot, Elect, Learn, ReadLastApplied, Advance, TakeSnapshot,
           crash1, connect, cfgVars
  <2>3. ~(\E x \in Instances : Applier(x)) /\ ~(\E i \in Peers : start1(i))
    BY <1>3, Zenon DEF Applier, start1
  <2> QED
    BY <2>2, <2>3, GrowIngest, GrowCheck, Zenon
<1> QED
  BY <1>1, <1>2, <1>3, Zenon

----------------------------------------------------------------------------
\* The checks.

Agreements ==
  [kind : {"one", "wait"}, at : {"start", "count", "recount"}, cmd : Commands \cup {None},
   index : 0 .. MaxIndex, expected : 1 .. N, i : 0 .. N, count : Nat, cmd1 : Commands \cup {None}]

ProbeKinds == {"checkOneLeader", "checkTerms", "checkNoLeader"}
Probes == [kind : ProbeKinds, i : 0 .. N, iters : Nat, leaders : SUBSET (Nat \X Peers), terms : SUBSET Nat]

RaftTermTypes ==
  /\ term \in [Peers -> Nat] /\ leads \in [Peers -> BOOLEAN]
  /\ won \in SUBSET [term : Nat, server : Peers]
  /\ connected \in [Peers -> BOOLEAN] /\ quiet \in BOOLEAN

\* one and wait count servers that have the decided command.
CountInv ==
  check \in Agreements =>
    /\ check.at # "start" => check.index \in Indexes
    /\ honest /\ check.count > 0 => /\ check.index \in 1 .. Len(decided)
                                    /\ check.cmd1 = decided[check.index]

\* The leaders that a check has seen were elected, one for a term.
Elected(l) == [term |-> l[1], server |-> l[2]] \in won

LeadersInv ==
  /\ \A i \in Peers : leads[i] => Elected(<<term[i], i>>)
  /\ honest => \A v, w \in won : v.term = w.term => v.server = w.server
  /\ check \in Probes => \A l \in check.leaders : Elected(l)

\* While all connected servers agree on the term, checkTerms has seen one term:
\* that of the connected servers, or that of the only one.
OneTermSeen(t) ==
  \E i \in Peers :
    /\ connected[i] /\ i < check.i /\ check.terms = {t}
    /\ \A j \in Peers : connected[j] /\ j # i => term[j] = t

QuietInv ==
  check \in Probes /\ check.kind = "checkTerms" /\ quiet =>
    TermsAgree(term) /\ (check.terms = {} \/ \E t \in Nat : OneTermSeen(t))

CheckTypes == RaftTermTypes /\ check \in {NoCheck} \cup Agreements \cup Probes

\* The kinds of checks.
LEMMA CheckKinds ==
  /\ NoCheck \notin Agreements /\ NoCheck \notin Probes /\ NoCheck.kind = "none"
  /\ \A c \in Agreements : c.kind \in {"one", "wait"} /\ c \notin Probes
  /\ \A c \in Probes : c.kind \in ProbeKinds /\ c \notin Agreements
  BY Zenon DEF NoCheck, Agreements, Probes, ProbeKinds

\* nCommitted begins to count.
LEMMA CountTypes ==
  ASSUME NEW c \in Agreements
  PROVE  nCommitted(c) \in Agreements /\ nCommitted(c).count = 0 /\ nCommitted(c).index = c.index
<1> DEFINE C == Commands \cup {None}
           P == 0 .. N
           I == 0 .. MaxIndex
           E == 1 .. N
           A == [kind : {"one", "wait"}, at : {"start", "count", "recount"}, cmd : C,
                 index : I, expected : E, i : P, count : Nat, cmd1 : C]
<1>1. nCommitted(c) \in Agreements
  <2>1. Agreements = A /\ None \in C /\ 0 \in P
    BY RaftChecksAssumption DEF Agreements
  <2> HIDE DEF C, P, I, E
  <2>2. c \in A
    BY <2>1, Zenon
  <2>3. nCommitted(c) \in A
    BY <2>1, <2>2, Zenon DEF nCommitted
  <2> QED
    BY <2>1, <2>3, Zenon
<1>2. nCommitted(c).count = 0
  BY Zenon DEF nCommitted, Agreements
<1>3. nCommitted(c).index = c.index
  BY Zenon DEF nCommitted, Agreements
<1> QED
  BY <1>1, <1>2, <1>3, Zenon

\* one begins, submits or counts again.
LEMMA AgreementTypes ==
  ASSUME NEW c \in Agreements
  PROVE  /\ \A k \in 0 .. MaxIndex : [c EXCEPT !.index = k] \in Agreements /\ [c EXCEPT !.index = k].index = k
         /\ \A p \in {"start", "count", "recount"} :
              /\ [c EXCEPT !.at = p] \in Agreements /\ [c EXCEPT !.at = p].at = p
              /\ [c EXCEPT !.at = p].index = c.index /\ [c EXCEPT !.at = p].count = c.count
              /\ [c EXCEPT !.at = p].cmd1 = c.cmd1
<1>1. \A k \in 0 .. MaxIndex : [c EXCEPT !.index = k] \in Agreements /\ [c EXCEPT !.index = k].index = k
  BY Zenon DEF Agreements
<1>2. \A p \in {"start", "count", "recount"} :
              /\ [c EXCEPT !.at = p] \in Agreements /\ [c EXCEPT !.at = p].at = p
              /\ [c EXCEPT !.at = p].index = c.index /\ [c EXCEPT !.at = p].count = c.count
              /\ [c EXCEPT !.at = p].cmd1 = c.cmd1
  BY Zenon DEF Agreements
<1> QED
  BY <1>1, <1>2, Zenon

\* A new count.
LEMMA NewCount ==
  ASSUME NEW c \in Agreements, c.count = 0, c.at # "start" => c.index \in Indexes, check' = c
  PROVE  check' \in {NoCheck} \cup Agreements /\ CountInv'
  BY DEF CountInv

\* No check is running.
LEMMA NoCount ==
  ASSUME check' = NoCheck
  PROVE  check' \in {NoCheck} \cup Agreements /\ CountInv'
  BY CheckKinds, Zenon DEF CountInv

\* Every step of one and wait.
AgreementStep ==
  \/ \E cmd \in Commands, n \in 1 .. N : one(cmd, n)
  \/ \E k \in Indexes, n \in 1 .. N : wait(k, n)
  \/ StartCommand \/ Count \/ OneReturns \/ OneGoesOn \/ WaitGoesOn \/ WaitReturns

\* nCommitted looks at the next server.
LEMMA CountServer ==
  ASSUME CfgTypes, ApplierInv, CheckTypes, CountInv, Count
  PROVE  /\ check' \in {NoCheck} \cup Agreements /\ CountInv'
         /\ honest => alarm' = alarm
<1> USE RaftChecksAssumption
<1> DEFINE found == logs[check.i][check.index]
<1>1. check \in Agreements /\ check.at # "start" /\ check.i < N /\ check.kind \in {"one", "wait"}
  BY CheckKinds, ZenonT(60) DEF Count, CheckTypes, ProbeKinds
<1>2. check.i \in Peers /\ check.index \in Indexes /\ check.count \in Nat
  BY <1>1, SMTT(60) DEF Agreements, CountInv, Peers
<1>3. found \in Commands \cup {None}
  BY <1>2, SMTT(60) DEF CfgTypes, Logs
<1>4. honest /\ found # None => check.index \in 1 .. Len(decided) /\ found = decided[check.index]
  BY <1>2, SMTT(60) DEF ApplierInv, DataInv, Right, Indexes, CfgTypes
<1>5. UNCHANGED <<honest, decided>>
  BY Zenon DEF Count, Goon, Fail, Keep, raftVars
<1>6. CASE found = None
  <2>1. check' = [check EXCEPT !.i = check.i + 1] /\ alarm' = alarm
    BY <1>6, Zenon DEF Count, Goon
  <2>2. /\ check' \in Agreements
        /\ check'.index = check.index /\ check'.count = check.count /\ check'.cmd1 = check.cmd1
    BY <1>1, <1>2, <2>1, SMTT(60) DEF Agreements
  <2> QED
    BY <1>1, <1>2, <1>5, <2>1, <2>2, Zenon DEF CountInv
<1>7. CASE found # None /\ check.count > 0 /\ check.cmd1 # found
  <2>1. check' = NoCheck
    BY <1>7, ZenonT(60) DEF Count, Fail
  <2>2. ~honest
    BY <1>1, <1>4, <1>7, Zenon DEF CountInv
  <2> QED
    BY <2>1, <2>2, NoCount, Zenon
<1>8. CASE found # None /\ ~(check.count > 0 /\ check.cmd1 # found)
  <2>1. check' = [check EXCEPT !.i = check.i + 1, !.count = check.count + 1, !.cmd1 = found] /\ alarm' = alarm
    BY <1>8, ZenonT(60) DEF Count, Goon
  <2> HIDE DEF found
  <2>2. /\ check' \in Agreements
        /\ check'.index = check.index /\ check'.cmd1 = found
    <3> DEFINE d == [kind |-> check.kind, at |-> check.at, cmd |-> check.cmd, index |-> check.index,
                     expected |-> check.expected, i |-> check.i + 1, count |-> check.count + 1, cmd1 |-> found]
    <3>1. check' = d
      BY <1>1, <2>1, Zenon DEF Agreements
    <3>2. check.i + 1 \in 0 .. N
      BY <1>2 DEF Peers
    <3>3. d \in Agreements
      BY <1>1, <1>2, <1>3, <3>2 DEF Agreements
    <3> QED
      BY <3>1, <3>3, Zenon
  <2> QED
    BY <1>2, <1>4, <1>5, <1>8, <2>1, <2>2, Zenon DEF CountInv
<1> QED
  BY <1>6, <1>7, <1>8, Zenon

\* one and wait count the decided command only, if Raft is right.
LEMMA AgreementRight ==
  ASSUME CfgTypes, ApplierInv, CheckTypes, CountInv, AgreementStep
  PROVE  /\ check' \in {NoCheck} \cup Agreements /\ CountInv'
         /\ honest => alarm' \in {alarm, "no agreement", "not enough decided"}
<1> USE RaftChecksAssumption
<1>1. ASSUME check.kind \in {"one", "wait"} PROVE check \in Agreements
  BY <1>1, CheckKinds, Zenon DEF CheckTypes, ProbeKinds
<1>2. ASSUME NEW cmd \in Commands, NEW n \in 1 .. N, one(cmd, n)
      PROVE  check' \in {NoCheck} \cup Agreements /\ CountInv' /\ alarm' = alarm
  <2> DEFINE c == Agreement("one", "start", cmd, 0, n)
  <2>1. check' = c /\ alarm' = alarm
    BY <1>2, Zenon DEF one, BeginCheck
  <2>2. c \in Agreements /\ c.count = 0 /\ c.at = "start"
    BY DEF Agreement, Agreements
  <2> QED
    BY <2>1, <2>2, NewCount, Zenon
<1>3. ASSUME NEW k \in Indexes, NEW n \in 1 .. N, wait(k, n)
      PROVE  check' \in {NoCheck} \cup Agreements /\ CountInv' /\ alarm' = alarm
  <2> DEFINE c == Agreement("wait", "count", None, k, n)
  <2>1. check' = c /\ alarm' = alarm
    BY <1>3, Zenon DEF wait, BeginCheck
  <2>2. c \in Agreements /\ c.count = 0 /\ c.index = k
    BY DEF Agreement, Agreements, Indexes
  <2> QED
    BY <2>1, <2>2, NewCount, Zenon
<1>4. CASE StartCommand
  <2>1. check \in Agreements
    BY <1>1, <1>4, Zenon DEF StartCommand
  <2>2. ASSUME NEW k \in Indexes, Goon(nCommitted([check EXCEPT !.index = k]))
        PROVE  check' \in {NoCheck} \cup Agreements /\ CountInv' /\ alarm' = alarm
    <3>0. k \in 0 .. MaxIndex
      BY DEF Indexes
    <3>1. [check EXCEPT !.index = k] \in Agreements /\ [check EXCEPT !.index = k].index = k
      BY <2>1, <3>0, Zenon DEF Agreements
    <3> QED
      BY <2>2, <3>1, CountTypes, NewCount, Zenon DEF Goon
  <2>3. CASE Fail("no agreement")
    BY <2>3, NoCount, ZenonT(60) DEF Fail
  <2> QED
    BY <1>4, <2>2, <2>3, Zenon DEF StartCommand
<1>5. CASE Count
  BY <1>5, CountServer, ZenonT(60)
<1>6. ASSUME check \in Agreements, check.at # "start", Goon(nCommitted(check))
      PROVE  check' \in {NoCheck} \cup Agreements /\ CountInv' /\ alarm' = alarm
  BY <1>6, CountTypes, NewCount, Zenon DEF Goon, CountInv
<1>7. ASSUME check' = NoCheck, alarm' \in {alarm, "no agreement", "not enough decided"}
      PROVE  /\ check' \in {NoCheck} \cup Agreements /\ CountInv'
             /\ alarm' \in {alarm, "no agreement", "not enough decided"}
  BY <1>7, NoCount, Zenon
<1>8. CASE OneReturns \/ WaitReturns
  BY <1>7, <1>8, Zenon DEF OneReturns, WaitReturns, Finish, Fail
<1>9. CASE OneGoesOn
  <2>1. check \in Agreements /\ check.at # "start"
    BY <1>1, <1>9, Zenon DEF OneGoesOn, Counted
  <2>2. ASSUME Goon([check EXCEPT !.at = "start"])
        PROVE  check' \in {NoCheck} \cup Agreements /\ CountInv' /\ alarm' = alarm
    <3>1. UNCHANGED <<honest, decided>> /\ check' = [check EXCEPT !.at = "start"] /\ alarm' = alarm
      BY <2>2, Zenon DEF Goon, Keep, raftVars
    <3>2. /\ check' \in Agreements /\ check'.at = "start" /\ check'.index = check.index
          /\ check'.count = check.count /\ check'.cmd1 = check.cmd1
      BY <2>1, <3>1, AgreementTypes, Zenon
    <3> QED
      BY <2>1, <3>1, <3>2, Zenon DEF CountInv
  <2>3. CASE Fail("no agreement")
    BY <1>7, <2>3, Zenon DEF Fail
  <2> QED
    BY <1>6, <1>9, <2>1, <2>2, <2>3, Zenon DEF OneGoesOn
<1>10. CASE WaitGoesOn
  <2>1. check \in Agreements /\ check.at # "start"
    BY <1>1, <1>10, Zenon DEF WaitGoesOn, Counted
  <2>2. ASSUME Goon([nCommitted(check) EXCEPT !.at = "recount"])
        PROVE  check' \in {NoCheck} \cup Agreements /\ CountInv' /\ alarm' = alarm
    <3> DEFINE c == nCommitted(check)
    <3>1. c \in Agreements /\ c.count = 0 /\ c.index \in Indexes
      BY <2>1, CountTypes, Zenon DEF CountInv
    <3> HIDE DEF c
    <3>2. [c EXCEPT !.at = "recount"] \in Agreements /\ [c EXCEPT !.at = "recount"].index = c.index
          /\ [c EXCEPT !.at = "recount"].count = 0
      BY <3>1, AgreementTypes, Zenon
    <3>3. check' = [c EXCEPT !.at = "recount"] /\ alarm' = alarm
      BY <2>2, Zenon DEF Goon, c
    <3> QED
      BY <3>1, <3>2, <3>3, NewCount, Zenon
  <2>3. CASE Finish(NoAnswer)
    BY <1>7, <2>3, Zenon DEF Finish
  <2> QED
    BY <1>6, <1>10, <2>1, <2>2, <2>3, Zenon DEF WaitGoesOn
<1> QED
  BY <1>2, <1>3, <1>4, <1>5, <1>8, <1>9, <1>10, Zenon DEF AgreementStep

----------------------------------------------------------------------------
\* Every step of the checks about terms and leaders.
ProbeStep ==
  \/ \E kind \in {"checkOneLeader", "checkTerms", "checkNoLeader"} : BeginProbe(kind)
  \/ GetState \/ checkOneLeader \/ checkTerms \/ checkNoLeader

\* A probe that has seen nothing yet.
LEMMA NewProbe ==
  ASSUME NEW kind \in ProbeKinds
  PROVE  Probe(kind) \in Probes /\ Probe(kind).leaders = {} /\ Probe(kind).terms = {}
  BY RaftChecksAssumption DEF Probe, Probes

\* A probe goes on to the next server.
LEMMA NextProbe ==
  ASSUME NEW c \in Probes, c.i < N
  PROVE  LET p == [c EXCEPT !.i = @ + 1]
         IN  p \in Probes /\ p.i = c.i + 1 /\ p.leaders = c.leaders /\ p.terms = c.terms /\ p.kind = c.kind
<1>1. c.i + 1 \in 0 .. N
  BY RaftChecksAssumption, SMTT(60) DEF Probes
<1> QED
  BY <1>1, Zenon DEF Probes

\* The check is over.
LEMMA NoProbe ==
  ASSUME LeadersInv, check' = NoCheck, UNCHANGED <<honest, term, leads, won>>
  PROVE  LeadersInv' /\ QuietInv'
  BY CheckKinds, Zenon DEF LeadersInv, QuietInv, Elected

\* A check begins, or begins again.
LEMMA FirstProbe ==
  ASSUME LeadersInv, NEW p \in Probes, p.leaders = {}, p.terms = {}, check' = p,
         UNCHANGED <<honest, term, leads, won, connected>>,
         quiet' => TermsAgree(term)
  PROVE  LeadersInv' /\ QuietInv'
  BY Zenon DEF LeadersInv, QuietInv, Elected, TermsAgree

\* GetState reads the term of the next server.
LEMMA GetStateRight ==
  ASSUME CheckTypes, LeadersInv, QuietInv, GetState
  PROVE  /\ check' \in {NoCheck} \cup Probes /\ LeadersInv' /\ QuietInv'
         /\ alarm' \in {alarm, "expected no leader"}
<1> USE RaftChecksAssumption
<1>1. check \in Probes /\ check.i < N /\ check.i \in Peers
  <2>1. check \in Probes /\ check.i < N
    BY CheckKinds, ZenonT(60) DEF GetState, Probing, CheckTypes
  <2>2. check.i \in 0 .. N
    BY <2>1, Zenon DEF Probes
  <2> QED
    BY <2>1, <2>2 DEF Peers
<1>2. UNCHANGED <<honest, term, leads, won, connected, quiet>>
  BY ZenonT(60) DEF GetState, Goon, Fail, Keep, raftVars, cfgVars
<1> DEFINE i == check.i
           p == [check EXCEPT !.i = @ + 1]
           ts == check.terms \cup {term[i]}
           ls == IF leads[i] THEN check.leaders \cup {<<term[i], i>>} ELSE check.leaders
           q == [p EXCEPT !.terms = ts, !.leaders = ls]
<1>3. ls \in SUBSET (Nat \X Peers) /\ ts \in SUBSET Nat
  BY <1>1 DEF CheckTypes, RaftTermTypes, Probes
<1>4. p \in Probes /\ p.i = i + 1 /\ p.leaders = check.leaders /\ p.terms = check.terms /\ p.kind = check.kind
  BY <1>1, <1>3, NextProbe, Zenon
<1>5. q \in Probes /\ q.i = i + 1 /\ q.leaders = ls /\ q.terms = ts /\ q.kind = check.kind
  <2> DEFINE L == SUBSET (Nat \X Peers)
             T == SUBSET Nat
             P == 0 .. N
             A == [kind : ProbeKinds, i : P, iters : Nat, leaders : L, terms : T]
  <2>1. Probes = A /\ ls \in L /\ ts \in T
    BY <1>3, Zenon DEF Probes
  <2> HIDE DEF ts, ls, p, L, T, P
  <2>2. p \in A
    BY <1>4, <2>1, Zenon
  <2>3. q \in A
    BY <2>1, <2>2, Zenon
  <2>4. q.i = p.i /\ q.leaders = ls /\ q.terms = ts /\ q.kind = p.kind
    BY <2>2, Zenon
  <2> QED
    BY <1>4, <2>1, <2>3, <2>4, Zenon
<1>6. CASE Fail("expected no leader")
  BY <1>2, <1>6, NoProbe, ZenonT(60) DEF Fail
<1>7. CASE ~connected[i] /\ Goon(p)
  <2>1. check' = p /\ alarm' = alarm
    BY <1>7, Zenon DEF Goon
  <2> HIDE DEF p
  <2>2. LeadersInv'
    BY <1>1, <1>2, <1>4, <2>1, Zenon DEF LeadersInv, Elected
  <2>3. QuietInv'
    <3> SUFFICES ASSUME check.kind = "checkTerms", quiet
                 PROVE  TermsAgree(term)' /\ (check'.terms = {} \/ \E t \in Nat : OneTermSeen(t)')
      BY <1>2, <1>4, <2>1, Zenon DEF QuietInv
    <3>1. TermsAgree(term) /\ (check.terms = {} \/ \E t \in Nat : OneTermSeen(t))
      BY <1>1, Zenon DEF QuietInv
    <3>2. TermsAgree(term)'
      BY <1>2, <3>1, Zenon DEF TermsAgree
    <3>3. ASSUME NEW t \in Nat, OneTermSeen(t) PROVE OneTermSeen(t)'
      <4>1. \A a \in Peers : a < i => a < i + 1
        BY <1>1 DEF Peers
      <4> QED
        BY <1>2, <1>4, <2>1, <3>3, <4>1, SMTT(60) DEF OneTermSeen
    <3> QED
      BY <1>4, <2>1, <3>1, <3>2, <3>3, Zenon
  <2> QED
    BY <1>4, <2>1, <2>2, <2>3, Zenon
<1>8. CASE connected[i] /\ Goon(q)
  <2>1. check' = q /\ alarm' = alarm
    BY <1>8, Zenon DEF Goon
  <2> HIDE DEF q
  <2>2. LeadersInv'
    BY <1>1, <1>2, <1>5, <2>1, ZenonT(60) DEF LeadersInv, Elected
  <2>3. QuietInv'
    <3> SUFFICES ASSUME check.kind = "checkTerms", quiet
                 PROVE  TermsAgree(term)' /\ \E t \in Nat : OneTermSeen(t)'
      BY <1>2, <1>5, <2>1, ZenonT(60) DEF QuietInv
    <3>1. TermsAgree(term) /\ (check.terms = {} \/ \E t \in Nat : OneTermSeen(t))
      BY <1>1, Zenon DEF QuietInv
    <3>2. TermsAgree(term)'
      BY <1>2, <3>1, Zenon DEF TermsAgree
    <3>3. \A a \in Peers : a <= i => a < check'.i
      BY <1>1, <1>5, <2>1, SMTT(60) DEF Peers
    <3>4. term[i] \in Nat /\ i <= i
      BY <1>1 DEF CheckTypes, RaftTermTypes, Peers
    <3>5. CASE check.terms = {}
      <4>1. check'.terms = {term[i]}
        BY <1>5, <2>1, <3>5, Zenon
      <4>2. \A j \in Peers : connected[j] => term[j] = term[i]
        BY <1>1, <1>8, <3>1, Zenon DEF TermsAgree
      <4>3. PICK t \in Nat : t = term[i]
        BY <3>4, Zenon
      <4>4. OneTermSeen(t)'
        BY <1>1, <1>2, <1>8, <3>3, <3>4, <4>1, <4>2, <4>3, SMTT(60) DEF OneTermSeen
      <4> QED
        BY <3>2, <4>4, Zenon
    <3>6. ASSUME NEW t \in Nat, OneTermSeen(t) PROVE OneTermSeen(t)'
      <4>1. PICK a \in Peers : /\ connected[a] /\ a < i /\ check.terms = {t}
                              /\ \A j \in Peers : connected[j] /\ j # a => term[j] = t
        BY <3>6, Zenon DEF OneTermSeen
      <4>2. a <= i /\ a # i
        BY <1>1, <4>1, SMTT(60) DEF Peers
      <4>3. check'.terms = {t}
        BY <1>1, <1>5, <1>8, <2>1, <4>1, <4>2, Zenon
      <4> QED
        BY <1>2, <3>3, <4>1, <4>2, <4>3, Zenon DEF OneTermSeen
    <3> QED
      BY <3>1, <3>2, <3>5, <3>6, Zenon
  <2> QED
    BY <1>5, <2>1, <2>2, <2>3, Zenon
<1>9. \/ ~connected[i] /\ Goon(p)
      \/ Fail("expected no leader")
      \/ connected[i] /\ Goon(q)
  BY <1>4, Zenon DEF GetState
<1> QED
  BY <1>6, <1>7, <1>8, <1>9, ZenonT(60)

\* The checks about terms and leaders blame no right Raft.
LEMMA ProbeRight ==
  ASSUME CheckTypes, LeadersInv, QuietInv, ProbeStep
  PROVE  /\ check' \in {NoCheck} \cup Probes /\ LeadersInv' /\ QuietInv' /\ quiet' \in BOOLEAN
         /\ alarm' # alarm =>
              \/ alarm' \in {"expected no leader", "expected one leader, got none"}
              \/ alarm' = "more than one leader" /\ ~honest
              \/ alarm' = "servers disagree on term" /\ ~quiet'
<1> USE RaftChecksAssumption
<1>1. UNCHANGED <<honest, term, leads, won, connected>>
  BY ZenonT(60) DEF ProbeStep, BeginProbe, GetState, checkOneLeader, checkTerms, checkNoLeader, BeginCheck, Goon, Finish,
         Fail, Keep, raftVars, cfgVars
<1>2. quiet' \in BOOLEAN
  <2>1. quiet' = quiet \/ quiet' = TermsAgree(term)
    BY Zenon DEF ProbeStep, BeginProbe, GetState, checkOneLeader, checkTerms, checkNoLeader, BeginCheck, Goon, Finish,
           Fail, Keep
  <2> QED
    BY <2>1, ZenonT(60) DEF CheckTypes, RaftTermTypes, TermsAgree
<1>3. ASSUME NEW kind \in ProbeKinds, BeginProbe(kind)
      PROVE  check' \in Probes /\ LeadersInv' /\ QuietInv' /\ alarm' = alarm
  <2>1. check' = Probe(kind) /\ alarm' = alarm /\ quiet' = TermsAgree(term)
    BY <1>3, Zenon DEF BeginProbe, BeginCheck
  <2>2. Probe(kind) \in Probes /\ Probe(kind).leaders = {} /\ Probe(kind).terms = {}
    BY NewProbe, Zenon
  <2>3. quiet' => TermsAgree(term)
    BY <2>1, Zenon
  <2> QED
    BY <1>1, <2>1, <2>2, <2>3, FirstProbe, Zenon
<1>4. ASSUME check' = NoCheck PROVE check' \in {NoCheck} \cup Probes /\ LeadersInv' /\ QuietInv'
  BY <1>1, <1>4, NoProbe, Zenon
<1>5. CASE checkOneLeader
  <2>1. check \in Probes /\ check.kind = "checkOneLeader"
    BY <1>5, CheckKinds, Zenon DEF checkOneLeader, CheckTypes
  <2>2. TwoLeaders(check.leaders) => ~honest
    <3> SUFFICES ASSUME honest, NEW l \in check.leaders, NEW m \in check.leaders, l[1] = m[1], l[2] # m[2]
                 PROVE  FALSE
      BY Zenon DEF TwoLeaders
    <3>1. Elected(l) /\ Elected(m)
      BY <2>1, Zenon DEF LeadersInv
    <3> DEFINE v == [term |-> l[1], server |-> l[2]]
               w == [term |-> m[1], server |-> m[2]]
    <3>2. v \in won /\ w \in won /\ v.term = l[1] /\ w.term = m[1] /\ v.server = l[2] /\ w.server = m[2]
      BY <3>1, Zenon DEF Elected
    <3> HIDE DEF v, w
    <3> QED
      BY <3>2, Zenon DEF LeadersInv
  <2>3. CASE check' = NoCheck
    BY <1>2, <1>4, <1>5, <2>2, <2>3, Zenon DEF checkOneLeader, Fail, Finish, Goon
  <2>4. CASE Goon([Probe("checkOneLeader") EXCEPT !.iters = check.iters + 1])
    <3> DEFINE p == [Probe("checkOneLeader") EXCEPT !.iters = check.iters + 1]
    <3>1. check.iters + 1 \in Nat
      BY <2>1 DEF Probes
    <3>2. p \in Probes /\ p.leaders = {} /\ p.terms = {} /\ p.kind = "checkOneLeader"
      BY <3>1 DEF Probe, Probes, ProbeKinds
    <3>3. check' = p /\ alarm' = alarm
      BY <2>4, Zenon DEF Goon
    <3> HIDE DEF p
    <3>4. LeadersInv' /\ QuietInv'
      BY <1>1, <3>2, <3>3, Zenon DEF LeadersInv, QuietInv, Elected
    <3> QED
      BY <1>2, <3>2, <3>3, <3>4, Zenon
  <2>5. check' = NoCheck \/ Goon([Probe("checkOneLeader") EXCEPT !.iters = check.iters + 1])
    BY <1>5, Zenon DEF checkOneLeader, Fail, Finish
  <2> QED
    BY <1>2, <2>3, <2>4, <2>5, Zenon
<1>6. CASE checkTerms
  <2>1. check \in Probes /\ check.kind = "checkTerms"
    BY <1>6, CheckKinds, Zenon DEF checkTerms, CheckTypes
  <2>2. check' = NoCheck /\ quiet' = quiet
    BY <1>6, ZenonT(60) DEF checkTerms, Fail, Finish, Keep
  <2>3. quiet => ~\E t, u \in check.terms : t # u
    BY <2>1, Zenon DEF QuietInv, OneTermSeen
  <2> QED
    BY <1>2, <1>4, <1>6, <2>2, <2>3, Zenon DEF checkTerms, Fail, Finish
<1>7. CASE checkNoLeader
  BY <1>2, <1>4, <1>7, Zenon DEF checkNoLeader, Finish
<1> QED
  BY <1>2, <1>3, <1>5, <1>6, <1>7, GetStateRight, Zenon DEF ProbeStep, ProbeKinds

\* A server's term changes.
LEMMA TermChanges ==
  ASSUME CheckTypes, QuietInv, NEW i \in Peers, NEW t \in Nat, t > term[i],
         term' = [term EXCEPT ![i] = t], quiet' = (quiet /\ TermsAgree(term')), UNCHANGED <<check, connected>>
  PROVE  QuietInv'
<1> SUFFICES ASSUME check \in Probes, check.kind = "checkTerms", quiet, TermsAgree(term')
             PROVE  TermsAgree(term)' /\ (check.terms = {} \/ \E u \in Nat : OneTermSeen(u)')
  BY Zenon DEF QuietInv
<1>1. TermsAgree(term) /\ (check.terms = {} \/ \E u \in Nat : OneTermSeen(u))
  BY Zenon DEF QuietInv
<1>2. TermsAgree(term)'
  BY Zenon DEF TermsAgree
<1>3. term'[i] = t /\ t # term[i] /\ \A j \in Peers : j # i => term'[j] = term[j]
  BY DEF CheckTypes, RaftTermTypes
<1>4. ASSUME NEW u \in Nat, OneTermSeen(u) PROVE OneTermSeen(u)'
  <2>1. PICK a \in Peers : /\ connected[a] /\ a < check.i /\ check.terms = {u}
                           /\ \A j \in Peers : connected[j] /\ j # a => term[j] = u
    BY <1>4, Zenon DEF OneTermSeen
  <2>2. ASSUME NEW j \in Peers, connected[j], j # a PROVE term'[j] = u
    <3>1. term[j] = u /\ term[j] = term[a]
      BY <1>1, <2>1, <2>2, Zenon DEF TermsAgree
    <3>2. term'[j] = term'[a]
      BY <2>1, <2>2, Zenon DEF TermsAgree
    <3> QED
      BY <1>3, <2>2, <3>1, <3>2, Zenon
  <2> QED
    BY <2>1, <2>2, Zenon DEF OneTermSeen
<1> QED
  BY <1>1, <1>2, <1>4, Zenon

----------------------------------------------------------------------------
CheckInv == CheckTypes /\ CountInv /\ LeadersInv /\ QuietInv

\* No check is running at first.
LEMMA CheckInit == Init => CheckInv /\ NoFalseAlarm
<1> SUFFICES ASSUME Init PROVE CheckInv /\ NoFalseAlarm
  BY Zenon
<1>1. CheckTypes
  BY Zenon DEF Init, CheckTypes, RaftTermTypes
<1>2. CountInv /\ LeadersInv /\ QuietInv
  BY CheckKinds, Zenon DEF Init, CountInv, LeadersInv, QuietInv
<1>3. NoFalseAlarm
  BY Zenon DEF Init, NoFalseAlarm, Blames
<1> QED
  BY <1>1, <1>2, <1>3, Zenon DEF CheckInv

\* A step that changes nothing that the checks about terms and leaders have seen.
LEMMA LeadersUntouched ==
  ASSUME LeadersInv, QuietInv, UNCHANGED <<honest, term, leads, won, connected, check, quiet>>
  PROVE  LeadersInv' /\ QuietInv'
<1>2. LeadersInv'
  BY Zenon DEF LeadersInv, Elected
<1>3. TermsAgree(term)' <=> TermsAgree(term)
  BY Zenon DEF TermsAgree
<1>4. \A t \in Nat : OneTermSeen(t)' <=> OneTermSeen(t)
  BY Zenon DEF OneTermSeen
<1> QED
  BY <1>2, <1>3, <1>4, ZenonT(60) DEF QuietInv

\* A step outside of the checks that changes neither terms, checks nor
\* connections.
LEMMA CheckUntouched ==
  ASSUME CheckInv, UNCHANGED <<honest, decided, term, leads, won, connected, check, quiet>>
  PROVE  CheckInv'
<1>1. CheckTypes' /\ CountInv'
  BY Zenon DEF CheckInv, CheckTypes, RaftTermTypes, CountInv
<1> QED
  BY <1>1, LeadersUntouched, Zenon DEF CheckInv

\* Servers are only killed, started or connected between checks.
LEMMA ConnectRight ==
  ASSUME CheckInv, Free, connected' \in [Peers -> BOOLEAN],
         UNCHANGED <<honest, decided, term, leads, won, check, quiet>>
  PROVE  CheckInv'
<1>1. CheckTypes' /\ CountInv'
  BY CheckKinds, Zenon DEF CheckInv, CheckTypes, RaftTermTypes, CountInv, Free
<1>2. LeadersInv' /\ QuietInv'
  BY CheckKinds, ZenonT(60) DEF CheckInv, LeadersInv, QuietInv, Elected, Free
<1> QED
  BY <1>1, <1>2, Zenon DEF CheckInv

\* A term is won, or heard of.
LEMMA ElectRight ==
  ASSUME CheckInv, NEW i \in Peers, NEW t \in 1 .. MaxTerm, Elect(i, t) \/ Learn(i, t)
  PROVE  CheckInv'
<1> USE RaftChecksAssumption
<1>1. /\ t \in Nat /\ t > term[i] /\ term' = [term EXCEPT ![i] = t]
      /\ UNCHANGED <<honest, decided, connected, check>>
  BY SMTT(60) DEF Elect, Learn, cfgVars
<1>2. quiet' = (quiet /\ TermsAgree(term'))
  BY Zenon DEF Elect, Learn
<1>3. QuietInv'
  BY <1>1, <1>2, TermChanges, Zenon DEF CheckInv
<1>4. quiet' \in BOOLEAN
  BY <1>2, Zenon
<1>5. CheckTypes'
  <2>1. term' \in [Peers -> Nat]
    BY <1>1, Zenon DEF CheckInv, CheckTypes, RaftTermTypes
  <2>2. leads' \in [Peers -> BOOLEAN]
    BY Zenon DEF Elect, Learn, CheckInv, CheckTypes, RaftTermTypes
  <2>3. won' \in SUBSET [term : Nat, server : Peers]
    BY <1>1 DEF Elect, Learn, CheckInv, CheckTypes, RaftTermTypes
  <2> QED
    BY <1>1, <1>4, <2>1, <2>2, <2>3 DEF CheckInv, CheckTypes, RaftTermTypes
<1>6. CountInv'
  BY <1>1, Zenon DEF CheckInv, CountInv
<1>7. LeadersInv'
  <2>1. term'[i] = t /\ \A j \in Peers : j # i => term'[j] = term[j] /\ leads'[j] = leads[j]
    BY <1>1, Zenon DEF Elect, Learn, CheckInv, CheckTypes, RaftTermTypes
  <2>2. won \subseteq won'
    BY Zenon DEF Elect, Learn
  <2>3. CASE Learn(i, t)
    <3>1. ~leads'[i] /\ won' = won
      BY <2>3, Zenon DEF Learn, CheckInv, CheckTypes, RaftTermTypes
    <3>2. \A j \in Peers : leads'[j] => [term |-> term'[j], server |-> j] \in won'
      BY <2>1, <3>1, Zenon DEF CheckInv, LeadersInv, Elected
    <3>3. honest => \A u, v \in won' : u.term = v.term => u.server = v.server
      BY <3>1, Zenon DEF CheckInv, LeadersInv
    <3>4. check \in Probes => \A l \in check.leaders : [term |-> l[1], server |-> l[2]] \in won'
      BY <3>1, ZenonT(60) DEF CheckInv, LeadersInv, Elected
    <3> QED
      BY <1>1, <3>2, <3>3, <3>4, ZenonT(60) DEF LeadersInv, Elected
  <2>4. CASE Elect(i, t)
    <3> DEFINE w == [term |-> t, server |-> i]
    <3>1. won' = won \cup {w} /\ (honest => \A v \in won : v.term # t) /\ w.term = t /\ w.server = i
      BY <2>4, Zenon DEF Elect
    <3>2. \A j \in Peers : leads'[j] => [term |-> term'[j], server |-> j] \in won'
      BY <2>1, <2>2, <3>1, ZenonT(60) DEF CheckInv, LeadersInv, Elected
    <3> HIDE DEF w
    <3>3. honest => \A u, v \in won' : u.term = v.term => u.server = v.server
      BY <3>1, Zenon DEF CheckInv, LeadersInv
    <3>4. check \in Probes => \A l \in check.leaders : [term |-> l[1], server |-> l[2]] \in won'
      BY <2>2, ZenonT(60) DEF CheckInv, LeadersInv, Elected
    <3> QED
      BY <1>1, <3>2, <3>3, <3>4, Zenon DEF LeadersInv, Elected
  <2> QED
    BY <2>3, <2>4, Zenon
<1> QED
  BY <1>3, <1>5, <1>6, <1>7, Zenon DEF CheckInv

\* The test's own steps.
LEMMA JudgingRight ==
  ASSUME CfgTypes, ApplierInv, CheckInv, NoFalseAlarm, alarm = "none", Judging
  PROVE  CheckInv' /\ NoFalseAlarm'
<1>1. UNCHANGED <<honest, decided, term, leads, won, connected>>
  BY JudgingChangesNothing, Zenon DEF raftVars, cfgVars
<1>2. CASE AgreementStep
  <2>1. /\ check' \in {NoCheck} \cup Agreements /\ CountInv'
        /\ honest => alarm' \in {alarm, "no agreement", "not enough decided"}
    BY <1>2, AgreementRight, Zenon DEF CheckInv
  <2>2. alarm' # "servers disagree on term"
    BY <1>2, ZenonT(60) DEF AgreementStep, one, wait, StartCommand, Count, OneReturns, OneGoesOn, WaitGoesOn, WaitReturns,
                BeginCheck, Goon, Finish, Fail
  <2>3. quiet' \in BOOLEAN
    <3>1. quiet' = quiet \/ quiet' = TermsAgree(term)
      BY <1>2, Zenon DEF AgreementStep, one, wait, StartCommand, Count, OneReturns, OneGoesOn, WaitGoesOn, WaitReturns,
                  BeginCheck, Goon, Finish, Fail, Keep
    <3> QED
      BY <3>1, ZenonT(60) DEF CheckInv, CheckTypes, RaftTermTypes, TermsAgree
  <2>4. CheckTypes'
    BY <1>1, <2>1, <2>3, Zenon DEF CheckInv, CheckTypes, RaftTermTypes
  <2>5. LeadersInv' /\ QuietInv'
    BY <1>1, <2>1, CheckKinds, Zenon DEF CheckInv, LeadersInv, QuietInv, Elected
  <2>6. NoFalseAlarm'
    BY <1>1, <2>1, <2>2, Zenon DEF NoFalseAlarm, Blames
  <2> QED
    BY <2>1, <2>4, <2>5, <2>6, Zenon DEF CheckInv
<1>3. CASE ProbeStep
  <2>1. /\ check' \in {NoCheck} \cup Probes /\ LeadersInv' /\ QuietInv' /\ quiet' \in BOOLEAN
        /\ alarm' # alarm =>
             \/ alarm' \in {"expected no leader", "expected one leader, got none"}
             \/ alarm' = "more than one leader" /\ ~honest
             \/ alarm' = "servers disagree on term" /\ ~quiet'
    BY <1>3, ProbeRight, Zenon DEF CheckInv
  <2>2. CheckTypes'
    BY <1>1, <2>1, Zenon DEF CheckInv, CheckTypes, RaftTermTypes
  <2>3. CountInv'
    BY <2>1, CheckKinds, Zenon DEF CountInv
  <2>4. NoFalseAlarm'
    BY <1>1, <2>1, Zenon DEF NoFalseAlarm, Blames
  <2> QED
    BY <2>1, <2>2, <2>3, <2>4, Zenon DEF CheckInv
<1> QED
  BY <1>2, <1>3, Zenon DEF Judging, AgreementStep, ProbeStep

\* Every step keeps the checks right, and raises no false alarm.
LEMMA CheckStep ==
  CfgTypes /\ PlainInv /\ ApplierInv /\ CheckInv /\ NoFalseAlarm /\ [Next]_vars => CheckInv' /\ NoFalseAlarm'
<1> SUFFICES ASSUME CfgTypes, PlainInv, ApplierInv, CheckInv, NoFalseAlarm, [Next]_vars
             PROVE  CheckInv' /\ NoFalseAlarm'
  BY Zenon
<1>1. CASE UNCHANGED vars
  <2>1. UNCHANGED <<honest, decided, term, leads, won, connected, check, quiet, alarm>>
    BY <1>1, Zenon DEF vars, raftVars, cfgVars, testVars
  <2> QED
    BY <2>1, CheckUntouched, Zenon DEF NoFalseAlarm
<1>2. CASE Next
  <2>1. alarm = "none"
    BY <1>2, Zenon DEF Next
  <2>2. ASSUME honest => UNCHANGED alarm, alarm' # "servers disagree on term", UNCHANGED honest
        PROVE  NoFalseAlarm'
    BY <2>1, <2>2, Zenon DEF NoFalseAlarm, Blames
  <2>3. ASSUME NEW c \in Commands, Decide(c) PROVE CheckInv' /\ NoFalseAlarm'
    <3>1. UNCHANGED <<honest, term, leads, won, connected, check, quiet, alarm>>
      BY <2>3, Zenon DEF Decide, cfgVars, testVars
    <3>2. /\ Len(decided) \in Nat /\ Len(decided') = Len(decided) + 1
          /\ \A k \in 1 .. Len(decided) : decided'[k] = decided[k]
      BY <2>3, SMTT(60) DEF Decide, CfgTypes
    <3>3. CountInv'
      BY <3>1, <3>2, SMTT(60) DEF CheckInv, CountInv
    <3>4. CheckTypes'
      BY <3>1, Zenon DEF CheckInv, CheckTypes, RaftTermTypes
    <3>5. LeadersInv' /\ QuietInv'
      BY <3>1, LeadersUntouched, Zenon DEF CheckInv
    <3> QED
      BY <2>1, <2>2, <3>1, <3>3, <3>4, <3>5 DEF CheckInv
  <2>4. ASSUME NEW i \in Peers, NEW t \in 1 .. MaxTerm, Elect(i, t) \/ Learn(i, t)
        PROVE  CheckInv' /\ NoFalseAlarm'
    BY <2>1, <2>2, <2>4, ElectRight, ZenonT(60) DEF Elect, Learn
  <2>5. ASSUME \/ UNCHANGED <<raftVars, connected, testVars>>
               \/ UNCHANGED <<honest, decided, term, leads, won, connected, testVars>>
        PROVE  CheckInv'
    BY <2>5, CheckUntouched, Zenon DEF raftVars, testVars
  <2>6. ASSUME NEW x \in Instances, NEW k \in Indexes,
               (\E c \in Commands : ApplyCommand(x, k, c)) \/ (\E j \in Peers : ApplySnapshot(x, saved[j], k))
        PROVE  CheckInv' /\ NoFalseAlarm'
    BY <2>1, <2>2, <2>5, <2>6, ZenonT(60) DEF ApplyCommand, ApplySnapshot, cfgVars
  <2>7. ASSUME NEW x \in Instances, Applier(x) PROVE CheckInv' /\ NoFalseAlarm'
    <3>1. UNCHANGED <<raftVars, connected, testVars>>
      BY <2>7, Zenon DEF Applier
    <3>2. alarm' # "servers disagree on term"
      BY <2>1, <2>7, FaultTypes, Zenon DEF Applier, Fatal, Errors
    <3>3. honest => UNCHANGED alarm
      BY <2>7, ApplierRight, Zenon
    <3> QED
      BY <2>2, <2>5, <3>1, <3>2, <3>3, Zenon DEF raftVars
  <2>8. ASSUME NEW x \in Instances, IngestSnap(x) \/ Advance(x) \/ TakeSnapshot(x)
        PROVE  CheckInv' /\ NoFalseAlarm'
    <3>1. UNCHANGED <<raftVars, connected, testVars>>
      BY <2>8, ZenonT(60) DEF IngestSnap, Advance, TakeSnapshot
    <3>2. UNCHANGED alarm
      BY <2>8, IngestRight, AdvanceRight, TakeRight, Zenon
    <3> QED
      BY <2>1, <2>2, <2>5, <3>1, <3>2, Zenon DEF raftVars
  <2>9. ASSUME NEW x \in Instances, ReadLastApplied(x) \/ CheckLogs(x) PROVE CheckInv' /\ NoFalseAlarm'
    <3>1. UNCHANGED <<raftVars, connected, testVars, alarm>>
      BY <2>9, Zenon DEF ReadLastApplied, CheckLogs, cfgVars
    <3> QED
      BY <2>1, <2>2, <2>5, <3>1 DEF raftVars
  <2>10. ASSUME NEW i \in Peers, crash1(i) \/ start1(i) \/ \E yes \in BOOLEAN : connect(i, yes)
         PROVE  CheckInv' /\ NoFalseAlarm'
    <3>1. Free /\ UNCHANGED <<honest, decided, term, leads, won, check, quiet, alarm>>
      BY <2>10, ZenonT(60) DEF crash1, start1, connect, raftVars, testVars
    <3>2. connected' \in [Peers -> BOOLEAN]
      BY <2>10, CfgStep, Zenon DEF CfgTypes
    <3> QED
      BY <2>1, <2>2, <3>1, <3>2, ConnectRight, Zenon
  <2>11. CASE Judging
    BY <2>1, <2>11, JudgingRight, Zenon
  <2> QED
    BY <1>2, <2>3, <2>4, <2>6, <2>7, <2>8, <2>9, <2>10, <2>11, NextCases
<1> QED
  BY <1>1, <1>2, Zenon

\* The checks are right in every state.
LEMMA ChecksCorrect ==
  ASSUME ~BusyRestarts
  PROVE  Spec => [](CheckInv /\ NoFalseAlarm)
<1>1. Init => CheckInv /\ NoFalseAlarm
  BY CheckInit, Zenon
<1>2. CfgTypes /\ PlainInv /\ ApplierInv /\ CheckInv /\ NoFalseAlarm /\ [Next]_vars => CheckInv' /\ NoFalseAlarm'
  BY CheckStep, Zenon
<1> QED
  BY <1>1, <1>2, CfgCorrect, AppliersCorrect, PTL DEF Spec

\* If a server whose applierSnap is busy is not restarted, the harness never
\* blames a right Raft: no applier and no check reports a fault, however the
\* appliers, the restarts and the checks interleave; and checkTerms reports a
\* disagreement only if the connected servers did disagree during the check.
THEOREM RightRaftNotBlamed ==
  ASSUME ~BusyRestarts
  PROVE  Spec => []NoFalseAlarm
  BY ChecksCorrect, PTL

----------------------------------------------------------------------------
\* What one and wait count.

\* The servers that nCommitted has found to have the command.
Having == {i \in Peers : i < check.i /\ logs[i][check.index] = check.cmd1}

\* They still have it while nCommitted goes on to the next ones.
CountedInv ==
  check \in Agreements /\ check.at # "start" /\ alarm = "none" =>
    /\ check.count <= Cardinality(Having)
    /\ check.count > 0 => check.cmd1 # None

fs == INSTANCE FiniteSetTheorems

\* The theorems about finite sets are about the operators that the checks use.
LEMMA SameOperators ==
  ASSUME NEW S
  PROVE  /\ IsFiniteSet(S) <=> fs!IsFiniteSet(S)
         /\ Cardinality(S) = fs!Cardinality(S)
<1>1. IsFiniteSet(S) <=> fs!IsFiniteSet(S)
  BY Zenon DEF IsFiniteSet, fs!IsFiniteSet
<1>2. Cardinality(S) = fs!Cardinality(S)
  BY Zenon DEF Cardinality, fs!Cardinality
<1> QED
  BY <1>1, <1>2

\* A set of servers is finite.
LEMMA ServersFinite ==
  ASSUME NEW S \in SUBSET Peers
  PROVE  /\ IsFiniteSet(S) /\ Cardinality(S) \in Nat
         /\ \A T \in SUBSET S : Cardinality(T) \in Nat /\ Cardinality(T) <= Cardinality(S)
<1>1. fs!IsFiniteSet(Peers)
  <2>1. 0 \in Int /\ N - 1 \in Int
    BY RaftChecksAssumption, SMT
  <2> QED
    BY <2>1, fs!FS_Interval, Zenon DEF Peers
<1>2. fs!IsFiniteSet(S)
  BY <1>1, fs!FS_Subset, Zenon
<1>3. IsFiniteSet(S) /\ Cardinality(S) \in Nat
  BY <1>2, fs!FS_CardinalityType, SameOperators
<1>4. ASSUME NEW T \in SUBSET S PROVE Cardinality(T) \in Nat /\ Cardinality(T) <= Cardinality(S)
  <2>1. fs!Cardinality(T) \in Nat /\ fs!Cardinality(T) <= fs!Cardinality(S)
    BY <1>2, fs!FS_Subset, fs!FS_CardinalityType, Zenon
  <2> QED
    BY <2>1, SameOperators
<1> QED
  BY <1>3, <1>4

\* The size of a set with one more element, and of one alone.
LEMMA OneMore ==
  ASSUME NEW S, NEW x, IsFiniteSet(S)
  PROVE  Cardinality(S \cup {x}) = IF x \in S THEN Cardinality(S) ELSE Cardinality(S) + 1
<1>1. fs!Cardinality(S \cup {x}) = IF x \in S THEN fs!Cardinality(S) ELSE fs!Cardinality(S) + 1
  <2>1. fs!IsFiniteSet(S)
    BY SameOperators
  <2> QED
    BY <2>1, fs!FS_AddElement, Zenon
<1> QED
  BY <1>1, SameOperators

LEMMA OneAlone ==
  ASSUME NEW x
  PROVE  Cardinality({x}) = 1
<1>1. fs!Cardinality({x}) = 1
  BY fs!FS_Singleton, Zenon
<1> QED
  BY <1>1, SameOperators

\* A step of one or wait looks at a server, or begins to count, or is not counting.
LEMMA AgreementMoves ==
  ASSUME CheckTypes, AgreementStep
  PROVE  Count \/ check' \notin Agreements \/ check'.at = "start" \/ check'.count = 0
<1> DEFINE Moved == check' \notin Agreements \/ check'.at = "start" \/ check'.count = 0
<1>1. ASSUME check.kind \in {"one", "wait"} PROVE check \in Agreements
  BY <1>1, CheckKinds, Zenon DEF CheckTypes, ProbeKinds
<1>2. ASSUME NEW cmd \in Commands, NEW n \in 1 .. N, one(cmd, n) PROVE Moved
  BY <1>2, Zenon DEF one, BeginCheck, Agreement
<1>3. ASSUME NEW k \in Indexes, NEW n \in 1 .. N, wait(k, n) PROVE Moved
  BY <1>3, Zenon DEF wait, BeginCheck, Agreement
<1>4. ASSUME check' = NoCheck PROVE Moved
  BY <1>4, CheckKinds, Zenon
<1>5. ASSUME NEW c \in Agreements, check' = nCommitted(c) PROVE Moved
  BY <1>5, CountTypes, Zenon
<1>6. CASE StartCommand
  <2>1. check \in Agreements
    BY <1>1, <1>6, Zenon DEF StartCommand
  <2>2. ASSUME NEW k \in Indexes, Goon(nCommitted([check EXCEPT !.index = k])) PROVE Moved
    <3>1. k \in 0 .. MaxIndex
      BY RaftChecksAssumption, SMT DEF Indexes
    <3>2. [check EXCEPT !.index = k] \in Agreements
      BY <2>1, <3>1, Zenon DEF Agreements
    <3> QED
      BY <1>5, <2>2, <3>2, Zenon DEF Goon
  <2> QED
    BY <1>4, <1>6, <2>2, Zenon DEF StartCommand, Fail
<1>7. CASE OneReturns \/ WaitReturns
  BY <1>4, <1>7, Zenon DEF OneReturns, WaitReturns, Finish, Fail
<1>8. CASE OneGoesOn
  <2>1. check \in Agreements
    BY <1>1, <1>8, Zenon DEF OneGoesOn, Counted
  <2>2. [check EXCEPT !.at = "start"].at = "start"
    BY <2>1, AgreementTypes, Zenon
  <2> QED
    BY <1>4, <1>5, <1>8, <2>1, <2>2, Zenon DEF OneGoesOn, Goon, Fail
<1>9. CASE WaitGoesOn
  <2> DEFINE c == nCommitted(check)
  <2>1. check \in Agreements
    BY <1>1, <1>9, Zenon DEF WaitGoesOn, Counted
  <2>2. c \in Agreements /\ c.count = 0
    BY <2>1, CountTypes, Zenon
  <2>3. check' \in {NoCheck, c, [c EXCEPT !.at = "recount"]}
    BY <1>9, Zenon DEF WaitGoesOn, Goon, Finish
  <2> HIDE DEF c
  <2>4. [c EXCEPT !.at = "recount"].count = 0
    BY <2>2, AgreementTypes, Zenon
  <2> QED
    BY <1>4, <2>2, <2>3, <2>4, Zenon
<1> QED
  BY <1>2, <1>3, <1>6, <1>7, <1>8, <1>9, Zenon DEF AgreementStep

\* Of all steps only those of one and wait change what they have counted.
LEMMA CountMoves ==
  ASSUME CheckTypes, [Next]_vars
  PROVE  \/ Count \/ check' = check
         \/ check' \notin Agreements \/ check'.at = "start" \/ check'.count = 0
<1>1. CASE AgreementStep
  BY <1>1, AgreementMoves, Zenon
<1>2. ASSUME NEW kind \in ProbeKinds, BeginProbe(kind) PROVE check' \notin Agreements
  <2>1. check'.kind \in ProbeKinds
    BY <1>2, Zenon DEF BeginProbe, BeginCheck, Probe
  <2> QED
    BY <2>1, CheckKinds, Zenon DEF ProbeKinds
<1>3. CASE GetState \/ checkOneLeader \/ checkTerms \/ checkNoLeader
  <2>1. check \in Probes
    BY <1>3, CheckKinds, ZenonT(60) DEF GetState, checkOneLeader, checkTerms, checkNoLeader, Probing, CheckTypes, ProbeKinds
  <2>2. \/ check' = NoCheck
        \/ check'.kind \in ProbeKinds
    <3>1. CASE GetState
      <4> DEFINE next == [check EXCEPT !.i = check.i + 1]
      <4>1. next.kind = check.kind
        BY <2>1, Zenon DEF Probes
      <4>2. \/ check' = NoCheck \/ check' = next
            \/ \E t, l : check' = [next EXCEPT !.terms = t, !.leaders = l]
        BY <3>1, Zenon DEF GetState, Goon, Fail
      <4>3. \A t, l : [next EXCEPT !.terms = t, !.leaders = l].kind = check.kind
        <5>1. next \in [kind : ProbeKinds, i : Nat, iters : Nat, leaders : SUBSET (Nat \X Peers), terms : SUBSET Nat]
          BY <2>1, RaftChecksAssumption, SMT DEF Probes
        <5> HIDE DEF next
        <5> QED
          BY <4>1, <5>1, Zenon
      <4> HIDE DEF next
      <4>4. check.kind \in ProbeKinds
        BY <2>1, CheckKinds, Zenon
      <4>5. ASSUME NEW t, NEW l, check' = [next EXCEPT !.terms = t, !.leaders = l] PROVE check'.kind = check.kind
        BY <4>3, <4>5, Zenon
      <4>6. CASE check' = next
        BY <4>1, <4>4, <4>6, Zenon
      <4> QED
        BY <4>2, <4>4, <4>5, <4>6, Zenon
    <3>2. CASE checkOneLeader
      <4>1. check' = NoCheck \/ check' = [Probe("checkOneLeader") EXCEPT !.iters = check.iters + 1]
        BY <3>2, Zenon DEF checkOneLeader, Goon, Finish, Fail
      <4>2. [Probe("checkOneLeader") EXCEPT !.iters = check.iters + 1].kind = "checkOneLeader"
        BY Zenon DEF Probe
      <4> QED
        BY <4>1, <4>2, Zenon DEF ProbeKinds
    <3> QED
      BY <1>3, <3>1, <3>2, Zenon DEF checkTerms, checkNoLeader, Finish, Fail
  <2> QED
    BY <2>2, CheckKinds, Zenon DEF ProbeKinds
<1>4. CASE Judging
  BY <1>1, <1>2, <1>3, <1>4, Zenon DEF Judging, AgreementStep, ProbeKinds
<1>5. CASE UNCHANGED vars
  BY <1>5, Zenon DEF vars, testVars
<1>6. CASE Next
  BY <1>4, <1>6, NextCases, ZenonT(60)
     DEF Decide, ApplyCommand, ApplySnapshot, Elect, Learn, Applier, IngestSnap, ReadLastApplied, CheckLogs,
         Advance, TakeSnapshot, crash1, start1, connect, testVars
<1> QED
  BY <1>5, <1>6, Zenon

\* What nCommitted has counted is there, also if a server applies in between.
LEMMA CountedStep ==
  CfgTypes /\ PlainInv /\ ApplierInv /\ GrowInv /\ CheckInv /\ CountedInv /\ [Next]_vars => CountedInv'
<1> SUFFICES ASSUME CfgTypes, PlainInv, ApplierInv, GrowInv, CheckInv, CountedInv, [Next]_vars,
                    check' \in Agreements, check'.at # "start", alarm' = "none"
             PROVE  check'.count <= Cardinality(Having') /\ (check'.count > 0 => check'.cmd1 # None)
  BY Zenon DEF CountedInv
<1> USE RaftChecksAssumption
<1>1. CheckTypes /\ CountInv /\ alarm = "none"
  BY NextCases, Zenon DEF CheckInv, vars
<1>2. Having' \in SUBSET Peers
  BY Zenon DEF Having
<1>3. IsFiniteSet(Having') /\ Cardinality(Having') \in Nat
  BY <1>2, ServersFinite, Zenon
<1>4. \A T \in SUBSET Having' : Cardinality(T) \in Nat /\ Cardinality(T) <= Cardinality(Having')
  BY <1>2, ServersFinite, Zenon
<1>5. CASE check'.count = 0
  BY <1>3, <1>5, SMT
<1>6. CASE check' = check /\ check.count # 0
  <2>1. check \in Agreements /\ check.at # "start"
    BY <1>6, Zenon
  <2>2. check.count <= Cardinality(Having) /\ check.count \in Nat /\ check.index \in Indexes
    BY <1>1, <2>1, Zenon DEF CountedInv, CountInv, Agreements
  <2>3. check.cmd1 # None
    <3>1. check.count > 0
      BY <1>6, <2>2, SMT
    <3> QED
      BY <1>1, <2>1, <3>1, Zenon DEF CountedInv
  <2>4. ~Free
    BY <2>1, CheckKinds, Zenon DEF Free
  <2>5. \A i \in Peers, k \in Indexes : logs[i][k] \in {None, logs'[i][k]}
    BY <2>4, LogsKept, Zenon
  <2>6. Having \in SUBSET Having'
    BY <1>6, <2>2, <2>3, <2>5, Zenon DEF Having
  <2>7. Cardinality(Having) \in Nat /\ Cardinality(Having) <= Cardinality(Having')
    BY <1>4, <2>6, Zenon
  <2> QED
    BY <1>3, <1>6, <2>2, <2>3, <2>7, SMT
<1>7. CASE Count
  <2> DEFINE found == logs[check.i][check.index]
  <2>1. check \in Agreements /\ check.at # "start" /\ check.i < N /\ check.kind \in {"one", "wait"}
    BY <1>1, <1>7, CheckKinds, ZenonT(60) DEF Count, CheckTypes, ProbeKinds
  <2>2. check.i \in Peers /\ check.index \in Indexes /\ check.count \in Nat
    BY <1>1, <2>1, SMTT(60) DEF Agreements, CountInv, Peers
  <2>3. logs' = logs
    BY <1>7, Zenon DEF Count, Goon, Fail, Keep, cfgVars
  <2>4. check.count <= Cardinality(Having) /\ (check.count > 0 => check.cmd1 # None)
    BY <1>1, <2>1, Zenon DEF CountedInv
  <2>5. Having \in SUBSET Peers
    BY Zenon DEF Having
  <2>6. IsFiniteSet(Having) /\ Cardinality(Having) \in Nat
    BY <2>5, ServersFinite, Zenon
  <2>7. \A j \in Peers : j < check.i => j < check.i + 1
    BY <2>2, SMT DEF Peers
  <2>8. CASE found = None
    <3>1. check' = [check EXCEPT !.i = check.i + 1]
      BY <1>7, <2>8, Zenon DEF Count, Goon
    <3>2. /\ check'.index = check.index /\ check'.count = check.count /\ check'.cmd1 = check.cmd1
          /\ check'.i = check.i + 1
      BY <2>1, <3>1, Zenon DEF Agreements
    <3>3. Having \in SUBSET Having'
      BY <2>3, <2>7, <3>2, Zenon DEF Having
    <3>4. Cardinality(Having) <= Cardinality(Having')
      BY <1>4, <3>3, Zenon
    <3> QED
      BY <1>3, <2>2, <2>4, <2>6, <3>2, <3>4, SMT
  <2>9. CASE found # None /\ check.count > 0 /\ check.cmd1 # found
    <3>1. check' = NoCheck
      BY <1>7, <2>9, ZenonT(60) DEF Count, Fail
    <3> QED
      BY <3>1, CheckKinds, Zenon
  <2>10. CASE found # None /\ ~(check.count > 0 /\ check.cmd1 # found)
    <3>1. check' = [check EXCEPT !.i = check.i + 1, !.count = check.count + 1, !.cmd1 = found]
      BY <1>7, <2>10, ZenonT(60) DEF Count, Goon
    <3> HIDE DEF found
    <3>2. /\ check'.index = check.index /\ check'.count = check.count + 1 /\ check'.cmd1 = found
          /\ check'.i = check.i + 1
      BY <2>1, <3>1, Zenon DEF Agreements
    <3>3. check.i \in Having'
      <4>1. check.i < check.i + 1
        BY <2>2, SMT DEF Peers
      <4> QED
        BY <2>2, <2>3, <3>2, <4>1, Zenon DEF Having, found
    <3>4. check.i \notin Having
      <4>1. ~(check.i < check.i)
        BY <2>2, SMT DEF Peers
      <4> QED
        BY <4>1, Zenon DEF Having
    <3>5. CASE check.count > 0
      <4>1. check.cmd1 = found
        BY <2>10, <3>5, Zenon
      <4>2. Having \in SUBSET Having'
        BY <2>3, <2>7, <3>2, <4>1, Zenon DEF Having
      <4>3. Having \cup {check.i} \in SUBSET Having'
        BY <3>3, <4>2, Zenon
      <4>4. Cardinality(Having \cup {check.i}) = Cardinality(Having) + 1
        BY <2>6, <3>4, OneMore, Zenon
      <4>5. Cardinality(Having) + 1 <= Cardinality(Having')
        BY <1>4, <4>3, <4>4, Zenon
      <4> QED
        BY <1>3, <2>2, <2>4, <2>6, <2>10, <3>2, <4>5, SMT
    <3>6. CASE ~(check.count > 0)
      <4>1. {check.i} \in SUBSET Having'
        BY <3>3, Zenon
      <4>2. Cardinality({check.i}) = 1
        BY OneAlone, Zenon
      <4>3. 1 <= Cardinality(Having')
        BY <1>4, <4>1, <4>2, Zenon
      <4>4. check'.count = 1
        BY <2>2, <3>2, <3>6, SMT
      <4> QED
        BY <2>10, <3>2, <4>3, <4>4, Zenon
    <3> QED
      BY <3>5, <3>6, Zenon
  <2> QED
    BY <2>8, <2>9, <2>10, Zenon
<1> QED
  BY <1>1, <1>5, <1>6, <1>7, CountMoves, Zenon

\* Only one and wait return an answer of their own, when enough were counted.
LEMMA AnswerStep ==
  ASSUME [Next]_vars, answer' # answer, answer'.kind \in {"one", "wait"}
  PROVE  /\ alarm = "none" /\ logs' = logs /\ check.kind \in {"one", "wait"} /\ check.at # "start" /\ Enough
         /\ answer'.index = check.index /\ answer'.cmd = check.cmd1 /\ answer'.expected = check.expected
<1>1. Next /\ alarm = "none"
  BY NextCases, Zenon DEF vars, testVars
<1>2. NoAnswer.kind = "none"
  BY Zenon DEF NoAnswer
<1>3. CASE OneReturns
  BY <1>1, <1>3, Zenon DEF OneReturns, Finish, Counted, Keep, cfgVars
<1>4. CASE WaitReturns
  <2>1. Enough
    BY <1>4, Zenon DEF WaitReturns, Fail
  <2>2. /\ Counted("wait", "recount")
        /\ Finish([kind |-> "wait", index |-> check.index, cmd |-> check.cmd1, expected |-> check.expected])
    BY <1>4, <2>1, Zenon DEF WaitReturns
  <2> QED
    BY <1>1, <2>1, <2>2, Zenon DEF Finish, Counted, Keep, cfgVars
<1>5. ASSUME answer' \in {answer, NoAnswer} PROVE FALSE
  BY <1>2, <1>5, Zenon
<1>6. CASE AgreementStep /\ ~OneReturns /\ ~WaitReturns
  BY <1>5, <1>6, ZenonT(60)
     DEF AgreementStep, one, wait, BeginCheck, StartCommand, Count, OneGoesOn, WaitGoesOn, Goon, Finish, Fail
<1>7. CASE checkOneLeader
  <2> DEFINE last == CHOOSE l \in check.leaders : \A m \in check.leaders : m[1] <= l[1]
  <2>1. ~Fail("more than one leader") /\ ~Fail("expected one leader, got none") /\ ~(\E c : Goon(c))
    BY Zenon DEF Fail, Goon
  <2>2. Finish([kind |-> "leader", term |-> last[1], server |-> last[2]])
    BY <1>7, <2>1, Zenon DEF checkOneLeader
  <2> HIDE DEF last
  <2>3. answer'.kind = "leader"
    BY <2>2, Zenon DEF Finish
  <2> QED
    BY <2>3, Zenon
<1>8. ASSUME \/ \E kind \in {"checkOneLeader", "checkTerms", "checkNoLeader"} : BeginProbe(kind)
             \/ GetState \/ checkTerms \/ checkNoLeader
      PROVE  FALSE
  BY <1>5, <1>8, ZenonT(60) DEF BeginProbe, BeginCheck, GetState, checkTerms, checkNoLeader, Goon, Finish, Fail
<1>9. CASE Judging
  BY <1>3, <1>4, <1>6, <1>7, <1>8, <1>9, Zenon DEF Judging, AgreementStep
<1> QED
  BY <1>1, <1>9, NextCases, ZenonT(60)
     DEF Decide, ApplyCommand, ApplySnapshot, Elect, Learn, Applier, IngestSnap, ReadLastApplied, CheckLogs,
         Advance, TakeSnapshot, crash1, start1, connect, testVars

\* If a server whose applierSnap is busy is not restarted, then what one and wait
\* return is so when they return, although nCommitted looks at one server after
\* the other while the appliers go on, and whatever a wrong Raft applies: at
\* least the expected number of servers have the command at the index.
THEOREM AnswersAreRight ==
  ASSUME ~BusyRestarts
  PROVE  Spec => AnswersRight
<1> DEFINE Right1 == answer' # answer /\ answer'.kind \in {"one", "wait"} =>
                       Cardinality({i \in Peers : logs'[i][answer'.index] = answer'.cmd}) >= answer'.expected
<1>1. Init => CountedInv
  BY CheckKinds, Zenon DEF Init, CountedInv
<1>2. CfgTypes /\ PlainInv /\ ApplierInv /\ GrowInv /\ CheckInv /\ CountedInv /\ [Next]_vars => CountedInv'
  BY CountedStep, Zenon
<1>3. CheckInv /\ CountedInv /\ [Next]_vars => [Right1]_vars
  <2> SUFFICES ASSUME CheckInv, CountedInv, [Next]_vars, answer' # answer, answer'.kind \in {"one", "wait"}
               PROVE  Cardinality({i \in Peers : logs'[i][answer'.index] = answer'.cmd}) >= answer'.expected
    BY Zenon
  <2> DEFINE S == {i \in Peers : logs'[i][answer'.index] = answer'.cmd}
  <2>1. /\ alarm = "none" /\ logs' = logs /\ check.kind \in {"one", "wait"} /\ check.at # "start" /\ Enough
        /\ answer'.index = check.index /\ answer'.cmd = check.cmd1 /\ answer'.expected = check.expected
    BY AnswerStep, Zenon
  <2>2. check \in Agreements
    BY <2>1, CheckKinds, Zenon DEF CheckInv, CheckTypes, ProbeKinds
  <2>3. check.count <= Cardinality(Having)
    BY <2>1, <2>2, Zenon DEF CountedInv
  <2>4. check.count \in Nat /\ check.expected \in Nat /\ check.count >= check.expected
    BY <2>1, <2>2, RaftChecksAssumption, SMT DEF Agreements, Enough
  <2>5. S \in SUBSET Peers /\ Having \in SUBSET S
    BY <2>1, Zenon DEF Having
  <2> HIDE DEF S
  <2>6. Cardinality(S) \in Nat /\ Cardinality(Having) \in Nat /\ Cardinality(Having) <= Cardinality(S)
    BY <2>5, ServersFinite, Zenon
  <2>7. Cardinality(S) >= answer'.expected
    BY <2>1, <2>3, <2>4, <2>6, SMT
  <2> QED
    BY <2>7, Zenon DEF S
<1> QED
  BY <1>1, <1>2, <1>3, CfgCorrect, AppliersCorrect, GrowCorrect, ChecksCorrect, PTL DEF Spec, AnswersRight
=============================================================================
