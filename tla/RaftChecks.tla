----------------------------- MODULE RaftChecks -----------------------------
(***************************************************************************)
(* raft/config.go, the part that judges: the appliers that read what every  *)
(* Raft instance applies and compare it (checkLogs, ingestSnap), and the    *)
(* checks that a test calls (one, wait, nCommitted, checkOneLeader,         *)
(* checkTerms, checkNoLeader) while instances are killed and restarted.     *)
(*                                                                          *)
(* Raft is external.  It is either right (honest): the instances apply one  *)
(* sequence of decided commands in order, and a term has one leader; or it  *)
(* applies what it likes.  The properties say that the harness never blames *)
(* a right Raft and never lets a wrong one pass.                            *)
(***************************************************************************)
EXTENDS Naturals, FiniteSets, Sequences

CONSTANTS
  N,                \* cfg.n
  Commands,
  MaxIndex,         \* bound: length of the log
  MaxStarts,        \* bound: how often a server is started
  MaxTerm,          \* bound: terms
  MaxChecks,        \* bound: how many checks a test calls
  SnapShotInterval, \* 10 in the code
  Iters,            \* how often checkOneLeader tries: 10 in the code
  BusyRestarts,     \* may a server be restarted while its old applierSnap is busy?
  Tests,            \* the kinds of tests, of "election", "agreement", "snapshot"
  None

ASSUME RaftChecksAssumption ==
  /\ N \in Nat \ {0} /\ SnapShotInterval \in Nat \ {0} /\ Iters \in Nat \ {0}
  /\ {MaxIndex, MaxTerm, MaxChecks} \subseteq Nat /\ MaxStarts \in Nat \ {0}
  /\ BusyRestarts \in BOOLEAN /\ Tests \subseteq {"election", "agreement", "snapshot"} /\ None \notin Commands

Peers == 0 .. N - 1
Indexes == 1 .. MaxIndex
Instances == Peers \X (1 .. MaxStarts)

VARIABLES
  test,         \* what the test is about; "snapshot" means applierSnap
  honest,       \* Raft is right
  decided,      \* the commands on which a right Raft has agreed
  sent,         \* up to where an instance has applied
  term, leads, won,   \* Raft's terms, who believes to lead, and who was elected
  gen, running, \* the instances, as in RaftConfig
  connected,    \* cfg.connected
  logs,         \* cfg.logs
  lastApplied,  \* cfg.lastApplied
  saved,        \* the snapshot that cfg.saved[i] holds
  applier,      \* the applier goroutine of an instance: where it is, its message
  check,        \* what the test is calling
  checks,       \* how many checks it has called
  quiet,        \* history: all connected servers agree on the term since check began
  answer,       \* what the last check returned
  alarm         \* the failure that ended the test

raftVars == <<test, honest, decided, sent, term, leads, won>>
cfgVars == <<gen, running, connected, logs, lastApplied, saved>>
testVars == <<check, checks, quiet, answer>>
vars == <<raftVars, cfgVars, applier, testVars, alarm>>

snapshot == test = "snapshot"

NoLog == [k \in Indexes |-> None]
NoSnapshot == [index |-> 0, xlog |-> NoLog]
Cut(log, index) == [k \in Indexes |-> IF k <= index THEN log[k] ELSE None]

Idle == [at |-> "idle"]
NoCheck == [kind |-> "none"]
NoAnswer == [kind |-> "none"]

Init ==
  /\ test \in Tests
  /\ honest \in BOOLEAN /\ (snapshot => honest)
  /\ decided = <<>>
  /\ sent = [x \in Instances |-> 0]
  /\ term = [i \in Peers |-> 0] /\ leads = [i \in Peers |-> FALSE] /\ won = {}
  /\ gen = [i \in Peers |-> 1] /\ running = [i \in Peers |-> TRUE]
  /\ connected = [i \in Peers |-> TRUE]
  /\ logs = [i \in Peers |-> NoLog]
  /\ lastApplied = [i \in Peers |-> 0]
  /\ saved = [i \in Peers |-> NoSnapshot]
  /\ applier = [x \in Instances |-> Idle]
  /\ check = NoCheck /\ checks = 0 /\ quiet = TRUE /\ answer = NoAnswer
  /\ alarm = "none"

current(i) == <<i, gen[i]>>
Alive(x) == running[x[1]] /\ gen[x[1]] = x[2]
Made(x) == x[2] <= gen[x[1]]

-----------------------------------------------------------------------------
(* Raft, as far as the harness sees it.                                     *)

Decide(c) ==
  /\ test # "election" /\ honest
  /\ Len(decided) < MaxIndex
  /\ decided' = Append(decided, c)
  /\ UNCHANGED <<test, honest, sent, term, leads, won, cfgVars, applier, testVars, alarm>>

\* A killed instance may still apply (Kill only sets a flag); with snapshots it
\* does not, beyond what it has handed over before.  A wrong Raft, which applies
\* anything at any time, loses nothing by handing over one message at a time.
MayApply(x) ==
  /\ Made(x) /\ applier[x] = Idle
  /\ snapshot => Alive(x)
  /\ honest \/ \A y \in Instances : applier[y] = Idle

Hand(x, m) == applier' = [applier EXCEPT ![x] = [at |-> "received", m |-> m, err |-> "none"]]

ApplyCommand(x, k, c) ==
  /\ test # "election"
  /\ MayApply(x)
  /\ honest => k = sent[x] + 1 /\ k <= Len(decided) /\ c = decided[k]
  /\ Hand(x, [kind |-> "command", index |-> k, cmd |-> c])
  /\ sent' = IF honest THEN [sent EXCEPT ![x] = k] ELSE sent
  /\ UNCHANGED <<test, honest, decided, term, leads, won, cfgVars, testVars, alarm>>

\* A snapshot that some server took reaches another one, which stores it and
\* hands it up with an index.
ApplySnapshot(x, s, k) ==
  /\ snapshot
  /\ MayApply(x)
  /\ s.index > 0
  /\ s.index = k /\ k > sent[x]
  /\ Hand(x, [kind |-> "snapshot", index |-> k, snap |-> s])
  /\ sent' = [sent EXCEPT ![x] = k]
  /\ saved' = [saved EXCEPT ![x[1]] = s]
  /\ UNCHANGED <<test, honest, decided, term, leads, won,
                 gen, running, connected, logs, lastApplied, testVars, alarm>>

TermsAgree(terms) ==
  \A i, j \in Peers : connected[i] /\ connected[j] => terms[i] = terms[j]

\* Server i wins term t, or hears of it.
Elect(i, t) ==
  /\ test = "election"
  /\ t > term[i]
  /\ honest => \A w \in won : w.term # t
  /\ won' = won \cup {[term |-> t, server |-> i]}
  /\ term' = [term EXCEPT ![i] = t] /\ leads' = [leads EXCEPT ![i] = TRUE]
  /\ quiet' = (quiet /\ TermsAgree(term'))
  /\ UNCHANGED <<test, honest, decided, sent, cfgVars, applier, check, checks, answer, alarm>>

Learn(i, t) ==
  /\ test = "election"
  /\ t > term[i]
  /\ term' = [term EXCEPT ![i] = t] /\ leads' = [leads EXCEPT ![i] = FALSE]
  /\ quiet' = (quiet /\ TermsAgree(term'))
  /\ UNCHANGED <<test, honest, decided, sent, won, cfgVars, applier, check, checks, answer, alarm>>
-----------------------------------------------------------------------------
(* The appliers.                                                            *)

\* checkLogs: some server has a different command for the index, or server i
\* has none for the index before.
Differs(m) == \E j \in Peers : logs[j][m.index] \notin {None, m.cmd}
OutOfOrder(i, m) == m.index > 1 /\ logs[i][m.index - 1] = None

\* Seeded fault: only the server's own log is compared.
FaultOwnLog(i, m) ==
  IF OutOfOrder(i, m) THEN "apply out of order"
  ELSE IF logs[i][m.index] \notin {None, m.cmd} THEN "commit differs" ELSE "none"

\* Seeded fault: only the other servers' logs are compared.
FaultOtherLogs(i, m) ==
  IF OutOfOrder(i, m) THEN "apply out of order"
  ELSE IF \E j \in Peers \ {i} : logs[j][m.index] \notin {None, m.cmd}
  THEN "commit differs" ELSE "none"

Fault(i, m) ==
  IF OutOfOrder(i, m) THEN "apply out of order"
  ELSE IF Differs(m) THEN "commit differs" ELSE "none"

\* log.Fatalf ends the process.
Fatal(err) == alarm' = IF err = "none" THEN alarm ELSE err

SetLog(i, m) == logs' = [logs EXCEPT ![i][m.index] = m.cmd]

\* applier, for one command.
Applier(x) ==
  LET i == x[1] m == applier[x].m IN
  /\ ~snapshot
  /\ applier[x].at = "received"
  /\ SetLog(i, m)
  /\ Fatal(Fault(i, m))
  /\ applier' = [applier EXCEPT ![x] = Idle]
  /\ UNCHANGED <<raftVars, gen, running, connected, lastApplied, saved, testVars>>

\* applierSnap, m.SnapshotValid: ingestSnap replaces the log.
IngestSnap(x) ==
  LET i == x[1] m == applier[x].m IN
  /\ snapshot
  /\ applier[x].at = "received" /\ m.kind = "snapshot"
  /\ IF m.index # m.snap.index
     THEN Fatal("snapshot doesn't match") /\ UNCHANGED <<logs, lastApplied>>
     ELSE /\ logs' = [logs EXCEPT ![i] = m.snap.xlog]
          /\ lastApplied' = [lastApplied EXCEPT ![i] = m.snap.index]
          /\ UNCHANGED alarm
  /\ applier' = [applier EXCEPT ![x] = Idle]
  /\ UNCHANGED <<raftVars, gen, running, connected, saved, testVars>>

\* applierSnap, m.CommandValid: lastApplied is read without the lock.
ReadLastApplied(x) ==
  LET i == x[1] m == applier[x].m IN
  /\ snapshot
  /\ applier[x].at = "received" /\ m.kind = "command"
  /\ applier' = [applier EXCEPT ![x] =
       IF m.index # lastApplied[i] + 1
       THEN [@ EXCEPT !.at = "advance", !.err = "apply out of order"]
       ELSE [@ EXCEPT !.at = "log"]]
  /\ UNCHANGED <<raftVars, cfgVars, testVars, alarm>>

CheckLogs(x) ==
  LET i == x[1] m == applier[x].m IN
  /\ applier[x].at = "log"
  /\ SetLog(i, m)
  /\ applier' = [applier EXCEPT ![x].at = "advance", ![x].err = Fault(i, m)]
  /\ UNCHANGED <<raftVars, gen, running, connected, lastApplied, saved, testVars, alarm>>

Advance(x) ==
  LET i == x[1] m == applier[x].m
      due == (m.index + 1) % SnapShotInterval = 0
  IN
  /\ applier[x].at = "advance"
  /\ lastApplied' = [lastApplied EXCEPT ![i] = m.index]
  /\ IF due THEN applier' = [applier EXCEPT ![x].at = "snapshot"] /\ UNCHANGED alarm
     ELSE applier' = [applier EXCEPT ![x] = Idle] /\ Fatal(applier[x].err)
  /\ UNCHANGED <<raftVars, gen, running, connected, logs, saved, testVars>>

\* rf.Snapshot: Raft stores it in the Persister of the instance, which is
\* cfg.saved[i] until the instance is killed, unless it has a later one.
TakeSnapshot(x) ==
  LET i == x[1] k == applier[x].m.index IN
  /\ applier[x].at = "snapshot"
  /\ saved' = IF Alive(x) /\ k > saved[i].index
              THEN [saved EXCEPT ![i] = [index |-> k, xlog |-> Cut(logs[i], k)]] ELSE saved
  /\ Fatal(applier[x].err)
  /\ applier' = [applier EXCEPT ![x] = Idle]
  /\ UNCHANGED <<raftVars, gen, running, connected, logs, lastApplied, testVars>>

-----------------------------------------------------------------------------
(* The test: one goroutine, that kills, restarts, connects, and checks.     *)

Free == check = NoCheck

\* Tests about elections connect and disconnect servers; the others restart them.
\* Bound: a server is killed only if it may be started once more.
crash1(i) ==
  /\ test # "election"
  /\ Free /\ running[i] /\ gen[i] < MaxStarts
  /\ running' = [running EXCEPT ![i] = FALSE] /\ connected' = [connected EXCEPT ![i] = FALSE]
  /\ UNCHANGED <<raftVars, gen, logs, lastApplied, saved, applier, testVars, alarm>>

\* Seeded fault: the log goes back to the snapshot, lastApplied to the start.
start1Forgetting(i) ==
  /\ Free /\ ~running[i] /\ gen[i] < MaxStarts
  /\ snapshot /\ ~BusyRestarts => \A g \in 1 .. gen[i] : applier[<<i, g>>] = Idle
  /\ gen' = [gen EXCEPT ![i] = @ + 1] /\ running' = [running EXCEPT ![i] = TRUE]
  /\ connected' = [connected EXCEPT ![i] = TRUE]
  /\ lastApplied' = [lastApplied EXCEPT ![i] = 0]
  /\ logs' = IF saved[i] = NoSnapshot THEN logs ELSE [logs EXCEPT ![i] = saved[i].xlog]
  /\ sent' = [sent EXCEPT ![<<i, gen[i] + 1>>] = saved[i].index]
  /\ UNCHANGED <<test, honest, decided, term, leads, won, saved, applier, testVars, alarm>>

\* start1, after its crash1: lastApplied[i] = 0, then ingestSnap of what was
\* saved; a right Raft applies what comes after the snapshot.  The test then
\* calls connect(i).
start1(i) ==
  /\ Free /\ ~running[i] /\ gen[i] < MaxStarts
  /\ snapshot /\ ~BusyRestarts => \A g \in 1 .. gen[i] : applier[<<i, g>>] = Idle
  /\ gen' = [gen EXCEPT ![i] = @ + 1] /\ running' = [running EXCEPT ![i] = TRUE]
  /\ connected' = [connected EXCEPT ![i] = TRUE]
  /\ lastApplied' = [lastApplied EXCEPT ![i] = saved[i].index]
  /\ logs' = IF saved[i] = NoSnapshot THEN logs ELSE [logs EXCEPT ![i] = saved[i].xlog]
  /\ sent' = [sent EXCEPT ![<<i, gen[i] + 1>>] = saved[i].index]
  /\ UNCHANGED <<test, honest, decided, term, leads, won, saved, applier, testVars, alarm>>

connect(i, yes) ==
  /\ test = "election"
  /\ Free /\ connected[i] # yes
  /\ connected' = [connected EXCEPT ![i] = yes]
  /\ UNCHANGED <<raftVars, gen, running, logs, lastApplied, saved, applier, testVars, alarm>>
-----------------------------------------------------------------------------
(* one and wait.  nCommitted takes the lock for one server at a time.       *)

BeginCheck(c) ==
  /\ Free /\ checks < MaxChecks
  /\ check' = c /\ checks' = checks + 1
  /\ quiet' = TermsAgree(term) /\ answer' = NoAnswer
  /\ UNCHANGED <<raftVars, cfgVars, applier, alarm>>

Keep == UNCHANGED <<raftVars, cfgVars, applier, checks, quiet>>

Goon(c) == check' = c /\ Keep /\ UNCHANGED <<answer, alarm>>
Finish(a) == check' = NoCheck /\ answer' = a /\ Keep /\ UNCHANGED alarm
Fail(why) == check' = NoCheck /\ alarm' = why /\ Keep /\ UNCHANGED answer

nCommitted(c) == [c EXCEPT !.at = "count", !.i = 0, !.count = 0, !.cmd1 = None]

Agreement(kind, at, cmd, index, expected) ==
  [kind |-> kind, at |-> at, cmd |-> cmd, index |-> index, expected |-> expected,
   i |-> 0, count |-> 0, cmd1 |-> None]

one(cmd, expected) ==
  /\ test # "election"
  /\ BeginCheck(Agreement("one", "start", cmd, 0, expected))

wait(index, n) ==
  /\ test # "election"
  /\ BeginCheck(Agreement("wait", "count", None, index, n))

\* rf.Start of a connected server that believes to lead; or ten seconds go by
\* without one.
StartCommand ==
  /\ check.kind = "one" /\ check.at = "start"
  /\ \/ /\ \E i \in Peers : connected[i]
        /\ \E k \in Indexes : Goon(nCommitted([check EXCEPT !.index = k]))
     \/ Fail("no agreement")

Count ==
  /\ check.kind \in {"one", "wait"} /\ check.at \in {"count", "recount"} /\ check.i < N
  /\ LET found == logs[check.i][check.index] IN
     IF found = None THEN Goon([check EXCEPT !.i = @ + 1])
     ELSE IF check.count > 0 /\ check.cmd1 # found THEN Fail("committed values do not match")
     ELSE Goon([check EXCEPT !.i = @ + 1, !.count = @ + 1, !.cmd1 = found])

Counted(kind, at) == check.kind = kind /\ check.at = at /\ check.i = N
Enough == check.count >= check.expected

\* Seeded fault: what was committed need not be what was submitted.
OneReturnsAny ==
  /\ Counted("one", "count")
  /\ check.count > 0 /\ Enough
  /\ Finish([kind |-> "one", index |-> check.index, cmd |-> check.cmd, expected |-> check.expected])

\* Committed, and it was the command we submitted; or count again; or two
\* seconds are over: submit again (retry) or fail.
OneReturns ==
  /\ Counted("one", "count")
  /\ check.count > 0 /\ Enough /\ check.cmd1 = check.cmd
  /\ Finish([kind |-> "one", index |-> check.index, cmd |-> check.cmd, expected |-> check.expected])

OneGoesOn ==
  /\ Counted("one", "count")
  /\ ~(check.count > 0 /\ Enough /\ check.cmd1 = check.cmd)
  /\ \/ Goon(nCommitted(check))
     \/ Goon([check EXCEPT !.at = "start"])
     \/ Fail("no agreement")

\* Enough servers, or 30 rounds are over; if someone has moved on to a later
\* term the answer is -1.
WaitGoesOn ==
  /\ Counted("wait", "count")
  /\ \/ Goon([nCommitted(check) EXCEPT !.at = "recount"])
     \/ ~Enough /\ Goon(nCommitted(check))
     \/ ~Enough /\ Finish(NoAnswer)

WaitReturns ==
  /\ Counted("wait", "recount")
  /\ IF Enough
     THEN Finish([kind |-> "wait", index |-> check.index, cmd |-> check.cmd1, expected |-> check.expected])
     ELSE Fail("not enough decided")

-----------------------------------------------------------------------------
(* checkOneLeader, checkTerms, checkNoLeader: GetState, a server at a time. *)

Probe(kind) == [kind |-> kind, i |-> 0, iters |-> 0, leaders |-> {}, terms |-> {}]

BeginProbe(kind) == test = "election" /\ BeginCheck(Probe(kind))

Probing == check.kind \in {"checkOneLeader", "checkTerms", "checkNoLeader"}

\* checkNoLeader fails at once; checkTerms too, which is no different from the end.
GetState ==
  /\ Probing /\ check.i < N
  /\ LET i == check.i
         next == [check EXCEPT !.i = @ + 1]
     IN  IF ~connected[i] THEN Goon(next)
         ELSE IF check.kind = "checkNoLeader" /\ leads[i] THEN Fail("expected no leader")
         ELSE Goon([next EXCEPT !.terms = @ \cup {term[i]},
                                !.leaders = IF leads[i] THEN @ \cup {<<term[i], i>>} ELSE @])

\* Seeded fault: leaders of different terms are counted together.
TwoLeadersInAll(leaders) == Cardinality(leaders) > 1

TwoLeaders(leaders) == \E l, m \in leaders : l[1] = m[1] /\ l[2] # m[2]

checkOneLeader ==
  /\ check.kind = "checkOneLeader" /\ check.i = N
  /\ IF TwoLeaders(check.leaders) THEN Fail("more than one leader")
     ELSE IF check.leaders # {}
     THEN LET last == CHOOSE l \in check.leaders : \A m \in check.leaders : m[1] <= l[1]
          IN  Finish([kind |-> "leader", term |-> last[1], server |-> last[2]])
     ELSE IF check.iters + 1 < Iters THEN Goon([Probe("checkOneLeader") EXCEPT !.iters = check.iters + 1])
     ELSE Fail("expected one leader, got none")

checkTerms ==
  /\ check.kind = "checkTerms" /\ check.i = N
  /\ IF \E t, u \in check.terms : t # u THEN Fail("servers disagree on term") ELSE Finish(NoAnswer)

checkNoLeader ==
  /\ check.kind = "checkNoLeader" /\ check.i = N
  /\ Finish(NoAnswer)

-----------------------------------------------------------------------------
Raft ==
  \/ \E c \in Commands : Decide(c)
  \/ \E x \in Instances, k \in Indexes :
       \/ \E c \in Commands : ApplyCommand(x, k, c)
       \/ \E j \in Peers : ApplySnapshot(x, saved[j], k)
  \/ \E i \in Peers, t \in 1 .. MaxTerm : Elect(i, t) \/ Learn(i, t)

Appliers ==
  \E x \in Instances :
    \/ Applier(x) \/ IngestSnap(x) \/ ReadLastApplied(x)
    \/ CheckLogs(x) \/ Advance(x) \/ TakeSnapshot(x)

Test ==
  \/ \E i \in Peers : crash1(i) \/ start1(i) \/ \E yes \in BOOLEAN : connect(i, yes)
  \/ \E cmd \in Commands, n \in 1 .. N : one(cmd, n)
  \/ \E k \in Indexes, n \in 1 .. N : wait(k, n)
  \/ StartCommand \/ Count \/ OneReturns \/ OneGoesOn \/ WaitGoesOn \/ WaitReturns
  \/ \E kind \in {"checkOneLeader", "checkTerms", "checkNoLeader"} : BeginProbe(kind)
  \/ GetState \/ checkOneLeader \/ checkTerms \/ checkNoLeader

Next == alarm = "none" /\ (Raft \/ Appliers \/ Test)

Spec == Init /\ [][Next]_vars
-----------------------------------------------------------------------------
(* Properties.                                                              *)

Blames == {"apply out of order", "commit differs", "snapshot doesn't match",
           "committed values do not match", "more than one leader"}

\* A right Raft is never blamed: neither by an applier that has its message
\* compared while other appliers write, instances are killed and restarted and
\* old ones still apply, nor by a check that asks one server after the other
\* while terms and leaders change: start1 means "to isolate previous instance of
\* this server".  (With snapshots it does not: see BusyRestarts.)  And "servers
\* disagree on term" is only said if they did at some time during the check.
NoFalseAlarm ==
  /\ honest => alarm \notin Blames
  /\ alarm = "servers disagree on term" => ~quiet

\* Without snapshots no wrong Raft passes unnoticed: while no failure was
\* reported, the servers have never applied different commands at an index, and
\* none has left one out.
LogsAgree ==
  ~snapshot /\ alarm = "none" =>
    \A i \in Peers, k \in Indexes :
      logs[i][k] # None =>
        /\ \A j \in Peers : logs[j][k] \in {None, logs[i][k]}
        /\ k > 1 => logs[i][k - 1] # None

\* Nor may a server apply another command at an index after a restart.
CommittedStays ==
  [][~snapshot /\ alarm' = "none" =>
       \A i \in Peers, k \in Indexes : logs[i][k] \in {None, logs'[i][k]}]_vars

\* What one and wait return is so: at least the expected number of servers have
\* the command at the index, although nCommitted looks at one after the other.
AnswersRight ==
  [][answer' # answer /\ answer'.kind \in {"one", "wait"} =>
       Cardinality({i \in Peers : logs'[i][answer'.index] = answer'.cmd}) >= answer'.expected]_vars

\* After a restart from a snapshot the harness expects from the new instance
\* exactly what a right Raft applies next, and every saved snapshot is a prefix
\* of the decided commands.
RestartContinues ==
  snapshot =>
    \A i \in Peers :
      /\ \A k \in 1 .. saved[i].index : saved[i].xlog[k] = decided[k]
      /\ \A k \in 1 .. lastApplied[i] : logs[i][k] = decided[k]
      /\ running[i] /\ applier[current(i)] = Idle => lastApplied[i] = sent[current(i)]
=============================================================================
