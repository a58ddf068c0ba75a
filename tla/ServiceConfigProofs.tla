------------------------ MODULE ServiceConfigProofs ------------------------
(***************************************************************************)
(* Theorems about the test harnesses, for any numbers of servers, starts,   *)
(* operations, calls and clerks.  HarnessInv is inductive, and LinksInv is, *)
(* given HarnessInv: the steps of a program preserve them by                *)
(* HarnessStepsProofs, and a new operation, which HarnessProgramsProofs     *)
(* shows to be a program, establishes what its steps rely on.               *)
(***************************************************************************)
EXTENDS HarnessStepsProofs, HarnessProgramsProofs

\* The prover of every step that names no other.
USE Zenon

----------------------------------------------------------------------------
(***************************************************************************)
(* The test calls an operation.                                             *)
(***************************************************************************)
LEMMA OpeningReady ==
  ASSUME NEW s, Opening(s), Making(s[1]) => ~running[s[1].i]
  PROVE  Ready(s[1])
  BY DEF Opening, Ready, ReadyWhen, Making

LEMMA BegunTodo ==
  ASSUME NEW p, NewProgram(p, kind), Startable(p), Linkable(p), todo' = p, TestedSame
  PROVE  TodoInv'
<1>1. Program(p) /\ OfKind(p, kind) /\ \A a \in 1 .. Len(p) : Opening(p[a])
  BY DEF NewProgram
<1>0. /\ gen' = gen /\ running' = running /\ connected' = connected /\ servers' = servers
      /\ ends' = ends /\ enabled' = enabled /\ kind' = kind /\ attached' = attached
  BY DEF TestedSame, SavedSame
<1>2. ASSUME NEW a \in 1 .. Len(p) PROVE Ready(p[a][1])'
  <2>1. Ready(p[a][1])
    BY <1>1, OpeningReady DEF Startable
  <2> QED
    BY <1>0, <2>1 DEF Ready
<1>3. ASSUME p # <<>> PROVE WillBeSevered(p[1], ends', enabled')
  <2>1. p \in Seq(Seq(Steps))
    BY <1>1 DEF Program
  <2>2. 1 \in 1 .. Len(p)
    BY <1>3, <2>1, SMT
  <2> QED
    BY <1>1, <2>2, OpeningSevers
<1>4. MayStart' /\ SendersRun'
  BY <1>0 DEF MayStart, SendersRun, Startable, Linkable
<1> QED
  BY <1>0, <1>1, <1>2, <1>3, <1>4 DEF TodoInv

LEMMA FirstIndex ==
  ASSUME NEW n \in Nat, n > 0
  PROVE  1 \in 1 .. n
  BY SMT

\* What one operation for server i needs.
LEMMA SingleCan ==
  ASSUME NEW s, NEW i, NEW f, NEW l, NEW A, Is(s, i, f, l, A),
         Apart(A, MakeNames) \/ (gen[i] < MaxStarts /\ (f \in MakeNames => ~running[i])),
         Apart(A, LinkingNames) \/ (running[i] /\ "link in" \notin A)
  PROVE  Startable(<<s>>) /\ Linkable(<<s>>)
<1> DEFINE p == <<s>>
<1>1. Len(p) = 1 /\ p[1] = s /\ 1 .. 1 = {1}
  BY OnlyOne
<1> HIDE DEF p
<1>2. \A a \in 1 .. Len(p) : p[a] = s
  BY <1>1
<1>3. Script(s) /\ s[1].i = i /\ s[1].op = f /\ \A k \in 1 .. Len(s) : s[k].op \in A
  BY DEF Is
<1>4. \A k \in 1 .. Len(s) : s[k].i = i
  BY <1>3 DEF Script
<1>5. Apart(A, MakeNames) => ~Makes(s) /\ ~Making(s[1])
  <2>1. Apart(A, MakeNames) => ~Makes(s)
    BY NamesOfScript DEF Apart
  <2>2. 1 \in 1 .. Len(s)
    <3>1. Len(s) \in Nat /\ Len(s) > 0
      BY NamesOfScript
    <3> QED
      BY <3>1, FirstIndex
  <2> QED
    BY <2>1, <2>2 DEF Makes
<1>6. Startable(p)
  BY <1>2, <1>3, <1>5 DEF Startable, Making, MakeNames
<1>7. ASSUME NEW k \in 1 .. Len(s), Linking(s[k]) PROVE running[Sender(s[k])]
  <2>1. s[k].op \in LinkingNames /\ s[k].op \in A /\ s[k].i = i
    BY <1>3, <1>4, <1>7 DEF Linking, LinkingNames
  <2> QED
    BY <2>1 DEF Apart, Sender
<1>8. Linkable(p)
  BY <1>2, <1>7 DEF Linkable
<1> QED
  BY <1>6, <1>8 DEF p

LEMMA BeginStep ==
  ASSUME HarnessInv, NEW p, NewProgram(p, kind), Startable(p), Linkable(p), Begin(p), kind' = kind
  PROVE  HarnessInv' /\ KeptSame
<1>1. TestedSame /\ CallsSame /\ todo' = p
  BY DEF Begin, netVars, savedVars, callVars, TestedSame, SavedSame, CallsSame
<1>2. StateInv' /\ KeptSame
  BY <1>1, SameState DEF HarnessInv
<1>3. TodoInv'
  BY <1>1, BegunTodo
<1> QED
  BY <1>2, <1>3 DEF HarnessInv

\* The operations of the tests of Raft.
LEMMA RaftBegins ==
  ASSUME HarnessInv, NEW i \in Peers, kind = "raft", kind' = kind, Crash(i) \/ Start(i) \/ Attach(i) \/ Detach(i)
  PROVE  HarnessInv' /\ KeptSame
<1>1. CASE Crash(i)
  <2> DEFINE A == CrashNames
             s == crash1(i)
  <2>1. Apart(A, MakeNames) /\ Apart(A, LinkingNames)
    BY DEF Apart, MakeNames, LinkingNames, CrashNames, DownNames
  <2>2. Is(s, i, "detach", "kill", A)
    BY CrashIs
  <2>3. Begin(<<s>>) /\ NewProgram(<<s>>, kind)
    BY <1>1, RaftPrograms DEF Crash
  <2> HIDE DEF A, s
  <2>4. Startable(<<s>>) /\ Linkable(<<s>>)
    BY <2>1, <2>2, SingleCan
  <2> QED
    BY <2>3, <2>4, BeginStep
<1>2. CASE Start(i)
  <2> DEFINE A == CrashNames \cup {"make", "serve"}
             s == start1(i)
  <2>1. Apart(A, LinkingNames) /\ "detach" \notin MakeNames
    BY DEF Apart, MakeNames, LinkingNames, CrashNames, DownNames
  <2>2. Is(s, i, "detach", "serve", A)
    BY StartIs
  <2>3. Begin(<<s>>) /\ NewProgram(<<s>>, kind) /\ gen[i] < MaxStarts
    BY <1>2, RaftPrograms DEF Start
  <2> HIDE DEF A, s
  <2>4. Startable(<<s>>) /\ Linkable(<<s>>)
    BY <2>1, <2>2, <2>3, SingleCan
  <2> QED
    BY <2>3, <2>4, BeginStep
<1>3. CASE Attach(i)
  <2> DEFINE A == {"attach", "enable out", "enable in"}
             s == connect(i)
  <2>1. Apart(A, MakeNames) /\ "link in" \notin A
    BY DEF Apart, MakeNames
  <2>2. Is(s, i, "attach", "enable in", A)
    BY ConnectIs
  <2>3. Begin(<<s>>) /\ NewProgram(<<s>>, kind) /\ running[i]
    BY <1>3, RaftPrograms DEF Attach
  <2> HIDE DEF A, s
  <2>4. Startable(<<s>>) /\ Linkable(<<s>>)
    BY <2>1, <2>2, <2>3, SingleCan
  <2> QED
    BY <2>3, <2>4, BeginStep
<1>4. CASE Detach(i)
  <2> DEFINE A == {"detach", "disable out", "disable in"}
             s == disconnect(i)
  <2>1. Apart(A, MakeNames) /\ Apart(A, LinkingNames)
    BY DEF Apart, MakeNames, LinkingNames
  <2>2. Is(s, i, "detach", "disable in", A)
    BY DisconnectIs
  <2>3. Begin(<<s>>) /\ NewProgram(<<s>>, kind)
    BY <1>4, RaftPrograms DEF Detach
  <2> HIDE DEF A, s
  <2>4. Startable(<<s>>) /\ Linkable(<<s>>)
    BY <2>1, <2>2, SingleCan
  <2> QED
    BY <2>3, <2>4, BeginStep
<1> QED
  BY <1>1, <1>2, <1>3, <1>4, SMT

\* The operations of the tests of the services that are for one server.
LEMMA ShutdownBegins ==
  ASSUME HarnessInv, NEW i \in Peers, Shutdown(i)
  PROVE  HarnessInv' /\ KeptSame
<1>1. CASE kind = "kvraft" /\ Begin(<<ShutdownServer(i)>>) /\ kind' = kind
  <2> DEFINE A == ShutNames
             s == ShutdownServer(i)
  <2>1. Apart(A, MakeNames) /\ Apart(A, LinkingNames)
    BY DEF Apart, MakeNames, LinkingNames, ShutNames, DownNames
  <2>2. Is(s, i, "unlink out", "kill", A)
    BY ShutdownIs
  <2>3. Begin(<<s>>) /\ NewProgram(<<s>>, kind)
    BY <1>1, ServicePrograms
  <2> HIDE DEF A, s
  <2>4. Startable(<<s>>) /\ Linkable(<<s>>)
    BY <2>1, <2>2, SingleCan
  <2> QED
    BY <1>1, <2>3, <2>4, BeginStep
<1>2. CASE kind = "shardkv" /\ Begin(<<ShutdownShardServer(i)>>) /\ kind' = kind
  <2> DEFINE A == ShardShutNames
             s == ShutdownShardServer(i)
  <2>1. Apart(A, MakeNames) /\ Apart(A, LinkingNames)
    BY DEF Apart, MakeNames, LinkingNames, ShardShutNames, DownNames
  <2>2. Is(s, i, "unlink out", "kill", A)
    BY ShardShutdownIs
  <2>3. Begin(<<s>>) /\ NewProgram(<<s>>, kind)
    BY <1>2, ServicePrograms
  <2> HIDE DEF A, s
  <2>4. Startable(<<s>>) /\ Linkable(<<s>>)
    BY <2>1, <2>2, SingleCan
  <2> QED
    BY <1>2, <2>3, <2>4, BeginStep
<1> QED
  BY <1>1, <1>2 DEF Shutdown, Call

LEMMA RestartBegins ==
  ASSUME HarnessInv, NEW i \in Peers, Restart(i)
  PROVE  HarnessInv' /\ KeptSame
<1>0. ~running[i] /\ gen[i] < MaxStarts
  BY DEF Restart
<1>1. CASE kind = "kvraft" /\ Begin(<<StartServer(i)>>) /\ kind' = kind
  <2> DEFINE A == {"make", "serve"}
             s == StartServer(i)
  <2>1. Apart(A, LinkingNames) /\ "make" \in MakeNames
    BY DEF Apart, MakeNames, LinkingNames
  <2>2. Is(s, i, "make", "serve", A)
    BY <2>1, MadeIs DEF StartServer
  <2>3. Begin(<<s>>) /\ NewProgram(<<s>>, kind)
    BY <1>1, ServicePrograms
  <2> HIDE DEF A, s
  <2>4. Startable(<<s>>) /\ Linkable(<<s>>)
    BY <1>0, <2>1, <2>2, SingleCan
  <2> QED
    BY <1>1, <2>3, <2>4, BeginStep
<1>2. CASE kind = "shardkv" /\ Begin(<<StartShardServer(i)>>) /\ kind' = kind
  <2> DEFINE A == {"make enabled", "serve"}
             s == StartShardServer(i)
  <2>1. Apart(A, LinkingNames) /\ "make enabled" \in MakeNames
    BY DEF Apart, MakeNames, LinkingNames
  <2>2. Is(s, i, "make enabled", "serve", A)
    BY <2>1, MadeIs DEF StartShardServer
  <2>3. Begin(<<s>>) /\ NewProgram(<<s>>, kind)
    BY <1>2, ServicePrograms
  <2> HIDE DEF A, s
  <2>4. Startable(<<s>>) /\ Linkable(<<s>>)
    BY <1>0, <2>1, <2>2, SingleCan
  <2> QED
    BY <1>2, <2>3, <2>4, BeginStep
<1> QED
  BY <1>1, <1>2 DEF Restart, Call

LEMMA RunningLinkable ==
  ASSUME AllRunning, NEW p \in Seq(Seq(Steps))
  PROVE  Linkable(p)
<1>1. \A a \in 1 .. Len(p) : \A k \in 1 .. Len(p[a]) : Sender(p[a][k]) \in Peers
  BY StepAt, SenderOf
<1> QED
  BY <1>1 DEF Linkable, AllRunning

LEMMA FirstOfScript ==
  ASSUME NEW s, Script(s)
  PROVE  1 \in 1 .. Len(s) /\ s[1] \in Steps
<1>1. s \in Seq(Steps) /\ Len(s) > 0
  BY DEF Script
<1> QED
  BY <1>1, SMT

LEMMA SteadyStartable ==
  ASSUME NEW p, NEW n, Opened(p, n), \A k \in 1 .. n : ~Makes(p[k])
  PROVE  Startable(p)
<1>1. Len(p) = n /\ \A k \in 1 .. n : Script(p[k])
  BY DEF Opened
<1>2. \A k \in 1 .. n : 1 \in 1 .. Len(p[k])
  BY <1>1, FirstOfScript
<1>3. \A k \in 1 .. n : ~Making(p[k][1])
  BY <1>2 DEF Makes
<1> QED
  BY <1>1, <1>3 DEF Startable

LEMMA ReconnectBegins ==
  ASSUME HarnessInv, Reconnect
  PROVE  HarnessInv' /\ KeptSame
<1> DEFINE p == ConnectAll
<1>1. kind = "kvraft" /\ AllRunning /\ Begin(p) /\ kind' = kind
  BY DEF Reconnect, Call
<1>2. Opened(p, N) /\ Steady(p, N) /\ OfKind(p, kind)
  BY <1>1, ConnectAllOpened
<1> HIDE DEF p
<1>3. Program(p)
  BY <1>2, SteadyProgram
<1>4. NewProgram(p, kind)
  BY <1>2, <1>3, OpenedNew
<1>5. Startable(p)
  BY <1>2, SteadyStartable DEF Steady
<1>6. Linkable(p)
  BY <1>1, <1>3, RunningLinkable DEF Program
<1> QED
  BY <1>1, <1>4, <1>5, <1>6, BeginStep

LEMMA SplitBegins ==
  ASSUME HarnessInv, Split
  PROVE  HarnessInv' /\ KeptSame
<1>1. kind = "kvraft" /\ AllRunning
  BY DEF Split
<1>2. PICK n \in 0 .. N : \E p \in [1 .. n -> Peers] : \E q \in [1 .. N - n -> Peers] :
        Begin(partition(p, q)) /\ kind' = kind
  BY DEF Split, Call
<1>3. PICK p \in [1 .. n -> Peers], q \in [1 .. N - n -> Peers] : Begin(partition(p, q)) /\ kind' = kind
  BY <1>2
<1> DEFINE m == N - n
           r == partition(p, q)
<1>4. n \in Nat /\ m \in Nat
  BY RaftConfigAssumption, SMT
<1>5. p \in [1 .. n -> Peers] /\ q \in [1 .. m -> Peers]
  BY SMT
<1>6. Begin(r) /\ kind' = kind
  BY <1>3, SMT
<1> HIDE DEF m
<1>7. Program(r) /\ OfKind(r, kind) /\ Opened(r, n + m) /\ Steady(r, n + m)
  BY <1>1, <1>4, <1>5, PartitionProgram
<1> HIDE DEF r
<1>8. NewProgram(r, kind)
  BY <1>7, OpenedNew
<1>9. Startable(r)
  BY <1>7, SteadyStartable DEF Steady
<1>10. Linkable(r)
  BY <1>1, <1>7, RunningLinkable DEF Program
<1> QED
  BY <1>6, <1>8, <1>9, <1>10, BeginStep

\* A program that starts every server.
LEMMA StartsStartable ==
  ASSUME NEW p, Opened(p, N), InOrder(p, N), Linkless(p, N), \A i \in Peers : ~running[i] /\ gen[i] < MaxStarts
  PROVE  Startable(p) /\ Linkable(p)
<1>1. Len(p) = N
  BY DEF Opened
<1>2. \A k \in 1 .. N : p[k][1].i \in Peers
  BY PeerOf DEF InOrder
<1> QED
  BY <1>1, <1>2 DEF Startable, Linkable, Linkless, Links

LEMMA GroupsBegin ==
  ASSUME HarnessInv, Groups
  PROVE  HarnessInv' /\ KeptSame
<1>1. kind = "shardkv" /\ kind' = kind
  BY DEF Groups, Call
<1>2. CASE Begin(ShutdownGroup)
  <2> DEFINE p == ShutdownGroup
             A == ShardShutNames
  <2>1. /\ Program(p) /\ OfKind(p, kind) /\ Opened(p, N)
        /\ \A k \in 1 .. N : p[k] = ShutdownShardServer(k - 1)
    BY <1>1, ShutdownGroupProgram
  <2>2. A \cap MakeNames = {} /\ A \cap {"attach", "link out", "link in"} = {}
    BY DEF MakeNames, ShardShutNames, DownNames
  <2>3. ASSUME NEW k \in 1 .. N PROVE Is(p[k], k - 1, "unlink out", "kill", A)
    <3>1. Is(ShutdownShardServer(k - 1), k - 1, "unlink out", "kill", A)
      BY PeerOf, ShardShutdownIs
    <3> HIDE DEF p, A
    <3> QED
      BY <2>1, <3>1
  <2>7. Begin(p)
    BY <1>2, SMT
  <2> HIDE DEF p, A
  <2>4. \A k \in 1 .. N : ~Makes(p[k]) /\ ~Links(p[k])
    BY <2>2, <2>3, NamesOfScript
  <2>5. Startable(p)
    BY <2>1, <2>4, SteadyStartable
  <2>6. Linkable(p)
    BY <2>1, <2>4 DEF Linkable, Links, Opened
  <2>8. NewProgram(p, kind)
    BY <2>1, OpenedNew
  <2> QED
    BY <1>1, <2>5, <2>6, <2>7, <2>8, BeginStep
<1>3. CASE (\A i \in Peers : ~running[i] /\ gen[i] < MaxStarts) /\ Begin(StartGroup)
  <2> DEFINE p == StartGroup
  <2>1. Program(p) /\ OfKind(p, kind) /\ Opened(p, N) /\ Starts(p, "make enabled")
    BY <1>1, StartGroupProgram
  <2>2. p = [k \in 1 .. N |-> p[k]] /\ "make enabled" \in MakeNames
    BY DEF StartGroup, MakeNames
  <2>3. Begin(p)
    BY <1>3, SMT
  <2> HIDE DEF p
  <2>4. InOrder(p, N) /\ Linkless(p, N)
    BY <2>1, <2>2, StartsOpened
  <2>5. Startable(p) /\ Linkable(p)
    BY <1>3, <2>1, <2>4, StartsStartable
  <2>6. NewProgram(p, kind)
    BY <2>1, OpenedNew
  <2> QED
    BY <1>1, <2>3, <2>5, <2>6, BeginStep
<1> QED
  BY <1>2, <1>3 DEF Groups, Call

----------------------------------------------------------------------------
(***************************************************************************)
(* The beginning.                                                           *)
(***************************************************************************)
LEMMA NewTodo ==
  ASSUME NEW p, NewProgram(p, kind), Startable(p), Linkable(p), todo = p
  PROVE  TodoInv
<1>1. Program(p) /\ OfKind(p, kind) /\ \A a \in 1 .. Len(p) : Opening(p[a])
  BY DEF NewProgram
<1>2. ASSUME NEW a \in 1 .. Len(p) PROVE Ready(p[a][1])
  BY <1>1, OpeningReady DEF Startable
<1>3. ASSUME p # <<>> PROVE WillBeSevered(p[1], ends, enabled)
  <2>1. p \in Seq(Seq(Steps))
    BY <1>1 DEF Program
  <2>2. 1 \in 1 .. Len(p)
    BY <1>3, <2>1, SMT
  <2> QED
    BY <1>1, <2>2, OpeningSevers
<1>4. MayStart /\ SendersRun
  BY DEF MayStart, SendersRun, Startable, Linkable
<1> QED
  BY <1>1, <1>2, <1>3, <1>4 DEF TodoInv

LEMMA FreshFacts ==
  ASSUME Fresh
  PROVE  /\ IsFun(gen, Peers) /\ \A i \in Peers : gen[i] = 0
         /\ IsFun(connected, Peers) /\ \A i \in Peers : ~connected[i]
         /\ IsFun(running, Peers) /\ \A i \in Peers : ~running[i]
         /\ IsFun(attached, Peers) /\ \A i \in Peers : ~attached[i]
         /\ IsFun(copy, Peers) /\ IsFun(base, Instances)
         /\ IsFun(servers, Peers) /\ \A i \in Peers : servers[i] = None
         /\ IsFun(executed, Instances) /\ \A x \in Instances : executed[x] = {}
         /\ ends = {} /\ IsFun(enabled, EndNames) /\ \A e \in EndNames : enabled[e] = FALSE
         /\ IsFun(connections, EndNames)
         /\ IsFun(call, Calls) /\ \A c \in Calls : call[c] = "idle"
         /\ IsFun(req, Calls) /\ \A c \in Calls : req[c] = "none"
         /\ IsFun(handler, Calls) /\ \A c \in Calls : handler[c] = "none"
         /\ IsFun(end, Calls) /\ IsFun(view, Calls)
<1>1. IsFun(gen, Peers) /\ \A i \in Peers : gen[i] = 0
  BY DEF Fresh, IsFun
<1>2. IsFun(connected, Peers) /\ \A i \in Peers : ~connected[i]
  BY DEF Fresh, IsFun
<1>3. IsFun(running, Peers) /\ \A i \in Peers : ~running[i]
  BY DEF Fresh, IsFun
<1>4. IsFun(attached, Peers) /\ \A i \in Peers : ~attached[i]
  BY DEF Fresh, IsFun
<1>5. IsFun(copy, Peers) /\ IsFun(base, Instances)
  BY DEF Fresh, IsFun
<1>6. IsFun(servers, Peers) /\ \A i \in Peers : servers[i] = None
  BY DEF Fresh, net!Init, net!MakeNetwork, IsFun
<1>7. IsFun(executed, Instances) /\ \A x \in Instances : executed[x] = {}
  BY DEF Fresh, net!Init, IsFun
<1>8. ends = {} /\ IsFun(enabled, EndNames) /\ \A e \in EndNames : enabled[e] = FALSE
  BY DEF Fresh, net!Init, net!MakeNetwork, IsFun
<1>9. IsFun(connections, EndNames)
  BY DEF Fresh, net!Init, net!MakeNetwork, IsFun
<1>10. IsFun(call, Calls) /\ \A c \in Calls : call[c] = "idle"
  BY DEF Fresh, net!Init, IsFun
<1>11. IsFun(req, Calls) /\ \A c \in Calls : req[c] = "none"
  BY DEF Fresh, net!Init, IsFun
<1>12. IsFun(handler, Calls) /\ \A c \in Calls : handler[c] = "none"
  BY DEF Fresh, net!Init, IsFun
<1>13. IsFun(end, Calls) /\ IsFun(view, Calls)
  BY DEF Fresh, net!Init, IsFun
<1> QED
  BY <1>1, <1>2, <1>3, <1>4, <1>5, <1>6, <1>7, <1>8, <1>9, <1>10, <1>11, <1>12, <1>13

LEMMA FreshState ==
  ASSUME Fresh
  PROVE  StateInv /\ \A i \in Peers : ~running[i] /\ gen[i] < MaxStarts
<1>1. 0 \in 0 .. MaxStarts /\ 0 < MaxStarts /\ \A g \in 0 + 1 .. MaxStarts : g \in 1 .. MaxStarts
  BY RaftConfigAssumption, SMT
<1>2. \A i \in Peers : gen[i] \in 0 .. MaxStarts /\ gen[i] < MaxStarts
  BY <1>1, FreshFacts
<1>3. Types
  BY <1>2, FreshFacts DEF Types
<1>4. ASSUME NEW i \in Peers PROVE ServerInv(i)
  <2>1. ~running[i] /\ ~attached[i] /\ servers[i] = None /\ ~connected[i] /\ gen[i] = 0
    BY FreshFacts
  <2>2. ASSUME NEW g \in gen[i] + 1 .. MaxStarts PROVE executed[<<i, g>>] = {}
    <3>1. <<i, g>> \in Instances
      BY <1>1, <2>1 DEF Instances
    <3> QED
      BY <3>1, FreshFacts
  <2> QED
    BY <2>1, <2>2 DEF ServerInv
<1>5. \A e \in ends : EndInv(e)
  BY FreshFacts
<1>6. ASSUME NEW c \in Calls PROVE CallInv(c)
  <2>1. call[c] = "idle" /\ req[c] = "none" /\ handler[c] = "none"
    BY FreshFacts
  <2> QED
    BY <2>1 DEF CallInv
<1> QED
  BY <1>2, <1>3, <1>4, <1>5, <1>6, FreshFacts DEF StateInv

LEMMA PlaceOf ==
  ASSUME NEW i \in Peers
  PROVE  i + 1 \in 1 .. N /\ (i + 1) - 1 = i
  BY RaftConfigAssumption, SMT DEF Peers

\* A program that makes every server can link all of them.
LEMMA MadeLinkable ==
  ASSUME NEW r, NEW p, NEW q, Opened(r, N + N), JoinOf(r, p, N, q, N), InOrder(p, N),
         \A k \in 1 .. N : Makes(p[k])
  PROVE  Linkable(r)
<1>1. r \in Seq(Seq(Steps)) /\ Len(r) = N + N
  BY DEF Opened
<1>2. ASSUME NEW i \in Peers PROVE ToBeMade(r, i)
  <2> DEFINE k == i + 1
  <2>1. k \in 1 .. N /\ k - 1 = i
    BY PlaceOf
  <2> HIDE DEF k
  <2>2. k \in 1 .. N + N /\ r[k] = p[k]
    BY <2>1 DEF JoinOf
  <2>3. p[k][1].i = i /\ Makes(p[k])
    BY <2>1 DEF InOrder
  <2> QED
    BY <1>1, <2>2, <2>3 DEF ToBeMade
<1>3. \A a \in 1 .. Len(r) : \A k \in 1 .. Len(r[a]) : Sender(r[a][k]) \in Peers
  BY <1>1, StepAt, SenderOf
<1> QED
  BY <1>2, <1>3 DEF Linkable

LEMMA FirstPeer ==
  ASSUME NEW p, Program(p), NEW a \in 1 .. Len(p)
  PROVE  p[a][1].i \in Peers
<1>1. Script(p[a])
  BY DEF Program
<1> QED
  BY <1>1, FirstOfScript, StepParts

LEMMA FreshStartable ==
  ASSUME NEW p, Program(p), \A i \in Peers : ~running[i] /\ gen[i] < MaxStarts
  PROVE  Startable(p)
  BY FirstPeer DEF Startable

LEMMA HarnessInit ==
  ASSUME ServiceInit
  PROVE  HarnessInv
<1>1. StateInv /\ \A i \in Peers : ~running[i] /\ gen[i] < MaxStarts
  BY FreshState DEF ServiceInit
<1>2. CASE kind = "raft" /\ todo = make_config
  <2> DEFINE r == make_config
  <2>1. Program(r) /\ OfKind(r, kind) /\ Opened(r, N + N)
    BY <1>2, MakeConfigProgram
  <2>2. PICK p, q : /\ JoinOf(r, p, N, q, N) /\ Opened(p, N) /\ Opened(q, N)
                    /\ \A k \in 1 .. N : p[k] = start1(k - 1) /\ q[k] = connect(k - 1)
    BY MakeConfigProgram
  <2>3. todo = r
    BY <1>2, SMT
  <2> HIDE DEF r
  <2>4. ASSUME NEW k \in 1 .. N PROVE Makes(p[k]) /\ p[k][1].i = k - 1
    <3> DEFINE s == start1(k - 1)
    <3>1. Is(s, k - 1, "detach", "serve", CrashNames \cup {"make", "serve"}) /\ Makes(s)
      BY PeerOf, StartIs
    <3>2. p[k] = s
      BY <2>2
    <3> HIDE DEF s
    <3> QED
      BY <3>1, <3>2 DEF Is
  <2>5. Linkable(r)
    BY <2>1, <2>2, <2>4, MadeLinkable DEF InOrder
  <2>6. Startable(r) /\ NewProgram(r, kind)
    BY <1>1, <2>1, FreshStartable, OpenedNew
  <2> QED
    BY <1>1, <2>3, <2>5, <2>6, NewTodo DEF HarnessInv
<1>3. CASE kind = "kvraft" /\ todo = make_kv_config
  <2> DEFINE r == make_kv_config
  <2>1. Program(r) /\ OfKind(r, kind) /\ Opened(r, N + N)
    BY <1>3, MakeKvConfigProgram
  <2>2. PICK p : JoinOf(r, p, N, ConnectAll, N) /\ Opened(p, N) /\ Starts(p, "make")
    BY MakeKvConfigProgram
  <2>3. todo = r
    BY <1>3, SMT
  <2> HIDE DEF r
  <2>4. ASSUME NEW k \in 1 .. N PROVE Makes(p[k]) /\ p[k][1].i = k - 1
    <3>1. "make" \in MakeNames
      BY DEF MakeNames
    <3> DEFINE s == <<Op("make", k - 1), Op("serve", k - 1)>>
    <3>2. Is(s, k - 1, "make", "serve", {"make", "serve"}) /\ Makes(s)
      BY <3>1, PeerOf, MadeIs
    <3>3. p[k] = s
      BY <2>2 DEF Starts
    <3> HIDE DEF s
    <3> QED
      BY <3>2, <3>3 DEF Is
  <2>5. Linkable(r)
    BY <2>1, <2>2, <2>4, MadeLinkable DEF InOrder
  <2>6. Startable(r) /\ NewProgram(r, kind)
    BY <1>1, <2>1, FreshStartable, OpenedNew
  <2> QED
    BY <1>1, <2>3, <2>5, <2>6, NewTodo DEF HarnessInv
<1>4. CASE kind = "shardkv" /\ todo = StartGroup
  <2> DEFINE p == StartGroup
  <2>1. Program(p) /\ OfKind(p, kind) /\ Opened(p, N) /\ Starts(p, "make enabled")
    BY <1>4, StartGroupProgram
  <2>2. p = [k \in 1 .. N |-> p[k]] /\ "make enabled" \in MakeNames
    BY DEF StartGroup, MakeNames
  <2>3. todo = p
    BY <1>4, SMT
  <2> HIDE DEF p
  <2>4. InOrder(p, N) /\ Linkless(p, N)
    BY <2>1, <2>2, StartsOpened
  <2>5. Startable(p) /\ Linkable(p)
    BY <1>1, <2>1, <2>4, StartsStartable
  <2>6. NewProgram(p, kind)
    BY <2>1, OpenedNew
  <2> QED
    BY <1>1, <2>3, <2>5, <2>6, NewTodo DEF HarnessInv
<1> QED
  BY <1>2, <1>3, <1>4 DEF ServiceInit

----------------------------------------------------------------------------
(***************************************************************************)
(* The theorems.                                                            *)
(***************************************************************************)
LEMMA RaftSafe ==
  ASSUME HarnessInv, kind = "raft", Next, UNCHANGED serviceVars
  PROVE  Safe
<1>0. kind' = kind
  BY DEF serviceVars
<1>1. CASE Continue
  <2>1. Tester
    BY <1>1 DEF Tester
  <2> QED
    BY <2>1, TesterStep, KeptDown DEF Safe
<1>2. ASSUME NEW i \in Peers, Crash(i) \/ Start(i) \/ Attach(i) \/ Detach(i) PROVE Safe
  BY <1>0, <1>2, RaftBegins, KeptDown DEF Safe
<1>3. CASE cleanup \/ \E unrel \in BOOLEAN : setunreliable(unrel)
  BY <1>0, <1>3, SettingsSafe
<1>4. ASSUME NEW c \in Calls, RaftCalls(c) PROVE Safe
  BY <1>0, <1>4, CallsSafe
<1>5. CASE NetworkSteps
  BY <1>0, <1>5, NetworkSafe
<1> QED
  BY <1>1, <1>2, <1>3, <1>4, <1>5 DEF Next

LEMMA ServiceSafe ==
  ASSUME HarnessInv, ServiceNext
  PROVE  Safe
<1>1. CASE kind = "raft" /\ Next /\ UNCHANGED serviceVars
  BY <1>1, RaftSafe
<1>2. CASE ContinueService
  <2>1. Tester
    BY <1>2 DEF Tester
  <2> QED
    BY <2>1, TesterStep, KeptDown DEF Safe
<1>3. ASSUME NEW i \in Peers, Shutdown(i) PROVE Safe
  BY <1>3, ShutdownBegins, KeptDown DEF Safe
<1>4. ASSUME NEW i \in Peers, Restart(i) PROVE Safe
  BY <1>4, RestartBegins, KeptDown DEF Safe
<1>5. CASE Reconnect
  BY <1>5, ReconnectBegins, KeptDown DEF Safe
<1>6. CASE Split
  BY <1>6, SplitBegins, KeptDown DEF Safe
<1>7. CASE Groups
  BY <1>7, GroupsBegin, KeptDown DEF Safe
<1>8. ASSUME NEW ck \in Clerks, makeClient(ck) PROVE Safe
  BY <1>8, ClientSafe
<1>9. ASSUME NEW e \in ends, ConnectClient(e) PROVE Safe
  BY <1>9, ConnectSafe
<1>10. ASSUME NEW e \in EndNames, make_end(e) PROVE Safe
  BY <1>10, MakeEndSafe
<1>11. ASSUME \/ cleanup \/ NetworkSteps
              \/ \E unrel \in BOOLEAN : setunreliable(unrel)
              \/ \E c \in Calls : RaftCalls(c),
              UNCHANGED serviceVars
       PROVE  Safe
  <2>1. kind' = kind
    BY <1>11 DEF serviceVars
  <2>2. CASE cleanup \/ \E unrel \in BOOLEAN : setunreliable(unrel)
    BY <2>1, <2>2, SettingsSafe
  <2>3. CASE NetworkSteps
    BY <2>1, <2>3, NetworkSafe
  <2>4. ASSUME NEW c \in Calls, RaftCalls(c) PROVE Safe
    BY <2>1, <2>4, CallsSafe
  <2> QED
    BY <1>11, <2>2, <2>3, <2>4
<1> QED
  BY <1>1, <1>2, <1>3, <1>4, <1>5, <1>6, <1>7, <1>8, <1>9, <1>10, <1>11 DEF ServiceNext

LEMMA StutterSafe ==
  ASSUME HarnessInv, UNCHANGED allVars
  PROVE  Safe
<1>1. TestedSame /\ CallsSame /\ todo' = todo
  BY DEF allVars, vars, netVars, cfgVars, callVars, serviceVars, TestedSame, SavedSame, CallsSame
<1> QED
  BY <1>1, SameSafe

\* The harness always satisfies its invariant.
LEMMA HarnessAlways == ServiceSpec => []HarnessInv
<1>1. ServiceInit => HarnessInv
  BY HarnessInit
<1>2. HarnessInv /\ [ServiceNext]_allVars => HarnessInv'
  BY ServiceSafe, StutterSafe DEF Safe
<1> QED
  BY <1>1, <1>2, PTL DEF ServiceSpec

LEMMA SavedAnswers ==
  ASSUME HarnessInv
  PROVE  AcknowledgedSurvives
  BY SavedIsKept DEF HarnessInv, StateInv, CallInv, AcknowledgedSurvives

LEMMA OldEnds ==
  ASSUME HarnessInv
  PROVE  OldEndsStayDisabled
  BY DEF HarnessInv, StateInv, EndInv, OldEndsStayDisabled

\* What a call that returned true changed is in the state from which its server
\* is, or will be, restarted: however the tester shuts servers down and starts
\* them (crash1, start1, ShutdownServer, StartServer), and however the goroutines
\* of the calls and of instances that were killed go on between its steps.
THEOREM AcknowledgedIsSaved == ServiceSpec => []AcknowledgedSurvives
  BY HarnessAlways, SavedAnswers, PTL

\* An end is enabled only if it belongs to the instance that runs now, so an
\* instance that crash1 or ShutdownServer took down sends nothing with the ends it
\* was given.
THEOREM OldEndsAreDisabled == ServiceSpec => []OldEndsStayDisabled
  BY HarnessAlways, OldEnds, PTL

\* Nothing changes the state of a server that is down, and a new instance starts
\* from exactly this state.
THEOREM DownServersKeepState == ServiceSpec => DownServerKeepsState
<1>1. HarnessInv /\ [ServiceNext]_allVars => [\A i \in Peers : ~running[i] => saved(i)' = saved(i)]_vars
  BY ServiceSafe, StutterSafe DEF Safe, DownKept
<1> QED
  BY <1>1, HarnessAlways, PTL DEF ServiceSpec, DownServerKeepsState

----------------------------------------------------------------------------
(***************************************************************************)
(* The links: the test calls an operation.                                  *)
(***************************************************************************)
LEMMA PendingOf ==
  ASSUME NEW p, Program(p), NEW o \in Pending(p)
  PROVE  \E a \in 1 .. Len(p) : /\ o.i = p[a][1].i /\ Has(p[a], o.op, o.j)
                                /\ \A names : Named(p[a], names) => o.op \in names
<1>1. PICK a \in 1 .. Len(p) : \E k \in 1 .. Len(p[a]) : p[a][k] = o
  BY DEF Pending
<1>2. PICK k \in 1 .. Len(p[a]) : p[a][k] = o
  BY <1>1
<1>3. p[a][k].i = p[a][1].i
  BY DEF Program, Script
<1> QED
  BY <1>2, <1>3 DEF Has, Named

LEMMA PendingHas ==
  ASSUME NEW p, Program(p), NEW a \in 1 .. Len(p), NEW name, NEW j, Has(p[a], name, j)
  PROVE  \E o \in Pending(p) : o.op = name /\ o.i = p[a][1].i /\ o.j = j
<1>1. PICK k \in 1 .. Len(p[a]) : p[a][k].op = name /\ p[a][k].j = j
  BY DEF Has
<1>2. p[a][k].i = p[a][1].i
  BY DEF Program, Script
<1>3. p \in Seq(Seq(Steps))
  BY DEF Program
<1>4. p[a][k] \in Steps
  BY <1>3, StepAt
<1>5. p[a][k] \in Pending(p)
  BY <1>4 DEF Pending
<1> QED
  BY <1>1, <1>2, <1>5

LEMMA TouchedBy ==
  ASSUME NEW p, Program(p), NEW a \in 1 .. Len(p), NEW names, NEW name \in names, NEW x, Has(p[a], name, x)
  PROVE  /\ name \in OutNames => Touched(p, names, p[a][1].i, x)
         /\ name \in InNames => Touched(p, names, x, p[a][1].i)
<1>0. \E o \in Pending(p) : o.op = name /\ o.i = p[a][1].i /\ o.j = x
  BY PendingHas, SMT
<1>1. PICK o \in Pending(p) : o.op = name /\ o.i = p[a][1].i /\ o.j = x
  BY <1>0
<1> QED
  BY <1>1 DEF Touched, Touches

LEMMA ComingBy ==
  ASSUME NEW p, Program(p), NEW a \in 1 .. Len(p), Makes(p[a])
  PROVE  Coming(p, p[a][1].i)
<1>1. PICK k \in 1 .. Len(p[a]) : Making(p[a][k])
  BY DEF Makes
<1>2. p[a][k].i = p[a][1].i
  BY DEF Program, Script
<1>3. p \in Seq(Seq(Steps))
  BY DEF Program
<1>4. p[a][k] \in Steps
  BY <1>3, StepAt
<1>5. p[a][k] \in Pending(p)
  BY <1>4 DEF Pending
<1> QED
  BY <1>1, <1>2, <1>5 DEF Coming

\* Steps of these names do not touch an end.
LEMMA NotTouched ==
  ASSUME NEW p, NEW names, Apart(names, OnNames \cup OffNames), NEW i, NEW j,
         \A o \in Pending(p) : o.op \in names
  PROVE  ~Touched(p, OnNames, i, j) /\ ~Touched(p, OffNames, i, j)
  BY DEF Apart, Touched

LEMMA BetweenLinks ==
  ASSUME LinksInv, todo = <<>>, NEW i \in Peers, NEW j \in Peers
  PROVE  /\ gen[i] > 0 /\ endname(i, j) \in ends
         /\ kind = "raft" => (Open(i, j) <=> Linked(i, j))
         /\ kind # "raft" => (Open(i, j) <=> j \in group[i])
<1>1. \A names : ~Touched(todo, names, i, j)
  BY NonePending DEF Touched
<1>2. ~Coming(todo, i)
  BY NonePending DEF Coming
<1>3. gen[i] > 0
  BY <1>2 DEF LinksInv
<1>4. endname(i, j) \in ends /\ IF kind = "raft" THEN RaftPair(i, j) ELSE ServicePair(i, j)
  BY <1>3 DEF LinksInv
<1>5. CASE kind = "raft"
  BY <1>1, <1>3, <1>4, <1>5 DEF RaftPair
<1>6. CASE kind # "raft"
  BY <1>1, <1>2, <1>3, <1>4, <1>6 DEF ServicePair
<1> QED
  BY <1>3, <1>4, <1>5, <1>6

LEMMA BeginLinks ==
  ASSUME LinksInv, NEW p, Begin(p), kind' = kind, kind # "raft" => \A i, j \in Peers : BegunPair(p, i, j)
  PROVE  LinksInv'
<1>1. /\ todo = <<>> /\ todo' = p /\ gen' = gen /\ connected' = connected /\ ends' = ends /\ enabled' = enabled
  BY DEF Begin, netVars
<1>2. \A i, j : Open(i, j)' = Open(i, j) /\ endname(i, j)' = endname(i, j) /\ Linked(i, j)' = Linked(i, j)
  BY <1>1 DEF Open, endname, Linked
<1>3. ASSUME NEW i \in Peers, NEW j \in Peers
      PROVE  /\ gen[i] > 0 /\ endname(i, j) \in ends
             /\ kind = "raft" => (Open(i, j) <=> Linked(i, j))
             /\ kind # "raft" => (Open(i, j) <=> j \in group[i])
  BY <1>1, BetweenLinks
<1>4. ASSUME kind = "raft", NEW i \in Peers, NEW j \in Peers PROVE RaftPair(i, j)'
  BY <1>2, <1>3, <1>4 DEF RaftPair
<1>5. ASSUME kind # "raft", NEW i \in Peers, NEW j \in Peers PROVE ServicePair(i, j)'
  <2>1. BegunPair(p, i, j) /\ (Open(i, j)' <=> j \in group[i])
    BY <1>2, <1>3, <1>5
  <2> QED
    BY <1>1, <2>1 DEF BegunPair, ServicePair
<1>6. \A i \in Peers : gen'[i] > 0
  BY <1>1, <1>3
<1> QED
  BY <1>1, <1>2, <1>3, <1>4, <1>5, <1>6 DEF LinksInv

\* A single script.
LEMMA SinglePending ==
  ASSUME NEW s, NEW i, NEW f, NEW l, NEW A, Is(s, i, f, l, A), NEW what, NewProgram(<<s>>, what)
  PROVE  /\ Program(<<s>>) /\ 1 \in 1 .. Len(<<s>>) /\ <<s>>[1] = s /\ s[1].i = i
         /\ \A o \in Pending(<<s>>) : o.op \in A /\ o.i = i
<1> DEFINE p == <<s>>
<1>1. Len(p) = 1 /\ p[1] = s /\ 1 .. 1 = {1}
  BY OnlyOne
<1>2. Program(p)
  BY DEF NewProgram
<1>3. s[1].i = i /\ Named(s, A)
  BY DEF Is, Named
<1> HIDE DEF p
<1>4. ASSUME NEW o \in Pending(p) PROVE o.op \in A /\ o.i = i
  <2>1. \E a \in 1 .. Len(p) : /\ o.i = p[a][1].i /\ Has(p[a], o.op, o.j)
                               /\ \A names : Named(p[a], names) => o.op \in names
    BY <1>2, PendingOf
  <2> QED
    BY <1>1, <1>3, <2>1
<1>5. p = <<s>>
  BY DEF p
<1> QED
  BY <1>1, <1>2, <1>3, <1>4, <1>5

LEMMA ShutdownLinks ==
  ASSUME LinksInv, Grouped, NEW m \in Peers, Shutdown(m)
  PROVE  LinksInv'
<1>1. ASSUME kind = "kvraft", Begin(<<ShutdownServer(m)>>), kind' = kind,
             group' = [x \in Peers |-> IF x = m THEN {} ELSE group[x] \ {m}]
      PROVE  LinksInv'
  <2> DEFINE s == ShutdownServer(m)
             A == ShutNames
             p == <<s>>
  <2>1. Is(s, m, "unlink out", "kill", A) /\ NewProgram(<<s>>, "kvraft") /\ Begin(p)
    BY <1>1, ShutdownIs, ServicePrograms
  <2>2. \A x \in Peers : Has(s, "unlink out", x) /\ Has(s, "unlink in", x)
    BY ShutdownIs DEF Thorough
  <2>3. /\ Apart(A, OnNames) /\ Apart(A, MakeNames) /\ "unlink out" \in Toggles /\ "unlink in" \in Toggles
        /\ "unlink out" \in OutNames /\ "unlink in" \in InNames
    BY DEF Apart, ShutNames, DownNames, OnNames, EnableNames, LinkNames, MakeNames, Toggles, OutNames, InNames
  <2> HIDE DEF s, A
  <2>4. /\ Program(p) /\ 1 \in 1 .. Len(p) /\ p[1] = s /\ s[1].i = m
        /\ \A o \in Pending(p) : o.op \in A /\ o.i = m
    BY <2>1, SinglePending
  <2> HIDE DEF p
  <2>5. \A x \in Peers : Touched(p, Toggles, m, x) /\ Touched(p, Toggles, x, m)
    <3>1. \A x \in Peers : Has(p[1], "unlink out", x) /\ Has(p[1], "unlink in", x)
      BY <2>2, <2>4
    <3>2. \A x \in Peers : Touched(p, Toggles, p[1][1].i, x) /\ Touched(p, Toggles, x, p[1][1].i)
      BY <2>3, <2>4, <3>1, TouchedBy
    <3> QED
      BY <2>4, <3>2
  <2>6. ASSUME NEW i \in Peers, NEW j \in Peers PROVE BegunPair(p, i, j)
    <3>1. group'[i] = IF i = m THEN {} ELSE group[i] \ {m}
      BY <1>1
    <3>2. ~Touched(p, OnNames, i, j)
      BY <2>3, <2>4 DEF Apart, Touched
    <3>3. Touched(p, OffNames, i, j) => i = m \/ j = m
      BY <2>4 DEF Touched, Touches
    <3>4. \A o \in Pending(p) : o.op # "make" /\ o.op # "make enabled"
      BY <2>3, <2>4 DEF Apart, MakeNames
    <3>5. i = m \/ j = m => j \notin group'[i]
      BY <3>1
    <3>6. i # m /\ j # m => (j \in group[i] <=> j \in group'[i])
      BY <3>1
    <3> QED
      BY <2>5, <3>2, <3>3, <3>4, <3>5, <3>6 DEF BegunPair
  <2> QED
    BY <1>1, <2>1, <2>6, BeginLinks
<1>2. ASSUME kind = "shardkv", Begin(<<ShutdownShardServer(m)>>), kind' = kind, group' = [group EXCEPT ![m] = {}]
      PROVE  LinksInv'
  <2> DEFINE s == ShutdownShardServer(m)
             A == ShardShutNames
             p == <<s>>
  <2>1. Is(s, m, "unlink out", "kill", A) /\ NewProgram(<<s>>, "shardkv") /\ Begin(p)
    BY <1>2, ShardShutdownIs, ServicePrograms
  <2>2. \A x \in Peers : Has(s, "unlink out", x)
    BY ShardShutdownIs
  <2>3. /\ Apart(A, OnNames) /\ Apart(A, MakeNames) /\ Apart(A, InNames)
        /\ "unlink out" \in Toggles /\ "unlink out" \in OutNames
    BY DEF Apart, ShardShutNames, DownNames, OnNames, EnableNames, LinkNames, MakeNames, Toggles, OutNames, InNames
  <2> HIDE DEF s, A
  <2>4. /\ Program(p) /\ 1 \in 1 .. Len(p) /\ p[1] = s /\ s[1].i = m
        /\ \A o \in Pending(p) : o.op \in A /\ o.i = m
    BY <2>1, SinglePending
  <2> HIDE DEF p
  <2>5. \A x \in Peers : Touched(p, Toggles, m, x)
    <3>1. \A x \in Peers : Has(p[1], "unlink out", x)
      BY <2>2, <2>4
    <3>2. \A x \in Peers : Touched(p, Toggles, p[1][1].i, x)
      BY <2>3, <2>4, <3>1, TouchedBy
    <3> QED
      BY <2>4, <3>2
  <2>6. Updated(group, group', Peers, m, {})
    BY <1>2, Excepted DEF Grouped
  <2>7. ASSUME NEW i \in Peers, NEW j \in Peers PROVE BegunPair(p, i, j)
    <3>1. (i = m => j \notin group'[i]) /\ (i # m => group'[i] = group[i])
      BY <2>6 DEF Updated
    <3>2. ~Touched(p, OnNames, i, j)
      BY <2>3, <2>4 DEF Apart, Touched
    <3>3. Touched(p, OffNames, i, j) => i = m
      BY <2>3, <2>4 DEF Touched, Touches, Apart
    <3>4. \A o \in Pending(p) : o.op # "make" /\ o.op # "make enabled"
      BY <2>3, <2>4 DEF Apart, MakeNames
    <3> QED
      BY <2>5, <3>1, <3>2, <3>3, <3>4 DEF BegunPair
  <2> QED
    BY <1>2, <2>1, <2>7, BeginLinks
<1> QED
  BY <1>1, <1>2 DEF Shutdown, Call

LEMMA RestartLinks ==
  ASSUME HarnessInv, LinksInv, Grouped, NEW m \in Peers, Restart(m)
  PROVE  LinksInv'
<1>0. ~running[m] /\ todo = <<>>
  BY DEF Restart, Call, Begin
<1>1. ASSUME kind = "kvraft", Begin(<<StartServer(m)>>), kind' = kind, group' = group
      PROVE  LinksInv'
  <2> DEFINE s == StartServer(m)
             A == {"make", "serve"}
             p == <<s>>
  <2>1. Is(s, m, "make", "serve", A) /\ Makes(s) /\ NewProgram(<<s>>, "kvraft") /\ Begin(p)
    <3>1. "make" \in MakeNames
      BY DEF MakeNames
    <3> QED
      BY <1>1, <3>1, MadeIs, ServicePrograms DEF StartServer
  <2>2. Apart(A, OnNames \cup OffNames) /\ "make enabled" \notin A
    BY DEF Apart, OnNames, OffNames, EnableNames, DisableNames, LinkNames, UnlinkNames
  <2> HIDE DEF s, A
  <2>3. /\ Program(p) /\ 1 \in 1 .. Len(p) /\ p[1] = s /\ s[1].i = m
        /\ \A o \in Pending(p) : o.op \in A /\ o.i = m
    BY <2>1, SinglePending
  <2> HIDE DEF p
  <2>4. Coming(p, m)
    BY <2>1, <2>3, ComingBy
  <2>5. ASSUME NEW j \in Peers PROVE j \notin group[m]
    <3>1. endname(m, j) \in ends /\ (Open(m, j) <=> j \in group[m])
      BY <1>0, <1>1, BetweenLinks
    <3>2. EndInv(endname(m, j))
      BY <3>1 DEF HarnessInv, StateInv
    <3>3. endname(m, j)[3] = "raft" /\ endname(m, j)[1] = m
      BY SMT DEF endname
    <3>4. ~Open(m, j)
      BY <1>0, <3>2, <3>3 DEF EndInv, Open
    <3> QED
      BY <3>1, <3>4
  <2>6. ASSUME NEW i \in Peers, NEW j \in Peers PROVE BegunPair(p, i, j)
    <3>1. ~Touched(p, OnNames, i, j) /\ ~Touched(p, OffNames, i, j)
      BY <2>2, <2>3, NotTouched
    <3> QED
      BY <1>1, <2>2, <2>3, <2>4, <2>5, <3>1 DEF BegunPair
  <2> QED
    BY <1>1, <2>1, <2>6, BeginLinks
<1>2. ASSUME kind = "shardkv", Begin(<<StartShardServer(m)>>), kind' = kind, group' = [group EXCEPT ![m] = Peers]
      PROVE  LinksInv'
  <2> DEFINE s == StartShardServer(m)
             A == {"make enabled", "serve"}
             p == <<s>>
  <2>1. Is(s, m, "make enabled", "serve", A) /\ Makes(s) /\ NewProgram(<<s>>, "shardkv") /\ Begin(p)
    <3>1. "make enabled" \in MakeNames
      BY DEF MakeNames
    <3> QED
      BY <1>2, <3>1, MadeIs, ServicePrograms DEF StartShardServer
  <2>2. Apart(A, OnNames \cup OffNames) /\ "make" \notin A
    BY DEF Apart, OnNames, OffNames, EnableNames, DisableNames, LinkNames, UnlinkNames
  <2> HIDE DEF s, A
  <2>3. /\ Program(p) /\ 1 \in 1 .. Len(p) /\ p[1] = s /\ s[1].i = m
        /\ \A o \in Pending(p) : o.op \in A /\ o.i = m
    BY <2>1, SinglePending
  <2> HIDE DEF p
  <2>4. Coming(p, m)
    BY <2>1, <2>3, ComingBy
  <2>5. Updated(group, group', Peers, m, Peers)
    BY <1>2, Excepted DEF Grouped
  <2>6. ASSUME NEW i \in Peers, NEW j \in Peers PROVE BegunPair(p, i, j)
    <3>1. ~Touched(p, OnNames, i, j) /\ ~Touched(p, OffNames, i, j)
      BY <2>2, <2>3, NotTouched
    <3>2. (i = m => j \in group'[i]) /\ (i # m => group'[i] = group[i])
      BY <2>5 DEF Updated
    <3> QED
      BY <2>2, <2>3, <2>4, <3>1, <3>2 DEF BegunPair
  <2> QED
    BY <1>2, <2>1, <2>6, BeginLinks
<1> QED
  BY <1>1, <1>2 DEF Restart, Call

\* Several scripts.
LEMMA NamesPending ==
  ASSUME NEW p, Program(p), NEW names, \A a \in 1 .. Len(p) : Named(p[a], names), NEW o \in Pending(p)
  PROVE  o.op \in names
<1>1. \E a \in 1 .. Len(p) : /\ o.i = p[a][1].i /\ Has(p[a], o.op, o.j)
                             /\ \A ns : Named(p[a], ns) => o.op \in ns
  BY PendingOf
<1> QED
  BY <1>1

LEMMA ConnectAllEach ==
  \A k \in 1 .. N : /\ Is(ConnectAll[k], k - 1, "link out", "link in", LinkNames)
                    /\ \A j \in Peers : Has(ConnectAll[k], "link out", j)
<1>1. SUFFICES ASSUME NEW k \in 1 .. N
               PROVE  /\ Is(connectUnlocked(k - 1, All), k - 1, "link out", "link in", LinkNames)
                      /\ \A j \in Peers : Has(connectUnlocked(k - 1, All), "link out", j)
  BY ConnectAllOpened
<1>2. k - 1 \in Peers /\ List(All, N)
  BY PeerOf, AllServers
<1>3. /\ Is(connectUnlocked(k - 1, All), k - 1, "link out", "link in", LinkNames)
      /\ \A name, j : Has(connectUnlocked(k - 1, All), name, j) <=> name \in LinkNames /\ j \in Range(All)
  BY <1>2, LinkIs
<1>4. "link out" \in LinkNames
  BY DEF LinkNames
<1> QED
  BY <1>3, <1>4, InAll

LEMMA ReconnectLinks ==
  ASSUME LinksInv, Reconnect
  PROVE  LinksInv'
<1> DEFINE p == ConnectAll
<1>1. kind = "kvraft" /\ Begin(p) /\ kind' = kind /\ group' = [i \in Peers |-> Peers]
  BY DEF Reconnect, Call
<1>2. Opened(p, N) /\ Steady(p, N)
  BY ConnectAllOpened
<1>3. \A k \in 1 .. N : /\ Is(p[k], k - 1, "link out", "link in", LinkNames)
                        /\ \A j \in Peers : Has(p[k], "link out", j)
  BY ConnectAllEach
<1> HIDE DEF p
<1>4. Program(p) /\ Len(p) = N
  BY <1>2, SteadyProgram DEF Opened
<1>5. /\ Apart(LinkNames, OffNames) /\ Apart(LinkNames, MakeNames)
      /\ "link out" \in Toggles /\ "link out" \in OutNames
  BY DEF Apart, LinkNames, OffNames, DisableNames, UnlinkNames, MakeNames, Toggles, OutNames
<1>6. \A o \in Pending(p) : o.op \in LinkNames
  <2>1. \A a \in 1 .. Len(p) : Named(p[a], LinkNames)
    BY <1>3, <1>4 DEF Is, Named
  <2> QED
    BY <1>4, <2>1, NamesPending
<1>7. ASSUME NEW i \in Peers, NEW j \in Peers PROVE BegunPair(p, i, j)
  <2>1. i + 1 \in 1 .. Len(p) /\ (i + 1) - 1 = i
    BY <1>4, PlaceOf
  <2>2. p[i + 1][1].i = i /\ Has(p[i + 1], "link out", j)
    BY <1>3, <1>4, <2>1 DEF Is
  <2>3. Touched(p, Toggles, i, j)
    BY <1>4, <1>5, <2>1, <2>2, TouchedBy
  <2>4. ~Touched(p, OffNames, i, j)
    BY <1>5, <1>6 DEF Apart, Touched
  <2>5. \A o \in Pending(p) : o.op # "make" /\ o.op # "make enabled"
    BY <1>5, <1>6 DEF Apart, MakeNames
  <2>6. j \in group'[i]
    BY <1>1
  <2> QED
    BY <2>3, <2>4, <2>5, <2>6 DEF BegunPair
<1> QED
  BY <1>1, <1>7, BeginLinks

LEMMA GroupsLinks ==
  ASSUME LinksInv, Groups
  PROVE  LinksInv'
<1>0. kind = "shardkv" /\ kind' = kind
  BY DEF Groups, Call
<1>1. ASSUME Begin(ShutdownGroup), group' = [i \in Peers |-> {}] PROVE LinksInv'
  <2> DEFINE p == ShutdownGroup
  <2>1. /\ Program(p) /\ Opened(p, N) /\ Begin(p)
        /\ \A k \in 1 .. N : p[k] = ShutdownShardServer(k - 1)
    BY <1>1, ShutdownGroupProgram
  <2>2. ASSUME NEW k \in 1 .. N
        PROVE  /\ Is(p[k], k - 1, "unlink out", "kill", ShardShutNames)
               /\ \A j \in Peers : Has(p[k], "unlink out", j)
    <3>1. /\ Is(ShutdownShardServer(k - 1), k - 1, "unlink out", "kill", ShardShutNames)
          /\ \A j \in Peers : Has(ShutdownShardServer(k - 1), "unlink out", j)
      BY PeerOf, ShardShutdownIs
    <3> HIDE DEF p
    <3> QED
      BY <2>1, <3>1
  <2> HIDE DEF p
  <2>3. Len(p) = N
    BY <2>1 DEF Opened
  <2>4. /\ Apart(ShardShutNames, OnNames) /\ Apart(ShardShutNames, MakeNames)
        /\ "unlink out" \in Toggles /\ "unlink out" \in OutNames
    BY DEF Apart, ShardShutNames, DownNames, OnNames, EnableNames, LinkNames, MakeNames, Toggles, OutNames
  <2>5. \A o \in Pending(p) : o.op \in ShardShutNames
    <3>1. \A a \in 1 .. Len(p) : Named(p[a], ShardShutNames)
      BY <2>2, <2>3 DEF Is, Named
    <3> QED
      BY <2>1, <3>1, NamesPending
  <2>6. ASSUME NEW i \in Peers, NEW j \in Peers PROVE BegunPair(p, i, j)
    <3>1. i + 1 \in 1 .. Len(p) /\ (i + 1) - 1 = i
      BY <2>3, PlaceOf
    <3>2. p[i + 1][1].i = i /\ Has(p[i + 1], "unlink out", j)
      BY <2>2, <2>3, <3>1 DEF Is
    <3>3. Touched(p, Toggles, i, j)
      BY <2>1, <2>4, <3>1, <3>2, TouchedBy
    <3>4. ~Touched(p, OnNames, i, j)
      BY <2>4, <2>5 DEF Apart, Touched
    <3>5. \A o \in Pending(p) : o.op # "make" /\ o.op # "make enabled"
      BY <2>4, <2>5 DEF Apart, MakeNames
    <3>6. j \notin group'[i]
      BY <1>1
    <3> QED
      BY <3>3, <3>4, <3>5, <3>6 DEF BegunPair
  <2> QED
    BY <1>0, <2>1, <2>6, BeginLinks
<1>2. ASSUME Begin(StartGroup), group' = [i \in Peers |-> Peers] PROVE LinksInv'
  <2> DEFINE p == StartGroup
             A == {"make enabled", "serve"}
  <2>1. Program(p) /\ Opened(p, N) /\ Starts(p, "make enabled") /\ Begin(p)
    BY <1>2, StartGroupProgram
  <2>2. p = [k \in 1 .. N |-> p[k]] /\ "make enabled" \in MakeNames
    BY DEF StartGroup, MakeNames
  <2>3. Apart(A, OnNames \cup OffNames) /\ "make" \notin A
    BY DEF Apart, OnNames, OffNames, EnableNames, DisableNames, LinkNames, UnlinkNames
  <2> HIDE DEF p
  <2>4. InOrder(p, N) /\ Len(p) = N /\ \A k \in 1 .. N : Makes(p[k]) /\ Named(p[k], A)
    BY <2>1, <2>2, StartsOpened DEF Opened
  <2> HIDE DEF A
  <2>5. \A o \in Pending(p) : o.op \in A
    BY <2>1, <2>4, NamesPending
  <2>6. ASSUME NEW i \in Peers, NEW j \in Peers PROVE BegunPair(p, i, j)
    <3>1. i + 1 \in 1 .. Len(p) /\ (i + 1) - 1 = i
      BY <2>4, PlaceOf
    <3>2. p[i + 1][1].i = i /\ Makes(p[i + 1])
      BY <2>4, <3>1 DEF InOrder
    <3>3. Coming(p, i)
      BY <2>1, <3>1, <3>2, ComingBy
    <3>4. ~Touched(p, OnNames, i, j) /\ ~Touched(p, OffNames, i, j)
      BY <2>3, <2>5, NotTouched
    <3>5. j \in group'[i]
      BY <1>2
    <3> QED
      BY <2>3, <2>5, <3>3, <3>4, <3>5 DEF BegunPair
  <2> QED
    BY <1>0, <2>1, <2>6, BeginLinks
<1> QED
  BY <1>1, <1>2 DEF Groups, Call

LEMMA RaftBeginLinks ==
  ASSUME LinksInv, NEW i \in Peers, kind = "raft", kind' = kind, Crash(i) \/ Start(i) \/ Attach(i) \/ Detach(i)
  PROVE  LinksInv'
<1>1. \E p : Begin(p)
  BY DEF Crash, Start, Attach, Detach
<1>2. PICK p : Begin(p)
  BY <1>1
<1> QED
  BY <1>2, BeginLinks

----------------------------------------------------------------------------
(***************************************************************************)
(* The links: the beginning.                                                *)
(***************************************************************************)
\* The first of two programs makes every server.
LEMMA FirstComing ==
  ASSUME NEW r, NEW p, NEW q, Program(r), Opened(r, N + N), JoinOf(r, p, N, q, N),
         \A k \in 1 .. N : Makes(p[k]) /\ p[k][1].i = k - 1, NEW i \in Peers
  PROVE  Coming(r, i)
<1>1. i + 1 \in 1 .. N /\ (i + 1) - 1 = i
  BY PlaceOf
<1>2. i + 1 \in 1 .. Len(r) /\ r[i + 1] = p[i + 1]
  BY <1>1 DEF JoinOf, Opened
<1>3. Makes(r[i + 1]) /\ r[i + 1][1].i = i
  BY <1>1, <1>2
<1> QED
  BY <1>2, <1>3, ComingBy

LEMMA LinksInit ==
  ASSUME ServiceInit
  PROVE  LinksInv /\ Grouped
<1>1. ASSUME NEW i \in Peers PROVE ~(gen[i] > 0)
  <2>1. gen[i] = 0
    BY FreshFacts DEF ServiceInit
  <2>2. ~(0 > 0)
    BY SMT
  <2> QED
    BY <2>1, <2>2
<1>2. Grouped /\ \A i \in Peers : group[i] = Peers
  BY DEF ServiceInit, Grouped, IsFun
<1>3. CASE kind = "raft" /\ todo = make_config
  <2> DEFINE r == make_config
  <2>1. Program(r) /\ Opened(r, N + N)
    BY MakeConfigProgram
  <2>2. PICK p, q : /\ JoinOf(r, p, N, q, N) /\ Opened(p, N) /\ Opened(q, N)
                    /\ \A k \in 1 .. N : p[k] = start1(k - 1) /\ q[k] = connect(k - 1)
    BY MakeConfigProgram
  <2>3. todo = r
    BY <1>3, SMT
  <2> HIDE DEF r
  <2>4. ASSUME NEW k \in 1 .. N PROVE Makes(p[k]) /\ p[k][1].i = k - 1
    <3> DEFINE s == start1(k - 1)
    <3>1. Is(s, k - 1, "detach", "serve", CrashNames \cup {"make", "serve"}) /\ Makes(s)
      BY PeerOf, StartIs
    <3>2. p[k] = s
      BY <2>2
    <3> HIDE DEF s
    <3> QED
      BY <3>1, <3>2 DEF Is
  <2>5. \A i \in Peers : Coming(todo, i)
    BY <2>1, <2>2, <2>3, <2>4, FirstComing
  <2>6. \A i, j \in Peers : RaftPair(i, j)
    BY <1>1 DEF RaftPair
  <2> QED
    BY <1>1, <1>2, <1>3, <2>5, <2>6 DEF LinksInv
<1>4. CASE kind = "kvraft" /\ todo = make_kv_config
  <2> DEFINE r == make_kv_config
             A == {"make", "serve"} \cup LinkNames
  <2>1. Program(r) /\ Opened(r, N + N)
    BY MakeKvConfigProgram
  <2>2. PICK p : JoinOf(r, p, N, ConnectAll, N) /\ Opened(p, N) /\ Starts(p, "make")
    BY MakeKvConfigProgram
  <2>3. todo = r
    BY <1>4, SMT
  <2> HIDE DEF r
  <2>4. ASSUME NEW k \in 1 .. N PROVE Makes(p[k]) /\ p[k][1].i = k - 1 /\ Named(p[k], A)
    <3>1. "make" \in MakeNames
      BY DEF MakeNames
    <3> DEFINE s == <<Op("make", k - 1), Op("serve", k - 1)>>
    <3>2. Is(s, k - 1, "make", "serve", {"make", "serve"}) /\ Makes(s)
      BY <3>1, PeerOf, MadeIs
    <3>3. p[k] = s
      BY <2>2 DEF Starts
    <3> HIDE DEF s
    <3> QED
      BY <3>2, <3>3 DEF Is, Named
  <2>5. ASSUME NEW a \in 1 .. Len(r) PROVE Named(r[a], A)
    <3>1. a \in 1 .. N + N
      BY <2>1 DEF Opened
    <3>2. a \in 1 .. N \/ \E x \in 1 .. N : a = N + x
      BY <2>2, <3>1 DEF JoinOf
    <3>3. CASE a \in 1 .. N
      BY <2>2, <2>4, <3>3 DEF JoinOf
    <3>4. ASSUME NEW x \in 1 .. N, a = N + x PROVE Named(r[a], A)
      <4>1. r[a] = ConnectAll[x]
        BY <2>2, <3>4 DEF JoinOf
      <4>2. Is(ConnectAll[x], x - 1, "link out", "link in", LinkNames)
        BY ConnectAllEach
      <4> QED
        BY <4>1, <4>2 DEF Is, Named
    <3> QED
      BY <3>2, <3>3, <3>4
  <2>6. /\ Apart(A, OffNames) /\ "make enabled" \notin A
        /\ "link out" \in Toggles /\ "link out" \in OutNames
    BY DEF Apart, LinkNames, OffNames, DisableNames, UnlinkNames, Toggles, OutNames
  <2> HIDE DEF A
  <2>7. \A o \in Pending(r) : o.op \in A
    BY <2>1, <2>5, NamesPending
  <2>8. \A i \in Peers : Coming(r, i)
    BY <2>1, <2>2, <2>4, FirstComing
  <2>9. ASSUME NEW i \in Peers, NEW j \in Peers PROVE ServicePair(i, j)
    <3>1. i + 1 \in 1 .. N /\ (i + 1) - 1 = i
      BY PlaceOf
    <3> DEFINE a == N + (i + 1)
    <3>2. a \in 1 .. Len(r) /\ r[a] = ConnectAll[i + 1]
      BY <2>1, <2>2, <3>1 DEF JoinOf, Opened
    <3>3. Is(ConnectAll[i + 1], i, "link out", "link in", LinkNames) /\ Has(ConnectAll[i + 1], "link out", j)
      BY <3>1, ConnectAllEach
    <3> HIDE DEF a
    <3>4. r[a][1].i = i /\ Has(r[a], "link out", j)
      BY <3>2, <3>3 DEF Is
    <3>5. Touched(r, Toggles, i, j)
      BY <2>1, <2>6, <3>2, <3>4, TouchedBy
    <3>6. ~Touched(r, OffNames, i, j)
      BY <2>6, <2>7 DEF Apart, Touched
    <3>7. j \in group[i]
      BY <1>2
    <3> QED
      BY <2>3, <3>5, <3>6, <3>7 DEF ServicePair
  <2> QED
    BY <1>1, <1>2, <1>4, <2>3, <2>8, <2>9 DEF LinksInv
<1>5. CASE kind = "shardkv" /\ todo = StartGroup
  <2> DEFINE p == StartGroup
             A == {"make enabled", "serve"}
  <2>1. Program(p) /\ Opened(p, N) /\ Starts(p, "make enabled")
    BY StartGroupProgram
  <2>2. p = [k \in 1 .. N |-> p[k]] /\ "make enabled" \in MakeNames
    BY DEF StartGroup, MakeNames
  <2>3. Apart(A, OnNames \cup OffNames) /\ "make" \notin A
    BY DEF Apart, OnNames, OffNames, EnableNames, DisableNames, LinkNames, UnlinkNames
  <2>4. todo = p
    BY <1>5, SMT
  <2> HIDE DEF p
  <2>5. InOrder(p, N) /\ Len(p) = N /\ \A k \in 1 .. N : Makes(p[k]) /\ Named(p[k], A)
    BY <2>1, <2>2, StartsOpened DEF Opened
  <2> HIDE DEF A
  <2>6. \A o \in Pending(p) : o.op \in A
    BY <2>1, <2>5, NamesPending
  <2>7. ASSUME NEW i \in Peers PROVE Coming(p, i)
    <3>1. i + 1 \in 1 .. Len(p) /\ (i + 1) - 1 = i
      BY <2>5, PlaceOf
    <3>2. p[i + 1][1].i = i /\ Makes(p[i + 1])
      BY <2>5, <3>1 DEF InOrder
    <3> QED
      BY <2>1, <3>1, <3>2, ComingBy
  <2>8. ASSUME NEW i \in Peers, NEW j \in Peers PROVE ServicePair(i, j)
    <3>1. ~Touched(p, OnNames, i, j) /\ ~Touched(p, OffNames, i, j)
      BY <2>3, <2>6, NotTouched
    <3>2. j \in group[i]
      BY <1>2
    <3> QED
      BY <2>3, <2>4, <2>6, <2>7, <3>1, <3>2 DEF ServicePair
  <2> QED
    BY <1>1, <1>2, <1>5, <2>4, <2>7, <2>8 DEF LinksInv
<1> QED
  BY <1>3, <1>4, <1>5 DEF ServiceInit

----------------------------------------------------------------------------
(***************************************************************************)
(* The links: a partition into two halves with no server in common.         *)
(***************************************************************************)
LEMMA PartitionLinks ==
  ASSUME LinksInv, NEW n \in 0 .. N, NEW p \in [1 .. n -> Peers], NEW q \in [1 .. N - n -> Peers],
         Range(p) \cup Range(q) = Peers, Range(p) \cap Range(q) = {},
         Call(partition(p, q), [i \in Peers |-> IF i \in Range(p) THEN Range(p) ELSE Range(q)])
  PROVE  LinksInv'
<1> DEFINE m == N - n
           r == partition(p, q)
           R == Range(p)
           S == Range(q)
           g == HalfProgram(p, q)
           h == HalfProgram(q, p)
<1>1. n \in Nat /\ m \in Nat /\ n + m = N
  BY RaftConfigAssumption, SMT
<1>2. p \in [1 .. n -> Peers] /\ q \in [1 .. m -> Peers] /\ R \cup S = Peers
  BY SMT
<1>3. Begin(r) /\ kind' = kind /\ group' = [i \in Peers |-> IF i \in R THEN R ELSE S]
  BY DEF Call
<1>4. (\A k \in 1 .. n : p[k] \in R) /\ (\A i \in R : \E k \in 1 .. n : p[k] = i)
  BY <1>2 DEF Range
<1>5. (\A k \in 1 .. m : q[k] \in S) /\ (\A i \in S : \E k \in 1 .. m : q[k] = i)
  BY <1>2 DEF Range
<1> HIDE DEF m
<1>6. /\ Program(r) /\ Opened(r, n + m) /\ JoinOf(r, g, n, h, m)
      /\ HalfOf(g, n, p, q) /\ HalfOf(h, m, q, p)
  BY <1>1, <1>2, PartitionProgram
<1>7. R \cap S = {}
  OBVIOUS
<1>8. ASSUME NEW s
       PROVE  /\ HalfHas(s, p, q) => \A name, j : (Has(s, name, j) <=> \/ name \in UnlinkNames /\ j \in S
                                                                       \/ name \in LinkNames /\ j \in R)
              /\ HalfHas(s, q, p) => \A name, j : (Has(s, name, j) <=> \/ name \in UnlinkNames /\ j \in R
                                                                       \/ name \in LinkNames /\ j \in S)
  BY DEF HalfHas
<1> HIDE DEF r, R, S, g, h
<1>9. ASSUME NEW k \in 1 .. n
       PROVE  /\ k \in 1 .. Len(r) /\ r[k][1].i = p[k]
              /\ \A name, j : Has(r[k], name, j) <=> \/ name \in UnlinkNames /\ j \in S
                                                     \/ name \in LinkNames /\ j \in R
  <2>1. k \in 1 .. Len(r) /\ r[k] = g[k]
    BY <1>6 DEF JoinOf, Opened
  <2>2. g[k][1].i = p[k] /\ HalfHas(g[k], p, q)
    BY <1>6 DEF HalfOf
  <2> QED
    BY <1>8, <2>1, <2>2
<1>10. ASSUME NEW k \in 1 .. m
       PROVE  /\ n + k \in 1 .. Len(r) /\ r[n + k][1].i = q[k]
              /\ \A name, j : Has(r[n + k], name, j) <=> \/ name \in UnlinkNames /\ j \in R
                                                         \/ name \in LinkNames /\ j \in S
  <2>1. n + k \in 1 .. Len(r) /\ r[n + k] = h[k]
    BY <1>6 DEF JoinOf, Opened
  <2>2. h[k][1].i = q[k] /\ HalfHas(h[k], q, p)
    BY <1>6 DEF HalfOf
  <2> QED
    BY <1>8, <2>1, <2>2
<1>11. ASSUME NEW o \in Pending(r)
       PROVE  \/ o.op \in LinkNames /\ ((o.i \in R /\ o.j \in R) \/ (o.i \in S /\ o.j \in S))
              \/ o.op \in UnlinkNames /\ ((o.i \in R /\ o.j \in S) \/ (o.i \in S /\ o.j \in R))
  <2>1. PICK a \in 1 .. Len(r) : o.i = r[a][1].i /\ Has(r[a], o.op, o.j)
    BY <1>6, PendingOf
  <2>2. a \in 1 .. n \/ \E k \in 1 .. m : a = n + k
    BY <1>6 DEF JoinOf, Opened
  <2>3. CASE a \in 1 .. n
    BY <1>4, <1>9, <2>1, <2>3
  <2>4. ASSUME NEW k \in 1 .. m, a = n + k
        PROVE  \/ o.op \in LinkNames /\ o.i \in S /\ o.j \in S
               \/ o.op \in UnlinkNames /\ o.i \in S /\ o.j \in R
    <3>1. o.i = r[n + k][1].i /\ Has(r[n + k], o.op, o.j)
      BY <2>1, <2>4
    <3> QED
      BY <1>5, <1>10, <3>1
  <2> QED
    BY <2>2, <2>3, <2>4
<1>12. /\ "link out" \in Toggles /\ "link out" \in OutNames /\ "link out" \in LinkNames
       /\ "unlink out" \in Toggles /\ "unlink out" \in OutNames /\ "unlink out" \in UnlinkNames
       /\ Apart(LinkNames, OffNames) /\ Apart(UnlinkNames, OnNames)
       /\ Apart(LinkNames, MakeNames) /\ Apart(UnlinkNames, MakeNames)
  BY DEF Apart, LinkNames, UnlinkNames, OnNames, OffNames, EnableNames, DisableNames, MakeNames, Toggles, OutNames
<1>13. ASSUME NEW i \in Peers, NEW j \in Peers PROVE Touched(r, Toggles, i, j)
  <2>1. j \in R \/ j \in S
    BY <1>2 DEF R, S
  <2>2. i \in R \/ i \in S
    BY <1>2 DEF R, S
  <2>3. CASE i \in R
    <3>1. PICK k \in 1 .. n : p[k] = i
      BY <1>4, <2>3
    <3>2. PICK name \in {"link out", "unlink out"} : Has(r[k], name, j)
      BY <1>9, <1>12, <2>1
    <3>3. k \in 1 .. Len(r) /\ r[k][1].i = i /\ name \in Toggles /\ name \in OutNames
      BY <1>9, <1>12, <3>1, <3>2
    <3>4. Touched(r, Toggles, r[k][1].i, j)
      BY <1>6, <3>2, <3>3, TouchedBy
    <3> QED
      BY <3>3, <3>4
  <2>4. CASE i \in S
    <3>1. PICK k \in 1 .. m : q[k] = i
      BY <1>5, <2>4
    <3>2. PICK name \in {"link out", "unlink out"} : Has(r[n + k], name, j)
      BY <1>10, <1>12, <2>1
    <3>3. n + k \in 1 .. Len(r) /\ r[n + k][1].i = i /\ name \in Toggles /\ name \in OutNames
      BY <1>10, <1>12, <3>1, <3>2
    <3>4. Touched(r, Toggles, r[n + k][1].i, j)
      BY <1>6, <3>2, <3>3, TouchedBy
    <3> QED
      BY <3>3, <3>4
  <2> QED
    BY <2>2, <2>3, <2>4
<1>14. ASSUME NEW i \in Peers, NEW j \in Peers PROVE BegunPair(r, i, j)
  <2>1. group'[i] = IF i \in R THEN R ELSE S
    BY <1>3
  <2>2. Touched(r, OnNames, i, j) => (i \in R /\ j \in R) \/ (i \in S /\ j \in S)
    <3>1. ASSUME NEW o \in Pending(r), o.op \in OnNames, Touches(o, i, j)
          PROVE  (i \in R /\ j \in R) \/ (i \in S /\ j \in S)
      <4>1. (o.i \in R /\ o.j \in R) \/ (o.i \in S /\ o.j \in S)
        BY <1>11, <1>12, <3>1 DEF Apart
      <4>2. (i = o.i /\ j = o.j) \/ (i = o.j /\ j = o.i)
        BY <3>1 DEF Touches
      <4> QED
        BY <4>1, <4>2
    <3> QED
      BY <3>1 DEF Touched
  <2>3. Touched(r, OffNames, i, j) => (i \in R /\ j \in S) \/ (i \in S /\ j \in R)
    <3>1. ASSUME NEW o \in Pending(r), o.op \in OffNames, Touches(o, i, j)
          PROVE  (i \in R /\ j \in S) \/ (i \in S /\ j \in R)
      <4>1. (o.i \in R /\ o.j \in S) \/ (o.i \in S /\ o.j \in R)
        BY <1>11, <1>12, <3>1 DEF Apart
      <4>2. (i = o.i /\ j = o.j) \/ (i = o.j /\ j = o.i)
        BY <3>1 DEF Touches
      <4> QED
        BY <4>1, <4>2
    <3> QED
      BY <3>1 DEF Touched
  <2>4. \A o \in Pending(r) : o.op # "make" /\ o.op # "make enabled"
    BY <1>11, <1>12 DEF Apart, MakeNames
  <2>5. ~(i \in R /\ i \in S) /\ ~(j \in R /\ j \in S)
    BY <1>7
  <2>6. /\ Touched(r, OnNames, i, j) => j \in group'[i]
        /\ Touched(r, OffNames, i, j) => j \notin group'[i]
    BY <2>1, <2>2, <2>3, <2>5
  <2> QED
    BY <1>13, <2>4, <2>6 DEF BegunPair
<1> QED
  BY <1>3, <1>14, BeginLinks

\* Every step keeps the links right, if a partition does.
LEMMA LinksNext ==
  ASSUME HarnessInv, LinksInv, Grouped, ServiceNext, Split => LinksInv'
  PROVE  LinksInv'
<1>1. CASE kind = "raft" /\ Next /\ UNCHANGED serviceVars
  <2>0. kind' = kind
    BY <1>1 DEF serviceVars
  <2>1. CASE Continue
    <3>1. Tester
      BY <1>1, <2>1 DEF Tester
    <3> QED
      BY <3>1, TesterLinks
  <2>2. ASSUME NEW i \in Peers, Crash(i) \/ Start(i) \/ Attach(i) \/ Detach(i) PROVE LinksInv'
    BY <1>1, <2>0, <2>2, RaftBeginLinks
  <2>3. CASE \/ cleanup \/ NetworkSteps
             \/ \E unrel \in BOOLEAN : setunreliable(unrel)
             \/ \E c \in Calls : RaftCalls(c)
    BY <1>1, <2>3, NetworkLinks
  <2> QED
    BY <1>1, <2>1, <2>2, <2>3 DEF Next
<1>2. CASE ContinueService
  <2>1. Tester
    BY <1>2 DEF Tester
  <2> QED
    BY <2>1, TesterLinks
<1>3. ASSUME NEW i \in Peers, Shutdown(i) PROVE LinksInv'
  BY <1>3, ShutdownLinks
<1>4. ASSUME NEW i \in Peers, Restart(i) PROVE LinksInv'
  BY <1>4, RestartLinks
<1>5. CASE Reconnect
  BY <1>5, ReconnectLinks
<1>6. CASE Split
  BY <1>6
<1>7. CASE Groups
  BY <1>7, GroupsLinks
<1>8. ASSUME NEW ck \in Clerks, makeClient(ck) PROVE LinksInv'
  <2> DEFINE new == {<<ck, 1, "clerk", j>> : j \in Peers}
  <2>1. \E to : MakeEnds(new, to)
    BY <1>8 DEF makeClient
  <2>2. \A e \in new : e[3] # "raft"
    BY SMT
  <2> HIDE DEF new
  <2> QED
    BY <2>1, <2>2, NewEndsLinks
<1>9. ASSUME NEW e \in ends, ConnectClient(e) PROVE LinksInv'
  BY <1>9, ClientLinks
<1>10. ASSUME NEW e \in EndNames, make_end(e) PROVE LinksInv'
  <2> DEFINE new == {e}
             to == {e[4]}
  <2>1. MakeEnds(new, to) /\ \A x \in new : x[3] # "raft"
    BY <1>10 DEF make_end
  <2> HIDE DEF new, to
  <2> QED
    BY <2>1, NewEndsLinks
<1>11. ASSUME \/ cleanup \/ NetworkSteps
              \/ \E unrel \in BOOLEAN : setunreliable(unrel)
              \/ \E c \in Calls : RaftCalls(c),
              UNCHANGED serviceVars
       PROVE  LinksInv'
  BY <1>11, NetworkLinks
<1> QED
  BY <1>1, <1>2, <1>3, <1>4, <1>5, <1>6, <1>7, <1>8, <1>9, <1>10, <1>11 DEF ServiceNext

LEMMA GroupedNext ==
  ASSUME Grouped, ServiceNext
  PROVE  Grouped'
<1>1. ASSUME group' = group PROVE Grouped'
  BY <1>1 DEF Grouped, IsFun
<1>2. ASSUME NEW i, NEW v, group' = [group EXCEPT ![i] = v] PROVE Grouped'
  <2>1. Updated(group, group', Peers, i, v)
    BY <1>2, Excepted DEF Grouped
  <2> QED
    BY <2>1 DEF Updated, Grouped, IsFun
<1>3. ASSUME NEW i \in Peers, Shutdown(i) \/ Restart(i) PROVE Grouped'
  <2>1. CASE group' = [j \in Peers |-> IF j = i THEN {} ELSE group[j] \ {i}]
    BY <2>1 DEF Grouped, IsFun
  <2> QED
    BY <1>1, <1>2, <1>3, <2>1 DEF Shutdown, Restart, Call
<1>4. CASE Reconnect \/ Groups
  BY <1>4 DEF Reconnect, Groups, Call, Grouped, IsFun
<1>5. CASE Split
  BY <1>5 DEF Split, Call, Grouped, IsFun
<1>6. ASSUME \/ UNCHANGED serviceVars \/ ContinueService
             \/ \E ck \in Clerks : makeClient(ck)
             \/ \E e \in ends : ConnectClient(e)
             \/ \E e \in EndNames : make_end(e)
      PROVE  group' = group
  BY <1>6 DEF serviceVars, ContinueService, makeClient, ConnectClient, make_end, MakeEnds
<1> QED
  BY <1>1, <1>3, <1>4, <1>5, <1>6 DEF ServiceNext

LEMMA StutterLinks ==
  ASSUME LinksInv, Grouped, UNCHANGED allVars
  PROVE  LinksInv' /\ Grouped'
<1>1. /\ gen' = gen /\ connected' = connected /\ todo' = todo /\ UNCHANGED serviceVars
      /\ ends' = ends /\ enabled' = enabled /\ group' = group
  BY DEF allVars, vars, netVars, cfgVars, serviceVars
<1> QED
  BY <1>1, NetLinks DEF Grouped, IsFun

LEMMA Intended ==
  ASSUME LinksInv
  PROVE  EnabledAsIntended
<1>1. ASSUME todo = <<>>, NEW i \in Peers, NEW j \in Peers
      PROVE  /\ kind = "raft" => (enabled[endname(i, j)] <=> connected[i] /\ connected[j])
             /\ kind # "raft" => (enabled[endname(i, j)] <=> j \in group[i])
  BY <1>1, BetweenLinks DEF Open, Linked
<1> QED
  BY <1>1 DEF EnabledAsIntended, EnabledMatchesConnected

----------------------------------------------------------------------------
(***************************************************************************)
(* The halves have no server in common, by facts about finite sets that     *)
(* are needed only here; and the theorem about the links.                   *)
(***************************************************************************)
fs == INSTANCE FiniteSetTheorems

\* A partition puts every server into one half only: there are N places.
LEMMA HalvesApart ==
  ASSUME NEW n \in Nat, NEW m \in Nat, n + m = N, NEW p \in [1 .. n -> Peers], NEW q \in [1 .. m -> Peers],
         Range(p) \cup Range(q) = Peers
  PROVE  Range(p) \cap Range(q) = {}
<1> DEFINE R == Range(p)
           S == Range(q)
<1>1. ASSUME NEW k \in Nat, NEW f \in [1 .. k -> Peers]
      PROVE  fs!IsFiniteSet(Range(f)) /\ fs!Cardinality(Range(f)) <= k /\ fs!Cardinality(Range(f)) \in Nat
  <2>1. f \in fs!Surjection(1 .. k, Range(f))
    BY DEF fs!Surjection, Range
  <2>2. 1 \in Int /\ k \in Int
    BY SMT
  <2>3. fs!IsFiniteSet(1 .. k) /\ fs!Cardinality(1 .. k) = IF 1 > k THEN 0 ELSE k - 1 + 1
    BY <2>2, fs!FS_Interval
  <2>4. fs!Cardinality(1 .. k) = k
    BY <2>3, SMT
  <2>5. fs!IsFiniteSet(Range(f)) /\ fs!Cardinality(Range(f)) <= k
    <3>1. fs!IsFiniteSet(Range(f)) /\ fs!Cardinality(Range(f)) <= fs!Cardinality(1 .. k)
      BY <2>1, <2>3, fs!FS_Surjection, SMT
    <3> QED
      BY <2>4, <3>1
  <2> QED
    BY <2>5, fs!FS_CardinalityType
<1>2. /\ fs!IsFiniteSet(R) /\ fs!Cardinality(R) <= n /\ fs!Cardinality(R) \in Nat
      /\ fs!IsFiniteSet(S) /\ fs!Cardinality(S) <= m /\ fs!Cardinality(S) \in Nat
  BY <1>1
<1>3. fs!Cardinality(R \cup S) = fs!Cardinality(R) + fs!Cardinality(S) - fs!Cardinality(R \cap S)
  BY <1>2, fs!FS_Union
<1>4. fs!IsFiniteSet(R \cap S)
  <2>1. R \cap S \in SUBSET R
    OBVIOUS
  <2> QED
    BY <1>2, <2>1, fs!FS_Subset
<1>5. fs!Cardinality(R \cap S) \in Nat
  BY <1>4, fs!FS_CardinalityType
<1>6. fs!Cardinality(Peers) = N
  <2>1. 0 \in Int /\ N - 1 \in Int /\ ~(0 > N - 1) /\ (N - 1) - 0 + 1 = N
    BY RaftConfigAssumption, SMT
  <2>2. fs!Cardinality(0 .. N - 1) = IF 0 > N - 1 THEN 0 ELSE (N - 1) - 0 + 1
    BY <2>1, fs!FS_Interval
  <2> QED
    BY <2>1, <2>2 DEF Peers
<1>7. R \cup S = Peers
  OBVIOUS
<1> HIDE DEF R, S
<1>8. fs!Cardinality(R \cap S) = 0
  <2> DEFINE x == fs!Cardinality(R)
             y == fs!Cardinality(S)
             z == fs!Cardinality(R \cap S)
  <2>1. x \in Nat /\ y \in Nat /\ z \in Nat /\ x <= n /\ y <= m /\ N = x + y - z
    BY <1>2, <1>3, <1>5, <1>6, <1>7
  <2> HIDE DEF x, y, z
  <2>2. z = 0
    BY <2>1, SMT
  <2> QED
    BY <2>2 DEF z
<1>9. R \cap S = {}
  BY <1>4, <1>8, fs!FS_EmptySet
<1> QED
  BY <1>9 DEF R, S

LEMMA SplitLinks ==
  ASSUME LinksInv, Split
  PROVE  LinksInv'
<1>1. PICK n \in 0 .. N : \E p \in [1 .. n -> Peers] : \E q \in [1 .. N - n -> Peers] :
        /\ Range(p) \cup Range(q) = Peers
        /\ Call(partition(p, q), [i \in Peers |-> IF i \in Range(p) THEN Range(p) ELSE Range(q)])
  BY DEF Split
<1>2. PICK p \in [1 .. n -> Peers], q \in [1 .. N - n -> Peers] :
        /\ Range(p) \cup Range(q) = Peers
        /\ Call(partition(p, q), [i \in Peers |-> IF i \in Range(p) THEN Range(p) ELSE Range(q)])
  BY <1>1
<1>3. n \in Nat /\ N - n \in Nat /\ n + (N - n) = N
  BY RaftConfigAssumption, SMT
<1>4. Range(p) \cap Range(q) = {}
  BY <1>2, <1>3, HalvesApart
<1> QED
  BY <1>2, <1>4, PartitionLinks

LEMMA LinksAlways == ServiceSpec => [](LinksInv /\ Grouped)
<1>1. ServiceInit => LinksInv /\ Grouped
  BY LinksInit
<1>2. HarnessInv /\ (LinksInv /\ Grouped) /\ [ServiceNext]_allVars => (LinksInv /\ Grouped)'
  BY LinksNext, SplitLinks, GroupedNext, StutterLinks
<1> QED
  BY <1>1, <1>2, HarnessAlways, PTL DEF ServiceSpec

\* Between two operations of a test exactly the intended ends are enabled: those
\* between connected servers (config.go of Raft), or those that the config of a
\* service was last told to enable, whatever the test has called before, however
\* it partitions the servers, and though every end is switched by a step of its own.
THEOREM EndsAreAsIntended == ServiceSpec => []EnabledAsIntended
  BY LinksAlways, Intended, PTL
=============================================================================
