---------------------------- MODULE ServiceConfig ----------------------------
(***************************************************************************)
(* The configs of the services above Raft: kvraft/config.go, and with it    *)
(* shardctrler/config.go, which has the same code, and shardkv/config.go.   *)
(* Their testers shut servers down and start them, partition them, and make *)
(* clerks.  A clerk has ends of its own, which ShutdownServer does not      *)
(* disable: what keeps a clerk from an instance that was shut down is       *)
(* DeleteServer alone.  A server of shardkv makes further ends itself, with *)
(* which an instance that was shut down can go on sending.                  *)
(*                                                                          *)
(* A behaviour is one of a test of Raft (RaftConfig) or of a service; of    *)
(* shardkv's groups, which share no state, there is one, and the ends that  *)
(* lead to its controller are left out.  The test and its partitioner never *)
(* call the config at the same time, so they are the one goroutine of todo; *)
(* clerks are made by other goroutines.                                     *)
(***************************************************************************)
EXTENDS RaftConfig, FiniteSets, Functions

VARIABLES
  kind,         \* which config it is: that of "raft", "kvraft" or "shardkv"
  group         \* history: the servers that each server was told to reach

serviceVars == <<kind, group>>
allVars == <<vars, serviceVars>>

----------------------------------------------------------------------------
(***************************************************************************)
(* The operations as sequences of smaller ones.  Every server has endnames  *)
(* when the first one is disconnected, so the checks for nil never fail.    *)
(***************************************************************************)
connectUnlocked(i, to) == ForEach("link out", i, to) \o ForEach("link in", i, to)

\* Seeded fault: only the outgoing ends are disabled.
disconnectOutgoing(i, from) == ForEach("unlink out", i, from)

disconnectUnlocked(i, from) == ForEach("unlink out", i, from) \o ForEach("unlink in", i, from)

ConnectAll == [k \in 1 .. N |-> connectUnlocked(k - 1, All)]

partition(p1, p2) ==
  LET Half(p, q) ==
        [k \in DOMAIN p |-> disconnectUnlocked(p[k], q) \o connectUnlocked(p[k], p)]
  IN Half(p1, p2) \o Half(p2, p1)

\* Seeded fault: the state is copied before clients are kept from the server.
ShutdownCopyFirst(i) ==
  disconnectUnlocked(i, All) \o <<Op("copy", i), Op("delete", i), Op("kill", i)>>

ShutdownServer(i) ==
  disconnectUnlocked(i, All) \o <<Op("delete", i), Op("copy", i), Op("kill", i)>>

StartServer(i) == <<Op("make", i), Op("serve", i)>>

ShutdownShardServer(i) ==
  ForEach("unlink out", i, All) \o <<Op("delete", i), Op("copy", i), Op("kill", i)>>

StartShardServer(i) == <<Op("make enabled", i), Op("serve", i)>>

ShutdownGroup == [k \in 1 .. N |-> ShutdownShardServer(k - 1)]

StartGroup == [k \in 1 .. N |-> StartShardServer(k - 1)]

make_kv_config == [k \in 1 .. N |-> StartServer(k - 1)] \o ConnectAll

\* The first half of n - 1 servers and one more, and the rest with leader l.  If n
\* is even, the others do not fill p1 and p2, which then still hold zeros.
make_partition(n, l) ==
  LET others == SelectSeq([k \in 1 .. n |-> k - 1], LAMBDA i : i # l)
      At(k) == IF k <= Len(others) THEN others[k] ELSE 0
      half == n \div 2
  IN <<[k \in 1 .. half + 1 |-> At(k)],
       [k \in 1 .. half |-> IF k = half THEN l ELSE At(half + 1 + k)]>>

----------------------------------------------------------------------------
ServiceInit ==
  /\ Fresh
  /\ \/ kind = "raft" /\ todo = make_config
     \/ kind = "kvraft" /\ todo = make_kv_config
     \/ kind = "shardkv" /\ todo = StartGroup
  /\ group = [i \in Peers |-> Peers]

\* StartServer of shardkv enables the fresh ends at once.
MakeEnabled(i) ==
  LET inst == <<i, gen[i] + 1>>
      new == {<<i, gen[i] + 1, "raft", j>> : j \in Peers}
  IN /\ gen' = [gen EXCEPT ![i] = @ + 1]
     /\ ends' = ends \cup new
     /\ enabled' = [e \in EndNames |-> e \in new \/ enabled[e]]
     /\ connections' = [e \in EndNames |-> IF e \in new THEN e[4] ELSE connections[e]]
     /\ base' = [base EXCEPT ![inst] = saved(i)]
     /\ attached' = [attached EXCEPT ![i] = TRUE]
     /\ running' = [running EXCEPT ![i] = TRUE]
     /\ UNCHANGED <<reliable, servers, done, loop, callVars, excused, connected, copy>>

PerformService(o) ==
  CASE o.op = "link out" -> SetEnabled(TRUE, endname(o.i, o.j), TRUE)
    [] o.op = "link in" -> SetEnabled(TRUE, endname(o.j, o.i), TRUE)
    [] o.op = "unlink out" -> SetEnabled(TRUE, endname(o.i, o.j), FALSE)
    [] o.op = "unlink in" -> SetEnabled(TRUE, endname(o.j, o.i), FALSE)
    [] o.op = "make enabled" -> MakeEnabled(o.i)
    [] OTHER -> Perform(o)

ContinueService ==
  /\ kind # "raft"
  /\ todo # <<>>
  /\ PerformService(todo[1][1])
  /\ todo' = Rest
  /\ UNCHANGED <<ops, serviceVars>>

\* The test calls operations after which the servers are to reach groups.
Call(scripts, groups) ==
  /\ Begin(scripts)
  /\ group' = groups
  /\ UNCHANGED kind

Shutdown(i) ==
  /\ running[i]
  /\ \/ kind = "kvraft" /\ Call(<<ShutdownServer(i)>>, [j \in Peers |-> IF j = i THEN {} ELSE group[j] \ {i}])
     \/ kind = "shardkv" /\ Call(<<ShutdownShardServer(i)>>, [group EXCEPT ![i] = {}])

Restart(i) ==
  /\ ~running[i] /\ gen[i] < MaxStarts
  /\ \/ kind = "kvraft" /\ Call(<<StartServer(i)>>, group)
     \/ kind = "shardkv" /\ Call(<<StartShardServer(i)>>, [group EXCEPT ![i] = Peers])

AllRunning == \A i \in Peers : running[i]

\* Tests connect and partition servers only while all of them run.
Reconnect ==
  /\ kind = "kvraft" /\ AllRunning
  /\ Call(ConnectAll, [i \in Peers |-> Peers])

\* A test lists each server in one of two halves, which make_partition may choose.
Split ==
  /\ kind = "kvraft" /\ AllRunning
  /\ \E n \in 0 .. N : \E p1 \in [1 .. n -> Peers], p2 \in [1 .. N - n -> Peers] :
       /\ Range(p1) \cup Range(p2) = Peers
       /\ Call(partition(p1, p2), [i \in Peers |-> IF i \in Range(p1) THEN Range(p1) ELSE Range(p2)])

Groups ==
  /\ kind = "shardkv"
  /\ \/ AllRunning /\ Call(ShutdownGroup, [i \in Peers |-> {}])
     \/ /\ \A i \in Peers : ~running[i] /\ gen[i] < MaxStarts
        /\ Call(StartGroup, [i \in Peers |-> Peers])

----------------------------------------------------------------------------
(***************************************************************************)
(* The clerks, and the ends that a server of shardkv makes.                 *)
(***************************************************************************)
\* ShutdownServer and StartServer give up cfg.mu to kill and to make a server.
Unlocked == todo # <<>> => ops > 0 /\ todo[1][1].op \in {"kill", "serve"}

\* New ends, of which nobody else knows: connected, and enabled if they lead to to.
MakeEnds(new, to) ==
  /\ new \cap ends = {}
  /\ ends' = ends \cup new
  /\ connections' = [e \in EndNames |-> IF e \in new THEN e[4] ELSE connections[e]]
  /\ enabled' = [e \in EndNames |-> IF e \in new THEN e[4] \in to ELSE enabled[e]]
  /\ UNCHANGED <<reliable, servers, done, loop, callVars, excused, cfgVars, serviceVars>>

\* Tests connect a clerk to all servers or to one half of a partition.
makeClient(ck) ==
  /\ kind = "kvraft" /\ Unlocked /\ ~done
  /\ \E to \in {Peers} \cup {group[i] : i \in Peers} : 
       MakeEnds({<<ck, 1, "clerk", j>> : j \in Peers}, to)

\* One end is enabled here; the loop over all of them is several such steps.
ConnectClient(e) ==
  /\ kind = "kvraft" /\ Unlocked /\ ~done
  /\ e[3] = "clerk" /\ ~enabled[e]
  /\ Network(net!Enable(e, TRUE))
  /\ UNCHANGED <<cfgVars, serviceVars>>

\* The function make_end that a clerk of shardkv, and every server of it, was
\* given.  An instance can call it as long as it lives: also after Kill.
\* Bound: an end is made for one call, so there are no more ends than calls.
make_end(e) ==
  /\ kind = "shardkv" /\ ~done
  /\ e[3] = "make_end"
  /\ e[1] \in Peers => e[2] <= gen[e[1]]
  /\ Cardinality({f \in ends : f[3] = "make_end"}) < Cardinality(Calls)
  /\ MakeEnds({e}, {e[4]})

ServiceNext ==
  \/ kind = "raft" /\ Next /\ UNCHANGED serviceVars
  \/ ContinueService
  \/ \E i \in Peers : Shutdown(i) \/ Restart(i)
  \/ Reconnect \/ Split \/ Groups
  \/ \E ck \in Clerks : makeClient(ck)
  \/ \E e \in ends : ConnectClient(e)
  \/ \E e \in EndNames : make_end(e)
  \/ /\ kind # "raft"
     /\ \/ cleanup \/ NetworkSteps
        \/ \E unrel \in BOOLEAN : setunreliable(unrel)
        \/ \E c \in Calls : RaftCalls(c)
     /\ UNCHANGED serviceVars

ServiceSpec == ServiceInit /\ [][ServiceNext]_allVars

----------------------------------------------------------------------------
(***************************************************************************)
(* Properties, besides those of RaftConfig.                                 *)
(***************************************************************************)
\* Between two operations of the test, an end is enabled exactly if the receiver
\* is one that the sender was last told to reach: in its own half of a partition,
\* all servers after ConnectAll, none after ShutdownServer, and after StartServer
\* none until the next ConnectAll (kvraft) or all of them (shardkv).
EnabledAsIntended ==
  IF kind = "raft" THEN EnabledMatchesConnected
  ELSE todo = <<>> => \A i, j \in Peers : enabled[endname(i, j)] <=> j \in group[i]

\* "Partition servers into 2 groups and put current leader in minority": for an
\* odd number of servers, as in every test that calls it, make_partition puts each
\* server into one of two groups, and the leader into the smaller one.
ASSUME LeaderInMinority ==
  \A n \in {3, 5, 7} : \A l \in 0 .. n - 1 :
    LET p1 == Range(make_partition(n, l)[1])  p2 == Range(make_partition(n, l)[2])
    IN /\ p1 \cup p2 = 0 .. n - 1 /\ p1 \cap p2 = {}
       /\ l \in p2 /\ Cardinality(p2) < Cardinality(p1)
=============================================================================
