----------------------------- MODULE RaftConfig -----------------------------
(***************************************************************************)
(* raft/config.go with raft/persister.go over labrpc: the tester crashes    *)
(* and restarts servers, connects and disconnects them, while their         *)
(* instances call each other.  An instance cannot really be killed: it goes *)
(* on calling and executing, so crash1 and start1 isolate it with fresh     *)
(* ClientEnds and a fresh Persister.                                        *)
(*                                                                          *)
(* The tester is one goroutine.  What it still has to do is the sequence    *)
(* todo of calls, each for one server and itself a sequence of steps.  A    *)
(* step is one lock region of the network or of the config, and the         *)
(* goroutines of the RPCs run between any two of them.                      *)
(***************************************************************************)
EXTENDS Naturals, Sequences

CONSTANTS
  N,            \* cfg.n
  MaxStarts,    \* bound: how often a server is started
  MaxOps,       \* bound: how many operations the test calls
  Calls,        \* the RPCs
  Clerks,       \* the clients of a service above Raft, if there is one
  None

ASSUME RaftConfigAssumption == N \in Nat \ {0} /\ MaxStarts \in Nat \ {0} /\ MaxOps \in Nat

Peers == 0 .. N - 1
Instances == Peers \X (1 .. MaxStarts)      \* the g-th Raft made for server i
\* Who sends, to which peer.  The ends are those that config.go gives to a Raft,
\* and those of the configs of services above it, which ServiceConfig adds.
EndNames ==
  (Peers \X (1 .. MaxStarts) \X {"raft", "make_end"} \X Peers) \cup
  (Clerks \X {1} \X {"clerk", "make_end"} \X Peers)

VARIABLES
  reliable, ends, enabled, connections, servers, done, loop,
  call, end, req, view, handler, executed, excused,       \* labrpc
  connected,    \* cfg.connected
  gen,          \* how often server i was started; names cfg.endnames[i]
  running,      \* cfg.rafts[i] # nil
  base,         \* what the Persister of an instance held when it was made
  attached,     \* cfg.saved[i] is the Persister of the instance gen[i]
  copy,         \* the contents of cfg.saved[i] otherwise
  todo,         \* what is left of the tester's current operation
  ops           \* operations started

net == INSTANCE LabRpc WITH
  Ends <- EndNames, Names <- Peers, Servers <- Instances, Hangs <- {}

callVars == <<call, end, req, view, handler, executed>>
netVars == <<reliable, ends, enabled, connections, servers, done, loop, callVars, excused>>
cfgVars == <<connected, gen, running, base, attached, copy, todo, ops>>
savedVars == <<base, attached, copy>>
vars == <<netVars, cfgVars>>

\* endnames[i][j]
endname(i, j) == <<i, gen[i], "raft", j>>

\* The Persister of an instance: a handler saves the request it executes.
disk(inst) == base[inst] \cup executed[inst]

\* The contents of cfg.saved[i].
saved(i) == IF attached[i] THEN disk(<<i, gen[i]>>) ELSE copy[i]

----------------------------------------------------------------------------
(***************************************************************************)
(* The operations of config.go as sequences of smaller ones.                *)
(***************************************************************************)
Op(name, i) == [op |-> name, i |-> i, j |-> i]

ForEach(name, i, to) == [k \in DOMAIN to |-> [op |-> name, i |-> i, j |-> to[k]]]

All == [k \in 1 .. N |-> k - 1]

connect(i) == <<Op("attach", i)>> \o ForEach("enable out", i, All) \o ForEach("enable in", i, All)

disconnect(i) == <<Op("detach", i)>> \o ForEach("disable out", i, All) \o ForEach("disable in", i, All)

\* Seeded fault: the server is not disconnected before it is killed.
crash1Connected(i) == <<Op("delete", i), Op("copy", i), Op("kill", i)>>

crash1(i) == disconnect(i) \o <<Op("delete", i), Op("copy", i), Op("kill", i)>>

start1(i) == crash1(i) \o <<Op("make", i), Op("serve", i)>>

make_config == [k \in 1 .. N |-> start1(k - 1)] \o [k \in 1 .. N |-> connect(k - 1)]

Fresh ==
  /\ net!Init
  /\ connected = [i \in Peers |-> FALSE]
  /\ gen = [i \in Peers |-> 0]
  /\ running = [i \in Peers |-> FALSE]
  /\ base = [inst \in Instances |-> {}]
  /\ attached = [i \in Peers |-> FALSE]
  /\ copy = [i \in Peers |-> {}]
  /\ ops = 0

Init == Fresh /\ todo = make_config

----------------------------------------------------------------------------
(***************************************************************************)
(* The steps.                                                               *)
(***************************************************************************)
\* An operation of the network that the tester calls.
Network(A) == A /\ UNCHANGED <<loop, callVars>> /\ net!Excuse

SetConnected(i, yes) ==
  /\ connected' = [connected EXCEPT ![i] = yes]
  /\ UNCHANGED <<netVars, gen, running, savedVars>>

\* net.Enable for an end that has a name, if it is to be enabled or disabled.
SetEnabled(present, e, yes) ==
  /\ IF present THEN Network(net!Enable(e, yes)) ELSE UNCHANGED netVars
  /\ UNCHANGED <<connected, gen, running, savedVars>>

Delete(i) ==
  /\ Network(net!DeleteServer(i))
  /\ UNCHANGED <<connected, gen, running, savedVars>>

\* Seeded fault: the old instance keeps the Persister that is saved.
SharePersister(i) == UNCHANGED <<netVars, connected, gen, running, savedVars>>

\* cfg.saved[i] = cfg.saved[i].Copy(); a nil saved[i] has no contents either.
CopyPersister(i) ==
  /\ copy' = [copy EXCEPT ![i] = saved(i)]
  /\ attached' = [attached EXCEPT ![i] = FALSE]
  /\ UNCHANGED <<netVars, connected, gen, running, base>>

\* rf.Kill(), and the saved state moves to yet another Persister.
Kill(i) ==
  /\ running' = [running EXCEPT ![i] = FALSE]
  /\ UNCHANGED <<netVars, connected, gen, savedVars>>

\* Fresh names, and for each of them MakeEnd and Connect; the saved state is
\* copied and passed to Make.  Nobody can use the new ends before Make, and the
\* saved state belongs to nobody, so this is one step.
Make(i) ==
  LET g == gen[i] + 1
      new == {<<i, g, "raft", j>> : j \in Peers}
  IN /\ new \cap ends = {}
     /\ gen' = [gen EXCEPT ![i] = g]
     /\ ends' = ends \cup new
     /\ enabled' = [e \in EndNames |-> IF e \in new THEN FALSE ELSE enabled[e]]
     /\ connections' = [e \in EndNames |-> IF e \in new THEN e[4] ELSE connections[e]]
     /\ base' = [base EXCEPT ![<<i, g>>] = saved(i)]
     /\ attached' = [attached EXCEPT ![i] = TRUE]
     /\ running' = [running EXCEPT ![i] = TRUE]
     /\ UNCHANGED <<reliable, servers, done, loop, callVars, excused, connected, copy>>

Serve(i) ==
  /\ Network(net!AddServer(i, <<i, gen[i]>>))
  /\ UNCHANGED <<connected, gen, running, savedVars>>

Perform(o) ==
  CASE o.op = "attach" -> SetConnected(o.i, TRUE)
    [] o.op = "detach" -> SetConnected(o.i, FALSE)
    [] o.op = "enable out" -> SetEnabled(connected[o.j], endname(o.i, o.j), TRUE)
    [] o.op = "enable in" -> SetEnabled(connected[o.j], endname(o.j, o.i), TRUE)
    [] o.op = "disable out" -> SetEnabled(gen[o.i] > 0, endname(o.i, o.j), FALSE)
    [] o.op = "disable in" -> SetEnabled(gen[o.j] > 0, endname(o.j, o.i), FALSE)
    [] o.op = "delete" -> Delete(o.i)
    [] o.op = "copy" -> CopyPersister(o.i)
    [] o.op = "kill" -> Kill(o.i)
    [] o.op = "make" -> Make(o.i)
    [] o.op = "serve" -> Serve(o.i)

\* What is left to do after the next step.
Rest ==
  IF Len(todo[1]) = 1 THEN Tail(todo) ELSE [todo EXCEPT ![1] = Tail(@)]

Continue ==
  /\ todo # <<>>
  /\ Perform(todo[1][1])
  /\ todo' = Rest
  /\ UNCHANGED ops

(***************************************************************************)
(* The test calls the next operation.  Every test connects a server only    *)
(* once it was started.                                                     *)
(***************************************************************************)
Begin(scripts) ==
  /\ todo = <<>>
  /\ ~done
  /\ ops < MaxOps
  /\ todo' = scripts
  /\ ops' = ops + 1
  /\ UNCHANGED <<netVars, connected, gen, running, savedVars>>

Crash(i) == Begin(<<crash1(i)>>)
Start(i) == gen[i] < MaxStarts /\ Begin(<<start1(i)>>)
Attach(i) == running[i] /\ Begin(<<connect(i)>>)
Detach(i) == Begin(<<disconnect(i)>>)

setunreliable(unrel) ==
  /\ todo = <<>>
  /\ ~done
  /\ ops < MaxOps
  /\ ops' = ops + 1
  /\ Network(net!Reliable(~unrel))
  /\ UNCHANGED <<connected, gen, running, savedVars, todo>>

cleanup ==
  /\ todo = <<>>
  /\ Network(net!Cleanup)
  /\ UNCHANGED cfgVars

\* A Raft that was made calls a peer, also after Kill.
RaftCalls(c) ==
  /\ \E e \in ends : net!Call(c, e)
  /\ UNCHANGED cfgVars

NetworkSteps == net!NetworkStep /\ UNCHANGED cfgVars

Next ==
  \/ Continue
  \/ \E i \in Peers : Crash(i) \/ Start(i) \/ Attach(i) \/ Detach(i)
  \/ \E unrel \in BOOLEAN : setunreliable(unrel)
  \/ cleanup
  \/ \E c \in Calls : RaftCalls(c)
  \/ NetworkSteps

Spec == Init /\ [][Next]_vars

----------------------------------------------------------------------------
(***************************************************************************)
(* Properties.                                                              *)
(***************************************************************************)
\* processReq must not reply once DeleteServer was called, "to avoid situation in
\* which a client gets a positive reply to an Append, but the server persisted the
\* update into the old Persister": what a call that returned true changed is in
\* the state that the server is, or will be, restarted from.
AcknowledgedSurvives ==
  \A c \in Calls : call[c] = "true" => c \in saved(end[c][4])

\* "a fresh persister, in case old instance continues to update the Persister":
\* nothing changes the state of a server that is down, also not the instance that
\* was killed, and a new instance starts from exactly this state.
DownServerKeepsState == [][\A i \in Peers : ~running[i] => saved(i)' = saved(i)]_vars

\* A fresh set of names, "so that old crashed instance's ClientEnds can't send":
\* an end is enabled only if it belongs to the instance that runs now.
OldEndsStayDisabled ==
  \A e \in ends : enabled[e] /\ e[3] = "raft" => e[2] = gen[e[1]] /\ running[e[1]]

\* Between two operations of the test, an end is enabled exactly if both the
\* sender and the receiver are connected.
EnabledMatchesConnected ==
  todo = <<>> =>
    \A i, j \in Peers : enabled[endname(i, j)] <=> connected[i] /\ connected[j]
=============================================================================
