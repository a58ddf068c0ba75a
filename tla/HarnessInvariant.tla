-------------------------- MODULE HarnessInvariant --------------------------
(***************************************************************************)
(* The invariants of the test harnesses that ServiceConfigProofs proves,    *)
(* and the notions its proofs use.  What the tester still has to do is,     *)
(* whatever the test has called, always a program of a certain shape:       *)
(* scripts for one server each, in which a server is cut off before it is   *)
(* deleted, deleted before its state is copied, and copied before it is     *)
(* killed.  With this the state of servers, ends and calls fits together.   *)
(***************************************************************************)
EXTENDS ServiceConfig

----------------------------------------------------------------------------
(***************************************************************************)
(* What the tester still has to do is always a program of the following     *)
(* kind, whatever it has called.                                            *)
(***************************************************************************)
StepNames ==
  {"attach", "detach", "enable out", "enable in", "disable out", "disable in", "link out", "link in",
   "unlink out", "unlink in", "delete", "copy", "kill", "make", "make enabled", "serve"}

Steps == [op : StepNames, i : Peers, j : Peers]

\* The steps that may come directly before a step.
Before(name) ==
  CASE name = "enable out" -> {"attach", "enable out"}
    [] name = "enable in" -> {"enable out", "enable in"}
    [] name = "disable out" -> {"detach", "disable out"}
    [] name = "disable in" -> {"disable out", "disable in"}
    [] name \in {"unlink out", "unlink in"} -> {"unlink out", "unlink in"}
    [] name \in {"link out", "link in"} -> {"unlink out", "unlink in", "link out", "link in"}
    [] name = "delete" -> {"disable in", "unlink out", "unlink in"}
    [] name = "copy" -> {"delete"}
    [] name = "kill" -> {"copy"}
    [] name = "make" -> {"kill"}
    [] name = "serve" -> {"make", "make enabled"}
    [] OTHER -> {}

Making(o) == o.op \in {"make", "make enabled"}
Makes(s) == \E k \in 1 .. Len(s) : Making(s[k])

\* A step that enables ends of a server, which must run by then.
Linking(o) == o.op \in {"attach", "link out", "link in"}
Sender(o) == IF o.op = "link in" THEN o.j ELSE o.i
Links(s) == \E k \in 1 .. Len(s) : Linking(s[k])

Cutting(o, j) == o.op \in {"disable out", "unlink out"} /\ o.j = j

\* The steps with which a server is taken down.
Quiet == {"detach", "disable out", "disable in", "unlink out", "unlink in", "delete", "copy"}

Script(s) ==
  /\ s \in Seq(Steps) /\ Len(s) > 0
  /\ \A k \in 1 .. Len(s) : s[k].i = s[1].i
  /\ \A k \in 1 .. Len(s) - 1 : s[k].op \in Before(s[k + 1].op)
  /\ \A k, l \in 1 .. Len(s) : Making(s[k]) /\ Making(s[l]) => k = l
  /\ \A k, l \in 1 .. Len(s) : s[k].op = "kill" /\ l < k => s[l].op \in Quiet

\* The ends of a server are disabled before it is killed.
Severs(s) ==
  \A k \in 1 .. Len(s) : s[k].op = "kill" => \A j \in Peers : \E l \in 1 .. k - 1 : Cutting(s[l], j)

\* A script that was not begun yet.
Opening(s) ==
  /\ s[1].op \in {"attach", "detach", "make", "make enabled", "unlink out", "link out"}
  /\ Severs(s)

Has(s, name, j) == \E k \in 1 .. Len(s) : s[k].op = name /\ s[k].j = j

Thorough(s, name, other) == \A j \in Peers : Has(s, name, j) /\ Has(s, other, j)

\* connect and disconnect leave nobody out.
Full(s) ==
  /\ s[1].op = "attach" => Thorough(s, "enable out", "enable in")
  /\ s[1].op = "detach" => Thorough(s, "disable out", "disable in")

Program(p) ==
  /\ p \in Seq(Seq(Steps))
  /\ \A a \in 1 .. Len(p) : Script(p[a]) /\ Full(p[a])
  /\ \A a \in 2 .. Len(p) : Opening(p[a])
  /\ \A a, b \in 1 .. Len(p) : Makes(p[a]) /\ Makes(p[b]) /\ p[a][1].i = p[b][1].i => a = b
  /\ \A a, b \in 1 .. Len(p) : Makes(p[a]) /\ Links(p[b]) => a < b
  /\ \A a, b \in 1 .. Len(p) : p[a][Len(p[a])].op = "kill" => ~Links(p[b])

----------------------------------------------------------------------------
\* What holds when the tester comes to a step.
ReadyWhen(o, con, srv, att, run) ==
  /\ o.op \in {"enable out", "enable in"} => con[o.i]
  /\ o.op \in {"disable out", "disable in", "delete", "copy", "kill"} => ~con[o.i]
  /\ o.op \in {"copy", "kill"} => srv[o.i] = None
  /\ o.op = "kill" => ~att[o.i]
  /\ Making(o) => ~run[o.i]
  /\ o.op = "serve" => att[o.i] /\ run[o.i]

Ready(o) == ReadyWhen(o, connected, servers, attached, running)

\* None of the ends es from i to j is enabled.
Severed(i, j, es, en) == \A e \in es : e[1] = i /\ e[3] = "raft" /\ e[4] = j => ~en[e]

WillBeSevered(s, es, en) ==
  \A k \in 1 .. Len(s) : s[k].op = "kill" =>
    \A j \in Peers : Severed(s[k].i, j, es, en) \/ \E l \in 1 .. k - 1 : Cutting(s[l], j)

ToBeMade(p, i) == \E a \in 1 .. Len(p) : Makes(p[a]) /\ p[a][1].i = i

StepsOf(what) ==
  {"delete", "copy", "kill", "make", "serve"} \cup
    IF what = "raft" THEN {"attach", "detach", "enable out", "enable in", "disable out", "disable in"}
    ELSE {"link out", "link in", "unlink out", "unlink in", "make enabled"}

OfKind(p, what) == \A a \in 1 .. Len(p) : \A k \in 1 .. Len(p[a]) : p[a][k].op \in StepsOf(what)

MayStart == \A a \in 1 .. Len(todo) : Makes(todo[a]) => gen[todo[a][1].i] < MaxStarts

SendersRun ==
  \A a \in 1 .. Len(todo) : \A k \in 1 .. Len(todo[a]) :
    Linking(todo[a][k]) => running[Sender(todo[a][k])] \/ ToBeMade(todo, Sender(todo[a][k]))

TodoInv ==
  /\ Program(todo) /\ OfKind(todo, kind)
  /\ \A a \in 1 .. Len(todo) : Ready(todo[a][1])
  /\ todo # <<>> => WillBeSevered(todo[1], ends, enabled)
  /\ MayStart /\ SendersRun

ServerInv(i) ==
  /\ ~running[i] => ~attached[i] /\ servers[i] = None /\ ~connected[i]
  /\ running[i] => gen[i] > 0
  /\ servers[i] # None => servers[i] = <<i, gen[i]>> /\ attached[i] /\ gen[i] > 0
  /\ kind # "raft" => ~connected[i]
  /\ \A g \in gen[i] + 1 .. MaxStarts : executed[<<i, g>>] = {}

EndInv(e) ==
  /\ connections[e] = e[4]
  /\ e[3] = "raft" => e[2] <= gen[e[1]]
  /\ e[3] = "raft" /\ enabled[e] => e[2] = gen[e[1]] /\ running[e[1]]

\* What saved stands for.
Kept(i, att, cp, bs, ex, g) == IF att[i] THEN bs[<<i, g[i]>>] \cup ex[<<i, g[i]>>] ELSE cp[i]

CallInv(c) ==
  /\ call[c] # "idle" => end[c] \in ends
  /\ call[c] \in {"idle", "send"} => req[c] = "none"
  /\ req[c] \in {"none", "arrived", "deliver"} => handler[c] = "none"
  /\ handler[c] # "none" => view[c].server \in Instances /\ view[c].server[2] <= gen[view[c].server[1]]
  /\ req[c] \in {"deliver", "select", "answered"} =>
       /\ view[c].servername = end[c][4] /\ view[c].server \in Instances /\ view[c].server # None
       /\ view[c].server[1] = end[c][4] /\ view[c].server[2] <= gen[end[c][4]]
  /\ handler[c] \in {"replying", "gone"} => c \in executed[view[c].server]
  /\ req[c] = "answered" => handler[c] = "gone"
  /\ req[c] = "reply" \/ call[c] = "true" => c \in Kept(end[c][4], attached, copy, base, executed, gen)

IsFun(f, S) == f = [x \in S |-> f[x]]

Types ==
  /\ IsFun(gen, Peers) /\ \A i \in Peers : gen[i] \in 0 .. MaxStarts
  /\ IsFun(connected, Peers) /\ IsFun(running, Peers) /\ IsFun(attached, Peers)
  /\ IsFun(copy, Peers) /\ IsFun(servers, Peers) /\ IsFun(base, Instances) /\ IsFun(executed, Instances)
  /\ ends \subseteq EndNames /\ IsFun(enabled, EndNames) /\ IsFun(connections, EndNames)
  /\ \A e \in EndNames : enabled[e] \in BOOLEAN
  /\ IsFun(call, Calls) /\ IsFun(end, Calls) /\ IsFun(req, Calls) /\ IsFun(view, Calls) /\ IsFun(handler, Calls)

StateInv ==
  /\ Types
  /\ \A i \in Peers : ServerInv(i)
  /\ \A e \in ends : EndInv(e)
  /\ \A c \in Calls : CallInv(c)

HarnessInv == StateInv /\ TodoInv

----------------------------------------------------------------------------
(***************************************************************************)
(* The scripts.                                                             *)
(***************************************************************************)
Kills(s) == \E k \in 1 .. Len(s) : s[k].op = "kill"

\* A script for server i that starts and ends with steps of these names, and has
\* only steps of names.
Is(s, i, first, last, names) ==
  /\ Script(s) /\ s[1].i = i /\ s[1].op = first /\ s[Len(s)].op = last
  /\ \A k \in 1 .. Len(s) : s[k].op \in names

MakeNames == {"make", "make enabled"}

RepeatedNames ==
  {"enable out", "enable in", "disable out", "disable in", "link out", "link in", "unlink out", "unlink in"}

\* A list of n servers.
List(to, n) == n \in Nat \ {0} /\ to \in [1 .. n -> Peers]

DownNames == {"delete", "copy", "kill"}
Down(i) == <<Op("delete", i), Op("copy", i), Op("kill", i)>>

\* crash1 and start1.
CrashNames == {"detach", "disable out", "disable in"} \cup DownNames

\* Two kinds of steps for each of some servers.
Twice(x, y, i, to) == ForEach(x, i, to) \o ForEach(y, i, to)

\* What ConnectAll and partition do for a server.
LinkNames == {"link out", "link in"}

UnlinkNames == {"unlink out", "unlink in"}

\* ShutdownServer of the two services.
ShutNames == {"unlink out", "unlink in"} \cup DownNames

ShardShutNames == {"unlink out"} \cup DownNames

HalfScript(i, p, q) == disconnectUnlocked(i, q) \o connectUnlocked(i, p)

----------------------------------------------------------------------------
(***************************************************************************)
(* The programs.                                                            *)
(***************************************************************************)
\* Scripts that were not begun yet.
Opened(p, n) ==
  /\ n \in Nat /\ p \in Seq(Seq(Steps)) /\ Len(p) = n
  /\ \A k \in 1 .. n : Script(p[k]) /\ Opening(p[k]) /\ Full(p[k])

\* For servers in their order.
InOrder(p, n) == \A k \in 1 .. n : p[k][1].i = k - 1

Linkless(p, n) == \A k \in 1 .. n : ~Links(p[k])

\* No server is made, and none is taken down.
Steady(p, n) == \A k \in 1 .. n : ~Makes(p[k]) /\ p[k][Len(p[k])].op # "kill"

\* Two programs one after the other.
JoinOf(r, p, n, q, m) ==
  /\ \A k \in 1 .. n + m : k \in 1 .. n \/ \E x \in 1 .. m : k = n + x
  /\ \A k \in 1 .. n : k \in 1 .. n + m /\ r[k] = p[k]
  /\ \A x \in 1 .. m : n + x \in 1 .. n + m /\ r[n + x] = q[x]

\* All steps of a script have such names.
Named(s, names) == \A k \in 1 .. Len(s) : s[k].op \in names

\* Every server is made.
Starts(p, name) == \A k \in 1 .. N : p[k] = <<Op(name, k - 1), Op("serve", k - 1)>>

HalfNames == UnlinkNames \cup LinkNames

\* Which steps a server of half p takes, if q is the other half.
HalfHas(s, p, q) ==
  \A name, j : Has(s, name, j) <=> \/ name \in UnlinkNames /\ j \in Range(q)
                                   \/ name \in LinkNames /\ j \in Range(p)

\* The n servers of half p.
HalfOf(h, n, p, q) == \A k \in 1 .. n : h[k][1].i = p[k] /\ HalfHas(h[k], p, q)

HalfProgram(p, q) == [k \in DOMAIN p |-> HalfScript(p[k], p, q)]

\* What the tester may begin.
NewProgram(p, what) == Program(p) /\ OfKind(p, what) /\ \A a \in 1 .. Len(p) : Opening(p[a])

LinkingNames == {"attach", "link out", "link in"}

Apart(A, B) == A \cap B = {}

\* A script does not link what it makes or takes down.
OneTask(A, l) == Apart(A, LinkingNames) \/ (Apart(A, MakeNames) /\ l # "kill")

----------------------------------------------------------------------------
(***************************************************************************)
(* What is left of a program after its next step.                           *)
(***************************************************************************)
RestProgram(p) == IF Len(p[1]) = 1 THEN Tail(p) ELSE [p EXCEPT ![1] = Tail(@)]

\* Where the scripts of what is left come from.
From(p, a) == IF Len(p[1]) = 1 THEN a + 1 ELSE a

\* The elements of what is left.
Left(p, r) ==
  /\ Len(p[1]) = 1 => Len(r) = Len(p) - 1
  /\ Len(p[1]) # 1 => Len(r) = Len(p)
  /\ \A a \in 1 .. Len(r) : From(p, a) # 1 => r[a] = p[From(p, a)]
  /\ \A a \in 1 .. Len(r) : From(p, a) = 1 => r[a] = Tail(p[1])

RestOf(p, r) ==
  /\ \A a \in 1 .. Len(r) : From(p, a) \in 1 .. Len(p)
  /\ \A a \in 2 .. Len(r) : a \in 1 .. Len(r) /\ From(p, a) \in 2 .. Len(p)
  /\ \A a \in 1 .. Len(r) : From(p, a) # 1 => r[a] = p[From(p, a)] /\ From(p, a) \in 2 .. Len(p)
  /\ \A a \in 1 .. Len(r) : From(p, a) = 1 => a = 1 /\ r[a] = Tail(p[1]) /\ Len(p[1]) # 1
  /\ Len(p[1]) # 1 => 1 \in 1 .. Len(r) /\ From(p, 1) = 1
  /\ \A b \in 2 .. Len(p) : \E a \in 1 .. Len(r) : From(p, a) = b
  /\ \A a, b \in 1 .. Len(r) : (From(p, a) = From(p, b) => a = b) /\ (From(p, a) < From(p, b) => a < b)
  /\ \A b \in 2 .. Len(p) : b \in 1 .. Len(p) /\ b # 1 /\ ~(b < 1)
  /\ 1 \in 1 .. Len(p)

\* A script, or the end of it.
Suffix(s, t) ==
  /\ Script(t) /\ Full(t) /\ t[1].i = s[1].i /\ t[Len(t)] = s[Len(s)]
  /\ (Makes(t) => Makes(s)) /\ (Links(t) => Links(s))

----------------------------------------------------------------------------
(***************************************************************************)
(* The tester takes a step.                                                 *)
(***************************************************************************)
Advance == todo # <<>> /\ todo' = Rest /\ UNCHANGED kind

\* The steps of a program.
Pending(p) == {x \in Steps : \E a \in 1 .. Len(p) : \E k \in 1 .. Len(p[a]) : p[a][k] = x}

\* What is pending after the next step.
Remaining ==
  /\ Pending(todo') \subseteq Pending(todo)
  /\ \A x \in Pending(todo) : x = todo[1][1] \/ x \in Pending(todo')
  /\ Making(todo[1][1]) => \A x \in Pending(todo') : ~(Making(x) /\ x.i = todo[1][1].i)

----------------------------------------------------------------------------
\* The effect of a step on what the tester relies on.
TodoEffect(o) ==
  /\ \A i \in Peers : running'[i] => running[i] \/ (Making(o) /\ i = o.i)
  /\ \A i \in Peers : running[i] => running'[i] \/ (o.op = "kill" /\ i = o.i)
  /\ Making(o) => running'[o.i]
  /\ \A i \in Peers : gen'[i] = gen[i] \/ (Making(o) /\ i = o.i)
  /\ \A x \in Steps : x.i = o.i /\ o.op \in Before(x.op) =>
       ReadyWhen(x, connected', servers', attached', running')
  /\ o.op \in Quiet => \A i, j \in Peers : Severed(i, j, ends, enabled) => Severed(i, j, ends', enabled')
  /\ \A j \in Peers : Cutting(o, j) => Severed(o.i, j, ends', enabled')

\* What can come after a step.
After(m, n) ==
  /\ m = "attach" => n = "enable out"
  /\ m = "enable out" => n \in {"enable out", "enable in"}
  /\ m = "enable in" => n = "enable in"
  /\ m = "detach" => n = "disable out"
  /\ m = "disable out" => n \in {"disable out", "disable in"}
  /\ m = "disable in" => n \in {"disable in", "delete"}
  /\ m \in {"unlink out", "unlink in"} => n \in {"unlink out", "unlink in", "link out", "link in", "delete"}
  /\ m \in {"link out", "link in"} => n \in {"link out", "link in"}
  /\ m = "delete" => n = "copy"
  /\ m = "copy" => n = "kill"
  /\ m = "kill" => n = "make"
  /\ m \in {"make", "make enabled"} => n = "serve"
  /\ m # "serve"

----------------------------------------------------------------------------
(***************************************************************************)
(* The effects of the steps.                                                *)
(***************************************************************************)
Updated(f, g, S, a, v) ==
  IsFun(g, S) /\ (a \in S => g[a] = v) /\ \A x \in S : x # a => g[x] = f[x]

\* The variables of the calls do not change.
CallsSame ==
  call' = call /\ end' = end /\ req' = req /\ view' = view /\ handler' = handler /\ executed' = executed

SavedSame == base' = base /\ attached' = attached /\ copy' = copy

\* The steps of the tester.
Does(o) ==
  \/ o.op = "attach" /\ SetConnected(o.i, TRUE)
  \/ o.op = "detach" /\ SetConnected(o.i, FALSE)
  \/ o.op = "enable out" /\ SetEnabled(connected[o.j], endname(o.i, o.j), TRUE)
  \/ o.op = "enable in" /\ SetEnabled(connected[o.j], endname(o.j, o.i), TRUE)
  \/ o.op = "disable out" /\ SetEnabled(gen[o.i] > 0, endname(o.i, o.j), FALSE)
  \/ o.op = "disable in" /\ SetEnabled(gen[o.j] > 0, endname(o.j, o.i), FALSE)
  \/ o.op = "link out" /\ SetEnabled(TRUE, endname(o.i, o.j), TRUE)
  \/ o.op = "link in" /\ SetEnabled(TRUE, endname(o.j, o.i), TRUE)
  \/ o.op = "unlink out" /\ SetEnabled(TRUE, endname(o.i, o.j), FALSE)
  \/ o.op = "unlink in" /\ SetEnabled(TRUE, endname(o.j, o.i), FALSE)
  \/ o.op = "delete" /\ Delete(o.i)
  \/ o.op = "copy" /\ CopyPersister(o.i)
  \/ o.op = "kill" /\ Kill(o.i)
  \/ o.op = "make" /\ Make(o.i)
  \/ o.op = "make enabled" /\ MakeEnabled(o.i)
  \/ o.op = "serve" /\ Serve(o.i)

Tester == (kind = "raft" /\ Continue /\ UNCHANGED serviceVars) \/ ContinueService

EndsSame == ends' = ends /\ connections' = connections

Connected(i, yes) ==
  /\ CallsSame /\ SavedSame /\ EndsSame
  /\ connected' = [connected EXCEPT ![i] = yes]
  /\ enabled' = enabled /\ servers' = servers /\ gen' = gen /\ running' = running

Toggled(present, e, yes) ==
  /\ CallsSame /\ SavedSame /\ EndsSame
  /\ present => enabled' = [enabled EXCEPT ![e] = yes]
  /\ ~present => enabled' = enabled
  /\ connected' = connected /\ servers' = servers /\ gen' = gen /\ running' = running

Registered(i, inst) ==
  /\ CallsSame /\ SavedSame /\ EndsSame
  /\ servers' = [servers EXCEPT ![i] = inst]
  /\ connected' = connected /\ enabled' = enabled /\ gen' = gen /\ running' = running

Copied(i) ==
  /\ CallsSame /\ EndsSame
  /\ copy' = [copy EXCEPT ![i] = Kept(i, attached, copy, base, executed, gen)]
  /\ attached' = [attached EXCEPT ![i] = FALSE]
  /\ base' = base
  /\ connected' = connected /\ enabled' = enabled /\ servers' = servers /\ gen' = gen /\ running' = running

Killed(i) ==
  /\ CallsSame /\ SavedSame /\ EndsSame
  /\ running' = [running EXCEPT ![i] = FALSE]
  /\ connected' = connected /\ enabled' = enabled /\ servers' = servers /\ gen' = gen

NamedEnds(i, g) == {<<i, g, "raft", j>> : j \in Peers}

NewEnds(i) == NamedEnds(i, gen[i] + 1)

Made(i, yes) ==
  /\ CallsSame
  /\ gen' = [gen EXCEPT ![i] = gen[i] + 1]
  /\ ends' = ends \cup NewEnds(i)
  /\ enabled' = [e \in EndNames |-> IF e \in NewEnds(i) THEN yes ELSE enabled[e]]
  /\ connections' = [e \in EndNames |-> IF e \in NewEnds(i) THEN e[4] ELSE connections[e]]
  /\ base' = [base EXCEPT ![<<i, gen[i] + 1>>] = Kept(i, attached, copy, base, executed, gen)]
  /\ attached' = [attached EXCEPT ![i] = TRUE]
  /\ running' = [running EXCEPT ![i] = TRUE]
  /\ connected' = connected /\ servers' = servers /\ copy' = copy

----------------------------------------------------------------------------
(***************************************************************************)
(* What each effect preserves.                                              *)
(***************************************************************************)
\* What is saved is not lost.
Keeps ==
  \A i \in Peers : \A c :
    c \in Kept(i, attached, copy, base, executed, gen) => c \in Kept(i, attached', copy', base', executed', gen')

\* What is saved does not change.
KeptSame ==
  \A i \in Peers : Kept(i, attached', copy', base', executed', gen') = Kept(i, attached, copy, base, executed, gen)

----------------------------------------------------------------------------
(***************************************************************************)
(* Every step of the tester preserves the invariant.                        *)
(***************************************************************************)
\* What is known of the step that the tester takes.
Apt(o) ==
  /\ o \in Steps /\ o.i \in Peers /\ o.j \in Peers /\ o.op \in StepsOf(kind) /\ Ready(o)
  /\ Linking(o) => running[Sender(o)]
  /\ Making(o) => gen[o.i] < MaxStarts
  /\ o.op = "kill" => \A j \in Peers : Severed(o.i, j, ends, enabled)

\* What a step of the tester has to preserve.
Preserves(o) == StateInv' /\ KeptSame /\ TodoEffect(o)

Toggles ==
  {"enable out", "enable in", "disable out", "disable in", "link out", "link in", "unlink out", "unlink in"}

----------------------------------------------------------------------------
(***************************************************************************)
(* The test calls an operation.                                             *)
(***************************************************************************)
\* The servers that a new program makes are down, and may be started again.
Startable(p) ==
  \A a \in 1 .. Len(p) :
    /\ Makes(p[a]) => gen[p[a][1].i] < MaxStarts
    /\ Making(p[a][1]) => ~running[p[a][1].i]

\* The servers that a new program links run, or will.
Linkable(p) ==
  \A a \in 1 .. Len(p) : \A k \in 1 .. Len(p[a]) :
    Linking(p[a][k]) => running[Sender(p[a][k])] \/ ToBeMade(p, Sender(p[a][k]))

\* The state that the tester changes, besides todo and ops.
TestedSame ==
  /\ gen' = gen /\ running' = running /\ connected' = connected /\ servers' = servers
  /\ ends' = ends /\ enabled' = enabled /\ connections' = connections /\ kind' = kind /\ SavedSame

----------------------------------------------------------------------------
(***************************************************************************)
(* The steps of the calls, which the tester does not notice.                *)
(***************************************************************************)
\* Nothing that was executed is forgotten.
Grows == IsFun(executed', Instances) /\ \A x \in Instances : \A c : c \in executed[x] => c \in executed'[x]

\* The calls other than c do not move.
Moved(f, g, c) == IsFun(g, Calls) /\ \A d \in Calls : d # c => g[d] = f[d]

Moves(c) ==
  /\ Moved(call, call', c) /\ Moved(end, end', c) /\ Moved(req, req', c)
  /\ Moved(view, view', c) /\ Moved(handler, handler', c)

Sets(f, g, c, v) == g = [f EXCEPT ![c] = v]

\* What the network does not change.
NetSame ==
  ends' = ends /\ enabled' = enabled /\ connections' = connections /\ servers' = servers

\* What is the same in all steps of call c but dispatch.
Quietly(c) == NetSame /\ executed' = executed /\ end' = end /\ Moves(c)

\* What readEndnameInfo found is an instance of the server that was called.
Viewed(n, s, g) == s \in Instances /\ s # None /\ s[1] = n /\ s[2] <= g[n]

----------------------------------------------------------------------------
(***************************************************************************)
(* All other steps.                                                         *)
(***************************************************************************)
\* The state of a server that is down does not change.
DownKept == \A i \in Peers : ~running[i] => saved(i)' = saved(i)

\* What every step preserves.
Safe == HarnessInv' /\ DownKept

----------------------------------------------------------------------------
(***************************************************************************)
(* Which ends are enabled.  An end that is not as it should be, or that the *)
(* next instance will not have as it should be, is touched by a step that   *)
(* is still pending.                                                        *)
(***************************************************************************)
OutNames == {"enable out", "disable out", "link out", "unlink out"}
InNames == {"enable in", "disable in", "link in", "unlink in"}
EnableNames == {"enable out", "enable in"}
DisableNames == {"disable out", "disable in"}
OnNames == EnableNames \cup LinkNames
OffNames == DisableNames \cup UnlinkNames

\* A step that enables or disables the end from i to j.
Touches(o, i, j) ==
  \/ o.op \in OutNames /\ o.i = i /\ o.j = j
  \/ o.op \in InNames /\ o.j = i /\ o.i = j

Touched(p, names, i, j) == \E o \in Pending(p) : o.op \in names /\ Touches(o, i, j)

Coming(p, i) == \E o \in Pending(p) : Making(o) /\ o.i = i

Open(i, j) == enabled[endname(i, j)]

\* Both ends of a pair of a test of Raft.
Linked(i, j) == connected[i] /\ connected[j]

RaftPair(i, j) ==
  gen[i] > 0 =>
    /\ Open(i, j) => Linked(i, j) \/ Touched(todo, OffNames, i, j)
    /\ Linked(i, j) => Open(i, j) \/ Touched(todo, OnNames, i, j)

ServicePair(i, j) ==
  /\ Touched(todo, OnNames, i, j) => j \in group[i]
  /\ Touched(todo, OffNames, i, j) => j \notin group[i]
  /\ Coming(todo, i) \/ Touched(todo, Toggles, i, j) \/ (Open(i, j) <=> j \in group[i])
  /\ \A o \in Pending(todo) : o.op = "make enabled" /\ o.i = i => j \in group[i]
  /\ \A o \in Pending(todo) :
       o.op = "make" /\ o.i = i => j \notin group[i] \/ Touched(todo, Toggles, i, j)

LinksInv ==
  /\ \A i \in Peers : gen[i] > 0 \/ Coming(todo, i)
  /\ \A i, j \in Peers : gen[i] > 0 => endname(i, j) \in ends
  /\ \A i, j \in Peers : IF kind = "raft" THEN RaftPair(i, j) ELSE ServicePair(i, j)

----------------------------------------------------------------------------
\* What a step that enables or disables an end does.
Switches(o) ==
  /\ gen' = gen /\ connected' = connected /\ ends' = ends
  /\ \A i, j \in Peers : gen[i] > 0 /\ ~Touches(o, i, j) => Open(i, j)' = Open(i, j)
  /\ \A i, j \in Peers : gen[i] > 0 /\ Touches(o, i, j) =>
       /\ o.op \in LinkNames => Open(i, j)'
       /\ o.op \in OffNames => ~Open(i, j)'
       /\ o.op \in EnableNames => (Linked(i, j) => Open(i, j)') /\ (Open(i, j)' => Open(i, j) \/ Linked(i, j))
       /\ o.op \in DisableNames => ~Linked(i, j)

\* Server m got new ends.
Renewed(m, yes) ==
  /\ connected' = connected /\ ends \subseteq ends'
  /\ gen'[m] > 0 /\ \A i \in Peers : i # m => gen'[i] = gen[i]
  /\ \A j \in Peers : endname(m, j)' \in ends' /\ Open(m, j)' = yes
  /\ \A i, j \in Peers : i # m /\ gen[i] > 0 => endname(i, j)' = endname(i, j) /\ Open(i, j)' = Open(i, j)

\* The tester takes step o.
Stepping(o) ==
  /\ o = todo[1][1] /\ StateInv /\ TodoInv /\ Advance /\ Remaining /\ Apt(o) /\ Does(o) /\ o \in Pending(todo)
  /\ kind' = kind /\ group' = group /\ LinksInv

\* Nothing that is pending and matters for the ends changes.
SamePending == \A o : Making(o) \/ o.op \in Toggles => (o \in Pending(todo') <=> o \in Pending(todo))

Grouped == IsFun(group, Peers)

\* What operation p has to do for the end from i to j.
BegunPair(p, i, j) ==
  /\ Touched(p, OnNames, i, j) => j \in group'[i]
  /\ Touched(p, OffNames, i, j) => j \notin group'[i]
  /\ Coming(p, i) \/ Touched(p, Toggles, i, j) \/ (j \in group[i] <=> j \in group'[i])
  /\ \A o \in Pending(p) : o.op = "make enabled" /\ o.i = i => j \in group'[i]
  /\ \A o \in Pending(p) : o.op = "make" /\ o.i = i => j \notin group'[i] \/ Touched(p, Toggles, i, j)

=============================================================================
