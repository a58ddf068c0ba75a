----------------------------- MODULE ShardClerks -----------------------------
(***************************************************************************)
(* The clerks of shardctrler/client.go and shardkv/client.go, and the test  *)
(* that lets groups join and leave through a clerk of its own, mck.  A      *)
(* clerk is one goroutine that calls one server after the other until it is *)
(* satisfied.                                                               *)
(*                                                                          *)
(* External, as the clerks use them: the servers (stubs in this repository) *)
(* are taken to be correct.  The leader of the controller appends           *)
(* configurations, the leader of the group that owns a shard serves its     *)
(* keys, and ownership follows the latest configuration later.  The network *)
(* is the one of AtMostOnceRpc: a call that fails may have been executed,   *)
(* or be executed later.                                                    *)
(***************************************************************************)
EXTENDS Integers, Sequences, FiniteSets

CONSTANTS
  Clerks,          \* the clerks of shardkv
  mck,             \* cfg.mck, a clerk of shardctrler
  Gids, Ctrler,    \* the groups, and the controller
  Replicas,        \* servers of each of them
  Keys,            \* a key is the tuple of its bytes
  NShards,
  MaxOps,          \* bound: operations of each clerk
  MaxLosses,       \* bound: calls that fail
  MaxElections,    \* bound: how often a leader is replaced
  None

ASSUME ShardClerksAssumption ==
  /\ mck \notin Clerks /\ Ctrler \notin Gids /\ 0 \notin Gids
  /\ Replicas \in Nat \ {0} /\ NShards \in Nat \ {0}

Actors == Clerks \cup {mck}
Shards == 0 .. NShards - 1

key2shard(key) == (IF Len(key) > 0 THEN key[1] ELSE 0) % NShards

VARIABLES
  op,        \* what the clerk was last asked to do
  at,        \* "idle", or the loop it is in: over a "group" or the "ctrler"
  si,        \* the index of the server it calls
  config,    \* ck.config; of mck, what its last Query returned
  rpc,       \* its call: "none", "sent" or "replied"
  wire,      \* the reply on its way
  reply,     \* the variable reply
  result,    \* what the last operation returned
  count,     \* operations begun
  configs, owner, kv, leader, late,      \* external: the services
  losses, elections,                     \* how often something went wrong
  executed,  \* history: the clerks whose last operation was executed
  seen       \* history: the values that its key had since it began

clerkVars == <<op, at, si, config, rpc, wire, reply, result, count>>
services == <<configs, owner, kv, leader>>
vars == <<clerkVars, services, late, losses, elections, executed, seen>>

NoConfig == [num |-> 0, shards |-> [s \in Shards |-> 0], groups |-> {}]
NoOp == [kind |-> "none", key |-> <<>>, gid |-> 0, shard |-> 0, value |-> 0]

\* The zero value of a reply: of GetReply and PutAppendReply, and of QueryReply
\* and the replies to Join, Leave and Move.
Zero == [err |-> "", value |-> <<>>, wrongLeader |-> FALSE, config |-> NoConfig]

Latest == configs[Len(configs)]

Init ==
  /\ op = [p \in Actors |-> NoOp]
  /\ at = [p \in Actors |-> "idle"] /\ si = [p \in Actors |-> 0]
  /\ config = [p \in Actors |-> NoConfig]
  /\ rpc = [p \in Actors |-> "none"] /\ wire = [p \in Actors |-> Zero] /\ reply = [p \in Actors |-> Zero]
  /\ result = [p \in Actors |-> None] /\ count = [p \in Actors |-> 0]
  /\ configs = <<NoConfig>> /\ owner = [s \in Shards |-> 0]
  /\ kv = [k \in Keys |-> <<>>] /\ leader = [g \in Gids \cup {Ctrler} |-> 0]
  /\ late = {} /\ losses = 0 /\ elections = 0
  /\ executed = {} /\ seen = [p \in Actors |-> {}]

----------------------------------------------------------------------------
EndOfLoop(i) == i >= Replicas

\* The clerk calls server i of the loop, with configuration c.  If there is none,
\* or no such group, it sleeps: then a clerk of shardctrler starts again, and one
\* of shardkv asks the controller for the latest configuration.
Call(p, o, loop, i, c) ==
  LET nobody == loop = "group" /\ c.shards[key2shard(o.key)] \notin c.groups
      over == nobody \/ EndOfLoop(i)
  IN /\ at' = [at EXCEPT ![p] = IF over THEN "ctrler" ELSE loop]
     /\ si' = [si EXCEPT ![p] = IF over THEN 0 ELSE i]
     /\ rpc' = [rpc EXCEPT ![p] = "sent"]

\* The operation returns.
Finish(p) ==
  /\ at' = [at EXCEPT ![p] = "idle"] /\ si' = [si EXCEPT ![p] = 0]
  /\ rpc' = [rpc EXCEPT ![p] = "none"]

(***************************************************************************)
(* The operations begin.                                                    *)
(***************************************************************************)
Begin(p, o, loop) ==
  /\ at[p] = "idle" /\ count[p] < MaxOps
  /\ op' = [op EXCEPT ![p] = o]
  /\ Call(p, o, loop, 0, config[p])
  /\ count' = [count EXCEPT ![p] = @ + 1]
  /\ result' = [result EXCEPT ![p] = None]
  /\ executed' = executed \ {p}
  /\ seen' = [seen EXCEPT ![p] = {kv[k] : k \in {o.key} \cap Keys}]
  /\ UNCHANGED <<config, wire, reply, services, late, losses, elections>>

Get(ck, key) == Begin(ck, [NoOp EXCEPT !.kind = "Get", !.key = key], "group")

\* Put and Append are one loop; here the values are appended, and each is new.
PutAppend(ck, key) ==
  Begin(ck, [NoOp EXCEPT !.kind = "Append", !.key = key, !.value = count[ck] + 1], "group")

Join(gid) ==
  /\ gid \notin Latest.groups
  /\ Begin(mck, [NoOp EXCEPT !.kind = "Join", !.gid = gid], "ctrler")

Leave(gid) ==
  /\ gid \in Latest.groups
  /\ Begin(mck, [NoOp EXCEPT !.kind = "Leave", !.gid = gid], "ctrler")

Move(shard, gid) ==
  /\ gid \in Latest.groups
  /\ Begin(mck, [NoOp EXCEPT !.kind = "Move", !.gid = gid, !.shard = shard], "ctrler")

Query == Begin(mck, [NoOp EXCEPT !.kind = "Query"], "ctrler")

----------------------------------------------------------------------------
(***************************************************************************)
(* The loops go on.                                                         *)
(***************************************************************************)
\* The group to which the clerk's own configuration assigns the key.
gidOf(p) == config[p].shards[key2shard(op[p].key)]

Service(p) == IF at[p] = "group" THEN gidOf(p) ELSE Ctrler

\* The request of the loop in which it is.
Request(p) == IF p # mck /\ at[p] = "ctrler" THEN [NoOp EXCEPT !.kind = "Query"] ELSE op[p]

\* Seeded fault: the variable is declared outside of the loop.
SameReply(r) == r

\* var reply is declared in the loop: the next call gets a new one, which is zero.
FreshReply(r) == Zero

\* Seeded fault: a leader that does not know the key's group has answered, too.
GetAnsweredAny(r) == r.err # "ErrWrongLeader"

GetAnswered(r) == r.err \in {"OK", "ErrNoKey"}

\* Seeded fault: everything but ErrWrongGroup is taken for success.
PutAnsweredAny(r) == r.err # "ErrWrongGroup"

PutAnswered(r) == r.err = "OK"

\* Seeded fault: whoever answers is believed.
CtrlerAnsweredAny(r) == TRUE

CtrlerAnswered(r) == ~r.wrongLeader

\* gob does not send a field that is zero, and decoding leaves it as it was.
Decode(old, sent) == [f \in DOMAIN old |-> IF sent[f] = Zero[f] THEN old[f] ELSE sent[f]]

\* srv.Call returned true in Get or PutAppend.
GroupReply(p) ==
  LET r == Decode(reply[p], wire[p])
      answered == IF op[p].kind = "Get" THEN GetAnswered(r) ELSE PutAnswered(r)
  IN /\ at[p] = "group" /\ rpc[p] = "replied"
     /\ reply' = [reply EXCEPT ![p] = FreshReply(r)]
     /\ wire' = [wire EXCEPT ![p] = Zero]
     /\ result' = [result EXCEPT ![p] = IF answered THEN r.value ELSE @]
     /\ IF answered THEN Finish(p)
        ELSE Call(p, op[p], "group", IF r.err = "ErrWrongGroup" THEN Replicas ELSE si[p] + 1, config[p])
     /\ UNCHANGED <<op, config, count, services, late, losses, elections, executed, seen>>

\* srv.Call returned true in Query, Join, Leave or Move.  The Query of a clerk of
\* shardkv sets ck.config, and its loop starts again.
CtrlerReply(p) ==
  LET r == Decode(reply[p], wire[p])
  IN /\ at[p] = "ctrler" /\ rpc[p] = "replied"
     /\ reply' = [reply EXCEPT ![p] = FreshReply(r)]
     /\ wire' = [wire EXCEPT ![p] = Zero]
     /\ config' = IF CtrlerAnswered(r) /\ Request(p).kind = "Query"
                  THEN [config EXCEPT ![p] = r.config] ELSE config
     /\ IF ~CtrlerAnswered(r) THEN Call(p, op[p], "ctrler", si[p] + 1, config[p])
        ELSE IF p = mck THEN Finish(p)
        ELSE Call(p, op[p], "group", 0, r.config)
     /\ UNCHANGED <<op, result, count, services, late, losses, elections, executed, seen>>

\* srv.Call returned false: the request was lost, or the reply, or the request was
\* only delayed and the server will still execute it.
Fail(p) ==
  /\ rpc[p] # "none" /\ losses < MaxLosses
  /\ losses' = losses + 1
  /\ late' \in {late} \cup
       {late \cup {[p |-> p, op |-> Request(p), service |-> Service(p), si |-> si[p], n |-> losses]} :
          x \in {rpc[p]} \cap {"sent"}}
  /\ Call(p, op[p], at[p], si[p] + 1, config[p])
  /\ wire' = [wire EXCEPT ![p] = Zero]
  /\ UNCHANGED <<op, config, reply, result, count, services, elections, executed, seen>>

----------------------------------------------------------------------------
(***************************************************************************)
(* External: the services.                                                  *)
(***************************************************************************)
\* Request o of clerk p is executed once more, and the keys have values.
Executed(p, o, values) ==
  /\ kv' = values
  /\ executed' = IF o = op[p] THEN executed \cup {p} ELSE executed
  /\ seen' = [q \in Actors |-> seen[q] \cup {values[k] : k \in {op[q].key} \cap Keys}]
  /\ UNCHANGED <<owner, leader>>

\* The leader of the controller makes a configuration of the groups that there
\* are then, in which the shards are assigned to some of them.
ServeCtrler(p, o) ==
  /\ Executed(p, o, kv)
  /\ LET groups == CASE o.kind = "Join" -> Latest.groups \cup {o.gid}
                     [] o.kind = "Leave" -> Latest.groups \ {o.gid}
                     [] OTHER -> Latest.groups
         Assigned(s) ==
           CASE groups = {} -> {0}
             [] o.kind = "Move" /\ s = o.shard /\ o.gid \in groups -> {o.gid}
             [] o.kind \in {"Query", "Move"} -> {Latest.shards[s]}
             [] OTHER -> groups
         Next(c) == [num |-> Len(configs), shards |-> c, groups |-> groups]
     IN configs' \in
          IF o.kind = "Query" THEN {configs}
          ELSE {Append(configs, Next(c)) :
                  c \in {f \in [Shards -> groups \cup {0}] : \A s \in Shards : f[s] \in Assigned(s)}}

ServeGroup(p, o) ==
  /\ UNCHANGED configs
  /\ LET entry == <<p, o.value>>
     IN Executed(p, o, IF o.kind = "Get" THEN kv ELSE [kv EXCEPT ![o.key] = Append(@, entry)])

GroupAnswer(p) ==
  IF leader[Service(p)] # si[p] THEN [Zero EXCEPT !.err = "ErrWrongLeader"]
  ELSE IF owner[key2shard(op[p].key)] # Service(p) THEN [Zero EXCEPT !.err = "ErrWrongGroup"]
  ELSE IF op[p].kind = "Get"
  THEN [Zero EXCEPT !.err = IF kv[op[p].key] = <<>> THEN "ErrNoKey" ELSE "OK", !.value = kv[op[p].key]]
  ELSE [Zero EXCEPT !.err = "OK"]

CtrlerAnswer(p) ==
  IF leader[Ctrler] # si[p] THEN [Zero EXCEPT !.wrongLeader = TRUE]
  ELSE [Zero EXCEPT !.config = IF Request(p).kind = "Query" THEN Latest ELSE NoConfig]

\* A server handles the request of p.
Handle(p) ==
  /\ rpc[p] = "sent"
  /\ rpc' = [rpc EXCEPT ![p] = "replied"]
  /\ IF at[p] = "group"
     THEN /\ wire' = [wire EXCEPT ![p] = GroupAnswer(p)]
          /\ IF GroupAnswer(p).err \in {"OK", "ErrNoKey"} THEN ServeGroup(p, op[p])
             ELSE UNCHANGED <<services, executed, seen>>
     ELSE /\ wire' = [wire EXCEPT ![p] = CtrlerAnswer(p)]
          /\ IF ~CtrlerAnswer(p).wrongLeader THEN ServeCtrler(p, Request(p))
             ELSE UNCHANGED <<services, executed, seen>>
  /\ UNCHANGED <<op, at, si, config, reply, result, count, late, losses, elections>>

\* A server handles a request that nobody waits for any more.
HandleLate(x) ==
  /\ late' = late \ {x}
  /\ IF leader[x.service] # x.si THEN UNCHANGED <<services, executed, seen>>
     ELSE IF x.service = Ctrler THEN ServeCtrler(x.p, x.op)
     ELSE IF owner[key2shard(x.op.key)] = x.service THEN ServeGroup(x.p, x.op)
     ELSE UNCHANGED <<services, executed, seen>>
  /\ UNCHANGED <<clerkVars, losses, elections>>

Elect(g, i) ==
  /\ leader[g] # i /\ elections < MaxElections
  /\ leader' = [leader EXCEPT ![g] = i] /\ elections' = elections + 1
  /\ UNCHANGED <<clerkVars, configs, owner, kv, late, losses, executed, seen>>

\* A shard, with its keys, is handed to the group that the configuration names.
HandOver(s) ==
  /\ owner[s] # Latest.shards[s]
  /\ owner' = [owner EXCEPT ![s] = Latest.shards[s]]
  /\ UNCHANGED <<clerkVars, configs, kv, leader, late, losses, elections, executed, seen>>

----------------------------------------------------------------------------
\* A clerk is given a reply.
Clerk(p) == GroupReply(p) \/ CtrlerReply(p)

Next ==
  \/ \E ck \in Clerks, key \in Keys : Get(ck, key) \/ PutAppend(ck, key)
  \/ \E gid \in Gids : Join(gid) \/ Leave(gid) \/ \E s \in Shards : Move(s, gid)
  \/ Query
  \/ \E p \in Actors : Clerk(p) \/ Fail(p) \/ Handle(p)
  \/ \E x \in late : HandleLate(x)
  \/ \E g \in Gids \cup {Ctrler}, i \in 0 .. Replicas - 1 : Elect(g, i)
  \/ \E s \in Shards : HandOver(s)

(***************************************************************************)
(* Fairness.  Clerks run, calls return (CallsReturn of LabRpc), and shards  *)
(* follow the configuration.  A clerk either waits for its call or has its  *)
(* reply, so one condition says that it runs and that its call returns.     *)
(* Failures are random in the code and finite here, and so are elections.   *)
(***************************************************************************)
Spec ==
  /\ Init /\ [][Next]_vars
  /\ \A p \in Actors : WF_vars(Clerk(p) \/ Handle(p))
  /\ \A s \in Shards : WF_vars(HandOver(s))

----------------------------------------------------------------------------
(***************************************************************************)
(* Properties.                                                              *)
(***************************************************************************)
\* Get returns a value that its key had between the call and the return, although
\* the clerk's configuration may be out of date, leaders change, and shards move.
GetIsCurrent ==
  \A ck \in Clerks : op[ck].kind = "Get" /\ at[ck] = "idle" => result[ck] \in seen[ck]

\* An operation that returned was executed by a leader of the right service, at
\* least once: a clerk takes neither a failed call nor a refusal for success.
ReturnedMeansExecuted ==
  \A p \in Actors : count[p] > 0 /\ at[p] = "idle" => p \in executed

\* The configuration that a clerk uses is never replaced by an older one, from
\* whichever server of the controller it comes.
ConfigNeverOlder == [][\A p \in Actors : config'[p].num >= config[p].num]_vars

\* "keeps trying forever in the face of all other errors", and not in vain: once
\* calls stop failing, every operation of the controller's clerk returns, and if
\* in the end there are groups, so does every Get, Put and Append.
OpsReturn ==
  /\ at[mck] # "idle" ~> at[mck] = "idle"
  /\ <>[](Latest.groups # {}) => \A ck \in Clerks : at[ck] # "idle" ~> at[ck] = "idle"
=============================================================================
