------------------------- MODULE ShardClerksProofs --------------------------
(***************************************************************************)
(* What the clerks of shardctrler and shardkv promise, for any number of    *)
(* clerks, groups, replicas, shards, keys, failed calls and elections.      *)
(***************************************************************************)
EXTENDS ShardClerks, TLAPS

\* A value of the variable reply, and of what is on the wire.
IsReply(r) == r = [err |-> r.err, value |-> r.value, wrongLeader |-> r.wrongLeader, config |-> r.config]

Places ==
  /\ at \in [Actors -> {"idle", "group", "ctrler"}]
  /\ rpc \in [Actors -> {"none", "sent", "replied"}]
  /\ count \in [Actors -> Nat]
  /\ op = [p \in Actors |-> op[p]] /\ result = [p \in Actors |-> result[p]]
  /\ seen = [p \in Actors |-> seen[p]] /\ wire = [p \in Actors |-> wire[p]]
  /\ reply = [p \in Actors |-> Zero]
  /\ \A p \in Actors : IsReply(wire[p])

\* A clerk of shardkv gets and appends, mck does not and calls no group.
Asked(p) ==
  /\ p = mck => at[p] # "group" /\ op[p].kind \notin {"Get", "Append"}
  /\ p # mck => op[p].kind \in {"none", "Get", "Append"} /\ (op[p].kind # "none" => op[p].key \in Keys)
  /\ at[p] = "idle" => rpc[p] = "none"
  /\ at[p] # "idle" => count[p] > 0
  /\ count[p] = 0 <=> op[p].kind = "none"

\* A reply that a clerk will take for success was given by a server that
\* executed the operation, and the value of a Get was then that of its key.
Answered(p) ==
  /\ at[p] = "group" /\ rpc[p] = "replied" /\ wire[p].err \in {"OK", "ErrNoKey"} =>
       p \in executed /\ (op[p].kind = "Get" => wire[p].value \in seen[p])
  /\ p = mck /\ at[p] = "ctrler" /\ rpc[p] = "replied" /\ ~wire[p].wrongLeader => p \in executed

Returned(p) ==
  at[p] = "idle" /\ count[p] > 0 => p \in executed /\ (op[p].kind = "Get" => result[p] \in seen[p])

ClerkInv == Places /\ \A p \in Actors : Asked(p) /\ Answered(p) /\ Returned(p)

\* var reply is zero when a reply is decoded into it, so that it becomes what
\* the server sent.
LEMMA DecodeFresh ==
  ASSUME NEW r, IsReply(r)
  PROVE  Decode(Zero, r) = r
<1>1. DOMAIN Zero = {"err", "value", "wrongLeader", "config"} /\ DOMAIN r = {"err", "value", "wrongLeader", "config"}
  BY Zenon DEF IsReply, Zero
<1>2. Decode(Zero, r) = [f \in {"err", "value", "wrongLeader", "config"} |-> r[f]]
  BY <1>1, Zenon DEF Decode
<1>3. r = [f \in {"err", "value", "wrongLeader", "config"} |-> r[f]]
  BY <1>1, Zenon DEF IsReply
<1> QED
  BY <1>2, <1>3, Zenon

\* The zero value of a reply and what the servers make of it are replies.
LEMMA Replies ==
  /\ IsReply(Zero)
  /\ \A p : /\ IsReply(GroupAnswer(p)) /\ IsReply(CtrlerAnswer(p))
            /\ GroupAnswer(p).err \in {"OK", "ErrNoKey"} /\ op[p].kind = "Get" =>
                 GroupAnswer(p).value = kv[op[p].key]
<1>1. IsReply(Zero)
  BY Zenon DEF IsReply, Zero
<1>2. ASSUME NEW p PROVE IsReply(GroupAnswer(p))
  BY Zenon DEF IsReply, GroupAnswer, Zero
<1>3. ASSUME NEW p PROVE IsReply(CtrlerAnswer(p))
  BY Zenon DEF IsReply, CtrlerAnswer, Zero
<1>4. ASSUME NEW p, GroupAnswer(p).err \in {"OK", "ErrNoKey"}, op[p].kind = "Get"
      PROVE  GroupAnswer(p).value = kv[op[p].key]
  BY <1>4, Zenon DEF GroupAnswer, Zero
<1> QED
  BY <1>1, <1>2, <1>3, <1>4

\* The clerks start idle.
LEMMA ClerkInit == Init => ClerkInv
<1> SUFFICES ASSUME Init PROVE ClerkInv
  BY Zenon
<1>1. Places
  BY Replies, Zenon DEF Init, Places
<1>2. NoOp.kind = "none"
  BY Zenon DEF NoOp
<1>3. ASSUME NEW p \in Actors PROVE Asked(p) /\ Answered(p) /\ Returned(p)
  BY <1>2 DEF Init, Asked, Answered, Returned
<1> QED
  BY <1>1, <1>3, Zenon DEF ClerkInv

\* A clerk whose own state stays promises what it promised: executed operations
\* and values that were seen are not forgotten.
LEMMA ClerkFrame ==
  ASSUME NEW q, Asked(q), Answered(q), Returned(q),
         at'[q] = at[q], rpc'[q] = rpc[q], op'[q] = op[q], count'[q] = count[q],
         wire'[q] = wire[q], result'[q] = result[q],
         q \in executed => q \in executed', seen[q] \subseteq seen'[q]
  PROVE  Asked(q)' /\ Answered(q)' /\ Returned(q)'
<1>1. Asked(q)'
  BY Zenon DEF Asked
<1>2. Answered(q)'
  BY Zenon DEF Answered
<1>3. Returned(q)'
  BY Zenon DEF Returned
<1> QED
  BY <1>1, <1>2, <1>3, Zenon

\* A step of p leaves the other clerks alone.
Alone(p) ==
  \A q \in Actors \ {p} :
    /\ at'[q] = at[q] /\ rpc'[q] = rpc[q] /\ op'[q] = op[q] /\ count'[q] = count[q]
    /\ wire'[q] = wire[q] /\ result'[q] = result[q]
    /\ (q \in executed => q \in executed') /\ seen[q] \subseteq seen'[q]

\* So it is enough to look at p after it.
LEMMA StepOfOne ==
  ASSUME ClerkInv, NEW p \in Actors, Places', Alone(p), Asked(p)', Answered(p)', Returned(p)'
  PROVE  ClerkInv'
<1>1. ASSUME NEW q \in Actors, q # p PROVE Asked(q)' /\ Answered(q)' /\ Returned(q)'
  <2>1. Asked(q) /\ Answered(q) /\ Returned(q)
    BY Zenon DEF ClerkInv
  <2>2. q \in Actors \ {p}
    BY <1>1, Zenon
  <2> QED
    BY <2>1, <2>2, ClerkFrame, Zenon DEF Alone
<1> QED
  BY <1>1, Zenon DEF ClerkInv

\* Calling a server leaves the clerk in one of its loops, with a call under way.
LEMMA CallEffect ==
  ASSUME Places, NEW p \in Actors, NEW o, NEW loop \in {"group", "ctrler"}, NEW i, NEW c, Call(p, o, loop, i, c)
  PROVE  /\ \A q \in Actors : q # p => at'[q] = at[q] /\ rpc'[q] = rpc[q]
         /\ at'[p] \in {loop, "ctrler"} /\ rpc'[p] = "sent"
         /\ at' \in [Actors -> {"idle", "group", "ctrler"}] /\ rpc' \in [Actors -> {"none", "sent", "replied"}]
  BY Zenon DEF Places, Call

\* An operation begins.
LEMMA BeginStep ==
  ASSUME ClerkInv, NEW p \in Actors, NEW o, NEW loop, Begin(p, o, loop),
         \/ p = mck /\ loop = "ctrler" /\ o.kind \notin {"none", "Get", "Append"}
         \/ p # mck /\ loop = "group" /\ o.kind \in {"Get", "Append"} /\ o.key \in Keys
  PROVE  ClerkInv'
<1>1. Places /\ at[p] = "idle" /\ Call(p, o, loop, 0, config[p])
  BY Zenon DEF ClerkInv, Begin
<1>2. /\ \A q \in Actors : q # p => at'[q] = at[q] /\ rpc'[q] = rpc[q]
      /\ at'[p] \in {loop, "ctrler"} /\ rpc'[p] = "sent"
      /\ at' \in [Actors -> {"idle", "group", "ctrler"}] /\ rpc' \in [Actors -> {"none", "sent", "replied"}]
  BY <1>1, CallEffect
<1>3. /\ op' = [op EXCEPT ![p] = o] /\ count' = [count EXCEPT ![p] = @ + 1]
      /\ result' = [result EXCEPT ![p] = None] /\ executed' = executed \ {p}
      /\ seen' = [seen EXCEPT ![p] = {kv[k] : k \in {o.key} \cap Keys}]
      /\ wire' = wire /\ reply' = reply
  BY Zenon DEF Begin
<1>4. Places'
  <2>1. count' \in [Actors -> Nat]
    BY <1>1, <1>3 DEF Places
  <2>2. op' = [q \in Actors |-> op'[q]] /\ result' = [q \in Actors |-> result'[q]]
    BY <1>1, <1>3, Zenon DEF Places
  <2>3. seen' = [q \in Actors |-> seen'[q]]
    BY <1>1, <1>3, Zenon DEF Places
  <2> QED
    BY <1>1, <1>2, <1>3, <2>1, <2>2, <2>3, Zenon DEF Places
<1>5. Asked(p)' /\ Answered(p)' /\ Returned(p)'
  <2>1. op'[p] = o /\ count'[p] > 0
    BY <1>1, <1>3 DEF Places
  <2>2. Asked(p)'
    BY <1>2, <2>1 DEF Asked
  <2>3. Answered(p)' /\ Returned(p)'
    BY <1>2, Zenon DEF Answered, Returned
  <2> QED
    BY <2>2, <2>3, Zenon
<1>6. Alone(p)
  BY <1>1, <1>2, <1>3, Zenon DEF Places, Alone
<1> QED
  BY <1>4, <1>5, <1>6, StepOfOne, Zenon

\* A group replied to Get or PutAppend.
LEMMA GroupReplyStep ==
  ASSUME ClerkInv, NEW p \in Actors, GroupReply(p)
  PROVE  ClerkInv'
<1> DEFINE r == wire[p]
           answered == IF op[p].kind = "Get" THEN GetAnswered(r) ELSE PutAnswered(r)
<1>1. Places /\ Asked(p) /\ Answered(p) /\ at[p] = "group" /\ rpc[p] = "replied" /\ p # mck
  <2>1. Asked(p) /\ Answered(p) /\ Places
    BY Zenon DEF ClerkInv
  <2> QED
    BY <2>1, Zenon DEF GroupReply, Asked
<1>2. Decode(reply[p], wire[p]) = r
  BY <1>1, DecodeFresh, Zenon DEF Places
<1>3. /\ reply' = [reply EXCEPT ![p] = Zero] /\ wire' = [wire EXCEPT ![p] = Zero]
      /\ result' = [result EXCEPT ![p] = IF answered THEN r.value ELSE @]
      /\ op' = op /\ count' = count /\ executed' = executed /\ seen' = seen
      /\ answered => Finish(p)
      /\ ~answered => \E i : Call(p, op[p], "group", i, config[p])
  BY <1>2, Zenon DEF GroupReply, FreshReply
<1>4. /\ \A q \in Actors : q # p => at'[q] = at[q] /\ rpc'[q] = rpc[q]
      /\ at' \in [Actors -> {"idle", "group", "ctrler"}] /\ rpc' \in [Actors -> {"none", "sent", "replied"}]
      /\ answered => at'[p] = "idle" /\ rpc'[p] = "none"
      /\ ~answered => at'[p] \in {"group", "ctrler"} /\ rpc'[p] = "sent"
  <2> HIDE DEF answered
  <2>1. CASE answered
    BY <1>1, <1>3, <2>1, Zenon DEF Finish, Places
  <2>2. CASE ~answered
    BY <1>1, <1>3, <2>2, CallEffect, Zenon
  <2> QED
    BY <2>1, <2>2, Zenon
<1>5. Places'
  <2>1. reply' = [q \in Actors |-> Zero] /\ wire' = [q \in Actors |-> wire'[q]]
    BY <1>1, <1>3, Zenon DEF Places
  <2>2. \A q \in Actors : IsReply(wire'[q])
    BY <1>1, <1>3, Replies, Zenon DEF Places
  <2>3. result' = [q \in Actors |-> result'[q]]
    BY <1>1, <1>3, Zenon DEF Places
  <2> QED
    BY <1>1, <1>3, <1>4, <2>1, <2>2, <2>3, Zenon DEF Places
<1>6. Alone(p)
  <2> HIDE DEF answered
  <2> QED
    BY <1>1, <1>3, <1>4, Zenon DEF Places, Alone
<1>7. Asked(p)' /\ Answered(p)'
  BY <1>1, <1>3, <1>4, Zenon DEF Asked, Answered
<1>8. Returned(p)'
  <2>1. CASE answered
    <3>1. r.err \in {"OK", "ErrNoKey"}
      BY <2>1, Zenon DEF GetAnswered, PutAnswered
    <3>2. p \in executed /\ (op[p].kind = "Get" => r.value \in seen[p])
      BY <1>1, <3>1, Zenon DEF Answered
    <3>3. result'[p] = r.value
      BY <1>1, <1>3, <2>1, Zenon DEF Places
    <3> QED
      BY <1>3, <3>2, <3>3, Zenon DEF Returned
  <2>2. CASE ~answered
    BY <1>4, <2>2, Zenon DEF Returned
  <2> QED
    BY <2>1, <2>2, Zenon
<1> QED
  BY <1>5, <1>6, <1>7, <1>8, StepOfOne, Zenon

\* The controller replied to Query, Join, Leave or Move.
LEMMA CtrlerReplyStep ==
  ASSUME ClerkInv, NEW p \in Actors, CtrlerReply(p)
  PROVE  ClerkInv'
<1> DEFINE r == wire[p]
<1>1. Places /\ Asked(p) /\ Answered(p) /\ at[p] = "ctrler" /\ rpc[p] = "replied"
  <2>1. Asked(p) /\ Answered(p) /\ Places
    BY Zenon DEF ClerkInv
  <2> QED
    BY <2>1, Zenon DEF CtrlerReply
<1>2. Decode(reply[p], wire[p]) = r
  BY <1>1, DecodeFresh, Zenon DEF Places
<1>3. /\ reply' = [reply EXCEPT ![p] = Zero] /\ wire' = [wire EXCEPT ![p] = Zero]
      /\ op' = op /\ result' = result /\ count' = count /\ executed' = executed /\ seen' = seen
      /\ \/ p = mck /\ ~r.wrongLeader /\ Finish(p)
         \/ \E loop \in {"group", "ctrler"} : \E i, c : (p = mck => loop = "ctrler") /\ Call(p, op[p], loop, i, c)
  BY <1>2, Zenon DEF CtrlerReply, FreshReply, CtrlerAnswered
<1>4. /\ \A q \in Actors : q # p => at'[q] = at[q] /\ rpc'[q] = rpc[q]
      /\ at' \in [Actors -> {"idle", "group", "ctrler"}] /\ rpc' \in [Actors -> {"none", "sent", "replied"}]
      /\ \/ p = mck /\ ~r.wrongLeader /\ at'[p] = "idle" /\ rpc'[p] = "none"
         \/ at'[p] \in {"group", "ctrler"} /\ (p = mck => at'[p] = "ctrler") /\ rpc'[p] = "sent"
  <2>1. CASE p = mck /\ ~r.wrongLeader /\ Finish(p)
    BY <1>1, <2>1, Zenon DEF Finish, Places
  <2>2. ASSUME NEW loop \in {"group", "ctrler"}, NEW i, NEW c, p = mck => loop = "ctrler", Call(p, op[p], loop, i, c)
        PROVE  /\ \A q \in Actors : q # p => at'[q] = at[q] /\ rpc'[q] = rpc[q]
               /\ at' \in [Actors -> {"idle", "group", "ctrler"}] /\ rpc' \in [Actors -> {"none", "sent", "replied"}]
               /\ at'[p] \in {"group", "ctrler"} /\ (p = mck => at'[p] = "ctrler") /\ rpc'[p] = "sent"
    BY <1>1, <2>2, CallEffect, Zenon
  <2> QED
    BY <1>3, <2>1, <2>2, Zenon
<1>5. Places'
  <2>1. reply' = [q \in Actors |-> Zero] /\ wire' = [q \in Actors |-> wire'[q]]
    BY <1>1, <1>3, Zenon DEF Places
  <2>2. \A q \in Actors : IsReply(wire'[q])
    BY <1>1, <1>3, Replies, Zenon DEF Places
  <2> QED
    BY <1>1, <1>3, <1>4, <2>1, <2>2, Zenon DEF Places
<1>6. Alone(p)
  BY <1>1, <1>3, <1>4, Zenon DEF Places, Alone
<1>7. Asked(p)' /\ Answered(p)'
  BY <1>1, <1>3, <1>4, Zenon DEF Asked, Answered
<1>8. Returned(p)'
  BY <1>1, <1>3, <1>4, Zenon DEF Asked, Answered, Returned
<1> QED
  BY <1>5, <1>6, <1>7, <1>8, StepOfOne, Zenon

\* A call fails.
LEMMA FailStep ==
  ASSUME ClerkInv, NEW p \in Actors, Fail(p)
  PROVE  ClerkInv'
<1>1. Places /\ Asked(p) /\ at[p] \in {"group", "ctrler"}
  <2>1. Asked(p) /\ Places /\ rpc[p] # "none"
    BY Zenon DEF ClerkInv, Fail
  <2> QED
    BY <2>1, Zenon DEF Asked, Places
<1>2. /\ wire' = [wire EXCEPT ![p] = Zero] /\ Call(p, op[p], at[p], si[p] + 1, config[p])
      /\ op' = op /\ reply' = reply /\ result' = result /\ count' = count /\ executed' = executed /\ seen' = seen
  BY Zenon DEF Fail
<1>3. /\ \A q \in Actors : q # p => at'[q] = at[q] /\ rpc'[q] = rpc[q]
      /\ at'[p] \in {at[p], "ctrler"} /\ rpc'[p] = "sent"
      /\ at' \in [Actors -> {"idle", "group", "ctrler"}] /\ rpc' \in [Actors -> {"none", "sent", "replied"}]
  BY <1>1, <1>2, CallEffect, Zenon
<1>4. Places'
  <2>1. wire' = [q \in Actors |-> wire'[q]]
    BY <1>1, <1>2, Zenon DEF Places
  <2>2. \A q \in Actors : IsReply(wire'[q])
    BY <1>1, <1>2, Replies, Zenon DEF Places
  <2> QED
    BY <1>1, <1>2, <1>3, <2>1, <2>2, Zenon DEF Places
<1>5. Alone(p)
  BY <1>1, <1>2, <1>3, Zenon DEF Places, Alone
<1>6. Asked(p)' /\ Answered(p)' /\ Returned(p)'
  BY <1>1, <1>2, <1>3, Zenon DEF Asked, Answered, Returned
<1> QED
  BY <1>4, <1>5, <1>6, StepOfOne, Zenon

\* Executing a request forgets nothing; when it is the last operation of its
\* clerk, that operation is executed, and its key had the value it has then.
LEMMA ExecutedEffect ==
  ASSUME Places, NEW p, NEW o, NEW values, Executed(p, o, values)
  PROVE  /\ executed \subseteq executed'
         /\ seen' = [q \in Actors |-> seen'[q]]
         /\ \A q \in Actors : seen[q] \subseteq seen'[q]
         /\ o = op[p] => p \in executed'
         /\ p \in Actors /\ op[p].key \in Keys => values[op[p].key] \in seen'[p]
<1>1. \A q \in Actors : seen'[q] = seen[q] \cup {values[k] : k \in {op[q].key} \cap Keys}
  BY Zenon DEF Executed
<1>2. seen' = [q \in Actors |-> seen'[q]]
  BY Zenon DEF Executed
<1>3. executed \subseteq executed' /\ (o = op[p] => p \in executed')
  BY Zenon DEF Executed
<1> QED
  BY <1>1, <1>2, <1>3, Zenon

\* A server handles a request.
LEMMA HandleStep ==
  ASSUME ClerkInv, NEW p \in Actors, Handle(p)
  PROVE  ClerkInv'
<1> DEFINE answer == IF at[p] = "group" THEN GroupAnswer(p) ELSE CtrlerAnswer(p)
<1>1. Places /\ Asked(p) /\ at[p] \in {"group", "ctrler"} /\ rpc[p] = "sent"
  <2>1. Asked(p) /\ Places /\ rpc[p] = "sent"
    BY Zenon DEF ClerkInv, Handle
  <2> QED
    BY <2>1, Zenon DEF Asked, Places
<1>2. /\ rpc' = [rpc EXCEPT ![p] = "replied"] /\ wire' = [wire EXCEPT ![p] = answer]
      /\ op' = op /\ at' = at /\ reply' = reply /\ result' = result /\ count' = count
  BY Zenon DEF Handle
<1>3. /\ executed \subseteq executed' /\ seen' = [q \in Actors |-> seen'[q]]
      /\ \A q \in Actors : seen[q] \subseteq seen'[q]
      /\ at[p] = "group" /\ answer.err \in {"OK", "ErrNoKey"} =>
           p \in executed' /\ (op[p].kind = "Get" /\ op[p].key \in Keys => answer.value \in seen'[p])
      /\ p = mck /\ at[p] = "ctrler" /\ ~answer.wrongLeader => p \in executed'
  <2>1. CASE at[p] = "group" /\ answer.err \in {"OK", "ErrNoKey"}
    <3>1. PICK values : Executed(p, op[p], values) /\ (op[p].kind = "Get" => values = kv)
      BY <2>1, Zenon DEF Handle, ServeGroup
    <3>2. op[p].kind = "Get" => answer.value = kv[op[p].key]
      BY <2>1, Replies, Zenon
    <3> HIDE DEF answer
    <3> QED
      BY <1>1, <2>1, <3>1, <3>2, ExecutedEffect
  <2>2. CASE at[p] = "ctrler" /\ ~answer.wrongLeader
    <3>1. Executed(p, Request(p), kv)
      BY <2>2, Zenon DEF Handle, ServeCtrler
    <3>2. p = mck => Request(p) = op[p]
      BY Zenon DEF Request
    <3> HIDE DEF answer
    <3> QED
      BY <1>1, <2>2, <3>1, <3>2, ExecutedEffect, Zenon
  <2>3. CASE \/ at[p] = "group" /\ answer.err \notin {"OK", "ErrNoKey"}
             \/ at[p] = "ctrler" /\ answer.wrongLeader
    <3>1. executed' = executed /\ seen' = seen
      BY <2>3, Zenon DEF Handle
    <3> HIDE DEF answer
    <3> QED
      BY <1>1, <2>3, <3>1, Zenon DEF Places
  <2> QED
    BY <1>1, <2>1, <2>2, <2>3, Zenon
<1>4. IsReply(answer)
  BY Replies, Zenon
<1> HIDE DEF answer
<1>5. Places'
  <2>1. rpc' \in [Actors -> {"none", "sent", "replied"}]
    BY <1>1, <1>2, Zenon DEF Places
  <2>2. wire' = [q \in Actors |-> wire'[q]]
    BY <1>1, <1>2, Zenon DEF Places
  <2>3. \A q \in Actors : IsReply(wire'[q])
    BY <1>1, <1>2, <1>4, Zenon DEF Places
  <2> QED
    BY <1>1, <1>2, <1>3, <2>1, <2>2, <2>3, Zenon DEF Places
<1>6. Alone(p)
  BY <1>1, <1>2, <1>3, Zenon DEF Places, Alone
<1>7. wire'[p] = answer /\ rpc'[p] = "replied"
  BY <1>1, <1>2, Zenon DEF Places
<1>8. Asked(p)' /\ Answered(p)' /\ Returned(p)'
  BY <1>1, <1>2, <1>3, <1>7, Zenon DEF Asked, Answered, Returned
<1> QED
  BY <1>5, <1>6, <1>8, StepOfOne, Zenon

\* Steps that change no clerk.
LEMMA ServiceStep ==
  ASSUME ClerkInv,
         \/ \E x \in late : HandleLate(x)
         \/ \E g \in Gids \cup {Ctrler}, i \in 0 .. Replicas - 1 : Elect(g, i)
         \/ \E s \in Shards : HandOver(s)
         \/ UNCHANGED vars
  PROVE  ClerkInv'
<1>1. /\ op' = op /\ at' = at /\ rpc' = rpc /\ wire' = wire /\ reply' = reply /\ result' = result /\ count' = count
      /\ \/ executed' = executed /\ seen' = seen
         \/ \E p, o, values : Executed(p, o, values)
  BY Zenon DEF HandleLate, ServeCtrler, ServeGroup, Elect, HandOver, vars, clerkVars
<1>2. Places
  BY Zenon DEF ClerkInv
<1>3. /\ executed \subseteq executed' /\ seen' = [q \in Actors |-> seen'[q]]
      /\ \A q \in Actors : seen[q] \subseteq seen'[q]
  <2>1. CASE executed' = executed /\ seen' = seen
    BY <1>2, <2>1, Zenon DEF Places
  <2>2. CASE \E p, o, values : Executed(p, o, values)
    BY <1>2, <2>2, ExecutedEffect, Zenon
  <2> QED
    BY <1>1, <2>1, <2>2, Zenon
<1>4. Places'
  BY <1>1, <1>2, <1>3, Zenon DEF Places
<1>5. ASSUME NEW q \in Actors PROVE Asked(q)' /\ Answered(q)' /\ Returned(q)'
  <2>1. Asked(q) /\ Answered(q) /\ Returned(q)
    BY Zenon DEF ClerkInv
  <2> QED
    BY <1>1, <1>3, <2>1, ClerkFrame, Zenon
<1> QED
  BY <1>4, <1>5, Zenon DEF ClerkInv

\* A request to join names a group.
IsRequest(o) == o.kind = "Join" => o.gid \in Gids

\* What mck and the clerks of shardkv can be asked to do.
LEMMA BeginCases ==
  ASSUME \/ \E ck \in Clerks, key \in Keys : Get(ck, key) \/ PutAppend(ck, key)
         \/ \E gid \in Gids : Join(gid) \/ Leave(gid) \/ \E s \in Shards : Move(s, gid)
         \/ Query
  PROVE  \E p \in Actors : \E o, loop :
           /\ Begin(p, o, loop) /\ IsRequest(o)
           /\ \/ p = mck /\ loop = "ctrler" /\ o.kind \notin {"none", "Get", "Append"}
              \/ p # mck /\ loop = "group" /\ o.kind \in {"Get", "Append"} /\ o.key \in Keys
<1> USE ShardClerksAssumption
<1>1. ASSUME NEW ck \in Clerks, NEW key \in Keys, Get(ck, key)
      PROVE  \E o : Begin(ck, o, "group") /\ o.kind = "Get" /\ o.key \in Keys
  <2> DEFINE o == [NoOp EXCEPT !.kind = "Get", !.key = key]
  <2>1. o.kind = "Get" /\ o.key = key
    BY Zenon DEF NoOp
  <2>2. Begin(ck, o, "group")
    BY <1>1, Zenon DEF Get
  <2> HIDE DEF o
  <2> QED
    BY <2>1, <2>2, Zenon DEF IsRequest
<1>2. ASSUME NEW ck \in Clerks, NEW key \in Keys, PutAppend(ck, key)
      PROVE  \E o : Begin(ck, o, "group") /\ o.kind = "Append" /\ o.key \in Keys
  <2> DEFINE o == [NoOp EXCEPT !.kind = "Append", !.key = key, !.value = count[ck] + 1]
  <2>1. o.kind = "Append" /\ o.key = key
    BY Zenon DEF NoOp
  <2>2. Begin(ck, o, "group")
    BY <1>2, Zenon DEF PutAppend
  <2> HIDE DEF o
  <2> QED
    BY <2>1, <2>2, Zenon DEF IsRequest
<1>3. ASSUME NEW gid \in Gids, Join(gid)
      PROVE  \E o : Begin(mck, o, "ctrler") /\ o.kind \notin {"none", "Get", "Append"} /\ IsRequest(o)
  <2> DEFINE o == [NoOp EXCEPT !.kind = "Join", !.gid = gid]
  <2>1. o.kind = "Join" /\ o.gid = gid
    BY Zenon DEF NoOp
  <2>2. Begin(mck, o, "ctrler")
    BY <1>3, Zenon DEF Join
  <2> HIDE DEF o
  <2> QED
    BY <2>1, <2>2, Zenon DEF IsRequest
<1>4. ASSUME NEW gid, Leave(gid)
      PROVE  \E o : Begin(mck, o, "ctrler") /\ o.kind \notin {"none", "Get", "Append"} /\ IsRequest(o)
  <2> DEFINE o == [NoOp EXCEPT !.kind = "Leave", !.gid = gid]
  <2>1. o.kind = "Leave"
    BY Zenon DEF NoOp
  <2>2. Begin(mck, o, "ctrler")
    BY <1>4, Zenon DEF Leave
  <2> HIDE DEF o
  <2> QED
    BY <2>1, <2>2, Zenon DEF IsRequest
<1>5. ASSUME NEW s, NEW gid, Move(s, gid)
      PROVE  \E o : Begin(mck, o, "ctrler") /\ o.kind \notin {"none", "Get", "Append"} /\ IsRequest(o)
  <2> DEFINE o == [NoOp EXCEPT !.kind = "Move", !.gid = gid, !.shard = s]
  <2>1. o.kind = "Move"
    BY Zenon DEF NoOp
  <2>2. Begin(mck, o, "ctrler")
    BY <1>5, Zenon DEF Move
  <2> HIDE DEF o
  <2> QED
    BY <2>1, <2>2, Zenon DEF IsRequest
<1>6. ASSUME Query
      PROVE  \E o : Begin(mck, o, "ctrler") /\ o.kind \notin {"none", "Get", "Append"} /\ IsRequest(o)
  <2> DEFINE o == [NoOp EXCEPT !.kind = "Query"]
  <2>1. o.kind = "Query"
    BY Zenon DEF NoOp
  <2>2. Begin(mck, o, "ctrler")
    BY <1>6, Zenon DEF Query
  <2> HIDE DEF o
  <2> QED
    BY <2>1, <2>2, Zenon DEF IsRequest
<1>7. mck \in Actors /\ \A ck \in Clerks : ck \in Actors /\ ck # mck
  BY Zenon DEF Actors
<1> QED
  BY <1>1, <1>2, <1>3, <1>4, <1>5, <1>6, <1>7, Zenon DEF IsRequest

\* Every step keeps the invariant.
LEMMA ClerkStep == ClerkInv /\ [Next]_vars => ClerkInv'
<1> SUFFICES ASSUME ClerkInv, [Next]_vars PROVE ClerkInv'
  BY Zenon
<1>1. CASE \/ \E ck \in Clerks, key \in Keys : Get(ck, key) \/ PutAppend(ck, key)
           \/ \E gid \in Gids : Join(gid) \/ Leave(gid) \/ \E s \in Shards : Move(s, gid)
           \/ Query
  BY <1>1, BeginCases, BeginStep, Zenon
<1>2. CASE \E p \in Actors : Clerk(p) \/ Fail(p) \/ Handle(p)
  BY <1>2, GroupReplyStep, CtrlerReplyStep, FailStep, HandleStep, Zenon DEF Clerk
<1>3. CASE \/ \E x \in late : HandleLate(x)
           \/ \E g \in Gids \cup {Ctrler}, i \in 0 .. Replicas - 1 : Elect(g, i)
           \/ \E s \in Shards : HandOver(s)
           \/ UNCHANGED vars
  BY <1>3, ServiceStep, Zenon
<1> QED
  BY <1>1, <1>2, <1>3, Zenon DEF Next

\* A Get of a clerk of shardkv returns a value that its key had between the call
\* and the return, for any number of clerks, groups, shards and keys.
THEOREM GetsAreCurrent == Spec => []GetIsCurrent
<1>1. ClerkInv => GetIsCurrent
  <2> SUFFICES ASSUME ClerkInv, NEW ck \in Clerks, op[ck].kind = "Get", at[ck] = "idle"
               PROVE  result[ck] \in seen[ck]
    BY Zenon DEF GetIsCurrent
  <2>1. ck \in Actors
    BY Zenon DEF Actors
  <2>2. Asked(ck) /\ Returned(ck) /\ count[ck] \in Nat
    BY <2>1, Zenon DEF ClerkInv, Places
  <2> QED
    BY <2>2 DEF Asked, Returned
<1> QED
  BY <1>1, ClerkInit, ClerkStep, PTL DEF Spec

\* Every operation that returned was executed at least once by a leader of the
\* right service.
THEOREM ReturnsAreExecuted == Spec => []ReturnedMeansExecuted
<1>1. ClerkInv => ReturnedMeansExecuted
  BY Zenon DEF ClerkInv, Returned, ReturnedMeansExecuted
<1> QED
  BY <1>1, ClerkInit, ClerkStep, PTL DEF Spec

----------------------------------------------------------------------------
(***************************************************************************)
(* A clerk's configuration is never replaced by an older one.               *)
(***************************************************************************)
Configs == [num : Nat, shards : [Shards -> Gids \cup {0}], groups : SUBSET Gids]

\* The controller numbers its configurations from 0, without a gap.
Numbered ==
  /\ configs \in Seq(Configs) /\ Len(configs) > 0
  /\ \A k \in 1 .. Len(configs) : configs[k].num = k - 1

Requests == (\A p \in Actors : IsRequest(op[p])) /\ (\A x \in late : IsRequest(x.op))

\* What p has, and what a leader of the controller sent it, is a configuration
\* that there is; and what was sent is not older than what p has.
UpToDate(p) ==
  /\ config[p] \in Configs /\ config[p].num < Len(configs)
  /\ at[p] = "ctrler" /\ rpc[p] = "replied" /\ ~wire[p].wrongLeader /\ Request(p).kind = "Query" =>
       /\ wire[p].config \in Configs /\ wire[p].config.num < Len(configs)
       /\ config[p].num <= wire[p].config.num

ConfigInv ==
  /\ Numbered /\ Requests
  /\ config = [p \in Actors |-> config[p]]
  /\ \A p \in Actors : UpToDate(p)

\* The zero value of a configuration is one.
LEMMA NoConfigType == NoConfig \in Configs /\ NoConfig.num = 0
  BY ShardClerksAssumption, Zenon DEF NoConfig, Configs

\* There is one configuration at first, and everybody has it.
LEMMA ConfigInit == Init => ConfigInv
<1> SUFFICES ASSUME Init PROVE ConfigInv
  BY Zenon
<1>1. Numbered
  <2>1. configs = <<NoConfig>>
    BY Zenon DEF Init
  <2> QED
    BY <2>1, NoConfigType DEF Numbered
<1>2. Requests
  BY Zenon DEF Init, Requests, IsRequest, NoOp
<1>3. ASSUME NEW p \in Actors PROVE config[p] = NoConfig /\ rpc[p] = "none"
  BY Zenon DEF Init
<1>4. ASSUME NEW p \in Actors PROVE UpToDate(p)
  BY <1>1, <1>3, NoConfigType, Zenon DEF UpToDate, Numbered
<1>5. config = [p \in Actors |-> config[p]]
  BY Zenon DEF Init
<1> QED
  BY <1>1, <1>2, <1>4, <1>5, Zenon DEF ConfigInv

\* The latest configuration, and its number.
LEMMA LatestType ==
  Numbered => Latest \in Configs /\ Latest.num = Len(configs) - 1 /\ Len(configs) \in Nat
<1> SUFFICES ASSUME Numbered PROVE Latest \in Configs /\ Latest.num = Len(configs) - 1 /\ Len(configs) \in Nat
  BY Zenon
<1>1. Len(configs) \in Nat /\ Len(configs) \in 1 .. Len(configs)
  BY DEF Numbered
<1> QED
  BY <1>1 DEF Latest, Numbered

\* The leader of the controller only adds a configuration, with the next number.
LEMMA ServeNumbered ==
  ASSUME Numbered, NEW p, NEW o, IsRequest(o), ServeCtrler(p, o)
  PROVE  Numbered' /\ Len(configs') >= Len(configs)
<1> DEFINE groups == CASE o.kind = "Join" -> Latest.groups \cup {o.gid}
                       [] o.kind = "Leave" -> Latest.groups \ {o.gid}
                       [] OTHER -> Latest.groups
<1>1. \/ configs' = configs
      \/ \E c \in [Shards -> groups \cup {0}] :
           configs' = Append(configs, [num |-> Len(configs), shards |-> c, groups |-> groups])
  BY Zenon DEF ServeCtrler
<1>2. groups \in SUBSET Gids
  BY LatestType, Zenon DEF IsRequest, Configs
<1> HIDE DEF groups
<1>3. CASE configs' = configs
  BY <1>3 DEF Numbered
<1>4. ASSUME NEW c \in [Shards -> groups \cup {0}],
             configs' = Append(configs, [num |-> Len(configs), shards |-> c, groups |-> groups])
      PROVE  Numbered' /\ Len(configs') >= Len(configs)
  <2> DEFINE e == [num |-> Len(configs), shards |-> c, groups |-> groups]
  <2>1. e \in Configs /\ e.num = Len(configs)
    BY <1>2, LatestType, Zenon DEF Configs
  <2> HIDE DEF e
  <2>2. /\ configs' \in Seq(Configs) /\ Len(configs') = Len(configs) + 1
        /\ \A k \in 1 .. Len(configs) : configs'[k] = configs[k]
        /\ configs'[Len(configs) + 1] = e
    BY <1>4, <2>1 DEF Numbered, e
  <2> QED
    BY <2>1, <2>2, LatestType DEF Numbered
<1> QED
  BY <1>1, <1>3, <1>4, Zenon

\* The configurations of p in this step.
NotOlder(p) == config'[p].num >= config[p].num

\* A clerk whose own state stays is up to date as it was.
LEMMA ConfigFrame ==
  ASSUME NEW q, UpToDate(q), Numbered, Numbered', Len(configs') >= Len(configs),
         at'[q] = at[q], rpc'[q] = rpc[q], op'[q] = op[q], wire'[q] = wire[q], config'[q] = config[q]
  PROVE  UpToDate(q)' /\ NotOlder(q)
<1>1. Len(configs) \in Nat /\ Len(configs') \in Nat
  BY DEF Numbered
<1>2. Request(q)' = Request(q)
  BY Zenon DEF Request
<1>3. config[q].num \in Nat
  BY Zenon DEF UpToDate, Configs
<1> QED
  BY <1>1, <1>2, <1>3 DEF UpToDate, NotOlder, Configs

\* Who has no reply on the wire needs only its own configuration.
LEMMA ConfigKept ==
  ASSUME NEW q, UpToDate(q), Numbered, Numbered', Len(configs') >= Len(configs), config'[q] = config[q],
         rpc'[q] # "replied" \/ at'[q] # "ctrler"
  PROVE  UpToDate(q)' /\ NotOlder(q)
<1>1. Len(configs) \in Nat /\ Len(configs') \in Nat
  BY DEF Numbered
<1>2. config[q] \in Configs /\ config[q].num \in Nat /\ config[q].num < Len(configs)
  BY Zenon DEF UpToDate, Configs
<1> QED
  BY <1>1, <1>2 DEF UpToDate, NotOlder

\* An operation begins, a reply of a group arrives, or a call fails.
LEMMA ConfigStays ==
  ASSUME ClerkInv, ConfigInv, NEW p \in Actors,
         \/ \E o, loop : Begin(p, o, loop) /\ IsRequest(o)
         \/ GroupReply(p)
         \/ Fail(p)
  PROVE  ConfigInv' /\ \A q \in Actors : NotOlder(q)
<1>1. Places /\ Numbered /\ Requests /\ config' = config /\ configs' = configs
  BY Zenon DEF ClerkInv, ConfigInv, Begin, GroupReply, Fail, services
<1>2. Numbered'
  BY <1>1, Zenon DEF Numbered
<1>3. Requests'
  <2>1. CASE \E o, loop : Begin(p, o, loop) /\ IsRequest(o)
    BY <1>1, <2>1, Zenon DEF Begin, Requests, Places
  <2>2. CASE GroupReply(p)
    BY <1>1, <2>2, Zenon DEF GroupReply, Requests
  <2>3. CASE Fail(p)
    <3>1. IsRequest(Request(p))
      BY <1>1, Zenon DEF Request, Requests, IsRequest, NoOp
    <3>2. op' = op /\ \A x \in late' : x \in late \/ x.op = Request(p)
      BY <2>3 DEF Fail
    <3> QED
      BY <1>1, <3>1, <3>2, Zenon DEF Requests
  <2> QED
    BY <2>1, <2>2, <2>3, Zenon
<1>4. /\ rpc'[p] # "replied"
      /\ \A q \in Actors \ {p} :
           at'[q] = at[q] /\ rpc'[q] = rpc[q] /\ op'[q] = op[q] /\ wire'[q] = wire[q]
  <2>1. CASE \E o, loop : Begin(p, o, loop) /\ IsRequest(o)
    BY <1>1, <2>1 DEF Begin, Call, Places
  <2>2. CASE GroupReply(p)
    BY <1>1, <2>2, Zenon DEF GroupReply, Finish, Call, Places
  <2>3. CASE Fail(p)
    BY <1>1, <2>3, Zenon DEF Fail, Call, Places
  <2> QED
    BY <2>1, <2>2, <2>3, Zenon
<1>5. ASSUME NEW q \in Actors PROVE UpToDate(q)' /\ NotOlder(q)
  <2>1. UpToDate(q) /\ Len(configs') >= Len(configs)
    BY <1>1 DEF ConfigInv, Numbered
  <2>2. CASE q = p
    BY <1>1, <1>2, <1>4, <2>1, <2>2, ConfigKept, Zenon
  <2>3. CASE q # p
    BY <1>1, <1>2, <1>4, <2>1, <2>3, ConfigFrame, Zenon
  <2> QED
    BY <2>2, <2>3, Zenon
<1> QED
  BY <1>1, <1>2, <1>3, <1>5, Zenon DEF ConfigInv

\* A clerk takes the configuration that a leader of the controller sent it.
LEMMA ConfigTaken ==
  ASSUME ClerkInv, ConfigInv, NEW p \in Actors, CtrlerReply(p)
  PROVE  ConfigInv' /\ \A q \in Actors : NotOlder(q)
<1> DEFINE taken == ~wire[p].wrongLeader /\ Request(p).kind = "Query"
<1>1. /\ Places /\ Numbered /\ Requests /\ config = [q \in Actors |-> config[q]] /\ UpToDate(p)
      /\ at[p] = "ctrler" /\ rpc[p] = "replied"
      /\ configs' = configs /\ op' = op /\ late' = late /\ wire' = [wire EXCEPT ![p] = Zero]
  BY Zenon DEF ClerkInv, ConfigInv, CtrlerReply, services
<1>2. Decode(reply[p], wire[p]) = wire[p]
  BY <1>1, DecodeFresh, Zenon DEF Places
<1>3. config' = IF taken THEN [config EXCEPT ![p] = wire[p].config] ELSE config
  BY <1>2, Zenon DEF CtrlerReply, CtrlerAnswered
<1>4. Numbered' /\ Requests'
  BY <1>1, Zenon DEF Numbered, Requests
<1>5. rpc'[p] # "replied" /\ \A q \in Actors \ {p} : at'[q] = at[q] /\ rpc'[q] = rpc[q]
  BY <1>1 DEF CtrlerReply, Finish, Call, Places
<1>6. config' = [q \in Actors |-> config'[q]] /\ \A q \in Actors \ {p} : config'[q] = config[q]
  <2> HIDE DEF taken
  <2>1. CASE taken
    BY <1>1, <1>3, <2>1, Zenon
  <2>2. CASE ~taken
    BY <1>1, <1>3, <2>2, Zenon
  <2> QED
    BY <2>1, <2>2, Zenon
<1>7. UpToDate(p)' /\ NotOlder(p)
  <2>1. config'[p] = IF taken THEN wire[p].config ELSE config[p]
    <3> HIDE DEF taken
    <3>1. CASE taken
      BY <1>1, <1>3, <3>1, Zenon
    <3>2. CASE ~taken
      BY <1>3, <3>2, Zenon
    <3> QED
      BY <3>1, <3>2, Zenon
  <2>2. CASE taken
    BY <1>1, <1>5, <2>1, <2>2, Zenon DEF UpToDate, NotOlder
  <2>3. CASE ~taken
    <3>1. Len(configs') >= Len(configs) /\ config'[p] = config[p]
      BY <1>1, <2>1, <2>3 DEF Numbered
    <3> QED
      BY <1>1, <1>4, <1>5, <3>1, ConfigKept, Zenon
  <2> QED
    BY <2>2, <2>3, Zenon
<1>8. ASSUME NEW q \in Actors, q # p PROVE UpToDate(q)' /\ NotOlder(q)
  <2>1. UpToDate(q) /\ Len(configs') >= Len(configs) /\ q \in Actors \ {p}
    BY <1>1, <1>8 DEF ConfigInv, Numbered
  <2>2. wire'[q] = wire[q]
    BY <1>1, <1>8, Zenon DEF Places
  <2> QED
    BY <1>1, <1>4, <1>5, <1>6, <2>1, <2>2, ConfigFrame, Zenon
<1> QED
  BY <1>4, <1>6, <1>7, <1>8, Zenon DEF ConfigInv

\* A server handles a request: what the controller's leader sends is the latest
\* configuration.
LEMMA ConfigSent ==
  ASSUME ClerkInv, ConfigInv, NEW p \in Actors, Handle(p)
  PROVE  ConfigInv' /\ \A q \in Actors : NotOlder(q)
<1>1. /\ Places /\ Numbered /\ Requests /\ config = [q \in Actors |-> config[q]]
      /\ \A q \in Actors : UpToDate(q)
  BY Zenon DEF ClerkInv, ConfigInv
<1>2. /\ rpc' = [rpc EXCEPT ![p] = "replied"] /\ op' = op /\ at' = at /\ config' = config /\ late' = late
      /\ wire' = [wire EXCEPT ![p] = IF at[p] = "group" THEN GroupAnswer(p) ELSE CtrlerAnswer(p)]
      /\ configs' = configs \/ (at[p] # "group" /\ ServeCtrler(p, Request(p)))
  BY Zenon DEF Handle, ServeGroup, services
<1>3. IsRequest(Request(p))
  BY <1>1, Zenon DEF Request, Requests, IsRequest, NoOp
<1>4. Numbered' /\ Len(configs') >= Len(configs)
  <2>1. CASE configs' = configs
    BY <1>1, <2>1 DEF Numbered
  <2>2. CASE ServeCtrler(p, Request(p))
    BY <1>1, <1>3, <2>2, ServeNumbered, Zenon
  <2> QED
    BY <1>2, <2>1, <2>2, Zenon
<1>5. Requests'
  BY <1>1, <1>2, Zenon DEF Requests
<1>6. UpToDate(p)' /\ NotOlder(p)
  <2>1. CASE at[p] = "ctrler" /\ Request(p).kind = "Query" /\ ~CtrlerAnswer(p).wrongLeader
    <3>1. CtrlerAnswer(p).config = Latest
      BY <2>1, Zenon DEF CtrlerAnswer, Zero
    <3>2. configs' = configs
      BY <1>2, <2>1, Zenon DEF ServeCtrler
    <3>3. wire'[p].config = Latest
      BY <1>1, <1>2, <2>1, <3>1, Zenon DEF Places
    <3> QED
      BY <1>1, <1>2, <3>2, <3>3, LatestType DEF UpToDate, NotOlder, Configs
  <2>2. CASE at[p] = "ctrler" /\ ~(Request(p).kind = "Query" /\ ~CtrlerAnswer(p).wrongLeader)
    <3>1. wire'[p] = CtrlerAnswer(p)
      BY <1>1, <1>2, <2>2, Zenon DEF Places
    <3>2. Request(p)' = Request(p)
      BY <1>2, Zenon DEF Request
    <3>3. config[p] \in Configs /\ config[p].num \in Nat /\ config[p].num < Len(configs)
      BY <1>1, Zenon DEF UpToDate, Configs
    <3>4. Len(configs) \in Nat /\ Len(configs') \in Nat
      BY <1>1, <1>4 DEF Numbered
    <3> QED
      BY <1>2, <1>4, <2>2, <3>1, <3>2, <3>3, <3>4 DEF UpToDate, NotOlder
  <2>3. CASE at[p] # "ctrler"
    BY <1>1, <1>2, <1>4, <2>3, ConfigKept, Zenon
  <2> QED
    BY <2>1, <2>2, <2>3, Zenon
<1>7. ASSUME NEW q \in Actors, q # p PROVE UpToDate(q)' /\ NotOlder(q)
  <2>1. wire'[q] = wire[q] /\ rpc'[q] = rpc[q]
    BY <1>1, <1>2, <1>7, Zenon DEF Places
  <2> QED
    BY <1>1, <1>2, <1>4, <2>1, ConfigFrame, Zenon
<1> QED
  BY <1>1, <1>2, <1>4, <1>5, <1>6, <1>7, Zenon DEF ConfigInv

\* Steps that change no clerk.
LEMMA ConfigService ==
  ASSUME ClerkInv, ConfigInv,
         \/ \E x \in late : HandleLate(x)
         \/ \E g \in Gids \cup {Ctrler}, i \in 0 .. Replicas - 1 : Elect(g, i)
         \/ \E s \in Shards : HandOver(s)
         \/ UNCHANGED vars
  PROVE  ConfigInv' /\ \A q \in Actors : NotOlder(q)
<1>1. /\ op' = op /\ at' = at /\ rpc' = rpc /\ wire' = wire /\ config' = config
      /\ late' \subseteq late
      /\ configs' = configs \/ \E x \in late : ServeCtrler(x.p, x.op)
  BY Zenon DEF HandleLate, ServeGroup, Elect, HandOver, vars, clerkVars, services
<1>2. Numbered /\ Requests /\ \A q \in Actors : UpToDate(q)
  BY Zenon DEF ConfigInv
<1>3. Numbered' /\ Len(configs') >= Len(configs)
  <2>1. CASE configs' = configs
    BY <1>2, <2>1 DEF Numbered
  <2>2. ASSUME NEW x \in late, ServeCtrler(x.p, x.op)
        PROVE  Numbered' /\ Len(configs') >= Len(configs)
    <3>1. IsRequest(x.op)
      BY <1>2, Zenon DEF Requests
    <3> QED
      BY <1>2, <2>2, <3>1, ServeNumbered, Zenon
  <2> QED
    BY <1>1, <2>1, <2>2, Zenon
<1>4. Requests'
  BY <1>1, <1>2, Zenon DEF Requests
<1>5. ASSUME NEW q \in Actors PROVE UpToDate(q)' /\ NotOlder(q)
  BY <1>1, <1>2, <1>3, ConfigFrame, Zenon
<1> QED
  BY <1>1, <1>3, <1>4, <1>5, Zenon DEF ConfigInv

\* Every step keeps the invariant, and gives nobody an older configuration.
LEMMA ConfigStep ==
  ClerkInv /\ ConfigInv /\ [Next]_vars => ConfigInv' /\ \A q \in Actors : NotOlder(q)
<1> SUFFICES ASSUME ClerkInv, ConfigInv, [Next]_vars
             PROVE  ConfigInv' /\ \A q \in Actors : NotOlder(q)
  BY Zenon
<1>1. CASE \/ \E ck \in Clerks, key \in Keys : Get(ck, key) \/ PutAppend(ck, key)
           \/ \E gid \in Gids : Join(gid) \/ Leave(gid) \/ \E s \in Shards : Move(s, gid)
           \/ Query
  <2>1. PICK p \in Actors : \E o, loop : Begin(p, o, loop) /\ IsRequest(o)
    BY <1>1, BeginCases, Zenon
  <2> QED
    BY <2>1, ConfigStays, Zenon
<1>2. CASE \E p \in Actors : Clerk(p) \/ Fail(p) \/ Handle(p)
  BY <1>2, ConfigStays, ConfigTaken, ConfigSent, Zenon DEF Clerk
<1>3. CASE \/ \E x \in late : HandleLate(x)
           \/ \E g \in Gids \cup {Ctrler}, i \in 0 .. Replicas - 1 : Elect(g, i)
           \/ \E s \in Shards : HandOver(s)
           \/ UNCHANGED vars
  BY <1>3, ConfigService, Zenon
<1> QED
  BY <1>1, <1>2, <1>3, Zenon DEF Next

\* Whichever server of the controller answers, and however late: no clerk goes
\* back to an older configuration.
THEOREM ConfigsOnlyAdvance == Spec => ConfigNeverOlder
<1>1. ClerkInv /\ ConfigInv /\ [Next]_vars => [\A p \in Actors : config'[p].num >= config[p].num]_vars
  BY ConfigStep, Zenon DEF NotOlder
<1> QED
  BY <1>1, ClerkInit, ConfigInit, ClerkStep, ConfigStep, PTL DEF Spec, ConfigNeverOlder
=============================================================================
