------------------------------- MODULE LabRpc -------------------------------
(***************************************************************************)
(* labrpc/labrpc.go: a network that loses requests and replies, delays and  *)
(* reorders them, and disconnects hosts.  A call takes part in up to four   *)
(* goroutines: the caller, processReq, the one that runs the handler, and   *)
(* the one that drains the handler's channel once processReq gave it up.    *)
(* Every step between two lock regions or channel operations is an action.  *)
(*                                                                          *)
(* Delays are the steps that have not happened yet, so the flags that only  *)
(* lengthen them (longDelays, longReordering) have no state here; the       *)
(* statistics counters are left out.                                        *)
(***************************************************************************)
CONSTANTS
  Calls,      \* invocations of ClientEnd.Call
  Ends,       \* endnames
  Names,      \* servernames
  Servers,    \* Server objects
  Hangs,      \* the calls whose handler never returns
  None        \* nil

ASSUME LabRpcAssumption == None \notin Ends \cup Names \cup Servers /\ Hangs \subseteq Calls

VARIABLES
  reliable, ends, enabled, connections, servers,   \* Network, under rn.mu
  done,        \* rn.done is closed
  loop,        \* the goroutine of MakeNetwork still receives
  call,        \* where each caller is, and what Call returned to it
  end,         \* the ClientEnd of each call
  req,         \* where processReq is
  view,        \* what readEndnameInfo returned to it
  handler,     \* the goroutine that runs the handler
  executed,    \* the calls each Server object has executed
  excused      \* history: calls during which something was wrong

netVars == <<reliable, ends, enabled, connections, servers, done>>
callVars == <<call, end, req, view, handler, executed>>
vars == <<netVars, loop, callVars, excused>>

Unread == [servername |-> None, server |-> None, reliable |-> TRUE]

Outstanding == {c \in Calls : call[c] \in {"send", "wait"}}

\* The condition under which nothing may make a call on e fail.
Healthy(e) ==
  /\ reliable /\ enabled[e] /\ ~done
  /\ connections[e] \in Names
  /\ servers[connections[e]] \in Servers

MakeNetwork ==
  /\ reliable = TRUE
  /\ ends = {}
  /\ enabled = [e \in Ends |-> FALSE]
  /\ connections = [e \in Ends |-> None]
  /\ servers = [n \in Names |-> None]
  /\ done = FALSE
  /\ loop = TRUE

Init ==
  /\ MakeNetwork
  /\ call = [c \in Calls |-> "idle"]
  /\ end = [c \in Calls |-> None]
  /\ req = [c \in Calls |-> "none"]
  /\ view = [c \in Calls |-> Unread]
  /\ handler = [c \in Calls |-> "none"]
  /\ executed = [s \in Servers |-> {}]
  /\ excused = {}

----------------------------------------------------------------------------
(***************************************************************************)
(* The operations of the tester: one lock region each.                      *)
(***************************************************************************)
\* The calls that an operation of the tester may make fail.
Excuse ==
  excused' = excused \cup
    {c \in Outstanding \ excused :
       \/ ~Healthy(end[c])'
       \/ connections'[end[c]] # connections[end[c]]
       \/ servers'[connections[end[c]]] # servers[connections[end[c]]]}

\* MakeEnd is fatal for a name that exists.
MakeEnd(e) ==
  /\ e \notin ends
  /\ ends' = ends \cup {e}
  /\ enabled' = [enabled EXCEPT ![e] = FALSE]
  /\ connections' = [connections EXCEPT ![e] = None]
  /\ UNCHANGED <<reliable, servers, done>>

Connect(e, n) ==
  /\ connections' = [connections EXCEPT ![e] = n]
  /\ UNCHANGED <<reliable, ends, enabled, servers, done>>

Enable(e, yes) ==
  /\ enabled' = [enabled EXCEPT ![e] = yes]
  /\ UNCHANGED <<reliable, ends, connections, servers, done>>

AddServer(n, rs) ==
  /\ servers' = [servers EXCEPT ![n] = rs]
  /\ UNCHANGED <<reliable, ends, enabled, connections, done>>

DeleteServer(n) ==
  /\ servers' = [servers EXCEPT ![n] = None]
  /\ UNCHANGED <<reliable, ends, enabled, connections, done>>

Reliable(yes) ==
  /\ reliable' = yes
  /\ UNCHANGED <<ends, enabled, connections, servers, done>>

\* Closing a channel twice would panic.
Cleanup ==
  /\ ~done
  /\ done' = TRUE
  /\ UNCHANGED <<reliable, ends, enabled, connections, servers>>

----------------------------------------------------------------------------
(***************************************************************************)
(* ClientEnd.Call and the goroutine of MakeNetwork.                         *)
(***************************************************************************)
Call(c, e) ==
  /\ call[c] = "idle"
  /\ e \in ends
  /\ call' = [call EXCEPT ![c] = "send"]
  /\ end' = [end EXCEPT ![c] = e]
  /\ excused' = IF Healthy(e) THEN excused ELSE excused \cup {c}
  /\ UNCHANGED <<netVars, loop, req, view, handler, executed>>

\* e.ch <- req meets xreq := <-rn.endCh, and processReq starts.
Receive(c) ==
  /\ call[c] = "send"
  /\ loop
  /\ call' = [call EXCEPT ![c] = "wait"]
  /\ req' = [req EXCEPT ![c] = "arrived"]
  /\ UNCHANGED <<netVars, loop, end, view, handler, executed, excused>>

NetworkDestroyed(c) ==
  /\ call[c] = "send"
  /\ done
  /\ call' = [call EXCEPT ![c] = "false"]
  /\ UNCHANGED <<netVars, loop, end, req, view, handler, executed, excused>>

StopLoop ==
  /\ loop /\ done
  /\ loop' = FALSE
  /\ UNCHANGED <<netVars, callVars, excused>>

----------------------------------------------------------------------------
(***************************************************************************)
(* processReq.                                                              *)
(***************************************************************************)
Proceed(c, location) ==
  /\ req' = [req EXCEPT ![c] = location]
  /\ UNCHANGED <<netVars, loop, call, end, executed, excused>>

\* Seeded fault: a connected end is enough, a deleted server is not noticed.
readEndnameInfoUnchecked(c) ==
  LET e == end[c]
      n == connections[e]
      rs == IF n = None THEN None ELSE servers[n]
  IN /\ req[c] = "arrived"
     /\ view' = [view EXCEPT ![c] = [servername |-> n, server |-> rs, reliable |-> reliable]]
     /\ Proceed(c, IF enabled[e] /\ n # None THEN "deliver" ELSE "fail")
     /\ UNCHANGED handler

readEndnameInfo(c) ==
  LET e == end[c]
      n == connections[e]
      rs == IF n = None THEN None ELSE servers[n]
  IN /\ req[c] = "arrived"
     /\ view' = [view EXCEPT ![c] = [servername |-> n, server |-> rs, reliable |-> reliable]]
     /\ Proceed(c, IF enabled[e] /\ n # None /\ rs # None THEN "deliver" ELSE "fail")
     /\ UNCHANGED handler

isServerDead(c) ==
  ~enabled[end[c]] \/ servers[view[c].servername] # view[c].server

\* Seeded fault: a dropped request is forgotten, and nothing is sent on replyCh.
DropRequestSilently(c) ==
  /\ req[c] = "deliver"
  /\ ~view[c].reliable
  /\ Proceed(c, "dropped")
  /\ UNCHANGED <<view, handler>>

DropRequest(c) ==
  /\ req[c] = "deliver"
  /\ ~view[c].reliable
  /\ Proceed(c, "fail")
  /\ UNCHANGED <<view, handler>>

Dispatch(c) ==
  /\ req[c] = "deliver"
  /\ Proceed(c, "select")
  /\ handler' = [handler EXCEPT ![c] = "running"]
  /\ UNCHANGED view

\* case reply = <-ech
TakeReply(c) ==
  /\ req[c] = "select"
  /\ handler[c] = "replying"
  /\ Proceed(c, "answered")
  /\ handler' = [handler EXCEPT ![c] = "gone"]
  /\ UNCHANGED view

\* Seeded fault: the 100 ms are taken for the death of the server.
GiveUpWhenSlow(c) ==
  /\ req[c] = "select"
  /\ Proceed(c, "abandoned")
  /\ UNCHANGED <<view, handler>>

\* Seeded fault: only DeleteServer is noticed, not a disabled end.
GiveUpDeleted(c) ==
  /\ req[c] = "select"
  /\ servers[view[c].servername] # view[c].server
  /\ Proceed(c, "abandoned")
  /\ UNCHANGED <<view, handler>>

\* case <-time.After, with the server dead: from here on ech is drained.
GiveUp(c) ==
  /\ req[c] = "select"
  /\ isServerDead(c)
  /\ Proceed(c, "abandoned")
  /\ UNCHANGED <<view, handler>>

\* The second isServerDead, and then the reply is dropped or not.
FinalCheck(c) ==
  /\ req[c] \in {"answered", "abandoned"}
  /\ \/ /\ req[c] = "abandoned" \/ isServerDead(c)
        /\ Proceed(c, "fail")
     \/ /\ req[c] = "answered" /\ ~isServerDead(c)
        /\ ~view[c].reliable
        /\ Proceed(c, "fail")
     \/ /\ req[c] = "answered" /\ ~isServerDead(c)
        /\ Proceed(c, "reply")
  /\ UNCHANGED <<view, handler>>

\* Seeded fault: the reply to a dropped request looks like a success.
SendReplyOk(c) ==
  /\ req[c] \in {"reply", "fail"}
  /\ req' = [req EXCEPT ![c] = "gone"]
  /\ call' = [call EXCEPT ![c] = "true"]
  /\ UNCHANGED <<netVars, loop, end, view, handler, executed, excused>>

\* req.replyCh <- reply meets rep := <-req.replyCh, at once or from a timer.
SendReply(c) ==
  /\ req[c] \in {"reply", "fail"}
  /\ req' = [req EXCEPT ![c] = "gone"]
  /\ call' = [call EXCEPT ![c] = IF req[c] = "reply" THEN "true" ELSE "false"]
  /\ UNCHANGED <<netVars, loop, end, view, handler, executed, excused>>

----------------------------------------------------------------------------
(***************************************************************************)
(* The goroutine that runs Server.dispatch, and the one that drains ech.    *)
(***************************************************************************)
dispatch(c) ==
  /\ handler[c] = "running"
  /\ handler' = [handler EXCEPT ![c] = "replying"]
  /\ executed' = [executed EXCEPT ![view[c].server] = @ \cup {c}]
  /\ UNCHANGED <<netVars, loop, call, end, req, view, excused>>

\* Seeded fault: nothing receives from ech once processReq has returned.
DrainInTime(c) ==
  /\ handler[c] = "replying"
  /\ req[c] = "abandoned"
  /\ handler' = [handler EXCEPT ![c] = "gone"]
  /\ UNCHANGED <<netVars, loop, call, end, req, view, executed, excused>>

Drain(c) ==
  /\ handler[c] = "replying"
  /\ req[c] \in {"abandoned", "fail", "gone"}
  /\ handler' = [handler EXCEPT ![c] = "gone"]
  /\ UNCHANGED <<netVars, loop, call, end, req, view, executed, excused>>

----------------------------------------------------------------------------
processReq(c) ==
  \/ readEndnameInfo(c) \/ DropRequest(c) \/ Dispatch(c) \/ TakeReply(c)
  \/ GiveUp(c) \/ FinalCheck(c) \/ SendReply(c)

Caller(c) == Receive(c) \/ NetworkDestroyed(c)

\* The steps of the network: everything but the tester and the callers.
NetworkStep ==
  \/ \E c \in Calls : Caller(c) \/ processReq(c) \/ dispatch(c) \/ Drain(c)
  \/ StopLoop

\* A Server object is new when it is added, and a ClientEnd is connected once.
Tester ==
  /\ \/ \E e \in Ends : MakeEnd(e)
     \/ \E e \in ends, n \in Names : connections[e] = None /\ Connect(e, n)
     \/ \E e \in ends, yes \in BOOLEAN : Enable(e, yes)
     \/ \E n \in Names, rs \in Servers :
          /\ \A m \in Names : servers[m] # rs
          /\ \A c \in Calls : view[c].server # rs
          /\ AddServer(n, rs)
     \/ \E n \in Names : DeleteServer(n)
     \/ \E yes \in BOOLEAN : Reliable(yes)
     \/ Cleanup
  /\ UNCHANGED <<loop, callVars>>
  /\ Excuse

Next ==
  \/ NetworkStep
  \/ Tester
  \/ \E c \in Calls, e \in Ends : Call(c, e)

Spec == Init /\ [][Next]_vars

(***************************************************************************)
(* Fairness.  Goroutines that can run do; senders on endCh are served in    *)
(* the order they arrived; timers fire; a handler returns unless it hangs.  *)
(***************************************************************************)
Fairness ==
  /\ \A c \in Calls : WF_vars(Caller(c)) /\ WF_vars(processReq(c)) /\ WF_vars(Drain(c))
  /\ \A c \in Calls \ Hangs : WF_vars(dispatch(c))

FairSpec == Spec /\ Fairness

----------------------------------------------------------------------------
(***************************************************************************)
(* Properties.                                                              *)
(***************************************************************************)
\* The local variables of the goroutines of one call fit together.
CallOK(c) ==
  /\ call[c] = "idle" => end[c] = None
  /\ call[c] # "idle" => end[c] \in ends
  /\ call[c] \in {"idle", "send"} => req[c] = "none"
  /\ call[c] = "wait" <=> req[c] \notin {"none", "gone"}
  /\ call[c] = "true" => req[c] = "gone"
  /\ req[c] \in {"none", "arrived"} => view[c] = Unread
  /\ req[c] \in {"deliver", "select", "answered", "abandoned", "reply"} =>
       view[c].servername \in Names /\ view[c].server \in Servers
  /\ req[c] \in {"none", "arrived", "deliver"} => handler[c] = "none"
  /\ req[c] = "select" => handler[c] \in {"running", "replying"}
  /\ req[c] \in {"answered", "reply"} => handler[c] = "gone"
  /\ handler[c] # "none" => view[c].server \in Servers

\* The type of every variable, and the places in which the goroutines of a call
\* can be at the same time.
TypeOK ==
  /\ reliable \in BOOLEAN /\ done \in BOOLEAN /\ loop \in BOOLEAN
  /\ ends \in SUBSET Ends
  /\ enabled \in [Ends -> BOOLEAN]
  /\ connections \in [Ends -> Names \cup {None}]
  /\ servers \in [Names -> Servers \cup {None}]
  /\ call \in [Calls -> {"idle", "send", "wait", "true", "false"}]
  /\ end \in [Calls -> Ends \cup {None}]
  /\ req \in [Calls -> {"none", "arrived", "deliver", "select", "answered", "abandoned",
                        "reply", "fail", "gone"}]
  /\ view \in [Calls -> [servername : Names \cup {None}, server : Servers \cup {None},
                         reliable : BOOLEAN]]
  /\ handler \in [Calls -> {"none", "running", "replying", "gone"}]
  /\ executed \in [Servers -> SUBSET Calls]
  /\ excused \in SUBSET Calls
  /\ \A c \in Calls : CallOK(c)

\* "Call() returns false if the network lost the request or reply or the server
\* is down": a call during which the network stayed reliable, its end enabled and
\* its server in place never returns false, whatever happened before and however
\* long its handler took.
NoSpuriousFailure == \A c \in Calls : call[c] = "false" => c \in excused

\* "Call() returns true to indicate that the server executed the request": the
\* network implements at-most-once calls, in which a call that failed may still
\* be executed, even later.
Rpc == INSTANCE AtMostOnceRpc WITH
  pending <- Outstanding,
  executed <- UNION {executed[s] : s \in Servers},
  acked <- {c \in Calls : call[c] = "true"},
  failed <- {c \in Calls : call[c] = "false"}

ImplementsAtMostOnceRpc == Rpc!Spec

\* "Call() is guaranteed to return (perhaps after a delay) *except* if the
\* handler function on the server side does not return."
CallsReturn ==
  \A c \in Calls \ Hangs : call[c] = "send" ~> call[c] \in {"true", "false"}

\* A call whose handler hangs is not stuck with a server that is gone: processReq
\* notices by polling that DeleteServer or Enable(false) was called.
DeadServerNoticed == \A c \in Calls : ~<>[](req[c] = "select" /\ isServerDead(c))

\* Every handler that returns gets rid of its reply, so that its goroutine ends,
\* although processReq may have stopped waiting for it.
HandlersTerminate == \A c \in Calls : handler[c] = "replying" ~> handler[c] = "gone"
=============================================================================
