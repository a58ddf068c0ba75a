---------------------------- MODULE LabRpcProofs ----------------------------
(***************************************************************************)
(* Theorems about LabRpc, for any numbers of calls, ends and servers.       *)
(***************************************************************************)
EXTENDS LabRpc, TLAPS

\* The operations of the tester on the network keep its type, whatever excuse
\* they give to the calls; ends are never forgotten.
LEMMA TesterType ==
  ASSUME TypeOK, Tester
  PROVE  TypeOK'
<1>1. UNCHANGED <<loop, callVars>>
  BY Zenon DEF Tester
<1>2. excused' \in SUBSET Calls
  BY Zenon DEF Tester, Excuse, Outstanding, TypeOK
<1>3. /\ reliable' \in BOOLEAN /\ done' \in BOOLEAN
      /\ ends' \in SUBSET Ends /\ ends \subseteq ends'
      /\ enabled' \in [Ends -> BOOLEAN]
      /\ connections' \in [Ends -> Names \cup {None}]
      /\ servers' \in [Names -> Servers \cup {None}]
  <2>1. CASE \E e \in Ends : MakeEnd(e)
    BY <2>1, Zenon DEF TypeOK, MakeEnd
  <2>2. CASE \E e \in ends, n \in Names : Connect(e, n)
    BY <2>2 DEF TypeOK, Connect
  <2>3. CASE \E e \in ends, yes \in BOOLEAN : Enable(e, yes)
    BY <2>3 DEF TypeOK, Enable
  <2>4. CASE \E n \in Names, rs \in Servers : AddServer(n, rs)
    BY <2>4 DEF TypeOK, AddServer
  <2>5. CASE \E n \in Names : DeleteServer(n)
    BY <2>5, Zenon DEF TypeOK, DeleteServer
  <2>6. CASE (\E yes \in BOOLEAN : Reliable(yes)) \/ Cleanup
    BY <2>6, Zenon DEF TypeOK, Reliable, Cleanup
  <2>. QED BY <2>1, <2>2, <2>3, <2>4, <2>5, <2>6, Zenon DEF Tester
<1>4. \A c \in Calls : CallOK(c)'
  BY <1>1, <1>3 DEF TypeOK, CallOK, callVars, Unread
<1>. QED BY <1>1, <1>2, <1>3, <1>4, Zenon DEF TypeOK, callVars

\* The caller, and the loop of MakeNetwork.
LEMMA CallerType ==
  ASSUME TypeOK, NEW c \in Calls, (\E e \in Ends : Call(c, e)) \/ Caller(c)
  PROVE  TypeOK'
<1>1. CASE \E e \in Ends : Call(c, e)
  BY <1>1 DEF TypeOK, CallOK, Call, netVars, Unread
<1>2. CASE Receive(c)
  BY <1>2 DEF TypeOK, CallOK, Receive, netVars, Unread
<1>3. CASE NetworkDestroyed(c)
  BY <1>3 DEF TypeOK, CallOK, NetworkDestroyed, netVars, Unread
<1>. QED BY <1>1, <1>2, <1>3, Zenon DEF Caller

\* processReq.
LEMMA ProcessReqType ==
  ASSUME TypeOK, NEW c \in Calls, processReq(c)
  PROVE  TypeOK'
<1>1. CASE readEndnameInfo(c)
  BY <1>1, LabRpcAssumption DEF TypeOK, CallOK, readEndnameInfo, Proceed, netVars, Unread
<1>2. CASE DropRequest(c)
  BY <1>2 DEF TypeOK, CallOK, DropRequest, Proceed, netVars, Unread
<1>3. CASE Dispatch(c)
  BY <1>3 DEF TypeOK, CallOK, Dispatch, Proceed, netVars, Unread
<1>4. CASE TakeReply(c)
  BY <1>4 DEF TypeOK, CallOK, TakeReply, Proceed, netVars, Unread
<1>5. CASE GiveUp(c)
  BY <1>5 DEF TypeOK, CallOK, GiveUp, Proceed, netVars, Unread
<1>6. CASE FinalCheck(c)
  BY <1>6 DEF TypeOK, CallOK, FinalCheck, Proceed, netVars, Unread
<1>7. CASE SendReply(c)
  BY <1>7 DEF TypeOK, CallOK, SendReply, netVars, Unread
<1>. QED BY <1>1, <1>2, <1>3, <1>4, <1>5, <1>6, <1>7, Zenon DEF processReq

\* The goroutine of the handler.
LEMMA HandlerType ==
  ASSUME TypeOK, NEW c \in Calls, dispatch(c) \/ Drain(c)
  PROVE  TypeOK'
<1>1. CASE dispatch(c)
  BY <1>1 DEF TypeOK, CallOK, dispatch, netVars, Unread
<1>2. CASE Drain(c)
  BY <1>2 DEF TypeOK, CallOK, Drain, netVars, Unread
<1>. QED BY <1>1, <1>2, Zenon

\* Type correctness of the network: in particular, the goroutines of one call are
\* never in places that do not fit together.
THEOREM TypeCorrect == Spec => []TypeOK
<1>1. Init => TypeOK
  <2>. SUFFICES ASSUME Init PROVE TypeOK
    BY Zenon
  <2>1. reliable \in BOOLEAN /\ done \in BOOLEAN /\ loop \in BOOLEAN /\ enabled \in [Ends -> BOOLEAN]
    BY Zenon DEF Init, MakeNetwork
  <2>2. /\ ends \in SUBSET Ends /\ excused \in SUBSET Calls
        /\ connections \in [Ends -> Names \cup {None}] /\ servers \in [Names -> Servers \cup {None}]
        /\ end \in [Calls -> Ends \cup {None}] /\ executed \in [Servers -> SUBSET Calls]
    BY Zenon DEF Init, MakeNetwork
  <2>3. /\ call = [c \in Calls |-> "idle"] /\ req = [c \in Calls |-> "none"]
        /\ handler = [c \in Calls |-> "none"] /\ view = [c \in Calls |-> Unread]
    BY Zenon DEF Init
  <2>4. Unread \in [servername : Names \cup {None}, server : Servers \cup {None}, reliable : BOOLEAN]
    BY Zenon DEF Unread
  <2>5. \A c \in Calls : CallOK(c)
    BY Zenon DEF Init, CallOK
  <2>. QED BY <2>1, <2>2, <2>3, <2>4, <2>5, Zenon DEF TypeOK
<1>2. TypeOK /\ [Next]_vars => TypeOK'
  <2>. SUFFICES ASSUME TypeOK, [Next]_vars
                PROVE  TypeOK'
    BY Zenon
  <2>1. CASE StopLoop
    BY <2>1, ZenonT(60) DEF TypeOK, CallOK, StopLoop, netVars, callVars
  <2>2. CASE UNCHANGED vars
    BY <2>2 DEF TypeOK, CallOK, vars, netVars, callVars
  <2>. QED BY <2>1, <2>2, TesterType, CallerType, ProcessReqType, HandlerType, Zenon DEF Next, NetworkStep
<1>. QED BY <1>1, <1>2, PTL DEF Spec
----------------------------------------------------------------------------
(***************************************************************************)
(* Calls fail only with a reason.  As long as a call has no excuse, its end  *)
(* is healthy and processReq has seen it as it is now.                       *)
(***************************************************************************)
SeenAsItIs(c) ==
  view[c] = [servername |-> connections[end[c]], server |-> servers[connections[end[c]]],
             reliable |-> TRUE]

ReasonInv ==
  \A c \in Calls \ excused :
    /\ call[c] # "false"
    /\ c \in Outstanding =>
         /\ Healthy(end[c])
         /\ req[c] \notin {"fail", "abandoned"}
         /\ req[c] \notin {"none", "arrived"} => SeenAsItIs(c)

\* A call that the tester does not excuse is not affected by what it did.
LEMMA TesterReason ==
  ASSUME TypeOK, ReasonInv, Tester
  PROVE  ReasonInv'
<1>. SUFFICES ASSUME NEW c \in Calls, c \notin excused'
              PROVE  /\ call'[c] # "false"
                     /\ c \in Outstanding' =>
                          /\ Healthy(end[c])'
                          /\ req'[c] \notin {"fail", "abandoned"}
                          /\ req'[c] \notin {"none", "arrived"} => SeenAsItIs(c)'
  BY Zenon DEF ReasonInv
<1>1. UNCHANGED callVars /\ Excuse
  BY Zenon DEF Tester
<1>2. c \notin excused
  BY <1>1, Zenon DEF Excuse
<1>3. call'[c] # "false"
  BY <1>1, <1>2, Zenon DEF ReasonInv, callVars
<1>4. ASSUME c \in Outstanding'
      PROVE  /\ Healthy(end[c])'
             /\ req'[c] \notin {"fail", "abandoned"}
             /\ req'[c] \notin {"none", "arrived"} => SeenAsItIs(c)'
  <2>1. c \in Outstanding /\ req' = req /\ view' = view /\ end' = end
    BY <1>1, <1>4, Zenon DEF Outstanding, callVars
  <2>2. /\ Healthy(end[c])'
        /\ connections'[end[c]] = connections[end[c]]
        /\ servers'[connections[end[c]]] = servers[connections[end[c]]]
    BY <1>1, <1>2, <2>1, Zenon DEF Excuse
  <2>. QED BY <1>2, <2>1, <2>2 DEF ReasonInv, SeenAsItIs
<1>. QED BY <1>3, <1>4, Zenon

\* No step of a goroutine of a call without an excuse leads to a failure, and it
\* leaves the other calls alone.
LEMMA CallReason ==
  ASSUME TypeOK, ReasonInv, NEW c \in Calls,
         (\E e \in Ends : Call(c, e)) \/ Caller(c) \/ processReq(c) \/ dispatch(c) \/ Drain(c)
  PROVE  ReasonInv'
<1>1. CASE \E e \in Ends : Call(c, e)
  <2>1. PICK e \in Ends : Call(c, e)
    BY <1>1, Zenon
  <2>2. /\ call' = [call EXCEPT ![c] = "send"] /\ end' = [end EXCEPT ![c] = e]
        /\ c \notin excused' => Healthy(e)
        /\ excused \subseteq excused' /\ UNCHANGED <<netVars, req, view>>
    BY <2>1, Zenon DEF Call
  <2>3. req[c] = "none"
    BY <2>1, Zenon DEF Call, TypeOK, CallOK
  <2>. QED BY <2>2, <2>3 DEF TypeOK, ReasonInv, SeenAsItIs, Healthy, Outstanding, netVars
<1>2. CASE Receive(c)
  BY <1>2 DEF TypeOK, CallOK, ReasonInv, SeenAsItIs, Healthy, Outstanding, Receive, netVars
<1>3. CASE NetworkDestroyed(c)
  BY <1>3 DEF TypeOK, ReasonInv, SeenAsItIs, Healthy, Outstanding, NetworkDestroyed, netVars
<1>4. CASE readEndnameInfo(c)
  <2>1. /\ view' = [view EXCEPT ![c] = view'[c]] /\ req' = [req EXCEPT ![c] = req'[c]]
        /\ UNCHANGED <<netVars, call, end, excused>>
    BY <1>4, Zenon DEF readEndnameInfo, Proceed, TypeOK
  <2>2. ASSUME c \in Outstanding, c \notin excused
        PROVE  SeenAsItIs(c)' /\ req'[c] = "deliver"
    <3>1. Healthy(end[c]) /\ end[c] \in Ends
      BY <2>2, Zenon DEF ReasonInv, TypeOK, CallOK, Outstanding
    <3>. QED BY <1>4, <2>1, <3>1, LabRpcAssumption, ZenonT(60)
             DEF readEndnameInfo, Proceed, Healthy, SeenAsItIs, TypeOK, netVars
  <2>. QED BY <2>1, <2>2 DEF TypeOK, ReasonInv, SeenAsItIs, Healthy, Outstanding, netVars
<1>5. CASE DropRequest(c)
  BY <1>5 DEF TypeOK, CallOK, ReasonInv, SeenAsItIs, Healthy, Outstanding, DropRequest, Proceed, netVars
<1>6. CASE Dispatch(c)
  BY <1>6 DEF TypeOK, CallOK, ReasonInv, SeenAsItIs, Healthy, Outstanding, Dispatch, Proceed, netVars
<1>7. CASE TakeReply(c)
  BY <1>7 DEF TypeOK, CallOK, ReasonInv, SeenAsItIs, Healthy, Outstanding, TakeReply, Proceed, netVars
<1>8. CASE GiveUp(c)
  BY <1>8
  DEF TypeOK, CallOK, ReasonInv, SeenAsItIs, Healthy, Outstanding, GiveUp, isServerDead, Proceed, netVars
<1>9. CASE FinalCheck(c)
  BY <1>9
  DEF TypeOK, CallOK, ReasonInv, SeenAsItIs, Healthy, Outstanding, FinalCheck, isServerDead, Proceed, netVars
<1>10. CASE SendReply(c)
  BY <1>10 DEF TypeOK, CallOK, ReasonInv, SeenAsItIs, Healthy, Outstanding, SendReply, netVars
<1>11. CASE dispatch(c)
  BY <1>11 DEF TypeOK, ReasonInv, SeenAsItIs, Healthy, Outstanding, dispatch, netVars
<1>12. CASE Drain(c)
  BY <1>12 DEF TypeOK, ReasonInv, SeenAsItIs, Healthy, Outstanding, Drain, netVars
<1>. QED BY <1>1, <1>2, <1>3, <1>4, <1>5, <1>6, <1>7, <1>8, <1>9, <1>10, <1>11, <1>12, Zenon
         DEF Caller, processReq

\* For any number of calls, ends and servers and whatever the tester does, a call
\* returns false only if something was wrong while it was outstanding.
THEOREM FailsWithReason == Spec => []NoSpuriousFailure
<1>1. Init => ReasonInv
  BY Zenon DEF Init, ReasonInv, Outstanding
<1>2. TypeOK /\ ReasonInv /\ [Next]_vars => ReasonInv'
  <2>. SUFFICES ASSUME TypeOK, ReasonInv, [Next]_vars
                PROVE  ReasonInv'
    BY Zenon
  <2>1. CASE StopLoop
    BY <2>1, Zenon DEF ReasonInv, SeenAsItIs, Healthy, Outstanding, StopLoop, netVars, callVars
  <2>2. CASE UNCHANGED vars
    BY <2>2 DEF ReasonInv, SeenAsItIs, Healthy, Outstanding, vars, netVars, callVars
  <2>. QED BY <2>1, <2>2, TesterReason, CallReason, Zenon DEF Next, NetworkStep
<1>3. ReasonInv => NoSpuriousFailure
  BY Zenon DEF ReasonInv, NoSpuriousFailure
<1>. QED BY <1>1, <1>2, <1>3, TypeCorrect, PTL DEF Spec
----------------------------------------------------------------------------
(***************************************************************************)
(* Calls are executed at most once.                                         *)
(***************************************************************************)
ExecutedOnce ==
  \A c \in Calls :
    /\ handler[c] \in {"none", "running"} => \A s \in Servers : c \notin executed[s]
    /\ handler[c] \in {"replying", "gone"} => c \in executed[view[c].server]
    /\ call[c] = "true" => handler[c] = "gone"

\* The server of a handler is fixed when it starts, and only dispatch executes.
LEMMA ExecutedOnceStep ==
  ASSUME TypeOK, ExecutedOnce, [Next]_vars
  PROVE  ExecutedOnce'
<1>1. CASE Tester
  BY <1>1, Zenon DEF Tester, ExecutedOnce, callVars
<1>2. ASSUME NEW c \in Calls, NEW e \in Ends, Call(c, e)
      PROVE  ExecutedOnce'
  BY <1>2, Zenon DEF Call, ExecutedOnce, TypeOK
<1>3. ASSUME NEW c \in Calls, Caller(c)
      PROVE  ExecutedOnce'
  BY <1>3 DEF Caller, Receive, NetworkDestroyed, ExecutedOnce, TypeOK
<1>4. ASSUME NEW c \in Calls, readEndnameInfo(c)
      PROVE  ExecutedOnce'
  BY <1>4 DEF readEndnameInfo, Proceed, ExecutedOnce, TypeOK, CallOK
<1>5. ASSUME NEW c \in Calls, DropRequest(c) \/ GiveUp(c) \/ FinalCheck(c)
      PROVE  ExecutedOnce'
  BY <1>5, Zenon DEF DropRequest, GiveUp, FinalCheck, Proceed, ExecutedOnce
<1>6. ASSUME NEW c \in Calls, Dispatch(c)
      PROVE  ExecutedOnce'
  BY <1>6 DEF Dispatch, Proceed, ExecutedOnce, TypeOK, CallOK
<1>7. ASSUME NEW c \in Calls, TakeReply(c)
      PROVE  ExecutedOnce'
  BY <1>7, Zenon DEF TakeReply, Proceed, ExecutedOnce, TypeOK
<1>8. ASSUME NEW c \in Calls, SendReply(c)
      PROVE  ExecutedOnce'
  BY <1>8, SMTT(60) DEF SendReply, ExecutedOnce, TypeOK, CallOK
<1>9. ASSUME NEW c \in Calls, dispatch(c)
      PROVE  ExecutedOnce'
  BY <1>9 DEF dispatch, ExecutedOnce, TypeOK, CallOK
<1>10. ASSUME NEW c \in Calls, Drain(c)
       PROVE  ExecutedOnce'
  BY <1>10, Zenon DEF Drain, ExecutedOnce, TypeOK
<1>11. CASE StopLoop \/ UNCHANGED vars
  BY <1>11, Zenon DEF StopLoop, vars, callVars, ExecutedOnce
<1>. QED BY <1>1, <1>2, <1>3, <1>4, <1>5, <1>6, <1>7, <1>8, <1>9, <1>10, <1>11, Zenon
         DEF Next, NetworkStep, processReq

\* A step that leaves call and executed alone is invisible to the callers.
LEMMA Invisible ==
  ASSUME UNCHANGED <<call, executed>>
  PROVE  UNCHANGED Rpc!vars
  BY Zenon DEF Rpc!vars, Outstanding

\* Every step of the network is a step of the abstract one or leaves it alone.
LEMMA RpcStep ==
  ASSUME TypeOK, ExecutedOnce, [Next]_vars
  PROVE  [Rpc!Next]_(Rpc!vars)
<1>1. ASSUME NEW c \in Calls, NEW e \in Ends, Call(c, e)
      PROVE  Rpc!Place(c)
  BY <1>1 DEF Call, Rpc!Place, Outstanding, TypeOK
<1>2. ASSUME NEW c \in Calls, Receive(c)
      PROVE  UNCHANGED Rpc!vars
  BY <1>2 DEF Receive, Rpc!vars, Outstanding, TypeOK
<1>3. ASSUME NEW c \in Calls, NetworkDestroyed(c)
      PROVE  Rpc!ReturnFalse(c)
  BY <1>3 DEF NetworkDestroyed, Rpc!ReturnFalse, Outstanding, TypeOK
<1>4. ASSUME NEW c \in Calls, SendReply(c)
      PROVE  Rpc!ReturnTrue(c) \/ Rpc!ReturnFalse(c)
  <2>1. call[c] = "wait"
    BY <1>4, Zenon DEF SendReply, TypeOK, CallOK
  <2>2. CASE req[c] = "reply"
    <3>1. c \in UNION {executed[s] : s \in Servers}
      BY <2>2 DEF TypeOK, CallOK, ExecutedOnce
    <3>. QED BY <1>4, <2>1, <2>2, <3>1 DEF SendReply, Rpc!ReturnTrue, Outstanding, TypeOK
  <2>3. CASE req[c] = "fail"
    BY <1>4, <2>1, <2>3 DEF SendReply, Rpc!ReturnFalse, Outstanding, TypeOK
  <2>. QED BY <1>4, <2>2, <2>3, Zenon DEF SendReply
<1>5. ASSUME NEW c \in Calls, dispatch(c)
      PROVE  Rpc!Execute(c)
  <2>1. view[c].server \in Servers /\ call[c] \in {"send", "wait", "false"}
    BY <1>5, Zenon DEF dispatch, TypeOK, CallOK, ExecutedOnce
  <2>2. \A s \in Servers : c \notin executed[s]
    BY <1>5, Zenon DEF dispatch, ExecutedOnce
  <2>. DEFINE all == UNION {executed[s] : s \in Servers}
  <2>3. \A s \in Servers : executed'[s] = IF s = view[c].server THEN executed[s] \cup {c} ELSE executed[s]
    BY <1>5, Zenon DEF dispatch, TypeOK
  <2>4. \A d : d \in all' <=> \E s \in Servers : d \in executed'[s]
    BY Zenon
  <2>5. \A d : d \in all <=> \E s \in Servers : d \in executed[s]
    BY Zenon
  <2>6. all' = all \cup {c} /\ c \notin all
    BY <2>1, <2>2, <2>3, <2>4, <2>5, ZenonT(60)
  <2>7. UNCHANGED call
    BY <1>5, Zenon DEF dispatch
  <2>. QED BY <2>1, <2>6, <2>7, Zenon DEF Rpc!Execute, Outstanding
<1>6. ASSUME NEW c \in Calls,
             readEndnameInfo(c) \/ DropRequest(c) \/ Dispatch(c) \/ TakeReply(c)
               \/ GiveUp(c) \/ FinalCheck(c) \/ Drain(c)
      PROVE  UNCHANGED Rpc!vars
  BY <1>6, Invisible, Zenon
  DEF readEndnameInfo, DropRequest, Dispatch, TakeReply, GiveUp, FinalCheck, Proceed, Drain
<1>7. CASE Tester \/ StopLoop \/ UNCHANGED vars
  BY <1>7, Invisible, Zenon DEF Tester, StopLoop, vars, callVars
<1>. QED BY <1>1, <1>2, <1>3, <1>4, <1>5, <1>6, <1>7, Zenon
         DEF Next, NetworkStep, processReq, Caller, Rpc!Next

\* For any number of calls, ends and servers the network implements at-most-once
\* calls: no call is executed twice, and true is only returned once it was.
THEOREM RpcRefinement == Spec => ImplementsAtMostOnceRpc
<1>1. Init => ExecutedOnce /\ Rpc!Init
  BY DEF Init, ExecutedOnce, Rpc!Init, Outstanding
<1>2. TypeOK /\ ExecutedOnce /\ [Next]_vars => ExecutedOnce' /\ [Rpc!Next]_(Rpc!vars)
  BY ExecutedOnceStep, RpcStep, Zenon
<1>. QED BY <1>1, <1>2, TypeCorrect, PTL DEF Spec, ImplementsAtMostOnceRpc, Rpc!Spec
=============================================================================
