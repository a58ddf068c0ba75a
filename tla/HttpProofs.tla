----------------------------- MODULE HttpProofs -----------------------------
(***************************************************************************)
(* Theorems about HttpServer and Proxy, for any number of clients, files,    *)
(* slots and pieces of a body.                                               *)
(***************************************************************************)
EXTENDS Proxy, FiniteSetTheorems, SequenceTheorems, TLAPS

----------------------------------------------------------------------------
(***************************************************************************)
(* The limits.  The channel holds one element for every goroutine that       *)
(* serves a request, and main holds the connection it has accepted.          *)
(***************************************************************************)
Serving == {c \in Clients : at[c] \in Handling}

LimitInv ==
  /\ at \in [Clients -> {"idle", "backlog", "accepted", "close", "closed"} \cup Handling]
  /\ accepted \in Clients \cup {Nobody}
  /\ accepted \in Clients => at[accepted] = "accepted"
  /\ IsFiniteSet(Serving)
  /\ semaphore = Cardinality(Serving)
  /\ semaphore <= Limit

\* Steps that start no request and end none.
Elsewhere(c) ==
  \/ Arrive(c) \/ Accept(c) \/ BadRequest(c)
  \/ \E method \in {"GET", "POST", "PUT"}, path \in Files : ReadRequest(c, method, path)
  \/ OpenFile(c) \/ ReadAll(c) \/ CreateFile(c) \/ CopyPiece(c) \/ EndCopy(c) \/ Fail(c)
  \/ WriteResponse(c) \/ Close(c)

\* They keep the slot of their connection, or take none.
LEMMA ElsewhereLimit ==
  ASSUME LimitInv, NEW c \in Clients, Elsewhere(c)
  PROVE  LimitInv'
<1>1. semaphore' = semaphore
  BY ZenonT(60) DEF Elsewhere, Arrive, Accept, BadRequest, ReadRequest, OpenFile, ReadAll, CreateFile, CopyPiece,
         EndCopy, Fail, WriteResponse, Close, mainVars
<1>2. CASE Accept(c)
  <2>1. at' = [at EXCEPT ![c] = "accepted"] /\ at[c] = "backlog" /\ accepted' = c
    BY <1>2, Zenon DEF Accept, Goto
  <2>2. Serving' = Serving
    BY <2>1, Zenon DEF Serving, Handling, LimitInv
  <2>. QED BY <1>1, <2>1, <2>2, Zenon DEF LimitInv
<1>3. CASE ~Accept(c)
  <2>1. accepted' = accepted /\ at[c] # "accepted"
    BY <1>3, ZenonT(60) DEF Elsewhere, Arrive, BadRequest, ReadRequest, OpenFile, ReadAll, CreateFile, CopyPiece,
                EndCopy, Fail, WriteResponse, Close, mainVars
  <2>2. \/ at' = at
        \/ \E l \in {"backlog", "closed"} : at' = [at EXCEPT ![c] = l] /\ at[c] \notin Handling
        \/ \E l \in Handling : at' = [at EXCEPT ![c] = l] /\ at[c] \in Handling
    <3>1. CASE Arrive(c) \/ Close(c)
      BY <3>1, Zenon DEF Arrive, Close, Goto, Handling
    <3>2. CASE BadRequest(c) \/ OpenFile(c) \/ Fail(c) \/ EndCopy(c) \/ WriteResponse(c)
      BY <3>2 DEF BadRequest, OpenFile, Fail, EndCopy, WriteResponse, Goto, Respond, Handling
    <3>3. CASE \E method \in {"GET", "POST", "PUT"}, path \in Files : ReadRequest(c, method, path)
      BY <3>3, ZenonT(60) DEF ReadRequest, Goto, Respond, Handling
    <3>4. CASE ReadAll(c) \/ CreateFile(c) \/ CopyPiece(c)
      BY <3>4, Zenon DEF ReadAll, CreateFile, CopyPiece, Goto, Respond, Handling
    <3>. QED BY <1>3, <3>1, <3>2, <3>3, <3>4, Zenon DEF Elsewhere
  <2>3. Serving' = Serving
    BY <2>2, Zenon DEF Serving, Handling, LimitInv
  <2>. QED BY <1>1, <2>1, <2>2, <2>3 DEF LimitInv
<1>. QED BY <1>2, <1>3, Zenon

\* semaphore <- struct{}{} and <-semaphore.
LEMMA SlotLimit ==
  ASSUME LimitInv, NEW c \in Clients, Acquire(c) \/ Release(c)
  PROVE  LimitInv'
<1>1. CASE Acquire(c)
  <2>1. at' = [at EXCEPT ![c] = "read"] /\ at[c] = "accepted" /\ accepted' = Nobody
    BY <1>1, Zenon DEF Acquire, Goto, LimitInv
  <2>2. Serving' = Serving \cup {c} /\ c \notin Serving
    BY <2>1, Zenon DEF Serving, Handling, LimitInv
  <2>3. IsFiniteSet(Serving') /\ Cardinality(Serving') = Cardinality(Serving) + 1
    BY <2>2, FS_AddElement, Zenon DEF LimitInv
  <2>4. Cardinality(Serving) \in Nat
    BY FS_CardinalityType, Zenon DEF LimitInv
  <2>. QED BY <1>1, <2>1, <2>3, <2>4, HttpServerAssumption DEF LimitInv, Acquire, Handling
<1>2. CASE Release(c)
  <2>1. at' = [at EXCEPT ![c] = "close"] /\ at[c] = "release" /\ accepted' = accepted
    BY <1>2, Zenon DEF Release, Goto
  <2>2. Serving' = Serving \ {c} /\ c \in Serving
    BY <2>1, Zenon DEF Serving, Handling, LimitInv
  <2>3. IsFiniteSet(Serving') /\ Cardinality(Serving') = Cardinality(Serving) - 1
    BY <2>2, FS_RemoveElement, Zenon DEF LimitInv
  <2>4. Cardinality(Serving) \in Nat
    BY FS_CardinalityType, Zenon DEF LimitInv
  <2>. QED BY <1>2, <2>1, <2>3, <2>4, HttpServerAssumption DEF LimitInv, Release, Handling
<1>. QED BY <1>1, <1>2, Zenon

\* Before main accepts a connection no slot is taken.
LEMMA LimitInit == Init => LimitInv
<1>. SUFFICES ASSUME Init PROVE LimitInv
  BY Zenon
<1>1. Serving = {}
  BY Zenon DEF Init, Serving, Handling
<1>. QED BY <1>1, FS_EmptySet, HttpServerAssumption DEF Init, LimitInv

\* The server never serves more than maxConcurrentRequests requests at a time,
\* for any number of clients and any limit.
THEOREM ServerLimit == Spec => []RequestLimit
<1>1. LimitInv /\ [Next]_vars => LimitInv'
  <2>. SUFFICES ASSUME LimitInv, [Next]_vars
                PROVE  LimitInv'
    BY Zenon
  <2>1. ASSUME NEW c \in Clients, Arrive(c) \/ Accept(c) \/ Acquire(c) \/ handleConnection(c)
        PROVE  LimitInv'
    <3>1. Elsewhere(c) \/ Acquire(c) \/ Release(c)
      BY <2>1, Zenon DEF handleConnection, Serve, Elsewhere
    <3>. QED BY <3>1, ElsewhereLimit, SlotLimit, Zenon
  <2>2. CASE UNCHANGED vars
    BY <2>2, Zenon DEF LimitInv, Serving, vars
  <2>. QED BY <2>1, <2>2, Zenon DEF Next, ServerStep, Idle
<1>2. LimitInv => RequestLimit
  BY Zenon DEF LimitInv, RequestLimit, Serving
<1>. QED BY <1>1, <1>2, LimitInit, PTL DEF Spec
----------------------------------------------------------------------------
(***************************************************************************)
(* The proxy in front of the server.                                         *)
(***************************************************************************)
ProxyServing == {c \in Clients : proxyAt[c] \in ProxyHandling}

ProxyLimitInv ==
  /\ proxyAt \in [Clients -> {"idle", "backlog", "accepted", "close", "closed"} \cup ProxyHandling]
  /\ proxyAccepted \in Clients \cup {Nobody}
  /\ proxyAccepted \in Clients => proxyAt[proxyAccepted] = "accepted"
  /\ IsFiniteSet(ProxyServing)
  /\ proxySemaphore = Cardinality(ProxyServing)
  /\ proxySemaphore <= ProxyLimit

\* The proxy counts its requests as the server does.
LEMMA ProxySideLimit ==
  ASSUME ProxyLimitInv, NEW c \in Clients, ProxyArrive(c) \/ ProxySide(c)
  PROVE  ProxyLimitInv'
<1>1. CASE ProxyAccept(c)
  <2>1. /\ proxyAt' = [proxyAt EXCEPT ![c] = "accepted"] /\ proxyAt[c] = "backlog"
        /\ proxyAccepted' = c /\ proxySemaphore' = proxySemaphore
    BY <1>1, Zenon DEF ProxyAccept, ProxyGoto
  <2>2. ProxyServing' = ProxyServing
    BY <2>1, Zenon DEF ProxyServing, ProxyHandling, ProxyLimitInv
  <2>. QED BY <2>1, <2>2, Zenon DEF ProxyLimitInv
<1>2. CASE ProxyAcquire(c)
  <2>1. /\ proxyAt' = [proxyAt EXCEPT ![c] = "read"] /\ proxyAt[c] = "accepted"
        /\ proxyAccepted' = Nobody
    BY <1>2, Zenon DEF ProxyAcquire, ProxyGoto, ProxyLimitInv
  <2>2. ProxyServing' = ProxyServing \cup {c} /\ c \notin ProxyServing
    BY <2>1, Zenon DEF ProxyServing, ProxyHandling, ProxyLimitInv
  <2>3. IsFiniteSet(ProxyServing') /\ Cardinality(ProxyServing') = Cardinality(ProxyServing) + 1
    BY <2>2, FS_AddElement, Zenon DEF ProxyLimitInv
  <2>4. Cardinality(ProxyServing) \in Nat
    BY FS_CardinalityType, Zenon DEF ProxyLimitInv
  <2>. QED BY <1>2, <2>1, <2>3, <2>4, ProxyAssumption, HttpServerAssumption
           DEF ProxyLimitInv, ProxyAcquire, ProxyHandling
<1>3. CASE ProxyRelease(c)
  <2>1. /\ proxyAt' = [proxyAt EXCEPT ![c] = "close"] /\ proxyAt[c] = "release"
        /\ proxyAccepted' = proxyAccepted
    BY <1>3, Zenon DEF ProxyRelease, ProxyGoto
  <2>2. ProxyServing' = ProxyServing \ {c} /\ c \in ProxyServing
    BY <2>1 DEF ProxyServing, ProxyHandling, ProxyLimitInv
  <2>3. IsFiniteSet(ProxyServing') /\ Cardinality(ProxyServing') = Cardinality(ProxyServing) - 1
    BY <2>2, FS_RemoveElement, Zenon DEF ProxyLimitInv
  <2>4. Cardinality(ProxyServing) \in Nat
    BY FS_CardinalityType, Zenon DEF ProxyLimitInv
  <2>. QED BY <1>3, <2>1, <2>3, <2>4, ProxyAssumption DEF ProxyLimitInv, ProxyRelease
<1>4. CASE \/ ProxyArrive(c) \/ ProxyRead(c) \/ Forward(c) \/ BadGateway(c) \/ Relay(c)
           \/ ProxyWrite(c) \/ ProxyClose(c)
  <2>1. /\ proxySemaphore' = proxySemaphore /\ proxyAccepted' = proxyAccepted
        /\ proxyAt[c] # "accepted"
    BY <1>4 DEF ProxyArrive, ProxyRead, Forward, BadGateway, Relay, ProxyWrite, ProxyClose
  <2>2. \/ \E l \in {"backlog", "closed"} :
             proxyAt' = [proxyAt EXCEPT ![c] = l] /\ proxyAt[c] \notin ProxyHandling
        \/ \E l \in ProxyHandling :
             proxyAt' = [proxyAt EXCEPT ![c] = l] /\ proxyAt[c] \in ProxyHandling
    BY <1>4 DEF ProxyArrive, ProxyRead, Forward, BadGateway, Relay, ProxyWrite, ProxyClose,
                ProxyGoto, ProxyRespond, ProxyHandling
  <2>3. ProxyServing' = ProxyServing
    BY <2>2, Zenon DEF ProxyServing, ProxyHandling, ProxyLimitInv
  <2>. QED BY <2>1, <2>2, <2>3, Zenon DEF ProxyLimitInv
<1>. QED BY <1>1, <1>2, <1>3, <1>4, Zenon DEF ProxySide, handleProxyConnection

\* What the proxy does at the server is to connect to it.
LEMMA ProxySideAtServer ==
  ASSUME NEW c \in Clients, ProxyArrive(c) \/ ProxySide(c)
  PROVE  Arrive(c) \/ UNCHANGED vars
  BY DEF ProxySide, handleProxyConnection, ProxyArrive, ProxyAccept, ProxyAcquire, ProxyRead, Forward,
         BadGateway, Relay, ProxyWrite, ProxyRelease, ProxyClose

\* The server's goroutines do for the proxy what they do for a client.
LEMMA ServerSideIsServer ==
  ASSUME NEW c \in Clients, ServerSide(c)
  PROVE  Elsewhere(c) \/ Acquire(c) \/ Release(c)
  BY Zenon DEF ServerSide, ServerHandles, Forwarded, handleConnection, Serve, Elsewhere

\* Steps of one of them leave the slots of the other alone.
LEMMA BothLimitInvs == ProxySpec => [](LimitInv /\ ProxyLimitInv)
<1>1. ProxyInit => LimitInv /\ ProxyLimitInv
  <2>. SUFFICES ASSUME ProxyInit PROVE LimitInv /\ ProxyLimitInv
    BY Zenon
  <2>1. ProxyServing = {}
    BY Zenon DEF ProxyInit, ProxyServing, ProxyHandling
  <2>2. ProxyLimitInv
    BY <2>1, FS_EmptySet, ProxyAssumption, HttpServerAssumption DEF ProxyInit, ProxyLimitInv
  <2>. QED BY <2>2, LimitInit, Zenon DEF ProxyInit
<1>2. LimitInv /\ ProxyLimitInv /\ [ProxyNext]_allVars => LimitInv' /\ ProxyLimitInv'
  <2>. SUFFICES ASSUME LimitInv, ProxyLimitInv, [ProxyNext]_allVars
                PROVE  LimitInv' /\ ProxyLimitInv'
    BY Zenon
  <2>1. UNCHANGED vars => LimitInv'
    BY Zenon DEF LimitInv, Serving, vars
  <2>2. UNCHANGED proxyVars => ProxyLimitInv'
    BY Zenon DEF ProxyLimitInv, ProxyServing, proxyVars
  <2>3. ASSUME NEW c \in Clients, ServerSide(c) \/ DirectArrive(c)
        PROVE  LimitInv' /\ ProxyLimitInv'
    <3>1. UNCHANGED proxyVars
      BY <2>3, Zenon DEF ServerSide, DirectArrive
    <3>2. Elsewhere(c) \/ Acquire(c) \/ Release(c)
      BY <2>3, ServerSideIsServer, Zenon DEF DirectArrive, Elsewhere
    <3>. QED BY <2>2, <3>1, <3>2, ElsewhereLimit, SlotLimit, Zenon
  <2>4. ASSUME NEW c \in Clients, ProxyArrive(c) \/ ProxySide(c)
        PROVE  LimitInv' /\ ProxyLimitInv'
    <3>1. Elsewhere(c) \/ UNCHANGED vars
      BY <2>4, ProxySideAtServer, Zenon DEF Elsewhere
    <3>. QED BY <2>1, <2>4, <3>1, ElsewhereLimit, ProxySideLimit
  <2>5. CASE UNCHANGED allVars
    BY <2>1, <2>2, <2>5, Zenon DEF allVars
  <2>. QED BY <2>3, <2>4, <2>5, Zenon DEF ProxyNext, AllDone
<1>. QED BY <1>1, <1>2, PTL DEF ProxySpec

\* Proxy and server, each with its own slots, both keep to their limits.
THEOREM ProxyAndServerLimits == ProxySpec => []BothLimits
<1>1. ASSUME LimitInv, ProxyLimitInv
      PROVE  BothLimits
  <2>1. {c \in Proxied : proxyAt[c] \in ProxyHandling} = ProxyServing
    BY Zenon DEF Proxied, ProxyServing, ProxyHandling
  <2>. QED BY <1>1, <2>1 DEF LimitInv, ProxyLimitInv, BothLimits, RequestLimit, Serving
<1>. QED BY <1>1, BothLimitInvs, PTL

----------------------------------------------------------------------------
(***************************************************************************)
(* The proxy is read-only: a goroutine of the server that serves the proxy   *)
(* never comes to the places in which files are written.                     *)
(***************************************************************************)
ReadOnlyInv ==
  /\ pos = [c \in Clients |-> pos[c]]
  /\ \A c \in Proxied : at[c] \notin {"post", "save"}

\* A step of the server for client c leaves the other clients' goroutines alone,
\* and writes a file only from "post" or "save".
LEMMA OneGoroutine ==
  ASSUME LimitInv, pos = [d \in Clients |-> pos[d]], NEW c \in Clients, Elsewhere(c) \/ Acquire(c) \/ Release(c)
  PROVE  /\ at' = [at EXCEPT ![c] = at'[c]] /\ pos' = [pos EXCEPT ![c] = pos'[c]]
         /\ at[c] \notin {"post", "save"} => files' = files
<1>1. CASE \/ Arrive(c) \/ Accept(c) \/ Acquire(c) \/ BadRequest(c) \/ WriteResponse(c) \/ Release(c)
           \/ Close(c) \/ EndCopy(c) \/ OpenFile(c) \/ Fail(c)
  BY <1>1 DEF LimitInv, Arrive, Accept, Acquire, BadRequest, WriteResponse, Release, Close, EndCopy,
              OpenFile, Fail, Goto, Respond, fileVars
<1>2. CASE \E method \in {"GET", "POST", "PUT"}, path \in Files : ReadRequest(c, method, path)
  <2>1. pos' = pos /\ files' = files
    BY <1>2, Zenon DEF ReadRequest
  <2>2. \E l \in {"respond", "get", "post"} : at' = [at EXCEPT ![c] = l]
    BY <1>2, ZenonT(60) DEF ReadRequest, Goto, Respond
  <2>. QED BY <2>1, <2>2, Zenon DEF LimitInv
<1>3. CASE ReadAll(c) \/ CreateFile(c) \/ CopyPiece(c)
  BY <1>3 DEF LimitInv, ReadAll, CreateFile, CopyPiece, Goto, Respond
<1>. QED BY <1>1, <1>2, <1>3, SMTT(60) DEF Elsewhere

\* "only allow GET requests": whoever else writes files, nothing that comes
\* through the proxy changes one.
THEOREM ReadOnlyProxy == ProxySpec => ProxyChangesNoFile
<1>1. ProxyInit => ReadOnlyInv
  BY Zenon DEF ProxyInit, Init, ReadOnlyInv, Proxied
<1>2. ASSUME LimitInv, ProxyLimitInv, ReadOnlyInv, [ProxyNext]_allVars
      PROVE  /\ ReadOnlyInv'
             /\ \A c \in Proxied : at'[c] # at[c] \/ pos'[c] # pos[c] => files' = files
  <2>1. ASSUME NEW c \in Clients, ServerSide(c) \/ DirectArrive(c)
        PROVE  /\ ReadOnlyInv'
               /\ \A d \in Proxied : at'[d] # at[d] \/ pos'[d] # pos[d] => files' = files
    <3>1. Proxied' = Proxied /\ proxyAt' = proxyAt
      BY <2>1 DEF ServerSide, DirectArrive, proxyVars, Proxied
    <3>2. Elsewhere(c) \/ Acquire(c) \/ Release(c)
      BY <2>1, ServerSideIsServer, Zenon DEF DirectArrive, Elsewhere
    <3>3. /\ at' = [at EXCEPT ![c] = at'[c]] /\ pos' = [pos EXCEPT ![c] = pos'[c]]
          /\ at[c] \notin {"post", "save"} => files' = files
      BY <1>2, <3>2, OneGoroutine DEF ReadOnlyInv
    <3>4. ASSUME c \in Proxied
          PROVE  at'[c] \notin {"post", "save"}
      <4>1. Accept(c) \/ Acquire(c) \/ Forwarded(c) \/ BadRequest(c) \/ Serve(c)
        BY <2>1, <3>4, Zenon DEF ServerSide, DirectArrive, ServerHandles
      <4>2. c \in Clients /\ at[c] \notin {"post", "save"}
        BY <1>2, <3>4 DEF ReadOnlyInv
      <4>3. CASE Forwarded(c)
        BY <1>2, <4>3, ZenonT(60) DEF Forwarded, ReadRequest, Goto, Respond, LimitInv
      <4>4. CASE Accept(c) \/ Acquire(c) \/ BadRequest(c) \/ OpenFile(c) \/ ReadAll(c) \/ Fail(c)
        BY <1>2, <4>2, <4>4
        DEF Accept, Acquire, BadRequest, OpenFile, ReadAll, Fail, Goto, Respond, LimitInv
      <4>5. CASE WriteResponse(c) \/ Release(c) \/ Close(c)
        BY <1>2, <4>5, Zenon DEF WriteResponse, Release, Close, Goto, LimitInv
      <4>. QED BY <4>1, <4>2, <4>3, <4>4, <4>5, SMTT(60) DEF Serve, CreateFile, CopyPiece, EndCopy
    <3>. QED BY <1>2, <3>1, <3>3, <3>4, ZenonT(60) DEF LimitInv, ReadOnlyInv, Proxied
  <2>2. ASSUME NEW c \in Clients, ProxyArrive(c) \/ ProxySide(c)
        PROVE  ReadOnlyInv' /\ files' = files
    <3>1. /\ files' = files /\ pos' = pos
          /\ at' = at \/ (at[c] = "idle" /\ at' = [at EXCEPT ![c] = "backlog"])
      BY <2>2, ProxySideAtServer, Zenon DEF Arrive, Goto, vars, fileVars
    <3>2. /\ proxyAt' = [proxyAt EXCEPT ![c] = proxyAt'[c]] 
          /\ proxyAt[c] = "idle" => at[c] = "idle" /\ at' = at
      <4>1. CASE ProxyArrive(c)
        BY <1>2, <4>1 DEF ProxyLimitInv, ProxyArrive, ProxyGoto, vars
      <4>2. CASE ProxyAcquire(c)
        BY <1>2, <4>2, Zenon DEF ProxyLimitInv, ProxyAcquire, ProxyGoto, vars
      <4>3. CASE ProxyAccept(c) \/ handleProxyConnection(c)
        BY <1>2, <4>3 DEF ProxyLimitInv, handleProxyConnection, ProxyAccept, ProxyRead, Forward, BadGateway,
          Relay, ProxyWrite, ProxyRelease, ProxyClose, ProxyGoto, ProxyRespond
      <4>. QED BY <2>2, <4>1, <4>2, <4>3, Zenon DEF ProxySide
    <3>. QED BY <1>2, <3>1, <3>2 DEF LimitInv, ProxyLimitInv, ReadOnlyInv, Proxied
  <2>3. CASE UNCHANGED allVars
    BY <1>2, <2>3, Zenon DEF ReadOnlyInv, Proxied, allVars, vars, proxyVars
  <2>. QED BY <1>2, <2>1, <2>2, <2>3 DEF ProxyNext, AllDone
<1>. QED BY <1>1, <1>2, BothLimitInvs, PTL DEF ProxySpec, ProxyChangesNoFile
----------------------------------------------------------------------------
(***************************************************************************)
(* Files.  A request that nobody disturbed has read, or written, the first   *)
(* pieces of its file.                                                       *)
(***************************************************************************)
Cells == [by : Clients \cup {Nobody}, k : Nat]

DataOf(c) == files[request[c].path].data

FileTypes ==
  /\ request \in [Clients -> [method : {"none", "GET", "POST", "PUT"}, path : Files \cup {Nobody}]]
  /\ pos \in [Clients -> Nat]
  /\ content \in [Clients -> Seq(Cells)]
  /\ status = [c \in Clients |-> status[c]]
  /\ files \in [Files -> [exists : BOOLEAN, data : Seq(Cells)]]

ReadSoFar(c) ==
  /\ pos[c] = Len(content[c]) /\ pos[c] <= Len(DataOf(c))
  /\ \A k \in 1 .. pos[c] : content[c][k] = DataOf(c)[k]

WrittenSoFar(c) ==
  /\ files[request[c].path].exists /\ pos[c] = Len(DataOf(c))
  /\ \A k \in 1 .. pos[c] : DataOf(c)[k] = Piece(c, k)

RequestOK(c) ==
  /\ at[c] \in {"get", "load", "post", "save"} => request[c].path \in Files
  /\ at[c] \in {"idle", "backlog", "accepted", "read", "get", "post"} => pos[c] = 0 /\ content[c] = <<>>
  /\ at[c] = "load" /\ c \notin disturbed => ReadSoFar(c)
  /\ at[c] = "save" /\ c \notin disturbed => WrittenSoFar(c)

FileInv == FileTypes /\ \A c \in Clients : RequestOK(c)

\* What io.Copy writes in one step is a cell of a file.
LEMMA PieceType == \A c \in Clients \cup {Nobody}, k \in Nat : Piece(c, k) \in Cells
  BY Zenon DEF Piece, Cells

\* A function on 1 .. n is a sequence of length n.
LEMMA FunctionIsSeq ==
  ASSUME NEW S, NEW n \in Nat, NEW f \in [1 .. n -> S]
  PROVE  f \in Seq(S) /\ Len(f) = n
<1>1. f \in Seq(S)
  BY SeqDef, Zenon
<1>. QED BY <1>1, LenProperties

\* What a write of `piece' at place k of `data' leaves: a file, and an append when k is its end.
WriteLeaves(data, k, piece) ==
  /\ Written(data, k, piece) \in Seq(Cells)
  /\ k = Len(data) + 1 =>
       /\ Len(Written(data, k, piece)) = k
       /\ Written(data, k, piece)[k] = piece
       /\ \A i \in 1 .. Len(data) : Written(data, k, piece)[i] = data[i]

\* A write at the end of a file appends to it; any write leaves a file.
LEMMA WrittenIsFile ==
  \A data \in Seq(Cells), k \in Nat \ {0}, piece \in Cells : WriteLeaves(data, k, piece)
<1>. SUFFICES ASSUME NEW data \in Seq(Cells), NEW k \in Nat \ {0}, NEW piece \in Cells
              PROVE  WriteLeaves(data, k, piece)
  BY Zenon
<1>. DEFINE n == IF k > Len(data) THEN k ELSE Len(data)
<1>1. n \in Nat /\ Len(data) \in Nat
  BY LenProperties, Zenon
<1>2. \A i \in 1 .. Len(data) : data[i] \in Cells
  BY ElementOfSeq, Zenon
<1>3. Piece(Nobody, 0) \in Cells
  BY Zenon DEF Piece, Cells
<1>4. Written(data, k, piece) \in [1 .. n -> Cells]
  BY <1>1, <1>2, <1>3 DEF Written
<1>5. Written(data, k, piece) \in Seq(Cells) /\ Len(Written(data, k, piece)) = n
  <2>. HIDE DEF n
  <2>. QED BY <1>1, <1>4, FunctionIsSeq, Zenon
<1>6. ASSUME k = Len(data) + 1
      PROVE  /\ Written(data, k, piece)[k] = piece
             /\ \A i \in 1 .. Len(data) : Written(data, k, piece)[i] = data[i]
  BY <1>1, <1>6 DEF Written
<1>. QED BY <1>1, <1>5, <1>6 DEF WriteLeaves

\* Initially every file is absent or whole, and no request has started.
LEMMA FileInit == Init => FileInv
<1>. SUFFICES ASSUME Init PROVE FileInv
  BY Zenon
<1>1. Body(Nobody) \in Seq(Cells) /\ <<>> \in Seq(Cells)
  <2>1. Body(Nobody) \in [1 .. Pieces -> Cells]
    BY PieceType, HttpServerAssumption DEF Body
  <2>. QED BY <2>1, FunctionIsSeq, EmptySeq, HttpServerAssumption
<1>2. files \in [Files -> [exists : BOOLEAN, data : Seq(Cells)]]
  <2>1. {Absent, Holding(Body(Nobody))} \subseteq [exists : BOOLEAN, data : Seq(Cells)]
    BY <1>1 DEF Absent, Holding
  <2>. QED BY <2>1, Zenon DEF Init
<1>3. FileTypes
  BY <1>1, <1>2, Zenon DEF Init, FileTypes, NoRequest
<1>4. \A c \in Clients : RequestOK(c)
  BY Zenon DEF Init, RequestOK
<1>. QED BY <1>3, <1>4, Zenon DEF FileInv

\* What a request has read or written so far depends on its own place, what it
\* holds and the file it names.
LEMMA SoFarFrame ==
  ASSUME NEW d \in Clients, pos'[d] = pos[d], content'[d] = content[d], request'[d] = request[d],
         files'[request[d].path] = files[request[d].path]
  PROVE  (ReadSoFar(d) => ReadSoFar(d)') /\ (WrittenSoFar(d) => WrittenSoFar(d)')
<1>1. DataOf(d)' = DataOf(d)
  BY Zenon DEF DataOf
<1>2. ReadSoFar(d) => ReadSoFar(d)'
  BY <1>1, Zenon DEF ReadSoFar
<1>3. WrittenSoFar(d) => WrittenSoFar(d)'
  BY <1>1, Zenon DEF WrittenSoFar
<1>. QED BY <1>2, <1>3, Zenon

\* A request is left as it was by a step that leaves its own state and, while
\* nobody disturbed it, its file.
LEMMA RequestFrame ==
  ASSUME NEW d \in Clients, RequestOK(d), at'[d] = at[d], pos'[d] = pos[d], content'[d] = content[d],
         request'[d] = request[d], d \in disturbed => d \in disturbed',
         at[d] \in {"load", "save"} /\ d \notin disturbed' =>
           files'[request[d].path] = files[request[d].path]
  PROVE  RequestOK(d)'
  BY SoFarFrame, Zenon DEF RequestOK

\* Steps that touch no file, and read none.
LEMMA QuietStep ==
  ASSUME LimitInv, FileInv, NEW c \in Clients,
         \/ Arrive(c) \/ Accept(c) \/ Acquire(c) \/ BadRequest(c) \/ OpenFile(c) \/ EndCopy(c) \/ Fail(c)
         \/ WriteResponse(c) \/ Release(c) \/ Close(c)
  PROVE  FileInv'
<1>1. UNCHANGED fileVars
  BY DEF Arrive, Accept, Acquire, BadRequest, OpenFile, EndCopy, Fail, WriteResponse, Release, Close
<1>2. FileTypes'
  BY <1>1 DEF FileInv, FileTypes, fileVars, Arrive, Accept, Acquire, BadRequest, OpenFile, EndCopy, Fail,
              WriteResponse, Release, Close, Respond
<1>3. \E l : /\ at' = [at EXCEPT ![c] = l]
             /\ \/ l \in {"backlog", "accepted", "read"} /\ at[c] \in {"idle", "backlog", "accepted"}
                \/ l = "load" /\ at[c] = "get"
                \/ l \in {"respond", "release", "close", "closed"}
  BY SMTT(60) DEF LimitInv, Arrive, Accept, Acquire, BadRequest, OpenFile, EndCopy, Fail, WriteResponse, Release, Close,
         Respond, Goto
<1>4. ASSUME NEW d \in Clients
      PROVE  RequestOK(d)'
  <2>1. RequestOK(d)
    BY Zenon DEF FileInv
  <2>2. pos' = pos /\ content' = content /\ request' = request /\ files' = files /\ disturbed' = disturbed
    BY <1>1, Zenon DEF fileVars
  <2>3. PICK l : /\ at' = [at EXCEPT ![c] = l]
                 /\ \/ l \in {"backlog", "accepted", "read"} /\ at[c] \in {"idle", "backlog", "accepted"}
                    \/ l = "load" /\ at[c] = "get"
                    \/ l \in {"respond", "release", "close", "closed"}
    BY <1>3, Zenon
  <2>4. CASE d = c /\ l = "load" /\ at[c] = "get"
    <3>1. /\ at'[d] = "load" /\ request[d].path \in Files /\ pos'[d] = 0 /\ content'[d] = <<>>
      BY <2>1, <2>2, <2>3, <2>4 DEF RequestOK, LimitInv
    <3>2. DataOf(d)' \in Seq(Cells)
      BY <2>2, <3>1, Zenon DEF FileInv, FileTypes, DataOf
    <3>3. ReadSoFar(d)'
      BY <3>1, <3>2, LenProperties, EmptySeq DEF ReadSoFar
    <3>. QED BY <2>2, <3>1, <3>3, Zenon DEF RequestOK
  <2>5. CASE d = c /\ ~(l = "load" /\ at[c] = "get")
    <3>1. at'[d] = l
      BY <2>3, <2>5, Zenon DEF LimitInv
    <3>. QED BY <2>1, <2>2, <2>3, <2>5, <3>1, Zenon DEF RequestOK
  <2>6. CASE d # c
    <3>1. at'[d] = at[d]
      BY <2>3, <2>6, Zenon DEF LimitInv
    <3>. QED BY <2>1, <2>2, <3>1, RequestFrame, Zenon
  <2>. QED BY <2>4, <2>5, <2>6, Zenon
<1>. QED BY <1>2, <1>4, Zenon DEF FileInv

\* http.ReadRequest only chooses what the goroutine does next; it touches no
\* file.
LEMMA ReadRequestStep ==
  ASSUME LimitInv, FileInv, NEW c \in Clients, NEW method \in {"GET", "POST", "PUT"}, NEW path \in Files,
         ReadRequest(c, method, path)
  PROVE  FileInv'
<1>1. /\ at[c] = "read" /\ UNCHANGED <<pos, content, files, disturbed>>
      /\ request' = [request EXCEPT ![c] = [method |-> method, path |-> path]]
  BY Zenon DEF ReadRequest
<1>2. \E l \in {"respond", "get", "post"} : at' = [at EXCEPT ![c] = l]
  BY ZenonT(60) DEF ReadRequest, Respond, Goto
<1>3. status' = [d \in Clients |-> status'[d]]
  BY ZenonT(60) DEF ReadRequest, Respond, FileInv, FileTypes
<1>4. FileTypes'
  BY <1>1, <1>3, Zenon DEF FileInv, FileTypes
<1>5. ASSUME NEW d \in Clients
      PROVE  RequestOK(d)'
  <2>1. RequestOK(d)
    BY Zenon DEF FileInv
  <2>2. PICK l \in {"respond", "get", "post"} : at' = [at EXCEPT ![c] = l]
    BY <1>2, Zenon
  <2>3. CASE d = c
    <3>1. at'[d] = l /\ request'[d].path \in Files
      BY <1>1, <2>2, <2>3 DEF LimitInv, FileInv, FileTypes
    <3>2. pos'[d] = 0 /\ content'[d] = <<>>
      BY <1>1, <2>1, <2>3, Zenon DEF RequestOK
    <3>. QED BY <3>1, <3>2, Zenon DEF RequestOK
  <2>4. CASE d # c
    <3>1. at'[d] = at[d] /\ request'[d] = request[d]
      BY <1>1, <2>2, <2>4, Zenon DEF LimitInv, FileInv, FileTypes
    <3>. QED BY <1>1, <2>1, <3>1, RequestFrame, Zenon
  <2>. QED BY <2>3, <2>4, Zenon
<1>. QED BY <1>4, <1>5, Zenon DEF FileInv

\* io.ReadAll: one more piece of a file that nobody changed since it was opened.
LEMMA ReadAllStep ==
  ASSUME LimitInv, FileInv, NEW c \in Clients, ReadAll(c)
  PROVE  FileInv'
<1>. DEFINE k == pos[c] + 1
<1>1. /\ at[c] = "load" /\ request[c].path \in Files /\ RequestOK(c)
      /\ DataOf(c) \in Seq(Cells) /\ content[c] \in Seq(Cells) /\ pos[c] \in Nat /\ Len(DataOf(c)) \in Nat
  BY LenProperties DEF ReadAll, FileInv, FileTypes, RequestOK, DataOf
<1>2. CASE k <= Len(DataOf(c))
  <2>1. /\ content' = [content EXCEPT ![c] = Append(content[c], DataOf(c)[k])]
        /\ pos' = [pos EXCEPT ![c] = k]
        /\ UNCHANGED <<at, status, request, files, disturbed>>
    BY <1>2, Zenon DEF ReadAll, DataOf
  <2>2. DataOf(c)[k] \in Cells
    BY <1>1, <1>2, ElementOfSeq
  <2>3. /\ content'[c] \in Seq(Cells) /\ Len(content'[c]) = Len(content[c]) + 1
        /\ \A i \in 1 .. Len(content[c]) : content'[c][i] = content[c][i]
        /\ content'[c][Len(content[c]) + 1] = DataOf(c)[k]
    BY <1>1, <2>1, <2>2, AppendProperties DEF FileInv, FileTypes
  <2>4. FileTypes'
    BY <1>1, <2>1, <2>3 DEF FileInv, FileTypes
  <2>5. RequestOK(c)'
    <3>1. Len(content[c]) \in Nat
      BY <1>1, LenProperties, Zenon
    <3>2. pos'[c] = k /\ DataOf(c)' = DataOf(c)
      BY <2>1, Zenon DEF FileInv, FileTypes, DataOf
    <3>3. ASSUME ReadSoFar(c) PROVE ReadSoFar(c)'
      BY <1>1, <1>2, <2>3, <3>1, <3>2, <3>3 DEF ReadSoFar
    <3>. QED BY <1>1, <2>1, <3>3, Zenon DEF RequestOK
  <2>6. ASSUME NEW d \in Clients, d # c
        PROVE  RequestOK(d)'
    <3>1. RequestOK(d) /\ pos'[d] = pos[d] /\ content'[d] = content[d]
      BY <2>1, <2>6, Zenon DEF FileInv, FileTypes
    <3>. QED BY <2>1, <3>1, RequestFrame, Zenon
  <2>. QED BY <2>4, <2>5, <2>6, Zenon DEF FileInv
<1>3. CASE ~(k <= Len(DataOf(c)))
  <2>1. /\ at' = [at EXCEPT ![c] = "respond"] /\ status' = [status EXCEPT ![c] = 200]
        /\ UNCHANGED <<content, pos, request, files, disturbed>>
    BY <1>3, Zenon DEF ReadAll, DataOf, Respond, Goto
  <2>2. FileTypes'
    BY <2>1, ZenonT(60) DEF FileInv, FileTypes
  <2>3. ASSUME NEW d \in Clients
        PROVE  RequestOK(d)'
    <3>1. RequestOK(d) /\ at'[d] = IF d = c THEN "respond" ELSE at[d]
      BY <2>1, Zenon DEF LimitInv, FileInv
    <3>2. CASE d = c
      BY <3>1, <3>2, Zenon DEF RequestOK
    <3>3. CASE d # c
      BY <2>1, <3>1, <3>3, RequestFrame, Zenon
    <3>. QED BY <3>2, <3>3, Zenon
  <2>. QED BY <2>2, <2>3, Zenon DEF FileInv
<1>. QED BY <1>2, <1>3, Zenon

\* os.Create and io.Copy: whoever else has the file open is disturbed.
LEMMA WriteStep ==
  ASSUME LimitInv, FileInv, NEW c \in Clients, CreateFile(c) \/ CopyPiece(c)
  PROVE  FileInv'
<1>. DEFINE path == request[c].path
            k == pos[c] + 1
            new == Written(DataOf(c), k, Piece(c, k))
<1>1. /\ at[c] \in {"post", "save"} /\ path \in Files /\ RequestOK(c)
      /\ DataOf(c) \in Seq(Cells) /\ pos[c] \in Nat /\ k \in Nat \ {0} /\ Piece(c, k) \in Cells
  BY PieceType DEF CreateFile, CopyPiece, FileInv, FileTypes, RequestOK, DataOf
<1>2. ASSUME NEW data \in Seq(Cells), files' = [files EXCEPT ![path] = Holding(data)],
             disturbed' = disturbed \cup Others(c), UNCHANGED request
      PROVE  /\ files' \in [Files -> [exists : BOOLEAN, data : Seq(Cells)]]
             /\ files'[path].exists /\ DataOf(c)' = data
             /\ \A d \in Clients \ {c} :
                  at[d] \in {"load", "save"} /\ d \notin disturbed' /\ request[d].path \in Files =>
                    files'[request[d].path] = files[request[d].path]
  BY <1>1, <1>2, Zenon DEF FileInv, FileTypes, Holding, Others, DataOf
<1>3. CASE CreateFile(c)
  <2>1. /\ at' = [at EXCEPT ![c] = "save"] /\ at[c] = "post"
        /\ files' = [files EXCEPT ![path] = Holding(<<>>)] /\ disturbed' = disturbed \cup Others(c)
        /\ UNCHANGED <<request, pos, content, status>>
    BY <1>3, Zenon DEF CreateFile, Goto
  <2>2. /\ files' \in [Files -> [exists : BOOLEAN, data : Seq(Cells)]]
        /\ files'[path].exists /\ DataOf(c)' = <<>>
        /\ \A d \in Clients \ {c} :
             at[d] \in {"load", "save"} /\ d \notin disturbed' /\ request[d].path \in Files =>
               files'[request[d].path] = files[request[d].path]
    BY <1>2, <2>1, EmptySeq, Zenon
  <2>3. FileTypes'
    BY <2>1, <2>2, Zenon DEF FileInv, FileTypes
  <2>4. RequestOK(c)'
    <3>1. at'[c] = "save" /\ pos'[c] = 0 /\ request'[c].path = path
      BY <1>1, <2>1, Zenon DEF LimitInv, RequestOK
    <3>2. WrittenSoFar(c)'
      BY <2>2, <3>1, EmptySeq DEF WrittenSoFar
    <3>. QED BY <1>1, <3>1, <3>2, Zenon DEF RequestOK
  <2>5. ASSUME NEW d \in Clients \ {c}
        PROVE  RequestOK(d)'
    <3>1. RequestOK(d) /\ at'[d] = at[d] /\ (d \in disturbed => d \in disturbed')
      BY <2>1, Zenon DEF LimitInv, FileInv
    <3>2. at[d] \in {"load", "save"} /\ d \notin disturbed' =>
            files'[request[d].path] = files[request[d].path]
      BY <2>2, <3>1, Zenon DEF RequestOK
    <3>. QED BY <2>1, <3>1, <3>2, RequestFrame, Zenon
  <2>. QED BY <2>3, <2>4, <2>5, Zenon DEF FileInv
<1>4. CASE CopyPiece(c)
  <2>1. /\ at[c] = "save" /\ pos' = [pos EXCEPT ![c] = k]
        /\ files' = [files EXCEPT ![path] = Holding(new)] /\ disturbed' = disturbed \cup Others(c)
        /\ UNCHANGED <<at, request, content, status>>
    BY <1>4, Zenon DEF CopyPiece, DataOf
  <2>2. /\ new \in Seq(Cells)
        /\ k = Len(DataOf(c)) + 1 =>
             /\ Len(new) = k /\ new[k] = Piece(c, k)
             /\ \A i \in 1 .. Len(DataOf(c)) : new[i] = DataOf(c)[i]
    <3>1. k \in Nat \ {0} /\ DataOf(c) \in Seq(Cells) /\ Piece(c, k) \in Cells
      BY <1>1, Zenon
    <3>2. WriteLeaves(DataOf(c), k, Piece(c, k))
      <4>. HIDE DEF k
      <4>. QED BY <3>1, WrittenIsFile, Zenon
    <3>. HIDE DEF k
    <3>. QED BY <3>2, Zenon DEF WriteLeaves
  <2>3. /\ files' \in [Files -> [exists : BOOLEAN, data : Seq(Cells)]]
        /\ files'[path].exists /\ DataOf(c)' = new
        /\ \A d \in Clients \ {c} :
             at[d] \in {"load", "save"} /\ d \notin disturbed' /\ request[d].path \in Files =>
               files'[request[d].path] = files[request[d].path]
    BY <1>2, <2>1, <2>2, Zenon
  <2>4. FileTypes'
    BY <1>1, <2>1, <2>3, Zenon DEF FileInv, FileTypes
  <2>5. RequestOK(c)'
    <3>1. pos'[c] = k /\ at'[c] = "save" /\ request'[c].path \in Files
      BY <1>1, <2>1, Zenon DEF FileInv, FileTypes
    <3>2. ASSUME c \notin disturbed'
          PROVE  pos[c] = Len(DataOf(c)) /\ \A i \in 1 .. pos[c] : DataOf(c)[i] = Piece(c, i)
      BY <1>1, <2>1, <3>2, Zenon DEF RequestOK, WrittenSoFar
    <3>3. ASSUME c \notin disturbed'
          PROVE  \A i \in 1 .. k : new[i] = Piece(c, i)
      <4>. HIDE DEF new
      <4>. QED BY <1>1, <2>2, <3>2, <3>3
    <3>4. ASSUME c \notin disturbed'
          PROVE  WrittenSoFar(c)'
      <4>. HIDE DEF new
      <4>. QED BY <2>1, <2>2, <2>3, <3>1, <3>2, <3>3, <3>4 DEF WrittenSoFar
    <3>. QED BY <3>1, <3>4, Zenon DEF RequestOK
  <2>6. ASSUME NEW d \in Clients \ {c}
        PROVE  RequestOK(d)'
    <3>1. RequestOK(d) /\ pos'[d] = pos[d] /\ (d \in disturbed => d \in disturbed')
      BY <2>1, Zenon DEF FileInv, FileTypes
    <3>2. at[d] \in {"load", "save"} /\ d \notin disturbed' =>
            files'[request[d].path] = files[request[d].path]
      BY <2>3, <3>1, Zenon DEF RequestOK
    <3>. QED BY <2>1, <3>1, <3>2, RequestFrame, Zenon
  <2>. QED BY <2>4, <2>5, <2>6, Zenon DEF FileInv
<1>. QED BY <1>3, <1>4, Zenon

\* Both invariants together.
LEMMA ServerInv == Spec => [](LimitInv /\ FileInv)
<1>1. LimitInv /\ FileInv /\ [Next]_vars => LimitInv' /\ FileInv'
  <2>. SUFFICES ASSUME LimitInv, FileInv, [Next]_vars
                PROVE  LimitInv' /\ FileInv'
    BY Zenon
  <2>1. ASSUME NEW c \in Clients, Elsewhere(c) \/ Acquire(c) \/ Release(c)
        PROVE  LimitInv' /\ FileInv'
    BY <2>1, ElsewhereLimit, SlotLimit, QuietStep, ReadRequestStep, ReadAllStep, WriteStep, SMTT(60) DEF Elsewhere
  <2>2. CASE UNCHANGED vars
    <3>1. LimitInv'
      BY <2>2, Zenon DEF LimitInv, Serving, vars
    <3>2. FileTypes'
      BY <2>2, Zenon DEF FileInv, FileTypes, vars
    <3>3. ASSUME NEW c \in Clients PROVE RequestOK(c)'
      <4>1. RequestOK(c)
        BY Zenon DEF FileInv
      <4>. QED BY <2>2, <4>1, RequestFrame, Zenon DEF vars
    <3>. QED BY <3>1, <3>2, <3>3, Zenon DEF FileInv
  <2>. QED BY <2>1, <2>2, Zenon DEF Next, ServerStep, handleConnection, Serve, Elsewhere, Idle
<1>. QED BY <1>1, LimitInit, FileInit, PTL DEF Spec

\* A GET that answers 200 has read the last piece, a POST that answers 201 has
\* written it.
LEMMA Successes ==
  ASSUME LimitInv, FileInv, [Next]_vars, NEW c \in Clients, at'[c] = "respond"
  PROVE  /\ at[c] = "load" /\ status'[c] = 200 =>
              pos[c] + 1 > Len(DataOf(c)) /\ content' = content
         /\ at[c] = "save" /\ status'[c] = 201 =>
              pos[c] = Pieces /\ files' = files
<1>1. ASSUME NEW d \in Clients, d # c, Elsewhere(d) \/ Acquire(d) \/ Release(d)
      PROVE  at'[c] = at[c]
  <2>1. at' = [at EXCEPT ![d] = at'[d]]
    BY <1>1, OneGoroutine, Zenon DEF FileInv, FileTypes
  <2>. QED BY <1>1, <2>1, Zenon DEF LimitInv
<1>2. ASSUME at[c] = "load", status'[c] = 200, Elsewhere(c) \/ Acquire(c) \/ Release(c)
      PROVE  pos[c] + 1 > Len(DataOf(c)) /\ content' = content
  <2>1. ReadAll(c)
    BY <1>2, SMTT(60) DEF LimitInv, FileInv, FileTypes, Elsewhere, Arrive, Accept, Acquire, BadRequest, ReadRequest,
      OpenFile, CreateFile, CopyPiece, EndCopy, Fail, WriteResponse, Release, Close, Respond
  <2>2. pos[c] \in Nat /\ Len(DataOf(c)) \in Nat
    BY <1>2, LenProperties, SMTT(60) DEF FileInv, FileTypes, RequestOK, DataOf
  <2>. QED BY <1>2, <2>1, <2>2, SMTT(60) DEF ReadAll, DataOf
<1>3. ASSUME at[c] = "save", status'[c] = 201, Elsewhere(c) \/ Acquire(c) \/ Release(c)
      PROVE  pos[c] = Pieces /\ files' = files
  <2>1. EndCopy(c)
    BY <1>3, SMTT(60) DEF LimitInv, FileInv, FileTypes, Elsewhere, Arrive, Accept, Acquire, BadRequest, ReadRequest,
      OpenFile, ReadAll, CreateFile, CopyPiece, Fail, WriteResponse, Release, Close, Respond
  <2>. QED BY <2>1, Zenon DEF EndCopy, fileVars
<1>4. CASE UNCHANGED vars
  BY <1>4, Zenon DEF vars
<1>5. CASE \E d \in Clients : Elsewhere(d) \/ Acquire(d) \/ Release(d)
  BY <1>1, <1>2, <1>3, <1>5, SMTT(60)
<1>. QED BY <1>4, <1>5, SMTT(60) DEF Next, ServerStep, handleConnection, Serve, Elsewhere, Idle

\* For any number of clients, files and pieces: a GET that nobody disturbed
\* returns the whole file, although other requests run.
THEOREM GetReturnsFile == Spec => UndisturbedGet
<1>1. ASSUME LimitInv, FileInv, [Next]_vars, NEW c \in Clients,
             at[c] = "load", at'[c] = "respond", status'[c] = 200, c \notin disturbed
      PROVE  content'[c] = files[request[c].path].data
  <2>1. pos[c] + 1 > Len(DataOf(c)) /\ content' = content
    BY <1>1, Successes, Zenon
  <2>2. /\ DataOf(c) \in Seq(Cells) /\ content[c] \in Seq(Cells) /\ pos[c] \in Nat
        /\ pos[c] = Len(content[c]) /\ pos[c] <= Len(DataOf(c))
        /\ \A k \in 1 .. pos[c] : content[c][k] = DataOf(c)[k]
    BY <1>1, SMTT(60) DEF FileInv, FileTypes, RequestOK, ReadSoFar, DataOf
  <2>3. Len(DataOf(c)) = Len(content[c])
    BY <2>1, <2>2, LenProperties, SMTT(60)
  <2>4. content[c] = DataOf(c)
    BY <2>2, <2>3, SeqEqual, Zenon
  <2>. QED BY <2>1, <2>4, Zenon DEF DataOf
<1>2. LimitInv /\ FileInv /\ [Next]_vars =>
        [\A c \in Clients :
           at[c] = "load" /\ at'[c] = "respond" /\ status'[c] = 200 /\ c \notin disturbed =>
             content'[c] = files[request[c].path].data]_vars
  BY <1>1
<1>. QED BY <1>2, ServerInv, PTL DEF Spec, UndisturbedGet

\* A POST that nobody disturbed leaves exactly its body in the file, whatever the
\* file held before.
THEOREM PostStoresBody == Spec => UndisturbedPost
<1>1. ASSUME LimitInv, FileInv, [Next]_vars, NEW c \in Clients,
             at[c] = "save", at'[c] = "respond", status'[c] = 201, c \notin disturbed
      PROVE  files'[request[c].path] = Holding(Body(c))
  <2>1. pos[c] = Pieces /\ files' = files
    BY <1>1, Successes
  <2>2. /\ request[c].path \in Files /\ files[request[c].path] \in [exists : BOOLEAN, data : Seq(Cells)]
        /\ files[request[c].path].exists /\ pos[c] = Len(DataOf(c))
        /\ \A k \in 1 .. pos[c] : DataOf(c)[k] = Piece(c, k)
    BY <1>1 DEF FileInv, FileTypes, RequestOK, WrittenSoFar
  <2>3. Body(c) \in Seq(Cells) /\ Len(Body(c)) = Pieces /\ \A k \in 1 .. Pieces : Body(c)[k] = Piece(c, k)
    <3>1. Body(c) \in [1 .. Pieces -> Cells]
      BY PieceType, HttpServerAssumption DEF Body
    <3>. QED BY <3>1, FunctionIsSeq, HttpServerAssumption, Zenon DEF Body
  <2>4. DataOf(c) = Body(c)
    <3>1. DataOf(c) \in Seq(Cells)
      BY <2>2, Zenon DEF DataOf
    <3>. QED BY <2>1, <2>2, <2>3, <3>1, SeqEqual
  <2>. QED BY <2>1, <2>2, <2>4, Zenon DEF Holding, DataOf
<1>2. LimitInv /\ FileInv /\ [Next]_vars =>
        [\A c \in Clients :
           at[c] = "save" /\ at'[c] = "respond" /\ status'[c] = 201 /\ c \notin disturbed =>
             files'[request[c].path] = Holding(Body(c))]_vars
  BY <1>1
<1>. QED BY <1>2, ServerInv, PTL DEF Spec, UndisturbedPost
=============================================================================
