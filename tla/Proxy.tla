------------------------------- MODULE Proxy -------------------------------
(***************************************************************************)
(* Lab 1/proxy_server/proxy.go in front of the server of HttpServer.  A     *)
(* client talks to the proxy, which forwards its GET over a connection of   *)
(* its own (the connection of the same name at the server), or directly to  *)
(* the server, so that both processes compete for the server's slots.       *)
(***************************************************************************)
EXTENDS HttpServer

CONSTANT ProxyLimit    \* maxConcurrentProxyRequests

ASSUME ProxyAssumption == ProxyLimit \in Nat \ {0}

VARIABLES
  proxyAt,          \* where the proxy's goroutine of a client is
  proxyAccepted,    \* the connection the proxy's main has accepted
  proxySemaphore,   \* elements in the channel
  proxyStatus       \* the status the proxy answers

proxyVars == <<proxyAt, proxyAccepted, proxySemaphore, proxyStatus>>
allVars == <<vars, proxyVars>>

\* The clients that talk to the proxy.
Proxied == {c \in Clients : proxyAt[c] # "idle"}

\* Between proxySemaphore <- struct{}{} and <-proxySemaphore.
ProxyHandling == {"read", "forward", "wait", "respond", "release"}

ProxyInit ==
  /\ Init
  /\ proxyAt = [c \in Clients |-> "idle"]
  /\ proxyAccepted = Nobody
  /\ proxySemaphore = 0
  /\ proxyStatus = [c \in Clients |-> 0]

ProxyGoto(c, location) == proxyAt' = [proxyAt EXCEPT ![c] = location]

ProxyRespond(c, code) ==
  /\ proxyStatus' = [proxyStatus EXCEPT ![c] = code]
  /\ ProxyGoto(c, "respond")

----------------------------------------------------------------------------
ProxyArrive(c) ==
  /\ at[c] = "idle" /\ proxyAt[c] = "idle"
  /\ ProxyGoto(c, "backlog")
  /\ UNCHANGED <<vars, proxyAccepted, proxySemaphore, proxyStatus>>

ProxyAccept(c) ==
  /\ proxyAt[c] = "backlog"
  /\ proxyAccepted = Nobody
  /\ proxyAccepted' = c
  /\ ProxyGoto(c, "accepted")
  /\ UNCHANGED <<vars, proxySemaphore, proxyStatus>>

\* Seeded fault: the proxy does not wait for a slot.
ProxyAcquireUnbounded(c) ==
  /\ proxyAccepted = c
  /\ proxySemaphore' = proxySemaphore + 1
  /\ proxyAccepted' = Nobody
  /\ ProxyGoto(c, "read")
  /\ UNCHANGED <<vars, proxyStatus>>

ProxyAcquire(c) ==
  /\ proxyAccepted = c
  /\ proxySemaphore < ProxyLimit
  /\ proxySemaphore' = proxySemaphore + 1
  /\ proxyAccepted' = Nobody
  /\ ProxyGoto(c, "read")
  /\ UNCHANGED <<vars, proxyStatus>>

(***************************************************************************)
(* handleProxyConnection                                                    *)
(***************************************************************************)
\* A malformed request is answered 400, a method other than GET 501.
ProxyRead(c) ==
  /\ proxyAt[c] = "read"
  /\ \/ \E code \in {400, 501} : ProxyRespond(c, code)
     \/ ProxyGoto(c, "forward") /\ UNCHANGED proxyStatus
  /\ UNCHANGED <<vars, proxyAccepted, proxySemaphore>>

\* forwardRequest: client.Do connects to the server.
Forward(c) ==
  /\ proxyAt[c] = "forward"
  /\ Arrive(c)
  /\ ProxyGoto(c, "wait")
  /\ UNCHANGED <<proxyAccepted, proxySemaphore, proxyStatus>>

\* forwardRequest fails: no request can be made of the URI, the server cannot be
\* reached, or the connection breaks before the response is there.
BadGateway(c) ==
  /\ proxyAt[c] \in {"forward", "wait"}
  /\ ProxyRespond(c, 502)
  /\ UNCHANGED <<vars, proxyAccepted, proxySemaphore>>

\* relayResponse, once the server has written its response.
Relay(c) ==
  /\ proxyAt[c] = "wait"
  /\ at[c] \in {"release", "close", "closed"}
  /\ ProxyRespond(c, status[c])
  /\ UNCHANGED <<vars, proxyAccepted, proxySemaphore>>

ProxyWrite(c) ==
  /\ proxyAt[c] = "respond"
  /\ ProxyGoto(c, "release")
  /\ UNCHANGED <<vars, proxyAccepted, proxySemaphore, proxyStatus>>

\* Seeded fault: a failed request keeps its slot.
ProxyReleaseOnSuccess(c) ==
  /\ proxyAt[c] = "release"
  /\ proxySemaphore' = IF proxyStatus[c] = 502 THEN proxySemaphore ELSE proxySemaphore - 1
  /\ ProxyGoto(c, "close")
  /\ UNCHANGED <<vars, proxyAccepted, proxyStatus>>

ProxyRelease(c) ==
  /\ proxyAt[c] = "release"
  /\ proxySemaphore' = proxySemaphore - 1
  /\ ProxyGoto(c, "close")
  /\ UNCHANGED <<vars, proxyAccepted, proxyStatus>>

ProxyClose(c) ==
  /\ proxyAt[c] = "close"
  /\ ProxyGoto(c, "closed")
  /\ UNCHANGED <<vars, proxyAccepted, proxySemaphore, proxyStatus>>

handleProxyConnection(c) ==
  \/ ProxyRead(c) \/ Forward(c) \/ BadGateway(c) \/ Relay(c)
  \/ ProxyWrite(c) \/ ProxyRelease(c) \/ ProxyClose(c)

----------------------------------------------------------------------------
\* Seeded fault: the proxy forwards the method of the client unseen.
ForwardedAny(c) ==
  \E method \in {"GET", "POST"}, path \in Files : ReadRequest(c, method, path)

\* What the server reads from the proxy: the method of the client, a GET.
Forwarded(c) == \E path \in Files : ReadRequest(c, "GET", path)

\* The server's goroutine for c.
ServerHandles(c) ==
  IF c \in Proxied THEN Forwarded(c) \/ BadRequest(c) \/ Serve(c) ELSE handleConnection(c)

ServerSide(c) == (Accept(c) \/ Acquire(c) \/ ServerHandles(c)) /\ UNCHANGED proxyVars

DirectArrive(c) == c \notin Proxied /\ Arrive(c) /\ UNCHANGED proxyVars

ProxySide(c) == ProxyAccept(c) \/ ProxyAcquire(c) \/ handleProxyConnection(c)

AllDone ==
  /\ \A c \in Clients : IF c \in Proxied THEN proxyAt[c] = "closed" /\ at[c] \in {"idle", "closed"}
                        ELSE at[c] = "closed"
  /\ UNCHANGED allVars

ProxyNext ==
  \/ \E c \in Clients : ServerSide(c) \/ DirectArrive(c) \/ ProxyArrive(c) \/ ProxySide(c)
  \/ AllDone

ProxySpec == ProxyInit /\ [][ProxyNext]_allVars

\* Both main loops and every goroutine run; the backlogs are served in order; a
\* client sends its request or its connection ends (there is no timeout on
\* reading, so the code relies on this).
ProxyFairness ==
  /\ \A c \in Clients :
       /\ WF_allVars(Accept(c) /\ UNCHANGED proxyVars)
       /\ WF_allVars(Acquire(c) /\ UNCHANGED proxyVars)
       /\ WF_allVars(ServerHandles(c) /\ UNCHANGED proxyVars)
       /\ WF_allVars(ProxyAccept(c)) /\ WF_allVars(ProxyAcquire(c))
       /\ WF_allVars(handleProxyConnection(c))

ProxyFairSpec == ProxySpec /\ ProxyFairness

----------------------------------------------------------------------------
(***************************************************************************)
(* Properties.                                                              *)
(***************************************************************************)
\* "Limit concurrent requests": the proxy serves at most maxConcurrentProxyRequests
\* requests at a time, and so does the server behind it.
BothLimits ==
  /\ Cardinality({c \in Proxied : proxyAt[c] \in ProxyHandling}) <= ProxyLimit
  /\ RequestLimit

\* "only allow GET requests": nothing that comes through the proxy changes a file.
ProxyChangesNoFile ==
  [][\A c \in Proxied : at'[c] # at[c] \/ pos'[c] # pos[c] => files' = files]_allVars

\* Every client, of the proxy or of the server, is answered and its connection
\* closed, although the proxy holds one of its own slots while it waits for one of
\* the server's: no path through a handler of either keeps its slot.
ClientsServed ==
  /\ \A c \in Clients : proxyAt[c] = "backlog" ~> proxyAt[c] = "closed"
  /\ \A c \in Clients : at[c] = "backlog" ~> at[c] = "closed"
=============================================================================
