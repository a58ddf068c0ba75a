----------------------------- MODULE HttpServer -----------------------------
(***************************************************************************)
(* Lab 1/server/http_server.go: main accepts connections and hands each to  *)
(* a goroutine, at most Limit at a time; handleConnection serves one GET or *)
(* POST of a file.  Files are read and written in place, one piece of a     *)
(* body at a time, and nothing locks them.                                  *)
(***************************************************************************)
EXTENDS Naturals, Sequences, FiniteSets

CONSTANTS
  Clients,      \* connections
  Files,        \* paths
  Allowed,      \* the paths whose extension is in contentTypes
  Limit,        \* maxConcurrentRequests
  Pieces,       \* pieces of a request body
  Nobody        \* no client

ASSUME HttpServerAssumption ==
  /\ Limit \in Nat \ {0} /\ Pieces \in Nat
  /\ Allowed \subseteq Files /\ Nobody \notin Clients

VARIABLES
  at,           \* where the goroutine of a connection is
  accepted,     \* the connection main has accepted and not yet passed on
  semaphore,    \* elements in the channel
  request,      \* method and path, once they are read
  pos,          \* pieces read from, or written to, the file
  content,      \* the pieces that io.ReadAll has returned so far
  status,       \* the status of the response, 0 before it is known
  files,        \* the file system: absent, or a sequence of pieces
  disturbed     \* history: requests during which another one wrote their file

vars == <<at, accepted, semaphore, request, pos, content, status, files, disturbed>>

Absent == [exists |-> FALSE, data |-> <<>>]
Holding(data) == [exists |-> TRUE, data |-> data]

Piece(by, k) == [by |-> by, k |-> k]
Body(c) == [k \in 1 .. Pieces |-> Piece(c, k)]

NoRequest == [method |-> "none", path |-> Nobody]

\* Between semaphore <- struct{}{} and <-semaphore.
Handling == {"read", "get", "load", "post", "save", "respond", "release"}

Init ==
  /\ at = [c \in Clients |-> "idle"]
  /\ accepted = Nobody
  /\ semaphore = 0
  /\ request = [c \in Clients |-> NoRequest]
  /\ pos = [c \in Clients |-> 0]
  /\ content = [c \in Clients |-> <<>>]
  /\ status = [c \in Clients |-> 0]
  /\ files \in [Files -> {Absent, Holding(Body(Nobody))}]
  /\ disturbed = {}

Goto(c, location) == at' = [at EXCEPT ![c] = location]

fileVars == <<request, pos, content, files, disturbed>>
mainVars == <<accepted, semaphore>>

----------------------------------------------------------------------------
(***************************************************************************)
(* main                                                                     *)
(***************************************************************************)
\* A client connects: its connection waits in the backlog of the listener.
Arrive(c) ==
  /\ at[c] = "idle"
  /\ Goto(c, "backlog")
  /\ UNCHANGED <<mainVars, fileVars, status>>

Accept(c) ==
  /\ at[c] = "backlog"
  /\ accepted = Nobody
  /\ accepted' = c
  /\ Goto(c, "accepted")
  /\ UNCHANGED <<semaphore, fileVars, status>>

\* Seeded fault: the channel has room for one more.
AcquireOneMore(c) ==
  /\ accepted = c
  /\ semaphore <= Limit
  /\ semaphore' = semaphore + 1
  /\ accepted' = Nobody
  /\ Goto(c, "read")
  /\ UNCHANGED <<fileVars, status>>

\* semaphore <- struct{}{} blocks main while the channel is full.
Acquire(c) ==
  /\ accepted = c
  /\ semaphore < Limit
  /\ semaphore' = semaphore + 1
  /\ accepted' = Nobody
  /\ Goto(c, "read")
  /\ UNCHANGED <<fileVars, status>>

----------------------------------------------------------------------------
(***************************************************************************)
(* handleConnection                                                         *)
(***************************************************************************)
Respond(c, code) ==
  /\ status' = [status EXCEPT ![c] = code]
  /\ Goto(c, "respond")

\* A malformed request, or one that the client did not finish.
BadRequest(c) ==
  /\ at[c] = "read"
  /\ Respond(c, 400)
  /\ UNCHANGED <<mainVars, fileVars>>

ReadRequest(c, method, path) ==
  /\ at[c] = "read"
  /\ request' = [request EXCEPT ![c] = [method |-> method, path |-> path]]
  /\ CASE method \notin {"GET", "POST"} -> Respond(c, 501)
       [] method \in {"GET", "POST"} /\ path \notin Allowed -> Respond(c, 400)
       [] method = "GET" /\ path \in Allowed -> Goto(c, "get") /\ UNCHANGED status
       [] method = "POST" /\ path \in Allowed -> Goto(c, "post") /\ UNCHANGED status
  /\ UNCHANGED <<mainVars, pos, content, files, disturbed>>

\* handleGetRequest: os.Open
OpenFile(c) ==
  /\ at[c] = "get"
  /\ IF files[request[c].path].exists
     THEN Goto(c, "load") /\ UNCHANGED status
     ELSE Respond(c, 404)
  /\ UNCHANGED <<mainVars, fileVars>>

\* Seeded fault: the last piece of the file is not read.
ReadAllShort(c) ==
  LET data == files[request[c].path].data
      k == pos[c] + 1
  IN /\ at[c] = "load"
     /\ IF k < Len(data)
        THEN /\ content' = [content EXCEPT ![c] = Append(@, data[k])]
             /\ pos' = [pos EXCEPT ![c] = k]
             /\ UNCHANGED <<at, status>>
        ELSE Respond(c, 200) /\ UNCHANGED <<content, pos>>
     /\ UNCHANGED <<mainVars, request, files, disturbed>>

\* io.ReadAll: one more piece, or the end of the file.
ReadAll(c) ==
  LET data == files[request[c].path].data
      k == pos[c] + 1
  IN /\ at[c] = "load"
     /\ IF k <= Len(data)
        THEN /\ content' = [content EXCEPT ![c] = Append(@, data[k])]
             /\ pos' = [pos EXCEPT ![c] = k]
             /\ UNCHANGED <<at, status>>
        ELSE Respond(c, 200) /\ UNCHANGED <<content, pos>>
     /\ UNCHANGED <<mainVars, request, files, disturbed>>

\* io.ReadAll or io.Copy fails, or os.Create does.
Fail(c) ==
  /\ at[c] \in {"load", "post", "save"}
  /\ Respond(c, 500)
  /\ UNCHANGED <<mainVars, fileVars>>

\* The other requests for the file of c that have opened it.
Others(c) ==
  {d \in Clients \ {c} : at[d] \in {"load", "save"} /\ request[d].path = request[c].path}

\* handlePostRequest: os.Create truncates a file that exists.
CreateFile(c) ==
  /\ at[c] = "post"
  /\ files' = [files EXCEPT ![request[c].path] = Holding(<<>>)]
  /\ disturbed' = disturbed \cup Others(c)
  /\ Goto(c, "save")
  /\ UNCHANGED <<mainVars, request, pos, content, status>>

\* The file after a write at the offset of a writer: the file grows as far as
\* that offset, over a gap if it was truncated meanwhile.
Written(data, k, piece) ==
  [i \in 1 .. (IF k > Len(data) THEN k ELSE Len(data)) |->
     IF i = k THEN piece
     ELSE IF i <= Len(data) THEN data[i] ELSE Piece(Nobody, 0)]

\* io.Copy: one more piece of the body, written where this writer stands.
CopyPiece(c) ==
  LET path == request[c].path
      k == pos[c] + 1
  IN /\ at[c] = "save"
     /\ k <= Pieces
     /\ files' = [files EXCEPT ![path] = Holding(Written(@.data, k, Piece(c, k)))]
     /\ pos' = [pos EXCEPT ![c] = k]
     /\ disturbed' = disturbed \cup Others(c)
     /\ UNCHANGED <<at, mainVars, request, content, status>>

\* Seeded fault: a body whose last piece is missing counts as copied.
EndCopyEarly(c) ==
  /\ at[c] = "save"
  /\ pos[c] + 1 >= Pieces
  /\ Respond(c, 201)
  /\ UNCHANGED <<mainVars, fileVars>>

EndCopy(c) ==
  /\ at[c] = "save"
  /\ pos[c] = Pieces
  /\ Respond(c, 201)
  /\ UNCHANGED <<mainVars, fileVars>>

\* writeResponse; an error of the connection is ignored.
WriteResponse(c) ==
  /\ at[c] = "respond"
  /\ Goto(c, "release")
  /\ UNCHANGED <<mainVars, fileVars, status>>

\* The deferred calls run in reverse order: first the slot is given back,
Release(c) ==
  /\ at[c] = "release"
  /\ semaphore' = semaphore - 1
  /\ Goto(c, "close")
  /\ UNCHANGED <<accepted, fileVars, status>>

\* then the connection is closed.
Close(c) ==
  /\ at[c] = "close"
  /\ Goto(c, "closed")
  /\ UNCHANGED <<mainVars, fileVars, status>>

----------------------------------------------------------------------------
\* What follows once the request is read.
Serve(c) ==
  \/ OpenFile(c) \/ ReadAll(c) \/ CreateFile(c) \/ CopyPiece(c) \/ EndCopy(c) \/ Fail(c)
  \/ WriteResponse(c) \/ Release(c) \/ Close(c)

handleConnection(c) ==
  \/ BadRequest(c)
  \/ \E method \in {"GET", "POST", "PUT"}, path \in Files : ReadRequest(c, method, path)
  \/ Serve(c)

ServerStep == \E c \in Clients : Accept(c) \/ Acquire(c) \/ handleConnection(c)

AllServed == \A c \in Clients : at[c] = "closed"
Idle == AllServed /\ UNCHANGED vars

Next == (\E c \in Clients : Arrive(c)) \/ ServerStep \/ Idle

Spec == Init /\ [][Next]_vars

----------------------------------------------------------------------------
(***************************************************************************)
(* Properties.                                                              *)
(***************************************************************************)
\* "Limit concurrent requests": never more than maxConcurrentRequests goroutines
\* serve a request, however requests fail.
RequestLimit == Cardinality({c \in Clients : at[c] \in Handling}) <= Limit

\* A GET whose file nobody wrote while it was read returns the whole file.
UndisturbedGet ==
  [][\A c \in Clients :
       at[c] = "load" /\ at'[c] = "respond" /\ status'[c] = 200 /\ c \notin disturbed =>
         content'[c] = files[request[c].path].data]_vars

\* A POST whose file nobody else wrote meanwhile leaves its body in the file when
\* it answers 201, also when it replaced a longer file.
UndisturbedPost ==
  [][\A c \in Clients :
       at[c] = "save" /\ at'[c] = "respond" /\ status'[c] = 201 /\ c \notin disturbed =>
         files'[request[c].path] = Holding(Body(c))]_vars

\* Lab 1/README.md: POST "Creates/overwrites files with request body content".
\* When nobody is writing a file, it holds the body of one request, or the first
\* pieces of a body that was not sent to the end.
FileIsOneBody ==
  \A f \in Files :
    (\A c \in Clients : at[c] = "save" => request[c].path # f) =>
      \E by \in Clients \cup {Nobody} :
        \A k \in DOMAIN files[f].data : files[f].data[k] = Piece(by, k)
=============================================================================
