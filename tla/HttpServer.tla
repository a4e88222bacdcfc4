------------------------------ MODULE HttpServer ------------------------------
(* network/http_server.c: how the server comes up, in whichever task calls      *)
(* http_server_init, and how its task serves one connection at a time, from the *)
(* bytes of a request to the form its handler reads. The sockets are module     *)
(* LwipSockets', the route table is module RouteTable's.                        *)
EXTENDS LwipSockets, FormParser

CONSTANTS
  Callers,     \* the tasks that call http_server_init
  BufferSize,  \* HTTP_MAX_REQUEST_SIZE
  Requests     \* what clients may mean to send

\* A request: one without a valid request line, OPTIONS, for a route of the portal
\* or for something else; the length of its head, blank line included; the form
\* that the page posts with it, and its encoding; what atoi makes of its
\* Content-Length as a size_t (0 without one, more than any buffer if negative);
\* whether the client takes what it is sent, or lets its window fill up.
ASSUME HttpAssumption ==
  /\ BufferSize \in Nat \ {0}
  /\ \A r \in Requests :
       /\ r.line \in {"invalid", "options", "routed", "unrouted"}
       /\ r.head \in Nat \ {0}
       /\ r.form \in Seq(Fields)
       /\ \A i \in DOMAIN r.form : Len(r.form[i].key) < KeyLen
       /\ \A i, j \in DOMAIN r.form : r.form[i].key = r.form[j].key => i = j
       /\ r.body = Body(r.form) /\ r.body \in Seq(Nat)
       /\ r.length \in Nat /\ r.takes \in BOOLEAN

VARIABLES
  initialized,  \* s_server.initialized
  server_fd,    \* s_server.server_fd
  pc,           \* where each caller is in http_server_init
  task,         \* where the server task that each caller created is
  accepts,      \* the socket that it has called accept with
  client,       \* client_fd of each server task
  request,      \* what that client means to send
  total,        \* total_received: how much of it is in the buffer
  body_len,     \* req.body_len
  replies       \* history: responses sent on the connection

serverVars == <<initialized, server_fd, pc>>
bufferVars == <<total, body_len>>
taskVars == <<task, accepts, client, request, bufferVars, replies>>
httpVars == <<serverVars, taskVars>>
vars == <<httpVars, sock>>

\* Before the first connection and between two.
NoRequest ==
  [line |-> "none", head |-> 1, form |-> <<>>, body |-> <<>>, length |-> 0, takes |-> TRUE]

TypeOK ==
  /\ SockTypeOK
  /\ initialized \in BOOLEAN
  /\ server_fd \in Fds \cup {NoFd}
  /\ pc \in [Callers -> {"idle", "socket", "bind", "listen", "create", "fail", "forget",
                         "no_task", "forget_all", "unflag"}]
  /\ task \in [Callers -> {"none", "loop", "accept", "head", "parse", "body", "refuse",
                           "answer", "failed", "close"}]
  /\ accepts \in [Callers -> Fds \cup {NoFd}]
  /\ client \in [Callers -> Fds \cup {NoFd}]
  /\ request \in [Callers -> Requests \cup {NoRequest}]
  /\ total \in [Callers -> 0..BufferSize - 1]
  /\ body_len \in [Callers -> Nat]
  /\ replies \in [Callers -> 0..2]

\* server_fd starts as 0, which is no lwIP socket either (LWIP_SOCKET_OFFSET).
HttpInit ==
  /\ initialized = FALSE /\ server_fd = NoFd
  /\ pc = [c \in Callers |-> "idle"]
  /\ task = [c \in Callers |-> "none"]
  /\ accepts = [c \in Callers |-> NoFd]
  /\ client = [c \in Callers |-> NoFd]
  /\ request = [c \in Callers |-> NoRequest]
  /\ total = [c \in Callers |-> 0]
  /\ body_len = [c \in Callers |-> 0]
  /\ replies = [c \in Callers |-> 0]

Init == SockInit /\ HttpInit

Goto(c, label) == pc' = [pc EXCEPT ![c] = label]

Listening == Is(server_fd, "listening")

-----------------------------------------------------------------------------
\* http_server_init, in task c. Every call works on the shared server_fd.

\* On a server that is up it returns at once.
InitCheck(c) ==
  /\ pc[c] = "idle"
  /\ ~initialized
  /\ Goto(c, "socket")
  /\ UNCHANGED <<initialized, server_fd, sock, taskVars>>

InitSocket(c) ==
  /\ pc[c] = "socket"
  /\ \/ \E fd \in Fds :
          /\ NextFree(fd)
          /\ Becomes(fd, "tcp")
          /\ server_fd' = fd
          /\ Goto(c, "bind")
     \/ server_fd' = NoFd /\ Goto(c, "idle") /\ UNCHANGED sock
  /\ UNCHANGED <<initialized, taskVars>>

\* With SO_REUSEADDR a second socket may bind to the port.
InitBind(c) ==
  /\ pc[c] = "bind"
  /\ \/ /\ Is(server_fd, "tcp")
        /\ Becomes(server_fd, "bound")
        /\ Goto(c, "listen")
     \/ Goto(c, "fail") /\ UNCHANGED sock
  /\ UNCHANGED <<initialized, server_fd, taskVars>>

\* Only one socket may listen on it.
InitListen(c) ==
  /\ pc[c] = "listen"
  /\ \/ /\ Is(server_fd, "bound")
        /\ \A fd \in Fds : ~Is(fd, "listening")
        /\ Becomes(server_fd, "listening")
        /\ Goto(c, "create")
     \/ Goto(c, "fail") /\ UNCHANGED sock
  /\ UNCHANGED <<initialized, server_fd, taskVars>>

\* The flag, then the task that looks at it.
InitCreate(c) ==
  /\ pc[c] = "create"
  /\ initialized' = TRUE
  /\ \/ task[c] = "none" /\ task' = [task EXCEPT ![c] = "loop"] /\ Goto(c, "idle")
     \/ Goto(c, "no_task") /\ UNCHANGED task
  /\ UNCHANGED <<server_fd, sock, accepts, client, request, bufferVars, replies>>

\* The error paths close what server_fd names by then, and forget it.
FailClose(c) ==
  /\ pc[c] \in {"fail", "no_task"}
  /\ close(server_fd)
  /\ Goto(c, IF pc[c] = "fail" THEN "forget" ELSE "forget_all")
  /\ UNCHANGED <<initialized, server_fd, taskVars>>

\* Fault: the flag left set when the task cannot be created.
FaultyFailForget(c) ==
  /\ pc[c] \in {"forget", "forget_all"}
  /\ server_fd' = NoFd
  /\ Goto(c, "idle")
  /\ UNCHANGED <<initialized, sock, taskVars>>

FailForget(c) ==
  /\ pc[c] \in {"forget", "forget_all"}
  /\ server_fd' = NoFd
  /\ Goto(c, IF pc[c] = "forget" THEN "idle" ELSE "unflag")
  /\ UNCHANGED <<initialized, sock, taskVars>>

\* That of xTaskCreate takes the flag back, last.
FailUnflag(c) ==
  /\ pc[c] = "unflag"
  /\ initialized' = FALSE
  /\ Goto(c, "idle")
  /\ UNCHANGED <<server_fd, sock, taskVars>>

InitFail(c) == FailClose(c) \/ FailForget(c) \/ FailUnflag(c)

http_server_init(c) ==
  InitCheck(c) \/ InitSocket(c) \/ InitBind(c) \/ InitListen(c) \/ InitCreate(c) \/ InitFail(c)

-----------------------------------------------------------------------------
\* http_server_task, the one that c created

Continue(c, label) == task' = [task EXCEPT ![c] = label]

\* The loop ends when the flag is taken back; else it waits in accept.
ServerLoop(c) ==
  /\ task[c] = "loop"
  /\ IF initialized
     THEN Continue(c, "accept") /\ accepts' = [accepts EXCEPT ![c] = server_fd]
     ELSE Continue(c, "none") /\ UNCHANGED accepts
  /\ UNCHANGED <<serverVars, sock, client, request, bufferVars, replies>>

\* A client comes. With a full socket table accept fails and is retried, which
\* changes nothing.
Accept(c) ==
  /\ task[c] = "accept"
  /\ Is(accepts[c], "listening")
  /\ \E fd \in Fds, r \in Requests :
       /\ NextFree(fd)
       /\ Becomes(fd, "client")
       /\ client' = [client EXCEPT ![c] = fd]
       /\ request' = [request EXCEPT ![c] = r]
  /\ accepts' = [accepts EXCEPT ![c] = NoFd]
  /\ Continue(c, "head")
  /\ UNCHANGED <<serverVars, bufferVars, replies>>

\* accept fails: the socket was closed, or never listened.
AcceptError(c) ==
  /\ task[c] = "accept"
  /\ ~Is(accepts[c], "listening")
  /\ accepts' = [accepts EXCEPT ![c] = NoFd]
  /\ Continue(c, "loop")
  /\ UNCHANGED <<serverVars, sock, client, request, bufferVars, replies>>

\* recv with room for so many bytes: some of what the client sends comes.
Receive(c, room) ==
  \E n \in 1..Min({room, request[c].head + Len(request[c].body) - total[c]}) :
    total' = [total EXCEPT ![c] = @ + n]

\* Bytes until the head is complete or the buffer full.
ReadHead(c) ==
  /\ task[c] = "head"
  /\ Receive(c, BufferSize - 1 - total[c])
  /\ Continue(c, IF total'[c] >= request[c].head \/ total'[c] = BufferSize - 1
                 THEN "parse" ELSE "head")
  /\ UNCHANGED <<serverVars, sock, accepts, client, request, body_len, replies>>

\* Fault: a head that has begun is waited for.
FaultyTimeOut(c) ==
  /\ task[c] \in {"head", "body"}
  /\ Continue(c, IF task[c] = "body" THEN "answer" ELSE IF total[c] = 0 THEN "parse" ELSE "head")
  /\ UNCHANGED <<serverVars, sock, accepts, client, request, bufferVars, replies>>

\* No byte came for 5 s, in either loop.
TimeOut(c) ==
  /\ task[c] \in {"head", "body"}
  /\ Continue(c, IF task[c] = "body" THEN "answer" ELSE "parse")
  /\ UNCHANGED <<serverVars, sock, accepts, client, request, bufferVars, replies>>

HeadComplete(c) == total[c] >= request[c].head

\* The bytes that came after the head.
BodyReceived(c) == total[c] - request[c].head

\* The body as it is announced, cut to the room there is after the head.
Meant(c) == Min({request[c].length, BufferSize - request[c].head - 1})

\* Fault: the body taken for complete as soon as some of it came.
FaultyParse(c) ==
  /\ task[c] = "parse"
  /\ IF HeadComplete(c) /\ request[c].line # "invalid"
     THEN /\ body_len' = [body_len EXCEPT ![c] = Meant(c)]
          /\ Continue(c, IF BodyReceived(c) > 0 THEN "answer" ELSE "body")
     ELSE /\ Continue(c, IF total[c] = 0 THEN "close" ELSE "refuse")
          /\ UNCHANGED body_len
  /\ UNCHANGED <<serverVars, sock, accepts, client, request, total, replies>>

\* Nothing came: no answer. No complete head, or no valid request line: 400. Then
\* the body.
Parse(c) ==
  /\ task[c] = "parse"
  /\ IF HeadComplete(c) /\ request[c].line # "invalid"
     THEN /\ body_len' = [body_len EXCEPT ![c] = Meant(c)]
          /\ Continue(c, IF BodyReceived(c) >= body_len'[c] THEN "answer" ELSE "body")
     ELSE /\ Continue(c, IF total[c] = 0 THEN "close" ELSE "refuse")
          /\ UNCHANGED body_len
  /\ UNCHANGED <<serverVars, sock, accepts, client, request, total, replies>>

\* The rest of the body, until it is complete.
ReadBody(c) ==
  /\ task[c] = "body"
  /\ Receive(c, body_len[c] - BodyReceived(c))
  /\ Continue(c, IF total'[c] = request[c].head + body_len[c] THEN "answer" ELSE "body")
  /\ UNCHANGED <<serverVars, sock, accepts, client, request, body_len, replies>>

Reply(c) == replies' = [replies EXCEPT ![c] = @ + 1]

\* Fault: an invalid request is not answered.
FaultyRefuse(c) ==
  /\ task[c] = "refuse"
  /\ Continue(c, "close")
  /\ UNCHANGED <<serverVars, sock, accepts, client, request, bufferVars, replies>>

\* The 400s.
Refuse(c) ==
  /\ task[c] = "refuse"
  /\ Reply(c)
  /\ Continue(c, "close")
  /\ UNCHANGED <<serverVars, sock, accepts, client, request, bufferVars>>

\* The preflight, the redirect or the handler's own response. Every handler sends
\* one, also when it returns an error.
Answer(c) ==
  /\ task[c] = "answer"
  /\ Reply(c)
  /\ \/ Continue(c, "close")
     \/ request[c].line = "routed" /\ Continue(c, "failed")
  /\ UNCHANGED <<serverVars, sock, accepts, client, request, bufferVars>>

\* Fault: the handler tried once more.
FaultyHandlerFailed(c) ==
  /\ task[c] = "failed"
  /\ Reply(c)
  /\ Continue(c, "answer")
  /\ UNCHANGED <<serverVars, sock, accepts, client, request, bufferVars>>

\* A handler that returned an error has a 500 sent after it.
HandlerFailed(c) ==
  /\ task[c] = "failed"
  /\ Reply(c)
  /\ Continue(c, "close")
  /\ UNCHANGED <<serverVars, sock, accepts, client, request, bufferVars>>

\* The variables of handle_client are gone.
Forget(c) ==
  /\ client' = [client EXCEPT ![c] = NoFd]
  /\ request' = [request EXCEPT ![c] = NoRequest]
  /\ total' = [total EXCEPT ![c] = 0]
  /\ body_len' = [body_len EXCEPT ![c] = 0]
  /\ replies' = [replies EXCEPT ![c] = 0]

\* Fault: the socket of a silent client kept.
FaultyClose(c) ==
  /\ task[c] = "close"
  /\ IF total[c] = 0 THEN UNCHANGED sock ELSE close(client[c])
  /\ Forget(c)
  /\ Continue(c, "loop")
  /\ UNCHANGED <<serverVars, accepts>>

\* Every path through handle_client closes the connection.
Close(c) ==
  /\ task[c] = "close"
  /\ close(client[c])
  /\ Forget(c)
  /\ Continue(c, "loop")
  /\ UNCHANGED <<serverVars, accepts>>

\* What follows the bytes.
handle_request(c) == Parse(c) \/ Refuse(c) \/ Answer(c) \/ HandlerFailed(c) \/ Close(c)

handle_client(c) == ReadHead(c) \/ ReadBody(c) \/ TimeOut(c) \/ handle_request(c)

http_server_task(c) == ServerLoop(c) \/ Accept(c) \/ AcceptError(c) \/ handle_client(c)

-----------------------------------------------------------------------------
HttpNext == \E c \in Callers : http_server_init(c) \/ http_server_task(c)

Spec == Init /\ [][HttpNext]_vars

-----------------------------------------------------------------------------
\* A server that says it is up is up: it has a socket that listens and exactly
\* one task that accepts, after any sequence of failed and repeated calls of
\* http_server_init (boot_manager.c calls it again on every connection).
ServerIsUp ==
  initialized /\ (\A c \in Callers : pc[c] = "idle") =>
    Listening /\ Cardinality({c \in Callers : task[c] # "none"}) = 1

\* A client that sent anything is answered before its connection is closed
\* (every return of handle_client).
Answered ==
  \A c \in Callers : task[c] = "close" /\ total[c] > 0 => replies[c] > 0

\* What the handler is given: body_len bytes, of which those that came are the
\* client's, the next is the NUL that handle_client writes, and the others are
\* whatever the buffer held.
Given(c, rest) ==
  [i \in 1..body_len[c] |->
     IF i <= BodyReceived(c) THEN request[c].body[i]
     ELSE IF i = BodyReceived(c) + 1 THEN NUL ELSE rest]

\* The fields of the form that the handler is given whole.
Whole(c) ==
  {k \in DOMAIN request[c].form :
     Len(Body(SubSeq(request[c].form, 1, k))) <= Min({body_len[c], BodyReceived(c)})}

\* The handler reads what the page's user typed: in however many pieces a request
\* comes, and wherever it stops or is cut, each field that came whole has the
\* value that was encoded, up to the room it has (handle_client's two loops,
\* form_parser_parse, url_decode).
FormAsSent ==
  \A c \in Callers : task[c] = "answer" /\ request[c].line = "routed" =>
    \A k \in Whole(c), rest \in {NUL, Ampersand, 97} :
      k <= MaxFields =>
        form_parser_get_value(form_parser_parse(Given(c, rest)), request[c].form[k].key)
          = Stored(request[c].form[k])

\* A handler is given less than the client sent only if the request is too long for
\* the buffer, or was announced shorter, or its next bytes stayed out for the 5 s of a
\* recv: handle_client's loops do not take one piece of a request for all of it.
CutOnlyWhenLate ==
  [][\A c \in Callers :
       /\ task[c] # "answer" /\ task'[c] = "answer"
       /\ total'[c] < request[c].head + Len(request[c].body)
       /\ request[c].head + Len(request[c].body) < BufferSize
       /\ Len(request[c].body) <= request[c].length
       => task[c] = "body" /\ total'[c] = total[c]]_vars

\* send() has no time-out. What the server says by itself fits TCP's send buffer; the
\* response of a handler need not.
Taken(c) == request[c].line = "routed" => request[c].takes

\* No client that takes its response keeps the server's task for ever: whatever it
\* sends or does not send, the connection is closed and the task looks for the next
\* one. (A client that takes nothing of a handler's response does keep it, since
\* SO_RCVTIMEO is the only time-out set.)
ClientIsDone == \A c \in Callers : task[c] = "head" /\ Taken(c) ~> task[c] = "loop"

=============================================================================
