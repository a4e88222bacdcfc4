------------------------- MODULE PortalServersProofs -------------------------
(* Proofs about PortalServers, for every set of tasks, sockets, requests and     *)
(* queries. As long as no two tasks were in each other's way (~raced), the two   *)
(* servers keep their sockets, whatever fails. What becomes of a request, its    *)
(* form and a query holds after a race too.                                      *)
EXTENDS PortalServers, FormParserProofs, FiniteSetTheorems

TaskLabels ==
  {"none", "loop", "accept", "head", "parse", "body", "refuse", "answer", "failed", "close"}

StartLabels ==
  {"idle", "check", "socket", "bind", "create", "fail", "forget", "no_task", "forget_all",
   "unflag"}

\* The part of the types that the proofs rest on.
Types ==
  /\ SockTypeOK
  /\ initialized \in BOOLEAN /\ running \in BOOLEAN
  /\ server_fd \in Fds \cup {NoFd} /\ socket_fd \in Fds \cup {NoFd}
  /\ pc \in [Callers -> {"idle", "socket", "bind", "listen", "create", "fail", "forget",
                         "no_task", "forget_all", "unflag"}]
  /\ task \in [Callers -> TaskLabels]
  /\ client \in [Callers -> Fds \cup {NoFd}]
  /\ start \in [Callers -> StartLabels]
  /\ stop \in [Stoppers -> {"idle", "close", "forget", "done"}]
  /\ dnsTask \in [Callers -> {"none", "loop", "call", "recv", "send", "pause"}]
  /\ inside \subseteq Callers

TcpKinds == {"tcp", "bound", "listening"}
UdpKinds == {"udp", "dns"}

\* Who is past the check of dns_server_start.
Past(c) == start[c] \notin {"idle", "check"}

\* http_server_init: one task in it; the flag, the socket and the server's task go
\* together, but for the error path of xTaskCreate.
HttpInv ==
  /\ \A c, d \in Callers : pc[c] # "idle" /\ pc[d] # "idle" => c = d
  /\ \A c \in Callers :
       /\ pc[c] \in {"socket", "bind", "listen", "create", "fail", "forget"} => ~initialized
       /\ pc[c] \in {"no_task", "forget_all", "unflag"} =>
            initialized /\ \A d \in Callers : task[d] = "none"
       /\ pc[c] \in {"socket", "unflag"} => server_fd = NoFd
       /\ pc[c] = "bind" => Is(server_fd, "tcp")
       /\ pc[c] = "listen" => Is(server_fd, "bound")
       /\ pc[c] \in {"create", "no_task"} => Listening
       /\ pc[c] = "fail" => server_fd # NoFd /\ sock[server_fd] \in TcpKinds
       /\ pc[c] \in {"forget", "forget_all"} => \A fd \in Fds : sock[fd] \notin TcpKinds
       /\ task[c] \in {"none", "loop", "accept"} => client[c] = NoFd
  /\ ~initialized => \A c \in Callers : task[c] = "none"
  /\ ~initialized /\ (\A c \in Callers : pc[c] = "idle") => server_fd = NoFd
  /\ initialized /\ (\A c \in Callers : pc[c] \notin {"no_task", "forget_all", "unflag"}) =>
       Listening /\ \E c \in Callers : \A d \in Callers : task[d] # "none" <=> d = c

\* dns_server_start: the same, as long as nobody stops the server.
StartInv ==
  /\ \A c, d \in Callers : Past(c) /\ Past(d) => c = d
  /\ \A c \in Callers : start[c] # "idle" => c \in inside
  /\ \A c \in Callers :
       /\ start[c] \in {"socket", "bind", "create", "fail", "forget"} =>
            ~running /\ \A d \in Callers : dnsTask[d] = "none"
       /\ start[c] \in {"no_task", "forget_all", "unflag"} =>
            running /\ \A d \in Callers : dnsTask[d] = "none"
       /\ start[c] \in {"socket", "unflag"} => socket_fd = NoFd
       /\ start[c] = "bind" => Is(socket_fd, "udp")
       /\ start[c] \in {"create", "no_task"} => Is(socket_fd, "dns")
       /\ start[c] = "fail" => socket_fd # NoFd /\ sock[socket_fd] \in UdpKinds
       /\ start[c] \in {"forget", "forget_all"} => \A fd \in Fds : sock[fd] \notin UdpKinds
  /\ running /\ (\A c \in Callers : ~Past(c)) =>
       Is(socket_fd, "dns") /\ \E c \in Callers : \A d \in Callers : dnsTask[d] # "none" <=> d = c
  /\ ~running /\ (\A c \in Callers : ~Past(c)) /\ (\A t \in Stoppers : stop[t] = "idle") =>
       socket_fd = NoFd /\ \A d \in Callers : dnsTask[d] = "none"

\* dns_server_stop: only once everybody is out of web_portal_init, for good; one task
\* past its check.
StopInv ==
  /\ armed => ready
  /\ \A t \in Stoppers : stop[t] # "idle" =>
       armed /\ ~running /\ \A c \in Callers : start[c] = "idle"
  /\ \A t, u \in Stoppers : stop[t] \in {"close", "forget"} /\ stop[u] \in {"close", "forget"} => t = u
  /\ \A t \in Stoppers :
       /\ stop[t] = "close" => Is(socket_fd, "dns")
       /\ stop[t] = "forget" => \A fd \in Fds : sock[fd] \notin UdpKinds

\* A number that names no socket any more, and is not forgotten yet.
HttpForgets == \E c \in Callers : pc[c] \in {"forget", "forget_all"}
DnsForgets ==
  \/ \E c \in Callers : start[c] \in {"forget", "forget_all"}
  \/ \E t \in Stoppers : stop[t] = "forget"

\* Which sockets there are, and whose.
SocketInv ==
  /\ \A fd \in Fds :
       /\ sock[fd] \in TcpKinds => fd = server_fd
       /\ sock[fd] \in UdpKinds => fd = socket_fd
       /\ sock[fd] = "client" => \E c \in Callers : client[c] = fd
  /\ server_fd # NoFd /\ ~HttpForgets => sock[server_fd] \in TcpKinds
  /\ socket_fd # NoFd /\ ~DnsForgets => sock[socket_fd] \in UdpKinds
  /\ \A c \in Callers : client[c] # NoFd => sock[client[c]] = "client"
  /\ \A c, d \in Callers : client[c] # NoFd /\ client[c] = client[d] => c = d

Inv == Types /\ HttpInv /\ StartInv /\ StopInv /\ SocketInv

\* What is true until the first race.
IInv == raced \/ Inv

-----------------------------------------------------------------------------
LEMMA InitInv == PortalInit => Inv
<1> SUFFICES ASSUME PortalInit PROVE Inv
  OBVIOUS
<1> USE PortalAssumption, SocketAssumption DEF PortalInit, Init, HttpInit, DnsInit, SockInit
<1>1. Types
  BY DEF TaskLabels, StartLabels, Types, SockTypeOK, Kinds
<1>2. HttpInv
  BY DEF HttpInv
<1>3. StartInv
  BY DEF StartInv, Past
<1>4. StopInv
  BY DEF StopInv
<1>5. SocketInv
  BY DEF SocketInv, TcpKinds, UdpKinds
<1> QED BY <1>1, <1>2, <1>3, <1>4, <1>5 DEF Inv

\* A number is a socket's, or NoFd, which is none.
LEMMA NoFdIsNone == NoFd \notin Fds
BY SocketAssumption DEF NoFd

\* A step that is noted and is no race leaves nobody in another's way.
LEMMA NoRace ==
  ASSUME Noted, ~raced'
  PROVE  /\ \A c, d \in Callers : pc'[c] # "idle" /\ pc'[d] # "idle" => c = d
         /\ \A c, d \in Callers : Past(c)' /\ Past(d)' => c = d
         /\ \A c \in Callers, t \in Stoppers : start'[c] = "idle" \/ stop'[t] = "idle"
BY DEF Noted, Race, Past

\* What a step on the other server's socket, or a client's, leaves true of a server.
LEMMA HttpAside ==
  ASSUME Inv, UNCHANGED <<initialized, server_fd, pc, task, client>>,
         \A fd \in Fds : sock[fd] \in TcpKinds \/ sock'[fd] \in TcpKinds => sock'[fd] = sock[fd]
  PROVE  HttpInv'
BY DEF Inv, HttpInv, Types, Is, Listening, TcpKinds

LEMMA DnsAside ==
  ASSUME Inv, UNCHANGED <<running, socket_fd, start, stop, dnsTask, ready, inside, armed>>,
         \A fd \in Fds : sock[fd] \in UdpKinds \/ sock'[fd] \in UdpKinds => sock'[fd] = sock[fd]
  PROVE  StartInv' /\ StopInv'
<1>1. StartInv'
  BY DEF Inv, StartInv, Types, Is, Past, UdpKinds
<1>2. StopInv'
  BY DEF Inv, StopInv, Types, Is, UdpKinds
<1> QED BY <1>1, <1>2

-----------------------------------------------------------------------------
\* http_server_init

\* The steps that only move its caller on.
LEMMA GotoKeeps ==
  ASSUME Inv, NEW c \in Callers, NEW label, Goto(c, label),
         UNCHANGED <<sock, initialized, server_fd, taskVars, dnsVars, ready, inside, armed>>,
         \/ pc[c] = "idle" /\ label = "socket" /\ ~initialized /\ \A d \in Callers : pc[d] = "idle"
         \/ pc[c] = "socket" /\ label = "idle"
         \/ pc[c] \in {"bind", "listen"} /\ label = "fail"
  PROVE  Inv'
<1> USE PortalAssumption DEF Goto, taskVars, dnsVars, Inv
<1>1. Types'
  BY DEF Types, SockTypeOK
<1>2. HttpInv'
  BY DEF HttpInv, Types, Is, Listening, TcpKinds
<1>3. StartInv' /\ StopInv'
  BY DnsAside
<1>4. SocketInv'
  BY DEF SocketInv, HttpForgets, DnsForgets, Types
<1> QED BY <1>1, <1>2, <1>3, <1>4

\* socket
LEMMA SocketKeeps ==
  ASSUME Inv, NEW c \in Callers, InitSocket(c), UNCHANGED <<dnsVars, ready, inside, armed>>
  PROVE  Inv'
<1> USE PortalAssumption, NoFdIsNone DEF dnsVars, Inv
<1>1. pc[c] = "socket" /\ server_fd = NoFd /\ UNCHANGED <<initialized, taskVars>>
  BY DEF InitSocket, HttpInv
<1>2. CASE server_fd' = NoFd /\ Goto(c, "idle") /\ UNCHANGED sock
  BY <1>1, <1>2, GotoKeeps
<1>3. ASSUME NEW fd \in Fds, NextFree(fd), Becomes(fd, "tcp"), server_fd' = fd, Goto(c, "bind")
      PROVE  Inv'
  <2> USE <1>1, <1>3 DEF taskVars, Goto, Becomes
  <2>1. Types'
    BY DEF TaskLabels, Types, SockTypeOK, Kinds
  <2>2. sock[fd] = "free"
    BY DEF NextFree, Free
  <2>3. HttpInv'
    BY <2>2 DEF HttpInv, Types, SockTypeOK, Is, Listening
  <2>4. \A other \in Fds :
          sock[other] \in UdpKinds \/ sock'[other] \in UdpKinds => sock'[other] = sock[other]
    BY <2>2 DEF Types, SockTypeOK, UdpKinds
  <2>5. StartInv' /\ StopInv'
    BY <2>4, DnsAside
  <2>6. SocketInv'
    BY <2>2 DEF SocketInv, Types, SockTypeOK, HttpForgets, DnsForgets, UdpKinds, TcpKinds
  <2> QED BY <2>1, <2>3, <2>5, <2>6
<1> QED BY <1>2, <1>3 DEF InitSocket

\* bind and listen
LEMMA BecomesKeeps ==
  ASSUME Inv, NEW c \in Callers, NEW kind \in {"bound", "listening"}, NEW label,
         Becomes(server_fd, kind), Goto(c, label),
         \/ pc[c] = "bind" /\ kind = "bound" /\ label = "listen"
         \/ pc[c] = "listen" /\ kind = "listening" /\ label = "create",
         UNCHANGED <<initialized, server_fd, taskVars, dnsVars, ready, inside, armed>>
  PROVE  Inv'
<1> USE PortalAssumption, NoFdIsNone DEF taskVars, dnsVars, Goto, Becomes, Inv
<1>1. server_fd \in Fds /\ sock[server_fd] \in TcpKinds
  BY DEF HttpInv, Types, Is, TcpKinds
<1>2. Types'
  BY DEF TaskLabels, Types, SockTypeOK, Kinds
<1>3. HttpInv'
  BY <1>1 DEF HttpInv, Types, SockTypeOK, Is, Listening
<1>4. \A fd \in Fds : sock[fd] \in UdpKinds \/ sock'[fd] \in UdpKinds => sock'[fd] = sock[fd]
  BY <1>1 DEF Types, SockTypeOK, UdpKinds, TcpKinds
<1>5. StartInv' /\ StopInv'
  BY <1>4, DnsAside
<1>6. SocketInv'
  BY <1>1 DEF SocketInv, Types, SockTypeOK, HttpForgets, DnsForgets, UdpKinds, TcpKinds
<1> QED BY <1>2, <1>3, <1>5, <1>6

\* xTaskCreate
LEMMA CreateKeeps ==
  ASSUME Inv, NEW c \in Callers, InitCreate(c), UNCHANGED <<dnsVars, ready, inside, armed>>
  PROVE  Inv'
<1> USE PortalAssumption DEF InitCreate, dnsVars, bufferVars, Goto, Inv
<1>1. ~initialized /\ Listening /\ \A d \in Callers : task[d] = "none"
  BY DEF HttpInv
<1>2. Types'
  BY DEF TaskLabels, Types, SockTypeOK
<1>3. HttpInv'
  BY <1>1, SMTT(30) DEF HttpInv, Types, Is, Listening
<1>4. StartInv' /\ StopInv'
  BY DnsAside
<1>5. SocketInv'
  BY DEF SocketInv, HttpForgets, DnsForgets, Types
<1> QED BY <1>2, <1>3, <1>4, <1>5

\* The error paths.
LEMMA InitFailKeeps ==
  ASSUME Inv, NEW c \in Callers, InitFail(c), UNCHANGED <<dnsVars, ready, inside, armed>>
  PROVE  Inv'
<1> USE PortalAssumption, NoFdIsNone DEF dnsVars, taskVars, Goto, Inv
<1>1. CASE FailClose(c)
  <2> USE <1>1 DEF FailClose, close
  <2>1. (IF pc[c] = "fail" THEN "forget" ELSE "forget_all") \in {"forget", "forget_all"}
    OBVIOUS
  <2>2. Types'
    BY <2>1 DEF TaskLabels, Types, SockTypeOK, Kinds
  <2>3. server_fd \in Fds /\ sock[server_fd] \in TcpKinds
    BY DEF HttpInv, Types, Is, Listening, TcpKinds
  <2>4. \A fd \in Fds : sock'[fd] = IF sock[fd] \in TcpKinds THEN "free" ELSE sock[fd]
    BY <2>3 DEF SocketInv, Types, SockTypeOK
  <2>5. HttpInv'
    BY <2>4 DEF HttpInv, Types, TcpKinds
  <2>6. StartInv' /\ StopInv'
    BY <2>4, DnsAside DEF TcpKinds, UdpKinds
  <2>7. SocketInv'
    BY <2>1, <2>4 DEF SocketInv, Types, HttpForgets, DnsForgets, UdpKinds, TcpKinds
  <2> QED BY <2>2, <2>5, <2>6, <2>7
<1>2. CASE FailForget(c)
  <2> USE <1>2 DEF FailForget
  <2>1. (IF pc[c] = "forget" THEN "idle" ELSE "unflag") \in {"idle", "unflag"}
    OBVIOUS
  <2>2. Types'
    BY <2>1 DEF Types, SockTypeOK
  <2>3. HttpInv'
    BY DEF HttpInv, Types
  <2>4. StartInv' /\ StopInv'
    BY DnsAside
  <2>5. SocketInv'
    BY DEF SocketInv, HttpInv, HttpForgets, DnsForgets, Types
  <2> QED BY <2>2, <2>3, <2>4, <2>5
<1>3. CASE FailUnflag(c)
  <2> USE <1>3 DEF FailUnflag
  <2>1. Types'
    BY DEF Types, SockTypeOK
  <2>2. HttpInv'
    BY DEF HttpInv, Types
  <2>3. StartInv' /\ StopInv'
    BY DnsAside
  <2>4. SocketInv'
    BY DEF SocketInv, HttpForgets, DnsForgets, Types
  <2> QED BY <2>1, <2>2, <2>3, <2>4
<1> QED BY <1>1, <1>2, <1>3 DEF InitFail

LEMMA ServerInitKeeps ==
  ASSUME Inv, NEW c \in Callers, ServerInit(c), ~raced'
  PROVE  Inv'
<1> USE DEF ServerInit
<1>1. CASE InitCheck(c)
  <2>1. \A d \in Callers : pc[d] = "idle"
    BY <1>1, NoRace DEF InitCheck, Goto, Inv, Types
  <2> QED BY <1>1, <2>1, GotoKeeps DEF InitCheck
<1>2. CASE InitSocket(c)
  BY <1>2, SocketKeeps
<1>3. CASE InitBind(c)
  BY <1>3, BecomesKeeps, GotoKeeps DEF InitBind
<1>4. CASE InitListen(c)
  BY <1>4, BecomesKeeps, GotoKeeps DEF InitListen
<1>5. CASE InitCreate(c)
  BY <1>5, CreateKeeps
<1>6. CASE InitFail(c)
  BY <1>6, InitFailKeeps
<1> QED
  BY <1>1, <1>2, <1>3, <1>4, <1>5, <1>6 DEF http_server_init

-----------------------------------------------------------------------------
\* http_server_task

\* A server's task is the only one.
LEMMA OnlyTask ==
  ASSUME Inv, NEW c \in Callers, task[c] # "none"
  PROVE  /\ initialized
         /\ \A d \in Callers : pc[d] = "idle"
         /\ Listening
         /\ \A d \in Callers : task[d] # "none" <=> d = c
<1> USE DEF Inv, HttpInv, Types
<1>1. initialized /\ \A d \in Callers : pc[d] \notin {"no_task", "forget_all", "unflag"}
  OBVIOUS
<1>2. \A d \in Callers : pc[d] = "idle"
  BY <1>1
<1> QED BY <1>1, <1>2

\* Between accept and close only the task's own variables change, and around them
\* only where it is.
LEMMA ServingKeeps ==
  ASSUME Inv, NEW c \in Callers, task[c] # "none",
         NEW label \in TaskLabels \ {"none"}, Continue(c, label),
         label \in {"loop", "accept"} => client[c] = NoFd,
         UNCHANGED <<sock, serverVars, client, dnsVars, portalVars>>
  PROVE  Inv'
<1> USE PortalAssumption DEF Continue, serverVars, dnsVars, portalVars, Inv
<1>1. Types'
  BY DEF Types, SockTypeOK
<1>2. \A d \in Callers : task'[d] # "none" <=> task[d] # "none"
  BY DEF Types
<1>3. HttpInv'
  BY <1>2 DEF HttpInv, Types, Is, Listening
<1>4. StartInv' /\ StopInv'
  BY DnsAside
<1>5. SocketInv'
  BY DEF SocketInv, HttpForgets, DnsForgets
<1> QED BY <1>1, <1>3, <1>4, <1>5

LEMMA AcceptKeeps ==
  ASSUME Inv, NEW c \in Callers, Accept(c), UNCHANGED <<dnsVars, portalVars>>
  PROVE  Inv'
<1> USE PortalAssumption, NoFdIsNone
        DEF Accept, dnsVars, portalVars, serverVars, bufferVars, Inv
<1>1. /\ initialized /\ Listening
      /\ \A d \in Callers : pc[d] = "idle" /\ (task[d] # "none" <=> d = c)
  BY OnlyTask
<1>2. PICK fd \in Fds : /\ NextFree(fd) /\ Becomes(fd, "client")
                        /\ client' = [client EXCEPT ![c] = fd]
  BY <1>1
<1> USE <1>1, <1>2 DEF Becomes, Continue
<1>3. Types'
  BY DEF TaskLabels, Types, SockTypeOK, Kinds
<1>4. sock[fd] = "free" /\ \A d \in Callers : client[d] = NoFd
  BY DEF NextFree, Free, HttpInv, Types
<1>5. HttpInv'
  BY <1>4 DEF HttpInv, Types, SockTypeOK, Is, Listening
<1>6. \A other \in Fds :
        sock[other] \in UdpKinds \/ sock'[other] \in UdpKinds => sock'[other] = sock[other]
  BY <1>4 DEF Types, SockTypeOK, UdpKinds
<1>7. StartInv' /\ StopInv'
  BY <1>6, DnsAside
<1>8. SocketInv'
  BY <1>4 DEF SocketInv, Types, SockTypeOK, HttpForgets, DnsForgets, UdpKinds, TcpKinds
<1> QED BY <1>3, <1>5, <1>7, <1>8

LEMMA CloseKeeps ==
  ASSUME Inv, NEW c \in Callers, Close(c), UNCHANGED <<dnsVars, portalVars>>
  PROVE  Inv'
<1> USE PortalAssumption, NoFdIsNone
        DEF Close, Forget, Continue, close, serverVars, dnsVars, portalVars, Inv
<1>1. Types'
  BY DEF TaskLabels, Types, SockTypeOK, Kinds
<1>2. /\ initialized /\ Listening
      /\ \A d \in Callers : pc[d] = "idle" /\ (task[d] # "none" <=> d = c)
  BY OnlyTask
<1>3. \A fd \in Fds : sock'[fd] = IF fd = client[c] THEN "free" ELSE sock[fd]
  BY DEF Types, SockTypeOK
<1>4. client[c] # NoFd => sock[client[c]] = "client"
  BY DEF SocketInv
<1>5. HttpInv'
  BY <1>2, <1>3, <1>4 DEF HttpInv, Types, Is, Listening
<1>6. StartInv' /\ StopInv'
  BY <1>3, <1>4, DnsAside DEF Types, UdpKinds
<1>7. SocketInv'
  BY <1>3, <1>4 DEF SocketInv, Types, HttpForgets, DnsForgets, UdpKinds, TcpKinds
<1> QED BY <1>1, <1>5, <1>6, <1>7

LEMMA HttpTaskKeeps ==
  ASSUME Inv, NEW c \in Callers, HttpTask(c)
  PROVE  Inv'
<1> USE ServingKeeps DEF HttpTask, TaskLabels
<1>1. CASE ServerLoop(c)
  <2>1. initialized /\ client[c] = NoFd
    BY <1>1, OnlyTask DEF ServerLoop, Inv, HttpInv
  <2> QED BY <1>1, <2>1 DEF ServerLoop
<1>2. CASE Accept(c)
  BY <1>2, AcceptKeeps
<1>3. CASE AcceptError(c)
  <2>1. client[c] = NoFd
    BY <1>3 DEF AcceptError, Inv, HttpInv
  <2> QED BY <1>3, <2>1 DEF AcceptError
<1>4. CASE ReadHead(c)
  BY <1>4 DEF ReadHead
<1>5. CASE ReadBody(c)
  BY <1>5 DEF ReadBody
<1>6. CASE TimeOut(c)
  BY <1>6 DEF TimeOut, bufferVars
<1>7. CASE Parse(c)
  BY <1>7 DEF Parse
<1>8. CASE Refuse(c)
  BY <1>8 DEF Refuse
<1>9. CASE Answer(c)
  BY <1>9 DEF Answer
<1>10. CASE HandlerFailed(c)
  BY <1>10 DEF HandlerFailed
<1>11. CASE Close(c)
  BY <1>11, CloseKeeps
<1> QED
  BY <1>1, <1>2, <1>3, <1>4, <1>5, <1>6, <1>7, <1>8, <1>9, <1>10, <1>11
     DEF http_server_task, handle_client, handle_request

-----------------------------------------------------------------------------
\* web_portal_init and dns_server_start

\* The steps that only move their task on.
LEMMA StartAtKeeps ==
  ASSUME Inv, NEW c \in Callers, NEW label, StartAt(c, label),
         UNCHANGED <<sock, httpVars, running, socket_fd, stop, dnsTask, armed>>,
         inside' \subseteq Callers, \A d \in Callers \ {c} : d \in inside => d \in inside',
         start'[c] # "idle" => c \in inside',
         armed => ready',
         \/ start[c] \in {"idle", "check"} /\ label \in {"idle", "check"}
         \/ start[c] = "check" /\ label = "socket" /\ ~running
         \/ start[c] = "socket" /\ label = "idle"
         \/ start[c] = "bind" /\ label = "fail",
         Past(c)' => \A d \in Callers : Past(d)' => d = c,
         start'[c] # "idle" => \A t \in Stoppers : stop[t] = "idle"
  PROVE  Inv'
<1> USE PortalAssumption DEF StartAt, httpVars, serverVars, taskVars, Inv
<1>1. label \in StartLabels
  BY DEF StartLabels
<1>2. Types'
  BY <1>1 DEF Types, SockTypeOK
<1>3. HttpInv'
  BY HttpAside
<1>4. StartInv'
  BY DEF StartInv, Types, Is, Past, UdpKinds
<1>5. StopInv'
  BY DEF StopInv, Types, Is
<1>6. SocketInv'
  BY DEF SocketInv, HttpForgets, DnsForgets, Types
<1> QED BY <1>2, <1>3, <1>4, <1>5, <1>6

LEMMA PortalBeginKeeps ==
  ASSUME Inv, NEW c \in Callers, PortalBegin(c), ~raced'
  PROVE  Inv'
<1> USE PortalAssumption DEF PortalBegin
<1>1. start[c] = "idle" /\ start' = [start EXCEPT ![c] = "check"] /\ UNCHANGED stop
  BY DEF Inv, StartInv, StartAt
<1>2. start'[c] = "check"
  BY <1>1 DEF Inv, Types
<1>3. \A t \in Stoppers : stop[t] = "idle"
  BY <1>1, <1>2, NoRace
<1>4. inside' \subseteq Callers /\ (armed => ready)
  BY DEF Inv, Types, StopInv
<1> QED BY <1>1, <1>2, <1>3, <1>4, StartAtKeeps DEF Past

LEMMA PortalEndKeeps ==
  ASSUME Inv, NEW c \in Callers, PortalEnd(c)
  PROVE  Inv'
<1> USE PortalAssumption DEF PortalEnd
<1>1. start'[c] = "idle" /\ inside' \subseteq Callers
  BY DEF StartAt, Inv, Types
<1> QED BY <1>1, StartAtKeeps DEF Past

\* socket
LEMMA StartSocketKeeps ==
  ASSUME Inv, NEW c \in Callers, StartSocket(c), UNCHANGED <<httpVars, ready, inside, armed>>,
         \A d \in Callers : Past(d) => d = c, \A t \in Stoppers : stop[t] = "idle"
  PROVE  Inv'
<1> USE PortalAssumption, NoFdIsNone DEF StartSocket, httpVars, serverVars, taskVars, Inv
<1>1. socket_fd = NoFd
  BY DEF StartInv
<1>2. CASE socket_fd' = NoFd /\ StartAt(c, "idle") /\ UNCHANGED sock
  <2>1. start'[c] = "idle"
    BY <1>2 DEF StartAt, Types
  <2> QED BY <1>1, <1>2, <2>1, StartAtKeeps DEF Past, StopInv, Types
<1>3. ASSUME NEW fd \in Fds, NextFree(fd), Becomes(fd, "udp"), socket_fd' = fd,
             StartAt(c, "bind")
      PROVE  Inv'
  <2> USE <1>3 DEF StartAt, Becomes
  <2>1. sock[fd] = "free" /\ ~running /\ \A d \in Callers : dnsTask[d] = "none"
    BY DEF NextFree, Free, StartInv
  <2>2. Types'
    BY DEF StartLabels, Types, SockTypeOK, Kinds
  <2>3. HttpInv'
    BY <2>1, HttpAside DEF Types, SockTypeOK, TcpKinds
  <2>4. StartInv'
    BY <2>1 DEF StartInv, Types, SockTypeOK, Is, Past
  <2>5. StopInv'
    BY DEF StopInv, Is
  <2>6. SocketInv'
    BY <1>1, <2>1 DEF SocketInv, Types, SockTypeOK, HttpForgets, DnsForgets, UdpKinds, TcpKinds
  <2> QED BY <2>2, <2>3, <2>4, <2>5, <2>6
<1> QED BY <1>2, <1>3

\* bind
LEMMA StartBindKeeps ==
  ASSUME Inv, NEW c \in Callers, start[c] = "bind", Becomes(socket_fd, "dns"),
         StartAt(c, "create"),
         UNCHANGED <<httpVars, running, socket_fd, stop, dnsTask, ready, inside, armed>>,
         \A d \in Callers : Past(d) => d = c, \A t \in Stoppers : stop[t] = "idle"
  PROVE  Inv'
<1> USE PortalAssumption, NoFdIsNone DEF StartAt, Becomes, httpVars, serverVars, taskVars, Inv
<1>1. /\ sock[socket_fd] = "udp" /\ socket_fd \in Fds
      /\ ~running /\ \A d \in Callers : dnsTask[d] = "none"
  BY DEF StartInv, Is, Types
<1>2. Types'
  BY DEF StartLabels, Types, SockTypeOK, Kinds
<1>3. HttpInv'
  BY <1>1, HttpAside DEF Types, SockTypeOK, TcpKinds
<1>4. StartInv'
  BY <1>1 DEF StartInv, Types, SockTypeOK, Is, Past
<1>5. StopInv'
  BY DEF StopInv, Is
<1>6. SocketInv'
  BY <1>1 DEF SocketInv, Types, SockTypeOK, HttpForgets, DnsForgets, UdpKinds, TcpKinds
<1> QED BY <1>2, <1>3, <1>4, <1>5, <1>6

\* xTaskCreate
LEMMA StartCreateKeeps ==
  ASSUME Inv, NEW c \in Callers, StartCreate(c), UNCHANGED <<httpVars, ready, inside, armed>>,
         \A d \in Callers : Past(d) => d = c, \A t \in Stoppers : stop[t] = "idle"
  PROVE  Inv'
<1> USE PortalAssumption DEF StartCreate, StartAt, httpVars, serverVars, taskVars, Inv
<1>1. Is(socket_fd, "dns") /\ \A d \in Callers : dnsTask[d] = "none"
  BY DEF StartInv
<1>2. Types'
  BY DEF StartLabels, Types, SockTypeOK
<1>3. HttpInv'
  BY HttpAside
<1>4. StartInv'
  BY <1>1 DEF StartInv, Types, Is, Past
<1>5. StopInv'
  BY DEF StopInv, Is
<1>6. SocketInv'
  BY DEF SocketInv, HttpForgets, DnsForgets, Types
<1> QED BY <1>2, <1>3, <1>4, <1>5, <1>6

\* The error paths.
LEMMA StartFailKeeps ==
  ASSUME Inv, NEW c \in Callers, StartFail(c), UNCHANGED <<httpVars, ready, inside, armed>>,
         \A d \in Callers : Past(d) => d = c, \A t \in Stoppers : stop[t] = "idle"
  PROVE  Inv'
<1> USE PortalAssumption, NoFdIsNone
        DEF StartAt, httpVars, serverVars, taskVars, Inv
<1>1. CASE StartClose(c)
  <2> USE <1>1 DEF StartClose, close
  <2>1. (IF start[c] = "fail" THEN "forget" ELSE "forget_all") \in {"forget", "forget_all"}
    OBVIOUS
  <2>2. Types'
    BY <2>1 DEF StartLabels, Types, SockTypeOK, Kinds
  <2>3. socket_fd \in Fds /\ sock[socket_fd] \in UdpKinds
    BY DEF StartInv, Types, Is, UdpKinds
  <2>4. \A fd \in Fds : sock'[fd] = IF sock[fd] \in UdpKinds THEN "free" ELSE sock[fd]
    BY <2>3 DEF SocketInv, Types, SockTypeOK
  <2>5. HttpInv'
    BY <2>4, HttpAside DEF TcpKinds, UdpKinds
  <2>6. StartInv'
    BY <2>4 DEF StartInv, Types, Past, UdpKinds
  <2>7. StopInv'
    BY DEF StopInv, Is
  <2>8. SocketInv'
    BY <2>1, <2>4 DEF SocketInv, Types, HttpForgets, DnsForgets, UdpKinds, TcpKinds
  <2> QED BY <2>2, <2>5, <2>6, <2>7, <2>8
<1>2. CASE StartForget(c)
  <2> USE <1>2 DEF StartForget
  <2>1. (IF start[c] = "forget" THEN "idle" ELSE "unflag") \in {"idle", "unflag"}
    OBVIOUS
  <2>2. Types'
    BY <2>1 DEF StartLabels, Types, SockTypeOK
  <2>3. HttpInv'
    BY HttpAside
  <2>4. StartInv'
    BY DEF StartInv, Types, Past
  <2>5. StopInv'
    BY DEF StopInv, Is
  <2>6. SocketInv'
    BY DEF SocketInv, StartInv, HttpForgets, DnsForgets, Types
  <2> QED BY <2>2, <2>3, <2>4, <2>5, <2>6
<1>3. CASE StartUnflag(c)
  <2> USE <1>3 DEF StartUnflag
  <2>1. Types'
    BY DEF StartLabels, Types, SockTypeOK
  <2>2. HttpInv'
    BY HttpAside
  <2>3. StartInv'
    BY DEF StartInv, Types, Past
  <2>4. StopInv'
    BY DEF StopInv, Is
  <2>5. SocketInv'
    BY DEF SocketInv, HttpForgets, DnsForgets, Types
  <2> QED BY <2>1, <2>2, <2>3, <2>4, <2>5
<1> QED BY <1>1, <1>2, <1>3 DEF StartFail

LEMMA DnsStartKeeps ==
  ASSUME Inv, NEW c \in Callers, DnsStart(c), ~raced'
  PROVE  Inv'
<1> USE PortalAssumption DEF DnsStart
<1>1. start[c] # "idle"
  BY DEF dns_server_start, StartCheck, StartSocket, StartBind, StartCreate, StartFail,
         StartClose, StartForget, StartUnflag
<1>2. \A t \in Stoppers : stop[t] = "idle"
  BY <1>1 DEF Inv, StopInv
<1>3. CASE StartCheck(c)
  <2>1. PICK label \in {"idle", "socket"} :
          StartAt(c, label) /\ (label = "socket" => ~running)
    BY <1>3 DEF StartCheck
  <2>2. start'[c] = label /\ c \in inside
    BY <1>1, <2>1 DEF StartAt, Inv, Types, StartInv
  <2>3. Past(c)' => \A d \in Callers : Past(d)' => d = c
    BY NoRace
  <2> QED BY <1>2, <1>3, <2>1, <2>2, <2>3, StartAtKeeps DEF StartCheck, Inv, Types, StopInv, httpVars
<1>4. ASSUME Past(c)
      PROVE  \A d \in Callers : Past(d) => d = c
  BY <1>4 DEF Inv, StartInv
<1>5. CASE StartSocket(c)
  BY <1>2, <1>4, <1>5, StartSocketKeeps DEF Past, StartSocket
<1>6. CASE StartBind(c)
  <2>1. CASE Becomes(socket_fd, "dns") /\ StartAt(c, "create")
    BY <1>2, <1>4, <1>6, <2>1, StartBindKeeps DEF Past, StartBind
  <2>2. CASE StartAt(c, "fail") /\ UNCHANGED sock
    <3>1. start'[c] = "fail" /\ \A d \in Callers \ {c} : start'[d] = start[d]
      BY <2>2 DEF StartAt, Inv, Types
    <3>2. c \in inside /\ inside \subseteq Callers /\ (armed => ready)
      BY <1>1 DEF Inv, Types, StartInv, StopInv
    <3>3. \A d \in Callers : Past(d)' => d = c
      BY <1>4, <1>6, <3>1 DEF Past, StartBind
    <3> QED BY <1>2, <1>6, <2>2, <3>2, <3>3, StartAtKeeps DEF StartBind, httpVars
  <2> QED BY <1>6, <2>1, <2>2 DEF StartBind
<1>7. CASE StartCreate(c)
  BY <1>2, <1>4, <1>7, StartCreateKeeps DEF Past, StartCreate
<1>8. CASE StartFail(c)
  BY <1>2, <1>4, <1>8, StartFailKeeps DEF Past, StartFail, StartClose, StartForget, StartUnflag
<1> QED
  BY <1>3, <1>5, <1>6, <1>7, <1>8 DEF dns_server_start

LEMMA ArmKeeps ==
  ASSUME Inv, Arm
  PROVE  Inv'
<1> USE PortalAssumption
        DEF Arm, vars, httpVars, serverVars, taskVars, bufferVars, dnsVars, Inv
<1>1. Types' /\ HttpInv'
  BY HttpAside DEF Types, SockTypeOK
<1>2. StartInv'
  BY DEF StartInv, Past, Is
<1>3. StopInv' /\ SocketInv'
  BY DEF StopInv, SocketInv, HttpForgets, DnsForgets, Is
<1> QED BY <1>1, <1>2, <1>3

-----------------------------------------------------------------------------
\* dns_server_stop and dns_server_task

LEMMA StopBeginKeeps ==
  ASSUME Inv, NEW t \in Stoppers, StopBegin(t), ~raced'
  PROVE  Inv'
<1> USE PortalAssumption
        DEF StopBegin, StopCheck, StopAt, httpVars, serverVars, taskVars, Inv
<1>1. PICK label \in {"close", "done"} :
        stop' = [stop EXCEPT ![t] = label] /\ (label = "close" <=> running)
  <2>1. (IF running THEN "close" ELSE "done") \in {"close", "done"}
    OBVIOUS
  <2>2. (IF running THEN "close" ELSE "done") = "close" <=> running
    OBVIOUS
  <2> QED BY <2>1, <2>2
<1>2. \A c \in Callers : start[c] = "idle"
  <2>1. stop'[t] # "idle" /\ start' = start
    BY <1>1 DEF Types
  <2> QED BY <2>1, NoRace
<1>3. Types'
  BY <1>1 DEF Types, SockTypeOK
<1>4. HttpInv'
  BY HttpAside
<1>5. StartInv'
  BY <1>1, <1>2 DEF StartInv, Types, Past
<1>6. running => Is(socket_fd, "dns") /\ \A u \in Stoppers : stop[u] = "idle"
  BY <1>2 DEF StartInv, StopInv, Past
<1>7. StopInv'
  BY <1>1, <1>2, <1>6 DEF StopInv, Types, Is
<1>8. SocketInv'
  BY <1>1 DEF SocketInv, Types, HttpForgets, DnsForgets
<1> QED BY <1>3, <1>4, <1>5, <1>7, <1>8

LEMMA DnsStopKeeps ==
  ASSUME Inv, NEW t \in Stoppers, DnsStop(t)
  PROVE  Inv'
<1> USE PortalAssumption, NoFdIsNone
        DEF DnsStop, StopAt, httpVars, serverVars, taskVars, portalVars, Inv
<1>1. /\ stop[t] \in {"close", "forget"}
      /\ armed /\ ready /\ ~running
      /\ \A c \in Callers : start[c] = "idle"
      /\ \A u \in Stoppers : u # t => stop[u] \notin {"close", "forget"}
  BY DEF dns_server_stop, StopClose, StopForget, StopInv
<1>2. CASE StopClose(t)
  <2> USE <1>2 DEF StopClose, close
  <2>1. sock[socket_fd] = "dns" /\ socket_fd \in Fds
    BY DEF StopInv, Is, Types
  <2>2. \A fd \in Fds : sock'[fd] = IF sock[fd] \in UdpKinds THEN "free" ELSE sock[fd]
    BY <2>1 DEF SocketInv, Types, SockTypeOK, UdpKinds
  <2>3. Types'
    BY DEF Types, SockTypeOK, Kinds
  <2>4. HttpInv'
    BY <2>2, HttpAside DEF TcpKinds, UdpKinds
  <2>5. StartInv'
    BY <1>1 DEF StartInv, Types, Past
  <2>6. StopInv'
    BY <1>1, <2>2 DEF StopInv, Types, UdpKinds
  <2>7. SocketInv'
    BY <2>2 DEF SocketInv, Types, HttpForgets, DnsForgets, UdpKinds, TcpKinds
  <2> QED BY <2>3, <2>4, <2>5, <2>6, <2>7
<1>3. CASE StopForget(t)
  <2> USE <1>3 DEF StopForget
  <2>1. Types'
    BY DEF Types, SockTypeOK
  <2>2. HttpInv'
    BY HttpAside
  <2>3. StartInv'
    BY <1>1 DEF StartInv, Types, Past
  <2>4. StopInv'
    BY <1>1 DEF StopInv, Types
  <2>5. SocketInv'
    BY DEF SocketInv, StopInv, Types, HttpForgets, DnsForgets
  <2> QED BY <2>1, <2>2, <2>3, <2>4, <2>5
<1> QED BY <1>2, <1>3 DEF dns_server_stop

\* A task of the DNS server ends only when the flag is gone.
LEMMA DnsTaskKeeps ==
  ASSUME Inv, NEW c \in Callers, DnsTask(c) \/ DnsClient(c)
  PROVE  Inv'
<1> USE PortalAssumption
        DEF DnsTask, DnsClient, httpVars, serverVars, taskVars, portalVars, Inv
<1>1. PICK label \in {"none", "loop", "call", "recv", "send", "pause"} :
        /\ dnsTask' = [dnsTask EXCEPT ![c] = label]
        /\ dnsTask[c] # "none"
        /\ label = "none" => ~running
        /\ UNCHANGED <<sock, running, socket_fd, start, stop, httpVars, portalVars>>
  BY DEF dns_server_task, DnsLoop, DnsCall, DnsError, DnsSend, DnsReceive, DnsAt
<1>2. Types'
  BY <1>1 DEF Types, SockTypeOK
<1>3. HttpInv'
  BY <1>1, HttpAside
<1>4. StartInv'
  BY <1>1 DEF StartInv, Types, Is, Past
<1>5. StopInv' /\ SocketInv'
  BY <1>1 DEF StopInv, SocketInv, HttpForgets, DnsForgets, Is
<1> QED BY <1>2, <1>3, <1>4, <1>5

-----------------------------------------------------------------------------
\* A race is for ever.
LEMMA RacedStays ==
  ASSUME raced, [PortalNext]_allVars
  PROVE  raced'
BY DEF PortalNext, ServerInit, PortalBegin, PortalEnd, DnsStart, HttpTask, DnsTask, DnsClient,
       Arm, StopBegin, DnsStop, Noted, portalVars, allVars

LEMMA NextKeeps ==
  ASSUME IInv, [PortalNext]_allVars
  PROVE  IInv'
<1> SUFFICES ASSUME ~raced', Inv
             PROVE  Inv'
  BY RacedStays DEF IInv
<1>1. ASSUME NEW c \in Callers,
             \/ ServerInit(c) \/ PortalBegin(c) \/ PortalEnd(c) \/ DnsStart(c)
             \/ HttpTask(c) \/ DnsTask(c) \/ DnsClient(c)
      PROVE  Inv'
  BY <1>1, ServerInitKeeps, HttpTaskKeeps, PortalBeginKeeps, PortalEndKeeps, DnsStartKeeps,
     DnsTaskKeeps
<1>2. CASE Arm
  BY <1>2, ArmKeeps
<1>3. CASE \E t \in Stoppers : StopBegin(t) \/ DnsStop(t)
  BY <1>3, StopBeginKeeps, DnsStopKeeps
<1>4. CASE UNCHANGED allVars
  <2> USE <1>4 DEF allVars, vars, httpVars, serverVars, taskVars, bufferVars, dnsVars,
                   portalVars, Inv
  <2>1. Types'
    BY DEF Types, SockTypeOK
  <2>2. HttpInv' /\ StartInv' /\ StopInv'
    BY HttpAside, DnsAside
  <2>3. SocketInv'
    BY DEF SocketInv, HttpForgets, DnsForgets
  <2> QED BY <2>1, <2>2, <2>3
<1> QED BY <1>1, <1>2, <1>3, <1>4 DEF PortalNext

LEMMA IInvHolds == PortalSpec => []IInv
<1>1. PortalInit => IInv
  BY InitInv DEF IInv
<1>2. IInv /\ [PortalNext]_allVars => IInv'
  BY NextKeeps
<1> QED BY <1>1, <1>2, PTL DEF PortalSpec

\* The HTTP server that counts as initialized has its listening socket and its one
\* task, whichever calls of http_server_init failed and were repeated in however many
\* tasks, and whatever the DNS server's start and stop did in between, as long as no
\* two tasks got into each other's way.
THEOREM ServerAlwaysStaysUp == PortalSpec => []ServerStaysUp
<1>1. IInv => ServerStaysUp
  <2> SUFFICES ASSUME Inv, initialized, \A c \in Callers : pc[c] = "idle"
               PROVE  Listening /\ Cardinality({c \in Callers : task[c] # "none"}) = 1
    BY DEF IInv, ServerStaysUp, ServerIsUp
  <2>1. Listening /\ \E c \in Callers : \A d \in Callers : task[d] # "none" <=> d = c
    BY DEF Inv, HttpInv
  <2>2. PICK c \in Callers : {d \in Callers : task[d] # "none"} = {c}
    BY <2>1
  <2> QED BY <2>1, <2>2, FS_Singleton
<1> QED BY <1>1, IInvHolds, PTL

\* The same for the DNS server: without a race dns_server_start leaves either a bound
\* socket and one task, or no flag.
THEOREM DnsAlwaysStaysUp == PortalSpec => []DnsStaysUp
<1>1. IInv => DnsStaysUp
  <2> SUFFICES ASSUME Inv, running, \A t \in Starters : start[t] \in {"idle", "check"}
               PROVE  /\ Is(socket_fd, "dns")
                      /\ Cardinality({t \in Starters : dnsTask[t] # "none"}) = 1
    BY DEF IInv, DnsStaysUp, DnsIsUp
  <2>1. /\ Is(socket_fd, "dns")
        /\ \E c \in Starters : \A d \in Starters : dnsTask[d] # "none" <=> d = c
    BY PortalAssumption DEF Inv, StartInv, Past
  <2>2. PICK c \in Starters : {d \in Starters : dnsTask[d] # "none"} = {c}
    BY <2>1
  <2> QED BY <2>1, <2>2, FS_Singleton
<1> QED BY <1>1, IInvHolds, PTL

\* No error path of http_server_init, dns_server_start, dns_server_stop or
\* handle_client loses a socket without a race.
THEOREM NeverALeak == PortalSpec => []NoLeak
<1>1. IInv => NoLeak
  <2> SUFFICES ASSUME Inv, NEW fd \in Fds, sock[fd] # "free"
               PROVE  fd \in {server_fd, socket_fd} \cup {client[c] : c \in Callers}
    BY DEF IInv, NoLeak
  <2>1. sock[fd] \in TcpKinds \cup UdpKinds \cup {"client"}
    BY DEF Inv, Types, SockTypeOK, Kinds, TcpKinds, UdpKinds
  <2> QED BY <2>1 DEF Inv, SocketInv
<1> QED BY <1>1, IInvHolds, PTL

\* Without a race server_fd and socket_fd never name the same socket, except for the
\* moment in which one of the servers has closed its own and not forgotten the number.
THEOREM AlwaysOwnSockets == PortalSpec => []OwnSockets
<1>1. IInv => OwnSockets
  <2> SUFFICES ASSUME Inv, server_fd = socket_fd, server_fd # NoFd
               PROVE  Forgetting
    BY DEF IInv, OwnSockets
  <2>1. HttpForgets \/ DnsForgets
    BY DEF Inv, SocketInv, TcpKinds, UdpKinds
  <2> QED BY <2>1, PortalAssumption DEF HttpForgets, DnsForgets, Forgetting
<1> QED BY <1>1, IInvHolds, PTL

-----------------------------------------------------------------------------
\* Answers. A response is counted before the task gets to its close.
AnswerInv ==
  /\ task \in [Callers -> TaskLabels]
  /\ total = [c \in Callers |-> total[c]]
  /\ replies \in [Callers -> Nat]
  /\ \A c \in Callers :
       /\ task[c] = "failed" => replies[c] > 0
       /\ task[c] = "close" => total[c] = 0 \/ replies[c] > 0

LEMMA TaskAnswers ==
  ASSUME AnswerInv, NEW c \in Callers, http_server_task(c)
  PROVE  AnswerInv'
<1> USE DEF AnswerInv, TaskLabels, Continue, Reply
<1>1. ASSUME NEW label \in {"head", "parse", "body", "answer"}, Continue(c, label),
             NEW n, total' = [total EXCEPT ![c] = n], UNCHANGED replies
      PROVE  AnswerInv'
  BY <1>1
<1>2. CASE ReadHead(c)
  <2>1. PICK n : total' = [total EXCEPT ![c] = n]
    BY <1>2 DEF ReadHead, Receive
  <2>2. PICK label \in {"head", "parse"} : Continue(c, label)
    BY <1>2 DEF ReadHead, Continue
  <2>3. UNCHANGED replies
    BY <1>2 DEF ReadHead
  <2> QED BY <1>1, <2>1, <2>2, <2>3
<1>3. CASE ReadBody(c)
  <2>1. PICK n : total' = [total EXCEPT ![c] = n]
    BY <1>3 DEF ReadBody, Receive
  <2>2. PICK label \in {"body", "answer"} : Continue(c, label)
    BY <1>3 DEF ReadBody, Continue
  <2>3. UNCHANGED replies
    BY <1>3 DEF ReadBody
  <2> QED BY <1>1, <2>1, <2>2, <2>3
<1>4. CASE TimeOut(c)
  <2>1. (IF task[c] = "body" THEN "answer" ELSE "parse") \in {"answer", "parse"}
    OBVIOUS
  <2> QED BY <1>4, <2>1 DEF TimeOut, bufferVars
<1>5. CASE Parse(c)
  <2>1. ASSUME NEW label \in {"answer", "body", "refuse"}, Continue(c, label)
        PROVE  AnswerInv'
    BY <1>5, <2>1 DEF Parse
  <2>2. CASE Continue(c, IF total[c] = 0 THEN "close" ELSE "refuse")
    <3>1. CASE total[c] = 0
      BY <1>5, <2>2, <3>1 DEF Parse
    <3>2. CASE total[c] # 0
      BY <2>1, <2>2, <3>2
    <3> QED BY <3>1, <3>2
  <2>3. CASE Continue(c, IF BodyReceived(c) >= body_len'[c] THEN "answer" ELSE "body")
    BY <2>1, <2>3
  <2> QED BY <1>5, <2>2, <2>3 DEF Parse
<1>6. CASE Refuse(c)
  BY <1>6 DEF Refuse, bufferVars
<1>7. CASE Answer(c)
  BY <1>7 DEF Answer, bufferVars
<1>8. CASE HandlerFailed(c)
  BY <1>8 DEF HandlerFailed, bufferVars
<1>9. CASE Close(c)
  BY <1>9 DEF Close, Forget
<1>10. CASE ServerLoop(c) \/ Accept(c) \/ AcceptError(c)
  <2>1. PICK label \in {"none", "loop", "accept", "head"} : Continue(c, label)
    BY <1>10 DEF ServerLoop, Accept, AcceptError, Continue
  <2> QED BY <1>10, <2>1 DEF ServerLoop, Accept, AcceptError, bufferVars
<1> QED
  BY <1>2, <1>3, <1>4, <1>5, <1>6, <1>7, <1>8, <1>9, <1>10
     DEF http_server_task, handle_client, handle_request

\* Every client that sent anything has a response on its connection before
\* handle_client closes it, whichever return it takes.
THEOREM AlwaysAnswered == PortalSpec => []Answered
<1> USE DEF AnswerInv, TaskLabels
<1>1. PortalInit => AnswerInv
  BY DEF PortalInit, Init, HttpInit
<1>2. AnswerInv /\ [PortalNext]_allVars => AnswerInv'
  <2> SUFFICES ASSUME AnswerInv, [PortalNext]_allVars PROVE AnswerInv'
    OBVIOUS
  <2>1. ASSUME NEW c \in Callers, ServerInit(c) PROVE AnswerInv'
    <3>1. CASE InitCreate(c)
      BY <3>1 DEF InitCreate, bufferVars
    <3>2. CASE UNCHANGED taskVars
      BY <3>2 DEF taskVars, bufferVars
    <3> QED
      BY <2>1, <3>1, <3>2
         DEF ServerInit, http_server_init, InitCheck, InitSocket, InitBind, InitListen, InitFail,
             FailClose, FailForget, FailUnflag
  <2>2. ASSUME NEW c \in Callers, HttpTask(c) PROVE AnswerInv'
    BY <2>2, TaskAnswers DEF HttpTask
  <2>3. CASE UNCHANGED httpVars
    BY <2>3 DEF httpVars, taskVars, bufferVars
  <2> QED
    BY <2>1, <2>2, <2>3
       DEF PortalNext, PortalBegin, PortalEnd, Arm, StopBegin, DnsStart, DnsStop, DnsTask,
           DnsClient, allVars, vars
<1>3. AnswerInv => Answered
  BY DEF Answered
<1> QED BY <1>1, <1>2, <1>3, PTL DEF PortalSpec

-----------------------------------------------------------------------------
\* The requests that the HTTP server reads, also after a race.

\* One response at most before a handler's error is known.
Replies ==
  \A c \in Callers :
    /\ task[c] \notin {"failed", "close"} => replies[c] = 0
    /\ task[c] = "failed" => replies[c] = 1

\* While the body is read, and when a handler is given it, the head is there and
\* body_len is what is meant.
Reading ==
  \A c \in Callers :
    task[c] \in {"body", "answer"} => HeadComplete(c) /\ body_len[c] = Meant(c)

RInv == PortalTypeOK /\ Replies /\ Reading

-----------------------------------------------------------------------------
\* A request's lengths are numbers.
LEMMA Lengths ==
  ASSUME TypeOK, NEW c \in Callers
  PROVE  /\ request[c].head \in Nat \ {0} /\ Len(request[c].body) \in Nat
         /\ request[c].length \in Nat
         /\ total[c] \in 0..(BufferSize - 1) /\ body_len[c] \in Nat
<1>1. request[c] \in Requests \/ request[c] = NoRequest
  BY DEF TypeOK
<1>2. NoRequest.head \in Nat \ {0} /\ NoRequest.body \in Seq(Nat) /\ NoRequest.length \in Nat
  BY EmptySeq DEF NoRequest
<1>3. \A r \in Requests : r.head \in Nat \ {0} /\ r.body \in Seq(Nat) /\ r.length \in Nat
  BY HttpAssumption
<1>4. request[c].head \in Nat \ {0} /\ request[c].body \in Seq(Nat) /\ request[c].length \in Nat
  BY <1>1, <1>2, <1>3
<1> QED BY <1>4, LenProperties DEF TypeOK

\* What is meant fits the room after the head, and is no less than a body that does
\* and was announced whole.
LEMMA MeantIs ==
  ASSUME TypeOK, NEW c \in Callers
  PROVE  /\ Meant(c) \in Int /\ Meant(c) <= BufferSize - request[c].head - 1
         /\ request[c].head < BufferSize => Meant(c) \in Nat
         /\ request[c].head + Len(request[c].body) < BufferSize
              /\ Len(request[c].body) <= request[c].length => Len(request[c].body) <= Meant(c)
<1> DEFINE a == request[c].length
           b == Len(request[c].body)
           h == request[c].head
           m == Min({a, BufferSize - h - 1})
<1>1. a \in Nat /\ b \in Nat /\ h \in Nat /\ BufferSize \in Nat
  BY Lengths, HttpAssumption
<1>2. Meant(c) = m
  BY DEF Meant
<1> HIDE DEF a, b, h
<1>3. BufferSize - h - 1 \in Int /\ a \in Int
  BY <1>1
<1>4. m = IF a <= BufferSize - h - 1 THEN a ELSE BufferSize - h - 1
  BY <1>3, MinOfTwo
<1> HIDE DEF m
<1>5. /\ m \in Int /\ m <= BufferSize - h - 1
      /\ h < BufferSize => m \in Nat
      /\ h + b < BufferSize /\ b <= a => b <= m
  BY <1>1, <1>4
<1> QED BY <1>2, <1>5 DEF a, b, h

\* The room is never exceeded.
LEMMA Received ==
  ASSUME TypeOK, NEW c \in Callers, NEW room \in Int, room <= BufferSize - 1 - total[c],
         Receive(c, room)
  PROVE  /\ total' \in [Callers -> 0..(BufferSize - 1)]
         /\ total'[c] > total[c] /\ total'[c] <= total[c] + room
         /\ total'[c] <= request[c].head + Len(request[c].body)
         /\ \A d \in Callers : d # c => total'[d] = total[d]
<1> DEFINE rest == request[c].head + Len(request[c].body) - total[c]
<1>1. total[c] \in 0..(BufferSize - 1) /\ rest \in Int /\ BufferSize \in Nat
  BY Lengths, HttpAssumption
<1>2. PICK n \in 1..Min({room, rest}) : total' = [total EXCEPT ![c] = @ + n]
  BY DEF Receive
<1> HIDE DEF rest
<1>3. n \in Nat /\ n >= 1 /\ n <= room /\ n <= rest
  BY <1>1, <1>2, MinOfTwo
<1>4. total[c] + n \in 0..(BufferSize - 1)
  BY <1>1, <1>3
<1>5. total \in [Callers -> 0..(BufferSize - 1)]
  BY DEF TypeOK
<1>6. total[c] + n <= request[c].head + Len(request[c].body)
  <2>1. request[c].head \in Int /\ Len(request[c].body) \in Int
    BY Lengths
  <2> QED BY <1>1, <1>3, <2>1, SMTT(30) DEF rest
<1> QED BY <1>1, <1>2, <1>3, <1>4, <1>5, <1>6

-----------------------------------------------------------------------------
\* Types: the sockets and the portal

LEMMA InitRInv == PortalInit => RInv
<1> SUFFICES ASSUME PortalInit PROVE RInv
  OBVIOUS
<1> USE DEF PortalInit, Init, HttpInit, DnsInit, SockInit
<1>1. TypeOK
  <2>1. total \in [Callers -> 0..(BufferSize - 1)] /\ body_len \in [Callers -> Nat]
        /\ replies \in [Callers -> 0..2]
    BY HttpAssumption
  <2>2. request \in [Callers -> Requests \cup {NoRequest}]
    OBVIOUS
  <2> QED BY <2>1, <2>2 DEF TypeOK, SockTypeOK
<1>2. DnsTypeOK
  BY DEF DnsTypeOK
<1>3. Replies /\ Reading
  BY DEF Replies, Reading
<1> QED BY <1>1, <1>2, <1>3 DEF RInv, PortalTypeOK

LEMMA ServerInitTyped ==
  ASSUME TypeOK, NEW c \in Callers, http_server_init(c)
  PROVE  TypeOK'
<1> USE DEF Goto, taskVars, bufferVars
<1>1. CASE InitCheck(c)
  BY <1>1 DEF InitCheck, TypeOK, SockTypeOK
<1>2. CASE InitSocket(c)
  BY <1>2 DEF InitSocket, Becomes, TypeOK, SockTypeOK, Kinds
<1>3. CASE InitBind(c)
  BY <1>3 DEF InitBind, Becomes, TypeOK, SockTypeOK, Kinds
<1>4. CASE InitListen(c)
  BY <1>4 DEF InitListen, Becomes, TypeOK, SockTypeOK, Kinds
<1>5. CASE InitCreate(c)
  BY <1>5 DEF InitCreate, TypeOK, SockTypeOK
<1>6. CASE FailClose(c)
  <2>1. sock' \in [Fds -> Kinds \cup {"free"}]
    BY <1>6 DEF FailClose, close, TypeOK, SockTypeOK
  <2> QED BY <1>6, <2>1 DEF FailClose, TypeOK, SockTypeOK
<1>7. CASE FailForget(c)
  BY <1>7 DEF FailForget, TypeOK, SockTypeOK
<1>8. CASE FailUnflag(c)
  BY <1>8 DEF FailUnflag, TypeOK, SockTypeOK
<1> QED
  BY <1>1, <1>2, <1>3, <1>4, <1>5, <1>6, <1>7, <1>8 DEF http_server_init, InitFail

LEMMA AcceptTyped ==
  ASSUME TypeOK, NEW c \in Callers, Accept(c)
  PROVE  TypeOK'
<1>1. PICK fd \in Fds, r \in Requests :
        /\ Becomes(fd, "client")
        /\ client' = [client EXCEPT ![c] = fd]
        /\ request' = [request EXCEPT ![c] = r]
  BY DEF Accept
<1> QED BY <1>1 DEF Accept, Continue, serverVars, bufferVars, Becomes, TypeOK, SockTypeOK, Kinds

LEMMA DnsStartTyped ==
  ASSUME DnsTypeOK, SockTypeOK, NEW t \in Starters, dns_server_start(t)
  PROVE  DnsTypeOK' /\ SockTypeOK'
<1> USE DEF StartAt, Becomes, close, SockTypeOK, Kinds, DnsTypeOK
<1>1. CASE StartSocket(t)
  BY <1>1 DEF StartSocket
<1>2. CASE StartBind(t)
  BY <1>2 DEF StartBind
<1>3. CASE StartCreate(t)
  BY <1>3 DEF StartCreate
<1>4. CASE StartClose(t)
  BY <1>4 DEF StartClose
<1>5. CASE StartForget(t)
  BY <1>5 DEF StartForget
<1>6. CASE StartUnflag(t)
  BY <1>6 DEF StartUnflag
<1>7. CASE StartCheck(t)
  BY <1>7 DEF StartCheck
<1> QED BY <1>1, <1>2, <1>3, <1>4, <1>5, <1>6, <1>7 DEF dns_server_start, StartFail

LEMMA DnsStopTyped ==
  ASSUME DnsTypeOK, SockTypeOK, NEW t \in Stoppers, StopCheck(t) \/ dns_server_stop(t)
  PROVE  DnsTypeOK' /\ SockTypeOK'
<1> USE DEF StopAt, close, SockTypeOK, DnsTypeOK
<1>1. CASE StopCheck(t)
  BY <1>1 DEF StopCheck
<1>2. CASE StopClose(t)
  BY <1>2 DEF StopClose
<1>3. CASE StopForget(t)
  BY <1>3 DEF StopForget
<1> QED BY <1>1, <1>2, <1>3 DEF dns_server_stop

LEMMA DnsTaskTyped ==
  ASSUME DnsTypeOK, SockTypeOK, NEW t \in Starters, dns_server_task(t) \/ DnsReceive(t)
  PROVE  DnsTypeOK' /\ SockTypeOK'
<1> USE DEF SockTypeOK, DnsTypeOK, DnsAt
<1>1. CASE DnsLoop(t)
  BY <1>1 DEF DnsLoop
<1>2. CASE DnsCall(t)
  BY <1>2 DEF DnsCall
<1>3. CASE DnsError(t)
  BY <1>3 DEF DnsError
<1>4. CASE DnsSend(t)
  BY <1>4 DEF DnsSend
<1>5. CASE DnsReceive(t)
  BY <1>5 DEF DnsReceive
<1> QED BY <1>1, <1>2, <1>3, <1>4, <1>5 DEF dns_server_task

-----------------------------------------------------------------------------
\* handle_client

\* What any of its steps does to the types: the numbers stay in their ranges, and
\* of the sockets only the client's is closed.
LEMMA TypedClient ==
  ASSUME TypeOK, NEW c \in Callers, UNCHANGED serverVars,
         sock' \in [Fds -> Kinds \cup {"free"}],
         NEW label \in TaskLabels, Continue(c, label),
         accepts' \in [Callers -> Fds \cup {NoFd}],
         client' \in [Callers -> Fds \cup {NoFd}],
         request' \in [Callers -> Requests \cup {NoRequest}],
         total' \in [Callers -> 0..(BufferSize - 1)],
         body_len' \in [Callers -> Nat],
         replies' \in [Callers -> 0..2]
  PROVE  TypeOK'
BY DEF TypeOK, SockTypeOK, serverVars, Continue, TaskLabels

LEMMA ReadHeadKeeps ==
  ASSUME TypeOK, Replies, Reading, NEW c \in Callers, ReadHead(c)
  PROVE  TypeOK' /\ Replies' /\ Reading'
<1>1. PICK label \in {"head", "parse"} : Continue(c, label)
  BY DEF ReadHead, Continue
<1>2. task[c] = "head" /\ UNCHANGED <<serverVars, sock, accepts, client, request, body_len, replies>>
  BY DEF ReadHead
<1>3. /\ total' \in [Callers -> 0..(BufferSize - 1)]
      /\ \A d \in Callers : d # c => total'[d] = total[d]
  <2>1. total[c] \in 0..(BufferSize - 1) /\ BufferSize \in Nat
    BY Lengths, HttpAssumption
  <2>2. BufferSize - 1 - total[c] \in Int /\ BufferSize - 1 - total[c] <= BufferSize - 1 - total[c]
    BY <2>1
  <2>3. Receive(c, BufferSize - 1 - total[c])
    BY DEF ReadHead
  <2> QED BY <2>2, <2>3, Received
<1>4. TypeOK'
  BY <1>1, <1>2, <1>3, TypedClient DEF TypeOK, SockTypeOK, TaskLabels
<1>5. task' = [task EXCEPT ![c] = label]
  BY <1>1 DEF Continue
<1>6. Replies'
  BY <1>2, <1>5 DEF Replies, TypeOK
<1>7. Reading'
  BY <1>2, <1>3, <1>5 DEF Reading, HeadComplete, Meant, TypeOK
<1> QED BY <1>4, <1>6, <1>7

\* What is left of the body fits what is left of the buffer.
LEMMA BodyRoom ==
  ASSUME TypeOK, Reading, NEW c \in Callers, task[c] = "body"
  PROVE  /\ body_len[c] - BodyReceived(c) \in Int
         /\ body_len[c] - BodyReceived(c) <= BufferSize - 1 - total[c]
<1>1. /\ request[c].head \in Int /\ total[c] \in Int /\ body_len[c] \in Int /\ BufferSize \in Int
  BY Lengths, HttpAssumption
<1>2. body_len[c] <= BufferSize - request[c].head - 1
  BY MeantIs DEF Reading
<1>3. BodyReceived(c) = total[c] - request[c].head
  BY DEF BodyReceived
<1>4. \A b, h, t, size \in Int : b <= size - h - 1 => b - (t - h) \in Int /\ b - (t - h) <= size - 1 - t
  OBVIOUS
<1> QED BY <1>1, <1>2, <1>3, <1>4

\* handle_client never reads more of the body than it means to, and stops where it
\* has all of it.
LEMMA ReadBodyKeeps ==
  ASSUME TypeOK, Replies, Reading, NEW c \in Callers, ReadBody(c)
  PROVE  /\ TypeOK' /\ Replies' /\ Reading'
         /\ task'[c] = "answer" => total'[c] = request[c].head + Meant(c)
<1>1. PICK label \in {"body", "answer"} : Continue(c, label)
  BY DEF ReadBody, Continue
<1>2. /\ task[c] = "body" /\ UNCHANGED <<serverVars, sock, accepts, client, request, body_len, replies>>
      /\ HeadComplete(c) /\ body_len[c] = Meant(c)
  BY DEF ReadBody, Reading
<1>3. /\ request[c].head \in Nat /\ Len(request[c].body) \in Nat /\ total[c] \in 0..(BufferSize - 1)
      /\ body_len[c] \in Nat /\ BufferSize \in Nat
  BY Lengths, HttpAssumption
<1>4. /\ body_len[c] - BodyReceived(c) \in Int
      /\ body_len[c] - BodyReceived(c) <= BufferSize - 1 - total[c]
  BY <1>2, BodyRoom
<1>5. /\ total' \in [Callers -> 0..(BufferSize - 1)] /\ total'[c] > total[c]
      /\ \A d \in Callers : d # c => total'[d] = total[d]
  <2>1. Receive(c, body_len[c] - BodyReceived(c))
    BY DEF ReadBody
  <2> QED BY <1>4, <2>1, Received
<1>6. TypeOK'
  BY <1>1, <1>2, <1>5, TypedClient DEF TypeOK, SockTypeOK, TaskLabels
<1>7. task' = [task EXCEPT ![c] = label]
  BY <1>1 DEF Continue
<1>8. Replies'
  BY <1>2, <1>7 DEF Replies, TypeOK
<1>9. Reading'
  <2>1. request[c].head <= total'[c]
    BY <1>2, <1>3, <1>5 DEF HeadComplete
  <2> QED BY <1>2, <1>5, <1>7, <2>1 DEF Reading, HeadComplete, Meant, TypeOK
<1>10. task'[c] = "answer" => total'[c] = request[c].head + body_len[c]
  BY DEF ReadBody, Continue, TypeOK
<1> QED BY <1>2, <1>6, <1>8, <1>9, <1>10

\* What Parse means by the whole body is what is meant.
LEMMA ParseKeeps ==
  ASSUME TypeOK, Replies, Reading, NEW c \in Callers, Parse(c)
  PROVE  /\ TypeOK' /\ Replies' /\ Reading'
         /\ task'[c] = "answer" => HeadComplete(c) /\ total[c] >= request[c].head + Meant(c)
<1>1. /\ task[c] = "parse" /\ UNCHANGED <<serverVars, sock, accepts, client, request, total, replies>>
  BY DEF Parse
<1>2. /\ request[c].head \in Nat /\ Len(request[c].body) \in Nat /\ total[c] \in 0..(BufferSize - 1)
      /\ body_len[c] \in Nat /\ BufferSize \in Nat
  BY Lengths, HttpAssumption
<1>3. HeadComplete(c) => Meant(c) \in Nat
  <2>1. HeadComplete(c) => request[c].head < BufferSize
    BY <1>2 DEF HeadComplete
  <2> QED BY <2>1, MeantIs
<1>4. CASE HeadComplete(c) /\ request[c].line # "invalid"
  <2>1. body_len' = [body_len EXCEPT ![c] = Meant(c)]
    BY <1>4 DEF Parse, Meant
  <2>2. body_len' \in [Callers -> Nat] /\ body_len'[c] = Meant(c)
        /\ \A d \in Callers : d # c => body_len'[d] = body_len[d]
    BY <1>3, <1>4, <2>1 DEF TypeOK
  <2>3. Continue(c, IF BodyReceived(c) >= Meant(c) THEN "answer" ELSE "body")
    BY <1>4, <2>2 DEF Parse
  <2>4. PICK label \in {"answer", "body"} :
          Continue(c, label) /\ (label = "answer" => BodyReceived(c) >= Meant(c))
    BY <2>3
  <2>5. TypeOK'
    BY <1>1, <2>2, <2>4, TypedClient DEF TypeOK, SockTypeOK, TaskLabels
  <2>6. task' = [task EXCEPT ![c] = label]
    BY <2>4 DEF Continue
  <2>7. Replies'
    BY <1>1, <2>6 DEF Replies, TypeOK
  <2>8. Reading'
    BY <1>1, <1>4, <2>2, <2>6 DEF Reading, HeadComplete, Meant, TypeOK
  <2>9. label = "answer" => total[c] >= request[c].head + Meant(c)
    BY <1>2, <1>3, <1>4, <2>4 DEF BodyReceived
  <2>10. task'[c] = label
    BY <2>6 DEF TypeOK
  <2> QED BY <1>4, <2>5, <2>7, <2>8, <2>9, <2>10
<1>5. CASE ~(HeadComplete(c) /\ request[c].line # "invalid")
  <2>1. PICK label \in {"close", "refuse"} : Continue(c, label)
    BY <1>5 DEF Parse
  <2>2. UNCHANGED body_len
    BY <1>5 DEF Parse
  <2>3. TypeOK'
    BY <1>1, <2>1, <2>2, TypedClient DEF TypeOK, SockTypeOK, TaskLabels
  <2>4. task' = [task EXCEPT ![c] = label]
    BY <2>1 DEF Continue
  <2>5. Replies' /\ Reading'
    BY <1>1, <2>2, <2>4 DEF Replies, Reading, HeadComplete, Meant, TypeOK
  <2>6. task'[c] # "answer"
    BY <2>4 DEF TypeOK
  <2> QED BY <2>3, <2>5, <2>6
<1> QED BY <1>4, <1>5

LEMMA AnswerKeeps ==
  ASSUME TypeOK, Replies, Reading, NEW c \in Callers,
         TimeOut(c) \/ Refuse(c) \/ Answer(c) \/ HandlerFailed(c) \/ Close(c)
  PROVE  TypeOK' /\ Replies' /\ Reading'
<1>1. PICK label \in {"parse", "answer", "close", "failed", "loop"} : Continue(c, label)
  BY DEF TimeOut, Refuse, Answer, HandlerFailed, Close
<1>2. task' = [task EXCEPT ![c] = label]
  BY <1>1 DEF Continue
<1>3. CASE Close(c)
  <2>1. /\ client' = [client EXCEPT ![c] = NoFd]
        /\ request' = [request EXCEPT ![c] = NoRequest]
        /\ total' = [total EXCEPT ![c] = 0]
        /\ body_len' = [body_len EXCEPT ![c] = 0]
        /\ replies' = [replies EXCEPT ![c] = 0]
        /\ UNCHANGED serverVars /\ close(client[c]) /\ task' = [task EXCEPT ![c] = "loop"]
        /\ accepts' \in [Callers -> Fds \cup {NoFd}]
    BY <1>3 DEF Close, Forget, Continue, TypeOK
  <2>2. sock' \in [Fds -> Kinds \cup {"free"}]
    BY <2>1 DEF close, TypeOK, SockTypeOK
  <2>3. total' \in [Callers -> 0..(BufferSize - 1)]
    BY <2>1, HttpAssumption DEF TypeOK
  <2>4. /\ client' \in [Callers -> Fds \cup {NoFd}] /\ request' \in [Callers -> Requests \cup {NoRequest}]
        /\ body_len' \in [Callers -> Nat] /\ replies' \in [Callers -> 0..2]
    BY <2>1 DEF TypeOK
  <2>5. TypeOK'
    BY <1>1, <2>1, <2>2, <2>3, <2>4, TypedClient DEF TaskLabels
  <2>6. Replies' /\ Reading'
    BY <2>1 DEF Replies, Reading, HeadComplete, Meant, TypeOK
  <2> QED BY <2>5, <2>6
<1>4. CASE TimeOut(c) \/ Refuse(c) \/ Answer(c) \/ HandlerFailed(c)
  <2>1. UNCHANGED <<serverVars, sock, accepts, client, request, bufferVars>>
    BY <1>4 DEF TimeOut, Refuse, Answer, HandlerFailed
  <2>2. /\ task[c] \in {"refuse", "answer"} => replies' = [replies EXCEPT ![c] = replies[c] + 1]
        /\ task[c] \in {"refuse", "answer", "failed", "head", "body"}
        /\ task[c] = "failed" => replies' = [replies EXCEPT ![c] = replies[c] + 1] /\ label = "close"
        /\ task[c] \in {"refuse", "answer"} => label \in {"close", "failed"}
        /\ task[c] \in {"head", "body"} => UNCHANGED replies /\ label \in {"parse", "answer"}
        /\ label = "answer" => task[c] = "body"
    <3>1. task' = [task EXCEPT ![c] = label] /\ task'[c] = label
      BY <1>2 DEF TypeOK
    <3>2. CASE TimeOut(c)
      BY <3>1, <3>2 DEF TimeOut, Continue, TypeOK
    <3>3. CASE Refuse(c)
      BY <3>1, <3>3 DEF Refuse, Reply, Continue, TypeOK
    <3>4. CASE Answer(c)
      BY <3>1, <3>4 DEF Answer, Reply, Continue, TypeOK
    <3>5. CASE HandlerFailed(c)
      BY <3>1, <3>5 DEF HandlerFailed, Reply, Continue, TypeOK
    <3> QED BY <1>4, <3>2, <3>3, <3>4, <3>5
  <2>3. /\ task[c] \in {"refuse", "answer", "head", "body"} => replies[c] = 0
        /\ task[c] = "failed" => replies[c] = 1
    BY DEF Replies
  <2>4. replies' \in [Callers -> 0..2] /\ \A d \in Callers : d # c => replies'[d] = replies[d]
    BY <2>2, <2>3 DEF TypeOK
  <2>5. TypeOK'
    BY <1>1, <2>1, <2>4, TypedClient DEF TypeOK, SockTypeOK, TaskLabels, bufferVars
  <2>6. Replies'
    <3>1. label \in {"parse", "answer"} => replies'[c] = 0
      BY <2>2, <2>3 DEF TypeOK
    <3>2. label = "failed" => replies'[c] = 1
      BY <2>2, <2>3 DEF TypeOK
    <3>3. label # "loop" /\ task'[c] = label /\ \A d \in Callers : d # c => task'[d] = task[d]
      BY <1>2, <2>2 DEF TypeOK
    <3> QED BY <2>4, <3>1, <3>2, <3>3 DEF Replies
  <2>7. Reading'
    BY <1>2, <2>1, <2>2 DEF Reading, HeadComplete, Meant, TypeOK, bufferVars
  <2> QED BY <2>5, <2>6, <2>7
<1> QED BY <1>3, <1>4

LEMMA RequestKeeps ==
  ASSUME TypeOK, Replies, Reading, NEW c \in Callers, handle_client(c)
  PROVE  TypeOK' /\ Replies' /\ Reading'
BY ReadHeadKeeps, ReadBodyKeeps, ParseKeeps, AnswerKeeps DEF handle_client, handle_request

\* The task between two connections.
LEMMA BetweenKeeps ==
  ASSUME TypeOK, Replies, Reading, NEW c \in Callers,
         Accept(c) \/ ServerLoop(c) \/ AcceptError(c)
  PROVE  TypeOK' /\ Replies' /\ Reading'
<1>1. PICK label \in {"none", "loop", "accept", "head"} : Continue(c, label)
  BY DEF Accept, ServerLoop, AcceptError, Continue
<1>2. task[c] \in {"loop", "accept"} /\ UNCHANGED <<bufferVars, replies>>
  BY DEF Accept, ServerLoop, AcceptError
<1>3. \A d \in Callers : d # c => request'[d] = request[d]
  BY DEF Accept, ServerLoop, AcceptError, TypeOK
<1>4. TypeOK'
  <2>1. CASE Accept(c)
    BY <2>1, AcceptTyped
  <2>2. CASE ServerLoop(c) \/ AcceptError(c)
    <3>1. accepts' \in [Callers -> Fds \cup {NoFd}] /\ UNCHANGED <<serverVars, sock, client, request>>
      BY <2>2 DEF ServerLoop, AcceptError, TypeOK, serverVars
    <3> QED BY <1>1, <1>2, <3>1, TypedClient DEF TypeOK, SockTypeOK, TaskLabels, bufferVars
  <2> QED BY <2>1, <2>2
<1>5. task' = [task EXCEPT ![c] = label]
  BY <1>1 DEF Continue
<1>6. Replies'
  BY <1>2, <1>5 DEF Replies, TypeOK
<1>7. Reading'
  BY <1>2, <1>3, <1>5 DEF Reading, HeadComplete, Meant, TypeOK, bufferVars
<1> QED BY <1>4, <1>6, <1>7

-----------------------------------------------------------------------------
\* The invariant

\* Without the server's task.
LEMMA Aside ==
  ASSUME RInv, UNCHANGED <<client, request, bufferVars, replies>>, TypeOK',
         \A c \in Callers : task'[c] # task[c] => task[c] = "none" /\ task'[c] = "loop"
  PROVE  Replies' /\ Reading'
BY DEF RInv, PortalTypeOK, Replies, Reading, HeadComplete, Meant, bufferVars

LEMMA NextRInv == RInv /\ [PortalNext]_allVars => RInv'
<1> SUFFICES ASSUME RInv, [PortalNext]_allVars PROVE RInv'
  OBVIOUS
<1>1. TypeOK /\ DnsTypeOK /\ SockTypeOK /\ ready \in BOOLEAN /\ armed \in BOOLEAN
      /\ raced \in BOOLEAN /\ inside \subseteq Callers /\ Replies /\ Reading
  BY DEF RInv, PortalTypeOK, TypeOK
<1>2. ASSUME NEW c \in Callers, ServerInit(c) PROVE RInv'
  <2>1. TypeOK' /\ UNCHANGED <<dnsVars, ready, inside, armed>> /\ raced' \in BOOLEAN
    BY <1>1, <1>2, ServerInitTyped DEF ServerInit, Noted
  <2>2. /\ UNCHANGED <<client, request, bufferVars, replies>>
        /\ UNCHANGED task \/ (task[c] = "none" /\ task' = [task EXCEPT ![c] = "loop"])
    BY <1>2
    DEF ServerInit, http_server_init, InitCheck, InitSocket, InitBind, InitListen, InitCreate,
        InitFail, FailClose, FailForget, FailUnflag, taskVars
  <2>3. \A d \in Callers : task'[d] # task[d] => task[d] = "none" /\ task'[d] = "loop"
    BY <1>1, <2>2 DEF TypeOK
  <2> QED BY <1>1, <2>1, <2>2, <2>3, Aside DEF RInv, PortalTypeOK, DnsTypeOK, dnsVars
<1>3. ASSUME NEW c \in Callers, HttpTask(c) PROVE RInv'
  <2>1. UNCHANGED <<dnsVars, portalVars>>
    BY <1>3 DEF HttpTask
  <2>2. CASE handle_client(c)
    BY <1>1, <2>1, <2>2, RequestKeeps DEF RInv, PortalTypeOK, DnsTypeOK, dnsVars, portalVars
  <2>3. CASE Accept(c) \/ ServerLoop(c) \/ AcceptError(c)
    BY <1>1, <2>1, <2>3, BetweenKeeps DEF RInv, PortalTypeOK, DnsTypeOK, dnsVars, portalVars
  <2> QED BY <1>3, <2>2, <2>3 DEF HttpTask, http_server_task
<1>5. ASSUME UNCHANGED httpVars, DnsTypeOK', SockTypeOK', ready' \in BOOLEAN, armed' \in BOOLEAN,
             raced' \in BOOLEAN, inside' \subseteq Callers
      PROVE  RInv'
  <2>1. UNCHANGED <<client, request, bufferVars, replies, task>> /\ TypeOK'
    BY <1>1, <1>5 DEF httpVars, serverVars, taskVars, bufferVars, TypeOK
  <2> QED BY <1>1, <1>5, <2>1, Aside DEF RInv, PortalTypeOK
<1>6. CASE UNCHANGED allVars
  BY <1>1, <1>5, <1>6 DEF allVars, vars, dnsVars, portalVars, DnsTypeOK, SockTypeOK
<1>7. ASSUME NEW c \in Callers, PortalBegin(c) \/ PortalEnd(c) \/ DnsStart(c) PROVE RInv'
  <2>1. c \in Starters
    BY PortalAssumption
  <2>2. CASE PortalBegin(c)
    BY <1>1, <1>5, <2>1, <2>2 DEF PortalBegin, StartAt, Noted, DnsTypeOK, SockTypeOK
  <2>3. CASE PortalEnd(c)
    BY <1>1, <1>5, <2>1, <2>3 DEF PortalEnd, StartAt, DnsTypeOK, SockTypeOK
  <2>4. CASE DnsStart(c)
    BY <1>1, <1>5, <2>1, <2>4, DnsStartTyped DEF DnsStart, Noted
  <2> QED BY <1>7, <2>2, <2>3, <2>4
<1>8. CASE Arm
  BY <1>1, <1>5, <1>8 DEF Arm, vars, dnsVars, DnsTypeOK, SockTypeOK
<1>9. ASSUME NEW t \in Stoppers, StopBegin(t) \/ DnsStop(t) PROVE RInv'
  BY <1>1, <1>5, <1>9, DnsStopTyped DEF StopBegin, DnsStop, portalVars, Noted
<1>10. ASSUME NEW c \in Callers, DnsTask(c) \/ DnsClient(c) PROVE RInv'
  BY <1>1, <1>5, <1>10, PortalAssumption, DnsTaskTyped DEF DnsTask, DnsClient, portalVars
<1> QED BY <1>2, <1>3, <1>6, <1>7, <1>8, <1>9, <1>10 DEF PortalNext

LEMMA RInvHolds == PortalSpec => []RInv
BY InitRInv, NextRInv, PTL DEF PortalSpec

\* The types of both servers and the portal; total_received stays within the buffer,
\* and no connection gets more than two responses (http_server.c, dns_server.c).
THEOREM PortalTypeCorrect == PortalSpec => []PortalTypeOK
<1>1. RInv => PortalTypeOK
  BY DEF RInv
<1> QED BY <1>1, RInvHolds, PTL

\* handle_client never takes a piece of a request that fits the buffer for all of it:
\* its second loop ends with the last byte of the body, or with a recv's time-out.
THEOREM AlwaysCutOnlyWhenLate == PortalSpec => CutOnlyWhenLate
<1> DEFINE Cut(c) == /\ task[c] # "answer" /\ task'[c] = "answer"
                     /\ total'[c] < request[c].head + Len(request[c].body)
                     /\ request[c].head + Len(request[c].body) < BufferSize
                     /\ Len(request[c].body) <= request[c].length
<1>1. ASSUME RInv, PortalNext, NEW c \in Callers, Cut(c)
      PROVE  task[c] = "body" /\ total'[c] = total[c]
  <2>1. TypeOK /\ Replies /\ Reading
    BY <1>1 DEF RInv, PortalTypeOK
  <2>2. /\ request[c].head \in Nat /\ Len(request[c].body) \in Nat /\ BufferSize \in Nat
        /\ total[c] \in 0..(BufferSize - 1)
    BY <2>1, Lengths, HttpAssumption
  <2>3. Len(request[c].body) <= Meant(c) /\ Meant(c) \in Int
    BY <1>1, <2>1, MeantIs
  <2>4. handle_client(c)
    <3>1. ASSUME NEW d \in Callers, handle_client(d), d # c PROVE task'[c] = task[c]
      BY <2>1, <3>1
      DEF TypeOK, handle_client, handle_request, ReadHead, ReadBody, TimeOut, Parse, Refuse, Answer,
          HandlerFailed, Close, Continue
    <3>2. ASSUME NEW d \in Callers,
                 ServerInit(d) \/ ServerLoop(d) \/ Accept(d) \/ AcceptError(d)
          PROVE  task'[c] # "answer" \/ task'[c] = task[c]
      <4>1. UNCHANGED task \/ \E label \in TaskLabels \ {"answer"} : task' = [task EXCEPT ![d] = label]
        BY <3>2
        DEF ServerInit, http_server_init, InitCheck, InitSocket, InitBind, InitListen, InitCreate,
            InitFail, FailClose, FailForget, FailUnflag, taskVars, ServerLoop, Accept, AcceptError,
            Continue, TaskLabels
      <4> QED BY <2>1, <4>1 DEF TypeOK
    <3>3. CASE UNCHANGED httpVars
      BY <1>1, <3>3 DEF httpVars, taskVars
    <3> QED
      BY <1>1, <3>1, <3>2, <3>3
      DEF PortalNext, HttpTask, http_server_task, PortalBegin, PortalEnd, Arm, StopBegin, DnsStart,
          DnsStop, DnsTask, DnsClient, vars
  <2>5. CASE ReadBody(c)
    BY <1>1, <2>1, <2>2, <2>3, <2>5, ReadBodyKeeps
  <2>6. CASE Parse(c)
    <3>1. total'[c] = total[c]
      BY <2>6 DEF Parse
    <3> QED BY <1>1, <2>1, <2>2, <2>3, <2>6, <3>1, ParseKeeps, SMTT(30)
  <2>7. CASE TimeOut(c)
    BY <1>1, <2>1, <2>7 DEF TimeOut, Continue, bufferVars, TypeOK
  <2>8. CASE ReadHead(c) \/ Refuse(c) \/ Answer(c) \/ HandlerFailed(c) \/ Close(c)
    BY <1>1, <2>1, <2>8 DEF ReadHead, Refuse, Answer, HandlerFailed, Close, Continue, TypeOK
  <2> QED BY <2>4, <2>5, <2>6, <2>7, <2>8 DEF handle_client, handle_request
<1>2. RInv /\ [PortalNext]_allVars =>
        [\A c \in Callers : Cut(c) => task[c] = "body" /\ total'[c] = total[c]]_vars
  BY <1>1 DEF allVars
<1> QED BY <1>2, RInvHolds, PTL DEF PortalSpec, CutOnlyWhenLate

-----------------------------------------------------------------------------
\* The form that a handler is given

\* No more is in the buffer than the client sends.
Sent ==
  \A c \in Callers :
    /\ task[c] \in {"none", "loop", "accept"} => total[c] = 0
    /\ total[c] <= request[c].head + Len(request[c].body)

LEMMA RequestSent ==
  ASSUME TypeOK, Reading, Sent, NEW c \in Callers, http_server_task(c)
  PROVE  Sent'
<1>1. /\ request[c].head \in Nat \ {0} /\ Len(request[c].body) \in Nat
      /\ total[c] \in 0..(BufferSize - 1) /\ BufferSize \in Nat
  BY Lengths, HttpAssumption
<1>2. ASSUME NEW room \in Int, room <= BufferSize - 1 - total[c], Receive(c, room), UNCHANGED request,
             NEW label \in TaskLabels \ {"none", "loop", "accept"}, Continue(c, label)
      PROVE  Sent'
  <2>1. /\ total'[c] <= request[c].head + Len(request[c].body)
        /\ \A d \in Callers : d # c => total'[d] = total[d]
    BY <1>2, Received
  <2> QED BY <1>2, <2>1 DEF Sent, TypeOK, Continue
<1>3. CASE ReadHead(c)
  <2>1. BufferSize - 1 - total[c] \in Int /\ BufferSize - 1 - total[c] <= BufferSize - 1 - total[c]
    BY <1>1
  <2>2. PICK label \in {"head", "parse"} : Continue(c, label)
    BY <1>3 DEF ReadHead, Continue
  <2> QED BY <1>2, <1>3, <2>1, <2>2 DEF ReadHead, TaskLabels
<1>4. ASSUME UNCHANGED <<request, total>>, NEW label \in TaskLabels, Continue(c, label),
             label \in {"none", "loop", "accept"} => total[c] = 0
      PROVE  Sent'
  BY <1>4 DEF Sent, TypeOK, Continue
<1>5. CASE TimeOut(c) \/ Parse(c) \/ Refuse(c) \/ Answer(c) \/ HandlerFailed(c)
  <2>1. PICK label \in TaskLabels \ {"none", "loop", "accept"} : Continue(c, label)
    BY <1>5 DEF TimeOut, Parse, Refuse, Answer, HandlerFailed, Continue, TaskLabels
  <2> QED BY <1>4, <1>5, <2>1 DEF TimeOut, Parse, Refuse, Answer, HandlerFailed, bufferVars
<1>6. CASE ServerLoop(c) \/ AcceptError(c)
  <2>1. PICK label \in {"none", "loop", "accept"} : Continue(c, label)
    BY <1>6 DEF ServerLoop, AcceptError, Continue
  <2>2. total[c] = 0 /\ UNCHANGED <<request, total>>
    BY <1>6 DEF ServerLoop, AcceptError, Sent, bufferVars
  <2> QED BY <1>4, <2>1, <2>2 DEF TaskLabels
<1>7. CASE Accept(c)
  <2>1. PICK r \in Requests : request' = [request EXCEPT ![c] = r]
    BY <1>7 DEF Accept
  <2>2. r.head \in Nat /\ Len(r.body) \in Nat
    BY HttpAssumption, LenProperties
  <2>3. total[c] = 0 /\ total' = total /\ task' = [task EXCEPT ![c] = "head"]
    BY <1>7 DEF Accept, Continue, Sent, bufferVars
  <2> QED BY <2>1, <2>2, <2>3 DEF Sent, TypeOK
<1>8. CASE Close(c)
  <2>1. /\ request' = [request EXCEPT ![c] = NoRequest] /\ total' = [total EXCEPT ![c] = 0]
        /\ task' = [task EXCEPT ![c] = "loop"]
    BY <1>8 DEF Close, Forget, Continue
  <2>2. NoRequest.head = 1 /\ Len(NoRequest.body) = 0
    BY EmptySeq DEF NoRequest
  <2> QED BY <2>1, <2>2 DEF Sent, TypeOK
<1>9. CASE ReadBody(c)
  <2>1. PICK label \in {"body", "answer"} : Continue(c, label)
    BY <1>9 DEF ReadBody, Continue
  <2>2. body_len[c] - BodyReceived(c) \in Int /\ body_len[c] - BodyReceived(c) <= BufferSize - 1 - total[c]
    BY <1>9, BodyRoom DEF ReadBody
  <2> QED BY <1>2, <1>9, <2>1, <2>2 DEF ReadBody, TaskLabels
<1> QED
  BY <1>3, <1>5, <1>6, <1>7, <1>8, <1>9 DEF http_server_task, handle_client, handle_request

SInv == RInv /\ Sent

LEMMA SInvHolds == PortalSpec => []SInv
<1>1. PortalInit => SInv
  <2> SUFFICES ASSUME PortalInit PROVE SInv
    OBVIOUS
  <2>1. \A c \in Callers : total[c] = 0 /\ request[c] = NoRequest
    BY DEF PortalInit, Init, HttpInit
  <2>2. NoRequest.head = 1 /\ Len(NoRequest.body) = 0
    BY EmptySeq DEF NoRequest
  <2> QED BY <2>1, <2>2, InitRInv DEF Sent, SInv
<1>2. SInv /\ [PortalNext]_allVars => SInv'
  <2> SUFFICES ASSUME SInv, [PortalNext]_allVars PROVE SInv'
    OBVIOUS
  <2>1. TypeOK /\ Reading /\ Sent
    BY DEF SInv, RInv, PortalTypeOK
  <2>2. ASSUME NEW c \in Callers, HttpTask(c) PROVE Sent'
    BY <2>1, <2>2, RequestSent DEF HttpTask
  <2>3. ASSUME NEW c \in Callers, ServerInit(c) PROVE Sent'
    <3>1. UNCHANGED <<request, total>> /\ (UNCHANGED task \/ \E d \in Callers :
            task[d] = "none" /\ task' = [task EXCEPT ![d] = "loop"])
      BY <2>3
      DEF ServerInit, http_server_init, InitCheck, InitSocket, InitBind, InitListen, InitCreate,
          InitFail, FailClose, FailForget, FailUnflag, taskVars, bufferVars
    <3> QED BY <2>1, <3>1 DEF Sent, TypeOK
  <2>4. ASSUME UNCHANGED httpVars PROVE Sent'
    BY <2>1, <2>4 DEF Sent, httpVars, taskVars, bufferVars
  <2>5. Sent'
    BY <2>2, <2>3, <2>4
       DEF PortalNext, PortalBegin, PortalEnd, Arm, StopBegin, DnsStart, DnsStop, DnsTask,
           DnsClient, allVars, vars
  <2> QED BY <2>5, NextRInv DEF SInv
<1> QED BY <1>1, <1>2, PTL DEF PortalSpec

\* A handler's bytes: what came of the body, and what the buffer held.
LEMMA GivenIs ==
  ASSUME TypeOK, Reading, Sent, NEW c \in Callers, task[c] = "answer", NEW rest \in Nat
  PROVE  /\ Given(c, rest) \in Seq(Nat) /\ Len(Given(c, rest)) = body_len[c]
         /\ BodyReceived(c) \in Nat /\ body_len[c] \in Nat
         /\ Got(Given(c, rest), request[c].body, BodyReceived(c))
<1> DEFINE g == BodyReceived(c)
           m == body_len[c]
           body == request[c].body
           data == Given(c, rest)
<1>1. /\ request[c].head \in Nat /\ Len(body) \in Nat /\ m \in Nat /\ total[c] \in Nat
  BY Lengths
<1>2. HeadComplete(c) /\ m = Meant(c)
  BY DEF Reading
<1>3. g \in Nat
  BY <1>1, <1>2 DEF HeadComplete, BodyReceived
<1>4. g <= Len(body)
  BY <1>1 DEF Sent, BodyReceived
<1>5. body \in Seq(Nat)
  <2>1. request[c] \in Requests \/ request[c] = NoRequest
    BY DEF TypeOK
  <2>2. NoRequest.body \in Seq(Nat)
    BY EmptySeq DEF NoRequest
  <2>3. \A r \in Requests : r.body \in Seq(Nat)
    BY HttpAssumption
  <2> QED BY <2>1, <2>2, <2>3
<1> DEFINE At(i) == IF i <= g THEN body[i] ELSE IF i = g + 1 THEN NUL ELSE rest
<1>6. data = [i \in 1..m |-> At(i)]
  BY DEF Given
<1> HIDE DEF g, m, body, data
<1>7. ASSUME NEW i \in 1..m PROVE At(i) \in Nat
  <2>1. NUL \in Nat
    BY DEF NUL
  <2>2. ASSUME i <= g PROVE body[i] \in Nat
    <3>1. i \in 1..Len(body)
      BY <1>1, <1>3, <1>4, <2>2
    <3> QED BY <1>5, <3>1, ElementOfSeq
  <2> QED BY <2>1, <2>2
<1>8. \A i \in 1..m : (i <= g => At(i) = body[i]) /\ (i = g + 1 => At(i) = NUL)
  BY <1>1, <1>3
<1> HIDE DEF At
<1>9. data \in Seq(Nat) /\ Len(data) = m
  <2>1. data \in [1..m -> Nat]
    BY <1>6, <1>7
  <2>2. data \in Seq(Nat)
    BY <1>1, <2>1, SeqDef
  <2> DEFINE l == Len(data)
  <2>3. l \in Nat /\ 1..l = 1..m
    BY <2>1, <2>2, LenProperties
  <2> HIDE DEF l
  <2>4. ~(l < m)
    <3>1. l < m => m \in 1..m /\ m \notin 1..l
      BY <1>1, <2>3
    <3> QED BY <2>3, <3>1
  <2>5. ~(m < l)
    <3>1. m < l => l \in 1..l /\ l \notin 1..m
      BY <1>1, <2>3
    <3> QED BY <2>3, <3>1
  <2>6. l = m
    BY <1>1, <2>3, <2>4, <2>5
  <2> QED BY <2>2, <2>6 DEF l
<1>10. \A i \in 1..m : data[i] = At(i)
  BY <1>6
<1>11. Got(data, body, g)
  <2>1. \A i \in 1..Len(data) : i <= g => data[i] = body[i]
    BY <1>8, <1>9, <1>10
  <2>2. g < Len(data) => data[g + 1] = NUL
    <3>1. g < m => g + 1 \in 1..m
      BY <1>1, <1>3
    <3> QED BY <1>8, <1>9, <1>10, <3>1
  <2> QED BY <1>4, <1>9, <2>1, <2>2 DEF Got
<1> QED BY <1>1, <1>3, <1>9, <1>11 DEF g, m, body, data

\* A handler of the portal reads what the page's user typed: for every buffer, form
\* and way in which the request comes in pieces, is cut or stops, each field that
\* came whole has the value that was encoded, up to the room it has
\* (handle_client, form_parser_parse, url_decode).
THEOREM FormIsAlwaysAsSent == PortalSpec => []FormAsSent
<1>1. ASSUME SInv, NEW c \in Callers, task[c] = "answer", request[c].line = "routed",
             NEW k \in Whole(c), NEW rest \in {NUL, Ampersand, 97}, k <= MaxFields
      PROVE  form_parser_get_value(form_parser_parse(Given(c, rest)), request[c].form[k].key)
               = Stored(request[c].form[k])
  <2> DEFINE form == request[c].form
             data == Given(c, rest)
             part == SubSeq(form, 1, k)
             size == Len(Body(part))
             g == BodyReceived(c)
  <2>1. TypeOK /\ Reading /\ Sent
    BY <1>1 DEF SInv, RInv, PortalTypeOK
  <2>2. request[c] \in Requests
    BY <1>1, <2>1 DEF TypeOK, NoRequest
  <2>3. /\ form \in Seq(Fields) /\ request[c].body = Body(form)
        /\ \A i \in DOMAIN form : Len(form[i].key) < KeyLen
        /\ \A i, j \in DOMAIN form : form[i].key = form[j].key => i = j
    BY <2>2, HttpAssumption
  <2>4. DOMAIN form = 1..Len(form) /\ Len(form) \in Nat
    <3> HIDE DEF form
    <3> QED BY <2>3, LenProperties
  <2>5. rest \in Nat
    BY DEF NUL, Ampersand
  <2>6. /\ data \in Seq(Nat) /\ Len(data) = body_len[c] /\ g \in Nat /\ body_len[c] \in Nat
        /\ Got(data, Body(form), g)
    BY <1>1, <2>1, <2>3, <2>5, GivenIs, SMTT(30)
  <2>7. k \in 1..Len(form) /\ size <= Min({body_len[c], g})
    BY <1>1, <2>4 DEF Whole
  <2> HIDE DEF form, data, g
  <2>8. size \in Nat
    <3>1. k \in 0..Len(form)
      BY <2>4, <2>7
    <3>2. part \in Seq(Fields)
      BY <2>3, <3>1, Prefix
    <3> HIDE DEF part
    <3>3. Body(part) \in Seq(Marks)
      BY <3>2, BodyIs
    <3> QED BY <3>3, LenProperties
  <2> HIDE DEF size
  <2>9. size <= g /\ size <= Len(data)
    <3>1. Min({body_len[c], g}) = IF body_len[c] <= g THEN body_len[c] ELSE g
      BY <2>6, MinOfTwo
    <3> QED BY <2>6, <2>7, <2>8, <3>1
  <2>10. form_parser_get_value(form_parser_parse(data), form[k].key) = Stored(form[k])
    <3>1. /\ \A i \in 1..Len(form) : Len(form[i].key) < KeyLen
          /\ \A i, j \in 1..Len(form) : form[i].key = form[j].key => i = j
      BY <2>3, <2>4
    <3>2. Len(Body(SubSeq(form, 1, k))) <= g /\ Len(Body(SubSeq(form, 1, k))) <= Len(data)
      BY <2>9 DEF size
    <3> QED BY <1>1, <2>3, <2>6, <2>7, <3>1, <3>2, WholeFieldIsFound, SMTT(30)
  <2> QED BY <2>10 DEF form, data
<1>2. SInv => FormAsSent
  BY <1>1 DEF FormAsSent
<1> QED BY <1>2, SInvHolds, PTL

-----------------------------------------------------------------------------
\* The answer to a query. What a recursive function computes is proved by induction
\* over the place it has come to.

FoldsTo(f, n, base, step) == f[0] = base /\ \A i \in 1..n : f[i] = step[i][f[i - 1]]

\* A fold over the first n elements of something exists, so that a recursive
\* function's CHOOSE finds it.
LEMMA FoldExists ==
  ASSUME NEW R, NEW n \in Nat, NEW base \in R, NEW step \in [1..n -> [R -> R]]
  PROVE  \E f \in [0..n -> R] : FoldsTo(f, n, base, step)
<1> DEFINE Good(f, k) == FoldsTo(f, k, base, step)
           S == {k \in Nat : k <= n => \E f \in [0..k -> R] : Good(f, k)}
<1>1. 0 \in S
  <2> DEFINE f == [i \in 0..0 |-> base]
  <2>1. f \in [0..0 -> R] /\ Good(f, 0)
    BY DEF FoldsTo
  <2> QED BY <2>1
<1>2. ASSUME NEW k \in Nat, k \in S PROVE k + 1 \in S
  <2>1. SUFFICES ASSUME k + 1 <= n PROVE \E f \in [0..k + 1 -> R] : Good(f, k + 1)
    OBVIOUS
  <2>2. PICK f \in [0..k -> R] : Good(f, k)
    BY <1>2, <2>1
  <2> DEFINE g == [i \in 0..k + 1 |-> IF i = k + 1 THEN step[k + 1][f[k]] ELSE f[i]]
  <2>3. step[k + 1][f[k]] \in R
    BY <2>1
  <2>4. g \in [0..k + 1 -> R]
    BY <2>3
  <2>5. ASSUME NEW i \in 1..k + 1 PROVE g[i] = step[i][g[i - 1]]
    <3>1. g[i - 1] = f[i - 1]
      OBVIOUS
    <3>2. CASE i = k + 1
      <4>1. g[i] = step[k + 1][f[k]] /\ i - 1 = k
        BY <3>2
      <4> HIDE DEF g
      <4> QED BY <3>1, <3>2, <4>1
    <3>3. CASE i # k + 1
      <4>1. i \in 1..k /\ g[i] = f[i]
        BY <3>3
      <4> HIDE DEF g
      <4> QED BY <2>2, <3>1, <4>1 DEF FoldsTo
    <3> QED BY <3>2, <3>3
  <2>6. Good(g, k + 1)
    <3>1. g[0] = base
      BY <2>2 DEF FoldsTo
    <3> HIDE DEF g
    <3> QED BY <2>5, <3>1 DEF FoldsTo
  <2> QED BY <2>4, <2>6
<1>3. n \in S
  <2> HIDE DEF S
  <2> QED BY <1>1, <1>2, Induction
<1> QED BY <1>3

\* The same for a size that is summed up.
LEMMA SumExists ==
  ASSUME NEW n \in Nat, NEW base \in Nat, NEW term \in [1..n -> Nat]
  PROVE  \E f \in [0..n -> Nat] : f[0] = base /\ \A i \in 1..n : f[i] = f[i - 1] + term[i]
<1> DEFINE plus == [i \in 1..n |-> [s \in Nat |-> s + term[i]]]
<1>1. plus \in [1..n -> [Nat -> Nat]]
  OBVIOUS
<1>2. PICK f \in [0..n -> Nat] : FoldsTo(f, n, base, plus)
  <2> HIDE DEF plus
  <2> QED BY <1>1, FoldExists
<1>3. ASSUME NEW i \in 1..n PROVE plus[i][f[i - 1]] = f[i - 1] + term[i]
  BY <1>2
<1> HIDE DEF plus
<1> QED BY <1>2, <1>3 DEF FoldsTo

\* A name has a size.
LEMMA NameSizeIs ==
  ASSUME NEW question \in Questions
  PROVE  NameSize(question) \in Nat
<1> DEFINE n == Len(question.labels)
           base == IF question.pointer THEN 2 ELSE 1
           term == [i \in 1..n |-> 1 + question.labels[i]]
           Unfolds(f) == f = [i \in 0..n |->
                                IF i = 0 THEN IF question.pointer THEN 2 ELSE 1
                                         ELSE f[i - 1] + 1 + question.labels[i]]
           size == CHOOSE f : Unfolds(f)
<1>1. question.labels \in Seq(Nat) /\ n \in Nat /\ base \in Nat
  BY LenProperties DEF Questions
<1>2. \A i \in 1..n : question.labels[i] \in Nat
  BY <1>1, ElementOfSeq
<1>3. term \in [1..n -> Nat]
  BY <1>2
<1>4. \E f : Unfolds(f)
  <2>1. PICK f \in [0..n -> Nat] : f[0] = base /\ \A i \in 1..n : f[i] = f[i - 1] + term[i]
    <3> HIDE DEF n, base, term
    <3> QED BY <1>1, <1>3, SumExists
  <2>2. ASSUME NEW i \in 0..n, i # 0
        PROVE  f[i - 1] + term[i] = f[i - 1] + 1 + question.labels[i]
    <3>1. f[i - 1] \in Nat /\ i \in 1..n
      <4> HIDE DEF n
      <4>1. i \in 1..n /\ i - 1 \in 0..n
        BY <1>1, <2>2
      <4> QED BY <4>1
    <3>2. term[i] = 1 + question.labels[i] /\ question.labels[i] \in Nat
      BY <1>2, <3>1
    <3>3. \A x, y \in Nat : x + (1 + y) = x + 1 + y
      OBVIOUS
    <3> HIDE DEF term, n
    <3> QED BY <3>1, <3>2, <3>3
  <2>3. Unfolds(f)
    <3> HIDE DEF term, n
    <3> QED BY <2>1, <2>2
  <2> QED BY <2>3
<1>5. Unfolds(size)
  BY <1>4
<1> DEFINE S == {i \in Nat : i <= n => size[i] \in Nat}
<1>6. 0 \in S
  <2>1. size[0] = base
    <3> HIDE DEF size
    <3> QED BY <1>1, <1>5
  <2> HIDE DEF size
  <2> QED BY <1>1, <2>1
<1>7. ASSUME NEW i \in Nat, i \in S PROVE i + 1 \in S
  <2>1. SUFFICES ASSUME i + 1 <= n PROVE size[i + 1] \in Nat
    OBVIOUS
  <2>2. size[i + 1] = size[i] + 1 + question.labels[i + 1]
    <3> HIDE DEF size
    <3> QED BY <1>1, <1>5, <2>1
  <2>3. size[i] \in Nat
    BY <1>1, <1>7, <2>1
  <2>4. question.labels[i + 1] \in Nat
    <3>1. i + 1 \in 1..n
      BY <1>1, <2>1
    <3> QED BY <1>2, <3>1
  <2>5. \A x, y \in Nat : x + 1 + y \in Nat
    OBVIOUS
  <2> HIDE DEF size
  <2> QED BY <2>2, <2>3, <2>4, <2>5
<1>8. size[n] \in Nat
  <2> HIDE DEF size, S, n
  <2>1. n \in S
    BY <1>1, <1>6, <1>7, Induction
  <2> QED BY <1>1, <2>1 DEF S
<1> QED BY <1>8 DEF NameSize
\* What process_dns_request has put together so far.
Answers == [size : Nat, records : Nat, full : BOOLEAN]

LEMMA AppendIs ==
  ASSUME NEW reply \in Answers, NEW question \in Questions
  PROVE  AppendAnswer(reply, question) \in Answers
<1>1. reply.size \in Nat /\ reply.records \in Nat /\ reply.full \in BOOLEAN
  BY DEF Answers
<1>2. QuestionSize(question) \in Nat
  BY NameSizeIs DEF QuestionSize
<1> DEFINE copied == reply.size + QuestionSize(question)
<1>3. copied \in Nat /\ copied + RecordSize \in Nat /\ reply.records + 1 \in Nat
  BY <1>1, <1>2 DEF RecordSize
<1>4. \/ AppendAnswer(reply, question) = [reply EXCEPT !.full = TRUE]
      \/ AppendAnswer(reply, question) = [reply EXCEPT !.size = copied]
      \/ AppendAnswer(reply, question) = [reply EXCEPT !.size = copied, !.full = TRUE]
      \/ AppendAnswer(reply, question) = [reply EXCEPT !.size = copied + RecordSize, !.records = @ + 1]
  BY Zenon DEF AppendAnswer
<1> HIDE DEF copied
<1>5. [reply EXCEPT !.full = TRUE] \in Answers
  BY DEF Answers
<1>6. [reply EXCEPT !.size = copied] \in Answers /\ [reply EXCEPT !.size = copied, !.full = TRUE] \in Answers
  BY <1>3 DEF Answers
<1>7. [reply EXCEPT !.size = copied + RecordSize, !.records = @ + 1] \in Answers
  BY <1>3 DEF Answers
<1> QED BY <1>4, <1>5, <1>6, <1>7

\* process_dns_request, question by question.
LEMMA ProcessIs ==
  ASSUME NEW questions \in Seq(Questions)
  PROVE  \E f \in [0..Len(questions) -> Answers] :
           /\ f[0] = NoReply
           /\ \A i \in 1..Len(questions) : f[i] = AppendAnswer(f[i - 1], questions[i])
           /\ process_dns_request(questions) = f[Len(questions)]
<1> DEFINE n == Len(questions)
           step == [i \in 1..n |-> [r \in Answers |-> AppendAnswer(r, questions[i])]]
           Unfolds(f) == f = [q \in 0..n |->
                                IF q = 0 THEN NoReply ELSE AppendAnswer(f[q - 1], questions[q])]
           reply == CHOOSE f : Unfolds(f)
<1>1. n \in Nat /\ \A i \in 1..n : questions[i] \in Questions
  BY LenProperties, ElementOfSeq
<1>2. NoReply \in Answers
  BY DEF NoReply, Answers, HeaderSize
<1>3. step \in [1..n -> [Answers -> Answers]]
  BY <1>1, AppendIs
<1>4. \E f : Unfolds(f)
  <2>1. PICK f \in [0..n -> Answers] : FoldsTo(f, n, NoReply, step)
    <3> HIDE DEF n, step
    <3> QED BY <1>1, <1>2, <1>3, FoldExists
  <2>2. ASSUME NEW i \in 0..n, i # 0 PROVE step[i][f[i - 1]] = AppendAnswer(f[i - 1], questions[i])
    BY <1>1, <2>1, <2>2
  <2>3. Unfolds(f)
    <3> HIDE DEF step, n
    <3> QED BY <2>1, <2>2 DEF FoldsTo
  <2> QED BY <2>3
<1>5. Unfolds(reply)
  BY <1>4
<1> DEFINE S == {i \in Nat : i <= n => reply[i] \in Answers}
<1>6. reply[0] = NoReply /\ \A i \in 1..n : reply[i] = AppendAnswer(reply[i - 1], questions[i])
  <2> HIDE DEF reply, n
  <2> QED BY <1>1, <1>5
<1>7. Nat \subseteq S
  <2>1. 0 \in S
    <3> HIDE DEF reply
    <3> QED BY <1>2, <1>6
  <2>2. ASSUME NEW i \in Nat, i \in S PROVE i + 1 \in S
    <3>1. SUFFICES ASSUME i + 1 <= n PROVE reply[i + 1] \in Answers
      OBVIOUS
    <3> HIDE DEF reply, n
    <3>2. reply[i + 1] = AppendAnswer(reply[i], questions[i + 1]) /\ reply[i] \in Answers
      BY <1>1, <1>6, <2>2, <3>1
    <3> QED BY <1>1, <3>1, <3>2, AppendIs
  <2> HIDE DEF S
  <2> QED BY <2>1, <2>2, Induction
<1>8. reply \in [0..n -> Answers]
  <2> HIDE DEF reply, n
  <2> QED BY <1>1, <1>5, <1>7
<1>9. process_dns_request(questions) = reply[n]
  BY DEF process_dns_request
<1> HIDE DEF reply
<1> QED BY <1>6, <1>8, <1>9

\* What a question needs in an answer.
Needs(question) == QuestionSize(question) + (IF Answerable(question) THEN RecordSize ELSE 0)

\* WholeSize, question by question.
LEMMA WholeSizeIs ==
  ASSUME NEW questions \in Seq(Questions)
  PROVE  \E f \in [0..Len(questions) -> Nat] :
           /\ f[0] = HeaderSize
           /\ \A i \in 1..Len(questions) : f[i] = f[i - 1] + Needs(questions[i])
           /\ WholeSize(questions) = f[Len(questions)]
<1> DEFINE n == Len(questions)
           term == [i \in 1..n |-> Needs(questions[i])]
           Unfolds(f) == f = [q \in 0..n |->
                                IF q = 0 THEN HeaderSize
                                ELSE f[q - 1] + QuestionSize(questions[q])
                                       + (IF Answerable(questions[q]) THEN RecordSize ELSE 0)]
           size == CHOOSE f : Unfolds(f)
<1>1. n \in Nat /\ \A i \in 1..n : questions[i] \in Questions
  BY LenProperties, ElementOfSeq
<1>2. \A i \in 1..n : QuestionSize(questions[i]) \in Nat
  BY <1>1, NameSizeIs DEF QuestionSize
<1>3. term \in [1..n -> Nat] /\ HeaderSize \in Nat
  BY <1>2 DEF Needs, RecordSize, HeaderSize
<1>4. \E f : Unfolds(f)
  <2>1. PICK f \in [0..n -> Nat] : f[0] = HeaderSize /\ \A i \in 1..n : f[i] = f[i - 1] + term[i]
    <3> HIDE DEF n, term
    <3> QED BY <1>1, <1>3, SumExists
  <2>2. ASSUME NEW i \in 0..n, i # 0
        PROVE  f[i - 1] + term[i] = f[i - 1] + QuestionSize(questions[i])
                 + (IF Answerable(questions[i]) THEN RecordSize ELSE 0)
    <3>1. f[i - 1] \in Nat /\ i \in 1..n
      BY <1>1, <2>2
    <3>2. term[i] = Needs(questions[i]) /\ QuestionSize(questions[i]) \in Nat
      BY <1>2, <3>1
    <3> HIDE DEF term
    <3> QED BY <3>1, <3>2 DEF Needs, RecordSize
  <2>3. Unfolds(f)
    <3> HIDE DEF term, n
    <3> QED BY <2>1, <2>2
  <2> QED BY <2>3
<1>5. Unfolds(size)
  BY <1>4
<1> DEFINE S == {i \in Nat : i <= n => size[i] \in Nat}
<1>6. size[0] = HeaderSize
  <2> HIDE DEF size, n
  <2> QED BY <1>1, <1>5
<1>7. ASSUME NEW i \in 1..n
      PROVE  size[i] = size[i - 1] + QuestionSize(questions[i])
               + (IF Answerable(questions[i]) THEN RecordSize ELSE 0)
  <2> HIDE DEF size, n
  <2> QED BY <1>1, <1>5
<1>8. Nat \subseteq S
  <2>1. 0 \in S
    <3> HIDE DEF size
    <3> QED BY <1>6 DEF HeaderSize
  <2>2. ASSUME NEW i \in Nat, i \in S PROVE i + 1 \in S
    <3>1. SUFFICES ASSUME i + 1 <= n PROVE size[i + 1] \in Nat
      OBVIOUS
    <3> HIDE DEF size, n
    <3>2. i + 1 \in 1..n /\ size[i] \in Nat /\ i + 1 - 1 = i
      BY <1>1, <2>2, <3>1
    <3>3. size[i + 1] = size[i] + QuestionSize(questions[i + 1])
            + (IF Answerable(questions[i + 1]) THEN RecordSize ELSE 0)
      BY <1>7, <3>2
    <3> QED BY <1>2, <3>2, <3>3 DEF RecordSize
  <2> HIDE DEF S
  <2> QED BY <2>1, <2>2, Induction
<1>9. size \in [0..n -> Nat]
  <2> HIDE DEF size, n
  <2> QED BY <1>1, <1>5, <1>8
<1>10. \A i \in 1..n : size[i] = size[i - 1] + Needs(questions[i])
  <2> HIDE DEF size, n
  <2>1. \A i \in 1..n : size[i - 1] \in Nat
    BY <1>1, <1>9
  <2> QED BY <1>2, <1>7, <2>1, SMTT(30) DEF Needs, RecordSize
<1>11. WholeSize(questions) = size[n]
  BY DEF WholeSize
<1> HIDE DEF size
<1> QED BY <1>6, <1>9, <1>10, <1>11

\* An answer that fits is put together whole.
LEMMA WholeIsSent ==
  ASSUME NEW questions \in Seq(Questions), WholeSize(questions) <= MaxPacket
  PROVE  /\ process_dns_request(questions).size = WholeSize(questions)
         /\ (\A i \in DOMAIN questions : Answerable(questions[i])) =>
              process_dns_request(questions).records = Len(questions)
<1> DEFINE n == Len(questions)
<1>1. PICK reply \in [0..n -> Answers] :
        /\ reply[0] = NoReply
        /\ \A i \in 1..n : reply[i] = AppendAnswer(reply[i - 1], questions[i])
        /\ process_dns_request(questions) = reply[n]
  BY ProcessIs
<1>2. PICK size \in [0..n -> Nat] :
        /\ size[0] = HeaderSize
        /\ \A i \in 1..n : size[i] = size[i - 1] + Needs(questions[i])
        /\ WholeSize(questions) = size[n]
  BY WholeSizeIs
<1>3. n \in Nat /\ \A i \in 1..n : questions[i] \in Questions
  BY LenProperties, ElementOfSeq
<1> DEFINE Fits(i) == /\ reply[i].size = size[i] /\ reply[i].full = FALSE
                      /\ (\A j \in 1..i : Answerable(questions[j])) => reply[i].records = i
           S == {i \in Nat : i <= n /\ size[i] <= MaxPacket => Fits(i)}
<1> HIDE DEF n
<1>4. 0 \in S
  BY <1>1, <1>2 DEF NoReply
<1>5. ASSUME NEW i \in Nat, i \in S PROVE i + 1 \in S
  <2>1. SUFFICES ASSUME i + 1 <= n, size[i + 1] <= MaxPacket PROVE Fits(i + 1)
    <3> HIDE DEF Fits
    <3> QED OBVIOUS
  <2> DEFINE question == questions[i + 1]
             r == reply[i]
             q == QuestionSize(question)
  <2>2. i + 1 \in 1..n /\ i \in 0..n /\ i + 1 - 1 = i
    BY <1>3, <2>1
  <2>3. question \in Questions /\ q \in Nat
    BY <1>3, <2>2, NameSizeIs DEF QuestionSize
  <2>4. reply[i + 1] = AppendAnswer(r, question) /\ r \in Answers
    BY <1>1, <2>2
  <2>5. size[i + 1] = size[i] + Needs(question) /\ size[i] \in Nat
    BY <1>2, <2>2
  <2>6. size[i] <= MaxPacket /\ size[i] + q <= MaxPacket
    BY <2>1, <2>3, <2>5 DEF Needs, RecordSize, MaxPacket
  <2>7. Fits(i)
    BY <1>5, <2>2, <2>6
  <2>8. r.size = size[i] /\ r.full = FALSE /\ r.records \in Nat /\ r.size \in Nat
    BY <2>4, <2>7 DEF Answers
  <2>9. CASE Answerable(question)
    <3>1. size[i + 1] = size[i] + q + RecordSize /\ size[i] + q + 12 <= MaxPacket
      <4> HIDE DEF question
      <4>1. Needs(question) = q + 16 /\ RecordSize = 16
        BY <2>9 DEF Needs, RecordSize
      <4> HIDE DEF q
      <4>2. size[i + 1] = size[i] + q + 16
        <5>1. \A x, y \in Nat : x + (y + 16) = x + y + 16
          OBVIOUS
        <5> QED BY <2>3, <2>5, <4>1, <5>1
      <4>3. size[i + 1] <= 512
        BY <2>1 DEF MaxPacket
      <4>4. \A x, y, w \in Nat : w = x + y + 16 /\ w <= 512 => x + y + 12 <= 512
        OBVIOUS
      <4>5. size[i] + q + 12 <= 512
        BY <2>3, <2>5, <4>2, <4>3, <4>4
      <4> QED BY <4>1, <4>2, <4>5 DEF MaxPacket
    <3>2. reply[i + 1] = [r EXCEPT !.size = size[i] + q + RecordSize, !.records = @ + 1]
      <4> HIDE DEF r, question
      <4> QED BY <2>3, <2>4, <2>5, <2>6, <2>8, <2>9, <3>1 DEF AppendAnswer, MaxPacket
    <3>3. /\ reply[i + 1].size = size[i + 1] /\ reply[i + 1].full = FALSE
          /\ reply[i + 1].records = r.records + 1
      BY <2>4, <2>8, <3>1, <3>2 DEF Answers
    <3> QED BY <2>7, <3>3
  <2>10. CASE ~Answerable(question)
    <3>1. size[i + 1] = size[i] + q
      BY <2>3, <2>5, <2>10 DEF Needs
    <3>2. reply[i + 1] = [r EXCEPT !.size = size[i] + q]
      <4> HIDE DEF r, question
      <4> QED BY <2>3, <2>4, <2>5, <2>6, <2>8, <2>10 DEF AppendAnswer, MaxPacket
    <3>3. reply[i + 1].size = size[i + 1] /\ reply[i + 1].full = FALSE
      BY <2>4, <2>8, <3>1, <3>2 DEF Answers
    <3> QED BY <2>10, <3>3
  <2> QED BY <2>9, <2>10
<1>6. n \in S
  <2> HIDE DEF S
  <2> QED BY <1>3, <1>4, <1>5, Induction
<1>7. Fits(n)
  BY <1>2, <1>6
<1>8. DOMAIN questions = 1..n
  BY DEF n
<1> QED BY <1>1, <1>2, <1>7, <1>8 DEF n

\* dns_server_task sends no answer that process_dns_request could have made longer:
\* for every query of any number of questions, one that fits the packet is whole.
THEOREM AnswerIsAlwaysWhole == PortalSpec => []AnswerIsWhole
<1>1. RInv => AnswerIsWhole
  <2> SUFFICES ASSUME RInv, NEW t \in Starters, WholeSize(query[t]) <= MaxPacket
               PROVE  LET reply == process_dns_request(query[t])
                      IN  /\ reply.size = WholeSize(query[t])
                          /\ (\A i \in DOMAIN query[t] : Answerable(query[t][i])) =>
                               reply.records = Len(query[t])
    BY DEF AnswerIsWhole
  <2>1. query[t] \in Seq(Questions)
    BY DnsAssumption, EmptySeq DEF RInv, PortalTypeOK, DnsTypeOK
  <2> QED BY <2>1, WholeIsSent
<1> QED BY <1>1, RInvHolds, PTL

=============================================================================
