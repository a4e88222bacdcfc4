------------------------------ MODULE DnsServer ------------------------------
(* network/dns_server.c, the captive portal's DNS server: dns_server_start in   *)
(* the task that brings up the portal, dns_server_stop in the tasks that take   *)
(* the access point down, the server's own task between them, and the answer it *)
(* makes of a query. A query is given by its questions, a question by the       *)
(* lengths of its labels, whether a compression pointer ends them, and its type.*)
EXTENDS LwipSockets, Sequences

CONSTANTS
  Starters,  \* the tasks that call dns_server_start
  Stoppers,  \* the tasks that call dns_server_stop, once each
  Queries    \* what clients ask

Questions == [labels : Seq(Nat), pointer : BOOLEAN, type : {"A", "AAAA", "other"}]

ASSUME DnsAssumption == Queries \subseteq Seq(Questions)

VARIABLES
  running,    \* s_dns.running
  socket_fd,  \* s_dns.socket_fd
  start,      \* where each starter is in dns_server_start
  stop,       \* where each stopper is in dns_server_stop
  dnsTask,    \* where the dns_server_task that each starter created is
  waits_on,   \* the socket that it has called recvfrom with
  query       \* the query it works on

dnsVars == <<running, socket_fd, start, stop, dnsTask, waits_on, query>>

DnsTypeOK ==
  /\ running \in BOOLEAN
  /\ socket_fd \in Fds \cup {NoFd}
  /\ start \in [Starters -> {"idle", "check", "socket", "bind", "create", "fail", "forget",
                             "no_task", "forget_all", "unflag"}]
  /\ stop \in [Stoppers -> {"idle", "close", "forget", "done"}]
  /\ dnsTask \in [Starters -> {"none", "loop", "call", "recv", "send", "pause"}]
  /\ waits_on \in [Starters -> Fds \cup {NoFd}]
  /\ query \in [Starters -> Queries \cup {<<>>}]

\* socket_fd starts as 0, which is no lwIP socket.
DnsInit ==
  /\ running = FALSE /\ socket_fd = NoFd
  /\ start = [t \in Starters |-> "idle"]
  /\ stop = [t \in Stoppers |-> "idle"]
  /\ dnsTask = [t \in Starters |-> "none"]
  /\ waits_on = [t \in Starters |-> NoFd]
  /\ query = [t \in Starters |-> <<>>]

-----------------------------------------------------------------------------
\* process_dns_request

HeaderSize == 12
RecordSize == 16
MaxPacket == 512  \* DNS_MAX_PACKET_SIZE

\* parse_dns_name: where a name ends, for a packet that holds all of it and a name of
\* at most 255 bytes, with labels of 1 to 63. (One cut short or longer is not followed.)
NameSize(question) ==
  LET size[i \in 0..Len(question.labels)] ==
        IF i = 0 THEN IF question.pointer THEN 2 ELSE 1
                 ELSE size[i - 1] + 1 + question.labels[i]
  IN  size[Len(question.labels)]

\* The name, QTYPE and QCLASS.
QuestionSize(question) == NameSize(question) + 4

\* DNS_CLASS_IN is the only class.
Answerable(question) == question.type \in {"A", "AAAA"}

NoReply == [size |-> HeaderSize, records |-> 0, full |-> FALSE]

\* Fault: room for one byte more than the record.
FaultyAppendAnswer(reply, question) ==
  LET copied == reply.size + QuestionSize(question)
  IN  IF reply.full \/ copied > MaxPacket THEN [reply EXCEPT !.full = TRUE]
      ELSE IF ~Answerable(question) THEN [reply EXCEPT !.size = copied]
      ELSE IF copied + RecordSize >= MaxPacket THEN [reply EXCEPT !.size = copied, !.full = TRUE]
      ELSE [reply EXCEPT !.size = copied + RecordSize, !.records = @ + 1]

\* One round of the loop: the question copied, then a record for it, of which the
\* code's check of the room counts 12 bytes.
AppendAnswer(reply, question) ==
  LET copied == reply.size + QuestionSize(question)
  IN  IF reply.full \/ copied > MaxPacket THEN [reply EXCEPT !.full = TRUE]
      ELSE IF ~Answerable(question) THEN [reply EXCEPT !.size = copied]
      ELSE IF copied + 12 > MaxPacket THEN [reply EXCEPT !.size = copied, !.full = TRUE]
      ELSE [reply EXCEPT !.size = copied + RecordSize, !.records = @ + 1]

\* The answer; its header counts as many records as there are questions.
process_dns_request(questions) ==
  LET reply[q \in 0..Len(questions)] ==
        IF q = 0 THEN NoReply ELSE AppendAnswer(reply[q - 1], questions[q])
  IN  reply[Len(questions)]

-----------------------------------------------------------------------------
\* dns_server_start, in task t

StartAt(t, label) == start' = [start EXCEPT ![t] = label]

\* On a server that runs it returns at once. The address is the access point's own
\* and always valid.
StartCheck(t) ==
  /\ start[t] = "check"
  /\ StartAt(t, IF running THEN "idle" ELSE "socket")
  /\ UNCHANGED <<sock, running, socket_fd, stop, dnsTask, waits_on, query>>

StartSocket(t) ==
  /\ start[t] = "socket"
  /\ \/ \E fd \in Fds :
          /\ NextFree(fd)
          /\ Becomes(fd, "udp")
          /\ socket_fd' = fd
          /\ StartAt(t, "bind")
     \/ socket_fd' = NoFd /\ StartAt(t, "idle") /\ UNCHANGED sock
  /\ UNCHANGED <<running, stop, dnsTask, waits_on, query>>

\* Fault: the socket that cannot be bound not closed.
FaultyStartBind(t) ==
  /\ start[t] = "bind"
  /\ \/ Is(socket_fd, "udp") /\ Becomes(socket_fd, "dns") /\ StartAt(t, "create")
     \/ StartAt(t, "forget") /\ UNCHANGED sock
  /\ UNCHANGED <<running, socket_fd, stop, dnsTask, waits_on, query>>

StartBind(t) ==
  /\ start[t] = "bind"
  /\ \/ Is(socket_fd, "udp") /\ Becomes(socket_fd, "dns") /\ StartAt(t, "create")
     \/ StartAt(t, "fail") /\ UNCHANGED sock
  /\ UNCHANGED <<running, socket_fd, stop, dnsTask, waits_on, query>>

\* The flag, then the task that looks at it.
StartCreate(t) ==
  /\ start[t] = "create"
  /\ running' = TRUE
  /\ \/ dnsTask[t] = "none" /\ dnsTask' = [dnsTask EXCEPT ![t] = "loop"] /\ StartAt(t, "idle")
     \/ StartAt(t, "no_task") /\ UNCHANGED dnsTask
  /\ UNCHANGED <<sock, socket_fd, stop, waits_on, query>>

\* bind or xTaskCreate failed.
StartClose(t) ==
  /\ start[t] \in {"fail", "no_task"}
  /\ close(socket_fd)
  /\ StartAt(t, IF start[t] = "fail" THEN "forget" ELSE "forget_all")
  /\ UNCHANGED <<running, socket_fd, stop, dnsTask, waits_on, query>>

\* Fault: the flag stays when there is no task.
FaultyStartForget(t) ==
  /\ start[t] \in {"forget", "forget_all"}
  /\ socket_fd' = NoFd
  /\ StartAt(t, "idle")
  /\ UNCHANGED <<sock, running, stop, dnsTask, waits_on, query>>

StartForget(t) ==
  /\ start[t] \in {"forget", "forget_all"}
  /\ socket_fd' = NoFd
  /\ StartAt(t, IF start[t] = "forget" THEN "idle" ELSE "unflag")
  /\ UNCHANGED <<sock, running, stop, dnsTask, waits_on, query>>

\* xTaskCreate failed: the flag last.
StartUnflag(t) ==
  /\ start[t] = "unflag"
  /\ running' = FALSE
  /\ StartAt(t, "idle")
  /\ UNCHANGED <<sock, socket_fd, stop, dnsTask, waits_on, query>>

StartFail(t) == StartClose(t) \/ StartForget(t) \/ StartUnflag(t)

dns_server_start(t) ==
  StartCheck(t) \/ StartSocket(t) \/ StartBind(t) \/ StartCreate(t) \/ StartFail(t)

-----------------------------------------------------------------------------
\* dns_server_stop, in task t

StopAt(t, label) == stop' = [stop EXCEPT ![t] = label]

StopCheck(t) ==
  /\ stop[t] = "idle"
  /\ running' = FALSE
  /\ StopAt(t, IF running THEN "close" ELSE "done")
  /\ UNCHANGED <<sock, socket_fd, start, dnsTask, waits_on, query>>

\* Fault: the number forgotten without a close, which the task in recvfrom waits for.
FaultyStopClose(t) ==
  /\ stop[t] = "close"
  /\ StopAt(t, "forget")
  /\ UNCHANGED <<sock, running, socket_fd, start, dnsTask, waits_on, query>>

\* The close unblocks recvfrom; the number is forgotten after it.
StopClose(t) ==
  /\ stop[t] = "close"
  /\ close(socket_fd)
  /\ StopAt(t, "forget")
  /\ UNCHANGED <<running, socket_fd, start, dnsTask, waits_on, query>>

\* Fault: the number kept.
FaultyStopForget(t) ==
  /\ stop[t] = "forget"
  /\ StopAt(t, "done")
  /\ UNCHANGED <<sock, running, socket_fd, start, dnsTask, waits_on, query>>

\* Then at most 100 ms of waiting, which change nothing.
StopForget(t) ==
  /\ stop[t] = "forget"
  /\ socket_fd' = NoFd
  /\ StopAt(t, "done")
  /\ UNCHANGED <<sock, running, start, dnsTask, waits_on, query>>

dns_server_stop(t) == StopClose(t) \/ StopForget(t)

-----------------------------------------------------------------------------
\* dns_server_task, the one that t created

DnsAt(t, label) == dnsTask' = [dnsTask EXCEPT ![t] = label]

DnsLoop(t) ==
  /\ dnsTask[t] = "loop"
  /\ DnsAt(t, IF running THEN "call" ELSE "none")
  /\ UNCHANGED <<sock, running, socket_fd, start, stop, waits_on, query>>

\* recvfrom, on what socket_fd names by now.
DnsCall(t) ==
  /\ dnsTask[t] = "call"
  /\ waits_on' = [waits_on EXCEPT ![t] = socket_fd]
  /\ DnsAt(t, "recv")
  /\ UNCHANGED <<sock, running, socket_fd, start, stop, query>>

\* A client asks.
DnsReceive(t) ==
  /\ dnsTask[t] = "recv"
  /\ Is(waits_on[t], "dns")
  /\ \E q \in Queries : query' = [query EXCEPT ![t] = q]
  /\ DnsAt(t, "send")
  /\ waits_on' = [waits_on EXCEPT ![t] = NoFd]
  /\ UNCHANGED <<sock, running, socket_fd, start, stop>>

\* recvfrom fails: the socket was closed. While the flag is set it is retried.
DnsError(t) ==
  /\ dnsTask[t] = "recv"
  /\ ~Is(waits_on[t], "dns")
  /\ DnsAt(t, IF running THEN "pause" ELSE "loop")
  /\ waits_on' = [waits_on EXCEPT ![t] = NoFd]
  /\ UNCHANGED <<sock, running, socket_fd, start, stop, query>>

\* The answer goes out on whatever socket_fd names by now, or fails; 100 ms pass.
DnsSend(t) ==
  /\ dnsTask[t] \in {"send", "pause"}
  /\ DnsAt(t, "loop")
  /\ query' = [query EXCEPT ![t] = <<>>]
  /\ UNCHANGED <<sock, running, socket_fd, start, stop, waits_on>>

\* What it does without a client.
dns_server_task(t) == DnsLoop(t) \/ DnsCall(t) \/ DnsError(t) \/ DnsSend(t)

-----------------------------------------------------------------------------
\* A DNS server that says it runs has its bound socket and exactly one task, whichever
\* step of dns_server_start failed before, when no task is in it.
DnsIsUp ==
  running /\ (\A t \in Starters : start[t] \in {"idle", "check"}) =>
    Is(socket_fd, "dns") /\ Cardinality({t \in Starters : dnsTask[t] # "none"}) = 1

\* All that an answer can hold: the questions, and a record for each that asks for
\* an address.
WholeSize(questions) ==
  LET size[q \in 0..Len(questions)] ==
        IF q = 0 THEN HeaderSize
        ELSE size[q - 1] + QuestionSize(questions[q])
               + (IF Answerable(questions[q]) THEN RecordSize ELSE 0)
  IN  size[Len(questions)]

\* An answer that fits the packet is sent whole, with the count of records that its
\* header promises: process_dns_request stops at the room's end and not before.
AnswerIsWhole ==
  \A t \in Starters : dnsTask[t] = "send" /\ WholeSize(query[t]) <= MaxPacket =>
    LET reply == process_dns_request(query[t])
    IN  /\ reply.size = WholeSize(query[t])
        /\ (\A i \in DOMAIN query[t] : Answerable(query[t][i])) => reply.records = Len(query[t])

=============================================================================
