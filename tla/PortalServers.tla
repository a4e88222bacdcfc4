---------------------------- MODULE PortalServers ----------------------------
(* The two servers of the captive portal on one lwIP socket table, as           *)
(* boot_manager.c and web_portal_init bring them up and delayed_ap_stop_task    *)
(* takes one of them down: the HTTP server first, then the portal, which starts *)
(* the DNS server once; a connection arms the stop, 20 s later. Nothing keeps   *)
(* two tasks from bringing them up at the same time: raced records that two     *)
(* got into each other's way.                                                   *)
EXTENDS HttpServer, DnsServer

ASSUME PortalAssumption == Starters = Callers /\ "event" \in Callers

VARIABLES
  ready,   \* s_portal_initialized
  inside,  \* who is in web_portal_init, past its check
  armed,   \* whether a connection has started delayed_ap_stop_task
  raced    \* history: whether two tasks have been at one server's socket at a time

portalVars == <<ready, inside, armed, raced>>
allVars == <<vars, dnsVars, portalVars>>

PortalTypeOK ==
  /\ TypeOK
  /\ DnsTypeOK
  /\ ready \in BOOLEAN /\ armed \in BOOLEAN /\ raced \in BOOLEAN
  /\ inside \subseteq Callers

PortalInit ==
  /\ Init /\ DnsInit
  /\ ready = FALSE /\ inside = {} /\ armed = FALSE /\ raced = FALSE

\* Two tasks past the check of http_server_init, or of dns_server_start, or a stop that
\* comes before everybody is out of web_portal_init.
Race ==
  \/ \E c, d \in Callers : c # d /\ pc[c] # "idle" /\ pc[d] # "idle"
  \/ \E c, d \in Callers :
       c # d /\ start[c] \notin {"idle", "check"} /\ start[d] \notin {"idle", "check"}
  \/ \E c \in Callers, t \in Stoppers : start[c] # "idle" /\ stop[t] # "idle"

Noted == raced' = (raced \/ Race')

-----------------------------------------------------------------------------
\* web_portal_init in task c, up to its call of dns_server_start. The event task calls
\* it whether the HTTP server came up or not, and the main task if the server said so,
\* which another task may have taken back since.
PortalBegin(c) ==
  /\ pc[c] = "idle" /\ c \notin inside
  /\ ~ready
  /\ StartAt(c, "check")
  /\ inside' = inside \cup {c}
  /\ UNCHANGED <<httpVars, sock, running, socket_fd, stop, dnsTask, waits_on, query, ready, armed>>
  /\ Noted

\* It returns, or there was no address of the access point to resolve names to. A
\* DNS server that did not start is not looked at.
PortalEnd(c) ==
  /\ c \in inside /\ start[c] \in {"idle", "check"}
  /\ StartAt(c, "idle")
  /\ ready' = TRUE
  /\ inside' = inside \ {c}
  /\ UNCHANGED <<httpVars, sock, running, socket_fd, stop, dnsTask, waits_on, query, armed, raced>>

\* The end of boot_manager_on_wifi_connected.
Arm ==
  /\ ready /\ ~armed
  /\ pc["event"] = "idle" /\ "event" \notin inside
  /\ armed' = TRUE
  /\ UNCHANGED <<vars, dnsVars, ready, inside, raced>>

\* delayed_ap_stop_task, after its 20 s.
StopBegin(t) ==
  /\ armed
  /\ StopCheck(t)
  /\ UNCHANGED <<httpVars, ready, inside, armed>>
  /\ Noted

-----------------------------------------------------------------------------
ServerInit(c) ==
  /\ c \notin inside
  /\ http_server_init(c)
  /\ UNCHANGED <<dnsVars, ready, inside, armed>>
  /\ Noted

DnsStart(c) ==
  /\ dns_server_start(c)
  /\ UNCHANGED <<httpVars, ready, inside, armed>>
  /\ Noted

HttpTask(c) == http_server_task(c) /\ UNCHANGED <<dnsVars, portalVars>>

DnsStop(t) == dns_server_stop(t) /\ UNCHANGED <<httpVars, portalVars>>
DnsTask(c) == dns_server_task(c) /\ UNCHANGED <<httpVars, portalVars>>
DnsClient(c) == DnsReceive(c) /\ UNCHANGED <<httpVars, portalVars>>

PortalNext ==
  \/ \E c \in Callers :
       ServerInit(c) \/ PortalBegin(c) \/ PortalEnd(c) \/ DnsStart(c)
         \/ HttpTask(c) \/ DnsTask(c) \/ DnsClient(c)
  \/ Arm
  \/ \E t \in Stoppers : StopBegin(t) \/ DnsStop(t)

\* What the HTTP server's task does without its client: a recv returns after 5 s, and a
\* send of what fits TCP's buffer at once; a longer one needs a client that takes it.
HttpServes(c) ==
  /\ \/ TimeOut(c) \/ Parse(c) \/ Refuse(c) \/ Close(c)
     \/ Taken(c) /\ (Answer(c) \/ HandlerFailed(c))
  /\ UNCHANGED <<dnsVars, portalVars>>

\* The scheduler runs every task that is ready. No client owes a request, a query, the
\* rest of what it began to send, or room for what it is sent.
PortalSpec ==
  /\ PortalInit /\ [][PortalNext]_allVars
  /\ \A c \in Callers : WF_allVars(HttpServes(c)) /\ WF_allVars(DnsTask(c))
  /\ \A t \in Stoppers : WF_allVars(DnsStop(t))

-----------------------------------------------------------------------------
\* As long as no two tasks were in http_server_init at a time, a server that says it is
\* up is up, after any sequence of failed and repeated calls by the tasks that call it,
\* whatever the other server's bring-up does in between. (HttpServer's ServerIsUp itself
\* fails when two are.)
ServerStaysUp == ~raced => ServerIsUp

\* The same for the DNS server: as long as dns_server_start was never in two tasks at a
\* time, nor met a stop, running means a bound socket and one task.
DnsStaysUp == ~raced => DnsIsUp

\* No socket is lost without a race: every one in use is one of the servers' or that of
\* a client being served, whichever error path http_server_init, dns_server_start and
\* handle_client took, and however the HTTP server's bring-up in one task, the DNS
\* server's in another and the stop come between each other.
NoLeak ==
  ~raced =>
    \A fd \in Fds : sock[fd] # "free" =>
      fd \in {server_fd, socket_fd} \cup {client[c] : c \in Callers}

Forgetting ==
  \/ \E c \in Callers : {pc[c], start[c]} \cap {"forget", "forget_all"} # {}
  \/ \E t \in Stoppers : stop[t] = "forget"

\* The servers do not take each other's socket for their own: without a race, what
\* server_fd and socket_fd name is never the same, but for the moment between a close
\* of the one and its -1, in which lwIP may give the number to the other.
OwnSockets ==
  ~raced /\ server_fd = socket_fd /\ server_fd # NoFd => Forgetting

\* A stopped DNS server's task ends, and gives its 3 KB stack back, wherever in its
\* loop it was when dns_server_stop cleared the flag and closed the socket; or some
\* start met another, or the stop.
DnsStops == \A t \in Starters : ~running ~> dnsTask[t] = "none" \/ raced

=============================================================================
