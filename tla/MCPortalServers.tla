--------------------------- MODULE MCPortalServers ---------------------------
(* A portal whose page has two fields, and the clients of its two servers.      *)
EXTENDS PortalServers

Ssid == <<115>>
Password == <<112>>

\* A request that announces its body by so many bytes too many.
Announced(line, head, form, over) ==
  [line |-> line, head |-> head, form |-> form, body |-> Body(form),
   length |-> Len(Body(form)) + over, takes |-> TRUE]

MCRequest(line, head, form) == Announced(line, head, form, 0)

Form(ssid, password) == <<[key |-> Ssid, value |-> ssid], [key |-> Password, value |-> password]>>

\* What a decoder could take apart, one body longer than the buffer, one value
\* longer than its field, one form longer than the table.
MCForms ==
  {Form(<<97>>, <<Ampersand, Equals>>), Form(<<Percent, 97>>, <<>>),
   Form(<<195, 164>>, <<Space>>), Form(<<>>, <<97, 97, 97>>),
   Form(<<97>>, <<98>>) \o <<[key |-> <<113>>, value |-> <<99>>]>>}

\* One head is longer than the buffer, one body shorter than announced, one longer; one
\* client reads nothing.
MCRequests ==
  {MCRequest(line, 2, <<>>) : line \in {"invalid", "options", "routed"}}
    \cup {MCRequest("routed", 2, form) : form \in MCForms}
    \cup {MCRequest("unrouted", 15, <<>>)}
    \cup {Announced("routed", 2, Form(<<97>>, <<98>>), over) : over \in {3, 99}}
    \cup {[Announced("routed", 2, Form(<<97>>, <<98>>), 0) EXCEPT !.length = 4, !.takes = FALSE]}

Short == [labels |-> <<1>>, pointer |-> FALSE, type |-> "A"]
Text == [labels |-> <<3, 2>>, pointer |-> TRUE, type |-> "other"]
Long == [labels |-> <<63, 63, 63, 36>>, pointer |-> FALSE, type |-> "AAAA"]

\* Two Long questions and their records fill 512 bytes.
MCQueries == {<<Short>>, <<Text>>, <<Long, Long>>, <<Short, Text, Short>>, <<Long, Long, Short>>}

\* The clients that come while only the sockets matter.
MCPlain == MCRequest("routed", 1, <<>>)
MCAllRequests == MCRequests \cup {MCPlain}

PlainRequests == \A c \in Callers : request[c] \in {NoRequest, MCPlain}
PlainQueries == \A t \in Starters : query[t] \in {<<>>, <<Short>>}

\* The main task has not been here, nor a race.
EventAlone ==
  /\ ~raced /\ "main" \notin inside
  /\ pc["main"] = "idle" /\ task["main"] = "none"
  /\ start["main"] = "idle" /\ dnsTask["main"] = "none"

\* Which behaviours the run follows. Whoever brings the servers up, plain clients come;
\* the others come to a portal that the event task has brought up alone, and not to
\* both servers at a time. What follows a race is followed as long as only the HTTP
\* server is up: every property of the run but those of clients and types speaks of
\* what comes before.
Followed ==
  /\ PlainRequests \/ PlainQueries
  /\ EventAlone \/ (PlainRequests /\ PlainQueries)
  /\ raced => ~ready /\ inside = {}

=============================================================================
