------------------------------- MODULE RouteMap -------------------------------
(* What the route table of network/http_server.c promises, without its slots:   *)
(* routes are only ever added, and a look-up that runs beside a registration    *)
(* finds every route that was there when it began, and none that is not there.  *)
CONSTANT Routes

VARIABLES
  registered,  \* the routes that have a handler
  lookup       \* the last look-up: its route, whether it was registered when the
               \* look-up began, and what came of it

NoLookup == [route |-> "none", known |-> FALSE, answer |-> "none"]

Init == registered = {} /\ lookup = NoLookup

\* http_server_register_handler
Register(r) ==
  /\ registered' = registered \cup {r}
  /\ UNCHANGED lookup

\* find_route is called for a route, registered or not ...
Ask(r) ==
  /\ lookup.answer # "pending"
  /\ lookup' = [route |-> r, known |-> r \in registered, answer |-> "pending"]
  /\ UNCHANGED registered

\* ... and returns it or NULL.
Answer(found) ==
  /\ lookup.answer = "pending"
  /\ lookup.known => found
  /\ found => lookup.route \in registered
  /\ lookup' = [lookup EXCEPT !.answer = IF found THEN "found" ELSE "NULL"]
  /\ UNCHANGED registered

Next ==
  \/ \E r \in Routes : Register(r) \/ Ask(r)
  \/ \E found \in BOOLEAN : Answer(found)

Spec == Init /\ [][Next]_<<registered, lookup>>

=============================================================================
