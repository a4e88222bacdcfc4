------------------------------ MODULE RouteTable ------------------------------
(* The route table of network/http_server.c, filled by web_portal_init          *)
(* (ui/web_portal.c) in the main and the event task and searched by the         *)
(* server's task, slot by slot and without a lock. The main and the event task  *)
(* share a core and the event task has the higher priority: it may interrupt    *)
(* the main task at any step, and then registers all its routes before the main *)
(* task goes on. The server's task may run on the other core.                   *)
EXTENDS Integers, Sequences, FiniteSets

CONSTANTS
  Portal,  \* the routes web_portal_init registers, in its order: 14 in the code
  SLOTS,   \* HTTP_MAX_ROUTES, 16 in the code
  Others   \* routes nobody registers, which clients ask for

Routes == {Portal[n] : n \in 1..Len(Portal)}
Slots == 1..SLOTS

\* One slot more than there are routes.
ASSUME RouteAssumption ==
  /\ Portal \in Seq(STRING) /\ Len(Portal) > 0
  /\ \A m, n \in 1..Len(Portal) : Portal[m] = Portal[n] => m = n
  /\ SLOTS \in Nat /\ SLOTS > Len(Portal)
  /\ Others \cap Routes = {} /\ "none" \notin Routes \cup Others

VARIABLES
  slot,      \* s_server.routes: method and path as one route, and active
  ready,     \* s_portal_initialized
  pc,        \* where each caller is in web_portal_init
  n,         \* which of the routes it registers
  at,        \* the slot it looks at
  reader,    \* find_route in the server's task
  lookup     \* the route find_route was called for and what it returned; history:
             \* whether the route was registered at the call

vars == <<slot, ready, pc, n, at, reader, lookup>>

Callers == {"main", "event"}
Empty == [route |-> "none", active |-> FALSE]
NoLookup == [route |-> "none", known |-> FALSE, answer |-> "none"]

TypeOK ==
  /\ slot \in [Slots -> [route : Routes \cup {"none"}, active : BOOLEAN]]
  /\ ready \in BOOLEAN
  /\ pc \in [Callers -> {"idle", "same", "free", "write", "activate", "dns", "full"}]
  /\ n \in [Callers -> 1..Len(Portal)]
  /\ at \in [Callers -> Slots]
  /\ reader \in [pc : {"idle", "scan"}, at : Slots]
  /\ lookup \in [route : Routes \cup Others \cup {"none"}, known : BOOLEAN,
                 answer : {"none", "pending", "found", "NULL"}]

Init ==
  /\ slot = [i \in Slots |-> Empty]
  /\ ready = FALSE
  /\ pc = [c \in Callers |-> "idle"]
  /\ n = [c \in Callers |-> 1] /\ at = [c \in Callers |-> 1]
  /\ reader = [pc |-> "idle", at |-> 1]
  /\ lookup = NoLookup

Registering == {"same", "free", "write", "activate"}

\* The scheduler: while the event task registers, the main task does not run.
MayRun(c) == c = "event" \/ pc["event"] \notin Registering

Goto(c, label) == pc' = [pc EXCEPT ![c] = label]

\* The slot looked at holds route r; the route r is in the table.
Matches(i, r) == slot[i].active /\ slot[i].route = r
Registered == {slot[i].route : i \in {j \in Slots : slot[j].active}}

-----------------------------------------------------------------------------
\* web_portal_init and http_server_register_handler, in task c

PortalInit(c) ==
  /\ pc[c] = "idle" /\ MayRun(c)
  /\ ~ready
  /\ Goto(c, "same")
  /\ n' = [n EXCEPT ![c] = 1] /\ at' = [at EXCEPT ![c] = 1]
  /\ UNCHANGED <<slot, ready, reader, lookup>>

\* Fault: off by one, the last route is left out.
FaultyNextRoute(c) ==
  /\ IF n[c] + 1 < Len(Portal)
     THEN Goto(c, "same") /\ n' = [n EXCEPT ![c] = @ + 1]
     ELSE Goto(c, "dns") /\ UNCHANGED n
  /\ at' = [at EXCEPT ![c] = 1]

\* On to the next route, or to the DNS server after the last one.
NextRoute(c) ==
  /\ IF n[c] < Len(Portal)
     THEN Goto(c, "same") /\ n' = [n EXCEPT ![c] = @ + 1]
     ELSE Goto(c, "dns") /\ UNCHANGED n
  /\ at' = [at EXCEPT ![c] = 1]

\* Fault: a registration never looks for an older one.
FaultyFindSame(c) ==
  /\ pc[c] = "same" /\ MayRun(c)
  /\ Goto(c, "free") /\ at' = [at EXCEPT ![c] = 1] /\ UNCHANGED n
  /\ UNCHANGED <<slot, ready, reader, lookup>>

\* Is the route registered already? Then its handler is replaced by the same.
FindSame(c) ==
  /\ pc[c] = "same" /\ MayRun(c)
  /\ IF Matches(at[c], Portal[n[c]]) THEN NextRoute(c)
     ELSE IF at[c] < SLOTS
       THEN at' = [at EXCEPT ![c] = @ + 1] /\ UNCHANGED <<pc, n>>
       ELSE Goto(c, "free") /\ at' = [at EXCEPT ![c] = 1] /\ UNCHANGED n
  /\ UNCHANGED <<slot, ready, reader, lookup>>

FindFree(c) ==
  /\ pc[c] = "free" /\ MayRun(c)
  /\ IF ~slot[at[c]].active THEN Goto(c, "write") /\ UNCHANGED at
     ELSE IF at[c] < SLOTS
       THEN at' = [at EXCEPT ![c] = @ + 1] /\ UNCHANGED pc
       ELSE Goto(c, "full") /\ UNCHANGED at
  /\ UNCHANGED <<slot, ready, n, reader, lookup>>

\* Fault: the flag before the route.
FaultyWriteRoute(c) ==
  /\ pc[c] = "write" /\ MayRun(c)
  /\ slot' = [slot EXCEPT ![at[c]].active = TRUE]
  /\ Goto(c, "activate")
  /\ UNCHANGED <<ready, n, at, reader, lookup>>

WriteRoute(c) ==
  /\ pc[c] = "write" /\ MayRun(c)
  /\ slot' = [slot EXCEPT ![at[c]].route = Portal[n[c]]]
  /\ Goto(c, "activate")
  /\ UNCHANGED <<ready, n, at, reader, lookup>>

Activate(c) ==
  /\ pc[c] = "activate" /\ MayRun(c)
  /\ slot' = [slot EXCEPT ![at[c]].active = TRUE]
  /\ NextRoute(c)
  /\ UNCHANGED <<ready, reader, lookup>>

http_server_register_handler(c) == FindSame(c) \/ FindFree(c) \/ WriteRoute(c) \/ Activate(c)

\* dns_server_start waits for the TCP/IP task; then the flag.
PortalDone(c) ==
  /\ pc[c] = "dns" /\ MayRun(c)
  /\ ready' = TRUE
  /\ Goto(c, "idle")
  /\ UNCHANGED <<slot, n, at, reader, lookup>>

web_portal_init(c) == PortalInit(c) \/ http_server_register_handler(c) \/ PortalDone(c)

-----------------------------------------------------------------------------
\* find_route, in the server's task

FindStart(r) ==
  /\ reader.pc = "idle"
  /\ reader' = [pc |-> "scan", at |-> 1]
  /\ lookup' = [route |-> r, known |-> r \in Registered, answer |-> "pending"]
  /\ UNCHANGED <<slot, ready, pc, n, at>>

\* Fault: one slot too far.
FaultyFindNext ==
  /\ reader.pc = "scan"
  /\ ~Matches(reader.at, lookup.route) /\ reader.at <= SLOTS
  /\ reader' = [reader EXCEPT !.at = @ + 1]
  /\ UNCHANGED <<slot, ready, pc, n, at, lookup>>

FindNext ==
  /\ reader.pc = "scan"
  /\ ~Matches(reader.at, lookup.route) /\ reader.at < SLOTS
  /\ reader' = [reader EXCEPT !.at = @ + 1]
  /\ UNCHANGED <<slot, ready, pc, n, at, lookup>>

FindEnd ==
  /\ reader.pc = "scan"
  /\ LET found == Matches(reader.at, lookup.route)
     IN /\ found \/ reader.at = SLOTS
        /\ lookup' = [lookup EXCEPT !.answer = IF found THEN "found" ELSE "NULL"]
  /\ reader' = [pc |-> "idle", at |-> 1]
  /\ UNCHANGED <<slot, ready, pc, n, at>>

find_route == (\E r \in Routes \cup Others : FindStart(r)) \/ FindNext \/ FindEnd

-----------------------------------------------------------------------------
Next == (\E c \in Callers : web_portal_init(c)) \/ find_route

Spec == Init /\ [][Next]_vars

-----------------------------------------------------------------------------
\* The table never fills up (http_server_register_handler's ESP_ERR_NO_MEM, on
\* which enter_provisioning_mode goes to ERROR): two tasks that register the
\* same routes in the same order leave at most one slot taken twice.
NeverFull == \A c \in Callers : pc[c] # "full"

\* Once the portal counts as initialized, and web_portal_init does nothing any
\* more, every one of its routes is in the table for good.
PortalIsServed == ready => Routes \subseteq Registered

\* The slots that are active are the map.
Map == INSTANCE RouteMap WITH Routes <- Routes \cup Others, registered <- Registered

\* A look-up that runs beside registrations answers as one in the map would: it
\* finds a route that was there before, and no step loses a registered route or
\* puts one in the table with half of its fields (find_route,
\* http_server_register_handler).
RefinesMap == Map!Spec

=============================================================================
