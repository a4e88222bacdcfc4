-------------------------- MODULE BootManagerProofs --------------------------
(* Proofs about BootManager, and BootLed beside it, for every time-out, number  *)
(* of retries and timers, length of the event queue, set of faults and timing.  *)
EXTENDS BootLed, WifiManagerProofs, TLAPS

\* Past the test and the setting of provisioning_entered.
Inside == Entering \ {"enter", "enter_set"}

IInv ==
  /\ pc \in [Tasks -> Labels]
  /\ entered \in BOOLEAN /\ server \in BOOLEAN /\ portal \in BOOLEAN
  \* The HTTP task runs only once the server was started ...
  /\ server \/ pc["http"] \in {"off", "gone"}
  \* ... and the routes are registered only after that.
  /\ \A t \in Tasks : pc[t] = "enter_portal" => server
  /\ \A t \in Tasks : pc[t] \in Inside => entered
  /\ ConnectingIsDriven
  /\ phase = "PROVISIONING" =>
       (server /\ portal) \/ \E t \in Tasks : pc[t] \in Inside

\* The label a task returns to is outside both functions.
LEMMA HomeLabel ==
  ASSUME NEW t \in Tasks
  PROVE  Home(t) \in {"loop", "serve", "wait"} /\ Home(t) \in Labels
         /\ Home(t) \notin Connecting \cup Entering
BY DEF Home, Tasks, Labels, Connecting, Entering

\* A step that moves one task, and may set the phase and the portal's flag,
\* preserves the invariant if the task leaves neither function without its work
\* done and the phase is set only with that work done or ahead of the task.
LEMMA Move ==
  ASSUME IInv, NEW t \in Tasks, NEW label \in Labels,
         Goto(t, label), UNCHANGED <<entered, server>>,
         portal' \in BOOLEAN, portal => portal',
         label \in Inside => entered,
         label = "enter_portal" => server,
         t # "http" \/ server,
         phase' = "CONNECTING" /\ ~entered =>
           \/ label \in Connecting \cup Entering
           \/ phase = "CONNECTING" /\ pc[t] \notin Connecting \cup Entering,
         phase' = "PROVISIONING" =>
           \/ label \in Inside \/ (server /\ portal')
           \/ phase = "PROVISIONING" /\ pc[t] \notin Inside
  PROVE  IInv'
<1>1. pc' = [pc EXCEPT ![t] = label] /\ pc \in [Tasks -> Labels]
  BY DEF Goto, IInv
<1>2. /\ pc' \in [Tasks -> Labels]
      /\ pc'[t] = label
      /\ \A u \in Tasks \ {t} : pc'[u] = pc[u]
  BY <1>1
<1>3. entered' \in BOOLEAN /\ server' \in BOOLEAN
  BY DEF IInv
<1>4. server' \/ pc'["http"] \in {"off", "gone"}
  BY <1>2 DEF IInv, Tasks
<1>5. /\ \A u \in Tasks : pc'[u] = "enter_portal" => server'
      /\ \A u \in Tasks : pc'[u] \in Inside => entered'
  BY <1>2 DEF IInv
<1>6. ConnectingIsDriven'
  BY <1>2 DEF IInv, ConnectingIsDriven
<1>7. (phase = "PROVISIONING" =>
        (server /\ portal) \/ \E u \in Tasks : pc[u] \in Inside)'
  BY <1>2 DEF IInv
<1> QED BY <1>2, <1>3, <1>4, <1>5, <1>6, <1>7 DEF IInv

\* No step of a task that touches neither its place nor the flags matters.
LEMMA Stutter ==
  ASSUME IInv, UNCHANGED <<phase, entered, pc, server, portal>>
  PROVE  IInv'
BY DEF IInv, ConnectingIsDriven

\* Where the tasks are after a reset of the chip, and after the handoff.
LEMMA FreshLabels ==
  ASSUME NEW newPc \in {FreshPc, [t \in Tasks |-> "gone"]}
  PROVE  /\ newPc \in [Tasks -> Labels]
         /\ newPc["http"] \in {"off", "gone"}
         /\ \A t \in Tasks : newPc[t] \notin Connecting \cup Entering
<1>1. \A t \in Tasks : newPc[t] \in {"start", "off", "wait", "gone"}
  BY DEF FreshPc, Tasks
<1>2. newPc["http"] \in {"off", "gone"} /\ newPc = [t \in Tasks |-> newPc[t]]
  BY DEF FreshPc, Tasks
<1>3. \A l \in {"start", "off", "wait", "gone"} : l \in Labels /\ l \notin Connecting \cup Entering
  BY DEF Labels, Connecting, Entering
<1> QED BY <1>1, <1>2, <1>3

LEMMA InitInvariant == Init => IInv
<1>1. FreshPc \in {FreshPc, [t \in Tasks |-> "gone"]}
  OBVIOUS
<1> QED
  BY <1>1, FreshLabels DEF Init, IInv, Inside, ConnectingIsDriven, Entering

\* A reset of the chip starts over.
LEMMA ResetStep ==
  ASSUME NEW newPc \in {FreshPc, [t \in Tasks |-> "gone"]}, Reset(newPc)
  PROVE  IInv'
BY FreshLabels DEF Reset, IInv, Inside, ConnectingIsDriven, Entering

\* http_server_init keeps the invariant in the two functions that call it.
LEMMA ServerStep ==
  ASSUME IInv, NEW t \in Tasks, NEW ok \in Labels, NEW failed \in Labels,
         http_server_init(t, ok, failed), UNCHANGED <<phase, entered, portal>>,
         t # "http" \/ server,
         \/ /\ pc[t] \in Inside /\ ok \in Inside /\ failed \in Inside \ {"enter_portal"}
         \/ /\ pc[t] \notin Connecting \cup Entering
            /\ ok \notin Entering /\ failed \notin Entering
  PROVE  IInv'
<1>1. CASE server /\ Goto(t, ok) /\ UNCHANGED server
  <2> QED BY <1>1, Move DEF IInv, Inside, Entering
<1>2. CASE ~server /\ Goto(t, failed) /\ UNCHANGED server
  <2> QED BY <1>2, Move DEF IInv, Inside, Entering
<1>3. CASE /\ ~server /\ server' = TRUE
           /\ pc' = [pc EXCEPT ![t] = ok, !["http"] = "serve"]
  <2>1. t # "http" /\ pc["http"] \in {"off", "gone"} /\ pc \in [Tasks -> Labels]
    BY <1>3 DEF IInv
  <2>2. /\ pc' \in [Tasks -> Labels]
        /\ pc'[t] = ok /\ pc'["http"] = "serve"
        /\ \A u \in Tasks \ {t, "http"} : pc'[u] = pc[u]
    BY <1>3, <2>1 DEF Tasks, Labels
  <2>3. {"off", "gone", "serve"} \cap (Connecting \cup Entering) = {}
    BY DEF Connecting, Entering
  <2>4. \A u \in Tasks : pc'[u] \in Inside => entered'
    BY <2>2, <2>3 DEF IInv, Inside, Entering
  <2>5. ConnectingIsDriven'
    BY <1>3, <2>1, <2>2, <2>3 DEF IInv, ConnectingIsDriven, Inside
  <2>6. phase' = "PROVISIONING" =>
          (server' /\ portal') \/ \E u \in Tasks : pc'[u] \in Inside
    BY <1>3, <2>1, <2>2, <2>3 DEF IInv, Inside
  <2> QED BY <1>3, <2>2, <2>4, <2>5, <2>6 DEF IInv
<1> QED BY <1>1, <1>2, <1>3 DEF http_server_init

-----------------------------------------------------------------------------
\* The steps

LEMMA HttpRuns == IInv /\ pc["http"] \notin {"off", "gone"} => server
BY DEF IInv

LEMMA EnterStep ==
  ASSUME IInv, NEW t \in Tasks, enter_provisioning_mode(t)
  PROVE  IInv'
<1> USE HomeLabel, HttpRuns
<1>1. CASE EnterCheck(t)
  BY <1>1, Move DEF EnterCheck, IInv, Inside, Entering, Labels
<1>2. CASE EnterSet(t)
  <2>1. /\ pc' = [pc EXCEPT ![t] = "enter_ap"] /\ pc \in [Tasks -> Labels]
        /\ entered' = TRUE /\ phase' = "PROVISIONING" /\ UNCHANGED <<server, portal>>
        /\ pc[t] = "enter_set"
    BY <1>2 DEF EnterSet, Goto, IInv
  <2>2. "enter_ap" \in Labels /\ "enter_ap" \in Inside /\ "enter_ap" # "enter_portal"
    BY DEF Labels, Inside, Entering
  <2>3. pc'[t] = "enter_ap" /\ pc' \in [Tasks -> Labels] /\ \A u \in Tasks \ {t} : pc'[u] = pc[u]
    BY <2>1, <2>2
  <2>4. server' \/ pc'["http"] \in {"off", "gone"}
    BY <2>1, <2>3 DEF IInv, Tasks
  <2> QED BY <2>1, <2>2, <2>3, <2>4 DEF IInv, ConnectingIsDriven
<1>3. CASE EnterAp(t)
  BY <1>3, Move DEF EnterAp, IInv, Inside, Entering, Labels
<1>4. CASE EnterHttp(t)
  BY <1>4, ServerStep DEF EnterHttp, Inside, Entering, Labels
<1>5. CASE EnterPortal(t)
  BY <1>5, Move DEF EnterPortal, web_portal_init, PortalUp, IInv, Inside, Entering, Labels
<1>6. CASE EnterError(t)
  BY <1>6, Move DEF EnterError, IInv, Inside, Entering, Labels
<1> QED BY <1>1, <1>2, <1>3, <1>4, <1>5, <1>6 DEF enter_provisioning_mode

LEMMA ConnectStep ==
  ASSUME IInv, NEW t \in Tasks, start_wifi_connection(t)
  PROVE  IInv'
<1> USE HomeLabel, HttpRuns
<1>1. CASE ConnBegin(t)
  BY <1>1, Move DEF ConnBegin, NoCredentials, IInv, Inside, Entering, Connecting, Labels
<1>2. CASE ConnDriver(t)
  BY <1>2, Move DEF ConnDriver, IInv, Inside, Entering, Connecting, Labels
<1>3. CASE Poll(t)
  BY <1>3, Move DEF Poll, IInv, Inside, Entering, Connecting, Labels
<1>4. CASE Sleep(t)
  BY <1>4, Move DEF Sleep, IInv, Inside, Entering, Connecting, Labels
<1>5. CASE Timeout(t)
  BY <1>5, Move DEF Timeout, IInv, Inside, Entering, Connecting, Labels
<1> QED BY <1>1, <1>2, <1>3, <1>4, <1>5 DEF start_wifi_connection

LEMMA StartStep ==
  ASSUME IInv, boot_manager_start
  PROVE  IInv'
<1>1. "main" \in Tasks /\ "main" # "http"
  BY DEF Tasks
<1>2. CASE CheckReset
  BY <1>1, <1>2, Move DEF CheckReset, IInv, Inside, Entering, Labels
<1>3. CASE InitWifi
  BY <1>1, <1>3, Move DEF InitWifi, IInv, Inside, Entering, Labels
<1>4. CASE load_configuration
  BY <1>1, <1>4, Move DEF load_configuration, IInv, Inside, Entering, Connecting, Labels
<1> QED BY <1>2, <1>3, <1>4 DEF boot_manager_start

LEMMA HttpRequestStep ==
  ASSUME IInv, HttpRequests
  PROVE  IInv'
<1> USE HttpRuns
<1>1. "http" \in Tasks
  BY DEF Tasks
<1>2. CASE Submit
  BY <1>1, <1>2, Move DEF Submit, Request, IInv, Inside, Entering, Connecting, Labels
<1>3. CASE provisioning_complete
  BY <1>1, <1>3, Move DEF provisioning_complete, IInv, Inside, Entering, Connecting, Labels
<1>4. CASE BootApplication
  BY <1>1, <1>4, Move DEF BootApplication, IInv, Inside, Entering, Labels
<1>5. CASE StayInDlm
  BY <1>1, <1>5, Move DEF StayInDlm, web_portal_init, PortalUp, IInv, Inside, Entering, Labels
<1>6. CASE Scan
  BY <1>1, <1>6, Move DEF Scan, Request, IInv, Inside, Entering, Connecting, Labels
<1>7. CASE ScanFinish
  BY <1>1, <1>7, Move DEF ScanFinish, IInv, Inside, Entering, Connecting, Labels
<1>8. CASE reset_wifi_handler
  BY <1>1, <1>8, Move DEF reset_wifi_handler, Request, IInv, Inside, Entering, Connecting, Labels
<1> QED BY <1>2, <1>3, <1>4, <1>5, <1>6, <1>7, <1>8 DEF HttpRequests

LEMMA EventTaskStep ==
  ASSUME IInv, EventTask
  PROVE  IInv'
<1>1. "event" \in Tasks /\ "event" # "http"
  BY DEF Tasks
<1>2. CASE HandleEvent
  BY <1>1, <1>2, Move DEF HandleEvent, IInv, Inside, Entering, Connecting, Labels
<1>3. CASE OnWifiConnected
  BY <1>1, <1>3, Move DEF OnWifiConnected, IInv, Inside, Entering, Connecting, Labels
<1>4. CASE ConnectedHttp
  BY <1>1, <1>4, ServerStep DEF ConnectedHttp, Inside, Entering, Connecting, Labels
<1>5. CASE ConnectedPortal
  BY <1>1, <1>5, Move
     DEF ConnectedPortal, web_portal_init, PortalUp, IInv, Inside, Entering, Connecting, Labels
<1>6. CASE OnWifiFailed
  BY <1>1, <1>6, Move DEF OnWifiFailed, IInv, Inside, Entering, Connecting, Labels
<1> QED BY <1>2, <1>3, <1>4, <1>5, <1>6 DEF EventTask

LEMMA NextInvariant == IInv /\ [Next]_vars => IInv'
<1> SUFFICES ASSUME IInv, [Next]_vars PROVE IInv'
  OBVIOUS
<1>1. CASE boot_manager_start
  BY <1>1, StartStep
<1>2. CASE \E t \in Tasks : enter_provisioning_mode(t) \/ start_wifi_connection(t)
  BY <1>2, EnterStep, ConnectStep
<1>3. CASE HttpRequests
  BY <1>3, HttpRequestStep
<1>4. CASE Restart \/ Handoff
  BY <1>4, ResetStep DEF Restart, Handoff
<1>5. CASE EventTask
  BY <1>5, EventTaskStep
<1>6. CASE delayed_ap_stop_task
  BY <1>6, Stutter DEF delayed_ap_stop_task, ApStop, DnsStop
<1>7. CASE DriverStep
  BY <1>7, Stutter DEF DriverStep, bootVars
<1>8. CASE UNCHANGED vars
  BY <1>8, Stutter DEF vars, bootVars
<1> QED BY <1>1, <1>2, <1>3, <1>4, <1>5, <1>6, <1>7, <1>8 DEF Next

LEMMA Invariant == Spec => []IInv
BY InitInvariant, NextInvariant, PTL DEF Spec

-----------------------------------------------------------------------------
\* The first CONNECTING phase never lacks a task that will end it, whatever order
\* the main, HTTP and event tasks run in and whatever fails: an attempt, or a way
\* into provisioning, is always under way (boot_manager.c).
THEOREM ConnectingIsAlwaysDriven == Spec => []ConnectingIsDriven
<1>1. IInv => ConnectingIsDriven
  BY DEF IInv
<1> QED BY <1>1, Invariant, PTL

\* The device is never left in PROVISIONING without the server and the portal to
\* provision it with, although three tasks may enter that phase, start the server
\* and see any of these steps fail (enter_provisioning_mode).
THEOREM ProvisioningIsAlwaysServed == Spec => []ProvisioningIsServed
<1>1. IInv => ProvisioningIsServed
  BY DEF IInv, ProvisioningIsServed, Inside
<1> QED BY <1>1, Invariant, PTL

-----------------------------------------------------------------------------
\* One connection attempt at a time

\* Before the main task's attempt, when it has one.
Early == {"start", "wifi_init", "load", "conn_begin"}

MainLabels == {"start", "wifi_init", "load", "loop", "halted", "gone"} \cup Connecting \cup Entering

\* From where the event task brings the server up.
Serving == {"connected_http", "connected_portal"} \cup Inside

NothingYet == pc["http"] = "off" /\ pc["event"] = "wait"
           /\ queue = <<>> /\ drv.link = "idle" /\ timers.armed = 0

OInv ==
  /\ pc \in [Tasks -> Labels]
  /\ pc["main"] \in MainLabels
  /\ pc["event"] \notin Connecting
  \* Nothing else happens before the main task's attempt ...
  /\ pc["main"] \in Early => NothingYet
  \* ... and a server that comes up during it has ended its phase ...
  /\ pc["main"] \in Connecting /\ (pc["http"] # "off" \/ pc["event"] \in Serving)
       => phase # "CONNECTING"
  \* ... so that it ends in the round that the 500 ms delay lasts.
  /\ pc["main"] \in Connecting /\ pc["http"] \in {"save", "boot_app"} => lagging
  /\ OneAttempt

LEMMA Moved ==
  ASSUME pc \in [Tasks -> Labels], NEW t \in Tasks, NEW label \in Labels, Goto(t, label)
  PROVE  /\ pc' \in [Tasks -> Labels]
         /\ pc'[t] = label
         /\ \A u \in Tasks : u # t => pc'[u] = pc[u]
BY DEF Goto

LEMMA TaskNames ==
  /\ "main" \in Tasks /\ "http" \in Tasks /\ "event" \in Tasks
  /\ \A t \in Tasks : t = "main" \/ t = "http" \/ t = "event"
BY DEF Tasks

\* The sets of places the argument tells apart.
LEMMA Places ==
  /\ "off" \notin Connecting \cup Entering /\ "wait" \notin Connecting \cup Entering
  /\ {"loop", "serve", "wait"} \cap (Connecting \cup Entering \cup Early \cup Serving) = {}
  /\ Entering \cap Early = {} /\ (Connecting \ {"conn_begin"}) \cap Early = {}
  /\ Entering \cap Connecting = {} /\ Serving \cap Connecting = {}
  /\ {"save", "boot_app"} \cap (Connecting \cup Entering) = {}
  /\ Connecting \subseteq Labels /\ Entering \subseteq Labels
  /\ {"wifi_init", "load"} \cap Connecting = {}
BY DEF Connecting, Entering, Early, Serving, Inside, Labels

\* A task goes on in one of the two shared functions, or returns.
LEMMA SharedMove ==
  ASSUME OInv, NEW t \in Tasks, pc[t] \in (Connecting \ {"conn_begin"}) \cup Entering,
         NEW label \in (Connecting \ {"conn_begin"}) \cup Entering \cup {Home(t)},
         Goto(t, label),
         label \in Connecting => pc[t] \in Connecting,
         label \in Serving => pc[t] \in Serving \/ phase' # "CONNECTING",
         phase' = "CONNECTING" => phase = "CONNECTING",
         \/ lagging => lagging'
         \/ t = "main" /\ (label \notin Connecting \/ pc["http"] = "off")
  PROVE  OInv'
<1>1. label \in Labels
  BY HomeLabel, Places
<1>2. /\ pc' \in [Tasks -> Labels] /\ pc'[t] = label
      /\ \A u \in Tasks : u # t => pc'[u] = pc[u]
  BY <1>1, Moved DEF OInv
<1>3. CASE t = "main"
  <2>1. label \in MainLabels
    BY <1>3 DEF MainLabels, Home
  <2>2. label \notin Early
    BY <1>3, Places DEF Home
  <2> QED BY <1>2, <1>3, <2>1, <2>2, TaskNames DEF OInv, OneAttempt
<1>4. CASE t = "http"
  <2>1. pc["main"] \notin Early
    BY <1>4, Places DEF OInv, NothingYet
  <2>2. label \notin {"save", "boot_app"}
    BY <1>4, Places DEF Home
  <2>3. pc["http"] # "off"
    BY <1>4, Places
  <2> QED BY <1>2, <1>4, <2>1, <2>2, <2>3, TaskNames DEF OInv, OneAttempt
<1>5. CASE t = "event"
  <2>1. pc["main"] \notin Early
    BY <1>5, Places DEF OInv, NothingYet
  <2> QED BY <1>2, <1>5, <2>1, TaskNames DEF OInv, OneAttempt
<1> QED BY <1>3, <1>4, <1>5, TaskNames

\* The main task before and at the beginning of its attempt.
LEMMA EarlyMove ==
  ASSUME OInv, pc["main"] \in Early, NEW label \in MainLabels \cap Labels,
         Goto("main", label), UNCHANGED <<queue, drv, timers>>
  PROVE  OInv'
<1>1. /\ pc' \in [Tasks -> Labels] /\ pc'["main"] = label
      /\ pc'["http"] = pc["http"] /\ pc'["event"] = pc["event"]
  BY Moved, TaskNames DEF OInv
<1>2. pc["http"] = "off" /\ pc["event"] = "wait"
  BY DEF OInv, NothingYet
<1> QED BY <1>1, <1>2, Places DEF OInv, OneAttempt, NothingYet

\* The HTTP task, outside the shared functions.
LEMMA HttpMove ==
  ASSUME OInv, NEW label \in Labels, Goto("http", label), pc["http"] # "off",
         phase' = "CONNECTING" => phase = "CONNECTING",
         lagging => lagging',
         pc["main"] \in Connecting =>
           label \notin Connecting /\ (label \in {"save", "boot_app"} => lagging')
  PROVE  OInv'
<1>1. /\ pc' \in [Tasks -> Labels] /\ pc'["http"] = label
      /\ pc'["main"] = pc["main"] /\ pc'["event"] = pc["event"]
  BY Moved, TaskNames DEF OInv
<1>2. pc["main"] \notin Early
  BY DEF OInv, NothingYet
<1> QED BY <1>1, <1>2 DEF OInv, OneAttempt

\* The event task, outside the shared functions.
LEMMA EventMove ==
  ASSUME OInv, NEW label \in Labels \ Connecting, Goto("event", label),
         pc["main"] \notin Early, UNCHANGED lagging,
         phase' = "CONNECTING" => phase = "CONNECTING",
         label \in Serving => pc["event"] \in Serving \/ phase' # "CONNECTING"
  PROVE  OInv'
<1>1. /\ pc' \in [Tasks -> Labels] /\ pc'["event"] = label
      /\ pc'["main"] = pc["main"] /\ pc'["http"] = pc["http"]
  BY Moved, TaskNames DEF OInv
<1> QED BY <1>1 DEF OInv, OneAttempt

\* The server starts: its task appears.
LEMMA ServerMove ==
  ASSUME IInv, OInv, NEW t \in Tasks, NEW ok \in Labels, NEW failed \in Labels,
         http_server_init(t, ok, failed), UNCHANGED <<phase, lagging>>,
         \/ pc[t] \in Inside /\ ok \in Inside /\ failed \in Inside
         \/ t = "event" /\ pc[t] = "connected_http" /\ {ok, failed} \subseteq Serving
  PROVE  OInv'
<1>1. pc[t] \in Serving /\ {ok, failed} \subseteq Serving
  BY DEF Serving
<1>2. pc["main"] \notin Early
  <2>1. t = "main" \/ pc["event"] \in Serving \/ pc["http"] \in Inside
    BY <1>1, TaskNames
  <2>2. t = "main" => pc["main"] \in Inside
    OBVIOUS
  <2> QED BY <2>1, <2>2, Places DEF OInv, NothingYet, Inside
<1>3. ASSUME NEW label \in {ok, failed}, Goto(t, label)
      PROVE  OInv'
  <2>1. CASE pc[t] \in Inside /\ label \in Inside
    BY <2>1, <1>1, <1>3, SharedMove, Places DEF Inside
  <2>2. CASE t = "event" /\ pc[t] = "connected_http" /\ label \in Serving
    BY <2>2, <1>1, <1>2, <1>3, EventMove, Places
  <2> QED BY <1>3, <2>1, <2>2
<1>4. CASE /\ ~server /\ server' = TRUE
           /\ pc' = [pc EXCEPT ![t] = ok, !["http"] = "serve"]
  <2>1. t # "http"
    <3>1. pc["http"] \in {"off", "gone"}
      BY <1>4 DEF IInv
    <3>2. {"off", "gone"} \cap Serving = {}
      BY DEF Serving, Inside, Entering
    <3> QED BY <1>1, <3>1, <3>2
  <2>2. "serve" \in Labels
    BY DEF Labels
  <2>3. /\ pc' \in [Tasks -> Labels]
        /\ pc'[t] = ok /\ pc'["http"] = "serve"
        /\ \A u \in Tasks : u \notin {t, "http"} => pc'[u] = pc[u]
    BY <1>4, <2>1, <2>2, TaskNames DEF OInv
  <2>4. CASE t = "main"
    <3>1. ok \in Entering
      BY <2>4 DEF Inside
    <3>2. ok \notin Connecting /\ ok \notin Early /\ ok \in MainLabels
      BY <3>1, Places DEF MainLabels
    <3> QED BY <2>3, <2>4, <3>2, TaskNames DEF OInv, OneAttempt
  <2>5. CASE t = "event"
    <3>1. ok \notin Connecting
      BY <1>1, Places
    <3>2. /\ pc'["main"] = pc["main"] /\ pc'["event"] = ok
          /\ "serve" \notin Connecting /\ "serve" \notin {"save", "boot_app"}
      BY <2>3, <2>5, TaskNames, Places
    <3>3. pc["main"] \in Connecting => phase # "CONNECTING"
      BY <1>1, <2>5 DEF OInv
    <3> QED BY <1>2, <2>3, <3>1, <3>2, <3>3 DEF OInv, OneAttempt
  <2> QED BY <2>1, <2>4, <2>5, TaskNames
<1> QED BY <1>3, <1>4 DEF http_server_init

LEMMA SharedSteps ==
  ASSUME IInv, OInv, NEW t \in Tasks, enter_provisioning_mode(t) \/ start_wifi_connection(t)
  PROVE  OInv'
<1>1. CASE EnterCheck(t)
  <2>1. pc[t] \in Entering /\ "enter_set" \in Entering /\ "enter_set" \notin Connecting
        /\ "enter_set" \notin Serving
    BY <1>1 DEF EnterCheck, Entering, Connecting, Serving, Inside
  <2> QED BY <1>1, <2>1, SharedMove, HomeLabel, Places, TaskNames DEF EnterCheck, Home
<1>2. CASE EnterSet(t)
  <2>1. pc[t] \in Entering /\ "enter_ap" \in Entering
    BY <1>2 DEF EnterSet, Entering
  <2> QED BY <1>2, <2>1, SharedMove, Places DEF EnterSet
<1>3. CASE EnterAp(t)
  <2>1. pc[t] \in Inside /\ {"enter_ap_done", "enter_http"} \subseteq Inside
    BY <1>3 DEF EnterAp, Inside, Entering
  <2> QED BY <1>3, <2>1, SharedMove, Places DEF EnterAp, Inside, Serving
<1>4. CASE EnterHttp(t)
  <2>1. pc[t] \in Inside /\ {"enter_portal", "enter_error"} \subseteq Inside \cap Labels
    BY <1>4 DEF EnterHttp, Inside, Entering, Labels
  <2> QED BY <1>4, <2>1, ServerMove DEF EnterHttp
<1>5. CASE EnterPortal(t)
  <2>1. pc[t] \in Inside /\ "enter_error" \in Inside
    BY <1>5 DEF EnterPortal, Inside, Entering
  <2>2. Goto(t, Home(t)) \/ Goto(t, "enter_error")
    BY <1>5 DEF EnterPortal, web_portal_init
  <2> QED BY <1>5, <2>1, <2>2, SharedMove, HomeLabel, Places DEF EnterPortal, Inside, Serving
<1>6. CASE EnterError(t)
  <2>1. pc[t] \in Entering
    BY <1>6 DEF EnterError, Entering
  <2> QED BY <1>6, <2>1, SharedMove, HomeLabel, Places DEF EnterError
<1>7. CASE ConnBegin(t)
  <2>1. pc[t] \in Connecting /\ {"conn_ap", "enter"} \subseteq Labels \cap MainLabels
        /\ (Goto(t, "conn_ap") \/ Goto(t, "enter"))
    BY <1>7 DEF ConnBegin, NoCredentials, Connecting, Labels, MainLabels, Entering
  <2>2. CASE t = "main"
    <3>1. pc["main"] \in Early
      BY <1>7, <2>2 DEF ConnBegin, Early
    <3> QED BY <1>7, <2>1, <2>2, <3>1, EarlyMove DEF ConnBegin, wifiVars
  <2>3. CASE t = "http"
    <3>1. pc["main"] \notin Connecting /\ pc["http"] # "off" /\ pc["main"] \notin Early
      BY <2>1, <2>3, Places DEF OInv, OneAttempt, NothingYet
    <3>2. PICK label \in {"conn_ap", "enter"} : Goto("http", label)
      BY <2>1, <2>3
    <3>3. /\ pc' \in [Tasks -> Labels] /\ pc'["http"] = label
          /\ pc'["main"] = pc["main"] /\ pc'["event"] = pc["event"]
      BY <2>1, <3>2, Moved, TaskNames DEF OInv
    <3> QED BY <3>1, <3>3 DEF OInv, OneAttempt
  <2>4. t # "event"
    BY <2>1 DEF OInv
  <2> QED BY <2>2, <2>3, <2>4, TaskNames
<1>8. CASE ConnDriver(t)
  <2>1. pc[t] \in Connecting \ {"conn_begin"}
        /\ \E label \in {"conn_ap_done", "conn_stop", "conn_start", "conn_done", "poll"} : Goto(t, label)
    BY <1>8 DEF ConnDriver, Connecting
  <2>2. {"conn_ap_done", "conn_stop", "conn_start", "conn_done", "poll"}
           \subseteq Connecting \ {"conn_begin"}
    BY DEF Connecting
  <2> QED BY <1>8, <2>1, <2>2, SharedMove, Places DEF ConnDriver
<1>9. CASE Poll(t)
  <2>1. pc[t] \in Connecting \ {"conn_begin"} /\ "sleep" \in Connecting \ {"conn_begin"}
    BY <1>9 DEF Poll, Connecting
  <2>2. CASE phase = "CONNECTING"
    <3>1. t = "main" => pc["http"] = "off"
      BY <2>1, <2>2 DEF OInv
    <3> QED BY <1>9, <2>1, <2>2, <3>1, SharedMove, Places DEF Poll
  <2>3. CASE phase # "CONNECTING"
    <3>1. Home(t) \notin Connecting /\ Home(t) \notin Serving
      BY HomeLabel DEF Serving, Inside
    <3> QED BY <1>9, <2>1, <2>3, <3>1, SharedMove DEF Poll
  <2> QED BY <2>2, <2>3
<1>10. CASE Sleep(t)
  <2>1. pc[t] \in Connecting \ {"conn_begin"} /\ {"poll", "disconnect"} \subseteq Connecting \ {"conn_begin"}
        /\ (Goto(t, "poll") \/ Goto(t, "disconnect"))
    BY <1>10 DEF Sleep, Connecting
  <2> QED BY <1>10, <2>1, SharedMove, Places DEF Sleep
<1>11. CASE Timeout(t)
  <2>1. pc[t] \in Connecting \ {"conn_begin"} /\ "disconnect_driver" \in Connecting \ {"conn_begin"}
        /\ "enter" \in Entering /\ "enter" \notin Serving
    BY <1>11 DEF Timeout, Connecting, Entering, Serving, Inside
  <2> QED BY <1>11, <2>1, SharedMove, Places DEF Timeout
<1> QED
  BY <1>1, <1>2, <1>3, <1>4, <1>5, <1>6, <1>7, <1>8, <1>9, <1>10, <1>11
  DEF enter_provisioning_mode, start_wifi_connection

LEMMA TaskSteps ==
  ASSUME IInv, OInv, boot_manager_start \/ HttpRequests \/ EventTask
  PROVE  OInv'
<1>1. CASE boot_manager_start
  <2>1. pc["main"] \in Early
    BY <1>1 DEF boot_manager_start, CheckReset, InitWifi, load_configuration, Early
  <2>2. \E label \in {"wifi_init", "load", "halted", "conn_begin", "enter"} : Goto("main", label)
    BY <1>1 DEF boot_manager_start, CheckReset, InitWifi, load_configuration
  <2>3. {"wifi_init", "load", "halted", "conn_begin", "enter"} \subseteq MainLabels \cap Labels
    BY DEF MainLabels, Labels, Connecting, Entering
  <2>4. UNCHANGED <<queue, drv, timers>>
    BY <1>1 DEF boot_manager_start, CheckReset, InitWifi, load_configuration, wifiVars
  <2> QED BY <2>1, <2>2, <2>3, <2>4, EarlyMove
<1>2. CASE HttpRequests /\ ~provisioning_complete
  <2>1. pc["http"] # "off" /\ (phase' = "CONNECTING" => phase = "CONNECTING")
    BY <1>2 DEF HttpRequests, Submit, Request, BootApplication, StayInDlm, Scan, ScanFinish,
                reset_wifi_handler
  <2>2. PICK label \in {"save", "boot_app", "handoff", "stay", "halted", "serve", "scan",
                        "scan_idle", "restart"} :
          /\ Goto("http", label)
          /\ label \in {"save", "boot_app"} => Submit
    BY <1>2 DEF HttpRequests, Submit, BootApplication, StayInDlm, web_portal_init, Scan, ScanFinish,
                reset_wifi_handler
  <2>3. label \in Labels \ Connecting
    BY DEF Labels, Connecting
  <2>4. Submit => (pc["main"] \in Connecting => lagging')
    BY DEF Submit, Delay
  <2>5. ~Submit => UNCHANGED lagging
    BY <1>2 DEF HttpRequests, BootApplication, StayInDlm, Scan, ScanFinish, reset_wifi_handler
  <2>6. CASE Submit
    <3>1. /\ pc' \in [Tasks -> Labels] /\ pc'["http"] = label
          /\ pc'["main"] = pc["main"] /\ pc'["event"] = pc["event"]
      BY <2>2, <2>3, Moved, TaskNames DEF OInv
    <3>2. pc["main"] \notin Early
      BY <2>1 DEF OInv, NothingYet
    <3> QED BY <2>1, <2>3, <2>4, <2>6, <3>1, <3>2 DEF OInv, OneAttempt
  <2>7. CASE ~Submit
    BY <2>1, <2>2, <2>3, <2>5, <2>7, HttpMove
  <2> QED BY <2>6, <2>7
<1>3. CASE provisioning_complete
  <2>1. pc["main"] \notin Connecting /\ pc["http"] # "off"
    BY <1>3 DEF provisioning_complete, OInv
  <2>2. {"conn_begin", "serve"} \subseteq Labels
    BY DEF Labels, Connecting
  <2> QED BY <1>3, <2>1, <2>2, HttpMove DEF provisioning_complete
<1>4. CASE EventTask
  <2>1. pc["main"] \notin Early
    BY <1>4 DEF EventTask, HandleEvent, wifi_event_handler, OnWifiConnected, ConnectedHttp,
                ConnectedPortal, OnWifiFailed, OInv, NothingYet
  <2>2. {"connected", "failed", "wait", "connected_http", "connected_portal", "enter"}
           \subseteq Labels \ Connecting
    BY DEF Labels, Connecting, Entering
  <2>3. {"connected", "failed", "wait", "enter"} \cap Serving = {}
    BY DEF Serving, Inside, Entering
  <2>4. CASE HandleEvent
    BY <2>1, <2>2, <2>3, <2>4, EventMove DEF HandleEvent
  <2>5. CASE OnWifiConnected
    BY <2>1, <2>2, <2>3, <2>5, EventMove DEF OnWifiConnected
  <2>6. CASE ConnectedHttp
    <3>1. pc["event"] = "connected_http" /\ "connected_portal" \in Serving
      BY <2>6 DEF ConnectedHttp, Serving
    <3> QED BY <2>2, <2>6, <3>1, TaskNames, ServerMove DEF ConnectedHttp
  <2>7. CASE ConnectedPortal
    BY <2>1, <2>2, <2>3, <2>7, EventMove DEF ConnectedPortal, web_portal_init
  <2>8. CASE OnWifiFailed
    BY <2>1, <2>2, <2>3, <2>8, EventMove DEF OnWifiFailed
  <2> QED BY <1>4, <2>4, <2>5, <2>6, <2>7, <2>8 DEF EventTask
<1> QED BY <1>1, <1>2, <1>3, <1>4

-----------------------------------------------------------------------------
\* Types

TInv ==
  /\ TypeOK
  /\ \A t \in Tasks : pc[t] \in {"poll", "sleep"} => polls[t] < POLLS
  /\ timers.armed + timers.stopping <= MaxTimers

\* A step of one task that touches neither the rounds nor the timers.
LEMMA TypedMove ==
  ASSUME TInv, WifiTypeOK', NEW t \in Tasks, NEW label \in Labels \ {"poll", "sleep"},
         Goto(t, label), phase' \in Phases,
         {entered', lagging', creds', server', portal', dns'} \subseteq BOOLEAN,
         UNCHANGED <<polls, timers>>
  PROVE  TInv'
<1>1. /\ pc' \in [Tasks -> Labels] /\ pc'[t] = label
      /\ \A u \in Tasks : u # t => pc'[u] = pc[u]
  BY Moved DEF TInv, TypeOK
<1> QED BY <1>1 DEF TInv, TypeOK

\* A round of start_wifi_connection begins, is counted or is over.
LEMMA TypedRound ==
  ASSUME TInv, WifiTypeOK', NEW t \in Tasks, NEW label \in Labels, NEW n \in 0..POLLS,
         Goto(t, label), polls' = [polls EXCEPT ![t] = n],
         label \in {"poll", "sleep"} => n < POLLS,
         lagging' \in BOOLEAN,
         UNCHANGED <<phase, entered, creds, server, portal, dns, timers>>
  PROVE  TInv'
<1>1. /\ pc' \in [Tasks -> Labels] /\ pc'[t] = label
      /\ \A u \in Tasks : u # t => pc'[u] = pc[u]
  BY Moved DEF TInv, TypeOK
<1>2. /\ polls' \in [Tasks -> 0..POLLS] /\ polls'[t] = n
      /\ \A u \in Tasks : u # t => polls'[u] = polls[u]
  BY DEF TInv, TypeOK
<1> QED BY <1>1, <1>2 DEF TInv, TypeOK

LEMMA TypedServer ==
  ASSUME TInv, WifiTypeOK', NEW t \in Tasks,
         NEW ok \in Labels \ {"poll", "sleep"}, NEW failed \in Labels \ {"poll", "sleep"},
         http_server_init(t, ok, failed),
         UNCHANGED <<phase, entered, polls, lagging, creds, portal, dns, timers>>
  PROVE  TInv'
<1>1. server' \in BOOLEAN
  BY DEF http_server_init, TInv, TypeOK
<1>2. CASE Goto(t, ok) \/ Goto(t, failed)
  BY <1>1, <1>2, TypedMove DEF TInv, TypeOK
<1>3. CASE pc' = [pc EXCEPT ![t] = ok, !["http"] = "serve"]
  <2>1. "serve" \in Labels \ {"poll", "sleep"}
    BY DEF Labels
  <2>2. /\ pc' \in [Tasks -> Labels]
        /\ \A u \in Tasks : pc'[u] \in {ok, "serve"} \/ pc'[u] = pc[u]
    BY <1>3, <2>1, TaskNames DEF TInv, TypeOK
  <2> QED BY <1>1, <2>1, <2>2 DEF TInv, TypeOK
<1> QED BY <1>2, <1>3 DEF http_server_init

LEMMA TypedShared ==
  ASSUME TInv, WifiTypeOK', NEW t \in Tasks, enter_provisioning_mode(t) \/ start_wifi_connection(t)
  PROVE  TInv'
<1>1. {"enter_set", "enter_ap", "enter_ap_done", "enter_http", "enter_portal", "enter_error",
       "conn_ap", "enter", Home(t)} \subseteq Labels \ {"poll", "sleep"}
  BY HomeLabel DEF Labels, Entering, Connecting
<1>2. {"PROVISIONING", "ERROR", "CONNECTING"} \subseteq Phases
  BY DEF Phases
<1>3. CASE EnterCheck(t)
  BY <1>1, <1>3, TypedMove DEF EnterCheck, TInv, TypeOK
<1>4. CASE EnterSet(t)
  BY <1>1, <1>2, <1>4, TypedMove DEF EnterSet, TInv, TypeOK
<1>5. CASE EnterAp(t)
  BY <1>1, <1>5, TypedMove DEF EnterAp, TInv, TypeOK
<1>6. CASE EnterHttp(t)
  BY <1>1, <1>6, TypedServer DEF EnterHttp
<1>7. CASE EnterPortal(t)
  <2>1. portal' \in BOOLEAN /\ dns' \in BOOLEAN
    BY <1>7 DEF EnterPortal, web_portal_init, PortalUp, TInv, TypeOK
  <2>2. Goto(t, Home(t)) \/ Goto(t, "enter_error")
    BY <1>7 DEF EnterPortal, web_portal_init
  <2> QED BY <1>1, <1>7, <2>1, <2>2, TypedMove DEF EnterPortal, TInv, TypeOK
<1>8. CASE EnterError(t)
  BY <1>1, <1>2, <1>8, TypedMove DEF EnterError, TInv, TypeOK
<1>9. CASE ConnBegin(t)
  <2>1. Goto(t, "conn_ap") \/ Goto(t, "enter")
    BY <1>9 DEF ConnBegin, NoCredentials
  <2> QED BY <1>1, <1>2, <1>9, <2>1, TypedMove DEF ConnBegin, TInv, TypeOK
<1>10. CASE ConnDriver(t)
  <2>1. \E label \in {"conn_ap_done", "conn_stop", "conn_start", "conn_done", "poll"} : Goto(t, label)
    BY <1>10 DEF ConnDriver
  <2>2. {"conn_ap_done", "conn_stop", "conn_start", "conn_done", "poll"} \subseteq Labels
    BY DEF Labels, Connecting
  <2>3. 0 \in 0..POLLS /\ 0 < POLLS
    BY BootAssumption
  <2> QED BY <1>10, <2>1, <2>2, <2>3, TypedRound DEF ConnDriver, TInv, TypeOK
<1>11. CASE Poll(t)
  <2>1. lagging' \in BOOLEAN /\ "sleep" \in Labels /\ pc[t] = "poll"
    BY <1>11 DEF Poll, Labels, Connecting
  <2>2. CASE phase = "CONNECTING"
    <3>1. polls' = [polls EXCEPT ![t] = polls[t]] /\ polls[t] \in 0..POLLS /\ polls[t] < POLLS
      BY <1>11, <2>1, <2>2 DEF Poll, TInv, TypeOK
    <3> QED BY <1>11, <2>1, <2>2, <3>1, TypedRound DEF Poll, wifiVars
  <2>3. CASE phase # "CONNECTING"
    <3>1. 0 \in 0..POLLS
      BY BootAssumption
    <3> QED BY <1>1, <1>11, <2>1, <2>3, <3>1, TypedRound DEF Poll, wifiVars
  <2> QED BY <2>2, <2>3
<1>12. CASE Sleep(t)
  <2>1. /\ polls[t] \in 0..POLLS /\ polls[t] < POLLS /\ polls' = [polls EXCEPT ![t] = polls[t] + 1]
    BY <1>12 DEF Sleep, TInv, TypeOK
  <2>2. polls[t] + 1 \in 0..POLLS /\ {"poll", "disconnect"} \subseteq Labels
    BY <2>1, BootAssumption DEF Labels, Connecting
  <2>3. CASE polls[t] + 1 < POLLS
    BY <1>12, <2>1, <2>2, <2>3, TypedRound DEF Sleep, TInv, TypeOK
  <2>4. CASE ~(polls[t] + 1 < POLLS)
    BY <1>12, <2>1, <2>2, <2>4, TypedRound DEF Sleep, TInv, TypeOK
  <2> QED BY <2>3, <2>4
<1>13. CASE Timeout(t)
  <2>1. lagging' \in BOOLEAN /\ {"disconnect_driver", "enter"} \subseteq Labels
        /\ (Goto(t, "disconnect_driver") \/ Goto(t, "enter"))
    BY <1>13 DEF Timeout, Labels, Connecting, Entering
  <2>2. 0 \in 0..POLLS
    BY BootAssumption
  <2> QED BY <1>13, <2>1, <2>2, TypedRound DEF Timeout
<1> QED
  BY <1>3, <1>4, <1>5, <1>6, <1>7, <1>8, <1>9, <1>10, <1>11, <1>12, <1>13
  DEF enter_provisioning_mode, start_wifi_connection

LEMMA TypedTasks ==
  ASSUME TInv, WifiTypeOK', boot_manager_start \/ HttpRequests \/ EventTask
  PROVE  TInv'
<1>1. /\ {"wifi_init", "load", "halted", "conn_begin", "enter", "save", "boot_app", "handoff",
          "stay", "serve", "scan", "scan_idle", "restart", "connected", "failed", "wait",
          "connected_http", "connected_portal"} \subseteq Labels \ {"poll", "sleep"}
      /\ {"CHECK_RESET", "WIFI_INIT", "LOAD_CONFIG", "ERROR", "APP_BOOT", "CONNECTED"} \subseteq Phases
  BY DEF Labels, Connecting, Entering, Phases
<1>2. CASE boot_manager_start
  BY <1>1, <1>2, TypedMove, TaskNames
  DEF boot_manager_start, CheckReset, InitWifi, load_configuration, TInv, TypeOK
<1>3. CASE Submit
  <2>1. lagging' \in BOOLEAN
    BY <1>3 DEF Submit, Delay
  <2> QED BY <1>1, <1>3, <2>1, TypedMove, TaskNames DEF Submit, TInv, TypeOK
<1>4. CASE provisioning_complete
  BY <1>1, <1>4, TypedMove, TaskNames DEF provisioning_complete, TInv, TypeOK
<1>5. CASE BootApplication
  BY <1>1, <1>5, TypedMove, TaskNames DEF BootApplication, TInv, TypeOK
<1>6. CASE StayInDlm
  BY <1>1, <1>6, TypedMove, TaskNames DEF StayInDlm, web_portal_init, PortalUp, TInv, TypeOK
<1>7. CASE Scan
  BY <1>1, <1>7, TypedMove, TaskNames DEF Scan, TInv, TypeOK
<1>8. CASE ScanFinish
  BY <1>1, <1>8, TypedMove, TaskNames DEF ScanFinish, TInv, TypeOK
<1>9. CASE reset_wifi_handler
  BY <1>1, <1>9, TypedMove, TaskNames DEF reset_wifi_handler, TInv, TypeOK
<1>10. CASE HandleEvent
  BY <1>1, <1>10, TypedMove, TaskNames DEF HandleEvent, TInv, TypeOK
<1>11. CASE OnWifiConnected
  BY <1>1, <1>11, TypedMove, TaskNames DEF OnWifiConnected, TInv, TypeOK
<1>12. CASE ConnectedHttp
  BY <1>1, <1>12, TypedServer, TaskNames DEF ConnectedHttp
<1>13. CASE ConnectedPortal
  <2>1. /\ pc' \in [Tasks -> Labels] /\ pc'["event"] = "wait"
        /\ \A u \in Tasks : u # "event" => pc'[u] = pc[u]
    BY <1>1, <1>13, Moved, TaskNames DEF ConnectedPortal, web_portal_init, TInv, TypeOK
  <2>2. /\ timers' \in [armed : 0..MaxTimers, stopping : 0..MaxTimers]
        /\ timers'.armed + timers'.stopping <= MaxTimers
    BY <1>13, BootAssumption DEF ConnectedPortal, TInv, TypeOK
  <2>3. portal' \in BOOLEAN /\ dns' \in BOOLEAN
    BY <1>13 DEF ConnectedPortal, web_portal_init, PortalUp, TInv, TypeOK
  <2> QED BY <1>13, <2>1, <2>2, <2>3 DEF ConnectedPortal, TInv, TypeOK
<1>14. CASE OnWifiFailed
  BY <1>1, <1>14, TypedMove, TaskNames DEF OnWifiFailed, TInv, TypeOK
<1> QED
  BY <1>2, <1>3, <1>4, <1>5, <1>6, <1>7, <1>8, <1>9, <1>10, <1>11, <1>12, <1>13, <1>14
  DEF HttpRequests, EventTask

-----------------------------------------------------------------------------
\* The address

\* An address the driver has is recorded, or on its way, unless a task is between
\* the two steps of wifi_manager_disconnect.
Remembered == Kept \/ \E t \in Tasks : pc[t] = "disconnect_driver"

Address == WifiTypeOK /\ Sound /\ Remembered

LEMMA AddressStep ==
  ASSUME Address, WifiStep,
         \A t \in Tasks : pc[t] = "disconnect_driver" => pc'[t] = "disconnect_driver"
  PROVE  Address'
BY WifiStepKeeps DEF Address, Remembered, Keeps

\* The same where one task moves that is elsewhere.
LEMMA AddressMove ==
  ASSUME Address, pc \in [Tasks -> Labels], WifiStep, NEW t \in Tasks, NEW label \in Labels,
         Goto(t, label), pc[t] # "disconnect_driver"
  PROVE  Address'
<1>1. \A u \in Tasks : pc[u] = "disconnect_driver" => pc'[u] = "disconnect_driver"
  BY Moved
<1> QED BY <1>1, AddressStep

LEMMA AddressServer ==
  ASSUME IInv, Address, pc \in [Tasks -> Labels], UNCHANGED wifiVars,
         NEW t \in Tasks, NEW ok \in Labels, NEW failed \in Labels,
         http_server_init(t, ok, failed), pc[t] # "disconnect_driver"
  PROVE  Address'
<1>1. WifiStep
  BY DEF WifiStep
<1>2. CASE Goto(t, ok) \/ Goto(t, failed)
  BY <1>1, <1>2, AddressMove
<1>3. CASE ~server /\ pc' = [pc EXCEPT ![t] = ok, !["http"] = "serve"]
  <2>1. pc["http"] \in {"off", "gone"}
    BY <1>3 DEF IInv
  <2>2. \A u \in Tasks : pc[u] = "disconnect_driver" => pc'[u] = "disconnect_driver"
    BY <1>3, <2>1
  <2> QED BY <1>1, <2>2, AddressStep
<1> QED BY <1>2, <1>3 DEF http_server_init

LEMMA AddressShared ==
  ASSUME IInv, Address, pc \in [Tasks -> Labels], NEW t \in Tasks,
         enter_provisioning_mode(t) \/ start_wifi_connection(t)
  PROVE  Address'
<1>1. CASE EnterHttp(t)
  <2>1. {"enter_portal", "enter_error"} \subseteq Labels
    BY DEF Labels, Entering
  <2> QED BY <1>1, <2>1, AddressServer DEF EnterHttp
<1>2. CASE Timeout(t)
  <2>1. CASE DisconnectMark /\ Goto(t, "disconnect_driver")
    <3>1. pc'[t] = "disconnect_driver"
      BY <2>1 DEF Goto
    <3> QED BY <2>1, <3>1, DisconnectMarkStep DEF Address, Remembered
  <2>2. CASE DisconnectDriver
    BY <2>2, DisconnectDriverStep DEF Address, Remembered
  <2> QED BY <1>2, <2>1, <2>2 DEF Timeout
<1>3. CASE /\ EnterCheck(t) \/ EnterSet(t) \/ EnterAp(t) \/ EnterPortal(t) \/ EnterError(t)
              \/ ConnBegin(t) \/ ConnDriver(t) \/ Poll(t) \/ Sleep(t)
  <2>1. WifiStep
    BY <1>3 DEF WifiStep, EnterCheck, EnterSet, EnterAp, EnterPortal, EnterError, ConnBegin,
                ConnDriver, Poll, Sleep
  <2>2. pc[t] # "disconnect_driver"
    BY <1>3 DEF EnterCheck, EnterSet, EnterAp, EnterPortal, EnterError, ConnBegin, ConnDriver,
                Poll, Sleep
  <2>3. \E label \in {Home(t)} \cup Connecting \cup Entering : Goto(t, label)
    BY <1>3 DEF EnterCheck, EnterSet, EnterAp, EnterPortal, web_portal_init, EnterError, ConnBegin,
                NoCredentials, ConnDriver, Poll, Sleep, Connecting, Entering
  <2>4. {Home(t)} \cup Connecting \cup Entering \subseteq Labels
    BY HomeLabel, Places
  <2> QED BY <2>1, <2>2, <2>3, <2>4, AddressMove
<1> QED BY <1>1, <1>2, <1>3 DEF enter_provisioning_mode, start_wifi_connection

LEMMA AddressTasks ==
  ASSUME IInv, Address, pc \in [Tasks -> Labels], boot_manager_start \/ HttpRequests \/ EventTask
  PROVE  Address'
<1>1. /\ {"wifi_init", "load", "halted", "conn_begin", "enter", "save", "boot_app", "handoff",
          "stay", "serve", "scan", "scan_idle", "restart", "connected", "failed", "wait",
          "connected_http", "connected_portal"} \subseteq Labels
  BY DEF Labels, Connecting, Entering
<1>2. CASE boot_manager_start
  <2>1. pc["main"] # "disconnect_driver" /\ WifiStep
        /\ \E label \in {"wifi_init", "load", "halted", "conn_begin", "enter"} : Goto("main", label)
    BY <1>2 DEF boot_manager_start, CheckReset, InitWifi, load_configuration, WifiStep
  <2> QED BY <1>1, <2>1, TaskNames, AddressMove
<1>3. CASE HttpRequests
  <2>1. pc["http"] # "disconnect_driver"
    BY <1>3 DEF HttpRequests, Submit, Request, provisioning_complete, BootApplication, StayInDlm,
                Scan, ScanFinish, reset_wifi_handler
  <2>2. \E label \in {"save", "boot_app", "conn_begin", "handoff", "stay", "halted", "serve", "scan",
                      "scan_idle", "restart"} : Goto("http", label)
    BY <1>3 DEF HttpRequests, Submit, provisioning_complete, BootApplication, StayInDlm,
                web_portal_init, Scan, ScanFinish, reset_wifi_handler
  <2>3. WifiStep
    <3>1. CASE Scan
      BY <3>1 DEF Scan, WifiStep
    <3>2. CASE ScanFinish
      <4>1. (pc["http"] = "scan_idle") \in BOOLEAN
        OBVIOUS
      <4> QED BY <3>2, <4>1 DEF ScanFinish, WifiStep
    <3>3. CASE UNCHANGED wifiVars
      BY <3>3 DEF WifiStep
    <3> QED BY <1>3, <3>1, <3>2, <3>3
            DEF HttpRequests, Submit, provisioning_complete, BootApplication, StayInDlm,
                reset_wifi_handler
  <2> QED BY <1>1, <2>1, <2>2, <2>3, TaskNames, AddressMove
<1>4. CASE ConnectedHttp
  BY <1>1, <1>4, TaskNames, AddressServer DEF ConnectedHttp
<1>5. CASE HandleEvent \/ OnWifiConnected \/ ConnectedPortal \/ OnWifiFailed
  <2>1. pc["event"] # "disconnect_driver" /\ WifiStep
    BY <1>5 DEF HandleEvent, OnWifiConnected, ConnectedPortal, OnWifiFailed, WifiStep
  <2>2. \E label \in {"connected", "failed", "wait", "connected_http", "enter"} : Goto("event", label)
    BY <1>5 DEF HandleEvent, OnWifiConnected, ConnectedPortal, web_portal_init, OnWifiFailed
  <2> QED BY <1>1, <2>1, <2>2, TaskNames, AddressMove
<1> QED BY <1>2, <1>3, <1>4, <1>5 DEF EventTask

-----------------------------------------------------------------------------
\* All of it

BInv == IInv /\ TInv /\ OInv /\ Address

LEMMA InitAll == Init => BInv
<1> SUFFICES ASSUME Init PROVE BInv
  OBVIOUS
<1>1. WifiTypeOK /\ wifi.has_ip = FALSE /\ queue = <<>> /\ drv.link = "idle"
  BY WifiAssumption
  DEF Init, WifiInit, WifiTypeOK, FreshWifi, FreshDriver, WifiStates, Modes, Links
<1>2. ~Coming
  BY <1>1 DEF Coming, WillHaveIp
<1>3. Address
  BY <1>1, <1>2 DEF Address, Sound, Remembered, Kept
<1>4. /\ pc \in [Tasks -> Labels] /\ pc["main"] = "start" /\ pc["http"] = "off" /\ pc["event"] = "wait"
      /\ \A t \in Tasks : pc[t] \in {"start", "off", "wait"}
  BY DEF Init, FreshPc, Tasks, Labels
<1>5. "start" \notin Connecting /\ "start" \in MainLabels
  BY DEF Connecting, MainLabels
<1>6. OInv
  BY <1>1, <1>4, <1>5, Places DEF OInv, OneAttempt, NothingYet, Init, NoTimers
<1>7. TInv
  <2>1. polls \in [Tasks -> 0..POLLS] /\ \A t \in Tasks : polls[t] < POLLS
    BY BootAssumption DEF Init
  <2>2. timers \in [armed : 0..MaxTimers, stopping : 0..MaxTimers]
        /\ timers.armed + timers.stopping <= MaxTimers
    BY BootAssumption DEF Init, NoTimers
  <2>3. {entered, lagging, creds, server, portal, dns} \subseteq BOOLEAN /\ phase \in Phases
    BY DEF Init, Phases
  <2> QED BY <1>1, <1>4, <2>1, <2>2, <2>3 DEF TInv, TypeOK
<1> QED BY <1>3, <1>6, <1>7, InitInvariant DEF BInv

LEMMA ResetAll ==
  ASSUME BInv, NEW newPc \in {FreshPc, [t \in Tasks |-> "gone"]}, Reset(newPc)
  PROVE  BInv'
<1>1. WifiTypeOK' /\ wifi'.has_ip = FALSE /\ queue' = <<>> /\ drv'.link = "idle"
  BY WifiAssumption
  DEF Reset, WifiReset, WifiTypeOK, FreshWifi, FreshDriver, WifiStates, Modes, Links
<1>2. ~Coming'
  BY <1>1 DEF Coming, WillHaveIp
<1>3. Address'
  BY <1>1, <1>2 DEF Address, Sound, Remembered, Kept
<1>4. /\ pc' \in [Tasks -> Labels]
      /\ \A t \in Tasks : pc'[t] \in {"start", "off", "wait", "gone"}
      /\ \/ pc'["main"] = "start" /\ pc'["http"] = "off" /\ pc'["event"] = "wait"
         \/ pc'["main"] = "gone"
  <2>1. newPc \in [Tasks -> Labels]
    BY FreshLabels
  <2>2. \/ newPc["main"] = "start" /\ newPc["http"] = "off" /\ newPc["event"] = "wait"
        \/ newPc["main"] = "gone"
    BY TaskNames DEF FreshPc
  <2>3. \A t \in Tasks : newPc[t] \in {"start", "off", "wait", "gone"}
    BY DEF FreshPc, Tasks
  <2> QED BY <2>1, <2>2, <2>3 DEF Reset
<1>5. /\ {"start", "gone"} \subseteq MainLabels /\ "gone" \notin Early
      /\ {"start", "off", "wait", "gone"} \cap Connecting = {}
  BY DEF Connecting, MainLabels, Early
<1>6. OInv'
  BY <1>1, <1>4, <1>5, TaskNames DEF OInv, OneAttempt, NothingYet, Reset, NoTimers
<1>7. TInv'
  <2>1. polls' \in [Tasks -> 0..POLLS] /\ \A t \in Tasks : polls'[t] < POLLS
    BY BootAssumption DEF Reset
  <2>2. timers' \in [armed : 0..MaxTimers, stopping : 0..MaxTimers]
        /\ timers'.armed + timers'.stopping <= MaxTimers
    BY BootAssumption DEF Reset, NoTimers
  <2>3. {entered', lagging', creds', server', portal', dns'} \subseteq BOOLEAN /\ phase' \in Phases
    BY DEF Reset, Phases, BInv, TInv, TypeOK
  <2> QED BY <1>1, <1>4, <2>1, <2>2, <2>3 DEF TInv, TypeOK
<1> QED BY <1>3, <1>6, <1>7, ResetStep DEF BInv

\* The access point's timer and the driver.
LEMMA AsideAll ==
  ASSUME BInv, delayed_ap_stop_task \/ DriverStep \/ UNCHANGED vars
  PROVE  BInv'
<1>1. UNCHANGED <<phase, entered, pc, polls, lagging, creds, server, portal>>
  BY DEF delayed_ap_stop_task, ApStop, DnsStop, DriverStep, bootVars, vars
<1>2. WifiStep
  BY DEF delayed_ap_stop_task, ApStop, DnsStop, DriverStep, vars, WifiStep
<1>3. Address'
  BY <1>1, <1>2, AddressStep DEF BInv
<1>4. TInv'
  <2>1. dns' \in BOOLEAN
    BY DEF delayed_ap_stop_task, ApStop, DnsStop, DriverStep, bootVars, vars, BInv, TInv, TypeOK
  <2>2. /\ timers' \in [armed : 0..MaxTimers, stopping : 0..MaxTimers]
        /\ timers'.armed + timers'.stopping <= MaxTimers
    BY BootAssumption
    DEF delayed_ap_stop_task, ApStop, DnsStop, DriverStep, bootVars, vars, BInv, TInv, TypeOK
  <2> QED BY <1>1, <1>3, <2>1, <2>2 DEF BInv, TInv, TypeOK, Address
<1>5. OInv'
  <2>1. NothingYet => NothingYet'
    <3>1. ASSUME NothingYet PROVE UNCHANGED <<queue, drv>> /\ timers'.armed = 0
      BY <3>1
      DEF NothingYet, delayed_ap_stop_task, ApStop, DnsStop, DriverStep, Driver, Linked, bootVars,
          vars, wifiVars, BInv, TInv, TypeOK
    <3> QED BY <1>1, <3>1 DEF NothingYet
  <2> QED BY <1>1, <2>1 DEF BInv, OInv, OneAttempt
<1>6. IInv'
  BY <1>1, Stutter DEF BInv
<1> QED BY <1>3, <1>4, <1>5, <1>6 DEF BInv

LEMMA NextAll == BInv /\ [Next]_vars => BInv'
<1> SUFFICES ASSUME BInv, [Next]_vars PROVE BInv'
  OBVIOUS
<1>1. IInv' /\ IInv /\ OInv /\ TInv /\ Address /\ pc \in [Tasks -> Labels]
  BY NextInvariant DEF BInv, OInv
<1>2. CASE \E t \in Tasks : enter_provisioning_mode(t) \/ start_wifi_connection(t)
  <2>1. Address'
    BY <1>1, <1>2, AddressShared
  <2>2. OInv' /\ TInv'
    BY <1>1, <1>2, <2>1, SharedSteps, TypedShared DEF Address
  <2> QED BY <1>1, <2>1, <2>2 DEF BInv
<1>3. CASE boot_manager_start \/ HttpRequests \/ EventTask
  <2>1. Address'
    BY <1>1, <1>3, AddressTasks
  <2>2. OInv' /\ TInv'
    BY <1>1, <1>3, <2>1, TaskSteps, TypedTasks DEF Address
  <2> QED BY <1>1, <2>1, <2>2 DEF BInv
<1>4. CASE Restart \/ Handoff
  BY <1>4, ResetAll DEF Restart, Handoff
<1>5. CASE delayed_ap_stop_task \/ DriverStep \/ UNCHANGED vars
  BY <1>5, AsideAll
<1> QED BY <1>2, <1>3, <1>4, <1>5 DEF Next

LEMMA InvariantOfAll == Spec => []BInv
BY InitAll, NextAll, PTL DEF Spec

\* The state has the types of the code's variables; a retry is never counted beyond
\* DLM_WIFI_MAX_CONNECT_RETRIES, nor a round beyond the time-out (wifi_manager.c,
\* boot_manager.c).
THEOREM TypeCorrect == Spec => []TypeOK
<1>1. BInv => TypeOK
  BY DEF BInv, TInv
<1> QED BY <1>1, InvariantOfAll, PTL

\* provisioning_complete never starts an attempt while boot_manager_start's own is
\* under way, whatever the driver does meanwhile: the server it is called through
\* came up by a step that took the phase out of CONNECTING, and the delay before
\* it lasts long enough for the main task to see that.
THEOREM AlwaysOneAttempt == Spec => []OneAttempt
<1>1. BInv => OneAttempt
  BY DEF BInv, OInv
<1> QED BY <1>1, InvariantOfAll, PTL

\* Once every event is handled, has_ip is what the driver has: the last event in
\* the queue that decides it was posted by the last change of the link, and
\* wifi_manager_disconnect, which forgets the address first, drops the link next.
THEOREM HasIpIsAlwaysCurrent == Spec => []HasIpIsCurrent
<1>1. ASSUME BInv, Settled PROVE wifi.has_ip <=> drv.link = "online"
  <2>1. queue = <<>> /\ \A t \in Tasks : pc[t] # "disconnect_driver"
    BY <1>1, HomeLabel DEF Settled, Connecting
  <2>2. Coming <=> wifi.has_ip
    BY <2>1 DEF Coming, WillHaveIp
  <2> QED BY <1>1, <2>1, <2>2 DEF BInv, Address, Sound, Remembered, Kept
<1>2. BInv => HasIpIsCurrent
  BY <1>1 DEF HasIpIsCurrent
<1> QED BY <1>2, InvariantOfAll, PTL

-----------------------------------------------------------------------------
\* The access point of provisioning mode

\* Nobody takes the access point down, and no user scans while an event waits.
Undisturbed == ~ApStop /\ (Scan => queue = <<>>)

ApInv ==
  /\ ApKnown
  \* No scan ever takes the manager for idle ...
  /\ pc["http"] # "scan_idle"
  \* ... and who takes the access point down to connect brings it up again.
  /\ phase = "PROVISIONING" => ApUp \/ \E t \in Tasks : pc[t] \in {"enter_ap", "conn_start"}

LEMMA ApMove ==
  ASSUME ApInv, ApKnown', pc \in [Tasks -> Labels],
         NEW t \in Tasks, NEW label \in Labels \ {"scan_idle"}, Goto(t, label),
         ApUp => ApUp' \/ label = "conn_start",
         pc[t] \in {"enter_ap", "conn_start"} => ApUp',
         phase' = "PROVISIONING" => phase = "PROVISIONING" \/ label = "enter_ap"
  PROVE  ApInv'
<1>1. /\ pc' \in [Tasks -> Labels] /\ pc'[t] = label
      /\ \A u \in Tasks : u # t => pc'[u] = pc[u]
  BY Moved
<1>2. pc'["http"] # "scan_idle"
  BY <1>1, TaskNames DEF ApInv
<1>3. phase' = "PROVISIONING" =>
        ApUp' \/ \E u \in Tasks : pc'[u] \in {"enter_ap", "conn_start"}
  BY <1>1 DEF ApInv
<1> QED BY <1>2, <1>3 DEF ApInv

\* A step that moves a task without touching Wi-Fi.
LEMMA ApAside ==
  ASSUME ApInv, UNCHANGED wifiVars, pc \in [Tasks -> Labels],
         NEW t \in Tasks, NEW label \in Labels \ {"scan_idle"}, Goto(t, label),
         pc[t] \notin {"enter_ap", "conn_start"},
         phase' = "PROVISIONING" => phase = "PROVISIONING" \/ label = "enter_ap"
  PROVE  ApInv'
<1>1. ApKnown' /\ (ApUp => ApUp')
  BY DEF ApInv, ApKnown, ApUp, Linked, wifiVars
<1> QED BY <1>1, ApMove

LEMMA ApServer ==
  ASSUME IInv, ApInv, UNCHANGED <<wifiVars, phase>>, pc \in [Tasks -> Labels],
         NEW t \in Tasks, NEW ok \in Labels \ {"scan_idle"}, NEW failed \in Labels \ {"scan_idle"},
         http_server_init(t, ok, failed), pc[t] \notin {"enter_ap", "conn_start"}
  PROVE  ApInv'
<1>1. CASE Goto(t, ok) \/ Goto(t, failed)
  BY <1>1, ApAside
<1>2. CASE ~server /\ pc' = [pc EXCEPT ![t] = ok, !["http"] = "serve"]
  <2>1. pc["http"] \in {"off", "gone"}
    BY <1>2 DEF IInv
  <2>2. /\ pc'["http"] # "scan_idle"
        /\ \A u \in Tasks : pc[u] \in {"enter_ap", "conn_start"} => pc'[u] = pc[u]
    BY <1>2, <2>1, TaskNames
  <2> QED BY <2>2 DEF ApInv, ApKnown, ApUp, Linked, wifiVars
<1> QED BY <1>1, <1>2 DEF http_server_init

LEMMA ApShared ==
  ASSUME IInv, ApInv, WifiTypeOK, pc \in [Tasks -> Labels], NEW t \in Tasks,
         enter_provisioning_mode(t) \/ start_wifi_connection(t)
  PROVE  ApInv'
<1>1. /\ {Home(t), "enter", "enter_set", "enter_ap", "enter_ap_done", "enter_http",
          "enter_portal", "enter_error"} \subseteq Labels \ {"scan_idle"}
      /\ {"conn_ap", "conn_ap_done", "conn_stop", "conn_start", "conn_done", "poll", "sleep",
          "disconnect", "disconnect_driver"} \subseteq Labels \ {"scan_idle"}
  BY HomeLabel DEF Labels, Connecting, Entering
<1>2. CASE EnterCheck(t)
  BY <1>1, <1>2, ApAside DEF EnterCheck
<1>3. CASE EnterSet(t)
  BY <1>1, <1>3, ApAside DEF EnterSet
<1>4. CASE EnterAp(t)
  <2>1. CASE StartAp /\ Goto(t, "enter_ap_done")
    BY <1>1, <1>4, <2>1, ApStarts, ApMove DEF EnterAp, ApInv
  <2>2. CASE StartApDone /\ Goto(t, "enter_http") /\ pc[t] = "enter_ap_done"
    BY <1>1, <1>4, <2>2, ApRecords, ApMove DEF EnterAp, ApInv
  <2> QED BY <1>4, <2>1, <2>2 DEF EnterAp
<1>5. CASE EnterHttp(t)
  BY <1>1, <1>5, ApServer DEF EnterHttp
<1>6. CASE EnterPortal(t)
  BY <1>1, <1>6, ApAside DEF EnterPortal, web_portal_init
<1>7. CASE EnterError(t)
  BY <1>1, <1>7, ApAside DEF EnterError
<1>8. CASE ConnBegin(t)
  BY <1>1, <1>8, ApAside DEF ConnBegin, NoCredentials
<1>9. CASE ConnDriver(t)
  <2>1. CASE \/ StartAp /\ Goto(t, "conn_ap_done")
             \/ ConnectStart /\ Goto(t, "conn_done")
    BY <1>1, <1>9, <2>1, ApStarts, ApMove DEF ConnDriver, ApInv
  <2>2. CASE /\ pc[t] \notin {"enter_ap", "conn_start"}
             /\ \/ StartApDone /\ Goto(t, "conn_stop")
                \/ ConnectDone /\ Goto(t, "poll")
    BY <1>1, <1>9, <2>2, ApRecords, ApMove DEF ConnDriver, ApInv
  <2>3. CASE pc[t] = "conn_stop" /\ ConnectStop /\ Goto(t, "conn_start")
    BY <1>1, <1>9, <2>3, ApStopsToConnect, ApMove DEF ConnDriver, ApInv
  <2> QED BY <1>9, <2>1, <2>2, <2>3 DEF ConnDriver
<1>10. CASE Poll(t)
  BY <1>1, <1>10, ApAside DEF Poll
<1>11. CASE Sleep(t)
  BY <1>1, <1>11, ApAside DEF Sleep
<1>12. CASE Timeout(t)
  <2>1. CASE pc[t] = "disconnect" /\ DisconnectMark /\ Goto(t, "disconnect_driver")
    BY <1>1, <1>12, <2>1, ApRecords, ApMove DEF Timeout, ApInv
  <2>2. CASE pc[t] = "disconnect_driver" /\ DisconnectDriver /\ Goto(t, "enter")
    BY <1>1, <1>12, <2>2, ApDisconnects, ApMove DEF Timeout, ApInv
  <2> QED BY <1>12, <2>1, <2>2 DEF Timeout
<1> QED
  BY <1>2, <1>3, <1>4, <1>5, <1>6, <1>7, <1>8, <1>9, <1>10, <1>11, <1>12
  DEF enter_provisioning_mode, start_wifi_connection

\* A request comes over the access point or the station, and so with the access
\* point up: a manager that knows of it scans without switching it off.
LEMMA ApScan ==
  ASSUME ApInv, WifiTypeOK, pc \in [Tasks -> Labels], Scan, queue = <<>>
  PROVE  ApInv'
<1>1. ApUp
  BY DEF Scan, Request, Reachable, ApInv, ApKnown, Linked
<1>2. wifi.state # "IDLE"
  <2>1. Len(queue) = 0 /\ 1..0 = {}
    BY EmptySeq
  <2>2. \A j \in 1..Len(queue) : queue[j] \in Idles
    BY <2>1
  <2> QED BY <1>1, <2>2 DEF ApInv, ApKnown, MayIdle
<1>3. ApKnown' /\ (ApUp => ApUp')
  BY <1>2, ApDisconnects DEF Scan, ApInv
<1>4. "scan" \in Labels \ {"scan_idle"}
  BY DEF Labels
<1> QED BY <1>2, <1>3, <1>4, TaskNames, ApMove DEF Scan, Request

LEMMA ApTasks ==
  ASSUME IInv, ApInv, WifiTypeOK, pc \in [Tasks -> Labels],
         boot_manager_start \/ HttpRequests \/ EventTask, Scan => queue = <<>>
  PROVE  ApInv'
<1>1. {"wifi_init", "load", "halted", "conn_begin", "enter", "save", "boot_app", "handoff",
       "stay", "serve", "scan", "restart", "connected", "failed", "wait",
       "connected_http", "connected_portal"} \subseteq Labels \ {"scan_idle"}
  BY DEF Labels, Connecting, Entering
<1>2. CASE boot_manager_start
  BY <1>1, <1>2, TaskNames, ApAside
  DEF boot_manager_start, CheckReset, InitWifi, load_configuration
<1>3. CASE Submit
  BY <1>1, <1>3, TaskNames, ApAside DEF Submit, Request
<1>4. CASE provisioning_complete
  BY <1>1, <1>4, TaskNames, ApAside DEF provisioning_complete
<1>5. CASE BootApplication
  BY <1>1, <1>5, TaskNames, ApAside DEF BootApplication
<1>6. CASE StayInDlm
  BY <1>1, <1>6, TaskNames, ApAside DEF StayInDlm, web_portal_init
<1>7. CASE Scan
  BY <1>7, ApScan
<1>8. CASE ScanFinish
  <2>1. pc["http"] = "scan"
    BY <1>8 DEF ScanFinish, ApInv
  <2>2. UNCHANGED wifiVars
    BY <1>8, <2>1 DEF ScanFinish, ScanEnd
  <2> QED BY <1>1, <1>8, <2>1, <2>2, TaskNames, ApAside DEF ScanFinish
<1>9. CASE reset_wifi_handler
  BY <1>1, <1>9, TaskNames, ApAside DEF reset_wifi_handler, Request
<1>10. CASE HandleEvent
  <2>1. ApKnown' /\ (ApUp => ApUp')
    BY <1>10, ApHandles DEF HandleEvent, ApInv
  <2>2. PICK label \in {"connected", "failed", "wait"} : Goto("event", label)
    BY <1>10 DEF HandleEvent
  <2> QED BY <1>1, <1>10, <2>1, <2>2, TaskNames, ApMove DEF HandleEvent
<1>11. CASE OnWifiConnected
  BY <1>1, <1>11, TaskNames, ApAside DEF OnWifiConnected
<1>12. CASE ConnectedHttp
  BY <1>1, <1>12, TaskNames, ApServer DEF ConnectedHttp
<1>13. CASE ConnectedPortal
  BY <1>1, <1>13, TaskNames, ApAside DEF ConnectedPortal, web_portal_init
<1>14. CASE OnWifiFailed
  BY <1>1, <1>14, TaskNames, ApAside DEF OnWifiFailed
<1> QED
  BY <1>2, <1>3, <1>4, <1>5, <1>6, <1>7, <1>8, <1>9, <1>10, <1>11, <1>12, <1>13, <1>14
  DEF HttpRequests, EventTask

\* A reset, or the first power-up, starts with nothing up.
LEMMA ApFresh ==
  wifi = FreshWifi /\ drv = FreshDriver => ApKnown
BY DEF FreshWifi, FreshDriver, ApKnown, ApUp, Linked

LEMMA ApNext == BInv /\ ApInv /\ [Next]_vars /\ [Undisturbed]_vars => ApInv'
<1> SUFFICES ASSUME BInv, ApInv, [Next]_vars, [Undisturbed]_vars PROVE ApInv'
  OBVIOUS
<1>1. IInv /\ WifiTypeOK /\ pc \in [Tasks -> Labels]
  BY DEF BInv, OInv, Address
<1>2. CASE UNCHANGED <<wifiVars, phase, pc>>
  BY <1>2 DEF ApInv, ApKnown, ApUp, Linked, wifiVars
<1>3. CASE Next /\ Undisturbed
  <2>1. CASE boot_manager_start \/ HttpRequests \/ EventTask
    BY <1>1, <1>3, <2>1, ApTasks DEF Undisturbed
  <2>2. CASE \E t \in Tasks : enter_provisioning_mode(t) \/ start_wifi_connection(t)
    BY <1>1, <2>2, ApShared
  <2>3. CASE Restart \/ Handoff
    <3>1. PICK newPc \in {FreshPc, [t \in Tasks |-> "gone"]} : Reset(newPc)
      BY <2>3 DEF Restart, Handoff
    <3>2. ApKnown'
      BY <3>1 DEF Reset, WifiReset, FreshWifi, FreshDriver, ApKnown, ApUp, Linked
    <3>3. newPc["http"] \in {"off", "gone"}
      BY FreshLabels
    <3> QED BY <3>1, <3>2, <3>3 DEF Reset, ApInv
  <2>4. CASE delayed_ap_stop_task
    BY <1>2, <1>3, <2>4 DEF Undisturbed, delayed_ap_stop_task, DnsStop
  <2>5. CASE DriverStep
    BY <1>1, <2>5, ApDriverMoves DEF DriverStep, bootVars, ApInv
  <2> QED BY <1>3, <2>1, <2>2, <2>3, <2>4, <2>5 DEF Next
<1> QED BY <1>2, <1>3 DEF vars, bootVars

\* Provisioning mode keeps its access point through every connection attempt,
\* time-out, refusal and scan that went before, as long as no delayed_ap_stop_task
\* takes it down and no user scans while an event still waits: whatever the queue
\* holds then, it never leads wifi_manager_scan to take a manager whose access
\* point runs for an idle one, which would switch it off (wifi_manager.c:452).
THEOREM ProvisioningAlwaysKeepsAp ==
  Spec /\ [][Undisturbed]_vars => []ProvisioningKeepsAp
<1>1. Init => ApInv
  BY ApFresh DEF Init, WifiInit, FreshPc, ApInv
<1>2. ApInv => ProvisioningKeepsAp
  BY HomeLabel DEF ApInv, ProvisioningKeepsAp, Settled
<1> QED BY <1>1, <1>2, ApNext, InvariantOfAll, PTL DEF Spec

-----------------------------------------------------------------------------
\* The LED

\* The LED only watches: whatever the three tasks do with it and whenever, the boot
\* goes through no step that it could not go through without an LED (set_phase,
\* main.c), so that what is proved of the boot holds beside the LED too.
THEOREM LedOnlyWatches == LedSpec => Spec
<1>1. LedInit => Init
  BY DEF LedInit
<1>2. ASSUME [LedNext]_ledVars PROVE [Next]_vars
  <2>1. CASE MainStep \/ EventStep
    BY <2>1, TaskNames DEF MainStep, EventStep, Step, MainTask, Next
  <2>2. CASE HttpStep \/ UserStep
    BY <2>2, TaskNames DEF HttpStep, UserStep, Step, Next, HttpRequests
  <2>3. CASE LedReset \/ (DriverStep /\ UNCHANGED <<pattern, owes>>)
    BY <2>3 DEF LedReset, Next
  <2>4. CASE UNCHANGED vars
    BY <2>4
  <2> QED BY <1>2, <2>1, <2>2, <2>3, <2>4 DEF LedNext, led_set_pattern, Refresh, ledVars
<1> QED BY <1>1, <1>2, PTL DEF LedSpec, Spec

=============================================================================
