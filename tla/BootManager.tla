----------------------------- MODULE BootManager -----------------------------
(* core/boot_manager.c over WifiManager: the boot phase and the tasks that move *)
(* it. The main task runs boot_manager_start, the HTTP server's task runs the   *)
(* web portal's handlers one request at a time, the event task runs the         *)
(* callbacks of wifi_event_handler, and each connection arms a task that takes  *)
(* the access point down later. They share s_boot, s_wifi and the driver        *)
(* without a lock. A step is what a task does between two points where another  *)
(* may run; the factory reset of a boot is module ResetDetector's.              *)
EXTENDS WifiManager

CONSTANTS
  POLLS,      \* rounds of 100 ms in DLM_WIFI_CONNECT_TIMEOUT_SEC: 600 in the code
  MaxTimers,  \* bound: access-point timers at a time; xTaskCreate fails beyond it
  Faults,     \* what may fail: members of FaultKinds
  Prompt      \* the timing: TRUE if the radio and the 20 s timer are slower than
              \* the tasks' code between two waits, FALSE if nothing is assumed

FaultKinds == {"wifi_init", "nvs", "http", "portal", "dns", "set_boot"}

ASSUME BootAssumption == /\ POLLS \in Nat \ {0} /\ MaxTimers \in Nat /\ Faults \subseteq FaultKinds
                         /\ Prompt \in BOOLEAN

VARIABLES
  phase,     \* s_boot.phase
  entered,   \* s_boot.provisioning_entered
  pc,        \* where each task is
  polls,     \* rounds each task has waited in start_wifi_connection
  lagging,   \* the main task is in start_wifi_connection and has neither polled nor
             \* timed out since the portal's 500 ms delay began
  creds,     \* NVS: Wi-Fi credentials are stored
  server,    \* s_server.initialized
  portal,    \* s_portal_initialized
  dns,       \* s_dns.running
  timers     \* how many delayed_ap_stop_task are in each of their two stages

bootVars == <<phase, entered, pc, polls, lagging, creds, server, portal, dns, timers>>
vars == <<wifiVars, bootVars>>

Tasks == {"main", "http", "event"}
Phases == {"INIT", "CHECK_RESET", "LOAD_CONFIG", "WIFI_INIT", "PROVISIONING",
           "CONNECTING", "CONNECTED", "APP_BOOT", "ERROR"}

\* Inside start_wifi_connection, and inside enter_provisioning_mode.
Connecting == {"conn_begin", "conn_ap", "conn_ap_done", "conn_stop", "conn_start",
               "conn_done", "poll", "sleep", "disconnect", "disconnect_driver"}
Entering == {"enter", "enter_set", "enter_ap", "enter_ap_done", "enter_http",
             "enter_portal", "enter_error"}
Labels == Connecting \cup Entering \cup
  {"start", "wifi_init", "load", "loop",                        \* main
   "off", "serve", "save", "boot_app", "stay", "scan", "scan_idle", "restart", "handoff",
   "wait", "connected", "connected_http", "connected_portal", "failed",
   "halted", "gone"}

TypeOK ==
  /\ WifiTypeOK
  /\ phase \in Phases
  /\ entered \in BOOLEAN
  /\ pc \in [Tasks -> Labels]
  /\ polls \in [Tasks -> 0..POLLS]
  /\ lagging \in BOOLEAN
  /\ creds \in BOOLEAN /\ server \in BOOLEAN /\ portal \in BOOLEAN /\ dns \in BOOLEAN
  /\ timers \in [armed : 0..MaxTimers, stopping : 0..MaxTimers]

FreshPc == [main |-> "start", http |-> "off", event |-> "wait"]
NoTimers == [armed |-> 0, stopping |-> 0]

Init ==
  /\ WifiInit
  /\ phase = "INIT" /\ entered = FALSE
  /\ pc = FreshPc
  /\ polls = [t \in Tasks |-> 0] /\ lagging = FALSE
  /\ creds \in BOOLEAN
  /\ server = FALSE /\ portal = FALSE /\ dns = FALSE
  /\ timers = NoTimers

Goto(t, label) == pc' = [pc EXCEPT ![t] = label]

\* Every task waits: for time to pass, a request, an event.
Quiet ==
  /\ queue = <<>>
  /\ \A t \in Tasks :
       pc[t] \in {"off", "loop", "sleep", "serve", "save", "boot_app", "wait", "halted", "gone"}

\* Where a task goes when the function it called returns.
Home(t) == CASE t = "main" -> "loop" [] t = "http" -> "serve" [] t = "event" -> "wait"

-----------------------------------------------------------------------------
\* The parts both callers share.

\* http_server_init: the server's task appears; the socket or the task may fail.
http_server_init(t, ok, failed) ==
  \/ /\ server
     /\ Goto(t, ok)
     /\ UNCHANGED server
  \/ /\ ~server
     /\ server' = TRUE
     /\ pc' = [pc EXCEPT ![t] = ok, !["http"] = "serve"]
  \/ /\ ~server /\ "http" \in Faults
     /\ Goto(t, failed)
     /\ UNCHANGED server

\* The end of web_portal_init: captive DNS, whose failure is ignored, then the flag.
PortalUp ==
  /\ portal' = TRUE
  /\ dns' = TRUE \/ ("dns" \in Faults /\ UNCHANGED dns)

\* web_portal_init: once initialized it does nothing, the DNS server included.
web_portal_init(t, ok, failed) ==
  \/ /\ portal
     /\ Goto(t, ok)
     /\ UNCHANGED <<portal, dns>>
  \/ /\ ~portal
     /\ PortalUp
     /\ Goto(t, ok)
  \/ /\ ~portal /\ "portal" \in Faults
     /\ Goto(t, failed)
     /\ UNCHANGED <<portal, dns>>

-----------------------------------------------------------------------------
\* enter_provisioning_mode, in task t

EnterCheck(t) ==
  /\ pc[t] = "enter"
  /\ Goto(t, IF entered THEN Home(t) ELSE "enter_set")
  /\ UNCHANGED <<wifiVars, phase, entered, polls, lagging, creds, server, portal, dns, timers>>

EnterSet(t) ==
  /\ pc[t] = "enter_set"
  /\ entered' = TRUE
  /\ phase' = "PROVISIONING"
  /\ Goto(t, "enter_ap")
  /\ UNCHANGED <<wifiVars, polls, lagging, creds, server, portal, dns, timers>>

\* Fault: the access point started only by a manager that does not believe it runs.
FaultyEnterAp(t) ==
  /\ \/ pc[t] = "enter_ap" /\ wifi.state # "STA_FAILED" /\ Goto(t, "enter_http") /\ UNCHANGED wifiVars
     \/ pc[t] = "enter_ap" /\ wifi.state = "STA_FAILED" /\ StartAp /\ Goto(t, "enter_ap_done")
     \/ pc[t] = "enter_ap_done" /\ StartApDone /\ Goto(t, "enter_http")
  /\ UNCHANGED <<phase, entered, polls, lagging, creds, server, portal, dns, timers>>

EnterAp(t) ==
  /\ \/ pc[t] = "enter_ap" /\ StartAp /\ Goto(t, "enter_ap_done")
     \/ pc[t] = "enter_ap_done" /\ StartApDone /\ Goto(t, "enter_http")
  /\ UNCHANGED <<phase, entered, polls, lagging, creds, server, portal, dns, timers>>

EnterHttp(t) ==
  /\ pc[t] = "enter_http"
  /\ http_server_init(t, "enter_portal", "enter_error")
  /\ UNCHANGED <<wifiVars, phase, entered, polls, lagging, creds, portal, dns, timers>>

EnterPortal(t) ==
  /\ pc[t] = "enter_portal"
  /\ web_portal_init(t, Home(t), "enter_error")
  /\ UNCHANGED <<wifiVars, phase, entered, polls, lagging, creds, server, timers>>

\* Fault: the error only logged.
FaultyEnterError(t) ==
  /\ pc[t] = "enter_error"
  /\ Goto(t, Home(t))
  /\ UNCHANGED <<wifiVars, phase, entered, polls, lagging, creds, server, portal, dns, timers>>

EnterError(t) ==
  /\ pc[t] = "enter_error"
  /\ phase' = "ERROR"
  /\ Goto(t, Home(t))
  /\ UNCHANGED <<wifiVars, entered, polls, lagging, creds, server, portal, dns, timers>>

enter_provisioning_mode(t) ==
  \/ EnterCheck(t) \/ EnterSet(t) \/ EnterAp(t) \/ EnterHttp(t)
  \/ EnterPortal(t) \/ EnterError(t)

-----------------------------------------------------------------------------
\* start_wifi_connection, in task t

\* Fault: an early return where provisioning mode is due.
FaultyNoCredentials(t) == Goto(t, Home(t))

NoCredentials(t) == Goto(t, "enter")

\* The phase, and the credentials: an NVS error falls back to provisioning.
ConnBegin(t) ==
  /\ pc[t] = "conn_begin"
  /\ phase' = "CONNECTING"
  /\ \/ Goto(t, "conn_ap")
     \/ "nvs" \in Faults /\ NoCredentials(t)
  /\ UNCHANGED <<wifiVars, entered, polls, lagging, creds, server, portal, dns, timers>>

\* wifi_manager_start_ap, then wifi_manager_connect.
ConnDriver(t) ==
  /\ \/ pc[t] = "conn_ap" /\ StartAp /\ Goto(t, "conn_ap_done")
     \/ pc[t] = "conn_ap_done" /\ StartApDone /\ Goto(t, "conn_stop")
     \/ pc[t] = "conn_stop" /\ ConnectStop /\ Goto(t, "conn_start")
     \/ pc[t] = "conn_start" /\ ConnectStart /\ Goto(t, "conn_done")
     \/ pc[t] = "conn_done" /\ ConnectDone /\ Goto(t, "poll")
  /\ polls' = [polls EXCEPT ![t] = 0]
  /\ UNCHANGED <<phase, entered, lagging, creds, server, portal, dns, timers>>

\* The head of the wait loop: the event task may have taken over.
Poll(t) ==
  /\ pc[t] = "poll"
  /\ Goto(t, IF phase = "CONNECTING" THEN "sleep" ELSE Home(t))
  /\ polls' = IF phase = "CONNECTING" THEN polls ELSE [polls EXCEPT ![t] = 0]
  /\ lagging' = (lagging /\ t # "main")
  /\ UNCHANGED <<wifiVars, phase, entered, creds, server, portal, dns, timers>>

\* Fault: the rounds not counted.
FaultySleep(t) ==
  /\ pc[t] = "sleep"
  /\ Goto(t, "poll")
  /\ UNCHANGED <<wifiVars, phase, entered, polls, lagging, creds, server, portal, dns, timers>>

\* vTaskDelay(100 ms); after the last one the phase is not looked at again.
Sleep(t) ==
  /\ pc[t] = "sleep"
  /\ polls' = [polls EXCEPT ![t] = @ + 1]
  /\ Goto(t, IF polls[t] + 1 < POLLS THEN "poll" ELSE "disconnect")
  /\ UNCHANGED <<wifiVars, phase, entered, lagging, creds, server, portal, dns, timers>>

Timeout(t) ==
  /\ \/ pc[t] = "disconnect" /\ DisconnectMark /\ Goto(t, "disconnect_driver")
     \/ pc[t] = "disconnect_driver" /\ DisconnectDriver /\ Goto(t, "enter")
  /\ polls' = [polls EXCEPT ![t] = 0]
  /\ lagging' = (lagging /\ (t # "main" \/ pc[t] = "disconnect"))
  /\ UNCHANGED <<phase, entered, creds, server, portal, dns, timers>>

start_wifi_connection(t) ==
  ConnBegin(t) \/ ConnDriver(t) \/ Poll(t) \/ Sleep(t) \/ Timeout(t)

-----------------------------------------------------------------------------
\* The main task: boot_manager_start

CheckReset ==
  /\ pc["main"] = "start"
  /\ phase' = "CHECK_RESET"
  /\ Goto("main", "wifi_init")
  /\ UNCHANGED <<wifiVars, entered, polls, lagging, creds, server, portal, dns, timers>>

\* wifi_manager_init; on failure the callback halts the task it is called in.
InitWifi ==
  /\ pc["main"] = "wifi_init"
  /\ \/ phase' = "WIFI_INIT" /\ Goto("main", "load")
     \/ "wifi_init" \in Faults /\ phase' = "ERROR" /\ Goto("main", "halted")
  /\ UNCHANGED <<wifiVars, entered, polls, lagging, creds, server, portal, dns, timers>>

load_configuration ==
  /\ pc["main"] = "load"
  /\ phase' = "LOAD_CONFIG"
  /\ Goto("main", IF creds THEN "conn_begin" ELSE "enter")
  /\ UNCHANGED <<wifiVars, entered, polls, lagging, creds, server, portal, dns, timers>>

boot_manager_start == CheckReset \/ InitWifi \/ load_configuration

-----------------------------------------------------------------------------
\* The HTTP task: requests a user can make who reaches the device.

Reachable == ApUp \/ drv.link = "online"

\* web_portal_init has registered the portal's routes, or is registering them in
\* another task; each is served from then on.
Routed == portal \/ \E t \in Tasks : pc[t] \in {"enter_portal", "connected_portal"}

Request ==
  /\ pc["http"] = "serve"
  /\ Routed /\ Reachable
  /\ Len(queue) < MaxQueue

\* Fault: the answer sent without the 500 ms delay after it.
FaultyDelay == lagging' = FALSE

\* The delay begins: a main task inside start_wifi_connection has not polled since.
Delay == lagging' = (pc["main"] \in Connecting)

\* POST /settings with a network, or /boot-app: answer, then wait 500 ms.
Submit ==
  /\ Request
  /\ \/ Goto("http", "save")
     \/ Goto("http", "boot_app")
  /\ Delay
  /\ UNCHANGED <<wifiVars, phase, entered, polls, creds, server, portal, dns, timers>>

\* boot_manager_provisioning_complete. The delay outlasts a round of the main
\* task's wait loop.
provisioning_complete ==
  /\ pc["http"] = "save"
  /\ ~lagging
  /\ \/ creds' = TRUE /\ Goto("http", "conn_begin")
     \/ "nvs" \in Faults /\ Goto("http", "serve") /\ UNCHANGED creds
  /\ UNCHANGED <<wifiVars, phase, entered, polls, lagging, server, portal, dns, timers>>

\* boot_manager_boot_application up to the decision; a partition that cannot be
\* set halts the task in the callback.
BootApplication ==
  /\ pc["http"] = "boot_app"
  /\ ~lagging
  /\ \/ phase' = "APP_BOOT" /\ Goto("http", "handoff")
     \/ phase' = "APP_BOOT" /\ Goto("http", "stay")
     \/ "set_boot" \in Faults /\ phase' = "ERROR" /\ Goto("http", "halted")
  /\ UNCHANGED <<wifiVars, entered, polls, lagging, creds, server, portal, dns, timers>>

\* stay_in_dlm: no application. The server is up, its task runs this.
StayInDlm ==
  /\ pc["http"] = "stay"
  /\ web_portal_init("http", "serve", "serve")
  /\ phase' = "CONNECTED"
  /\ UNCHANGED <<wifiVars, entered, polls, lagging, creds, server, timers>>

\* GET /scan
Scan ==
  /\ Request
  /\ ScanBegin
  /\ Goto("http", IF wifi.state = "IDLE" THEN "scan_idle" ELSE "scan")
  /\ UNCHANGED <<phase, entered, polls, lagging, creds, server, portal, dns, timers>>

\* Where the driver was started for the scan it is stopped again before its results are
\* asked for: esp_wifi_scan_get_ap_records may fail then, and ESP_ERROR_CHECK abort.
ScanFinish ==
  /\ pc["http"] \in {"scan", "scan_idle"}
  /\ IF ScanAborts
     THEN Goto("http", "restart") /\ UNCHANGED wifiVars
     ELSE /\ ScanEnd(pc["http"] = "scan_idle")
          /\ \/ Goto("http", "serve")
             \/ pc["http"] = "scan_idle" /\ Goto("http", "restart")
  /\ UNCHANGED <<phase, entered, polls, lagging, creds, server, portal, dns, timers>>

\* POST /reset-wifi
reset_wifi_handler ==
  /\ Request
  /\ creds' = FALSE
  /\ Goto("http", "restart")
  /\ UNCHANGED <<wifiVars, phase, entered, polls, lagging, server, portal, dns, timers>>

HttpRequests ==
  \/ Submit \/ provisioning_complete \/ BootApplication \/ StayInDlm
  \/ Scan \/ ScanFinish \/ reset_wifi_handler

\* The chip restarts: nothing in RAM survives.
Reset(newPc) ==
  /\ WifiReset
  /\ phase' = "INIT" /\ entered' = FALSE
  /\ pc' = newPc
  /\ polls' = [t \in Tasks |-> 0] /\ lagging' = FALSE
  /\ server' = FALSE /\ portal' = FALSE /\ dns' = FALSE
  /\ timers' = NoTimers
  /\ UNCHANGED creds

\* esp_restart, or the abort of a failed ESP_ERROR_CHECK.
Restart == pc["http"] = "restart" /\ Reset(FreshPc)

\* The restart into the application: this firmware does not run any more.
Handoff == pc["http"] = "handoff" /\ Reset([t \in Tasks |-> "gone"])

-----------------------------------------------------------------------------
\* The event task

\* wifi_event_handler up to the callback it makes, if it makes one.
HandleEvent ==
  /\ pc["event"] = "wait"
  /\ \E e \in Events :
       /\ wifi_event_handler(e)
       /\ Goto("event", IF e = "GOT_IP" THEN "connected"
                        ELSE IF GivesUp(e) THEN "failed" ELSE "wait")
  /\ UNCHANGED <<phase, entered, polls, lagging, creds, server, portal, dns, timers>>

\* boot_manager_on_wifi_connected
OnWifiConnected ==
  /\ pc["event"] = "connected"
  /\ IF phase \in {"CONNECTING", "PROVISIONING"}
     THEN phase' = "CONNECTED" /\ Goto("event", "connected_http")
     ELSE UNCHANGED phase /\ Goto("event", "wait")
  /\ UNCHANGED <<wifiVars, entered, polls, lagging, creds, server, portal, dns, timers>>

\* Failures of the server or the portal are only logged here.
ConnectedHttp ==
  /\ pc["event"] = "connected_http"
  /\ http_server_init("event", "connected_portal", "connected_portal")
  /\ UNCHANGED <<wifiVars, phase, entered, polls, lagging, creds, portal, dns, timers>>

\* The portal; then the timer that takes the access point down.
ConnectedPortal ==
  /\ pc["event"] = "connected_portal"
  /\ web_portal_init("event", "wait", "wait")
  /\ timers' = [timers EXCEPT !.armed =
                  IF timers.armed + timers.stopping < MaxTimers THEN @ + 1 ELSE @]
  /\ UNCHANGED <<wifiVars, phase, entered, polls, lagging, creds, server>>

\* boot_manager_on_wifi_failed
OnWifiFailed ==
  /\ pc["event"] = "failed"
  /\ Goto("event", IF phase = "CONNECTING" THEN "enter" ELSE "wait")
  /\ UNCHANGED <<wifiVars, phase, entered, polls, lagging, creds, server, portal, dns, timers>>

EventTask ==
  HandleEvent \/ OnWifiConnected \/ ConnectedHttp \/ ConnectedPortal \/ OnWifiFailed

-----------------------------------------------------------------------------
\* delayed_ap_stop_task, 20 s after the connection that armed it

ApStop ==
  /\ timers.armed > 0
  /\ Prompt => Quiet
  /\ StopAp
  /\ timers' = [armed |-> timers.armed - 1, stopping |-> timers.stopping + 1]
  /\ UNCHANGED <<phase, entered, pc, polls, lagging, creds, server, portal, dns>>

DnsStop ==
  /\ timers.stopping > 0
  /\ dns' = FALSE
  /\ timers' = [timers EXCEPT !.stopping = @ - 1]
  /\ UNCHANGED <<wifiVars, phase, entered, pc, polls, lagging, creds, server, portal>>

delayed_ap_stop_task == ApStop \/ DnsStop

-----------------------------------------------------------------------------
DriverStep == (Prompt => Quiet) /\ Driver /\ UNCHANGED bootVars

Next ==
  \/ boot_manager_start
  \/ \E t \in Tasks : enter_provisioning_mode(t) \/ start_wifi_connection(t)
  \/ HttpRequests
  \/ Restart
  \/ Handoff
  \/ EventTask
  \/ delayed_ap_stop_task
  \/ DriverStep

Spec == Init /\ [][Next]_vars

MainTask ==
  boot_manager_start \/ enter_provisioning_mode("main") \/ start_wifi_connection("main")
HttpTask ==
  \/ enter_provisioning_mode("http") \/ start_wifi_connection("http")
  \/ provisioning_complete \/ BootApplication \/ StayInDlm \/ ScanFinish
  \/ Restart \/ Handoff

\* The scheduler runs every task that is ready. Neither the driver nor the users
\* owe anything.
FairSpec ==
  /\ Spec
  /\ WF_vars(MainTask) /\ WF_vars(HttpTask) /\ WF_vars(EventTask)
  /\ WF_vars(delayed_ap_stop_task)

-----------------------------------------------------------------------------
\* No task is in the middle of something: events are handled, and the main and
\* HTTP tasks are back in their loops.
Settled == queue = <<>> /\ \A t \in Tasks : pc[t] = Home(t)

\* What the firmware believes of its address is what the driver has, once every
\* event is handled: wifi_event_handler, wifi_manager_connect and
\* wifi_manager_disconnect leave no stale has_ip behind, in whatever order the
\* tasks' calls and the driver's events come.
HasIpIsCurrent == Settled => (wifi.has_ip <=> drv.link = "online")

\* Two connection attempts never overlap: the portal's 500 ms delay lets the main
\* task notice that its own attempt is over (start_wifi_connection's loop) before
\* provisioning_complete starts another under the same phase.
OneAttempt == pc["main"] \in Connecting => pc["http"] \notin Connecting

\* Until provisioning mode was entered once, the CONNECTING phase always has a
\* task behind it that will end it: one that connects, or an event on its way
\* into enter_provisioning_mode.
ConnectingIsDriven ==
  phase = "CONNECTING" /\ ~entered =>
    \E t \in Tasks : pc[t] \in Connecting \cup Entering

\* In provisioning mode there is a portal to provision with: the phase stays
\* PROVISIONING only with the HTTP server and the portal's routes up.
ProvisioningIsServed ==
  phase = "PROVISIONING" /\ (\A t \in Tasks : pc[t] \notin Entering) => server /\ portal

\* Where delayed_ap_stop_task never runs (MaxTimers = 0), provisioning mode keeps
\* its access point, whatever connection attempts, time-outs and scans went before.
\* It takes users who ask for nothing while an event waits (MaxQueue = 1): with an
\* old AP_STOP, wifi_manager_scan takes a restarting access point for an idle
\* manager, and switches it off.
ProvisioningKeepsAp == Settled /\ phase = "PROVISIONING" => ApUp

\* Every first attempt to connect ends: the time-out of start_wifi_connection, a
\* permanent refusal or the connection take the phase out of CONNECTING.
FirstAttemptEnds == (phase = "CONNECTING" /\ ~entered) ~> phase # "CONNECTING"

\* The HTTP task comes back to its clients (or restarts the device) after every
\* request, although provisioning_complete keeps it for the whole time-out.
HttpServesAgain == pc["http"] = "conn_begin" ~> pc["http"] \in {"serve", "start"}

\* dlm_config.h: a connection that fails after its retries falls back to
\* provisioning; so the phase is not CONNECTING when nobody connects any more.
NoAttemptNoConnecting == Settled /\ ~Linked => phase # "CONNECTING"

=============================================================================
