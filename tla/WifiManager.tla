----------------------------- MODULE WifiManager -----------------------------
(* network/wifi_manager.c: the state s_wifi, the steps of its operations and    *)
(* its event handler, over a model of the ESP-IDF Wi-Fi driver. The driver acts *)
(* at once on a call and reports what happened through the default event loop,  *)
(* a FIFO served later by one task; every operation that the code performs as   *)
(* several calls is split here where an event can be handled in between.        *)
(* BootManager composes these steps with the tasks that take them.              *)
EXTENDS Integers, Sequences

CONSTANTS
  MAX_RETRIES,  \* DLM_WIFI_MAX_CONNECT_RETRIES, 5 in the code
  MaxQueue      \* bound: the driver reports nothing of its own accord, and users
                \* ask for nothing, while this many events wait

ASSUME WifiAssumption == MAX_RETRIES \in Nat /\ MaxQueue \in Nat

VARIABLES
  wifi,   \* s_wifi: state, has_ip, connect_retries
  drv,    \* external, the driver: mode, started, and how far the link has got
  queue   \* external, the default event loop: events not handled yet

wifiVars == <<wifi, drv, queue>>

WifiStates == {"IDLE", "STA_CONNECTING", "STA_CONNECTED", "STA_FAILED", "AP_MODE"}
Modes == {"NULL", "STA", "APSTA"}
Links == {"idle", "connecting", "associated", "online"}
\* DISCONNECTED carries a reason worth a retry, REFUSED a permanent one.
Events == {"STA_CONNECTED", "DISCONNECTED", "REFUSED", "AP_START", "AP_STOP",
           "GOT_IP", "LOST_IP"}

WifiTypeOK ==
  /\ wifi \in [state : WifiStates, has_ip : BOOLEAN, connect_retries : 0..MAX_RETRIES]
  /\ drv \in [mode : Modes, started : BOOLEAN, link : Links]
  /\ queue \in Seq(Events)

\* After a reset of the chip, and wifi_manager_init.
FreshWifi == [state |-> "IDLE", has_ip |-> FALSE, connect_retries |-> 0]
FreshDriver == [mode |-> "NULL", started |-> FALSE, link |-> "idle"]

WifiInit == wifi = FreshWifi /\ drv = FreshDriver /\ queue = <<>>
WifiReset == wifi' = FreshWifi /\ drv' = FreshDriver /\ queue' = <<>>

-----------------------------------------------------------------------------
\* The driver.

ApUp == drv.started /\ drv.mode = "APSTA"

Linked == drv.link # "idle"

\* <<e>> if c holds, else nothing.
When(c, e) == IF c THEN <<e>> ELSE <<>>

Post(events) == queue' = queue \o events

\* esp_wifi_set_mode and esp_wifi_start with the access point in the mode.
ApDriver == [drv EXCEPT !.mode = "APSTA", !.started = TRUE]

\* esp_wifi_stop: what it ends it also reports.
StoppedDriver == [drv EXCEPT !.started = FALSE, !.link = "idle"]
StopEvents == When(Linked, "DISCONNECTED") \o When(ApUp, "AP_STOP")

\* esp_wifi_connect has no effect on a stopped or busy station.
Joining(d) == IF d.started /\ d.link = "idle" THEN [d EXCEPT !.link = "connecting"] ELSE d

\* esp_wifi_disconnect reports a reason the handler takes for a transient one.
esp_wifi_disconnect ==
  /\ drv' = [drv EXCEPT !.link = "idle"]
  /\ Post(When(Linked, "DISCONNECTED"))

\* What the station does on its own.
Driver ==
  /\ Len(queue) < MaxQueue
  /\ \/ /\ drv.link = "connecting"
        /\ \/ drv' = [drv EXCEPT !.link = "associated"] /\ Post(<<"STA_CONNECTED">>)
           \/ drv' = [drv EXCEPT !.link = "idle"] /\ Post(<<"REFUSED">>)
     \/ /\ drv.link = "associated"
        /\ drv' = [drv EXCEPT !.link = "online"]
        /\ Post(<<"GOT_IP">>)
     \/ /\ drv.link = "online"
        /\ drv' = [drv EXCEPT !.link = "associated"]
        /\ Post(<<"LOST_IP">>)
     \/ /\ Linked
        /\ drv' = [drv EXCEPT !.link = "idle"]
        /\ Post(<<"DISCONNECTED">>)
  /\ UNCHANGED wifi

-----------------------------------------------------------------------------
\* wifi_manager_start_ap

StartAp ==
  /\ drv' = ApDriver
  /\ Post(When(~ApUp, "AP_START"))
  /\ UNCHANGED wifi

StartApDone ==
  /\ wifi' = [wifi EXCEPT !.state = "AP_MODE"]
  /\ UNCHANGED <<drv, queue>>

\* wifi_manager_stop_ap: a station that runs beside the access point keeps running.
StopAp ==
  /\ drv' = [drv EXCEPT !.mode = IF drv.mode = "APSTA" THEN "STA" ELSE drv.mode]
  /\ Post(When(ApUp, "AP_STOP"))
  /\ UNCHANGED wifi

\* wifi_manager_connect: stop and forget the retries ...
ConnectStop ==
  /\ drv' = StoppedDriver
  /\ Post(StopEvents)
  /\ wifi' = [wifi EXCEPT !.connect_retries = 0]

\* ... start again with the new network ...
ConnectStart ==
  /\ drv' = Joining(ApDriver)
  /\ Post(When(~ApUp, "AP_START"))
  /\ UNCHANGED wifi

\* ... and record it.
ConnectDone ==
  /\ wifi' = [wifi EXCEPT !.state = "STA_CONNECTING"]
  /\ UNCHANGED <<drv, queue>>

\* wifi_manager_disconnect: the flag first, the driver second.
DisconnectMark ==
  /\ wifi' = [wifi EXCEPT !.has_ip = FALSE]
  /\ UNCHANGED <<drv, queue>>

DisconnectDriver == esp_wifi_disconnect /\ UNCHANGED wifi

\* wifi_manager_scan up to esp_wifi_scan_start. A station that is connecting is
\* told to stop; a manager that is idle starts the driver for the scan.
ScanBegin ==
  /\ IF wifi.state = "STA_CONNECTING" THEN esp_wifi_disconnect
     ELSE IF wifi.state = "IDLE"
       THEN drv' = [drv EXCEPT !.mode = "STA", !.started = TRUE] /\ Post(When(ApUp, "AP_STOP"))
       ELSE UNCHANGED <<drv, queue>>
  /\ UNCHANGED wifi

\* esp_wifi_scan_start fails, and ESP_ERROR_CHECK aborts, in these states.
ScanAborts == drv.link = "connecting" \/ ~drv.started

\* The rest of the scan up to its results, wasIdle being what the manager was at its start.
ScanEnd(wasIdle) ==
  IF wasIdle
  THEN /\ drv' = [StoppedDriver EXCEPT !.mode = "NULL"]
       /\ Post(StopEvents)
       /\ wifi' = [wifi EXCEPT !.state = "IDLE"]
  ELSE UNCHANGED wifiVars

-----------------------------------------------------------------------------
\* wifi_event_handler

\* Fault: one retry too many.
FaultyGivesUp(e) ==
  e = "REFUSED" \/ (e = "DISCONNECTED" /\ wifi.connect_retries > MAX_RETRIES)

\* No (more) retries after this event: boot_manager_on_wifi_failed is called.
GivesUp(e) ==
  e = "REFUSED" \/ (e = "DISCONNECTED" /\ wifi.connect_retries >= MAX_RETRIES)

\* Fault: the flag left as it was.
FaultyAfterLoss(e) ==
  IF GivesUp(e) THEN [wifi EXCEPT !.state = "STA_FAILED"]
  ELSE [wifi EXCEPT !.state = "STA_CONNECTING", !.connect_retries = @ + 1]

\* STA_DISCONNECTED: give up, or connect again.
AfterLoss(e) ==
  IF GivesUp(e) THEN [wifi EXCEPT !.has_ip = FALSE, !.state = "STA_FAILED"]
  ELSE [wifi EXCEPT !.has_ip = FALSE, !.state = "STA_CONNECTING", !.connect_retries = @ + 1]

AfterEvent(e) ==
  CASE e \in {"DISCONNECTED", "REFUSED"} -> AfterLoss(e)
    [] e = "STA_CONNECTED" -> [wifi EXCEPT !.state = "STA_CONNECTED"]
    [] e = "GOT_IP" -> [wifi EXCEPT !.has_ip = TRUE, !.state = "STA_CONNECTED"]
    [] e = "LOST_IP" -> [wifi EXCEPT !.has_ip = FALSE]
    [] e = "AP_START" -> [wifi EXCEPT !.state = "AP_MODE"]
    [] e = "AP_STOP" -> [wifi EXCEPT !.state = IF @ = "AP_MODE" THEN "IDLE" ELSE @]

\* The handler takes the oldest event.
wifi_event_handler(e) ==
  /\ queue # <<>>
  /\ e = Head(queue)
  /\ queue' = Tail(queue)
  /\ wifi' = AfterEvent(e)
  /\ drv' = IF e = "DISCONNECTED" /\ ~GivesUp(e) THEN Joining(drv) ELSE drv

=============================================================================
