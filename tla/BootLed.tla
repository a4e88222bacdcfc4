------------------------------- MODULE BootLed -------------------------------
(* The LED beside BootManager. set_phase writes the phase, chooses the pattern   *)
(* for it and hands that to led_set_pattern, in whichever of three tasks it runs;*)
(* main.c's loop compares pattern and phase every 100 ms. What led_pattern_task  *)
(* makes of a pattern is left out: it shows whatever is set.                     *)
EXTENDS BootManager

VARIABLES
  pattern,  \* s_led.current_pattern
  owes      \* the pattern each task has chosen and not written yet, or Nothing

ledVars == <<vars, pattern, owes>>

Nothing == "nothing"

FreshOwes == [t \in Tasks |-> Nothing]

\* app_main's test of the LED, before the boot manager starts, leaves it off.
LedInit == Init /\ pattern = "OFF" /\ owes = FreshOwes

boot_manager_get_led_pattern ==
  CASE phase \in {"INIT", "CHECK_RESET", "LOAD_CONFIG", "WIFI_INIT", "APP_BOOT"} -> "ON"
    [] phase = "PROVISIONING" -> "SLOW_BLINK"
    [] phase = "CONNECTING" -> "FAST_BLINK"
    [] phase = "CONNECTED" -> "DOUBLE_BLINK"
    [] phase = "ERROR" -> "ERROR"

-----------------------------------------------------------------------------
\* A task between two steps of BootManager: not inside set_phase or a refresh.
Free(t) == owes[t] = Nothing

\* Where a task's next step is a set_phase, although the phase may already be that.
SettingPhase == {"start", "wifi_init", "load", "enter_set", "enter_error", "conn_begin",
                 "boot_app", "stay"}

\* A step of a task. Where it sets the phase, the pattern is chosen with it.
Step(t, Action) ==
  /\ Free(t)
  /\ Action
  /\ owes' = [owes EXCEPT ![t] = IF pc[t] \in SettingPhase \/ phase' # phase
                                 THEN boot_manager_get_led_pattern' ELSE Nothing]
  /\ UNCHANGED pattern

MainStep == Step("main", MainTask)
EventStep == Step("event", EventTask \/ enter_provisioning_mode("event"))
HttpStep ==
  Step("http", \/ enter_provisioning_mode("http") \/ start_wifi_connection("http")
               \/ provisioning_complete \/ BootApplication \/ StayInDlm \/ ScanFinish)
UserStep == Step("http", Submit \/ Scan \/ reset_wifi_handler)

\* The rest of set_phase, or of a refresh; others may have come between.
led_set_pattern(t) ==
  /\ owes[t] # Nothing
  /\ pattern' = owes[t]
  /\ owes' = [owes EXCEPT ![t] = Nothing]
  /\ UNCHANGED vars

\* Fault: the pattern only ever set by set_phase.
FaultyRefresh ==
  /\ pc["main"] = "loop" /\ Free("main")
  /\ UNCHANGED ledVars

\* A round of app_main's loop that finds another pattern than the phase's.
Refresh ==
  /\ pc["main"] = "loop" /\ Free("main")
  /\ pattern # boot_manager_get_led_pattern
  /\ owes' = [owes EXCEPT !["main"] = boot_manager_get_led_pattern]
  /\ UNCHANGED <<vars, pattern>>

\* The chip restarts, and the LED with it.
LedReset == Free("http") /\ (Restart \/ Handoff) /\ pattern' = "OFF" /\ owes' = FreshOwes

\* Without the delayed stop of the access point, which sets no phase: MaxTimers is 0.
LedNext ==
  \/ MainStep \/ EventStep \/ HttpStep \/ UserStep
  \/ \E t \in Tasks : led_set_pattern(t)
  \/ Refresh
  \/ LedReset
  \/ DriverStep /\ UNCHANGED <<pattern, owes>>

\* FairSpec's fairness, and the scheduler's for the steps that are new.
LedSpec ==
  /\ LedInit /\ [][LedNext]_ledVars
  /\ WF_ledVars(MainStep) /\ WF_ledVars(HttpStep) /\ WF_ledVars(LedReset)
  /\ WF_ledVars(EventStep) /\ WF_ledVars(Refresh)
  /\ \A t \in Tasks : WF_ledVars(led_set_pattern(t))

-----------------------------------------------------------------------------
\* The LED never stays wrong: again and again it shows the pattern of the phase,
\* although tasks in set_phase may write their patterns in another order than their
\* phases (until the application takes over).
LedFollowsPhase == []<>(pc["main"] = "gone" \/ pattern = boot_manager_get_led_pattern)

=============================================================================
