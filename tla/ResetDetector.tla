---------------------------- MODULE ResetDetector ----------------------------
(* The factory-reset detector (core/reset_detector.c) as app_main and           *)
(* boot_manager_start drive it: a counter kept in NVS, incremented on each      *)
(* call, which the firmware makes twice in a boot; the sequence of NVS erases   *)
(* of a factory reset; and the places that clear the counter. The power may     *)
(* fail between any two steps. Uptime restarts from zero at each boot.          *)
EXTENDS Integers

CONSTANTS
  THRESHOLD,        \* DLM_FACTORY_RESET_THRESHOLD, 10 in the code
  MAX_COUNT,        \* DLM_FACTORY_RESET_MAX, 15 in the code
  WINDOW_MS,        \* DLM_FACTORY_RESET_WINDOW_MS, 10000 in the code
  TimeModulus,      \* uint64_t arithmetic: 2^64 in the code
  FirstCallTimes,   \* uptimes (ms) at which app_main may make its call
  SecondCallTimes,  \* uptimes (ms) at which handle_factory_reset may make its
  MaxBoots          \* bound: the history of boots saturates here

ASSUME ThresholdAssumption ==
  THRESHOLD \in Nat /\ MAX_COUNT \in Nat /\ 0 < THRESHOLD
  /\ THRESHOLD <= MAX_COUNT /\ MAX_COUNT < 255
ASSUME TimeAssumption ==
  /\ WINDOW_MS \in Nat
  /\ TimeModulus \in Nat \ {0}
  /\ FirstCallTimes \subseteq Nat
  /\ SecondCallTimes \subseteq Nat
ASSUME BootsAssumption == MaxBoots \in Nat /\ MaxBoots > MAX_COUNT

VARIABLES
  env,      \* the device, which never changes: whether its NVS operations may fail,
            \* and at which uptimes its boots reach the two calls
  counter,  \* NVS dlm_reset/reset_count: reset_counter_t; absent reads as Zero
  data,     \* the namespaces that hold what the user configured
  pc,       \* how far this boot has got
  overdue,  \* history: WINDOW_MS of real time went by since counting began
  boots,    \* history: boots since the counter was last cleared, or started
            \* afresh after WINDOW_MS of real time
  half      \* history: a factory reset erased something and the user has not
            \* given Wi-Fi credentials since

vars == <<env, counter, data, pc, boots, overdue, half>>

Namespaces == {"wifi_creds", "device_cfg", "ota_config"}
Zero == [count |-> 0, first_reset_time_ms |-> 0]

\* The erases of reset_detector_initiate_factory_reset, in the code's order.
EraseSteps == {"clear_counter", "erase_wifi", "erase_cfg", "erase_ota", "erase_reset"}
Steps == EraseSteps \cup {"app_main", "boot_start", "up", "restart"}

Environments ==
  [nvsFails : BOOLEAN, first : SUBSET FirstCallTimes, second : SUBSET SecondCallTimes]

TypeOK ==
  /\ env \in Environments
  /\ counter \in [count : 0..MAX_COUNT, first_reset_time_ms : Nat]
  /\ data \subseteq Namespaces
  /\ pc \in Steps
  /\ boots \in 0..MaxBoots
  /\ overdue \in BOOLEAN
  /\ half \in BOOLEAN

\* Whether an NVS operation succeeds.
Outcomes == IF env.nvsFails THEN BOOLEAN ELSE {TRUE}

-----------------------------------------------------------------------------
\* reset_detector_triggered

\* load_counter: a missing blob and, after the caller's fallback, a failed read
\* both give a zero counter.
Loaded(ok) == IF ok THEN counter ELSE Zero

\* Fault: the operands swapped.
FaultyElapsed(now, first) == (first - now) % TimeModulus

\* uint64_t subtraction: it wraps when the stored uptime is the larger one.
Elapsed(now, first) == (now - first) % TimeModulus

\* A counter whose window is over starts afresh.
Windowed(c, now) ==
  IF c.count > 0 /\ Elapsed(now, c.first_reset_time_ms) > WINDOW_MS THEN Zero ELSE c

\* Fault: the increment made twice in a call.
FaultyCounted(c, now) ==
  [count |-> (c.count + 2) % 256,
   first_reset_time_ms |-> IF c.count = 0 THEN now ELSE c.first_reset_time_ms]

\* counter.count++ on a uint8_t; the first count of a window records its uptime.
Counted(c, now) ==
  [count |-> (c.count + 1) % 256,
   first_reset_time_ms |-> IF c.count = 0 THEN now ELSE c.first_reset_time_ms]

\* clear_counter, here and in reset_detector_clear: an error is only logged.
ClearCounter(saved) == counter' = IF saved THEN Zero ELSE counter

\* Fault: off by one.
FaultyImplausible(c) == c.count > MAX_COUNT + 1

\* A count the code does not believe: it clears it and reports no reset.
Implausible(c) == c.count > MAX_COUNT

Triggered(c) == ~Implausible(c) /\ c.count >= THRESHOLD

\* One more boot in the history.
OneMoreBoot == IF boots < MaxBoots THEN boots + 1 ELSE boots

\* One call, at uptime now, in a boot that the history has (not) counted yet.
reset_detector_triggered(now, newBoot, next) ==
  \E loaded \in Outcomes, saved \in Outcomes :
    LET before == Windowed(Loaded(loaded), now)
        c == Counted(before, now)
        tally == IF newBoot THEN OneMoreBoot ELSE boots
    IN /\ IF Implausible(c)
          THEN ClearCounter(saved)
          ELSE counter' = IF saved THEN c ELSE counter
       /\ pc' = IF Triggered(c) THEN "clear_counter" ELSE next
       /\ boots' = IF saved /\ (Implausible(c) \/ counter.count = 0
                                 \/ (before.count = 0 /\ overdue))
                   THEN 1 ELSE tally
       /\ overdue' = IF saved /\ before.count = 0 THEN FALSE ELSE overdue
       /\ UNCHANGED <<data, half>>

\* app_main asks before it has done anything else ...
AppMainCall ==
  /\ pc = "app_main"
  /\ \E now \in env.first : reset_detector_triggered(now, TRUE, "boot_start")

\* ... and handle_factory_reset asks again, LED test and boot_manager_init later.
HandleFactoryReset ==
  /\ pc = "boot_start"
  /\ \E now \in env.second : reset_detector_triggered(now, FALSE, "up")

-----------------------------------------------------------------------------
\* reset_detector_initiate_factory_reset

InitiateClear ==
  /\ pc = "clear_counter"
  /\ \E saved \in Outcomes :
       /\ ClearCounter(saved)
       /\ boots' = IF saved THEN 0 ELSE boots
  /\ pc' = "erase_wifi"
  /\ UNCHANGED <<data, overdue, half>>

\* Fault: the credentials erased after the configuration.
FaultyErasedBy ==
  [erase_wifi |-> "device_cfg", erase_cfg |-> "wifi_creds", erase_ota |-> "ota_config"]

\* The namespace each erase step clears.
ErasedBy ==
  [erase_wifi |-> "wifi_creds", erase_cfg |-> "device_cfg", erase_ota |-> "ota_config"]

\* nvs_manager_erase_namespace on the user's namespaces; its result is ignored.
EraseNamespace(step, next) ==
  /\ pc = step
  /\ \E ok \in Outcomes :
       /\ data' = IF ok THEN data \ {ErasedBy[step]} ELSE data
       /\ half' = (half \/ ok)
  /\ pc' = next
  /\ UNCHANGED <<counter, boots, overdue>>

\* The counter's own namespace goes last; then the boot reason and the restart.
EraseReset ==
  /\ pc = "erase_reset"
  /\ \E ok \in Outcomes :
       /\ ClearCounter(ok)
       /\ boots' = IF ok THEN 0 ELSE boots
  /\ pc' = "restart"
  /\ UNCHANGED <<data, overdue, half>>

initiate_factory_reset ==
  \/ InitiateClear
  \/ EraseNamespace("erase_wifi", "erase_cfg")
  \/ EraseNamespace("erase_cfg", "erase_ota")
  \/ EraseNamespace("erase_ota", "erase_reset")
  \/ EraseReset

-----------------------------------------------------------------------------
\* The rest of the firmware, as far as this module's state goes.

\* on_wifi_connected and provisioning_complete; both hold credentials.
reset_detector_clear ==
  /\ pc = "up"
  /\ "wifi_creds" \in data
  /\ \E saved \in Outcomes :
       /\ ClearCounter(saved)
       /\ boots' = IF saved THEN 0 ELSE boots
  /\ UNCHANGED <<data, pc, overdue, half>>

\* The web portal stores a setting of one of the namespaces.
Configure(n) ==
  /\ pc = "up"
  /\ data' = data \cup {n}
  /\ half' = (half /\ n # "wifi_creds")
  /\ UNCHANGED <<counter, pc, boots, overdue>>

\* The device stays powered until the window measured in real time is over.
Linger ==
  /\ pc = "up"
  /\ overdue' = TRUE
  /\ UNCHANGED <<counter, data, pc, boots, half>>

\* esp_restart, a watchdog reset or a power cycle, at any step.
Reboot ==
  /\ pc' = "app_main"
  /\ UNCHANGED <<counter, data, boots, overdue, half>>

-----------------------------------------------------------------------------
Init ==
  /\ env \in Environments /\ env.first # {} /\ env.second # {}
  /\ counter = Zero
  /\ data \in SUBSET Namespaces
  /\ pc = "app_main"
  /\ boots = 0
  /\ overdue = FALSE
  /\ half = FALSE

Step ==
  \/ AppMainCall
  \/ HandleFactoryReset
  \/ initiate_factory_reset
  \/ reset_detector_clear
  \/ \E n \in Namespaces : Configure(n)
  \/ Linger
  \/ Reboot

Next == Step /\ UNCHANGED env

Spec == Init /\ [][Next]_vars

-----------------------------------------------------------------------------
\* A factory reset is never triggered by fewer boots than half the threshold:
\* reset_detector_triggered counts at most twice in a boot, whatever NVS
\* operations fail, wherever the power is lost and however uptimes vary.
TriggerNeedsBoots == pc = "clear_counter" => 2 * boots >= THRESHOLD

\* Boots in a row always reach the reset: without a clear in between, at most
\* THRESHOLD of them get past a call of reset_detector_triggered. It needs NVS to
\* work and the calls to come at the same uptimes in each boot, the second within
\* WINDOW_MS of the first (as the uptimes given to TLC are). One boot is not
\* counted when an implausible count was cleared by the first call: the second
\* call then records an uptime that the next boot's first call is still short of.
Steady == ~env.nvsFails /\ \E t \in env.first, u \in env.second : env.first = {t} /\ env.second = {u}
ConsecutiveBootsReset == Steady /\ pc \in {"boot_start", "up"} => boots <= THRESHOLD

\* A factory reset cut short by a power loss never leaves the old Wi-Fi
\* credentials beside erased settings: once anything is erased, the credentials
\* are gone, so the next boot provisions (the order of the erases in
\* reset_detector_initiate_factory_reset). It needs NVS to work.
PartialResetReprovisions == half /\ ~env.nvsFails => "wifi_creds" \notin data

\* dlm_config.h: THRESHOLD is the number of consecutive resets that triggers.
TriggerNeedsThresholdBoots == pc = "clear_counter" => boots >= THRESHOLD

=============================================================================
