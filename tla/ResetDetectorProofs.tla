------------------------- MODULE ResetDetectorProofs -------------------------
(* Proofs about ResetDetector, for every threshold, window, set of uptimes and  *)
(* pattern of NVS failures the assumptions of that module allow.                *)
EXTENDS ResetDetector, TLAPS

\* Before a boot's first call the count is at most two for each boot; between
\* the calls the boot has added one, afterwards two.
CountBound ==
  /\ counter.count <= 2 * boots
  /\ pc = "boot_start" => counter.count <= 2 * boots - 1

\* The strengthening of TriggerNeedsBoots that steps preserve.
IInv == TypeOK /\ CountBound /\ TriggerNeedsBoots

\* What the values read and computed in one call of reset_detector_triggered are:
\* the count it arrives at is at most one more than the stored one.
LEMMA CallCounts ==
  ASSUME TypeOK, NEW loaded \in BOOLEAN, NEW now \in Nat
  PROVE  LET before == Windowed(Loaded(loaded), now)
             c == Counted(before, now)
         IN /\ c \in [count : 0..(MAX_COUNT + 1), first_reset_time_ms : Nat]
            /\ c.count <= counter.count + 1
            /\ c.count >= 1
            /\ before.count = 0 => c.count = 1
            /\ counter.count = 0 => before.count = 0
<1> DEFINE before == Windowed(Loaded(loaded), now)
<1> DEFINE c == Counted(before, now)
<1>1. /\ before \in [count : 0..MAX_COUNT, first_reset_time_ms : Nat]
      /\ before.count <= counter.count
  <2>1. Loaded(loaded) \in {counter, Zero}
    BY DEF Loaded
  <2>2. before \in {counter, Zero}
    BY <2>1 DEF Windowed
  <2>3. /\ counter \in [count : 0..MAX_COUNT, first_reset_time_ms : Nat]
        /\ Zero \in [count : 0..MAX_COUNT, first_reset_time_ms : Nat]
        /\ Zero.count = 0
    BY ThresholdAssumption DEF TypeOK, Zero
  <2> QED BY <2>2, <2>3
<1>2. c = [count |-> before.count + 1,
           first_reset_time_ms |-> IF before.count = 0 THEN now
                                   ELSE before.first_reset_time_ms]
  <2>1. (before.count + 1) % 256 = before.count + 1
    <3> HIDE DEF before
    <3> QED BY <1>1, ThresholdAssumption
  <2> QED BY <2>1 DEF Counted
<1> HIDE DEF before, c
<1> QED BY <1>1, <1>2, ThresholdAssumption DEF before, c, TypeOK

\* One call keeps the invariant, given that the boot it is made in is (or, with
\* newBoot, is about to be) one of those counted.
LEMMA CallPreserves ==
  ASSUME IInv, NEW newBoot \in BOOLEAN, NEW next \in {"boot_start", "up"},
         NEW now \in Nat,
         newBoot <=> next = "boot_start",
         newBoot \/ pc = "boot_start",
         UNCHANGED env,
         reset_detector_triggered(now, newBoot, next)
  PROVE  IInv'
<1>1. PICK loaded \in Outcomes, saved \in Outcomes :
        LET before == Windowed(Loaded(loaded), now)
            c == Counted(before, now)
            tally == IF newBoot THEN OneMoreBoot ELSE boots
        IN /\ IF Implausible(c)
              THEN ClearCounter(saved)
              ELSE counter' = IF saved THEN c ELSE counter
           /\ pc' = IF Triggered(c) THEN "clear_counter" ELSE next
           /\ boots' = IF saved /\ (Implausible(c) \/ counter.count = 0
                                     \/ (before.count = 0 /\ overdue))
                       THEN 1 ELSE tally
           /\ overdue' = IF saved /\ before.count = 0 THEN FALSE ELSE overdue
           /\ UNCHANGED <<data, half>>
  BY DEF reset_detector_triggered
<1>2. loaded \in BOOLEAN /\ saved \in BOOLEAN
  BY DEF Outcomes
<1> DEFINE before == Windowed(Loaded(loaded), now)
<1> DEFINE c == Counted(before, now)
<1> DEFINE tally == IF newBoot THEN OneMoreBoot ELSE boots
<1>3. /\ c \in [count : 0..(MAX_COUNT + 1), first_reset_time_ms : Nat]
      /\ c.count <= counter.count + 1
      /\ c.count >= 1
      /\ before.count = 0 => c.count = 1
      /\ counter.count = 0 => before.count = 0
  BY <1>2, CallCounts DEF IInv
<1>4. /\ pc' = IF Triggered(c) THEN "clear_counter" ELSE next
      /\ boots' = IF saved /\ (Implausible(c) \/ counter.count = 0
                                \/ (before.count = 0 /\ overdue))
                  THEN 1 ELSE tally
      /\ IF Implausible(c) THEN ClearCounter(saved)
         ELSE counter' = IF saved THEN c ELSE counter
      /\ overdue' \in BOOLEAN
      /\ UNCHANGED <<data, half>>
  <2>1. overdue \in BOOLEAN
    BY DEF IInv, TypeOK
  <2> QED BY <1>1, <2>1
<1> HIDE DEF before, c
<1>5. /\ counter' \in [count : 0..MAX_COUNT, first_reset_time_ms : Nat]
      /\ counter'.count <= counter.count + 1
      /\ boots' = tally \/ (boots' = 1 /\ counter'.count <= 1)
  <2>1. CASE saved /\ Implausible(c)
    BY <2>1, <1>4, ThresholdAssumption DEF ClearCounter, Zero, IInv, TypeOK
  <2>2. CASE saved /\ ~Implausible(c)
    BY <2>2, <1>3, <1>4, ThresholdAssumption DEF Implausible
  <2>3. CASE ~saved
    <3>1. counter' = counter /\ boots' = tally
      BY <2>3, <1>4, <1>2 DEF ClearCounter
    <3> QED BY <3>1, ThresholdAssumption DEF IInv, TypeOK
  <2> QED BY <2>1, <2>2, <2>3
<1>6. /\ boots \in 0..MaxBoots
      /\ tally \in 0..MaxBoots
      /\ tally >= 1
      /\ counter.count + 1 <= 2 * tally
      /\ newBoot => counter.count + 1 <= 2 * tally - 1
  <2>1. /\ boots \in 0..MaxBoots
        /\ counter.count \in 0..MAX_COUNT
        /\ counter.count <= 2 * boots
        /\ pc = "boot_start" => counter.count <= 2 * boots - 1
    BY DEF IInv, TypeOK, CountBound
  <2>2. CASE newBoot
    BY <2>1, <2>2, ThresholdAssumption, BootsAssumption DEF OneMoreBoot
  <2>3. CASE ~newBoot
    BY <2>1, <2>3, ThresholdAssumption, BootsAssumption
  <2> QED BY <2>2, <2>3
<1> HIDE DEF tally
<1>7. TypeOK'
  <2>1. boots' \in 0..MaxBoots
    BY <1>5, <1>6, BootsAssumption, ThresholdAssumption
  <2>2. pc' \in Steps
    BY <1>4 DEF Steps, EraseSteps
  <2> QED BY <1>4, <1>5, <2>1, <2>2 DEF IInv, TypeOK
<1>8. CountBound'
  <2>1. pc' = "boot_start" => newBoot
    BY <1>4
  <2>2. counter'.count \in Nat /\ counter.count \in Nat
    BY <1>5 DEF IInv, TypeOK
  <2> QED BY <1>5, <1>6, <2>1, <2>2 DEF CountBound
<1>9. TriggerNeedsBoots'
  <2>1. SUFFICES ASSUME pc' = "clear_counter"
                 PROVE  2 * boots' >= THRESHOLD
    BY DEF TriggerNeedsBoots
  <2>2. c.count >= THRESHOLD /\ ~Implausible(c)
    BY <1>4, <2>1 DEF Triggered
  <2>3. CASE boots' = tally
    <3>1. counter.count \in Nat /\ c.count \in Nat
      BY <1>3 DEF IInv, TypeOK
    <3> QED BY <1>3, <1>6, <2>2, <2>3, <3>1, ThresholdAssumption
  <2>4. CASE boots' # tally
    <3>1. c.count = 1
      BY <1>3, <1>4, <2>2, <2>4
    <3>2. boots' = 1
      BY <1>5, <2>4
    <3> QED BY <3>1, <3>2, <2>2, ThresholdAssumption
  <2> QED BY <2>3, <2>4
<1> QED BY <1>7, <1>8, <1>9 DEF IInv

\* The initial states satisfy the invariant.
LEMMA InitInvariant == Init => IInv
<1> SUFFICES ASSUME Init PROVE IInv
  OBVIOUS
<1>1. /\ counter = Zero /\ pc = "app_main" /\ boots = 0
      /\ data \in SUBSET Namespaces /\ overdue = FALSE /\ half = FALSE
      /\ env \in Environments
  BY DEF Init
<1>2. Zero \in [count : 0..MAX_COUNT, first_reset_time_ms : Nat] /\ Zero.count = 0
  BY ThresholdAssumption DEF Zero
<1>3. pc \in Steps /\ boots \in 0..MaxBoots
  BY <1>1, BootsAssumption DEF Steps
<1>4. TypeOK
  BY <1>1, <1>2, <1>3 DEF TypeOK
<1>5. CountBound /\ TriggerNeedsBoots
  BY <1>1, <1>2 DEF CountBound, TriggerNeedsBoots
<1> QED BY <1>4, <1>5 DEF IInv

\* Every step preserves the strengthened invariant.
LEMMA NextInvariant == IInv /\ [Next]_vars => IInv'
<1> SUFFICES ASSUME IInv, [Next]_vars
             PROVE  IInv'
  OBVIOUS
<1>0. UNCHANGED env
  BY DEF Next, vars
<1> USE DEF IInv
<1>1. CASE AppMainCall
  <2>1. PICK now \in env.first : reset_detector_triggered(now, TRUE, "boot_start")
    BY <1>1 DEF AppMainCall
  <2>2. now \in Nat
    BY TimeAssumption DEF TypeOK, Environments
  <2> QED BY <1>0, <2>1, <2>2, CallPreserves
<1>2. CASE HandleFactoryReset
  <2>1. PICK now \in env.second : reset_detector_triggered(now, FALSE, "up")
    BY <1>2 DEF HandleFactoryReset
  <2>2. now \in Nat /\ pc = "boot_start"
    BY <1>2, TimeAssumption DEF HandleFactoryReset, TypeOK, Environments
  <2> QED BY <1>0, <2>1, <2>2, CallPreserves
<1>3. ASSUME NEW saved \in Outcomes,
             ClearCounter(saved),
             boots' = IF saved THEN 0 ELSE boots,
             pc' \in Steps, pc' # "boot_start", pc' # "clear_counter",
             data' \subseteq Namespaces,
             UNCHANGED <<env, overdue, half>>
      PROVE  IInv'
  <2>1. /\ counter' \in [count : 0..MAX_COUNT, first_reset_time_ms : Nat]
        /\ boots' \in 0..MaxBoots
        /\ counter'.count <= 2 * boots'
    <3>1. saved \in BOOLEAN
      BY DEF Outcomes
    <3>2. CASE saved
      BY <1>3, <3>2, ThresholdAssumption, BootsAssumption DEF ClearCounter, Zero
    <3>3. CASE ~saved
      BY <1>3, <3>3 DEF ClearCounter, TypeOK, CountBound
    <3> QED BY <3>1, <3>2, <3>3
  <2> QED BY <1>3, <2>1 DEF TypeOK, CountBound, TriggerNeedsBoots
<1>4. ASSUME UNCHANGED <<env, counter, boots>>,
             pc' \in Steps, pc' # "boot_start", pc' # "clear_counter",
             data' \subseteq Namespaces, overdue' \in BOOLEAN, half' \in BOOLEAN
      PROVE  IInv'
  BY <1>4 DEF TypeOK, CountBound, TriggerNeedsBoots
<1>5. CASE initiate_factory_reset
  <2>1. CASE InitiateClear
    BY <1>0, <2>1, <1>3 DEF InitiateClear, TypeOK, Steps, EraseSteps
  <2>2. ASSUME NEW step \in EraseSteps, NEW next \in EraseSteps \ {"clear_counter"},
               EraseNamespace(step, next)
        PROVE  IInv'
    <3>1. data' \subseteq Namespaces /\ half' \in BOOLEAN
      BY <2>2 DEF EraseNamespace, TypeOK, Outcomes
    <3> QED BY <1>0, <2>2, <3>1, <1>4 DEF EraseNamespace, TypeOK, Steps, EraseSteps
  <2>3. CASE EraseReset
    BY <1>0, <2>3, <1>3 DEF EraseReset, TypeOK, Steps, EraseSteps
  <2> QED BY <1>5, <2>1, <2>2, <2>3 DEF initiate_factory_reset, EraseSteps
<1>6. CASE reset_detector_clear
  BY <1>0, <1>6, <1>3 DEF reset_detector_clear, TypeOK
<1>7. CASE \E n \in Namespaces : Configure(n)
  BY <1>0, <1>7, <1>4 DEF Configure, TypeOK
<1>8. CASE Linger
  BY <1>0, <1>8, <1>4 DEF Linger, TypeOK
<1>9. CASE Reboot
  BY <1>0, <1>9, <1>4 DEF Reboot, TypeOK, Steps
<1>10. CASE UNCHANGED vars
  BY <1>10 DEF vars, TypeOK, CountBound, TriggerNeedsBoots
<1> QED BY <1>1, <1>2, <1>5, <1>6, <1>7, <1>8, <1>9, <1>10 DEF Next, Step

\* The strengthened invariant holds in every reachable state.
LEMMA Invariance == Spec => []IInv
BY InitInvariant, NextInvariant, PTL DEF Spec

\* The stored count never exceeds DLM_FACTORY_RESET_MAX, so the uint8_t never
\* wraps, and the other variables have their types.
THEOREM TypeCorrect == Spec => []TypeOK
<1>1. IInv => TypeOK
  BY DEF IInv
<1> QED BY <1>1, Invariance, PTL

\* A factory reset takes at least THRESHOLD / 2 boots, for every threshold and
\* whatever NVS operations fail, because no boot counts more than twice.
THEOREM TriggerNeedsBootsAlways == Spec => []TriggerNeedsBoots
<1>1. IInv => TriggerNeedsBoots
  BY DEF IInv
<1> QED BY <1>1, Invariance, PTL

-----------------------------------------------------------------------------
\* PartialResetReprovisions needs to know how far the erases have got.
PartialInv ==
  /\ half \in BOOLEAN
  /\ PartialResetReprovisions
  /\ pc \in {"erase_cfg", "erase_ota"} /\ ~env.nvsFails => half

\* Where no NVS operation fails, an interrupted factory reset that erased
\* anything has erased the Wi-Fi credentials, wherever the power was lost.
THEOREM PartialResetReprovisionsAlways == Spec => []PartialResetReprovisions
<1> USE DEF PartialInv, PartialResetReprovisions
<1>1. Init => PartialInv
  BY DEF Init
<1>2. PartialInv /\ [Next]_vars => PartialInv'
  <2> SUFFICES ASSUME PartialInv, [Next]_vars
               PROVE  PartialInv'
    OBVIOUS
  <2>0. UNCHANGED env
    BY DEF Next, vars
  <2> USE <2>0
  <2>1. ASSUME NEW now, NEW newBoot, NEW next \in {"boot_start", "up"},
               reset_detector_triggered(now, newBoot, next)
        PROVE  PartialInv'
    BY <2>1 DEF reset_detector_triggered
  <2>2. CASE AppMainCall \/ HandleFactoryReset
    BY <2>1, <2>2 DEF AppMainCall, HandleFactoryReset
  <2>3. CASE InitiateClear \/ EraseReset
    BY <2>3 DEF InitiateClear, EraseReset
  <2>4. CASE EraseNamespace("erase_wifi", "erase_cfg")
    <3>1. /\ half' \in BOOLEAN /\ pc' = "erase_cfg"
          /\ ~env.nvsFails => half' = TRUE /\ data' = data \ {"wifi_creds"}
      BY <2>4 DEF EraseNamespace, Outcomes, ErasedBy
    <3> QED BY <3>1
  <2>5. CASE \/ EraseNamespace("erase_cfg", "erase_ota")
             \/ EraseNamespace("erase_ota", "erase_reset")
    <3>1. /\ half' \in BOOLEAN /\ data' \subseteq data
          /\ ~env.nvsFails => half /\ half' = TRUE
      BY <2>5 DEF EraseNamespace, Outcomes
    <3> QED BY <3>1
  <2>6. CASE reset_detector_clear \/ Linger \/ Reboot \/ UNCHANGED vars
    BY <2>6 DEF reset_detector_clear, Linger, Reboot, vars
  <2>7. CASE \E n \in Namespaces : Configure(n)
    BY <2>7 DEF Configure
  <2> QED BY <2>2, <2>3, <2>4, <2>5, <2>6, <2>7 DEF Next, Step, initiate_factory_reset
<1>3. PartialInv => PartialResetReprovisions
  OBVIOUS
<1> QED BY <1>1, <1>2, <1>3, PTL DEF Spec

-----------------------------------------------------------------------------
\* ConsecutiveBootsReset needs to know which of the two calls began the count:
\* one begun by the first call is never given up, as the second comes within the
\* window; one begun by the second call may be given up once, by the next boot.
CallsWithinWindow ==
  \A t \in FirstCallTimes : \A u \in SecondCallTimes : Elapsed(u, t) <= WINDOW_MS

BootsCounted(t, u) ==
  LET c == counter.count
      since == counter.first_reset_time_ms
  IN /\ c = 0 => boots <= 1
     /\ c > 0 => since \in {t, u} /\ boots <= c + 1
     /\ c > 0 /\ since = u /\ Elapsed(t, u) > WINDOW_MS => boots <= 1
     /\ c > 0 /\ since = u => boots <= c \/ since = t
     /\ pc \in {"boot_start", "up"} => c < THRESHOLD

SteadyAt(t, u) == ~env.nvsFails /\ env.first = {t} /\ env.second = {u}

SInv == TypeOK /\ \A t \in env.first : \A u \in env.second : SteadyAt(t, u) => BootsCounted(t, u)

\* No time passes between two calls at the same uptime.
LEMMA NoTime == \A t \in Nat : Elapsed(t, t) <= WINDOW_MS
<1>1. ASSUME NEW t \in Nat PROVE (t - t) % TimeModulus = 0
  <2>1. t - t = 0
    OBVIOUS
  <2>2. 0 % TimeModulus = 0
    BY TimeAssumption
  <2> QED BY <2>1, <2>2
<1> QED BY <1>1, TimeAssumption DEF Elapsed

\* One call on a steady device.
LEMMA SteadyCall ==
  ASSUME CallsWithinWindow, TypeOK, TypeOK',
         NEW t \in env.first, NEW u \in env.second, SteadyAt(t, u), BootsCounted(t, u),
         NEW newBoot \in BOOLEAN, NEW next \in {"boot_start", "up"}, NEW now,
         now = IF newBoot THEN t ELSE u,
         reset_detector_triggered(now, newBoot, next)
  PROVE  BootsCounted(t, u)'
<1> DEFINE before == Windowed(counter, now)
           c == Counted(before, now)
           tally == IF newBoot THEN OneMoreBoot ELSE boots
<1>1. /\ t \in Nat /\ u \in Nat /\ now \in Nat
      /\ Elapsed(t, t) <= WINDOW_MS /\ Elapsed(u, u) <= WINDOW_MS /\ Elapsed(u, t) <= WINDOW_MS
  <2>1. t \in FirstCallTimes /\ u \in SecondCallTimes
    BY DEF TypeOK, Environments
  <2> QED BY <2>1, TimeAssumption, NoTime DEF CallsWithinWindow
<1>2. Outcomes = {TRUE} /\ Loaded(TRUE) = counter
  BY DEF SteadyAt, Outcomes, Loaded
<1>3. /\ counter' = IF Implausible(c) THEN Zero ELSE c
      /\ pc' = IF Triggered(c) THEN "clear_counter" ELSE next
      /\ boots' = IF Implausible(c) \/ counter.count = 0 \/ (before.count = 0 /\ overdue)
                  THEN 1 ELSE tally
  BY <1>2 DEF reset_detector_triggered, ClearCounter
<1>4. /\ before \in [count : 0..MAX_COUNT, first_reset_time_ms : Nat]
      /\ before = counter \/ before = Zero
      /\ counter \in [count : 0..MAX_COUNT, first_reset_time_ms : Nat]
  BY ThresholdAssumption DEF TypeOK, Windowed, Zero
<1>5. before # counter =>
        /\ before.count = 0
        /\ counter.count > 0 /\ Elapsed(now, counter.first_reset_time_ms) > WINDOW_MS
  BY DEF Windowed, Zero
<1>6. boots \in 0..MaxBoots /\ tally \in 0..MaxBoots /\ tally <= boots + 1 /\ (~newBoot => tally = boots)
  BY BootsAssumption DEF TypeOK, OneMoreBoot
<1> HIDE DEF before, tally
<1>7. /\ c.count = before.count + 1
      /\ before.count = 0 => c.first_reset_time_ms = now
      /\ before.count # 0 => c.first_reset_time_ms = before.first_reset_time_ms
  <2>1. (before.count + 1) % 256 = before.count + 1
    BY <1>4, ThresholdAssumption
  <2> QED BY <2>1 DEF Counted
<1> HIDE DEF c
<1>8. CASE Implausible(c)
  <2>1. counter'.count = 0 /\ boots' = 1
    BY <1>3, <1>8 DEF Zero
  <2> QED BY <2>1, ThresholdAssumption DEF BootsCounted
<1>9. CASE ~Implausible(c)
  <2>1. counter' = c /\ (pc' \in {"boot_start", "up"} => c.count < THRESHOLD)
    BY <1>3, <1>4, <1>7, <1>9, ThresholdAssumption DEF Triggered
  <2>2. boots' = 1 \/ boots' = tally
    BY <1>3
  <2>3. CASE before = counter /\ counter.count > 0
    <3>1. /\ c.count = counter.count + 1
          /\ c.first_reset_time_ms = counter.first_reset_time_ms
      BY <1>4, <1>7, <2>3
    <3>2. now = t /\ counter.first_reset_time_ms = u => ~(Elapsed(t, u) > WINDOW_MS)
      BY <2>3 DEF before, Windowed, Zero
    <3>3. /\ counter.count \in Nat /\ counter.first_reset_time_ms \in {t, u}
          /\ boots <= counter.count + 1
          /\ counter.first_reset_time_ms = u => boots <= counter.count \/ u = t
      BY <1>4, <2>3 DEF BootsCounted
    <3>4. newBoot => now = t
      OBVIOUS
    <3>5. boots' <= c.count + 1 /\ (c.first_reset_time_ms = u => boots' <= c.count \/ u = t)
      BY <1>6, <2>2, <3>1, <3>3
    <3>6. c.first_reset_time_ms = u /\ Elapsed(t, u) > WINDOW_MS => boots' <= 1
      BY <1>6, <2>2, <2>3, <3>1, <3>2, <3>4 DEF BootsCounted
    <3>7. c.count > 0
      BY <3>1, <3>3
    <3> QED BY <2>1, <3>1, <3>3, <3>5, <3>6, <3>7 DEF BootsCounted
  <2>4. CASE before = counter /\ counter.count = 0
    <3>1. boots' = 1 /\ c.count = 1 /\ c.first_reset_time_ms = now
      BY <1>3, <1>4, <1>7, <2>4
    <3> QED BY <1>1, <2>1, <3>1 DEF BootsCounted
  <2>5. CASE before # counter
    <3>1. /\ counter.count > 0 /\ counter.first_reset_time_ms \in {t, u}
          /\ Elapsed(now, counter.first_reset_time_ms) > WINDOW_MS
      BY <1>5, <2>5 DEF BootsCounted
    <3>2. ~(Elapsed(t, t) > WINDOW_MS) /\ ~(Elapsed(u, u) > WINDOW_MS) /\ ~(Elapsed(u, t) > WINDOW_MS)
      <4>1. Elapsed(t, t) \in Int /\ Elapsed(u, u) \in Int /\ Elapsed(u, t) \in Int
        BY <1>1, TimeAssumption DEF Elapsed
      <4> QED BY <1>1, <4>1, TimeAssumption
    <3>3. now = t /\ counter.first_reset_time_ms = u /\ t # u /\ Elapsed(t, u) > WINDOW_MS
      BY <3>1, <3>2
    <3>4. boots <= 1 /\ boots' <= 2 /\ c.count = 1 /\ c.first_reset_time_ms = t
      BY <1>4, <1>5, <1>6, <1>7, <2>2, <2>5, <3>1, <3>3 DEF BootsCounted
    <3> QED BY <1>6, <2>1, <3>3, <3>4 DEF BootsCounted
  <2> QED BY <1>4, <2>3, <2>4, <2>5
<1> QED BY <1>8, <1>9

\* Boots in a row always reach the reset, for every threshold, window and pair of
\* uptimes no more than the window apart: at most THRESHOLD boots get past a call
\* of reset_detector_triggered without a clear.
THEOREM ConsecutiveBootsAlwaysReset ==
  ASSUME CallsWithinWindow
  PROVE  Spec => []ConsecutiveBootsReset
<1>1. Init => SInv
  <2> SUFFICES ASSUME Init PROVE SInv
    OBVIOUS
  <2>1. counter.count = 0 /\ boots = 0 /\ pc = "app_main"
    BY DEF Init, Zero
  <2>2. TypeOK
    BY InitInvariant DEF IInv
  <2> QED BY <2>1, <2>2 DEF SInv, BootsCounted
<1>2. SInv /\ IInv /\ [Next]_vars => SInv'
  <2> SUFFICES ASSUME SInv, IInv, [Next]_vars PROVE SInv'
    OBVIOUS
  <2>1. UNCHANGED env /\ TypeOK /\ TypeOK'
    BY NextInvariant DEF Next, vars, IInv
  <2>2. SUFFICES ASSUME NEW t \in env.first, NEW u \in env.second, SteadyAt(t, u), BootsCounted(t, u)
                 PROVE  BootsCounted(t, u)'
    BY <2>1 DEF SInv, SteadyAt
  <2>3. CASE AppMainCall
    <3>1. reset_detector_triggered(t, TRUE, "boot_start")
      BY <2>2, <2>3 DEF AppMainCall, SteadyAt
    <3> QED BY <2>1, <2>2, <3>1, SteadyCall
  <2>4. CASE HandleFactoryReset
    <3>1. reset_detector_triggered(u, FALSE, "up")
      BY <2>2, <2>4 DEF HandleFactoryReset, SteadyAt
    <3> QED BY <2>1, <2>2, <3>1, SteadyCall
  <2>5. CASE InitiateClear \/ EraseReset \/ reset_detector_clear
    <3>1. counter' = Zero /\ boots' = 0
      BY <2>2, <2>5 DEF InitiateClear, EraseReset, reset_detector_clear, ClearCounter, Outcomes, SteadyAt
    <3> QED BY <3>1, ThresholdAssumption DEF BootsCounted, Zero
  <2>6. ASSUME UNCHANGED <<counter, boots>>, pc' \in {"boot_start", "up"} => pc' = pc
        PROVE  BootsCounted(t, u)'
    BY <2>2, <2>6 DEF BootsCounted
  <2>7. CASE \/ EraseNamespace("erase_wifi", "erase_cfg")
             \/ EraseNamespace("erase_cfg", "erase_ota")
             \/ EraseNamespace("erase_ota", "erase_reset")
    BY <2>6, <2>7 DEF EraseNamespace
  <2>8. CASE (\E n \in Namespaces : Configure(n)) \/ Linger \/ Reboot \/ UNCHANGED vars
    BY <2>6, <2>8 DEF Configure, Linger, Reboot, vars
  <2> QED BY <2>3, <2>4, <2>5, <2>7, <2>8 DEF Next, Step, initiate_factory_reset
<1>3. SInv => ConsecutiveBootsReset
  <2> SUFFICES ASSUME SInv, Steady, pc \in {"boot_start", "up"} PROVE boots <= THRESHOLD
    BY DEF ConsecutiveBootsReset
  <2>1. PICK t \in env.first, u \in env.second : SteadyAt(t, u) /\ BootsCounted(t, u)
    BY DEF SInv, Steady, SteadyAt
  <2>2. counter.count \in Nat /\ boots \in Nat
    BY DEF SInv, TypeOK
  <2> QED BY <2>1, <2>2, ThresholdAssumption DEF BootsCounted
<1> QED BY <1>1, <1>2, <1>3, Invariance, PTL DEF Spec

=============================================================================
