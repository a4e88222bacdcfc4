------------------------------ MODULE OtaManager ------------------------------
(* update/ota_manager.c with its provider and verifier: a firmware update in a  *)
(* task of its own, beside the HTTP server's task, which starts updates,        *)
(* reports on them and, in boot_manager.c, boots what is in the ota_0           *)
(* partition. Flash survives a reset: ota_0, the boot partition that otadata    *)
(* names, and the boot reason. A reset or a power loss may come at any step.    *)
EXTENDS Integers

CONSTANTS
  Images,   \* firmware images that are served for download
  Genuine,  \* those whose signature the public key verifies
  NoImage   \* ota_0 holds no readable application

ASSUME OtaAssumption == Genuine \subseteq Images /\ NoImage \notin Images

VARIABLES
  state,     \* s_ota_state
  progress,  \* s_ota_progress
  handle,    \* s_ota_task_handle # NULL
  release,   \* the update task's copy of the release information
  pc,        \* where the HTTP and the update task are
  report,    \* the last /status: its ota_state and ota_progress
  slot,      \* ota_0: whose application descriptor it holds, and if it is whole
  boot,      \* external, otadata: what the boot loader is to start
  reason,    \* NVS: boot_reason
  running,   \* external: the firmware that runs
  asked,     \* history: /boot-app was requested, in this boot or an earlier one
  lapsed     \* history: the boot partition could not be taken back, the same

flash == <<slot, boot, reason, asked, lapsed>>
ram == <<state, progress, handle, release>>
vars == <<ram, pc, report, flash, running>>

States == {"IDLE", "DOWNLOADING", "COMPLETE", "FAILED"}
Releases == [image : Images, url : BOOLEAN, signed : BOOLEAN]
NoRelease == [image |-> NoImage, url |-> FALSE, signed |-> FALSE]
NoSlot == [image |-> NoImage, whole |-> FALSE]
Percents == {0, 5, 10, 85, 90, 100}
Reasons == {"none", "normal", "first_boot"}
HttpLabels == {"serve", "create", "status", "set_boot", "set_reason", "handoff", "halted", "gone"}
OtaLabels == {"none", "begin", "progress", "perform", "erase", "header", "body", "install",
              "downloaded", "verify", "rollback", "done", "full", "restart", "failed", "exit", "gone"}

TypeOK ==
  /\ state \in States /\ progress \in Percents /\ handle \in BOOLEAN
  /\ release \in Releases \cup {NoRelease}
  /\ pc \in [http : HttpLabels, ota : OtaLabels]
  /\ report \in [state : States, progress : Percents]
  /\ slot \in [image : Images, whole : BOOLEAN] \cup {NoSlot}
  /\ boot \in {"factory", "ota_0"} /\ reason \in Reasons
  /\ running \in Images \cup {"factory"}
  /\ asked \in BOOLEAN /\ lapsed \in BOOLEAN

FreshRam == state = "IDLE" /\ progress = 0 /\ handle = FALSE /\ release = NoRelease
FreshPc == [http |-> "serve", ota |-> "none"]
GonePc == [http |-> "gone", ota |-> "gone"]
NoReport == [state |-> "IDLE", progress |-> 0]

\* The device as it was flashed: the DLM runs, ota_0 is empty or holds a whole
\* application.
Init ==
  /\ FreshRam
  /\ pc = FreshPc
  /\ report = NoReport
  /\ slot \in [image : Images, whole : {TRUE}] \cup {NoSlot}
  /\ boot = "factory" /\ reason = "none"
  /\ running = "factory"
  /\ asked = FALSE /\ lapsed = FALSE

Goto(t, label) == pc' = [pc EXCEPT ![t] = label]

-----------------------------------------------------------------------------
\* The HTTP task

\* ota_install_handler and ota_manager_start_update up to xTaskCreate; the
\* handler is refused while an update has its handle.
StartUpdate ==
  /\ pc.http = "serve"
  /\ ~handle
  /\ state' = "IDLE" /\ progress' = 0
  /\ Goto("http", "create")
  /\ UNCHANGED <<handle, release, report, flash, running>>

\* xTaskCreate: the task has the copy, or there is no memory for it.
CreateTask ==
  /\ pc.http = "create"
  /\ \/ /\ handle' = TRUE
        /\ release' \in Releases
        /\ pc' = [http |-> "serve", ota |-> "begin"]
     \/ handle' = FALSE /\ Goto("http", "serve") /\ UNCHANGED release
  /\ UNCHANGED <<state, progress, report, flash, running>>

ota_manager_start_update == StartUpdate \/ CreateTask

\* status_handler: the state first, the progress second.
status_handler ==
  /\ \/ /\ pc.http = "serve"
        /\ report' = [report EXCEPT !.state = state]
        /\ Goto("http", "status")
     \/ /\ pc.http = "status"
        /\ report' = [report EXCEPT !.progress = progress]
        /\ Goto("http", "serve")
  /\ UNCHANGED <<ram, flash, running>>

\* /boot-app: boot_manager_boot_application reads the descriptor in ota_0; it is
\* readable once the image's first part is written. (Without one the device stays
\* as it is, module BootManager.)
BootApplication ==
  /\ pc.http = "serve"
  /\ slot.image # NoImage
  /\ asked' = TRUE
  /\ Goto("http", "set_boot")
  /\ UNCHANGED <<ram, report, slot, boot, reason, lapsed, running>>

\* Fault: a partition that cannot boot is only reported.
FaultySetBoot ==
  /\ pc.http = "set_boot"
  /\ boot' = IF slot.whole THEN "ota_0" ELSE boot
  /\ Goto("http", "set_reason")
  /\ UNCHANGED <<ram, report, slot, reason, asked, lapsed, running>>

\* esp_ota_set_boot_partition checks the whole image; without one the callback
\* halts the task.
SetBoot ==
  /\ pc.http = "set_boot"
  /\ \/ slot.whole /\ boot' = "ota_0" /\ Goto("http", "set_reason")
     \/ ~slot.whole /\ Goto("http", "halted") /\ UNCHANGED boot
  /\ UNCHANGED <<ram, report, slot, reason, asked, lapsed, running>>

\* The boot reason; then DLM_BOOT_DELAY_MS begins.
SetReason ==
  /\ pc.http = "set_reason"
  /\ reason' \in {"normal", "first_boot"}
  /\ Goto("http", "handoff")
  /\ UNCHANGED <<ram, report, slot, boot, asked, lapsed, running>>

boot_manager_boot_application == BootApplication \/ SetBoot \/ SetReason

-----------------------------------------------------------------------------
\* The update task

\* Where the update fails, without a trace in flash of its own.
Fail ==
  /\ Goto("ota", "failed")
  /\ UNCHANGED <<ram, report, flash, running>>

\* Fault: the handle forgotten before the work is done.
FaultyBegin ==
  /\ pc.ota = "begin"
  /\ state' = "DOWNLOADING"
  /\ handle' = FALSE
  /\ Goto("ota", "progress")
  /\ UNCHANGED <<progress, release, report, flash, running>>

\* ota_update_task up to do_perform_update, and its check of the URL.
Begin ==
  /\ pc.ota = "begin"
  /\ state' = "DOWNLOADING"
  /\ Goto("ota", "progress")
  /\ UNCHANGED <<progress, handle, release, report, flash, running>>

BeginProgress ==
  /\ pc.ota = "progress"
  /\ progress' = 5
  /\ Goto("ota", "perform")
  /\ UNCHANGED <<state, handle, release, report, flash, running>>

\* custom_download: the connection.
Connect ==
  /\ pc.ota = "perform"
  /\ \/ /\ release.url
        /\ progress' = 10
        /\ Goto("ota", "erase")
        /\ UNCHANGED <<state, handle, release, report, flash, running>>
     \/ Fail

\* Fault: a partition taken for whole while it is written again.
FaultyErase ==
  /\ pc.ota = "erase"
  /\ slot' = [slot EXCEPT !.image = NoImage]
  /\ Goto("ota", "header")
  /\ UNCHANGED <<ram, report, boot, reason, asked, lapsed, running>>

\* esp_https_ota erases ota_0 and writes it part by part; the network or the
\* image's own checks may end it after any part.
Erase ==
  /\ pc.ota = "erase"
  /\ \/ /\ slot' = NoSlot
        /\ Goto("ota", "header")
        /\ UNCHANGED <<ram, report, boot, reason, asked, lapsed, running>>
     \/ Fail

WriteHeader ==
  /\ pc.ota = "header"
  /\ \/ /\ slot' = [image |-> release.image, whole |-> FALSE]
        /\ Goto("ota", "body")
        /\ UNCHANGED <<ram, report, boot, reason, asked, lapsed, running>>
     \/ Fail

WriteBody ==
  /\ pc.ota = "body"
  /\ \/ /\ slot' = [slot EXCEPT !.whole = TRUE]
        /\ Goto("ota", "install")
        /\ UNCHANGED <<ram, report, boot, reason, asked, lapsed, running>>
     \/ Fail

\* Fault: the new image not made the one to boot.
FaultyInstall ==
  /\ pc.ota = "install"
  /\ \/ Goto("ota", "downloaded") /\ UNCHANGED <<ram, report, flash, running>>
     \/ Fail

\* esp_https_ota ends with esp_ota_set_boot_partition, before the signature.
Install ==
  /\ pc.ota = "install"
  /\ \/ /\ boot' = "ota_0"
        /\ Goto("ota", "downloaded")
        /\ UNCHANGED <<ram, report, slot, reason, asked, lapsed, running>>
     \/ Fail

Downloaded ==
  /\ pc.ota = "downloaded"
  /\ \/ progress = 10 /\ progress' = 90 /\ Goto("ota", "downloaded")
     \/ progress = 90 /\ progress' = 85 /\ Goto("ota", "verify")
  /\ UNCHANGED <<state, handle, release, report, flash, running>>

\* signature_verifier_check; skipped without a size or signature, or when the
\* partition cannot be mapped.
Verify ==
  /\ pc.ota = "verify"
  /\ \/ release.signed /\ release.image \notin Genuine /\ Goto("ota", "rollback")
     \/ Goto("ota", "done")
  /\ UNCHANGED <<ram, report, flash, running>>

\* Fault: the boot partition left on the rejected image.
FaultyRollback == pc.ota = "rollback" /\ Fail

\* A rejected image stays in ota_0, but is not what boots, unless otadata cannot be
\* written: nobody looks at what esp_ota_set_boot_partition returns here.
Rollback ==
  /\ pc.ota = "rollback"
  /\ \/ boot' = "factory" /\ UNCHANGED lapsed
     \/ lapsed' = TRUE /\ UNCHANGED boot
  /\ Goto("ota", "failed")
  /\ UNCHANGED <<ram, report, slot, reason, asked, running>>

\* Fault: the last progress call dropped.
FaultyDone ==
  /\ pc.ota = "done"
  /\ Goto("ota", "full")
  /\ UNCHANGED <<ram, report, flash, running>>

\* progress_cb(100), the version to NVS, and the task's own marks.
Done ==
  /\ pc.ota = "done"
  /\ progress' = 100
  /\ Goto("ota", "full")
  /\ UNCHANGED <<state, handle, release, report, flash, running>>

Complete ==
  /\ pc.ota = "full"
  /\ state' = "COMPLETE"
  /\ Goto("ota", "restart")
  /\ UNCHANGED <<progress, handle, release, report, flash, running>>

\* Fault: the handle of the ended task kept.
FaultyFailed ==
  /\ pc.ota \in {"failed", "exit"}
  /\ state' = "FAILED"
  /\ Goto("ota", "none")
  /\ UNCHANGED <<progress, handle, release, report, flash, running>>

\* The task tells of the failure and ends.
Failed ==
  /\ \/ pc.ota = "failed" /\ state' = "FAILED" /\ Goto("ota", "exit") /\ UNCHANGED handle
     \/ pc.ota = "exit" /\ handle' = FALSE /\ Goto("ota", "none") /\ UNCHANGED state
  /\ UNCHANGED <<progress, release, report, flash, running>>

ota_update_task ==
  \/ Begin \/ BeginProgress \/ Connect \/ Erase \/ WriteHeader \/ WriteBody
  \/ Install \/ Downloaded \/ Verify \/ Rollback \/ Done \/ Complete \/ Failed

-----------------------------------------------------------------------------
\* The boot loader starts ota_0 if it is to and can, the DLM otherwise. Once the
\* application runs, the DLM's tasks are gone.
Boot ==
  /\ \/ boot = "ota_0" /\ slot.whole /\ running' = slot.image /\ pc' = GonePc
     \/ ~(boot = "ota_0" /\ slot.whole) /\ running' = "factory" /\ pc' = FreshPc
  /\ state' = "IDLE" /\ progress' = 0 /\ handle' = FALSE /\ release' = NoRelease
  /\ report' = NoReport
  /\ UNCHANGED flash

\* The restart of the update task, 3 s after its end, and that of the handoff.
Restart == (pc.ota = "restart" \/ pc.http = "handoff") /\ Boot

\* Any other restart, and a power loss.
PowerLoss == Boot

-----------------------------------------------------------------------------
HttpTask ==
  ota_manager_start_update \/ status_handler \/ boot_manager_boot_application

Next == HttpTask \/ ota_update_task \/ Restart \/ PowerLoss

Spec == Init /\ [][Next]_vars

\* The scheduler runs the update task, the delays pass, and esp_https_ota comes
\* to an end (DLM_OTA_DOWNLOAD_TIMEOUT_SEC on every read).
FairSpec == Spec /\ WF_vars(ota_update_task) /\ WF_vars(Restart)

-----------------------------------------------------------------------------
\* No second update task ever writes ota_0 beside a first: when
\* ota_manager_start_update gets past its test of the handle, and until the task
\* is created, none is there.
OneWriter == pc.http = "create" => pc.ota = "none"

\* A failed update leaves the DLM as what the next restart starts, whatever it
\* failed of and wherever power was lost before, unless a user asked for the
\* application (do_perform_update's rollback of what esp_https_ota did), or that
\* rollback failed itself, in this update or an earlier one.
FailureStaysInDlm == state = "FAILED" /\ ~asked /\ ~lapsed => boot = "factory"

\* Nobody is told that the update is complete at less than 100 %, although
\* status_handler reads the two values while the update task writes them.
CompleteIsFull ==
  pc.http # "status" /\ report.state = "COMPLETE" => report.progress = 100

\* The restart at the end of boot_manager_boot_application, a second after it has
\* checked ota_0, finds the application there still, unless an update was begun in
\* this boot; wherever the power was lost before.
HandoffBootsApp ==
  pc.http = "handoff" /\ release = NoRelease => boot = "ota_0" /\ slot.whole

\* The update as module SafeUpdate sees it: from the task's creation until it says
\* FAILED, complete once it says COMPLETE.
Job ==
  IF pc.ota \in {"none", "exit", "gone"} THEN [stage |-> "none", image |-> NoImage]
  ELSE [stage |-> IF pc.ota = "restart" THEN "done" ELSE "work", image |-> release.image]

Update == INSTANCE SafeUpdate WITH job <- Job

\* Two tasks, their states and resets at every step come to no more than SafeUpdate
\* allows: ota_0 is only written while it is not what boots, it boots only whole,
\* an update told to be complete is what the next restart starts, and one told to
\* have failed leaves the DLM, in whatever order the tasks' steps and a user's
\* /boot-app come, as long as every rollback does its work.
RefinesSafeUpdate == Update!Spec

\* Every update ends: the device restarts or another update can be started, so a
\* failure never locks the user out of updates (ota_update_task).
UpdateEnds == handle ~> ~handle

\* ota_manager.h: an update is verified before it is installed. So no restart
\* starts a downloaded image while the check of its signature is still to come.
VerifiedBeforeBoot ==
  [][pc.ota \in {"downloaded", "verify"} /\ release.signed => running' \notin Images]_vars

=============================================================================
