------------------------------ MODULE SafeUpdate ------------------------------
(* What an update promises (update/ota_manager.c, and boot_application of       *)
(* core/boot_manager.c beside it), without its tasks, states and percents: what *)
(* may become of the partition ota_0 and of the choice of what boots, and who   *)
(* may change them.                                                             *)
CONSTANTS
  Images,   \* firmware images that are served for download
  NoImage   \* ota_0 holds no readable application

VARIABLES
  job,      \* the update under way: its image, and if it is told to be complete
  slot,     \* ota_0: whose application it holds, and if it is whole
  boot,     \* what the next restart is to start
  asked,    \* a user has asked for the application
  lapsed,   \* a rejected image could not be kept from booting
  running   \* the firmware that runs

vars == <<job, slot, boot, asked, lapsed, running>>

NoJob == [stage |-> "none", image |-> NoImage]
NoSlot == [image |-> NoImage, whole |-> FALSE]
Part(i) == [image |-> i, whole |-> FALSE]
Whole(i) == [image |-> i, whole |-> TRUE]

Init ==
  /\ job = NoJob
  /\ slot \in {Whole(i) : i \in Images} \cup {NoSlot}
  /\ boot = "factory" /\ asked = FALSE /\ lapsed = FALSE /\ running = "factory"

\* The device stays with the firmware that updates it: what boots is not in ota_0,
\* unless a user has asked for that or a rejection failed.
Safe == boot = "factory" \/ asked \/ lapsed

-----------------------------------------------------------------------------
\* ota_manager_start_update: one update at a time, and only in this firmware.
Begin(i) ==
  /\ job = NoJob /\ running = "factory"
  /\ job' = [stage |-> "work", image |-> i]
  /\ UNCHANGED <<slot, boot, asked, lapsed, running>>

\* provider->download erases and writes ota_0, while it is not what boots.
Write ==
  /\ job.stage = "work" /\ Safe
  /\ slot' \in {NoSlot, Part(job.image), Whole(job.image)}
  /\ UNCHANGED <<job, boot, asked, lapsed, running>>

\* ... and makes it what boots once it has all of the image.
Install ==
  /\ job.stage = "work" /\ slot = Whole(job.image)
  /\ boot' = "ota_0"
  /\ UNCHANGED <<job, slot, asked, lapsed, running>>

\* An image whose signature is wrong is what boots no longer, if that can be written.
Reject ==
  /\ job.stage = "work"
  /\ \/ boot' = "factory" /\ UNCHANGED lapsed
     \/ lapsed' = TRUE /\ UNCHANGED boot
  /\ UNCHANGED <<job, slot, asked, running>>

\* COMPLETE: the next restart starts the image that was asked for, all of it.
Finish ==
  /\ job.stage = "work" /\ slot = Whole(job.image) /\ boot = "ota_0"
  /\ job' = [job EXCEPT !.stage = "done"]
  /\ UNCHANGED <<slot, boot, asked, lapsed, running>>

\* FAILED: the device stays in this firmware. Another update may begin.
Fail ==
  /\ job.stage = "work" /\ Safe
  /\ job' = NoJob
  /\ UNCHANGED <<slot, boot, asked, lapsed, running>>

\* boot_manager_boot_application for a user: an application is needed ...
Ask ==
  /\ running = "factory" /\ slot.image # NoImage
  /\ asked' = TRUE
  /\ UNCHANGED <<job, slot, boot, lapsed, running>>

\* ... and all of it before it is what boots.
SetBoot ==
  /\ running = "factory" /\ asked /\ slot.whole
  /\ boot' = "ota_0"
  /\ UNCHANGED <<job, slot, asked, lapsed, running>>

\* A restart, or a power loss, at any time.
Restart ==
  /\ job' = NoJob
  /\ running' = IF boot = "ota_0" /\ slot.whole THEN slot.image ELSE "factory"
  /\ UNCHANGED <<slot, boot, asked, lapsed>>

Next ==
  \/ \E i \in Images : Begin(i)
  \/ Write \/ Install \/ Reject \/ Finish \/ Fail
  \/ Ask \/ SetBoot
  \/ Restart

Spec == Init /\ [][Next]_vars

=============================================================================
