-------------------------- MODULE OtaManagerProofs --------------------------
(* Proofs about OtaManager, for every set of images and of genuine ones.        *)
EXTENDS OtaManager, TLAPS

PcOK == pc \in [http : HttpLabels, ota : OtaLabels]

\* A task that moves leaves the other where it is.
LEMMA Moved ==
  ASSUME PcOK
  PROVE  /\ \A l \in HttpLabels : Goto("http", l) =>
              PcOK' /\ pc'.http = l /\ pc'.ota = pc.ota
         /\ \A l \in OtaLabels : Goto("ota", l) =>
              PcOK' /\ pc'.ota = l /\ pc'.http = pc.http
BY DEF PcOK, Goto

-----------------------------------------------------------------------------
\* Types. A task at work has a release, and ota_0 an image once its header is
\* written.
TInv ==
  /\ TypeOK
  /\ pc.ota \notin {"none", "gone"} => release \in Releases
  /\ pc.ota = "body" => slot.image \in Images

LEMMA InitTypes == Init => TInv
<1> SUFFICES ASSUME Init PROVE TInv
  OBVIOUS
<1>1. pc \in [http : HttpLabels, ota : OtaLabels] /\ pc.ota = "none"
  BY DEF Init, FreshPc, HttpLabels, OtaLabels
<1>2. report \in [state : States, progress : Percents]
  BY DEF Init, NoReport, States, Percents
<1>3. state \in States /\ progress \in Percents
  BY DEF Init, FreshRam, States, Percents
<1>4. slot \in [image : Images, whole : BOOLEAN] \cup {NoSlot}
  BY DEF Init
<1> QED BY <1>1, <1>2, <1>3, <1>4 DEF Init, FreshRam, TInv, TypeOK, Reasons

LEMMA BootTypes ==
  ASSUME TInv, Boot
  PROVE  TInv'
<1>1. pc' \in [http : HttpLabels, ota : OtaLabels] /\ pc'.ota \in {"none", "gone"}
  BY DEF Boot, FreshPc, GonePc, HttpLabels, OtaLabels
<1>2. report' \in [state : States, progress : Percents]
  BY DEF Boot, NoReport, States, Percents
<1>3. state' \in States /\ progress' \in Percents
  BY DEF Boot, States, Percents
<1>4. running' \in Images \cup {"factory"}
  BY DEF Boot, TInv, TypeOK, NoSlot
<1> QED BY <1>1, <1>2, <1>3, <1>4 DEF Boot, flash, TInv, TypeOK

LEMMA HttpTypes ==
  ASSUME TInv, HttpTask
  PROVE  TInv'
<1> USE Moved DEF TInv, TypeOK, PcOK
<1>1. CASE StartUpdate
  BY <1>1 DEF StartUpdate, flash, HttpLabels, States, Percents
<1>2. CASE CreateTask
  <2>1. CASE handle' = TRUE /\ release' \in Releases /\ pc' = [http |-> "serve", ota |-> "begin"]
    <3>1. PcOK' /\ pc'.ota = "begin"
      BY <2>1 DEF HttpLabels, OtaLabels
    <3> QED BY <1>2, <2>1, <3>1 DEF CreateTask, flash
  <2>2. CASE handle' = FALSE /\ Goto("http", "serve") /\ UNCHANGED release
    BY <1>2, <2>2 DEF CreateTask, flash, HttpLabels
  <2> QED BY <1>2, <2>1, <2>2 DEF CreateTask
<1>3. CASE status_handler
  <2>1. report' \in [state : States, progress : Percents]
    BY <1>3 DEF status_handler, ram
  <2>2. PcOK' /\ pc'.ota = pc.ota
    BY <1>3 DEF status_handler, HttpLabels
  <2> QED BY <1>3, <2>1, <2>2 DEF status_handler, ram, flash
<1>4. CASE BootApplication
  BY <1>4 DEF BootApplication, ram, HttpLabels
<1>5. CASE SetBoot
  BY <1>5 DEF SetBoot, ram, HttpLabels
<1>6. CASE SetReason
  BY <1>6 DEF SetReason, ram, HttpLabels, Reasons
<1> QED
  BY <1>1, <1>2, <1>3, <1>4, <1>5, <1>6
     DEF HttpTask, ota_manager_start_update, boot_manager_boot_application

LEMMA FailTypes ==
  ASSUME TInv, Fail, pc.ota \notin {"none", "gone"}
  PROVE  TInv'
BY Moved DEF Fail, ram, flash, TInv, TypeOK, PcOK, OtaLabels

LEMMA OtaTypes ==
  ASSUME TInv, ota_update_task
  PROVE  TInv'
<1> USE Moved, FailTypes DEF TInv, TypeOK, PcOK
<1>1. CASE Begin
  BY <1>1 DEF Begin, flash, OtaLabels, States
<1>2. CASE BeginProgress
  BY <1>2 DEF BeginProgress, flash, OtaLabels, Percents
<1>3. CASE Connect
  BY <1>3 DEF Connect, flash, OtaLabels, Percents
<1>4. CASE Erase
  BY <1>4 DEF Erase, ram, OtaLabels
<1>5. CASE WriteHeader
  <2>1. release.image \in Images
    BY <1>5 DEF WriteHeader, Releases
  <2>2. CASE slot' = [image |-> release.image, whole |-> FALSE] /\ Goto("ota", "body")
    <3>1. slot' \in [image : Images, whole : BOOLEAN] /\ slot'.image \in Images
      BY <2>1, <2>2
    <3> QED BY <1>5, <2>2, <3>1 DEF WriteHeader, ram, OtaLabels
  <2> QED BY <1>5, <2>2 DEF WriteHeader
<1>6. CASE WriteBody
  BY <1>6 DEF WriteBody, ram, OtaLabels, NoSlot
<1>7. CASE Install
  BY <1>7 DEF Install, ram, OtaLabels
<1>8. CASE Downloaded
  <2>1. PcOK' /\ pc'.ota \in {"downloaded", "verify"}
    BY <1>8 DEF Downloaded, OtaLabels
  <2>2. progress' \in Percents
    BY <1>8 DEF Downloaded, Percents
  <2> QED BY <1>8, <2>1, <2>2 DEF Downloaded, flash
<1>9. CASE Verify
  BY <1>9 DEF Verify, ram, flash, OtaLabels
<1>10. CASE Rollback
  BY <1>10 DEF Rollback, ram, OtaLabels
<1>11. CASE Done
  BY <1>11 DEF Done, flash, OtaLabels, Percents
<1>12. CASE Complete
  BY <1>12 DEF Complete, flash, OtaLabels, States
<1>13. CASE Failed
  <2>1. PcOK' /\ pc'.ota \in {"exit", "none"}
    BY <1>13 DEF Failed, OtaLabels
  <2>2. state' \in States /\ handle' \in BOOLEAN
    BY <1>13 DEF Failed, States
  <2>3. pc.ota \notin {"none", "gone"}
    BY <1>13 DEF Failed
  <2> QED BY <1>13, <2>1, <2>2, <2>3 DEF Failed, flash
<1> QED
  BY <1>1, <1>2, <1>3, <1>4, <1>5, <1>6, <1>7, <1>8, <1>9, <1>10, <1>11, <1>12, <1>13
     DEF ota_update_task

LEMMA NextTypes == TInv /\ [Next]_vars => TInv'
<1>1. ASSUME TInv, UNCHANGED vars PROVE TInv'
  BY <1>1 DEF vars, ram, flash, TInv, TypeOK
<1> QED BY <1>1, BootTypes, HttpTypes, OtaTypes DEF Next, Restart, PowerLoss

\* Every step keeps every variable in its range (ota_manager.c).
THEOREM TypeCorrect == Spec => []TypeOK
<1>1. TInv => TypeOK
  BY DEF TInv
<1> QED BY <1>1, InitTypes, NextTypes, PTL DEF Spec

-----------------------------------------------------------------------------
\* The update's image is in ota_0 and is to boot, or runs.
Installed == {"downloaded", "verify", "rollback", "done", "full", "restart", "gone"}

IInv ==
  /\ TInv
  /\ pc.http = "gone" <=> pc.ota = "gone"
  \* The handle covers the life of the update task ...
  /\ pc.ota \notin {"none", "gone"} => handle
  \* ... so that none is there while another is created.
  /\ pc.http = "create" => ~handle
  /\ state = "FAILED" => pc.ota \in {"none", "begin", "exit"}
  \* Only a user's request, or an update that has ota_0 whole, makes it boot.
  /\ pc.http \in {"set_boot", "set_reason", "handoff"} => asked
  /\ pc.ota = "install" => slot.whole
  \* The application that was checked is not touched but by an update.
  /\ pc.http \in {"set_reason", "handoff"} /\ release = NoRelease =>
       boot = "ota_0" /\ slot.whole
  /\ pc.ota \notin {"none", "gone"} => release # NoRelease
  /\ boot = "ota_0" /\ ~asked /\ ~lapsed => slot.whole /\ pc.ota \in Installed
  \* COMPLETE is the update task's last state, and what a report that has seen it
  \* will find.
  /\ pc.ota = "full" => progress = 100
  /\ state = "COMPLETE" => progress = 100 /\ pc.ota = "restart"
  /\ report.state = "COMPLETE" =>
       IF pc.http = "status" THEN state = "COMPLETE" ELSE report.progress = 100

LEMMA ReleaseIsOne == \A r \in Releases : r # NoRelease
BY OtaAssumption DEF Releases, NoRelease

LEMMA InitInvariant == Init => IInv
<1> SUFFICES ASSUME Init PROVE IInv
  OBVIOUS
<1>1. pc.http = "serve" /\ pc.ota = "none"
  BY DEF Init, FreshPc
<1>2. report.state = "IDLE"
  BY DEF Init, NoReport
<1> QED BY <1>1, <1>2, InitTypes DEF Init, FreshRam, IInv

LEMMA BootStep ==
  ASSUME IInv, Boot
  PROVE  IInv'
<1>1. TInv'
  BY BootTypes DEF IInv
<1>2. report'.state = "IDLE" /\ state' = "IDLE"
  BY DEF Boot, NoReport
<1>3. CASE boot = "ota_0" /\ slot.whole /\ running' = slot.image /\ pc' = GonePc
  BY <1>1, <1>2, <1>3 DEF Boot, GonePc, flash, IInv, Installed
<1>4. CASE ~(boot = "ota_0" /\ slot.whole) /\ running' = "factory" /\ pc' = FreshPc
  BY <1>1, <1>2, <1>4 DEF Boot, FreshPc, flash, IInv, Installed
<1> QED BY <1>3, <1>4 DEF Boot

LEMMA HttpStep ==
  ASSUME IInv, HttpTask
  PROVE  IInv'
<1>1. TInv' /\ PcOK
  BY HttpTypes DEF IInv, TInv, TypeOK, PcOK
<1> USE <1>1, Moved
<1>2. CASE StartUpdate
  BY <1>2 DEF StartUpdate, flash, IInv, HttpLabels, Installed
<1>3. CASE CreateTask
  <2>1. pc.ota = "none"
    BY <1>3 DEF CreateTask, IInv
  <2>2. CASE handle' = TRUE /\ release' \in Releases /\ pc' = [http |-> "serve", ota |-> "begin"]
    BY <1>3, <2>1, <2>2, ReleaseIsOne DEF CreateTask, flash, IInv, Installed
  <2>3. CASE handle' = FALSE /\ Goto("http", "serve") /\ UNCHANGED release
    BY <1>3, <2>1, <2>3 DEF CreateTask, flash, IInv, HttpLabels, Installed
  <2> QED BY <1>3, <2>2, <2>3 DEF CreateTask
<1>4. CASE status_handler
  <2>1. report \in [state : States, progress : Percents]
    BY DEF IInv, TInv, TypeOK
  <2>2. CASE /\ pc.http = "serve"
             /\ report' = [report EXCEPT !.state = state]
             /\ Goto("http", "status")
    BY <1>4, <2>1, <2>2 DEF status_handler, ram, flash, IInv, HttpLabels
  <2>3. CASE /\ pc.http = "status"
             /\ report' = [report EXCEPT !.progress = progress]
             /\ Goto("http", "serve")
    BY <1>4, <2>1, <2>3 DEF status_handler, ram, flash, IInv, HttpLabels
  <2> QED BY <1>4, <2>2, <2>3 DEF status_handler
<1>5. CASE BootApplication
  BY <1>5 DEF BootApplication, ram, IInv, HttpLabels
<1>6. CASE SetBoot
  BY <1>6 DEF SetBoot, ram, IInv, HttpLabels
<1>7. CASE SetReason
  BY <1>7 DEF SetReason, ram, IInv, HttpLabels
<1> QED
  BY <1>2, <1>3, <1>4, <1>5, <1>6, <1>7
     DEF HttpTask, ota_manager_start_update, boot_manager_boot_application

\* The update task fails only before it made ota_0 the boot partition.
LEMMA FailStep ==
  ASSUME IInv, Fail, pc.ota \notin Installed, pc.ota # "none", state # "FAILED"
  PROVE  IInv'
<1>1. TInv' /\ PcOK
  BY FailTypes DEF IInv, TInv, TypeOK, PcOK, Installed
<1> QED BY <1>1, Moved DEF Fail, ram, flash, IInv, Installed, OtaLabels

LEMMA OtaStep ==
  ASSUME IInv, ota_update_task
  PROVE  IInv'
<1>1. TInv' /\ PcOK
  BY OtaTypes DEF IInv, TInv, TypeOK, PcOK
<1> USE <1>1, Moved, FailStep
<1>2. CASE Begin
  BY <1>2 DEF Begin, flash, IInv, OtaLabels, Installed
<1>3. CASE BeginProgress
  BY <1>3 DEF BeginProgress, flash, IInv, OtaLabels, Installed
<1>4. CASE Connect
  BY <1>4 DEF Connect, flash, IInv, OtaLabels, Installed
<1>5. CASE Erase
  BY <1>5 DEF Erase, ram, IInv, OtaLabels, Installed
<1>6. CASE WriteHeader
  BY <1>6 DEF WriteHeader, ram, IInv, OtaLabels, Installed
<1>7. CASE WriteBody
  <2>1. CASE Fail
    BY <1>7, <2>1 DEF WriteBody, IInv, Installed
  <2>2. CASE slot' = [slot EXCEPT !.whole = TRUE] /\ Goto("ota", "install")
    <3>1. slot'.whole
      BY <2>2 DEF IInv, TInv, TypeOK, NoSlot
    <3> QED BY <1>7, <2>2, <3>1 DEF WriteBody, ram, IInv, OtaLabels, Installed
  <2> QED BY <1>7, <2>1, <2>2 DEF WriteBody
<1>8. CASE Install
  BY <1>8 DEF Install, ram, IInv, OtaLabels, Installed
<1>9. CASE Downloaded
  BY <1>9 DEF Downloaded, flash, IInv, OtaLabels, Installed
<1>10. CASE Verify
  BY <1>10 DEF Verify, ram, flash, IInv, OtaLabels, Installed
<1>11. CASE Rollback
  BY <1>11 DEF Rollback, ram, IInv, OtaLabels, Installed
<1>12. CASE Done
  BY <1>12 DEF Done, flash, IInv, OtaLabels, Installed
<1>13. CASE Complete
  BY <1>13 DEF Complete, flash, IInv, OtaLabels, Installed
<1>14. CASE Failed
  BY <1>14 DEF Failed, flash, IInv, OtaLabels, Installed
<1> QED
  BY <1>2, <1>3, <1>4, <1>5, <1>6, <1>7, <1>8, <1>9, <1>10, <1>11, <1>12, <1>13, <1>14
     DEF ota_update_task

LEMMA NextInvariant == IInv /\ [Next]_vars => IInv'
<1>1. ASSUME IInv, UNCHANGED vars PROVE IInv'
  <2>1. TInv'
    BY <1>1, NextTypes DEF IInv
  <2> QED BY <1>1, <2>1 DEF vars, ram, flash, IInv
<1> QED BY <1>1, BootStep, HttpStep, OtaStep DEF Next, Restart, PowerLoss

LEMMA Invariant == Spec => []IInv
BY InitInvariant, NextInvariant, PTL DEF Spec

-----------------------------------------------------------------------------
\* Two updates never write ota_0 at once: the test of s_ota_task_handle in
\* ota_manager_start_update holds until the new task exists.
THEOREM OneWriterAlways == Spec => []OneWriter
<1>1. IInv => OneWriter
  BY DEF IInv, OneWriter
<1> QED BY <1>1, Invariant, PTL

\* A failed update leaves the DLM as what boots, at whatever step it failed or the
\* power went, unless a user asked for the application (do_perform_update).
THEOREM FailureAlwaysStaysInDlm == Spec => []FailureStaysInDlm
<1>1. IInv => FailureStaysInDlm
  BY DEF IInv, TInv, TypeOK, FailureStaysInDlm, Installed
<1> QED BY <1>1, Invariant, PTL

\* The hand-over starts the application it has checked, if no update was begun in
\* this boot (boot_manager_boot_application).
THEOREM HandoffAlwaysBootsApp == Spec => []HandoffBootsApp
<1>1. IInv => HandoffBootsApp
  BY DEF IInv, HandoffBootsApp
<1> QED BY <1>1, Invariant, PTL

\* No interleaving of status_handler's two reads with the update task's writes
\* reports a complete update at less than 100 %.
THEOREM CompleteIsAlwaysFull == Spec => []CompleteIsFull
<1>1. IInv => CompleteIsFull
  BY DEF IInv, CompleteIsFull
<1> QED BY <1>1, Invariant, PTL

-----------------------------------------------------------------------------
\* The refinement of SafeUpdate

WholeImage == [image |-> release.image, whole |-> TRUE]

RInv ==
  /\ IInv
  \* ota_0 holds what the update has written of its image, and nobody else does ...
  /\ pc.ota = "body" => slot = [image |-> release.image, whole |-> FALSE]
  /\ pc.ota \in {"install"} \cup (Installed \ {"gone"}) => slot = WholeImage
  \* ... and what boots is left to it from its installation to its end.
  /\ pc.ota \in Installed \ {"gone"} => boot = "ota_0"
  \* The tasks are those of the DLM.
  /\ running = "factory" \/ pc.http = "gone"

LEMMA InitR == Init => RInv
<1> SUFFICES ASSUME Init PROVE RInv
  OBVIOUS
<1>1. pc.ota = "none" /\ running = "factory"
  BY DEF Init, FreshPc
<1> QED BY <1>1, InitInvariant DEF RInv, Installed

\* The last part makes the image whole.
LEMMA LastPart ==
  ASSUME NEW s, s = [image |-> release.image, whole |-> FALSE]
  PROVE  [s EXCEPT !.whole = TRUE] = WholeImage
<1> DEFINE t == [s EXCEPT !.whole = TRUE]
<1>1. s \in [image : {release.image}, whole : BOOLEAN]
  OBVIOUS
<1>2. t \in [image : {release.image}, whole : BOOLEAN] /\ t.whole = TRUE
  BY <1>1
<1> HIDE DEF t
<1>3. t = [image |-> t.image, whole |-> TRUE] /\ t.image = release.image
  BY <1>2
<1> QED BY <1>3 DEF t, WholeImage

LEMMA HttpR ==
  ASSUME RInv, HttpTask, IInv'
  PROVE  RInv'
<1>1. PcOK
  BY DEF RInv, IInv, TInv, TypeOK, PcOK
<1> USE <1>1, Moved DEF RInv, WholeImage, HttpLabels, Installed
<1>2. CASE StartUpdate
  BY <1>2 DEF StartUpdate, flash
<1>3. CASE CreateTask
  <2>1. CASE pc' = [http |-> "serve", ota |-> "begin"]
    BY <1>3, <2>1 DEF CreateTask, flash, IInv
  <2>2. CASE Goto("http", "serve") /\ UNCHANGED release
    BY <1>3, <2>2 DEF CreateTask, flash
  <2> QED BY <1>3, <2>1, <2>2 DEF CreateTask
<1>4. CASE status_handler
  BY <1>4 DEF status_handler, ram, flash
<1>5. CASE BootApplication \/ SetBoot \/ SetReason
  BY <1>5 DEF BootApplication, SetBoot, SetReason, ram
<1> QED
  BY <1>2, <1>3, <1>4, <1>5
     DEF HttpTask, ota_manager_start_update, boot_manager_boot_application

LEMMA OtaR ==
  ASSUME RInv, ota_update_task, IInv'
  PROVE  RInv'
<1>1. PcOK
  BY DEF RInv, IInv, TInv, TypeOK, PcOK
<1> USE <1>1, Moved DEF RInv, WholeImage, OtaLabels, Installed
<1>2. CASE Fail
  BY <1>2 DEF Fail, ram, flash
<1>3. CASE Begin \/ BeginProgress \/ (Connect /\ ~Fail)
  BY <1>3 DEF Begin, BeginProgress, Connect, flash
<1>4. CASE (Erase \/ WriteHeader \/ WriteBody \/ Install) /\ ~Fail
  <2> QED BY <1>4, LastPart DEF Erase, WriteHeader, WriteBody, Install, ram
<1>5. CASE Downloaded \/ Verify
  BY <1>5 DEF Downloaded, Verify, ram, flash
<1>6. CASE Rollback \/ Done \/ Complete
  BY <1>6 DEF Rollback, Done, Complete, ram, flash
<1>7. CASE Failed
  BY <1>7 DEF Failed, flash
<1> QED
  BY <1>2, <1>3, <1>4, <1>5, <1>6, <1>7
     DEF ota_update_task, Connect, Erase, WriteHeader, WriteBody, Install

LEMMA NextR == RInv /\ [Next]_vars => RInv'
<1> SUFFICES ASSUME RInv, [Next]_vars PROVE RInv'
  OBVIOUS
<1>1. IInv'
  BY NextInvariant DEF RInv
<1>2. CASE Boot
  <2>1. pc'.ota \in {"none", "gone"} /\ (running' = "factory" \/ pc'.http = "gone")
    BY <1>2 DEF Boot, FreshPc, GonePc
  <2> QED BY <1>1, <2>1 DEF RInv, Installed
<1>3. CASE UNCHANGED vars
  BY <1>1, <1>3 DEF RInv, WholeImage, vars, ram, flash
<1> QED BY <1>1, <1>2, <1>3, HttpR, OtaR DEF Next, Restart, PowerLoss

LEMMA RInvariant == Spec => []RInv
BY InitR, NextR, PTL DEF Spec

\* A job told to be complete.
LEMMA Told ==
  ASSUME NEW i, NEW j, j = [stage |-> "work", image |-> i]
  PROVE  [j EXCEPT !.stage = "done"] = [stage |-> "done", image |-> i]
<1> DEFINE t == [j EXCEPT !.stage = "done"]
<1>1. j \in [stage : {"work", "done"}, image : {i}]
  OBVIOUS
<1>2. t \in [stage : {"work", "done"}, image : {i}] /\ t.stage = "done"
  BY <1>1
<1> HIDE DEF t
<1>3. t = [stage |-> "done", image |-> t.image] /\ t.image = i
  BY <1>2
<1> QED BY <1>3 DEF t

\* What may be in ota_0 when the device is flashed.
LEMMA WholeApplications ==
  ASSUME NEW s \in [image : Images, whole : {TRUE}]
  PROVE  \E i \in Images : s = [image |-> i, whole |-> TRUE]
<1>1. s = [image |-> s.image, whole |-> TRUE] /\ s.image \in Images
  OBVIOUS
<1> QED BY <1>1

\* The words of SafeUpdate for what this module has.
LEMMA Same ==
  /\ NoSlot = Update!NoSlot
  /\ \A i \in Images : Update!Whole(i) = [image |-> i, whole |-> TRUE]
  /\ \A i \in Images : Update!Part(i) = [image |-> i, whole |-> FALSE]
  /\ pc.ota \in {"none", "exit", "gone"} => Job = Update!NoJob
  /\ pc.ota \notin {"none", "exit", "gone", "restart"} =>
       Job = [stage |-> "work", image |-> release.image]
  /\ pc.ota = "restart" => Job = [stage |-> "done", image |-> release.image]
BY DEF NoSlot, Update!NoSlot, Update!Whole, Update!Part, Update!NoJob, Job

\* What SafeUpdate sees.
seen == <<Job, slot, boot, asked, lapsed, running>>

\* A step that moves neither the update nor what is in flash.
LEMMA Unseen ==
  ASSUME UNCHANGED <<slot, boot, asked, lapsed, running, release>>,
         \/ pc'.ota = pc.ota
         \/ {pc.ota, pc'.ota} \subseteq {"none", "exit", "gone"}
         \/ {pc.ota, pc'.ota} \cap {"none", "exit", "gone", "restart"} = {}
  PROVE  UNCHANGED seen
BY DEF seen, Job

LEMMA HttpRefines ==
  ASSUME RInv, HttpTask
  PROVE  [Update!Next]_seen
<1>1. PcOK
  BY DEF RInv, IInv, TInv, TypeOK, PcOK
<1> USE <1>1, Moved, Same
<1>2. CASE StartUpdate
  BY <1>2, Unseen DEF StartUpdate, flash, HttpLabels
<1>3. CASE CreateTask
  <2>1. CASE release' \in Releases /\ pc' = [http |-> "serve", ota |-> "begin"]
    <3>1. pc.ota = "none" /\ running = "factory" /\ release'.image \in Images
      BY <1>3, <2>1 DEF CreateTask, RInv, IInv, Releases
    <3>2. Job' = [stage |-> "work", image |-> release'.image]
      BY <2>1 DEF Job
    <3>3. Update!Begin(release'.image)
      BY <1>3, <3>1, <3>2 DEF CreateTask, flash, Update!Begin
    <3> QED BY <3>1, <3>3 DEF Update!Next
  <2>2. CASE Goto("http", "serve") /\ UNCHANGED release
    BY <1>3, <2>2, Unseen DEF CreateTask, flash, HttpLabels
  <2> QED BY <1>3, <2>1, <2>2 DEF CreateTask
<1>4. CASE status_handler
  BY <1>4, Unseen DEF status_handler, ram, flash, HttpLabels
<1>5. CASE BootApplication
  <2>1. UNCHANGED Job
    BY <1>5 DEF BootApplication, ram, HttpLabels, Job
  <2>2. Update!Ask
    BY <1>5, <2>1 DEF BootApplication, RInv, Update!Ask
  <2> QED BY <2>2 DEF Update!Next
<1>6. CASE SetBoot
  <2>1. UNCHANGED Job
    BY <1>6 DEF SetBoot, ram, HttpLabels, Job
  <2>2. CASE slot.whole /\ boot' = "ota_0"
    <3>1. Update!SetBoot
      BY <1>6, <2>1, <2>2 DEF SetBoot, RInv, IInv, Update!SetBoot
    <3> QED BY <3>1 DEF Update!Next
  <2>3. CASE UNCHANGED boot
    BY <1>6, <2>1, <2>3 DEF SetBoot, seen
  <2> QED BY <1>6, <2>2, <2>3 DEF SetBoot
<1>7. CASE SetReason
  BY <1>7, Unseen DEF SetReason, ram, HttpLabels
<1> QED
  BY <1>2, <1>3, <1>4, <1>5, <1>6, <1>7
     DEF HttpTask, ota_manager_start_update, boot_manager_boot_application

\* An update at work has a release to work for.
LEMMA AtWork ==
  ASSUME RInv, pc.ota \notin {"none", "exit", "gone", "restart"}
  PROVE  /\ release.image \in Images
         /\ Job = [stage |-> "work", image |-> release.image]
         /\ Job.stage = "work" /\ Job.image = release.image
BY Same DEF RInv, IInv, TInv, Releases

LEMMA OtaRefines ==
  ASSUME RInv, ota_update_task
  PROVE  [Update!Next]_seen
<1>1. PcOK
  BY DEF RInv, IInv, TInv, TypeOK, PcOK
<1> USE <1>1, Moved, Same DEF OtaLabels
<1>2. CASE Fail /\ pc.ota \notin {"none", "exit", "gone", "restart"}
  BY <1>2, Unseen DEF Fail, ram, flash
<1>3. CASE Begin \/ BeginProgress \/ (Connect /\ ~Fail)
  BY <1>3, Unseen DEF Begin, BeginProgress, Connect, flash
<1>4. CASE (Erase \/ WriteHeader \/ WriteBody) /\ ~Fail
  <2>1. pc.ota \in {"erase", "header", "body"} /\ Update!Safe
    BY <1>4 DEF Erase, WriteHeader, WriteBody, RInv, IInv, TInv, TypeOK, Installed, Update!Safe
  <2>2. UNCHANGED Job
    BY <1>4 DEF Erase, WriteHeader, WriteBody, ram, Job
  <2>3. slot' \in {Update!NoSlot, Update!Part(Job.image), Update!Whole(Job.image)}
    <3>1. CASE Erase
      BY <1>4, <3>1 DEF Erase
    <3>2. CASE WriteHeader
      BY <1>4, <2>1, <3>2, AtWork DEF WriteHeader
    <3>3. CASE WriteBody
      <4>1. slot' = WholeImage
        BY <1>4, <3>3, LastPart DEF WriteBody, RInv
      <4> QED BY <2>1, <4>1, AtWork DEF WholeImage
    <3> QED BY <1>4, <3>1, <3>2, <3>3
  <2>4. Update!Write
    BY <1>4, <2>1, <2>2, <2>3, AtWork DEF Erase, WriteHeader, WriteBody, Update!Write
  <2> QED BY <2>4 DEF Update!Next
<1>5. CASE Install /\ ~Fail
  <2>1. UNCHANGED Job /\ pc.ota = "install"
    BY <1>5 DEF Install, ram, Job
  <2>2. slot = Update!Whole(Job.image)
    BY <2>1, AtWork DEF RInv, WholeImage
  <2>3. Update!Install
    BY <1>5, <2>1, <2>2, AtWork DEF Install, Update!Install
  <2> QED BY <2>3 DEF Update!Next
<1>6. CASE Downloaded \/ Verify \/ Done
  BY <1>6, Unseen DEF Downloaded, Verify, Done, ram, flash
<1>7. CASE Rollback
  <2>1. UNCHANGED Job /\ pc.ota = "rollback"
    BY <1>7 DEF Rollback, ram, Job
  <2>2. Update!Reject
    BY <1>7, <2>1, AtWork DEF Rollback, Update!Reject
  <2> QED BY <2>2 DEF Update!Next
<1>8. CASE Complete
  <2>1. pc.ota = "full" /\ pc'.ota = "restart" /\ boot = "ota_0" /\ slot = WholeImage
    BY <1>8 DEF Complete, RInv, Installed
  <2>2. Job' = [Job EXCEPT !.stage = "done"]
    <3>1. Job' = [stage |-> "done", image |-> release.image]
      BY <1>8, <2>1 DEF Complete, Job
    <3>2. Job = [stage |-> "work", image |-> release.image]
      BY <2>1, AtWork
    <3> QED BY <3>1, <3>2, Told
  <2>3. slot = Update!Whole(Job.image)
    BY <2>1, AtWork DEF WholeImage
  <2>4. Update!Finish
    BY <1>8, <2>1, <2>2, <2>3, AtWork DEF Complete, flash, Update!Finish
  <2> QED BY <2>4 DEF Update!Next
<1>9. CASE Failed
  <2>1. CASE pc.ota = "failed"
    <3>1. Job' = Update!NoJob
      BY <1>9, <2>1 DEF Failed, Job, Update!NoJob
    <3>2. Update!Safe
      BY <2>1 DEF RInv, IInv, TInv, TypeOK, Installed, Update!Safe
    <3>3. Update!Fail
      BY <1>9, <2>1, <3>1, <3>2, AtWork DEF Failed, flash, Update!Fail
    <3> QED BY <3>3 DEF Update!Next
  <2>2. CASE pc.ota = "exit"
    BY <1>9, <2>2, Unseen DEF Failed, flash
  <2> QED BY <1>9, <2>1, <2>2 DEF Failed
<1> QED
  BY <1>2, <1>3, <1>4, <1>5, <1>6, <1>7, <1>8, <1>9
     DEF ota_update_task, Connect, Erase, WriteHeader, WriteBody, Install

LEMMA BootRefines ==
  ASSUME RInv, Boot
  PROVE  [Update!Next]_seen
<1>1. Job' = Update!NoJob
  BY DEF Boot, FreshPc, GonePc, Job, Update!NoJob
<1>2. running' = IF boot = "ota_0" /\ slot.whole THEN slot.image ELSE "factory"
  BY DEF Boot
<1>3. Update!Restart
  BY <1>1, <1>2 DEF Boot, flash, Update!Restart
<1> QED BY <1>3 DEF Update!Next

-----------------------------------------------------------------------------
\* The two tasks of ota_manager.c and boot_manager.c, whatever order their steps
\* come in, wherever an update fails and whenever the power goes, do to ota_0 and
\* to the choice of what boots only what SafeUpdate allows: the update's job is the
\* task from its creation to COMPLETE or FAILED, and every other step is unseen.
THEOREM UpdateIsSafe == Spec => RefinesSafeUpdate
<1>1. ASSUME Init PROVE Update!Init
  <2>1. pc.ota = "none"
    BY <1>1 DEF Init, FreshPc
  <2>2. slot \in {Update!Whole(i) : i \in Images} \cup {Update!NoSlot}
    BY <1>1, Same, WholeApplications DEF Init
  <2> QED BY <1>1, <2>1, <2>2, Same DEF Init, Update!Init
<1>2. ASSUME RInv, [Next]_vars PROVE [Update!Next]_seen
  <2>1. CASE UNCHANGED vars
    BY <2>1, Unseen DEF vars, ram, flash
  <2> QED BY <1>2, <2>1, HttpRefines, OtaRefines, BootRefines DEF Next, Restart, PowerLoss
<1> QED
  BY <1>1, <1>2, RInvariant, PTL DEF Spec, RefinesSafeUpdate, Update!Spec, Update!vars, seen

\* COMPLETE is true: from the moment ota_update_task says so until the restart that
\* it waits 3 s for, the next restart, a power loss included, starts the image of
\* the release, all of which is in ota_0.
THEOREM CompleteIsInstalled ==
  Spec => [](state = "COMPLETE" => boot = "ota_0" /\ slot = WholeImage)
<1>1. RInv => (state = "COMPLETE" => boot = "ota_0" /\ slot = WholeImage)
  BY DEF RInv, IInv, Installed
<1> QED BY <1>1, RInvariant, PTL

=============================================================================
