# Verification of the Device Lifecycle Manager (DLM)

TLA+ models of the ESP32 firmware under `src/main/`: a loader that provisions a
device over Wi-Fi, downloads and verifies an application, and boots it. The
models are checked with TLC on small instances; some of their properties are
proved with TLAPS for every value of the constants.

    tlc -config BootManager_safety.cfg BootManager     # any run of the table below
    tlapm BootManagerProofs.tla                        # any module named *Proofs

## 1. The system

Everything runs in FreeRTOS tasks that share static variables without locks:

| task | code | does |
|---|---|---|
| main | `main.c`, `boot_manager_start` | counts the reset, brings Wi-Fi up, connects or provisions |
| HTTP server | `http_server_task` | serves one connection at a time; runs every handler of the web portal, up to a whole connection attempt |
| event | the default event loop | `wifi_event_handler`, and the boot manager's callbacks it calls |
| delayed AP stop | `delayed_ap_stop_task` | one for each connection: 20 s later it stops the access point and the DNS server |
| OTA | `ota_update_task` | one update: download, install, verify, restart |
| DNS, LED | `dns_server.c`, `led_indicator.c` | captive DNS, blink patterns |

| component | state | operations | what makes it hard | what makes it correct |
|---|---|---|---|---|
| reset detector (`core/reset_detector.c`) | a counter in NVS, with the uptime at which it began | count a boot, trigger, erase everything, clear | it is called twice in a boot; uptime restarts; power fails between erases; NVS calls fail | no reset by few boots; boots in a row do reset; an interrupted reset leaves nothing half usable |
| boot manager (`core/boot_manager.c`) | `s_boot.phase`, `provisioning_entered` | start, connect, provision, hand over, two callbacks | four tasks move one phase; waits are polled; timers act on later phases | CONNECTING ends; PROVISIONING is served; attempts do not overlap |
| Wi-Fi manager (`network/wifi_manager.c`) | `s_wifi`: state, `has_ip`, retries | start/stop AP, connect, disconnect, scan, event handler | events are queued and handled after the calls they precede | what it believes is what the driver has |
| HTTP server (`network/http_server.c`) | socket, `initialized`, route table; the buffer of the request being served | init, register, accept, receive head and body, handle | init is retried in two tasks; the table is read while it is written; a request comes in any pieces, late, or not at all | it is up if it says so; no socket leaks; every client is answered and done with; a handler gets what was sent |
| DNS server (`network/dns_server.c`) | socket, `running`, its task | start, stop, receive, answer | started and stopped in different tasks while its own is in a blocking call; 512 bytes for an answer | up if it says so; stops if told; no socket lost or confused; an answer that fits is whole |
| form parser (`ui/form_parser.c`) | the fields of one form | split, decode, look up | escapes at a boundary; bodies cut short | what the page encodes is what the handler reads |
| LED (`platform/led_indicator.c`) | the current pattern | set by `set_phase` in three tasks, corrected by the main loop | patterns may be written in another order than phases | it comes back to the phase's pattern |
| web portal (`ui/web_portal.c`) | `s_portal_initialized` | the handlers | they run steps of all others in the only HTTP task | told is done |
| configuration and credentials (`storage/*`, `wifi_manager.c`) | NVS | typed setters, erases | several commits for a request; ignored results | a torn write keeps its order: which half is there tells which is missing; erases leave nothing half usable |
| OTA manager (`update/ota_manager.c`) with provider and verifier | state, progress, task handle, RAM; partition and otadata in flash | start, perform, report | power loss at any step; two tasks | one writer; failure stays in the DLM; updates end |

They interact by direct calls (handlers into the boot manager, the boot manager
into Wi-Fi, server and portal), by two callbacks (Wi-Fi to boot manager), by the
event queue, and by NVS and flash across resets. `PROJECT.json` lists the
hazards line by line with the properties that watch them.

## 2. The modules

| module | models | built on |
|---|---|---|
| `ResetDetector` | `reset_detector.c`, its two callers, its clears | |
| `ResetDetectorProofs` | proofs | `ResetDetector`, TLAPS |
| `WifiManager` | the steps of `wifi_manager.c` over a model of the driver: a library, it has no Next | |
| `BootManager` | `boot_manager.c` and the tasks, composing `WifiManager`'s steps | `WifiManager` |
| `WifiManagerProofs` | lemmas about those steps | `WifiManager`, TLAPS |
| `BootLed` | the LED pattern beside every step of `BootManager` | `BootManager` |
| `BootManagerProofs` | proofs, of the boot with and without its LED | `BootLed`, `WifiManagerProofs`, TLAPS |
| `LwipSockets` | the socket table both servers use: a library, it has no Next | |
| `FormParser` | `form_parser.c`, and the page's encoding it undoes: operators only | |
| `FormParserProofs` | proofs: the parser undoes the page's encoding | `FormParser`, TLAPS |
| `HttpServer` | `http_server_init`, `http_server_task`, `handle_client` | `LwipSockets`, `FormParser` |
| `DnsServer` | `dns_server_start`, `dns_server_stop`, the task, the answers | `LwipSockets` |
| `PortalServers` | both servers on one socket table, as bring-up and the delayed stop use them | `HttpServer`, `DnsServer` |
| `MCPortalServers` | clients for TLC | `PortalServers` |
| `PortalServersProofs` | proofs: bring-up and stop, requests and forms, queries | `PortalServers`, `FormParserProofs`, TLAPS |
| `RouteMap` | what the route table promises: the abstract specification | |
| `RouteTable` | the slots, two writers, a reader; `RefinesMap` is the refinement | `RouteMap` (INSTANCE) |
| `MCRouteTable` | three routes for TLC | `RouteTable` |
| `RouteTableProofs` | proofs, the refinement included | `RouteTable`, TLAPS |
| `ConfigStore` | what the portal's requests leave in NVS | |
| `ConfigStoreProofs` | proofs | `ConfigStore`, TLAPS |
| `SafeUpdate` | what an update promises to whatever boots next: the abstract specification | |
| `OtaManager` | an update beside the requests that meet it; `RefinesSafeUpdate` is the refinement | `SafeUpdate` (INSTANCE) |
| `OtaManagerProofs` | proofs, the refinement included | `OtaManager`, TLAPS |

**One action is what a task does between two points where another may run**: a
blocking call, a call into the driver or the TCP/IP task, an NVS commit, or the
write of a variable another task reads. A variable `pc` records where a task is
inside a C function, and labels are named after what comes next. Operators carry
the names of the C functions where there is one; an operator named `Faulty...`
is a plausible bug of the definition after it, used only to show that a property
can fail.

### ResetDetector
`counter` is the NVS blob (absent reads as zero); `data` the namespaces that hold
something the user gave. `AppMainCall` and `HandleFactoryReset` are the two calls
of `reset_detector_triggered` in a boot; `initiate_factory_reset` is one step for
each erase; `Reboot` is any reset, at any step. The arithmetic keeps its width:
`count` modulo 256, uptimes modulo `TimeModulus`. `env` fixes for a behaviour
whether NVS operations may fail and at which uptimes boots reach the calls, so
that one run covers good and bad devices. `boots`, `overdue` and `half` are
history. The use of the reset button is commented out in the code and left out here.

### WifiManager and BootManager
`drv` is the ESP-IDF driver: mode, started, link. It acts at once on a call and
reports through `queue`, a FIFO the event task serves later, so that every event
may be older than what has been called since. On its own it connects, is refused,
gets and loses an address, and drops. `REFUSED` stands for the reasons that
`wifi_event_handler` takes for permanent, `DISCONNECTED` for all others.
`pc["main"]`, `pc["http"]`, `pc["event"]` follow the tasks through
`enter_provisioning_mode` and `start_wifi_connection`, which any of them may run.
`timers` counts the delayed stops. A reset clears everything but `creds`.
The HTTP server and the portal are one step each here; their own modules open
them up, with what two tasks in `http_server_init` do to each other. A request is
taken as soon as the portal registers its routes (`Routed`), which is before its flag.
Calls into the driver that follow each other with nothing but assignments in between
(`ConnectStop`, `StartAp`, `ConnectStart`, `ScanBegin`) are one step; the event task
running between them is left out. A call that fails under `ESP_ERROR_CHECK` restarts the
device; those of a scan may, in states the model reaches: before the scan (`ScanAborts`),
and after one from idle, whose `esp_wifi_stop` comes before its results are read
(`ScanFinish`). The phases OTA_CHECK and OTA_UPDATE are unreachable, since nothing calls
`check_for_update`, and left out with it.

### BootLed
Every step of `BootManager` that sets a phase also chooses the pattern for it, and
the task owes the write of that pattern (`owes`) until `led_set_pattern`, before
which any other task may run. `Refresh` is the comparison in `app_main`'s loop. The
phase's write and the choice of the pattern are one step; `led_pattern_task`, which
plays whatever is set, is left out. The liveness of the boot is checked here rather
than on `BootManager` alone, so that it holds with these steps in between.

### LwipSockets, HttpServer, FormParser
Sockets come from a small table, lowest free number first, and a closed number is
given out again. `http_server_init` works on the shared `server_fd`, one call at a
step, its error paths too; which of its calls fails is open. Each call creates a server
task of its own if it comes so far, which waits in `accept` on the number it read
(`accepts`). A client means to send a request: a head of a given length, valid or not,
then the form that the page posts, announced by a Content-Length (`length`) that may be
too small, too large or missing; and it takes the response, or does not (`takes`).
`Receive` lets any part of what is left come, as far as the code's `recv` has room;
`TimeOut` is a `recv` that got nothing for 5 s, in either loop. What the handler is then
given (`Given`) is body_len bytes, of which those that came are the client's, followed by
the NUL that `handle_client` writes and by whatever the buffer held; the parser of
`FormParser` runs over that, byte by byte. The reference is the page's own encoding
(`EncodeURIComponent`), applied to what the user typed. `HttpAssumption` says which forms
there are: like those of the page's script (`index.html:344` and `396`) they have
distinct keys, written without escapes and shorter than a key's room, and values of any
bytes but NUL.

### DnsServer and PortalServers
`dns_server_start` and `dns_server_stop` are followed call by call. Each start creates a
task of its own, which tests `running`, then reads `socket_fd` into its `recvfrom`
(`waits_on`), and only a close of that socket wakes it. A query is its questions;
`process_dns_request` computes the size of the answer and its records, with the code's
checks of the room. Queries are whole, with names as DNS has them (labels of 1 to 63
bytes, 255 in all): one cut short or longer, which `parse_dns_name` cuts, is not followed.
`PortalServers` puts both servers on one socket table. Any task may be in
`http_server_init` or in `web_portal_init` with the DNS server's start, and a stop may
come any time after a connection, while others are. `raced` is history: it records that
two tasks were past the check of one server's start at a time, or that a stop met a start.
What the two servers promise of their sockets and flags ends there (`http_overlap` and
section 3 say how); what they promise of requests does not.

### RouteMap and RouteTable
A slot is written in two steps, route and flag, as the code orders them, and
`find_route` reads one slot a step. Main and event task are pinned to one core and
the event task has the higher priority, so a registration of the event task is
never interrupted by the main task (`MayRun`), while one of the main task may be
interrupted anywhere. The server's task may run on the other core; the model
assumes that the stores of a registration become visible there in program order
(the code has no barrier; on the ESP32 internal RAM is not cached).
`RefinesMap` says that this is a map: `registered` of the abstract module is the
set of routes in active slots.

### ConfigStore
A request is a sequence of writes (`job`), one commit each. A value in NVS is its
type and the number of the request it came with, which is all that torn writes are
told apart by. `SetField` is `settings_handler`'s guess at a type: boolean, then
string, then number, each subject to the schema's check in the setter, and to NVS,
which takes keys of at most 15 characters. The schema's fields are represented by
seven of twelve, the others behaving like one of these.

### SafeUpdate and OtaManager
The update task moves through the steps of `do_perform_update` and of
`custom_download`; `esp_https_ota` is external and modelled as erase, header, body,
install, with a failure possible at each. `slot`, `boot` and `reason` are flash.
`PowerLoss` may come at any step; the boot loader takes `ota_0` if otadata says so
and the image is whole. `asked` is history. `RefinesSafeUpdate` maps the place of the
update task to a job (`Job`: none, at work on an image, or done with it). `SafeUpdate` has
no tasks, states or percents: it says how the partition and the choice of what boots may
change. `ota_0` is written only by an update and while it is not what boots; otadata is
changed by an update that has written all of its image, or for a user who asked; COMPLETE
needs the whole image chosen, and FAILED the DLM still chosen. A restart may come anywhere
in between. `do_perform_update` ignores the result of the call that takes the boot
partition back; where it fails, `lapsed` records it in both modules, and a rejected image
boots.
`ota_manager_check_update` and
`perform_update` are reached only from `check_for_update` and left out.

## 3. What is checked

| run | cfg | states | shows |
|---|---|---|---|
| `reset` | `ResetDetector_safety` | 200 000 | `TriggerNeedsBoots`, `ConsecutiveBootsReset`, `PartialResetReprovisions` |
| `reset_threshold` | `ResetDetector_threshold` | | refutes `TriggerNeedsThresholdBoots` |
| `boot_safety` | `BootManager_safety` | 4.6 M | `HasIpIsCurrent`, `OneAttempt`, `ConnectingIsDriven`, `ProvisioningIsServed`, under every fault |
| `boot_live` | `BootLed_live` | 388 000 | under fairness `FirstAttemptEnds`, `HttpServesAgain`, `LedFollowsPhase`; `ProvisioningKeepsAp` without timers |
| `boot_stuck` | `BootManager_stuck` | | refutes `NoAttemptNoConnecting` |
| `http_safety` | `MCPortalServers_safety` | 217 000 | two tasks bring both servers up, any call failing, beside a stop, until there is a race: `ServerStaysUp`, `DnsStaysUp`, `NoLeak`, `OwnSockets`, `DnsStops`; requests in any pieces, late, misannounced or too long: `Answered`, `FormAsSent`, `CutOnlyWhenLate`, `ClientIsDone`; queries: `AnswerIsWhole` |
| `http_overlap` | `HttpServer_overlap` | | refutes `ServerIsUp` when two tasks are |
| `routes` | `MCRouteTable_safety` | 16 000 | `NeverFull`, `PortalIsServed`, and that the table implements the map |
| `store` | `ConfigStore_safety` | 105 000 | fields keep their types (in `TypeOK`), `CredentialsInOrder`, `NodeInOrder`, `NodeResetIsClean` |
| `store_saved` | `ConfigStore_saved` | | refutes `SavedIsStored` |
| `ota` | `OtaManager_safety` | 236 000 | `OneWriter`, `FailureStaysInDlm`, `CompleteIsFull`, `HandoffBootsApp`, that an update implements `SafeUpdate`, `UpdateEnds` under fairness |
| `ota_verify` | `OtaManager_verify` | | refutes `VerifiedBeforeBoot` |

### What the refutations show
* **Half the resets erase the device.** `reset_detector_triggered` is called in
  `app_main` and again in `handle_factory_reset`, and each call counts.
* **A second failed attempt is stuck.** `provisioning_entered` is never reset, so
  the fall-back of a later attempt returns at once and the phase stays CONNECTING
  with nobody connecting. The run uses the most benign timing (`Prompt`): every
  task gets to its next wait before the radio does anything.
* **Two tasks in `http_server_init`.** The main task (provisioning) and the event
  task (connected) may both be in it; they share `server_fd` across blocking calls,
  and the error path of one closes the socket of the other, with the flag set. The
  second `socket()` also overwrites the number of the first, which is then never closed.
* **Two fields can never be stored.** `hardware_version` and `update_interval_min`
  are longer than an NVS key may be; the client is told they were saved.
* **Installed before verified.** `esp_https_ota` sets the boot partition; power
  lost before the signature check starts the image unverified.

### Known divergences without a run
Each follows from one action of the models; a run of its own would show nothing
more.
* A loss of the network in CONNECTED never leads back to provisioning
  (`OnWifiFailed` acts in CONNECTING only).
* `delayed_ap_stop_task` (`ApStop`, `DnsStop`) does not look at the phase: it takes
  access point and DNS from a device that fell back to provisioning meanwhile, and
  `web_portal_init` does not start the DNS server a second time. This is why
  `ProvisioningKeepsAp` is stated for devices without the timer.
* `/scan` with a stale AP_STOP not handled yet shuts a running access point down
  (`ScanBegin`, `ScanEnd`), one during a connection attempt restarts the device
  (`ScanAborts`), and one on an idle device may (`ScanFinish`).
* A connection made in the last 100 ms of the wait is torn down (`Sleep` to
  `Timeout`, which does not read the phase again).
* `/boot-app` without an application enters CONNECTED on a device that only runs
  its access point (`StayInDlm`).
* The reset window is measured in uptime and thus spans any length of real time
  (`overdue` tells); with uptimes that vary, the unsigned difference wraps and
  counted resets are lost, which is why `ConsecutiveBootsReset` asks for `Steady`.
* `SO_RCVTIMEO` is the only time-out of a client's socket. A client that takes nothing of a
  response longer than TCP's send buffer, as the page is, keeps the one HTTP task in
  `send` for as long as it likes (`Taken`; `ClientIsDone` is about the others).
* A handler that reports an error answers twice (`HandlerFailed` after `Answer`); a
  POST without a body is one of these, 400 and then 500.
* A body that stays out for 5 s reaches its handler all the same, with a NUL after what
  came (`TimeOut`, `Given`); a form too long for the buffer is cut and not refused,
  although `http_server.c` has the text of a 413. `FormAsSent` says what can be relied
  on: the fields that came whole.
* `process_dns_request` checks the room for 12 of a record's 16 bytes, so that an answer
  to several questions may end up to 4 bytes past its limit (`AppendAnswer`); the header
  promises a record for every question, also for those of a type that gets none, every
  record points at the first name, and AAAA is answered with an A record.
* `dns_server_task` reads `socket_fd` again for `sendto`; after a stop that may be
  another socket's number (`DnsSend`, `OwnSockets` has the one moment). The same may happen
  to its `recvfrom` between the test of `running` and the call (`DnsCall`); that it would
  then take a client's bytes is left out.
* The first of the two commits of new credentials replaces the SSID of the network the
  device could join (`wifi_manager.c:230`). Power lost before the second leaves the new
  SSID with the old password, which joins neither; `CredentialsInOrder` says only that
  this is the one way the pair tears.
* A rejected image boots if the boot partition cannot be taken back, since that call's
  result is ignored (`ota_manager.c:143`, `lapsed`).
* The pause of the LED's double and triple blink is a step with the LED on
  (`led_indicator.c:47-51`).
* The readers of `backend_url` disagree: a value of 128 to 255 characters is used by
  `/claim` (`web_portal.c:386`) and reads as empty in `/status` and the release list.
* An update begun while a hand-over waits erases what it is to boot.
* Only `check_for_update` writes the boot reason `after_update`, and nothing calls it.

## 4. Bounds, and why they are enough

* `ResetDetector`: THRESHOLD 4, MAX 6 keep the code's order 0 < THRESHOLD < MAX < 256
  with room for a count above the threshold, two uptimes for each call make the
  difference wrap (TimeModulus 1000 is far above the window, as 2^64 is), and a
  history of 8 boots is two more than a count needs. The proofs have no bounds.
* `BootManager`: one retry (none left, one left), two rounds of polling (one after
  which the phase is read again and one after which it is not), one timer, one waiting
  event beyond those that calls produce. The proofs have no bound on any of them. The
  liveness run has no timer.
* `BootLed`: the same with one round of polling and no timer, whose only step sets no
  phase.
* `PortalServers`: three sockets are the two servers' and a client's, so that every number
  is reused; two callers, one stop (a second finds nothing to do). A buffer of 15 bytes
  holds a head of 2 and most forms; one form is longer, one head fills it. Values of up to
  2 bytes, two fields: a value longer than its place, a form longer than the table, escapes,
  an escaped separator and bytes above 127 are all among the requests, and bodies announced
  shorter than they are, longer, and longer than the buffer. Queries include one whose
  answer fills 512 bytes exactly and one that does not fit. A constraint (`Followed`) keeps
  the product of all this small. Whoever brings the servers up and however their calls
  overlap, a plain client and a plain query come; every other request, or query, comes to a
  portal that the event task has brought up alone, while a stop may run. What follows a race
  is followed while only the HTTP server is up: the properties of sockets and flags hold
  where `raced` does, which stays so for ever, and that a client is answered and the types
  hold after a race of any kind is proved for every value of the constants (section 6).
  `ClientIsDone` and `DnsStops` are checked of the behaviours that are followed for ever.
* `RouteTable`: three routes and four slots keep the code's relation (14 routes, 16
  slots) at its tightest, a single spare slot.
* `ConfigStore`: three requests, so that torn writes of two can follow one whole; forms
  of at most one field, since fields do not depend on each other.
* `OtaManager`: no bound; one genuine and one other image, every pattern of URL and
  signature.

Deadlock is checked except in `BootManager` and `BootLed`, where a device may halt on
an error (`main.c` loops for ever) or be gone into its application, and in the run of
`HttpServer` without clients, where a server that is up has nothing left to do.

## 5. Fairness

`BootManager` assumes weak fairness of each task and of the delayed stop: FreeRTOS
runs what is ready, and every wait in these tasks is a delay that passes. Nothing is
assumed of the driver (a connection attempt may get no event at all: the time-out
ends it), nor of users. `OtaManager` assumes weak fairness of the update task, whose
reads time out (`DLM_OTA_DOWNLOAD_TIMEOUT_SEC`), and of the restart at its end.
`PowerLoss` and requests are not fair. `BootLed` adds the LED writes and the main loop's
refresh, which nothing blocks. `PortalServers` assumes that the HTTP task goes on with
what it has (`HttpServes`): a `recv` returns after its 5 s (`TimeOut`: `SO_RCVTIMEO` is
set on every client), and so does a `send` of what the server says by itself, which fits
TCP's send buffer. A handler's response need not, and `send` has no time-out: it returns
only if the client takes it (`Taken`). The DNS task (`DnsTask`) and a stop (`DnsStop`) go
on. No client owes a request, a query or the rest of one: `ClientIsDone` holds for clients
that fall silent anywhere, as long as they take their response.

`OneAttempt` rests on real time: the portal waits 500 ms before it starts an attempt,
and the main task polls every 100 ms. The model takes this from the code as `lagging`:
the delay does not end before the main task has polled, or timed out. Without it the
property fails, which its mutant shows.

## 6. What is proved

The theorems hold for every value of the constants that the named assumptions admit.
Each follows from an inductive invariant, shown for Init, for every action, and for a
stutter.

* `ResetDetectorProofs`. `IInv` adds to the property that the count is at most twice
  the number of boots, and less between the two calls of a boot (`CountBound`): the
  second call would otherwise seem to pass the bound. `CallPreserves` does the
  arithmetic of one call, once for both callers. Proved: `TypeCorrect` (the `uint8_t`
  never wraps), `TriggerNeedsBootsAlways`, and, with an invariant on how far the erases
  have got, `PartialResetReprovisionsAlways`. `ConsecutiveBootsAlwaysReset` assumes
  `CallsWithinWindow`: a boot's second call comes within the window of its first, in
  every boot. Then a count that the first call began is never given up, and one that the
  second began is given up at most once, by the next boot (`BootsCounted`).
* `BootManagerProofs`. `IInv` records what being inside one of the two shared functions
  means: `entered` is set from the first assignment of `enter_provisioning_mode` on,
  the portal is reached only with the server up, and the HTTP task runs only with the
  server up. Lemma `Move` shows that a step of one task keeps it, given what the label
  it moves to demands; each action is an instance. Proved:
  `ConnectingIsAlwaysDriven`, `ProvisioningIsAlwaysServed`.
  `AlwaysOneAttempt` needs a second invariant, `OInv`: until the main task attempts to
  connect there is no server, no event and no timer, and a server that comes up during
  that attempt was brought up by the event task, which has ended the CONNECTING phase
  first. So the main task sees the phase, at the latest when its sleep ends, before the
  500 ms that a form's attempt waits are over. `HasIpIsAlwaysCurrent` follows from
  `WifiManagerProofs`: `WillHaveIp` is what the event handler will record once it has
  read the queue, and is decided by the last deciding event in it. Every step keeps
  `Sound` (no address is recorded, or coming, that is lost without an event to say so)
  and, but for `esp_wifi_disconnect` half done, `Kept` (none is forgotten). `TypeCorrect`
  types phases, tasks, rounds, timers, the driver and its queue.
  `ProvisioningAlwaysKeepsAp` is about the behaviours in which no delayed stop runs and no
  scan begins while an event waits (`Undisturbed`: the two ways in which the code does take
  the access point down, see section 3). Its invariant has two halves. Of the Wi-Fi
  manager (`ApKnown`): while the access point is up, no event that waits makes the manager
  take itself for idle without a later one to correct it (`MayIdle`), so that a scan finds
  it as it is; and nothing but the access point has started the driver. Of the boot
  (`ApInv`): a scan is never at the place that would restart Wi-Fi, and in PROVISIONING the
  access point is up unless a task is between taking it down and bringing it up. `ApMove`
  does the step of one task once for all. `LedOnlyWatches`: the LED adds no behaviour to
  the boot, so that what is proved of it holds beside the LED too.
* `OtaManagerProofs`. `TInv` types the state; `IInv` says that the handle covers the
  life of the task, that otadata names `ota_0` only with a whole image there and an
  update past its installation, or a user's request, or a roll-back that failed, and what
  a report that has seen COMPLETE will find. Proved: `TypeCorrect`, `OneWriterAlways`,
  `FailureAlwaysStaysInDlm`, `HandoffAlwaysBootsApp`, `CompleteIsAlwaysFull`, and two
  results about the flash. `UpdateIsSafe` is the refinement: `RInv` adds to `IInv` what the
  slot holds at each place of the update task (part of its own image while the body comes,
  all of it from `install` on, whatever a user's hand-over does meanwhile) and that otadata
  is left to it from its installation to its end; each action is then a step of
  `SafeUpdate` or leaves what it speaks of alone. `CompleteIsInstalled`: a status that
  reads COMPLETE means that `ota_0` holds the release's image, whole, and boots next.
* `FormParserProofs`, for any form, room and number of fields. What nested loops make of
  strings takes an induction over data, and the library's induction theorems cannot be
  instantiated here; lemma `Induction` gets it from the well-foundedness of < on Nat, with
  a set in the place of a predicate. `ChainIs` shows by it that the function of a loop
  exists, which is what a recursive definition (a CHOOSE) needs to mean anything; each of
  the parser's and the page's functions is then such a chain (`EncodeIs`, `DecodeIs`,
  `EndIs`, `BodyIs`, `ParseIs`). `DecodeEncoded`: `url_decode` undoes
  `EncodeURIComponent` as far as there is room. `FieldRead`: a separator of the body is
  never one of a value, so that the parser finds the end of a field where the page put it.
  `CameIsRead` follows the parser from field to field (`Came`), and `WholeFieldIsFound`
  puts it together: of a body of which some bytes came, then a NUL, then anything, each
  field that is whole among them is found with the value that was encoded.
* `PortalServersProofs`, for any number of tasks, stops, sockets, requests and queries.
  The invariant is `raced \/ Inv`: nothing is assumed of who calls what when, and nothing
  is claimed of sockets and flags after a race. `Inv` says for each place in
  `http_server_init`, `dns_server_start` and `dns_server_stop` which socket the server's
  number names and of which kind it is, and that every other socket in use belongs to a
  client being served. `NoRace` gives what the lack of a race means for a step: the task
  that takes it is alone in its function, and a stop and a start are never both under way;
  each server's steps leave the other's half of `Inv` alone (`HttpAside`, `DnsAside`).
  Proved: `ServerAlwaysStaysUp`, `DnsAlwaysStaysUp`, `NeverALeak`, `AlwaysOwnSockets`.
  The rest holds after a race too. `AlwaysAnswered` has an invariant of its own. For the
  requests, whatever the buffer size, the pieces they come in and the length they announce,
  `Reading` says that from the body on the head is in the buffer and `body_len` is the
  announced length, cut to the room behind the head (`Meant`); `Received` that a read never
  passes the room it was given; `Sent` that no more has come than the client had to send.
  Proved: `PortalTypeCorrect` (the buffer is never passed), `AlwaysCutOnlyWhenLate` and, over
  `WholeFieldIsFound` and what the handler is given (`GivenIs`), `FormIsAlwaysAsSent`.
  `AnswerIsAlwaysWhole` is about a loop over queries of any length: `ProcessIs` and
  `WholeSizeIs` unfold the code's loop and the reference, and `WholeIsSent` follows them
  side by side by `Induction`: as long as the sum still fits 512 bytes, neither of the
  code's two checks of the room stops.
* `RouteTableProofs`, for any number of routes. A route is looked for and then put in the
  first free slot, and the event task may run all of its registrations between any two
  steps of the main task's. The invariant: slots fill from the first on; what a task is
  past is registered; what is about to be put is not there yet, unless the event task has
  finished in between; both tasks in the same free slot put the same route there
  (`SamePlace`). At most one route gets a second slot, after which nothing is added any
  more (`Once \/ Twice`), and a table with each route once has a free slot by the pigeon
  hole principle (`FreeSlot`). Proved: `TypeCorrect`, `TableIsNeverFull`,
  `PortalIsAlwaysServed` and the refinement of `RouteMap`, `TableIsAMap`.
* `ConfigStoreProofs`, for any number of requests and fields. The invariant is about what
  is left of a request: it either writes or erases, a password or secret still to be
  written has its SSID or node_id before it or stored by this request, and an erase of a
  node's secret has that of the node_id before it or done. Proved: `TypeCorrect`,
  `CredentialsAlwaysInOrder`, `NodeResetIsAlwaysClean`, `NodeAlwaysInOrder`.

Assumptions: `ThresholdAssumption`, `TimeAssumption`, `BootsAssumption`,
`WifiAssumption`, `BootAssumption`, `OtaAssumption`, `SocketAssumption`,
`HttpAssumption`, `FormAssumption`, `DnsAssumption`, `PortalAssumption`, `RouteAssumption`,
`StoreAssumption`, each in the module that declares the constants, and evaluated by TLC
in the runs.

## 7. What is only model-checked

Liveness (`FirstAttemptEnds`, `HttpServesAgain`, `LedFollowsPhase`, `UpdateEnds`,
`ClientIsDone`, `DnsStops`), which rests on ENABLED and fairness. Every invariant of the
runs that pass, `CutOnlyWhenLate` and both refinements are theorems; two of them under
assumptions that theirs states, `ConsecutiveBootsReset` (`CallsWithinWindow`) and
`ProvisioningKeepsAp` (`Undisturbed`).

## 8. Not modelled, and the plan

Not modelled: cryptography, loading the verifier's key, TLS and HTTP of the provider, the
JSON and HTML the portal writes, mDNS, logging, `led_pattern_task`'s timing, the erase of
a corrupted NVS partition at start-up, the reset button (commented out), and functions
nothing calls (`http_server_deinit`, `wifi_manager_deinit`,
`boot_manager_retry_connection`, `check_for_update`, `led_indicator_deinit`). The
provider's query and release list are one blocking call each, whose only state is a
buffer local to the call.

Next, in this order:
1. `led_pattern_task` as a player of patterns against their change.
2. The provider's response buffer, and a claim as a protocol with the server.
3. The getters' defaults and the schema as JSON in `ConfigStore`.
