# Verification of the h743xih6Project firmware

TLA+ models of the application firmware in this repository (STM32H743,
RT-Thread, LVGL), checked with TLC, and theorems about them checked with TLAPS.
They cover the over-the-air update, the part of the firmware in which a mistake
can cost the device, the Wi-Fi weather terminal with its worker threads, and the
hand-over of frames to the display.

## 1. The system

| Part | Source | State it keeps | Operations | Talks to |
| --- | --- | --- | --- | --- |
| OTA core | `applications/ota/ota.c` | `ota_context`: status, running CRC, header in RAM; flash partitions `download` and `upgrade` | `ota_service_init`, `ota_begin`, `ota_write`, `ota_finish`, `ota_abort`, `ota_reboot_to_install` | called by both transports under one mutex; FAL/SFUD flash; the Bootloader reads `upgrade` |
| Signature policy | `ota_signature.c` | none | `ota_signature_verify` | called by the core |
| Hashes | `ota_hash.c` | streaming contexts | CRC32, SHA-256 | core, transports |
| TCP push | `ota_wifi.c` | per connection: `receiving`, `begin_flags` | QUERY, BEGIN, DATA, END, ABORT, REBOOT | core |
| HTTP pull | `ota_http.c` | per download: `begun`, `received`, SHA-256 context | `ota_http_download` | core; progress callback of the remote controller |
| Remote controller | `ota_remote.c` | `remote`: offer, flags, two message queues, message counter | controller thread, publisher thread, MQTT receive callback, calls from the LVGL thread | MQTT broker, HTTP pull, UI, optional persistence hooks |
| MQTT codec | `ota_mqtt_protocol.c` | none | build and parse JSON | remote controller |
| Weather core | `lv_wifi_weather/src/lv_wifi_weather.c` | request ids, retry deadlines, page data, event queue | timer step, event handling, user actions | RW007 backend through port operations and posted events |
| RW007 backend | `lv_wifi_weather/ports/rw007/lvww_rw007.c` | worker threads, current and cancelled request ids, KV image | scan, connect, search, fetch, time sync, cancel | WLAN, HTTP, weather core |
| Weather storage | `lv_wifi_weather/src/lvww_storage.c` | versioned records | load, save | backend KV |
| Assets | `lv_wifi_weather/src/lvww_assets.c` | glyph cache, open font and city files | glyph lookup, city search | QSPI file system |
| Display port | `lvgl_port/lv_port_disp.c` | two frame buffers, pending address | flush, LTDC reload interrupt | LVGL, LTDC |
| Touch, UI pages, start-up, drivers, host tools | see `PROJECT.json` | | | |

What is hard here:

* **Power loss.** The update survives on the order of flash operations alone.
* **Two transports, one core.** The TCP server thread and the remote
  controller's HTTP download call the same core. The lock serialises calls, not
  sessions; each transport keeps its own flag about a session that the other
  one may have ended or replaced.
* **Four threads in the remote controller**, two bounded queues, flags read and
  written with and without the lock, a network that comes and goes, restarts.
* **Asynchronous results in the weather application**: three threads and the
  WLAN manager, bounded queues in both directions, late results after a city
  switch, dropped events, cancellations, a link that comes and goes.
* **Buffer hand-over to an interrupt** in the display port.
* **A font that the shell replaces while LVGL draws with it.**

What makes each part correct: the core leaves nothing in the upgrade slot that a
Bootloader which checks the digest would take for an image unless it is a verified
one, and never gives up an installable one for less; a transport never
leaves a session behind nor commits what it did not check; the controller runs
one update at a time, offers only newer versions, reports the truth and comes
back online; the weather core shows only results of current requests and never
waits for one for ever; a frame buffer on display is never drawn into; a cached
glyph is that of the loaded font. The
hazards behind these statements are listed with their source lines in
`PROJECT.json`.

## 2. Modules

| Module | Models | Used by |
| --- | --- | --- |
| `Ota` | `ota.c`, one step per flash operation, power loss anywhere | `MCOta`, `OtaProofs` |
| `OtaService` | the promise of the core: phases and the installable image | refinement in `Ota` |
| `OtaTransports` | `ota_wifi.c` and `ota_http.c` over the core, one step per core call | `MCOtaTransports`, `OtaTransportsProofs` |
| `OtaRemote` | `ota_remote.c`, its threads, queues and restarts | `MCOtaRemote`, `OtaRemoteProofs` |
| `Weather` | `lv_wifi_weather.c`, `lvww_storage.c`, the handlers of `lvww_ui.c`, the RW007 workers and the WLAN manager as they see it | `MCWeather`, `WeatherProofs` |
| `DisplaySwap` | `lv_port_disp.c` with LVGL's draw loop, the LTDC and its interrupt | `MCDisplaySwap`, `DisplaySwapProofs` |
| `FontCache` | font look-up, glyph cache, reload and unload in `lvww_assets.c` | `MCFontCache` |
| `OtaProofs`, `OtaTransportsProofs`, `OtaRemoteProofs`, `WeatherProofs`, `DisplaySwapProofs` | theorems and proofs | |

Definitions introduced by a comment that starts with "Mutant:" are deliberately
wrong versions of the definition whose name theirs begins with; no specification
uses them. They show that the properties can fail.

### Ota

The variables are the two flash slots and the fields of `ota_context`; `pc` and
`pos` say where the holder of the lock is. The actions `ota_begin`, `ota_write`,
`ota_finish`, `ota_abort` take the lock and do the checks; `BeginErase`,
`WriteBody`, `ValidateDownload`, ..., `CommitCheck` are the flash operations in
the order of the code. A call that is refused returns an error and changes
nothing, so it is no step. `PowerLoss` and `Reset` may strike at any step and
inside a flash operation.

* *Sizes* are in erase sectors. Cell 0 is the header area (the first sector
  holds only the 256-byte header, since the payload starts at one sector), the
  cells above are payload sectors. Bytes inside a sector are not told apart: a
  half-written sector is `Torn`, and `Torn` matches no digest. `ota_write` is
  called with one sector at a time; a call that covers part of a sector adds no
  behaviour to what a sector can hold between calls that `Torn` does not have.
* *Flash.* An erase step is one erase command. `partition_erase_exact` passes
  chunks of `OTA_FLASH_ERASE_CHUNK_SIZE` (64 KiB, constant `EraseChunk`), within
  which SFUD takes the largest eraser of the SFDP table that fits and is aligned
  (constant `Erasers`, operator `Fitting`); both slots start on a 64 KiB
  boundary. With the 64 KiB eraser the header and fifteen payload sectors go in
  one command. The chip does not say in which order: a command that fails or is
  cut short by a power failure leaves each sector of its block as it was, torn
  or erased, independently of the others (`Cut`). A program operation may fail,
  tear the sector, or report success and have written nothing (the read-back
  exists because of that). An erase that reports success is trusted: `ota.c`
  does not read back erased sectors.
* *Digests.* SHA-256 is ideal, the digest is the content. CRC32 is a constant
  operator with no assumption at all; in the TLC instance two blocks collide.
* *Signature.* It covers the header's immutable fields and the payload digest,
  so whether it verifies is an attribute of the header.
* Left out: `status.source` (in `OtaTransports`) and `firmware_version`, which
  are reported and not tested; missing FAL partitions; a second caller inside
  the delay of `ota_reboot_to_install`.

`OtaService` has two variables, the phase and the installable image. The image
goes from one verified image to none and from none to a verified image, only in
phase "committing". The refinement mapping reads the phase from `state` and
`pc`, and the image from `upgrade` as a Bootloader sees it that verifies the slot
before it installs from it (README_EN.md:15): a header whose payload does not
match its digest counts as no image.

That qualification is needed. The device's README says that an interruption can
leave only a package without a valid header. It is not so: an erase that is cut
short can leave the old header over a damaged payload (TLC reaches such states in
`ota_core`). What `ota.c` itself gives, and what is proved, is `UpgradeUnmixed`: a
header stands over sectors of its own image, some of which may be erased or torn,
and never over a readable sector of another image. That the device does not install such a remnant
rests on the digest check of the Bootloader, which is in another repository.

### OtaTransports

Each core call is one step, because it holds the lock from its first check to
its return; what it can do is what `Ota` shows, with the validation reduced to
`Accepted`. `handle_client` has one action per frame type plus the response, the
exit and the reboot; `ota_http_download` has one action per core call,
notification or read. The progress callback may refuse at any chunk (the code
asks it at every few percent; refusing more often adds behaviours).
`own_session` is a history variable: the current core session was begun by the
connection that is now open. A frame with a wrong CRC or length is answered and
changes nothing.

### OtaRemote

An offer is a parsed, well-formed response; `version` is the version that runs.
`ctl` is the position of the controller. The publisher takes one message at a
time and may lose it. The server may answer any request it ever received, any
number of times, with any offer. A restart clears the RAM and lets the
Bootloader install a complete image (external). The default configuration,
auto_reboot on, is modelled; the persistence hooks are a constant, because
`main.c` passes none.

One timing assumption: `ConnectOk` from "offline" needs an empty transmit
queue. The controller sleeps `OTA_MQTT_RETRY_DELAY_MS` before it tries again,
and while the session is down the publisher discards each message at once.

### Weather

`ui` is the part of `lvww_ctx_t` that carries protocol state, `port` the shared
part of `lvww_rw007_t`, `worker` the two worker threads, `events` the event
queue, `link` the WLAN manager. A handler of the LVGL thread is one step: it
changes `ui`, and calls the port operations, which change `port`. Because one
handler calls several others (`lvww_handle_wifi_state` asks for time and weather,
deleting the connected profile disconnects), the handlers are operators from a
record `[ui, port]` to the next one, composed as the calls are; an action applies
one and commits it. A worker is preempted between any two of: taking a command,
the blocking operation, the test that its request is still current, and the post.

* *Requests.* Ids are compared for equality only, within an operation (connecting
  and disconnecting share the filter of state events). An id nothing refers to
  any more is as good as a new one, so `NextRequest` takes an unused one and
  finitely many stand for the 32-bit counter. `WeatherProofs` shows that there is
  always one.
* *Time.* A retry deadline is armed (`wait`) and becomes due at any moment
  (`RetryDue`); the refresh periods of 30 minutes and 6 hours may be over at any
  tick of the clock timer.
* *WLAN.* `rt_wlan_connect` to the network in use returns at once; to another it
  leaves the old one first. The drop is reported by `rw_disconnected_cb` in two
  steps, because it reads the flags under the lock and posts after it. The WLAN
  manager may reconnect by itself, to any of the networks it has saved, while that
  is switched on.
* *Storage.* The key-value slots of this back end are in RAM and created with it,
  so `lvww_create` finds nothing and starts with a scan.
* *One timing assumption*: `EditorSubmit` needs the event that `lvww_rw007_bind`
  posts at start to have been handled; typing takes longer than 40 ms.
* *Passwords.* `right` says whether credentials hold the password the access point
  wants. A join succeeds only with a right one, but `rt_wlan_connect` returns
  success for the network in use without looking at the password (`JoinSame`).
* History variables: `reported` (credentials for which `rt_wlan_connect`
  returned success, by either way), `saved` (stored last), `asked` (the last
  city query sent), `lost` (requests whose answer was dropped).

### DisplaySwap

One action per access to something another actor reads: the LVGL thread marks
the buffer, publishes the driver, writes the address, requests the reload and
swaps its buffers; the LTDC latches at vertical blanking; the interrupt releases
the semaphore; the swap thread takes it, forgets the driver and ends the flush.
`Refused` is the error path of `disp_flush`. `image` numbers the frames, so that
`ReadyAfterLatch` can say which one is on the screen.

### FontCache

A look-up of the LVGL thread has four steps (search the table, search the cache,
read the file, mark the slot), a reload or unload of the shell has up to four
(open, critical section, close, free). The critical section is one step, since no
thread runs in it, but it may fall between any two steps of a look-up. A search
in a freed table may end anywhere. The model leaves out the age of an entry: with
a full cache `file_font_get_bitmap` always replaces the first slot, because the
comparison of ages is only made as long as there is no victim.

## 3. Runs

| Run | Checks | States |
| --- | --- | --- |
| `ota_core` | type, no header over foreign sectors in either slot, READY, no stale sectors, no upgrade given up for less, refinement of `OtaService` | 1,301,016 |
| `transports` | type, owner of HTTP sessions, own TCP sessions, announced package committed, HTTP sessions end | 393,586 |
| `remote` | type, one update task, truthful completed, newer offers only | 3,766,592 |
| `remote_live` | reconnection, handling of an acceptance | 465,680 |
| `weather_net` | type and bounds of all queues, one request of a kind under way, no stale CONNECTING | 1,586,960 |
| `weather_pages` | candidates of the last query, stored credentials were reported as connected, `last_success`, every request ends | 349,857 |
| `display` | type and semaphore, no tearing, flush ended only after the latch, every flush ends | 245 |
| `closed_connection` | violated: a connection can close without ABORT | |
| `remote_task` | violated: `update_in_progress` stays set without a task | |
| `weather_city` | violated: late weather of the old city is shown for the new one | |
| `weather_password` | violated: a wrong password for the network in use is stored | |
| `font_reload` | violated: a look-up stores a glyph of the old font into the cache of the new one | |

The violations are disagreements between the code and its documents; the
findings in `PROJECT.json` quote both sides.

**Bounds.**
* `ota_core`: slots of two payload sectors, so that erase and copy loops have a
  first, a middle and a last step and images of different length follow each
  other; two blocks with the same CRC32; six headers (long, short, unsigned, too
  big, wrong CRC, bad signature) and eight packages, among them one with
  trailing data and one shorter than its header says. `EraseChunk = 2` and
  `Erasers = {1, 2}`: of the three sectors of a slot, the header and the first
  payload sector are erased by one command and the last by another, so blocks of
  both kinds, and an end of the slot that is no multiple of the larger eraser, do
  occur. Transfers, errors, power failures and resets are not bounded.
* `transports`: packages of one and two chunks, two of which collide in CRC32.
  Neither connections nor downloads nor restarts are bounded.
* `remote`: command queue of 2 (4 in the code), transmit queue of 2 (8), two
  successive updates, one power failure besides any number of resets. With
  `IdMod = 1` every response matches the last request: the message id filter is
  at its worst. A queue of two can be full, hold two commands of different kinds
  in either order, or keep an acceptance behind a response.
* `remote_live`: one update, transmit queue of 3, because a connection posts up
  to three messages and the real queue takes them; the clear hook may fail.
* `remote_task` uses `IdMod = 8`, so that ids of one boot differ.
* `weather_net`, `weather_pages`, `weather_city`, `weather_password`: command
  queue of 2 (8 in the code), city queue of 1 (4), event queue of 2 (8): each
  can be full, hold two messages in either order (the city queue excepted) and
  lose one. Two profiles at most (8). `MaxSteps = 3` bounds what the user, the
  access point and the refresh periods do together; what the threads, timers and
  the WLAN manager do in answer is not bounded. Three such steps suffice for a
  request, its replacement and a disturbance, which is what the mutants need.
  `Provided` switches off port operations, as a null pointer in
  `lvww_port_ops_t` does, and splits the state space: the first run has all link
  and data requests with one network, the second has the pages with two networks
  and two queries. `weather_password` has one network with a right and a wrong
  password.
* `display`: six frames, so that each buffer is used three times.
* `font_reload`: two font files over three letters, a cache of two (8).

Known behaviours that no run is devoted to. Of the core: an erase command that
is cut short can leave the old header over a damaged payload (`ota.c:219`, against
README_EN.md:33-35, see section 2). Of the transports: with a stale `receiving`,
an END of a TCP connection can commit an HTTP session before
`ota_http_download` has compared the package SHA-256 (`ota_wifi.c:243`); the core
has verified the image. Of the remote controller: message ids
start again at 1 after a restart (`ota_remote.c:212`; `MQTT_BATCH_OTA.md` wants
them usable for deduplication across restarts), a WLAN drop between `ota_finish`
and the COMMIT notification reports a committed update as failed
(`ota_remote.c:521`), and a completed event is lost if the publisher drops it
after the record was cleared (`ota_remote.c:500`). Of the weather terminal: a
reconnection by the WLAN manager is not reported, so the page stays offline
(`lvww_rw007.c:791`; `TESTING.md:16` expects an immediate update). The models
contain these paths, and the invariants hold over them.

`OfferIsNewer` is checked with a clear hook that works: if it fails,
`publish_completed_if_pending` puts the running version into `remote.update`
while `update_valid` may still be set.

**Fairness.** Weak fairness of each thread: RT-Thread's scheduler runs them, all
waits have timeouts (socket receive, HTTP, `rt_mq_recv`, delays). Strong
fairness of `ConnectOk`: a connection that is tried again and again with the WLAN
up succeeds at last; without this no statement about reconnection can hold. Weak
fairness of `WlanUp` in `OtaRemote`; the properties themselves assume that the
WLAN stays up. In `Weather`, weak fairness of each worker and of the LVGL timers
together: every wait of a worker has a time limit (scan, join and HTTP timeouts),
and LVGL runs its timers round after round. In `DisplaySwap`, weak fairness of
the LVGL thread, the scan-out, the interrupt and the swap thread; LVGL waits for
`flushing` in a busy loop, and the swap thread runs all the same because both
have priority 20 and RT-Thread slices time between equal priorities. Nothing is
assumed of the user, the host, the access point or the server.

Deadlock checking is off where the system may rest: `weather_*` and `display`,
when the bounded user has done his last step. It is on in the other runs.

## 4. Proofs

Proved for all values of the constants allowed by the named assumptions
(`SizeAssumption`, `EraseAssumption`, `CellAssumption`, `HeaderAssumption`,
`PackageAssumption`, `PolicyAssumption`; `PackagesAssumption` for the
transports; `OffersAssumption`, `BoundsAssumption` and `HooksAssumption` for the
remote controller; `WeatherConstants` for the weather terminal).

* `OtaProofs`: `TypeCorrect`, `UpgradeAlwaysUnmixed`, `DownloadAlwaysUnmixed`,
  `ReadyAlwaysInstallable`, `UpgradeReplaced`, `CoreImplementsService`,
  `CommittedAlwaysTransferred`, for slots of any size and any table of erasers
  that has the one-sector eraser. `UpgradeUnmixed` alone is not inductive:
  before the header of a slot is written, one has to know that its payload has
  been verified and has not changed since. `IInv` adds `PcInv` (which status
  goes with which step), `StagingInv` (the staging header stays erased until the
  payload is verified; during the commit the staging slot holds the verified
  image) and `CommitInv` (the same for the upgrade slot). `EraseSizeFits` says
  that an erase command stays inside its slot; `CutWorn`, `ClearedWorn` and
  `TornWorn` that what an erase or a power failure leaves behind is the slot
  before, with some cells torn or erased; `WornUnmixed` that such a slot keeps
  its property, and `WornComplete` that it holds the image it held before or
  none. `BodyWriteUnmixed` and `HeaderWriteUnmixed` are the same for program
  operations; there is one lemma per action. The refinement uses `IInv`, splits
  the steps into those before the commit (`StagingRefines`) and in it
  (`CommitRefines`), and gets from `WornImage` that an erase takes the image to
  itself or to none. `CommittedIsTransferred` is about the history and needs
  `TransferInv` besides: while a package is received, a sector of the staging
  slot below `received` is the one the host sent, or erased or torn, and the
  others are erased (`ReceivingInv`, `Arrived`); once the digest has matched,
  which excludes erased and torn sectors, header and digest are those of the
  transfer (`StagedInv`), and `IInv` carries them into the upgrade slot.
* `OtaTransportsProofs`: `TransportTypes`, `HttpSessionAlwaysOwned`,
  `WifiSessionAlwaysOwn`, `HttpCommitIsAnnounced`. `TInv` adds `HttpInv` (what
  the download knows at each step) and `SessionInv`: as long as the core has
  received as many chunks as the digest was fed, they are the same chunks; a
  foreign chunk puts the core ahead for good, and the next `ota_write` fails on
  its offset. This is why a TCP client can spoil a download but not change what
  it commits.
* `OtaRemoteProofs`: `RemoteTypeOK`, `RemoteOneUpdateTask`,
  `RemoteCompletedIsTrue`, `RemoteOfferIsNewer`, for any offers, queue depths and
  number of power failures. `OneUpdateTask` is inductive; `CompletedIsTrue` is
  not: that a restart never takes the device back to an older version follows
  from `VersionInv`, by which whatever is offered, downloaded or in the upgrade
  slot is at least the version that runs, and whatever is pending is newer than
  the version as delivered. `OfferIsNewer` does not hold for every configuration.
  It is proved for a clear hook that works and a transmit queue of two or more
  messages: `PendingIsEarly` says that an installed update is pending only until
  the first connection has reported it, when no offer is valid and the queue has
  room, so that `publish_completed_if_pending` overwrites no offer.
* `WeatherProofs`: `WeatherTypes`, `NeverTwoInFlight`, `ConnectingAlwaysPending`,
  `CandidatesAlwaysLatest`, `SavedAlwaysReported`, `LastAlwaysSaved`, for any
  networks, cities and queries, any depth of the three queues, any number of
  profiles and any number of steps of the user and the WLAN, so the bounds of the
  TLC instances do not matter for them. None of the properties is inductive, since
  an answer is filtered by its id long after the command was queued. `IInv` (run
  with TLC on the constants of `weather_net` and `weather_pages` before it was
  proved) says of each message on the way, in a command queue, in a worker or in
  the event queue, that it carries what was asked last if its id is the one still
  waited for (`CmdsOK`, `WorkersOK`, `EvsOK`), and of scan, weather and time that
  there is one message at most, and none when no request is open (`Single`). The
  last part needs that an id given to a new request belongs to no message on the
  way; `RequestIdFresh` proves that `NextRequest` finds such an id, by counting the
  places in which ids can be. Because one handler calls several others, the lemmas
  about requests, port operations and page functions are stated for any state `s`
  that is `Good`, and compose as the calls do; there is one lemma per action above
  them. `SavedAlwaysReported` says that no credentials are stored on the success of
  others; it does not say that a stored password is right, which `weather_password`
  refutes.
* `DisplaySwapProofs`: `DisplayTypeOK`, `DisplayNoTearing`,
  `DisplayReadyAfterLatch`, for any number of frames. That the semaphore holds one
  token at most is not inductive. `IInv` adds `FlushInv`: while a flush that the
  LTDC accepted is open, its completion is in exactly one place, the reload
  request, the pending interrupt, the semaphore or the swap thread, and in none
  otherwise; and `BufferInv`, which buffer is shown and which is drawn into at
  each of these places.

Only model-checked: the liveness properties `HttpSessionEnds`, `Reconnects`,
`AcceptHandled`, `Answered` and `FlushCompletes`, which are out of the prover's
reach. Every other property of a passing run is proved.

## 5. Plan

Done: `Ota`, `OtaService`, `OtaTransports`, `OtaRemote`, `Weather`,
`DisplaySwap`, `FontCache`, and the proofs above.

1. Proofs: that the core calls of `OtaTransports` are what `Ota` does between
   taking and releasing the lock.
2. Pure functions against a reference: the calendar of `lvww_ui.c`
   (`lvww_epoch_to_calendar`) and of `lvww_rw007.c` (`civil_to_epoch`) as inverses
   of each other, the ranking of the city search, the version response checks of
   `ota_mqtt_protocol.c` against section 2 of `MQTT_BATCH_OTA.md`.
3. `FontCache` with a passing instance: one reload spoils one slot at most.

## 6. Not modelled

UI layout and navigation, touch polling, register-level drivers, host tools, the
mock backend and demos: no shared protocol state. The teardown of the weather
terminal (`lvww_destroy`, `lvww_rw007_destroy`): the firmware never calls it.
HTTP, chunked transfer and JSON parsing: text processing whose only effect on
the models is success or failure. Validation of stored records: the key-value
store of the RW007 back end is in RAM, so there is never one to validate. ECDSA
and the hash block functions: arithmetic that test vectors cover. The Bootloader
lives in another repository. RT-Thread, the packages, the HAL and CMSIS are
vendored; what the models use of them (mutex, message queue, flash commands,
MQTT session state) is modelled from the way the applications call it.
