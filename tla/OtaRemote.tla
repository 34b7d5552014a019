----------------------------- MODULE OtaRemote -----------------------------
(***************************************************************************)
(* The remote update controller, applications/ota/ota_remote.c.            *)
(*                                                                         *)
(* Four threads share the context: the controller (ota_remote_entry), the  *)
(* publisher (mqtt_tx_entry), the receive thread of the MQTT client, which *)
(* runs mqtt_receive_callback, and the LVGL thread, which calls the public *)
(* functions.  Two bounded message queues connect them.  The WLAN and the  *)
(* MQTT session come and go, the server answers late or twice, and the     *)
(* device restarts.                                                        *)
(*                                                                         *)
(* An offer is a parsed version response with its message_id and           *)
(* version_code; URL, sizes and digests go with it.  A version code stands *)
(* for the image of that version.  ota_http_download is seen through the   *)
(* notifications it gives http_progress and the result it returns; module  *)
(* OtaTransports looks inside.  The model is of the default configuration, *)
(* in which auto_reboot is on.                                             *)
(***************************************************************************)
EXTENDS Naturals, Sequences

CONSTANTS
    Offers,          \* the updates the server may offer: [id, ver]
    NoOffer,         \* a version response without update; an empty update
    FirstVersion,    \* OTA_CURRENT_FIRMWARE_VERSION_CODE as delivered
    QueueDepth,      \* OTA_MQTT_QUEUE_DEPTH
    TxDepth,         \* capacity of mqtt_tx_queue_pool
    IdMod,           \* message_counter wraps here (2^32 in the code)
    Storage,         \* the optional persistence hooks are implemented
    ClearFails,      \* the clear hook may fail
    MaxPowerLoss     \* bound: power failures in a behaviour

ASSUME OffersAssumption ==
    /\ NoOffer \notin Offers
    /\ \A o \in Offers : o.ver \in Nat \ {0}

ASSUME BoundsAssumption ==
    /\ FirstVersion \in Nat \ {0}
    /\ QueueDepth \in Nat \ {0}
    /\ TxDepth \in Nat \ {0}
    /\ IdMod \in Nat \ {0}
    /\ MaxPowerLoss \in Nat

ASSUME HooksAssumption == Storage \in BOOLEAN /\ ClearFails \in BOOLEAN

VARIABLES
    version,       \* persistent: OTA_CURRENT_FIRMWARE_VERSION_CODE of the APP
    upgrade,       \* persistent: version in the upgrade slot, 0 if none
    pending,       \* persistent: what the load hook returns
    wlan,          \* rt_wlan_is_ready()
    link,          \* an MQTT client exists, is ready and LINKED
    requests,      \* message ids of the version requests the server has
    reported,      \* versions the server has a "completed" event for
    power_losses,  \* how many power failures there have been
    queue,         \* remote.queue
    txq,           \* remote.tx_queue
    counter,       \* remote.message_counter
    last_request,  \* remote.last_request_id
    update_valid,  \* remote.update_valid
    update,        \* remote.update
    in_progress,   \* remote.update_in_progress
    broker_update, \* remote.broker_update_pending
    ctl,           \* where the controller thread is
    ui             \* where the LVGL thread is in ota_remote_accept_update

flash   == <<version, upgrade, pending>>
network == <<wlan, link, requests, reported>>
offer   == <<update_valid, update>>
ids     == <<counter, last_request>>
vars == <<flash, network, power_losses, queue, txq, ids, offer, in_progress,
          broker_update, ctl, ui>>

\* remote.last_request_id while it is empty.
NoRequest == IdMod

\* Positions of the controller inside run_update while its update is under way.
RunSteps == {"delay_rollout", "download", "transfer", "verify", "finish",
             "commit", "save", "reboot", "delay_reset", "failed"}
-----------------------------------------------------------------------------
(* Queues and message ids                                                  *)

\* rt_mq_send without waiting: a full queue refuses the message.
mqtt_enqueue(msg) ==
    txq' = IF Len(txq) < TxDepth THEN Append(txq, msg) ELSE txq

Event == [type |-> "event", n |-> 0]

\* make_message_id, then publish_update_event; its result is ignored.
publish_update_event ==
    /\ counter' = (counter + 1) % IdMod
    /\ mqtt_enqueue(Event)
    /\ UNCHANGED last_request

publish_version_request ==
    /\ counter' = (counter + 1) % IdMod
    /\ last_request' = counter'
    /\ mqtt_enqueue([type |-> "request", n |-> counter'])

\* Mutant: the command queue has no bound.
enqueue_Unbounded(cmd) == queue' = Append(queue, cmd)

enqueue(cmd) == Len(queue) < QueueDepth /\ queue' = Append(queue, cmd)
-----------------------------------------------------------------------------
(* The LVGL thread                                                         *)

\* Mutant: the flag of the running update is not looked at.
accept_update_NoFlag ==
    /\ ui = "idle"
    /\ update_valid
    /\ in_progress' = TRUE
    /\ ui' = "enqueue"
    /\ UNCHANGED <<flash, network, power_losses, queue, txq, ids, offer,
                   broker_update, ctl>>

\* ota_remote_accept_update: test and set under the lock...
accept_update ==
    /\ ui = "idle"
    /\ update_valid
    /\ ~in_progress
    /\ in_progress' = TRUE
    /\ ui' = "enqueue"
    /\ UNCHANGED <<flash, network, power_losses, queue, txq, ids, offer,
                   broker_update, ctl>>

\* ...then post the command, and take the flag back if the queue is full.
accept_enqueue ==
    /\ ui = "enqueue"
    /\ ui' = "idle"
    /\ \/ enqueue([type |-> "ACCEPT"]) /\ UNCHANGED in_progress
       \/ /\ Len(queue) = QueueDepth
          /\ in_progress' = FALSE
          /\ UNCHANGED queue
    /\ UNCHANGED <<flash, network, power_losses, txq, ids, offer,
                   broker_update, ctl>>

\* ota_remote_request_version and ota_remote_decline_update.
enqueue_simple(type) ==
    /\ ui = "idle"
    /\ enqueue([type |-> type])
    /\ UNCHANGED <<flash, network, power_losses, txq, ids, offer,
                   in_progress, broker_update, ctl, ui>>

set_server_ip ==
    /\ ui = "idle"
    /\ broker_update' = TRUE
    /\ UNCHANGED <<flash, network, power_losses, queue, txq, ids, offer,
                   in_progress, ctl, ui>>
-----------------------------------------------------------------------------
(* The MQTT client's receive thread and the publisher                      *)

\* A response to any request the server ever got, in any order, any number
\* of times.  It is dropped when the command queue is full.
mqtt_receive_callback(n, o) ==
    /\ link
    /\ enqueue([type |-> "MESSAGE", n |-> n, offer |-> o])
    /\ UNCHANGED <<flash, network, power_losses, txq, ids, offer,
                   in_progress, broker_update, ctl, ui>>

\* A message is taken from the queue for good; it reaches the server only if
\* the session is up and the publication succeeds.
mqtt_tx_entry ==
    /\ txq # <<>>
    /\ txq' = Tail(txq)
    /\ LET m == Head(txq) IN
       \/ UNCHANGED <<requests, reported>>
       \/ /\ link
          /\ requests' = IF m.type = "request" THEN requests \cup {m.n}
                                               ELSE requests
          /\ reported' = IF m.type = "completed" THEN reported \cup {m.n}
                                                 ELSE reported
    /\ UNCHANGED <<flash, wlan, link, power_losses, queue, ids, offer,
                   in_progress, broker_update, ctl, ui>>
-----------------------------------------------------------------------------
(* The controller: connecting                                              *)

\* connect_mqtt up to mqtt_ready: create, start and subscribe succeed.  It is
\* tried at once after a change of server, else after the retry delay (5 s),
\* in which the publisher has dropped everything it had.
ConnectOk ==
    /\ ctl = "reconnect" \/ (ctl = "offline" /\ txq = <<>>)
    /\ wlan
    /\ broker_update' = FALSE             \* apply_pending_broker_uri
    /\ link' = TRUE
    /\ ctl' = "status"
    /\ UNCHANGED <<flash, wlan, requests, reported, power_losses, queue, txq,
                   ids, offer, in_progress, ui>>

publish_status ==
    /\ ctl = "status"
    /\ ctl' = "completed"
    /\ mqtt_enqueue(Event)
    /\ UNCHANGED <<flash, network, power_losses, queue, ids, offer,
                   in_progress, broker_update, ui>>

\* Mutant: the version that runs is not compared with the target.
HasPending_AnyVersion == Storage /\ pending # NoOffer

HasPending == Storage /\ pending # NoOffer /\ pending.ver = version

\* The pending update, if it is the one that now runs, overwrites
\* remote.update; it is cleared once the event is in the transmit queue.
publish_completed_if_pending ==
    /\ ctl = "completed"
    /\ ctl' = "request"
    /\ \/ /\ HasPending
          /\ update' = pending
          /\ counter' = (counter + 1) % IdMod
          /\ mqtt_enqueue([type |-> "completed", n |-> pending.ver])
          /\ \/ pending' = IF Len(txq) < TxDepth THEN NoOffer ELSE pending
             \/ ClearFails /\ UNCHANGED pending
       \/ ~HasPending /\ UNCHANGED <<update, counter, txq, pending>>
    /\ UNCHANGED <<version, upgrade, network, power_losses, queue,
                   last_request, update_valid, in_progress, broker_update,
                   ui>>

\* The last call of connect_mqtt decides its result; a request that does not
\* fit in the transmit queue counts as a failed connection.
ConnectRequest ==
    /\ ctl = "request"
    /\ publish_version_request
    /\ \/ Len(txq) < TxDepth /\ ctl' = "loop" /\ UNCHANGED link
       \/ Len(txq) = TxDepth /\ ctl' = "offline" /\ link' = FALSE
    /\ UNCHANGED <<flash, wlan, requests, reported, power_losses, queue,
                   offer, in_progress, broker_update, ui>>

\* Mutant: the state of the MQTT session is not looked at.
disconnect_mqtt_IgnoresLink ==
    /\ ctl = "loop"
    /\ ~wlan
    /\ ctl' = "offline"
    /\ link' = FALSE
    /\ UNCHANGED <<flash, wlan, requests, reported, power_losses, queue, txq,
                   ids, offer, in_progress, broker_update, ui>>

\* The loop ends when the network is gone or the server was changed.
disconnect_mqtt ==
    /\ ctl = "loop"
    /\ \/ ~(wlan /\ link) /\ ctl' = "offline" /\ UNCHANGED broker_update
       \/ /\ wlan /\ link /\ broker_update
          /\ ctl' = "reconnect"
          /\ broker_update' = FALSE
    /\ link' = FALSE
    /\ UNCHANGED <<flash, wlan, requests, reported, power_losses, queue, txq,
                   ids, offer, in_progress, ui>>
-----------------------------------------------------------------------------
(* The controller: commands                                                *)

\* Mutant: commands wait while an update is in progress.
Received_NotBusy(type) ==
    /\ ctl = "loop" /\ wlan /\ link /\ ~broker_update /\ ~in_progress
    /\ queue # <<>> /\ Head(queue).type = type
    /\ queue' = Tail(queue)

\* The while condition held and rt_mq_recv returned a command of this type.
Received(type) ==
    /\ ctl = "loop" /\ wlan /\ link /\ ~broker_update
    /\ queue # <<>> /\ Head(queue).type = type
    /\ queue' = Tail(queue)

\* Mutant: an older version is offered to the user as well.
handle_version_response_AnyVersion ==
    /\ Received("MESSAGE")
    /\ LET m == Head(queue) IN
       IF m.n # last_request THEN UNCHANGED offer
       ELSE IF m.offer = NoOffer
       THEN update_valid' = FALSE /\ UNCHANGED update
       ELSE update_valid' = TRUE /\ update' = m.offer
    /\ UNCHANGED <<flash, network, power_losses, txq, ids, in_progress,
                   broker_update, ctl, ui>>

handle_version_response ==
    /\ Received("MESSAGE")
    /\ LET m == Head(queue) IN
       IF m.n # last_request THEN UNCHANGED offer
       ELSE IF m.offer = NoOffer \/ m.offer.ver <= version
       THEN update_valid' = FALSE /\ UNCHANGED update
       ELSE IF update_valid /\ update.id = m.offer.id THEN UNCHANGED offer
       ELSE update_valid' = TRUE /\ update' = m.offer
    /\ UNCHANGED <<flash, network, power_losses, txq, ids, in_progress,
                   broker_update, ctl, ui>>

HandleCheck ==
    /\ Received("CHECK")
    /\ publish_version_request
    /\ UNCHANGED <<flash, network, power_losses, offer, in_progress,
                   broker_update, ctl, ui>>

HandleDecline ==
    /\ Received("DECLINE")
    /\ IF update_valid THEN publish_update_event ELSE UNCHANGED <<txq, ids>>
    /\ UNCHANGED <<flash, network, power_losses, offer, in_progress,
                   broker_update, ctl, ui>>

\* run_update.  Without a valid update it returns at once.
HandleAccept ==
    /\ Received("ACCEPT")
    /\ \/ ~update_valid /\ UNCHANGED <<txq, ids, ctl>>
       \/ update_valid /\ publish_update_event /\ ctl' = "delay_rollout"
    /\ UNCHANGED <<flash, network, power_losses, offer, in_progress,
                   broker_update, ui>>
-----------------------------------------------------------------------------
(* The controller: run_update                                              *)

Untouched == <<network, power_losses, queue, offer, in_progress,
               broker_update, ui>>

\* The random delay is over, or is cut short because the WLAN is gone.
RolloutDelay ==
    /\ ctl = "delay_rollout"
    /\ ctl' = IF wlan THEN "download" ELSE "failed"
    /\ UNCHANGED <<flash, txq, ids, Untouched>>

\* http_progress gives up when the WLAN is gone, and reports otherwise.
http_progress(step, next) ==
    /\ ctl = step
    /\ \/ wlan /\ publish_update_event /\ ctl' = next
       \/ ~wlan /\ ctl' = "failed" /\ UNCHANGED <<txq, ids>>
    /\ UNCHANGED <<flash, Untouched>>

\* ota_http_download fails: the request, the server, the core or a digest.
DownloadFails ==
    /\ ctl \in {"download", "transfer"}
    /\ ctl' = "failed"
    /\ UNCHANGED <<flash, txq, ids, Untouched>>

\* A sparse QoS 0 progress message in the course of the transfer.
Progress ==
    /\ ctl = "transfer"
    /\ wlan
    /\ publish_update_event
    /\ UNCHANGED <<flash, ctl, Untouched>>

TransferDone ==
    /\ ctl = "transfer"
    /\ ctl' = "verify"
    /\ UNCHANGED <<flash, txq, ids, Untouched>>

\* The package digest and ota_finish.
Finish ==
    /\ ctl = "finish"
    /\ \/ ctl' = "commit" /\ upgrade' = update.ver
       \/ ctl' = "failed" /\ upgrade' \in {upgrade, 0, update.ver}
    /\ UNCHANGED <<version, pending, txq, ids, Untouched>>

save_pending_update ==
    /\ ctl = "save"
    /\ \/ /\ pending' = IF Storage THEN update ELSE pending
          /\ ctl' = "reboot"
          /\ update_valid' = FALSE
          /\ publish_update_event         \* REBOOTING
       \/ /\ Storage
          /\ ctl' = "failed"
          /\ UNCHANGED <<pending, update_valid, txq, ids>>
    /\ UNCHANGED <<version, upgrade, network, power_losses, queue, update,
                   in_progress, broker_update, ui>>

\* ota_reboot_to_install is refused if the other transport has taken the
\* core out of READY; run_update then just ends.
RebootToInstall ==
    /\ ctl = "reboot"
    /\ \/ ctl' = "delay_reset" /\ UNCHANGED in_progress
       \/ ctl' = "loop" /\ in_progress' = FALSE
    /\ UNCHANGED <<flash, network, power_losses, queue, txq, ids, offer,
                   broker_update, ui>>

\* The label failed of run_update: the flag is cleared first, so the user may
\* accept again...
RunFailed ==
    /\ ctl = "failed"
    /\ ctl' = "report"
    /\ in_progress' = FALSE
    /\ UNCHANGED <<flash, network, power_losses, queue, txq, ids, offer,
                   broker_update, ui>>

\* ...before the failure is reported and run_update returns.
ReportFailed ==
    /\ ctl = "report"
    /\ ctl' = "loop"
    /\ publish_update_event
    /\ UNCHANGED <<flash, Untouched>>
-----------------------------------------------------------------------------
(* The environment                                                         *)

WlanUp ==
    /\ ~wlan
    /\ wlan' = TRUE
    /\ UNCHANGED <<flash, link, requests, reported, power_losses, queue, txq,
                   ids, offer, in_progress, broker_update, ctl, ui>>

WlanDown ==
    /\ wlan
    /\ wlan' = FALSE
    /\ UNCHANGED <<flash, link, requests, reported, power_losses, queue, txq,
                   ids, offer, in_progress, broker_update, ctl, ui>>

\* The MQTT client loses its session.
LinkLost ==
    /\ link
    /\ link' = FALSE
    /\ UNCHANGED <<flash, wlan, requests, reported, power_losses, queue, txq,
                   ids, offer, in_progress, broker_update, ctl, ui>>

\* RAM is lost; the Bootloader installs what it finds in the upgrade slot.
Restart ==
    /\ version' = IF upgrade # 0 THEN upgrade ELSE version
    /\ upgrade' = 0
    /\ wlan' = FALSE
    /\ link' = FALSE
    /\ queue' = <<>>
    /\ txq' = <<>>
    /\ counter' = 0
    /\ last_request' = NoRequest
    /\ update_valid' = FALSE
    /\ update' = NoOffer
    /\ in_progress' = FALSE
    /\ broker_update' = FALSE
    /\ ctl' = "offline"
    /\ ui' = "idle"
    /\ UNCHANGED <<pending, requests, reported>>

Reset == ctl = "delay_reset" /\ Restart /\ UNCHANGED power_losses

PowerLoss ==
    /\ power_losses < MaxPowerLoss
    /\ power_losses' = power_losses + 1
    /\ Restart
-----------------------------------------------------------------------------
Init ==
    /\ version = FirstVersion
    /\ upgrade = 0
    /\ pending = NoOffer
    /\ wlan = FALSE
    /\ link = FALSE
    /\ requests = {}
    /\ reported = {}
    /\ power_losses = 0
    /\ queue = <<>>
    /\ txq = <<>>
    /\ counter = 0
    /\ last_request = NoRequest
    /\ update_valid = FALSE
    /\ update = NoOffer
    /\ in_progress = FALSE
    /\ broker_update = FALSE
    /\ ctl = "offline"
    /\ ui = "idle"

LvglThread ==
    \/ accept_update \/ set_server_ip
    \/ enqueue_simple("CHECK") \/ enqueue_simple("DECLINE")

Controller ==
    \/ publish_status \/ publish_completed_if_pending \/ ConnectRequest
    \/ disconnect_mqtt
    \/ handle_version_response \/ HandleCheck \/ HandleDecline \/ HandleAccept
    \/ RolloutDelay
    \/ http_progress("download", "transfer") \/ http_progress("verify", "finish")
    \/ http_progress("commit", "save")
    \/ DownloadFails \/ TransferDone \/ Finish
    \/ save_pending_update \/ RebootToInstall \/ RunFailed \/ ReportFailed
    \/ Reset

Next ==
    \/ LvglThread
    \/ accept_enqueue
    \/ \E n \in requests, o \in Offers \cup {NoOffer} : mqtt_receive_callback(n, o)
    \/ mqtt_tx_entry
    \/ ConnectOk
    \/ Controller
    \/ Progress
    \/ WlanUp \/ WlanDown \/ LinkLost
    \/ PowerLoss

\* Every thread of the scheduler runs; a connection that is tried again and
\* again while the WLAN is up succeeds at last; the WLAN comes back.
Fairness ==
    /\ WF_vars(Controller)
    /\ SF_vars(ConnectOk)
    /\ WF_vars(mqtt_tx_entry)
    /\ WF_vars(accept_enqueue)
    /\ WF_vars(WlanUp)

Spec == Init /\ [][Next]_vars /\ Fairness
-----------------------------------------------------------------------------
(* Properties                                                              *)

Commands ==
    [type : {"CHECK", "ACCEPT", "DECLINE"}] \cup
    [type : {"MESSAGE"}, n : 0..(IdMod - 1), offer : Offers \cup {NoOffer}]

Messages ==
    [type : {"event"}, n : {0}] \cup [type : {"request"}, n : 0..(IdMod - 1)]
    \cup [type : {"completed"}, n : Nat]

\* Every variable has its type; in particular both queues keep their bounds.
TypeOK ==
    /\ version \in Nat \ {0}
    /\ upgrade \in Nat
    /\ pending \in Offers \cup {NoOffer}
    /\ wlan \in BOOLEAN
    /\ link \in BOOLEAN
    /\ requests \subseteq 0..(IdMod - 1)
    /\ reported \subseteq Nat
    /\ power_losses \in 0..MaxPowerLoss
    /\ queue \in Seq(Commands) /\ Len(queue) <= QueueDepth
    /\ txq \in Seq(Messages) /\ Len(txq) <= TxDepth
    /\ counter \in 0..(IdMod - 1)
    /\ last_request \in 0..IdMod
    /\ update_valid \in BOOLEAN
    /\ update \in Offers \cup {NoOffer}
    /\ in_progress \in BOOLEAN
    /\ broker_update \in BOOLEAN
    /\ ctl \in {"offline", "reconnect", "status", "completed", "request",
                "loop", "report"} \cup RunSteps
    /\ ui \in {"idle", "enqueue"}

Accepts == {i \in 1..Len(queue) : queue[i].type = "ACCEPT"}

\* However often the user presses the button and the offer arrives, there is
\* one update task at most: being posted, waiting in the command queue, or
\* running; and update_in_progress is set as long as there is one.
OneUpdateTask ==
    /\ \A i, j \in Accepts : i = j
    /\ Accepts # {} \/ ctl \in RunSteps \/ ui = "enqueue" => in_progress
    /\ ~(Accepts # {} /\ ctl \in RunSteps)
    /\ ui = "enqueue" => Accepts = {} /\ ctl \notin RunSteps

\* A "completed" event on its way to the server names the version that runs,
\* and what the server has been told was installed and did run: neither
\* publish_completed_if_pending nor a restart between save and installation
\* reports an update that was saved but not, or not yet, installed.
CompletedIsTrue ==
    /\ \A i \in 1..Len(txq) : txq[i].type = "completed" => txq[i].n = version
    /\ reported \subseteq (FirstVersion + 1)..version

\* What the user may accept is newer than what runs, through restarts,
\* installations and late responses to requests of an earlier version.
OfferIsNewer == update_valid => update.ver > version

\* While the WLAN stays up, the controller is online again and again: a
\* session that is lost, or a transmit queue that is full while it connects,
\* does not keep it away for good.
Reconnects ==
    <>[]wlan => []<>link /\ []<>(ctl = "loop" \/ ctl \in RunSteps)

\* The WLAN is up, and the MQTT session is while the controller relies on it.
Stable == wlan /\ (ctl = "loop" => link)

\* While the network stays up, an accepted update is taken from the queue:
\* commands that wait survive a reconnection and are handled after it, unless
\* the server address keeps changing.
AcceptHandled ==
    <>[](Stable /\ ~broker_update) => (Accepts # {} ~> Accepts = {})

\* MQTT_BATCH_OTA.md: a press of the button posts a task to the worker.  It
\* does unless one is there, so update_in_progress stands for a task.
InProgressHasTask ==
    in_progress => ui = "enqueue" \/ Accepts # {} \/ ctl \in RunSteps
=============================================================================
