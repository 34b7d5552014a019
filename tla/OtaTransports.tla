--------------------------- MODULE OtaTransports ---------------------------
(***************************************************************************)
(* The two transports that drive the OTA core at the same time: the TCP    *)
(* server thread of ota_wifi.c and the HTTP pull of ota_http.c, which the  *)
(* remote controller thread runs.                                          *)
(*                                                                         *)
(* Module Ota shows what happens inside a core call.  Here each ota_*()    *)
(* call is one step, because it holds ota_context.lock from its first      *)
(* check to its return; what interleaves is the calls of the two threads,  *)
(* which share ota_context but keep flags of their own about it: receiving *)
(* in handle_client and begun in ota_http_download.                        *)
(*                                                                         *)
(* A package is a sequence of chunks.  Its CRC32 may collide with that of  *)
(* another package; its SHA-256 is the package itself.                     *)
(***************************************************************************)
EXTENDS Naturals, Sequences

CONSTANTS
    Chunks,        \* contents of one DATA frame or one webclient_read
    Packages,      \* the packages hosts announce
    Installable,   \* those whose header, payload digests and signature hold
    Crc32(_),      \* the announced package CRC
    NoImage        \* no valid header in the upgrade slot

ASSUME PackagesAssumption ==
    /\ Packages \subseteq Seq(Chunks) \ {<<>>}
    /\ Installable \subseteq Packages
    /\ NoImage \notin Packages

VARIABLES
    state,         \* ota_context.status.state, between two calls
    source,        \* ota_context.status.source
    size,          \* ota_context.status.package_size
    crc,           \* ota_context.expected_package_crc
    transfer,      \* the chunks received so far
    upgrade,       \* flash: the image the Bootloader would install
    wifi,          \* where ota_wifi_entry / handle_client is
    receiving,     \* handle_client: receiving
    reboot_flag,   \* handle_client: OTA_WIFI_BEGIN_FLAG_REBOOT of begin_flags
    reboot_after,  \* handle_client: reboot_after_response
    http,          \* where ota_http_download is
    begun,         \* ota_http_download: begun
    request,       \* ota_http_download: size, CRC and SHA-256 announced
    read,          \* ota_http_download: the chunks its SHA-256 was fed
    own_session    \* history: the core's session was begun by this connection

core == <<state, source, size, crc, transfer, upgrade>>
wifi_vars == <<wifi, receiving, reboot_flag, reboot_after>>
http_vars == <<http, begun, request, read>>
vars == <<core, wifi_vars, http_vars, own_session>>

States == {"IDLE", "RECEIVING", "READY", "ERROR"}
-----------------------------------------------------------------------------
(* The core calls.  r is what the call returns to its transport.           *)

ota_begin(src, p, r) ==
    \/ /\ r = "STATE"
       /\ state = "RECEIVING"
       /\ UNCHANGED <<core, own_session>>
    \/ /\ r \in {"OK", "FLASH"}
       /\ state # "RECEIVING"
       /\ state' = IF r = "OK" THEN "RECEIVING" ELSE "ERROR"
       /\ source' = src
       /\ size' = Len(p)
       /\ crc' = Crc32(p)
       /\ transfer' = <<>>
       /\ own_session' = (src = "wifi")
       /\ UNCHANGED upgrade

\* Mutant: a write past the announced package size is taken.
Writable_Unbounded(offset) == state = "RECEIVING" /\ offset = Len(transfer)

Writable(offset) ==
    state = "RECEIVING" /\ offset = Len(transfer) /\ offset < size

ota_write(offset, data, r) ==
    \/ /\ r = "STATE"
       /\ ~Writable(offset)
       /\ UNCHANGED core
    \/ /\ r = "OK"
       /\ Writable(offset)
       /\ transfer' = Append(transfer, data)
       /\ UNCHANGED <<state, source, size, crc, upgrade>>
    \/ /\ r = "FLASH"
       /\ Writable(offset)
       /\ state' = "ERROR"
       /\ UNCHANGED <<source, size, crc, transfer, upgrade>>

Complete == state = "RECEIVING" /\ Len(transfer) = size

Accepted == Crc32(transfer) = crc /\ transfer \in Installable

\* A commit that fails may leave the old image, none, or the new one.
ota_finish(r) ==
    \/ /\ r = "STATE"
       /\ ~Complete
       /\ UNCHANGED core
    \/ /\ r = "OK"
       /\ Complete /\ Accepted
       /\ state' = "READY"
       /\ upgrade' = transfer
       /\ UNCHANGED <<source, size, crc, transfer>>
    \/ /\ r = "FAILED"
       /\ Complete
       /\ state' = "ERROR"
       /\ upgrade' \in {upgrade} \cup
                       (IF Accepted THEN {NoImage, transfer} ELSE {})
       /\ UNCHANGED <<source, size, crc, transfer>>

ota_abort ==
    /\ state' = "IDLE"
    /\ source' = "none"
    /\ size' = 0
    /\ UNCHANGED <<crc, transfer, upgrade>>
-----------------------------------------------------------------------------
(* handle_client: one frame is received, one core call made, one response  *)
(* sent.  A frame with a bad payload CRC is answered and changes nothing.  *)

accept ==
    /\ wifi = "closed"
    /\ wifi' = "receive"
    /\ receiving' = FALSE
    /\ reboot_flag' = FALSE
    /\ reboot_after' = FALSE
    /\ own_session' = FALSE
    /\ UNCHANGED <<core, http_vars>>

\* The peer is gone, the socket timed out, or the frame header is not one.
ReceiveFails ==
    /\ wifi = "receive"
    /\ wifi' = "exit"
    /\ UNCHANGED <<core, receiving, reboot_flag, reboot_after, http_vars,
                   own_session>>

\* A status that cannot be sent ends handle_client with a plain return.
Query ==
    /\ wifi = "receive"
    /\ wifi' \in {"receive", "closed"}
    /\ UNCHANGED <<core, receiving, reboot_flag, reboot_after, http_vars,
                   own_session>>

\* Mutant: a refused BEGIN leaves the flag of the connection as it was set.
Begin_KeepsReceiving(p, flag) ==
    /\ wifi = "receive"
    /\ wifi' = "respond"
    /\ reboot_flag' = flag
    /\ reboot_after' = FALSE
    /\ receiving' = TRUE
    /\ \E r \in {"OK", "STATE", "FLASH"} : ota_begin("wifi", p, r)
    /\ UNCHANGED http_vars

\* A BEGIN whose size does not fit is refused whatever the state.
Begin(p, flag) ==
    /\ wifi = "receive"
    /\ wifi' = "respond"
    /\ reboot_flag' = flag
    /\ reboot_after' = FALSE
    /\ \/ \E r \in {"OK", "STATE", "FLASH"} :
             /\ ota_begin("wifi", p, r)
             /\ receiving' = (r = "OK")
       \/ /\ receiving' = FALSE
          /\ UNCHANGED <<core, own_session>>
    /\ UNCHANGED http_vars

Data(offset, data) ==
    /\ wifi = "receive"
    /\ wifi' = "respond"
    /\ reboot_after' = FALSE
    /\ IF receiving
       THEN \E r \in {"OK", "STATE", "FLASH"} : ota_write(offset, data, r)
       ELSE UNCHANGED core
    /\ UNCHANGED <<receiving, reboot_flag, http_vars, own_session>>

End ==
    /\ wifi = "receive"
    /\ wifi' = "respond"
    /\ \/ /\ receiving
          /\ \E r \in {"OK", "STATE", "FAILED"} :
                /\ ota_finish(r)
                /\ reboot_after' = (r = "OK" /\ reboot_flag)
          /\ receiving' = FALSE
       \/ /\ ~receiving
          /\ reboot_after' = FALSE
          /\ UNCHANGED <<core, receiving>>
    /\ UNCHANGED <<reboot_flag, http_vars, own_session>>

Abort ==
    /\ wifi = "receive"
    /\ wifi' = "respond"
    /\ ota_abort
    /\ receiving' = FALSE
    /\ reboot_after' = FALSE
    /\ UNCHANGED <<reboot_flag, http_vars, own_session>>

Reboot ==
    /\ wifi = "receive"
    /\ wifi' = "respond"
    /\ reboot_after' = (state = "READY")
    /\ UNCHANGED <<core, receiving, reboot_flag, http_vars, own_session>>

send_response ==
    /\ wifi = "respond"
    /\ \/ wifi' = IF reboot_after THEN "reboot" ELSE "receive"
       \/ wifi' = "exit"
    /\ UNCHANGED <<core, receiving, reboot_flag, reboot_after, http_vars,
                   own_session>>

\* ota_reboot_to_install(500) and the return after it.
WifiReboot ==
    /\ wifi = "reboot"
    /\ wifi' = IF state = "READY" THEN "delay" ELSE "closed"
    /\ UNCHANGED <<core, receiving, reboot_flag, reboot_after, http_vars,
                   own_session>>

\* The end of handle_client, then closesocket.
WifiExit ==
    /\ wifi = "exit"
    /\ wifi' = "closed"
    /\ IF receiving THEN ota_abort ELSE UNCHANGED core
    /\ UNCHANGED <<receiving, reboot_flag, reboot_after, http_vars,
                   own_session>>

handle_client ==
    \/ ReceiveFails \/ Query \/ End \/ Abort \/ Reboot
    \/ \E p \in Packages, flag \in BOOLEAN : Begin(p, flag)
    \/ \E p \in Packages, d \in Chunks : \E i \in 0..(Len(p) - 1) : Data(i, d)
    \/ send_response \/ WifiReboot \/ WifiExit
-----------------------------------------------------------------------------
(* ota_http_download, and how run_update uses its result                   *)

\* The GET answered 200 with the announced length; else nothing has changed.
HttpStart(p) ==
    /\ http = "idle"
    /\ http' = "begin"
    /\ request' = p
    /\ read' = <<>>
    /\ UNCHANGED <<core, begun, wifi_vars, own_session>>

HttpBegin ==
    /\ http = "begin"
    /\ \E r \in {"OK", "STATE", "FLASH"} :
          /\ ota_begin("http", request, r)
          /\ begun' = (r = "OK")
          /\ http' = IF r = "OK" THEN "progress" ELSE "exit"
    /\ UNCHANGED <<request, read, wifi_vars>>

\* The progress callback may refuse to go on, as http_progress does when the
\* WLAN is down.
HttpProgress ==
    /\ http = "progress"
    /\ \/ http' = IF Len(read) < Len(request) THEN "read" ELSE "verify"
       \/ http' = "exit"
    /\ UNCHANGED <<core, begun, request, read, wifi_vars, own_session>>

HttpRead(data) ==
    /\ http = "read"
    /\ read' = Append(read, data)
    /\ \E r \in {"OK", "STATE", "FLASH"} :
          /\ ota_write(Len(read), data, r)
          /\ http' = IF r = "OK" THEN "progress" ELSE "exit"
    /\ UNCHANGED <<begun, request, wifi_vars, own_session>>

HttpReadFails ==
    /\ http = "read"
    /\ http' = "exit"
    /\ UNCHANGED <<core, begun, request, read, wifi_vars, own_session>>

\* Mutant: the package digest is not compared.
HttpVerify_NoDigest ==
    /\ http = "verify"
    /\ http' = "finish"
    /\ UNCHANGED <<core, begun, request, read, wifi_vars, own_session>>

\* The VERIFY notification, then the comparison of the package SHA-256.
HttpVerify ==
    /\ http = "verify"
    /\ \/ http' = IF read = request THEN "finish" ELSE "exit"
       \/ http' = "exit"
    /\ UNCHANGED <<core, begun, request, read, wifi_vars, own_session>>

HttpFinish ==
    /\ http = "finish"
    /\ \E r \in {"OK", "STATE", "FAILED"} :
          /\ ota_finish(r)
          /\ begun' = (begun /\ r # "OK")
          /\ http' = IF r = "OK" THEN "commit" ELSE "exit"
    /\ UNCHANGED <<request, read, wifi_vars, own_session>>

\* The COMMIT notification decides what ota_http_download returns; run_update
\* goes on to ota_reboot_to_install(1000) only after a success.
HttpCommitted ==
    /\ http = "commit"
    /\ http' \in {"reboot", "exit"}
    /\ UNCHANGED <<core, begun, request, read, wifi_vars, own_session>>

HttpReboot ==
    /\ http = "reboot"
    /\ http' = IF state = "READY" THEN "delay" ELSE "idle"
    /\ request' = <<>>
    /\ read' = <<>>
    /\ UNCHANGED <<core, begun, wifi_vars, own_session>>

\* Mutant: an unsuccessful download is not cancelled.
HttpExit_NoAbort ==
    /\ http = "exit"
    /\ http' = "idle"
    /\ begun' = FALSE
    /\ request' = <<>>
    /\ read' = <<>>
    /\ UNCHANGED <<core, wifi_vars, own_session>>

\* The label exit of ota_http_download.
HttpExit ==
    /\ http = "exit"
    /\ http' = "idle"
    /\ IF begun THEN ota_abort ELSE UNCHANGED core
    /\ begun' = FALSE
    /\ request' = <<>>
    /\ read' = <<>>
    /\ UNCHANGED <<wifi_vars, own_session>>

ota_http_download ==
    \/ HttpBegin \/ HttpProgress \/ HttpReadFails \/ HttpVerify
    \/ HttpFinish \/ HttpCommitted \/ HttpReboot \/ HttpExit
    \/ \E d \in Chunks : HttpRead(d)
-----------------------------------------------------------------------------
Init ==
    /\ state = "IDLE"
    /\ source = "none"
    /\ size = 0
    /\ crc = Crc32(<<>>)
    /\ transfer = <<>>
    /\ upgrade = NoImage
    /\ wifi = "closed"
    /\ receiving = FALSE
    /\ reboot_flag = FALSE
    /\ reboot_after = FALSE
    /\ http = "idle"
    /\ begun = FALSE
    /\ request = <<>>
    /\ read = <<>>
    /\ own_session = FALSE

\* A power failure, or rt_hw_cpu_reset at the end of either delay, followed
\* by main and ota_service_init.
Restart ==
    /\ state' = "IDLE"
    /\ source' = "none"
    /\ size' = 0
    /\ crc' = Crc32(<<>>)
    /\ transfer' = <<>>
    /\ wifi' = "closed"
    /\ receiving' = FALSE
    /\ reboot_flag' = FALSE
    /\ reboot_after' = FALSE
    /\ http' = "idle"
    /\ begun' = FALSE
    /\ request' = <<>>
    /\ read' = <<>>
    /\ own_session' = FALSE
    /\ UNCHANGED upgrade

Reset == "delay" \in {wifi, http} /\ Restart

PowerLoss == Restart

Next ==
    \/ accept
    \/ handle_client
    \/ \E p \in Packages : HttpStart(p)
    \/ ota_http_download
    \/ Reset
    \/ PowerLoss

\* The HTTP worker runs, and its socket operations time out; so does the
\* receive of handle_client (SO_RCVTIMEO), and the delays end.
Fairness ==
    /\ WF_vars(ota_http_download)
    /\ WF_vars(handle_client)
    /\ WF_vars(Reset)

Spec == Init /\ [][Next]_vars /\ Fairness
-----------------------------------------------------------------------------
(* Properties                                                              *)

WifiSteps == {"closed", "receive", "respond", "exit", "reboot", "delay"}

HttpSteps == {"idle", "begin", "progress", "read", "verify", "finish",
              "commit", "reboot", "exit", "delay"}

\* Every variable has its type; in particular the core never holds more
\* chunks than were announced, and HTTP never reads more.
TypeOK ==
    /\ state \in States
    /\ source \in {"none", "wifi", "http"}
    /\ size \in Nat
    /\ transfer \in Seq(Chunks)
    /\ state = "RECEIVING" => Len(transfer) <= size
    /\ upgrade \in Packages \cup {NoImage}
    /\ wifi \in WifiSteps
    /\ receiving \in BOOLEAN
    /\ reboot_flag \in BOOLEAN
    /\ reboot_after \in BOOLEAN
    /\ http \in HttpSteps
    /\ begun \in BOOLEAN
    /\ request \in Packages \cup {<<>>}
    /\ read \in Seq(Chunks)
    /\ Len(read) <= Len(request)
    /\ own_session \in BOOLEAN

\* An HTTP session is never left behind: whatever the other transport does to
\* the core meanwhile, RECEIVING from "http" means that ota_http_download is
\* still in progress and will abort it if it fails.
HttpSessionHasOwner == state = "RECEIVING" /\ source = "http" => begun

\* What ota_http_download commits in a session of its own is the package whose
\* SHA-256 the server announced, even if the CRC32 of another package
\* collides with it and a TCP client writes into the session.
HttpCommitsAnnounced ==
    [][http = "finish" /\ http' = "commit" /\ source = "http"
         => upgrade' = request]_vars

\* A TCP connection writes only into a session that it began itself: the
\* session an earlier connection left behind is not continued.
WifiSessionIsOwn ==
    receiving /\ state = "RECEIVING" /\ source = "wifi" => own_session

\* The core does not stay in RECEIVING for an HTTP download: each one ends in
\* a commit, an error or an abort, so the next transfer can begin.
HttpSessionEnds ==
    state = "RECEIVING" /\ source = "http"
        ~> ~(state = "RECEIVING" /\ source = "http")

\* README_EN.md: "If the connection closes unexpectedly, the device
\* automatically calls ABORT": a connection never closes while the session
\* that it began is still open.
ClosedConnectionAborts ==
    wifi = "closed" => ~(own_session /\ state = "RECEIVING")
-----------------------------------------------------------------------------
(* The inductive invariant behind the safety properties                    *)

InSession == {"progress", "read", "verify", "finish"}

\* What ota_http_download knows at each of its steps.
HttpInv ==
    /\ http \in InSession => begun
    /\ http \in InSession \cup {"begin"} => request \in Packages
    /\ begun => http \in InSession \cup {"exit"}
    /\ http = "begin" => read = <<>>
    /\ http = "read" => Len(read) < Len(request)
    /\ http = "finish" => read = request

\* As long as nobody else has written into its session, the core has received
\* just what the digest was computed over; a foreign chunk puts the core
\* ahead of it for good.
SessionInv ==
    state = "RECEIVING" /\ source = "http" /\ http \in InSession =>
        /\ size = Len(request)
        /\ Len(read) <= Len(transfer)
        /\ Len(transfer) = Len(read) => transfer = read

TInv ==
    /\ TypeOK
    /\ HttpSessionHasOwner
    /\ WifiSessionIsOwn
    /\ HttpInv
    /\ SessionInv
=============================================================================
