------------------------------ MODULE Weather ------------------------------
(***************************************************************************)
(* The Wi-Fi weather terminal: the application core of                     *)
(* applications/lv_wifi_weather/src (lv_wifi_weather.c, lvww_storage.c and *)
(* the handlers of lvww_ui.c that change its state) together with its      *)
(* RW007 back end, ports/rw007/lvww_rw007.c.                               *)
(*                                                                         *)
(* The LVGL thread runs the handlers and timers of the user interface and  *)
(* is the only one that touches its state.  It hands commands to two       *)
(* worker threads over bounded queues and gets their answers over one      *)
(* bounded event queue.  Every request carries an id; an answer counts     *)
(* only if the id is the one the user interface waits for.  The WLAN       *)
(* connects, drops and reconnects on its own, and reports a drop from a    *)
(* thread of its own.                                                      *)
(*                                                                         *)
(* Left out: wording, layout, toasts, signal strengths, temperatures, and  *)
(* the teardown (lvww_destroy, lvww_rw007_destroy), which the application  *)
(* never calls.  The key-value store of this back end is in RAM and is     *)
(* created with it, so lvww_create always finds it empty and starts with a *)
(* scan.  Time is abstract: a retry deadline is armed and later due, and   *)
(* the 30 minute and 6 hour refresh periods may be over at any moment.     *)
(***************************************************************************)
EXTENDS Naturals, Sequences, SequencesExt

CONSTANTS
    Credentials,   \* [ssid, right]: right says that the access point accepts
    Cities,
    FirstCity,     \* config->default_city
    Queries,       \* city queries of two or more characters
    Provided,      \* the operations of lvww_port_ops_t that are not null
    None,
    NetDepth,      \* LVWW_RW007_QUEUE_DEPTH
    CityDepth,     \* LVWW_RW007_CITY_QUEUE_DEPTH
    EventDepth,    \* LVWW_EVENT_QUEUE_DEPTH
    MaxProfiles,   \* LVWW_MAX_PROFILES
    MaxSteps       \* bound: what the user and the outside do in a behaviour

Ssids == {c.ssid : c \in Credentials}

ASSUME WeatherConstants ==
    /\ Credentials \subseteq [ssid : Ssids, right : BOOLEAN]
    /\ FirstCity \in Cities
    /\ None \notin Ssids \cup Cities \cup Queries \cup Credentials
    /\ "catalog" \notin Queries
    /\ {NetDepth, CityDepth, EventDepth, MaxProfiles} \subseteq Nat \ {0}
    /\ MaxSteps \in Nat

VARIABLES
    ui,       \* lvww_ctx_t, owned by the LVGL thread
    port,     \* the shared part of lvww_rw007_t
    worker,   \* the two worker threads
    events,   \* ctx->event_mq
    link,     \* the WLAN manager
    ghost,    \* history: what the properties need to remember
    spent     \* how many of the MaxSteps were taken

vars == <<ui, port, worker, events, link, ghost, spent>>

---------------------------------------------------------------------------
(* State *)

Ops     == {"scan", "connect", "disconnect", "city", "weather", "time"}
Timed   == {"weather", "time"}
Workers == {"net", "city"}

WifiStates == {"OFFLINE", "SCANNING", "CONNECTING", "ONLINE", "DISCONNECTING"}

(* Request ids are only compared for equality, and only with ids of the    *)
(* same operation; connecting and disconnecting share theirs.  An id that  *)
(* nothing refers to any more is as good as a new one, so finitely many    *)
(* stand for the 32-bit counter.  0 means no request, as in the code.      *)
Ids == 1 .. (NetDepth + CityDepth + EventDepth + 6)

SameIds(op) == IF op \in {"connect", "disconnect"} THEN {"connect", "disconnect"} ELSE {op}

Data == Credentials \cup Ssids \cup Cities \cup Queries \cup {None}

Commands == [op : Ops, id : Ids, data : Data]

EventTypes == {"RESULT", "ERROR", "CONNECTING", "ONLINE", "OFFLINE", "FIRMWARE"}

Events == [op : Ops \cup {"link"}, type : EventTypes, id : Ids \cup {0}, data : Data]

NoCommand == [op |-> "scan", id |-> 0, data |-> None]
NoEvent   == [op |-> "link", type |-> "FIRMWARE", id |-> 0, data |-> None]

WorkerOf(op) == IF op = "city" THEN "city" ELSE "net"

Depth(w) == IF w = "city" THEN CityDepth ELSE NetDepth

(* What a step of the LVGL thread may change: the context, and the back    *)
(* end through the operations it calls synchronously.                      *)
Here == [ui |-> ui, port |-> port]

Commit(s) == ui' = s.ui /\ port' = s.port

InUse(s, ops) ==
    LET Has(q) == {q[i].id : i \in {j \in 1 .. Len(q) : q[j].op \in ops}}
    IN  {s.ui.req[o] : o \in ops} \cup Has(events)
          \cup UNION {Has(s.port.queue[w]) \cup Has(<<worker[w].cmd>>) : w \in Workers}

NextRequest(s, op) == CHOOSE i \in Ids : i \notin InUse(s, SameIds(op))

---------------------------------------------------------------------------
(* The operations of the port, called in the LVGL thread *)

(* Mutant: an off-by-one at the end of a command queue.                    *)
HasRoomOneMore(s, op) == Len(s.port.queue[WorkerOf(op)]) <= Depth(WorkerOf(op))

HasRoom(s, op) == Len(s.port.queue[WorkerOf(op)]) < Depth(WorkerOf(op))

(* rw_send marks the request as the latest of its operation even if the    *)
(* queue then refuses it.                                                  *)
RwSend(s, op, id, data) ==
    [s EXCEPT
        !.port.latest[op] = id,
        !.port.cancelled[op] = 0,
        !.port.queue[WorkerOf(op)] =
            IF HasRoom(s, op)
            THEN Append(@, [op |-> op, id |-> id, data |-> data]) ELSE @]

RwCancel(s, op, id) == [s EXCEPT !.port.cancelled[op] = id]

(* rw_request_current, in the worker that holds the command.               *)
RequestCurrent(cmd) ==
    port.latest[cmd.op] = cmd.id /\ port.cancelled[cmd.op] # cmd.id

---------------------------------------------------------------------------
(* Requests of the core *)

(* Mutant: a scan is requested although one is outstanding.                *)
RequestScanAgain(s) ==
    LET id == NextRequest(s, "scan")
    IN  [RwSend(s, "scan", id, None) EXCEPT !.ui.req["scan"] = id]

RequestScan(s) ==
    LET id == NextRequest(s, "scan")
        t  == RwSend(s, "scan", id, None)
    IN  IF "scan" \notin Provided \/ s.ui.req["scan"] # 0 THEN s
        ELSE IF HasRoom(s, "scan")
        THEN [t EXCEPT !.ui.req["scan"] = id,
                       !.ui.wifi = IF @ = "ONLINE" THEN @ ELSE "SCANNING"]
        ELSE [t EXCEPT !.ui.wifi = "OFFLINE"]

RequestConnect(s, c) ==
    LET id == NextRequest(s, "connect")
        t  == RwSend(s, "connect", id, c)
    IN  IF "connect" \notin Provided \/ s.ui.req["connect"] # 0 THEN s
        ELSE IF HasRoom(s, "connect")
        THEN [t EXCEPT !.ui.req["connect"] = id, !.ui.pending = c,
                       !.ui.wifi = "CONNECTING"]
        ELSE [t EXCEPT !.ui.pending = None, !.ui.wifi = "OFFLINE"]

RequestDisconnect(s) ==
    LET id == NextRequest(s, "disconnect")
        t  == RwSend(s, "disconnect", id, None)
    IN  IF "disconnect" \notin Provided \/ s.ui.req["disconnect"] # 0 THEN s
        ELSE [t EXCEPT !.ui.req["disconnect"] =
                           IF HasRoom(s, "disconnect") THEN id ELSE 0,
                       !.ui.wifi = "DISCONNECTING"]

(* lvww_request_weather and lvww_request_time.                             *)
RequestTimed(s, op, data) ==
    LET id == NextRequest(s, op)
        t  == RwSend(s, op, id, data)
    IN  IF \/ op \notin Provided \/ s.ui.wifi # "ONLINE"
           \/ s.ui.req[op] # 0 \/ s.ui.wait[op] THEN s
        ELSE IF HasRoom(s, op)
        THEN [t EXCEPT !.ui.req[op] = id, !.ui.wait[op] = FALSE]
        ELSE [t EXCEPT !.ui.wait[op] = TRUE]

RequestTime(s)    == RequestTimed(s, "time", None)
RequestWeather(s) == RequestTimed(s, "weather", s.ui.city)

---------------------------------------------------------------------------
(* Stored profiles *)

(* lvww_find_profile, 0 if there is none.                                  *)
FindProfile(u, ssid) ==
    LET at == {i \in 1 .. Len(u.profiles) : u.profiles[i].ssid = ssid}
    IN  IF at = {} THEN 0 ELSE CHOOSE i \in at : \A j \in at : i <= j

(* With a full list the pending credentials are neither stored nor wiped.  *)
UpsertPendingProfile(u) ==
    LET at == FindProfile(u, u.pending.ssid)
    IN  IF u.pending = None THEN u
        ELSE IF at # 0
        THEN [u EXCEPT !.profiles[at] = u.pending, !.last = at, !.pending = None]
        ELSE IF Len(u.profiles) >= MaxProfiles THEN u
        ELSE [u EXCEPT !.profiles = Append(@, u.pending),
                       !.last = Len(u.profiles) + 1, !.pending = None]

(* Mutant: the index of the last network is not moved with the list.       *)
DeleteProfileOnly(u, i) ==
    [u EXCEPT !.profiles = RemoveAt(@, i), !.last = IF @ = i THEN 0 ELSE @]

(* The deletion in lvww_editor_delete_cb.                                  *)
DeleteProfile(u, i) ==
    [u EXCEPT !.profiles = RemoveAt(@, i),
              !.last = IF @ = i THEN 0 ELSE IF @ > i THEN @ - 1 ELSE @]

---------------------------------------------------------------------------
(* Events *)

(* Mutant: answers are taken without a look at their request id.           *)
EventCurrentAlways(u, e) == TRUE

EventCurrent(u, e) ==
    \/ e.id = 0
    \/ /\ e.type \in {"CONNECTING", "ONLINE", "OFFLINE"}
       /\ e.id \in {u.req["connect"], u.req["disconnect"]}
    \/ e.type \in {"RESULT", "ERROR"} /\ e.id = u.req[e.op]

NoLinkRequests(u) ==
    [u EXCEPT !.req = [@ EXCEPT !["connect"] = 0, !["disconnect"] = 0],
              !.wait = [o \in Timed |-> FALSE]]

HandleWifiState(s, e) ==
    CASE e.type = "ONLINE" ->
           LET u == [NoLinkRequests(UpsertPendingProfile(s.ui))
                        EXCEPT !.wifi = "ONLINE", !.connected = e.data]
           IN  RequestWeather(RequestTime([s EXCEPT !.ui = u]))
      [] e.type = "OFFLINE" ->
           [s EXCEPT !.ui = [NoLinkRequests(@) EXCEPT
                !.wifi = "OFFLINE", !.connected = None, !.pending = None]]
      [] OTHER -> [s EXCEPT !.ui.wifi = "CONNECTING"]

(* Mutant: a refused disconnection leaves its request open.                *)
HandleErrorDisconnecting(s, e) ==
    [s EXCEPT !.ui.req[e.op] = IF e.op = "disconnect" THEN @ ELSE 0,
              !.ui.wifi = IF e.op = "connect" THEN "OFFLINE" ELSE @,
              !.ui.wait = IF e.op \in Timed THEN [@ EXCEPT ![e.op] = TRUE] ELSE @]

HandleError(s, e) ==
    [s EXCEPT !.ui.req[e.op] = 0,
              !.ui.wifi = IF e.op = "connect" THEN "OFFLINE" ELSE @,
              !.ui.wait = IF e.op \in Timed THEN [@ EXCEPT ![e.op] = TRUE] ELSE @]

(* The results of the four requests that answer with data.                 *)
HandleResult(s, e) ==
    LET u == [s.ui EXCEPT !.req[e.op] = 0]
    IN  [s EXCEPT !.ui =
            CASE e.op = "scan"    -> [u EXCEPT !.wifi = IF @ = "SCANNING" THEN "OFFLINE" ELSE @]
              [] e.op = "city"    -> [u EXCEPT !.shown = e.data]
              [] e.op = "weather" -> [u EXCEPT !.weather = e.data, !.wait["weather"] = FALSE]
              [] OTHER            -> [u EXCEPT !.clock = TRUE, !.wait["time"] = FALSE]]

HandleEvent(s, e) ==
    IF ~EventCurrent(s.ui, e) \/ e.type = "FIRMWARE" THEN s
    ELSE CASE e.type = "RESULT" -> HandleResult(s, e)
           [] e.type = "ERROR"  -> HandleError(s, e)
           [] OTHER             -> HandleWifiState(s, e)

---------------------------------------------------------------------------
(* Initial state: lvww_rw007_create, then lvww_create with an empty store. *)
(* The shell may have connected the WLAN before.                           *)

FreshUi ==
    [wifi |-> "OFFLINE", req |-> [o \in Ops |-> 0],
     wait |-> [o \in Timed |-> FALSE],
     pending |-> None, connected |-> None, profiles |-> <<>>, last |-> 0,
     city |-> FirstCity, weather |-> None, clock |-> FALSE,
     input |-> None, searching |-> FALSE, shown |-> "catalog"]

FreshPort ==
    [latest |-> [o \in Ops |-> 0], cancelled |-> [o \in Ops |-> 0],
     queue |-> [w \in Workers |-> <<>>],
     bound |-> FALSE, disconnecting |-> FALSE]

Idle == [pc |-> "idle", cmd |-> NoCommand, event |-> NoEvent, after |-> "idle"]

Init ==
    /\ worker = [w \in Workers |-> Idle]
    /\ events = <<>>
    /\ \E up \in Ssids \cup {None} :
         link = [up |-> up, known |-> {up} \ {None}, auto |-> FALSE, report |-> "none"]
    /\ ghost = [reported |-> {}, saved |-> None, asked |-> None, lost |-> {}]
    /\ spent = 0
    /\ LET s == RequestScan([ui |-> FreshUi, port |-> FreshPort])
       IN  ui = s.ui /\ port = s.port

---------------------------------------------------------------------------
(* The event queue: lvww_post_event copies the event or returns an error.  *)

PostEvent(e) == events' = IF Len(events) < EventDepth THEN Append(events, e) ELSE events

(* An answer stays lost only until its request is given up.                *)
StillLost(s) == {op \in ghost.lost : s.ui.req[op] = ui.req[op]}

(* A step of the LVGL thread other than the pump.                          *)
UiStep(s) ==
    /\ port.bound
    /\ Commit(s)
    /\ ghost' = [ghost EXCEPT
          !.lost = StillLost(s),
          !.asked = IF s.ui.input = None THEN None
                    ELSE IF ui.searching /\ ~s.ui.searching THEN s.ui.input ELSE @]
    /\ UNCHANGED <<worker, events, link>>

(* lvww_rw007_bind, called right after lvww_create in the same thread.     *)
Bind ==
    /\ ~port.bound
    /\ port' = [port EXCEPT !.bound = TRUE]
    /\ IF link.up # None
       THEN PostEvent([op |-> "link", type |-> "ONLINE", id |-> 0, data |-> link.up])
       ELSE UNCHANGED events
    /\ UNCHANGED <<ui, worker, link, ghost>>

(* One event of lvww_pump_timer_cb.                                        *)
Pump ==
    /\ events # <<>>
    /\ port.bound
    /\ events' = Tail(events)
    /\ LET e == Head(events)
           s == HandleEvent(Here, e)
       IN  /\ Commit(s)
           /\ ghost' = [ghost EXCEPT
                 !.lost = StillLost(s),
                 !.saved = IF s.ui.profiles # ui.profiles \/ s.ui.last # ui.last
                           THEN ui.pending ELSE @]
    /\ UNCHANGED <<worker, link>>

(* lvww_clock_timer_cb; `due' are the requests whose refresh period is     *)
(* over.                                                                   *)
ClockTimer(due) ==
    /\ ui.wifi = "ONLINE"
    /\ LET t == IF ~ui.clock \/ "time" \in due THEN RequestTime(Here) ELSE Here
       IN  UiStep(IF ui.weather = None \/ "weather" \in due THEN RequestWeather(t) ELSE t)

(* Time passes: the deadline of lvww_retry_due is reached.                 *)
RetryDue(op) ==
    /\ ui.wait[op]
    /\ ui' = [ui EXCEPT !.wait[op] = FALSE]
    /\ UNCHANGED <<port, worker, events, link, ghost>>

(* The scan button, and opening the Wi-Fi page.                            *)
Scan == UiStep(RequestScan(Here))

(* lvww_editor_submit_cb; saved says that the editor was opened on a       *)
(* stored profile.  Typing takes longer than a period of the pump, so the  *)
(* event that lvww_rw007_bind posted at start has been handled.            *)
EditorSubmit(c, saved) ==
    /\ \A i \in 1 .. Len(events) : ~(events[i].op = "link" /\ events[i].type = "ONLINE")
    /\ saved => ui.profiles # <<>>
    /\ saved \/ FindProfile(ui, c.ssid) # 0 \/ Len(ui.profiles) < MaxProfiles
    /\ UiStep(RequestConnect(Here, c))

EditorDelete(i) ==
    /\ LET s == [Here EXCEPT !.ui = DeleteProfile(ui, i)]
       IN  UiStep(IF ui.wifi = "ONLINE" /\ ui.connected = ui.profiles[i].ssid
                  THEN RequestDisconnect(s) ELSE s)

Disconnect == UiStep(RequestDisconnect(Here))

CancelSearch(s) ==
    IF s.ui.req["city"] # 0 THEN RwCancel(s, "city", s.ui.req["city"]) ELSE s

(* lvww_city_input_cb: fewer than two characters give up the search and    *)
(* show the built-in cities, more restart the 500 ms timer.                *)
ShortInput ==
    UiStep([CancelSearch(Here) EXCEPT
                !.ui.req["city"] = 0, !.ui.input = None,
                !.ui.searching = FALSE, !.ui.shown = "catalog"])

Input(q) ==
    UiStep([Here EXCEPT !.ui.input = q, !.ui.searching = TRUE])

Search(s) ==
    LET cancelled == CancelSearch(s)
        id        == NextRequest(cancelled, "city")
    IN  [RwSend(cancelled, "city", id, s.ui.input) EXCEPT
            !.ui.searching = FALSE, !.ui.shown = None,
            !.ui.req["city"] = IF HasRoom(s, "city") THEN id ELSE 0]

(* lvww_search_timer_cb; the rows of the last search are removed.          *)
SearchTimer ==
    /\ ui.searching
    /\ UiStep(IF "city" \in Provided THEN Search(Here)
              ELSE [Here EXCEPT !.ui.searching = FALSE])

(* lvww_city_result_cb on a row of the list.                               *)
SelectCity(c) ==
    /\ ui.shown # None
    /\ UiStep(RequestWeather([Here EXCEPT !.ui.city = c, !.ui.weather = None]))

(* lvww_set_firmware_info, called by the threads of the remote controller. *)
FirmwareInfo ==
    /\ port.bound
    /\ Len(events) < EventDepth
    /\ PostEvent(NoEvent)
    /\ UNCHANGED <<ui, port, worker, link, ghost>>

---------------------------------------------------------------------------
(* The worker threads *)

Resume(w, pc) ==
    IF pc = "idle" THEN Idle ELSE [Idle EXCEPT !.pc = pc, !.cmd = worker[w].cmd]

(* rw_post and rw_post_error up to the call of lvww_post_event: the        *)
(* request may have been replaced or cancelled in the meantime, or there   *)
(* may be no context yet.  The worker goes on at `after'.                  *)
Answer(w, type, data, after) ==
    LET cmd == worker[w].cmd
        e   == [op |-> cmd.op, type |-> type, id |-> cmd.id, data |-> data]
    IN  worker' = [worker EXCEPT ![w] =
            IF RequestCurrent(cmd) /\ port.bound
            THEN [pc |-> "post", cmd |-> cmd, event |-> e, after |-> after]
            ELSE Resume(w, after)]

Net == worker["net"]

NetAt(pc, op) == Net.pc = pc /\ Net.cmd.op = op

(* The head of rw_worker_entry and rw_city_worker_entry.                   *)
Take(w) ==
    /\ worker[w].pc = "idle"
    /\ port.queue[w] # <<>>
    /\ LET cmd == Head(port.queue[w])
       IN  worker' = [worker EXCEPT ![w] =
               IF RequestCurrent(cmd) THEN [Idle EXCEPT !.pc = "do", !.cmd = cmd] ELSE Idle]
    /\ port' = [port EXCEPT !.queue[w] = Tail(@)]
    /\ UNCHANGED <<ui, events, link, ghost>>

DoScan ==
    /\ NetAt("do", "scan")
    /\ \E type \in {"RESULT", "ERROR"} : Answer("net", type, None, "idle")
    /\ ghost' = [ghost EXCEPT !.lost = IF port.bound THEN @ ELSE @ \cup {"scan"}]
    /\ UNCHANGED <<ui, port, events, link>>

(* rw_do_city, a search in the built-in and the stored city lists.         *)
DoCity ==
    /\ worker["city"].pc = "do"
    /\ Answer("city", "RESULT", worker["city"].cmd.data, "idle")
    /\ UNCHANGED <<ui, port, events, link, ghost>>

(* rw_do_weather and rw_do_time: an HTTP exchange, if there is a network.  *)
DoTimed ==
    /\ \E op \in Timed : NetAt("do", op)
    /\ \E type \in {"ERROR"} \cup (IF link.up # None THEN {"RESULT"} ELSE {}) :
         Answer("net", type, Net.cmd.data, "idle")
    /\ UNCHANGED <<ui, port, events, link, ghost>>

(* rw_do_connect announces itself, takes the retry policy from the WLAN    *)
(* manager and joins.                                                      *)
DoConnect ==
    /\ NetAt("do", "connect")
    /\ Answer("net", "CONNECTING", Net.cmd.data.ssid, "join")
    /\ UNCHANGED <<ui, port, events, link, ghost>>

(* rt_wlan_connect on the network the device is on already succeeds at     *)
(* once, without looking at the password.                                  *)
JoinSame ==
    /\ NetAt("join", "connect")
    /\ link.up = Net.cmd.data.ssid
    /\ Answer("net", "ONLINE", Net.cmd.data.ssid, "idle")
    /\ link' = [link EXCEPT !.auto = TRUE]
    /\ ghost' = [ghost EXCEPT !.reported = @ \cup {Net.cmd.data}]
    /\ UNCHANGED <<ui, port, events>>

(* It leaves any other network first.                                      *)
JoinOther ==
    /\ NetAt("join", "connect")
    /\ link.up # Net.cmd.data.ssid
    /\ worker' = [worker EXCEPT !["net"].pc = "associate"]
    /\ link' = [link EXCEPT !.auto = FALSE, !.up = None,
                            !.report = IF link.up # None THEN "pending" ELSE @]
    /\ UNCHANGED <<ui, port, events, ghost>>

JoinSucceeds ==
    /\ NetAt("associate", "connect")
    /\ Net.cmd.data.right
    /\ Answer("net", "ONLINE", Net.cmd.data.ssid, "idle")
    /\ link' = [link EXCEPT !.up = Net.cmd.data.ssid, !.auto = TRUE,
                            !.known = @ \cup {Net.cmd.data.ssid}]
    /\ ghost' = [ghost EXCEPT !.reported = @ \cup {Net.cmd.data}]
    /\ UNCHANGED <<ui, port, events>>

(* The access point refuses, or the network is not ready within 15 s; in   *)
(* the latter case it may become ready afterwards.                         *)
JoinFails ==
    /\ NetAt("associate", "connect")
    /\ Answer("net", "OFFLINE", None, "idle")
    /\ \/ UNCHANGED link
       \/ /\ Net.cmd.data.right
          /\ link' = [link EXCEPT !.up = Net.cmd.data.ssid,
                                  !.known = @ \cup {Net.cmd.data.ssid}]
    /\ UNCHANGED <<ui, port, events, ghost>>

(* rw_do_disconnect up to the return of rt_wlan_disconnect, and after it.  *)
Leave(type) ==
    /\ NetAt("do", "disconnect")
    /\ port' = [port EXCEPT !.disconnecting = TRUE]
    /\ link' = IF type = "OFFLINE"
               THEN [link EXCEPT !.auto = FALSE, !.up = None,
                        !.report = IF link.up # None THEN "pending" ELSE @]
               ELSE [link EXCEPT !.auto = FALSE]
    /\ worker' = [worker EXCEPT !["net"].pc = "left", !["net"].event.type = type]
    /\ UNCHANGED <<ui, events, ghost>>

LeaveEnd ==
    /\ NetAt("left", "disconnect")
    /\ port' = [port EXCEPT !.disconnecting = FALSE]
    /\ Answer("net", Net.event.type, None, "idle")
    /\ UNCHANGED <<ui, events, link, ghost>>

(* lvww_post_event; rw_post ignores its result.                            *)
Post(w) ==
    /\ worker[w].pc = "post"
    /\ PostEvent(worker[w].event)
    /\ worker' = [worker EXCEPT ![w] = Resume(w, worker[w].after)]
    /\ LET cmd == worker[w].cmd
       IN  ghost' = [ghost EXCEPT !.lost =
               IF /\ Len(events) >= EventDepth
                  /\ worker[w].after = "idle"
                  /\ ui.req[cmd.op] = cmd.id THEN @ \cup {cmd.op} ELSE @]
    /\ UNCHANGED <<ui, port, link>>

---------------------------------------------------------------------------
(* The WLAN manager *)

LinkDrops ==
    /\ link.up # None
    /\ link.report = "none"
    /\ link' = [link EXCEPT !.up = None, !.report = "pending"]
    /\ UNCHANGED <<ui, port, worker, events, ghost>>

(* rt_wlan_auto_connect_run goes through all saved configurations; the     *)
(* back end has no handler for its success.                                *)
LinkReconnects ==
    /\ link.auto
    /\ link.up = None
    /\ \E ssid \in link.known : link' = [link EXCEPT !.up = ssid]
    /\ UNCHANGED <<ui, port, worker, events, ghost>>

(* rw_disconnected_cb, which reads the flags and then posts.               *)
ReportStart ==
    /\ link.report = "pending"
    /\ link' = [link EXCEPT !.report =
                   IF port.disconnecting \/ ~port.bound THEN "none" ELSE "post"]
    /\ UNCHANGED <<ui, port, worker, events, ghost>>

ReportPost ==
    /\ link.report = "post"
    /\ link' = [link EXCEPT !.report = "none"]
    /\ PostEvent([op |-> "link", type |-> "OFFLINE", id |-> 0, data |-> None])
    /\ UNCHANGED <<ui, port, worker, ghost>>

---------------------------------------------------------------------------
(* Specification *)

NetWorker ==
    \/ Take("net") \/ DoScan \/ DoTimed
    \/ DoConnect \/ JoinSame \/ JoinOther \/ JoinSucceeds \/ JoinFails
    \/ Leave("OFFLINE") \/ Leave("ERROR") \/ LeaveEnd
    \/ Post("net")

CityWorker == Take("city") \/ DoCity \/ Post("city")

Timers ==
    \/ Bind \/ Pump \/ ClockTimer({}) \/ SearchTimer
    \/ \E op \in Timed : RetryDue(op)

User ==
    \/ Scan \/ Disconnect \/ ShortInput
    \/ \E c \in Credentials, saved \in BOOLEAN : EditorSubmit(c, saved)
    \/ \E i \in 1 .. Len(ui.profiles) : EditorDelete(i)
    \/ \E q \in Queries : Input(q)
    \/ \E c \in Cities : SelectCity(c)

Wlan == LinkReconnects \/ ReportStart \/ ReportPost

Unasked ==
    \/ LinkDrops \/ FirmwareInfo
    \/ \E due \in SUBSET Timed \ {{}} : ClockTimer(due)

Next ==
    \/ (NetWorker \/ CityWorker \/ Timers \/ Wlan) /\ UNCHANGED spent
    \/ (User \/ Unasked) /\ spent < MaxSteps /\ spent' = spent + 1

Spec == Init /\ [][Next]_vars

(* The worker threads, the LVGL timers and the WLAN work queue share the   *)
(* processor and none of them blocks for ever: every wait of a worker has  *)
(* a time limit.                                                           *)
LiveSpec ==
    /\ Spec
    /\ WF_vars(NetWorker /\ UNCHANGED spent)
    /\ WF_vars(CityWorker /\ UNCHANGED spent)
    /\ WF_vars((Bind \/ Pump \/ SearchTimer) /\ UNCHANGED spent)

---------------------------------------------------------------------------
(* Properties *)

UiType ==
    [wifi : WifiStates, req : [Ops -> Ids \cup {0}], wait : [Timed -> BOOLEAN],
     pending : Credentials \cup {None}, connected : Ssids \cup {None},
     profiles : Seq(Credentials), last : 0 .. MaxProfiles,
     city : Cities, weather : Cities \cup {None}, clock : BOOLEAN,
     input : Queries \cup {None}, searching : BOOLEAN,
     shown : Queries \cup {"catalog", None}]

PortType ==
    [latest : [Ops -> Ids \cup {0}], cancelled : [Ops -> Ids \cup {0}],
     queue : [Workers -> Seq(Commands)], bound : BOOLEAN, disconnecting : BOOLEAN]

WorkerType ==
    [pc : {"idle", "do", "join", "associate", "left", "post"},
     cmd : Commands \cup {NoCommand}, event : Events, after : {"idle", "join"}]

LinkType ==
    [up : Ssids \cup {None}, known : SUBSET Ssids, auto : BOOLEAN,
     report : {"none", "pending", "post"}]

GhostType ==
    [reported : SUBSET Credentials, saved : Credentials \cup {None},
     asked : Queries \cup {None}, lost : SUBSET Ops]

(* Every part of the state has its type, and no queue and no list of       *)
(* profiles ever holds more than the code gives it room for.               *)
TypeOK ==
    /\ ui \in UiType
    /\ Len(ui.profiles) <= MaxProfiles
    /\ port \in PortType
    /\ \A w \in Workers : Len(port.queue[w]) <= Depth(w)
    /\ worker \in [Workers -> WorkerType]
    /\ events \in Seq(Events) /\ Len(events) <= EventDepth
    /\ link \in LinkType
    /\ ghost \in GhostType
    /\ spent \in 0 .. MaxSteps

(* Where an operation is under way: in the command queue of its worker, in *)
(* the worker itself, or as an answer that was not handled yet.            *)
Places(op) ==
    LET w     == WorkerOf(op)
        At(q) == {i \in 1 .. Len(q) : q[i].op = op}
    IN  ({"queue"} \X At(port.queue[w])) \cup ({"event"} \X At(events))
          \cup (IF worker[w].pc # "idle" /\ worker[w].cmd.op = op
                THEN {<<"worker", 0>>} ELSE {})

(* However fast the user taps, the timers fire and the WLAN comes and      *)
(* goes, there are never two scans, weather requests or time requests      *)
(* under way at once (TESTING.md:40), lost answers included.               *)
OneInFlight == \A op \in {"scan", "weather", "time"} : \A x, y \in Places(op) : x = y

(* The page says "connecting" only while a connect request is open that    *)
(* will end it: a CONNECTING event of a worker that comes after a drop,    *)
(* a disconnection or the next request must not bring the state back.      *)
ConnectingIsPending == ui.wifi = "CONNECTING" => ui.req["connect"] # 0

(* The candidates on the city page answer the last query sent, never an    *)
(* earlier one that was replaced or cancelled while its answer was on the  *)
(* way (TESTING.md:30).                                                    *)
CandidatesAreLatest == ui.shown \in Queries => ui.shown = ghost.asked

(* Every stored profile holds the credentials of a connect command for     *)
(* which rt_wlan_connect itself has reported success: the pending ones of  *)
(* a later attempt are not stored on the ONLINE event of an earlier one,   *)
(* nor after a drop, a disconnection or a failure.  For the network in use *)
(* that success says nothing about the password, see WrongPasswordRefused. *)
SavedWasReported ==
    \A i \in 1 .. Len(ui.profiles) : ui.profiles[i] \in ghost.reported

(* TESTING.md:22 has a wrong password refused and a right one stored, and  *)
(* the comment at lvww_rw007.c:768 speaks of new credentials that "have    *)
(* connected successfully".  It does not hold: rt_wlan_connect returns OK  *)
(* for the network in use without looking at the password.                 *)
WrongPasswordRefused ==
    \A i \in 1 .. Len(ui.profiles) : ui.profiles[i].right

(* last_success, the network of the automatic connection, is the profile   *)
(* that was stored last, however the list was edited since (TESTING.md:24).*)
LastIsSaved ==
    ui.last # 0 => ui.last <= Len(ui.profiles) /\ ui.profiles[ui.last] = ghost.saved

(* Every request of the user interface ends: it is answered, or given up   *)
(* with the link.  The one exception is an answer that was dropped because *)
(* the event queue was full or the context not bound yet; its request      *)
(* stays open.                                                             *)
Answered ==
    \A op \in Provided : ui.req[op] # 0 ~> (ui.req[op] = 0 \/ op \in ghost.lost)

(* The weather on the home page is that of the selected city (TESTING.md:  *)
(* 34 says that the late answer for the previous city does not replace     *)
(* the result for the new one).  It does not hold: lvww_city_result_cb     *)
(* keeps weather_request_id, so the late answer counts as current.         *)
WeatherIsForCity == ui.weather \in {None, ui.city}
=============================================================================
