--------------------------- MODULE WeatherProofs ---------------------------
(***************************************************************************)
(* Proofs about Weather for any networks, cities and queries, any depth of *)
(* the three queues and any number of steps of the user and the WLAN.      *)
(***************************************************************************)
EXTENDS Weather, SequenceTheorems, FiniteSetTheorems, WellFoundedInduction, TLAPS

(* TypeOK is RestType together with the types of ui and port, in Good.     *)
RestType ==
    /\ worker \in [Workers -> WorkerType]
    /\ events \in Seq(Events) /\ Len(events) <= EventDepth
    /\ link \in LinkType /\ ghost \in GhostType /\ spent \in 0 .. MaxSteps

(* A state of the LVGL thread, as Here and the request operators give it.  *)
UiStates == [ui : UiType, port : PortType]

Fits(s) ==
    /\ Len(s.ui.profiles) <= MaxProfiles
    /\ \A w \in Workers : Len(s.port.queue[w]) <= Depth(w)

-----------------------------------------------------------------------------
(* Queues and request ids *)

\* The depths of the queues, one by one.
LEMMA Depths ==
    /\ NetDepth \in Nat \ {0} /\ CityDepth \in Nat \ {0}
    /\ EventDepth \in Nat \ {0} /\ MaxProfiles \in Nat \ {0} /\ MaxSteps \in Nat
    /\ Depth("net") = NetDepth /\ Depth("city") = CityDepth
    /\ \A w \in Workers : Depth(w) \in Nat \ {0}
BY WeatherConstants DEF Depth, Workers

\* What Append does to a queue.
LEMMA AppendQueue ==
    ASSUME NEW S, NEW q \in Seq(S), NEW x \in S
    PROVE  /\ Append(q, x) \in Seq(S)
           /\ Len(Append(q, x)) = Len(q) + 1
           /\ \A i \in 1..Len(q) : Append(q, x)[i] = q[i]
           /\ Append(q, x)[Len(q) + 1] = x
BY AppendProperties

\* What taking the head does to a queue.
LEMMA TailQueue ==
    ASSUME NEW S, NEW q \in Seq(S), q # <<>>
    PROVE  /\ Len(q) \in Nat \ {0}
           /\ Head(q) = q[1] /\ Head(q) \in S
           /\ Tail(q) \in Seq(S)
           /\ Len(Tail(q)) = Len(q) - 1
           /\ \A i \in 1..Len(Tail(q)) : Tail(q)[i] = q[i + 1]
BY HeadTailProperties, EmptySeq, LenProperties

IdsOf(q, ops) == {q[i].id : i \in {j \in 1 .. Len(q) : q[j].op \in ops}}

\* A queue holds no more ids than messages.
LEMMA IdsOfQueue ==
    ASSUME NEW S, NEW q \in Seq(S), NEW ops
    PROVE  IsFiniteSet(IdsOf(q, ops)) /\ Cardinality(IdsOf(q, ops)) <= Len(q)
<1> DEFINE D == {j \in 1 .. Len(q) : q[j].op \in ops}
           f == [i \in D |-> q[i].id]
<1>1. Len(q) \in Nat
  BY LenProperties
<1>2. IsFiniteSet(1 .. Len(q)) /\ Cardinality(1 .. Len(q)) = Len(q)
  BY <1>1, FS_Interval
<1>3. IsFiniteSet(D) /\ Cardinality(D) <= Len(q) /\ Cardinality(D) \in Nat
  <2>1. D \in SUBSET (1 .. Len(q))
    OBVIOUS
  <2> HIDE DEF D
  <2> QED
    BY <1>2, <2>1, FS_Subset, FS_CardinalityType
<1>4. f \in Surjection(D, IdsOf(q, ops))
  BY DEF Surjection, IdsOf
<1> HIDE DEF D, f
<1>5. IsFiniteSet(IdsOf(q, ops)) /\ Cardinality(IdsOf(q, ops)) <= Cardinality(D)
  BY <1>3, <1>4, FS_Surjection
<1> QED
  BY <1>1, <1>3, <1>5, FS_CardinalityType

\* The size of a union.
LEMMA UnionSize ==
    ASSUME NEW S, NEW T, NEW m \in Nat, NEW n \in Nat,
           IsFiniteSet(S), Cardinality(S) <= m, IsFiniteSet(T), Cardinality(T) <= n
    PROVE  IsFiniteSet(S \cup T) /\ Cardinality(S \cup T) <= m + n
<1>1. IsFiniteSet(S \cap T)
  BY FS_Intersection
<1>2. Cardinality(S) \in Nat /\ Cardinality(T) \in Nat /\ Cardinality(S \cap T) \in Nat
  BY <1>1, FS_CardinalityType
<1>3. /\ IsFiniteSet(S \cup T)
      /\ Cardinality(S \cup T) = Cardinality(S) + Cardinality(T) - Cardinality(S \cap T)
  BY FS_Union
<1> QED
  BY <1>2, <1>3

\* What InUse collects.
LEMMA InUseParts ==
    ASSUME NEW s, NEW ops
    PROVE  InUse(s, ops) =
             {s.ui.req[o] : o \in ops} \cup IdsOf(events, ops)
               \cup IdsOf(s.port.queue["net"], ops) \cup IdsOf(<<worker["net"].cmd>>, ops)
               \cup IdsOf(s.port.queue["city"], ops) \cup IdsOf(<<worker["city"].cmd>>, ops)
BY DEF InUse, IdsOf, Workers

\* There is always an id that no request of the kind uses.
LEMMA IdFree ==
    ASSUME RestType, NEW s \in UiStates, Fits(s), NEW op \in Ops
    PROVE  \E i \in Ids : i \notin InUse(s, SameIds(op))
<1> DEFINE ops == SameIds(op)
           R == {s.ui.req[o] : o \in ops}
           n == NetDepth + CityDepth + EventDepth + 4
<1>1. IsFiniteSet(R) /\ Cardinality(R) <= 2
  <2>1. PICK a, b : ops = {a, b}
    BY DEF SameIds
  <2>2. R = {s.ui.req[a]} \cup {s.ui.req[b]}
    BY <2>1
  <2>3. ASSUME NEW x PROVE IsFiniteSet({x}) /\ Cardinality({x}) <= 1
    <3>1. IsFiniteSet({x}) /\ Cardinality({x}) = 1
      BY FS_Singleton, Zenon
    <3> HIDE DEF R, ops
    <3> QED
      BY ONLY <3>1
  <2> HIDE DEF R
  <2>4. IsFiniteSet(R) /\ Cardinality(R) <= 1 + 1
    BY <2>2, <2>3, UnionSize
  <2> QED
    BY <2>4
<1> HIDE DEF R, ops
<1>2. IsFiniteSet(IdsOf(events, ops)) /\ Cardinality(IdsOf(events, ops)) <= EventDepth
  BY IdsOfQueue, LenProperties, FS_CardinalityType, Depths DEF RestType
<1>3. ASSUME NEW w \in Workers
      PROVE  /\ IsFiniteSet(IdsOf(s.port.queue[w], ops))
             /\ Cardinality(IdsOf(s.port.queue[w], ops)) <= Depth(w)
             /\ IsFiniteSet(IdsOf(<<worker[w].cmd>>, ops))
             /\ Cardinality(IdsOf(<<worker[w].cmd>>, ops)) <= 1
  <2>1. s.port.queue[w] \in Seq(Commands) /\ Len(s.port.queue[w]) <= Depth(w)
    BY <1>3 DEF UiStates, PortType, Fits
  <2>2. <<worker[w].cmd>> \in Seq({worker[w].cmd}) /\ Len(<<worker[w].cmd>>) = 1
    OBVIOUS
  <2>3. /\ IsFiniteSet(IdsOf(s.port.queue[w], ops))
        /\ Cardinality(IdsOf(s.port.queue[w], ops)) <= Len(s.port.queue[w])
    BY <2>1, IdsOfQueue
  <2>4. /\ Cardinality(IdsOf(s.port.queue[w], ops)) \in Nat
        /\ Len(s.port.queue[w]) \in Nat /\ Depth(w) \in Nat
    BY <1>3, <2>1, <2>3, FS_CardinalityType, LenProperties, Depths
  <2>5. Cardinality(IdsOf(s.port.queue[w], ops)) <= Depth(w)
    BY <2>1, <2>3, <2>4
  <2>6. /\ IsFiniteSet(IdsOf(<<worker[w].cmd>>, ops))
        /\ Cardinality(IdsOf(<<worker[w].cmd>>, ops)) <= 1
    BY <2>2, IdsOfQueue
  <2> QED
    BY <2>3, <2>5, <2>6
<1> DEFINE A == R \cup IdsOf(events, ops)
           B == A \cup IdsOf(s.port.queue["net"], ops)
           C == B \cup IdsOf(<<worker["net"].cmd>>, ops)
           D == C \cup IdsOf(s.port.queue["city"], ops)
           E == D \cup IdsOf(<<worker["city"].cmd>>, ops)
<1>4. "net" \in Workers /\ "city" \in Workers
  BY DEF Workers
<1>5. IsFiniteSet(A) /\ Cardinality(A) <= 2 + EventDepth
  BY <1>1, <1>2, UnionSize, Depths
<1> HIDE DEF A
<1>6. IsFiniteSet(B) /\ Cardinality(B) <= (2 + EventDepth) + NetDepth
  <2>1. /\ IsFiniteSet(IdsOf(s.port.queue["net"], ops))
        /\ Cardinality(IdsOf(s.port.queue["net"], ops)) <= NetDepth
        /\ 2 + EventDepth \in Nat /\ NetDepth \in Nat
    <3>1. Depth("net") = NetDepth /\ EventDepth \in Nat /\ NetDepth \in Nat /\ CityDepth \in Nat
      BY Depths
    <3>2. /\ IsFiniteSet(IdsOf(s.port.queue["net"], ops))
          /\ Cardinality(IdsOf(s.port.queue["net"], ops)) <= Depth("net")
      BY <1>3, <1>4, Zenon
    <3> QED
      BY <3>1, <3>2
  <2> QED
    BY <1>5, <2>1, UnionSize
<1> HIDE DEF B
<1>7. IsFiniteSet(C) /\ Cardinality(C) <= ((2 + EventDepth) + NetDepth) + 1
  <2>1. /\ IsFiniteSet(IdsOf(<<worker["net"].cmd>>, ops))
        /\ Cardinality(IdsOf(<<worker["net"].cmd>>, ops)) <= 1
    BY <1>3, <1>4
  <2>2. (2 + EventDepth) + NetDepth \in Nat /\ 1 \in Nat
    BY Depths
  <2> QED
    BY <1>6, <2>1, <2>2, UnionSize
<1> HIDE DEF C
<1>8. IsFiniteSet(D) /\ Cardinality(D) <= (((2 + EventDepth) + NetDepth) + 1) + CityDepth
  <2>1. /\ IsFiniteSet(IdsOf(s.port.queue["city"], ops))
        /\ Cardinality(IdsOf(s.port.queue["city"], ops)) <= CityDepth
        /\ ((2 + EventDepth) + NetDepth) + 1 \in Nat /\ CityDepth \in Nat
    <3>1. Depth("city") = CityDepth /\ EventDepth \in Nat /\ NetDepth \in Nat /\ CityDepth \in Nat
      BY Depths
    <3>2. /\ IsFiniteSet(IdsOf(s.port.queue["city"], ops))
          /\ Cardinality(IdsOf(s.port.queue["city"], ops)) <= Depth("city")
      BY <1>3, <1>4, Zenon
    <3> QED
      BY <3>1, <3>2
  <2> QED
    BY <1>7, <2>1, UnionSize
<1> HIDE DEF D
<1>9. IsFiniteSet(E) /\ Cardinality(E) <= ((((2 + EventDepth) + NetDepth) + 1) + CityDepth) + 1
  <2>1. /\ IsFiniteSet(IdsOf(<<worker["city"].cmd>>, ops))
        /\ Cardinality(IdsOf(<<worker["city"].cmd>>, ops)) <= 1
    BY <1>3, <1>4
  <2>2. (((2 + EventDepth) + NetDepth) + 1) + CityDepth \in Nat /\ 1 \in Nat
    BY Depths
  <2> QED
    BY <1>8, <2>1, <2>2, UnionSize
<1>10. E = InUse(s, ops)
  BY InUseParts DEF A, B, C, D, R
<1> HIDE DEF E
<1>11. Cardinality(Ids) = NetDepth + CityDepth + EventDepth + 6
  BY FS_Interval, Depths DEF Ids
<1>12. ~(Ids \subseteq E)
  <2>1. SUFFICES ASSUME Ids \subseteq E PROVE FALSE
    OBVIOUS
  <2>2. Cardinality(Ids) <= Cardinality(E)
    BY <1>9, <2>1, FS_Subset
  <2> QED
    BY <1>9, <1>11, <2>2, FS_CardinalityType, Depths
<1> QED
  BY <1>10, <1>12 DEF ops

\* A new request id is the id of nothing that is under way.
LEMMA RequestIdFresh ==
    ASSUME RestType, NEW s \in UiStates, Fits(s), NEW op \in Ops
    PROVE  LET id == NextRequest(s, op) IN
           /\ id \in Ids /\ id # 0
           /\ \A o \in SameIds(op) : s.ui.req[o] # id
           /\ \A i \in 1 .. Len(events) : events[i].op \in SameIds(op) => events[i].id # id
           /\ \A w \in Workers :
                /\ worker[w].cmd.op \in SameIds(op) => worker[w].cmd.id # id
                /\ \A i \in 1 .. Len(s.port.queue[w]) :
                     s.port.queue[w][i].op \in SameIds(op) => s.port.queue[w][i].id # id
<1> DEFINE id == NextRequest(s, op)
           ops == SameIds(op)
<1>1. id \in Ids /\ id \notin InUse(s, ops)
  BY IdFree DEF NextRequest
<1>2. id # 0
  BY <1>1 DEF Ids
<1> HIDE DEF id, ops
<1>3. /\ id \notin {s.ui.req[o] : o \in ops} /\ id \notin IdsOf(events, ops)
      /\ \A w \in Workers : /\ id \notin IdsOf(s.port.queue[w], ops)
                            /\ id \notin IdsOf(<<worker[w].cmd>>, ops)
  BY <1>1, InUseParts DEF Workers
<1>4. \A i \in 1 .. Len(events) : events[i].op \in ops => events[i].id # id
  BY <1>3 DEF IdsOf
<1>5. ASSUME NEW w \in Workers
      PROVE  /\ worker[w].cmd.op \in ops => worker[w].cmd.id # id
             /\ \A i \in 1 .. Len(s.port.queue[w]) :
                  s.port.queue[w][i].op \in ops => s.port.queue[w][i].id # id
  <2>1. Len(<<worker[w].cmd>>) = 1 /\ <<worker[w].cmd>>[1] = worker[w].cmd
    OBVIOUS
  <2>2. worker[w].cmd.op \in ops => worker[w].cmd.id \in IdsOf(<<worker[w].cmd>>, ops)
    BY <2>1 DEF IdsOf
  <2> QED
    BY <1>3, <1>5, <2>2 DEF IdsOf
<1> QED
  BY <1>1, <1>2, <1>3, <1>4, <1>5 DEF id, ops

-----------------------------------------------------------------------------
(* The inductive invariant                                                 *)
(*                                                                         *)
(* What a message may say depends on the requests of the user interface:   *)
(* a message whose id is still waited for carries what was asked for last. *)
(* The parts take the state they speak of as parameters, because a step of *)
(* the LVGL thread makes several requests one after the other, and the     *)
(* pump has taken an event from the queue when it makes them.  u is the    *)
(* context, q a command queue, evs the event queue, wk the workers and g   *)
(* the history.                                                            *)

\* A command: the credentials and the query of a current request are the latest ones.
CmdOK(c, u, g) ==
    /\ c.op = "connect" =>
         /\ c.data \in Credentials
         /\ c.id # u.req["disconnect"]
         /\ c.id = u.req["connect"] => c.data = u.pending
    /\ c.op = "city" =>
         /\ "city" \in Provided
         /\ c.data \in Queries
         /\ c.id = u.req["city"] => c.data = g.asked
    /\ c.op = "weather" => c.data \in Cities

\* An answer, or what the WLAN reports on its own.
EvOK(e, u, g) ==
    /\ e.id = 0 <=> e.op = "link"
    /\ e.type = "ONLINE" => e.data \in Ssids
    /\ e.op = "link" =>
         /\ e.type \in {"ONLINE", "OFFLINE", "FIRMWARE"}
         /\ e.type = "ONLINE" => u.pending = None
    /\ e.op = "connect" =>
         /\ e.type \in {"CONNECTING", "ONLINE", "OFFLINE"}
         /\ e.id # u.req["disconnect"]
         /\ e.type = "ONLINE" /\ e.id = u.req["connect"] => u.pending \in g.reported
    /\ e.op = "disconnect" => e.type \in {"OFFLINE", "ERROR"}
    /\ e.op = "city" =>
         /\ "city" \in Provided
         /\ e.type = "RESULT" /\ e.data \in Queries
         /\ e.id = u.req["city"] => e.data = g.asked
    /\ e.op \in {"scan", "weather", "time"} => e.type \in {"RESULT", "ERROR"}
    /\ e.op = "weather" /\ e.type = "RESULT" => e.data \in Cities

CmdsOK(q, u, g) ==
    \A w \in Workers : \A i \in 1 .. Len(q[w]) :
        WorkerOf(q[w][i].op) = w /\ CmdOK(q[w][i], u, g)

EvsOK(evs, u, g) == \A i \in 1 .. Len(evs) : EvOK(evs[i], u, g)

WorkerOK(x, w, u, g) ==
    /\ x.pc # "idle" =>
         x.cmd \in Commands /\ WorkerOf(x.cmd.op) = w /\ CmdOK(x.cmd, u, g)
    /\ x.pc = "post" =>
         /\ x.event.op = x.cmd.op /\ x.event.id = x.cmd.id
         /\ EvOK(x.event, u, g)
         /\ x.after = "join" => x.cmd.op = "connect"
    /\ x.pc = "left" => x.event.type \in {"OFFLINE", "ERROR"}

WorkersOK(wk, u, g) == \A w \in Workers : WorkerOK(wk[w], w, u, g)

\* The context itself.
UiOK(s, g) ==
    /\ s.ui.wifi = "CONNECTING" => s.ui.req["connect"] # 0
    /\ ~s.port.bound => s.ui.pending = None
    /\ \A i \in 1 .. Len(s.ui.profiles) : s.ui.profiles[i] \in g.reported
    /\ s.ui.input = None => g.asked = None
    /\ s.ui.searching => s.ui.input # None
    /\ s.ui.shown \in Queries => s.ui.shown = g.asked /\ "city" \in Provided

LastOK(u, g) == u.last # 0 => u.last <= Len(u.profiles) /\ u.profiles[u.last] = g.saved

\* The operations of which one is under way at a time.
OneAtATime == {"scan", "weather", "time"}

Of(q, op) == {i \in 1 .. Len(q) : q[i].op = op}

Busy(wk, op) == wk["net"].pc # "idle" /\ wk["net"].cmd.op = op

Single(u, q, evs, wk, op) ==
    /\ \A i, j \in Of(q, op) : i = j
    /\ \A i, j \in Of(evs, op) : i = j
    /\ Of(q, op) = {} \/ Of(evs, op) = {}
    /\ Busy(wk, op) => Of(q, op) = {} /\ Of(evs, op) = {}
    /\ u.req[op] = 0 => ~Busy(wk, op) /\ Of(q, op) = {} /\ Of(evs, op) = {}

Good(s, evs, wk, g) ==
    /\ s \in UiStates /\ Fits(s)
    /\ CmdsOK(s.port.queue, s.ui, g)
    /\ EvsOK(evs, s.ui, g)
    /\ WorkersOK(wk, s.ui, g)
    /\ UiOK(s, g)
    /\ \A op \in OneAtATime : Single(s.ui, s.port.queue["net"], evs, wk, op)

IInv ==
    /\ RestType
    /\ Good(Here, events, worker, ghost)
    /\ LastOK(ui, ghost)

-----------------------------------------------------------------------------
(* The operations of the port *)

\* The parts of a state of the LVGL thread.
LEMMA StateParts ==
    ASSUME NEW s \in UiStates
    PROVE  /\ s.ui \in UiType /\ s.port \in PortType
           /\ s = [ui |-> s.ui, port |-> s.port]
BY DEF UiStates

\* Each operation has one worker.
LEMMA OpWorker ==
    ASSUME NEW op \in Ops
    PROVE  /\ WorkerOf(op) \in Workers
           /\ WorkerOf(op) = "city" <=> op = "city"
           /\ WorkerOf(op) = "net" <=> op # "city"
BY DEF WorkerOf, Workers, Ops

\* rw_send appends the command to the queue of its worker if there is room, and touches
\* neither the context nor any other queue.
LEMMA SendFields ==
    ASSUME NEW s \in UiStates, Fits(s), NEW op \in Ops, NEW id \in Ids, NEW data \in Data
    PROVE  LET t == RwSend(s, op, id, data)
               w == WorkerOf(op)
               c == [op |-> op, id |-> id, data |-> data]
           IN  /\ t \in UiStates /\ Fits(t)
               /\ t.ui = s.ui /\ t.port.bound = s.port.bound
               /\ \A v \in Workers : v # w => t.port.queue[v] = s.port.queue[v]
               /\ t.port.queue[w] =
                    IF HasRoom(s, op) THEN Append(s.port.queue[w], c) ELSE s.port.queue[w]
<1> DEFINE t == RwSend(s, op, id, data)
           w == WorkerOf(op)
           c == [op |-> op, id |-> id, data |-> data]
           q == IF HasRoom(s, op) THEN Append(s.port.queue[w], c) ELSE s.port.queue[w]
<1>1. s.ui \in UiType /\ s.port \in PortType
  BY StateParts
<1>2. w \in Workers
  BY OpWorker
<1>3. c \in Commands
  BY DEF Commands
<1>4. s.port.queue[w] \in Seq(Commands) /\ Len(s.port.queue[w]) <= Depth(w) /\ Depth(w) \in Nat
  BY <1>1, <1>2, Depths DEF PortType, Fits
<1>5. q \in Seq(Commands) /\ Len(q) <= Depth(w)
  <2>1. CASE HasRoom(s, op)
    <3>1. Append(s.port.queue[w], c) \in Seq(Commands)
          /\ Len(Append(s.port.queue[w], c)) = Len(s.port.queue[w]) + 1
      BY <1>3, <1>4, AppendQueue
    <3>2. Len(s.port.queue[w]) < Depth(w) /\ Len(s.port.queue[w]) \in Nat
      BY <1>4, <2>1, LenProperties DEF HasRoom
    <3> QED
      BY <1>4, <2>1, <3>1, <3>2
  <2>2. CASE ~HasRoom(s, op)
    BY <1>4, <2>2
  <2> QED
    BY <2>1, <2>2
<1> HIDE DEF q, c
<1> DEFINE p == [s.port EXCEPT !.latest[op] = id, !.cancelled[op] = 0, !.queue[w] = q]
<1>6. t = [s EXCEPT !.port = p]
  BY <1>1 DEF RwSend, UiStates, PortType, q, c
<1>7. /\ p \in PortType
      /\ p.queue = [s.port.queue EXCEPT ![w] = q]
      /\ p.bound = s.port.bound
  BY <1>1, <1>2, <1>5 DEF PortType
<1> HIDE DEF p, t, w
<1>8. t \in UiStates /\ t.ui = s.ui /\ t.port = p
  BY <1>1, <1>6, <1>7 DEF UiStates
<1>9. /\ t.port.queue[w] = q
      /\ \A v \in Workers : v # w => t.port.queue[v] = s.port.queue[v]
  BY <1>1, <1>2, <1>7, <1>8 DEF PortType
<1>10. Fits(t)
  BY <1>1, <1>5, <1>8, <1>9 DEF Fits
<1> QED
  BY <1>7, <1>8, <1>9, <1>10 DEF q, c, t, w

-----------------------------------------------------------------------------
(* Messages when the requests change *)

\* The requests move on from u to v and the history from g to h: a request stays as it is,
\* is given up, or is n (connecting and disconnecting) or k (the city search).
Moves(u, g, v, h, n, k) ==
    /\ g.reported \subseteq h.reported
    /\ \/ v.req["connect"] = u.req["connect"] /\ v.pending = u.pending
       \/ v.req["connect"] \in {0, n}
    /\ v.req["disconnect"] \in {u.req["disconnect"], 0, n}
    /\ \/ v.req["city"] = u.req["city"] /\ h.asked = g.asked
       \/ v.req["city"] \in {0, k}

Apart(m, n, k) ==
    /\ m.op = "connect" => m.id # n
    /\ m.op = "city" => m.id # k

NewTo(q, evs, wk, n, k) ==
    /\ \A w \in Workers : \A i \in 1 .. Len(q[w]) : Apart(q[w][i], n, k)
    /\ \A i \in 1 .. Len(evs) : Apart(evs[i], n, k)
    /\ \A w \in Workers : wk[w].pc # "idle" => Apart(wk[w].cmd, n, k)

LinkOnline(e) == e.op = "link" /\ e.type = "ONLINE"

NoLinkOnline(evs) == \A i \in 1 .. Len(evs) : ~LinkOnline(evs[i])

\* A command stays right when the requests move on.
LEMMA CmdKept ==
    ASSUME NEW c, NEW u, NEW g, NEW v, NEW h, NEW n, NEW k,
           CmdOK(c, u, g), c.id # 0, Moves(u, g, v, h, n, k), Apart(c, n, k)
    PROVE  CmdOK(c, v, h)
BY DEF CmdOK, Moves, Apart

\* So does an event, unless it is the first ONLINE event and credentials become pending.
LEMMA EvKept ==
    ASSUME NEW e, NEW u, NEW g, NEW v, NEW h, NEW n, NEW k,
           EvOK(e, u, g), Moves(u, g, v, h, n, k), Apart(e, n, k),
           LinkOnline(e) => (u.pending = None => v.pending = None)
    PROVE  EvOK(e, v, h)
BY DEF EvOK, Moves, Apart, LinkOnline

\* 0 is the id of no command.
LEMMA NoneIsNew ==
    ASSUME NEW q \in [Workers -> Seq(Commands)], NEW evs, NEW wk, NEW u, NEW g,
           EvsOK(evs, u, g), WorkersOK(wk, u, g)
    PROVE  NewTo(q, evs, wk, 0, 0)
<1>1. \A c \in Commands : c.id # 0
  BY DEF Commands, Ids
<1>2. \A w \in Workers : \A i \in 1 .. Len(q[w]) : q[w][i] \in Commands
  BY ElementOfSeq
<1>3. \A w \in Workers : \A i \in 1 .. Len(q[w]) : Apart(q[w][i], 0, 0)
  BY <1>1, <1>2 DEF Apart
<1>4. \A i \in 1 .. Len(evs) : Apart(evs[i], 0, 0)
  BY DEF EvsOK, EvOK, Apart
<1>5. \A w \in Workers : wk[w].pc # "idle" => Apart(wk[w].cmd, 0, 0)
  BY <1>1 DEF WorkersOK, WorkerOK, Apart
<1> QED
  BY <1>3, <1>4, <1>5 DEF NewTo

\* All messages stay right when the requests move on.
LEMMA MessagesKept ==
    ASSUME NEW q \in [Workers -> Seq(Commands)], NEW evs, NEW wk,
           NEW u, NEW g, NEW v, NEW h, NEW n, NEW k,
           CmdsOK(q, u, g), EvsOK(evs, u, g), WorkersOK(wk, u, g),
           Moves(u, g, v, h, n, k), NewTo(q, evs, wk, n, k),
           (u.pending = None => v.pending = None) \/ NoLinkOnline(evs)
    PROVE  CmdsOK(q, v, h) /\ EvsOK(evs, v, h) /\ WorkersOK(wk, v, h)
<1>1. \A c \in Commands : c.id # 0 /\ c.op # "link"
  BY DEF Commands, Ids, Ops
<1>2. CmdsOK(q, v, h)
  <2>1. ASSUME NEW w \in Workers, NEW i \in 1 .. Len(q[w])
        PROVE  WorkerOf(q[w][i].op) = w /\ CmdOK(q[w][i], v, h)
    <3>1. q[w][i] \in Commands
      BY ElementOfSeq
    <3>2. WorkerOf(q[w][i].op) = w /\ CmdOK(q[w][i], u, g) /\ Apart(q[w][i], n, k)
      BY DEF CmdsOK, NewTo
    <3> QED
      BY <1>1, <3>1, <3>2, CmdKept
  <2> QED
    BY <2>1 DEF CmdsOK
<1>3. EvsOK(evs, v, h)
  <2>1. ASSUME NEW i \in 1 .. Len(evs)
        PROVE  EvOK(evs[i], v, h)
    <3>1. EvOK(evs[i], u, g) /\ Apart(evs[i], n, k)
      BY DEF EvsOK, NewTo
    <3>2. LinkOnline(evs[i]) => (u.pending = None => v.pending = None)
      BY DEF NoLinkOnline
    <3> QED
      BY <3>1, <3>2, EvKept
  <2> QED
    BY <2>1 DEF EvsOK
<1>4. WorkersOK(wk, v, h)
  <2>1. ASSUME NEW w \in Workers
        PROVE  /\ wk[w].pc # "idle" => CmdOK(wk[w].cmd, v, h)
               /\ wk[w].pc = "post" => EvOK(wk[w].event, v, h)
    <3>1. ASSUME wk[w].pc # "idle" PROVE CmdOK(wk[w].cmd, v, h)
      <4>1. CmdOK(wk[w].cmd, u, g) /\ wk[w].cmd.id # 0 /\ Apart(wk[w].cmd, n, k)
        BY <1>1, <3>1 DEF WorkersOK, WorkerOK, NewTo
      <4> QED
        BY <4>1, CmdKept
    <3>2. ASSUME wk[w].pc = "post" PROVE EvOK(wk[w].event, v, h)
      <4>1. /\ EvOK(wk[w].event, u, g) /\ wk[w].cmd \in Commands
            /\ wk[w].event.op = wk[w].cmd.op /\ wk[w].event.id = wk[w].cmd.id
            /\ Apart(wk[w].cmd, n, k)
        BY <3>2 DEF WorkersOK, WorkerOK, NewTo
      <4>2. Apart(wk[w].event, n, k) /\ ~LinkOnline(wk[w].event)
        BY <1>1, <4>1 DEF Apart, LinkOnline
      <4> QED
        BY <4>1, <4>2, EvKept
    <3> QED
      BY <3>1, <3>2
  <2> QED
    BY <2>1 DEF WorkersOK, WorkerOK
<1> QED
  BY <1>2, <1>3, <1>4

-----------------------------------------------------------------------------
(* Steps of the LVGL thread *)

Nothing(q, evs, wk, op) == Of(q, op) = {} /\ Of(evs, op) = {} /\ ~Busy(wk, op)

\* A step that only changes the context keeps the invariant if the context stays right and
\* a request is closed only when nothing of it is under way.
LEMMA StepKeeps ==
    ASSUME NEW s, NEW evs, NEW wk, NEW g, Good(s, evs, wk, g),
           NEW t \in UiStates, NEW h, NEW n, NEW k,
           Len(t.ui.profiles) <= MaxProfiles, t.port.queue = s.port.queue,
           Moves(s.ui, g, t.ui, h, n, k), NewTo(s.port.queue, evs, wk, n, k),
           (s.ui.pending = None => t.ui.pending = None) \/ NoLinkOnline(evs),
           UiOK(t, h),
           \A op \in OneAtATime :
               t.ui.req[op] = s.ui.req[op] \/ Nothing(s.port.queue["net"], evs, wk, op)
    PROVE  Good(t, evs, wk, h)
<1>1. s \in UiStates /\ s.port.queue \in [Workers -> Seq(Commands)] /\ Fits(s)
  BY DEF Good, UiStates, PortType
<1>2. Fits(t)
  BY <1>1 DEF Fits
<1>3. CmdsOK(s.port.queue, s.ui, g) /\ EvsOK(evs, s.ui, g) /\ WorkersOK(wk, s.ui, g)
  BY DEF Good
<1>4. CmdsOK(t.port.queue, t.ui, h) /\ EvsOK(evs, t.ui, h) /\ WorkersOK(wk, t.ui, h)
  BY <1>1, <1>3, MessagesKept
<1>5. \A op \in OneAtATime : Single(t.ui, t.port.queue["net"], evs, wk, op)
  <2>1. \A op \in OneAtATime : Single(s.ui, s.port.queue["net"], evs, wk, op)
    BY DEF Good
  <2> QED
    BY <2>1 DEF Single, Nothing
<1> QED
  BY <1>2, <1>4, <1>5 DEF Good

\* A step that also sends a command.
Sends(s, evs, wk, g, t, h, n, k, op, c) ==
    /\ op \in Ops /\ c \in Commands /\ c.op = op
    /\ t \in UiStates /\ Fits(t) /\ HasRoom(s, op)
    /\ \A w \in Workers : w # WorkerOf(op) => t.port.queue[w] = s.port.queue[w]
    /\ t.port.queue[WorkerOf(op)] = Append(s.port.queue[WorkerOf(op)], c)
    /\ Moves(s.ui, g, t.ui, h, n, k) /\ NewTo(s.port.queue, evs, wk, n, k)
    /\ (s.ui.pending = None => t.ui.pending = None) \/ NoLinkOnline(evs)
    /\ UiOK(t, h) /\ CmdOK(c, t.ui, h)
    /\ \A o \in OneAtATime : t.ui.req[o] = s.ui.req[o] \/ o = op
    /\ op \in OneAtATime => s.ui.req[op] = 0 /\ t.ui.req[op] # 0

\* It keeps the invariant, too.
LEMMA SendKeeps ==
    ASSUME NEW s, NEW evs, NEW wk, NEW g, Good(s, evs, wk, g),
           NEW t, NEW h, NEW n, NEW k, NEW op, NEW c,
           Sends(s, evs, wk, g, t, h, n, k, op, c)
    PROVE  Good(t, evs, wk, h)
<1> USE DEF Sends
<1> DEFINE w == WorkerOf(op)
           q == s.port.queue[w]
           r == t.port.queue[w]
<1>1. s \in UiStates /\ s.port.queue \in [Workers -> Seq(Commands)]
  BY DEF Good, UiStates, PortType
<1>2. w \in Workers /\ q \in Seq(Commands)
  BY <1>1, OpWorker
<1>3. /\ r \in Seq(Commands) /\ Len(r) = Len(q) + 1 /\ Len(q) \in Nat
      /\ \A i \in 1 .. Len(q) : r[i] = q[i]
      /\ r[Len(q) + 1] = c
  BY <1>2, AppendQueue, LenProperties
<1>4. CmdsOK(s.port.queue, s.ui, g) /\ EvsOK(evs, s.ui, g) /\ WorkersOK(wk, s.ui, g)
  BY DEF Good
<1>5. CmdsOK(s.port.queue, t.ui, h) /\ EvsOK(evs, t.ui, h) /\ WorkersOK(wk, t.ui, h)
  BY <1>1, <1>4, MessagesKept
<1>6. CmdsOK(t.port.queue, t.ui, h)
  <2>1. ASSUME NEW v \in Workers, NEW i \in 1 .. Len(t.port.queue[v])
        PROVE  WorkerOf(t.port.queue[v][i].op) = v /\ CmdOK(t.port.queue[v][i], t.ui, h)
    <3>1. CASE v # w
      BY <1>5, <3>1 DEF CmdsOK
    <3>2. CASE v = w /\ i \in 1 .. Len(q)
      <4>1. t.port.queue[v][i] = s.port.queue[v][i]
        BY <1>3, <3>2
      <4> QED
        BY <1>2, <1>5, <3>2, <4>1 DEF CmdsOK
    <3>3. CASE v = w /\ i = Len(q) + 1
      <4>1. t.port.queue[v][i] = c
        BY <1>3, <3>3
      <4> QED
        BY <3>3, <4>1
    <3>4. ASSUME v = w PROVE i \in 1 .. Len(q) \/ i = Len(q) + 1
      <4>1. i \in 1 .. Len(r)
        BY <3>4
      <4> HIDE DEF q, r
      <4> QED
        BY <1>3, <4>1
    <3> QED
      BY <3>1, <3>2, <3>3, <3>4
  <2> QED
    BY <2>1 DEF CmdsOK
<1>7. ASSUME NEW o \in OneAtATime
      PROVE  Single(t.ui, t.port.queue["net"], evs, wk, o)
  <2>1. Single(s.ui, s.port.queue["net"], evs, wk, o)
    BY DEF Good
  <2>2. o \in Ops /\ WorkerOf(o) = "net" /\ "net" \in Workers
    BY DEF OneAtATime, Ops, WorkerOf, Workers
  <2>3. CASE o = op
    <3>1. Of(q, o) = {} /\ Of(evs, o) = {} /\ ~Busy(wk, o)
      BY <2>1, <2>2, <2>3 DEF Single
    <3>2. \A i \in Of(r, o) : i = Len(q) + 1
      <4> HIDE DEF q, r, Sends
      <4>1. \A i \in 1 .. Len(r) : i \in 1 .. Len(q) \/ i = Len(q) + 1
        BY <1>3
      <4> QED
        BY <1>3, <3>1, <4>1 DEF Of
    <3> QED
      BY <2>2, <2>3, <3>1, <3>2 DEF Single
  <2>4. CASE o # op
    <3>1. t.ui.req[o] = s.ui.req[o]
      BY <2>4
    <3>2. Of(t.port.queue["net"], o) = Of(s.port.queue["net"], o)
      <4>1. CASE w = "net"
        <5>1. q = s.port.queue["net"] /\ r = t.port.queue["net"]
          BY <4>1
        <5> HIDE DEF q, r
        <5>2. c.op # o
          BY <2>4
        <5>3. \A i : i \in 1 .. Len(r) <=> i \in 1 .. Len(q) \/ i = Len(q) + 1
          BY <1>3
        <5>4. Of(r, o) = Of(q, o)
          BY <1>3, <5>2, <5>3 DEF Of
        <5> QED
          BY <5>1, <5>4
      <4>2. CASE w # "net"
        BY <2>2, <4>2
      <4> QED
        BY <4>1, <4>2
    <3> QED
      BY <2>1, <3>1, <3>2 DEF Single
  <2> QED
    BY <2>3, <2>4
<1> QED
  BY <1>5, <1>6, <1>7 DEF Good

\* The events of a queue that the pump has taken some from.
PartOf(evs, all) == \A i \in 1 .. Len(evs) : \E j \in 1 .. Len(all) : evs[i] = all[j]

\* The id of a new request is new to all messages of its kind.
LEMMA NextIsNew ==
    ASSUME RestType, NEW s, NEW evs, NEW g, Good(s, evs, worker, g), PartOf(evs, events),
           NEW op \in Ops
    PROVE  LET id == NextRequest(s, op) IN
           /\ id \in Ids /\ id # 0
           /\ op \in {"connect", "disconnect"} => NewTo(s.port.queue, evs, worker, id, 0)
           /\ op = "connect" => s.ui.req["disconnect"] # id
           /\ op = "city" => NewTo(s.port.queue, evs, worker, 0, id)
<1> DEFINE id == NextRequest(s, op)
<1>1. s \in UiStates /\ Fits(s) /\ EvsOK(evs, s.ui, g) /\ WorkersOK(worker, s.ui, g)
      /\ s.port.queue \in [Workers -> Seq(Commands)]
  BY DEF Good, UiStates, PortType
<1>2. /\ id \in Ids /\ id # 0
      /\ \A o \in SameIds(op) : s.ui.req[o] # id
      /\ \A i \in 1 .. Len(events) : events[i].op \in SameIds(op) => events[i].id # id
      /\ \A w \in Workers :
           /\ worker[w].cmd.op \in SameIds(op) => worker[w].cmd.id # id
           /\ \A i \in 1 .. Len(s.port.queue[w]) :
                s.port.queue[w][i].op \in SameIds(op) => s.port.queue[w][i].id # id
  BY <1>1, RequestIdFresh
<1> HIDE DEF id
<1>3. \A i \in 1 .. Len(evs) : evs[i].op \in SameIds(op) => evs[i].id # id
  BY <1>2 DEF PartOf
<1>4. NewTo(s.port.queue, evs, worker, 0, 0)
  BY <1>1, NoneIsNew
<1>5. op \in {"connect", "disconnect"} => NewTo(s.port.queue, evs, worker, id, 0)
  BY <1>2, <1>3, <1>4 DEF NewTo, Apart, SameIds
<1>6. op = "city" => NewTo(s.port.queue, evs, worker, 0, id)
  BY <1>2, <1>3, <1>4 DEF NewTo, Apart, SameIds
<1> QED
  BY <1>2, <1>5, <1>6 DEF SameIds, id

-----------------------------------------------------------------------------
(* The requests *)

\* What no request changes.
Besides(s, t) ==
    /\ t.ui.profiles = s.ui.profiles /\ t.ui.last = s.ui.last
    /\ t.ui.input = s.ui.input /\ t.ui.searching = s.ui.searching
    /\ t.ui.shown = s.ui.shown /\ t.port.bound = s.port.bound

\* The reports about the link that a request leaves as they are.
Same(u, v) ==
    /\ v.req["connect"] = u.req["connect"] /\ v.req["disconnect"] = u.req["disconnect"]
    /\ v.req["city"] = u.req["city"] /\ v.pending = u.pending

\* A request for a scan, the weather or the time keeps the invariant.
LEMMA OneAtATimeKeeps ==
    ASSUME RestType, NEW s, NEW evs, NEW g, Good(s, evs, worker, g), PartOf(evs, events),
           NEW op \in OneAtATime, NEW data \in Data, op = "weather" => data \in Cities,
           s.ui.req[op] = 0,
           NEW t \in UiStates, t.port = RwSend(s, op, NextRequest(s, op), data).port,
           Besides(s, t), Same(s.ui, t.ui),
           t.ui.wifi = "CONNECTING" => s.ui.wifi = "CONNECTING",
           \A o \in OneAtATime : t.ui.req[o] = s.ui.req[o] \/ o = op,
           t.ui.req[op] = IF HasRoom(s, op) THEN NextRequest(s, op) ELSE 0
    PROVE  Good(t, evs, worker, g)
<1> DEFINE id == NextRequest(s, op)
           r == RwSend(s, op, id, data)
           c == [op |-> op, id |-> id, data |-> data]
<1>1. op \in Ops /\ op # "city" /\ op # "connect" /\ op # "disconnect"
  BY DEF OneAtATime, Ops
<1>2. s \in UiStates /\ Fits(s) /\ UiOK(s, g) /\ s.port.queue \in [Workers -> Seq(Commands)]
  BY DEF Good, UiStates, PortType
<1>3. id \in Ids /\ id # 0
  BY <1>1, NextIsNew
<1> HIDE DEF id
<1>4. /\ r \in UiStates /\ Fits(r)
      /\ \A v \in Workers : v # WorkerOf(op) => r.port.queue[v] = s.port.queue[v]
      /\ r.port.queue[WorkerOf(op)] =
           IF HasRoom(s, op) THEN Append(s.port.queue[WorkerOf(op)], c)
           ELSE s.port.queue[WorkerOf(op)]
  BY <1>1, <1>2, <1>3, SendFields
<1> HIDE DEF r
<1>5. t.port = r.port
  BY DEF r, id
<1>6. Fits(t)
  BY <1>2, <1>4, <1>5 DEF Fits, Besides
<1>7. NewTo(s.port.queue, evs, worker, 0, 0)
  BY <1>2, NoneIsNew DEF Good
<1>8. Moves(s.ui, g, t.ui, g, 0, 0)
  BY DEF Moves, Same
<1>9. UiOK(t, g)
  BY <1>2 DEF UiOK, Besides, Same
<1>10. s.ui.pending = None => t.ui.pending = None
  BY DEF Same
<1>11. CASE HasRoom(s, op)
  <2>1. c \in Commands /\ c.op = op
    BY <1>1, <1>3 DEF Commands
  <2>2. CmdOK(c, t.ui, g)
    BY <1>1 DEF CmdOK
  <2>3. /\ \A v \in Workers : v # WorkerOf(op) => t.port.queue[v] = s.port.queue[v]
        /\ t.port.queue[WorkerOf(op)] = Append(s.port.queue[WorkerOf(op)], c)
    BY <1>4, <1>5, <1>11
  <2>4. t.ui.req[op] # 0
    BY <1>3, <1>11 DEF id
  <2>5. op \in OneAtATime => s.ui.req[op] = 0 /\ t.ui.req[op] # 0
    BY <2>4
  <2> HIDE DEF c
  <2>6. Sends(s, evs, worker, g, t, g, 0, 0, op, c)
    BY <1>1, <1>6, <1>7, <1>8, <1>9, <1>10, <1>11, <2>1, <2>2, <2>3, <2>5 DEF Sends
  <2> QED
    BY <2>6, SendKeeps
<1>12. CASE ~HasRoom(s, op)
  <2>1. t.port.queue = s.port.queue
    <3>1. \A v \in Workers : t.port.queue[v] = s.port.queue[v]
      BY <1>4, <1>5, <1>12
    <3>2. t.port.queue \in [Workers -> Seq(Commands)]
      BY DEF UiStates, PortType
    <3> QED
      BY <1>2, <3>1, <3>2
  <2>2. \A o \in OneAtATime : t.ui.req[o] = s.ui.req[o]
    BY <1>12
  <2>3. Len(t.ui.profiles) <= MaxProfiles
    BY <1>6 DEF Fits
  <2> QED
    BY <1>7, <1>8, <1>9, <1>10, <2>1, <2>2, <2>3, StepKeeps
<1> QED
  BY <1>11, <1>12

\* lvww_request_scan.
LEMMA ScanKeeps ==
    ASSUME RestType, NEW s, NEW evs, NEW g, Good(s, evs, worker, g), PartOf(evs, events)
    PROVE  /\ Good(RequestScan(s), evs, worker, g)
           /\ Besides(s, RequestScan(s)) /\ Same(s.ui, RequestScan(s).ui)
<1> DEFINE id == NextRequest(s, "scan")
           r == RwSend(s, "scan", id, None)
           t == RequestScan(s)
<1>1. s \in UiStates /\ Fits(s) /\ s.ui \in UiType
  BY StateParts DEF Good
<1>2. "scan" \in Ops /\ "scan" \in OneAtATime /\ None \in Data
  BY DEF Ops, OneAtATime, Data
<1>3. id \in Ids /\ id # 0
  BY <1>2, NextIsNew
<1> HIDE DEF id
<1>4. r \in UiStates /\ r.ui = s.ui /\ r.port.bound = s.port.bound
  BY <1>1, <1>2, <1>3, SendFields
<1>5. CASE "scan" \notin Provided \/ s.ui.req["scan"] # 0
  <2>1. t = s
    BY <1>5 DEF RequestScan
  <2> QED
    BY <2>1 DEF Besides, Same
<1>6. CASE "scan" \in Provided /\ s.ui.req["scan"] = 0
  <2> DEFINE v == [s.ui EXCEPT !.req = IF HasRoom(s, "scan") THEN [@ EXCEPT !["scan"] = id] ELSE @,
                      !.wifi = IF HasRoom(s, "scan")
                               THEN IF @ = "ONLINE" THEN @ ELSE "SCANNING" ELSE "OFFLINE"]
  <2>1. t = IF HasRoom(s, "scan")
            THEN [r EXCEPT !.ui.req["scan"] = id,
                           !.ui.wifi = IF @ = "ONLINE" THEN @ ELSE "SCANNING"]
            ELSE [r EXCEPT !.ui.wifi = "OFFLINE"]
    BY <1>6 DEF RequestScan, id
  <2> HIDE DEF r, t
  <2>2. t = [ui |-> v, port |-> r.port]
    BY <1>1, <1>4, <2>1 DEF UiStates, UiType
  <2>3. v \in UiType
    BY <1>1, <1>2, <1>3 DEF UiType, WifiStates
  <2>4. /\ v.profiles = s.ui.profiles /\ v.last = s.ui.last
        /\ v.input = s.ui.input /\ v.searching = s.ui.searching
        /\ v.shown = s.ui.shown /\ v.pending = s.ui.pending
        /\ v.req = IF HasRoom(s, "scan") THEN [s.ui.req EXCEPT !["scan"] = id] ELSE s.ui.req
        /\ v.wifi # "CONNECTING"
    BY <1>1 DEF UiType
  <2> HIDE DEF v
  <2>5. /\ t \in UiStates /\ t.ui = v /\ t.port = r.port
    BY <1>4, <2>2, <2>3 DEF UiStates
  <2>6. s.ui.req \in [Ops -> Ids \cup {0}]
    BY <1>1 DEF UiType
  <2>7. Besides(s, t) /\ Same(s.ui, t.ui)
    BY <1>4, <2>4, <2>5, <2>6 DEF Besides, Same, Ops
  <2>8. /\ \A o \in OneAtATime : t.ui.req[o] = s.ui.req[o] \/ o = "scan"
        /\ t.ui.req["scan"] = IF HasRoom(s, "scan") THEN id ELSE 0
    BY <1>2, <1>6, <2>4, <2>5, <2>6 DEF OneAtATime, Ops
  <2>9. Good(t, evs, worker, g)
    BY <1>2, <1>6, <2>4, <2>5, <2>7, <2>8, OneAtATimeKeeps DEF r, id
  <2> QED
    BY <2>7, <2>9 DEF t
<1> QED
  BY <1>5, <1>6

\* lvww_request_weather and lvww_request_time.
LEMMA TimedKeeps ==
    ASSUME RestType, NEW s, NEW evs, NEW g, Good(s, evs, worker, g), PartOf(evs, events),
           NEW op \in Timed, NEW data \in Data, op = "weather" => data \in Cities
    PROVE  LET t == RequestTimed(s, op, data) IN
           /\ Good(t, evs, worker, g)
           /\ Besides(s, t) /\ Same(s.ui, t.ui) /\ t.ui.city = s.ui.city
<1> DEFINE id == NextRequest(s, op)
           r == RwSend(s, op, id, data)
           t == RequestTimed(s, op, data)
           skip == \/ op \notin Provided \/ s.ui.wifi # "ONLINE"
                   \/ s.ui.req[op] # 0 \/ s.ui.wait[op]
<1>1. s \in UiStates /\ Fits(s) /\ s.ui \in UiType
  BY StateParts DEF Good
<1>2. op \in Ops /\ op \in OneAtATime /\ op # "city" /\ op # "connect" /\ op # "disconnect"
  BY DEF Ops, OneAtATime, Timed
<1>3. id \in Ids /\ id # 0
  BY <1>2, NextIsNew
<1> HIDE DEF id
<1>4. r \in UiStates /\ r.ui = s.ui /\ r.port.bound = s.port.bound
  BY <1>1, <1>2, <1>3, SendFields
<1>5. CASE skip
  <2>1. t = s
    BY <1>5 DEF RequestTimed
  <2> QED
    BY <2>1 DEF Besides, Same
<1>6. CASE ~skip
  <2> DEFINE room == HasRoom(s, op)
             v == [s.ui EXCEPT !.req = IF room THEN [@ EXCEPT ![op] = id] ELSE @,
                               !.wait = [@ EXCEPT ![op] = IF room THEN FALSE ELSE TRUE]]
  <2>1. t = IF room THEN [r EXCEPT !.ui.req[op] = id, !.ui.wait[op] = FALSE]
            ELSE [r EXCEPT !.ui.wait[op] = TRUE]
    BY <1>6 DEF RequestTimed, id
  <2>2. s.ui.wifi = "ONLINE" /\ s.ui.req[op] = 0
    BY <1>6
  <2> HIDE DEF r, t, skip, room
  <2>3. t = [ui |-> v, port |-> r.port]
    BY <1>1, <1>4, <2>1 DEF UiStates, UiType
  <2>4. v \in UiType
    BY <1>1, <1>2, <1>3 DEF UiType
  <2>5. /\ v.profiles = s.ui.profiles /\ v.last = s.ui.last /\ v.city = s.ui.city
        /\ v.input = s.ui.input /\ v.searching = s.ui.searching
        /\ v.shown = s.ui.shown /\ v.pending = s.ui.pending
        /\ v.req = IF room THEN [s.ui.req EXCEPT ![op] = id] ELSE s.ui.req
        /\ v.wifi = s.ui.wifi
    BY <1>1 DEF UiType
  <2> HIDE DEF v
  <2>6. /\ t \in UiStates /\ t.ui = v /\ t.port = r.port
    BY <1>4, <2>3, <2>4 DEF UiStates
  <2>7. s.ui.req \in [Ops -> Ids \cup {0}]
    BY <1>1 DEF UiType
  <2>8. Besides(s, t) /\ Same(s.ui, t.ui) /\ t.ui.city = s.ui.city
    BY <1>2, <1>4, <2>5, <2>6, <2>7 DEF Besides, Same, Ops
  <2>9. /\ \A o \in OneAtATime : t.ui.req[o] = s.ui.req[o] \/ o = op
        /\ t.ui.req[op] = IF room THEN id ELSE 0
    BY <1>2, <2>2, <2>5, <2>6, <2>7 DEF OneAtATime, Ops
  <2>10. Good(t, evs, worker, g)
    BY <1>2, <2>2, <2>5, <2>6, <2>8, <2>9, OneAtATimeKeeps DEF r, id, room
  <2> QED
    BY <2>8, <2>10 DEF t
<1> QED
  BY <1>5, <1>6

\* Two requests one after the other leave alone what each leaves alone.
LEMMA BesidesBoth ==
    ASSUME NEW s, NEW t, NEW r, Besides(s, t), Besides(t, r)
    PROVE  Besides(s, r)
BY DEF Besides

\* The time and then the weather, as after the connection and in the clock timer.
LEMMA TimeWeatherKeeps ==
    ASSUME RestType, NEW s, NEW evs, NEW g, Good(s, evs, worker, g), PartOf(evs, events)
    PROVE  /\ Good(RequestTime(s), evs, worker, g) /\ Besides(s, RequestTime(s))
           /\ Good(RequestWeather(s), evs, worker, g) /\ Besides(s, RequestWeather(s))
           /\ Good(RequestWeather(RequestTime(s)), evs, worker, g)
           /\ Besides(s, RequestWeather(RequestTime(s)))
<1>1. ASSUME NEW t, Good(t, evs, worker, g)
      PROVE  /\ Good(RequestTime(t), evs, worker, g) /\ Besides(t, RequestTime(t))
             /\ Good(RequestWeather(t), evs, worker, g) /\ Besides(t, RequestWeather(t))
  <2>1. t \in UiStates /\ t.ui \in UiType
    BY <1>1, StateParts DEF Good
  <2>2. t.ui.city \in Cities
    BY <2>1 DEF UiType
  <2>3. None \in Data /\ t.ui.city \in Data /\ "time" \in Timed /\ "weather" \in Timed
    BY <2>2 DEF Data, Timed
  <2>4. Good(RequestTime(t), evs, worker, g) /\ Besides(t, RequestTime(t))
    BY <1>1, <2>3, TimedKeeps DEF RequestTime
  <2>5. Good(RequestWeather(t), evs, worker, g) /\ Besides(t, RequestWeather(t))
    BY <1>1, <2>2, <2>3, TimedKeeps DEF RequestWeather
  <2> QED
    BY <2>4, <2>5
<1> DEFINE t == RequestTime(s)
<1>2. Good(t, evs, worker, g) /\ Besides(s, t)
  BY <1>1
<1> HIDE DEF t
<1>3. Good(RequestWeather(t), evs, worker, g) /\ Besides(t, RequestWeather(t))
  BY <1>1, <1>2
<1>4. Besides(s, RequestWeather(t))
  BY <1>2, <1>3, BesidesBoth
<1> QED
  BY <1>1, <1>2, <1>3, <1>4 DEF t

\* A command queue that got no command is the old one.
LEMMA QueueSame ==
    ASSUME NEW s \in UiStates, NEW t \in UiStates,
           \A w \in Workers : t.port.queue[w] = s.port.queue[w]
    PROVE  t.port.queue = s.port.queue
BY DEF UiStates, PortType

\* lvww_request_connect, when the first ONLINE event has been handled.
LEMMA ConnectKeeps ==
    ASSUME RestType, NEW s, NEW evs, NEW g, Good(s, evs, worker, g), PartOf(evs, events),
           s.port.bound, NoLinkOnline(evs), NEW c \in Credentials
    PROVE  LET t == RequestConnect(s, c) IN Good(t, evs, worker, g) /\ Besides(s, t)
<1> DEFINE id == NextRequest(s, "connect")
           r == RwSend(s, "connect", id, c)
           t == RequestConnect(s, c)
           m == [op |-> "connect", id |-> id, data |-> c]
           room == HasRoom(s, "connect")
           v == [s.ui EXCEPT !.req = IF room THEN [@ EXCEPT !["connect"] = id] ELSE @,
                             !.pending = IF room THEN c ELSE None,
                             !.wifi = IF room THEN "CONNECTING" ELSE "OFFLINE"]
<1>1. s \in UiStates /\ Fits(s) /\ s.ui \in UiType /\ UiOK(s, g)
  BY StateParts DEF Good
<1>2. "connect" \in Ops /\ c \in Data /\ "connect" \notin OneAtATime
  BY DEF Ops, Data, OneAtATime
<1>3. id \in Ids /\ id # 0 /\ NewTo(s.port.queue, evs, worker, id, 0)
      /\ s.ui.req["disconnect"] # id
  BY <1>2, NextIsNew
<1> HIDE DEF id
<1>4. /\ r \in UiStates /\ Fits(r) /\ r.ui = s.ui /\ r.port.bound = s.port.bound
      /\ \A w \in Workers : w # WorkerOf("connect") => r.port.queue[w] = s.port.queue[w]
      /\ r.port.queue[WorkerOf("connect")] =
           IF room THEN Append(s.port.queue[WorkerOf("connect")], m)
           ELSE s.port.queue[WorkerOf("connect")]
  BY <1>1, <1>2, <1>3, SendFields
<1>5. CASE "connect" \notin Provided \/ s.ui.req["connect"] # 0
  <2>1. t = s
    BY <1>5 DEF RequestConnect
  <2> QED
    BY <2>1 DEF Besides
<1>6. CASE "connect" \in Provided /\ s.ui.req["connect"] = 0
  <2>1. t = IF room THEN [r EXCEPT !.ui.req["connect"] = id, !.ui.pending = c,
                                   !.ui.wifi = "CONNECTING"]
            ELSE [r EXCEPT !.ui.pending = None, !.ui.wifi = "OFFLINE"]
    BY <1>6 DEF RequestConnect, id
  <2> HIDE DEF r, t, room
  <2>2. t = [ui |-> v, port |-> r.port]
    BY <1>1, <1>4, <2>1 DEF UiStates, UiType
  <2>3. v \in UiType
    BY <1>1, <1>2, <1>3 DEF UiType, WifiStates
  <2>4. /\ v.profiles = s.ui.profiles /\ v.last = s.ui.last
        /\ v.input = s.ui.input /\ v.searching = s.ui.searching /\ v.shown = s.ui.shown
        /\ v.pending = IF room THEN c ELSE None
        /\ v.req = IF room THEN [s.ui.req EXCEPT !["connect"] = id] ELSE s.ui.req
        /\ v.wifi = IF room THEN "CONNECTING" ELSE "OFFLINE"
    BY <1>1 DEF UiType
  <2> HIDE DEF v
  <2>5. t \in UiStates /\ t.ui = v /\ t.port = r.port
    BY <1>4, <2>2, <2>3 DEF UiStates
  <2>6. s.ui.req \in [Ops -> Ids \cup {0}]
    BY <1>1 DEF UiType
  <2>7. /\ v.req["connect"] = IF room THEN id ELSE 0
        /\ \A o \in Ops : o # "connect" => v.req[o] = s.ui.req[o]
    BY <1>2, <1>6, <2>4, <2>6
  <2>8. Besides(s, t)
    BY <1>4, <2>4, <2>5 DEF Besides
  <2>9. Fits(t)
    BY <1>1, <1>4, <2>4, <2>5 DEF Fits
  <2>10. Moves(s.ui, g, t.ui, g, id, 0)
    BY <2>5, <2>7 DEF Moves, Ops
  <2>11. UiOK(t, g)
    BY <1>1, <1>3, <1>4, <2>4, <2>5, <2>7 DEF UiOK
  <2>12. \A o \in OneAtATime : t.ui.req[o] = s.ui.req[o]
    BY <2>5, <2>7 DEF OneAtATime, Ops
  <2>13. CASE room
    <3>1. m \in Commands
      BY <1>2, <1>3 DEF Commands
    <3>2. CmdOK(m, t.ui, g)
      BY <1>3, <2>4, <2>5, <2>7, <2>13 DEF CmdOK, Ops
    <3>3. m.op = "connect"
      OBVIOUS
    <3> HIDE DEF m
    <3>4. /\ \A w \in Workers : w # WorkerOf("connect") => t.port.queue[w] = s.port.queue[w]
          /\ t.port.queue[WorkerOf("connect")] = Append(s.port.queue[WorkerOf("connect")], m)
      BY <1>4, <2>5, <2>13
    <3>5. Sends(s, evs, worker, g, t, g, id, 0, "connect", m)
      BY <1>2, <1>3, <2>5, <2>9, <2>10, <2>11, <2>12, <2>13, <3>1, <3>2, <3>3, <3>4
         DEF Sends, room
    <3>6. Good(t, evs, worker, g)
      BY <3>5, SendKeeps
    <3> QED
      BY <2>8, <3>6 DEF t
  <2>14. CASE ~room
    <3>1. t.port.queue = s.port.queue
      BY <1>1, <1>4, <2>5, <2>14, QueueSame
    <3>2. Len(t.ui.profiles) <= MaxProfiles
      BY <2>9 DEF Fits
    <3>3. Good(t, evs, worker, g)
      BY <1>3, <2>5, <2>10, <2>11, <2>12, <3>1, <3>2, StepKeeps
    <3> QED
      BY <2>8, <3>3 DEF t
  <2> QED
    BY <2>13, <2>14
<1> QED
  BY <1>5, <1>6

\* lvww_request_disconnect.
LEMMA DisconnectKeeps ==
    ASSUME RestType, NEW s, NEW evs, NEW g, Good(s, evs, worker, g), PartOf(evs, events)
    PROVE  LET t == RequestDisconnect(s) IN Good(t, evs, worker, g) /\ Besides(s, t)
<1> DEFINE id == NextRequest(s, "disconnect")
           r == RwSend(s, "disconnect", id, None)
           t == RequestDisconnect(s)
           m == [op |-> "disconnect", id |-> id, data |-> None]
           room == HasRoom(s, "disconnect")
           v == [s.ui EXCEPT !.req = [@ EXCEPT !["disconnect"] = IF room THEN id ELSE 0],
                             !.wifi = "DISCONNECTING"]
<1>1. s \in UiStates /\ Fits(s) /\ s.ui \in UiType /\ UiOK(s, g)
  BY StateParts DEF Good
<1>2. "disconnect" \in Ops /\ None \in Data /\ "disconnect" \notin OneAtATime
  BY DEF Ops, Data, OneAtATime
<1>3. id \in Ids /\ id # 0 /\ NewTo(s.port.queue, evs, worker, id, 0)
  BY <1>2, NextIsNew
<1> HIDE DEF id
<1>4. /\ r \in UiStates /\ Fits(r) /\ r.ui = s.ui /\ r.port.bound = s.port.bound
      /\ \A w \in Workers : w # WorkerOf("disconnect") => r.port.queue[w] = s.port.queue[w]
      /\ r.port.queue[WorkerOf("disconnect")] =
           IF room THEN Append(s.port.queue[WorkerOf("disconnect")], m)
           ELSE s.port.queue[WorkerOf("disconnect")]
  BY <1>1, <1>2, <1>3, SendFields
<1>5. CASE "disconnect" \notin Provided \/ s.ui.req["disconnect"] # 0
  <2>1. t = s
    BY <1>5 DEF RequestDisconnect
  <2> QED
    BY <2>1 DEF Besides
<1>6. CASE "disconnect" \in Provided /\ s.ui.req["disconnect"] = 0
  <2>1. t = [r EXCEPT !.ui.req["disconnect"] = IF room THEN id ELSE 0,
                      !.ui.wifi = "DISCONNECTING"]
    BY <1>6 DEF RequestDisconnect, id
  <2> HIDE DEF r, t, room
  <2>2. t = [ui |-> v, port |-> r.port]
    BY <1>1, <1>4, <2>1 DEF UiStates, UiType
  <2>3. v \in UiType
    BY <1>1, <1>2, <1>3 DEF UiType, WifiStates
  <2>4. /\ v.profiles = s.ui.profiles /\ v.last = s.ui.last /\ v.pending = s.ui.pending
        /\ v.input = s.ui.input /\ v.searching = s.ui.searching /\ v.shown = s.ui.shown
        /\ v.req = [s.ui.req EXCEPT !["disconnect"] = IF room THEN id ELSE 0]
        /\ v.wifi = "DISCONNECTING"
    BY <1>1 DEF UiType
  <2> HIDE DEF v
  <2>5. t \in UiStates /\ t.ui = v /\ t.port = r.port
    BY <1>4, <2>2, <2>3 DEF UiStates
  <2>6. s.ui.req \in [Ops -> Ids \cup {0}]
    BY <1>1 DEF UiType
  <2>7. /\ v.req["disconnect"] = IF room THEN id ELSE 0
        /\ \A o \in Ops : o # "disconnect" => v.req[o] = s.ui.req[o]
    BY <1>2, <2>4, <2>6
  <2>8. Besides(s, t)
    BY <1>4, <2>4, <2>5 DEF Besides
  <2>9. Fits(t)
    BY <1>1, <1>4, <2>4, <2>5 DEF Fits
  <2>10. Moves(s.ui, g, t.ui, g, id, 0)
    BY <2>4, <2>5, <2>7 DEF Moves, Ops
  <2>11. UiOK(t, g)
    BY <1>1, <1>4, <2>4, <2>5 DEF UiOK
  <2>12. \A o \in OneAtATime : t.ui.req[o] = s.ui.req[o]
    BY <2>5, <2>7 DEF OneAtATime, Ops
  <2>13. s.ui.pending = None => t.ui.pending = None
    BY <2>4, <2>5
  <2>14. CASE room
    <3>1. m \in Commands
      BY <1>2, <1>3 DEF Commands
    <3>2. CmdOK(m, t.ui, g) /\ m.op = "disconnect"
      BY DEF CmdOK
    <3> HIDE DEF m
    <3>3. /\ \A w \in Workers : w # WorkerOf("disconnect") => t.port.queue[w] = s.port.queue[w]
          /\ t.port.queue[WorkerOf("disconnect")] =
               Append(s.port.queue[WorkerOf("disconnect")], m)
      BY <1>4, <2>5, <2>14
    <3>4. Sends(s, evs, worker, g, t, g, id, 0, "disconnect", m)
      BY <1>2, <1>3, <2>5, <2>9, <2>10, <2>11, <2>12, <2>13, <2>14, <3>1, <3>2, <3>3
         DEF Sends, room
    <3>5. Good(t, evs, worker, g)
      BY <3>4, SendKeeps
    <3> QED
      BY <2>8, <3>5 DEF t
  <2>15. CASE ~room
    <3>1. t.port.queue = s.port.queue
      BY <1>1, <1>4, <2>5, <2>15, QueueSame
    <3>2. Len(t.ui.profiles) <= MaxProfiles
      BY <2>9 DEF Fits
    <3>3. Good(t, evs, worker, g)
      BY <1>3, <2>5, <2>10, <2>11, <2>12, <2>13, <3>1, <3>2, StepKeeps
    <3> QED
      BY <2>8, <3>3 DEF t
  <2> QED
    BY <2>14, <2>15
<1> QED
  BY <1>5, <1>6

\* The invariant reads only the reported credentials and the last query of the history.
LEMMA GoodGhost ==
    ASSUME NEW s, NEW evs, NEW wk, NEW g, NEW h, Good(s, evs, wk, g),
           g.reported \subseteq h.reported, h.asked = g.asked
    PROVE  Good(s, evs, wk, h)
<1>1. s \in UiStates /\ Len(s.ui.profiles) <= MaxProfiles
      /\ s.port.queue \in [Workers -> Seq(Commands)]
  BY DEF Good, Fits, UiStates, PortType
<1>2. NewTo(s.port.queue, evs, wk, 0, 0)
  BY <1>1, NoneIsNew DEF Good
<1>3. Moves(s.ui, g, s.ui, h, 0, 0)
  BY DEF Moves
<1>4. UiOK(s, h)
  BY DEF Good, UiOK
<1> QED
  BY <1>1, <1>2, <1>3, <1>4, StepKeeps

\* Cancelling the city search changes no queue.
LEMMA CancelFields ==
    ASSUME NEW s \in UiStates
    PROVE  LET t == CancelSearch(s) IN
           /\ t \in UiStates /\ t.ui = s.ui
           /\ t.port.queue = s.port.queue /\ t.port.bound = s.port.bound
<1>1. s.ui \in UiType /\ s.port \in PortType
  BY StateParts
<1>2. "city" \in Ops /\ s.ui.req["city"] \in Ids \cup {0}
  BY <1>1 DEF UiType, Ops
<1> DEFINE p == [s.port EXCEPT !.cancelled["city"] = s.ui.req["city"]]
<1>3. p \in PortType /\ p.queue = s.port.queue /\ p.bound = s.port.bound
  BY <1>1, <1>2 DEF PortType
<1>4. RwCancel(s, "city", s.ui.req["city"]) = [ui |-> s.ui, port |-> p]
  BY DEF RwCancel, UiStates
<1> HIDE DEF p
<1> QED
  BY <1>1, <1>3, <1>4 DEF CancelSearch, UiStates

\* Cancelling keeps the invariant.
LEMMA CancelKeeps ==
    ASSUME NEW s, NEW evs, NEW wk, NEW g, Good(s, evs, wk, g)
    PROVE  Good(CancelSearch(s), evs, wk, g)
<1> DEFINE t == CancelSearch(s)
<1>1. s \in UiStates /\ UiOK(s, g) /\ Len(s.ui.profiles) <= MaxProfiles
      /\ s.port.queue \in [Workers -> Seq(Commands)]
  BY DEF Good, Fits, UiStates, PortType
<1>2. /\ t \in UiStates /\ t.ui = s.ui
      /\ t.port.queue = s.port.queue /\ t.port.bound = s.port.bound
  BY <1>1, CancelFields
<1> HIDE DEF t
<1>3. NewTo(s.port.queue, evs, wk, 0, 0)
  BY <1>1, NoneIsNew DEF Good
<1>4. Moves(s.ui, g, t.ui, g, 0, 0) /\ UiOK(t, g)
  BY <1>1, <1>2 DEF Moves, UiOK
<1>5. Good(t, evs, wk, g)
  BY <1>1, <1>2, <1>3, <1>4, StepKeeps
<1> QED
  BY <1>5 DEF t

\* The search in lvww_search_timer_cb: it replaces the query that is answered.
LEMMA SearchKeeps ==
    ASSUME RestType, NEW s, NEW g, NEW h, Good(s, events, worker, g),
           "city" \in Provided, s.ui.searching,
           h.reported = g.reported, h.asked = s.ui.input
    PROVE  LET t == Search(s) IN
           /\ Good(t, events, worker, h)
           /\ t.ui.profiles = s.ui.profiles /\ t.ui.last = s.ui.last
           /\ t.ui.input = s.ui.input /\ t.ui.searching = FALSE
<1> DEFINE z == CancelSearch(s)
           id == NextRequest(z, "city")
           r == RwSend(z, "city", id, s.ui.input)
           t == Search(s)
           m == [op |-> "city", id |-> id, data |-> s.ui.input]
           room == HasRoom(s, "city")
           v == [s.ui EXCEPT !.searching = FALSE, !.shown = None,
                             !.req = [@ EXCEPT !["city"] = IF room THEN id ELSE 0]]
<1>1. s \in UiStates /\ s.ui \in UiType /\ UiOK(s, g)
  BY StateParts DEF Good
<1>2. s.ui.input \in Queries /\ s.ui.input # None
  BY <1>1 DEF UiType, UiOK
<1>3. "city" \in Ops /\ s.ui.input \in Data /\ "city" \notin OneAtATime
  BY <1>2 DEF Ops, Data, OneAtATime
<1>4. /\ z \in UiStates /\ z.ui = s.ui /\ z.port.queue = s.port.queue
      /\ z.port.bound = s.port.bound
  BY <1>1, CancelFields
<1>5. Good(z, events, worker, g) /\ Fits(z)
  BY CancelKeeps DEF Good
<1>6. PartOf(events, events)
  BY DEF PartOf
<1> HIDE DEF z
<1>7. id \in Ids /\ id # 0 /\ NewTo(z.port.queue, events, worker, 0, id)
  BY <1>3, <1>5, <1>6, NextIsNew
<1>8. HasRoom(z, "city") <=> room
  BY <1>4 DEF HasRoom
<1> HIDE DEF id
<1>9. /\ r \in UiStates /\ Fits(r) /\ r.ui = z.ui /\ r.port.bound = z.port.bound
      /\ \A w \in Workers : w # WorkerOf("city") => r.port.queue[w] = z.port.queue[w]
      /\ r.port.queue[WorkerOf("city")] =
           IF HasRoom(z, "city") THEN Append(z.port.queue[WorkerOf("city")], m)
           ELSE z.port.queue[WorkerOf("city")]
  BY <1>3, <1>4, <1>5, <1>7, SendFields
<1>10. t = [r EXCEPT !.ui.searching = FALSE, !.ui.shown = None,
                     !.ui.req["city"] = IF room THEN id ELSE 0]
  BY DEF Search, id, z
<1> HIDE DEF r, t, room
<1>11. t = [ui |-> v, port |-> r.port]
  BY <1>1, <1>4, <1>9, <1>10 DEF UiStates, UiType
<1>12. v \in UiType
  BY <1>1, <1>3, <1>7 DEF UiType
<1>13. /\ v.profiles = s.ui.profiles /\ v.last = s.ui.last /\ v.pending = s.ui.pending
       /\ v.input = s.ui.input /\ v.searching = FALSE /\ v.shown = None
       /\ v.req = [s.ui.req EXCEPT !["city"] = IF room THEN id ELSE 0]
       /\ v.wifi = s.ui.wifi
  BY <1>1 DEF UiType
<1> HIDE DEF v
<1>14. t \in UiStates /\ t.ui = v /\ t.port = r.port
  BY <1>9, <1>11, <1>12 DEF UiStates
<1>15. s.ui.req \in [Ops -> Ids \cup {0}]
  BY <1>1 DEF UiType
<1>16. /\ v.req["city"] = IF room THEN id ELSE 0
       /\ \A o \in Ops : o # "city" => v.req[o] = s.ui.req[o]
  BY <1>3, <1>13, <1>15
<1>17. Fits(t)
  BY <1>4, <1>5, <1>9, <1>13, <1>14 DEF Fits
<1>18. Moves(z.ui, g, t.ui, h, 0, id)
  BY <1>4, <1>13, <1>14, <1>16 DEF Moves, Ops
<1>19. UiOK(t, h)
  <2>1. None \notin Queries
    BY WeatherConstants
  <2>2. v.req["connect"] = s.ui.req["connect"]
    BY <1>16 DEF Ops
  <2> QED
    BY <1>1, <1>2, <1>4, <1>9, <1>13, <1>14, <2>1, <2>2 DEF UiOK
<1>20. \A o \in OneAtATime : t.ui.req[o] = z.ui.req[o]
  BY <1>4, <1>14, <1>16 DEF OneAtATime, Ops
<1>21. z.ui.pending = None => t.ui.pending = None
  BY <1>4, <1>13, <1>14
<1>22. Good(t, events, worker, h)
  <2>1. CASE room
    <3>1. m \in Commands
      BY <1>3, <1>7 DEF Commands
    <3>2. CmdOK(m, t.ui, h) /\ m.op = "city"
      BY <1>2 DEF CmdOK
    <3> HIDE DEF m
    <3>3. /\ \A w \in Workers : w # WorkerOf("city") => t.port.queue[w] = z.port.queue[w]
          /\ t.port.queue[WorkerOf("city")] = Append(z.port.queue[WorkerOf("city")], m)
      BY <1>8, <1>9, <1>14, <2>1
    <3>4. Sends(z, events, worker, g, t, h, 0, id, "city", m)
      BY <1>3, <1>7, <1>8, <1>14, <1>17, <1>18, <1>19, <1>20, <1>21, <2>1, <3>1, <3>2, <3>3
         DEF Sends
    <3> QED
      BY <1>5, <3>4, SendKeeps
  <2>2. CASE ~room
    <3>1. t.port.queue = z.port.queue
      BY <1>4, <1>8, <1>9, <1>14, <2>2, QueueSame
    <3>2. Len(t.ui.profiles) <= MaxProfiles
      BY <1>17 DEF Fits
    <3> QED
      BY <1>5, <1>7, <1>14, <1>18, <1>19, <1>20, <1>21, <3>1, <3>2, StepKeeps
  <2> QED
    BY <2>1, <2>2
<1> QED
  BY <1>13, <1>14, <1>22 DEF t

-----------------------------------------------------------------------------
(* The handlers and timers of the LVGL thread *)

\* Here as a state.
LEMMA HereParts ==
    ASSUME IInv
    PROVE  /\ Here.ui = ui /\ Here.port = port /\ Here \in UiStates
           /\ ui \in UiType /\ port \in PortType /\ UiOK(Here, ghost)
           /\ Good(Here, events, worker, ghost) /\ PartOf(events, events)
           /\ port.queue \in [Workers -> Seq(Commands)]
           /\ NewTo(port.queue, events, worker, 0, 0)
<1>1. Here.ui = ui /\ Here.port = port
  BY DEF Here
<1>2. Good(Here, events, worker, ghost) /\ Here \in UiStates /\ UiOK(Here, ghost)
      /\ EvsOK(events, ui, ghost) /\ WorkersOK(worker, ui, ghost)
  BY <1>1 DEF IInv, Good
<1>3. ui \in UiType /\ port \in PortType
  BY <1>1, <1>2, StateParts
<1>4. port.queue \in [Workers -> Seq(Commands)]
  BY <1>3 DEF PortType
<1>5. NewTo(port.queue, events, worker, 0, 0)
  BY <1>2, <1>4, NoneIsNew
<1> QED
  BY <1>1, <1>2, <1>3, <1>4, <1>5 DEF PartOf

\* A step of the LVGL thread keeps the invariant if its result satisfies it with the
\* history that the step leaves.
LEMMA UiStepInv ==
    ASSUME IInv, NEW s, UiStep(s), spent' \in 0 .. MaxSteps,
           NEW h, Good(s, events, worker, h), h.reported = ghost.reported,
           h.asked = IF s.ui.input = None THEN None
                     ELSE IF ui.searching /\ ~s.ui.searching THEN s.ui.input ELSE ghost.asked,
           LastOK(s.ui, ghost)
    PROVE  IInv'
<1>1. s \in UiStates /\ s.ui \in UiType /\ s = [ui |-> s.ui, port |-> s.port]
  BY StateParts DEF Good
<1>2. ui' = s.ui /\ port' = s.port /\ worker' = worker /\ events' = events /\ link' = link
  BY DEF UiStep, Commit
<1>3. Here' = s
  BY <1>1, <1>2 DEF Here
<1>4. ghost \in GhostType /\ s.ui.input \in Queries \cup {None}
  BY <1>1 DEF IInv, RestType, UiType
<1>5. ghost' = [ghost EXCEPT !.lost = StillLost(s), !.asked = h.asked]
  BY DEF UiStep
<1>6. StillLost(s) \in SUBSET Ops /\ h.asked \in Queries \cup {None}
  BY <1>4 DEF StillLost, GhostType
<1>7. /\ ghost' \in GhostType /\ ghost'.reported = h.reported /\ ghost'.asked = h.asked
      /\ ghost'.saved = ghost.saved
  <2> DEFINE L == StillLost(s)
  <2> HIDE DEF L
  <2> QED
    BY <1>4, <1>5, <1>6 DEF GhostType, L
<1>8. Good(s, events, worker, ghost')
  BY <1>7, GoodGhost
<1>9. Good(Here, events, worker, ghost)'
  BY <1>2, <1>3, <1>8
<1>10. RestType'
  BY <1>2, <1>7 DEF IInv, RestType
<1>11. LastOK(ui, ghost)'
  BY <1>2, <1>7 DEF LastOK
<1> QED
  BY <1>9, <1>10, <1>11 DEF IInv

\* Most steps leave the input, and with it the last query, alone.
LEMMA PlainStepInv ==
    ASSUME IInv, NEW s, UiStep(s), spent' \in 0 .. MaxSteps,
           Good(s, events, worker, ghost), LastOK(s.ui, ghost),
           s.ui.input = ui.input, s.ui.searching = ui.searching
    PROVE  IInv'
<1>1. ui.input = None => ghost.asked = None
  BY HereParts DEF UiOK
<1>2. ghost.asked = IF s.ui.input = None THEN None
                    ELSE IF ui.searching /\ ~s.ui.searching THEN s.ui.input ELSE ghost.asked
  BY <1>1
<1> QED
  BY <1>2, UiStepInv

\* A step that only makes requests.
LEMMA RequestInv ==
    ASSUME IInv, NEW s, UiStep(s), spent' \in 0 .. MaxSteps,
           Good(s, events, worker, ghost), Besides(Here, s)
    PROVE  IInv'
<1>1. LastOK(s.ui, ghost) /\ s.ui.input = ui.input /\ s.ui.searching = ui.searching
  BY HereParts DEF Besides, LastOK, IInv
<1> QED
  BY <1>1, PlainStepInv

\* The clock timer, the scan button and the disconnection.
LEMMA ButtonsInv ==
    ASSUME IInv, spent' \in 0 .. MaxSteps,
           Scan \/ Disconnect \/ \E due \in SUBSET Timed : ClockTimer(due)
    PROVE  IInv'
<1>1. RestType /\ Good(Here, events, worker, ghost) /\ PartOf(events, events)
  BY HereParts DEF IInv
<1>2. CASE Scan
  BY <1>1, <1>2, ScanKeeps, RequestInv DEF Scan
<1>3. CASE Disconnect
  BY <1>1, <1>3, DisconnectKeeps, RequestInv DEF Disconnect
<1>4. ASSUME NEW due \in SUBSET Timed, ClockTimer(due) PROVE IInv'
  <2> DEFINE t == IF ~ui.clock \/ "time" \in due THEN RequestTime(Here) ELSE Here
             r == IF ui.weather = None \/ "weather" \in due THEN RequestWeather(t) ELSE t
  <2>1. UiStep(r)
    BY <1>4 DEF ClockTimer
  <2>2. Good(t, events, worker, ghost) /\ Besides(Here, t)
    BY <1>1, TimeWeatherKeeps DEF Besides
  <2> HIDE DEF t
  <2>3. Good(RequestWeather(t), events, worker, ghost) /\ Besides(t, RequestWeather(t))
    BY <1>1, <2>2, TimeWeatherKeeps
  <2>4. Good(r, events, worker, ghost) /\ Besides(Here, r)
    BY <2>2, <2>3, BesidesBoth
  <2> HIDE DEF r
  <2> QED
    BY <2>1, <2>4, RequestInv
<1> QED
  BY <1>2, <1>3, <1>4

\* The editor sends the credentials.
LEMMA EditorSubmitInv ==
    ASSUME IInv, spent' \in 0 .. MaxSteps,
           NEW c \in Credentials, NEW saved \in BOOLEAN, EditorSubmit(c, saved)
    PROVE  IInv'
<1>1. RestType /\ Good(Here, events, worker, ghost) /\ PartOf(events, events)
      /\ Here.port = port
  BY HereParts DEF IInv
<1>2. port.bound /\ UiStep(RequestConnect(Here, c))
  BY DEF EditorSubmit, UiStep
<1>3. NoLinkOnline(events)
  BY DEF EditorSubmit, NoLinkOnline, LinkOnline
<1>4. Good(RequestConnect(Here, c), events, worker, ghost)
      /\ Besides(Here, RequestConnect(Here, c))
  BY <1>1, <1>2, <1>3, ConnectKeeps
<1> QED
  BY <1>2, <1>4, RequestInv

\* What removing an element does to a list.
LEMMA RemoveFromList ==
    ASSUME NEW S, NEW q \in Seq(S), NEW i \in 1 .. Len(q)
    PROVE  LET r == RemoveAt(q, i) IN
           /\ r \in Seq(S) /\ Len(r) = Len(q) - 1
           /\ \A j \in 1 .. Len(r) : r[j] = IF j < i THEN q[j] ELSE q[j + 1]
<1> DEFINE a == SubSeq(q, 1, i - 1)
           b == SubSeq(q, i + 1, Len(q))
           n == Len(q)
<1>1. n \in Nat /\ i \in Nat /\ 1 <= i /\ i <= n /\ \A j \in 1 .. n : q[j] \in S
  BY LenProperties, ElementOfSeq
<1>2. /\ a \in Seq(S) /\ Len(a) = IF 1 <= i - 1 THEN i - 1 - 1 + 1 ELSE 0
      /\ \A j \in 1 .. i - 1 - 1 + 1 : a[j] = q[1 + j - 1]
  <2>1. \A j \in 1 .. i - 1 : q[j] \in S
    BY <1>1
  <2>2. 1 \in Int /\ i - 1 \in Int
    BY <1>1
  <2> QED
    BY <2>1, <2>2, SubSeqProperties
<1>3. /\ b \in Seq(S) /\ Len(b) = IF i + 1 <= n THEN n - (i + 1) + 1 ELSE 0
      /\ \A j \in 1 .. n - (i + 1) + 1 : b[j] = q[i + 1 + j - 1]
  <2>1. \A j \in i + 1 .. n : q[j] \in S
    BY <1>1
  <2>2. i + 1 \in Int /\ n \in Int
    BY <1>1
  <2> QED
    BY <2>1, <2>2, SubSeqProperties
<1> HIDE DEF a, b, n
<1>4. /\ Len(a) = i - 1 /\ \A j \in 1 .. i - 1 : a[j] = q[j]
      /\ Len(b) = n - i /\ \A j \in 1 .. n - i : b[j] = q[i + j]
  BY <1>1, <1>2, <1>3
<1>5. /\ a \o b \in Seq(S) /\ Len(a \o b) = Len(a) + Len(b)
      /\ \A j \in 1 .. Len(a) + Len(b) : (a \o b)[j] =
           IF j <= Len(a) THEN a[j] ELSE b[j - Len(a)]
  BY <1>2, <1>3, ConcatProperties
<1>6. Len(a \o b) = n - 1
  BY <1>1, <1>4, <1>5
<1>7. ASSUME NEW j \in 1 .. n - 1
      PROVE  (a \o b)[j] = IF j < i THEN q[j] ELSE q[j + 1]
  <2>1. CASE j < i
    BY <1>1, <1>4, <1>5, <2>1
  <2>2. CASE ~(j < i)
    <3>1. j - (i - 1) \in 1 .. n - i /\ i + (j - (i - 1)) = j + 1
      BY <1>1, <2>2
    <3>2. (a \o b)[j] = b[j - (i - 1)]
      BY <1>1, <1>4, <1>5, <2>2
    <3> QED
      BY <1>4, <2>2, <3>1, <3>2
  <2> QED
    BY <2>1, <2>2
<1> QED
  BY <1>5, <1>6, <1>7 DEF RemoveAt, a, b, n

\* Deleting a profile keeps the list right and the index of the last network on its profile.
LEMMA DeleteKeeps ==
    ASSUME NEW u \in UiType, Len(u.profiles) <= MaxProfiles, NEW g, LastOK(u, g),
           \A i \in 1 .. Len(u.profiles) : u.profiles[i] \in g.reported,
           NEW i \in 1 .. Len(u.profiles)
    PROVE  LET v == DeleteProfile(u, i) IN
           /\ v \in UiType /\ Len(v.profiles) <= MaxProfiles /\ LastOK(v, g)
           /\ \A j \in 1 .. Len(v.profiles) : v.profiles[j] \in g.reported
           /\ v.req = u.req /\ v.pending = u.pending /\ v.wifi = u.wifi
           /\ v.input = u.input /\ v.searching = u.searching /\ v.shown = u.shown
<1> DEFINE r == RemoveAt(u.profiles, i)
           l == IF u.last = i THEN 0 ELSE IF u.last > i THEN u.last - 1 ELSE u.last
           v == DeleteProfile(u, i)
           n == Len(u.profiles)
<1>1. u.profiles \in Seq(Credentials) /\ u.last \in 0 .. MaxProfiles /\ n \in Nat
  BY LenProperties DEF UiType
<1>2. /\ r \in Seq(Credentials) /\ Len(r) = n - 1
      /\ \A j \in 1 .. Len(r) : r[j] = IF j < i THEN u.profiles[j] ELSE u.profiles[j + 1]
  BY <1>1, RemoveFromList
<1> HIDE DEF r, n
<1>3. i \in 1 .. n
  BY DEF n
<1>4. l \in 0 .. MaxProfiles
  BY <1>1, <1>3, Depths
<1>5. l # 0 => l <= Len(r) /\ r[l] = g.saved
  <2>1. u.last # 0 => u.last <= n /\ u.profiles[u.last] = g.saved
    BY DEF LastOK, n
  <2>2. CASE u.last = i \/ u.last = 0
    BY <1>1, <1>3, <2>2
  <2>3. CASE u.last > i
    <3>1. l = u.last - 1 /\ l \in 1 .. Len(r) /\ ~(l < i) /\ l + 1 = u.last
      BY <1>1, <1>2, <1>3, <2>1, <2>3
    <3> QED
      BY <1>2, <2>1, <3>1
  <2>4. CASE u.last < i /\ u.last # 0
    <3>1. l = u.last /\ l \in 1 .. Len(r) /\ l < i
      BY <1>1, <1>2, <1>3, <2>1, <2>4
    <3> QED
      BY <1>2, <2>1, <2>4, <3>1
  <2> QED
    BY <1>1, <1>3, <2>2, <2>3, <2>4
<1>6. \A j \in 1 .. Len(r) : r[j] \in g.reported
  <2>1. \A j \in 1 .. Len(r) : j \in 1 .. n /\ j + 1 \in 1 .. n
    BY <1>1, <1>2
  <2> QED
    BY <1>2, <2>1 DEF n
<1> HIDE DEF l
<1>7. v = [u EXCEPT !.profiles = r, !.last = l]
  BY DEF DeleteProfile, r, l
<1>8. /\ v \in UiType /\ v.profiles = r /\ v.last = l
      /\ v.req = u.req /\ v.pending = u.pending /\ v.wifi = u.wifi
      /\ v.input = u.input /\ v.searching = u.searching /\ v.shown = u.shown
  BY <1>2, <1>4, <1>7 DEF UiType
<1>9. Len(r) <= MaxProfiles
  BY <1>1, <1>2, Depths DEF n
<1> HIDE DEF v
<1> QED
  BY <1>5, <1>6, <1>8, <1>9 DEF LastOK, v

\* A change of the context that concerns no request and no answer.
LEMMA ContextKeeps ==
    ASSUME NEW s, NEW evs, NEW wk, NEW g, Good(s, evs, wk, g),
           NEW v \in UiType, Len(v.profiles) <= MaxProfiles,
           v.req = s.ui.req, v.pending = s.ui.pending, UiOK([ui |-> v, port |-> s.port], g)
    PROVE  Good([ui |-> v, port |-> s.port], evs, wk, g)
<1> DEFINE t == [ui |-> v, port |-> s.port]
<1>1. s \in UiStates /\ s.port \in PortType /\ s.port.queue \in [Workers -> Seq(Commands)]
  BY StateParts DEF Good, UiStates, PortType
<1>2. t \in UiStates /\ t.ui = v /\ t.port = s.port /\ UiOK(t, g)
  BY <1>1 DEF UiStates
<1> HIDE DEF t
<1>3. NewTo(s.port.queue, evs, wk, 0, 0)
  BY <1>1, NoneIsNew DEF Good
<1>4. Moves(s.ui, g, t.ui, g, 0, 0)
  BY <1>2 DEF Moves
<1>5. Good(t, evs, wk, g)
  BY <1>2, <1>3, <1>4, StepKeeps
<1> QED
  BY <1>5 DEF t

\* The editor deletes a profile, and disconnects if it is the one in use.
LEMMA EditorDeleteInv ==
    ASSUME IInv, spent' \in 0 .. MaxSteps, NEW i \in 1 .. Len(ui.profiles), EditorDelete(i)
    PROVE  IInv'
<1> DEFINE v == DeleteProfile(ui, i)
           s == [ui |-> v, port |-> port]
           t == IF ui.wifi = "ONLINE" /\ ui.connected = ui.profiles[i].ssid
                THEN RequestDisconnect(s) ELSE s
<1>1. /\ ui \in UiType /\ Len(ui.profiles) <= MaxProfiles /\ LastOK(ui, ghost)
      /\ \A j \in 1 .. Len(ui.profiles) : ui.profiles[j] \in ghost.reported
      /\ UiOK(Here, ghost) /\ Good(Here, events, worker, ghost) /\ PartOf(events, events)
      /\ RestType /\ Here.ui = ui /\ Here.port = port
  BY HereParts DEF IInv, Good, Fits, UiOK
<1>2. /\ v \in UiType /\ Len(v.profiles) <= MaxProfiles /\ LastOK(v, ghost)
      /\ \A j \in 1 .. Len(v.profiles) : v.profiles[j] \in ghost.reported
      /\ v.req = ui.req /\ v.pending = ui.pending /\ v.wifi = ui.wifi
      /\ v.input = ui.input /\ v.searching = ui.searching /\ v.shown = ui.shown
  BY <1>1, DeleteKeeps
<1>3. [Here EXCEPT !.ui = v] = s
  BY DEF Here
<1>4. UiStep(t)
  BY <1>3 DEF EditorDelete
<1> HIDE DEF v
<1>5. s.ui = v /\ s.port = port
  OBVIOUS
<1>6. UiOK(s, ghost)
  BY <1>1, <1>2 DEF UiOK
<1>7. Good(s, events, worker, ghost)
  BY <1>1, <1>2, <1>6, ContextKeeps
<1> HIDE DEF s
<1>8. Good(RequestDisconnect(s), events, worker, ghost) /\ Besides(s, RequestDisconnect(s))
  BY <1>1, <1>7, DisconnectKeeps
<1>9. Good(t, events, worker, ghost) /\ Besides(s, t)
  BY <1>7, <1>8 DEF Besides
<1> HIDE DEF t
<1>10. LastOK(t.ui, ghost) /\ t.ui.input = ui.input /\ t.ui.searching = ui.searching
  BY <1>2, <1>5, <1>9 DEF Besides, LastOK
<1> QED
  BY <1>4, <1>9, <1>10, PlainStepInv

\* Fewer than two characters: the search is given up.
LEMMA ShortInputInv ==
    ASSUME IInv, spent' \in 0 .. MaxSteps, ShortInput
    PROVE  IInv'
<1> DEFINE z == CancelSearch(Here)
           v == [ui EXCEPT !.req = [@ EXCEPT !["city"] = 0], !.input = None,
                           !.searching = FALSE, !.shown = "catalog"]
           s == [ui |-> v, port |-> z.port]
           h == [reported |-> ghost.reported, asked |-> None]
<1>1. /\ ui \in UiType /\ Len(ui.profiles) <= MaxProfiles /\ LastOK(ui, ghost)
      /\ UiOK(Here, ghost) /\ Good(Here, events, worker, ghost) /\ RestType
      /\ Here \in UiStates /\ Here.ui = ui /\ Here.port = port
      /\ NewTo(port.queue, events, worker, 0, 0)
  BY HereParts DEF IInv, Good, Fits
<1>2. /\ z \in UiStates /\ z.ui = ui /\ z.port.queue = port.queue
      /\ z.port.bound = port.bound
  BY <1>1, CancelFields
<1>3. UiStep([z EXCEPT !.ui.req["city"] = 0, !.ui.input = None,
                       !.ui.searching = FALSE, !.ui.shown = "catalog"])
  BY DEF ShortInput
<1> HIDE DEF z
<1>4. [z EXCEPT !.ui.req["city"] = 0, !.ui.input = None,
                !.ui.searching = FALSE, !.ui.shown = "catalog"] = s
  <2>1. [z EXCEPT !.ui.req["city"] = 0, !.ui.input = None,
                  !.ui.searching = FALSE, !.ui.shown = "catalog"] =
        [z EXCEPT !.ui = [z.ui EXCEPT !.req = [@ EXCEPT !["city"] = 0], !.input = None,
                                      !.searching = FALSE, !.shown = "catalog"]]
    BY <1>2 DEF UiStates
  <2> QED
    BY <1>2, <2>1 DEF UiStates
<1>5. "city" \in Ops /\ ui.req \in [Ops -> Ids \cup {0}]
  BY <1>1 DEF UiType, Ops
<1>6. v \in UiType
  BY <1>1, <1>5 DEF UiType
<1>7. /\ v.profiles = ui.profiles /\ v.last = ui.last /\ v.pending = ui.pending
      /\ v.input = None /\ v.searching = FALSE /\ v.shown = "catalog" /\ v.wifi = ui.wifi
      /\ v.req["city"] = 0 /\ \A o \in Ops : o # "city" => v.req[o] = ui.req[o]
  BY <1>1, <1>5 DEF UiType
<1> HIDE DEF v
<1>8. s \in UiStates /\ s.ui = v /\ s.port = z.port
  BY <1>2, <1>6 DEF UiStates
<1> HIDE DEF s
<1>9. h.reported = ghost.reported /\ h.asked = None
  OBVIOUS
<1> HIDE DEF h
<1>10. UiOK(s, h)
  <2>1. "catalog" \notin Queries /\ v.req["connect"] = ui.req["connect"]
    BY <1>7, WeatherConstants DEF Ops
  <2> QED
    BY <1>1, <1>2, <1>7, <1>8, <1>9, <2>1 DEF UiOK
<1>11. Moves(ui, ghost, s.ui, h, 0, 0)
  BY <1>7, <1>8, <1>9 DEF Moves, Ops
<1>12. \A o \in OneAtATime : s.ui.req[o] = ui.req[o]
  BY <1>7, <1>8 DEF OneAtATime, Ops
<1>13. Good(s, events, worker, h)
  <2>1. /\ s.port.queue = Here.port.queue
        /\ Here.ui.pending = None => s.ui.pending = None
        /\ Len(s.ui.profiles) <= MaxProfiles
    BY <1>1, <1>2, <1>7, <1>8
  <2> QED
    BY <1>1, <1>8, <1>10, <1>11, <1>12, <2>1, StepKeeps
<1>14. LastOK(s.ui, ghost) /\ s.ui.input = None
  BY <1>1, <1>7, <1>8 DEF LastOK
<1> QED
  BY <1>3, <1>4, <1>9, <1>13, <1>14, UiStepInv

\* More characters: the search timer is started.
LEMMA InputInv ==
    ASSUME IInv, spent' \in 0 .. MaxSteps, NEW q \in Queries, Input(q)
    PROVE  IInv'
<1> DEFINE v == [ui EXCEPT !.input = q, !.searching = TRUE]
           s == [ui |-> v, port |-> port]
<1>1. /\ ui \in UiType /\ Len(ui.profiles) <= MaxProfiles /\ LastOK(ui, ghost)
      /\ UiOK(Here, ghost) /\ Good(Here, events, worker, ghost) /\ RestType
      /\ Here.ui = ui /\ Here.port = port
  BY HereParts DEF IInv, Good, Fits
<1>2. UiStep(s)
  <2>1. [Here EXCEPT !.ui.input = q, !.ui.searching = TRUE] = s
    <3>1. [Here EXCEPT !.ui.input = q, !.ui.searching = TRUE] = [Here EXCEPT !.ui = [Here.ui EXCEPT !.input = q, !.searching = TRUE]]
      BY HereParts DEF UiStates
    <3> QED
      BY <1>1, <3>1 DEF Here
  <2> QED
    BY <2>1 DEF Input
<1>3. /\ v \in UiType /\ v.profiles = ui.profiles /\ v.last = ui.last
      /\ v.pending = ui.pending /\ v.req = ui.req /\ v.wifi = ui.wifi /\ v.shown = ui.shown
      /\ v.input = q /\ v.searching = TRUE
  BY <1>1 DEF UiType
<1>4. q # None
  BY WeatherConstants
<1> HIDE DEF v
<1>5. s.ui = v /\ s.port = port
  OBVIOUS
<1>6. UiOK(s, ghost)
  BY <1>1, <1>3, <1>4, <1>5 DEF UiOK
<1>7. Good(s, events, worker, ghost)
  BY <1>1, <1>3, <1>6, ContextKeeps
<1>8. LastOK(s.ui, ghost) /\ s.ui.input # None /\ s.ui.searching
  BY <1>1, <1>3, <1>4, <1>5 DEF LastOK
<1>9. ghost.asked = IF s.ui.input = None THEN None
                    ELSE IF ui.searching /\ ~s.ui.searching THEN s.ui.input ELSE ghost.asked
  BY <1>8
<1> HIDE DEF s
<1> QED
  BY <1>2, <1>7, <1>8, <1>9, UiStepInv

\* The search timer.
LEMMA SearchTimerInv ==
    ASSUME IInv, spent' \in 0 .. MaxSteps, SearchTimer
    PROVE  IInv'
<1> DEFINE h == [reported |-> ghost.reported, asked |-> ui.input]
           v == [ui EXCEPT !.searching = FALSE]
           s == [ui |-> v, port |-> port]
<1>1. /\ ui \in UiType /\ Len(ui.profiles) <= MaxProfiles /\ LastOK(ui, ghost)
      /\ UiOK(Here, ghost) /\ Good(Here, events, worker, ghost) /\ RestType
      /\ Here \in UiStates /\ Here.ui = ui /\ Here.port = port /\ port \in PortType
  BY HereParts DEF IInv, Good, Fits
<1>2. ui.searching /\ ui.input # None
  BY <1>1 DEF SearchTimer, UiOK
<1>3. h.reported = ghost.reported /\ h.asked = ui.input
  OBVIOUS
<1> HIDE DEF h
<1>4. CASE "city" \in Provided
  <2> DEFINE t == Search(Here)
  <2>1. UiStep(t)
    BY <1>4 DEF SearchTimer
  <2>2. /\ Good(t, events, worker, h)
        /\ t.ui.profiles = ui.profiles /\ t.ui.last = ui.last
        /\ t.ui.input = ui.input /\ t.ui.searching = FALSE
    BY <1>1, <1>2, <1>3, <1>4, SearchKeeps
  <2> HIDE DEF t
  <2>3. LastOK(t.ui, ghost)
    BY <1>1, <2>2 DEF LastOK
  <2>4. h.asked = IF t.ui.input = None THEN None
                  ELSE IF ui.searching /\ ~t.ui.searching THEN t.ui.input ELSE ghost.asked
    BY <1>2, <1>3, <2>2
  <2> QED
    BY <1>3, <2>1, <2>2, <2>3, <2>4, UiStepInv
<1>5. CASE "city" \notin Provided
  <2>1. [Here EXCEPT !.ui.searching = FALSE] = s
    <3>1. [Here EXCEPT !.ui.searching = FALSE] = [Here EXCEPT !.ui = [Here.ui EXCEPT !.searching = FALSE]]
      BY HereParts DEF UiStates
    <3>2. Here.ui = ui
      BY <1>1
    <3> HIDE DEF v
    <3>3. [Here EXCEPT !.ui = v] = s
      BY DEF Here
    <3> QED
      BY <3>1, <3>2, <3>3 DEF v
  <2>2. UiStep(s)
    BY <1>5, <2>1 DEF SearchTimer
  <2>3. /\ v \in UiType /\ v.profiles = ui.profiles /\ v.last = ui.last
        /\ v.pending = ui.pending /\ v.req = ui.req /\ v.wifi = ui.wifi /\ v.shown = ui.shown
        /\ v.input = ui.input /\ v.searching = FALSE
    BY <1>1 DEF UiType
  <2> HIDE DEF v
  <2>4. s \in UiStates /\ s.ui = v /\ s.port = port
    BY <1>1, <2>3 DEF UiStates
  <2> HIDE DEF s
  <2>5. UiOK(s, h)
    BY <1>1, <1>2, <1>3, <1>5, <2>3, <2>4 DEF UiOK
  <2>6. NewTo(port.queue, events, worker, 0, ui.req["city"])
    <3>1. NewTo(port.queue, events, worker, 0, 0)
      BY HereParts
    <3>2. CmdsOK(port.queue, ui, ghost) /\ EvsOK(events, ui, ghost)
          /\ WorkersOK(worker, ui, ghost)
      BY <1>1 DEF Good
    <3> QED
      BY <1>5, <3>1, <3>2 DEF NewTo, Apart, CmdsOK, EvsOK, WorkersOK, WorkerOK, CmdOK, EvOK
  <2>7. Moves(ui, ghost, s.ui, h, 0, ui.req["city"])
    BY <1>3, <2>3, <2>4 DEF Moves
  <2>8. Good(s, events, worker, h)
    BY <1>1, <2>3, <2>4, <2>5, <2>6, <2>7, StepKeeps
  <2>9. LastOK(s.ui, ghost)
    BY <1>1, <2>3, <2>4 DEF LastOK
  <2>10. h.asked = IF s.ui.input = None THEN None
                   ELSE IF ui.searching /\ ~s.ui.searching THEN s.ui.input ELSE ghost.asked
    BY <1>2, <1>3, <2>3, <2>4
  <2> QED
    BY <1>3, <2>2, <2>8, <2>9, <2>10, UiStepInv
<1> QED
  BY <1>4, <1>5

\* A city is selected.
LEMMA SelectCityInv ==
    ASSUME IInv, spent' \in 0 .. MaxSteps, NEW c \in Cities, SelectCity(c)
    PROVE  IInv'
<1> DEFINE v == [ui EXCEPT !.city = c, !.weather = None]
           s == [ui |-> v, port |-> port]
           t == RequestWeather(s)
<1>1. /\ ui \in UiType /\ Len(ui.profiles) <= MaxProfiles /\ LastOK(ui, ghost)
      /\ UiOK(Here, ghost) /\ Good(Here, events, worker, ghost) /\ RestType
      /\ Here.ui = ui /\ Here.port = port /\ PartOf(events, events)
  BY HereParts DEF IInv, Good, Fits
<1>2. UiStep(t)
  <2>1. [Here EXCEPT !.ui.city = c, !.ui.weather = None] = s
    <3>1. [Here EXCEPT !.ui.city = c, !.ui.weather = None] = [Here EXCEPT !.ui = [Here.ui EXCEPT !.city = c, !.weather = None]]
      BY HereParts DEF UiStates
    <3> QED
      BY <1>1, <3>1 DEF Here
  <2> QED
    BY <2>1 DEF SelectCity
<1>3. /\ v \in UiType /\ v.profiles = ui.profiles /\ v.last = ui.last
      /\ v.pending = ui.pending /\ v.req = ui.req /\ v.wifi = ui.wifi /\ v.shown = ui.shown
      /\ v.input = ui.input /\ v.searching = ui.searching
  BY <1>1 DEF UiType
<1> HIDE DEF v
<1>4. s.ui = v /\ s.port = port
  OBVIOUS
<1>5. UiOK(s, ghost)
  BY <1>1, <1>3, <1>4 DEF UiOK
<1>6. Good(s, events, worker, ghost)
  BY <1>1, <1>3, <1>5, ContextKeeps
<1> HIDE DEF s
<1>7. Good(t, events, worker, ghost) /\ Besides(s, t)
  BY <1>1, <1>6, TimeWeatherKeeps
<1> HIDE DEF t
<1>8. LastOK(t.ui, ghost) /\ t.ui.input = ui.input /\ t.ui.searching = ui.searching
  BY <1>1, <1>3, <1>4, <1>7 DEF Besides, LastOK
<1> QED
  BY <1>2, <1>7, <1>8, PlainStepInv

\* A retry deadline is reached.
LEMMA RetryDueInv ==
    ASSUME IInv, spent' \in 0 .. MaxSteps, NEW op \in Timed, RetryDue(op)
    PROVE  IInv'
<1> DEFINE v == [ui EXCEPT !.wait[op] = FALSE]
           s == [ui |-> v, port |-> port]
<1>1. /\ ui \in UiType /\ Len(ui.profiles) <= MaxProfiles /\ LastOK(ui, ghost)
      /\ UiOK(Here, ghost) /\ Good(Here, events, worker, ghost) /\ RestType
      /\ Here.ui = ui /\ Here.port = port
  BY HereParts DEF IInv, Good, Fits
<1>2. /\ v \in UiType /\ v.profiles = ui.profiles /\ v.last = ui.last
      /\ v.pending = ui.pending /\ v.req = ui.req /\ v.wifi = ui.wifi /\ v.shown = ui.shown
      /\ v.input = ui.input /\ v.searching = ui.searching
  BY <1>1 DEF UiType
<1>3. /\ ui' = v /\ port' = port /\ worker' = worker /\ events' = events
      /\ link' = link /\ ghost' = ghost
  BY DEF RetryDue
<1> HIDE DEF v
<1>4. s.ui = v /\ s.port = port
  OBVIOUS
<1>5. UiOK(s, ghost)
  BY <1>1, <1>2, <1>4 DEF UiOK
<1>6. Good(s, events, worker, ghost)
  BY <1>1, <1>2, <1>5, ContextKeeps
<1>7. Here' = s
  BY <1>3 DEF Here
<1>8. Good(Here, events, worker, ghost)'
  BY <1>3, <1>6, <1>7
<1>9. RestType' /\ LastOK(ui, ghost)'
  BY <1>1, <1>2, <1>3 DEF RestType, LastOK
<1> QED
  BY <1>8, <1>9 DEF IInv

-----------------------------------------------------------------------------
(* The pump *)

\* A non-empty set of numbers has a least element.
LEMMA LeastNumber ==
    ASSUME NEW T, T \subseteq Nat, T # {}
    PROVE  \E x \in T : \A y \in T : x <= y
<1> DEFINE R == OpToRel(<, Nat)
<1>1. IsWellFoundedOn(R, Nat)
  BY NatLessThanWellFounded
<1>2. R = {p \in Nat \X Nat : p[1] < p[2]}
  BY DEF OpToRel
<1> HIDE DEF R
<1>3. PICK x \in T : \A y \in T : ~(<<y, x>> \in R)
  BY <1>1, WFMin
<1>4. \A i, j \in Nat : i < j => <<i, j>> \in R
  BY <1>2
<1>5. \A y \in T : ~(y < x)
  BY <1>3, <1>4, Zenon
<1>6. \A y \in T : x <= y
  BY <1>5
<1> QED
  BY <1>6

\* lvww_find_profile gives a position of the list or 0.
LEMMA FindInList ==
    ASSUME NEW u, u.profiles \in Seq(Credentials), NEW ssid
    PROVE  FindProfile(u, ssid) \in 0 .. Len(u.profiles)
<1> DEFINE at == {i \in 1 .. Len(u.profiles) : u.profiles[i].ssid = ssid}
<1>1. Len(u.profiles) \in Nat
  BY LenProperties
<1>2. at \subseteq Nat /\ at \subseteq 0 .. Len(u.profiles) /\ 0 \in 0 .. Len(u.profiles)
  BY <1>1
<1>3. FindProfile(u, ssid) =
        IF at = {} THEN 0 ELSE CHOOSE i \in at : \A j \in at : i <= j
  BY DEF FindProfile
<1> HIDE DEF at
<1>4. at # {} => \E i \in at : \A j \in at : i <= j
  BY <1>2, LeastNumber
<1>5. at # {} => (CHOOSE i \in at : \A j \in at : i <= j) \in at
  BY <1>4
<1> QED
  BY <1>2, <1>3, <1>5

\* The profile that is stored on success is the pending one, and becomes the last network.
LEMMA UpsertKeeps ==
    ASSUME NEW u \in UiType, Len(u.profiles) <= MaxProfiles, NEW J,
           \A i \in 1 .. Len(u.profiles) : u.profiles[i] \in J,
           u.pending # None => u.pending \in J
    PROVE  LET v == UpsertPendingProfile(u) IN
           /\ v \in UiType /\ Len(v.profiles) <= MaxProfiles
           /\ \A i \in 1 .. Len(v.profiles) : v.profiles[i] \in J
           /\ \/ v.profiles = u.profiles /\ v.last = u.last
              \/ v.last \in 1 .. Len(v.profiles) /\ v.profiles[v.last] = u.pending
           /\ v.pending \in {None, u.pending}
           /\ v.req = u.req /\ v.wait = u.wait /\ v.input = u.input
           /\ v.searching = u.searching /\ v.shown = u.shown
<1> DEFINE v == UpsertPendingProfile(u)
           at == FindProfile(u, u.pending.ssid)
           q == u.profiles
           n == Len(q)
<1>1. q \in Seq(Credentials) /\ n \in Nat /\ u.pending \in Credentials \cup {None}
  BY LenProperties DEF UiType
<1>2. at \in 0 .. n
  BY <1>1, FindInList
<1>3. MaxProfiles \in Nat /\ n <= MaxProfiles
  BY Depths
<1>4. v = IF u.pending = None THEN u
          ELSE IF at # 0
          THEN [u EXCEPT !.profiles[at] = u.pending, !.last = at, !.pending = None]
          ELSE IF n >= MaxProfiles THEN u
          ELSE [u EXCEPT !.profiles = Append(@, u.pending),
                         !.last = n + 1, !.pending = None]
  BY DEF UpsertPendingProfile
<1> HIDE DEF v, at, n
<1>5. CASE u.pending = None \/ (at = 0 /\ n >= MaxProfiles)
  <2>1. v = u
    BY <1>4, <1>5
  <2> QED
    BY <2>1 DEF v
<1>6. CASE u.pending # None /\ at # 0
  <2> DEFINE r == [q EXCEPT ![at] = u.pending]
  <2>1. at \in 1 .. n /\ at \in 0 .. MaxProfiles
    BY <1>1, <1>2, <1>3, <1>6
  <2>2. u.pending \in Credentials
    BY <1>1, <1>6
  <2>3. r \in Seq(Credentials) /\ Len(r) = n
        /\ \A i \in 1 .. n : r[i] = IF i = at THEN u.pending ELSE q[i]
    BY <1>1, <2>1, <2>2, ExceptSeq DEF n
  <2>4. v = [u EXCEPT !.profiles = r, !.last = at, !.pending = None]
    BY <1>4, <1>6 DEF UiType
  <2> HIDE DEF r
  <2>5. /\ v \in UiType /\ v.profiles = r /\ v.last = at /\ v.pending = None
        /\ v.req = u.req /\ v.wait = u.wait /\ v.input = u.input
        /\ v.searching = u.searching /\ v.shown = u.shown
    BY <2>1, <2>3, <2>4 DEF UiType
  <2>6. \A i \in 1 .. n : r[i] \in J
    BY <1>6, <2>3 DEF n
  <2> QED
    BY <1>3, <2>1, <2>3, <2>5, <2>6 DEF v
<1>7. CASE u.pending # None /\ at = 0 /\ ~(n >= MaxProfiles)
  <2> DEFINE r == Append(q, u.pending)
  <2>1. u.pending \in Credentials
    BY <1>1, <1>7
  <2>2. /\ r \in Seq(Credentials) /\ Len(r) = n + 1
        /\ \A i \in 1 .. n : r[i] = q[i]
        /\ r[n + 1] = u.pending
    BY <1>1, <2>1, AppendQueue DEF n
  <2>3. v = [u EXCEPT !.profiles = r, !.last = n + 1, !.pending = None]
    BY <1>4, <1>7
  <2> HIDE DEF r
  <2>4. n + 1 \in 0 .. MaxProfiles /\ n + 1 \in 1 .. n + 1 /\ n + 1 <= MaxProfiles
    BY <1>1, <1>3, <1>7
  <2>5. /\ v \in UiType /\ v.profiles = r /\ v.last = n + 1 /\ v.pending = None
        /\ v.req = u.req /\ v.wait = u.wait /\ v.input = u.input
        /\ v.searching = u.searching /\ v.shown = u.shown
    BY <2>2, <2>3, <2>4 DEF UiType
  <2>6. \A i \in 1 .. n + 1 : r[i] \in J
    <3>1. \A i \in 1 .. n + 1 : i \in 1 .. n \/ i = n + 1
      BY <1>1
    <3> QED
      BY <1>7, <2>2, <3>1 DEF n
  <2> QED
    BY <2>2, <2>4, <2>5, <2>6 DEF v
<1> QED
  BY <1>5, <1>6, <1>7

\* What handling an event may do to the page and the list of profiles.
Handled(s, t) ==
    /\ t.ui.input = s.ui.input /\ t.ui.searching = s.ui.searching
    /\ \/ t.ui.profiles = s.ui.profiles /\ t.ui.last = s.ui.last
       \/ t.ui.last \in 1 .. Len(t.ui.profiles) /\ t.ui.profiles[t.ui.last] = s.ui.pending

\* The event was taken from the queue: nothing else of its request is under way.
Taken(s, evs, e, g) ==
    /\ e \in Events /\ EvOK(e, s.ui, g) /\ EventCurrent(s.ui, e)
    /\ e.op \in OneAtATime => Nothing(s.port.queue["net"], evs, worker, e.op)

\* A change of the context while an event is handled.
LEMMA HandledKeeps ==
    ASSUME NEW s, NEW evs, NEW g, Good(s, evs, worker, g),
           NEW v \in UiType, Len(v.profiles) <= MaxProfiles,
           Moves(s.ui, g, v, g, 0, 0), s.ui.pending = None => v.pending = None,
           UiOK([ui |-> v, port |-> s.port], g),
           \A op \in OneAtATime :
               v.req[op] = s.ui.req[op] \/ Nothing(s.port.queue["net"], evs, worker, op)
    PROVE  Good([ui |-> v, port |-> s.port], evs, worker, g)
<1> DEFINE t == [ui |-> v, port |-> s.port]
<1>1. s \in UiStates /\ s.port \in PortType /\ s.port.queue \in [Workers -> Seq(Commands)]
  BY StateParts DEF Good, UiStates, PortType
<1>2. t \in UiStates /\ t.ui = v /\ t.port = s.port /\ UiOK(t, g)
  BY <1>1 DEF UiStates
<1> HIDE DEF t
<1>3. NewTo(s.port.queue, evs, worker, 0, 0)
  BY <1>1, NoneIsNew DEF Good
<1>4. Good(t, evs, worker, g)
  BY <1>2, <1>3, StepKeeps
<1> QED
  BY <1>4 DEF t

\* The result of a request.
LEMMA ResultKeeps ==
    ASSUME NEW s, NEW evs, NEW g, Good(s, evs, worker, g),
           NEW e, Taken(s, evs, e, g), e.type = "RESULT"
    PROVE  LET t == HandleResult(s, e) IN Good(t, evs, worker, g) /\ Handled(s, t)
<1> DEFINE u == [s.ui EXCEPT !.req[e.op] = 0]
           v == CASE e.op = "scan"    -> [u EXCEPT !.wifi = IF @ = "SCANNING" THEN "OFFLINE" ELSE @]
                  [] e.op = "city"    -> [u EXCEPT !.shown = e.data]
                  [] e.op = "weather" -> [u EXCEPT !.weather = e.data, !.wait["weather"] = FALSE]
                  [] OTHER            -> [u EXCEPT !.clock = TRUE, !.wait["time"] = FALSE]
           t == HandleResult(s, e)
<1>1. s \in UiStates /\ s.ui \in UiType /\ UiOK(s, g) /\ Len(s.ui.profiles) <= MaxProfiles
  BY StateParts DEF Good, Fits
<1>2. e.op \in Ops \cup {"link"} /\ EvOK(e, s.ui, g) /\ EventCurrent(s.ui, e)
  BY DEF Taken, Events
<1>3. e.op \in {"scan", "city", "weather", "time"}
  BY <1>2 DEF EvOK, Ops
<1>4. e.id = s.ui.req[e.op] /\ e.op \in Ops
  BY <1>2, <1>3 DEF EventCurrent, EvOK, Ops
<1>5. s.ui.req \in [Ops -> Ids \cup {0}] /\ s.ui.wait \in [Timed -> BOOLEAN]
  BY <1>1 DEF UiType
<1>6. /\ u \in UiType /\ u.profiles = s.ui.profiles /\ u.last = s.ui.last
      /\ u.pending = s.ui.pending /\ u.input = s.ui.input /\ u.searching = s.ui.searching
      /\ u.shown = s.ui.shown /\ u.wifi = s.ui.wifi
      /\ \A o \in Ops : u.req[o] = IF o = e.op THEN 0 ELSE s.ui.req[o]
  BY <1>1, <1>4, <1>5 DEF UiType
<1>7. t = [s EXCEPT !.ui = v]
  BY DEF HandleResult
<1> HIDE DEF u
<1>8. /\ v \in UiType /\ v.profiles = u.profiles /\ v.last = u.last
      /\ v.pending = u.pending /\ v.input = u.input /\ v.searching = u.searching
      /\ v.req = u.req
      /\ v.shown = IF e.op = "city" THEN e.data ELSE u.shown
      /\ v.wifi = "CONNECTING" => u.wifi = "CONNECTING"
  <2>1. CASE e.op = "scan"
    BY <1>6, <2>1 DEF UiType, WifiStates
  <2>2. CASE e.op = "city"
    <3>1. e.data \in Queries
      BY <1>2, <2>2 DEF EvOK
    <3> QED
      BY <1>6, <2>2, <3>1 DEF UiType
  <2>3. CASE e.op = "weather"
    <3>1. e.data \in Cities
      BY <1>2, <2>3 DEF EvOK
    <3>2. v = [u EXCEPT !.weather = e.data, !.wait["weather"] = FALSE]
      BY <2>3
    <3> HIDE DEF v
    <3> QED
      BY <1>6, <2>3, <3>1, <3>2 DEF UiType, Timed
  <2>4. CASE e.op = "time"
    <3>1. v = [u EXCEPT !.clock = TRUE, !.wait["time"] = FALSE]
      BY <2>4
    <3> HIDE DEF v
    <3> QED
      BY <1>6, <2>4, <3>1 DEF UiType, Timed
  <2> QED
    BY <1>3, <2>1, <2>2, <2>3, <2>4
<1> HIDE DEF v
<1>9. Moves(s.ui, g, v, g, 0, 0)
  BY <1>3, <1>6, <1>8 DEF Moves, Ops
<1>10. UiOK([ui |-> v, port |-> s.port], g)
  <2>1. e.op = "city" => e.data = g.asked /\ "city" \in Provided
    BY <1>2, <1>4 DEF EvOK
  <2>2. v.req["connect"] = s.ui.req["connect"]
    BY <1>3, <1>6, <1>8 DEF Ops
  <2> QED
    BY <1>1, <1>6, <1>8, <2>1, <2>2 DEF UiOK
<1>11. \A op \in OneAtATime :
           v.req[op] = s.ui.req[op] \/ Nothing(s.port.queue["net"], evs, worker, op)
  BY <1>6, <1>8 DEF Taken, OneAtATime, Ops
<1>12. t = [ui |-> v, port |-> s.port]
  BY <1>1, <1>7 DEF UiStates
<1>13. Good([ui |-> v, port |-> s.port], evs, worker, g)
  BY <1>1, <1>6, <1>8, <1>9, <1>10, <1>11, HandledKeeps
<1> HIDE DEF t
<1> QED
  BY <1>6, <1>8, <1>12, <1>13 DEF Handled, t

\* A request that failed.
LEMMA ErrorKeeps ==
    ASSUME NEW s, NEW evs, NEW g, Good(s, evs, worker, g),
           NEW e, Taken(s, evs, e, g), e.type = "ERROR"
    PROVE  LET t == HandleError(s, e) IN Good(t, evs, worker, g) /\ Handled(s, t)
<1> DEFINE W == IF e.op \in Timed THEN [s.ui.wait EXCEPT ![e.op] = TRUE] ELSE s.ui.wait
           F == IF e.op = "connect" THEN "OFFLINE" ELSE s.ui.wifi
           v == [s.ui EXCEPT !.req = [@ EXCEPT ![e.op] = 0], !.wifi = F, !.wait = W]
           t == HandleError(s, e)
<1>1. s \in UiStates /\ s.ui \in UiType /\ UiOK(s, g) /\ Len(s.ui.profiles) <= MaxProfiles
  BY StateParts DEF Good, Fits
<1>2. e.op \in Ops \cup {"link"} /\ EvOK(e, s.ui, g)
  BY DEF Taken, Events
<1>3. e.op \in {"disconnect", "scan", "weather", "time"} /\ e.op \in Ops
  BY <1>2 DEF EvOK, Ops
<1>4. s.ui.req \in [Ops -> Ids \cup {0}] /\ s.ui.wait \in [Timed -> BOOLEAN]
      /\ s.ui.wifi \in WifiStates
  BY <1>1 DEF UiType
<1>5. W \in [Timed -> BOOLEAN] /\ F = s.ui.wifi
  BY <1>3, <1>4
<1>6. t = [s EXCEPT !.ui.req[e.op] = 0, !.ui.wifi = F, !.ui.wait = W]
  BY <1>1 DEF HandleError, UiStates, UiType
<1> HIDE DEF W, F
<1>7. /\ v \in UiType /\ v.profiles = s.ui.profiles /\ v.last = s.ui.last
      /\ v.pending = s.ui.pending /\ v.input = s.ui.input /\ v.searching = s.ui.searching
      /\ v.shown = s.ui.shown /\ v.wifi = s.ui.wifi
      /\ \A o \in Ops : v.req[o] = IF o = e.op THEN 0 ELSE s.ui.req[o]
  BY <1>1, <1>3, <1>4, <1>5 DEF UiType
<1>8. [s EXCEPT !.ui.req[e.op] = 0, !.ui.wifi = F, !.ui.wait = W] = [s EXCEPT !.ui = v]
  BY <1>1 DEF UiStates
<1> HIDE DEF v
<1>9. t = [ui |-> v, port |-> s.port]
  BY <1>1, <1>6, <1>8 DEF UiStates
<1>10. Moves(s.ui, g, v, g, 0, 0)
  BY <1>3, <1>7 DEF Moves, Ops
<1>11. UiOK([ui |-> v, port |-> s.port], g)
  <2>1. v.req["connect"] = s.ui.req["connect"]
    BY <1>3, <1>7 DEF Ops
  <2> QED
    BY <1>1, <1>7, <2>1 DEF UiOK
<1>12. \A op \in OneAtATime :
           v.req[op] = s.ui.req[op] \/ Nothing(s.port.queue["net"], evs, worker, op)
  BY <1>7 DEF Taken, OneAtATime, Ops
<1>13. Good([ui |-> v, port |-> s.port], evs, worker, g)
  BY <1>1, <1>7, <1>10, <1>11, <1>12, HandledKeeps
<1> HIDE DEF t
<1> QED
  BY <1>7, <1>9, <1>13 DEF Handled, t

\* Giving up the requests about the link.
LEMMA NoLinkFields ==
    ASSUME NEW u \in UiType
    PROVE  LET v == NoLinkRequests(u) IN
           /\ v \in UiType /\ v.profiles = u.profiles /\ v.last = u.last
           /\ v.pending = u.pending /\ v.input = u.input /\ v.searching = u.searching
           /\ v.shown = u.shown
           /\ v.req["connect"] = 0 /\ v.req["disconnect"] = 0
           /\ \A o \in Ops \ {"connect", "disconnect"} : v.req[o] = u.req[o]
<1> DEFINE R == [u.req EXCEPT !["connect"] = 0, !["disconnect"] = 0]
           W == [o \in Timed |-> FALSE]
           v == NoLinkRequests(u)
<1>1. u.req \in [Ops -> Ids \cup {0}] /\ "connect" \in Ops /\ "disconnect" \in Ops
  BY DEF UiType, Ops
<1>2. /\ R \in [Ops -> Ids \cup {0}] /\ W \in [Timed -> BOOLEAN]
      /\ R["connect"] = 0 /\ R["disconnect"] = 0
      /\ \A o \in Ops \ {"connect", "disconnect"} : R[o] = u.req[o]
  BY <1>1
<1>3. v = [u EXCEPT !.req = R, !.wait = W]
  BY DEF NoLinkRequests
<1> HIDE DEF R, W
<1>4. /\ v \in UiType /\ v.profiles = u.profiles /\ v.last = u.last
      /\ v.pending = u.pending /\ v.input = u.input /\ v.searching = u.searching
      /\ v.shown = u.shown /\ v.req = R
  BY <1>2, <1>3 DEF UiType
<1> QED
  BY <1>2, <1>4

\* The state of the link.  On success the pending credentials were reported: the event is
\* that of the open connect request, or there are none.
LEMMA WifiKeeps ==
    ASSUME RestType, NEW s, NEW evs, NEW g, Good(s, evs, worker, g), PartOf(evs, events),
           NEW e, Taken(s, evs, e, g), e.type \in {"CONNECTING", "ONLINE", "OFFLINE"}
    PROVE  LET t == HandleWifiState(s, e) IN Good(t, evs, worker, g) /\ Handled(s, t)
<1>1. s \in UiStates /\ s.ui \in UiType /\ UiOK(s, g) /\ Len(s.ui.profiles) <= MaxProfiles
      /\ s = [ui |-> s.ui, port |-> s.port]
  BY StateParts DEF Good, Fits
<1>2. /\ e.op \in Ops \cup {"link"} /\ EvOK(e, s.ui, g) /\ EventCurrent(s.ui, e)
  BY DEF Taken, Events
<1>3. CASE e.type = "ONLINE"
  <2> DEFINE a == UpsertPendingProfile(s.ui)
             b == NoLinkRequests(a)
             v == [b EXCEPT !.wifi = "ONLINE", !.connected = e.data]
             z == [ui |-> v, port |-> s.port]
             t == RequestWeather(RequestTime(z))
  <2>1. s.ui.pending # None => s.ui.pending \in g.reported
    BY <1>2, <1>3 DEF EvOK, EventCurrent, Ops
  <2>2. \A i \in 1 .. Len(s.ui.profiles) : s.ui.profiles[i] \in g.reported
    BY <1>1 DEF UiOK
  <2>3. /\ a \in UiType /\ Len(a.profiles) <= MaxProfiles
        /\ \A i \in 1 .. Len(a.profiles) : a.profiles[i] \in g.reported
        /\ \/ a.profiles = s.ui.profiles /\ a.last = s.ui.last
           \/ a.last \in 1 .. Len(a.profiles) /\ a.profiles[a.last] = s.ui.pending
        /\ a.pending \in {None, s.ui.pending}
        /\ a.req = s.ui.req /\ a.input = s.ui.input
        /\ a.searching = s.ui.searching /\ a.shown = s.ui.shown
    BY <1>1, <2>1, <2>2, UpsertKeeps
  <2> HIDE DEF a
  <2>4. /\ b \in UiType /\ b.profiles = a.profiles /\ b.last = a.last
        /\ b.pending = a.pending /\ b.input = a.input /\ b.searching = a.searching
        /\ b.shown = a.shown /\ b.req["connect"] = 0 /\ b.req["disconnect"] = 0
        /\ \A o \in Ops \ {"connect", "disconnect"} : b.req[o] = a.req[o]
    BY <2>3, NoLinkFields
  <2> HIDE DEF b
  <2>5. e.data \in Ssids
    BY <1>2, <1>3 DEF EvOK
  <2>6. /\ v \in UiType /\ v.profiles = b.profiles /\ v.last = b.last
        /\ v.pending = b.pending /\ v.input = b.input /\ v.searching = b.searching
        /\ v.shown = b.shown /\ v.req = b.req /\ v.wifi = "ONLINE"
    BY <2>4, <2>5 DEF UiType, WifiStates
  <2>7. HandleWifiState(s, e) = t
    <3>1. HandleWifiState(s, e) = RequestWeather(RequestTime([s EXCEPT !.ui = v]))
      BY <1>3 DEF HandleWifiState, v, b, a
    <3>2. [s EXCEPT !.ui = v] = z
      <4> HIDE DEF v
      <4> QED
        BY <1>1 DEF UiStates
    <3> QED
      BY <3>1, <3>2
  <2> HIDE DEF v
  <2>8. Moves(s.ui, g, v, g, 0, 0)
    BY <2>3, <2>4, <2>6 DEF Moves, Ops
  <2>9. z.ui = v /\ z.port = s.port
    OBVIOUS
  <2>10. UiOK(z, g)
    BY <1>1, <2>3, <2>4, <2>6, <2>9 DEF UiOK
  <2>11. \A op \in OneAtATime : v.req[op] = s.ui.req[op]
    BY <2>3, <2>4, <2>6 DEF OneAtATime, Ops
  <2>12. /\ Len(v.profiles) <= MaxProfiles
         /\ s.ui.pending = None => v.pending = None
    BY <2>3, <2>4, <2>6
  <2>13. Good(z, evs, worker, g)
    BY <2>6, <2>8, <2>10, <2>11, <2>12, HandledKeeps
  <2>14. Handled(s, z)
    BY <2>3, <2>4, <2>6 DEF Handled
  <2> HIDE DEF z
  <2>15. Good(t, evs, worker, g) /\ Besides(z, t)
    BY <2>13, TimeWeatherKeeps
  <2> HIDE DEF t
  <2>16. Handled(s, t)
    BY <2>14, <2>15 DEF Handled, Besides
  <2> QED
    BY <2>7, <2>15, <2>16
<1>4. CASE e.type = "OFFLINE"
  <2> DEFINE b == NoLinkRequests(s.ui)
             v == [b EXCEPT !.wifi = "OFFLINE", !.connected = None, !.pending = None]
             t == [ui |-> v, port |-> s.port]
  <2>1. /\ b \in UiType /\ b.profiles = s.ui.profiles /\ b.last = s.ui.last
        /\ b.input = s.ui.input /\ b.searching = s.ui.searching
        /\ b.shown = s.ui.shown /\ b.req["connect"] = 0 /\ b.req["disconnect"] = 0
        /\ \A o \in Ops \ {"connect", "disconnect"} : b.req[o] = s.ui.req[o]
    BY <1>1, NoLinkFields
  <2> HIDE DEF b
  <2>2. /\ v \in UiType /\ v.profiles = b.profiles /\ v.last = b.last
        /\ v.pending = None /\ v.input = b.input /\ v.searching = b.searching
        /\ v.shown = b.shown /\ v.req = b.req /\ v.wifi = "OFFLINE"
    BY <2>1 DEF UiType, WifiStates
  <2>3. HandleWifiState(s, e) = t
    <3>1. HandleWifiState(s, e) = [s EXCEPT !.ui = v]
      BY <1>4 DEF HandleWifiState, v, b
    <3> HIDE DEF v
    <3> QED
      BY <1>1, <3>1 DEF UiStates
  <2> HIDE DEF v
  <2>4. Moves(s.ui, g, v, g, 0, 0)
    BY <2>1, <2>2 DEF Moves, Ops
  <2>5. UiOK(t, g)
    BY <1>1, <2>1, <2>2 DEF UiOK
  <2>6. \A op \in OneAtATime : v.req[op] = s.ui.req[op]
    BY <2>1, <2>2 DEF OneAtATime, Ops
  <2>7. Len(v.profiles) <= MaxProfiles
    BY <1>1, <2>1, <2>2
  <2>8. Good(t, evs, worker, g)
    BY <2>2, <2>4, <2>5, <2>6, <2>7, HandledKeeps
  <2>9. Handled(s, t)
    BY <2>1, <2>2 DEF Handled
  <2> QED
    BY <2>3, <2>8, <2>9
<1>5. CASE e.type = "CONNECTING"
  <2> DEFINE v == [s.ui EXCEPT !.wifi = "CONNECTING"]
             t == [ui |-> v, port |-> s.port]
  <2>1. s.ui.req["connect"] # 0
    BY <1>2, <1>5 DEF EvOK, EventCurrent, Ops
  <2>2. /\ v \in UiType /\ v.profiles = s.ui.profiles /\ v.last = s.ui.last
        /\ v.pending = s.ui.pending /\ v.input = s.ui.input /\ v.searching = s.ui.searching
        /\ v.shown = s.ui.shown /\ v.req = s.ui.req
    BY <1>1 DEF UiType, WifiStates
  <2>3. HandleWifiState(s, e) = t
    <3>1. HandleWifiState(s, e) = [s EXCEPT !.ui.wifi = "CONNECTING"]
      BY <1>5 DEF HandleWifiState
    <3>2. [s EXCEPT !.ui.wifi = "CONNECTING"] = [s EXCEPT !.ui = v]
      BY <1>1 DEF UiStates
    <3> HIDE DEF v
    <3> QED
      BY <1>1, <3>1, <3>2 DEF UiStates
  <2> HIDE DEF v
  <2>4. UiOK(t, g)
    BY <1>1, <2>1, <2>2 DEF UiOK
  <2>5. Len(v.profiles) <= MaxProfiles
    BY <1>1, <2>2
  <2>6. Good(t, evs, worker, g)
    BY <2>2, <2>4, <2>5, ContextKeeps
  <2>7. Handled(s, t)
    BY <2>2 DEF Handled
  <2> QED
    BY <2>3, <2>6, <2>7
<1> QED
  BY <1>3, <1>4, <1>5

\* Any event.
LEMMA HandleKeeps ==
    ASSUME RestType, NEW s, NEW evs, NEW g, Good(s, evs, worker, g), PartOf(evs, events),
           NEW e \in Events, EvOK(e, s.ui, g),
           e.op \in OneAtATime => Nothing(s.port.queue["net"], evs, worker, e.op)
    PROVE  LET t == HandleEvent(s, e) IN Good(t, evs, worker, g) /\ Handled(s, t)
<1>1. CASE ~EventCurrent(s.ui, e) \/ e.type = "FIRMWARE"
  <2>1. HandleEvent(s, e) = s
    BY <1>1 DEF HandleEvent
  <2> QED
    BY <2>1 DEF Handled
<1>2. CASE EventCurrent(s.ui, e) /\ e.type # "FIRMWARE"
  <2>1. Taken(s, evs, e, g)
    BY <1>2 DEF Taken
  <2>2. e.type \in {"RESULT", "ERROR", "CONNECTING", "ONLINE", "OFFLINE"}
    BY <1>2 DEF Events, EventTypes
  <2>3. CASE e.type = "RESULT"
    <3>1. HandleEvent(s, e) = HandleResult(s, e)
      BY <1>2, <2>3 DEF HandleEvent
    <3> QED
      BY <2>1, <2>3, <3>1, ResultKeeps
  <2>4. CASE e.type = "ERROR"
    <3>1. HandleEvent(s, e) = HandleError(s, e)
      BY <1>2, <2>4 DEF HandleEvent
    <3> QED
      BY <2>1, <2>4, <3>1, ErrorKeeps
  <2>5. CASE e.type \in {"CONNECTING", "ONLINE", "OFFLINE"}
    <3>1. HandleEvent(s, e) = HandleWifiState(s, e)
      BY <1>2, <2>5 DEF HandleEvent
    <3> QED
      BY <2>1, <2>5, <3>1, WifiKeeps
  <2> QED
    BY <2>2, <2>3, <2>4, <2>5
<1> QED
  BY <1>1, <1>2

\* Without its first event the event queue still satisfies the invariant, and nothing else
\* of the request of that event is under way.
LEMMA TakeEvent ==
    ASSUME IInv, events # <<>>
    PROVE  LET e == Head(events)
               evs == Tail(events)
           IN  /\ e \in Events /\ EvOK(e, ui, ghost)
               /\ evs \in Seq(Events) /\ Len(evs) <= EventDepth /\ PartOf(evs, events)
               /\ Good(Here, evs, worker, ghost)
               /\ e.op \in OneAtATime => Nothing(port.queue["net"], evs, worker, e.op)
<1> DEFINE e == Head(events)
           evs == Tail(events)
           n == Len(events)
<1>1. /\ n \in Nat \ {0} /\ e = events[1] /\ e \in Events
      /\ evs \in Seq(Events) /\ Len(evs) = n - 1
      /\ \A i \in 1 .. Len(evs) : evs[i] = events[i + 1]
      /\ n <= EventDepth
  BY TailQueue DEF IInv, RestType
<1> HIDE DEF e, evs, n
<1>2. 1 \in 1 .. n /\ \A i \in 1 .. Len(evs) : i + 1 \in 1 .. n /\ i + 1 # 1 /\ i \in Nat
  BY <1>1
<1>3. Len(evs) <= EventDepth
  BY <1>1, Depths
<1>4. Good(Here, events, worker, ghost) /\ Here.ui = ui /\ Here.port = port
  BY HereParts
<1>5. EvOK(e, ui, ghost) /\ EvsOK(evs, ui, ghost) /\ PartOf(evs, events)
  <2>1. EvsOK(events, ui, ghost)
    BY <1>4 DEF Good
  <2> QED
    BY <1>1, <1>2, <2>1 DEF EvsOK, PartOf, n
<1>6. \A op : /\ \A i \in Of(evs, op) : i + 1 \in Of(events, op) /\ i + 1 # 1 /\ i \in Nat
              /\ e.op = op => 1 \in Of(events, op)
  BY <1>1, <1>2 DEF Of, n
<1>7. ASSUME NEW op \in OneAtATime
      PROVE  /\ Single(ui, port.queue["net"], evs, worker, op)
             /\ e.op = op => Nothing(port.queue["net"], evs, worker, op)
  <2>1. Single(ui, port.queue["net"], events, worker, op)
    BY <1>4 DEF Good
  <2>2. \A i, j \in Of(evs, op) : i = j
    <3>1. SUFFICES ASSUME NEW i \in Of(evs, op), NEW j \in Of(evs, op) PROVE i = j
      OBVIOUS
    <3>2. i + 1 = j + 1
      BY <1>6, <2>1 DEF Single
    <3> QED
      BY <1>6, <3>2
  <2>3. Of(events, op) = {} => Of(evs, op) = {}
    BY <1>6
  <2>4. e.op = op => Of(evs, op) = {} /\ Of(port.queue["net"], op) = {} /\ ~Busy(worker, op)
    BY <1>6, <2>1 DEF Single
  <2> QED
    BY <2>1, <2>2, <2>3, <2>4 DEF Single, Nothing
<1>8. Good(Here, evs, worker, ghost)
  BY <1>4, <1>5, <1>7 DEF Good
<1> QED
  BY <1>1, <1>3, <1>5, <1>7, <1>8 DEF e, evs

\* One event of the pump.
LEMMA PumpInv ==
    ASSUME IInv, spent' \in 0 .. MaxSteps, Pump
    PROVE  IInv'
<1> DEFINE e == Head(events)
           evs == Tail(events)
           s == HandleEvent(Here, e)
           P == IF s.ui.profiles # ui.profiles \/ s.ui.last # ui.last
                THEN ui.pending ELSE ghost.saved
<1>1. /\ events # <<>> /\ events' = evs /\ ui' = s.ui /\ port' = s.port
      /\ ghost' = [ghost EXCEPT !.lost = StillLost(s), !.saved = P]
      /\ worker' = worker /\ link' = link
  BY DEF Pump, Commit
<1>2. /\ e \in Events /\ EvOK(e, ui, ghost)
      /\ evs \in Seq(Events) /\ Len(evs) <= EventDepth /\ PartOf(evs, events)
      /\ Good(Here, evs, worker, ghost)
      /\ e.op \in OneAtATime => Nothing(port.queue["net"], evs, worker, e.op)
  BY <1>1, TakeEvent
<1>3. Here.ui = ui /\ Here.port = port /\ RestType /\ ui \in UiType /\ LastOK(ui, ghost)
  BY HereParts DEF IInv
<1> HIDE DEF e, evs
<1>4. Good(s, evs, worker, ghost) /\ Handled(Here, s)
  BY <1>2, <1>3, HandleKeeps
<1> HIDE DEF s
<1>5. s \in UiStates /\ s = [ui |-> s.ui, port |-> s.port]
  BY <1>4, StateParts DEF Good
<1>6. ghost \in GhostType /\ ui.pending \in Credentials \cup {None}
  BY <1>3 DEF RestType, UiType
<1>7. P \in Credentials \cup {None} /\ StillLost(s) \in SUBSET Ops
  BY <1>6 DEF GhostType, StillLost
<1>8. LastOK(s.ui, [saved |-> P])
  BY <1>3, <1>4 DEF LastOK, Handled
<1> HIDE DEF P
<1>9. /\ ghost' \in GhostType /\ ghost'.reported = ghost.reported /\ ghost'.asked = ghost.asked
      /\ ghost'.saved = P
  <2> DEFINE L == StillLost(s)
  <2> HIDE DEF L
  <2> QED
    BY <1>1, <1>6, <1>7 DEF GhostType, L
<1>10. Good(s, evs, worker, ghost')
  BY <1>4, <1>9, GoodGhost
<1>11. Here' = s
  BY <1>1, <1>5 DEF Here
<1>12. Good(Here, events, worker, ghost)'
  BY <1>1, <1>10, <1>11
<1>13. RestType'
  BY <1>1, <1>2, <1>3, <1>9 DEF RestType
<1>14. LastOK(ui, ghost)'
  BY <1>1, <1>8, <1>9 DEF LastOK
<1> QED
  BY <1>12, <1>13, <1>14 DEF IInv

-----------------------------------------------------------------------------
(* The worker threads *)

\* A worker goes on to a state that is right for its command.
LEMMA WorkerKeeps ==
    ASSUME NEW s, NEW evs, NEW wk \in [Workers -> WorkerType], NEW g, Good(s, evs, wk, g),
           NEW w \in Workers, NEW x \in WorkerType, WorkerOK(x, w, s.ui, g),
           w = "net" /\ x.pc # "idle" => wk[w].pc # "idle" /\ x.cmd = wk[w].cmd
    PROVE  /\ [wk EXCEPT ![w] = x] \in [Workers -> WorkerType]
           /\ Good(s, evs, [wk EXCEPT ![w] = x], g)
<1> DEFINE r == [wk EXCEPT ![w] = x]
<1>1. r \in [Workers -> WorkerType] /\ r[w] = x /\ \A v \in Workers : v # w => r[v] = wk[v]
  OBVIOUS
<1> HIDE DEF r
<1>2. WorkersOK(r, s.ui, g)
  BY <1>1 DEF Good, WorkersOK
<1>3. "net" \in Workers /\ \A op : Busy(r, op) => Busy(wk, op)
  BY <1>1 DEF Busy, Workers
<1>4. \A op \in OneAtATime : Single(s.ui, s.port.queue["net"], evs, r, op)
  <2>1. \A op \in OneAtATime : Single(s.ui, s.port.queue["net"], evs, wk, op)
    BY DEF Good
  <2> QED
    BY <1>3, <2>1 DEF Single
<1>5. Good(s, evs, r, g)
  BY <1>2, <1>4 DEF Good
<1> QED
  BY <1>1, <1>5 DEF r

\* The flags of the back end concern no message.
LEMMA PortKeeps ==
    ASSUME NEW s, NEW evs, NEW wk, NEW g, Good(s, evs, wk, g),
           NEW t \in UiStates, t.ui = s.ui, t.port.queue = s.port.queue,
           s.port.bound => t.port.bound
    PROVE  Good(t, evs, wk, g)
<1>1. s \in UiStates /\ UiOK(s, g) /\ Len(s.ui.profiles) <= MaxProfiles
      /\ s.port.queue \in [Workers -> Seq(Commands)]
  BY DEF Good, Fits, UiStates, PortType
<1>2. NewTo(s.port.queue, evs, wk, 0, 0)
  BY <1>1, NoneIsNew DEF Good
<1>3. Moves(s.ui, g, t.ui, g, 0, 0) /\ UiOK(t, g)
  BY <1>1 DEF Moves, UiOK
<1> QED
  BY <1>1, <1>2, <1>3, StepKeeps

\* The state of an idle worker.
LEMMA IdleOK ==
    /\ Idle \in WorkerType /\ Idle.pc = "idle"
    /\ \A w, u, g : WorkerOK(Idle, w, u, g)
<1>1. NoEvent \in Events /\ NoCommand \in Commands \cup {NoCommand}
  BY DEF NoEvent, Events, EventTypes, Data
<1>2. Idle \in WorkerType
  BY <1>1 DEF Idle, WorkerType
<1> QED
  BY <1>2 DEF Idle, WorkerOK

\* Where a worker goes on after an answer.
LEMMA ResumeOK ==
    ASSUME IInv, NEW w \in Workers, NEW g, worker[w].pc # "idle",
           WorkerOK(worker[w], w, ui, g), NEW after \in {"idle", "join"}
    PROVE  /\ Resume(w, after) \in WorkerType
           /\ WorkerOK(Resume(w, after), w, ui, g)
           /\ Resume(w, after).pc # "idle" => Resume(w, after).cmd = worker[w].cmd
           /\ after = "idle" => Resume(w, after).pc = "idle"
<1>1. CASE after = "idle"
  <2>1. Resume(w, after) = Idle
    BY <1>1 DEF Resume
  <2> QED
    BY <2>1, IdleOK
<1>2. CASE after = "join"
  <2> DEFINE x == [Idle EXCEPT !.pc = "join", !.cmd = worker[w].cmd]
  <2>1. Resume(w, after) = x
    BY <1>2 DEF Resume
  <2>2. worker[w].cmd \in Commands /\ WorkerOf(worker[w].cmd.op) = w
        /\ CmdOK(worker[w].cmd, ui, g)
    BY DEF WorkerOK
  <2>3. x \in WorkerType /\ x.pc = "join" /\ x.cmd = worker[w].cmd
    BY <2>2, IdleOK DEF WorkerType
  <2> HIDE DEF x
  <2>4. WorkerOK(x, w, ui, g)
    BY <2>2, <2>3 DEF WorkerOK
  <2> QED
    BY <1>2, <2>1, <2>3, <2>4
<1> QED
  BY <1>1, <1>2

\* A worker has an answer that is right for its command, or finds its request outdated.
LEMMA AnswerKeeps ==
    ASSUME IInv, NEW w \in Workers, worker[w].pc # "idle",
           NEW type \in EventTypes, NEW data \in Data, NEW after \in {"idle", "join"},
           after = "join" => worker[w].cmd.op = "connect",
           NEW h, ghost.reported \subseteq h.reported, h.asked = ghost.asked,
           EvOK([op |-> worker[w].cmd.op, type |-> type, id |-> worker[w].cmd.id,
                 data |-> data], ui, h),
           Answer(w, type, data, after)
    PROVE  worker' \in [Workers -> WorkerType] /\ Good(Here, events, worker', h)
<1> DEFINE c == worker[w].cmd
           e == [op |-> c.op, type |-> type, id |-> c.id, data |-> data]
           y == [pc |-> "post", cmd |-> c, event |-> e, after |-> after]
           z == Resume(w, after)
           x == IF RequestCurrent(c) /\ port.bound THEN y ELSE z
<1>1. worker' = [worker EXCEPT ![w] = x]
  BY DEF Answer
<1>2. worker \in [Workers -> WorkerType] /\ Good(Here, events, worker, h) /\ Here.ui = ui
  BY HereParts, GoodGhost DEF IInv, RestType
<1>3. WorkerOK(worker[w], w, ui, h)
  BY <1>2 DEF Good, WorkersOK
<1>4. c \in Commands /\ WorkerOf(c.op) = w /\ CmdOK(c, ui, h)
  BY <1>3 DEF WorkerOK
<1>5. e \in Events /\ e.op = c.op /\ e.id = c.id /\ EvOK(e, ui, h)
  BY <1>4 DEF Events, Commands
<1> HIDE DEF e
<1>6. y \in WorkerType /\ WorkerOK(y, w, ui, h) /\ y.cmd = c
  BY <1>4, <1>5 DEF WorkerType, WorkerOK
<1>7. z \in WorkerType /\ WorkerOK(z, w, ui, h) /\ (z.pc # "idle" => z.cmd = c)
  BY <1>3, ResumeOK
<1> HIDE DEF y, z
<1>8. x \in WorkerType /\ WorkerOK(x, w, ui, h) /\ (x.pc # "idle" => x.cmd = c)
  BY <1>6, <1>7
<1> HIDE DEF x
<1> QED
  BY <1>1, <1>2, <1>8, WorkerKeeps

\* A step of a worker that leaves the context and the queues alone.
LEMMA WorkerStepInv ==
    ASSUME IInv, spent' \in 0 .. MaxSteps, ui' = ui, port' = port, events' = events,
           worker' \in [Workers -> WorkerType], Good(Here, events, worker', ghost'),
           link' \in LinkType, ghost' \in GhostType, ghost'.saved = ghost.saved
    PROVE  IInv'
<1>1. Here' = Here
  BY DEF Here
<1>2. Good(Here, events, worker, ghost)'
  BY <1>1
<1>3. RestType' /\ LastOK(ui, ghost)'
  BY DEF IInv, RestType, LastOK
<1> QED
  BY <1>2, <1>3 DEF IInv

\* What is known of the command of a busy worker.
LEMMA CommandOK ==
    ASSUME IInv, NEW w \in Workers, worker[w].pc # "idle"
    PROVE  LET c == worker[w].cmd IN
           /\ c \in Commands /\ c.id # 0 /\ c.op \in Ops /\ c.data \in Data
           /\ WorkerOf(c.op) = w /\ CmdOK(c, ui, ghost)
           /\ c.op = "connect" =>
                c.data \in Credentials /\ c.data.ssid \in Ssids /\ c.data.ssid \in Data
           /\ worker[w].pc = "left" => worker[w].event.type \in {"OFFLINE", "ERROR"}
<1>1. WorkerOK(worker[w], w, ui, ghost)
  BY HereParts DEF Good, WorkersOK
<1>2. worker[w].cmd \in Commands /\ CmdOK(worker[w].cmd, ui, ghost)
  BY <1>1 DEF WorkerOK
<1>3. worker[w].cmd.op = "connect" => worker[w].cmd.data \in Credentials
  BY <1>2 DEF CmdOK
<1>4. \A c \in Credentials : c.ssid \in Ssids /\ c.ssid \in Data
  BY DEF Ssids, Data
<1> QED
  BY <1>1, <1>2, <1>3, <1>4 DEF WorkerOK, Commands, Ids

\* The types of what a step may leave alone.
LEMMA Types ==
    ASSUME IInv
    PROVE  link \in LinkType /\ ghost \in GhostType /\ "net" \in Workers /\ "city" \in Workers
BY DEF IInv, RestType, Workers

\* A network that comes up, or was joined with the retry policy set, is a saved one.
LEMMA LinkUp ==
    ASSUME NEW ssid \in Ssids, NEW l \in LinkType
    PROVE  /\ [l EXCEPT !.up = ssid, !.known = l.known \cup {ssid}] \in LinkType
           /\ [l EXCEPT !.up = ssid, !.known = l.known \cup {ssid}, !.auto = TRUE]
                \in LinkType
<1>1. PICK k \in SUBSET Ssids : k = l.known \cup {ssid}
  BY DEF LinkType
<1>2. /\ [l EXCEPT !.up = ssid, !.known = k] \in LinkType
      /\ [l EXCEPT !.up = ssid, !.known = k, !.auto = TRUE] \in LinkType
  BY DEF LinkType
<1> QED
  BY <1>1, <1>2

\* The scan, the HTTP exchanges and the city search.
LEMMA DoRequestsInv ==
    ASSUME IInv, spent' \in 0 .. MaxSteps, DoScan \/ DoTimed \/ DoCity
    PROVE  IInv'
<1>1. CASE DoScan
  <2>1. PICK type \in {"RESULT", "ERROR"} : Answer("net", type, None, "idle")
    BY <1>1 DEF DoScan
  <2>2. worker["net"].pc # "idle" /\ worker["net"].cmd.op = "scan"
    BY <1>1 DEF DoScan, NetAt, Net
  <2>3. worker["net"].cmd.id # 0 /\ type \in EventTypes /\ None \in Data
    BY <2>1, <2>2, CommandOK, Types DEF EventTypes, Data
  <2> DEFINE L == IF port.bound THEN ghost.lost ELSE ghost.lost \cup {"scan"}
  <2>4. L \in SUBSET Ops
    BY Types DEF GhostType, Ops
  <2>5. ghost' = [ghost EXCEPT !.lost = L]
    BY <1>1 DEF DoScan
  <2> HIDE DEF L
  <2>6. /\ ghost' \in GhostType /\ ghost'.saved = ghost.saved
        /\ ghost'.reported = ghost.reported /\ ghost'.asked = ghost.asked
    BY <2>4, <2>5, Types DEF GhostType
  <2>7. EvOK([op |-> worker["net"].cmd.op, type |-> type, id |-> worker["net"].cmd.id,
              data |-> None], ui, ghost')
    BY <2>1, <2>2, <2>3 DEF EvOK
  <2>8. worker' \in [Workers -> WorkerType] /\ Good(Here, events, worker', ghost')
    BY <2>1, <2>2, <2>3, <2>6, <2>7, AnswerKeeps, Types
  <2>9. ui' = ui /\ port' = port /\ events' = events /\ link' \in LinkType
    BY <1>1, Types DEF DoScan
  <2> QED
    BY <2>6, <2>8, <2>9, WorkerStepInv
<1>2. CASE DoTimed
  <2>1. PICK type \in {"RESULT", "ERROR"} : Answer("net", type, Net.cmd.data, "idle")
    BY <1>2 DEF DoTimed
  <2>2. worker["net"].pc # "idle" /\ worker["net"].cmd.op \in Timed /\ Net = worker["net"]
    BY <1>2 DEF DoTimed, NetAt, Net
  <2>3. /\ worker["net"].cmd.id # 0 /\ type \in EventTypes /\ worker["net"].cmd.data \in Data
        /\ CmdOK(worker["net"].cmd, ui, ghost)
    BY <2>1, <2>2, CommandOK, Types DEF EventTypes
  <2>4. EvOK([op |-> worker["net"].cmd.op, type |-> type, id |-> worker["net"].cmd.id,
              data |-> worker["net"].cmd.data], ui, ghost)
    BY <2>1, <2>2, <2>3 DEF EvOK, CmdOK, Timed
  <2>5. worker' \in [Workers -> WorkerType] /\ Good(Here, events, worker', ghost)
    BY <2>1, <2>2, <2>3, <2>4, AnswerKeeps, Types
  <2>6. ui' = ui /\ port' = port /\ events' = events /\ link' = link /\ ghost' = ghost
    BY <1>2 DEF DoTimed
  <2> QED
    BY <2>5, <2>6, WorkerStepInv, Types
<1>3. CASE DoCity
  <2>1. Answer("city", "RESULT", worker["city"].cmd.data, "idle")
    BY <1>3 DEF DoCity
  <2>2. worker["city"].pc # "idle"
    BY <1>3 DEF DoCity
  <2>3. /\ worker["city"].cmd.id # 0 /\ worker["city"].cmd.data \in Data
        /\ worker["city"].cmd.op = "city" /\ CmdOK(worker["city"].cmd, ui, ghost)
        /\ "RESULT" \in EventTypes
    BY <2>2, CommandOK, OpWorker, Types DEF EventTypes
  <2>4. EvOK([op |-> worker["city"].cmd.op, type |-> "RESULT", id |-> worker["city"].cmd.id,
              data |-> worker["city"].cmd.data], ui, ghost)
    BY <2>3 DEF EvOK, CmdOK
  <2>5. worker' \in [Workers -> WorkerType] /\ Good(Here, events, worker', ghost)
    BY <2>1, <2>2, <2>3, <2>4, AnswerKeeps, Types
  <2>6. ui' = ui /\ port' = port /\ events' = events /\ link' = link /\ ghost' = ghost
    BY <1>3 DEF DoCity
  <2> QED
    BY <2>5, <2>6, WorkerStepInv, Types
<1> QED
  BY <1>1, <1>2, <1>3

\* A connection that rt_wlan_connect reports as successful, with or without a join.
LEMMA JoinedInv ==
    ASSUME IInv, spent' \in 0 .. MaxSteps, JoinSame \/ JoinSucceeds
    PROVE  IInv'
<1> DEFINE c == worker["net"].cmd
<1>1. worker["net"].pc # "idle" /\ c.op = "connect" /\ Net = worker["net"]
  BY DEF JoinSame, JoinSucceeds, NetAt, Net
<1>2. /\ c.id # 0 /\ CmdOK(c, ui, ghost) /\ c.data \in Credentials
      /\ c.data.ssid \in Ssids /\ c.data.ssid \in Data
  BY <1>1, CommandOK, Types
<1>3. /\ Answer("net", "ONLINE", c.data.ssid, "idle")
      /\ ghost' = [ghost EXCEPT !.reported = ghost.reported \cup {c.data}]
      /\ ui' = ui /\ port' = port /\ events' = events
  BY <1>1 DEF JoinSame, JoinSucceeds
<1>4. link' \in LinkType
  <2>1. \/ link' = [link EXCEPT !.auto = TRUE]
        \/ link' = [link EXCEPT !.up = c.data.ssid, !.known = link.known \cup {c.data.ssid}, !.auto = TRUE]
    BY <1>1 DEF JoinSame, JoinSucceeds
  <2>2. [link EXCEPT !.auto = TRUE] \in LinkType
    BY Types DEF LinkType
  <2> HIDE DEF c
  <2> QED
    BY <1>2, <2>1, <2>2, LinkUp, Types
<1> HIDE DEF c
<1>5. /\ ghost' \in GhostType /\ ghost'.saved = ghost.saved /\ ghost'.asked = ghost.asked
      /\ ghost'.reported = ghost.reported \cup {c.data}
  <2> DEFINE J == ghost.reported \cup {c.data}
  <2>1. J \in SUBSET Credentials
    BY <1>2, Types DEF GhostType
  <2>2. ghost' = [ghost EXCEPT !.reported = J]
    BY <1>3
  <2> HIDE DEF J
  <2>3. /\ ghost' \in GhostType /\ ghost'.saved = ghost.saved /\ ghost'.asked = ghost.asked
        /\ ghost'.reported = J
    BY <2>1, <2>2, Types DEF GhostType
  <2> QED
    BY <2>3 DEF J
<1>6. EvOK([op |-> c.op, type |-> "ONLINE", id |-> c.id, data |-> c.data.ssid], ui, ghost')
  BY <1>1, <1>2, <1>5 DEF EvOK, CmdOK
<1>7. "ONLINE" \in EventTypes
  BY DEF EventTypes
<1>8. worker' \in [Workers -> WorkerType] /\ Good(Here, events, worker', ghost')
  BY <1>1, <1>2, <1>3, <1>5, <1>6, <1>7, AnswerKeeps, Types DEF c
<1> QED
  BY <1>3, <1>4, <1>5, <1>8, WorkerStepInv

\* The other steps of a connection.
LEMMA ConnectingInv ==
    ASSUME IInv, spent' \in 0 .. MaxSteps, DoConnect \/ JoinOther \/ JoinFails
    PROVE  IInv'
<1> DEFINE c == worker["net"].cmd
<1>1. worker["net"].pc # "idle" /\ c.op = "connect" /\ Net = worker["net"]
  BY DEF DoConnect, JoinOther, JoinFails, NetAt, Net
<1>2. /\ c.id # 0 /\ CmdOK(c, ui, ghost) /\ c.data \in Credentials
      /\ c.data.ssid \in Ssids /\ c.data.ssid \in Data /\ None \in Data
  BY <1>1, CommandOK, Types DEF Data
<1>3. ui' = ui /\ port' = port /\ events' = events /\ ghost' = ghost
  BY DEF DoConnect, JoinOther, JoinFails
<1> HIDE DEF c
<1>4. \A type \in {"CONNECTING", "OFFLINE"}, d \in Data :
        EvOK([op |-> c.op, type |-> type, id |-> c.id, data |-> d], ui, ghost)
  BY <1>1, <1>2 DEF EvOK, CmdOK
<1>5. "CONNECTING" \in EventTypes /\ "OFFLINE" \in EventTypes
  BY DEF EventTypes
<1>6. CASE DoConnect
  <2>1. Answer("net", "CONNECTING", c.data.ssid, "join") /\ link' = link
    BY <1>1, <1>6 DEF DoConnect, c
  <2>2. worker' \in [Workers -> WorkerType] /\ Good(Here, events, worker', ghost)
    BY <1>1, <1>2, <1>4, <1>5, <2>1, AnswerKeeps, Types DEF c
  <2> QED
    BY <1>3, <2>1, <2>2, WorkerStepInv, Types
<1>7. CASE JoinFails
  <2>1. /\ Answer("net", "OFFLINE", None, "idle")
        /\ link' \in {link, [link EXCEPT !.up = c.data.ssid, !.known = link.known \cup {c.data.ssid}]}
    BY <1>1, <1>7 DEF JoinFails, c
  <2>2. link' \in LinkType
    BY <1>2, <2>1, LinkUp, Types
  <2>3. worker' \in [Workers -> WorkerType] /\ Good(Here, events, worker', ghost)
    BY <1>1, <1>2, <1>4, <1>5, <2>1, AnswerKeeps, Types DEF c
  <2> QED
    BY <1>3, <2>2, <2>3, WorkerStepInv, Types
<1>8. CASE JoinOther
  <2> DEFINE x == [worker["net"] EXCEPT !.pc = "associate"]
             R == IF link.up # None THEN "pending" ELSE link.report
  <2>1. /\ worker' = [worker EXCEPT !["net"] = x]
        /\ link' = [link EXCEPT !.auto = FALSE, !.up = None, !.report = R]
    BY <1>8 DEF JoinOther
  <2>2. link' \in LinkType
    <3>1. R \in {"none", "pending", "post"}
      BY Types DEF LinkType
    <3> HIDE DEF R
    <3> QED
      BY <2>1, <3>1, Types DEF LinkType
  <2>3. worker \in [Workers -> WorkerType] /\ Good(Here, events, worker, ghost)
        /\ WorkerOK(worker["net"], "net", ui, ghost) /\ Here.ui = ui
    BY HereParts, Types DEF IInv, RestType, Good, WorkersOK
  <2>4. x \in WorkerType /\ x.pc = "associate" /\ x.cmd = worker["net"].cmd
    BY <2>3, Types DEF WorkerType
  <2> HIDE DEF x
  <2>5. WorkerOK(x, "net", ui, ghost)
    BY <1>1, <2>3, <2>4 DEF WorkerOK
  <2>6. worker' \in [Workers -> WorkerType] /\ Good(Here, events, worker', ghost)
    BY <1>1, <2>1, <2>3, <2>4, <2>5, WorkerKeeps, Types
  <2> QED
    BY <1>3, <2>2, <2>6, WorkerStepInv, Types
<1> QED
  BY <1>6, <1>7, <1>8

\* A change of a flag of the back end, together with a step of a worker.
LEMMA FlagStepInv ==
    ASSUME IInv, spent' \in 0 .. MaxSteps, ui' = ui, events' = events, ghost' = ghost,
           NEW b \in BOOLEAN, port' = [port EXCEPT !.disconnecting = b],
           worker' \in [Workers -> WorkerType], Good(Here, events, worker', ghost),
           link' \in LinkType
    PROVE  IInv'
<1>1. port \in PortType /\ ui \in UiType /\ Here.ui = ui /\ Here.port = port
  BY HereParts
<1>2. port' \in PortType /\ port'.queue = port.queue /\ port'.bound = port.bound
  BY <1>1 DEF PortType
<1>3. Here' = [ui |-> ui, port |-> port']
  BY DEF Here
<1>4. Here' \in UiStates /\ Here'.ui = ui /\ Here'.port = port'
  BY <1>1, <1>2, <1>3 DEF UiStates
<1>5. Good(Here', events, worker', ghost)
  BY <1>1, <1>2, <1>4, PortKeeps
<1>6. Good(Here, events, worker, ghost)'
  BY <1>5
<1>7. RestType' /\ LastOK(ui, ghost)'
  BY DEF IInv, RestType, LastOK
<1> QED
  BY <1>6, <1>7 DEF IInv

\* The disconnection.
LEMMA LeaveInv ==
    ASSUME IInv, spent' \in 0 .. MaxSteps, Leave("OFFLINE") \/ Leave("ERROR") \/ LeaveEnd
    PROVE  IInv'
<1>1. ASSUME NEW type \in {"OFFLINE", "ERROR"}, Leave(type) PROVE IInv'
  <2> DEFINE x == [worker["net"] EXCEPT !.pc = "left", !.event.type = type]
             R == IF link.up # None THEN "pending" ELSE link.report
  <2>1. worker["net"].pc # "idle"
    BY <1>1 DEF Leave, NetAt, Net
  <2>2. /\ worker' = [worker EXCEPT !["net"] = x] /\ ui' = ui /\ events' = events
        /\ ghost' = ghost /\ port' = [port EXCEPT !.disconnecting = TRUE]
    BY <1>1 DEF Leave
  <2>3. link' \in LinkType
    <3>1. \/ link' = [link EXCEPT !.auto = FALSE, !.up = None, !.report = R]
          \/ link' = [link EXCEPT !.auto = FALSE]
      BY <1>1 DEF Leave
    <3>2. R \in {"none", "pending", "post"}
      BY Types DEF LinkType
    <3> HIDE DEF R
    <3> QED
      BY <3>1, <3>2, Types DEF LinkType
  <2>4. worker \in [Workers -> WorkerType] /\ Good(Here, events, worker, ghost)
        /\ WorkerOK(worker["net"], "net", ui, ghost) /\ Here.ui = ui
        /\ worker["net"] \in WorkerType
    BY HereParts, Types DEF IInv, RestType, Good, WorkersOK
  <2>5. [worker["net"].event EXCEPT !.type = type] \in Events
        /\ [worker["net"].event EXCEPT !.type = type].type = type
    BY <2>4 DEF WorkerType, Events, EventTypes
  <2>6. x = [worker["net"] EXCEPT !.pc = "left",
                                  !.event = [worker["net"].event EXCEPT !.type = type]]
    BY <2>4 DEF WorkerType
  <2> HIDE DEF x
  <2>7. x \in WorkerType /\ x.pc = "left" /\ x.cmd = worker["net"].cmd /\ x.event.type = type
    <3> DEFINE e == [worker["net"].event EXCEPT !.type = type]
    <3>1. e \in Events /\ e.type = type /\ x = [worker["net"] EXCEPT !.pc = "left", !.event = e]
      BY <2>5, <2>6
    <3> HIDE DEF e
    <3> QED
      BY <2>4, <3>1 DEF WorkerType
  <2>8. WorkerOK(x, "net", ui, ghost)
    BY <1>1, <2>1, <2>4, <2>7 DEF WorkerOK
  <2>9. worker' \in [Workers -> WorkerType] /\ Good(Here, events, worker', ghost)
    BY <2>1, <2>2, <2>4, <2>7, <2>8, WorkerKeeps, Types
  <2> QED
    BY <2>2, <2>3, <2>9, FlagStepInv
<1>2. ASSUME LeaveEnd PROVE IInv'
  <2> DEFINE c == worker["net"].cmd
             type == worker["net"].event.type
  <2>1. worker["net"].pc = "left" /\ c.op = "disconnect"
    BY <1>2 DEF LeaveEnd, NetAt, Net
  <2>2. /\ Answer("net", type, None, "idle") /\ ui' = ui /\ events' = events /\ link' = link
        /\ ghost' = ghost /\ port' = [port EXCEPT !.disconnecting = FALSE]
    BY <1>2 DEF LeaveEnd, Net
  <2>3. c.id # 0 /\ type \in {"OFFLINE", "ERROR"} /\ None \in Data
    BY <2>1, CommandOK, Types DEF Data
  <2>4. type \in EventTypes
    BY <2>3 DEF EventTypes
  <2>5. EvOK([op |-> c.op, type |-> type, id |-> c.id, data |-> None], ui, ghost)
    <3> HIDE DEF c, type
    <3> QED
      BY <2>1, <2>3 DEF EvOK
  <2>6. worker' \in [Workers -> WorkerType] /\ Good(Here, events, worker', ghost)
    BY <2>1, <2>2, <2>3, <2>4, <2>5, AnswerKeeps, Types
  <2> QED
    BY <2>2, <2>6, FlagStepInv, Types
<1> QED
  BY <1>1, <1>2

\* An event is put into the queue: if it answers a scan, weather or time request, nothing
\* else of that request is under way.
LEMMA PostKeeps ==
    ASSUME IInv, NEW wk, NEW g, NEW s, Good(s, events, wk, g),
           NEW e \in Events, EvOK(e, s.ui, g), PostEvent(e),
           e.op \in OneAtATime =>
               s.ui.req[e.op] # 0 /\ Nothing(s.port.queue["net"], events, wk, e.op)
    PROVE  events' \in Seq(Events) /\ Len(events') <= EventDepth /\ Good(s, events', wk, g)
<1> DEFINE n == Len(events)
           r == Append(events, e)
<1>1. events \in Seq(Events) /\ n <= EventDepth /\ n \in Nat /\ EventDepth \in Nat
  BY LenProperties, Depths DEF IInv, RestType
<1>2. /\ r \in Seq(Events) /\ Len(r) = n + 1
      /\ \A i \in 1 .. n : r[i] = events[i]
      /\ r[n + 1] = e
  BY <1>1, AppendQueue
<1>3. CASE n < EventDepth
  <2>1. events' = r
    BY <1>3 DEF PostEvent
  <2> HIDE DEF r
  <2>2. Len(r) <= EventDepth
    BY <1>1, <1>2, <1>3
  <2>3. \A i \in 1 .. n + 1 : i \in 1 .. n \/ i = n + 1
    BY <1>1
  <2>4. EvsOK(r, s.ui, g)
    BY <1>2, <2>3 DEF Good, EvsOK
  <2>5. \A op : op # e.op => Of(r, op) = Of(events, op)
    <3>1. \A i : i \in 1 .. n + 1 <=> i \in 1 .. n \/ i = n + 1
      BY <1>1
    <3> HIDE DEF n
    <3> QED
      BY <1>2, <3>1 DEF Of, n
  <2>6. Of(events, e.op) = {} => \A i \in Of(r, e.op) : i = n + 1
    BY <1>2, <2>3 DEF Of
  <2>7. ASSUME NEW op \in OneAtATime
        PROVE  Single(s.ui, s.port.queue["net"], r, wk, op)
    <3>1. Single(s.ui, s.port.queue["net"], events, wk, op)
      BY DEF Good
    <3>2. CASE op = e.op
      BY <2>6, <3>1, <3>2 DEF Single, Nothing
    <3>3. CASE op # e.op
      BY <2>5, <3>1, <3>3 DEF Single
    <3> QED
      BY <3>2, <3>3
  <2>8. Good(s, r, wk, g)
    BY <2>4, <2>7 DEF Good
  <2> QED
    BY <1>2, <2>1, <2>2, <2>8
<1>4. CASE ~(n < EventDepth)
  <2>1. events' = events
    BY <1>4 DEF PostEvent
  <2> QED
    BY <1>1, <2>1
<1> QED
  BY <1>3, <1>4

\* A worker posts its answer.
LEMMA PostInv ==
    ASSUME IInv, spent' \in 0 .. MaxSteps, NEW w \in Workers, Post(w)
    PROVE  IInv'
<1> DEFINE c == worker[w].cmd
           e == worker[w].event
           x == Resume(w, worker[w].after)
           r == [worker EXCEPT ![w] = x]
           L == IF /\ Len(events) >= EventDepth
                   /\ worker[w].after = "idle"
                   /\ ui.req[c.op] = c.id THEN ghost.lost \cup {c.op} ELSE ghost.lost
<1>1. /\ worker[w].pc = "post" /\ PostEvent(e) /\ worker' = r
      /\ ghost' = [ghost EXCEPT !.lost = L] /\ ui' = ui /\ port' = port /\ link' = link
  BY DEF Post
<1>2. worker \in [Workers -> WorkerType] /\ Good(Here, events, worker, ghost)
      /\ WorkerOK(worker[w], w, ui, ghost) /\ Here.ui = ui /\ Here.port = port
      /\ worker[w] \in WorkerType
  BY HereParts DEF IInv, RestType, Good, WorkersOK
<1>3. /\ c \in Commands /\ c.op \in Ops /\ WorkerOf(c.op) = w
      /\ e.op = c.op /\ EvOK(e, ui, ghost) /\ e \in Events
      /\ worker[w].after \in {"idle", "join"} /\ (worker[w].after = "join" => c.op = "connect")
  BY <1>1, <1>2 DEF WorkerOK, WorkerType, Commands
<1>4. L \in SUBSET Ops
  BY <1>3, Types DEF GhostType
<1> HIDE DEF L
<1>5. /\ ghost' \in GhostType /\ ghost'.saved = ghost.saved
      /\ ghost'.reported = ghost.reported /\ ghost'.asked = ghost.asked
  BY <1>1, <1>4, Types DEF GhostType
<1>6. /\ x \in WorkerType /\ WorkerOK(x, w, ui, ghost)
      /\ x.pc # "idle" => x.cmd = c
      /\ worker[w].after = "idle" => x.pc = "idle"
  BY <1>1, <1>2, <1>3, ResumeOK
<1> HIDE DEF x
<1>7. r \in [Workers -> WorkerType] /\ Good(Here, events, r, ghost) /\ r[w] = x
  BY <1>1, <1>2, <1>6, WorkerKeeps
<1>8. e.op \in OneAtATime =>
        ui.req[e.op] # 0 /\ Nothing(port.queue["net"], events, r, e.op)
  <2>1. SUFFICES ASSUME e.op \in OneAtATime
                 PROVE  ui.req[e.op] # 0 /\ Nothing(port.queue["net"], events, r, e.op)
    OBVIOUS
  <2>2. w = "net" /\ worker[w].after = "idle"
    BY <1>3, <2>1, OpWorker DEF OneAtATime
  <2>3. Single(ui, port.queue["net"], events, worker, e.op)
    BY <1>2, <2>1 DEF Good
  <2>4. Busy(worker, e.op) /\ ~Busy(r, e.op)
    BY <1>1, <1>3, <1>6, <1>7, <2>2 DEF Busy
  <2> QED
    BY <2>3, <2>4 DEF Single, Nothing
<1> HIDE DEF r, e, c
<1>9. /\ events' \in Seq(Events) /\ Len(events') <= EventDepth
      /\ Good(Here, events', r, ghost)
  BY <1>1, <1>2, <1>3, <1>7, <1>8, PostKeeps
<1>10. Good(Here, events', r, ghost')
  BY <1>5, <1>9, GoodGhost
<1>11. Here' = Here
  BY <1>1 DEF Here
<1>12. Good(Here, events, worker, ghost)'
  BY <1>1, <1>10, <1>11
<1>13. RestType' /\ LastOK(ui, ghost)'
  BY <1>1, <1>5, <1>7, <1>9, Types DEF IInv, RestType, LastOK
<1> QED
  BY <1>12, <1>13 DEF IInv

\* A worker takes a command.
LEMMA TakeInv ==
    ASSUME IInv, spent' \in 0 .. MaxSteps, NEW w \in Workers, Take(w)
    PROVE  IInv'
<1> DEFINE q == port.queue[w]
           c == Head(q)
           r == Tail(q)
           n == Len(q)
           x == IF RequestCurrent(c) THEN [Idle EXCEPT !.pc = "do", !.cmd = c] ELSE Idle
<1>1. /\ worker[w].pc = "idle" /\ q # <<>> /\ worker' = [worker EXCEPT ![w] = x]
      /\ port' = [port EXCEPT !.queue[w] = r]
      /\ ui' = ui /\ events' = events /\ link' = link /\ ghost' = ghost
  BY DEF Take
<1>2. /\ ui \in UiType /\ port \in PortType /\ UiOK(Here, ghost)
      /\ Good(Here, events, worker, ghost) /\ Here.ui = ui /\ Here.port = port
      /\ port.queue \in [Workers -> Seq(Commands)] /\ worker \in [Workers -> WorkerType]
      /\ "net" \in Workers
  BY HereParts, Types DEF IInv, RestType
<1>3. q \in Seq(Commands)
  BY <1>2
<1>4. /\ n \in Nat \ {0} /\ c = q[1] /\ c \in Commands
      /\ r \in Seq(Commands) /\ Len(r) = n - 1
      /\ \A i \in 1 .. Len(r) : r[i] = q[i + 1]
  BY <1>1, <1>3, TailQueue
<1> HIDE DEF r, c
<1>5. /\ port' \in PortType /\ port'.bound = port.bound
      /\ port'.queue[w] = r /\ \A v \in Workers : v # w => port'.queue[v] = port.queue[v]
  BY <1>1, <1>2, <1>4 DEF PortType
<1>6. Here' \in UiStates /\ Here'.ui = ui /\ Here'.port = port'
  <2>1. Here' = [ui |-> ui, port |-> port']
    BY <1>1 DEF Here
  <2> QED
    BY <1>2, <1>5, <2>1 DEF UiStates
<1>7. 1 \in 1 .. n /\ \A i \in 1 .. Len(r) : i + 1 \in 1 .. n /\ i + 1 # 1 /\ i \in Nat
  BY <1>4
<1>8. Fits(Here')
  <2>1. Fits(Here)
    BY <1>2 DEF Good
  <2>2. n <= Depth(w) /\ Depth(w) \in Nat
    BY <1>2, <2>1, Depths DEF Fits
  <2>3. Len(r) <= Depth(w)
    BY <1>4, <2>2
  <2> HIDE DEF q, n
  <2> QED
    BY <1>2, <1>5, <1>6, <2>1, <2>3 DEF Fits
<1>9. CmdsOK(port.queue, ui, ghost) /\ WorkersOK(worker, ui, ghost) /\ EvsOK(events, ui, ghost)
  BY <1>2 DEF Good
<1>10. WorkerOf(c.op) = w /\ CmdOK(c, ui, ghost)
  BY <1>4, <1>7, <1>9 DEF CmdsOK
<1>11. \A i \in 1 .. Len(r) : WorkerOf(r[i].op) = w /\ CmdOK(r[i], ui, ghost)
  BY <1>4, <1>7, <1>9 DEF CmdsOK
<1>12. CmdsOK(port'.queue, ui, ghost)
  BY <1>5, <1>9, <1>11 DEF CmdsOK
<1>13. /\ x \in WorkerType /\ WorkerOK(x, w, ui, ghost)
       /\ x.pc # "idle" => x.cmd = c
  <2>1. CASE RequestCurrent(c)
    <3> DEFINE y == [Idle EXCEPT !.pc = "do", !.cmd = c]
    <3>1. y \in WorkerType /\ y.pc = "do" /\ y.cmd = c
      BY <1>4, IdleOK DEF WorkerType
    <3> HIDE DEF y
    <3>2. WorkerOK(y, w, ui, ghost)
      BY <1>4, <1>10, <3>1 DEF WorkerOK
    <3> QED
      BY <2>1, <3>1, <3>2 DEF y
  <2>2. CASE ~RequestCurrent(c)
    BY <2>2, IdleOK
  <2> QED
    BY <2>1, <2>2
<1> HIDE DEF x
<1>14. /\ worker' \in [Workers -> WorkerType] /\ worker'[w] = x
       /\ \A v \in Workers : v # w => worker'[v] = worker[v]
  BY <1>1, <1>2, <1>13
<1>15. WorkersOK(worker', ui, ghost)
  BY <1>9, <1>13, <1>14 DEF WorkersOK
<1>16. UiOK(Here', ghost)
  BY <1>2, <1>5, <1>6 DEF UiOK
<1>17. ASSUME NEW op \in OneAtATime
       PROVE  Single(ui, port'.queue["net"], events, worker', op)
  <2>1. Single(ui, port.queue["net"], events, worker, op)
    BY <1>2 DEF Good
  <2>2. CASE w = "net"
    <3>1. \A i \in Of(r, op) : i + 1 \in Of(q, op) /\ i + 1 # 1 /\ i \in Nat
      BY <1>4, <1>7 DEF Of
    <3>2. Busy(worker', op) => 1 \in Of(q, op)
      BY <1>4, <1>7, <1>13, <1>14, <2>2 DEF Busy, Of
    <3>3. Single(ui, q, events, worker, op)
      BY <2>1, <2>2
    <3> HIDE DEF q
    <3>4. \A i, j \in Of(r, op) : i = j
      <4>1. SUFFICES ASSUME NEW i \in Of(r, op), NEW j \in Of(r, op) PROVE i = j
        OBVIOUS
      <4>2. i + 1 = j + 1
        BY <3>1, <3>3 DEF Single
      <4> QED
        BY <3>1, <4>2
    <3>5. Of(q, op) = {} => Of(r, op) = {}
      BY <3>1
    <3>6. 1 \in Of(q, op) => Of(r, op) = {}
      BY <3>1, <3>3 DEF Single
    <3>7. port'.queue["net"] = r
      BY <1>5, <2>2
    <3> QED
      BY <3>2, <3>3, <3>4, <3>5, <3>6, <3>7 DEF Single
  <2>3. CASE w # "net"
    <3>1. port'.queue["net"] = port.queue["net"] /\ worker'["net"] = worker["net"]
      BY <1>2, <1>5, <1>14, <2>3
    <3> QED
      BY <2>1, <3>1 DEF Single, Busy
  <2> QED
    BY <2>2, <2>3
<1>18. Good(Here', events, worker', ghost)
  BY <1>6, <1>8, <1>9, <1>12, <1>15, <1>16, <1>17 DEF Good
<1>19. Good(Here, events, worker, ghost)'
  BY <1>1, <1>18
<1>20. RestType' /\ LastOK(ui, ghost)'
  BY <1>1, <1>14 DEF IInv, RestType, LastOK
<1> QED
  BY <1>19, <1>20 DEF IInv

-----------------------------------------------------------------------------
(* Events from outside, and the WLAN *)

\* A message that answers no request is put into the queue.
LEMMA OutsideInv ==
    ASSUME IInv, spent' \in 0 .. MaxSteps, ui' = ui, port' = port, worker' = worker,
           ghost' = ghost, link' \in LinkType,
           NEW type \in {"OFFLINE", "FIRMWARE"},
           PostEvent([op |-> "link", type |-> type, id |-> 0, data |-> None])
    PROVE  IInv'
<1> DEFINE e == [op |-> "link", type |-> type, id |-> 0, data |-> None]
<1>1. e \in Events /\ EvOK(e, ui, ghost) /\ e.op \notin OneAtATime
  BY DEF Events, EventTypes, Data, EvOK, OneAtATime
<1>2. Good(Here, events, worker, ghost) /\ Here.ui = ui
  BY HereParts
<1> HIDE DEF e
<1>3. /\ events' \in Seq(Events) /\ Len(events') <= EventDepth
      /\ Good(Here, events', worker, ghost)
  BY <1>1, <1>2, PostKeeps DEF e
<1>4. Here' = Here
  BY DEF Here
<1>5. Good(Here, events, worker, ghost)'
  BY <1>3, <1>4
<1>6. RestType' /\ LastOK(ui, ghost)'
  BY <1>3 DEF IInv, RestType, LastOK
<1> QED
  BY <1>5, <1>6 DEF IInv

\* The back end is bound to the context, and reports the link if it is up.
LEMMA BindInv ==
    ASSUME IInv, spent' \in 0 .. MaxSteps, Bind
    PROVE  IInv'
<1> DEFINE e == [op |-> "link", type |-> "ONLINE", id |-> 0, data |-> link.up]
<1>1. /\ ~port.bound /\ port' = [port EXCEPT !.bound = TRUE]
      /\ ui' = ui /\ worker' = worker /\ link' = link /\ ghost' = ghost
      /\ (link.up # None /\ PostEvent(e)) \/ events' = events
  BY DEF Bind
<1>2. /\ ui \in UiType /\ port \in PortType /\ UiOK(Here, ghost)
      /\ Good(Here, events, worker, ghost) /\ Here.ui = ui /\ Here.port = port
  BY HereParts
<1>3. ui.pending = None
  BY <1>1, <1>2 DEF UiOK
<1>4. port' \in PortType /\ port'.queue = port.queue /\ port'.bound
  BY <1>1, <1>2 DEF PortType
<1>5. Here' \in UiStates /\ Here'.ui = ui /\ Here'.port = port'
  <2>1. Here' = [ui |-> ui, port |-> port']
    BY <1>1 DEF Here
  <2> QED
    BY <1>2, <1>4, <2>1 DEF UiStates
<1>6. Good(Here', events, worker, ghost)
  BY <1>2, <1>4, <1>5, PortKeeps
<1>7. link.up # None => link.up \in Ssids /\ link.up \in Data
  BY Types DEF LinkType, Data
<1>8. link.up # None => e \in Events /\ EvOK(e, ui, ghost) /\ e.op \notin OneAtATime
  BY <1>3, <1>7 DEF Events, EventTypes, EvOK, OneAtATime
<1> HIDE DEF e
<1>9. events \in Seq(Events) /\ Len(events) <= EventDepth
  BY DEF IInv, RestType
<1>10. /\ events' \in Seq(Events) /\ Len(events') <= EventDepth
       /\ Good(Here', events', worker, ghost)
  <2>1. CASE link.up # None /\ PostEvent(e)
    <3>1. e \in Events /\ EvOK(e, Here'.ui, ghost) /\ e.op \notin OneAtATime
      BY <1>5, <1>8, <2>1
    <3> QED
      BY <1>6, <2>1, <3>1, PostKeeps
  <2>2. CASE events' = events
    BY <1>6, <1>9, <2>2
  <2> QED
    BY <1>1, <2>1, <2>2
<1>11. Good(Here, events, worker, ghost)'
  BY <1>1, <1>10
<1>12. RestType' /\ LastOK(ui, ghost)'
  BY <1>1, <1>10 DEF IInv, RestType, LastOK
<1> QED
  BY <1>11, <1>12 DEF IInv

\* The WLAN drops and comes back; its reports reach the queue.
LEMMA WlanInv ==
    ASSUME IInv, spent' \in 0 .. MaxSteps,
           LinkDrops \/ LinkReconnects \/ ReportStart \/ ReportPost \/ FirmwareInfo
    PROVE  IInv'
<1>1. link' \in LinkType /\ ui' = ui /\ port' = port /\ worker' = worker /\ ghost' = ghost
  <2>1. CASE LinkDrops
    BY <2>1, Types DEF LinkDrops, LinkType
  <2>2. CASE LinkReconnects
    BY <2>2, Types DEF LinkReconnects, LinkType
  <2>3. CASE ReportStart
    BY <2>3, Types DEF ReportStart, LinkType
  <2>4. CASE ReportPost
    BY <2>4, Types DEF ReportPost, LinkType
  <2>5. CASE FirmwareInfo
    BY <2>5, Types DEF FirmwareInfo
  <2> QED
    BY <2>1, <2>2, <2>3, <2>4, <2>5
<1>2. CASE ReportPost
  BY <1>1, <1>2, OutsideInv DEF ReportPost
<1>3. CASE FirmwareInfo
  BY <1>1, <1>3, OutsideInv DEF FirmwareInfo, NoEvent
<1>4. CASE LinkDrops \/ LinkReconnects \/ ReportStart
  <2>1. events' = events /\ worker' \in [Workers -> WorkerType] /\ ghost' \in GhostType
    BY <1>1, <1>4, Types DEF LinkDrops, LinkReconnects, ReportStart, IInv, RestType
  <2>2. Good(Here, events, worker', ghost')
    BY <1>1, HereParts
  <2> QED
    BY <1>1, <2>1, <2>2, WorkerStepInv
<1> QED
  BY <1>2, <1>3, <1>4

-----------------------------------------------------------------------------
(* The invariant of the specification, and what it implies *)

\* The invariant holds when the context was created.
LEMMA InitInv ==
    ASSUME Init
    PROVE  IInv
<1> DEFINE s == [ui |-> FreshUi, port |-> FreshPort]
           t == RequestScan(s)
<1>1. /\ worker = [w \in Workers |-> Idle] /\ events = <<>>
      /\ ghost = [reported |-> {}, saved |-> None, asked |-> None, lost |-> {}]
      /\ spent = 0 /\ ui = t.ui /\ port = t.port
  BY DEF Init
<1>2. worker \in [Workers -> WorkerType] /\ \A w \in Workers : worker[w] = Idle
  BY <1>1, IdleOK
<1>3. events \in Seq(Events) /\ Len(events) = 0
  BY <1>1
<1>4. link \in LinkType
  BY DEF Init, LinkType
<1>5. /\ ghost \in GhostType /\ ghost.reported = {} /\ ghost.asked = None /\ ghost.saved = None
  BY <1>1 DEF GhostType
<1>6. RestType
  BY <1>1, <1>2, <1>3, <1>4, <1>5, Depths DEF RestType
<1>7. /\ FreshUi \in UiType /\ FreshUi.wifi = "OFFLINE" /\ FreshUi.pending = None
      /\ FreshUi.profiles = <<>> /\ FreshUi.last = 0 /\ FreshUi.input = None
      /\ FreshUi.searching = FALSE /\ FreshUi.shown = "catalog"
  <2>1. <<>> \in Seq(Credentials) /\ 0 \in 0 .. MaxProfiles /\ FirstCity \in Cities
    BY Depths, WeatherConstants
  <2> QED
    BY <2>1 DEF FreshUi, UiType, WifiStates
<1>8. /\ FreshPort \in PortType /\ \A w \in Workers : FreshPort.queue[w] = <<>>
  <2>1. <<>> \in Seq(Commands)
    OBVIOUS
  <2> QED
    BY <2>1 DEF FreshPort, PortType
<1>9. s \in UiStates /\ s.ui = FreshUi /\ s.port = FreshPort
  BY <1>7, <1>8 DEF UiStates
<1> HIDE DEF s
<1>10. Good(s, events, worker, ghost)
  <2>1. Len(<<>>) = 0 /\ 1 .. 0 = {}
    OBVIOUS
  <2>2. Fits(s)
    BY <1>7, <1>8, <1>9, <2>1, Depths DEF Fits
  <2>3. CmdsOK(s.port.queue, s.ui, ghost)
    BY <1>8, <1>9, <2>1 DEF CmdsOK
  <2>4. EvsOK(events, s.ui, ghost)
    BY <1>3, <2>1 DEF EvsOK
  <2>5. WorkersOK(worker, s.ui, ghost)
    BY <1>2, IdleOK DEF WorkersOK
  <2>6. UiOK(s, ghost)
    BY <1>5, <1>7, <1>9, <2>1, WeatherConstants DEF UiOK
  <2>7. \A op \in OneAtATime : Single(s.ui, s.port.queue["net"], events, worker, op)
    <3>1. "net" \in Workers
      BY DEF Workers
    <3>2. \A op : Of(s.port.queue["net"], op) = {} /\ Of(events, op) = {} /\ ~Busy(worker, op)
      BY <1>2, <1>3, <1>8, <1>9, <2>1, <3>1, IdleOK DEF Of, Busy
    <3> QED
      BY <3>2 DEF Single
  <2> QED
    BY <1>9, <2>2, <2>3, <2>4, <2>5, <2>6, <2>7 DEF Good
<1>11. Good(t, events, worker, ghost) /\ Besides(s, t)
  BY <1>6, <1>10, ScanKeeps DEF PartOf
<1> HIDE DEF t
<1>12. Here = t
  BY <1>1, <1>11, StateParts DEF Here, Good
<1>13. LastOK(ui, ghost)
  BY <1>1, <1>7, <1>9, <1>11 DEF Besides, LastOK
<1> QED
  BY <1>6, <1>11, <1>12, <1>13 DEF IInv

\* Every step keeps it.
LEMMA NextInv ==
    ASSUME IInv, Next
    PROVE  IInv'
<1>1. spent' \in 0 .. MaxSteps
  <2>1. spent \in 0 .. MaxSteps /\ MaxSteps \in Nat
    BY Depths DEF IInv, RestType
  <2> QED
    BY <2>1 DEF Next
<1>2. CASE NetWorker
  BY <1>1, <1>2, TakeInv, DoRequestsInv, JoinedInv, ConnectingInv, LeaveInv, PostInv, Types
     DEF NetWorker
<1>3. CASE CityWorker
  BY <1>1, <1>3, TakeInv, DoRequestsInv, PostInv, Types DEF CityWorker
<1>4. CASE Timers
  <2>1. CASE Bind
    BY <1>1, <2>1, BindInv
  <2>2. CASE Pump
    BY <1>1, <2>2, PumpInv
  <2>3. CASE ClockTimer({})
    BY <1>1, <2>3, ButtonsInv
  <2>4. CASE SearchTimer
    BY <1>1, <2>4, SearchTimerInv
  <2>5. ASSUME NEW op \in Timed, RetryDue(op) PROVE IInv'
    BY <1>1, <2>5, RetryDueInv
  <2> QED
    BY <1>4, <2>1, <2>2, <2>3, <2>4, <2>5 DEF Timers
<1>5. CASE Wlan
  BY <1>1, <1>5, WlanInv DEF Wlan
<1>6. CASE User
  <2>1. CASE Scan \/ Disconnect
    BY <1>1, <2>1, ButtonsInv
  <2>2. CASE ShortInput
    BY <1>1, <2>2, ShortInputInv
  <2>3. ASSUME NEW c \in Credentials, NEW saved \in BOOLEAN, EditorSubmit(c, saved)
        PROVE  IInv'
    BY <1>1, <2>3, EditorSubmitInv
  <2>4. ASSUME NEW i \in 1 .. Len(ui.profiles), EditorDelete(i) PROVE IInv'
    BY <1>1, <2>4, EditorDeleteInv
  <2>5. ASSUME NEW q \in Queries, Input(q) PROVE IInv'
    BY <1>1, <2>5, InputInv
  <2>6. ASSUME NEW c \in Cities, SelectCity(c) PROVE IInv'
    BY <1>1, <2>6, SelectCityInv
  <2> QED
    BY <1>6, <2>1, <2>2, <2>3, <2>4, <2>5, <2>6 DEF User
<1>7. CASE Unasked
  <2>1. CASE LinkDrops \/ FirmwareInfo
    BY <1>1, <2>1, WlanInv
  <2>2. ASSUME NEW due \in SUBSET Timed \ {{}}, ClockTimer(due) PROVE IInv'
    BY <1>1, <2>2, ButtonsInv
  <2> QED
    BY <1>7, <2>1, <2>2 DEF Unasked
<1> QED
  BY <1>2, <1>3, <1>4, <1>5, <1>6, <1>7 DEF Next

\* So it holds in every reachable state.
THEOREM InvariantHolds == Spec => []IInv
<1>1. Init => IInv
  BY InitInv
<1>2. IInv /\ [Next]_vars => IInv'
  <2>1. SUFFICES ASSUME IInv, [Next]_vars PROVE IInv'
    OBVIOUS
  <2>2. CASE UNCHANGED vars
    <3>1. Here' = Here /\ ui' = ui /\ events' = events /\ worker' = worker /\ link' = link
          /\ ghost' = ghost /\ spent' = spent
      BY <2>2 DEF vars, Here
    <3>2. Good(Here, events, worker, ghost)'
      BY <2>1, <3>1, HereParts
    <3> QED
      BY <2>1, <3>1, <3>2 DEF IInv, RestType, LastOK
  <2> QED
    BY <2>1, <2>2, NextInv
<1> QED
  BY <1>1, <1>2, PTL DEF Spec

\* Every part of the state has its type, and no queue and no list of profiles grows past
\* the room that the code gives it.
THEOREM WeatherTypes == Spec => []TypeOK
<1>1. IInv => TypeOK
  <2>1. SUFFICES ASSUME IInv PROVE TypeOK
    OBVIOUS
  <2>2. ui \in UiType /\ port \in PortType /\ Here.ui = ui /\ Here.port = port
    BY <2>1, HereParts
  <2>3. Fits(Here) /\ RestType
    BY <2>1 DEF IInv, Good
  <2> QED
    BY <2>2, <2>3 DEF TypeOK, Fits, RestType
<1> QED
  BY <1>1, InvariantHolds, PTL

\* There are never two scans, weather requests or time requests under way at once, lost
\* answers included.
THEOREM NeverTwoInFlight == Spec => []OneInFlight
<1>1. IInv => OneInFlight
  <2>1. SUFFICES ASSUME IInv, NEW op \in {"scan", "weather", "time"},
                        NEW x \in Places(op), NEW y \in Places(op)
                 PROVE  x = y
    BY DEF OneInFlight
  <2> DEFINE q == port.queue["net"]
  <2>2. Single(ui, q, events, worker, op)
    <3>1. Good(Here, events, worker, ghost) /\ Here.ui = ui /\ Here.port = port
      BY <2>1, HereParts
    <3> QED
      BY <3>1 DEF Good, OneAtATime
  <2>3. Places(op) = ({"queue"} \X Of(q, op)) \cup ({"event"} \X Of(events, op))
                       \cup (IF Busy(worker, op) THEN {<<"worker", 0>>} ELSE {})
    <3>1. WorkerOf(op) = "net"
      BY DEF WorkerOf
    <3> QED
      BY <3>1 DEF Places, Of, Busy
  <2> HIDE DEF q
  <2>4. CASE Busy(worker, op)
    <3>1. x = <<"worker", 0>> /\ y = <<"worker", 0>>
      BY <2>2, <2>3, <2>4 DEF Single
    <3> QED
      BY <3>1
  <2>5. CASE ~Busy(worker, op) /\ Of(events, op) = {}
    <3>1. PICK i \in Of(q, op) : x = <<"queue", i>>
      BY <2>3, <2>5
    <3>2. PICK j \in Of(q, op) : y = <<"queue", j>>
      BY <2>3, <2>5
    <3> QED
      BY <2>2, <3>1, <3>2 DEF Single
  <2>6. CASE ~Busy(worker, op) /\ Of(q, op) = {}
    <3>1. PICK i \in Of(events, op) : x = <<"event", i>>
      BY <2>3, <2>6
    <3>2. PICK j \in Of(events, op) : y = <<"event", j>>
      BY <2>3, <2>6
    <3> QED
      BY <2>2, <3>1, <3>2 DEF Single
  <2> QED
    BY <2>2, <2>4, <2>5, <2>6 DEF Single
<1> QED
  BY <1>1, InvariantHolds, PTL

\* The page says "connecting" only while a connect request is open.
THEOREM ConnectingAlwaysPending == Spec => []ConnectingIsPending
<1>1. IInv => ConnectingIsPending
  BY HereParts DEF UiOK, ConnectingIsPending
<1> QED
  BY <1>1, InvariantHolds, PTL

\* The candidates on the city page answer the last query, never one that was replaced.
THEOREM CandidatesAlwaysLatest == Spec => []CandidatesAreLatest
<1>1. IInv => CandidatesAreLatest
  BY HereParts DEF UiOK, CandidatesAreLatest
<1> QED
  BY <1>1, InvariantHolds, PTL

\* Every stored profile holds credentials for which rt_wlan_connect has reported success:
\* those a join succeeded with, and those given for the network in use, whose password is
\* not looked at.
THEOREM SavedAlwaysReported == Spec => []SavedWasReported
<1>1. IInv => SavedWasReported
  BY HereParts DEF UiOK, SavedWasReported
<1> QED
  BY <1>1, InvariantHolds, PTL

\* The network of the automatic connection is the profile that was stored last, however the
\* list was edited since.
THEOREM LastAlwaysSaved == Spec => []LastIsSaved
<1>1. IInv => LastIsSaved
  BY DEF IInv, LastOK, LastIsSaved
<1> QED
  BY <1>1, InvariantHolds, PTL
=============================================================================
