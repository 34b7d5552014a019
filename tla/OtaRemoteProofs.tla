-------------------------- MODULE OtaRemoteProofs --------------------------
(***************************************************************************)
(* Proofs about OtaRemote for every set of offers and every queue depth.   *)
(***************************************************************************)
EXTENDS OtaRemote, SequenceTheorems, TLAPS

(* The transmit queue: what CompletedIsTrue says of it and of the server,  *)
(* and that no completed event names the version as delivered.             *)
TxInv ==
    /\ CompletedIsTrue
    /\ \A i \in 1..Len(txq) : txq[i].type = "completed" => txq[i].n > FirstVersion

(* Versions only go up: what is offered, downloaded, committed or saved is *)
(* never older than what runs.                                             *)
VersionInv ==
    /\ version >= FirstVersion
    /\ upgrade = 0 \/ upgrade >= version
    /\ update # NoOffer => update.ver > FirstVersion
    /\ pending # NoOffer => pending.ver > FirstVersion
    /\ update_valid \/ ctl \in RunSteps => update # NoOffer /\ update.ver >= version

RInv == TypeOK /\ OneUpdateTask /\ TxInv /\ VersionInv

-----------------------------------------------------------------------------
(* Queues and message ids *)

\* What Append does to a queue.
LEMMA AppendQueue ==
    ASSUME NEW S, NEW s \in Seq(S), NEW x \in S
    PROVE  /\ Append(s, x) \in Seq(S)
           /\ Len(Append(s, x)) = Len(s) + 1
           /\ \A i \in 1..Len(s) : Append(s, x)[i] = s[i]
           /\ Append(s, x)[Len(s) + 1] = x
BY AppendProperties

\* What taking the head does to a queue.
LEMMA TailQueue ==
    ASSUME NEW S, NEW s \in Seq(S), s # <<>>
    PROVE  /\ Len(s) \in Nat \ {0}
           /\ Head(s) = s[1] /\ Head(s) \in S
           /\ Tail(s) \in Seq(S)
           /\ Len(Tail(s)) = Len(s) - 1
           /\ \A i \in 1..Len(Tail(s)) : Tail(s)[i] = s[i + 1]
BY HeadTailProperties, EmptySeq, LenProperties

\* Message ids stay in their range when the counter wraps.
LEMMA CounterStep ==
    ASSUME TypeOK
    PROVE  (counter + 1) % IdMod \in 0..(IdMod - 1)
BY BoundsAssumption DEF TypeOK

\* The records that are put into the queues have their types.
LEMMA MessageTypes ==
    /\ Event \in Messages
    /\ \A n \in 0..(IdMod - 1) : [type |-> "request", n |-> n] \in Messages
    /\ \A n \in Nat : [type |-> "completed", n |-> n] \in Messages
    /\ \A t \in {"CHECK", "ACCEPT", "DECLINE"} : [type |-> t] \in Commands
    /\ \A n \in 0..(IdMod - 1), o \in Offers \cup {NoOffer} :
         [type |-> "MESSAGE", n |-> n, offer |-> o] \in Commands
BY DEF Event, Messages, Commands

\* A message enters the transmit queue, or is refused.
LEMMA TxAppend ==
    ASSUME RInv, NEW m \in Messages, mqtt_enqueue(m),
           m.type = "completed" => m.n = version /\ version > FirstVersion,
           UNCHANGED <<version, reported>>
    PROVE  txq' \in Seq(Messages) /\ Len(txq') <= TxDepth /\ TxInv'
<1>1. CASE Len(txq) < TxDepth
  <2>1. /\ txq' \in Seq(Messages) /\ Len(txq') = Len(txq) + 1
        /\ \A i \in 1..Len(txq) : txq'[i] = txq[i]
        /\ txq'[Len(txq) + 1] = m
    BY <1>1, AppendQueue DEF mqtt_enqueue, RInv, TypeOK
  <2>2. Len(txq) \in Nat
    BY LenProperties DEF RInv, TypeOK
  <2>3. Len(txq') <= TxDepth
    BY <1>1, <2>1, <2>2, BoundsAssumption
  <2>4. ASSUME NEW i \in 1..Len(txq'), txq'[i].type = "completed"
        PROVE  txq'[i].n = version /\ txq'[i].n > FirstVersion
    <3>1. CASE i \in 1..Len(txq)
      BY <2>1, <2>4, <3>1 DEF RInv, TxInv, CompletedIsTrue
    <3>2. CASE i = Len(txq) + 1
      BY <2>1, <2>4, <3>2
    <3> QED
      BY <2>1, <2>2, <3>1, <3>2
  <2> QED
    BY <2>1, <2>3, <2>4 DEF RInv, TxInv, CompletedIsTrue
<1>2. CASE ~(Len(txq) < TxDepth)
  BY <1>2 DEF mqtt_enqueue, RInv, TypeOK, TxInv, CompletedIsTrue
<1> QED
  BY <1>1, <1>2

\* An event enters the transmit queue, or is refused; the counter moves on.
LEMMA EventStep ==
    ASSUME RInv, publish_update_event, UNCHANGED <<version, reported>>
    PROVE  /\ txq' \in Seq(Messages) /\ Len(txq') <= TxDepth /\ TxInv'
           /\ counter' \in 0..(IdMod - 1) /\ last_request' = last_request
<1>1. Event \in Messages /\ Event.type # "completed"
  BY MessageTypes DEF Event
<1>2. txq' \in Seq(Messages) /\ Len(txq') <= TxDepth /\ TxInv'
  BY <1>1, TxAppend DEF publish_update_event
<1>3. counter' \in 0..(IdMod - 1) /\ last_request' = last_request
  BY CounterStep DEF RInv, publish_update_event
<1> QED
  BY <1>2, <1>3

\* The same for a version request.
LEMMA RequestStep ==
    ASSUME RInv, publish_version_request, UNCHANGED <<version, reported>>
    PROVE  /\ txq' \in Seq(Messages) /\ Len(txq') <= TxDepth /\ TxInv'
           /\ counter' \in 0..(IdMod - 1) /\ last_request' \in 0..IdMod
<1>1. counter' \in 0..(IdMod - 1)
  BY CounterStep DEF RInv, publish_version_request
<1>2. last_request' \in 0..IdMod
  BY <1>1, BoundsAssumption DEF publish_version_request
<1> DEFINE m == [type |-> "request", n |-> counter']
<1>3. m \in Messages /\ m.type # "completed" /\ mqtt_enqueue(m)
  BY <1>1, MessageTypes DEF publish_version_request
<1> HIDE DEF m
<1>4. txq' \in Seq(Messages) /\ Len(txq') <= TxDepth /\ TxInv'
  BY <1>3, TxAppend
<1> QED
  BY <1>1, <1>2, <1>4

\* A command other than ACCEPT enters the command queue.
LEMMA QueueAdd ==
    ASSUME RInv, NEW c \in Commands, c.type # "ACCEPT", enqueue(c)
    PROVE  queue' \in Seq(Commands) /\ Len(queue') <= QueueDepth /\ Accepts' = Accepts
<1>1. /\ queue' \in Seq(Commands) /\ Len(queue') = Len(queue) + 1
      /\ \A i \in 1..Len(queue) : queue'[i] = queue[i]
      /\ queue'[Len(queue) + 1] = c
  BY AppendQueue DEF enqueue, RInv, TypeOK
<1>2. Len(queue) \in Nat
  BY LenProperties DEF RInv, TypeOK
<1>3. Len(queue') <= QueueDepth
  BY <1>1, <1>2, BoundsAssumption DEF enqueue
<1>4. ASSUME NEW i
      PROVE  i \in Accepts' <=> i \in Accepts
  <2>1. i \in 1..Len(queue') <=> i \in 1..Len(queue) \/ i = Len(queue) + 1
    BY <1>1, <1>2
  <2> QED
    BY <1>1, <2>1 DEF Accepts
<1> QED
  BY <1>1, <1>3, <1>4

\* ACCEPT enters the command queue.
LEMMA QueueAccept ==
    ASSUME RInv, enqueue([type |-> "ACCEPT"])
    PROVE  /\ queue' \in Seq(Commands) /\ Len(queue') <= QueueDepth
           /\ Accepts' = Accepts \cup {Len(queue) + 1}
<1> DEFINE c == [type |-> "ACCEPT"]
<1>1. c \in Commands /\ c.type = "ACCEPT" /\ enqueue(c)
  BY MessageTypes
<1> HIDE DEF c
<1>2. /\ queue' \in Seq(Commands) /\ Len(queue') = Len(queue) + 1
      /\ \A i \in 1..Len(queue) : queue'[i] = queue[i]
      /\ queue'[Len(queue) + 1] = c
  BY <1>1, AppendQueue DEF enqueue, RInv, TypeOK
<1>3. Len(queue) \in Nat
  BY LenProperties DEF RInv, TypeOK
<1>4. Len(queue') <= QueueDepth
  BY <1>1, <1>2, <1>3, BoundsAssumption DEF enqueue
<1>5. ASSUME NEW i
      PROVE  i \in Accepts' <=> i \in Accepts \cup {Len(queue) + 1}
  <2>1. i \in 1..Len(queue') <=> i \in 1..Len(queue) \/ i = Len(queue) + 1
    BY <1>2, <1>3
  <2> QED
    BY <1>1, <1>2, <2>1 DEF Accepts
<1> QED
  BY <1>2, <1>4, <1>5

\* The controller takes a command: no ACCEPT appears, and when it takes one
\* there is no other.
LEMMA QueueTake ==
    ASSUME RInv, NEW t, Received(t)
    PROVE  /\ queue' \in Seq(Commands) /\ Len(queue') <= QueueDepth
           /\ Head(queue) \in Commands /\ Head(queue).type = t
           /\ \A i, j \in Accepts' : i = j
           /\ Accepts' # {} => Accepts # {}
           /\ t = "ACCEPT" => Accepts' = {} /\ Accepts # {}
<1>1. /\ Len(queue) \in Nat \ {0}
      /\ Head(queue) = queue[1] /\ Head(queue) \in Commands
      /\ queue' \in Seq(Commands) /\ Len(queue') = Len(queue) - 1
      /\ \A i \in 1..Len(queue') : queue'[i] = queue[i + 1]
  BY TailQueue DEF Received, RInv, TypeOK
<1>2. Len(queue') <= QueueDepth
  BY <1>1, BoundsAssumption DEF RInv, TypeOK
<1>3. ASSUME NEW i \in Accepts'
      PROVE  i \in Nat \ {0} /\ i + 1 \in Accepts
  <2>1. i \in 1..Len(queue') /\ queue'[i].type = "ACCEPT"
    BY DEF Accepts
  <2>2. i \in Nat \ {0} /\ i + 1 \in 1..Len(queue)
    BY <1>1, <2>1
  <2> QED
    BY <1>1, <2>1, <2>2 DEF Accepts
<1>4. \A i, j \in Accepts : i = j
  BY DEF RInv, OneUpdateTask
<1>5. ASSUME NEW i \in Accepts', NEW j \in Accepts'
      PROVE  i = j
  <2>1. i + 1 = j + 1
    BY <1>3, <1>4
  <2> QED
    BY <1>3, <2>1
<1>6. t = "ACCEPT" => 1 \in Accepts
  BY <1>1 DEF Accepts, Received
<1>7. ASSUME t = "ACCEPT", NEW i \in Accepts'
      PROVE  FALSE
  <2>1. i + 1 = 1
    BY <1>3, <1>4, <1>6, <1>7
  <2> QED
    BY <1>3, <2>1
<1> QED
  BY <1>1, <1>2, <1>3, <1>5, <1>6, <1>7 DEF Received

-----------------------------------------------------------------------------
(* What a step that leaves a part of the state alone preserves *)

\* The transmit queue, the version and the server's knowledge are untouched.
LEMMA TxSame ==
    ASSUME RInv, UNCHANGED <<txq, version, reported>>
    PROVE  txq' \in Seq(Messages) /\ Len(txq') <= TxDepth /\ TxInv'
BY DEF RInv, TypeOK, TxInv, CompletedIsTrue

\* No update task starts, and none is posted or taken.
LEMMA TaskSame ==
    ASSUME RInv, UNCHANGED <<queue, in_progress, ui>>,
           ctl' \in RunSteps => ctl \in RunSteps
    PROVE  OneUpdateTask'
<1>1. Accepts' = Accepts
  BY DEF Accepts
<1> QED
  BY <1>1 DEF RInv, OneUpdateTask

\* The controller takes a command and starts no update.
LEMMA TaskTake ==
    ASSUME RInv, NEW t, Received(t), UNCHANGED <<in_progress, ui>>,
           ctl' \in RunSteps => t = "ACCEPT"
    PROVE  OneUpdateTask'
<1>1. /\ \A i, j \in Accepts' : i = j
      /\ Accepts' # {} => Accepts # {}
      /\ t = "ACCEPT" => Accepts' = {} /\ Accepts # {}
  BY QueueTake
<1>2. ctl \notin RunSteps
  BY DEF Received, RunSteps
<1> QED
  BY <1>1, <1>2 DEF RInv, OneUpdateTask

\* No image and no offer changes, and no offer becomes valid.
LEMMA VersionSame ==
    ASSUME RInv, UNCHANGED <<version, upgrade, pending, update>>,
           update_valid' \/ ctl' \in RunSteps => update_valid \/ ctl \in RunSteps
    PROVE  VersionInv'
BY DEF RInv, VersionInv

-----------------------------------------------------------------------------
(* The LVGL thread *)

\* The acceptance, from the test of the flag to the command in the queue.
LEMMA AcceptStep ==
    ASSUME RInv, accept_update \/ accept_enqueue
    PROVE  RInv'
<1>1. TxInv' /\ txq' \in Seq(Messages) /\ Len(txq') <= TxDepth
  BY TxSame DEF accept_update, accept_enqueue, flash, network
<1>2. VersionInv'
  BY VersionSame DEF accept_update, accept_enqueue, flash, network, offer
<1>3. CASE accept_update
  <2>1. TypeOK'
    BY <1>3 DEF accept_update, RInv, TypeOK, flash, network, offer, ids
  <2>2. Accepts' = Accepts
    BY <1>3 DEF accept_update, Accepts
  <2>3. OneUpdateTask'
    BY <1>3, <2>2 DEF accept_update, RInv, OneUpdateTask
  <2> QED
    BY <1>1, <1>2, <2>1, <2>3 DEF RInv
<1>4. CASE accept_enqueue /\ enqueue([type |-> "ACCEPT"]) /\ UNCHANGED in_progress
  <2>1. /\ queue' \in Seq(Commands) /\ Len(queue') <= QueueDepth
        /\ Accepts' = Accepts \cup {Len(queue) + 1}
    BY <1>4, QueueAccept
  <2>2. TypeOK'
    BY <1>4, <2>1 DEF accept_enqueue, RInv, TypeOK, flash, network, offer, ids
  <2>3. ui = "enqueue" /\ ui' = "idle" /\ ctl' = ctl
    BY <1>4 DEF accept_enqueue
  <2>4. Accepts = {} /\ ctl \notin RunSteps /\ in_progress
    BY <2>3 DEF RInv, OneUpdateTask
  <2>5. OneUpdateTask'
    BY <1>4, <2>1, <2>3, <2>4 DEF OneUpdateTask
  <2> QED
    BY <1>1, <1>2, <2>2, <2>5 DEF RInv
<1>5. CASE accept_enqueue /\ in_progress' = FALSE /\ UNCHANGED queue
  <2>1. TypeOK'
    BY <1>5 DEF accept_enqueue, RInv, TypeOK, flash, network, offer, ids
  <2>2. Accepts' = Accepts /\ ui = "enqueue" /\ ui' = "idle" /\ ctl' = ctl
    BY <1>5 DEF accept_enqueue, Accepts
  <2>3. OneUpdateTask'
    BY <2>2 DEF RInv, OneUpdateTask
  <2> QED
    BY <1>1, <1>2, <2>1, <2>3 DEF RInv
<1> QED
  BY <1>3, <1>4, <1>5 DEF accept_enqueue

\* The other public functions and the receive thread post commands.
LEMMA PostStep ==
    ASSUME RInv, NEW c \in Commands, c.type # "ACCEPT", enqueue(c),
           UNCHANGED <<flash, network, power_losses, txq, ids, offer,
                       in_progress, broker_update, ctl, ui>>
    PROVE  RInv'
<1>1. queue' \in Seq(Commands) /\ Len(queue') <= QueueDepth /\ Accepts' = Accepts
  BY QueueAdd
<1>2. TypeOK'
  BY <1>1 DEF RInv, TypeOK, flash, network, offer, ids
<1>3. OneUpdateTask'
  BY <1>1 DEF RInv, OneUpdateTask
<1>4. TxInv' /\ VersionInv'
  BY TxSame, VersionSame DEF flash, network, offer
<1> QED
  BY <1>2, <1>3, <1>4 DEF RInv

LEMMA PostSteps ==
    ASSUME RInv,
           \/ enqueue_simple("CHECK") \/ enqueue_simple("DECLINE")
           \/ \E n \in requests, o \in Offers \cup {NoOffer} :
                mqtt_receive_callback(n, o)
    PROVE  RInv'
<1>1. ASSUME NEW t \in {"CHECK", "DECLINE"}, enqueue_simple(t)
      PROVE  RInv'
  <2> DEFINE c == [type |-> t]
  <2>1. c \in Commands /\ c.type # "ACCEPT" /\ enqueue(c)
    BY <1>1, MessageTypes DEF enqueue_simple
  <2> HIDE DEF c
  <2> QED
    BY <1>1, <2>1, PostStep DEF enqueue_simple
<1>2. ASSUME NEW n \in requests, NEW o \in Offers \cup {NoOffer},
             mqtt_receive_callback(n, o)
      PROVE  RInv'
  <2> DEFINE c == [type |-> "MESSAGE", n |-> n, offer |-> o]
  <2>1. n \in 0..(IdMod - 1)
    BY DEF RInv, TypeOK
  <2>2. c \in Commands /\ c.type # "ACCEPT" /\ enqueue(c)
    BY <1>2, <2>1, MessageTypes DEF mqtt_receive_callback
  <2> HIDE DEF c
  <2> QED
    BY <1>2, <2>2, PostStep DEF mqtt_receive_callback
<1> QED
  BY <1>1, <1>2

-----------------------------------------------------------------------------
(* Steps that touch neither the queues nor what the controller works on *)

\* The environment, the change of server and the way in and out of the loop.
LEMMA QuietStep ==
    ASSUME RInv,
           \/ set_server_ip \/ WlanUp \/ WlanDown \/ LinkLost
           \/ ConnectOk \/ disconnect_mqtt
    PROVE  RInv'
<1> USE DEF set_server_ip, WlanUp, WlanDown, LinkLost, ConnectOk,
            disconnect_mqtt, flash, network, offer, ids
<1>1. TypeOK'
  BY DEF RInv, TypeOK
<1>2. ctl' \in RunSteps => ctl \in RunSteps
  BY DEF RunSteps
<1>3. OneUpdateTask'
  BY <1>2, TaskSame
<1>4. TxInv'
  BY TxSame
<1>5. VersionInv'
  BY <1>2, VersionSame
<1> QED
  BY <1>1, <1>3, <1>4, <1>5 DEF RInv

\* The publisher takes a message; the server may get it.
LEMMA PublishStep ==
    ASSUME RInv, mqtt_tx_entry
    PROVE  RInv'
<1> DEFINE m == Head(txq)
<1>1. /\ Len(txq) \in Nat \ {0} /\ m = txq[1] /\ m \in Messages
      /\ txq' \in Seq(Messages) /\ Len(txq') = Len(txq) - 1
      /\ \A i \in 1..Len(txq') : txq'[i] = txq[i + 1]
  BY TailQueue DEF mqtt_tx_entry, RInv, TypeOK
<1>2. Len(txq') <= TxDepth
  BY <1>1, BoundsAssumption DEF RInv, TypeOK
<1>3. m.type = "completed" => m.n \in (FirstVersion + 1)..version
  <2>1. m.type = "completed" => m.n = version /\ m.n > FirstVersion
    BY <1>1 DEF RInv, TxInv, CompletedIsTrue
  <2> QED
    BY <2>1, BoundsAssumption DEF RInv, TypeOK
<1>4. m.type = "request" => m.n \in 0..(IdMod - 1)
  BY <1>1 DEF Messages
<1>5. /\ requests' \subseteq requests \cup (IF m.type = "request" THEN {m.n} ELSE {})
      /\ reported' \subseteq reported \cup (IF m.type = "completed" THEN {m.n} ELSE {})
  BY DEF mqtt_tx_entry
<1> HIDE DEF m
<1>6. requests' \subseteq 0..(IdMod - 1)
  BY <1>4, <1>5 DEF RInv, TypeOK
<1>7. reported' \subseteq (FirstVersion + 1)..version
  BY <1>3, <1>5 DEF RInv, TxInv, CompletedIsTrue
<1>8. reported' \subseteq Nat
  BY <1>7, BoundsAssumption DEF RInv, TypeOK
<1>9. TypeOK'
  BY <1>1, <1>2, <1>6, <1>8 DEF mqtt_tx_entry, RInv, TypeOK, flash, offer, ids
<1>10. ASSUME NEW i \in 1..Len(txq'), txq'[i].type = "completed"
       PROVE  txq'[i].n = version /\ txq'[i].n > FirstVersion
  <2>1. i + 1 \in 1..Len(txq)
    BY <1>1
  <2> QED
    BY <1>1, <1>10, <2>1 DEF RInv, TxInv, CompletedIsTrue
<1>11. TxInv'
  BY <1>7, <1>10 DEF TxInv, CompletedIsTrue, mqtt_tx_entry, flash
<1>12. OneUpdateTask' /\ VersionInv'
  BY TaskSame, VersionSame DEF mqtt_tx_entry, flash, offer
<1> QED
  BY <1>9, <1>11, <1>12 DEF RInv

-----------------------------------------------------------------------------
(* The controller: connecting *)

LEMMA StatusStep ==
    ASSUME RInv, publish_status
    PROVE  RInv'
<1>1. Event \in Messages /\ Event.type # "completed" /\ mqtt_enqueue(Event)
  BY MessageTypes DEF Event, publish_status
<1>2. txq' \in Seq(Messages) /\ Len(txq') <= TxDepth /\ TxInv'
  BY <1>1, TxAppend DEF publish_status, flash, network
<1>3. TypeOK'
  BY <1>2 DEF publish_status, RInv, TypeOK, flash, network, offer, ids
<1>4. OneUpdateTask' /\ VersionInv'
  BY TaskSame, VersionSame DEF publish_status, flash, offer, RunSteps
<1> QED
  BY <1>2, <1>3, <1>4 DEF RInv

\* The pending update that is reported is the version that runs.
LEMMA CompletedStep ==
    ASSUME RInv, publish_completed_if_pending
    PROVE  RInv'
<1>1. ctl = "completed" /\ ctl' = "request" /\ ctl' \notin RunSteps
  BY DEF publish_completed_if_pending, RunSteps
<1>2. OneUpdateTask'
  BY <1>1, TaskSame DEF publish_completed_if_pending
<1>3. CASE HasPending /\ update' = pending
           /\ counter' = (counter + 1) % IdMod
           /\ mqtt_enqueue([type |-> "completed", n |-> pending.ver])
           /\ pending' \in {pending, NoOffer}
  <2>1. /\ pending # NoOffer /\ pending \in Offers
        /\ pending.ver = version /\ version > FirstVersion
    BY <1>3 DEF HasPending, RInv, TypeOK, VersionInv
  <2> DEFINE m == [type |-> "completed", n |-> pending.ver]
  <2>2. m \in Messages /\ m.n = version /\ mqtt_enqueue(m)
    BY <1>3, <2>1, MessageTypes DEF RInv, TypeOK
  <2> HIDE DEF m
  <2>3. txq' \in Seq(Messages) /\ Len(txq') <= TxDepth /\ TxInv'
    BY <2>1, <2>2, TxAppend DEF publish_completed_if_pending, network
  <2>4. counter' \in 0..(IdMod - 1)
    BY <1>3, CounterStep DEF RInv
  <2>5. TypeOK'
    BY <1>1, <1>3, <2>1, <2>3, <2>4
    DEF publish_completed_if_pending, RInv, TypeOK, network
  <2>6. VersionInv'
    BY <1>1, <1>3, <2>1
    DEF publish_completed_if_pending, RInv, TypeOK, VersionInv
  <2> QED
    BY <1>2, <2>3, <2>5, <2>6 DEF RInv
<1>4. CASE UNCHANGED <<update, counter, txq, pending>>
  <2>1. TypeOK'
    BY <1>1, <1>4 DEF publish_completed_if_pending, RInv, TypeOK, network
  <2>2. TxInv' /\ VersionInv'
    BY <1>1, <1>4, TxSame, VersionSame DEF publish_completed_if_pending, network
  <2> QED
    BY <1>2, <2>1, <2>2 DEF RInv
<1> QED
  BY <1>3, <1>4 DEF publish_completed_if_pending

\* The version request that ends a connection, or that the user asked for.
LEMMA RequestSteps ==
    ASSUME RInv, ConnectRequest \/ HandleCheck
    PROVE  RInv'
<1>1. /\ txq' \in Seq(Messages) /\ Len(txq') <= TxDepth /\ TxInv'
      /\ counter' \in 0..(IdMod - 1) /\ last_request' \in 0..IdMod
  BY RequestStep DEF ConnectRequest, HandleCheck, flash, network
<1>2. ctl' \in {"loop", "offline"} /\ ctl' \notin RunSteps
  BY DEF ConnectRequest, HandleCheck, Received, RunSteps
<1>3. VersionInv'
  BY <1>2, VersionSame DEF ConnectRequest, HandleCheck, flash, offer
<1>4. CASE ConnectRequest
  <2>1. TypeOK'
    BY <1>1, <1>2, <1>4 DEF ConnectRequest, RInv, TypeOK, flash, offer
  <2>2. OneUpdateTask'
    BY <1>2, <1>4, TaskSame DEF ConnectRequest
  <2> QED
    BY <1>1, <1>3, <2>1, <2>2 DEF RInv
<1>5. CASE HandleCheck
  <2>1. queue' \in Seq(Commands) /\ Len(queue') <= QueueDepth
    BY <1>5, QueueTake DEF HandleCheck
  <2>2. TypeOK'
    BY <1>1, <1>5, <2>1 DEF HandleCheck, RInv, TypeOK, flash, network, offer
  <2>3. OneUpdateTask'
    BY <1>2, <1>5, TaskTake DEF HandleCheck
  <2> QED
    BY <1>1, <1>3, <2>2, <2>3 DEF RInv
<1> QED
  BY <1>4, <1>5

-----------------------------------------------------------------------------
(* The controller: commands *)

LEMMA ResponseStep ==
    ASSUME RInv, handle_version_response
    PROVE  RInv'
<1> DEFINE m == Head(queue)
<1>1. /\ queue' \in Seq(Commands) /\ Len(queue') <= QueueDepth
      /\ m \in Commands /\ m.type = "MESSAGE"
  BY QueueTake DEF handle_version_response
<1>2. m.offer \in Offers \cup {NoOffer}
  BY <1>1 DEF Commands
<1>3. ctl = "loop" /\ ctl' = ctl /\ ctl' \notin RunSteps
  BY DEF handle_version_response, Received, RunSteps
<1>4. OneUpdateTask'
  BY <1>3, TaskTake DEF handle_version_response
<1>5. TxInv' /\ txq' \in Seq(Messages) /\ Len(txq') <= TxDepth
  BY TxSame DEF handle_version_response, flash, network
<1>6. \/ UNCHANGED offer
      \/ update_valid' = FALSE /\ UNCHANGED update
      \/ /\ update_valid' = TRUE /\ update' = m.offer
         /\ m.offer # NoOffer /\ ~(m.offer.ver <= version)
  BY DEF handle_version_response
<1> HIDE DEF m
<1>7. TypeOK'
  <2>1. update_valid' \in BOOLEAN /\ update' \in Offers \cup {NoOffer}
    BY <1>2, <1>6 DEF offer, RInv, TypeOK
  <2>2. UNCHANGED <<flash, network, power_losses, txq, ids, in_progress,
                    broker_update, ctl, ui>>
    BY DEF handle_version_response
  <2> QED
    BY <1>1, <2>1, <2>2 DEF RInv, TypeOK, flash, network, ids
<1>8. CASE UNCHANGED offer \/ (update_valid' = FALSE /\ UNCHANGED update)
  <2>1. VersionInv'
    BY <1>3, <1>8, VersionSame DEF handle_version_response, flash, offer
  <2> QED
    BY <1>4, <1>5, <1>7, <2>1 DEF RInv
<1>9. CASE update' = m.offer /\ m.offer # NoOffer /\ ~(m.offer.ver <= version)
  <2>1. m.offer.ver \in Nat /\ version \in Nat /\ FirstVersion \in Nat
    BY <1>2, <1>9, OffersAssumption, BoundsAssumption DEF RInv, TypeOK
  <2>2. UNCHANGED <<version, upgrade, pending>>
    BY DEF handle_version_response, flash
  <2>3. VersionInv'
    BY <1>9, <2>1, <2>2 DEF RInv, VersionInv
  <2> QED
    BY <1>4, <1>5, <1>7, <2>3 DEF RInv
<1> QED
  BY <1>6, <1>8, <1>9

LEMMA DeclineStep ==
    ASSUME RInv, HandleDecline
    PROVE  RInv'
<1>1. queue' \in Seq(Commands) /\ Len(queue') <= QueueDepth
  BY QueueTake DEF HandleDecline
<1>2. /\ txq' \in Seq(Messages) /\ Len(txq') <= TxDepth /\ TxInv'
      /\ counter' \in 0..(IdMod - 1) /\ last_request' = last_request
  <2>1. CASE publish_update_event
    BY <2>1, EventStep DEF HandleDecline, flash, network
  <2>2. CASE UNCHANGED <<txq, ids>>
    BY <2>2, TxSame DEF HandleDecline, flash, network, ids, RInv, TypeOK
  <2> QED
    BY <2>1, <2>2 DEF HandleDecline
<1>3. TypeOK'
  BY <1>1, <1>2 DEF HandleDecline, RInv, TypeOK, flash, network, offer
<1>4. ctl' \notin RunSteps
  BY DEF HandleDecline, Received, RunSteps
<1>5. OneUpdateTask' /\ VersionInv'
  BY <1>4, TaskTake, VersionSame DEF HandleDecline, flash, offer
<1> QED
  BY <1>2, <1>3, <1>5 DEF RInv

\* run_update starts with a valid offer only.
LEMMA HandleAcceptStep ==
    ASSUME RInv, HandleAccept
    PROVE  RInv'
<1>1. queue' \in Seq(Commands) /\ Len(queue') <= QueueDepth
  BY QueueTake DEF HandleAccept
<1>2. /\ txq' \in Seq(Messages) /\ Len(txq') <= TxDepth /\ TxInv'
      /\ counter' \in 0..(IdMod - 1) /\ last_request' = last_request
  <2>1. CASE publish_update_event
    BY <2>1, EventStep DEF HandleAccept, flash, network
  <2>2. CASE UNCHANGED <<txq, ids>>
    BY <2>2, TxSame DEF HandleAccept, flash, network, ids, RInv, TypeOK
  <2> QED
    BY <2>1, <2>2 DEF HandleAccept
<1>3. TypeOK'
  BY <1>1, <1>2 DEF HandleAccept, RInv, TypeOK, flash, network, offer, RunSteps
<1>4. OneUpdateTask'
  BY TaskTake DEF HandleAccept
<1>5. ctl' \in RunSteps => update_valid
  BY DEF HandleAccept, Received, RunSteps
<1>6. VersionInv'
  BY <1>5, VersionSame DEF HandleAccept, flash, offer
<1> QED
  BY <1>2, <1>3, <1>4, <1>6 DEF RInv

-----------------------------------------------------------------------------
(* The controller: run_update *)

\* Steps that only move the controller on.
LEMMA RunQuietStep ==
    ASSUME RInv, RolloutDelay \/ DownloadFails \/ TransferDone
    PROVE  RInv'
<1>1. /\ ctl \in RunSteps /\ ctl' \in RunSteps
      /\ UNCHANGED <<flash, txq, ids, Untouched>>
  BY DEF RolloutDelay, DownloadFails, TransferDone, RunSteps
<1>2. TypeOK'
  BY <1>1 DEF RInv, TypeOK, flash, network, offer, ids, Untouched
<1>3. TxInv' /\ OneUpdateTask' /\ VersionInv'
  BY <1>1, TxSame, TaskSame, VersionSame DEF flash, network, offer, Untouched
<1> QED
  BY <1>2, <1>3 DEF RInv

\* Steps that report what run_update does.
LEMMA RunEventStep ==
    ASSUME RInv,
           \/ http_progress("download", "transfer")
           \/ http_progress("verify", "finish")
           \/ http_progress("commit", "save")
           \/ Progress \/ ReportFailed
    PROVE  RInv'
<1>1. /\ ctl' \in RunSteps \cup {"loop"}
      /\ ctl' \in RunSteps => ctl \in RunSteps
      /\ UNCHANGED <<flash, Untouched>>
      /\ publish_update_event \/ UNCHANGED <<txq, ids>>
  BY DEF http_progress, Progress, ReportFailed, RunSteps
<1>2. /\ txq' \in Seq(Messages) /\ Len(txq') <= TxDepth /\ TxInv'
      /\ counter' \in 0..(IdMod - 1) /\ last_request' = last_request
  <2>1. CASE publish_update_event
    BY <1>1, <2>1, EventStep DEF flash, network, Untouched
  <2>2. CASE UNCHANGED <<txq, ids>>
    BY <1>1, <2>2, TxSame DEF flash, network, ids, Untouched, RInv, TypeOK
  <2> QED
    BY <1>1, <2>1, <2>2
<1>3. TypeOK'
  BY <1>1, <1>2 DEF RInv, TypeOK, flash, network, offer, Untouched
<1>4. OneUpdateTask' /\ VersionInv'
  BY <1>1, TaskSame, VersionSame DEF flash, offer, Untouched
<1> QED
  BY <1>2, <1>3, <1>4 DEF RInv

\* ota_finish makes the image bootable: it is the one that was offered.
LEMMA FinishStep ==
    ASSUME RInv, Finish
    PROVE  RInv'
<1>1. /\ ctl \in RunSteps /\ ctl' \in {"commit", "failed"} /\ ctl' \in RunSteps
      /\ upgrade' \in {upgrade, 0, update.ver}
      /\ UNCHANGED <<version, pending, txq, ids, Untouched>>
  BY DEF Finish, RunSteps
<1>2. update # NoOffer /\ update \in Offers /\ update.ver >= version
      /\ update.ver \in Nat
  BY <1>1, OffersAssumption DEF RInv, TypeOK, VersionInv
<1>3. TypeOK'
  BY <1>1, <1>2 DEF RInv, TypeOK, network, offer, ids, Untouched
<1>4. TxInv' /\ OneUpdateTask'
  BY <1>1, TxSame, TaskSame DEF network, Untouched
<1>5. VersionInv'
  BY <1>1, <1>2 DEF RInv, VersionInv, offer, Untouched
<1> QED
  BY <1>3, <1>4, <1>5 DEF RInv

\* What is saved for the report after the restart is newer than the version
\* as delivered.
LEMMA SaveStep ==
    ASSUME RInv, save_pending_update
    PROVE  RInv'
<1>1. /\ ctl \in RunSteps /\ ctl' \in {"reboot", "failed"} /\ ctl' \in RunSteps
      /\ pending' \in {pending, update} /\ update_valid' \in {update_valid, FALSE}
      /\ UNCHANGED <<version, upgrade, network, power_losses, queue, update,
                     in_progress, broker_update, ui>>
      /\ publish_update_event \/ UNCHANGED <<txq, ids>>
  BY DEF save_pending_update, RunSteps
<1>2. /\ txq' \in Seq(Messages) /\ Len(txq') <= TxDepth /\ TxInv'
      /\ counter' \in 0..(IdMod - 1) /\ last_request' = last_request
  <2>1. CASE publish_update_event
    BY <1>1, <2>1, EventStep DEF network
  <2>2. CASE UNCHANGED <<txq, ids>>
    BY <1>1, <2>2, TxSame DEF network, ids, RInv, TypeOK
  <2> QED
    BY <1>1, <2>1, <2>2
<1>3. TypeOK'
  BY <1>1, <1>2 DEF RInv, TypeOK, network
<1>4. OneUpdateTask'
  BY <1>1, TaskSame
<1>5. VersionInv'
  BY <1>1 DEF RInv, VersionInv
<1> QED
  BY <1>2, <1>3, <1>4, <1>5 DEF RInv

\* run_update ends, or the reset is under way.
LEMMA EndStep ==
    ASSUME RInv, RebootToInstall \/ RunFailed
    PROVE  RInv'
<1>1. /\ ctl \in RunSteps
      /\ \/ ctl' = "delay_reset" /\ ctl' \in RunSteps /\ UNCHANGED in_progress
         \/ ctl' \in {"loop", "report"} /\ ctl' \notin RunSteps /\ in_progress' = FALSE
      /\ UNCHANGED <<flash, network, power_losses, queue, txq, ids, offer,
                     broker_update, ui>>
  BY DEF RebootToInstall, RunFailed, RunSteps
<1>2. TypeOK'
  BY <1>1 DEF RInv, TypeOK, flash, network, offer, ids
<1>3. Accepts' = Accepts
  BY <1>1 DEF Accepts
<1>4. OneUpdateTask'
  <2>1. Accepts = {} /\ ui # "enqueue" /\ in_progress
    BY <1>1 DEF RInv, OneUpdateTask
  <2>2. Accepts' = {} /\ ui' # "enqueue"
    BY <1>1, <1>3, <2>1
  <2>3. ctl' \in RunSteps => in_progress'
    BY <1>1, <2>1
  <2> QED
    BY <2>2, <2>3 DEF OneUpdateTask
<1>5. TxInv' /\ VersionInv'
  BY <1>1, TxSame, VersionSame DEF flash, network, offer
<1> QED
  BY <1>2, <1>4, <1>5 DEF RInv

\* A restart installs the image in the upgrade slot, if there is one.
LEMMA RestartStep ==
    ASSUME RInv, Reset \/ PowerLoss
    PROVE  RInv'
<1>1. Restart /\ power_losses' \in 0..MaxPowerLoss
  BY BoundsAssumption DEF Reset, PowerLoss, RInv, TypeOK
<1>2. queue' = <<>> /\ txq' = <<>> /\ Len(queue') = 0 /\ Len(txq') = 0
      /\ queue' \in Seq(Commands) /\ txq' \in Seq(Messages)
  BY <1>1 DEF Restart
<1>3. version' \in Nat \ {0} /\ version' >= version /\ version \in Nat
  BY <1>1 DEF Restart, RInv, TypeOK, VersionInv
<1>4. TypeOK'
  <2>1. counter' \in 0..(IdMod - 1) /\ last_request' \in 0..IdMod
    BY <1>1, BoundsAssumption DEF Restart, NoRequest
  <2>2. Len(queue') <= QueueDepth /\ Len(txq') <= TxDepth
    BY <1>2, BoundsAssumption
  <2> QED
    BY <1>1, <1>2, <1>3, <2>1, <2>2 DEF Restart, RInv, TypeOK
<1>5. Accepts' = {}
  BY <1>2 DEF Accepts
<1>6. ctl' \notin RunSteps /\ ui' = "idle" /\ ~update_valid'
  BY <1>1 DEF Restart, RunSteps
<1>7. OneUpdateTask'
  BY <1>5, <1>6 DEF OneUpdateTask
<1>8. reported' \subseteq (FirstVersion + 1)..version'
  <2>1. reported' = reported /\ reported \subseteq (FirstVersion + 1)..version
    BY <1>1 DEF Restart, RInv, TxInv, CompletedIsTrue
  <2> QED
    BY <1>3, <2>1, BoundsAssumption
<1>9. TxInv'
  BY <1>2, <1>8 DEF TxInv, CompletedIsTrue
<1>10. VersionInv'
  BY <1>1, <1>3, <1>6, BoundsAssumption DEF Restart, RInv, VersionInv
<1> QED
  BY <1>4, <1>7, <1>9, <1>10 DEF RInv

-----------------------------------------------------------------------------
(* The invariant *)

LEMMA InitRInv == Init => RInv
<1> SUFFICES ASSUME Init PROVE RInv
  OBVIOUS
<1> USE DEF Init
<1>1. TypeOK
  <2>1. counter \in 0..(IdMod - 1) /\ last_request \in 0..IdMod
        /\ power_losses \in 0..MaxPowerLoss /\ version \in Nat \ {0}
    BY BoundsAssumption DEF NoRequest
  <2>2. /\ queue \in Seq(Commands) /\ Len(queue) <= QueueDepth
        /\ txq \in Seq(Messages) /\ Len(txq) <= TxDepth
    BY BoundsAssumption
  <2> QED
    BY <2>1, <2>2 DEF TypeOK
<1>2. OneUpdateTask
  BY DEF OneUpdateTask, Accepts, RunSteps
<1>3. TxInv
  BY DEF TxInv, CompletedIsTrue
<1>4. VersionInv
  BY BoundsAssumption DEF VersionInv, RunSteps
<1> QED
  BY <1>1, <1>2, <1>3, <1>4 DEF RInv

LEMMA NextRInv == RInv /\ [Next]_vars => RInv'
<1> SUFFICES ASSUME RInv, [Next]_vars PROVE RInv'
  OBVIOUS
<1>1. CASE UNCHANGED vars
  <2>1. TypeOK'
    BY <1>1 DEF vars, flash, network, offer, ids, RInv, TypeOK
  <2>2. TxInv' /\ OneUpdateTask' /\ VersionInv'
    BY <1>1, TxSame, TaskSame, VersionSame DEF vars, flash, network, offer, ids
  <2> QED
    BY <2>1, <2>2 DEF RInv
<1>2. CASE LvglThread
  BY <1>2, AcceptStep, QuietStep, PostSteps DEF LvglThread
<1>3. CASE Controller
  BY <1>3, StatusStep, CompletedStep, RequestSteps, QuietStep, ResponseStep,
     DeclineStep, HandleAcceptStep, RunQuietStep, RunEventStep, FinishStep,
     SaveStep, EndStep, RestartStep
  DEF Controller
<1>4. CASE accept_enqueue \/ mqtt_tx_entry \/ ConnectOk \/ Progress
           \/ WlanUp \/ WlanDown \/ LinkLost \/ PowerLoss
  BY <1>4, AcceptStep, PublishStep, QuietStep, RunEventStep, RestartStep
<1>5. CASE \E n \in requests, o \in Offers \cup {NoOffer} : mqtt_receive_callback(n, o)
  BY <1>5, PostSteps
<1> QED
  BY <1>1, <1>2, <1>3, <1>4, <1>5 DEF Next

\* The strengthened invariant holds whatever the user, the server and the
\* network do, for any number of power failures.
THEOREM SpecRInv == Spec => []RInv
BY InitRInv, NextRInv, PTL DEF Spec

\* The types and the bounds of both queues: no interleaving of LVGL, receive
\* thread, publisher and controller posts past a full queue.
THEOREM RemoteTypeOK == Spec => []TypeOK
<1>1. RInv => TypeOK
  BY DEF RInv
<1> QED
  BY <1>1, SpecRInv, PTL

\* However often the user accepts, there is one update task at most.
THEOREM RemoteOneUpdateTask == Spec => []OneUpdateTask
<1>1. RInv => OneUpdateTask
  BY DEF RInv
<1> QED
  BY <1>1, SpecRInv, PTL

\* The server is told of no completed update that was not installed, whatever
\* hooks are implemented, whichever of them fail and whenever power fails.
THEOREM RemoteCompletedIsTrue == Spec => []CompletedIsTrue
<1>1. RInv => CompletedIsTrue
  BY DEF RInv, TxInv
<1> QED
  BY <1>1, SpecRInv, PTL

-----------------------------------------------------------------------------
(* The offer is newer than what runs.  This needs a clear hook that works    *)
(* and a transmit queue that holds the two messages of a connection: else    *)
(* an update that is pending still overwrites the offer of a later session.  *)

\* The update that was installed is pending only until the first connection
\* reports it, and then no offer is valid and the report fits in the queue.
PendingIsEarly ==
    /\ ctl \in {"offline", "status", "completed"}
    /\ ~update_valid
    /\ ctl = "status" => txq = <<>>
    /\ ctl = "completed" => Len(txq) <= 1

NewerInv ==
    /\ OfferIsNewer
    /\ ctl \in RunSteps => update.ver > version
    /\ HasPending => PendingIsEarly

\* A step of the controller once its first connection stands.
LEMMA NewerBusy ==
    ASSUME NewerInv, UNCHANGED <<version, pending, update>>,
           ctl \notin {"offline", "status", "completed"},
           update_valid' \/ ctl' \in RunSteps => update_valid \/ ctl \in RunSteps
    PROVE  NewerInv'
<1>1. ~HasPending
  BY DEF NewerInv, PendingIsEarly
<1>2. ~HasPending'
  BY <1>1 DEF HasPending
<1> QED
  BY <1>2 DEF NewerInv, OfferIsNewer

\* A step of another thread, which leaves the controller where it is and the
\* transmit queue no longer than it was.
LEMMA NewerStill ==
    ASSUME NewerInv, UNCHANGED <<version, pending, update, update_valid, ctl>>,
           txq = <<>> => txq' = <<>>, Len(txq) <= 1 => Len(txq') <= 1
    PROVE  NewerInv'
<1>1. HasPending' = HasPending
  BY DEF HasPending
<1> QED
  BY <1>1 DEF NewerInv, PendingIsEarly, OfferIsNewer

LEMMA InitNewer == Init => NewerInv
BY DEF Init, NewerInv, OfferIsNewer, RunSteps, HasPending

LEMMA NextNewer ==
    ASSUME ~ClearFails, TxDepth >= 2
    PROVE  RInv /\ NewerInv /\ [Next]_vars => NewerInv'
<1> SUFFICES ASSUME RInv, NewerInv, [Next]_vars
             PROVE  NewerInv'
  OBVIOUS
<1> USE DEF flash, network, offer, ids
<1>1. CASE \/ UNCHANGED vars \/ LvglThread \/ accept_enqueue
           \/ WlanUp \/ WlanDown \/ LinkLost
           \/ \E n \in requests, o \in Offers \cup {NoOffer} : mqtt_receive_callback(n, o)
  <2>1. UNCHANGED <<version, pending, update, update_valid, ctl, txq>>
    BY <1>1 DEF vars, LvglThread, accept_update, set_server_ip, enqueue_simple,
       accept_enqueue, WlanUp, WlanDown, LinkLost, mqtt_receive_callback
  <2> QED
    BY <2>1, NewerStill
<1>2. CASE mqtt_tx_entry
  <2>1. txq # <<>> /\ Len(txq) \in Nat \ {0} /\ Len(txq') = Len(txq) - 1
    BY <1>2, TailQueue DEF mqtt_tx_entry, RInv, TypeOK
  <2>2. UNCHANGED <<version, pending, update, update_valid, ctl>>
    BY <1>2 DEF mqtt_tx_entry
  <2> QED
    BY <2>1, <2>2, NewerStill
<1>3. CASE ConnectOk
  <2>1. /\ ctl' = "status" /\ UNCHANGED <<version, pending, update, update_valid, txq>>
        /\ ctl = "reconnect" \/ (ctl = "offline" /\ txq = <<>>)
    BY <1>3 DEF ConnectOk
  <2>2. HasPending' => txq = <<>> /\ ~update_valid
    BY <2>1 DEF HasPending, NewerInv, PendingIsEarly
  <2> QED
    BY <2>1, <2>2 DEF NewerInv, PendingIsEarly, OfferIsNewer, RunSteps
<1>4. CASE publish_status
  <2>1. /\ ctl = "status" /\ ctl' = "completed" /\ mqtt_enqueue(Event)
        /\ UNCHANGED <<version, pending, update, update_valid>>
    BY <1>4 DEF publish_status
  <2>2. HasPending' => txq = <<>> /\ ~update_valid
    BY <2>1 DEF HasPending, NewerInv, PendingIsEarly
  <2>3. ASSUME txq = <<>> PROVE Len(txq') <= 1
    <3>1. txq' \in {txq, Append(txq, Event)}
      BY <2>1 DEF mqtt_enqueue
    <3>2. Len(txq) = 0 /\ Len(Append(txq, Event)) = 1
      BY <2>3, MessageTypes, AppendQueue, EmptySeq DEF RInv, TypeOK
    <3> QED
      BY <3>1, <3>2
  <2> QED
    BY <2>1, <2>2, <2>3 DEF NewerInv, PendingIsEarly, OfferIsNewer, RunSteps
<1>5. CASE publish_completed_if_pending
  <2>1. ctl = "completed" /\ ctl' = "request" /\ UNCHANGED <<version, update_valid>>
    BY <1>5 DEF publish_completed_if_pending
  <2>2. CASE HasPending
    <3>1. Len(txq) <= 1 /\ ~update_valid
      BY <2>1, <2>2 DEF NewerInv, PendingIsEarly
    <3>2. Len(txq) < TxDepth
      BY <3>1, LenProperties, BoundsAssumption DEF RInv, TypeOK
    <3>3. pending' = NoOffer
      BY <1>5, <2>2, <3>2 DEF publish_completed_if_pending
    <3>4. ~HasPending'
      BY <3>3 DEF HasPending
    <3> QED
      BY <2>1, <3>1, <3>4 DEF NewerInv, OfferIsNewer, RunSteps
  <2>3. CASE ~HasPending
    <3>1. UNCHANGED <<update, pending>>
      BY <1>5, <2>3 DEF publish_completed_if_pending
    <3>2. ~HasPending'
      BY <2>1, <2>3, <3>1 DEF HasPending
    <3> QED
      BY <2>1, <3>1, <3>2 DEF NewerInv, OfferIsNewer, RunSteps
  <2> QED
    BY <2>2, <2>3
<1>6. CASE \/ ConnectRequest \/ disconnect_mqtt \/ HandleCheck \/ HandleDecline
           \/ HandleAccept
  <2>1. /\ ctl \in {"request", "loop"} /\ UNCHANGED <<version, pending, update, update_valid>>
        /\ ctl' \in RunSteps => update_valid
    BY <1>6 DEF ConnectRequest, disconnect_mqtt, HandleCheck, HandleDecline,
       HandleAccept, Received, RunSteps
  <2> QED
    BY <2>1, NewerBusy
<1>7. CASE handle_version_response
  <2> DEFINE m == Head(queue)
  <2>1. /\ ctl = "loop" /\ ctl' = "loop" /\ UNCHANGED <<version, pending>>
        /\ \/ UNCHANGED <<update, update_valid>>
           \/ update_valid' = FALSE /\ UNCHANGED update
           \/ /\ update' = m.offer
              /\ m.offer # NoOffer /\ ~(m.offer.ver <= version)
    BY <1>7 DEF handle_version_response, Received
  <2>2. m.offer \in Offers \cup {NoOffer}
    BY <1>7, QueueTake DEF handle_version_response, Commands
  <2> HIDE DEF m
  <2>3. ~HasPending'
    BY <2>1 DEF NewerInv, PendingIsEarly, HasPending
  <2>4. OfferIsNewer'
    <3>1. CASE update' = m.offer /\ m.offer # NoOffer /\ ~(m.offer.ver <= version)
      <4>1. m.offer.ver \in Nat /\ version \in Nat
        BY <2>2, <3>1, OffersAssumption DEF RInv, TypeOK
      <4> QED
        BY <2>1, <3>1, <4>1 DEF OfferIsNewer
    <3>2. CASE UNCHANGED update /\ update_valid' \in {update_valid, FALSE}
      BY <2>1, <3>2 DEF NewerInv, OfferIsNewer
    <3> QED
      BY <2>1, <3>1, <3>2
  <2> QED
    BY <2>1, <2>3, <2>4 DEF NewerInv, RunSteps
<1>8. CASE \/ RolloutDelay \/ http_progress("download", "transfer")
           \/ http_progress("verify", "finish") \/ http_progress("commit", "save")
           \/ DownloadFails \/ TransferDone \/ Finish \/ RebootToInstall
           \/ RunFailed \/ ReportFailed \/ Progress
  <2>1. /\ ctl \in RunSteps \cup {"report"}
        /\ UNCHANGED <<version, pending, update, update_valid>>
        /\ ctl' \in RunSteps => ctl \in RunSteps
    BY <1>8 DEF RolloutDelay, http_progress, DownloadFails, TransferDone, Finish,
       RebootToInstall, RunFailed, ReportFailed, Progress, RunSteps, Untouched
  <2>2. ctl \notin {"offline", "status", "completed"}
    BY <2>1 DEF RunSteps
  <2> QED
    BY <2>1, <2>2, NewerBusy
<1>9. CASE save_pending_update
  <2>1. /\ ctl \in RunSteps /\ ctl \notin {"offline", "status", "completed"}
        /\ UNCHANGED <<version, update>>
        /\ pending' \in {pending, update} /\ update_valid' \in {update_valid, FALSE}
    BY <1>9 DEF save_pending_update, RunSteps
  <2>2. update # NoOffer /\ update.ver > version /\ update.ver \in Nat /\ version \in Nat
    BY <2>1, OffersAssumption DEF RInv, TypeOK, VersionInv, NewerInv
  <2>3. ~HasPending'
    <3>1. ~HasPending
      BY <2>1 DEF NewerInv, PendingIsEarly
    <3>2. pending' = update => pending'.ver # version'
      BY <2>1, <2>2
    <3>3. pending' = pending => ~HasPending'
      BY <2>1, <3>1 DEF HasPending
    <3> QED
      BY <2>1, <3>2, <3>3 DEF HasPending
  <2> QED
    BY <2>1, <2>2, <2>3 DEF NewerInv, OfferIsNewer
<1>10. CASE Reset \/ PowerLoss
  <2>1. ctl' = "offline" /\ ~update_valid'
    BY <1>10 DEF Reset, PowerLoss, Restart
  <2> QED
    BY <2>1 DEF NewerInv, PendingIsEarly, OfferIsNewer, RunSteps
<1> QED
  BY <1>1, <1>2, <1>3, <1>4, <1>5, <1>6, <1>7, <1>8, <1>9, <1>10 DEF Next, Controller

\* With a clear hook that works and room for two messages in the transmit
\* queue, what the user may accept is newer than what runs, through restarts,
\* installations and late answers.
THEOREM RemoteOfferIsNewer ==
    ASSUME ~ClearFails, TxDepth >= 2
    PROVE  Spec => []OfferIsNewer
<1>1. Init => RInv /\ NewerInv
  BY InitRInv, InitNewer
<1>2. RInv /\ NewerInv /\ [Next]_vars => (RInv /\ NewerInv)'
  BY NextRInv, NextNewer
<1>3. RInv /\ NewerInv => OfferIsNewer
  BY DEF NewerInv
<1> QED
  BY <1>1, <1>2, <1>3, PTL DEF Spec

=============================================================================
