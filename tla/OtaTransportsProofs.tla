------------------------ MODULE OtaTransportsProofs ------------------------
(***************************************************************************)
(* Proofs about OtaTransports for every set of packages and every CRC32.   *)
(***************************************************************************)
EXTENDS OtaTransports, SequenceTheorems, TLAPS

\* The empty transfer.
LEMMA EmptyTransfer == <<>> \in Seq(Chunks) /\ Len(<<>>) = 0
BY EmptySeq

\* The initial state satisfies TInv: both sessions are closed.
THEOREM InitTInv == Init => TInv
<1> SUFFICES ASSUME Init PROVE TInv
  OBVIOUS
<1>1. TypeOK
  <2>1. transfer \in Seq(Chunks) /\ read \in Seq(Chunks)
    BY EmptyTransfer DEF Init
  <2>2. request \in Packages \cup {<<>>} /\ Len(read) <= Len(request)
    BY EmptyTransfer DEF Init
  <2> QED
    BY <2>1, <2>2 DEF Init, TypeOK, States, WifiSteps, HttpSteps
<1>2. HttpInv /\ SessionInv /\ HttpSessionHasOwner /\ WifiSessionIsOwn
  BY DEF Init, HttpInv, SessionInv, InSession, HttpSessionHasOwner,
         WifiSessionIsOwn
<1> QED
  BY <1>1, <1>2 DEF TInv

\* A restart forgets both sessions and keeps the upgrade slot.
LEMMA RestartStep == TInv /\ Restart => TInv'
<1> SUFFICES ASSUME TInv, Restart PROVE TInv'
  OBVIOUS
<1>1. TypeOK'
  <2>1. transfer' \in Seq(Chunks) /\ read' \in Seq(Chunks)
    BY EmptyTransfer DEF Restart
  <2>2. request' \in Packages \cup {<<>>} /\ Len(read') <= Len(request')
    BY EmptyTransfer DEF Restart
  <2> QED
    BY <2>1, <2>2 DEF TInv, Restart, TypeOK, States, WifiSteps, HttpSteps
<1>2. (HttpInv /\ SessionInv /\ HttpSessionHasOwner /\ WifiSessionIsOwn)'
  BY DEF Restart, HttpInv, SessionInv, InSession, HttpSessionHasOwner,
         WifiSessionIsOwn
<1> QED
  BY <1>1, <1>2 DEF TInv

\* A step of handle_client that makes no core call.
LEMMA QuietWifiStep ==
    ASSUME TInv, UNCHANGED core, UNCHANGED http_vars,
           wifi' \in WifiSteps, receiving' \in BOOLEAN,
           reboot_flag' \in BOOLEAN, reboot_after' \in BOOLEAN,
           \/ receiving' = FALSE /\ own_session' \in BOOLEAN
           \/ UNCHANGED <<receiving, own_session>>
    PROVE  TInv'
BY DEF TInv, TypeOK, HttpSessionHasOwner, WifiSessionIsOwn, HttpInv,
       SessionInv, InSession, core, http_vars, Writable, Complete, Accepted

\* A chunk that the core takes lengthens the transfer by one.
LEMMA AppendChunk ==
    ASSUME NEW s \in Seq(Chunks), NEW d \in Chunks
    PROVE  Append(s, d) \in Seq(Chunks) /\ Len(Append(s, d)) = Len(s) + 1
BY AppendProperties

\* Announced packages are not empty.
LEMMA PackageFacts ==
    ASSUME NEW p \in Packages
    PROVE  p \in Seq(Chunks) /\ Len(p) \in Nat /\ Len(p) > 0
BY PackagesAssumption, EmptySeq, LenProperties

\* What the transports rely on: a core call that ends the session of the core
\* or leaves none open keeps all that TInv says of the transports.
LEMMA ClosedSession ==
    ASSUME TInv, UNCHANGED <<crc, transfer>>, UNCHANGED http_vars,
           state' \in States \ {"RECEIVING"},
           source' \in {"none", "wifi", "http"}, size' \in Nat,
           upgrade' \in Packages \cup {NoImage},
           wifi' \in WifiSteps, receiving' \in BOOLEAN,
           reboot_flag' \in BOOLEAN, reboot_after' \in BOOLEAN,
           own_session' \in BOOLEAN
    PROVE  TInv'
BY DEF TInv, TypeOK, HttpSessionHasOwner, WifiSessionIsOwn, HttpInv,
       SessionInv, InSession, http_vars

\* What ota_finish may do to the slot.
LEMMA FinishFacts ==
    ASSUME TInv, NEW r, ota_finish(r), r # "STATE"
    PROVE  /\ state' \in States \ {"RECEIVING"}
           /\ source' \in {"none", "wifi", "http"} /\ size' \in Nat
           /\ upgrade' \in Packages \cup {NoImage}
           /\ UNCHANGED <<crc, transfer>>
BY PackagesAssumption DEF ota_finish, Accepted, TInv, TypeOK, States

\* What ota_abort may do to the core.
LEMMA AbortFacts ==
    ASSUME TInv, ota_abort
    PROVE  /\ state' \in States \ {"RECEIVING"}
           /\ source' \in {"none", "wifi", "http"} /\ size' \in Nat
           /\ upgrade' \in Packages \cup {NoImage}
           /\ UNCHANGED <<crc, transfer>>
BY DEF ota_abort, TInv, TypeOK, States

\* BEGIN: the connection owns the session it opened, or knows of none.
LEMMA WifiBeginStep ==
    ASSUME TInv, NEW p \in Packages, NEW flag \in BOOLEAN, Begin(p, flag)
    PROVE  TInv'
<1>1. CASE receiving' = FALSE /\ UNCHANGED core /\ UNCHANGED own_session
  BY <1>1, QuietWifiStep DEF Begin, WifiSteps, TInv, TypeOK
<1>2. ASSUME NEW r \in {"OK", "STATE", "FLASH"}, ota_begin("wifi", p, r),
             receiving' = (r = "OK")
      PROVE  TInv'
  <2>1. CASE r = "STATE"
    BY <1>1, <1>2, <2>1 DEF ota_begin
  <2>2. CASE r # "STATE"
    <3>1. /\ state' \in States
          /\ source' = "wifi" /\ size' = Len(p) /\ transfer' = <<>>
          /\ UNCHANGED upgrade /\ own_session' = TRUE
      BY <1>2, <2>2 DEF ota_begin, States
    <3>2. size' \in Nat /\ transfer' \in Seq(Chunks) /\ Len(transfer') <= size'
      BY <3>1, PackageFacts, EmptyTransfer
    <3>3. TypeOK'
      BY <3>1, <3>2, <1>2 DEF Begin, TInv, TypeOK, http_vars, WifiSteps
    <3>4. (HttpInv /\ SessionInv /\ HttpSessionHasOwner /\ WifiSessionIsOwn)'
      BY <3>1 DEF Begin, TInv, HttpInv, SessionInv, InSession,
                  HttpSessionHasOwner, WifiSessionIsOwn, http_vars
    <3> QED
      BY <3>3, <3>4 DEF TInv
  <2> QED
    BY <2>1, <2>2
<1> QED
  BY <1>1, <1>2 DEF Begin

\* DATA: a chunk lengthens the open session, or ota_write fails it.
LEMMA WifiDataStep ==
    ASSUME TInv, NEW i \in Nat, NEW d \in Chunks, Data(i, d)
    PROVE  TInv'
<1>1. CASE UNCHANGED core
  BY <1>1, QuietWifiStep DEF Data, WifiSteps, TInv, TypeOK
<1>2. ASSUME NEW r \in {"OK", "STATE", "FLASH"}, ota_write(i, d, r)
      PROVE  TInv'
  <2>1. CASE r = "STATE"
    BY <1>1, <1>2, <2>1 DEF ota_write
  <2>2. CASE r = "FLASH"
    BY <1>2, <2>2, ClosedSession
       DEF ota_write, Data, WifiSteps, TInv, TypeOK, States
  <2>3. CASE r = "OK"
    <3>1. /\ state = "RECEIVING" /\ Len(transfer) < size
          /\ transfer' = Append(transfer, d)
          /\ UNCHANGED <<state, source, size, crc, upgrade>>
      BY <1>2, <2>3 DEF ota_write, Writable
    <3>2. transfer' \in Seq(Chunks) /\ Len(transfer') = Len(transfer) + 1
      BY <3>1, AppendChunk DEF TInv, TypeOK
    <3>3. Len(transfer) \in Nat /\ Len(read) \in Nat
      BY LenProperties DEF TInv, TypeOK
    <3>4. TypeOK'
      <4>1. Len(transfer') <= size'
        BY <3>1, <3>2, <3>3 DEF TInv, TypeOK
      <4> QED
        BY <4>1, <3>1, <3>2 DEF Data, TInv, TypeOK, http_vars, WifiSteps
    <3>5. SessionInv'
      BY <3>1, <3>2, <3>3 DEF Data, TInv, SessionInv, http_vars
    <3>6. (HttpInv /\ HttpSessionHasOwner /\ WifiSessionIsOwn)'
      BY <3>1 DEF Data, TInv, HttpInv, HttpSessionHasOwner,
                  WifiSessionIsOwn, http_vars
    <3> QED
      BY <3>4, <3>5, <3>6 DEF TInv
  <2> QED
    BY <2>1, <2>2, <2>3
<1> QED
  BY <1>1, <1>2 DEF Data

\* END: ota_finish closes the session or refuses an incomplete one.
LEMMA WifiEndStep == TInv /\ End => TInv'
<1> SUFFICES ASSUME TInv, End PROVE TInv'
  OBVIOUS
<1>1. receiving' \in BOOLEAN /\ reboot_after' \in BOOLEAN
      /\ reboot_flag' \in BOOLEAN /\ own_session' \in BOOLEAN
      /\ wifi' \in WifiSteps
  BY DEF End, WifiSteps, TInv, TypeOK
<1>2. CASE UNCHANGED core
  BY <1>1, <1>2, QuietWifiStep DEF End
<1>3. ASSUME NEW r \in {"OK", "STATE", "FAILED"}, ota_finish(r)
      PROVE  TInv'
  <2>1. CASE r = "STATE"
    BY <1>2, <1>3, <2>1 DEF ota_finish
  <2>2. CASE r # "STATE"
    BY <1>1, <1>3, <2>2, FinishFacts, ClosedSession DEF End
  <2> QED
    BY <2>1, <2>2
<1> QED
  BY <1>2, <1>3 DEF End

\* ABORT closes the session.
LEMMA WifiAbortStep == TInv /\ Abort => TInv'
<1> SUFFICES ASSUME TInv, Abort PROVE TInv'
  OBVIOUS
<1> QED
  BY AbortFacts, ClosedSession DEF Abort, WifiSteps, TInv, TypeOK

\* The exit of handle_client, with its ota_abort.
LEMMA WifiExitStep == TInv /\ WifiExit => TInv'
<1> SUFFICES ASSUME TInv, WifiExit PROVE TInv'
  OBVIOUS
<1>1. CASE ota_abort
  BY <1>1, AbortFacts, ClosedSession DEF WifiExit, WifiSteps, TInv, TypeOK
<1>2. CASE UNCHANGED core
  BY <1>2, QuietWifiStep DEF WifiExit, WifiSteps, TInv, TypeOK
<1> QED
  BY <1>1, <1>2 DEF WifiExit

\* A step of ota_http_download that makes no core call.
LEMMA QuietHttpStep ==
    ASSUME TInv, UNCHANGED core, UNCHANGED wifi_vars, UNCHANGED own_session,
           UNCHANGED <<begun, request, read>>,
           http' \in HttpSteps, HttpInv', http \in InSession \/ http' \notin InSession
    PROVE  TInv'
<1>1. TypeOK'
  BY DEF TInv, TypeOK, core, wifi_vars
<1>2. (SessionInv /\ HttpSessionHasOwner /\ WifiSessionIsOwn)'
  BY DEF TInv, SessionInv, HttpSessionHasOwner, WifiSessionIsOwn, core,
         wifi_vars
<1> QED
  BY <1>1, <1>2 DEF TInv

\* ota_http_download takes a request while it is idle.
LEMMA HttpStartStep ==
    ASSUME TInv, NEW p \in Packages, HttpStart(p)
    PROVE  TInv'
<1>1. read' \in Seq(Chunks) /\ Len(read') <= Len(request') /\ request' \in Packages
  BY EmptyTransfer, PackageFacts DEF HttpStart
<1>2. TypeOK'
  BY <1>1 DEF HttpStart, TInv, TypeOK, core, wifi_vars, HttpSteps
<1>3. (HttpInv /\ SessionInv /\ HttpSessionHasOwner /\ WifiSessionIsOwn)'
  BY <1>1 DEF HttpStart, TInv, HttpInv, SessionInv, InSession,
     HttpSessionHasOwner, WifiSessionIsOwn, core, wifi_vars
<1> QED
  BY <1>2, <1>3 DEF TInv

\* The ota_begin of ota_http_download, the start of its ownership.
LEMMA HttpBeginStep == TInv /\ HttpBegin => TInv'
<1> SUFFICES ASSUME TInv, HttpBegin PROVE TInv'
  OBVIOUS
<1> PICK r \in {"OK", "STATE", "FLASH"} :
         /\ ota_begin("http", request, r)
         /\ begun' = (r = "OK")
         /\ http' = IF r = "OK" THEN "progress" ELSE "exit"
  BY DEF HttpBegin
<1>0. /\ request \in Packages /\ read = <<>>
      /\ UNCHANGED <<request, read, wifi_vars>>
  BY DEF HttpBegin, TInv, HttpInv
<1>1. CASE r = "STATE"
  <2>1. UNCHANGED core /\ UNCHANGED own_session /\ state = "RECEIVING"
    BY <1>1 DEF ota_begin
  <2>2. UNCHANGED begun
    BY <1>1 DEF HttpBegin, TInv, TypeOK, HttpInv, InSession
  <2>3. HttpInv'
    BY <1>0, <1>1, <2>2 DEF HttpInv, InSession
  <2> QED
    BY <1>0, <1>1, <2>1, <2>2, <2>3, QuietHttpStep DEF HttpSteps, InSession
<1>2. CASE r # "STATE"
  <2>1. /\ state' = IF r = "OK" THEN "RECEIVING" ELSE "ERROR"
        /\ source' = "http" /\ size' = Len(request) /\ transfer' = <<>>
        /\ UNCHANGED upgrade /\ own_session' = FALSE
    BY <1>2 DEF ota_begin
  <2>2. size' \in Nat /\ transfer' \in Seq(Chunks) /\ Len(transfer') = 0
        /\ Len(transfer') <= size'
    BY <1>0, <2>1, PackageFacts, EmptyTransfer
  <2>3. TypeOK'
    BY <1>0, <2>1, <2>2 DEF TInv, TypeOK, wifi_vars, HttpSteps, States
  <2>4. HttpInv' /\ HttpSessionHasOwner' /\ WifiSessionIsOwn'
    BY <1>0, <1>2, <2>1 DEF HttpInv, InSession, HttpSessionHasOwner,
       WifiSessionIsOwn, HttpBegin
  <2>5. SessionInv'
    BY <1>0, <2>1, <2>2 DEF SessionInv
  <2> QED
    BY <2>3, <2>4, <2>5 DEF TInv
<1> QED
  BY <1>1, <1>2

\* One chunk of the HTTP body, hashed and passed to ota_write.
LEMMA HttpReadStep ==
    ASSUME TInv, NEW d \in Chunks, HttpRead(d)
    PROVE  TInv'
<1> PICK r \in {"OK", "STATE", "FLASH"} :
         /\ ota_write(Len(read), d, r)
         /\ http' = IF r = "OK" THEN "progress" ELSE "exit"
  BY DEF HttpRead
<1>1. /\ http = "read" /\ begun /\ request \in Packages
      /\ Len(read) < Len(request)
      /\ read' = Append(read, d)
      /\ UNCHANGED <<begun, request, wifi_vars, own_session>>
  BY DEF HttpRead, TInv, HttpInv, InSession
<1>2. read' \in Seq(Chunks) /\ Len(read') = Len(read) + 1 /\ Len(read) \in Nat
      /\ Len(transfer) \in Nat /\ Len(request) \in Nat
  BY <1>1, AppendChunk, LenProperties, PackageFacts DEF TInv, TypeOK
<1>3. Len(read') <= Len(request')
  BY <1>1, <1>2
<1>4. HttpInv'
  BY <1>1 DEF HttpInv, InSession
<1>5. CASE r = "OK"
  <2>1. /\ state = "RECEIVING" /\ Len(transfer) < size
        /\ Len(read) = Len(transfer)
        /\ transfer' = Append(transfer, d)
        /\ UNCHANGED <<state, source, size, crc, upgrade>>
    BY <1>5 DEF ota_write, Writable
  <2>2. transfer' \in Seq(Chunks) /\ Len(transfer') = Len(transfer) + 1
    BY <2>1, AppendChunk DEF TInv, TypeOK
  <2>3. Len(transfer') <= size'
    BY <1>2, <2>1, <2>2 DEF TInv, TypeOK
  <2>4. TypeOK'
    BY <1>1, <1>2, <1>3, <2>1, <2>2, <2>3
       DEF TInv, TypeOK, wifi_vars, HttpSteps
  <2>5. SessionInv'
    BY <1>1, <1>2, <2>1, <2>2 DEF TInv, SessionInv, InSession
  <2>6. HttpSessionHasOwner' /\ WifiSessionIsOwn'
    BY <1>1, <2>1 DEF TInv, HttpSessionHasOwner, WifiSessionIsOwn, wifi_vars
  <2> QED
    BY <1>4, <2>4, <2>5, <2>6 DEF TInv
<1>6. CASE r # "OK"
  <2>1. /\ state' \in {state, "ERROR"}
        /\ UNCHANGED <<source, size, crc, transfer, upgrade>>
        /\ http' = "exit"
    BY <1>6 DEF ota_write, core
  <2>2. TypeOK'
    BY <1>1, <1>2, <1>3, <2>1 DEF TInv, TypeOK, wifi_vars, HttpSteps, States
  <2>3. SessionInv' /\ HttpSessionHasOwner' /\ WifiSessionIsOwn'
    BY <1>1, <2>1 DEF TInv, HttpSessionHasOwner, WifiSessionIsOwn, wifi_vars,
       SessionInv, InSession
  <2> QED
    BY <1>4, <2>2, <2>3 DEF TInv
<1> QED
  BY <1>5, <1>6

\* A core call of ota_http_download after which no session of its own is open.
LEMMA HttpClosedSession ==
    ASSUME TInv, UNCHANGED <<crc, transfer>>, UNCHANGED wifi_vars,
           UNCHANGED own_session,
           state' \in States \ {"RECEIVING"},
           source' \in {"none", "wifi", "http"}, size' \in Nat,
           upgrade' \in Packages \cup {NoImage},
           http' \in HttpSteps, begun' \in BOOLEAN,
           request' \in Packages \cup {<<>>}, read' \in Seq(Chunks),
           Len(read') <= Len(request'), HttpInv'
    PROVE  TInv'
BY DEF TInv, TypeOK, HttpSessionHasOwner, WifiSessionIsOwn, SessionInv,
       wifi_vars

\* The ota_finish of ota_http_download, after its SHA-256 check.
LEMMA HttpFinishStep == TInv /\ HttpFinish => TInv'
<1> SUFFICES ASSUME TInv, HttpFinish PROVE TInv'
  OBVIOUS
<1> PICK r \in {"OK", "STATE", "FAILED"} :
         /\ ota_finish(r)
         /\ begun' = (begun /\ r # "OK")
         /\ http' = IF r = "OK" THEN "commit" ELSE "exit"
  BY DEF HttpFinish
<1>1. /\ http = "finish" /\ begun
      /\ UNCHANGED <<request, read, wifi_vars, own_session>>
  BY DEF HttpFinish, TInv, HttpInv, InSession
<1>2. HttpInv' /\ http' \in HttpSteps /\ begun' \in BOOLEAN
  BY <1>1 DEF HttpInv, InSession, HttpSteps
<1>3. CASE r = "STATE"
  <2>1. UNCHANGED core /\ UNCHANGED begun
    BY <1>1, <1>3 DEF ota_finish, TInv, TypeOK
  <2> QED
    BY <1>1, <1>2, <2>1, QuietHttpStep DEF InSession
<1>4. CASE r # "STATE"
  <2>1. /\ request' \in Packages \cup {<<>>} /\ read' \in Seq(Chunks)
        /\ Len(read') <= Len(request')
    BY <1>1 DEF TInv, TypeOK
  <2> QED
    BY <1>1, <1>2, <1>4, <2>1, FinishFacts, HttpClosedSession
<1> QED
  BY <1>3, <1>4

\* The locals of ota_http_download are gone; the core is as it was.
LEMMA HttpRebootStep == TInv /\ HttpReboot => TInv'
<1> SUFFICES ASSUME TInv, HttpReboot PROVE TInv'
  OBVIOUS
<1>1. read' \in Seq(Chunks) /\ Len(read') <= Len(request')
  BY EmptyTransfer DEF HttpReboot
<1>2. TypeOK'
  BY <1>1 DEF HttpReboot, TInv, TypeOK, core, wifi_vars, HttpSteps
<1>3. (HttpInv /\ SessionInv /\ HttpSessionHasOwner /\ WifiSessionIsOwn)'
  BY DEF HttpReboot, TInv, HttpInv, SessionInv, InSession,
     HttpSessionHasOwner, WifiSessionIsOwn, core, wifi_vars
<1> QED
  BY <1>2, <1>3 DEF TInv

\* The exit of ota_http_download, with its ota_abort.
LEMMA HttpExitStep == TInv /\ HttpExit => TInv'
<1> SUFFICES ASSUME TInv, HttpExit PROVE TInv'
  OBVIOUS
<1>1. /\ http' = "idle" /\ begun' = FALSE
      /\ request' = <<>> /\ read' = <<>>
      /\ UNCHANGED <<wifi_vars, own_session>>
  BY DEF HttpExit
<1>2. read' \in Seq(Chunks) /\ Len(read') <= Len(request')
  BY <1>1, EmptyTransfer
<1>3. HttpInv'
  BY <1>1 DEF HttpInv, InSession
<1>4. CASE begun
  BY <1>1, <1>2, <1>3, <1>4, AbortFacts, HttpClosedSession
     DEF HttpExit, HttpSteps
<1>5. CASE ~begun
  <2>1. UNCHANGED core
    BY <1>5 DEF HttpExit
  <2>2. TypeOK'
    BY <1>1, <1>2, <2>1 DEF TInv, TypeOK, core, wifi_vars, HttpSteps
  <2>3. SessionInv' /\ HttpSessionHasOwner' /\ WifiSessionIsOwn'
    BY <1>1, <1>5, <2>1 DEF TInv, SessionInv, InSession,
       HttpSessionHasOwner, WifiSessionIsOwn, core, wifi_vars
  <2> QED
    BY <1>3, <2>2, <2>3 DEF TInv
<1> QED
  BY <1>4, <1>5

\* Every step of either transport keeps TInv.
THEOREM NextTInv == TInv /\ [Next]_vars => TInv'
<1> SUFFICES ASSUME TInv, [Next]_vars PROVE TInv'
  OBVIOUS
<1>1. CASE accept
  BY <1>1, QuietWifiStep DEF accept, WifiSteps
<1>2. CASE ReceiveFails \/ Query \/ send_response \/ WifiReboot \/ Reboot
  BY <1>2, QuietWifiStep DEF ReceiveFails, Query, send_response, WifiReboot,
     Reboot, WifiSteps, TInv, TypeOK
<1>3. CASE End \/ Abort \/ WifiExit
  BY <1>3, WifiEndStep, WifiAbortStep, WifiExitStep
<1>4. CASE \E p \in Packages, flag \in BOOLEAN : Begin(p, flag)
  BY <1>4, WifiBeginStep
<1>5. CASE \E p \in Packages, d \in Chunks :
             \E i \in 0..(Len(p) - 1) : Data(i, d)
  BY <1>5, WifiDataStep
<1>6. CASE \E p \in Packages : HttpStart(p)
  BY <1>6, HttpStartStep
<1>7. CASE HttpBegin \/ HttpFinish \/ HttpReboot \/ HttpExit
  BY <1>7, HttpBeginStep, HttpFinishStep, HttpRebootStep, HttpExitStep
<1>8. CASE \E d \in Chunks : HttpRead(d)
  BY <1>8, HttpReadStep
<1>9. CASE HttpProgress \/ HttpReadFails \/ HttpVerify \/ HttpCommitted
  <2>1. /\ UNCHANGED core /\ UNCHANGED wifi_vars /\ UNCHANGED own_session
        /\ UNCHANGED <<begun, request, read>>
    BY <1>9 DEF HttpProgress, HttpReadFails, HttpVerify, HttpCommitted
  <2>2. http' \in HttpSteps /\ (http \in InSession \/ http' \notin InSession)
    BY <1>9 DEF HttpProgress, HttpReadFails, HttpVerify, HttpCommitted,
       HttpSteps, InSession
  <2>3. HttpInv'
    BY <1>9, <2>1 DEF HttpProgress, HttpReadFails, HttpVerify, HttpCommitted,
       TInv, HttpInv, InSession
  <2> QED
    BY <2>1, <2>2, <2>3, QuietHttpStep
<1>10. CASE Reset \/ PowerLoss
  BY <1>10, RestartStep DEF Reset, PowerLoss
<1>11. CASE UNCHANGED vars
  <2>1. /\ UNCHANGED core /\ UNCHANGED wifi_vars /\ UNCHANGED own_session
        /\ UNCHANGED <<begun, request, read>> /\ UNCHANGED http
    BY <1>11 DEF vars, http_vars
  <2> QED
    BY <2>1, QuietWifiStep DEF TInv, TypeOK, wifi_vars, http_vars
<1> QED
  BY <1>1, <1>2, <1>3, <1>4, <1>5, <1>6, <1>7, <1>8, <1>9, <1>10, <1>11
     DEF Next, handle_client, ota_http_download

\* TInv holds in every reachable state.
THEOREM SpecTInv == Spec => []TInv
BY InitTInv, NextTInv, PTL DEF Spec

\* Every variable of the two transports and the core they share keeps its
\* type; the core never takes more than a BEGIN or a download announced.
THEOREM TransportTypes == Spec => []TypeOK
<1>1. TInv => TypeOK
  BY DEF TInv
<1> QED
  BY <1>1, SpecTInv, PTL

\* ota_http_download never leaves an open session behind, whatever a TCP
\* client does meanwhile.
THEOREM HttpSessionAlwaysOwned == Spec => []HttpSessionHasOwner
<1>1. TInv => HttpSessionHasOwner
  BY DEF TInv
<1> QED
  BY <1>1, SpecTInv, PTL

\* handle_client never continues the session of an earlier connection.
THEOREM WifiSessionAlwaysOwn == Spec => []WifiSessionIsOwn
<1>1. TInv => WifiSessionIsOwn
  BY DEF TInv
<1> QED
  BY <1>1, SpecTInv, PTL

\* A successful ota_finish of ota_http_download in its own session publishes
\* the package whose SHA-256 was announced, however CRC32 collides.
THEOREM HttpCommitIsAnnounced == Spec => HttpCommitsAnnounced
<1>1. TInv /\ [Next]_vars =>
        [http = "finish" /\ http' = "commit" /\ source = "http"
           => upgrade' = request]_vars
  <2> SUFFICES ASSUME TInv, Next, http = "finish", http' = "commit",
                      source = "http"
               PROVE  upgrade' = request
    OBVIOUS
  <2>1. HttpFinish
    BY DEF Next, accept, handle_client, ReceiveFails, Query, End, Abort,
       Reboot, Begin, Data, send_response, WifiReboot, WifiExit, HttpStart,
       ota_http_download, HttpBegin, HttpProgress, HttpReadFails, HttpVerify,
       HttpCommitted, HttpReboot, HttpExit, HttpRead, Reset, PowerLoss,
       Restart, http_vars
  <2>2. Complete /\ upgrade' = transfer
    BY <2>1 DEF HttpFinish, ota_finish
  <2>3. transfer = read
    BY <2>2 DEF Complete, TInv, SessionInv, HttpInv, InSession
  <2> QED
    BY <2>2, <2>3 DEF TInv, HttpInv
<1> QED
  BY <1>1, SpecTInv, PTL DEF Spec, HttpCommitsAnnounced
=============================================================================
