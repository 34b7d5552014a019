------------------------- MODULE DisplaySwapProofs -------------------------
(***************************************************************************)
(* Proofs about the display port, for any number of frames.                *)
(*                                                                         *)
(* The argument follows the flush in hand.  While LVGL is not flushing,    *)
(* everything between the LTDC and the swap thread is at rest.  While it   *)
(* is, the completion is in exactly one place on its way: the requested    *)
(* reload, the pending interrupt, the semaphore or the swap thread.        *)
(***************************************************************************)
EXTENDS DisplaySwap, TLAPS

(* Nothing is on its way from the LTDC to LVGL.                            *)
AtRest == swap = "wait" /\ sem = 0 /\ ~reload /\ ~irq

(* The completion of the current flush is in exactly one place.            *)
OnItsWay ==
    \/ reload /\ ~irq /\ sem = 0 /\ swap = "wait" /\ pending
    \/ ~reload /\ irq /\ sem = 0 /\ swap = "wait" /\ pending
    \/ ~reload /\ ~irq /\ sem = 1 /\ swap = "wait" /\ pending
    \/ ~reload /\ ~irq /\ sem = 0 /\ swap = "clear" /\ pending
    \/ ~reload /\ ~irq /\ sem = 0 /\ swap = "ready" /\ ~pending

(* The buffer of the last flush: LVGL changes buffers after it.            *)
Flushed == IF pc = "swap" THEN act ELSE Other(act)

(* Where LVGL is fixes what the port may be doing.                         *)
FlushInv ==
    /\ ~flushing => AtRest /\ ~pending
    /\ pc = "draw" => ~flushing
    /\ pc \in {"publish", "address", "reload"} => flushing /\ AtRest
    /\ pc = "publish" => ~pending
    /\ pc \in {"address", "reload"} => pending
    /\ pc = "reload" => shadow = act
    /\ flushing /\ pc \in {"idle", "wait", "swap"} => OnItsWay /\ accepted

(* Which buffer and which frame the LTDC has.                              *)
BufferInv ==
    /\ accepted => shadow = Flushed \/ pc = "reload"
    /\ accepted /\ ~reload => shown = Flushed
    /\ pc \in {"draw", "publish", "address", "reload"} => image[act] = frame
    /\ flushing /\ pc \in {"idle", "wait", "swap"} => image[Flushed] = frame
    /\ pc = "wait" => frame < MaxFrames

IInv == TypeOK /\ FlushInv /\ BufferInv

(* The initial state of lv_port_disp_init satisfies the invariant.         *)
LEMMA InitIInv == Init => IInv
  <1> SUFFICES ASSUME Init PROVE IInv
    OBVIOUS
  <1>0. 0 \in 0 .. MaxFrames
    BY FramesAssumption
  <1>1. TypeOK
    <2>1. image \in [Buffers -> 0 .. MaxFrames]
      BY <1>0 DEF Init
    <2>2. QED
      BY <1>0, <2>1 DEF Init, TypeOK, Buffers
  <1>2. FlushInv
    BY DEF Init, FlushInv, AtRest
  <1>3. BufferInv
    BY DEF Init, BufferInv
  <1>4. QED
    BY <1>1, <1>2, <1>3 DEF IInv

(* Every step of the drawing thread, the LTDC, the interrupt and the swap  *)
(* thread preserves it.                                                    *)
LEMMA NextIInv == IInv /\ [Next]_vars => IInv'
  <1> USE FramesAssumption DEF IInv, Buffers, Other
  <1> SUFFICES ASSUME IInv, [Next]_vars PROVE IInv'
    OBVIOUS
  <1>1. CASE Refresh
    BY <1>1 DEF Refresh, TypeOK, FlushInv, BufferInv, AtRest, OnItsWay, Flushed, ltdc
  <1>2. CASE Draw
    BY <1>2 DEF Draw, TypeOK, FlushInv, BufferInv, AtRest, OnItsWay, Flushed, ltdc
  <1>3. CASE Flush
    BY <1>3 DEF Flush, TypeOK, FlushInv, BufferInv, AtRest, OnItsWay, Flushed, ltdc
  <1>4. CASE Publish
    BY <1>4 DEF Publish, TypeOK, FlushInv, BufferInv, AtRest, OnItsWay, Flushed, ltdc
  <1>5. CASE SetAddress
    BY <1>5 DEF SetAddress, TypeOK, FlushInv, BufferInv, AtRest, OnItsWay, Flushed
  <1>6. CASE Reload
    BY <1>6 DEF Reload, TypeOK, FlushInv, BufferInv, AtRest, OnItsWay, Flushed
  <1>7. CASE Refused
    BY <1>7 DEF Refused, TypeOK, FlushInv, BufferInv, AtRest, OnItsWay, Flushed, ltdc
  <1>8. CASE SwapBuffers
    BY <1>8 DEF SwapBuffers, TypeOK, FlushInv, BufferInv, AtRest, OnItsWay, Flushed, ltdc
  <1>9. CASE VBlank
    BY <1>9 DEF VBlank, TypeOK, FlushInv, BufferInv, AtRest, OnItsWay, Flushed, lvgl
  <1>10. CASE ReloadEvent
    <2>1. flushing /\ pending /\ pc \in {"idle", "wait", "swap"} /\ OnItsWay
      BY <1>10 DEF ReloadEvent, TypeOK, FlushInv, AtRest, OnItsWay
    <2>2. ~reload /\ sem = 0 /\ swap = "wait"
      BY <1>10, <2>1 DEF ReloadEvent, OnItsWay
    <2>3. sem' = 1
      BY <1>10, <2>1, <2>2 DEF ReloadEvent
    <2>4. TypeOK' /\ FlushInv'
      BY <1>10, <2>1, <2>2, <2>3
         DEF ReloadEvent, TypeOK, FlushInv, AtRest, OnItsWay, lvgl
    <2>5. BufferInv'
      BY <1>10 DEF ReloadEvent, BufferInv, Flushed, lvgl
    <2>6. QED
      BY <2>4, <2>5
  <1>11. CASE SwapTake
    BY <1>11 DEF SwapTake, TypeOK, FlushInv, BufferInv, AtRest, OnItsWay, Flushed, lvgl, ltdc
  <1>12. CASE SwapClear
    BY <1>12 DEF SwapClear, TypeOK, FlushInv, BufferInv, AtRest, OnItsWay, Flushed, lvgl, ltdc
  <1>13. CASE SwapReady
    BY <1>13 DEF SwapReady, TypeOK, FlushInv, BufferInv, AtRest, OnItsWay, Flushed, lvgl, ltdc
  <1>14. CASE UNCHANGED vars
    BY <1>14 DEF vars, lvgl, ltdc, TypeOK, FlushInv, BufferInv, AtRest, OnItsWay, Flushed
  <1>15. QED
    BY <1>1, <1>2, <1>3, <1>4, <1>5, <1>6, <1>7, <1>8, <1>9, <1>10, <1>11, <1>12,
       <1>13, <1>14 DEF Next, Lvgl, SwapThread

(* What the invariant says of the properties.                              *)
LEMMA IInvImplies == IInv => TypeOK /\ NoTearing /\ ReadyAfterLatch
  BY DEF IInv, TypeOK, FlushInv, BufferInv, AtRest, OnItsWay, Flushed, Other, Buffers,
     NoTearing, ReadyAfterLatch

(* The invariant holds in every state of the display port.                 *)
THEOREM SpecIInv == Spec => []IInv
  BY InitIInv, NextIInv, PTL DEF Spec

(* Type correctness of the display port: the semaphore holds at most one   *)
(* token, however many frames are drawn.                                   *)
THEOREM DisplayTypeOK == Spec => []TypeOK
  BY SpecIInv, IInvImplies, PTL

(* LVGL never draws into the buffer the LTDC shows, except for the first   *)
(* frame and the one after a refused flush.                                *)
THEOREM DisplayNoTearing == Spec => []NoTearing
  BY SpecIInv, IInvImplies, PTL

(* A flush is ended only when its frame is on the screen.                  *)
THEOREM DisplayReadyAfterLatch == Spec => []ReadyAfterLatch
  BY SpecIInv, IInvImplies, PTL
=============================================================================
