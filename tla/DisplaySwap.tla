---------------------------- MODULE DisplaySwap ----------------------------
(***************************************************************************)
(* The display port, applications/lvgl_port/lv_port_disp.c, with the part  *)
(* of LVGL that draws and flushes a frame (packages/LVGL-v8.3.11,          *)
(* lv_refr.c) and the LTDC, which shows one of two frame buffers.          *)
(*                                                                         *)
(* LVGL draws a whole frame into one buffer (full_refresh with two full    *)
(* buffers), hands it to disp_flush and goes on with the other.  The LTDC  *)
(* takes the new address at the next vertical blanking and raises the      *)
(* reload interrupt; the interrupt releases a semaphore, and a thread      *)
(* waiting on it tells LVGL that the flush is over.  The drawing thread,   *)
(* the hardware, the interrupt and the swap thread interleave freely.      *)
(*                                                                         *)
(* With full_refresh LVGL only flushes the whole screen, so the answer to  *)
(* a partial area in disp_flush is not reached.                            *)
(***************************************************************************)
EXTENDS Naturals

CONSTANT MaxFrames   \* bound: frames drawn in a behaviour

ASSUME FramesAssumption == MaxFrames \in Nat

VARIABLES
    pc,         \* the LVGL thread in lv_refr.c and disp_flush
    act,        \* draw_buf.buf_act
    flushing,   \* draw_buf.flushing
    pending,    \* ltdc_pending_drv is not null
    sem,        \* ltdc_swap_sem
    swap,       \* lv_swap_thread_entry
    shadow,     \* LTDC: the address written by software
    shown,      \* LTDC: the address in use
    reload,     \* LTDC: a reload at vertical blanking is requested
    irq,        \* LTDC: the reload interrupt is pending
    frame,      \* how many frames have been begun
    image,      \* the frame in each buffer
    accepted    \* history: the LTDC took the last flush

lvgl == <<pc, act, frame, image>>
ltdc == <<shadow, shown, reload, irq>>
vars == <<lvgl, flushing, pending, sem, swap, ltdc, accepted>>

Buffers  == {0, 1}
Other(b) == 1 - b

(* lv_port_disp_init and MX_LTDC_Init: both buffers are cleared, the LTDC  *)
(* shows the first one, which is also the one LVGL draws into first.       *)
Init ==
    /\ pc = "idle" /\ act = 0 /\ flushing = FALSE
    /\ pending = FALSE /\ sem = 0 /\ swap = "wait"
    /\ shadow = 0 /\ shown = 0 /\ reload = FALSE /\ irq = FALSE
    /\ frame = 0 /\ image = [b \in Buffers |-> 0]
    /\ accepted = FALSE

---------------------------------------------------------------------------
(* The LVGL thread *)

(* Something on the screen has changed.                                    *)
Refresh ==
    /\ pc = "idle"
    /\ frame < MaxFrames
    /\ pc' = "wait"
    /\ UNCHANGED <<act, frame, image, flushing, pending, sem, swap, ltdc, accepted>>

(* refr_area_part draws once the buffer is free.                           *)
Draw ==
    /\ pc = "wait"
    /\ ~flushing
    /\ pc' = "draw"
    /\ frame' = frame + 1
    /\ image' = [image EXCEPT ![act] = frame + 1]
    /\ UNCHANGED <<act, flushing, pending, sem, swap, ltdc, accepted>>

(* draw_buf_flush marks the buffer and calls disp_flush.                   *)
Flush ==
    /\ pc = "draw"
    /\ pc' = "publish"
    /\ flushing' = TRUE
    /\ UNCHANGED <<act, frame, image, pending, sem, swap, ltdc, accepted>>

Publish ==
    /\ pc = "publish"
    /\ pc' = "address"
    /\ pending' = TRUE
    /\ UNCHANGED <<act, frame, image, flushing, sem, swap, ltdc, accepted>>

SetAddress ==
    /\ pc = "address"
    /\ pc' = "reload"
    /\ shadow' = act
    /\ UNCHANGED <<act, frame, image, flushing, pending, sem, swap, shown, reload, irq, accepted>>

(* Mutant: the flush is reported as done when it has been requested.       *)
ReloadDone ==
    /\ pc = "reload"
    /\ pc' = "swap"
    /\ reload' = TRUE
    /\ flushing' = FALSE
    /\ accepted' = TRUE
    /\ UNCHANGED <<act, frame, image, pending, sem, swap, shadow, shown, irq>>

(* Mutant: the semaphore is released with the request.                     *)
ReloadRelease ==
    /\ pc = "reload"
    /\ pc' = "swap"
    /\ reload' = TRUE
    /\ sem' = sem + 1
    /\ accepted' = TRUE
    /\ UNCHANGED <<act, frame, image, flushing, pending, swap, shadow, shown, irq>>

Reload ==
    /\ pc = "reload"
    /\ pc' = "swap"
    /\ reload' = TRUE
    /\ accepted' = TRUE
    /\ UNCHANGED <<act, frame, image, flushing, pending, sem, swap, shadow, shown, irq>>

(* Mutant: the error path forgets to end the flush.                        *)
RefusedOpen ==
    /\ pc \in {"address", "reload"}
    /\ pc' = "swap"
    /\ pending' = FALSE
    /\ accepted' = FALSE
    /\ UNCHANGED <<act, frame, image, flushing, sem, swap, ltdc>>

(* The HAL refuses the address or the reload.                              *)
Refused ==
    /\ pc \in {"address", "reload"}
    /\ pc' = "swap"
    /\ pending' = FALSE
    /\ flushing' = FALSE
    /\ accepted' = FALSE
    /\ UNCHANGED <<act, frame, image, sem, swap, ltdc>>

(* The end of draw_buf_flush.                                              *)
SwapBuffers ==
    /\ pc = "swap"
    /\ pc' = "idle"
    /\ act' = Other(act)
    /\ UNCHANGED <<frame, image, flushing, pending, sem, swap, ltdc, accepted>>

Lvgl ==
    \/ Draw \/ Flush \/ Publish \/ SetAddress
    \/ Reload \/ Refused \/ SwapBuffers

---------------------------------------------------------------------------
(* The LTDC, its interrupt and the swap thread *)

VBlank ==
    /\ reload
    /\ reload' = FALSE
    /\ shown' = shadow
    /\ irq' = TRUE
    /\ UNCHANGED <<lvgl, flushing, pending, sem, swap, shadow, accepted>>

(* HAL_LTDC_ReloadEventCallback.                                           *)
ReloadEvent ==
    /\ irq
    /\ irq' = FALSE
    /\ sem' = IF pending THEN sem + 1 ELSE sem
    /\ UNCHANGED <<lvgl, flushing, pending, swap, shadow, shown, reload, accepted>>

(* lv_swap_thread_entry: wait, forget the driver, end the flush.           *)
SwapTake ==
    /\ swap = "wait"
    /\ sem > 0
    /\ sem' = sem - 1
    /\ swap' = IF pending THEN "clear" ELSE "wait"
    /\ UNCHANGED <<lvgl, flushing, pending, ltdc, accepted>>

SwapClear ==
    /\ swap = "clear"
    /\ swap' = "ready"
    /\ pending' = FALSE
    /\ UNCHANGED <<lvgl, flushing, sem, ltdc, accepted>>

SwapReady ==
    /\ swap = "ready"
    /\ swap' = "wait"
    /\ flushing' = FALSE
    /\ UNCHANGED <<lvgl, pending, sem, ltdc, accepted>>

SwapThread == SwapTake \/ SwapClear \/ SwapReady

---------------------------------------------------------------------------
(* Specification *)

Next == Refresh \/ Lvgl \/ VBlank \/ ReloadEvent \/ SwapThread

Spec == Init /\ [][Next]_vars

(* The screen is scanned without end, an interrupt is served, and the two  *)
(* threads have the same priority and share the processor in time slices;  *)
(* so the swap thread runs although LVGL waits for `flushing' in a loop.   *)
LiveSpec ==
    /\ Spec
    /\ WF_vars(Lvgl)
    /\ WF_vars(VBlank)
    /\ WF_vars(ReloadEvent)
    /\ WF_vars(SwapThread)

---------------------------------------------------------------------------
(* Properties *)

(* The state has its type; the semaphore never collects a second token,    *)
(* which would end a later flush too early.                                *)
TypeOK ==
    /\ pc \in {"idle", "wait", "draw", "publish", "address", "reload", "swap"}
    /\ act \in Buffers /\ shadow \in Buffers /\ shown \in Buffers
    /\ flushing \in BOOLEAN /\ pending \in BOOLEAN /\ accepted \in BOOLEAN
    /\ reload \in BOOLEAN /\ irq \in BOOLEAN
    /\ sem \in {0, 1}
    /\ swap \in {"wait", "clear", "ready"}
    /\ frame \in 0 .. MaxFrames
    /\ image \in [Buffers -> 0 .. MaxFrames]

(* No tearing: LVGL never draws into the buffer on the screen.  The first  *)
(* frame, and the frame after one the HAL has refused, are the exceptions: *)
(* LVGL changes buffers although the LTDC did not.                         *)
NoTearing == pc = "draw" /\ accepted => shown # act

(* When the swap thread ends a flush, the frame that was flushed is on the *)
(* screen and no reload is under way: "The VBlank reload is complete       *)
(* here" (lv_port_disp.c:35).                                              *)
ReadyAfterLatch ==
    swap = "ready" => ~reload /\ ~irq /\ shown = shadow /\ image[shown] = frame

(* Every flush ends: no reload interrupt is missed because the driver was  *)
(* not published yet, and the error path ends it as well.                  *)
FlushCompletes == flushing ~> ~flushing
=============================================================================
