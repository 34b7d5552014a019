---------------------------- MODULE OtaService ----------------------------
(***************************************************************************)
(* What the OTA core promises its callers, without flash sectors,          *)
(* checksums or loops, given a Bootloader that verifies the upgrade slot   *)
(* before it installs from it: the slot is good for either no image or one *)
(* verified image, this image changes only in a call that has verified a   *)
(* new package first, and READY is reported only while the image that the  *)
(* reporting call published is there.                                      *)
(***************************************************************************)
CONSTANTS
    Images,     \* the complete, verified images
    NoImage     \* nothing, or nothing that passes the Bootloader's check

VARIABLES
    phase,      \* what the service is doing
    image       \* what a verifying Bootloader would install at the next reset

svars == <<phase, image>>

SInit == phase = "off" /\ image = NoImage

Start == phase = "off" /\ phase' = "idle" /\ UNCHANGED image

\* A new transfer is accepted unless one is in progress.
Begin ==
    /\ phase \in {"off", "idle", "ready", "error"}
    /\ phase' = "receiving"
    /\ UNCHANGED image

Finish == phase = "receiving" /\ phase' = "validating" /\ UNCHANGED image

\* Whatever is wrong with a package, the slot does not suffer for it.
Reject ==
    /\ phase \in {"receiving", "validating"}
    /\ phase' = "error"
    /\ UNCHANGED image

Accept == phase = "validating" /\ phase' = "committing" /\ UNCHANGED image

\* The slot is emptied before it takes the new image...
Invalidate == phase = "committing" /\ image' = NoImage /\ UNCHANGED phase

\* ...which appears in it all at once.
Publish ==
    /\ phase = "committing"
    /\ image = NoImage
    /\ image' \in Images
    /\ phase' = "published"

Confirm == phase = "published" /\ phase' = "ready" /\ UNCHANGED image

\* A commit may fail before, while or after the image is published.
CommitFails ==
    /\ phase \in {"committing", "published"}
    /\ phase' = "error"
    /\ \/ UNCHANGED image
       \/ phase = "committing" /\ image' = NoImage
       \/ phase = "committing" /\ image = NoImage /\ image' \in Images

Abort ==
    /\ phase \in {"idle", "receiving", "ready", "error"}
    /\ phase' = "idle"
    /\ UNCHANGED image

\* Power loss or reset.  Only a commit in progress can lose the image.
Off ==
    /\ phase' = "off"
    /\ \/ UNCHANGED image
       \/ phase = "committing" /\ image' = NoImage

SNext ==
    \/ Start \/ Begin \/ Finish \/ Reject \/ Accept \/ Invalidate
    \/ Publish \/ Confirm \/ CommitFails \/ Abort \/ Off

SSpec == SInit /\ [][SNext]_svars
=============================================================================
