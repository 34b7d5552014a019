-------------------------------- MODULE Ota --------------------------------
(***************************************************************************)
(* The transport-independent OTA core, applications/ota/ota.c.             *)
(*                                                                         *)
(* A firmware package arrives sector by sector, is staged in the partition *)
(* "download", verified, and then copied to the partition "upgrade", which *)
(* the Bootloader installs from at the next reset.  Every ota_*() call     *)
(* holds ota_context.lock for its whole body, so calls never overlap; what *)
(* interleaves with the steps INSIDE a call is the power supply.  The      *)
(* model therefore has one step per flash operation of the lock holder,    *)
(* and PowerLoss may strike between any two of them or in the middle of    *)
(* one.                                                                    *)
(*                                                                         *)
(* Sizes are counted in flash sectors: cell 0 of a slot is the 256-byte    *)
(* header area of its first sector, cells 1.. are the payload sectors      *)
(* (OTA_IMAGE_PAYLOAD_OFFSET is exactly one sector).  SHA-256 is ideal     *)
(* (a digest is the content it was computed from); CRC32 is an arbitrary   *)
(* function Crc32 that may collide.                                        *)
(***************************************************************************)
EXTENDS Naturals, Sequences

CONSTANTS
    Blocks,       \* what a payload sector may contain
    Headers,      \* the boot_image_header_t values a host may send
    Packages,     \* the .fwpkg files (header first) a host may announce
    SlotBlocks,   \* OTA_IMAGE_MAX_SIZE: payload sectors of a slot
    EraseChunk,   \* OTA_FLASH_ERASE_CHUNK_SIZE, in sectors
    Erasers,      \* sfdp.eraser[]: what one erase command can clear, in sectors
    Crc32(_),     \* ota_crc32_calculate of a sequence of sectors
    Erased,       \* contents of an erased sector
    Torn,         \* contents of a half-programmed or half-erased sector
    NoHeader,     \* ota_context.header after memset
    OTA_ALLOW_UNSIGNED_IMAGES   \* ota_config.h: accept BOOT_SIGNATURE_NONE

ASSUME SizeAssumption == SlotBlocks \in Nat \ {0}

ASSUME EraseAssumption ==
    /\ EraseChunk \in Nat \ {0}
    /\ Erasers \subseteq Nat \ {0}
    /\ 1 \in Erasers

ASSUME PolicyAssumption == OTA_ALLOW_UNSIGNED_IMAGES \in BOOLEAN

ASSUME CellAssumption ==
    /\ Erased # Torn
    /\ Erased \notin Blocks \cup Headers
    /\ Torn \notin Blocks \cup Headers
    /\ NoHeader \notin Headers
    /\ Blocks \cap Headers = {}

ASSUME HeaderAssumption ==
    \A h \in Headers :
        /\ h.fields_ok \in BOOLEAN          \* magic, ids, reserved, header CRC
        /\ h.image_size \in Nat             \* in sectors
        /\ h.image_sha256 \in Seq(Blocks)   \* h.image_crc32: any CRC value
        /\ h.signature \in {"none", "valid", "invalid"}

ASSUME PackageAssumption ==
    \A p \in Packages : Len(p) \in 1..(SlotBlocks + 1)

VARIABLES
    download,       \* flash: the staging slot
    upgrade,        \* flash: the slot the Bootloader installs from
    state,          \* ota_context.status.state
    last_error,     \* ota_context.status.last_error
    package_size,   \* ota_context.status.package_size
    received,       \* ota_context.status.received_size
    transfer,       \* what ota_context.transfer_crc has been fed so far
    expected_crc,   \* ota_context.expected_package_crc
    header,         \* ota_context.header, in RAM
    pc,             \* where the holder of ota_context.lock is; "free" if none
    pos,            \* loop position of that holder
    reset_due       \* a caller of ota_reboot_to_install is in its delay

flash  == <<download, upgrade>>
status == <<state, last_error, package_size, received>>
ram    == <<status, transfer, expected_crc, header, reset_due>>
vars   == <<flash, ram, pc, pos>>
-----------------------------------------------------------------------------
Cells == Blocks \cup Headers \cup {Erased, Torn}
Slots == [0..SlotBlocks -> Cells]

Errors == { "OK", "FLASH", "TRANSFER_CRC", "HEADER", "SIZE",
            "IMAGE_CRC", "IMAGE_SHA256", "SIGNATURE" }

States == { "UNINITIALIZED", "IDLE", "RECEIVING", "VALIDATING",
            "COMMITTING", "READY", "ERROR" }

Busy == { "RECEIVING", "VALIDATING", "COMMITTING" }

Steps == { "free", "begin_erase", "write_body", "abort_erase",
           "validate_download", "write_download_header", "check_download",
           "erase_upgrade", "copy", "validate_upgrade",
           "write_upgrade_header", "check_upgrade" }

\* ota_service_init has run since the last reset: ota_context.lock exists.
Initialized == state # "UNINITIALIZED"
-----------------------------------------------------------------------------
(* Validation                                                              *)

header_validate(h) ==
    /\ h \in Headers
    /\ h.fields_ok
    /\ h.image_size \in 1..SlotBlocks

\* A signature covers the immutable header fields and the payload digest, so
\* whether it verifies is a property of the header.
ota_signature_verify(h) ==
    \/ h.signature = "valid"
    \/ h.signature = "none" /\ OTA_ALLOW_UNSIGNED_IMAGES

Payload(slot, h) == [i \in 1..h.image_size |-> slot[i]]

\* The results partition_payload_validate can return: a read error, or the
\* first of its three checks that fails.
partition_payload_validate(slot, h) ==
    {"FLASH"} \cup
    { IF Crc32(Payload(slot, h)) # h.image_crc32 THEN "IMAGE_CRC"
      ELSE IF Payload(slot, h) # h.image_sha256 THEN "IMAGE_SHA256"
      ELSE IF ~ota_signature_verify(h) THEN "SIGNATURE"
      ELSE "OK" }

slot_validate(slot, h) ==
    {"FLASH"} \cup
    IF header_validate(slot[0]) /\ slot[0] = h
    THEN partition_payload_validate(slot, h)
    ELSE {"HEADER"}
-----------------------------------------------------------------------------
(* Flash operations                                                        *)

\* NOR flash programs 1 bits to 0: only an erased sector takes new contents.
Program(old, new) == IF old \in {Erased, new} THEN new ELSE Torn

\* What a program operation leaves behind, whatever result it reports.
WriteOutcomes(old, new) == {old, Torn, Program(old, new)}

\* A slot whose erase was reported as a success, which is trusted.
Cleared(slot, block) ==
    [i \in 0..SlotBlocks |-> IF i \in block THEN Erased ELSE slot[i]]

Remains(slot, torn, done) ==
    [i \in 0..SlotBlocks |->
        IF i \in torn THEN Torn ELSE IF i \in done THEN Erased ELSE slot[i]]

\* What an erase command that fails or is cut short may leave behind: its
\* sectors share one command, and each of them is old, torn or erased.
Cut(slot, block) ==
    { Remains(slot, torn, done) :
        torn \in SUBSET block, done \in SUBSET block }

\* The erasers sfud_erase may use at sector i, when n sectors are to be erased
\* in chunks: no larger than the rest of the chunk, and i is aligned to them.
Fitting(i, n) ==
    { s \in Erasers : s <= n - i /\ (i % EraseChunk) + s <= EraseChunk
                                /\ i % s = 0 }

\* The next erase command; SFUD takes the largest eraser that fits.
EraseSize(i, n) ==
    CHOOSE s \in Fitting(i, n) : \A u \in Fitting(i, n) : u <= s

EraseBlock(i, n) == i..(i + EraseSize(i, n) - 1)

WriteDownload(i, new) ==
    \E c \in WriteOutcomes(download[i], new) :
        download' = [download EXCEPT ![i] = c]

WriteUpgrade(i, new) ==
    \E c \in WriteOutcomes(upgrade[i], new) :
        upgrade' = [upgrade EXCEPT ![i] = c]
-----------------------------------------------------------------------------
(* Returning from a call: the lock is released                             *)

Release == pc' = "free" /\ pos' = 0

set_error(e) == state' = "ERROR" /\ last_error' = e

Fail(e) ==
    /\ set_error(e)
    /\ Release
    /\ UNCHANGED <<package_size, received, transfer, expected_crc, header,
                   reset_due>>

Goto(step, p) == pc' = step /\ pos' = p
-----------------------------------------------------------------------------
ota_service_init ==
    /\ pc = "free"
    /\ ~Initialized
    /\ state' = "IDLE"
    /\ last_error' = "OK"
    /\ UNCHANGED <<flash, package_size, received, transfer, expected_crc,
                   header, reset_due, pc, pos>>

\* ota_begin calls ota_service_init itself, so it starts from every state
\* that is not busy.  Sizes outside the slot are refused before any change.
ota_begin(package) ==
    /\ pc = "free"
    /\ state \notin Busy
    /\ header' = NoHeader
    /\ state' = "RECEIVING"
    /\ last_error' = "OK"
    /\ package_size' = Len(package)
    /\ received' = 0
    /\ expected_crc' = Crc32(package)
    /\ transfer' = <<>>
    /\ Goto("begin_erase", 0)
    /\ UNCHANGED <<flash, reset_due>>

\* Mutant: only the commit sector is cleared, as ota_abort does.
BeginErase_CommitSectorOnly ==
    /\ pc = "begin_erase"
    /\ download' = Cleared(download, {0})
    /\ Release
    /\ UNCHANGED <<upgrade, ram>>

\* Mutant: the result of an erase is not looked at.
BeginErase_Unchecked ==
    /\ pc = "begin_erase"
    /\ download' \in Cut(download, EraseBlock(pos, package_size))
    /\ LET next == pos + EraseSize(pos, package_size)
       IN  IF next < package_size THEN Goto("begin_erase", next) ELSE Release
    /\ UNCHANGED <<upgrade, ram>>

\* One command of partition_erase_exact(download, 0, round_up_sector(
\* package_size)).
BeginErase ==
    /\ pc = "begin_erase"
    /\ UNCHANGED upgrade
    /\ \/ /\ download' = Cleared(download, EraseBlock(pos, package_size))
          /\ LET next == pos + EraseSize(pos, package_size)
             IN  IF next < package_size
                 THEN Goto("begin_erase", next)
                 ELSE Release
          /\ UNCHANGED ram
       \/ /\ download' \in Cut(download, EraseBlock(pos, package_size))
          /\ Fail("FLASH")

\* Mutant: the bound on the package size is not checked.
ota_write_Unbounded(data) ==
    /\ pc = "free"
    /\ state = "RECEIVING"
    /\ data \in IF received = 0 THEN Headers ELSE Blocks
    /\ transfer' = Append(transfer, data)
    /\ header' = IF received = 0 THEN data ELSE header
    /\ Goto("write_body", received)
    /\ UNCHANGED <<flash, status, expected_crc, reset_due>>

\* The first sector of a package carries the header, which stays in RAM.
ota_write(data) ==
    /\ pc = "free"
    /\ state = "RECEIVING"
    /\ received < package_size
    /\ data \in IF received = 0 THEN Headers ELSE Blocks
    /\ transfer' = Append(transfer, data)
    /\ header' = IF received = 0 THEN data ELSE header
    /\ Goto("write_body", received)
    /\ UNCHANGED <<flash, status, expected_crc, reset_due>>

WriteBody ==
    /\ pc = "write_body"
    /\ UNCHANGED upgrade
    /\ IF pos = 0
       THEN UNCHANGED download
       ELSE WriteDownload(pos, transfer[Len(transfer)])
    /\ \/ /\ received' = received + 1
          /\ Release
          /\ UNCHANGED <<state, last_error, package_size, transfer,
                         expected_crc, header, reset_due>>
       \/ Fail("FLASH")

\* The checks of ota_finish that need no flash access, in their order.
FinishChecks ==
    IF Crc32(transfer) # expected_crc THEN "TRANSFER_CRC"
    ELSE IF ~header_validate(header) THEN "HEADER"
    ELSE IF header.image_size + 1 > package_size THEN "SIZE"
    ELSE "OK"

ota_finish ==
    /\ pc = "free"
    /\ state = "RECEIVING"
    /\ received = package_size
    /\ UNCHANGED flash
    /\ \/ /\ FinishChecks = "OK"
          /\ state' = "VALIDATING"
          /\ Goto("validate_download", 0)
          /\ UNCHANGED <<last_error, package_size, received, transfer,
                         expected_crc, header, reset_due>>
       \/ /\ FinishChecks # "OK"
          /\ Fail(FinishChecks)

ValidateDownload ==
    /\ pc = "validate_download"
    /\ UNCHANGED flash
    /\ \E r \in partition_payload_validate(download, header) :
          \/ /\ r = "OK"
             /\ Goto("write_download_header", 0)
             /\ UNCHANGED ram
          \/ /\ r # "OK"
             /\ Fail(r)

WriteDownloadHeader ==
    /\ pc = "write_download_header"
    /\ WriteDownload(0, header)
    /\ UNCHANGED upgrade
    /\ \/ /\ Goto("check_download", 0)
          /\ UNCHANGED ram
       \/ Fail("FLASH")

\* Mutant: the written header is not read back and checked.
CheckDownload_Skipped ==
    /\ pc = "check_download"
    /\ state' = "COMMITTING"
    /\ Goto("erase_upgrade", 0)
    /\ UNCHANGED <<flash, last_error, package_size, received, transfer,
                   expected_crc, header, reset_due>>

CheckDownload ==
    /\ pc = "check_download"
    /\ UNCHANGED flash
    /\ \E r \in slot_validate(download, header) :
          \/ /\ r = "OK"
             /\ state' = "COMMITTING"
             /\ Goto("erase_upgrade", 0)
             /\ UNCHANGED <<last_error, package_size, received, transfer,
                            expected_crc, header, reset_due>>
          \/ /\ r # "OK"
             /\ Fail(r)

\* Mutant: the result of an erase is not looked at.
CommitErase_Unchecked ==
    /\ pc = "erase_upgrade"
    /\ upgrade' \in Cut(upgrade, EraseBlock(pos, header.image_size + 1))
    /\ LET next == pos + EraseSize(pos, header.image_size + 1)
       IN  IF next <= header.image_size
           THEN Goto("erase_upgrade", next)
           ELSE Goto("copy", 1)
    /\ UNCHANGED <<download, ram>>

\* commit_to_upgrade: erase the header and image_size payload sectors; copy
\* the payload; verify it; write the header; verify again.
CommitErase ==
    /\ pc = "erase_upgrade"
    /\ UNCHANGED download
    /\ \/ /\ upgrade' = Cleared(upgrade, EraseBlock(pos, header.image_size + 1))
          /\ LET next == pos + EraseSize(pos, header.image_size + 1)
             IN  IF next <= header.image_size
                 THEN Goto("erase_upgrade", next)
                 ELSE Goto("copy", 1)
          /\ UNCHANGED ram
       \/ /\ upgrade' \in Cut(upgrade, EraseBlock(pos, header.image_size + 1))
          /\ Fail("FLASH")

CommitCopy ==
    /\ pc = "copy"
    /\ UNCHANGED download
    /\ \/ /\ WriteUpgrade(pos, download[pos])
          /\ IF pos < header.image_size
             THEN Goto("copy", pos + 1)
             ELSE Goto("validate_upgrade", 0)
          /\ UNCHANGED ram
       \/ /\ UNCHANGED upgrade            \* the read of download failed
          /\ Fail("FLASH")
       \/ /\ WriteUpgrade(pos, download[pos])
          /\ Fail("FLASH")

CommitValidate ==
    /\ pc = "validate_upgrade"
    /\ UNCHANGED flash
    /\ \E r \in partition_payload_validate(upgrade, header) :
          \/ /\ r = "OK"
             /\ Goto("write_upgrade_header", 0)
             /\ UNCHANGED ram
          \/ /\ r # "OK"
             /\ Fail(r)

CommitHeader ==
    /\ pc = "write_upgrade_header"
    /\ WriteUpgrade(0, header)
    /\ UNCHANGED download
    /\ \/ /\ Goto("check_upgrade", 0)
          /\ UNCHANGED ram
       \/ Fail("FLASH")

\* Mutant: the committed slot is not read back and checked.
CommitCheck_Skipped ==
    /\ pc = "check_upgrade"
    /\ state' = "READY"
    /\ last_error' = "OK"
    /\ Release
    /\ UNCHANGED <<flash, package_size, received, transfer, expected_crc,
                   header, reset_due>>

CommitCheck ==
    /\ pc = "check_upgrade"
    /\ UNCHANGED flash
    /\ \E r \in slot_validate(upgrade, header) :
          \/ /\ r = "OK"
             /\ state' = "READY"
             /\ last_error' = "OK"
             /\ Release
             /\ UNCHANGED <<package_size, received, transfer, expected_crc,
                            header, reset_due>>
          \/ /\ r # "OK"
             /\ Fail(r)

\* ota_abort is accepted in every state, READY included.
ota_abort ==
    /\ pc = "free"
    /\ Initialized
    /\ Goto("abort_erase", 0)
    /\ UNCHANGED <<flash, ram>>

\* Mutant: cancelling a transfer also clears the upgrade slot.
AbortErase_BothSlots ==
    /\ pc = "abort_erase"
    /\ download' = Cleared(download, {0})
    /\ upgrade' = Cleared(upgrade, {0})
    /\ state' = "IDLE"
    /\ last_error' = "OK"
    /\ package_size' = 0
    /\ received' = 0
    /\ Release
    /\ UNCHANGED <<transfer, expected_crc, header, reset_due>>

\* The commit sector, one sector; the result of its erase is ignored.
AbortErase ==
    /\ pc = "abort_erase"
    /\ download' \in Cut(download, {0})
    /\ state' = "IDLE"
    /\ last_error' = "OK"
    /\ package_size' = 0
    /\ received' = 0
    /\ Release
    /\ UNCHANGED <<upgrade, transfer, expected_crc, header, reset_due>>

\* The READY check; the delay that follows it does not hold the lock.
ota_reboot_to_install ==
    /\ pc = "free"
    /\ state = "READY"
    /\ ~reset_due
    /\ reset_due' = TRUE
    /\ UNCHANGED <<flash, status, transfer, expected_crc, header, pc, pos>>
-----------------------------------------------------------------------------
(* Losing the RAM: rt_hw_cpu_reset after the delay, or a power failure     *)

ForgetRam ==
    /\ state' = "UNINITIALIZED"
    /\ last_error' = "OK"
    /\ package_size' = 0
    /\ received' = 0
    /\ transfer' = <<>>
    /\ expected_crc' = Crc32(<<>>)
    /\ header' = NoHeader
    /\ reset_due' = FALSE
    /\ Release

Init ==
    /\ download = [i \in 0..SlotBlocks |-> Erased]
    /\ upgrade = [i \in 0..SlotBlocks |-> Erased]
    /\ state = "UNINITIALIZED"
    /\ last_error = "OK"
    /\ package_size = 0
    /\ received = 0
    /\ transfer = <<>>
    /\ expected_crc = Crc32(<<>>)
    /\ header = NoHeader
    /\ reset_due = FALSE
    /\ pc = "free"
    /\ pos = 0

\* The flash command under way is cut short: a program command leaves its
\* sector torn, an erase command any mixture in its block.
Interrupted ==
    \/ UNCHANGED flash
    \/ /\ UNCHANGED upgrade
       /\ \/ /\ pc = "begin_erase"
             /\ download' \in Cut(download, EraseBlock(pos, package_size))
          \/ /\ pc = "abort_erase"
             /\ download' \in Cut(download, {0})
          \/ /\ pc = "write_download_header" \/ (pc = "write_body" /\ pos > 0)
             /\ download' = [download EXCEPT ![pos] = Torn]
    \/ /\ UNCHANGED download
       /\ \/ /\ pc = "erase_upgrade"
             /\ upgrade' \in Cut(upgrade, EraseBlock(pos, header.image_size + 1))
          \/ /\ pc \in {"copy", "write_upgrade_header"}
             /\ upgrade' = [upgrade EXCEPT ![pos] = Torn]

PowerLoss == Initialized /\ ForgetRam /\ Interrupted

\* The delay of ota_reboot_to_install is over, whatever the other threads
\* are doing by then.
Reset == reset_due /\ ForgetRam /\ Interrupted
-----------------------------------------------------------------------------
LockHolder ==
    \/ BeginErase \/ WriteBody \/ AbortErase
    \/ ValidateDownload \/ WriteDownloadHeader \/ CheckDownload
    \/ CommitErase \/ CommitCopy \/ CommitValidate \/ CommitHeader
    \/ CommitCheck

Next ==
    \/ ota_service_init
    \/ \E p \in Packages : ota_begin(p)
    \/ \E d \in Headers \cup Blocks : ota_write(d)
    \/ ota_finish
    \/ ota_abort
    \/ ota_reboot_to_install
    \/ LockHolder
    \/ PowerLoss
    \/ Reset

Spec == Init /\ [][Next]_vars

-----------------------------------------------------------------------------
(* Properties                                                              *)

\* Every variable has its type; in particular no loop position leaves a slot.
TypeOK ==
    /\ download \in Slots
    /\ upgrade \in Slots
    /\ state \in States
    /\ last_error \in Errors
    /\ package_size \in 0..(SlotBlocks + 1)
    /\ received \in 0..package_size
    /\ transfer \in Seq(Headers \cup Blocks)
    /\ header \in Headers \cup {NoHeader}
    /\ reset_due \in BOOLEAN
    /\ pc \in Steps
    /\ pos \in 0..SlotBlocks

\* The slot's header describes a payload that is all there and is signed.
Complete(slot) ==
    /\ header_validate(slot[0])
    /\ Payload(slot, slot[0]) = slot[0].image_sha256
    /\ ota_signature_verify(slot[0])

\* A header never stands over anything but sectors of its own image, some of
\* which an interrupted erase may have erased or torn.
Unmixed(slot) ==
    slot[0] \in Headers =>
        /\ header_validate(slot[0])
        /\ ota_signature_verify(slot[0])
        /\ \A i \in 1..slot[0].image_size :
              slot[i] \in {slot[0].image_sha256[i], Erased, Torn}

\* Whenever power fails and whichever command fails, a header that the
\* Bootloader can find in the upgrade slot was verified over all of its
\* payload, and nothing has been written under it since: what it stands over
\* is its image, or what an erase left of it.  commit_to_upgrade programs no
\* sector before every erase command has succeeded.  README_EN.md:33-35 goes
\* further, to no valid header on an interrupted slot, which the code does not
\* give: one command erases the header with the first payload sectors, and cut
\* short it may leave the header over remains.  That these are not installed is
\* up to the digest check of the Bootloader.
UpgradeUnmixed == Unmixed(upgrade)

\* The same for the staging slot: ota_write programs no sector before every
\* erase command of ota_begin has succeeded, and ota_finish writes the header
\* only over a verified payload.
DownloadUnmixed == Unmixed(download)

\* READY, the state in which a reset to the Bootloader is allowed, is only
\* reported while the image of the last transfer is installable.
ReadyInstallable ==
    state = "READY" => upgrade[0] = header /\ Complete(upgrade)

\* What is committed is what the host sent: the header it sent first, over
\* the sectors it sent next.  No sector of an earlier or aborted transfer
\* is left among them.
CommittedIsTransferred ==
    state = "READY" =>
        /\ transfer[1] = upgrade[0]
        /\ Payload(upgrade, header) =
              SubSeq(transfer, 2, header.image_size + 1)

\* The upgrade slot is touched only while the staging slot holds the complete
\* image that replaces it: a refused, failed or aborted transfer never costs
\* the device the upgrade it already had.
UpgradeReplacedByVerified ==
    [][upgrade' # upgrade => download[0] = header /\ Complete(download)]_upgrade
-----------------------------------------------------------------------------
(* The inductive invariant behind the safety properties                    *)

ValidateSteps ==
    {"validate_download", "write_download_header", "check_download"}

CommitSteps ==
    {"erase_upgrade", "copy", "validate_upgrade", "write_upgrade_header",
     "check_upgrade"}

\* The payload in the slot is the one the header in RAM describes.
Matches(slot) ==
    /\ Payload(slot, header) = header.image_sha256
    /\ ota_signature_verify(header)

\* Which status goes with which position inside a call.
PcInv ==
    /\ pc # "free" => Initialized
    /\ pc = "begin_erase" => state = "RECEIVING" /\ pos < package_size
    /\ pc = "write_body" =>
          /\ state = "RECEIVING" /\ transfer # <<>>
          /\ pos = received /\ received < package_size
    /\ pc \in {"abort_erase", "write_download_header",
               "write_upgrade_header"} => pos = 0
    /\ pc \in ValidateSteps <=> state = "VALIDATING"
    /\ pc \in CommitSteps <=> state = "COMMITTING"
    /\ pc \in ValidateSteps \cup CommitSteps => header_validate(header)

\* The header area of the staging slot stays erased until its payload has
\* been verified.
StagingInv ==
    /\ state = "RECEIVING" /\ (pc = "begin_erase" => pos > 0) =>
          download[0] = Erased
    /\ pc \in {"validate_download", "write_download_header"} =>
          download[0] = Erased
    /\ pc = "check_download" => download[0] \in {Erased, Torn, header}
    /\ pc \in {"write_download_header", "check_download"} => Matches(download)
    /\ pc \in CommitSteps => download[0] = header /\ Matches(download)

\* The same for the upgrade slot during commit_to_upgrade.
CommitInv ==
    /\ pc = "erase_upgrade" =>
          pos <= header.image_size /\ (pos > 0 => upgrade[0] = Erased)
    /\ pc = "copy" => pos \in 1..header.image_size
    /\ pc \in {"copy", "validate_upgrade", "write_upgrade_header"} =>
          upgrade[0] = Erased
    /\ pc = "check_upgrade" => upgrade[0] \in {Erased, Torn, header}
    /\ pc \in {"write_upgrade_header", "check_upgrade"} => Matches(upgrade)

IInv ==
    /\ TypeOK
    /\ DownloadUnmixed
    /\ UpgradeUnmixed
    /\ ReadyInstallable
    /\ PcInv
    /\ StagingInv
    /\ CommitInv

\* What a sector holds after a transferred one was written to it.
Arrived(i) == download[i] \in {Erased, Torn, transfer[i + 1]}

\* While a package is received: the sectors that have arrived are those of
\* this transfer, the others are erased.
ReceivingInv ==
    state = "RECEIVING" =>
        /\ Len(transfer) = IF pc = "write_body" THEN received + 1 ELSE received
        /\ transfer # <<>> => header = transfer[1]
        /\ pc = "begin_erase" =>
              received = 0 /\ \A i \in 1..SlotBlocks : i < pos => download[i] = Erased
        /\ pc # "begin_erase" =>
              \A i \in 1..SlotBlocks : i < package_size =>
                  IF i < received THEN Arrived(i) ELSE download[i] = Erased

\* The staged payload, before and after its digest was compared.
StagedInv ==
    /\ pc = "validate_download" =>
          /\ header = transfer[1]
          /\ header.image_size < Len(transfer)
          /\ \A i \in 1..header.image_size : Arrived(i)
    /\ pc \in {"write_download_header", "check_download"} \cup CommitSteps
       \/ state = "READY" =>
          /\ header = transfer[1]
          /\ header.image_sha256 = SubSeq(transfer, 2, header.image_size + 1)

TransferInv == ReceivingInv /\ StagedInv
-----------------------------------------------------------------------------
(* The core implements OtaService                                          *)

VerifiedImages ==
    { i \in [hdr : Headers, payload : Seq(Blocks)] :
        /\ header_validate(i.hdr)
        /\ i.payload = i.hdr.image_sha256
        /\ ota_signature_verify(i.hdr) }

PhaseBar ==
    CASE state = "UNINITIALIZED" -> "off"
      [] state = "IDLE" -> "idle"
      [] state = "RECEIVING" -> "receiving"
      [] state = "VALIDATING" -> "validating"
      [] state = "COMMITTING" ->
            IF pc = "check_upgrade" /\ upgrade[0] \in Headers
            THEN "published" ELSE "committing"
      [] state = "READY" -> "ready"
      [] OTHER -> "error"

\* The Bootloader verifies the slot before it installs it (README_EN.md:15).
ImageBar ==
    IF Complete(upgrade)
    THEN [hdr |-> upgrade[0], payload |-> Payload(upgrade, upgrade[0])]
    ELSE Erased

Service == INSTANCE OtaService WITH
    Images <- VerifiedImages, NoImage <- Erased,
    phase <- PhaseBar, image <- ImageBar

\* Every behaviour of the flash-level core is a behaviour of the promised
\* service: seen through the digest check of the Bootloader, no step takes the
\* upgrade slot from one image to another, no image appears before the commit
\* publishes it, and only a commit in progress can lose one.
ImplementsService == Service!SSpec
=============================================================================
