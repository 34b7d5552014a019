----------------------------- MODULE OtaProofs -----------------------------
(***************************************************************************)
(* Proofs about the OTA core, for slots of any size, any set of headers    *)
(* and packages, and any checksum function.                                *)
(***************************************************************************)
EXTENDS Ota, SequenceTheorems, WellFoundedInduction, TLAPS

\* Cell 0, the header area, is a cell of every slot.
LEMMA CellZero ==
    ASSUME NEW slot \in Slots, NEW i \in 1..SlotBlocks, NEW c
    PROVE  [slot EXCEPT ![i] = c][0] = slot[0]
BY SizeAssumption DEF Slots

\* Changing one cell of a slot to a cell gives a slot.
LEMMA SetCell ==
    ASSUME NEW slot \in Slots, NEW i \in 0..SlotBlocks, NEW c \in Cells
    PROVE  /\ [slot EXCEPT ![i] = c] \in Slots
           /\ [slot EXCEPT ![i] = c][i] = c
BY SizeAssumption DEF Slots

\* The payload of a valid header lies above cell 0.
LEMMA PayloadZero ==
    ASSUME NEW slot \in Slots, NEW c, NEW h, header_validate(h)
    PROVE  Payload([slot EXCEPT ![0] = c], h) = Payload(slot, h)
BY SizeAssumption, HeaderAssumption DEF Slots, Payload, header_validate

\* A slot whose header area is erased or torn claims nothing.
LEMMA NoHeaderUnmixed ==
    ASSUME NEW slot, slot[0] \in {Erased, Torn}
    PROVE  Unmixed(slot)
BY CellAssumption DEF Unmixed

(***************************************************************************)
(* Erasing.  Whatever becomes of an erase command, each sector is old,     *)
(* torn or erased after it: the slot is worn.                              *)
(***************************************************************************)

\* There is an eraser that fits, and the largest one makes progress without
\* leaving the area to be erased.
LEMMA EraseSizeFits ==
    ASSUME NEW i \in Nat, NEW n \in Nat, i < n
    PROVE  /\ EraseSize(i, n) \in Nat \ {0}
           /\ i + EraseSize(i, n) <= n
           /\ i \in EraseBlock(i, n)
<1> DEFINE F == Fitting(i, n)
           T == {n - s : s \in F}
           R == OpToRel(<, Nat)
<1>1. \A s \in F : s \in Nat \ {0} /\ s <= n - i
  BY EraseAssumption DEF Fitting
<1>2. 1 \in F
  <2>1. i % 1 = 0
    OBVIOUS
  <2>2. i % EraseChunk \in 0..(EraseChunk - 1)
    BY EraseAssumption
  <2>3. (i % EraseChunk) + 1 <= EraseChunk /\ 1 <= n - i
    BY <2>2, EraseAssumption
  <2> QED
    BY <2>1, <2>3, EraseAssumption DEF Fitting
<1>3. T \subseteq Nat /\ T # {}
  BY <1>1, <1>2
<1>4. IsWellFoundedOn(R, Nat)
  BY NatLessThanWellFounded
<1>5. \A j, k \in Nat : j < k => <<j, k>> \in R
  BY DEF OpToRel
<1> HIDE DEF F, R, T
<1>6. PICK x \in T : \A y \in T : ~(<<y, x>> \in R)
  BY <1>3, <1>4, WFMin
<1>7. \A y \in T : ~(y < x)
  BY <1>3, <1>5, <1>6, Zenon
<1>8. PICK s \in F : x = n - s
  BY <1>6 DEF T
<1>9. ASSUME NEW u \in F PROVE u <= s
  <2>1. n - u \in T
    BY DEF T
  <2>2. ~(n - u < n - s)
    BY <1>7, <1>8, <2>1
  <2> QED
    BY <1>1, <2>2
<1>10. EraseSize(i, n) \in F
  BY <1>9 DEF EraseSize, F
<1> QED
  BY <1>1, <1>10 DEF EraseBlock

WornFrom(new, slot) ==
    \A i \in 0..SlotBlocks : new[i] \in {slot[i], Torn, Erased}

\* An erase command that fails or is cut short.
LEMMA CutWorn ==
    ASSUME NEW slot \in Slots, NEW block, NEW new \in Cut(slot, block)
    PROVE  new \in Slots /\ WornFrom(new, slot)
<1>1. PICK torn \in SUBSET block, done \in SUBSET block :
         new = Remains(slot, torn, done)
  BY DEF Cut
<1> QED
  BY <1>1 DEF Remains, Slots, Cells, WornFrom

\* An erase command that succeeds.
LEMMA ClearedWorn ==
    ASSUME NEW slot \in Slots, NEW block
    PROVE  /\ Cleared(slot, block) \in Slots
           /\ WornFrom(Cleared(slot, block), slot)
           /\ \A i \in 0..SlotBlocks :
                 Cleared(slot, block)[i] = IF i \in block THEN Erased ELSE slot[i]
BY DEF Cleared, Slots, Cells, WornFrom

\* A program command that is cut short.
LEMMA TornWorn ==
    ASSUME NEW slot \in Slots, NEW i \in 0..SlotBlocks
    PROVE  /\ [slot EXCEPT ![i] = Torn] \in Slots
           /\ WornFrom([slot EXCEPT ![i] = Torn], slot)
BY DEF Slots, Cells, WornFrom

\* Wearing mixes nothing into a slot: a header that survives is the old one,
\* and so is every sector that still reads as one.
LEMMA WornUnmixed ==
    ASSUME NEW slot \in Slots, Unmixed(slot), NEW new, WornFrom(new, slot)
    PROVE  Unmixed(new)
<1> SUFFICES ASSUME new[0] \in Headers
             PROVE  /\ header_validate(new[0])
                    /\ ota_signature_verify(new[0])
                    /\ \A i \in 1..new[0].image_size :
                          new[i] \in {new[0].image_sha256[i], Erased, Torn}
  BY DEF Unmixed
<1>1. new[0] = slot[0]
  BY SizeAssumption, CellAssumption DEF WornFrom
<1>2. /\ header_validate(slot[0]) /\ ota_signature_verify(slot[0])
      /\ \A i \in 1..slot[0].image_size :
            slot[i] \in {slot[0].image_sha256[i], Erased, Torn}
  BY <1>1 DEF Unmixed
<1>3. ASSUME NEW i \in 1..slot[0].image_size
      PROVE  new[i] \in {slot[0].image_sha256[i], Erased, Torn}
  <2>1. i \in 0..SlotBlocks
    BY <1>2, SizeAssumption DEF header_validate
  <2> QED
    BY <1>2, <2>1 DEF WornFrom
<1> QED
  BY <1>1, <1>2, <1>3

(***************************************************************************)
(* Programming: a payload sector below an erased header, and a header over *)
(* a verified payload.                                                     *)
(***************************************************************************)

\* A payload write (ota_write, the copy of commit_to_upgrade) below an
\* erased header leaves no header over it.
LEMMA BodyWriteUnmixed ==
    ASSUME NEW slot \in Slots, slot[0] = Erased, NEW i \in 1..SlotBlocks,
           NEW new \in Cells, NEW c \in WriteOutcomes(slot[i], new)
    PROVE  /\ [slot EXCEPT ![i] = c] \in Slots
           /\ Unmixed([slot EXCEPT ![i] = c])
           /\ [slot EXCEPT ![i] = c][0] = Erased
<1>1. i \in 0..SlotBlocks
  OBVIOUS
<1>2. c \in Cells
  BY <1>1 DEF WriteOutcomes, Program, Cells, Slots
<1>3. [slot EXCEPT ![i] = c] \in Slots /\ [slot EXCEPT ![i] = c][0] = Erased
  BY <1>1, <1>2 DEF Slots
<1> QED
  BY <1>3, CellAssumption DEF Unmixed

\* A header write over a payload that this header verifies puts the header
\* over its own image, whatever part of the write reached the flash.
LEMMA HeaderWriteUnmixed ==
    ASSUME NEW slot \in Slots, slot[0] = Erased, NEW h, header_validate(h),
           Payload(slot, h) = h.image_sha256, ota_signature_verify(h),
           NEW c \in WriteOutcomes(slot[0], h)
    PROVE  /\ [slot EXCEPT ![0] = c] \in Slots
           /\ Unmixed([slot EXCEPT ![0] = c])
           /\ [slot EXCEPT ![0] = c][0] \in {Erased, Torn, h}
           /\ Payload([slot EXCEPT ![0] = c], h) = h.image_sha256
<1>1. h \in Headers /\ 0 \in 0..SlotBlocks
  BY SizeAssumption DEF header_validate
<1>2. c \in {Erased, Torn, h} /\ c \in Cells
  BY <1>1 DEF WriteOutcomes, Program, Cells
<1> DEFINE new == [slot EXCEPT ![0] = c]
<1>3. new \in Slots /\ new[0] = c
  BY <1>1, <1>2, SetCell
<1>4. Payload(new, h) = h.image_sha256
  BY PayloadZero
<1>5. Unmixed(new)
  <2>1. CASE c = h
    <3>1. new[0] = h
      BY <1>3, <2>1
    <3>2. ASSUME NEW i \in 1..h.image_size
          PROVE  new[i] = h.image_sha256[i]
      BY <1>4 DEF Payload
    <3> HIDE DEF new
    <3> QED
      BY <1>1, <3>1, <3>2 DEF Unmixed
  <2>2. CASE c # h
    BY <1>2, <1>3, <2>2, CellAssumption DEF Unmixed
  <2> QED
    BY <2>1, <2>2
<1> QED
  BY <1>2, <1>3, <1>4, <1>5

\* The inductive invariant holds on a blank flash, before ota_service_init.
THEOREM InitIInv == Init => IInv
<1> SUFFICES ASSUME Init PROVE IInv
  OBVIOUS
<1>1. download \in Slots /\ upgrade \in Slots
  BY SizeAssumption DEF Init, Slots, Cells
<1>2. TypeOK
  <2>1. transfer \in Seq(Headers \cup Blocks) /\ reset_due \in BOOLEAN
    BY EmptySeq DEF Init
  <2>2. package_size \in 0..(SlotBlocks + 1) /\ received \in 0..package_size
        /\ pos \in 0..SlotBlocks
    BY SizeAssumption DEF Init
  <2>3. state \in States /\ last_error \in Errors /\ pc \in Steps
        /\ header \in Headers \cup {NoHeader}
    BY DEF Init, States, Errors, Steps
  <2> QED
    BY <1>1, <2>1, <2>2, <2>3 DEF TypeOK
<1>3. download[0] = Erased /\ upgrade[0] = Erased
  BY SizeAssumption DEF Init
<1>4. DownloadUnmixed /\ UpgradeUnmixed
  BY <1>3, NoHeaderUnmixed DEF DownloadUnmixed, UpgradeUnmixed
<1> QED
  BY <1>2, <1>4 DEF Init, IInv, ReadyInstallable, PcInv, StagingInv,
     CommitInv, ValidateSteps, CommitSteps

(***************************************************************************)
(* The two ways out of a call that need no case analysis: an error return, *)
(* and the loss of the RAM.                                                *)
(***************************************************************************)
LEMMA FailStep ==
    ASSUME TypeOK, NEW e \in Errors, Fail(e), download' \in Slots,
           upgrade' \in Slots, Unmixed(download'), Unmixed(upgrade')
    PROVE  IInv'
<1>1. TypeOK'
  BY SizeAssumption DEF TypeOK, Fail, set_error, Release, States, Steps
<1>2. DownloadUnmixed' /\ UpgradeUnmixed'
  BY DEF DownloadUnmixed, UpgradeUnmixed
<1>3. state' = "ERROR" /\ pc' = "free"
  BY DEF Fail, set_error, Release
<1> QED
  BY <1>1, <1>2, <1>3 DEF IInv, ReadyInstallable, PcInv, StagingInv,
     CommitInv, ValidateSteps, CommitSteps

\* The loss of the RAM keeps the invariant when it leaves both slots unmixed.
LEMMA ForgetStep ==
    ASSUME ForgetRam, download' \in Slots, upgrade' \in Slots,
           Unmixed(download'), Unmixed(upgrade')
    PROVE  IInv'
<1>1. TypeOK'
  <2>1. transfer' \in Seq(Headers \cup Blocks) /\ reset_due' \in BOOLEAN
    BY EmptySeq DEF ForgetRam
  <2>2. package_size' \in 0..(SlotBlocks + 1) /\ received' \in 0..package_size'
        /\ pos' \in 0..SlotBlocks
    BY SizeAssumption DEF ForgetRam, Release
  <2>3. state' \in States /\ last_error' \in Errors /\ pc' \in Steps
        /\ header' \in Headers \cup {NoHeader}
    BY DEF ForgetRam, Release, States, Errors, Steps
  <2> QED
    BY <2>1, <2>2, <2>3 DEF TypeOK
<1>2. DownloadUnmixed' /\ UpgradeUnmixed'
  BY DEF DownloadUnmixed, UpgradeUnmixed
<1>3. state' = "UNINITIALIZED" /\ pc' = "free"
  BY DEF ForgetRam, Release
<1> QED
  BY <1>1, <1>2, <1>3 DEF IInv, ReadyInstallable, PcInv, StagingInv,
     CommitInv, ValidateSteps, CommitSteps

(***************************************************************************)
(* One lemma per step of the core.                                         *)
(***************************************************************************)
LEMMA ServiceInitStep == IInv /\ ota_service_init => IInv'
<1> SUFFICES ASSUME IInv, ota_service_init PROVE IInv'
  OBVIOUS
<1>1. TypeOK'
  BY DEF IInv, TypeOK, ota_service_init, flash, States, Errors
<1>2. DownloadUnmixed' /\ UpgradeUnmixed'
  BY DEF IInv, ota_service_init, flash, DownloadUnmixed, UpgradeUnmixed
<1>3. PcInv'
  BY DEF IInv, Initialized, PcInv, ota_service_init, Initialized, ValidateSteps, CommitSteps
<1>4. StagingInv' /\ CommitInv' /\ ReadyInstallable'
  BY DEF IInv, StagingInv, CommitInv, ReadyInstallable, ota_service_init,
     CommitSteps
<1> QED
  BY <1>1, <1>2, <1>3, <1>4 DEF IInv

\* The checks of ota_begin, up to its first erase command.
LEMMA BeginStep == IInv /\ (\E p \in Packages : ota_begin(p)) => IInv'
<1> SUFFICES ASSUME IInv, NEW p \in Packages, ota_begin(p) PROVE IInv'
  OBVIOUS
<1>1. TypeOK'
  <2>1. transfer' \in Seq(Headers \cup Blocks)
    BY EmptySeq DEF ota_begin
  <2>2. package_size' \in 0..(SlotBlocks + 1) /\ received' \in 0..package_size'
        /\ pos' \in 0..SlotBlocks
    BY SizeAssumption, PackageAssumption DEF ota_begin, Goto
  <2> QED
    BY <2>1, <2>2 DEF IInv, TypeOK, ota_begin, Goto, flash, States, Errors,
       Steps
<1>2. DownloadUnmixed' /\ UpgradeUnmixed'
  BY DEF IInv, ota_begin, flash, DownloadUnmixed, UpgradeUnmixed
<1>3. PcInv'
  BY PackageAssumption, SizeAssumption DEF Initialized, PcInv, ota_begin, Goto,
     ValidateSteps, CommitSteps
<1>4. StagingInv' /\ CommitInv' /\ ReadyInstallable'
  BY DEF StagingInv, CommitInv, ReadyInstallable, ota_begin, Goto, CommitSteps
<1> QED
  BY <1>1, <1>2, <1>3, <1>4 DEF IInv

\* One erase command of ota_begin.  The first one takes the header away, or
\* fails and ends the call.
LEMMA BeginEraseStep == IInv /\ BeginErase => IInv'
<1> SUFFICES ASSUME IInv, BeginErase PROVE IInv'
  OBVIOUS
<1> DEFINE block == EraseBlock(pos, package_size)
           next  == pos + EraseSize(pos, package_size)
<1>1. /\ download \in Slots /\ Unmixed(download)
      /\ upgrade \in Slots /\ Unmixed(upgrade) /\ upgrade' = upgrade
      /\ pos \in 0..SlotBlocks /\ pos < package_size
      /\ package_size \in 0..(SlotBlocks + 1)
      /\ state = "RECEIVING" /\ (pos > 0 => download[0] = Erased)
  BY DEF IInv, TypeOK, BeginErase, DownloadUnmixed, UpgradeUnmixed, PcInv, StagingInv
<1>2. next \in Nat /\ next > pos /\ pos \in block
  BY <1>1, SizeAssumption, EraseSizeFits
<1> HIDE DEF block, next
<1>3. CASE /\ download' = Cleared(download, block) /\ UNCHANGED ram
           /\ IF next < package_size THEN Goto("begin_erase", next) ELSE Release
  <2>1. download' \in Slots /\ Unmixed(download')
    BY <1>1, <1>3, ClearedWorn, WornUnmixed
  <2>2. download'[0] = Erased
    <3>1. 0 \in 0..SlotBlocks
      BY SizeAssumption
    <3>2. download'[0] = IF 0 \in block THEN Erased ELSE download[0]
      BY <1>1, <1>3, <3>1, ClearedWorn
    <3> QED
      BY <1>1, <1>2, <3>2
  <2>3. \/ pc' = "begin_erase" /\ pos' = next /\ pos' < package_size /\ pos' > 0
        \/ pc' = "free" /\ pos' = 0
    BY <1>1, <1>2, <1>3 DEF Goto, Release
  <2>4. pos' \in 0..SlotBlocks /\ pc' \in Steps
    BY <1>1, <1>2, <2>3, SizeAssumption DEF Steps
  <2>5. TypeOK'
    BY <1>1, <1>3, <2>1, <2>4 DEF IInv, TypeOK, ram, status
  <2>6. PcInv' /\ StagingInv' /\ CommitInv' /\ ReadyInstallable'
    BY <1>1, <1>3, <2>2, <2>3 DEF Initialized, PcInv, StagingInv, CommitInv,
       ReadyInstallable, ram, status, ValidateSteps, CommitSteps
  <2> QED
    BY <1>1, <2>1, <2>5, <2>6 DEF IInv, DownloadUnmixed, UpgradeUnmixed
<1>4. CASE download' \in Cut(download, block) /\ Fail("FLASH")
  <2>1. download' \in Slots /\ Unmixed(download')
    BY <1>1, <1>4, CutWorn, WornUnmixed
  <2> QED
    BY <1>1, <1>4, <2>1, FailStep DEF IInv, Errors
<1> QED
  BY <1>3, <1>4 DEF BeginErase, block, next

\* ota_write up to its flash write: the header stays in RAM.
LEMMA WriteStep == IInv /\ (\E d \in Headers \cup Blocks : ota_write(d)) => IInv'
<1> SUFFICES ASSUME IInv, NEW d \in Headers \cup Blocks, ota_write(d)
             PROVE  IInv'
  OBVIOUS
<1>1. transfer' \in Seq(Headers \cup Blocks) /\ transfer' # <<>>
  BY AppendProperties DEF IInv, TypeOK, ota_write
<1>2. header' \in Headers \cup {NoHeader}
  BY DEF IInv, TypeOK, ota_write
<1>3. TypeOK'
  <2>1. received \in 0..SlotBlocks
    BY SizeAssumption DEF IInv, TypeOK, ota_write
  <2> QED
    BY <1>1, <1>2, <2>1 DEF IInv, TypeOK, ota_write, Goto, flash, status, Steps
<1>4. DownloadUnmixed' /\ UpgradeUnmixed'
  BY DEF IInv, ota_write, flash, DownloadUnmixed, UpgradeUnmixed
<1>5. PcInv'
  BY <1>1 DEF Initialized, PcInv, ota_write, Goto, status, ValidateSteps, CommitSteps
<1>6. StagingInv' /\ CommitInv' /\ ReadyInstallable'
  BY DEF IInv, StagingInv, CommitInv, ReadyInstallable, ota_write, Goto,
     status, flash, CommitSteps
<1> QED
  BY <1>3, <1>4, <1>5, <1>6 DEF IInv

\* The flash write of ota_write, below an erased header.
LEMMA WriteBodyStep == IInv /\ WriteBody => IInv'
<1> SUFFICES ASSUME IInv, WriteBody PROVE IInv'
  OBVIOUS
<1>1. /\ download \in Slots /\ Unmixed(download) /\ download[0] = Erased
      /\ upgrade \in Slots /\ Unmixed(upgrade) /\ upgrade' = upgrade
      /\ pos \in 0..SlotBlocks /\ received < package_size
      /\ state = "RECEIVING"
  BY DEF IInv, TypeOK, WriteBody, DownloadUnmixed, UpgradeUnmixed, PcInv, StagingInv
<1>2. download' \in Slots /\ Unmixed(download') /\ download'[0] = Erased
  <2>1. CASE pos = 0
    BY <1>1, <2>1 DEF WriteBody
  <2>2. CASE pos # 0
    <3> DEFINE new == transfer[Len(transfer)]
    <3>1. new \in Headers \cup Blocks
      BY EmptySeq, ElementOfSeq, LenProperties DEF IInv, TypeOK, PcInv, WriteBody
    <3>2. new \in Cells
      BY <3>1 DEF Cells
    <3>3. PICK c \in WriteOutcomes(download[pos], new) :
                 download' = [download EXCEPT ![pos] = c]
      BY <2>2 DEF WriteBody, WriteDownload
    <3>4. pos \in 1..SlotBlocks
      BY <1>1, <2>2
    <3> HIDE DEF new
    <3> QED
      BY <1>1, <3>2, <3>3, <3>4, BodyWriteUnmixed
  <2> QED
    BY <2>1, <2>2
<1>3. CASE /\ received' = received + 1 /\ Release
           /\ UNCHANGED <<state, last_error, package_size, transfer,
                          expected_crc, header, reset_due>>
  <2>1. TypeOK'
    BY <1>1, <1>2, <1>3, SizeAssumption DEF IInv, TypeOK, Release, Steps
  <2>2. PcInv' /\ StagingInv' /\ CommitInv' /\ ReadyInstallable'
    BY <1>1, <1>2, <1>3 DEF Initialized, PcInv, StagingInv, CommitInv, ReadyInstallable,
       Release, ValidateSteps, CommitSteps
  <2> QED
    BY <1>1, <1>2, <2>1, <2>2 DEF IInv, DownloadUnmixed, UpgradeUnmixed
<1>4. CASE Fail("FLASH")
  BY <1>1, <1>2, <1>4, FailStep DEF IInv, Errors
<1> QED
  BY <1>3, <1>4 DEF WriteBody

\* The checks of ota_finish on length, CRC32 and header.
LEMMA FinishStep == IInv /\ ota_finish => IInv'
<1> SUFFICES ASSUME IInv, ota_finish PROVE IInv'
  OBVIOUS
<1>1. /\ download \in Slots /\ Unmixed(download) /\ download' = download
      /\ upgrade \in Slots /\ Unmixed(upgrade) /\ upgrade' = upgrade
      /\ download[0] = Erased
  BY DEF IInv, TypeOK, ota_finish, flash, DownloadUnmixed, UpgradeUnmixed, StagingInv
<1>2. CASE FinishChecks # "OK" /\ Fail(FinishChecks)
  <2>1. FinishChecks \in Errors
    BY DEF FinishChecks, Errors
  <2> QED
    BY <1>1, <1>2, <2>1, FailStep DEF IInv
<1>3. CASE /\ FinishChecks = "OK" /\ state' = "VALIDATING"
           /\ Goto("validate_download", 0)
           /\ UNCHANGED <<last_error, package_size, received, transfer,
                          expected_crc, header, reset_due>>
  <2>1. TypeOK'
    BY <1>1, <1>3, SizeAssumption DEF IInv, TypeOK, Goto, States, Steps
  <2>2. header_validate(header)
    BY <1>3 DEF FinishChecks
  <2>3. PcInv'
    BY <1>3, <2>2 DEF Initialized, PcInv, Goto, ValidateSteps, CommitSteps
  <2>4. StagingInv' /\ CommitInv' /\ ReadyInstallable'
    BY <1>1, <1>3 DEF StagingInv, CommitInv, ReadyInstallable, Goto, CommitSteps
  <2> QED
    BY <1>1, <2>1, <2>3, <2>4 DEF IInv, DownloadUnmixed, UpgradeUnmixed
<1> QED
  BY <1>2, <1>3 DEF ota_finish

\* What a validation that reports success has established.
LEMMA ValidateOK ==
    ASSUME NEW slot, NEW h, "OK" \in partition_payload_validate(slot, h)
    PROVE  Payload(slot, h) = h.image_sha256 /\ ota_signature_verify(h)
BY DEF partition_payload_validate

\* A payload validation reports an error of ota.h.
LEMMA ValidateErrors ==
    ASSUME NEW slot, NEW h, NEW r \in partition_payload_validate(slot, h)
    PROVE  r \in Errors
BY DEF partition_payload_validate, Errors

\* A slot validation reports an error of ota.h, and OK only for a complete
\* slot.
LEMMA SlotErrors ==
    ASSUME NEW slot, NEW h, NEW r \in slot_validate(slot, h)
    PROVE  /\ r \in Errors
           /\ r = "OK" => /\ slot[0] = h
                          /\ Payload(slot, h) = h.image_sha256
                          /\ ota_signature_verify(h)
<1>1. r \in {"FLASH", "HEADER"} \/
      (r \in partition_payload_validate(slot, h) /\ slot[0] = h)
  BY DEF slot_validate
<1> QED
  BY <1>1, ValidateOK, ValidateErrors DEF Errors

\* The validation of the staged payload in ota_finish.
LEMMA ValidateDownloadStep == IInv /\ ValidateDownload => IInv'
<1> SUFFICES ASSUME IInv, ValidateDownload PROVE IInv'
  OBVIOUS
<1>1. /\ download \in Slots /\ Unmixed(download) /\ download' = download
      /\ upgrade \in Slots /\ Unmixed(upgrade) /\ upgrade' = upgrade
      /\ download[0] = Erased /\ state = "VALIDATING"
      /\ header_validate(header)
  BY DEF IInv, TypeOK, ValidateDownload, flash, DownloadUnmixed, UpgradeUnmixed,
     StagingInv, PcInv, ValidateSteps
<1>2. PICK r \in partition_payload_validate(download, header) :
             \/ r = "OK" /\ Goto("write_download_header", 0) /\ UNCHANGED ram
             \/ r # "OK" /\ Fail(r)
  BY DEF ValidateDownload
<1>3. CASE r # "OK"
  BY <1>1, <1>2, <1>3, ValidateErrors, FailStep DEF IInv
<1>4. CASE r = "OK"
  <2>1. Matches(download)
    BY <1>4, ValidateOK DEF Matches
  <2>2. pc' = "write_download_header" /\ pos' = 0 /\ UNCHANGED ram
    BY <1>2, <1>4 DEF Goto
  <2>3. TypeOK'
    BY <1>1, <2>2, SizeAssumption DEF IInv, TypeOK, ram, status, Steps
  <2>4. PcInv'
    BY <1>1, <2>2 DEF Initialized, PcInv, ram, status, ValidateSteps, CommitSteps
  <2>5. StagingInv' /\ CommitInv' /\ ReadyInstallable'
    BY <1>1, <2>1, <2>2 DEF StagingInv, CommitInv, ReadyInstallable, Matches,
       ram, status, CommitSteps
  <2> QED
    BY <1>1, <2>3, <2>4, <2>5 DEF IInv, DownloadUnmixed, UpgradeUnmixed
<1> QED
  BY <1>3, <1>4

\* The header write of ota_finish, over the validated payload.
LEMMA WriteDownloadHeaderStep == IInv /\ WriteDownloadHeader => IInv'
<1> SUFFICES ASSUME IInv, WriteDownloadHeader PROVE IInv'
  OBVIOUS
<1>1. /\ download \in Slots /\ download[0] = Erased
      /\ upgrade \in Slots /\ Unmixed(upgrade) /\ upgrade' = upgrade
      /\ state = "VALIDATING" /\ header_validate(header)
      /\ Payload(download, header) = header.image_sha256
      /\ ota_signature_verify(header)
  BY DEF IInv, TypeOK, WriteDownloadHeader, UpgradeUnmixed, StagingInv, PcInv,
     ValidateSteps, Matches
<1>2. PICK c \in WriteOutcomes(download[0], header) :
             download' = [download EXCEPT ![0] = c]
  BY DEF WriteDownloadHeader, WriteDownload
<1>3. /\ download' \in Slots /\ Unmixed(download')
      /\ download'[0] \in {Erased, Torn, header}
      /\ Payload(download', header) = header.image_sha256
  BY <1>1, <1>2, HeaderWriteUnmixed
<1>4. CASE Fail("FLASH")
  BY <1>1, <1>3, <1>4, FailStep DEF IInv, Errors
<1>5. CASE Goto("check_download", 0) /\ UNCHANGED ram
  <2>1. pc' = "check_download" /\ pos' = 0 /\ UNCHANGED ram
    BY <1>5 DEF Goto
  <2>2. TypeOK'
    BY <1>1, <1>3, <2>1, SizeAssumption DEF IInv, TypeOK, ram, status, Steps
  <2>3. PcInv'
    BY <1>1, <2>1 DEF Initialized, PcInv, ram, status, ValidateSteps, CommitSteps
  <2>4. StagingInv' /\ CommitInv' /\ ReadyInstallable'
    BY <1>1, <1>3, <2>1 DEF StagingInv, CommitInv, ReadyInstallable, Matches,
       ram, status, CommitSteps
  <2> QED
    BY <1>1, <1>3, <2>2, <2>3, <2>4 DEF IInv, DownloadUnmixed, UpgradeUnmixed
<1> QED
  BY <1>4, <1>5 DEF WriteDownloadHeader

\* The read-back of the staging slot in ota_finish.
LEMMA CheckDownloadStep == IInv /\ CheckDownload => IInv'
<1> SUFFICES ASSUME IInv, CheckDownload PROVE IInv'
  OBVIOUS
<1>1. /\ download \in Slots /\ Unmixed(download) /\ download' = download
      /\ upgrade \in Slots /\ Unmixed(upgrade) /\ upgrade' = upgrade
      /\ header_validate(header)
  BY DEF IInv, TypeOK, CheckDownload, flash, DownloadUnmixed, UpgradeUnmixed,
     PcInv, ValidateSteps
<1>2. PICK r \in slot_validate(download, header) :
             \/ /\ r = "OK" /\ state' = "COMMITTING"
                /\ Goto("erase_upgrade", 0)
                /\ UNCHANGED <<last_error, package_size, received, transfer,
                               expected_crc, header, reset_due>>
             \/ r # "OK" /\ Fail(r)
  BY DEF CheckDownload
<1>3. r \in Errors /\ (r = "OK" => download[0] = header /\ Matches(download))
  BY SlotErrors DEF Matches
<1>4. CASE r # "OK"
  BY <1>1, <1>2, <1>3, <1>4, FailStep DEF IInv
<1>5. CASE r = "OK"
  <2>1. /\ pc' = "erase_upgrade" /\ pos' = 0 /\ state' = "COMMITTING"
        /\ UNCHANGED <<last_error, package_size, received, transfer,
                       expected_crc, header, reset_due>>
    BY <1>2, <1>5 DEF Goto
  <2>2. TypeOK'
    BY <1>1, <2>1, SizeAssumption DEF IInv, TypeOK, States, Steps
  <2>3. PcInv'
    BY <1>1, <2>1 DEF Initialized, PcInv, ValidateSteps, CommitSteps
  <2>4. header.image_size \in Nat
    BY <1>1, HeaderAssumption DEF header_validate
  <2>5. StagingInv' /\ CommitInv' /\ ReadyInstallable'
    BY <1>1, <1>3, <1>5, <2>1, <2>4 DEF StagingInv, CommitInv,
       ReadyInstallable, Matches, CommitSteps
  <2> QED
    BY <1>1, <2>2, <2>3, <2>5 DEF IInv, DownloadUnmixed, UpgradeUnmixed
<1> QED
  BY <1>4, <1>5

\* During commit_to_upgrade the staging slot and the header do not change.
LEMMA CommitFacts ==
    ASSUME IInv, pc \in CommitSteps
    PROVE  /\ download \in Slots /\ Unmixed(download)
           /\ upgrade \in Slots /\ Unmixed(upgrade)
           /\ state = "COMMITTING"
           /\ download[0] = header /\ Matches(download)
           /\ header_validate(header)
           /\ header.image_size \in 1..SlotBlocks
           /\ pos \in 0..SlotBlocks
BY DEF IInv, TypeOK, DownloadUnmixed, UpgradeUnmixed, PcInv, StagingInv,
   header_validate

\* A step inside commit_to_upgrade that moves on to another such step.
LEMMA CommitMove ==
    ASSUME IInv, pc \in CommitSteps, pc' \in CommitSteps, UNCHANGED ram,
           UNCHANGED download, upgrade' \in Slots, Unmixed(upgrade'),
           pos' \in 0..SlotBlocks, pc' = "write_upgrade_header" => pos' = 0,
           CommitInv'
    PROVE  IInv'
<1> USE CommitFacts
<1>1. TypeOK'
  BY DEF IInv, TypeOK, ram, status, Steps, CommitSteps
<1>2. DownloadUnmixed' /\ UpgradeUnmixed'
  BY DEF DownloadUnmixed, UpgradeUnmixed
<1>3. PcInv' /\ ReadyInstallable'
  BY DEF Initialized, PcInv, ReadyInstallable, ram, status, ValidateSteps, CommitSteps
<1>4. StagingInv'
  BY DEF StagingInv, Matches, ram, status, CommitSteps
<1> QED
  BY <1>1, <1>2, <1>3, <1>4 DEF IInv

\* One erase command of commit_to_upgrade.  The first one takes the header
\* away, or fails and ends the call.
LEMMA CommitEraseStep == IInv /\ CommitErase => IInv'
<1> SUFFICES ASSUME IInv, CommitErase PROVE IInv'
  OBVIOUS
<1> DEFINE size  == header.image_size
           block == EraseBlock(pos, size + 1)
           next  == pos + EraseSize(pos, size + 1)
<1>0. pc \in CommitSteps
  BY DEF CommitErase, CommitSteps
<1>1. /\ pos <= size /\ (pos > 0 => upgrade[0] = Erased)
      /\ download' = download
  BY DEF IInv, CommitInv, CommitErase
<1>2. /\ upgrade \in Slots /\ Unmixed(upgrade)
      /\ pos \in Nat /\ size \in 1..SlotBlocks
  BY <1>0, CommitFacts, SizeAssumption
<1>3. next \in Nat /\ next > pos /\ pos \in block
  BY <1>1, <1>2, SizeAssumption, EraseSizeFits
<1> HIDE DEF block, next
<1>4. CASE /\ upgrade' = Cleared(upgrade, block) /\ UNCHANGED ram
           /\ IF next <= size THEN Goto("erase_upgrade", next)
              ELSE Goto("copy", 1)
  <2>1. upgrade' \in Slots /\ Unmixed(upgrade')
    BY <1>2, <1>4, ClearedWorn, WornUnmixed
  <2>2. upgrade'[0] = Erased
    <3>1. 0 \in 0..SlotBlocks
      BY SizeAssumption
    <3>2. upgrade'[0] = IF 0 \in block THEN Erased ELSE upgrade[0]
      BY <1>2, <1>4, <3>1, ClearedWorn
    <3> QED
      BY <1>1, <1>2, <1>3, <3>2
  <2>3. \/ pc' = "erase_upgrade" /\ pos' = next /\ pos' <= size
        \/ pc' = "copy" /\ pos' = 1
    BY <1>4 DEF Goto
  <2>4. pos' \in 0..SlotBlocks /\ pc' \in CommitSteps
    BY <1>2, <1>3, <2>3, SizeAssumption DEF CommitSteps
  <2>5. CommitInv'
    <3>1. header' = header
      BY <1>4 DEF ram
    <3> QED
      BY <1>2, <2>2, <2>3, <3>1, SizeAssumption DEF CommitInv
  <2> QED
    BY <1>0, <1>1, <1>4, <2>1, <2>3, <2>4, <2>5, CommitMove
<1>5. CASE upgrade' \in Cut(upgrade, block) /\ Fail("FLASH")
  <2>1. upgrade' \in Slots /\ Unmixed(upgrade')
    BY <1>2, <1>5, CutWorn, WornUnmixed
  <2> QED
    BY <1>0, <1>1, <1>5, <2>1, CommitFacts, FailStep DEF IInv, Errors
<1> QED
  BY <1>4, <1>5 DEF CommitErase, block, next

\* The copy loop of commit_to_upgrade, below an erased header.
LEMMA CommitCopyStep == IInv /\ CommitCopy => IInv'
<1> SUFFICES ASSUME IInv, CommitCopy PROVE IInv'
  OBVIOUS
<1>0. pc \in CommitSteps
  BY DEF CommitCopy, CommitSteps
<1>1. /\ pos \in 1..header.image_size /\ upgrade[0] = Erased
      /\ download' = download
  BY DEF IInv, CommitInv, CommitCopy
<1>2. pos \in 1..SlotBlocks /\ download[pos] \in Cells
  BY <1>0, <1>1, CommitFacts, SizeAssumption DEF Slots
<1>3. CASE UNCHANGED upgrade /\ Fail("FLASH")
  BY <1>0, <1>1, <1>3, CommitFacts, FailStep DEF IInv, Errors
<1>4. ASSUME WriteUpgrade(pos, download[pos])
      PROVE  upgrade' \in Slots /\ Unmixed(upgrade') /\ upgrade'[0] = Erased
  <2>1. PICK c \in WriteOutcomes(upgrade[pos], download[pos]) :
               upgrade' = [upgrade EXCEPT ![pos] = c]
    BY <1>4 DEF WriteUpgrade
  <2> QED
    BY <1>0, <1>1, <1>2, <2>1, CommitFacts, BodyWriteUnmixed
<1>5. CASE WriteUpgrade(pos, download[pos]) /\ Fail("FLASH")
  BY <1>0, <1>1, <1>4, <1>5, CommitFacts, FailStep DEF IInv, Errors
<1>6. CASE /\ WriteUpgrade(pos, download[pos]) /\ UNCHANGED ram
           /\ IF pos < header.image_size THEN Goto("copy", pos + 1)
              ELSE Goto("validate_upgrade", 0)
  <2>1. \/ pc' = "copy" /\ pos' = pos + 1 /\ pos < header.image_size
        \/ pc' = "validate_upgrade" /\ pos' = 0
    BY <1>6 DEF Goto
  <2>2. pos' \in 0..SlotBlocks /\ pc' \in CommitSteps
    BY <1>0, <1>1, <2>1, CommitFacts, SizeAssumption DEF CommitSteps
  <2>3. CommitInv'
    <3>1. header' = header
      BY <1>6 DEF ram
    <3> QED
      BY <1>0, <1>1, <1>4, <1>6, <2>1, <3>1, CommitFacts DEF CommitInv
  <2> QED
    BY <1>0, <1>1, <1>4, <1>6, <2>1, <2>2, <2>3, CommitMove
<1> QED
  BY <1>3, <1>5, <1>6 DEF CommitCopy

\* The validation of the copied payload.
LEMMA CommitValidateStep == IInv /\ CommitValidate => IInv'
<1> SUFFICES ASSUME IInv, CommitValidate PROVE IInv'
  OBVIOUS
<1>0. pc \in CommitSteps
  BY DEF CommitValidate, CommitSteps
<1>1. upgrade[0] = Erased /\ download' = download /\ upgrade' = upgrade
  BY DEF IInv, CommitInv, CommitValidate, flash
<1>2. PICK r \in partition_payload_validate(upgrade, header) :
             \/ r = "OK" /\ Goto("write_upgrade_header", 0) /\ UNCHANGED ram
             \/ r # "OK" /\ Fail(r)
  BY DEF CommitValidate
<1>3. CASE r # "OK"
  BY <1>0, <1>1, <1>2, <1>3, CommitFacts, ValidateErrors, FailStep DEF IInv
<1>4. CASE r = "OK"
  <2>1. Matches(upgrade)
    BY <1>4, ValidateOK DEF Matches
  <2>2. pc' = "write_upgrade_header" /\ pos' = 0 /\ UNCHANGED ram
    BY <1>2, <1>4 DEF Goto
  <2>3. CommitInv'
    BY <1>1, <2>1, <2>2 DEF CommitInv, Matches, ram
  <2>4. pos' \in 0..SlotBlocks /\ pc' \in CommitSteps
    BY <2>2, SizeAssumption DEF CommitSteps
  <2> QED
    BY <1>0, <1>1, <2>2, <2>3, <2>4, CommitFacts, CommitMove
<1> QED
  BY <1>3, <1>4

\* The header write of commit_to_upgrade, its last flash write.
LEMMA CommitHeaderStep == IInv /\ CommitHeader => IInv'
<1> SUFFICES ASSUME IInv, CommitHeader PROVE IInv'
  OBVIOUS
<1>0. pc \in CommitSteps
  BY DEF CommitHeader, CommitSteps
<1>1. /\ upgrade[0] = Erased /\ download' = download
      /\ Payload(upgrade, header) = header.image_sha256
      /\ ota_signature_verify(header)
  BY DEF IInv, CommitInv, CommitHeader, Matches
<1>2. PICK c \in WriteOutcomes(upgrade[0], header) :
             upgrade' = [upgrade EXCEPT ![0] = c]
  BY DEF CommitHeader, WriteUpgrade
<1>3. /\ upgrade' \in Slots /\ Unmixed(upgrade')
      /\ upgrade'[0] \in {Erased, Torn, header}
      /\ Payload(upgrade', header) = header.image_sha256
  BY <1>0, <1>1, <1>2, CommitFacts, HeaderWriteUnmixed
<1>4. CASE Fail("FLASH")
  BY <1>0, <1>1, <1>3, <1>4, CommitFacts, FailStep DEF IInv, Errors
<1>5. CASE Goto("check_upgrade", 0) /\ UNCHANGED ram
  <2>1. pc' = "check_upgrade" /\ pos' = 0 /\ header' = header
    BY <1>5 DEF Goto, ram
  <2>2. CommitInv'
    BY <1>1, <1>3, <2>1 DEF CommitInv, Matches
  <2>3. pos' \in 0..SlotBlocks /\ pc' \in CommitSteps
    BY <2>1, SizeAssumption DEF CommitSteps
  <2> QED
    BY <1>0, <1>1, <1>3, <1>5, <2>1, <2>2, <2>3, CommitMove
<1> QED
  BY <1>4, <1>5 DEF CommitHeader

\* The final slot validation, after which the state is READY.
LEMMA CommitCheckStep == IInv /\ CommitCheck => IInv'
<1> SUFFICES ASSUME IInv, CommitCheck PROVE IInv'
  OBVIOUS
<1>0. pc \in CommitSteps /\ download' = download /\ upgrade' = upgrade
  BY DEF CommitCheck, CommitSteps, flash
<1>2. PICK r \in slot_validate(upgrade, header) :
             \/ /\ r = "OK" /\ state' = "READY" /\ last_error' = "OK"
                /\ Release
                /\ UNCHANGED <<package_size, received, transfer,
                               expected_crc, header, reset_due>>
             \/ r # "OK" /\ Fail(r)
  BY DEF CommitCheck
<1>3. r \in Errors /\ (r = "OK" => upgrade[0] = header /\ Matches(upgrade))
  BY SlotErrors DEF Matches
<1>4. CASE r # "OK"
  BY <1>0, <1>2, <1>3, <1>4, CommitFacts, FailStep DEF IInv
<1>5. CASE r = "OK"
  <2>1. /\ pc' = "free" /\ pos' = 0 /\ state' = "READY" /\ last_error' = "OK"
        /\ UNCHANGED <<package_size, received, transfer, expected_crc,
                       header, reset_due>>
    BY <1>2, <1>5 DEF Release
  <2>2. TypeOK'
    BY <1>0, <2>1, SizeAssumption DEF IInv, TypeOK, States, Steps, Errors
  <2>3. ReadyInstallable'
    BY <1>0, <1>3, <1>5, <2>1, CommitFacts DEF ReadyInstallable, Complete,
       Matches
  <2>4. PcInv' /\ StagingInv' /\ CommitInv'
    BY <2>1 DEF Initialized, PcInv, StagingInv, CommitInv, ValidateSteps, CommitSteps
  <2> QED
    BY <1>0, <2>2, <2>3, <2>4, CommitFacts DEF IInv, DownloadUnmixed, UpgradeUnmixed
<1> QED
  BY <1>4, <1>5

\* The early returns and the first step of ota_abort.
LEMMA AbortStep == IInv /\ ota_abort => IInv'
<1> SUFFICES ASSUME IInv, ota_abort PROVE IInv'
  OBVIOUS
<1>1. /\ pc = "free" /\ pc' = "abort_erase" /\ pos' = 0
      /\ Initialized /\ UNCHANGED <<flash, ram>>
  BY DEF ota_abort, Goto
<1>2. TypeOK'
  BY <1>1, SizeAssumption DEF IInv, TypeOK, flash, ram, status, Steps
<1>3. DownloadUnmixed' /\ UpgradeUnmixed'
  BY <1>1 DEF IInv, flash, DownloadUnmixed, UpgradeUnmixed
<1>4. PcInv'
  BY <1>1 DEF IInv, Initialized, PcInv, ram, status, ValidateSteps, CommitSteps
<1>5. StagingInv' /\ CommitInv' /\ ReadyInstallable'
  BY <1>1 DEF IInv, StagingInv, CommitInv, ReadyInstallable, flash, ram,
     status, CommitSteps
<1> QED
  BY <1>2, <1>3, <1>4, <1>5 DEF IInv

\* The erase of the staging header in ota_abort.
LEMMA AbortEraseStep == IInv /\ AbortErase => IInv'
<1> SUFFICES ASSUME IInv, AbortErase PROVE IInv'
  OBVIOUS
<1>1. /\ download \in Slots /\ Unmixed(download)
      /\ upgrade \in Slots /\ Unmixed(upgrade) /\ upgrade' = upgrade
  BY DEF IInv, TypeOK, AbortErase, DownloadUnmixed, UpgradeUnmixed
<1>4. download' \in Slots /\ Unmixed(download')
  BY <1>1, CutWorn, WornUnmixed DEF AbortErase
<1>5. state' = "IDLE" /\ pc' = "free"
  BY DEF AbortErase, Release
<1>6. TypeOK'
  BY <1>1, <1>4, SizeAssumption DEF IInv, TypeOK, AbortErase, Release, States,
     Errors, Steps
<1>7. PcInv' /\ StagingInv' /\ CommitInv' /\ ReadyInstallable'
  BY <1>5 DEF Initialized, PcInv, StagingInv, CommitInv, ReadyInstallable, ValidateSteps,
     CommitSteps
<1> QED
  BY <1>1, <1>4, <1>6, <1>7 DEF IInv, DownloadUnmixed, UpgradeUnmixed

\* ota_reboot_to_install keeps the invariant: it only starts the delay.
LEMMA RebootStep == IInv /\ ota_reboot_to_install => IInv'
<1> SUFFICES ASSUME IInv, ota_reboot_to_install PROVE IInv'
  OBVIOUS
<1>1. UNCHANGED <<flash, status, transfer, header, pc, pos>>
      /\ reset_due' \in BOOLEAN
  BY DEF ota_reboot_to_install
<1>2. TypeOK'
  BY <1>1 DEF IInv, TypeOK, flash, status
<1>3. DownloadUnmixed' /\ UpgradeUnmixed'
  BY <1>1 DEF IInv, flash, DownloadUnmixed, UpgradeUnmixed
<1>4. PcInv'
  BY <1>1 DEF IInv, Initialized, PcInv, status
<1>5. StagingInv' /\ CommitInv' /\ ReadyInstallable'
  BY <1>1 DEF IInv, StagingInv, CommitInv, ReadyInstallable, Matches, flash,
     status
<1> QED
  BY <1>2, <1>3, <1>4, <1>5 DEF IInv

\* Wherever the power fails, it wears a slot, or leaves it as it is.
LEMMA InterruptedWorn ==
    ASSUME IInv, Interrupted
    PROVE  /\ download' \in Slots /\ WornFrom(download', download)
           /\ upgrade' \in Slots /\ WornFrom(upgrade', upgrade)
<1>1. download \in Slots /\ upgrade \in Slots /\ pos \in 0..SlotBlocks
  BY DEF IInv, TypeOK
<1>2. ASSUME NEW slot \in Slots PROVE WornFrom(slot, slot)
  BY DEF WornFrom
<1>3. CASE UNCHANGED flash
  BY <1>1, <1>2, <1>3 DEF flash
<1>4. CASE /\ UNCHANGED upgrade
           /\ \/ \E block : download' \in Cut(download, block)
              \/ download' = [download EXCEPT ![pos] = Torn]
  BY <1>1, <1>2, <1>4, CutWorn, TornWorn
<1>5. CASE /\ UNCHANGED download
           /\ \/ \E block : upgrade' \in Cut(upgrade, block)
              \/ upgrade' = [upgrade EXCEPT ![pos] = Torn]
  BY <1>1, <1>2, <1>5, CutWorn, TornWorn
<1> QED
  BY <1>3, <1>4, <1>5 DEF Interrupted

\* So no header comes to stand over sectors of another image.
LEMMA InterruptedUnmixed ==
    ASSUME IInv, Interrupted
    PROVE  /\ download' \in Slots /\ Unmixed(download')
           /\ upgrade' \in Slots /\ Unmixed(upgrade')
BY InterruptedWorn, WornUnmixed DEF IInv, TypeOK, DownloadUnmixed, UpgradeUnmixed

\* A power loss or the reset keeps the invariant, at any step.
LEMMA PowerLossStep == IInv /\ (PowerLoss \/ Reset) => IInv'
BY InterruptedUnmixed, ForgetStep DEF PowerLoss, Reset

\* Every step of the core, a power loss and the reset included, keeps the
\* inductive invariant.
THEOREM NextIInv == IInv /\ [Next]_vars => IInv'
<1> SUFFICES ASSUME IInv, [Next]_vars PROVE IInv'
  OBVIOUS
<1>1. CASE UNCHANGED vars
  <2>1. UNCHANGED <<flash, status, transfer, header, reset_due, pc, pos>>
    BY <1>1 DEF vars, ram
  <2>2. TypeOK'
    BY <2>1 DEF IInv, TypeOK, flash, status
  <2>3. DownloadUnmixed' /\ UpgradeUnmixed'
    BY <2>1 DEF IInv, flash, DownloadUnmixed, UpgradeUnmixed
  <2>4. PcInv'
    BY <2>1 DEF IInv, Initialized, PcInv, status
  <2>5. StagingInv' /\ CommitInv' /\ ReadyInstallable'
    BY <2>1 DEF IInv, StagingInv, CommitInv, ReadyInstallable, Matches,
       flash, status
  <2> QED
    BY <2>2, <2>3, <2>4, <2>5 DEF IInv
<1>2. CASE Next
  <2>1. CASE LockHolder
    BY <2>1, BeginEraseStep, WriteBodyStep, AbortEraseStep,
       ValidateDownloadStep, WriteDownloadHeaderStep, CheckDownloadStep,
       CommitEraseStep, CommitCopyStep, CommitValidateStep,
       CommitHeaderStep, CommitCheckStep DEF LockHolder
  <2> QED
    BY <1>2, <2>1, ServiceInitStep, BeginStep, WriteStep, FinishStep,
       AbortStep, RebootStep, PowerLossStep DEF Next
<1> QED
  BY <1>1, <1>2

\* The inductive invariant holds in every reachable state of the core.
THEOREM SpecIInv == Spec => []IInv
BY InitIInv, NextIInv, PTL DEF Spec

\* The status block, the loop counters and the flash cells keep their types:
\* in particular no loop of ota.c runs past the end of a slot.
THEOREM TypeCorrect == Spec => []TypeOK
<1>1. IInv => TypeOK
  BY DEF IInv
<1> QED
  BY <1>1, SpecIInv, PTL

\* For every slot size and every set of erasers, and at every moment at which
\* power may fail, a header in the upgrade slot stands over sectors of its own
\* verified image, or over what an erase has left of it: commit_to_upgrade
\* programs nothing under a header.
THEOREM UpgradeAlwaysUnmixed == Spec => []UpgradeUnmixed
<1>1. IInv => UpgradeUnmixed
  BY DEF IInv
<1> QED
  BY <1>1, SpecIInv, PTL

\* The same for the staging slot (ota_begin and ota_finish).
THEOREM DownloadAlwaysUnmixed == Spec => []DownloadUnmixed
<1>1. IInv => DownloadUnmixed
  BY DEF IInv
<1> QED
  BY <1>1, SpecIInv, PTL

\* READY is reported only while the image of the last transfer is complete
\* in the upgrade slot (the guard of ota_reboot_to_install).
THEOREM ReadyAlwaysInstallable == Spec => []ReadyInstallable
<1>1. IInv => ReadyInstallable
  BY DEF IInv
<1> QED
  BY <1>1, SpecIInv, PTL

\* No step outside commit_to_upgrade, and no power loss outside it, touches
\* the upgrade slot.
LEMMA UpgradeFrame ==
    ASSUME [Next]_vars, pc \notin CommitSteps
    PROVE  upgrade' = upgrade
<1>1. CASE UNCHANGED vars
  BY <1>1 DEF vars, flash
<1>2. CASE LockHolder
  BY <1>2 DEF LockHolder, BeginErase, WriteBody, AbortErase, ValidateDownload,
     WriteDownloadHeader, CheckDownload, CommitErase, CommitCopy,
     CommitValidate, CommitHeader, CommitCheck, flash, CommitSteps
<1>3. CASE PowerLoss \/ Reset
  BY <1>3 DEF PowerLoss, Reset, Interrupted, flash, CommitSteps
<1>4. CASE \/ ota_service_init \/ ota_finish \/ ota_abort
           \/ ota_reboot_to_install
           \/ \E p \in Packages : ota_begin(p)
           \/ \E d \in Headers \cup Blocks : ota_write(d)
  BY <1>4 DEF ota_service_init, ota_finish, ota_abort, ota_reboot_to_install,
     ota_begin, ota_write, flash
<1> QED
  BY <1>1, <1>2, <1>3, <1>4 DEF Next

\* The upgrade slot changes only while the staging slot holds the complete
\* verified image that replaces it.
THEOREM UpgradeReplaced == Spec => UpgradeReplacedByVerified
<1>1. ASSUME IInv, [Next]_vars, upgrade' # upgrade
      PROVE  download[0] = header /\ Complete(download)
  <2>1. pc \in CommitSteps
    BY <1>1, UpgradeFrame
  <2> QED
    BY <1>1, <2>1, CommitFacts DEF Complete, Matches
<1>2. IInv /\ [Next]_vars =>
        [upgrade' # upgrade => download[0] = header /\ Complete(download)]_upgrade
  BY <1>1
<1> QED
  BY <1>2, SpecIInv, PTL DEF Spec, UpgradeReplacedByVerified
-----------------------------------------------------------------------------
(***************************************************************************)
(* The core implements OtaService.                                         *)
(***************************************************************************)
LEMMA ImageKept == upgrade' = upgrade => ImageBar' = ImageBar
BY DEF ImageBar

\* A slot without a header holds no image.
LEMMA ImageNone == upgrade[0] \in {Erased, Torn} => ImageBar = Erased
BY CellAssumption DEF ImageBar, Complete, header_validate

\* The same after a step.
LEMMA ImageNonePrimed == upgrade'[0] \in {Erased, Torn} => ImageBar' = Erased
BY CellAssumption DEF ImageBar, Complete, header_validate

\* A complete slot holds a verified image.
LEMMA ImageVerifiedPrimed ==
    ASSUME Complete(upgrade')
    PROVE  ImageBar' \in VerifiedImages
<1>1. ImageBar' = [hdr |-> upgrade'[0], payload |-> Payload(upgrade', upgrade'[0])]
  BY DEF ImageBar
<1>2. /\ Payload(upgrade', upgrade'[0]) = upgrade'[0].image_sha256
      /\ header_validate(upgrade'[0]) /\ ota_signature_verify(upgrade'[0])
  BY DEF Complete
<1>3. upgrade'[0] \in Headers /\ Payload(upgrade', upgrade'[0]) \in Seq(Blocks)
  BY <1>2, HeaderAssumption DEF header_validate
<1> QED
  BY <1>1, <1>2, <1>3 DEF VerifiedImages

\* Torn and erased sectors are in no digest, so a slot that is complete after
\* wearing was complete before, with the same image.
LEMMA WornComplete ==
    ASSUME NEW new, NEW slot, WornFrom(new, slot), Complete(new)
    PROVE  /\ Complete(slot) /\ slot[0] = new[0]
           /\ Payload(slot, slot[0]) = Payload(new, new[0])
<1> DEFINE h == new[0]
           n == h.image_size
<1>1. /\ h \in Headers /\ n \in 1..SlotBlocks
      /\ Payload(new, h) = h.image_sha256
      /\ header_validate(h) /\ ota_signature_verify(h)
  BY DEF Complete, header_validate
<1>2. slot[0] = h
  BY <1>1, SizeAssumption, CellAssumption DEF WornFrom
<1>3. ASSUME NEW i \in 1..n PROVE slot[i] = new[i]
  <2>1. h.image_sha256 \in Seq(Blocks)
    BY <1>1, HeaderAssumption
  <2>2. DOMAIN h.image_sha256 = 1..n /\ h.image_sha256[i] = new[i]
    BY <1>1 DEF Payload
  <2>3. n \in Nat
    BY <1>1, SizeAssumption
  <2>4. Len(h.image_sha256) = n
    BY <2>1, <2>2, <2>3, LenProperties
  <2>5. new[i] \in Blocks
    BY <2>1, <2>2, <2>4, ElementOfSeq
  <2>6. i \in 0..SlotBlocks
    BY <1>1, SizeAssumption
  <2> QED
    BY <2>5, <2>6, CellAssumption DEF WornFrom
<1>4. Payload(slot, h) = Payload(new, h)
  BY <1>3 DEF Payload
<1> QED
  BY <1>1, <1>2, <1>4 DEF Complete

\* Wearing the upgrade slot leaves its image, or none.
LEMMA WornImage ==
    ASSUME WornFrom(upgrade', upgrade)
    PROVE  ImageBar' = ImageBar \/ ImageBar' = Erased
<1>1. CASE Complete(upgrade')
  BY <1>1, WornComplete DEF ImageBar
<1>2. CASE ~Complete(upgrade')
  BY <1>2 DEF ImageBar
<1> QED
  BY <1>1, <1>2

\* The phase that goes with each state of the core.
LEMMA PhaseOf ==
    /\ state = "UNINITIALIZED" => PhaseBar = "off"
    /\ state = "IDLE" => PhaseBar = "idle"
    /\ state = "RECEIVING" => PhaseBar = "receiving"
    /\ state = "VALIDATING" => PhaseBar = "validating"
    /\ state = "COMMITTING" => PhaseBar \in {"committing", "published"}
    /\ state = "COMMITTING" /\ pc # "check_upgrade" => PhaseBar = "committing"
    /\ state = "COMMITTING" /\ pc = "check_upgrade" =>
          PhaseBar = IF upgrade[0] \in Headers THEN "published" ELSE "committing"
    /\ state = "READY" => PhaseBar = "ready"
    /\ state = "ERROR" => PhaseBar = "error"
BY DEF PhaseBar

\* The same after a step.
LEMMA PhaseOfPrimed ==
    /\ state' = "UNINITIALIZED" => PhaseBar' = "off"
    /\ state' = "IDLE" => PhaseBar' = "idle"
    /\ state' = "RECEIVING" => PhaseBar' = "receiving"
    /\ state' = "VALIDATING" => PhaseBar' = "validating"
    /\ state' = "COMMITTING" /\ pc' # "check_upgrade" => PhaseBar' = "committing"
    /\ state' = "COMMITTING" /\ pc' = "check_upgrade" =>
          PhaseBar' = IF upgrade'[0] \in Headers THEN "published" ELSE "committing"
    /\ state' = "READY" => PhaseBar' = "ready"
    /\ state' = "ERROR" => PhaseBar' = "error"
BY DEF PhaseBar

\* A step of the core during a transfer or its validation is a step of the
\* service that leaves the image alone.
LEMMA StagingRefines ==
    ASSUME IInv, Next, pc \notin CommitSteps
    PROVE  [Service!SNext]_(Service!svars)
<1> DEFINE Goal == [Service!SNext]_(Service!svars)
<1>0. upgrade' = upgrade /\ ImageBar' = ImageBar
  BY UpgradeFrame, ImageKept
<1>1. state \in States /\ (state = "COMMITTING" <=> pc \in CommitSteps)
      /\ (state = "VALIDATING" <=> pc \in ValidateSteps)
  BY DEF IInv, TypeOK, PcInv
<1>2. state \in {"UNINITIALIZED", "IDLE", "RECEIVING", "VALIDATING", "READY",
                 "ERROR"}
  BY <1>1 DEF States
<1>3. ASSUME state' = state PROVE Goal
  BY <1>0, <1>2, <1>3, PhaseOf, PhaseOfPrimed DEF Service!svars
<1>4. ASSUME state' = "ERROR", state \in {"RECEIVING", "VALIDATING"} PROVE Goal
  BY <1>0, <1>4, PhaseOf, PhaseOfPrimed DEF Service!SNext, Service!Reject
<1>5. CASE ota_service_init
  BY <1>0, <1>5, PhaseOf, PhaseOfPrimed DEF ota_service_init, Initialized,
     Service!SNext, Service!Start
<1>6. CASE \E p \in Packages : ota_begin(p)
  <2>1. state' = "RECEIVING" /\ state \in {"UNINITIALIZED", "IDLE", "READY", "ERROR"}
    BY <1>2, <1>6 DEF ota_begin, Busy
  <2> QED
    BY <1>0, <2>1, PhaseOf, PhaseOfPrimed DEF Service!SNext, Service!Begin
<1>7. CASE (\E d \in Headers \cup Blocks : ota_write(d)) \/ ota_abort
           \/ ota_reboot_to_install
  BY <1>3, <1>7 DEF ota_write, ota_abort, ota_reboot_to_install, ram, status
<1>8. CASE ota_finish
  <2>1. CASE state' = "VALIDATING"
    BY <1>0, <1>8, <2>1, PhaseOf, PhaseOfPrimed DEF ota_finish, Service!SNext,
       Service!Finish
  <2> QED
    BY <1>4, <1>8, <2>1 DEF ota_finish, Fail, set_error
<1>9. CASE BeginErase \/ WriteBody
  <2>1. state = "RECEIVING"
    BY <1>9 DEF IInv, PcInv, BeginErase, WriteBody
  <2>2. state' = state \/ state' = "ERROR"
    BY <1>9 DEF BeginErase, WriteBody, Fail, set_error, ram, status
  <2> QED
    BY <1>3, <1>4, <2>1, <2>2
<1>10. CASE AbortErase
  <2>1. state \in {"IDLE", "RECEIVING", "READY", "ERROR"} /\ state' = "IDLE"
    BY <1>1, <1>2, <1>10 DEF IInv, PcInv, Initialized, AbortErase, ValidateSteps
  <2> QED
    BY <1>0, <2>1, PhaseOf, PhaseOfPrimed DEF Service!SNext, Service!Abort
<1>11. CASE ValidateDownload \/ WriteDownloadHeader
  <2>1. state = "VALIDATING"
    BY <1>1, <1>11 DEF ValidateSteps, ValidateDownload, WriteDownloadHeader
  <2>2. state' = state \/ state' = "ERROR"
    BY <1>11 DEF ValidateDownload, WriteDownloadHeader, Fail, set_error, ram, status
  <2> QED
    BY <1>3, <1>4, <2>1, <2>2
<1>12. CASE CheckDownload
  <2>1. state = "VALIDATING"
    BY <1>1, <1>12 DEF ValidateSteps, CheckDownload
  <2>2. \/ state' = "COMMITTING" /\ pc' = "erase_upgrade"
        \/ state' = "ERROR"
    BY <1>12 DEF CheckDownload, Goto, Fail, set_error
  <2>3. CASE state' = "COMMITTING" /\ pc' = "erase_upgrade"
    BY <1>0, <2>1, <2>3, PhaseOf, PhaseOfPrimed DEF Service!SNext,
       Service!Accept
  <2> QED
    BY <1>4, <2>1, <2>2, <2>3
<1>13. CASE PowerLoss \/ Reset
  <2>1. state' = "UNINITIALIZED"
    BY <1>13 DEF PowerLoss, Reset, ForgetRam
  <2> QED
    BY <1>0, <2>1, PhaseOfPrimed DEF Service!SNext, Service!Off
<1>14. ~(CommitErase \/ CommitCopy \/ CommitValidate \/ CommitHeader \/ CommitCheck)
  BY DEF CommitErase, CommitCopy, CommitValidate, CommitHeader, CommitCheck,
     CommitSteps
<1> QED
  BY <1>5, <1>6, <1>7, <1>8, <1>9, <1>10, <1>11, <1>12, <1>13, <1>14
     DEF Next, LockHolder

\* A step of commit_to_upgrade empties the slot, fills it, or leaves it.
LEMMA CommitRefines ==
    ASSUME IInv, IInv', Next, pc \in CommitSteps
    PROVE  [Service!SNext]_(Service!svars)
<1> DEFINE Goal == [Service!SNext]_(Service!svars)
<1>0. state = "COMMITTING" /\ header_validate(header) /\ upgrade \in Slots
  BY CommitFacts
<1>1. ASSUME PhaseBar = "committing", state' = "COMMITTING",
             pc' # "check_upgrade", ImageBar' = Erased
      PROVE  Goal
  BY <1>1, PhaseOfPrimed DEF Service!SNext, Service!Invalidate
<1>2. ASSUME PhaseBar \in {"committing", "published"}, state' = "ERROR",
             \/ ImageBar' = ImageBar
             \/ PhaseBar = "committing" /\ ImageBar' = Erased
      PROVE  Goal
  BY <1>2, PhaseOfPrimed DEF Service!SNext, Service!CommitFails
<1>3. CASE CommitErase
  <2>1. PhaseBar = "committing"
    BY <1>0, <1>3, PhaseOf DEF CommitErase
  <2>2. CASE UNCHANGED ram /\ pc' \in {"erase_upgrade", "copy"} /\ pos' > 0
    <3>1. upgrade'[0] = Erased
      BY <2>2 DEF IInv, CommitInv, PcInv, CommitSteps
    <3> QED
      BY <1>0, <1>1, <2>1, <2>2, <3>1, ImageNonePrimed DEF ram, status
  <2>3. CASE \E block : upgrade' \in Cut(upgrade, block) /\ state' = "ERROR"
    <3>1. ImageBar' = ImageBar \/ ImageBar' = Erased
      BY <1>0, <2>3, CutWorn, WornImage
    <3> QED
      BY <1>2, <2>1, <2>3, <3>1
  <2>4. /\ pos \in Nat
        /\ EraseSize(pos, header.image_size + 1) \in Nat \ {0}
    <3>1. /\ pos \in 0..SlotBlocks /\ pos <= header.image_size
          /\ header.image_size \in 1..SlotBlocks
      BY <1>3, CommitFacts DEF IInv, CommitInv, CommitErase
    <3> QED
      BY <3>1, SizeAssumption, EraseSizeFits
  <2>5. CASE UNCHANGED ram /\ pc' \in {"erase_upgrade", "copy"}
             /\ pos' \in {pos + EraseSize(pos, header.image_size + 1), 1}
    BY <2>2, <2>4, <2>5
  <2> QED
    BY <1>3, <2>3, <2>5 DEF CommitErase, Goto, Fail, set_error

<1>4. CASE CommitCopy
  <2>1. PhaseBar = "committing" /\ upgrade[0] = Erased
    BY <1>0, <1>4, PhaseOf DEF CommitCopy, IInv, CommitInv
  <2>2. upgrade'[0] = Erased
    <3>1. pos \in 1..SlotBlocks /\ upgrade \in Slots
      BY <1>4, CommitFacts, SizeAssumption DEF CommitCopy, IInv, CommitInv
    <3>2. upgrade' = upgrade \/ \E c : upgrade' = [upgrade EXCEPT ![pos] = c]
      BY <1>4 DEF CommitCopy, WriteUpgrade
    <3> QED
      BY <2>1, <3>1, <3>2, CellZero
  <2>3. \/ UNCHANGED ram /\ pc' \in {"copy", "validate_upgrade"}
        \/ state' = "ERROR"
    BY <1>4 DEF CommitCopy, Goto, Fail, set_error
  <2> QED
    BY <1>0, <1>1, <1>2, <2>1, <2>2, <2>3, ImageNonePrimed DEF ram, status
<1>5. CASE CommitValidate
  <2>1. /\ PhaseBar = "committing" /\ upgrade[0] = Erased
        /\ upgrade' = upgrade
    BY <1>0, <1>5, PhaseOf DEF CommitValidate, IInv, CommitInv, flash
  <2>2. \/ UNCHANGED ram /\ pc' = "write_upgrade_header"
        \/ state' = "ERROR"
    BY <1>5 DEF CommitValidate, Goto, Fail, set_error
  <2> QED
    BY <1>0, <1>1, <1>2, <2>1, <2>2, ImageKept, ImageNonePrimed DEF ram, status
<1>6. CASE CommitHeader
  <2>1. /\ PhaseBar = "committing" /\ ImageBar = Erased
        /\ upgrade \in Slots /\ upgrade[0] = Erased
    BY <1>0, <1>6, PhaseOf, ImageNone, CommitFacts DEF CommitHeader, IInv, CommitInv
  <2>2. upgrade'[0] \in {Erased, Torn} \/ Complete(upgrade')
    <3>1. Payload(upgrade, header) = header.image_sha256
          /\ ota_signature_verify(header)
      BY <1>6 DEF CommitHeader, IInv, CommitInv, Matches
    <3>2. PICK c \in WriteOutcomes(upgrade[0], header) :
                 upgrade' = [upgrade EXCEPT ![0] = c]
      BY <1>6 DEF CommitHeader, WriteUpgrade
    <3>3. /\ upgrade'[0] \in {Erased, Torn, header}
          /\ Payload(upgrade', header) = header.image_sha256
      BY <1>0, <2>1, <3>1, <3>2, HeaderWriteUnmixed
    <3> QED
      BY <1>0, <3>1, <3>3 DEF Complete
  <2>3. \/ state' = "COMMITTING" /\ pc' = "check_upgrade"
        \/ state' = "ERROR"
    BY <1>0, <1>6 DEF CommitHeader, Goto, Fail, set_error, ram, status
  <2>4. CASE upgrade'[0] \in {Erased, Torn}
    <3>1. ImageBar' = Erased /\ upgrade'[0] \notin Headers
      BY <2>4, ImageNonePrimed, CellAssumption
    <3>2. CASE state' = "COMMITTING" /\ pc' = "check_upgrade"
      BY <2>1, <3>1, <3>2, PhaseOfPrimed DEF Service!svars
    <3> QED
      BY <1>2, <2>1, <2>3, <3>1, <3>2
  <2>5. CASE Complete(upgrade')
    <3>1. ImageBar' \in VerifiedImages
      BY <2>5, ImageVerifiedPrimed
    <3>2. CASE state' = "COMMITTING" /\ pc' = "check_upgrade"
      BY <2>1, <2>5, <3>1, <3>2, PhaseOfPrimed DEF Service!SNext, Service!Publish,
         Complete, header_validate
    <3>3. CASE state' = "ERROR"
      BY <2>1, <3>1, <3>3, PhaseOfPrimed DEF Service!SNext, Service!CommitFails
    <3> QED
      BY <2>3, <3>2, <3>3
  <2> QED
    BY <2>2, <2>4, <2>5
<1>7. CASE CommitCheck
  <2>1. PhaseBar \in {"committing", "published"} /\ upgrade' = upgrade
    BY <1>0, <1>7, PhaseOf DEF CommitCheck, flash
  <2>2. CASE state' = "ERROR"
    BY <1>2, <2>1, <2>2, ImageKept
  <2>3. CASE state' = "READY"
    <3>1. upgrade[0] = header
      BY <1>7, <2>3, SlotErrors DEF CommitCheck, Fail, set_error
    <3>2. PhaseBar = "published"
      BY <1>0, <1>7, <3>1, PhaseOf DEF CommitCheck, header_validate
    <3> QED
      BY <2>1, <2>3, <3>2, ImageKept, PhaseOfPrimed DEF Service!SNext,
         Service!Confirm
  <2> QED
    BY <1>7, <2>2, <2>3 DEF CommitCheck, Fail, set_error
<1>8. CASE PowerLoss \/ Reset
  <2>1. state' = "UNINITIALIZED" /\ PhaseBar' = "off"
    BY <1>8, PhaseOfPrimed DEF PowerLoss, Reset, ForgetRam
  <2>2. CASE upgrade' = upgrade
    BY <2>1, <2>2, ImageKept DEF Service!SNext, Service!Off
  <2>3. CASE pc # "check_upgrade"
    <3>1. PhaseBar = "committing"
      BY <1>0, <2>3, PhaseOf
    <3>2. ImageBar' = ImageBar \/ ImageBar' = Erased
      BY <1>8, InterruptedWorn, WornImage DEF PowerLoss, Reset
    <3> QED
      BY <2>1, <3>1, <3>2 DEF Service!SNext, Service!Off
  <2>4. CASE pc = "check_upgrade"
    BY <1>8, <2>2, <2>4 DEF PowerLoss, Reset, Interrupted, flash
  <2> QED
    BY <2>3, <2>4

<1>9. pc \notin {"free", "begin_erase", "write_body", "abort_erase"}
      /\ pc \notin ValidateSteps
  BY DEF CommitSteps, ValidateSteps
<1>10. ~( \/ ota_service_init \/ ota_finish \/ ota_abort
          \/ ota_reboot_to_install
          \/ \E p \in Packages : ota_begin(p)
          \/ \E d \in Headers \cup Blocks : ota_write(d)
          \/ BeginErase \/ WriteBody \/ AbortErase
          \/ ValidateDownload \/ WriteDownloadHeader \/ CheckDownload)
  BY <1>9 DEF ota_service_init, ota_finish, ota_abort, ota_reboot_to_install,
     ota_begin, ota_write, BeginErase, WriteBody, AbortErase,
     ValidateDownload, WriteDownloadHeader, CheckDownload, ValidateSteps
<1> QED
  BY <1>3, <1>4, <1>5, <1>6, <1>7, <1>8, <1>10 DEF Next, LockHolder

\* The flash-level core implements OtaService: seen through the digest check
\* of the Bootloader, the upgrade slot goes from a verified image to none and
\* from none to a verified image, and only in a commit that verified it.
THEOREM CoreImplementsService == Spec => ImplementsService
<1>1. Init => Service!SInit
  <2> SUFFICES ASSUME Init PROVE Service!SInit
    OBVIOUS
  <2>1. upgrade[0] = Erased /\ state = "UNINITIALIZED"
    BY SizeAssumption DEF Init
  <2> QED
    BY <2>1, PhaseOf, ImageNone DEF Service!SInit
<1>2. IInv /\ IInv' /\ [Next]_vars => [Service!SNext]_(Service!svars)
  <2> SUFFICES ASSUME IInv, IInv', [Next]_vars
               PROVE  [Service!SNext]_(Service!svars)
    OBVIOUS
  <2>1. CASE UNCHANGED vars
    BY <2>1 DEF vars, flash, ram, status, Service!svars, PhaseBar, ImageBar
  <2> QED
    BY <2>1, StagingRefines, CommitRefines
<1> QED
  BY <1>1, <1>2, SpecIInv, PTL DEF Spec, ImplementsService, Service!SSpec

(***************************************************************************)
(* What is committed is what was transferred.                              *)
(***************************************************************************)

\* A call that ends in ERROR, IDLE or without RAM leaves nothing to show.
LEMMA TransferOver ==
    ASSUME state' \in {"ERROR", "IDLE", "UNINITIALIZED"}, pc' = "free"
    PROVE  TransferInv'
BY DEF TransferInv, ReceivingInv, StagedInv, CommitSteps

\* Once the digest was compared, header and transfer stay as they are.
LEMMA TransferStays ==
    ASSUME TransferInv, UNCHANGED <<transfer, header>>,
           state' # "RECEIVING", pc' # "validate_download",
           pc \in {"write_download_header", "check_download"} \cup CommitSteps
           \/ state = "READY"
    PROVE  TransferInv'
BY DEF TransferInv, ReceivingInv, StagedInv

LEMMA BeginTransfer ==
    ASSUME NEW p \in Packages, ota_begin(p)
    PROVE  TransferInv'
<1>1. /\ state' = "RECEIVING" /\ pc' = "begin_erase" /\ pos' = 0
      /\ received' = 0 /\ transfer' = <<>>
  BY DEF ota_begin, Goto
<1>2. Len(transfer') = 0
  BY <1>1
<1>3. ReceivingInv'
  BY <1>1, <1>2, SizeAssumption DEF ReceivingInv
<1> QED
  BY <1>1, <1>3 DEF TransferInv, StagedInv, CommitSteps

\* The erase loop leaves erased sectors behind it; when it is over, all
\* sectors the package needs are erased.
LEMMA BeginEraseTransfer ==
    ASSUME IInv, TransferInv, BeginErase
    PROVE  TransferInv'
<1>1. /\ pc = "begin_erase" /\ state = "RECEIVING" /\ received = 0
      /\ download \in Slots /\ pos \in 0..SlotBlocks /\ pos < package_size
      /\ package_size \in 0..(SlotBlocks + 1)
      /\ Len(transfer) = 0 /\ transfer = <<>>
      /\ \A i \in 1..SlotBlocks : i < pos => download[i] = Erased
  BY EmptySeq DEF BeginErase, IInv, TypeOK, PcInv, TransferInv, ReceivingInv
<1>2. CASE Fail("FLASH")
  BY <1>2, TransferOver DEF Fail, set_error, Release
<1> DEFINE block == EraseBlock(pos, package_size)
           next  == pos + EraseSize(pos, package_size)
<1>3. next \in Nat /\ block = pos..(next - 1)
  <2>1. EraseSize(pos, package_size) \in Nat \ {0} /\ pos \in Nat
    BY <1>1, SizeAssumption, EraseSizeFits
  <2> QED
    BY <2>1 DEF EraseBlock
<1> HIDE DEF block, next
<1>4. CASE /\ download' = Cleared(download, block) /\ UNCHANGED ram
           /\ IF next < package_size THEN Goto("begin_erase", next)
              ELSE Release
  <2>1. \A i \in 0..SlotBlocks :
           download'[i] = IF i \in block THEN Erased ELSE download[i]
    BY <1>1, <1>4, ClearedWorn
  <2>2. \A i \in 1..SlotBlocks : i < next => download'[i] = Erased
    BY <1>1, <1>3, <2>1, SizeAssumption
  <2>3. UNCHANGED <<state, transfer, header, received, package_size>>
    BY <1>4 DEF ram, status
  <2>4. CASE pc' = "begin_erase" /\ pos' = next
    BY <1>1, <2>2, <2>3, <2>4 DEF TransferInv, ReceivingInv, StagedInv, CommitSteps
  <2>5. CASE pc' = "free" /\ ~(next < package_size)
    <3>1. \A i \in 1..SlotBlocks : i < package_size => download'[i] = Erased
      BY <1>1, <1>3, <2>2, <2>5, SizeAssumption
    <3>2. \A i \in 1..SlotBlocks : ~(i < received')
      BY <1>1, <2>3
    <3> QED
      BY <1>1, <2>3, <2>5, <3>1, <3>2
      DEF TransferInv, ReceivingInv, StagedInv, CommitSteps
  <2> QED
    BY <1>4, <2>4, <2>5 DEF Goto, Release
<1> QED
  BY <1>2, <1>4 DEF BeginErase, block, next

LEMMA WriteTransfer ==
    ASSUME IInv, TransferInv, NEW d \in Headers \cup Blocks, ota_write(d)
    PROVE  TransferInv'
<1>1. /\ state = "RECEIVING" /\ state' = "RECEIVING" /\ pc = "free"
      /\ pc' = "write_body" /\ UNCHANGED <<download, received, package_size>>
      /\ transfer \in Seq(Headers \cup Blocks) /\ received \in 0..package_size
      /\ package_size \in 0..(SlotBlocks + 1)
      /\ Len(transfer) = received /\ transfer' = Append(transfer, d)
      /\ header' = IF received = 0 THEN d ELSE header
  BY DEF ota_write, Goto, flash, status, IInv, TypeOK, TransferInv, ReceivingInv
<1>2. /\ Len(transfer') = received + 1 /\ transfer'[received + 1] = d
      /\ \A i \in 1..received : transfer'[i] = transfer[i]
  BY <1>1, AppendProperties
<1>3. header' = transfer'[1]
  <2>1. CASE received = 0
    BY <1>1, <1>2, <2>1
  <2>2. CASE received # 0
    <3>1. transfer # <<>> /\ 1 \in 1..received
      BY <1>1, <2>2, EmptySeq, SizeAssumption
    <3>2. header = transfer[1]
      BY <1>1, <3>1 DEF TransferInv, ReceivingInv
    <3> QED
      BY <1>1, <1>2, <2>2, <3>1, <3>2
  <2> QED
    BY <2>1, <2>2
<1>4. ASSUME NEW i \in 1..SlotBlocks, i < package_size
      PROVE  IF i < received THEN Arrived(i)' ELSE download'[i] = Erased
  <2>1. IF i < received THEN Arrived(i) ELSE download[i] = Erased
    BY <1>1, <1>4 DEF TransferInv, ReceivingInv
  <2>2. i < received => i + 1 \in 1..received
    BY <1>1, SizeAssumption
  <2> QED
    BY <1>1, <1>2, <2>1, <2>2 DEF Arrived
<1> QED
  BY <1>1, <1>2, <1>3, <1>4 DEF TransferInv, ReceivingInv, StagedInv, CommitSteps

\* The sector that is written was erased, so what it holds is the new sector,
\* or visibly not a sector.
LEMMA WriteBodyTransfer ==
    ASSUME IInv, TransferInv, WriteBody
    PROVE  TransferInv'
<1>1. CASE Fail("FLASH")
  BY <1>1, TransferOver DEF Fail, set_error, Release
<1>2. CASE /\ received' = received + 1 /\ Release
           /\ UNCHANGED <<state, last_error, package_size, transfer,
                          expected_crc, header, reset_due>>
  <2>1. /\ state = "RECEIVING" /\ pc = "write_body" /\ pc' = "free"
        /\ pos = received /\ received < package_size
        /\ pos \in 0..SlotBlocks /\ download \in Slots
        /\ package_size \in 0..(SlotBlocks + 1)
        /\ Len(transfer) = received + 1
        /\ transfer # <<>> => header = transfer[1]
    BY <1>2 DEF WriteBody, Release, IInv, TypeOK, PcInv, TransferInv, ReceivingInv
  <2>2. \A i \in 1..SlotBlocks : i < package_size =>
           IF i < received THEN Arrived(i) ELSE download[i] = Erased
    BY <2>1 DEF TransferInv, ReceivingInv
  <2>3. \A i \in 1..SlotBlocks : i # pos => download'[i] = download[i]
    <3>1. CASE pos = 0
      BY <3>1 DEF WriteBody
    <3>2. CASE pos # 0
      <4>1. PICK c : download' = [download EXCEPT ![pos] = c]
        BY <3>2 DEF WriteBody, WriteDownload
      <4> QED
        BY <2>1, <4>1 DEF Slots
    <3> QED
      BY <3>1, <3>2
  <2>4. pos # 0 => download'[pos] \in {Erased, Torn, transfer[pos + 1]}
    <3>1. SUFFICES ASSUME pos # 0
                   PROVE  download'[pos] \in {Erased, Torn, transfer[pos + 1]}
      OBVIOUS
    <3>2. pos \in 1..SlotBlocks /\ download[pos] = Erased
      BY <2>1, <2>2, <3>1, SizeAssumption
    <3>3. PICK c \in WriteOutcomes(download[pos], transfer[pos + 1]) :
                 download' = [download EXCEPT ![pos] = c]
      BY <2>1, <3>1 DEF WriteBody, WriteDownload
    <3>4. c \in {Erased, Torn, transfer[pos + 1]}
      BY <3>2 DEF WriteOutcomes, Program
    <3> QED
      BY <2>1, <3>3, <3>4 DEF Slots
  <2>5. ASSUME NEW i \in 1..SlotBlocks, i < package_size
        PROVE  IF i < received + 1 THEN download'[i] \in {Erased, Torn, transfer[i + 1]}
                                   ELSE download'[i] = Erased
    <3>1. CASE i = pos
      BY <2>1, <2>4, <3>1, SizeAssumption
    <3>2. CASE i # pos
      <4>1. i < received + 1 => i < received
        BY <2>1, <3>2, SizeAssumption
      <4>2. ~(i < received + 1) => ~(i < received)
        BY <2>1, SizeAssumption
      <4> QED
        BY <2>2, <2>3, <2>5, <3>2, <4>1, <4>2 DEF Arrived
    <3> QED
      BY <3>1, <3>2
  <2>6. \A i \in 1..SlotBlocks : i < package_size' =>
           IF i < received' THEN Arrived(i)' ELSE download'[i] = Erased
    BY <1>2, <2>5 DEF Arrived
  <2> QED
    BY <1>2, <2>1, <2>6 DEF TransferInv, ReceivingInv, StagedInv, CommitSteps
<1> QED
  BY <1>1, <1>2 DEF WriteBody

\* ota_finish accepts the package only if the payload of its header has
\* arrived.
LEMMA FinishTransfer ==
    ASSUME IInv, TransferInv, ota_finish
    PROVE  TransferInv'
<1>1. CASE FinishChecks # "OK" /\ Fail(FinishChecks)
  BY <1>1, TransferOver DEF Fail, set_error, Release
<1>2. CASE /\ FinishChecks = "OK" /\ state' = "VALIDATING"
           /\ Goto("validate_download", 0)
           /\ UNCHANGED <<last_error, package_size, received, transfer,
                          expected_crc, header, reset_due>>
  <2>1. /\ state = "RECEIVING" /\ pc = "free" /\ received = package_size
        /\ download' = download /\ pc' = "validate_download"
        /\ package_size \in 0..(SlotBlocks + 1)
        /\ Len(transfer) = package_size
        /\ transfer # <<>> => header = transfer[1]
        /\ \A i \in 1..SlotBlocks : i < package_size => Arrived(i)
    BY <1>2 DEF ota_finish, Goto, flash, IInv, TypeOK, TransferInv, ReceivingInv
  <2>2. header \in Headers /\ header.image_size \in 1..SlotBlocks
        /\ ~(header.image_size + 1 > package_size)
    BY <1>2 DEF FinishChecks, header_validate
  <2>3. header.image_size < Len(transfer) /\ transfer # <<>>
    BY <2>1, <2>2, SizeAssumption
  <2>4. ASSUME NEW i \in 1..header.image_size PROVE Arrived(i)
    <3>1. i \in 1..SlotBlocks /\ i < package_size
      BY <2>1, <2>2, SizeAssumption
    <3> QED
      BY <2>1, <3>1
  <2>5. \A i \in 1..header'.image_size : Arrived(i)'
    BY <1>2, <2>1, <2>4 DEF Arrived
  <2> QED
    BY <1>2, <2>1, <2>3, <2>5 DEF TransferInv, ReceivingInv, StagedInv, CommitSteps
<1> QED
  BY <1>1, <1>2 DEF ota_finish

\* A payload that has the announced digest consists of transferred sectors
\* only: erased and torn ones are in no digest.
LEMMA ValidateTransfer ==
    ASSUME IInv, TransferInv, ValidateDownload
    PROVE  TransferInv'
<1>1. PICK r \in partition_payload_validate(download, header) :
         \/ r = "OK" /\ Goto("write_download_header", 0) /\ UNCHANGED ram
         \/ r # "OK" /\ Fail(r)
  BY DEF ValidateDownload
<1>2. CASE r # "OK" /\ Fail(r)
  BY <1>2, TransferOver DEF Fail, set_error, Release
<1>3. CASE r = "OK" /\ Goto("write_download_header", 0) /\ UNCHANGED ram
  <2> DEFINE n == header.image_size
             sent == SubSeq(transfer, 2, n + 1)
  <2>1. /\ pc = "validate_download" /\ pc' = "write_download_header"
        /\ state = "VALIDATING" /\ UNCHANGED <<state, transfer, header>>
    BY <1>3 DEF ValidateDownload, Goto, ram, status, IInv, PcInv, ValidateSteps
  <2>2. header \in Headers /\ n \in 1..SlotBlocks /\ header.image_sha256 \in Seq(Blocks)
    BY <2>1, HeaderAssumption DEF IInv, PcInv, ValidateSteps, header_validate
  <2>3. Payload(download, header) = header.image_sha256
    BY <1>1, <1>3 DEF partition_payload_validate
  <2>4. /\ transfer \in Seq(Headers \cup Blocks) /\ n < Len(transfer)
        /\ header = transfer[1] /\ \A i \in 1..n : Arrived(i)
    BY <2>1 DEF IInv, TypeOK, TransferInv, StagedInv
  <2>5. Len(transfer) \in Nat /\ n \in Nat \ {0} /\ n + 1 \in 1..Len(transfer)
    BY <2>2, <2>4, LenProperties, SizeAssumption
  <2>6. DOMAIN header.image_sha256 = 1..n
    BY <2>3 DEF Payload
  <2>7. Len(header.image_sha256) = n
    BY <2>2, <2>5, <2>6, LenProperties
  <2>8. sent \in Seq(Headers \cup Blocks) /\ Len(sent) = n
        /\ \A i \in 1..n : sent[i] = transfer[i + 1]
    <3>1. 2 \in 1..(Len(transfer) + 1) /\ n + 1 \in (2 - 1)..Len(transfer)
      BY <2>5
    <3>2. /\ sent \in Seq(Headers \cup Blocks)
          /\ Len(sent) = IF 2 <= n + 1 THEN (n + 1) - 2 + 1 ELSE 0
          /\ \A i \in 1..((n + 1) - 2 + 1) : sent[i] = transfer[2 + i - 1]
      BY <2>4, <3>1, SubSeqProperties
    <3>3. 2 <= n + 1 /\ (n + 1) - 2 + 1 = n /\ \A i \in 1..n : 2 + i - 1 = i + 1
      BY <2>5
    <3> QED
      BY <3>2, <3>3
  <2>9. ASSUME NEW i \in 1..n PROVE header.image_sha256[i] = sent[i]
    <3>1. header.image_sha256[i] = download[i]
      BY <2>3 DEF Payload
    <3>2. header.image_sha256[i] \in Blocks
      BY <2>2, <2>7, ElementOfSeq
    <3>3. download[i] = transfer[i + 1]
      BY <2>4, <3>1, <3>2, CellAssumption DEF Arrived
    <3> QED
      BY <2>8, <3>1, <3>3
  <2>10. header.image_sha256 = sent
    <3>1. header.image_sha256 \in Seq(Headers \cup Blocks)
      BY <2>2, SeqMonotonic
    <3> HIDE DEF sent
    <3> QED
      BY <2>7, <2>8, <2>9, <3>1, SeqEqual
  <2> QED
    BY <2>1, <2>4, <2>10 DEF TransferInv, ReceivingInv, StagedInv, CommitSteps
<1> QED
  BY <1>1, <1>2, <1>3

\* The rest of ota_finish works on what was validated.
LEMMA CommitTransfer ==
    ASSUME IInv, TransferInv,
           \/ WriteDownloadHeader \/ CheckDownload \/ CommitErase \/ CommitCopy
           \/ CommitValidate \/ CommitHeader \/ CommitCheck
    PROVE  TransferInv'
<1>1. pc \in {"write_download_header", "check_download"} \cup CommitSteps
  BY DEF WriteDownloadHeader, CheckDownload, CommitErase, CommitCopy,
     CommitValidate, CommitHeader, CommitCheck, CommitSteps
<1>2. state # "RECEIVING"
  BY <1>1 DEF IInv, PcInv, ValidateSteps
<1>3. \/ state' = "ERROR" /\ pc' = "free"
      \/ /\ UNCHANGED <<transfer, header>> /\ state' # "RECEIVING"
         /\ pc' # "validate_download"
  BY <1>2 DEF WriteDownloadHeader, CheckDownload, CommitErase, CommitCopy,
     CommitValidate, CommitHeader, CommitCheck, Fail, set_error, Release, Goto,
     ram, status
<1> QED
  BY <1>1, <1>3, TransferOver, TransferStays

\* No other step touches what the invariant speaks of, or the call is over.
LEMMA OtherTransfer ==
    ASSUME IInv, TransferInv,
           \/ UNCHANGED vars \/ ota_service_init \/ ota_abort \/ AbortErase
           \/ ota_reboot_to_install \/ PowerLoss \/ Reset
    PROVE  TransferInv'
<1>1. CASE ota_service_init \/ AbortErase \/ PowerLoss \/ Reset
  BY <1>1, TransferOver DEF ota_service_init, AbortErase, PowerLoss, Reset,
     ForgetRam, Release
<1>2. CASE UNCHANGED vars \/ ota_reboot_to_install \/ ota_abort
  <2>1. /\ UNCHANGED <<download, state, transfer, header, received, package_size>>
        /\ \/ UNCHANGED <<pc, pos>>
           \/ pc = "free" /\ pc' = "abort_erase"
    BY <1>2 DEF vars, ram, flash, status, ota_reboot_to_install, ota_abort, Goto
  <2>2. \A i \in 1..SlotBlocks : Arrived(i)' <=> Arrived(i)
    BY <2>1 DEF Arrived
  <2>3. ReceivingInv'
    BY <2>1, <2>2 DEF TransferInv, ReceivingInv
  <2>4. \A i : Arrived(i)' <=> Arrived(i)
    BY <2>1 DEF Arrived
  <2>5. StagedInv'
    BY <2>1, <2>4 DEF TransferInv, StagedInv, CommitSteps
  <2> QED
    BY <2>3, <2>5 DEF TransferInv
<1> QED
  BY <1>1, <1>2

\* READY is reported only for an image that consists of the header and the
\* sectors of the last transfer: no sector of an earlier or aborted one and
\* no half-written one is left in it, whatever CRC32 lets through.
THEOREM CommittedAlwaysTransferred == Spec => []CommittedIsTransferred
<1>1. Init => TransferInv
  BY DEF Init, TransferInv, ReceivingInv, StagedInv, CommitSteps
<1>2. IInv /\ TransferInv /\ [Next]_vars => TransferInv'
  <2> SUFFICES ASSUME IInv, TransferInv, [Next]_vars PROVE TransferInv'
    OBVIOUS
  <2> QED
    BY BeginTransfer, BeginEraseTransfer, WriteTransfer, WriteBodyTransfer,
       FinishTransfer, ValidateTransfer, CommitTransfer, OtherTransfer
    DEF Next, LockHolder
<1>3. IInv /\ TransferInv => CommittedIsTransferred
  BY DEF IInv, ReadyInstallable, Complete, TransferInv, StagedInv,
     CommittedIsTransferred
<1> QED
  BY <1>1, <1>2, <1>3, SpecIInv, PTL DEF Spec

=============================================================================
