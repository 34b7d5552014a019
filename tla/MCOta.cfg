SPECIFICATION Spec
CONSTANTS
    a = a
    b = b
    Blocks <- MCBlocks
    Headers <- MCHeaders
    Packages <- MCPackages
    Crc32 <- MCCrc32
    SlotBlocks = 2
    EraseChunk = 2
    Erasers = {1, 2}
    Erased = Erased
    Torn = Torn
    NoHeader = NoHeader
    OTA_ALLOW_UNSIGNED_IMAGES = FALSE
INVARIANTS TypeOK UpgradeUnmixed DownloadUnmixed ReadyInstallable CommittedIsTransferred
PROPERTIES UpgradeReplacedByVerified ImplementsService
