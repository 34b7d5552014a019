SPECIFICATION Spec
CONSTANTS
    h = h
    x = x
    y = y
    Chunks <- MCChunks
    Packages <- MCPackages
    Installable <- MCInstallable
    Crc32 <- MCCrc32
    NoImage = NoImage
INVARIANT ClosedConnectionAborts
