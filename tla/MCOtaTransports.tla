-------------------------- MODULE MCOtaTransports --------------------------
(* Instance of OtaTransports for TLC.                                      *)
EXTENDS OtaTransports

CONSTANTS h, x, y   \* chunks; the CRC32 of x and y collides

MCChunks == {h, x, y}

MCPackages == {<<h, x>>, <<h, y>>, <<h>>}

\* The package <<h>> has a header without its payload.
MCInstallable == {<<h, x>>, <<h, y>>}

MCCrc32(s) == [i \in 1..Len(s) |-> IF s[i] = y THEN x ELSE s[i]]
=============================================================================
