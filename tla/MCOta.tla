------------------------------- MODULE MCOta -------------------------------
(* Instance of Ota for TLC: two-sector slots, a few packages.              *)
EXTENDS Ota

CONSTANTS a, b      \* two payload sectors whose CRC32 collides

MCBlocks == {a, b}

MCCrc32(s) == [i \in 1..Len(s) |-> IF s[i] = b THEN a ELSE s[i]]

Hdr(ok, size, payload, sig) ==
    [ fields_ok |-> ok, image_size |-> size, image_crc32 |-> MCCrc32(payload),
      image_sha256 |-> payload, signature |-> sig ]

Long     == Hdr(TRUE, 2, <<a, b>>, "valid")
Short    == Hdr(TRUE, 1, <<b>>, "valid")
Unsigned == Hdr(TRUE, 1, <<a>>, "none")
Forged   == Hdr(TRUE, 1, <<b>>, "invalid")
TooBig   == Hdr(TRUE, 3, <<a, a, a>>, "valid")
BadCrc   == [Short EXCEPT !.image_crc32 = <<>>]

MCHeaders == {Long, Short, Unsigned, TooBig, BadCrc, Forged}

MCPackages ==
    { <<Long, a, b>>, <<Short, b>>, <<Short, b, a>>, <<Unsigned, a>>,
      <<TooBig, a>>, <<BadCrc, b>>, <<Long, a>>,
      <<Forged, b>> }
=============================================================================
