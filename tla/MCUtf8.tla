-------------------------------- MODULE MCUtf8 --------------------------------
(***************************************************************************)
(* Texts for TLC: characters at the limits of each length, and those that  *)
(* escape sequences are made of.                                           *)
(***************************************************************************)
EXTENDS Utf8Text

Limits == {1, 127, 128, 2047, 2048, 65535, 65536, 1114111}
Special == {10, 34, 49, 92, 97, 27}

MCTexts == BoundedSeq(Limits \cup Special, 2) \cup [1..3 -> {92, 233, 128512}]

MCSought == {92, 65536}
MCSizes == {12, 22}

\* What iswprint accepts in the C locale, which neither program leaves.
MCPrintable == 32..126
MCSpoilers == {65, 128, 159, 160, 191, 192, 194, 224, 240, 248, 252, 254}
===============================================================================
