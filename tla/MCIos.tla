-------------------------------- MODULE MCIos --------------------------------
(***************************************************************************)
(* Small streams for TLC. Bytes already in a file are 1, 2, 3 ...; bytes   *)
(* a client writes are 8, 9 and the newline 7, so that a byte in the wrong *)
(* place shows.                                                            *)
(***************************************************************************)
EXTENDS Ios

TwoBackOneOn == {-2, 1}
OneBack == {-1}
OneBackTwoOn == {-1, 2}

MCByte == {0, 1, 2, 3, 4, 5, 7, 8, 9}

TwoZeros == <<0, 0>>
Empty == <<>>
Text3 == <<1, 2, 3>>

Zeros == {<<0>>, <<0, 0>>}
OneOrThree == {<<8>>, <<8, 9, 8>>}
FileLines == {<<7, 8, 7>>}
Short == {<<8>>, <<8, 9>>}

===============================================================================
