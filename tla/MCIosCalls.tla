------------------------------ MODULE MCIosCalls ------------------------------
(***************************************************************************)
(* Streams of a few bytes: A is 65, the character 233 is 195 169, and the  *)
(* newline 10 ends each line.                                              *)
(***************************************************************************)
EXTENDS IosCalls

MCByte == {0, 10, 65, 169, 195}
Lines == <<65, 10, 195, 169>>
OneOn == {1}
===============================================================================
