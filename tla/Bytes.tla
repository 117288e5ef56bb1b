-------------------------------- MODULE Bytes --------------------------------
(***************************************************************************)
(* Finite byte strings with C positions: a position is the number of bytes *)
(* before it, so position 0 is the start.                                  *)
(***************************************************************************)
EXTENDS Integers, Sequences

Max2(a, b) == IF a >= b THEN a ELSE b
Min2(a, b) == IF a <= b THEN a ELSE b

\* The first n bytes of c, and what follows them.
First(c, n) == SubSeq(c, 1, n)
After(c, n) == SubSeq(c, n + 1, Len(c))

\* The n bytes of c that start at position at.
Slice(c, at, n) == SubSeq(c, at + 1, at + n)

\* memcpy of d to position at of c. What lies between the end of c and
\* position at, if anything, becomes zero bytes (a hole in a file).
Overlay(c, at, d) ==
  IF d = <<>> THEN c
  ELSE [i \in 1..Max2(Len(c), at + Len(d)) |->
          IF i > at /\ i <= at + Len(d) THEN d[i - at]
          ELSE IF i <= Len(c) THEN c[i] ELSE 0]
===============================================================================
