-------------------------------- MODULE Chars --------------------------------
(***************************************************************************)
(* The characters both readers tell apart, and digits in a base. Letters   *)
(* of either case are lower case.                                          *)
(***************************************************************************)
EXTENDS Integers, Sequences, SequencesExt

Space == {" ", ",", "\n", "\r"}

\* The characters with a macro function.
Macros == {"\"", "(", ")", "[", "]", "{", "}", "'", "@", ";", "\\", "^", "backquote", "~", "%", "#"}

Digits == <<"0", "1", "2", "3", "4", "5", "6", "7", "8", "9",
            "a", "b", "c", "d", "e", "f", "g", "h", "i", "j", "k", "l", "m",
            "n", "o", "p", "q", "r", "s", "t", "u", "v", "w", "x", "y", "z">>

DigitIn(c, base) == \E k \in 1..Len(Digits) : Digits[k] = c /\ k <= base
Value(c) == (CHOOSE k \in 1..Len(Digits) : Digits[k] = c) - 1

\* What strtoll makes of digits behind an optional sign.
Signed(buf) == IF buf # <<>> /\ buf[1] \in {"-", "+"} THEN Tail(buf) ELSE buf

Whole(buf, base) ==
  LET n == FoldLeft(LAMBDA v, c : v * base + Value(c), 0, Signed(buf))
  IN IF buf # <<>> /\ buf[1] = "-" THEN -n ELSE n
===============================================================================
