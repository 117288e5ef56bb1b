------------------------------ MODULE ReadNumber ------------------------------
(***************************************************************************)
(* read_number of src/c++/lispreader.cpp: what it does with one character, *)
(* and the number that the constructors of numbers.cpp make of what it     *)
(* collected.  Letters of either case are lower case.                      *)
(***************************************************************************)
EXTENDS Istream, Chars

CONSTANT LongMax   \* the largest long long

ASSUME LongAssumption == LongMax \in Nat

\* What ends a token: white space, or isterminator.
Ends == Space \cup (Macros \ {"#"})

-------------------------------------------------------------------------------
(* What is known so far; after says which get() of the code comes next.     *)

Start == [after |-> "start", type |-> "none", base |-> 10, buf |-> <<>>, error |-> FALSE]

Collect(n, c) == [n EXCEPT !.buf = Append(@, c), !.after = "loop"]

Wrong(n, c) == [Collect(n, c) EXCEPT !.error = TRUE]

First(n, c) ==
  CASE c = "+" -> n
    [] c = "-" -> [n EXCEPT !.buf = Append(@, c)]
    [] c = "0" -> [n EXCEPT !.after = "zero"]
    [] OTHER   -> Collect(n, c)

\* The character that ends a bare 0 is not put back.
Zero(n, c, ends) ==
  CASE ends -> [Collect(n, "0") EXCEPT !.type = "integer"]
    [] ~ends /\ c = "x" -> [n EXCEPT !.type = "integer", !.base = 16, !.after = "loop"]
    [] ~ends /\ DigitIn(c, 8) -> [Collect(n, c) EXCEPT !.type = "integer", !.base = 8]
    [] ~ends /\ c = "e" -> [Collect(Collect(n, "0"), c) EXCEPT !.type = "scientific"]
    [] OTHER -> Wrong(n, c)

\* stoi of what came before the r: one or two characters, a sign among them.
RadixOf(buf) ==
  IF buf[1] = "-" THEN -Value(buf[2])
  ELSE IF Len(buf) = 1 THEN Value(buf[1])
  ELSE 10 * Value(buf[1]) + Value(buf[2])

IsRadix(n, c) == ~n.error /\ c = "r" /\ n.type = "none" /\ Len(n.buf) <= 2

\* In the loop, of a character that does not end the number.
Loop(n, c) ==
  CASE n.error -> Collect(n, c)
    [] IsRadix(n, c) -> [n EXCEPT !.buf = <<>>, !.base = RadixOf(n.buf), !.type = "integer"]
    [] ~n.error /\ c = "r" /\ ~IsRadix(n, c) ->
         Wrong([n EXCEPT !.buf = IF n.type = "none" THEN <<>> ELSE @], c)
    [] ~n.error /\ c = "/" ->
         IF n.type # "none" THEN Wrong(n, c)
         ELSE [Collect(n, c) EXCEPT !.type = "ratio", !.after = "slash"]
    [] ~n.error /\ c = "." /\ n.type = "none" ->
         [Collect(n, c) EXCEPT !.type = "irrational"]
    [] ~n.error /\ c = "e" /\ n.type \in {"none", "irrational"} ->
         [Collect(n, c) EXCEPT !.type = "scientific", !.after = "exp"]
    [] ~n.error /\ c \in {"N", "M"} /\ n.base = 10 -> [n EXCEPT !.after = "suffix"]
    [] ~n.error /\ DigitIn(c, n.base) -> Collect(n, c)
    [] OTHER -> Wrong(n, c)

\* After an e; the character that ends the number here is not put back either.
Exponent(n, c, ends) ==
  IF ends THEN [n EXCEPT !.error = TRUE, !.after = "loop"]
  ELSE IF c \in {"-", "+"} \/ DigitIn(c, 10) THEN Collect(n, c)
  ELSE Wrong(n, c)

\* After the / of a ratio any character does; after N or M none may come.
Slash(n, c, ends) ==
  IF ends THEN [n EXCEPT !.error = TRUE, !.after = "loop"] ELSE Collect(n, c)

Suffix(n, c, ends) == IF ends THEN [n EXCEPT !.after = "loop"] ELSE Wrong(n, c)

Feed(n, c, ends) ==
  CASE n.after = "start"  -> First(n, c)
    [] n.after = "zero"   -> Zero(n, c, ends)
    [] n.after = "slash"  -> Slash(n, c, ends)
    [] n.after = "exp"    -> Exponent(n, c, ends)
    [] n.after = "suffix" -> Suffix(n, c, ends)
    [] OTHER              -> Loop(n, c)

-------------------------------------------------------------------------------
(* The constructors, given what was collected. They throw exceptions that   *)
(* nothing catches ("abort").                                               *)

Abort == <<"abort">>

\* stoll: at least one digit, and in range. Of what follows the digits nothing
\* is said.
Long(buf, base) ==
  IF Signed(buf) = <<>> \/ ~DigitIn(Signed(buf)[1], base) THEN Abort
  ELSE IF Whole(buf, base) > LongMax \/ Whole(buf, base) < -LongMax - 1 THEN Abort
  ELSE <<"int", Whole(buf, base)>>

\* strtoll refuses a base below 2 and leaves the end pointer that stoll then
\* looks at unset.
Integer(buf, base) == IF base < 2 THEN {Abort, <<"int", 0>>} ELSE {Long(buf, base)}

\* The power of ten that a decimal with an exponent starts at, 0 for zero.
Place(buf) ==
  LET e    == SelectInSeq(buf, LAMBDA c : c = "e")
      m    == Signed(IF e = 0 THEN buf ELSE SubSeq(buf, 1, e - 1))
      exp  == IF e = 0 THEN 0 ELSE Whole(SubSeq(buf, e + 1, Len(buf)), 10)
      dot  == SelectInSeq(m \o <<".">>, LAMBDA c : c = ".")
      lead == SelectInSeq(m, LAMBDA c : c \notin {"0", "."})
  IN CASE lead = 0 -> 0
       [] lead > dot -> exp + dot - lead
       [] OTHER -> exp + dot - lead - 1

\* Doubles start at places up to this one, on both sides, and not all at it do.
MostPlace == 308

\* stod: of an exponent without digits, all of it is left out; what is too large
\* or too near to zero for a double is out of range.
Irrational(buf) ==
  LET n == Len(buf)
      place == Place(buf)
      real == CASE buf[n] = "e" -> SubSeq(buf, 1, n - 1)
                [] buf[n] \in {"-", "+"} -> SubSeq(buf, 1, n - 2)
                [] OTHER -> buf
  IN (IF place \in -MostPlace..MostPlace THEN {<<"real", real>>} ELSE {})
     \cup (IF place \in (1 - MostPlace)..(MostPlace - 1) THEN {} ELSE {Abort})

Ratio(buf) ==
  LET slash == CHOOSE k \in 1..Len(buf) : buf[k] = "/"
      num == Long(SubSeq(buf, 1, slash - 1), 10)
      den == Long(SubSeq(buf, slash + 1, Len(buf)), 10)
  IN IF Abort \in {num, den} THEN Abort ELSE <<"ratio", num[2], den[2]>>

\* What read_number returns or throws at the end: an error is <<"error", what>>.
Numbers(n) ==
  CASE n.error -> {<<"error", "number">>}
    [] ~n.error /\ n.type \in {"integer", "none"} -> Integer(n.buf, n.base)
    [] ~n.error /\ n.type = "ratio" -> {Ratio(n.buf)}
    [] OTHER -> Irrational(n.buf)
===============================================================================
