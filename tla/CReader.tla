-------------------------------- MODULE CReader --------------------------------
(***************************************************************************)
(* The reader and the loop of the C program: lispreader_read of            *)
(* src/c/lispreader.c, called by c_repl of repl.c, with the constructors   *)
(* of types.c, over a stream of ios.c as its getc and ungetc see it.       *)
(*                                                                         *)
(* Only lists call read() again; stack holds what each list that is being  *)
(* read has so far, the innermost last.  Numbers and strings take one step *)
(* for each ios_getc, tokens one step.                                     *)
(***************************************************************************)
EXTENDS Chars

CONSTANTS
  Texts,    \* the inputs
  NStack,   \* N_STACK, the lists that may be open at once
  MaxKept   \* bound: as many forms are kept of those in a list, or printed

ASSUME CReaderAssumption ==
  /\ \A t \in Texts : t \in Seq(STRING) /\ {"EOF", "0xFF"} \cap Range(t) = {}
  /\ NStack \in Nat /\ MaxKept \in Nat

VARIABLES
  in,      \* the stream: [text, rest, eof], all of it and what is still unread
  stack,   \* the items of each open list
  todo,    \* "read": lispreader_read is called; "items": the loop of read_list;
           \* "number", "string": the loops of these; "give": val is returned
  val,     \* the value returned, or <<"part", what a loop has collected>>
  out,     \* what was printed: forms and error messages
  status   \* "running", "exited", or "crashed"

vars == <<in, stack, todo, val, out, status>>

-------------------------------------------------------------------------------
(* Values. symbol() answers 0 for any namespace that is not 0, and the      *)
(* namespace of the loop never is.                                          *)

Null == <<"0">>
symbol == Null
EofValue == <<"IOS_EOF">>

\* A value whose type or data was overwritten.
Junk == <<"junk">>

\* The first MaxKept of a list of values.
Kept(values, v) == IF Len(values) < MaxKept THEN Append(values, v) ELSE values

-------------------------------------------------------------------------------
(* The stream. ungetc of what getc answers at the end puts the byte 0xFF    *)
(* there, which nextchar, whose result is a char, answers as IOS_EOF again. *)

Eof == "EOF"
Pushed == "0xFF"

Opened(t) == [text |-> t, rest |-> t, eof |-> FALSE]

Getc(i) == IF i.rest = <<>> THEN Eof ELSE Head(i.rest)

Got(i) == IF i.rest = <<>> THEN [i EXCEPT !.eof = TRUE] ELSE [i EXCEPT !.rest = Tail(@)]

\* _eof stays set.
Ungetc_faulty(c, i) == [i EXCEPT !.rest = <<IF c = Eof THEN Pushed ELSE c>> \o @]

Ungetc(c, i) ==
  [i EXCEPT !.rest = <<IF c = Eof THEN Pushed ELSE c>> \o @, !.eof = FALSE]

\* Up to the first character that is in S, or not.
Until(i, S) == [i EXCEPT !.rest = SubSeq(@, SelectInSeq(@, LAMBDA c : c \in S), Len(@))]

\* nextchar skips white space.
Blank(i) ==
  IF Range(i.rest) \subseteq Space THEN [i EXCEPT !.rest = <<>>]
  ELSE Until(i, Range(i.rest) \ Space)

-------------------------------------------------------------------------------
(* How a function ends. *)

Give(v, i) ==
  /\ val' = v /\ in' = i /\ todo' = "give"
  /\ UNCHANGED <<stack, out, status>>

\* lerror: the message goes out, longjmp leaves every call, and lispreader_read
\* answers 0.
Throw(what, i) ==
  /\ out' = Kept(out, <<"error", what>>)
  /\ stack' = <<>> /\ val' = Null /\ in' = i /\ todo' = "give"
  /\ UNCHANGED status

Crash ==
  /\ status' = "crashed"
  /\ UNCHANGED <<in, stack, todo, val, out>>

Enter(loop, start, i) ==
  /\ todo' = loop /\ val' = <<"part", start>> /\ in' = i
  /\ UNCHANGED <<stack, out, status>>

\* read_list. PUSH does not look at N_STACK: beyond it, NIL goes into sp.
OpenList(i) ==
  IF Len(stack) = NStack THEN Crash
  ELSE /\ stack' = Append(stack, <<>>)
       /\ todo' = "items" /\ val' = Null /\ in' = i
       /\ UNCHANGED <<out, status>>

-------------------------------------------------------------------------------
(* read(), called with the character c and the stream behind it. *)

Ends == Space \cup (Macros \ {"#"}) \cup {Pushed}

\* What ends the token is lost.
Token_faulty(c, i) ==
  LET j == Ungetc(c, i) IN
  Give(symbol, IF Range(j.rest) \cap Ends = {}
               THEN [j EXCEPT !.rest = <<Pushed>>] ELSE Got(Until(j, Ends)))

\* read_token puts back what ends the token, and be it the end of the text.
Token(c, i) ==
  LET j == Ungetc(c, i) IN
  Give(symbol, IF Range(j.rest) \cap Ends = {}
               THEN [j EXCEPT !.rest = <<Pushed>>] ELSE Until(j, Ends))

Digit(c) == DigitIn(c, 10)

\* What the loop of read_number has: the digits so far, those before a /, the
\* base and the kind of number; after says which ios_getc comes next.
NumberStart == [after |-> "sign", buf |-> <<>>, num |-> <<>>, base |-> 10, special |-> "none"]

First(n, c) == IF c = "0" THEN [n EXCEPT !.after = "zero"]
               ELSE [n EXCEPT !.after = "loop", !.buf = Append(@, c)]

TextStart == [after |-> "text", unit |-> <<>>, buf |-> <<>>]

\* The character after a sign is put back only if it is a digit.
Form(c, i) ==
  CASE c \in {"+", "-"} /\ Digit(Getc(i)) ->
         Enter("number", [NumberStart EXCEPT !.buf = IF c = "-" THEN <<c>> ELSE <<>>], i)
    [] c \in {"+", "-"} /\ ~Digit(Getc(i)) -> Token(c, Got(i))
    [] Digit(c)              -> Enter("number", First(NumberStart, c), i)
    [] c = "("               -> OpenList(i)
    [] c \in {")", "]", "}"} -> Throw("unmatched", i)
    [] c = "\""              -> Enter("string", TextStart, i)
    [] c \in Macros \ {"(", ")", "]", "}", "\""} -> Throw("todo", i)
    [] OTHER                 -> Token(c, i)

Running(what) == status = "running" /\ todo = what

\* lispreader_read.
Read ==
  /\ Running("read")
  /\ LET i == Blank(in) IN
     IF i.rest = <<>> THEN Give(EofValue, Got(i)) ELSE Form(Getc(i), Got(i))

-------------------------------------------------------------------------------
(* read_number. *)

\* strtoll, which answers 0 for a base that is none.
Strtoll(buf, base) == IF base \in 2..36 THEN Whole(buf, base) ELSE 0

Made(n) ==
  CASE n.special = "/" -> <<"ratio", Whole(n.num, 10), Whole(n.buf, 10)>>
    [] n.special \in {".", "e"} -> <<"real", n.buf>>
    [] OTHER -> <<"int", Strtoll(n.buf, n.base)>>

\* mk_integer and the like pass &i + strlen(i) to strtoll, which stores a pointer
\* there: the value may be right, or overwritten, or the return address gone.
Answer(n, i) == Give(Made(n), i) \/ Give(Junk, i) \/ Crash

\* What can follow a 0. Anything else is skipped, a delimiter included.
Zero(n, c) ==
  CASE c = "x"        -> [n EXCEPT !.base = 16, !.special = "x", !.after = "loop"]
    [] DigitIn(c, 8)  -> [n EXCEPT !.base = 8, !.special = "0", !.after = "loop"]
    [] OTHER          -> n

\* "max valid radix is 36"
IsRadix(n) ==
  n.special = "none" /\ (Len(n.buf) = 1 \/ n.buf[1] \in {"-", "0", "1", "2"} \/ DigitIn(n.buf[2], 7))

\* Letters count as digits by their distance from a, whatever the base.
IsDigit(c, base) == DigitIn(c, IF base < 0 THEN 10 ELSE base)

\* In the loop, the kinds of characters that do not end the number.
Digit_(n, c) ==
  /\ ~(c = "r" /\ Len(n.buf) < 3) /\ ~(c = "e" /\ n.base = 10)
  /\ IsDigit(c, n.base)

Good(n, c) ==
  \/ c = "r" /\ Len(n.buf) < 3 /\ IsRadix(n)
  \/ c = "/" /\ n.special = "none"
  \/ c = "." /\ n.special = "none"
  \/ c = "e" /\ n.base = 10 /\ n.special = "none"
  \/ c \in {"N", "M"} /\ n.base = 10
  \/ Digit_(n, c)

Loop(n, c) ==
  CASE Digit_(n, c) -> [n EXCEPT !.buf = Append(@, c)]
    [] c = "r" /\ ~Digit_(n, c) ->
         [n EXCEPT !.base = Whole(n.buf, 10), !.buf = <<>>, !.special = "r"]
    [] c = "/" -> [n EXCEPT !.num = n.buf, !.buf = <<>>, !.special = "/"]
    [] c = "." -> [n EXCEPT !.buf = Append(@, c), !.special = "."]
    [] c = "e" /\ ~Digit_(n, c) ->
         [n EXCEPT !.buf = Append(@, c), !.special = "e", !.after = "exp"]
    [] c \in {"N", "M"} -> [n EXCEPT !.after = "suffix"]

\* Once round the loops of read_number, where what ends a number is not put back.
\* After N or M white space does not count as an end.
Number ==
  /\ Running("number")
  /\ LET n == val[2]
         c == Getc(in)
         i == Got(in)
         ends == c = Eof \/ c \in Space \cup Macros
         looping == n.after = "loop"
     IN CASE n.after = "sign" -> Enter("number", First(n, c), i)
          [] n.after = "zero" /\ (c = Eof \/ c \in Space) -> Answer([n EXCEPT !.buf = <<"0">>], i)
          [] n.after = "zero" /\ ~(c = Eof \/ c \in Space) ->
               Enter("number", Zero(n, c), IF DigitIn(c, 8) THEN in ELSE i)
          [] n.after = "exp" /\ (c \in {"-", "+"} \/ Digit(c)) ->
               Enter("number", [n EXCEPT !.buf = Append(@, c), !.after = "loop"], i)
          [] n.after = "suffix" /\ c \in Macros \cup {Eof} ->
               Enter("number", [n EXCEPT !.after = "loop"], Ungetc(c, i))
          [] looping /\ ends -> Answer(n, i)
          [] looping /\ ~ends /\ Good(n, c) -> Enter("number", Loop(n, c), i)
          [] looping /\ ~ends /\ ~Good(n, c) /\ c = "r" /\ Len(n.buf) < 3 /\ n.special = "none" ->
               Throw("radix", i)
          [] OTHER -> Throw("number", i)

-------------------------------------------------------------------------------
(* read_string, collected in units as the source spells them. *)

Collected(m, u) == [m EXCEPT !.buf = Append(@, u), !.after = "text"]

\* mk_stringn of no bytes writes through a null pointer.
Plain(m, c, i) ==
  CASE c = "\"" -> IF m.buf = <<>> THEN Crash ELSE Give(<<"str", m.buf>>, i)
    [] c = "\\" -> Enter("string", [m EXCEPT !.after = "escape"], i)
    [] OTHER    -> Enter("string", Collected(m, <<c>>), i)

Escape(m, c, i) ==
  CASE DigitIn(c, 8) -> Enter("string", [m EXCEPT !.after = "octal", !.unit = <<"\\", c>>], i)
    [] c = "u"       -> Enter("string", [m EXCEPT !.after = "hex", !.unit = <<"\\", c>>], i)
    [] c \in {"b", "n", "t", "f", "r", "\\"} -> Enter("string", Collected(m, <<"\\", c>>), i)
    [] c = "\""      -> Enter("string", Collected(m, <<"'">>), i)
    [] OTHER         -> Throw("escape", i)

\* Exactly three octal or four hexadecimal digits; what follows is put back,
\* unless it is the end.
Code(m, c, i, base, len) ==
  LET behind == IF c = Eof THEN i ELSE in IN
  IF Len(m.unit) < len /\ DigitIn(c, base) THEN Enter("string", [m EXCEPT !.unit = Append(@, c)], i)
  ELSE IF Len(m.unit) < len THEN Throw("digit", behind)
  ELSE Enter("string", Collected(m, m.unit), behind)

String ==
  /\ Running("string")
  /\ LET m == val[2]
         c == Getc(in)
         i == Got(in)
     IN CASE c = Eof /\ m.after \in {"text", "escape"} -> Throw("eof", i)
          [] c # Eof /\ m.after = "text"   -> Plain(m, c, i)
          [] c # Eof /\ m.after = "escape" -> Escape(m, c, i)
          [] m.after = "octal" -> Code(m, c, i, 8, 4)
          [] m.after = "hex"   -> Code(m, c, i, 16, 6)

-------------------------------------------------------------------------------
(* read_list, and c_repl. *)

\* The check of ios_eof is left out.
AtEnd_faulty(i) == FALSE

AtEnd(i) == i.rest = <<>>

Close(i) ==
  /\ stack' = Front(stack)
  /\ val' = IF Last(stack) = <<>> THEN Null ELSE <<"list", Last(stack)>>
  /\ in' = i /\ todo' = "give"
  /\ UNCHANGED <<out, status>>

Items ==
  /\ Running("items")
  /\ LET i == Blank(in)
         c == Getc(i)
     IN CASE c = ")" -> Close(Got(i))
          [] c # ")" /\ AtEnd(i) -> Throw("eof", Got(i))
          [] OTHER -> Form(c, Got(i))

Keep ==
  /\ Running("give") /\ stack # <<>>
  /\ stack' = Append(Front(stack), Kept(Last(stack), val))
  /\ todo' = "items" /\ val' = Null
  /\ UNCHANGED <<in, out, status>>

\* c_repl prints what it got, or leaves.
Reply ==
  /\ Running("give") /\ stack = <<>>
  /\ IF val = EofValue
     THEN status' = "exited" /\ UNCHANGED <<in, stack, todo, val, out>>
     ELSE /\ out' = Kept(out, <<"form", val>>)
          /\ todo' = "read" /\ val' = Null
          /\ UNCHANGED <<in, stack, status>>

Init ==
  /\ \E t \in Texts : in = Opened(t)
  /\ stack = <<>> /\ todo = "read" /\ val = Null /\ out = <<>> /\ status = "running"

Next == Read \/ Number \/ String \/ Items \/ Keep \/ Reply

\* The program is one thread that nothing stops.
Spec == Init /\ [][Next]_vars /\ WF_vars(Next)

-------------------------------------------------------------------------------
\* Nothing is waiting when the loop calls the reader, and no more lists are open
\* than N_STACK; the stream answers the end only when nothing is left, and no
\* call inside a list sees the value that stands for the end.
TypeOK ==
  /\ in.text \in Texts
  /\ in.eof => in.rest = <<>>
  /\ Len(stack) <= NStack
  /\ todo \in {"read", "items", "number", "string", "give"}
  /\ todo = "read" => stack = <<>>
  /\ todo = "items" => stack # <<>>
  /\ todo = "give" /\ val = EofValue => stack = <<>>
  /\ status \in {"running", "exited", "crashed"}
===============================================================================
