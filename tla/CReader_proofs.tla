----------------------------- MODULE CReader_proofs -----------------------------
(***************************************************************************)
(* The stream, the stack and the answers of the C reader, for every text,  *)
(* every N_STACK and every bound on what is kept.                          *)
(***************************************************************************)
EXTENDS CReader, SequenceTheorems, TLAPS

\* A stream has nothing behind its end flag.
Stream(i) ==
  /\ i = [text |-> i.text, rest |-> i.rest, eof |-> i.eof]
  /\ i.text \in Texts /\ i.eof \in BOOLEAN
  /\ i.eof => i.rest = <<>>

\* What the loop of read_string has.
Reading(v) ==
  /\ v = <<"part", v[2]>>
  /\ v[2] = [after |-> v[2].after, unit |-> v[2].unit, buf |-> v[2].buf]
  /\ v[2].after \in {"text", "escape", "octal", "hex"}

Stacked(s) == \E S : s \in Seq(S)

IInv ==
  /\ TypeOK
  /\ Stream(in) /\ Stacked(stack)
  /\ todo = "string" => Reading(val)

\* Control goes on, with the stack as it was.
GoesOn(i) ==
  /\ stack' = stack /\ status' = status /\ in' = i /\ Stream(i)
  /\ \/ todo' = "give" /\ val' # EofValue
     \/ todo' = "number"
     \/ todo' = "string" /\ Reading(val')

Sound == IInv /\ status = "running"

LEMMA Goes ==
  ASSUME Sound, NEW i, GoesOn(i)
  PROVE  IInv'
BY DEF Sound, IInv, GoesOn, TypeOK, Stream, Stacked

LEMMA Thrown ==
  ASSUME Sound, NEW what, NEW i, Stream(i), Throw(what, i)
  PROVE  IInv'
<1>1. <<>> \in Seq({}) /\ Len(<<>>) = 0 /\ NStack \in Nat
  BY CReaderAssumption
<1> QED
  BY <1>1 DEF Sound, IInv, TypeOK, Stream, Stacked, Throw

LEMMA Crashed ==
  ASSUME Sound, Crash
  PROVE  IInv'
BY DEF Sound, IInv, TypeOK, Stream, Stacked, Crash, Reading

LEMMA Given ==
  ASSUME Sound, NEW v, v # EofValue, NEW i, Stream(i), Give(v, i)
  PROVE  IInv'
BY Goes DEF Give, GoesOn

LEMMA Entered ==
  ASSUME Sound, NEW loop, NEW start, NEW i, Stream(i), Enter(loop, start, i),
         \/ loop = "number"
         \/ loop = "string" /\ Reading(<<"part", start>>)
  PROVE  IInv'
BY Goes DEF Enter, GoesOn

LEMMA GotStream ==
  ASSUME NEW i, Stream(i)
  PROVE  Stream(Got(i))
BY DEF Stream, Got

LEMMA UngotStream ==
  ASSUME NEW i, Stream(i), NEW c
  PROVE  Stream(Ungetc(c, i)) /\ Ungetc(c, i).eof = FALSE
<1>1. PICK b : b = IF c = Eof THEN Pushed ELSE c
  OBVIOUS
<1>2. PICK r : r = <<b>> \o i.rest
  OBVIOUS
<1>3. Ungetc(c, i) = [i EXCEPT !.rest = r, !.eof = FALSE]
  BY <1>1, <1>2, Zenon DEF Ungetc
<1> QED
  BY <1>3 DEF Stream

LEMMA UntilStream ==
  ASSUME NEW i, Stream(i), ~i.eof, NEW S
  PROVE  Stream(Until(i, S))
<1>1. \E r : Until(i, S) = [i EXCEPT !.rest = r]
  BY Zenon DEF Until
<1>2. PICK r : Until(i, S) = [i EXCEPT !.rest = r]
  BY <1>1
<1> QED
  BY <1>2 DEF Stream

LEMMA BlankStream ==
  ASSUME NEW i, Stream(i)
  PROVE  Stream(Blank(i))
<1>1. i.eof => Range(i.rest) \subseteq Space
  BY DEF Stream, Range
<1>2. CASE Range(i.rest) \subseteq Space
  BY <1>2 DEF Stream, Blank
<1>3. CASE ~(Range(i.rest) \subseteq Space)
  <2>1. ~i.eof
    BY <1>1, <1>3
  <2>2. Blank(i) = Until(i, Range(i.rest) \ Space)
    BY <1>3 DEF Blank
  <2> QED
    BY <2>1, <2>2, UntilStream
<1> QED
  BY <1>2, <1>3

LEMMA TokenStep ==
  ASSUME Sound, NEW c, NEW i, Stream(i), Token(c, i)
  PROVE  IInv'
<1> DEFINE j == Ungetc(c, i)
           k == IF Range(j.rest) \cap Ends = {} THEN [j EXCEPT !.rest = <<Pushed>>] ELSE Until(j, Ends)
<1>1. Stream(j) /\ j.eof = FALSE
  BY UngotStream
<1>2. Stream([j EXCEPT !.rest = <<Pushed>>])
  BY <1>1 DEF Stream
<1>3. Stream(Until(j, Ends))
  BY <1>1, UntilStream
<1>4. Stream(k)
  BY <1>2, <1>3
<1>5. symbol # EofValue
  BY DEF symbol, Null, EofValue
<1>6. Give(symbol, k)
  BY DEF Token
<1> QED
  BY <1>4, <1>5, <1>6, Given

LEMMA OpenListStep ==
  ASSUME Sound, NEW i, Stream(i), OpenList(i)
  PROVE  IInv'
<1>1. CASE Len(stack) = NStack
  BY <1>1, Crashed DEF OpenList
<1>2. CASE Len(stack) # NStack
  <2>1. PICK S : stack \in Seq(S)
    BY DEF Sound, IInv, Stacked
  <2>2. stack \in Seq(S \cup {<<>>}) /\ <<>> \in S \cup {<<>>} /\ Len(stack) \in Nat
    BY <2>1
  <2>3. stack' = Append(stack, <<>>)
    BY <1>2 DEF OpenList
  <2>4. /\ stack' \in Seq(S \cup {<<>>}) /\ Len(stack') = Len(stack) + 1 /\ stack' # <<>>
    BY <2>2, <2>3
  <2>5. Len(stack') <= NStack
    BY <1>2, <2>2, <2>4, CReaderAssumption DEF Sound, IInv, TypeOK
  <2> QED
    BY <1>2, <2>4, <2>5 DEF Sound, IInv, TypeOK, Stacked, OpenList, Stream
<1> QED
  BY <1>1, <1>2

LEMMA FormStep ==
  ASSUME Sound, NEW c, NEW i, Stream(i), Form(c, i)
  PROVE  IInv'
<1>1. Digit(Getc(i)) \in BOOLEAN /\ Digit(c) \in BOOLEAN
  BY DEF Digit, DigitIn
<1>2. Reading(<<"part", TextStart>>)
  BY DEF Reading, TextStart
<1>3. \/ \E v : Enter("number", v, i)
      \/ Token(c, Got(i)) \/ Token(c, i)
      \/ OpenList(i)
      \/ Throw("unmatched", i) \/ Throw("todo", i)
      \/ Enter("string", TextStart, i)
  BY <1>1, Zenon DEF Form
<1> QED
  BY <1>2, <1>3, Entered, TokenStep, OpenListStep, Thrown, GotStream

LEMMA ReadStep ==
  ASSUME IInv, Read
  PROVE  IInv'
<1>1. Sound /\ stack = <<>>
  BY DEF Read, Running, Sound, IInv, TypeOK
<1> DEFINE i == Blank(in)
<1>2. Stream(i) /\ Stream(Got(i))
  BY <1>1, BlankStream, GotStream DEF Sound, IInv
<1>3. CASE i.rest = <<>>
  <2>1. Give(EofValue, Got(i))
    BY <1>3 DEF Read
  <2> HIDE DEF i
  <2> QED
    BY <1>1, <1>2, <2>1 DEF Sound, IInv, TypeOK, Stream, Stacked, Give
<1>4. CASE i.rest # <<>>
  <2>1. Form(Getc(i), Got(i))
    BY <1>4 DEF Read
  <2> QED
    BY <1>1, <1>2, <2>1, FormStep
<1> QED
  BY <1>3, <1>4

LEMMA AnswerStep ==
  ASSUME Sound, NEW n, NEW i, Stream(i), Answer(n, i)
  PROVE  IInv'
<1>1. Made(n) # EofValue
  <2>1. \A a, b : <<"ratio", a, b>> # <<"IOS_EOF">>
    OBVIOUS
  <2>2. \A a : <<"real", a>> # <<"IOS_EOF">> /\ <<"int", a>> # <<"IOS_EOF">>
    OBVIOUS
  <2>3. (n.special \in {".", "e"}) \in BOOLEAN /\ (n.special = "/") \in BOOLEAN
    OBVIOUS
  <2> QED
    BY <2>1, <2>2, <2>3, Zenon DEF Made, EofValue
<1>2. Junk # EofValue
  BY DEF Junk, EofValue
<1> QED
  BY <1>1, <1>2, Given, Crashed DEF Answer

LEMMA NumberStep ==
  ASSUME IInv, Number
  PROVE  IInv'
<1> DEFINE n == val[2]
           c == Getc(in)
           i == Got(in)
<1>1. Sound
  BY DEF Number, Running, Sound
<1>2. Stream(in) /\ Stream(i) /\ Stream(Ungetc(c, i))
  BY GotStream, UngotStream DEF IInv
<1>3. \/ \E v : Enter("number", v, i) \/ Enter("number", v, in) \/ Enter("number", v, Ungetc(c, i))
      \/ \E m : Answer(m, i)
      \/ \E what : Throw(what, i)
  <2> DEFINE ends == c = Eof \/ c \in Space \cup Macros
             looping == n.after = "loop"
             cases == {n.after = "sign", n.after = "zero" /\ (c = Eof \/ c \in Space),
                       n.after = "zero" /\ ~(c = Eof \/ c \in Space),
                       n.after = "exp" /\ (c \in {"-", "+"} \/ Digit(c)),
                       n.after = "suffix" /\ c \in Macros \cup {Eof},
                       looping /\ ends, looping /\ ~ends /\ Good(n, c),
                       looping /\ ~ends /\ ~Good(n, c) /\ c = "r" /\ Len(n.buf) < 3 /\ n.special = "none"}
  <2>1. Good(n, c) \in BOOLEAN /\ Digit(c) \in BOOLEAN
    BY DEF Good, Digit, DigitIn
  <2>2. CASE n.after = "sign"
    BY <2>2, Zenon DEF Number
  <2> QED
    BY <2>1, Zenon DEF Number
<1> HIDE DEF n, c, i
<1> QED
  BY <1>1, <1>2, <1>3, Entered, AnswerStep, Thrown

-------------------------------------------------------------------------------
(* read_string. *)

\* What the loop has is a record of three fields wherever it stands.
Loops(m) ==
  /\ m = [after |-> m.after, unit |-> m.unit, buf |-> m.buf]
  /\ m.after \in {"text", "escape", "octal", "hex"}

LEMMA LoopReading ==
  ASSUME NEW m, Loops(m)
  PROVE  Reading(<<"part", m>>)
<1>1. <<"part", m>>[2] = m
  OBVIOUS
<1> QED
  BY <1>1, Zenon DEF Loops, Reading

LEMMA LoopChanged ==
  ASSUME NEW m, Loops(m), NEW after \in {"text", "escape", "octal", "hex"}, NEW u
  PROVE  Loops([m EXCEPT !.after = after, !.unit = u])
<1>1. PICK U, B : U = {m.unit, u} /\ B = {m.buf}
  OBVIOUS
<1>2. m \in [after : {"text", "escape", "octal", "hex"}, unit : U, buf : B] /\ u \in U
  BY <1>1 DEF Loops
<1>3. PICK e : e = [m EXCEPT !.after = after, !.unit = u]
  OBVIOUS
<1>4. e \in [after : {"text", "escape", "octal", "hex"}, unit : U, buf : B]
  BY <1>2, <1>3, Zenon
<1>5. Loops(e)
  BY <1>4 DEF Loops
<1> QED
  BY <1>3, <1>5, Zenon

LEMMA StringGoes ==
  ASSUME Sound, NEW m, Loops(m), NEW i, Stream(i), Enter("string", m, i)
  PROVE  IInv'
BY LoopReading, Entered

LEMMA LoopCollected ==
  ASSUME NEW m, Loops(m), NEW u
  PROVE  Loops(Collected(m, u))
<1>1. PICK b : b = Append(m.buf, u)
  OBVIOUS
<1>2. Collected(m, u) = [m EXCEPT !.buf = b, !.after = "text"]
  BY <1>1, Zenon DEF Collected
<1> QED
  BY <1>2 DEF Loops

LEMMA PlainStep ==
  ASSUME Sound, NEW m, Loops(m), NEW c, NEW i, Stream(i), Plain(m, c, i)
  PROVE  IInv'
<1>1. CASE c = "\""
  <2>1. <<"str", m.buf>> # EofValue
    BY DEF EofValue
  <2>2. Crash \/ Give(<<"str", m.buf>>, i)
    BY <1>1, Zenon DEF Plain
  <2> QED
    BY <2>1, <2>2, Crashed, Given
<1>2. CASE c = "\\"
  <2>1. Enter("string", [m EXCEPT !.after = "escape"], i)
    BY <1>2, Zenon DEF Plain
  <2>2. Loops([m EXCEPT !.after = "escape"])
    BY DEF Loops
  <2> QED
    BY <2>1, <2>2, StringGoes
<1>3. CASE c # "\"" /\ c # "\\"
  <2>1. Enter("string", Collected(m, <<c>>), i)
    BY <1>3, Zenon DEF Plain
  <2> QED
    BY <2>1, LoopCollected, StringGoes
<1> QED
  BY <1>1, <1>2, <1>3

LEMMA EscapeStep ==
  ASSUME Sound, NEW m, Loops(m), NEW c, NEW i, Stream(i), Escape(m, c, i)
  PROVE  IInv'
<1>1. DigitIn(c, 8) \in BOOLEAN
  BY DEF DigitIn
<1>2. PICK u : u = <<"\\", c>>
  OBVIOUS
<1>3. \/ Enter("string", [m EXCEPT !.after = "octal", !.unit = u], i)
      \/ Enter("string", [m EXCEPT !.after = "hex", !.unit = u], i)
      \/ \E w : Enter("string", Collected(m, w), i)
      \/ Throw("escape", i)
  BY <1>1, <1>2, Zenon DEF Escape
<1>4. Loops([m EXCEPT !.after = "octal", !.unit = u]) /\ Loops([m EXCEPT !.after = "hex", !.unit = u])
  BY LoopChanged
<1> QED
  BY <1>3, <1>4, LoopCollected, StringGoes, Thrown

LEMMA CodeStep ==
  ASSUME Sound, NEW m, Loops(m), NEW c, NEW i, Stream(i), NEW base, NEW len,
         Code(m, c, i, base, len)
  PROVE  IInv'
<1>1. PICK j : j = IF c = Eof THEN i ELSE in
  OBVIOUS
<1>2. Stream(j)
  BY <1>1 DEF Sound, IInv
<1>3. PICK u : u = Append(m.unit, c)
  OBVIOUS
<1>4. \/ Enter("string", [m EXCEPT !.unit = u], i)
      \/ Throw("digit", j)
      \/ Enter("string", Collected(m, m.unit), j)
  BY <1>1, <1>3, Zenon DEF Code
<1>5. Loops([m EXCEPT !.unit = u])
  BY DEF Loops
<1> QED
  BY <1>2, <1>4, <1>5, LoopCollected, StringGoes, Thrown

LEMMA StringStep ==
  ASSUME IInv, String
  PROVE  IInv'
<1>1. Sound /\ todo = "string"
  BY DEF String, Running, Sound
<1>2. PICK m, c, i : m = val[2] /\ c = Getc(in) /\ i = Got(in)
  OBVIOUS
<1>3. Loops(m)
  BY <1>1, <1>2 DEF Sound, IInv, Reading, Loops
<1>4. Stream(i)
  BY <1>1, <1>2, GotStream DEF Sound, IInv
<1>5. m.after \in {"text", "escape", "octal", "hex"}
  BY <1>3 DEF Loops
<1>6. \/ Throw("eof", i) \/ Plain(m, c, i) \/ Escape(m, c, i)
      \/ Code(m, c, i, 8, 4) \/ Code(m, c, i, 16, 6)
  <2>1. CASE m.after = "text"
    BY <1>2, <2>1, Zenon DEF String
  <2>2. CASE m.after = "escape"
    BY <1>2, <2>2, Zenon DEF String
  <2>3. CASE m.after = "octal"
    BY <1>2, <2>3, Zenon DEF String
  <2>4. CASE m.after = "hex"
    BY <1>2, <2>4, Zenon DEF String
  <2> QED
    BY <1>5, <2>1, <2>2, <2>3, <2>4
<1> QED
  BY <1>1, <1>3, <1>4, <1>6, Thrown, PlainStep, EscapeStep, CodeStep

-------------------------------------------------------------------------------
(* read_list and the loop. *)

LEMMA FrontOf ==
  ASSUME Stacked(stack), stack # <<>>
  PROVE  Stacked(Front(stack)) /\ Len(Front(stack)) = Len(stack) - 1 /\ Len(stack) \in Nat
<1>1. PICK S : stack \in Seq(S)
  BY DEF Stacked
<1>2. Len(stack) \in Nat /\ Len(stack) >= 1
  BY <1>1
<1>3. Front(stack) = SubSeq(stack, 1, Len(stack) - 1)
  BY DEF Front
<1>4. Front(stack) \in Seq(S) /\ Len(Front(stack)) = Len(stack) - 1
  <2>1. PICK n : n = Len(stack) - 1 /\ n \in 0..Len(stack)
    BY <1>2
  <2>2. SubSeq(stack, 1, n) \in Seq(S) /\ Len(SubSeq(stack, 1, n)) = n
    BY <1>1, <2>1
  <2> QED
    BY <1>3, <2>1, <2>2
<1> QED
  BY <1>2, <1>4 DEF Stacked

LEMMA CloseStep ==
  ASSUME Sound, stack # <<>>, NEW i, Stream(i), Close(i)
  PROVE  IInv'
<1>1. stack' = Front(stack) /\ in' = i /\ todo' = "give" /\ status' = status
  BY DEF Close
<1>2. val' # EofValue
  BY DEF Close, Null, EofValue
<1>3. Stacked(stack') /\ Len(stack') = Len(stack) - 1 /\ Len(stack) \in Nat /\ NStack \in Nat
  BY <1>1, FrontOf, CReaderAssumption DEF Sound, IInv
<1> QED
  BY <1>1, <1>2, <1>3 DEF Sound, IInv, TypeOK, Stream

LEMMA ItemsStep ==
  ASSUME IInv, Items
  PROVE  IInv'
<1>1. Sound /\ stack # <<>>
  BY DEF Items, Running, Sound, IInv, TypeOK
<1>2. PICK i : i = Blank(in)
  OBVIOUS
<1>3. Stream(i) /\ Stream(Got(i))
  BY <1>1, <1>2, BlankStream, GotStream DEF Sound, IInv
<1>4. AtEnd(i) \in BOOLEAN
  BY DEF AtEnd
<1>5. Close(Got(i)) \/ Throw("eof", Got(i)) \/ Form(Getc(i), Got(i))
  BY <1>2, <1>4, Zenon DEF Items
<1> QED
  BY <1>1, <1>3, <1>5, CloseStep, Thrown, FormStep

LEMMA KeepStep ==
  ASSUME IInv, Keep
  PROVE  IInv'
<1>1. Sound /\ stack # <<>> /\ todo = "give"
  BY DEF Keep, Running, Sound
<1>2. PICK f, v : f = Front(stack) /\ v = Kept(Last(stack), val)
  OBVIOUS
<1>3. stack' = Append(f, v)
  BY <1>2 DEF Keep
<1>4. Stacked(f) /\ Len(f) = Len(stack) - 1 /\ Len(stack) \in Nat
  BY <1>1, <1>2, FrontOf DEF Sound, IInv
<1>5. PICK S : f \in Seq(S)
  BY <1>4 DEF Stacked
<1>6. f \in Seq(S \cup {v}) /\ v \in S \cup {v}
  BY <1>5
<1>7. stack' \in Seq(S \cup {v}) /\ Len(stack') = Len(stack) /\ stack' # <<>>
  BY <1>3, <1>4, <1>6
<1>8. Stacked(stack')
  BY <1>7 DEF Stacked
<1> QED
  BY <1>1, <1>7, <1>8 DEF Keep, Sound, IInv, TypeOK, Stream

LEMMA ReplyStep ==
  ASSUME IInv, Reply
  PROVE  IInv'
<1>1. in' = in /\ stack' = stack /\ stack = <<>> /\ todo' \in {"give", "read"}
      /\ status' \in {"running", "exited", "crashed"}
  BY DEF Reply, Running, IInv, TypeOK
<1> QED
  BY <1>1 DEF IInv, TypeOK, Stream, Stacked

\* Lists nest no deeper than the stack, the end of the text is seen only when
\* nothing is left of it, and the value that stands for it never becomes an item of a
\* list: whatever is put back, twice or as the byte 0xFF, and whatever an error
\* leaves behind.
THEOREM ReaderTyped == Spec => []TypeOK
<1>1. Init => IInv
  <2> SUFFICES ASSUME Init PROVE IInv
    OBVIOUS
  <2>1. PICK t \in Texts : in = Opened(t)
    BY DEF Init
  <2>2. Stream(in) /\ in.text \in Texts
    BY <2>1 DEF Opened, Stream
  <2>3. stack \in Seq({}) /\ Len(stack) = 0 /\ NStack \in Nat
    BY CReaderAssumption DEF Init
  <2> QED
    BY <2>2, <2>3 DEF Init, IInv, TypeOK, Stream, Stacked
<1>2. IInv /\ [Next]_vars => IInv'
  <2> SUFFICES ASSUME IInv, [Next]_vars PROVE IInv'
    OBVIOUS
  <2>1. CASE UNCHANGED vars
    BY <2>1 DEF vars, IInv, TypeOK, Stream, Stacked, Reading
  <2> QED
    BY <2>1, ReadStep, NumberStep, StringStep, ItemsStep, KeepStep, ReplyStep DEF Next
<1>3. IInv => TypeOK
  BY DEF IInv
<1> QED
  BY <1>1, <1>2, <1>3, PTL DEF Spec
=================================================================================
