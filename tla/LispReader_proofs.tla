---------------------------- MODULE LispReader_proofs ----------------------------
(***************************************************************************)
(* The stream, the waiting calls and the answers of the C++ reader, for    *)
(* every text: end flags, characters that are put back and errors that     *)
(* leave nested calls agree wherever control is.                           *)
(***************************************************************************)
EXTENDS LispReader, SequenceTheorems, WellFoundedInduction, TLAPS

\* A stream fails only at the end.
Stream(i) ==
  /\ i \in [text : Texts, pos : Nat, eof : BOOLEAN, fail : BOOLEAN]
  /\ i.pos <= Len(i.text)
  /\ i.eof \/ i.fail => i.pos = Len(i.text)

\* What a get() left behind it can be put back.
Behind(i) == Stream(i) /\ (i.fail \/ i.pos >= 1)

Calls(s) ==
  \E R : /\ s \in Seq(R)
         /\ \A r \in R : r.fn \in Functions /\ r = [fn |-> r.fn, items |-> r.items]

\* What the loops of read_string and read_regex have.
Loops(m) ==
  \E U, B : m \in [after : {"text", "escape", "octal", "hex"}, unit : U, buf : B]

IInv ==
  /\ TypeOK
  /\ Stream(in) /\ Calls(stack)
  /\ todo \in {"string", "regex"} => Loops(val)

Sound == IInv /\ status = "running"

-------------------------------------------------------------------------------
(* The stream. *)

LEMMA TextLength ==
  ASSUME NEW i, Stream(i)
  PROVE  Len(i.text) \in Nat /\ End(i) = Len(i.text) /\ i.pos \in 0..Len(i.text)
         /\ i.text \in Texts /\ i.eof \in BOOLEAN /\ i.fail \in BOOLEAN /\ i.pos \in Nat
<1>1. i.text \in Seq(STRING)
  BY TextsAssumption DEF Stream
<1>2. Len(i.text) \in Nat
  BY <1>1
<1> QED
  BY <1>2 DEF Stream, End

LEMMA GotStream ==
  ASSUME NEW i, Stream(i)
  PROVE  Behind(Got(i))
<1>1. Len(i.text) \in Nat /\ End(i) = Len(i.text) /\ i.pos \in Nat /\ i.pos <= Len(i.text)
      /\ i.eof \in BOOLEAN /\ i.fail \in BOOLEAN
  BY TextLength DEF Stream
<1>2. i \in [text : Texts, pos : Nat, eof : BOOLEAN, fail : BOOLEAN]
  BY DEF Stream
<1>3. CASE i.eof \/ i.fail
  <2>1. PICK e : e = [i EXCEPT !.fail = TRUE]
    OBVIOUS
  <2>2. e = Got(i)
    BY <1>3, <2>1 DEF Got
  <2>3. /\ e \in [text : Texts, pos : Nat, eof : BOOLEAN, fail : BOOLEAN]
        /\ e.pos = i.pos /\ e.text = i.text /\ e.fail = TRUE
    BY <1>2, <2>1
  <2>4. i.pos = Len(i.text)
    BY <1>3 DEF Stream
  <2> QED
    BY <1>1, <2>2, <2>3, <2>4 DEF Behind, Stream
<1>4. CASE ~(i.eof \/ i.fail) /\ i.pos = End(i)
  <2>1. PICK e : e = [i EXCEPT !.eof = TRUE, !.fail = TRUE]
    OBVIOUS
  <2>2. e = Got(i)
    BY <1>4, <2>1 DEF Got
  <2>3. /\ e \in [text : Texts, pos : Nat, eof : BOOLEAN, fail : BOOLEAN]
        /\ e.pos = i.pos /\ e.text = i.text /\ e.fail = TRUE
    BY <1>2, <2>1, Zenon
  <2> QED
    BY <1>1, <1>4, <2>2, <2>3 DEF Behind, Stream
<1>5. CASE ~(i.eof \/ i.fail) /\ i.pos # End(i)
  <2>1. PICK p : p = i.pos + 1
    OBVIOUS
  <2>2. PICK e : e = [i EXCEPT !.pos = p]
    OBVIOUS
  <2>3. e = Got(i)
    BY <1>5, <2>1, <2>2 DEF Got
  <2>4. p \in Nat /\ p >= 1 /\ p <= Len(i.text)
    BY <1>1, <1>5, <2>1
  <2>5. /\ e \in [text : Texts, pos : Nat, eof : BOOLEAN, fail : BOOLEAN]
        /\ e.pos = p /\ e.text = i.text /\ e.fail = i.fail /\ e.eof = i.eof
    BY <1>2, <2>2, <2>4
  <2> QED
    BY <1>5, <2>3, <2>4, <2>5 DEF Behind, Stream
<1> QED
  BY <1>3, <1>4, <1>5

LEMMA UngotStream ==
  ASSUME NEW i, Behind(i)
  PROVE  Stream(Unget(i))
<1>1. /\ i \in [text : Texts, pos : Nat, eof : BOOLEAN, fail : BOOLEAN] /\ Stream(i)
      /\ Len(i.text) \in Nat /\ i.pos <= Len(i.text) /\ (i.fail => i.pos = Len(i.text))
      /\ i.fail \/ i.pos >= 1
  BY TextLength DEF Behind, Stream
<1>2. CASE i.fail
  <2>1. PICK e : e = [i EXCEPT !.eof = FALSE]
    OBVIOUS
  <2>2. /\ e \in [text : Texts, pos : Nat, eof : BOOLEAN, fail : BOOLEAN]
        /\ e.pos = i.pos /\ e.text = i.text
    BY <1>1, <2>1
  <2> QED
    BY <1>1, <1>2, <2>1, <2>2 DEF Unget, Stream
<1>3. CASE ~i.fail
  <2>1. PICK p : p = i.pos - 1
    OBVIOUS
  <2>2. PICK e : e = [i EXCEPT !.eof = FALSE, !.pos = p]
    OBVIOUS
  <2>3. p \in Nat /\ p <= Len(i.text)
    BY <1>1, <1>3, <2>1
  <2>4. /\ e \in [text : Texts, pos : Nat, eof : BOOLEAN, fail : BOOLEAN]
        /\ e.pos = p /\ e.text = i.text /\ e.fail = i.fail /\ e.eof = FALSE
    BY <1>1, <2>2, <2>3, Zenon
  <2>5. e = Unget(i)
    BY <1>3, <2>1, <2>2, Zenon DEF Unget
  <2> QED
    BY <1>3, <2>3, <2>4, <2>5 DEF Stream
<1> QED
  BY <1>2, <1>3

\* A loop of get() that stops at a character of S, or at the end, stops.
LEMMA ReachIs ==
  ASSUME NEW i, Stream(i), NEW S
  PROVE  Reach(i, S) \in i.pos..End(i)
<1>1. End(i) \in Nat /\ i.pos \in Nat /\ i.pos <= End(i)
  BY TextLength
<1> DEFINE Stops == {p \in i.pos..End(i) : p = End(i) \/ i.text[p + 1] \in S}
<1>2. End(i) \in Stops /\ Stops \subseteq Nat /\ Stops # {}
  BY <1>1
<1> HIDE DEF Stops
<1>3. PICK p \in Stops : \A q \in Stops : ~ (<<q, p>> \in OpToRel(<, Nat))
  BY <1>2, NatLessThanWellFounded, WFMin
<1>4. \A q \in Stops : ~ (q < p)
  BY <1>2, <1>3 DEF OpToRel
<1>5. /\ p \in i.pos..End(i)
      /\ p = End(i) \/ i.text[p + 1] \in S
      /\ \A q \in i.pos..(p - 1) : i.text[q + 1] \notin S
  BY <1>1, <1>4 DEF Stops
<1> QED
  BY <1>5, Zenon DEF Reach

LEMMA ToStream ==
  ASSUME NEW i, Stream(i), NEW p \in i.pos..End(i)
  PROVE  Stream(To(i, p))
<1>1. /\ i \in [text : Texts, pos : Nat, eof : BOOLEAN, fail : BOOLEAN] /\ i.pos \in Nat
      /\ Len(i.text) \in Nat /\ End(i) = Len(i.text) /\ (i.eof \/ i.fail => i.pos = Len(i.text))
  BY TextLength DEF Stream
<1>2. p \in Nat /\ p <= Len(i.text) /\ p >= i.pos
  BY <1>1
<1>3. PICK e : e = [i EXCEPT !.pos = p]
  OBVIOUS
<1>4. /\ e \in [text : Texts, pos : Nat, eof : BOOLEAN, fail : BOOLEAN]
      /\ e.pos = p /\ e.text = i.text /\ e.eof = i.eof /\ e.fail = i.fail
  BY <1>1, <1>2, <1>3
<1> QED
  BY <1>1, <1>2, <1>3, <1>4 DEF To, Stream

LEMMA BlankStream ==
  ASSUME NEW i, Stream(i)
  PROVE  Stream(Blank(i))
BY ReachIs, ToStream DEF Blank

LEMMA PastStream ==
  ASSUME NEW i, Stream(i), NEW S
  PROVE  Stream(Past(i, Reach(i, S))) /\ Stream(Upto(i, Reach(i, S)))
<1>1. Behind(Past(i, Reach(i, S)))
  BY ReachIs, ToStream, GotStream DEF Past
<1> QED
  BY <1>1, UngotStream DEF Behind, Upto

LEMMA AfterGot ==
  ASSUME NEW i, Stream(i)
  PROVE  Stream(Got(i)) /\ Stream(Unget(Got(i)))
BY GotStream, UngotStream DEF Behind

-------------------------------------------------------------------------------
(* The ways a function ends. *)

LEMMA Open == Calls(<<>>) /\ Len(<<>>) = 0
<1>1. PICK R : R = {}
  OBVIOUS
<1>2. /\ <<>> \in Seq(R) /\ Len(<<>>) = 0
      /\ \A r \in R : r.fn \in Functions /\ r = [fn |-> r.fn, items |-> r.items]
  BY <1>1
<1>3. Calls(<<>>)
  BY <1>2, Zenon DEF Calls
<1> QED
  BY <1>2, <1>3

LEMMA Given ==
  ASSUME Sound, NEW v, v # EofValue, NEW i, Stream(i), Give(v, i)
  PROVE  IInv'
BY TextLength DEF Sound, IInv, TypeOK, Give, Stream, Calls, End

LEMMA Thrown ==
  ASSUME Sound, NEW what, NEW i, Stream(i), Throw(what, i)
  PROVE  IInv'
<1>1. stack' = <<>> /\ in' = i /\ todo' = "read" /\ status' = status
  BY DEF Throw
<1>2. Calls(stack)' /\ Len(stack') = 0
  BY <1>1, Open DEF Calls
<1>3. Stream(in)' /\ in'.text \in Texts /\ in'.pos \in 0..End(in)'
      /\ (in'.eof \/ in'.fail => in'.pos = End(in)')
  BY <1>1, TextLength DEF Stream, End
<1> QED
  BY <1>1, <1>2, <1>3 DEF Sound, IInv, TypeOK

LEMMA Died ==
  ASSUME Sound, Die
  PROVE  IInv'
BY DEF Sound, IInv, TypeOK, Die, Stream, Calls, End, Loops

LEMMA Spun ==
  ASSUME IInv, UNCHANGED vars
  PROVE  IInv'
BY DEF vars, IInv, TypeOK, Stream, Calls, End, Loops

LEMMA Entered ==
  ASSUME Sound, NEW loop, NEW start, NEW i, Stream(i), Enter(loop, start, i),
         \/ loop = "number"
         \/ loop \in {"string", "regex"} /\ Loops(start)
  PROVE  IInv'
BY TextLength DEF Sound, IInv, TypeOK, Enter, Stream, Calls, End, Loops

LEMMA Closing == DOMAIN Closers = {"list", "vector", "map", "set"}
BY DEF Closers

LEMMA Pushed ==
  ASSUME NEW s, Calls(s), NEW fn \in Functions, NEW items
  PROVE  LET u == Append(s, [fn |-> fn, items |-> items]) IN
         Calls(u) /\ u # <<>> /\ Last(u).fn = fn /\ \A k \in 1..Len(u) : u[k].fn \in Functions
<1>1. PICK R : s \in Seq(R) /\ \A r \in R : r.fn \in Functions /\ r = [fn |-> r.fn, items |-> r.items]
  BY Zenon DEF Calls
<1>2. PICK e : e = [fn |-> fn, items |-> items]
  OBVIOUS
<1>3. e.fn = fn /\ e.items = items
  BY <1>2
<1>4. PICK T : T = R \cup {e}
  OBVIOUS
<1>5. s \in Seq(T) /\ e \in T
  BY <1>1, <1>4
<1>6. \A r \in T : r.fn \in Functions /\ r = [fn |-> r.fn, items |-> r.items]
  BY <1>1, <1>2, <1>3, <1>4, Zenon
<1>7. PICK u : u = Append(s, e)
  OBVIOUS
<1>8. u \in Seq(T) /\ u # <<>> /\ u[Len(u)] = e /\ \A k \in 1..Len(u) : u[k] \in T
  BY <1>5, <1>7
<1>9. Last(u).fn = fn
  BY <1>3, <1>8, Zenon DEF Last
<1>10. Calls(u) /\ \A k \in 1..Len(u) : u[k].fn \in Functions
  BY <1>6, <1>8, Zenon DEF Calls
<1> QED
  BY <1>2, <1>7, <1>8, <1>9, <1>10, Zenon

LEMMA Popped ==
  ASSUME NEW s, Calls(s), s # <<>>
  PROVE  /\ Calls(Front(s)) /\ Last(s).fn \in Functions
         /\ Last(s) = [fn |-> Last(s).fn, items |-> Last(s).items]
         /\ \A k \in 1..Len(Front(s)) : Front(s)[k].fn \in Functions
<1>1. PICK R : s \in Seq(R) /\ \A r \in R : r.fn \in Functions /\ r = [fn |-> r.fn, items |-> r.items]
  BY Zenon DEF Calls
<1>2. PICK n : n = Len(s) - 1 /\ n \in 0..Len(s) /\ Len(s) \in 1..Len(s)
  BY <1>1
<1>3. PICK u : u = SubSeq(s, 1, n)
  OBVIOUS
<1>4. u \in Seq(R) /\ s[Len(s)] \in R /\ \A k \in 1..Len(u) : u[k] \in R
  BY <1>1, <1>2, <1>3
<1>5. Front(s) = u
  BY <1>2, <1>3 DEF Front
<1>6. /\ Last(s).fn \in Functions
      /\ Last(s) = [fn |-> Last(s).fn, items |-> Last(s).items]
  BY <1>1, <1>4, Zenon DEF Last
<1>7. Calls(u) /\ \A k \in 1..Len(u) : u[k].fn \in Functions
  BY <1>1, <1>4, Zenon DEF Calls
<1> QED
  BY <1>5, <1>6, <1>7, Zenon

LEMMA Called ==
  ASSUME Sound, NEW fn \in Functions, NEW items, NEW i, Stream(i), Call(fn, items, i)
  PROVE  IInv'
<1>1. PICK u : u = Append(stack, [fn |-> fn, items |-> items])
  OBVIOUS
<1>2. Calls(u) /\ u # <<>> /\ Last(u).fn = fn /\ \A k \in 1..Len(u) : u[k].fn \in Functions
  BY <1>1, Pushed DEF Sound, IInv
<1>3. /\ stack' = u /\ in' = i /\ status' = status
      /\ todo' = IF fn \in {"list", "vector", "map", "set"} THEN "items" ELSE "read"
  BY <1>1 DEF Call
<1> QED
  BY <1>2, <1>3, TextLength, Closing DEF Sound, IInv, TypeOK, Calls, Stream

LEMMA Returned ==
  ASSUME Sound, stack # <<>>, NEW v, v # EofValue, stack' = Front(stack), val' = v,
         todo' = "give", NEW i, Stream(i), in' = i, status' = status
  PROVE  IInv'
BY Popped, TextLength DEF Sound, IInv, TypeOK, Calls, Stream

-------------------------------------------------------------------------------
(* read() and what it calls. *)

LEMMA TokenStep ==
  ASSUME Sound, NEW i, Stream(i), Token(i)
  PROVE  IInv'
<1>1. PICK p : p = Reach(i, Ends)
  OBVIOUS
<1>2. Stream(Upto(i, p))
  BY <1>1, PastStream
<1>3. \A a, b : <<"sym", a, b>> # EofValue /\ <<"key", a>> # EofValue
  BY DEF EofValue
<1>4. \A t : Named(t) # EofValue
  BY <1>3 DEF Named, Symbol
<1>5. Nil # EofValue /\ True # EofValue /\ False # EofValue
  BY DEF Nil, True, False, EofValue
<1>6. \A t : Literal(t) # EofValue
  BY <1>5, Zenon DEF Literal
<1>7. \/ Throw("token", Upto(i, p)) \/ Die
      \/ \E t : Give(Literal(t), Upto(i, p)) \/ Give(Nil, Upto(i, p))
      \/ \E t : Give(Named(t), Upto(i, p)) \/ Give(<<"key", t>>, Upto(i, p))
  BY <1>1, Zenon DEF Token
<1> QED
  BY <1>2, <1>3, <1>4, <1>5, <1>6, <1>7, Given, Thrown, Died

LEMMA CommentStep ==
  ASSUME Sound, NEW i, Stream(i), Comment(i)
  PROVE  IInv'
<1>1. Noop # EofValue
  BY DEF Noop, EofValue
<1> QED
  BY <1>1, PastStream, Given DEF Comment

LEMMA CharacterStep ==
  ASSUME Sound, NEW i, Stream(i), Character(i)
  PROVE  IInv'
<1>1. PICK g : g = Got(i)
  OBVIOUS
<1>2. PICK j : j = Upto(g, Reach(g, Ends))
  OBVIOUS
<1>3. Stream(g) /\ Stream(j)
  BY <1>1, <1>2, AfterGot, PastStream
<1>4. \A s : <<"char", s>> # EofValue
  BY DEF EofValue
<1>5. \/ \E what : Throw(what, g) \/ Throw(what, j)
      \/ Die \/ \E s : Give(<<"char", s>>, j)
  BY <1>1, <1>2, Zenon DEF Character
<1> QED
  BY <1>3, <1>4, <1>5, Given, Thrown, Died

LEMMA Quoted ==
  ASSUME Sound, NEW i, Stream(i), Unquote(i)
  PROVE  IInv'
<1>1. \/ Throw("eof", Got(i)) \/ \E items : Call("wrap", items, Got(i)) \/ Call("wrap", items, i)
  BY Zenon DEF Unquote
<1> QED
  BY <1>1, AfterGot, Thrown, Called DEF Functions

LEMMA LoopStart == Loops(TextStart)
<1>1. TextStart \in [after : {"text", "escape", "octal", "hex"}, unit : {<<>>}, buf : {<<>>}]
  BY DEF TextStart
<1> QED
  BY <1>1, Zenon DEF Loops

LEMMA DispatchStep ==
  ASSUME Sound, NEW i, Stream(i), Dispatch(i)
  PROVE  IInv'
<1>1. PICK j : j = Got(i)
  OBVIOUS
<1>2. Stream(j)
  BY <1>1, AfterGot
<1>3. \/ \E what : Throw(what, j)
      \/ \E fn \in {"set", "meta", "wrap", "discard"} : \E items : Call(fn, items, j)
      \/ Enter("regex", TextStart, j)
      \/ Comment(j)
  BY <1>1, Zenon DEF Dispatch
<1> QED
  BY <1>2, <1>3, LoopStart, Thrown, Called, Entered, CommentStep DEF Functions

LEMMA Opening ==
  ASSUME NEW c \in DOMAIN Openers
  PROVE  Openers[c] \in Functions
BY DEF Openers, Functions

LEMMA MacroStep ==
  ASSUME Sound, NEW c \in Macros, NEW i, Stream(i), Macro(c, i)
  PROVE  IInv'
<1>1. \/ c \in DOMAIN Openers /\ Call(Openers[c], <<>>, i)
      \/ \E what : Throw(what, i)
      \/ \E fn \in {"meta", "wrap"} : \E items : Call(fn, items, i)
      \/ Unquote(i) \/ Dispatch(i) \/ Comment(i) \/ Character(i)
      \/ Enter("string", TextStart, i)
  <2>1. CASE c \in DOMAIN Openers \/ c \in {")", "]", "}"}
    BY <2>1, Zenon DEF Macro
  <2>2. CASE c \in {"'", "@", "^", "~", "#", ";", "\"", "\\", "backquote", "%"}
    BY <2>2, Zenon DEF Macro
  <2>3. c \in {"(", "[", "{"} => c \in DOMAIN Openers
    BY DEF Openers
  <2> QED
    BY <2>1, <2>2, <2>3 DEF Macros
<1> QED
  BY <1>1, Opening, LoopStart, Thrown, Called, Entered, Quoted, DispatchStep, CommentStep,
     CharacterStep DEF Functions

LEMMA ReadStep ==
  ASSUME IInv, Read
  PROVE  IInv'
<1>1. Sound
  BY DEF Read, Running, Sound
<1>2. PICK i : i = Blank(in)
  OBVIOUS
<1>3. Stream(i) /\ Stream(Got(i))
  BY <1>1, <1>2, BlankStream, AfterGot DEF Sound, IInv
<1>4. \/ Give(IF stack = <<>> THEN EofValue ELSE Nil, Got(i))
      \/ UNCHANGED vars
      \/ Enter("number", Start, i)
      \/ Char(i) \in Macros /\ Macro(Char(i), Got(i))
      \/ Token(i)
  BY <1>2, Zenon DEF Read, Spin
<1>5. CASE Give(IF stack = <<>> THEN EofValue ELSE Nil, Got(i))
  <2>1. CASE stack = <<>>
    BY <1>1, <1>3, <1>5, <2>1, TextLength DEF Sound, IInv, TypeOK, Give, Stream, Calls, End
  <2>2. CASE stack # <<>>
    <3>1. Nil # EofValue
      BY DEF Nil, EofValue
    <3> QED
      BY <1>1, <1>3, <1>5, <2>2, <3>1, Given
  <2> QED
    BY <2>1, <2>2
<1> QED
  BY <1>1, <1>3, <1>4, <1>5, Spun, Entered, MacroStep, TokenStep

-------------------------------------------------------------------------------
(* The loops of numbers, strings and regular expressions. *)

LEMMA NumberStep ==
  ASSUME IInv, Number
  PROVE  IInv'
<1>1. Sound
  BY DEF Number, Running, Sound
<1>2. PICK j : j = Got(in)
  OBVIOUS
<1>3. Stream(j) /\ Stream(Unget(j))
  BY <1>1, <1>2, AfterGot DEF Sound, IInv
<1>4. \/ Die
      \/ \E what : Throw(what, Unget(j)) \/ Throw(what, j)
      \/ \E r \in Numbers(val) : r # Abort /\ r[1] # "error" /\ Give(r, Unget(j))
      \/ UNCHANGED vars
      \/ \E n : Enter("number", n, j) \/ Enter("number", n, Unget(j))
  BY <1>2, Zenon DEF Number, Spin
<1>5. \A r \in Numbers(val) : r # EofValue
  <2>1. \A a, b : /\ <<"int", a>> # EofValue /\ <<"real", a>> # EofValue
                  /\ <<"ratio", a, b>> # EofValue /\ <<"error", a>> # EofValue
    BY DEF EofValue
  <2>2. Abort # EofValue
    BY DEF Abort, EofValue
  <2>3. \A f, b : Long(f, b) # EofValue
    BY <2>1, <2>2, Zenon DEF Long
  <2>4. \A f, b : \A r \in Integer(f, b) : r # EofValue
    BY <2>1, <2>2, <2>3, Zenon DEF Integer
  <2>5. \A f : Ratio(f) # EofValue
    BY <2>1, <2>2, Zenon DEF Ratio
  <2>6. \A f : \A r \in Irrational(f) : r # EofValue
    <3> TAKE f
    <3> TAKE r \in Irrational(f)
    <3>1. (\E a : r = <<"real", a>>) \/ r = Abort
      BY Zenon DEF Irrational
    <3> QED
      BY <2>1, <2>2, <3>1, Zenon
  <2>7. TAKE r \in Numbers(val)
  <2>8. \/ r = <<"error", "number">> \/ r \in Integer(val.buf, val.base)
        \/ r = Ratio(val.buf) \/ r \in Irrational(val.buf)
    BY <2>7, Zenon DEF Numbers
  <2> QED
    BY <2>1, <2>4, <2>5, <2>6, <2>8, Zenon
<1> QED
  BY <1>1, <1>3, <1>4, <1>5, Died, Thrown, Given, Spun, Entered

\* What the loops of strings have is what they had, with another unit, more
\* collected, or another kind of step ahead.
LEMMA LoopFields ==
  ASSUME NEW m, Loops(m), NEW a \in {"text", "escape", "octal", "hex"}, NEW x
  PROVE  /\ Loops([m EXCEPT !.after = a]) /\ Loops([m EXCEPT !.unit = x])
         /\ Loops([m EXCEPT !.after = a, !.unit = x]) /\ Loops(Collected(m, x))
         /\ Loops([Collected(m, x) EXCEPT !.after = a])
<1> DEFINE K == {"text", "escape", "octal", "hex"}
<1>1. PICK U, B : m \in [after : K, unit : U, buf : B]
  BY Zenon DEF Loops
<1>2. PICK V : V = U \cup {x}
  OBVIOUS
<1>3. PICK C : C = B \cup {Append(m.buf, x)}
  OBVIOUS
<1>4. m.unit \in U /\ m.buf \in B /\ m.after \in K
  BY <1>1
<1>5. x \in V /\ m \in [after : K, unit : V, buf : C] /\ Append(m.buf, x) \in C /\ "text" \in K
  BY <1>1, <1>2, <1>3
<1> HIDE DEF K
<1>6. a \in K
  BY DEF K
<1>7. /\ [m EXCEPT !.after = a] \in [after : K, unit : V, buf : C]
      /\ [m EXCEPT !.unit = x] \in [after : K, unit : V, buf : C]
      /\ [m EXCEPT !.after = a, !.unit = x] \in [after : K, unit : V, buf : C]
  BY <1>5, <1>6, Zenon
<1>8. PICK e : e = Collected(m, x)
  OBVIOUS
<1>9. e \in [after : K, unit : V, buf : C]
  BY <1>5, <1>8, Zenon DEF Collected
<1>10. [e EXCEPT !.after = a] \in [after : K, unit : V, buf : C]
  BY <1>6, <1>9, Zenon
<1> QED
  BY <1>7, <1>8, <1>9, <1>10, Zenon DEF Loops, K

LEMMA PlainStep ==
  ASSUME Sound, NEW m, Loops(m), NEW c, NEW j, Stream(j), Plain(m, c, j)
  PROVE  IInv'
<1>1. \A t : <<"str", t>> # EofValue
  BY DEF EofValue
<1>2. \/ Give(<<"str", m.buf>>, j)
      \/ Enter("string", [m EXCEPT !.after = "escape"], j)
      \/ Enter("string", Collected(m, <<c>>), j)
  BY Zenon DEF Plain
<1> QED
  BY <1>1, <1>2, Given, Entered, LoopFields

LEMMA EscapeStep ==
  ASSUME Sound, NEW m, Loops(m), NEW c, NEW j, Stream(j), Escape(m, c, j)
  PROVE  IInv'
<1>1. \/ \E a \in {"octal", "hex"} : \E x : Enter("string", [m EXCEPT !.after = a, !.unit = x], j)
      \/ \E x : Enter("string", Collected(m, x), j)
      \/ Throw("escape", j)
  BY Zenon DEF Escape
<1> QED
  BY <1>1, Thrown, Entered, LoopFields

LEMMA DigitsStep ==
  ASSUME Sound, NEW m, Loops(m), NEW c, NEW j, Stream(j), Stream(Unget(j)),
         Octal(m, c, j) \/ Hex(m, c, j)
  PROVE  IInv'
<1>1. \/ \E x : Enter("string", [m EXCEPT !.unit = x], j)
      \/ \E x : Enter("string", Collected(m, x), Unget(j))
      \/ Throw("digit", Unget(j)) \/ Throw("length", j)
  BY Zenon DEF Octal, Hex
<1> QED
  BY <1>1, Thrown, Entered, LoopFields

LEMMA StringStep ==
  ASSUME IInv, String
  PROVE  IInv'
<1>1. Sound /\ Loops(val) /\ Stream(in)
  BY DEF String, Running, Sound, IInv
<1>2. PICK j : j = Got(in)
  OBVIOUS
<1>3. Stream(j) /\ Stream(Unget(j))
  BY <1>1, <1>2, AfterGot
<1>4. val.after \in {"text", "escape", "octal", "hex"}
  BY <1>1 DEF Loops
<1>5. PICK c : c = Char(in)
  OBVIOUS
<1>6. \/ Throw("eof", j) \/ Plain(val, c, j) \/ Escape(val, c, j)
      \/ Octal(val, c, j) \/ Hex(val, c, j)
  <2>1. CASE j.eof
    BY <1>2, <2>1, Zenon DEF String
  <2>2. CASE ~j.eof /\ val.after = "text"
    BY <1>2, <1>5, <2>2, Zenon DEF String
  <2>3. CASE ~j.eof /\ val.after = "escape"
    BY <1>2, <1>5, <2>3, Zenon DEF String
  <2>4. CASE ~j.eof /\ val.after = "octal"
    BY <1>2, <1>5, <2>4, Zenon DEF String
  <2>5. CASE ~j.eof /\ val.after = "hex"
    BY <1>2, <1>5, <2>5, Zenon DEF String
  <2> QED
    BY <1>4, <2>1, <2>2, <2>3, <2>4, <2>5
<1> QED
  BY <1>1, <1>3, <1>6, Thrown, PlainStep, EscapeStep, DigitsStep

LEMMA RegexStep ==
  ASSUME IInv, Regex
  PROVE  IInv'
<1>1. Sound /\ Loops(val) /\ Stream(in)
  BY DEF Regex, Running, Sound, IInv
<1>2. PICK j : j = Got(in)
  OBVIOUS
<1>3. Stream(j)
  BY <1>1, <1>2, AfterGot
<1>4. \A t : <<"pattern", t>> # EofValue
  BY DEF EofValue
<1>5. PICK c : c = Char(in)
  OBVIOUS
<1>6. PICK a : a = IF ~(val.after = "escape") /\ c = "\\" THEN "escape" ELSE "text"
  OBVIOUS
<1>7. a \in {"text", "escape", "octal", "hex"}
  BY <1>6
<1>8. \/ Throw("eof", j) \/ Throw("pattern", j)
      \/ \E t : Give(<<"pattern", t>>, j)
      \/ Enter("regex", [Collected(val, c) EXCEPT !.after = a], j)
  BY <1>2, <1>5, <1>6, Zenon DEF Regex
<1> QED
  BY <1>1, <1>3, <1>4, <1>7, <1>8, Thrown, Given, Entered, LoopFields

-------------------------------------------------------------------------------
(* The waiting calls. *)

LEMMA CollNotEof == \A a, b, c : <<a, b, c>> # EofValue
BY DEF EofValue

LEMMA CloseStep ==
  ASSUME Sound, stack # <<>>, NEW kind, NEW items, NEW i, Stream(i), Close(kind, items, i)
  PROVE  IInv'
<1>1. \/ \E what : Throw(what, i)
      \/ Die
      \/ /\ stack' = Front(stack)
         /\ val' = Coll(kind, items) /\ in' = i /\ todo' = "give"
         /\ UNCHANGED <<out, status>>
  BY Zenon DEF Close
<1>2. Coll(kind, items) # EofValue
  BY CollNotEof DEF Coll
<1> QED
  BY <1>1, <1>2, Thrown, Died, Returned

LEMMA ItemsStep ==
  ASSUME IInv, Items
  PROVE  IInv'
<1>1. Sound /\ Stream(in) /\ stack # <<>> /\ todo = "items"
  BY DEF Items, Running, Sound, IInv, TypeOK
<1>2. PICK i : i = Blank(in)
  OBVIOUS
<1>3. PICK j : j = Got(i)
  OBVIOUS
<1>4. Stream(i) /\ Stream(j) /\ Stream(Unget(j))
  BY <1>1, <1>2, <1>3, BlankStream, AfterGot
<1>5. \/ Throw("eof", j)
      \/ Close(Last(stack).fn, Last(stack).items, j)
      \/ Char(i) \in Macros /\ Macro(Char(i), j)
      \/ todo' = "read" /\ in' = Unget(j) /\ UNCHANGED <<stack, val, out, status>>
  BY <1>2, <1>3, Zenon DEF Items
<1>6. CASE todo' = "read" /\ in' = Unget(j) /\ UNCHANGED <<stack, val, out, status>>
  <2>1. Stream(in)' /\ in'.text \in Texts /\ in'.pos \in 0..End(in)'
        /\ (in'.eof \/ in'.fail => in'.pos = End(in)')
    BY <1>4, <1>6, TextLength DEF Stream, End
  <2>2. Calls(stack)'
    BY <1>1, <1>6 DEF Sound, IInv, Calls
  <2> QED
    BY <1>1, <1>6, <2>1, <2>2 DEF Sound, IInv, TypeOK
<1> QED
  BY <1>1, <1>4, <1>5, <1>6, Thrown, CloseStep, MacroStep

\* The call on top is replaced by one of its own kind, or of another.
LEMMA Replaced ==
  ASSUME Sound, stack # <<>>, NEW fn \in Functions, NEW items,
         stack' = Append(Front(stack), [fn |-> fn, items |-> items]), in' = in, status' = status,
         \/ todo' = "items" /\ fn \in DOMAIN Closers
         \/ todo' = "read"
  PROVE  IInv'
<1>1. Calls(Front(stack))
  BY Popped DEF Sound, IInv
<1>2. PICK u : u = Append(Front(stack), [fn |-> fn, items |-> items])
  OBVIOUS
<1>3. Calls(u) /\ u # <<>> /\ Last(u).fn = fn /\ \A k \in 1..Len(u) : u[k].fn \in Functions
  BY <1>1, <1>2, Pushed
<1> QED
  BY <1>2, <1>3 DEF Sound, IInv, TypeOK, Calls, Stream, End

LEMMA KeepStep ==
  ASSUME IInv, Keep
  PROVE  IInv'
<1>1. Sound /\ stack # <<>> /\ Last(stack).fn \in DOMAIN Closers
  BY DEF Keep, Running, Sound
<1>2. PICK f : f = Last(stack)
  OBVIOUS
<1>3. f.fn \in Functions /\ f = [fn |-> f.fn, items |-> f.items]
  BY <1>1, <1>2, Popped DEF Sound, IInv
<1>4. PICK x : x = Kept(f.items, val)
  OBVIOUS
<1>5. [f EXCEPT !.items = x] = [fn |-> f.fn, items |-> x]
  BY <1>3
<1>6. [f EXCEPT !.items = Kept(@, val)] = [f EXCEPT !.items = x]
  BY <1>4, Zenon
<1>7. /\ stack' = Append(Front(stack), [fn |-> f.fn, items |-> x])
      /\ todo' = "items" /\ in' = in /\ status' = status
  BY <1>2, <1>5, <1>6, Zenon DEF Keep
<1> QED
  BY <1>1, <1>2, <1>3, <1>7, Replaced

LEMMA WrapStep ==
  ASSUME IInv, Wrap \/ Discard
  PROVE  IInv'
<1>1. Sound /\ stack # <<>> /\ Stream(in)
  BY DEF Wrap, Discard, Running, Sound, IInv
<1>2. \/ \E items : Return(Coll("list", items))
      \/ Return(Noop)
  BY Zenon DEF Wrap, Discard
<1>3. Noop # EofValue /\ \A items : Coll("list", items) # EofValue
  BY CollNotEof DEF Coll, Noop, EofValue
<1> QED
  BY <1>1, <1>2, <1>3, Returned DEF Return

LEMMA MetaStep ==
  ASSUME IInv, MetaRead \/ MetaApply
  PROVE  IInv'
<1>1. Sound /\ stack # <<>> /\ Stream(in)
  BY DEF MetaRead, MetaApply, Running, Sound, IInv
<1>2. \/ Die
      \/ \E what : Throw(what, in)
      \/ \E entries : /\ stack' = Append(Front(stack), [fn |-> "target", items |-> entries])
                       /\ todo' = "read" /\ in' = in /\ status' = status
      \/ \E a, b, c : Return(<<a, b, c>>)
  BY Zenon DEF MetaRead, MetaApply
<1>3. "target" \in Functions
  BY DEF Functions
<1> QED
  BY <1>1, <1>2, <1>3, CollNotEof, Died, Thrown, Replaced, Returned DEF Return

LEMMA ReplyStep ==
  ASSUME IInv, Reply
  PROVE  IInv'
<1>1. Sound /\ stack = <<>>
  BY DEF Reply, Running, Sound
<1>2. /\ in' = in /\ stack' = stack
      /\ \/ status' = "exited" /\ todo' = todo /\ val' = val
         \/ todo' = "read" /\ status' = status
  BY Zenon DEF Reply
<1> QED
  BY <1>1, <1>2 DEF Sound, IInv, TypeOK, Calls, Stream, End, Loops

-------------------------------------------------------------------------------
\* However forms, tokens, comments, errors and the end of the text follow each
\* other: a stream of lispreader.cpp fails only at the end of its text, a
\* collection is read only for a call that waits for one, and no call inside
\* a form is given what stands for the end of the text.
THEOREM ReaderTyped == Spec => []TypeOK
<1>1. Init => IInv
  <2> SUFFICES ASSUME Init PROVE IInv
    OBVIOUS
  <2>1. PICK t \in Texts : in = Opened(t)
    BY DEF Init
  <2>2. in \in [text : Texts, pos : Nat, eof : BOOLEAN, fail : BOOLEAN]
        /\ in.text = t /\ in.pos = 0 /\ in.eof = FALSE /\ in.fail = FALSE
    BY <2>1 DEF Opened
  <2>3. Len(t) \in Nat
    BY <2>1, TextsAssumption
  <2>4. Stream(in)
    BY <2>2, <2>3 DEF Stream
  <2>5. Calls(stack) /\ Len(stack) = 0
    BY Open DEF Init
  <2>6. in.text \in Texts /\ in.pos \in 0..End(in) /\ (in.eof \/ in.fail => in.pos = End(in))
    BY <2>4, TextLength DEF Stream
  <2> QED
    BY <2>4, <2>5, <2>6 DEF Init, IInv, TypeOK
<1>2. IInv /\ [Next]_vars => IInv'
  BY ReadStep, NumberStep, StringStep, RegexStep, ItemsStep, KeepStep, WrapStep, MetaStep,
     ReplyStep, Spun DEF Next
<1>3. IInv => TypeOK
  BY DEF IInv
<1> QED
  BY <1>1, <1>2, <1>3, PTL DEF Spec
=================================================================================
