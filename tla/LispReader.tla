------------------------------ MODULE LispReader ------------------------------
(***************************************************************************)
(* The reader and the loop of the C++ program: LispReader::read and the    *)
(* macro functions of src/c++/lispreader.cpp, called by cpp_repl of        *)
(* repl.cpp on one text until it ends.                                     *)
(*                                                                         *)
(* The functions call each other recursively; stack holds the calls that   *)
(* are waiting for read() to return, the last one on top.  Numbers,        *)
(* strings and regular expressions are read by one step for each get() of  *)
(* their loops, other tokens in one step.                                  *)
(***************************************************************************)
EXTENDS ReadNumber

CONSTANTS
  Texts,        \* the inputs
  HashOf(_),    \* hashCode of the classes in Hashed, below
  BadPatterns   \* the regular expressions std::regex rejects

ASSUME TextsAssumption == \A t \in Texts : t \in Seq(STRING) /\ Eof \notin Range(t)

VARIABLES
  in,      \* the stream
  stack,   \* waiting calls: [fn, items], with what each has so far
  todo,    \* "read": a call of read(); "items": the loop of read_delimited_list;
           \* "number", "string", "regex": the loops of these; "give": val is
           \* returned to the call on top of the stack
  val,     \* the object returned, or what a loop has collected
  out,     \* what the loop printed: forms and error messages
  status   \* "running", "exited", or "aborted" by what nothing catches

vars == <<in, stack, todo, val, out, status>>

-------------------------------------------------------------------------------
(* Objects. Symbols, keywords, strings and numbers carry what was read;     *)
(* collections their items in reading order (a map its keys and values in   *)
(* turn) and their metadata, a sequence like that of a map.                 *)

Nil == <<"nil">>
True == <<"bool", TRUE>>
False == <<"bool", FALSE>>
Noop == <<"noop">>
EofValue == <<"eof">>

Symbol(name) == <<"sym", <<>>, name>>
Quoting == [quote |-> Symbol(<<"quote">>), deref |-> Symbol(<<"deref">>),
            var |-> Symbol(<<"var">>), unquote |-> Symbol(<<"unquote">>),
            splice |-> Symbol(<<"unquote-splicing">>)]

Coll(kind, items) == <<kind, items, <<>>>>

\* Maps and sets order their keys by hash code and ask for nothing else. Only these
\* have one that is the same for equal objects; the others are hashed by address,
\* which is taken for no hash code of another object.
Hashed == {"sym", "key", "str", "int", "real", "ratio", "bool"}
SameHash(a, b) == {a[1], b[1]} \subseteq Hashed /\ HashOf(a) = HashOf(b)

Keys(items) == [k \in 1..(Len(items) \div 2) |-> items[2 * k - 1]]

\* The first insertion that goes wrong: nil has no hash code to compare.
Clashes(keys) ==
  {j \in 2..Len(keys) : \/ Nil \in {keys[1], keys[j]}
                        \/ \E i \in 1..(j - 1) : SameHash(keys[i], keys[j])}

-------------------------------------------------------------------------------
(* How a function ends. *)

Give(v, i) ==
  /\ val' = v /\ in' = i /\ todo' = "give"
  /\ UNCHANGED <<stack, out, status>>

\* A string that the loop catches and prints, and reads on.
Throw(what, i) ==
  /\ out' = Append(out, <<"error", what>>)
  /\ stack' = <<>> /\ todo' = "read" /\ val' = Nil /\ in' = i
  /\ UNCHANGED status

\* An exception of the standard library, or a null pointer.
Die ==
  /\ status' = "aborted"
  /\ UNCHANGED <<in, stack, todo, val, out>>

Call_faulty(fn, items, i) ==
  /\ stack' = Append(stack, [fn |-> fn, items |-> items])
  /\ todo' = "items" /\ val' = Nil /\ in' = i
  /\ UNCHANGED <<out, status>>

\* read() or read_delimited_list is called.
Call(fn, items, i) ==
  /\ stack' = Append(stack, [fn |-> fn, items |-> items])
  /\ todo' = IF fn \in {"list", "vector", "map", "set"} THEN "items" ELSE "read"
  /\ val' = Nil /\ in' = i
  /\ UNCHANGED <<out, status>>

\* The call on top of the stack returns v.
Return(v) ==
  /\ stack' = Front(stack) /\ val' = v /\ todo' = "give"
  /\ UNCHANGED <<in, out, status>>

\* A loop over a stream that has failed without eofbit never ends.
Spin == UNCHANGED vars

-------------------------------------------------------------------------------
(* Functions that call no other. i is the stream they are called with. *)

\* White space is skipped by get(), if the stream is good.
Blank(i) ==
  IF i.eof \/ i.fail THEN i ELSE To(i, Reach(i, Range(i.text) \ Space))

\* Read up to position p by get(), which sees the end or what stops there, and
\* unget().
Upto(i, p) == Unget(Past(i, p))

\* A loop is entered.
Enter(loop, start, i) ==
  /\ todo' = loop /\ val' = start /\ in' = i
  /\ UNCHANGED <<stack, out, status>>

Slashes(s) == {k \in 1..Len(s) : s[k] = "/"}

\* The constructor of Symbol: the namespace loses its last character.
Named(s) ==
  IF Slashes(s) = {} THEN Symbol(s)
  ELSE LET k == Max(Slashes(s)) IN
       <<"sym", IF k = 1 THEN s ELSE SubSeq(s, 1, k - 2), SubSeq(s, k + 1, Len(s))>>

Literals == {<<"n", "i", "l">>, <<"t", "r", "u", "e">>, <<"f", "a", "l", "s", "e">>}

Literal(s) == CASE s[1] = "n" -> Nil [] s[1] = "t" -> True [] OTHER -> False

\* Tokens that read_token returns a null pointer, nil, for.
Mistaken(s) ==
  s[Len(s)] = ":" \/ \E k \in 1..(Len(s) - 1) : s[k] = ":" /\ s[k + 1] = ":"

\* ns.substr(ns.size() - 3) needs three characters up to the last slash.
Token(i) ==
  LET p == Reach(i, Ends)
      s == Between(i, p)
      short == Slashes(s) # {} /\ Max(Slashes(s)) < 3
  IN CASE s[Len(s)] = "/"              -> Throw("token", Upto(i, p))
       [] s \in Literals               -> Give(Literal(s), Upto(i, p))
       [] short /\ s[Len(s)] # "/"     -> Die
       [] OTHER -> Give(IF Mistaken(s) THEN Nil
                        ELSE IF s[1] = ":" THEN <<"key", Named(Tail(s))>>
                        ELSE Named(s), Upto(i, p))

Comment(i) == Give(Noop, Past(i, Reach(i, {"\n", "\r"})))

CharNames == {<<"n", "e", "w", "l", "i", "n", "e">>, <<"s", "p", "a", "c", "e">>,
              <<"t", "a", "b">>, <<"b", "a", "c", "k", "s", "p", "a", "c", "e">>,
              <<"f", "o", "r", "m", "f", "e", "e", "d">>, <<"r", "e", "t", "u", "r", "n">>}

\* After the backslash. Digits that are none make stol throw.
Character(i) ==
  LET p == Reach(Got(i), Ends)
      s == Between(i, p)
      j == Upto(Got(i), p)
      coded(base) == \A k \in 2..Len(s) : DigitIn(s[k], base)
  IN CASE Char(i) = Eof -> Throw("eof", Got(i))
       [] Char(i) # Eof /\ (Len(s) = 1 \/ s \in CharNames) -> Give(<<"char", s>>, j)
       [] Char(i) = "u" /\ Len(s) > 1 ->
            IF Len(s) # 5 THEN Throw("unicode", j)
            ELSE IF ~coded(16) THEN Die ELSE Give(<<"char", s>>, j)
       [] Char(i) = "o" /\ Len(s) > 1 ->
            IF Len(s) > 4 THEN Throw("octal", j)
            ELSE IF ~coded(8) THEN Die
            ELSE IF Whole(Tail(s), 8) > 255 THEN Throw("octal", j)
            ELSE Give(<<"char", s>>, j)
       [] OTHER -> Throw("character", j)

-------------------------------------------------------------------------------
(* getmacro: what each macro character does, given the stream behind it. *)

\* What the loops of read_string and read_regex start with.
TextStart == [after |-> "text", unit |-> <<>>, buf |-> <<>>]

Openers == [c \in {"(", "[", "{"} |->
              CASE c = "(" -> "list" [] c = "[" -> "vector" [] c = "{" -> "map"]
Closers == [list |-> ")", vector |-> "]", map |-> "}", set |-> "}"]

Unquote(i) ==
  CASE Char(i) = Eof -> Throw("eof", Got(i))
    [] Char(i) = "@" -> Call("wrap", <<Quoting.splice>>, Got(i))
    [] OTHER         -> Call("wrap", <<Quoting.unquote>>, i)

Dispatch(i) ==
  LET c == Char(i)
      j == Got(i)
  IN CASE c = Eof  -> Throw("eof", j)
       [] c = "{"  -> Call("set", <<>>, j)
       [] c = "^"  -> Call("meta", <<>>, j)
       [] c = "'"  -> Call("wrap", <<Quoting.var>>, j)
       [] c = "\"" -> Enter("regex", TextStart, j)
       [] c = "!"  -> Comment(j)
       [] c = "_"  -> Call("discard", <<>>, j)
       [] OTHER    -> Throw("dispatch", j)

Macro(c, i) ==
  CASE c \in DOMAIN Openers    -> Call(Openers[c], <<>>, i)
    [] c \in {")", "]", "}"}   -> Throw("unmatched", i)
    [] c = "'"  -> Call("wrap", <<Quoting.quote>>, i)
    [] c = "@"  -> Call("wrap", <<Quoting.deref>>, i)
    [] c = "^"  -> Call("meta", <<>>, i)
    [] c = "~"  -> Unquote(i)
    [] c = "#"  -> Dispatch(i)
    [] c = ";"  -> Comment(i)
    [] c = "\"" -> Enter("string", TextStart, i)
    [] c = "\\" -> Character(i)
    [] c \in {"backquote", "%"} -> Throw("todo", i)

-------------------------------------------------------------------------------
(* The steps. *)

Running(what) == status = "running" /\ todo = what

IsNumber(i) ==
  \/ DigitIn(Char(i), 10)
  \/ Char(i) \in {"+", "-"} /\ DigitIn(Char(Got(i)), 10)

\* One call of read(). Whatever the caller said of eof_is_error, the end of the
\* text is a value.
Read ==
  /\ Running("read")
  /\ LET i == Blank(in)
         c == Char(i)
     IN \/ c = Eof /\ Got(i).eof /\ Give(IF stack = <<>> THEN EofValue ELSE Nil, Got(i))
        \/ c = Eof /\ ~Got(i).eof /\ Spin
        \/ IsNumber(i) /\ Enter("number", Start, i)
        \/ c \in Macros /\ Macro(c, Got(i))
        \/ c # Eof /\ ~IsNumber(i) /\ c \notin Macros /\ Token(i)

\* Once round a loop of read_number, where the stream is put back by a character
\* that ends what needs one more.
Number ==
  /\ Running("number")
  /\ LET c == Char(in)
         j == Got(in)
         ends == c \in Ends \/ j.eof
     IN \/ /\ ends /\ val.after = "loop"
           /\ \E r \in Numbers(val) :
                \/ r = Abort /\ Die
                \/ r[1] = "error" /\ Throw(r[2], Unget(j))
                \/ r # Abort /\ r[1] # "error" /\ Give(r, Unget(j))
        \/ /\ ~(ends /\ val.after = "loop") /\ c = Eof /\ ~j.eof
           /\ Spin
        \/ /\ val.after = "loop" /\ ~ends /\ IsRadix(val, c) /\ RadixOf(val.buf) > 36
           /\ Throw("radix", j)
        \/ /\ ~(ends /\ val.after = "loop") /\ (c # Eof \/ j.eof)
           /\ ~(val.after = "loop" /\ IsRadix(val, c) /\ RadixOf(val.buf) > 36)
           /\ Enter("number", Feed(val, c, ends),
                    IF ends /\ val.after \in {"slash", "suffix"} THEN Unget(j) ELSE j)

\* A string is collected in units, each spelled as the source spells it (except
\* \", of which the reader makes a single quote).
Collected(m, u) == [m EXCEPT !.buf = Append(@, u), !.after = "text"]

Simple == {"b", "n", "t", "f", "r", "\\"}

Plain(m, c, j) ==
  CASE c = "\"" -> Give(<<"str", m.buf>>, j)
    [] c = "\\" -> Enter("string", [m EXCEPT !.after = "escape"], j)
    [] OTHER    -> Enter("string", Collected(m, <<c>>), j)

Escape(m, c, j) ==
  CASE DigitIn(c, 8) -> Enter("string", [m EXCEPT !.after = "octal", !.unit = <<"\\", c>>], j)
    [] c = "u"       -> Enter("string", [m EXCEPT !.after = "hex", !.unit = <<"\\", c>>], j)
    [] c \in Simple  -> Enter("string", Collected(m, <<"\\", c>>), j)
    [] c = "\""      -> Enter("string", Collected(m, <<"'">>), j)
    [] OTHER         -> Throw("escape", j)

\* One to three octal digits, or four hexadecimal ones. What follows them is put
\* back; after fewer than three octal digits it must be a backslash.
Octal(m, c, j) ==
  IF Len(m.unit) < 4 /\ DigitIn(c, 8) THEN Enter("string", [m EXCEPT !.unit = Append(@, c)], j)
  ELSE IF Len(m.unit) < 4 /\ c # "\\" THEN Throw("digit", Unget(j))
  ELSE Enter("string", Collected(m, m.unit), Unget(j))

Hex(m, c, j) ==
  IF Len(m.unit) < 6 /\ DigitIn(c, 16) THEN Enter("string", [m EXCEPT !.unit = Append(@, c)], j)
  ELSE IF Len(m.unit) < 6 THEN Throw("length", j)
  ELSE Enter("string", Collected(m, m.unit), Unget(j))

\* Once round the loop of read_string, and of read_regex, where a backslash and
\* what follows it go together.
String ==
  /\ Running("string")
  /\ LET c == Char(in)
         j == Got(in)
     IN CASE j.eof -> Throw("eof", j)
          [] ~j.eof /\ val.after = "text"   -> Plain(val, c, j)
          [] ~j.eof /\ val.after = "escape" -> Escape(val, c, j)
          [] ~j.eof /\ val.after = "octal"  -> Octal(val, c, j)
          [] ~j.eof /\ val.after = "hex"    -> Hex(val, c, j)

Regex ==
  /\ Running("regex")
  /\ LET c == Char(in)
         j == Got(in)
         quoted == val.after = "escape"
     IN CASE j.eof -> Throw("eof", j)
          [] ~j.eof /\ ~quoted /\ c = "\"" ->
               IF val.buf \in BadPatterns THEN Throw("pattern", j)
               ELSE Give(<<"pattern", val.buf>>, j)
          [] OTHER ->
               Enter("regex", [Collected(val, c) EXCEPT
                                 !.after = IF ~quoted /\ c = "\\" THEN "escape" ELSE "text"], j)

\* read_list, read_vector, read_map and read_set with all their items.
Close(kind, items, i) ==
  LET keys == IF kind = "map" THEN Keys(items) ELSE items
      j == Min(Clashes(keys))
  IN CASE kind = "map" /\ Len(items) % 2 = 1 -> Throw("odd", i)
       [] kind \in {"map", "set"} /\ ~(kind = "map" /\ Len(items) % 2 = 1)
            /\ Clashes(keys) # {} ->
            IF Nil \in {keys[1], keys[j]} THEN Die ELSE Throw("duplicate", i)
       [] OTHER -> /\ stack' = Front(stack)
                   /\ val' = Coll(kind, items) /\ in' = i /\ todo' = "give"
                   /\ UNCHANGED <<out, status>>

\* An unmatched ] and the like are macros, too.
EndsItems_faulty(i) == FALSE

\* The check behind the loop that skips white space.
EndsItems(i) == Char(i) = Eof /\ Got(i).eof

\* Once round the loop of read_delimited_list.
Items ==
  /\ Running("items")
  /\ LET i == Blank(in)
         c == Char(i)
         f == Last(stack)
     IN CASE EndsItems(i) -> Throw("eof", Got(i))
          [] ~EndsItems(i) /\ c = Closers[f.fn] -> Close(f.fn, f.items, Got(i))
          [] c \in Macros \ {Closers[f.fn]}     -> Macro(c, Got(i))
          [] OTHER -> /\ todo' = "read" /\ in' = Unget(Got(i))
                      /\ UNCHANGED <<stack, val, out, status>>

\* What read_delimited_list keeps of what it read.
Kept_faulty(items, v) == Append(items, v)

Kept(items, v) == IF v = Noop THEN items ELSE Append(items, v)

Keep ==
  /\ Running("give") /\ stack # <<>> /\ Last(stack).fn \in DOMAIN Closers
  /\ stack' = Append(Front(stack), [Last(stack) EXCEPT !.items = Kept(@, val)])
  /\ todo' = "items" /\ val' = Nil
  /\ UNCHANGED <<in, out, status>>

\* wrap_read, and #_ which drops what it read.
Wrap ==
  /\ Running("give") /\ stack # <<>> /\ Last(stack).fn = "wrap"
  /\ Return(Coll("list", Append(Last(stack).items, val)))

Discard ==
  /\ Running("give") /\ stack # <<>> /\ Last(stack).fn = "discard"
  /\ Return(Noop)

\* read_meta with the metadata read, and then with the object.
MetaRead ==
  /\ Running("give") /\ stack # <<>> /\ Last(stack).fn = "meta"
  /\ LET kind == val[1]
         entries == CASE kind = "map" -> val[2]
                      [] kind = "key" -> <<val, True>>
                      [] OTHER -> <<<<"key", Symbol(<<"tag">>)>>, val>>
     IN \/ val = Nil /\ Die
        \/ /\ kind \in {"map", "key", "sym", "str", "noop"}
           /\ stack' = Append(Front(stack), [fn |-> "target", items |-> entries])
           /\ todo' = "read" /\ val' = Nil
           /\ UNCHANGED <<in, out, status>>
        \/ /\ kind \notin {"map", "key", "sym", "str", "noop", "nil"}
           /\ Throw("meta", in)

\* Map::assoc, which inserts and so never replaces, for each entry.
Assoc(old, new) ==
  old \o FlattenSeq([k \in 1..(Len(new) \div 2) |->
           IF \E j \in 1..Len(Keys(old)) : SameHash(Keys(old)[j], Keys(new)[k])
           THEN <<>> ELSE SubSeq(new, 2 * k - 1, 2 * k)])

MetaApply ==
  /\ Running("give") /\ stack # <<>> /\ Last(stack).fn = "target"
  /\ LET new == Last(stack).items
         old == val[3]
     IN \/ val = Nil /\ Die
        \/ /\ val[1] \in {"vector", "map", "set"}
           /\ IF old # <<>> /\ new # <<>> /\ Nil \in Range(Keys(old)) \cup Range(Keys(new))
              THEN Die
              ELSE Return(<<val[1], val[2], Assoc(old, new)>>)
        \/ val[1] \notin {"vector", "map", "set", "nil"} /\ Throw("target", in)

\* cpp_repl: print, or leave at the end of the text.
Reply ==
  /\ Running("give") /\ stack = <<>>
  /\ IF val = EofValue
     THEN status' = "exited" /\ UNCHANGED <<in, stack, todo, val, out>>
     ELSE /\ out' = Append(out, <<"form", val>>)
          /\ todo' = "read" /\ val' = Nil
          /\ UNCHANGED <<in, stack, status>>

Init ==
  /\ \E t \in Texts : in = Opened(t)
  /\ stack = <<>> /\ todo = "read" /\ val = Nil /\ out = <<>> /\ status = "running"

Next == Read \/ Number \/ String \/ Regex \/ Items \/ Keep \/ Wrap \/ Discard \/ MetaRead \/ MetaApply \/ Reply

\* The loop runs on its own: only the end of the text or an abort stops it.
Spec == Init /\ [][Next]_vars /\ WF_vars(Next)

-------------------------------------------------------------------------------
Functions == {"list", "vector", "map", "set", "wrap", "discard", "meta", "target"}

\* The stream is in range and fails only at the end of the text; a loop over
\* items belongs to a call that collects some; the value that stands for the end
\* of the text is never seen by a call inside a form.
TypeOK ==
  /\ in.text \in Texts /\ in.pos \in 0..End(in)
  /\ in.eof \/ in.fail => in.pos = End(in)
  /\ \A k \in 1..Len(stack) : stack[k].fn \in Functions
  /\ todo \in {"read", "items", "give", "number", "string", "regex"}
  /\ todo = "items" => stack # <<>> /\ Last(stack).fn \in DOMAIN Closers
  /\ todo = "give" /\ stack # <<>> => val # EofValue
  /\ status \in {"running", "exited", "aborted"}
===============================================================================
