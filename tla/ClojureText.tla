------------------------------ MODULE ClojureText ------------------------------
(***************************************************************************)
(* What the forms of a text are: a grammar of the part of Clojure's syntax *)
(* that the reader knows, by recursive descent over positions, with no     *)
(* stream, no unget and no flags.  It uses the objects of LispReader, and  *)
(* nothing of how LispReader reads.                                        *)
(*                                                                         *)
(* A result is [kind, v, at]: "form" with the object, "none" for a comment *)
(* or a dropped form, "close", "end", "error", or "unsaid": of a comment   *)
(* where a form must stand, of metadata that gives a key two values, and   *)
(* of what follows these, nothing is said.                                 *)
(***************************************************************************)
EXTENDS LispReader, Lexemes

\* What follows a backslash outside strings.
IsCharacter(s) ==
  \/ Len(s) = 1 \/ s \in CharNames
  \/ Len(s) = 5 /\ s[1] = "u" /\ All(Tail(s), DigitsOf(16))
  \/ Len(s) \in 2..4 /\ s[1] = "o" /\ All(Tail(s), DigitsOf(8)) /\ Places(Tail(s), 8) < 256

NoDuplicates(keys) == \A i, j \in 1..Len(keys) : i # j => ~SameHash(keys[i], keys[j])

Collection(kind, items, at) ==
  IF \/ kind = "map" /\ (Len(items) % 2 = 1 \/ ~NoDuplicates(Keys(items)))
     \/ kind = "set" /\ ~NoDuplicates(items)
  THEN Res("error", Nil, at) ELSE Res("form", Coll(kind, items), at)

Entries(m) ==
  CASE m[1] = "map" -> m[2]
    [] m[1] = "key" -> <<m, True>>
    [] OTHER -> <<<<"key", Symbol(<<"tag">>)>>, m>>

\* The form, comment or closing delimiter at p, and the items up to a delimiter.
RECURSIVE Form(_, _), ItemsOf(_, _, _, _)
Form(t, p) ==
  LET q == Next_(t, p, Range(t) \ Space)
      c == t[q + 1]
      two == IF q + 2 <= Len(t) THEN SubSeq(t, q + 1, q + 2) ELSE <<>>
      e == Next_(t, q, Ends)
      s == Sub(t, q, e)
      number == \/ c \in DigitsOf(10)
                \/ c \in {"+", "-"} /\ q + 1 < Len(t) /\ t[q + 2] \in DigitsOf(10)
      \* f of the next form, which must be there
      After(at, f(_)) == LET r == Form(t, at) IN
        CASE r.kind = "form" -> f(r)
          [] r.kind \in {"none", "end"} -> Res("unsaid", Nil, r.at)
          [] r.kind = "close" -> Res("error", Nil, r.at)
          [] OTHER -> r
      wrap(sym, at) == After(at, LAMBDA r : Res("form", Coll("list", <<sym, r.v>>), r.at))
  IN CASE q = Len(t) -> Res("end", Nil, q)
       [] q < Len(t) /\ c \in DOMAIN Openers -> ItemsOf(t, q + 1, Openers[c], <<>>)
       [] q < Len(t) /\ two = <<"#", "{">> -> ItemsOf(t, q + 2, "set", <<>>)
       [] q < Len(t) /\ c \in {")", "]", "}"} -> Res("close", c, q + 1)
       [] q < Len(t) /\ c = "'" -> wrap(Quoting.quote, q + 1)
       [] q < Len(t) /\ c = "@" -> wrap(Quoting.deref, q + 1)
       [] q < Len(t) /\ c = "~" ->
            IF two = <<"~", "@">> THEN wrap(Quoting.splice, q + 2) ELSE wrap(Quoting.unquote, q + 1)
       [] q < Len(t) /\ two = <<"#", "'">> -> wrap(Quoting.var, q + 2)
       [] q < Len(t) /\ (c = ";" \/ two = <<"#", "!">>) ->
            LET n == Next_(t, q, {"\n"}) IN Res("none", Nil, IF n = Len(t) THEN n ELSE n + 1)
       [] q < Len(t) /\ two = <<"#", "_">> -> After(q + 2, LAMBDA r : Res("none", Nil, r.at))
       [] q < Len(t) /\ (c = "^" \/ two = <<"#", "^">>) ->
            After(IF c = "^" THEN q + 1 ELSE q + 2, LAMBDA m :
              IF m.v[1] \notin {"map", "key", "sym", "str"} THEN Res("error", Nil, m.at)
              ELSE After(m.at, LAMBDA r :
                IF r.v[1] \notin {"vector", "map", "set"} THEN Res("error", Nil, r.at)
                ELSE IF ~NoDuplicates(Keys(r.v[3] \o Entries(m.v))) THEN Res("unsaid", Nil, r.at)
                ELSE Res("form", <<r.v[1], r.v[2], r.v[3] \o Entries(m.v)>>, r.at)))
       [] q < Len(t) /\ c = "\"" -> Body(t, q + 1, <<>>)
       [] q < Len(t) /\ number ->
            IF Num(s)[1] = "error" THEN Res("error", Nil, e) ELSE Res("form", Num(s), e)
       [] q < Len(t) /\ c = "\\" ->
            LET h == IF q + 1 < Len(t) THEN Next_(t, q + 2, Ends) ELSE Len(t)
            IN IF q + 1 < Len(t) /\ IsCharacter(Sub(t, q + 1, h))
               THEN Res("form", <<"char", Sub(t, q + 1, h)>>, h) ELSE Res("error", Nil, h)
       [] q < Len(t) /\ c \in {"#", "%", "backquote"} -> Res("error", Nil, q + 1)
       [] OTHER -> Res("form", IF s \in Literals THEN Literal(s)
                               ELSE IF c = ":" THEN <<"key", Symbol(Tail(s))>> ELSE Symbol(s), e)

ItemsOf(t, p, kind, items) ==
  LET r == Form(t, p) IN
  CASE r.kind = "close" /\ r.v = Closers[kind] -> Collection(kind, items, r.at)
    [] r.kind = "form" -> ItemsOf(t, r.at, kind, Append(items, r.v))
    [] r.kind = "none" -> ItemsOf(t, r.at, kind, items)
    [] r.kind = "unsaid" -> r
    [] OTHER -> Res("error", Nil, r.at)

\* What the loop prints for a text up to the first error, which ends it.
RECURSIVE Replies(_, _, _)
Replies(t, p, done) ==
  LET r == Form(t, p) IN
  CASE r.kind = "form" -> Replies(t, r.at, Append(done, <<"form", r.v>>))
    [] r.kind = "end" -> done
    [] r.kind \in {"none", "unsaid"} -> Append(done, <<"unsaid">>)
    [] OTHER -> Append(done, <<"error">>)

===============================================================================
