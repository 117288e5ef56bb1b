--------------------------------- MODULE CText ---------------------------------
(***************************************************************************)
(* The forms of a text for the C program: lists, strings, numbers and      *)
(* tokens (which are all 0), by recursive descent. Results are as in       *)
(* ClojureText. A number ends at white space and a sign stands before a    *)
(* digit, since the reader promises nothing else; strings are not empty.   *)
(***************************************************************************)
EXTENDS CReader, Lexemes

RECURSIVE CForm(_, _), CItems(_, _, _)
CForm(t, p) ==
  LET q == Next_(t, p, Range(t) \ Space)
      c == t[q + 1]
      e == Next_(t, q, Space \cup (Macros \ {"#"}))
      n == Next_(t, q, Space)
      s == Sub(t, q, n)
  IN CASE q = Len(t) -> Res("end", Null, q)
       [] q < Len(t) /\ c = "(" -> CItems(t, q + 1, <<>>)
       [] q < Len(t) /\ c = ")" -> Res("close", Null, q + 1)
       [] q < Len(t) /\ c = "\"" ->
            LET b == Body(t, q + 1, <<>>) IN
            IF b.kind = "form" /\ b.v[2] = <<>> THEN Res("unsaid", Null, b.at) ELSE b
       [] q < Len(t) /\ (Digit(c) \/ (c \in {"+", "-"} /\ q + 1 < Len(t) /\ Digit(t[q + 2]))) ->
            IF Num(s)[1] = "error" THEN Res("unsaid", Null, n) ELSE Res("form", Num(s), n)
       [] q < Len(t) /\ c \in Macros \ {"(", ")", "\""} -> Res("error", Null, q + 1)
       [] OTHER -> Res("form", symbol, e)

CItems(t, p, items) ==
  LET r == CForm(t, p) IN
  CASE r.kind = "close" -> Res("form", IF items = <<>> THEN Null ELSE <<"list", items>>, r.at)
    [] r.kind = "form" -> CItems(t, r.at, Append(items, r.v))
    [] r.kind = "unsaid" -> r
    [] OTHER -> Res("error", Null, r.at)

\* What the loop prints up to the first error.
RECURSIVE CReplies(_, _, _)
CReplies(t, p, done) ==
  LET r == CForm(t, p) IN
  CASE r.kind = "form" -> CReplies(t, r.at, Append(done, <<"form", r.v>>))
    [] r.kind = "end" -> done
    [] r.kind = "unsaid" -> Append(done, <<"unsaid">>)
    [] OTHER -> Append(done, <<"error">>)

\* Value v of the reader is the form w, but for numbers that were overwritten.
RECURSIVE Same(_, _)
Same(v, w) ==
  \/ v = w
  \/ v = Junk /\ w[1] \in {"int", "ratio", "real"}
  \/ /\ v[1] = "list" /\ w[1] = "list" /\ Len(v[2]) = Len(w[2])
     /\ \A k \in 1..Len(v[2]) : Same(v[2][k], w[2][k])
===============================================================================
