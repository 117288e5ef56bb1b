------------------------------- MODULE Lexemes -------------------------------
(***************************************************************************)
(* What numbers and strings spell, for the grammars the readers are        *)
(* compared with: by the shape of the whole lexeme, not character by       *)
(* character.                                                              *)
(***************************************************************************)
EXTENDS Chars, FiniteSetsExt

Res(kind, v, at) == [kind |-> kind, v |-> v, at |-> at]

\* The least position from p on that is the end or has a character in S.
Next_(t, p, S) == Min({q \in p..Len(t) : q = Len(t) \/ t[q + 1] \in S})

Sub(t, p, q) == SubSeq(t, p + 1, q)

All(s, S) == s # <<>> /\ Range(s) \subseteq S

DigitsOf(base) == {Digits[k] : k \in 1..base}

\* The sum of the digits' place values.
Places(s, base) == FoldLeft(LAMBDA a, b : a + b, 0,
  [k \in 1..Len(s) |-> Value(s[k]) * base^(Len(s) - k)])

\* The number that the characters s spell, if any. sign is 1 or -1.
Unsigned(s, sign) ==
  LET n == Len(s)
      plain == IF s[n] = "N" /\ n > 1 THEN Front(s) ELSE s
      from(k) == SubSeq(s, k, n)
      dot == {k \in 1..n : s[k] = "."}
      exp == {k \in 2..n : s[k] = "e"}
      mantissa(m) == \/ All(m, DigitsOf(10))
                     \/ \E k \in 2..Len(m) : /\ m[k] = "." /\ All(SubSeq(m, 1, k - 1), DigitsOf(10))
                                             /\ \A j \in (k + 1)..Len(m) : m[j] \in DigitsOf(10)
      power(e) == All(e, DigitsOf(10)) \/ (e # <<>> /\ e[1] \in {"+", "-"} /\ All(Tail(e), DigitsOf(10)))
  IN CASE s = <<"0">> -> <<"int", 0>>
       [] s[1] = "0" /\ All(from(2), DigitsOf(8)) -> <<"int", sign * Places(from(2), 8)>>
       [] n > 2 /\ s[1] = "0" /\ s[2] = "x" /\ All(from(3), DigitsOf(16)) ->
            <<"int", sign * Places(from(3), 16)>>
       [] s[1] # "0" /\ All(plain, DigitsOf(10)) -> <<"int", sign * Places(plain, 10)>>
       [] \E k \in 2..(n - 1) :
            /\ s[k] = "r" /\ s[1] # "0" /\ All(SubSeq(s, 1, k - 1), DigitsOf(10))
            /\ Places(SubSeq(s, 1, k - 1), 10) \in 2..36
            /\ All(from(k + 1), DigitsOf(Places(SubSeq(s, 1, k - 1), 10))) ->
            LET k == Min({j \in 2..n : s[j] = "r"})
            IN <<"int", sign * Places(from(k + 1), Places(SubSeq(s, 1, k - 1), 10))>>
       [] \E k \in 2..(n - 1) :
            s[k] = "/" /\ All(SubSeq(s, 1, k - 1), DigitsOf(10)) /\ All(from(k + 1), DigitsOf(10)) ->
            LET k == Min({j \in 2..n : s[j] = "/"})
            IN <<"ratio", sign * Places(SubSeq(s, 1, k - 1), 10), Places(from(k + 1), 10)>>
       [] (dot # {} \/ exp # {})
            /\ mantissa(IF exp = {} THEN s ELSE SubSeq(s, 1, Min(exp) - 1))
            /\ (exp # {} => power(from(Min(exp) + 1))) ->
            <<"real", IF sign = 1 THEN s ELSE <<"-">> \o s>>
       [] OTHER -> <<"error">>

Num(s) == IF s[1] \in {"+", "-"} THEN Unsigned(Tail(s), IF s[1] = "-" THEN -1 ELSE 1)
          ELSE Unsigned(s, 1)

\* A string's body from p on: units up to the closing quote.
RECURSIVE Body(_, _, _)
Body(t, p, buf) ==
  LET unit(n) == IF p + n <= Len(t) THEN Sub(t, p, p + n) ELSE <<>>
  IN CASE p >= Len(t) -> Res("error", <<>>, Len(t))
       [] unit(1) = <<"\"">> -> Res("form", <<"str", buf>>, p + 1)
       [] p < Len(t) /\ t[p + 1] \notin {"\"", "\\"} -> Body(t, p + 1, Append(buf, unit(1)))
       [] unit(2) # <<>> /\ t[p + 1] = "\\" /\ t[p + 2] \in {"b", "n", "t", "f", "r", "\\"} -> Body(t, p + 2, Append(buf, unit(2)))
       [] unit(4) # <<>> /\ t[p + 1] = "\\" /\ All(Sub(t, p + 1, p + 4), DigitsOf(8)) ->
            Body(t, p + 4, Append(buf, unit(4)))
       [] unit(6) # <<>> /\ t[p + 1] = "\\" /\ t[p + 2] = "u" /\ All(Sub(t, p + 2, p + 6), DigitsOf(16)) ->
            Body(t, p + 6, Append(buf, unit(6)))
       [] OTHER -> Res("error", <<>>, p)
===============================================================================
