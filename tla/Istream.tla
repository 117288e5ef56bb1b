------------------------------- MODULE Istream -------------------------------
(***************************************************************************)
(* std::istream over a text, as far as the reader uses it: one character   *)
(* at a time, put back by unget(), with eofbit and failbit. A character is *)
(* a string of length one (or "backquote", which TLA+ cannot spell).       *)
(***************************************************************************)
EXTENDS Integers, Sequences

\* traits::eof(), what get() returns when there is nothing.
Eof == "EOF"

Opened(text) == [text |-> text, pos |-> 0, eof |-> FALSE, fail |-> FALSE]

End(i) == Len(i.text)

\* What get() returns, and the stream after it. At the end both bits are set;
\* a get() on a stream that is not good() only sets failbit.
Char(i) == IF i.eof \/ i.fail \/ i.pos = End(i) THEN Eof ELSE i.text[i.pos + 1]

Got(i) ==
  IF i.eof \/ i.fail THEN [i EXCEPT !.fail = TRUE]
  ELSE IF i.pos = End(i) THEN [i EXCEPT !.eof = TRUE, !.fail = TRUE]
  ELSE [i EXCEPT !.pos = @ + 1]

\* unget() clears eofbit first. After a get() at the end failbit stays, and
\* with it nothing is put back.
Unget(i) ==
  IF i.fail THEN [i EXCEPT !.eof = FALSE] ELSE [i EXCEPT !.eof = FALSE, !.pos = @ - 1]

\* Where the first character of S is, at or after the position of a good
\* stream: what a loop of get() that stops at S has before it.
Reach(i, S) ==
  CHOOSE p \in i.pos..End(i) :
    /\ p = End(i) \/ i.text[p + 1] \in S
    /\ \A q \in i.pos..(p - 1) : i.text[q + 1] \notin S

Between(i, p) == SubSeq(i.text, i.pos + 1, p)

\* A stream read to position p, and one that get() moves beyond it.
To(i, p) == [i EXCEPT !.pos = p]

Past(i, p) == Got(To(i, p))
===============================================================================
