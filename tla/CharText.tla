------------------------------- MODULE CharText -------------------------------
(***************************************************************************)
(* What utf8.h promises: a text is a sequence of characters, an index into *)
(* it is the number of a character, and bytes do not show.                 *)
(***************************************************************************)
EXTENDS Integers, Sequences, SequencesExt

VARIABLES
  text,   \* the characters
  k,      \* the index, a number of characters
  said,   \* what was escaped, step by step, up to here
  call    \* [op, num, ret]: the last call, its argument and its answer

vars == <<text, k, said, call>>

Init == k = 0 /\ said = <<>> /\ call = [op |-> "open", num |-> 0, ret |-> 0]

\* A call called op that moves to character n and answers r.
Does(op, n, r) ==
  /\ call'.op = op /\ call'.ret = r
  /\ k' = n /\ n \in 0..Len(text)
  /\ said' = <<>> /\ UNCHANGED text

Before == SubSeq(text, 1, k)

\* The number of characters before the first, or the last, that is num; all of
\* them when none is.
FirstIn(t, ch) == Min({n \in 0..Len(t) : n = Len(t) \/ t[n + 1] = ch})
LastIn(t, ch) ==
  LET places == {n \in DOMAIN t : t[n] = ch}
  IN IF places = {} THEN Len(t) ELSE Max(places) - 1

Move ==
  \/ Does("inc", k + 1, 0)
  \/ Does("dec", k - 1, 0)
  \/ Does("offset", call'.num, 0)
  \/ k < Len(text) /\ Does("nextchar", k + 1, text[k + 1])
  \/ k < Len(text) /\ Does("nextmemchar", k + 1, text[k + 1])

Ask ==
  \/ Does("charnum", k, k)
  \/ Does("strlen", k, Len(text))
  \/ Does("toucs", k, IF call'.num < k THEN SubSeq(text, 1, call'.num) ELSE Before)
  \/ Does("isvalid", k, TRUE)

\* To the character that is found, or to the end of what was searched.
Find ==
  \/ Does("strchr", FirstIn(text, call'.num), FirstIn(text, call'.num))
  \/ Does("memchr", FirstIn(Before, call'.num), FirstIn(Before, call'.num))
  \/ Does("memrchr", LastIn(Before, call'.num), 0)

Rewrite == Does("toutf8", 0, text)

Turn ==
  /\ call'.op = "reverse"
  /\ text' = Reverse(text) /\ k' = 0 /\ said' = <<>>

\* At least one more character, so that a client comes to the end.
Escape ==
  /\ call'.op = "escape"
  /\ \E n \in (k + 1)..Len(text) : k' = n /\ said' = said \o SubSeq(text, k + 1, n)
  /\ UNCHANGED text

Next == Move \/ Ask \/ Find \/ Rewrite \/ Turn \/ Escape

Spec == Init /\ [][Next]_vars
===============================================================================
