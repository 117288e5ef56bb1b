------------------------------- MODULE MCCReader -------------------------------
(***************************************************************************)
(* Texts for TLC: families that put together what one part of the reader   *)
(* tells apart.                                                            *)
(***************************************************************************)
EXTENDS CText

\* All texts of at most n pieces.
Words(pieces, n) == UNION {{FlattenSeq(w) : w \in [1..k -> pieces]} : k \in 0..n}

Around(l, texts, r) == {l \o t \o r : t \in texts}

Nl == <<"\n">>

Structure == Around(<<>>, Words({<<"a">>, <<"1", " ">>, <<" ">>, <<"(">>, <<")">>, <<"\"", "b", "\"">>, <<"#">>}, 4), Nl)

Strings == Around(<<"\"">>,
  Words({<<"a">>, <<"\\", "n">>, <<"\\", "\\">>, <<"\\", "1", "0", "1">>, <<"\\", "u", "0", "0", "4", "1">>,
         <<"\\", "q">>, <<"\\", "1">>, <<"\"">>}, 3), <<"\"", "\n">>)

\* Numbers that a 0 does not start, unless they are octal or hexadecimal, that
\* have no sign before a radix and no point before an exponent.
Numerals == {w \in Words({<<"1">>, <<"0">>, <<"8">>, <<"a">>, <<"r">>, <<"/">>, <<".">>, <<"e">>, <<"-">>, <<"x">>}, 4) :
               /\ w # <<>> /\ (w[1] = "-" => Len(w) > 1 /\ w[2] # "-")
               /\ (IF w[1] = "-" THEN Tail(w) ELSE w)[1] \in DigitsOf(10)
               /\ Num(w)[1] # "error"
               /\ w[1] = "-" => "r" \notin Range(w)
               /\ ~({".", "e"} \subseteq Range(w))
               /\ LET u == IF w[1] = "-" THEN Tail(w) ELSE w
                  IN u[1] = "0" => Num(w)[1] = "int"}

Numbers == Around(<<>>, Numerals, Nl) \cup Around(<<"(">>, Numerals, <<" ", ")", "\n">>)

Clean == Structure \cup Strings \cup Numbers

\* Texts that are cut off, or that the reader gives up on or misreads.
Ragged ==
  { <<"a">>, <<"(", "a">>, <<"(", "1", ")", "\n">>, <<"0", ".", "5", "\n">>, <<"(", "0", ")", "\n">>,
    <<"1", "N", "\n">>, <<"(", "1", "N", ")", "\n">>, <<"1", "N">>, <<"1", "e", "\n">>, <<"1", "e", "-", "\n">>,
    <<"4", "0", "r", "1", "\n">>, <<"3", "7", "r", "1", "\n">>, <<"1", "r", "0", "\n">>, <<"-", "8", "r", "7", "\n">>,
    <<"3", "6", "r", "r", "\n">>, <<"1", "1", "1", "r", "\n">>, <<"1", "/", "2", ".", "\n">>, <<"1", "a", "\n">>,
    <<"+", "1", "\n">>, <<"(", "+", " ", "1", ")", "\n">>, <<"+">>, <<"\"", "\"", "\n">>, <<"\"", "a">>,
    <<"\"", "\\">>, <<"\"", "\\", "\"", "\"", "\n">>, <<"\"", "\\", "1", "0", "1">>, <<"\"", "\\", "u", "1", "\"", "\n">>,
    <<"[", "1", "]", "\n">>, <<"(", "(", "(", "(", "(", "a", ")", "\n">> }

MCTexts == Clean \cup Ragged

-------------------------------------------------------------------------------
\* What is printed for a clean text is its forms, in order, up to the first
\* mistake, which is reported: ungetc, the byte it puts back at the end and
\* longjmp lose, repeat and join nothing.
CReadsForms ==
  [][ status' = "exited" /\ in.text \in Clean =>
        LET right == CReplies(in.text, 0, <<>>) IN
        /\ \A k \in 1..Len(right) :
             \/ right[k][1] = "unsaid"
             \/ /\ k <= Len(out)
                /\ IF right[k][1] = "error" THEN out[k][1] = "error"
                   ELSE out[k][1] = "form" /\ Same(out[k][2], right[k][2])
        /\ right = <<>> \/ Last(right)[1] = "form" => Len(out) = Len(right) ]_vars

\* A clean text is read to its end, mistakes or not, unless the program crashes.
CFinishes == in.text \in Clean => <>(status \in {"exited", "crashed"})
===============================================================================
