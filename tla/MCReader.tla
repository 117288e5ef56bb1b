------------------------------- MODULE MCReader -------------------------------
(***************************************************************************)
(* Texts for TLC. Each family puts together the characters or pieces of    *)
(* text that one part of the reader tells apart.                           *)
(***************************************************************************)
EXTENDS ClojureText, Bitwise

\* All texts of at most n pieces.
Words(pieces, n) == UNION {{FlattenSeq(w) : w \in [1..k -> pieces]} : k \in 0..n}

Around(l, texts, r) == {l \o t \o r : t \in texts}

Nl == <<"\n">>

\* Nesting, quotes, tokens and numbers that end at delimiters.
Structure == Around(<<>>, Words({<<"a">>, <<"1">>, <<" ">>, <<"(">>, <<")">>, <<"[">>, <<"'">>}, 4), Nl)

\* Comments and dropped forms among the items of a list.
Comments == Around(<<"(">>,
  Words({<<"a">>, <<" ">>, <<";">>, <<"#", "_">>, <<"(">>, <<")">>, <<"\n">>}, 4), <<"\n", ")", "\n">>)

MapsAndSets == UNION {Around(l, Words({<<"a", " ">>, <<":", "k", " ">>, <<"1", " ">>, <<"[", "]">>}, 4),
                             <<"}", "\n">>) : l \in {<<"{">>, <<"#", "{">>}}

\* The hash codes of these meet: 3 = 1 ^ 2.
Meeting == UNION {Around(l, Words({<<"3", " ">>, <<"1", "/", "2", " ">>, <<"a", " ">>}, 4), <<"}", "\n">>) :
                  l \in {<<"{">>, <<"#", "{">>}}

Metadata == Around(<<>>, Words({<<"^", "a", " ">>, <<"#", "^", ":", "k", " ">>, <<"^", "{", "a", " ", "1", "}">>,
                                <<"~", "@">>, <<"#", "'">>}, 2),
                   <<"[", "b", "]", "(", "t", "r", "u", "e", ")", "\n">>)

Strings == Around(<<"\"">>,
  Words({<<"a">>, <<"\\", "n">>, <<"\\", "\\">>, <<"\\", "1", "0", "1">>, <<"\\", "u", "0", "0", "4", "1">>,
         <<"\\", "q">>, <<"\"">>}, 3), <<"\"", "\n">>)

\* Valid numbers, alone and before a delimiter. A leading 0 that makes the number
\* neither octal nor hexadecimal, and a sign before a radix, are left out: the
\* reader takes 0.5 and -8r7 for mistakes.
Numerals == {w \in Words({<<"1">>, <<"0">>, <<"8">>, <<"a">>, <<"r">>, <<"/">>, <<"N">>, <<".">>,
                          <<"e">>, <<"-">>, <<"x">>}, 4) :
               /\ w # <<>> /\ (w[1] = "-" => Len(w) > 1 /\ w[2] # "-")
               /\ (IF w[1] = "-" THEN Tail(w) ELSE w)[1] \in DigitsOf(10)
               /\ Num(w)[1] # "error"
               /\ w[1] = "-" => "r" \notin Range(w)
               /\ LET u == IF w[1] = "-" THEN Tail(w) ELSE w
                  IN u[1] = "0" => Num(w)[1] = "int" /\ u # <<"0">> /\ u # <<"0", "N">>}

Numbers_ == Around(<<>>, Numerals, Nl) \cup Around(<<"(">>, Numerals, <<")", "\n">>)

Clean == Structure \cup Comments \cup MapsAndSets \cup Meeting \cup Metadata \cup Strings \cup Numbers_

\* Texts that are cut off, or that the reader gives up on.
Ragged ==
  { <<"(", "a">>, <<"a">>, <<"1", "N">>, <<"1", "/">>, <<"(", "0", ")">>, <<"0", "x", "\n">>, <<"2", "r", "\n">>,
    <<"1", "r", "0", "\n">>, <<"4", "0", "r", "1", "\n">>, <<"1", "2", "3", "4", "5", "\n">>,
    <<"1", "/", "a", "\n">>, <<"1", "e", " ", "\n">>, <<"1", "e", "-", "\n">>,
    <<"1", "e", "3", "0", "8", "\n">>, <<"1", "e", "3", "0", "9", "\n">>,
    <<"1", "0", ".", "1", "e", "-", "3", "1", "0", "\n">>, <<"0", ".", "0", "e", "9", "9", "9", "\n">>, <<"0", "8", "\n">>, <<"0", "e", "1", "\n">>,
    <<"1", "N", "1", "\n">>, <<"1", "/", " ", "\n">>, <<"1", "1", "1", "r", "\n">>, <<"-", "8", "r", "7", "\n">>,
    <<"a", "/", "b", "\n">>, <<"a", "a", "/", "b", "\n">>, <<"a", "/", "\n">>, <<":", ":", "a", "\n">>,
    <<"\\">>, <<"\\", "u", "0", "\n">>, <<"\\", "u", "0", "0", "g", "0", "\n">>, <<"\\", "u", "0", "0", "4", "1", "\n">>,
    <<"\\", "o", "8", "\n">>, <<"\\", "o", "4", "0", "0", "\n">>, <<"\\", "o", "1", "0", "0", "0", "\n">>,
    <<"\\", "o", "1", "\n">>, <<"\"", "\\", "1", "a", "\"", "\n">>, <<"\"", "\\", "u", "1", "\"", "\n">>,
    <<"\"", "\\", "\"", "\"", "\n">>, <<"\"", "a">>,
    <<"{", "n", "i", "l", " ", "1", " ", "a", " ", "2", "}", "\n">>,
    <<"^", "n", "i", "l", " ", "[", "]", "\n">>, <<"^", "a", "\n">>, <<"^", "1", "[", "]", "\n">>,
    <<"^", "a", "(", ")", "\n">>, <<"^", "a", "^", "{", "n", "i", "l", " ", "1", "}", "[", "]", "\n">>,
    <<"#">>, <<"#", "<", "\n">>, <<"#", "!", "a", "\n">>, <<"~">>, <<"~", "a", "\n">>, <<"@", "a", "\n">>,
    <<"#", "\"", "a">>, <<"#", "\"", "\\", "\"", "\"", "\n">>, <<"#", "\"", "(", "\"", "\n">>,
    <<"%", "\n">>, <<"backquote", "\n">>, <<"+", "\n">>, <<"f", "a", "l", "s", "e", "\n">> }

\* A number is its own hash code, a ratio's are those of its parts by ^; what
\* std::hash and computeHash make of strings and names meets nowhere here.
MCHashOf(o) ==
  CASE o[1] = "int" -> <<"number", o[2]>>
    [] o[1] = "ratio" -> <<"number", o[2] ^^ o[3]>>
    [] OTHER -> o

MCTexts == Clean \cup Ragged
Unclosed == {<<"(", "a">>}
OpenGroup == {<<<<"(">>>>}

-------------------------------------------------------------------------------
\* What is printed for a clean text is its forms, in order, up to the first
\* mistake in the text, which is reported: unget() and the stream's two flags
\* never make the reader lose, repeat or join anything, at any depth of nesting.
ReadsForms ==
  [][ status' # "running" /\ in.text \in Clean =>
        LET right == Replies(in.text, 0, <<>>) IN
        /\ \A k \in 1..Len(right) :
             \/ right[k][1] = "unsaid"
             \/ /\ k <= Len(out)
                /\ IF right[k][1] = "error" THEN out[k][1] = "error" ELSE out[k] = right[k]
        /\ right = <<>> \/ Last(right)[1] = "form" => Len(out) = Len(right) ]_vars

\* A clean text is read to its end, mistakes in it or not: no loop of the reader
\* goes on over a stream that has nothing more, and nothing ends the program.
Finishes == in.text \in Clean => <>(status = "exited")

\* "EOF while reading": a text that ends inside a list is reported.
EndReported == <>(out # <<>> /\ Last(out) = <<"error", "eof">>)
===============================================================================
