------------------------------- MODULE MCValues -------------------------------
(***************************************************************************)
(* A few atoms: numbers whose hash codes collide (3 and 1/2, as 1 ^ 2 = 3),*)
(* equal characters, strings and symbols that are different objects, and   *)
(* symbols and ratios to compare. Two of the names have one hash code.     *)
(***************************************************************************)
EXTENDS Values, Bitwise

Object(kind, val) ==
  [kind |-> kind, val |-> val, items |-> <<>>, rest |-> 0, count |-> 0, meta |-> 0]

MCAtoms == {<<Object("int", <<3>>), Object("ratio", <<1, 2>>)>>,
            <<Object("char", <<97>>), Object("char", <<97>>)>>,
            <<Object("str", <<1>>), Object("str", <<1>>)>>,
            <<Object("sym", <<0, 1>>), Object("sym", <<0, 1>>)>>,
            <<Object("map", <<>>), [Object("list", <<>>) EXCEPT !.items = <<1>>, !.count = 1]>>,
            <<Object("sym", <<1, 1>>), Object("sym", <<0, 2>>), Object("ratio", <<1, 2>>),
              Object("ratio", <<2, 3>>)>>}

MCSymbols == {<<0, 2>>, <<0, 1>>, <<1, 1>>}
MCStringHash == [s \in 0..2 |-> 7 * s]
MCSymbolHash == [s \in (0..2) \X (0..2) |-> IF s = <<0, 2>> THEN 12 ELSE 11 + s[1] + s[2]]
MCXor(a, b) == a ^^ b

\* Of the last call, steps look at nothing.
View == <<heap, keywords, namespaces>>
===============================================================================
