----------------------------- MODULE Values_proofs -----------------------------
(***************************************************************************)
(* No two keywords of one name, for every set of names, every hash and     *)
(* every bound.  The table is a sorted sequence that Keyword::create       *)
(* searches by halves; that its search and its insertion agree, and that   *)
(* no other call makes a keyword, is what the first invariant says.        *)
(*                                                                         *)
(* The objects are the immutable values that Persistent describes: no call *)
(* changes an object that was there, however lists, vectors and trees      *)
(* share their parts, and what a call returns is what it promises of the   *)
(* elements.                                                               *)
(***************************************************************************)
EXTENDS Values, SequenceTheorems, WellFoundedInduction, TLAPS

-------------------------------------------------------------------------------
(* The inductive invariant of the keywords. *)

\* o has the fields of an object and no others.
Shaped(o) ==
  o = [kind |-> o.kind, val |-> o.val, items |-> o.items, rest |-> o.rest,
       count |-> o.count, meta |-> o.meta]

HeapShaped == \E S : heap \in Seq(S) /\ \A o \in S : Shaped(o)

Entry == [sym : Symbol, obj : Nat]

\* Every entry of the table leads to the keyword of its name.
Entered ==
  /\ keywords \in Seq(Entry)
  /\ \A q \in 1..Len(keywords) :
       LET e == keywords[q]
       IN e.obj \in 1..Len(heap) /\ heap[e.obj].kind = "key" /\ heap[e.obj].val = e.sym

\* The entries are in the order of compareTo, each name once.
Ordered ==
  \A p, q \in 1..Len(keywords) :
    p < q => compareTo(keywords[p].sym, keywords[q].sym) = -1

\* Every keyword that was ever made is in the table.
Known ==
  \A i \in 1..Len(heap) :
    heap[i].kind = "key" => \E q \in 1..Len(keywords) : keywords[q].obj = i

IInv == HeapShaped /\ Entered /\ Ordered /\ Known

-------------------------------------------------------------------------------
(* The order of symbols, the search and the insertion. *)

\* Symbol::compareTo is a strict order on names, and 0 means the same name.
LEMMA CompareIsOrder ==
  ASSUME NEW a \in Symbol, NEW b \in Symbol, NEW c \in Symbol
  PROVE  /\ compareTo(a, b) \in {-1, 0, 1}
         /\ compareTo(a, a) = 0
         /\ compareTo(a, b) = 0 => a = b
         /\ compareTo(a, b) = -1 <=> compareTo(b, a) = 1
         /\ compareTo(a, b) = -1 /\ compareTo(b, c) = -1 => compareTo(a, c) = -1
<1>1. a[1] \in Nat /\ a[2] \in Nat /\ b[1] \in Nat /\ b[2] \in Nat /\ c[1] \in Nat /\ c[2] \in Nat
  BY ValuesAssumption DEF Symbol
<1>2. a[1] = b[1] /\ a[2] = b[2] => a = b
  BY DEF Symbol
<1> QED
  BY <1>1, <1>2 DEF compareTo, Order

\* std::lower_bound: behind all that are before the one sought, and no further.
LEMMA LowerBoundIs ==
  ASSUME NEW n \in Nat, NEW before, before \subseteq 1..n
  PROVE  /\ LowerBound(n, before) \in 1..(n + 1)
         /\ \A q \in 1..(LowerBound(n, before) - 1) : q \in before
         /\ LowerBound(n, before) \notin before
<1> DEFINE T == {p \in 1..(n + 1) : p \notin before}
<1>1. T \subseteq Nat /\ T # {}
  <2>1. n + 1 \in T
    OBVIOUS
  <2> QED
    BY <2>1
<1>2. PICK p \in T : \A y \in T : ~ (<<y, p>> \in OpToRel(<, Nat))
  <2> HIDE DEF T
  <2> QED
    BY <1>1, NatLessThanWellFounded, WFMin
<1>3. \A y \in T : ~ (y < p)
  BY <1>1, <1>2 DEF OpToRel
<1>4. \A q \in 1..(p - 1) : q \in before
  BY <1>3
<1> QED
  BY <1>4 DEF LowerBound

\* An insertion keeps what is there, in its order, with the new entry at its place.
LEMMA InsertIs ==
  ASSUME NEW S, NEW t \in Seq(S), NEW p \in 1..(Len(t) + 1), NEW e \in S
  PROVE  /\ Insert(t, p, e) \in Seq(S)
         /\ Len(Insert(t, p, e)) = Len(t) + 1
         /\ \A q \in 1..(Len(t) + 1) :
              Insert(t, p, e)[q] = IF q < p THEN t[q] ELSE IF q = p THEN e ELSE t[q - 1]
<1> DEFINE l == SubSeq(t, 1, p - 1)
           r == SubSeq(t, p, Len(t))
           m == l \o <<e>>
<1>1. l \in Seq(S) /\ Len(l) = p - 1 /\ \A i \in 1..(p - 1) : l[i] = t[i]
  BY SubSeqProperties, ElementOfSeq
<1>2. r \in Seq(S) /\ Len(r) = Len(t) - p + 1 /\ \A i \in 1..(Len(t) - p + 1) : r[i] = t[p + i - 1]
  BY SubSeqProperties, ElementOfSeq
<1>3. <<e>> \in Seq(S) /\ Len(<<e>>) = 1 /\ <<e>>[1] = e
  OBVIOUS
<1>4. m \in Seq(S) /\ Len(m) = p /\ \A i \in 1..p : m[i] = IF i < p THEN t[i] ELSE e
  <2> HIDE DEF l
  <2> QED
    BY <1>1, <1>3, ConcatProperties
<1>5. Insert(t, p, e) = m \o r
  BY DEF Insert
<1> HIDE DEF l, r, m
<1>6. p \in Nat /\ Len(t) \in Nat /\ p + (Len(t) - p + 1) = Len(t) + 1
  OBVIOUS
<1>7. /\ m \o r \in Seq(S)
      /\ Len(m \o r) = Len(t) + 1
      /\ \A q \in 1..(Len(t) + 1) : (m \o r)[q] = IF q <= p THEN m[q] ELSE r[q - p]
  <2>1. m \in Seq(S) /\ Len(m) = p /\ r \in Seq(S) /\ Len(r) = Len(t) - p + 1
    BY <1>2, <1>4
  <2>2. /\ m \o r \in Seq(S)
        /\ Len(m \o r) = Len(m) + Len(r)
        /\ \A q \in 1..(Len(m) + Len(r)) :
             (m \o r)[q] = IF q <= Len(m) THEN m[q] ELSE r[q - Len(m)]
    BY <2>1, ConcatProperties
  <2> QED
    BY <1>6, <2>1, <2>2
<1>8. ASSUME NEW q \in 1..(Len(t) + 1), q > p
      PROVE  r[q - p] = t[q - 1]
  BY <1>2, <1>8
<1> QED
  BY <1>4, <1>5, <1>7, <1>8

-------------------------------------------------------------------------------
(* Calls that make no keyword. *)

\* A call that returns an old object leaves heap and table.
LEMMA FoundKeeps ==
  ASSUME IInv, UNCHANGED <<heap, keywords>>
  PROVE  IInv'
<1>1. HeapShaped'
  BY DEF IInv, HeapShaped, Shaped
<1>2. Entered' /\ Ordered' /\ Known'
  BY DEF IInv, Entered, Ordered, Known, compareTo
<1> QED
  BY <1>1, <1>2 DEF IInv

\* What becomes of the heap when objects are made.
LEMMA MadeGrows ==
  ASSUME HeapShaped, NEW T, NEW objects \in Seq(T), \A o \in T : Shaped(o),
         NEW op, NEW args, Made(op, args, objects)
  PROVE  /\ HeapShaped'
         /\ Len(heap) \in Nat /\ Len(objects) \in Nat
         /\ Len(heap') = Len(heap) + Len(objects)
         /\ \A i \in 1..Len(heap) : heap'[i] = heap[i]
         /\ \A i \in 1..Len(heap') : i > Len(heap) => heap'[i] \in T
<1>1. PICK S : heap \in Seq(S) /\ \A o \in S : Shaped(o)
  BY DEF HeapShaped
<1> DEFINE U == S \cup T
<1>2. \A o \in U : Shaped(o)
  BY <1>1
<1>3. heap \in Seq(U) /\ objects \in Seq(U)
  BY <1>1, SeqMonotonic
<1>4. Len(heap) \in Nat /\ Len(objects) \in Nat
  BY <1>3, LenProperties
<1> HIDE DEF U
<1>5. heap' = heap \o objects
  BY DEF Made
<1>6. /\ heap' \in Seq(U) /\ Len(heap') = Len(heap) + Len(objects)
      /\ \A i \in 1..(Len(heap) + Len(objects)) :
           heap'[i] = IF i <= Len(heap) THEN heap[i] ELSE objects[i - Len(heap)]
  BY <1>3, <1>5, ConcatProperties
<1>7. HeapShaped'
  BY <1>2, <1>6 DEF HeapShaped, Shaped
<1>8. ASSUME NEW i \in 1..Len(heap'), i > Len(heap)
      PROVE  heap'[i] \in T
  <2>1. i - Len(heap) \in 1..Len(objects)
    BY <1>4, <1>6, <1>8
  <2>2. heap'[i] = objects[i - Len(heap)]
    BY <1>4, <1>6, <1>8
  <2> QED
    BY <2>1, <2>2, ElementOfSeq
<1> QED
  BY <1>4, <1>6, <1>7, <1>8

\* Objects that are no keywords change nothing that the invariant speaks of.
LEMMA MadeKeeps ==
  ASSUME IInv, NEW T, NEW objects \in Seq(T),
         \A o \in T : Shaped(o) /\ o.kind # "key",
         NEW op, NEW args, Made(op, args, objects), UNCHANGED keywords
  PROVE  IInv'
<1>1. /\ HeapShaped'
      /\ Len(heap) \in Nat /\ Len(objects) \in Nat
      /\ Len(heap') = Len(heap) + Len(objects)
      /\ \A i \in 1..Len(heap) : heap'[i] = heap[i]
      /\ \A i \in 1..Len(heap') : i > Len(heap) => heap'[i] \in T
  BY MadeGrows DEF IInv
<1>2. Entered'
  BY <1>1 DEF IInv, Entered
<1>3. Ordered'
  BY DEF IInv, Ordered, compareTo
<1>4. Known'
  <2> SUFFICES ASSUME NEW i \in 1..Len(heap'), heap'[i].kind = "key"
               PROVE  \E q \in 1..Len(keywords) : keywords[q].obj = i
    BY DEF Known
  <2>1. i <= Len(heap)
    BY <1>1
  <2> QED
    BY <1>1, <2>1 DEF IInv, Known
<1> QED
  BY <1>1, <1>2, <1>3, <1>4 DEF IInv

\* The same for a call that makes one object.
LEMMA OneMadeKeeps ==
  ASSUME IInv, NEW o, Shaped(o), o.kind # "key",
         NEW op, NEW args, Made(op, args, <<o>>), UNCHANGED keywords
  PROVE  IInv'
<1> DEFINE T == {o}
           objects == <<o>>
<1>1. objects \in Seq(T) /\ \A y \in T : Shaped(y) /\ y.kind # "key"
  OBVIOUS
<1>2. Made(op, args, objects)
  OBVIOUS
<1> HIDE DEF T, objects
<1> QED
  BY <1>1, <1>2, MadeKeeps

\* The objects of the two tables.
LEMMA ObjectsShaped ==
  /\ \A kind, val : Shaped(Atom(kind, val)) /\ Atom(kind, val).kind = kind
                    /\ Atom(kind, val).val = val
  /\ \A kind, items, meta : Shaped(Collection(kind, items, meta))
                            /\ Collection(kind, items, meta).kind = kind
  /\ \A x, s, n : Shaped(ListObject(x, s, n)) /\ ListObject(x, s, n).kind = "list"
  /\ Shaped(Empty) /\ Empty.kind = "list"
  BY DEF Shaped, Atom, Collection, ListObject, Empty

\* An object with its items, or its metadata, and its count replaced.
ItemsReplaced(o, a, b) == [o EXCEPT !.items = a, !.count = b]
MetaReplaced(o, a, b) == [o EXCEPT !.meta = a, !.count = b]

LEMMA ItemsReplacedShaped ==
  ASSUME NEW o, Shaped(o), NEW a, NEW b
  PROVE  Shaped(ItemsReplaced(o, a, b)) /\ ItemsReplaced(o, a, b).kind = o.kind
<1> DEFINE X == [kind |-> o.kind, val |-> o.val, items |-> o.items, rest |-> o.rest,
                 count |-> o.count, meta |-> o.meta]
           Y == [kind |-> o.kind, val |-> o.val, items |-> a, rest |-> o.rest,
                 count |-> o.count, meta |-> o.meta]
           Z == [kind |-> o.kind, val |-> o.val, items |-> a, rest |-> o.rest,
                 count |-> b, meta |-> o.meta]
<1>1. o = X
  BY DEF Shaped
<1>2. [X EXCEPT !.items = a] = Y
  OBVIOUS
<1>3. [Y EXCEPT !.count = b] = Z
  OBVIOUS
<1>4. Shaped(Z) /\ Z.kind = o.kind
  BY DEF Shaped
<1> HIDE DEF X, Y, Z
<1>5. ItemsReplaced(o, a, b) = [Y EXCEPT !.count = b]
  BY <1>1, <1>2 DEF ItemsReplaced
<1> QED
  BY <1>3, <1>4, <1>5

LEMMA MetaReplacedShaped ==
  ASSUME NEW o, Shaped(o), NEW a, NEW b
  PROVE  Shaped(MetaReplaced(o, a, b)) /\ MetaReplaced(o, a, b).kind = o.kind
<1> DEFINE X == [kind |-> o.kind, val |-> o.val, items |-> o.items, rest |-> o.rest,
                 count |-> o.count, meta |-> o.meta]
           Y == [kind |-> o.kind, val |-> o.val, items |-> o.items, rest |-> o.rest,
                 count |-> o.count, meta |-> a]
           Z == [kind |-> o.kind, val |-> o.val, items |-> o.items, rest |-> o.rest,
                 count |-> b, meta |-> a]
<1>1. o = X
  BY DEF Shaped
<1>2. [X EXCEPT !.meta = a] = Y
  OBVIOUS
<1>3. [Y EXCEPT !.count = b] = Z
  OBVIOUS
<1>4. Shaped(Z) /\ Z.kind = o.kind
  BY DEF Shaped
<1> HIDE DEF X, Y, Z
<1>5. MetaReplaced(o, a, b) = [Y EXCEPT !.count = b]
  BY <1>1, <1>2 DEF MetaReplaced
<1> QED
  BY <1>3, <1>4, <1>5

\* Objects of the heap have fields.
LEMMA HeapObjects ==
  ASSUME HeapShaped, NEW i \in 1..Len(heap)
  PROVE  Shaped(heap[i])
  BY ElementOfSeq DEF HeapShaped

-------------------------------------------------------------------------------
(* The calls. *)

LEMMA MakeListKeeps ==
  ASSUME IInv, NEW items, Len(items) \in Nat, MakeList(items)
  PROVE  IInv'
<1> DEFINE n == Len(items)
           object(k) == ListObject(items[n + 1 - k], IF k = 1 THEN nil ELSE Len(heap) + k - 1, k - 1)
<1>1. CASE n = 0
  <2>1. Lists(items) = <<Empty>>
    BY <1>1 DEF Lists
  <2> QED
    BY <2>1, OneMadeKeeps, ObjectsShaped DEF MakeList, TablesUnchanged
<1>2. CASE n # 0
  <2> DEFINE T == {object(k) : k \in 1..n}
             objects == [k \in 1..n |-> object(k)]
  <2>1. objects = Lists(items)
    BY <1>2 DEF Lists
  <2>2. objects \in Seq(T)
    <3>1. objects \in [1..n -> T]
      OBVIOUS
    <3> HIDE DEF objects, T
    <3> QED
      BY <3>1
  <2>3. \A o \in T : Shaped(o) /\ o.kind # "key"
    BY ObjectsShaped
  <2> HIDE DEF T, objects
  <2> QED
    BY <2>1, <2>2, <2>3, MadeKeeps DEF MakeList, TablesUnchanged
<1> QED
  BY <1>1, <1>2

LEMMA ConsKeeps ==
  ASSUME IInv, NEW s \in 1..Len(heap), NEW x, heap[s].kind # "key", cons(s, x)
  PROVE  IInv'
<1> DEFINE o == heap[s]
           copy == ListObject(o.items[1], o.rest, IF o.rest = nil THEN 0 ELSE heap[o.rest].count)
           top == ListObject(x, Len(heap) + 1, copy.count)
           grown == [o EXCEPT !.items = Append(@, x), !.count = @ + 1]
<1>1. CASE o.kind = "list"
  <2> DEFINE T == {copy, top}
             objects == <<copy, top>>
  <2>1. objects \in Seq(T)
    <3> HIDE DEF copy, top
    <3> QED
      OBVIOUS
  <2>2. \A y \in T : Shaped(y) /\ y.kind # "key"
    BY ObjectsShaped
  <2>3. Made("cons", <<s, x>>, objects) /\ UNCHANGED keywords
    BY <1>1 DEF cons, TablesUnchanged
  <2> HIDE DEF T, objects
  <2> QED
    BY <2>1, <2>2, <2>3, MadeKeeps
<1>2. CASE o.kind # "list"
  <2>1. Shaped(grown) /\ grown.kind = o.kind
    <3>1. Shaped(o)
      BY HeapObjects DEF IInv
    <3> DEFINE a == Append(o.items, x)
               b == o.count + 1
    <3>2. grown = ItemsReplaced(o, a, b)
      BY DEF ItemsReplaced
    <3> HIDE DEF o, a, b, grown
    <3> QED
      BY <3>1, <3>2, ItemsReplacedShaped
  <2>2. Made("cons", <<s, x>>, <<grown>>) /\ UNCHANGED keywords
    BY <1>2 DEF cons, TablesUnchanged
  <2> HIDE DEF grown
  <2> QED
    BY <2>1, <2>2, OneMadeKeeps
<1> QED
  BY <1>1, <1>2

LEMMA WithMetaKeeps ==
  ASSUME IInv, NEW c \in 1..Len(heap), NEW m, heap[c].kind # "key", withMeta(c, m)
  PROVE  IInv'
<1>1. PICK junk : Made("withMeta", <<c, m>>, <<[heap[c] EXCEPT !.meta = m, !.count = junk]>>)
  BY DEF withMeta
<1> DEFINE o == [heap[c] EXCEPT !.meta = m, !.count = junk]
<1>2. Shaped(o) /\ o.kind # "key"
  <2>1. Shaped(heap[c])
    BY HeapObjects DEF IInv
  <2> DEFINE old == heap[c]
  <2>2. o = MetaReplaced(old, m, junk) /\ Shaped(old) /\ old.kind # "key"
    BY <2>1 DEF MetaReplaced
  <2> HIDE DEF old, o
  <2> QED
    BY <2>2, MetaReplacedShaped
<1>3. Made("withMeta", <<c, m>>, <<o>>) /\ UNCHANGED keywords
  BY <1>1 DEF withMeta, TablesUnchanged
<1> HIDE DEF o
<1> QED
  BY <1>2, <1>3, OneMadeKeeps

\* The search of Keyword::create ends at the keyword of that name, or where it belongs.
LEMMA KeywordPlaceIs ==
  ASSUME Entered, Ordered, NEW sym \in Symbol
  PROVE  LET p == KeywordPlace(sym) IN
         /\ p \in 1..(Len(keywords) + 1) /\ Len(keywords) \in Nat
         /\ \A q \in 1..Len(keywords) : keywords[q].sym \in Symbol
         /\ \A q \in 1..(p - 1) : compareTo(keywords[q].sym, sym) = -1
         /\ p <= Len(keywords) => compareTo(keywords[p].sym, sym) # -1
<1> DEFINE n == Len(keywords)
           before == {q \in 1..n : compareTo(keywords[q].sym, sym) = -1}
<1>1. n \in Nat /\ \A q \in 1..n : keywords[q].sym \in Symbol
  <2>1. keywords \in Seq(Entry)
    BY DEF Entered
  <2>2. \A q \in 1..Len(keywords) : keywords[q] \in Entry
    BY <2>1, ElementOfSeq
  <2>3. Len(keywords) \in Nat
    BY <2>1, LenProperties
  <2> QED
    BY <2>2, <2>3 DEF Entry
<1>2. before \subseteq 1..n /\ KeywordPlace(sym) = LowerBound(n, before)
  BY DEF KeywordPlace
<1>3. /\ LowerBound(n, before) \in 1..(n + 1)
      /\ \A q \in 1..(LowerBound(n, before) - 1) : q \in before
      /\ LowerBound(n, before) \notin before
  <2> HIDE DEF n, before
  <2> QED
    BY <1>1, <1>2, LowerBoundIs
<1> QED
  BY <1>1, <1>2, <1>3

\* A new keyword takes its place in the order and is led to.
LEMMA KeywordKeeps ==
  ASSUME IInv, NEW sym \in Symbol, Keyword_create(sym)
  PROVE  IInv'
<1> DEFINE p == KeywordPlace(sym)
           n == Len(keywords)
           i0 == Len(heap) + 1
           entry == [sym |-> sym, obj |-> i0]
           found == p <= n /\ compareTo(sym, keywords[p].sym) # -1
<1>0. /\ p \in 1..(n + 1) /\ n \in Nat
      /\ \A q \in 1..n : keywords[q].sym \in Symbol
      /\ \A q \in 1..(p - 1) : compareTo(keywords[q].sym, sym) = -1
      /\ p <= n => compareTo(keywords[p].sym, sym) # -1
  BY KeywordPlaceIs DEF IInv
<1>1. CASE found
  BY <1>1, FoundKeeps DEF Keyword_create, Found
<1>2. CASE ~found
  <2>1. Made("keyword", sym, <<Atom("key", sym)>>) /\ keywords' = Insert(keywords, p, entry)
    BY <1>2 DEF Keyword_create
  <2>2. /\ HeapShaped'
        /\ Len(heap) \in Nat
        /\ Len(heap') = Len(heap) + 1
        /\ \A i \in 1..Len(heap) : heap'[i] = heap[i]
        /\ heap'[i0] = Atom("key", sym)
    <3> DEFINE T == {Atom("key", sym)}
               objects == <<Atom("key", sym)>>
    <3>1. objects \in Seq(T) /\ Len(objects) = 1 /\ \A o \in T : Shaped(o)
      BY ObjectsShaped
    <3>2. Made("keyword", sym, objects) /\ HeapShaped
      BY <2>1 DEF IInv
    <3> HIDE DEF objects, T
    <3>3. /\ HeapShaped' /\ Len(heap) \in Nat
          /\ Len(heap') = Len(heap) + 1
          /\ \A i \in 1..Len(heap) : heap'[i] = heap[i]
          /\ \A i \in 1..Len(heap') : i > Len(heap) => heap'[i] \in T
      BY <3>1, <3>2, MadeGrows
    <3> QED
      BY <3>3 DEF T
  <2>3. entry \in Entry
    BY <2>2 DEF Entry
  <2>4. /\ keywords' \in Seq(Entry)
        /\ Len(keywords') = n + 1
        /\ \A q \in 1..(n + 1) :
             keywords'[q] = IF q < p THEN keywords[q] ELSE IF q = p THEN entry ELSE keywords[q - 1]
    <3>1. keywords \in Seq(Entry)
      BY DEF IInv, Entered
    <3> HIDE DEF p, entry
    <3> QED
      BY <1>0, <2>1, <2>3, <3>1, InsertIs
  <2> HIDE DEF p
  <2>5. Entered'
    <3> SUFFICES ASSUME NEW q \in 1..(n + 1)
                 PROVE  /\ keywords'[q].obj \in 1..Len(heap')
                        /\ heap'[keywords'[q].obj].kind = "key"
                        /\ heap'[keywords'[q].obj].val = keywords'[q].sym
      BY <2>4 DEF Entered
    <3>1. CASE q = p
      BY <1>0, <2>2, <2>4, <3>1, ObjectsShaped
    <3>2. CASE q # p
      <4> DEFINE r == IF q < p THEN q ELSE q - 1
      <4>1. r \in 1..n /\ keywords'[q] = keywords[r]
        BY <1>0, <2>4, <3>2
      <4> HIDE DEF r
      <4>2. /\ keywords[r].obj \in 1..Len(heap) /\ heap[keywords[r].obj].kind = "key"
            /\ heap[keywords[r].obj].val = keywords[r].sym
        BY <4>1 DEF IInv, Entered
      <4> QED
        BY <2>2, <4>1, <4>2
    <3> QED
      BY <3>1, <3>2
  <2>6. Ordered'
    <3>1. ASSUME NEW q \in 1..n, q >= p
          PROVE  compareTo(sym, keywords[q].sym) = -1
      <4>1. compareTo(sym, keywords[p].sym) = -1 /\ p \in 1..n
        BY <1>0, <1>2, <3>1
      <4>2. q = p \/ compareTo(keywords[p].sym, keywords[q].sym) = -1
        BY <1>0, <3>1, <4>1 DEF IInv, Ordered
      <4> QED
        BY <1>0, <4>1, <4>2, CompareIsOrder
    <3> SUFFICES ASSUME NEW q \in 1..(n + 1), NEW r \in 1..(n + 1), q < r
                 PROVE  compareTo(keywords'[q].sym, keywords'[r].sym) = -1
      BY <2>4 DEF Ordered, compareTo
    <3>2. CASE q = p
      <4>1. keywords'[q].sym = sym /\ keywords'[r] = keywords[r - 1] /\ r - 1 \in 1..n /\ r - 1 >= p
        BY <1>0, <2>4, <3>2
      <4> QED
        BY <3>1, <4>1
    <3>3. CASE r = p
      <4>1. keywords'[r].sym = sym /\ keywords'[q] = keywords[q] /\ q \in 1..(p - 1)
        BY <1>0, <2>4, <3>3
      <4> QED
        BY <1>0, <4>1
    <3>4. CASE q # p /\ r # p
      <4> DEFINE old(k) == IF k < p THEN k ELSE k - 1
      <4>1. /\ old(q) \in 1..n /\ old(r) \in 1..n /\ old(q) < old(r)
            /\ keywords'[q] = keywords[old(q)] /\ keywords'[r] = keywords[old(r)]
        BY <1>0, <2>4, <3>4, SMTT(20)
      <4> HIDE DEF old
      <4> QED
        BY <4>1 DEF IInv, Ordered
    <3> QED
      BY <3>2, <3>3, <3>4
  <2>7. Known'
    <3> SUFFICES ASSUME NEW i \in 1..Len(heap'), heap'[i].kind = "key"
                 PROVE  \E q \in 1..(n + 1) : keywords'[q].obj = i
      BY <2>4 DEF Known
    <3>1. CASE i = i0
      BY <1>0, <2>4, <3>1
    <3>2. CASE i # i0
      <4>1. i \in 1..Len(heap) /\ heap[i].kind = "key"
        BY <2>2, <3>2
      <4>2. PICK r \in 1..n : keywords[r].obj = i
        BY <4>1 DEF IInv, Known
      <4>3. keywords'[IF r < p THEN r ELSE r + 1] = keywords[r]
        BY <1>0, <2>4
      <4> QED
        BY <1>0, <4>2, <4>3
    <3> QED
      BY <3>1, <3>2
  <2> QED
    BY <2>2, <2>5, <2>6, <2>7 DEF IInv
<1> QED
  BY <1>1, <1>2

-------------------------------------------------------------------------------
(* The theorem. *)

LEMMA InitOK == Init => IInv
<1> SUFFICES ASSUME Init PROVE IInv
  OBVIOUS
<1> DEFINE Fields == [kind : {"int", "ratio", "str", "char", "sym", "list", "map"},
                      val : Seq(Nat), items : Seq(Nat), rest : {nil}, count : Nat, meta : {nil}]
<1>1. heap \in Seq(Fields) /\ keywords = <<>>
  BY ValuesAssumption DEF Init
<1>2. \A o \in Fields : Shaped(o) /\ o.kind # "key"
  BY DEF Shaped
<1> HIDE DEF Fields
<1>3. HeapShaped
  BY <1>1, <1>2 DEF HeapShaped
<1>4. Entered /\ Ordered
  BY <1>1 DEF Entered, Ordered
<1>5. Known
  BY <1>1, <1>2, ElementOfSeq DEF Known
<1> QED
  BY <1>3, <1>4, <1>5 DEF IInv

LEMMA NextOK == IInv /\ [Next]_vars => IInv'
<1> SUFFICES ASSUME IInv, [Next]_vars PROVE IInv'
  OBVIOUS
<1> DEFINE any == Items \cap Refs
<1>1. ASSUME NEW items \in SeqsUpTo(any, MaxItems), MakeList(items) PROVE IInv'
  <2>1. Len(items) \in Nat
    BY ValuesAssumption DEF SeqsUpTo
  <2> QED
    BY <1>1, <2>1, MakeListKeeps
<1>2. ASSUME NEW items, MakeVector(items) PROVE IInv'
  BY <1>2, OneMadeKeeps, ObjectsShaped DEF MakeVector, TablesUnchanged
<1>3. ASSUME NEW kind \in {"map", "set"}, NEW entries, MakeKeyed(kind, entries) PROVE IInv'
  <2> DEFINE o == Collection(kind, Inserted(kind, entries), nil)
  <2>1. Shaped(o) /\ o.kind # "key"
    BY ObjectsShaped
  <2>2. \/ UNCHANGED <<heap, keywords>>
        \/ Made(kind, entries, <<o>>) /\ UNCHANGED keywords
    BY <1>3 DEF MakeKeyed, Found, TablesUnchanged
  <2> HIDE DEF o
  <2> QED
    BY <2>1, <2>2, FoundKeeps, OneMadeKeeps
<1>4. ASSUME NEW s, first(s) PROVE IInv'
  BY <1>4, FoundKeeps DEF first, Found, TablesUnchanged
<1>5. ASSUME NEW s, rest(s) PROVE IInv'
  <2> DEFINE o == Collection("vector", Tail(heap[s].items), nil)
  <2>1. Shaped(o) /\ o.kind # "key"
    BY ObjectsShaped
  <2>2. \/ UNCHANGED <<heap, keywords>>
        \/ Made("rest", <<s>>, <<o>>) /\ UNCHANGED keywords
    BY <1>5 DEF rest, Found, TablesUnchanged
  <2> HIDE DEF o
  <2> QED
    BY <2>1, <2>2, FoundKeeps, OneMadeKeeps
<1>6. ASSUME NEW s, VectorOf(s) PROVE IInv'
  <2> DEFINE elems == IF heap[s].kind = "list" THEN Chain[s]
                      ELSE IF heap[s].items = <<>> THEN <<nil>> ELSE heap[s].items
             o == Collection("vector", elems, nil)
  <2>1. Shaped(o) /\ o.kind # "key"
    BY ObjectsShaped
  <2>2. Made("vectorOf", <<s>>, <<o>>) /\ UNCHANGED keywords
    BY <1>6 DEF VectorOf, TablesUnchanged
  <2> HIDE DEF o
  <2> QED
    BY <2>1, <2>2, OneMadeKeeps
<1>7. ASSUME NEW s \in OfKind({"list", "vector"}), NEW x, cons(s, x) PROVE IInv'
  BY <1>7, ConsKeeps DEF OfKind
<1>8. ASSUME NEW c \in OfKind({"list", "vector", "map", "set"}), NEW m, withMeta(c, m)
      PROVE  IInv'
  BY <1>8, WithMetaKeeps DEF OfKind
<1>9. ASSUME NEW m, NEW k, valAt(m, k) PROVE IInv'
  BY <1>9, FoundKeeps DEF valAt, Found, TablesUnchanged
<1>10. ASSUME NEW m, NEW k, NEW v, assoc(m, k, v) PROVE IInv'
  BY <1>10, OneMadeKeeps, ObjectsShaped DEF assoc, TablesUnchanged
<1>11. ASSUME NEW sym \in Symbols, Keyword_create(sym) PROVE IInv'
  BY <1>11, KeywordKeeps, ValuesAssumption
<1>12. ASSUME NEW sym, Namespace_findOrCreate(sym) PROVE IInv'
  <2> DEFINE o == Atom("ns", sym)
  <2>1. Shaped(o) /\ o.kind # "key"
    BY ObjectsShaped
  <2>2. \/ UNCHANGED <<heap, keywords>>
        \/ Made("namespace", <<SymbolHash[sym]>>, <<o>>) /\ UNCHANGED keywords
    BY <1>12 DEF Namespace_findOrCreate, Found
  <2> HIDE DEF o
  <2> QED
    BY <2>1, <2>2, FoundKeeps, OneMadeKeeps
<1>13. ASSUME NEW i, NEW j, compare(i, j) PROVE IInv'
  BY <1>13, FoundKeeps DEF compare, Found, TablesUnchanged
<1>14. CASE UNCHANGED vars
  BY <1>14, FoundKeeps DEF vars
<1> QED
  BY <1>1, <1>2, <1>3, <1>4, <1>5, <1>6, <1>7, <1>8, <1>9, <1>10, <1>11, <1>12, <1>13, <1>14 DEF Next

LEMMA InvariantImplies == IInv => KeywordsUnique
<1> SUFFICES ASSUME IInv, NEW i \in OfKind({"key"}), NEW j \in OfKind({"key"}),
                    heap[i].val = heap[j].val
             PROVE  i = j
  BY DEF KeywordsUnique
<1>1. PICK p \in 1..Len(keywords) : keywords[p].obj = i
  BY DEF IInv, Known, OfKind
<1>2. PICK q \in 1..Len(keywords) : keywords[q].obj = j
  BY DEF IInv, Known, OfKind
<1>3. keywords \in Seq(Entry) /\ Len(keywords) \in Nat
  BY LenProperties DEF IInv, Entered
<1>4. keywords[p] \in Entry /\ keywords[q] \in Entry
  BY <1>1, <1>2, <1>3, ElementOfSeq
<1>5. keywords[p].sym = keywords[q].sym /\ keywords[p].sym \in Symbol
  BY <1>1, <1>2, <1>4 DEF IInv, Entered, Entry
<1>6. ~(p < q) /\ ~(q < p)
  <2>1. compareTo(keywords[p].sym, keywords[q].sym) = 0
        /\ compareTo(keywords[q].sym, keywords[p].sym) = 0
    BY <1>5, CompareIsOrder
  <2> QED
    BY <1>1, <1>2, <2>1 DEF IInv, Ordered
<1>7. p = q
  BY <1>1, <1>2, <1>3, <1>6
<1> QED
  BY <1>1, <1>2, <1>7

\* However keywords are asked for, and whatever other objects are made between,
\* there is one keyword of a name: a reader may compare keywords by address.
THEOREM KeywordsAreUnique == Spec => []KeywordsUnique
<1>1. Init => IInv
  BY InitOK
<1>2. IInv /\ [Next]_vars => IInv'
  BY NextOK
<1>3. IInv => KeywordsUnique
  BY InvariantImplies
<1> QED
  BY <1>1, <1>2, <1>3, PTL DEF Spec

-------------------------------------------------------------------------------
(* Induction, over a set of numbers in place of a predicate. *)

LEMMA Induction ==
  ASSUME NEW n \in Nat, NEW S,
         \A i \in 1..n : (\A j \in 1..(i - 1) : j \in S) => i \in S
  PROVE  \A i \in 1..n : i \in S
<1> DEFINE T == {i \in 1..n : i \notin S}
<1> SUFFICES ASSUME T # {} PROVE FALSE
  OBVIOUS
<1>1. T \subseteq Nat
  OBVIOUS
<1>2. PICK i \in T : \A y \in T : ~ (<<y, i>> \in OpToRel(<, Nat))
  <2> HIDE DEF T
  <2> QED
    BY <1>1, NatLessThanWellFounded, WFMin
<1>3. \A y \in T : ~ (y < i)
  BY <1>1, <1>2 DEF OpToRel
<1>4. \A j \in 1..(i - 1) : j \in S
  BY <1>3
<1> QED
  BY <1>4

-------------------------------------------------------------------------------
(* The inductive invariant: the shape of every object. *)

Kinds == {"int", "ratio", "str", "char", "sym", "key", "ns", "list", "vector", "map", "set"}

\* The indexes of the objects.
Objects == 1..Len(heap)

\* What an object of a class has for items.
ItemsOf(kind) ==
  CASE kind \in {"list", "vector"} -> Refs
    [] kind = "set" -> Objects
    [] kind = "map" -> Objects \X Refs
    [] OTHER -> {}

\* What an entry of a map or set is found by.
Hash(kind, e) == hashCode(KeyOf(kind, e))

\* A tree holds one key of a hash code, in their order.
Sorted(kind, items) ==
  \A p, q \in 1..Len(items) : p < q => Hash(kind, items[p]) < Hash(kind, items[q])

\* Strings and numbers of an atom.
Valued(i) ==
  LET o == heap[i] IN
  /\ o.val \in Seq(Nat)
  /\ o.kind \in {"int", "char", "str"} => Len(o.val) = 1
  /\ o.kind = "ratio" => Len(o.val) = 2 /\ Xored(o.val[1], o.val[2]) \in Nat
  /\ o.kind = "str" => o.val[1] \in Strings
  /\ o.kind \in {"sym", "key", "ns"} => o.val \in Symbol

\* What an object is made of is there, and is as many as it counts.
Composed(i) ==
  LET o == heap[i] IN
  /\ o.items \in Seq(ItemsOf(o.kind))
  /\ o.kind \in {"map", "set"} => Sorted(o.kind, o.items)
  /\ o.kind \in {"vector", "map", "set"} => o.count = Len(o.items)
  /\ o.count \in Nat
  /\ o.meta # nil => o.meta \in 1..(i - 1) /\ heap[o.meta].kind = "map"
  /\ o.kind # "list" => o.rest = nil

\* A list's rest is an older list that is counted. Only withMeta makes lists
\* whose count is nothing, and no list gets one of those for a rest.
Counted(i) ==
  LET o == heap[i] IN
  o.kind = "list" =>
    /\ Len(o.items) = 1
    /\ o.rest # nil => /\ o.rest \in 1..(i - 1) /\ heap[o.rest].kind = "list"
                       /\ heap[o.rest].meta = nil /\ heap[o.rest].count > 0
    /\ o.meta = nil => IF o.rest = nil THEN o.count \in {0, 1}
                       ELSE o.count = 1 + heap[o.rest].count

Fine(i) == heap[i].kind \in Kinds /\ Valued(i) /\ Composed(i) /\ Counted(i)

HeapOK == Len(heap) \in Nat /\ \A i \in Objects : Fine(i)

-------------------------------------------------------------------------------
(* The elements of a list. *)

\* The definition of Chain, unrolled once.
ChainStep(f) ==
  [i \in OfKind({"list"}) |->
     heap[i].items \o (IF heap[i].rest = nil THEN <<>> ELSE f[heap[i].rest])]

\* Rests are older, so that following them ends.
LEMMA ChainIs ==
  ASSUME HeapOK
  PROVE  Chain = ChainStep(Chain)
<1> DEFINE n == Len(heap)
           Upto(k) == {i \in OfKind({"list"}) : i <= k}
           Step(f, k) == [i \in Upto(k) |->
             heap[i].items \o (IF heap[i].rest = nil THEN <<>> ELSE f[heap[i].rest])]
           S == {k \in 1..n : \E f : f = Step(f, k)}
<1>1. n \in Nat
  BY DEF HeapOK
<1>2. ASSUME NEW k \in 1..n, \A j \in 1..(k - 1) : j \in S
      PROVE  k \in S
  <2>1. PICK f : f = Step(f, k - 1)
    <3>1. CASE k = 1
      <4>1. Upto(k - 1) = {}
        BY <3>1 DEF OfKind
      <4>2. \A f : Step(f, k - 1) = [i \in {} |-> 0]
        BY <4>1
      <4> QED
        BY <4>2
    <3>2. CASE k # 1
      <4>1. k - 1 \in S
        <5> HIDE DEF S
        <5> QED
          BY <1>1, <1>2, <3>2
      <4> HIDE DEF Step
      <4> QED
        BY <4>1
    <3> QED
      BY <3>1, <3>2
  <2> DEFINE g == [i \in Upto(k) |-> IF i \in Upto(k - 1) THEN f[i] ELSE
                     heap[i].items \o (IF heap[i].rest = nil THEN <<>> ELSE f[heap[i].rest])]
  <2>2. ASSUME NEW i \in Upto(k)
        PROVE  heap[i].rest # nil => heap[i].rest \in Upto(k - 1)
    BY <1>1 DEF HeapOK, Fine, Counted, OfKind, Objects
  <2>3. g = Step(g, k)
    <3>1. Upto(k - 1) \subseteq Upto(k)
      BY <1>1 DEF OfKind
    <3>2. \A i \in Upto(k - 1) : g[i] = f[i]
      BY <3>1
    <3>3. \A i \in Upto(k - 1) : f[i] =
            heap[i].items \o (IF heap[i].rest = nil THEN <<>> ELSE f[heap[i].rest])
      BY <2>1
    <3> HIDE DEF Upto
    <3>4. \A i \in Upto(k) : g[i] =
            heap[i].items \o (IF heap[i].rest = nil THEN <<>> ELSE g[heap[i].rest])
      BY <2>2, <3>1, <3>2, <3>3
    <3> QED
      BY <3>4
  <2> QED
    BY <2>3
<1>3. n \in 1..n => n \in S
  <2> HIDE DEF S
  <2> QED
    BY <1>1, <1>2, Induction
<1>4. \E f : f = ChainStep(f)
  <2>1. CASE n = 0
    <3>1. OfKind({"list"}) = {}
      BY <2>1 DEF OfKind
    <3>2. \A f : ChainStep(f) = [i \in {} |-> 0]
      BY <3>1 DEF ChainStep
    <3> QED
      BY <3>2
  <2>2. CASE n # 0
    <3>1. Upto(n) = OfKind({"list"})
      BY <1>1 DEF OfKind
    <3>2. \E f : f = Step(f, n)
      <4>1. n \in S
        <5> HIDE DEF S
        <5> QED
          BY <1>1, <1>3, <2>2
      <4> HIDE DEF Step
      <4> QED
        BY <4>1
    <3> QED
      BY <3>1, <3>2 DEF ChainStep
  <2> QED
    BY <2>1, <2>2
<1> QED
  BY <1>4 DEF Chain, ChainStep

Unrolled == Chain = ChainStep(Chain)

LEMMA ChainIsNext == HeapOK' => Unrolled'
<1>1. HeapOK => Unrolled
  BY ChainIs DEF Unrolled
<1> QED
  BY <1>1, PTL

\* A sequence with one item put in front.
LEMMA InFront ==
  ASSUME NEW S, NEW a \in Seq(S), Len(a) = 1, NEW d \in Seq(S)
  PROVE  /\ a \o d \in Seq(S) /\ Len(a \o d) = 1 + Len(d) /\ Len(d) \in Nat
         /\ (a \o d)[1] = a[1]
         /\ Tail(a \o d) = d
<1>1. a \o d \in Seq(S) /\ Len(a \o d) = Len(a) + Len(d) /\ Len(d) \in Nat
  BY ConcatProperties, LenProperties
<1>2. \A k \in 1..(Len(a) + Len(d)) : (a \o d)[k] = IF k <= Len(a) THEN a[k] ELSE d[k - Len(a)]
  BY ConcatProperties
<1>3. (a \o d)[1] = a[1]
  BY <1>1, <1>2
<1> DEFINE c == a \o d
<1>4. c \in Seq(S) /\ Len(c) = 1 + Len(d) /\ \A k \in 1..Len(d) : c[k + 1] = d[k]
  BY <1>1, <1>2
<1> HIDE DEF c
<1>5. Tail(c) \in Seq(S) /\ Len(Tail(c)) = Len(d) /\ \A k \in 1..Len(d) : Tail(c)[k] = d[k]
  BY <1>1, <1>4
<1>6. Tail(c) = d
  BY <1>5, SeqEqual
<1> QED
  BY <1>1, <1>3, <1>6 DEF c

\* What a list's elements are, and how they are counted.
Linked(i) ==
  LET o == heap[i]
      c == Chain[i]
  IN /\ c \in Seq(Refs) /\ Len(c) > 0 /\ c[1] = o.items[1]
     /\ o.rest = nil => c = o.items /\ Len(c) = 1
     /\ o.rest # nil => Len(c) = 1 + Len(Chain[o.rest]) /\ Tail(c) = Chain[o.rest]
                        /\ c = o.items \o Chain[o.rest]
     /\ o.meta = nil => o.count = Len(c) \/ (o.rest = nil /\ o.count = 0)

\* Every list has elements, as many as it counts unless it is empty or annotated.
LEMMA ChainGives ==
  ASSUME HeapOK
  PROVE  \A i \in OfKind({"list"}) : Linked(i)
<1> DEFINE n == Len(heap)
           S == {i \in 1..n : heap[i].kind = "list" => Linked(i)}
<1>1. n \in Nat
  BY DEF HeapOK
<1>2. ASSUME NEW i \in OfKind({"list"})
      PROVE  Chain[i] = heap[i].items \o
               (IF heap[i].rest = nil THEN <<>> ELSE Chain[heap[i].rest])
  BY ChainIs DEF ChainStep
<1>3. ASSUME NEW i \in 1..n, \A j \in 1..(i - 1) : j \in S
      PROVE  i \in S
  <2> SUFFICES ASSUME heap[i].kind = "list" PROVE Linked(i)
    OBVIOUS
  <2> DEFINE o == heap[i]
  <2>1. Valued(i) /\ Composed(i) /\ Counted(i) /\ i \in OfKind({"list"})
    BY DEF HeapOK, Fine, Objects, OfKind
  <2>2. o.items \in Seq(Refs) /\ Len(o.items) = 1
    BY <2>1 DEF Composed, Counted, ItemsOf
  <2>3. CASE o.rest = nil
    <3>1. Chain[i] = o.items \o <<>>
      BY <1>2, <2>1, <2>3
    <3>2. Chain[i] = o.items
      <4> HIDE DEF o
      <4> QED
        BY <2>2, <3>1, ConcatEmptySeq
    <3>3. o.meta = nil => o.count \in {0, 1}
      BY <2>1, <2>3 DEF Counted
    <3>4. Chain[i] \in Seq(Refs) /\ Len(Chain[i]) = 1 /\ Chain[i][1] = o.items[1]
      <4> HIDE DEF o
      <4> QED
        BY <2>2, <3>2
    <3>5. o.meta = nil => o.count = Len(Chain[i]) \/ o.count = 0
      <4> HIDE DEF o
      <4> QED
        BY <3>3, <3>4
    <3> HIDE DEF o
    <3> QED
      BY <2>3, <3>2, <3>4, <3>5 DEF Linked, o
  <2>4. CASE o.rest # nil
    <3> DEFINE r == o.rest
    <3>1. r \in 1..(i - 1) /\ heap[r].kind = "list" /\ heap[r].meta = nil /\ heap[r].count > 0
          /\ (o.meta = nil => o.count = 1 + heap[r].count)
      BY <2>1, <2>4 DEF Counted
    <3>2. Linked(r)
      BY <1>1, <1>3, <3>1
    <3>3. Chain[r] \in Seq(Refs) /\ heap[r].count = Len(Chain[r])
      <4> HIDE DEF r
      <4> QED
        BY <3>1, <3>2 DEF Linked
    <3>4. Chain[i] = o.items \o Chain[r]
      BY <1>2, <2>1, <2>4
    <3> DEFINE d == Chain[r]
               a == o.items
    <3>5. /\ a \o d \in Seq(Refs) /\ Len(a \o d) = 1 + Len(d) /\ Len(d) \in Nat
          /\ (a \o d)[1] = a[1]
          /\ Tail(a \o d) = d
      <4> HIDE DEF a, d
      <4>1. a \in Seq(Refs) /\ Len(a) = 1 /\ d \in Seq(Refs)
        BY <2>2, <3>3 DEF a, d
      <4> QED
        BY <4>1, InFront
    <3>6. Chain[i] \in Seq(Refs) /\ Len(Chain[i]) > 0 /\ Chain[i][1] = o.items[1]
      BY <3>4, <3>5
    <3>7. Len(Chain[i]) = 1 + Len(Chain[r]) /\ Tail(Chain[i]) = Chain[r]
      BY <3>4, <3>5
    <3>8. o.meta = nil => o.count = Len(Chain[i])
      BY <3>1, <3>3, <3>7
    <3> HIDE DEF a, d
    <3> QED
      BY <2>4, <3>4, <3>6, <3>7, <3>8 DEF Linked
  <2> QED
    BY <2>3, <2>4
<1>4. \A i \in 1..n : i \in S
  <2> HIDE DEF S
  <2> QED
    BY <1>1, <1>3, Induction
<1> QED
  BY <1>4 DEF OfKind

\* No call changes an object that was there.
Grown ==
  /\ Len(heap') \in Nat /\ Len(heap) <= Len(heap')
  /\ \A i \in Objects : heap'[i] = heap[i]

\* So the elements of a list stay.
LEMMA ChainStays ==
  ASSUME HeapOK, HeapOK', Grown
  PROVE  \A i \in OfKind({"list"}) : Chain'[i] = Chain[i]
<1> DEFINE n == Len(heap)
           S == {i \in 1..n : heap[i].kind = "list" => Chain'[i] = Chain[i]}
<1>1. n \in Nat /\ n <= Len(heap') /\ Len(heap') \in Nat
  BY DEF HeapOK, Grown
<1>2. ASSUME NEW i \in OfKind({"list"})
      PROVE  Chain[i] = heap[i].items \o
               (IF heap[i].rest = nil THEN <<>> ELSE Chain[heap[i].rest])
  BY ChainIs DEF ChainStep
<1>3. ASSUME NEW i \in OfKind({"list"})'
      PROVE  Chain'[i] = heap'[i].items \o
               (IF heap'[i].rest = nil THEN <<>> ELSE Chain'[heap'[i].rest])
  <2>1. Unrolled'
    BY ChainIsNext
  <2> QED
    BY <2>1 DEF Unrolled, ChainStep
<1>4. ASSUME NEW i \in 1..n, \A j \in 1..(i - 1) : j \in S
      PROVE  i \in S
  <2> SUFFICES ASSUME heap[i].kind = "list" PROVE Chain'[i] = Chain[i]
    OBVIOUS
  <2>1. Counted(i) /\ i \in OfKind({"list"}) /\ i \in OfKind({"list"})' /\ heap'[i] = heap[i]
    BY <1>1 DEF HeapOK, Fine, Objects, OfKind, Grown
  <2>2. heap[i].rest # nil => Chain'[heap[i].rest] = Chain[heap[i].rest]
    BY <1>1, <1>4, <2>1 DEF Counted
  <2> QED
    BY <1>2, <1>3, <2>1, <2>2
<1>5. \A i \in 1..n : i \in S
  <2> HIDE DEF S
  <2> QED
    BY <1>1, <1>4, Induction
<1> QED
  BY <1>5 DEF OfKind

\* Printing follows the rests as far as the count says.
LEMMA PrintedAsCounted ==
  ASSUME HeapOK
  PROVE  CountIsPrinted
<1> SUFFICES ASSUME NEW i \in OfKind({"list"}), heap[i].meta = nil
             PROVE  Len(Printed(i)) = heap[i].count
  BY DEF CountIsPrinted
<1> DEFINE o == heap[i]
<1>1. Linked(i) /\ Counted(i) /\ Composed(i) /\ o.kind = "list"
  BY ChainGives DEF HeapOK, Fine, Objects, OfKind
<1>2. o.count \in Nat /\ Len(o.items) = 1
  BY <1>1 DEF Composed, Counted
<1>3. CASE o.count = 0
  <2>1. Printed(i) = <<>>
    BY <1>3 DEF Printed
  <2> QED
    BY <1>3, <2>1
<1>4. CASE o.count = 1
  BY <1>2, <1>4 DEF Printed
<1>5. CASE o.count > 1
  <2>1. o.rest # nil
    BY <1>1, <1>5 DEF Counted
  <2>2. Printed(i) = o.items \o Chain[o.rest]
    <3>1. o.count # 0 /\ o.count # 1
      BY <1>2, <1>5
    <3> QED
      BY Zenon, <1>5, <2>1, <3>1 DEF Printed
  <2>3. Chain[i] = o.items \o Chain[o.rest] /\ o.count = Len(Chain[i])
    BY <1>1, <2>1 DEF Linked
  <2> QED
    BY <2>2, <2>3
<1> QED
  BY <1>2, <1>3, <1>4, <1>5

-------------------------------------------------------------------------------
(* Trees. *)

\* Hash codes can be compared.
LEMMA HashIsInt ==
  ASSUME HeapOK, NEW i \in Objects
  PROVE  hashCode(i) \in Int
<1>1. Valued(i) /\ Len(heap) \in Nat
  BY DEF HeapOK, Fine
<1>2. heap[i].val \in Seq(Nat) /\ (heap[i].kind = "int" => Len(heap[i].val) = 1)
  BY <1>1 DEF Valued
<1>3. heap[i].kind = "int" => heap[i].val[1] \in Int
  BY <1>2
<1>4. heap[i].kind = "ratio" => Xored(heap[i].val[1], heap[i].val[2]) \in Int
  BY <1>1 DEF Valued
<1>5. heap[i].kind = "str" => StringHash[heap[i].val[1]] \in Int
  BY <1>1, ValuesAssumption DEF Valued
<1>6. heap[i].kind \in {"sym", "key"} => SymbolHash[heap[i].val] \in Nat
  BY <1>1, ValuesAssumption DEF Valued
<1>7. Golden \in Nat /\ Heap + i \in Int
  BY <1>1, ValuesAssumption DEF Objects
<1> QED
  BY <1>3, <1>4, <1>5, <1>6, <1>7 DEF hashCode, RatioHash, KeywordHash

Trees == {"map", "set"}

LEMMA KeyIsObject ==
  ASSUME NEW kind \in Trees, NEW e \in ItemsOf(kind)
  PROVE  KeyOf(kind, e) \in Objects
  BY DEF Trees, ItemsOf, KeyOf

\* The entries of a map or set.
Tree(kind, items) == items \in Seq(ItemsOf(kind)) /\ Sorted(kind, items)

\* The lower bound is where a key of that hash code is, if there is one.
LEMMA PlaceIs ==
  ASSUME HeapOK, NEW kind \in Trees, NEW items, Tree(kind, items), NEW key \in Objects
  PROVE  /\ Place(kind, items, key) \in 1..(Len(items) + 1) /\ Len(items) \in Nat
         /\ \A q \in 1..Len(items) : Hash(kind, items[q]) \in Int
         /\ \A q \in 1..Len(items) :
              q < Place(kind, items, key) => Hash(kind, items[q]) < hashCode(key)
         /\ \A q \in 1..Len(items) :
              q > Place(kind, items, key) => hashCode(key) < Hash(kind, items[q])
         /\ \A q \in 1..Len(items) :
              Hash(kind, items[q]) = hashCode(key) => q = Place(kind, items, key)
         /\ Has(kind, items, key) <=> \E q \in 1..Len(items) : Hash(kind, items[q]) = hashCode(key)
         /\ Place(kind, items, key) <= Len(items) =>
              hashCode(key) <= Hash(kind, items[Place(kind, items, key)])
<1> DEFINE n == Len(items)
           h(q) == Hash(kind, items[q])
           k == hashCode(key)
           before == {q \in 1..n : h(q) < k}
           p == Place(kind, items, key)
<1>1. items \in Seq(ItemsOf(kind)) /\ n \in Nat
  BY LenProperties DEF Tree
<1>2. \A q \in 1..n : items[q] \in ItemsOf(kind)
  BY <1>1, ElementOfSeq
<1>3. k \in Int /\ \A q \in 1..n : h(q) \in Int
  BY <1>2, KeyIsObject, HashIsInt DEF Hash
<1>4. p = LowerBound(n, before)
  BY DEF Place, Hash
<1>5. p \in 1..(n + 1) /\ (\A q \in 1..(p - 1) : q \in before) /\ p \notin before
  <2> HIDE DEF n, p, before
  <2>1. before \subseteq 1..n
    BY DEF before
  <2> QED
    BY <1>1, <1>4, <2>1, LowerBoundIs
<1>6. Has(kind, items, key) <=> p <= n /\ h(p) = k
  BY DEF Has, Hash
<1>7. \A r, q \in 1..n : r < q => h(r) < h(q)
  BY DEF Tree, Sorted
<1> HIDE DEF h, k, n, p
<1>8. \A q \in 1..n : q < p => h(q) < k
  BY <1>1, <1>5
<1>9. p <= n => p \in 1..n /\ k <= h(p)
  BY <1>1, <1>3, <1>5
<1>10. \A q \in 1..n : q > p => k < h(q)
  BY <1>1, <1>3, <1>5, <1>7, <1>9
<1>11. \A q \in 1..n : h(q) = k => q = p
  BY <1>1, <1>3, <1>5, <1>8, <1>10
<1>12. Has(kind, items, key) <=> \E q \in 1..n : h(q) = k
  BY <1>6, <1>9, <1>11
<1> USE DEF h, k, n, p
<1> HIDE DEF before
<1> QED
  BY <1>1, <1>3, <1>5, <1>8, <1>9, <1>10, <1>11, <1>12

\* The entries without their order.
ElementsOf(t) == {t[q] : q \in 1..Len(t)}

\* An entry whose key stands for an old one changes nothing; another is added.
LEMMA TreeInsert ==
  ASSUME HeapOK, NEW kind \in Trees, NEW items, Tree(kind, items), NEW e \in ItemsOf(kind)
  PROVE  LET old == \E q \in 1..Len(items) : Hash(kind, items[q]) = Hash(kind, e)
             new == insert(kind, items, e)
         IN /\ Tree(kind, new)
            /\ old => new = items
            /\ ~old => Len(new) = Len(items) + 1 /\ ElementsOf(new) = ElementsOf(items) \cup {e}
<1> DEFINE key == KeyOf(kind, e)
           p == Place(kind, items, key)
           n == Len(items)
           new == Insert(items, p, e)
           old == \E q \in 1..n : Hash(kind, items[q]) = Hash(kind, e)
<1>1. key \in Objects
  BY KeyIsObject
<1>2. items \in Seq(ItemsOf(kind))
  BY DEF Tree
<1>3. Hash(kind, e) = hashCode(key) /\ hashCode(key) \in Int
  BY <1>1, HashIsInt DEF Hash
<1>4. /\ p \in 1..(n + 1) /\ n \in Nat
      /\ \A q \in 1..n : Hash(kind, items[q]) \in Int
      /\ \A q \in 1..n : q < p => Hash(kind, items[q]) < Hash(kind, e)
      /\ \A q \in 1..n : q > p => Hash(kind, e) < Hash(kind, items[q])
      /\ Has(kind, items, key) <=> old
      /\ p <= n => Hash(kind, e) <= Hash(kind, items[p])
  <2> HIDE DEF key
  <2> QED
    BY <1>1, <1>3, PlaceIs
<1>5. insert(kind, items, e) = IF old THEN items ELSE new
  BY <1>4 DEF insert
<1>6. CASE old
  BY <1>5, <1>6
<1>7. CASE ~old
  <2>1. /\ new \in Seq(ItemsOf(kind)) /\ Len(new) = n + 1
        /\ \A q \in 1..(n + 1) :
             new[q] = IF q < p THEN items[q] ELSE IF q = p THEN e ELSE items[q - 1]
    <3> DEFINE E == ItemsOf(kind)
    <3>1. items \in Seq(E) /\ p \in 1..(Len(items) + 1) /\ e \in E
      BY <1>2, <1>4
    <3> HIDE DEF p, E, n, new, old, key
    <3>2. PICK F, place : F = E /\ place = p
      OBVIOUS
    <3>3. items \in Seq(F) /\ place \in 1..(Len(items) + 1) /\ e \in F
      BY <3>1, <3>2
    <3>4. /\ Insert(items, place, e) \in Seq(F)
          /\ Len(Insert(items, place, e)) = Len(items) + 1
          /\ \A q \in 1..(Len(items) + 1) :
               Insert(items, place, e)[q] =
                 IF q < place THEN items[q] ELSE IF q = place THEN e ELSE items[q - 1]
      BY <3>3, InsertIs
    <3> QED
      BY <3>2, <3>4 DEF E, n, new
  <2> HIDE DEF new, p
  <2>2. \A q \in 1..n : q >= p => Hash(kind, e) < Hash(kind, items[q])
    BY <1>3, <1>4, <1>7
  <2> DEFINE was(q) == IF q < p THEN q ELSE q - 1
  <2>3. \A q \in 1..(n + 1) : q # p => was(q) \in 1..n /\ new[q] = items[was(q)]
                                       /\ (q < p => was(q) < p) /\ (q > p => was(q) >= p)
    BY <1>4, <2>1
  <2>4. \A q, r \in 1..(n + 1) : q < r /\ q # p /\ r # p => was(q) < was(r)
    BY <1>4
  <2>5. Sorted(kind, new)
    <3> SUFFICES ASSUME NEW q \in 1..(n + 1), NEW r \in 1..(n + 1), q < r
                 PROVE  Hash(kind, new[q]) < Hash(kind, new[r])
      BY <2>1 DEF Sorted
    <3> HIDE DEF was
    <3>1. CASE q # p /\ r # p
      BY <2>3, <2>4, <3>1 DEF Tree, Sorted
    <3>2. CASE q = p
      <4>1. new[q] = e /\ r # p /\ r > p
        BY <1>4, <2>1, <3>2
      <4> QED
        BY <2>2, <2>3, <4>1
    <3>3. CASE r = p
      <4>1. new[r] = e /\ q # p /\ q < p
        BY <1>4, <2>1, <3>3
      <4> QED
        BY <1>4, <2>3, <4>1
    <3> QED
      BY <3>1, <3>2, <3>3
  <2>6. ElementsOf(new) = ElementsOf(items) \cup {e}
    <3>1. ASSUME NEW x \in ElementsOf(new)
          PROVE  x \in ElementsOf(items) \cup {e}
      <4>1. PICK q \in 1..(n + 1) : x = new[q]
        BY <2>1 DEF ElementsOf
      <4> HIDE DEF was
      <4> QED
        BY <2>1, <2>3, <4>1 DEF ElementsOf
    <3>2. ASSUME NEW q \in 1..n
          PROVE  items[q] \in ElementsOf(new)
      <4> DEFINE r == IF q < p THEN q ELSE q + 1
      <4>1. r \in 1..(n + 1) /\ new[r] = items[q]
        BY <1>4, <2>1
      <4> QED
        BY <2>1, <4>1 DEF ElementsOf
    <3>3. e \in ElementsOf(new)
      BY <1>4, <2>1 DEF ElementsOf
    <3> QED
      BY <3>1, <3>2, <3>3 DEF ElementsOf
  <2> QED
    BY <1>5, <1>7, <2>1, <2>5, <2>6 DEF Tree
<1> QED
  BY <1>6, <1>7

\* The constructors of maps and sets insert one entry after the other.
GrowStep(f, kind, entries) ==
  [k \in 0..Len(entries) |->
     IF k = 0 THEN <<>> ELSE insert(kind, f[k - 1], entries[k])]

\* The definition of Inserted, unrolled once: the tree after n entries.
LEMMA GrowthIs ==
  ASSUME NEW kind, NEW entries, Len(entries) \in Nat
  PROVE  \E f : f = GrowStep(f, kind, entries) /\ Inserted(kind, entries) = f[Len(entries)]
<1> DEFINE n == Len(entries)
           Step(f, k) == [j \in 0..k |-> IF j = 0 THEN <<>> ELSE insert(kind, f[j - 1], entries[j])]
           S == {k \in 1..n : \E f : f = Step(f, k)}
<1>0. \E f : f = Step(f, 0)
  <2> DEFINE g == [j \in 0..0 |-> <<>>]
  <2>1. g = Step(g, 0)
    OBVIOUS
  <2> QED
    BY <2>1
<1>1. ASSUME NEW k \in 1..n, \A j \in 1..(k - 1) : j \in S
      PROVE  k \in S
  <2>1. PICK f : f = Step(f, k - 1)
    <3>1. CASE k = 1
      BY <1>0, <3>1
    <3>2. CASE k # 1
      <4>1. k - 1 \in S
        <5> HIDE DEF S
        <5> QED
          BY <1>1, <3>2
      <4> HIDE DEF Step
      <4> QED
        BY <4>1
    <3> QED
      BY <3>1, <3>2
  <2> DEFINE g == [j \in 0..k |-> IF j < k THEN f[j] ELSE insert(kind, f[k - 1], entries[k])]
  <2>2. \A j \in 0..(k - 1) : f[j] = IF j = 0 THEN <<>> ELSE insert(kind, f[j - 1], entries[j])
    BY <2>1
  <2>3. \A j \in 0..k : g[j] = IF j = 0 THEN <<>> ELSE insert(kind, g[j - 1], entries[j])
    <3>1. \A j \in 0..(k - 1) : g[j] = f[j]
      OBVIOUS
    <3>2. g[k] = insert(kind, f[k - 1], entries[k])
      OBVIOUS
    <3> HIDE DEF g
    <3>3. ASSUME NEW j \in 0..k
          PROVE  g[j] = IF j = 0 THEN <<>> ELSE insert(kind, g[j - 1], entries[j])
      <4>1. CASE j = k
        BY <3>1, <3>2, <4>1
      <4>2. CASE j # k
        <5>1. j \in 0..(k - 1) /\ (j # 0 => j - 1 \in 0..(k - 1))
          BY <4>2
        <5> QED
          BY <2>2, <3>1, <5>1
      <4> QED
        BY <4>1, <4>2
    <3> QED
      BY <3>3
  <2>4. g = Step(g, k)
    BY <2>3
  <2> QED
    BY <2>4
<1>2. \E f : f = Step(f, n)
  <2>1. CASE n = 0
    BY <1>0, <2>1
  <2>2. CASE n # 0
    <3>1. n \in S
      <4> HIDE DEF S
      <4>1. \A k \in 1..n : k \in S
        BY <1>1, Induction
      <4> QED
        BY <2>2, <4>1
    <3> HIDE DEF Step
    <3> QED
      BY <3>1
  <2> QED
    BY <2>1, <2>2
<1> DEFINE tree == CHOOSE f : f = Step(f, n)
<1>3. tree = Step(tree, n)
  BY <1>2
<1>4. Inserted(kind, entries) = tree[n]
  BY DEF Inserted
<1>5. tree = GrowStep(tree, kind, entries)
  BY <1>3 DEF GrowStep
<1> HIDE DEF tree
<1> QED
  BY <1>4, <1>5

\* Two of the first n entries have keys of one hash code.
Twice(kind, entries, n) ==
  \E i, j \in 1..n : i # j /\ Hash(kind, entries[i]) = Hash(kind, entries[j])

\* What the tree is after n of the entries.
Collected(kind, entries, n, t) ==
  /\ Tree(kind, t) /\ Len(t) <= n
  /\ ElementsOf(t) \subseteq {entries[i] : i \in 1..n}
  /\ \A i \in 1..n : \E q \in 1..Len(t) : Hash(kind, t[q]) = Hash(kind, entries[i])
  /\ Twice(kind, entries, n) => Len(t) < n
  /\ ~Twice(kind, entries, n) => Len(t) = n /\ ElementsOf(t) = {entries[i] : i \in 1..n}

\* One more entry keeps what Collected says.
LEMMA CollectedNext ==
  ASSUME HeapOK, NEW kind \in Trees, NEW entries \in Seq(ItemsOf(kind)),
         NEW n \in 1..Len(entries), NEW t, Collected(kind, entries, n - 1, t)
  PROVE  Collected(kind, entries, n, insert(kind, t, entries[n]))
<1> DEFINE e == entries[n]
           u == insert(kind, t, e)
           old == \E q \in 1..Len(t) : Hash(kind, t[q]) = Hash(kind, e)
           seen == \E i \in 1..(n - 1) : Hash(kind, entries[i]) = Hash(kind, e)
<1>0. e \in ItemsOf(kind) /\ Tree(kind, t) /\ Len(t) \in Nat /\ n \in Nat
  BY LenProperties, ElementOfSeq DEF Collected, Tree
<1>1. /\ Tree(kind, u)
      /\ old => u = t
      /\ ~old => Len(u) = Len(t) + 1 /\ ElementsOf(u) = ElementsOf(t) \cup {e}
  <2> HIDE DEF e
  <2> QED
    BY <1>0, TreeInsert
<1>2. old <=> seen
  <2>1. ASSUME NEW q \in 1..Len(t), Hash(kind, t[q]) = Hash(kind, e)
        PROVE  seen
    <3>1. t[q] \in ElementsOf(t)
      BY DEF ElementsOf
    <3>2. PICK i \in 1..(n - 1) : t[q] = entries[i]
      BY <3>1 DEF Collected
    <3> QED
      BY <2>1, <3>2
  <2>2. ASSUME NEW i \in 1..(n - 1), Hash(kind, entries[i]) = Hash(kind, e)
        PROVE  old
    BY <2>2 DEF Collected
  <2> QED
    BY <2>1, <2>2
<1>3. Twice(kind, entries, n) <=> Twice(kind, entries, n - 1) \/ seen
  <2>1. ASSUME NEW i \in 1..n, NEW j \in 1..n, i # j, Hash(kind, entries[i]) = Hash(kind, entries[j])
        PROVE  Twice(kind, entries, n - 1) \/ seen
    <3>1. CASE i = n
      BY <1>0, <2>1, <3>1
    <3>2. CASE j = n
      BY <1>0, <2>1, <3>2
    <3>3. CASE i # n /\ j # n
      BY <1>0, <2>1, <3>3 DEF Twice
    <3> QED
      BY <3>1, <3>2, <3>3
  <2>2. Twice(kind, entries, n - 1) \/ seen => Twice(kind, entries, n)
    BY <1>0 DEF Twice
  <2> QED
    BY <2>1, <2>2 DEF Twice
<1>4. {entries[i] : i \in 1..n} = {entries[i] : i \in 1..(n - 1)} \cup {e}
  BY <1>0
<1>5. ASSUME NEW i \in 1..n
      PROVE  \E q \in 1..Len(u) : Hash(kind, u[q]) = Hash(kind, entries[i])
  <2> HIDE DEF u
  <2>1. CASE old
    <3>1. u = t
      BY <1>1, <2>1
    <3>2. CASE i = n
      BY <2>1, <3>1, <3>2
    <3>3. CASE i # n
      BY <1>0, <3>1, <3>3 DEF Collected
    <3> QED
      BY <3>2, <3>3
  <2>2. CASE ~old
    <3>1. entries[i] \in ElementsOf(u) \/ \E x \in ElementsOf(u) : Hash(kind, x) = Hash(kind, entries[i])
      <4>1. CASE i = n
        BY <1>1, <2>2, <4>1
      <4>2. CASE i # n
        <5>1. PICK q \in 1..Len(t) : Hash(kind, t[q]) = Hash(kind, entries[i])
          BY <1>0, <4>2 DEF Collected
        <5>2. t[q] \in ElementsOf(u)
          BY <1>1, <2>2 DEF ElementsOf
        <5> QED
          BY <5>1, <5>2
      <4> QED
        BY <4>1, <4>2
    <3> QED
      BY <3>1 DEF ElementsOf
  <2> QED
    BY <2>1, <2>2
<1> HIDE DEF u, old, seen
<1>6. CASE old
  <2>1. u = t /\ seen /\ Twice(kind, entries, n)
    BY <1>1, <1>2, <1>3, <1>6
  <2>2. Len(t) <= n - 1 /\ ElementsOf(t) \subseteq {entries[i] : i \in 1..(n - 1)}
    BY DEF Collected
  <2>3. Len(u) < n /\ ElementsOf(u) \subseteq {entries[i] : i \in 1..n}
    BY <1>0, <1>4, <2>1, <2>2
  <2> QED
    BY <1>0, <1>1, <1>5, <2>1, <2>3 DEF Collected, u
<1>7. CASE ~old
  <2>1. Len(u) = Len(t) + 1 /\ ElementsOf(u) = ElementsOf(t) \cup {e} /\ ~seen
    BY <1>1, <1>2, <1>7
  <2>2. Len(t) <= n - 1 /\ ElementsOf(t) \subseteq {entries[i] : i \in 1..(n - 1)}
        /\ (Twice(kind, entries, n - 1) => Len(t) < n - 1)
        /\ (~Twice(kind, entries, n - 1) =>
              Len(t) = n - 1 /\ ElementsOf(t) = {entries[i] : i \in 1..(n - 1)})
    BY DEF Collected
  <2>3. Len(u) <= n /\ (Twice(kind, entries, n) => Len(u) < n)
        /\ (~Twice(kind, entries, n) => Len(u) = n)
    BY <1>0, <1>3, <2>1, <2>2
  <2>4. ElementsOf(u) \subseteq {entries[i] : i \in 1..n}
        /\ (~Twice(kind, entries, n) => ElementsOf(u) = {entries[i] : i \in 1..n})
    <3> HIDE DEF e
    <3> QED
      BY <1>3, <1>4, <2>1, <2>2
  <2> QED
    BY <1>1, <1>5, <2>3, <2>4 DEF Collected, u
<1> QED
  BY <1>6, <1>7

\* What the constructors of maps and sets make: all entries, or fewer when a key comes twice.
LEMMA InsertedIs ==
  ASSUME HeapOK, NEW kind \in Trees, NEW entries \in Seq(ItemsOf(kind))
  PROVE  Collected(kind, entries, Len(entries), Inserted(kind, entries))
<1> DEFINE n == Len(entries)
<1>1. n \in Nat
  BY LenProperties
<1>2. PICK f : f = GrowStep(f, kind, entries) /\ Inserted(kind, entries) = f[n]
  BY <1>1, GrowthIs
<1> DEFINE S == {k \in 1..n : Collected(kind, entries, k, f[k])}
<1>3. f[0] = <<>> /\ \A k \in 1..n : f[k] = insert(kind, f[k - 1], entries[k])
  BY <1>1, <1>2 DEF GrowStep
<1>4. Collected(kind, entries, 0, f[0])
  BY <1>3 DEF Collected, Tree, Sorted, ElementsOf, Twice
<1>5. ASSUME NEW k \in 1..n, \A j \in 1..(k - 1) : j \in S
      PROVE  k \in S
  <2>1. Collected(kind, entries, k - 1, f[k - 1])
    BY <1>4, <1>5
  <2>2. Collected(kind, entries, k, insert(kind, f[k - 1], entries[k]))
    BY <2>1, CollectedNext
  <2> QED
    BY <1>3, <2>2
<1>6. \A k \in 1..n : k \in S
  <2> HIDE DEF S
  <2> QED
    BY <1>1, <1>5, Induction
<1> QED
  BY <1>1, <1>2, <1>4, <1>6

-------------------------------------------------------------------------------
(* A heap that grows keeps what it holds. *)

LEMMA HashStays ==
  ASSUME HeapOK, Grown, NEW i \in Objects
  PROVE  hashCode(i)' = hashCode(i)
  BY DEF Grown, hashCode, RatioHash, KeywordHash

LEMMA RefsGrow ==
  ASSUME HeapOK, Grown
  PROVE  /\ Objects \subseteq Objects' /\ Refs \subseteq Refs'
         /\ \A kind : ItemsOf(kind) \subseteq ItemsOf(kind)'
<1>1. Len(heap) \in Nat /\ Len(heap') \in Nat /\ Len(heap) <= Len(heap')
  BY DEF Grown, HeapOK
<1>2. Objects \subseteq Objects' /\ Refs \subseteq Refs'
  BY <1>1 DEF Objects, Refs
<1> QED
  BY <1>2 DEF ItemsOf

\* A tree stays sorted: the hash codes of its keys do not change.
LEMMA TreeStays ==
  ASSUME HeapOK, Grown, NEW kind \in Trees, NEW items, Tree(kind, items)
  PROVE  Tree(kind, items)'
<1>1. items \in Seq(ItemsOf(kind)) /\ items \in Seq(ItemsOf(kind)')
  <2> DEFINE E == ItemsOf(kind)
             F == ItemsOf(kind)'
  <2>1. items \in Seq(E) /\ E \subseteq F
    BY RefsGrow DEF Tree
  <2> HIDE DEF E, F
  <2>2. items \in Seq(F)
    BY <2>1, SeqMonotonic
  <2> QED
    BY <2>1, <2>2 DEF E, F
<1>2. ASSUME NEW q \in 1..Len(items)
      PROVE  Hash(kind, items[q])' = Hash(kind, items[q])
  <2>1. items[q] \in ItemsOf(kind)
    BY <1>1, ElementOfSeq
  <2>2. KeyOf(kind, items[q]) \in Objects
    BY <2>1, KeyIsObject
  <2>3. hashCode(KeyOf(kind, items[q]))' = hashCode(KeyOf(kind, items[q]))
    BY <2>2 DEF Grown, hashCode, RatioHash, KeywordHash, KeyOf
  <2> QED
    BY <2>3 DEF Hash, KeyOf
<1>3. Sorted(kind, items)'
  BY <1>2 DEF Tree, Sorted
<1> QED
  BY <1>1, <1>3 DEF Tree

\* What was there stays as it should be, and new objects alone decide the rest.
LEMMA OldFine ==
  ASSUME HeapOK, Grown, NEW i \in Objects
  PROVE  Fine(i)'
<1>1. heap'[i] = heap[i] /\ i \in 1..Len(heap) /\ Len(heap) \in Nat
  BY DEF Grown, HeapOK, Objects
<1>2. Fine(i)
  BY DEF HeapOK
<1>3. Valued(i)'
  BY <1>1, <1>2 DEF Fine, Valued
<1>4. \A j \in 1..(i - 1) : heap'[j] = heap[j]
  BY <1>1 DEF Grown, Objects
<1>5. Counted(i)'
  <2>1. Counted(i)
    BY <1>2 DEF Fine
  <2> QED
    BY <1>1, <1>4, <2>1 DEF Counted
<1>6. Composed(i)'
  <2> DEFINE o == heap[i]
  <2>1. Composed(i)
    BY <1>2 DEF Fine
  <2>2. o.items \in Seq(ItemsOf(o.kind)')
    <3> DEFINE E == ItemsOf(o.kind)
               F == ItemsOf(o.kind)'
               t == o.items
    <3>1. t \in Seq(E) /\ E \subseteq F
      <4>1. PICK k : k = heap[i].kind
        OBVIOUS
      <4>2. ItemsOf(k)' = F
        BY <1>1, <4>1 DEF ItemsOf
      <4>3. ItemsOf(k) \subseteq ItemsOf(k)'
        BY RefsGrow
      <4> QED
        BY <2>1, <4>1, <4>2, <4>3 DEF Composed
    <3> HIDE DEF E, F, t
    <3>2. t \in Seq(F)
      BY <3>1, SeqMonotonic
    <3> QED
      BY <3>2 DEF F, t
  <2>3. o.kind \in Trees => Sorted(o.kind, o.items)'
    <3> SUFFICES ASSUME o.kind \in Trees PROVE Sorted(o.kind, o.items)'
      OBVIOUS
    <3>1. Tree(o.kind, o.items)
      BY <2>1 DEF Composed, Tree, Trees
    <3> DEFINE kind == o.kind
               items == o.items
    <3>2. Tree(kind, items) /\ kind \in Trees
      BY <3>1
    <3>3. \A p, q \in 1..Len(items) : p < q => hashCode(KeyOf(kind, items[p])) < hashCode(KeyOf(kind, items[q]))
      BY <3>2 DEF Tree, Sorted, Hash
    <3>4. \A q \in 1..Len(items) : KeyOf(kind, items[q]) \in Objects
      BY <3>2, KeyIsObject, ElementOfSeq DEF Tree
    <3>5. \A q \in 1..Len(items) : hashCode(KeyOf(kind, items[q]))' = hashCode(KeyOf(kind, items[q]))
      BY <1>1, <3>4 DEF Grown, hashCode, RatioHash, KeywordHash, KeyOf
    <3> QED
      BY <1>1, <3>3, <3>5 DEF Sorted, Hash
  <2>4. o.meta # nil => o.meta \in 1..(i - 1) /\ heap'[o.meta].kind = "map"
    BY <1>4, <2>1 DEF Composed
  <2> QED
    BY <1>1, <2>1, <2>2, <2>3, <2>4 DEF Composed, Trees
<1> QED
  BY <1>1, <1>2, <1>3, <1>5, <1>6 DEF Fine

LEMMA GrownFine ==
  ASSUME HeapOK, Grown, \A i \in Objects' : i > Len(heap) => Fine(i)'
  PROVE  HeapOK'
<1>1. Len(heap) \in Nat /\ Len(heap') \in Nat
  BY DEF HeapOK, Grown
<1>2. ASSUME NEW i \in Objects'
      PROVE  Fine(i)'
  <2>1. CASE i > Len(heap)
    BY <2>1
  <2>2. CASE ~(i > Len(heap))
    <3>1. i \in Objects
      BY <1>1, <2>2 DEF Objects
    <3> QED
      BY <3>1, OldFine
  <2> QED
    BY <2>1, <2>2
<1> QED
  BY <1>1, <1>2 DEF HeapOK

\* Nothing is made.
LEMMA Unmade ==
  ASSUME HeapOK, UNCHANGED heap
  PROVE  HeapOK' /\ Grown
<1>1. Grown
  BY DEF HeapOK, Grown
<1>2. \A i \in Objects' : ~(i > Len(heap))
  BY DEF HeapOK, Objects
<1> QED
  BY <1>1, <1>2, GrownFine

\* Where new objects are.
LEMMA MadeMany ==
  ASSUME IInv, NEW T, NEW objects \in Seq(T), \A o \in T : Shaped(o),
         NEW op, NEW args, Made(op, args, objects)
  PROVE  /\ Grown /\ Len(heap) \in Nat /\ Len(objects) \in Nat
         /\ Len(heap') = Len(heap) + Len(objects)
         /\ \A k \in 1..Len(objects) : heap'[Len(heap) + k] = objects[k]
         /\ call' = [op |-> op, args |-> args, ret |-> Len(heap) + Len(objects)]
<1>1. /\ Len(heap) \in Nat /\ Len(objects) \in Nat
      /\ Len(heap') = Len(heap) + Len(objects)
      /\ \A i \in 1..Len(heap) : heap'[i] = heap[i]
  BY MadeGrows DEF IInv
<1>2. heap' = heap \o objects
  BY DEF Made
<1>3. PICK S : heap \in Seq(S)
  BY DEF IInv, HeapShaped
<1> DEFINE U == S \cup T
<1>4. heap \in Seq(U) /\ objects \in Seq(U)
  BY <1>3, SeqMonotonic
<1> HIDE DEF U
<1>5. \A i \in 1..(Len(heap) + Len(objects)) :
        heap'[i] = IF i <= Len(heap) THEN heap[i] ELSE objects[i - Len(heap)]
  BY <1>2, <1>4, ConcatProperties
<1>6. ASSUME NEW k \in 1..Len(objects)
      PROVE  heap'[Len(heap) + k] = objects[k]
  <2>1. Len(heap) + k \in 1..(Len(heap) + Len(objects)) /\ ~(Len(heap) + k <= Len(heap))
        /\ (Len(heap) + k) - Len(heap) = k
    BY <1>1
  <2> QED
    BY <1>5, <2>1
<1>7. call' = [op |-> op, args |-> args, ret |-> Len(heap) + Len(objects)]
  BY DEF Made
<1>8. Grown
  BY <1>1 DEF Grown, Objects
<1> QED
  BY <1>1, <1>6, <1>7, <1>8

LEMMA MadeOne ==
  ASSUME IInv, NEW o, Shaped(o), NEW op, NEW args, Made(op, args, <<o>>)
  PROVE  /\ Grown /\ Len(heap) \in Nat
         /\ Len(heap') = Len(heap) + 1 /\ heap'[Len(heap) + 1] = o
         /\ Objects' = Objects \cup {Len(heap) + 1}
         /\ call' = [op |-> op, args |-> args, ret |-> Len(heap) + 1]
<1> DEFINE T == {o}
           objects == <<o>>
<1>1. objects \in Seq(T) /\ Len(objects) = 1 /\ objects[1] = o /\ \A y \in T : Shaped(y)
  OBVIOUS
<1>2. Made(op, args, objects)
  OBVIOUS
<1> HIDE DEF T, objects
<1>3. /\ Grown /\ Len(heap) \in Nat /\ Len(heap') = Len(heap) + 1
      /\ \A k \in 1..Len(objects) : heap'[Len(heap) + k] = objects[k]
      /\ call' = [op |-> op, args |-> args, ret |-> Len(heap) + 1]
  BY <1>1, <1>2, MadeMany, SMTT(20)
<1> QED
  BY <1>1, <1>3 DEF Objects

-------------------------------------------------------------------------------
(* The values that the objects stand for. *)

\* No object changes its value.
LEMMA ValueStays ==
  ASSUME HeapOK, HeapOK', Grown, NEW i \in Objects
  PROVE  Value(i)' = Value(i)
<1>1. heap'[i] = heap[i]
  BY DEF Grown
<1>2. hashCode(i)' = hashCode(i)
  BY HashStays
<1>3. heap[i].kind = "list" => Chain'[i] = Chain[i]
  BY ChainStays DEF OfKind, Objects
<1> QED
  BY <1>1, <1>2, <1>3 DEF Value

\* The values that Persistent speaks of.
Vals == [i \in 1..Len(heap) |-> Value(i)]

LEMMA ValsIs ==
  ASSUME HeapOK
  PROVE  /\ Len(Vals) = Len(heap) /\ Len(heap) \in Nat
         /\ \A i \in Objects : Vals[i] = Value(i)
<1>1. Len(heap) \in Nat
  BY DEF HeapOK
<1> QED
  BY <1>1 DEF Vals, Objects

LEMMA ValsIsNext ==
  ASSUME HeapOK'
  PROVE  /\ Len(Vals') = Len(heap') /\ Len(heap') \in Nat
         /\ \A i \in Objects' : Vals'[i] = Value(i)'
<1>1. Len(heap') \in Nat
  BY DEF HeapOK
<1> QED
  BY <1>1 DEF Vals, Objects

LEMMA PromiseGrows ==
  ASSUME HeapOK, HeapOK', Grown
  PROVE  Promise!Grows
<1>1. Len(Vals) <= Len(Vals')
  BY ValsIs, ValsIsNext DEF Grown
<1>2. ASSUME NEW i \in 1..Len(Vals)
      PROVE  Vals'[i] = Vals[i]
  <2>1. i \in Objects /\ i \in Objects'
    BY <1>2, ValsIs, RefsGrow DEF Objects
  <2> QED
    BY <2>1, ValsIs, ValsIsNext, ValueStays
<1> QED
  BY <1>1, <1>2 DEF Promise!Grows, Vals

\* What the last call returned, as a value.
LEMMA ReturnedIs ==
  ASSUME HeapOK', NEW r \in Objects', call'.ret = r
  PROVE  Promise!Returned = Value(r)'
<1>1. Vals'[r] = Value(r)'
  BY ValsIsNext
<1> QED
  BY <1>1 DEF Promise!Returned, Vals

\* What a call finds, as a value.
LEMMA FoundIs ==
  ASSUME HeapOK, NEW i \in Objects
  PROVE  /\ Vals[i] = Value(i)
         /\ heap[i].kind = "list" => Value(i).elems = Chain[i]
         /\ heap[i].kind = "vector" => Value(i).elems = heap[i].items
         /\ heap[i].kind \in Trees => Value(i).elems = ElementsOf(heap[i].items)
         /\ Value(i).kind = heap[i].kind /\ Value(i).len = heap[i].count
         /\ Value(i).meta = heap[i].meta /\ Value(i).hash = hashCode(i)
         /\ Value(i).val = heap[i].val
<1>1. Vals[i] = Value(i)
  BY ValsIs
<1> QED
  BY <1>1 DEF Value, ElementsOf, Trees

-------------------------------------------------------------------------------
(* Lists. *)

AllLinked == \A i \in OfKind({"list"}) : Linked(i)

LEMMA LinkedNext == HeapOK' => AllLinked'
<1>1. HeapOK => AllLinked
  BY ChainGives DEF AllLinked
<1> QED
  BY <1>1, PTL

LEMMA ListObjectIs ==
  /\ \A x, r, c : /\ ListObject(x, r, c).kind = "list" /\ ListObject(x, r, c).val = <<>>
                  /\ ListObject(x, r, c).items = <<x>> /\ ListObject(x, r, c).rest = r
                  /\ ListObject(x, r, c).count = IF r = nil THEN 1 ELSE 1 + c
                  /\ ListObject(x, r, c).meta = nil
  /\ Empty.kind = "list" /\ Empty.val = <<>> /\ Empty.items = <<nil>> /\ Empty.rest = nil
  /\ Empty.count = 0 /\ Empty.meta = nil
  BY DEF ListObject, Empty

\* A new list that is counted as Counted says.
LEMMA ListFine ==
  ASSUME NEW i \in Objects', heap'[i].kind = "list", heap'[i].val \in Seq(Nat),
         heap'[i].items \in Seq(Refs'), heap'[i].count \in Nat,
         heap'[i].meta # nil => heap'[i].meta \in 1..(i - 1) /\ heap'[heap'[i].meta].kind = "map",
         Counted(i)'
  PROVE  Fine(i)'
<1>1. Valued(i)'
  BY DEF Valued
<1>3. heap'[i].items \in Seq(ItemsOf(heap[i].kind)')
  BY DEF ItemsOf
<1>4. Composed(i)'
  BY <1>3 DEF Composed
<1> QED
  BY <1>1, <1>4 DEF Fine, Kinds

\* What the last call returned is in the heap.
Answered == call.ret \in (IF call.op = "compare" THEN {-1, 0, 1, Throws} ELSE Refs)

\* An object that is made is neither keyword nor namespace.
Plain == \A i \in Objects' : i > Len(heap) => heap'[i].kind \notin {"key", "ns"}

\* What every call keeps.
Kept == HeapOK' /\ Grown /\ Answered'

\* The list constructor: the k-th new object has the last k items.
LEMMA MakeListKept ==
  ASSUME IInv, HeapOK, NEW items \in Seq(Refs), MakeList(items)
  PROVE  Kept /\ Plain /\ Promise!List
<1> DEFINE n == Len(items)
<1>a. PICK L \in Nat : L = Len(heap)
  BY DEF HeapOK
<1>0. n \in Nat /\ L \in Nat /\ L = Len(heap) /\ \A k \in 1..n : items[k] \in Refs
  BY <1>a, LenProperties, ElementOfSeq
<1>1. CASE n = 0
  <2>1. Made("list", items, <<Empty>>) /\ items = <<>>
    BY <1>0, <1>1, EmptySeq DEF MakeList, Lists
  <2>2. /\ Grown /\ Len(heap') = L + 1 /\ heap'[L + 1] = Empty
        /\ Objects' = Objects \cup {L + 1}
        /\ call' = [op |-> "list", args |-> items, ret |-> L + 1]
    BY <1>0, <2>1, MadeOne, ObjectsShaped
  <2> DEFINE r == L + 1
  <2>3. Fine(r)'
    <3>1. r \in Objects' /\ nil \in Refs'
      BY <1>0, <2>2 DEF Objects, Refs, nil
    <3>2. Counted(r)'
      BY <2>2, ListObjectIs DEF Counted
    <3>3. heap'[r].kind = "list" /\ heap'[r].val = <<>> /\ heap'[r].items = <<nil>>
          /\ heap'[r].count = 0 /\ heap'[r].meta = nil
      BY <2>2, ListObjectIs
    <3>4. heap'[r].val \in Seq(Nat) /\ heap'[r].count \in Nat /\ heap'[r].items \in Seq(Refs')
      BY <3>1, <3>3
    <3> HIDE DEF r
    <3> QED
      BY <3>1, <3>2, <3>3, <3>4, ListFine
  <2>4. HeapOK'
    BY <1>0, <2>2, <2>3, GrownFine DEF Objects
  <2>5. Promise!Returned = Value(r)' /\ r \in Objects'
    BY <1>0, <2>2, <2>4, ReturnedIs
  <2>6. Value(r)'.kind = "list" /\ Value(r)'.elems = <<nil>> /\ Value(r)'.len = 0
    <3>1. Linked(r)'
      BY <2>2, <2>4, <2>5, LinkedNext, ListObjectIs DEF AllLinked, OfKind, Objects
    <3>2. Chain'[r] = <<nil>>
      BY <2>2, <3>1, ListObjectIs DEF Linked
    <3> QED
      BY <2>2, <3>2, ListObjectIs DEF Value
  <2>7. Promise!List
    BY <2>1, <2>2, <2>5, <2>6 DEF Promise!List, Promise!Is, Promise!nil, nil
  <2>8. Answered'
    BY <1>0, <2>2 DEF Answered, Refs
  <2>9. Plain
    BY <1>0, <2>2, ListObjectIs DEF Plain, Objects
  <2> QED
    BY <2>2, <2>4, <2>7, <2>8, <2>9 DEF Kept
<1>2. CASE n # 0
  <2> DEFINE object(k) == ListObject(items[n + 1 - k], IF k = 1 THEN nil ELSE L + k - 1, k - 1)
             T == {object(k) : k \in 1..n}
             objects == [k \in 1..n |-> object(k)]
  <2>1. objects = Lists(items) /\ items # <<>>
    BY <1>0, <1>2 DEF Lists
  <2>2. objects \in Seq(T) /\ Len(objects) = n /\ (\A k \in 1..n : objects[k] = object(k))
    <3>1. objects \in [1..n -> T]
      OBVIOUS
    <3>2. \A k \in 1..n : objects[k] = object(k)
      OBVIOUS
    <3> HIDE DEF objects, T
    <3> QED
      BY <1>0, <3>1, <3>2
  <2>3. \A o \in T : Shaped(o)
    BY ObjectsShaped
  <2>4. Made("list", items, objects)
    BY <2>1 DEF MakeList
  <2>5. /\ Grown /\ Len(heap') = L + n
        /\ \A k \in 1..n : heap'[L + k] = object(k)
        /\ call' = [op |-> "list", args |-> items, ret |-> L + n]
    <3> HIDE DEF T, objects
    <3>1. /\ Grown /\ Len(heap') = L + Len(objects)
          /\ \A k \in 1..Len(objects) : heap'[L + k] = objects[k]
          /\ call' = [op |-> "list", args |-> items, ret |-> L + Len(objects)]
      BY <1>0, <2>2, <2>3, <2>4, MadeMany
    <3> QED
      BY <2>2, <3>1
  <2> HIDE DEF T, objects
  <2> DEFINE at(k) == L + k
             item(k) == items[n + 1 - k]
  <2>6. ASSUME NEW k \in 1..n
        PROVE  /\ at(k) \in Objects' /\ heap'[at(k)].kind = "list"
               /\ heap'[at(k)].val \in Seq(Nat) /\ heap'[at(k)].items \in Seq(Refs')
               /\ Len(heap'[at(k)].items) = 1 /\ heap'[at(k)].items[1] = item(k)
               /\ heap'[at(k)].meta = nil
               /\ heap'[at(k)].count = k
               /\ heap'[at(k)].rest = IF k = 1 THEN nil ELSE at(k - 1)
               /\ item(k) \in Refs'
    <3>1. at(k) \in Objects' /\ heap'[at(k)] = object(k)
      BY <1>0, <2>5 DEF Objects
    <3>2. n + 1 - k \in 1..n
      BY <1>0
    <3>3. item(k) \in Refs'
      BY <1>0, <2>5, <3>2, RefsGrow
    <3>4. k # 1 => at(k - 1) # nil
      BY <1>0 DEF nil
    <3>5. (IF (IF k = 1 THEN nil ELSE at(k - 1)) = nil THEN 1 ELSE 1 + (k - 1)) = k
      BY <3>4
    <3>6. L + k - 1 = at(k - 1)
      BY <1>0
    <3>7. heap'[at(k)].val = <<>> /\ heap'[at(k)].items = <<item(k)>>
      BY <3>1, ListObjectIs
    <3>8. heap'[at(k)].kind = "list" /\ heap'[at(k)].meta = nil /\ heap'[at(k)].count = k
          /\ heap'[at(k)].rest = IF k = 1 THEN nil ELSE at(k - 1)
      BY <3>1, <3>5, <3>6, ListObjectIs
    <3>9. heap'[at(k)].val \in Seq(Nat) /\ heap'[at(k)].items \in Seq(Refs')
          /\ Len(heap'[at(k)].items) = 1 /\ heap'[at(k)].items[1] = item(k)
      <4> HIDE DEF item
      <4> QED
        BY <3>3, <3>7
    <3> QED
      BY <3>1, <3>3, <3>8, <3>9
  <2>7. /\ \A k \in 1..n : at(k) # nil
        /\ \A k \in 1..n : k # 1 => k - 1 \in 1..n /\ at(k - 1) \in 1..(at(k) - 1)
        /\ at(n) = L + n /\ item(1) = items[n]
        /\ \A i \in Objects' : i > L => \E k \in 1..n : i = at(k)
    <3>1. ASSUME NEW i \in Objects', i > L
          PROVE  \E k \in 1..n : i = at(k)
      <4>1. i - L \in 1..n /\ i = L + (i - L)
        BY <1>0, <2>5, <3>1 DEF Objects
      <4> QED
        BY <4>1
    <3>2. (\A k \in 1..n : at(k) # nil) /\ at(n) = L + n /\ item(1) = items[n]
      BY <1>0 DEF nil
    <3>3. \A k \in 1..n : k # 1 => k - 1 \in 1..n /\ at(k - 1) \in 1..(at(k) - 1)
      BY <1>0
    <3> QED
      BY <3>1, <3>2, <3>3
  <2> HIDE DEF at, item
  <2>8. ASSUME NEW k \in 1..n
        PROVE  Fine(at(k))'
    <3>1. Counted(at(k))'
      <4>1. CASE k = 1
        BY <2>6, <4>1 DEF Counted
      <4>2. CASE k # 1
        <5> DEFINE j == k - 1
        <5>1. j \in 1..n /\ at(j) \in 1..(at(k) - 1) /\ j > 0 /\ k = 1 + j /\ at(j) # nil
          BY <2>7, <4>2
        <5>2. heap'[at(j)].kind = "list" /\ heap'[at(j)].meta = nil /\ heap'[at(j)].count = j
          BY <2>6, <5>1
        <5>3. heap'[at(k)].rest = at(j) /\ Len(heap'[at(k)].items) = 1
              /\ heap'[at(k)].count = 1 + j
          BY <2>6, <4>2, <5>1
        <5> HIDE DEF j
        <5> QED
          BY <5>1, <5>2, <5>3 DEF Counted
      <4> QED
        BY <4>1, <4>2
    <3> DEFINE i == at(k)
    <3>3. /\ i \in Objects' /\ heap'[i].kind = "list" /\ heap'[i].val \in Seq(Nat)
          /\ heap'[i].items \in Seq(Refs') /\ heap'[i].count \in Nat /\ heap'[i].meta = nil
      BY <2>6
    <3>4. Counted(i)'
      BY <3>1
    <3> HIDE DEF i
    <3>5. Fine(i)'
      BY <3>3, <3>4, ListFine
    <3> QED
      BY <3>5 DEF i
  <2>9. HeapOK'
    <3>1. \A i \in Objects' : i > L => Fine(i)'
      BY <2>7, <2>8
    <3> QED
      BY <1>0, <2>5, <3>1, GrownFine
  <2>10. Chain'[at(n)] = items
    <3> DEFINE tail(k) == [j \in 1..k |-> items[n - k + j]]
               S == {k \in 1..n : Chain'[at(k)] = tail(k)}
    <3>1. ASSUME NEW k \in 1..n
          PROVE  Linked(at(k))'
      BY <2>6, <2>9, LinkedNext DEF AllLinked, OfKind, Objects
    <3>2. ASSUME NEW k \in 1..n, \A j \in 1..(k - 1) : j \in S
          PROVE  k \in S
      <4>a. PICK c : c = Chain'[at(k)]
        OBVIOUS
      <4>1. c \in Seq(Refs') /\ c[1] = item(k)
        BY <2>6, <3>1, <4>a DEF Linked
      <4>b. item(k) = items[n + 1 - k]
        BY DEF item
      <4>2. CASE k = 1
        <5>1. Len(c) = 1
          BY <2>6, <3>1, <4>2, <4>a DEF Linked
        <5>2. tail(k) = [j \in 1..1 |-> items[n]]
          BY <1>0, <4>2
        <5>3. c = [j \in 1..1 |-> items[n]]
          BY <1>0, <4>1, <4>b, <4>2, <5>1
        <5> QED
          BY <4>a, <5>2, <5>3
      <4>3. CASE k # 1
        <5>1. k - 1 \in S
          <6> HIDE DEF S
          <6> QED
            BY <3>2, <4>3
        <5> DEFINE d == tail(k - 1)
        <5>2. Chain'[at(k - 1)] = d
          BY <5>1
        <5>3. Tail(c) = d /\ Len(c) = 1 + Len(d)
          <6> HIDE DEF d
          <6>1. heap'[at(k)].rest = at(k - 1) /\ at(k - 1) # nil
            BY <2>6, <2>7, <4>3
          <6> QED
            BY <3>1, <4>a, <5>2, <6>1 DEF Linked
        <5>4. Len(d) = k - 1 /\ \A j \in 1..(k - 1) : d[j] = items[n - (k - 1) + j]
          BY <4>3
        <5> HIDE DEF d, tail
        <5>5. Len(c) = k /\ \A j \in 1..(k - 1) : c[j + 1] = items[n - (k - 1) + j]
          <6>1. Len(c) = k
            BY <5>3, <5>4
          <6>2. \A j \in 1..(k - 1) : Tail(c)[j] = c[j + 1]
            BY <4>1, <4>3, <6>1
          <6> QED
            BY <5>3, <5>4, <6>1, <6>2
        <5>6. ASSUME NEW j \in 1..k
              PROVE  c[j] = items[n - k + j]
          <6>1. CASE j = 1
            BY <1>0, <4>1, <4>b, <6>1
          <6>2. CASE j # 1
            <7>1. j - 1 \in 1..(k - 1) /\ (j - 1) + 1 = j /\ n - (k - 1) + (j - 1) = n - k + j
              BY <1>0, <6>2
            <7>2. c[(j - 1) + 1] = items[n - (k - 1) + (j - 1)]
              BY <5>5, <7>1
            <7> QED
              BY <7>1, <7>2
          <6> QED
            BY <6>1, <6>2
        <5>7. c = [j \in 1..k |-> items[n - k + j]]
          <6> DEFINE e == [j \in 1..k |-> items[n - k + j]]
          <6>1. DOMAIN e = 1..k /\ (\A j \in 1..k : e[j] = c[j]) /\ e = [j \in 1..k |-> e[j]]
            BY <5>6
          <6>2. c = [j \in 1..k |-> c[j]]
            BY <4>1, <5>5
          <6> HIDE DEF e
          <6> QED
            BY <6>1, <6>2 DEF e
        <5> QED
          BY <4>a, <5>7 DEF tail
      <4> QED
        BY <4>2, <4>3
    <3>3. n \in S
      <4> HIDE DEF S
      <4>1. \A k \in 1..n : k \in S
        BY <1>0, <3>2, Induction
      <4> QED
        BY <1>0, <1>2, <4>1
    <3>4. tail(n) = items
      <4>1. items = [j \in 1..n |-> items[j]]
        BY <1>0
      <4>2. tail(n) = [j \in 1..n |-> items[j]]
        BY <1>0
      <4> QED
        BY <4>1, <4>2
    <3> QED
      BY <3>3, <3>4
  <2>11. PICK r : r = at(n)
    OBVIOUS
  <2>12. r \in Objects' /\ heap'[r].kind = "list" /\ heap'[r].count = n /\ call'.ret = r
         /\ call'.op = "list" /\ call'.args = items
    BY <1>0, <1>2, <2>5, <2>6, <2>7, <2>11
  <2>13. Promise!Returned = Value(r)'
    BY <2>9, <2>12, ReturnedIs
  <2>14. Value(r)'.kind = "list" /\ Value(r)'.elems = items /\ Value(r)'.len = n
    BY <2>10, <2>11, <2>12 DEF Value
  <2>15. Promise!List
    BY <2>1, <2>12, <2>13, <2>14 DEF Promise!List, Promise!Is
  <2>16. Answered'
    BY <2>12 DEF Answered, Refs, Objects
  <2>17. Plain
    <3>1. \A k \in 1..n : heap'[at(k)].kind = "list"
      BY <2>6
    <3> QED
      BY <1>0, <2>7, <3>1 DEF Plain
  <2> QED
    BY <2>5, <2>9, <2>15, <2>16, <2>17 DEF Kept
<1> QED
  BY <1>1, <1>2

-------------------------------------------------------------------------------
(* Vectors, maps and sets. *)

\* o is an object that may be added to the heap: a vector or a tree of what is there.
Sound(o) ==
  /\ Shaped(o) /\ o.kind \in {"vector", "map", "set"} /\ o.val \in Seq(Nat)
  /\ o.items \in Seq(ItemsOf(o.kind))
  /\ o.kind \in Trees => Sorted(o.kind, o.items)
  /\ o.count = Len(o.items) /\ o.rest = nil
  /\ o.meta # nil => o.meta \in Objects /\ heap[o.meta].kind = "map"

\* What Persistent sees of it when it is returned.
Seen(o, op, args) ==
  /\ call'.op = op /\ call'.args = args
  /\ Promise!Returned.kind = o.kind /\ Promise!Returned.len = Len(o.items)
  /\ Promise!Returned.elems = IF o.kind = "vector" THEN o.items ELSE ElementsOf(o.items)
  /\ Promise!Returned.meta = o.meta

\* A call that makes one such object.
LEMMA SoundKept ==
  ASSUME IInv, HeapOK, NEW o, Sound(o),
         NEW op, op # "compare", NEW args, Made(op, args, <<o>>)
  PROVE  Kept /\ Plain /\ Seen(o, op, args)
<1>1. PICK L \in Nat : L = Len(heap)
  BY DEF HeapOK
<1>2. PICK r : r = L + 1
  OBVIOUS
<1>3. /\ Grown /\ Len(heap') = r /\ heap'[r] = o /\ Objects' = Objects \cup {r}
      /\ r \in Objects' /\ r \in Nat
      /\ call' = [op |-> op, args |-> args, ret |-> r]
  <2>1. Shaped(o)
    BY DEF Sound
  <2>2. /\ Grown /\ Len(heap') = L + 1 /\ heap'[L + 1] = o /\ Objects' = Objects \cup {L + 1}
        /\ call' = [op |-> op, args |-> args, ret |-> L + 1]
    BY <1>1, <2>1, MadeOne
  <2> QED
    BY <1>2, <2>2
<1>4. o.kind \in Kinds /\ o.kind # "list" /\ o.kind \notin {"key", "ns"}
  BY DEF Sound, Kinds
<1>5. Valued(r)'
  BY <1>3 DEF Sound, Valued
<1>6. Composed(r)'
  <2> DEFINE kind == o.kind
             items == o.items
  <2>1. items \in Seq(ItemsOf(kind)')
    <3> DEFINE E == ItemsOf(kind)
               F == ItemsOf(kind)'
    <3>1. items \in Seq(E) /\ E \subseteq F
      BY <1>3, RefsGrow DEF Sound
    <3> HIDE DEF E, F, kind, items
    <3>2. items \in Seq(F)
      BY <3>1, SeqMonotonic
    <3> QED
      BY <3>2 DEF F
  <2>2. kind \in Trees => Sorted(kind, items)'
    <3>1. kind \in Trees => Tree(kind, items)
      BY DEF Sound, Tree
    <3> HIDE DEF kind, items
    <3>2. kind \in Trees => Tree(kind, items)'
      BY <1>3, <3>1, TreeStays
    <3> QED
      BY <3>2 DEF Tree
  <2>3. o.meta # nil => o.meta \in 1..(r - 1) /\ heap'[o.meta].kind = "map"
    <3>1. o.meta # nil => o.meta \in 1..L /\ heap[o.meta].kind = "map"
      BY <1>1 DEF Sound, Objects
    <3>2. o.meta # nil => heap'[o.meta] = heap[o.meta]
      BY <1>1, <1>3, <3>1 DEF Grown, Objects
    <3> QED
      BY <1>1, <1>2, <3>1, <3>2
  <2>4. o.count = Len(o.items) /\ o.rest = nil /\ o.count \in Nat
    BY <2>1, LenProperties DEF Sound
  <2>5. heap'[r].items \in Seq(ItemsOf(heap[r].kind)')
    BY <1>3, <2>1 DEF ItemsOf
  <2>6. heap'[r].kind \in {"map", "set"} => Sorted(heap[r].kind, heap[r].items)'
    BY <1>3, <2>2 DEF Trees, Sorted, Hash, KeyOf
  <2> HIDE DEF kind, items
  <2> QED
    BY <1>3, <2>3, <2>4, <2>5, <2>6 DEF Composed
<1>7. Counted(r)'
  BY <1>3, <1>4 DEF Counted
<1>8. HeapOK'
  <2>1. Fine(r)'
    BY <1>3, <1>4, <1>5, <1>6, <1>7 DEF Fine
  <2>2. \A i \in Objects' : i > L => i = r
    BY <1>1, <1>2, <1>3 DEF Objects
  <2> QED
    BY <1>1, <1>3, <2>1, <2>2, GrownFine
<1>9. Promise!Returned = Value(r)'
  BY <1>3, <1>8, ReturnedIs
<1>10. Value(r)'.kind = o.kind /\ Value(r)'.meta = o.meta /\ Value(r)'.len = Len(o.items)
       /\ Value(r)'.elems = IF o.kind = "vector" THEN o.items ELSE ElementsOf(o.items)
  BY <1>3, <1>4 DEF Value, Sound, ElementsOf
<1>11. Plain
  BY <1>1, <1>2, <1>3, <1>4 DEF Plain, Objects
<1>12. Answered'
  BY <1>3 DEF Answered, Refs
<1> QED
  BY <1>3, <1>8, <1>9, <1>10, <1>11, <1>12 DEF Kept, Seen

LEMMA CollectionIs ==
  \A kind, items, meta :
    LET o == Collection(kind, items, meta)
    IN /\ Shaped(o) /\ o.kind = kind /\ o.val = <<>> /\ o.items = items /\ o.rest = nil
       /\ o.count = Len(items) /\ o.meta = meta
  BY DEF Collection, Shaped

LEMMA VectorSound ==
  ASSUME NEW items \in Seq(Refs)
  PROVE  Sound(Collection("vector", items, nil))
<1> DEFINE o == Collection("vector", items, nil)
<1>1. /\ Shaped(o) /\ o.kind = "vector" /\ o.val = <<>> /\ o.items = items /\ o.rest = nil
      /\ o.count = Len(items) /\ o.meta = nil
  BY CollectionIs
<1> HIDE DEF o
<1>2. o.val \in Seq(Nat) /\ o.items \in Seq(ItemsOf(o.kind))
  BY <1>1 DEF ItemsOf
<1>3. Sound(o)
  BY <1>1, <1>2 DEF Sound, Trees
<1> QED
  BY <1>3 DEF o

\* What is returned of a vector that was made.
LEMMA VectorMade ==
  ASSUME IInv, HeapOK, NEW items \in Seq(Refs), NEW op, op # "compare", NEW args,
         Made(op, args, <<Collection("vector", items, nil)>>)
  PROVE  /\ Kept /\ Plain /\ call'.op = op /\ call'.args = args
         /\ Promise!Returned.kind = "vector" /\ Promise!Returned.elems = items
         /\ Promise!Returned.len = Len(items) /\ Promise!Returned.meta = nil
<1> DEFINE o == Collection("vector", items, nil)
<1>1. Sound(o) /\ o.kind = "vector" /\ o.items = items /\ o.meta = nil
  BY VectorSound, CollectionIs
<1>2. Made(op, args, <<o>>)
  OBVIOUS
<1> HIDE DEF o
<1>3. Kept /\ Plain /\ Seen(o, op, args)
  BY <1>1, <1>2, SoundKept
<1> QED
  BY <1>1, <1>3 DEF Seen

LEMMA MakeVectorKept ==
  ASSUME IInv, HeapOK, NEW items \in Seq(Refs), MakeVector(items)
  PROVE  Kept /\ Plain /\ Promise!Vector
<1>1. Made("vector", items, <<Collection("vector", items, nil)>>)
  BY DEF MakeVector
<1>2. /\ Kept /\ Plain /\ call'.op = "vector" /\ call'.args = items
      /\ Promise!Returned.kind = "vector" /\ Promise!Returned.elems = items
      /\ Promise!Returned.len = Len(items)
  BY <1>1, VectorMade
<1> QED
  BY <1>2 DEF Promise!Vector, Promise!Is

\* A vector of a list or a vector.
LEMMA VectorOfKept ==
  ASSUME IInv, HeapOK, NEW s \in OfKind({"list", "vector"}), VectorOf(s)
  PROVE  Kept /\ Plain /\ Promise!VectorOf
<1> DEFINE elems == IF heap[s].kind = "list" THEN Chain[s]
                    ELSE IF heap[s].items = <<>> THEN <<nil>> ELSE heap[s].items
           old == Value(s).elems
<1>1. s \in Objects /\ heap[s].kind \in {"list", "vector"} /\ Fine(s) /\ nil \in Refs
  BY DEF OfKind, Objects, HeapOK, Refs, nil
<1>2. old = IF heap[s].kind = "list" THEN Chain[s] ELSE heap[s].items
  BY <1>1, FoundIs
<1>3. heap[s].kind = "list" => Chain[s] \in Seq(Refs) /\ Chain[s] # <<>>
  <2> SUFFICES ASSUME heap[s].kind = "list" PROVE Chain[s] \in Seq(Refs) /\ Chain[s] # <<>>
    OBVIOUS
  <2>1. Linked(s)
    BY <1>1, ChainGives DEF OfKind, Objects
  <2>2. Chain[s] \in Seq(Refs) /\ Len(Chain[s]) > 0
    BY <2>1 DEF Linked
  <2> QED
    BY <2>2
<1>4. heap[s].kind = "vector" => heap[s].items \in Seq(Refs)
  BY <1>1 DEF Fine, Composed, ItemsOf
<1>5. elems \in Seq(Refs) /\ elems = IF old = <<>> THEN <<nil>> ELSE old
  BY <1>1, <1>2, <1>3, <1>4
<1>6. Made("vectorOf", <<s>>, <<Collection("vector", elems, nil)>>)
  BY DEF VectorOf
<1> HIDE DEF elems
<1>7. /\ Kept /\ Plain /\ call'.op = "vectorOf" /\ call'.args = <<s>>
      /\ Promise!Returned.kind = "vector" /\ Promise!Returned.elems = elems
  <2> DEFINE args == <<s>>
  <2>1. Made("vectorOf", args, <<Collection("vector", elems, nil)>>)
    BY <1>6
  <2> HIDE DEF args
  <2>2. /\ Kept /\ Plain /\ call'.op = "vectorOf" /\ call'.args = args
        /\ Promise!Returned.kind = "vector" /\ Promise!Returned.elems = elems
    BY <1>5, <2>1, VectorMade
  <2> QED
    BY <2>2 DEF args
<1>8. Vals[call'.args[1]] = Value(s)
  BY <1>1, <1>7, FoundIs
<1>9. Promise!VectorOf
  BY <1>5, <1>7, <1>8 DEF Promise!VectorOf, Promise!Is, Promise!nil, nil, Vals
<1> QED
  BY <1>7, <1>9

\* A call that returns an old object.
LEMMA FoundKept ==
  ASSUME IInv, HeapOK, NEW op, op # "compare", NEW args, NEW ret \in Refs, Found(op, args, ret)
  PROVE  /\ Kept /\ Plain /\ call' = [op |-> op, args |-> args, ret |-> ret]
         /\ ret \in Objects => Promise!Returned = Value(ret)
<1>1. call' = [op |-> op, args |-> args, ret |-> ret] /\ UNCHANGED heap
  BY DEF Found
<1>2. HeapOK' /\ Grown /\ Refs' = Refs /\ Objects' = Objects
  BY <1>1, Unmade DEF Refs, Objects
<1>3. Answered'
  BY <1>1, <1>2 DEF Answered
<1>4. Plain
  <2>1. \A i \in Objects' : ~(i > Len(heap))
    BY <1>2 DEF Objects, HeapOK
  <2> QED
    BY <2>1 DEF Plain
<1>5. ret \in Objects => Promise!Returned = Value(ret)
  <2> SUFFICES ASSUME ret \in Objects PROVE Promise!Returned = Value(ret)
    OBVIOUS
  <2>1. Promise!Returned = Value(ret)'
    BY <1>1, <1>2, ReturnedIs
  <2>2. Value(ret)' = Value(ret)
    BY <1>2, ValueStays
  <2> QED
    BY <2>1, <2>2
<1> QED
  BY <1>1, <1>2, <1>3, <1>4, <1>5 DEF Kept

\* Literal maps and sets.
LEMMA MakeKeyedKept ==
  ASSUME IInv, HeapOK, NEW kind \in Trees, NEW entries \in Seq(ItemsOf(kind)),
         MakeKeyed(kind, entries)
  PROVE  Kept /\ Plain /\ Promise!Keyed
<1> DEFINE tree == Inserted(kind, entries)
           n == Len(entries)
           o == Collection(kind, tree, nil)
           same(i, j) == Promise!Hash(Promise!KeyOf(entries[i])) = Promise!Hash(Promise!KeyOf(entries[j]))
           twice == \E i, j \in 1..n : i # j /\ same(i, j)
<1>0. kind \in {"map", "set"} /\ kind # "compare" /\ kind # "vector"
  BY DEF Trees
<1>1. Collected(kind, entries, n, tree)
  BY InsertedIs
<1> HIDE DEF tree
<1>2. /\ Tree(kind, tree) /\ Len(tree) \in Nat /\ n \in Nat /\ Len(tree) <= n
      /\ Twice(kind, entries, n) => Len(tree) < n
      /\ ~Twice(kind, entries, n) => Len(tree) = n /\ ElementsOf(tree) = ElementsOf(entries)
  BY <1>1, LenProperties DEF Collected, Tree, ElementsOf
<1>3. ASSUME call'.op = kind
      PROVE  twice <=> Twice(kind, entries, n)
  <2>1. ASSUME NEW i \in 1..n
        PROVE  Promise!Hash(Promise!KeyOf(entries[i])) = Hash(kind, entries[i])
    <3>1. entries[i] \in ItemsOf(kind)
      BY ElementOfSeq
    <3>2. KeyOf(kind, entries[i]) \in Objects
      BY <3>1, KeyIsObject
    <3>3. Promise!KeyOf(entries[i]) = KeyOf(kind, entries[i])
      BY <1>0, <1>3 DEF Promise!KeyOf, KeyOf
    <3> DEFINE key == KeyOf(kind, entries[i])
    <3>4. Promise!Hash(key) = Vals[key].hash
      BY DEF Promise!Hash, Vals
    <3> HIDE DEF key
    <3>5. Vals[key].hash = hashCode(key)
      BY <3>2, FoundIs DEF key
    <3> QED
      BY <3>3, <3>4, <3>5 DEF Hash, key
  <2>2. \A i, j \in 1..n : same(i, j) <=> Hash(kind, entries[i]) = Hash(kind, entries[j])
    BY <2>1
  <2> HIDE DEF same
  <2> QED
    BY <2>2 DEF Twice
<1>4. CASE Len(tree) < n
  <2>1. Found(kind, entries, nil) /\ nil \in Refs
    BY <1>4 DEF MakeKeyed, Refs, nil, HeapOK, tree
  <2>2. Kept /\ Plain /\ call' = [op |-> kind, args |-> entries, ret |-> nil]
    BY <1>0, <2>1, FoundKept
  <2>3. twice
    BY <1>2, <1>3, <1>4, <2>2
  <2>4. Promise!Keyed
    BY <1>0, <2>2, <2>3 DEF Promise!Keyed, Promise!nil, nil
  <2> QED
    BY <2>2, <2>4
<1>5. CASE ~(Len(tree) < n)
  <2>1. Made(kind, entries, <<o>>)
    BY <1>5 DEF MakeKeyed, tree
  <2>2. Sound(o) /\ o.kind = kind /\ o.items = tree
    <3>1. /\ Shaped(o) /\ o.kind = kind /\ o.val = <<>> /\ o.items = tree /\ o.rest = nil
          /\ o.count = Len(tree) /\ o.meta = nil
      BY CollectionIs
    <3> HIDE DEF o
    <3>2. o.val \in Seq(Nat) /\ o.items \in Seq(ItemsOf(kind)) /\ Sorted(kind, o.items)
      BY <1>2, <3>1 DEF Tree
    <3> QED
      BY <1>0, <3>1, <3>2 DEF Sound
  <2> HIDE DEF o
  <2>3. Kept /\ Plain /\ Seen(o, kind, entries)
    BY <1>0, <2>1, <2>2, SoundKept
  <2>4. /\ call'.op = kind /\ call'.args = entries
        /\ Promise!Returned.kind = kind /\ Promise!Returned.len = Len(tree)
        /\ Promise!Returned.elems = ElementsOf(tree)
    BY <1>0, <2>2, <2>3 DEF Seen
  <2>5. ~Twice(kind, entries, n) /\ ~twice
    BY <1>2, <1>3, <1>5, <2>4
  <2>6. Promise!Is(kind, Promise!ElementsOf(entries)) /\ Promise!Returned.len = n
    BY <1>2, <2>4, <2>5 DEF Promise!Is, Promise!ElementsOf, ElementsOf
  <2>7. Promise!Keyed
    BY <1>0, <2>4, <2>5, <2>6 DEF Promise!Keyed
  <2> QED
    BY <2>3, <2>7
<1> QED
  BY <1>4, <1>5

\* What a map has for the keys that k stands for, as Persistent says it.
LEMMA AtIs ==
  ASSUME HeapOK, NEW m \in OfKind({"map"}), NEW k \in Objects
  PROVE  LET items == heap[m].items
         IN Promise!At(m, k) = {items[q][2] : q \in {q \in 1..Len(items) : Hash("map", items[q]) = hashCode(k)}}
<1> DEFINE items == heap[m].items
<1>1. m \in Objects /\ heap[m].kind = "map" /\ items \in Seq(Objects \X Refs)
  BY DEF OfKind, Objects, HeapOK, Fine, Composed, ItemsOf
<1>2. Vals[m].elems = ElementsOf(items) /\ Vals[k].hash = hashCode(k)
  BY <1>1, FoundIs DEF Trees
<1>3. ASSUME NEW q \in 1..Len(items)
      PROVE  Vals[items[q][1]].hash = Hash("map", items[q])
  <2>1. items[q] \in Objects \X Refs
    BY <1>1, ElementOfSeq
  <2>2. items[q][1] \in Objects
    BY <2>1
  <2> DEFINE x == items[q][1]
  <2>3. x \in Objects
    BY <2>2
  <2> HIDE DEF x
  <2>4. Vals[x].hash = hashCode(x)
    BY <2>3, FoundIs
  <2> QED
    BY <2>4 DEF x, Hash, KeyOf
<1>4. Promise!At(m, k) = {e[2] : e \in {d \in Vals[m].elems : Vals[d[1]].hash = Vals[k].hash}}
  BY DEF Promise!At, Promise!Hash, Vals
<1>5. {d \in ElementsOf(items) : Vals[d[1]].hash = hashCode(k)}
        = {items[q] : q \in {q \in 1..Len(items) : Hash("map", items[q]) = hashCode(k)}}
  BY <1>3 DEF ElementsOf
<1> HIDE DEF items
<1>6. {e[2] : e \in {items[q] : q \in {q \in 1..Len(items) : Hash("map", items[q]) = hashCode(k)}}}
        = {items[q][2] : q \in {q \in 1..Len(items) : Hash("map", items[q]) = hashCode(k)}}
  OBVIOUS
<1> QED
  BY <1>2, <1>4, <1>5, <1>6 DEF items

\* A look-up finds the value of the key's hash code, or none.
LEMMA ValAtKept ==
  ASSUME IInv, HeapOK, NEW m \in OfKind({"map"}), NEW k \in Objects, valAt(m, k)
  PROVE  Kept /\ Plain /\ Promise!ValAt
<1> DEFINE items == heap[m].items
           p == Place("map", items, k)
           ret == IF Has("map", items, k) THEN items[p][2] ELSE nil
           args == <<m, k>>
           Q == {q \in 1..Len(items) : Hash("map", items[q]) = hashCode(k)}
<1>1. m \in Objects /\ items \in Seq(Objects \X Refs) /\ Tree("map", items) /\ "map" \in Trees
  BY DEF OfKind, Objects, HeapOK, Fine, Composed, ItemsOf, Tree, Trees
<1>2. /\ p \in 1..(Len(items) + 1)
      /\ \A q \in 1..Len(items) : Hash("map", items[q]) = hashCode(k) => q = p
      /\ Has("map", items, k) <=> \E q \in 1..Len(items) : Hash("map", items[q]) = hashCode(k)
  BY <1>1, PlaceIs
<1> HIDE DEF p
<1>3. /\ Has("map", items, k) => Q = {p} /\ p \in 1..Len(items)
      /\ ~Has("map", items, k) => Q = {}
  BY <1>2
<1>4. Found("valAt", args, ret)
  BY DEF valAt, p
<1>5. ret \in Refs
  <2>1. CASE Has("map", items, k)
    <3>1. items[p] \in Objects \X Refs
      BY <1>1, <1>3, <2>1, ElementOfSeq
    <3> QED
      BY <2>1, <3>1
  <2>2. CASE ~Has("map", items, k)
    BY <2>2 DEF Refs, nil, HeapOK
  <2> QED
    BY <2>1, <2>2
<1>6. Promise!At(m, k) = {items[q][2] : q \in Q}
  BY AtIs
<1>7. Promise!At(m, k) = IF Has("map", items, k) THEN {ret} ELSE {}
  <2> HIDE DEF items, Q
  <2> QED
    BY <1>3, <1>6
<1>8. Promise!At(m, k) = {} => ret = nil
  BY <1>7
<1>9. args[1] = m /\ args[2] = k
  OBVIOUS
<1> HIDE DEF args, items, Q
<1>10. Kept /\ Plain /\ call' = [op |-> "valAt", args |-> args, ret |-> ret]
  BY <1>4, <1>5, FoundKept
<1> HIDE DEF ret
<1>11. call'.op = "valAt" /\ call'.args[1] = m /\ call'.args[2] = k /\ call'.ret = ret
  BY <1>9, <1>10
<1>12. Promise!ValAt
  <2>1. Promise!At(call'.args[1], call'.args[2]) = Promise!At(m, k)
    BY <1>11
  <2>2. Promise!At(m, k) = IF Promise!At(m, k) = {} THEN {} ELSE {ret}
    BY <1>7
  <2> QED
    BY <1>8, <1>11, <2>1, <2>2 DEF Promise!ValAt, Promise!nil, nil
<1> QED
  BY <1>10, <1>12

\* An association copies the map and inserts.
LEMMA AssocKept ==
  ASSUME IInv, HeapOK, NEW m \in OfKind({"map"}), NEW k \in Objects, NEW v \in Refs, assoc(m, k, v)
  PROVE  Kept /\ Plain /\ Promise!Assoc
<1> DEFINE items == heap[m].items
           e == <<k, v>>
           new == insert("map", items, e)
           o == Collection("map", new, heap[m].meta)
           args == <<m, k, v>>
           old == \E q \in 1..Len(items) : Hash("map", items[q]) = Hash("map", e)
<1>1. m \in Objects /\ heap[m].kind = "map" /\ Fine(m) /\ Len(heap) \in Nat
  BY DEF OfKind, Objects, HeapOK
<1>2. Tree("map", items) /\ "map" \in Trees /\ e \in ItemsOf("map") /\ KeyOf("map", e) = k
  BY <1>1 DEF Fine, Composed, ItemsOf, Tree, Trees, KeyOf
<1>3. /\ Tree("map", new)
      /\ old => new = items
      /\ ~old => ElementsOf(new) = ElementsOf(items) \cup {e}
  <2> HIDE DEF e, items
  <2> QED
    BY <1>2, TreeInsert
<1>4. heap[m].meta # nil => heap[m].meta \in Objects /\ heap[heap[m].meta].kind = "map"
  BY <1>1 DEF Fine, Composed, Objects
<1>5. Sound(o) /\ o.kind = "map" /\ o.items = new /\ o.meta = heap[m].meta
  <2>1. /\ Shaped(o) /\ o.kind = "map" /\ o.val = <<>> /\ o.items = new /\ o.rest = nil
        /\ o.count = Len(new) /\ o.meta = heap[m].meta
    BY CollectionIs
  <2> HIDE DEF o, new
  <2>2. o.val \in Seq(Nat)
    BY <2>1
  <2> QED
    BY <1>3, <1>4, <2>1, <2>2 DEF Sound, Tree
<1>6. Made("assoc", args, <<o>>)
  BY DEF assoc
<1>7. args[1] = m /\ args[2] = k /\ args[3] = v
  OBVIOUS
<1> HIDE DEF o, args
<1>8. Kept /\ Plain /\ Seen(o, "assoc", args)
  BY <1>5, <1>6, SoundKept
<1>9. /\ call'.op = "assoc" /\ call'.args[1] = m /\ call'.args[2] = k /\ call'.args[3] = v
      /\ Promise!Returned.kind = "map" /\ Promise!Returned.elems = ElementsOf(new)
      /\ Promise!Returned.meta = heap[m].meta
  BY <1>5, <1>7, <1>8 DEF Seen
<1>10. Vals[m].elems = ElementsOf(items) /\ Vals[m].meta = heap[m].meta
  BY <1>1, FoundIs DEF Trees
<1>11. Promise!At(m, k) = {} <=> ~old
  <2>1. Promise!At(m, k) = {items[q][2] : q \in {q \in 1..Len(items) : Hash("map", items[q]) = hashCode(k)}}
    BY AtIs
  <2>2. Hash("map", e) = hashCode(k)
    BY <1>2 DEF Hash
  <2> QED
    BY <2>1, <2>2
<1>12. ElementsOf(new) = ElementsOf(items) \cup (IF Promise!At(m, k) = {} THEN {e} ELSE {})
  BY <1>3, <1>11
<1>13. Promise!Assoc
  <2>1. Vals[m].elems = ElementsOf(items) /\ Vals[m].meta = heap[m].meta
    BY <1>10
  <2> HIDE DEF items, new
  <2>2. <<call'.args[2], call'.args[3]>> = e
    BY <1>9
  <2>3. Promise!Assoc <=> /\ call'.op = "assoc"
                          /\ LET w == call'.args[1]
                                 d == <<call'.args[2], call'.args[3]>>
                             IN /\ Promise!Is("map", Vals[w].elems \cup (IF Promise!At(w, d[1]) = {} THEN {d} ELSE {}))
                                /\ Promise!Returned.meta = Vals[w].meta
    BY DEF Promise!Assoc, Vals
  <2>4. e[1] = k
    OBVIOUS
  <2> HIDE DEF e
  <2> QED
    BY <1>9, <1>12, <2>1, <2>2, <2>3, <2>4 DEF Promise!Is
<1> QED
  BY <1>8, <1>13

\* What is known of a list or vector that a call is given.
LEMMA GivenIs ==
  ASSUME HeapOK, NEW s \in OfKind({"list", "vector"})
  PROVE  LET o == heap[s]
             elems == Vals[s].elems
         IN /\ s \in Objects /\ o.kind \in {"list", "vector"} /\ Fine(s)
            /\ Vals[s].kind = o.kind /\ Vals[s].meta = o.meta /\ Vals[s].len = o.count
            /\ Vals[s] = Value(s) /\ o.items \in Seq(Refs) /\ elems \in Seq(Refs)
            /\ o.kind = "list" => Linked(s) /\ Counted(s) /\ elems = Chain[s] /\ Len(o.items) = 1
            /\ o.kind = "vector" => elems = o.items /\ o.count = Len(o.items) /\ o.rest = nil
            /\ o.meta # nil => o.meta \in Objects /\ heap[o.meta].kind = "map"
<1> DEFINE o == heap[s]
<1>1. s \in Objects /\ o.kind \in {"list", "vector"} /\ Fine(s) /\ Len(heap) \in Nat
  BY DEF OfKind, Objects, HeapOK
<1>2. o.items \in Seq(Refs)
  BY <1>1 DEF Fine, Composed, ItemsOf
<1>3. o.kind = "list" => Linked(s) /\ Counted(s) /\ Len(o.items) = 1
  BY <1>1, ChainGives DEF Fine, Counted, OfKind, Objects
<1>4. o.kind = "list" => Chain[s] \in Seq(Refs)
  BY <1>3 DEF Linked
<1>5. o.kind = "vector" => o.count = Len(o.items) /\ o.rest = nil
  BY <1>1 DEF Fine, Composed
<1>6. o.meta # nil => o.meta \in Objects /\ heap[o.meta].kind = "map"
  BY <1>1 DEF Fine, Composed, Objects
<1>7. /\ Vals[s] = Value(s) /\ Value(s).kind = o.kind /\ Value(s).meta = o.meta /\ Value(s).len = o.count
      /\ o.kind = "list" => Value(s).elems = Chain[s]
      /\ o.kind = "vector" => Value(s).elems = o.items
  BY <1>1, FoundIs
<1> HIDE DEF o
<1>8. Vals[s].elems \in Seq(Refs)
  BY <1>1, <1>2, <1>4, <1>7
<1> QED
  BY <1>1, <1>2, <1>3, <1>5, <1>6, <1>7, <1>8 DEF o

\* first and rest of lists and vectors.
LEMMA FirstKept ==
  ASSUME IInv, HeapOK, NEW s \in OfKind({"list", "vector"}), first(s)
  PROVE  Kept /\ Plain /\ Promise!First
<1> DEFINE o == heap[s]
           elems == Vals[s].elems
           ret == IF o.items = <<>> THEN nil ELSE o.items[1]
           args == <<s>>
<1>1. /\ o.kind \in {"list", "vector"} /\ o.items \in Seq(Refs) /\ elems \in Seq(Refs)
      /\ o.kind = "list" => Linked(s) /\ elems = Chain[s] /\ Len(o.items) = 1
      /\ o.kind = "vector" => elems = o.items
  BY GivenIs
<1>2. ret \in Refs
  BY <1>1 DEF Refs, nil, HeapOK
<1>3. ret = IF elems = <<>> THEN nil ELSE Head(elems)
  <2>1. CASE o.kind = "list"
    <3>1. Len(Chain[s]) > 0 /\ Chain[s][1] = o.items[1]
      BY <1>1, <2>1 DEF Linked
    <3>2. Len(elems) > 0 /\ elems[1] = o.items[1] /\ Len(o.items) = 1
      BY <1>1, <2>1, <3>1
    <3> HIDE DEF elems, o
    <3> QED
      BY <1>1, <3>2
  <2>2. CASE o.kind = "vector"
    <3>1. elems = o.items
      BY <1>1, <2>2
    <3> HIDE DEF elems, o
    <3> QED
      BY <1>1, <3>1
  <2> QED
    BY <1>1, <2>1, <2>2
<1>4. Found("first", args, ret) /\ args[1] = s
  BY DEF first
<1> HIDE DEF args, ret, o
<1>5. Kept /\ Plain /\ call' = [op |-> "first", args |-> args, ret |-> ret]
  BY <1>2, <1>4, FoundKept
<1>6. call'.op = "first" /\ call'.args[1] = s /\ call'.ret = ret
  BY <1>4, <1>5
<1>7. Promise!First
  BY <1>3, <1>6 DEF Promise!First, Promise!nil, nil, Vals
<1> QED
  BY <1>5, <1>7

LEMMA RestKept ==
  ASSUME IInv, HeapOK, NEW s \in OfKind({"list", "vector"}), rest(s)
  PROVE  Kept /\ Plain /\ Promise!Rest
<1> DEFINE o == heap[s]
           elems == Vals[s].elems
           args == <<s>>
           Is == IF Len(elems) <= 1 THEN call'.ret = nil
                 ELSE /\ Promise!Returned.kind = o.kind /\ Promise!Returned.elems = Tail(elems)
                      /\ Promise!Returned.len = Len(elems) - 1 /\ Promise!Returned.meta = nil
<1>1. /\ o.kind \in {"list", "vector"} /\ o.items \in Seq(Refs) /\ elems \in Seq(Refs)
      /\ Vals[s].kind = o.kind /\ Fine(s) /\ s \in Objects
      /\ o.kind = "list" => Linked(s) /\ Counted(s) /\ elems = Chain[s]
      /\ o.kind = "vector" => elems = o.items
  BY GivenIs
<1>2. args[1] = s /\ nil \in Refs
  BY DEF Refs, nil, HeapOK
<1>3. SUFFICES Kept /\ Plain /\ call'.op = "rest" /\ call'.args = args /\ Is
  <2>1. ASSUME call'.op = "rest", call'.args = args, Is
        PROVE  Promise!Rest
    <3>1. call'.args[1] = s
      BY <1>2, <2>1
    <3> QED
      BY <1>1, <2>1, <3>1 DEF Promise!Rest, Promise!Is, Promise!nil, nil, Vals
  <2> QED
    BY <2>1
<1>4. CASE o.kind = "list" /\ o.rest = nil
  <2>1. Found("rest", args, nil)
    BY <1>4 DEF rest
  <2>2. Kept /\ Plain /\ call' = [op |-> "rest", args |-> args, ret |-> nil]
    <3> HIDE DEF args
    <3> QED
      BY <1>2, <2>1, FoundKept
  <2>3. Len(elems) = 1
    BY <1>1, <1>4 DEF Linked
  <2> HIDE DEF args, elems
  <2> QED
    BY <2>2, <2>3
<1>5. CASE o.kind = "list" /\ o.rest # nil
  <2> DEFINE r == o.rest
  <2>1. r \in 1..(s - 1) /\ heap[r].kind = "list" /\ heap[r].meta = nil /\ heap[r].count > 0
    BY <1>1, <1>5 DEF Counted
  <2>2. r \in OfKind({"list"}) /\ r \in Objects /\ r \in Refs
    BY <1>1, <2>1 DEF OfKind, Objects, Refs, HeapOK
  <2>3. Found("rest", args, r)
    BY <1>5 DEF rest
  <2>4. /\ Kept /\ Plain /\ call' = [op |-> "rest", args |-> args, ret |-> r]
        /\ Promise!Returned = Value(r)
    <3> HIDE DEF args, r
    <3> QED
      BY <2>2, <2>3, FoundKept
  <2>5. Linked(r)
    BY <2>2, ChainGives
  <2>6. Chain[r] \in Seq(Refs) /\ Len(Chain[r]) > 0 /\ heap[r].count = Len(Chain[r])
    <3> HIDE DEF r
    <3> QED
      BY <2>1, <2>5 DEF Linked
  <2>7. Len(elems) = 1 + Len(Chain[r]) /\ Tail(elems) = Chain[r]
    BY <1>1, <1>5 DEF Linked
  <2>8. Value(r).kind = "list" /\ Value(r).elems = Chain[r] /\ Value(r).len = heap[r].count
        /\ Value(r).meta = nil
    BY <2>1, <2>2, FoundIs
  <2>9. Len(Chain[r]) \in Nat
    BY <2>6, LenProperties
  <2>10. ~(Len(elems) <= 1) /\ Len(elems) - 1 = Len(Chain[r])
    <3> HIDE DEF elems, r
    <3> QED
      BY <2>6, <2>7, <2>9
  <2>11. o.kind = "list"
    BY <1>5
  <2> HIDE DEF args, elems, r, o
  <2> QED
    BY <2>4, <2>6, <2>7, <2>8, <2>10, <2>11
<1>6. CASE o.kind = "vector" /\ Len(o.items) <= 1
  <2>1. Found("rest", args, nil)
    BY <1>6 DEF rest
  <2>2. Kept /\ Plain /\ call' = [op |-> "rest", args |-> args, ret |-> nil]
    <3> HIDE DEF args
    <3> QED
      BY <1>2, <2>1, FoundKept
  <2>3. Len(elems) <= 1
    BY <1>1, <1>6
  <2> HIDE DEF args, elems
  <2> QED
    BY <2>2, <2>3
<1>7. CASE o.kind = "vector" /\ ~(Len(o.items) <= 1)
  <2> DEFINE t == Tail(o.items)
  <2>1. Made("rest", args, <<Collection("vector", t, nil)>>)
    BY <1>7 DEF rest
  <2>2. t \in Seq(Refs) /\ Len(t) = Len(o.items) - 1
    <3> HIDE DEF o
    <3> QED
      BY <1>1, <1>7
  <2>3. /\ Kept /\ Plain /\ call'.op = "rest" /\ call'.args = args
        /\ Promise!Returned.kind = "vector" /\ Promise!Returned.elems = t
        /\ Promise!Returned.len = Len(t) /\ Promise!Returned.meta = nil
    <3> HIDE DEF args, t
    <3> QED
      BY <2>1, <2>2, VectorMade
  <2>4. elems = o.items
    BY <1>1, <1>7
  <2> HIDE DEF args, elems
  <2> QED
    BY <1>7, <2>2, <2>3, <2>4
<1> QED
  BY <1>1, <1>4, <1>5, <1>6, <1>7

\* The fields of a copy that differs in two.
LEMMA ReplacedIs ==
  ASSUME NEW o, Shaped(o), NEW a, NEW b
  PROVE  /\ LET p == ItemsReplaced(o, a, b)
            IN /\ Shaped(p) /\ p.kind = o.kind /\ p.val = o.val /\ p.items = a
               /\ p.rest = o.rest /\ p.count = b /\ p.meta = o.meta
         /\ LET p == MetaReplaced(o, a, b)
            IN /\ Shaped(p) /\ p.kind = o.kind /\ p.val = o.val /\ p.items = o.items
               /\ p.rest = o.rest /\ p.count = b /\ p.meta = a
<1> DEFINE X == [kind |-> o.kind, val |-> o.val, items |-> o.items, rest |-> o.rest,
                 count |-> o.count, meta |-> o.meta]
           Y(items, count, meta) ==
             [kind |-> o.kind, val |-> o.val, items |-> items, rest |-> o.rest,
              count |-> count, meta |-> meta]
<1>1. o = X
  BY DEF Shaped
<1>2. /\ [X EXCEPT !.items = a] = Y(a, o.count, o.meta)
      /\ [X EXCEPT !.meta = a] = Y(o.items, o.count, a)
  OBVIOUS
<1>3. /\ [Y(a, o.count, o.meta) EXCEPT !.count = b] = Y(a, b, o.meta)
      /\ [Y(o.items, o.count, a) EXCEPT !.count = b] = Y(o.items, b, a)
  OBVIOUS
<1>4. \A items, count, meta :
        LET p == Y(items, count, meta)
        IN /\ Shaped(p) /\ p.kind = o.kind /\ p.val = o.val /\ p.items = items
           /\ p.rest = o.rest /\ p.count = count /\ p.meta = meta
  BY DEF Shaped
<1> HIDE DEF X, Y
<1>5. ItemsReplaced(o, a, b) = Y(a, b, o.meta)
  <2>1. ItemsReplaced(o, a, b) = [Y(a, o.count, o.meta) EXCEPT !.count = b]
    BY <1>1, <1>2 DEF ItemsReplaced
  <2> QED
    BY <1>3, <2>1
<1>6. MetaReplaced(o, a, b) = Y(o.items, b, a)
  <2>1. MetaReplaced(o, a, b) = [Y(o.items, o.count, a) EXCEPT !.count = b]
    BY <1>1, <1>2 DEF MetaReplaced
  <2> QED
    BY <1>3, <2>1
<1> QED
  BY <1>4, <1>5, <1>6

\* cons of a vector, and of a list, where a copy without metadata comes between.
LEMMA ConsVectorKept ==
  ASSUME IInv, HeapOK, NEW s \in OfKind({"list", "vector"}), NEW x \in Refs, cons(s, x),
         heap[s].kind = "vector"
  PROVE  Kept /\ Plain /\ Promise!Cons
<1> DEFINE o == heap[s]
           elems == Vals[s].elems
           args == <<s, x>>
           a == Append(o.items, x)
           b == o.count + 1
           p == [o EXCEPT !.items = Append(@, x), !.count = @ + 1]
<1>1. /\ o.items \in Seq(Refs) /\ Vals[s].kind = "vector" /\ Vals[s].meta = o.meta
      /\ elems = o.items /\ o.count = Len(o.items) /\ o.rest = nil /\ Fine(s) /\ s \in Objects
      /\ o.meta # nil => o.meta \in Objects /\ heap[o.meta].kind = "map"
  BY GivenIs
<1>2. args[1] = s /\ args[2] = x
  OBVIOUS
<1>3. a \in Seq(Refs) /\ Len(a) = Len(o.items) + 1 /\ Len(o.items) \in Nat
  <2> HIDE DEF o
  <2> QED
    BY <1>1
<1>4. Shaped(o)
  BY <1>1, HeapObjects DEF IInv, Objects
<1>5. p = ItemsReplaced(o, a, b)
  BY DEF ItemsReplaced
<1>6. Made("cons", args, <<p>>)
  BY DEF cons
<1>7. /\ Shaped(p) /\ p.kind = "vector" /\ p.val = o.val /\ p.items = a
      /\ p.rest = o.rest /\ p.count = b /\ p.meta = o.meta
  <2> HIDE DEF o, a, b, p
  <2>1. o.kind = "vector"
    BY DEF o
  <2> QED
    BY <1>4, <1>5, <2>1, ReplacedIs
<1>8. Sound(p)
  <2>1. o.val \in Seq(Nat)
    BY <1>1 DEF Fine, Valued
  <2> HIDE DEF p, a, o
  <2>2. p.items \in Seq(ItemsOf(p.kind))
    BY <1>3, <1>7 DEF ItemsOf
  <2> QED
    BY <1>1, <1>3, <1>7, <2>1, <2>2 DEF Sound, Trees
<1> HIDE DEF p, args
<1>9. Kept /\ Plain /\ Seen(p, "cons", args)
  BY <1>6, <1>8, SoundKept
<1>10. /\ call'.op = "cons" /\ call'.args[1] = s /\ call'.args[2] = x
       /\ Promise!Returned.kind = "vector" /\ Promise!Returned.elems = a
       /\ Promise!Returned.len = Len(a) /\ Promise!Returned.meta = o.meta
  BY <1>2, <1>7, <1>9 DEF Seen
<1>11. a = Append(elems, x) /\ Len(a) = Len(elems) + 1
  BY <1>1, <1>3
<1> HIDE DEF a, elems, o
<1>12. Promise!Cons
  BY <1>1, <1>10, <1>11 DEF Promise!Cons, Promise!Is, Vals, elems
<1> QED
  BY <1>9, <1>12

LEMMA ConsListKept ==
  ASSUME IInv, HeapOK, NEW s \in OfKind({"list", "vector"}), NEW x \in Refs, cons(s, x),
         heap[s].kind = "list"
  PROVE  Kept /\ Plain /\ Promise!Cons
<1> DEFINE o == heap[s]
           elems == Vals[s].elems
           args == <<s, x>>
           restCount == IF o.rest = nil THEN 0 ELSE heap[o.rest].count
           copy == ListObject(o.items[1], o.rest, restCount)
<1>1. /\ o.items \in Seq(Refs) /\ Len(o.items) = 1 /\ Vals[s].kind = "list" /\ elems = Chain[s]
      /\ elems \in Seq(Refs) /\ Fine(s) /\ s \in Objects /\ Linked(s) /\ Counted(s)
  BY GivenIs
<1>2. PICK L \in Nat : L = Len(heap)
  BY DEF HeapOK
<1>3. PICK c, r : c = L + 1 /\ r = L + 2 /\ c # nil
  BY DEF nil
<1> DEFINE top == ListObject(x, c, copy.count)
           objects == <<copy, top>>
           T == {copy, top}
<1>4. objects \in Seq(T) /\ Len(objects) = 2 /\ objects[1] = copy /\ objects[2] = top
  <2> HIDE DEF copy, top
  <2> QED
    OBVIOUS
<1>5. \A y \in T : Shaped(y)
  BY ObjectsShaped
<1>6. Made("cons", args, objects)
  BY <1>2, <1>3 DEF cons
<1>7. /\ Grown /\ Len(heap') = r /\ heap'[c] = copy /\ heap'[r] = top
      /\ call' = [op |-> "cons", args |-> args, ret |-> r]
      /\ r \in Nat /\ c \in Objects' /\ r \in Objects' /\ c \in 1..(r - 1)
      /\ \A i \in Objects' : i > L => i = c \/ i = r
  <2> HIDE DEF objects, T, args, copy, top
  <2>1. /\ Grown /\ Len(heap') = Len(heap) + Len(objects)
        /\ \A k \in 1..Len(objects) : heap'[Len(heap) + k] = objects[k]
        /\ call' = [op |-> "cons", args |-> args, ret |-> Len(heap) + Len(objects)]
    BY <1>4, <1>5, <1>6, MadeMany
  <2>2. heap'[L + 1] = objects[1] /\ heap'[L + 2] = objects[2]
    <3>1. 1 \in 1..Len(objects) /\ 2 \in 1..Len(objects)
      BY <1>4
    <3> QED
      BY <1>2, <2>1, <3>1
  <2>3. Len(heap') = r /\ call' = [op |-> "cons", args |-> args, ret |-> r]
    BY <1>2, <1>3, <1>4, <2>1
  <2>4. /\ r \in Nat /\ c \in 1..r /\ r \in 1..r /\ c \in 1..(r - 1)
        /\ \A i \in 1..r : i > L => i = c \/ i = r
    BY <1>3
  <2>5. Objects' = 1..r
    BY <2>3 DEF Objects
  <2> QED
    BY <1>3, <1>4, <2>1, <2>2, <2>3, <2>4, <2>5
<1>8. args[1] = s /\ args[2] = x
  OBVIOUS
<1> HIDE DEF objects, T, args
<1>9. o.items[1] \in Refs' /\ x \in Refs'
  <2>1. o.items[1] \in Refs
    BY <1>1, ElementOfSeq
  <2> QED
    BY <1>7, <2>1, RefsGrow
<1>10. o.rest # nil => /\ o.rest \in Objects /\ o.rest <= L /\ heap'[o.rest] = heap[o.rest]
                       /\ heap[o.rest].kind = "list" /\ heap[o.rest].meta = nil
                       /\ heap[o.rest].count \in Nat \ {0}
                       /\ heap[o.rest].count = Len(Chain[o.rest]) /\ Linked(o.rest)
                       /\ o.rest \in 1..(c - 1)
  <2> SUFFICES ASSUME o.rest # nil
               PROVE  /\ o.rest \in Objects /\ o.rest <= L /\ heap'[o.rest] = heap[o.rest]
                      /\ heap[o.rest].kind = "list" /\ heap[o.rest].meta = nil
                      /\ heap[o.rest].count \in Nat \ {0}
                      /\ heap[o.rest].count = Len(Chain[o.rest]) /\ Linked(o.rest)
                      /\ o.rest \in 1..(c - 1)
    OBVIOUS
  <2>1. o.rest \in 1..(s - 1) /\ heap[o.rest].kind = "list" /\ heap[o.rest].meta = nil
        /\ heap[o.rest].count > 0
    BY <1>1 DEF Counted
  <2>2. o.rest \in Objects /\ o.rest \in OfKind({"list"}) /\ o.rest <= L /\ o.rest \in 1..(c - 1)
    BY <1>1, <1>2, <1>3, <2>1 DEF Objects, OfKind
  <2>3. heap'[o.rest] = heap[o.rest]
    BY <1>7, <2>2 DEF Grown
  <2>4. heap[o.rest].count \in Nat
    BY <2>2 DEF HeapOK, Fine, Composed
  <2>5. Linked(o.rest)
    BY <2>2, ChainGives
  <2>6. heap[o.rest].count = Len(Chain[o.rest])
    <3> HIDE DEF o
    <3> QED
      BY <2>1, <2>5 DEF Linked
  <2>7. heap[o.rest].count \in Nat \ {0}
    BY <2>1, <2>4
  <2> QED
    BY ONLY <2>1, <2>2, <2>3, <2>5, <2>6, <2>7, Zenon
<1>11. /\ heap'[c].kind = "list" /\ heap'[c].val = <<>> /\ heap'[c].items = <<o.items[1]>>
       /\ heap'[c].rest = o.rest /\ heap'[c].meta = nil
       /\ heap'[c].count = IF o.rest = nil THEN 1 ELSE 1 + heap[o.rest].count
  <2> HIDE DEF o, top
  <2>1. /\ copy.kind = "list" /\ copy.val = <<>> /\ copy.items = <<o.items[1]>>
        /\ copy.rest = o.rest /\ copy.meta = nil
        /\ copy.count = IF o.rest = nil THEN 1 ELSE 1 + restCount
    BY ListObjectIs
  <2>2. o.rest # nil => restCount = heap[o.rest].count
    OBVIOUS
  <2> HIDE DEF copy, restCount
  <2> QED
    BY <1>7, <2>1, <2>2
<1>12. /\ heap'[r].kind = "list" /\ heap'[r].val = <<>> /\ heap'[r].items = <<x>>
       /\ heap'[r].rest = c /\ heap'[r].meta = nil
       /\ heap'[r].count = 1 + heap'[c].count
  <2> HIDE DEF copy
  <2>1. /\ top.kind = "list" /\ top.val = <<>> /\ top.items = <<x>>
        /\ top.rest = c /\ top.meta = nil /\ top.count = 1 + copy.count
    BY <1>3, ListObjectIs
  <2> HIDE DEF top
  <2> QED
    BY <1>7, <2>1
<1> HIDE DEF copy, top, restCount
<1>13. heap'[c].count \in Nat \ {0}
  BY <1>10, <1>11
<1>14. Fine(c)'
  <2>1. Counted(c)'
    <3>1. Len(heap'[c].items) = 1
      BY <1>11
    <3> HIDE DEF o
    <3> QED
      BY <1>10, <1>11, <3>1 DEF Counted
  <2>2. heap'[c].val \in Seq(Nat) /\ heap'[c].items \in Seq(Refs')
    BY <1>9, <1>11
  <2> QED
    BY <1>7, <1>11, <1>13, <2>1, <2>2, ListFine
<1>15. Fine(r)'
  <2>1. Counted(r)'
    <3>1. Len(heap'[r].items) = 1
      BY <1>12
    <3> QED
      BY <1>3, <1>7, <1>11, <1>12, <1>13, <3>1 DEF Counted
  <2>2. heap'[r].val \in Seq(Nat) /\ heap'[r].items \in Seq(Refs') /\ heap'[r].count \in Nat
    BY <1>9, <1>12, <1>13
  <2> QED
    BY <1>7, <1>12, <2>1, <2>2, ListFine
<1>16. HeapOK'
  BY <1>2, <1>7, <1>14, <1>15, GrownFine
<1>17. Linked(c)' /\ Linked(r)'
  BY <1>7, <1>11, <1>12, <1>16, LinkedNext DEF AllLinked, OfKind, Objects
<1>18. Chain'[c] = elems
  <2>1. CASE o.rest = nil
    <3>1. Chain'[c] = <<o.items[1]>>
      BY <1>11, <1>17, <2>1 DEF Linked
    <3>2. elems = o.items
      BY <1>1, <2>1 DEF Linked
    <3>3. o.items = <<o.items[1]>>
      <4> HIDE DEF o
      <4> QED
        BY <1>1
    <3> QED
      BY <3>1, <3>2, <3>3
  <2>2. CASE o.rest # nil
    <3>1. Chain'[c] = <<o.items[1]>> \o Chain'[o.rest]
      BY <1>11, <1>17, <2>2 DEF Linked
    <3>2. elems = o.items \o Chain[o.rest]
      BY <1>1, <2>2 DEF Linked
    <3>3. o.items = <<o.items[1]>>
      <4> HIDE DEF o
      <4> QED
        BY <1>1
    <3>4. Chain'[o.rest] = Chain[o.rest]
      <4>1. o.rest \in OfKind({"list"})
        BY <1>10, <2>2 DEF OfKind, Objects
      <4> QED
        BY <1>7, <1>16, <4>1, ChainStays
    <3> QED
      BY <3>1, <3>2, <3>3, <3>4
  <2> QED
    BY <2>1, <2>2
<1>19. Chain'[r] = <<x>> \o elems
  BY <1>3, <1>12, <1>17, <1>18 DEF Linked
<1>20. heap'[c].count = Len(elems) /\ Len(elems) \in Nat
  <2>1. heap'[c].count = Len(Chain'[c]) \/ heap'[c].count = 0
    BY <1>11, <1>17 DEF Linked
  <2> QED
    BY <1>1, <1>13, <1>18, <2>1, LenProperties
<1>21. Promise!Returned = Value(r)'
  BY <1>7, <1>16, ReturnedIs
<1>22. /\ Value(r)'.kind = "list" /\ Value(r)'.elems = <<x>> \o elems
       /\ Value(r)'.len = Len(elems) + 1 /\ Value(r)'.meta = nil
  <2>1. Value(r)'.kind = "list" /\ Value(r)'.elems = Chain'[r]
        /\ Value(r)'.len = heap'[r].count /\ Value(r)'.meta = nil
    BY <1>12 DEF Value
  <2> QED
    BY <1>12, <1>19, <1>20, <2>1
<1>23. call'.op = "cons" /\ call'.args[1] = s /\ call'.args[2] = x /\ call'.ret = r
  BY <1>7, <1>8
<1> HIDE DEF elems, o
<1>24. Promise!Cons
  BY <1>1, <1>21, <1>22, <1>23 DEF Promise!Cons, Promise!Is, Promise!nil, nil, Vals, elems
<1>25. Answered'
  BY <1>7, <1>23 DEF Answered, Refs
<1>26. Plain
  BY <1>2, <1>7, <1>11, <1>12 DEF Plain
<1> QED
  BY <1>7, <1>16, <1>24, <1>25, <1>26 DEF Kept

\* withMeta, of a list with a count that nothing sets.
LEMMA WithMetaTreeKept ==
  ASSUME IInv, HeapOK, NEW c \in OfKind({"vector", "map", "set"}), NEW m \in OfKind({"map"}),
         withMeta(c, m)
  PROVE  Kept /\ Plain /\ Promise!WithMeta
<1> DEFINE o == heap[c]
           args == <<c, m>>
           p == [o EXCEPT !.meta = m, !.count = o.count]
<1>1. /\ c \in Objects /\ o.kind \in {"vector", "map", "set"} /\ Fine(c) /\ o.kind # "list"
      /\ m \in Objects /\ heap[m].kind = "map" /\ m # nil
  BY DEF OfKind, Objects, HeapOK, nil
<1>2. args[1] = c /\ args[2] = m
  OBVIOUS
<1>3. Made("withMeta", args, <<p>>)
  BY <1>1 DEF withMeta
<1>4. Shaped(o)
  BY <1>1, HeapObjects DEF IInv, Objects
<1>5. p = MetaReplaced(o, m, o.count)
  BY DEF MetaReplaced
<1> HIDE DEF p, args
<1>6. /\ Shaped(p) /\ p.kind = o.kind /\ p.val = o.val /\ p.items = o.items
      /\ p.rest = o.rest /\ p.count = o.count /\ p.meta = m
  <2> HIDE DEF o
  <2> QED
    BY <1>4, <1>5, ReplacedIs
<1>7. /\ o.val \in Seq(Nat) /\ o.items \in Seq(ItemsOf(o.kind))
      /\ o.kind \in Trees => Sorted(o.kind, o.items)
      /\ o.count = Len(o.items) /\ o.rest = nil
  BY <1>1 DEF Fine, Valued, Composed, Trees
<1>8. Vals[c] = Value(c) /\ Value(c).kind = o.kind /\ Value(c).len = o.count
      /\ Value(c).elems = IF o.kind = "vector" THEN o.items ELSE ElementsOf(o.items)
  BY <1>1, FoundIs DEF Trees
<1> HIDE DEF o
<1>9. Sound(p)
  BY <1>1, <1>6, <1>7 DEF Sound
<1>10. Kept /\ Plain /\ Seen(p, "withMeta", args)
  BY <1>3, <1>9, SoundKept
<1>11. /\ call'.op = "withMeta" /\ call'.args[1] = c /\ call'.args[2] = m
       /\ Promise!Returned.kind = o.kind /\ Promise!Returned.len = Len(o.items)
       /\ Promise!Returned.elems = IF o.kind = "vector" THEN o.items ELSE ElementsOf(o.items)
       /\ Promise!Returned.meta = m
  BY <1>2, <1>6, <1>10 DEF Seen
<1>12. Promise!WithMeta
  BY <1>7, <1>8, <1>11 DEF Promise!WithMeta, Promise!Is, Vals
<1> QED
  BY <1>10, <1>12

LEMMA WithMetaListKept ==
  ASSUME IInv, HeapOK, NEW c \in OfKind({"list"}), NEW m \in OfKind({"map"}), withMeta(c, m)
  PROVE  Kept /\ Plain /\ Promise!WithMeta
<1> DEFINE o == heap[c]
           args == <<c, m>>
<1>1. /\ c \in Objects /\ o.kind = "list" /\ Fine(c) /\ c \in OfKind({"list", "vector"})
      /\ m \in Objects /\ heap[m].kind = "map" /\ m # nil
  BY DEF OfKind, Objects, HeapOK, nil
<1>2. /\ o.items \in Seq(Refs) /\ Len(o.items) = 1 /\ Vals[c] = Value(c)
      /\ Vals[c].kind = "list" /\ Vals[c].elems = Chain[c] /\ Linked(c) /\ Counted(c)
      /\ o.val \in Seq(Nat)
  BY <1>1, GivenIs DEF Fine, Valued
<1>3. PICK junk \in Junk : Made("withMeta", args, <<[o EXCEPT !.meta = m, !.count = junk]>>)
  BY <1>1 DEF withMeta
<1> DEFINE p == [o EXCEPT !.meta = m, !.count = junk]
<1>4. Shaped(o)
  BY <1>1, HeapObjects DEF IInv, Objects
<1>5. p = MetaReplaced(o, m, junk) /\ Made("withMeta", args, <<p>>)
  BY <1>3 DEF MetaReplaced
<1>6. args[1] = c /\ args[2] = m /\ junk \in Nat
  BY ValuesAssumption
<1> HIDE DEF p, args
<1>7. /\ Shaped(p) /\ p.kind = o.kind /\ p.val = o.val /\ p.items = o.items
      /\ p.rest = o.rest /\ p.count = junk /\ p.meta = m
  <2> HIDE DEF o
  <2> QED
    BY <1>4, <1>5, ReplacedIs
<1>8. PICK L \in Nat : L = Len(heap)
  BY DEF HeapOK
<1>9. PICK r : r = L + 1
  OBVIOUS
<1>10. /\ Grown /\ Len(heap') = r /\ heap'[r] = p /\ Objects' = Objects \cup {r}
       /\ r \in Objects' /\ r \in Nat
       /\ call' = [op |-> "withMeta", args |-> args, ret |-> r]
  <2>1. /\ Grown /\ Len(heap') = L + 1 /\ heap'[L + 1] = p /\ Objects' = Objects \cup {L + 1}
        /\ call' = [op |-> "withMeta", args |-> args, ret |-> L + 1]
    BY <1>5, <1>7, <1>8, MadeOne
  <2> QED
    BY <1>9, <2>1
<1>11. /\ heap'[r].kind = "list" /\ heap'[r].val = o.val /\ heap'[r].items = o.items
       /\ heap'[r].rest = o.rest /\ heap'[r].count = junk /\ heap'[r].meta = m
  BY <1>1, <1>7, <1>10
<1>12. o.rest # nil => /\ o.rest \in 1..(r - 1) /\ heap'[o.rest] = heap[o.rest]
                       /\ heap[o.rest].kind = "list" /\ heap[o.rest].meta = nil
                       /\ heap[o.rest].count > 0 /\ o.rest \in OfKind({"list"})
  <2> SUFFICES ASSUME o.rest # nil
               PROVE  /\ o.rest \in 1..(r - 1) /\ heap'[o.rest] = heap[o.rest]
                      /\ heap[o.rest].kind = "list" /\ heap[o.rest].meta = nil
                      /\ heap[o.rest].count > 0 /\ o.rest \in OfKind({"list"})
    OBVIOUS
  <2>1. o.rest \in 1..(c - 1) /\ heap[o.rest].kind = "list" /\ heap[o.rest].meta = nil
        /\ heap[o.rest].count > 0
    BY <1>1, <1>2 DEF Counted
  <2>2. o.rest \in Objects /\ o.rest \in OfKind({"list"}) /\ o.rest \in 1..(r - 1)
    BY <1>1, <1>8, <1>9, <2>1 DEF Objects, OfKind
  <2>3. heap'[o.rest] = heap[o.rest]
    BY <1>10, <2>2 DEF Grown
  <2> QED
    BY <2>1, <2>2, <2>3
<1>13. m \in 1..(r - 1) /\ heap'[m].kind = "map"
  <2>1. heap'[m] = heap[m]
    BY <1>1, <1>10 DEF Grown
  <2> QED
    BY <1>1, <1>8, <1>9, <2>1 DEF Objects
<1>14. Fine(r)'
  <2>1. Counted(r)'
    <3> HIDE DEF o
    <3> QED
      BY <1>1, <1>2, <1>11, <1>12 DEF Counted
  <2>2. heap'[r].items \in Seq(Refs')
    <3> DEFINE t == o.items
               E == Refs
               F == Refs'
    <3>1. t \in Seq(E) /\ E \subseteq F
      BY <1>2, <1>10, RefsGrow
    <3> HIDE DEF t, E, F
    <3>2. t \in Seq(F)
      BY <3>1, SeqMonotonic
    <3> QED
      BY <1>11, <3>2 DEF t, F
  <2> HIDE DEF o
  <2> QED
    BY <1>2, <1>6, <1>10, <1>11, <1>13, <2>1, <2>2, ListFine
<1>15. HeapOK'
  <2>1. \A i \in Objects' : i > L => i = r
    BY <1>8, <1>9, <1>10 DEF Objects
  <2> QED
    BY <1>8, <1>10, <1>14, <2>1, GrownFine
<1>16. Linked(r)'
  BY <1>10, <1>11, <1>15, LinkedNext DEF AllLinked, OfKind, Objects
<1>17. Chain'[r] = Chain[c]
  <2>1. CASE o.rest = nil
    <3>1. Chain'[r] = o.items
      BY <1>11, <1>16, <2>1 DEF Linked
    <3>2. Chain[c] = o.items
      BY <1>2, <2>1 DEF Linked
    <3> QED
      BY <3>1, <3>2
  <2>2. CASE o.rest # nil
    <3>1. Chain'[r] = o.items \o Chain'[o.rest]
      BY <1>11, <1>16, <2>2 DEF Linked
    <3>2. Chain[c] = o.items \o Chain[o.rest]
      BY <1>2, <2>2 DEF Linked
    <3>3. Chain'[o.rest] = Chain[o.rest]
      BY <1>10, <1>12, <1>15, <2>2, ChainStays
    <3> QED
      BY <3>1, <3>2, <3>3
  <2> QED
    BY <2>1, <2>2
<1>18. Promise!Returned = Value(r)'
  BY <1>10, <1>15, ReturnedIs
<1>19. Value(r)'.kind = "list" /\ Value(r)'.elems = Chain[c] /\ Value(r)'.meta = m
  <2>1. Value(r)'.kind = "list" /\ Value(r)'.elems = Chain'[r] /\ Value(r)'.meta = m
    BY <1>11 DEF Value
  <2> QED
    BY <1>17, <2>1
<1>20. call'.op = "withMeta" /\ call'.args[1] = c /\ call'.args[2] = m /\ call'.ret = r
  BY <1>6, <1>10
<1> HIDE DEF o
<1>21. Promise!WithMeta
  BY <1>2, <1>18, <1>19, <1>20 DEF Promise!WithMeta, Promise!Is, Vals
<1>22. Answered'
  BY <1>10, <1>20 DEF Answered, Refs
<1>23. Plain
  BY <1>8, <1>9, <1>10, <1>11 DEF Plain, Objects
<1> QED
  BY <1>10, <1>15, <1>21, <1>22, <1>23 DEF Kept

-------------------------------------------------------------------------------
(* Comparison. *)

\* Below is the order by the first place that differs.
LEMMA BelowIs ==
  ASSUME NEW v, NEW w, v.val \in Seq(Nat), w.val \in Seq(Nat), v.kind # "ratio",
         Len(v.val) = Len(w.val)
  PROVE  /\ Len(v.val) = 1 => (Promise!Below(v, w) <=> v.val[1] < w.val[1])
         /\ Len(v.val) = 2 =>
              (Promise!Below(v, w) <=> \/ v.val[1] < w.val[1]
                                       \/ (v.val[1] = w.val[1] /\ v.val[2] < w.val[2]))
<1> DEFINE a == v.val
           b == w.val
           At(k) == a[k] < b[k] /\ \A l \in 1..(k - 1) : a[l] = b[l]
<1>1. Promise!Below(v, w) <=> \E k \in 1..Len(a) : At(k)
  BY DEF Promise!Below
<1>2. At(1) <=> a[1] < b[1]
  OBVIOUS
<1>3. At(2) <=> a[2] < b[2] /\ a[1] = b[1]
  <2>1. 1..(2 - 1) = {1}
    OBVIOUS
  <2> QED
    BY <2>1
<1> HIDE DEF At
<1>4. Len(a) = 1 => ((\E k \in 1..Len(a) : At(k)) <=> At(1))
  OBVIOUS
<1>5. Len(a) = 2 => ((\E k \in 1..Len(a) : At(k)) <=> At(1) \/ At(2))
  OBVIOUS
<1> QED
  BY <1>1, <1>2, <1>3, <1>4, <1>5

\* compareTo of the classes that have one.
Comparison(kind, a, b) ==
  CASE kind = "sym"   -> compareTo(a, b)
    [] kind = "ratio" -> RatioOrder(a, b)
    [] OTHER          -> Order(a[1], b[1])

\* It is the order that Persistent states.
LEMMA ComparisonIs ==
  ASSUME HeapOK, NEW i \in OfKind({"int", "ratio", "str", "char", "sym"}),
         NEW j \in OfKind({"int", "ratio", "str", "char", "sym"}), heap[i].kind = heap[j].kind
  PROVE  LET ret == Comparison(heap[i].kind, heap[i].val, heap[j].val)
         IN /\ ret \in {-1, 0, 1}
            /\ ret = -1 <=> Promise!Below(Vals[i], Vals[j])
            /\ ret = 1 <=> Promise!Below(Vals[j], Vals[i])
<1> DEFINE v == Vals[i]
           w == Vals[j]
           a == heap[i].val
           b == heap[j].val
           kind == heap[i].kind
           ret == Comparison(kind, a, b)
<1>1. i \in Objects /\ j \in Objects /\ kind \in {"int", "ratio", "str", "char", "sym"}
      /\ Valued(i) /\ Valued(j)
  BY DEF OfKind, Objects, HeapOK, Fine
<1>2. v.val = a /\ w.val = b /\ v.kind = kind /\ w.kind = kind
  BY <1>1, FoundIs
<1>3. a \in Seq(Nat) /\ b \in Seq(Nat)
  BY <1>1 DEF Valued
<1>4. CASE kind = "sym"
  <2>1. a \in Symbol /\ b \in Symbol
    BY <1>1, <1>4 DEF Valued
  <2>2. Len(a) = 2 /\ Len(b) = 2 /\ a[1] \in Nat /\ a[2] \in Nat /\ b[1] \in Nat /\ b[2] \in Nat
    BY <2>1, ValuesAssumption DEF Symbol
  <2>3. ret = compareTo(a, b)
    BY <1>4 DEF Comparison
  <2>4. kind # "ratio"
    BY <1>4
  <2> HIDE DEF v, w, a, b, kind, ret
  <2>5. /\ Promise!Below(v, w) <=> a[1] < b[1] \/ (a[1] = b[1] /\ a[2] < b[2])
        /\ Promise!Below(w, v) <=> b[1] < a[1] \/ (b[1] = a[1] /\ b[2] < a[2])
    BY <1>2, <1>3, <2>2, <2>4, BelowIs
  <2>6. /\ ret \in {-1, 0, 1}
        /\ ret = -1 <=> a[1] < b[1] \/ (a[1] = b[1] /\ a[2] < b[2])
        /\ ret = 1 <=> b[1] < a[1] \/ (b[1] = a[1] /\ b[2] < a[2])
    BY <2>2, <2>3 DEF compareTo, Order
  <2>7. ret \in {-1, 0, 1} /\ (ret = -1 <=> Promise!Below(v, w)) /\ (ret = 1 <=> Promise!Below(w, v))
    BY <2>5, <2>6
  <2> QED
    BY <2>7 DEF v, w, a, b, kind, ret
<1>5. CASE kind = "ratio"
  <2>1. Len(a) = 2 /\ Len(b) = 2
    BY <1>1, <1>5 DEF Valued
  <2>2. ret = Order(a[1] * b[2], b[1] * a[2])
    BY <1>5 DEF Comparison, RatioOrder
  <2>3. v.kind = "ratio" /\ w.kind = "ratio"
    BY <1>2, <1>5
  <2> HIDE DEF v, w, a, b, kind, ret
  <2>4. a[1] \in Nat /\ a[2] \in Nat /\ b[1] \in Nat /\ b[2] \in Nat
    <3>1. {1, 2} \subseteq 1..Len(a) /\ {1, 2} \subseteq 1..Len(b)
      BY <2>1
    <3> QED
      BY <1>3, <3>1, ElementOfSeq
  <2>5. /\ Promise!Below(v, w) <=> a[1] * b[2] < b[1] * a[2]
        /\ Promise!Below(w, v) <=> b[1] * a[2] < a[1] * b[2]
    BY <1>2, <2>3 DEF Promise!Below
  <2> DEFINE x == a[1] * b[2]
             y == b[1] * a[2]
  <2>6. x \in Int /\ y \in Int
    BY <2>4
  <2> HIDE DEF x, y
  <2>7. ret \in {-1, 0, 1} /\ (ret = -1 <=> x < y) /\ (ret = 1 <=> y < x)
    <3>1. ret = Order(x, y)
      BY <2>2 DEF x, y
    <3> QED
      BY <2>6, <3>1 DEF Order
  <2>8. ret \in {-1, 0, 1} /\ (ret = -1 <=> Promise!Below(v, w)) /\ (ret = 1 <=> Promise!Below(w, v))
    BY <2>5, <2>7 DEF x, y
  <2> QED
    BY <2>8 DEF v, w, a, b, kind, ret
<1>6. CASE kind \in {"int", "str", "char"}
  <2>1. Len(a) = 1 /\ Len(b) = 1
    BY <1>1, <1>6 DEF Valued
  <2>2. ret = Order(a[1], b[1])
    BY <1>6 DEF Comparison
  <2>3. kind # "ratio"
    BY <1>6
  <2> HIDE DEF v, w, a, b, kind, ret
  <2>4. a[1] \in Nat /\ b[1] \in Nat
    <3>1. 1 \in 1..Len(a) /\ 1 \in 1..Len(b)
      BY <2>1
    <3> QED
      BY <1>3, <3>1, ElementOfSeq
  <2>5. (Promise!Below(v, w) <=> a[1] < b[1]) /\ (Promise!Below(w, v) <=> b[1] < a[1])
    BY <1>2, <1>3, <2>1, <2>3, BelowIs
  <2>6. ret \in {-1, 0, 1} /\ (ret = -1 <=> Promise!Below(v, w)) /\ (ret = 1 <=> Promise!Below(w, v))
    BY <2>2, <2>4, <2>5 DEF Order
  <2> QED
    BY <2>6 DEF v, w, a, b, kind, ret
<1> QED
  BY <1>1, <1>4, <1>5, <1>6

LEMMA CompareKept ==
  ASSUME IInv, HeapOK, NEW i \in OfKind({"int", "ratio", "str", "char", "sym"}),
         NEW j \in OfKind({"int", "ratio", "str", "char", "sym"}), compare(i, j)
  PROVE  Kept /\ Plain /\ Promise!Compared
<1> DEFINE args == <<i, j>>
           ret == IF heap[i].kind # heap[j].kind THEN Throws
                  ELSE Comparison(heap[i].kind, heap[i].val, heap[j].val)
<1>1. Found("compare", args, ret)
  BY DEF compare, Comparison
<1>2. UNCHANGED heap /\ call'.op = "compare" /\ call'.args[1] = i /\ call'.args[2] = j /\ call'.ret = ret
  <2> HIDE DEF ret
  <2> QED
    BY <1>1 DEF Found
<1>3. HeapOK' /\ Grown
  BY <1>2, Unmade
<1>4. i \in Objects /\ j \in Objects
  BY DEF OfKind, Objects
<1>5. Vals[i].kind = heap[i].kind /\ Vals[j].kind = heap[j].kind
  BY <1>4, FoundIs
<1>6. IF Vals[i].kind # Vals[j].kind THEN ret = 2
      ELSE /\ ret = -1 <=> Promise!Below(Vals[i], Vals[j])
           /\ ret = 1 <=> Promise!Below(Vals[j], Vals[i])
           /\ ret \in {-1, 0, 1}
  <2>1. CASE heap[i].kind # heap[j].kind
    BY <1>5, <2>1 DEF Throws
  <2>2. CASE heap[i].kind = heap[j].kind
    <3> DEFINE c == Comparison(heap[i].kind, heap[i].val, heap[j].val)
    <3>1. /\ c \in {-1, 0, 1}
          /\ c = -1 <=> Promise!Below(Vals[i], Vals[j])
          /\ c = 1 <=> Promise!Below(Vals[j], Vals[i])
      BY <2>2, ComparisonIs
    <3>2. ret = c
      BY <2>2
    <3> HIDE DEF c, ret
    <3> QED
      BY <1>5, <2>2, <3>1, <3>2
  <2> QED
    BY <2>1, <2>2
<1> HIDE DEF ret, args
<1>7. Promise!Compared
  BY <1>2, <1>6 DEF Promise!Compared, Vals
<1>8. ret \in {-1, 0, 1, Throws}
  BY <1>6 DEF Throws
<1>9. Answered'
  BY <1>2, <1>8 DEF Answered
<1>10. Plain
  <2>1. \A k \in Objects' : ~(k > Len(heap))
    BY <1>2 DEF Objects, HeapOK
  <2> QED
    BY <2>1 DEF Plain
<1> QED
  BY <1>3, <1>7, <1>9, <1>10 DEF Kept

-------------------------------------------------------------------------------
(* Keywords and namespaces. *)

LEMMA SymbolIs ==
  ASSUME NEW sym \in Symbol
  PROVE  sym \in Seq(Nat) /\ SymbolHash[sym] \in Nat
<1>1. PICK a \in Strings, b \in Strings : sym = <<a, b>>
  BY DEF Symbol
<1>2. a \in Nat /\ b \in Nat /\ SymbolHash[sym] \in Nat
  BY ValuesAssumption
<1> QED
  BY <1>1, <1>2

\* A new keyword or namespace.
LEMMA AtomMade ==
  ASSUME IInv, HeapOK, NEW kind \in {"key", "ns"}, NEW sym \in Symbol,
         NEW op, op # "compare", NEW args, Made(op, args, <<Atom(kind, sym)>>)
  PROVE  /\ Kept /\ Len(heap') = Len(heap) + 1
         /\ heap'[Len(heap) + 1].kind = kind /\ heap'[Len(heap) + 1].val = sym
         /\ call'.op = op /\ call'.args = args /\ call'.ret = Len(heap) + 1
         /\ Promise!Returned.kind = kind /\ Promise!Returned.val = sym
         /\ kind = "ns" => Promise!Returned.name = SymbolHash[sym]
<1> DEFINE o == Atom(kind, sym)
<1>1. /\ Shaped(o) /\ o.kind = kind /\ o.val = sym /\ o.items = <<>> /\ o.rest = nil
      /\ o.count = 0 /\ o.meta = nil
  BY ObjectsShaped DEF Atom
<1> HIDE DEF o
<1>2. PICK L \in Nat : L = Len(heap)
  BY DEF HeapOK
<1>3. PICK r : r = L + 1
  OBVIOUS
<1>4. /\ Grown /\ Len(heap') = r /\ heap'[r] = o /\ Objects' = Objects \cup {r}
      /\ r \in Objects' /\ r \in Nat
      /\ call' = [op |-> op, args |-> args, ret |-> r]
  <2>1. Made(op, args, <<o>>)
    BY DEF o
  <2>2. /\ Grown /\ Len(heap') = L + 1 /\ heap'[L + 1] = o /\ Objects' = Objects \cup {L + 1}
        /\ call' = [op |-> op, args |-> args, ret |-> L + 1]
    BY <1>1, <1>2, <2>1, MadeOne
  <2> QED
    BY <1>3, <2>2
<1>5. Fine(r)'
  <2>1. Valued(r)'
    BY <1>1, <1>4, SymbolIs DEF Valued
  <2>2. heap'[r].items \in Seq(ItemsOf(heap[r].kind)')
    <3> DEFINE E == ItemsOf(heap[r].kind)'
    <3>1. heap'[r].items = <<>>
      BY <1>1, <1>4
    <3> HIDE DEF E
    <3>2. <<>> \in Seq(E)
      OBVIOUS
    <3> QED
      BY <3>1, <3>2 DEF E
  <2>3. Composed(r)' /\ Counted(r)'
    BY <1>1, <1>4, <2>2 DEF Composed, Counted
  <2> QED
    BY <1>1, <1>4, <2>1, <2>3 DEF Fine, Kinds
<1>6. HeapOK'
  <2>1. \A i \in Objects' : i > L => i = r
    BY <1>2, <1>3, <1>4 DEF Objects
  <2> QED
    BY <1>2, <1>4, <1>5, <2>1, GrownFine
<1>7. Promise!Returned = Value(r)'
  BY <1>4, <1>6, ReturnedIs
<1>8. Value(r)'.kind = kind /\ Value(r)'.val = sym /\ (kind = "ns" => Value(r)'.name = SymbolHash[sym])
  BY <1>1, <1>4 DEF Value
<1>9. Answered'
  BY <1>4 DEF Answered, Refs
<1> QED
  BY <1>1, <1>2, <1>3, <1>4, <1>6, <1>7, <1>8, <1>9 DEF Kept

\* Keyword::create returns the one keyword of that name.
LEMMA KeywordKept ==
  ASSUME IInv, HeapOK, NEW sym \in Symbol, Keyword_create(sym)
  PROVE  /\ Kept /\ Promise!Interned
         /\ \A i \in Objects' : i > Len(heap) => heap'[i].kind # "ns"
<1> DEFINE p == KeywordPlace(sym)
           n == Len(keywords)
           found == p <= n /\ compareTo(sym, keywords[p].sym) # -1
           old == {i \in 1..Len(Vals) : Vals[i].kind = "key" /\ Vals[i].val = sym}
<1>0. /\ p \in 1..(n + 1) /\ n \in Nat
      /\ \A q \in 1..n : keywords[q].sym \in Symbol
      /\ \A q \in 1..(p - 1) : compareTo(keywords[q].sym, sym) = -1
      /\ p <= n => compareTo(keywords[p].sym, sym) # -1
  BY KeywordPlaceIs DEF IInv
<1>1. old = {i \in Objects : heap[i].kind = "key" /\ heap[i].val = sym}
  <2>1. 1..Len(Vals) = Objects
    BY ValsIs DEF Objects
  <2>2. \A i \in Objects : Vals[i].kind = heap[i].kind /\ Vals[i].val = heap[i].val
    BY FoundIs
  <2> QED
    BY <2>1, <2>2
<1>2. CASE found
  <2> DEFINE r == keywords[p].obj
  <2>1. p \in 1..n /\ compareTo(sym, keywords[p].sym) # -1 /\ compareTo(keywords[p].sym, sym) # -1
    BY <1>0, <1>2
  <2>2. keywords[p].sym = sym
    BY <1>0, <2>1, CompareIsOrder
  <2>3. r \in Objects /\ heap[r].kind = "key" /\ heap[r].val = sym /\ r \in Refs
    BY <2>1, <2>2 DEF IInv, Entered, Objects, Refs
  <2>4. Found("keyword", sym, r)
    BY <1>2 DEF Keyword_create
  <2>5. old = {r}
    BY <1>1, <2>3, InvariantImplies DEF KeywordsUnique, OfKind, Objects
  <2> HIDE DEF r, old, p
  <2>6. Kept /\ Plain /\ call' = [op |-> "keyword", args |-> sym, ret |-> r]
    BY <2>3, <2>4, FoundKept
  <2>7. Promise!Interned
    BY <2>5, <2>6 DEF Promise!Interned, old, Vals
  <2> QED
    BY <2>6, <2>7 DEF Plain
<1>3. CASE ~found
  <2>1. Made("keyword", sym, <<Atom("key", sym)>>)
    BY <1>3 DEF Keyword_create
  <2>2. old = {}
    <3> SUFFICES ASSUME NEW i \in Objects, heap[i].kind = "key", heap[i].val = sym
                 PROVE  FALSE
      BY <1>1
    <3>1. PICK q \in 1..n : keywords[q].obj = i
      BY DEF IInv, Known, Objects
    <3>2. keywords[q].sym = sym
      BY <3>1 DEF IInv, Entered
    <3>3. compareTo(sym, sym) = 0
      BY CompareIsOrder
    <3>4. ~(q \in 1..(p - 1))
      BY <1>0, <3>2, <3>3
    <3>5. p \in 1..n /\ compareTo(sym, keywords[p].sym) = -1
      BY <1>0, <1>3, <3>1, <3>4
    <3>6. p = q \/ compareTo(keywords[p].sym, sym) = -1
      <4>1. p = q \/ p < q
        BY <1>0, <3>1, <3>4, <3>5
      <4> QED
        BY <3>1, <3>2, <3>5, <4>1 DEF IInv, Ordered
    <3> QED
      BY <1>0, <3>2, <3>3, <3>5, <3>6
  <2>3. /\ Kept /\ Len(heap') = Len(heap) + 1 /\ heap'[Len(heap) + 1].kind = "key"
        /\ call'.op = "keyword" /\ call'.args = sym
        /\ Promise!Returned.kind = "key" /\ Promise!Returned.val = sym
    <3>1. "key" \in {"key", "ns"} /\ "keyword" # "compare"
      OBVIOUS
    <3> QED
      BY <2>1, <3>1, AtomMade
  <2> HIDE DEF old
  <2>4. Promise!Interned
    BY <2>2, <2>3 DEF Promise!Interned, old, Vals
  <2>5. \A i \in Objects' : i > Len(heap) => i = Len(heap) + 1
    BY <2>3 DEF Objects, HeapOK
  <2> QED
    BY <2>3, <2>4, <2>5
<1> QED
  BY <1>2, <1>3

\* The table of namespaces: its entries lead to the namespaces of their names, and
\* every namespace is there, each hash code once, in their order.
NInv ==
  /\ namespaces \in Seq(Entry)
  /\ \A q \in 1..Len(namespaces) :
       LET e == namespaces[q]
       IN e.obj \in Objects /\ heap[e.obj].kind = "ns" /\ heap[e.obj].val = e.sym
  /\ \A p, q \in 1..Len(namespaces) :
       p < q => SymbolHash[namespaces[p].sym] < SymbolHash[namespaces[q].sym]
  /\ \A i \in Objects : heap[i].kind = "ns" => \E q \in 1..Len(namespaces) : namespaces[q].obj = i

\* Other calls make no namespace.
LEMMA NamespacesStay ==
  ASSUME NInv, HeapOK, Grown, UNCHANGED namespaces,
         \A i \in Objects' : i > Len(heap) => heap'[i].kind # "ns"
  PROVE  NInv'
<1>1. Objects \subseteq Objects' /\ Len(heap) \in Nat
  BY RefsGrow DEF HeapOK
<1>2. \A i \in Objects : heap'[i] = heap[i]
  BY DEF Grown
<1>3. \A i \in Objects' : heap'[i].kind = "ns" => i \in Objects
  BY <1>1 DEF Objects
<1> QED
  BY <1>1, <1>2, <1>3 DEF NInv

\* Where the search of Namespace::findOrCreate ends.
LEMMA NamespacePlaceIs ==
  ASSUME NInv, NEW sym \in Symbol
  PROVE  LET p == NamespacePlace(sym) IN
         /\ p \in 1..(Len(namespaces) + 1) /\ Len(namespaces) \in Nat
         /\ \A q \in 1..Len(namespaces) :
              namespaces[q].sym \in Symbol /\ SymbolHash[namespaces[q].sym] \in Nat
         /\ \A q \in 1..(p - 1) : SymbolHash[namespaces[q].sym] < SymbolHash[sym]
         /\ p <= Len(namespaces) => ~(SymbolHash[namespaces[p].sym] < SymbolHash[sym])
<1> DEFINE n == Len(namespaces)
           before == {q \in 1..n : SymbolHash[namespaces[q].sym] < SymbolHash[sym]}
<1>1. n \in Nat /\ \A q \in 1..n : namespaces[q].sym \in Symbol /\ SymbolHash[namespaces[q].sym] \in Nat
  <2>1. namespaces \in Seq(Entry)
    BY DEF NInv
  <2>2. \A q \in 1..Len(namespaces) : namespaces[q] \in Entry
    BY <2>1, ElementOfSeq
  <2>3. Len(namespaces) \in Nat
    BY <2>1, LenProperties
  <2> QED
    BY <2>2, <2>3, SymbolIs DEF Entry
<1>2. before \subseteq 1..n /\ NamespacePlace(sym) = LowerBound(n, before)
  BY DEF NamespacePlace
<1>3. /\ LowerBound(n, before) \in 1..(n + 1)
      /\ \A q \in 1..(LowerBound(n, before) - 1) : q \in before
      /\ LowerBound(n, before) \notin before
  <2> HIDE DEF n, before
  <2> QED
    BY <1>1, <1>2, LowerBoundIs
<1> DEFINE p == NamespacePlace(sym)
<1>4. /\ p \in 1..(n + 1)
      /\ \A q \in 1..(p - 1) : SymbolHash[namespaces[q].sym] < SymbolHash[sym]
  BY <1>2, <1>3
<1>5. p <= n => ~(SymbolHash[namespaces[p].sym] < SymbolHash[sym])
  <2>1. p \notin before
    BY <1>2, <1>3
  <2>2. p <= n => p \in 1..n
    <3> HIDE DEF p, before
    <3> QED
      BY <1>1, <1>4
  <2> HIDE DEF p
  <2> QED
    BY <2>1, <2>2
<1> HIDE DEF p
<1> QED
  BY <1>1, <1>4, <1>5 DEF p

\* One namespace of a hash code.
LEMMA NamespacesDiffer ==
  ASSUME NInv, NEW i \in Objects, NEW j \in Objects, heap[i].kind = "ns", heap[j].kind = "ns",
         SymbolHash[heap[i].val] = SymbolHash[heap[j].val]
  PROVE  i = j
<1>1. PICK p \in 1..Len(namespaces) : namespaces[p].obj = i
  BY DEF NInv
<1>2. PICK q \in 1..Len(namespaces) : namespaces[q].obj = j
  BY DEF NInv
<1>3. namespaces \in Seq(Entry) /\ Len(namespaces) \in Nat
  BY LenProperties DEF NInv
<1>4. namespaces[p] \in Entry /\ namespaces[q] \in Entry
  BY <1>1, <1>2, <1>3, ElementOfSeq
<1>5. SymbolHash[namespaces[p].sym] = SymbolHash[namespaces[q].sym]
      /\ SymbolHash[namespaces[p].sym] \in Nat
  BY <1>1, <1>2, <1>4, SymbolIs DEF NInv, Entry
<1>6. ~(p < q) /\ ~(q < p)
  BY <1>1, <1>2, <1>5 DEF NInv
<1> QED
  BY <1>1, <1>2, <1>3, <1>6

Differ ==
  \A i, j \in Objects :
    heap[i].kind = "ns" /\ heap[j].kind = "ns" /\ SymbolHash[heap[i].val] = SymbolHash[heap[j].val]
    => i = j

LEMMA DifferNext == NInv' => Differ'
<1>1. NInv => Differ
  BY NamespacesDiffer DEF Differ
<1> QED
  BY <1>1, PTL

\* Namespace::findOrCreate returns the one namespace of that hash code.
LEMMA NamespaceKept ==
  ASSUME IInv, HeapOK, NInv, NEW sym \in Symbol, Namespace_findOrCreate(sym)
  PROVE  Kept /\ NInv' /\ Promise!FoundOrCreated
<1> DEFINE p == NamespacePlace(sym)
           n == Len(namespaces)
           found == p <= n /\ SymbolHash[namespaces[p].sym] = SymbolHash[sym]
           args == <<SymbolHash[sym]>>
<1>0. /\ p \in 1..(n + 1) /\ n \in Nat /\ SymbolHash[sym] \in Nat
      /\ \A q \in 1..n : namespaces[q].sym \in Symbol /\ SymbolHash[namespaces[q].sym] \in Nat
      /\ \A q \in 1..(p - 1) : SymbolHash[namespaces[q].sym] < SymbolHash[sym]
      /\ p <= n => ~(SymbolHash[namespaces[p].sym] < SymbolHash[sym])
  BY NamespacePlaceIs, SymbolIs
<1>1. args[1] = SymbolHash[sym]
  OBVIOUS
<1>2. ASSUME HeapOK', NInv', NEW r \in Objects', heap'[r].kind = "ns",
             SymbolHash[heap'[r].val] = SymbolHash[sym],
             call'.op = "namespace", call'.args = args, call'.ret = r
      PROVE  Promise!FoundOrCreated
  <2>1. Promise!Returned = Value(r)'
    BY <1>2, ReturnedIs
  <2>2. Value(r)'.kind = "ns" /\ Value(r)'.name = SymbolHash[sym]
    BY <1>2 DEF Value
  <2>3. ASSUME NEW i \in 1..Len(Vals'), Vals'[i].kind = "ns", Vals'[i].name = SymbolHash[sym]
        PROVE  i = r
    <3>1. i \in Objects' /\ Vals'[i] = Value(i)'
      BY <1>2, <2>3, ValsIsNext DEF Objects
    <3>2. heap'[i].kind = "ns"
      BY <2>3, <3>1 DEF Value
    <3>3. SymbolHash[heap'[i].val] = SymbolHash[sym]
      BY <2>3, <3>1, <3>2 DEF Value
    <3>4. NInv' /\ i \in Objects' /\ r \in Objects' /\ heap'[i].kind = "ns" /\ heap'[r].kind = "ns"
          /\ SymbolHash[heap'[i].val] = SymbolHash[heap'[r].val]
      BY <1>2, <3>1, <3>2, <3>3
    <3> QED
      BY <3>4, DifferNext DEF Differ
  <2> QED
    BY <1>1, <1>2, <2>1, <2>2, <2>3 DEF Promise!FoundOrCreated, Vals
<1>3. CASE found
  <2> DEFINE r == namespaces[p].obj
  <2>1. p \in 1..n /\ SymbolHash[namespaces[p].sym] = SymbolHash[sym]
    BY <1>0, <1>3
  <2>2. r \in Objects /\ heap[r].kind = "ns" /\ heap[r].val = namespaces[p].sym /\ r \in Refs
    BY <2>1 DEF NInv, Objects, Refs
  <2>3. Found("namespace", args, r) /\ UNCHANGED namespaces
    BY <1>3 DEF Namespace_findOrCreate
  <2>4. UNCHANGED heap
    BY <2>3 DEF Found
  <2> HIDE DEF r, p, args
  <2>5. Kept /\ Plain /\ call' = [op |-> "namespace", args |-> args, ret |-> r]
    BY <2>2, <2>3, FoundKept
  <2>6. NInv'
    BY <2>3, <2>5, NamespacesStay DEF Kept, Plain
  <2>7. r \in Objects' /\ heap'[r].kind = "ns" /\ SymbolHash[heap'[r].val] = SymbolHash[sym]
    BY <2>1, <2>2, <2>4 DEF Objects
  <2> QED
    BY <1>2, <2>5, <2>6, <2>7 DEF Kept
<1>4. CASE ~found
  <2> DEFINE i0 == Len(heap) + 1
             entry == [sym |-> sym, obj |-> i0]
  <2>1. Made("namespace", args, <<Atom("ns", sym)>>) /\ namespaces' = Insert(namespaces, p, entry)
    BY <1>4 DEF Namespace_findOrCreate
  <2>2. /\ Kept /\ Len(heap') = i0 /\ heap'[i0].kind = "ns" /\ heap'[i0].val = sym
        /\ call'.op = "namespace" /\ call'.args = args /\ call'.ret = i0
    <3>1. "ns" \in {"key", "ns"} /\ "namespace" # "compare"
      OBVIOUS
    <3> HIDE DEF args
    <3> QED
      BY <2>1, <3>1, AtomMade
  <2>3. /\ Len(heap) \in Nat /\ entry \in Entry /\ i0 \in Objects'
        /\ Objects' = Objects \cup {i0} /\ i0 \notin Objects
        /\ \A i \in Objects : heap'[i] = heap[i]
    BY <2>2 DEF Entry, HeapOK, Objects, Kept, Grown
  <2>4. /\ namespaces' \in Seq(Entry)
        /\ Len(namespaces') = n + 1
        /\ \A q \in 1..(n + 1) :
             namespaces'[q] = IF q < p THEN namespaces[q] ELSE IF q = p THEN entry ELSE namespaces[q - 1]
    <3>1. namespaces \in Seq(Entry) /\ p \in 1..(Len(namespaces) + 1)
      BY <1>0 DEF NInv
    <3> HIDE DEF p, entry, found, args
    <3>2. /\ Insert(namespaces, p, entry) \in Seq(Entry)
          /\ Len(Insert(namespaces, p, entry)) = Len(namespaces) + 1
          /\ \A q \in 1..(Len(namespaces) + 1) : Insert(namespaces, p, entry)[q] =
               IF q < p THEN namespaces[q] ELSE IF q = p THEN entry ELSE namespaces[q - 1]
      BY <2>3, <3>1, InsertIs
    <3> QED
      BY <2>1, <3>2
  <2>5. entry.obj = i0 /\ entry.sym = sym
    OBVIOUS
  <2> HIDE DEF p, i0, entry
  <2> DEFINE old(k) == IF k < p THEN k ELSE k - 1
  <2>6. \A q \in 1..(n + 1) : q # p => old(q) \in 1..n /\ namespaces'[q] = namespaces[old(q)]
    BY <1>0, <2>4
  <2>7. \A q \in 1..n : q >= p => SymbolHash[sym] < SymbolHash[namespaces[q].sym]
    <3> SUFFICES ASSUME NEW q \in 1..n, q >= p
                 PROVE  SymbolHash[sym] < SymbolHash[namespaces[q].sym]
      OBVIOUS
    <3>1. p \in 1..n /\ SymbolHash[sym] < SymbolHash[namespaces[p].sym]
      BY <1>0, <1>4
    <3>2. q = p \/ SymbolHash[namespaces[p].sym] < SymbolHash[namespaces[q].sym]
      BY <1>0, <3>1 DEF NInv
    <3> QED
      BY <1>0, <3>1, <3>2
  <2>8. \A q \in 1..(n + 1) : LET e == namespaces'[q]
          IN e.obj \in Objects' /\ heap'[e.obj].kind = "ns" /\ heap'[e.obj].val = e.sym
    <3> SUFFICES ASSUME NEW q \in 1..(n + 1)
                 PROVE  LET e == namespaces'[q]
                        IN e.obj \in Objects' /\ heap'[e.obj].kind = "ns" /\ heap'[e.obj].val = e.sym
      OBVIOUS
    <3>1. CASE q = p
      <4>1. namespaces'[q] = entry
        BY <1>0, <2>4, <3>1
      <4> QED
        BY <2>2, <2>3, <2>5, <4>1
    <3>2. CASE q # p
      <4>1. old(q) \in 1..n /\ namespaces'[q] = namespaces[old(q)]
        BY <2>6, <3>2
      <4> HIDE DEF old
      <4> QED
        BY <2>3, <4>1 DEF NInv
    <3> QED
      BY <3>1, <3>2
  <2>9. \A q, r \in 1..(n + 1) :
          q < r => SymbolHash[namespaces'[q].sym] < SymbolHash[namespaces'[r].sym]
    <3> SUFFICES ASSUME NEW q \in 1..(n + 1), NEW r \in 1..(n + 1), q < r
                 PROVE  SymbolHash[namespaces'[q].sym] < SymbolHash[namespaces'[r].sym]
      OBVIOUS
    <3>1. CASE q = p
      <4>1. namespaces'[q].sym = sym /\ namespaces'[r] = namespaces[r - 1]
            /\ r - 1 \in 1..n /\ r - 1 >= p
        BY <1>0, <2>4, <2>5, <3>1
      <4> QED
        BY <2>7, <4>1
    <3>2. CASE r = p
      <4>1. namespaces'[r].sym = sym /\ namespaces'[q] = namespaces[q] /\ q \in 1..(p - 1)
        BY <1>0, <2>4, <2>5, <3>2
      <4> QED
        BY <1>0, <4>1
    <3>3. CASE q # p /\ r # p
      <4>1. /\ old(q) \in 1..n /\ old(r) \in 1..n /\ old(q) < old(r)
            /\ namespaces'[q] = namespaces[old(q)] /\ namespaces'[r] = namespaces[old(r)]
        BY <1>0, <2>6, <3>3
      <4> HIDE DEF old
      <4> QED
        BY <4>1 DEF NInv
    <3> QED
      BY <3>1, <3>2, <3>3
  <2>10. \A i \in Objects' : heap'[i].kind = "ns" => \E q \in 1..(n + 1) : namespaces'[q].obj = i
    <3> SUFFICES ASSUME NEW i \in Objects', heap'[i].kind = "ns"
                 PROVE  \E q \in 1..(n + 1) : namespaces'[q].obj = i
      OBVIOUS
    <3>1. CASE i = i0
      BY <1>0, <2>4, <2>5, <3>1
    <3>2. CASE i # i0
      <4>1. i \in Objects /\ heap[i].kind = "ns"
        BY <2>3, <3>2
      <4>2. PICK r \in 1..n : namespaces[r].obj = i
        BY <4>1 DEF NInv
      <4>3. namespaces'[IF r < p THEN r ELSE r + 1] = namespaces[r]
        BY <1>0, <2>4
      <4> QED
        BY <1>0, <4>2, <4>3
    <3> QED
      BY <3>1, <3>2
  <2>11. NInv'
    BY <2>4, <2>8, <2>9, <2>10 DEF NInv
  <2>12. SymbolHash[heap'[i0].val] = SymbolHash[sym]
    BY <2>2
  <2> QED
    BY <1>2, <2>2, <2>3, <2>11, <2>12 DEF Kept
<1> QED
  BY <1>3, <1>4

-------------------------------------------------------------------------------
(* The steps and the theorems. *)

\* The inductive invariant.
PInv == IInv /\ HeapOK /\ NInv /\ Answered

LEMMA SeqsUpToIs ==
  ASSUME NEW S, NEW T, S \subseteq T, NEW n \in Nat, NEW s \in SeqsUpTo(S, n)
  PROVE  s \in Seq(T)
<1>1. PICK k \in 0..n : s \in [1..k -> S]
  BY DEF SeqsUpTo
<1>2. s \in Seq(S)
  BY <1>1
<1> QED
  BY <1>2, SeqMonotonic

\* A call that makes neither keyword nor namespace.
LEMMA PlainStep ==
  ASSUME PInv, Kept, Plain, UNCHANGED namespaces
  PROVE  HeapOK' /\ NInv' /\ Answered' /\ Promise!Grows
<1>1. NInv'
  BY NamespacesStay DEF PInv, Kept, Plain
<1> QED
  BY <1>1, PromiseGrows DEF PInv, Kept

\* Every call keeps it and is a call of Persistent.
LEMMA StepKept ==
  ASSUME PInv, Next
  PROVE  HeapOK' /\ NInv' /\ Answered' /\ Promise!Next
<1> DEFINE any == Items \cap Refs
           keys == any \ {nil}
           maps == OfKind({"map"})
           Good == HeapOK' /\ NInv' /\ Answered' /\ Promise!Next
<1>0. /\ any \subseteq Refs /\ keys \subseteq Objects /\ keys \X any \subseteq Objects \X Refs
      /\ IInv /\ HeapOK /\ NInv /\ MaxItems \in Nat /\ MaxEntries \in Nat
  BY ValuesAssumption DEF PInv, Refs, Objects, nil, HeapOK
<1>1. ASSUME Kept, Plain, UNCHANGED namespaces,
             \/ Promise!List \/ Promise!Vector \/ Promise!VectorOf \/ Promise!Keyed
             \/ Promise!Cons \/ Promise!First \/ Promise!Rest \/ Promise!WithMeta
             \/ Promise!Assoc \/ Promise!ValAt \/ Promise!Compared
      PROVE  Good
  BY <1>1, PlainStep DEF Promise!Next
<1>2. ASSUME NEW items \in SeqsUpTo(any, MaxItems), MakeList(items) PROVE Good
  <2>1. items \in Seq(Refs)
    BY <1>0, SeqsUpToIs
  <2>2. Kept /\ Plain /\ Promise!List /\ UNCHANGED namespaces
    BY <1>0, <1>2, <2>1, MakeListKept DEF MakeList, TablesUnchanged
  <2> QED
    BY <1>1, <2>2
<1>3. ASSUME NEW items \in SeqsUpTo(any, MaxEntries), MakeVector(items) PROVE Good
  <2>1. items \in Seq(Refs)
    BY <1>0, SeqsUpToIs
  <2>2. Kept /\ Plain /\ Promise!Vector /\ UNCHANGED namespaces
    BY <1>0, <1>3, <2>1, MakeVectorKept DEF MakeVector, TablesUnchanged
  <2> QED
    BY <1>1, <2>2
<1>4. ASSUME NEW items \in SeqsUpTo(keys, MaxItems), MakeKeyed("set", items) PROVE Good
  <2>1. items \in Seq(ItemsOf("set")) /\ "set" \in Trees
    BY <1>0, SeqsUpToIs DEF ItemsOf, Trees
  <2>2. Kept /\ Plain /\ Promise!Keyed /\ UNCHANGED namespaces
    BY <1>0, <1>4, <2>1, MakeKeyedKept DEF MakeKeyed, TablesUnchanged
  <2> QED
    BY <1>1, <2>2
<1>5. ASSUME NEW items \in SeqsUpTo(keys \X any, MaxEntries), MakeKeyed("map", items) PROVE Good
  <2>1. items \in Seq(ItemsOf("map")) /\ "map" \in Trees
    BY <1>0, SeqsUpToIs DEF ItemsOf, Trees
  <2>2. Kept /\ Plain /\ Promise!Keyed /\ UNCHANGED namespaces
    BY <1>0, <1>5, <2>1, MakeKeyedKept DEF MakeKeyed, TablesUnchanged
  <2> QED
    BY <1>1, <2>2
<1>6. ASSUME NEW s \in OfKind({"list", "vector"}), first(s) PROVE Good
  <2>1. Kept /\ Plain /\ Promise!First /\ UNCHANGED namespaces
    BY <1>0, <1>6, FirstKept DEF first, TablesUnchanged
  <2> QED
    BY <1>1, <2>1
<1>7. ASSUME NEW s \in OfKind({"list", "vector"}), rest(s) PROVE Good
  <2>1. Kept /\ Plain /\ Promise!Rest /\ UNCHANGED namespaces
    BY <1>0, <1>7, RestKept DEF rest, TablesUnchanged
  <2> QED
    BY <1>1, <2>1
<1>8. ASSUME NEW s \in OfKind({"list", "vector"}), VectorOf(s) PROVE Good
  <2>1. Kept /\ Plain /\ Promise!VectorOf /\ UNCHANGED namespaces
    BY <1>0, <1>8, VectorOfKept DEF VectorOf, TablesUnchanged
  <2> QED
    BY <1>1, <2>1
<1>9. ASSUME NEW s \in OfKind({"list", "vector"}), NEW x \in any, cons(s, x) PROVE Good
  <2>1. heap[s].kind \in {"list", "vector"} /\ x \in Refs
    BY <1>0 DEF OfKind
  <2>2. Kept /\ Plain /\ Promise!Cons
    BY <1>0, <1>9, <2>1, ConsListKept, ConsVectorKept
  <2>3. UNCHANGED namespaces
    BY <1>9 DEF cons, TablesUnchanged
  <2> QED
    BY <1>1, <2>2, <2>3
<1>10. ASSUME NEW c \in OfKind({"list", "vector", "map", "set"}), NEW m \in maps, withMeta(c, m)
       PROVE  Good
  <2>1. c \in OfKind({"list"}) \/ c \in OfKind({"vector", "map", "set"})
    BY DEF OfKind
  <2>2. Kept /\ Plain /\ Promise!WithMeta
    BY <1>0, <1>10, <2>1, WithMetaListKept, WithMetaTreeKept
  <2>3. UNCHANGED namespaces
    BY <1>10 DEF withMeta, TablesUnchanged
  <2> QED
    BY <1>1, <2>2, <2>3
<1>11. ASSUME NEW m \in maps, NEW k \in keys, valAt(m, k) PROVE Good
  <2>1. Kept /\ Plain /\ Promise!ValAt /\ UNCHANGED namespaces
    BY <1>0, <1>11, ValAtKept DEF valAt, TablesUnchanged
  <2> QED
    BY <1>1, <2>1
<1>12. ASSUME NEW m \in maps, NEW k \in keys, NEW v \in any, assoc(m, k, v) PROVE Good
  <2>1. Kept /\ Plain /\ Promise!Assoc /\ UNCHANGED namespaces
    BY <1>0, <1>12, AssocKept DEF assoc, TablesUnchanged
  <2> QED
    BY <1>1, <2>1
<1>13. ASSUME NEW i \in OfKind({"int", "ratio", "str", "char", "sym"}),
              NEW j \in OfKind({"int", "ratio", "str", "char", "sym"}), compare(i, j)
       PROVE  Good
  <2>1. Kept /\ Plain /\ Promise!Compared /\ UNCHANGED namespaces
    BY <1>0, <1>13, CompareKept DEF compare, TablesUnchanged
  <2> QED
    BY <1>1, <2>1
<1>14. ASSUME NEW sym \in Symbols, Keyword_create(sym) PROVE Good
  <2>1. sym \in Symbol
    BY ValuesAssumption
  <2>2. /\ Kept /\ Promise!Interned
        /\ \A i \in Objects' : i > Len(heap) => heap'[i].kind # "ns"
    BY <1>0, <1>14, <2>1, KeywordKept
  <2>3. UNCHANGED namespaces
    BY <1>14 DEF Keyword_create
  <2>4. NInv'
    BY <1>0, <2>2, <2>3, NamespacesStay DEF Kept
  <2> QED
    BY <1>0, <2>2, <2>4, PromiseGrows DEF Kept, Promise!Next
<1>15. ASSUME NEW sym \in Symbols, Namespace_findOrCreate(sym) PROVE Good
  <2>1. sym \in Symbol
    BY ValuesAssumption
  <2>2. Kept /\ NInv' /\ Promise!FoundOrCreated
    BY <1>0, <1>15, <2>1, NamespaceKept
  <2> QED
    BY <1>0, <2>2, PromiseGrows DEF Kept, Promise!Next
<1> HIDE DEF Good
<1>16. Good
  BY <1>2, <1>3, <1>4, <1>5, <1>6, <1>7, <1>8, <1>9, <1>10, <1>11, <1>12, <1>13, <1>14, <1>15
  DEF Next
<1> QED
  BY <1>16 DEF Good

\* A step that changes nothing changes no value.
LEMMA StutterKept ==
  ASSUME PInv, UNCHANGED vars
  PROVE  HeapOK' /\ NInv' /\ Answered' /\ UNCHANGED Promise!vars
<1>1. UNCHANGED heap /\ UNCHANGED namespaces /\ UNCHANGED call
  BY DEF vars
<1>2. HeapOK /\ HeapOK' /\ Grown /\ Objects' = Objects /\ Refs' = Refs
  BY <1>1, Unmade DEF PInv, Objects, Refs
<1>3. NInv'
  <2>1. \A i \in Objects' : ~(i > Len(heap))
    BY <1>2 DEF Objects, HeapOK
  <2> QED
    BY <1>1, <1>2, <2>1, NamespacesStay DEF PInv
<1>4. Answered'
  BY <1>1, <1>2 DEF PInv, Answered
<1>5. Vals' = Vals
  <2>1. \A i \in 1..Len(heap) : Value(i)' = Value(i)
    BY <1>2, ValueStays DEF Objects
  <2> QED
    BY <1>1, <2>1 DEF Vals
<1> QED
  BY <1>1, <1>2, <1>3, <1>4, <1>5 DEF Promise!vars, Vals

\* What the reader made of its literals has the shape of objects.
LEMMA InitFine ==
  ASSUME Init
  PROVE  HeapOK
<1> DEFINE Fields == [kind : {"int", "ratio", "str", "char", "sym", "list", "map"},
                      val : Seq(Nat), items : Seq(Nat), rest : {nil}, count : Nat, meta : {nil}]
           n == Len(heap)
<1>1. heap \in Seq(Fields) /\ \A i \in 1..n : Literal(heap[i], n)
  BY ValuesAssumption DEF Init
<1>2. n \in Nat /\ \A i \in 1..n : heap[i] \in Fields
  BY <1>1, ElementOfSeq, LenProperties
<1>3. ASSUME NEW i \in Objects
      PROVE  Fine(i)
  <2> DEFINE o == heap[i]
             kind == o.kind
             items == o.items
  <2>1. Literal(o, n) /\ o \in Fields
    BY <1>1, <1>2 DEF Objects
  <2>2. /\ o.kind \in {"int", "ratio", "str", "char", "sym", "list", "map"}
        /\ o.val \in Seq(Nat) /\ o.items \in Seq(Nat)
        /\ o.rest = nil /\ o.count \in Nat /\ o.meta = nil
    BY <2>1
  <2>3. Valued(i)
    BY <2>1, <2>2 DEF Valued, Literal
  <2>4. Counted(i)
    BY <2>1, <2>2 DEF Counted, Literal
  <2>5. kind # "list" => items = <<>> /\ o.count = 0
    BY <2>1 DEF Literal
  <2>6. kind = "list" => items \in Seq(Refs)
    <3> SUFFICES ASSUME kind = "list" PROVE items \in Seq(Refs)
      OBVIOUS
    <3>1. Len(items) = 1 /\ items[1] <= n
      BY <2>1 DEF Literal
    <3>2. items \in Seq(Nat) /\ n \in Nat /\ Refs = 0..n
      BY <1>2, <2>2 DEF Refs
    <3> HIDE DEF items, kind, n
    <3>3. 1 \in 1..Len(items) /\ \A q \in 1..Len(items) : q = 1
      BY <3>1
    <3>4. items[1] \in Refs
      <4>1. items[1] \in Nat
        BY <3>2, <3>3, ElementOfSeq
      <4> QED
        BY <3>1, <3>2, <4>1
    <3>5. \A q \in 1..Len(items) : items[q] \in Refs
      BY <3>3, <3>4
    <3> QED
      BY <3>2, <3>5
  <2>7. items \in Seq(ItemsOf(kind))
    <3>1. CASE kind = "list"
      BY <2>6, <3>1 DEF ItemsOf
    <3>2. CASE kind # "list"
      <4> DEFINE E == ItemsOf(kind)
      <4>1. items = <<>>
        BY <2>5, <3>2
      <4> HIDE DEF E, items
      <4>2. items \in Seq(E)
        BY <4>1
      <4> QED
        BY <4>2 DEF E
    <3> QED
      BY <3>1, <3>2
  <2>8. kind # "list" => Sorted(kind, items) /\ o.count = Len(items)
    BY <2>5 DEF Sorted
  <2>9. Composed(i)
    BY <2>2, <2>7, <2>8 DEF Composed
  <2> QED
    BY <2>2, <2>3, <2>4, <2>9 DEF Fine, Kinds
<1> QED
  BY <1>2, <1>3 DEF HeapOK

LEMMA InitKept == Init => PInv /\ Promise!Init
<1> SUFFICES ASSUME Init PROVE PInv /\ Promise!Init
  OBVIOUS
<1>1. IInv /\ HeapOK
  BY InitOK, InitFine
<1>2. \A i \in Objects : heap[i].kind # "ns"
  <2>1. \A i \in Objects : heap[i].kind \in {"int", "ratio", "str", "char", "sym", "list", "map"}
    <3> DEFINE Fields == [kind : {"int", "ratio", "str", "char", "sym", "list", "map"},
                      val : Seq(Nat), items : Seq(Nat), rest : {nil}, count : Nat, meta : {nil}]
    <3>1. heap \in Seq(Fields)
      BY ValuesAssumption DEF Init
    <3>2. \A i \in Objects : heap[i] \in Fields
      <4> HIDE DEF Fields
      <4> QED
        BY <3>1, ElementOfSeq DEF Objects
    <3> QED
      BY <3>2
  <2> QED
    BY <2>1
<1>3. NInv
  BY <1>2 DEF Init, NInv
<1>4. Answered
  BY <1>1 DEF Init, Answered, Refs, nil, HeapOK
<1>5. Promise!Init
  BY DEF Init, Promise!Init, Promise!nil, nil
<1> QED
  BY <1>1, <1>3, <1>4, <1>5 DEF PInv

LEMMA PInvKept == PInv /\ [Next]_vars => PInv' /\ [Promise!Next]_(Promise!vars)
<1> SUFFICES ASSUME PInv, [Next]_vars PROVE PInv' /\ [Promise!Next]_(Promise!vars)
  OBVIOUS
<1>1. IInv'
  BY NextOK DEF PInv
<1>2. CASE Next
  BY <1>1, <1>2, StepKept DEF PInv
<1>3. CASE UNCHANGED vars
  BY <1>1, <1>3, StutterKept DEF PInv
<1> QED
  BY <1>2, <1>3

\* What the invariant says of what must hold.
LEMMA PInvImplies == PInv => TypeOK /\ CountIsPrinted /\ EqualsHash
<1> SUFFICES ASSUME PInv PROVE TypeOK /\ CountIsPrinted /\ EqualsHash
  OBVIOUS
<1>1. CountIsPrinted
  BY PrintedAsCounted DEF PInv
<1>2. EqualsHash
  BY DEF EqualsHash, equals, hashCode, RatioHash, KeywordHash
<1>3. TypeOK
  <2>1. ASSUME NEW i \in 1..Len(heap)
        PROVE  /\ heap[i].rest \in OfKind({"list"}) \cup {nil} /\ heap[i].rest < i
               /\ heap[i].meta \in OfKind({"map"}) \cup {nil} /\ heap[i].meta < i
               /\ heap[i].count \in Nat
               /\ heap[i].kind = "list" => Len(heap[i].items) = 1
    <3>1. Composed(i) /\ Counted(i) /\ Len(heap) \in Nat
      BY DEF PInv, HeapOK, Fine, Objects
    <3> QED
      BY <3>1 DEF Composed, Counted, OfKind, nil
  <2>2. \A q \in 1..Len(keywords) : keywords[q].obj \in OfKind({"key"})
    BY DEF PInv, IInv, Entered, OfKind
  <2>3. \A q \in 1..Len(namespaces) : namespaces[q].obj \in OfKind({"ns"})
    BY DEF PInv, NInv, OfKind, Objects
  <2> QED
    BY <2>1, <2>2, <2>3 DEF PInv, Answered, TypeOK
<1> QED
  BY <1>1, <1>2, <1>3

LEMMA PInvHolds == Spec => []PInv
<1>1. Init => PInv
  BY InitKept
<1>2. PInv /\ [Next]_vars => PInv'
  BY PInvKept
<1> QED
  BY <1>1, <1>2, PTL DEF Spec

\* Every object has its fields, and every pointer leads to an older object, so
\* that lists end, whatever shares their tails.
THEOREM PointersAreOlder == Spec => []TypeOK
<1>1. PInv => TypeOK
  BY PInvImplies
<1> QED
  BY <1>1, PInvHolds, PTL

\* utils::print shows as many items of a list as its count says and meets no null
\* pointer on its way: withMeta leaves a list without a count, and no other list
\* ever counts on that one.
THEOREM CountsArePrinted == Spec => []CountIsPrinted
<1>1. PInv => CountIsPrinted
  BY PInvImplies
<1> QED
  BY <1>1, PInvHolds, PTL

\* Objects that are equal have the same hash code, characters excepted.
THEOREM EqualsHaveOneHash == Spec => []EqualsHash
<1>1. PInv => EqualsHash
  BY PInvImplies
<1> QED
  BY <1>1, PInvHolds, PTL

\* The objects implement immutable values: whatever lists share, whatever a map
\* copies, and wherever the search of a tree or a table ends, every call returns
\* what Persistent says of the elements and changes no value that was there.
THEOREM ImplementsPersistent == Spec => PersistentSpec
<1>1. Init => Promise!Init
  BY InitKept
<1>2. PInv /\ [Next]_vars => [Promise!Next]_(Promise!vars)
  BY PInvKept
<1> QED
  BY <1>1, <1>2, PInvHolds, PTL DEF Spec, PersistentSpec, Promise!Spec
================================================================================
