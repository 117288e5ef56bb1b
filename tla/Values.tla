-------------------------------- MODULE Values --------------------------------
(***************************************************************************)
(* The objects of the C++ program, which its reader makes and its loop     *)
(* prints: list.cpp, vector.cpp, map.cpp, set.cpp, the hash codes and      *)
(* equalities of the atoms, and the two tables of interned objects         *)
(* (keyword.cpp, namespace.cpp).                                           *)
(*                                                                         *)
(* heap is the sequence of the objects made so far; a shared_ptr is an     *)
(* index into it, 0 the null pointer, which is nil.  A string is its rank  *)
(* in the order of std::string, 0 the empty one.                           *)
(***************************************************************************)
EXTENDS Integers, Sequences

CONSTANTS
  Atoms,       \* what the heap may hold at first: what a reader made of small literals
  Strings,     \* the strings that names are made of
  Symbols,     \* the symbols that keywords and namespaces are asked by
  StringHash,  \* std::hash<std::string>
  SymbolHash,  \* what computeHash makes of a symbol's two strings
  Golden,      \* the number that Keyword adds to its symbol's hash code
  Xored(_, _), \* the operator ^ of C++
  Heap,        \* objects without a hash code of their own hash to their address,
               \* which is beyond this number
  Junk,        \* what a count that was never set may be
  Items,       \* bound: the objects and nil that go into collections
  MaxItems,    \* bound: items of a literal list or set
  MaxEntries,  \* bound: items or entries of a literal vector or map
  MaxObjects   \* bound: objects made

nil == 0

Symbol == Strings \X Strings

\* Up to this number a quotient of two is the double of no other such quotient:
\* different ones are further apart than doubles are.
MostExact == 2^26 - 1

\* An object of a heap of n that a reader may have made. A list of one is the
\* longest, and a map has no entries. Of ratios, the ones that Ratio::compareTo
\* tells apart as doubles.
Literal(o, n) ==
  /\ o.kind \in {"int", "char", "str"} => Len(o.val) = 1
  /\ o.kind = "str" => o.val[1] \in Strings
  /\ o.kind = "ratio" => /\ Len(o.val) = 2 /\ Xored(o.val[1], o.val[2]) \in Nat
                         /\ {o.val[1], o.val[2]} \subseteq 0..MostExact
  /\ o.kind = "sym" => o.val \in Symbol
  /\ o.kind = "list" => Len(o.items) = 1 /\ o.items[1] <= n /\ o.count \in {0, 1}
  /\ o.kind # "list" => o.items = <<>> /\ o.count = 0

ASSUME ValuesAssumption ==
  /\ Strings \subseteq Nat /\ 0 \in Strings
  /\ Symbols \subseteq Symbol
  /\ StringHash \in [Strings -> Nat] /\ SymbolHash \in [Symbol -> Nat]
  /\ {Golden, Heap, MaxItems, MaxEntries, MaxObjects} \subseteq Nat
  /\ Junk \subseteq Nat
  /\ \A a \in Atoms :
       /\ a \in Seq([kind : {"int", "ratio", "str", "char", "sym", "list", "map"},
                     val : Seq(Nat), items : Seq(Nat), rest : {nil}, count : Nat, meta : {nil}])
       /\ \A i \in 1..Len(a) : Literal(a[i], Len(a))

VARIABLES
  heap,         \* the objects
  keywords,     \* static table: entries [sym, obj] in the order of compareTo
  namespaces,   \* static namespaces: entries [sym, obj] in the order of hash codes
  call          \* the last call: [op, args, ret]

vars == <<heap, keywords, namespaces, call>>

-------------------------------------------------------------------------------
(* Objects. val holds an atom's strings or numbers; items the elements of a *)
(* vector or set, the <<key, value>> pairs of a map, or a list's _first.    *)

Atom(kind, val) ==
  [kind |-> kind, val |-> val, items |-> <<>>, rest |-> nil, count |-> 0, meta |-> nil]

Collection(kind, items, meta) ==
  [kind |-> kind, val |-> <<>>, items |-> items, rest |-> nil,
   count |-> Len(items), meta |-> meta]

\* compareTo of numbers, characters and strings: below, equal or above.
Order(x, y) == IF x < y THEN -1 ELSE IF x > y THEN 1 ELSE 0

\* Ratio::compareTo divides as doubles, which up to MostExact is as good as to
\* multiply; x/0 is above all numbers, and 0/0, which is none, neither below nor
\* above any.
RatioOrder(a, b) == Order(a[1] * b[2], b[1] * a[2])

\* Without the first test, an empty namespace is left to the names.
compareTo_faulty(a, b) ==
  CASE a[1] # 0 /\ b[1] = 0 -> 1
    [] a[1] # 0 /\ a[1] < b[1] -> -1
    [] a[1] # 0 /\ a[1] > b[1] -> 1
    [] OTHER -> Order(a[2], b[2])

\* Symbol::compareTo of two symbols.
compareTo(a, b) ==
  CASE a[1] = 0 /\ b[1] # 0 -> -1
    [] a[1] # 0 /\ b[1] = 0 -> 1
    [] a[1] # 0 /\ b[1] # 0 /\ a[1] < b[1] -> -1
    [] a[1] # 0 /\ b[1] # 0 /\ a[1] > b[1] -> 1
    [] OTHER -> Order(a[2], b[2])

RatioHash(o) == Xored(o.val[1], o.val[2])

KeywordHash(o) == SymbolHash[o.val] + Golden

\* Symbol does not override hashCode.
hashCode_faulty(i) ==
  LET o == heap[i] IN
  CASE o.kind = "int"   -> o.val[1]
    [] o.kind = "ratio" -> RatioHash(o)
    [] o.kind = "str"   -> StringHash[o.val[1]]
    [] o.kind = "key"   -> KeywordHash(o)
    [] OTHER            -> Heap + i

\* hashCode of each class; Object's is the address.
hashCode(i) ==
  LET o == heap[i] IN
  CASE o.kind = "int"   -> o.val[1]
    [] o.kind = "ratio" -> RatioHash(o)
    [] o.kind = "str"   -> StringHash[o.val[1]]
    [] o.kind = "sym"   -> SymbolHash[o.val]
    [] o.kind = "key"   -> KeywordHash(o)
    [] OTHER            -> Heap + i

\* utils::equals. Symbols, strings and characters are equal by value; all else,
\* numbers too, only to itself.
equals(i, j) ==
  \/ i = j
  \/ /\ i # nil /\ j # nil
     /\ heap[i].kind = heap[j].kind /\ heap[i].kind \in {"sym", "str", "char"}
     /\ heap[i].val = heap[j].val

-------------------------------------------------------------------------------
(* std::map and std::set: sorted sequences and a lower bound. *)

\* Of n sorted entries, the place of the first that is not before the one sought.
LowerBound(n, before) ==
  CHOOSE p \in 1..(n + 1) : /\ \A q \in 1..(p - 1) : q \in before
                            /\ p \notin before

Insert(t, p, e) == SubSeq(t, 1, p - 1) \o <<e>> \o SubSeq(t, p, Len(t))

\* The upper bound, which is behind an equal entry.
KeywordPlace_faulty(sym) ==
  LowerBound(Len(keywords),
             {q \in 1..Len(keywords) : compareTo(keywords[q].sym, sym) # 1})

KeywordPlace(sym) ==
  LowerBound(Len(keywords),
             {q \in 1..Len(keywords) : compareTo(keywords[q].sym, sym) = -1})

NamespacePlace(sym) ==
  LowerBound(Len(namespaces),
             {q \in 1..Len(namespaces) : SymbolHash[namespaces[q].sym] < SymbolHash[sym]})

KeyOf(kind, e) == IF kind = "map" THEN e[1] ELSE e

\* compare_hashcodes looks at nothing but the hash code.
Place(kind, items, key) ==
  LowerBound(Len(items),
             {q \in 1..Len(items) : hashCode(KeyOf(kind, items[q])) < hashCode(key)})

Has(kind, items, key) ==
  LET p == Place(kind, items, key)
  IN p <= Len(items) /\ hashCode(KeyOf(kind, items[p])) = hashCode(key)

\* insert of a std::map or std::set: nothing changes when the key is there.
insert(kind, items, e) ==
  IF Has(kind, items, KeyOf(kind, e)) THEN items
  ELSE Insert(items, Place(kind, items, KeyOf(kind, e)), e)

-------------------------------------------------------------------------------
(* Steps. A call makes objects and returns one of them, or an old one.      *)

Refs == 0..Len(heap)
OfKind(kinds) == {i \in 1..Len(heap) : heap[i].kind \in kinds}

Room(n) == Len(heap) + n <= MaxObjects

\* The objects are new and the last of them is returned.
Made(op, args, objects) ==
  /\ Room(Len(objects))
  /\ heap' = heap \o objects
  /\ call' = [op |-> op, args |-> args, ret |-> Len(heap) + Len(objects)]

\* An old object is returned, or nil, or nothing by a call that throws.
Found(op, args, ret) ==
  /\ call' = [op |-> op, args |-> args, ret |-> ret]
  /\ UNCHANGED heap

TablesUnchanged == UNCHANGED <<keywords, namespaces>>

\* List(first, rest): the count is the rest's and one more.
ListObject(first, rest, restCount) ==
  [kind |-> "list", val |-> <<>>, items |-> <<first>>, rest |-> rest,
   count |-> IF rest = nil THEN 1 ELSE 1 + restCount, meta |-> nil]

Empty == [ListObject(nil, nil, 0) EXCEPT !.count = 0]

\* The list itself is the rest of its first object.
Lists_faulty(items) ==
  LET n == Len(items) IN
  IF n = 0 THEN <<Empty>>
  ELSE [k \in 1..n |-> ListObject(items[n + 1 - k], IF k = 1 THEN nil ELSE Len(heap) + k, k - 1)]

\* List(init): from the last item to the first, each list the rest of the next.
Lists(items) ==
  LET n == Len(items) IN
  IF n = 0 THEN <<Empty>>
  ELSE [k \in 1..n |-> ListObject(items[n + 1 - k],
                                  IF k = 1 THEN nil ELSE Len(heap) + k - 1, k - 1)]

MakeList(items) == Made("list", items, Lists(items)) /\ TablesUnchanged

MakeVector(items) ==
  Made("vector", items, <<Collection("vector", items, nil)>>) /\ TablesUnchanged

\* The objects of a list that its rests lead to.
Chain ==
  LET chain[i \in OfKind({"list"})] ==
        heap[i].items \o (IF heap[i].rest = nil THEN <<>> ELSE chain[heap[i].rest])
  IN chain

\* Vector(items): first and rest until this is null, which an empty one is not.
VectorOf(s) ==
  LET elems == IF heap[s].kind = "list" THEN Chain[s]
               ELSE IF heap[s].items = <<>> THEN <<nil>> ELSE heap[s].items
  IN Made("vectorOf", <<s>>, <<Collection("vector", elems, nil)>>) /\ TablesUnchanged

\* The entries are inserted one by one; a key that is there is an error.
Inserted(kind, entries) ==
  LET tree[n \in 0..Len(entries)] ==
        IF n = 0 THEN <<>> ELSE insert(kind, tree[n - 1], entries[n])
  IN tree[Len(entries)]

MakeKeyed(kind, entries) ==
  LET tree == Inserted(kind, entries) IN
  /\ IF Len(tree) < Len(entries) THEN Found(kind, entries, nil)
     ELSE Made(kind, entries, <<Collection(kind, tree, nil)>>)
  /\ TablesUnchanged

\* The list itself becomes the rest of the new one.
cons_faulty(s, x) ==
  LET o == heap[s] IN
  /\ IF o.kind = "list"
     THEN Made("cons", <<s, x>>, <<ListObject(x, s, o.count)>>)
     ELSE Made("cons", <<s, x>>, <<[o EXCEPT !.items = Append(@, x), !.count = @ + 1]>>)
  /\ TablesUnchanged

\* cons. Of a list, a copy without metadata becomes the rest of the new one, an
\* empty list the list of a nil; a vector is copied, metadata included.
cons(s, x) ==
  LET o == heap[s]
      copy == ListObject(o.items[1], o.rest, IF o.rest = nil THEN 0 ELSE heap[o.rest].count)
  IN /\ IF o.kind = "list"
        THEN Made("cons", <<s, x>>, <<copy, ListObject(x, Len(heap) + 1, copy.count)>>)
        ELSE Made("cons", <<s, x>>, <<[o EXCEPT !.items = Append(@, x), !.count = @ + 1]>>)
     /\ TablesUnchanged

\* first of a list is its _first; an empty vector's is nil.
first(s) ==
  /\ Found("first", <<s>>, IF heap[s].items = <<>> THEN nil ELSE heap[s].items[1])
  /\ TablesUnchanged

\* rest of a list is there already; a vector's is copied, without metadata.
rest(s) ==
  LET o == heap[s] IN
  /\ IF o.kind = "list" THEN Found("rest", <<s>>, o.rest)
     ELSE IF Len(o.items) <= 1 THEN Found("rest", <<s>>, nil)
     ELSE Made("rest", <<s>>, <<Collection("vector", Tail(o.items), nil)>>)
  /\ TablesUnchanged

\* The list constructor that takes metadata does not set _count.
withMeta(c, m) ==
  /\ \E junk \in (IF heap[c].kind = "list" THEN Junk ELSE {heap[c].count}) :
       Made("withMeta", <<c, m>>, <<[heap[c] EXCEPT !.meta = m, !.count = junk]>>)
  /\ TablesUnchanged

\* assoc copies the map, metadata included, and inserts; an old entry stays.
assoc(m, k, v) ==
  LET items == insert("map", heap[m].items, <<k, v>>) IN
  /\ Made("assoc", <<m, k, v>>, <<Collection("map", items, heap[m].meta)>>)
  /\ TablesUnchanged

valAt(m, k) ==
  LET items == heap[m].items IN
  /\ Found("valAt", <<m, k>>,
           IF Has("map", items, k) THEN items[Place("map", items, k)][2] ELSE nil)
  /\ TablesUnchanged

Throws == 2

\* compareTo of two objects that have an order: of one class only.
compare(i, j) ==
  LET a == heap[i]
      b == heap[j]
  IN /\ Found("compare", <<i, j>>,
              IF a.kind # b.kind THEN Throws
              ELSE CASE a.kind = "sym"   -> compareTo(a.val, b.val)
                     [] a.kind = "ratio" -> RatioOrder(a.val, b.val)
                     [] OTHER            -> Order(a.val[1], b.val[1]))
     /\ TablesUnchanged

\* Keyword::create: find by compareTo, or make one and enter it.
Keyword_create(sym) ==
  LET p == KeywordPlace(sym)
      found == p <= Len(keywords) /\ compareTo(sym, keywords[p].sym) # -1
  IN /\ IF found
        THEN Found("keyword", sym, keywords[p].obj) /\ UNCHANGED keywords
        ELSE /\ Made("keyword", sym, <<Atom("key", sym)>>)
             /\ keywords' = Insert(keywords, p, [sym |-> sym, obj |-> Len(heap) + 1])
     /\ UNCHANGED namespaces

\* Namespace::findOrCreate: find by hash code, or make one and enter it.
Namespace_findOrCreate(sym) ==
  LET p == NamespacePlace(sym)
      found == p <= Len(namespaces) /\ SymbolHash[namespaces[p].sym] = SymbolHash[sym]
  IN /\ IF found
        THEN Found("namespace", <<SymbolHash[sym]>>, namespaces[p].obj) /\ UNCHANGED namespaces
        ELSE /\ Made("namespace", <<SymbolHash[sym]>>, <<Atom("ns", sym)>>)
             /\ namespaces' = Insert(namespaces, p, [sym |-> sym, obj |-> Len(heap) + 1])
     /\ UNCHANGED keywords

Init ==
  /\ heap \in Atoms
  /\ keywords = <<>> /\ namespaces = <<>>
  /\ call = [op |-> "none", args |-> <<>>, ret |-> nil]

SeqsUpTo(S, n) == UNION {[1..k -> S] : k \in 0..n}

\* A null key has no hash code to compare: the reader's model says what becomes
\* of one.
Next ==
  LET any == Items \cap Refs
      keys == any \ {nil}
      maps == OfKind({"map"})
  IN \/ \E items \in SeqsUpTo(any, MaxItems) : MakeList(items)
     \/ \E items \in SeqsUpTo(any, MaxEntries) : MakeVector(items)
     \/ \E items \in SeqsUpTo(keys, MaxItems) : MakeKeyed("set", items)
     \/ \E items \in SeqsUpTo(keys \X any, MaxEntries) : MakeKeyed("map", items)
     \/ \E s \in OfKind({"list", "vector"}) :
          first(s) \/ rest(s) \/ VectorOf(s) \/ \E x \in any : cons(s, x)
     \/ \E c \in OfKind({"list", "vector", "map", "set"}), m \in maps : withMeta(c, m)
     \/ \E m \in maps, k \in keys : valAt(m, k) \/ \E v \in any : assoc(m, k, v)
     \/ \E i, j \in OfKind({"int", "ratio", "str", "char", "sym"}) : compare(i, j)
     \/ \E sym \in Symbols : Keyword_create(sym) \/ Namespace_findOrCreate(sym)

Spec == Init /\ [][Next]_vars

-------------------------------------------------------------------------------
(* What must hold. *)

\* Every object has its fields, and every pointer leads to an older object.
TypeOK ==
  /\ \A i \in 1..Len(heap) :
       /\ heap[i].rest \in OfKind({"list"}) \cup {nil} /\ heap[i].rest < i
       /\ heap[i].meta \in OfKind({"map"}) \cup {nil} /\ heap[i].meta < i
       /\ heap[i].count \in Nat
       /\ heap[i].kind = "list" => Len(heap[i].items) = 1
  /\ \A q \in 1..Len(keywords) : keywords[q].obj \in OfKind({"key"})
  /\ \A q \in 1..Len(namespaces) : namespaces[q].obj \in OfKind({"ns"})
  /\ call.ret \in (IF call.op = "compare" THEN {-1, 0, 1, Throws} ELSE Refs)

\* "this is to make sure :a always == :a address wise" (keyword.h): no two
\* keywords have the same name, whatever was made between them.
KeywordsUnique ==
  \A i, j \in OfKind({"key"}) : heap[i].val = heap[j].val => i = j

\* What utils::print shows of a list: its first while it counts one, then the
\* rests until one is null. With a count above one and no rest it dies.
Printed(i) ==
  LET o == heap[i] IN
  CASE o.count = 0 -> <<>>
    [] o.count = 1 -> o.items
    [] o.count > 1 /\ o.rest # nil -> o.items \o Chain[o.rest]
    [] OTHER -> <<>>

\* print shows as many items of a list as count says and meets no null pointer,
\* also where lists are made of lists that withMeta left without a count.
CountIsPrinted ==
  \A i \in OfKind({"list"}) :
    heap[i].meta = nil => Len(Printed(i)) = heap[i].count

\* Objects that are equal have the same hash code, so that a map or set finds
\* one by the other: true of all but characters, which have the hash code of
\* Object, their address.
EqualsHash ==
  \A i, j \in 1..Len(heap) :
    equals(i, j) /\ heap[i].kind # "char" => hashCode(i) = hashCode(j)

\* The value that an object stands for.
Value(i) ==
  LET o == heap[i] IN
  [kind |-> o.kind, val |-> o.val,
   elems |-> CASE o.kind = "list" -> Chain[i]
               [] o.kind \in {"map", "set"} -> {o.items[q] : q \in 1..Len(o.items)}
               [] OTHER -> o.items,
   len |-> o.count, meta |-> o.meta, hash |-> hashCode(i),
   name |-> IF o.kind = "ns" THEN SymbolHash[o.val] ELSE 0]

\* The promise: immutable values, and interned keywords and namespaces.
Promise == INSTANCE Persistent WITH values <- [i \in 1..Len(heap) |-> Value(i)]

PersistentSpec == Promise!Spec
===============================================================================
