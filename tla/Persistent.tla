------------------------------ MODULE Persistent ------------------------------
(***************************************************************************)
(* What the objects of the C++ program promise: immutable values.  A call  *)
(* may add values and changes none; what it returns is said in terms of    *)
(* elements alone, with no lists of lists, no copies, no trees and no      *)
(* tables.  A key of a map or set stands for every key of its hash code.   *)
(***************************************************************************)
EXTENDS Integers, Sequences

VARIABLES
  values,   \* [kind, val, elems, len, meta, hash, name], found by their index
  call      \* [op, args, ret] of the last call

vars == <<values, call>>

nil == 0

Init == call = [op |-> "none", args |-> <<>>, ret |-> nil]

\* Values are never changed nor lost.
Grows ==
  /\ Len(values) <= Len(values')
  /\ \A i \in 1..Len(values) : values'[i] = values[i]

Hash(i) == values[i].hash
Returned == values'[call'.ret]
Is(kind, elems) == Returned.kind = kind /\ Returned.elems = elems

\* The pairs or elements of a sequence, as they would be in a map or set.
ElementsOf(s) == {s[i] : i \in 1..Len(s)}
KeyOf(e) == IF call'.op = "map" THEN e[1] ELSE e

\* The values of the keys that key stands for: one at most.
At(m, key) == {e[2] : e \in {d \in values[m].elems : Hash(d[1]) = Hash(key)}}

\* Literals. An empty list has room for an element, but does not count it.
List ==
  /\ call'.op = "list"
  /\ Is("list", IF call'.args = <<>> THEN <<nil>> ELSE call'.args)
  /\ Returned.len = Len(call'.args)

Vector ==
  /\ call'.op = "vector"
  /\ Is("vector", call'.args) /\ Returned.len = Len(call'.args)

\* The elements of a list or vector; an empty one has a nil here, too.
VectorOf ==
  /\ call'.op = "vectorOf"
  /\ LET elems == values[call'.args[1]].elems
     IN Is("vector", IF elems = <<>> THEN <<nil>> ELSE elems)

\* A literal with two keys of one hash code is refused.
Keyed ==
  /\ call'.op \in {"map", "set"}
  /\ LET a == call'.args
         twice == \E i, j \in 1..Len(a) : i # j /\ Hash(KeyOf(a[i])) = Hash(KeyOf(a[j]))
     IN IF twice THEN call'.ret = nil ELSE Is(call'.op, ElementsOf(a)) /\ Returned.len = Len(a)

\* A list grows at its front, a vector at its back, where it keeps its metadata.
Cons ==
  /\ call'.op = "cons"
  /\ LET v == values[call'.args[1]]
         x == call'.args[2]
     IN /\ Is(v.kind, IF v.kind = "list" THEN <<x>> \o v.elems ELSE Append(v.elems, x))
        /\ Returned.len = Len(v.elems) + 1
        /\ Returned.meta = IF v.kind = "list" THEN nil ELSE v.meta

First ==
  /\ call'.op = "first"
  /\ LET v == values[call'.args[1]]
     IN call'.ret = IF v.elems = <<>> THEN nil ELSE Head(v.elems)

\* nil where nothing is left, never an empty collection.
Rest ==
  /\ call'.op = "rest"
  /\ LET v == values[call'.args[1]]
     IN IF Len(v.elems) <= 1 THEN call'.ret = nil
        ELSE Is(v.kind, Tail(v.elems)) /\ Returned.len = Len(v.elems) - 1 /\ Returned.meta = nil

\* How long a list with metadata says it is, nothing says.
WithMeta ==
  /\ call'.op = "withMeta"
  /\ LET v == values[call'.args[1]]
     IN /\ Is(v.kind, v.elems) /\ Returned.meta = call'.args[2]
        /\ v.kind # "list" => Returned.len = v.len

\* An association with a key that stands for an old one changes nothing.
Assoc ==
  /\ call'.op = "assoc"
  /\ LET m == call'.args[1]
         e == <<call'.args[2], call'.args[3]>>
     IN /\ Is("map", values[m].elems \cup (IF At(m, e[1]) = {} THEN {e} ELSE {}))
        /\ Returned.meta = values[m].meta

ValAt ==
  /\ call'.op = "valAt"
  /\ LET there == At(call'.args[1], call'.args[2])
     IN there = (IF there = {} THEN {} ELSE {call'.ret})
          /\ (there = {} => call'.ret = nil)

\* Strings by their order, symbols first by namespace, of which none is the first,
\* ratios by their values.
Below(v, w) ==
  IF v.kind = "ratio" THEN v.val[1] * w.val[2] < w.val[1] * v.val[2]
  ELSE \E k \in 1..Len(v.val) :
         v.val[k] < w.val[k] /\ \A l \in 1..(k - 1) : v.val[l] = w.val[l]

\* Objects of one class are ordered by what they are, and of two are not.
Compared ==
  /\ call'.op = "compare"
  /\ LET v == values[call'.args[1]]
         w == values[call'.args[2]]
     IN IF v.kind # w.kind THEN call'.ret = 2
        ELSE /\ call'.ret = -1 <=> Below(v, w)
             /\ call'.ret = 1 <=> Below(w, v)
             /\ call'.ret \in {-1, 0, 1}

\* A keyword is the one of its name, a namespace the one of its name's hash
\* code: asked again, the same is returned.
Interned ==
  /\ call'.op = "keyword"
  /\ LET old == {i \in 1..Len(values) : values[i].kind = "key" /\ values[i].val = call'.args}
     IN IF old = {} THEN Returned.kind = "key" /\ Returned.val = call'.args
        ELSE old = {call'.ret}

FoundOrCreated ==
  /\ call'.op = "namespace"
  /\ Returned.kind = "ns" /\ Returned.name = call'.args[1]
  /\ \A i \in 1..Len(values') :
       values'[i].kind = "ns" /\ values'[i].name = Returned.name => i = call'.ret

Next ==
  /\ Grows
  /\ \/ List \/ Vector \/ VectorOf \/ Keyed \/ Cons \/ First \/ Rest \/ WithMeta
     \/ Assoc \/ ValAt \/ Compared \/ Interned \/ FoundOrCreated

Spec == Init /\ [][Next]_vars
===============================================================================
