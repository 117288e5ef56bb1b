----------------------------- MODULE Bytes_proofs -----------------------------
(***************************************************************************)
(* What the operators on byte strings return: First, After and Slice are   *)
(* the bytes that the code copies, and Overlay, its memcpy, composes: the  *)
(* proofs about streams compute with these facts instead of positions.     *)
(***************************************************************************)
EXTENDS Bytes, SequenceTheorems, TLAPS

(***************************************************************************)
(* Copies out of a string.                                                 *)
(***************************************************************************)

LEMMA EmptyBytes == \A S : <<>> \in Seq(S) /\ Len(<<>>) = 0
  BY EmptySeq

\* A string without bytes is the empty one.
LEMMA EmptyByLength ==
  ASSUME NEW S, NEW c \in Seq(S), Len(c) = 0
  PROVE  c = <<>>
BY EmptySeq

LEMMA FirstBytes ==
  ASSUME NEW S, NEW c \in Seq(S), NEW n \in 0..Len(c)
  PROVE  /\ First(c, n) \in Seq(S) /\ Len(First(c, n)) = n
         /\ \A i \in 1..n : First(c, n)[i] = c[i]
<1>1. \A i \in 1..n : c[i] \in S
  BY ElementOfSeq
<1>2. QED
  BY <1>1, SubSeqProperties, LenProperties DEF First

LEMMA FirstAll ==
  ASSUME NEW S, NEW c \in Seq(S)
  PROVE  First(c, Len(c)) = c
BY SubSeqFull DEF First

LEMMA FirstNone ==
  ASSUME NEW S, NEW c \in Seq(S)
  PROVE  First(c, 0) = <<>>
BY SubSeqEmpty DEF First

LEMMA AfterBytes ==
  ASSUME NEW S, NEW c \in Seq(S), NEW n \in Nat
  PROVE  /\ After(c, n) \in Seq(S)
         /\ Len(After(c, n)) = IF n <= Len(c) THEN Len(c) - n ELSE 0
         /\ \A i \in 1..(Len(c) - n) : After(c, n)[i] = c[n + i]
<1>1. \A i \in (n + 1)..Len(c) : c[i] \in S
  BY ElementOfSeq
<1>2. Len(c) \in Nat
  BY LenProperties
<1>3. /\ SubSeq(c, n + 1, Len(c)) \in Seq(S)
      /\ Len(SubSeq(c, n + 1, Len(c))) =
           IF n + 1 <= Len(c) THEN Len(c) - (n + 1) + 1 ELSE 0
      /\ \A i \in 1..(Len(c) - (n + 1) + 1) :
           SubSeq(c, n + 1, Len(c))[i] = c[(n + 1) + i - 1]
  BY <1>1, <1>2, SubSeqProperties
<1>4. \A i \in 1..(Len(c) - n) : After(c, n)[i] = c[n + i]
  <2> SUFFICES ASSUME NEW i \in 1..(Len(c) - n) PROVE After(c, n)[i] = c[n + i]
    OBVIOUS
  <2>1. i \in 1..(Len(c) - (n + 1) + 1) /\ (n + 1) + i - 1 = n + i
    BY <1>2
  <2>2. QED
    BY <1>3, <2>1 DEF After
<1>5. QED
  BY <1>2, <1>3, <1>4 DEF After

LEMMA SliceBytes ==
  ASSUME NEW S, NEW c \in Seq(S), NEW at \in Nat, NEW n \in Nat, n > 0 => at + n <= Len(c)
  PROVE  /\ Slice(c, at, n) \in Seq(S) /\ Len(Slice(c, at, n)) = n
         /\ \A i \in 1..n : Slice(c, at, n)[i] = c[at + i]
<1>1. \A i \in (at + 1)..(at + n) : c[i] \in S
  BY ElementOfSeq, LenProperties
<1>2. /\ SubSeq(c, at + 1, at + n) \in Seq(S)
      /\ Len(SubSeq(c, at + 1, at + n)) =
           IF at + 1 <= at + n THEN at + n - (at + 1) + 1 ELSE 0
      /\ \A i \in 1..(at + n - (at + 1) + 1) :
           SubSeq(c, at + 1, at + n)[i] = c[(at + 1) + i - 1]
  BY <1>1, SubSeqProperties
<1>3. \A i \in 1..n : Slice(c, at, n)[i] = c[at + i]
  <2> SUFFICES ASSUME NEW i \in 1..n PROVE Slice(c, at, n)[i] = c[at + i]
    OBVIOUS
  <2>1. i \in 1..(at + n - (at + 1) + 1) /\ (at + 1) + i - 1 = at + i
    OBVIOUS
  <2>2. QED
    BY <1>2, <2>1 DEF Slice
<1>4. QED
  BY <1>2, <1>3 DEF Slice

(***************************************************************************)
(* memcpy.                                                                 *)
(***************************************************************************)

\* The byte that memcpy of d to position at of c leaves at index i.
LEMMA OverlayBytes ==
  ASSUME NEW S, 0 \in S, NEW c \in Seq(S), NEW at \in Nat, NEW d \in Seq(S)
  PROVE  /\ Overlay(c, at, d) \in Seq(S)
         /\ Len(Overlay(c, at, d)) =
              IF d = <<>> THEN Len(c) ELSE Max2(Len(c), at + Len(d))
         /\ \A i \in 1..Len(Overlay(c, at, d)) :
              Overlay(c, at, d)[i] =
                IF i > at /\ i <= at + Len(d) THEN d[i - at]
                ELSE IF i <= Len(c) THEN c[i] ELSE 0
<1>1. CASE d = <<>>
  <2>1. Len(d) = 0 /\ Len(c) \in Nat
    BY <1>1, EmptyBytes, LenProperties
  <2>2. QED
    BY <1>1, <2>1 DEF Overlay
<1>2. CASE d # <<>>
  <2> DEFINE n == Max2(Len(c), at + Len(d))
             e(i) == IF i > at /\ i <= at + Len(d) THEN d[i - at]
                     ELSE IF i <= Len(c) THEN c[i] ELSE 0
  <2>1. n \in Nat /\ Len(d) \in Nat /\ Len(c) \in Nat
    BY LenProperties DEF Max2
  <2>2. \A i \in 1..n : e(i) \in S
    <3> SUFFICES ASSUME NEW i \in 1..n PROVE e(i) \in S
      OBVIOUS
    <3>1. CASE i > at /\ i <= at + Len(d)
      BY <3>1, <2>1, ElementOfSeq
    <3>2. CASE ~(i > at /\ i <= at + Len(d)) /\ i <= Len(c)
      BY <3>2, <2>1, ElementOfSeq
    <3>3. CASE ~(i > at /\ i <= at + Len(d)) /\ ~(i <= Len(c))
      BY <3>3, <2>1
    <3>4. QED
      BY <3>1, <3>2, <3>3
  <2>3. Overlay(c, at, d) = [i \in 1..n |-> e(i)]
    BY <1>2 DEF Overlay
  <2>4. [i \in 1..n |-> e(i)] \in [1..n -> S]
    BY <2>2
  <2>5. [i \in 1..n |-> e(i)] \in Seq(S)
    BY <2>1, <2>4, SeqDef, SMTT(20)
  <2>6. Len([i \in 1..n |-> e(i)]) = n
    BY <2>1, <2>5, LenProperties
  <2>7. QED
    BY <1>2, <2>3, <2>5, <2>6
<1>3. QED
  BY <1>1, <1>2

\* Nothing written changes nothing, and a write at the start of an empty string
\* is the string.
LEMMA OverlayNothing ==
  ASSUME NEW c, NEW at
  PROVE  Overlay(c, at, <<>>) = c
BY DEF Overlay

LEMMA OverlayFresh ==
  ASSUME NEW S, 0 \in S, NEW d \in Seq(S)
  PROVE  Overlay(<<>>, 0, d) = d
<1> DEFINE none  == <<>>
           start == 0
           o     == Overlay(none, start, d)
<1>1. none \in Seq(S) /\ start \in Nat
  BY EmptyBytes
<1>2. /\ Len(d) \in Nat /\ (d = <<>> => Len(d) = 0)
      /\ Len(none) = 0 /\ start = 0
  BY EmptyBytes, LenProperties
<1> HIDE DEF none, start
<1>3. /\ o \in Seq(S)
      /\ Len(o) = IF d = <<>> THEN Len(none) ELSE Max2(Len(none), start + Len(d))
      /\ \A i \in 1..Len(o) :
           o[i] = IF i > start /\ i <= start + Len(d) THEN d[i - start]
                  ELSE IF i <= Len(none) THEN none[i] ELSE 0
  BY <1>1, OverlayBytes
<1> HIDE DEF o
<1>4. Len(o) = Len(d)
  BY <1>1, <1>2, <1>3 DEF Max2
<1>5. \A i \in 1..Len(d) : o[i] = d[i]
  <2> SUFFICES ASSUME NEW i \in 1..Len(d) PROVE o[i] = d[i]
    OBVIOUS
  <2>1. i > start /\ i <= start + Len(d) /\ i - start = i
    BY <1>2
  <2>2. QED
    BY <1>3, <1>4, <2>1
<1>6. o = d
  BY <1>3, <1>4, <1>5, SeqEqual
<1>7. QED
  BY <1>6 DEF o, none, start

\* Bytes that are there already are not changed by writing them again.
LEMMA OverlaySame ==
  ASSUME NEW S, 0 \in S, NEW c \in Seq(S), NEW at \in Nat, NEW d \in Seq(S),
         d # <<>> => at + Len(d) <= Len(c),
         \A i \in 1..Len(d) : d[i] = c[at + i]
  PROVE  Overlay(c, at, d) = c
<1> DEFINE o == Overlay(c, at, d)
<1>1. CASE d = <<>>
  BY <1>1, OverlayNothing
<1>2. CASE d # <<>>
  <2>1. Len(c) \in Nat /\ Len(d) \in Nat /\ at + Len(d) <= Len(c)
    BY <1>2, LenProperties
  <2>2. /\ o \in Seq(S) /\ Len(o) = Max2(Len(c), at + Len(d))
        /\ \A i \in 1..Len(o) :
             o[i] = IF i > at /\ i <= at + Len(d) THEN d[i - at]
                    ELSE IF i <= Len(c) THEN c[i] ELSE 0
    BY <1>2, OverlayBytes
  <2> HIDE DEF o
  <2>3. Len(o) = Len(c)
    BY <2>1, <2>2 DEF Max2
  <2>4. \A i \in 1..Len(o) : o[i] = c[i]
    <3> SUFFICES ASSUME NEW i \in 1..Len(o) PROVE o[i] = c[i]
      OBVIOUS
    <3>1. CASE i > at /\ i <= at + Len(d)
      <4>1. i - at \in 1..Len(d) /\ at + (i - at) = i
        BY <2>1, <2>3, <3>1
      <4>2. QED
        BY <2>2, <3>1, <4>1
    <3>2. CASE ~(i > at /\ i <= at + Len(d))
      BY <2>1, <2>2, <2>3, <3>2
    <3>3. QED
      BY <3>1, <3>2
  <2>5. QED
    BY <2>2, <2>3, <2>4, SeqEqual DEF o
<1>3. QED
  BY <1>1, <1>2

\* Writing into a buffer and that into a file is writing into the file through
\* the buffer.
LEMMA OverlayNested ==
  ASSUME NEW S, 0 \in S, NEW c \in Seq(S), NEW at \in Nat, NEW b \in Seq(S),
         NEW k \in 0..Len(b), NEW d \in Seq(S)
  PROVE  Overlay(c, at, Overlay(b, k, d)) = Overlay(Overlay(c, at, b), at + k, d)
<1> DEFINE bd == Overlay(b, k, d)
           l  == Overlay(c, at, bd)
           cb == Overlay(c, at, b)
           r  == Overlay(cb, at + k, d)
<1>1. CASE d = <<>>
  BY <1>1, OverlayNothing
<1>2. CASE d # <<>>
  <2>1. Len(b) \in Nat /\ Len(c) \in Nat /\ Len(d) \in Nat \ {0} /\ (b = <<>> => Len(b) = 0)
    BY <1>2, EmptyBytes, LenProperties, EmptyByLength
  <2>2. /\ bd \in Seq(S) /\ Len(bd) = Max2(Len(b), k + Len(d))
        /\ \A i \in 1..Len(bd) :
             bd[i] = IF i > k /\ i <= k + Len(d) THEN d[i - k]
                     ELSE IF i <= Len(b) THEN b[i] ELSE 0
    BY <1>2, <2>1, OverlayBytes
  <2>3. /\ cb \in Seq(S)
        /\ Len(cb) = IF b = <<>> THEN Len(c) ELSE Max2(Len(c), at + Len(b))
        /\ \A i \in 1..Len(cb) :
             cb[i] = IF i > at /\ i <= at + Len(b) THEN b[i - at]
                     ELSE IF i <= Len(c) THEN c[i] ELSE 0
    BY OverlayBytes
  <2> HIDE DEF bd, cb
  <2>4. bd # <<>>
    BY <2>1, <2>2, EmptyBytes DEF Max2
  <2>5. /\ l \in Seq(S) /\ Len(l) = Max2(Len(c), at + Len(bd))
        /\ \A i \in 1..Len(l) :
             l[i] = IF i > at /\ i <= at + Len(bd) THEN bd[i - at]
                    ELSE IF i <= Len(c) THEN c[i] ELSE 0
    BY <2>2, <2>4, OverlayBytes
  <2>6. /\ r \in Seq(S) /\ Len(r) = Max2(Len(cb), at + k + Len(d))
        /\ \A i \in 1..Len(r) :
             r[i] = IF i > at + k /\ i <= at + k + Len(d) THEN d[i - (at + k)]
                    ELSE IF i <= Len(cb) THEN cb[i] ELSE 0
    <3>1. at + k \in Nat
      BY <2>1
    <3>2. QED
      BY <1>2, <2>3, <3>1, OverlayBytes, SMTT(20)
  <2> HIDE DEF l, r
  <2>7. Len(l) = Len(r) /\ Len(l) \in Nat
    BY <2>1, <2>2, <2>3, <2>5, <2>6 DEF Max2
  <2>8. \A i \in 1..Len(l) : l[i] = r[i]
    <3> SUFFICES ASSUME NEW i \in 1..Len(l) PROVE l[i] = r[i]
      OBVIOUS
    <3>1. CASE i > at + k /\ i <= at + k + Len(d)
      <4>1. i > at /\ i <= at + Len(bd) /\ i - at \in 1..Len(bd)
            /\ i - at > k /\ i - at <= k + Len(d) /\ (i - at) - k = i - (at + k)
        BY <2>1, <2>2, <2>7, <3>1, SMTT(20) DEF Max2
      <4>2. QED
        BY <2>2, <2>5, <2>6, <2>7, <3>1, <4>1
    <3>2. CASE ~(i > at + k /\ i <= at + k + Len(d)) /\ i > at /\ i <= at + Len(b)
      <4>1. /\ i <= at + Len(bd) /\ i - at \in 1..Len(bd) /\ i - at <= Len(b)
            /\ ~(i - at > k /\ i - at <= k + Len(d))
            /\ i \in 1..Len(cb)
        BY <2>1, <2>2, <2>3, <2>7, <3>2 DEF Max2
      <4>2. l[i] = b[i - at]
        BY <2>2, <2>5, <3>2, <4>1
      <4>3. r[i] = b[i - at]
        BY <2>3, <2>6, <2>7, <3>2, <4>1, SMTT(20)
      <4>4. QED
        BY <4>2, <4>3
    <3>3. CASE ~(i > at + k /\ i <= at + k + Len(d)) /\ ~(i > at /\ i <= at + Len(b))
      <4>1. ~(i > at /\ i <= at + Len(bd))
        BY <2>1, <2>2, <2>7, <3>3 DEF Max2
      <4>2. l[i] = IF i <= Len(c) THEN c[i] ELSE 0
        BY <2>5, <4>1
      <4>3. r[i] = IF i <= Len(cb) THEN cb[i] ELSE 0
        BY <2>6, <2>7, <3>3
      <4>4. i <= Len(c) => i <= Len(cb)
        BY <2>1, <2>3, <2>7 DEF Max2
      <4>5. i <= Len(cb) => cb[i] = IF i <= Len(c) THEN c[i] ELSE 0
        BY <2>1, <2>3, <2>7, <3>3
      <4>6. QED
        BY <4>2, <4>3, <4>4, <4>5
    <3>4. QED
      BY <3>1, <3>2, <3>3
  <2>9. l = r
    BY <2>5, <2>6, <2>7, <2>8, SeqEqual
  <2>10. QED
    BY <2>9 DEF l, r, bd, cb
<1>3. QED
  BY <1>1, <1>2

\* What is read back of bytes just written are these bytes.
LEMMA SliceOverlay ==
  ASSUME NEW S, 0 \in S, NEW c \in Seq(S), NEW at \in Nat, NEW b \in Seq(S),
         NEW k \in Nat, NEW n \in Nat, k + n <= Len(b)
  PROVE  Slice(Overlay(c, at, b), at + k, n) = Slice(b, k, n)
<1> DEFINE o == Overlay(c, at, b)
           l == Slice(o, at + k, n)
           r == Slice(b, k, n)
<1>1. /\ o \in Seq(S)
      /\ Len(o) = IF b = <<>> THEN Len(c) ELSE Max2(Len(c), at + Len(b))
      /\ \A i \in 1..Len(o) :
           o[i] = IF i > at /\ i <= at + Len(b) THEN b[i - at]
                  ELSE IF i <= Len(c) THEN c[i] ELSE 0
  BY OverlayBytes
<1>2. Len(c) \in Nat /\ Len(b) \in Nat /\ (b = <<>> => Len(b) = 0)
  BY EmptyBytes, LenProperties
<1> HIDE DEF o
<1>3. at + k \in Nat /\ (n > 0 => (at + k) + n <= Len(o))
  BY <1>1, <1>2 DEF Max2
<1>4. l \in Seq(S) /\ Len(l) = n /\ \A i \in 1..n : l[i] = o[(at + k) + i]
  BY <1>1, <1>3, SliceBytes, SMTT(20)
<1>5. r \in Seq(S) /\ Len(r) = n /\ \A i \in 1..n : r[i] = b[k + i]
  BY <1>2, SliceBytes
<1> HIDE DEF l, r
<1>6. \A i \in 1..n : l[i] = r[i]
  <2> SUFFICES ASSUME NEW i \in 1..n PROVE l[i] = r[i]
    OBVIOUS
  <2> DEFINE j == (at + k) + i
  <2>1. /\ j \in 1..Len(o) /\ j > at /\ j <= at + Len(b) /\ j - at = k + i
    BY <1>2, <1>3
  <2>2. o[j] = b[j - at]
    BY <1>1, <2>1
  <2>3. QED
    BY <1>4, <1>5, <2>1, <2>2
<1>7. l = r
  BY <1>4, <1>5, <1>6, SeqEqual
<1>8. QED
  BY <1>7 DEF l, r, o

\* Writing a string in two parts, one behind the other, writes the string.
LEMMA OverlayParts ==
  ASSUME NEW S, 0 \in S, NEW c \in Seq(S), NEW at \in Nat, NEW d \in Seq(S),
         NEW j \in 0..Len(d)
  PROVE  Overlay(Overlay(c, at, First(d, j)), at + j, After(d, j)) = Overlay(c, at, d)
<1> DEFINE f == First(d, j)
           a == After(d, j)
<1>1. Len(d) \in Nat /\ j \in Nat
  BY LenProperties
<1>2. f \in Seq(S) /\ Len(f) = j /\ \A i \in 1..j : f[i] = d[i]
  BY FirstBytes
<1>3. a \in Seq(S) /\ Len(a) = Len(d) - j /\ \A i \in 1..(Len(d) - j) : a[i] = d[j + i]
  <2>1. /\ a \in Seq(S)
        /\ Len(a) = IF j <= Len(d) THEN Len(d) - j ELSE 0
        /\ \A i \in 1..(Len(d) - j) : a[i] = d[j + i]
    BY <1>1, AfterBytes
  <2>2. QED
    BY <1>1, <2>1
<1> HIDE DEF f, a
<1>4. Overlay(Overlay(c, at, f), at + j, a) = Overlay(c, at, Overlay(f, j, a))
  <2>1. f \in Seq(S) /\ a \in Seq(S) /\ j \in 0..Len(f)
    BY <1>1, <1>2, <1>3
  <2>2. QED
    BY <2>1, OverlayNested
<1>5. Overlay(f, j, a) = d
  <2> DEFINE o == Overlay(f, j, a)
  <2>1. /\ o \in Seq(S)
        /\ Len(o) = IF a = <<>> THEN Len(f) ELSE Max2(Len(f), j + Len(a))
        /\ \A i \in 1..Len(o) :
             o[i] = IF i > j /\ i <= j + Len(a) THEN a[i - j]
                    ELSE IF i <= Len(f) THEN f[i] ELSE 0
    <3>1. f \in Seq(S) /\ a \in Seq(S) /\ j \in Nat
      BY <1>1, <1>2, <1>3
    <3>2. QED
      BY <3>1, OverlayBytes
  <2>2. a = <<>> => Len(a) = 0
    BY EmptyBytes
  <2> HIDE DEF o
  <2>3. Len(o) = Len(d)
    BY <1>1, <1>2, <1>3, <2>1, <2>2 DEF Max2
  <2>4. \A i \in 1..Len(d) : o[i] = d[i]
    <3> SUFFICES ASSUME NEW i \in 1..Len(d) PROVE o[i] = d[i]
      OBVIOUS
    <3>1. CASE i > j
      <4>1. i - j \in 1..(Len(d) - j) /\ j + (i - j) = i /\ i <= j + Len(a)
        BY <1>1, <1>3, <3>1
      <4>2. o[i] = a[i - j] /\ a[i - j] = d[j + (i - j)]
        BY <1>3, <2>1, <2>3, <3>1, <4>1
      <4>3. QED
        BY <4>1, <4>2
    <3>2. CASE ~(i > j)
      BY <1>1, <1>2, <2>1, <2>3, <3>2
    <3>3. QED
      BY <3>1, <3>2
  <2>5. QED
    BY <2>1, <2>3, <2>4, SeqEqual DEF o
<1>6. QED
  BY <1>4, <1>5 DEF f, a

LEMMA AfterNone ==
  ASSUME NEW S, NEW c \in Seq(S)
  PROVE  After(c, 0) = c
BY SubSeqFull DEF After

LEMMA SliceNone ==
  ASSUME NEW S, NEW c \in Seq(S), NEW at \in Nat
  PROVE  Slice(c, at, 0) = <<>>
BY SubSeqEmpty DEF Slice

LEMMA SliceJoin ==
  ASSUME NEW S, NEW c \in Seq(S), NEW at \in Nat, NEW m \in Nat, NEW n \in Nat,
         m + n > 0 => at + m + n <= Len(c)
  PROVE  Slice(c, at, m) \o Slice(c, at + m, n) = Slice(c, at, m + n)
<1> DEFINE x == Slice(c, at, m)
           y == Slice(c, at + m, n)
           z == Slice(c, at, m + n)
<1>0. at + m \in Nat /\ m + n \in Nat /\ at + (m + n) = at + m + n /\ Len(c) \in Nat
  BY LenProperties
<1>1. x \in Seq(S) /\ Len(x) = m /\ \A i \in 1..m : x[i] = c[at + i]
  <2>1. m > 0 => at + m <= Len(c)
    BY <1>0
  <2>2. QED
    BY <2>1, SliceBytes
<1>2. y \in Seq(S) /\ Len(y) = n /\ \A i \in 1..n : y[i] = c[at + m + i]
  <2>1. n > 0 => at + m + n <= Len(c)
    BY <1>0
  <2>2. QED
    BY <1>0, <2>1, SliceBytes
<1>3. z \in Seq(S) /\ Len(z) = m + n /\ \A i \in 1..(m + n) : z[i] = c[at + i]
  <2> DEFINE l == m + n
  <2>1. l \in Nat /\ (l > 0 => at + l <= Len(c))
    BY <1>0
  <2> HIDE DEF l
  <2>2. /\ Slice(c, at, l) \in Seq(S) /\ Len(Slice(c, at, l)) = l
        /\ \A i \in 1..l : Slice(c, at, l)[i] = c[at + i]
    BY <2>1, SliceBytes
  <2>3. QED
    BY <2>2 DEF l
<1> HIDE DEF x, y, z
<1>4. /\ x \o y \in Seq(S) /\ Len(x \o y) = m + n
      /\ \A i \in 1..(m + n) : (x \o y)[i] = IF i <= m THEN x[i] ELSE y[i - m]
  BY <1>1, <1>2, ConcatProperties
<1>5. \A i \in 1..(m + n) : (x \o y)[i] = z[i]
  <2> SUFFICES ASSUME NEW i \in 1..(m + n) PROVE (x \o y)[i] = z[i]
    OBVIOUS
  <2>0. z[i] = c[at + i] /\ i \in Nat
    BY <1>3
  <2>1. CASE i <= m
    <3>1. i \in 1..m
      BY <2>0, <2>1
    <3>2. x[i] = c[at + i] /\ (x \o y)[i] = x[i]
      BY <1>1, <1>4, <2>1, <3>1
    <3>3. QED
      BY <2>0, <3>2
  <2>2. CASE ~(i <= m)
    <3>1. i - m \in 1..n /\ at + m + (i - m) = at + i
      BY <2>0, <2>2
    <3>2. y[i - m] = c[at + m + (i - m)] /\ (x \o y)[i] = y[i - m]
      BY <1>2, <1>4, <2>2, <3>1
    <3>3. QED
      BY <2>0, <3>1, <3>2
  <2>3. QED
    BY <2>1, <2>2
<1>6. QED
  BY <1>3, <1>4, <1>5, SeqEqual DEF x, y, z
===============================================================================
