--------------------------- MODULE Utf8Text_proofs ---------------------------
(***************************************************************************)
(* The routines of utf8.c on whole texts: for every text and every         *)
(* character of it they count, find, turn, convert and escape characters,  *)
(* never bytes, and u8_isvalid accepts what the definition of UTF-8 does.  *)
(* Loops are recursive functions, so each is first shown to come to an end *)
(* and then computed from the text's end backwards.                        *)
(***************************************************************************)
EXTENDS Utf8Text, Utf8_proofs, FiniteSetTheorems

-------------------------------------------------------------------------------
(* Induction, over sets of numbers.                                        *)

\* What holds at 0, and of a number after the one before it, holds up to N.
LEMMA Climb ==
  ASSUME NEW N \in Nat, NEW S, 0 \in S, \A n \in 0..(N - 1) : n \in S => n + 1 \in S
  PROVE  0..N \subseteq S
<1> DEFINE Bad == {n \in 0..N : n \notin S}
<1>1. Bad = {}
  <2> SUFFICES ASSUME Bad # {} PROVE FALSE
    OBVIOUS
  <2>1. PICK m \in Bad : \A x \in Bad : m <= x
    <3>1. Bad \in SUBSET Nat
      OBVIOUS
    <3> HIDE DEF Bad
    <3> QED
      BY <3>1, LeastOf
  <2>2. m # 0 /\ m - 1 \in 0..(N - 1) /\ m - 1 \notin Bad
    BY <2>1
  <2>3. m - 1 \in S /\ (m - 1) + 1 = m
    BY <2>2
  <2> QED
    BY <2>1, <2>2, <2>3
<1> QED
  BY <1>1

\* And down from N.
LEMMA Descend ==
  ASSUME NEW N \in Nat, NEW S, N \in S, \A n \in 1..N : n \in S => n - 1 \in S
  PROVE  0..N \subseteq S
<1> DEFINE T == {d \in 0..N : N - d \in S}
<1>1. 0 \in T
  OBVIOUS
<1>2. \A d \in 0..(N - 1) : d \in T => d + 1 \in T
  <2> TAKE d \in 0..(N - 1)
  <2> HAVE d \in T
  <2>1. N - d \in 1..N /\ N - d \in S /\ N - (d + 1) = (N - d) - 1 /\ d + 1 \in 0..N
    OBVIOUS
  <2> QED
    BY <2>1
<1> HIDE DEF T
<1>3. 0..N \subseteq T
  BY <1>1, <1>2, Climb
<1>4. \A n \in 0..N : N - n \in T /\ N - (N - n) = n
  BY <1>3
<1> QED
  BY <1>4 DEF T

\* A recursive function that asks itself only where a measure is less.
Recurs(D, V, M, m, stop, base, next, rule) ==
  /\ M \in Nat /\ m \in [D -> 0..M] /\ base \in [D -> V]
  /\ \A p \in D : p \notin stop =>
       /\ next[p] \in D /\ m[next[p]] < m[p]
       /\ \A v \in V : rule[p][v] \in V

\* A function that is defined by itself at an earlier place exists, and has its type.
LEMMA Recursion ==
  ASSUME NEW D, NEW V, NEW M, NEW m, NEW stop, NEW base, NEW next, NEW rule,
         Recurs(D, V, M, m, stop, base, next, rule)
  PROVE  \E f \in [D -> V] :
           \A p \in D : f[p] = IF p \in stop THEN base[p] ELSE rule[p][f[next[p]]]
<1> USE DEF Recurs
<1> DEFINE Low(n) == {p \in D : m[p] < n}
           R(f, p) == IF p \in stop THEN base[p] ELSE rule[p][f[next[p]]]
           Good == {n \in Nat : \E f \in [Low(n) -> V] : \A p \in Low(n) : f[p] = R(f, p)}
<1>1. 0 \in Good
  <2>1. Low(0) = {}
    OBVIOUS
  <2>2. [p \in Low(0) |-> base[p]] \in [Low(0) -> V]
    BY <2>1
  <2> QED
    BY <2>1, <2>2
<1>2. \A n \in 0..M : n \in Good => n + 1 \in Good
  <2> TAKE n \in 0..M
  <2> HAVE n \in Good
  <2>1. PICK f \in [Low(n) -> V] : \A p \in Low(n) : f[p] = R(f, p)
    OBVIOUS
  <2>2. PICK g : g = [p \in Low(n + 1) |-> R(f, p)]
    OBVIOUS
  <2>3. \A p \in Low(n + 1) : p \notin stop => next[p] \in Low(n)
    OBVIOUS
  <2>4. \A p \in Low(n) : p \in Low(n + 1)
    OBVIOUS
  <2>5. \A p \in Low(n) : g[p] = f[p]
    BY <2>1, <2>2, <2>4
  <2>6. \A p \in Low(n + 1) : p \in D
    OBVIOUS
  <2> HIDE DEF Low
  <2>7. \A p \in Low(n + 1) : R(f, p) \in V
    <3> TAKE p \in Low(n + 1)
    <3>1. CASE p \in stop
      BY <2>6, <3>1
    <3>2. CASE p \notin stop
      <4>1. f[next[p]] \in V
        BY <2>3, <3>2
      <4>2. rule[p][f[next[p]]] \in V
        BY <2>6, <3>2, <4>1
      <4> QED
        BY <3>2, <4>2
    <3> QED
      BY <3>1, <3>2
  <2>8. \A p \in Low(n + 1) : g[p] = R(g, p)
    <3> TAKE p \in Low(n + 1)
    <3>1. CASE p \in stop
      BY <2>2, <3>1
    <3>2. CASE p \notin stop
      <4>1. g[next[p]] = f[next[p]]
        BY <2>3, <2>5, <3>2
      <4> QED
        BY <2>2, <3>2, <4>1
    <3> QED
      BY <3>1, <3>2
  <2>9. g \in [Low(n + 1) -> V]
    <3> HIDE DEF R
    <3> QED
      BY <2>2, <2>7
  <2> QED
    BY <2>8, <2>9
<1>3. M + 1 \in Good
  <2> HIDE DEF Good
  <2>1. 0..(M + 1) \subseteq Good
    <3>1. M + 1 \in Nat /\ (M + 1) - 1 = M
      OBVIOUS
    <3> QED
      BY <1>1, <1>2, <3>1, Climb
  <2> QED
    BY <2>1
<1>4. Low(M + 1) = D
  OBVIOUS
<1>5. PICK f \in [D -> V] : \A p \in D : f[p] = R(f, p)
  BY <1>3, <1>4
<1> QED
  BY <1>5

-------------------------------------------------------------------------------
(* Sequences that are put together.                                        *)

\* The sums of the first k members.
Joins(w, g) ==
  /\ DOMAIN g = 0..Len(w) /\ g[0] = <<>>
  /\ \A k \in 1..Len(w) : g[k] = g[k - 1] \o w[k]

\* FlattenSeq puts its parts one behind the other.
LEMMA FlattenIs ==
  ASSUME NEW V, NEW w \in Seq(Seq(V)), NEW g, Joins(w, g)
  PROVE  FlattenSeq(w) = g[Len(w)]
<1> DEFINE n == Len(w)
           F(f) == [j \in 1..n |-> IF j = 1 THEN w[j] ELSE f[j - 1] \o w[j]]
<1>1. n \in Nat /\ \A j \in 1..n : w[j] \in Seq(V)
  OBVIOUS
<1>2. CASE n = 0
  <2>1. w = <<>> /\ FlattenSeq(w) = w
    BY <1>2 DEF FlattenSeq
  <2> QED
    BY <1>2, <2>1 DEF Joins
<1>3. CASE n # 0
  <2>1. FlattenSeq(w) = (CHOOSE f : f = F(f))[n]
    BY <1>3 DEF FlattenSeq
  <2>2. PICK h : h = [j \in 1..n |-> g[j]]
    OBVIOUS
  <2> HIDE DEF n
  <2>3. h = F(h)
    <3>1. \A j \in 1..n : h[j] = IF j = 1 THEN w[j] ELSE h[j - 1] \o w[j]
      <4> TAKE j \in 1..n
      <4>1. CASE j = 1
        <5>1. g[1] = g[1 - 1] \o w[1] /\ 1 - 1 = 0 /\ w[1] \in Seq(V) /\ g[0] = <<>>
          <6>1. 1 \in 1..n
            BY <4>1
          <6>2. w[1] \in Seq(V) /\ g[0] = <<>> /\ g[1] = g[1 - 1] \o w[1]
            BY <1>1, <6>1, Zenon DEF Joins, n
          <6> QED
            BY <6>2
        <5>2. g[1] = w[1]
          BY <5>1, ConcatEmptySeq
        <5> QED
          BY <2>2, <4>1, <5>2
      <4>2. CASE j # 1
        <5>1. j - 1 \in 1..n
          BY <1>1, <4>2
        <5>2. g[j] = g[j - 1] \o w[j]
          BY DEF Joins, n
        <5> QED
          BY <2>2, <4>2, <5>1, <5>2
      <4> QED
        BY <4>1, <4>2
    <3> QED
      BY <2>2, <3>1
  <2>4. PICK f : f = F(f) /\ FlattenSeq(w) = f[n]
    <3> HIDE DEF F
    <3> QED
      BY <2>1, <2>3
  <2> DEFINE S == {k \in 0..n : k = 0 \/ f[k] = g[k]}
  <2>5. 0 \in S
    BY <1>1
  <2>6. \A k \in 0..(n - 1) : k \in S => k + 1 \in S
    <3> TAKE k \in 0..(n - 1)
    <3> HAVE k \in S
    <3>1. k + 1 \in 1..n /\ (k + 1) - 1 = k
      BY <1>1
    <3>2. f[k + 1] = IF k + 1 = 1 THEN w[k + 1] ELSE f[(k + 1) - 1] \o w[k + 1]
      BY <2>4, <3>1
    <3>3. h[k + 1] = IF k + 1 = 1 THEN w[k + 1] ELSE h[(k + 1) - 1] \o w[k + 1]
      BY <2>3, <3>1
    <3>4. k # 0 => f[k] = h[k] /\ k \in 1..n
      BY <2>2, <1>1
    <3>5. f[k + 1] = h[k + 1]
      BY <1>1, <3>1, <3>2, <3>3, <3>4
    <3> QED
      BY <2>2, <3>1, <3>5
  <2> HIDE DEF S
  <2>7. 0..n \subseteq S
    BY <1>1, <2>5, <2>6, Climb
  <2>8. n \in S
    BY <1>1, <2>7
  <2>9. f[n] = g[n]
    BY <1>3, <2>8 DEF S
  <2> QED
    BY <2>4, <2>9 DEF n
<1> QED
  BY <1>2, <1>3

LEMMA JoinsExist ==
  ASSUME NEW V, NEW w \in Seq(Seq(V))
  PROVE  \E g : Joins(w, g) /\ g \in [0..Len(w) -> Seq(V)]
<1> DEFINE n == Len(w)
           D == 0..n
           W == Seq(V)
<1>1. n \in Nat /\ \A j \in 1..n : w[j] \in W
  OBVIOUS
<1> DEFINE stop == {0}
           m == [p \in D |-> p]
           base == [p \in D |-> <<>>]
           next == [p \in D |-> p - 1]
           rule == [p \in D |-> [v \in W |-> v \o w[p]]]
<1>2. Recurs(D, W, n, m, stop, base, next, rule)
  BY <1>1 DEF Recurs
<1>6. PICK f \in [D -> W] :
        \A p \in D : f[p] = IF p \in stop THEN base[p] ELSE rule[p][f[next[p]]]
  <2> HIDE DEF n, D, W, m, stop, base, next, rule
  <2> QED
    BY <1>2, Recursion
<1>7. f[0] = <<>>
  <2>1. 0 \in D /\ base[0] = <<>>
    BY <1>1
  <2> HIDE DEF D, base, rule, next
  <2> QED
    BY <1>6, <2>1
<1>8. \A k \in 1..n : f[k] = f[k - 1] \o w[k]
  <2> TAKE k \in 1..n
  <2>1. k \in D /\ k - 1 \in D /\ k # 0
    BY <1>1
  <2>4. f[k - 1] \in W /\ next[k] = k - 1 /\ rule[k] = [v \in W |-> v \o w[k]]
    BY <2>1
  <2> HIDE DEF D, base, rule, next, W
  <2>2. f[k] = rule[k][f[next[k]]]
    BY <1>6, <2>1
  <2>3. rule[k][f[k - 1]] = f[k - 1] \o w[k]
    BY <2>4
  <2> QED
    BY <2>2, <2>3, <2>4
<1> QED
  BY <1>6, <1>7, <1>8 DEF Joins

LEMMA FlattenNil == FlattenSeq(<<>>) = <<>>
BY DEF FlattenSeq

\* So one more part is put behind all others.
LEMMA FlattenAppend ==
  ASSUME NEW V, NEW w \in Seq(Seq(V)), NEW x \in Seq(V)
  PROVE  /\ FlattenSeq(w) \in Seq(V)
         /\ FlattenSeq(Append(w, x)) = FlattenSeq(w) \o x
<1> DEFINE n == Len(w)
           wx == Append(w, x)
<1>1. PICK g : Joins(w, g) /\ g \in [0..n -> Seq(V)]
  BY JoinsExist
<1>2. n \in Nat /\ wx \in Seq(Seq(V)) /\ Len(wx) = n + 1 /\ wx[n + 1] = x
      /\ \A j \in 1..n : wx[j] = w[j]
  OBVIOUS
<1>3. FlattenSeq(w) = g[n]
  BY <1>1, FlattenIs
<1> DEFINE h == [k \in 0..(n + 1) |-> IF k = n + 1 THEN g[n] \o x ELSE g[k]]
<1> HIDE DEF n, wx
<1>4. Joins(wx, h)
  <2>1. DOMAIN h = 0..Len(wx) /\ h[0] = <<>>
    BY <1>1, <1>2 DEF Joins
  <2>2. \A k \in 1..(n + 1) : h[k] = h[k - 1] \o wx[k]
    <3> TAKE k \in 1..(n + 1)
    <3>1. h[k - 1] = g[k - 1]
      BY <1>2
    <3>2. CASE k = n + 1
      <4>1. h[k] = g[n] \o x /\ k - 1 = n /\ wx[k] = x
        BY <1>2, <3>2
      <4> QED
        BY <3>1, <4>1
    <3>3. CASE k # n + 1
      <4>1. k \in 1..n /\ h[k] = g[k]
        BY <1>2, <3>3
      <4> QED
        BY <1>1, <1>2, <3>1, <4>1 DEF Joins, n
    <3> QED
      BY <3>2, <3>3
  <2> HIDE DEF h
  <2> QED
    BY <1>2, <2>1, <2>2 DEF Joins
<1>5. FlattenSeq(wx) = h[n + 1]
  <2> HIDE DEF h
  <2> QED
    BY <1>2, <1>4, FlattenIs, Zenon
<1>6. h[n + 1] = g[n] \o x /\ g[n] \in Seq(V)
  BY <1>1, <1>2
<1> QED
  BY <1>3, <1>5, <1>6 DEF wx

-------------------------------------------------------------------------------
(* The bytes of a text.                                                    *)

Octet == 0..255

\* What is written for a character of a text.
LEMMA Written ==
  ASSUME NEW ch \in Chr
  PROVE  /\ Encodable(ch)
         /\ u8_wc_toutf8(ch) \in Seq(Octet) /\ u8_charlen(ch) \in 1..4
         /\ Len(u8_wc_toutf8(ch)) = u8_charlen(ch)
         /\ isutf(u8_wc_toutf8(ch)[1]) /\ u8_wc_toutf8(ch)[1] # 0
         /\ \A k \in 2..Len(u8_wc_toutf8(ch)) : ~isutf(u8_wc_toutf8(ch)[k])
<1>0. ch \in Nat /\ ch < 1114112 /\ Encodable(ch)
  BY SMT DEF Chr, Encodable
<1>1. CASE ch < 128
  <2>1. u8_charlen(ch) = 1 /\ u8_wc_toutf8(ch) = <<ch>>
    BY <1>0, <1>1, One, SMT
  <2>2. ch \in Octet /\ ch # 0 /\ isutf(ch)
    BY <1>0, <1>1, SMT DEF Chr, Octet, isutf
  <2> QED
    BY <1>0, <2>1, <2>2, SMT
<1>2. CASE 128 <= ch /\ ch < 2048
  <2>1. /\ u8_charlen(ch) = 2 /\ ch \div 64 \in 2..31
        /\ u8_wc_toutf8(ch) = <<192 + (ch \div 64), Behind(ch)>>
    BY <1>0, <1>2, Two, SMT
  <2>2. Behind(ch) \in 128..191 /\ ~isutf(Behind(ch))
    BY <1>0, BehindKeeps, SMT
  <2>3. 192 + (ch \div 64) \in Octet /\ 192 + (ch \div 64) # 0 /\ isutf(192 + (ch \div 64))
    BY <2>1, SMT DEF Octet, isutf
  <2>4. Behind(ch) \in Octet
    BY <2>2, SMT DEF Octet
  <2> QED
    BY <1>0, <2>1, <2>2, <2>3, <2>4, SMT
<1>3. CASE 2048 <= ch /\ ch < 65536
  <2>1. /\ u8_charlen(ch) = 3 /\ ch \div 4096 \in 0..15 /\ ch \div 64 \in Nat
        /\ u8_wc_toutf8(ch) = <<224 + (ch \div 4096), Behind(ch \div 64), Behind(ch)>>
    <3>1. ch \div 4096 \in 0..15 /\ ch \div 64 \in Nat
      BY <1>0, <1>3, SMT
    <3> QED
      BY <1>0, <1>3, <3>1, Three, SMT
  <2>2. /\ Behind(ch) \in 128..191 /\ ~isutf(Behind(ch))
        /\ Behind(ch \div 64) \in 128..191 /\ ~isutf(Behind(ch \div 64))
    BY <1>0, <2>1, BehindKeeps, SMT
  <2>3. 224 + (ch \div 4096) \in Octet /\ 224 + (ch \div 4096) # 0 /\ isutf(224 + (ch \div 4096))
    BY <2>1, SMT DEF Octet, isutf
  <2>4. Behind(ch) \in Octet /\ Behind(ch \div 64) \in Octet
    BY <2>2, SMT DEF Octet
  <2> QED
    BY <1>0, <2>1, <2>2, <2>3, <2>4, SMT
<1>4. CASE 65536 <= ch
  <2>1. /\ u8_charlen(ch) = 4 /\ ch \div 262144 \in 0..4 /\ ch \div 64 \in Nat /\ ch \div 4096 \in Nat
        /\ u8_wc_toutf8(ch) = <<240 + (ch \div 262144), Behind(ch \div 4096),
                                Behind(ch \div 64), Behind(ch)>>
    <3>1. ch \div 262144 \in 0..4 /\ ch \div 64 \in Nat /\ ch \div 4096 \in Nat
      BY <1>0, <1>4, SMT
    <3> QED
      BY <1>0, <1>4, <3>1, Four, SMT
  <2>2. /\ Behind(ch) \in 128..191 /\ ~isutf(Behind(ch))
        /\ Behind(ch \div 64) \in 128..191 /\ ~isutf(Behind(ch \div 64))
        /\ Behind(ch \div 4096) \in 128..191 /\ ~isutf(Behind(ch \div 4096))
    BY <1>0, <2>1, BehindKeeps, SMT
  <2>3. 240 + (ch \div 262144) \in Octet /\ 240 + (ch \div 262144) # 0
        /\ isutf(240 + (ch \div 262144))
    BY <2>1, SMT DEF Octet, isutf
  <2>4. Behind(ch) \in Octet /\ Behind(ch \div 64) \in Octet /\ Behind(ch \div 4096) \in Octet
    BY <2>2, SMT DEF Octet
  <2>5. PICK a, b, c, d : /\ a = 240 + (ch \div 262144) /\ b = Behind(ch \div 4096)
                          /\ c = Behind(ch \div 64) /\ d = Behind(ch)
    OBVIOUS
  <2>6. u8_wc_toutf8(ch) = <<a, b, c, d>> /\ {a, b, c, d} \subseteq Octet
    BY <2>1, <2>3, <2>4, <2>5, SMT
  <2>7. isutf(a) /\ a # 0 /\ ~isutf(b) /\ ~isutf(c) /\ ~isutf(d)
    BY <2>2, <2>3, <2>5, SMT
  <2> QED
    BY <1>0, <2>1, <2>6, <2>7, SMT
<1> QED
  BY <1>0, <1>1, <1>2, <1>3, <1>4, SMT

LEMMA EncodedNil == Encoded(<<>>) = <<>>
<1>1. Len(<<>>) = 0
  OBVIOUS
<1>2. [k \in 1..Len(<<>>) |-> u8_wc_toutf8(<<>>[k])] = <<>>
  OBVIOUS
<1> QED
  BY <1>2, FlattenNil DEF Encoded

\* A text with one more character has its bytes at the end.
LEMMA EncodedAppend ==
  ASSUME NEW t \in Seq(Chr), NEW ch \in Chr
  PROVE  /\ Encoded(t) \in Seq(Octet)
         /\ Encoded(Append(t, ch)) = Encoded(t) \o u8_wc_toutf8(ch)
<1> DEFINE n == Len(t)
           u == Append(t, ch)
           w == [k \in 1..n |-> u8_wc_toutf8(t[k])]
           wx == [k \in 1..Len(u) |-> u8_wc_toutf8(u[k])]
<1>1. n \in Nat /\ \A k \in 1..n : t[k] \in Chr
  OBVIOUS
<1>2. \A c \in Chr : u8_wc_toutf8(c) \in Seq(Octet)
  BY Written
<1>3. w \in Seq(Seq(Octet)) /\ Len(w) = n
  BY <1>1, <1>2
<1>4. Len(u) = n + 1 /\ u[n + 1] = ch /\ \A k \in 1..n : u[k] = t[k]
  OBVIOUS
<1>5. wx = Append(w, u8_wc_toutf8(ch))
  <2> HIDE DEF n, u
  <2>1. \A k \in 1..(n + 1) : wx[k] = Append(w, u8_wc_toutf8(ch))[k]
    BY <1>1, <1>4
  <2> QED
    BY <1>1, <1>3, <1>4, <2>1
<1> QED
  BY <1>2, <1>3, <1>5, FlattenAppend DEF Encoded

LEMMA EncodedOne ==
  ASSUME NEW ch \in Chr
  PROVE  Encoded(<<ch>>) = u8_wc_toutf8(ch)
<1>1. <<>> \in Seq(Chr) /\ <<ch>> = Append(<<>>, ch)
  OBVIOUS
<1>2. Encoded(<<ch>>) = <<>> \o u8_wc_toutf8(ch)
  BY <1>1, EncodedNil, EncodedAppend
<1> QED
  BY <1>2, Written, ConcatEmptySeq

\* Texts that are joined are joined in bytes.
LEMMA EncodedConcat ==
  ASSUME NEW a \in Seq(Chr), NEW b \in Seq(Chr)
  PROVE  Encoded(a \o b) = Encoded(a) \o Encoded(b)
<1> DEFINE N == Len(b)
           c(n) == SubSeq(b, 1, n)
           S == {n \in 0..N : Encoded(a \o c(n)) = Encoded(a) \o Encoded(c(n))}
<1>1. N \in Nat /\ \A k \in 1..N : b[k] \in Chr
  OBVIOUS
<1>2. Encoded(a) \in Seq(Octet)
  <2>1. 1 \in Chr
    BY SMT DEF Chr
  <2> QED
    BY <2>1, EncodedAppend
<1>3. 0 \in S
  <2>1. c(0) = <<>> /\ a \o <<>> = a
    OBVIOUS
  <2>2. Encoded(c(0)) = <<>> /\ Encoded(a) \o <<>> = Encoded(a)
    BY <1>2, <2>1, EncodedNil, ConcatEmptySeq
  <2>3. Encoded(a \o c(0)) = Encoded(a) \o Encoded(c(0))
    BY <2>1, <2>2, Zenon
  <2>4. 0 \in 0..N
    BY <1>1
  <2> HIDE DEF c, N
  <2> QED
    BY <2>3, <2>4
<1>4. \A n \in 0..(N - 1) : n \in S => n + 1 \in S
  <2> TAKE n \in 0..(N - 1)
  <2> HAVE n \in S
  <2>1. n + 1 \in 1..N /\ b[n + 1] \in Chr
    BY <1>1
  <2>2. c(n) \in Seq(Chr) /\ c(n + 1) = Append(c(n), b[n + 1])
    BY <1>1, <2>1
  <2>3. a \o c(n + 1) = Append(a \o c(n), b[n + 1]) /\ a \o c(n) \in Seq(Chr)
    <3>1. PICK e, x : e = c(n) /\ x = b[n + 1] /\ e \in Seq(Chr) /\ x \in Chr
      BY <2>1, <2>2
    <3>2. a \o Append(e, x) = Append(a \o e, x) /\ a \o e \in Seq(Chr)
      BY <3>1
    <3> QED
      BY <2>2, <3>1, <3>2
  <2> HIDE DEF c, N
  <2>4. Encoded(a \o c(n + 1)) = Encoded(a \o c(n)) \o u8_wc_toutf8(b[n + 1])
    BY <2>1, <2>3, EncodedAppend
  <2>5. Encoded(c(n + 1)) = Encoded(c(n)) \o u8_wc_toutf8(b[n + 1]) /\ Encoded(c(n)) \in Seq(Octet)
    BY <2>1, <2>2, EncodedAppend
  <2>6. u8_wc_toutf8(b[n + 1]) \in Seq(Octet)
    BY <2>1, Written
  <2>7. (Encoded(a) \o Encoded(c(n))) \o u8_wc_toutf8(b[n + 1])
           = Encoded(a) \o (Encoded(c(n)) \o u8_wc_toutf8(b[n + 1]))
    BY <1>2, <2>5, <2>6
  <2>8. Encoded(a \o c(n)) = Encoded(a) \o Encoded(c(n)) /\ n + 1 \in 0..N
    BY <1>1, <2>1
  <2> QED
    BY <2>4, <2>5, <2>7, <2>8
<1>5. c(N) = b
  OBVIOUS
<1> HIDE DEF S, N, c
<1>6. N \in S
  <2>1. 0..N \subseteq S
    BY <1>1, <1>3, <1>4, Climb
  <2> QED
    BY <1>1, <2>1
<1> QED
  BY <1>5, <1>6 DEF S

-------------------------------------------------------------------------------
(* A text in memory, and where its characters end.                         *)

\* Where the k-th character of a text ends.
Bound(t, k) == Len(Encoded(SubSeq(t, 1, k)))

\* A text in memory.
Stored(t) == Encoded(t) \o <<0>>

\* The bytes of a text.
LEMMA EncodedBytes ==
  ASSUME NEW t \in Seq(Chr)
  PROVE  Encoded(t) \in Seq(Octet) /\ Len(Encoded(t)) \in Nat
<1>1. 1 \in Chr
  BY SMT DEF Chr
<1> QED
  BY <1>1, EncodedAppend, LenProperties

\* A text is what comes up to its k-th character and what comes behind.
LEMMA Parted ==
  ASSUME NEW t \in Seq(Chr), NEW k \in 0..Len(t)
  PROVE  /\ SubSeq(t, 1, k) \in Seq(Chr) /\ SubSeq(t, k + 1, Len(t)) \in Seq(Chr)
         /\ Len(SubSeq(t, 1, k)) = k /\ Len(SubSeq(t, k + 1, Len(t))) = Len(t) - k
         /\ Encoded(t) = Encoded(SubSeq(t, 1, k)) \o Encoded(SubSeq(t, k + 1, Len(t)))
         /\ Bound(t, k) \in Nat
<1>1. PICK a, b : a = SubSeq(t, 1, k) /\ b = SubSeq(t, k + 1, Len(t))
  OBVIOUS
<1>2. a \in Seq(Chr) /\ b \in Seq(Chr) /\ Len(a) = k /\ Len(b) = Len(t) - k
  BY <1>1
<1>3. t = a \o b
  <2>1. k \in Nat /\ Len(t) \in Nat /\ k <= Len(t) /\ t \in Seq(Chr)
    OBVIOUS
  <2>2. Len(a \o b) = Len(t) /\ a \o b \in Seq(Chr)
    BY <1>2, <2>1
  <2>3. \A j \in 1..Len(t) : (a \o b)[j] = t[j]
    <3> TAKE j \in 1..Len(t)
    <3>1. CASE j <= k
      <4>1. (a \o b)[j] = a[j] /\ j \in 1..k
        BY <1>2, <2>1, <3>1
      <4>2. a[j] = t[j]
        BY <1>1, <2>1, <4>1
      <4> QED
        BY <4>1, <4>2
    <3>2. CASE ~(j <= k)
      <4>1. (a \o b)[j] = b[j - k] /\ j - k \in 1..(Len(t) - k)
        BY <1>2, <2>1, <3>2
      <4>2. b[j - k] = t[(k + 1) + (j - k) - 1]
        BY <1>1, <2>1, <4>1
      <4> QED
        BY <2>1, <4>1, <4>2
    <3> QED
      BY <3>1, <3>2
  <2> QED
    BY <2>1, <2>2, <2>3, SeqEqual
<1>4. Encoded(t) = Encoded(a) \o Encoded(b)
  BY <1>2, <1>3, EncodedConcat
<1> QED
  BY <1>1, <1>2, <1>4, EncodedBytes DEF Bound

\* From one boundary to the next there is one character.
LEMMA Bounds ==
  ASSUME NEW t \in Seq(Chr)
  PROVE  /\ Bound(t, 0) = 0 /\ Bound(t, Len(t)) = Len(Encoded(t))
         /\ \A k \in 1..Len(t) :
              /\ k \in 0..Len(t) /\ k - 1 \in 0..Len(t) /\ t[k] \in Chr
              /\ Bound(t, k) \in Nat /\ Bound(t, k - 1) \in Nat
              /\ Bound(t, k) = Bound(t, k - 1) + u8_charlen(t[k])
              /\ Encoded(SubSeq(t, 1, k)) = Encoded(SubSeq(t, 1, k - 1)) \o u8_wc_toutf8(t[k])
<1>1. SubSeq(t, 1, 0) = <<>> /\ SubSeq(t, 1, Len(t)) = t
  OBVIOUS
<1>2. Bound(t, 0) = 0 /\ Bound(t, Len(t)) = Len(Encoded(t))
  <2>1. Len(<<>>) = 0
    OBVIOUS
  <2>2. Bound(t, 0) = Len(Encoded(<<>>))
    BY <1>1, Zenon DEF Bound
  <2> QED
    BY <1>1, <2>1, <2>2, EncodedNil, Zenon DEF Bound
<1>3. ASSUME NEW k \in 1..Len(t)
      PROVE  /\ k \in 0..Len(t) /\ k - 1 \in 0..Len(t) /\ t[k] \in Chr
             /\ Bound(t, k) \in Nat /\ Bound(t, k - 1) \in Nat
             /\ Bound(t, k) = Bound(t, k - 1) + u8_charlen(t[k])
             /\ Encoded(SubSeq(t, 1, k)) = Encoded(SubSeq(t, 1, k - 1)) \o u8_wc_toutf8(t[k])
  <2>1. k \in 0..Len(t) /\ k - 1 \in 0..Len(t) /\ t[k] \in Chr
    OBVIOUS
  <2>2. PICK e, ch : e = SubSeq(t, 1, k - 1) /\ ch = t[k]
    OBVIOUS
  <2>3. e \in Seq(Chr) /\ ch \in Chr /\ SubSeq(t, 1, k) = Append(e, ch)
    BY <2>1, <2>2
  <2>4. Encoded(SubSeq(t, 1, k)) = Encoded(e) \o u8_wc_toutf8(ch)
    BY <2>3, EncodedAppend
  <2>5. u8_wc_toutf8(ch) \in Seq(Octet) /\ Len(u8_wc_toutf8(ch)) = u8_charlen(ch)
        /\ Encoded(e) \in Seq(Octet)
    BY <2>3, Written, EncodedBytes
  <2>6. Len(Encoded(e) \o u8_wc_toutf8(ch)) = Len(Encoded(e)) + u8_charlen(ch)
    BY <2>5, ConcatProperties
  <2>7. Bound(t, k) = Bound(t, k - 1) + u8_charlen(t[k])
    BY <2>2, <2>4, <2>6 DEF Bound
  <2>8. Bound(t, k) \in Nat /\ Bound(t, k - 1) \in Nat
    BY <2>1, Parted
  <2> QED
    BY <2>1, <2>2, <2>4, <2>7, <2>8
<1> QED
  BY <1>2, <1>3

\* A text that is not empty starts with a first byte.
LEMMA StartsWell ==
  ASSUME NEW t \in Seq(Chr), t # <<>>
  PROVE  Encoded(t) # <<>> /\ isutf(Encoded(t)[1]) /\ Encoded(t)[1] # 0
<1>1. 1 \in 1..Len(t) /\ t[1] \in Chr /\ 1 - 1 = 0 /\ 1 \in 0..Len(t)
  OBVIOUS
<1>2. PICK a, b, w : /\ a = Encoded(SubSeq(t, 1, 1)) /\ b = Encoded(SubSeq(t, 1 + 1, Len(t)))
                     /\ w = u8_wc_toutf8(t[1])
  OBVIOUS
<1>3. a \in Seq(Octet) /\ b \in Seq(Octet) /\ Encoded(t) = a \o b
  BY <1>1, <1>2, Parted, EncodedBytes
<1>4. Encoded(SubSeq(t, 1, 1 - 1)) = <<>>
  <2>1. SubSeq(t, 1, 1 - 1) = <<>>
    OBVIOUS
  <2> QED
    BY <2>1, EncodedNil, Zenon
<1>5. a = w
  <2>1. a = Encoded(SubSeq(t, 1, 1 - 1)) \o w
    BY <1>1, <1>2, Bounds
  <2> QED
    BY <1>1, <1>2, <1>4, <2>1, Written, ConcatEmptySeq
<1>6. w \in Seq(Octet) /\ Len(w) \in 1..4 /\ isutf(w[1]) /\ w[1] # 0
  BY <1>1, <1>2, Written
<1>7. Len(a \o b) >= 1 /\ (a \o b)[1] = w[1]
  BY <1>3, <1>5, <1>6
<1> QED
  BY <1>3, <1>6, <1>7

\* The bytes of a text in memory.
LEMMA StoredBytes ==
  ASSUME NEW t \in Seq(Chr)
  PROVE  /\ Stored(t) \in Seq(Octet) /\ Len(Stored(t)) = Bound(t, Len(t)) + 1
         /\ At(Stored(t), Bound(t, Len(t))) = 0
         /\ SubSeq(Stored(t), 1, Len(Stored(t)) - 1) = Encoded(t)
         /\ \A p \in 1..Len(Encoded(t)) : Stored(t)[p] = Encoded(t)[p]
<1>1. PICK e : e = Encoded(t)
  OBVIOUS
<1>2. e \in Seq(Octet) /\ Len(e) \in Nat /\ Bound(t, Len(t)) = Len(e)
  BY <1>1, EncodedBytes, Bounds
<1>3. <<0>> \in Seq(Octet) /\ Len(<<0>>) = 1
  BY DEF Octet
<1>4. e \o <<0>> \in Seq(Octet) /\ Len(e \o <<0>>) = Len(e) + 1
      /\ (e \o <<0>>)[Len(e) + 1] = 0 /\ \A p \in 1..Len(e) : (e \o <<0>>)[p] = e[p]
  BY <1>2, <1>3
<1>5. SubSeq(e \o <<0>>, 1, (Len(e) + 1) - 1) = e
  BY <1>2, <1>3
<1> QED
  BY <1>1, <1>2, <1>4, <1>5 DEF Stored, At

\* Each of its characters lies where the one before it ended.
LEMMA HeldAt ==
  ASSUME NEW t \in Seq(Chr), NEW k \in 1..Len(t)
  PROVE  Holds(Stored(t), Bound(t, k - 1), t[k])
<1>1. /\ k \in 0..Len(t) /\ t[k] \in Chr /\ k - 1 \in 0..Len(t)
      /\ Encoded(SubSeq(t, 1, k)) = Encoded(SubSeq(t, 1, k - 1)) \o u8_wc_toutf8(t[k])
  BY Bounds
<1>2. PICK a, w, r : /\ a = Encoded(SubSeq(t, 1, k - 1)) /\ w = u8_wc_toutf8(t[k])
                     /\ r = Encoded(SubSeq(t, k + 1, Len(t)))
  OBVIOUS
<1>3. Encoded(t) = (a \o w) \o r
  BY <1>1, <1>2, Parted
<1>4. a \in Seq(Octet) /\ w \in Seq(Octet) /\ r \in Seq(Octet)
  BY <1>1, <1>2, Parted, EncodedBytes, Written
<1>5. r # <<>> => isutf(r[1])
  <2>1. SubSeq(t, k + 1, Len(t)) \in Seq(Chr)
    BY <1>1, Parted
  <2> QED
    BY <1>2, <2>1, StartsWell, EncodedNil
<1>6. PICK x : x = r \o <<0>>
  OBVIOUS
<1>7. x \in Seq(Octet) /\ Len(x) >= 1 /\ isutf(x[1])
  <2>1. <<0>> \in Seq(Octet) /\ isutf(0)
    BY DEF Octet, isutf
  <2>2. CASE r = <<>>
    BY <1>6, <2>1, <2>2
  <2>3. CASE r # <<>>
    BY <1>4, <1>5, <1>6, <2>1, <2>3
  <2> QED
    BY <2>2, <2>3
<1>8. Stored(t) = (a \o w) \o x
  <2>1. <<0>> \in Seq(Octet) /\ a \o w \in Seq(Octet)
    BY <1>4 DEF Octet
  <2> QED
    <3>1. ((a \o w) \o r) \o <<0>> = (a \o w) \o (r \o <<0>>)
      BY <1>4, <2>1
    <3> QED
      BY <1>3, <1>6, <3>1, Zenon DEF Stored
<1>9. PICK s : s = (a \o w) \o x
  OBVIOUS
<1>10. /\ Len(s) = Len(a) + Len(w) + Len(x) /\ Len(a) \in Nat /\ Len(w) \in Nat /\ Len(x) \in Nat
       /\ \A j \in 1..Len(w) : s[Len(a) + j] = w[j]
       /\ s[Len(a) + Len(w) + 1] = x[1]
  BY <1>4, <1>7, <1>9
<1>11. Bound(t, k - 1) = Len(a)
  BY <1>2 DEF Bound
<1>12. \A j \in 0..(Len(w) - 1) : s[Len(a) + j + 1] = w[j + 1]
  <2> TAKE j \in 0..(Len(w) - 1)
  <2>1. j + 1 \in 1..Len(w) /\ Len(a) + j + 1 = Len(a) + (j + 1)
    BY <1>10
  <2> QED
    BY <1>10, <2>1
<1>13. Len(a) + Len(w) < Len(s)
  BY <1>7, <1>10
<1>14. \A j \in 0..(Len(w) - 1) : At(s, Len(a) + j) = w[j + 1]
  BY <1>12 DEF At
<1>15. isutf(At(s, Len(a) + Len(w)))
  BY <1>7, <1>10 DEF At
<1>16. Holds(s, Len(a), t[k])
  BY <1>2, <1>13, <1>14, <1>15 DEF Holds
<1> QED
  BY <1>8, <1>9, <1>11, <1>16

\* From each character to the next, and back.
LEMMA Walk ==
  ASSUME NEW t \in Seq(Chr), NEW k \in 1..Len(t), NEW s, s = Stored(t),
         NEW p, p = Bound(t, k - 1), NEW q, q = Bound(t, k)
  PROVE  /\ s \in Seq(Octet) /\ p \in Nat /\ q \in Nat /\ q - p \in 1..4 /\ q < Len(s)
         /\ q - p = u8_charlen(t[k]) /\ t[k] \in Chr
         /\ At(s, p) \in Octet /\ isutf(At(s, p)) /\ At(s, p) # 0 /\ isutf(At(s, q))
         /\ u8_inc(s, p) = q /\ Over(s, p) = q /\ u8_dec(s, q) = p
         /\ u8_nextmemchar(s, p) = Read(t[k], q)
         /\ trailingBytesForUTF8(At(s, p)) = q - p - 1
         /\ Decoded(s, p, q - p - 1) = t[k]
         /\ \A x \in (p + 1)..(q - 1) : ~isutf(At(s, x))
<1>1. /\ t[k] \in Chr /\ p \in Nat /\ q \in Nat /\ q = p + u8_charlen(t[k])
      /\ k - 1 \in 0..Len(t)
  BY Bounds
<1>2. PICK n : n = u8_charlen(t[k])
  OBVIOUS
<1>3. Encodable(t[k]) /\ n \in 1..4 /\ Len(u8_wc_toutf8(t[k])) = n
  BY <1>1, <1>2, Written
<1>4. Holds(s, p, t[k])
  BY HeldAt
<1>5. s \in Seq(Octet) /\ s \in Seq(0..255)
  BY StoredBytes DEF Octet
<1>6. /\ p + n < Len(s) /\ isutf(At(s, p)) /\ isutf(At(s, p + n))
      /\ \A x \in 1..(n - 1) : ~isutf(At(s, p + x))
      /\ u8_seqlen(At(s, p)) = n /\ Decoded(s, p, n - 1) = t[k]
  <2>1. PICK ch : ch = t[k]
    OBVIOUS
  <2>2. Encodable(ch) /\ Holds(s, p, ch) /\ n = u8_charlen(ch) /\ p \in Nat
    BY <1>1, <1>2, <1>3, <1>4, <2>1
  <2>3. /\ isutf(At(s, p)) /\ u8_seqlen(At(s, p)) = u8_charlen(ch)
        /\ \A x \in 1..(u8_charlen(ch) - 1) : ~isutf(At(s, p + x))
        /\ isutf(At(s, p + u8_charlen(ch))) /\ p + u8_charlen(ch) < Len(s)
        /\ Decoded(s, p, u8_charlen(ch) - 1) = ch
    BY ONLY <2>2, HeldBytes
  <2> QED
    BY <2>1, <2>2, <2>3
<1>7. u8_inc(s, p) = p + n /\ u8_dec(s, p + n) = p /\ Over(s, p) = p + n
  BY <1>1, <1>2, <1>3, <1>4, <1>5, PassesOver
<1>8. u8_nextmemchar(s, p) = Read(t[k], p + n)
  BY <1>1, <1>2, <1>3, <1>4, <1>5, ReadsBack
<1>9. At(s, p) = u8_wc_toutf8(t[k])[1]
  <2>1. 0 \in 0..(n - 1) /\ p + 0 = p /\ 0 + 1 = 1
    BY <1>1, <1>3
  <2> QED
    BY <1>3, <1>4, <2>1 DEF Holds
<1>10. At(s, p) # 0
  BY <1>1, <1>9, Written
<1>11. At(s, p) \in Octet
  <2>1. p + 1 \in 1..Len(s)
    BY <1>1, <1>3, <1>5, <1>6
  <2> QED
    BY <1>5, <2>1, ElementOfSeq DEF At
<1>12. q = p + n /\ q - p = n /\ q - p - 1 = n - 1
  BY <1>1, <1>2, <1>3
<1>13. trailingBytesForUTF8(At(s, p)) = n - 1
  <2>1. trailingBytesForUTF8(At(s, p)) \in Nat
    BY <1>11, SMT DEF trailingBytesForUTF8, Octet
  <2> QED
    BY <1>3, <1>6, <2>1 DEF u8_seqlen
<1>14. \A x \in (p + 1)..(q - 1) : ~isutf(At(s, x))
  <2> TAKE x \in (p + 1)..(q - 1)
  <2>1. x - p \in 1..(n - 1) /\ p + (x - p) = x
    <3>1. p \in Nat /\ n \in Nat /\ q = p + n /\ x \in Int /\ p + 1 <= x /\ x <= q - 1
      BY <1>1, <1>3, <1>12
    <3> QED
      BY ONLY <3>1
  <2> QED
    BY <1>6, <2>1
<1> QED
  BY <1>1, <1>2, <1>3, <1>5, <1>6, <1>7, <1>8, <1>10, <1>11, <1>12, <1>13, <1>14

\* Later characters lie behind earlier ones.
LEMMA Rising ==
  ASSUME NEW t \in Seq(Chr), NEW j \in 0..Len(t), NEW k \in 0..Len(t), j <= k
  PROVE  Bound(t, j) + (k - j) <= Bound(t, k)
<1> DEFINE N == Len(t) - j
           S == {d \in 0..N : Bound(t, j) + d <= Bound(t, j + d)}
<1>0. Len(t) \in Nat /\ N \in Nat /\ Bound(t, j) \in Nat
  BY Parted
<1>1. 0 \in S
  BY <1>0
<1>2. \A d \in 0..(N - 1) : d \in S => d + 1 \in S
  <2> TAKE d \in 0..(N - 1)
  <2> HAVE d \in S
  <2>1. j + (d + 1) \in 1..Len(t) /\ (j + (d + 1)) - 1 = j + d
    BY <1>0
  <2>2. /\ Bound(t, j + (d + 1)) = Bound(t, j + d) + u8_charlen(t[j + (d + 1)])
        /\ t[j + (d + 1)] \in Chr /\ Bound(t, j + d) \in Nat
    BY <2>1, Bounds
  <2>3. u8_charlen(t[j + (d + 1)]) \in 1..4
    BY <2>2, Written
  <2>4. Bound(t, j) + d <= Bound(t, j + d) /\ d + 1 \in 0..N
    BY <1>0
  <2>5. Bound(t, j) + (d + 1) <= Bound(t, j + (d + 1))
    BY <1>0, <2>2, <2>3, <2>4
  <2> QED
    BY <2>4, <2>5
<1> HIDE DEF S
<1>3. 0..N \subseteq S
  BY <1>0, <1>1, <1>2, Climb
<1>4. k - j \in 0..N /\ j + (k - j) = k
  BY <1>0
<1>5. k - j \in S
  BY <1>3, <1>4
<1> QED
  BY <1>4, <1>5 DEF S

\* Where a first byte lies, a character starts, or the text ends.
LEMMA FirstsAre ==
  ASSUME NEW t \in Seq(Chr), NEW p \in 0..Bound(t, Len(t)), isutf(At(Stored(t), p))
  PROVE  \E k \in 0..Len(t) : p = Bound(t, k)
<1> DEFINE S == {n \in 0..Len(t) : p > Bound(t, n)}
<1>0. Len(t) \in Nat /\ Bound(t, Len(t)) \in Nat
  <2>1. Len(t) \in 0..Len(t)
    OBVIOUS
  <2> QED
    BY <2>1, Parted
<1> SUFFICES ASSUME ~ \E k \in 0..Len(t) : p = Bound(t, k)
             PROVE  FALSE
  OBVIOUS
<1>1. 0 \in S
  <2>1. Bound(t, 0) = 0 /\ 0 \in 0..Len(t)
    BY <1>0, Bounds
  <2> QED
    BY <1>0, <2>1
<1>2. \A n \in 0..(Len(t) - 1) : n \in S => n + 1 \in S
  <2> TAKE n \in 0..(Len(t) - 1)
  <2> HAVE n \in S
  <2>1. n + 1 \in 1..Len(t) /\ (n + 1) - 1 = n /\ n + 1 \in 0..Len(t)
    BY <1>0
  <2>2. /\ Bound(t, n) \in Nat /\ Bound(t, n + 1) \in Nat
        /\ \A x \in (Bound(t, n) + 1)..(Bound(t, n + 1) - 1) : ~isutf(At(Stored(t), x))
    BY <2>1, Walk
  <2>3. p # Bound(t, n + 1) /\ p \notin (Bound(t, n) + 1)..(Bound(t, n + 1) - 1)
    BY <2>1, <2>2
  <2>4. p > Bound(t, n + 1)
    BY <1>0, <2>2, <2>3
  <2> QED
    BY <2>1, <2>4
<1> HIDE DEF S
<1>3. Len(t) \in S
  <2>1. 0..Len(t) \subseteq S
    BY <1>0, <1>1, <1>2, Climb
  <2> QED
    BY <1>0, <2>1
<1> QED
  BY <1>0, <1>3 DEF S

-------------------------------------------------------------------------------
(* Counting.                                                               *)

\* A search for a start moves on, by four bytes at most.
LEMMA StartWithin ==
  ASSUME NEW s, NEW p \in Nat, NEW least \in 1..2
  PROVE  Start(s, p, least, 4) \in (p + least)..(p + 4)
<1> DEFINE K == {k \in least..4 : k = 4 \/ p + k >= Len(s) \/ isutf(At(s, p + k))}
<1>1. 4 \in K /\ K \in SUBSET Nat
  OBVIOUS
<1>2. PICK m : m = Min(K)
  OBVIOUS
<1>3. m \in K
  BY <1>1, <1>2, LeastOf
<1>4. Start(s, p, least, 4) = p + m /\ m \in least..4
  BY <1>2, <1>3 DEF Start
<1> QED
  BY <1>4

\* Over moves on, whatever lies there.
LEMMA OverMoves ==
  ASSUME NEW s, NEW p \in Nat
  PROVE  Over(s, p) \in Nat /\ Over(s, p) > p
<1>1. Start(s, p, 2, 4) \in (p + 2)..(p + 4)
  BY StartWithin
<1> QED
  BY <1>1 DEF Over

\* A recursive function that goes on to later positions, up to M.
Forward(V, M, stop, base, next, rule) ==
  /\ M \in Nat /\ base \in [Nat -> V]
  /\ \A p \in Nat : p \notin stop =>
       /\ p < M /\ next[p] \in Nat /\ next[p] > p
       /\ \A v \in V : rule[p][v] \in V

\* A function of positions that is defined by itself at later ones exists.
LEMMA ForwardExists ==
  ASSUME NEW V, NEW M, NEW stop, NEW base, NEW next, NEW rule,
         Forward(V, M, stop, base, next, rule)
  PROVE  \E f \in [Nat -> V] :
           \A p \in Nat : f[p] = IF p \in stop THEN base[p] ELSE rule[p][f[next[p]]]
<1> DEFINE m == [p \in Nat |-> IF p >= M THEN 0 ELSE M - p]
<1>1. m \in [Nat -> 0..M]
  BY DEF Forward
<1>2. ASSUME NEW p \in Nat, p \notin stop
      PROVE  next[p] \in Nat /\ m[next[p]] < m[p]
  BY <1>2 DEF Forward
<1> HIDE DEF m
<1>3. Recurs(Nat, V, M, m, stop, base, next, rule)
  BY <1>1, <1>2 DEF Recurs, Forward
<1> QED
  BY <1>3, Recursion

\* The loops that count characters, up to M.
Counting(s, stop, f) ==
  f = [p \in Nat |-> IF p \in stop THEN 0 ELSE 1 + f[Over(s, p)]]

\* A loop that counts and moves on over characters is such a function.
LEMMA CountingExists ==
  ASSUME NEW s, NEW M \in Nat, NEW stop, \A p \in Nat : p >= M => p \in stop
  PROVE  \E f \in [Nat -> Nat] : Counting(s, stop, f)
<1> DEFINE base == [p \in Nat |-> 0]
           next == [p \in Nat |-> Over(s, p)]
           rule == [p \in Nat |-> [v \in Nat |-> 1 + v]]
<1>1. Forward(Nat, M, stop, base, next, rule)
  BY OverMoves DEF Forward
<1>2. PICK f \in [Nat -> Nat] :
        \A p \in Nat : f[p] = IF p \in stop THEN base[p] ELSE rule[p][f[next[p]]]
  <2> HIDE DEF base, next, rule
  <2> QED
    BY <1>1, ForwardExists
<1>3. ASSUME NEW p \in Nat
      PROVE  f[p] = IF p \in stop THEN 0 ELSE 1 + f[Over(s, p)]
  <2>1. Over(s, p) \in Nat
    BY OverMoves
  <2> QED
    BY <1>2, <2>1
<1>4. f = [p \in Nat |-> IF p \in stop THEN 0 ELSE 1 + f[Over(s, p)]]
  BY <1>3
<1> QED
  BY <1>4 DEF Counting

\* Such a loop over a text that stops at its k-th character, and at none before,
\* counts k.
LEMMA CountingIs ==
  ASSUME NEW t \in Seq(Chr), NEW k \in 0..Len(t), NEW stop, NEW f,
         Counting(Stored(t), stop, f),
         Bound(t, k) \in stop, \A j \in 0..(k - 1) : Bound(t, j) \notin stop
  PROVE  f[0] = k
<1> DEFINE S == {j \in 0..k : f[Bound(t, j)] = k - j}
<1>0. \A j \in 0..k : j \in 0..Len(t) /\ Bound(t, j) \in Nat
  BY Parted
<1>1. \A p \in Nat : f[p] = IF p \in stop THEN 0 ELSE 1 + f[Over(Stored(t), p)]
  BY DEF Counting
<1>2. k \in S
  BY <1>0, <1>1
<1>3. \A j \in 1..k : j \in S => j - 1 \in S
  <2> TAKE j \in 1..k
  <2> HAVE j \in S
  <2>1. j \in 1..Len(t) /\ j - 1 \in 0..(k - 1) /\ j - 1 \in 0..k
    OBVIOUS
  <2>2. Over(Stored(t), Bound(t, j - 1)) = Bound(t, j)
    BY <2>1, Walk
  <2>3. f[Bound(t, j - 1)] = 1 + f[Bound(t, j)]
    BY <1>0, <1>1, <2>1, <2>2
  <2>4. f[Bound(t, j)] = k - j
    OBVIOUS
  <2>5. f[Bound(t, j - 1)] = k - (j - 1)
    BY <2>1, <2>3, <2>4
  <2> QED
    BY <2>1, <2>5
<1> HIDE DEF S
<1>4. 0 \in S
  <2>1. 0..k \subseteq S
    BY <1>2, <1>3, Descend
  <2> QED
    BY <2>1
<1>5. Bound(t, 0) = 0
  BY Bounds
<1> QED
  BY <1>4, <1>5 DEF S

\* Up to a character, u8_charnum counts those before it.
LEMMA CharnumIs ==
  ASSUME NEW t \in Seq(Chr), NEW k \in 0..Len(t)
  PROVE  u8_charnum(Stored(t), Bound(t, k)) = k
<1>1. PICK s, off : s = Stored(t) /\ off = Bound(t, k)
  OBVIOUS
<1> DEFINE stop == {p \in Nat : p >= off}
           C(f) == [p \in Nat |-> IF p >= off THEN 0 ELSE 1 + f[Over(s, p)]]
<1>2. off \in Nat
  BY <1>1, Parted
<1>3. \A f : C(f) = [p \in Nat |-> IF p \in stop THEN 0 ELSE 1 + f[Over(s, p)]]
  OBVIOUS
<1>4. PICK f : f = C(f) /\ u8_charnum(s, off) = f[0]
  <2>1. u8_charnum(s, off) = (CHOOSE f : f = C(f))[0]
    BY DEF u8_charnum
  <2>2. \E f : f = C(f)
    <3>1. \A p \in Nat : p >= off => p \in stop
      OBVIOUS
    <3> HIDE DEF stop, C
    <3>2. PICK g : Counting(s, stop, g)
      BY <1>2, <3>1, CountingExists
    <3>3. g = C(g)
      BY <1>3, <3>2, Zenon DEF Counting
    <3> QED
      BY <3>3
  <2> HIDE DEF C
  <2> QED
    BY <2>1, <2>2
<1>5. Counting(s, stop, f)
  BY <1>3, <1>4 DEF Counting
<1>6. \A j \in 0..(k - 1) : Bound(t, j) \notin stop
  <2> TAKE j \in 0..(k - 1)
  <2>1. j \in 0..Len(t) /\ j <= k /\ k - j >= 1
    OBVIOUS
  <2>2. Bound(t, j) + (k - j) <= Bound(t, k) /\ Bound(t, j) \in Nat
    BY <2>1, Rising, Parted
  <2> QED
    BY <1>1, <1>2, <2>1, <2>2
<1>7. Bound(t, k) \in stop
  BY <1>1, <1>2
<1> HIDE DEF stop, C
<1>8. f[0] = k
  BY <1>1, <1>5, <1>6, <1>7, CountingIs
<1> QED
  BY <1>1, <1>4, <1>8

\* u8_strlen counts them all.
LEMMA StrlenIs ==
  ASSUME NEW t \in Seq(Chr)
  PROVE  u8_strlen(Stored(t)) = Len(t)
<1>1. PICK s : s = Stored(t)
  OBVIOUS
<1> DEFINE stop == {p \in Nat : p >= Len(s) \/ At(s, p) = 0}
           C(f) == [p \in Nat |-> IF p >= Len(s) \/ At(s, p) = 0 THEN 0 ELSE 1 + f[Over(s, p)]]
<1>2. Len(s) \in Nat /\ At(s, Bound(t, Len(t))) = 0 /\ Bound(t, Len(t)) \in Nat
      /\ Len(t) \in 0..Len(t) /\ Len(t) \in Nat
  <2>1. Len(t) \in 0..Len(t)
    OBVIOUS
  <2> QED
    BY <1>1, <2>1, StoredBytes, LenProperties, Parted
<1>3. \A f : C(f) = [p \in Nat |-> IF p \in stop THEN 0 ELSE 1 + f[Over(s, p)]]
  OBVIOUS
<1>4. PICK f : f = C(f) /\ u8_strlen(s) = f[0]
  <2>1. u8_strlen(s) = (CHOOSE f : f = C(f))[0]
    BY DEF u8_strlen
  <2>2. \E f : f = C(f)
    <3>1. \A p \in Nat : p >= Len(s) => p \in stop
      OBVIOUS
    <3> HIDE DEF stop, C
    <3>2. PICK g : Counting(s, stop, g)
      BY <1>2, <3>1, CountingExists
    <3>3. g = C(g)
      BY <1>3, <3>2, Zenon DEF Counting
    <3> QED
      BY <3>3
  <2> HIDE DEF C
  <2> QED
    BY <2>1, <2>2
<1>5. Counting(s, stop, f)
  BY <1>3, <1>4 DEF Counting
<1>6. \A j \in 0..(Len(t) - 1) : Bound(t, j) \notin stop
  <2> TAKE j \in 0..(Len(t) - 1)
  <2>1. j + 1 \in 1..Len(t) /\ (j + 1) - 1 = j
    BY <1>2
  <2>2. At(s, Bound(t, j)) # 0 /\ Bound(t, j) \in Nat /\ Bound(t, j + 1) \in Nat
        /\ Bound(t, j + 1) - Bound(t, j) \in 1..4 /\ Bound(t, j + 1) < Len(s)
    BY <1>1, <2>1, Walk
  <2> QED
    BY <1>2, <2>2
<1>7. Bound(t, Len(t)) \in stop
  BY <1>2
<1> HIDE DEF stop, C
<1>8. f[0] = Len(t)
  BY <1>1, <1>2, <1>5, <1>6, <1>7, CountingIs
<1> QED
  BY <1>1, <1>4, <1>8

\* u8_offset comes to the end of the n-th character.
LEMMA OffsetIs ==
  ASSUME NEW t \in Seq(Chr), NEW n \in 0..Len(t)
  PROVE  u8_offset(Stored(t), n) = Bound(t, n)
<1>1. PICK s : s = Stored(t)
  OBVIOUS
<1> DEFINE D == 0..n
           C(f) == [k \in 0..n |-> IF k = 0 THEN 0 ELSE Over(s, f[k - 1])]
           stop == {0}
           m == [k \in D |-> k]
           base == [k \in D |-> 0]
           next == [k \in D |-> k - 1]
           rule == [k \in D |-> [v \in Nat |-> Over(s, v)]]
<1>2. n \in Nat
  OBVIOUS
<1>3. Recurs(D, Nat, n, m, stop, base, next, rule)
  BY <1>2, OverMoves DEF Recurs
<1>4. PICK g \in [D -> Nat] :
        \A p \in D : g[p] = IF p \in stop THEN base[p] ELSE rule[p][g[next[p]]]
  <2> HIDE DEF D, m, stop, base, next, rule
  <2> QED
    BY <1>3, Recursion
<1>5. g = C(g)
  <2>1. ASSUME NEW p \in D
        PROVE  g[p] = IF p = 0 THEN 0 ELSE Over(s, g[p - 1])
    <3>1. CASE p = 0
      BY <1>4, <3>1
    <3>2. CASE p # 0
      <4>1. p - 1 \in D /\ next[p] = p - 1 /\ p \notin stop
        BY <1>2, <3>2
      <4>2. g[p - 1] \in Nat /\ g[p] = rule[p][g[p - 1]]
        <5> HIDE DEF D, stop, base, next, rule
        <5> QED
          BY <1>4, <4>1
      <4> QED
        BY <3>2, <4>2
    <3> QED
      BY <3>1, <3>2
  <2> QED
    BY <2>1
<1>6. PICK f : f = C(f) /\ u8_offset(s, n) = f[n]
  <2>1. u8_offset(s, n) = (CHOOSE f : f = C(f))[n]
    BY DEF u8_offset
  <2> HIDE DEF C
  <2> QED
    BY <1>5, <2>1
<1>7. \A k \in 0..n : f[k] = IF k = 0 THEN 0 ELSE Over(s, f[k - 1])
  BY <1>6
<1> DEFINE S == {k \in 0..n : f[k] = Bound(t, k)}
<1>8. 0 \in S
  BY <1>2, <1>7, Bounds
<1>9. \A k \in 0..(n - 1) : k \in S => k + 1 \in S
  <2> TAKE k \in 0..(n - 1)
  <2> HAVE k \in S
  <2>1. k + 1 \in 1..Len(t) /\ k + 1 \in 0..n /\ (k + 1) - 1 = k /\ k + 1 # 0
    BY <1>2
  <2>2. Over(s, Bound(t, k)) = Bound(t, k + 1)
    BY <1>1, <2>1, Walk
  <2> QED
    BY <1>7, <2>1, <2>2
<1> HIDE DEF S
<1>10. n \in S
  <2>1. 0..n \subseteq S
    BY <1>2, <1>8, <1>9, Climb
  <2> QED
    BY <1>2, <2>1
<1> QED
  BY <1>1, <1>6, <1>10 DEF S

-------------------------------------------------------------------------------
(* Searching.                                                              *)

Found(p, n) == [at |-> p, charn |-> n]

\* The loops that look for ch, if c says what is read where and nx where it ends.
Searching(c, nx, ending, ch, f) ==
  f = [p \in Nat |-> [n \in Nat |->
         IF p \in ending THEN Found(NULL, n)
         ELSE IF c[p] = ch THEN Found(p, n) ELSE f[nx[p]][n + 1]]]

\* And so is a loop that searches.
LEMMA SearchingExists ==
  ASSUME NEW c, NEW nx, NEW M \in Nat, NEW ending, NEW ch,
         \A p \in Nat : p \notin ending => p < M /\ nx[p] \in Nat /\ nx[p] > p
  PROVE  \E f : Searching(c, nx, ending, ch, f)
<1> DEFINE W == {Found(p, n) : p \in Int, n \in Nat}
           V == [Nat -> W]
           B(p, n) == IF p \in ending THEN Found(NULL, n) ELSE Found(p, n)
           stop == {p \in Nat : p \in ending \/ c[p] = ch}
           base == [p \in Nat |-> [n \in Nat |-> B(p, n)]]
           next == [p \in Nat |-> nx[p]]
           rule == [p \in Nat |-> [v \in V |-> [n \in Nat |-> v[n + 1]]]]
<1>0. \A p, n \in Nat : B(p, n) \in W
  <2> TAKE p, n \in Nat
  <2>1. NULL \in Int /\ p \in Int
    BY DEF NULL
  <2>2. Found(NULL, n) \in W /\ Found(p, n) \in W
    <3> HIDE DEF B, base, next, rule, stop
    <3> QED
      BY <2>1 DEF Found
  <2> QED
    BY <2>2
<1>1. base \in [Nat -> V]
  <2>1. \A p \in Nat : [n \in Nat |-> B(p, n)] \in [Nat -> W]
    <3> HIDE DEF W, B
    <3> QED
      BY <1>0
  <2> HIDE DEF W, B
  <2> QED
    BY <2>1
<1>2. ASSUME NEW p \in Nat, p \notin stop
      PROVE  /\ p < M /\ next[p] \in Nat /\ next[p] > p
             /\ \A v \in V : rule[p][v] \in V
  <2>1. p \notin ending
    BY <1>2
  <2> HIDE DEF W
  <2>2. \A v \in V : rule[p][v] = [n \in Nat |-> v[n + 1]]
    BY Zenon
  <2>3. \A v \in V : [n \in Nat |-> v[n + 1]] \in V
    OBVIOUS
  <2>4. next[p] = nx[p]
    OBVIOUS
  <2>5. \A v \in V : rule[p][v] \in V
    <3> HIDE DEF V, rule
    <3> QED
      BY <2>2, <2>3
  <2> QED
    BY <2>1, <2>4, <2>5
<1>3. Forward(V, M, stop, base, next, rule)
  <2> HIDE DEF V, stop, base, next, rule
  <2> QED
    BY <1>1, <1>2 DEF Forward
<1>4. PICK f \in [Nat -> V] :
        \A p \in Nat : f[p] = IF p \in stop THEN base[p] ELSE rule[p][f[next[p]]]
  <2> HIDE DEF V, stop, base, next, rule
  <2> QED
    BY <1>3, ForwardExists
<1> DEFINE G(p, n) == IF p \in ending THEN Found(NULL, n)
                      ELSE IF c[p] = ch THEN Found(p, n) ELSE f[nx[p]][n + 1]
<1>5. ASSUME NEW p \in Nat
      PROVE  f[p] = [n \in Nat |-> G(p, n)]
  <2>1. CASE p \in stop
    <3>1. f[p] = base[p]
      <4> HIDE DEF stop, base, next, rule, V, G
      <4> QED
        BY <1>4, <2>1
    <3>2. base[p] = [n \in Nat |-> B(p, n)]
      OBVIOUS
    <3>3. \A n \in Nat : B(p, n) = G(p, n)
      BY <2>1
    <3> HIDE DEF B, G, base
    <3>4. [n \in Nat |-> B(p, n)] = [n \in Nat |-> G(p, n)]
      BY <3>3
    <3>5. base[p] = [n \in Nat |-> G(p, n)]
      BY <3>2, <3>4
    <3> QED
      BY <3>1, <3>5
  <2>2. CASE p \notin stop
    <3>1. p \notin ending /\ c[p] # ch
      <4> HIDE DEF W, V, B, base, next, rule, G
      <4> QED
        BY <2>2
    <3>2. f[p] = rule[p][f[next[p]]]
      <4> HIDE DEF stop, base, next, rule, V, G
      <4> QED
        BY <1>4, <2>2
    <3>3. next[p] = nx[p] /\ nx[p] \in Nat
      <4> HIDE DEF W, V, B, base, stop, rule, G
      <4> QED
        BY <3>1
    <3>4. f[nx[p]] \in V
      <4> HIDE DEF V
      <4> QED
        BY <3>3
    <3>5. rule[p][f[nx[p]]] = [n \in Nat |-> f[nx[p]][n + 1]]
      <4> HIDE DEF V, G
      <4> QED
        BY <3>4, Zenon
    <3>6. \A n \in Nat : G(p, n) = f[nx[p]][n + 1]
      BY <3>1
    <3> HIDE DEF G, V, rule, next
    <3>7. [n \in Nat |-> f[nx[p]][n + 1]] = [n \in Nat |-> G(p, n)]
      BY <3>6
    <3>8. f[p] = rule[p][f[nx[p]]]
      BY <3>2, <3>3
    <3> QED
      BY <3>5, <3>7, <3>8, Zenon
  <2> QED
    BY <2>1, <2>2
<1>6. f = [p \in Nat |-> [n \in Nat |-> G(p, n)]]
  <2> HIDE DEF V, G
  <2> QED
    BY <1>5
<1>7. Searching(c, nx, ending, ch, f)
  <2> HIDE DEF W, V, B, base, next, rule, stop
  <2> QED
    BY <1>6 DEF Searching
<1> QED
  BY <1>7

\* Such a loop over the first k characters finds the first that is sought, the one
\* behind h others.
LEMMA SearchingIs ==
  ASSUME NEW t \in Seq(Chr), NEW k \in 0..Len(t), NEW c, NEW nx, NEW ending, NEW ch, NEW f,
         Searching(c, nx, ending, ch, f),
         Bound(t, k) \in ending,
         \A j \in 1..k : /\ Bound(t, j - 1) \notin ending
                         /\ c[Bound(t, j - 1)] = t[j] /\ nx[Bound(t, j - 1)] = Bound(t, j),
         NEW h \in 0..k, \A j \in 1..h : t[j] # ch, h = k \/ t[h + 1] = ch
  PROVE  f[0][0] = IF h = k THEN Found(NULL, k) ELSE Found(Bound(t, h), h)
<1> DEFINE R == IF h = k THEN Found(NULL, k) ELSE Found(Bound(t, h), h)
           S == {j \in 0..h : f[Bound(t, j)][j] = R}
           G(p, n) == IF p \in ending THEN Found(NULL, n)
                      ELSE IF c[p] = ch THEN Found(p, n) ELSE f[nx[p]][n + 1]
<1>0. h \in Nat /\ k \in Nat /\ Len(t) \in Nat /\ \A j \in 0..k : j \in 0..Len(t) /\ Bound(t, j) \in Nat
  <2>1. h \in Nat /\ k \in Nat /\ Len(t) \in Nat /\ \A j \in 0..k : j \in 0..Len(t)
    OBVIOUS
  <2> QED
    BY ONLY <2>1, t \in Seq(Chr), Parted
<1>1. \A p, n \in Nat : f[p][n] = G(p, n)
  <2>1. f = [p \in Nat |-> [n \in Nat |-> G(p, n)]]
    BY Zenon DEF Searching
  <2> HIDE DEF G
  <2>2. \A p \in Nat : f[p] = [n \in Nat |-> G(p, n)]
    BY <2>1, Zenon
  <2> QED
    BY <2>2
<1>3. h \in S
  <2>0. h \in 0..k /\ h \in 0..h
    BY <1>0
  <2>1. CASE h = k
    <3>1. f[Bound(t, h)][h] = G(Bound(t, h), h)
      <4> HIDE DEF G
      <4> QED
        BY <1>0, <1>1, <2>0
    <3> QED
      BY <2>0, <2>1, <3>1
  <2>2. CASE h # k
    <3>1. h + 1 \in 1..k /\ (h + 1) - 1 = h
      BY <1>0, <2>2
    <3>2. Bound(t, h) \notin ending /\ c[Bound(t, h)] = ch
      BY <2>2, <3>1
    <3>3. f[Bound(t, h)][h] = G(Bound(t, h), h)
      <4> HIDE DEF G
      <4> QED
        BY <1>0, <1>1, <2>0
    <3> QED
      BY <2>0, <2>2, <3>2, <3>3
  <2> QED
    BY <2>1, <2>2
<1>4. \A j \in 1..h : j \in S => j - 1 \in S
  <2> TAKE j \in 1..h
  <2> HAVE j \in S
  <2>1. j \in 1..k /\ j - 1 \in 0..h /\ j - 1 \in 0..k /\ j - 1 \in Nat /\ (j - 1) + 1 = j
    BY <1>0
  <2>2. Bound(t, j - 1) \notin ending /\ c[Bound(t, j - 1)] # ch /\ nx[Bound(t, j - 1)] = Bound(t, j)
    BY <2>1
  <2>3. f[Bound(t, j - 1)][j - 1] = G(Bound(t, j - 1), j - 1)
    <3> HIDE DEF G
    <3> QED
      BY <1>0, <1>1, <2>1
  <2>4. G(Bound(t, j - 1), j - 1) = f[Bound(t, j)][j]
    BY <2>1, <2>2
  <2>5. f[Bound(t, j)][j] = R
    OBVIOUS
  <2>6. f[Bound(t, j - 1)][j - 1] = R
    <3> HIDE DEF G, R
    <3> QED
      BY <2>3, <2>4, <2>5
  <2> HIDE DEF R
  <2> QED
    BY <2>1, <2>6
<1> HIDE DEF S
<1>5. 0 \in S
  <2>1. 0..h \subseteq S
    BY <1>0, <1>3, <1>4, Descend
  <2> QED
    BY <1>0, <2>1
<1>6. Bound(t, 0) = 0
  BY Bounds
<1>7. f[Bound(t, 0)][0] = R
  <2> HIDE DEF R
  <2> QED
    BY <1>5 DEF S
<1> QED
  BY <1>6, <1>7

\* u8_strchr finds the first of a character, and says how many stand before it.
LEMMA StrchrIs ==
  ASSUME NEW t \in Seq(Chr), NEW ch, NEW h \in 0..Len(t),
         \A j \in 1..h : t[j] # ch, h = Len(t) \/ t[h + 1] = ch
  PROVE  u8_strchr(Stored(t), ch)
           = IF h = Len(t) THEN Found(NULL, h) ELSE Found(Bound(t, h), h)
<1>1. PICK s : s = Stored(t)
  OBVIOUS
<1> DEFINE ending == {p \in Nat : p >= Len(s) \/ At(s, p) = 0}
           c == [p \in Nat |-> u8_nextchar(s, p).ch]
           nx == [p \in Nat |-> u8_nextchar(s, p).i]
           A(f) == [p \in Nat |-> [n \in Nat |->
                     LET r == u8_nextchar(s, p) IN
                     IF p >= Len(s) \/ At(s, p) = 0 THEN [at |-> NULL, charn |-> n]
                     ELSE IF r.ch = ch THEN [at |-> p, charn |-> n] ELSE f[r.i][n + 1]]]
           B(f) == [p \in Nat |-> [n \in Nat |->
                     IF p \in ending THEN Found(NULL, n)
                     ELSE IF c[p] = ch THEN Found(p, n) ELSE f[nx[p]][n + 1]]]
<1>2. Len(s) \in Nat /\ Len(t) \in Nat /\ Len(t) \in 0..Len(t)
      /\ At(s, Bound(t, Len(t))) = 0 /\ Bound(t, Len(t)) \in Nat
  <2>1. Len(t) \in Nat /\ Len(t) \in 0..Len(t)
    OBVIOUS
  <2>2. Stored(t) \in Seq(Octet) /\ At(Stored(t), Bound(t, Len(t))) = 0
    BY StoredBytes
  <2>3. Bound(t, Len(t)) \in Nat
    BY <2>1, Parted
  <2> QED
    BY <1>1, <2>1, <2>2, <2>3, LenProperties
<1>3. \A f : A(f) = B(f)
  <2> TAKE f
  <2>1. \A p \in Nat : \A n \in Nat : A(f)[p][n] = B(f)[p][n]
    <3> TAKE p \in Nat
    <3> TAKE n \in Nat
    <3>1. c[p] = u8_nextchar(s, p).ch /\ nx[p] = u8_nextchar(s, p).i
      OBVIOUS
    <3>2. p \in ending <=> p >= Len(s) \/ At(s, p) = 0
      OBVIOUS
    <3> HIDE DEF c, nx, ending
    <3> QED
      BY <3>1, <3>2, Zenon DEF Found
  <2> QED
    BY <2>1, Zenon
<1>4. \A p \in Nat : p \notin ending => p < Len(s) /\ nx[p] \in Nat /\ nx[p] > p
  <2> TAKE p \in Nat
  <2> HAVE p \notin ending
  <2>1. p < Len(s) /\ At(s, p) # 0
    BY <1>2
  <2>2. u8_nextchar(s, p) = u8_nextmemchar(s, p)
    BY <2>1 DEF u8_nextchar
  <2>3. u8_nextmemchar(s, p).i = Start(s, p, 1, 4)
    BY DEF u8_nextmemchar, Read
  <2>4. Start(s, p, 1, 4) \in (p + 1)..(p + 4)
    BY StartWithin
  <2>5. nx[p] = Start(s, p, 1, 4)
    BY <2>2, <2>3
  <2> QED
    BY <2>1, <2>4, <2>5
<1>5. PICK f : Searching(c, nx, ending, ch, f) /\ u8_strchr(s, ch) = f[0][0]
  <2>1. u8_strchr(s, ch) = (CHOOSE f : f = A(f))[0][0]
    BY DEF u8_strchr
  <2>2. \E f : Searching(c, nx, ending, ch, f)
    <3> HIDE DEF ending, nx, c, A, B
    <3> QED
      BY <1>2, <1>4, SearchingExists
  <2>3. \A f : f = B(f) <=> Searching(c, nx, ending, ch, f)
    BY DEF Searching
  <2> HIDE DEF A, B, c, nx, ending
  <2>4. \E f : f = A(f)
    BY <1>3, <2>2, <2>3
  <2> QED
    BY <1>3, <2>1, <2>3, <2>4
<1>6. \A j \in 1..Len(t) : /\ Bound(t, j - 1) \notin ending
                           /\ c[Bound(t, j - 1)] = t[j] /\ nx[Bound(t, j - 1)] = Bound(t, j)
  <2> TAKE j \in 1..Len(t)
  <2>1. /\ At(s, Bound(t, j - 1)) # 0 /\ Bound(t, j - 1) \in Nat /\ Bound(t, j) \in Nat
        /\ Bound(t, j) - Bound(t, j - 1) \in 1..4 /\ Bound(t, j) < Len(s)
        /\ u8_nextmemchar(s, Bound(t, j - 1)) = Read(t[j], Bound(t, j))
    BY <1>1, Walk
  <2>2. u8_nextchar(s, Bound(t, j - 1)) = Read(t[j], Bound(t, j))
    BY <2>1 DEF u8_nextchar
  <2>3. Read(t[j], Bound(t, j)).ch = t[j] /\ Read(t[j], Bound(t, j)).i = Bound(t, j)
    BY DEF Read
  <2>4. c[Bound(t, j - 1)] = t[j] /\ nx[Bound(t, j - 1)] = Bound(t, j)
    <3> HIDE DEF ending, A, B
    <3> QED
      BY <2>1, <2>2, <2>3
  <2>5. Bound(t, j - 1) \notin ending
    BY <1>2, <2>1
  <2> QED
    BY <2>4, <2>5
<1>7. Bound(t, Len(t)) \in ending
  BY <1>2
<1>8. PICK k : k = Len(t)
  OBVIOUS
<1> HIDE DEF ending, c, nx, A, B
<1>9. f[0][0] = IF h = k THEN Found(NULL, k) ELSE Found(Bound(t, h), h)
  <2>1. k \in 0..Len(t) /\ h \in 0..k
    BY <1>2, <1>8
  <2> QED
    BY <1>5, <1>6, <1>7, <1>8, <2>1, SearchingIs
<1> QED
  BY <1>1, <1>5, <1>8, <1>9

\* The first bytes of a text end with a character, too.
LEMMA CutIs ==
  ASSUME NEW t \in Seq(Chr), NEW k \in 0..Len(t)
  PROVE  /\ SubSeq(Stored(t), 1, Bound(t, k)) \in Seq(Octet)
         /\ Len(SubSeq(Stored(t), 1, Bound(t, k))) = Bound(t, k)
         /\ \A p \in 0..(Bound(t, k) - 1) : At(SubSeq(Stored(t), 1, Bound(t, k)), p) = At(Stored(t), p)
<1>1. PICK s, z : s = Stored(t) /\ z = Bound(t, k)
  OBVIOUS
<1>2. s \in Seq(Octet) /\ z \in 0..Len(s)
  <2>1. Len(t) \in 0..Len(t) /\ k <= Len(t) /\ k \in Nat /\ Len(t) \in Nat
    OBVIOUS
  <2>2. Bound(t, k) + (Len(t) - k) <= Bound(t, Len(t)) /\ Bound(t, k) \in Nat /\ Bound(t, Len(t)) \in Nat
    BY <2>1, Rising, Parted
  <2>3. Stored(t) \in Seq(Octet) /\ Len(Stored(t)) = Bound(t, Len(t)) + 1
    BY StoredBytes
  <2> QED
    BY <1>1, <2>1, <2>2, <2>3
<1>3. PICK m : m = SubSeq(s, 1, z)
  OBVIOUS
<1>4. m \in Seq(Octet) /\ Len(m) = z /\ \A x \in 1..z : m[x] = s[x]
  <2>1. z \in Nat /\ z <= Len(s) /\ Len(s) \in Nat
    BY <1>2
  <2> QED
    BY <1>2, <1>3, <2>1
<1>5. \A p \in 0..(z - 1) : At(m, p) = At(s, p)
  <2> TAKE p \in 0..(z - 1)
  <2>1. p + 1 \in 1..z
    BY <1>2
  <2> QED
    BY <1>4, <2>1 DEF At
<1> QED
  BY <1>1, <1>3, <1>4, <1>5

\* A character is read in what was cut off, too.
LEMMA WalkCut ==
  ASSUME NEW t \in Seq(Chr), NEW k \in 0..Len(t), NEW j \in 1..k,
         NEW m, m = SubSeq(Stored(t), 1, Bound(t, k))
  PROVE  u8_nextmemchar(m, Bound(t, j - 1)) = Read(t[j], Bound(t, j))
<1>1. PICK s, z, p, q : s = Stored(t) /\ z = Bound(t, k) /\ p = Bound(t, j - 1) /\ q = Bound(t, j)
  OBVIOUS
<1>2. j \in 1..Len(t) /\ j \in 0..Len(t) /\ k - j >= 0 /\ k \in Nat /\ j \in Nat
  OBVIOUS
<1>3. /\ s \in Seq(Octet) /\ p \in Nat /\ q \in Nat /\ q - p \in 1..4 /\ q < Len(s)
      /\ isutf(At(s, q)) /\ Decoded(s, p, q - p - 1) = t[j]
      /\ \A x \in (p + 1)..(q - 1) : ~isutf(At(s, x))
  BY <1>1, <1>2, Walk
<1>4. z \in Nat /\ q <= z
  <2>1. Bound(t, j) + (k - j) <= Bound(t, k) /\ Bound(t, k) \in Nat
    BY <1>2, Rising, Parted
  <2> QED
    BY <1>1, <1>2, <1>3, <2>1
<1>5. /\ m \in Seq(Octet) /\ Len(m) = z
      /\ \A x \in 0..(z - 1) : At(m, x) = At(s, x)
  BY <1>1, CutIs
<1>6. PICK n : n = q - p
  OBVIOUS
<1>7. n \in 1..4 /\ p + n = q
  BY <1>3, <1>6
<1> DEFINE K == {x \in 1..4 : x = 4 \/ p + x >= Len(m) \/ isutf(At(m, p + x))}
<1>8. n \in K /\ K \in SUBSET Int
  <2>1. CASE q = z
    BY <1>4, <1>5, <1>7, <2>1
  <2>2. CASE q # z
    <3>1. q \in 0..(z - 1)
      BY <1>3, <1>4, <2>2
    <3>2. isutf(At(m, p + n))
      BY <1>3, <1>5, <1>7, <3>1
    <3> QED
      BY <1>7, <3>2
  <2> QED
    BY <2>1, <2>2
<1>9. \A x \in K : n <= x
  <2> SUFFICES ASSUME NEW x \in K, x < n PROVE FALSE
    <3>1. n \in Int /\ \A x \in K : x \in Int
      BY <1>7
    <3> HIDE DEF K
    <3> QED
      BY <3>1
  <2>1. p + x \in (p + 1)..(q - 1) /\ p + x \in 0..(z - 1) /\ x # 4
    BY <1>3, <1>4, <1>7
  <2>2. At(m, p + x) = At(s, p + x)
    BY <1>5, <2>1
  <2> QED
    BY <1>3, <1>5, <2>1, <2>2
<1>10. Start(m, p, 1, 4) = q
  <2>1. Min(K) = n
    <3> HIDE DEF K
    <3> QED
      BY <1>8, <1>9, MinIs
  <2> QED
    BY <1>7, <2>1 DEF Start
<1>11. Decoded(m, p, n - 1) = Decoded(s, p, n - 1)
  <2>1. \A x \in 0..(n - 1) : At(m, p + x) = At(s, p + x)
    <3> TAKE x \in 0..(n - 1)
    <3>1. p + x \in 0..(z - 1)
      BY <1>3, <1>4, <1>7
    <3> QED
      BY <1>5, <3>1
  <2>2. n - 1 = 0 \/ n - 1 = 1 \/ n - 1 = 2 \/ n - 1 = 3
    BY <1>7
  <2>3. p + 0 = p
    BY <1>3
  <2>4. CASE n - 1 = 0
    <3>1. 0 \in 0..(n - 1)
      BY <2>4
    <3> QED
      BY <2>1, <2>3, <2>4, <3>1 DEF Decoded, Joined
  <2>5. CASE n - 1 = 1
    <3>1. 0 \in 0..(n - 1) /\ 1 \in 0..(n - 1)
      BY <2>5
    <3>2. At(m, p) = At(s, p) /\ At(m, p + 1) = At(s, p + 1)
      BY <2>1, <2>3, <3>1
    <3> QED
      BY <2>5, <3>2 DEF Decoded, Joined
  <2>6. CASE n - 1 = 2
    <3>1. 0 \in 0..(n - 1) /\ 1 \in 0..(n - 1) /\ 2 \in 0..(n - 1)
      BY <2>6
    <3>2. At(m, p) = At(s, p) /\ At(m, p + 1) = At(s, p + 1) /\ At(m, p + 2) = At(s, p + 2)
      BY <2>1, <2>3, <3>1
    <3> QED
      BY <2>6, <3>2 DEF Decoded, Joined
  <2>7. CASE n - 1 = 3
    <3>1. 0 \in 0..(n - 1) /\ 1 \in 0..(n - 1) /\ 2 \in 0..(n - 1) /\ 3 \in 0..(n - 1)
      BY <2>7
    <3>2. /\ At(m, p) = At(s, p) /\ At(m, p + 1) = At(s, p + 1)
          /\ At(m, p + 2) = At(s, p + 2) /\ At(m, p + 3) = At(s, p + 3)
      BY <2>1, <2>3, <3>1
    <3> QED
      BY <2>7, <3>2 DEF Decoded, Joined
  <2> QED
    BY <2>2, <2>4, <2>5, <2>6, <2>7
<1>12. q - p - 1 = n - 1
  BY <1>6
<1>13. Decoded(m, p, q - p - 1) = t[j]
  BY <1>3, <1>11, <1>12
<1> HIDE DEF K
<1>14. u8_nextmemchar(m, p) = Read(t[j], q)
  BY <1>10, <1>13, Zenon DEF u8_nextmemchar
<1> QED
  BY <1>1, <1>14

\* u8_memchr finds the first of a character among the first k.
LEMMA MemchrIs ==
  ASSUME NEW t \in Seq(Chr), NEW k \in 0..Len(t), NEW ch, NEW h \in 0..k,
         \A j \in 1..h : t[j] # ch, h = k \/ t[h + 1] = ch
  PROVE  u8_memchr(Stored(t), ch, Bound(t, k))
           = IF h = k THEN Found(NULL, h) ELSE Found(Bound(t, h), h)
<1>1. PICK s, z : s = Stored(t) /\ z = Bound(t, k)
  OBVIOUS
<1>1a. PICK m : m = SubSeq(s, 1, z)
  OBVIOUS
<1> DEFINE ending == {p \in Nat : p >= z}
           c == [p \in Nat |-> u8_nextmemchar(m, p).ch]
           nx == [p \in Nat |-> u8_nextmemchar(m, p).i]
           A(f) == [p \in Nat |-> [n \in Nat |->
                     LET r == u8_nextmemchar(m, p) IN
                     IF p >= z THEN [at |-> NULL, charn |-> n]
                     ELSE IF r.ch = ch THEN [at |-> p, charn |-> n] ELSE f[r.i][n + 1]]]
           B(f) == [p \in Nat |-> [n \in Nat |->
                     IF p \in ending THEN Found(NULL, n)
                     ELSE IF c[p] = ch THEN Found(p, n) ELSE f[nx[p]][n + 1]]]
<1>2. z \in Nat
  BY <1>1, Parted
<1>3. \A f : A(f) = B(f)
  <2> TAKE f
  <2>1. \A p \in Nat : \A n \in Nat : A(f)[p][n] = B(f)[p][n]
    <3> TAKE p \in Nat
    <3> TAKE n \in Nat
    <3>1. c[p] = u8_nextmemchar(m, p).ch /\ nx[p] = u8_nextmemchar(m, p).i
      OBVIOUS
    <3>2. p \in ending <=> p >= z
      OBVIOUS
    <3> HIDE DEF c, nx, ending
    <3> QED
      BY <3>1, <3>2, Zenon DEF Found
  <2> QED
    BY <2>1, Zenon
<1>4. \A p \in Nat : p \notin ending => p < z /\ nx[p] \in Nat /\ nx[p] > p
  <2> TAKE p \in Nat
  <2> HAVE p \notin ending
  <2>1. p < z
    BY <1>2
  <2>3. u8_nextmemchar(m, p).i = Start(m, p, 1, 4)
    BY DEF u8_nextmemchar, Read
  <2>4. Start(m, p, 1, 4) \in (p + 1)..(p + 4)
    BY StartWithin
  <2>5. nx[p] = Start(m, p, 1, 4)
    BY <2>3
  <2> QED
    BY <2>1, <2>4, <2>5
<1>5. PICK f : Searching(c, nx, ending, ch, f) /\ u8_memchr(s, ch, z) = f[0][0]
  <2>1. u8_memchr(s, ch, z) = (CHOOSE f : f = A(f))[0][0]
    BY <1>1a DEF u8_memchr
  <2>2. \E f : Searching(c, nx, ending, ch, f)
    <3> HIDE DEF ending, nx, c, A, B
    <3> QED
      BY <1>2, <1>4, SearchingExists
  <2>3. \A f : f = B(f) <=> Searching(c, nx, ending, ch, f)
    BY DEF Searching
  <2> HIDE DEF A, B, c, nx, ending
  <2>4. \E f : f = A(f)
    BY <1>3, <2>2, <2>3
  <2> QED
    BY <1>3, <2>1, <2>3, <2>4
<1>6. \A j \in 1..k : /\ Bound(t, j - 1) \notin ending
                      /\ c[Bound(t, j - 1)] = t[j] /\ nx[Bound(t, j - 1)] = Bound(t, j)
  <2> TAKE j \in 1..k
  <2>0. j - 1 \in 0..Len(t) /\ j - 1 <= k /\ k - (j - 1) >= 1
    OBVIOUS
  <2>1. Bound(t, j - 1) \in Nat /\ Bound(t, j - 1) + (k - (j - 1)) <= Bound(t, k)
    BY <2>0, Rising, Parted
  <2>2. u8_nextmemchar(m, Bound(t, j - 1)) = Read(t[j], Bound(t, j))
    BY <1>1, <1>1a, WalkCut
  <2>3. Read(t[j], Bound(t, j)).ch = t[j] /\ Read(t[j], Bound(t, j)).i = Bound(t, j)
    BY DEF Read
  <2>4. c[Bound(t, j - 1)] = t[j] /\ nx[Bound(t, j - 1)] = Bound(t, j)
    <3> HIDE DEF ending, A, B
    <3> QED
      BY <2>1, <2>2, <2>3
  <2>5. Bound(t, j - 1) \notin ending
    BY <1>1, <1>2, <2>0, <2>1
  <2> QED
    BY <2>4, <2>5
<1>7. Bound(t, k) \in ending
  BY <1>1, <1>2
<1> HIDE DEF ending, c, nx, A, B
<1>9. f[0][0] = IF h = k THEN Found(NULL, k) ELSE Found(Bound(t, h), h)
  BY <1>5, <1>6, <1>7, SearchingIs
<1> QED
  BY <1>1, <1>5, <1>9

LEMMA MaxIs ==
  ASSUME NEW S \in SUBSET Int, NEW m \in S, \A x \in S : m >= x
  PROVE  Max(S) = m
<1> DEFINE Greatest(x) == \A y \in S : x >= y
<1>1. \A x \in S : Greatest(x) => x = m
  <2> SUFFICES ASSUME NEW x \in S, Greatest(x) PROVE x = m
    OBVIOUS
  <2>1. x <= m /\ m <= x /\ x \in Int /\ m \in Int
    OBVIOUS
  <2> QED
    BY <2>1
<1>2. Greatest(m)
  OBVIOUS
<1> HIDE DEF Greatest
<1>3. (CHOOSE x \in S : Greatest(x)) = m
  BY <1>1, <1>2, Zenon
<1>4. Max(S) = CHOOSE x \in S : Greatest(x)
  BY Zenon DEF Max, Greatest
<1> QED
  BY <1>3, <1>4

\* u8_dec moves back, whatever lies there.
LEMMA DecWithin ==
  ASSUME NEW s, NEW p \in Nat
  PROVE  u8_dec(s, p) \in -1..(p - 1)
<1> DEFINE K == {k \in 1..4 : k = 4 \/ k > p \/ isutf(At(s, p - k))}
<1>1. 4 \in K /\ K \in SUBSET Nat
  OBVIOUS
<1>2. p + 1 \in K \/ p >= 4
  OBVIOUS
<1>3. PICK m : m = Min(K)
  OBVIOUS
<1>4. m \in K /\ \A x \in K : m <= x
  BY <1>1, <1>3, LeastOf
<1>5. m \in 1..4 /\ m <= p + 1
  BY <1>2, <1>4
<1>6. u8_dec(s, p) = p - m
  BY <1>3 DEF u8_dec
<1> QED
  BY <1>5, <1>6

\* The last character that starts among the bytes of the first k is the k-th.
LEMMA LastStart ==
  ASSUME NEW t \in Seq(Chr), NEW k \in 1..Len(t)
  PROVE  Max({p \in 0..(Bound(t, k) - 1) : p = 0 \/ isutf(At(Stored(t), p))}) = Bound(t, k - 1)
<1>1. PICK s, z, q : s = Stored(t) /\ z = Bound(t, k) /\ q = Bound(t, k - 1)
  OBVIOUS
<1> DEFINE S == {p \in 0..(z - 1) : p = 0 \/ isutf(At(s, p))}
<1>2. q \in Nat /\ z \in Nat /\ z - q \in 1..4 /\ isutf(At(s, q))
  BY <1>1, Walk
<1>3. q \in S /\ S \in SUBSET Int
  BY <1>2
<1>4. \A x \in S : q >= x
  <2> TAKE x \in S
  <2>1. CASE x = 0
    BY <1>2, <2>1
  <2>2. CASE x # 0
    <3>1. x \in 0..(z - 1) /\ isutf(At(s, x))
      BY <2>2
    <3>2. Len(t) \in 0..Len(t) /\ k \in 0..Len(t) /\ k <= Len(t) /\ Len(t) \in Nat /\ k \in Nat
          /\ k - 1 \in 0..Len(t)
      OBVIOUS
    <3>3. z + (Len(t) - k) <= Bound(t, Len(t)) /\ Bound(t, Len(t)) \in Nat
      BY <1>1, <3>2, Rising, Parted
    <3>4. x \in 0..Bound(t, Len(t))
      BY <1>2, <3>1, <3>2, <3>3
    <3>5. PICK j \in 0..Len(t) : x = Bound(t, j)
      BY <1>1, <3>1, <3>4, FirstsAre
    <3>6. j < k
      <4> SUFFICES ASSUME k <= j PROVE FALSE
        BY <3>2
      <4>1. z + (j - k) <= x
        BY <1>1, <3>2, <3>5, Rising
      <4> QED
        BY <1>2, <3>1, <3>2, <4>1
    <3>7. x + ((k - 1) - j) <= q
      <4>1. j <= k - 1
        BY <3>2, <3>6
      <4> QED
        BY <1>1, <3>2, <3>5, <4>1, Rising
    <3> QED
      BY <1>2, <3>1, <3>2, <3>6, <3>7
  <2> QED
    BY <2>1, <2>2
<1>5. Max(S) = q
  <2> HIDE DEF S
  <2> QED
    BY <1>3, <1>4, MaxIs
<1> QED
  BY <1>1, <1>5

\* The loop that looks for ch backwards, from last on.
Back(s, ch, last, f) ==
  f = [p \in -1..last |->
         IF p < 0 THEN NULL
         ELSE IF u8_nextmemchar(s, p).ch = ch THEN p
         ELSE IF p = 0 THEN NULL ELSE f[u8_dec(s, p)]]

\* The search of u8_memrchr, which moves back, comes to an end.
LEMMA BackExists ==
  ASSUME NEW s, NEW ch, NEW last \in Nat
  PROVE  \E f : Back(s, ch, last, f)
<1> DEFINE D == -1..last
           stop == {p \in D : p <= 0 \/ u8_nextmemchar(s, p).ch = ch}
           m == [p \in D |-> p + 1]
           base == [p \in D |-> IF p < 0 THEN NULL
                                ELSE IF u8_nextmemchar(s, p).ch = ch THEN p ELSE NULL]
           next == [p \in D |-> u8_dec(s, p)]
           rule == [p \in D |-> [v \in Int |-> v]]
<1>1. last + 1 \in Nat /\ m \in [D -> 0..(last + 1)]
  OBVIOUS
<1>2. base \in [D -> Int]
  BY DEF NULL
<1>3. ASSUME NEW p \in D, p \notin stop
      PROVE  /\ next[p] \in D /\ m[next[p]] < m[p] /\ next[p] = u8_dec(s, p)
             /\ \A v \in Int : rule[p][v] = v
  <2>1. p \in Nat /\ p > 0
    BY <1>3
  <2>2. u8_dec(s, p) \in -1..(p - 1)
    BY <2>1, DecWithin
  <2>3. u8_dec(s, p) \in D /\ u8_dec(s, p) + 1 < p + 1
    BY <2>1, <2>2
  <2>4. next[p] = u8_dec(s, p)
    OBVIOUS
  <2> QED
    BY <2>3, <2>4
<1>4. Recurs(D, Int, last + 1, m, stop, base, next, rule)
  <2> HIDE DEF D, m, stop, base, next, rule
  <2> QED
    BY <1>1, <1>2, <1>3 DEF Recurs
<1>5. PICK f \in [D -> Int] :
        \A p \in D : f[p] = IF p \in stop THEN base[p] ELSE rule[p][f[next[p]]]
  <2> HIDE DEF D, m, stop, base, next, rule
  <2> QED
    BY <1>4, Recursion
<1>6. ASSUME NEW p \in D
      PROVE  f[p] = IF p < 0 THEN NULL
                    ELSE IF u8_nextmemchar(s, p).ch = ch THEN p
                    ELSE IF p = 0 THEN NULL ELSE f[u8_dec(s, p)]
  <2>1. CASE p \in stop
    <3>1. f[p] = base[p]
      BY <1>5, <2>1, Zenon
    <3>2. p <= 0 \/ u8_nextmemchar(s, p).ch = ch
      BY <2>1
    <3> QED
      BY <3>1, <3>2
  <2>2. CASE p \notin stop
    <3>1. f[p] = rule[p][f[next[p]]]
      BY <1>5, <2>2, Zenon
    <3>2. next[p] \in D /\ next[p] = u8_dec(s, p) /\ \A v \in Int : rule[p][v] = v
      BY <1>3, <2>2, Zenon
    <3>3. f[p] = f[u8_dec(s, p)]
      <4> HIDE DEF D, m, stop, base, next, rule
      <4> QED
        BY <1>5, <3>1, <3>2
    <3>4. p > 0 /\ u8_nextmemchar(s, p).ch # ch
      BY <2>2
    <3> QED
      BY <3>3, <3>4
  <2> QED
    BY <2>1, <2>2
<1>7. Back(s, ch, last, f)
  <2> HIDE DEF m, stop, base, next, rule
  <2> QED
    BY <1>6 DEF Back
<1> QED
  BY <1>7

\* u8_memrchr finds the last of a character among the first k.
LEMMA MemrchrIs ==
  ASSUME NEW t \in Seq(Chr), NEW k \in 0..Len(t), NEW ch, NEW h \in 0..k,
         h = 0 \/ t[h] = ch, \A j \in (h + 1)..k : t[j] # ch
  PROVE  u8_memrchr(Stored(t), ch, Bound(t, k)) = IF h = 0 THEN NULL ELSE Bound(t, h - 1)
<1>1. PICK s, z : s = Stored(t) /\ z = Bound(t, k)
  OBVIOUS
<1>2. z \in Nat /\ h \in Nat /\ k \in Nat /\ Len(t) \in Nat
  <2>1. z \in Nat
    BY <1>1, Parted
  <2> QED
    BY <2>1
<1>3. CASE k = 0
  <2>1. z = 0 /\ h = 0
    BY <1>1, <1>3, Bounds
  <2>2. u8_memrchr(s, ch, z) = NULL
    BY <2>1 DEF u8_memrchr
  <2> QED
    BY <1>1, <2>1, <2>2
<1>4. CASE k # 0
  <2> DEFINE b == IF h = 0 THEN 0 ELSE h - 1
             R == IF h = 0 THEN NULL ELSE Bound(t, h - 1)
  <2>1. k \in 1..Len(t) /\ k - 1 \in 0..Len(t) /\ b \in Nat /\ b <= k - 1 /\ b <= h
    BY <1>2, <1>4
  <2>2. PICK last : last = Bound(t, k - 1)
    OBVIOUS
  <2>3. last \in Nat /\ z # 0
    <3>1. z - last \in 1..4 /\ last \in Nat
      BY <1>1, <2>1, <2>2, Walk
    <3> QED
      BY <1>2, <3>1
  <2>4. Max({p \in 0..(z - 1) : p = 0 \/ isutf(At(s, p))}) = last
    BY <1>1, <2>1, <2>2, LastStart
  <2>5. PICK f : Back(s, ch, last, f) /\ u8_memrchr(s, ch, z) = f[last]
    <3> DEFINE C(f) == [p \in -1..last |->
                          IF p < 0 THEN NULL
                          ELSE IF u8_nextmemchar(s, p).ch = ch THEN p
                          ELSE IF p = 0 THEN NULL ELSE f[u8_dec(s, p)]]
    <3>1. u8_memrchr(s, ch, z) = (CHOOSE f : f = C(f))[last]
      BY <2>3, <2>4, Zenon DEF u8_memrchr
    <3>2. \A f : f = C(f) <=> Back(s, ch, last, f)
      BY DEF Back
    <3>3. \E f : Back(s, ch, last, f)
      BY <2>3, BackExists
    <3> HIDE DEF C
    <3>4. \E f : f = C(f)
      BY <3>2, <3>3
    <3> QED
      BY <3>1, <3>2, <3>4
  <2>6. ASSUME NEW j \in 0..(k - 1)
        PROVE  /\ Bound(t, j) \in -1..last /\ Bound(t, j) \in Nat /\ j \in 0..Len(t)
               /\ u8_nextmemchar(s, Bound(t, j)).ch = t[j + 1]
               /\ (j = 0 <=> Bound(t, j) = 0)
    <3>1. j + 1 \in 1..Len(t) /\ (j + 1) - 1 = j /\ j \in 0..Len(t) /\ j <= k - 1
          /\ 0 \in 0..Len(t) /\ 0 <= j
      BY <1>2
    <3>2. u8_nextmemchar(s, Bound(t, j)) = Read(t[j + 1], Bound(t, j + 1))
      BY <1>1, <3>1, Walk
    <3>3. u8_nextmemchar(s, Bound(t, j)).ch = t[j + 1]
      BY <3>2 DEF Read
    <3>4. Bound(t, j) \in Nat /\ Bound(t, j) + ((k - 1) - j) <= last /\ Bound(t, 0) + (j - 0) <= Bound(t, j)
      BY <2>1, <2>2, <3>1, Rising, Parted
    <3>5. Bound(t, 0) = 0
      BY Bounds
    <3> QED
      BY <1>2, <2>3, <3>1, <3>3, <3>4, <3>5
  <2>7. \A p \in -1..last :
          f[p] = IF p < 0 THEN NULL
                 ELSE IF u8_nextmemchar(s, p).ch = ch THEN p
                 ELSE IF p = 0 THEN NULL ELSE f[u8_dec(s, p)]
    BY <2>5, Zenon DEF Back
  <2>8. PICK N : N = (k - 1) - b
    OBVIOUS
  <2> DEFINE S == {x \in 0..N : f[Bound(t, b + x)] = R}
  <2>9. 0 \in S
    <3>0. b \in 0..(k - 1) /\ b + 0 = b /\ N \in Nat /\ b + 1 \in Int
      BY <1>2, <2>1, <2>8
    <3>1. CASE h = 0
      <4>1. b = 0 /\ b + 1 \in (h + 1)..k /\ Bound(t, b) = 0
        BY <1>2, <2>1, <2>6, <3>0, <3>1
      <4>2. u8_nextmemchar(s, Bound(t, b)).ch # ch
        BY <2>6, <3>0, <4>1
      <4>3. f[Bound(t, b)] = NULL
        BY <2>6, <2>7, <3>0, <4>1, <4>2
      <4> QED
        BY <3>0, <3>1, <4>3
    <3>2. CASE h # 0
      <4>1. b = h - 1 /\ b + 1 = h
        BY <1>2, <3>2
      <4>2. u8_nextmemchar(s, Bound(t, b)).ch = ch
        BY <2>6, <3>0, <3>2, <4>1
      <4>3. f[Bound(t, b)] = Bound(t, b)
        BY <2>6, <2>7, <3>0, <4>2
      <4> QED
        BY <3>0, <3>2, <4>1, <4>3
    <3> QED
      BY <3>1, <3>2
  <2>10. \A x \in 0..(N - 1) : x \in S => x + 1 \in S
    <3> TAKE x \in 0..(N - 1)
    <3> HAVE x \in S
    <3>1. PICK j : j = b + x
      OBVIOUS
    <3>2. /\ j \in Nat /\ j + 1 \in 0..(k - 1) /\ j + 1 # 0 /\ (j + 1) + 1 \in (h + 1)..k
          /\ j + 1 \in 1..Len(t) /\ (j + 1) - 1 = j /\ b + (x + 1) = j + 1 /\ x + 1 \in 0..N
      BY <1>2, <2>1, <2>8, <3>1
    <3>3. u8_nextmemchar(s, Bound(t, j + 1)).ch # ch /\ Bound(t, j + 1) # 0
      BY <2>6, <3>2
    <3>4. u8_dec(s, Bound(t, j + 1)) = Bound(t, j)
      BY <1>1, <3>2, Walk
    <3>5. f[Bound(t, j + 1)] = f[Bound(t, j)]
      <4>1. PICK p : p = Bound(t, j + 1)
        OBVIOUS
      <4>2. p \in -1..last /\ p \in Nat
        BY <2>6, <3>2, <4>1
      <4>3. f[p] = f[u8_dec(s, p)]
        BY ONLY <2>7, <3>3, <4>1, <4>2
      <4> QED
        BY <3>4, <4>1, <4>3
    <3>6. f[Bound(t, j)] = R
      BY <3>1
    <3>7. f[Bound(t, b + (x + 1))] = R
      <4> HIDE DEF R, b
      <4> QED
        BY <3>2, <3>5, <3>6
    <3> QED
      BY <3>2, <3>7
  <2>11. N \in S
    <3>1. N \in Nat
      BY <1>2, <2>1, <2>8
    <3> HIDE DEF S
    <3>2. 0..N \subseteq S
      BY <2>9, <2>10, <3>1, Climb
    <3> QED
      BY <3>1, <3>2
  <2>12. b + N = k - 1
    BY <1>2, <2>1, <2>8
  <2>13. f[last] = R
    BY <2>2, <2>11, <2>12
  <2> QED
    BY <1>1, <2>5, <2>13
<1> QED
  BY <1>3, <1>4

-------------------------------------------------------------------------------
(* From bytes to wide characters and back.                                 *)

LEMMA WholeIs ==
  ASSUME NEW S, NEW t \in Seq(S)
  PROVE  SubSeq(t, 1, Len(t)) = t
OBVIOUS

\* u8_codingsize says how many bytes u8_toutf8 needs.
LEMMA CodingsizeIs ==
  ASSUME NEW t \in Seq(Chr)
  PROVE  u8_codingsize(t) = Bound(t, Len(t))
<1> DEFINE D == 0..Len(t)
           C(f) == [n \in 0..Len(t) |-> IF n = 0 THEN 0 ELSE f[n - 1] + u8_charlen(t[n])]
           stop == {0}
           m == [k \in D |-> k]
           base == [k \in D |-> 0]
           next == [k \in D |-> k - 1]
           rule == [k \in D |-> [v \in Nat |-> v + u8_charlen(t[k])]]
<1>1. Len(t) \in Nat /\ m \in [D -> 0..Len(t)] /\ base \in [D -> Nat]
  OBVIOUS
<1>2. ASSUME NEW k \in D, k # 0
      PROVE  /\ next[k] = k - 1 /\ k - 1 \in D /\ m[k - 1] < m[k] /\ k \in 1..Len(t)
             /\ \A v \in Nat : rule[k][v] = v + u8_charlen(t[k]) /\ v + u8_charlen(t[k]) \in Nat
  <2>1. k \in 1..Len(t) /\ k - 1 \in D
    BY <1>1, <1>2
  <2>2. u8_charlen(t[k]) \in 1..4
    BY <2>1, Bounds, Written
  <2>3. next[k] = k - 1 /\ m[k - 1] < m[k]
    BY <2>1
  <2>4. \A v \in Nat : rule[k][v] = v + u8_charlen(t[k])
    OBVIOUS
  <2> QED
    BY <2>1, <2>2, <2>3, <2>4
<1>3. Recurs(D, Nat, Len(t), m, stop, base, next, rule)
  <2>1. \A k \in D : k \notin stop => k # 0
    OBVIOUS
  <2> HIDE DEF D, m, stop, base, next, rule
  <2> QED
    BY <1>1, <1>2, <2>1 DEF Recurs
<1>4. PICK g \in [D -> Nat] :
        \A k \in D : g[k] = IF k \in stop THEN base[k] ELSE rule[k][g[next[k]]]
  <2> HIDE DEF D, m, stop, base, next, rule
  <2> QED
    BY <1>3, Recursion
<1>5. g = C(g)
  <2>1. ASSUME NEW k \in D
        PROVE  g[k] = IF k = 0 THEN 0 ELSE g[k - 1] + u8_charlen(t[k])
    <3>1. CASE k = 0
      BY <1>4, <3>1
    <3>2. CASE k # 0
      <4>1. k \notin stop
        BY <3>2
      <4> HIDE DEF D, stop, base, next, rule
      <4>2. g[k] = rule[k][g[k - 1]] /\ g[k - 1] \in Nat
        BY <1>2, <1>4, <3>2, <4>1
      <4> QED
        BY <1>2, <3>2, <4>2
    <3> QED
      BY <3>1, <3>2
  <2> QED
    BY <2>1
<1>6. PICK f : f = C(f) /\ u8_codingsize(t) = f[Len(t)]
  <2>1. u8_codingsize(t) = (CHOOSE f : f = C(f))[Len(t)]
    BY DEF u8_codingsize
  <2> HIDE DEF C
  <2> QED
    BY <1>5, <2>1
<1>7. \A k \in 0..Len(t) : f[k] = IF k = 0 THEN 0 ELSE f[k - 1] + u8_charlen(t[k])
  BY <1>6
<1> DEFINE S == {k \in 0..Len(t) : f[k] = Bound(t, k)}
<1>8. 0 \in S
  BY <1>1, <1>7, Bounds
<1>9. \A k \in 0..(Len(t) - 1) : k \in S => k + 1 \in S
  <2> TAKE k \in 0..(Len(t) - 1)
  <2> HAVE k \in S
  <2>1. k + 1 \in 1..Len(t) /\ k + 1 \in 0..Len(t) /\ (k + 1) - 1 = k /\ k + 1 # 0
    BY <1>1
  <2>2. Bound(t, k + 1) = Bound(t, k) + u8_charlen(t[k + 1])
    BY <2>1, Bounds
  <2> QED
    BY <1>7, <2>1, <2>2
<1> HIDE DEF S
<1>10. Len(t) \in S
  <2>1. 0..Len(t) \subseteq S
    BY <1>1, <1>8, <1>9, Climb
  <2> QED
    BY <1>1, <2>1
<1> QED
  BY <1>6, <1>10 DEF S

\* In a buffer of that size, u8_toutf8 writes the whole text.
LEMMA Toutf8Is ==
  ASSUME NEW t \in Seq(Chr)
  PROVE  u8_toutf8(u8_codingsize(t), t) = Encoded(t)
<1>1. PICK n, sz : n = Len(t) /\ sz = u8_codingsize(t)
  OBVIOUS
<1> DEFINE S == {k \in 0..Len(t) : Len(Encoded(SubSeq(t, 1, k))) <= sz}
<1>2. SubSeq(t, 1, n) = t /\ n \in 0..Len(t) /\ n \in Nat
  BY <1>1, WholeIs
<1>3. sz = Len(Encoded(t)) /\ sz \in Nat
  <2>1. sz = Bound(t, Len(t))
    BY <1>1, CodingsizeIs
  <2>2. Bound(t, Len(t)) = Len(Encoded(t)) /\ Len(Encoded(t)) \in Nat
    BY Bounds, EncodedBytes
  <2> QED
    BY <2>1, <2>2
<1>4. n \in S /\ S \in SUBSET Int /\ \A k \in S : n >= k
  <2>1. S \in SUBSET Int /\ \A k \in S : n >= k
    BY <1>1
  <2>2. Len(Encoded(SubSeq(t, 1, n))) = sz
    BY <1>2, <1>3, Zenon
  <2>3. Len(Encoded(SubSeq(t, 1, n))) <= sz
    BY <1>3, <2>2
  <2> QED
    BY <1>2, <2>1, <2>3
<1>5. Max(S) = n
  <2> HIDE DEF S
  <2> QED
    BY <1>4, MaxIs
<1> QED
  BY <1>1, <1>2, <1>5, Zenon DEF u8_toutf8

\* The loop that decodes the characters that end before srcsz.
DecodedFrom(s, srcsz, f, p) ==
  CASE ~isutf(At(s, p)) -> <<65533>> \o (IF p + 1 >= srcsz THEN <<>> ELSE f[p + 1])
    [] isutf(At(s, p)) /\ p + trailingBytesForUTF8(At(s, p)) >= srcsz -> <<>>
    [] OTHER -> LET n == trailingBytesForUTF8(At(s, p))
                IN <<Decoded(s, p, n)>> \o f[p + n + 1]

Decoding(s, srcsz, f) == f = [p \in 0..srcsz |-> DecodedFrom(s, srcsz, f, p)]

\* The table of lengths, for every byte.
LEMMA TrailingBytes ==
  ASSUME NEW b \in Octet
  PROVE  trailingBytesForUTF8(b) \in 0..5
BY SMT DEF Octet, trailingBytesForUTF8

\* The loop of u8_toucs comes to an end, whatever bytes there are.
LEMMA DecodingExists ==
  ASSUME NEW s, NEW srcsz \in Nat, \A p \in 0..srcsz : At(s, p) \in Octet
  PROVE  \E f : Decoding(s, srcsz, f)
<1> DEFINE D == 0..srcsz
           n(p) == trailingBytesForUTF8(At(s, p))
           U == {65533} \cup {Decoded(s, p, n(p)) : p \in D}
           W == Seq(U)
           last(p) == ~isutf(At(s, p)) /\ p + 1 >= srcsz
           over(p) == isutf(At(s, p)) /\ p + n(p) >= srcsz
           stop == {p \in D : last(p) \/ over(p)}
           first(p) == IF ~isutf(At(s, p)) THEN 65533 ELSE Decoded(s, p, n(p))
           step(p) == IF ~isutf(At(s, p)) THEN p + 1 ELSE p + n(p) + 1
           m == [p \in D |-> srcsz - p]
           base == [p \in D |-> IF last(p) THEN <<65533>> ELSE <<>>]
           next == [p \in D |-> step(p)]
           rule == [p \in D |-> [v \in W |-> <<first(p)>> \o v]]
<1>1. \A p \in D : n(p) \in 0..5
  BY TrailingBytes
<1>2. m \in [D -> 0..srcsz]
  OBVIOUS
<1>3. \A p \in D : first(p) \in U
  <2> TAKE p \in D
  <2>1. Decoded(s, p, n(p)) \in U /\ 65533 \in U
    <3> HIDE DEF n
    <3> QED
      OBVIOUS
  <2> HIDE DEF U, n
  <2> QED
    BY <2>1
<1>4. base \in [D -> W]
  <2>1. <<65533>> \in W /\ <<>> \in W
    <3>1. 65533 \in U
      OBVIOUS
    <3> HIDE DEF U
    <3> QED
      BY <3>1
  <2> HIDE DEF W, last, D
  <2> QED
    BY <2>1
<1>5. ASSUME NEW p \in D, p \notin stop
      PROVE  /\ ~last(p) /\ ~over(p) /\ next[p] = step(p) /\ step(p) \in D /\ m[step(p)] < m[p]
             /\ \A v \in W : rule[p][v] = <<first(p)>> \o v /\ <<first(p)>> \o v \in W
  <2>1. ~last(p) /\ ~over(p)
    BY <1>5
  <2>2. next[p] = step(p)
    OBVIOUS
  <2>3. step(p) \in D /\ step(p) > p
    <3>1. p \in 0..srcsz /\ n(p) \in 0..5
      BY <1>1
    <3>2. CASE ~isutf(At(s, p))
      BY <2>1, <3>1, <3>2
    <3>3. CASE isutf(At(s, p))
      <4>1. ~(p + n(p) >= srcsz) /\ step(p) = p + n(p) + 1
        BY <2>1, <3>3
      <4> HIDE DEF n, step
      <4> QED
        BY <3>1, <4>1
    <3> QED
      BY <3>2, <3>3
  <2>4. m[step(p)] = srcsz - step(p) /\ m[p] = srcsz - p
    <3> HIDE DEF step
    <3> QED
      BY <2>3
  <2>5. m[step(p)] < m[p]
    <3> HIDE DEF step, m
    <3> QED
      BY <2>3, <2>4
  <2>6. \A v \in W : rule[p][v] = <<first(p)>> \o v
    <3> HIDE DEF W, first
    <3> QED
      OBVIOUS
  <2>7. \A v \in W : <<first(p)>> \o v \in W
    <3>1. first(p) \in U
      BY <1>3
    <3> HIDE DEF U, first
    <3> QED
      BY <3>1
  <2> HIDE DEF D, W, m, step, rule, next, last, over, first
  <2> QED
    BY <2>1, <2>2, <2>3, <2>5, <2>6, <2>7
<1>6. Recurs(D, W, srcsz, m, stop, base, next, rule)
  <2> HIDE DEF D, W, m, stop, base, next, rule, step, last, over, first
  <2> QED
    BY <1>2, <1>4, <1>5 DEF Recurs
<1>7. PICK f \in [D -> W] :
        \A p \in D : f[p] = IF p \in stop THEN base[p] ELSE rule[p][f[next[p]]]
  <2> HIDE DEF D, W, m, stop, base, next, rule
  <2> QED
    BY <1>6, Recursion
<1>8. ASSUME NEW p \in D
      PROVE  f[p] = DecodedFrom(s, srcsz, f, p)
  <2>1. CASE p \in stop
    <3>1. f[p] = base[p]
      <4> HIDE DEF D, W, stop, base, next, rule
      <4> QED
        BY <1>7, <2>1
    <3>2. base[p] = IF last(p) THEN <<65533>> ELSE <<>>
      OBVIOUS
    <3>3. last(p) \/ over(p)
      BY <2>1
    <3>4. CASE last(p)
      <4>1. DecodedFrom(s, srcsz, f, p) = <<65533>> \o <<>>
        BY <3>4 DEF DecodedFrom
      <4> QED
        BY <3>1, <3>2, <3>4, <4>1
    <3>5. CASE ~last(p)
      <4>1. DecodedFrom(s, srcsz, f, p) = <<>>
        BY <3>3, <3>5 DEF DecodedFrom
      <4> QED
        BY <3>1, <3>2, <3>5, <4>1
    <3> QED
      BY <3>4, <3>5
  <2>2. CASE p \notin stop
    <3>1. ~last(p) /\ ~over(p) /\ f[p] = <<first(p)>> \o f[step(p)]
      <4> HIDE DEF D, W, m, stop, base, next, rule, step, last, over, first
      <4>1. f[p] = rule[p][f[next[p]]]
        BY <1>7, <2>2
      <4> QED
        BY <1>5, <1>7, <2>2, <4>1
    <3>2. CASE ~isutf(At(s, p))
      <4>1. DecodedFrom(s, srcsz, f, p) = <<65533>> \o f[p + 1]
        BY <3>1, <3>2 DEF DecodedFrom
      <4> QED
        BY <3>1, <3>2, <4>1
    <3>3. CASE isutf(At(s, p))
      <4>1. DecodedFrom(s, srcsz, f, p) = <<Decoded(s, p, n(p))>> \o f[p + n(p) + 1]
        BY <3>1, <3>3 DEF DecodedFrom
      <4> QED
        BY <3>1, <3>3, <4>1
    <3> QED
      BY <3>2, <3>3
  <2> QED
    BY <2>1, <2>2
<1>9. Decoding(s, srcsz, f)
  <2> HIDE DEF n, U, W, last, over, stop, first, step, m, base, next, rule
  <2> QED
    BY <1>8 DEF Decoding
<1> QED
  BY <1>9

\* The byte behind a character of a text is a first one, or the NUL.
LEMMA FirstAt ==
  ASSUME NEW t \in Seq(Chr), NEW k \in 0..Len(t)
  PROVE  /\ isutf(At(Stored(t), Bound(t, k))) /\ At(Stored(t), Bound(t, k)) \in Octet
         /\ Bound(t, k) \in 0..Bound(t, Len(t))
         /\ (At(Stored(t), Bound(t, k)) = 0 <=> k = Len(t))
<1>1. Len(t) \in Nat /\ Len(t) \in 0..Len(t)
  OBVIOUS
<1>2. /\ Stored(t) \in Seq(Octet) /\ Len(Stored(t)) = Bound(t, Len(t)) + 1
      /\ At(Stored(t), Bound(t, Len(t))) = 0
  BY StoredBytes
<1>3. Bound(t, k) \in 0..Bound(t, Len(t))
  <2>1. Bound(t, k) + (Len(t) - k) <= Bound(t, Len(t)) /\ Bound(t, k) \in Nat /\ Bound(t, Len(t)) \in Nat
    BY <1>1, Rising, Parted
  <2> QED
    BY <1>1, <2>1
<1>4. CASE k = Len(t)
  <2>1. isutf(0) /\ 0 \in Octet
    BY DEF isutf, Octet
  <2> QED
    BY <1>2, <1>3, <1>4, <2>1
<1>5. CASE k # Len(t)
  <2>1. k + 1 \in 1..Len(t) /\ (k + 1) - 1 = k
    BY <1>1, <1>5
  <2>2. /\ isutf(At(Stored(t), Bound(t, k))) /\ At(Stored(t), Bound(t, k)) \in Octet
        /\ At(Stored(t), Bound(t, k)) # 0
    BY <2>1, Walk
  <2> QED
    BY <1>3, <1>5, <2>2
<1> QED
  BY <1>4, <1>5

LEMMA BytesAt ==
  ASSUME NEW s \in Seq(Octet), NEW p \in 0..(Len(s) - 1)
  PROVE  At(s, p) \in Octet
<1>1. p + 1 \in 1..Len(s)
  OBVIOUS
<1> QED
  BY <1>1, ElementOfSeq DEF At

\* One round of it at the first byte of a character.
LEMMA DecodedFromIs ==
  ASSUME NEW s, NEW srcsz, NEW f, NEW p, NEW n, isutf(At(s, p)),
         n = trailingBytesForUTF8(At(s, p))
  PROVE  /\ p + n >= srcsz => DecodedFrom(s, srcsz, f, p) = <<>>
         /\ ~(p + n >= srcsz) => DecodedFrom(s, srcsz, f, p) = <<Decoded(s, p, n)>> \o f[p + n + 1]
<1>1. CASE p + n >= srcsz
  BY <1>1 DEF DecodedFrom
<1>2. CASE ~(p + n >= srcsz)
  BY <1>2 DEF DecodedFrom
<1> QED
  BY <1>1, <1>2

\* The loop of u8_toucs decodes the characters up to the k-th.
LEMMA DecodingIs ==
  ASSUME NEW t \in Seq(Chr), NEW k \in 0..Len(t), NEW f,
         Decoding(Stored(t), Bound(t, k), f)
  PROVE  f[0] = SubSeq(t, 1, k)
<1>1. PICK s, z : s = Stored(t) /\ z = Bound(t, k)
  OBVIOUS
<1>2. z \in Nat /\ k \in Nat /\ Len(t) \in Nat /\ k <= Len(t)
  <2>1. z \in Nat
    BY <1>1, Parted
  <2> QED
    BY <2>1
<1>3. \A p \in 0..z : f[p] = DecodedFrom(s, z, f, p)
  BY <1>1 DEF Decoding
<1> DEFINE S == {j \in 0..k : f[Bound(t, j)] = SubSeq(t, j + 1, k)}
<1>4. k \in S
  <2>1. isutf(At(s, z)) /\ At(s, z) \in Octet
    BY <1>1, FirstAt
  <2>2. trailingBytesForUTF8(At(s, z)) \in 0..5
    BY <2>1, TrailingBytes
  <2>3. z + trailingBytesForUTF8(At(s, z)) >= z
    BY <1>2, <2>2
  <2>4. DecodedFrom(s, z, f, z) = <<>>
    BY <2>1, <2>3, DecodedFromIs
  <2>5. SubSeq(t, k + 1, k) = <<>>
    BY <1>2, SubSeqEmpty
  <2>6. f[z] = <<>>
    BY <1>2, <1>3, <2>4
  <2>7. f[Bound(t, k)] = SubSeq(t, k + 1, k) /\ k \in 0..k
    BY <1>1, <1>2, <2>5, <2>6
  <2> QED
    BY <2>7
<1>5. \A j \in 1..k : j \in S => j - 1 \in S
  <2> TAKE j \in 1..k
  <2> HAVE j \in S
  <2>1. j \in 1..Len(t) /\ j - 1 \in 0..k /\ (j - 1) + 1 = j /\ j \in 0..Len(t) /\ j <= k
    BY <1>2
  <2>2. PICK p, q : p = Bound(t, j - 1) /\ q = Bound(t, j)
    OBVIOUS
  <2>3. /\ p \in Nat /\ q \in Nat /\ q - p \in 1..4 /\ isutf(At(s, p))
        /\ trailingBytesForUTF8(At(s, p)) = q - p - 1
        /\ Decoded(s, p, q - p - 1) = t[j]
    BY <1>1, <2>1, <2>2, Walk
  <2>4. q <= z
    <3>1. Bound(t, j) + (k - j) <= Bound(t, k)
      BY <2>1, Rising
    <3> QED
      BY <1>1, <1>2, <2>1, <2>2, <2>3, <3>1
  <2>5. ~(p + trailingBytesForUTF8(At(s, p)) >= z) /\ p + (q - p - 1) + 1 = q /\ p \in 0..z
    BY <1>2, <2>3, <2>4
  <2>6. DecodedFrom(s, z, f, p) = <<t[j]>> \o f[q]
    <3>1. PICK n : n = trailingBytesForUTF8(At(s, p))
      OBVIOUS
    <3>2. DecodedFrom(s, z, f, p) = <<Decoded(s, p, n)>> \o f[p + n + 1]
      BY <2>3, <2>5, <3>1, DecodedFromIs
    <3> QED
      BY <2>3, <2>5, <3>1, <3>2
  <2>7. f[p] = <<t[j]>> \o SubSeq(t, j + 1, k)
    <3>1. f[q] = SubSeq(t, j + 1, k)
      BY <2>2
    <3>2. f[p] = DecodedFrom(s, z, f, p)
      BY <1>3, <2>5
    <3> QED
      BY <2>6, <3>1, <3>2
  <2>8. <<t[j]>> \o SubSeq(t, j + 1, k) = SubSeq(t, j, k)
    BY <1>2, <2>1
  <2> QED
    BY <2>1, <2>2, <2>7, <2>8
<1> HIDE DEF S
<1>6. 0 \in S
  <2>1. 0..k \subseteq S
    BY <1>2, <1>4, <1>5, Descend
  <2> QED
    BY <1>2, <2>1
<1>7. f[Bound(t, 0)] = SubSeq(t, 0 + 1, k)
  BY <1>6 DEF S
<1>8. Bound(t, 0) = 0
  BY Bounds
<1> QED
  BY <1>7, <1>8

\* u8_toucs decodes as many of the first k characters as there is room for.
LEMMA ToucsIs ==
  ASSUME NEW t \in Seq(Chr), NEW k \in 0..Len(t), NEW sz \in Nat
  PROVE  u8_toucs(sz, Stored(t), Bound(t, k)) = SubSeq(t, 1, IF sz < k THEN sz ELSE k)
<1>1. PICK s, z : s = Stored(t) /\ z = Bound(t, k)
  OBVIOUS
<1>2. z \in Nat /\ k \in Nat /\ Len(t) \in Nat /\ k <= Len(t)
  <2>1. z \in Nat
    BY <1>1, Parted
  <2> QED
    BY <2>1
<1> DEFINE C(f) == [p \in 0..z |->
                     CASE ~isutf(At(s, p)) -> <<65533>> \o (IF p + 1 >= z THEN <<>> ELSE f[p + 1])
                       [] isutf(At(s, p)) /\ p + trailingBytesForUTF8(At(s, p)) >= z -> <<>>
                       [] OTHER -> LET n == trailingBytesForUTF8(At(s, p))
                                   IN <<Decoded(s, p, n)>> \o f[p + n + 1]]
           chosen == CHOOSE f : f = C(f)
<1>3. u8_toucs(sz, s, z)
        = IF sz = 0 \/ z = 0 THEN <<>> ELSE SubSeq(chosen[0], 1, Min({sz, Len(chosen[0])}))
  BY DEF u8_toucs
<1>4. \A f : f = C(f) <=> Decoding(s, z, f)
  BY DEF Decoding, DecodedFrom
<1>5. \E f : Decoding(s, z, f)
  <2>1. \A p \in 0..z : At(s, p) \in Octet
    <3>1. s \in Seq(Octet) /\ Len(s) = Bound(t, Len(t)) + 1 /\ z \in 0..Bound(t, Len(t))
          /\ Bound(t, Len(t)) \in Nat
      <4>1. Len(t) \in 0..Len(t)
        BY <1>2
      <4> QED
        BY <1>1, <4>1, StoredBytes, FirstAt, Parted
    <3>2. \A p \in 0..z : p \in 0..(Len(s) - 1)
      BY <1>2, <3>1
    <3> QED
      BY <3>1, <3>2, BytesAt
  <2> QED
    BY <1>2, <2>1, DecodingExists
<1> HIDE DEF C
<1>6. Decoding(s, z, chosen)
  BY <1>4, <1>5
<1>7. PICK all : all = chosen[0]
  OBVIOUS
<1>8. all = SubSeq(t, 1, k)
  BY <1>1, <1>6, <1>7, DecodingIs
<1>9. Len(all) = k
  BY <1>2, <1>8
<1> HIDE DEF chosen
<1>10. CASE sz = 0 \/ z = 0
  <2>1. u8_toucs(sz, s, z) = <<>>
    BY <1>3, <1>10
  <2>2. sz = 0 \/ k = 0
    <3> SUFFICES ASSUME z = 0, k # 0 PROVE FALSE
      BY <1>10
    <3>1. 0 \in 0..Len(t) /\ 0 <= k
      BY <1>2
    <3>2. Bound(t, 0) + (k - 0) <= z /\ Bound(t, 0) = 0
      BY <1>1, <3>1, Rising, Bounds
    <3> QED
      BY <1>2, <3>2
  <2>3. SubSeq(t, 1, 0) = <<>>
    BY SubSeqEmpty
  <2>4. (IF sz < k THEN sz ELSE k) = 0
    BY <1>2, <2>2
  <2> QED
    BY <1>1, <2>1, <2>3, <2>4
<1>11. CASE ~(sz = 0 \/ z = 0)
  <2>1. u8_toucs(sz, s, z) = SubSeq(all, 1, Min({sz, k}))
    BY <1>3, <1>7, <1>9, <1>11
  <2>2. PICK m : m = IF sz < k THEN sz ELSE k
    OBVIOUS
  <2>3. m \in {sz, k} /\ {sz, k} \in SUBSET Int /\ \A x \in {sz, k} : m <= x
    BY <1>2, <2>2
  <2>4. Min({sz, k}) = m
    BY ONLY <2>3, MinIs
  <2>5. m \in Nat /\ m <= k
    BY <1>2, <2>2
  <2>6. SubSeq(SubSeq(t, 1, k), 1, m) = SubSeq(t, 1, m)
    BY <1>2, <2>5
  <2> QED
    BY <1>1, <1>8, <2>1, <2>2, <2>4, <2>6
<1> QED
  BY <1>10, <1>11

-------------------------------------------------------------------------------
(* Turning.                                                                *)

\* The width that u8_reverse takes from the first byte is that of the character.
LEMMA WidthIs ==
  ASSUME NEW b \in Octet, isutf(b), NEW n \in 1..4, trailingBytesForUTF8(b) = n - 1
  PROVE  Width(b) = n
<1>1. CASE b < 128
  BY <1>1, SMT DEF Octet, isutf, trailingBytesForUTF8, Width
<1>2. CASE b \in 192..223
  BY <1>2, SMT DEF Octet, isutf, trailingBytesForUTF8, Width
<1>3. CASE b \in 224..239
  BY <1>3, SMT DEF Octet, isutf, trailingBytesForUTF8, Width
<1>4. CASE b \in 240..247
  BY <1>4, SMT DEF Octet, isutf, trailingBytesForUTF8, Width
<1>5. CASE b \in 248..255
  BY <1>5, SMT DEF Octet, isutf, trailingBytesForUTF8, Width
<1> QED
  BY <1>1, <1>2, <1>3, <1>4, <1>5, SMT DEF Octet, isutf

\* The bytes of a character of a text.
LEMMA CharAt ==
  ASSUME NEW t \in Seq(Chr), NEW j \in 1..Len(t)
  PROVE  SubSeq(Stored(t), Bound(t, j - 1) + 1, Bound(t, j)) = u8_wc_toutf8(t[j])
<1>1. PICK s, p, q, w : s = Stored(t) /\ p = Bound(t, j - 1) /\ q = Bound(t, j) /\ w = u8_wc_toutf8(t[j])
  OBVIOUS
<1>2. /\ s \in Seq(Octet) /\ p \in Nat /\ q \in Nat /\ q - p \in 1..4 /\ q < Len(s)
      /\ q - p = u8_charlen(t[j]) /\ t[j] \in Chr
  BY <1>1, Walk
<1>3. w \in Seq(Octet) /\ Len(w) = q - p
  BY <1>1, <1>2, Written
<1>4. \A k \in 0..(Len(w) - 1) : At(s, p + k) = w[k + 1]
  BY <1>1, HeldAt DEF Holds
<1>5. \A x \in 1..(q - p) : s[p + x] = w[x]
  <2> TAKE x \in 1..(q - p)
  <2>1. x - 1 \in 0..(Len(w) - 1) /\ (x - 1) + 1 = x /\ p + (x - 1) + 1 = p + x
    BY <1>2, <1>3
  <2> QED
    BY <1>4, <2>1 DEF At
<1>6. PICK c : c = SubSeq(s, p + 1, q)
  OBVIOUS
<1>7. Len(c) = q - p /\ c \in Seq(Octet) /\ \A x \in 1..(q - p) : c[x] = s[p + x]
  BY <1>2, <1>6
<1>8. c = w
  BY <1>3, <1>5, <1>7
<1> QED
  BY <1>1, <1>6, <1>8

\* The loop that puts each character before those before it.
TurnedFrom(s, len, f, p) ==
  IF p = len THEN <<>> ELSE f[p + Width(At(s, p))] \o SubSeq(s, p + 1, p + Width(At(s, p)))

Turning(s, len, f) ==
  f = [p \in {q \in 0..len : isutf(At(s, q))} |-> TurnedFrom(s, len, f, p)]

\* One round of u8_reverse.
LEMMA TurnStep ==
  ASSUME NEW t \in Seq(Chr), NEW j \in 1..Len(t), NEW f
  PROVE  TurnedFrom(Stored(t), Bound(t, Len(t)), f, Bound(t, j - 1))
           = f[Bound(t, j)] \o u8_wc_toutf8(t[j])
<1>1. PICK s, p, q, z : s = Stored(t) /\ p = Bound(t, j - 1) /\ q = Bound(t, j) /\ z = Bound(t, Len(t))
  OBVIOUS
<1>2. /\ p \in Nat /\ q \in Nat /\ q - p \in 1..4
      /\ At(s, p) \in Octet /\ isutf(At(s, p))
      /\ trailingBytesForUTF8(At(s, p)) = q - p - 1
  BY <1>1, Walk
<1>3. Width(At(s, p)) = q - p
  BY <1>2, WidthIs
<1>4. p # z
  <2>1. j \in 0..Len(t) /\ Len(t) \in 0..Len(t) /\ j <= Len(t) /\ Len(t) - j >= 0 /\ Len(t) \in Nat
    OBVIOUS
  <2>2. q + (Len(t) - j) <= z /\ z \in Nat
    BY <1>1, <2>1, Rising, Parted
  <2> QED
    BY <1>2, <2>1, <2>2
<1>5. p + Width(At(s, p)) = q
  BY <1>2, <1>3
<1>6. TurnedFrom(s, z, f, p) = f[q] \o SubSeq(s, p + 1, q)
  BY <1>4, <1>5 DEF TurnedFrom
<1>7. SubSeq(s, p + 1, q) = u8_wc_toutf8(t[j])
  BY <1>1, CharAt
<1> QED
  BY <1>1, <1>6, <1>7

\* The loop of u8_reverse comes to an end.
LEMMA TurningExists ==
  ASSUME NEW t \in Seq(Chr)
  PROVE  \E f : Turning(Stored(t), Bound(t, Len(t)), f)
<1>1. PICK s, z : s = Stored(t) /\ z = Bound(t, Len(t))
  OBVIOUS
<1> DEFINE D == {q \in 0..z : isutf(At(s, q))}
           W == Seq(Octet)
           stop == {z}
           m == [p \in D |-> z - p]
           base == [p \in D |-> <<>>]
           step(p) == p + Width(At(s, p))
           cut(p) == SubSeq(s, p + 1, step(p))
           next == [p \in D |-> step(p)]
           rule == [p \in D |-> [v \in W |-> v \o cut(p)]]
<1>2. z \in Nat /\ Len(t) \in Nat /\ Len(t) \in 0..Len(t)
  <2>1. Len(t) \in Nat /\ Len(t) \in 0..Len(t)
    OBVIOUS
  <2> QED
    BY <1>1, <2>1, Parted
<1>3. ASSUME NEW p \in D, p # z
      PROVE  step(p) \in D /\ step(p) > p /\ cut(p) \in W
  <2>1. PICK k \in 0..Len(t) : p = Bound(t, k)
    BY <1>1, FirstsAre
  <2>2. PICK j : j = k + 1
    OBVIOUS
  <2>3. j \in 1..Len(t) /\ j - 1 = k /\ j \in 0..Len(t)
    BY <1>1, <1>2, <1>3, <2>1, <2>2
  <2>4. PICK q : q = Bound(t, j)
    OBVIOUS
  <2>5. /\ s \in Seq(Octet) /\ p \in Nat /\ q \in Nat /\ q - p \in 1..4
        /\ At(s, p) \in Octet /\ isutf(At(s, p)) /\ t[j] \in Chr
        /\ trailingBytesForUTF8(At(s, p)) = q - p - 1
    BY <1>1, <2>1, <2>3, <2>4, Walk
  <2>6. Width(At(s, p)) = q - p
    BY <2>5, WidthIs
  <2>7. step(p) = q
    BY <2>5, <2>6
  <2>8. q \in D
    BY <1>1, <2>3, <2>4, FirstAt
  <2>9. cut(p) \in W
    <3>1. SubSeq(s, p + 1, q) = u8_wc_toutf8(t[j])
      BY <1>1, <2>1, <2>3, <2>4, CharAt
    <3> QED
      BY <2>5, <2>7, <3>1, Written
  <2> HIDE DEF D, step, cut
  <2> QED
    BY <2>5, <2>7, <2>8, <2>9
<1>4. Recurs(D, W, z, m, stop, base, next, rule)
  <2>1. m \in [D -> 0..z] /\ base \in [D -> W]
    BY <1>2
  <2>2. ASSUME NEW p \in D, p \notin stop
        PROVE  next[p] \in D /\ m[next[p]] < m[p] /\ \A v \in W : rule[p][v] \in W
    <3>1. step(p) \in D /\ step(p) > p /\ cut(p) \in W
      BY <1>3, <2>2
    <3>2. p \in 0..z /\ step(p) \in 0..z
      <4> HIDE DEF step
      <4> QED
        BY <3>1
    <3> HIDE DEF step, cut, D
    <3>3. next[p] = step(p) /\ m[p] = z - p /\ m[step(p)] = z - step(p)
      BY <3>1
    <3>4. \A v \in W : rule[p][v] = v \o cut(p)
      OBVIOUS
    <3>5. \A v \in W : v \o cut(p) \in W
      BY <3>1
    <3> HIDE DEF next, m, rule, W
    <3>6. next[p] \in D
      BY <3>1, <3>3, Zenon
    <3>7. m[next[p]] < m[p]
      <4>1. z - step(p) < z - p
        BY ONLY <1>2, <3>1, <3>2
      <4> QED
        BY <3>3, <4>1
    <3>8. \A v \in W : rule[p][v] \in W
      BY <3>4, <3>5, Zenon
    <3> QED
      BY <3>6, <3>7, <3>8, Zenon
  <2> HIDE DEF D, W, m, stop, base, next, rule
  <2> QED
    BY <1>2, <2>1, <2>2 DEF Recurs
<1>5. PICK f \in [D -> W] :
        \A p \in D : f[p] = IF p \in stop THEN base[p] ELSE rule[p][f[next[p]]]
  <2> HIDE DEF D, W, m, stop, base, next, rule
  <2> QED
    BY <1>4, Recursion
<1>6. ASSUME NEW p \in D
      PROVE  f[p] = TurnedFrom(s, z, f, p)
  <2>1. CASE p = z
    <3>1. p \in stop /\ base[p] = <<>>
      BY <2>1
    <3>2. f[p] = <<>>
      <4> HIDE DEF D, stop, base, next, rule
      <4> QED
        BY <1>5, <3>1
    <3> QED
      BY <2>1, <3>2 DEF TurnedFrom
  <2>2. CASE p # z
    <3>1. step(p) \in D
      BY <1>3, <2>2
    <3>2. p \notin stop
      BY <2>2
    <3>3. next[p] = step(p) /\ \A v \in W : rule[p][v] = v \o cut(p)
      <4> HIDE DEF step, cut
      <4> QED
        OBVIOUS
    <3>4. f[p] = f[step(p)] \o cut(p)
      <4> HIDE DEF D, W, stop, base, next, rule, step, cut
      <4> QED
        BY <1>5, <3>1, <3>2, <3>3
    <3> QED
      BY <2>2, <3>4 DEF TurnedFrom
  <2> QED
    BY <2>1, <2>2
<1>7. Turning(s, z, f)
  <2> HIDE DEF W, stop, m, base, step, cut, next, rule
  <2> QED
    BY <1>6 DEF Turning
<1> QED
  BY <1>1, <1>7

\* The characters behind the j-th, the last one first.
Turned(t, j) == [x \in 1..(Len(t) - j) |-> t[Len(t) + 1 - x]]

\* u8_reverse turns the characters round, and leaves each one's bytes as they are.
LEMMA ReverseIs ==
  ASSUME NEW t \in Seq(Chr)
  PROVE  Reverse(t) \in Seq(Chr) /\ u8_reverse(Stored(t), Bound(t, Len(t))) = Encoded(Reverse(t))
<1>1. PICK s, z, n : s = Stored(t) /\ z = Bound(t, Len(t)) /\ n = Len(t)
  OBVIOUS
<1>2. n \in Nat
  BY <1>1
<1> DEFINE C(f) == [p \in {q \in 0..z : isutf(At(s, q))} |->
                      IF p = z THEN <<>>
                      ELSE f[p + Width(At(s, p))] \o SubSeq(s, p + 1, p + Width(At(s, p)))]
<1>3. PICK f : Turning(s, z, f) /\ u8_reverse(s, z) = f[0]
  <2>1. u8_reverse(s, z) = (CHOOSE f : f = C(f))[0]
    BY DEF u8_reverse
  <2>2. \A f : f = C(f) <=> Turning(s, z, f)
    BY DEF Turning, TurnedFrom
  <2>3. \E f : Turning(s, z, f)
    BY <1>1, TurningExists
  <2> HIDE DEF C
  <2> QED
    BY <2>1, <2>2, <2>3
<1>4. \A j \in 0..n : f[Bound(t, j)] = TurnedFrom(s, z, f, Bound(t, j))
  <2> TAKE j \in 0..n
  <2>1. PICK p : p = Bound(t, j)
    OBVIOUS
  <2>2. p \in {q \in 0..z : isutf(At(s, q))}
    BY <1>1, <2>1, FirstAt
  <2>3. f[p] = TurnedFrom(s, z, f, p)
    BY <1>3, <2>2 DEF Turning
  <2> QED
    BY <2>1, <2>3
<1>5. \A j \in 0..n : Turned(t, j) \in Seq(Chr) /\ Len(Turned(t, j)) = n - j
  <2> TAKE j \in 0..n
  <2>1. \A x \in 1..(n - j) : n + 1 - x \in 1..n
    BY <1>2
  <2>2. \A x \in 1..(n - j) : t[n + 1 - x] \in Chr
    BY <1>1, <2>1, ElementOfSeq
  <2>3. n - j \in Nat
    BY <1>2
  <2>4. Turned(t, j) = [x \in 1..(n - j) |-> t[n + 1 - x]]
    BY <1>1 DEF Turned
  <2> QED
    BY <2>2, <2>3, <2>4
<1> DEFINE S == {j \in 0..n : f[Bound(t, j)] = Encoded(Turned(t, j))}
<1>6. n \in S
  <2>1. f[z] = <<>>
    <3>1. n \in 0..n
      BY <1>2
    <3> QED
      BY <1>1, <1>4, <3>1 DEF TurnedFrom
  <2>2. Turned(t, n) = <<>>
    <3>1. n \in 0..n
      BY <1>2
    <3>2. Len(Turned(t, n)) = 0 /\ Turned(t, n) \in Seq(Chr)
      BY <1>2, <1>5, <3>1
    <3> QED
      BY <3>2
  <2> QED
    BY <1>1, <1>2, <2>1, <2>2, EncodedNil
<1>7. \A j \in 1..n : j \in S => j - 1 \in S
  <2> TAKE j \in 1..n
  <2> HAVE j \in S
  <2>1. j \in 1..Len(t) /\ j - 1 \in 0..n /\ j \in 0..n
    BY <1>1, <1>2
  <2>2. t[j] \in Chr
    BY <2>1, ElementOfSeq
  <2>3. f[Bound(t, j - 1)] = f[Bound(t, j)] \o u8_wc_toutf8(t[j])
    BY <1>1, <1>4, <2>1, TurnStep
  <2>4. PICK a, b : a = Turned(t, j) /\ b = Turned(t, j - 1)
    OBVIOUS
  <2>5. a \in Seq(Chr) /\ Len(a) = n - j /\ b \in Seq(Chr) /\ Len(b) = (n - j) + 1
    <3>1. n - (j - 1) = (n - j) + 1
      BY <1>2
    <3> QED
      BY <1>5, <2>1, <2>4, <3>1
  <2>6. \A x \in 1..(n - j) : b[x] = a[x]
    BY <1>1, <1>2, <2>1, <2>4 DEF Turned
  <2>7. b[(n - j) + 1] = t[j]
    <3>1. (n - j) + 1 \in 1..(n - (j - 1)) /\ n + 1 - ((n - j) + 1) = j
      BY <1>2, <2>1
    <3> QED
      BY <1>1, <2>4, <3>1 DEF Turned
  <2>8. b = Append(a, t[j])
    <3>1. n - j \in Nat
      BY <1>2, <2>1
    <3> QED
      BY <2>2, <2>5, <2>6, <2>7, <3>1
  <2>9. Encoded(b) = Encoded(a) \o u8_wc_toutf8(t[j])
    BY <2>2, <2>5, <2>8, EncodedAppend
  <2> QED
    BY <2>1, <2>3, <2>4, <2>9
<1> HIDE DEF S
<1>8. 0 \in S
  <2>1. 0..n \subseteq S
    BY <1>2, <1>6, <1>7, Descend
  <2> QED
    BY <1>2, <2>1
<1>9. f[0] = Encoded(Turned(t, 0))
  <2>1. Bound(t, 0) = 0
    BY Bounds
  <2> QED
    BY <1>8, <2>1 DEF S
<1>10. Reverse(t) = Turned(t, 0)
  <2>1. \A x \in 1..n : n - x + 1 = n + 1 - x
    BY <1>2
  <2>2. n - 0 = n
    BY <1>2
  <2> QED
    BY <1>1, <2>1, <2>2 DEF Reverse, Turned
<1>11. Turned(t, 0) \in Seq(Chr)
  BY <1>2, <1>5
<1> QED
  BY <1>1, <1>3, <1>9, <1>10, <1>11

-------------------------------------------------------------------------------
(* Digits.                                                                 *)

Ascii == 1..127

LEMMA NamedIs ==
  /\ DOMAIN Named = {110, 116, 114, 101, 98, 102, 118, 97}
  /\ Named[110] = 10 /\ Named[116] = 9 /\ Named[114] = 13 /\ Named[101] = 27
  /\ Named[98] = 8 /\ Named[102] = 12 /\ Named[118] = 11 /\ Named[97] = 7
BY SMT DEF Named

LEMMA WideIs ==
  /\ DOMAIN Wide = {120, 117, 85}
  /\ Wide[120] = 2 /\ Wide[117] = 4 /\ Wide[85] = 8
BY SMT DEF Wide

\* A digit is written and read.
LEMMA HexDigitIs ==
  ASSUME NEW d \in 0..15
  PROVE  HexDigit(d) \in hex_digit /\ HexDigit(d) \in Ascii /\ DigitValue(HexDigit(d)) = d
<1>1. CASE d < 10
  BY <1>1, SMT DEF HexDigit, hex_digit, Ascii, DigitValue
<1>2. CASE d >= 10
  BY <1>2, SMT DEF HexDigit, hex_digit, Ascii, DigitValue
<1> QED
  BY <1>1, <1>2

\* Dividing by 16 again and again.
Halved(v, n, r) ==
  /\ r \in [0..n -> Nat] /\ r[0] = v
  /\ \A k \in 1..n : r[k] = r[k - 1] \div 16

\* The number that is left after each digit.
LEMMA HalvedExists ==
  ASSUME NEW v \in Nat, NEW n \in Nat
  PROVE  \E r : Halved(v, n, r) /\ r = [k \in 0..n |-> IF k = 0 THEN v ELSE r[k - 1] \div 16]
<1> DEFINE D == 0..n
           m == [k \in D |-> k]
           stop == {0}
           base == [k \in D |-> v]
           next == [k \in D |-> k - 1]
           rule == [k \in D |-> [x \in Nat |-> x \div 16]]
<1>1. ASSUME NEW k \in D, k # 0
      PROVE  /\ next[k] = k - 1 /\ k - 1 \in D /\ m[k - 1] < m[k]
             /\ \A x \in Nat : rule[k][x] = x \div 16 /\ x \div 16 \in Nat
  BY <1>1
<1>2. Recurs(D, Nat, n, m, stop, base, next, rule)
  <2>1. m \in [D -> 0..n] /\ base \in [D -> Nat] /\ \A k \in D : k \notin stop => k # 0
    OBVIOUS
  <2> HIDE DEF D, m, stop, base, next, rule
  <2> QED
    BY <1>1, <2>1 DEF Recurs
<1>3. PICK g \in [D -> Nat] :
        \A k \in D : g[k] = IF k \in stop THEN base[k] ELSE rule[k][g[next[k]]]
  <2> HIDE DEF D, m, stop, base, next, rule
  <2> QED
    BY <1>2, Recursion
<1>4. \A k \in D : g[k] = IF k = 0 THEN v ELSE g[k - 1] \div 16
  <2> TAKE k \in D
  <2>1. CASE k = 0
    BY <1>3, <2>1
  <2>2. CASE k # 0
    <3>1. k \notin stop
      BY <2>2
    <3> HIDE DEF D, stop, base, next, rule
    <3>2. g[k] = rule[k][g[k - 1]] /\ g[k - 1] \in Nat
      BY <1>1, <1>3, <2>2, <3>1
    <3> QED
      BY <1>1, <2>2, <3>2
  <2> QED
    BY <2>1, <2>2
<1>5. g = [k \in 0..n |-> IF k = 0 THEN v ELSE g[k - 1] \div 16]
  BY <1>4
<1>6. 0 \in D /\ \A k \in 1..n : k \in D /\ k # 0
  OBVIOUS
<1>7. Halved(v, n, g)
  BY <1>3, <1>4, <1>6 DEF Halved
<1> QED
  BY <1>5, <1>7

\* The digits are those of the numbers that are left.
LEMMA HexIs ==
  ASSUME NEW v \in Nat, NEW n \in Nat
  PROVE  \E r : /\ Halved(v, n, r)
                /\ Hex(v, n) = [k \in 1..n |-> HexDigit(r[n - k] % 16)]
<1> DEFINE C(r) == [k \in 0..n |-> IF k = 0 THEN v ELSE r[k - 1] \div 16]
           chosen == CHOOSE r : r = C(r)
<1>1. Hex(v, n) = [k \in 1..n |-> HexDigit(chosen[n - k] % 16)]
  BY DEF Hex
<1>2. \E r : r = C(r) /\ Halved(v, n, r)
  BY HalvedExists
<1>3. \A r, q : r = C(r) /\ q = C(q) /\ Halved(v, n, r) => q = r
  <2> SUFFICES ASSUME NEW r, NEW q, r = C(r), q = C(q), Halved(v, n, r) PROVE q = r
    OBVIOUS
  <2> DEFINE S == {k \in 0..n : q[k] = r[k]}
  <2>1. \A k \in 0..n : /\ q[k] = (IF k = 0 THEN v ELSE q[k - 1] \div 16)
                        /\ r[k] = (IF k = 0 THEN v ELSE r[k - 1] \div 16)
    OBVIOUS
  <2>2. 0 \in S
    BY <2>1
  <2>3. \A k \in 0..(n - 1) : k \in S => k + 1 \in S
    <3> TAKE k \in 0..(n - 1)
    <3> HAVE k \in S
    <3>1. k + 1 \in 0..n /\ k + 1 # 0 /\ (k + 1) - 1 = k
      OBVIOUS
    <3> QED
      BY <2>1, <3>1
  <2> HIDE DEF S
  <2>4. 0..n \subseteq S
    BY <2>2, <2>3, Climb
  <2>5. \A k \in 0..n : q[k] = r[k]
    BY <2>4 DEF S
  <2>6. DOMAIN q = 0..n /\ q = [k \in 0..n |-> q[k]] /\ r = [k \in 0..n |-> r[k]]
    OBVIOUS
  <2> QED
    BY <2>5, <2>6
<1> HIDE DEF C
<1>4. Halved(v, n, chosen)
  BY <1>2, <1>3
<1> QED
  BY <1>1, <1>4

\* A row of digits of v, as many as n, is read as v if they are enough.
LEMMA ValuedHex ==
  ASSUME NEW v \in Nat, NEW n \in Nat, \A r : Halved(v, n, r) => r[n] = 0
  PROVE  /\ Hex(v, n) \in Seq(hex_digit) /\ Hex(v, n) \in Seq(Ascii) /\ Len(Hex(v, n)) = n
         /\ Valued(Hex(v, n), 16) = v
<1>1. PICK r : Halved(v, n, r) /\ Hex(v, n) = [k \in 1..n |-> HexDigit(r[n - k] % 16)]
  BY HexIs
<1>2. PICK h : h = Hex(v, n)
  OBVIOUS
<1>3. \A k \in 1..n : n - k \in 0..n /\ r[n - k] \in Nat /\ r[n - k] % 16 \in 0..15
  <2> TAKE k \in 1..n
  <2>1. n - k \in 0..n
    OBVIOUS
  <2>2. r[n - k] \in Nat
    BY <1>1, <2>1 DEF Halved
  <2> QED
    BY <2>1, <2>2
<1>4. \A k \in 1..n : /\ h[k] = HexDigit(r[n - k] % 16) /\ h[k] \in hex_digit /\ h[k] \in Ascii
                      /\ DigitValue(h[k]) = r[n - k] % 16
  <2> TAKE k \in 1..n
  <2>1. h[k] = HexDigit(r[n - k] % 16)
    BY <1>1, <1>2
  <2> QED
    BY <1>3, <2>1, HexDigitIs
<1>5. h \in Seq(hex_digit) /\ h \in Seq(Ascii) /\ Len(h) = n
  <2>1. h = [k \in 1..n |-> h[k]]
    BY <1>1, <1>2
  <2>2. h \in [1..n -> hex_digit] /\ h \in [1..n -> Ascii]
    BY <1>4, <2>1
  <2> QED
    BY <2>2
<1> DEFINE C(f) == [k \in 0..Len(h) |-> IF k = 0 THEN 0 ELSE f[k - 1] * 16 + DigitValue(h[k])]
<1>6. \A k \in 1..n : r[n - k] = r[n - (k - 1)] * 16 + DigitValue(h[k])
  <2> TAKE k \in 1..n
  <2>1. n - (k - 1) \in 1..n /\ (n - (k - 1)) - 1 = n - k
    OBVIOUS
  <2>2. r[n - (k - 1)] = r[n - k] \div 16
    BY <1>1, <2>1 DEF Halved
  <2>3. DigitValue(h[k]) = r[n - k] % 16 /\ r[n - k] \in Nat
    BY <1>3, <1>4
  <2>4. \A x \in Nat : x = (x \div 16) * 16 + (x % 16)
    BY SMT
  <2> QED
    BY <2>2, <2>3, <2>4
<1>7. r[n] = 0 /\ r[0] = v
  BY <1>1 DEF Halved
<1> DEFINE g == [k \in 0..n |-> r[n - k]]
<1>8. g = C(g)
  <2>1. \A k \in 0..n : g[k] = IF k = 0 THEN 0 ELSE g[k - 1] * 16 + DigitValue(h[k])
    <3> TAKE k \in 0..n
    <3>1. CASE k = 0
      <4>1. g[k] = r[n - k] /\ n - k = n
        BY <3>1
      <4> QED
        BY <1>7, <3>1, <4>1
    <3>2. CASE k # 0
      <4>1. k \in 1..n /\ k - 1 \in 0..n
        BY <3>2
      <4>2. g[k] = r[n - k] /\ g[k - 1] = r[n - (k - 1)]
        BY <4>1
      <4> QED
        BY <1>6, <3>2, <4>1, <4>2
    <3> QED
      BY <3>1, <3>2
  <2>2. C(g) = [k \in 0..n |-> IF k = 0 THEN 0 ELSE g[k - 1] * 16 + DigitValue(h[k])]
    BY <1>5
  <2>3. g = [k \in 0..n |-> g[k]]
    OBVIOUS
  <2> HIDE DEF g
  <2> QED
    BY <2>1, <2>2, <2>3
<1>9. PICK f : f = C(f) /\ Valued(h, 16) = f[Len(h)]
  <2>1. Valued(h, 16) = (CHOOSE f : f = C(f))[Len(h)]
    BY DEF Valued
  <2> HIDE DEF C
  <2> QED
    BY <1>8, <2>1
<1>10. \A k \in 0..n : f[k] = IF k = 0 THEN 0 ELSE f[k - 1] * 16 + DigitValue(h[k])
  BY <1>5, <1>9
<1> DEFINE S == {k \in 0..n : f[k] = r[n - k]}
<1>11. 0 \in S
  <2>1. n - 0 = n
    OBVIOUS
  <2> QED
    BY <1>7, <1>10, <2>1
<1>12. \A k \in 0..(n - 1) : k \in S => k + 1 \in S
  <2> TAKE k \in 0..(n - 1)
  <2> HAVE k \in S
  <2>1. k + 1 \in 1..n /\ k + 1 \in 0..n /\ (k + 1) - 1 = k /\ k + 1 # 0
    OBVIOUS
  <2>2. f[k + 1] = f[k] * 16 + DigitValue(h[k + 1])
    BY <1>10, <2>1
  <2>3. r[n - (k + 1)] = r[n - k] * 16 + DigitValue(h[k + 1])
    BY <1>6, <2>1
  <2> QED
    BY <2>1, <2>2, <2>3
<1> HIDE DEF S
<1>13. n \in S
  <2>1. 0..n \subseteq S
    BY <1>11, <1>12, Climb
  <2> QED
    BY <2>1
<1>14. f[n] = v
  <2>1. n - n = 0
    OBVIOUS
  <2> QED
    BY <1>7, <1>13, <2>1 DEF S
<1> QED
  BY <1>2, <1>5, <1>9, <1>14

\* The digits that u8_escape_wchar writes are enough for the character.
LEMMA Enough ==
  ASSUME NEW v \in Nat, NEW n \in {2, 4, 8}, n = 2 => v < 256, n = 4 => v < 65536, v < 1114112,
         NEW r, Halved(v, n, r)
  PROVE  r[n] = 0
<1>1. \A k \in 1..n : r[k] = r[k - 1] \div 16
  BY DEF Halved
<1>2. r[0] = v
  BY DEF Halved
<1>3. CASE n = 2
  <2>1. r[1] = r[1 - 1] \div 16 /\ r[2] = r[2 - 1] \div 16
    BY <1>1, <1>3
  <2>2. r[2] = (v \div 16) \div 16
    BY <1>2, <2>1
  <2> QED
    BY <1>3, <2>2, SMT
<1>4. CASE n = 4
  <2>1. r[1] = r[1 - 1] \div 16 /\ r[2] = r[2 - 1] \div 16 /\ r[3] = r[3 - 1] \div 16 /\ r[4] = r[4 - 1] \div 16
    BY <1>1, <1>4
  <2>2. r[4] = (((v \div 16) \div 16) \div 16) \div 16
    BY <1>2, <2>1
  <2> QED
    BY <1>4, <2>2, SMT
<1>5. CASE n = 8
  <2>1. /\ r[1] = r[1 - 1] \div 16 /\ r[2] = r[2 - 1] \div 16 /\ r[3] = r[3 - 1] \div 16
        /\ r[4] = r[4 - 1] \div 16 /\ r[5] = r[5 - 1] \div 16 /\ r[6] = r[6 - 1] \div 16
        /\ r[7] = r[7 - 1] \div 16 /\ r[8] = r[8 - 1] \div 16
    BY <1>1, <1>5
  <2>2. r[8] = (((((((v \div 16) \div 16) \div 16) \div 16) \div 16) \div 16) \div 16) \div 16
    BY <1>2, <2>1
  <2> QED
    BY <1>5, <2>2, SMT
<1> QED
  BY <1>3, <1>4, <1>5

-------------------------------------------------------------------------------
(* What stands for a character.                                            *)

\* What u8_unescape reads at p.
Unescaped(s, p) ==
  IF At(s, p) = Backslash THEN u8_read_escape_sequence(s, p + 1)
  ELSE Read(Unsigned(At(s, p)), p + 1)

\* The bytes x lie in s from p on.
Lies(x, s, p) ==
  /\ p + Len(x) <= Len(s)
  /\ \A k \in 0..(Len(x) - 1) : At(s, p + k) = x[k + 1]

\* The bytes x are a way of writing ch that is read wherever it lies.
Stands(x, ch) ==
  /\ x \in Seq(Ascii) /\ Len(x) >= 1 /\ u8_charlen(ch) <= Len(x)
  /\ \A s \in Seq(Octet), p \in Nat : Lies(x, s, p) => Unescaped(s, p) = Read(ch, p + Len(x))

\* A character that stands for itself.
LEMMA StandsPlain ==
  ASSUME NEW ch \in Ascii, ch # Backslash
  PROVE  Stands(<<ch>>, ch)
<1>1. <<ch>> \in Seq(Ascii) /\ Len(<<ch>>) = 1 /\ <<ch>>[1] = ch
  OBVIOUS
<1>2. u8_charlen(ch) = 1 /\ Unsigned(ch) = ch
  BY SMT DEF Ascii, u8_charlen, Unsigned
<1>3. PICK x : x = <<ch>>
  OBVIOUS
<1>4. ASSUME NEW s \in Seq(Octet), NEW p \in Nat, Lies(x, s, p)
      PROVE  Unescaped(s, p) = Read(ch, p + 1)
  <2>1. 0 \in 0..(Len(x) - 1) /\ p + 0 = p /\ 0 + 1 = 1
    BY <1>1, <1>3
  <2>2. At(s, p) = ch
    BY <1>1, <1>3, <1>4, <2>1 DEF Lies
  <2> QED
    BY <1>2, <2>2, Zenon DEF Unescaped
<1>5. Len(x) = 1
  BY <1>1, <1>3
<1>6. \A s \in Seq(Octet), p \in Nat : Lies(x, s, p) => Unescaped(s, p) = Read(ch, p + Len(x))
  BY <1>4, <1>5
<1>7. x \in Seq(Ascii) /\ Len(x) >= 1 /\ u8_charlen(ch) <= Len(x)
  BY <1>1, <1>2, <1>3
<1>8. Stands(x, ch)
  BY <1>6, <1>7, Zenon DEF Stands
<1> QED
  BY <1>3, <1>8

\* A backslash and a letter.
LEMMA StandsPair ==
  ASSUME NEW c \in Ascii, c \notin octal_digit, c \notin DOMAIN Wide,
         NEW ch \in Ascii, read_escape_control_char(c) = ch
  PROVE  Stands(<<Backslash, c>>, ch)
<1>3. PICK x : x = <<Backslash, c>>
  OBVIOUS
<1>1. x \in Seq(Ascii) /\ Len(x) = 2 /\ x[1] = Backslash /\ x[2] = c
  BY <1>3 DEF Ascii, Backslash
<1>2. u8_charlen(ch) = 1 /\ Unsigned(ch) = ch
  BY SMT DEF Ascii, u8_charlen, Unsigned
<1>4. ASSUME NEW s \in Seq(Octet), NEW p \in Nat, Lies(x, s, p)
      PROVE  Unescaped(s, p) = Read(ch, p + Len(x))
  <2>1. 0 \in 0..(Len(x) - 1) /\ p + 0 = p /\ 0 + 1 = 1 /\ 1 \in 0..(Len(x) - 1) /\ 1 + 1 = 2
        /\ (p + 1) + 1 = p + Len(x)
    BY <1>1
  <2>2. At(s, p) = Backslash /\ At(s, p + 1) = c
    BY <1>1, <1>4, <2>1 DEF Lies
  <2>3. u8_read_escape_sequence(s, p + 1) = Read(Unsigned(read_escape_control_char(c)), (p + 1) + 1)
    BY <2>2, Zenon DEF u8_read_escape_sequence
  <2> QED
    BY <1>2, <2>1, <2>2, <2>3, Zenon DEF Unescaped
<1>7. x \in Seq(Ascii) /\ Len(x) >= 1 /\ u8_charlen(ch) <= Len(x)
  BY <1>1, <1>2
<1>8. Stands(x, ch)
  BY <1>4, <1>7, Zenon DEF Stands
<1> QED
  BY <1>3, <1>8

\* The number ch has at most n hex digits.
Spans(ch, n) == ch < (IF n = 2 THEN 256 ELSE IF n = 4 THEN 65536 ELSE 1114112)

\* A backslash, a letter and digits.
LEMMA StandsHex ==
  ASSUME NEW c \in {120, 117, 85}, NEW ch \in Nat, Spans(ch, Wide[c])
  PROVE  Stands(<<Backslash, c>> \o Hex(ch, Wide[c]), ch)
<1>1. PICK n, h : n = Wide[c] /\ h = Hex(ch, n)
  OBVIOUS
<1>2. /\ n \in {2, 4, 8} /\ n \in Nat /\ (n = 2 => c = 120) /\ (n = 4 => c = 117)
      /\ c \in DOMAIN Wide /\ c \in Ascii /\ c \notin octal_digit
  BY <1>1, WideIs DEF Ascii, octal_digit
<1>3. h \in Seq(hex_digit) /\ h \in Seq(Ascii) /\ Len(h) = n /\ Valued(h, 16) = ch
  <2>1. \A r : Halved(ch, n, r) => r[n] = 0
    <3>1. ch < 1114112 /\ (n = 2 => ch < 256) /\ (n = 4 => ch < 65536)
      BY <1>1, <1>2, SMT DEF Spans
    <3> QED
      BY <1>2, <3>1, Enough
  <2> QED
    BY <1>1, <1>2, <2>1, ValuedHex
<1>4. PICK x : x = <<Backslash, c>> \o h
  OBVIOUS
<1>5. /\ x \in Seq(Ascii) /\ Len(x) = n + 2 /\ x[1] = Backslash /\ x[2] = c
      /\ \A k \in 1..n : x[k + 2] = h[k]
  <2>1. <<Backslash, c>> \in Seq(Ascii) /\ Len(<<Backslash, c>>) = 2
    BY <1>2 DEF Ascii, Backslash
  <2> QED
    BY <1>2, <1>3, <1>4, <2>1
<1>6. ASSUME NEW s \in Seq(Octet), NEW p \in Nat, Lies(x, s, p)
      PROVE  Unescaped(s, p) = Read(ch, p + Len(x))
  <2>1. 0 \in 0..(Len(x) - 1) /\ p + 0 = p /\ 0 + 1 = 1 /\ 1 \in 0..(Len(x) - 1) /\ 1 + 1 = 2
        /\ (p + 1) + 1 + n = p + Len(x)
    BY <1>2, <1>5
  <2>2. At(s, p) = Backslash /\ At(s, p + 1) = c
    BY <1>5, <1>6, <2>1 DEF Lies
  <2>3. PICK a : a = (p + 1) + 1
    OBVIOUS
  <2>4. a \in Nat /\ a + n <= Len(s) /\ Len(s) \in Nat
    BY <1>2, <1>5, <1>6, <2>3 DEF Lies
  <2>5. \A k \in 0..(n - 1) : At(s, a + k) = h[k + 1]
    <3> TAKE k \in 0..(n - 1)
    <3>1. k + 2 \in 0..(Len(x) - 1) /\ p + (k + 2) = a + k /\ (k + 2) + 1 = (k + 1) + 2 /\ k + 1 \in 1..n
      BY <1>2, <1>5, <2>3
    <3> QED
      BY <1>5, <1>6, <3>1 DEF Lies
  <2> DEFINE K == {k \in 0..n : k = n \/ a + k >= Len(s) \/ At(s, a + k) \notin hex_digit}
  <2>6. n \in K /\ K \in SUBSET Int
    BY <1>2
  <2>7. \A k \in K : n <= k
    <3> SUFFICES ASSUME NEW k \in K, k < n PROVE FALSE
      <4>1. n \in Int /\ \A k \in K : k \in Int
        BY <1>2
      <4> HIDE DEF K
      <4> QED
        BY <4>1
    <3>1. k \in 0..(n - 1) /\ k + 1 \in 1..n /\ k # n
      BY <1>2
    <3>2. At(s, a + k) \in hex_digit
      BY <1>3, <2>5, <3>1, ElementOfSeq
    <3>3. a + k >= Len(s)
      BY <3>1, <3>2
    <3> QED
      BY <1>2, <2>4, <3>1, <3>3
  <2>8. Min(K) = n
    <3> HIDE DEF K
    <3> QED
      BY <2>6, <2>7, MinIs
  <2>9. DigitsAt(s, a, n, hex_digit) = SubSeq(s, a + 1, a + n)
    BY <2>8, Zenon DEF DigitsAt
  <2>10. SubSeq(s, a + 1, a + n) = h
    <3>1. PICK d : d = SubSeq(s, a + 1, a + n)
      OBVIOUS
    <3>2. d \in Seq(Octet) /\ Len(d) = n /\ \A k \in 1..n : d[k] = s[a + k]
      BY <1>2, <2>4, <3>1
    <3>3. \A k \in 1..n : s[a + k] = h[k]
      <4> TAKE k \in 1..n
      <4>1. k - 1 \in 0..(n - 1) /\ (k - 1) + 1 = k /\ a + (k - 1) + 1 = a + k
        BY <1>2, <2>4
      <4> QED
        BY <2>5, <4>1 DEF At
    <3>4. d \in Seq(Octet) /\ h \in Seq(Ascii) /\ Len(d) = n /\ Len(h) = n /\ \A k \in 1..n : d[k] = h[k]
      BY <1>3, <3>2, <3>3
    <3>5. d = h
      BY ONLY <3>4
    <3> QED
      BY <3>1, <3>5
  <2>11. u8_read_escape_sequence(s, p + 1) = Read(Valued(h, 16), (p + 1) + 1 + Len(h))
    <3>1. DigitsAt(s, (p + 1) + 1, Wide[c], hex_digit) = h
      BY <1>1, <2>3, <2>9, <2>10
    <3> QED
      BY <1>2, <2>2, <3>1 DEF u8_read_escape_sequence
  <2> QED
    BY <1>3, <2>1, <2>2, <2>11, Zenon DEF Unescaped
<1>7. u8_charlen(ch) <= Len(x) /\ Len(x) >= 1
  <2>1. u8_charlen(ch) <= 4 /\ u8_charlen(ch) \in Nat
    BY SMT DEF u8_charlen
  <2> QED
    BY <1>2, <1>5, <2>1
<1>8. Stands(x, ch)
  BY <1>5, <1>6, <1>7, Zenon DEF Stands
<1> QED
  BY <1>1, <1>4, <1>8

\* Every escape of u8_escape_wchar stands for its character.
LEMMA WcharStands ==
  ASSUME NEW ch \in Chr
  PROVE  Stands(u8_escape_wchar(ch), ch)
<1> DEFINE P1 == \E k \in DOMAIN Named : Named[k] = ch
           P2 == ch = Backslash
           P3 == ch \in (0..31 \ Range(Named)) \cup {127}
           P4 == ch > 65535
           P5 == ch >= 128 /\ ch <= 65535
           Arms(a, b, c, d, e, f) ==
             CASE P1 -> a [] P2 -> b [] P3 -> c [] P4 -> d [] P5 -> e [] OTHER -> f
           letter == CHOOSE k \in DOMAIN Named : Named[k] = ch
<1>1. u8_escape_wchar(ch) =
        Arms(<<Backslash, letter>>, <<Backslash, Backslash>>,
             <<Backslash, 120>> \o Hex(ch, 2), <<Backslash, 85>> \o Hex(ch, 8),
             <<Backslash, 117>> \o Hex(ch, 4), <<ch>>)
  BY DEF u8_escape_wchar
<1>2. ch \in Nat /\ ch >= 1 /\ ch < 1114112
  BY SMT DEF Chr
<1>3. P1 => ch \in {7, 8, 9, 10, 11, 12, 13, 27}
  BY NamedIs
<1>4. P1 => ~P2 /\ ~P3 /\ ~P4 /\ ~P5
  <2>1. P1 => ch \in Range(Named)
    BY Zenon DEF Range
  <2> QED
    BY <1>2, <1>3, <2>1, SMT DEF Backslash
<1>5. P2 => ~P3 /\ ~P4 /\ ~P5
  BY SMT DEF Backslash
<1>6. P3 => ~P4 /\ ~P5
  BY <1>2, SMT
<1>7. P4 => ~P5
  BY <1>2, SMT
<1>8. P3 => ch \in 0..127
  BY SMT
<1>9. ~P1 /\ ~P2 /\ ~P3 /\ ~P4 /\ ~P5 => ch \in Ascii /\ ch # Backslash
  <2>1. ~(ch > 65535) /\ ~(ch >= 128 /\ ch <= 65535) => ch < 128
    BY <1>2, SMT
  <2> QED
    BY <1>2, <2>1, SMT DEF Ascii
<1>10. P4 \/ P5 \/ P3 => Spans(ch, 8) /\ (P5 => Spans(ch, 4)) /\ (P3 => Spans(ch, 2))
  <2>1. Spans(ch, 8)
    BY <1>2, SMT DEF Spans
  <2>2. P5 => Spans(ch, 4)
    BY <1>2, SMT DEF Spans
  <2>3. P3 => Spans(ch, 2)
    BY <1>2, <1>8, SMT DEF Spans
  <2> HIDE DEF P3, P4, P5
  <2> QED
    BY <2>1, <2>2, <2>3
<1>11. CASE P1
  <2>1. letter \in DOMAIN Named /\ Named[letter] = ch
    BY <1>11, Zenon
  <2> HIDE DEF letter
  <2>2. /\ letter \in Ascii /\ letter \notin octal_digit /\ letter \notin DOMAIN Wide
        /\ read_escape_control_char(letter) = ch /\ ch \in Ascii
    <3>1. letter \in {110, 116, 114, 101, 98, 102, 118, 97}
      BY <2>1, NamedIs
    <3>2. read_escape_control_char(letter) = ch
      BY <2>1, Zenon DEF read_escape_control_char
    <3>3. letter \in Ascii /\ letter \notin octal_digit /\ letter \notin {120, 117, 85}
      BY <3>1, SMT DEF Ascii, octal_digit
    <3>4. ch \in Ascii
      BY <1>3, <1>11, SMT DEF Ascii
    <3> QED
      BY <3>2, <3>3, <3>4, WideIs
  <2>3. Stands(<<Backslash, letter>>, ch)
    BY <2>2, StandsPair
  <2>4. u8_escape_wchar(ch) = <<Backslash, letter>>
    <3> HIDE DEF P1, P2, P3, P4, P5
    <3> QED
      BY <1>1, <1>4, <1>11
  <2> QED
    BY <2>3, <2>4
<1>12. CASE P2 /\ ~P1
  <2>1. Stands(<<Backslash, Backslash>>, Backslash)
    <3>1. /\ Backslash \in Ascii /\ Backslash \notin octal_digit /\ Backslash \notin {120, 117, 85}
          /\ Backslash \notin {110, 116, 114, 101, 98, 102, 118, 97}
      BY SMT DEF Backslash, Ascii, octal_digit
    <3>2. read_escape_control_char(Backslash) = Backslash
      BY <3>1, NamedIs DEF read_escape_control_char
    <3> QED
      BY <3>1, <3>2, WideIs, StandsPair
  <2>2. ch = Backslash
    BY <1>12
  <2>3. u8_escape_wchar(ch) = <<Backslash, Backslash>>
    <3> HIDE DEF P1, P2, P3, P4, P5, letter
    <3> QED
      BY <1>1, <1>5, <1>12
  <2> QED
    BY <2>1, <2>2, <2>3
<1>13. CASE P3 /\ ~P1
  <2>1. Stands(<<Backslash, 120>> \o Hex(ch, Wide[120]), ch)
    <3>1. Spans(ch, Wide[120])
      <4> HIDE DEF P1, P2, P3, P4, P5
      <4> QED
        BY <1>10, <1>13, WideIs
    <3> QED
      BY <1>2, <3>1, StandsHex
  <2>2. u8_escape_wchar(ch) = <<Backslash, 120>> \o Hex(ch, 2)
    <3> HIDE DEF P1, P2, P3, P4, P5, letter
    <3> QED
      BY <1>1, <1>5, <1>6, <1>13
  <2> QED
    BY <2>1, <2>2, WideIs
<1>14. CASE P4 /\ ~P1
  <2>1. Stands(<<Backslash, 85>> \o Hex(ch, Wide[85]), ch)
    <3>1. Spans(ch, Wide[85])
      <4> HIDE DEF P1, P2, P3, P4, P5
      <4> QED
        BY <1>10, <1>14, WideIs
    <3> QED
      BY <1>2, <3>1, StandsHex
  <2>2. u8_escape_wchar(ch) = <<Backslash, 85>> \o Hex(ch, 8)
    <3> HIDE DEF P1, P2, P3, P4, P5, letter
    <3> QED
      BY <1>1, <1>5, <1>6, <1>7, <1>14
  <2> QED
    BY <2>1, <2>2, WideIs
<1>15. CASE P5 /\ ~P1
  <2>1. Stands(<<Backslash, 117>> \o Hex(ch, Wide[117]), ch)
    <3>1. Spans(ch, Wide[117])
      <4> HIDE DEF P1, P2, P3, P4, P5
      <4> QED
        BY <1>10, <1>15, WideIs
    <3> QED
      BY <1>2, <3>1, StandsHex
  <2>2. u8_escape_wchar(ch) = <<Backslash, 117>> \o Hex(ch, 4)
    <3> HIDE DEF P1, P2, P3, P4, P5, letter
    <3> QED
      BY <1>1, <1>5, <1>6, <1>7, <1>15
  <2> QED
    BY <2>1, <2>2, WideIs
<1>16. CASE ~P1 /\ ~P2 /\ ~P3 /\ ~P4 /\ ~P5
  <2>1. Stands(<<ch>>, ch)
    <3>1. ch \in Ascii /\ ch # Backslash
      <4> HIDE DEF P1, P2, P3, P4, P5
      <4> QED
        BY <1>9, <1>16
    <3> QED
      BY <3>1, StandsPlain
  <2>2. u8_escape_wchar(ch) = <<ch>>
    <3> HIDE DEF P1, P2, P3, P4, P5, letter
    <3> QED
      BY <1>1, <1>16
  <2> QED
    BY <2>1, <2>2
<1> QED
  <2> HIDE DEF P1, P2, P3, P4, P5
  <2> QED
    BY <1>11, <1>12, <1>13, <1>14, <1>15, <1>16

LEMMA TrailingAscii ==
  ASSUME NEW b \in Octet, b < 128
  PROVE  trailingBytesForUTF8(b) = 0
BY SMT DEF Octet, trailingBytesForUTF8

\* So does what u8_escape puts for a character, if iswprint accepts ASCII only.
LEMMA EscapedStands ==
  ASSUME NEW t \in Seq(Chr), NEW j \in 1..Len(t), NEW quotes, NEW ascii,
         NEW printable, \A c \in printable : c \in Int /\ 32 <= c /\ c <= 126
  PROVE  LET e == Escaped(Stored(t), Bound(t, j - 1), quotes, ascii, printable) IN
         e.i = Bound(t, j) /\ Stands(e.put, t[j])
<1>1. PICK s, p, q, ch : s = Stored(t) /\ p = Bound(t, j - 1) /\ q = Bound(t, j) /\ ch = t[j]
  OBVIOUS
<1>2. PICK e : e = Escaped(s, p, quotes, ascii, printable)
  OBVIOUS
<1>3. /\ p \in Nat /\ q \in Nat /\ q - p \in 1..4 /\ q - p = u8_charlen(ch) /\ ch \in Chr
      /\ At(s, p) \in Octet
      /\ u8_nextmemchar(s, p) = Read(ch, q)
      /\ trailingBytesForUTF8(At(s, p)) = q - p - 1
      /\ Decoded(s, p, q - p - 1) = ch
  BY <1>1, Walk
<1>4. Read(ch, q).ch = ch /\ Read(ch, q).i = q
  BY DEF Read
<1>3a. At(s, p) \in 0..255
  BY <1>3, Zenon DEF Octet
<1>3b. At(s, p) \in Nat /\ (At(s, p) < 128 => At(s, p) \in 0..127) /\ (~(At(s, p) < 128) => At(s, p) >= 128)
  <2>1. \A b \in 0..255 : b \in Nat /\ (b < 128 => b \in 0..127) /\ (~(b < 128) => b >= 128)
    OBVIOUS
  <2> QED
    BY <1>3a, <2>1, Zenon
<1>5. ASSUME At(s, p) < 128 PROVE ch = At(s, p) /\ q = p + 1
  <2>1. trailingBytesForUTF8(At(s, p)) = 0
    BY <1>3, <1>5, TrailingAscii
  <2>2. q - p - 1 = 0 /\ q = p + 1
    BY <1>3, <2>1
  <2>3. Decoded(s, p, 0) = ch
    BY <1>3, <2>2
  <2>4. At(s, p) \in Nat
    BY <1>3b
  <2> QED
    BY <2>2, <2>3, <2>4, Subtracted
<1>6. ASSUME ch < 128 PROVE At(s, p) = ch /\ SubSeq(s, p + 1, q) = <<ch>>
  <2>1. u8_wc_toutf8(ch) = <<ch>>
    BY <1>6 DEF u8_wc_toutf8
  <2>2. SubSeq(s, p + 1, q) = <<ch>>
    BY <1>1, <2>1, CharAt
  <2>3. u8_charlen(ch) = 1
    BY <1>6 DEF u8_charlen
  <2>4. q = p + 1
    BY <1>3, <2>3
  <2>5. At(s, p) < 128
    <3> SUFFICES ASSUME At(s, p) >= 128 PROVE FALSE
      BY <1>3b
    <3>1. q - p - 1 = 0
      BY <1>3, <2>4
    <3>2. Decoded(s, p, 0) = ch /\ At(s, p) \in Nat
      BY <1>3, <1>3b, <3>1
    <3>3. Decoded(s, p, 0) = At(s, p)
      BY <3>2, Subtracted
    <3> QED
      BY <1>6, <3>2, <3>3
  <2> QED
    BY <1>5, <2>2, <2>5
<1>7. CASE quotes /\ At(s, p) = Quote
  <2>1. e = [put |-> <<Backslash, Quote>>, i |-> p + 1]
    BY <1>2, <1>7, Zenon DEF Escaped
  <2>2. At(s, p) < 128
    BY <1>7 DEF Quote
  <2>3. ch = Quote /\ q = p + 1
    BY <1>5, <1>7, <2>2
  <2>4. Stands(<<Backslash, Quote>>, Quote)
    <3>1. /\ Quote \in Ascii /\ Quote \notin octal_digit /\ Quote \notin {120, 117, 85}
          /\ Quote \notin {110, 116, 114, 101, 98, 102, 118, 97}
      BY SMT DEF Quote, Ascii, octal_digit
    <3>2. read_escape_control_char(Quote) = Quote
      BY <3>1, NamedIs DEF read_escape_control_char
    <3> QED
      BY <3>1, <3>2, WideIs, StandsPair
  <2>5. e.put = <<Backslash, Quote>> /\ e.i = p + 1
    BY <2>1
  <2> QED
    BY <1>1, <1>2, <2>3, <2>4, <2>5
<1>8. CASE At(s, p) = Backslash
  <2>0. ~(quotes /\ At(s, p) = Quote)
    BY <1>8, SMT DEF Quote, Backslash
  <2>1. e = [put |-> <<Backslash, Backslash>>, i |-> p + 1]
    BY <1>2, <1>8, <2>0, Zenon DEF Escaped
  <2>2. At(s, p) < 128
    BY <1>8 DEF Backslash
  <2>3. ch = Backslash /\ q = p + 1
    BY <1>5, <1>8, <2>2
  <2>4. Stands(<<Backslash, Backslash>>, Backslash)
    <3>1. /\ Backslash \in Ascii /\ Backslash \notin octal_digit /\ Backslash \notin {120, 117, 85}
          /\ Backslash \notin {110, 116, 114, 101, 98, 102, 118, 97}
      BY SMT DEF Backslash, Ascii, octal_digit
    <3>2. read_escape_control_char(Backslash) = Backslash
      BY <3>1, NamedIs DEF read_escape_control_char
    <3> QED
      BY <3>1, <3>2, WideIs, StandsPair
  <2>5. e.put = <<Backslash, Backslash>> /\ e.i = p + 1
    BY <2>1
  <2> QED
    BY <1>1, <1>2, <2>3, <2>4, <2>5
<1>9. CASE ~(quotes /\ At(s, p) = Quote) /\ At(s, p) # Backslash
  <2>1. e = [put |-> IF ascii \/ ch \notin printable THEN u8_escape_wchar(ch)
                     ELSE SubSeq(s, p + 1, q), i |-> q]
    BY <1>2, <1>3, <1>4, <1>9, Zenon DEF Escaped
  <2>2. e.i = q /\ e.put = IF ascii \/ ch \notin printable THEN u8_escape_wchar(ch)
                           ELSE SubSeq(s, p + 1, q)
    BY <2>1
  <2>3. CASE ascii \/ ch \notin printable
    BY <1>1, <1>2, <1>3, <2>2, <2>3, WcharStands
  <2>4. CASE ~(ascii \/ ch \notin printable)
    <3>1. ch \in printable
      BY <2>4
    <3>5. ch \in Int /\ 32 <= ch /\ ch <= 126
      BY <3>1
    <3>2. ch < 128 /\ ch \in Ascii
      BY ONLY <3>5 DEF Ascii
    <3>3. e.put = <<ch>> /\ ch # Backslash
      BY <1>6, <1>9, <2>2, <2>4, <3>2
    <3>4. Stands(<<ch>>, ch)
      BY <3>2, <3>3, StandsPlain
    <3> QED
      BY <1>1, <1>2, <2>2, <3>3, <3>4
  <2> QED
    BY <2>3, <2>4
<1> QED
  BY <1>7, <1>8, <1>9

-------------------------------------------------------------------------------
(* What u8_escape tells.                                                   *)

\* x is put together of ways of writing the characters of u, b being where each ends.
Parts(x, u, b) ==
  /\ x \in Seq(Ascii) /\ u \in Seq(Chr) /\ b \in [0..Len(u) -> 0..Len(x)]
  /\ b[0] = 0 /\ b[Len(u)] = Len(x)
  /\ \A j \in 1..Len(u) : b[j - 1] < b[j] /\ Stands(SubSeq(x, b[j - 1] + 1, b[j]), u[j])

Told(x, u) == \E b : Parts(x, u, b)

\* What is told, piece by piece, from nothing on.
LEMMA ToldNothing ==
  Told(<<>>, <<>>)
<1>1. PICK x : x = <<>>
  OBVIOUS
<1>2. x \in Seq(Ascii) /\ x \in Seq(Chr) /\ Len(x) = 0
  BY <1>1
<1>3. PICK b : b = [j \in 0..0 |-> 0]
  OBVIOUS
<1>4. Parts(x, x, b)
  BY <1>2, <1>3 DEF Parts
<1> QED
  BY <1>1, <1>4 DEF Told

LEMMA ToldMore ==
  ASSUME NEW x, NEW u, Told(x, u), NEW y, NEW ch \in Chr, Stands(y, ch)
  PROVE  Told(x \o y, Append(u, ch))
<1>1. PICK b : Parts(x, u, b)
  BY DEF Told
<1>2. PICK n, l, z, w : n = Len(u) /\ l = Len(x) /\ z = x \o y /\ w = Append(u, ch)
  OBVIOUS
<1>3. /\ x \in Seq(Ascii) /\ u \in Seq(Chr) /\ b \in [0..n -> 0..l] /\ n \in Nat /\ l \in Nat
      /\ b[0] = 0 /\ b[n] = l
      /\ \A j \in 1..n : b[j - 1] < b[j] /\ Stands(SubSeq(x, b[j - 1] + 1, b[j]), u[j])
  BY <1>1, <1>2 DEF Parts
<1>4. y \in Seq(Ascii) /\ Len(y) \in Nat /\ Len(y) >= 1
  BY DEF Stands
<1>5. /\ z \in Seq(Ascii) /\ Len(z) = l + Len(y) /\ w \in Seq(Chr) /\ Len(w) = n + 1
      /\ w[n + 1] = ch /\ \A j \in 1..n : w[j] = u[j]
  BY <1>2, <1>3, <1>4
<1>6. SubSeq(z, l + 1, l + Len(y)) = y
  BY <1>2, <1>3, <1>4
<1>7. \A p, q \in 0..l : SubSeq(z, p + 1, q) = SubSeq(x, p + 1, q)
  BY <1>2, <1>3, <1>4
<1>8. PICK c : c = [j \in 0..(n + 1) |-> IF j <= n THEN b[j] ELSE l + Len(y)]
  OBVIOUS
<1>9. /\ c \in [0..(n + 1) -> 0..Len(z)] /\ c[0] = 0 /\ c[n + 1] = Len(z)
      /\ \A j \in 0..n : c[j] = b[j] /\ c[j] \in 0..l
  BY <1>3, <1>4, <1>5, <1>8
<1>10. ASSUME NEW j \in 1..(n + 1)
       PROVE  c[j - 1] < c[j] /\ Stands(SubSeq(z, c[j - 1] + 1, c[j]), w[j])
  <2>1. CASE j = n + 1
    <3>1. c[j - 1] = l /\ c[j] = l + Len(y) /\ w[j] = ch
      BY <1>3, <1>5, <1>9, <2>1
    <3>2. SubSeq(z, c[j - 1] + 1, c[j]) = y
      BY <1>6, <3>1
    <3>3. c[j - 1] < c[j]
      BY <1>3, <1>4, <3>1
    <3>4. Stands(SubSeq(z, c[j - 1] + 1, c[j]), w[j])
      BY <3>1, <3>2
    <3> QED
      BY <3>3, <3>4
  <2>2. CASE j # n + 1
    <3>1. j \in 1..n /\ j - 1 \in 0..n /\ j \in 0..n
      BY <1>3, <2>2
    <3>2. c[j - 1] = b[j - 1] /\ c[j] = b[j] /\ w[j] = u[j] /\ b[j - 1] \in 0..l /\ b[j] \in 0..l
      BY <1>5, <1>9, <3>1
    <3>3. SubSeq(z, c[j - 1] + 1, c[j]) = SubSeq(x, b[j - 1] + 1, b[j])
      BY <1>7, <3>2
    <3> QED
      BY <1>3, <3>1, <3>2, <3>3
  <2> QED
    BY <2>1, <2>2
<1>11. Parts(z, w, c)
  BY <1>5, <1>9, <1>10 DEF Parts
<1> QED
  BY <1>2, <1>11 DEF Told

\* One more part of a text: sequences that differ in where the brackets are.
LEMMA Rebracket ==
  ASSUME NEW S, NEW u \in Seq(S), NEW ch \in S, NEW v \in Seq(S)
  PROVE  Append(u, ch) \o v = u \o (<<ch>> \o v)
<1>1. PICK h : h = <<ch>>
  OBVIOUS
<1>2. h \in Seq(S) /\ Append(u, ch) = u \o h
  BY <1>1
<1>3. (u \o h) \o v = u \o (h \o v)
  BY <1>2
<1> QED
  BY <1>1, <1>2, <1>3

LEMMA OnFront ==
  ASSUME NEW S, NEW ch \in S, NEW v \in Seq(S)
  PROVE  /\ <<ch>> \o v \in Seq(S) /\ Len(<<ch>> \o v) = Len(v) + 1
         /\ (<<ch>> \o v)[1] = ch /\ \A j \in 1..Len(v) : (<<ch>> \o v)[j + 1] = v[j]
<1>1. PICK h : h = <<ch>>
  OBVIOUS
<1>2. h \in Seq(S) /\ Len(h) = 1 /\ h[1] = ch
  BY <1>1
<1>3. /\ h \o v \in Seq(S) /\ Len(h \o v) = Len(v) + 1
      /\ (h \o v)[1] = ch /\ \A j \in 1..Len(v) : (h \o v)[j + 1] = v[j]
  <2>1. /\ h \o v \in Seq(S) /\ Len(h \o v) = 1 + Len(v) /\ Len(v) \in Nat
        /\ \A j \in 1..(1 + Len(v)) : (h \o v)[j] = IF j <= 1 THEN h[j] ELSE v[j - 1]
    <3>1. /\ h \o v \in Seq(S) /\ Len(h \o v) = Len(h) + Len(v)
          /\ \A j \in 1..(Len(h) + Len(v)) :
               (h \o v)[j] = IF j <= Len(h) THEN h[j] ELSE v[j - Len(h)]
      BY <1>2, ConcatProperties
    <3>2. Len(v) \in Nat
      OBVIOUS
    <3> QED
      BY <1>2, <3>1, <3>2
  <2>2. \A j \in 1..Len(v) : j + 1 \in 1..(1 + Len(v)) /\ ~(j + 1 <= 1) /\ (j + 1) - 1 = j
    BY <2>1
  <2>3. 1 \in 1..(1 + Len(v))
    BY <2>1
  <2> QED
    BY <1>2, <2>1, <2>2, <2>3
<1> QED
  BY <1>1, <1>3

\* A piece of a text, from one character to another.
LEMMA PartMore ==
  ASSUME NEW t \in Seq(Chr), NEW a \in 1..Len(t), NEW k \in a..Len(t), NEW u \in Seq(Chr)
  PROVE  /\ t[a] \in Chr /\ SubSeq(t, a, k) \in Seq(Chr)
         /\ Append(u, t[a]) \o SubSeq(t, a + 1, k) = u \o SubSeq(t, a, k)
<1>1. PICK v, w, ch : v = SubSeq(t, a + 1, k) /\ w = SubSeq(t, a, k) /\ ch = t[a]
  OBVIOUS
<1>2. PICK n \in Nat : n = k - a
  OBVIOUS
<1>3. ch \in Chr /\ v \in Seq(Chr) /\ w \in Seq(Chr) /\ Len(v) = n /\ Len(w) = n + 1
      /\ w[1] = ch /\ \A j \in 1..n : w[j + 1] = v[j]
  <2>1. a \in Nat /\ a >= 1 /\ k \in Nat /\ k <= Len(t) /\ k - a + 1 = n + 1 /\ k - (a + 1) + 1 = n
        /\ k = a + n /\ Len(t) \in Nat
    BY <1>2
  <2>2. ch \in Chr
    BY <1>1
  <2>3. v \in Seq(Chr) /\ Len(v) = n /\ \A j \in 1..n : v[j] = t[a + j]
    BY <1>1, <2>1
  <2>4. w \in Seq(Chr) /\ Len(w) = n + 1 /\ \A j \in 1..(n + 1) : w[j] = t[a + j - 1]
    BY <1>1, <2>1
  <2>5. w[1] = ch
    BY <1>1, <2>1, <2>4
  <2>6. \A j \in 1..n : w[j + 1] = v[j]
    <3> TAKE j \in 1..n
    <3>1. j + 1 \in 1..(n + 1) /\ a + (j + 1) - 1 = a + j
      BY <2>1
    <3> QED
      BY <2>3, <2>4, <3>1
  <2> QED
    BY <2>2, <2>3, <2>4, <2>5, <2>6
<1>4. PICK x, l : x = <<ch>> \o v /\ l = Append(u, ch) \o v
  OBVIOUS
<1>9. ch \in Chr /\ v \in Seq(Chr) /\ u \in Seq(Chr)
  BY <1>3
<1>5. x \in Seq(Chr) /\ Len(x) = n + 1 /\ x[1] = ch /\ \A j \in 1..n : x[j + 1] = v[j]
  <2>1. /\ <<ch>> \o v \in Seq(Chr) /\ Len(<<ch>> \o v) = Len(v) + 1
        /\ (<<ch>> \o v)[1] = ch /\ \A j \in 1..Len(v) : (<<ch>> \o v)[j + 1] = v[j]
    BY ONLY <1>9, OnFront
  <2> QED
    BY <1>3, <1>4, <2>1
<1>6. x = w
  <2>1. \A j \in 1..(n + 1) : j = 1 \/ (j - 1 \in 1..n /\ j = (j - 1) + 1)
    OBVIOUS
  <2>2. \A j \in 1..(n + 1) : x[j] = w[j]
    BY ONLY <1>3, <1>5, <2>1
  <2> QED
    BY <1>3, <1>5, <2>2, SeqEqual
<1>7. Append(u, ch) \o v = u \o (<<ch>> \o v)
  BY ONLY <1>9, Rebracket
<1> QED
  BY <1>1, <1>3, <1>4, <1>6, <1>7

\* g is what is put for the characters of t behind the first a, up to some k.
Tells(t, a, k, y, g) ==
  /\ g.i = Bound(t, k) /\ g.put = y \o <<0>>
  /\ \A x, u : Told(x, u) => Told(x \o y, u \o SubSeq(t, a + 1, k))

TellsOn(t, a, g) == \E k \in a..Len(t), y \in Seq(Ascii) : Tells(t, a, k, y, g)

\* The end of u8_escape, and one round of it.
LEMMA TellsNothing ==
  ASSUME NEW t \in Seq(Chr), NEW a \in 0..Len(t)
  PROVE  TellsOn(t, a, [put |-> <<0>>, i |-> Bound(t, a)])
<1>1. PICK g, y : g = [put |-> <<0>>, i |-> Bound(t, a)] /\ y = <<>>
  OBVIOUS
<1>2. y \in Seq(Ascii) /\ a \in a..Len(t) /\ a \in Nat
  BY <1>1
<1>3. g.i = Bound(t, a) /\ g.put = y \o <<0>>
  <2>1. y \o <<0>> = <<0>>
    <3>1. <<0>> \in Seq({0})
      OBVIOUS
    <3> QED
      BY <1>1, <3>1, ConcatEmptySeq
  <2> QED
    BY <1>1, <2>1
<1>4. ASSUME NEW x, NEW u, Told(x, u)
      PROVE  Told(x \o y, u \o SubSeq(t, a + 1, a))
  <2>1. x \in Seq(Ascii) /\ u \in Seq(Chr)
    BY <1>4 DEF Told, Parts
  <2>2. SubSeq(t, a + 1, a) = <<>>
    BY <1>2
  <2>3. x \o y = x /\ u \o SubSeq(t, a + 1, a) = u
    BY <1>1, <2>1, <2>2, ConcatEmptySeq
  <2> QED
    BY <1>4, <2>3, Zenon
<1>5. Tells(t, a, a, y, g)
  BY <1>3, <1>4, Zenon DEF Tells
<1> QED
  BY <1>1, <1>2, <1>5, Zenon DEF TellsOn

LEMMA TellsMore ==
  ASSUME NEW t \in Seq(Chr), NEW a \in 1..Len(t), NEW e, Stands(e, t[a]),
         NEW g, TellsOn(t, a, g)
  PROVE  TellsOn(t, a - 1, [put |-> e \o g.put, i |-> g.i])
<1>1. PICK k \in a..Len(t), y \in Seq(Ascii) : Tells(t, a, k, y, g)
  BY DEF TellsOn
<1>2. e \in Seq(Ascii)
  BY DEF Stands
<1>3. PICK z, h, ch : z = e \o y /\ h = [put |-> e \o g.put, i |-> g.i] /\ ch = t[a]
  OBVIOUS
<1>4. z \in Seq(Ascii) /\ k \in (a - 1)..Len(t) /\ (a - 1) + 1 = a /\ ch \in Chr
  BY <1>2, <1>3
<1>5. h.i = Bound(t, k) /\ h.put = z \o <<0>>
  <2>1. e \o (y \o <<0>>) = (e \o y) \o <<0>>
    <3>1. PICK w, B : w = <<0>> /\ B = Ascii \cup {0}
      OBVIOUS
    <3>2. w \in Seq(B) /\ e \in Seq(B) /\ y \in Seq(B)
      BY <1>2, <3>1
    <3>3. e \o (y \o w) = (e \o y) \o w
      BY <3>2
    <3> QED
      BY <3>1, <3>3
  <2>2. g.i = Bound(t, k) /\ g.put = y \o <<0>>
    BY <1>1 DEF Tells
  <2>3. h.put = e \o g.put /\ h.i = g.i
    BY <1>3
  <2> QED
    BY <1>3, <2>1, <2>2, <2>3, Zenon
<1>6. ASSUME NEW x, NEW u, Told(x, u)
      PROVE  Told(x \o z, u \o SubSeq(t, a, k))
  <2>1. x \in Seq(Ascii) /\ u \in Seq(Chr)
    BY <1>6 DEF Told, Parts
  <2>2. Told(x \o e, Append(u, ch))
    BY <1>3, <1>4, <1>6, ToldMore
  <2>3. Told((x \o e) \o y, Append(u, ch) \o SubSeq(t, a + 1, k))
    BY <1>1, <2>2, Zenon DEF Tells
  <2>4. (x \o e) \o y = x \o z
    BY <1>2, <1>3, <2>1
  <2>5. Append(u, ch) \o SubSeq(t, a + 1, k) = u \o SubSeq(t, a, k)
    BY <1>3, <2>1, PartMore
  <2> QED
    BY <2>3, <2>4, <2>5, Zenon
<1>7. Tells(t, a - 1, k, z, h)
  BY <1>4, <1>5, <1>6, Zenon DEF Tells
<1> QED
  BY <1>3, <1>4, <1>7, Zenon DEF TellsOn

\* One buffer full of u8_escape writes some more characters, each in a way that is
\* read back as that character, and gets on.
LEMMA EscapeTells ==
  ASSUME NEW t \in Seq(Chr), NEW a \in 0..(Len(t) - 1), NEW sz \in Nat, sz > Reserve,
         NEW quotes \in BOOLEAN, NEW ascii \in BOOLEAN,
         NEW printable, \A c \in printable : c \in Int /\ 32 <= c /\ c <= 126,
         NEW r, r = u8_escape(sz, Stored(t), Bound(t, a), Bound(t, Len(t)), quotes, ascii, printable)
  PROVE  /\ Len(r.put) \in 2..sz /\ Last(r.put) = 0
         /\ \E k \in (a + 1)..Len(t), y \in Seq(Ascii) : Tells(t, a, k, y, r)
<1>1. PICK s, N, end : s = Stored(t) /\ N = Len(t) /\ end = Bound(t, N)
  OBVIOUS
<1>2. /\ s \in Seq(Octet) /\ N \in Nat /\ end \in Nat /\ end < Len(s) /\ end <= Len(s)
      /\ a \in 0..N /\ a \in 0..Len(t) /\ a + 1 \in 1..N
  <2>1. N \in Nat /\ N \in 0..Len(t) /\ a \in 0..N /\ a + 1 \in 1..N
    BY <1>1
  <2>2. end \in Nat
    BY <1>1, <2>1, Parted
  <2>3. s \in Seq(Octet) /\ Len(s) = end + 1
    BY <1>1, StoredBytes
  <2> QED
    BY <1>1, <2>1, <2>2, <2>3
<1>3. isutf(At(s, end))
  <2>1. At(s, end) = 0
    BY <1>1, StoredBytes
  <2> QED
    BY <2>1 DEF isutf
<1>4. PICK f : f = PutsFrom(sz, s, end, quotes, ascii, printable)
  OBVIOUS
<1>5. f = PutsAll(sz, s, end, quotes, ascii, printable, f)
  BY <1>2, <1>4, PutsExist
<1>6. r = f[Bound(t, a)][0]
  BY <1>1, <1>4, EscapeUnfolds, Zenon
<1>7. \A p \in Nat : f[p] = Puts(sz, s, end, quotes, ascii, printable, f, p)
  <2>1. f = [p \in Nat |-> Puts(sz, s, end, quotes, ascii, printable, f, p)]
    BY <1>5, Zenon DEF PutsAll
  <2> QED
    BY <2>1, Zenon
<1> DEFINE S == {j \in 0..N : \A n \in Nat : TellsOn(t, j, f[Bound(t, j)][n])}
<1>8. N \in S
  <2>1. ASSUME NEW n \in Nat PROVE TellsOn(t, N, f[end][n])
    <3>1. end >= end
      BY <1>2
    <3>2. f[end][n] = [put |-> <<0>>, i |-> end]
      <4>1. f[end] = Puts(sz, s, end, quotes, ascii, printable, f, end)
        BY <1>2, <1>7
      <4> QED
        BY <3>1, <4>1 DEF Puts
    <3>3. N \in 0..Len(t)
      BY <1>1, <1>2
    <3> QED
      BY <1>1, <3>2, <3>3, TellsNothing, Zenon
  <2>2. N \in 0..N
    BY <1>2
  <2> QED
    BY <1>1, <2>1, <2>2
<1>9. \A j \in 1..N : j \in S => j - 1 \in S
  <2> TAKE j \in 1..N
  <2> HAVE j \in S
  <2>1. j \in 1..Len(t) /\ j - 1 \in 0..N /\ j - 1 \in 0..Len(t) /\ j \in 0..Len(t)
    BY <1>1, <1>2
  <2>2. PICK p, q : p = Bound(t, j - 1) /\ q = Bound(t, j)
    OBVIOUS
  <2>3. p \in Nat /\ q \in Nat
    BY <2>1, <2>2, Parted
  <2>4. PICK e : e = Escaped(s, p, quotes, ascii, printable)
    OBVIOUS
  <2>5. e.i = q /\ Stands(e.put, t[j])
    BY <1>1, <2>1, <2>2, <2>4, EscapedStands
  <2>6. Len(e.put) \in Nat
    BY <2>5 DEF Stands
  <2>8. f[p] = Puts(sz, s, end, quotes, ascii, printable, f, p)
    BY <1>7, <2>3
  <2>7. ASSUME NEW n \in Nat PROVE TellsOn(t, j - 1, f[p][n])
    <3>1. CASE p >= end \/ n >= sz - Reserve
      <4>1. f[p][n] = [put |-> <<0>>, i |-> p]
        BY <2>8, <3>1 DEF Puts
      <4> QED
        BY <2>1, <2>2, <4>1, TellsNothing, Zenon
    <3>2. CASE ~(p >= end \/ n >= sz - Reserve)
      <4>1. PICK m \in Nat : m = n + Len(e.put)
        BY <2>6
      <4>2. PICK g : g = f[q][m]
        OBVIOUS
      <4>3. f[p][n] = [put |-> e.put \o g.put, i |-> g.i]
        <5>1. g = f[e.i][n + Len(e.put)]
          BY <2>5, <4>1, <4>2
        <5>2. f[p][n] = IF p >= end \/ n >= sz - Reserve THEN [put |-> <<0>>, i |-> p]
                        ELSE [put |-> e.put \o g.put, i |-> g.i]
          BY <2>4, <2>8, <5>1 DEF Puts
        <5> QED
          BY ONLY <3>2, <5>2
      <4>4. TellsOn(t, j, g)
        BY <2>2, <4>1, <4>2
      <4> QED
        BY <2>1, <2>5, <4>3, <4>4, TellsMore, Zenon
    <3> QED
      BY <3>1, <3>2
  <2> QED
    BY <2>1, <2>2, <2>7
<1> HIDE DEF S
<1>10. a \in S
  <2>1. 0..N \subseteq S
    BY <1>2, <1>8, <1>9, Descend
  <2> QED
    BY <1>2, <2>1
<1>11. TellsOn(t, a, r)
  BY <1>6, <1>10 DEF S
<1>12. PICK p : p = Bound(t, a)
  OBVIOUS
<1>13. Len(r.put) \in 2..sz /\ Last(r.put) = 0 /\ r.i > p
  <2>1. p \in Nat /\ p < end
    <3>1. p \in Nat
      BY <1>2, <1>12, Parted
    <3>2. p < end
      <4>1. (a + 1) - 1 = a
        BY <1>2
      <4> QED
        BY <1>1, <1>2, <1>12, Rising
    <3> QED
      BY <3>1, <3>2
  <2>2. p \in 0..(end - 1)
    BY <1>2, <2>1
  <2>3. r = u8_escape(sz, s, p, end, quotes, ascii, printable)
    BY <1>1, <1>12, Zenon
  <2>4. Len(r.put) \in 2..sz /\ Last(r.put) = 0 /\ r.i \in (p + 1)..end
    BY <1>2, <1>3, <2>1, <2>2, <2>3, EscapeStaysInBuffer
  <2> QED
    BY <2>1, <2>4
<1>14. PICK k \in a..Len(t), y \in Seq(Ascii) : Tells(t, a, k, y, r)
  BY <1>11 DEF TellsOn
<1>15. k # a
  <2>1. r.i = Bound(t, k)
    BY <1>14 DEF Tells
  <2>2. p \in Nat
    BY <1>2, <1>12, Parted
  <2> QED
    BY <1>12, <1>13, <2>1, <2>2
<1>16. k \in (a + 1)..Len(t)
  BY <1>2, <1>15
<1> QED
  BY <1>13, <1>14, <1>16

-------------------------------------------------------------------------------
(* What u8_unescape reads.                                                 *)

\* The bytes of a piece are those of its first character and of the rest.
LEMMA EncodedPart ==
  ASSUME NEW t \in Seq(Chr), NEW a \in 1..Len(t), NEW k \in a..Len(t)
  PROVE  Encoded(SubSeq(t, a, k)) = u8_wc_toutf8(t[a]) \o Encoded(SubSeq(t, a + 1, k))
<1>1. PICK e, v, w, ch : e = <<>> /\ v = SubSeq(t, a + 1, k) /\ w = SubSeq(t, a, k) /\ ch = t[a]
  OBVIOUS
<1>2. e \in Seq(Chr) /\ ch \in Chr /\ w \in Seq(Chr) /\ v \in Seq(Chr)
  BY <1>1
<1>3. Append(e, ch) \o v = e \o w
  BY <1>1, <1>2, PartMore
<1>4. Append(e, ch) = <<ch>> /\ e \o w = w /\ <<ch>> \in Seq(Chr)
  BY <1>1, <1>2, ConcatEmptySeq
<1>5. Encoded(<<ch>> \o v) = Encoded(<<ch>>) \o Encoded(v)
  BY <1>2, <1>4, EncodedConcat
<1>6. Encoded(<<ch>>) = u8_wc_toutf8(ch)
  BY <1>2, EncodedOne
<1> QED
  BY <1>1, <1>3, <1>4, <1>5, <1>6, Zenon

\* A run of digits has an end.
LEMMA DigitsLength ==
  ASSUME NEW S, NEW s \in Seq(S), NEW p \in 0..Len(s), NEW max \in Nat, NEW digits
  PROVE  Len(DigitsAt(s, p, max, digits)) \in Nat
<1> DEFINE K == {k \in 0..max : k = max \/ p + k >= Len(s) \/ At(s, p + k) \notin digits}
<1>1. max \in K /\ K \in SUBSET Nat
  OBVIOUS
<1>2. PICK m : m = Min(K)
  OBVIOUS
<1>3. DigitsAt(s, p, max, digits) = SubSeq(s, p + 1, p + m)
  BY <1>2 DEF DigitsAt
<1>4. m \in 0..max /\ p + m <= Len(s)
  <2>1. m \in K /\ \A k \in K : m <= k
    <3> HIDE DEF K
    <3> QED
      BY <1>1, <1>2, LeastOf
  <2>2. ASSUME p + m > Len(s) PROVE FALSE
    <3>1. Len(s) - p \in K /\ ~(m <= Len(s) - p)
      BY <2>1, <2>2
    <3> QED
      BY <2>1, <3>1
  <2> QED
    BY <2>1, <2>2
<1> HIDE DEF K
<1> QED
  BY <1>3, <1>4

\* What is unescaped is passed.
LEMMA UnescapedMoves ==
  ASSUME NEW s \in Seq(Octet), NEW p \in Nat, p + 1 < Len(s)
  PROVE  Unescaped(s, p).i \in Nat /\ Unescaped(s, p).i > p
<1>1. PICK q : q = p + 1
  OBVIOUS
<1>2. q \in 0..Len(s) /\ q + 1 \in 0..Len(s) /\ q \in Nat
  BY <1>1
<1>3. PICK c, octal, hex : /\ c = At(s, q) /\ octal = DigitsAt(s, q, 3, octal_digit)
                           /\ hex = DigitsAt(s, q + 1, Wide[c], hex_digit)
  OBVIOUS
<1>4. Len(octal) \in Nat
  BY <1>2, <1>3, DigitsLength
<1>5. c \in DOMAIN Wide => Len(hex) \in Nat
  <2> SUFFICES ASSUME c \in DOMAIN Wide PROVE Len(hex) \in Nat
    OBVIOUS
  <2>1. Wide[c] \in Nat
    BY WideIs
  <2> QED
    BY <1>2, <1>3, <2>1, DigitsLength
<1>6. u8_read_escape_sequence(s, q)
        = CASE c \in octal_digit -> Read(Valued(octal, 8), q + Len(octal))
            [] c \in DOMAIN Wide -> Read(Valued(hex, 16), q + 1 + Len(hex))
            [] OTHER -> Read(Unsigned(read_escape_control_char(c)), q + 1)
  BY <1>3, Zenon DEF u8_read_escape_sequence
<1>7. \/ u8_read_escape_sequence(s, q) = Read(Valued(octal, 8), q + Len(octal))
      \/ c \in DOMAIN Wide /\ u8_read_escape_sequence(s, q) = Read(Valued(hex, 16), q + 1 + Len(hex))
      \/ u8_read_escape_sequence(s, q) = Read(Unsigned(read_escape_control_char(c)), q + 1)
  BY <1>6
<1>8. Unescaped(s, p) = IF At(s, p) = Backslash THEN u8_read_escape_sequence(s, q)
                        ELSE Read(Unsigned(At(s, p)), p + 1)
  BY <1>1, Zenon DEF Unescaped
<1>9. \A v, x : Read(v, x).i = x
  BY DEF Read
<1>10. PICK e : e = u8_read_escape_sequence(s, q)
  OBVIOUS
<1>11. e.i \in Nat /\ e.i > p
  BY <1>1, <1>2, <1>4, <1>5, <1>7, <1>9, <1>10
<1> QED
  BY <1>8, <1>9, <1>10, <1>11

\* The loop of u8_unescape, and one round of it if f is what it does behind.
Unescaping(sz, s, f, p) ==
  [c \in Nat |->
     LET r == Unescaped(s, p)
         u == u8_wc_toutf8(r.ch)
     IN IF p >= Len(s) \/ At(s, p) = 0 \/ c >= sz \/ Len(u) > sz - c THEN <<>>
        ELSE u \o f[r.i][c + Len(u)]]

UnescapingFrom(sz, s) == CHOOSE f : f = [p \in Nat |-> Unescaping(sz, s, f, p)]

LEMMA UnescapeUnfolds ==
  ASSUME NEW sz, NEW s
  PROVE  u8_unescape(sz, s) = UnescapingFrom(sz, s)[0][0]
BY DEF u8_unescape, Unescaping, UnescapingFrom, Unescaped

\* A round of u8_unescape depends on what it does behind, only.
LEMMA UnescapingDepends ==
  ASSUME NEW s \in Seq(Octet), Len(s) >= 1, At(s, Len(s) - 1) = 0, NEW sz, NEW f, NEW g, NEW p \in Nat,
         p < Len(s) => \A q \in Nat : q > p => f[q] = g[q]
  PROVE  Unescaping(sz, s, f, p) = Unescaping(sz, s, g, p)
<1>1. CASE p >= Len(s) \/ At(s, p) = 0
  BY <1>1, Zenon DEF Unescaping
<1>2. CASE ~(p >= Len(s) \/ At(s, p) = 0)
  <2>1. p < Len(s) /\ p # Len(s) - 1 /\ Len(s) \in Nat
    BY <1>2
  <2>2. p + 1 < Len(s)
    BY ONLY <2>1, p \in Nat
  <2>3. Unescaped(s, p).i \in Nat /\ Unescaped(s, p).i > p
    BY <2>2, UnescapedMoves
  <2>4. f[Unescaped(s, p).i] = g[Unescaped(s, p).i]
    BY <2>1, <2>3
  <2> QED
    BY <2>4, Zenon DEF Unescaping
<1> QED
  BY <1>1, <1>2

\* So its loop comes to an end, whatever bytes there are.
LEMMA UnescapingExists ==
  ASSUME NEW s \in Seq(Octet), Len(s) >= 1, At(s, Len(s) - 1) = 0, NEW sz
  PROVE  LET f == UnescapingFrom(sz, s) IN f = [p \in Nat |-> Unescaping(sz, s, f, p)]
<1> DEFINE end == Len(s)
           B(f, p) == Unescaping(sz, s, f, p)
           From(d) == {p \in Nat : p + d >= end}
           Q(d) == \E f : f = [p \in From(d) |-> B(f, p)]
<1>1. \A f, g : \A p \in Nat :
        (p < end => \A q \in Nat : q > p => f[q] = g[q]) => B(f, p) = B(g, p)
  BY UnescapingDepends
<1>0. end \in Nat
  OBVIOUS
<1> HIDE DEF B, end
<1>2. Q(0)
  <2>1. PICK g : g = [p \in From(0) |-> B(0, p)]
    OBVIOUS
  <2>2. \A p \in From(0) : B(0, p) = B(g, p)
    BY <1>0, <1>1
  <2> QED
    BY <2>1, <2>2
<1>3. ASSUME NEW d \in Nat, Q(d) PROVE Q(d + 1)
  <2>1. PICK f : f = [p \in From(d) |-> B(f, p)]
    BY <1>3
  <2>2. PICK g : g = [p \in From(d + 1) |-> B(f, p)]
    OBVIOUS
  <2>3. \A p \in From(d) : f[p] = g[p]
    BY <1>0, <2>1, <2>2
  <2>4. \A p \in From(d + 1) : B(f, p) = B(g, p)
    <3> TAKE p \in From(d + 1)
    <3>1. p < end => \A q \in Nat : q > p => f[q] = g[q]
      BY <1>0, <2>3
    <3> QED
      BY <1>1, <3>1
  <2> HIDE DEF From
  <2>5. g = [p \in From(d + 1) |-> B(g, p)]
    BY <2>2, <2>4
  <2> QED
    BY <2>5, Zenon
<1>4. From(end) = Nat
  BY <1>0
<1>5. Q(end)
  <2> HIDE DEF Q
  <2> DEFINE T == {d \in Nat : Q(d)}
  <2>1. 0 \in T /\ \A d \in 0..(end - 1) : d \in T => d + 1 \in T
    BY <1>0, <1>2, <1>3
  <2> HIDE DEF T
  <2>2. 0..end \subseteq T /\ end \in 0..end
    BY <1>0, <2>1, Climb
  <2> QED
    BY <2>2 DEF T
<1> HIDE DEF From
<1>6. \E f : f = [p \in Nat |-> Unescaping(sz, s, f, p)]
  BY <1>4, <1>5, Zenon DEF B
<1> QED
  BY <1>6, Zenon DEF UnescapingFrom

\* What SubSeq cuts out.
LEMMA Piece ==
  ASSUME NEW S, NEW x \in Seq(S), NEW p \in 0..Len(x), NEW q \in p..Len(x)
  PROVE  /\ SubSeq(x, p + 1, q) \in Seq(S) /\ Len(SubSeq(x, p + 1, q)) = q - p
         /\ \A k \in 1..(q - p) : SubSeq(x, p + 1, q)[k] = x[p + k]
<1>1. p \in Nat /\ q \in Nat /\ q <= Len(x) /\ Len(x) \in Nat /\ p <= q
  OBVIOUS
<1>2. PICK n \in Nat : q = p + n
  <2>1. q - p \in Nat /\ q = p + (q - p)
    BY <1>1
  <2> QED
    BY <2>1
<1>3. q - p = n
  BY <1>1, <1>2
<1>4. PICK e : e = SubSeq(x, p + 1, p + n)
  OBVIOUS
<1>5. e \in Seq(S)
  BY <1>1, <1>2, <1>4
<1>6. Len(e) = n
  BY <1>1, <1>2, <1>4
<1>7. \A k \in 1..n : e[k] = x[p + k]
  BY <1>1, <1>2, <1>4
<1> QED
  BY <1>2, <1>3, <1>4, <1>5, <1>6, <1>7

\* u8_unescape makes the characters again that were escaped.
LEMMA UnescapeTells ==
  ASSUME NEW x, NEW u, Told(x, u)
  PROVE  u8_unescape(Len(x) + 1, x \o <<0>>) = Encoded(u)
<1>1. PICK b : Parts(x, u, b)
  BY DEF Told
<1>2. PICK n, l, s, sz : n = Len(u) /\ l = Len(x) /\ s = x \o <<0>> /\ sz = Len(x) + 1
  OBVIOUS
<1>3. /\ x \in Seq(Ascii) /\ u \in Seq(Chr) /\ b \in [0..n -> 0..l] /\ n \in Nat /\ l \in Nat
      /\ b[0] = 0 /\ b[n] = l
      /\ \A j \in 1..n : b[j - 1] < b[j] /\ Stands(SubSeq(x, b[j - 1] + 1, b[j]), u[j])
  BY <1>1, <1>2 DEF Parts
<1>4. /\ s \in Seq(Octet) /\ Len(s) = l + 1 /\ sz = l + 1 /\ At(s, l) = 0
      /\ \A p \in 0..(l - 1) : At(s, p) = x[p + 1]
  <2>1. PICK z : z = <<0>>
    OBVIOUS
  <2>2. z \in Seq(Octet) /\ Len(z) = 1 /\ z[1] = 0
    BY <2>1 DEF Octet
  <2>3. x \in Seq(Octet)
    BY <1>3 DEF Octet, Ascii
  <2>4. s = x \o z /\ s \in Seq(Octet) /\ Len(s) = l + 1 /\ s[l + 1] = 0
        /\ \A p \in 1..l : s[p] = x[p]
    BY <1>2, <2>1, <2>2, <2>3
  <2>5. \A p \in 0..(l - 1) : At(s, p) = x[p + 1]
    <3> TAKE p \in 0..(l - 1)
    <3>1. p + 1 \in 1..l
      BY <1>3
    <3> QED
      BY <2>4, <3>1 DEF At
  <2> QED
    BY <1>2, <2>4, <2>5 DEF At
<1>5. PICK f : f = UnescapingFrom(sz, s)
  OBVIOUS
<1>6. \A p \in Nat : f[p] = Unescaping(sz, s, f, p)
  <2>1. Len(s) >= 1 /\ At(s, Len(s) - 1) = 0
    BY <1>3, <1>4
  <2>2. f = [p \in Nat |-> Unescaping(sz, s, f, p)]
    BY <1>4, <1>5, <2>1, UnescapingExists
  <2> QED
    BY <2>2, Zenon
<1>7. u8_unescape(sz, s) = f[0][0]
  BY <1>5, UnescapeUnfolds, Zenon
<1> DEFINE After(j) == Encoded(SubSeq(u, j + 1, n))
           S == {j \in 0..n : \A c \in Nat : c <= b[j] => f[b[j]][c] = After(j)}
<1>8. n \in S
  <2>1. After(n) = <<>>
    <3>1. SubSeq(u, n + 1, n) = <<>>
      BY <1>3
    <3> QED
      BY <3>1, EncodedNil, Zenon
  <2>2. f[l] = Unescaping(sz, s, f, l)
    BY <1>3, <1>6
  <2>3. \A c \in Nat : f[l][c] = <<>>
    BY <1>4, <2>2 DEF Unescaping
  <2>4. n \in 0..n
    BY <1>3
  <2> HIDE DEF After
  <2> QED
    BY <1>3, <2>1, <2>3, <2>4
<1>9. \A j \in 1..n : j \in S => j - 1 \in S
  <2> TAKE j \in 1..n
  <2> HAVE j \in S
  <2>1. j \in 0..n /\ j - 1 \in 0..n /\ (j - 1) + 1 = j /\ j \in 1..Len(u) /\ n \in j..Len(u)
    BY <1>2, <1>3
  <2>2. PICK p, q, ch, e : p = b[j - 1] /\ q = b[j] /\ ch = u[j] /\ e = SubSeq(x, p + 1, q)
    OBVIOUS
  <2>3. p \in 0..l /\ q \in 0..l /\ p < q /\ ch \in Chr /\ Stands(e, ch)
    BY <1>3, <2>1, <2>2
  <2>4. p \in Nat /\ q \in Nat /\ q - p \in Nat /\ p <= l - 1 /\ p \in 0..(l - 1)
    BY <1>3, <2>3
  <2>5. e \in Seq(Ascii) /\ Len(e) = q - p /\ \A k \in 1..(q - p) : e[k] = x[p + k]
    <3>1. p \in 0..Len(x) /\ q \in p..Len(x)
      BY <1>2, <1>3, <2>3, <2>4
    <3>2. x \in Seq(Ascii)
      BY <1>3
    <3>3. /\ SubSeq(x, p + 1, q) \in Seq(Ascii) /\ Len(SubSeq(x, p + 1, q)) = q - p
          /\ \A k \in 1..(q - p) : SubSeq(x, p + 1, q)[k] = x[p + k]
      BY ONLY <3>1, <3>2, Piece
    <3> QED
      BY <2>2, <3>3
  <2>6. Lies(e, s, p)
    <3>1. p + (q - p) = q /\ q <= l + 1
      BY <1>3, <2>3
    <3>2. ASSUME NEW k \in 0..(q - p - 1) PROVE At(s, p + k) = e[k + 1]
      <4>1. k + 1 \in 1..(q - p) /\ p + (k + 1) = (p + k) + 1 /\ p + k \in 0..(l - 1)
        <5>1. p \in Nat /\ q \in Nat /\ p < q /\ q <= l /\ l \in Nat
          BY <1>3, <2>3
        <5> QED
          BY ONLY <5>1, k \in 0..(q - p - 1)
      <4> QED
        BY <1>4, <2>5, <4>1
    <3> QED
      BY <1>4, <2>5, <3>1, <3>2 DEF Lies
  <2>7. Unescaped(s, p) = Read(ch, q)
    <3>1. p + Len(e) = q
      BY <2>3, <2>5
    <3> QED
      BY <1>4, <2>3, <2>4, <2>6, <3>1 DEF Stands
  <2>8. PICK w : w = u8_wc_toutf8(ch)
    OBVIOUS
  <2>9. Len(w) \in Nat /\ Len(w) <= q - p
    <3>1. Len(w) = u8_charlen(ch) /\ u8_charlen(ch) \in 1..4
      BY <2>3, <2>8, Written
    <3>2. u8_charlen(ch) <= Len(e)
      BY <2>3 DEF Stands
    <3> QED
      BY <2>4, <2>5, <3>1, <3>2
  <2>10. At(s, p) # 0 /\ p < Len(s)
    <3>0. p + 1 \in 1..Len(x)
      BY <1>2, <1>3, <2>4
    <3>1. x[p + 1] \in Ascii
      BY <1>3, <3>0, ElementOfSeq
    <3>2. x[p + 1] # 0
      BY <3>1 DEF Ascii
    <3> QED
      BY <1>3, <1>4, <2>4, <3>2
  <2>11. f[p] = Unescaping(sz, s, f, p)
    BY <1>6, <2>4
  <2>12. After(j - 1) = w \o After(j)
    BY <1>3, <2>1, <2>2, <2>8, EncodedPart
  <2> HIDE DEF After
  <2>13. ASSUME NEW c \in Nat, c <= p PROVE f[p][c] = After(j - 1)
    <3>1. PICK m \in Nat : m = c + Len(w)
      BY <2>9
    <3>2. m <= q
      BY <2>3, <2>4, <2>9, <2>13, <3>1
    <3>3. f[q][m] = After(j)
      BY <2>2, <3>2
    <3>4. ~(p >= Len(s) \/ At(s, p) = 0 \/ c >= sz \/ Len(w) > sz - c)
      <4>1. c < sz /\ Len(w) <= sz - c
        <5>1. l \in Nat /\ sz = l + 1 /\ p \in Nat /\ q \in Nat /\ p <= l - 1 /\ q <= l
          <6>1. sz = l + 1
            BY <1>4
          <6>2. l \in Nat /\ p \in Nat /\ q \in Nat /\ p <= l - 1 /\ q <= l
            BY <1>3, <2>3, <2>4
          <6> QED
            BY ONLY <6>1, <6>2
        <5>2. c \in Nat /\ c <= p
          BY <2>13
        <5>3. PICK d : d = Len(w)
          OBVIOUS
        <5>4. d \in Nat /\ d <= q - p
          BY <2>9, <5>3
        <5>5. c < sz /\ d <= sz - c
          BY ONLY <5>1, <5>2, <5>4
        <5> QED
          BY <5>3, <5>5
      <4> QED
        BY <1>3, <1>4, <2>4, <2>10, <4>1
    <3>5. Unescaped(s, p).ch = ch /\ Unescaped(s, p).i = q
      BY <2>7 DEF Read
    <3>6. f[p][c] = IF p >= Len(s) \/ At(s, p) = 0 \/ c >= sz \/ Len(w) > sz - c THEN <<>>
                    ELSE w \o f[q][c + Len(w)]
      BY <2>8, <2>11, <3>5 DEF Unescaping
    <3>7. f[p][c] = w \o f[q][m]
      BY ONLY <3>1, <3>4, <3>6
    <3> QED
      BY <2>12, <3>3, <3>7, Zenon
  <2> QED
    BY <2>1, <2>2, <2>13
<1> HIDE DEF S
<1>10. 0 \in S
  <2>1. 0..n \subseteq S
    BY <1>3, <1>8, <1>9, Descend
  <2> QED
    BY <1>3, <2>1
<1>11. f[0][0] = After(0)
  <2> HIDE DEF After
  <2> QED
    BY <1>3, <1>10 DEF S
<1>12. After(0) = Encoded(u)
  <2>1. SubSeq(u, 0 + 1, n) = u
    BY <1>2, <1>3
  <2> QED
    BY <2>1, Zenon
<1> QED
  BY <1>2, <1>7, <1>11, <1>12, Zenon

-------------------------------------------------------------------------------
(* UTF-8 by its definition.                                                *)

\* What CodePoint adds up, byte by byte.
Adds(bs, v) ==
  /\ v \in [1..Len(bs) -> Int] /\ v[1] = bs[1] - Tag[Len(bs)]
  /\ \A j \in 2..Len(bs) : v[j] = v[j - 1] * 64 + (bs[j] - 128)

CodePointSum(bs, v) ==
  [j \in 1..Len(bs) |->
     IF j = 1 THEN bs[1] - Tag[Len(bs)] ELSE v[j - 1] * 64 + (bs[j] - 128)]

\* CodePoint adds up the free bits, byte by byte.
LEMMA CodePointBy ==
  ASSUME NEW bs \in Seq(Octet), Len(bs) \in 1..6
  PROVE  \E v : Adds(bs, v) /\ CodePoint(bs) = v[Len(bs)]
<1>0. PICK n : n = Len(bs)
  OBVIOUS
<1>1. n \in 1..6 /\ n \in Nat /\ 1 \in 1..n /\ \A j \in 1..n : bs[j] \in Octet /\ bs[j] \in Int
  <2>1. \A j \in 1..n : bs[j] \in Octet
    BY <1>0, ElementOfSeq
  <2>2. n \in 1..6 /\ n \in Nat
    BY <1>0
  <2>3. 1 \in 1..n
    BY <2>2
  <2>4. \A b \in Octet : b \in Int
    BY DEF Octet
  <2> QED
    BY <2>1, <2>2, <2>3, <2>4
<1>2. Tag[n] \in Int
  <2>1. n \in {1, 2, 3, 4, 5, 6}
    BY <1>1
  <2> QED
    BY <2>1 DEF Tag
<1> DEFINE D == 1..n
           m == [j \in D |-> j]
           stop == {1}
           base == [j \in D |-> bs[1] - Tag[n]]
           next == [j \in D |-> j - 1]
           rule == [j \in D |-> [x \in Int |-> x * 64 + (bs[j] - 128)]]
           G(v, j) == IF j = 1 THEN bs[1] - Tag[n] ELSE v[j - 1] * 64 + (bs[j] - 128)
<1>3. 1 \in D /\ bs[1] - Tag[n] \in Int
  <2>1. 1 \in D
    BY <1>1
  <2>2. bs[1] \in Int
    BY <1>1
  <2> HIDE DEF D
  <2> QED
    BY <1>2, <2>1, <2>2
<1>4. Recurs(D, Int, n, m, stop, base, next, rule)
  <2>1. m \in [D -> 0..n]
    BY <1>1
  <2>2. base \in [D -> Int]
    BY <1>3
  <2>3. ASSUME NEW j \in D, j \notin stop
        PROVE  /\ next[j] \in D /\ m[next[j]] < m[j]
               /\ \A x \in Int : rule[j][x] \in Int
    <3>1. j - 1 \in D /\ next[j] = j - 1
      BY <1>1, <2>3
    <3>2. m[next[j]] < m[j]
      BY <1>1, <3>1
    <3>3. bs[j] \in Int
      BY <1>1
    <3>4. \A x \in Int : rule[j][x] \in Int
      BY <3>3
    <3> QED
      BY <3>1, <3>2, <3>4
  <2> HIDE DEF D, m, stop, base, next, rule
  <2> QED
    BY <1>1, <2>1, <2>2, <2>3 DEF Recurs
<1>5. PICK f \in [D -> Int] :
        \A j \in D : f[j] = IF j \in stop THEN base[j] ELSE rule[j][f[next[j]]]
  <2> HIDE DEF D, m, stop, base, next, rule
  <2> QED
    BY <1>4, Recursion
<1>6. \A j \in D : f[j] = G(f, j)
  <2> TAKE j \in D
  <2>1. CASE j = 1
    BY <1>5, <2>1
  <2>2. CASE j # 1
    <3>1. j - 1 \in D
      BY <1>1, <2>2
    <3>2. f[j - 1] \in Int /\ next[j] = j - 1 /\ j \notin stop
      BY <1>5, <2>2, <3>1
    <3>3. f[j] = rule[j][f[j - 1]]
      <4> HIDE DEF D, m, stop, base, next, rule
      <4> QED
        BY <1>5, <3>2
    <3>4. rule[j][f[j - 1]] = f[j - 1] * 64 + (bs[j] - 128)
      BY <3>2
    <3> HIDE DEF D, m, stop, base, next, rule
    <3> QED
      BY <2>2, <3>3, <3>4
  <2> QED
    BY <2>1, <2>2
<1>7. f = CodePointSum(bs, f)
  <2>1. f = [j \in 1..Len(bs) |-> f[j]]
    BY <1>0, <1>5
  <2>2. \A j \in 1..Len(bs) :
          f[j] = IF j = 1 THEN bs[1] - Tag[Len(bs)] ELSE f[j - 1] * 64 + (bs[j] - 128)
    BY <1>0, <1>6
  <2> QED
    BY <2>1, <2>2 DEF CodePointSum
<1>8. PICK v : v = CHOOSE x : x = CodePointSum(bs, x)
  OBVIOUS
<1>9. v = CodePointSum(bs, v)
  BY <1>7, <1>8, Zenon
<1>10. CodePoint(bs) = v[n]
  <2>1. CodePoint(bs) = v[Len(bs)]
    BY <1>8, Zenon DEF CodePoint, CodePointSum
  <2> QED
    BY <1>0, <2>1
<1>11. \A j \in D : v[j] = G(v, j)
  BY <1>0, <1>9 DEF CodePointSum
<1>12. v[1] = bs[1] - Tag[n] /\ \A j \in 2..n : v[j] = v[j - 1] * 64 + (bs[j] - 128)
  BY <1>1, <1>3, <1>11
<1>13. v \in [D -> Int]
  <2> DEFINE S == {j \in 1..n : v[j] \in Int}
  <2>1. 1 \in S
    BY <1>3, <1>12
  <2>2. \A j \in 1..(n - 1) : j \in S => j + 1 \in S
    <3> TAKE j \in 1..(n - 1)
    <3> HAVE j \in S
    <3>1. j + 1 \in 2..n /\ j + 1 \in 1..n /\ (j + 1) - 1 = j
      BY <1>1
    <3>2. bs[j + 1] \in Int
      BY <1>1, <3>1
    <3>3. v[j + 1] = v[j] * 64 + (bs[j + 1] - 128)
      BY <1>12, <3>1
    <3> QED
      BY <3>1, <3>2, <3>3
  <2> HIDE DEF S
  <2>3. 1..n \subseteq S
    <3> DEFINE T == {d \in 0..(n - 1) : d + 1 \in S}
    <3>1. 0 \in T /\ \A d \in 0..(n - 1 - 1) : d \in T => d + 1 \in T
      <4>1. 0 \in T
        BY <1>1, <2>1
      <4>2. ASSUME NEW d \in 0..(n - 1 - 1), d \in T PROVE d + 1 \in T
        <5>1. d + 1 \in 1..(n - 1) /\ d + 1 \in 0..(n - 1)
          BY <1>1
        <5> QED
          BY <2>2, <4>2, <5>1
      <4> QED
        BY <4>1, <4>2
    <3> HIDE DEF T
    <3>2. 0..(n - 1) \subseteq T
      <4>1. n - 1 \in Nat
        BY <1>1
      <4> QED
        BY <3>1, <4>1, Climb
    <3>3. \A j \in 1..n : j - 1 \in T /\ (j - 1) + 1 = j
      BY <1>1, <3>2
    <3> QED
      BY <3>3 DEF T
  <2>4. \A j \in D : v[j] \in Int
    BY <2>3 DEF S
  <2>5. v = [j \in D |-> v[j]]
    BY <1>0, <1>9 DEF CodePointSum
  <2> HIDE DEF D
  <2> QED
    BY <2>4, <2>5
<1>14. Adds(bs, v)
  BY <1>0, <1>12, <1>13 DEF Adds
<1> QED
  BY <1>0, <1>10, <1>14

\* CodePoint is the inverse of u8_wc_toutf8.
LEMMA CodePointIs ==
  ASSUME NEW ch \in Chr
  PROVE  CodePoint(u8_wc_toutf8(ch)) = ch
<1>1. PICK bs, n : bs = u8_wc_toutf8(ch) /\ n = Len(bs)
  OBVIOUS
<1>2. bs \in Seq(Octet) /\ n = u8_charlen(ch) /\ n \in 1..4 /\ n \in 1..6
  <2>1. n \in 1..4 => n \in 1..6
    OBVIOUS
  <2> QED
    BY <1>1, <2>1, Written
<1>3. PICK v : Adds(bs, v) /\ CodePoint(bs) = v[n]
  BY <1>1, <1>2, CodePointBy
<1>4. /\ v[1] = bs[1] - Tag[n]
      /\ \A j \in 2..n : v[j] = v[j - 1] * 64 + (bs[j] - 128)
  BY <1>1, <1>3 DEF Adds
<1>5. ch \in Nat /\ ch < 1114112
  BY SMT DEF Chr
<1>6. /\ Tag[1] = 0 /\ Tag[2] = 192 /\ Tag[3] = 224 /\ Tag[4] = 240
  BY DEF Tag
<1>7. CASE ch < 128
  <2>1. n = 1 /\ bs[1] = ch
    BY <1>1, <1>2, <1>5, <1>7, One
  <2> QED
    BY <1>1, <1>3, <1>4, <1>5, <1>6, <2>1
<1>8. PICK a : a = ch \div 64
  OBVIOUS
<1>9. a \in Nat /\ Behind(ch) \in 128..191 /\ ch = a * 64 + Behind(ch) - 128
  BY <1>5, <1>8, BehindKeeps
<1>10. CASE 128 <= ch /\ ch < 2048
  <2>1. n = 2 /\ bs = <<192 + a, Behind(ch)>>
    BY <1>1, <1>2, <1>5, <1>8, <1>10, Two
  <2>2. bs[1] = 192 + a /\ bs[2] = Behind(ch)
    BY <2>1
  <2>3. v[1] = a
    <3>1. bs[1] = 192 + a /\ Tag[n] = 192 /\ a \in Nat
      BY <1>6, <1>9, <2>1, <2>2
    <3>2. v[1] = bs[1] - Tag[n]
      BY <1>4
    <3> QED
      BY ONLY <3>1, <3>2
  <2>4. v[2] = v[1] * 64 + (bs[2] - 128)
    BY <1>4, <2>1
  <2>5. v[2] = ch
    BY ONLY <1>5, <1>9, <2>2, <2>3, <2>4
  <2> QED
    BY <1>1, <1>3, <2>1, <2>5
<1>11. PICK b : b = a \div 64
  OBVIOUS
<1>12. b \in Nat /\ Behind(a) \in 128..191 /\ a = b * 64 + Behind(a) - 128 /\ b = ch \div 4096
  <2>1. b \in Nat /\ Behind(a) \in 128..191 /\ a = b * 64 + Behind(a) - 128
    BY <1>9, <1>11, BehindKeeps
  <2>2. b = ch \div 4096
    BY <1>5, <1>8, <1>11, Shifts
  <2> QED
    BY <2>1, <2>2
<1>13. CASE 2048 <= ch /\ ch < 65536
  <2>1. n = 3 /\ bs = <<224 + b, Behind(a), Behind(ch)>>
    BY <1>1, <1>2, <1>5, <1>8, <1>12, <1>13, Three
  <2>2. bs[1] = 224 + b /\ bs[2] = Behind(a) /\ bs[3] = Behind(ch)
    BY <2>1
  <2>3. v[1] = b
    <3>1. bs[1] = 224 + b /\ Tag[n] = 224 /\ b \in Nat
      BY <1>6, <1>12, <2>1, <2>2
    <3>2. v[1] = bs[1] - Tag[n]
      BY <1>4
    <3> QED
      BY ONLY <3>1, <3>2
  <2>4. v[2] = v[1] * 64 + (bs[2] - 128) /\ v[3] = v[2] * 64 + (bs[3] - 128)
    BY <1>4, <2>1
  <2>5. v[2] = a
    BY ONLY <1>9, <1>12, <2>2, <2>3, <2>4
  <2>6. v[3] = ch
    BY ONLY <1>5, <1>9, <2>2, <2>4, <2>5
  <2> QED
    BY <1>1, <1>3, <2>1, <2>6
<1>14. CASE 65536 <= ch
  <2>0. PICK c : c = b \div 64
    OBVIOUS
  <2>1. c \in Nat /\ Behind(b) \in 128..191 /\ b = c * 64 + Behind(b) - 128
    BY <1>12, <2>0, BehindKeeps
  <2>2. c = ch \div 262144
    BY <1>5, <1>12, <2>0, Shifts
  <2>3. n = 4 /\ bs = <<240 + c, Behind(b), Behind(a), Behind(ch)>>
    BY <1>1, <1>2, <1>5, <1>8, <1>12, <1>14, <2>2, Four
  <2>4. bs[1] = 240 + c /\ bs[2] = Behind(b) /\ bs[3] = Behind(a) /\ bs[4] = Behind(ch)
    BY <2>3
  <2>5. v[1] = c
    BY <1>4, <1>6, <2>1, <2>3, <2>4
  <2>6. /\ v[2] = v[1] * 64 + (bs[2] - 128) /\ v[3] = v[2] * 64 + (bs[3] - 128)
        /\ v[4] = v[3] * 64 + (bs[4] - 128)
    BY <1>4, <2>3
  <2>7. v[2] = b
    BY ONLY <1>12, <2>1, <2>4, <2>5, <2>6
  <2>8. v[3] = a
    BY ONLY <1>9, <1>12, <2>4, <2>6, <2>7
  <2>9. v[4] = ch
    BY ONLY <1>5, <1>9, <2>4, <2>6, <2>8
  <2> QED
    BY <1>1, <1>3, <2>3, <2>9
<1> QED
  BY <1>5, <1>7, <1>10, <1>13, <1>14

-------------------------------------------------------------------------------
(* The characters of bytes that hold a text.                               *)

\* Where they start, one place behind where the one before ends.
LEMMA FirstsOf ==
  ASSUME NEW t \in Seq(Chr)
  PROVE  Firsts(Encoded(t)) = {Bound(t, h - 1) + 1 : h \in 1..Len(t)}
<1>1. PICK e, s, N : e = Encoded(t) /\ s = Stored(t) /\ N = Len(t)
  OBVIOUS
<1>2. /\ e \in Seq(Octet) /\ Len(e) \in Nat /\ N \in Nat /\ Bound(t, N) = Len(e)
      /\ \A p \in 1..Len(e) : s[p] = e[p] /\ e[p] \in Octet
  <2>1. e \in Seq(Octet) /\ Len(e) \in Nat
    BY <1>1, EncodedBytes
  <2>2. \A p \in 1..Len(e) : e[p] \in Octet
    BY <2>1, ElementOfSeq
  <2> QED
    BY <1>1, <2>1, <2>2, Bounds, StoredBytes
<1>3. Firsts(e) = {p \in 1..Len(e) : isutf(e[p])}
  <2>1. Firsts(e) = {p \in 1..Len(e) : e[p] < 128 \/ e[p] >= 192}
    BY <1>2 DEF Firsts
  <2>2. \A b \in Octet : b < 128 \/ b >= 192 <=> isutf(b)
    BY DEF Octet, isutf
  <2> QED
    BY <1>2, <2>1, <2>2
<1>4. ASSUME NEW p \in 1..Len(e), isutf(e[p])
      PROVE  \E h \in 1..N : p = Bound(t, h - 1) + 1
  <2>1. p - 1 \in 0..Bound(t, N) /\ (p - 1) + 1 = p
    BY <1>2
  <2>2. isutf(At(s, p - 1))
    BY <1>2, <1>4, <2>1 DEF At
  <2>3. PICK k \in 0..N : p - 1 = Bound(t, k)
    BY <1>1, <2>1, <2>2, FirstsAre
  <2>4. k # N
    BY <1>2, <2>3
  <2>5. k + 1 \in 1..N /\ (k + 1) - 1 = k
    BY <1>2, <2>4
  <2> QED
    BY <2>1, <2>3, <2>5
<1>5. ASSUME NEW h \in 1..N
      PROVE  Bound(t, h - 1) + 1 \in 1..Len(e) /\ isutf(e[Bound(t, h - 1) + 1])
  <2>1. PICK p, q : p = Bound(t, h - 1) /\ q = Bound(t, h)
    OBVIOUS
  <2>2. p \in Nat /\ q \in Nat /\ q - p \in 1..4 /\ isutf(At(s, p))
    BY <1>1, <2>1, Walk
  <2>3. h \in 0..N /\ N \in 0..N /\ h <= N
    BY <1>2
  <2>4. q + (N - h) <= Len(e)
    BY <1>1, <1>2, <2>1, <2>3, Rising
  <2>5. p + 1 \in 1..Len(e)
    BY <1>2, <2>2, <2>3, <2>4
  <2> QED
    BY <1>2, <2>1, <2>2, <2>5 DEF At
<1>6. Firsts(e) = {Bound(t, h - 1) + 1 : h \in 1..N}
  BY <1>3, <1>4, <1>5
<1> QED
  BY <1>1, <1>6

Starts(t, m) == {Bound(t, h - 1) + 1 : h \in 1..m}

\* As many characters start as there are.
LEMMA StartsCount ==
  ASSUME NEW t \in Seq(Chr), NEW m \in 0..Len(t)
  PROVE  IsFiniteSet(Starts(t, m)) /\ Cardinality(Starts(t, m)) = m
<1> DEFINE S == {k \in 0..m : IsFiniteSet(Starts(t, k)) /\ Cardinality(Starts(t, k)) = k}
<1>0. m \in Nat /\ Len(t) \in Nat /\ m <= Len(t)
  OBVIOUS
<1>1. 0 \in S
  <2>1. Starts(t, 0) = {}
    BY DEF Starts
  <2>2. IsFiniteSet(Starts(t, 0)) /\ Cardinality(Starts(t, 0)) = 0
    BY <2>1, FS_EmptySet, Zenon
  <2>3. 0 \in 0..m
    BY <1>0
  <2> QED
    BY <2>2, <2>3
<1>2. \A k \in 0..(m - 1) : k \in S => k + 1 \in S
  <2> TAKE k \in 0..(m - 1)
  <2> HAVE k \in S
  <2>1. k + 1 \in 0..m /\ k + 1 \in 1..Len(t) /\ (k + 1) - 1 = k /\ k \in 0..Len(t) /\ k \in Nat
    BY <1>0
  <2>2. PICK x : x = Bound(t, k) + 1
    OBVIOUS
  <2>3. Starts(t, k + 1) = Starts(t, k) \cup {x}
    <3>1. \A h \in 1..(k + 1) : h \in 1..k \/ h = k + 1
      BY <2>1
    <3>2. \A h \in 1..k : h \in 1..(k + 1)
      BY <2>1
    <3>3. k + 1 \in 1..(k + 1)
      BY <2>1
    <3> QED
      BY <2>1, <2>2, <3>1, <3>2, <3>3 DEF Starts
  <2>4. x \notin Starts(t, k)
    <3> SUFFICES ASSUME NEW h \in 1..k, x = Bound(t, h - 1) + 1 PROVE FALSE
      BY DEF Starts
    <3>1. h - 1 \in 0..Len(t) /\ h - 1 <= k /\ k - (h - 1) >= 1 /\ h - 1 \in Nat
      BY <1>0, <2>1
    <3>2. Bound(t, h - 1) + (k - (h - 1)) <= Bound(t, k)
      BY <2>1, <3>1, Rising
    <3>3. Bound(t, h - 1) \in Nat /\ Bound(t, k) \in Nat
      BY <2>1, <3>1, Parted
    <3> QED
      BY ONLY <2>1, <2>2, <3>1, <3>2, <3>3, x = Bound(t, h - 1) + 1
  <2>5. IsFiniteSet(Starts(t, k)) /\ Cardinality(Starts(t, k)) = k
    OBVIOUS
  <2>6. IsFiniteSet(Starts(t, k + 1)) /\ Cardinality(Starts(t, k + 1)) = k + 1
    <3>1. PICK Y : Y = Starts(t, k)
      OBVIOUS
    <3>2. IsFiniteSet(Y) /\ Cardinality(Y) = k /\ x \notin Y
      BY <2>4, <2>5, <3>1
    <3>3. IsFiniteSet(Y \cup {x}) /\ Cardinality(Y \cup {x}) = Cardinality(Y) + 1
      BY ONLY <3>2, FS_AddElement
    <3> QED
      BY <2>3, <3>1, <3>2, <3>3
  <2> QED
    BY <2>1, <2>6
<1> HIDE DEF S
<1>3. m \in S
  <2>1. 0..m \subseteq S
    BY <1>0, <1>1, <1>2, Climb
  <2> QED
    BY <1>0, <2>1
<1> QED
  BY <1>3 DEF S

\* Where one of them starts, ends, and what it is.
LEMMA PieceOf ==
  ASSUME NEW t \in Seq(Chr), NEW j \in 1..Len(t), NEW p, p = Bound(t, j - 1) + 1
  PROVE  /\ p \in Firsts(Encoded(t)) /\ Ending(Encoded(t), p) = Bound(t, j)
         /\ SubSeq(Encoded(t), p, Bound(t, j)) = u8_wc_toutf8(t[j])
<1>1. PICK e, N, a, q : /\ e = Encoded(t) /\ N = Len(t) /\ a = Bound(t, j - 1) /\ q = Bound(t, j)
  OBVIOUS
<1>2. /\ j \in 1..N /\ N \in Nat /\ j \in 0..N /\ j - 1 \in 0..N /\ e \in Seq(Octet) /\ Len(e) \in Nat
      /\ Bound(t, N) = Len(e)
  BY <1>1, EncodedBytes, Bounds
<1>3. /\ a \in Nat /\ q \in Nat /\ q - a \in 1..4 /\ p = a + 1 /\ t[j] \in Chr /\ q - a = u8_charlen(t[j])
  BY <1>1, Walk
<1>4. q + (N - j) <= Len(e)
  <2>1. N \in 0..N /\ j <= N
    BY <1>2
  <2> QED
    BY <1>1, <1>2, <2>1, Rising
<1>5. q <= Len(e) /\ p <= q /\ q \in p..Len(e) /\ p \in Nat
  BY <1>2, <1>3, <1>4
<1>6. Firsts(e) = {Bound(t, h - 1) + 1 : h \in 1..N}
  BY <1>1, FirstsOf
<1>7. p \in Firsts(e)
  BY <1>1, <1>2, <1>6
<1>8. Ending(e, p) = q
  <2> DEFINE Q == {x \in p..Len(e) : x = Len(e) \/ x + 1 \in Firsts(e)}
  <2>1. q \in Q
    <3>1. CASE j = N
      BY <1>1, <1>2, <1>5, <3>1
    <3>2. CASE j # N
      <4>1. j + 1 \in 1..N /\ (j + 1) - 1 = j
        BY <1>2, <3>2
      <4>2. q + 1 \in Firsts(e)
        BY <1>1, <1>6, <4>1
      <4> QED
        BY <1>5, <4>2
    <3> QED
      BY <3>1, <3>2
  <2>2. ASSUME NEW x \in Q PROVE q <= x
    <3>1. CASE x = Len(e)
      BY <1>5, <3>1
    <3>2. CASE x # Len(e)
      <4>1. PICK h \in 1..N : x + 1 = Bound(t, h - 1) + 1
        BY <1>6, <3>2
      <4>2. h - 1 \in 0..N /\ Bound(t, h - 1) \in Nat /\ h - 1 \in Nat /\ j \in Nat
        <5>1. h - 1 \in 0..N /\ h - 1 \in Nat /\ j \in Nat
          BY <1>2
        <5> QED
          BY <1>1, <5>1, Parted
      <4>3. x \in Int /\ x >= p
        BY <1>5
      <4>4. x = Bound(t, h - 1)
        BY <4>1, <4>2, <4>3
      <4>5. ASSUME h - 1 < j PROVE FALSE
        <5>1. h - 1 <= j - 1 /\ (j - 1) - (h - 1) >= 0
          BY <4>2, <4>5
        <5>2. Bound(t, h - 1) + ((j - 1) - (h - 1)) <= a
          BY <1>1, <1>2, <4>2, <5>1, Rising
        <5> QED
          BY ONLY <1>3, <4>2, <4>3, <4>4, <5>1, <5>2
      <4>6. j <= h - 1 /\ (h - 1) - j >= 0
        BY <4>2, <4>5
      <4>7. q + ((h - 1) - j) <= Bound(t, h - 1)
        BY <1>1, <1>2, <4>2, <4>6, Rising
      <4> QED
        BY ONLY <1>3, <4>2, <4>4, <4>6, <4>7
    <3> QED
      BY <3>1, <3>2
  <2>3. Q \in SUBSET Int
    BY <1>5
  <2> HIDE DEF Q
  <2>4. Min(Q) = q
    BY <2>1, <2>2, <2>3, MinIs
  <2> QED
    BY <2>4, Zenon DEF Ending, Q
<1>9. SubSeq(e, p, q) = u8_wc_toutf8(t[j])
  <2>1. PICK u, w, r : /\ u = Encoded(SubSeq(t, 1, j - 1)) /\ w = u8_wc_toutf8(t[j])
                       /\ r = Encoded(SubSeq(t, j + 1, Len(t)))
    OBVIOUS
  <2>2. e = (u \o w) \o r
    <3>1. Encoded(t) = Encoded(SubSeq(t, 1, j)) \o r
      BY <1>1, <1>2, <2>1, Parted
    <3>2. Encoded(SubSeq(t, 1, j)) = u \o w
      BY <2>1, Bounds
    <3> QED
      BY <1>1, <3>1, <3>2, Zenon
  <2>3. u \in Seq(Octet) /\ w \in Seq(Octet) /\ r \in Seq(Octet) /\ Len(u) = a /\ Len(w) = q - a
    <3>1. u \in Seq(Octet) /\ r \in Seq(Octet)
      BY <1>1, <1>2, <2>1, Parted, EncodedBytes
    <3>2. w \in Seq(Octet) /\ Len(w) = q - a
      BY <1>3, <2>1, Written
    <3>3. Len(u) = a
      BY <1>1, <2>1 DEF Bound
    <3> QED
      BY <3>1, <3>2, <3>3
  <2>4. PICK n \in Nat : n = q - a
    BY <1>3
  <2>5. q = a + n /\ p = a + 1
    BY <1>3, <2>4
  <2>6. SubSeq((u \o w) \o r, Len(u) + 1, Len(u) + Len(w)) = w
    BY ONLY <2>3, SMTT(60)
  <2> QED
    BY <2>1, <2>2, <2>3, <2>4, <2>5, <2>6
<1> QED
  BY <1>1, <1>7, <1>8, <1>9

\* CharsOf is the inverse of writing a text.
LEMMA CharsAre ==
  ASSUME NEW t \in Seq(Chr)
  PROVE  CharsOf(Encoded(t)) = t
<1>1. PICK e, N : e = Encoded(t) /\ N = Len(t)
  OBVIOUS
<1> DEFINE F == Firsts(e)
<1>2. N \in Nat /\ N \in 0..Len(t) /\ \A j \in 1..N : j \in 0..Len(t) /\ j - 1 \in 0..Len(t)
  BY <1>1
<1>3. F = Starts(t, N)
  BY <1>1, FirstsOf DEF Starts
<1> HIDE DEF F
<1>4. Cardinality(F) = N
  BY <1>2, <1>3, StartsCount
<1>5. ASSUME NEW j \in 1..N, NEW p, p = Bound(t, j - 1) + 1
      PROVE  p \in F /\ Cardinality({q \in F : q <= p}) = j
  <2>1. \A h \in 1..N : h \in 0..Len(t) /\ h - 1 \in 0..Len(t) /\ h \in Nat /\ h - 1 \in Nat
    BY <1>1, <1>2
  <2>2. \A h \in 1..N : Bound(t, h - 1) \in Nat
    BY <2>1, Parted
  <2>3. \A h \in 1..N : h <= j => Bound(t, h - 1) <= Bound(t, j - 1)
    <3> TAKE h \in 1..N
    <3> HAVE h <= j
    <3>1. h - 1 \in 0..Len(t) /\ j - 1 \in 0..Len(t) /\ h - 1 <= j - 1 /\ (j - 1) - (h - 1) >= 0
          /\ (j - 1) - (h - 1) \in Int
      BY <2>1
    <3>2. Bound(t, h - 1) + ((j - 1) - (h - 1)) <= Bound(t, j - 1)
      BY <3>1, Rising
    <3>3. Bound(t, h - 1) \in Nat /\ Bound(t, j - 1) \in Nat
      BY <2>2
    <3> QED
      BY ONLY <3>1, <3>2, <3>3
  <2>4. \A h \in 1..N : h > j => Bound(t, h - 1) > Bound(t, j - 1)
    <3> TAKE h \in 1..N
    <3> HAVE h > j
    <3>1. h - 1 \in 0..Len(t) /\ j - 1 \in 0..Len(t) /\ j - 1 <= h - 1 /\ (h - 1) - (j - 1) >= 1
          /\ (h - 1) - (j - 1) \in Int
      BY <2>1
    <3>2. Bound(t, j - 1) + ((h - 1) - (j - 1)) <= Bound(t, h - 1)
      BY <3>1, Rising
    <3>3. Bound(t, h - 1) \in Nat /\ Bound(t, j - 1) \in Nat
      BY <2>2
    <3> QED
      BY ONLY <3>1, <3>2, <3>3
  <2>5. {q \in F : q <= p} = Starts(t, j)
    <3>1. F = {Bound(t, h - 1) + 1 : h \in 1..N} /\ Starts(t, j) = {Bound(t, h - 1) + 1 : h \in 1..j}
      BY <1>3 DEF Starts
    <3>2. \A h \in 1..N : Bound(t, h - 1) + 1 <= p => h <= j
      BY <1>5, <2>1, <2>2, <2>4
    <3>3. \A h \in 1..N : h <= j => Bound(t, h - 1) + 1 <= p
      BY <1>5, <2>2, <2>3
    <3>4. \A h \in 1..j : h \in 1..N /\ h <= j
      BY <1>2
    <3>5. \A h \in 1..N : h <= j => h \in 1..j
      OBVIOUS
    <3>6. \A q \in F : q <= p => q \in Starts(t, j)
      BY <3>1, <3>2, <3>5
    <3>7. \A q \in Starts(t, j) : q \in F /\ q <= p
      BY <3>1, <3>3, <3>4
    <3> QED
      BY <3>6, <3>7
  <2>6. p \in F
    BY <1>3, <1>5 DEF Starts
  <2>7. Cardinality(Starts(t, j)) = j
    BY <1>2, StartsCount
  <2> QED
    BY <2>5, <2>6, <2>7
<1> DEFINE first(j) == CHOOSE p \in F : Cardinality({q \in F : q <= p}) = j
<1>6. ASSUME NEW j \in 1..N PROVE first(j) = Bound(t, j - 1) + 1
  <2>1. PICK p : p = Bound(t, j - 1) + 1
    OBVIOUS
  <2>2. p \in F /\ Cardinality({q \in F : q <= p}) = j
    BY <1>5, <2>1
  <2>3. PICK x : x = first(j)
    OBVIOUS
  <2>4. x \in F /\ Cardinality({q \in F : q <= x}) = j
    BY <2>2, <2>3, Zenon
  <2>5. PICK h \in 1..N : x = Bound(t, h - 1) + 1
    BY <1>3, <2>4 DEF Starts
  <2>6. h = j
    BY <1>5, <2>4, <2>5
  <2> QED
    BY <2>3, <2>5, <2>6, Zenon
<1> HIDE DEF first
<1>7. ASSUME NEW j \in 1..N
      PROVE  CodePoint(SubSeq(e, first(j), Ending(e, first(j)))) = t[j]
  <2>1. PICK p, q : p = first(j) /\ q = Bound(t, j)
    OBVIOUS
  <2>2. p = Bound(t, j - 1) + 1 /\ j \in 1..Len(t)
    BY <1>1, <1>6, <2>1
  <2>3. Ending(e, p) = q /\ SubSeq(e, p, q) = u8_wc_toutf8(t[j])
    BY <1>1, <2>1, <2>2, PieceOf
  <2>4. t[j] \in Chr
    BY <2>2
  <2>5. CodePoint(u8_wc_toutf8(t[j])) = t[j]
    BY <2>4, CodePointIs
  <2> QED
    BY <2>1, <2>3, <2>5, Zenon
<1>8. CharsOf(e) = [j \in 1..Cardinality(F) |-> CodePoint(SubSeq(e, first(j), Ending(e, first(j))))]
  BY Zenon DEF CharsOf, first, F
<1>9. CharsOf(e) = [j \in 1..N |-> t[j]]
  <2>1. CharsOf(e) = [j \in 1..N |-> CodePoint(SubSeq(e, first(j), Ending(e, first(j))))]
    BY <1>4, <1>8, Zenon
  <2> QED
    BY <1>7, <2>1
<1>10. t = [j \in 1..N |-> t[j]]
  BY <1>1
<1> QED
  BY <1>1, <1>9, <1>10, Zenon

\* The characters before an index are those of the bytes before it.
LEMMA CharsBefore ==
  ASSUME NEW t \in Seq(Chr), NEW k \in 0..Len(t)
  PROVE  /\ CharsOf(SubSeq(Stored(t), 1, Len(Stored(t)) - 1)) = t
         /\ Len(CharsOf(SubSeq(Stored(t), 1, Bound(t, k)))) = k
<1>1. CharsOf(SubSeq(Stored(t), 1, Len(Stored(t)) - 1)) = t
  <2>1. SubSeq(Stored(t), 1, Len(Stored(t)) - 1) = Encoded(t)
    BY StoredBytes
  <2> QED
    BY <2>1, CharsAre, Zenon
<1>2. SubSeq(Stored(t), 1, Bound(t, k)) = Encoded(SubSeq(t, 1, k))
  <2>1. PICK a, b, z : /\ a = Encoded(SubSeq(t, 1, k)) /\ b = Encoded(SubSeq(t, k + 1, Len(t)))
                       /\ z = <<0>>
    OBVIOUS
  <2>2. a \in Seq(Octet) /\ b \in Seq(Octet) /\ Encoded(t) = a \o b
    BY <2>1, Parted, EncodedBytes
  <2>3. z \in Seq(Octet) /\ Len(a) = Bound(t, k)
    BY <2>1 DEF Octet, Bound
  <2>4. SubSeq((a \o b) \o z, 1, Len(a)) = a
    BY <2>2, <2>3
  <2> QED
    BY <2>1, <2>2, <2>3, <2>4 DEF Stored
<1>3. SubSeq(t, 1, k) \in Seq(Chr) /\ Len(SubSeq(t, 1, k)) = k
  BY Parted
<1>4. CharsOf(Encoded(SubSeq(t, 1, k))) = SubSeq(t, 1, k)
  BY <1>3, CharsAre
<1> QED
  BY <1>1, <1>2, <1>3, <1>4

-------------------------------------------------------------------------------
(* What u8_isvalid accepts.                                                *)

\* A second byte tells whether a longer sequence than needed was used.
LEMMA LeastTells ==
  ASSUME NEW bs \in Seq(Octet), NEW n \in 2..6, n = Len(bs), \A j \in 2..n : bs[j] \in 128..191,
         Tag[n] <= bs[1], bs[1] < Tag[n] + Free[n]
  PROVE  CodePoint(bs) >= Least[n] <=> ~Overlong(bs[1], bs[2])
<1>1. PICK v : Adds(bs, v) /\ CodePoint(bs) = v[n]
  <2>1. Len(bs) \in 1..6
    OBVIOUS
  <2> QED
    BY <2>1, CodePointBy
<1>2. PICK b, c : b = bs[1] /\ c = bs[2]
  OBVIOUS
<1>3. b \in Octet /\ c \in 128..191
  <2>1. 1 \in 1..Len(bs) /\ 2 \in 2..n
    OBVIOUS
  <2> QED
    BY <1>2, <2>1, ElementOfSeq
<1>4. /\ v[1] = b - Tag[n]
      /\ \A j \in 2..n : v[j] = v[j - 1] * 64 + (bs[j] - 128)
  BY <1>1, <1>2 DEF Adds
<1>5. 2 \in 2..n /\ v[2] = v[1] * 64 + (c - 128)
  BY <1>2, <1>4
<1>6. b \in Int /\ 0 <= b /\ b <= 255 /\ c \in Int /\ 128 <= c /\ c <= 191
  BY <1>3 DEF Octet
<1>. DEFINE tail(j) == bs[j] \in Int /\ 128 <= bs[j] /\ bs[j] <= 191
<1>12. ASSUME NEW j \in 2..n
       PROVE  tail(j)
  <2>1. PICK x : x = bs[j]
    OBVIOUS
  <2>2. x \in 128..191
    BY <2>1
  <2>3. x \in Int /\ 128 <= x /\ x <= 191
    BY ONLY <2>2
  <2> QED
    BY ONLY <2>1, <2>3
<1>7. CASE n = 2
  <2>1. Tag[n] = 192 /\ Free[n] = 32 /\ Least[n] = 128
    BY <1>7 DEF Tag, Free, Least
  <2>2. CodePoint(bs) = (b - 192) * 64 + (c - 128) /\ 192 <= b /\ b < 224
    BY <1>1, <1>2, <1>4, <1>5, <1>7, <2>1
  <2>3. Overlong(b, c) <=> b \in {192, 193}
    BY <1>6, <2>2 DEF Overlong
  <2>4. b \in {192, 193} <=> b <= 193
    BY <1>6, <2>2
  <2>5. CodePoint(bs) >= 128 <=> b >= 194
    BY ONLY <1>6, <2>2
  <2>6. b >= 194 <=> ~(b <= 193)
    BY <1>6
  <2> QED
    BY <1>2, <2>1, <2>3, <2>4, <2>5, <2>6
<1>8. CASE n = 3
  <2>1. Tag[n] = 224 /\ Free[n] = 16 /\ Least[n] = 2048
    BY <1>8 DEF Tag, Free, Least
  <2>2. PICK d : d = bs[3]
    OBVIOUS
  <2>3. d \in Int /\ 128 <= d /\ d <= 191
    <3>1. 3 \in 2..n
      BY <1>8
    <3>2. tail(3)
      BY <1>12, <3>1
    <3> QED
      BY <2>2, <3>2
  <2>4. v[3] = v[2] * 64 + (d - 128) /\ v[2] = (b - 224) * 64 + (c - 128) /\ 224 <= b /\ b < 240
    BY <1>2, <1>4, <1>5, <1>8, <2>1, <2>2
  <2>5. Overlong(b, c) <=> b = 224 /\ c < 160
    BY <1>6, <2>4 DEF Overlong
  <2>6. v[3] >= 2048 <=> ~(b = 224 /\ c < 160)
    BY ONLY <1>6, <2>3, <2>4
  <2> QED
    BY <1>1, <1>2, <1>8, <2>1, <2>5, <2>6
<1>9. CASE n = 4
  <2>1. Tag[n] = 240 /\ Free[n] = 8 /\ Least[n] = 65536
    BY <1>9 DEF Tag, Free, Least
  <2>2. PICK d, e : d = bs[3] /\ e = bs[4]
    OBVIOUS
  <2>3. d \in Int /\ 128 <= d /\ d <= 191 /\ e \in Int /\ 128 <= e /\ e <= 191
    <3>1. 3 \in 2..n /\ 4 \in 2..n
      BY <1>9
    <3>2. tail(3) /\ tail(4)
      BY <1>12, <3>1
    <3> QED
      BY <2>2, <3>2
  <2>4. /\ v[4] = v[3] * 64 + (e - 128) /\ v[3] = v[2] * 64 + (d - 128)
        /\ v[2] = (b - 240) * 64 + (c - 128) /\ 240 <= b /\ b < 248
    BY <1>2, <1>4, <1>5, <1>9, <2>1, <2>2
  <2>5. Overlong(b, c) <=> b = 240 /\ c < 144
    BY <1>6, <2>4 DEF Overlong
  <2>6. v[4] >= 65536 <=> ~(b = 240 /\ c < 144)
    BY ONLY <1>6, <2>3, <2>4
  <2> QED
    BY <1>1, <1>2, <1>9, <2>1, <2>5, <2>6
<1>10. CASE n = 5
  <2>1. Tag[n] = 248 /\ Free[n] = 4 /\ Least[n] = 2097152
    BY <1>10 DEF Tag, Free, Least
  <2>2. PICK d, e, g : d = bs[3] /\ e = bs[4] /\ g = bs[5]
    OBVIOUS
  <2>3. /\ d \in Int /\ 128 <= d /\ d <= 191 /\ e \in Int /\ 128 <= e /\ e <= 191
        /\ g \in Int /\ 128 <= g /\ g <= 191
    <3>1. 3 \in 2..n /\ 4 \in 2..n /\ 5 \in 2..n
      BY <1>10
    <3>2. tail(3) /\ tail(4) /\ tail(5)
      BY <1>12, <3>1
    <3> QED
      BY <2>2, <3>2
  <2>4. /\ v[5] = v[4] * 64 + (g - 128)
        /\ v[4] = v[3] * 64 + (e - 128) /\ v[3] = v[2] * 64 + (d - 128)
        /\ v[2] = (b - 248) * 64 + (c - 128) /\ 248 <= b /\ b < 252
    BY <1>2, <1>4, <1>5, <1>10, <2>1, <2>2
  <2>5. Overlong(b, c) <=> b = 248 /\ c < 136
    BY <1>6, <2>4 DEF Overlong
  <2>6. v[5] >= 2097152 <=> ~(b = 248 /\ c < 136)
    BY ONLY <1>6, <2>3, <2>4
  <2> QED
    BY <1>1, <1>2, <1>10, <2>1, <2>5, <2>6
<1>11. CASE n = 6
  <2>1. Tag[n] = 252 /\ Free[n] = 2 /\ Least[n] = 67108864
    BY <1>11 DEF Tag, Free, Least
  <2>2. PICK d, e, g, h : d = bs[3] /\ e = bs[4] /\ g = bs[5] /\ h = bs[6]
    OBVIOUS
  <2>3. /\ d \in Int /\ 128 <= d /\ d <= 191 /\ e \in Int /\ 128 <= e /\ e <= 191
        /\ g \in Int /\ 128 <= g /\ g <= 191 /\ h \in Int /\ 128 <= h /\ h <= 191
    <3>1. 3 \in 2..n /\ 4 \in 2..n /\ 5 \in 2..n /\ 6 \in 2..n
      BY <1>11
    <3>2. tail(3) /\ tail(4) /\ tail(5) /\ tail(6)
      BY <1>12, <3>1
    <3> QED
      BY <2>2, <3>2
  <2>4. /\ v[6] = v[5] * 64 + (h - 128) /\ v[5] = v[4] * 64 + (g - 128)
        /\ v[4] = v[3] * 64 + (e - 128) /\ v[3] = v[2] * 64 + (d - 128)
        /\ v[2] = (b - 252) * 64 + (c - 128) /\ 252 <= b /\ b < 254
    BY <1>2, <1>4, <1>5, <1>11, <2>1, <2>2
  <2>5. Overlong(b, c) <=> b = 252 /\ c < 132
    BY <1>6, <2>4 DEF Overlong
  <2>6. v[6] >= 67108864 <=> ~(b = 252 /\ c < 132)
    BY ONLY <1>6, <2>3, <2>4
  <2> QED
    BY <1>1, <1>2, <1>11, <2>1, <2>5, <2>6
<1> QED
  BY <1>7, <1>8, <1>9, <1>10, <1>11

\* A character ends before the next one starts.
LEMMA EndingIs ==
  ASSUME NEW e \in Seq(Octet), NEW p \in 1..Len(e)
  PROVE  /\ Ending(e, p) \in p..Len(e)
         /\ Ending(e, p) = Len(e) \/ Ending(e, p) + 1 \in Firsts(e)
         /\ \A y \in p..Len(e) : y = Len(e) \/ y + 1 \in Firsts(e) => Ending(e, p) <= y
<1> DEFINE Q == {x \in p..Len(e) : x = Len(e) \/ x + 1 \in Firsts(e)}
<1>1. Len(e) \in Q /\ Q \in SUBSET Nat
  OBVIOUS
<1>2. PICK m : m = Min(Q)
  OBVIOUS
<1>3. m \in Q /\ \A x \in Q : m <= x
  <2> HIDE DEF Q
  <2> QED
    BY <1>1, <1>2, LeastOf
<1>4. Ending(e, p) = m
  BY <1>2, Zenon DEF Ending, Q
<1> QED
  BY <1>3, <1>4

\* The tag bits are the table of lengths, but for the two bytes that no character
\* starts with.
LEMMA TagTells ==
  ASSUME NEW b \in Octet, isutf(b), NEW m \in 1..6
  PROVE  Tag[m] <= b /\ b < Tag[m] + Free[m]
           <=> m = trailingBytesForUTF8(b) + 1 /\ b \notin {254, 255}
<1>1. b \in Int /\ 0 <= b /\ b <= 255 /\ (b < 128 \/ b > 191)
  BY DEF Octet, isutf
<1>2. Tag = <<0, 192, 224, 240, 248, 252>> /\ Free = <<128, 32, 16, 8, 4, 2>>
  BY DEF Tag, Free
<1>3. /\ Tag[1] = 0 /\ Tag[2] = 192 /\ Tag[3] = 224 /\ Tag[4] = 240 /\ Tag[5] = 248 /\ Tag[6] = 252
      /\ Free[1] = 128 /\ Free[2] = 32 /\ Free[3] = 16 /\ Free[4] = 8 /\ Free[5] = 4 /\ Free[6] = 2
  BY <1>2
<1>4. b < 128 => trailingBytesForUTF8(b) = 0
  BY <1>1, SMT DEF trailingBytesForUTF8
<1>5. b >= 192 /\ b < 224 => trailingBytesForUTF8(b) = 1
  BY <1>1, SMT DEF trailingBytesForUTF8
<1>6. b >= 224 /\ b < 240 => trailingBytesForUTF8(b) = 2
  BY <1>1, SMT DEF trailingBytesForUTF8
<1>7. b >= 240 /\ b < 248 => trailingBytesForUTF8(b) = 3
  BY <1>1, SMT DEF trailingBytesForUTF8
<1>8. b >= 248 /\ b < 252 => trailingBytesForUTF8(b) = 4
  BY <1>1, SMT DEF trailingBytesForUTF8
<1>9. b >= 252 => trailingBytesForUTF8(b) = 5
  BY <1>1, SMT DEF trailingBytesForUTF8
<1>10. PICK n : n = trailingBytesForUTF8(b)
  OBVIOUS
<1>11. m \in {1, 2, 3, 4, 5, 6} /\ (b \notin {254, 255} <=> b < 254)
  BY <1>1
<1>12. Tag[m] <= b /\ b < Tag[m] + Free[m] <=> m = n + 1 /\ b < 254
  BY ONLY <1>1, <1>3, <1>4, <1>5, <1>6, <1>7, <1>8, <1>9, <1>10, <1>11
<1> QED
  BY <1>10, <1>11, <1>12

\* A character's bytes, from a first one to the next, are its shortest spelling if
\* they are as many as the first one says and the second one does not object.
LEMMA SpellsIs ==
  ASSUME NEW e \in Seq(Octet), NEW p \in 0..(Len(e) - 1), p + 1 \in Firsts(e),
         NEW x, x = Ending(e, p + 1)
  PROVE  Spells(SubSeq(e, p + 1, x)) <=>
           /\ x = p + trailingBytesForUTF8(e[p + 1]) + 1
           /\ e[p + 1] < 128 \/ ~Overlong(e[p + 1], e[p + 2])
<1>1. p \in Nat /\ p + 1 \in 1..Len(e) /\ Len(e) \in Nat
  OBVIOUS
<1>2. /\ x \in (p + 1)..Len(e)
      /\ \A y \in (p + 1)..Len(e) : y + 1 \in Firsts(e) => x <= y
  BY <1>1, EndingIs
<1>3. PICK b, n, m, bs : b = e[p + 1] /\ n = trailingBytesForUTF8(b) /\ m = x - p
                         /\ bs = SubSeq(e, p + 1, x)
  OBVIOUS
<1>4. b \in Octet /\ (b < 128 \/ b >= 192)
  BY <1>1, <1>3, ElementOfSeq DEF Firsts
<1>5. b \in Int /\ 0 <= b /\ b <= 255 /\ isutf(b) /\ n \in 0..5
  <2>1. b \in Int /\ 0 <= b /\ b <= 255
    BY ONLY <1>4 DEF Octet
  <2>2. isutf(b)
    BY ONLY <1>4, <2>1 DEF isutf
  <2> QED
    BY <1>3, <1>4, <2>1, <2>2, TrailingBytes
<1>6. bs \in Seq(Octet) /\ Len(bs) = m /\ \A j \in 1..m : bs[j] = e[p + j]
  <2>1. p \in 0..Len(e) /\ x \in p..Len(e)
    BY <1>1, <1>2
  <2> QED
    BY <1>3, <2>1, Piece
<1>7. m \in Int /\ 1 <= m /\ x = p + m /\ bs[1] = b
  <2>1. m \in Int /\ 1 <= m /\ x = p + m
    BY ONLY <1>1, <1>2, <1>3
  <2> QED
    BY <1>3, <1>6, <2>1
<1>8. \A j \in 2..m : bs[j] \in 128..191
  <2> TAKE j \in 2..m
  <2>0. PICK y : y = p + j - 1
    OBVIOUS
  <2>1. p + j \in 1..Len(e) /\ y \in (p + 1)..Len(e) /\ ~(x <= y) /\ y + 1 = p + j /\ j \in 1..m
    BY <1>1, <1>2, <1>7, <2>0
  <2>2. p + j \notin Firsts(e)
    BY ONLY <1>2, <2>1
  <2>3. PICK z : z = e[p + j]
    OBVIOUS
  <2>4. z \in Octet
    BY <2>1, <2>3, ElementOfSeq
  <2>5. ~(z < 128 \/ z >= 192)
    BY <2>1, <2>2, <2>3 DEF Firsts
  <2>6. z \in 128..191
    BY ONLY <2>4, <2>5 DEF Octet
  <2> QED
    BY <1>6, <2>1, <2>3, <2>6
<1>9. Spells(bs) <=> m \in 1..6 /\ Tag[m] <= b /\ b < Tag[m] + Free[m] /\ CodePoint(bs) >= Least[m]
  <2>1. m \in 1..6 => Tag[m] \in Int /\ Free[m] \in Int
    <3> SUFFICES ASSUME m \in 1..6 PROVE Tag[m] \in Int /\ Free[m] \in Int
      OBVIOUS
    <3>1. m \in {1, 2, 3, 4, 5, 6}
      BY ONLY m \in 1..6
    <3> QED
      BY <3>1 DEF Tag, Free
  <2>2. m \in 1..6 => (b \in Tag[m]..(Tag[m] + Free[m] - 1) <=> Tag[m] <= b /\ b < Tag[m] + Free[m])
    BY <1>5, <2>1
  <2> QED
    BY <1>6, <1>7, <1>8, <2>2 DEF Spells
<1>10. m \in 1..6 => (Tag[m] <= b /\ b < Tag[m] + Free[m] <=> m = n + 1 /\ b \notin {254, 255})
  BY <1>3, <1>4, <1>5, TagTells
<1>11. m = 1 => CodePoint(bs) >= Least[m]
  <2> SUFFICES ASSUME m = 1 PROVE CodePoint(bs) >= Least[m]
    OBVIOUS
  <2>0. Len(bs) = 1 /\ Len(bs) \in 1..6
    BY <1>6
  <2>1. PICK v : Adds(bs, v) /\ CodePoint(bs) = v[Len(bs)]
    BY <1>6, <2>0, CodePointBy
  <2>2. v[1] = b
    BY <1>5, <1>6, <1>7, <2>0, <2>1 DEF Adds, Tag
  <2> QED
    BY <1>5, <2>0, <2>1, <2>2 DEF Least
<1>12. m \in 2..6 /\ Tag[m] <= b /\ b < Tag[m] + Free[m] =>
         (CodePoint(bs) >= Least[m] <=> ~Overlong(b, e[p + 2]))
  <2> SUFFICES ASSUME m \in 2..6, Tag[m] <= b, b < Tag[m] + Free[m]
               PROVE  CodePoint(bs) >= Least[m] <=> ~Overlong(b, e[p + 2])
    OBVIOUS
  <2>1. bs[2] = e[p + 2]
    BY <1>6
  <2>2. CodePoint(bs) >= Least[m] <=> ~Overlong(bs[1], bs[2])
    BY <1>6, <1>7, <1>8, LeastTells
  <2> QED
    BY <1>7, <2>1, <2>2
<1>13. (b < 128 <=> n = 0) /\ (b \in {254, 255} => Overlong(b, e[p + 2]))
  <2>1. b < 128 => n = 0
    BY <1>3, <1>4, TrailingAscii
  <2>2. ~(b < 128) => n # 0
    <3> SUFFICES ASSUME ~(b < 128) PROVE n # 0
      OBVIOUS
    <3>1. b \in 192..223 \/ b \in 224..239 \/ b \in 240..247 \/ b \in 248..251 \/ b \in 252..255
      BY ONLY <1>4, <1>5, ~(b < 128)
    <3>2. trailingBytesForUTF8(b) \in 1..5
      BY ONLY <3>1, SMT DEF trailingBytesForUTF8
    <3> QED
      BY <1>3, <3>2
  <2> QED
    BY <2>1, <2>2 DEF Overlong
<1>14. x = p + n + 1 <=> m = n + 1
  BY ONLY <1>1, <1>5, <1>7
<1>15. m = n + 1 => m \in 1..6 /\ (m = 1 <=> n = 0) /\ (m \in 2..6 <=> n # 0)
  BY ONLY <1>5, <1>7
<1>16. Spells(bs) <=> m = n + 1 /\ (b < 128 \/ ~Overlong(b, e[p + 2]))
  <2>1. m \in 1..6 => m = 1 \/ m \in 2..6
    BY <1>7
  <2>2. b \in {254, 255} => ~(b < 128)
    OBVIOUS
  <2> QED
    BY ONLY <1>9, <1>10, <1>11, <1>12, <1>13, <1>15, <2>1, <2>2
<1> QED
  BY <1>3, <1>14, <1>16

\* One round of u8_isvalid, at p, if f is what it does behind.
Checking(s, length, f, p) ==
  [left \in Nat |->
     LET b == At(s, p)
         n == trailingBytesForUTF8(b)
     IN \/ p >= length
        \/ p < length /\ b < 128 /\ f[p + 1][left]
        \/ /\ p < length /\ b >= 192 /\ left >= n
           /\ ~isutf(At(s, p + 1)) /\ ~Overlong(b, At(s, p + 1))
           /\ \A k \in 2..n : ~isutf(At(s, p + k))
           /\ f[p + n + 1][left - n]]

CheckingFrom(s, length) == CHOOSE f : f = [p \in Nat |-> Checking(s, length, f, p)]

LEMMA IsvalidUnfolds ==
  ASSUME NEW s, NEW length
  PROVE  u8_isvalid(s, length) = CheckingFrom(s, length)[0][length]
BY DEF u8_isvalid, Checking, CheckingFrom

\* A round depends on what u8_isvalid finds behind, only.
LEMMA CheckingDepends ==
  ASSUME NEW s \in Seq(Octet), NEW length \in Nat, length < Len(s), NEW f, NEW g, NEW p \in Nat,
         p < length => \A q \in Nat : q > p => f[q] = g[q]
  PROVE  Checking(s, length, f, p) = Checking(s, length, g, p)
<1>1. CASE p >= length
  BY <1>1, Zenon DEF Checking
<1>2. CASE ~(p >= length)
  <2>1. p < length /\ p \in 0..(Len(s) - 1) /\ length \in Nat
    BY <1>2
  <2>2. At(s, p) \in Octet
    BY <2>1, BytesAt
  <2>3. trailingBytesForUTF8(At(s, p)) \in 0..5
    BY <2>2, TrailingBytes
  <2>4. /\ p + 1 \in Nat /\ p + 1 > p
        /\ p + trailingBytesForUTF8(At(s, p)) + 1 \in Nat
        /\ p + trailingBytesForUTF8(At(s, p)) + 1 > p
    BY <2>3
  <2>5. /\ f[p + 1] = g[p + 1]
        /\ f[p + trailingBytesForUTF8(At(s, p)) + 1] = g[p + trailingBytesForUTF8(At(s, p)) + 1]
    BY <2>1, <2>4
  <2> QED
    BY <2>5, Zenon DEF Checking
<1> QED
  BY <1>1, <1>2

\* So its loop comes to an end, whatever bytes there are.
LEMMA CheckingExists ==
  ASSUME NEW s \in Seq(Octet), NEW length \in Nat, length < Len(s)
  PROVE  LET f == CheckingFrom(s, length) IN f = [p \in Nat |-> Checking(s, length, f, p)]
<1> DEFINE end == length
           B(f, p) == Checking(s, length, f, p)
           From(d) == {p \in Nat : p + d >= end}
           Q(d) == \E f : f = [p \in From(d) |-> B(f, p)]
<1>1. \A f, g : \A p \in Nat :
        (p < end => \A q \in Nat : q > p => f[q] = g[q]) => B(f, p) = B(g, p)
  BY CheckingDepends
<1>0. end \in Nat
  OBVIOUS
<1> HIDE DEF B, end
<1>2. Q(0)
  <2>1. PICK g : g = [p \in From(0) |-> B(0, p)]
    OBVIOUS
  <2>2. \A p \in From(0) : B(0, p) = B(g, p)
    BY <1>0, <1>1
  <2> QED
    BY <2>1, <2>2
<1>3. ASSUME NEW d \in Nat, Q(d) PROVE Q(d + 1)
  <2>1. PICK f : f = [p \in From(d) |-> B(f, p)]
    BY <1>3
  <2>2. PICK g : g = [p \in From(d + 1) |-> B(f, p)]
    OBVIOUS
  <2>3. \A p \in From(d) : f[p] = g[p]
    BY <1>0, <2>1, <2>2
  <2>4. \A p \in From(d + 1) : B(f, p) = B(g, p)
    <3> TAKE p \in From(d + 1)
    <3>1. p < end => \A q \in Nat : q > p => f[q] = g[q]
      BY <1>0, <2>3
    <3> QED
      BY <1>1, <3>1
  <2> HIDE DEF From
  <2>5. g = [p \in From(d + 1) |-> B(g, p)]
    BY <2>2, <2>4
  <2> QED
    BY <2>5, Zenon
<1>4. From(end) = Nat
  BY <1>0
<1>5. Q(end)
  <2> HIDE DEF Q
  <2> DEFINE T == {d \in Nat : Q(d)}
  <2>1. 0 \in T /\ \A d \in 0..(end - 1) : d \in T => d + 1 \in T
    BY <1>0, <1>2, <1>3
  <2> HIDE DEF T
  <2>2. 0..end \subseteq T /\ end \in 0..end
    BY <1>0, <2>1, Climb
  <2> QED
    BY <2>2 DEF T
<1> HIDE DEF From
<1>6. \E f : f = [p \in Nat |-> Checking(s, length, f, p)]
  BY <1>4, <1>5, Zenon DEF B
<1> QED
  BY <1>6, Zenon DEF CheckingFrom

\* From p on there are such spellings only.
Well(e, p) ==
  p < Len(e) =>
    /\ p + 1 \in Firsts(e)
    /\ \A q \in Firsts(e) : q > p => Spells(SubSeq(e, q, Ending(e, q)))

\* What u8_isvalid asks of the bytes of one character.
Passes(s, p) ==
  LET b == At(s, p)
      n == trailingBytesForUTF8(b)
  IN \/ b < 128
     \/ /\ b >= 192 /\ ~isutf(At(s, p + 1)) /\ ~Overlong(b, At(s, p + 1))
        /\ \A k \in 2..n : ~isutf(At(s, p + k))

\* These are spelled well if the first one is and the rest are.
LEMMA WellOn ==
  ASSUME NEW e \in Seq(Octet), NEW s, s = e \o << 0 >>, NEW p \in 0..(Len(e) - 1),
         NEW n, n = trailingBytesForUTF8(At(s, p))
  PROVE  /\ Passes(s, p) => p + n + 1 <= Len(e)
         /\ Well(e, p) <=> Passes(s, p) /\ Well(e, p + n + 1)
<1>1. p \in Nat /\ p + 1 \in 1..Len(e) /\ Len(e) \in Nat
  OBVIOUS
<1>2. s \in Seq(Octet) /\ Len(s) = Len(e) + 1 /\ At(s, Len(e)) = 0
      /\ \A x \in 0..(Len(e) - 1) : At(s, x) = e[x + 1] /\ e[x + 1] \in Octet
  <2>1. <<0>> \in Seq(Octet)
    BY DEF Octet
  <2> QED
    BY <2>1, ElementOfSeq DEF At
<1>3. PICK b, c, x : b = e[p + 1] /\ c = At(s, p + 1) /\ x = Ending(e, p + 1)
  OBVIOUS
<1>4. b = At(s, p) /\ b \in Octet /\ n \in 0..5 /\ n = trailingBytesForUTF8(b)
  BY <1>2, <1>3, TrailingBytes
<1>5. b \in Int /\ 0 <= b /\ b <= 255
  <2>1. b \in Octet
    BY <1>4
  <2> QED
    BY ONLY <2>1 DEF Octet
<1>6. b < 128 => n = 0
  BY <1>4, TrailingAscii
<1>7. b >= 192 => n >= 1
  <2> SUFFICES ASSUME b >= 192 PROVE n >= 1
    OBVIOUS
  <2>1. b \in 192..223 \/ b \in 224..239 \/ b \in 240..247 \/ b \in 248..251 \/ b \in 252..255
    BY ONLY <1>5, b >= 192
  <2>2. trailingBytesForUTF8(b) \in 1..5
    BY ONLY <2>1, SMT DEF trailingBytesForUTF8
  <2> QED
    BY <1>4, <2>2
<1>8. p + 1 \in Firsts(e) <=> b < 128 \/ b >= 192
  BY <1>1, <1>3 DEF Firsts
<1>9. x \in (p + 1)..Len(e) /\ (x = Len(e) \/ x + 1 \in Firsts(e))
      /\ \A y \in (p + 1)..Len(e) : y = Len(e) \/ y + 1 \in Firsts(e) => x <= y
  BY <1>1, <1>3, EndingIs
<1>10. \A y \in 0..Len(e) : isutf(At(s, y)) <=> y = Len(e) \/ y + 1 \in Firsts(e)
  <2> TAKE y \in 0..Len(e)
  <2>1. CASE y = Len(e)
    BY <1>2, <2>1 DEF isutf
  <2>2. CASE y # Len(e)
    <3>1. y \in 0..(Len(e) - 1) /\ y + 1 \in 1..Len(e)
      BY <2>2
    <3>2. PICK z : z = e[y + 1]
      OBVIOUS
    <3>3. z \in Octet /\ z = At(s, y)
      BY <1>2, <3>1, <3>2
    <3>4. y + 1 \in Firsts(e) <=> z < 128 \/ z >= 192
      BY <3>1, <3>2 DEF Firsts
    <3>5. isutf(z) <=> z < 128 \/ z >= 192
      <4>1. z \in Octet
        BY <3>3
      <4> QED
        BY ONLY <4>1 DEF isutf, Octet
    <3> QED
      BY <2>2, <3>3, <3>4, <3>5
  <2> QED
    BY <2>1, <2>2
<1>11. Passes(s, p) <=> \/ b < 128
                        \/ b >= 192 /\ ~Overlong(b, c) /\ \A k \in 1..n : ~isutf(At(s, p + k))
  <2>1. n >= 1 => ((\A k \in 1..n : ~isutf(At(s, p + k)))
                     <=> ~isutf(c) /\ \A k \in 2..n : ~isutf(At(s, p + k)))
    <3>1. n >= 1 => (\A k \in Int : k \in 1..n <=> k = 1 \/ k \in 2..n)
      BY <1>4
    <3> QED
      BY <1>3, <1>4, <3>1
  <2>2. Passes(s, p) <=> \/ b < 128
                         \/ /\ b >= 192 /\ ~isutf(c) /\ ~Overlong(b, c)
                            /\ \A k \in 2..n : ~isutf(At(s, p + k))
    BY <1>3, <1>4, Zenon DEF Passes
  <2> QED
    BY <1>7, <2>1, <2>2
<1>12. Passes(s, p) => p + n + 1 <= x
  <2> SUFFICES ASSUME Passes(s, p), x < p + n + 1 PROVE FALSE
    BY <1>1, <1>4, <1>9
  <2>1. PICK k : k = x - p
    OBVIOUS
  <2>2. k \in 1..n /\ p + k = x /\ x \in 0..Len(e)
    BY <1>1, <1>4, <1>9, <2>1
  <2>3. isutf(At(s, x))
    BY ONLY <1>9, <1>10, <2>2
  <2>4. ~(b < 128)
    BY <1>6, <2>2
  <2> QED
    BY <1>11, <2>2, <2>3, <2>4
<1>13. p + 1 \in Firsts(e) => (Spells(SubSeq(e, p + 1, x)) <=> x = p + n + 1 /\ (b < 128 \/ ~Overlong(b, c)))
  <2> SUFFICES ASSUME p + 1 \in Firsts(e)
               PROVE  Spells(SubSeq(e, p + 1, x)) <=> x = p + n + 1 /\ (b < 128 \/ ~Overlong(b, c))
    OBVIOUS
  <2>1. Spells(SubSeq(e, p + 1, x)) <=> x = p + n + 1 /\ (b < 128 \/ ~Overlong(b, e[p + 2]))
    <3>1. Spells(SubSeq(e, p + 1, x)) <=>
            /\ x = p + trailingBytesForUTF8(e[p + 1]) + 1
            /\ e[p + 1] < 128 \/ ~Overlong(e[p + 1], e[p + 2])
      BY <1>3, SpellsIs
    <3>2. e[p + 1] = b /\ trailingBytesForUTF8(e[p + 1]) = n
      BY <1>3, <1>4
    <3> QED
      BY ONLY <3>1, <3>2
  <2>2. x = p + n + 1 /\ ~(b < 128) => c = e[p + 2]
    <3> SUFFICES ASSUME x = p + n + 1, ~(b < 128) PROVE c = e[p + 2]
      OBVIOUS
    <3>1. p + 1 \in 0..(Len(e) - 1) /\ p + 1 + 1 = p + 2
      BY <1>1, <1>4, <1>5, <1>7, <1>8, <1>9
    <3> QED
      BY <1>2, <1>3, <3>1
  <2> QED
    BY <2>1, <2>2
<1>14. Passes(s, p) /\ (p + n + 1 >= Len(e) \/ p + n + 2 \in Firsts(e))
         <=> p + 1 \in Firsts(e) /\ Spells(SubSeq(e, p + 1, x))
  <2>1. ASSUME Passes(s, p), p + n + 1 >= Len(e) \/ p + n + 2 \in Firsts(e)
        PROVE  p + 1 \in Firsts(e) /\ Spells(SubSeq(e, p + 1, x))
    <3>1. PICK y : y = p + n + 1
      OBVIOUS
    <3>2. y <= x /\ y \in Int /\ p + 1 <= y /\ y + 1 = p + n + 2
      BY <1>1, <1>4, <1>12, <2>1, <3>1
    <3>3. y \in (p + 1)..Len(e) /\ (y = Len(e) \/ y + 1 \in Firsts(e))
      BY <1>1, <1>9, <2>1, <3>1, <3>2
    <3>4. x = y
      BY <1>1, <1>9, <3>2, <3>3
    <3>5. b < 128 \/ (b >= 192 /\ ~Overlong(b, c))
      BY <1>11, <2>1
    <3> QED
      BY <1>8, <1>13, <3>1, <3>4, <3>5
  <2>2. ASSUME p + 1 \in Firsts(e), Spells(SubSeq(e, p + 1, x))
        PROVE  Passes(s, p) /\ (p + n + 1 >= Len(e) \/ p + n + 2 \in Firsts(e))
    <3>1. x = p + n + 1 /\ (b < 128 \/ ~Overlong(b, c))
      BY <1>13, <2>2
    <3>2. \A k \in 1..n : ~isutf(At(s, p + k))
      <4> TAKE k \in 1..n
      <4>1. PICK y : y = p + k
        OBVIOUS
      <4>2. y \in (p + 1)..Len(e) /\ y \in 0..Len(e) /\ ~(x <= y)
        BY <1>1, <1>4, <1>9, <3>1, <4>1
      <4> QED
        BY ONLY <1>9, <1>10, <4>1, <4>2
    <3>3. x + 1 = p + n + 2
      BY <1>1, <1>4, <3>1
    <3>4. Len(e) >= Len(e)
      BY <1>1
    <3> QED
      BY <1>8, <1>9, <1>11, <2>2, <3>1, <3>2, <3>3, <3>4
  <2> QED
    BY <2>1, <2>2
<1>15. PICK y : y = p + n + 1
  OBVIOUS
<1>16. y \in Int /\ y + 1 = p + n + 2 /\ (y < Len(e) <=> ~(y >= Len(e)))
  BY <1>1, <1>4, <1>15
<1> DEFINE OK(q) == Spells(SubSeq(e, q, Ending(e, q)))
<1>17. OK(p + 1) <=> Spells(SubSeq(e, p + 1, x))
  BY <1>3
<1>18. Well(e, p) <=> p + 1 \in Firsts(e) /\ \A q \in Firsts(e) : q > p => OK(q)
  <2>1. p < Len(e)
    BY <1>1
  <2> QED
    BY <2>1, Zenon DEF Well
<1>19. Well(e, y) <=> (y < Len(e) => y + 1 \in Firsts(e) /\ \A q \in Firsts(e) : q > y => OK(q))
  BY Zenon DEF Well
<1>20. \A q \in Firsts(e) : q \in 1..Len(e)
  BY <1>1 DEF Firsts
<1>21. \A q \in Firsts(e) : q > p => q = p + 1 \/ q > x
  <2> SUFFICES ASSUME NEW q \in Firsts(e), q > p, q # p + 1, ~(q > x) PROVE FALSE
    OBVIOUS
  <2>1. PICK z : z = q - 1
    OBVIOUS
  <2>2. q \in 1..Len(e)
    BY <1>20
  <2>3. z \in (p + 1)..Len(e) /\ z + 1 = q /\ ~(x <= z)
    BY <1>1, <1>9, <2>1, <2>2
  <2> QED
    BY ONLY <1>9, <2>3, q \in Firsts(e)
<1>22. Spells(SubSeq(e, p + 1, x)) /\ p + 1 \in Firsts(e) => x = y
  BY <1>13, <1>15
<1> HIDE DEF OK
<1>23. ASSUME Well(e, p) PROVE Passes(s, p) /\ Well(e, y)
  <2>1. p + 1 \in Firsts(e) /\ OK(p + 1)
    BY <1>1, <1>18, <1>23
  <2>2. Passes(s, p) /\ (y >= Len(e) \/ y + 1 \in Firsts(e)) /\ x = y
    BY <1>14, <1>15, <1>16, <1>17, <1>22, <2>1
  <2>3. \A q \in Firsts(e) : q > y => OK(q)
    <3> SUFFICES ASSUME NEW q \in Firsts(e), q > y PROVE OK(q)
      OBVIOUS
    <3>1. q \in 1..Len(e)
      BY <1>20
    <3>2. q > p
      BY <1>1, <1>4, <1>15, <3>1
    <3> QED
      BY <1>18, <1>23, <3>2
  <2> QED
    BY <1>16, <1>19, <2>2, <2>3
<1>24. ASSUME Passes(s, p), Well(e, y) PROVE Well(e, p)
  <2>1. y >= Len(e) \/ y + 1 \in Firsts(e)
    BY <1>16, <1>19, <1>24
  <2>2. p + 1 \in Firsts(e) /\ OK(p + 1) /\ x = y
    BY <1>14, <1>15, <1>16, <1>17, <1>22, <1>24, <2>1
  <2>3. \A q \in Firsts(e) : q > p => OK(q)
    <3> SUFFICES ASSUME NEW q \in Firsts(e), q > p, q # p + 1 PROVE OK(q)
      BY <2>2
    <3>1. q \in 1..Len(e) /\ q > y
      BY <1>20, <1>21, <2>2
    <3>2. y < Len(e)
      BY <1>1, <1>16, <3>1
    <3> QED
      BY <1>19, <1>24, <3>1, <3>2
  <2> QED
    BY <1>18, <2>2, <2>3
<1>25. Passes(s, p) => p + n + 1 <= Len(e)
  BY <1>1, <1>4, <1>9, <1>12
<1> QED
  BY <1>15, <1>23, <1>24, <1>25

\* One round: what is left of the count never stops it, for there are at most as
\* many bytes behind first bytes as there are behind the first of them.
LEMMA CheckingRound ==
  ASSUME NEW e \in Seq(Octet), NEW s, s = e \o << 0 >>, NEW p \in 0..(Len(e) - 1), NEW f,
         \A q \in (p + 1)..Len(e), left \in Nat :
           left >= Len(e) - q => (f[q][left] <=> Well(e, q)),
         NEW left \in Nat, left >= Len(e) - p
  PROVE  Checking(s, Len(e), f, p)[left] <=> Well(e, p)
<1>1. PICK L, b, n : L = Len(e) /\ b = At(s, p) /\ n = trailingBytesForUTF8(b)
  OBVIOUS
<1>2. p \in Nat /\ L \in Nat /\ p < L
  BY <1>1
<1>3. s \in Seq(Octet) /\ Len(s) = L + 1
  <2>1. <<0>> \in Seq(Octet)
    BY DEF Octet
  <2> QED
    BY <1>1, <2>1
<1>4. b \in Octet /\ n \in 0..5
  <2>1. p \in 0..(Len(s) - 1)
    BY <1>2, <1>3
  <2> QED
    BY <1>1, <1>3, <2>1, BytesAt, TrailingBytes
<1>5. b < 128 => n = 0
  BY <1>1, <1>4, TrailingAscii
<1>6. Checking(s, L, f, p)[left] <=>
        \/ b < 128 /\ f[p + 1][left]
        \/ /\ b >= 192 /\ left >= n
           /\ ~isutf(At(s, p + 1)) /\ ~Overlong(b, At(s, p + 1))
           /\ \A k \in 2..n : ~isutf(At(s, p + k))
           /\ f[p + n + 1][left - n]
  <2>1. ~(p >= L)
    BY <1>2
  <2> QED
    BY <1>1, <1>2, <2>1, Zenon DEF Checking
<1>7. Passes(s, p) <=>
        \/ b < 128
        \/ /\ b >= 192 /\ ~isutf(At(s, p + 1)) /\ ~Overlong(b, At(s, p + 1))
           /\ \A k \in 2..n : ~isutf(At(s, p + k))
  BY <1>1, Zenon DEF Passes
<1>8. (Passes(s, p) => p + n + 1 <= L) /\ (Well(e, p) <=> Passes(s, p) /\ Well(e, p + n + 1))
  BY <1>1, WellOn
<1>9. Passes(s, p) => left >= n /\ (f[p + n + 1][left - n] <=> Well(e, p + n + 1))
  <2> SUFFICES ASSUME Passes(s, p)
               PROVE  left >= n /\ (f[p + n + 1][left - n] <=> Well(e, p + n + 1))
    OBVIOUS
  <2>1. PICK q, rest : q = p + n + 1 /\ rest = left - n
    OBVIOUS
  <2>2. q \in (p + 1)..Len(e) /\ left >= n /\ rest \in Nat /\ rest >= Len(e) - q
    <3>1. p + n + 1 <= L /\ n \in Nat
      BY <1>4, <1>8
    <3>2. left >= L - p /\ left \in Nat
      BY <1>1
    <3>3. q \in (p + 1)..L /\ left >= n /\ rest \in Nat /\ rest >= L - q
      BY ONLY <1>2, <2>1, <3>1, <3>2
    <3> QED
      BY ONLY <1>1, <3>3
  <2>3. f[q][rest] <=> Well(e, q)
    BY <2>2
  <2> QED
    BY <2>1, <2>2, <2>3
<1>10. b < 128 => p + n + 1 = p + 1 /\ left - n = left /\ ~(b >= 192)
  <2>1. b \in Int
    BY <1>4 DEF Octet
  <2> QED
    BY <1>2, <1>5, <2>1
<1>11. Checking(s, L, f, p)[left] <=> Passes(s, p) /\ Well(e, p + n + 1)
  <2>1. CASE b < 128
    <3>1. Passes(s, p)
      BY <1>7, <2>1
    <3>2. f[p + 1][left] <=> Well(e, p + n + 1)
      BY <1>9, <1>10, <2>1, <3>1
    <3> QED
      BY ONLY <1>6, <1>10, <2>1, <3>1, <3>2
  <2>2. CASE ~(b < 128)
    BY ONLY <1>6, <1>7, <1>9, <2>2
  <2> QED
    BY <2>1, <2>2
<1> QED
  BY <1>1, <1>8, <1>11

\* u8_isvalid accepts the shortest spellings of up to six bytes, and nothing else.
LEMMA ValidIs ==
  ASSUME NEW e \in Seq(Octet)
  PROVE  u8_isvalid(e \o <<0>>, Len(e)) = WellFormed(e)
<1>1. PICK s, L : s = e \o <<0>> /\ L = Len(e)
  OBVIOUS
<1>2. L \in Nat /\ s \in Seq(Octet) /\ Len(s) = L + 1
  <2>1. <<0>> \in Seq(Octet)
    BY DEF Octet
  <2> QED
    BY <1>1, <2>1
<1>3. PICK f : f = CheckingFrom(s, L)
  OBVIOUS
<1>4. f = [p \in Nat |-> Checking(s, L, f, p)]
  BY <1>2, <1>3, CheckingExists
<1> DEFINE Right(p) == \A left \in Nat : left >= L - p => (f[p][left] <=> Well(e, p))
           T == {d \in 0..L : \A q \in d..L : Right(q)}
<1>5. Right(L)
  <2>1. \A left \in Nat : f[L][left]
    <3> TAKE left \in Nat
    <3>1. f[L] = Checking(s, L, f, L)
      BY <1>2, <1>4
    <3>2. Checking(s, L, f, L)[left]
      <4>1. L >= L
        BY <1>2
      <4> QED
        BY <4>1, Zenon DEF Checking
    <3> QED
      BY <3>1, <3>2
  <2>2. Well(e, L)
    <3>1. ~(L < Len(e))
      BY <1>1, <1>2
    <3> QED
      BY <3>1, Zenon DEF Well
  <2> QED
    BY <2>1, <2>2
<1>6. L \in T
  BY <1>2, <1>5
<1>7. ASSUME NEW d \in 1..L, d \in T PROVE d - 1 \in T
  <2>1. PICK p : p = d - 1
    OBVIOUS
  <2>2. p \in 0..(Len(e) - 1) /\ p \in Nat /\ p + 1 = d
    BY <1>1, <1>2, <2>1
  <2>3. \A q \in (p + 1)..Len(e), left \in Nat : left >= Len(e) - q => (f[q][left] <=> Well(e, q))
    BY <1>1, <1>7, <2>2
  <2>4. Right(p)
    <3> TAKE left \in Nat
    <3> HAVE left >= L - p
    <3>1. left >= Len(e) - p
      BY <1>1
    <3>2. Checking(s, Len(e), f, p)[left] <=> Well(e, p)
      BY <1>1, <2>2, <2>3, <3>1, CheckingRound
    <3>3. f[p] = Checking(s, Len(e), f, p)
      BY <1>1, <1>4, <2>2
    <3> QED
      BY <3>2, <3>3
  <2>5. \A q \in p..L : q = p \/ q \in d..L
    BY <1>2, <2>2
  <2> HIDE DEF Right
  <2> QED
    BY <1>2, <1>7, <2>1, <2>2, <2>4, <2>5
<1> HIDE DEF T
<1>8. 0 \in T
  <2>1. 0..L \subseteq T
    BY ONLY <1>2, <1>6, <1>7, Descend
  <2> QED
    BY <1>2, <2>1
<1>9. f[0][L] <=> Well(e, 0)
  BY <1>2, <1>8 DEF T
<1>10. Well(e, 0) <=> WellFormed(e)
  <2>1. 0 < Len(e) <=> e # <<>>
    OBVIOUS
  <2>2. \A q \in Firsts(e) : q > 0 /\ 0 < Len(e)
    BY DEF Firsts
  <2> QED
    BY <2>1, <2>2 DEF Well, WellFormed
<1>11. u8_isvalid(s, L) = f[0][L]
  BY <1>3, IsvalidUnfolds
<1>12. f[0][L] \in BOOLEAN
  <2>1. f[0] = Checking(s, L, f, 0)
    BY <1>4
  <2>2. Checking(s, L, f, 0)[L] \in BOOLEAN
    BY <1>2, Zenon DEF Checking
  <2> QED
    BY <2>1, <2>2
<1>13. WellFormed(e) \in BOOLEAN
  BY DEF WellFormed
<1>14. f[0][L] = WellFormed(e)
  BY <1>9, <1>10, <1>12, <1>13
<1> QED
  BY <1>1, <1>11, <1>14

\* What u8_wc_toutf8 writes is the shortest spelling.
LEMMA SpelledShortest ==
  ASSUME NEW ch \in Chr
  PROVE  Spells(u8_wc_toutf8(ch))
<1>1. PICK bs, n : bs = u8_wc_toutf8(ch) /\ n = u8_charlen(ch)
  OBVIOUS
<1>2. /\ bs \in Seq(Octet) /\ n \in 1..4 /\ Len(bs) = n
      /\ \A k \in 2..n : ~isutf(bs[k])
  BY <1>1, Written
<1>3. CodePoint(bs) = ch
  BY <1>1, CodePointIs
<1>4. ch \in Nat /\ ch < 1114112
  BY DEF Chr
<1>5. \A j \in 2..n : bs[j] \in 128..191
  BY <1>2 DEF isutf
<1>6. n \in 1..6
  BY <1>2
<1>7. Tag[1] = 0 /\ Tag[2] = 192 /\ Tag[3] = 224 /\ Tag[4] = 240
  BY DEF Tag
<1>8. Free[1] = 128 /\ Free[2] = 32 /\ Free[3] = 16 /\ Free[4] = 8
  BY DEF Free
<1>9. Least[1] = 0 /\ Least[2] = 128 /\ Least[3] = 2048 /\ Least[4] = 65536
  BY DEF Least
<1>10. bs[1] \in Tag[n]..(Tag[n] + Free[n] - 1) /\ ch >= Least[n]
  <2>1. CASE ch < 128
    <3>1. n = 1 /\ bs[1] = ch
      BY <1>1, <1>4, <2>1, One
    <3> QED
      BY <1>4, <1>7, <1>8, <1>9, <2>1, <3>1
  <2>2. CASE 128 <= ch /\ ch < 2048
    <3>1. n = 2 /\ bs[1] = 192 + (ch \div 64) /\ ch \div 64 \in 2..31
      BY <1>1, <1>4, <2>2, Two
    <3> QED
      BY <1>4, <1>7, <1>8, <1>9, <2>2, <3>1
  <2>3. CASE 2048 <= ch /\ ch < 65536
    <3>1. n = 3 /\ bs[1] = 224 + (ch \div 4096) /\ ch \div 4096 \in 0..15
      BY <1>1, <1>4, <2>3, Three
    <3> QED
      BY <1>4, <1>7, <1>8, <1>9, <2>3, <3>1
  <2>4. CASE 65536 <= ch
    <3>1. n = 4 /\ bs[1] = 240 + (ch \div 262144) /\ ch \div 262144 \in 0..4
      BY <1>1, <1>4, <2>4, Four
    <3> QED
      BY <1>4, <1>7, <1>8, <1>9, <2>4, <3>1
  <2> QED
    BY <1>4, <2>1, <2>2, <2>3, <2>4
<1>11. Spells(bs)
  BY <1>2, <1>3, <1>5, <1>6, <1>10 DEF Spells
<1> QED
  BY <1>1, <1>11

\* So what is written for a text is well formed, and u8_isvalid accepts it.
LEMMA EncodedWell ==
  ASSUME NEW t \in Seq(Chr)
  PROVE  WellFormed(Encoded(t))
<1>1. Firsts(Encoded(t)) = {Bound(t, h - 1) + 1 : h \in 1..Len(t)}
  BY FirstsOf
<1>2. ASSUME NEW p \in Firsts(Encoded(t))
      PROVE  Spells(SubSeq(Encoded(t), p, Ending(Encoded(t), p)))
  <2>1. PICK h \in 1..Len(t) : p = Bound(t, h - 1) + 1
    BY <1>1
  <2>2. /\ Ending(Encoded(t), p) = Bound(t, h)
        /\ SubSeq(Encoded(t), p, Bound(t, h)) = u8_wc_toutf8(t[h])
    BY <2>1, PieceOf
  <2>3. t[h] \in Chr
    BY ElementOfSeq
  <2> QED
    BY <2>2, <2>3, SpelledShortest
<1>3. Encoded(t) # <<>> => 1 \in Firsts(Encoded(t))
  <2> SUFFICES ASSUME Encoded(t) # <<>> PROVE 1 \in Firsts(Encoded(t))
    OBVIOUS
  <2>1. t # <<>>
    BY EncodedNil
  <2>2. 1 \in 1..Len(t)
    BY <2>1
  <2>3. Bound(t, 1 - 1) + 1 = 1
    BY Bounds
  <2> QED
    BY <1>1, <2>2, <2>3
<1> QED
  BY <1>2, <1>3 DEF WellFormed

LEMMA StoredIsvalid ==
  ASSUME NEW t \in Seq(Chr)
  PROVE  u8_isvalid(Stored(t), Bound(t, Len(t))) = TRUE
<1>1. Bound(t, Len(t)) = Len(Encoded(t))
  BY Bounds
<1>2. u8_isvalid(Stored(t), Len(Encoded(t))) = WellFormed(Encoded(t))
  BY EncodedBytes, ValidIs DEF Stored
<1>3. WellFormed(Encoded(t)) = TRUE
  BY EncodedWell DEF WellFormed
<1> QED
  BY <1>1, <1>2, <1>3

\* A sequence with another element in one place.
LEMMA Replacing ==
  ASSUME NEW S, NEW d \in Seq(S), NEW p \in 1..Len(d), NEW b \in S, NEW e, e = [d EXCEPT ![p] = b]
  PROVE  e \in Seq(S) /\ Len(e) = Len(d) /\ \A j \in 1..Len(d) : e[j] = IF j = p THEN b ELSE d[j]
OBVIOUS

\* A sequence with one more element.
LEMMA Onto ==
  ASSUME NEW S, NEW d \in Seq(S), NEW z \in S, NEW r, r = d \o <<z>>
  PROVE  /\ r \in Seq(S) /\ Len(r) = Len(d) + 1
         /\ \A j \in 1..Len(d) : r[j] = d[j]
         /\ r[Len(d) + 1] = z /\ Front(r) = d
<1>1. <<z>> \in Seq(S)
  OBVIOUS
<1>2. r \in Seq(S) /\ Len(r) = Len(d) + 1 /\ \A j \in 1..Len(d) : r[j] = d[j]
  BY <1>1
<1>3. r[Len(d) + 1] = z
  BY <1>1
<1>4. SubSeq(r, 1, Len(d)) = d
  BY <1>1
<1>5. Len(r) - 1 = Len(d)
  BY <1>2
<1> QED
  BY <1>2, <1>3, <1>4, <1>5 DEF Front

LEMMA SameSequence ==
  ASSUME NEW S, NEW x \in Seq(S), NEW y \in Seq(S), Len(x) = Len(y),
         \A j \in 1..Len(x) : x[j] = y[j]
  PROVE  x = y
OBVIOUS

\* A string in which a byte was replaced.
LEMMA SpoiledIs ==
  ASSUME NEW t \in Seq(Chr), NEW p \in 1..Len(Encoded(t)), NEW b \in 0..255,
         NEW s, s = [Stored(t) EXCEPT ![p] = b]
  PROVE  u8_isvalid(s, Len(Encoded(t))) = WellFormed(Front(s))
<1>1. PICK d, e, r, y : d = Encoded(t) /\ e = [d EXCEPT ![p] = b] /\ r = d \o <<0>> /\ y = e \o <<0>>
  OBVIOUS
<1>2. d \in Seq(Octet) /\ Len(d) \in Nat /\ p \in 1..Len(d) /\ b \in Octet /\ 0 \in Octet
  BY <1>1, EncodedBytes DEF Octet
<1>3. s = [r EXCEPT ![p] = b]
  BY <1>1 DEF Stored
<1>4. e \in Seq(Octet) /\ Len(e) = Len(d) /\ \A j \in 1..Len(d) : e[j] = IF j = p THEN b ELSE d[j]
  BY <1>1, <1>2, Replacing
<1>5. /\ r \in Seq(Octet) /\ Len(r) = Len(d) + 1 /\ r[Len(d) + 1] = 0
      /\ \A j \in 1..Len(d) : r[j] = d[j]
  BY <1>1, <1>2, Onto
<1>6. p \in 1..Len(r) /\ p # Len(d) + 1
  BY <1>2, <1>5
<1>7. s \in Seq(Octet) /\ Len(s) = Len(r) /\ \A j \in 1..Len(r) : s[j] = IF j = p THEN b ELSE r[j]
  BY ONLY <1>2, <1>3, <1>5, <1>6, Replacing
<1>8. /\ y \in Seq(Octet) /\ Len(y) = Len(e) + 1 /\ y[Len(e) + 1] = 0
      /\ \A j \in 1..Len(e) : y[j] = e[j]
  BY <1>1, <1>2, <1>4, Onto
<1>9. Front(y) = e
  <2>1. e \in Seq(Octet) /\ 0 \in Octet /\ y = e \o <<0>>
    BY <1>1, <1>2, <1>4
  <2> QED
    BY ONLY <2>1, Onto
<1>10. \A j \in 1..Len(s) : s[j] = y[j]
  <2> TAKE j \in 1..Len(s)
  <2>1. j \in 1..Len(r) /\ (j \in 1..Len(d) \/ j = Len(d) + 1)
    <3>1. j \in 1..(Len(d) + 1)
      BY <1>5, <1>7
    <3> QED
      BY ONLY <1>2, <1>5, <3>1
  <2> QED
    BY ONLY <1>4, <1>5, <1>6, <1>7, <1>8, <2>1
<1>11. s = y
  BY ONLY <1>4, <1>5, <1>7, <1>8, <1>10, SameSequence
<1> QED
  BY <1>1, <1>4, <1>9, <1>11, ValidIs

-------------------------------------------------------------------------------
(* The client's string and index, and what it has escaped.                 *)

\* There is the text t in memory, and the index is before character k + 1. What
\* is escaped stands for the characters since a.
Holding(t, k, a) ==
  /\ mem = Stored(t) /\ i = Bound(t, k)
  /\ Told(esc, SubSeq(t, a + 1, k)) /\ back = Encoded(SubSeq(t, a + 1, k))

IInv ==
  /\ \E t \in Seq(Chr) : \E k \in 0..Len(t) : \E a \in 0..k : Holding(t, k, a)
  /\ EscapeFits

\* What a CharText is mapped to.
TextNow == CharsOf(SubSeq(mem, 1, Length))
IndexNow == Len(CharsOf(SubSeq(mem, 1, i)))
SaidNow == CharsOf(back)

\* The bytes in memory, the index and what was unescaped are those of a text.
LEMMA MappedTo ==
  ASSUME NEW t \in Seq(Chr), NEW k \in 0..Len(t), NEW a \in 0..k, Holding(t, k, a)
  PROVE  TextNow = t /\ IndexNow = k /\ SaidNow = SubSeq(t, a + 1, k)
<1>1. /\ CharsOf(SubSeq(Stored(t), 1, Len(Stored(t)) - 1)) = t
      /\ Len(CharsOf(SubSeq(Stored(t), 1, Bound(t, k)))) = k
  BY CharsBefore
<1>2. SubSeq(t, a + 1, k) \in Seq(Chr)
  BY Piece
<1>3. CharsOf(Encoded(SubSeq(t, a + 1, k))) = SubSeq(t, a + 1, k)
  BY <1>2, CharsAre
<1> QED
  BY <1>1, <1>3, Zenon DEF Holding, TextNow, IndexNow, SaidNow, Length

LEMMA MappedNext ==
  ASSUME NEW t \in Seq(Chr), NEW k \in 0..Len(t), NEW a \in 0..k, Holding(t, k, a)'
  PROVE  TextNow' = t /\ IndexNow' = k /\ SaidNow' = SubSeq(t, a + 1, k)
<1>1. /\ CharsOf(SubSeq(Stored(t), 1, Len(Stored(t)) - 1)) = t
      /\ Len(CharsOf(SubSeq(Stored(t), 1, Bound(t, k)))) = k
  BY CharsBefore
<1>2. SubSeq(t, a + 1, k) \in Seq(Chr)
  BY Piece
<1>3. CharsOf(Encoded(SubSeq(t, a + 1, k))) = SubSeq(t, a + 1, k)
  BY <1>2, CharsAre
<1> QED
  BY <1>1, <1>3, Zenon DEF Holding, TextNow, IndexNow, SaidNow, Length

\* A string that nothing was escaped of.
LEMMA HeldNext ==
  ASSUME NEW t \in Seq(Chr), NEW n \in 0..Len(t),
         mem' = Stored(t), i' = Bound(t, n), esc' = <<>>, back' = <<>>
  PROVE  Holding(t, n, n)' /\ SubSeq(t, n + 1, n) = <<>>
<1>1. SubSeq(t, n + 1, n) = <<>>
  OBVIOUS
<1>2. Told(<<>>, <<>>) /\ Encoded(<<>>) = <<>>
  BY ToldNothing, EncodedNil
<1> QED
  BY <1>1, <1>2 DEF Holding

\* A call of a kind of its own, and what it is for a CharText.
LEMMA Called ==
  ASSUME NEW t \in Seq(Chr), NEW k \in 0..Len(t), NEW a \in 0..k, Holding(t, k, a),
         NEW op, op # "escape", NEW num, NEW r, NEW n \in 0..Len(t), Calls(op, num, Bound(t, n), r)
  PROVE  /\ IInv' /\ Text!Does(op, n, r)
         /\ call'.num = num
<1>1. /\ call' = [op |-> op, num |-> num, ret |-> r, bytes |-> <<>>]
      /\ mem' = Stored(t) /\ i' = Bound(t, n) /\ esc' = <<>> /\ back' = <<>>
  BY DEF Calls, Holding
<1>2. Holding(t, n, n)' /\ SubSeq(t, n + 1, n) = <<>> /\ n \in 0..n
  BY <1>1, HeldNext
<1>3. TextNow' = t /\ IndexNow' = n /\ SaidNow' = <<>>
  BY <1>2, MappedNext
<1>4. TextNow = t
  BY MappedTo
<1>5. EscapeFits'
  BY <1>1 DEF EscapeFits
<1>6. IInv'
  BY <1>2, <1>5 DEF IInv
<1>7. Text!Does(op, n, r)
  BY <1>1, <1>3, <1>4 DEF Text!Does, TextNow, IndexNow, SaidNow
<1> QED
  BY <1>1, <1>6, <1>7

\* Where a call finds the string and the index.
LEMMA Standing ==
  ASSUME NEW t \in Seq(Chr), NEW k \in 0..Len(t), NEW a \in 0..k, Holding(t, k, a)
  PROVE  /\ mem = Stored(t) /\ i = Bound(t, k) /\ Length = Bound(t, Len(t))
         /\ TextNow = t /\ IndexNow = k /\ Len(t) \in Nat
         /\ i < Length => k + 1 \in 1..Len(t) /\ k + 1 - 1 = k
         /\ i > 0 => k \in 1..Len(t) /\ k - 1 \in 0..Len(t)
<1>1. mem = Stored(t) /\ i = Bound(t, k)
  BY DEF Holding
<1>2. Len(Stored(t)) = Bound(t, Len(t)) + 1 /\ Bound(t, Len(t)) \in Nat /\ Len(t) \in Nat
  <2>1. Len(t) \in Nat /\ Len(t) \in 0..Len(t)
    OBVIOUS
  <2> QED
    BY <2>1, StoredBytes, Parted
<1>3. Length = Bound(t, Len(t))
  BY <1>1, <1>2 DEF Length
<1>4. i < Length => k # Len(t)
  BY <1>1, <1>2, <1>3
<1>5. i > 0 => k # 0
  <2>1. Bound(t, 0) = 0
    BY Bounds
  <2> QED
    BY <1>1, <2>1
<1>6. TextNow = t /\ IndexNow = k
  BY MappedTo
<1>7. /\ k # Len(t) => k + 1 \in 1..Len(t) /\ k + 1 - 1 = k
      /\ k # 0 => k \in 1..Len(t) /\ k - 1 \in 0..Len(t)
  BY <1>2
<1> QED
  BY <1>1, <1>2, <1>3, <1>4, <1>5, <1>6, <1>7

\* One lemma for each call: it keeps the invariant and is a step of a CharText.
LEMMA IncStep ==
  ASSUME NEW t \in Seq(Chr), NEW k \in 0..Len(t), NEW a \in 0..k, Holding(t, k, a), Inc
  PROVE  IInv' /\ Text!Next
<1>1. mem = Stored(t) /\ i = Bound(t, k) /\ IndexNow = k /\ k + 1 \in 1..Len(t) /\ k + 1 - 1 = k
  BY Standing DEF Inc
<1>2. u8_inc(mem, i) = Bound(t, k + 1)
  BY <1>1, Walk
<1>3. Calls("inc", 0, Bound(t, k + 1), 0) /\ k + 1 \in 0..Len(t)
  BY <1>1, <1>2 DEF Inc
<1>4. IInv' /\ Text!Does("inc", k + 1, 0)
  BY <1>3, Called
<1>5. Text!Does("inc", IndexNow + 1, 0)
  BY <1>1, <1>4
<1>6. Text!Move
  BY <1>5 DEF Text!Move, IndexNow
<1> QED
  BY <1>4, <1>6 DEF Text!Next

LEMMA DecStep ==
  ASSUME NEW t \in Seq(Chr), NEW k \in 0..Len(t), NEW a \in 0..k, Holding(t, k, a), Dec
  PROVE  IInv' /\ Text!Next
<1>1. mem = Stored(t) /\ i = Bound(t, k) /\ IndexNow = k /\ k \in 1..Len(t) /\ k - 1 \in 0..Len(t)
  BY Standing DEF Dec
<1>2. u8_dec(mem, i) = Bound(t, k - 1)
  BY <1>1, Walk
<1>3. Calls("dec", 0, Bound(t, k - 1), 0)
  BY <1>2 DEF Dec
<1>4. IInv' /\ Text!Does("dec", k - 1, 0)
  BY <1>1, <1>3, Called
<1>5. Text!Does("dec", IndexNow - 1, 0)
  BY <1>1, <1>4
<1>6. Text!Move
  BY <1>5 DEF Text!Move, IndexNow
<1> QED
  BY <1>4, <1>6 DEF Text!Next

LEMMA OffsetStep ==
  ASSUME NEW t \in Seq(Chr), NEW k \in 0..Len(t), NEW a \in 0..k, Holding(t, k, a), Offset
  PROVE  IInv' /\ Text!Next
<1>1. mem = Stored(t) /\ i = Bound(t, k)
  BY Standing
<1>2. PICK n \in 0..u8_strlen(mem) : Calls("offset", n, u8_offset(mem, n), 0)
  BY DEF Offset
<1>3. n \in 0..Len(t)
  BY <1>1, StrlenIs
<1>4. Calls("offset", n, Bound(t, n), 0)
  BY <1>1, <1>2, <1>3, OffsetIs
<1>5. IInv' /\ Text!Does("offset", n, 0) /\ call'.num = n
  BY <1>3, <1>4, Called
<1>6. Text!Does("offset", call'.num, 0)
  BY <1>5
<1>7. Text!Move
  BY <1>6 DEF Text!Move
<1> QED
  BY <1>5, <1>7 DEF Text!Next

LEMMA NextmemcharStep ==
  ASSUME NEW t \in Seq(Chr), NEW k \in 0..Len(t), NEW a \in 0..k, Holding(t, k, a),
         Nextchar \/ Nextmemchar
  PROVE  IInv' /\ Text!Next
<1>1. /\ mem = Stored(t) /\ i = Bound(t, k) /\ IndexNow = k /\ TextNow = t
      /\ k + 1 \in 1..Len(t) /\ k + 1 - 1 = k
  BY Standing DEF Nextchar, Nextmemchar
<1>2. u8_nextmemchar(mem, i) = Read(t[k + 1], Bound(t, k + 1)) /\ At(mem, i) # 0
  BY <1>1, Walk
<1>3. u8_nextchar(mem, i) = Read(t[k + 1], Bound(t, k + 1))
  BY <1>2, Zenon DEF u8_nextchar
<1>4. PICK op \in {"nextchar", "nextmemchar"} : Calls(op, 0, Bound(t, k + 1), t[k + 1])
  <2>1. Read(t[k + 1], Bound(t, k + 1)).i = Bound(t, k + 1) /\ Read(t[k + 1], Bound(t, k + 1)).ch = t[k + 1]
    BY DEF Read
  <2> QED
    BY <1>2, <1>3, <2>1, Zenon DEF Nextchar, Nextmemchar
<1>5. op # "escape" /\ k + 1 \in 0..Len(t)
  BY <1>1
<1>6. IInv' /\ Text!Does(op, k + 1, t[k + 1])
  BY <1>4, <1>5, Called
<1>7. Text!Does(op, IndexNow + 1, TextNow[IndexNow + 1]) /\ IndexNow < Len(TextNow)
  BY <1>1, <1>6
<1>8. Text!Move
  BY <1>4, <1>7 DEF Text!Move, IndexNow, TextNow
<1> QED
  BY <1>6, <1>8 DEF Text!Next

LEMMA CharnumStep ==
  ASSUME NEW t \in Seq(Chr), NEW k \in 0..Len(t), NEW a \in 0..k, Holding(t, k, a), Charnum
  PROVE  IInv' /\ Text!Next
<1>1. mem = Stored(t) /\ i = Bound(t, k) /\ IndexNow = k
  BY Standing
<1>2. Calls("charnum", 0, Bound(t, k), k)
  BY <1>1, CharnumIs DEF Charnum
<1>3. IInv' /\ Text!Does("charnum", k, k)
  BY <1>2, Called
<1>4. Text!Does("charnum", IndexNow, IndexNow)
  BY <1>1, <1>3
<1>5. Text!Ask
  BY <1>4 DEF Text!Ask, IndexNow
<1> QED
  BY <1>3, <1>5 DEF Text!Next

LEMMA StrlenStep ==
  ASSUME NEW t \in Seq(Chr), NEW k \in 0..Len(t), NEW a \in 0..k, Holding(t, k, a), Strlen
  PROVE  IInv' /\ Text!Next
<1>1. mem = Stored(t) /\ i = Bound(t, k) /\ IndexNow = k /\ TextNow = t
  BY Standing
<1>2. Calls("strlen", 0, Bound(t, k), Len(t))
  BY <1>1, StrlenIs DEF Strlen
<1>3. IInv' /\ Text!Does("strlen", k, Len(t))
  BY <1>2, Called
<1>4. Text!Does("strlen", IndexNow, Len(TextNow))
  BY <1>1, <1>3
<1>5. Text!Ask
  BY <1>4 DEF Text!Ask, IndexNow, TextNow
<1> QED
  BY <1>3, <1>5 DEF Text!Next

LEMMA ToucsStep ==
  ASSUME NEW t \in Seq(Chr), NEW k \in 0..Len(t), NEW a \in 0..k, Holding(t, k, a), Toucs
  PROVE  IInv' /\ Text!Next
<1>1. mem = Stored(t) /\ i = Bound(t, k) /\ IndexNow = k /\ TextNow = t
  BY Standing
<1>2. PICK sz \in Rooms : Calls("toucs", sz, i, u8_toucs(sz, mem, i))
  BY DEF Toucs
<1>3. sz \in Nat
  BY Utf8Assumption
<1>4. Calls("toucs", sz, Bound(t, k), SubSeq(t, 1, IF sz < k THEN sz ELSE k))
  BY <1>1, <1>2, <1>3, ToucsIs
<1>5. /\ IInv' /\ Text!Does("toucs", k, SubSeq(t, 1, IF sz < k THEN sz ELSE k))
      /\ call'.num = sz
  BY <1>4, Called
<1>6. Text!Does("toucs", IndexNow,
                IF call'.num < IndexNow THEN SubSeq(TextNow, 1, call'.num)
                ELSE SubSeq(TextNow, 1, IndexNow))
  BY <1>1, <1>5
<1>7. Text!Ask
  BY <1>6 DEF Text!Ask, Text!Before, IndexNow, TextNow
<1> QED
  BY <1>5, <1>7 DEF Text!Next

LEMMA IsvalidStep ==
  ASSUME NEW t \in Seq(Chr), NEW k \in 0..Len(t), NEW a \in 0..k, Holding(t, k, a), Isvalid
  PROVE  IInv' /\ Text!Next
<1>1. mem = Stored(t) /\ i = Bound(t, k) /\ IndexNow = k /\ Length = Bound(t, Len(t))
  BY Standing
<1>2. Calls("isvalid", 0, Bound(t, k), TRUE)
  BY <1>1, StoredIsvalid DEF Isvalid
<1>3. IInv' /\ Text!Does("isvalid", k, TRUE)
  BY <1>2, Called
<1>4. Text!Does("isvalid", IndexNow, TRUE)
  BY <1>1, <1>3
<1>5. Text!Ask
  BY <1>4 DEF Text!Ask, IndexNow
<1> QED
  BY <1>3, <1>5 DEF Text!Next

-------------------------------------------------------------------------------
(* Searching.                                                              *)

\* What FirstIn says of a text.
LEMMA FirstInIs ==
  ASSUME NEW S, NEW t \in Seq(S), NEW ch, NEW h, h = Text!FirstIn(t, ch)
  PROVE  /\ h \in 0..Len(t) /\ \A j \in 1..h : t[j] # ch
         /\ h = Len(t) \/ t[h + 1] = ch
<1> DEFINE Q == {n \in 0..Len(t) : n = Len(t) \/ t[n + 1] = ch}
<1>1. Len(t) \in Nat
  OBVIOUS
<1>2. Len(t) \in Q /\ Q \in SUBSET Nat
  BY <1>1
<1>3. h = Min(Q)
  BY Zenon DEF Text!FirstIn, Text!Min, Min
<1>4. h \in Q /\ \A x \in Q : h <= x
  <2> HIDE DEF Q
  <2> QED
    BY <1>2, <1>3, LeastOf
<1>5. \A j \in 1..h : t[j] # ch
  <2> SUFFICES ASSUME NEW j \in 1..h, t[j] = ch PROVE FALSE
    OBVIOUS
  <2>1. PICK n : n = j - 1
    OBVIOUS
  <2>2. h \in 0..Len(t)
    BY <1>4
  <2>3. n \in 0..Len(t) /\ n + 1 = j /\ ~(h <= n)
    BY <1>1, <2>1, <2>2
  <2>4. n \in Q
    BY <2>3
  <2> QED
    BY <1>4, <2>3, <2>4
<1> QED
  BY <1>4, <1>5

\* What LastIn says of a text: where the last one is, or that there is none.
LEMMA LastInIs ==
  ASSUME NEW S, NEW t \in Seq(S), NEW ch
  PROVE  \E h \in 0..Len(t) :
           /\ h = 0 \/ t[h] = ch
           /\ \A j \in (h + 1)..Len(t) : t[j] # ch
           /\ Text!LastIn(t, ch) = IF h = 0 THEN Len(t) ELSE h - 1
<1> DEFINE Q == {n \in DOMAIN t : t[n] = ch}
           D == {Len(t) - n : n \in Q}
<1>1. Len(t) \in Nat /\ DOMAIN t = 1..Len(t)
  OBVIOUS
<1>2. Q \in SUBSET Int /\ \A n \in Q : n \in 1..Len(t) /\ t[n] = ch
  BY <1>1
<1>3. Text!LastIn(t, ch) = IF Q = {} THEN Len(t) ELSE Max(Q) - 1
  BY Zenon DEF Text!LastIn, Text!Max, Max
<1>4. CASE Q = {}
  <2>1. \A j \in (0 + 1)..Len(t) : t[j] # ch
    BY <1>1, <1>4
  <2>2. 0 \in 0..Len(t)
    BY <1>1
  <2> HIDE DEF Q
  <2> QED
    BY <1>3, <1>4, <2>1, <2>2
<1>5. CASE Q # {}
  <2>1. D \in SUBSET Nat /\ D # {}
    BY <1>1, <1>2, <1>5
  <2>2. PICK m : m = Min(D)
    OBVIOUS
  <2>3. m \in D /\ \A x \in D : m <= x
    <3> HIDE DEF D
    <3> QED
      BY <2>1, <2>2, LeastOf
  <2>4. PICK h \in Q : m = Len(t) - h
    BY <2>3
  <2>5. h \in 1..Len(t) /\ t[h] = ch
    BY <1>2
  <2>6. \A x \in Q : h >= x
    <3> TAKE x \in Q
    <3>1. m <= Len(t) - x /\ x \in 1..Len(t)
      BY <1>2, <2>3
    <3> QED
      BY <1>1, <2>4, <2>5, <3>1
  <2>7. Max(Q) = h
    <3> HIDE DEF Q
    <3> QED
      BY <1>2, <2>6, MaxIs
  <2>8. \A j \in (h + 1)..Len(t) : t[j] # ch
    <3> SUFFICES ASSUME NEW j \in (h + 1)..Len(t), t[j] = ch PROVE FALSE
      OBVIOUS
    <3>1. j \in 1..Len(t) /\ ~(h >= j)
      BY <1>1, <2>5
    <3>2. j \in Q
      BY <1>1, <3>1
    <3> QED
      BY <2>6, <3>1, <3>2
  <2>9. h \in 0..Len(t) /\ h # 0
    BY <2>5
  <2> HIDE DEF Q
  <2> QED
    BY <1>3, <1>5, <2>5, <2>7, <2>8, <2>9
<1> QED
  BY <1>4, <1>5

LEMMA StrchrStep ==
  ASSUME NEW t \in Seq(Chr), NEW k \in 0..Len(t), NEW a \in 0..k, Holding(t, k, a), Strchr
  PROVE  IInv' /\ Text!Next
<1>1. mem = Stored(t) /\ i = Bound(t, k) /\ Length = Bound(t, Len(t)) /\ TextNow = t
  BY Standing
<1>2. PICK ch \in Sought : LET r == u8_strchr(mem, ch) IN
        Calls("strchr", ch, IF r.at = NULL THEN Length ELSE r.at, r.charn)
  BY DEF Strchr
<1>3. PICK h : h = Text!FirstIn(t, ch)
  OBVIOUS
<1>4. /\ h \in 0..Len(t) /\ \A j \in 1..h : t[j] # ch
      /\ h = Len(t) \/ t[h + 1] = ch
  BY <1>3, FirstInIs
<1>5. PICK r : r = u8_strchr(mem, ch)
  OBVIOUS
<1>6. r = IF h = Len(t) THEN Found(NULL, h) ELSE Found(Bound(t, h), h)
  BY <1>1, <1>4, <1>5, StrchrIs
<1>7. Bound(t, h) \in Nat
  BY <1>4, Parted
<1>8. (IF r.at = NULL THEN Length ELSE r.at) = Bound(t, h) /\ r.charn = h
  BY <1>1, <1>6, <1>7 DEF Found, NULL
<1>9. Calls("strchr", ch, Bound(t, h), h)
  BY <1>2, <1>5, <1>8
<1>10. IInv' /\ Text!Does("strchr", h, h) /\ call'.num = ch
  BY <1>4, <1>9, Called
<1>11. Text!Does("strchr", Text!FirstIn(TextNow, call'.num), Text!FirstIn(TextNow, call'.num))
  BY <1>1, <1>3, <1>10
<1>12. Text!Find
  BY <1>11 DEF Text!Find, TextNow
<1> QED
  BY <1>10, <1>12 DEF Text!Next

LEMMA MemchrStep ==
  ASSUME NEW t \in Seq(Chr), NEW k \in 0..Len(t), NEW a \in 0..k, Holding(t, k, a), Memchr
  PROVE  IInv' /\ Text!Next
<1>1. mem = Stored(t) /\ i = Bound(t, k) /\ TextNow = t /\ IndexNow = k
  BY Standing
<1>2. PICK ch \in Sought : LET r == u8_memchr(mem, ch, i) IN
        Calls("memchr", ch, IF r.at = NULL THEN i ELSE r.at, r.charn)
  BY DEF Memchr
<1>3. PICK b, h : b = SubSeq(t, 1, k) /\ h = Text!FirstIn(b, ch)
  OBVIOUS
<1>4. b \in Seq(Chr) /\ Len(b) = k /\ \A j \in 1..k : b[j] = t[j]
  BY <1>3, Parted
<1>5. h \in 0..k /\ (\A j \in 1..h : b[j] # ch) /\ (h = k \/ b[h + 1] = ch)
  BY <1>3, <1>4, FirstInIs
<1>6. h \in 0..Len(t) /\ (\A j \in 1..h : t[j] # ch) /\ (h = k \/ t[h + 1] = ch)
  <2>1. \A j \in 1..h : j \in 1..k
    BY <1>5
  <2>2. h # k => h + 1 \in 1..k
    BY <1>5
  <2> QED
    BY <1>4, <1>5, <2>1, <2>2
<1>7. PICK r : r = u8_memchr(mem, ch, i)
  OBVIOUS
<1>8. r = IF h = k THEN Found(NULL, h) ELSE Found(Bound(t, h), h)
  BY <1>1, <1>5, <1>6, <1>7, MemchrIs
<1>9. Bound(t, h) \in Nat
  BY <1>6, Parted
<1>10. (IF r.at = NULL THEN i ELSE r.at) = Bound(t, h) /\ r.charn = h
  BY <1>1, <1>8, <1>9 DEF Found, NULL
<1>11. Calls("memchr", ch, Bound(t, h), h)
  BY <1>2, <1>7, <1>10
<1>12. IInv' /\ Text!Does("memchr", h, h) /\ call'.num = ch
  BY <1>6, <1>11, Called
<1>13. Text!Does("memchr", Text!FirstIn(SubSeq(TextNow, 1, IndexNow), call'.num),
                 Text!FirstIn(SubSeq(TextNow, 1, IndexNow), call'.num))
  BY <1>1, <1>3, <1>12
<1>14. Text!Find
  BY <1>13 DEF Text!Find, Text!Before, TextNow, IndexNow
<1> QED
  BY <1>12, <1>14 DEF Text!Next

LEMMA MemrchrStep ==
  ASSUME NEW t \in Seq(Chr), NEW k \in 0..Len(t), NEW a \in 0..k, Holding(t, k, a), Memrchr
  PROVE  IInv' /\ Text!Next
<1>1. mem = Stored(t) /\ i = Bound(t, k) /\ TextNow = t /\ IndexNow = k
  BY Standing
<1>2. PICK ch \in Sought : LET at == u8_memrchr(mem, ch, i) IN
        Calls("memrchr", ch, IF at = NULL THEN i ELSE at, 0)
  BY DEF Memrchr
<1>3. PICK b : b = SubSeq(t, 1, k)
  OBVIOUS
<1>4. b \in Seq(Chr) /\ Len(b) = k /\ \A j \in 1..k : b[j] = t[j]
  BY <1>3, Parted
<1>5. PICK h \in 0..k : /\ h = 0 \/ b[h] = ch
                        /\ \A j \in (h + 1)..k : b[j] # ch
                        /\ Text!LastIn(b, ch) = IF h = 0 THEN k ELSE h - 1
  BY <1>4, LastInIs
<1>6. (h = 0 \/ t[h] = ch) /\ \A j \in (h + 1)..k : t[j] # ch
  <2>1. \A j \in (h + 1)..k : j \in 1..k
    OBVIOUS
  <2>2. h # 0 => h \in 1..k
    OBVIOUS
  <2> QED
    BY <1>4, <1>5, <2>1, <2>2
<1>7. u8_memrchr(mem, ch, i) = IF h = 0 THEN NULL ELSE Bound(t, h - 1)
  BY <1>1, <1>5, <1>6, MemrchrIs
<1>8. PICK n : n = IF h = 0 THEN k ELSE h - 1
  OBVIOUS
<1>9. n \in 0..Len(t) /\ (h # 0 => n = h - 1) /\ (h = 0 => n = k)
  BY <1>8
<1>10. Bound(t, n) \in Nat
  BY <1>9, Parted
<1>11. Calls("memrchr", ch, Bound(t, n), 0)
  BY <1>1, <1>2, <1>7, <1>9, <1>10 DEF NULL
<1>12. IInv' /\ Text!Does("memrchr", n, 0) /\ call'.num = ch
  BY <1>9, <1>11, Called
<1>13. Text!Does("memrchr", Text!LastIn(SubSeq(TextNow, 1, IndexNow), call'.num), 0)
  BY <1>1, <1>3, <1>5, <1>8, <1>12
<1>14. Text!Find
  BY <1>13 DEF Text!Find, Text!Before, TextNow, IndexNow
<1> QED
  BY <1>12, <1>14 DEF Text!Next

-------------------------------------------------------------------------------
(* Whole strings, and escaping.                                            *)

\* To wide characters and back.
LEMMA RewriteStep ==
  ASSUME NEW t \in Seq(Chr), NEW k \in 0..Len(t), NEW a \in 0..k, Holding(t, k, a), Rewrite
  PROVE  IInv' /\ Text!Next
<1>1. mem = Stored(t) /\ Length = Bound(t, Len(t)) /\ TextNow = t /\ Len(t) \in Nat
  BY Standing
<1>2. Bound(t, Len(t)) \in Nat /\ Len(t) <= Bound(t, Len(t))
  <2>1. 0 \in 0..Len(t) /\ Len(t) \in 0..Len(t) /\ 0 <= Len(t)
    BY <1>1
  <2>2. Bound(t, 0) + (Len(t) - 0) <= Bound(t, Len(t)) /\ Bound(t, 0) = 0
    BY <2>1, Rising, Bounds
  <2>3. Bound(t, Len(t)) \in Nat
    BY <2>1, Parted
  <2> QED
    BY <1>1, <2>2, <2>3
<1>3. u8_toucs(Length + 1, mem, Length) = t
  <2>1. PICK sz : sz = Length + 1
    OBVIOUS
  <2>2. sz \in Nat /\ ~(sz < Len(t)) /\ Len(t) \in 0..Len(t)
    BY <1>1, <1>2, <2>1
  <2>3. u8_toucs(sz, Stored(t), Bound(t, Len(t))) = SubSeq(t, 1, IF sz < Len(t) THEN sz ELSE Len(t))
    BY <2>2, ToucsIs
  <2>4. SubSeq(t, 1, Len(t)) = t
    BY WholeIs
  <2> QED
    BY <1>1, <2>1, <2>2, <2>3, <2>4
<1>4. /\ mem' = u8_toutf8(u8_codingsize(t), t) \o <<0>>
      /\ i' = 0 /\ esc' = <<>> /\ back' = <<>>
      /\ call' = [op |-> "toutf8", num |-> 0, ret |-> t, bytes |-> <<>>]
  BY <1>3, Zenon DEF Rewrite
<1>5. mem' = Stored(t) /\ i' = Bound(t, 0) /\ 0 \in 0..Len(t)
  <2>1. u8_toutf8(u8_codingsize(t), t) = Encoded(t) /\ Bound(t, 0) = 0
    BY Toutf8Is, Bounds
  <2>2. 0 \in 0..Len(t)
    BY <1>1
  <2> QED
    BY <1>4, <2>1, <2>2, Zenon DEF Stored
<1>6. Holding(t, 0, 0)' /\ SubSeq(t, 0 + 1, 0) = <<>> /\ 0 \in 0..0
  BY <1>4, <1>5, HeldNext
<1>7. TextNow' = t /\ IndexNow' = 0 /\ SaidNow' = <<>>
  BY <1>5, <1>6, MappedNext
<1>8. EscapeFits'
  BY <1>4 DEF EscapeFits
<1>9. IInv'
  BY <1>5, <1>6, <1>8 DEF IInv
<1>10. Text!Rewrite
  BY <1>1, <1>4, <1>5, <1>7 DEF Text!Rewrite, Text!Does, TextNow, IndexNow, SaidNow
<1> QED
  BY <1>9, <1>10 DEF Text!Next

\* Characters of any length are turned, not their bytes.
LEMMA ReverseStep ==
  ASSUME NEW t \in Seq(Chr), NEW k \in 0..Len(t), NEW a \in 0..k, Holding(t, k, a), Turn
  PROVE  IInv' /\ Text!Next
<1>1. mem = Stored(t) /\ Length = Bound(t, Len(t)) /\ TextNow = t
  BY Standing
<1>2. PICK r : r = Reverse(t)
  OBVIOUS
<1>3. r \in Seq(Chr) /\ u8_reverse(mem, Length) = Encoded(r)
  BY <1>1, <1>2, ReverseIs
<1>4. /\ mem' = Encoded(r) \o <<0>> /\ i' = 0 /\ esc' = <<>> /\ back' = <<>>
      /\ call' = [op |-> "reverse", num |-> 0, ret |-> 0, bytes |-> <<>>]
  BY <1>3, Zenon DEF Turn
<1>5. mem' = Stored(r) /\ i' = Bound(r, 0) /\ 0 \in 0..Len(r)
  <2>1. Len(r) \in Nat
    BY <1>3
  <2> QED
    BY <1>3, <1>4, <2>1, Bounds DEF Stored
<1>6. Holding(r, 0, 0)' /\ SubSeq(r, 0 + 1, 0) = <<>> /\ 0 \in 0..0
  BY <1>3, <1>4, <1>5, HeldNext
<1>7. TextNow' = r /\ IndexNow' = 0 /\ SaidNow' = <<>>
  BY <1>3, <1>5, <1>6, MappedNext
<1>8. EscapeFits'
  BY <1>4 DEF EscapeFits
<1>9. IInv'
  BY <1>3, <1>5, <1>6, <1>8 DEF IInv
<1>10. TextNow' = Text!Reverse(TextNow)
  BY <1>1, <1>2, <1>7 DEF Text!Reverse, Reverse
<1>11. Text!Turn
  BY <1>4, <1>7, <1>10 DEF Text!Turn, TextNow, IndexNow, SaidNow
<1> QED
  BY <1>9, <1>11 DEF Text!Next

\* Two pieces of a text that meet.
LEMMA Meet ==
  ASSUME NEW S, NEW t \in Seq(S), NEW a \in Nat, NEW k \in Nat, NEW n \in Nat,
         a <= k, k <= n, n <= Len(t)
  PROVE  SubSeq(t, a + 1, k) \o SubSeq(t, k + 1, n) = SubSeq(t, a + 1, n)
<1>1. PICK x, y, z : x = SubSeq(t, a + 1, k) /\ y = SubSeq(t, k + 1, n) /\ z = SubSeq(t, a + 1, n)
  OBVIOUS
<1>2. x \in Seq(S) /\ Len(x) = k - a /\ \A j \in 1..(k - a) : x[j] = t[a + j]
  <2>1. a \in 0..Len(t) /\ k \in a..Len(t)
    OBVIOUS
  <2> QED
    BY <1>1, <2>1, Piece
<1>3. y \in Seq(S) /\ Len(y) = n - k /\ \A j \in 1..(n - k) : y[j] = t[k + j]
  <2>1. k \in 0..Len(t) /\ n \in k..Len(t)
    OBVIOUS
  <2> QED
    BY <1>1, <2>1, Piece
<1>4. z \in Seq(S) /\ Len(z) = n - a /\ \A j \in 1..(n - a) : z[j] = t[a + j]
  <2>1. a \in 0..Len(t) /\ n \in a..Len(t)
    OBVIOUS
  <2> QED
    BY <1>1, <2>1, Piece
<1>5. /\ x \o y \in Seq(S) /\ Len(x \o y) = n - a
      /\ \A j \in 1..(n - a) : (x \o y)[j] = IF j <= k - a THEN x[j] ELSE y[j - (k - a)]
  BY ONLY <1>2, <1>3, a \in Nat, k \in Nat, n \in Nat, a <= k, k <= n
<1>6. \A j \in 1..(n - a) : (x \o y)[j] = z[j]
  <2> TAKE j \in 1..(n - a)
  <2>1. CASE j <= k - a
    <3>1. j \in 1..(k - a)
      BY <2>1
    <3> QED
      BY <1>2, <1>4, <1>5, <2>1, <3>1
  <2>2. CASE ~(j <= k - a)
    <3>1. PICK d : d = j - (k - a)
      OBVIOUS
    <3>2. d \in 1..(n - k) /\ k + d = a + j
      BY <2>2, <3>1
    <3> QED
      BY <1>3, <1>4, <1>5, <2>2, <3>1, <3>2
  <2> QED
    BY <2>1, <2>2
<1>7. x \o y = z
  BY ONLY <1>4, <1>5, <1>6, SameSequence
<1> QED
  BY <1>1, <1>7

\* One buffer of u8_escape is some characters, at least one, and all that was
\* escaped so far is unescaped.
LEMMA EscapeStep ==
  ASSUME NEW t \in Seq(Chr), NEW k \in 0..Len(t), NEW a \in 0..k, Holding(t, k, a), Escape
  PROVE  IInv' /\ Text!Next
<1>1. /\ mem = Stored(t) /\ i = Bound(t, k) /\ Length = Bound(t, Len(t)) /\ Len(t) \in Nat
      /\ TextNow = t /\ IndexNow = k
  BY Standing
<1>2. PICK sz \in Sizes, quotes \in BOOLEAN, ascii \in BOOLEAN :
        LET r == u8_escape(sz, mem, i, Length, quotes, ascii, Printable)
            all == esc \o SubSeq(r.put, 1, Len(r.put) - 1)
        IN
        /\ i < Length
        /\ i' = r.i
        /\ esc' = all /\ back' = u8_unescape(Len(all) + 1, all \o <<0>>)
        /\ call' = [op |-> "escape", num |-> sz, ret |-> Len(r.put), bytes |-> r.put]
        /\ UNCHANGED mem
  BY Zenon DEF Escape
<1>3. PICK r, all : /\ r = u8_escape(sz, mem, i, Length, quotes, ascii, Printable)
                    /\ all = esc \o SubSeq(r.put, 1, Len(r.put) - 1)
  OBVIOUS
<1>4. /\ i < Length /\ i' = r.i /\ esc' = all /\ back' = u8_unescape(Len(all) + 1, all \o <<0>>)
      /\ call' = [op |-> "escape", num |-> sz, ret |-> Len(r.put), bytes |-> r.put]
      /\ mem' = mem
  BY <1>2, <1>3, Zenon
<1>5. k + 1 \in 1..Len(t) /\ k \in 0..(Len(t) - 1)
  <2>1. k + 1 \in 1..Len(t)
    BY <1>4, Standing
  <2> QED
    BY <2>1
<1>6. sz \in Nat /\ sz > Reserve /\ \A c \in Printable : c \in Int /\ 32 <= c /\ c <= 126
  BY Utf8Assumption
<1>7. /\ Len(r.put) \in 2..sz /\ Last(r.put) = 0
      /\ \E n \in (k + 1)..Len(t), y \in Seq(Ascii) : Tells(t, k, n, y, r)
  <2>1. r = u8_escape(sz, Stored(t), Bound(t, k), Bound(t, Len(t)), quotes, ascii, Printable)
    BY <1>1, <1>3
  <2>2. t \in Seq(Chr) /\ quotes \in BOOLEAN /\ ascii \in BOOLEAN
    OBVIOUS
  <2> QED
    BY ONLY <1>5, <1>6, <2>1, <2>2, EscapeTells
<1>8. PICK n \in (k + 1)..Len(t), y \in Seq(Ascii) : Tells(t, k, n, y, r)
  BY <1>7
<1>9. PICK u, v, w : u = SubSeq(t, a + 1, k) /\ v = SubSeq(t, k + 1, n) /\ w = SubSeq(t, a + 1, n)
  OBVIOUS
<1>10. r.i = Bound(t, n) /\ r.put = y \o <<0>> /\ \A x, z : Told(x, z) => Told(x \o y, z \o v)
  BY <1>8, <1>9 DEF Tells
<1>11. SubSeq(r.put, 1, Len(r.put) - 1) = y
  BY <1>10
<1>12. all = esc \o y
  BY <1>3, <1>11
<1>13. Told(esc, u)
  BY <1>9 DEF Holding
<1>14. u \o v = w
  <2>1. a \in Nat /\ k \in Nat /\ n \in Nat /\ a <= k /\ k <= n /\ n <= Len(t)
    BY <1>1
  <2> QED
    BY <1>9, <2>1, Meet
<1>15. Told(all, w)
  BY <1>10, <1>12, <1>13, <1>14
<1>16. back' = Encoded(w)
  BY <1>4, <1>15, UnescapeTells
<1>17. n \in 0..Len(t) /\ a \in 0..n
  BY <1>1
<1>18. Holding(t, n, a)'
  BY <1>1, <1>4, <1>9, <1>10, <1>15, <1>16 DEF Holding
<1>19. EscapeFits'
  <2>1. Len(r.put) <= sz /\ Len(r.put) > 1
    BY <1>6, <1>7
  <2> QED
    BY <1>4, <1>7, <2>1 DEF EscapeFits
<1>20. IInv'
  BY <1>17, <1>18, <1>19 DEF IInv
<1>21. TextNow' = t /\ IndexNow' = n /\ SaidNow' = w
  BY <1>9, <1>17, <1>18, MappedNext
<1>22. SaidNow = u
  BY <1>9, MappedTo
<1>23. /\ SaidNow' = SaidNow \o SubSeq(TextNow, IndexNow + 1, n)
       /\ n \in (IndexNow + 1)..Len(TextNow) /\ TextNow' = TextNow
  BY <1>1, <1>9, <1>14, <1>21, <1>22
<1>24. Text!Escape
  BY <1>4, <1>21, <1>23 DEF Text!Escape, TextNow, IndexNow, SaidNow
<1> QED
  BY <1>20, <1>24 DEF Text!Next

-------------------------------------------------------------------------------
(* The client.                                                             *)

\* A client starts with a text, and every call leaves it with one.
LEMMA Opened ==
  ASSUME Init
  PROVE  IInv /\ Text!Init
<1>1. PICK t \in Texts : mem = Encoded(t) \o <<0>>
  BY DEF Init
<1>2. i = 0 /\ esc = <<>> /\ back = <<>> /\ call = [op |-> "open", num |-> 0, ret |-> 0, bytes |-> <<>>]
  BY DEF Init
<1>3. t \in Seq(Chr)
  BY Utf8Assumption
<1>4. SubSeq(t, 0 + 1, 0) = <<>> /\ Bound(t, 0) = 0 /\ 0 \in 0..Len(t) /\ 0 \in 0..0
  BY <1>3, Bounds
<1>5. Holding(t, 0, 0)
  BY <1>1, <1>2, <1>4, ToldNothing, EncodedNil DEF Holding, Stored
<1>6. EscapeFits
  BY <1>2 DEF EscapeFits
<1>7. IInv
  BY <1>3, <1>4, <1>5, <1>6 DEF IInv
<1>8. IndexNow = 0 /\ SaidNow = <<>>
  BY <1>3, <1>4, <1>5, MappedTo
<1>9. Text!Init
  BY <1>2, <1>8 DEF Text!Init, IndexNow, SaidNow
<1> QED
  BY <1>7, <1>9

LEMMA Stepped ==
  ASSUME IInv, [Next]_vars
  PROVE  IInv' /\ (Text!Next \/ UNCHANGED Text!vars)
<1>1. PICK t \in Seq(Chr) : \E k \in 0..Len(t) : \E a \in 0..k : Holding(t, k, a)
  BY DEF IInv
<1>2. PICK k \in 0..Len(t) : \E a \in 0..k : Holding(t, k, a)
  BY <1>1
<1>3. PICK a \in 0..k : Holding(t, k, a)
  BY <1>2
<1>4. CASE Inc
  BY <1>3, <1>4, IncStep
<1>5. CASE Dec
  BY <1>3, <1>5, DecStep
<1>6. CASE Offset
  BY <1>3, <1>6, OffsetStep
<1>7. CASE Nextchar \/ Nextmemchar
  BY <1>3, <1>7, NextmemcharStep
<1>8. CASE Charnum
  BY <1>3, <1>8, CharnumStep
<1>9. CASE Strlen
  BY <1>3, <1>9, StrlenStep
<1>10. CASE Toucs
  BY <1>3, <1>10, ToucsStep
<1>11. CASE Strchr
  BY <1>3, <1>11, StrchrStep
<1>12. CASE Memchr
  BY <1>3, <1>12, MemchrStep
<1>13. CASE Memrchr
  BY <1>3, <1>13, MemrchrStep
<1>14. CASE Rewrite
  BY <1>3, <1>14, RewriteStep
<1>15. CASE Turn
  BY <1>3, <1>15, ReverseStep
<1>16. CASE Escape
  BY <1>3, <1>16, EscapeStep
<1>17. CASE Isvalid
  BY <1>3, <1>17, IsvalidStep
<1>18. CASE UNCHANGED vars
  <2>1. mem' = mem /\ i' = i /\ esc' = esc /\ back' = back /\ call' = call
    BY <1>18 DEF vars
  <2>2. IInv'
    <3>1. Holding(t, k, a)'
      BY <1>3, <2>1 DEF Holding
    <3>2. EscapeFits'
      BY <2>1 DEF IInv, EscapeFits
    <3> QED
      BY <3>1, <3>2 DEF IInv
  <2>3. UNCHANGED Text!vars
    BY <2>1 DEF Text!vars, Length
  <2> QED
    BY <2>2, <2>3
<1> QED
  BY <1>4, <1>5, <1>6, <1>7, <1>8, <1>9, <1>10, <1>11, <1>12, <1>13, <1>14, <1>15, <1>16, <1>17,
     <1>18 DEF Next

\* A text and its index are always there, so what follows from them always holds.
THEOREM AlwaysText == Spec => []IInv
<1>1. Init => IInv
  BY Opened
<1>2. IInv /\ [Next]_vars => IInv'
  BY Stepped
<1> QED
  BY <1>1, <1>2, PTL DEF Spec

\* TypeOK: no call of utf8.h loses the string's NUL, puts another one into it, or
\* leaves the index inside a character, whatever the text and its characters.
THEOREM TypeCorrect == Spec => []TypeOK
<1>1. IInv => TypeOK
  <2> SUFFICES ASSUME IInv PROVE TypeOK
    OBVIOUS
  <2>1. PICK t \in Seq(Chr) : \E k \in 0..Len(t) : \E a \in 0..k : Holding(t, k, a)
    BY DEF IInv
  <2>2. PICK k \in 0..Len(t) : \E a \in 0..k : Holding(t, k, a)
    BY <2>1
  <2>3. PICK a \in 0..k : Holding(t, k, a)
    BY <2>2
  <2>4. mem = Stored(t) /\ i = Bound(t, k) /\ Length = Bound(t, Len(t)) /\ Len(t) \in Nat
    BY <2>3, Standing
  <2>5. /\ mem \in Seq(Octet) /\ Len(mem) = Length + 1 /\ Length \in Nat /\ At(mem, Length) = 0
    BY <2>4, StoredBytes, Parted
  <2>6. ASSUME NEW p \in 1..Len(mem)
        PROVE  mem[p] \in 0..255 /\ (mem[p] = 0 <=> p = Len(mem))
    <3>1. mem[p] \in 0..255
      BY <2>5, ElementOfSeq DEF Octet
    <3>2. p = Len(mem) => mem[p] = 0
      BY <2>5 DEF At
    <3>3. p # Len(mem) => mem[p] # 0
      <4> SUFFICES ASSUME p # Len(mem), mem[p] = 0 PROVE FALSE
        OBVIOUS
      <4>1. PICK q : q = p - 1
        OBVIOUS
      <4>2. q \in 0..Bound(t, Len(t)) /\ q # Bound(t, Len(t)) /\ At(mem, q) = 0
        BY <2>4, <2>5, <4>1 DEF At
      <4>3. isutf(At(Stored(t), q))
        BY <2>4, <4>2 DEF isutf
      <4>4. PICK h \in 0..Len(t) : q = Bound(t, h)
        BY <4>2, <4>3, FirstsAre
      <4>5. h = Len(t)
        BY <2>4, <4>2, <4>4, FirstAt
      <4> QED
        BY <4>2, <4>4, <4>5
    <3> QED
      BY <3>1, <3>2, <3>3
  <2>7. i \in 0..Length /\ isutf(At(mem, i))
    BY <2>4, FirstAt
  <2>8. \A p \in 1..Len(esc) : esc[p] \in 1..127
    <3>1. esc \in Seq(Ascii)
      BY <2>3 DEF Holding, Told, Parts
    <3> QED
      BY <3>1, ElementOfSeq DEF Ascii
  <2>9. mem # <<>>
    BY <2>5
  <2> QED
    BY <2>6, <2>7, <2>8, <2>9 DEF TypeOK
<1> QED
  BY <1>1, AlwaysText, PTL

\* EscapeFits: u8_escape stays in its buffer, ends it with a NUL and gets on, in
\* every buffer that has the room it asks for, wherever the client calls it.
THEOREM EscapesFit == Spec => []EscapeFits
<1>1. IInv => EscapeFits
  BY DEF IInv
<1> QED
  BY <1>1, AlwaysText, PTL

\* TextSpec: for a client that counts characters, utf8.c is a sequence of them with
\* an index: it finds, counts, turns and converts characters of any length, and
\* what u8_escape writes, buffer by buffer, u8_unescape reads as the same text.
THEOREM BytesDoNotShow == Spec => TextSpec
<1>1. Init => Text!Init
  BY Opened
<1>2. IInv /\ [Next]_vars => [Text!Next]_(Text!vars)
  BY Stepped
<1> QED
  BY <1>1, <1>2, AlwaysText, PTL DEF Spec, TextSpec, Text!Spec


\* ValidMeansWellFormed: whatever byte gets into a string, u8_isvalid accepts it
\* when and only when it is made of shortest spellings of up to six bytes: the
\* table of lengths, the tests of second bytes and the count of what is left say
\* together what the definition says.
THEOREM ValidIsWellFormed == Spec => []ValidMeansWellFormed
<1>1. IInv => ValidMeansWellFormed
  <2> SUFFICES ASSUME IInv, NEW p \in 1..Length, NEW b \in Spoilers,
                      NEW s, s = [mem EXCEPT ![p] = b]
               PROVE  u8_isvalid(s, Length) = WellFormed(Front(s))
    BY Zenon DEF ValidMeansWellFormed
  <2>1. PICK t \in Seq(Chr) : \E k \in 0..Len(t) : \E a \in 0..k : Holding(t, k, a)
    BY DEF IInv
  <2>2. PICK k \in 0..Len(t) : \E a \in 0..k : Holding(t, k, a)
    BY <2>1
  <2>3. PICK a \in 0..k : Holding(t, k, a)
    BY <2>2
  <2>4. mem = Stored(t) /\ Length = Len(Encoded(t))
    BY <2>3, Standing, Bounds
  <2>5. b \in 0..255
    BY Utf8Assumption
  <2> QED
    BY <2>4, <2>5, SpoiledIs
<1> QED
  BY <1>1, AlwaysText, PTL
===============================================================================
