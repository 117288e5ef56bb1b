----------------------------- MODULE Utf8_proofs -----------------------------
(***************************************************************************)
(* The codec of utf8.c for every character, not only those TLC tries: what *)
(* u8_wc_toutf8 writes, anywhere in memory, is what the others measure,    *)
(* pass over in both directions, read back and find valid.                 *)
(***************************************************************************)
EXTENDS Utf8, SequenceTheorems, WellFoundedInduction, TLAPS

(***************************************************************************)
(* Shifts.                                                                 *)
(***************************************************************************)

\* A byte behind the first is one that isutf rejects, and keeps six bits.
LEMMA BehindKeeps ==
  ASSUME NEW v \in Nat
  PROVE  /\ v \div 64 \in Nat
         /\ Behind(v) \in 128..191 /\ ~isutf(Behind(v))
         /\ v = (v \div 64) * 64 + Behind(v) - 128
<1>1. v % 64 \in 0..63 /\ v \div 64 \in Nat /\ v = (v \div 64) * 64 + (v % 64)
  BY SMT
<1> QED
  BY <1>1, SMT DEF Behind, isutf

\* Bits can be shifted out six at a time.
LEMMA Shifts ==
  ASSUME NEW v \in Nat
  PROVE  /\ v \div 4096 = (v \div 64) \div 64
         /\ v \div 262144 = (v \div 4096) \div 64
  BY SMT

(***************************************************************************)
(* What u8_wc_toutf8 writes, by length.                                    *)
(***************************************************************************)

\* An ASCII character is its own byte.
LEMMA One ==
  ASSUME NEW ch \in Nat, ch < 128
  PROVE  u8_charlen(ch) = 1 /\ u8_wc_toutf8(ch) = <<ch>>
  BY SMT DEF u8_wc_toutf8, u8_charlen

\* The first byte of two announces two, and more than one could spell.
LEMMA Two ==
  ASSUME NEW ch \in Nat, 128 <= ch, ch < 2048
  PROVE  /\ u8_charlen(ch) = 2
         /\ u8_wc_toutf8(ch) = <<192 + (ch \div 64), Behind(ch)>>
         /\ ch \div 64 \in 2..31
<1>1. ch \div 64 \in 2..31
  BY SMT
<1>2. u8_charlen(ch) = 2
  BY SMT DEF u8_charlen
<1>3. u8_wc_toutf8(ch) = <<192 + (ch \div 64), Behind(ch)>>
  BY SMT DEF u8_wc_toutf8
<1> QED
  BY <1>1, <1>2, <1>3, SMT

\* The first byte of three announces three; the second shows that two would not do.
LEMMA Three ==
  ASSUME NEW ch \in Nat, 2048 <= ch, ch < 65536
  PROVE  /\ u8_charlen(ch) = 3
         /\ u8_wc_toutf8(ch) = <<224 + (ch \div 4096), Behind(ch \div 64), Behind(ch)>>
         /\ ch \div 4096 \in 0..15
         /\ ch \div 4096 = 0 => Behind(ch \div 64) >= 160
<1>1. ch \div 4096 \in 0..15
  BY SMT
<1>2. u8_charlen(ch) = 3
  BY SMT DEF u8_charlen
<1>3. u8_wc_toutf8(ch) = <<224 + (ch \div 4096), Behind(ch \div 64), Behind(ch)>>
  BY SMT DEF u8_wc_toutf8
<1>4. ch \div 64 \in Nat /\ ch \div 64 >= 32
  BY SMT
<1>5. ch \div 4096 = 0 => Behind(ch \div 64) >= 160
  BY <1>4, Shifts, BehindKeeps, SMT
<1> QED
  BY <1>1, <1>2, <1>3, <1>5, SMT

\* The first byte of four announces four; the second shows that three would not do.
LEMMA Four ==
  ASSUME NEW ch \in Nat, 65536 <= ch, ch < 1114112
  PROVE  /\ u8_charlen(ch) = 4
         /\ u8_wc_toutf8(ch) =
              <<240 + (ch \div 262144), Behind(ch \div 4096), Behind(ch \div 64), Behind(ch)>>
         /\ ch \div 262144 \in 0..4
         /\ ch \div 262144 = 0 => Behind(ch \div 4096) >= 144
<1>1. ch \div 262144 \in 0..4
  BY SMT
<1>2. u8_charlen(ch) = 4
  BY SMT DEF u8_charlen
<1>3. u8_wc_toutf8(ch) =
        <<240 + (ch \div 262144), Behind(ch \div 4096), Behind(ch \div 64), Behind(ch)>>
  BY SMT DEF u8_wc_toutf8
<1>4. ch \div 4096 \in Nat /\ ch \div 4096 >= 16
  BY SMT
<1>5. ch \div 262144 = 0 => Behind(ch \div 4096) >= 144
  BY <1>4, Shifts, BehindKeeps, SMT
<1> QED
  BY <1>1, <1>2, <1>3, <1>5, SMT

(***************************************************************************)
(* Writing and reading.                                                    *)
(***************************************************************************)

\* A character that UTF-8 can spell in four bytes.
Encodable(ch) == ch \in Nat /\ ch < 1114112

\* s holds the bytes of ch from position p on, and then the start of a character
\* or a NUL.
Holds(s, p, ch) ==
  LET bs == u8_wc_toutf8(ch) IN
  /\ \A k \in 0..(Len(bs) - 1) : At(s, p + k) = bs[k + 1]
  /\ p + Len(bs) < Len(s) /\ isutf(At(s, p + Len(bs)))

\* What is subtracted takes off the bits that tell lengths.
LEMMA Subtracted ==
  ASSUME NEW s, NEW p, At(s, p) \in Nat
  PROVE  /\ Decoded(s, p, 0) = At(s, p)
         /\ At(s, p + 1) \in Nat
              => Decoded(s, p, 1) = (At(s, p) - 192) * 64 + At(s, p + 1) - 128
         /\ At(s, p + 1) \in Nat /\ At(s, p + 2) \in Nat
              => Decoded(s, p, 2) =
                   ((At(s, p) - 224) * 64 + At(s, p + 1) - 128) * 64 + At(s, p + 2) - 128
         /\ At(s, p + 1) \in Nat /\ At(s, p + 2) \in Nat /\ At(s, p + 3) \in Nat
              => Decoded(s, p, 3) =
                   (((At(s, p) - 240) * 64 + At(s, p + 1) - 128) * 64 + At(s, p + 2) - 128) * 64
                     + At(s, p + 3) - 128
<1>1. /\ Joined(s, p, 0) = At(s, p)
      /\ Joined(s, p, 1) = At(s, p) * 64 + At(s, p + 1)
      /\ Joined(s, p, 2) = (At(s, p) * 64 + At(s, p + 1)) * 64 + At(s, p + 2)
      /\ Joined(s, p, 3) =
           ((At(s, p) * 64 + At(s, p + 1)) * 64 + At(s, p + 2)) * 64 + At(s, p + 3)
  BY SMT DEF Joined
<1>2. /\ offsetsFromUTF8[0 + 1] = 0 /\ offsetsFromUTF8[1 + 1] = 12416
      /\ offsetsFromUTF8[2 + 1] = 925824 /\ offsetsFromUTF8[3 + 1] = 63447168
  BY SMT DEF offsetsFromUTF8
<1> QED
  BY <1>1, <1>2, SMT DEF Decoded

\* What Holds says of each byte.
LEMMA HeldBytes ==
  ASSUME NEW s, NEW p \in Nat, NEW ch, Encodable(ch), Holds(s, p, ch)
  PROVE  /\ u8_charlen(ch) \in 1..4
         /\ Len(u8_wc_toutf8(ch)) = u8_charlen(ch)
         /\ isutf(At(s, p)) /\ u8_seqlen(At(s, p)) = u8_charlen(ch)
         /\ \A k \in 1..(u8_charlen(ch) - 1) : ~isutf(At(s, p + k))
         /\ isutf(At(s, p + u8_charlen(ch))) /\ p + u8_charlen(ch) < Len(s)
         /\ Decoded(s, p, u8_charlen(ch) - 1) = ch
         /\ u8_charlen(ch) > 1 => ~Overlong(At(s, p), At(s, p + 1))
<1>0. ch \in Nat /\ ch < 1114112
  BY SMT DEF Encodable
<1>1. CASE ch < 128
  <2>1. u8_charlen(ch) = 1 /\ u8_wc_toutf8(ch) = <<ch>> /\ Len(u8_wc_toutf8(ch)) = 1
    BY <1>0, <1>1, One, SMT
  <2>2. At(s, p) = ch /\ isutf(At(s, p + 1)) /\ p + 1 < Len(s)
    BY <2>1, SMT DEF Holds, At
  <2>3. Decoded(s, p, 0) = ch
    <3>1. At(s, p) \in Nat
      BY <1>0, <2>2, SMT
    <3> QED
      BY <2>2, <3>1, Subtracted, SMT
  <2>4. isutf(ch) /\ u8_seqlen(ch) = 1
    BY <1>0, <1>1, SMT DEF isutf, u8_seqlen, trailingBytesForUTF8
  <2> QED
    BY <2>1, <2>2, <2>3, <2>4, SMT
<1>2. CASE 128 <= ch /\ ch < 2048
  <2> DEFINE b == 192 + (ch \div 64)
             c == Behind(ch)
  <2>1. u8_charlen(ch) = 2 /\ u8_wc_toutf8(ch) = <<b, c>> /\ Len(u8_wc_toutf8(ch)) = 2
    BY <1>0, <1>2, Two, SMT
  <2>2. b \in 194..223 /\ c \in 128..191 /\ ~isutf(c) /\ ch = (b - 192) * 64 + c - 128
    BY <1>0, <1>2, Two, BehindKeeps, SMT
  <2>3. /\ At(s, p) = b /\ At(s, p + 1) = c
        /\ isutf(At(s, p + 2)) /\ p + 2 < Len(s)
    <3>1. \A k \in 0..1 : At(s, p + k) = <<b, c>>[k + 1]
      BY <2>1, SMT DEF Holds
    <3> QED
      BY <2>1, <3>1, SMT DEF Holds
  <2> HIDE DEF b, c
  <2>4. Decoded(s, p, 1) = ch
    BY <2>2, <2>3, Subtracted, SMT
  <2>5. isutf(b) /\ u8_seqlen(b) = 2 /\ ~Overlong(b, c)
    BY <2>2, SMT DEF isutf, u8_seqlen, trailingBytesForUTF8, Overlong
  <2> QED
    BY <2>1, <2>2, <2>3, <2>4, <2>5, SMT
<1>3. CASE 2048 <= ch /\ ch < 65536
  <2> DEFINE b == 224 + (ch \div 4096)
             c == Behind(ch \div 64)
             d == Behind(ch)
  <2>1. /\ u8_charlen(ch) = 3 /\ u8_wc_toutf8(ch) = <<b, c, d>>
        /\ Len(u8_wc_toutf8(ch)) = 3
    BY <1>0, <1>3, Three, SMT
  <2>2. /\ b \in 224..239 /\ c \in 128..191 /\ d \in 128..191
        /\ ~isutf(c) /\ ~isutf(d) /\ (b = 224 => c >= 160)
        /\ ch = ((b - 224) * 64 + c - 128) * 64 + d - 128
    BY <1>0, <1>3, Three, BehindKeeps, Shifts, SMT
  <2>3. /\ At(s, p) = b /\ At(s, p + 1) = c /\ At(s, p + 2) = d
        /\ isutf(At(s, p + 3)) /\ p + 3 < Len(s)
    <3>1. \A k \in 0..2 : At(s, p + k) = <<b, c, d>>[k + 1]
      BY <2>1, SMT DEF Holds
    <3> QED
      BY <2>1, <3>1, SMT DEF Holds
  <2> HIDE DEF b, c, d
  <2>4. Decoded(s, p, 2) = ch
    <3>1. /\ At(s, p) \in Nat /\ At(s, p + 1) \in Nat /\ At(s, p + 2) \in Nat
      BY <2>2, <2>3, SMT
    <3>2. Decoded(s, p, 2) =
            ((At(s, p) - 224) * 64 + At(s, p + 1) - 128) * 64 + At(s, p + 2) - 128
      BY <3>1, Subtracted, SMT
    <3> QED
      BY <2>2, <2>3, <3>2, SMT
  <2>5. isutf(b) /\ u8_seqlen(b) = 3 /\ ~Overlong(b, c)
    BY <2>2, SMT DEF isutf, u8_seqlen, trailingBytesForUTF8, Overlong
  <2> QED
    BY <2>1, <2>2, <2>3, <2>4, <2>5, SMT
<1>4. CASE 65536 <= ch
  <2> DEFINE b == 240 + (ch \div 262144)
             c == Behind(ch \div 4096)
             d == Behind(ch \div 64)
             e == Behind(ch)
  <2>1. /\ u8_charlen(ch) = 4 /\ u8_wc_toutf8(ch) = <<b, c, d, e>>
        /\ Len(u8_wc_toutf8(ch)) = 4
    BY <1>0, <1>4, Four, SMT
  <2>2. /\ b \in 240..244 /\ c \in 128..191 /\ d \in 128..191 /\ e \in 128..191
        /\ ~isutf(c) /\ ~isutf(d) /\ ~isutf(e) /\ (b = 240 => c >= 144)
        /\ ch = (((b - 240) * 64 + c - 128) * 64 + d - 128) * 64 + e - 128
    <3>1. /\ b \in 240..244 /\ (b = 240 => c >= 144)
      BY <1>0, <1>4, Four, SMT
    <3>2. /\ ch \div 64 \in Nat /\ ch \div 4096 \in Nat
          /\ ch \div 4096 = (ch \div 64) \div 64 /\ ch \div 262144 = (ch \div 4096) \div 64
      BY <1>0, BehindKeeps, Shifts, SMT
    <3>3. d \in 128..191 /\ ~isutf(d) /\ ch \div 64 = (ch \div 4096) * 64 + d - 128
      BY <3>2, BehindKeeps, SMT
    <3>4. c \in 128..191 /\ ~isutf(c) /\ ch \div 4096 = (b - 240) * 64 + c - 128
      BY <3>1, <3>2, BehindKeeps, SMT
    <3>5. e \in 128..191 /\ ~isutf(e) /\ ch = (ch \div 64) * 64 + e - 128
      BY <1>0, BehindKeeps, SMT
    <3> QED
      BY <3>1, <3>3, <3>4, <3>5, SMT
  <2>3. /\ At(s, p) = b /\ At(s, p + 1) = c /\ At(s, p + 2) = d /\ At(s, p + 3) = e
        /\ isutf(At(s, p + 4)) /\ p + 4 < Len(s)
    <3>1. \A k \in 0..3 : At(s, p + k) = <<b, c, d, e>>[k + 1]
      BY <2>1, SMT DEF Holds
    <3> QED
      BY <2>1, <3>1, SMT DEF Holds
  <2> HIDE DEF b, c, d, e
  <2>4. Decoded(s, p, 3) = ch
    <3>1. /\ At(s, p) \in Nat /\ At(s, p + 1) \in Nat
          /\ At(s, p + 2) \in Nat /\ At(s, p + 3) \in Nat
      BY <2>2, <2>3, SMT
    <3>2. Decoded(s, p, 3) =
            (((At(s, p) - 240) * 64 + At(s, p + 1) - 128) * 64 + At(s, p + 2) - 128) * 64
              + At(s, p + 3) - 128
      BY <3>1, Subtracted, SMT
    <3>3. Decoded(s, p, 3) = (((b - 240) * 64 + c - 128) * 64 + d - 128) * 64 + e - 128
      BY <2>3, <3>2, SMT
    <3> QED
      BY <2>2, <3>3, SMT
  <2>5. isutf(b) /\ u8_seqlen(b) = 4 /\ ~Overlong(b, c)
    BY <2>2, SMT DEF isutf, u8_seqlen, trailingBytesForUTF8, Overlong
  <2> QED
    BY <2>1, <2>2, <2>3, <2>4, <2>5, SMT
<1> QED
  BY <1>0, <1>1, <1>2, <1>3, <1>4, SMT

(***************************************************************************)
(* Passing over a character.                                               *)
(***************************************************************************)

\* Min is the member that no other is below.
LEMMA MinIs ==
  ASSUME NEW S \in SUBSET Int, NEW m \in S, \A x \in S : m <= x
  PROVE  Min(S) = m
<1> DEFINE Least(x) == \A y \in S : x <= y
<1>1. \A x \in S : Least(x) => x = m
  <2> SUFFICES ASSUME NEW x \in S, Least(x) PROVE x = m
    OBVIOUS
  <2>1. x <= m /\ m <= x /\ x \in Int /\ m \in Int
    OBVIOUS
  <2> QED
    BY <2>1
<1>2. Least(m)
  OBVIOUS
<1> HIDE DEF Least
<1>3. (CHOOSE x \in S : Least(x)) = m
  BY <1>1, <1>2, Zenon
<1>4. Min(S) = CHOOSE x \in S : Least(x)
  BY Zenon DEF Min, Least
<1> QED
  BY <1>3, <1>4

\* The search for a start ends at the first one, when there is one in reach.
LEMMA StartIs ==
  ASSUME NEW S, NEW s \in Seq(S), NEW p \in Nat, NEW least \in 1..2, NEW n \in least..4,
         p + n < Len(s), isutf(At(s, p + n)),
         \A k \in least..(n - 1) : ~isutf(At(s, p + k))
  PROVE  Start(s, p, least, 4) = p + n
<1> DEFINE K == {k \in least..4 : k = 4 \/ p + k >= Len(s) \/ isutf(At(s, p + k))}
<1>1. n \in K /\ K \in SUBSET Int
  OBVIOUS
<1>2. \A k \in K : n <= k
  <2> SUFFICES ASSUME NEW k \in least..4, k < n
               PROVE  k # 4 /\ p + k < Len(s) /\ ~isutf(At(s, p + k))
    BY SMT
  <2>1. k \in least..(n - 1)
    OBVIOUS
  <2> QED
    BY <2>1, LenProperties
<1>3. Min(K) = n
  BY <1>1, <1>2, MinIs
<1> QED
  BY <1>3 DEF Start

\* A first byte is ASCII if and only if it stands alone.
LEMMA SeqlenTells ==
  ASSUME NEW b \in 0..255, isutf(b)
  PROVE  b < 128 <=> u8_seqlen(b) = 1
<1>1. CASE b < 128
  BY <1>1 DEF u8_seqlen, trailingBytesForUTF8
<1>2. CASE b \in 192..223
  BY <1>2 DEF u8_seqlen, trailingBytesForUTF8
<1>3. CASE b \in 224..239
  BY <1>3 DEF u8_seqlen, trailingBytesForUTF8
<1>4. CASE b \in 240..247
  BY <1>4 DEF u8_seqlen, trailingBytesForUTF8
<1>5. CASE b \in 248..251
  BY <1>5 DEF u8_seqlen, trailingBytesForUTF8
<1>6. CASE b \in 252..255
  BY <1>6 DEF u8_seqlen, trailingBytesForUTF8
<1> QED
  BY <1>1, <1>2, <1>3, <1>4, <1>5, <1>6 DEF isutf

\* u8_dec finds the character that starts n bytes before.
LEMMA DecIs ==
  ASSUME NEW s, NEW p \in Nat, NEW n \in 1..4, isutf(At(s, p)),
         \A k \in 1..(n - 1) : ~isutf(At(s, p + k))
  PROVE  u8_dec(s, p + n) = p
<1> DEFINE K == {k \in 1..4 : k = 4 \/ k > p + n \/ isutf(At(s, p + n - k))}
<1>1. n \in K /\ K \in SUBSET Int
  <2>1. p + n - n = p
    OBVIOUS
  <2> QED
    BY <2>1
<1>2. \A k \in K : n <= k
  <2> SUFFICES ASSUME NEW k \in 1..4, k < n
               PROVE  k # 4 /\ ~(k > p + n) /\ ~isutf(At(s, p + n - k))
    BY SMT
  <2>1. n - k \in 1..(n - 1) /\ p + n - k = p + (n - k)
    OBVIOUS
  <2> QED
    BY <2>1
<1>3. Min(K) = n
  BY <1>1, <1>2, MinIs
<1> QED
  BY <1>3 DEF u8_dec

\* Whatever lies around it, a character that u8_wc_toutf8 wrote is read back by
\* u8_nextmemchar, and the index ends behind its u8_charlen bytes.
THEOREM ReadsBack ==
  ASSUME NEW s \in Seq(0..255), NEW p \in Nat, NEW ch, Encodable(ch), Holds(s, p, ch)
  PROVE  u8_nextmemchar(s, p) = Read(ch, p + u8_charlen(ch))
<1> DEFINE n == u8_charlen(ch)
<1>1. /\ n \in 1..4 /\ p + n < Len(s) /\ isutf(At(s, p + n))
      /\ \A k \in 1..(n - 1) : ~isutf(At(s, p + k))
      /\ Decoded(s, p, n - 1) = ch
  BY HeldBytes
<1> HIDE DEF n
<1>2. Start(s, p, 1, 4) = p + n
  BY <1>1, StartIs
<1>3. (p + n) - p - 1 = n - 1
  BY <1>1
<1> QED
  BY <1>1, <1>2, <1>3 DEF u8_nextmemchar, n

\* u8_inc and u8_dec undo each other on it, and the loops that count characters
\* take it for one.
THEOREM PassesOver ==
  ASSUME NEW s \in Seq(0..255), NEW p \in Nat, NEW ch, Encodable(ch), Holds(s, p, ch)
  PROVE  /\ u8_inc(s, p) = p + u8_charlen(ch)
         /\ u8_dec(s, p + u8_charlen(ch)) = p
         /\ Over(s, p) = p + u8_charlen(ch)
<1> DEFINE n == u8_charlen(ch)
<1>1. /\ n \in 1..4 /\ p + n < Len(s) /\ isutf(At(s, p)) /\ isutf(At(s, p + n))
      /\ \A k \in 1..(n - 1) : ~isutf(At(s, p + k))
      /\ u8_seqlen(At(s, p)) = n
  BY HeldBytes
<1> HIDE DEF n
<1>2. At(s, p) \in 0..255
  <2>1. p + 1 \in 1..Len(s)
    BY <1>1, LenProperties
  <2> QED
    BY <2>1, ElementOfSeq DEF At
<1>3. u8_inc(s, p) = p + n
  BY <1>1, StartIs DEF u8_inc
<1>4. u8_dec(s, p + n) = p
  BY <1>1, DecIs
<1>5. CASE n = 1
  <2>1. At(s, p) < 128
    BY <1>1, <1>2, <1>5, SeqlenTells
  <2> QED
    BY <1>3, <1>4, <1>5, <2>1 DEF Over, n
<1>6. CASE n # 1
  <2>1. ~(At(s, p) < 128)
    BY <1>1, <1>2, <1>6, SeqlenTells
  <2>2. n \in 2..4 /\ \A k \in 2..(n - 1) : ~isutf(At(s, p + k))
    <3>1. n \in 2..4 /\ \A k \in 2..(n - 1) : k \in 1..(n - 1)
      BY <1>1, <1>6
    <3> QED
      BY <1>1, <3>1
  <2>3. Start(s, p, 2, 4) = p + n
    BY <1>1, <2>2, StartIs
  <2> QED
    BY <1>3, <1>4, <2>1, <2>3 DEF Over, n
<1> QED
  BY <1>5, <1>6

\* u8_isvalid finds nothing wrong with its bytes: the first announces as many as
\* there are, the others are none's first, and none is too many.
THEOREM WritesShortest ==
  ASSUME NEW s \in Seq(0..255), NEW p \in Nat, NEW ch, Encodable(ch), Holds(s, p, ch)
  PROVE  /\ Len(u8_wc_toutf8(ch)) = u8_charlen(ch)
         /\ u8_seqlen(At(s, p)) = u8_charlen(ch)
         /\ \A k \in 1..(u8_charlen(ch) - 1) : ~isutf(At(s, p + k))
         /\ u8_charlen(ch) > 1 => ~Overlong(At(s, p), At(s, p + 1))
  BY HeldBytes

(***************************************************************************)
(* Escape sequences. u8_escape is a recursive function: that there is one  *)
(* is shown from the end of the string on, and what it puts likewise, by   *)
(* the least distance from the end at which it would be wrong.             *)
(***************************************************************************)

\* A set of natural numbers that is not empty has a least member.
LEMMA LeastOf ==
  ASSUME NEW S \in SUBSET Nat, S # {}
  PROVE  Min(S) \in S /\ \A x \in S : Min(S) <= x
<1>1. PICK m \in S : \A y \in S : ~ (<<y, m>> \in OpToRel(<, Nat))
  BY NatLessThanWellFounded, WFMin
<1>2. \A y \in S : ~ (y < m)
  BY <1>1 DEF OpToRel
<1>3. \A y \in S : m <= y
  BY <1>2
<1>4. Min(S) = m
  BY <1>3, MinIs
<1> QED
  BY <1>3, <1>4

\* The search for the next character moves by one to four bytes, and stays in the
\* memory.
LEMMA StartMoves ==
  ASSUME NEW S, NEW s \in Seq(S), NEW p \in Nat, p < Len(s)
  PROVE  /\ Start(s, p, 1, 4) \in (p + 1)..(p + 4) /\ Start(s, p, 1, 4) <= Len(s)
         /\ \A q \in (p + 1)..(Len(s) - 1) : isutf(At(s, q)) => Start(s, p, 1, 4) <= q
<1> DEFINE K == {k \in 1..4 : k = 4 \/ p + k >= Len(s) \/ isutf(At(s, p + k))}
<1>1. 4 \in K /\ K \in SUBSET Nat /\ Len(s) \in Nat
  OBVIOUS
<1>2. PICK m : m = Min(K)
  OBVIOUS
<1>3. m \in K /\ \A k \in K : m <= k
  BY <1>1, <1>2, LeastOf
<1>4. Start(s, p, 1, 4) = p + m /\ m \in 1..4
  BY <1>2, <1>3 DEF Start
<1>5. p + m <= Len(s)
  <2> SUFFICES ASSUME p + m > Len(s) PROVE FALSE
    BY <1>1, <1>4
  <2>1. Len(s) - p \in 1..4 /\ p + (Len(s) - p) >= Len(s)
    BY <1>1, <1>4
  <2>2. Len(s) - p \in K
    BY <2>1
  <2>3. m <= Len(s) - p
    BY <1>3, <2>2
  <2> QED
    BY <1>1, <1>4, <2>3
<1>6. ASSUME NEW q \in (p + 1)..(Len(s) - 1), isutf(At(s, q))
      PROVE  p + m <= q
  <2>1. CASE q > p + 4
    BY <1>4, <2>1
  <2>2. CASE q <= p + 4
    <3>1. PICK k : k = q - p
      OBVIOUS
    <3>2. k \in 1..4 /\ p + k = q
      BY <1>1, <2>2, <3>1
    <3>3. k \in K
      BY <1>6, <3>2
    <3>4. m <= k
      BY <1>3, <3>3
    <3> QED
      BY <1>4, <3>2, <3>4
  <2> QED
    BY <1>1, <2>1, <2>2
<1> QED
  BY <1>4, <1>5, <1>6

\* A sequence whose members have some type or other.
Row(x, least, most) == \E S : x \in Seq(S) /\ Len(x) \in least..most

LEMMA HexRow ==
  ASSUME NEW v, NEW n \in Nat, NEW a, NEW b
  PROVE  Row(<<a, b>> \o Hex(v, n), n + 2, n + 2)
<1>1. PICK h : h = Hex(v, n)
  OBVIOUS
<1>2. PICK S : S = {h[k] : k \in 1..n} \cup {a, b}
  OBVIOUS
<1>3. h \in Seq(S) /\ Len(h) = n
  <2>1. \A k \in 1..n : h[k] \in S
    BY <1>2
  <2>2. DOMAIN h = 1..n /\ h = [k \in 1..n |-> h[k]]
    BY <1>1 DEF Hex
  <2>3. h \in [1..n -> S]
    BY <2>1, <2>2
  <2> QED
    BY <2>3
<1>4. <<a, b>> \in Seq(S) /\ Len(<<a, b>>) = 2
  BY <1>2
<1>5. (<<a, b>> \o h) \in Seq(S) /\ Len(<<a, b>> \o h) = n + 2
  BY <1>3, <1>4
<1>6. Len(<<a, b>> \o h) \in (n + 2)..(n + 2)
  BY <1>5
<1> QED
  BY <1>1, <1>5, <1>6, Zenon DEF Row

LEMMA PairRow ==
  ASSUME NEW a, NEW b
  PROVE  Row(<<a>>, 1, 10) /\ Row(<<a, b>>, 1, 10)
<1>1. PICK S : S = {a, b}
  OBVIOUS
<1>2. /\ <<a>> \in Seq(S) /\ Len(<<a>>) \in 1..10
      /\ <<a, b>> \in Seq(S) /\ Len(<<a, b>>) \in 1..10
  BY <1>1
<1> QED
  BY <1>2, Zenon DEF Row

LEMMA RowWithin ==
  ASSUME NEW x, NEW a \in Nat, NEW b \in Nat, NEW c \in Nat, NEW d \in Nat, Row(x, a, b), c <= a, b <= d
  PROVE  Row(x, c, d)
BY DEF Row

LEMMA WcharRow ==
  ASSUME NEW ch
  PROVE  Row(u8_escape_wchar(ch), 1, 10)
<1> DEFINE P1 == \E k \in DOMAIN Named : Named[k] = ch
           P2 == ch = Backslash
           P3 == ch \in (0..31 \ Range(Named)) \cup {127}
           P4 == ch > 65535
           P5 == ch >= 128 /\ ch <= 65535
           Arms(a, b, c, d, e, f) ==
             CASE P1 -> a [] P2 -> b [] P3 -> c [] P4 -> d [] P5 -> e [] OTHER -> f
<1>1. PICK a, b, c, d, e, f :
        /\ a = <<Backslash, CHOOSE k \in DOMAIN Named : Named[k] = ch>>
        /\ b = <<Backslash, Backslash>> /\ c = <<Backslash, 120>> \o Hex(ch, 2)
        /\ d = <<Backslash, 85>> \o Hex(ch, 8) /\ e = <<Backslash, 117>> \o Hex(ch, 4)
        /\ f = <<ch>>
  BY Zenon
<1>2. u8_escape_wchar(ch) =
        Arms(<<Backslash, CHOOSE k \in DOMAIN Named : Named[k] = ch>>, <<Backslash, Backslash>>,
             <<Backslash, 120>> \o Hex(ch, 2), <<Backslash, 85>> \o Hex(ch, 8),
             <<Backslash, 117>> \o Hex(ch, 4), <<ch>>)
  BY DEF u8_escape_wchar
<1> HIDE DEF P1, P2, P3, P4, P5
<1>3. Arms(a, b, c, d, e, f) \in {a, b, c, d, e, f}
  BY Zenon
<1> HIDE DEF Arms
<1>4. u8_escape_wchar(ch) \in {a, b, c, d, e, f}
  BY <1>1, <1>2, <1>3, Zenon
<1>5. \A n \in {2, 4, 8} : \A x, y : Row(<<x, y>> \o Hex(ch, n), 1, 10)
  <2> TAKE n \in {2, 4, 8}
  <2> TAKE x, y
  <2>1. n \in Nat /\ n + 2 >= 1 /\ n + 2 <= 10 /\ n + 2 \in Nat
    OBVIOUS
  <2>2. Row(<<x, y>> \o Hex(ch, n), n + 2, n + 2)
    BY <2>1, HexRow
  <2> QED
    BY <2>1, <2>2, RowWithin
<1>6. Row(a, 1, 10) /\ Row(b, 1, 10) /\ Row(f, 1, 10)
  BY <1>1, PairRow, Zenon
<1>7. Row(c, 1, 10) /\ Row(d, 1, 10) /\ Row(e, 1, 10)
  BY <1>1, <1>5
<1> QED
  BY <1>4, <1>6, <1>7, Zenon

\* What is put for one character: at most ten bytes, and the string goes on.
LEMMA EscapedIs ==
  ASSUME NEW S, NEW s \in Seq(S), NEW p \in Nat, p < Len(s), NEW quotes, NEW ascii, NEW printable
  PROVE  LET e == Escaped(s, p, quotes, ascii, printable) IN
         /\ e.i \in (p + 1)..(p + 4) /\ e.i <= Len(s)
         /\ \A q \in (p + 1)..(Len(s) - 1) : isutf(At(s, q)) => e.i <= q
         /\ Row(e.put, 1, 10)
<1>1. PICK e : e = Escaped(s, p, quotes, ascii, printable)
  OBVIOUS
<1>2. PICK q : q = Start(s, p, 1, 4)
  OBVIOUS
<1>3. /\ q \in (p + 1)..(p + 4) /\ q <= Len(s) /\ Len(s) \in Nat
      /\ \A r \in (p + 1)..(Len(s) - 1) : isutf(At(s, r)) => q <= r
  BY <1>2, StartMoves
<1>4. Row(SubSeq(s, p + 1, q), 1, 10)
  <2>1. SubSeq(s, p + 1, q) \in Seq(S) /\ Len(SubSeq(s, p + 1, q)) = q - p
    <3>1. p + 1 \in Int /\ q \in Int /\ p + 1 <= q /\ q - (p + 1) + 1 = q - p
      BY <1>3
    <3>2. \A k \in (p + 1)..q : s[k] \in S
      <4>1. \A k \in (p + 1)..q : k \in 1..Len(s)
        BY <1>3
      <4> TAKE k \in (p + 1)..q
      <4>2. k \in 1..Len(s)
        BY <4>1
      <4> QED
        BY <4>2, ElementOfSeq
    <3> QED
      BY <3>1, <3>2, SubSeqProperties
  <2>2. Len(SubSeq(s, p + 1, q)) \in 1..10
    BY <1>3, <2>1
  <2> QED
    BY <2>1, <2>2, Zenon DEF Row
<1>5. u8_nextmemchar(s, p).i = q
  BY <1>2 DEF u8_nextmemchar, Read
<1>6. \/ \E a, b : e = [put |-> <<a, b>>, i |-> p + 1]
      \/ \E ch : e = [put |-> u8_escape_wchar(ch), i |-> q]
      \/ e = [put |-> SubSeq(s, p + 1, q), i |-> q]
  <2>1. \/ \E a, b : e = [put |-> <<a, b>>, i |-> p + 1]
        \/ \E c : e = [put |-> IF c THEN u8_escape_wchar(u8_nextmemchar(s, p).ch)
                               ELSE SubSeq(s, p + 1, q), i |-> q]
    BY <1>1, <1>5, Zenon DEF Escaped
  <2> QED
    BY <2>1, Zenon
<1>7. (e.i = p + 1 \/ e.i = q) /\ Row(e.put, 1, 10)
  <2>1. ASSUME NEW a, NEW b, e = [put |-> <<a, b>>, i |-> p + 1]
        PROVE  e.i = p + 1 /\ Row(e.put, 1, 10)
    <3>1. e.put = <<a, b>> /\ e.i = p + 1
      BY <2>1
    <3> QED
      BY <3>1, PairRow, Zenon
  <2>2. ASSUME NEW ch, e = [put |-> u8_escape_wchar(ch), i |-> q]
        PROVE  e.i = q /\ Row(e.put, 1, 10)
    <3>1. e.put = u8_escape_wchar(ch) /\ e.i = q
      BY <2>2
    <3> QED
      BY <3>1, WcharRow, Zenon
  <2>3. CASE e = [put |-> SubSeq(s, p + 1, q), i |-> q]
    <3>1. e.put = SubSeq(s, p + 1, q) /\ e.i = q
      BY <2>3
    <3> QED
      BY <3>1, <1>4, Zenon
  <2> QED
    BY <1>6, <2>1, <2>2, <2>3, Zenon
<1> QED
  BY <1>1, <1>3, <1>7

\* What u8_escape puts from p on when n bytes are put already, if f is what it does
\* behind the next character.
Puts(sz, s, end, quotes, ascii, printable, f, p) ==
  [n \in Nat |->
     LET e == Escaped(s, p, quotes, ascii, printable)
         g == f[e.i][n + Len(e.put)]
     IN IF p >= end \/ n >= sz - Reserve THEN [put |-> <<0>>, i |-> p]
        ELSE [put |-> e.put \o g.put, i |-> g.i]]

PutsAll(sz, s, end, quotes, ascii, printable, f) ==
  [p \in Nat |-> Puts(sz, s, end, quotes, ascii, printable, f, p)]

PutsFrom(sz, s, end, quotes, ascii, printable) ==
  CHOOSE f : f = PutsAll(sz, s, end, quotes, ascii, printable, f)

LEMMA EscapeUnfolds ==
  ASSUME NEW sz, NEW s, NEW start, NEW end, NEW quotes, NEW ascii, NEW printable
  PROVE  u8_escape(sz, s, start, end, quotes, ascii, printable)
           = PutsFrom(sz, s, end, quotes, ascii, printable)[start][0]
BY DEF u8_escape, Puts, PutsAll, PutsFrom

LEMMA PutsDepend ==
  ASSUME NEW S, NEW s \in Seq(S), NEW end \in Nat, end <= Len(s), NEW sz,
         NEW quotes, NEW ascii, NEW printable, NEW f, NEW g, NEW p \in Nat,
         p < end => \A q \in Nat : q > p => f[q] = g[q]
  PROVE  Puts(sz, s, end, quotes, ascii, printable, f, p)
           = Puts(sz, s, end, quotes, ascii, printable, g, p)
<1>1. CASE p >= end
  BY <1>1, Zenon DEF Puts
<1>2. CASE p < end
  <2>1. PICK e : e = Escaped(s, p, quotes, ascii, printable)
    OBVIOUS
  <2>2. p < Len(s)
    BY <1>2
  <2>3. e.i \in (p + 1)..(p + 4)
    BY <2>1, <2>2, EscapedIs
  <2>4. e.i \in Nat /\ e.i > p
    BY <2>3
  <2>5. f[e.i] = g[e.i]
    BY <1>2, <2>4
  <2> QED
    BY <2>1, <2>5, Zenon DEF Puts
<1> QED
  BY <1>1, <1>2

\* There is a function that does so from everywhere: it is built from the end of
\* the string on.
LEMMA PutsExist ==
  ASSUME NEW S, NEW s \in Seq(S), NEW end \in Nat, end <= Len(s), NEW sz,
         NEW quotes, NEW ascii, NEW printable
  PROVE  LET f == PutsFrom(sz, s, end, quotes, ascii, printable) IN
         f = PutsAll(sz, s, end, quotes, ascii, printable, f)
<1> DEFINE B(f, p) == Puts(sz, s, end, quotes, ascii, printable, f, p)
           From(d) == {p \in Nat : p + d >= end}
           Q(d) == \E f : f = [p \in From(d) |-> B(f, p)]
<1>1. \A f, g : \A p \in Nat :
        (p < end => \A q \in Nat : q > p => f[q] = g[q]) => B(f, p) = B(g, p)
  BY PutsDepend
<1> HIDE DEF B
<1>2. Q(0)
  <2>1. PICK g : g = [p \in From(0) |-> B(0, p)]
    OBVIOUS
  <2>2. \A p \in From(0) : B(0, p) = B(g, p)
    BY <1>1
  <2> QED
    BY <2>1, <2>2
<1>3. ASSUME NEW d \in Nat, Q(d) PROVE Q(d + 1)
  <2>1. PICK f : f = [p \in From(d) |-> B(f, p)]
    BY <1>3
  <2>2. PICK g : g = [p \in From(d + 1) |-> B(f, p)]
    OBVIOUS
  <2>3. \A p \in From(d) : f[p] = g[p]
    BY <2>1, <2>2
  <2>4. \A p \in From(d + 1) : B(f, p) = B(g, p)
    <3> TAKE p \in From(d + 1)
    <3>1. p < end => \A q \in Nat : q > p => f[q] = g[q]
      BY <2>3
    <3> QED
      BY <1>1, <3>1
  <2> HIDE DEF From
  <2>5. g = [p \in From(d + 1) |-> B(g, p)]
    BY <2>2, <2>4
  <2> QED
    BY <2>5, Zenon
<1>4. From(end) = Nat
  OBVIOUS
<1>5. Q(end)
  <2> HIDE DEF Q
  <2> DEFINE Bad == {d \in Nat : ~Q(d)}
  <2>1. Bad = {}
    <3> SUFFICES ASSUME Bad # {} PROVE FALSE
      OBVIOUS
    <3>1. PICK d \in Bad : \A x \in Bad : d <= x
      <4>1. Bad \in SUBSET Nat
        OBVIOUS
      <4> HIDE DEF Bad
      <4> QED
        BY <4>1, LeastOf
    <3>2. d \in Nat /\ ~Q(d) /\ d # 0
      BY <1>2, <3>1
    <3>3. d - 1 \in Nat /\ d - 1 \notin Bad /\ (d - 1) + 1 = d
      BY <3>1, <3>2
    <3>4. Q(d - 1)
      BY <3>3
    <3> QED
      BY <1>3, <3>2, <3>3, <3>4
  <2> QED
    BY <2>1
<1> HIDE DEF From
<1>6. \E f : f = PutsAll(sz, s, end, quotes, ascii, printable, f)
  BY <1>4, <1>5, Zenon DEF B, PutsAll
<1> QED
  BY <1>6, Zenon DEF PutsFrom

\* What is put from p on, n bytes being put: it ends with the NUL, in the buffer,
\* and behind at least one character if there is one and room for it.
PutsFit(x, sz, end, p, n) ==
  /\ Row(x.put, 1, sz - n) /\ x.put[Len(x.put)] = 0
  /\ x.i \in p..end
  /\ p < end /\ n < sz - Reserve => Len(x.put) >= 2 /\ x.i > p

LEMMA NulFits ==
  ASSUME NEW sz \in Nat, NEW n \in Nat, n < sz, NEW end \in Nat, NEW p \in 0..end,
         p >= end \/ n >= sz - Reserve
  PROVE  PutsFit([put |-> <<0>>, i |-> p], sz, end, p, n)
<1>1. PICK one : one = <<0>>
  OBVIOUS
<1>2. one \in Seq({0}) /\ Len(one) = 1 /\ one[1] = 0 /\ Len(one) \in 1..(sz - n)
  BY <1>1
<1>3. Row(one, 1, sz - n)
  BY <1>2, Zenon DEF Row
<1>4. PICK x : x = [put |-> one, i |-> p]
  OBVIOUS
<1>5. x.put = one /\ x.i = p
  BY <1>4
<1>6. ~(p < end /\ n < sz - Reserve) /\ p \in p..end
  BY DEF Reserve
<1>7. Row(x.put, 1, sz - n) /\ x.put[Len(x.put)] = 0 /\ x.i \in p..end
  BY <1>2, <1>3, <1>5, <1>6
<1> QED
  BY <1>1, <1>4, <1>6, <1>7, Zenon DEF PutsFit

LEMMA MoreFits ==
  ASSUME NEW sz \in Nat, NEW n \in Nat, n < sz - Reserve, NEW end \in Nat, NEW p \in Nat, p < end,
         NEW a, Row(a, 1, 10), NEW i \in (p + 1)..end, NEW g, PutsFit(g, sz, end, i, n + Len(a))
  PROVE  PutsFit([put |-> a \o g.put, i |-> g.i], sz, end, p, n)
<1>1. PICK S : a \in Seq(S) /\ Len(a) \in 1..10
  BY DEF Row
<1>2. PICK b : b = g.put
  OBVIOUS
<1>3. PICK T : b \in Seq(T) /\ Len(b) \in 1..(sz - (n + Len(a))) /\ b[Len(b)] = 0
  BY <1>2 DEF PutsFit, Row
<1>4. PICK U : U = S \cup T
  OBVIOUS
<1>5. a \in Seq(U) /\ b \in Seq(U)
  BY <1>1, <1>3, <1>4
<1>6. /\ a \o b \in Seq(U) /\ Len(a \o b) = Len(a) + Len(b)
      /\ (a \o b)[Len(a \o b)] = 0
  BY <1>1, <1>3, <1>5
<1>7. Len(a \o b) \in 1..(sz - n) /\ Len(a \o b) >= 2
  BY <1>1, <1>3, <1>6
<1>8. PICK x : x = [put |-> a \o b, i |-> g.i]
  OBVIOUS
<1>9. x.put = a \o b /\ x.i = g.i
  BY <1>8
<1>10. Row(x.put, 1, sz - n) /\ x.put[Len(x.put)] = 0 /\ Len(x.put) >= 2
  BY <1>6, <1>7, <1>9, Zenon DEF Row
<1>11. g.i \in i..end
  BY DEF PutsFit
<1>12. x.i \in p..end /\ x.i > p
  BY <1>9, <1>11
<1> QED
  BY <1>2, <1>8, <1>10, <1>12, Zenon DEF PutsFit

LEMMA PutsStep ==
  ASSUME NEW S, NEW s \in Seq(S), NEW end \in Nat, end < Len(s), isutf(At(s, end)), NEW sz \in Nat,
         NEW quotes, NEW ascii, NEW printable, NEW f,
         NEW p \in 0..end, NEW n \in Nat, n < sz,
         \A q \in 0..end, m \in Nat : q > p /\ m < sz => PutsFit(f[q][m], sz, end, q, m)
  PROVE  PutsFit(Puts(sz, s, end, quotes, ascii, printable, f, p)[n], sz, end, p, n)
<1>1. PICK e : e = Escaped(s, p, quotes, ascii, printable)
  OBVIOUS
<1>2. PICK g : g = f[e.i][n + Len(e.put)]
  OBVIOUS
<1>3. Puts(sz, s, end, quotes, ascii, printable, f, p)[n]
        = IF p >= end \/ n >= sz - Reserve THEN [put |-> <<0>>, i |-> p]
          ELSE [put |-> e.put \o g.put, i |-> g.i]
  BY <1>1, <1>2 DEF Puts
<1>4. CASE p >= end \/ n >= sz - Reserve
  BY <1>3, <1>4, NulFits
<1>5. CASE p < end /\ n < sz - Reserve
  <2>1. p \in Nat /\ p < Len(s) /\ Len(s) \in Nat /\ end \in (p + 1)..(Len(s) - 1)
    BY <1>5
  <2>2. e.i \in (p + 1)..(p + 4) /\ Row(e.put, 1, 10) /\ e.i <= end
    BY <1>1, <2>1, EscapedIs
  <2>3. PICK i, l : i = e.i /\ l = Len(e.put)
    OBVIOUS
  <2>4. i \in (p + 1)..end /\ i \in 0..end /\ i > p /\ l \in 1..10
    BY <2>1, <2>2, <2>3 DEF Row
  <2>5. n + l \in Nat /\ n + l < sz
    BY ONLY <1>5, <2>4, n \in Nat, sz \in Nat DEF Reserve
  <2>6. PutsFit(g, sz, end, i, n + l)
    BY <1>2, <2>3, <2>4, <2>5
  <2>7. PutsFit([put |-> e.put \o g.put, i |-> g.i], sz, end, p, n)
    BY <1>5, <2>1, <2>2, <2>3, <2>4, <2>6, MoreFits
  <2>8. Puts(sz, s, end, quotes, ascii, printable, f, p)[n] = [put |-> e.put \o g.put, i |-> g.i]
    BY ONLY <1>3, <1>5, n \in Nat, sz \in Nat, p \in 0..end, end \in Nat DEF Reserve
  <2> QED
    BY <2>7, <2>8, Zenon
<1> QED
  BY <1>4, <1>5 DEF Reserve

\* u8_escape looks for room only before each character, and keeps eleven bytes for
\* one: whatever the string holds, what it puts, the NUL with it, is never more than
\* the buffer, it comes to the end of the string at most, and every call with a
\* buffer as utf8.h asks for gets on with at least one character.
THEOREM EscapeStaysInBuffer ==
  ASSUME NEW S, NEW s \in Seq(S), NEW end \in Nat, end < Len(s), isutf(At(s, end)),
         NEW start \in 0..(end - 1), NEW sz \in Nat, sz > Reserve,
         NEW quotes \in BOOLEAN, NEW ascii \in BOOLEAN, NEW printable
  PROVE  LET r == u8_escape(sz, s, start, end, quotes, ascii, printable) IN
         /\ Len(r.put) \in 2..sz /\ Last(r.put) = 0
         /\ r.i \in (start + 1)..end
<1>1. PICK f : f = PutsFrom(sz, s, end, quotes, ascii, printable)
  OBVIOUS
<1>2. f = PutsAll(sz, s, end, quotes, ascii, printable, f)
  <2>1. end <= Len(s)
    OBVIOUS
  <2> QED
    BY <1>1, <2>1, PutsExist
<1>3. u8_escape(sz, s, start, end, quotes, ascii, printable) = f[start][0]
  BY <1>1, EscapeUnfolds, Zenon
<1>4. \A p \in 0..end : f[p] = Puts(sz, s, end, quotes, ascii, printable, f, p)
  <2>1. \A p \in Nat : f[p] = Puts(sz, s, end, quotes, ascii, printable, f, p)
    <3>1. f = [p \in Nat |-> Puts(sz, s, end, quotes, ascii, printable, f, p)]
      BY <1>2, Zenon DEF PutsAll
    <3> QED
      BY <3>1
  <2> QED
    BY <2>1
<1> DEFINE Fit(p) == \A n \in Nat : n < sz => PutsFit(f[p][n], sz, end, p, n)
           Bad == {d \in Nat : \E p \in 0..end : d = end - p /\ ~Fit(p)}
<1>5. Bad = {}
  <2> SUFFICES ASSUME Bad # {} PROVE FALSE
    OBVIOUS
  <2>1. PICK d \in Bad : \A x \in Bad : d <= x
    <3>1. Bad \in SUBSET Nat
      OBVIOUS
    <3> HIDE DEF Bad
    <3> QED
      BY <3>1, LeastOf
  <2>2. PICK p \in 0..end : d = end - p /\ ~Fit(p)
    BY <2>1
  <2>3. \A q \in 0..end : q > p => Fit(q)
    <3> TAKE q \in 0..end
    <3> HAVE q > p
    <3>1. end - q \in Nat /\ ~(d <= end - q)
      BY <2>2
    <3>2. end - q \notin Bad
      BY <2>1, <3>1
    <3> HIDE DEF Fit
    <3> QED
      BY <3>1, <3>2
  <2>4. Fit(p)
    <3> SUFFICES ASSUME NEW n \in Nat, n < sz PROVE PutsFit(f[p][n], sz, end, p, n)
      OBVIOUS
    <3>1. \A q \in 0..end, m \in Nat : q > p /\ m < sz => PutsFit(f[q][m], sz, end, q, m)
      BY <2>3
    <3>2. PutsFit(Puts(sz, s, end, quotes, ascii, printable, f, p)[n], sz, end, p, n)
      BY <3>1, PutsStep
    <3>3. f[p] = Puts(sz, s, end, quotes, ascii, printable, f, p)
      BY <1>4
    <3> QED
      BY <3>2, <3>3, Zenon
  <2> QED
    BY <2>2, <2>4
<1>6. Fit(start)
  <2>1. end - start \in Nat /\ end - start \notin Bad /\ start \in 0..end
    BY <1>5
  <2> HIDE DEF Fit
  <2> QED
    BY <2>1
<1>7. PICK r : r = f[start][0]
  OBVIOUS
<1>8. PutsFit(r, sz, end, start, 0)
  BY <1>6, <1>7 DEF Reserve
<1>9. /\ Len(r.put) \in 2..sz /\ r.put[Len(r.put)] = 0 /\ r.i \in (start + 1)..end
  BY <1>8 DEF PutsFit, Row, Reserve
<1> QED
  BY <1>3, <1>7, <1>9 DEF Last
===============================================================================
