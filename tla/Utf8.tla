--------------------------------- MODULE Utf8 ---------------------------------
(***************************************************************************)
(* The routines of utf8.c, as functions of bytes in memory: s is what lies *)
(* from a char* on, positions are C's, and a string ends before its NUL.   *)
(* They are made for data known to be valid, whose characters have at most *)
(* four bytes; only u8_isvalid meets anything else. Loops that end at the  *)
(* NUL also end with the memory, which has one there.                      *)
(***************************************************************************)
EXTENDS Integers, Sequences, SequencesExt

\* The characters of strings: those that u8_charlen knows a length of, but NUL.
Chr == {ch \in Nat : 1 <= ch /\ ch < 1114112}

At(s, p) == s[p + 1]

\* Is the byte the first of a character?
isutf(b) == b \notin 128..191

\* The first position behind p, from p + least to p + most, where a character
\* starts. The search does not look behind the memory.
Start(s, p, least, most) ==
  p + Min({k \in least..most : k = most \/ p + k >= Len(s) \/ isutf(At(s, p + k))})

trailingBytesForUTF8(b) ==
  CASE b \in 0..191   -> 0
    [] b \in 192..223 -> 1
    [] b \in 224..239 -> 2
    [] b \in 240..247 -> 3
    [] b \in 248..251 -> 4
    [] b \in 252..255 -> 5

u8_seqlen(b) == trailingBytesForUTF8(b) + 1

-------------------------------------------------------------------------------
(* One character. *)

u8_charlen(ch) ==
  IF ch < 128 THEN 1
  ELSE IF ch < 2048 THEN 2
  ELSE IF ch < 65536 THEN 3
  ELSE IF ch < 1114112 THEN 4 ELSE 0

\* A byte behind the first, with the last six bits of v.
Behind(v) == 128 + (v % 64)

\* The bytes of a character; none when it cannot be encoded.
u8_wc_toutf8(ch) ==
  IF ch < 128 THEN <<ch>>
  ELSE IF ch < 2048 THEN <<192 + (ch \div 64), Behind(ch)>>
  ELSE IF ch < 65536 THEN <<224 + (ch \div 4096), Behind(ch \div 64), Behind(ch)>>
  ELSE IF ch < 1114112
       THEN <<240 + (ch \div 262144), Behind(ch \div 4096), Behind(ch \div 64), Behind(ch)>>
       ELSE <<>>

\* n + 1 bytes shifted into one number, and what their tag bits add up to.
Joined(s, p, n) ==
  CASE n = 0 -> At(s, p)
    [] n = 1 -> At(s, p) * 64 + At(s, p + 1)
    [] n = 2 -> (At(s, p) * 64 + At(s, p + 1)) * 64 + At(s, p + 2)
    [] n = 3 -> ((At(s, p) * 64 + At(s, p + 1)) * 64 + At(s, p + 2)) * 64 + At(s, p + 3)

offsetsFromUTF8 == <<0, 12416, 925824, 63447168>>

Decoded(s, p, n) == Joined(s, p, n) - offsetsFromUTF8[n + 1]

Read(ch, p) == [ch |-> ch, i |-> p]

u8_nextmemchar(s, p) ==
  LET q == Start(s, p, 1, 4) IN Read(Decoded(s, p, q - p - 1), q)

\* The NUL is a character that is never passed.
u8_nextchar(s, p) == IF At(s, p) = 0 THEN Read(0, p) ELSE u8_nextmemchar(s, p)

u8_inc_faulty(s, p) == Start(s, p, 1, 3)

u8_inc(s, p) == Start(s, p, 1, 4)

u8_dec_faulty(s, p) == p - Min({k \in 1..3 : k = 3 \/ k > p \/ isutf(At(s, p - k))})

u8_dec(s, p) == p - Min({k \in 1..4 : k = 4 \/ k > p \/ isutf(At(s, p - k))})

-------------------------------------------------------------------------------
(* Counting and searching. *)

\* Over a character whose first byte is not looked at again.
Over(s, p) == IF At(s, p) < 128 THEN p + 1 ELSE Start(s, p, 2, 4)

u8_offset(s, charnum) ==
  LET at[n \in 0..charnum] == IF n = 0 THEN 0 ELSE Over(s, at[n - 1])
  IN at[charnum]

u8_charnum(s, offset) ==
  LET count[p \in Nat] == IF p >= offset THEN 0 ELSE 1 + count[Over(s, p)]
  IN count[0]

u8_strlen(s) ==
  LET count[p \in Nat] ==
        IF p >= Len(s) \/ At(s, p) = 0 THEN 0 ELSE 1 + count[Over(s, p)]
  IN count[0]

NULL == -1

\* Where ch is and how many characters stand before it.
u8_strchr(s, ch) ==
  LET from[p \in Nat] == [n \in Nat |->
        LET r == u8_nextchar(s, p)
        IN IF p >= Len(s) \/ At(s, p) = 0 THEN [at |-> NULL, charn |-> n]
           ELSE IF r.ch = ch THEN [at |-> p, charn |-> n] ELSE from[r.i][n + 1]]
  IN from[0][0]

u8_memchr(s, ch, sz) ==
  LET m == SubSeq(s, 1, sz)
      from[p \in Nat] == [n \in Nat |->
        LET r == u8_nextmemchar(m, p)
        IN IF p >= sz THEN [at |-> NULL, charn |-> n]
           ELSE IF r.ch = ch THEN [at |-> p, charn |-> n] ELSE from[r.i][n + 1]]
  IN from[0][0]

u8_memrchr(s, ch, sz) ==
  LET last == Max({p \in 0..(sz - 1) : p = 0 \/ isutf(At(s, p))})
      back[p \in -1..last] ==
        IF p < 0 THEN NULL
        ELSE IF u8_nextmemchar(s, p).ch = ch THEN p
        ELSE IF p = 0 THEN NULL ELSE back[u8_dec(s, p)]
  IN IF sz = 0 THEN NULL ELSE back[last]

-------------------------------------------------------------------------------
(* Whole strings. *)

u8_codingsize(wcs) ==
  LET size[n \in 0..Len(wcs)] == IF n = 0 THEN 0 ELSE size[n - 1] + u8_charlen(wcs[n])
  IN size[Len(wcs)]

Encoded(wcs) == FlattenSeq([k \in 1..Len(wcs) |-> u8_wc_toutf8(wcs[k])])

\* As many characters as find room in sz bytes.
u8_toutf8(sz, wcs) ==
  Encoded(SubSeq(wcs, 1, Max({n \in 0..Len(wcs) : Len(Encoded(SubSeq(wcs, 1, n))) <= sz})))

\* At most sz characters of the first srcsz bytes. The byte behind them is looked
\* at, and counts as a character if it is none's first.
u8_toucs(sz, s, srcsz) ==
  LET bad == 65533
      from[p \in 0..srcsz] ==
        CASE ~isutf(At(s, p)) -> <<bad>> \o (IF p + 1 >= srcsz THEN <<>> ELSE from[p + 1])
          [] isutf(At(s, p)) /\ p + trailingBytesForUTF8(At(s, p)) >= srcsz -> <<>>
          [] OTHER -> LET n == trailingBytesForUTF8(At(s, p))
                      IN <<Decoded(s, p, n)>> \o from[p + n + 1]
      all == from[0]
  IN IF sz = 0 \/ srcsz = 0 THEN <<>> ELSE SubSeq(all, 1, Min({sz, Len(all)}))

\* The width of a character by the upper half of its first byte, if it has one.
Width(b) == CASE b < 128 -> 1 [] b \in 192..223 -> 2 [] b \in 224..239 -> 3 [] b \in 240..255 -> 4

\* Each character before those that came before it.
u8_reverse(s, len) ==
  LET from[p \in {q \in 0..len : isutf(At(s, q))}] ==
        IF p = len THEN <<>> ELSE from[p + Width(At(s, p))] \o SubSeq(s, p + 1, p + Width(At(s, p)))
  IN from[0]

Overlong_faulty(b, c) == b \in {192, 193, 254, 255} \/ (b = 224 /\ c < 160)

\* A first and a second byte of a longer sequence than the value needs.
Overlong(b, c) ==
  \/ b \in {192, 193, 254, 255}
  \/ b = 224 /\ c < 160
  \/ b = 240 /\ c < 144
  \/ b = 248 /\ c < 136
  \/ b = 252 /\ c < 132

\* left is the length less the bytes behind first bytes, and no others.
u8_isvalid(s, length) ==
  LET from[p \in Nat] == [left \in Nat |->
        LET b == At(s, p)
            n == trailingBytesForUTF8(b)
        IN \/ p >= length
           \/ p < length /\ b < 128 /\ from[p + 1][left]
           \/ /\ p < length /\ b >= 192 /\ left >= n
              /\ ~isutf(At(s, p + 1)) /\ ~Overlong(b, At(s, p + 1))
              /\ \A k \in 2..n : ~isutf(At(s, p + k))
              /\ from[p + n + 1][left - n]]
  IN from[0][length]

-------------------------------------------------------------------------------
(* Escape sequences. *)

Backslash == 92
Quote == 34

\* n t r e b f v a
Named ==
  [c \in {110, 116, 114, 101, 98, 102, 118, 97} |->
     CASE c = 110 -> 10 [] c = 116 -> 9 [] c = 114 -> 13 [] c = 101 -> 27
       [] c = 98 -> 8 [] c = 102 -> 12 [] c = 118 -> 11 [] c = 97 -> 7]

\* The width of x, u and U.
Wide == [c \in {120, 117, 85} |-> CASE c = 120 -> 2 [] c = 117 -> 4 [] c = 85 -> 8]

read_escape_control_char(c) == IF c \in DOMAIN Named THEN Named[c] ELSE c

octal_digit == 48..55
hex_digit == (48..57) \cup (65..70) \cup (97..102)

DigitValue(c) == CASE c \in 48..57 -> c - 48 [] c \in 65..70 -> c - 55 [] c \in 97..102 -> c - 87

\* The digits from p on, at most max of them.
DigitsAt(s, p, max, digits) ==
  LET n == Min({k \in 0..max : k = max \/ p + k >= Len(s) \/ At(s, p + k) \notin digits})
  IN SubSeq(s, p + 1, p + n)

Valued(digits, base) ==
  LET value[n \in 0..Len(digits)] ==
        IF n = 0 THEN 0 ELSE value[n - 1] * base + DigitValue(digits[n])
  IN value[Len(digits)]

\* A char as u_int32_t: a negative one becomes a number that no character has.
Unsigned(c) == IF c < 128 THEN c ELSE 1114112

\* What a backslash before p means. x, u and U without digits, whose character
\* is what the last one was, are left out.
u8_read_escape_sequence(s, p) ==
  LET c == At(s, p)
      octal == DigitsAt(s, p, 3, octal_digit)
      hex == DigitsAt(s, p + 1, Wide[c], hex_digit)
  IN CASE c \in octal_digit -> Read(Valued(octal, 8), p + Len(octal))
       [] c \in DOMAIN Wide -> Read(Valued(hex, 16), p + 1 + Len(hex))
       [] OTHER -> Read(Unsigned(read_escape_control_char(c)), p + 1)

u8_unescape(sz, s) ==
  LET from[p \in Nat] == [c \in Nat |->
        LET r == IF At(s, p) = Backslash THEN u8_read_escape_sequence(s, p + 1)
                 ELSE Read(Unsigned(At(s, p)), p + 1)
            u == u8_wc_toutf8(r.ch)
        IN IF p >= Len(s) \/ At(s, p) = 0 \/ c >= sz \/ Len(u) > sz - c THEN <<>>
           ELSE u \o from[r.i][c + Len(u)]]
  IN from[0][0]

HexDigit(d) == IF d < 10 THEN 48 + d ELSE 87 + d

Hex(v, n) ==
  LET rest[k \in 0..n] == IF k = 0 THEN v ELSE rest[k - 1] \div 16
  IN [k \in 1..n |-> HexDigit(rest[n - k] % 16)]

u8_escape_wchar(ch) ==
  CASE \E c \in DOMAIN Named : Named[c] = ch -> <<Backslash, CHOOSE c \in DOMAIN Named : Named[c] = ch>>
    [] ch = Backslash -> <<Backslash, Backslash>>
    [] ch \in (0..31 \ Range(Named)) \cup {127} -> <<Backslash, 120>> \o Hex(ch, 2)
    [] ch > 65535 -> <<Backslash, 85>> \o Hex(ch, 8)
    [] ch >= 128 /\ ch <= 65535 -> <<Backslash, 117>> \o Hex(ch, 4)
    [] OTHER -> <<ch>>

\* The character at p as it is put, and where the next one is.
Escaped(s, p, quotes, ascii, printable) ==
  LET r == u8_nextmemchar(s, p) IN
  CASE quotes /\ At(s, p) = Quote -> [put |-> <<Backslash, Quote>>, i |-> p + 1]
    [] At(s, p) = Backslash -> [put |-> <<Backslash, Backslash>>, i |-> p + 1]
    [] OTHER -> [put |-> IF ascii \/ r.ch \notin printable THEN u8_escape_wchar(r.ch)
                         ELSE SubSeq(s, p + 1, r.i), i |-> r.i]

\* Room that is kept for the longest escape sequence and the NUL.
Reserve_faulty == 9

Reserve == 11

\* What is put into a buffer of sz bytes, a NUL last, and how far it got.
u8_escape(sz, s, start, end, quotes, ascii, printable) ==
  LET from[p \in Nat] == [n \in Nat |->
        LET e == Escaped(s, p, quotes, ascii, printable)
            f == from[e.i][n + Len(e.put)]
        IN IF p >= end \/ n >= sz - Reserve THEN [put |-> <<0>>, i |-> p]
           ELSE [put |-> e.put \o f.put, i |-> f.i]]
  IN from[start][0]
===============================================================================
