------------------------------- MODULE Utf8Text -------------------------------
(***************************************************************************)
(* A client of utf8.c with one string in memory and an index into it, as   *)
(* the routines expect one: at the first byte of a character or at the     *)
(* end.  Each call of utf8.h that deals with bytes is an action.           *)
(***************************************************************************)
EXTENDS Utf8

CONSTANTS
  Texts,      \* the texts, as sequences of characters
  Sought,     \* characters that are searched for
  Rooms,      \* sizes of buffers for wide characters
  Sizes,      \* sizes of buffers for escape sequences, "must be at least 12"
  Spoilers,   \* bytes that may get into a string in place of others
  Printable   \* the characters iswprint accepts, in the C locale that is never left

ASSUME Utf8Assumption ==
  /\ \A t \in Texts : t \in Seq(Chr)
  /\ Rooms \subseteq Nat /\ Spoilers \subseteq 0..255
  /\ \A n \in Sizes : n \in Nat /\ n > Reserve
  /\ \A ch \in Printable : ch \in Int /\ 32 <= ch /\ ch <= 126

VARIABLES
  mem,    \* the bytes of the string, and its NUL
  i,      \* the index
  esc,    \* what u8_escape has put out since the client called something else
  back,   \* and what u8_unescape makes of it
  call    \* [op, num, ret, bytes]: the last call

vars == <<mem, i, esc, back, call>>

Length == Len(mem) - 1

\* A call that moves the index to p and answers r.
Calls(op, num, p, r) ==
  /\ call' = [op |-> op, num |-> num, ret |-> r, bytes |-> <<>>]
  /\ i' = p /\ esc' = <<>> /\ back' = <<>>
  /\ UNCHANGED mem

Inc == i < Length /\ Calls("inc", 0, u8_inc(mem, i), 0)
Dec == i > 0 /\ Calls("dec", 0, u8_dec(mem, i), 0)
Offset == \E n \in 0..u8_strlen(mem) : Calls("offset", n, u8_offset(mem, n), 0)

Nextchar ==
  i < Length /\ LET r == u8_nextchar(mem, i) IN Calls("nextchar", 0, r.i, r.ch)

Nextmemchar ==
  i < Length /\ LET r == u8_nextmemchar(mem, i) IN Calls("nextmemchar", 0, r.i, r.ch)

Charnum == Calls("charnum", 0, i, u8_charnum(mem, i))
Strlen == Calls("strlen", 0, i, u8_strlen(mem))
Toucs == \E sz \in Rooms : Calls("toucs", sz, i, u8_toucs(sz, mem, i))

\* NULL is the end of what was searched.
Strchr == \E ch \in Sought :
  LET r == u8_strchr(mem, ch) IN Calls("strchr", ch, IF r.at = NULL THEN Length ELSE r.at, r.charn)

Memchr == \E ch \in Sought :
  LET r == u8_memchr(mem, ch, i) IN Calls("memchr", ch, IF r.at = NULL THEN i ELSE r.at, r.charn)

Memrchr == \E ch \in Sought :
  LET at == u8_memrchr(mem, ch, i) IN Calls("memrchr", ch, IF at = NULL THEN i ELSE at, 0)

\* To wide characters, in a buffer that is always large enough, and back.
Rewrite ==
  LET wcs == u8_toucs(Length + 1, mem, Length) IN
  /\ mem' = u8_toutf8(u8_codingsize(wcs), wcs) \o <<0>>
  /\ i' = 0 /\ esc' = <<>> /\ back' = <<>>
  /\ call' = [op |-> "toutf8", num |-> 0, ret |-> wcs, bytes |-> <<>>]

Turn ==
  /\ mem' = u8_reverse(mem, Length) \o <<0>>
  /\ i' = 0 /\ esc' = <<>> /\ back' = <<>>
  /\ call' = [op |-> "reverse", num |-> 0, ret |-> 0, bytes |-> <<>>]

\* One buffer full; the client goes on where u8_escape stopped, and unescapes what
\* it has so far.
Escape ==
  \E sz \in Sizes, quotes, ascii \in BOOLEAN :
    LET r == u8_escape(sz, mem, i, Length, quotes, ascii, Printable)
        all == esc \o SubSeq(r.put, 1, Len(r.put) - 1)
    IN
    /\ i < Length
    /\ i' = r.i
    /\ esc' = all /\ back' = u8_unescape(Len(all) + 1, all \o <<0>>)
    /\ call' = [op |-> "escape", num |-> sz, ret |-> Len(r.put), bytes |-> r.put]
    /\ UNCHANGED mem

Isvalid == Calls("isvalid", 0, i, u8_isvalid(mem, Length))

Init ==
  /\ \E t \in Texts : mem = Encoded(t) \o <<0>>
  /\ i = 0 /\ esc = <<>> /\ back = <<>>
  /\ call = [op |-> "open", num |-> 0, ret |-> 0, bytes |-> <<>>]

Next ==
  \/ Inc \/ Dec \/ Offset \/ Nextchar \/ Nextmemchar \/ Charnum \/ Strlen \/ Toucs
  \/ Strchr \/ Memchr \/ Memrchr \/ Rewrite \/ Turn \/ Escape \/ Isvalid

Spec == Init /\ [][Next]_vars

-------------------------------------------------------------------------------
(* UTF-8 by its definition, without tables and shifts.                     *)

Firsts(bytes) == {p \in DOMAIN bytes : bytes[p] < 128 \/ bytes[p] >= 192}

\* The tag bits of a first byte, and how many numbers its free bits make, by the
\* length of the character.
Tag == <<0, 192, 224, 240, 248, 252>>
Free == <<128, 32, 16, 8, 4, 2>>

\* The least character that needs the length.
Least == <<0, 128, 2048, 65536, 2097152, 67108864>>

\* The number in the free bits of a character's bytes.
CodePoint(bs) ==
  LET value[j \in 1..Len(bs)] ==
        IF j = 1 THEN bs[1] - Tag[Len(bs)] ELSE value[j - 1] * 64 + (bs[j] - 128)
  IN value[Len(bs)]

\* Where the character that starts at p ends: before the next one.
Ending(bytes, p) ==
  Min({q \in p..Len(bytes) : q = Len(bytes) \/ q + 1 \in Firsts(bytes)})

CharsOf(bytes) ==
  LET first(j) == CHOOSE p \in Firsts(bytes) : Cardinality({q \in Firsts(bytes) : q <= p}) = j
  IN [j \in 1..Cardinality(Firsts(bytes)) |->
        CodePoint(SubSeq(bytes, first(j), Ending(bytes, first(j))))]

\* The shortest spelling of a character of up to 31 bits.
Spells(bs) ==
  LET n == Len(bs)
  IN /\ n \in 1..6 /\ bs[1] \in Tag[n]..(Tag[n] + Free[n] - 1)
     /\ \A j \in 2..n : bs[j] \in 128..191
     /\ CodePoint(bs) >= Least[n]

\* Nothing but such spellings.
WellFormed(bytes) ==
  /\ bytes # <<>> => 1 \in Firsts(bytes)
  /\ \A p \in Firsts(bytes) : Spells(SubSeq(bytes, p, Ending(bytes, p)))

-------------------------------------------------------------------------------
\* A string has no NUL but its last byte, and the index stays at a character or at
\* the end.
TypeOK ==
  /\ mem # <<>> /\ \A p \in 1..Len(mem) : mem[p] \in 0..255 /\ (mem[p] = 0 <=> p = Len(mem))
  /\ i \in 0..Length /\ isutf(At(mem, i))
  /\ \A p \in 1..Len(esc) : esc[p] \in 1..127

\* utf8.h speaks of characters: every call does to the text what its name says
\* about characters, whatever their lengths in bytes, there and back.
Text == INSTANCE CharText WITH
  text <- CharsOf(SubSeq(mem, 1, Length)),
  k <- Len(CharsOf(SubSeq(mem, 1, i))),
  said <- CharsOf(back),
  call <- [op |-> call.op, num |-> call.num, ret |-> call.ret]

TextSpec == Text!Spec

\* "Determine whether a sequence of bytes is valid UTF-8": shortest sequences of
\* up to six bytes, as the tests in the code say, and nothing else, whatever byte
\* of a string is replaced.
ValidMeansWellFormed ==
  call.op = "open" =>
    \A p \in 1..Length, b \in Spoilers :
      LET s == [mem EXCEPT ![p] = b] IN u8_isvalid(s, Length) = WellFormed(Front(s))

\* u8_escape stays in its buffer, though it looks only before each character, and
\* gets on with it.
EscapeFits ==
  /\ call.op = "escape" => call.ret <= call.num /\ Last(call.bytes) = 0
  /\ call.op = "escape" => call.ret > 1
===============================================================================
