------------------------------- MODULE IosCalls -------------------------------
(***************************************************************************)
(* The calls of ios.c that are made of other calls: ios_copy, ios_copyall, *)
(* ios_copyuntil and ios_readline, which move bytes from one stream to     *)
(* another, and the calls for UTF-8 characters.                            *)
(*                                                                         *)
(* Two streams of module Ios, from and to, and job, the call under way:    *)
(* each action of a call does what the code does between two looks at the  *)
(* streams. ios_readline's local stream dest is a fresh memory stream; it  *)
(* takes the place of to.                                                  *)
(***************************************************************************)
EXTENDS Bytes, SequencesExt

CONSTANTS
  FromKind, ToKind,   \* Kind of the two streams
  Initial,            \* what from holds at the start
  AllocFails,         \* the allocator may return NULL
  InlSize, BufSize, MostDiv,   \* as in Ios
  MaxSize,            \* bound: how far the client moves in to
  ChunkSize,          \* LINE_CHUNK_SIZE
  Byte, Delim,        \* Delim is also the newline
  Counts, Skips,      \* what the client passes to the calls on from
  Chars,              \* code points it puts into to
  Char,               \* those that from may hold
  CopyCounts          \* the numbers of bytes it asks ios_copy for

U == INSTANCE Utf8

ASSUME IosCallsAssumption ==
  /\ FromKind \in {"str", "static", "file", "pipe"} /\ ToKind \in {"mem", "file", "pipe"}
  /\ AllocFails \in BOOLEAN
  /\ {InlSize, MostDiv, ChunkSize} \subseteq Nat \ {0} /\ BufSize \in Nat \ {0, 1}
  /\ InlSize < BufSize
  /\ MaxSize \in Nat
  /\ Byte \subseteq 0..255 /\ {0, Delim} \subseteq Byte
  /\ Initial \in Seq(Byte)
  /\ FromKind = "static" => Initial # <<>>
  /\ FromKind = "str" /\ AllocFails => Len(Initial) <= InlSize
  /\ Counts \subseteq Nat \ {0} /\ Skips \subseteq Int \ {0} /\ CopyCounts \subseteq Nat
  /\ Chars \subseteq Nat /\ \A wc \in Chars : U!u8_wc_toutf8(wc) \in Seq(Byte)
  /\ Char \subseteq Nat

VARIABLES from, fromCall, to, toCall, job

vars == <<from, fromCall, to, toCall, job>>

ModeOf(kind) == IF kind \in {"mem", "str", "static"} THEN "mem" ELSE "block"

From == INSTANCE Ios WITH
  s <- from, call <- fromCall, Kind <- FromKind, Mode <- ModeOf(FromKind), Modes <- {}, Bufs <- {},
  CanRead <- TRUE, CanWrite <- FALSE, MaxSize <- Len(Initial), Client <- "seeks", IoErrors <- FALSE,
  Newline <- Delim, Payloads <- {}, Chars <- {}, AsksPos <- FALSE

To == INSTANCE Ios WITH
  s <- to, call <- toCall, Kind <- ToKind, Mode <- ModeOf(ToKind), Modes <- {}, Bufs <- {},
  CanRead <- FALSE, CanWrite <- TRUE, Client <- "seeks", IoErrors <- FALSE,
  Initial <- <<>>, Newline <- Delim, Payloads <- {}, Chars <- {}, Counts <- {},
  AsksPos <- FALSE, Skips <- {}

\* A step that does not touch a stream makes an empty call to it.
FromRests == UNCHANGED from /\ From!Did("refused", 0, <<>>, 0)
ToRests == UNCHANGED to /\ To!Did("refused", 0, <<>>, 0)

EOF == -1

Unread == After(from.buf, from.bpos)

\* What from would still give to *p++, and all that may be found in to.
Left == After(From!Contents(from), From!Pos(from))

-------------------------------------------------------------------------------
(* The call under way: which, where in it, the bytes it may still move, those  *)
(* it wrote, the code's local first, what it answers. src, at, dst and pos are *)
(* the two streams as it found them, short tells that a write was: they are    *)
(* for the properties only.                                                    *)

NoJob == [op |-> "none", pc |-> "end", num |-> 0, left |-> 0, total |-> 0, first |-> FALSE,
          ret |-> 0, ch |-> 0, src |-> <<>>, at |-> 0, dst |-> <<>>, pos |-> 0,
          short |-> FALSE]

Idle == job.pc = "end"

\* The client reads on as long as ios_eof does not say end of file.
ios_eof == from.eof

Ready == Idle /\ From!Open /\ To!Open

\* over: the call ends before it begins.
Begins(op, pc, n, over) ==
  /\ Ready
  /\ job' = [NoJob EXCEPT !.op = op, !.pc = IF over THEN "end" ELSE pc,
               !.num = n, !.left = n, !.first = TRUE,
               !.src = IF over THEN <<>> ELSE Left, !.at = From!Pos(from),
               !.dst = To!Contents(to), !.pos = To!Pos(to)]

\* from moves over all it has buffered.
Move_faulty(d) ==
  /\ d # <<>>
  /\ To!Writing(to, d)
  /\ from' = [from EXCEPT !.bpos = Len(from.buf)]
  /\ From!Got("read", Len(d), d)

\* ios_write of the d bytes at the position of from, which moves over them
\* however many were written.
Move(d) ==
  \/ d = <<>> /\ FromRests /\ ToRests
  \/ /\ d # <<>>
     /\ To!Writing(to, d)
     /\ from' = [from EXCEPT !.bpos = @ + Len(d)]
     /\ From!Got("read", Len(d), d)

Prepare(n) ==
  /\ From!Readprep(n)
  /\ From!Did("prep", n, <<>>, From!Avail(from'))

-------------------------------------------------------------------------------
(* ios_copy and ios_copyall. *)

Copying == job.op \in {"copy", "copyall"}

ios_copy(n) == Begins("copy", "prep", n, ios_eof) /\ FromRests /\ ToRests

ios_copyall == Begins("copyall", "prep", 0, ios_eof) /\ FromRests /\ ToRests

CopyPrep ==
  /\ Copying /\ job.pc = "prep"
  /\ Prepare(BufSize \div 2)
  /\ job' = [job EXCEPT !.pc = "move"]
  /\ ToRests

CopyEnd ==
  /\ Copying /\ job.pc = "move" /\ Unread = <<>>
  /\ from' = [from EXCEPT !.eof = TRUE]
  /\ job' = [job EXCEPT !.pc = "end"]
  /\ From!Did("refused", 0, <<>>, 0) /\ ToRests

\* From the start of the buffer.
Wanted_faulty ==
  IF job.op = "copyall" THEN from.buf ELSE First(from.buf, Min2(Len(Unread), job.left))

\* As many as the call was asked for, whatever was written before.
Wanted_faulty2 ==
  IF job.op = "copyall" THEN Unread ELSE First(Unread, Min2(Len(Unread), job.num))

\* What of the unread bytes is to be written next.
Wanted == IF job.op = "copyall" THEN Unread ELSE First(Unread, Min2(Len(Unread), job.left))

\* from moves by what was written, which the loop does not look at.
CopyMove_faulty ==
  /\ Copying /\ job.pc = "move" /\ Unread # <<>>
  /\ To!Writing(to, Unread)
  /\ from' = [from EXCEPT !.bpos = @ + toCall'.ret]
  /\ From!Got("read", toCall'.ret, First(Unread, toCall'.ret))
  /\ job' = [job EXCEPT !.total = @ + toCall'.ret,
               !.pc = IF ios_eof THEN "end" ELSE "prep"]

\* All that is unread is taken off the number asked for.
CopyMove_faulty2 ==
  /\ Copying /\ job.pc = "move" /\ Unread # <<>>
  /\ Move(Wanted)
  /\ job' = [job EXCEPT !.left = @ - Len(Unread), !.total = @ + toCall'.ret,
               !.pc = IF job.op = "copy" /\ job.left = Len(Unread) THEN "end" ELSE "prep"]

\* One round of the loop.
CopyMove ==
  /\ Copying /\ job.pc = "move" /\ Unread # <<>>
  /\ Move(Wanted)
  /\ LET written == toCall'.ret
         left    == IF job.op = "copy" THEN job.left - written ELSE 0
         over    == \/ job.op = "copy" /\ left = 0
                    \/ written < Len(Wanted)
                    \/ ios_eof
     IN job' = [job EXCEPT !.left = left, !.total = @ + written,
                  !.short = written < Len(Wanted),
                  !.pc = IF over THEN "end" ELSE "prep"]

-------------------------------------------------------------------------------
(* ios_copyuntil and ios_readline. *)

ByLine == job.op \in {"until", "line"}

\* Where ios_copyuntil goes when it is over.
Over == IF job.op = "line" THEN "take" ELSE "end"

FirstLook == IF Unread = <<>> THEN "prep" ELSE "look"

ios_copyuntil == Begins("until", FirstLook, 0, ios_eof) /\ FromRests /\ ToRests

ios_readline ==
  /\ Ready /\ ToKind = "mem"
  /\ to' = To!Opened(<<>>) /\ toCall' = [op |-> "open", num |-> 0, bytes |-> <<>>, ret |-> 0]
  /\ job' = [NoJob EXCEPT !.op = "line", !.pc = IF ios_eof THEN "take" ELSE FirstLook,
               !.first = TRUE, !.src = IF ios_eof THEN <<>> ELSE Left, !.at = From!Pos(from)]
  /\ FromRests

UntilPrep ==
  /\ ByLine /\ job.pc = "prep"
  /\ Prepare(ChunkSize)
  /\ job' = [job EXCEPT !.pc = "look", !.first = FALSE]
  /\ ToRests

Delims == {i \in 1..Len(Unread) : Unread[i] = Delim}

\* The rest of the call when written of the n bytes were.
Counted(n, pc) ==
  job' = [job EXCEPT !.total = @ + toCall'.ret, !.pc = pc,
            !.short = @ \/ toCall'.ret < n]

UntilFound ==
  /\ ByLine /\ job.pc = "look" /\ Delims # {}
  /\ Move(First(Unread, Min(Delims)))
  /\ Counted(Min(Delims), Over)

\* Bytes that were buffered before have no delimiter: look at more.
UntilMore ==
  /\ ByLine /\ job.pc = "look" /\ Delims = {} /\ job.first /\ ~ios_eof
  /\ Move(Unread)
  /\ Counted(Len(Unread), "prep")

\* from stays where it is.
UntilNone_faulty ==
  /\ ByLine /\ job.pc = "look" /\ Delims = {} /\ (~job.first \/ ios_eof)
  /\ Unread # <<>> /\ To!Writing(to, Unread)
  /\ from' = [from EXCEPT !.eof = TRUE]
  /\ From!Got("read", Len(Unread), Unread)
  /\ Counted(Len(Unread), Over)

\* There is no second readprep: avail was set to 0 before it is compared with
\* LINE_CHUNK_SIZE. The call ends, and says end of file.
UntilNone ==
  /\ ByLine /\ job.pc = "look" /\ Delims = {} /\ (~job.first \/ ios_eof)
  /\ Unread # <<>> => To!Writing(to, Unread)
  /\ Unread = <<>> => ToRests
  /\ from' = [from EXCEPT !.bpos = Len(from.buf), !.eof = TRUE]
  /\ From!Got(IF Unread = <<>> THEN "prep" ELSE "read", Len(Unread), Unread)
  /\ Counted(Len(Unread), Over)

\* The line is what ios_takebuf answers.
ReadlineTake ==
  /\ job.op = "line" /\ job.pc = "take"
  /\ To!ios_takebuf
  /\ job' = [job EXCEPT !.pc = "end", !.ret = IF toCall'.op = "take" THEN 1 ELSE EOF]
  /\ FromRests

-------------------------------------------------------------------------------
(* ios_getutf8, ios_peekutf8 and ios_pututf8. *)

ByCharacter == job.op \in {"getutf8", "peekutf8"}

ios_getutf8 == Begins("getutf8", "byte", 0, FALSE) /\ FromRests /\ ToRests

ios_peekutf8 == Begins("peekutf8", "byte", 0, FALSE) /\ FromRests /\ ToRests

Answers(ret, ch) == job' = [job EXCEPT !.pc = "end", !.ret = ret, !.ch = ch]

\* A set _eof that ios_getc or ios_peekc believes, also when ios_copyuntil set it
\* too early. The call answers EOF then and from is not asked.
Believed == ios_eof /\ (Unread = <<>> \/ (job.op = "getutf8" /\ from.state # "rd"))

\* The first byte: an ASCII character is all of it.
FirstByte ==
  /\ ByCharacter /\ job.pc = "byte" /\ ~Believed
  /\ IF job.op = "getutf8" THEN From!ios_getc ELSE From!ios_peekc
  /\ LET c == fromCall'.bytes IN
     \/ c = <<>> /\ Answers(EOF, 0)
     \/ c # <<>> /\ c[1] < 128 /\ Answers(1, c[1])
     \/ /\ c # <<>> /\ c[1] >= 128
        /\ job' = [job EXCEPT !.left = U!u8_seqlen(c[1]) - 1,
                     !.pc = IF job.op = "getutf8" THEN "unget" ELSE "fill"]
  /\ ToRests

NoByte ==
  /\ ByCharacter /\ job.pc = "byte" /\ Believed
  /\ Answers(EOF, 0)
  /\ FromRests /\ ToRests

PutBack ==
  /\ ByCharacter /\ job.pc = "unget"
  /\ From!ios_ungetc
  /\ job' = [job EXCEPT !.pc = IF fromCall'.op = "unget" THEN "fill" ELSE "end",
                        !.ret = IF fromCall'.op = "unget" THEN 0 ELSE EOF]
  /\ ToRests

\* sz, here left, is one less than the bytes of the character.
FillCharacter ==
  /\ ByCharacter /\ job.pc = "fill"
  /\ Prepare(job.left)
  /\ IF fromCall'.ret < job.left THEN Answers(EOF, 0)
     ELSE job' = [job EXCEPT !.pc = "decode"]
  /\ ToRests

\* Whether the buffer shows where the character at the position ends.
EndsInside == \E i \in 2..Len(Unread) : U!isutf(Unread[i])

\* u8_nextchar reads on behind the valid bytes when they do not show it; what
\* it finds there is whatever the memory held before.
Decode ==
  /\ ByCharacter /\ job.pc = "decode"
  /\ \E stale \in [1..2 -> Byte] :
       job' = [job EXCEPT !.ch = U!u8_nextmemchar(Unread \o (IF EndsInside THEN <<>> ELSE stale), 0).ch,
                          !.short = ~EndsInside,
                          !.ret = IF job.op = "getutf8" THEN 0 ELSE 1,
                          !.pc = IF job.op = "getutf8" THEN "pass" ELSE "end"]
  /\ FromRests /\ ToRests

\* One byte of the character stays.
PassCharacter_faulty ==
  /\ ByCharacter /\ job.pc = "pass"
  /\ From!Reading("read", job.left)
  /\ job' = [job EXCEPT !.pc = "end", !.ret = 1]
  /\ ToRests

PassCharacter ==
  /\ ByCharacter /\ job.pc = "pass"
  /\ From!Reading("read", job.left + 1)
  /\ job' = [job EXCEPT !.pc = "end", !.ret = 1]
  /\ ToRests

ios_pututf8(wc) ==
  /\ IF wc < 128 THEN To!ios_putc(wc) ELSE To!ios_write(U!u8_wc_toutf8(wc))
  /\ FromRests

-------------------------------------------------------------------------------
(* The client. *)

Reads == {"read", "readall", "getc", "peek"}

FromClient ==
  /\ \/ From!ios_getc \/ From!ios_peekc \/ From!ios_ungetc \/ From!ios_purge \/ From!ios_close
     \/ \E n \in Counts : From!ios_read(n) \/ From!ios_readall(n) \/ From!ios_readprep(n)
     \/ \E k \in Skips : From!ios_skip(k)
  /\ ios_eof => fromCall'.op \notin Reads
  /\ ToRests

ToClient ==
  /\ (\E p \in 0..MaxSize : To!ios_seek(p)) \/ To!ios_set_readonly
  /\ FromRests

Client ==
  /\ Idle
  /\ FromClient \/ ToClient \/ \E wc \in Chars : ios_pututf8(wc)
  /\ job' = NoJob

CallStep ==
  \/ CopyPrep \/ CopyEnd \/ CopyMove
  \/ UntilPrep \/ UntilFound \/ UntilMore \/ UntilNone \/ ReadlineTake
  \/ FirstByte \/ NoByte \/ PutBack \/ FillCharacter \/ Decode \/ PassCharacter

Init == From!Init /\ To!Init /\ job = NoJob

Next ==
  \/ Client
  \/ \E n \in CopyCounts : ios_copy(n)
  \/ ios_copyall \/ ios_copyuntil \/ ios_readline \/ ios_getutf8 \/ ios_peekutf8
  \/ CallStep

\* A call that was made goes on: nothing in it waits for the client.
Spec == Init /\ [][Next]_vars /\ WF_vars(CallStep)

-------------------------------------------------------------------------------
(* What must hold. *)

Passed == SubSeq(job.src, 1, job.total)

\* Both streams and the call under way have their types.
TypeOK ==
  /\ From!TypeOK /\ To!TypeOK
  /\ job.total \in Nat /\ job.left \in Nat /\ job.src \in Seq(Byte)
  /\ job.ret \in {0, 1, EOF} /\ {job.first, job.short} \subseteq BOOLEAN

\* What a copy has put into the other stream at any moment is what the source
\* gave from its position on, in order, nothing left out and nothing twice, laid
\* over what was there from the position on. Once a write came up short this is
\* still so for ios_copy and ios_copyall, which stop there.
InOrder ==
  Copying \/ (ByLine /\ ~job.short /\ ~(job.op = "line" /\ Idle)) =>
    To!Contents(to) = Overlay(job.dst, job.pos, Passed)

\* A copy moves the source by what it wrote, unless a write came up short.
NothingLost ==
  Copying \/ ByLine => (~job.short => From!Pos(from) = job.at + job.total)

\* Without the buffer it should have been opened with, ios_readprep may find no
\* room to read into, which the copies take for the end of file.
HasBuffer == From!InMemory \/ from.maxsize >= BufSize

\* A copy that was not stopped by a short write or for want of a buffer ends with
\* all it was asked for or all there was, and has said end of file only in the
\* second case. A copy up to a delimiter ends behind the first one, never later,
\* and earlier only at what it takes for the end of file.
Complete ==
  Idle /\ ~job.short /\ HasBuffer =>
    LET all == Len(job.src)
        delims == {i \in 1..all : job.src[i] = Delim}
    IN CASE job.op = "copy" -> /\ job.total = Min2(job.num, all)
                               /\ ios_eof => job.total = all
         [] job.op = "copyall" -> job.total = all
         [] ByLine -> \/ job.total \in delims
                      \/ ios_eof /\ job.total \in 0..all
                      /\ \A i \in delims : job.total <= i
         [] OTHER -> TRUE

\* The first character of a string of bytes is complete.
Encodes(bytes, ch) == U!u8_wc_toutf8(ch) # <<>> /\ IsPrefix(U!u8_wc_toutf8(ch), bytes)

\* Behind it another one starts, if there is more: the bytes are valid there.
FollowedWell(bytes, ch) ==
  LET n == Len(U!u8_wc_toutf8(ch)) IN n < Len(bytes) => U!isutf(bytes[n + 1])

\* A character read is passed whole, and one that cannot be had yet, or that is
\* only looked at, leaves the position alone, however the buffer was refilled in
\* between; and where the buffer shows its end it is the character that is there.
CharacterTaken ==
  Idle /\ ByCharacter =>
    \A ch \in Char : Encodes(job.src, ch) =>
      /\ From!Pos(from) = job.at +
           (IF job.op = "getutf8" /\ job.ret = 1 THEN U!u8_charlen(ch) ELSE 0)
      /\ job.ret = 1 /\ ~job.short /\ FollowedWell(job.src, ch) => job.ch = ch

\* Every call comes back.
CallsReturn == ~Idle ~> Idle

\* Whatever the calls made of calls do, each stream stays the array of bytes with
\* a pointer that ios.h describes.
FromPointer == From!PointerSpec
ToPointer == To!PointerSpec

===============================================================================
