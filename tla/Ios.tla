---------------------------------- MODULE Ios ----------------------------------
(***************************************************************************)
(* The buffered streams of src/c/ios.c: memory streams, files and pipes    *)
(* behind one structure, ios_t, and one action for each call of ios.h.     *)
(*                                                                         *)
(* The variable s is the ios_t (its valid bytes buf[0..size) are the       *)
(* sequence s.buf) together with the kernel's side of its descriptor: the  *)
(* bytes of the file (data) and the file offset (off).                     *)
(***************************************************************************)
EXTENDS Bytes

CONSTANTS
  Kind,       \* what the stream is over: "mem", "str", "static", "file", "pipe"
  Mode,       \* bufmode_t the stream is opened with, "mem" for memory streams
  Modes,      \* modes a client may pass to ios_bufmode (bm_mem is not followed)
  CanRead,    \* the client reads the stream (FALSE: stdout)
  CanWrite,   \* FALSE: opened readonly
  Client,     \* how the client mixes reads and writes, see MayWrite below
  IoErrors,   \* reads and writes of the descriptor may fail
  AllocFails, \* the allocator may return NULL
  InlSize,    \* IOS_INLSIZE, the buffer inside the ios_t
  BufSize,    \* IOS_BUFSIZE, the buffer of a stream over a descriptor
  MostDiv,    \* MOST_OF(x) is x - x/16 in the code
  Byte, Newline,
  Initial,    \* what the file, string or static buffer holds at the start
              \* (a string that ios_str finds no memory for is not followed)
  Payloads,   \* the data a client writes
  Chars,      \* the characters it puts
  Counts,     \* the numbers of bytes it asks for
  Bufs,       \* the sizes of the buffers it gives to ios_setbuf, never empty ones
  AsksPos,    \* the client calls ios_pos
  Skips,      \* the offsets it passes to ios_skip
  MaxSize     \* bound: no call moves or grows the stream beyond this position

ASSUME IosAssumption ==
  /\ Kind \in {"mem", "str", "static", "file", "pipe"}
  /\ Mode \in {"none", "line", "block", "mem"}
  /\ Modes \subseteq {"none", "line", "block"}
  /\ Mode = "mem" <=> Kind \in {"mem", "str", "static"}
  /\ {CanRead, CanWrite, AsksPos, IoErrors, AllocFails} \subseteq BOOLEAN
  /\ Kind = "static" => ~CanWrite
  /\ Client \in {"seeks", "inplace", "any"}
  /\ {InlSize, BufSize, MostDiv} \subseteq Nat \ {0} /\ InlSize < BufSize
  /\ Byte \subseteq Nat /\ {0, Newline} \subseteq Byte
  /\ Initial \in Seq(Byte)
  /\ Kind = "static" => Initial # <<>>
  /\ Kind = "str" /\ AllocFails => Len(Initial) <= InlSize
  /\ Payloads \subseteq Seq(Byte) \ {<<>>} /\ Chars \subseteq Byte
  /\ Counts \subseteq Nat \ {0} /\ Bufs \subseteq Nat \ {0}
  /\ Skips \subseteq Int \ {0}
  /\ MaxSize \in Nat

VARIABLES s, call

vars == <<s, call>>

InMemory == Kind \in {"mem", "str", "static"}
Seekable == Kind = "file"
\* ios_fd sets this for files; nothing sets it for a memory stream.
rereadable == Kind = "file"

MostOf(x) == x - (x \div MostDiv)

\* What the last call was asked and what it answered.
Did(op, num, bytes, ret) == call' = [op |-> op, num |-> num, bytes |-> bytes, ret |-> ret]

Avail(t) == Len(t.buf) - t.bpos

-------------------------------------------------------------------------------
(* The descriptor, as ios.c uses it. *)

\* lseek to position p fails, and moves nothing, on a pipe or before the start.
Lseek(t, p) == IF Seekable /\ p >= 0 THEN [t EXCEPT !.off = p] ELSE t

\* _os_write_all of d at the offset.
KernelWrite(t, d) == [t EXCEPT !.data = Overlay(@, t.off, d), !.off = @ + Len(d)]

\* How much of n bytes _os_write_all gets out: all, unless an error ends it.
\* Short writes, EAGAIN and EINTR are retried inside.
Accepted(n) == IF IoErrors THEN 0..n ELSE {n}

Readable(t) == Max2(0, Len(t.data) - t.off)

-------------------------------------------------------------------------------
(* Internal functions of ios.c. *)

\* Operators whose name ends in _faulty (or _faulty2 ...) are the definition that
\* follows them with one plausible mistake in it; README.md says which property
\* catches which.

\* Only what lies before the position is written.
FlushDirty_faulty(t, nw) ==
  LET out == KernelWrite(IF t.state = "rd" THEN Lseek(t, t.off - Len(t.buf)) ELSE t,
                         First(t.buf, Min2(nw, t.bpos)))
  IN IF t.state = "rd" THEN [out EXCEPT !.ndirty = 0]
     ELSE [out EXCEPT !.buf = After(@, t.ndirty), !.bpos = 0, !.ndirty = 0]

\* ndirty is not reset.
FlushDirty_faulty2(t, nw) ==
  LET out == KernelWrite(t, First(t.buf, Min2(nw, Len(t.buf))))
  IN [out EXCEPT !.buf = After(@, t.ndirty), !.bpos = 0]

\* The position is not reset.
FlushDirty_faulty3(t, nw) ==
  LET out == KernelWrite(t, First(t.buf, Min2(nw, Len(t.buf))))
  IN [out EXCEPT !.ndirty = 0]

\* No lseek before or after writing what was modified in place.
FlushDirty_faulty4(t, nw) ==
  LET out == KernelWrite(t, First(t.buf, Min2(nw, Len(t.buf))))
  IN [out EXCEPT !.buf = After(@, t.ndirty), !.bpos = 0, !.ndirty = 0]

\* ios_flush when there is something to write and somewhere to write it; nw
\* bytes get out. What did not get out is forgotten all the same. With ndirty
\* beyond size, stale bytes are written or size wraps below zero.
FlushDirty(t, nw) ==
  LET start == IF t.state = "rd" THEN Lseek(t, t.off - Len(t.buf)) ELSE t
      out   == KernelWrite(start, First(t.buf, Min2(nw, Len(t.buf))))
      clean == [out EXCEPT !.ndirty = 0, !.fpos = -1,
                  !.status = IF t.ndirty > Len(t.buf) THEN "corrupt" ELSE @]
  IN CASE t.state = "rd" -> Lseek(clean, clean.off + Len(t.buf) - nw)
       [] t.state = "wr" -> [Lseek(clean, clean.off + t.bpos - nw) EXCEPT
                               !.buf = After(@, t.ndirty), !.bpos = 0]
       [] OTHER -> clean

Flush(t, nw) == IF t.ndirty = 0 \/ InMemory THEN t ELSE FlushDirty(t, nw)

\* The numbers of bytes that a flush may get out.
Flushed(t) == Accepted(t.ndirty)

\* memcpy to the current position, then _write_update_pos.
Put(t, d) ==
  [t EXCEPT !.buf = Overlay(@, t.bpos, d),
            !.bpos = @ + Len(d),
            !.ndirty = Max2(@, t.bpos + Len(d))]

\* The sizes that buffer may have after _buf_realloc(t, sz): the inline buffer
\* serves small streams, a larger size is allocated, which may fail.
Realloc(t, sz) ==
  IF t.inl /\ sz <= InlSize THEN {InlSize}
  ELSE IF sz <= t.maxsize THEN {t.maxsize}
  ELSE {sz} \cup (IF AllocFails THEN {t.maxsize} ELSE {})

Resized(t, cap) == [t EXCEPT !.maxsize = cap, !.inl = @ /\ cap <= InlSize]

\* The buffer sizes _write_grow tries for a total of need bytes: the first of
\* the doublings of maxsize that is enough.
Doubled(t, need) ==
  LET base == IF t.maxsize = 0 THEN 8 ELSE 2 * t.maxsize
  IN {m \in need..(2 * need + 8) :
        \E k \in 0..need : m = base * 2^k /\ (k = 0 \/ m < 2 * need)}

Capacities(t, n) ==
  IF t.bpos + n <= t.maxsize THEN {t.maxsize}
  ELSE UNION {Realloc(t, m) : m \in Doubled(t, t.bpos + n)}

\* Copied to the end of the valid data, not to the position.
WriteGrow_faulty(t, d, cap) ==
  Put([Resized(t, cap) EXCEPT !.bpos = Len(t.buf)], First(d, Min2(Len(d), cap - t.bpos)))

\* _write_grow, in a buffer that got cap bytes: as much as fits is written.
WriteGrow(t, d, cap) == Put(Resized(t, cap), First(d, Min2(Len(d), cap - t.bpos)))

\* Up to the first newline (memchr for memrchr).
LineEnds_faulty(d) ==
  {j \in 0..Len(d) : /\ j > 0 => d[j] = Newline
                     /\ j = 0 => \A i \in 1..Len(d) : d[i] # Newline
                     /\ \A i \in 1..(j - 1) : d[i] # Newline}

\* Ends of the prefix of d that line mode writes at once: up to the last newline.
LineEnds(d) ==
  {j \in 0..Len(d) : /\ j > 0 => d[j] = Newline
                     /\ \A i \in (j + 1)..Len(d) : d[i] # Newline}

\* ios_write of data that fits. In line mode the lines, which end at j, go
\* through a recursive call in block mode and are flushed.
BufferedWrite(t, d, j, nw) ==
  IF t.bm = "line" /\ j > 0 THEN Put(Flush(Put(t, First(d, j)), nw), After(d, j))
  ELSE Put(t, d)

\* What ios_write does first: without rereadable, turning from reading to
\* writing drops the buffer.
ForWriting(t) ==
  CASE t.state = "none" -> [t EXCEPT !.state = "wr"]
    [] t.state = "rd" /\ ~rereadable -> [t EXCEPT !.buf = <<>>, !.bpos = 0]
    [] OTHER -> t

Space(t) == IF t.state = "rd" THEN Avail(t) ELSE t.maxsize - t.bpos

\* bpos is not reset.
Drained_faulty(t, nw) ==
  [Flush([t EXCEPT !.bpos = Len(t.buf)], nw) EXCEPT !.buf = <<>>, !.state = "rd"]

\* Start of _ios_read over a descriptor once the buffer is used up.
Drained(t, nw) ==
  [Flush([t EXCEPT !.bpos = Len(t.buf)], nw) EXCEPT
     !.buf = <<>>, !.bpos = 0, !.state = "rd", !.fpos = -1]

\* The loop of _ios_read after k bytes went to the caller through the buffer,
\* b of them from the last refill, which left g more.
Refilled(t, k, b, g) ==
  [t EXCEPT !.off = @ + k + g,
            !.buf = Slice(t.data, t.off + k - b, b + g),
            !.bpos = b]

-------------------------------------------------------------------------------
(* The state of an ios_t, its position and its contents for the client. *)

Stream ==
  [bm : {"none", "line", "block", "mem"}, state : {"none", "rd", "wr"},
   buf : Seq(Byte), maxsize : Nat, bpos : Nat, ndirty : Nat, fpos : Nat \cup {-1},
   readonly : BOOLEAN, eof : BOOLEAN, inl : BOOLEAN,
   data : Seq(Byte), off : Nat, status : {"open", "closed", "hung", "corrupt", "lost"}]

\* ios_pos, were the file position never cached.
Pos(t) ==
  CASE InMemory -> t.bpos
    [] ~InMemory /\ t.state = "wr" -> t.off + t.bpos
    [] OTHER -> t.off - Avail(t)

\* Where in the file the buffer starts, by its state.
BufferAt(t) == IF t.state = "rd" THEN t.off - Len(t.buf) ELSE t.off

\* The bytes a client should find: the file under the dirty part of buf.
Contents(t) ==
  CASE InMemory -> t.buf
    [] ~InMemory /\ t.ndirty = 0 -> t.data
    [] OTHER -> Overlay(t.data, BufferAt(t), First(t.buf, Min2(t.ndirty, Len(t.buf))))

\* A stream just opened: ios_mem, ios_str, ios_static_buffer, ios_file, ios_fd.
Opened(data) ==
  LET fresh == [bm |-> Mode, state |-> "none", buf |-> <<>>, maxsize |-> 0,
                bpos |-> 0, ndirty |-> 0, fpos |-> -1, readonly |-> ~CanWrite,
                eof |-> FALSE, inl |-> TRUE, data |-> data, off |-> 0,
                status |-> "open"]
  IN CASE Kind = "mem" -> [fresh EXCEPT !.maxsize = InlSize]
       [] Kind = "str" -> [fresh EXCEPT !.state = "wr", !.buf = Initial,
                             !.ndirty = Len(Initial),
                             !.maxsize = Max2(InlSize, Len(Initial)),
                             !.inl = Len(Initial) <= InlSize]
       [] Kind = "static" -> [fresh EXCEPT !.buf = Initial,
                                !.maxsize = Len(Initial), !.inl = FALSE]
       [] OTHER -> [fresh EXCEPT !.maxsize = BufSize, !.inl = FALSE]

\* _buf_realloc may find no memory for the buffer of a descriptor: buf is NULL.
Openings(data) ==
  {Opened(data)} \cup
  (IF AllocFails /\ ~InMemory THEN {[Opened(data) EXCEPT !.maxsize = 0, !.inl = TRUE]} ELSE {})

Init ==
  /\ s \in Openings(IF InMemory THEN <<>> ELSE Initial)
  /\ call = [op |-> "open", num |-> 0, bytes |-> <<>>, ret |-> 0]

-------------------------------------------------------------------------------
(***************************************************************************)
(* How the client mixes reads and writes of one stream:                    *)
(*   "seeks"    it seeks or flushes between them, as for a C FILE (on a    *)
(*              memory stream: it never writes after reading), likewise    *)
(*              before it makes a stream readonly; it does not lengthen a  *)
(*              memory stream that said end of file, nor move in a pipe    *)
(*              except over bytes buffered for reading; and it prints only *)
(*              at the end of the bytes it has buffered for writing, as    *)
(*              ios_vprintf destroys the one behind what it prints         *)
(*   "inplace"  it may also write over bytes of a file that it has already *)
(*              buffered for reading, and peeks at none of them meanwhile  *)
(*   "any"      in any order ("you can do any operation in any state")     *)
(***************************************************************************)
\* A stream whose offset has run away from its position is followed no further
\* than twice MaxSize.
Open == s.status = "open" /\ s.off <= 2 * MaxSize

MayWrite(n) ==
  /\ Open /\ Pos(s) + n <= MaxSize
  /\ \/ Client = "any"
     \/ s.state # "rd" \/ s.buf = <<>>
     \/ Client = "inplace" /\ Kind = "file" /\ n <= Avail(s)

MayPrint == Client = "any" \/ s.state # "wr" \/ s.bpos = Len(s.buf)

MayRead ==
  Open /\ CanRead /\ (InMemory \/ Client = "any" \/ s.state # "wr" \/ s.buf = <<>>)

MayGrow == Client = "any" \/ ~s.eof

\* Of a pipe, only the bytes buffered for reading can be moved over.
MayMove == Open /\ (Kind # "pipe" \/ Client = "any" \/ s.state = "rd")

MayPrep == MayRead /\ (InMemory \/ Client = "any" \/ s.state # "rd" \/ s.ndirty = 0)

-------------------------------------------------------------------------------
(* Writing. *)

\* ios_write of d to the stream t, by its mode. bm_mem: grow the buffer and copy.
WriteMem(t, d) ==
  LET o == ForWriting(t) IN
  /\ t.bm = "mem"
  /\ \E cap \in Capacities(o, Len(d)) :
       /\ s' = WriteGrow(o, d, cap)
       /\ Did("write", 0, d, Min2(Len(d), cap - o.bpos))

\* bm_none: straight to the descriptor, wherever its offset is.
WriteUnbuffered(t, d) ==
  LET o == ForWriting(t) IN
  /\ t.bm = "none"
  /\ \E nw \in Accepted(Len(d)) :
       /\ s' = KernelWrite([o EXCEPT !.fpos = -1], First(d, nw))
       /\ Did("write", 0, d, nw)

\* The data fits into the buffer.
WriteBuffered(t, d) ==
  LET o == ForWriting(t) IN
  /\ t.bm \in {"line", "block"}
  /\ Len(d) <= Space(o)
  /\ \E j \in LineEnds(d) :
       \E nw \in Flushed(Put(o, First(d, j))) :
         /\ s' = BufferedWrite(o, d, j, nw)
         /\ Did("write", 0, d, Len(d))

\* It does not: flush, then write large data directly and call ios_write again
\* for the rest. When the flush frees nothing that call recurs for ever.
WriteThrough(t, d) ==
  LET o == ForWriting(t) IN
  /\ t.bm \in {"line", "block"}
  /\ Len(d) > Space(o)
  /\ \E nw \in Flushed(o) :
       LET f == Flush([o EXCEPT !.state = "wr"], nw) IN
       \/ /\ Len(d) > MostOf(f.maxsize)
          /\ \E nd \in Accepted(Len(d)) :
               /\ s' = KernelWrite(f, First(d, nd))
               /\ Did("write", 0, d, nd)
       \/ /\ Len(d) <= MostOf(f.maxsize) /\ Len(d) <= Space(f)
          /\ \E j \in LineEnds(d) :
               \E nl \in Flushed(Put(f, First(d, j))) :
                 /\ s' = BufferedWrite(f, d, j, nl)
                 /\ Did("write", 0, d, Len(d))
       \/ /\ Len(d) <= MostOf(f.maxsize) /\ Len(d) > Space(f)
          /\ s' = [f EXCEPT !.status = "hung"]
          /\ Did("write", 0, d, 0)

\* ios_write, whoever calls it.
Writing(t, d) ==
  \/ t.readonly /\ Did("refused", 0, <<>>, 0) /\ s' = t
  \/ /\ ~t.readonly
     /\ WriteMem(t, d) \/ WriteUnbuffered(t, d) \/ WriteBuffered(t, d) \/ WriteThrough(t, d)

ios_write(d) == MayWrite(Len(d)) /\ Writing(s, d)

\* ios_putc and ios_vprintf put their bytes into the buffer themselves when the
\* stream t is being written, and flush all of it after a newline in line mode.
PutDirectly(t, d) ==
  /\ Did("write", 0, d, Len(d))
  /\ IF t.bm = "line" /\ \E i \in 1..Len(d) : d[i] = Newline
     THEN \E nw \in Flushed(Put(t, d)) : s' = Flush(Put(t, d), nw)
     ELSE s' = Put(t, d)

HasRoom == s.state = "wr" /\ s.bpos < s.maxsize /\ s.bm # "none"

ios_putc(c) ==
  \/ MayWrite(1) /\ HasRoom /\ PutDirectly(s, <<c>>)
  \/ ~HasRoom /\ ios_write(<<c>>)

\* vsnprintf prints as much of d as there is room for, and a NUL behind it: of
\* the valid bytes those it meets are gone, wherever they were to go.
Printed(t, d) ==
  LET n == Min2(Len(d), t.maxsize - t.bpos - 1)
  IN [t EXCEPT !.buf = First(Overlay(@, t.bpos, First(d, n) \o <<0>>), Len(@))]

ios_vprintf(d) ==
  /\ MayPrint /\ MayWrite(Len(d))
  /\ \/ HasRoom /\ s.bpos + Len(d) < s.maxsize /\ PutDirectly(Printed(s, d), d)
     \/ HasRoom /\ s.bpos + Len(d) >= s.maxsize /\ Writing(Printed(s, d), d)
     \/ ~HasRoom /\ Writing(s, d)

-------------------------------------------------------------------------------
(* Reading. op is "read" (ios_read), "readall" or "getc". *)

Got(op, n, bytes) == Did(op, n, bytes, Len(bytes))

ReadBuffered(op, n) ==
  /\ n <= Avail(s)
  /\ s' = [s EXCEPT !.bpos = @ + n, !.state = "rd"]
  /\ Got(op, n, Slice(s.buf, s.bpos, n))

\* All that a memory stream has left.
ReadRest(op, n) ==
  /\ n > Avail(s) /\ InMemory
  /\ s' = [s EXCEPT !.bpos = Len(s.buf), !.state = "rd", !.eof = @ \/ Avail(s) = 0]
  /\ Got(op, n, After(s.buf, s.bpos))

\* More than fits comfortably: one read, or a loop of them for ios_readall,
\* into the caller's memory.
ReadDirect(op, n) ==
  /\ n > Avail(s) /\ ~InMemory
  /\ n - Avail(s) > MostOf(s.maxsize)
  /\ \E nw \in Flushed(s) :
       LET f == Drained(s, nw)
           most == Min2(n - Avail(s), Readable(f))
       IN \E k \in 0..most :
            /\ k < most => IoErrors \/ (op = "read" /\ k > 0)
            /\ s' = [f EXCEPT !.off = @ + k, !.eof = @ \/ k = 0]
            /\ Got(op, n, After(s.buf, s.bpos) \o Slice(f.data, f.off, k))

\* Refill the buffer until the caller has its bytes, or until end of file.
ReadRefill(op, n) ==
  /\ n > Avail(s) /\ ~InMemory
  /\ n - Avail(s) <= MostOf(s.maxsize)
  /\ \E nw \in Flushed(s) :
       LET f == Drained(s, nw)
           want == n - Avail(s)
       IN \/ \E b \in 1..want, g \in 0..f.maxsize :
               /\ b + g <= f.maxsize /\ want + g <= Readable(f)
               /\ s' = Refilled(f, want, b, g)
               /\ Got(op, n, After(s.buf, s.bpos) \o Slice(f.data, f.off, want))
          \/ \E k \in 0..Min2(want - 1, Readable(f)) :
               /\ k = Readable(f) \/ IoErrors
               /\ s' = [f EXCEPT !.off = @ + k, !.eof = TRUE]
               /\ Got(op, n, After(s.buf, s.bpos) \o Slice(f.data, f.off, k))

Reading(op, n) ==
  ReadBuffered(op, n) \/ ReadRest(op, n) \/ ReadDirect(op, n) \/ ReadRefill(op, n)

ios_read(n) == MayRead /\ Reading("read", n)

ios_readall(n) == MayRead /\ Reading("readall", n)

\* A set _eof is believed, unless the buffer has bytes for a reader.
ios_getc ==
  /\ MayRead
  /\ IF s.eof /\ ~(s.state = "rd" /\ Avail(s) > 0)
     THEN UNCHANGED s /\ Got("getc", 1, <<>>)
     ELSE Reading("getc", 1)

\* ios_readprep: leave the writing state; make room, by moving the unread bytes
\* to the front or by a larger buffer; read once at the end of the buffer, but
\* not when the larger one cannot be had.
\* fpos is not reset.
Prepared(nw) ==
  [(IF s.state = "wr" /\ ~InMemory
    THEN [Flush(s, nw) EXCEPT !.buf = <<>>, !.bpos = 0] ELSE s) EXCEPT !.state = "rd"]

\* The memmove is forgotten.
MakeRoom_faulty(p, n) ==
  IF p.maxsize >= p.bpos + n THEN {p}
  ELSE {[p EXCEPT !.buf = First(@, Avail(p)), !.bpos = 0]}

MakeRoom(p, n) ==
  IF p.maxsize >= p.bpos + n THEN {p}
  ELSE IF n <= p.maxsize /\ Avail(p) <= p.maxsize \div 4
  THEN {[p EXCEPT !.buf = After(@, p.bpos), !.bpos = 0]}
  ELSE {Resized(p, cap) : cap \in Realloc(p, p.bpos + n)}

Readprep(n) ==
  \E nw \in Flushed(s) :
    LET p == Prepared(nw) IN
    IF Avail(p) >= n \/ InMemory THEN s' = p
    ELSE \E r \in MakeRoom(p, n) :
      LET most == IF r.maxsize < r.bpos + n THEN 0
                  ELSE Min2(r.maxsize - Len(r.buf), Readable(r)) IN
      \E g \in 0..most :
        /\ g = 0 => most = 0 \/ IoErrors
        /\ s' = [r EXCEPT !.buf = @ \o Slice(r.data, r.off, g), !.off = @ + g]

ios_readprep(n) ==
  /\ MayPrep
  /\ Readprep(n)
  /\ Did("prep", n, <<>>, Avail(s'))

ios_peekc ==
  /\ MayPrep
  /\ IF Avail(s) > 0 \/ s.eof THEN UNCHANGED s ELSE Readprep(1)
  /\ Got("peek", 1, First(After(s'.buf, s'.bpos), Min2(1, Avail(s'))))

\* "You can only do an unget after a matching get." At the front of the buffer
\* the bytes move up by one.
ios_ungetc ==
  /\ Open /\ call.op = "getc" /\ call.bytes # <<>> /\ s.state # "wr"
  /\ LET c == call.bytes[1] IN
     IF s.bpos > 0
     THEN /\ s' = [s EXCEPT !.bpos = @ - 1, !.buf[s.bpos] = c, !.eof = FALSE]
          /\ Did("unget", 0, <<>>, c)
     ELSE \E cap \in (IF Len(s.buf) = s.maxsize THEN Realloc(s, 2 * s.maxsize)
                      ELSE {s.maxsize}) :
            IF cap = Len(s.buf) /\ cap > 0 THEN UNCHANGED s /\ Did("refused", 0, <<>>, -1)
            ELSE /\ s' = [Resized(s, cap) EXCEPT !.buf = <<c>> \o @, !.eof = FALSE]
                 /\ Did("unget", 0, <<>>, c)

-------------------------------------------------------------------------------
(* Moving, asking, and the rest of the calls. *)

ios_seek(p) ==
  /\ Open /\ p <= MaxSize
  /\ IF InMemory
     THEN IF p > Len(s.buf)
          THEN s' = [s EXCEPT !.eof = FALSE] /\ Did("seek", p, <<>>, -1)
          ELSE s' = [s EXCEPT !.eof = FALSE, !.bpos = p] /\ Did("seek", p, <<>>, 0)
     ELSE \E nw \in Flushed(s) :
            LET f == [Flush(s, nw) EXCEPT !.eof = FALSE] IN
            IF Seekable
            THEN /\ s' = [Lseek(f, p) EXCEPT !.buf = <<>>, !.bpos = 0]
                 /\ Did("seek", p, <<>>, 0)
            ELSE s' = f /\ Did("seek", p, <<>>, -1)

ios_seek_end ==
  /\ Open /\ (Kind # "pipe" \/ Client = "any")
  /\ IF InMemory
     THEN s' = [s EXCEPT !.eof = TRUE, !.bpos = Len(s.buf)] /\ Did("seek_end", 0, <<>>, 0)
     ELSE \E nw \in Flushed(s) :
            LET f == [Flush(s, nw) EXCEPT !.eof = TRUE] IN
            IF Seekable
            THEN /\ s' = [Lseek(f, Len(f.data)) EXCEPT !.buf = <<>>, !.bpos = 0]
                 /\ Did("seek_end", 0, <<>>, 0)
            ELSE s' = f /\ Did("seek_end", 0, <<>>, -1)

\* Moving back does not clear _eof.
SkipWithin_faulty(k) ==
  /\ k <= Avail(s) /\ -k <= s.bpos
  /\ s' = [s EXCEPT !.bpos = @ + k]
  /\ Did("skip", k, <<>>, 0)

\* Moving back is not checked against the start of the buffer.
SkipWithin_faulty2(k) ==
  /\ k <= Avail(s)
  /\ s' = [s EXCEPT !.bpos = @ + k]
  /\ Did("skip", k, <<>>, 0)

\* ios_skip inside the buffer, or past it by flushing and an lseek that
\* accounts for where the offset stands.
SkipWithin(k) ==
  /\ k <= Avail(s) /\ -k <= s.bpos
  /\ s' = [s EXCEPT !.bpos = @ + k, !.eof = @ /\ k > 0]
  /\ Did("skip", k, <<>>, 0)

SkipBeyond(k) ==
  /\ ~(k <= Avail(s) /\ -k <= s.bpos) /\ ~InMemory
  /\ \E nw \in Flushed(s) :
       LET f == Flush(s, nw)
           to == f.off + k + (CASE f.state = "wr" -> f.bpos
                                [] f.state = "rd" -> -Avail(f)
                                [] OTHER -> 0)
       IN IF Seekable /\ to >= 0
          THEN /\ s' = [Lseek(f, to) EXCEPT !.buf = <<>>, !.bpos = 0, !.eof = FALSE]
               /\ Did("skip", k, <<>>, 0)
          ELSE s' = f /\ Did("skip", k, <<>>, -1)

ios_skip(k) ==
  /\ MayMove /\ Pos(s) + k <= MaxSize
  /\ \/ SkipWithin(k)
     \/ SkipBeyond(k)
     \/ /\ ~(k <= Avail(s) /\ -k <= s.bpos) /\ InMemory
        /\ UNCHANGED s /\ Did("skip", k, <<>>, -1)

\* The file offset comes from fpos when that is set, and is kept there.
FilePos == IF s.fpos = -1 /\ Seekable THEN s.off ELSE s.fpos

ios_pos ==
  /\ Open /\ AsksPos
  /\ IF InMemory
     THEN UNCHANGED s /\ Did("pos", 0, <<>>, s.bpos)
     ELSE /\ s' = [s EXCEPT !.fpos = FilePos]
          /\ Did("pos", 0, <<>>,
                 IF FilePos = -1 THEN -1
                 ELSE CASE s.state = "wr" -> FilePos + s.bpos
                        [] s.state = "rd" -> FilePos - Avail(s)
                        [] OTHER -> FilePos)

\* ios_trunc does nothing to a file. Bytes that a memory stream grows by are
\* not initialised, and _eof stays as it was.
ios_trunc(n) ==
  /\ Open /\ InMemory /\ n <= MaxSize
  /\ n <= Len(s.buf) \/ MayGrow
  /\ IF n <= Len(s.buf)
     THEN s' = [s EXCEPT !.buf = First(@, n), !.bpos = Min2(@, n)] /\ Did("trunc", n, <<>>, n)
     ELSE \E cap \in Realloc(s, n) :
            IF cap < n THEN UNCHANGED s /\ Did("refused", n, <<>>, Len(s.buf))
            ELSE \E junk \in [1..(n - Len(s.buf)) -> Byte] :
                   /\ s' = [Resized(s, cap) EXCEPT !.buf = @ \o junk]
                   /\ Did("trunc", n, <<>>, n)

ios_flush ==
  /\ Open
  /\ \E nw \in Flushed(s) :
       /\ s' = Flush(s, nw)
       /\ Did("flush", 0, <<>>, IF InMemory \/ nw = s.ndirty THEN 0 ELSE -1)

\* _buf_init at the end of ios_takebuf. Over a descriptor it sets buf to NULL
\* first, and _buf_realloc leaves it there when maxsize, which stays, is enough
\* or no other buffer can be had (the client's, ownbuf = 0, is not copied from).
Retaken(t) ==
  LET none == [t EXCEPT !.buf = <<>>, !.bpos = 0]
      lost == t.maxsize >= BufSize \/ AllocFails \/ (~t.inl /\ t.buf # <<>>)
  IN IF t.bm \in {"mem", "none"} THEN {[none EXCEPT !.maxsize = InlSize, !.inl = TRUE]}
     ELSE (IF t.maxsize < BufSize THEN {[none EXCEPT !.maxsize = BufSize, !.inl = FALSE]} ELSE {})
          \cup (IF lost THEN {[none EXCEPT !.status = "lost"]} ELSE {})

\* The buffer becomes the client's. state, ndirty and _eof of a memory stream
\* stay. The inline buffer is copied, if that can be had. Whoever gave the stream
\* a buffer by ios_setbuf made it one byte larger than he said: a NUL is put
\* behind the bytes. Without a buffer there is nowhere to put it.
ios_takebuf ==
  /\ Open /\ s.maxsize > 0 /\ Kind # "static" /\ (InMemory \/ Client = "any")
  /\ \E nw \in Flushed(s) :
       LET f == Flush(s, nw) IN
       \/ s' \in Retaken(f) /\ Did("take", 0, f.buf, 0)
       \/ f.inl /\ AllocFails /\ s' = f /\ Did("refused", 0, <<>>, 0)

\* The client gives the stream another buffer, which takes over what fits. What
\* does not is lost, unread bytes of a file, too: only the client that does as it
\* likes gives one that is too small.
ios_setbuf(n) ==
  /\ Open /\ (Len(s.buf) <= n \/ Client = "any")
  /\ \E nw \in Flushed(s) :
       s' = [Flush(s, nw) EXCEPT !.buf = First(@, Min2(n, Len(@))), !.bpos = Min2(@, n),
                                 !.maxsize = n, !.inl = FALSE]
  /\ Did("setbuf", n, <<>>, 0)

ios_bufmode(m) ==
  /\ Open
  /\ IF InMemory THEN UNCHANGED s /\ Did("refused", 0, <<>>, -1)
     ELSE s' = [s EXCEPT !.bm = m] /\ Did("bufmode", 0, <<>>, 0)

ios_set_readonly ==
  /\ Open /\ ~s.readonly
  /\ InMemory \/ Client = "any" \/ s.state # "rd" \/ s.buf = <<>>
  /\ \E nw \in Flushed(s) :
       s' = [Flush(s, nw) EXCEPT !.state = "none", !.readonly = TRUE]
  /\ Did("readonly", 0, <<>>, 0)

ios_purge ==
  /\ Open /\ CanRead
  /\ s' = [s EXCEPT !.bpos = IF s.state = "rd" THEN Len(s.buf) ELSE @]
  /\ Did("purge", 0, <<>>, 0)

ios_close ==
  /\ Open
  /\ \E nw \in Flushed(s) :
       s' = [Flush(s, nw) EXCEPT !.buf = <<>>, !.bpos = 0, !.maxsize = 0,
                                 !.inl = TRUE, !.status = "closed"]
  /\ Did("close", 0, <<>>, 0)

\* The program opens the same file, or makes a stream like the first, again. A
\* pipe cannot be had again.
Reopen ==
  /\ s.status = "closed" /\ Kind # "pipe"
  /\ \E trunc \in {Kind = "file" /\ CanWrite, FALSE} :
       s' \in Openings(IF trunc THEN <<>> ELSE s.data)
  /\ call' = [op |-> "open", num |-> 0, bytes |-> <<>>, ret |-> 0]

Next ==
  \/ \E d \in Payloads : ios_write(d) \/ ios_vprintf(d)
  \/ \E c \in Chars : ios_putc(c)
  \/ \E n \in Counts : ios_read(n) \/ ios_readall(n) \/ ios_readprep(n)
  \/ ios_getc \/ ios_peekc \/ ios_ungetc
  \/ \E p \in 0..MaxSize : ios_seek(p) \/ ios_trunc(p)
  \/ \E k \in Skips : ios_skip(k)
  \/ \E m \in Modes : ios_bufmode(m)
  \/ \E n \in Bufs : ios_setbuf(n)
  \/ ios_seek_end \/ ios_pos \/ ios_flush \/ ios_takebuf \/ ios_set_readonly
  \/ ios_purge \/ ios_close \/ Reopen

Spec == Init /\ [][Next]_vars

-------------------------------------------------------------------------------
(* What must hold. *)

\* Every field of the stream has its type.
TypeOK ==
  /\ s \in Stream
  /\ call.num \in Int /\ call.ret \in Int /\ call.bytes \in Seq(Byte)

\* The position never passes the valid bytes, nor these the allocated ones, in
\* whatever order a client makes its calls: on this the memcpy, read and write
\* calls of ios.c rely to stay inside the buffer.
BufferBounds == s.bpos <= Len(s.buf) /\ Len(s.buf) <= s.maxsize

\* "size: length of valid data in buf, >=ndirty", wherever it may still be
\* flushed: what is to be written is there to be written.
DirtyIsValid == ~InMemory => s.ndirty <= Len(s.buf)

\* No call recurses for ever, and no flush makes size wrap below zero or writes
\* bytes beyond it.
NeverStuck == s.status \notin {"hung", "corrupt"}

\* The comment on state: "the state only indicates where the underlying file
\* position is relative to the buffer. reading: at the end. writing: at the
\* beginning." So while nothing is dirty, a buffer being read ends at the offset
\* and holds the bytes of the file that lie before it.
BufferIsView ==
  (Kind = "file" /\ s.state = "rd" /\ s.ndirty = 0) =>
     /\ Len(s.buf) <= s.off
     /\ s.off > Len(s.data) => s.buf = <<>>
     /\ s.off <= Len(s.data) => s.buf = Slice(s.data, s.off - Len(s.buf), Len(s.buf))

\* ios_eof says end of file only when the client has had every byte.
EofIsEnd == s.eof => Pos(s) >= Len(Contents(s))

\* A stream in line mode (stdout) never keeps a finished line back: where the
\* bytes to be written have a newline, the file has it already.
LinesGoOut ==
  s.bm = "line" /\ Mode = "line" =>
    \A i \in 1..Min2(s.ndirty, Len(s.buf)) :
      s.buf[i] = Newline => /\ BufferAt(s) + i <= Len(s.data)
                            /\ s.data[BufferAt(s) + i] = Newline

\* When ios_flush answers 0, all that was written and not lost before is in the
\* file, and the position has not moved.
FlushWrites ==
  [][ call'.op = "flush" /\ call'.ret = 0 =>
        /\ InMemory \/ s'.data = Contents(s)
        /\ Pos(s') = Pos(s) ]_vars

\* The promise of ios.h: every call is a sequence of *p++ on the contents.
Pointer == INSTANCE ByteStream WITH
  contents <- Contents(s), pos <- Pos(s),
  Durable <- ~InMemory, Scarce <- InMemory /\ AllocFails

PointerSpec == Pointer!Spec

===============================================================================
