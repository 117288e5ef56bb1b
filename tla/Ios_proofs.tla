------------------------------ MODULE Ios_proofs ------------------------------
(***************************************************************************)
(* Streams with any client and any failure: types, and that no call of     *)
(* ios.c leaves the buffer.  Then memory streams, which are the array of   *)
(* bytes and the pointer that ios.h promises.  Then streams over a         *)
(* descriptor that may fail, with a client that keeps its duties: what is  *)
(* to be written is there to be written, no call is stuck, and a flush     *)
(* that answers 0 has written.                                             *)
(***************************************************************************)
EXTENDS Ios, Bytes_proofs, SequenceTheorems, TLAPS

(***************************************************************************)
(* Lemmas about byte strings.                                              *)
(***************************************************************************)

\* memcpy of bytes yields bytes and reaches as far as the longer of the two.
LEMMA ByteOverlay ==
  ASSUME NEW c \in Seq(Byte), NEW at \in Nat, NEW d \in Seq(Byte)
  PROVE  /\ Overlay(c, at, d) \in Seq(Byte)
         /\ Len(Overlay(c, at, d)) =
              IF d = <<>> THEN Len(c) ELSE Max2(Len(c), at + Len(d))
<1>1. 0 \in Byte
  BY IosAssumption
<1>2. QED
  BY <1>1, OverlayBytes

\* What is put behind the bytes of c is not seen in them.
LEMMA OverlayAtEnd ==
  ASSUME NEW c \in Seq(Byte), NEW d \in Seq(Byte)
  PROVE  First(Overlay(c, Len(c), d), Len(c)) = c
<1> DEFINE o == Overlay(c, Len(c), d)
           f == First(o, Len(c))
<1>1. Len(c) \in Nat /\ Len(d) \in Nat /\ 0 \in Byte
  BY LenProperties, IosAssumption
<1>2. /\ o \in Seq(Byte) /\ Len(c) \in 0..Len(o)
      /\ \A i \in 1..Len(c) : o[i] = c[i]
  <2>1. /\ o \in Seq(Byte)
        /\ Len(o) = IF d = <<>> THEN Len(c) ELSE Max2(Len(c), Len(c) + Len(d))
        /\ \A i \in 1..Len(o) :
             o[i] = IF i > Len(c) /\ i <= Len(c) + Len(d) THEN d[i - Len(c)]
                    ELSE IF i <= Len(c) THEN c[i] ELSE 0
    BY <1>1, OverlayBytes
  <2> HIDE DEF o
  <2>2. QED
    BY <1>1, <2>1 DEF Max2
<1> HIDE DEF o
<1>3. f \in Seq(Byte) /\ Len(f) = Len(c) /\ \A i \in 1..Len(c) : f[i] = o[i]
  BY <1>2, FirstBytes
<1>4. QED
  BY <1>2, <1>3, SeqEqual DEF f, o

(***************************************************************************)
(* The invariant of the buffer. The inline buffer is never too large, and  *)
(* only a stream without a buffer has room for nothing: ios_ungetc relies  *)
(* on that when it doubles the size.                                       *)
(***************************************************************************)
Good(t) ==
  /\ t.bpos <= Len(t.buf) /\ Len(t.buf) <= t.maxsize
  /\ t.inl => t.maxsize <= InlSize
  /\ t.maxsize = 0 => t.inl

LEMMA PutGood ==
  ASSUME NEW t \in Stream, Good(t), NEW d \in Seq(Byte), t.bpos + Len(d) <= t.maxsize
  PROVE  Put(t, d) \in Stream /\ Good(Put(t, d))
<1>1. Len(d) \in Nat /\ Len(t.buf) \in Nat
  BY LenProperties DEF Stream
<1>2. d = <<>> => Len(d) = 0
  OBVIOUS
<1>3. /\ Overlay(t.buf, t.bpos, d) \in Seq(Byte)
      /\ Len(Overlay(t.buf, t.bpos, d)) =
           IF d = <<>> THEN Len(t.buf) ELSE Max2(Len(t.buf), t.bpos + Len(d))
  BY ByteOverlay DEF Stream
<1>4. t.bpos + Len(d) \in Nat /\ Max2(t.ndirty, t.bpos + Len(d)) \in Nat
  BY <1>1 DEF Stream, Max2
<1>5. Put(t, d) \in Stream
  BY Zenon, <1>3, <1>4 DEF Put, Stream
<1>6. QED
  BY <1>1, <1>2, <1>3, <1>5, SMTT(20) DEF Put, Good, Stream, Max2

(***************************************************************************)
(* The descriptor and ios_flush.                                           *)
(***************************************************************************)

LEMMA LseekGood ==
  ASSUME NEW t \in Stream, Good(t), NEW p \in Int
  PROVE  /\ Lseek(t, p) \in Stream /\ Good(Lseek(t, p))
         /\ \A f \in DOMAIN t \ {"off"} : Lseek(t, p)[f] = t[f]
         /\ Lseek(t, p).off = IF Seekable /\ p >= 0 THEN p ELSE t.off
<1>1. CASE Seekable /\ p >= 0
  <2>1. p \in Nat
    BY <1>1
  <2>2. [t EXCEPT !.off = p] \in Stream
    BY Zenon, <2>1 DEF Stream
  <2>3. /\ \A f \in DOMAIN t \ {"off"} : [t EXCEPT !.off = p][f] = t[f]
        /\ [t EXCEPT !.off = p].off = p
    BY Zenon DEF Stream
  <2>4. Good([t EXCEPT !.off = p])
    BY <2>2 DEF Good, Stream
  <2>5. QED
    BY <1>1, <2>2, <2>3, <2>4 DEF Lseek
<1>2. CASE ~(Seekable /\ p >= 0)
  BY <1>2 DEF Lseek
<1>3. QED
  BY <1>1, <1>2

LEMMA KernelWriteGood ==
  ASSUME NEW t \in Stream, Good(t), NEW d \in Seq(Byte)
  PROVE  /\ KernelWrite(t, d) \in Stream /\ Good(KernelWrite(t, d))
         /\ \A f \in DOMAIN t \ {"off", "data"} : KernelWrite(t, d)[f] = t[f]
<1>1. Overlay(t.data, t.off, d) \in Seq(Byte)
  BY ByteOverlay DEF Stream
<1>2. t.off + Len(d) \in Nat
  BY LenProperties DEF Stream
<1>3. KernelWrite(t, d) \in Stream
  BY Zenon, <1>1, <1>2 DEF KernelWrite, Stream
<1>4. \A f \in DOMAIN t \ {"off", "data"} : KernelWrite(t, d)[f] = t[f]
  BY Zenon DEF KernelWrite, Stream
<1>5. Good(KernelWrite(t, d))
  BY DEF KernelWrite, Good, Stream
<1>6. QED
  BY <1>3, <1>4, <1>5

\* What ios_flush leaves alone, and that it never moves the position on.
FlushKeeps(t, u) ==
  /\ u.maxsize = t.maxsize /\ u.bpos <= t.bpos
  /\ \A f \in {"bm", "state", "readonly", "eof", "inl"} : u[f] = t[f]

LEMMA FlushGood ==
  ASSUME NEW t \in Stream, Good(t), NEW nw \in Nat
  PROVE  /\ Flush(t, nw) \in Stream /\ Good(Flush(t, nw))
         /\ FlushKeeps(t, Flush(t, nw))
<1>1. CASE t.ndirty = 0 \/ InMemory
  <2>1. t.bpos \in Nat
    BY DEF Stream
  <2>2. QED
    BY <1>1, <2>1 DEF Flush, FlushKeeps
<1>2. CASE ~(t.ndirty = 0 \/ InMemory)
  <2> DEFINE start == IF t.state = "rd" THEN Lseek(t, t.off - Len(t.buf)) ELSE t
             put   == First(t.buf, Min2(nw, Len(t.buf)))
             out   == KernelWrite(start, put)
             st    == IF t.ndirty > Len(t.buf) THEN "corrupt" ELSE out.status
             clean == [out EXCEPT !.ndirty = 0, !.fpos = -1, !.status = st]
             rd    == Lseek(clean, clean.off + Len(t.buf) - nw)
             moved == Lseek(clean, clean.off + t.bpos - nw)
             wr    == [moved EXCEPT !.buf = After(@, t.ndirty), !.bpos = 0]
  <2>1. /\ Len(t.buf) \in Nat /\ Min2(nw, Len(t.buf)) \in 0..Len(t.buf)
        /\ t.off \in Nat /\ t.bpos \in Nat /\ t.ndirty \in Nat /\ t.buf \in Seq(Byte)
    BY LenProperties DEF Stream, Min2
  <2>2. /\ start \in Stream /\ Good(start)
        /\ \A f \in DOMAIN t \ {"off"} : start[f] = t[f]
    <3>1. t.off - Len(t.buf) \in Int
      BY <2>1
    <3>2. /\ Lseek(t, t.off - Len(t.buf)) \in Stream /\ Good(Lseek(t, t.off - Len(t.buf)))
          /\ \A f \in DOMAIN t \ {"off"} : Lseek(t, t.off - Len(t.buf))[f] = t[f]
      BY <3>1, LseekGood
    <3>3. QED
      BY <3>2
  <2>3. put \in Seq(Byte)
    BY <2>1, FirstBytes
  <2> HIDE DEF start, put
  <2>4. /\ out \in Stream /\ Good(out)
        /\ \A f \in DOMAIN start \ {"off", "data"} : out[f] = start[f]
    BY <2>2, <2>3, KernelWriteGood
  <2>5. DOMAIN start = DOMAIN t
        /\ {"bm", "state", "readonly", "eof", "inl", "maxsize", "bpos", "buf"}
             \subseteq DOMAIN t \ {"off", "data"}
    BY <2>2 DEF Stream
  <2>6. \A f \in {"bm", "state", "readonly", "eof", "inl", "maxsize", "bpos", "buf"} :
          out[f] = t[f]
    BY <2>2, <2>4, <2>5
  <2> HIDE DEF out
  <2>7. out.status \in {"open", "closed", "hung", "corrupt", "lost"}
    BY <2>4 DEF Stream
  <2>8. st \in {"open", "closed", "hung", "corrupt", "lost"}
    BY <2>7
  <2> HIDE DEF st
  <2>9. clean \in Stream
    BY Zenon, <2>4, <2>8 DEF Stream
  <2>10. \A f \in {"bm", "state", "readonly", "eof", "inl", "maxsize", "bpos", "buf"} :
           clean[f] = t[f]
    <3>1. \A f \in DOMAIN out \ {"ndirty", "fpos", "status"} : clean[f] = out[f]
      BY Zenon
    <3>2. {"bm", "state", "readonly", "eof", "inl", "maxsize", "bpos", "buf"}
             \subseteq DOMAIN out \ {"ndirty", "fpos", "status"}
      BY <2>4 DEF Stream
    <3>3. QED
      BY <2>6, <3>1, <3>2
  <2> HIDE DEF clean
  <2>11. Good(clean) /\ clean.off \in Nat
    BY <2>9, <2>10 DEF Good, Stream
  <2>12. clean.off + Len(t.buf) - nw \in Int /\ clean.off + t.bpos - nw \in Int
    BY <2>1, <2>11
  <2>13. /\ rd \in Stream /\ Good(rd) /\ moved \in Stream /\ Good(moved)
         /\ \A f \in DOMAIN clean \ {"off"} : rd[f] = clean[f] /\ moved[f] = clean[f]
    BY <2>9, <2>11, <2>12, LseekGood
  <2>14. {"bm", "state", "readonly", "eof", "inl", "maxsize", "bpos", "buf"}
           \subseteq DOMAIN clean \ {"off"}
    BY <2>9 DEF Stream
  <2>15. \A f \in {"bm", "state", "readonly", "eof", "inl", "maxsize", "bpos", "buf"} :
           rd[f] = t[f] /\ moved[f] = t[f]
    BY <2>10, <2>13, <2>14
  <2> HIDE DEF rd, moved
  <2>16. /\ After(t.buf, t.ndirty) \in Seq(Byte)
         /\ Len(After(t.buf, t.ndirty)) \in 0..Len(t.buf)
    <3>1. /\ After(t.buf, t.ndirty) \in Seq(Byte)
          /\ Len(After(t.buf, t.ndirty)) =
               IF t.ndirty <= Len(t.buf) THEN Len(t.buf) - t.ndirty ELSE 0
      BY <2>1, AfterBytes
    <3>2. QED
      BY <2>1, <3>1
  <2>17. wr \in Stream
    BY Zenon, <2>13, <2>15, <2>16 DEF Stream
  <2>18. /\ wr.buf = After(t.buf, t.ndirty) /\ wr.bpos = 0
         /\ wr.bm = t.bm /\ wr.state = t.state /\ wr.readonly = t.readonly
         /\ wr.eof = t.eof /\ wr.inl = t.inl /\ wr.maxsize = t.maxsize
    BY <2>13, <2>15 DEF Stream
  <2> HIDE DEF wr
  <2>19. Good(wr) /\ FlushKeeps(t, wr)
    BY <2>1, <2>16, <2>18 DEF Good, FlushKeeps, Stream
  <2>20. FlushKeeps(t, rd) /\ FlushKeeps(t, clean)
    BY <2>1, <2>10, <2>15 DEF FlushKeeps
  <2>21. Flush(t, nw) = CASE t.state = "rd" -> rd
                          [] t.state = "wr" -> wr
                          [] OTHER -> clean
    BY <1>2 DEF Flush, FlushDirty, start, put, out, st, clean, rd, moved, wr
  <2>22. QED
    BY <2>9, <2>11, <2>13, <2>17, <2>19, <2>20, <2>21
<1>3. QED
  BY <1>1, <1>2

(***************************************************************************)
(* The size of the buffer.                                                 *)
(***************************************************************************)

\* _buf_realloc never shrinks, and a failed one changes nothing.
LEMMA ReallocGrows ==
  ASSUME NEW t \in Stream, Good(t), NEW sz \in Nat, NEW cap \in Realloc(t, sz)
  PROVE  cap \in Nat /\ cap >= t.maxsize /\ (cap >= sz \/ cap = t.maxsize)
BY IosAssumption DEF Realloc, Good, Stream

LEMMA CapacitiesGrow ==
  ASSUME NEW t \in Stream, Good(t), NEW n \in Nat, NEW cap \in Capacities(t, n)
  PROVE  cap \in Nat /\ cap >= t.maxsize
<1>1. t.maxsize \in Nat /\ t.bpos + n \in Nat
  BY DEF Stream
<1>2. CASE t.bpos + n <= t.maxsize
  BY <1>1, <1>2 DEF Capacities
<1>3. CASE ~(t.bpos + n <= t.maxsize)
  <2>1. PICK m \in Doubled(t, t.bpos + n) : cap \in Realloc(t, m)
    BY <1>3 DEF Capacities
  <2>2. m \in Nat
    BY <1>1, <2>1 DEF Doubled
  <2>3. QED
    BY <2>1, <2>2, ReallocGrows
<1>4. QED
  BY <1>2, <1>3

LEMMA ResizedGood ==
  ASSUME NEW t \in Stream, Good(t), NEW cap \in Nat, cap >= t.maxsize
  PROVE  /\ Resized(t, cap) \in Stream /\ Good(Resized(t, cap))
         /\ Resized(t, cap).maxsize = cap
         /\ \A f \in DOMAIN t \ {"maxsize", "inl"} : Resized(t, cap)[f] = t[f]
<1>1. (t.inl /\ cap <= InlSize) \in BOOLEAN
  OBVIOUS
<1>2. Resized(t, cap) \in Stream
  BY Zenon, <1>1 DEF Resized, Stream
<1>3. /\ Resized(t, cap).maxsize = cap
      /\ Resized(t, cap).inl = (t.inl /\ cap <= InlSize)
      /\ \A f \in DOMAIN t \ {"maxsize", "inl"} : Resized(t, cap)[f] = t[f]
  BY Zenon DEF Resized, Stream
<1>4. {"bpos", "buf"} \subseteq DOMAIN t \ {"maxsize", "inl"}
  BY DEF Stream
<1>5. Resized(t, cap).bpos = t.bpos /\ Resized(t, cap).buf = t.buf
  BY <1>3, <1>4
<1>6. t.maxsize \in Nat /\ Len(t.buf) \in Nat /\ InlSize \in Nat
  BY IosAssumption, LenProperties DEF Stream
<1>7. /\ t.bpos <= Len(t.buf) /\ Len(t.buf) <= cap
      /\ cap = 0 => t.inl /\ cap <= InlSize
  BY <1>6 DEF Good
<1>8. (t.inl /\ cap <= InlSize) => cap <= InlSize
  OBVIOUS
<1>9. Good(Resized(t, cap))
  BY Zenon, <1>3, <1>5, <1>7, <1>8 DEF Good
<1>10. QED
  BY <1>2, <1>3, <1>9

LEMMA WriteGrowGood ==
  ASSUME NEW t \in Stream, Good(t), NEW d \in Seq(Byte), NEW cap \in Nat, cap >= t.maxsize
  PROVE  WriteGrow(t, d, cap) \in Stream /\ Good(WriteGrow(t, d, cap))
<1> DEFINE n == Min2(Len(d), cap - t.bpos)
<1>1. /\ t.bpos \in Nat /\ t.maxsize \in Nat /\ Len(t.buf) \in Nat /\ Len(d) \in Nat
      /\ t.bpos <= cap /\ Len(t.buf) <= cap
  BY LenProperties DEF Stream, Good
<1>2. n \in 0..Len(d) /\ t.bpos + n <= cap
  BY <1>1 DEF Min2
<1>3. First(d, n) \in Seq(Byte) /\ Len(First(d, n)) = n
  BY <1>2, FirstBytes
<1>4. /\ Resized(t, cap) \in Stream /\ Good(Resized(t, cap))
      /\ Resized(t, cap).maxsize = cap /\ Resized(t, cap).bpos = t.bpos
  <2>1. "bpos" \in DOMAIN t \ {"maxsize", "inl"}
    BY DEF Stream
  <2>2. QED
    BY <1>1, <2>1, ResizedGood
<1>5. QED
  BY <1>2, <1>3, <1>4, PutGood DEF WriteGrow

(***************************************************************************)
(* Writing.                                                                *)
(***************************************************************************)

LEMMA ForWritingGood ==
  ASSUME NEW t \in Stream, Good(t)
  PROVE  /\ ForWriting(t) \in Stream /\ Good(ForWriting(t))
         /\ ForWriting(t).maxsize = t.maxsize
<1>1. CASE t.state = "none"
  <2>1. ForWriting(t) = [t EXCEPT !.state = "wr"]
    BY <1>1 DEF ForWriting
  <2>2. [t EXCEPT !.state = "wr"] \in Stream
    BY Zenon DEF Stream
  <2>3. QED
    BY <2>1, <2>2 DEF Good, Stream
<1>2. CASE t.state = "rd" /\ ~rereadable
  <2>1. ForWriting(t) = [t EXCEPT !.buf = <<>>, !.bpos = 0]
    BY <1>2 DEF ForWriting
  <2>2. <<>> \in Seq(Byte) /\ 0 \in Nat /\ Len(<<>>) = 0
    BY EmptySeq
  <2>3. [t EXCEPT !.buf = <<>>, !.bpos = 0] \in Stream
    BY Zenon, <2>2 DEF Stream
  <2>4. QED
    BY <2>1, <2>2, <2>3 DEF Good, Stream
<1>3. CASE t.state # "none" /\ ~(t.state = "rd" /\ ~rereadable)
  BY <1>3 DEF ForWriting
<1>4. QED
  BY <1>1, <1>2, <1>3

\* What fits into Space(t) fits into the buffer.
LEMMA SpaceFits ==
  ASSUME NEW t \in Stream, Good(t), NEW n \in Nat, n <= Space(t)
  PROVE  t.bpos + n <= t.maxsize
BY LenProperties DEF Stream, Good, Space, Avail

LEMMA BufferedWriteGood ==
  ASSUME NEW t \in Stream, Good(t), NEW d \in Seq(Byte), t.bpos + Len(d) <= t.maxsize,
         NEW j \in 0..Len(d), NEW nw \in Nat
  PROVE  BufferedWrite(t, d, j, nw) \in Stream /\ Good(BufferedWrite(t, d, j, nw))
<1>1. CASE t.bm = "line" /\ j > 0
  <2> DEFINE p == Put(t, First(d, j))
             f == Flush(p, nw)
  <2>1. /\ t.bpos \in Nat /\ t.maxsize \in Nat /\ Len(d) \in Nat /\ j \in Nat
        /\ t.bpos + j <= t.maxsize
    BY LenProperties DEF Stream
  <2>2. /\ First(d, j) \in Seq(Byte) /\ Len(First(d, j)) = j
        /\ After(d, j) \in Seq(Byte) /\ Len(After(d, j)) = Len(d) - j
    BY <2>1, FirstBytes, AfterBytes
  <2>3. p \in Stream /\ Good(p)
    BY <2>1, <2>2, PutGood
  <2>4. p.bpos = t.bpos + j /\ p.maxsize = t.maxsize
    BY <2>2 DEF Put, Stream
  <2> HIDE DEF p
  <2>5. f \in Stream /\ Good(f) /\ f.maxsize = p.maxsize /\ f.bpos <= p.bpos
    BY <2>3, FlushGood DEF FlushKeeps
  <2> HIDE DEF f
  <2>6. f.bpos + Len(After(d, j)) <= f.maxsize
    <3>1. f.bpos \in Nat /\ f.maxsize \in Nat
      BY <2>5 DEF Stream
    <3>2. QED
      BY <2>1, <2>2, <2>4, <2>5, <3>1
  <2>7. Put(f, After(d, j)) \in Stream /\ Good(Put(f, After(d, j)))
    BY <2>2, <2>5, <2>6, PutGood
  <2>8. QED
    BY <1>1, <2>7 DEF BufferedWrite, f, p
<1>2. CASE ~(t.bm = "line" /\ j > 0)
  BY <1>2, PutGood DEF BufferedWrite
<1>3. QED
  BY <1>1, <1>2

(***************************************************************************)
(* The invariant, and one lemma for each call of ios.h: it is kept.        *)
(***************************************************************************)
IInv == TypeOK /\ Good(s)

\* The part of IInv about the last call.
CallOK == call.num \in Int /\ call.ret \in Int /\ call.bytes \in Seq(Byte)

LEMMA NoBytes == <<>> \in Seq(Byte) /\ Len(<<>>) = 0
  BY EmptySeq

LEMMA DidOK ==
  ASSUME NEW op, NEW num \in Int, NEW bytes \in Seq(Byte), NEW ret \in Int,
         Did(op, num, bytes, ret)
  PROVE  CallOK'
BY DEF Did, CallOK

LEMMA DidQuietly ==
  ASSUME NEW op, NEW num \in Int, NEW ret \in Int, Did(op, num, <<>>, ret)
  PROVE  CallOK'
<1>1. <<>> \in Seq(Byte)
  BY NoBytes
<1>2. QED
  BY <1>1, DidOK

LEMMA GotOK ==
  ASSUME NEW op, NEW num \in Int, NEW bytes \in Seq(Byte), Got(op, num, bytes)
  PROVE  CallOK'
BY LenProperties, DidOK DEF Got

LEMMA AcceptedNat == \A n \in Nat : Accepted(n) \subseteq 0..n
  BY DEF Accepted

\* What is neither in the buffer nor a size does not matter to Good.
LEMMA GoodKept ==
  ASSUME NEW t \in Stream, Good(t), NEW u \in Stream,
         u.bpos = t.bpos, u.buf = t.buf, u.maxsize = t.maxsize, u.inl = t.inl
  PROVE  Good(u)
BY DEF Good

\* Nor is Good lost when the position and the bytes stay within the old sizes.
LEMMA GoodWithin ==
  ASSUME NEW t \in Stream, Good(t), NEW u \in Stream,
         u.maxsize = t.maxsize, u.inl = t.inl,
         u.bpos <= Len(u.buf), Len(u.buf) <= Len(t.buf)
  PROVE  Good(u)
<1>1. Len(u.buf) \in Nat /\ Len(t.buf) \in Nat /\ t.maxsize \in Nat
  BY LenProperties DEF Stream
<1>2. QED
  BY <1>1 DEF Good

LEMMA NextInv ==
  ASSUME s' \in Stream, Good(s'), CallOK'
  PROVE  IInv'
BY DEF IInv, TypeOK, CallOK, Good

LEMMA StaysInv ==
  ASSUME IInv, UNCHANGED s, CallOK'
  PROVE  IInv'
<1>1. s' \in Stream /\ s' = s
  BY DEF IInv, TypeOK
<1>2. Good(s')
  BY <1>1 DEF IInv
<1>3. QED
  BY <1>1, <1>2, NextInv

LEMMA OpenedGood ==
  ASSUME NEW data \in Seq(Byte)
  PROVE  Opened(data) \in Stream /\ Good(Opened(data))
<1>0. Len(Initial) \in Nat /\ Initial \in Seq(Byte) /\ <<>> \in Seq(Byte)
  BY IosAssumption, LenProperties, NoBytes
<1> DEFINE fresh == [bm |-> Mode, state |-> "none", buf |-> <<>>, maxsize |-> 0,
              bpos |-> 0, ndirty |-> 0, fpos |-> -1, readonly |-> ~CanWrite,
              eof |-> FALSE, inl |-> TRUE, data |-> data, off |-> 0,
              status |-> "open"]
           mem  == [fresh EXCEPT !.maxsize = InlSize]
           str  == [fresh EXCEPT !.state = "wr", !.buf = Initial,
                           !.ndirty = Len(Initial),
                           !.maxsize = Max2(InlSize, Len(Initial)),
                           !.inl = Len(Initial) <= InlSize]
           stat == [fresh EXCEPT !.buf = Initial,
                              !.maxsize = Len(Initial), !.inl = FALSE]
           fd   == [fresh EXCEPT !.maxsize = BufSize, !.inl = FALSE]
<1>1. fresh \in Stream /\ fresh.bpos = 0 /\ fresh.buf = <<>> /\ fresh.inl = TRUE
  <2>1. Mode \in {"none", "line", "block", "mem"} /\ CanWrite \in BOOLEAN
    BY IosAssumption
  <2>2. QED
    BY <1>0, <2>1 DEF Stream
<1> HIDE DEF fresh
<1>2. /\ InlSize \in Nat \ {0} /\ BufSize \in Nat \ {0} /\ Max2(InlSize, Len(Initial)) \in Nat
      /\ InlSize <= Max2(InlSize, Len(Initial)) /\ Len(Initial) <= Max2(InlSize, Len(Initial))
      /\ Len(Initial) <= InlSize => Max2(InlSize, Len(Initial)) = InlSize
      /\ (Len(Initial) <= InlSize) \in BOOLEAN
  BY <1>0, IosAssumption DEF Max2
<1>3. mem \in Stream /\ str \in Stream /\ stat \in Stream /\ fd \in Stream
  BY Zenon, <1>0, <1>1, <1>2 DEF Stream
<1>4. Good(mem) /\ Good(str) /\ (Kind = "static" => Good(stat)) /\ Good(fd)
  <2>1. /\ mem.bpos = 0 /\ mem.buf = <<>> /\ mem.maxsize = InlSize
        /\ str.bpos = 0 /\ str.buf = Initial
        /\ str.maxsize = Max2(InlSize, Len(Initial))
        /\ str.inl = (Len(Initial) <= InlSize)
        /\ stat.bpos = 0 /\ stat.buf = Initial
        /\ stat.maxsize = Len(Initial) /\ stat.inl = FALSE
        /\ fd.bpos = 0 /\ fd.buf = <<>> /\ fd.maxsize = BufSize /\ fd.inl = FALSE
    BY Zenon, <1>1 DEF Stream
  <2>2. Len(<<>>) = 0
    BY NoBytes
  <2> HIDE DEF mem, str, stat, fd
  <2>3. Good(mem) /\ Good(fd)
    BY <1>2, <2>1, <2>2 DEF Good
  <2>4. str.inl => Len(Initial) <= InlSize
    BY Zenon, <2>1
  <2>5. Good(str)
    BY <1>0, <1>2, <2>1, <2>4 DEF Good
  <2>6. Kind = "static" => Good(stat)
    <3>1. Kind = "static" => Len(Initial) # 0
      BY <1>0, IosAssumption, EmptySeq
    <3>2. QED
      BY <1>0, <2>1, <3>1 DEF Good
  <2>7. QED
    BY <2>3, <2>5, <2>6
<1>5. /\ Opened(data) \in {mem, str, stat, fd}
      /\ Opened(data) = stat => Kind = "static" \/ stat \in {mem, str, fd}
  BY DEF Opened, fresh
<1>6. QED
  BY <1>3, <1>4, <1>5

LEMMA OpeningsGood ==
  ASSUME NEW data \in Seq(Byte), NEW t \in Openings(data)
  PROVE  t \in Stream /\ Good(t)
<1> DEFINE u == [Opened(data) EXCEPT !.maxsize = 0, !.inl = TRUE]
<1>1. Opened(data) \in Stream /\ Good(Opened(data))
  BY OpenedGood
<1>2. CASE t = Opened(data)
  BY <1>1, <1>2
<1>3. CASE ~InMemory /\ t = u
  <2>1. Opened(data).buf = <<>> /\ Opened(data).bpos = 0
    BY <1>3, Zenon DEF Opened, InMemory
  <2>2. u \in Stream
    BY <1>1, Zenon, 0 \in Nat DEF Stream
  <2>3. u.buf = Opened(data).buf /\ u.bpos = Opened(data).bpos /\ u.maxsize = 0 /\ u.inl = TRUE
    BY <1>1, Zenon DEF Stream
  <2> HIDE DEF u
  <2>4. InlSize \in Nat /\ Len(<<>>) = 0
    BY IosAssumption, NoBytes
  <2>5. Good(u)
    BY <2>1, <2>3, <2>4 DEF Good
  <2>6. QED
    BY <1>3, <2>2, <2>5
<1>4. QED
  BY <1>2, <1>3 DEF Openings

LEMMA InitOK == Init => IInv
<1> SUFFICES ASSUME Init PROVE IInv
  OBVIOUS
<1>1. Initial \in Seq(Byte) /\ <<>> \in Seq(Byte)
  BY IosAssumption, NoBytes
<1>2. s \in Stream /\ Good(s)
  BY <1>1, OpeningsGood DEF Init
<1>3. CallOK
  BY NoBytes DEF Init, CallOK
<1>4. QED
  BY <1>2, <1>3 DEF IInv, TypeOK, CallOK

\* ios_write to the stream as it is, or as vsnprintf left it.
LEMMA WritingStep ==
  ASSUME IInv, NEW t \in Stream, Good(t), NEW d \in Seq(Byte), Writing(t, d)
  PROVE  IInv'
<1> DEFINE o == ForWriting(t)
<1>1. /\ o \in Stream /\ Good(o) /\ CallOK
      /\ Len(d) \in Nat /\ d \in Seq(Byte)
  BY ForWritingGood, LenProperties DEF IInv, TypeOK, CallOK
<1>2. o.ndirty \in Nat /\ o.bpos \in Nat /\ o.maxsize \in Nat /\ Len(o.buf) \in Nat
  BY <1>1, LenProperties DEF Stream
<1>3. ASSUME NEW nw \in 0..Len(d)
      PROVE  First(d, nw) \in Seq(Byte)
  BY <1>3, FirstBytes
<1>4. CASE WriteMem(t, d)
  <2>1. PICK cap \in Capacities(o, Len(d)) :
          /\ s' = WriteGrow(o, d, cap)
          /\ Did("write", 0, d, Min2(Len(d), cap - o.bpos))
    BY <1>4 DEF WriteMem
  <2>2. cap \in Nat /\ cap >= o.maxsize
    BY <1>1, CapacitiesGrow
  <2>3. s' \in Stream /\ Good(s')
    BY <1>1, <2>1, <2>2, WriteGrowGood
  <2>4. Min2(Len(d), cap - o.bpos) \in Int
    BY <1>1, <1>2, <2>2 DEF Min2
  <2>5. CallOK'
    BY <2>1, <2>4, DidOK
  <2>6. QED
    BY <2>3, <2>5 DEF IInv, TypeOK, CallOK, Good
<1>5. CASE WriteUnbuffered(t, d)
  <2>1. PICK nw \in Accepted(Len(d)) :
          /\ s' = KernelWrite([o EXCEPT !.fpos = -1], First(d, nw))
          /\ Did("write", 0, d, nw)
    BY <1>5 DEF WriteUnbuffered
  <2>2. nw \in 0..Len(d)
    BY <1>1, AcceptedNat
  <2>3. [o EXCEPT !.fpos = -1] \in Stream
    BY Zenon, <1>1 DEF Stream
  <2>4. Good([o EXCEPT !.fpos = -1])
    <3>1. /\ [o EXCEPT !.fpos = -1].bpos = o.bpos /\ [o EXCEPT !.fpos = -1].buf = o.buf
          /\ [o EXCEPT !.fpos = -1].maxsize = o.maxsize
          /\ [o EXCEPT !.fpos = -1].inl = o.inl
      BY Zenon, <1>1 DEF Stream
    <3>2. QED
      BY Zenon, <1>1, <2>3, <3>1, GoodKept
  <2>5. s' \in Stream /\ Good(s')
    BY <1>3, <2>1, <2>2, <2>3, <2>4, KernelWriteGood
  <2>6. CallOK'
    BY <2>1, <2>2, DidOK
  <2>7. QED
    BY <2>5, <2>6 DEF IInv, TypeOK, CallOK, Good
<1>6. ASSUME NEW u \in Stream, Good(u), Len(d) <= Space(u),
             NEW j \in LineEnds(d), NEW nw, nw \in Flushed(Put(u, First(d, j)))
      PROVE  BufferedWrite(u, d, j, nw) \in Stream /\ Good(BufferedWrite(u, d, j, nw))
  <2>1. u.bpos + Len(d) <= u.maxsize
    BY <1>1, <1>6, SpaceFits
  <2>2. j \in 0..Len(d) /\ First(d, j) \in Seq(Byte) /\ Len(First(d, j)) = j
    BY <1>1, FirstBytes DEF LineEnds
  <2>3. u.bpos + j <= u.maxsize
    <3>1. u.bpos \in Nat /\ u.maxsize \in Nat
      BY <1>6 DEF Stream
    <3>2. QED
      BY <1>1, <2>1, <2>2, <3>1
  <2>4. Put(u, First(d, j)) \in Stream
    BY <1>6, <2>2, <2>3, PutGood
  <2>5. Put(u, First(d, j)).ndirty \in Nat
    BY <2>4 DEF Stream
  <2>6. nw \in Nat
    BY <1>6, <2>5, AcceptedNat DEF Flushed
  <2>7. QED
    BY <1>1, <1>6, <2>1, <2>2, <2>6, BufferedWriteGood
<1>7. CASE WriteBuffered(t, d)
  <2>1. PICK j \in LineEnds(d) :
          \E nw \in Flushed(Put(o, First(d, j))) :
            /\ s' = BufferedWrite(o, d, j, nw)
            /\ Did("write", 0, d, Len(d))
    BY <1>7 DEF WriteBuffered
  <2>2. Len(d) <= Space(o)
    BY <1>7 DEF WriteBuffered
  <2>3. s' \in Stream /\ Good(s')
    BY <1>1, <1>6, <2>1, <2>2
  <2>4. CallOK'
    BY <1>1, <2>1, DidOK
  <2>5. QED
    BY <2>3, <2>4 DEF IInv, TypeOK, CallOK, Good
<1>8. CASE WriteThrough(t, d)
  <2> DEFINE w == [o EXCEPT !.state = "wr"]
  <2>1. w \in Stream
    BY Zenon, <1>1 DEF Stream
  <2>2. Good(w)
    BY <1>1, <2>1 DEF Stream, Good
  <2> DEFINE f(nw) == Flush(w, nw)
  <2> HIDE DEF w
  <2>3. PICK nw \in Flushed(o) :
       \/ \E nd \in Accepted(Len(d)) :
               /\ s' = KernelWrite(f(nw), First(d, nd))
               /\ Did("write", 0, d, nd)
       \/ /\ Len(d) <= Space(f(nw))
          /\ \E j \in LineEnds(d) :
               \E nl \in Flushed(Put(f(nw), First(d, j))) :
                 /\ s' = BufferedWrite(f(nw), d, j, nl)
                 /\ Did("write", 0, d, Len(d))
       \/ /\ s' = [f(nw) EXCEPT !.status = "hung"]
          /\ Did("write", 0, d, 0)
    BY <1>8 DEF WriteThrough, w
  <2>4. nw \in Nat
    BY <1>2, AcceptedNat DEF Flushed
  <2>5. f(nw) \in Stream /\ Good(f(nw))
    BY <2>1, <2>2, <2>4, FlushGood
  <2> HIDE DEF f
  <2>6. CASE \E nd \in Accepted(Len(d)) :
               /\ s' = KernelWrite(f(nw), First(d, nd))
               /\ Did("write", 0, d, nd)
    <3>1. PICK nd \in 0..Len(d) :
               /\ s' = KernelWrite(f(nw), First(d, nd))
               /\ Did("write", 0, d, nd)
      BY <1>1, <2>6, AcceptedNat
    <3>2. s' \in Stream /\ Good(s')
      BY <1>3, <2>5, <3>1, KernelWriteGood
    <3>3. CallOK'
      BY <3>1, DidOK
    <3>4. QED
      BY <3>2, <3>3 DEF IInv, TypeOK, CallOK, Good
  <2>7. CASE /\ Len(d) <= Space(f(nw))
             /\ \E j \in LineEnds(d) :
                  \E nl \in Flushed(Put(f(nw), First(d, j))) :
                    /\ s' = BufferedWrite(f(nw), d, j, nl)
                    /\ Did("write", 0, d, Len(d))
    <3>1. s' \in Stream /\ Good(s')
      BY <1>6, <2>5, <2>7
    <3>2. CallOK'
      BY <1>1, <2>7, DidOK
    <3>3. QED
      BY <3>1, <3>2 DEF IInv, TypeOK, CallOK, Good
  <2>8. CASE s' = [f(nw) EXCEPT !.status = "hung"] /\ Did("write", 0, d, 0)
    <3>1. [f(nw) EXCEPT !.status = "hung"] \in Stream
      BY Zenon, <2>5 DEF Stream
    <3>2. Good([f(nw) EXCEPT !.status = "hung"])
      BY <2>5, <3>1 DEF Stream, Good
    <3>3. CallOK'
      BY <1>1, <2>8, DidOK
    <3>4. QED
      BY Zenon, <2>8, <3>1, <3>2, <3>3, NextInv
  <2>9. QED
    BY <2>3, <2>6, <2>7, <2>8
<1>9. CASE Did("refused", 0, <<>>, 0) /\ s' = t
  <2>1. CallOK'
    BY <1>9, DidQuietly
  <2>2. QED
    BY <1>9, <2>1, NextInv
<1>10. QED
  BY <1>4, <1>5, <1>7, <1>8, <1>9 DEF Writing

LEMMA WriteStep ==
  ASSUME IInv, NEW d \in Seq(Byte), ios_write(d)
  PROVE  IInv'
BY WritingStep DEF ios_write, IInv, TypeOK

LEMMA FlushedNat ==
  ASSUME NEW t \in Stream
  PROVE  \A nw \in Flushed(t) : nw \in Nat
<1>1. t.ndirty \in Nat
  BY DEF Stream
<1>2. QED
  BY <1>1, AcceptedNat DEF Flushed

\* What is known of a stream whatever the last call was.
LEMMA Known ==
  ASSUME IInv
  PROVE  /\ s \in Stream /\ Good(s) /\ s.buf \in Seq(Byte) /\ s.data \in Seq(Byte)
         /\ s.bpos \in Nat /\ s.maxsize \in Nat /\ s.off \in Nat /\ s.ndirty \in Nat
         /\ Len(s.buf) \in Nat /\ Len(s.data) \in Nat
         /\ s.bpos <= Len(s.buf) /\ Len(s.buf) <= s.maxsize
         /\ Avail(s) \in 0..Len(s.buf) /\ s.bpos + Avail(s) = Len(s.buf)
<1>1. s \in Stream /\ Good(s)
  BY DEF IInv, TypeOK
<1>2. /\ s.buf \in Seq(Byte) /\ s.data \in Seq(Byte) /\ s.bpos \in Nat
      /\ s.maxsize \in Nat /\ s.off \in Nat /\ s.ndirty \in Nat
  BY <1>1 DEF Stream
<1>3. Len(s.buf) \in Nat /\ Len(s.data) \in Nat
  BY <1>2, LenProperties
<1>4. s.bpos <= Len(s.buf) /\ Len(s.buf) <= s.maxsize
  BY <1>1 DEF Good
<1>5. Avail(s) \in 0..Len(s.buf) /\ s.bpos + Avail(s) = Len(s.buf)
  BY <1>2, <1>3, <1>4 DEF Avail
<1>6. QED
  BY <1>1, <1>2, <1>3, <1>4, <1>5

LEMMA PutStep ==
  ASSUME NEW t \in Stream, Good(t), NEW d \in Seq(Byte), t.bpos + Len(d) <= t.maxsize,
         PutDirectly(t, d)
  PROVE  IInv'
<1>1. Len(d) \in Nat
  BY LenProperties
<1>2. Put(t, d) \in Stream /\ Good(Put(t, d))
  BY PutGood
<1>3. s' = Put(t, d) \/ \E nw \in Flushed(Put(t, d)) : s' = Flush(Put(t, d), nw)
  BY DEF PutDirectly
<1>4. s' \in Stream /\ Good(s')
  BY <1>2, <1>3, FlushedNat, FlushGood
<1>5. CallOK'
  <2>1. Did("write", 0, d, Len(d))
    BY DEF PutDirectly
  <2>2. QED
    BY <1>1, <2>1, DidOK
<1>6. QED
  BY <1>4, <1>5, NextInv

LEMMA PutcStep ==
  ASSUME IInv, NEW c \in Byte, ios_putc(c)
  PROVE  IInv'
<1>1. <<c>> \in Seq(Byte) /\ Len(<<c>>) = 1
  OBVIOUS
<1>2. CASE HasRoom /\ PutDirectly(s, <<c>>)
  <2> DEFINE d == <<c>>
  <2>1. d \in Seq(Byte) /\ Len(d) = 1 /\ PutDirectly(s, d)
    BY <1>1, <1>2
  <2> HIDE DEF d
  <2>2. s.bpos + Len(d) <= s.maxsize
    BY <1>2, <2>1, Known DEF HasRoom
  <2>3. QED
    BY <2>1, <2>2, Known, PutStep
<1>3. CASE ios_write(<<c>>)
  BY Zenon, <1>1, <1>3, WriteStep
<1>4. QED
  BY <1>2, <1>3 DEF ios_putc

\* vsnprintf stays inside the buffer, and what it leaves is a stream of the same
\* size and position.
LEMMA PrintedGood ==
  ASSUME NEW t \in Stream, Good(t), NEW d \in Seq(Byte), t.bpos < t.maxsize
  PROVE  /\ Printed(t, d) \in Stream /\ Good(Printed(t, d))
         /\ Printed(t, d).bpos = t.bpos /\ Printed(t, d).maxsize = t.maxsize
<1> DEFINE n == Min2(Len(d), t.maxsize - t.bpos - 1)
           e == First(d, n) \o <<0>>
           o == Overlay(t.buf, t.bpos, e)
           b == First(o, Len(t.buf))
<1>1. /\ t.buf \in Seq(Byte) /\ Len(t.buf) \in Nat /\ t.bpos \in Nat /\ t.maxsize \in Nat
      /\ Len(d) \in Nat
  BY LenProperties DEF Stream
<1>2. n \in 0..Len(d)
  BY <1>1 DEF Min2
<1> HIDE DEF n
<1>3. First(d, n) \in Seq(Byte)
  BY <1>1, <1>2, FirstBytes
<1>4. <<0>> \in Seq(Byte)
  BY IosAssumption
<1>5. e \in Seq(Byte)
  BY <1>3, <1>4, ConcatProperties
<1> HIDE DEF e
<1>6. o \in Seq(Byte) /\ Len(o) \in Nat /\ Len(t.buf) <= Len(o)
  BY <1>1, <1>5, ByteOverlay, LenProperties DEF Max2
<1> HIDE DEF o
<1>7. b \in Seq(Byte) /\ Len(b) = Len(t.buf)
  BY <1>1, <1>6, FirstBytes
<1> HIDE DEF b
<1>8. Printed(t, d) = [t EXCEPT !.buf = b]
  BY DEF Printed, b, o, e, n
<1>9. [t EXCEPT !.buf = b] \in Stream
  BY Zenon, <1>7 DEF Stream
<1>10. /\ [t EXCEPT !.buf = b].bpos = t.bpos /\ [t EXCEPT !.buf = b].buf = b
       /\ [t EXCEPT !.buf = b].maxsize = t.maxsize /\ [t EXCEPT !.buf = b].inl = t.inl
  BY Zenon, <1>7 DEF Stream
<1>11. Good([t EXCEPT !.buf = b])
  BY <1>1, <1>7, <1>9, <1>10 DEF Good
<1>12. QED
  BY <1>8, <1>9, <1>10, <1>11

LEMMA PrintfStep ==
  ASSUME IInv, NEW d \in Seq(Byte), ios_vprintf(d)
  PROVE  IInv'
<1>1. Len(d) \in Nat
  BY LenProperties
<1>2. CASE HasRoom
  <2>1. /\ Printed(s, d) \in Stream /\ Good(Printed(s, d))
        /\ Printed(s, d).bpos = s.bpos /\ Printed(s, d).maxsize = s.maxsize
    BY <1>2, Known, PrintedGood DEF HasRoom
  <2>2. CASE s.bpos + Len(d) < s.maxsize /\ PutDirectly(Printed(s, d), d)
    <3>1. Printed(s, d).bpos + Len(d) <= Printed(s, d).maxsize
      BY <1>1, <2>1, <2>2, Known
    <3>2. QED
      BY <2>1, <2>2, <3>1, PutStep
  <2>3. CASE Writing(Printed(s, d), d)
    BY <2>1, <2>3, WritingStep
  <2>4. QED
    BY <1>2, <2>2, <2>3 DEF ios_vprintf
<1>3. CASE ~HasRoom
  BY <1>3, Known, WritingStep DEF ios_vprintf
<1>4. QED
  BY <1>2, <1>3

\* A client that prints at the end of what the buffer holds loses nothing: the
\* NUL falls behind it.
LEMMA PrintsAtEnd ==
  ASSUME IInv, NEW d \in Seq(Byte), s.bpos = Len(s.buf), s.bpos < s.maxsize
  PROVE  Printed(s, d) = s
<1> DEFINE n == Min2(Len(d), s.maxsize - s.bpos - 1)
           e == First(d, n) \o <<0>>
           o == Overlay(s.buf, s.bpos, e)
<1>1. Len(d) \in Nat
  BY LenProperties
<1>2. n \in 0..Len(d)
  BY <1>1, Known DEF Min2
<1> HIDE DEF n
<1>3. First(d, n) \in Seq(Byte) /\ <<0>> \in Seq(Byte)
  BY <1>1, <1>2, FirstBytes, IosAssumption
<1>4. e \in Seq(Byte)
  BY <1>3, ConcatProperties
<1> HIDE DEF e
<1>5. First(o, Len(s.buf)) = s.buf
  BY <1>4, Known, OverlayAtEnd
<1>6. Printed(s, d) = [s EXCEPT !.buf = First(o, Len(s.buf))]
  BY DEF Printed, o, e, n
<1> HIDE DEF o
<1>7. [s EXCEPT !.buf = s.buf] = s
  BY Known DEF Stream
<1>8. QED
  BY <1>5, <1>6, <1>7

\* So a printing that keeps this duty is a plain put or a plain write.
LEMMA PrintsPlainly ==
  ASSUME IInv, Client # "any", NEW d \in Seq(Byte), ios_vprintf(d)
  PROVE  \/ ios_write(d)
         \/ MayWrite(Len(d)) /\ HasRoom /\ s.bpos + Len(d) <= s.maxsize /\ PutDirectly(s, d)
<1>1. Len(d) \in Nat
  BY LenProperties
<1>2. CASE HasRoom
  <2>1. Printed(s, d) = s
    BY <1>2, PrintsAtEnd DEF ios_vprintf, MayPrint, HasRoom
  <2>2. s.bpos + Len(d) < s.maxsize => s.bpos + Len(d) <= s.maxsize
    BY <1>1, Known
  <2>3. QED
    BY Zenon, <1>2, <2>1, <2>2 DEF ios_vprintf, ios_write
<1>3. CASE ~HasRoom
  BY Zenon, <1>3 DEF ios_vprintf, ios_write
<1>4. QED
  BY <1>2, <1>3

(***************************************************************************)
(* Reading.                                                                *)
(***************************************************************************)

\* An empty buffer is good in every state.
LEMMA EmptiedGood ==
  ASSUME NEW t \in Stream, Good(t), NEW u \in Stream,
         u.maxsize = t.maxsize, u.inl = t.inl, u.buf = <<>>, u.bpos = 0
  PROVE  Good(u)
<1>1. Len(t.buf) \in Nat /\ Len(u.buf) = 0
  BY NoBytes, LenProperties DEF Stream
<1>2. QED
  BY <1>1, GoodWithin

LEMMA DrainedGood ==
  ASSUME NEW t \in Stream, Good(t), NEW nw \in Nat
  PROVE  /\ Drained(t, nw) \in Stream /\ Good(Drained(t, nw))
         /\ Drained(t, nw).buf = <<>> /\ Drained(t, nw).maxsize = t.maxsize
<1> DEFINE e == [t EXCEPT !.bpos = Len(t.buf)]
           u == Flush(e, nw)
<1>1. Len(t.buf) \in Nat
  BY LenProperties DEF Stream
<1>2. e \in Stream
  BY Zenon, <1>1 DEF Stream
<1>3. e.bpos = Len(t.buf) /\ e.buf = t.buf /\ e.maxsize = t.maxsize /\ e.inl = t.inl
  BY Zenon, <1>1 DEF Stream
<1> HIDE DEF e
<1>4. Good(e)
  BY <1>1, <1>2, <1>3, GoodWithin
<1>5. u \in Stream /\ Good(u) /\ u.maxsize = t.maxsize
  BY <1>2, <1>3, <1>4, FlushGood DEF FlushKeeps
<1>6. Drained(t, nw) =
        [u EXCEPT !.buf = <<>>, !.bpos = 0, !.state = "rd", !.fpos = -1]
  BY DEF Drained, e
<1> HIDE DEF u
<1>7. <<>> \in Seq(Byte) /\ -1 \in Nat \cup {-1} /\ 0 \in Nat
  BY NoBytes
<1>8. Drained(t, nw) \in Stream
  BY Zenon, <1>5, <1>6, <1>7 DEF Stream
<1>9. /\ Drained(t, nw).buf = <<>> /\ Drained(t, nw).bpos = 0
      /\ Drained(t, nw).maxsize = u.maxsize /\ Drained(t, nw).inl = u.inl
  BY Zenon, <1>5, <1>6, <1>7 DEF Stream
<1>10. QED
  BY <1>5, <1>8, <1>9, EmptiedGood

LEMMA RefilledGood ==
  ASSUME NEW t \in Stream, Good(t), NEW k \in Nat, NEW b \in 1..k, NEW g \in Nat,
         b + g <= t.maxsize, k + g <= Readable(t)
  PROVE  Refilled(t, k, b, g) \in Stream /\ Good(Refilled(t, k, b, g))
<1> DEFINE at == t.off + k - b
           n  == b + g
           r  == Refilled(t, k, b, g)
<1>1. t.off \in Nat /\ t.maxsize \in Nat /\ t.data \in Seq(Byte) /\ b \in Nat
  BY DEF Stream
<1>2. Len(t.data) \in Nat
  BY <1>1, LenProperties
<1>3. at \in Nat /\ n \in Nat /\ at + n <= Len(t.data) /\ t.off + k + g \in Nat
  BY <1>1, <1>2 DEF Readable, Max2
<1>4. Slice(t.data, at, n) \in Seq(Byte) /\ Len(Slice(t.data, at, n)) = n
  <2>1. t.data \in Seq(Byte) /\ at \in Nat /\ n \in Nat /\ (n > 0 => at + n <= Len(t.data))
    BY <1>1, <1>3
  <2> HIDE DEF at, n, r
  <2>2. QED
    BY <2>1, SliceBytes
<1>5. r \in Stream
  BY Zenon, <1>1, <1>3, <1>4 DEF Refilled, Stream
<1>6. /\ r.buf = Slice(t.data, at, n) /\ r.bpos = b
      /\ r.maxsize = t.maxsize /\ r.inl = t.inl
  BY Zenon, <1>1, <1>3, <1>4 DEF Refilled, Stream
<1>7. b <= n /\ n <= t.maxsize
  BY <1>1
<1> HIDE DEF r, n
<1>8. Good(r)
  BY <1>4, <1>6, <1>7 DEF Good
<1>9. QED
  BY <1>5, <1>8 DEF r

LEMMA ReadableIn ==
  ASSUME NEW t \in Stream, NEW k \in Nat, k <= Readable(t)
  PROVE  Slice(t.data, t.off, k) \in Seq(Byte) /\ t.off + k \in Nat
<1>1. t.off \in Nat /\ t.data \in Seq(Byte)
  BY DEF Stream
<1>2. Len(t.data) \in Nat
  BY <1>1, LenProperties
<1>3. k > 0 => t.off + k <= Len(t.data)
  BY <1>1, <1>2 DEF Readable, Max2
<1>4. Slice(t.data, t.off, k) \in Seq(Byte)
  BY <1>1, <1>3, SliceBytes
<1>5. QED
  BY <1>1, <1>4

\* The bytes of a read: the rest of the buffer, then k bytes of the descriptor.
LEMMA ReadBytes ==
  ASSUME IInv, NEW t \in Stream, NEW k \in Nat, k <= Readable(t)
  PROVE  After(s.buf, s.bpos) \o Slice(t.data, t.off, k) \in Seq(Byte)
<1>1. After(s.buf, s.bpos) \in Seq(Byte)
  BY Known, AfterBytes
<1>2. Slice(t.data, t.off, k) \in Seq(Byte)
  BY ReadableIn
<1>3. QED
  BY <1>1, <1>2, ConcatProperties

\* The descriptor moves on and nothing is buffered.
LEMMA MovedGood ==
  ASSUME NEW t \in Stream, Good(t), NEW k \in Nat, NEW e \in BOOLEAN
  PROVE  LET u == [t EXCEPT !.off = @ + k, !.eof = e] IN u \in Stream /\ Good(u)
<1> DEFINE u == [t EXCEPT !.off = @ + k, !.eof = e]
<1>1. t.off + k \in Nat
  BY DEF Stream
<1>2. u \in Stream
  BY Zenon, <1>1 DEF Stream
<1>3. u.bpos = t.bpos /\ u.buf = t.buf /\ u.maxsize = t.maxsize /\ u.inl = t.inl
  BY Zenon DEF Stream
<1> HIDE DEF u
<1>4. Good(u)
  BY <1>2, <1>3, GoodKept
<1>5. QED
  BY <1>2, <1>4 DEF u

LEMMA GotBytes ==
  ASSUME IInv, NEW op, NEW n \in Nat, NEW t \in Stream, NEW k \in Nat, k <= Readable(t),
         Got(op, n, After(s.buf, s.bpos) \o Slice(t.data, t.off, k))
  PROVE  CallOK'
<1>1. n \in Int
  OBVIOUS
<1>2. After(s.buf, s.bpos) \o Slice(t.data, t.off, k) \in Seq(Byte)
  BY ReadBytes
<1>3. QED
  BY Zenon, <1>1, <1>2, GotOK

LEMMA ReadStep ==
  ASSUME IInv, NEW op, NEW n \in Nat, Reading(op, n)
  PROVE  IInv'
<1>1. CASE ReadBuffered(op, n)
  <2>1. n <= Avail(s) /\ s.bpos + n \in Nat /\ s.bpos + n <= Len(s.buf)
    BY <1>1, Known DEF ReadBuffered
  <2> DEFINE u == [s EXCEPT !.bpos = @ + n, !.state = "rd"]
  <2>2. u \in Stream
    BY Zenon, <2>1, Known DEF Stream
  <2>3. u.bpos = s.bpos + n /\ u.buf = s.buf /\ u.maxsize = s.maxsize /\ u.inl = s.inl
    BY Zenon, Known DEF Stream
  <2>4. s' = u
    BY <1>1 DEF ReadBuffered
  <2> HIDE DEF u
  <2>5. Good(u)
    BY <2>1, <2>2, <2>3, Known, GoodWithin
  <2>6. Slice(s.buf, s.bpos, n) \in Seq(Byte)
    BY <2>1, Known, SliceBytes
  <2>7. CallOK'
    BY <1>1, <2>6, GotOK DEF ReadBuffered
  <2>8. QED
    BY <2>2, <2>4, <2>5, <2>7, NextInv
<1>2. CASE ReadRest(op, n)
  <2> DEFINE u == [s EXCEPT !.bpos = Len(s.buf), !.state = "rd", !.eof = @ \/ Avail(s) = 0]
  <2>1. (s.eof \/ Avail(s) = 0) \in BOOLEAN
    OBVIOUS
  <2>2. u \in Stream
    BY Zenon, <2>1, Known DEF Stream
  <2>3. u.bpos = Len(s.buf) /\ u.buf = s.buf /\ u.maxsize = s.maxsize /\ u.inl = s.inl
    BY Zenon, Known DEF Stream
  <2>4. s' = u
    BY <1>2 DEF ReadRest
  <2> HIDE DEF u
  <2>5. Good(u)
    BY <2>2, <2>3, Known, GoodWithin
  <2>6. After(s.buf, s.bpos) \in Seq(Byte)
    BY Known, AfterBytes
  <2>7. CallOK'
    BY <1>2, <2>6, GotOK DEF ReadRest
  <2>8. QED
    BY <2>2, <2>4, <2>5, <2>7, NextInv
<1>3. CASE ReadDirect(op, n)
  <2> DEFINE f(nw) == Drained(s, nw)
  <2>1. PICK nw \in Flushed(s) :
          \E k \in 0..Min2(n - Avail(s), Readable(f(nw))) :
            /\ s' = [f(nw) EXCEPT !.off = @ + k, !.eof = @ \/ k = 0]
            /\ Got(op, n, After(s.buf, s.bpos) \o Slice(f(nw).data, f(nw).off, k))
    BY <1>3 DEF ReadDirect
  <2>2. f(nw) \in Stream /\ Good(f(nw))
    BY Known, FlushedNat, DrainedGood
  <2> HIDE DEF f
  <2>3. PICK k \in 0..Min2(n - Avail(s), Readable(f(nw))) :
          /\ s' = [f(nw) EXCEPT !.off = @ + k, !.eof = @ \/ k = 0]
          /\ Got(op, n, After(s.buf, s.bpos) \o Slice(f(nw).data, f(nw).off, k))
    BY <2>1
  <2>4. f(nw).off \in Nat /\ Len(f(nw).data) \in Nat
    BY <2>2, LenProperties DEF Stream
  <2>5. k \in Nat /\ k <= Readable(f(nw))
    BY <2>3, <2>4, Known DEF Min2, Readable, Max2
  <2>6. (f(nw).eof \/ k = 0) \in BOOLEAN
    OBVIOUS
  <2>7. s' \in Stream /\ Good(s')
    BY <2>2, <2>3, <2>5, <2>6, MovedGood
  <2>8. CallOK'
    BY Zenon, <2>2, <2>3, <2>5, GotBytes
  <2>9. QED
    BY <2>7, <2>8, NextInv
<1>4. CASE ReadRefill(op, n)
  <2> DEFINE f(nw) == Drained(s, nw)
             want == n - Avail(s)
  <2>1. PICK nw \in Flushed(s) :
          \/ \E b \in 1..want, g \in 0..f(nw).maxsize :
               /\ b + g <= f(nw).maxsize /\ want + g <= Readable(f(nw))
               /\ s' = Refilled(f(nw), want, b, g)
               /\ Got(op, n, After(s.buf, s.bpos) \o Slice(f(nw).data, f(nw).off, want))
          \/ \E k \in 0..Min2(want - 1, Readable(f(nw))) :
               /\ s' = [f(nw) EXCEPT !.off = @ + k, !.eof = TRUE]
               /\ Got(op, n, After(s.buf, s.bpos) \o Slice(f(nw).data, f(nw).off, k))
    BY <1>4 DEF ReadRefill
  <2>2. f(nw) \in Stream /\ Good(f(nw))
    BY Known, FlushedNat, DrainedGood
  <2>3. want \in Nat
    <3>1. n > Avail(s)
      BY <1>4 DEF ReadRefill
    <3>2. QED
      BY <3>1, Known
  <2> HIDE DEF f, want
  <2>4. f(nw).off \in Nat /\ f(nw).maxsize \in Nat /\ Len(f(nw).data) \in Nat
    BY <2>2, LenProperties DEF Stream
  <2>5. CASE \E b \in 1..want, g \in 0..f(nw).maxsize :
               /\ b + g <= f(nw).maxsize /\ want + g <= Readable(f(nw))
               /\ s' = Refilled(f(nw), want, b, g)
               /\ Got(op, n, After(s.buf, s.bpos) \o Slice(f(nw).data, f(nw).off, want))
    <3>1. PICK b \in 1..want, g \in 0..f(nw).maxsize :
               /\ b + g <= f(nw).maxsize /\ want + g <= Readable(f(nw))
               /\ s' = Refilled(f(nw), want, b, g)
               /\ Got(op, n, After(s.buf, s.bpos) \o Slice(f(nw).data, f(nw).off, want))
      BY <2>5
    <3>2. g \in Nat /\ want <= Readable(f(nw))
      BY <2>3, <2>4, <3>1 DEF Readable, Max2
    <3>3. s' \in Stream /\ Good(s')
      BY <2>2, <2>3, <3>1, <3>2, RefilledGood
    <3>4. CallOK'
      BY Zenon, <2>2, <2>3, <3>1, <3>2, GotBytes
    <3>5. QED
      BY <3>3, <3>4, NextInv
  <2>6. CASE \E k \in 0..Min2(want - 1, Readable(f(nw))) :
               /\ s' = [f(nw) EXCEPT !.off = @ + k, !.eof = TRUE]
               /\ Got(op, n, After(s.buf, s.bpos) \o Slice(f(nw).data, f(nw).off, k))
    <3>1. PICK k \in 0..Min2(want - 1, Readable(f(nw))) :
               /\ s' = [f(nw) EXCEPT !.off = @ + k, !.eof = TRUE]
               /\ Got(op, n, After(s.buf, s.bpos) \o Slice(f(nw).data, f(nw).off, k))
      BY <2>6
    <3>2. k \in Nat /\ k <= Readable(f(nw))
      BY <2>3, <2>4, <3>1 DEF Min2, Readable, Max2
    <3>3. s' \in Stream /\ Good(s')
      BY <2>2, <3>1, <3>2, MovedGood
    <3>4. CallOK'
      BY Zenon, <2>2, <3>1, <3>2, GotBytes
    <3>5. QED
      BY <3>3, <3>4, NextInv
  <2>7. QED
    BY <2>1, <2>5, <2>6
<1>5. QED
  BY <1>1, <1>2, <1>3, <1>4 DEF Reading

LEMMA GetcStep ==
  ASSUME IInv, ios_getc
  PROVE  IInv'
<1>1. CASE UNCHANGED s /\ Got("getc", 1, <<>>)
  <2>1. 1 \in Int /\ <<>> \in Seq(Byte)
    BY NoBytes
  <2>2. CallOK'
    BY Zenon, <1>1, <2>1, GotOK
  <2>3. QED
    BY <1>1, <2>2, StaysInv
<1>2. CASE Reading("getc", 1)
  BY <1>2, ReadStep
<1>3. QED
  BY <1>1, <1>2 DEF ios_getc

\* A stream that differs only in fields Good does not look at.
LEMMA SetState ==
  ASSUME NEW t \in Stream, Good(t), NEW x \in {"none", "rd", "wr"}
  PROVE  [t EXCEPT !.state = x] \in Stream /\ Good([t EXCEPT !.state = x])
<1> DEFINE u == [t EXCEPT !.state = x]
<1>1. u \in Stream
  BY Zenon DEF Stream
<1>2. u.bpos = t.bpos /\ u.buf = t.buf /\ u.maxsize = t.maxsize /\ u.inl = t.inl
  BY Zenon DEF Stream
<1> HIDE DEF u
<1>3. Good(u)
  BY <1>1, <1>2, GoodKept
<1>4. QED
  BY <1>1, <1>3 DEF u

LEMMA SetEof ==
  ASSUME NEW t \in Stream, Good(t), NEW x \in BOOLEAN
  PROVE  [t EXCEPT !.eof = x] \in Stream /\ Good([t EXCEPT !.eof = x])
<1> DEFINE u == [t EXCEPT !.eof = x]
<1>1. u \in Stream
  BY Zenon DEF Stream
<1>2. u.bpos = t.bpos /\ u.buf = t.buf /\ u.maxsize = t.maxsize /\ u.inl = t.inl
  BY Zenon DEF Stream
<1> HIDE DEF u
<1>3. Good(u)
  BY <1>1, <1>2, GoodKept
<1>4. QED
  BY <1>1, <1>3 DEF u

LEMMA Emptied ==
  ASSUME NEW t \in Stream, Good(t)
  PROVE  /\ [t EXCEPT !.buf = <<>>, !.bpos = 0] \in Stream
         /\ Good([t EXCEPT !.buf = <<>>, !.bpos = 0])
<1> DEFINE u == [t EXCEPT !.buf = <<>>, !.bpos = 0]
<1>1. <<>> \in Seq(Byte) /\ 0 \in Nat
  BY NoBytes
<1>2. u \in Stream
  BY Zenon, <1>1 DEF Stream
<1>3. u.bpos = 0 /\ u.buf = <<>> /\ u.maxsize = t.maxsize /\ u.inl = t.inl
  BY Zenon, <1>1 DEF Stream
<1> HIDE DEF u
<1>4. Good(u)
  BY <1>2, <1>3, EmptiedGood
<1>5. QED
  BY <1>2, <1>4 DEF u

LEMMA PreparedGood ==
  ASSUME IInv, NEW nw \in Nat
  PROVE  Prepared(nw) \in Stream /\ Good(Prepared(nw))
<1> DEFINE f == Flush(s, nw)
           e == [f EXCEPT !.buf = <<>>, !.bpos = 0]
           p == IF s.state = "wr" /\ ~InMemory THEN e ELSE s
<1>1. f \in Stream /\ Good(f)
  BY Known, FlushGood
<1> HIDE DEF f
<1>2. e \in Stream /\ Good(e)
  BY <1>1, Emptied
<1> HIDE DEF e
<1>3. p \in Stream /\ Good(p)
  BY <1>2, Known
<1>4. Prepared(nw) = [p EXCEPT !.state = "rd"]
  BY DEF Prepared, p, e, f
<1> HIDE DEF p
<1>5. QED
  BY <1>3, <1>4, SetState

LEMMA MakeRoomGood ==
  ASSUME NEW p \in Stream, Good(p), NEW n \in Nat, NEW r \in MakeRoom(p, n)
  PROVE  r \in Stream /\ Good(r)
<1>1. /\ p.bpos \in Nat /\ p.buf \in Seq(Byte) /\ Len(p.buf) \in Nat /\ p.maxsize \in Nat
      /\ Len(p.buf) <= p.maxsize
  BY LenProperties DEF Stream, Good
<1> DEFINE moved == [p EXCEPT !.buf = After(@, p.bpos), !.bpos = 0]
<1>2. \/ r = p
      \/ r = moved
      \/ \E cap \in Realloc(p, p.bpos + n) : r = Resized(p, cap)
  BY DEF MakeRoom
<1>3. After(p.buf, p.bpos) \in Seq(Byte) /\ Len(After(p.buf, p.bpos)) \in 0..Len(p.buf)
  <2>1. /\ After(p.buf, p.bpos) \in Seq(Byte)
        /\ Len(After(p.buf, p.bpos)) =
             IF p.bpos <= Len(p.buf) THEN Len(p.buf) - p.bpos ELSE 0
    BY <1>1, AfterBytes
  <2>2. QED
    BY <1>1, <2>1
<1>4. moved \in Stream
  BY Zenon, <1>1, <1>3 DEF Stream
<1>5. /\ moved.bpos = 0 /\ moved.buf = After(p.buf, p.bpos)
      /\ moved.maxsize = p.maxsize /\ moved.inl = p.inl
  BY Zenon, <1>1, <1>3 DEF Stream
<1> HIDE DEF moved
<1>6. Good(moved)
  BY <1>3, <1>4, <1>5, GoodWithin
<1>7. ASSUME NEW cap \in Realloc(p, p.bpos + n)
      PROVE  Resized(p, cap) \in Stream /\ Good(Resized(p, cap))
  <2>1. p.bpos + n \in Nat
    BY <1>1
  <2>2. cap \in Nat /\ cap >= p.maxsize
    BY <1>7, <2>1, ReallocGrows
  <2>3. cap >= Len(p.buf)
    BY <1>1, <2>2
  <2>4. QED
    BY <2>2, <2>3, ResizedGood
<1>8. QED
  BY <1>2, <1>4, <1>6, <1>7

\* One read at the end of the buffer.
LEMMA AppendGood ==
  ASSUME NEW r \in Stream, Good(r), NEW g \in Nat,
         g <= r.maxsize - Len(r.buf), g <= Readable(r)
  PROVE  LET u == [r EXCEPT !.buf = @ \o Slice(r.data, r.off, g), !.off = @ + g]
         IN  u \in Stream /\ Good(u)
<1> DEFINE d == Slice(r.data, r.off, g)
           u == [r EXCEPT !.buf = @ \o d, !.off = @ + g]
<1>1. /\ r.buf \in Seq(Byte) /\ r.data \in Seq(Byte) /\ r.off \in Nat
      /\ r.maxsize \in Nat /\ r.bpos \in Nat
  BY DEF Stream
<1>2. Len(r.buf) \in Nat /\ Len(r.data) \in Nat
  BY <1>1, LenProperties
<1>3. d \in Seq(Byte) /\ Len(d) = g
  <2>1. g > 0 => r.off + g <= Len(r.data)
    BY <1>1, <1>2 DEF Readable, Max2
  <2>2. QED
    BY <1>1, <2>1, SliceBytes, ZenonT(20)
<1> HIDE DEF d
<1>4. r.buf \o d \in Seq(Byte) /\ Len(r.buf \o d) = Len(r.buf) + g
  BY <1>1, <1>3, ConcatProperties
<1>5. r.off + g \in Nat
  BY <1>1
<1>6. u \in Stream
  BY Zenon, <1>4, <1>5 DEF Stream
<1>7. u.buf = r.buf \o d /\ u.bpos = r.bpos /\ u.maxsize = r.maxsize /\ u.inl = r.inl
  BY Zenon, <1>4, <1>5 DEF Stream
<1> HIDE DEF u
<1>8. Good(u)
  BY <1>1, <1>2, <1>4, <1>7 DEF Good
<1>9. QED
  BY <1>6, <1>8 DEF u, d

LEMMA ReadprepGood ==
  ASSUME IInv, NEW n \in Nat, Readprep(n)
  PROVE  s' \in Stream /\ Good(s')
<1> DEFINE p(nw) == Prepared(nw)
<1>1. PICK nw \in Flushed(s) :
        \/ s' = p(nw)
        \/ \E r \in MakeRoom(p(nw), n) :
             \E g \in 0..(IF r.maxsize < r.bpos + n THEN 0
                           ELSE Min2(r.maxsize - Len(r.buf), Readable(r))) :
               s' = [r EXCEPT !.buf = @ \o Slice(r.data, r.off, g), !.off = @ + g]
  BY DEF Readprep
<1>2. p(nw) \in Stream /\ Good(p(nw))
  BY Known, FlushedNat, PreparedGood
<1> HIDE DEF p
<1>3. ASSUME NEW r \in MakeRoom(p(nw), n),
             NEW g, g \in 0..(IF r.maxsize < r.bpos + n THEN 0
                                ELSE Min2(r.maxsize - Len(r.buf), Readable(r))),
             s' = [r EXCEPT !.buf = @ \o Slice(r.data, r.off, g), !.off = @ + g]
      PROVE  s' \in Stream /\ Good(s')
  <2>1. r \in Stream /\ Good(r)
    BY <1>2, <1>3, MakeRoomGood
  <2>2. /\ r.maxsize \in Nat /\ Len(r.buf) \in Nat /\ r.off \in Nat
        /\ Len(r.data) \in Nat
    BY <2>1, LenProperties DEF Stream
  <2>3. g \in Nat /\ g <= r.maxsize - Len(r.buf) /\ g <= Readable(r)
    <3>1. Len(r.buf) <= r.maxsize
      BY <2>1 DEF Good
    <3>2. QED
      BY <1>3, <2>2, <3>1, SMTT(20) DEF Min2, Readable, Max2
  <2>4. QED
    BY <1>3, <2>1, <2>3, AppendGood
<1>4. QED
  BY <1>1, <1>2, <1>3

LEMMA PrepStep ==
  ASSUME IInv, NEW n \in Nat, ios_readprep(n)
  PROVE  IInv'
<1>1. s' \in Stream /\ Good(s')
  BY ReadprepGood DEF ios_readprep
<1>2. s'.bpos \in Nat /\ Len(s'.buf) \in Nat
  BY <1>1, LenProperties DEF Stream
<1>3. Avail(s') \in Int
  BY <1>2 DEF Avail
<1>4. CallOK'
  BY <1>3, DidQuietly DEF ios_readprep
<1>5. QED
  BY <1>1, <1>4, NextInv

LEMMA PeekStep ==
  ASSUME IInv, ios_peekc
  PROVE  IInv'
<1>1. s' \in Stream /\ Good(s')
  <2>1. CASE UNCHANGED s
    BY <2>1, Known
  <2>2. CASE Readprep(1)
    BY <2>2, ReadprepGood
  <2>3. QED
    BY <2>1, <2>2 DEF ios_peekc
<1> DEFINE rest == After(s'.buf, s'.bpos)
           n == Min2(1, Avail(s'))
<1>2. s'.bpos \in Nat /\ Len(s'.buf) \in Nat /\ s'.buf \in Seq(Byte) /\ s'.bpos <= Len(s'.buf)
  BY <1>1, LenProperties DEF Stream, Good
<1>3. rest \in Seq(Byte) /\ Len(rest) = Len(s'.buf) - s'.bpos
  BY <1>2, AfterBytes
<1>4. n \in 0..Len(rest)
  BY <1>2, <1>3 DEF Avail, Min2
<1> HIDE DEF rest, n
<1>5. 1 \in Int /\ First(rest, n) \in Seq(Byte)
  BY <1>3, <1>4, FirstBytes
<1>6. Got("peek", 1, First(rest, n))
  BY DEF ios_peekc, rest, n
<1>7. CallOK'
  BY Zenon, <1>5, <1>6, GotOK
<1>8. QED
  BY <1>1, <1>7, NextInv

\* _buf_realloc of a stream without a buffer gives it the inline one, so there is
\* room for a byte unless the buffer could not be doubled.
LEMMA UngetRoom ==
  ASSUME IInv
  PROVE  \A cap \in (IF Len(s.buf) = s.maxsize THEN Realloc(s, 2 * s.maxsize)
                     ELSE {s.maxsize}) :
           cap \in Nat \ {0} /\ cap >= s.maxsize /\ cap >= Len(s.buf)
<1>1. 2 * s.maxsize \in Nat /\ Good(s) /\ InlSize \in Nat \ {0}
  BY Known, IosAssumption
<1>2. ASSUME NEW cap \in Realloc(s, 2 * s.maxsize)
      PROVE  cap \in Nat \ {0} /\ cap >= s.maxsize
  <2>1. cap \in Nat /\ cap >= s.maxsize
    BY <1>1, <1>2, Known, ReallocGrows
  <2>2. CASE s.maxsize = 0
    <3>1. s.inl /\ 2 * s.maxsize <= InlSize
      BY <1>1, <2>2 DEF Good
    <3>2. cap = InlSize
      BY <1>2, <3>1 DEF Realloc
    <3>3. QED
      BY <1>1, <2>1, <3>2
  <2>3. QED
    BY <2>1, <2>2, Known
<1>3. QED
  BY <1>2, Known

LEMMA UngetStep ==
  ASSUME IInv, ios_ungetc
  PROVE  IInv'
<1> DEFINE c == call.bytes[1]
<1>1. c \in Byte /\ c \in Int /\ -1 \in Int /\ 0 \in Int
  <2>1. call.bytes \in Seq(Byte) /\ call.bytes # <<>>
    BY DEF IInv, TypeOK, ios_ungetc
  <2>2. Len(call.bytes) \in Nat /\ Len(call.bytes) # 0
    BY <2>1, EmptySeq, LenProperties
  <2>3. c \in Byte
    BY <2>1, <2>2, ElementOfSeq
  <2>4. Byte \subseteq Nat
    BY Zenon, IosAssumption
  <2> HIDE DEF c
  <2>5. QED
    BY <2>3, <2>4
<1>2. CASE /\ s.bpos > 0
           /\ s' = [s EXCEPT !.bpos = @ - 1, !.buf[s.bpos] = c, !.eof = FALSE]
           /\ Did("unget", 0, <<>>, c)
  <2> DEFINE b == [s.buf EXCEPT ![s.bpos] = c]
             u == [s EXCEPT !.bpos = @ - 1, !.buf = b, !.eof = FALSE]
  <2>1. s.bpos \in 1..Len(s.buf) /\ s.bpos - 1 \in Nat
    BY <1>2, Known
  <2>2. b \in Seq(Byte) /\ Len(b) = Len(s.buf)
    BY <1>1, <2>1, Known, ExceptSeq
  <2>3. s' = u
    BY <1>2
  <2> HIDE DEF b, c
  <2>4. u \in Stream
    BY Zenon, <2>1, <2>2, Known DEF Stream
  <2>5. u.bpos = s.bpos - 1 /\ u.buf = b /\ u.maxsize = s.maxsize /\ u.inl = s.inl
    BY Zenon, Known DEF Stream
  <2> HIDE DEF u
  <2>6. Good(u)
    BY <2>1, <2>2, <2>4, <2>5, Known, GoodWithin
  <2>7. CallOK'
    BY Zenon, <1>1, <1>2, DidQuietly
  <2>8. QED
    BY <2>3, <2>4, <2>6, <2>7, NextInv
<1>3. CASE \E cap \in (IF Len(s.buf) = s.maxsize THEN Realloc(s, 2 * s.maxsize)
                      ELSE {s.maxsize}) :
             IF cap = Len(s.buf) /\ cap > 0 THEN UNCHANGED s /\ Did("refused", 0, <<>>, -1)
             ELSE /\ s' = [Resized(s, cap) EXCEPT !.buf = <<c>> \o @, !.eof = FALSE]
                  /\ Did("unget", 0, <<>>, c)
  <2>1. PICK cap \in (IF Len(s.buf) = s.maxsize THEN Realloc(s, 2 * s.maxsize)
                      ELSE {s.maxsize}) :
             IF cap = Len(s.buf) /\ cap > 0 THEN UNCHANGED s /\ Did("refused", 0, <<>>, -1)
             ELSE /\ s' = [Resized(s, cap) EXCEPT !.buf = <<c>> \o @, !.eof = FALSE]
                  /\ Did("unget", 0, <<>>, c)
    BY <1>3
  <2>2. cap \in Nat \ {0} /\ cap >= s.maxsize /\ cap >= Len(s.buf)
    BY UngetRoom
  <2>3. CASE UNCHANGED s /\ Did("refused", 0, <<>>, -1)
    <3>1. CallOK'
      BY Zenon, <1>1, <2>3, DidQuietly
    <3>2. QED
      BY <2>3, <3>1, StaysInv
  <2>4. CASE /\ cap # Len(s.buf)
             /\ s' = [Resized(s, cap) EXCEPT !.buf = <<c>> \o @, !.eof = FALSE]
             /\ Did("unget", 0, <<>>, c)
    <3> DEFINE r == Resized(s, cap)
               b == <<c>> \o r.buf
               u == [r EXCEPT !.buf = b, !.eof = FALSE]
    <3>1. r \in Stream /\ Good(r) /\ r.maxsize = cap
      BY <2>2, Known, ResizedGood
    <3>2. r.buf = s.buf
      BY Zenon, Known DEF Resized, Stream
    <3>3. <<c>> \in Seq(Byte) /\ Len(<<c>>) = 1
      BY <1>1
    <3> HIDE DEF c, r
    <3>4. b \in Seq(Byte) /\ Len(b) = 1 + Len(s.buf)
      BY <3>2, <3>3, Known, ConcatProperties
    <3>5. s' = u
      BY Zenon, <2>4 DEF r
    <3> HIDE DEF b
    <3>6. u \in Stream
      BY Zenon, <3>1, <3>4 DEF Stream
    <3>7. u.bpos = r.bpos /\ u.buf = b /\ u.maxsize = r.maxsize /\ u.inl = r.inl
      BY Zenon, <3>1, <3>4 DEF Stream
    <3> HIDE DEF u
    <3>8. Good(u)
      <4>1. r.bpos \in Nat /\ r.bpos <= Len(s.buf) /\ (r.inl => cap <= InlSize)
        BY <3>1, <3>2 DEF Good, Stream
      <4>2. u.bpos <= Len(u.buf) /\ Len(u.buf) <= u.maxsize
        BY <2>2, <2>4, <3>1, <3>4, <3>7, <4>1, Known
      <4>3. QED
        BY <2>2, <3>1, <3>7, <4>1, <4>2 DEF Good
    <3>9. CallOK'
      BY Zenon, <1>1, <2>4, DidQuietly
    <3>10. QED
      BY <3>5, <3>6, <3>8, <3>9, NextInv
  <2>5. QED
    BY <2>1, <2>2, <2>3, <2>4
<1>4. QED
  BY <1>2, <1>3 DEF ios_ungetc

(***************************************************************************)
(* Moving, and the rest of the calls.                                      *)
(***************************************************************************)

\* Where the descriptor goes, an empty buffer goes too.
LEMMA MovedToGood ==
  ASSUME NEW t \in Stream, Good(t), NEW p \in Int
  PROVE  /\ [Lseek(t, p) EXCEPT !.buf = <<>>, !.bpos = 0] \in Stream
         /\ Good([Lseek(t, p) EXCEPT !.buf = <<>>, !.bpos = 0])
<1> DEFINE m == Lseek(t, p)
<1>1. m \in Stream /\ Good(m)
  BY LseekGood
<1> HIDE DEF m
<1>2. [m EXCEPT !.buf = <<>>, !.bpos = 0] \in Stream /\ Good([m EXCEPT !.buf = <<>>, !.bpos = 0])
  BY <1>1, Emptied
<1>3. QED
  BY <1>2 DEF m

LEMMA FlushEof ==
  ASSUME IInv, NEW nw \in Flushed(s), NEW e \in BOOLEAN
  PROVE  /\ [Flush(s, nw) EXCEPT !.eof = e] \in Stream
         /\ Good([Flush(s, nw) EXCEPT !.eof = e])
<1> DEFINE f == Flush(s, nw)
<1>1. f \in Stream /\ Good(f)
  BY Known, FlushedNat, FlushGood
<1> HIDE DEF f
<1>2. [f EXCEPT !.eof = e] \in Stream /\ Good([f EXCEPT !.eof = e])
  BY <1>1, SetEof
<1>3. QED
  BY <1>2 DEF f

LEMMA SeekStep ==
  ASSUME IInv, NEW p \in Nat, ios_seek(p)
  PROVE  IInv'
<1>1. CallOK'
  <2>1. \/ Did("seek", p, <<>>, -1) \/ Did("seek", p, <<>>, 0)
    BY DEF ios_seek
  <2>2. p \in Int /\ -1 \in Int /\ 0 \in Int
    OBVIOUS
  <2>3. QED
    BY Zenon, <2>1, <2>2, DidQuietly
<1>2. s' \in Stream /\ Good(s')
  <2>1. CASE InMemory /\ p > Len(s.buf)
    <3>1. s' = [s EXCEPT !.eof = FALSE]
      BY <2>1 DEF ios_seek
    <3>2. QED
      BY <3>1, Known, SetEof
  <2>2. CASE InMemory /\ ~(p > Len(s.buf))
    <3> DEFINE u == [s EXCEPT !.eof = FALSE, !.bpos = p]
    <3>1. s' = u
      BY <2>2 DEF ios_seek
    <3>2. u \in Stream
      BY Zenon, Known DEF Stream
    <3>3. u.bpos = p /\ u.buf = s.buf /\ u.maxsize = s.maxsize /\ u.inl = s.inl
      BY Zenon, Known DEF Stream
    <3> HIDE DEF u
    <3>4. p <= Len(s.buf)
      BY <2>2, Known
    <3>5. Good(u)
      BY <3>2, <3>3, <3>4, Known, GoodWithin
    <3>6. QED
      BY <3>1, <3>2, <3>5
  <2>3. CASE ~InMemory
    <3> DEFINE f(nw) == [Flush(s, nw) EXCEPT !.eof = FALSE]
    <3>1. PICK nw \in Flushed(s) :
            s' = f(nw) \/ s' = [Lseek(f(nw), p) EXCEPT !.buf = <<>>, !.bpos = 0]
      BY <2>3 DEF ios_seek
    <3>2. f(nw) \in Stream /\ Good(f(nw))
      BY FlushEof
    <3> HIDE DEF f
    <3>3. p \in Int
      OBVIOUS
    <3>4. QED
      BY Zenon, <3>1, <3>2, <3>3, MovedToGood
  <2>4. QED
    BY <2>1, <2>2, <2>3
<1>3. QED
  BY <1>1, <1>2, NextInv

LEMMA SeekEndStep ==
  ASSUME IInv, ios_seek_end
  PROVE  IInv'
<1>1. CallOK'
  <2>1. \/ Did("seek_end", 0, <<>>, -1) \/ Did("seek_end", 0, <<>>, 0)
    BY DEF ios_seek_end
  <2>2. -1 \in Int /\ 0 \in Int
    OBVIOUS
  <2>3. QED
    BY Zenon, <2>1, <2>2, DidQuietly
<1>2. s' \in Stream /\ Good(s')
  <2>1. CASE InMemory
    <3> DEFINE u == [s EXCEPT !.eof = TRUE, !.bpos = Len(s.buf)]
    <3>1. s' = u
      BY <2>1 DEF ios_seek_end
    <3>2. u \in Stream
      BY Zenon, Known DEF Stream
    <3>3. u.bpos = Len(s.buf) /\ u.buf = s.buf /\ u.maxsize = s.maxsize /\ u.inl = s.inl
      BY Zenon, Known DEF Stream
    <3> HIDE DEF u
    <3>4. Good(u)
      BY <3>2, <3>3, Known, GoodWithin
    <3>5. QED
      BY <3>1, <3>2, <3>4
  <2>2. CASE ~InMemory
    <3> DEFINE f(nw) == [Flush(s, nw) EXCEPT !.eof = TRUE]
    <3>1. PICK nw \in Flushed(s) :
            \/ s' = f(nw)
            \/ s' = [Lseek(f(nw), Len(f(nw).data)) EXCEPT !.buf = <<>>, !.bpos = 0]
      BY <2>2 DEF ios_seek_end
    <3>2. f(nw) \in Stream /\ Good(f(nw))
      BY FlushEof
    <3> HIDE DEF f
    <3>3. Len(f(nw).data) \in Int
      BY <3>2, LenProperties DEF Stream
    <3>4. QED
      BY Zenon, <3>1, <3>2, <3>3, MovedToGood
  <2>3. QED
    BY <2>1, <2>2
<1>3. QED
  BY <1>1, <1>2, NextInv

LEMMA SkipStep ==
  ASSUME IInv, NEW k \in Int, ios_skip(k)
  PROVE  IInv'
<1>1. CallOK'
  <2>1. \/ Did("skip", k, <<>>, -1) \/ Did("skip", k, <<>>, 0)
    BY DEF ios_skip, SkipWithin, SkipBeyond
  <2>2. -1 \in Int /\ 0 \in Int
    OBVIOUS
  <2>3. QED
    BY Zenon, <2>1, <2>2, DidQuietly
<1>2. CASE SkipWithin(k)
  <2> DEFINE u == [s EXCEPT !.bpos = @ + k, !.eof = @ /\ k > 0]
  <2>1. k <= Avail(s) /\ -k <= s.bpos /\ s' = u
    BY <1>2 DEF SkipWithin
  <2>2. s.bpos + k \in Nat /\ s.bpos + k <= Len(s.buf) /\ (s.eof /\ k > 0) \in BOOLEAN
    BY <2>1, Known
  <2>3. u \in Stream
    BY Zenon, <2>2, Known DEF Stream
  <2>4. u.bpos = s.bpos + k /\ u.buf = s.buf /\ u.maxsize = s.maxsize /\ u.inl = s.inl
    BY Zenon, Known DEF Stream
  <2> HIDE DEF u
  <2>5. Good(u)
    BY <2>2, <2>3, <2>4, Known, GoodWithin
  <2>6. QED
    BY <1>1, <2>1, <2>3, <2>5, NextInv
<1>3. CASE SkipBeyond(k)
  <2> DEFINE f(nw) == Flush(s, nw)
             to(nw) == f(nw).off + k + (CASE f(nw).state = "wr" -> f(nw).bpos
                                          [] f(nw).state = "rd" -> -Avail(f(nw))
                                          [] OTHER -> 0)
             m(nw) == Lseek(f(nw), to(nw))
  <2>1. PICK nw \in Flushed(s) :
          \/ s' = f(nw)
          \/ s' = [m(nw) EXCEPT !.buf = <<>>, !.bpos = 0, !.eof = FALSE]
    BY <1>3 DEF SkipBeyond
  <2>2. f(nw) \in Stream /\ Good(f(nw))
    BY Known, FlushedNat, FlushGood
  <2> HIDE DEF f
  <2>3. f(nw).off \in Nat /\ f(nw).bpos \in Nat /\ Len(f(nw).buf) \in Nat
    BY <2>2, LenProperties DEF Stream
  <2>4. to(nw) \in Int
    BY <2>3, SMTT(20) DEF Avail
  <2> HIDE DEF to
  <2>5. m(nw) \in Stream /\ Good(m(nw))
    BY <2>2, <2>4, LseekGood
  <2> HIDE DEF m
  <2> DEFINE u == [m(nw) EXCEPT !.buf = <<>>, !.bpos = 0, !.eof = FALSE]
  <2>6. <<>> \in Seq(Byte) /\ 0 \in Nat
    BY NoBytes
  <2>7. u \in Stream
    BY Zenon, <2>5, <2>6 DEF Stream
  <2>8. u.bpos = 0 /\ u.buf = <<>> /\ u.maxsize = m(nw).maxsize /\ u.inl = m(nw).inl
    BY Zenon, <2>5, <2>6 DEF Stream
  <2> HIDE DEF u
  <2>9. Good(u)
    BY <2>5, <2>7, <2>8, EmptiedGood
  <2>10. s' = f(nw) \/ s' = u
    BY Zenon, <2>1 DEF u
  <2>11. QED
    BY <1>1, <2>2, <2>7, <2>9, <2>10, NextInv
<1>4. CASE UNCHANGED s
  BY <1>1, <1>4, StaysInv
<1>5. QED
  BY <1>2, <1>3, <1>4 DEF ios_skip

LEMMA PosStep ==
  ASSUME IInv, ios_pos
  PROVE  IInv'
<1>1. s.fpos \in Nat \cup {-1}
  BY Known DEF Stream
<1>2. FilePos \in Nat \cup {-1}
  BY <1>1, Known DEF FilePos
<1>3. CASE InMemory
  <2>1. UNCHANGED s /\ Did("pos", 0, <<>>, s.bpos)
    BY <1>3 DEF ios_pos
  <2>2. s.bpos \in Int /\ 0 \in Int
    BY Known
  <2>3. CallOK'
    BY Zenon, <2>1, <2>2, DidQuietly
  <2>4. QED
    BY <2>1, <2>3, StaysInv
<1>4. CASE ~InMemory
  <2> DEFINE u == [s EXCEPT !.fpos = FilePos]
             r == IF FilePos = -1 THEN -1
                  ELSE CASE s.state = "wr" -> FilePos + s.bpos
                         [] s.state = "rd" -> FilePos - Avail(s)
                         [] OTHER -> FilePos
  <2>1. s' = u /\ Did("pos", 0, <<>>, r)
    BY <1>4 DEF ios_pos
  <2>2. r \in Int /\ 0 \in Int
    BY <1>2, Known
  <2> HIDE DEF r
  <2>3. CallOK'
    BY Zenon, <2>1, <2>2, DidQuietly
  <2>4. u \in Stream
    BY Zenon, <1>2, Known DEF Stream
  <2>5. u.bpos = s.bpos /\ u.buf = s.buf /\ u.maxsize = s.maxsize /\ u.inl = s.inl
    BY Zenon, Known DEF Stream
  <2> HIDE DEF u
  <2>6. Good(u)
    BY <2>4, <2>5, Known, GoodKept
  <2>7. QED
    BY <2>1, <2>3, <2>4, <2>6, NextInv
<1>5. QED
  BY <1>3, <1>4

LEMMA TruncStep ==
  ASSUME IInv, NEW n \in Nat, ios_trunc(n)
  PROVE  IInv'
<1>0. n \in Int
  OBVIOUS
<1>1. CASE n <= Len(s.buf)
  <2> DEFINE u == [s EXCEPT !.buf = First(@, n), !.bpos = Min2(@, n)]
  <2>1. s' = u /\ Did("trunc", n, <<>>, n)
    BY <1>1 DEF ios_trunc
  <2>2. CallOK'
    BY Zenon, <1>0, <2>1, DidQuietly
  <2>3. n \in 0..Len(s.buf) /\ Min2(s.bpos, n) \in 0..n
    BY <1>1, Known DEF Min2
  <2>4. First(s.buf, n) \in Seq(Byte) /\ Len(First(s.buf, n)) = n
    BY <2>3, Known, FirstBytes
  <2>5. Min2(s.bpos, n) \in Nat
    BY <2>3
  <2>6. u \in Stream
    BY Zenon, <2>4, <2>5, Known DEF Stream
  <2>7. /\ u.bpos = Min2(s.bpos, n) /\ u.buf = First(s.buf, n)
        /\ u.maxsize = s.maxsize /\ u.inl = s.inl
    BY Zenon, <2>4, <2>5, Known DEF Stream
  <2> HIDE DEF u
  <2>8. Good(u)
    BY <2>3, <2>4, <2>6, <2>7, Known, GoodWithin
  <2>9. QED
    BY <2>1, <2>2, <2>6, <2>8, NextInv
<1>2. CASE ~(n <= Len(s.buf))
  <2>1. PICK cap \in Realloc(s, n) :
          IF cap < n THEN UNCHANGED s /\ Did("refused", n, <<>>, Len(s.buf))
          ELSE \E junk \in [1..(n - Len(s.buf)) -> Byte] :
                 /\ s' = [Resized(s, cap) EXCEPT !.buf = @ \o junk]
                 /\ Did("trunc", n, <<>>, n)
    BY <1>2 DEF ios_trunc
  <2>2. cap \in Nat /\ cap >= s.maxsize /\ cap >= Len(s.buf)
    <3>1. cap \in Nat /\ cap >= s.maxsize
      BY <2>1, Known, ReallocGrows
    <3>2. QED
      BY <3>1, Known
  <2>3. CASE UNCHANGED s /\ Did("refused", n, <<>>, Len(s.buf))
    <3>1. Len(s.buf) \in Int
      BY Known
    <3>2. CallOK'
      BY Zenon, <1>0, <2>3, <3>1, DidQuietly
    <3>3. QED
      BY <2>3, <3>2, StaysInv
  <2>4. CASE /\ ~(cap < n)
             /\ \E junk \in [1..(n - Len(s.buf)) -> Byte] :
                  /\ s' = [Resized(s, cap) EXCEPT !.buf = @ \o junk]
                  /\ Did("trunc", n, <<>>, n)
    <3>1. PICK junk \in [1..(n - Len(s.buf)) -> Byte] :
                  /\ s' = [Resized(s, cap) EXCEPT !.buf = @ \o junk]
                  /\ Did("trunc", n, <<>>, n)
      BY <2>4
    <3>2. CallOK'
      BY Zenon, <1>0, <3>1, DidQuietly
    <3> DEFINE r == Resized(s, cap)
               b == r.buf \o junk
               u == [r EXCEPT !.buf = b]
    <3>3. r \in Stream /\ Good(r) /\ r.maxsize = cap
      BY <2>2, Known, ResizedGood
    <3>4. r.buf = s.buf
      BY Zenon, Known DEF Resized, Stream
    <3>5. s' = u
      BY Zenon, <3>1
    <3>6. n - Len(s.buf) \in Nat
      BY <1>2, Known
    <3> DEFINE m == n - Len(s.buf)
    <3>7. junk \in Seq(Byte) /\ Len(junk) = m
      <4>1. m \in Nat /\ junk \in [1..m -> Byte]
        BY <3>6
      <4> HIDE DEF m
      <4>2. QED
        BY <4>1
    <3> HIDE DEF r
    <3>8. b \in Seq(Byte) /\ Len(b) = Len(s.buf) + m
      <4> HIDE DEF m
      <4>1. QED
        BY <3>4, <3>7, Known, ConcatProperties
    <3> HIDE DEF b
    <3>9. u \in Stream
      BY Zenon, <3>3, <3>8 DEF Stream
    <3>10. u.bpos = r.bpos /\ u.buf = b /\ u.maxsize = r.maxsize /\ u.inl = r.inl
      BY Zenon, <3>3, <3>8 DEF Stream
    <3> HIDE DEF u
    <3>11. Good(u)
      <4>1. r.bpos \in Nat /\ r.bpos <= Len(s.buf) /\ (r.inl => cap <= InlSize)
        BY <3>3, <3>4 DEF Good, Stream
      <4>2. Len(b) = n
        BY <3>8, Known
      <4>3. u.bpos <= Len(u.buf) /\ Len(u.buf) <= u.maxsize
        BY <1>2, <2>2, <2>4, <3>3, <3>10, <4>1, <4>2, Known
      <4>4. QED
        BY <3>3, <3>10, <4>1, <4>3 DEF Good
    <3>12. QED
      BY <3>2, <3>5, <3>9, <3>11, NextInv
  <2>5. QED
    BY <2>1, <2>3, <2>4
<1>3. QED
  BY <1>1, <1>2

LEMMA FlushStep ==
  ASSUME IInv, ios_flush
  PROVE  IInv'
<1>1. PICK nw \in Flushed(s) :
        /\ s' = Flush(s, nw)
        /\ Did("flush", 0, <<>>, IF InMemory \/ nw = s.ndirty THEN 0 ELSE -1)
  BY DEF ios_flush
<1>2. s' \in Stream /\ Good(s')
  BY <1>1, Known, FlushedNat, FlushGood
<1>3. (IF InMemory \/ nw = s.ndirty THEN 0 ELSE -1) \in Int /\ 0 \in Int
  OBVIOUS
<1>4. CallOK'
  BY Zenon, <1>1, <1>3, DidQuietly
<1>5. QED
  BY <1>2, <1>4, NextInv

\* _buf_init leaves an empty stream, whatever it finds.
LEMMA RetakenGood ==
  ASSUME NEW t \in Stream, Good(t), NEW u \in Retaken(t)
  PROVE  u \in Stream /\ Good(u)
<1> DEFINE none  == [t EXCEPT !.buf = <<>>, !.bpos = 0]
           own   == [none EXCEPT !.maxsize = InlSize, !.inl = TRUE]
           fresh == [none EXCEPT !.maxsize = BufSize, !.inl = FALSE]
           lost  == [none EXCEPT !.status = "lost"]
<1>1. <<>> \in Seq(Byte) /\ Len(<<>>) = 0 /\ 0 \in Nat
  BY NoBytes
<1>2. InlSize \in Nat \ {0} /\ BufSize \in Nat \ {0}
  BY IosAssumption
<1>3. /\ none \in Stream /\ none.buf = <<>> /\ none.bpos = 0
      /\ none.maxsize = t.maxsize /\ none.inl = t.inl
  BY Zenon, <1>1 DEF Stream
<1>4. u \in {own, fresh, lost}
  BY DEF Retaken
<1> HIDE DEF none
<1>5. own \in Stream /\ fresh \in Stream /\ lost \in Stream
  BY Zenon, <1>2, <1>3 DEF Stream
<1>6. /\ own.buf = <<>> /\ own.bpos = 0 /\ own.maxsize = InlSize
      /\ fresh.buf = <<>> /\ fresh.bpos = 0 /\ fresh.maxsize = BufSize /\ fresh.inl = FALSE
      /\ lost.buf = <<>> /\ lost.bpos = 0 /\ lost.maxsize = t.maxsize /\ lost.inl = t.inl
  BY Zenon, <1>3 DEF Stream
<1> HIDE DEF own, fresh, lost
<1>7. t.maxsize \in Nat /\ (t.inl => t.maxsize <= InlSize) /\ (t.maxsize = 0 => t.inl)
  BY DEF Stream, Good
<1>8. Good(own) /\ Good(fresh)
  BY <1>1, <1>2, <1>6 DEF Good
<1>9. Good(lost)
  BY <1>1, <1>6, <1>7 DEF Good
<1>10. QED
  BY <1>4, <1>5, <1>8, <1>9

LEMMA TakebufStep ==
  ASSUME IInv, ios_takebuf
  PROVE  IInv'
<1> DEFINE f(nw) == Flush(s, nw)
<1>1. PICK nw \in Flushed(s) :
        \/ s' \in Retaken(f(nw)) /\ Did("take", 0, f(nw).buf, 0)
        \/ s' = f(nw) /\ Did("refused", 0, <<>>, 0)
  BY DEF ios_takebuf
<1>2. f(nw) \in Stream /\ Good(f(nw))
  BY Known, FlushedNat, FlushGood
<1> HIDE DEF f
<1>3. f(nw).buf \in Seq(Byte) /\ 0 \in Int
  BY <1>2 DEF Stream
<1>4. s' \in Stream /\ Good(s')
  BY <1>1, <1>2, RetakenGood
<1>5. CallOK'
  BY <1>1, <1>3, DidOK, DidQuietly
<1>6. QED
  BY <1>4, <1>5, NextInv

LEMMA BufmodeStep ==
  ASSUME IInv, NEW m \in Modes, ios_bufmode(m)
  PROVE  IInv'
<1> DEFINE u == [s EXCEPT !.bm = m]
<1>1. CASE InMemory
  <2>1. UNCHANGED s /\ Did("refused", 0, <<>>, -1)
    BY <1>1 DEF ios_bufmode
  <2>2. CallOK'
    BY <2>1, DidQuietly
  <2>3. QED
    BY <2>1, <2>2, StaysInv
<1>2. CASE ~InMemory
  <2>1. s' = u /\ Did("bufmode", 0, <<>>, 0)
    BY <1>2 DEF ios_bufmode
  <2>2. m \in {"none", "line", "block", "mem"}
    BY IosAssumption
  <2>3. u \in Stream
    BY Zenon, <2>2, Known DEF Stream
  <2>4. u.bpos = s.bpos /\ u.buf = s.buf /\ u.maxsize = s.maxsize /\ u.inl = s.inl
    BY Zenon, Known DEF Stream
  <2> HIDE DEF u
  <2>5. Good(u)
    BY <2>3, <2>4, Known, GoodKept
  <2>6. CallOK'
    BY <2>1, DidQuietly
  <2>7. QED
    BY <2>1, <2>3, <2>5, <2>6, NextInv
<1>3. QED
  BY <1>1, <1>2

\* A buffer given by the client holds what fits of the old one.
LEMMA SetbufStep ==
  ASSUME IInv, NEW n \in Nat \ {0}, ios_setbuf(n)
  PROVE  IInv'
<1> DEFINE f(nw) == Flush(s, nw)
           m(nw) == Min2(n, Len(f(nw).buf))
           b(nw) == First(f(nw).buf, m(nw))
           q(nw) == Min2(f(nw).bpos, n)
           u(nw) == [f(nw) EXCEPT !.buf = b(nw), !.bpos = q(nw), !.maxsize = n, !.inl = FALSE]
<1>1. PICK nw \in Flushed(s) : s' = u(nw)
  BY DEF ios_setbuf
<1>2. f(nw) \in Stream /\ Good(f(nw))
  BY Known, FlushedNat, FlushGood
<1> HIDE DEF f
<1>3. /\ f(nw).buf \in Seq(Byte) /\ Len(f(nw).buf) \in Nat /\ f(nw).bpos \in Nat
      /\ f(nw).bpos <= Len(f(nw).buf)
  BY <1>2, LenProperties DEF Stream, Good
<1>4. m(nw) \in 0..Len(f(nw).buf) /\ m(nw) <= n /\ q(nw) \in Nat /\ q(nw) <= m(nw)
  BY <1>3 DEF Min2
<1> HIDE DEF m, q
<1>5. b(nw) \in Seq(Byte) /\ Len(b(nw)) = m(nw)
  BY <1>3, <1>4, FirstBytes
<1> HIDE DEF b
<1>6. FALSE \in BOOLEAN
  OBVIOUS
<1>7. u(nw) \in Stream
  BY Zenon, <1>2, <1>4, <1>5, <1>6 DEF Stream
<1>8. u(nw).bpos = q(nw) /\ u(nw).buf = b(nw) /\ u(nw).maxsize = n /\ u(nw).inl = FALSE
  BY Zenon, <1>2, <1>4, <1>5, <1>6 DEF Stream
<1> HIDE DEF u
<1>9. Good(u(nw))
  BY <1>4, <1>5, <1>8 DEF Good
<1>10. n \in Int /\ 0 \in Int
  OBVIOUS
<1>11. CallOK'
  BY Zenon, <1>10, DidQuietly DEF ios_setbuf
<1>12. QED
  BY <1>1, <1>7, <1>9, <1>11, NextInv

LEMMA ReadonlyStep ==
  ASSUME IInv, ios_set_readonly
  PROVE  IInv'
<1> DEFINE f(nw) == Flush(s, nw)
           u(nw) == [f(nw) EXCEPT !.state = "none", !.readonly = TRUE]
<1>1. PICK nw \in Flushed(s) : s' = u(nw)
  BY DEF ios_set_readonly
<1>2. f(nw) \in Stream /\ Good(f(nw))
  BY Known, FlushedNat, FlushGood
<1> HIDE DEF f
<1>3. u(nw) \in Stream
  BY Zenon, <1>2 DEF Stream
<1>4. /\ u(nw).bpos = f(nw).bpos /\ u(nw).buf = f(nw).buf
      /\ u(nw).maxsize = f(nw).maxsize /\ u(nw).inl = f(nw).inl
  BY Zenon, <1>2 DEF Stream
<1> HIDE DEF u
<1>5. Good(u(nw))
  BY <1>2, <1>3, <1>4, GoodKept
<1>6. CallOK'
  BY DidQuietly DEF ios_set_readonly
<1>7. QED
  BY <1>1, <1>3, <1>5, <1>6, NextInv

LEMMA PurgeStep ==
  ASSUME IInv, ios_purge
  PROVE  IInv'
<1> DEFINE p == IF s.state = "rd" THEN Len(s.buf) ELSE s.bpos
           u == [s EXCEPT !.bpos = p]
<1>1. s' = u /\ Did("purge", 0, <<>>, 0)
  BY DEF ios_purge
<1>2. p \in Nat /\ p <= Len(s.buf)
  BY Known
<1> HIDE DEF p
<1>3. u \in Stream
  BY Zenon, <1>2, Known DEF Stream
<1>4. u.bpos = p /\ u.buf = s.buf /\ u.maxsize = s.maxsize /\ u.inl = s.inl
  BY Zenon, Known DEF Stream
<1> HIDE DEF u
<1>5. Good(u)
  BY <1>2, <1>3, <1>4, Known, GoodWithin
<1>6. CallOK'
  BY <1>1, DidQuietly
<1>7. QED
  BY <1>1, <1>3, <1>5, <1>6, NextInv

\* A closed stream has no buffer, so neither a size nor a position.
LEMMA CloseStep ==
  ASSUME IInv, ios_close
  PROVE  IInv'
<1> DEFINE f(nw) == Flush(s, nw)
           u(nw) == [f(nw) EXCEPT !.buf = <<>>, !.bpos = 0, !.maxsize = 0,
                                  !.inl = TRUE, !.status = "closed"]
<1>1. PICK nw \in Flushed(s) : s' = u(nw)
  BY DEF ios_close
<1>2. f(nw) \in Stream /\ Good(f(nw))
  BY Known, FlushedNat, FlushGood
<1> HIDE DEF f
<1>3. <<>> \in Seq(Byte) /\ Len(<<>>) = 0 /\ 0 \in Nat /\ TRUE \in BOOLEAN
  BY NoBytes
<1>4. u(nw) \in Stream
  BY Zenon, <1>2, <1>3 DEF Stream
<1>5. u(nw).bpos = 0 /\ u(nw).buf = <<>> /\ u(nw).maxsize = 0 /\ u(nw).inl = TRUE
  BY Zenon, <1>2, <1>3 DEF Stream
<1> HIDE DEF u
<1>6. InlSize \in Nat
  BY IosAssumption
<1>7. Good(u(nw))
  BY <1>3, <1>5, <1>6 DEF Good
<1>8. CallOK'
  BY DidQuietly DEF ios_close
<1>9. QED
  BY <1>1, <1>4, <1>7, <1>8, NextInv

LEMMA ReopenStep ==
  ASSUME IInv, Reopen
  PROVE  IInv'
<1>1. s' \in Openings(<<>>) \/ s' \in Openings(s.data)
  BY DEF Reopen
<1>2. <<>> \in Seq(Byte)
  BY NoBytes
<1>3. s' \in Stream /\ Good(s')
  BY <1>1, <1>2, Known, OpeningsGood
<1>4. CallOK'
  BY <1>2 DEF Reopen, CallOK
<1>5. QED
  BY <1>3, <1>4, NextInv

(***************************************************************************)
(* For the proofs about what the stream holds.                             *)
(***************************************************************************)

LEMMA Fields ==
  ASSUME NEW t \in Stream
  PROVE  /\ t.buf \in Seq(Byte) /\ Len(t.buf) \in Nat /\ t.data \in Seq(Byte) /\ Len(t.data) \in Nat
         /\ t.bpos \in Nat /\ t.ndirty \in Nat /\ t.off \in Nat /\ t.maxsize \in Nat
         /\ t.fpos \in Nat \cup {-1}
         /\ DOMAIN t = {"bm", "state", "buf", "maxsize", "bpos", "ndirty", "fpos", "readonly",
                        "eof", "inl", "data", "off", "status"}
<1>1. t.buf \in Seq(Byte) /\ t.data \in Seq(Byte)
  BY DEF Stream
<1>2. Len(t.buf) \in Nat /\ Len(t.data) \in Nat
  BY <1>1, LenProperties
<1>3. QED
  BY <1>1, <1>2 DEF Stream

LEMMA PutIs ==
  ASSUME NEW t \in Stream, NEW d \in Seq(Byte)
  PROVE  /\ Put(t, d).buf = Overlay(t.buf, t.bpos, d)
         /\ Put(t, d).bpos = t.bpos + Len(d)
         /\ Put(t, d).ndirty = Max2(t.ndirty, t.bpos + Len(d))
         /\ \A f \in DOMAIN t \ {"buf", "bpos", "ndirty"} : Put(t, d)[f] = t[f]
BY Zenon DEF Put, Stream

LEMMA NothingAvail ==
  ASSUME IInv, s.buf = <<>>
  PROVE  Avail(s) = 0 /\ s.bpos = 0
BY Known, NoBytes DEF Avail

(***************************************************************************)
(* The theorems.                                                           *)
(***************************************************************************)

LEMMA NextStep ==
  ASSUME IInv, [Next]_vars
  PROVE  IInv'
<1>1. ASSUME NEW d \in Payloads, ios_write(d) \/ ios_vprintf(d)
      PROVE  IInv'
  <2>1. d \in Seq(Byte)
    BY Zenon, IosAssumption
  <2>2. QED
    BY <1>1, <2>1, WriteStep, PrintfStep
<1>2. ASSUME NEW c \in Chars, ios_putc(c)
      PROVE  IInv'
  <2>1. c \in Byte
    BY Zenon, IosAssumption
  <2>2. QED
    BY <1>2, <2>1, PutcStep
<1>3. ASSUME NEW n \in Counts, ios_read(n) \/ ios_readall(n) \/ ios_readprep(n)
      PROVE  IInv'
  <2>1. n \in Nat
    BY Zenon, IosAssumption
  <2>2. QED
    BY <1>3, <2>1, ReadStep, PrepStep DEF ios_read, ios_readall
<1>4. CASE ios_getc \/ ios_peekc \/ ios_ungetc
  BY <1>4, GetcStep, PeekStep, UngetStep
<1>5. ASSUME NEW p \in 0..MaxSize, ios_seek(p) \/ ios_trunc(p)
      PROVE  IInv'
  <2>1. MaxSize \in Nat
    BY Zenon, IosAssumption
  <2>2. p \in Nat
    BY <2>1
  <2>3. QED
    BY <1>5, <2>2, SeekStep, TruncStep
<1>6. ASSUME NEW k \in Skips, ios_skip(k)
      PROVE  IInv'
  <2>1. k \in Int
    BY Zenon, IosAssumption
  <2>2. QED
    BY <1>6, <2>1, SkipStep
<1>7. ASSUME NEW m \in Modes, ios_bufmode(m)
      PROVE  IInv'
  BY <1>7, BufmodeStep
<1>8. ASSUME NEW n \in Bufs, ios_setbuf(n)
      PROVE  IInv'
  <2>1. n \in Nat \ {0}
    BY Zenon, IosAssumption
  <2>2. QED
    BY <1>8, <2>1, SetbufStep
<1>9. CASE ios_seek_end \/ ios_pos \/ ios_flush \/ ios_takebuf \/ ios_set_readonly
  BY <1>9, SeekEndStep, PosStep, FlushStep, TakebufStep, ReadonlyStep
<1>10. CASE ios_purge \/ ios_close \/ Reopen
  BY <1>10, PurgeStep, CloseStep, ReopenStep
<1>11. CASE UNCHANGED vars
  <2>1. UNCHANGED s /\ UNCHANGED call
    BY <1>11 DEF vars
  <2>2. CallOK'
    BY <2>1 DEF IInv, TypeOK, CallOK
  <2>3. QED
    BY <2>1, <2>2, StaysInv
<1>12. QED
  BY <1>1, <1>2, <1>3, <1>4, <1>5, <1>6, <1>7, <1>8, <1>9, <1>10, <1>11 DEF Next

LEMMA Inductive == Spec => []IInv
<1>1. Init => IInv
  BY InitOK
<1>2. IInv /\ [Next]_vars => IInv'
  BY NextStep
<1>3. QED
  BY <1>1, <1>2, PTL DEF Spec

\* Every field of an ios_t keeps its type: no size, position or offset that the
\* functions of ios.c compute by subtraction goes below zero.
THEOREM TypeCorrect == Spec => []TypeOK
<1>1. IInv => TypeOK
  BY DEF IInv
<1>2. QED
  BY <1>1, Inductive, PTL

\* The position stays within the valid bytes and these within the allocated ones,
\* on which the memcpy, read and write calls of ios.c rely to stay inside the
\* buffer, for any kind of stream, any client, any failure of a read, a write or
\* an allocation, and buffers of any size but zero.
THEOREM StaysInBuffer == Spec => []BufferBounds
<1>1. IInv => BufferBounds
  BY DEF IInv, Good, BufferBounds
<1>2. QED
  BY <1>1, Inductive, PTL

-------------------------------------------------------------------------------
(***************************************************************************)
(* MEMORY STREAMS. Whatever the client does, they stay memory streams and  *)
(* are never stuck; to a client that keeps the duties of MayWrite, MayRead *)
(* and MayGrow they are the array of bytes and the pointer that ios.h      *)
(* promises.                                                               *)
(***************************************************************************)

(***************************************************************************)
(* Steps of ByteStream, in terms of Contents and Pos.                      *)
(***************************************************************************)

PStep == [Pointer!Next]_(Pointer!vars)

\* ByteStream cuts and overlays as ios.c does.
LEMMA SameBytes ==
  /\ \A a, b : Pointer!Max2(a, b) = Max2(a, b) /\ Pointer!Min2(a, b) = Min2(a, b)
  /\ \A c, n : Pointer!First(c, n) = First(c, n)
  /\ \A c, at, n : Pointer!Slice(c, at, n) = Slice(c, at, n)
  /\ \A c, at, d : Pointer!Overlay(c, at, d) = Overlay(c, at, d)
BY DEF Pointer!Max2, Pointer!Min2, Pointer!First, Pointer!Slice, Pointer!Overlay,
       Max2, Min2, First, Slice, Overlay

LEMMA QuietPromise ==
  ASSUME Contents(s') = Contents(s), Pos(s') = Pos(s),
         call'.op \in {"flush", "prep", "setbuf", "bufmode", "readonly", "refused"}
  PROVE  PStep
BY DEF PStep, Pointer!Next, Pointer!Quiet

LEMMA WritePromise ==
  ASSUME NEW d, NEW k \in 0..Len(d), Did("write", 0, d, k),
         k = Len(d) \/ (InMemory /\ AllocFails),
         Contents(s') = Overlay(Contents(s), Pos(s), First(d, k)), Pos(s') = Pos(s) + k
  PROVE  PStep
<1>1. call'.op = "write" /\ call'.bytes = d /\ call'.ret = k
  BY DEF Did
<1>2. Pointer!Write
  BY <1>1, SameBytes DEF Pointer!Write
<1>3. QED
  BY <1>2 DEF PStep, Pointer!Next

\* k bytes to the caller, all that he asked for or all that there are; ios_read
\* may also stop after the first.
LEMMA ReadPromise ==
  ASSUME NEW op \in {"read", "readall", "getc"}, NEW n \in Nat \ {0}, NEW k \in Nat,
         Pos(s) \in Nat, Len(Contents(s)) \in Nat,
         k <= n, k <= Max2(0, Len(Contents(s)) - Pos(s)),
         k < n => \/ k = Max2(0, Len(Contents(s)) - Pos(s))
                  \/ op = "read" /\ k > 0,
         Len(Slice(Contents(s), Pos(s), k)) = k,
         Got(op, n, Slice(Contents(s), Pos(s), k)),
         Contents(s') = Contents(s), Pos(s') = Pos(s) + k
  PROVE  PStep
<1> DEFINE left == Max2(0, Len(Contents(s)) - Pos(s))
<1>1. call'.op = op /\ call'.num = n /\ call'.bytes = Slice(Contents(s), Pos(s), k)
  BY DEF Got, Did
<1>2. Pointer!Left = left
  BY SameBytes DEF Pointer!Left
<1>3. left \in Nat
  BY DEF Max2
<1>4. k = Min2(left, n) \/ (op = "read" /\ k > 0 /\ k <= left /\ k <= n)
  <2> HIDE DEF left
  <2>1. k <= n /\ k <= left /\ (k < n => k = left \/ (op = "read" /\ k > 0))
    BY DEF left
  <2>2. QED
    BY <1>3, <2>1 DEF Min2
<1>5. CASE op = "read"
  <2>1. k \in (IF left = 0 THEN {0} ELSE 1..Min2(left, n))
    <3> HIDE DEF left
    <3>1. k <= left
      BY DEF left
    <3>2. CASE left = 0
      BY <1>3, <3>1, <3>2
    <3>3. CASE left # 0
      <4>1. k >= 1
        BY <1>3, <1>4, <3>3 DEF Min2
      <4>2. k <= Min2(left, n)
        BY <1>3, <1>4 DEF Min2
      <4>3. Min2(left, n) \in Nat
        BY <1>3 DEF Min2
      <4>4. QED
        BY <3>3, <4>1, <4>2, <4>3
    <3>4. QED
      BY <3>2, <3>3
  <2> HIDE DEF left
  <2>2. Pointer!Read
    BY <1>1, <1>2, <1>5, <2>1, SameBytes DEF Pointer!Read
  <2>3. QED
    BY <2>2 DEF PStep, Pointer!Next
<1>6. CASE op \in {"readall", "getc"}
  <2>1. k = Min2(left, n)
    BY <1>4, <1>6
  <2> HIDE DEF left
  <2>2. Pointer!ReadAll
    BY <1>1, <1>2, <1>6, <2>1, SameBytes DEF Pointer!ReadAll
  <2>3. QED
    BY <2>2 DEF PStep, Pointer!Next
<1>7. QED
  BY <1>5, <1>6

LEMMA PeekPromise ==
  ASSUME Contents(s') = Contents(s), Pos(s') = Pos(s), call'.op = "peek",
         call'.bytes = Slice(Contents(s), Pos(s), Min2(Max2(0, Len(Contents(s)) - Pos(s)), 1))
  PROVE  PStep
<1>1. Pointer!Peek
  BY SameBytes DEF Pointer!Peek, Pointer!Left
<1>2. QED
  BY <1>1 DEF PStep, Pointer!Next

LEMMA UngetPromise ==
  ASSUME Contents(s') = Contents(s), Pos(s') = Pos(s) - 1, call'.op = "unget"
  PROVE  PStep
<1>1. Pointer!Unget
  BY DEF Pointer!Unget
<1>2. QED
  BY <1>1 DEF PStep, Pointer!Next

LEMMA MovePromise ==
  ASSUME NEW op \in {"seek", "seek_end", "skip"}, NEW num, NEW ret,
         Did(op, num, <<>>, ret), Contents(s') = Contents(s),
         IF ret # 0 THEN Pos(s') = Pos(s)
         ELSE /\ op = "seek" => Pos(s') = num
              /\ op = "seek_end" => Pos(s') = Len(Contents(s))
              /\ op = "skip" => Pos(s') = Pos(s) + num
  PROVE  PStep
<1>1. call'.op = op /\ call'.num = num /\ call'.ret = ret
  BY DEF Did
<1>2. Pointer!Move
  BY <1>1 DEF Pointer!Move
<1>3. QED
  BY <1>2 DEF PStep, Pointer!Next

LEMMA TellPromise ==
  ASSUME Contents(s') = Contents(s), Pos(s') = Pos(s), call'.op = "pos", call'.ret = Pos(s)
  PROVE  PStep
BY DEF PStep, Pointer!Next, Pointer!Tell

LEMMA PurgePromise ==
  ASSUME Contents(s') = Contents(s), call'.op = "purge",
         Pos(s') \in Pos(s)..(Pos(s) + Max2(0, Len(Contents(s)) - Pos(s)))
  PROVE  PStep
BY SameBytes DEF PStep, Pointer!Next, Pointer!Purge, Pointer!Left

LEMMA ClosePromise ==
  ASSUME Contents(s') = (IF InMemory THEN <<>> ELSE Contents(s)), Pos(s') \in Int,
         call'.op = "close"
  PROVE  PStep
BY DEF PStep, Pointer!Next, Pointer!Close

LEMMA OpenPromise ==
  ASSUME ~InMemory => Contents(s') \in {Contents(s), <<>>}, Pos(s') = 0, call'.op = "open"
  PROVE  PStep
BY DEF PStep, Pointer!Next, Pointer!Reopen

(***************************************************************************)
(* The invariants: for any client, and for the one that keeps its duties.  *)
(***************************************************************************)

MemOK ==
  /\ s.bm = "mem" /\ s.status \in {"open", "closed"}
  /\ call.op = "getc" /\ call.bytes # <<>> => s.state = "rd"

MemView ==
  /\ s.eof => s.bpos >= Len(s.buf)
  /\ call.op = "getc" /\ call.bytes # <<>> =>
       s.bpos \in 1..Len(s.buf) /\ s.buf[s.bpos] = call.bytes[1]

Dutiful == Client # "any" /\ MemView

LEMMA InBuf ==
  ASSUME InMemory
  PROVE  /\ Contents(s) = s.buf /\ Pos(s) = s.bpos
         /\ Contents(s') = s'.buf /\ Pos(s') = s'.bpos
BY DEF Contents, Pos

LEMMA MemNext ==
  ASSUME s'.bm = s.bm, MemOK, s'.status \in {"open", "closed"}, call'.op # "getc"
  PROVE  MemOK'
BY DEF MemOK

LEMMA MemSeen ==
  ASSUME s'.eof => s'.bpos >= Len(s'.buf), call'.op # "getc"
  PROVE  MemView'
BY Zenon DEF MemView

\* A call that leaves contents and position as they are.
LEMMA MemStays ==
  ASSUME InMemory, MemOK, s'.bm = s.bm, s'.status \in {"open", "closed"},
         s'.buf = s.buf, s'.bpos = s.bpos, s'.eof = s.eof,
         call'.op \in {"flush", "prep", "setbuf", "bufmode", "readonly", "refused"}
  PROVE  MemOK' /\ (Dutiful => MemView' /\ PStep)
<1>0. call'.op # "getc"
  OBVIOUS
<1>1. MemOK'
  BY <1>0, MemNext
<1>2. ASSUME MemView PROVE MemView'
  <2>1. s'.eof => s'.bpos >= Len(s'.buf)
    BY Zenon, <1>2 DEF MemView
  <2>2. QED
    BY <1>0, <2>1, MemSeen
<1>3. PStep
  BY InBuf, QuietPromise
<1>4. QED
  BY <1>1, <1>2, <1>3 DEF Dutiful

(***************************************************************************)
(* Writing.                                                                *)
(***************************************************************************)

\* An allocator that always has memory gives what is asked for.
LEMMA CapacitiesSuffice ==
  ASSUME NEW t \in Stream, Good(t), NEW n \in Nat, NEW cap \in Capacities(t, n), ~AllocFails
  PROVE  t.bpos + n <= cap
<1>1. t.maxsize \in Nat /\ t.bpos + n \in Nat
  BY DEF Stream
<1>2. CASE t.bpos + n <= t.maxsize
  BY <1>1, <1>2 DEF Capacities
<1>3. CASE ~(t.bpos + n <= t.maxsize)
  <2>1. PICK m \in Doubled(t, t.bpos + n) : cap \in Realloc(t, m)
    BY <1>3 DEF Capacities
  <2>2. m \in Nat /\ m >= t.bpos + n
    BY <1>1, <2>1 DEF Doubled
  <2>3. cap >= m
    BY <1>1, <2>1, <2>2, IosAssumption DEF Realloc
  <2>4. cap \in Nat
    BY <2>1, <2>2, ReallocGrows
  <2>5. QED
    BY <1>1, <2>2, <2>3, <2>4
<1>4. QED
  BY <1>2, <1>3

\* At the end, only what is written makes the contents longer.
LEMMA OverlayEnd ==
  ASSUME NEW c \in Seq(Byte), NEW at \in Nat, NEW e \in Seq(Byte), at >= Len(c)
  PROVE  Len(Overlay(c, at, e)) <= at + Len(e)
<1>1. Len(c) \in Nat /\ Len(e) \in Nat
  BY LenProperties
<1>2. Len(Overlay(c, at, e)) = IF e = <<>> THEN Len(c) ELSE Max2(Len(c), at + Len(e))
  BY ByteOverlay
<1>3. CASE e = <<>>
  BY <1>1, <1>2, <1>3
<1>4. CASE e # <<>>
  BY <1>1, <1>2, <1>4 DEF Max2
<1>5. QED
  BY <1>3, <1>4

LEMMA MemWriting ==
  ASSUME InMemory, NEW t \in Stream, Good(t), t.bm = "mem", ~t.readonly,
         NEW d \in Seq(Byte), Writing(t, d)
  PROVE  \E k \in 0..Len(d) :
           /\ Did("write", 0, d, k) /\ (k = Len(d) \/ AllocFails)
           /\ LET o == ForWriting(t) IN
              /\ s'.buf = Overlay(o.buf, o.bpos, First(d, k)) /\ s'.bpos = o.bpos + k
              /\ s'.eof = o.eof /\ s'.bm = o.bm /\ s'.status = o.status
<1> DEFINE o == ForWriting(t)
<1>0. o \in Stream /\ Good(o) /\ Len(d) \in Nat
  BY ForWritingGood, LenProperties
<1>1. PICK cap \in Capacities(o, Len(d)) :
        /\ s' = WriteGrow(o, d, cap)
        /\ Did("write", 0, d, Min2(Len(d), cap - o.bpos))
  BY DEF Writing, WriteMem, WriteUnbuffered, WriteBuffered, WriteThrough
<1> HIDE DEF o
<1> DEFINE k == Min2(Len(d), cap - o.bpos)
           r == Resized(o, cap)
<1>2. /\ cap \in Nat /\ cap >= o.maxsize /\ o.bpos \in Nat /\ o.maxsize \in Nat
      /\ Len(o.buf) \in Nat /\ o.bpos <= Len(o.buf) /\ Len(o.buf) <= o.maxsize
  BY <1>0, CapacitiesGrow, Fields DEF Good
<1>3. k \in 0..Len(d)
  BY <1>0, <1>2 DEF Min2
<1>4. k = Len(d) \/ AllocFails
  <2>1. SUFFICES ASSUME ~AllocFails PROVE k = Len(d)
    OBVIOUS
  <2>2. o.bpos + Len(d) <= cap
    BY <1>0, <2>1, CapacitiesSuffice
  <2>3. QED
    BY <1>0, <1>2, <2>2 DEF Min2
<1>5. r \in Stream /\ \A f \in DOMAIN o \ {"maxsize", "inl"} : r[f] = o[f]
  BY <1>0, <1>2, ResizedGood
<1>6. {"buf", "bpos", "eof", "bm", "status"} \subseteq DOMAIN o \ {"maxsize", "inl"}
  BY <1>0, Fields
<1>7. r.buf = o.buf /\ r.bpos = o.bpos /\ r.bm = o.bm /\ r.status = o.status
  BY <1>5, <1>6
<1>8. r.eof = o.eof
  BY Zenon, <1>5, <1>6
<1>9. First(d, k) \in Seq(Byte) /\ Len(First(d, k)) = k
  BY <1>0, <1>3, FirstBytes
<1>10. s' = Put(r, First(d, k))
  BY <1>1 DEF WriteGrow
<1> HIDE DEF r, k
<1>11. /\ s'.buf = Overlay(o.buf, o.bpos, First(d, k)) /\ s'.bpos = o.bpos + k
       /\ \A f \in DOMAIN r \ {"buf", "bpos", "ndirty"} : s'[f] = r[f]
  BY <1>5, <1>7, <1>9, <1>10, PutIs
<1>12. {"eof", "bm", "status"} \subseteq DOMAIN r \ {"buf", "bpos", "ndirty"}
  BY <1>5, Fields
<1>13. s'.bm = o.bm /\ s'.status = o.status
  BY <1>7, <1>11, <1>12
<1>14. s'.eof = o.eof
  BY Zenon, <1>8, <1>11, <1>12
<1>15. Did("write", 0, d, k)
  BY <1>1 DEF k
<1>16. QED
  BY <1>3, <1>4, <1>11, <1>13, <1>14, <1>15 DEF o

\* Turning to writing changes neither mode nor status, and of a stream that was
\* not being read nothing but the state.
LEMMA MemForWriting ==
  ASSUME NEW t \in Stream, Good(t)
  PROVE  LET o == ForWriting(t) IN
         /\ o.bm = t.bm /\ o.status = t.status /\ o.eof = t.eof
         /\ t.state # "rd" \/ t.buf = <<>> => o.buf = t.buf /\ o.bpos = t.bpos
<1> DEFINE o == ForWriting(t)
<1>0. /\ t \in Stream /\ t.bpos \in Nat /\ t.bpos <= Len(t.buf)
      /\ Len(<<>>) = 0
  BY NoBytes DEF Stream, Good
<1>1. CASE t.state = "none"
  <2>1. o = [t EXCEPT !.state = "wr"]
    BY <1>1 DEF ForWriting
  <2> HIDE DEF o
  <2>2. o.bm = t.bm /\ o.status = t.status /\ o.eof = t.eof /\ o.buf = t.buf /\ o.bpos = t.bpos
    BY Zenon, <1>0, <2>1 DEF Stream
  <2>3. QED
    BY Zenon, <2>2 DEF o
<1>2. CASE t.state = "rd" /\ ~rereadable
  <2>1. o = [t EXCEPT !.buf = <<>>, !.bpos = 0]
    BY <1>2 DEF ForWriting
  <2> HIDE DEF o
  <2>2. o.bm = t.bm /\ o.status = t.status /\ o.eof = t.eof /\ o.buf = <<>> /\ o.bpos = 0
    BY Zenon, <1>0, <2>1 DEF Stream
  <2>3. t.buf = <<>> => t.bpos = 0
    BY <1>0
  <2>4. QED
    BY Zenon, <1>2, <2>2, <2>3 DEF o
<1>3. CASE t.state # "none" /\ ~(t.state = "rd" /\ ~rereadable)
  BY <1>3 DEF ForWriting
<1>4. QED
  BY <1>1, <1>2, <1>3

LEMMA MemWrite ==
  ASSUME IInv, InMemory, MemOK, NEW d \in Seq(Byte) \ {<<>>}, ios_write(d)
  PROVE  MemOK' /\ (Dutiful => MemView' /\ PStep)
<1>0. /\ s \in Stream /\ s.buf \in Seq(Byte) /\ Len(s.buf) \in Nat /\ s.bpos \in Nat
      /\ s.bpos <= Len(s.buf) /\ s.bm = "mem" /\ Len(d) \in Nat
      /\ s.status \in {"open", "closed"} /\ d \in Seq(Byte)
  BY Known, LenProperties DEF MemOK
<1>1. CASE s.readonly /\ Did("refused", 0, <<>>, 0) /\ UNCHANGED s
  <2>1. call'.op = "refused" /\ s' = s
    BY <1>1 DEF Did
  <2>2. QED
    BY <1>0, <2>1, MemStays
<1>2. CASE ~s.readonly
  <2> DEFINE o == ForWriting(s)
  <2>1. PICK k \in 0..Len(d) :
          /\ Did("write", 0, d, k) /\ (k = Len(d) \/ AllocFails)
          /\ s'.buf = Overlay(o.buf, o.bpos, First(d, k)) /\ s'.bpos = o.bpos + k
          /\ s'.eof = o.eof /\ s'.bm = o.bm /\ s'.status = o.status
    BY <1>0, <1>2, Known, MemWriting DEF ios_write
  <2>2. /\ o.bm = s.bm /\ o.status = s.status /\ o.eof = s.eof
        /\ s.state # "rd" \/ s.buf = <<>> => o.buf = s.buf /\ o.bpos = s.bpos
    BY Known, MemForWriting
  <2> HIDE DEF o
  <2>3. call'.op = "write" /\ s'.bm = s.bm /\ s'.status = s.status
    BY <2>1, <2>2 DEF Did
  <2>4. MemOK'
    BY <1>0, <2>3, MemNext
  <2>5. ASSUME Dutiful PROVE MemView' /\ PStep
    <3>1. s.state # "rd" \/ s.buf = <<>>
      BY <2>5 DEF ios_write, MayWrite, Dutiful, InMemory
    <3>2. s'.buf = Overlay(s.buf, s.bpos, First(d, k)) /\ s'.bpos = s.bpos + k
      BY <2>1, <2>2, <3>1
    <3>3. s'.eof = s.eof
      BY Zenon, <2>1, <2>2
    <3>4. First(d, k) \in Seq(Byte) /\ Len(First(d, k)) = k
      BY <1>0, FirstBytes
    <3>5. s'.eof => s'.bpos >= Len(s'.buf)
      <4>1. SUFFICES ASSUME s.eof PROVE s'.bpos >= Len(s'.buf)
        BY Zenon, <3>3
      <4>2. s.bpos >= Len(s.buf)
        BY Zenon, <2>5, <4>1 DEF Dutiful, MemView
      <4>3. Len(s'.buf) <= s.bpos + k
        BY <1>0, <3>2, <3>4, <4>2, OverlayEnd
      <4>4. QED
        BY <3>2, <4>3
    <3>6. call'.op # "getc"
      BY <2>3
    <3>7. QED
      BY <2>1, <3>2, <3>5, <3>6, MemSeen, InBuf, WritePromise
  <2>6. QED
    BY <2>4, <2>5
<1>3. QED
  BY <1>1, <1>2 DEF ios_write, Writing

LEMMA MemPutDirectly ==
  ASSUME IInv, InMemory, MemOK, NEW d \in Seq(Byte), PutDirectly(s, d)
  PROVE  MemOK' /\ (Dutiful => MemView' /\ PStep)
<1>0. /\ s \in Stream /\ s.buf \in Seq(Byte) /\ Len(s.buf) \in Nat /\ s.bpos \in Nat
      /\ s.bpos <= Len(s.buf) /\ s.bm = "mem" /\ Len(d) \in Nat
      /\ s.status \in {"open", "closed"}
  BY Known, LenProperties DEF MemOK
<1>1. s' = Put(s, d) /\ Did("write", 0, d, Len(d))
  BY <1>0 DEF PutDirectly
<1>2. /\ s'.buf = Overlay(s.buf, s.bpos, d) /\ s'.bpos = s.bpos + Len(d)
      /\ \A f \in DOMAIN s \ {"buf", "bpos", "ndirty"} : s'[f] = s[f]
  BY <1>0, <1>1, PutIs
<1>3. {"eof", "bm", "status"} \subseteq DOMAIN s \ {"buf", "bpos", "ndirty"}
  BY <1>0, Fields
<1>4. s'.bm = s.bm /\ s'.status = s.status /\ call'.op = "write"
  BY <1>1, <1>2, <1>3 DEF Did
<1>5. MemOK'
  BY <1>0, <1>4, MemNext
<1>6. ASSUME MemView PROVE MemView'
  <2>1. s'.eof = s.eof
    BY Zenon, <1>2, <1>3
  <2>2. s'.eof => s'.bpos >= Len(s'.buf)
    <3>1. SUFFICES ASSUME s.eof PROVE s'.bpos >= Len(s'.buf)
      BY Zenon, <2>1
    <3>2. s.bpos >= Len(s.buf)
      BY Zenon, <1>6, <3>1 DEF MemView
    <3>3. Len(s'.buf) <= s.bpos + Len(d)
      BY <1>0, <1>2, <3>2, OverlayEnd
    <3>4. QED
      BY <1>2, <3>3
  <2>3. QED
    BY <1>4, <2>2, MemSeen
<1>7. PStep
  <2>1. First(d, Len(d)) = d /\ Len(d) \in 0..Len(d)
    BY <1>0, FirstAll
  <2>2. QED
    BY <1>1, <1>2, <2>1, InBuf, WritePromise
<1>8. QED
  BY <1>5, <1>6, <1>7 DEF Dutiful

\* Printing anywhere changes neither the mode nor the status.
LEMMA MemPrinted ==
  ASSUME IInv, InMemory, MemOK, NEW d \in Seq(Byte), HasRoom,
         PutDirectly(Printed(s, d), d) \/ Writing(Printed(s, d), d)
  PROVE  MemOK'
<1> DEFINE t == Printed(s, d)
<1>1. t \in Stream /\ Good(t) /\ t.bm = "mem" /\ t.status \in {"open", "closed"}
  <2>1. s \in Stream /\ t \in Stream /\ Good(t)
    BY Known, PrintedGood DEF HasRoom
  <2>2. t.bm = s.bm /\ t.status = s.status
    BY Zenon, <2>1 DEF Printed, Stream
  <2>3. QED
    BY <2>1, <2>2 DEF MemOK
<1> HIDE DEF t
<1>2. CASE PutDirectly(t, d)
  <2>1. s' = Put(t, d) /\ Did("write", 0, d, Len(d))
    BY <1>1, <1>2 DEF PutDirectly
  <2>2. \A f \in DOMAIN t \ {"buf", "bpos", "ndirty"} : s'[f] = t[f]
    BY <1>1, <2>1, PutIs
  <2>3. {"bm", "status"} \subseteq DOMAIN t \ {"buf", "bpos", "ndirty"}
    BY <1>1, Fields
  <2>4. s'.bm = t.bm /\ s'.status = t.status /\ call'.op = "write"
    BY <2>1, <2>2, <2>3 DEF Did
  <2>5. QED
    BY <1>1, <2>4 DEF MemOK
<1>3. CASE Writing(t, d) /\ t.readonly
  <2>1. s' = t /\ call'.op = "refused"
    BY <1>3 DEF Writing, Did
  <2>2. QED
    BY <1>1, <2>1 DEF MemOK
<1>4. CASE Writing(t, d) /\ ~t.readonly
  <2> DEFINE o == ForWriting(t)
  <2>1. PICK k \in 0..Len(d) :
          Did("write", 0, d, k) /\ s'.bm = o.bm /\ s'.status = o.status
    BY <1>1, <1>4, MemWriting
  <2>2. o.bm = t.bm /\ o.status = t.status
    BY <1>1, MemForWriting
  <2> HIDE DEF o
  <2>3. call'.op = "write" /\ s'.bm = "mem" /\ s'.status \in {"open", "closed"}
    BY <1>1, <2>1, <2>2 DEF Did
  <2>4. QED
    BY <2>3 DEF MemOK
<1>5. QED
  BY <1>2, <1>3, <1>4 DEF t

LEMMA MemPrintf ==
  ASSUME IInv, InMemory, MemOK, NEW d \in Seq(Byte) \ {<<>>}, ios_vprintf(d)
  PROVE  MemOK' /\ (Dutiful => MemView' /\ PStep)
<1>0. d \in Seq(Byte)
  OBVIOUS
<1>1. CASE Client # "any"
  <2>1. ios_write(d) \/ PutDirectly(s, d)
    BY <1>0, <1>1, PrintsPlainly
  <2>2. QED
    BY <1>0, <2>1, MemWrite, MemPutDirectly
<1>2. CASE Client = "any" /\ HasRoom
  <2>1. PutDirectly(Printed(s, d), d) \/ Writing(Printed(s, d), d)
    BY <1>2 DEF ios_vprintf
  <2>2. QED
    BY <1>0, <1>2, <2>1, MemPrinted DEF Dutiful
<1>3. CASE ~HasRoom
  <2>1. ios_write(d)
    BY <1>3 DEF ios_vprintf, ios_write
  <2>2. QED
    BY <2>1, MemWrite
<1>4. QED
  BY <1>1, <1>2, <1>3

(***************************************************************************)
(* Reading.                                                                *)
(***************************************************************************)

LEMMA AfterIsSlice ==
  ASSUME NEW S, NEW c \in Seq(S), NEW n \in 0..Len(c)
  PROVE  After(c, n) = Slice(c, n, Len(c) - n)
<1>1. Len(c) \in Nat
  BY LenProperties
<1>2. n + (Len(c) - n) = Len(c)
  BY <1>1
<1>3. QED
  BY <1>2 DEF After, Slice

\* The byte that ios_peekc finds behind the position.
LEMMA PeekedIs ==
  ASSUME NEW S, NEW c \in Seq(S), NEW at \in 0..Len(c)
  PROVE  First(After(c, at), Min2(1, Len(c) - at)) =
           Slice(c, at, Min2(Max2(0, Len(c) - at), 1))
<1> DEFINE a == After(c, at)
           k == Min2(1, Len(c) - at)
<1>1. Len(c) \in Nat /\ at \in Nat /\ at <= Len(c)
  BY LenProperties
<1>2. k = Min2(Max2(0, Len(c) - at), 1) /\ k \in Nat /\ k <= 1 /\ k <= Len(c) - at
  BY <1>1 DEF Min2, Max2
<1>3. a \in Seq(S) /\ Len(a) = Len(c) - at /\ \A i \in 1..(Len(c) - at) : a[i] = c[at + i]
  BY <1>1, AfterBytes
<1> HIDE DEF a, k
<1>4. k \in 0..Len(a)
  BY <1>1, <1>2, <1>3
<1>5. First(a, k) \in Seq(S) /\ Len(First(a, k)) = k /\ \A i \in 1..k : First(a, k)[i] = a[i]
  BY <1>3, <1>4, FirstBytes
<1>6. k > 0 => at + k <= Len(c)
  BY <1>1, <1>2
<1>7. /\ Slice(c, at, k) \in Seq(S) /\ Len(Slice(c, at, k)) = k
      /\ \A i \in 1..k : Slice(c, at, k)[i] = c[at + i]
  <2>1. c \in Seq(S) /\ at \in Nat /\ k \in Nat
    BY <1>1, <1>2
  <2> HIDE DEF k
  <2>2. QED
    BY <1>6, <2>1, SliceBytes
<1>8. \A i \in 1..k : First(a, k)[i] = Slice(c, at, k)[i]
  BY <1>1, <1>2, <1>3, <1>5, <1>7
<1>9. First(a, k) = Slice(c, at, k)
  BY <1>2, <1>5, <1>7, <1>8, SeqEqual
<1>10. QED
  BY <1>2, <1>9 DEF a, k

LEMMA MemReading ==
  ASSUME IInv, InMemory, MemOK, NEW op \in {"read", "readall", "getc"}, NEW n \in Nat \ {0},
         op = "getc" => n = 1, Reading(op, n)
  PROVE  MemOK' /\ (Dutiful => MemView' /\ PStep)
<1>0. /\ s \in Stream /\ s.buf \in Seq(Byte) /\ Len(s.buf) \in Nat /\ s.bpos \in Nat
      /\ s.bpos <= Len(s.buf) /\ s.bm = "mem" /\ s.status \in {"open", "closed"}
      /\ Avail(s) = Len(s.buf) - s.bpos /\ Avail(s) \in Nat
  BY Known DEF MemOK, Avail
<1>1. CASE ReadBuffered(op, n)
  <2> DEFINE q == s.bpos + n
             d == Slice(s.buf, s.bpos, n)
  <2>1. s' = [s EXCEPT !.bpos = q, !.state = "rd"] /\ n <= Avail(s) /\ Got(op, n, d)
    BY <1>1 DEF ReadBuffered
  <2>2. Len(d) = n /\ \A i \in 1..n : d[i] = s.buf[s.bpos + i]
    BY <1>0, <2>1, SliceBytes
  <2> HIDE DEF q, d
  <2>3. /\ s'.bpos = q /\ s'.state = "rd"
        /\ s'.buf = s.buf /\ s'.bm = s.bm /\ s'.status = s.status /\ s'.eof = s.eof
    BY Zenon, <1>0, <2>1 DEF Stream
  <2>4. MemOK'
    BY <1>0, <2>3 DEF MemOK
  <2>5. ASSUME Dutiful PROVE MemView'
    <3>1. ~s'.eof
      <4>1. SUFFICES ASSUME s.eof PROVE FALSE
        BY Zenon, <2>3
      <4>2. s.bpos >= Len(s.buf)
        BY Zenon, <2>5, <4>1 DEF Dutiful, MemView
      <4>3. QED
        BY <1>0, <2>1, <4>2
    <3>2. op = "getc" => s'.bpos \in 1..Len(s'.buf) /\ s'.buf[s'.bpos] = d[1]
      BY <1>0, <2>1, <2>2, <2>3 DEF q
    <3>3. call'.op = op /\ call'.bytes = d
      BY <2>1 DEF Got, Did
    <3>4. QED
      BY Zenon, <3>1, <3>2, <3>3 DEF MemView
  <2>6. PStep
    <3>1. n <= Max2(0, Len(s.buf) - s.bpos)
      BY <1>0, <2>1 DEF Max2
    <3>2. n \in Nat /\ n <= n /\ ~(n < n)
      OBVIOUS
    <3>3. s'.bpos = s.bpos + n
      BY <2>3 DEF q
    <3>4. QED
      BY <1>0, <2>1, <2>2, <2>3, <3>1, <3>2, <3>3, InBuf, ReadPromise DEF d
  <2>7. QED
    BY <2>4, <2>5, <2>6
<1>2. CASE ReadRest(op, n)
  <2> DEFINE q == Len(s.buf)
             k == Avail(s)
             d == After(s.buf, s.bpos)
             e == s.eof \/ k = 0
  <2>1. s' = [s EXCEPT !.bpos = q, !.state = "rd", !.eof = e] /\ n > k /\ Got(op, n, d)
    BY <1>2 DEF ReadRest
  <2>2. d = Slice(s.buf, s.bpos, k) /\ Len(d) = k
    <3>1. s.bpos \in 0..Len(s.buf)
      BY <1>0
    <3>2. d = Slice(s.buf, s.bpos, Len(s.buf) - s.bpos)
      BY <1>0, <3>1, AfterIsSlice
    <3>3. Len(d) = IF s.bpos <= Len(s.buf) THEN Len(s.buf) - s.bpos ELSE 0
      BY <1>0, AfterBytes
    <3>4. QED
      BY <1>0, <3>2, <3>3
  <2>3. k \in Nat /\ s.bpos + k = q /\ (op = "getc" => k = 0)
    BY <1>0, <2>1
  <2>4. op = "getc" => d = <<>>
    <3>1. d \in Seq(Byte)
      BY <1>0, AfterBytes
    <3>2. QED
      BY <2>2, <2>3, <3>1, EmptyByLength
  <2> HIDE DEF q, d, k, e
  <2>5. /\ s'.bpos = q /\ s'.state = "rd"
        /\ s'.buf = s.buf /\ s'.bm = s.bm /\ s'.status = s.status
    BY Zenon, <1>0, <2>1 DEF Stream
  <2>6. MemOK'
    BY <1>0, <2>5 DEF MemOK
  <2>7. MemView'
    <3>1. s'.bpos >= Len(s'.buf)
      BY <1>0, <2>5 DEF q
    <3>2. call'.op = op /\ call'.bytes = d
      BY <2>1 DEF Got, Did
    <3>3. QED
      BY Zenon, <2>4, <3>1, <3>2 DEF MemView
  <2>8. PStep
    <3>1. k = Max2(0, Len(s.buf) - s.bpos)
      BY <1>0 DEF Max2, k
    <3>2. k <= n /\ k <= Max2(0, Len(s.buf) - s.bpos)
      BY <2>1, <2>3, <3>1
    <3>3. Got(op, n, Slice(s.buf, s.bpos, k)) /\ Len(Slice(s.buf, s.bpos, k)) = k
      BY <2>1, <2>2
    <3>4. QED
      BY <1>0, <2>3, <2>5, <3>1, <3>2, <3>3, InBuf, ReadPromise
  <2>9. QED
    BY <2>6, <2>7, <2>8
<1>3. QED
  BY <1>1, <1>2 DEF Reading, ReadDirect, ReadRefill

LEMMA MemGetc ==
  ASSUME IInv, InMemory, MemOK, ios_getc
  PROVE  MemOK' /\ (Dutiful => MemView' /\ PStep)
<1>1. CASE Reading("getc", 1)
  BY <1>1, MemReading
<1>2. CASE s.eof /\ ~(s.state = "rd" /\ Avail(s) > 0) /\ UNCHANGED s /\ Got("getc", 1, <<>>)
  <2>1. s' = s /\ call'.op = "getc" /\ call'.bytes = <<>>
    BY <1>2 DEF Got, Did
  <2>2. MemOK'
    BY <2>1 DEF MemOK
  <2>3. ASSUME Dutiful PROVE MemView' /\ PStep
    <3>0. s.buf \in Seq(Byte) /\ Len(s.buf) \in Nat /\ s.bpos \in Nat
      BY Known
    <3>1. s.bpos >= Len(s.buf)
      BY Zenon, <1>2, <2>3 DEF Dutiful, MemView
    <3>2. MemView'
      BY Zenon, <2>1, <3>1 DEF MemView
    <3>3. Slice(s.buf, s.bpos, 0) = <<>> /\ Len(<<>>) = 0
      BY <3>0, SliceNone, NoBytes
    <3>4. 0 = Max2(0, Len(s.buf) - s.bpos) /\ 0 <= 1 /\ 0 <= 0 /\ s.bpos = s.bpos + 0
      BY <3>0, <3>1 DEF Max2
    <3>5. "getc" \in {"read", "readall", "getc"} /\ 1 \in Nat \ {0} /\ 0 \in Nat
      OBVIOUS
    <3>6. PStep
      BY <1>2, <2>1, <3>0, <3>3, <3>4, <3>5, InBuf, ReadPromise
    <3>7. QED
      BY <3>2, <3>6
  <2>4. QED
    BY <2>2, <2>3
<1>3. QED
  BY Zenon, <1>1, <1>2 DEF ios_getc

\* readprep of a memory stream only marks it as being read.
LEMMA MemReadprep ==
  ASSUME IInv, InMemory, NEW n, Readprep(n)
  PROVE  /\ s'.buf = s.buf /\ s'.bpos = s.bpos /\ s'.eof = s.eof
         /\ s'.bm = s.bm /\ s'.status = s.status
<1>0. s \in Stream
  BY Known
<1>1. s' = [s EXCEPT !.state = "rd"]
  BY DEF Readprep, Prepared
<1>2. QED
  BY Zenon, <1>0, <1>1 DEF Stream

LEMMA MemPrep ==
  ASSUME IInv, InMemory, MemOK, NEW n, ios_readprep(n)
  PROVE  MemOK' /\ (Dutiful => MemView' /\ PStep)
<1>1. /\ s'.buf = s.buf /\ s'.bpos = s.bpos /\ s'.eof = s.eof
      /\ s'.bm = s.bm /\ s'.status = s.status
  BY MemReadprep DEF ios_readprep
<1>2. call'.op = "prep" /\ s.status \in {"open", "closed"}
  BY DEF ios_readprep, Did, MemOK
<1>3. QED
  BY <1>1, <1>2, MemStays

LEMMA MemPeek ==
  ASSUME IInv, InMemory, MemOK, ios_peekc
  PROVE  MemOK' /\ (Dutiful => MemView' /\ PStep)
<1>0. /\ s.buf \in Seq(Byte) /\ Len(s.buf) \in Nat /\ s.bpos \in Nat /\ s.bpos <= Len(s.buf)
  BY Known
<1>1. /\ s'.buf = s.buf /\ s'.bpos = s.bpos /\ s'.eof = s.eof
      /\ s'.bm = s.bm /\ s'.status = s.status
  <2>1. CASE UNCHANGED s
    BY Zenon, <2>1
  <2>2. CASE Readprep(1)
    BY <2>2, MemReadprep
  <2>3. QED
    BY Zenon, <2>1, <2>2 DEF ios_peekc
<1>2. /\ call'.op = "peek" /\ s.status \in {"open", "closed"}
      /\ call'.bytes = First(After(s'.buf, s'.bpos), Min2(1, Avail(s')))
  BY DEF ios_peekc, Got, Did, MemOK
<1>3. MemOK'
  BY <1>1, <1>2, MemNext
<1>4. MemView => MemView'
  BY Zenon, <1>1, <1>2, MemSeen DEF MemView
<1>5. PStep
  <2>1. s.bpos \in 0..Len(s.buf)
    BY <1>0
  <2>2. call'.bytes = Slice(s.buf, s.bpos, Min2(Max2(0, Len(s.buf) - s.bpos), 1))
    BY <1>0, <1>1, <1>2, <2>1, PeekedIs DEF Avail
  <2>3. QED
    BY <1>1, <1>2, <2>2, InBuf, PeekPromise
<1>6. QED
  BY <1>3, <1>4, <1>5 DEF Dutiful

\* The byte that comes back is the one before the position.
LEMMA MemUnget ==
  ASSUME IInv, InMemory, MemOK, ios_ungetc
  PROVE  MemOK' /\ (Dutiful => MemView' /\ PStep)
<1>0. /\ s \in Stream /\ Good(s) /\ s.buf \in Seq(Byte) /\ Len(s.buf) \in Nat /\ s.bpos \in Nat
      /\ s.bpos <= Len(s.buf) /\ s.maxsize \in Nat /\ s.status \in {"open", "closed"}
  BY Known DEF MemOK
<1> DEFINE c == call.bytes[1]
<1>1. CASE s.bpos > 0
  <2> DEFINE q == s.bpos - 1
             b == [s.buf EXCEPT ![s.bpos] = c]
  <2>1. s' = [s EXCEPT !.bpos = q, !.buf = b, !.eof = FALSE] /\ Did("unget", 0, <<>>, c)
    BY Zenon, <1>1 DEF ios_ungetc
  <2>2. Dutiful => b = s.buf
    <3>1. SUFFICES ASSUME Dutiful PROVE b = s.buf
      OBVIOUS
    <3>2. s.bpos \in 1..Len(s.buf) /\ s.buf[s.bpos] = c
      BY <3>1 DEF Dutiful, MemView, ios_ungetc
    <3>3. DOMAIN s.buf = 1..Len(s.buf) /\ s.buf = [i \in 1..Len(s.buf) |-> s.buf[i]]
      BY <1>0
    <3>4. QED
      BY <3>2, <3>3
  <2> HIDE DEF q, b
  <2>3. /\ s'.bpos = q /\ s'.buf = b /\ s'.eof = FALSE /\ s'.bm = s.bm /\ s'.status = s.status
    BY Zenon, <1>0, <2>1 DEF Stream
  <2>4. call'.op = "unget" /\ call'.op # "getc"
    BY <2>1 DEF Did
  <2>5. MemOK' /\ MemView'
    <3>1. MemOK'
      BY <1>0, <2>3, <2>4, MemNext
    <3>2. s'.eof => s'.bpos >= Len(s'.buf)
      BY Zenon, <2>3
    <3>3. QED
      BY <2>4, <3>1, <3>2, MemSeen
  <2>6. Dutiful => PStep
    BY <2>2, <2>3, <2>4, InBuf, UngetPromise DEF q
  <2>7. QED
    BY <2>5, <2>6
<1>2. CASE ~(s.bpos > 0)
  <2>1. ~Dutiful
    <3>1. call.op = "getc" /\ call.bytes # <<>>
      BY Zenon DEF ios_ungetc
    <3>2. Dutiful => s.bpos \in 1..Len(s.buf)
      BY Zenon, <3>1 DEF Dutiful, MemView
    <3>3. QED
      BY <1>0, <1>2, <3>2
  <2>2. PICK cap \in (IF Len(s.buf) = s.maxsize THEN Realloc(s, 2 * s.maxsize)
                      ELSE {s.maxsize}) :
          IF cap = Len(s.buf) /\ cap > 0 THEN UNCHANGED s /\ Did("refused", 0, <<>>, -1)
          ELSE /\ s' = [Resized(s, cap) EXCEPT !.buf = <<c>> \o @, !.eof = FALSE]
               /\ Did("unget", 0, <<>>, c)
    BY Zenon, <1>2 DEF ios_ungetc
  <2>3. call'.op # "getc"
    BY <2>2 DEF Did
  <2>4. s'.bm = s.bm /\ s'.status = s.status
    <3>1. CASE UNCHANGED s
      BY <3>1
    <3>2. CASE s' = [Resized(s, cap) EXCEPT !.buf = <<c>> \o @, !.eof = FALSE]
      <4>1. cap \in Nat /\ cap >= s.maxsize
        BY <2>2, UngetRoom
      <4> DEFINE r == Resized(s, cap)
                 b == <<c>> \o r.buf
      <4>4. r \in Stream /\ \A f \in DOMAIN s \ {"maxsize", "inl"} : r[f] = s[f]
        BY <1>0, <4>1, ResizedGood
      <4>5. {"bm", "status"} \subseteq DOMAIN s \ {"maxsize", "inl"}
        BY <1>0, Fields
      <4>6. s' = [r EXCEPT !.buf = b, !.eof = FALSE]
        BY <3>2
      <4> HIDE DEF r, b
      <4>7. s'.bm = r.bm /\ s'.status = r.status
        BY Zenon, <4>4, <4>6 DEF Stream
      <4>8. QED
        BY <4>4, <4>5, <4>7
    <3>3. QED
      BY Zenon, <2>2, <3>1, <3>2
  <2>5. MemOK'
    BY <1>0, <2>3, <2>4, MemNext
  <2>6. QED
    BY <2>1, <2>5
<1>3. QED
  BY <1>1, <1>2

(***************************************************************************)
(* Moving, asking, and the rest of the calls.                              *)
(***************************************************************************)

LEMMA MemSeek ==
  ASSUME IInv, InMemory, MemOK, NEW p \in Nat, ios_seek(p)
  PROVE  MemOK' /\ (Dutiful => MemView' /\ PStep)
<1>0. s \in Stream /\ s.status \in {"open", "closed"}
  BY Known DEF MemOK
<1>1. /\ s'.eof = FALSE /\ s'.buf = s.buf /\ s'.bm = s.bm /\ s'.status = s.status
      /\ \/ s'.bpos = s.bpos /\ Did("seek", p, <<>>, -1)
         \/ s'.bpos = p /\ Did("seek", p, <<>>, 0)
  <2>1. CASE s' = [s EXCEPT !.eof = FALSE] /\ Did("seek", p, <<>>, -1)
    BY Zenon, <1>0, <2>1 DEF Stream
  <2>2. CASE s' = [s EXCEPT !.eof = FALSE, !.bpos = p] /\ Did("seek", p, <<>>, 0)
    BY Zenon, <1>0, <2>2 DEF Stream
  <2>3. QED
    BY Zenon, <2>1, <2>2 DEF ios_seek
<1>2. call'.op # "getc"
  BY <1>1 DEF Did
<1>3. MemOK' /\ MemView'
  <2>1. s'.eof => s'.bpos >= Len(s'.buf)
    BY Zenon, <1>1
  <2>2. QED
    BY <1>0, <1>1, <1>2, <2>1, MemNext, MemSeen
<1>4. PStep
  BY <1>1, InBuf, MovePromise
<1>5. QED
  BY <1>3, <1>4

LEMMA MemSeekEnd ==
  ASSUME IInv, InMemory, MemOK, ios_seek_end
  PROVE  MemOK' /\ (Dutiful => MemView' /\ PStep)
<1>0. s \in Stream /\ s.status \in {"open", "closed"} /\ Len(s.buf) \in Nat
  BY Known DEF MemOK
<1> DEFINE q == Len(s.buf)
<1>1. s' = [s EXCEPT !.eof = TRUE, !.bpos = q] /\ Did("seek_end", 0, <<>>, 0)
  BY DEF ios_seek_end
<1> HIDE DEF q
<1>2. s'.bpos = q /\ s'.buf = s.buf /\ s'.bm = s.bm /\ s'.status = s.status
  BY Zenon, <1>0, <1>1 DEF Stream
<1>3. call'.op # "getc"
  BY <1>1 DEF Did
<1>4. MemOK' /\ MemView'
  <2>1. s'.bpos >= Len(s'.buf)
    BY <1>0, <1>2 DEF q
  <2>2. QED
    BY <1>0, <1>2, <1>3, <2>1, MemNext, MemSeen
<1>5. PStep
  BY <1>1, <1>2, InBuf, MovePromise DEF q
<1>6. QED
  BY <1>4, <1>5

LEMMA MemSkip ==
  ASSUME IInv, InMemory, MemOK, NEW k \in Int, ios_skip(k)
  PROVE  MemOK' /\ (Dutiful => MemView' /\ PStep)
<1>0. /\ s \in Stream /\ s.status \in {"open", "closed"} /\ Len(s.buf) \in Nat
      /\ s.bpos \in Nat /\ Avail(s) = Len(s.buf) - s.bpos
  BY Known DEF MemOK, Avail
<1>1. CASE SkipWithin(k)
  <2> DEFINE q == s.bpos + k
             e == s.eof /\ k > 0
  <2>1. s' = [s EXCEPT !.bpos = q, !.eof = e] /\ Did("skip", k, <<>>, 0) /\ k <= Avail(s)
    BY <1>1 DEF SkipWithin
  <2> HIDE DEF q, e
  <2>2. s'.bpos = q /\ s'.eof = e /\ s'.buf = s.buf /\ s'.bm = s.bm /\ s'.status = s.status
    BY Zenon, <1>0, <2>1 DEF Stream
  <2>3. call'.op # "getc"
    BY <2>1 DEF Did
  <2>4. MemOK'
    BY <1>0, <2>2, <2>3, MemNext
  <2>5. ASSUME MemView PROVE MemView'
    <3>1. ~e
      <4>1. SUFFICES ASSUME s.eof, k > 0 PROVE FALSE
        BY Zenon DEF e
      <4>2. s.bpos >= Len(s.buf)
        BY Zenon, <2>5, <4>1 DEF MemView
      <4>3. QED
        BY <1>0, <2>1, <4>1, <4>2
    <3>2. s'.eof => s'.bpos >= Len(s'.buf)
      BY Zenon, <2>2, <3>1
    <3>3. QED
      BY <2>3, <3>2, MemSeen
  <2>6. PStep
    BY <2>1, <2>2, InBuf, MovePromise DEF q
  <2>7. QED
    BY <2>4, <2>5, <2>6 DEF Dutiful
<1>2. CASE UNCHANGED s /\ Did("skip", k, <<>>, -1)
  <2>1. call'.op # "getc" /\ s' = s
    BY <1>2 DEF Did
  <2>2. MemOK'
    BY <1>0, <2>1, MemNext
  <2>3. MemView => MemView'
    BY Zenon, <2>1 DEF MemView
  <2>4. PStep
    BY <1>2, <2>1, InBuf, MovePromise
  <2>5. QED
    BY <2>2, <2>3, <2>4 DEF Dutiful
<1>3. QED
  BY <1>1, <1>2 DEF ios_skip, SkipBeyond

LEMMA MemPos ==
  ASSUME IInv, InMemory, MemOK, ios_pos
  PROVE  MemOK' /\ (Dutiful => MemView' /\ PStep)
<1>1. s' = s /\ call'.op = "pos" /\ call'.ret = s.bpos /\ s.status \in {"open", "closed"}
  BY DEF ios_pos, Did, MemOK
<1>2. call'.op # "getc"
  BY <1>1
<1>3. MemOK'
  BY <1>1, <1>2, MemNext
<1>4. MemView => MemView'
  BY Zenon, <1>1, <1>2 DEF MemView
<1>5. PStep
  BY <1>1, InBuf, TellPromise
<1>6. QED
  BY <1>3, <1>4, <1>5 DEF Dutiful

LEMMA TruncPromise ==
  ASSUME InMemory, NEW n \in Nat, call'.op = "trunc", call'.num = n,
         Len(s'.buf) = n, \A i \in 1..Min2(Len(s.buf), n) : s'.buf[i] = s.buf[i],
         s'.bpos = Min2(s.bpos, n)
  PROVE  PStep
<1>1. Pointer!Trunc
  BY SameBytes, InBuf DEF Pointer!Trunc
<1>2. QED
  BY <1>1 DEF PStep, Pointer!Next

\* A stream that said end of file may get shorter, but not longer.
LEMMA MemTrunc ==
  ASSUME IInv, InMemory, MemOK, NEW n \in Nat, ios_trunc(n)
  PROVE  MemOK' /\ (Dutiful => MemView' /\ PStep)
<1>0. /\ s \in Stream /\ Good(s) /\ s.status \in {"open", "closed"} /\ Len(s.buf) \in Nat
      /\ s.buf \in Seq(Byte) /\ s.bpos \in Nat /\ s.bpos <= Len(s.buf) /\ s.maxsize \in Nat
      /\ Len(s.buf) <= s.maxsize
  BY Known DEF MemOK
<1>1. CASE n <= Len(s.buf)
  <2> DEFINE b == First(s.buf, n)
             q == Min2(s.bpos, n)
  <2>1. s' = [s EXCEPT !.buf = b, !.bpos = q] /\ Did("trunc", n, <<>>, n)
    BY <1>1 DEF ios_trunc
  <2>2. Len(b) = n /\ \A i \in 1..n : b[i] = s.buf[i]
    <3>1. n \in 0..Len(s.buf)
      BY <1>0, <1>1
    <3>2. QED
      BY <1>0, <3>1, FirstBytes
  <2> HIDE DEF b, q
  <2>3. s'.buf = b /\ s'.bpos = q /\ s'.eof = s.eof /\ s'.bm = s.bm /\ s'.status = s.status
    BY Zenon, <1>0, <2>1 DEF Stream
  <2>4. call'.op # "getc" /\ call'.op = "trunc" /\ call'.num = n
    BY <2>1 DEF Did
  <2>5. MemOK'
    BY <1>0, <2>3, <2>4, MemNext
  <2>6. ASSUME MemView PROVE MemView'
    <3>1. ASSUME s.eof PROVE s'.bpos >= Len(s'.buf)
      <4>1. s.bpos >= Len(s.buf)
        BY Zenon, <2>6, <3>1 DEF MemView
      <4>2. QED
        BY <1>0, <1>1, <2>2, <2>3, <4>1 DEF q, Min2
    <3>2. s'.eof => s'.bpos >= Len(s'.buf)
      BY Zenon, <2>3, <3>1
    <3>3. QED
      BY <2>4, <3>2, MemSeen
  <2>7. PStep
    <3>1. Min2(Len(s.buf), n) = n
      BY <1>0, <1>1 DEF Min2
    <3>2. QED
      BY <2>2, <2>3, <2>4, <3>1, TruncPromise DEF q
  <2>8. QED
    BY <2>5, <2>6, <2>7 DEF Dutiful
<1>2. CASE UNCHANGED s /\ Did("refused", n, <<>>, Len(s.buf))
  <2>1. s' = s /\ call'.op = "refused"
    BY <1>2 DEF Did
  <2>2. QED
    BY <1>0, <2>1, MemStays
<1>3. ASSUME ~(n <= Len(s.buf)), MayGrow, NEW cap \in Realloc(s, n),
             NEW junk \in [1..(n - Len(s.buf)) -> Byte],
             s' = [Resized(s, cap) EXCEPT !.buf = @ \o junk],
             Did("trunc", n, <<>>, n)
      PROVE  MemOK' /\ (Dutiful => MemView' /\ PStep)
  <2> DEFINE r == Resized(s, cap)
             b == s.buf \o junk
  <2>1. cap \in Nat /\ cap >= s.maxsize /\ cap >= Len(s.buf)
    <3>1. cap \in Nat /\ cap >= s.maxsize
      BY <1>0, ReallocGrows
    <3>2. QED
      BY <1>0, <3>1
  <2>2. r \in Stream /\ \A f \in DOMAIN s \ {"maxsize", "inl"} : r[f] = s[f]
    BY <1>0, <2>1, ResizedGood
  <2>3. {"buf", "bpos", "eof", "bm", "status"} \subseteq DOMAIN s \ {"maxsize", "inl"}
    BY <1>0, Fields
  <2>4. r.buf = s.buf /\ r.bpos = s.bpos /\ r.bm = s.bm /\ r.status = s.status
    BY <2>2, <2>3
  <2>5. r.eof = s.eof
    BY Zenon, <2>2, <2>3
  <2>6. s' = [r EXCEPT !.buf = b]
    BY <1>3, <2>4
  <2>7. Len(b) = n /\ \A i \in 1..Len(s.buf) : b[i] = s.buf[i]
    <3> DEFINE m == n - Len(s.buf)
    <3>1. m \in Nat
      BY <1>0, <1>3
    <3>2. junk \in Seq(Byte) /\ Len(junk) = m
      <4> HIDE DEF m
      <4>1. junk \in [1..m -> Byte]
        BY <1>3 DEF m
      <4>2. QED
        BY <3>1, <4>1
    <3>3. QED
      BY <1>0, <3>1, <3>2, ConcatProperties
  <2> HIDE DEF r, b
  <2>8. s'.buf = b /\ s'.bpos = r.bpos /\ s'.eof = r.eof /\ s'.bm = r.bm /\ s'.status = r.status
    BY Zenon, <2>2, <2>6 DEF Stream
  <2>9. call'.op # "getc" /\ call'.op = "trunc" /\ call'.num = n
    BY <1>3 DEF Did
  <2>10. MemOK'
    BY <1>0, <2>4, <2>8, <2>9, MemNext
  <2>11. Dutiful => MemView'
    <3>1. Dutiful => ~s.eof
      BY Zenon, <1>3 DEF Dutiful, MayGrow
    <3>2. Dutiful => (s'.eof => s'.bpos >= Len(s'.buf))
      BY Zenon, <2>5, <2>8, <3>1
    <3>3. QED
      BY <2>9, <3>2, MemSeen
  <2>12. PStep
    <3>1. Min2(Len(s.buf), n) = Len(s.buf) /\ Min2(s.bpos, n) = s.bpos
      BY <1>0, <1>3 DEF Min2
    <3>2. QED
      BY <2>4, <2>7, <2>8, <2>9, <3>1, TruncPromise
  <2>13. QED
    BY <2>10, <2>11, <2>12
<1>4. QED
  <2>1. CASE ~(n <= Len(s.buf))
    <3>1. MayGrow
      BY <2>1 DEF ios_trunc
    <3>2. PICK cap \in Realloc(s, n) :
            IF cap < n THEN UNCHANGED s /\ Did("refused", n, <<>>, Len(s.buf))
            ELSE \E junk \in [1..(n - Len(s.buf)) -> Byte] :
                   /\ s' = [Resized(s, cap) EXCEPT !.buf = @ \o junk]
                   /\ Did("trunc", n, <<>>, n)
      BY Zenon, <2>1 DEF ios_trunc
    <3>3. QED
      BY Zenon, <1>2, <1>3, <2>1, <3>1, <3>2
  <2>2. QED
    BY <1>1, <2>1

LEMMA MemFlush ==
  ASSUME IInv, InMemory, MemOK, ios_flush
  PROVE  MemOK' /\ (Dutiful => MemView' /\ PStep)
<1>1. s' = s /\ call'.op = "flush" /\ s.status \in {"open", "closed"}
  BY DEF ios_flush, Flush, Did, MemOK
<1>2. QED
  BY <1>1, MemStays

\* The client gets all of the contents.
LEMMA MemTakebuf ==
  ASSUME IInv, InMemory, MemOK, ios_takebuf
  PROVE  MemOK' /\ (Dutiful => MemView' /\ PStep)
<1>0. s \in Stream /\ s.status \in {"open", "closed"} /\ Len(<<>>) = 0
  BY Known, NoBytes DEF MemOK
<1>1. CASE UNCHANGED s /\ Did("refused", 0, <<>>, 0)
  <2>1. s' = s /\ call'.op = "refused"
    BY <1>1 DEF Did
  <2>2. QED
    BY <1>0, <2>1, MemStays
<1>2. CASE /\ s' = [s EXCEPT !.buf = <<>>, !.bpos = 0, !.maxsize = InlSize, !.inl = TRUE]
           /\ Did("take", 0, s.buf, 0)
  <2>1. s'.buf = <<>> /\ s'.bpos = 0 /\ s'.bm = s.bm /\ s'.status = s.status
    BY Zenon, <1>0, <1>2 DEF Stream
  <2>2. call'.op = "take" /\ call'.op # "getc" /\ call'.bytes = s.buf
    BY <1>2 DEF Did
  <2>3. MemOK'
    BY <1>0, <2>1, <2>2, MemNext
  <2>4. MemView'
    <3>1. s'.bpos >= Len(s'.buf)
      BY <1>0, <2>1
    <3>2. QED
      BY <2>2, <3>1, MemSeen
  <2>5. PStep
    <3>1. Pointer!Take
      BY <2>1, <2>2, InBuf DEF Pointer!Take
    <3>2. QED
      BY <3>1 DEF PStep, Pointer!Next
  <2>6. QED
    BY <2>3, <2>4, <2>5
<1>3. /\ Retaken(s) = {[s EXCEPT !.buf = <<>>, !.bpos = 0, !.maxsize = InlSize, !.inl = TRUE]}
      /\ \A nw : Flush(s, nw) = s
  <2>1. s.bm = "mem"
    BY DEF MemOK
  <2>2. Retaken(s) = {[[s EXCEPT !.buf = <<>>, !.bpos = 0] EXCEPT !.maxsize = InlSize, !.inl = TRUE]}
    BY Zenon, <2>1 DEF Retaken
  <2>3. \A nw : Flush(s, nw) = s
    BY DEF Flush
  <2>4. QED
    BY <2>2, <2>3
<1>4. QED
  BY Zenon, <1>1, <1>2, <1>3 DEF ios_takebuf

LEMMA MemSetbuf ==
  ASSUME IInv, InMemory, MemOK, NEW n \in Nat, ios_setbuf(n)
  PROVE  MemOK' /\ (Dutiful => MemView' /\ PStep)
<1>0. /\ s \in Stream /\ s.status \in {"open", "closed"} /\ s.buf \in Seq(Byte)
      /\ Len(s.buf) \in Nat /\ s.bpos \in Nat /\ s.bpos <= Len(s.buf)
  BY Known DEF MemOK
<1> DEFINE b == First(s.buf, Min2(n, Len(s.buf)))
           q == Min2(s.bpos, n)
<1>1. s' = [s EXCEPT !.buf = b, !.bpos = q, !.maxsize = n, !.inl = FALSE]
  BY DEF ios_setbuf, Flush
<1>2. call'.op = "setbuf" /\ call'.op # "getc"
  BY DEF ios_setbuf, Did
<1>3. Dutiful => b = s.buf /\ q = s.bpos
  <2>1. SUFFICES ASSUME Dutiful PROVE b = s.buf /\ q = s.bpos
    OBVIOUS
  <2>2. Len(s.buf) <= n
    BY <2>1 DEF Dutiful, ios_setbuf
  <2>3. Min2(n, Len(s.buf)) = Len(s.buf) /\ q = s.bpos
    BY <1>0, <2>2 DEF Min2
  <2>4. QED
    BY <1>0, <2>3, FirstAll
<1> HIDE DEF b, q
<1>4. s'.buf = b /\ s'.bpos = q /\ s'.eof = s.eof /\ s'.bm = s.bm /\ s'.status = s.status
  BY Zenon, <1>0, <1>1 DEF Stream
<1>5. MemOK'
  BY <1>0, <1>2, <1>4, MemNext
<1>6. ASSUME Dutiful PROVE MemView' /\ PStep
  <2>1. s'.buf = s.buf /\ s'.bpos = s.bpos
    BY <1>3, <1>4, <1>6
  <2>2. s'.eof = s.eof /\ s'.bm = s.bm /\ s'.status \in {"open", "closed"}
    BY Zenon, <1>0, <1>4
  <2>3. QED
    BY <1>2, <1>6, <2>1, <2>2, MemStays
<1>7. QED
  BY <1>5, <1>6

LEMMA MemReadonly ==
  ASSUME IInv, InMemory, MemOK, ios_set_readonly
  PROVE  MemOK' /\ (Dutiful => MemView' /\ PStep)
<1>0. s \in Stream /\ s.status \in {"open", "closed"}
  BY Known DEF MemOK
<1>1. s' = [s EXCEPT !.state = "none", !.readonly = TRUE] /\ call'.op = "readonly"
  BY DEF ios_set_readonly, Flush, Did
<1>2. s'.buf = s.buf /\ s'.bpos = s.bpos /\ s'.eof = s.eof /\ s'.bm = s.bm /\ s'.status = s.status
  BY Zenon, <1>0, <1>1 DEF Stream
<1>3. QED
  BY <1>0, <1>1, <1>2, MemStays

\* A stream without a descriptor keeps its mode.
LEMMA MemBufmode ==
  ASSUME IInv, InMemory, MemOK, NEW m, ios_bufmode(m)
  PROVE  MemOK' /\ (Dutiful => MemView' /\ PStep)
<1>1. s' = s /\ call'.op = "refused" /\ s.status \in {"open", "closed"}
  BY DEF ios_bufmode, Did, MemOK
<1>2. QED
  BY <1>1, MemStays

LEMMA MemPurge ==
  ASSUME IInv, InMemory, MemOK, ios_purge
  PROVE  MemOK' /\ (Dutiful => MemView' /\ PStep)
<1>0. /\ s \in Stream /\ s.status \in {"open", "closed"}
      /\ Len(s.buf) \in Nat /\ s.bpos \in Nat /\ s.bpos <= Len(s.buf)
  BY Known DEF MemOK
<1> DEFINE q == IF s.state = "rd" THEN Len(s.buf) ELSE s.bpos
<1>1. s' = [s EXCEPT !.bpos = q] /\ call'.op = "purge"
  BY DEF ios_purge, Did
<1>2. q \in Nat /\ q >= s.bpos /\ q <= Len(s.buf)
  BY <1>0
<1> HIDE DEF q
<1>3. s'.bpos = q /\ s'.buf = s.buf /\ s'.eof = s.eof /\ s'.bm = s.bm /\ s'.status = s.status
  BY Zenon, <1>0, <1>1 DEF Stream
<1>4. MemOK'
  BY <1>0, <1>1, <1>3, MemNext
<1>5. ASSUME MemView PROVE MemView'
  <2>1. ASSUME s.eof PROVE s'.bpos >= Len(s'.buf)
    <3>1. s.bpos >= Len(s.buf)
      BY Zenon, <1>5, <2>1 DEF MemView
    <3>2. QED
      BY <1>0, <1>2, <1>3, <3>1
  <2>2. s'.eof => s'.bpos >= Len(s'.buf)
    BY Zenon, <1>3, <2>1
  <2>3. QED
    BY <1>1, <2>2, MemSeen
<1>6. PStep
  <2>1. q \in s.bpos..(s.bpos + Max2(0, Len(s.buf) - s.bpos))
    BY <1>0, <1>2 DEF Max2
  <2>2. QED
    BY <1>1, <1>3, <2>1, InBuf, PurgePromise
<1>7. QED
  BY <1>4, <1>5, <1>6 DEF Dutiful

LEMMA MemClose ==
  ASSUME IInv, InMemory, MemOK, ios_close
  PROVE  MemOK' /\ (Dutiful => MemView' /\ PStep)
<1>0. s \in Stream /\ Len(<<>>) = 0
  BY Known, NoBytes
<1>1. /\ s' = [s EXCEPT !.buf = <<>>, !.bpos = 0, !.maxsize = 0, !.inl = TRUE,
                     !.status = "closed"]
      /\ call'.op = "close"
  BY DEF ios_close, Flush, Did
<1>2. s'.buf = <<>> /\ s'.bpos = 0 /\ s'.bm = s.bm /\ s'.status = "closed"
  BY Zenon, <1>0, <1>1 DEF Stream
<1>3. MemOK'
  BY <1>1, <1>2, MemNext
<1>4. MemView'
  <2>1. s'.bpos >= Len(s'.buf)
    BY <1>0, <1>2
  <2>2. QED
    BY <1>1, <2>1, MemSeen
<1>5. PStep
  <2>1. 0 \in Int
    OBVIOUS
  <2>2. QED
    BY <1>1, <1>2, <2>1, InBuf, ClosePromise
<1>6. QED
  BY <1>3, <1>4, <1>5

\* A new memory stream is at its start.
LEMMA MemOpened ==
  ASSUME InMemory, NEW data \in Seq(Byte)
  PROVE  LET o == Opened(data) IN
         o.bm = "mem" /\ o.status = "open" /\ o.bpos = 0 /\ o.eof = FALSE
<1> DEFINE f == [bm |-> Mode, state |-> "none", buf |-> <<>>, maxsize |-> 0,
                 bpos |-> 0, ndirty |-> 0, fpos |-> -1, readonly |-> ~CanWrite,
                 eof |-> FALSE, inl |-> TRUE, data |-> data, off |-> 0,
                 status |-> "open"]
           o == Opened(data)
<1>1. f.bm = "mem" /\ f.status = "open" /\ f.bpos = 0 /\ f.eof = FALSE
  BY IosAssumption DEF InMemory
<1>2. CASE Kind = "mem"
  <2>1. o = [f EXCEPT !.maxsize = InlSize]
    BY <1>2 DEF Opened
  <2>2. QED
    BY <1>1, <2>1
<1>3. CASE Kind = "str"
  <2>1. o = [f EXCEPT !.state = "wr", !.buf = Initial, !.ndirty = Len(Initial),
                      !.maxsize = Max2(InlSize, Len(Initial)), !.inl = Len(Initial) <= InlSize]
    BY <1>3 DEF Opened
  <2>2. QED
    BY <1>1, <2>1
<1>4. CASE Kind = "static"
  <2>1. o = [f EXCEPT !.buf = Initial, !.maxsize = Len(Initial), !.inl = FALSE]
    BY <1>4 DEF Opened
  <2>2. QED
    BY <1>1, <2>1
<1>5. QED
  BY <1>2, <1>3, <1>4 DEF InMemory

LEMMA MemReopen ==
  ASSUME IInv, InMemory, Reopen
  PROVE  MemOK' /\ (Dutiful => MemView' /\ PStep)
<1>1. PICK trunc \in {Kind = "file" /\ CanWrite, FALSE} :
        s' = Opened(IF trunc THEN <<>> ELSE s.data)
  BY DEF Reopen, Openings
<1> DEFINE d == IF trunc THEN <<>> ELSE s.data
<1>2. d \in Seq(Byte)
  BY Known, NoBytes
<1> HIDE DEF d
<1>3. Opened(d).bm = "mem" /\ Opened(d).status = "open" /\ Opened(d).bpos = 0 /\ Opened(d).eof = FALSE
  BY <1>2, MemOpened
<1>4. s'.bm = "mem" /\ s'.status = "open" /\ s'.bpos = 0 /\ s'.eof = FALSE
  BY Zenon, <1>1, <1>3 DEF d
<1>5. call'.op = "open"
  BY DEF Reopen
<1>6. MemOK'
  BY <1>4, <1>5 DEF MemOK
<1>7. MemView'
  BY Zenon, <1>4, <1>5, MemSeen
<1>8. PStep
  BY <1>4, <1>5, InBuf, OpenPromise
<1>9. QED
  BY <1>6, <1>7, <1>8

(***************************************************************************)
(* The theorems about memory streams.                                      *)
(***************************************************************************)

LEMMA MemInit ==
  ASSUME Init, InMemory
  PROVE  MemOK /\ MemView /\ Pointer!Init
<1>1. <<>> \in Seq(Byte) /\ s = Opened(<<>>)
  BY NoBytes DEF Init, Openings
<1>2. s.bm = "mem" /\ s.status = "open" /\ s.bpos = 0 /\ s.eof = FALSE
  BY <1>1, MemOpened
<1>3. call = [op |-> "open", num |-> 0, bytes |-> <<>>, ret |-> 0]
  BY DEF Init
<1>4. MemOK /\ MemView
  BY <1>2, <1>3 DEF MemOK, MemView
<1>5. Contents(s) \in Seq(Nat)
  <2>1. s.buf \in Seq(Byte) /\ Byte \subseteq Nat
    BY InitOK, Known, IosAssumption
  <2>2. s.buf \in Seq(Nat)
    BY <2>1, SeqMonotonic
  <2>3. QED
    BY <2>2, InBuf
<1>6. Pointer!Init
  BY <1>2, <1>3, <1>5, InBuf DEF Pointer!Init
<1>7. QED
  BY <1>4, <1>6

LEMMA MemStep ==
  ASSUME IInv, InMemory, MemOK, [Next]_vars
  PROVE  MemOK' /\ (Dutiful => MemView' /\ PStep)
<1> DEFINE Goal == MemOK' /\ (Dutiful => MemView' /\ PStep)
<1>1. ASSUME NEW d \in Payloads, ios_write(d) \/ ios_vprintf(d) PROVE Goal
  <2>1. d \in Seq(Byte) \ {<<>>} /\ d \in Seq(Byte)
    BY Zenon, IosAssumption
  <2>2. QED
    BY <1>1, <2>1, MemWrite, MemPrintf
<1>2. ASSUME NEW c \in Chars, ios_putc(c) PROVE Goal
  <2>1. <<c>> \in Seq(Byte) \ {<<>>} /\ <<c>> \in Seq(Byte)
    <3>1. c \in Byte
      BY Zenon, IosAssumption
    <3>2. QED
      BY <3>1
  <2>2. CASE ios_write(<<c>>)
    BY <2>1, <2>2, MemWrite
  <2>3. CASE PutDirectly(s, <<c>>)
    BY <2>1, <2>3, MemPutDirectly
  <2>4. QED
    BY Zenon, <1>2, <2>2, <2>3 DEF ios_putc
<1>3. ASSUME NEW n \in Counts, ios_read(n) \/ ios_readall(n) \/ ios_readprep(n) PROVE Goal
  <2>1. n \in Nat \ {0}
    BY Zenon, IosAssumption
  <2>2. CASE ios_read(n)
    BY <2>1, <2>2, MemReading DEF ios_read
  <2>3. CASE ios_readall(n)
    BY <2>1, <2>3, MemReading DEF ios_readall
  <2>4. CASE ios_readprep(n)
    BY <2>4, MemPrep
  <2>5. QED
    BY <1>3, <2>2, <2>3, <2>4
<1>4. CASE ios_getc \/ ios_peekc \/ ios_ungetc
  BY <1>4, MemGetc, MemPeek, MemUnget
<1>5. ASSUME NEW p \in 0..MaxSize, ios_seek(p) \/ ios_trunc(p) PROVE Goal
  <2>1. MaxSize \in Nat
    BY Zenon, IosAssumption
  <2>2. p \in Nat
    BY <2>1
  <2>3. QED
    BY <1>5, <2>2, MemSeek, MemTrunc
<1>6. ASSUME NEW k \in Skips, ios_skip(k) PROVE Goal
  <2>1. k \in Int
    BY Zenon, IosAssumption
  <2>2. QED
    BY <1>6, <2>1, MemSkip
<1>7. ASSUME NEW m \in Modes, ios_bufmode(m) PROVE Goal
  BY <1>7, MemBufmode
<1>8. ASSUME NEW n \in Bufs, ios_setbuf(n) PROVE Goal
  <2>1. n \in Nat
    BY Zenon, IosAssumption
  <2>2. QED
    BY <1>8, <2>1, MemSetbuf
<1>9. CASE ios_seek_end \/ ios_pos \/ ios_flush \/ ios_takebuf \/ ios_set_readonly
  BY <1>9, MemSeekEnd, MemPos, MemFlush, MemTakebuf, MemReadonly
<1>10. CASE ios_purge \/ ios_close \/ Reopen
  BY <1>10, MemPurge, MemClose, MemReopen
<1>11. CASE UNCHANGED vars
  <2>1. s' = s /\ call' = call
    BY <1>11 DEF vars
  <2>2. MemOK'
    BY <2>1 DEF MemOK
  <2>3. MemView => MemView'
    BY Zenon, <2>1 DEF MemView
  <2>4. PStep
    BY <2>1 DEF PStep, Pointer!vars
  <2>5. QED
    BY <2>2, <2>3, <2>4 DEF Dutiful
<1>12. QED
  BY <1>1, <1>2, <1>3, <1>4, <1>5, <1>6, <1>7, <1>8, <1>9, <1>10, <1>11 DEF Next

\* A memory stream is never stuck or corrupt.
LEMMA MemNeverStuck ==
  ASSUME InMemory
  PROVE  Spec => []NeverStuck
<1>1. Init => MemOK
  BY MemInit
<1>2. IInv /\ MemOK /\ [Next]_vars => MemOK'
  BY MemStep
<1>3. MemOK => NeverStuck
  BY DEF MemOK, NeverStuck
<1>4. QED
  BY <1>1, <1>2, <1>3, Inductive, PTL DEF Spec

LEMMA MemDutiful ==
  ASSUME InMemory, Client # "any"
  PROVE  Spec => [](MemOK /\ MemView) /\ PointerSpec
<1>1. Init => MemOK /\ MemView /\ Pointer!Init
  BY MemInit
<1>2. IInv /\ MemOK /\ MemView /\ [Next]_vars => MemOK' /\ MemView' /\ PStep
  BY MemStep DEF Dutiful
<1>3. IInv /\ MemOK /\ MemView /\ [Next]_vars => [Pointer!Next]_(Pointer!vars)
  BY <1>2 DEF PStep
<1>4. QED
  BY <1>1, <1>2, <1>3, Inductive, PTL DEF Spec, PointerSpec, Pointer!Spec

\* Nobody who keeps to the duties of ios.h can tell a memory stream from an array
\* of bytes with a pointer into it: every call of ios.c on one is a step of
\* ByteStream.
THEOREM MemoryIsAPointer ==
  ASSUME InMemory, Client # "any"
  PROVE  Spec => PointerSpec
BY MemDutiful, PTL

-------------------------------------------------------------------------------
(***************************************************************************)
(* DUTIFUL CLIENTS. What holds for a client that keeps the duties of       *)
(* MayWrite, MayRead and MayPrep, whatever the sizes, the modes and the    *)
(* failures of descriptor and allocator: what is to be written is there to *)
(* be written, no call recurses for ever or corrupts the stream, and a     *)
(* flush that answers 0 has written everything.                            *)
(***************************************************************************)

(***************************************************************************)
(* The shape of a stream over a descriptor. While it is written, all of    *)
(* the buffer is dirty; while it is read, the buffer lies before the       *)
(* offset; otherwise the buffer is empty. A pipe cannot be written in      *)
(* place, so nothing of it is dirty while it is read, and the position is  *)
(* at the end of what is written.                                          *)
(***************************************************************************)
Shape(t) ==
  /\ t.ndirty <= Len(t.buf)
  /\ t.state = "wr" => t.ndirty = Len(t.buf)
  /\ t.state = "none" => t.buf = <<>>
  /\ t.state = "rd" => Len(t.buf) <= t.off
  /\ Kind = "pipe" => IF t.state = "rd" THEN t.ndirty = 0 ELSE t.bpos = Len(t.buf)
  /\ t.bm # "mem"
  /\ t.status = "closed" => t.ndirty = 0

\* The fields of ios_t that a flush leaves alone.
Kept == {"bm", "state", "maxsize", "eof", "readonly", "inl", "status"}

LEMMA KernelWriteIs ==
  ASSUME NEW t \in Stream, NEW d \in Seq(Byte)
  PROVE  /\ KernelWrite(t, d).data = Overlay(t.data, t.off, d)
         /\ KernelWrite(t, d).off = t.off + Len(d)
         /\ \A f \in DOMAIN t \ {"off", "data"} : KernelWrite(t, d)[f] = t[f]
BY Zenon DEF KernelWrite, Stream

\* ios_flush of a stream of this shape: nothing is dirty any more, the buffer of
\* a reader stays where it is, that of a writer is empty and the offset has
\* moved to the position, where it can.
LEMMA FlushIs ==
  ASSUME NEW t \in Stream, Good(t), Shape(t), ~InMemory, NEW nw \in 0..t.ndirty
  PROVE  LET u == Flush(t, nw) IN
         /\ u.ndirty = 0
         /\ \A f \in Kept : u[f] = t[f]
         /\ u.data = Overlay(t.data, BufferAt(t), First(t.buf, nw))
         /\ u.buf = IF t.state = "wr" THEN <<>> ELSE t.buf
         /\ u.bpos = IF t.state = "wr" THEN 0 ELSE t.bpos
         /\ u.off = IF t.state = "wr" THEN t.off + (IF Seekable THEN t.bpos ELSE nw)
                    ELSE t.off
<1> DEFINE u == Flush(t, nw)
<1>0. /\ t.buf \in Seq(Byte) /\ Len(t.buf) \in Nat /\ t.bpos \in Nat
      /\ t.ndirty \in Nat /\ t.off \in Nat /\ t.bpos <= Len(t.buf)
      /\ t.state \in {"none", "rd", "wr"}
  BY Fields DEF Good, Stream
<1>1. CASE t.ndirty = 0
  <2>1. u = t /\ nw = 0
    BY <1>1 DEF Flush
  <2>2. First(t.buf, nw) = <<>>
    BY <1>0, <2>1, FirstNone
  <2>3. t.state = "wr" => t.buf = <<>> /\ t.bpos = 0
    <3>1. SUFFICES ASSUME t.state = "wr" PROVE t.buf = <<>> /\ t.bpos = 0
      OBVIOUS
    <3>2. Len(t.buf) = 0
      BY <1>1, <3>1 DEF Shape
    <3>3. QED
      BY <1>0, <3>2, EmptyByLength
  <2>4. QED
    BY <1>0, <1>1, <2>1, <2>2, <2>3, OverlayNothing DEF Kept
<1>2. CASE t.ndirty # 0
  <2>1. t.state \in {"rd", "wr"} /\ (t.state = "rd" => Seekable /\ Len(t.buf) <= t.off)
    <3>1. t.state # "none"
      BY <1>0, <1>2, EmptyBytes DEF Shape
    <3>2. Kind = "file" \/ Kind = "pipe"
      BY IosAssumption DEF InMemory
    <3>3. QED
      BY <1>0, <1>2, <3>1, <3>2 DEF Shape, Seekable
  <2> DEFINE start == IF t.state = "rd" THEN Lseek(t, t.off - Len(t.buf)) ELSE t
             put   == First(t.buf, Min2(nw, Len(t.buf)))
             out   == KernelWrite(start, put)
             clean == [out EXCEPT !.ndirty = 0, !.fpos = -1,
                         !.status = IF t.ndirty > Len(t.buf) THEN "corrupt" ELSE @]
             rd    == Lseek(clean, clean.off + Len(t.buf) - nw)
             moved == Lseek(clean, clean.off + t.bpos - nw)
             wr    == [moved EXCEPT !.buf = After(@, t.ndirty), !.bpos = 0]
             same  == Kept \cup {"buf", "bpos"}
  <2>2. nw \in Nat /\ nw <= Len(t.buf) /\ Min2(nw, Len(t.buf)) = nw
    BY <1>0 DEF Shape, Min2
  <2>3. put \in Seq(Byte) /\ Len(put) = nw /\ put = First(t.buf, nw)
    BY <1>0, <2>2, FirstBytes
  <2>4. /\ start \in Stream /\ Good(start) /\ \A f \in DOMAIN t \ {"off"} : start[f] = t[f]
        /\ start.off = BufferAt(t)
    <3>1. CASE t.state = "rd"
      <4>1. t.off - Len(t.buf) \in Int /\ t.off - Len(t.buf) >= 0 /\ Seekable
        BY <1>0, <2>1, <3>1
      <4>2. QED
        BY <3>1, <4>1, LseekGood DEF BufferAt
    <3>2. CASE t.state # "rd"
      BY <3>2 DEF BufferAt
    <3>3. QED
      BY <3>1, <3>2
  <2> HIDE DEF start, put
  <2>5. DOMAIN start = DOMAIN t /\ DOMAIN t = DOMAIN out /\ out \in Stream /\ Good(out)
    <3>1. out \in Stream /\ Good(out)
      BY <2>3, <2>4, KernelWriteGood
    <3>2. QED
      BY <2>4, <3>1, Fields
  <2>6. /\ out.data = Overlay(t.data, BufferAt(t), First(t.buf, nw))
        /\ out.off = BufferAt(t) + nw
        /\ \A f \in same : out[f] = t[f]
    <3>1. /\ out.data = Overlay(start.data, start.off, put)
          /\ out.off = start.off + Len(put)
          /\ \A f \in DOMAIN start \ {"off", "data"} : out[f] = start[f]
      BY <2>3, <2>4, KernelWriteIs
    <3>2. "data" \in DOMAIN t \ {"off"} /\ same \subseteq DOMAIN t \ {"off", "data"}
      BY Fields DEF Kept
    <3>3. start.data = t.data
      BY <2>4, <3>2
    <3>4. \A f \in same : out[f] = t[f]
      BY <2>4, <2>5, <3>1, <3>2
    <3>5. QED
      BY <2>3, <2>4, <3>1, <3>3, <3>4
  <2> HIDE DEF out
  <2>7. clean = [out EXCEPT !.ndirty = 0, !.fpos = -1, !.status = out.status]
    <3>1. (IF t.ndirty > Len(t.buf) THEN "corrupt" ELSE out.status) = out.status
      BY <1>0 DEF Shape
    <3>2. QED
      BY Zenon, <3>1
  <2>8. clean \in Stream /\ Good(clean)
    <3>1. clean \in Stream
      BY Zenon, <2>5, <2>7 DEF Stream
    <3>2. clean.bpos = out.bpos /\ clean.buf = out.buf /\ clean.maxsize = out.maxsize
          /\ clean.inl = out.inl
      BY Zenon, <2>5, <2>7 DEF Stream
    <3>3. QED
      BY <2>5, <3>1, <3>2, GoodKept
  <2>9. /\ clean.ndirty = 0 /\ clean.data = out.data /\ clean.off = out.off
        /\ \A f \in DOMAIN out \ {"ndirty", "fpos", "status"} : clean[f] = out[f]
        /\ clean.status = out.status
    BY Zenon, <2>5, <2>7 DEF Stream
  <2>10. /\ \A f \in same : clean[f] = t[f]
         /\ DOMAIN clean = DOMAIN t
    <3>1. \A f \in same : f \in DOMAIN out \ {"ndirty", "fpos", "status"} \/ f = "status"
      BY <2>5, Fields DEF Kept
    <3>2. QED
      BY <2>6, <2>8, <2>9, <3>1, Fields
  <2> HIDE DEF clean
  <2>11. CASE t.state = "rd"
    <3>1. u = rd
      BY <1>2, <2>11 DEF Flush, FlushDirty, start, put, out, clean
    <3>2. clean.off + Len(t.buf) - nw = t.off /\ Seekable
      BY <1>0, <2>1, <2>2, <2>6, <2>9, <2>11 DEF BufferAt
    <3>3. /\ \A f \in DOMAIN clean \ {"off"} : rd[f] = clean[f]
          /\ rd.off = t.off
      <4>1. t.off \in Int /\ t.off >= 0 /\ rd = Lseek(clean, t.off)
        BY <1>0, <3>2
      <4> HIDE DEF rd
      <4>2. QED
        BY <2>8, <3>2, <4>1, LseekGood
    <3>4. same \cup {"ndirty", "data"} \subseteq DOMAIN clean \ {"off"}
      BY <2>10, Fields DEF Kept
    <3>5. /\ \A f \in same : rd[f] = t[f]
          /\ rd.ndirty = 0 /\ rd.data = clean.data
      BY <2>9, <2>10, <3>3, <3>4
    <3>6. rd.buf = t.buf /\ rd.bpos = t.bpos
      BY <3>5
    <3> HIDE DEF rd, u
    <3>7. QED
      BY <2>6, <2>9, <2>11, <3>1, <3>3, <3>5, <3>6 DEF u
  <2>12. CASE t.state = "wr"
    <3>1. u = wr
      BY <1>2, <2>12 DEF Flush, FlushDirty, start, put, out, clean
    <3>2. clean.off + t.bpos - nw \in Int /\ clean.off + t.bpos - nw = t.off + t.bpos
          /\ t.off + t.bpos >= 0 /\ clean.off = t.off + nw
      BY <1>0, <2>2, <2>6, <2>9, <2>12 DEF BufferAt
    <3>3. /\ \A f \in DOMAIN clean \ {"off"} : moved[f] = clean[f]
          /\ moved.off = t.off + (IF Seekable THEN t.bpos ELSE nw)
          /\ moved \in Stream
      BY <2>8, <3>2, LseekGood
    <3>4. same \cup {"ndirty", "data"} \subseteq DOMAIN clean \ {"off"}
      BY <2>10, Fields DEF Kept
    <3>5. /\ \A f \in same : moved[f] = t[f]
          /\ moved.ndirty = 0 /\ moved.data = clean.data
      BY <2>9, <2>10, <3>3, <3>4
    <3> HIDE DEF moved
    <3>6. After(moved.buf, t.ndirty) = <<>>
      <4>1. moved.buf = t.buf
        BY <3>5
      <4>2. t.ndirty = Len(t.buf)
        BY <2>12 DEF Shape
      <4>3. After(t.buf, t.ndirty) \in Seq(Byte) /\ Len(After(t.buf, t.ndirty)) = 0
        BY <1>0, <4>2, AfterBytes
      <4>4. QED
        BY <4>1, <4>3, EmptyByLength
    <3>7. /\ wr.buf = <<>> /\ wr.bpos = 0 /\ wr.off = moved.off
          /\ wr.data = moved.data /\ wr.ndirty = moved.ndirty
          /\ \A f \in DOMAIN moved \ {"buf", "bpos"} : wr[f] = moved[f]
      BY Zenon, <3>3, <3>6 DEF Stream
    <3>8. Kept \subseteq DOMAIN moved \ {"buf", "bpos"}
      BY <3>3, Fields DEF Kept
    <3>9. \A f \in Kept : wr[f] = t[f]
      BY <3>5, <3>7, <3>8
    <3> HIDE DEF wr, u
    <3>10. QED
      BY <2>6, <2>9, <2>12, <3>1, <3>3, <3>5, <3>7, <3>9 DEF u
  <2>13. QED
    BY <2>1, <2>11, <2>12
<1>3. QED
  BY <1>1, <1>2

LEMMA FlushShape ==
  ASSUME NEW t \in Stream, Good(t), Shape(t), ~InMemory, NEW nw \in 0..t.ndirty
  PROVE  Shape(Flush(t, nw)) /\ Flush(t, nw).status = t.status
<1> DEFINE u == Flush(t, nw)
<1>1. /\ u.ndirty = 0 /\ \A f \in Kept : u[f] = t[f]
      /\ u.buf = IF t.state = "wr" THEN <<>> ELSE t.buf
      /\ u.bpos = IF t.state = "wr" THEN 0 ELSE t.bpos
      /\ t.state # "wr" => u.off = t.off
  BY FlushIs
<1> HIDE DEF u
<1>2. u.state = t.state /\ u.bm = t.bm /\ u.status = t.status
  BY <1>1 DEF Kept
<1>3. Len(t.buf) \in Nat /\ Len(<<>>) = 0
  BY Fields, EmptyBytes
<1>4. Shape(u)
  BY <1>1, <1>2, <1>3 DEF Shape
<1>5. QED
  BY <1>2, <1>4 DEF u

\* While a file is read, the data must fit over what is buffered of it.
LEMMA PutShape ==
  ASSUME NEW t \in Stream, Good(t), Shape(t), NEW d \in Seq(Byte),
         t.state # "none", t.status = "open",
         t.state = "rd" => Kind # "pipe" /\ t.bpos + Len(d) <= Len(t.buf)
  PROVE  /\ Shape(Put(t, d))
         /\ Put(t, d).status = t.status /\ Put(t, d).state = t.state
         /\ t.state = "rd" => Len(Put(t, d).buf) = Len(t.buf)
<1> DEFINE u == Put(t, d)
<1>1. /\ t.buf \in Seq(Byte) /\ Len(t.buf) \in Nat /\ t.bpos \in Nat /\ t.ndirty \in Nat
      /\ Len(d) \in Nat /\ (d = <<>> => Len(d) = 0)
  BY Fields, LenProperties, EmptyBytes
<1>2. /\ Len(Overlay(t.buf, t.bpos, d)) =
           IF d = <<>> THEN Len(t.buf) ELSE Max2(Len(t.buf), t.bpos + Len(d))
  BY <1>1, ByteOverlay
<1>3. /\ u.buf = Overlay(t.buf, t.bpos, d)
      /\ u.bpos = t.bpos + Len(d)
      /\ u.ndirty = Max2(t.ndirty, t.bpos + Len(d))
      /\ \A f \in DOMAIN t \ {"buf", "bpos", "ndirty"} : u[f] = t[f]
  BY PutIs
<1> HIDE DEF u
<1>4. u.state = t.state /\ u.bm = t.bm /\ u.status = t.status /\ u.off = t.off
  <2>1. {"state", "bm", "status", "off"} \subseteq DOMAIN t \ {"buf", "bpos", "ndirty"}
    BY Fields
  <2>2. QED
    BY <1>3, <2>1
<1>5. Len(u.buf) = Max2(Len(t.buf), t.bpos + Len(d))
  BY <1>1, <1>2, <1>3 DEF Max2, Good
<1>6. t.state \in {"rd", "wr"}
  BY DEF Stream
<1>7. CASE t.state = "rd"
  <2>1. Len(u.buf) = Len(t.buf) /\ u.ndirty <= Len(u.buf)
    BY <1>1, <1>3, <1>5, <1>7 DEF Max2, Shape
  <2>2. Shape(u)
    BY <1>3, <1>4, <1>7, <2>1 DEF Shape
  <2>3. QED
    BY <1>4, <2>1, <2>2 DEF u
<1>8. CASE t.state = "wr"
  <2>1. u.ndirty = Len(u.buf) /\ (Kind = "pipe" => u.bpos = Len(u.buf))
    BY <1>1, <1>3, <1>5, <1>8 DEF Max2, Shape
  <2>2. Len(u.buf) \in Nat
    BY <1>1, <1>5 DEF Max2
  <2>3. Shape(u)
    BY <1>4, <1>8, <2>1, <2>2 DEF Shape
  <2>4. QED
    BY <1>4, <1>8, <2>3 DEF u
<1>9. QED
  BY <1>6, <1>7, <1>8

\* The start of a read from the descriptor: what was dirty is written, the buffer
\* is empty and the offset has not moved.
LEMMA DrainedIs ==
  ASSUME NEW t \in Stream, Good(t), Shape(t), ~InMemory, NEW nw \in 0..t.ndirty,
         t.state = "wr" => t.buf = <<>>
  PROVE  LET r == Drained(t, nw) IN
         /\ r \in Stream /\ Good(r)
         /\ r.buf = <<>> /\ r.bpos = 0 /\ r.ndirty = 0 /\ r.state = "rd" /\ r.off = t.off
         /\ r.data = Overlay(t.data, BufferAt(t), First(t.buf, nw))
         /\ \A f \in Kept \ {"state"} : r[f] = t[f]
<1> DEFINE e == [t EXCEPT !.bpos = Len(t.buf)]
           u == Flush(e, nw)
           r == Drained(t, nw)
<1>0. Len(t.buf) \in Nat /\ t.ndirty \in Nat /\ nw \in Nat /\ Len(<<>>) = 0
  BY Fields, EmptyBytes
<1>1. e \in Stream
  BY Zenon, <1>0 DEF Stream
<1>2. e.bpos = Len(t.buf) /\ \A f \in DOMAIN t \ {"bpos"} : e[f] = t[f]
  BY Zenon, <1>0 DEF Stream
<1>3. Kept \cup {"buf", "ndirty", "off", "data"} \subseteq DOMAIN t \ {"bpos"}
  BY Fields DEF Kept
<1>4. \A f \in Kept \cup {"buf", "ndirty", "off", "data"} : e[f] = t[f]
  BY <1>2, <1>3
<1> HIDE DEF e
<1>5. /\ e.buf = t.buf /\ e.ndirty = t.ndirty /\ e.off = t.off /\ e.data = t.data
      /\ e.state = t.state /\ e.bm = t.bm /\ e.status = t.status
      /\ e.maxsize = t.maxsize /\ e.inl = t.inl
  BY <1>4 DEF Kept
<1>6. Good(e)
  BY <1>0, <1>1, <1>2, <1>5, GoodWithin
<1>7. Shape(e)
  BY <1>2, <1>5 DEF Shape
<1>8. /\ u.ndirty = 0
      /\ \A f \in Kept : u[f] = e[f]
      /\ u.data = Overlay(e.data, BufferAt(e), First(e.buf, nw))
      /\ e.state # "wr" => u.off = e.off
      /\ e.state = "wr" => u.off = e.off + (IF Seekable THEN e.bpos ELSE nw)
  BY <1>1, <1>5, <1>6, <1>7, FlushIs
<1>9. u \in Stream /\ Good(u)
  BY <1>0, <1>1, <1>6, FlushGood
<1>10. r = [u EXCEPT !.buf = <<>>, !.bpos = 0, !.state = "rd", !.fpos = -1]
  BY DEF Drained, e
<1> HIDE DEF u
<1>11. u.off = t.off
  <2>1. CASE t.state = "wr"
    <3>1. e.bpos = 0 /\ t.ndirty = 0
      BY <1>0, <1>2, <2>1 DEF Shape
    <3>2. nw = 0
      BY <3>1
    <3>3. t.off \in Nat
      BY Fields
    <3>4. QED
      BY <1>5, <1>8, <2>1, <3>1, <3>2, <3>3
  <2>2. CASE t.state # "wr"
    BY <1>5, <1>8, <2>2
  <2>3. QED
    BY <2>1, <2>2
<1>12. /\ r.buf = <<>> /\ r.bpos = 0 /\ r.state = "rd"
       /\ \A f \in DOMAIN u \ {"buf", "bpos", "state", "fpos"} : r[f] = u[f]
  BY Zenon, <1>9, <1>10 DEF Stream
<1>13. {"ndirty", "off", "data"} \cup (Kept \ {"state"})
         \subseteq DOMAIN u \ {"buf", "bpos", "state", "fpos"}
  BY <1>9, Fields DEF Kept
<1>14. /\ r.ndirty = 0 /\ r.off = t.off /\ r.data = u.data
       /\ \A f \in Kept \ {"state"} : r[f] = t[f]
  BY <1>4, <1>8, <1>11, <1>12, <1>13
<1>15. r \in Stream /\ Good(r)
  BY <1>0, DrainedGood
<1> HIDE DEF r
<1>16. BufferAt(e) = BufferAt(t)
  BY <1>5 DEF BufferAt
<1>17. QED
  BY <1>5, <1>8, <1>12, <1>14, <1>15, <1>16 DEF r

\* A read of a descriptor that the client may make. Either the buffer has the n
\* bytes, or what it has left is followed by k bytes from the offset; then the
\* buffer is new and holds b bytes before the position and g behind it.
FromBuffer(n) ==
  /\ s.state = "rd" /\ n <= Avail(s)
  /\ s'.bpos = s.bpos + n /\ \A f \in DOMAIN s \ {"bpos"} : s'[f] = s[f]
  /\ call'.bytes = Slice(s.buf, s.bpos, n)

FromFile(op, n, nw, k, b, g) ==
  /\ n > Avail(s)
  /\ s'.data = Overlay(s.data, BufferAt(s), First(s.buf, nw))
  /\ k <= n - Avail(s) /\ k + g <= Max2(0, Len(s'.data) - s.off) /\ b <= k
  /\ b = 0 => g = 0
  /\ k < n - Avail(s) => \/ k = Max2(0, Len(s'.data) - s.off)
                         \/ IoErrors
                         \/ op = "read" /\ k > 0
  /\ s'.state = "rd" /\ s'.ndirty = 0 /\ s'.off = s.off + k + g
  /\ s'.buf = Slice(s'.data, s.off + k - b, b + g) /\ s'.bpos = b
  /\ s'.eof => s.eof \/ IoErrors \/ k = Max2(0, Len(s'.data) - s.off)
  /\ s'.bm = s.bm /\ s'.status = s.status
  /\ call'.bytes = After(s.buf, s.bpos) \o Slice(s'.data, s.off, k)

LEMMA RefilledIs ==
  ASSUME NEW t \in Stream, NEW k, NEW b, NEW g
  PROVE  LET u == Refilled(t, k, b, g) IN
         /\ u.off = t.off + k + g /\ u.bpos = b
         /\ u.buf = Slice(t.data, t.off + k - b, b + g)
         /\ \A f \in DOMAIN t \ {"off", "buf", "bpos"} : u[f] = t[f]
BY Zenon DEF Refilled, Stream

LEMMA ReadIs ==
  ASSUME IInv, Shape(s), ~InMemory, s.state = "wr" => s.buf = <<>>,
         NEW op, NEW n \in Nat \ {0}, Reading(op, n)
  PROVE  \/ FromBuffer(n)
         \/ \E nw \in Flushed(s), k \in Nat, b \in Nat, g \in Nat :
              FromFile(op, n, nw, k, b, g)
<1>0. s \in Stream /\ Good(s) /\ Avail(s) \in Nat /\ s.off \in Nat /\ s.maxsize \in Nat
  BY Known
<1>a. ASSUME NEW nw \in Flushed(s)
      PROVE  LET r == Drained(s, nw) IN
             /\ r \in Stream /\ Good(r)
             /\ r.buf = <<>> /\ r.bpos = 0 /\ r.ndirty = 0 /\ r.state = "rd" /\ r.off = s.off
             /\ r.data = Overlay(s.data, BufferAt(s), First(s.buf, nw))
             /\ r.bm = s.bm /\ r.status = s.status /\ r.eof = s.eof
             /\ Readable(r) = Max2(0, Len(r.data) - s.off) /\ Readable(r) \in Nat
             /\ Len(r.data) \in Nat
  <2> DEFINE r == Drained(s, nw)
  <2>1. nw \in 0..s.ndirty
    BY <1>a, Known, AcceptedNat DEF Flushed
  <2>2. /\ r \in Stream /\ Good(r)
        /\ r.buf = <<>> /\ r.bpos = 0 /\ r.ndirty = 0 /\ r.state = "rd" /\ r.off = s.off
        /\ r.data = Overlay(s.data, BufferAt(s), First(s.buf, nw))
        /\ \A f \in Kept \ {"state"} : r[f] = s[f]
    BY <1>0, <2>1, DrainedIs
  <2> HIDE DEF r
  <2>3. r.bm = s.bm /\ r.status = s.status /\ r.eof = s.eof
    BY <2>2 DEF Kept
  <2>4. Len(r.data) \in Nat
    BY <2>2, Fields
  <2>5. Readable(r) = Max2(0, Len(r.data) - s.off) /\ Readable(r) \in Nat
    BY <1>0, <2>2, <2>4 DEF Readable, Max2
  <2>6. QED
    BY <2>2, <2>3, <2>4, <2>5 DEF r
<1>1. CASE ReadBuffered(op, n)
  <2>1. n <= Avail(s) /\ call'.bytes = Slice(s.buf, s.bpos, n)
    BY <1>1 DEF ReadBuffered, Got, Did
  <2>2. s.state = "rd"
    <3>1. s.buf # <<>>
      BY <1>0, <2>1, NothingAvail
    <3>2. s.state \in {"none", "rd", "wr"}
      BY <1>0 DEF Stream
    <3>3. QED
      BY <3>1, <3>2 DEF Shape
  <2>3. s' = [s EXCEPT !.bpos = @ + n, !.state = "rd"]
    BY <1>1 DEF ReadBuffered
  <2>4. s'.bpos = s.bpos + n /\ s'.state = "rd"
        /\ \A f \in DOMAIN s \ {"bpos", "state"} : s'[f] = s[f]
    BY Zenon, <1>0, <2>3 DEF Stream
  <2>5. \A f \in DOMAIN s \ {"bpos"} : s'[f] = s[f]
    BY <2>2, <2>4
  <2>6. QED
    BY <2>1, <2>2, <2>4, <2>5 DEF FromBuffer
<1>2. ReadRest(op, n) => FALSE
  BY DEF ReadRest
<1>3. CASE ReadDirect(op, n)
  <2> DEFINE f(nw) == Drained(s, nw)
  <2>1. n > Avail(s)
    BY <1>3 DEF ReadDirect
  <2>2. PICK nw \in Flushed(s) :
          \E k \in 0..Min2(n - Avail(s), Readable(f(nw))) :
            /\ k < Min2(n - Avail(s), Readable(f(nw))) => IoErrors \/ (op = "read" /\ k > 0)
            /\ s' = [f(nw) EXCEPT !.off = @ + k, !.eof = @ \/ k = 0]
            /\ Got(op, n, After(s.buf, s.bpos) \o Slice(f(nw).data, f(nw).off, k))
    BY <1>3 DEF ReadDirect
  <2> DEFINE r == Drained(s, nw)
  <2>3. PICK k \in 0..Min2(n - Avail(s), Readable(r)) :
          /\ k < Min2(n - Avail(s), Readable(r)) => IoErrors \/ (op = "read" /\ k > 0)
          /\ s' = [r EXCEPT !.off = @ + k, !.eof = @ \/ k = 0]
          /\ Got(op, n, After(s.buf, s.bpos) \o Slice(r.data, r.off, k))
    BY <2>2
  <2>4. /\ r \in Stream
        /\ r.buf = <<>> /\ r.bpos = 0 /\ r.ndirty = 0 /\ r.state = "rd" /\ r.off = s.off
        /\ r.data = Overlay(s.data, BufferAt(s), First(s.buf, nw))
        /\ r.bm = s.bm /\ r.status = s.status /\ r.eof = s.eof
        /\ Readable(r) = Max2(0, Len(r.data) - s.off) /\ Readable(r) \in Nat
        /\ Len(r.data) \in Nat
    BY <1>a
  <2> HIDE DEF r
  <2>5. k \in Nat /\ k <= n - Avail(s) /\ k <= Readable(r)
    BY <1>0, <2>1, <2>3, <2>4 DEF Min2
  <2>6. s'.off = s.off + k /\ s'.eof = (s.eof \/ k = 0)
        /\ \A x \in DOMAIN r \ {"off", "eof"} : s'[x] = r[x]
    <3> DEFINE e == r.eof \/ k = 0
               p == r.off + k
    <3>1. s' = [r EXCEPT !.off = p, !.eof = e]
      BY <2>3
    <3> HIDE DEF e, p
    <3>2. s'.off = p /\ s'.eof = e
          /\ \A x \in DOMAIN r \ {"off", "eof"} : s'[x] = r[x]
      BY Zenon, <2>4, <3>1 DEF Stream
    <3>3. QED
      BY Zenon, <2>4, <3>2 DEF e, p
  <2>7. {"buf", "bpos", "ndirty", "state", "data", "bm", "status"} \subseteq DOMAIN r \ {"off", "eof"}
    BY <2>4, Fields
  <2>8. /\ s'.buf = <<>> /\ s'.bpos = 0 /\ s'.ndirty = 0 /\ s'.state = "rd"
        /\ s'.data = r.data /\ s'.bm = s.bm /\ s'.status = s.status
    BY <2>4, <2>6, <2>7
  <2>9. Slice(s'.data, s.off + k, 0) = <<>>
    <3>1. r.data \in Seq(Byte) /\ s.off + k \in Nat /\ 0 \in Nat
      BY <1>0, <2>4, <2>5, Fields, SMTT(20)
    <3>2. Slice(r.data, s.off + k, 0) \in Seq(Byte) /\ Len(Slice(r.data, s.off + k, 0)) = 0
      BY <3>1, SliceBytes
    <3>3. QED
      BY <2>8, <3>2, EmptyByLength
  <2>10. k < n - Avail(s) => k = Readable(r) \/ IoErrors \/ (op = "read" /\ k > 0)
    BY <1>0, <2>1, <2>3, <2>4, <2>5 DEF Min2
  <2>11. s'.eof => s.eof \/ IoErrors \/ k = Readable(r)
    <3>1. k = 0 => IoErrors \/ k = Readable(r)
      BY <1>0, <2>1, <2>10
    <3>2. QED
      BY Zenon, <2>6, <3>1
  <2>12. call'.bytes = After(s.buf, s.bpos) \o Slice(s'.data, s.off, k)
    BY <2>3, <2>4, <2>8 DEF Got, Did
  <2>13. s.off + k + 0 = s.off + k /\ s.off + k - 0 = s.off + k /\ 0 + 0 = 0 /\ k + 0 = k
    BY <1>0, <2>5
  <2>14. FromFile(op, n, nw, k, 0, 0)
    BY <2>1, <2>4, <2>5, <2>6, <2>8, <2>9, <2>10, <2>11, <2>12, <2>13 DEF FromFile
  <2>15. QED
    BY <2>5, <2>14
<1>4. CASE ReadRefill(op, n)
  <2> DEFINE f(nw) == Drained(s, nw)
             want == n - Avail(s)
  <2>1. n > Avail(s) /\ want \in Nat \ {0}
    <3>1. n > Avail(s)
      BY <1>4 DEF ReadRefill
    <3>2. QED
      BY <1>0, <3>1
  <2>2. PICK nw \in Flushed(s) :
          \/ \E b \in 1..want, g \in 0..f(nw).maxsize :
               /\ b + g <= f(nw).maxsize /\ want + g <= Readable(f(nw))
               /\ s' = Refilled(f(nw), want, b, g)
               /\ Got(op, n, After(s.buf, s.bpos) \o Slice(f(nw).data, f(nw).off, want))
          \/ \E k \in 0..Min2(want - 1, Readable(f(nw))) :
               /\ k = Readable(f(nw)) \/ IoErrors
               /\ s' = [f(nw) EXCEPT !.off = @ + k, !.eof = TRUE]
               /\ Got(op, n, After(s.buf, s.bpos) \o Slice(f(nw).data, f(nw).off, k))
    BY <1>4 DEF ReadRefill
  <2> DEFINE r == Drained(s, nw)
  <2>3. \/ \E b \in 1..want, g \in 0..r.maxsize :
            /\ b + g <= r.maxsize /\ want + g <= Readable(r)
            /\ s' = Refilled(r, want, b, g)
            /\ Got(op, n, After(s.buf, s.bpos) \o Slice(r.data, r.off, want))
        \/ \E k \in 0..Min2(want - 1, Readable(r)) :
            /\ k = Readable(r) \/ IoErrors
            /\ s' = [r EXCEPT !.off = @ + k, !.eof = TRUE]
            /\ Got(op, n, After(s.buf, s.bpos) \o Slice(r.data, r.off, k))
    BY <2>2
  <2>4. /\ r \in Stream
        /\ r.buf = <<>> /\ r.bpos = 0 /\ r.ndirty = 0 /\ r.state = "rd" /\ r.off = s.off
        /\ r.data = Overlay(s.data, BufferAt(s), First(s.buf, nw))
        /\ r.bm = s.bm /\ r.status = s.status /\ r.eof = s.eof
        /\ Readable(r) = Max2(0, Len(r.data) - s.off) /\ Readable(r) \in Nat
        /\ Len(r.data) \in Nat
    BY <1>a
  <2>5. r.maxsize \in Nat /\ DOMAIN r = DOMAIN s
    BY <1>0, <2>4, Fields
  <2> HIDE DEF r
  <2>6. CASE \E b \in 1..want, g \in 0..r.maxsize :
               /\ b + g <= r.maxsize /\ want + g <= Readable(r)
               /\ s' = Refilled(r, want, b, g)
               /\ Got(op, n, After(s.buf, s.bpos) \o Slice(r.data, r.off, want))
    <3> HIDE DEF want
    <3>1. PICK b \in 1..want, g \in 0..r.maxsize :
            /\ b + g <= r.maxsize /\ want + g <= Readable(r)
            /\ s' = Refilled(r, want, b, g)
            /\ Got(op, n, After(s.buf, s.bpos) \o Slice(r.data, r.off, want))
      BY <2>6
    <3>2. b \in Nat /\ g \in Nat /\ b <= want /\ b # 0
      BY <2>1, <2>5, <3>1
    <3>3. /\ s'.off = r.off + want + g /\ s'.bpos = b
          /\ s'.buf = Slice(r.data, r.off + want - b, b + g)
          /\ \A x \in DOMAIN r \ {"off", "buf", "bpos"} : s'[x] = r[x]
      BY <2>4, <3>1, RefilledIs
    <3>4. {"ndirty", "state", "data", "bm", "status", "eof"}
            \subseteq DOMAIN r \ {"off", "buf", "bpos"}
      BY <2>4, Fields
    <3>5. /\ s'.ndirty = 0 /\ s'.state = "rd"
          /\ s'.data = r.data /\ s'.bm = s.bm /\ s'.status = s.status /\ s'.eof = s.eof
      BY <2>4, <3>3, <3>4
    <3>6. call'.bytes = After(s.buf, s.bpos) \o Slice(s'.data, s.off, want)
      BY <2>4, <3>1, <3>5 DEF Got, Did
    <3>7. FromFile(op, n, nw, want, b, g)
      <4>1. want <= n - Avail(s) /\ ~(want < n - Avail(s))
        BY <2>1 DEF want
      <4>2. want + g <= Max2(0, Len(s'.data) - s.off)
        BY <2>4, <3>1, <3>5
      <4>3. /\ s'.off = s.off + want + g
            /\ s'.buf = Slice(s'.data, s.off + want - b, b + g)
        BY <2>4, <3>3, <3>5
      <4>4. s'.data = Overlay(s.data, BufferAt(s), First(s.buf, nw))
        BY <2>4, <3>5
      <4>5. QED
        BY <2>1, <3>2, <3>3, <3>5, <3>6, <4>1, <4>2, <4>3, <4>4 DEF FromFile
    <3>8. QED
      BY <2>1, <3>2, <3>7
  <2>7. CASE \E k \in 0..Min2(want - 1, Readable(r)) :
               /\ k = Readable(r) \/ IoErrors
               /\ s' = [r EXCEPT !.off = @ + k, !.eof = TRUE]
               /\ Got(op, n, After(s.buf, s.bpos) \o Slice(r.data, r.off, k))
    <3>1. PICK k \in 0..Min2(want - 1, Readable(r)) :
            /\ k = Readable(r) \/ IoErrors
            /\ s' = [r EXCEPT !.off = @ + k, !.eof = TRUE]
            /\ Got(op, n, After(s.buf, s.bpos) \o Slice(r.data, r.off, k))
      BY <2>7
    <3>2. k \in Nat /\ k <= want /\ k <= Readable(r)
      BY <2>1, <2>4, <3>1 DEF Min2
    <3>3. s'.off = s.off + k /\ \A x \in DOMAIN r \ {"off", "eof"} : s'[x] = r[x]
      <4> DEFINE p == r.off + k
      <4>1. s' = [r EXCEPT !.off = p, !.eof = TRUE]
        BY <3>1
      <4> HIDE DEF p
      <4>2. s'.off = p /\ \A x \in DOMAIN r \ {"off", "eof"} : s'[x] = r[x]
        BY Zenon, <2>4, <4>1 DEF Stream
      <4>3. QED
        BY <2>4, <4>2 DEF p
    <3>4. {"buf", "bpos", "ndirty", "state", "data", "bm", "status"}
            \subseteq DOMAIN r \ {"off", "eof"}
      BY <2>4, Fields
    <3>5. /\ s'.buf = <<>> /\ s'.bpos = 0 /\ s'.ndirty = 0 /\ s'.state = "rd"
          /\ s'.data = r.data /\ s'.bm = s.bm /\ s'.status = s.status
      BY <2>4, <3>3, <3>4
    <3>6. Slice(s'.data, s.off + k, 0) = <<>>
      <4>0. r.data \in Seq(Byte)
        BY <2>4, Fields
      <4>1. r.data \in Seq(Byte) /\ s.off + k \in Nat /\ 0 \in Nat
        BY <1>0, <3>2, <4>0
      <4>2. /\ Slice(r.data, s.off + k, 0) \in Seq(Byte)
            /\ Len(Slice(r.data, s.off + k, 0)) = 0
        BY <4>1, SliceBytes
      <4>3. QED
        BY <3>5, <4>2, EmptyByLength
    <3>7. k = Readable(r) \/ IoErrors
      BY <3>1
    <3>8. call'.bytes = After(s.buf, s.bpos) \o Slice(s'.data, s.off, k)
      BY <2>4, <3>1, <3>5 DEF Got, Did
    <3>9. s.off + k + 0 = s.off + k /\ s.off + k - 0 = s.off + k /\ 0 + 0 = 0 /\ k + 0 = k
      BY <1>0, <3>2
    <3>10. FromFile(op, n, nw, k, 0, 0)
      BY <2>1, <2>4, <3>2, <3>3, <3>5, <3>6, <3>7, <3>8, <3>9 DEF FromFile
    <3>11. QED
      BY <3>2, <3>10
  <2>8. QED
    BY <2>3, <2>6, <2>7
<1>5. QED
  BY <1>1, <1>2, <1>3, <1>4 DEF Reading

(***************************************************************************)
(* Writing to a descriptor.                                                *)
(***************************************************************************)

LEMMA MostFits == \A x \in Nat : MostOf(x) <= x
<1> SUFFICES ASSUME NEW x \in Nat PROVE MostOf(x) <= x
  OBVIOUS
<1>1. MostDiv \in Nat \ {0}
  BY IosAssumption
<1>2. x \div MostDiv \in Nat
  BY <1>1
<1>3. QED
  BY <1>2 DEF MostOf

\* Turning to writing, a client that keeps its duties loses nothing.
LEMMA ForWritingIs ==
  ASSUME IInv, s.state # "rd" \/ s.buf = <<>> \/ Kind = "file"
  PROVE  LET o == ForWriting(s) IN
         /\ o \in Stream /\ Good(o)
         /\ \A f \in DOMAIN s \ {"state"} : o[f] = s[f]
         /\ o.state = IF s.state = "none" THEN "wr" ELSE s.state
         /\ Shape(s) => Shape(o)
<1> DEFINE o == ForWriting(s)
<1>0. s \in Stream /\ Good(s)
  BY Known
<1>1. o \in Stream /\ Good(o)
  BY <1>0, ForWritingGood
<1>2. /\ \A f \in DOMAIN s \ {"state"} : o[f] = s[f]
      /\ o.state = IF s.state = "none" THEN "wr" ELSE s.state
  <2>1. CASE s.state = "none"
    <3>1. o = [s EXCEPT !.state = "wr"]
      BY <2>1 DEF ForWriting
    <3> HIDE DEF o
    <3>2. o.state = "wr" /\ \A f \in DOMAIN s \ {"state"} : o[f] = s[f]
      BY Zenon, <1>0, <3>1 DEF Stream
    <3>3. QED
      BY <2>1, <3>2
  <2>2. CASE s.state = "rd" /\ ~rereadable
    <3>1. s.buf = <<>> /\ s.bpos = 0
      BY <2>2, NothingAvail DEF rereadable
    <3>2. o = [s EXCEPT !.buf = <<>>, !.bpos = 0]
      BY <2>2 DEF ForWriting
    <3> HIDE DEF o
    <3>3. o.buf = <<>> /\ o.bpos = 0 /\ \A f \in DOMAIN s \ {"buf", "bpos"} : o[f] = s[f]
      BY Zenon, <1>0, <3>2 DEF Stream
    <3>4. \A f \in DOMAIN s : o[f] = s[f]
      BY <3>1, <3>3
    <3>5. "state" \in DOMAIN s
      BY <1>0, Fields
    <3>6. QED
      BY <2>2, <3>4, <3>5
  <2>3. CASE s.state # "none" /\ ~(s.state = "rd" /\ ~rereadable)
    BY <2>3 DEF ForWriting
  <2>4. QED
    BY <2>1, <2>2, <2>3
<1> HIDE DEF o
<1>3. {"buf", "bpos", "ndirty", "off", "bm", "status"} \subseteq DOMAIN s \ {"state"}
  BY <1>0, Fields
<1>4. /\ o.buf = s.buf /\ o.bpos = s.bpos /\ o.ndirty = s.ndirty
      /\ o.off = s.off /\ o.bm = s.bm /\ o.status = s.status
  BY <1>2, <1>3
<1>5. ASSUME Shape(s) PROVE Shape(o)
  <2>1. s.state = "none" => s.ndirty = 0 /\ Len(s.buf) = 0
    <3>1. Len(<<>>) = 0 /\ s.ndirty \in Nat
      BY <1>0, Fields, EmptyBytes
    <3>2. QED
      BY <1>5, <3>1 DEF Shape
  <2>2. QED
    BY <1>2, <1>4, <1>5, <2>1 DEF Shape
<1>6. QED
  BY <1>1, <1>2, <1>5 DEF o

LEMMA BufferedWriteShape ==
  ASSUME NEW t \in Stream, Good(t), Shape(t), ~InMemory, NEW d \in Seq(Byte),
         t.state # "none", t.status = "open",
         t.state = "rd" => Kind # "pipe" /\ t.bpos + Len(d) <= Len(t.buf),
         t.bpos + Len(d) <= t.maxsize,
         NEW j \in 0..Len(d), NEW nw \in Flushed(Put(t, First(d, j)))
  PROVE  Shape(BufferedWrite(t, d, j, nw)) /\ BufferedWrite(t, d, j, nw).status = "open"
<1> DEFINE p == Put(t, First(d, j))
           f == Flush(p, nw)
<1>0. /\ Len(d) \in Nat /\ t.bpos \in Nat /\ t.maxsize \in Nat /\ Len(t.buf) \in Nat
      /\ j \in Nat
  BY Fields, LenProperties
<1>1. First(d, j) \in Seq(Byte) /\ Len(First(d, j)) = j
  BY FirstBytes
<1>2. t.bpos + j <= t.maxsize /\ (t.state = "rd" => t.bpos + j <= Len(t.buf))
  BY <1>0
<1>3. p \in Stream /\ Good(p)
  BY <1>1, <1>2, PutGood
<1>4. /\ Shape(p) /\ p.status = "open" /\ p.state = t.state
      /\ t.state = "rd" => Len(p.buf) = Len(t.buf)
  BY <1>1, <1>2, PutShape
<1>5. p.bpos = t.bpos + j /\ p.maxsize = t.maxsize
  <2>1. "maxsize" \in DOMAIN t \ {"buf", "bpos", "ndirty"}
    BY Fields
  <2>2. QED
    BY <1>1, <2>1, PutIs
<1>6. nw \in 0..p.ndirty
  BY <1>3, Fields, AcceptedNat DEF Flushed
<1> HIDE DEF p
<1>7. Shape(f) /\ f.status = "open" /\ f.state = t.state /\ f \in Stream /\ Good(f)
      /\ f.buf = (IF p.state = "wr" THEN <<>> ELSE p.buf)
      /\ f.bpos = (IF p.state = "wr" THEN 0 ELSE p.bpos)
  <2>1. Shape(f) /\ f.status = p.status
    BY <1>3, <1>4, <1>6, FlushShape
  <2>2. /\ \A x \in Kept : f[x] = p[x]
        /\ f.buf = IF p.state = "wr" THEN <<>> ELSE p.buf
        /\ f.bpos = IF p.state = "wr" THEN 0 ELSE p.bpos
    BY <1>3, <1>4, <1>6, FlushIs
  <2>3. nw \in Nat
    BY <1>6
  <2>4. f \in Stream /\ Good(f)
    BY <1>3, <2>3, FlushGood
  <2> HIDE DEF f
  <2>5. QED
    BY <1>4, <2>1, <2>2, <2>4 DEF Kept
<1> HIDE DEF f
<1>8. After(d, j) \in Seq(Byte) /\ Len(After(d, j)) = Len(d) - j
  <2>1. /\ After(d, j) \in Seq(Byte)
        /\ Len(After(d, j)) = IF j <= Len(d) THEN Len(d) - j ELSE 0
    BY <1>0, AfterBytes
  <2>2. QED
    BY <1>0, <2>1
<1>9. t.state = "rd" => Kind # "pipe" /\ f.bpos + Len(After(d, j)) <= Len(f.buf)
  BY <1>0, <1>4, <1>5, <1>7, <1>8
<1>10. Shape(Put(f, After(d, j))) /\ Put(f, After(d, j)).status = "open"
  BY <1>7, <1>8, <1>9, PutShape
<1>11. Shape(Put(t, d)) /\ Put(t, d).status = "open"
  BY PutShape
<1>12. QED
  BY <1>10, <1>11 DEF BufferedWrite, p, f

(***************************************************************************)
(* The invariant: the shape, that the stream is neither stuck nor corrupt, *)
(* and that after a getc there is a place for the byte to be put back to.  *)
(***************************************************************************)
Taken == call.op = "getc" /\ call.bytes # <<>> =>
           s.state = "rd" /\ s.off - Avail(s) >= 1

SInv ==
  /\ Shape(s)
  /\ s.status \in {"open", "closed"}
  /\ Taken

LEMMA Shaped ==
  ASSUME ~InMemory, Shape(s'), s'.status \in {"open", "closed"}, call'.op # "getc"
  PROVE  SInv'
BY DEF SInv, Taken

\* What a writer may rely on.
Writable(n) ==
  /\ s.status = "open"
  /\ s.state # "rd" \/ s.buf = <<>> \/ (Kind = "file" /\ n <= Avail(s))

LEMMA WriteShape ==
  ASSUME IInv, SInv, ~InMemory, NEW d \in Seq(Byte) \ {<<>>}, Writable(Len(d)), Writing(s, d)
  PROVE  SInv'
<1> DEFINE o == ForWriting(s)
<1>0. /\ s \in Stream /\ Good(s) /\ Shape(s) /\ Len(d) \in Nat \ {0}
      /\ s.status = "open" /\ Avail(s) \in Nat
  <2>1. Len(d) \in Nat \ {0}
    BY EmptySeq
  <2>2. QED
    BY <2>1, Known DEF SInv, Writable
<1>1. /\ o \in Stream /\ Good(o) /\ Shape(o)
      /\ \A f \in DOMAIN s \ {"state"} : o[f] = s[f]
      /\ o.state = IF s.state = "none" THEN "wr" ELSE s.state
  BY <1>0, ForWritingIs DEF Writable
<1>2. /\ o.status = "open" /\ o.buf = s.buf /\ o.bpos = s.bpos /\ o.maxsize = s.maxsize
      /\ o.bm = s.bm /\ o.ndirty = s.ndirty /\ o.off = s.off
      /\ o.state # "none" /\ o.state \in {"rd", "wr"}
  <2>1. {"status", "buf", "bpos", "maxsize", "bm", "ndirty", "off"} \subseteq DOMAIN s \ {"state"}
    BY <1>0, Fields
  <2>2. o.state \in {"none", "rd", "wr"} /\ s.state \in {"none", "rd", "wr"}
    BY <1>0, <1>1 DEF Stream
  <2>3. QED
    BY <1>0, <1>1, <2>1, <2>2
<1> HIDE DEF o
<1>3. CASE s.readonly /\ Did("refused", 0, <<>>, 0) /\ UNCHANGED s
  BY <1>0, <1>3, Shaped DEF Did
<1>4. WriteMem(s, d) => FALSE
  BY <1>0 DEF WriteMem, Shape
<1>5. CASE WriteUnbuffered(s, d)
  <2> DEFINE e == [o EXCEPT !.fpos = -1]
  <2>1. PICK nw \in Accepted(Len(d)) :
          s' = KernelWrite(e, First(d, nw)) /\ Did("write", 0, d, nw)
    BY <1>5 DEF WriteUnbuffered, o
  <2>2. nw \in 0..Len(d) /\ First(d, nw) \in Seq(Byte) /\ Len(First(d, nw)) = nw
    BY <1>0, AcceptedNat, FirstBytes
  <2>3. e \in Stream /\ \A f \in DOMAIN o \ {"fpos"} : e[f] = o[f]
    BY Zenon, <1>1 DEF Stream
  <2> HIDE DEF e
  <2>4. /\ s'.off = e.off + nw
        /\ \A f \in DOMAIN e \ {"off", "data"} : s'[f] = e[f]
    BY <2>1, <2>2, <2>3, KernelWriteIs
  <2>5. /\ {"state", "buf", "bpos", "ndirty", "bm", "status"} \subseteq DOMAIN e \ {"off", "data"}
        /\ {"off", "state", "buf", "bpos", "ndirty", "bm", "status"} \subseteq DOMAIN o \ {"fpos"}
    BY <1>1, <2>3, Fields
  <2>6. /\ s'.state = o.state /\ s'.buf = o.buf /\ s'.bpos = o.bpos /\ s'.ndirty = o.ndirty
        /\ s'.bm = o.bm /\ s'.status = o.status /\ s'.off = o.off + nw
    BY <2>3, <2>4, <2>5
  <2>7. o.off \in Nat /\ Len(o.buf) \in Nat /\ nw \in Nat
    BY <1>1, <2>2, Fields
  <2>8. Shape(s')
    BY <1>1, <2>6, <2>7 DEF Shape
  <2>9. QED
    BY <1>2, <2>1, <2>6, <2>8, Shaped DEF Did
<1>6. Len(o.buf) \in Nat /\ o.bpos \in Nat /\ o.maxsize \in Nat /\ o.ndirty \in Nat
      /\ o.bpos <= Len(o.buf)
  BY <1>1, Fields DEF Good
<1>7. CASE WriteBuffered(s, d)
  <2>1. Len(d) <= Space(o)
    BY <1>7 DEF WriteBuffered, o
  <2>2. o.bpos + Len(d) <= o.maxsize
    BY <1>0, <1>1, <2>1, SpaceFits
  <2>3. o.state = "rd" => Kind # "pipe" /\ o.bpos + Len(d) <= Len(o.buf)
    <3>1. SUFFICES ASSUME o.state = "rd" PROVE Kind # "pipe" /\ o.bpos + Len(d) <= Len(o.buf)
      OBVIOUS
    <3>2. o.bpos + Len(d) <= Len(o.buf)
      BY <1>0, <1>6, <2>1, <3>1 DEF Space, Avail
    <3>3. o.buf # <<>>
      BY <1>0, <1>6, <3>2, EmptyBytes
    <3>4. s.state = "rd"
      BY <1>1, <3>1
    <3>5. QED
      BY <1>2, <3>2, <3>3, <3>4 DEF Writable
  <2>4. PICK j \in LineEnds(d) :
          \E nw \in Flushed(Put(o, First(d, j))) :
            s' = BufferedWrite(o, d, j, nw) /\ Did("write", 0, d, Len(d))
    BY <1>7 DEF WriteBuffered, o
  <2>5. j \in 0..Len(d)
    BY DEF LineEnds
  <2>6. Shape(s') /\ s'.status = "open"
    BY <1>1, <1>2, <2>2, <2>3, <2>4, <2>5, BufferedWriteShape
  <2>7. QED
    BY <2>4, <2>6, Shaped DEF Did
<1>8. CASE WriteThrough(s, d)
  <2> DEFINE w == [o EXCEPT !.state = "wr"]
  <2>1. Len(d) > Space(o)
    BY <1>8 DEF WriteThrough, o
  <2>2. o.state = "rd" => o.buf = <<>>
    <3>1. CASE Kind = "file" /\ Len(d) <= Avail(s) /\ s.state = "rd"
      BY <1>0, <1>1, <1>2, <2>1, <3>1 DEF Space, Avail
    <3>2. CASE s.state # "rd" \/ s.buf = <<>>
      BY <1>1, <1>2, <3>2
    <3>3. QED
      BY <3>1, <3>2 DEF Writable
  <2>3. w \in Stream /\ w.state = "wr" /\ \A f \in DOMAIN o \ {"state"} : w[f] = o[f]
    BY Zenon, <1>1 DEF Stream
  <2>4. {"status", "buf", "bpos", "maxsize", "bm", "ndirty", "off", "inl"} \subseteq DOMAIN o \ {"state"}
    BY <1>1, Fields
  <2>5. /\ w.status = "open" /\ w.buf = o.buf /\ w.bpos = o.bpos /\ w.maxsize = o.maxsize
        /\ w.bm = o.bm /\ w.ndirty = o.ndirty /\ w.off = o.off /\ w.inl = o.inl
    BY <1>2, <2>3, <2>4
  <2> HIDE DEF w
  <2>6. Good(w)
    BY <1>1, <2>3, <2>5, GoodKept
  <2>7. Shape(w)
    <3>1. CASE o.state = "rd"
      <4>1. o.ndirty = 0 /\ Len(o.buf) = 0 /\ o.bpos = 0
        BY <1>1, <1>6, <2>2, <3>1, EmptyBytes DEF Shape
      <4>2. QED
        BY <1>1, <2>3, <2>5, <4>1 DEF Shape
    <3>2. CASE o.state = "wr"
      BY <1>1, <2>3, <2>5, <3>2 DEF Shape
    <3>3. QED
      BY <1>2, <3>1, <3>2
  <2>8. PICK nw \in Flushed(o) :
          LET f == Flush(w, nw) IN
          \/ /\ Len(d) > MostOf(f.maxsize)
             /\ \E nd \in Accepted(Len(d)) :
                  s' = KernelWrite(f, First(d, nd)) /\ Did("write", 0, d, nd)
          \/ /\ Len(d) <= MostOf(f.maxsize) /\ Len(d) <= Space(f)
             /\ \E j \in LineEnds(d) :
                  \E nl \in Flushed(Put(f, First(d, j))) :
                    s' = BufferedWrite(f, d, j, nl) /\ Did("write", 0, d, Len(d))
          \/ /\ Len(d) <= MostOf(f.maxsize) /\ Len(d) > Space(f)
             /\ s' = [f EXCEPT !.status = "hung"]
             /\ Did("write", 0, d, 0)
    BY <1>8 DEF WriteThrough, o, w
  <2> DEFINE f == Flush(w, nw)
  <2>9. nw \in 0..w.ndirty /\ nw \in Nat
    BY <1>6, <2>5, AcceptedNat DEF Flushed
  <2>10. /\ f \in Stream /\ Good(f) /\ Shape(f)
         /\ f.status = "open" /\ f.state = "wr" /\ f.buf = <<>> /\ f.bpos = 0
         /\ f.ndirty = 0 /\ f.maxsize = o.maxsize
    <3>1. f \in Stream /\ Good(f)
      BY <2>3, <2>6, <2>9, FlushGood
    <3>2. Shape(f) /\ f.status = w.status
      BY <2>3, <2>6, <2>7, <2>9, FlushShape
    <3>3. /\ \A x \in Kept : f[x] = w[x]
          /\ f.buf = (IF w.state = "wr" THEN <<>> ELSE w.buf)
          /\ f.bpos = (IF w.state = "wr" THEN 0 ELSE w.bpos)
          /\ f.ndirty = 0
      BY <2>3, <2>6, <2>7, <2>9, FlushIs
    <3> HIDE DEF f
    <3>4. f.state = w.state /\ f.maxsize = w.maxsize
      BY <3>3 DEF Kept
    <3>5. QED
      BY <2>3, <2>5, <3>1, <3>2, <3>3, <3>4
  <2> HIDE DEF f
  <2>11. MostOf(f.maxsize) <= Space(f)
    <3>1. Space(f) = f.maxsize /\ f.maxsize \in Nat
      BY <1>6, <2>10 DEF Space
    <3>2. QED
      BY <3>1, MostFits
  <2>12. CASE \E nd \in Accepted(Len(d)) :
               s' = KernelWrite(f, First(d, nd)) /\ Did("write", 0, d, nd)
    <3>1. PICK nd \in Accepted(Len(d)) :
            s' = KernelWrite(f, First(d, nd)) /\ Did("write", 0, d, nd)
      BY <2>12
    <3>2. First(d, nd) \in Seq(Byte)
      BY <1>0, AcceptedNat, FirstBytes
    <3>3. \A x \in DOMAIN f \ {"off", "data"} : s'[x] = f[x]
      BY <2>10, <3>1, <3>2, KernelWriteIs
    <3>4. {"state", "buf", "bpos", "ndirty", "bm", "status"} \subseteq DOMAIN f \ {"off", "data"}
      BY <2>10, Fields
    <3>5. /\ s'.state = "wr" /\ s'.buf = f.buf /\ s'.bpos = f.bpos /\ s'.ndirty = f.ndirty
          /\ s'.bm = f.bm /\ s'.status = "open"
      BY <2>10, <3>3, <3>4
    <3>6. Shape(s')
      BY <2>10, <3>5 DEF Shape
    <3>7. QED
      BY <3>1, <3>5, <3>6, Shaped DEF Did
  <2>13. CASE /\ Len(d) <= Space(f)
              /\ \E j \in LineEnds(d) :
                   \E nl \in Flushed(Put(f, First(d, j))) :
                     s' = BufferedWrite(f, d, j, nl) /\ Did("write", 0, d, Len(d))
    <3>1. PICK j \in LineEnds(d) :
            \E nl \in Flushed(Put(f, First(d, j))) :
              s' = BufferedWrite(f, d, j, nl) /\ Did("write", 0, d, Len(d))
      BY <2>13
    <3>2. j \in 0..Len(d)
      BY DEF LineEnds
    <3>3. f.bpos + Len(d) <= f.maxsize /\ f.state # "rd" /\ f.state # "none"
      BY <1>0, <2>10, <2>13, SpaceFits
    <3>4. Shape(s') /\ s'.status = "open"
      BY <2>10, <3>1, <3>2, <3>3, BufferedWriteShape
    <3>5. QED
      BY <3>1, <3>4, Shaped DEF Did
  <2>14. QED
    <3>1. MostOf(f.maxsize) \in Int /\ Space(f) \in Int
      <4>1. MostDiv \in Nat \ {0} /\ f.maxsize \in Nat
        BY <1>6, <2>10, IosAssumption
      <4>2. f.maxsize \div MostDiv \in Int
        BY <4>1
      <4>3. QED
        BY <2>10, <4>1, <4>2 DEF MostOf, Space
    <3>2. ~(Len(d) <= MostOf(f.maxsize) /\ Len(d) > Space(f))
      BY <1>0, <2>11, <3>1
    <3>3. QED
      BY <2>8, <2>12, <2>13, <3>2 DEF f
<1>9. QED
  BY <1>3, <1>4, <1>5, <1>7, <1>8 DEF Writing

\* ios_putc and ios_vprintf, where they fill the buffer themselves.
LEMMA PutDirectlyShape ==
  ASSUME IInv, SInv, ~InMemory, s.status = "open", HasRoom,
         NEW d \in Seq(Byte), s.bpos + Len(d) <= s.maxsize, PutDirectly(s, d)
  PROVE  SInv'
<1>0. s \in Stream /\ Good(s) /\ Shape(s) /\ s.state = "wr"
  BY Known DEF SInv, HasRoom
<1>1. Len(d) \in Nat /\ s.bpos + Len(d) <= s.maxsize
  BY LenProperties
<1> DEFINE p == Put(s, d)
<1>2. p \in Stream /\ Good(p) /\ Shape(p) /\ p.status = "open"
  BY <1>0, <1>1, PutGood, PutShape
<1>3. s' = p \/ \E nw \in Flushed(p) : s' = Flush(p, nw)
  BY DEF PutDirectly
<1>4. call'.op = "write"
  BY DEF PutDirectly, Did
<1> HIDE DEF p
<1>5. ASSUME NEW nw \in Flushed(p) PROVE Shape(Flush(p, nw)) /\ Flush(p, nw).status = "open"
  <2>1. nw \in 0..p.ndirty
    BY <1>2, Fields, AcceptedNat DEF Flushed
  <2>2. QED
    BY <1>2, <2>1, FlushShape
<1>6. Shape(s') /\ s'.status = "open"
  BY <1>2, <1>3, <1>5
<1>7. QED
  BY <1>4, <1>6, Shaped

(***************************************************************************)
(* Reading from a descriptor.                                              *)
(***************************************************************************)

LEMMA ReadShape ==
  ASSUME IInv, IInv', SInv, ~InMemory, s.status = "open", s.state = "wr" => s.buf = <<>>,
         NEW op, NEW n \in Nat \ {0}, Reading(op, n), op = "getc" => n = 1
  PROVE  SInv'
<1>0. /\ s \in Stream /\ Shape(s) /\ s.off \in Nat /\ Len(s.buf) \in Nat /\ s.bpos \in Nat
      /\ s.bpos <= Len(s.buf) /\ s.buf \in Seq(Byte) /\ Avail(s) \in Nat
  BY Known DEF SInv
<1>1. /\ s' \in Stream /\ Len(s'.buf) \in Nat /\ s'.bpos \in Nat /\ s'.off \in Nat
      /\ s'.data \in Seq(Byte) /\ Len(s'.data) \in Nat
  <2>1. s' \in Stream
    BY DEF IInv, TypeOK
  <2>2. QED
    BY <2>1, Fields
<1>2. call'.op = op
  <2>1. ReadBuffered(op, n) => \E x : Got(op, n, x)
    BY Zenon DEF ReadBuffered
  <2>2. ReadRest(op, n) => \E x : Got(op, n, x)
    BY Zenon DEF ReadRest
  <2>3. ReadDirect(op, n) => \E x : Got(op, n, x)
    BY Zenon DEF ReadDirect
  <2>4. ReadRefill(op, n) => \E x : Got(op, n, x)
    BY Zenon DEF ReadRefill
  <2>5. PICK x : Got(op, n, x)
    BY Zenon, <2>1, <2>2, <2>3, <2>4 DEF Reading
  <2>6. QED
    BY <2>5 DEF Got, Did
<1>3. CASE FromBuffer(n)
  <2>1. {"state", "buf", "ndirty", "off", "bm", "status"} \subseteq DOMAIN s \ {"bpos"}
    BY <1>0, Fields
  <2>2. /\ s'.state = s.state /\ s'.buf = s.buf /\ s'.ndirty = s.ndirty /\ s'.off = s.off
        /\ s'.bm = s.bm /\ s'.status = s.status /\ s'.bpos = s.bpos + n /\ s.state = "rd"
    BY <1>3, <2>1 DEF FromBuffer
  <2>3. Shape(s')
    BY <1>0, <2>2 DEF Shape
  <2>4. s'.off - Avail(s') >= 1
    <3>1. Len(s.buf) <= s.off
      BY <1>0, <2>2 DEF Shape
    <3>2. Avail(s') = Len(s.buf) - (s.bpos + n)
      BY <2>2 DEF Avail
    <3>3. QED
      BY <1>0, <2>2, <3>1, <3>2
  <2>5. QED
    BY <2>2, <2>3, <2>4 DEF SInv, Taken
<1>4. ASSUME NEW nw \in Flushed(s), NEW k \in Nat, NEW b \in Nat, NEW g \in Nat,
             FromFile(op, n, nw, k, b, g)
      PROVE  SInv'
  <2>1. /\ s'.state = "rd" /\ s'.ndirty = 0 /\ s'.off = s.off + k + g
        /\ s'.buf = Slice(s'.data, s.off + k - b, b + g) /\ s'.bpos = b /\ b <= k
        /\ k + g <= Max2(0, Len(s'.data) - s.off)
        /\ s'.bm = s.bm /\ s'.status = s.status
        /\ call'.bytes = After(s.buf, s.bpos) \o Slice(s'.data, s.off, k)
        /\ n > Avail(s)
    BY <1>4 DEF FromFile
  <2>2. Len(s'.buf) = b + g
    <3>1. /\ s.off + k - b \in Nat /\ b + g \in Nat
          /\ b + g > 0 => (s.off + k - b) + (b + g) <= Len(s'.data)
      <4> DEFINE m == Len(s'.data)
      <4>1. m \in Nat /\ k + g <= Max2(0, m - s.off) /\ b <= k
        BY <1>1, <2>1
      <4> HIDE DEF m
      <4>2. s.off + k - b \in Nat /\ b + g \in Nat
        BY <1>0, <4>1, SMTT(20)
      <4>3. b + g > 0 => k + g <= m - s.off
        BY <1>0, <4>1 DEF Max2
      <4>4. b + g > 0 => (s.off + k - b) + (b + g) <= m
        BY <1>0, <4>1, <4>3
      <4>5. QED
        BY <4>2, <4>4 DEF m
    <3>2. QED
      BY <1>1, <2>1, <3>1, SliceBytes
  <2>3. Shape(s')
    BY <1>0, <2>1, <2>2, SMTT(20) DEF Shape
  <2>4. op = "getc" /\ call'.bytes # <<>> => k >= 1
    <3>1. SUFFICES ASSUME op = "getc", k = 0 PROVE call'.bytes = <<>>
      OBVIOUS
    <3>2. Avail(s) = 0
      BY <1>0, <2>1, <3>1
    <3>3. After(s.buf, s.bpos) = <<>>
      <4>1. s.bpos <= Len(s.buf) /\ Len(s.buf) - s.bpos = 0
        BY <1>0, <3>2 DEF Avail
      <4>2. /\ After(s.buf, s.bpos) \in Seq(Byte)
            /\ Len(After(s.buf, s.bpos)) =
                 IF s.bpos <= Len(s.buf) THEN Len(s.buf) - s.bpos ELSE 0
        BY <1>0, AfterBytes
      <4>3. QED
        BY <4>1, <4>2, EmptyByLength
    <3>4. Slice(s'.data, s.off, k) = <<>>
      <4>1. 0 \in Nat
        OBVIOUS
      <4>2. Slice(s'.data, s.off, 0) \in Seq(Byte) /\ Len(Slice(s'.data, s.off, 0)) = 0
        BY <1>0, <1>1, <4>1, SliceBytes, SMTT(20)
      <4>3. QED
        BY <3>1, <4>2, EmptyByLength
    <3>5. <<>> \o <<>> = <<>>
      BY NoBytes, ConcatEmptySeq
    <3>6. QED
      BY <2>1, <3>3, <3>4, <3>5
  <2>5. s'.off - Avail(s') = s.off + k
    <3>1. Avail(s') = b + g - b
      BY <2>1, <2>2 DEF Avail
    <3>2. QED
      BY <1>0, <2>1, <3>1
  <2>6. s'.status \in {"open", "closed"}
    BY <2>1
  <2>7. call'.op = "getc" /\ call'.bytes # <<>> => s'.off - Avail(s') >= 1
    BY <1>0, <1>2, <2>4, <2>5
  <2>8. QED
    BY <2>1, <2>3, <2>6, <2>7 DEF SInv, Taken
<1>5. QED
  BY <1>0, <1>3, <1>4, ReadIs

LEMMA GetcShape ==
  ASSUME IInv, IInv', SInv, ~InMemory, s.status = "open", s.state = "wr" => s.buf = <<>>, ios_getc
  PROVE  SInv'
<1>1. CASE Reading("getc", 1)
  BY <1>1, ReadShape
<1>2. CASE UNCHANGED s /\ Got("getc", 1, <<>>)
  BY <1>2 DEF SInv, Taken, Got, Did
<1>3. QED
  BY <1>1, <1>2 DEF ios_getc

\* A readprep of a client that has nothing dirty: the buffer loses lo bytes
\* before the position and gains g bytes of the file behind what it had. None
\* is gained only when enough is there, at the end of the file, or when there is
\* no room for what was asked for; for one byte there always is.
Prepped(n, lo, g) ==
  /\ s'.state = "rd" /\ s'.ndirty = 0 /\ s'.data = s.data /\ s'.off = s.off + g
  /\ s'.eof = s.eof /\ s'.bm = s.bm /\ s'.status = s.status
  /\ g <= Max2(0, Len(s.data) - s.off)
  /\ s'.buf = After(s.buf, lo) \o Slice(s.data, s.off, g)
  /\ s'.bpos = s.bpos - lo
  /\ g = 0 /\ n = 1 /\ Avail(s) = 0 =>
       Len(s.data) <= s.off \/ IoErrors

LEMMA PrepIs ==
  ASSUME IInv, Shape(s), ~InMemory, s.ndirty = 0, s.state = "wr" => s.buf = <<>>,
         NEW n \in Nat \ {0}, Readprep(n)
  PROVE  \E lo \in 0..s.bpos, g \in Nat : Prepped(n, lo, g)
<1> DEFINE p == Prepared(0)
           most(r) == IF r.maxsize < r.bpos + n THEN 0
                      ELSE Min2(r.maxsize - Len(r.buf), Readable(r))
<1>0. /\ s \in Stream /\ s.buf \in Seq(Byte) /\ s.data \in Seq(Byte) /\ s.off \in Nat
      /\ Len(s.buf) \in Nat /\ Len(s.data) \in Nat /\ s.bpos \in Nat /\ s.bpos <= Len(s.buf)
      /\ s.maxsize \in Nat /\ Avail(s) \in Nat /\ s.bpos + Avail(s) = Len(s.buf)
      /\ Len(s.buf) <= s.maxsize
  BY Known
<1>1. Flushed(s) = {0} /\ Flush(s, 0) = s
  BY DEF Flushed, Accepted, Flush
<1>2. /\ p \in Stream /\ Good(p) /\ p.state = "rd"
      /\ p.buf = s.buf /\ p.bpos = s.bpos /\ p.ndirty = 0 /\ p.data = s.data /\ p.off = s.off
      /\ p.eof = s.eof /\ p.bm = s.bm /\ p.status = s.status /\ p.maxsize = s.maxsize
      /\ p.inl = s.inl
  <2>1. p \in Stream /\ Good(p)
    BY PreparedGood
  <2>2. {"buf", "bpos", "ndirty", "data", "off", "eof", "bm", "status", "maxsize", "inl"}
          \subseteq DOMAIN s \ {"state"}
    BY <1>0, Fields
  <2>3. p.state = "rd" /\ \A f \in DOMAIN s \ {"state"} : p[f] = s[f]
    <3>1. CASE s.state = "wr"
      <4> DEFINE e == [s EXCEPT !.buf = <<>>, !.bpos = 0]
      <4>1. p = [e EXCEPT !.state = "rd"]
        BY <1>1, <3>1 DEF Prepared
      <4>2. s.buf = <<>> /\ s.bpos = 0
        BY <3>1, NothingAvail
      <4>3. /\ e \in Stream /\ e.buf = <<>> /\ e.bpos = 0
            /\ \A f \in DOMAIN s \ {"buf", "bpos"} : e[f] = s[f]
        <5>1. e \in Stream
          BY <1>0, Emptied, Known
        <5>2. e.buf = <<>> /\ e.bpos = 0 /\ \A f \in DOMAIN s \ {"buf", "bpos"} : e[f] = s[f]
          BY Zenon, <1>0 DEF Stream
        <5>3. QED
          BY <5>1, <5>2
      <4>4. \A f \in DOMAIN s : e[f] = s[f]
        BY <4>2, <4>3
      <4>5. DOMAIN e = DOMAIN s
        BY <1>0, <4>3, Fields
      <4> HIDE DEF e, p
      <4>6. p.state = "rd" /\ \A f \in DOMAIN e \ {"state"} : p[f] = e[f]
        BY Zenon, <4>1, <4>3 DEF Stream
      <4>7. QED
        BY <4>4, <4>5, <4>6
    <3>2. CASE s.state # "wr"
      <4>1. p = [s EXCEPT !.state = "rd"]
        BY <3>2 DEF Prepared
      <4> HIDE DEF p
      <4>2. QED
        BY Zenon, <1>0, <4>1 DEF Stream
    <3>3. QED
      BY <3>1, <3>2
  <2> HIDE DEF p
  <2>4. QED
    BY <2>1, <2>2, <2>3
<1>3. \/ Avail(p) >= n /\ s' = p
      \/ /\ Avail(p) < n
         /\ \E r \in MakeRoom(p, n) : \E g \in 0..most(r) :
                /\ g = 0 => most(r) = 0 \/ IoErrors
                /\ s' = [r EXCEPT !.buf = @ \o Slice(r.data, r.off, g), !.off = @ + g]
  <2>1. Avail(p) \in Nat
    BY <1>0, <1>2 DEF Avail
  <2>2. IF Avail(p) >= n \/ InMemory THEN s' = p
        ELSE \E r \in MakeRoom(p, n) : \E g \in 0..most(r) :
                 /\ g = 0 => most(r) = 0 \/ IoErrors
                 /\ s' = [r EXCEPT !.buf = @ \o Slice(r.data, r.off, g), !.off = @ + g]
    BY <1>1 DEF Readprep
  <2>3. ~(Avail(p) >= n) => Avail(p) < n
    BY <2>1
  <2>4. QED
    BY Zenon, <2>2, <2>3
<1> HIDE DEF p
<1>4. Slice(s.data, s.off, 0) = <<>> /\ After(s.buf, 0) = s.buf
  BY <1>0, SliceNone, AfterNone
<1>5. CASE Avail(p) >= n /\ s' = p
  <2>1. s.buf = After(s.buf, 0) \o Slice(s.data, s.off, 0)
    BY <1>0, <1>4, ConcatEmptySeq
  <2>2. 0 <= Max2(0, Len(s.data) - s.off) /\ s.off = s.off + 0 /\ s.bpos = s.bpos - 0
    BY <1>0 DEF Max2
  <2>3. ~(n = 1 /\ Avail(s) = 0)
    BY <1>2, <1>5 DEF Avail
  <2>4. Prepped(n, 0, 0)
    BY <1>2, <1>5, <2>1, <2>2, <2>3 DEF Prepped
  <2>5. 0 \in 0..s.bpos /\ 0 \in Nat
    BY <1>0
  <2>6. QED
    BY <2>4, <2>5
<1>6. ASSUME NEW r \in Stream, Good(r), NEW lo \in 0..s.bpos,
             r.buf = After(s.buf, lo), r.bpos = s.bpos - lo,
             \A f \in {"state", "ndirty", "data", "off", "eof", "bm", "status"} : r[f] = p[f],
             n = 1 /\ Avail(s) = 0 => r.maxsize > Len(r.buf) /\ ~(r.maxsize < r.bpos + n),
             NEW g \in 0..most(r), g = 0 => most(r) = 0 \/ IoErrors,
             s' = [r EXCEPT !.buf = @ \o Slice(r.data, r.off, g), !.off = @ + g]
      PROVE  \E l \in 0..s.bpos, h \in Nat : Prepped(n, l, h)
  <2>1. /\ r.state = "rd" /\ r.ndirty = 0 /\ r.data = s.data /\ r.off = s.off
        /\ r.eof = s.eof /\ r.bm = s.bm /\ r.status = s.status
    BY <1>2, <1>6
  <2>2. r.maxsize \in Nat /\ Len(r.buf) \in Nat /\ Len(r.buf) <= r.maxsize
    BY <1>6, Fields DEF Good
  <2>3. Readable(r) = Max2(0, Len(s.data) - s.off) /\ Readable(r) \in Nat
    BY <1>0, <2>1 DEF Readable, Max2
  <2>4. g \in Nat /\ g <= Readable(r)
    BY <1>6, <2>2, <2>3 DEF Min2
  <2>5. /\ s'.buf = r.buf \o Slice(r.data, r.off, g) /\ s'.off = r.off + g
        /\ \A f \in DOMAIN r \ {"buf", "off"} : s'[f] = r[f]
    BY Zenon, <1>6 DEF Stream
  <2>6. {"state", "ndirty", "data", "eof", "bm", "status", "bpos"} \subseteq DOMAIN r \ {"buf", "off"}
    BY <1>6, Fields
  <2>7. /\ s'.state = "rd" /\ s'.ndirty = 0 /\ s'.data = s.data
        /\ s'.eof = s.eof /\ s'.bm = s.bm /\ s'.status = s.status /\ s'.bpos = s.bpos - lo
    BY <1>6, <2>1, <2>5, <2>6
  <2>8. g = 0 /\ n = 1 /\ Avail(s) = 0 => Len(s.data) <= s.off \/ IoErrors
    BY <1>0, <1>6, <2>2, <2>3 DEF Min2, Max2
  <2>9. Prepped(n, lo, g)
    BY <1>6, <2>1, <2>3, <2>4, <2>5, <2>7, <2>8 DEF Prepped
  <2>10. QED
    BY <2>4, <2>9
<1>7. CASE /\ Avail(p) < n
           /\ \E r \in MakeRoom(p, n) : \E g \in 0..most(r) :
                  /\ g = 0 => most(r) = 0 \/ IoErrors
                  /\ s' = [r EXCEPT !.buf = @ \o Slice(r.data, r.off, g), !.off = @ + g]
  <2>1. PICK r \in MakeRoom(p, n) :
          \E g \in 0..most(r) :
            /\ g = 0 => most(r) = 0 \/ IoErrors
            /\ s' = [r EXCEPT !.buf = @ \o Slice(r.data, r.off, g), !.off = @ + g]
    BY <1>7
  <2>2. PICK g \in 0..most(r) :
          /\ g = 0 => most(r) = 0 \/ IoErrors
          /\ s' = [r EXCEPT !.buf = @ \o Slice(r.data, r.off, g), !.off = @ + g]
    BY <2>1
  <2>3. r \in Stream /\ Good(r)
    BY <1>2, MakeRoomGood
  <2> DEFINE moved == [p EXCEPT !.buf = After(@, p.bpos), !.bpos = 0]
             same  == {"state", "ndirty", "data", "off", "eof", "bm", "status"}
  <2>4. \/ p.maxsize >= p.bpos + n /\ r = p
        \/ n <= p.maxsize /\ r = moved
        \/ /\ ~(n <= p.maxsize /\ Avail(p) <= p.maxsize \div 4)
           /\ \E cap \in Realloc(p, p.bpos + n) : r = Resized(p, cap)
    BY DEF MakeRoom
  <2>5. CASE p.maxsize >= p.bpos + n /\ r = p
    <3>1. r.buf = After(s.buf, 0) /\ r.bpos = s.bpos - 0 /\ 0 \in 0..s.bpos
      BY <1>0, <1>2, <1>4, <2>5
    <3>2. n = 1 /\ Avail(s) = 0 => r.maxsize > Len(r.buf) /\ ~(r.maxsize < r.bpos + n)
      BY <1>0, <1>2, <2>5
    <3>3. \A f \in same : r[f] = p[f]
      BY <2>5
    <3>4. QED
      BY <1>6, <2>2, <2>3, <3>1, <3>2, <3>3
  <2>6. CASE n <= p.maxsize /\ r = moved
    <3>1. r.buf = After(p.buf, p.bpos) /\ r.bpos = 0 /\ r.maxsize = p.maxsize
          /\ \A f \in DOMAIN p \ {"buf", "bpos"} : r[f] = p[f]
      BY Zenon, <1>2, <2>6 DEF Stream
    <3>2. same \subseteq DOMAIN p \ {"buf", "bpos"}
      BY <1>2, Fields
    <3>3. \A f \in same : r[f] = p[f]
      BY <3>1, <3>2
    <3>4. r.buf = After(s.buf, s.bpos) /\ r.bpos = s.bpos - s.bpos /\ s.bpos \in 0..s.bpos
      BY <1>0, <1>2, <3>1
    <3>5. n = 1 /\ Avail(s) = 0 => r.maxsize > Len(r.buf) /\ ~(r.maxsize < r.bpos + n)
      <4>1. Avail(s) = 0 => Len(r.buf) = 0
        <5>1. Len(After(s.buf, s.bpos)) =
                IF s.bpos <= Len(s.buf) THEN Len(s.buf) - s.bpos ELSE 0
          BY <1>0, AfterBytes
        <5>2. QED
          BY <1>0, <3>4, <5>1
      <4>2. QED
        BY <1>0, <1>2, <2>6, <3>1, <4>1
    <3>6. QED
      BY <1>6, <2>2, <2>3, <3>3, <3>4, <3>5
  <2>7. ASSUME ~(n <= p.maxsize /\ Avail(p) <= p.maxsize \div 4),
               NEW cap \in Realloc(p, p.bpos + n), r = Resized(p, cap)
        PROVE  \E l \in 0..s.bpos, h \in Nat : Prepped(n, l, h)
    <3>1. cap \in Nat /\ cap >= p.maxsize /\ (cap >= p.bpos + n \/ cap = p.maxsize)
      <4>1. p.bpos + n \in Nat
        BY <1>0, <1>2
      <4>2. QED
        BY <1>2, <4>1, ReallocGrows
    <3>2. cap >= Len(p.buf)
      BY <1>0, <1>2, <3>1
    <3>3. r.maxsize = cap /\ \A f \in DOMAIN p \ {"maxsize", "inl"} : r[f] = p[f]
      BY <1>2, <2>7, <3>1, <3>2, ResizedGood
    <3>4. same \cup {"buf", "bpos"} \subseteq DOMAIN p \ {"maxsize", "inl"}
      BY <1>2, Fields
    <3>5. /\ \A f \in same : r[f] = p[f]
          /\ r.buf = p.buf /\ r.bpos = p.bpos
      BY <3>3, <3>4
    <3>6. r.buf = After(s.buf, 0) /\ r.bpos = s.bpos - 0 /\ 0 \in 0..s.bpos
      BY <1>0, <1>2, <1>4, <3>5
    <3>7. n = 1 /\ Avail(s) = 0 => r.maxsize > Len(r.buf) /\ ~(r.maxsize < r.bpos + n)
      <4>1. SUFFICES ASSUME n = 1, Avail(s) = 0 PROVE cap >= p.bpos + n
        BY <1>0, <1>2, <3>1, <3>3, <3>5
      <4>2. p.maxsize = 0
        BY <1>0, <1>2, <2>7, <4>1 DEF Avail
      <4>3. p.bpos + n = 1 /\ p.inl /\ InlSize \in Nat \ {0}
        BY <1>0, <1>2, <4>1, <4>2, Known, IosAssumption DEF Good
      <4>4. cap = InlSize
        BY <2>7, <4>3 DEF Realloc
      <4>5. QED
        BY <4>3, <4>4
    <3>8. QED
      BY <1>6, <2>2, <2>3, <3>5, <3>6, <3>7
  <2>8. QED
    BY <2>4, <2>5, <2>6, <2>7
<1>8. QED
  BY <1>3, <1>5, <1>7

LEMMA PrepShape ==
  ASSUME IInv, IInv', Shape(s), ~InMemory, s.ndirty = 0, s.state = "wr" => s.buf = <<>>,
         NEW n \in Nat \ {0}, Readprep(n)
  PROVE  Shape(s') /\ s'.status = s.status
<1>0. /\ s.buf \in Seq(Byte) /\ s.data \in Seq(Byte) /\ s.off \in Nat
      /\ Len(s.buf) \in Nat /\ Len(s.data) \in Nat /\ s.bpos \in Nat /\ s.bpos <= Len(s.buf)
  BY Known
<1>1. PICK lo \in 0..s.bpos, g \in Nat : Prepped(n, lo, g)
  BY PrepIs
<1>2. /\ s'.state = "rd" /\ s'.ndirty = 0 /\ s'.off = s.off + g /\ s'.bm = s.bm
      /\ s'.status = s.status
      /\ g <= Max2(0, Len(s.data) - s.off)
      /\ s'.buf = After(s.buf, lo) \o Slice(s.data, s.off, g)
  BY <1>1 DEF Prepped
<1>3. After(s.buf, lo) \in Seq(Byte) /\ Len(After(s.buf, lo)) <= Len(s.buf)
  <2>1. lo \in Nat /\ lo <= Len(s.buf) /\ Len(s.buf) - lo <= Len(s.buf)
    BY <1>0
  <2>2. /\ After(s.buf, lo) \in Seq(Byte)
        /\ Len(After(s.buf, lo)) = IF lo <= Len(s.buf) THEN Len(s.buf) - lo ELSE 0
    <3> s.buf \in Seq(Byte) /\ lo \in Nat
      BY <1>0, <2>1
    <3> QED
      BY ONLY AfterBytes, s.buf \in Seq(Byte), lo \in Nat, Zenon
  <2>3. QED
    BY <2>1, <2>2
<1>4. Slice(s.data, s.off, g) \in Seq(Byte) /\ Len(Slice(s.data, s.off, g)) = g
  <2>1. g > 0 => s.off + g <= Len(s.data)
    BY <1>0, <1>2 DEF Max2
  <2>2. QED
    BY <1>0, <2>1, SliceBytes
<1>5. Len(s'.buf) = Len(After(s.buf, lo)) + g
  <2>1. Len(After(s.buf, lo) \o Slice(s.data, s.off, g)) =
          Len(After(s.buf, lo)) + Len(Slice(s.data, s.off, g))
    <3> DEFINE a == After(s.buf, lo)
               b == Slice(s.data, s.off, g)
    <3>1. a \in Seq(Byte) /\ b \in Seq(Byte)
      BY <1>3, <1>4
    <3> HIDE DEF a, b
    <3>2. Len(a \o b) = Len(a) + Len(b)
      BY <3>1, ConcatProperties
    <3>3. QED
      BY <3>2 DEF a, b
  <2>2. QED
    BY <1>2, <1>4, <2>1
<1>6. Len(After(s.buf, lo)) \in Nat
  BY <1>3, LenProperties
<1>7. s.state = "rd" => Len(s.buf) <= s.off
  BY DEF Shape
<1>8. Len(s.buf) <= s.off
  <2>1. s.state \in {"none", "rd", "wr"}
    BY Known DEF Stream
  <2>2. s.state # "rd" => Len(s.buf) = 0
    BY <2>1, EmptyBytes DEF Shape
  <2>3. QED
    BY <1>0, <1>7, <2>2
<1>9. Len(s'.buf) <= s'.off /\ Len(s'.buf) \in Nat
  BY <1>0, <1>2, <1>3, <1>5, <1>6, <1>8
<1>10. QED
  BY <1>2, <1>9 DEF Shape

\* At the front of a buffer being read, the byte before the offset's file
\* position makes room for one more byte to be buffered.
LEMMA UngetShape ==
  ASSUME IInv, SInv, ~InMemory, s.status = "open", ios_ungetc
  PROVE  SInv'
<1>0. /\ s \in Stream /\ Good(s) /\ Shape(s) /\ s.off \in Nat /\ Len(s.buf) \in Nat
      /\ s.bpos \in Nat /\ s.bpos <= Len(s.buf) /\ s.buf \in Seq(Byte)
      /\ s.maxsize \in Nat
  BY Known DEF SInv
<1>1. s.state = "rd" /\ s.off - Avail(s) >= 1
  BY DEF ios_ungetc, SInv, Taken
<1> DEFINE c == call.bytes[1]
<1>2. CASE s.bpos > 0 /\ s' = [s EXCEPT !.bpos = @ - 1, !.buf[s.bpos] = c, !.eof = FALSE]
           /\ Did("unget", 0, <<>>, c)
  <2> DEFINE q == s.bpos - 1
             b == [s.buf EXCEPT ![s.bpos] = c]
  <2>1. s' = [s EXCEPT !.bpos = q, !.buf = b, !.eof = FALSE]
    BY <1>2
  <2>2. Len(b) = Len(s.buf)
    BY <1>0
  <2> HIDE DEF q, b
  <2>3. s'.buf = b /\ \A f \in DOMAIN s \ {"bpos", "buf", "eof"} : s'[f] = s[f]
    BY Zenon, <1>0, <2>1 DEF Stream
  <2>4. {"state", "ndirty", "off", "bm", "status"} \subseteq DOMAIN s \ {"bpos", "buf", "eof"}
    BY <1>0, Fields
  <2>5. /\ s'.state = s.state /\ s'.ndirty = s.ndirty /\ s'.off = s.off /\ s'.bm = s.bm
        /\ s'.status = s.status
    BY <2>3, <2>4
  <2>6. Shape(s')
    BY <1>0, <1>1, <2>2, <2>3, <2>5 DEF Shape
  <2>7. QED
    BY <1>2, <2>5, <2>6, Shaped DEF Did
<1>3. CASE /\ s.bpos = 0
           /\ \E cap \in Nat :
                /\ s' = [Resized(s, cap) EXCEPT !.buf = <<c>> \o @, !.eof = FALSE]
                /\ cap >= s.maxsize
                /\ Did("unget", 0, <<>>, c)
  <2>1. PICK cap \in Nat :
          /\ s' = [Resized(s, cap) EXCEPT !.buf = <<c>> \o @, !.eof = FALSE]
          /\ cap >= s.maxsize
          /\ Did("unget", 0, <<>>, c)
    BY <1>3
  <2> DEFINE r == Resized(s, cap)
             b == <<c>> \o s.buf
  <2>2. r \in Stream /\ \A f \in DOMAIN s \ {"maxsize", "inl"} : r[f] = s[f]
    BY <1>0, <2>1, ResizedGood
  <2>3. {"buf", "state", "ndirty", "off", "bm", "status"} \subseteq DOMAIN s \ {"maxsize", "inl"}
    BY <1>0, Fields
  <2>4. /\ r.buf = s.buf /\ r.state = s.state /\ r.ndirty = s.ndirty /\ r.off = s.off
        /\ r.bm = s.bm /\ r.status = s.status
    BY <2>2, <2>3
  <2>5. s' = [r EXCEPT !.buf = b, !.eof = FALSE]
    BY <2>1, <2>4
  <2>6. Len(b) = Len(s.buf) + 1
    BY <1>0
  <2> HIDE DEF r, b
  <2>7. s'.buf = b /\ \A f \in DOMAIN r \ {"buf", "eof"} : s'[f] = r[f]
    BY Zenon, <2>2, <2>5 DEF Stream
  <2>8. {"state", "ndirty", "off", "bm", "status"} \subseteq DOMAIN r \ {"buf", "eof"}
    BY <2>2, Fields
  <2>9. /\ s'.state = "rd" /\ s'.ndirty = s.ndirty /\ s'.off = s.off /\ s'.bm = s.bm
        /\ s'.status = s.status
    BY <1>1, <2>4, <2>7, <2>8
  <2>10. Len(b) <= s.off
    BY <1>0, <1>1, <1>3, <2>6 DEF Avail
  <2>11. s.ndirty \in Nat /\ s.ndirty <= Len(s.buf)
    BY Known, <1>0 DEF Shape
  <2>12. Shape(s')
    BY <1>0, <1>1, <2>6, <2>7, <2>9, <2>10, <2>11 DEF Shape
  <2>13. QED
    BY <2>1, <2>9, <2>12, Shaped DEF Did
<1>4. CASE UNCHANGED s /\ Did("refused", 0, <<>>, -1)
  BY <1>0, <1>4, Shaped DEF Did
<1>5. ASSUME s.bpos = 0,
             NEW cap \in (IF Len(s.buf) = s.maxsize THEN Realloc(s, 2 * s.maxsize)
                          ELSE {s.maxsize})
      PROVE  cap \in Nat /\ cap >= s.maxsize
  BY UngetRoom
<1>6. CASE s.bpos > 0
  BY Zenon, <1>2, <1>6 DEF ios_ungetc
<1>7. CASE s.bpos = 0
  <2>1. ~(s.bpos > 0)
    BY <1>7
  <2>2. PICK cap \in (IF Len(s.buf) = s.maxsize THEN Realloc(s, 2 * s.maxsize)
                      ELSE {s.maxsize}) :
          IF cap = Len(s.buf) /\ cap > 0 THEN UNCHANGED s /\ Did("refused", 0, <<>>, -1)
          ELSE /\ s' = [Resized(s, cap) EXCEPT !.buf = <<c>> \o @, !.eof = FALSE]
               /\ Did("unget", 0, <<>>, c)
    BY Zenon, <2>1 DEF ios_ungetc
  <2>3. QED
    BY Zenon, <1>3, <1>4, <1>5, <1>7, <2>2
<1>8. QED
  BY <1>0, <1>6, <1>7

(***************************************************************************)
(* Moving, and the rest of the calls.                                      *)
(***************************************************************************)

LEMMA EmptyShape ==
  ASSUME NEW u \in Stream, u.buf = <<>>, u.bpos = 0, u.ndirty = 0, u.bm # "mem"
  PROVE  Shape(u)
<1>1. Len(u.buf) = 0 /\ u.off \in Nat
  BY Fields, EmptyBytes
<1>2. QED
  BY <1>1 DEF Shape

LEMMA Flushes ==
  ASSUME IInv, Shape(s), ~InMemory, NEW nw \in Flushed(s)
  PROVE  LET u == Flush(s, nw) IN
         /\ u \in Stream /\ Good(u) /\ Shape(u) /\ u.ndirty = 0
         /\ u.bm = s.bm /\ u.state = s.state /\ u.status = s.status
         /\ u.buf = IF s.state = "wr" THEN <<>> ELSE s.buf
         /\ u.bpos = IF s.state = "wr" THEN 0 ELSE s.bpos
<1> DEFINE u == Flush(s, nw)
<1>1. s \in Stream /\ Good(s) /\ nw \in 0..s.ndirty /\ nw \in Nat
  BY Known, AcceptedNat DEF Flushed
<1>2. u \in Stream /\ Good(u)
  BY <1>1, FlushGood
<1>3. Shape(u)
  BY <1>1, FlushShape
<1>4. /\ u.ndirty = 0 /\ \A f \in Kept : u[f] = s[f]
      /\ u.buf = IF s.state = "wr" THEN <<>> ELSE s.buf
      /\ u.bpos = IF s.state = "wr" THEN 0 ELSE s.bpos
  BY <1>1, FlushIs
<1> HIDE DEF u
<1>5. u.bm = s.bm /\ u.state = s.state /\ u.status = s.status
  BY <1>4 DEF Kept
<1>6. QED
  BY <1>2, <1>3, <1>4, <1>5 DEF u

\* An lseek after a flush, and the same without it.
LEMMA MovedShape ==
  ASSUME NEW t \in Stream, Good(t), Shape(t), t.ndirty = 0, NEW p \in Int, NEW e \in BOOLEAN
  PROVE  LET u == [Lseek(t, p) EXCEPT !.buf = <<>>, !.bpos = 0]
             v == [Lseek(t, p) EXCEPT !.buf = <<>>, !.bpos = 0, !.eof = e]
             w == [t EXCEPT !.eof = e] IN
         /\ Shape(u) /\ u.status = t.status
         /\ Shape(v) /\ v.status = t.status
         /\ w \in Stream /\ Good(w) /\ Shape(w) /\ w.status = t.status /\ w.ndirty = 0
<1> DEFINE l == Lseek(t, p)
           u == [l EXCEPT !.buf = <<>>, !.bpos = 0]
           v == [l EXCEPT !.buf = <<>>, !.bpos = 0, !.eof = e]
           w == [t EXCEPT !.eof = e]
<1>1. l \in Stream /\ Good(l) /\ \A f \in DOMAIN t \ {"off"} : l[f] = t[f]
  BY LseekGood
<1>2. {"ndirty", "bm", "status"} \subseteq DOMAIN t \ {"off"} /\ DOMAIN l = DOMAIN t
  BY <1>1, Fields
<1>3. l.ndirty = 0 /\ l.bm = t.bm /\ l.status = t.status
  BY <1>1, <1>2
<1> HIDE DEF l
<1>4. <<>> \in Seq(Byte)
  BY NoBytes
<1>5. /\ u \in Stream /\ u.buf = <<>> /\ u.bpos = 0
      /\ \A f \in DOMAIN l \ {"buf", "bpos"} : u[f] = l[f]
  <2>1. u \in Stream
    BY Emptied, <1>1
  <2>2. QED
    BY Zenon, <1>1, <2>1 DEF Stream
<1>6. /\ v \in Stream /\ v.buf = <<>> /\ v.bpos = 0
      /\ \A f \in DOMAIN l \ {"buf", "bpos", "eof"} : v[f] = l[f]
  <2>1. v = [u EXCEPT !.eof = e]
    OBVIOUS
  <2>2. v \in Stream
    BY <1>1, <2>1, Emptied, SetEof
  <2>3. QED
    BY Zenon, <1>1, <2>2 DEF Stream
<1>7. /\ w \in Stream /\ Good(w) /\ \A f \in DOMAIN t \ {"eof"} : w[f] = t[f]
  <2>1. w \in Stream /\ Good(w)
    BY SetEof
  <2>2. QED
    BY Zenon, <2>1 DEF Stream
<1> HIDE DEF u, v, w
<1>8. /\ {"ndirty", "bm", "status"} \subseteq DOMAIN l \ {"buf", "bpos", "eof"}
      /\ {"ndirty", "bm", "status", "state", "buf", "bpos", "off"} \subseteq DOMAIN t \ {"eof"}
  BY <1>2, Fields
<1>9. Shape(u) /\ u.status = t.status
  <2>1. u.ndirty = 0 /\ u.bm = t.bm /\ u.status = t.status
    BY <1>3, <1>5, <1>8
  <2>2. QED
    BY <1>5, <2>1, EmptyShape DEF Shape
<1>10. Shape(v) /\ v.status = t.status
  <2>1. v.ndirty = 0 /\ v.bm = t.bm /\ v.status = t.status
    BY <1>3, <1>6, <1>8
  <2>2. QED
    BY <1>6, <2>1, EmptyShape DEF Shape
<1>11. Shape(w) /\ w.status = t.status /\ w.ndirty = 0
  <2>1. /\ w.ndirty = t.ndirty /\ w.bm = t.bm /\ w.status = t.status /\ w.state = t.state
        /\ w.buf = t.buf /\ w.bpos = t.bpos /\ w.off = t.off
    BY <1>7, <1>8
  <2>2. QED
    BY <2>1 DEF Shape
<1>12. QED
  BY <1>7, <1>9, <1>10, <1>11 DEF u, v, w, l

LEMMA SeekShape ==
  ASSUME IInv, SInv, ~InMemory, NEW p \in Nat, ios_seek(p)
  PROVE  SInv'
<1>0. Shape(s) /\ s.status \in {"open", "closed"} /\ p \in Int /\ FALSE \in BOOLEAN
  BY DEF SInv
<1> DEFINE g(nw) == [Flush(s, nw) EXCEPT !.eof = FALSE]
<1>1. PICK nw \in Flushed(s) :
        IF Seekable THEN /\ s' = [Lseek(g(nw), p) EXCEPT !.buf = <<>>, !.bpos = 0]
                         /\ Did("seek", p, <<>>, 0)
        ELSE s' = g(nw) /\ Did("seek", p, <<>>, -1)
  BY DEF ios_seek
<1> DEFINE u == Flush(s, nw)
           f == [u EXCEPT !.eof = FALSE]
<1>2. u \in Stream /\ Good(u) /\ Shape(u) /\ u.ndirty = 0 /\ u.status = s.status
  BY <1>0, Flushes
<1>3. /\ s' = [Lseek(f, p) EXCEPT !.buf = <<>>, !.bpos = 0] \/ s' = f
      /\ call'.op = "seek"
  BY <1>1 DEF Did
<1> HIDE DEF u
<1>4. f \in Stream /\ Good(f) /\ Shape(f) /\ f.status = s.status /\ f.ndirty = 0
  BY <1>0, <1>2, MovedShape
<1> HIDE DEF f
<1>5. /\ Shape([Lseek(f, p) EXCEPT !.buf = <<>>, !.bpos = 0])
      /\ [Lseek(f, p) EXCEPT !.buf = <<>>, !.bpos = 0].status = s.status
  BY <1>0, <1>4, MovedShape
<1>6. Shape(s') /\ s'.status = s.status
  BY Zenon, <1>3, <1>4, <1>5
<1>7. QED
  BY <1>0, <1>3, <1>6, Shaped

LEMMA SeekEndShape ==
  ASSUME IInv, SInv, ~InMemory, ios_seek_end
  PROVE  SInv'
<1>0. Shape(s) /\ s.status \in {"open", "closed"} /\ TRUE \in BOOLEAN
  BY DEF SInv
<1> DEFINE g(nw) == [Flush(s, nw) EXCEPT !.eof = TRUE]
<1>1. PICK nw \in Flushed(s) :
        IF Seekable
        THEN /\ s' = [Lseek(g(nw), Len(g(nw).data)) EXCEPT !.buf = <<>>, !.bpos = 0]
             /\ Did("seek_end", 0, <<>>, 0)
        ELSE s' = g(nw) /\ Did("seek_end", 0, <<>>, -1)
  BY DEF ios_seek_end
<1> DEFINE u == Flush(s, nw)
           f == [u EXCEPT !.eof = TRUE]
<1>2. u \in Stream /\ Good(u) /\ Shape(u) /\ u.ndirty = 0 /\ u.status = s.status
  BY <1>0, Flushes
<1>3. /\ s' = [Lseek(f, Len(f.data)) EXCEPT !.buf = <<>>, !.bpos = 0] \/ s' = f
      /\ call'.op = "seek_end"
  BY <1>1 DEF Did
<1> HIDE DEF u
<1>4. f \in Stream /\ Good(f) /\ Shape(f) /\ f.status = s.status /\ f.ndirty = 0
  <2>1. 0 \in Int
    OBVIOUS
  <2>2. QED
    BY <1>0, <1>2, <2>1, MovedShape
<1> HIDE DEF f
<1>p. Len(f.data) \in Int
  BY <1>4, Fields
<1> DEFINE p == Len(f.data)
<1> HIDE DEF p
<1>5. /\ Shape([Lseek(f, p) EXCEPT !.buf = <<>>, !.bpos = 0])
      /\ [Lseek(f, p) EXCEPT !.buf = <<>>, !.bpos = 0].status = s.status
  BY <1>0, <1>4, <1>p, MovedShape DEF p
<1>6. Shape(s') /\ s'.status = s.status
  BY Zenon, <1>3, <1>4, <1>5 DEF p
<1>7. QED
  BY <1>0, <1>3, <1>6, Shaped

LEMMA SkipShape ==
  ASSUME IInv, SInv, ~InMemory, s.status = "open", Kind # "pipe" \/ s.state = "rd",
         NEW k \in Int, ios_skip(k)
  PROVE  SInv'
<1>0. Shape(s) /\ s \in Stream /\ s.bpos \in Nat
  BY Known DEF SInv
<1>1. CASE SkipWithin(k)
  <2> DEFINE q == s.bpos + k
             e == s.eof /\ k > 0
  <2>1. s' = [s EXCEPT !.bpos = q, !.eof = e] /\ call'.op = "skip"
    BY <1>1 DEF SkipWithin, Did
  <2> HIDE DEF q, e
  <2>2. \A f \in DOMAIN s \ {"bpos", "eof"} : s'[f] = s[f]
    BY Zenon, <1>0, <2>1 DEF Stream
  <2>3. {"state", "buf", "ndirty", "off", "bm", "status"} \subseteq DOMAIN s \ {"bpos", "eof"}
    BY <1>0, Fields
  <2>4. /\ s'.state = s.state /\ s'.buf = s.buf /\ s'.ndirty = s.ndirty /\ s'.off = s.off
        /\ s'.bm = s.bm /\ s'.status = s.status
    BY <2>2, <2>3
  <2>5. Shape(s')
    BY <1>0, <2>4 DEF Shape
  <2>6. QED
    BY <2>1, <2>4, <2>5, Shaped
<1>2. CASE SkipBeyond(k)
  <2> DEFINE to(f) == f.off + k + (CASE f.state = "wr" -> f.bpos
                                     [] f.state = "rd" -> -Avail(f)
                                     [] OTHER -> 0)
  <2>1. PICK nw \in Flushed(s) :
          LET f == Flush(s, nw) IN
          IF Seekable /\ to(f) >= 0
          THEN /\ s' = [Lseek(f, to(f)) EXCEPT !.buf = <<>>, !.bpos = 0, !.eof = FALSE]
               /\ Did("skip", k, <<>>, 0)
          ELSE s' = f /\ Did("skip", k, <<>>, -1)
    BY <1>2 DEF SkipBeyond
  <2> DEFINE f == Flush(s, nw)
  <2>2. f \in Stream /\ Good(f) /\ Shape(f) /\ f.ndirty = 0 /\ f.status = "open"
    BY <1>0, Flushes
  <2>3. /\ \/ s' = [Lseek(f, to(f)) EXCEPT !.buf = <<>>, !.bpos = 0, !.eof = FALSE]
           \/ s' = f
        /\ call'.op = "skip"
    BY <2>1 DEF Did
  <2> HIDE DEF f
  <2>4. to(f) \in Int
    <3>1. f.off \in Nat /\ f.bpos \in Nat /\ Len(f.buf) \in Nat
      BY <2>2, Fields
    <3>2. f.state \in {"none", "rd", "wr"}
      BY <2>2 DEF Stream
    <3>3. CASE f.state = "wr"
      BY <3>1, <3>3
    <3>4. CASE f.state = "rd"
      BY <3>1, <3>4 DEF Avail
    <3>5. CASE f.state = "none"
      BY <3>1, <3>5
    <3>6. QED
      BY <3>2, <3>3, <3>4, <3>5
  <2> DEFINE p == to(f)
  <2> HIDE DEF p
  <2>5. FALSE \in BOOLEAN /\ p \in Int
    BY <2>4 DEF p
  <2>6. /\ Shape([Lseek(f, p) EXCEPT !.buf = <<>>, !.bpos = 0, !.eof = FALSE])
        /\ [Lseek(f, p) EXCEPT !.buf = <<>>, !.bpos = 0, !.eof = FALSE].status = "open"
    BY <2>2, <2>5, MovedShape
  <2>7. Shape(s') /\ s'.status = "open"
    BY Zenon, <2>2, <2>3, <2>6 DEF p
  <2>8. QED
    BY <2>3, <2>7, Shaped
<1>3. QED
  BY <1>1, <1>2 DEF ios_skip

LEMMA PosShape ==
  ASSUME IInv, SInv, ~InMemory, ios_pos
  PROVE  SInv'
<1>0. Shape(s) /\ s \in Stream /\ s.status \in {"open", "closed"}
  BY Known DEF SInv
<1> DEFINE q == FilePos
<1>1. s' = [s EXCEPT !.fpos = q] /\ call'.op = "pos"
  BY DEF ios_pos, Did
<1> HIDE DEF q
<1>2. \A f \in DOMAIN s \ {"fpos"} : s'[f] = s[f]
  BY Zenon, <1>0, <1>1 DEF Stream
<1>3. {"state", "buf", "bpos", "ndirty", "off", "bm", "status"} \subseteq DOMAIN s \ {"fpos"}
  BY <1>0, Fields
<1>4. /\ s'.state = s.state /\ s'.buf = s.buf /\ s'.ndirty = s.ndirty /\ s'.off = s.off
      /\ s'.bm = s.bm /\ s'.status = s.status /\ s'.bpos = s.bpos
  BY <1>2, <1>3
<1>5. Shape(s')
  BY <1>0, <1>4 DEF Shape
<1>6. QED
  BY <1>0, <1>1, <1>4, <1>5, Shaped

LEMMA FlushCallShape ==
  ASSUME IInv, SInv, ~InMemory, ios_flush
  PROVE  SInv'
<1>0. Shape(s) /\ s.status \in {"open", "closed"}
  BY DEF SInv
<1>1. PICK nw \in Flushed(s) : s' = Flush(s, nw) /\ call'.op = "flush"
  BY DEF ios_flush, Did
<1> DEFINE u == Flush(s, nw)
<1>2. Shape(u) /\ u.status = s.status
  BY <1>0, Flushes
<1> HIDE DEF u
<1>3. s' = u
  BY <1>1 DEF u
<1>4. Shape(s') /\ s'.status = s.status
  BY <1>2, <1>3
<1>5. QED
  BY <1>0, <1>1, <1>4, Shaped

\* A buffer that takes over everything.
LEMMA SetbufShape ==
  ASSUME IInv, SInv, ~InMemory, NEW n \in Nat, Len(s.buf) <= n, ios_setbuf(n)
  PROVE  SInv'
<1>0. Shape(s) /\ s.status \in {"open", "closed"} /\ s.buf \in Seq(Byte) /\ Len(s.buf) \in Nat
      /\ s.bpos \in Nat
  BY Known DEF SInv
<1> DEFINE g(nw) == Flush(s, nw)
<1>1. PICK nw \in Flushed(s) :
        s' = [g(nw) EXCEPT !.buf = First(@, Min2(n, Len(@))), !.bpos = Min2(@, n),
                           !.maxsize = n, !.inl = FALSE]
  BY DEF ios_setbuf
<1> DEFINE u == Flush(s, nw)
<1>2. u \in Stream /\ Good(u) /\ Shape(u) /\ u.ndirty = 0 /\ u.status = s.status
      /\ u.buf = IF s.state = "wr" THEN <<>> ELSE s.buf
  BY <1>0, Flushes
<1> DEFINE b == First(u.buf, Min2(n, Len(u.buf)))
           q == Min2(u.bpos, n)
<1>3. s' = [u EXCEPT !.buf = b, !.bpos = q, !.maxsize = n, !.inl = FALSE]
  BY <1>1
<1> HIDE DEF u
<1>4. u.buf \in Seq(Byte) /\ Len(u.buf) \in Nat /\ Len(u.buf) <= n /\ u.bpos \in Nat
      /\ u.bpos <= Len(u.buf)
  <2>1. Len(<<>>) = 0
    BY EmptyBytes
  <2>2. Len(u.buf) <= n
    BY <1>0, <1>2, <2>1
  <2>3. QED
    BY <1>2, <2>2, Fields DEF Good
<1>5. b = u.buf /\ q = u.bpos
  <2>1. Min2(n, Len(u.buf)) = Len(u.buf) /\ q = u.bpos
    BY <1>4 DEF Min2
  <2>2. QED
    BY <1>4, <2>1, FirstAll
<1> HIDE DEF b, q
<1>6. /\ s'.buf = b /\ s'.bpos = q
      /\ \A f \in DOMAIN u \ {"buf", "bpos", "maxsize", "inl"} : s'[f] = u[f]
  BY Zenon, <1>2, <1>3 DEF Stream
<1>7. {"state", "ndirty", "off", "bm", "status"} \subseteq DOMAIN u \ {"buf", "bpos", "maxsize", "inl"}
  BY <1>2, Fields
<1>8. /\ s'.state = u.state /\ s'.buf = u.buf /\ s'.ndirty = u.ndirty /\ s'.off = u.off
      /\ s'.bm = u.bm /\ s'.status = u.status /\ s'.bpos = u.bpos
  BY <1>5, <1>6, <1>7
<1>9. Shape(s')
  BY <1>2, <1>8 DEF Shape
<1>10. call'.op = "setbuf"
  BY DEF ios_setbuf, Did
<1>11. QED
  BY <1>0, <1>2, <1>8, <1>9, <1>10, Shaped

LEMMA BufmodeShape ==
  ASSUME IInv, SInv, ~InMemory, NEW m \in Modes, ios_bufmode(m)
  PROVE  SInv'
<1>0. Shape(s) /\ s \in Stream /\ s.status \in {"open", "closed"} /\ m # "mem"
  BY Known, IosAssumption DEF SInv
<1>1. s' = [s EXCEPT !.bm = m] /\ call'.op = "bufmode"
  BY DEF ios_bufmode, Did
<1>2. s'.bm = m /\ \A f \in DOMAIN s \ {"bm"} : s'[f] = s[f]
  BY Zenon, <1>0, <1>1 DEF Stream
<1>3. {"state", "buf", "bpos", "ndirty", "off", "status"} \subseteq DOMAIN s \ {"bm"}
  BY <1>0, Fields
<1>4. /\ s'.state = s.state /\ s'.buf = s.buf /\ s'.ndirty = s.ndirty /\ s'.off = s.off
      /\ s'.status = s.status /\ s'.bpos = s.bpos
  BY <1>2, <1>3
<1>5. Shape(s')
  BY <1>0, <1>2, <1>4 DEF Shape
<1>6. QED
  BY <1>0, <1>1, <1>4, <1>5, Shaped

LEMMA ReadonlyShape ==
  ASSUME IInv, SInv, ~InMemory, s.state # "rd" \/ s.buf = <<>>, ios_set_readonly
  PROVE  SInv'
<1>0. Shape(s) /\ s.status \in {"open", "closed"}
  BY DEF SInv
<1> DEFINE g(nw) == Flush(s, nw)
<1>1. PICK nw \in Flushed(s) :
        s' = [g(nw) EXCEPT !.state = "none", !.readonly = TRUE]
  BY DEF ios_set_readonly
<1> DEFINE u == Flush(s, nw)
<1>2. u \in Stream /\ Good(u) /\ Shape(u) /\ u.ndirty = 0 /\ u.status = s.status
      /\ u.state = s.state /\ u.buf = IF s.state = "wr" THEN <<>> ELSE s.buf
  BY <1>0, Flushes
<1>3. s' = [u EXCEPT !.state = "none", !.readonly = TRUE]
  BY <1>1
<1> HIDE DEF u
<1>4. u.buf = <<>>
  <2>1. s.state \in {"none", "rd", "wr"}
    BY Known DEF Stream
  <2>2. QED
    BY <1>0, <1>2, <2>1 DEF Shape
<1>5. s'.state = "none" /\ \A f \in DOMAIN u \ {"state", "readonly"} : s'[f] = u[f]
  BY Zenon, <1>2, <1>3 DEF Stream
<1>6. {"buf", "bpos", "ndirty", "off", "bm", "status"} \subseteq DOMAIN u \ {"state", "readonly"}
  BY <1>2, Fields
<1>7. /\ s'.buf = <<>> /\ s'.bpos = u.bpos /\ s'.ndirty = 0 /\ s'.bm = u.bm /\ s'.status = u.status
  BY <1>2, <1>4, <1>5, <1>6
<1>8. Len(<<>>) = 0 /\ u.bpos = 0
  <2>1. Len(<<>>) = 0 /\ u.bpos \in Nat /\ u.bpos <= Len(u.buf)
    BY <1>2, Fields, EmptyBytes DEF Good
  <2>2. QED
    BY <1>4, <2>1
<1>9. Shape(s')
  BY <1>2, <1>5, <1>7, <1>8 DEF Shape
<1>10. call'.op = "readonly"
  BY DEF ios_set_readonly, Did
<1>11. QED
  BY <1>0, <1>2, <1>7, <1>9, <1>10, Shaped

LEMMA PurgeShape ==
  ASSUME IInv, SInv, ~InMemory, ios_purge
  PROVE  SInv'
<1>0. Shape(s) /\ s \in Stream /\ s.status \in {"open", "closed"}
  BY Known DEF SInv
<1> DEFINE q == IF s.state = "rd" THEN Len(s.buf) ELSE s.bpos
<1>1. s' = [s EXCEPT !.bpos = q] /\ call'.op = "purge"
  BY DEF ios_purge, Did
<1> HIDE DEF q
<1>2. s'.bpos = q /\ \A f \in DOMAIN s \ {"bpos"} : s'[f] = s[f]
  BY Zenon, <1>0, <1>1 DEF Stream
<1>3. {"state", "buf", "ndirty", "off", "bm", "status"} \subseteq DOMAIN s \ {"bpos"}
  BY <1>0, Fields
<1>4. /\ s'.state = s.state /\ s'.buf = s.buf /\ s'.ndirty = s.ndirty /\ s'.off = s.off
      /\ s'.bm = s.bm /\ s'.status = s.status /\ (s.state # "rd" => s'.bpos = s.bpos)
  BY <1>2, <1>3 DEF q
<1>5. Shape(s')
  BY <1>0, <1>4 DEF Shape
<1>6. QED
  BY <1>0, <1>1, <1>4, <1>5, Shaped

LEMMA CloseShape ==
  ASSUME IInv, SInv, ~InMemory, ios_close
  PROVE  SInv'
<1>0. Shape(s)
  BY DEF SInv
<1> DEFINE g(nw) == Flush(s, nw)
<1>1. PICK nw \in Flushed(s) :
        s' = [g(nw) EXCEPT !.buf = <<>>, !.bpos = 0, !.maxsize = 0, !.inl = TRUE,
                           !.status = "closed"]
  BY DEF ios_close
<1> DEFINE u == Flush(s, nw)
<1>2. u \in Stream /\ Shape(u) /\ u.ndirty = 0
  BY <1>0, Flushes
<1>3. s' = [u EXCEPT !.buf = <<>>, !.bpos = 0, !.maxsize = 0, !.inl = TRUE,
                     !.status = "closed"]
  BY <1>1
<1> HIDE DEF u
<1>4. /\ s'.buf = <<>> /\ s'.bpos = 0 /\ s'.status = "closed"
      /\ \A f \in DOMAIN u \ {"buf", "bpos", "maxsize", "inl", "status"} : s'[f] = u[f]
  BY Zenon, <1>2, <1>3 DEF Stream
<1>5. {"state", "ndirty", "off", "bm"}
        \subseteq DOMAIN u \ {"buf", "bpos", "maxsize", "inl", "status"}
  BY <1>2, Fields
<1>6. /\ s'.ndirty = 0 /\ s'.bm = u.bm /\ s'.off = u.off
  BY <1>2, <1>4, <1>5
<1>7. Len(<<>>) = 0 /\ u.off \in Nat
  BY <1>2, Fields, EmptyBytes
<1>8. Shape(s')
  BY <1>2, <1>4, <1>6, <1>7 DEF Shape
<1>9. call'.op = "close"
  BY DEF ios_close, Did
<1>10. QED
  BY <1>4, <1>8, <1>9, Shaped

LEMMA OpenedShape ==
  ASSUME ~InMemory, NEW data \in Seq(Byte)
  PROVE  Shape(Opened(data)) /\ Opened(data).status = "open"
<1> DEFINE f == [bm |-> Mode, state |-> "none", buf |-> <<>>, maxsize |-> 0,
                 bpos |-> 0, ndirty |-> 0, fpos |-> -1, readonly |-> ~CanWrite,
                 eof |-> FALSE, inl |-> TRUE, data |-> data, off |-> 0,
                 status |-> "open"]
           o == [f EXCEPT !.maxsize = BufSize, !.inl = FALSE]
<1>1. o.buf = <<>> /\ o.bpos = 0 /\ o.ndirty = 0 /\ o.bm = Mode /\ o.status = "open"
  OBVIOUS
<1>2. Opened(data) = o
  BY DEF Opened, InMemory
<1> HIDE DEF o
<1>3. Opened(data) \in Stream
  BY OpenedGood
<1>4. Mode # "mem"
  BY IosAssumption DEF InMemory
<1>5. QED
  BY <1>1, <1>2, <1>3, <1>4, EmptyShape

\* A stream whose buffer could not be had is like the other in all else.
LEMMA OpeningsAre ==
  ASSUME ~InMemory, NEW data \in Seq(Byte), NEW t \in Openings(data)
  PROVE  /\ t \in Stream /\ Good(t)
         /\ \A f \in DOMAIN Opened(data) \ {"maxsize", "inl"} : t[f] = Opened(data)[f]
<1> DEFINE o == Opened(data)
           u == [o EXCEPT !.maxsize = 0, !.inl = TRUE]
<1>1. t \in Stream /\ Good(t)
  BY OpeningsGood
<1>2. o \in Stream
  BY OpenedGood
<1>3. t = o \/ t = u
  BY DEF Openings
<1> HIDE DEF o
<1>4. \A f \in DOMAIN o \ {"maxsize", "inl"} : u[f] = o[f]
  BY Zenon, <1>2 DEF Stream
<1>5. QED
  BY <1>1, <1>3, <1>4 DEF o

LEMMA OpeningsShape ==
  ASSUME ~InMemory, NEW data \in Seq(Byte), NEW t \in Openings(data)
  PROVE  Shape(t) /\ t.status = "open"
<1> DEFINE o == Opened(data)
<1>1. Shape(o) /\ o.status = "open" /\ o \in Stream
  BY OpenedShape, OpenedGood
<1>2. \A f \in DOMAIN o \ {"maxsize", "inl"} : t[f] = o[f]
  BY OpeningsAre
<1> HIDE DEF o
<1>3. {"state", "buf", "bpos", "ndirty", "off", "bm", "status"} \subseteq DOMAIN o \ {"maxsize", "inl"}
  BY <1>1, Fields
<1>4. /\ t.state = o.state /\ t.buf = o.buf /\ t.bpos = o.bpos /\ t.ndirty = o.ndirty
      /\ t.off = o.off /\ t.bm = o.bm /\ t.status = o.status
  BY <1>2, <1>3
<1>5. QED
  BY <1>1, <1>4 DEF Shape

LEMMA ReopenShape ==
  ASSUME IInv, ~InMemory, Reopen
  PROVE  SInv'
<1>1. PICK trunc \in {Kind = "file" /\ CanWrite, FALSE} :
        s' \in Openings(IF trunc THEN <<>> ELSE s.data)
  BY DEF Reopen
<1> DEFINE d == IF trunc THEN <<>> ELSE s.data
<1>2. d \in Seq(Byte)
  BY Known, NoBytes
<1> HIDE DEF d
<1>3. s' \in Openings(d)
  BY <1>1 DEF d
<1>4. Shape(s') /\ s'.status = "open"
  BY <1>2, <1>3, OpeningsShape
<1>5. call'.op = "open"
  BY DEF Reopen
<1>6. QED
  BY <1>4, <1>5, Shaped

(***************************************************************************)
(* The invariant holds for a client that keeps its duties.                 *)
(***************************************************************************)

LEMMA ShapeInit ==
  ASSUME Init, ~InMemory
  PROVE  SInv
<1>1. Initial \in Seq(Byte) /\ s \in Openings(Initial)
  BY IosAssumption DEF Init
<1>2. Shape(s) /\ s.status = "open"
  BY <1>1, OpeningsShape
<1>3. call.op = "open"
  BY DEF Init
<1>4. QED
  BY <1>2, <1>3 DEF SInv, Taken

\* What MayWrite, MayRead and MayPrep leave of a descriptor to such a client.
LEMMA Duties ==
  ASSUME ~InMemory, Client # "any", IInv
  PROVE  /\ \A n \in Nat : MayWrite(n) => Writable(n)
         /\ MayRead => s.status = "open" /\ (s.state = "wr" => s.buf = <<>>)
         /\ MayPrep /\ Shape(s) => s.ndirty = 0
         /\ MayMove => s.status = "open" /\ (Kind # "pipe" \/ s.state = "rd")
<1>1. \A n \in Nat : MayWrite(n) => Writable(n)
  BY DEF MayWrite, Writable, Open
<1>2. MayRead => s.status = "open" /\ (s.state = "wr" => s.buf = <<>>)
  BY DEF MayRead, Open
<1>3. ASSUME MayPrep, Shape(s) PROVE s.ndirty = 0
  <2>1. s.ndirty \in Nat /\ s.state \in {"none", "rd", "wr"} /\ Len(<<>>) = 0
    BY Known, EmptyBytes DEF Stream
  <2>2. s.state # "rd" \/ s.ndirty = 0
    BY <1>3 DEF MayPrep
  <2>3. s.state # "rd" => s.buf = <<>>
    BY <1>2, <1>3, <2>1 DEF MayPrep, Shape
  <2>4. QED
    BY <1>3, <2>1, <2>2, <2>3 DEF Shape
<1>4. MayMove => s.status = "open" /\ (Kind # "pipe" \/ s.state = "rd")
  BY DEF MayMove, Open
<1>5. QED
  BY <1>1, <1>2, <1>3, <1>4

LEMMA CarefulWrite ==
  ASSUME ~InMemory, Client # "any", IInv, SInv, NEW d \in Seq(Byte) \ {<<>>}, ios_write(d)
  PROVE  SInv'
<1>1. Len(d) \in Nat
  BY LenProperties
<1>2. QED
  BY <1>1, Duties, WriteShape DEF ios_write

LEMMA CarefulPut ==
  ASSUME ~InMemory, Client # "any", IInv, SInv,
         \/ \E d \in Payloads : ios_vprintf(d)
         \/ \E c \in Chars : ios_putc(c)
  PROVE  SInv'
<1>0. ASSUME NEW d \in Seq(Byte), MayWrite(Len(d)), HasRoom, s.bpos + Len(d) <= s.maxsize,
             PutDirectly(s, d)
      PROVE  SInv'
  <2>1. s.status = "open"
    BY <1>0, LenProperties, Duties DEF Writable
  <2>2. QED
    BY <1>0, <2>1, PutDirectlyShape
<1>1. ASSUME NEW d \in Payloads, ios_vprintf(d) PROVE SInv'
  <2>1. d \in Seq(Byte) \ {<<>>} /\ d \in Seq(Byte)
    BY Zenon, IosAssumption
  <2>2. \/ ios_write(d)
        \/ MayWrite(Len(d)) /\ HasRoom /\ s.bpos + Len(d) <= s.maxsize /\ PutDirectly(s, d)
    BY <1>1, <2>1, PrintsPlainly
  <2>3. CASE ios_write(d)
    BY <2>1, <2>3, CarefulWrite
  <2>4. QED
    BY <1>0, <2>1, <2>2, <2>3
<1>2. ASSUME NEW c \in Chars, ios_putc(c) PROVE SInv'
  <2>1. <<c>> \in Seq(Byte) \ {<<>>} /\ Len(<<c>>) = 1
    <3>1. c \in Byte
      BY Zenon, IosAssumption
    <3>2. QED
      BY <3>1
  <2>2. CASE MayWrite(1) /\ HasRoom /\ PutDirectly(s, <<c>>)
    <3>1. s.bpos + Len(<<c>>) <= s.maxsize
      BY <2>1, <2>2, Known DEF HasRoom
    <3>2. QED
      BY <1>0, <2>1, <2>2, <3>1
  <2>3. CASE ios_write(<<c>>)
    BY <2>1, <2>3, CarefulWrite
  <2>4. QED
    BY Zenon, <1>2, <2>2, <2>3 DEF ios_putc
<1>3. QED
  BY <1>1, <1>2

LEMMA CarefulPrep ==
  ASSUME ~InMemory, Client # "any", IInv, IInv', SInv,
         ios_peekc \/ \E n \in Counts : ios_readprep(n)
  PROVE  SInv'
<1>1. Shape(s) /\ MayPrep /\ s.status \in {"open", "closed"}
  BY DEF SInv, ios_peekc, ios_readprep
<1>2. s.ndirty = 0 /\ (s.state = "wr" => s.buf = <<>>)
  BY <1>1, Duties DEF MayPrep
<1>3. Counts \subseteq Nat \ {0}
  BY IosAssumption
<1>4. UNCHANGED s \/ \E n \in Nat \ {0} : Readprep(n)
  <2>1. ios_peekc => UNCHANGED s \/ Readprep(1)
    BY Zenon DEF ios_peekc
  <2>2. (\E n \in Counts : ios_readprep(n)) => \E n \in Nat \ {0} : Readprep(n)
    BY Zenon, <1>3 DEF ios_readprep
  <2>3. 1 \in Nat \ {0}
    OBVIOUS
  <2>4. QED
    BY Zenon, <2>1, <2>2, <2>3
<1>5. ASSUME NEW n \in Nat \ {0}, Readprep(n) PROVE Shape(s') /\ s'.status = s.status
  BY <1>1, <1>2, <1>5, PrepShape
<1>6. Shape(s') /\ s'.status \in {"open", "closed"}
  BY <1>1, <1>4, <1>5
<1>7. call'.op \in {"peek", "prep"}
  BY DEF ios_peekc, ios_readprep, Got, Did
<1>8. QED
  BY <1>6, <1>7, Shaped

LEMMA CarefulStep ==
  ASSUME ~InMemory, Client # "any", IInv, SInv, [Next]_vars
  PROVE  SInv'
<1>0. IInv' /\ Shape(s) /\ s.status \in {"open", "closed"}
  BY NextStep DEF SInv
<1>1. ASSUME NEW d \in Payloads, ios_write(d) PROVE SInv'
  <2>1. d \in Seq(Byte) \ {<<>>}
    BY Zenon, IosAssumption
  <2>2. QED
    BY <1>1, <2>1, CarefulWrite
<1>2. (\E d \in Payloads : ios_vprintf(d)) \/ (\E c \in Chars : ios_putc(c)) => SInv'
  BY Zenon, CarefulPut
<1>3. ASSUME NEW n \in Counts, ios_read(n) \/ ios_readall(n) PROVE SInv'
  <2>1. n \in Nat \ {0}
    BY Zenon, IosAssumption
  <2>2. s.status = "open" /\ (s.state = "wr" => s.buf = <<>>)
    BY <1>3, Duties DEF ios_read, ios_readall
  <2>3. CASE ios_read(n)
    BY <1>0, <2>1, <2>2, <2>3, ReadShape DEF ios_read
  <2>4. CASE ios_readall(n)
    BY <1>0, <2>1, <2>2, <2>4, ReadShape DEF ios_readall
  <2>5. QED
    BY <1>3, <2>3, <2>4
<1>4. CASE ios_getc
  BY <1>0, <1>4, Duties, GetcShape DEF ios_getc
<1>5. ios_peekc \/ (\E n \in Counts : ios_readprep(n)) => SInv'
  BY Zenon, <1>0, CarefulPrep
<1>6. CASE ios_ungetc
  BY <1>6, UngetShape DEF ios_ungetc, Open
<1>7. ASSUME NEW p \in 0..MaxSize, ios_seek(p) \/ ios_trunc(p) PROVE SInv'
  <2>1. MaxSize \in Nat
    BY Zenon, IosAssumption
  <2>2. p \in Nat
    BY <2>1
  <2>3. QED
    BY <1>7, <2>2, SeekShape DEF ios_trunc
<1>8. ASSUME NEW k \in Skips, ios_skip(k) PROVE SInv'
  <2>1. k \in Int
    BY Zenon, IosAssumption
  <2>2. QED
    BY <1>8, <2>1, Duties, SkipShape DEF ios_skip
<1>9. ASSUME NEW m \in Modes, ios_bufmode(m) PROVE SInv'
  BY <1>9, BufmodeShape
<1>10. ASSUME NEW n \in Bufs, ios_setbuf(n) PROVE SInv'
  <2>1. n \in Nat
    BY Zenon, IosAssumption
  <2>2. QED
    BY <1>10, <2>1, SetbufShape DEF ios_setbuf
<1>11. CASE ios_seek_end \/ ios_pos \/ ios_flush
  BY <1>11, SeekEndShape, PosShape, FlushCallShape
<1>12. CASE ios_takebuf \/ ios_set_readonly
  BY <1>12, ReadonlyShape DEF ios_takebuf, ios_set_readonly, InMemory
<1>13. CASE ios_purge \/ ios_close \/ Reopen
  BY <1>13, PurgeShape, CloseShape, ReopenShape
<1>14. CASE UNCHANGED vars
  BY <1>0, <1>14 DEF vars, SInv, Taken, Shape, Avail
<1>15. QED
  BY <1>1, <1>2, <1>3, <1>4, <1>5, <1>6, <1>7, <1>8, <1>9, <1>10, <1>11, <1>12, <1>13,
     <1>14 DEF Next

(***************************************************************************)
(* The theorems.                                                           *)
(***************************************************************************)

LEMMA Careful ==
  ASSUME ~InMemory, Client # "any"
  PROVE  Spec => [](IInv /\ SInv)
<1>1. Init => SInv
  BY ShapeInit
<1>2. IInv /\ SInv /\ [Next]_vars => SInv'
  BY CarefulStep
<1>3. QED
  BY <1>1, <1>2, Inductive, PTL DEF Spec

\* ndirty never passes size in a stream over a descriptor: whatever ios_flush
\* will write is in the buffer.
THEOREM DirtyStaysValid ==
  ASSUME Client # "any"
  PROVE  Spec => []DirtyIsValid
<1>1. CASE InMemory
  <2>1. IInv => DirtyIsValid
    BY <1>1 DEF DirtyIsValid
  <2>2. QED
    BY <2>1, Inductive, PTL
<1>2. CASE ~InMemory
  <2>1. SInv => DirtyIsValid
    BY DEF SInv, Shape, DirtyIsValid
  <2>2. QED
    BY <1>2, <2>1, Careful, PTL
<1>3. QED
  BY <1>1, <1>2

\* ios_write always ends: the call that it makes of itself when the data does not
\* fit finds the buffer flushed and large enough; and ios_flush never computes a
\* size below zero.
THEOREM NeverGetsStuck ==
  ASSUME InMemory \/ Client # "any"
  PROVE  Spec => []NeverStuck
<1>1. CASE InMemory
  BY <1>1, MemNeverStuck
<1>2. CASE ~InMemory
  <2>1. SInv => NeverStuck
    BY DEF SInv, NeverStuck
  <2>2. QED
    BY <1>2, <2>1, Careful, PTL
<1>3. QED
  BY <1>1, <1>2

\* Where nothing dirty lies outside the buffer, the contents of a stream over a
\* descriptor are the file under all that is dirty.
LEMMA ContentsAre ==
  ASSUME NEW t \in Stream, Shape(t), ~InMemory
  PROVE  Contents(t) = Overlay(t.data, BufferAt(t), First(t.buf, t.ndirty))
<1>1. t.buf \in Seq(Byte) /\ t.ndirty \in Nat /\ Len(t.buf) \in Nat /\ t.ndirty <= Len(t.buf)
  BY Fields DEF Shape
<1>2. CASE t.ndirty = 0
  <2>1. First(t.buf, t.ndirty) = <<>>
    BY <1>1, <1>2, FirstNone
  <2>2. QED
    BY <1>2, <2>1, OverlayNothing DEF Contents
<1>3. CASE t.ndirty # 0
  <2>1. Min2(t.ndirty, Len(t.buf)) = t.ndirty
    BY <1>1 DEF Min2
  <2>2. QED
    BY <1>3, <2>1 DEF Contents
<1>4. QED
  BY <1>2, <1>3

LEMMA DidIs ==
  ASSUME NEW op, \E num, bytes, ret : Did(op, num, bytes, ret)
  PROVE  call'.op = op
BY DEF Did

\* Only ios_flush answers as ios_flush.
LEMMA OnlyFlush ==
  ASSUME Next, call'.op = "flush"
  PROVE  ios_flush
<1> DEFINE Answers(op) == \E num, bytes, ret : Did(op, num, bytes, ret)
<1>0. ASSUME NEW op, Answers(op) PROVE op = "flush"
  BY <1>0, DidIs
<1>1. ASSUME NEW op, NEW n, Reading(op, n) PROVE Answers(op)
  <2>1. \E x : Got(op, n, x)
    <3>1. ReadBuffered(op, n) => \E x : Got(op, n, x)
      BY Zenon DEF ReadBuffered
    <3>2. ReadRest(op, n) => \E x : Got(op, n, x)
      BY Zenon DEF ReadRest
    <3>3. ReadDirect(op, n) => \E x : Got(op, n, x)
      BY Zenon DEF ReadDirect
    <3>4. ReadRefill(op, n) => \E x : Got(op, n, x)
      BY Zenon DEF ReadRefill
    <3>5. QED
      BY <1>1, <3>1, <3>2, <3>3, <3>4, Zenon DEF Reading
  <2>2. QED
    BY <2>1, Zenon DEF Got
<1>2. ASSUME NEW t, NEW d, Writing(t, d) PROVE Answers("refused") \/ Answers("write")
  <2>1. WriteMem(t, d) => Answers("write")
    BY Zenon DEF WriteMem
  <2>2. WriteUnbuffered(t, d) => Answers("write")
    BY Zenon DEF WriteUnbuffered
  <2>3. WriteBuffered(t, d) => Answers("write")
    BY Zenon DEF WriteBuffered
  <2>4. WriteThrough(t, d) => Answers("write")
    BY Zenon DEF WriteThrough
  <2>5. QED
    BY <1>2, <2>1, <2>2, <2>3, <2>4, Zenon DEF Writing
<1>3. ASSUME NEW t, NEW d, PutDirectly(t, d) PROVE Answers("write")
  BY <1>3, Zenon DEF PutDirectly
<1> DEFINE Other == {"refused", "write", "read", "readall", "getc", "prep", "peek",
                     "unget", "seek", "seek_end", "skip", "pos", "trunc", "take",
                     "setbuf", "bufmode", "readonly", "purge", "close"}
<1>4. ASSUME NEW op \in Other, Answers(op) PROVE FALSE
  <2>1. op # "flush"
    BY <1>4
  <2>2. QED
    BY <2>1, <1>4, <1>0
<1>5. "refused" \in Other /\ "write" \in Other
  OBVIOUS
<1>6. /\ "read" \in Other /\ "readall" \in Other /\ "getc" \in Other /\ "prep" \in Other
      /\ "peek" \in Other /\ "unget" \in Other /\ "seek" \in Other /\ "seek_end" \in Other
      /\ "skip" \in Other /\ "pos" \in Other /\ "trunc" \in Other /\ "take" \in Other
      /\ "setbuf" \in Other /\ "bufmode" \in Other /\ "readonly" \in Other
      /\ "purge" \in Other /\ "close" \in Other
  OBVIOUS
<1> HIDE DEF Other
<1>7. \A d : ~ios_write(d)
  BY <1>2, <1>4, <1>5 DEF ios_write
<1>8. \A d : ~ios_vprintf(d)
  BY <1>2, <1>3, <1>4, <1>5 DEF ios_vprintf
<1>9. \A c : ~ios_putc(c)
  BY <1>3, <1>4, <1>5, <1>7 DEF ios_putc
<1>10. \A n : ~ios_read(n) /\ ~ios_readall(n)
  BY <1>1, <1>4, <1>6 DEF ios_read, ios_readall
<1>11. ~ios_getc
  <2>1. ios_getc => Answers("getc")
    <3>1. ios_getc => Reading("getc", 1) \/ Got("getc", 1, <<>>)
      BY Zenon DEF ios_getc
    <3>2. Got("getc", 1, <<>>) => Answers("getc")
      BY Zenon DEF Got
    <3>3. QED
      BY <3>1, <3>2, <1>1
  <2>2. QED
    BY <2>1, <1>4, <1>6
<1>12. ~ios_peekc
  <2>1. ios_peekc => \E x : Got("peek", 1, x)
    BY Zenon DEF ios_peekc
  <2>2. ios_peekc => Answers("peek")
    BY <2>1, Zenon DEF Got
  <2>3. QED
    BY <2>2, <1>4, <1>6
<1>13. \A n : ~ios_readprep(n)
  <2>1. ASSUME NEW n, ios_readprep(n) PROVE Answers("prep")
    BY <2>1, Zenon DEF ios_readprep
  <2>2. QED
    BY <2>1, <1>4, <1>6
<1>14. ~ios_ungetc
  <2>1. ios_ungetc => Answers("unget") \/ Answers("refused")
    BY Zenon DEF ios_ungetc
  <2>2. QED
    BY <2>1, <1>4, <1>5, <1>6
<1>15. \A p : ~ios_seek(p)
  <2>1. ASSUME NEW p, ios_seek(p) PROVE Answers("seek")
    BY <2>1, Zenon DEF ios_seek
  <2>2. QED
    BY <2>1, <1>4, <1>6
<1>16. \A p : ~ios_trunc(p)
  <2>1. ASSUME NEW p, ios_trunc(p) PROVE Answers("trunc") \/ Answers("refused")
    BY <2>1, Zenon DEF ios_trunc
  <2>2. QED
    BY <2>1, <1>4, <1>5, <1>6
<1>17. \A k : ~ios_skip(k)
  <2>1. ASSUME NEW k, SkipBeyond(k) PROVE Answers("skip")
    BY <2>1, Zenon DEF SkipBeyond
  <2>2. ASSUME NEW k, ios_skip(k) PROVE Answers("skip")
    BY <2>1, <2>2, Zenon DEF ios_skip, SkipWithin
  <2>3. QED
    BY <2>2, <1>4, <1>6
<1>18. ~ios_seek_end
  <2>1. ios_seek_end => Answers("seek_end")
    BY Zenon DEF ios_seek_end
  <2>2. QED
    BY <2>1, <1>4, <1>6
<1>19. ~ios_pos
  <2>1. ios_pos => Answers("pos")
    BY Zenon DEF ios_pos
  <2>2. QED
    BY <2>1, <1>4, <1>6
<1>20. ~ios_takebuf
  <2>1. ios_takebuf => Answers("take") \/ Answers("refused")
    BY Zenon DEF ios_takebuf
  <2>2. QED
    BY <2>1, <1>4, <1>5, <1>6
<1>21. \A n : ~ios_setbuf(n) /\ ~ios_bufmode(n)
  <2>1. ASSUME NEW n PROVE /\ ios_setbuf(n) => Answers("setbuf")
                           /\ ios_bufmode(n) => Answers("bufmode") \/ Answers("refused")
    BY Zenon DEF ios_setbuf, ios_bufmode
  <2>2. QED
    BY <2>1, <1>4, <1>5, <1>6
<1>22. ~ios_set_readonly /\ ~ios_purge /\ ~ios_close
  <2>1. /\ ios_set_readonly => Answers("readonly")
        /\ ios_purge => Answers("purge")
        /\ ios_close => Answers("close")
    BY Zenon DEF ios_set_readonly, ios_purge, ios_close
  <2>2. QED
    BY <2>1, <1>4, <1>6
<1>23. ~Reopen
  <2>1. Reopen => call'.op = "open"
    BY DEF Reopen
  <2>2. QED
    BY <2>1
<1>24. QED
  BY <1>7, <1>8, <1>9, <1>10, <1>11, <1>12, <1>13, <1>14, <1>15, <1>16, <1>17, <1>18,
     <1>19, <1>20, <1>21, <1>22, <1>23, Zenon DEF Next

LEMMA FlushedAll ==
  ASSUME IInv, SInv, ~InMemory, ios_flush, call'.ret = 0
  PROVE  s'.data = Contents(s) /\ Pos(s') = Pos(s)
<1>0. /\ s \in Stream /\ Good(s) /\ Shape(s) /\ s.off \in Nat /\ s.bpos \in Nat
      /\ Len(s.buf) \in Nat /\ s.state \in {"none", "rd", "wr"}
  <2>1. s \in Stream
    BY Known
  <2>2. QED
    BY <2>1, Known DEF SInv, Stream
<1>1. s' = Flush(s, s.ndirty) /\ s.ndirty \in 0..s.ndirty
  <2>1. PICK nw \in Flushed(s) :
          s' = Flush(s, nw) /\ Did("flush", 0, <<>>, IF InMemory \/ nw = s.ndirty THEN 0 ELSE -1)
    BY DEF ios_flush
  <2>2. nw = s.ndirty
    BY <2>1 DEF Did
  <2>3. s.ndirty \in Nat
    BY <1>0, Fields
  <2>4. QED
    BY <2>1, <2>2, <2>3
<1> DEFINE u == Flush(s, s.ndirty)
<1>2. /\ \A f \in Kept : u[f] = s[f]
      /\ u.data = Overlay(s.data, BufferAt(s), First(s.buf, s.ndirty))
      /\ u.buf = IF s.state = "wr" THEN <<>> ELSE s.buf
      /\ u.bpos = IF s.state = "wr" THEN 0 ELSE s.bpos
      /\ u.off = IF s.state = "wr" THEN s.off + (IF Seekable THEN s.bpos ELSE s.ndirty)
                 ELSE s.off
  BY <1>0, <1>1, FlushIs
<1> HIDE DEF u
<1>3. s'.data = Contents(s)
  BY <1>0, <1>1, <1>2, ContentsAre DEF u
<1>4. u.state = s.state
  BY <1>2 DEF Kept
<1>5. Pos(u) = Pos(s)
  <2>1. CASE s.state = "wr"
    <3>1. Seekable \/ s.ndirty = s.bpos
      BY <1>0, <2>1, IosAssumption DEF Shape, Seekable, InMemory
    <3>2. u.off = s.off + s.bpos /\ u.bpos = 0
      BY <1>2, <2>1, <3>1
    <3>3. QED
      BY <1>0, <1>4, <2>1, <3>2 DEF Pos
  <2>2. CASE s.state # "wr"
    BY <1>2, <1>4, <2>2 DEF Pos, Avail
  <2>3. QED
    BY <2>1, <2>2
<1>6. QED
  BY <1>1, <1>3, <1>5 DEF u

\* When ios_flush answers 0, the file holds all that the client has written, and
\* the position has not moved.
THEOREM FlushWritesAll ==
  ASSUME InMemory \/ Client # "any"
  PROVE  Spec => FlushWrites
<1>1. CASE InMemory
  <2>1. ASSUME Next, call'.op = "flush" PROVE Pos(s') = Pos(s)
    BY <1>1, <2>1, OnlyFlush DEF ios_flush, Flush
  <2>2. IInv /\ [Next]_vars =>
          [ call'.op = "flush" /\ call'.ret = 0 =>
              /\ InMemory \/ s'.data = Contents(s)
              /\ Pos(s') = Pos(s) ]_vars
    BY <1>1, <2>1
  <2>3. QED
    BY <2>2, Inductive, PTL DEF Spec, FlushWrites
<1>2. CASE ~InMemory
  <2>1. ASSUME IInv, SInv, Next, call'.op = "flush", call'.ret = 0
        PROVE  s'.data = Contents(s) /\ Pos(s') = Pos(s)
    BY <1>2, <2>1, OnlyFlush, FlushedAll
  <2>2. IInv /\ SInv /\ [Next]_vars =>
          [ call'.op = "flush" /\ call'.ret = 0 =>
              /\ InMemory \/ s'.data = Contents(s)
              /\ Pos(s') = Pos(s) ]_vars
    BY <2>1
  <2>3. QED
    BY <1>2, <2>2, Careful, PTL DEF Spec, FlushWrites
<1>3. QED
  BY <1>1, <1>2

(***************************************************************************)
(* Files and pipes keep the promise of ios.h, as memory streams do: while  *)
(* the descriptor works and the client keeps its duties, the buffer is a   *)
(* window on the file, end of file is said only at the end, a line is in   *)
(* the file as soon as it is finished, and every call is a sequence of     *)
(* *p++ on the contents.                                                   *)
(***************************************************************************)

\* The window. While a stream is read, its buffer ends at the offset, within the
\* file, and what is not dirty is what the file has there.
Clean(t) ==
  t.state = "rd" =>
    /\ t.buf # <<>> => t.off <= Len(t.data)
    /\ \A i \in (t.ndirty + 1)..Len(t.buf) : t.buf[i] = t.data[BufferAt(t) + i]

\* In line mode, a newline that is in the buffer is in the file.
LineMode == Mode = "line" /\ Modes \subseteq {"line"}

Lines(t) ==
  LineMode =>
    \A i \in 1..Len(t.buf) :
      t.buf[i] = Newline => /\ BufferAt(t) + i <= Len(t.data)
                            /\ t.data[BufferAt(t) + i] = Newline

\* In mode none, nothing that was written waits in the buffer.
Unheld(t) == t.bm = "none" => t.ndirty = 0

View(t) == Clean(t) /\ Lines(t) /\ Unheld(t)

LEMMA OverlayIs ==
  ASSUME NEW c \in Seq(Byte), NEW at \in Nat, NEW d \in Seq(Byte)
  PROVE  /\ Overlay(c, at, d) \in Seq(Byte)
         /\ Len(Overlay(c, at, d)) =
              IF d = <<>> THEN Len(c) ELSE Max2(Len(c), at + Len(d))
         /\ \A i \in 1..Len(Overlay(c, at, d)) :
              Overlay(c, at, d)[i] =
                IF i > at /\ i <= at + Len(d) THEN d[i - at]
                ELSE IF i <= Len(c) THEN c[i] ELSE 0
<1>1. 0 \in Byte
  BY IosAssumption
<1>2. QED
  BY <1>1, OverlayBytes

\* What was overlaid shows in the result.
LEMMA OverlayShows ==
  ASSUME NEW c \in Seq(Byte), NEW at \in Nat, NEW d \in Seq(Byte)
  PROVE  /\ Overlay(c, at, d) \in Seq(Byte) /\ Len(Overlay(c, at, d)) \in Nat
         /\ Len(c) <= Len(Overlay(c, at, d))
         /\ d # <<>> => at + Len(d) <= Len(Overlay(c, at, d))
         /\ Len(Overlay(c, at, d)) <= Max2(Len(c), at + Len(d))
         /\ \A i \in 1..Len(d) : Overlay(c, at, d)[at + i] = d[i]
         /\ \A i \in 1..Len(c) : i <= at \/ i > at + Len(d) => Overlay(c, at, d)[i] = c[i]
         /\ \A k, n \in Nat : k + n <= Len(d) =>
              Slice(Overlay(c, at, d), at + k, n) = Slice(d, k, n)
<1> DEFINE o == Overlay(c, at, d)
<1>0. Len(c) \in Nat /\ Len(d) \in Nat /\ 0 \in Byte
  BY LenProperties, IosAssumption
<1>1. /\ o \in Seq(Byte)
      /\ Len(o) = IF d = <<>> THEN Len(c) ELSE Max2(Len(c), at + Len(d))
      /\ \A i \in 1..Len(o) :
           o[i] = IF i > at /\ i <= at + Len(d) THEN d[i - at]
                  ELSE IF i <= Len(c) THEN c[i] ELSE 0
  BY OverlayIs
<1>2. \A k, n \in Nat : k + n <= Len(d) => Slice(o, at + k, n) = Slice(d, k, n)
  BY <1>0, SliceOverlay
<1> HIDE DEF o
<1>3. /\ Len(o) \in Nat /\ Len(c) <= Len(o) /\ (d # <<>> => at + Len(d) <= Len(o))
      /\ Len(o) <= Max2(Len(c), at + Len(d))
  BY <1>0, <1>1, EmptyBytes DEF Max2
<1>4. \A i \in 1..Len(d) : o[at + i] = d[i]
  <2> SUFFICES ASSUME NEW i \in 1..Len(d) PROVE o[at + i] = d[i]
    OBVIOUS
  <2>1. d # <<>>
    BY <1>0, EmptyBytes
  <2>2. at + i \in 1..Len(o) /\ at + i > at /\ at + i <= at + Len(d) /\ at + i - at = i
    BY <1>0, <1>3, <2>1
  <2>3. QED
    BY <1>1, <2>2
<1>5. \A i \in 1..Len(c) : i <= at \/ i > at + Len(d) => o[i] = c[i]
  <2> SUFFICES ASSUME NEW i \in 1..Len(c), i <= at \/ i > at + Len(d) PROVE o[i] = c[i]
    OBVIOUS
  <2>1. i \in 1..Len(o) /\ ~(i > at /\ i <= at + Len(d)) /\ i <= Len(c)
    BY <1>0, <1>3
  <2>2. QED
    BY <1>1, <2>1
<1>6. QED
  BY <1>1, <1>2, <1>3, <1>4, <1>5 DEF o

\* SliceBytes, for bytes.
Within(c, at, n) == n > 0 => at + n <= Len(c)

IsSlice(v, c, at, n) ==
  v \in Seq(Byte) /\ Len(v) = n /\ \A i \in 1..n : v[i] = c[at + i]

LEMMA SliceIs ==
  ASSUME NEW c \in Seq(Byte), NEW at \in Nat, NEW n \in Nat, Within(c, at, n)
  PROVE  IsSlice(Slice(c, at, n), c, at, n)
<1>1. n > 0 => at + n <= Len(c)
  BY DEF Within
<1>2. /\ Slice(c, at, n) \in Seq(Byte) /\ Len(Slice(c, at, n)) = n
      /\ \A i \in 1..n : Slice(c, at, n)[i] = c[at + i]
  BY <1>1, SliceBytes
<1>3. QED
  BY <1>2 DEF IsSlice

LEMMA NestedBytes ==
  ASSUME NEW c \in Seq(Byte), NEW at \in Nat, NEW b \in Seq(Byte),
         NEW k \in 0..Len(b), NEW d \in Seq(Byte)
  PROVE  Overlay(c, at, Overlay(b, k, d)) = Overlay(Overlay(c, at, b), at + k, d)
<1>1. 0 \in Byte
  BY IosAssumption
<1>2. QED
  BY <1>1, OverlayNested

\* What is known of the numbers of a stream over a descriptor.
LEMMA Places ==
  ASSUME ~InMemory, NEW t \in Stream, Good(t), Shape(t)
  PROVE  /\ t.buf \in Seq(Byte) /\ t.data \in Seq(Byte)
         /\ Len(t.buf) \in Nat /\ Len(t.data) \in Nat
         /\ t.bpos \in 0..Len(t.buf) /\ t.ndirty \in 0..Len(t.buf) /\ t.off \in Nat
         /\ BufferAt(t) \in Nat
         /\ t.state = "rd" => BufferAt(t) + Len(t.buf) = t.off
         /\ t.state # "rd" => BufferAt(t) = t.off /\ t.ndirty = Len(t.buf)
         /\ Pos(t) = BufferAt(t) + t.bpos /\ Pos(t) \in Nat
         /\ Avail(t) = Len(t.buf) - t.bpos /\ Avail(t) \in Nat
         /\ 0 \in Byte
<1>1. /\ t.buf \in Seq(Byte) /\ t.data \in Seq(Byte)
      /\ Len(t.buf) \in Nat /\ Len(t.data) \in Nat
      /\ t.bpos \in Nat /\ t.ndirty \in Nat /\ t.off \in Nat
  BY Fields
<1>2. t.bpos <= Len(t.buf) /\ t.ndirty <= Len(t.buf)
  BY DEF Good, Shape
<1>3. t.state \in {"none", "rd", "wr"}
  BY DEF Stream
<1>4. CASE t.state = "rd"
  <2>1. Len(t.buf) <= t.off
    BY <1>4 DEF Shape
  <2>2. BufferAt(t) = t.off - Len(t.buf)
    BY <1>4 DEF BufferAt
  <2>3. Pos(t) = t.off - (Len(t.buf) - t.bpos)
    BY <1>4 DEF Pos, Avail
  <2>4. BufferAt(t) \in Nat /\ BufferAt(t) + Len(t.buf) = t.off
    BY <1>1, <2>1, <2>2
  <2>5. Pos(t) = BufferAt(t) + t.bpos /\ Pos(t) \in Nat
    BY <1>1, <1>2, <2>1, <2>2, <2>3
  <2>6. QED
    BY <1>1, <1>2, <1>4, <2>4, <2>5, IosAssumption DEF Avail
<1>5. CASE t.state = "wr"
  <2>1. BufferAt(t) = t.off /\ Pos(t) = t.off + t.bpos
    BY <1>5 DEF BufferAt, Pos
  <2>2. t.ndirty = Len(t.buf)
    BY <1>5 DEF Shape
  <2>3. QED
    BY <1>1, <1>2, <1>5, <2>1, <2>2, IosAssumption DEF Avail
<1>6. CASE t.state = "none"
  <2>1. Len(t.buf) = 0
    BY <1>6, EmptyBytes DEF Shape
  <2>2. t.bpos = 0 /\ t.ndirty = 0
    BY <1>1, <1>2, <2>1
  <2>3. BufferAt(t) = t.off /\ Pos(t) = t.off - (Len(t.buf) - t.bpos)
    BY <1>6 DEF BufferAt, Pos, Avail
  <2>4. QED
    BY <1>1, <1>2, <1>6, <2>1, <2>2, <2>3, IosAssumption DEF Avail
<1>7. QED
  BY <1>3, <1>4, <1>5, <1>6

\* The contents are the file under the whole buffer, the dirty part or not.
LEMMA WholeIs ==
  ASSUME ~InMemory, NEW t \in Stream, Good(t), Shape(t), Clean(t)
  PROVE  Contents(t) = Overlay(t.data, BufferAt(t), t.buf)
<1> DEFINE at == BufferAt(t)
           k  == t.ndirty
           f  == First(t.buf, k)
           a  == After(t.buf, k)
           c  == Overlay(t.data, at, f)
<1>1. /\ t.buf \in Seq(Byte) /\ t.data \in Seq(Byte)
      /\ Len(t.buf) \in Nat /\ Len(t.data) \in Nat
      /\ k \in 0..Len(t.buf) /\ at \in Nat /\ 0 \in Byte
      /\ t.state = "rd" => at + Len(t.buf) = t.off
      /\ t.state # "rd" => k = Len(t.buf)
  BY Places
<1>2. Contents(t) = c
  BY ContentsAre
<1>3. Overlay(t.data, at, t.buf) = Overlay(c, at + k, a)
  BY <1>1, OverlayParts
<1>c. \A i \in (k + 1)..Len(t.buf) : t.state = "rd" =>
        at + i <= Len(t.data) /\ t.buf[i] = t.data[at + i]
  <2> SUFFICES ASSUME NEW i \in (k + 1)..Len(t.buf), t.state = "rd"
               PROVE  at + i <= Len(t.data) /\ t.buf[i] = t.data[at + i]
    OBVIOUS
  <2>1. t.buf # <<>>
    BY <1>1, EmptyBytes
  <2>2. t.off <= Len(t.data) /\ t.buf[i] = t.data[at + i]
    BY <2>1 DEF Clean
  <2>3. QED
    BY <1>1, <2>2
<1>4. f \in Seq(Byte) /\ Len(f) = k
  BY <1>1, FirstBytes
<1>5. /\ a \in Seq(Byte) /\ Len(a) = Len(t.buf) - k
      /\ \A i \in 1..(Len(t.buf) - k) : a[i] = t.buf[k + i]
  <2>1. k \in Nat /\ k <= Len(t.buf)
    BY <1>1
  <2>2. /\ a \in Seq(Byte)
        /\ Len(a) = IF k <= Len(t.buf) THEN Len(t.buf) - k ELSE 0
        /\ \A i \in 1..(Len(t.buf) - k) : a[i] = t.buf[k + i]
    BY <1>1, <2>1, AfterBytes
  <2>3. QED
    BY <2>1, <2>2
<1> HIDE DEF f, a, at, k
<1>6. /\ c \in Seq(Byte)
      /\ Len(c) = IF f = <<>> THEN Len(t.data) ELSE Max2(Len(t.data), at + Len(f))
      /\ \A i \in 1..Len(c) :
           c[i] = IF i > at /\ i <= at + Len(f) THEN f[i - at]
                  ELSE IF i <= Len(t.data) THEN t.data[i] ELSE 0
  BY <1>1, <1>4, OverlayIs
<1> HIDE DEF c
<1>7. Len(c) \in Nat /\ Len(c) >= Len(t.data)
  BY <1>1, <1>4, <1>6 DEF Max2
<1>8. \A i \in 1..Len(a) : at + k + i <= Len(c) /\ a[i] = c[at + k + i]
  <2> SUFFICES ASSUME NEW i \in 1..Len(a)
               PROVE  at + k + i <= Len(c) /\ a[i] = c[at + k + i]
    OBVIOUS
  <2>1. t.state = "rd" /\ k + i \in (k + 1)..Len(t.buf) /\ i \in 1..(Len(t.buf) - k)
    BY <1>1, <1>5
  <2>2. at + (k + i) <= Len(t.data) /\ a[i] = t.data[at + (k + i)]
    BY <1>c, <1>5, <2>1
  <2>3. at + k + i = at + (k + i) /\ at + k + i \in 1..Len(c) /\ ~(at + k + i <= at + Len(f))
    BY <1>1, <1>4, <1>7, <2>1, <2>2
  <2>4. c[at + k + i] = t.data[at + k + i]
    BY <1>6, <2>2, <2>3
  <2>5. QED
    BY <2>2, <2>3, <2>4
<1>9. a # <<>> => at + k + Len(a) <= Len(c)
  <2>1. ASSUME a # <<>> PROVE Len(a) \in 1..Len(a)
    BY <1>1, <1>5, <2>1, EmptyByLength
  <2>2. QED
    BY <1>8, <2>1
<1>10. at + k \in Nat
  BY <1>1
<1>11. Overlay(c, at + k, a) = c
  BY <1>1, <1>5, <1>6, <1>8, <1>9, <1>10, OverlaySame
<1>12. QED
  BY <1>2, <1>3, <1>11 DEF at

\* The buffer shows the contents from BufferAt on.
LEMMA Window ==
  ASSUME ~InMemory, NEW t \in Stream, Good(t), Shape(t), Clean(t)
  PROVE  /\ Contents(t) \in Seq(Byte) /\ Len(Contents(t)) \in Nat
         /\ Len(t.data) <= Len(Contents(t))
         /\ t.buf # <<>> => BufferAt(t) + Len(t.buf) <= Len(Contents(t))
         /\ \A i \in 1..Len(t.buf) : t.buf[i] = Contents(t)[BufferAt(t) + i]
         /\ \A n \in 0..Avail(t) :
              Slice(t.buf, t.bpos, n) = Slice(Contents(t), Pos(t), n)
<1> DEFINE at == BufferAt(t)
           c  == Overlay(t.data, at, t.buf)
<1>1. /\ t.buf \in Seq(Byte) /\ t.data \in Seq(Byte)
      /\ Len(t.buf) \in Nat /\ Len(t.data) \in Nat
      /\ t.bpos \in 0..Len(t.buf) /\ at \in Nat /\ 0 \in Byte
      /\ Pos(t) = at + t.bpos /\ Avail(t) = Len(t.buf) - t.bpos
  BY Places
<1>2. Contents(t) = c
  BY WholeIs
<1> HIDE DEF at
<1>3. /\ c \in Seq(Byte) /\ Len(c) \in Nat /\ Len(t.data) <= Len(c)
      /\ t.buf # <<>> => at + Len(t.buf) <= Len(c)
      /\ \A i \in 1..Len(t.buf) : c[at + i] = t.buf[i]
      /\ \A k, n \in Nat : k + n <= Len(t.buf) => Slice(c, at + k, n) = Slice(t.buf, k, n)
  <2> DEFINE b == t.buf
  <2>0. b \in Seq(Byte)
    BY <1>1
  <2> HIDE DEF b
  <2>1. /\ Overlay(t.data, at, b) \in Seq(Byte) /\ Len(Overlay(t.data, at, b)) \in Nat
        /\ Len(t.data) <= Len(Overlay(t.data, at, b))
        /\ b # <<>> => at + Len(b) <= Len(Overlay(t.data, at, b))
        /\ \A i \in 1..Len(b) : Overlay(t.data, at, b)[at + i] = b[i]
    BY <1>1, <2>0, OverlayShows
  <2>2. \A k, n \in Nat : k + n <= Len(b) =>
           Slice(Overlay(t.data, at, b), at + k, n) = Slice(b, k, n)
    BY <1>1, <2>0, OverlayShows
  <2>3. QED
    BY <2>1, <2>2 DEF b
<1> HIDE DEF c
<1>4. \A n \in 0..Avail(t) : Slice(c, Pos(t), n) = Slice(t.buf, t.bpos, n)
  <2> SUFFICES ASSUME NEW n \in 0..Avail(t)
               PROVE  Slice(c, Pos(t), n) = Slice(t.buf, t.bpos, n)
    OBVIOUS
  <2>1. t.bpos \in Nat /\ n \in Nat /\ t.bpos + n <= Len(t.buf)
    BY <1>1
  <2>2. QED
    BY <1>1, <1>3, <2>1
<1>5. QED
  BY <1>2, <1>3, <1>4 DEF at

\* A flush that writes all leaves contents and position alone.
LEMMA FlushWhole ==
  ASSUME ~InMemory, ~IoErrors, NEW t \in Stream, Good(t), Shape(t), Clean(t),
         NEW nw \in Flushed(t)
  PROVE  LET u == Flush(t, nw) IN
         /\ u \in Stream /\ Good(u) /\ Shape(u) /\ View(u) /\ u.ndirty = 0
         /\ \A f \in Kept : u[f] = t[f]
         /\ u.data = Contents(t) /\ Contents(u) = Contents(t) /\ Pos(u) = Pos(t)
         /\ u.buf = IF t.state = "wr" THEN <<>> ELSE t.buf
         /\ u.bpos = IF t.state = "wr" THEN 0 ELSE t.bpos
         /\ Avail(u) = IF t.state = "wr" THEN 0 ELSE Avail(t)
<1> DEFINE u == Flush(t, nw)
<1>1. /\ t.buf \in Seq(Byte) /\ t.data \in Seq(Byte)
      /\ Len(t.buf) \in Nat /\ Len(t.data) \in Nat
      /\ t.bpos \in 0..Len(t.buf) /\ t.ndirty \in 0..Len(t.buf) /\ t.off \in Nat
      /\ BufferAt(t) \in Nat
      /\ t.state = "rd" => BufferAt(t) + Len(t.buf) = t.off
      /\ t.state # "rd" => BufferAt(t) = t.off /\ t.ndirty = Len(t.buf)
      /\ Pos(t) = BufferAt(t) + t.bpos
  BY Places
<1>2. nw = t.ndirty /\ nw \in 0..t.ndirty /\ nw \in Nat
  BY <1>1 DEF Flushed, Accepted
<1>3. /\ u.ndirty = 0
      /\ \A f \in Kept : u[f] = t[f]
      /\ u.data = Overlay(t.data, BufferAt(t), First(t.buf, t.ndirty))
      /\ u.buf = IF t.state = "wr" THEN <<>> ELSE t.buf
      /\ u.bpos = IF t.state = "wr" THEN 0 ELSE t.bpos
      /\ u.off = IF t.state = "wr" THEN t.off + (IF Seekable THEN t.bpos ELSE nw) ELSE t.off
  BY <1>2, FlushIs
<1>4. u.data = Contents(t)
  BY <1>3, ContentsAre
<1>5. u \in Stream /\ Good(u) /\ Shape(u)
  BY <1>2, FlushGood, FlushShape
<1> HIDE DEF u
<1>6. u.state = t.state
  BY <1>3 DEF Kept
<1>7. Contents(u) = u.data
  BY <1>3 DEF Contents
<1>w. /\ Contents(t) \in Seq(Byte) /\ Len(Contents(t)) \in Nat
      /\ Len(t.data) <= Len(Contents(t))
      /\ t.buf # <<>> => BufferAt(t) + Len(t.buf) <= Len(Contents(t))
      /\ \A i \in 1..Len(t.buf) : t.buf[i] = Contents(t)[BufferAt(t) + i]
  BY Window
<1>8. CASE t.state = "wr"
  <2>1. u.buf = <<>> /\ u.bpos = 0 /\ Len(u.buf) = 0
    BY <1>3, <1>8, EmptyBytes
  <2>2. Seekable \/ t.ndirty = t.bpos
    BY <1>1, <1>8, IosAssumption DEF Shape, Seekable, InMemory
  <2>3. u.off = t.off + t.bpos
    BY <1>1, <1>2, <1>3, <1>8, <2>2
  <2>4. Pos(u) = Pos(t)
    BY <1>1, <1>6, <1>8, <2>1, <2>3 DEF Pos
  <2>5. Clean(u) /\ Lines(u) /\ Avail(u) = 0
    BY <1>6, <1>8, <2>1 DEF Clean, Lines, Avail
  <2>6. QED
    BY <1>3, <1>4, <1>5, <1>7, <1>8, <2>4, <2>5 DEF u, View, Unheld
<1>9. CASE t.state # "wr"
  <2>1. u.buf = t.buf /\ u.bpos = t.bpos /\ u.off = t.off
    BY <1>3, <1>9
  <2>2. Pos(u) = Pos(t) /\ BufferAt(u) = BufferAt(t) /\ Avail(u) = Avail(t)
    BY <1>6, <1>9, <2>1 DEF Pos, BufferAt, Avail
  <2>3. \A i \in 1..Len(u.buf) :
          BufferAt(u) + i <= Len(u.data) /\ u.buf[i] = u.data[BufferAt(u) + i]
    <3> SUFFICES ASSUME NEW i \in 1..Len(t.buf)
                 PROVE  /\ BufferAt(t) + i <= Len(Contents(t))
                        /\ t.buf[i] = Contents(t)[BufferAt(t) + i]
      BY <1>4, <2>1, <2>2
    <3>1. t.buf # <<>>
      BY <1>1, EmptyBytes
    <3>2. QED
      BY <1>1, <1>w, <3>1
  <2>4. Clean(u)
    <3>1. CASE t.state = "rd"
      <4>1. u.buf # <<>> => u.off <= Len(u.data)
        BY <1>1, <1>4, <1>w, <2>1, <3>1
      <4>2. QED
        BY <1>1, <1>3, <2>1, <2>3, <4>1 DEF Clean
    <3>2. CASE t.state # "rd"
      BY <1>6, <3>2 DEF Clean
    <3>3. QED
      BY <3>1, <3>2
  <2>5. Lines(u)
    BY <2>3 DEF Lines
  <2>6. QED
    BY <1>3, <1>4, <1>5, <1>7, <1>9, <2>2, <2>4, <2>5 DEF u, View, Unheld
<1>10. QED
  BY <1>8, <1>9

\* Bytes put into the buffer are put into the contents, at the position.
LEMMA PutWhole ==
  ASSUME ~InMemory, NEW t \in Stream, Good(t), Shape(t), Clean(t), NEW d \in Seq(Byte),
         t.state # "none", t.status = "open",
         t.state = "rd" => Kind # "pipe" /\ t.bpos + Len(d) <= Len(t.buf),
         t.bpos + Len(d) <= t.maxsize
  PROVE  LET p == Put(t, d) IN
         /\ p \in Stream /\ Good(p) /\ Shape(p) /\ Clean(p)
         /\ Contents(p) = Overlay(Contents(t), Pos(t), d) /\ Pos(p) = Pos(t) + Len(d)
         /\ \A f \in Kept \cup {"data", "off"} : p[f] = t[f]
         /\ Lines(t) /\ (LineMode => \A i \in 1..Len(d) : d[i] # Newline) => Lines(p)
<1> DEFINE p == Put(t, d)
           b == t.buf
<1>1. /\ b \in Seq(Byte) /\ t.data \in Seq(Byte)
      /\ Len(b) \in Nat /\ Len(t.data) \in Nat
      /\ t.bpos \in 0..Len(b) /\ t.ndirty \in 0..Len(b) /\ t.off \in Nat
      /\ BufferAt(t) \in Nat /\ 0 \in Byte
      /\ Pos(t) = BufferAt(t) + t.bpos
  BY Places
<1>2. Len(d) \in Nat
  BY LenProperties
<1>3. p \in Stream /\ Good(p) /\ Shape(p)
  BY PutGood, PutShape
<1>4. /\ p.buf = Overlay(t.buf, t.bpos, d)
      /\ p.bpos = t.bpos + Len(d)
      /\ p.ndirty = Max2(t.ndirty, t.bpos + Len(d))
      /\ \A f \in DOMAIN t \ {"buf", "bpos", "ndirty"} : p[f] = t[f]
  BY PutIs
<1>5. Kept \cup {"data", "off"} \subseteq DOMAIN t \ {"buf", "bpos", "ndirty"}
  BY Fields DEF Kept
<1>6. \A f \in Kept \cup {"data", "off"} : p[f] = t[f]
  BY <1>4, <1>5
<1>7. p.state = t.state /\ p.data = t.data /\ p.off = t.off
  BY <1>6 DEF Kept
<1>8. t.state = "rd" => Len(p.buf) = Len(t.buf)
  BY PutShape
<1>9. BufferAt(p) = BufferAt(t)
  BY <1>7, <1>8 DEF BufferAt
<1> HIDE DEF p
<1>10. Pos(p) = Pos(t) + Len(d)
  <2>1. Pos(p) = BufferAt(p) + p.bpos
    BY <1>3, Places
  <2>2. QED
    BY <1>1, <1>2, <1>4, <1>9, <2>1
<1> DEFINE o == Overlay(b, t.bpos, d)
<1> HIDE DEF b
<1>11. /\ o \in Seq(Byte) /\ Len(o) \in Nat
       /\ Len(o) <= Max2(Len(b), t.bpos + Len(d))
       /\ \A i \in 1..Len(d) : o[t.bpos + i] = d[i]
       /\ \A i \in 1..Len(b) : i <= t.bpos \/ i > t.bpos + Len(d) => o[i] = b[i]
  <2>1. t.bpos \in Nat
    BY <1>1
  <2>2. QED
    BY <1>1, <2>1, OverlayShows
<1>12. p.buf = o
  BY <1>4 DEF b
<1> HIDE DEF o
<1>13. Clean(p)
  <2>1. SUFFICES ASSUME t.state = "rd"
                 PROVE  /\ p.buf # <<>> => p.off <= Len(p.data)
                        /\ \A i \in (p.ndirty + 1)..Len(p.buf) :
                             p.buf[i] = p.data[BufferAt(p) + i]
    BY <1>7 DEF Clean
  <2>2. Len(o) = Len(b) /\ (o # <<>> => b # <<>>)
    <3>1. Len(o) = Len(b)
      BY <1>8, <1>12, <2>1 DEF b
    <3>2. QED
      BY <1>11, <3>1, EmptyBytes, EmptyByLength
  <2>3. /\ b # <<>> => t.off <= Len(t.data)
        /\ \A i \in (t.ndirty + 1)..Len(b) : b[i] = t.data[BufferAt(t) + i]
    BY <2>1 DEF Clean, b
  <2>4. ASSUME NEW i \in (p.ndirty + 1)..Len(o) PROVE o[i] = t.data[BufferAt(t) + i]
    <3>1. i > t.bpos + Len(d) /\ i \in (t.ndirty + 1)..Len(b) /\ i \in 1..Len(b)
      BY <1>1, <1>2, <1>4, <2>2, <2>4 DEF Max2
    <3>2. QED
      BY <1>11, <2>3, <3>1
  <2>5. QED
    BY <1>7, <1>9, <1>12, <2>2, <2>3, <2>4
<1>14. Contents(p) = Overlay(Contents(t), Pos(t), d)
  <2>1. Contents(p) = Overlay(t.data, BufferAt(t), o)
    BY <1>3, <1>7, <1>9, <1>12, <1>13, WholeIs
  <2>2. Contents(t) = Overlay(t.data, BufferAt(t), b)
    BY WholeIs DEF b
  <2>3. Overlay(t.data, BufferAt(t), o)
          = Overlay(Overlay(t.data, BufferAt(t), b), BufferAt(t) + t.bpos, d)
    <3>1. t.bpos \in 0..Len(b) /\ b \in Seq(Byte) /\ t.data \in Seq(Byte) /\ BufferAt(t) \in Nat
      BY <1>1
    <3>2. QED
      BY <3>1, NestedBytes DEF o
  <2>4. QED
    BY <1>1, <2>1, <2>2, <2>3
<1>15. ASSUME Lines(t), LineMode => \A i \in 1..Len(d) : d[i] # Newline
       PROVE  Lines(p)
  <2> SUFFICES ASSUME LineMode, NEW i \in 1..Len(o), o[i] = Newline
               PROVE  /\ BufferAt(t) + i <= Len(t.data)
                      /\ t.data[BufferAt(t) + i] = Newline
    BY <1>7, <1>9, <1>12 DEF Lines
  <2>1. ~(i > t.bpos /\ i <= t.bpos + Len(d))
    <3>1. SUFFICES ASSUME i > t.bpos, i <= t.bpos + Len(d) PROVE FALSE
      OBVIOUS
    <3>a. i \in Nat /\ t.bpos \in Nat
      BY <1>1, <1>11
    <3>2. i - t.bpos \in 1..Len(d) /\ t.bpos + (i - t.bpos) = i
      BY <3>a, <1>2, <3>1
    <3>3. o[i] = d[i - t.bpos]
      BY <1>11, <3>2
    <3>4. QED
      BY <1>15, <3>2, <3>3
  <2>2. i \in 1..Len(b)
    BY <1>1, <1>2, <1>11, <2>1 DEF Max2
  <2>3. o[i] = b[i]
    <3>1. i <= t.bpos \/ i > t.bpos + Len(d)
      BY <1>1, <1>2, <2>1
    <3>2. QED
      BY <1>11, <2>2, <3>1
  <2>4. QED
    BY <1>15, <2>2, <2>3 DEF Lines, b
<1>16. QED
  BY <1>3, <1>6, <1>10, <1>13, <1>14, <1>15 DEF p

\* What a write of d does to the stream, for its client.
Wrote(t, u, d) ==
  /\ Contents(u) = Overlay(Contents(t), Pos(t), d) /\ Pos(u) = Pos(t) + Len(d)
  /\ u.eof = t.eof /\ u.bm = t.bm

LEMMA PartsBytes ==
  ASSUME NEW c \in Seq(Byte), NEW at \in Nat, NEW d \in Seq(Byte), NEW j \in 0..Len(d)
  PROVE  Overlay(Overlay(c, at, First(d, j)), at + j, After(d, j)) = Overlay(c, at, d)
<1>1. 0 \in Byte
  BY IosAssumption
<1>2. QED
  BY <1>1, OverlayParts

LEMMA BufferedWriteWhole ==
  ASSUME ~InMemory, ~IoErrors, NEW t \in Stream, Good(t), Shape(t), View(t),
         NEW d \in Seq(Byte),
         t.state # "none", t.status = "open",
         t.state = "rd" => Kind # "pipe" /\ t.bpos + Len(d) <= Len(t.buf),
         t.bpos + Len(d) <= t.maxsize, LineMode => t.bm = "line", t.bm # "none",
         NEW j \in LineEnds(d), NEW nw \in Flushed(Put(t, First(d, j)))
  PROVE  View(BufferedWrite(t, d, j, nw)) /\ Wrote(t, BufferedWrite(t, d, j, nw), d)
<1>0. /\ Len(d) \in Nat /\ t.bpos \in Nat /\ t.maxsize \in Nat /\ Len(t.buf) \in Nat
      /\ j \in 0..Len(d) /\ j \in Nat
  BY Fields, LenProperties DEF LineEnds
<1>1. CASE t.bm = "line" /\ j > 0
  <2> DEFINE p == Put(t, First(d, j))
             f == Flush(p, nw)
             a == After(d, j)
             w == Put(f, a)
  <2>1. BufferedWrite(t, d, j, nw) = w
    BY <1>1 DEF BufferedWrite
  <2>2. First(d, j) \in Seq(Byte) /\ Len(First(d, j)) = j
    BY <1>0, FirstBytes
  <2>3. t.bpos + j <= t.maxsize /\ (t.state = "rd" => t.bpos + j <= Len(t.buf))
    BY <1>0
  <2>4. /\ p \in Stream /\ Good(p) /\ Shape(p) /\ Clean(p)
        /\ Contents(p) = Overlay(Contents(t), Pos(t), First(d, j)) /\ Pos(p) = Pos(t) + j
        /\ \A x \in Kept \cup {"data", "off"} : p[x] = t[x]
    BY <2>2, <2>3, PutWhole DEF View
  <2>5. p.bpos = t.bpos + j /\ (t.state = "rd" => Len(p.buf) = Len(t.buf))
    BY <2>2, <2>3, PutIs, PutShape
  <2> HIDE DEF p
  <2>6. /\ p.state = t.state /\ p.maxsize = t.maxsize /\ p.eof = t.eof /\ p.status = "open"
    BY <2>4 DEF Kept
  <2>7. /\ f \in Stream /\ Good(f) /\ Shape(f) /\ View(f)
        /\ \A x \in Kept : f[x] = p[x]
        /\ Contents(f) = Contents(p) /\ Pos(f) = Pos(p)
        /\ f.buf = IF p.state = "wr" THEN <<>> ELSE p.buf
        /\ f.bpos = IF p.state = "wr" THEN 0 ELSE p.bpos
    BY <2>4, FlushWhole DEF p
  <2>8. f.bm = t.bm
    BY <2>4, <2>7 DEF Kept
  <2> HIDE DEF f
  <2>9. f.state = t.state /\ f.maxsize = t.maxsize /\ f.eof = t.eof /\ f.status = "open"
    BY <2>6, <2>7 DEF Kept
  <2>10. /\ a \in Seq(Byte) /\ Len(a) = Len(d) - j
         /\ \A i \in 1..(Len(d) - j) : a[i] = d[j + i]
    <3>1. /\ a \in Seq(Byte)
          /\ Len(a) = IF j <= Len(d) THEN Len(d) - j ELSE 0
          /\ \A i \in 1..(Len(d) - j) : a[i] = d[j + i]
      BY <1>0, AfterBytes
    <3>2. QED
      BY <1>0, <3>1
  <2>11. \A i \in 1..Len(a) : a[i] # Newline
    <3> SUFFICES ASSUME NEW i \in 1..Len(a) PROVE a[i] # Newline
      OBVIOUS
    <3>1. i \in 1..(Len(d) - j) /\ j + i \in (j + 1)..Len(d)
      BY <1>0, <2>10
    <3>2. \A x \in (j + 1)..Len(d) : d[x] # Newline
      BY DEF LineEnds
    <3>3. QED
      BY <2>10, <3>1, <3>2
  <2> HIDE DEF a
  <2>12. f.bpos + Len(a) <= f.maxsize
    <3>1. CASE p.state = "wr"
      BY <1>0, <2>7, <2>9, <2>10, <3>1
    <3>2. CASE p.state # "wr"
      BY <1>0, <2>5, <2>7, <2>9, <2>10, <3>2
    <3>3. QED
      BY <3>1, <3>2
  <2>13. f.state = "rd" => Kind # "pipe" /\ f.bpos + Len(a) <= Len(f.buf)
    BY <1>0, <2>5, <2>6, <2>7, <2>9, <2>10
  <2>14. /\ Clean(w) /\ Contents(w) = Overlay(Contents(f), Pos(f), a)
         /\ Pos(w) = Pos(f) + Len(a)
         /\ \A x \in Kept \cup {"data", "off"} : w[x] = f[x]
         /\ Lines(f) /\ (LineMode => \A i \in 1..Len(a) : a[i] # Newline) => Lines(w)
    BY <2>7, <2>9, <2>10, <2>12, <2>13, PutWhole DEF View
  <2>15. w.eof = t.eof /\ w.bm = t.bm
    BY <2>8, <2>9, <2>14 DEF Kept
  <2> HIDE DEF w
  <2>16. View(w)
    BY <2>7, <2>11, <2>14, <2>15 DEF View, Unheld
  <2>17. Contents(w) = Overlay(Contents(t), Pos(t), d) /\ Pos(w) = Pos(t) + Len(d)
    <3>1. Contents(t) \in Seq(Byte) /\ Pos(t) \in Nat
      BY Window, Places DEF View
    <3>2. Contents(w) = Overlay(Overlay(Contents(t), Pos(t), First(d, j)), Pos(t) + j, a)
      BY <2>4, <2>7, <2>14
    <3>3. Pos(w) = Pos(t) + Len(d)
      BY <1>0, <2>4, <2>7, <2>10, <2>14, <3>1
    <3>4. QED
      BY <1>0, <3>1, <3>2, <3>3, PartsBytes DEF a
  <2>18. QED
    BY <2>1, <2>15, <2>16, <2>17 DEF Wrote
<1>2. CASE ~(t.bm = "line" /\ j > 0)
  <2> DEFINE w == Put(t, d)
  <2>1. BufferedWrite(t, d, j, nw) = w
    BY <1>2 DEF BufferedWrite
  <2>2. /\ Clean(w) /\ Contents(w) = Overlay(Contents(t), Pos(t), d)
        /\ Pos(w) = Pos(t) + Len(d)
        /\ \A x \in Kept \cup {"data", "off"} : w[x] = t[x]
        /\ Lines(t) /\ (LineMode => \A i \in 1..Len(d) : d[i] # Newline) => Lines(w)
    BY PutWhole DEF View
  <2>3. LineMode => \A i \in 1..Len(d) : d[i] # Newline
    <3>1. LineMode => j = 0
      BY <1>0, <1>2
    <3>2. QED
      BY <3>1 DEF LineEnds
  <2>4. w.eof = t.eof /\ w.bm = t.bm
    BY <2>2 DEF Kept
  <2>5. QED
    BY <2>1, <2>2, <2>3, <2>4 DEF View, Unheld, Wrote
<1>3. QED
  BY <1>1, <1>2

(***************************************************************************)
(* The circumstances: a file or pipe whose descriptor works, and a client  *)
(* that keeps its duties. A stream may be opened in mode none, as stderr,  *)
(* but not go to it later (bytes that wait in the buffer are overtaken),   *)
(* nor be modified in place then (bytes written past the buffer leave it   *)
(* stale).                                                                 *)
(***************************************************************************)
Plain ==
  /\ ~InMemory /\ Client # "any" /\ ~IoErrors
  /\ "none" \notin Modes
  /\ Mode = "none" => Client = "seeks" \/ Kind = "pipe"

LEMMA Buffers ==
  ASSUME Plain, NEW t \in Stream, t.bm \in Modes \cup {Mode}
  PROVE  /\ t.bm \in {"none", "line", "block"} /\ (LineMode => t.bm = "line")
         /\ t.bm = "none" => Mode = "none"
BY IosAssumption DEF Plain, LineMode, InMemory

\* The same stream in another state.
LEMMA SameView ==
  ASSUME ~InMemory, NEW t \in Stream, Good(t), Shape(t), View(t),
         NEW u \in Stream, Good(u), Shape(u),
         u.buf = t.buf, u.bpos = t.bpos, u.ndirty = t.ndirty, u.off = t.off, u.data = t.data,
         u.state = t.state \/ t.buf = <<>>, u.bm = t.bm \/ u.bm # "none"
  PROVE  View(u) /\ Contents(u) = Contents(t) /\ Pos(u) = Pos(t)
<1>1. CASE u.state = t.state
  BY <1>1 DEF View, Unheld, Clean, Lines, BufferAt, Contents, Pos, Avail
<1>2. CASE t.buf = <<>>
  <2>1. Len(t.buf) = 0
    BY <1>2, EmptyBytes
  <2>2. Clean(u) /\ Lines(u)
    BY <1>2, <2>1, Places DEF Clean, Lines
  <2>3. BufferAt(u) = t.off /\ BufferAt(t) = t.off
    BY <2>1, Places DEF BufferAt
  <2>4. Contents(u) = Contents(t)
    BY <2>2, <2>3, WholeIs DEF View
  <2>5. Pos(u) = BufferAt(u) + u.bpos /\ Pos(t) = BufferAt(t) + t.bpos
    BY Places
  <2>6. QED
    BY <2>2, <2>3, <2>4, <2>5 DEF View, Unheld
<1>3. QED
  BY <1>1, <1>2

LEMMA AllAccepted ==
  ASSUME ~IoErrors, NEW n \in Nat, NEW k \in Accepted(n)
  PROVE  k = n
BY DEF Accepted

\* Every way of ios_write, for a client that keeps its duties.
LEMMA WriteWhole ==
  ASSUME IInv, SInv, Plain, View(s), s.bm \in Modes \cup {Mode},
         Mode = "none" => s.state # "rd" \/ s.buf = <<>>,
         NEW d \in Seq(Byte) \ {<<>>}, Writable(Len(d)), Writing(s, d)
  PROVE  \/ UNCHANGED s /\ Did("refused", 0, <<>>, 0)
         \/ View(s') /\ Wrote(s, s', d) /\ Did("write", 0, d, Len(d))
<1> DEFINE o == ForWriting(s)
<1>0. /\ s \in Stream /\ Good(s) /\ Shape(s) /\ Len(d) \in Nat \ {0}
      /\ s.status = "open" /\ Avail(s) \in Nat /\ ~InMemory /\ ~IoErrors
      /\ s.bm \in {"none", "line", "block"} /\ (LineMode => s.bm = "line")
      /\ s.bm = "none" => s.state # "rd" \/ s.buf = <<>>
  <2>1. Len(d) \in Nat \ {0}
    BY EmptySeq
  <2>2. s \in Stream
    BY Known
  <2>3. /\ s.bm \in {"none", "line", "block"} /\ (LineMode => s.bm = "line")
        /\ s.bm = "none" => Mode = "none"
    BY <2>2, Buffers
  <2>4. QED
    BY <2>1, <2>3, Known DEF SInv, Writable, Plain
<1>1. /\ o \in Stream /\ Good(o) /\ Shape(o)
      /\ \A f \in DOMAIN s \ {"state"} : o[f] = s[f]
      /\ o.state = IF s.state = "none" THEN "wr" ELSE s.state
  BY <1>0, ForWritingIs DEF Writable
<1>2. /\ o.status = "open" /\ o.buf = s.buf /\ o.bpos = s.bpos /\ o.maxsize = s.maxsize
      /\ o.bm = s.bm /\ o.ndirty = s.ndirty /\ o.off = s.off /\ o.data = s.data
      /\ o.eof = s.eof /\ o.state \in {"rd", "wr"}
      /\ o.state = s.state \/ s.buf = <<>>
  <2>1. {"status", "buf", "bpos", "maxsize", "bm", "ndirty", "off", "data", "eof"}
          \subseteq DOMAIN s \ {"state"}
    BY <1>0, Fields
  <2>2. o.state \in {"none", "rd", "wr"} /\ s.state \in {"none", "rd", "wr"}
    BY <1>0, <1>1 DEF Stream
  <2>3. s.state = "none" => s.buf = <<>>
    BY <1>0 DEF Shape
  <2>4. QED
    BY <1>0, <1>1, <2>1, <2>2, <2>3
<1>b. WriteBuffered(s, d) \/ WriteThrough(s, d) => o.bm # "none"
  BY <1>2 DEF WriteBuffered, WriteThrough
<1> HIDE DEF o
<1>3. View(o) /\ Contents(o) = Contents(s) /\ Pos(o) = Pos(s)
  BY <1>0, <1>1, <1>2, SameView
<1>a. \A u : Wrote(o, u, d) => Wrote(s, u, d)
  BY <1>2, <1>3 DEF Wrote
<1>4. ~WriteMem(s, d)
  BY <1>0 DEF WriteMem
<1>6. Len(o.buf) \in Nat /\ o.bpos \in Nat /\ o.maxsize \in Nat /\ o.ndirty \in Nat
      /\ o.bpos <= Len(o.buf)
  BY <1>1, Fields DEF Good
<1>5. CASE WriteUnbuffered(s, d)
  <2> DEFINE p == [o EXCEPT !.fpos = -1]
  <2>1. s.bm = "none" /\ s.ndirty = 0
    BY <1>5 DEF WriteUnbuffered, View, Unheld
  <2>2. s.buf = <<>>
    <3>1. s.state \in {"none", "rd", "wr"} /\ s.buf \in Seq(Byte)
      BY <1>0, Fields DEF Stream
    <3>2. s.state = "wr" => Len(s.buf) = 0
      BY <1>0, <2>1 DEF Shape
    <3>3. QED
      BY <1>0, <2>1, <3>1, <3>2, EmptyByLength DEF Shape
  <2>3. Len(s.buf) = 0 /\ s.bpos = 0
    <3>1. Len(s.buf) = 0
      BY <2>2, EmptyBytes
    <3>2. QED
      BY <1>2, <1>6, <3>1
  <2>4. PICK nd \in Accepted(Len(d)) :
          s' = KernelWrite(p, First(d, nd)) /\ Did("write", 0, d, nd)
    BY <1>5 DEF WriteUnbuffered, o
  <2>5. nd = Len(d)
    BY <1>0, <2>4, AllAccepted
  <2>6. First(d, nd) = d
    BY <2>5, FirstAll
  <2>7. s' = KernelWrite(p, d) /\ Did("write", 0, d, Len(d))
    BY <2>4, <2>5, <2>6
  <2>8. p \in Stream /\ \A f \in DOMAIN o \ {"fpos"} : p[f] = o[f]
    BY Zenon, <1>1, IosAssumption DEF Stream
  <2> HIDE DEF p
  <2>9. {"state", "buf", "bpos", "ndirty", "bm", "eof", "off", "data"} \subseteq DOMAIN o \ {"fpos"}
    BY <1>1, Fields
  <2>10. /\ p.state \in {"rd", "wr"} /\ p.buf = <<>> /\ p.bpos = 0 /\ p.ndirty = 0
         /\ p.bm = s.bm /\ p.eof = s.eof /\ p.off = s.off /\ p.data = s.data
    BY <1>2, <2>1, <2>2, <2>3, <2>8, <2>9
  <2>11. /\ s'.data = Overlay(p.data, p.off, d) /\ s'.off = p.off + Len(d)
         /\ \A x \in DOMAIN p \ {"off", "data"} : s'[x] = p[x]
    BY <2>7, <2>8, KernelWriteIs
  <2>12. {"state", "buf", "bpos", "ndirty", "bm", "eof"} \subseteq DOMAIN p \ {"off", "data"}
    BY <2>8, Fields
  <2>13. /\ s'.state \in {"rd", "wr"} /\ s'.buf = <<>> /\ s'.bpos = 0 /\ s'.ndirty = 0
         /\ s'.bm = s.bm /\ s'.eof = s.eof
         /\ s'.off = s.off + Len(d) /\ s'.data = Overlay(s.data, s.off, d)
    BY <2>10, <2>11, <2>12
  <2>14. View(s')
    BY <2>13, EmptyBytes DEF View, Unheld, Clean, Lines
  <2>15. s.off \in Nat /\ Pos(s) = s.off
    <3>1. s.off \in Nat /\ Pos(s) = BufferAt(s) + s.bpos
      BY <1>0, Places
    <3>2. BufferAt(s) = s.off
      BY <2>3, <3>1 DEF BufferAt
    <3>3. QED
      BY <2>3, <3>1, <3>2
  <2>16. Pos(s') = s.off + Len(d)
    <3>1. Len(s'.buf) = 0 /\ s'.off \in Nat
      BY <1>0, <2>13, <2>15, EmptyBytes
    <3>2. QED
      BY <1>0, <2>13, <3>1 DEF Pos, Avail
  <2>17. Contents(s) = s.data /\ Contents(s') = s'.data
    BY <1>0, <2>1, <2>13 DEF Contents
  <2>18. Wrote(s, s', d)
    BY <2>13, <2>15, <2>16, <2>17 DEF Wrote
  <2>19. QED
    BY <2>7, <2>14, <2>18
<1>7. CASE WriteBuffered(s, d)
  <2>1. Len(d) <= Space(o)
    BY <1>7 DEF WriteBuffered, o
  <2>2. o.bpos + Len(d) <= o.maxsize
    BY <1>0, <1>1, <2>1, SpaceFits
  <2>3. o.state = "rd" => Kind # "pipe" /\ o.bpos + Len(d) <= Len(o.buf)
    <3>1. SUFFICES ASSUME o.state = "rd" PROVE Kind # "pipe" /\ o.bpos + Len(d) <= Len(o.buf)
      OBVIOUS
    <3>2. o.bpos + Len(d) <= Len(o.buf)
      BY <1>0, <1>6, <2>1, <3>1 DEF Space, Avail
    <3>3. o.buf # <<>>
      BY <1>0, <1>6, <3>2, EmptyBytes
    <3>4. s.state = "rd"
      BY <1>2, <3>1, <3>3
    <3>5. QED
      BY <1>2, <3>2, <3>3, <3>4 DEF Writable
  <2>4. PICK j \in LineEnds(d) :
          \E nw \in Flushed(Put(o, First(d, j))) :
            s' = BufferedWrite(o, d, j, nw) /\ Did("write", 0, d, Len(d))
    BY <1>7 DEF WriteBuffered, o
  <2>5. View(s') /\ Wrote(o, s', d)
    BY <1>0, <1>1, <1>2, <1>3, <1>7, <1>b, <2>2, <2>3, <2>4, BufferedWriteWhole
  <2>6. QED
    BY <1>a, <2>4, <2>5
<1>8. CASE WriteThrough(s, d)
  <2> DEFINE w == [o EXCEPT !.state = "wr"]
  <2>1. Len(d) > Space(o)
    BY <1>8 DEF WriteThrough, o
  <2>2. o.state = "rd" => o.buf = <<>>
    <3>1. CASE Kind = "file" /\ Len(d) <= Avail(s) /\ s.state = "rd"
      <4>1. o.state = "rd"
        BY <1>1, <3>1
      <4>2. QED
        BY <1>0, <1>2, <2>1, <3>1, <4>1 DEF Space, Avail
    <3>2. CASE s.state # "rd" \/ s.buf = <<>>
      BY <1>1, <1>2, <3>2
    <3>3. QED
      BY <3>1, <3>2 DEF Writable
  <2>3. w \in Stream /\ w.state = "wr" /\ \A f \in DOMAIN o \ {"state"} : w[f] = o[f]
    BY Zenon, <1>1 DEF Stream
  <2>4. {"status", "buf", "bpos", "maxsize", "bm", "ndirty", "off", "inl", "data", "eof"}
          \subseteq DOMAIN o \ {"state"}
    BY <1>1, Fields
  <2>5. /\ w.status = "open" /\ w.buf = o.buf /\ w.bpos = o.bpos /\ w.maxsize = o.maxsize
        /\ w.bm = o.bm /\ w.ndirty = o.ndirty /\ w.off = o.off /\ w.inl = o.inl
        /\ w.data = o.data /\ w.eof = o.eof
    BY <1>2, <2>3, <2>4
  <2> HIDE DEF w
  <2>6. Good(w)
    BY <1>1, <2>3, <2>5, GoodKept
  <2>7. Shape(w)
    <3>1. CASE o.state = "rd"
      <4>1. o.ndirty = 0 /\ Len(o.buf) = 0 /\ o.bpos = 0
        BY <1>1, <1>6, <2>2, <3>1, EmptyBytes DEF Shape
      <4>2. QED
        BY <1>1, <2>3, <2>5, <4>1 DEF Shape
    <3>2. CASE o.state = "wr"
      BY <1>1, <2>3, <2>5, <3>2 DEF Shape
    <3>3. QED
      BY <1>2, <3>1, <3>2
  <2>8. View(w) /\ Contents(w) = Contents(o) /\ Pos(w) = Pos(o)
    <3>1. w.state = o.state \/ o.buf = <<>>
      BY <1>2, <2>2, <2>3
    <3>2. QED
      BY <1>0, <1>1, <1>3, <2>3, <2>5, <2>6, <2>7, <3>1, SameView
  <2>9. PICK nw \in Flushed(o) :
          LET f == Flush(w, nw) IN
          \/ /\ Len(d) > MostOf(f.maxsize)
             /\ \E nd \in Accepted(Len(d)) :
                  s' = KernelWrite(f, First(d, nd)) /\ Did("write", 0, d, nd)
          \/ /\ Len(d) <= MostOf(f.maxsize) /\ Len(d) <= Space(f)
             /\ \E j \in LineEnds(d) :
                  \E nl \in Flushed(Put(f, First(d, j))) :
                    s' = BufferedWrite(f, d, j, nl) /\ Did("write", 0, d, Len(d))
          \/ /\ Len(d) <= MostOf(f.maxsize) /\ Len(d) > Space(f)
             /\ s' = [f EXCEPT !.status = "hung"]
             /\ Did("write", 0, d, 0)
    BY <1>8 DEF WriteThrough, o, w
  <2> DEFINE f == Flush(w, nw)
  <2>10. /\ f \in Stream /\ Good(f) /\ Shape(f) /\ View(f) /\ f.ndirty = 0
         /\ f.status = "open" /\ f.state = "wr" /\ f.buf = <<>> /\ f.bpos = 0
         /\ f.maxsize = o.maxsize /\ f.bm = o.bm /\ f.eof = o.eof
         /\ Contents(f) = Contents(o) /\ Pos(f) = Pos(o) /\ f.data = Contents(f)
    <3>1. nw \in Flushed(w)
      BY <2>5 DEF Flushed
    <3>2. /\ f \in Stream /\ Good(f) /\ Shape(f) /\ View(f) /\ f.ndirty = 0
          /\ \A x \in Kept : f[x] = w[x]
          /\ f.data = Contents(w) /\ Contents(f) = Contents(w) /\ Pos(f) = Pos(w)
          /\ f.buf = IF w.state = "wr" THEN <<>> ELSE w.buf
          /\ f.bpos = IF w.state = "wr" THEN 0 ELSE w.bpos
      BY <1>0, <2>3, <2>6, <2>7, <2>8, <3>1, FlushWhole DEF View
    <3> HIDE DEF f
    <3>3. /\ f.state = w.state /\ f.maxsize = w.maxsize /\ f.status = w.status
          /\ f.bm = w.bm /\ f.eof = w.eof
      BY <3>2 DEF Kept
    <3>4. QED
      BY <2>3, <2>5, <2>8, <3>2, <3>3
  <2> HIDE DEF f
  <2>11. MostOf(f.maxsize) <= Space(f) /\ MostOf(f.maxsize) \in Int /\ Space(f) \in Int
    <3>1. Space(f) = f.maxsize /\ f.maxsize \in Nat
      BY <1>6, <2>10 DEF Space
    <3>2. MostDiv \in Nat \ {0}
      BY IosAssumption
    <3>3. f.maxsize \div MostDiv \in Int
      BY <3>1, <3>2
    <3>4. MostOf(f.maxsize) \in Int
      BY <3>1, <3>3 DEF MostOf
    <3>5. QED
      BY <3>1, <3>4, MostFits
  <2>12. CASE \E nd \in Accepted(Len(d)) :
               s' = KernelWrite(f, First(d, nd)) /\ Did("write", 0, d, nd)
    <3>1. PICK nd \in Accepted(Len(d)) :
            s' = KernelWrite(f, First(d, nd)) /\ Did("write", 0, d, nd)
      BY <2>12
    <3>2. nd = Len(d)
      BY <1>0, <3>1, AllAccepted
    <3>3. First(d, nd) = d
      BY <3>2, FirstAll
    <3>4. s' = KernelWrite(f, d) /\ Did("write", 0, d, Len(d))
      BY <3>1, <3>2, <3>3
    <3>5. /\ s'.data = Overlay(f.data, f.off, d) /\ s'.off = f.off + Len(d)
          /\ \A x \in DOMAIN f \ {"off", "data"} : s'[x] = f[x]
      BY <2>10, <3>4, KernelWriteIs
    <3>6. {"state", "buf", "bpos", "ndirty", "bm", "eof"} \subseteq DOMAIN f \ {"off", "data"}
      BY <2>10, Fields
    <3>7. /\ s'.state = "wr" /\ s'.buf = <<>> /\ s'.bpos = 0 /\ s'.ndirty = 0
          /\ s'.bm = f.bm /\ s'.eof = f.eof
      BY <2>10, <3>5, <3>6
    <3>8. View(s')
      BY <3>7, EmptyBytes DEF View, Unheld, Clean, Lines
    <3>9. Pos(f) = f.off /\ f.off \in Nat
      <4>1. f.off \in Nat
        BY <2>10, Fields
      <4>2. QED
        BY <1>0, <2>10, <4>1 DEF Pos
    <3>10. Pos(s') = f.off + Len(d)
      BY <1>0, <3>5, <3>7, <3>9 DEF Pos
    <3>11. Contents(s') = Overlay(f.data, f.off, d)
      BY <1>0, <3>5, <3>7 DEF Contents
    <3>12. Wrote(o, s', d)
      BY <2>10, <3>7, <3>9, <3>10, <3>11 DEF Wrote
    <3>13. QED
      BY <1>a, <3>4, <3>8, <3>12
  <2>13. CASE /\ Len(d) <= Space(f)
              /\ \E j \in LineEnds(d) :
                   \E nl \in Flushed(Put(f, First(d, j))) :
                     s' = BufferedWrite(f, d, j, nl) /\ Did("write", 0, d, Len(d))
    <3>1. PICK j \in LineEnds(d) :
            \E nl \in Flushed(Put(f, First(d, j))) :
              s' = BufferedWrite(f, d, j, nl) /\ Did("write", 0, d, Len(d))
      BY <2>13
    <3>2. f.bpos + Len(d) <= f.maxsize /\ f.state # "rd" /\ f.state # "none"
      BY <1>0, <2>10, <2>13, SpaceFits
    <3>3. LineMode => f.bm = "line"
      BY <1>0, <1>2, <2>10
    <3>4. View(s') /\ Wrote(f, s', d)
      BY <1>0, <1>8, <1>b, <2>10, <3>1, <3>2, <3>3, BufferedWriteWhole
    <3>5. Wrote(o, s', d)
      BY <2>10, <3>4 DEF Wrote
    <3>6. QED
      BY <1>a, <3>1, <3>4, <3>5
  <2>14. QED
    <3>1. ~(Len(d) <= MostOf(f.maxsize) /\ Len(d) > Space(f))
      BY <1>0, <2>11
    <3>2. QED
      BY <2>9, <2>12, <2>13, <3>1 DEF f
<1>9. QED
  BY <1>4, <1>5, <1>7, <1>8 DEF Writing

\* ios_putc and ios_vprintf, where they fill the buffer themselves.
LEMMA PutDirectlyWhole ==
  ASSUME IInv, SInv, Plain, View(s), s.bm \in Modes \cup {Mode}, s.status = "open", HasRoom,
         NEW d \in Seq(Byte), s.bpos + Len(d) <= s.maxsize, PutDirectly(s, d)
  PROVE  View(s') /\ Wrote(s, s', d) /\ Did("write", 0, d, Len(d))
<1>0. /\ s \in Stream /\ Good(s) /\ Shape(s) /\ s.state = "wr" /\ ~InMemory /\ ~IoErrors
      /\ LineMode => s.bm = "line"
  BY Known, Buffers DEF SInv, HasRoom, Plain
<1>1. Len(d) \in Nat /\ s.bpos + Len(d) <= s.maxsize
  BY LenProperties
<1> DEFINE p == Put(s, d)
<1>2. /\ p \in Stream /\ Good(p) /\ Shape(p) /\ Clean(p)
      /\ Contents(p) = Overlay(Contents(s), Pos(s), d) /\ Pos(p) = Pos(s) + Len(d)
      /\ \A f \in Kept \cup {"data", "off"} : p[f] = s[f]
      /\ Lines(s) /\ (LineMode => \A i \in 1..Len(d) : d[i] # Newline) => Lines(p)
  BY <1>0, <1>1, PutWhole DEF View
<1>3. p.eof = s.eof /\ p.bm = s.bm
  BY <1>2 DEF Kept
<1>4. CASE s.bm = "line" /\ \E i \in 1..Len(d) : d[i] = Newline
  <2>1. PICK nw \in Flushed(p) : s' = Flush(p, nw)
    BY <1>4 DEF PutDirectly
  <2> HIDE DEF p
  <2>2. /\ View(s') /\ \A f \in Kept : s'[f] = p[f]
        /\ Contents(s') = Contents(p) /\ Pos(s') = Pos(p)
    BY <1>0, <1>2, <2>1, FlushWhole
  <2>3. s'.eof = p.eof /\ s'.bm = p.bm
    BY <2>2 DEF Kept
  <2>4. QED
    BY <1>2, <1>3, <2>2, <2>3 DEF Wrote, PutDirectly
<1>5. CASE ~(s.bm = "line" /\ \E i \in 1..Len(d) : d[i] = Newline)
  <2>1. s' = p
    BY <1>5 DEF PutDirectly
  <2> HIDE DEF p
  <2>2. Lines(p)
    BY <1>0, <1>2, <1>5 DEF View
  <2>3. QED
    BY <1>2, <1>3, <2>1, <2>2 DEF View, Unheld, Wrote, PutDirectly, HasRoom
<1>6. QED
  BY <1>4, <1>5

(***************************************************************************)
(* The invariant: the view, that end of file is the end, that the byte     *)
(* just read stands before the position, where an ungetc puts it back, and *)
(* that the mode is one the client asked for.                              *)
(***************************************************************************)
Remembered ==
  call.op = "getc" /\ call.bytes # <<>> =>
    /\ Pos(s) \in 1..Len(Contents(s)) /\ Contents(s)[Pos(s)] = call.bytes[1]
    /\ s.bpos = 0 => s.buf = <<>>

VInv == View(s) /\ EofIsEnd /\ Remembered /\ s.bm \in Modes \cup {Mode}

LEMMA Seen ==
  ASSUME View(s'), s'.eof => Pos(s') >= Len(Contents(s')), s'.bm \in Modes \cup {Mode},
         call'.op # "getc"
  PROVE  VInv'
BY DEF VInv, EofIsEnd, Remembered

\* What a step may rely on: the invariants proved so far, before and after it.
Sound == IInv /\ SInv /\ VInv /\ Plain /\ IInv' /\ SInv'

LEMMA Basics ==
  ASSUME Sound
  PROVE  /\ ~InMemory /\ ~IoErrors
         /\ s \in Stream /\ Good(s) /\ Shape(s) /\ View(s) /\ Clean(s)
         /\ s' \in Stream /\ Good(s') /\ Shape(s')
         /\ s.buf \in Seq(Byte) /\ Len(s.buf) \in Nat /\ s.data \in Seq(Byte) /\ Len(s.data) \in Nat
         /\ s.bpos \in 0..Len(s.buf) /\ s.bpos \in Nat /\ s.off \in Nat
         /\ s.ndirty \in 0..Len(s.buf) /\ s.ndirty \in Nat /\ BufferAt(s) \in Nat
         /\ s.state \in {"none", "rd", "wr"} /\ s.eof \in BOOLEAN
         /\ Pos(s) \in Nat /\ Pos(s) = BufferAt(s) + s.bpos
         /\ Avail(s) \in Nat /\ Avail(s) = Len(s.buf) - s.bpos
         /\ Contents(s) \in Seq(Byte) /\ Len(Contents(s)) \in Nat
         /\ s.eof => Pos(s) >= Len(Contents(s))
         /\ s.bm \in Modes \cup {Mode}
<1>1. s \in Stream /\ Good(s) /\ s' \in Stream /\ Good(s')
  BY DEF Sound, IInv, TypeOK, Good
<1>2. Shape(s) /\ Shape(s') /\ View(s) /\ Clean(s) /\ ~InMemory /\ ~IoErrors
  BY DEF Sound, SInv, VInv, View, Plain, Shape
<1>3. s.state \in {"none", "rd", "wr"} /\ s.eof \in BOOLEAN
  BY <1>1 DEF Stream
<1>4. /\ s.buf \in Seq(Byte) /\ Len(s.buf) \in Nat /\ s.data \in Seq(Byte) /\ Len(s.data) \in Nat
      /\ s.bpos \in 0..Len(s.buf) /\ s.ndirty \in 0..Len(s.buf) /\ s.off \in Nat
      /\ BufferAt(s) \in Nat
      /\ Pos(s) \in Nat /\ Pos(s) = BufferAt(s) + s.bpos
      /\ Avail(s) \in Nat /\ Avail(s) = Len(s.buf) - s.bpos
  BY <1>1, <1>2, Places
<1>5. Contents(s) \in Seq(Byte) /\ Len(Contents(s)) \in Nat
  BY <1>1, <1>2, Window
<1>6. QED
  BY <1>1, <1>2, <1>3, <1>4, <1>5 DEF Sound, VInv, EofIsEnd

\* Calls that a client cannot see.
LEMMA QuietSeen ==
  ASSUME Sound, View(s'), Contents(s') = Contents(s), Pos(s') = Pos(s),
         s'.eof => s.eof, s'.bm \in Modes \cup {Mode},
         call'.op \in {"flush", "prep", "setbuf", "bufmode", "readonly", "refused"}
  PROVE  VInv' /\ PStep
<1>1. VInv'
  BY Basics, Seen
<1>2. QED
  BY <1>1, QuietPromise

LEMMA RefusedSeen ==
  ASSUME Sound, UNCHANGED s, call'.op = "refused"
  PROVE  VInv' /\ PStep
BY Basics, QuietSeen

LEMMA WriteSeen ==
  ASSUME Sound, NEW d \in Seq(Byte), View(s'), Wrote(s, s', d), Did("write", 0, d, Len(d))
  PROVE  VInv' /\ PStep
<1>0. Len(d) \in Nat
  BY LenProperties
<1>1. /\ Contents(s') = Overlay(Contents(s), Pos(s), d) /\ Pos(s') = Pos(s) + Len(d)
      /\ s'.eof = s.eof /\ s'.bm = s.bm
  BY DEF Wrote
<1>2. ~InMemory /\ Contents(s) \in Seq(Byte) /\ Pos(s) \in Nat /\ Len(Contents(s)) \in Nat
  BY Basics
<1>3. /\ Len(Contents(s')) \in Nat
      /\ Len(Contents(s')) <= Max2(Len(Contents(s)), Pos(s) + Len(d))
  BY <1>1, <1>2, OverlayShows
<1>4. s'.eof => Pos(s') >= Len(Contents(s'))
  <2>1. ASSUME s'.eof PROVE Pos(s) >= Len(Contents(s))
    BY <1>1, <2>1, Basics
  <2>2. QED
    BY <1>0, <1>1, <1>2, <1>3, <2>1 DEF Max2
<1>5. call'.op # "getc"
  BY DEF Did
<1>6. VInv'
  BY <1>1, <1>4, <1>5, Basics, Seen
<1>7. First(d, Len(d)) = d
  BY FirstAll
<1>8. PStep
  BY <1>0, <1>1, <1>7, WritePromise
<1>9. QED
  BY <1>6, <1>8

(***************************************************************************)
(* Reading.                                                                *)
(***************************************************************************)

\* Only the position moved, inside the buffer.
LEMMA MovedIn ==
  ASSUME ~InMemory, NEW t \in Stream, Good(t), Shape(t), View(t),
         NEW u \in Stream, Good(u), Shape(u),
         u.buf = t.buf, u.ndirty = t.ndirty, u.off = t.off, u.data = t.data, u.state = t.state,
         u.bm = t.bm
  PROVE  View(u) /\ Contents(u) = Contents(t) /\ Pos(u) = Pos(t) + u.bpos - t.bpos
<1>1. View(u) /\ Contents(u) = Contents(t) /\ BufferAt(u) = BufferAt(t)
  BY DEF View, Unheld, Clean, Lines, BufferAt, Contents
<1>2. /\ Pos(u) = BufferAt(u) + u.bpos /\ Pos(t) = BufferAt(t) + t.bpos
      /\ BufferAt(t) \in Nat
  BY Places
<1>3. u.bpos \in Nat /\ t.bpos \in Nat
  BY Fields
<1>4. QED
  BY <1>1, <1>2, <1>3

\* K bytes were got, from the position on.
LEMMA GotSeen ==
  ASSUME Sound, NEW op \in {"read", "readall", "getc"}, NEW n \in Nat \ {0},
         op = "getc" => n = 1,
         NEW k \in Nat, k <= n, k <= Max2(0, Len(Contents(s)) - Pos(s)),
         k < n => \/ k = Max2(0, Len(Contents(s)) - Pos(s))
                  \/ op = "read" /\ k > 0,
         Got(op, n, Slice(Contents(s), Pos(s), k)),
         View(s'), Contents(s') = Contents(s), Pos(s') = Pos(s) + k, s'.bm = s.bm,
         s'.eof => Pos(s) + k >= Len(Contents(s)),
         op = "getc" /\ k > 0 /\ s'.bpos = 0 => s'.buf = <<>>
  PROVE  VInv' /\ PStep
<1> DEFINE C == Contents(s)
           P == Pos(s)
<1>0. C \in Seq(Byte) /\ Len(C) \in Nat /\ P \in Nat /\ s.bm \in Modes \cup {Mode}
  BY Basics
<1>1. k > 0 => P + k <= Len(C)
  BY <1>0 DEF Max2
<1>2. /\ Slice(C, P, k) \in Seq(Byte) /\ Len(Slice(C, P, k)) = k
      /\ \A i \in 1..k : Slice(C, P, k)[i] = C[P + i]
  <2> HIDE DEF C, P
  <2>1. QED
    BY <1>0, <1>1, SliceBytes
<1>3. PStep
  BY <1>0, <1>2, ReadPromise
<1>4. call'.bytes = Slice(C, P, k) /\ call'.op = op
  BY DEF Got, Did
<1>5. Remembered'
  <2> SUFFICES ASSUME call'.op = "getc", call'.bytes # <<>>
               PROVE  /\ Pos(s') \in 1..Len(Contents(s'))
                      /\ Contents(s')[Pos(s')] = call'.bytes[1]
                      /\ s'.bpos = 0 => s'.buf = <<>>
    BY DEF Remembered
  <2>1. k # 0
    BY <1>2, <1>4, EmptyByLength
  <2>2. k = 1
    BY <1>4, <2>1
  <2>3. Slice(C, P, k)[1] = C[P + 1]
    BY <1>2, <2>2
  <2>4. P + 1 \in 1..Len(C)
    BY <1>0, <1>1, <2>2
  <2>5. QED
    BY <1>4, <2>2, <2>3, <2>4
<1>6. EofIsEnd'
  BY DEF EofIsEnd
<1>7. QED
  BY <1>0, <1>3, <1>5, <1>6 DEF VInv

\* A read is a Got of the bytes that it gave.
LEMMA ReadingGot ==
  ASSUME NEW op, NEW n, Reading(op, n)
  PROVE  Got(op, n, call'.bytes)
<1>1. \E x : Got(op, n, x)
  <2>1. ReadBuffered(op, n) => \E x : Got(op, n, x)
    BY Zenon DEF ReadBuffered
  <2>2. ReadRest(op, n) => \E x : Got(op, n, x)
    BY Zenon DEF ReadRest
  <2>3. ReadDirect(op, n) => \E x : Got(op, n, x)
    BY Zenon DEF ReadDirect
  <2>4. ReadRefill(op, n) => \E x : Got(op, n, x)
    BY Zenon DEF ReadRefill
  <2>5. QED
    BY <2>1, <2>2, <2>3, <2>4, Zenon DEF Reading
<1>2. PICK x : Got(op, n, x)
  BY <1>1
<1>3. call'.bytes = x
  BY <1>2 DEF Got, Did
<1>4. QED
  BY <1>2, <1>3

\* Nothing is buffered, or the stream is being read: the buffer ends at the offset.
LEMMA ReadingPlace ==
  ASSUME Sound, s.state = "wr" => s.buf = <<>>
  PROVE  /\ Pos(s) + Avail(s) = s.off
         /\ Avail(s) > 0 => s.state = "rd" /\ s.off <= Len(s.data)
         /\ Avail(s) > 0 => s.off <= Len(Contents(s))
         /\ After(s.buf, s.bpos) = Slice(Contents(s), Pos(s), Avail(s))
<1>0. /\ s \in Stream /\ Good(s) /\ Shape(s) /\ Clean(s) /\ ~InMemory
      /\ s.buf \in Seq(Byte) /\ Len(s.buf) \in Nat
      /\ s.bpos \in 0..Len(s.buf) /\ s.off \in Nat /\ BufferAt(s) \in Nat
      /\ s.state \in {"none", "rd", "wr"}
      /\ Pos(s) = BufferAt(s) + s.bpos /\ Avail(s) \in Nat /\ Avail(s) = Len(s.buf) - s.bpos
  BY Basics
<1>1. /\ s.state = "rd" => BufferAt(s) + Len(s.buf) = s.off
      /\ s.state # "rd" => BufferAt(s) = s.off
  BY <1>0, Places
<1>2. s.state # "rd" => Len(s.buf) = 0
  BY <1>0, EmptyBytes DEF Shape
<1>3. Pos(s) + Avail(s) = s.off
  BY <1>0, <1>1, <1>2
<1>4. Avail(s) > 0 => s.state = "rd" /\ s.off <= Len(s.data)
  <2>1. Avail(s) > 0 => s.state = "rd" /\ s.buf # <<>>
    BY <1>0, <1>2, EmptyBytes
  <2>2. QED
    BY <1>0, <2>1 DEF Clean
<1>5. /\ Len(s.data) <= Len(Contents(s)) /\ Len(s.data) \in Nat /\ Len(Contents(s)) \in Nat
      /\ \A n \in 0..Avail(s) : Slice(s.buf, s.bpos, n) = Slice(Contents(s), Pos(s), n)
  BY <1>0, Window, Fields
<1>6. After(s.buf, s.bpos) = Slice(s.buf, s.bpos, Avail(s))
  BY <1>0, AfterIsSlice
<1>7. Avail(s) \in 0..Avail(s)
  BY <1>0
<1>8. QED
  BY <1>0, <1>3, <1>4, <1>5, <1>6, <1>7

\* A refill: a bytes are left in the buffer, which ends at off, k more are read for the
\* caller and g beyond them.  Where the new buffer stands, and what the two pieces that
\* the caller gets make together.
RefillGives(c, p, a, off, k, b, g) ==
  /\ off + k - b \in Nat /\ b + g \in Nat
  /\ k + g > 0 => off + k + g <= Len(c)
  /\ a + k <= Max2(0, Len(c) - p)
  /\ k = Max2(0, Len(c) - off) => a + k = Max2(0, Len(c) - p) /\ p + (a + k) >= Len(c)
  /\ p >= Len(c) => p + (a + k) >= Len(c)
  /\ Slice(c, off + k - b, b + g) \in Seq(Byte)
  /\ Len(Slice(c, off + k - b, b + g)) = b + g
  /\ \A i \in 1..(b + g) : Slice(c, off + k - b, b + g)[i] = c[off + k - b + i]
  /\ Slice(c, p, a) \o Slice(c, off, k) = Slice(c, p, a + k)

CanRefill(c, p, a, off, k, b, g) ==
  /\ p + a = off /\ (a > 0 => off <= Len(c)) /\ b <= k
  /\ k + g <= Max2(0, Len(c) - off) /\ (b = 0 => g = 0)

LEMMA StaysBelow ==
  ASSUME NEW o \in Nat, NEW k \in Nat, NEW b \in Nat, NEW g \in Nat, NEW i \in Nat,
         NEW l \in Nat, o + k + g <= l, i <= b + g
  PROVE  o + k - b + i <= l
OBVIOUS

LEMMA Refill ==
  ASSUME NEW c \in Seq(Byte), NEW p \in Nat, NEW a \in Nat, NEW off \in Nat,
         NEW k \in Nat, NEW b \in Nat, NEW g \in Nat, CanRefill(c, p, a, off, k, b, g)
  PROVE  RefillGives(c, p, a, off, k, b, g)
<1> DEFINE l == Len(c)
<1>0. l \in Nat
  BY LenProperties
<1>1. /\ p + a = off /\ (a > 0 => off <= l) /\ b <= k
      /\ k + g <= Max2(0, l - off) /\ (b = 0 => g = 0)
  BY DEF CanRefill
<1> HIDE DEF l
<1>2. /\ off + k - b \in Nat /\ b + g \in Nat
      /\ k + g > 0 => off + k + g <= l
      /\ b + g > 0 => (off + k - b) + (b + g) <= l
      /\ a + k > 0 => p + a + k <= l
      /\ a + k <= Max2(0, l - p)
      /\ k = Max2(0, l - off) => a + k = Max2(0, l - p) /\ p + (a + k) >= l
      /\ p >= l => p + (a + k) >= l
  <2>1. off + k - b \in Nat /\ b + g \in Nat
    BY <1>1
  <2>2. k + g > 0 => off + k + g <= l
    BY <1>0, <1>1 DEF Max2
  <2>3. b + g > 0 => k + g > 0
    BY <1>1
  <2>4. b + g > 0 => (off + k - b) + (b + g) <= l
    BY <1>0, <2>2, <2>3
  <2>5. a + k > 0 => p + a + k <= l
    BY <1>0, <1>1, <2>2
  <2>6. a + k <= Max2(0, l - p)
    BY <1>0, <2>5 DEF Max2
  <2>7. CASE l >= off
    <3>1. Max2(0, l - off) = l - off /\ Max2(0, l - p) = l - p
      BY <1>0, <1>1, <2>7 DEF Max2
    <3>2. QED
      BY <1>0, <1>1, <2>1, <2>2, <2>4, <2>5, <2>6, <3>1
  <2>8. CASE l < off
    <3>1. a = 0 /\ k = 0
      BY <1>0, <1>1, <2>2, <2>8
    <3>2. QED
      BY <1>0, <1>1, <2>1, <2>2, <2>4, <2>5, <2>6, <2>8, <3>1 DEF Max2
  <2>9. QED
    BY <1>0, <2>7, <2>8
<1>3. /\ Slice(c, off + k - b, b + g) \in Seq(Byte)
      /\ Len(Slice(c, off + k - b, b + g)) = b + g
      /\ \A i \in 1..(b + g) : Slice(c, off + k - b, b + g)[i] = c[off + k - b + i]
  <2> DEFINE at == off + k - b
             m  == b + g
  <2>1. at \in Nat /\ m \in Nat /\ Within(c, at, m)
    BY <1>2 DEF l, Within
  <2> HIDE DEF at, m
  <2>2. IsSlice(Slice(c, at, m), c, at, m)
    BY <2>1, SliceIs
  <2>3. QED
    BY <2>2 DEF IsSlice, at, m
<1>4. Slice(c, p, a) \o Slice(c, p + a, k) = Slice(c, p, a + k)
  <2>1. a + k > 0 => p + a + k <= Len(c)
    BY <1>2 DEF l
  <2>2. QED
    BY <2>1, SliceJoin, ZenonT(60)
<1>5. Slice(c, p, a) \o Slice(c, off, k) = Slice(c, p, a + k)
  BY <1>1, <1>4
<1>6. QED
  BY <1>2, <1>3, <1>5 DEF RefillGives, l

LEMMA FromFileSeen ==
  ASSUME Sound, s.state = "wr" => s.buf = <<>>,
         NEW op \in {"read", "readall", "getc"}, NEW n \in Nat \ {0}, op = "getc" => n = 1,
         Got(op, n, call'.bytes),
         NEW nw \in Flushed(s), NEW k \in Nat, NEW b \in Nat, NEW g \in Nat,
         FromFile(op, n, nw, k, b, g)
  PROVE  VInv' /\ PStep
<1> DEFINE C == Contents(s)
           P == Pos(s)
           a == Avail(s)
<1>0. /\ ~InMemory /\ ~IoErrors /\ s \in Stream /\ Good(s) /\ Shape(s)
      /\ s' \in Stream /\ Good(s') /\ Shape(s')
      /\ s.off \in Nat /\ P \in Nat /\ a \in Nat
      /\ C \in Seq(Byte) /\ Len(C) \in Nat
      /\ s.eof => P >= Len(C)
  BY Basics
<1>1. /\ P + a = s.off /\ (a > 0 => s.off <= Len(C))
      /\ After(s.buf, s.bpos) = Slice(C, P, a)
  BY ReadingPlace
<1>2. s'.data = C
  <2>1. nw = s.ndirty
    BY <1>0, AllAccepted, Fields DEF Flushed
  <2>2. s'.data = Overlay(s.data, BufferAt(s), First(s.buf, s.ndirty))
    BY <2>1 DEF FromFile
  <2>3. QED
    BY <1>0, <2>2, ContentsAre
<1>3. /\ n > a /\ k <= n - a /\ k + g <= Max2(0, Len(C) - s.off) /\ b <= k
      /\ b = 0 => g = 0
      /\ k < n - a => \/ k = Max2(0, Len(C) - s.off)
                      \/ op = "read" /\ k > 0
      /\ s'.state = "rd" /\ s'.ndirty = 0 /\ s'.off = s.off + k + g
      /\ s'.buf = Slice(C, s.off + k - b, b + g) /\ s'.bpos = b
      /\ s'.eof => s.eof \/ k = Max2(0, Len(C) - s.off)
      /\ s'.bm = s.bm
      /\ call'.bytes = Slice(C, P, a) \o Slice(C, s.off, k)
  BY <1>0, <1>1, <1>2 DEF FromFile
<1> HIDE DEF C, P, a
<1>4. RefillGives(C, P, a, s.off, k, b, g)
  <2>1. CanRefill(C, P, a, s.off, k, b, g)
    BY <1>1, <1>3 DEF CanRefill
  <2>2. QED
    BY <1>0, <2>1, Refill
<1>5. /\ s'.off = s.off + k + g /\ s.off + k - b \in Nat /\ b + g \in Nat
      /\ k + g > 0 => s.off + k + g <= Len(C)
  BY <1>3, <1>4 DEF RefillGives
<1>6. /\ s'.buf \in Seq(Byte) /\ Len(s'.buf) = b + g
      /\ \A i \in 1..(b + g) : s'.buf[i] = C[s.off + k - b + i]
  BY <1>3, <1>4 DEF RefillGives
<1>7. BufferAt(s') = s.off + k - b
  <2>1. BufferAt(s') = s'.off - Len(s'.buf)
    BY <1>3 DEF BufferAt
  <2>2. QED
    BY <1>0, <1>5, <1>6, <2>1
<1>8. View(s')
  <2>1. s'.buf # <<>> => s'.off <= Len(s'.data)
    <3>1. ASSUME s'.buf # <<>> PROVE s'.off <= Len(C)
      <4>1. b + g # 0
        BY <1>6, <3>1, EmptyByLength
      <4>2. QED
        BY <1>3, <1>5, <4>1
    <3>2. QED
      BY <1>2, <3>1
  <2>2. \A i \in 1..Len(s'.buf) :
          BufferAt(s') + i <= Len(s'.data) /\ s'.buf[i] = s'.data[BufferAt(s') + i]
    <3> SUFFICES ASSUME NEW i \in 1..(b + g)
                 PROVE  s.off + k - b + i <= Len(C) /\ s'.buf[i] = C[s.off + k - b + i]
      BY <1>2, <1>6, <1>7
    <3>1. s'.buf[i] = C[s.off + k - b + i]
      BY <1>6
    <3>2. i \in Nat /\ i <= b + g /\ i >= 1
      BY <1>5
    <3>3. k + g > 0
      BY <1>3, <3>2
    <3>4. s.off + k - b + i <= Len(C)
      <4>1. s.off + k + g <= Len(C) /\ i \in Nat /\ i <= b + g
        BY <1>5, <3>2, <3>3
      <4>2. s.off \in Nat /\ Len(C) \in Nat
        BY <1>0, LenProperties
      <4>3. QED
        BY <4>1, <4>2, StaysBelow
    <3>5. QED
      BY <3>1, <3>4
  <2>3. Clean(s')
    BY <1>3, <2>1, <2>2 DEF Clean
  <2>4. Lines(s')
    BY <2>2 DEF Lines
  <2>5. s'.bm = "none" => s'.ndirty = 0
    BY <1>3
  <2>6. QED
    BY <2>3, <2>4, <2>5 DEF View, Unheld
<1>9. Contents(s') = C
  BY <1>0, <1>2, <1>3 DEF Contents
<1> DEFINE m == a + k
<1>10. m \in Nat /\ m <= n /\ (m < n => k < n - a) /\ (k > 0 => m > 0)
  BY <1>0, <1>3
<1>11. Pos(s') = P + m
  <2>1. Pos(s') = BufferAt(s') + s'.bpos
    BY <1>0, Places
  <2>2. QED
    BY <1>0, <1>1, <1>3, <1>7, <2>1
<1>12. /\ m <= Max2(0, Len(C) - P)
       /\ k = Max2(0, Len(C) - s.off) => m = Max2(0, Len(C) - P) /\ P + m >= Len(C)
       /\ P >= Len(C) => P + m >= Len(C)
  BY <1>4 DEF RefillGives
<1>13. call'.bytes = Slice(C, P, m)
  <2>1. Slice(C, P, a) \o Slice(C, s.off, k) = Slice(C, P, a + k)
    BY <1>4 DEF RefillGives
  <2>2. QED
    BY <1>3, <2>1
<1>14. m < n => m = Max2(0, Len(C) - P) \/ (op = "read" /\ m > 0)
  BY <1>3, <1>10, <1>12
<1>15. s'.eof => P + m >= Len(C)
  BY <1>0, <1>3, <1>12
<1>16. op = "getc" /\ m > 0 /\ s'.bpos = 0 => s'.buf = <<>>
  <2>1. s'.bpos = 0 => Len(s'.buf) = 0
    BY <1>3, <1>6
  <2>2. QED
    BY <1>6, <2>1, EmptyByLength
<1> HIDE DEF m
<1>17. Got(op, n, Slice(C, P, m))
  BY <1>13
<1>18. QED
  BY <1>3, <1>8, <1>9, <1>10, <1>11, <1>12, <1>14, <1>15, <1>16, <1>17, GotSeen DEF C, P

LEMMA FromBufferSeen ==
  ASSUME Sound, s.state = "wr" => s.buf = <<>>,
         NEW op \in {"read", "readall", "getc"}, NEW n \in Nat \ {0}, op = "getc" => n = 1,
         Got(op, n, call'.bytes), FromBuffer(n)
  PROVE  VInv' /\ PStep
<1>0. /\ ~InMemory /\ s \in Stream /\ Good(s) /\ Shape(s) /\ View(s) /\ Clean(s)
      /\ s' \in Stream /\ Good(s') /\ Shape(s')
      /\ Pos(s) \in Nat /\ Avail(s) \in Nat /\ s.bpos \in Nat
      /\ Len(Contents(s)) \in Nat
      /\ s.eof => Pos(s) >= Len(Contents(s))
  BY Basics
<1>1. {"state", "buf", "ndirty", "off", "data", "bm", "eof"} \subseteq DOMAIN s \ {"bpos"}
  BY <1>0, Fields
<1>2. /\ s'.state = s.state /\ s'.buf = s.buf /\ s'.ndirty = s.ndirty /\ s'.off = s.off
      /\ s'.data = s.data /\ s'.bm = s.bm /\ s'.eof = s.eof
      /\ s'.bpos = s.bpos + n /\ n <= Avail(s) /\ call'.bytes = Slice(s.buf, s.bpos, n)
  BY <1>1 DEF FromBuffer
<1>3. View(s') /\ Contents(s') = Contents(s) /\ Pos(s') = Pos(s) + s'.bpos - s.bpos
  BY <1>0, <1>2, MovedIn
<1>4. Pos(s') = Pos(s) + n
  BY <1>0, <1>2, <1>3
<1>5. call'.bytes = Slice(Contents(s), Pos(s), n)
  <2>1. \A m \in 0..Avail(s) : Slice(s.buf, s.bpos, m) = Slice(Contents(s), Pos(s), m)
    BY <1>0, Window
  <2>2. n \in 0..Avail(s)
    BY <1>0, <1>2
  <2>3. QED
    BY <1>2, <2>1, <2>2
<1>6. n <= Max2(0, Len(Contents(s)) - Pos(s))
  <2>1. Pos(s) + Avail(s) = s.off /\ (Avail(s) > 0 => s.off <= Len(Contents(s)))
    BY ReadingPlace
  <2>2. QED
    BY <1>0, <1>2, <2>1 DEF Max2
<1>7. s'.eof => Pos(s) + n >= Len(Contents(s))
  BY <1>0, <1>2
<1>8. s'.bpos # 0
  BY <1>0, <1>2
<1>9. n \in Nat /\ n <= n /\ ~(n < n) /\ Got(op, n, Slice(Contents(s), Pos(s), n))
  BY <1>5
<1>10. QED
  BY <1>2, <1>3, <1>4, <1>6, <1>7, <1>8, <1>9, GotSeen

LEMMA ReadSeen ==
  ASSUME Sound, s.state = "wr" => s.buf = <<>>,
         NEW op \in {"read", "readall", "getc"}, NEW n \in Nat \ {0}, op = "getc" => n = 1,
         Reading(op, n)
  PROVE  VInv' /\ PStep
<1>1. Got(op, n, call'.bytes)
  BY ReadingGot
<1>2. IInv /\ Shape(s) /\ ~InMemory
  BY Basics DEF Sound
<1>3. \/ FromBuffer(n)
      \/ \E nw \in Flushed(s), k \in Nat, b \in Nat, g \in Nat :
           FromFile(op, n, nw, k, b, g)
  BY <1>2, ReadIs
<1>4. QED
  BY <1>1, <1>3, FromBufferSeen, FromFileSeen

LEMMA GetcSeen ==
  ASSUME Sound, s.state = "wr" => s.buf = <<>>, ios_getc
  PROVE  VInv' /\ PStep
<1>1. CASE s.eof /\ ~(s.state = "rd" /\ Avail(s) > 0)
  <2>1. s' = s /\ Got("getc", 1, <<>>)
    BY <1>1 DEF ios_getc
  <2>2. /\ Contents(s) \in Seq(Byte) /\ Len(Contents(s)) \in Nat /\ Pos(s) \in Nat
        /\ Pos(s) >= Len(Contents(s)) /\ View(s)
    BY <1>1, Basics
  <2>3. Slice(Contents(s), Pos(s), 0) = <<>>
    BY <2>2, SliceNone
  <2>4. Max2(0, Len(Contents(s)) - Pos(s)) = 0
    BY <2>2 DEF Max2
  <2>5. Pos(s') = Pos(s) + 0 /\ View(s') /\ Contents(s') = Contents(s) /\ s'.bm = s.bm
        /\ Pos(s) + 0 >= Len(Contents(s))
    BY <2>1, <2>2
  <2>6. Got("getc", 1, Slice(Contents(s), Pos(s), 0))
    BY <2>1, <2>3
  <2>7. QED
    BY <2>4, <2>5, <2>6, GotSeen
<1>2. CASE ~(s.eof /\ ~(s.state = "rd" /\ Avail(s) > 0))
  <2>1. Reading("getc", 1)
    BY <1>2, Zenon DEF ios_getc
  <2>2. QED
    BY <2>1, ReadSeen
<1>3. QED
  BY <1>1, <1>2

\* What readprep makes of a buffer b that ends at off in the file c.
Ends(b, c, off) ==
  /\ Len(b) <= off /\ (b # <<>> => off <= Len(c))
  /\ \A i \in 1..Len(b) : b[i] = c[off - Len(b) + i]

Slid(r, b, c, off, lo, g) ==
  /\ Len(r) = Len(b) - lo + g
  /\ \A i \in 1..Len(r) : /\ off - Len(b) + lo + i <= Len(c)
                          /\ r[i] = c[off - Len(b) + lo + i]
  /\ r # <<>> => off + g <= Len(c)

LEMMA Prepping ==
  ASSUME NEW b \in Seq(Byte), NEW c \in Seq(Byte), NEW off \in Nat, NEW lo \in 0..Len(b),
         NEW g \in Nat, g <= Max2(0, Len(c) - off), Ends(b, c, off)
  PROVE  Slid(After(b, lo) \o Slice(c, off, g), b, c, off, lo, g)
<1> DEFINE x == After(b, lo)
           y == Slice(c, off, g)
           r == x \o y
<1>0. Len(b) \in Nat /\ Len(c) \in Nat /\ lo \in Nat /\ lo <= Len(b)
  BY LenProperties
<1>1. /\ x \in Seq(Byte) /\ Len(x) = Len(b) - lo
      /\ \A i \in 1..(Len(b) - lo) : x[i] = b[lo + i]
  BY <1>0, AfterBytes
<1>2. g > 0 => off + g <= Len(c)
  BY <1>0 DEF Max2
<1>3. y \in Seq(Byte) /\ Len(y) = g /\ \A i \in 1..g : y[i] = c[off + i]
  BY <1>2, SliceBytes
<1> HIDE DEF x, y
<1>c. /\ r \in Seq(Byte) /\ Len(r) = Len(x) + Len(y)
      /\ \A i \in 1..(Len(x) + Len(y)) : r[i] = IF i <= Len(x) THEN x[i] ELSE y[i - Len(x)]
  BY <1>1, <1>3, ConcatProperties
<1> HIDE DEF r
<1>4. /\ r \in Seq(Byte) /\ Len(r) = Len(b) - lo + g
      /\ \A i \in 1..Len(r) : r[i] = IF i <= Len(x) THEN x[i] ELSE y[i - Len(x)]
  BY <1>1, <1>3, <1>c
<1>e. /\ Len(b) <= off /\ (b # <<>> => off <= Len(c))
      /\ \A i \in 1..Len(b) : b[i] = c[off - Len(b) + i]
  BY DEF Ends
<1>5. \A i \in 1..Len(r) : off - Len(b) + lo + i <= Len(c) /\ r[i] = c[off - Len(b) + lo + i]
  <2> SUFFICES ASSUME NEW i \in 1..Len(r)
               PROVE  off - Len(b) + lo + i <= Len(c) /\ r[i] = c[off - Len(b) + lo + i]
    OBVIOUS
  <2>0. i \in Nat /\ i >= 1 /\ i <= Len(b) - lo + g
    BY <1>0, <1>4
  <2>1. CASE i <= Len(b) - lo
    <3>1. lo + i \in 1..Len(b) /\ i \in 1..(Len(b) - lo) /\ i <= Len(x)
      BY <1>0, <1>1, <2>0, <2>1
    <3>2. r[i] = x[i] /\ x[i] = b[lo + i]
      BY <1>1, <1>4, <3>1
    <3>3. b[lo + i] = c[off - Len(b) + (lo + i)]
      BY <1>e, <3>1
    <3>4. b # <<>>
      BY <1>0, <3>1, EmptyBytes
    <3>5. off - Len(b) + (lo + i) = off - Len(b) + lo + i /\ off - Len(b) + lo + i <= Len(c)
      BY <1>0, <1>e, <2>0, <3>1, <3>4
    <3>6. QED
      BY <3>2, <3>3, <3>5
  <2>2. CASE ~(i <= Len(b) - lo)
    <3> DEFINE j == i - (Len(b) - lo)
    <3>1. j \in 1..g /\ off + j = off - Len(b) + lo + i /\ g > 0
      BY <1>0, <2>0, <2>2
    <3>2. r[i] = y[j]
      BY <1>1, <1>4, <2>2
    <3> HIDE DEF j
    <3>3. y[j] = c[off + j] /\ off + j <= Len(c)
      BY <1>0, <1>2, <1>3, <3>1
    <3>4. QED
      BY <3>1, <3>2, <3>3
  <2>3. QED
    BY <2>1, <2>2
<1>6. r # <<>> => off + g <= Len(c)
  <2>1. ASSUME r # <<>>, g = 0 PROVE off + g <= Len(c)
    <3>1. Len(r) # 0
      BY <1>4, <2>1, EmptyByLength
    <3>2. b # <<>>
      BY <1>0, <1>4, <2>1, <3>1, EmptyBytes
    <3>3. QED
      BY <1>e, <2>1, <3>2
  <2>2. QED
    BY <1>2, <2>1
<1>7. QED
  BY <1>4, <1>5, <1>6 DEF Slid, r, x, y

LEMMA PreppedSeen ==
  ASSUME Sound, s.state = "wr" => s.buf = <<>>, s.ndirty = 0, NEW n, NEW lo \in 0..s.bpos,
         NEW g \in Nat, Prepped(n, lo, g)
  PROVE  /\ View(s') /\ Contents(s') = Contents(s) /\ Pos(s') = Pos(s)
         /\ s'.eof = s.eof /\ s'.bm = s.bm
         /\ Pos(s) <= s.off /\ Contents(s) = s.data
         /\ Pos(s) + Avail(s') = s.off + g
<1>0. /\ ~InMemory /\ s' \in Stream /\ Good(s') /\ Shape(s') /\ Clean(s)
      /\ s.buf \in Seq(Byte) /\ Len(s.buf) \in Nat /\ s.data \in Seq(Byte) /\ Len(s.data) \in Nat
      /\ s.bpos \in Nat /\ s.bpos <= Len(s.buf) /\ s.off \in Nat
      /\ s.state \in {"none", "rd", "wr"}
      /\ Pos(s) = BufferAt(s) + s.bpos /\ BufferAt(s) \in Nat
  BY Basics
<1>1. /\ s.state = "rd" => BufferAt(s) + Len(s.buf) = s.off
      /\ s.state # "rd" => BufferAt(s) = s.off
  BY Basics, Places
<1>2. s.state # "rd" => Len(s.buf) = 0
  BY <1>0, EmptyBytes, Basics DEF Shape
<1>3. BufferAt(s) = s.off - Len(s.buf) /\ Len(s.buf) <= s.off
  BY <1>0, <1>1, <1>2
<1>4. s.buf # <<>> => s.off <= Len(s.data)
  <2>1. s.buf # <<>> => s.state = "rd"
    BY <1>0, <1>2, EmptyByLength
  <2>2. QED
    BY <1>0, <2>1 DEF Clean
<1>5. \A i \in 1..Len(s.buf) : s.buf[i] = s.data[s.off - Len(s.buf) + i]
  <2> SUFFICES ASSUME NEW i \in 1..Len(s.buf)
               PROVE  s.buf[i] = s.data[s.off - Len(s.buf) + i]
    OBVIOUS
  <2>1. s.state = "rd"
    BY <1>0, <1>2
  <2>2. i \in (s.ndirty + 1)..Len(s.buf)
    OBVIOUS
  <2>3. QED
    BY <1>0, <1>3, <2>1, <2>2 DEF Clean
<1>6. /\ s'.state = "rd" /\ s'.ndirty = 0 /\ s'.data = s.data /\ s'.off = s.off + g
      /\ s'.eof = s.eof /\ s'.bm = s.bm
      /\ g <= Max2(0, Len(s.data) - s.off)
      /\ s'.buf = After(s.buf, lo) \o Slice(s.data, s.off, g)
      /\ s'.bpos = s.bpos - lo
  BY DEF Prepped
<1>7. Contents(s) = s.data /\ Contents(s') = s.data
  BY <1>0, <1>6 DEF Contents
<1>8. lo \in 0..Len(s.buf) /\ lo \in Nat
  BY <1>0
<1>9. /\ Len(s'.buf) = Len(s.buf) - lo + g
      /\ \A i \in 1..Len(s'.buf) : /\ s.off - Len(s.buf) + lo + i <= Len(s.data)
                                   /\ s'.buf[i] = s.data[s.off - Len(s.buf) + lo + i]
      /\ s'.buf # <<>> => s.off + g <= Len(s.data)
  <2>1. Ends(s.buf, s.data, s.off)
    BY <1>3, <1>4, <1>5 DEF Ends
  <2>2. Slid(s'.buf, s.buf, s.data, s.off, lo, g)
    BY <1>0, <1>6, <1>8, <2>1, Prepping
  <2>3. QED
    BY <2>2 DEF Slid
<1>10. BufferAt(s') = s.off - Len(s.buf) + lo
  <2>1. BufferAt(s') = s'.off - Len(s'.buf)
    BY <1>6 DEF BufferAt
  <2>2. QED
    BY <1>0, <1>6, <1>8, <1>9, <2>1
<1>11. \A i \in 1..Len(s'.buf) :
         BufferAt(s') + i <= Len(s'.data) /\ s'.buf[i] = s'.data[BufferAt(s') + i]
  BY <1>6, <1>9, <1>10
<1>12. View(s')
  <2>1. Clean(s')
    <3>1. s'.buf # <<>> => s'.off <= Len(s'.data)
      BY <1>6, <1>9
    <3>2. \A i \in (s'.ndirty + 1)..Len(s'.buf) : i \in 1..Len(s'.buf)
      BY <1>6
    <3>3. QED
      BY <1>11, <3>1, <3>2 DEF Clean
  <2>2. Lines(s')
    BY <1>11 DEF Lines
  <2>3. QED
    BY <1>6, <2>1, <2>2 DEF View, Unheld
<1>13. Pos(s') = Pos(s) /\ Avail(s') = Len(s.buf) + g - s.bpos
  <2>1. Pos(s') = BufferAt(s') + s'.bpos /\ Avail(s') = Len(s'.buf) - s'.bpos
    BY <1>0, Places
  <2>2. QED
    BY <1>0, <1>3, <1>6, <1>8, <1>9, <1>10, <2>1
<1>14. Pos(s) <= s.off /\ Pos(s) + Avail(s') = s.off + g
  <2>1. Pos(s) = s.off - Len(s.buf) + s.bpos
    BY <1>0, <1>3
  <2>2. Avail(s') = Len(s.buf) + g - s.bpos
    BY <1>13
  <2>3. /\ Len(s.buf) \in Nat /\ s.bpos \in Nat /\ s.off \in Nat /\ g \in Nat
        /\ s.bpos <= Len(s.buf)
    BY <1>0
  <2>4. Pos(s) <= s.off
    BY <2>1, <2>3
  <2>5. Pos(s) + Avail(s') = s.off + g
    BY <2>1, <2>2, <2>3
  <2>6. QED
    BY <2>4, <2>5
<1>15. QED
  BY <1>6, <1>7, <1>12, <1>13, <1>14

LEMMA PrepSeen ==
  ASSUME Sound, s.state = "wr" => s.buf = <<>>, s.ndirty = 0, NEW n \in Nat \ {0},
         Readprep(n), call'.op = "prep"
  PROVE  VInv' /\ PStep
<1>1. IInv /\ Shape(s) /\ ~InMemory
  BY Basics DEF Sound
<1>2. PICK lo \in 0..s.bpos, g \in Nat : Prepped(n, lo, g)
  BY <1>1, PrepIs
<1>3. /\ View(s') /\ Contents(s') = Contents(s) /\ Pos(s') = Pos(s)
      /\ s'.eof = s.eof /\ s'.bm = s.bm
  BY <1>2, PreppedSeen
<1>4. s'.bm \in Modes \cup {Mode} /\ (s'.eof => s.eof)
  BY <1>3, Basics
<1>5. QED
  BY <1>3, <1>4, QuietSeen

\* The byte behind the position, in a stream that has it buffered if there is one.
LEMMA PeekWhole ==
  ASSUME ~InMemory, NEW t \in Stream, Good(t), Shape(t), Clean(t),
         Avail(t) = 0 => Len(Contents(t)) <= Pos(t)
  PROVE  First(After(t.buf, t.bpos), Min2(1, Avail(t))) =
           Slice(Contents(t), Pos(t), Min2(Max2(0, Len(Contents(t)) - Pos(t)), 1))
<1>0. /\ t.buf \in Seq(Byte) /\ Len(t.buf) \in Nat /\ t.bpos \in 0..Len(t.buf)
      /\ Pos(t) = BufferAt(t) + t.bpos /\ Pos(t) \in Nat /\ BufferAt(t) \in Nat
      /\ Avail(t) = Len(t.buf) - t.bpos /\ Avail(t) \in Nat
  BY Places
<1>1. /\ Contents(t) \in Seq(Byte) /\ Len(Contents(t)) \in Nat
      /\ t.buf # <<>> => BufferAt(t) + Len(t.buf) <= Len(Contents(t))
      /\ \A n \in 0..Avail(t) :
           Slice(t.buf, t.bpos, n) = Slice(Contents(t), Pos(t), n)
  BY Window
<1>2. First(After(t.buf, t.bpos), Min2(1, Avail(t))) =
        Slice(t.buf, t.bpos, Min2(Max2(0, Avail(t)), 1))
  BY <1>0, PeekedIs
<1>3. CASE Avail(t) = 0
  <2>1. Min2(Max2(0, Avail(t)), 1) = 0 /\ Min2(Max2(0, Len(Contents(t)) - Pos(t)), 1) = 0
    BY <1>0, <1>1, <1>3 DEF Min2, Max2
  <2>2. 0 \in 0..Avail(t)
    BY <1>0
  <2>3. QED
    BY <1>1, <1>2, <2>1, <2>2
<1>4. CASE Avail(t) # 0
  <2>1. t.buf # <<>>
    BY <1>0, <1>4, EmptyBytes
  <2>2. BufferAt(t) + Len(t.buf) <= Len(Contents(t))
    BY <1>1, <2>1
  <2>3. Pos(t) + Avail(t) <= Len(Contents(t)) /\ 1 \in 0..Avail(t)
    BY <1>0, <1>4, <2>2
  <2>4. Min2(Max2(0, Avail(t)), 1) = 1
    BY <1>0, <1>4 DEF Min2, Max2
  <2>5. Min2(Max2(0, Len(Contents(t)) - Pos(t)), 1) = 1
    BY <1>0, <1>1, <1>4, <2>3, SMTT(20) DEF Min2, Max2
  <2>6. QED
    BY <1>1, <1>2, <2>3, <2>4, <2>5
<1>5. QED
  BY <1>3, <1>4

LEMMA PeekSeen ==
  ASSUME Sound, s.state = "wr" => s.buf = <<>>, s.ndirty = 0, ios_peekc
  PROVE  VInv' /\ PStep
<1>0. /\ IInv /\ ~InMemory /\ ~IoErrors /\ Shape(s) /\ s' \in Stream /\ Good(s') /\ Shape(s')
      /\ View(s) /\ Avail(s) \in Nat /\ s.off \in Nat /\ Pos(s) \in Nat
      /\ (s.eof => Pos(s) >= Len(Contents(s)))
      /\ s.bm \in Modes \cup {Mode}
  BY Basics DEF Sound
<1>1. call'.op = "peek"
      /\ call'.bytes = First(After(s'.buf, s'.bpos), Min2(1, Avail(s')))
  BY DEF ios_peekc, Got, Did
<1>2. /\ View(s') /\ Contents(s') = Contents(s) /\ Pos(s') = Pos(s)
      /\ s'.eof = s.eof /\ s'.bm = s.bm
      /\ Avail(s') = 0 => Len(Contents(s)) <= Pos(s)
  <2>1. CASE (Avail(s) > 0 \/ s.eof) /\ UNCHANGED s
    <3>1. s' = s
      BY <2>1
    <3>2. Avail(s) = 0 => s.eof
      BY <1>0, <2>1
    <3>3. QED
      BY <1>0, <3>1, <3>2
  <2>2. CASE ~(Avail(s) > 0 \/ s.eof) /\ Readprep(1)
    <3>1. 1 \in Nat \ {0} /\ Avail(s) = 0
      BY <1>0, <2>2
    <3>2. PICK lo \in 0..s.bpos, g \in Nat : Prepped(1, lo, g)
      BY <1>0, <2>2, <3>1, PrepIs
    <3>3. /\ View(s') /\ Contents(s') = Contents(s) /\ Pos(s') = Pos(s)
          /\ s'.eof = s.eof /\ s'.bm = s.bm
          /\ Contents(s) = s.data /\ Pos(s) + Avail(s') = s.off + g
      BY <3>2, PreppedSeen
    <3>4. Pos(s) + Avail(s) = s.off
      BY ReadingPlace
    <3>5. ASSUME Avail(s') = 0 PROVE Len(Contents(s)) <= Pos(s)
      <4>1. Pos(s) = s.off /\ g = 0
        BY <1>0, <3>1, <3>3, <3>4, <3>5
      <4>2. Len(s.data) <= s.off
        BY <1>0, <3>1, <3>2, <3>5, <4>1 DEF Prepped
      <4>3. QED
        BY <3>3, <4>1, <4>2
    <3>6. QED
      BY <3>3, <3>5
  <2>3. QED
    BY Zenon, <2>1, <2>2 DEF ios_peekc
<1>3. VInv'
  BY <1>0, <1>1, <1>2, Seen
<1>4. call'.bytes = Slice(Contents(s), Pos(s), Min2(Max2(0, Len(Contents(s)) - Pos(s)), 1))
  <2>1. Clean(s') /\ (Avail(s') = 0 => Len(Contents(s')) <= Pos(s'))
    BY <1>2 DEF View
  <2>2. call'.bytes =
          Slice(Contents(s'), Pos(s'), Min2(Max2(0, Len(Contents(s')) - Pos(s')), 1))
    BY <1>0, <1>1, <2>1, PeekWhole
  <2>3. QED
    BY <1>2, <2>2
<1>5. PStep
  BY <1>1, <1>2, <1>4, PeekPromise
<1>6. QED
  BY <1>3, <1>5

\* A byte replaced by itself.
LEMMA SameByte ==
  ASSUME NEW b \in Seq(Byte), NEW i \in 1..Len(b)
  PROVE  [b EXCEPT ![i] = b[i]] = b
<1>1. b \in [1..Len(b) -> Byte]
  OBVIOUS
<1>2. QED
  BY Zenon, <1>1

\* The byte just read is put back in front of the position, where it stood.
LEMMA UngetSeen ==
  ASSUME Sound, s.status = "open", ios_ungetc
  PROVE  VInv' /\ PStep
<1> DEFINE c == call.bytes[1]
<1>0. /\ ~InMemory /\ s \in Stream /\ Good(s) /\ Shape(s) /\ View(s) /\ Clean(s)
      /\ s' \in Stream /\ Good(s') /\ Shape(s')
      /\ s.buf \in Seq(Byte) /\ Len(s.buf) \in Nat /\ s.bpos \in Nat /\ s.off \in Nat
      /\ s.bpos <= Len(s.buf) /\ s.ndirty \in Nat /\ s.ndirty <= Len(s.buf)
      /\ Pos(s) = BufferAt(s) + s.bpos /\ BufferAt(s) \in Nat /\ Pos(s) \in Nat
      /\ Avail(s) = Len(s.buf) - s.bpos /\ Len(s.data) \in Nat
      /\ s.bm \in Modes \cup {Mode}
  BY Basics
<1>1. /\ call.op = "getc" /\ call.bytes # <<>>
      /\ Pos(s) \in 1..Len(Contents(s)) /\ Contents(s)[Pos(s)] = c
      /\ s.bpos = 0 => s.buf = <<>>
      /\ s.state = "rd"
  <2>1. call.op = "getc" /\ call.bytes # <<>>
    BY DEF ios_ungetc
  <2>2. s.state = "rd"
    BY <2>1 DEF Sound, SInv, Taken
  <2>3. QED
    BY <2>1, <2>2 DEF Sound, VInv, Remembered
<1>2. BufferAt(s) + Len(s.buf) = s.off
  BY <1>0, <1>1, Places
<1> HIDE DEF c
<1>3. CASE s.bpos > 0 /\ s' = [s EXCEPT !.bpos = @ - 1, !.buf[s.bpos] = c, !.eof = FALSE]
           /\ Did("unget", 0, <<>>, c)
  <2> DEFINE q == s.bpos - 1
             b == [s.buf EXCEPT ![s.bpos] = c]
  <2>1. s' = [s EXCEPT !.bpos = q, !.buf = b, !.eof = FALSE]
    BY <1>3
  <2>2. b = s.buf
    <3>1. s.bpos \in 1..Len(s.buf)
      BY <1>0, <1>3
    <3>2. s.buf[s.bpos] = Contents(s)[BufferAt(s) + s.bpos]
      BY <1>0, <3>1, Window
    <3>3. s.buf[s.bpos] = c
      BY <1>0, <1>1, <3>2
    <3>4. [s.buf EXCEPT ![s.bpos] = s.buf[s.bpos]] = s.buf
      BY <1>0, <3>1, SameByte
    <3>5. QED
      BY <3>3, <3>4
  <2>3. q = s.bpos - 1
    OBVIOUS
  <2> HIDE DEF q, b
  <2>4. /\ s'.bpos = q /\ s'.buf = b /\ s'.eof = FALSE
        /\ \A f \in DOMAIN s \ {"bpos", "buf", "eof"} : s'[f] = s[f]
    BY Zenon, <1>0, <2>1 DEF Stream
  <2>5. {"state", "ndirty", "off", "data", "bm"} \subseteq DOMAIN s \ {"bpos", "buf", "eof"}
    BY <1>0, Fields
  <2>6. /\ s'.state = s.state /\ s'.ndirty = s.ndirty /\ s'.off = s.off /\ s'.data = s.data
        /\ s'.bm = s.bm /\ s'.buf = s.buf
    BY <2>2, <2>4, <2>5
  <2>7. View(s') /\ Contents(s') = Contents(s) /\ Pos(s') = Pos(s) + s'.bpos - s.bpos
    BY <1>0, <2>6, MovedIn
  <2>8. Pos(s') = Pos(s) - 1
    BY <1>0, <2>3, <2>4, <2>7
  <2>9. call'.op = "unget"
    BY <1>3 DEF Did
  <2>10. VInv'
    BY <1>0, <2>4, <2>6, <2>7, <2>9, Seen
  <2>11. QED
    BY <2>7, <2>8, <2>9, <2>10, UngetPromise
<1>4. CASE /\ s.bpos = 0
           /\ \E cap \in Nat :
                /\ s' = [Resized(s, cap) EXCEPT !.buf = <<c>> \o @, !.eof = FALSE]
                /\ cap >= s.maxsize
                /\ Did("unget", 0, <<>>, c)
  <2>1. PICK cap \in Nat :
          /\ s' = [Resized(s, cap) EXCEPT !.buf = <<c>> \o @, !.eof = FALSE]
          /\ cap >= s.maxsize
          /\ Did("unget", 0, <<>>, c)
    BY <1>4
  <2> DEFINE r == Resized(s, cap)
             b == <<c>> \o s.buf
  <2>2. r \in Stream /\ \A f \in DOMAIN s \ {"maxsize", "inl"} : r[f] = s[f]
    BY <1>0, <2>1, ResizedGood
  <2>3. {"buf", "state", "ndirty", "off", "bm", "data", "bpos"} \subseteq DOMAIN s \ {"maxsize", "inl"}
    BY <1>0, Fields
  <2>4. /\ r.buf = s.buf /\ r.state = s.state /\ r.ndirty = s.ndirty /\ r.off = s.off
        /\ r.bm = s.bm /\ r.data = s.data /\ r.bpos = s.bpos
    BY <2>2, <2>3
  <2>5. s' = [r EXCEPT !.buf = b, !.eof = FALSE]
    BY <2>1, <2>4
  <2>6. s.buf = <<>> /\ Len(s.buf) = 0 /\ s.ndirty = 0
    <3>1. s.buf = <<>> /\ Len(s.buf) = 0
      BY <1>1, <1>4, EmptyBytes
    <3>2. QED
      BY <1>0, <3>1
  <2>7. b = <<c>> /\ Len(<<c>>) = 1 /\ <<c>>[1] = c
    BY <2>6
  <2> HIDE DEF r, b
  <2>8. s'.buf = b /\ s'.eof = FALSE /\ \A f \in DOMAIN r \ {"buf", "eof"} : s'[f] = r[f]
    BY Zenon, <2>2, <2>5 DEF Stream
  <2>9. {"state", "ndirty", "off", "bm", "data", "bpos"} \subseteq DOMAIN r \ {"buf", "eof"}
    BY <2>2, Fields
  <2>10. /\ s'.state = "rd" /\ s'.ndirty = 0 /\ s'.off = s.off /\ s'.bm = s.bm
         /\ s'.data = s.data /\ s'.bpos = 0 /\ Len(s'.buf) = 1 /\ s'.buf[1] = c
    BY <1>1, <1>4, <2>4, <2>6, <2>7, <2>8, <2>9
  <2>11. Contents(s) = s.data /\ Contents(s') = s.data
    BY <1>0, <2>6, <2>10 DEF Contents
  <2>12. Pos(s) = s.off /\ s.off >= 1 /\ s.off <= Len(s.data) /\ s.data[s.off] = c
    BY <1>0, <1>1, <1>2, <1>4, <2>6, <2>11
  <2>13. BufferAt(s') = s.off - 1
    BY <2>10 DEF BufferAt
  <2>14. \A i \in 1..Len(s'.buf) :
           BufferAt(s') + i <= Len(s'.data) /\ s'.buf[i] = s'.data[BufferAt(s') + i]
    <3> SUFFICES ASSUME NEW i \in 1..Len(s'.buf)
                 PROVE  BufferAt(s') + i <= Len(s'.data) /\ s'.buf[i] = s'.data[BufferAt(s') + i]
      OBVIOUS
    <3>1. i = 1 /\ BufferAt(s') + i = s.off
      BY <1>0, <2>10, <2>12, <2>13
    <3>2. QED
      BY <2>10, <2>12, <3>1
  <2>15. View(s')
    <3>1. Clean(s')
      BY <2>10, <2>12, <2>14 DEF Clean
    <3>2. Lines(s')
      BY <2>14 DEF Lines
    <3>3. QED
      BY <2>10, <3>1, <3>2 DEF View, Unheld
  <2>16. Pos(s') = Pos(s) - 1
    <3>1. Pos(s') = BufferAt(s') + s'.bpos
      BY <1>0, Places
    <3>2. QED
      BY <1>0, <2>10, <2>12, <2>13, <3>1
  <2>17. call'.op = "unget"
    BY <2>1 DEF Did
  <2>18. VInv'
    BY <1>0, <2>8, <2>10, <2>15, <2>17, Seen
  <2>19. Contents(s') = Contents(s)
    BY <2>11
  <2>20. QED
    BY <2>16, <2>17, <2>18, <2>19, UngetPromise
<1>5. CASE UNCHANGED s /\ Did("refused", 0, <<>>, -1)
  BY <1>5, RefusedSeen DEF Did
<1>6. ASSUME s.bpos = 0,
             NEW cap \in (IF Len(s.buf) = s.maxsize THEN Realloc(s, 2 * s.maxsize)
                          ELSE {s.maxsize})
      PROVE  cap \in Nat /\ cap >= s.maxsize
  BY Basics, UngetRoom DEF Sound
<1>7. CASE s.bpos > 0
  BY Zenon, <1>3, <1>7 DEF ios_ungetc, c
<1>8. CASE s.bpos = 0
  <2>1. ~(s.bpos > 0)
    BY <1>8
  <2>2. PICK cap \in (IF Len(s.buf) = s.maxsize THEN Realloc(s, 2 * s.maxsize)
                      ELSE {s.maxsize}) :
          IF cap = Len(s.buf) /\ cap > 0 THEN UNCHANGED s /\ Did("refused", 0, <<>>, -1)
          ELSE /\ s' = [Resized(s, cap) EXCEPT !.buf = <<c>> \o @, !.eof = FALSE]
               /\ Did("unget", 0, <<>>, c)
    BY Zenon, <2>1 DEF ios_ungetc, c
  <2>3. QED
    BY Zenon, <1>4, <1>5, <1>6, <1>8, <2>2
<1>9. QED
  BY <1>0, <1>7, <1>8

(***************************************************************************)
(* Moving, and the rest of the calls.                                      *)
(***************************************************************************)

LEMMA EmptyPlace ==
  ASSUME ~InMemory, NEW u \in Stream, u.buf = <<>>, u.bpos = 0, u.ndirty = 0
  PROVE  View(u) /\ Contents(u) = u.data /\ Pos(u) = u.off
<1>1. Len(u.buf) = 0 /\ u.off \in Nat
  BY Fields, EmptyBytes
<1>2. View(u)
  BY <1>1 DEF View, Unheld, Clean, Lines
<1>3. Contents(u) = u.data
  BY DEF Contents
<1>4. Pos(u) = u.off
  BY <1>1 DEF Pos, Avail
<1>5. QED
  BY <1>2, <1>3, <1>4

\* A flush, as every one of these calls finds it.
LEMMA FlushedSeen ==
  ASSUME Sound, NEW nw \in Flushed(s)
  PROVE  LET u == Flush(s, nw) IN
         /\ u \in Stream /\ Good(u) /\ Shape(u) /\ View(u) /\ u.ndirty = 0
         /\ u.bm = s.bm /\ u.eof = s.eof /\ u.state = s.state
         /\ u.data = Contents(s) /\ Contents(u) = Contents(s) /\ Pos(u) = Pos(s)
         /\ u.buf = IF s.state = "wr" THEN <<>> ELSE s.buf
<1> DEFINE u == Flush(s, nw)
<1>1. /\ u \in Stream /\ Good(u) /\ Shape(u) /\ View(u) /\ u.ndirty = 0
      /\ \A f \in Kept : u[f] = s[f]
      /\ u.data = Contents(s) /\ Contents(u) = Contents(s) /\ Pos(u) = Pos(s)
      /\ u.buf = IF s.state = "wr" THEN <<>> ELSE s.buf
  BY Basics, FlushWhole
<1> HIDE DEF u
<1>2. u.bm = s.bm /\ u.eof = s.eof /\ u.state = s.state
  BY <1>1 DEF Kept
<1>3. QED
  BY <1>1, <1>2 DEF u

\* An lseek that drops what was buffered.
SoughtTo(u, t, p) == View(u) /\ Contents(u) = t.data /\ Pos(u) = p /\ u.bm = t.bm

LEMMA Sought ==
  ASSUME ~InMemory, Seekable, NEW t \in Stream, Good(t), t.ndirty = 0, NEW p \in Nat
  PROVE  LET u == [Lseek(t, p) EXCEPT !.buf = <<>>, !.bpos = 0]
             w == [Lseek(t, p) EXCEPT !.buf = <<>>, !.bpos = 0, !.eof = FALSE] IN
         /\ SoughtTo(u, t, p) /\ u.eof = t.eof
         /\ SoughtTo(w, t, p) /\ w.eof = FALSE
<1> DEFINE l == Lseek(t, p)
           u == [l EXCEPT !.buf = <<>>, !.bpos = 0]
           w == [l EXCEPT !.buf = <<>>, !.bpos = 0, !.eof = FALSE]
<1>1. l \in Stream /\ Good(l) /\ (\A f \in DOMAIN t \ {"off"} : l[f] = t[f]) /\ l.off = p
  BY LseekGood
<1>2. {"ndirty", "bm", "data", "eof"} \subseteq DOMAIN t \ {"off"}
  BY Fields
<1>3. l.ndirty = 0 /\ l.bm = t.bm /\ l.data = t.data /\ l.eof = t.eof
  BY <1>1, <1>2
<1> HIDE DEF l
<1>4. u \in Stream /\ Good(u)
  BY <1>1, Emptied
<1>5. w = [u EXCEPT !.eof = FALSE]
  OBVIOUS
<1>6. /\ u.buf = <<>> /\ u.bpos = 0 /\ \A f \in DOMAIN l \ {"buf", "bpos"} : u[f] = l[f]
  BY Zenon, <1>1, <1>4 DEF Stream
<1> HIDE DEF u, w
<1>7. {"ndirty", "bm", "data", "off", "eof"} \subseteq DOMAIN l \ {"buf", "bpos"}
  BY <1>1, Fields
<1>8. u.ndirty = 0 /\ u.bm = t.bm /\ u.data = t.data /\ u.eof = t.eof /\ u.off = p
  BY <1>1, <1>3, <1>6, <1>7
<1>9. SoughtTo(u, t, p)
  <2>1. View(u) /\ Contents(u) = u.data /\ Pos(u) = u.off
    BY <1>4, <1>6, <1>8, EmptyPlace
  <2>2. QED
    BY <1>8, <2>1 DEF SoughtTo
<1>10. SoughtTo(w, t, p) /\ w.eof = FALSE
  <2>1. w \in Stream /\ FALSE \in BOOLEAN
    BY <1>4, <1>5, SetEof
  <2>2. w.eof = FALSE /\ \A f \in DOMAIN u \ {"eof"} : w[f] = u[f]
    BY Zenon, <1>4, <1>5, <2>1 DEF Stream
  <2>3. {"ndirty", "bm", "data", "off", "buf", "bpos"} \subseteq DOMAIN u \ {"eof"}
    BY <1>4, Fields
  <2>4. /\ w.ndirty = 0 /\ w.bm = t.bm /\ w.data = t.data /\ w.off = p
        /\ w.buf = <<>> /\ w.bpos = 0
    BY <1>6, <1>8, <2>2, <2>3
  <2>5. View(w) /\ Contents(w) = w.data /\ Pos(w) = w.off
    BY <2>1, <2>4, EmptyPlace
  <2>6. QED
    BY <2>2, <2>4, <2>5 DEF SoughtTo
<1>11. QED
  BY <1>8, <1>9, <1>10 DEF u, w, l

\* Only the end-of-file mark changed.
LEMMA Marked ==
  ASSUME ~InMemory, NEW t \in Stream, Good(t), Shape(t), View(t), NEW e \in BOOLEAN
  PROVE  LET u == [t EXCEPT !.eof = e] IN
         /\ u \in Stream /\ Good(u) /\ Shape(u) /\ View(u)
         /\ Contents(u) = Contents(t) /\ Pos(u) = Pos(t)
         /\ u.eof = e /\ u.bm = t.bm /\ u.ndirty = t.ndirty /\ u.data = t.data
<1> DEFINE u == [t EXCEPT !.eof = e]
<1>1. u \in Stream /\ Good(u)
  BY SetEof
<1>2. u.eof = e /\ \A f \in DOMAIN t \ {"eof"} : u[f] = t[f]
  BY Zenon, <1>1 DEF Stream
<1> HIDE DEF u
<1>3. {"state", "buf", "bpos", "ndirty", "off", "data", "bm", "status"} \subseteq DOMAIN t \ {"eof"}
  BY Fields
<1>4. /\ u.state = t.state /\ u.buf = t.buf /\ u.bpos = t.bpos /\ u.ndirty = t.ndirty
      /\ u.off = t.off /\ u.data = t.data /\ u.bm = t.bm /\ u.status = t.status
  BY <1>2, <1>3
<1>5. Shape(u)
  BY <1>4 DEF Shape
<1>6. View(u) /\ Contents(u) = Contents(t) /\ Pos(u) = Pos(t)
  BY <1>4 DEF View, Unheld, Clean, Lines, BufferAt, Contents, Pos, Avail
<1>7. QED
  BY <1>1, <1>2, <1>4, <1>5, <1>6 DEF u

LEMMA SeekSeen ==
  ASSUME Sound, NEW p \in Nat, ios_seek(p)
  PROVE  VInv' /\ PStep
<1>0. ~InMemory /\ p \in Int /\ FALSE \in BOOLEAN /\ s.bm \in Modes \cup {Mode}
  BY Basics
<1> DEFINE g(nw) == [Flush(s, nw) EXCEPT !.eof = FALSE]
<1>1. PICK nw \in Flushed(s) :
        IF Seekable THEN /\ s' = [Lseek(g(nw), p) EXCEPT !.buf = <<>>, !.bpos = 0]
                         /\ Did("seek", p, <<>>, 0)
        ELSE s' = g(nw) /\ Did("seek", p, <<>>, -1)
  BY <1>0 DEF ios_seek
<1> DEFINE u == Flush(s, nw)
           f == [u EXCEPT !.eof = FALSE]
<1>2. /\ u \in Stream /\ Good(u) /\ Shape(u) /\ View(u) /\ u.ndirty = 0
      /\ u.bm = s.bm /\ u.data = Contents(s) /\ Contents(u) = Contents(s) /\ Pos(u) = Pos(s)
  BY FlushedSeen
<1>3. \/ Seekable /\ s' = [Lseek(f, p) EXCEPT !.buf = <<>>, !.bpos = 0]
         /\ Did("seek", p, <<>>, 0)
      \/ s' = f /\ Did("seek", p, <<>>, -1)
  BY <1>1
<1> HIDE DEF u
<1>4. /\ f \in Stream /\ Good(f) /\ Shape(f) /\ View(f) /\ f.ndirty = 0 /\ f.eof = FALSE
      /\ f.bm = s.bm /\ f.data = Contents(s) /\ Contents(f) = Contents(s) /\ Pos(f) = Pos(s)
  BY <1>0, <1>2, Marked
<1> HIDE DEF f
<1>5. CASE Seekable /\ s' = [Lseek(f, p) EXCEPT !.buf = <<>>, !.bpos = 0]
           /\ Did("seek", p, <<>>, 0)
  <2>1. View(s') /\ Contents(s') = Contents(s) /\ Pos(s') = p /\ s'.eof = FALSE /\ s'.bm = s.bm
    <3>1. /\ SoughtTo([Lseek(f, p) EXCEPT !.buf = <<>>, !.bpos = 0], f, p)
          /\ [Lseek(f, p) EXCEPT !.buf = <<>>, !.bpos = 0].eof = f.eof
      BY <1>0, <1>4, <1>5, Sought
    <3>2. SoughtTo(s', f, p) /\ s'.eof = f.eof
      BY Zenon, <1>5, <3>1
    <3>3. QED
      BY <1>4, <3>2 DEF SoughtTo
  <2>2. call'.op = "seek"
    BY <1>5 DEF Did
  <2>3. VInv'
    BY <1>0, <2>1, <2>2, Seen
  <2>4. PStep
    BY <1>5, <2>1, MovePromise
  <2>5. QED
    BY <2>3, <2>4
<1>6. CASE s' = f /\ Did("seek", p, <<>>, -1)
  <2>2. call'.op = "seek"
    BY <1>6 DEF Did
  <2>3. VInv'
    BY <1>0, <1>4, <1>6, <2>2, Seen
  <2>4. PStep
    BY <1>4, <1>6, MovePromise
  <2>5. QED
    BY <2>3, <2>4
<1>7. QED
  BY <1>3, <1>5, <1>6

LEMMA SeekEndSeen ==
  ASSUME Sound, ios_seek_end
  PROVE  VInv' /\ PStep
<1>0. ~InMemory /\ TRUE \in BOOLEAN /\ s.bm \in Modes \cup {Mode}
  BY Basics
<1>k. Kind = "file" \/ Kind = "pipe"
  BY <1>0, IosAssumption DEF InMemory
<1> DEFINE g(nw) == [Flush(s, nw) EXCEPT !.eof = TRUE]
<1>1. PICK nw \in Flushed(s) :
        IF Seekable
        THEN /\ s' = [Lseek(g(nw), Len(g(nw).data)) EXCEPT !.buf = <<>>, !.bpos = 0]
             /\ Did("seek_end", 0, <<>>, 0)
        ELSE s' = g(nw) /\ Did("seek_end", 0, <<>>, -1)
  BY <1>0 DEF ios_seek_end
<1> DEFINE u == Flush(s, nw)
           f == [u EXCEPT !.eof = TRUE]
<1>2. /\ u \in Stream /\ Good(u) /\ Shape(u) /\ View(u) /\ u.ndirty = 0
      /\ u.bm = s.bm /\ u.data = Contents(s) /\ Contents(u) = Contents(s) /\ Pos(u) = Pos(s)
  BY FlushedSeen
<1>3. \/ Seekable /\ s' = [Lseek(f, Len(f.data)) EXCEPT !.buf = <<>>, !.bpos = 0]
         /\ Did("seek_end", 0, <<>>, 0)
      \/ ~Seekable /\ s' = f /\ Did("seek_end", 0, <<>>, -1)
  BY <1>1
<1> HIDE DEF u
<1>4. /\ f \in Stream /\ Good(f) /\ Shape(f) /\ View(f) /\ f.ndirty = 0
      /\ f.bm = s.bm /\ f.data = Contents(s) /\ Contents(f) = Contents(s) /\ Pos(f) = Pos(s)
  BY <1>0, <1>2, Marked
<1> HIDE DEF f
<1> DEFINE p == Len(f.data)
<1>p. p \in Nat /\ p = Len(Contents(s))
  BY <1>4, Fields
<1> HIDE DEF p
<1>5. CASE Seekable /\ s' = [Lseek(f, p) EXCEPT !.buf = <<>>, !.bpos = 0]
           /\ Did("seek_end", 0, <<>>, 0)
  <2>1. View(s') /\ Contents(s') = Contents(s) /\ Pos(s') = p /\ s'.bm = s.bm
    <3>1. SoughtTo([Lseek(f, p) EXCEPT !.buf = <<>>, !.bpos = 0], f, p)
      BY <1>0, <1>4, <1>5, <1>p, Sought
    <3>2. SoughtTo(s', f, p)
      BY Zenon, <1>5, <3>1
    <3>3. QED
      BY <1>4, <3>2 DEF SoughtTo
  <2>2. call'.op = "seek_end"
    BY <1>5 DEF Did
  <2>3. Pos(s') >= Len(Contents(s'))
    BY <1>p, <2>1
  <2>4. VInv'
    BY <1>0, <2>1, <2>2, <2>3, Seen
  <2>5. PStep
    BY <1>5, <1>p, <2>1, MovePromise
  <2>6. QED
    BY <2>4, <2>5
<1>6. Seekable
  BY <1>k DEF ios_seek_end, Seekable, Sound, Plain
<1>7. QED
  BY <1>3, <1>5, <1>6 DEF p

LEMMA SkipSeen ==
  ASSUME Sound, NEW k \in Int, k # 0, Kind # "pipe" \/ s.state = "rd", ios_skip(k)
  PROVE  VInv' /\ PStep
<1>0. /\ ~InMemory /\ s \in Stream /\ Good(s) /\ Shape(s) /\ View(s) /\ Clean(s)
      /\ s' \in Stream /\ Good(s') /\ Shape(s')
      /\ s.bpos \in Nat /\ s.buf \in Seq(Byte) /\ Len(s.buf) \in Nat
      /\ Pos(s) = BufferAt(s) + s.bpos /\ BufferAt(s) \in Nat /\ Pos(s) \in Nat
      /\ Avail(s) = Len(s.buf) - s.bpos
      /\ (s.eof => Pos(s) >= Len(Contents(s)))
      /\ s.bm \in Modes \cup {Mode} /\ Len(Contents(s)) \in Nat
  BY Basics
<1>1. CASE SkipWithin(k)
  <2> DEFINE q == s.bpos + k
             e == s.eof /\ k > 0
  <2>1. s' = [s EXCEPT !.bpos = q, !.eof = e] /\ Did("skip", k, <<>>, 0)
    BY <1>1 DEF SkipWithin
  <2>q. q = s.bpos + k
    OBVIOUS
  <2>e. (e => s.eof /\ k > 0) /\ e \in BOOLEAN
    OBVIOUS
  <2> HIDE DEF q, e
  <2>2. s'.bpos = q /\ s'.eof = e /\ \A f \in DOMAIN s \ {"bpos", "eof"} : s'[f] = s[f]
    BY Zenon, <1>0, <2>1, <2>e DEF Stream
  <2>3. {"state", "buf", "ndirty", "off", "bm", "data"} \subseteq DOMAIN s \ {"bpos", "eof"}
    BY <1>0, Fields
  <2>4. /\ s'.state = s.state /\ s'.buf = s.buf /\ s'.ndirty = s.ndirty /\ s'.off = s.off
        /\ s'.bm = s.bm /\ s'.data = s.data
    BY <2>2, <2>3
  <2>5. View(s') /\ Contents(s') = Contents(s) /\ Pos(s') = Pos(s) + s'.bpos - s.bpos
    BY <1>0, <2>4, MovedIn
  <2>6. Pos(s') = Pos(s) + k
    BY <1>0, <2>2, <2>5, <2>q
  <2>7. s'.eof => s.eof /\ k > 0
    BY Zenon, <2>2, <2>e
  <2>8. s'.eof => Pos(s') >= Len(Contents(s'))
    BY <1>0, <2>5, <2>6, <2>7
  <2>9. call'.op = "skip" /\ s'.bm \in Modes \cup {Mode}
    BY <1>0, <2>1, <2>4 DEF Did
  <2>10. VInv'
    BY <2>5, <2>8, <2>9, Seen
  <2>11. PStep
    BY <2>1, <2>5, <2>6, MovePromise
  <2>12. QED
    BY <2>10, <2>11
<1>2. CASE SkipBeyond(k)
  <2> DEFINE to(f) == f.off + k + (CASE f.state = "wr" -> f.bpos
                                     [] f.state = "rd" -> -Avail(f)
                                     [] OTHER -> 0)
  <2>1. PICK nw \in Flushed(s) :
          LET f == Flush(s, nw) IN
          IF Seekable /\ to(f) >= 0
          THEN /\ s' = [Lseek(f, to(f)) EXCEPT !.buf = <<>>, !.bpos = 0, !.eof = FALSE]
               /\ Did("skip", k, <<>>, 0)
          ELSE s' = f /\ Did("skip", k, <<>>, -1)
    BY <1>2 DEF SkipBeyond
  <2> DEFINE f == Flush(s, nw)
  <2>2. /\ f \in Stream /\ Good(f) /\ Shape(f) /\ View(f) /\ f.ndirty = 0
        /\ f.bm = s.bm /\ f.eof = s.eof
        /\ f.data = Contents(s) /\ Contents(f) = Contents(s) /\ Pos(f) = Pos(s)
    BY FlushedSeen
  <2>3. \/ /\ Seekable /\ to(f) >= 0
           /\ s' = [Lseek(f, to(f)) EXCEPT !.buf = <<>>, !.bpos = 0, !.eof = FALSE]
           /\ Did("skip", k, <<>>, 0)
        \/ s' = f /\ Did("skip", k, <<>>, -1)
    BY <2>1
  <2> HIDE DEF f
  <2>4. to(f) = Pos(s) + k
    <3>1. f.off \in Nat /\ f.bpos \in Nat /\ f.buf \in Seq(Byte) /\ Len(f.buf) \in Nat /\ f.bpos <= Len(f.buf)
      BY <2>2, Fields DEF Good
    <3>2. f.state \in {"none", "rd", "wr"}
      BY <2>2 DEF Stream
    <3>3. CASE f.state = "wr"
      <4>1. Pos(f) = f.off + f.bpos /\ to(f) = f.off + k + f.bpos
        BY <1>0, <3>3 DEF Pos
      <4>2. QED
        BY <2>2, <3>1, <4>1
    <3>4. CASE f.state = "rd"
      <4>1. Pos(f) = f.off - Avail(f) /\ to(f) = f.off + k + (-Avail(f))
        BY <1>0, <3>4 DEF Pos
      <4>2. Avail(f) \in Int
        BY <3>1 DEF Avail
      <4>3. QED
        BY <2>2, <3>1, <4>1, <4>2
    <3>5. CASE f.state = "none"
      <4>1. Pos(f) = f.off - Avail(f) /\ to(f) = f.off + k + 0
        BY <1>0, <3>5 DEF Pos
      <4>2. Len(f.buf) = 0
        BY <2>2, <3>5, EmptyBytes DEF Shape
      <4>3. Avail(f) = 0
        BY <3>1, <4>2 DEF Avail
      <4>4. QED
        BY <2>2, <3>1, <4>1, <4>3
    <3>6. QED
      BY <3>2, <3>3, <3>4, <3>5
  <2> DEFINE p == to(f)
  <2>5. CASE /\ Seekable /\ p >= 0
             /\ s' = [Lseek(f, p) EXCEPT !.buf = <<>>, !.bpos = 0, !.eof = FALSE]
             /\ Did("skip", k, <<>>, 0)
    <3>1. p = Pos(s) + k /\ p \in Nat
      BY <1>0, <2>4, <2>5
    <3> HIDE DEF p
    <3>2. /\ SoughtTo([Lseek(f, p) EXCEPT !.buf = <<>>, !.bpos = 0, !.eof = FALSE], f, p)
          /\ [Lseek(f, p) EXCEPT !.buf = <<>>, !.bpos = 0, !.eof = FALSE].eof = FALSE
      BY <1>0, <2>2, <2>5, <3>1, Sought
    <3>3. SoughtTo(s', f, p) /\ s'.eof = FALSE
      BY Zenon, <2>5, <3>2
    <3>4. View(s') /\ Contents(s') = Contents(s) /\ Pos(s') = p /\ s'.bm = s.bm
      BY <2>2, <3>3 DEF SoughtTo
    <3>5. call'.op = "skip"
      BY <2>5 DEF Did
    <3>6. VInv'
      BY <1>0, <3>3, <3>4, <3>5, Seen
    <3>7. PStep
      BY <2>5, <3>1, <3>4, MovePromise
    <3>8. QED
      BY <3>6, <3>7
  <2>6. CASE s' = f /\ Did("skip", k, <<>>, -1)
    <3>1. call'.op = "skip" /\ s'.bm \in Modes \cup {Mode}
      BY <1>0, <2>2, <2>6 DEF Did
    <3>2. s'.eof => Pos(s') >= Len(Contents(s'))
      BY <1>0, <2>2, <2>6
    <3>3. VInv'
      BY <2>2, <2>6, <3>1, <3>2, Seen
    <3>4. PStep
      BY <2>2, <2>6, MovePromise
    <3>5. QED
      BY <3>3, <3>4
  <2>7. QED
    BY <2>3, <2>5, <2>6
<1>3. QED
  BY <1>0, <1>1, <1>2 DEF ios_skip

LEMMA FlushSeen ==
  ASSUME Sound, ios_flush
  PROVE  VInv' /\ PStep
<1>0. s.bm \in Modes \cup {Mode}
  BY Basics
<1>1. PICK nw \in Flushed(s) : s' = Flush(s, nw) /\ call'.op = "flush"
  BY DEF ios_flush, Did
<1>2. View(s') /\ Contents(s') = Contents(s) /\ Pos(s') = Pos(s) /\ s'.eof = s.eof /\ s'.bm = s.bm
  BY <1>1, FlushedSeen
<1>3. (s'.eof => s.eof) /\ s'.bm \in Modes \cup {Mode}
  BY <1>0, <1>2
<1>4. QED
  BY <1>1, <1>2, <1>3, QuietSeen

LEMMA SetbufSeen ==
  ASSUME Sound, NEW n \in Nat, Len(s.buf) <= n, ios_setbuf(n)
  PROVE  VInv' /\ PStep
<1>0. /\ ~InMemory /\ s.bm \in Modes \cup {Mode} /\ s' \in Stream /\ Good(s') /\ Shape(s')
      /\ Len(s.buf) \in Nat
  BY Basics
<1> DEFINE g(nw) == Flush(s, nw)
<1>1. PICK nw \in Flushed(s) :
        s' = [g(nw) EXCEPT !.buf = First(@, Min2(n, Len(@))), !.bpos = Min2(@, n),
                           !.maxsize = n, !.inl = FALSE]
  BY DEF ios_setbuf
<1> DEFINE u == Flush(s, nw)
           b == First(u.buf, Min2(n, Len(u.buf)))
           q == Min2(u.bpos, n)
<1>2. /\ u \in Stream /\ Good(u) /\ Shape(u) /\ View(u)
      /\ u.bm = s.bm /\ u.eof = s.eof
      /\ Contents(u) = Contents(s) /\ Pos(u) = Pos(s)
      /\ u.buf = IF s.state = "wr" THEN <<>> ELSE s.buf
  BY FlushedSeen
<1>3. s' = [u EXCEPT !.buf = b, !.bpos = q, !.maxsize = n, !.inl = FALSE]
  BY <1>1
<1> HIDE DEF u
<1>4. u.buf \in Seq(Byte) /\ Len(u.buf) \in Nat /\ Len(u.buf) <= n /\ u.bpos \in Nat
      /\ u.bpos <= Len(u.buf)
  <2>1. Len(<<>>) = 0
    BY EmptyBytes
  <2>2. Len(u.buf) <= n
    BY <1>0, <1>2, <2>1
  <2>3. QED
    BY <1>2, <2>2, Fields DEF Good
<1>5. b = u.buf /\ q = u.bpos
  <2>1. Min2(n, Len(u.buf)) = Len(u.buf) /\ q = u.bpos
    BY <1>4 DEF Min2
  <2>2. QED
    BY <1>4, <2>1, FirstAll
<1> HIDE DEF b, q
<1>6. /\ s'.buf = b /\ s'.bpos = q
      /\ \A f \in DOMAIN u \ {"buf", "bpos", "maxsize", "inl"} : s'[f] = u[f]
  BY Zenon, <1>2, <1>3 DEF Stream
<1>7. {"state", "ndirty", "off", "bm", "eof", "data"} \subseteq DOMAIN u \ {"buf", "bpos", "maxsize", "inl"}
  BY <1>2, Fields
<1>8. /\ s'.state = u.state /\ s'.buf = u.buf /\ s'.ndirty = u.ndirty /\ s'.off = u.off
      /\ s'.bm = u.bm /\ s'.data = u.data /\ s'.bpos = u.bpos /\ s'.eof = u.eof
  BY <1>5, <1>6, <1>7
<1>9. View(s') /\ Contents(s') = Contents(u) /\ Pos(s') = Pos(u)
  BY <1>0, <1>2, <1>8, SameView
<1>10. call'.op = "setbuf"
  BY DEF ios_setbuf, Did
<1>11. (s'.eof => s.eof) /\ s'.bm \in Modes \cup {Mode}
  BY <1>0, <1>2, <1>8
<1>12. QED
  BY <1>2, <1>9, <1>10, <1>11, QuietSeen

LEMMA BufmodeSeen ==
  ASSUME Sound, NEW m \in Modes, ios_bufmode(m)
  PROVE  VInv' /\ PStep
<1>0. /\ ~InMemory /\ s \in Stream /\ Good(s) /\ Shape(s) /\ View(s)
      /\ s' \in Stream /\ Good(s') /\ Shape(s')
  BY Basics
<1>1. s' = [s EXCEPT !.bm = m] /\ call'.op = "bufmode"
  BY <1>0 DEF ios_bufmode, Did
<1>2. s'.bm = m /\ \A f \in DOMAIN s \ {"bm"} : s'[f] = s[f]
  BY Zenon, <1>0, <1>1 DEF Stream
<1>3. {"state", "buf", "bpos", "ndirty", "off", "data", "eof"} \subseteq DOMAIN s \ {"bm"}
  BY <1>0, Fields
<1>4. /\ s'.state = s.state /\ s'.buf = s.buf /\ s'.ndirty = s.ndirty /\ s'.off = s.off
      /\ s'.data = s.data /\ s'.bpos = s.bpos /\ s'.eof = s.eof
  BY <1>2, <1>3
<1>b. s'.bm # "none"
  BY <1>2, Basics DEF Sound, Plain
<1>5. View(s') /\ Contents(s') = Contents(s) /\ Pos(s') = Pos(s)
  BY <1>0, <1>4, <1>b, SameView
<1>6. (s'.eof => s.eof) /\ s'.bm \in Modes \cup {Mode}
  BY <1>2, <1>4
<1>7. QED
  BY <1>1, <1>5, <1>6, QuietSeen

LEMMA ReadonlySeen ==
  ASSUME Sound, s.state # "rd" \/ s.buf = <<>>, ios_set_readonly
  PROVE  VInv' /\ PStep
<1>0. /\ ~InMemory /\ s.bm \in Modes \cup {Mode} /\ s' \in Stream /\ Good(s') /\ Shape(s')
      /\ s.state \in {"none", "rd", "wr"} /\ Shape(s)
  BY Basics
<1> DEFINE g(nw) == Flush(s, nw)
<1>1. PICK nw \in Flushed(s) :
        s' = [g(nw) EXCEPT !.state = "none", !.readonly = TRUE]
  BY DEF ios_set_readonly
<1> DEFINE u == Flush(s, nw)
<1>2. /\ u \in Stream /\ Good(u) /\ Shape(u) /\ View(u) /\ u.ndirty = 0
      /\ u.bm = s.bm /\ u.eof = s.eof
      /\ Contents(u) = Contents(s) /\ Pos(u) = Pos(s)
      /\ u.buf = IF s.state = "wr" THEN <<>> ELSE s.buf
  BY FlushedSeen
<1>3. s' = [u EXCEPT !.state = "none", !.readonly = TRUE]
  BY <1>1
<1> HIDE DEF u
<1>4. u.buf = <<>>
  BY <1>0, <1>2 DEF Shape
<1>5. s'.state = "none" /\ \A f \in DOMAIN u \ {"state", "readonly"} : s'[f] = u[f]
  BY Zenon, <1>2, <1>3 DEF Stream
<1>6. {"buf", "bpos", "ndirty", "off", "bm", "data", "eof"} \subseteq DOMAIN u \ {"state", "readonly"}
  BY <1>2, Fields
<1>7. /\ s'.buf = u.buf /\ s'.bpos = u.bpos /\ s'.ndirty = u.ndirty /\ s'.off = u.off
      /\ s'.bm = u.bm /\ s'.data = u.data /\ s'.eof = u.eof
  BY <1>5, <1>6
<1>8. View(s') /\ Contents(s') = Contents(u) /\ Pos(s') = Pos(u)
  BY <1>0, <1>2, <1>4, <1>7, SameView
<1>9. call'.op = "readonly"
  BY DEF ios_set_readonly, Did
<1>10. (s'.eof => s.eof) /\ s'.bm \in Modes \cup {Mode}
  BY <1>0, <1>2, <1>7
<1>11. QED
  BY <1>2, <1>8, <1>9, <1>10, QuietSeen

LEMMA PurgeSeen ==
  ASSUME Sound, ios_purge
  PROVE  VInv' /\ PStep
<1>0. /\ ~InMemory /\ s \in Stream /\ Good(s) /\ Shape(s) /\ View(s) /\ Clean(s)
      /\ s' \in Stream /\ Good(s') /\ Shape(s')
      /\ s.buf \in Seq(Byte) /\ Len(s.buf) \in Nat /\ s.bpos \in Nat /\ s.bpos <= Len(s.buf)
      /\ Pos(s) = BufferAt(s) + s.bpos /\ BufferAt(s) \in Nat /\ Pos(s) \in Nat
      /\ (s.eof => Pos(s) >= Len(Contents(s)))
      /\ s.bm \in Modes \cup {Mode} /\ Len(Contents(s)) \in Nat
  BY Basics
<1> DEFINE q == IF s.state = "rd" THEN Len(s.buf) ELSE s.bpos
<1>1. s' = [s EXCEPT !.bpos = q] /\ call'.op = "purge"
  BY DEF ios_purge, Did
<1>q. q \in Nat /\ q >= s.bpos /\ q <= Len(s.buf)
  BY <1>0
<1> HIDE DEF q
<1>2. s'.bpos = q /\ \A f \in DOMAIN s \ {"bpos"} : s'[f] = s[f]
  BY Zenon, <1>0, <1>1 DEF Stream
<1>3. {"state", "buf", "ndirty", "off", "bm", "data", "eof"} \subseteq DOMAIN s \ {"bpos"}
  BY <1>0, Fields
<1>4. /\ s'.state = s.state /\ s'.buf = s.buf /\ s'.ndirty = s.ndirty /\ s'.off = s.off
      /\ s'.bm = s.bm /\ s'.data = s.data /\ s'.eof = s.eof
  BY <1>2, <1>3
<1>5. View(s') /\ Contents(s') = Contents(s) /\ Pos(s') = Pos(s) + s'.bpos - s.bpos
  BY <1>0, <1>4, MovedIn
<1>6. Pos(s') = BufferAt(s) + q /\ Pos(s') >= Pos(s)
  BY <1>0, <1>2, <1>5, <1>q
<1>7. s'.eof => Pos(s') >= Len(Contents(s'))
  BY <1>0, <1>4, <1>5, <1>6, <1>q
<1>8. VInv'
  BY <1>0, <1>1, <1>4, <1>5, <1>7, Seen
<1>9. Pos(s') \in Pos(s)..(Pos(s) + Max2(0, Len(Contents(s)) - Pos(s)))
  <2>1. CASE q = s.bpos
    <3>1. Pos(s') = Pos(s)
      BY <1>0, <1>6, <2>1
    <3>2. Max2(0, Len(Contents(s)) - Pos(s)) \in Nat
      BY <1>0 DEF Max2
    <3>3. QED
      BY <1>0, <3>1, <3>2
  <2>2. CASE q # s.bpos
    <3>1. s.buf # <<>>
      BY <1>0, <1>q, <2>2, EmptyBytes
    <3>2. BufferAt(s) + Len(s.buf) <= Len(Contents(s))
      BY <1>0, <3>1, Window
    <3>3. Pos(s') <= Len(Contents(s)) /\ Pos(s') \in Nat
      BY <1>0, <1>6, <1>q, <3>2
    <3>4. Pos(s) + Max2(0, Len(Contents(s)) - Pos(s)) = Len(Contents(s))
      <4>1. Pos(s) <= Len(Contents(s))
        BY <1>0, <1>6, <3>3
      <4>2. Max2(0, Len(Contents(s)) - Pos(s)) = Len(Contents(s)) - Pos(s)
        BY <1>0, <4>1 DEF Max2
      <4>3. QED
        BY <1>0, <4>2
    <3>5. QED
      BY <1>0, <1>6, <3>3, <3>4
  <2>3. QED
    BY <2>1, <2>2
<1>10. PStep
  BY <1>1, <1>5, <1>9, PurgePromise
<1>11. QED
  BY <1>8, <1>10

LEMMA CloseSeen ==
  ASSUME Sound, ios_close
  PROVE  VInv' /\ PStep
<1>0. /\ ~InMemory /\ s.bm \in Modes \cup {Mode} /\ s' \in Stream /\ Good(s') /\ Shape(s')
      /\ Pos(s) \in Nat /\ Len(Contents(s)) \in Nat
      /\ (s.eof => Pos(s) >= Len(Contents(s)))
  BY Basics
<1> DEFINE g(nw) == Flush(s, nw)
<1>1. PICK nw \in Flushed(s) :
        s' = [g(nw) EXCEPT !.buf = <<>>, !.bpos = 0, !.maxsize = 0, !.inl = TRUE,
                           !.status = "closed"]
  BY DEF ios_close
<1> DEFINE u == Flush(s, nw)
<1>2. /\ u \in Stream /\ Good(u) /\ Shape(u) /\ View(u) /\ u.ndirty = 0
      /\ u.bm = s.bm /\ u.eof = s.eof
      /\ u.data = Contents(s) /\ Contents(u) = Contents(s) /\ Pos(u) = Pos(s)
  BY FlushedSeen
<1>3. s' = [u EXCEPT !.buf = <<>>, !.bpos = 0, !.maxsize = 0, !.inl = TRUE,
                     !.status = "closed"]
  BY <1>1
<1> HIDE DEF u
<1>4. /\ s'.buf = <<>> /\ s'.bpos = 0
      /\ \A f \in DOMAIN u \ {"buf", "bpos", "maxsize", "inl", "status"} : s'[f] = u[f]
  BY Zenon, <1>2, <1>3 DEF Stream
<1>5. {"state", "ndirty", "off", "bm", "data", "eof"}
        \subseteq DOMAIN u \ {"buf", "bpos", "maxsize", "inl", "status"}
  BY <1>2, Fields
<1>6. s'.ndirty = 0 /\ s'.bm = u.bm /\ s'.off = u.off /\ s'.data = u.data /\ s'.eof = u.eof
  BY <1>2, <1>4, <1>5
<1>7. View(s') /\ Contents(s') = s'.data /\ Pos(s') = s'.off
  BY <1>0, <1>4, <1>6, EmptyPlace
<1>8. u.off \in Nat /\ Pos(u) <= u.off
  <2>1. /\ Len(u.buf) \in Nat /\ u.bpos \in 0..Len(u.buf) /\ u.off \in Nat
        /\ BufferAt(u) \in Nat
        /\ u.state = "rd" => BufferAt(u) + Len(u.buf) = u.off
        /\ u.state # "rd" => BufferAt(u) = u.off /\ u.ndirty = Len(u.buf)
        /\ Pos(u) = BufferAt(u) + u.bpos
    BY <1>0, <1>2, Places
  <2>2. QED
    BY <1>2, <2>1
<1>9. s'.eof => Pos(s') >= Len(Contents(s'))
  <2>1. Pos(s') = u.off /\ Contents(s') = Contents(s)
    BY <1>2, <1>6, <1>7
  <2>2. Pos(s) <= u.off
    BY <1>2, <1>8
  <2>3. QED
    BY <1>0, <1>2, <1>6, <1>8, <2>1, <2>2
<1>10. call'.op = "close"
  BY DEF ios_close, Did
<1>11. VInv'
  BY <1>0, <1>2, <1>6, <1>7, <1>9, <1>10, Seen
<1>12. PStep
  <2>1. Contents(s') = (IF InMemory THEN <<>> ELSE Contents(s)) /\ Pos(s') \in Int
    BY <1>0, <1>2, <1>6, <1>7, <1>8
  <2>2. QED
    BY <1>10, <2>1, ClosePromise
<1>13. QED
  BY <1>11, <1>12

\* A stream over a descriptor that was just opened.
LEMMA FreshView ==
  ASSUME ~InMemory, NEW data \in Seq(Byte)
  PROVE  /\ Opened(data).state = "none" /\ Opened(data).buf = <<>>
         /\ Opened(data).bpos = 0 /\ Opened(data).ndirty = 0 /\ Opened(data).off = 0
         /\ Opened(data).eof = FALSE /\ Opened(data).data = data /\ Opened(data).bm = Mode
BY Zenon, IosAssumption DEF Opened, InMemory

LEMMA OpenedSeen ==
  ASSUME ~InMemory, NEW data \in Seq(Byte), NEW t \in Openings(data)
  PROVE  View(t) /\ Contents(t) = data /\ Pos(t) = 0 /\ ~t.eof /\ t.bm = Mode
<1> DEFINE o == Opened(data)
<1>1. /\ o.buf = <<>> /\ o.bpos = 0 /\ o.ndirty = 0 /\ o.bm = Mode /\ o.eof = FALSE
      /\ o.data = data /\ o.off = 0 /\ o \in Stream
  BY FreshView, OpenedGood
<1>2. t \in Stream /\ \A f \in DOMAIN o \ {"maxsize", "inl"} : t[f] = o[f]
  BY OpeningsAre
<1> HIDE DEF o
<1>3. {"buf", "bpos", "ndirty", "bm", "eof", "data", "off"} \subseteq DOMAIN o \ {"maxsize", "inl"}
  BY <1>1, Fields
<1>4. /\ t.buf = <<>> /\ t.bpos = 0 /\ t.ndirty = 0 /\ t.bm = Mode /\ t.eof = FALSE
      /\ t.data = data /\ t.off = 0
  BY <1>1, <1>2, <1>3
<1>5. QED
  BY <1>2, <1>4, EmptyPlace

LEMMA ReopenSeen ==
  ASSUME Sound, Reopen
  PROVE  VInv' /\ PStep
<1>0. ~InMemory /\ s \in Stream /\ Shape(s) /\ s.data \in Seq(Byte)
  BY Basics
<1>1. PICK trunc \in {Kind = "file" /\ CanWrite, FALSE} :
        s' \in Openings(IF trunc THEN <<>> ELSE s.data)
  BY DEF Reopen
<1> DEFINE d == IF trunc THEN <<>> ELSE s.data
<1>2. d \in Seq(Byte) /\ d \in {s.data, <<>>}
  BY <1>0, NoBytes
<1>3. s' \in Openings(d)
  BY <1>1
<1> HIDE DEF d
<1>4. View(s') /\ Contents(s') = d /\ Pos(s') = 0 /\ ~s'.eof /\ s'.bm = Mode
  BY <1>0, <1>2, <1>3, OpenedSeen
<1>5. Contents(s) = s.data
  <2>1. s.ndirty = 0
    BY <1>0 DEF Reopen, Shape
  <2>2. QED
    BY <1>0, <2>1 DEF Contents
<1>6. call'.op = "open"
  BY DEF Reopen
<1>7. VInv'
  BY <1>4, <1>6, Seen
<1>8. PStep
  BY <1>2, <1>4, <1>5, <1>6, OpenPromise
<1>9. QED
  BY <1>7, <1>8

LEMMA PosSeen ==
  ASSUME Sound, ios_pos
  PROVE  VInv'
<1>0. /\ ~InMemory /\ s \in Stream /\ Good(s) /\ Shape(s) /\ View(s)
      /\ s' \in Stream /\ Good(s') /\ Shape(s')
      /\ (s.eof => Pos(s) >= Len(Contents(s)))
      /\ s.bm \in Modes \cup {Mode}
  BY Basics
<1> DEFINE q == FilePos
<1>1. s' = [s EXCEPT !.fpos = q] /\ call'.op = "pos"
  BY <1>0 DEF ios_pos, Did
<1> HIDE DEF q
<1>2. \A f \in DOMAIN s \ {"fpos"} : s'[f] = s[f]
  BY Zenon, <1>0, <1>1 DEF Stream
<1>3. {"state", "buf", "bpos", "ndirty", "off", "data", "eof", "bm"} \subseteq DOMAIN s \ {"fpos"}
  BY <1>0, Fields
<1>4. /\ s'.state = s.state /\ s'.buf = s.buf /\ s'.ndirty = s.ndirty /\ s'.off = s.off
      /\ s'.data = s.data /\ s'.bpos = s.bpos /\ s'.eof = s.eof /\ s'.bm = s.bm
  BY <1>2, <1>3
<1>5. View(s') /\ Contents(s') = Contents(s) /\ Pos(s') = Pos(s)
  BY <1>0, <1>4, SameView
<1>6. s'.eof => Pos(s') >= Len(Contents(s'))
  BY <1>0, <1>4, <1>5
<1>7. QED
  BY <1>0, <1>1, <1>4, <1>5, <1>6, Seen

(***************************************************************************)
(* Every step of a client that keeps its duties.                           *)
(***************************************************************************)

LEMMA PlainWrite ==
  ASSUME Sound, NEW d \in Seq(Byte) \ {<<>>}, ios_write(d)
  PROVE  VInv' /\ PStep
<1>1. Len(d) \in Nat /\ d \in Seq(Byte)
  BY LenProperties
<1>2. Writable(Len(d))
  BY <1>1, Duties DEF ios_write, Sound, Plain
<1>3. \/ UNCHANGED s /\ Did("refused", 0, <<>>, 0)
      \/ View(s') /\ Wrote(s, s', d) /\ Did("write", 0, d, Len(d))
  <2>1. Mode = "none" => s.state # "rd" \/ s.buf = <<>>
    BY <1>2 DEF ios_write, MayWrite, Sound, Plain, Writable
  <2>2. QED
    BY <1>2, <2>1, WriteWhole DEF ios_write, Sound, VInv
<1>4. CASE UNCHANGED s /\ Did("refused", 0, <<>>, 0)
  BY <1>4, RefusedSeen DEF Did
<1>5. CASE View(s') /\ Wrote(s, s', d) /\ Did("write", 0, d, Len(d))
  BY <1>1, <1>5, WriteSeen
<1>6. QED
  BY <1>3, <1>4, <1>5

LEMMA PlainPut ==
  ASSUME Sound, \/ \E d \in Payloads : ios_vprintf(d)
                \/ \E c \in Chars : ios_putc(c)
  PROVE  VInv' /\ PStep
<1>0. /\ IInv /\ SInv /\ Plain /\ View(s) /\ s.bm \in Modes \cup {Mode}
      /\ ~InMemory /\ Client # "any"
  BY DEF Sound, VInv, Plain
<1>a. ASSUME NEW d \in Seq(Byte), MayWrite(Len(d)), HasRoom, s.bpos + Len(d) <= s.maxsize,
             PutDirectly(s, d)
      PROVE  VInv' /\ PStep
  <2>1. s.status = "open"
    BY <1>0, <1>a, LenProperties, Duties DEF Writable
  <2>2. View(s') /\ Wrote(s, s', d) /\ Did("write", 0, d, Len(d))
    BY <1>0, <1>a, <2>1, PutDirectlyWhole
  <2>3. QED
    BY <2>2, WriteSeen
<1>1. ASSUME NEW d \in Payloads, ios_vprintf(d) PROVE VInv' /\ PStep
  <2>1. d \in Seq(Byte) \ {<<>>} /\ d \in Seq(Byte)
    BY Zenon, IosAssumption
  <2>2. \/ ios_write(d)
        \/ MayWrite(Len(d)) /\ HasRoom /\ s.bpos + Len(d) <= s.maxsize /\ PutDirectly(s, d)
    BY <1>0, <1>1, <2>1, PrintsPlainly
  <2>3. CASE ios_write(d)
    BY <2>1, <2>3, PlainWrite
  <2>4. QED
    BY <1>a, <2>1, <2>2, <2>3
<1>2. ASSUME NEW c \in Chars, ios_putc(c) PROVE VInv' /\ PStep
  <2>1. <<c>> \in Seq(Byte) \ {<<>>} /\ Len(<<c>>) = 1
    <3>1. c \in Byte
      BY Zenon, IosAssumption
    <3>2. QED
      BY <3>1
  <2> DEFINE d == <<c>>
  <2>2. CASE MayWrite(1) /\ HasRoom /\ PutDirectly(s, d)
    <3>1. s.bpos + 1 <= s.maxsize /\ Len(d) = 1 /\ d \in Seq(Byte)
      BY <1>0, <2>1, <2>2, Known DEF HasRoom
    <3> HIDE DEF d
    <3>2. QED
      BY <1>a, <2>2, <3>1
  <2>3. CASE ios_write(<<c>>)
    BY <2>1, <2>3, PlainWrite
  <2>4. QED
    BY Zenon, <1>2, <2>2, <2>3 DEF ios_putc
<1>3. QED
  BY <1>1, <1>2

LEMMA PlainStep ==
  ASSUME Plain, IInv, SInv, VInv, [Next]_vars
  PROVE  VInv' /\ (~AsksPos => PStep)
<1>0. Sound /\ IInv' /\ Shape(s) /\ ~InMemory /\ Client # "any"
  BY NextStep, CarefulStep DEF Sound, SInv, Plain
<1> DEFINE Fine == VInv' /\ (~AsksPos => PStep)
<1>f. VInv' /\ PStep => Fine
  OBVIOUS
<1> HIDE DEF Fine
<1>1. ASSUME NEW d \in Payloads, ios_write(d) PROVE Fine
  <2>1. d \in Seq(Byte) \ {<<>>}
    BY Zenon, IosAssumption
  <2>2. QED
    BY <1>0, <1>1, <1>f, <2>1, PlainWrite
<1>2. (\E d \in Payloads : ios_vprintf(d)) \/ (\E c \in Chars : ios_putc(c)) => Fine
  BY Zenon, <1>0, <1>f, PlainPut
<1>3. ASSUME NEW n \in Counts, ios_read(n) \/ ios_readall(n) PROVE Fine
  <2>1. n \in Nat \ {0}
    BY Zenon, IosAssumption
  <2>2. s.status = "open" /\ (s.state = "wr" => s.buf = <<>>)
    BY <1>0, <1>3, Duties DEF ios_read, ios_readall
  <2>3. CASE ios_read(n)
    <3>1. Reading("read", n) /\ "read" \in {"read", "readall", "getc"} /\ "read" # "getc"
      BY <2>3 DEF ios_read
    <3>2. QED
      BY <1>0, <1>f, <2>1, <2>2, <3>1, ReadSeen
  <2>4. CASE ios_readall(n)
    <3>1. Reading("readall", n) /\ "readall" \in {"read", "readall", "getc"} /\ "readall" # "getc"
      BY <2>4 DEF ios_readall
    <3>2. QED
      BY <1>0, <1>f, <2>1, <2>2, <3>1, ReadSeen
  <2>5. QED
    BY <1>3, <2>3, <2>4
<1>4. CASE ios_getc
  <2>1. s.state = "wr" => s.buf = <<>>
    BY <1>0, <1>4, Duties DEF ios_getc
  <2>2. QED
    BY <1>0, <1>4, <1>f, <2>1, GetcSeen
<1>5. ASSUME NEW n \in Counts, ios_readprep(n) PROVE Fine
  <2>1. n \in Nat \ {0}
    BY Zenon, IosAssumption
  <2>2. s.ndirty = 0 /\ (s.state = "wr" => s.buf = <<>>)
    BY <1>0, <1>5, Duties DEF ios_readprep, MayPrep
  <2>3. Readprep(n) /\ call'.op = "prep"
    BY <1>5 DEF ios_readprep, Did
  <2>4. QED
    BY <1>0, <1>f, <2>1, <2>2, <2>3, PrepSeen
<1>6. CASE ios_peekc
  <2>1. s.ndirty = 0 /\ (s.state = "wr" => s.buf = <<>>)
    BY <1>0, <1>6, Duties DEF ios_peekc, MayPrep
  <2>2. QED
    BY <1>0, <1>6, <1>f, <2>1, PeekSeen
<1>7. CASE ios_ungetc
  BY <1>0, <1>7, <1>f, UngetSeen DEF ios_ungetc, Open
<1>8. ASSUME NEW p \in 0..MaxSize, ios_seek(p) \/ ios_trunc(p) PROVE Fine
  <2>1. MaxSize \in Nat
    BY Zenon, IosAssumption
  <2>2. p \in Nat
    BY <2>1
  <2>3. QED
    BY <1>0, <1>8, <1>f, <2>2, SeekSeen DEF ios_trunc
<1>9. ASSUME NEW k \in Skips, ios_skip(k) PROVE Fine
  <2>1. k \in Int /\ k # 0
    BY Zenon, IosAssumption
  <2>2. Kind # "pipe" \/ s.state = "rd"
    BY <1>0, <1>9, Duties DEF ios_skip
  <2>3. QED
    BY <1>0, <1>9, <1>f, <2>1, <2>2, SkipSeen
<1>10. ASSUME NEW m \in Modes, ios_bufmode(m) PROVE Fine
  BY <1>0, <1>10, <1>f, BufmodeSeen
<1>11. ASSUME NEW n \in Bufs, ios_setbuf(n) PROVE Fine
  <2>1. n \in Nat
    BY Zenon, IosAssumption
  <2>2. Len(s.buf) <= n
    BY <1>0, <1>11 DEF ios_setbuf
  <2>3. QED
    BY <1>0, <1>11, <1>f, <2>1, <2>2, SetbufSeen
<1>12. CASE ios_seek_end \/ ios_flush
  BY <1>0, <1>12, <1>f, SeekEndSeen, FlushSeen
<1>13. CASE ios_pos
  <2>1. VInv' /\ AsksPos
    BY <1>0, <1>13, PosSeen DEF ios_pos
  <2>2. QED
    BY <2>1 DEF Fine
<1>14. CASE ios_takebuf
  BY <1>0, <1>14 DEF ios_takebuf, InMemory
<1>15. CASE ios_set_readonly
  <2>1. s.state # "rd" \/ s.buf = <<>>
    BY <1>0, <1>15 DEF ios_set_readonly
  <2>2. QED
    BY <1>0, <1>15, <1>f, <2>1, ReadonlySeen
<1>16. CASE ios_purge \/ ios_close \/ Reopen
  BY <1>0, <1>16, <1>f, PurgeSeen, CloseSeen, ReopenSeen
<1>17. CASE UNCHANGED vars
  <2>1. s' = s /\ call' = call
    BY <1>17 DEF vars
  <2>2. VInv'
    BY <2>1 DEF VInv, EofIsEnd, Remembered
  <2>3. PStep
    BY <2>1 DEF PStep, Pointer!vars
  <2>4. QED
    BY <1>f, <2>2, <2>3
<1>18. QED
  <2>1. \/ UNCHANGED vars
        \/ \E d \in Payloads : ios_write(d) \/ ios_vprintf(d)
        \/ \E c \in Chars : ios_putc(c)
        \/ \E n \in Counts : ios_read(n) \/ ios_readall(n) \/ ios_readprep(n)
        \/ ios_getc \/ ios_peekc \/ ios_ungetc
        \/ \E p \in 0..MaxSize : ios_seek(p) \/ ios_trunc(p)
        \/ \E k \in Skips : ios_skip(k)
        \/ \E m \in Modes : ios_bufmode(m)
        \/ \E n \in Bufs : ios_setbuf(n)
        \/ ios_seek_end \/ ios_pos \/ ios_flush \/ ios_takebuf \/ ios_set_readonly
        \/ ios_purge \/ ios_close \/ Reopen
    BY Zenon DEF Next
  <2>2. Fine
    <3>1. (\E d \in Payloads : ios_write(d) \/ ios_vprintf(d)) => Fine
      BY Zenon, <1>1, <1>2
    <3>2. (\E c \in Chars : ios_putc(c)) => Fine
      BY Zenon, <1>2
    <3>3. (\E n \in Counts : ios_read(n) \/ ios_readall(n) \/ ios_readprep(n)) => Fine
      BY Zenon, <1>3, <1>5
    <3>4. (\E p \in 0..MaxSize : ios_seek(p) \/ ios_trunc(p)) => Fine
      BY Zenon, <1>8
    <3>5. /\ (\E k \in Skips : ios_skip(k)) => Fine
          /\ (\E m \in Modes : ios_bufmode(m)) => Fine
          /\ (\E n \in Bufs : ios_setbuf(n)) => Fine
      BY Zenon, <1>9, <1>10, <1>11
    <3>6. UNCHANGED vars \/ ios_getc \/ ios_peekc \/ ios_ungetc => Fine
      BY Zenon, <1>4, <1>6, <1>7, <1>17 DEF Fine
    <3>7. ios_seek_end \/ ios_pos \/ ios_flush => Fine
      BY Zenon, <1>12, <1>13 DEF Fine
    <3>8. ios_takebuf \/ ios_set_readonly \/ ios_purge \/ ios_close \/ Reopen => Fine
      BY Zenon, <1>14, <1>15, <1>16 DEF Fine
    <3>9. QED
      BY Zenon, <2>1, <3>1, <3>2, <3>3, <3>4, <3>5, <3>6, <3>7, <3>8
  <2>3. QED
    BY <2>2 DEF Fine

(***************************************************************************)
(* The theorems about files and pipes.                                     *)
(***************************************************************************)

LEMMA PlainInit ==
  ASSUME Plain, Init
  PROVE  VInv /\ Pointer!Init
<1>1. ~InMemory /\ Initial \in Seq(Byte) /\ s \in Openings(Initial)
  BY IosAssumption DEF Init, Plain
<1>2. View(s) /\ Contents(s) = Initial /\ Pos(s) = 0 /\ ~s.eof /\ s.bm = Mode
  BY <1>1, OpenedSeen
<1>3. call = [op |-> "open", num |-> 0, bytes |-> <<>>, ret |-> 0]
  BY DEF Init
<1>5. VInv
  BY <1>2, <1>3 DEF VInv, EofIsEnd, Remembered
<1>8. Initial \in Seq(Nat)
  <2>1. Byte \subseteq Nat
    BY IosAssumption
  <2>2. QED
    BY <1>1, <2>1, SeqMonotonic
<1>9. Pointer!Init
  BY <1>2, <1>3, <1>8 DEF Pointer!Init
<1>10. QED
  BY <1>5, <1>9

\* The window never breaks while the client is careful and the descriptor works.
LEMMA PlainSafe ==
  ASSUME Plain
  PROVE  Spec => [](IInv /\ SInv /\ VInv)
<1>0. ~InMemory /\ Client # "any"
  BY DEF Plain
<1>1. Spec => [](IInv /\ SInv)
  BY <1>0, Careful
<1>2. Init => VInv
  BY PlainInit
<1>3. IInv /\ SInv /\ VInv /\ [Next]_vars => VInv'
  BY PlainStep
<1>4. QED
  BY <1>1, <1>2, <1>3, PTL DEF Spec

\* While nothing is dirty, the buffer of a file that is being read is the part of
\* the file that ends at the offset (the diagram at the top of ios.c).
THEOREM BufferIsTheFile ==
  ASSUME Plain \/ InMemory
  PROVE  Spec => []BufferIsView
<1>1. ASSUME Plain, IInv, SInv, VInv PROVE BufferIsView
  <2> SUFFICES ASSUME Kind = "file", s.state = "rd", s.ndirty = 0
               PROVE  /\ Len(s.buf) <= s.off
                      /\ s.off > Len(s.data) => s.buf = <<>>
                      /\ s.off <= Len(s.data) =>
                           s.buf = Slice(s.data, s.off - Len(s.buf), Len(s.buf))
    BY DEF BufferIsView
  <2>1. /\ ~InMemory /\ s \in Stream /\ Good(s) /\ Shape(s) /\ Clean(s)
    BY <1>1, Known DEF SInv, VInv, View, Plain
  <2>2. /\ s.buf \in Seq(Byte) /\ s.data \in Seq(Byte) /\ Len(s.buf) \in Nat
        /\ Len(s.data) \in Nat /\ s.off \in Nat /\ BufferAt(s) \in Nat
        /\ BufferAt(s) + Len(s.buf) = s.off /\ 0 \in Byte
    BY <2>1, Places
  <2>3. /\ s.buf # <<>> => s.off <= Len(s.data)
        /\ \A i \in 1..Len(s.buf) : s.buf[i] = s.data[BufferAt(s) + i]
    BY <2>1 DEF Clean
  <2>4. ASSUME s.off <= Len(s.data)
        PROVE  s.buf = Slice(s.data, BufferAt(s), Len(s.buf))
    <3> DEFINE at == BufferAt(s)
               n  == Len(s.buf)
               c  == s.data
               v  == Slice(c, at, n)
    <3>0. c \in Seq(Byte) /\ at \in Nat /\ n \in Nat /\ Within(c, at, n)
      BY <2>2, <2>4 DEF Within
    <3> HIDE DEF at, n, c
    <3>1. IsSlice(v, c, at, n)
      BY <3>0, SliceIs
    <3>2. v \in Seq(Byte) /\ Len(v) = n /\ \A i \in 1..n : v[i] = c[at + i]
      BY <3>1 DEF IsSlice
    <3> HIDE DEF v
    <3>3. n = Len(s.buf) /\ \A i \in 1..n : s.buf[i] = c[at + i]
      BY <2>3 DEF at, n, c
    <3>4. s.buf \in Seq(Byte) /\ Len(s.buf) = Len(v) /\ \A i \in 1..Len(s.buf) : s.buf[i] = v[i]
      BY <2>2, <3>2, <3>3
    <3>5. s.buf = v
      BY <3>2, <3>4, SeqEqual
    <3>6. QED
      BY <3>5 DEF v, at, n, c
  <2>5. BufferAt(s) = s.off - Len(s.buf) /\ Len(s.buf) <= s.off
    BY <2>2
  <2>6. QED
    BY <2>2, <2>3, <2>4, <2>5
<1>2. CASE Plain
  <2>1. IInv /\ SInv /\ VInv => BufferIsView
    BY <1>1, <1>2
  <2>2. QED
    BY <1>2, <2>1, PlainSafe, PTL
<1>3. CASE InMemory
  <2>1. BufferIsView
    BY <1>3 DEF BufferIsView, InMemory
  <2>2. QED
    BY <2>1, PTL
<1>4. QED
  BY <1>2, <1>3

\* ios_eof says end of file only when the client has had every byte.
THEOREM EofOnlyAtTheEnd ==
  ASSUME Plain \/ (InMemory /\ Client # "any")
  PROVE  Spec => []EofIsEnd
<1>1. CASE Plain
  <2>1. VInv => EofIsEnd
    BY DEF VInv
  <2>2. QED
    BY <1>1, <2>1, PlainSafe, PTL
<1>2. CASE InMemory /\ Client # "any"
  <2>1. MemView => EofIsEnd
    BY Zenon, <1>2, InBuf DEF MemView, EofIsEnd
  <2>2. QED
    BY <1>2, <2>1, MemDutiful, PTL
<1>3. QED
  BY <1>1, <1>2

\* A stream that is opened in line mode and stays in it, as stdout, never keeps a
\* finished line back.
THEOREM FinishedLinesAreOut ==
  ASSUME Plain, Modes \subseteq {"line"}
  PROVE  Spec => []LinesGoOut
<1>1. ASSUME IInv, SInv, VInv PROVE LinesGoOut
  <2>1. CASE Mode = "line"
    <3>1. LineMode /\ Lines(s)
      BY <1>1, <2>1 DEF LineMode, VInv, View
    <3>2. Len(s.buf) \in Nat /\ s.ndirty \in Nat
      BY <1>1, Known, Fields
    <3>3. \A i \in 1..Min2(s.ndirty, Len(s.buf)) : i \in 1..Len(s.buf)
      BY <3>2 DEF Min2
    <3>4. QED
      BY <3>1, <3>3 DEF Lines, LinesGoOut
  <2>2. CASE Mode # "line"
    BY <2>2 DEF LinesGoOut
  <2>3. QED
    BY <2>1, <2>2
<1>2. IInv /\ SInv /\ VInv => LinesGoOut
  BY <1>1
<1>3. QED
  BY <1>2, PlainSafe, PTL

\* Nobody who keeps to the duties of ios.h, and does not ask where it is, can tell
\* a stream over a file or a pipe from an array of bytes with a pointer into it:
\* whatever is buffered, dirty, flushed or read ahead, every call of ios.c is a
\* step of ByteStream.
THEOREM DescriptorIsAPointer ==
  ASSUME Plain, ~AsksPos
  PROVE  Spec => PointerSpec
<1>1. Init => Pointer!Init
  BY PlainInit
<1>2. IInv /\ SInv /\ VInv /\ [Next]_vars => PStep
  BY PlainStep
<1>3. IInv /\ SInv /\ VInv /\ [Next]_vars => [Pointer!Next]_(Pointer!vars)
  BY <1>2 DEF PStep
<1>4. QED
  BY <1>1, <1>3, PlainSafe, PTL DEF Spec, PointerSpec, Pointer!Spec

-------------------------------------------------------------------------------
(***************************************************************************)
(* A stream that is only written, as the one that the calls made of calls  *)
(* write to: it is never in the reading state, and stays open.             *)
(***************************************************************************)

Orderly == Client # "any" /\ (InMemory \/ Plain) /\ Mode # "none"

WInv ==
  /\ IInv
  /\ InMemory => MemOK /\ MemView
  /\ ~InMemory => SInv /\ VInv
  /\ s.status = "open" /\ s.state # "rd"

\* What a writer that keeps WInv sees of a call that wrote r bytes of d.
WroteSome(d, r) ==
  /\ r \in 0..Len(d) /\ call'.ret = r
  /\ Contents(s') = Overlay(Contents(s), Pos(s), First(d, r)) /\ Pos(s') = Pos(s) + r

\* Neither read nor closed: what every step of a write keeps.
Unread(t) == {"state", "status"} \subseteq DOMAIN t /\ t.state # "rd" /\ t.status # "closed"

LEMMA UnreadKept ==
  ASSUME NEW t, Unread(t)
  PROVE  /\ \A p : Unread(Lseek(t, p))
         /\ \A d : Unread(KernelWrite(t, d)) /\ Unread(Put(t, d))
         /\ \A nw : Unread(Flush(t, nw))
         /\ \A cap : Unread(Resized(t, cap))
         /\ Unread(ForWriting(t)) /\ Unread([t EXCEPT !.state = "wr"])
         /\ Unread([t EXCEPT !.status = "hung"]) /\ Unread([t EXCEPT !.fpos = -1])
<1>1. \A p : Unread(Lseek(t, p))
  BY Zenon DEF Lseek, Unread
<1>2. \A d : Unread(KernelWrite(t, d)) /\ Unread(Put(t, d))
  BY Zenon DEF KernelWrite, Put, Unread
<1>3. \A cap : Unread(Resized(t, cap))
  BY Zenon DEF Resized, Unread
<1>4. /\ Unread(ForWriting(t)) /\ Unread([t EXCEPT !.state = "wr"])
      /\ Unread([t EXCEPT !.status = "hung"]) /\ Unread([t EXCEPT !.fpos = -1])
  BY DEF ForWriting, Unread
<1>5. ASSUME NEW nw PROVE Unread(Flush(t, nw))
  <2> DEFINE out == KernelWrite(t, First(t.buf, Min2(nw, Len(t.buf))))
             clean == [out EXCEPT !.ndirty = 0, !.fpos = -1,
                         !.status = IF t.ndirty > Len(t.buf) THEN "corrupt" ELSE @]
             l == Lseek(clean, clean.off + t.bpos - nw)
             w == [l EXCEPT !.buf = After(@, t.ndirty), !.bpos = 0]
  <2>1. Unread(out)
    BY <1>2
  <2> HIDE DEF out
  <2>2. Unread(clean)
    BY <2>1 DEF Unread
  <2> HIDE DEF clean
  <2>3. Unread(l)
    BY <2>2, Zenon DEF Lseek, Unread
  <2> HIDE DEF l
  <2>4. Unread(w)
    BY <2>3, Zenon DEF Unread
  <2>5. t.state # "rd"
    BY DEF Unread
  <2>6. CASE t.state = "wr"
    <3>1. FlushDirty(t, nw) = w
      BY <2>5, <2>6 DEF FlushDirty, out, clean, l
    <3> QED
      BY <2>4, <3>1 DEF Flush
  <2>7. CASE t.state # "wr"
    <3>1. FlushDirty(t, nw) = clean
      BY <2>5, <2>7 DEF FlushDirty, out, clean
    <3> QED
      BY <2>2, <3>1 DEF Flush
  <2> QED
    BY <2>6, <2>7
<1> QED
  BY <1>1, <1>2, <1>3, <1>4, <1>5

LEMMA WritingUnread ==
  ASSUME Unread(s), NEW d, Writing(s, d)
  PROVE  Unread(s')
<1> DEFINE o == ForWriting(s)
<1>0. Unread(o)
  BY UnreadKept
<1>1. CASE UNCHANGED s
  BY <1>1
<1>2. CASE WriteMem(s, d)
  <2>1. PICK cap : s' = WriteGrow(o, d, cap)
    BY <1>2 DEF WriteMem
  <2>2. Unread(Resized(o, cap))
    BY <1>0, UnreadKept
  <2> QED
    BY <2>1, <2>2, UnreadKept DEF WriteGrow
<1>3. CASE WriteUnbuffered(s, d)
  <2>1. PICK nw : s' = KernelWrite([o EXCEPT !.fpos = -1], First(d, nw))
    BY <1>3 DEF WriteUnbuffered
  <2>2. Unread([o EXCEPT !.fpos = -1])
    BY <1>0, UnreadKept
  <2> QED
    BY <2>1, <2>2, UnreadKept
<1>b. ASSUME NEW t, Unread(t), NEW j, NEW nw PROVE Unread(BufferedWrite(t, d, j, nw))
  <2>1. Unread(Put(t, First(d, j))) /\ Unread(Put(t, d))
    BY <1>b, UnreadKept
  <2>2. Unread(Flush(Put(t, First(d, j)), nw))
    BY <2>1, UnreadKept
  <2>3. Unread(Put(Flush(Put(t, First(d, j)), nw), After(d, j)))
    BY <2>2, UnreadKept
  <2> QED
    BY <2>1, <2>3 DEF BufferedWrite
<1>4. CASE WriteBuffered(s, d)
  <2>1. PICK j, nw : s' = BufferedWrite(o, d, j, nw)
    BY <1>4 DEF WriteBuffered
  <2> QED
    BY <1>0, <1>b, <2>1
<1>5. CASE WriteThrough(s, d)
  <2>1. PICK nw : LET f == Flush([o EXCEPT !.state = "wr"], nw) IN
                  \/ \E nd : s' = KernelWrite(f, First(d, nd))
                  \/ \E j, nl : s' = BufferedWrite(f, d, j, nl)
                  \/ s' = [f EXCEPT !.status = "hung"]
    BY <1>5, Zenon DEF WriteThrough
  <2>2. PICK f : f = Flush([o EXCEPT !.state = "wr"], nw)
    OBVIOUS
  <2>3. Unread([o EXCEPT !.state = "wr"])
    BY <1>0, UnreadKept
  <2>4. Unread(f)
    BY <2>2, <2>3, UnreadKept
  <2>5. \/ \E nd : s' = KernelWrite(f, First(d, nd))
        \/ \E j, nl : s' = BufferedWrite(f, d, j, nl)
        \/ s' = [f EXCEPT !.status = "hung"]
    BY <2>1, <2>2
  <2>6. /\ \A nd : Unread(KernelWrite(f, First(d, nd)))
        /\ Unread([f EXCEPT !.status = "hung"])
    BY <2>4, UnreadKept
  <2>7. \A j, nl : Unread(BufferedWrite(f, d, j, nl))
    BY <2>4, <1>b
  <2> QED
    BY <2>5, <2>6, <2>7, Zenon
<1> QED
  BY <1>1, <1>2, <1>3, <1>4, <1>5 DEF Writing

LEMMA WriterUnread == WInv => Unread(s)
<1> SUFFICES ASSUME WInv PROVE Unread(s)
  OBVIOUS
<1>1. s \in Stream
  BY Known DEF WInv
<1>2. {"state", "status"} \subseteq DOMAIN s
  BY <1>1 DEF Stream
<1> QED
  BY <1>2 DEF WInv, Unread

LEMMA WriterTyped ==
  ASSUME WInv
  PROVE  Contents(s) \in Seq(Byte) /\ Pos(s) \in Nat
<1>0. IInv /\ s \in Stream /\ Good(s) /\ s.buf \in Seq(Byte) /\ s.bpos \in Nat
  BY Known DEF WInv
<1>1. CASE InMemory
  BY <1>0, <1>1, InBuf
<1>2. CASE ~InMemory
  BY <1>0, <1>2, Window, Places DEF WInv, SInv, VInv, View
<1> QED
  BY <1>1, <1>2

\* What is left to show of a step of a descriptor stream.
LEMMA WriterSeen ==
  ASSUME IInv', ~InMemory, SInv', VInv', Unread(s')
  PROVE  WInv'
<1>1. s'.status = "open"
  BY DEF SInv, Unread
<1> QED
  BY <1>1 DEF WInv, Unread

LEMMA WriterMem ==
  ASSUME IInv', InMemory, MemOK', MemView', Unread(s')
  PROVE  WInv'
<1>1. s'.status = "open"
  BY DEF MemOK, Unread
<1> QED
  BY <1>1 DEF WInv, Unread

LEMMA WriterSound ==
  ASSUME Orderly, WInv, ~InMemory, IInv', SInv'
  PROVE  Sound
BY DEF Orderly, WInv, Sound

LEMMA RefusedShape ==
  ASSUME SInv, UNCHANGED s, call'.op = "refused"
  PROVE  SInv'
<1>1. Shape(s)' = Shape(s)
  BY DEF Shape
<1> QED
  BY <1>1 DEF SInv, Taken

LEMMA WriterRests ==
  ASSUME Orderly, WInv, UNCHANGED s, Did("refused", 0, <<>>, 0)
  PROVE  WInv' /\ PStep /\ Contents(s') = Contents(s) /\ Pos(s') = Pos(s)
<1>0. call'.op = "refused" /\ s' = s
  BY DEF Did
<1>1. Contents(s') = Contents(s) /\ Pos(s') = Pos(s)
  BY <1>0
<1>2. IInv'
  <2>1. CallOK'
    BY DidQuietly
  <2> QED
    BY <2>1, StaysInv DEF WInv
<1>3. Unread(s')
  BY <1>0, WriterUnread
<1>4. PStep
  BY <1>0, <1>1, QuietPromise
<1>5. CASE InMemory
  <2>1. MemOK' /\ MemView'
    BY <1>0, <1>5 DEF WInv, MemOK, MemView
  <2> QED
    BY <1>1, <1>2, <1>3, <1>4, <1>5, <2>1, WriterMem
<1>6. CASE ~InMemory
  <2>1. SInv'
    BY <1>0, <1>6, RefusedShape DEF WInv
  <2>2. VInv'
    BY <1>0, <1>2, <1>6, <2>1, WriterSound, RefusedSeen
  <2> QED
    BY <1>1, <1>2, <1>3, <1>4, <1>6, <2>1, <2>2, WriterSeen
<1> QED
  BY <1>5, <1>6

\* Nothing is written: the stream may only turn to the writing state.
LEMMA NothingWritten ==
  ASSUME Orderly, WInv, ~InMemory, Writing(s, <<>>), ~s.readonly
  PROVE  /\ s' = ForWriting(s) /\ Did("write", 0, <<>>, 0)
<1> DEFINE o == ForWriting(s)
<1>0. /\ s \in Stream /\ Good(s) /\ s.bm \in {"line", "block"} /\ IInv /\ s.state # "rd"
      /\ s.bpos \in Nat /\ s.maxsize \in Nat /\ s.bpos <= s.maxsize
  <2>1. /\ IInv /\ s.state # "rd" /\ s \in Stream /\ Good(s) /\ Plain /\ Mode # "none"
        /\ s.bm \in Modes \cup {Mode}
    BY Known DEF WInv, VInv, Orderly
  <2>2. s.bm \in {"line", "block"}
    BY <2>1, Buffers
  <2> QED
    BY <2>1, <2>2, Known
<1>1. /\ o \in Stream /\ Good(o) /\ \A f \in DOMAIN s \ {"state"} : o[f] = s[f]
      /\ o.state = "wr"
  <2>1. s.state \in {"none", "rd", "wr"}
    BY <1>0 DEF Stream
  <2> QED
    BY <1>0, <2>1, ForWritingIs
<1>2. o.bm = s.bm /\ o.bpos = s.bpos /\ o.maxsize = s.maxsize /\ o.buf = s.buf /\ o.ndirty = s.ndirty
  BY <1>0, <1>1, Fields
<1>3. Len(<<>>) = 0 /\ <<>> \in Seq(Byte)
  BY EmptyBytes
<1> HIDE DEF o
<1>4. Len(<<>>) <= Space(o)
  <2>1. Space(o) = s.maxsize - s.bpos
    BY <1>1, <1>2 DEF Space
  <2> QED
    BY <1>0, <1>3, <2>1
<1>5. ~WriteMem(s, <<>>) /\ ~WriteUnbuffered(s, <<>>)
  BY <1>0 DEF WriteMem, WriteUnbuffered
<1>6. ~WriteThrough(s, <<>>)
  <2>1. Space(o) \in Int
    BY <1>0, <1>1, <1>2 DEF Space
  <2> QED
    BY <1>3, <1>4, <2>1 DEF WriteThrough, o
<1>7. WriteBuffered(s, <<>>)
  BY <1>5, <1>6 DEF Writing
<1>8. PICK j, nw :
        j \in LineEnds(<<>>) /\ s' = BufferedWrite(o, <<>>, j, nw) /\ Did("write", 0, <<>>, Len(<<>>))
  BY <1>7 DEF WriteBuffered, o
<1>9. ~(j > 0)
  BY <1>3, <1>8 DEF LineEnds
<1>10. s' = Put(o, <<>>)
  BY <1>8, <1>9 DEF BufferedWrite
<1>11. Put(o, <<>>) = o
  <2>1. Shape(s) /\ s.state \in {"none", "wr"} /\ s.ndirty \in Nat /\ Len(s.buf) \in Nat
        /\ s.bpos <= Len(s.buf)
    BY <1>0, Fields DEF WInv, SInv, Stream, Good
  <2>2. s.ndirty = Len(s.buf)
    <3>1. s.state = "none" => Len(s.buf) = 0
      BY <2>1, <1>3 DEF Shape
    <3> QED
      BY <2>1, <3>1 DEF Shape
  <2>3. Overlay(o.buf, o.bpos, <<>>) = o.buf
    BY OverlayNothing
  <2>4. o.bpos + Len(<<>>) = o.bpos /\ Max2(o.ndirty, o.bpos + Len(<<>>)) = o.ndirty
    BY <1>0, <1>2, <1>3, <2>1, <2>2 DEF Max2
  <2>5. Put(o, <<>>) = [o EXCEPT !.buf = o.buf, !.bpos = o.bpos, !.ndirty = o.ndirty]
    BY Zenon, <2>3, <2>4 DEF Put
  <2> QED
    BY <1>1, <2>5 DEF Stream
<1> QED
  BY <1>3, <1>8, <1>10, <1>11 DEF o

LEMMA WroteNothing ==
  ASSUME WInv, NEW d \in Seq(Byte), s' = s, call'.ret = 0
  PROVE  WroteSome(d, 0)
<1>1. Contents(s) \in Seq(Byte) /\ Pos(s) \in Nat /\ Len(d) \in Nat
  BY WriterTyped, LenProperties
<1>2. First(d, 0) = <<>> /\ Overlay(Contents(s), Pos(s), <<>>) = Contents(s)
  BY FirstNone, OverlayNothing
<1> QED
  BY <1>1, <1>2 DEF WroteSome

LEMMA WritesMemory ==
  ASSUME Orderly, WInv, InMemory, NEW d \in Seq(Byte), Writing(s, d), ~s.readonly
  PROVE  WInv' /\ PStep /\ \E r \in 0..Len(d) : WroteSome(d, r)
<1> DEFINE o == ForWriting(s)
<1>0. /\ IInv /\ MemOK /\ MemView /\ s.bm = "mem" /\ s.state # "rd" /\ Len(d) \in Nat
      /\ s.buf \in Seq(Byte) /\ s.bpos \in Nat /\ Len(s.buf) \in Nat
      /\ s \in Stream /\ Good(s)
  BY Known, LenProperties DEF WInv, MemOK
<1>1. PICK k \in 0..Len(d) :
        /\ Did("write", 0, d, k) /\ (k = Len(d) \/ AllocFails)
        /\ s'.buf = Overlay(o.buf, o.bpos, First(d, k)) /\ s'.bpos = o.bpos + k
        /\ s'.eof = o.eof /\ s'.bm = o.bm /\ s'.status = o.status
  BY <1>0, MemWriting
<1>2. /\ o.bm = s.bm /\ o.status = s.status /\ o.eof = s.eof
      /\ o.buf = s.buf /\ o.bpos = s.bpos
  BY <1>0, MemForWriting
<1> HIDE DEF o
<1>3. /\ s'.buf = Overlay(s.buf, s.bpos, First(d, k)) /\ s'.bpos = s.bpos + k
      /\ s'.bm = s.bm /\ s'.eof = s.eof /\ s'.status = s.status
  BY Zenon, <1>1, <1>2
<1>4. call'.op = "write" /\ call'.ret = k
  BY <1>1 DEF Did
<1>5. IInv'
  BY <1>0, WritingStep
<1>6. Unread(s')
  BY WriterUnread, WritingUnread
<1>7. MemOK'
  BY <1>0, <1>3, <1>4, MemNext DEF MemOK
<1>8. First(d, k) \in Seq(Byte) /\ Len(First(d, k)) = k
  BY <1>0, FirstBytes
<1>9. MemView'
  <2>1. s'.eof => s'.bpos >= Len(s'.buf)
    <3>1. SUFFICES ASSUME s.eof PROVE s'.bpos >= Len(s'.buf)
      BY Zenon, <1>3
    <3>2. s.bpos >= Len(s.buf)
      BY Zenon, <1>0, <3>1 DEF MemView
    <3>3. Len(s'.buf) <= s.bpos + k
      BY <1>0, <1>3, <1>8, <3>2, OverlayEnd
    <3> QED
      BY <1>3, <3>3
  <2> QED
    BY <1>4, <2>1, MemSeen
<1>10. /\ Contents(s') = Overlay(Contents(s), Pos(s), First(d, k))
       /\ Pos(s') = Pos(s) + k
  BY Zenon, <1>3, InBuf
<1>11. PStep
  BY <1>1, <1>10, WritePromise
<1> QED
  BY <1>4, <1>5, <1>6, <1>7, <1>9, <1>10, <1>11, WriterMem DEF WroteSome

LEMMA WritesNothing ==
  ASSUME Orderly, WInv, ~InMemory, Writing(s, <<>>), ~s.readonly
  PROVE  WInv' /\ PStep /\ WroteSome(<<>>, 0)
<1> DEFINE o == ForWriting(s)
<1>0. IInv /\ Len(<<>>) = 0 /\ <<>> \in Seq(Byte) /\ SInv /\ VInv /\ s \in Stream /\ Good(s)
  BY Known, EmptyBytes DEF WInv
<1>1. s' = o /\ Did("write", 0, <<>>, Len(<<>>))
  BY <1>0, NothingWritten
<1>2. /\ o \in Stream /\ Good(o) /\ \A f \in DOMAIN s \ {"state"} : o[f] = s[f]
      /\ Shape(s) => Shape(o)
      /\ o.state = IF s.state = "none" THEN "wr" ELSE s.state
  BY <1>0, ForWritingIs DEF WInv
<1>3. call'.op = "write" /\ call'.ret = 0
  BY <1>0, <1>1 DEF Did
<1>4. IInv'
  BY <1>0, WritingStep
<1>5. Unread(s')
  BY WriterUnread, WritingUnread
<1>6. /\ o.buf = s.buf /\ o.bpos = s.bpos /\ o.ndirty = s.ndirty /\ o.off = s.off
      /\ o.data = s.data /\ o.bm = s.bm /\ o.eof = s.eof /\ o.status = s.status
      /\ o.state = s.state \/ s.buf = <<>>
  <2>1. s.state = "none" => s.buf = <<>>
    BY <1>0 DEF SInv, Shape
  <2>2. {"buf", "bpos", "ndirty", "off", "data", "bm", "eof", "status"} \subseteq DOMAIN s \ {"state"}
    BY <1>0, Fields
  <2> QED
    BY <1>2, <2>1, <2>2
<1> HIDE DEF o
<1>7. SInv'
  <2>1. Shape(s') /\ s'.status \in {"open", "closed"}
    BY <1>0, <1>1, <1>2, <1>6 DEF SInv
  <2> QED
    BY <1>3, <2>1, Shaped
<1>8. Sound
  BY <1>4, <1>7, WriterSound
<1>9. View(o) /\ Contents(o) = Contents(s) /\ Pos(o) = Pos(s)
  <2>1. /\ ~InMemory /\ s \in Stream /\ Good(s) /\ Shape(s) /\ View(s)
        /\ o \in Stream /\ Good(o) /\ Shape(o)
    BY <1>0, <1>2, Known DEF SInv, VInv
  <2> QED
    BY <1>6, <2>1, SameView
<1>10. Contents(s) \in Seq(Byte) /\ Pos(s) \in Nat
  BY WriterTyped
<1>11. First(<<>>, 0) = <<>> /\ Overlay(Contents(s), Pos(s), <<>>) = Contents(s)
  <2>1. PICK e \in Seq(Byte) : e = <<>>
    BY <1>0
  <2>2. First(e, 0) = <<>>
    BY FirstNone
  <2> QED
    BY <2>1, <2>2, OverlayNothing
<1>12. WroteSome(<<>>, 0)
  BY <1>0, <1>1, <1>3, <1>9, <1>10, <1>11 DEF WroteSome
<1>13. VInv' /\ PStep
  <2>1. View(s') /\ Wrote(s, s', <<>>)
    BY <1>0, <1>1, <1>6, <1>9, <1>10, <1>11 DEF Wrote
  <2> QED
    BY <1>0, <1>1, <1>8, <2>1, WriteSeen
<1> QED
  BY <1>4, <1>5, <1>7, <1>12, <1>13, WriterSeen

LEMMA WritesDescriptor ==
  ASSUME Orderly, WInv, ~InMemory, NEW d \in Seq(Byte) \ {<<>>}, Writing(s, d), ~s.readonly
  PROVE  WInv' /\ PStep /\ \E r \in 0..Len(d) : WroteSome(d, r)
<1>0. /\ IInv /\ SInv /\ VInv /\ View(s) /\ s.bm \in Modes \cup {Mode} /\ Plain
      /\ s.state # "rd" /\ Writable(Len(d)) /\ d \in Seq(Byte) /\ Len(d) \in Nat
      /\ s \in Stream /\ Good(s)
  BY Known, LenProperties DEF WInv, VInv, Orderly, Writable
<1>1. IInv'
  BY <1>0, WritingStep
<1>2. SInv'
  BY <1>0, WriteShape
<1>3. Sound
  BY <1>1, <1>2, WriterSound
<1>4. Unread(s')
  BY WriterUnread, WritingUnread
<1>5. CASE UNCHANGED s /\ Did("refused", 0, <<>>, 0)
  <2>1. s' = s /\ call'.ret = 0 /\ call'.op = "refused"
    BY <1>5 DEF Did
  <2>2. WroteSome(d, 0) /\ 0 \in 0..Len(d)
    BY <1>0, <2>1, WroteNothing
  <2>3. VInv' /\ PStep
    BY <1>3, <2>1, RefusedSeen
  <2> QED
    BY <1>1, <1>2, <1>4, <2>2, <2>3, WriterSeen
<1>6. CASE View(s') /\ Wrote(s, s', d) /\ Did("write", 0, d, Len(d))
  <2>1. VInv' /\ PStep
    BY <1>0, <1>3, <1>6, WriteSeen
  <2>2. First(d, Len(d)) = d
    BY FirstAll
  <2>3. WroteSome(d, Len(d)) /\ Len(d) \in 0..Len(d)
    BY <1>0, <1>6, <2>2 DEF WroteSome, Wrote, Did
  <2> QED
    BY <1>1, <1>2, <1>4, <2>1, <2>3, WriterSeen
<1> QED
  BY <1>0, <1>5, <1>6, WriteWhole

\* ios_write of a writer, whoever calls it: as many bytes as it answers are laid
\* over what was there, from the position on.
LEMMA WriterWrites ==
  ASSUME Orderly, WInv, NEW d \in Seq(Byte), Writing(s, d)
  PROVE  WInv' /\ PStep /\ \E r \in 0..Len(d) : WroteSome(d, r)
<1>1. CASE s.readonly /\ Did("refused", 0, <<>>, 0) /\ UNCHANGED s
  <2>1. s' = s /\ call'.ret = 0
    BY <1>1 DEF Did
  <2>2. Len(d) \in Nat
    BY LenProperties
  <2> QED
    BY <1>1, <2>1, <2>2, WriterRests, WroteNothing
<1>2. CASE ~s.readonly
  <2>1. CASE InMemory
    BY <1>2, <2>1, WritesMemory
  <2>2. CASE ~InMemory /\ d = <<>>
    <3>1. Writing(s, <<>>)
      BY <2>2
    <3>2. WInv' /\ PStep /\ WroteSome(<<>>, 0)
      BY <1>2, <2>2, <3>1, WritesNothing
    <3>3. 0 \in 0..Len(<<>>)
      BY EmptyBytes
    <3> QED
      BY <2>2, <3>2, <3>3
  <2>3. CASE ~InMemory /\ d # <<>>
    BY <1>2, <2>3, WritesDescriptor
  <2> QED
    BY <2>1, <2>2, <2>3
<1> QED
  BY <1>1, <1>2 DEF Writing

LEMMA PutsUnread ==
  ASSUME Unread(s), NEW d, PutDirectly(s, d)
  PROVE  Unread(s')
<1>1. Unread(Put(s, d)) /\ \A nw : Unread(Flush(Put(s, d), nw))
  BY UnreadKept
<1> QED
  BY <1>1 DEF PutDirectly

LEMMA WriterPuts ==
  ASSUME Orderly, WInv, NEW c \in Byte, ios_putc(c)
  PROVE  WInv' /\ PStep
<1>0. <<c>> \in Seq(Byte) /\ Len(<<c>>) = 1 /\ 1 \in Nat
  OBVIOUS
<1>1. PICK d \in Seq(Byte) : d = <<c>>
  BY <1>0
<1>d. Len(d) = 1
  BY <1>0, <1>1
<1>2. CASE HasRoom /\ PutDirectly(s, d)
  <2>0. /\ IInv /\ s.status = "open" /\ s \in Stream /\ Good(s)
        /\ s.bpos + Len(d) <= s.maxsize /\ HasRoom /\ PutDirectly(s, d)
    BY <1>d, <1>2, Known DEF WInv, HasRoom
  <2>1. IInv'
    BY <2>0, PutStep
  <2>2. Unread(s')
    BY <2>0, WriterUnread, PutsUnread
  <2>3. CASE InMemory
    <3>1. MemOK /\ Dutiful
      BY <2>3 DEF WInv, Dutiful, Orderly
    <3>2. MemOK' /\ MemView' /\ PStep
      BY <2>0, <2>3, <3>1, MemPutDirectly
    <3> QED
      BY <2>1, <2>2, <2>3, <3>2, WriterMem
  <2>4. CASE ~InMemory
    <3>1. SInv /\ Plain /\ View(s) /\ s.bm \in Modes \cup {Mode}
      BY <2>4 DEF WInv, VInv, Orderly
    <3>2. SInv'
      BY <2>0, <2>4, <3>1, PutDirectlyShape
    <3>3. View(s') /\ Wrote(s, s', d) /\ Did("write", 0, d, Len(d))
      BY <2>0, <3>1, PutDirectlyWhole
    <3>4. Sound
      BY <2>1, <2>4, <3>2, WriterSound
    <3>5. VInv' /\ PStep
      BY <3>3, <3>4, WriteSeen
    <3> QED
      BY <2>1, <2>2, <2>4, <3>2, <3>5, WriterSeen
  <2> QED
    BY <2>3, <2>4
<1>3. CASE ios_write(d)
  BY <1>3, WriterWrites DEF ios_write
<1> QED
  BY <1>1, <1>2, <1>3 DEF ios_putc

LEMMA WriterTakes ==
  ASSUME Orderly, WInv, InMemory, ios_takebuf
  PROVE  WInv' /\ PStep
<1>1. IInv /\ MemOK /\ Dutiful /\ Unread(s)
  BY WriterUnread DEF WInv, Dutiful, Orderly
<1>2. IInv'
  BY <1>1, TakebufStep
<1>3. MemOK' /\ MemView' /\ PStep
  BY <1>1, MemTakebuf
<1>4. Unread(s')
  <2>1. s.bm = "mem"
    BY <1>1 DEF MemOK
  <2>2. s' \in Retaken(s) \/ s' = s
    BY DEF ios_takebuf, Flush
  <2>3. s' = s \/ s' = [s EXCEPT !.buf = <<>>, !.bpos = 0, !.maxsize = InlSize, !.inl = TRUE]
    <3>1. s.bm = "mem" => Retaken(s) = {[[s EXCEPT !.buf = <<>>, !.bpos = 0] EXCEPT !.maxsize = InlSize, !.inl = TRUE]}
      BY Zenon DEF Retaken
    <3> QED
      BY <2>1, <2>2, <3>1
  <2> QED
    BY <1>1, <2>3, Zenon DEF Unread
<1> QED
  BY <1>2, <1>3, <1>4, WriterMem

\* A memory stream takes the place of the one that was.
LEMMA WriterOpens ==
  ASSUME Orderly, InMemory, Kind = "mem", s' = Opened(<<>>),
         call' = [op |-> "open", num |-> 0, bytes |-> <<>>, ret |-> 0]
  PROVE  WInv' /\ PStep
<1>0. <<>> \in Seq(Byte) /\ Len(<<>>) = 0 /\ 0 \in Int /\ call'.op = "open"
  BY EmptyBytes
<1>1. Opened(<<>>) \in Stream /\ Good(Opened(<<>>))
  BY <1>0, OpenedGood
<1>2. IInv'
  <2>1. CallOK'
    BY <1>0 DEF CallOK
  <2> QED
    BY <1>1, <2>1, NextInv
<1>3. s'.bm = "mem" /\ s'.status = "open" /\ s'.bpos = 0 /\ s'.eof = FALSE
  BY <1>0, MemOpened
<1>4. s'.state = "none"
  BY DEF Opened
<1>5. MemOK' /\ MemView'
  BY <1>0, <1>3 DEF MemOK, MemView
<1>6. PStep
  BY <1>0, <1>3, InBuf, OpenPromise
<1> QED
  BY <1>2, <1>3, <1>4, <1>5, <1>6 DEF WInv

LEMMA LseekUnread ==
  ASSUME Unread(s), NEW p \in Nat, ios_seek(p)
  PROVE  Unread(s')
<1>1. CASE InMemory
  BY <1>1 DEF ios_seek, Unread
<1>2. CASE ~InMemory
  <2>1. PICK nw : \/ s' = [Lseek([Flush(s, nw) EXCEPT !.eof = FALSE], p) EXCEPT !.buf = <<>>, !.bpos = 0]
                  \/ s' = [Flush(s, nw) EXCEPT !.eof = FALSE]
    BY <1>2, Zenon DEF ios_seek
  <2>2. Unread(Flush(s, nw))
    BY UnreadKept
  <2>3. Unread([Flush(s, nw) EXCEPT !.eof = FALSE])
    BY <2>2, Zenon DEF Unread
  <2>4. Unread(Lseek([Flush(s, nw) EXCEPT !.eof = FALSE], p))
    BY <2>3, UnreadKept
  <2>5. Unread([Lseek([Flush(s, nw) EXCEPT !.eof = FALSE], p) EXCEPT !.buf = <<>>, !.bpos = 0])
    BY <2>4, Zenon DEF Unread
  <2> QED
    BY <2>1, <2>3, <2>5
<1> QED
  BY <1>1, <1>2

LEMMA WriterSeeks ==
  ASSUME Orderly, WInv, NEW p \in Nat, ios_seek(p)
  PROVE  WInv' /\ PStep
<1>0. IInv /\ Unread(s')
  BY WriterUnread, LseekUnread DEF WInv
<1>1. IInv'
  BY <1>0, SeekStep
<1>2. CASE InMemory
  <2>1. MemOK /\ Dutiful
    BY <1>2 DEF WInv, Dutiful, Orderly
  <2>2. MemOK' /\ MemView' /\ PStep
    BY <1>0, <1>2, <2>1, MemSeek
  <2> QED
    BY <1>0, <1>1, <1>2, <2>2, WriterMem
<1>3. CASE ~InMemory
  <2>1. SInv
    BY <1>3 DEF WInv
  <2>2. SInv'
    BY <1>0, <1>3, <2>1, SeekShape
  <2>3. VInv' /\ PStep
    BY <1>1, <1>3, <2>2, WriterSound, SeekSeen
  <2> QED
    BY <1>0, <1>1, <1>3, <2>2, <2>3, WriterSeen
<1> QED
  BY <1>2, <1>3

LEMMA WriterLocks ==
  ASSUME Orderly, WInv, ios_set_readonly
  PROVE  WInv' /\ PStep
<1>0. IInv /\ s.state # "rd" /\ Unread(s)
  BY WriterUnread DEF WInv
<1>1. IInv'
  BY <1>0, ReadonlyStep
<1>2. Unread(s')
  <2>1. PICK nw : s' = [Flush(s, nw) EXCEPT !.state = "none", !.readonly = TRUE]
    BY DEF ios_set_readonly
  <2>2. Unread(Flush(s, nw))
    BY <1>0, UnreadKept
  <2> QED
    BY <2>1, <2>2 DEF Unread
<1>3. CASE InMemory
  <2>1. MemOK /\ Dutiful
    BY <1>3 DEF WInv, Dutiful, Orderly
  <2>2. MemOK' /\ MemView' /\ PStep
    BY <1>0, <1>3, <2>1, MemReadonly
  <2> QED
    BY <1>1, <1>2, <1>3, <2>2, WriterMem
<1>4. CASE ~InMemory
  <2>1. SInv
    BY <1>4 DEF WInv
  <2>2. SInv'
    BY <1>0, <1>4, <2>1, ReadonlyShape
  <2>3. VInv' /\ PStep
    BY <1>0, <1>1, <1>4, <2>2, WriterSound, ReadonlySeen
  <2> QED
    BY <1>1, <1>2, <1>4, <2>2, <2>3, WriterSeen
<1> QED
  BY <1>3, <1>4

LEMMA WriterInit ==
  ASSUME Orderly, Init, Kind \in {"mem", "file", "pipe"}
  PROVE  WInv /\ Pointer!Init
<1>0. IInv /\ <<>> \in Seq(Byte) /\ Initial \in Seq(Byte)
  BY InitOK, EmptyBytes, IosAssumption
<1>1. PICK data \in Seq(Byte) : s \in Openings(data)
  BY <1>0 DEF Init
<1>2. s.state = "none" /\ s.status = "open"
  <2>1. s = Opened(data) \/ s = [Opened(data) EXCEPT !.maxsize = 0, !.inl = TRUE]
    BY <1>1 DEF Openings
  <2>2. Opened(data).state = "none" /\ Opened(data).status = "open"
    BY DEF Opened
  <2>3. Opened(data) \in Stream
    BY OpenedGood
  <2> DEFINE o == Opened(data)
  <2> HIDE DEF o
  <2>4. /\ [o EXCEPT !.maxsize = 0, !.inl = TRUE].state = o.state
        /\ [o EXCEPT !.maxsize = 0, !.inl = TRUE].status = o.status
    BY <2>3, Zenon DEF Stream, o
  <2> QED
    BY <2>1, <2>2, <2>4 DEF o
<1>3. CASE InMemory
  BY <1>0, <1>2, <1>3, MemInit DEF WInv
<1>4. CASE ~InMemory
  BY <1>0, <1>2, <1>4, ShapeInit, PlainInit DEF WInv, Orderly
<1> QED
  BY <1>3, <1>4

LEMMA WriterStutters ==
  ASSUME WInv, UNCHANGED vars
  PROVE  WInv' /\ PStep
<1>1. s' = s /\ call' = call
  BY DEF vars
<1>2. IInv'
  BY <1>1, Zenon DEF WInv, IInv, TypeOK, Good
<1>3. InMemory => MemOK' /\ MemView'
  BY <1>1, Zenon DEF WInv, MemOK, MemView
<1>4. ~InMemory => SInv' /\ VInv'
  BY <1>1, Zenon DEF WInv, SInv, Taken, VInv, EofIsEnd, Remembered
<1>5. s'.status = "open" /\ s'.state # "rd"
  BY <1>1 DEF WInv
<1>6. PStep
  BY <1>1 DEF PStep, Pointer!vars
<1> QED
  BY <1>2, <1>3, <1>4, <1>5, <1>6 DEF WInv
===============================================================================
