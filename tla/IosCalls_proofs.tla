---------------------------- MODULE IosCalls_proofs ----------------------------
(***************************************************************************)
(* The calls of ios.c that are made of other calls keep what IosCalls says *)
(* of them, for every kind of the two streams, every size of the buffers   *)
(* and every content.                                                      *)
(*                                                                         *)
(* IInv, the inductive invariant, has three parts. FromInv says of the     *)
(* source that it is always a window on Initial; ToInv is the invariant of *)
(* a stream that is only written, from Ios_proofs; JInv says, place by     *)
(* place, what the call under way has done and has left to do. It needs of *)
(* the streams only how far they moved, so that a step of a call is proved *)
(* once from the lemma on what its calls made of the source, the lemma on  *)
(* what they made of the other stream, and the lemma on job.               *)
(***************************************************************************)
EXTENDS IosCalls, Bytes_proofs, WellFoundedInduction, TLAPS

-------------------------------------------------------------------------------
(***************************************************************************)
(* The instances share the operators of Bytes.                             *)
(***************************************************************************)

LEMMA FromBytes ==
  /\ \A a, b : From!Max2(a, b) = Max2(a, b) /\ From!Min2(a, b) = Min2(a, b)
  /\ \A c, n : From!First(c, n) = First(c, n) /\ From!After(c, n) = After(c, n)
  /\ \A c, at, n : From!Slice(c, at, n) = Slice(c, at, n)
  /\ \A c, at, d : From!Overlay(c, at, d) = Overlay(c, at, d)
BY DEF From!Max2, Max2, From!Min2, Min2, From!First, First, From!After, After,
       From!Slice, Slice, From!Overlay, Overlay

LEMMA ToBytes ==
  /\ \A a, b : To!Max2(a, b) = Max2(a, b) /\ To!Min2(a, b) = Min2(a, b)
  /\ \A c, n : To!First(c, n) = First(c, n) /\ To!After(c, n) = After(c, n)
  /\ \A c, at, n : To!Slice(c, at, n) = Slice(c, at, n)
  /\ \A c, at, d : To!Overlay(c, at, d) = Overlay(c, at, d)
BY DEF To!Max2, Max2, To!Min2, Min2, To!First, First, To!After, After,
       To!Slice, Slice, To!Overlay, Overlay

-------------------------------------------------------------------------------
(***************************************************************************)
(* The source: a stream that is only read. A descriptor's buffer is a view *)
(* of the file that ends at the offset.                                    *)
(***************************************************************************)

Source(t) ==
  /\ t \in From!Stream
  /\ t.bpos <= Len(t.buf) /\ Len(t.buf) <= t.maxsize
  /\ t.status \in {"open", "closed"} /\ t.off <= Len(Initial)
  /\ From!InMemory /\ t.status = "open" => t.buf = Initial
  /\ ~From!InMemory =>
       /\ t.state # "wr" /\ t.ndirty = 0 /\ t.data = Initial
       /\ t.status = "open" /\ t.maxsize = 0 => t.inl
       /\ t.inl => t.maxsize <= InlSize
       /\ Len(t.buf) <= t.off
       /\ t.buf = Slice(Initial, t.off - Len(t.buf), Len(t.buf))

LEMMA Constants ==
  /\ Initial \in Seq(Byte) /\ Len(Initial) \in Nat /\ 0 \in Byte
  /\ BufSize \in Nat /\ BufSize >= 2 /\ InlSize \in Nat /\ InlSize >= 1
  /\ MostDiv \in Nat /\ MostDiv >= 1 /\ ChunkSize \in Nat /\ ChunkSize >= 1
  /\ Byte \subseteq Nat /\ Delim \in Byte
BY IosCallsAssumption, LenProperties

LEMMA Known ==
  ASSUME NEW t \in From!Stream
  PROVE  /\ t.buf \in Seq(Byte) /\ Len(t.buf) \in Nat /\ t.maxsize \in Nat
         /\ t.bpos \in Nat /\ t.off \in Nat /\ t.data \in Seq(Byte)
         /\ t.ndirty \in Nat
BY LenProperties DEF From!Stream

\* Where the position is.
LEMMA SourcePos ==
  ASSUME NEW t, Source(t)
  PROVE  From!Pos(t) = IF From!InMemory THEN t.bpos ELSE t.off - Len(t.buf) + t.bpos
<1>1. t.off - (Len(t.buf) - t.bpos) = t.off - Len(t.buf) + t.bpos
  BY Known DEF Source
<1>2. CASE From!InMemory
  BY <1>2 DEF From!Pos
<1>3. CASE ~From!InMemory
  <2>1. t.state # "wr"
    BY <1>3 DEF Source
  <2>2. From!Pos(t) = t.off - From!Avail(t)
    BY Zenon, <1>3, <2>1 DEF From!Pos
  <2> QED
    BY <1>1, <1>3, <2>2 DEF From!Avail
<1> QED
  BY <1>2, <1>3

\* The client of an open one finds what it was opened with.
LEMMA SourceContents ==
  ASSUME NEW t, Source(t), t.status = "open"
  PROVE  From!Contents(t) = Initial
<1>1. CASE From!InMemory
  BY <1>1 DEF From!Contents, Source
<1>2. CASE ~From!InMemory
  <2>1. t.ndirty = 0 /\ t.data = Initial
    BY <1>2 DEF Source
  <2> QED
    BY Zenon, <1>2, <2>1 DEF From!Contents
<1> QED
  BY <1>1, <1>2

\* A string that is part of another, from a position on.
LEMMA PartOf ==
  ASSUME NEW S, NEW c \in Seq(S), NEW b \in Seq(S), NEW at \in Nat, at + Len(b) <= Len(c),
         \A i \in 1..Len(b) : b[i] = c[at + i], NEW k \in 0..Len(b),
         NEW n \in 0..(Len(b) - k)
  PROVE  Slice(b, k, n) = Slice(c, at + k, n) /\ Len(Slice(b, k, n)) = n
<1>1. Len(b) \in Nat /\ Len(c) \in Nat
  BY LenProperties
<1>2. k \in Nat /\ n \in Nat /\ k + n <= Len(b) /\ at + k \in Nat /\ at + k + n <= Len(c)
  BY <1>1
<1>3. /\ Slice(b, k, n) \in Seq(S) /\ Len(Slice(b, k, n)) = n
      /\ \A i \in 1..n : Slice(b, k, n)[i] = b[k + i]
  <2>1. b \in Seq(S) /\ (n > 0 => k + n <= Len(b))
    BY <1>2
  <2> QED
    BY ONLY <1>2, <2>1, SliceBytes
<1>4. /\ Slice(c, at + k, n) \in Seq(S) /\ Len(Slice(c, at + k, n)) = n
      /\ \A i \in 1..n : Slice(c, at + k, n)[i] = c[at + k + i]
  <2> DEFINE from1 == at + k
  <2>1. from1 \in Nat /\ from1 + n <= Len(c)
    BY <1>2
  <2> HIDE DEF from1
  <2>2. /\ Slice(c, from1, n) \in Seq(S) /\ Len(Slice(c, from1, n)) = n
        /\ \A i \in 1..n : Slice(c, from1, n)[i] = c[from1 + i]
    BY <1>2, <2>1, SliceBytes
  <2> QED
    BY <2>2 DEF from1
<1>5. \A i \in 1..n : b[k + i] = c[at + k + i]
  <2> TAKE i \in 1..n
  <2>1. k + i \in 1..Len(b) /\ at + (k + i) = at + k + i
    BY <1>1, <1>2
  <2> QED
    BY <2>1
<1> QED
  BY <1>3, <1>4, <1>5, SeqEqual

LEMMA PartAfter ==
  ASSUME NEW S, NEW b \in Seq(S), NEW k \in 0..Len(b)
  PROVE  After(b, k) = Slice(b, k, Len(b) - k)
<1>1. k + (Len(b) - k) = Len(b)
  BY LenProperties
<1> QED
  BY <1>1 DEF After, Slice

LEMMA PartOfPart ==
  ASSUME NEW S, NEW c \in Seq(S), NEW b \in Seq(S), NEW at \in Nat,
         at + Len(b) <= Len(c), b = Slice(c, at, Len(b))
  PROVE  \A i \in 1..Len(b) : b[i] = c[at + i]
<1>1. Len(b) \in Nat
  BY LenProperties
<1> DEFINE n == Len(b)
<1> HIDE DEF n
<1>2. \A i \in 1..n : Slice(c, at, n)[i] = c[at + i]
  BY <1>1, SliceBytes DEF n
<1> QED
  BY <1>2 DEF n

\* What is buffered and unread is what comes next.
LEMMA SourceUnread ==
  ASSUME NEW t, Source(t), t.status = "open"
  PROVE  /\ From!Pos(t) \in Nat /\ From!Avail(t) \in Nat
         /\ From!Avail(t) = Len(t.buf) - t.bpos
         /\ From!Pos(t) + From!Avail(t) <= Len(Initial)
         /\ From!InMemory => From!Pos(t) + From!Avail(t) = Len(Initial)
         /\ ~From!InMemory => From!Pos(t) + From!Avail(t) = t.off
         /\ After(t.buf, t.bpos) = Slice(Initial, From!Pos(t), From!Avail(t))
         /\ Len(After(t.buf, t.bpos)) = From!Avail(t)
         /\ \A n \in 0..From!Avail(t) :
              Slice(t.buf, t.bpos, n) = Slice(Initial, From!Pos(t), n)
<1>1. PICK b, k, o : b = t.buf /\ k = t.bpos /\ o = t.off
  OBVIOUS
<1>2. /\ b \in Seq(Byte) /\ Len(b) \in Nat /\ k \in Nat /\ o \in Nat
      /\ k <= Len(b) /\ o <= Len(Initial)
  BY <1>1, Known DEF Source
<1>3. From!Avail(t) = Len(b) - k
  BY <1>1 DEF From!Avail
<1>4. From!Pos(t) = IF From!InMemory THEN k ELSE o - Len(b) + k
  BY <1>1, SourcePos
<1>5. PICK at \in Nat : /\ at + Len(b) <= Len(Initial) /\ From!Pos(t) = at + k
                        /\ \A i \in 1..Len(b) : b[i] = Initial[at + i]
                        /\ IF From!InMemory THEN at + Len(b) = Len(Initial)
                           ELSE at + Len(b) = o
  <2>1. CASE From!InMemory
    <3>1. b = Initial
      BY <1>1, <2>1 DEF Source
    <3>2. /\ 0 \in Nat /\ 0 + Len(b) <= Len(Initial) /\ From!Pos(t) = 0 + k
          /\ 0 + Len(b) = Len(Initial)
      BY <1>2, <1>4, <2>1, <3>1
    <3>3. \A i \in 1..Len(b) : b[i] = Initial[0 + i]
      BY <1>2, <3>1
    <3> QED
      BY <2>1, <3>2, <3>3
  <2>2. CASE ~From!InMemory
    <3>1. Len(b) <= o /\ b = Slice(Initial, o - Len(b), Len(b))
      BY <1>1, <2>2 DEF Source
    <3>2. PICK at : at = o - Len(b)
      OBVIOUS
    <3>3. at \in Nat /\ at + Len(b) = o /\ From!Pos(t) = at + k
      BY <1>2, <1>4, <2>2, <3>1, <3>2
    <3>4. \A i \in 1..Len(b) : b[i] = Initial[at + i]
      BY <1>2, <3>1, <3>2, <3>3, Constants, PartOfPart
    <3> QED
      BY <1>2, <2>2, <3>3, <3>4
  <2> QED
    BY <2>1, <2>2
<1>6. k \in 0..Len(b) /\ Len(b) - k \in 0..(Len(b) - k) /\ Len(b) - k \in Nat
  BY <1>2
<1>7. \A n \in 0..(Len(b) - k) :
        Slice(b, k, n) = Slice(Initial, at + k, n) /\ Len(Slice(b, k, n)) = n
  BY <1>2, <1>5, <1>6, Constants, PartOf
<1>8. After(b, k) = Slice(b, k, Len(b) - k)
  BY <1>2, <1>6, PartAfter
<1>9. /\ After(b, k) = Slice(Initial, From!Pos(t), From!Avail(t))
      /\ Len(After(b, k)) = From!Avail(t)
      /\ \A n \in 0..From!Avail(t) : Slice(b, k, n) = Slice(Initial, From!Pos(t), n)
  BY <1>3, <1>5, <1>6, <1>7, <1>8
<1>10. /\ From!Pos(t) \in Nat /\ From!Avail(t) \in Nat
       /\ From!Pos(t) + From!Avail(t) = at + Len(b)
  BY <1>2, <1>3, <1>5, <1>6
<1> QED
  BY <1>1, <1>2, <1>3, <1>5, <1>9, <1>10

\* What calls leave alone of a source that is a descriptor.
Keeps(t, u) ==
  /\ u.ndirty = t.ndirty /\ u.data = t.data /\ (u.maxsize = 0 => u.inl = t.inl)
  /\ u.status = t.status /\ (u.inl => u.maxsize <= InlSize)

\* A buffer that holds what lies before the offset makes a source.
LEMMA SourceView ==
  ASSUME ~From!InMemory, NEW t, Source(t), t.status = "open",
         NEW u \in From!Stream, Keeps(t, u), u.state # "wr", u.maxsize >= t.maxsize,
         u.bpos <= Len(u.buf), Len(u.buf) <= u.maxsize, u.off <= Len(Initial),
         NEW at \in Nat, at + Len(u.buf) = u.off,
         \A i \in 1..Len(u.buf) : u.buf[i] = Initial[at + i]
  PROVE  /\ Source(u) /\ u.status = "open"
         /\ From!Pos(u) = at + u.bpos /\ From!Avail(u) = Len(u.buf) - u.bpos
<1>1. /\ t.ndirty = 0 /\ t.data = Initial /\ (t.maxsize = 0 => t.inl)
      /\ t.maxsize \in Nat
  BY Known DEF Source
<1>2. PICK b, o, k, n : b = u.buf /\ o = u.off /\ k = u.bpos /\ n = Len(u.buf)
  OBVIOUS
<1>3. /\ n \in Nat /\ o \in Nat /\ o <= Len(Initial) /\ at + n = o /\ k \in Nat /\ k <= n
      /\ at \in Nat /\ Len(Initial) \in Nat
  BY <1>2, Known, Constants
<1>4. b \in Seq(Byte) /\ Len(b) = n /\ \A i \in 1..n : b[i] = Initial[at + i]
  BY <1>2, Known
<1>5. b = Slice(Initial, o - n, n)
  <2>1. o - n = at
    BY ONLY <1>3
  <2>2. n > 0 => at + n <= Len(Initial)
    BY ONLY <1>3
  <2>3. Initial \in Seq(Byte)
    BY Constants
  <2>4. /\ Slice(Initial, at, n) \in Seq(Byte) /\ Len(Slice(Initial, at, n)) = n
        /\ \A i \in 1..n : Slice(Initial, at, n)[i] = Initial[at + i]
    BY ONLY <1>3, <2>2, <2>3, SliceBytes
  <2>5. b = Slice(Initial, at, n)
    BY ONLY <1>4, <2>4, SeqEqual
  <2> QED
    BY <2>1, <2>5
<1>6. u.maxsize \in Nat /\ (u.maxsize = 0 => u.inl) /\ (u.inl => u.maxsize <= InlSize)
  <2>1. u.maxsize \in Nat /\ (u.maxsize = 0 => t.maxsize = 0)
    BY <1>1, Known
  <2> QED
    BY <1>1, <2>1 DEF Keeps
<1>7. Source(u) /\ u.status = "open"
  <2>1. n <= o
    BY ONLY <1>3
  <2>2. u.ndirty = 0 /\ u.data = Initial /\ u.status = "open"
    BY <1>1 DEF Keeps
  <2> QED
    BY <1>2, <1>5, <1>6, <2>1, <2>2 DEF Source
<1>8. From!Pos(u) = o - n + k
  BY <1>2, <1>7, SourcePos
<1>9. o - n + k = at + k
  BY ONLY <1>3
<1> QED
  BY <1>2, <1>7, <1>8, <1>9 DEF From!Avail

\* Where a source's buffer starts.
LEMMA SourceStart ==
  ASSUME ~From!InMemory, NEW t, Source(t), t.status = "open"
  PROVE  \E at \in Nat : /\ at + Len(t.buf) = t.off /\ From!Pos(t) = at + t.bpos
                         /\ \A i \in 1..Len(t.buf) : t.buf[i] = Initial[at + i]
<1>1. PICK b, k, o : b = t.buf /\ k = t.bpos /\ o = t.off
  OBVIOUS
<1>2. /\ b \in Seq(Byte) /\ Len(b) \in Nat /\ k \in Nat /\ o \in Nat
      /\ o <= Len(Initial) /\ Len(b) <= o /\ b = Slice(Initial, o - Len(b), Len(b))
  BY <1>1, Known DEF Source
<1>3. PICK at : at = o - Len(b)
  OBVIOUS
<1>4. From!Pos(t) = o - Len(b) + k
  BY <1>1, SourcePos
<1>5. at \in Nat /\ at + Len(b) = o /\ From!Pos(t) = at + k
  BY <1>2, <1>3, <1>4
<1>6. \A i \in 1..Len(b) : b[i] = Initial[at + i]
  BY <1>2, <1>3, <1>5, Constants, PartOfPart
<1> QED
  BY <1>1, <1>5, <1>6

-------------------------------------------------------------------------------
(* ios_readprep of a source. *)

LEMMA InReading ==
  ASSUME NEW t, Source(t), t.status = "open"
  PROVE  LET u == [t EXCEPT !.state = "rd"] IN
         /\ Source(u) /\ u.status = "open" /\ u.eof = t.eof
         /\ From!Pos(u) = From!Pos(t) /\ From!Avail(u) = From!Avail(t)
         /\ u.maxsize = t.maxsize /\ u.bpos = t.bpos /\ u.buf = t.buf /\ u.state = "rd"
<1> DEFINE u == [t EXCEPT !.state = "rd"]
<1>0. t \in From!Stream
  BY DEF Source
<1>1. u \in From!Stream
  BY Zenon, <1>0 DEF From!Stream
<1>2. /\ u.buf = t.buf /\ u.bpos = t.bpos /\ u.maxsize = t.maxsize /\ u.off = t.off
      /\ u.ndirty = t.ndirty /\ u.data = t.data /\ u.inl = t.inl
      /\ u.status = t.status /\ u.eof = t.eof
  BY Zenon, <1>0 DEF From!Stream
<1>3. u.state = "rd"
  BY Zenon, <1>0 DEF From!Stream
<1> HIDE DEF u
<1>4. Source(u)
  BY <1>1, <1>2, <1>3 DEF Source
<1>5. From!Pos(u) = From!Pos(t)
  BY <1>2, <1>4, SourcePos
<1> QED
  BY <1>2, <1>3, <1>4, <1>5 DEF From!Avail, u

\* The source is never written, so there is nothing to flush.
LEMMA PreparedSource ==
  ASSUME Source(from), from.status = "open", NEW nw
  PROVE  From!Prepared(nw) = [from EXCEPT !.state = "rd"]
<1>1. ~(from.state = "wr" /\ ~From!InMemory)
  BY DEF Source
<1> QED
  BY <1>1 DEF From!Prepared

\* A buffer with nothing unread has room for n bytes more, if it is a whole one or
\* only one byte is wanted.
Roomy(t, n) ==
  From!Avail(t) = 0 /\ n \in 1..BufSize /\ (n = 1 \/ t.maxsize >= BufSize)
    => t.maxsize >= t.bpos + n

\* The bytes move to the front of the buffer, or the buffer gets larger.
LEMMA RoomySource ==
  ASSUME ~From!InMemory, NEW p, Source(p), p.status = "open", p.state = "rd",
         NEW n \in Nat, NEW r \in From!MakeRoom(p, n)
  PROVE  /\ Source(r) /\ r.status = "open" /\ r.eof = p.eof /\ r.state = "rd"
         /\ From!Pos(r) = From!Pos(p) /\ From!Avail(r) = From!Avail(p)
         /\ Roomy(r, n)
<1>0. /\ p \in From!Stream /\ p.buf \in Seq(Byte) /\ Len(p.buf) \in Nat /\ p.bpos \in Nat
      /\ p.bpos <= Len(p.buf) /\ p.maxsize \in Nat /\ p.off \in Nat
      /\ (p.maxsize = 0 => p.inl) /\ (p.inl => p.maxsize <= InlSize) /\ Len(p.buf) <= p.maxsize
      /\ p.off <= Len(Initial) /\ p.state = "rd"
  BY Known DEF Source
<1>1. PICK at \in Nat : /\ at + Len(p.buf) = p.off /\ From!Pos(p) = at + p.bpos
                        /\ \A i \in 1..Len(p.buf) : p.buf[i] = Initial[at + i]
  BY SourceStart
<1> DEFINE moved == [p EXCEPT !.buf = After(@, p.bpos), !.bpos = 0]
           larger(cap) == From!Resized(p, cap)
<1>2. \/ p.maxsize >= p.bpos + n /\ r = p
      \/ n <= p.maxsize /\ r = moved
      \/ /\ ~(n <= p.maxsize /\ From!Avail(p) <= p.maxsize \div 4)
         /\ \E cap \in From!Realloc(p, p.bpos + n) : r = larger(cap)
  BY FromBytes DEF From!MakeRoom
<1>3. CASE p.maxsize >= p.bpos + n /\ r = p
  BY <1>3 DEF Roomy
<1>4. CASE n <= p.maxsize /\ r = moved
  <2>1. /\ After(p.buf, p.bpos) \in Seq(Byte)
        /\ Len(After(p.buf, p.bpos)) = Len(p.buf) - p.bpos
        /\ \A i \in 1..(Len(p.buf) - p.bpos) : After(p.buf, p.bpos)[i] = p.buf[p.bpos + i]
    BY <1>0, AfterBytes
  <2>2. moved \in From!Stream
    BY Zenon, <1>0, <2>1, 0 \in Nat DEF From!Stream
  <2>3. /\ moved.buf = After(p.buf, p.bpos) /\ moved.bpos = 0 /\ moved.maxsize = p.maxsize
        /\ moved.off = p.off /\ moved.ndirty = p.ndirty /\ moved.data = p.data
        /\ moved.inl = p.inl /\ moved.status = p.status /\ moved.eof = p.eof
        /\ moved.state = p.state
    BY Zenon, <1>0 DEF From!Stream
  <2> HIDE DEF moved
  <2>4. PICK b, k, l, m : b = moved.buf /\ k = p.bpos /\ l = Len(p.buf) /\ m = Len(moved.buf)
    OBVIOUS
  <2>5. /\ k \in Nat /\ l \in Nat /\ k <= l /\ m = l - k /\ m \in Nat /\ at + k \in Nat
        /\ at + k + m = p.off
    <3>1. k \in Nat /\ l \in Nat /\ k <= l /\ m = l - k /\ at \in Nat /\ at + l = p.off
      BY <1>0, <1>1, <2>1, <2>3, <2>4
    <3> QED
      BY ONLY <3>1
  <2>6. \A i \in 1..m : b[i] = Initial[at + k + i]
    <3> TAKE i \in 1..m
    <3>1. k + i \in 1..l /\ at + (k + i) = at + k + i
      BY <2>5
    <3>2. b[i] = p.buf[k + i]
      BY <2>1, <2>3, <2>4, <2>5
    <3> QED
      BY <1>1, <2>4, <3>1, <3>2
  <2>7. /\ Keeps(p, moved) /\ moved.state # "wr" /\ moved.maxsize >= p.maxsize
        /\ moved.bpos <= Len(moved.buf) /\ Len(moved.buf) <= moved.maxsize
        /\ moved.off <= Len(Initial) /\ at + k + Len(moved.buf) = moved.off
    <3>1. 0 <= m /\ m <= l
      BY ONLY <2>5
    <3>2. m <= p.maxsize
      BY ONLY <1>0, <2>4, <2>5, <3>1
    <3>3. Keeps(p, moved) /\ moved.state # "wr"
      BY ONLY <1>0, <2>3 DEF Keeps
    <3>4. /\ moved.maxsize >= p.maxsize /\ moved.bpos <= Len(moved.buf)
          /\ Len(moved.buf) <= moved.maxsize
      BY ONLY <1>0, <2>3, <2>4, <2>5, <3>1, <3>2
    <3>5. moved.off <= Len(Initial) /\ at + k + Len(moved.buf) = moved.off
      BY ONLY <1>0, <2>3, <2>4, <2>5
    <3> QED
      BY ONLY <3>3, <3>4, <3>5
  <2>8. /\ Source(moved) /\ moved.status = "open"
        /\ From!Pos(moved) = at + k + moved.bpos
        /\ From!Avail(moved) = Len(moved.buf) - moved.bpos
    BY <2>2, <2>4, <2>5, <2>6, <2>7, SourceView
  <2>9. From!Pos(moved) = From!Pos(p) /\ From!Avail(moved) = From!Avail(p)
    BY <1>0, <1>1, <2>3, <2>4, <2>5, <2>8 DEF From!Avail
  <2>10. Roomy(moved, n)
    BY <1>0, <1>4, <2>3 DEF Roomy
  <2> QED
    BY <1>0, <1>4, <2>3, <2>8, <2>9, <2>10
<1>5. ASSUME NEW cap \in From!Realloc(p, p.bpos + n), r = larger(cap),
             ~(n <= p.maxsize /\ From!Avail(p) <= p.maxsize \div 4)
      PROVE  /\ Source(r) /\ r.status = "open" /\ r.eof = p.eof /\ r.state = "rd"
             /\ From!Pos(r) = From!Pos(p) /\ From!Avail(r) = From!Avail(p)
             /\ Roomy(r, n)
  <2>1. /\ cap \in Nat /\ cap >= p.maxsize
        /\ cap >= p.bpos + n \/ (cap = p.maxsize /\ ~(p.inl /\ p.bpos + n <= InlSize))
    BY <1>0, <1>5, Constants DEF From!Realloc
  <2>2. (p.inl /\ cap <= InlSize) \in BOOLEAN
    OBVIOUS
  <2>3. r = [p EXCEPT !.maxsize = cap, !.inl = @ /\ cap <= InlSize]
    BY <1>5 DEF From!Resized
  <2>4. r \in From!Stream
    BY Zenon, <1>0, <2>1, <2>2, <2>3 DEF From!Stream
  <2>5. /\ r.buf = p.buf /\ r.bpos = p.bpos /\ r.maxsize = cap
        /\ r.off = p.off /\ r.ndirty = p.ndirty /\ r.data = p.data
        /\ r.status = p.status /\ r.eof = p.eof /\ r.state = p.state
    BY Zenon, <1>0, <2>3 DEF From!Stream
  <2>6. (r.maxsize = 0 => r.inl = p.inl) /\ (r.inl => r.maxsize <= InlSize)
    <3>1. r.inl = (p.inl /\ cap <= InlSize)
      BY Zenon, <1>0, <2>3 DEF From!Stream
    <3>2. p.inl \in BOOLEAN
      BY <1>0 DEF From!Stream
    <3>3. cap = 0 => cap <= InlSize
      BY Constants
    <3> QED
      BY Zenon, <2>5, <3>1, <3>2, <3>3
  <2>7. /\ Source(r) /\ r.status = "open" /\ From!Pos(r) = at + r.bpos
        /\ From!Avail(r) = Len(r.buf) - r.bpos
    <3>1. /\ Keeps(p, r) /\ r.state # "wr" /\ r.maxsize >= p.maxsize
          /\ r.bpos <= Len(r.buf) /\ Len(r.buf) <= r.maxsize
          /\ r.off <= Len(Initial) /\ at + Len(r.buf) = r.off
          /\ \A i \in 1..Len(r.buf) : r.buf[i] = Initial[at + i]
      <4>1. Keeps(p, r)
        BY <2>5, <2>6, Zenon DEF Keeps
      <4>2. r.state # "wr" /\ r.maxsize >= p.maxsize /\ Len(r.buf) <= r.maxsize
        BY <1>0, <2>1, <2>5
      <4> QED
        BY <1>0, <1>1, <2>5, <4>1, <4>2
    <3> QED
      BY <2>4, <3>1, SourceView
  <2>8. Roomy(r, n)
    <3> SUFFICES ASSUME From!Avail(r) = 0, n \in 1..BufSize, n = 1 \/ r.maxsize >= BufSize
                 PROVE  cap >= p.bpos + n
      BY <2>5 DEF Roomy
    <3>1. From!Avail(p) = 0
      BY <2>5 DEF From!Avail
    <3>2. 0 <= p.maxsize \div 4
      BY <1>0
    <3>3. ~(n <= p.maxsize)
      BY <1>0, <1>5, <3>1, <3>2
    <3>4. CASE n = 1
      <4>1. p.maxsize = 0 /\ p.bpos = 0 /\ p.inl
        BY <1>0, <3>3, <3>4
      <4> QED
        BY <2>1, <3>4, <4>1, Constants
    <3>5. CASE r.maxsize >= BufSize
      BY <1>0, <2>1, <2>5, <3>3, <3>5, Constants
    <3> QED
      BY <3>4, <3>5
  <2> QED
    BY <1>1, <2>5, <2>7, <2>8 DEF From!Avail
<1> QED
  BY <1>2, <1>3, <1>4, <1>5

\* What one comes next is appended to the buffer.
LEMMA AppendedSource ==
  ASSUME ~From!InMemory, NEW r, Source(r), r.status = "open", r.state = "rd", NEW g \in Nat,
         g <= r.maxsize - Len(r.buf), g <= Len(Initial) - r.off
  PROVE  LET u == [r EXCEPT !.buf = @ \o Slice(r.data, r.off, g), !.off = @ + g] IN
         /\ Source(u) /\ u.status = "open" /\ u.eof = r.eof /\ u.state = "rd"
         /\ From!Pos(u) = From!Pos(r) /\ From!Avail(u) = From!Avail(r) + g
<1> DEFINE u == [r EXCEPT !.buf = @ \o Slice(r.data, r.off, g), !.off = @ + g]
<1>0. /\ r \in From!Stream /\ r.buf \in Seq(Byte) /\ Len(r.buf) \in Nat /\ r.bpos \in Nat
      /\ r.bpos <= Len(r.buf) /\ r.maxsize \in Nat /\ r.off \in Nat
      /\ Len(r.buf) <= r.maxsize /\ r.off <= Len(Initial) /\ r.data = Initial
      /\ Len(Initial) \in Nat /\ Initial \in Seq(Byte)
  BY Known, Constants DEF Source
<1>1. PICK at \in Nat : /\ at + Len(r.buf) = r.off /\ From!Pos(r) = at + r.bpos
                        /\ \A i \in 1..Len(r.buf) : r.buf[i] = Initial[at + i]
  BY SourceStart
<1>2. PICK b, o, d, m : b = r.buf /\ o = r.off /\ d = Slice(Initial, o, g) /\ m = Len(r.buf)
  OBVIOUS
<1>3. /\ b \in Seq(Byte) /\ Len(b) = m /\ m \in Nat /\ o \in Nat /\ at + m = o
      /\ o + g <= Len(Initial) /\ m + g <= r.maxsize /\ at \in Nat
  <2>1. /\ b \in Seq(Byte) /\ Len(b) = m /\ m \in Nat /\ o \in Nat
        /\ Len(Initial) \in Nat /\ r.maxsize \in Nat
    BY <1>0, <1>2
  <2>2. at + m = o /\ at \in Nat
    BY <1>1, <1>2
  <2>3. g <= r.maxsize - m /\ g <= Len(Initial) - o
    BY <1>2
  <2>4. o + g <= Len(Initial) /\ m + g <= r.maxsize
    BY ONLY <2>1, <2>3, g \in Nat
  <2> QED
    BY <2>1, <2>2, <2>4
<1>4. /\ d \in Seq(Byte) /\ Len(d) = g /\ \A i \in 1..g : d[i] = Initial[o + i]
  <2>1. Initial \in Seq(Byte) /\ o \in Nat /\ g \in Nat /\ (g > 0 => o + g <= Len(Initial))
    BY <1>0, <1>3
  <2>2. /\ Slice(Initial, o, g) \in Seq(Byte) /\ Len(Slice(Initial, o, g)) = g
        /\ \A i \in 1..g : Slice(Initial, o, g)[i] = Initial[o + i]
    BY ONLY <2>1, SliceBytes
  <2> QED
    BY ONLY <1>2, <2>2
<1>5. /\ b \o d \in Seq(Byte) /\ Len(b \o d) = m + g
      /\ \A i \in 1..(m + g) : (b \o d)[i] = IF i <= m THEN b[i] ELSE d[i - m]
  BY ONLY <1>3, <1>4, ConcatProperties
<1>6. u.buf = b \o d /\ u.off = o + g /\ u.bpos = r.bpos /\ u.maxsize = r.maxsize
      /\ u.ndirty = r.ndirty /\ u.data = r.data /\ u.inl = r.inl
      /\ u.status = r.status /\ u.eof = r.eof /\ u.state = r.state
  BY Zenon, <1>0, <1>2 DEF From!Stream
<1>7. u \in From!Stream
  <2>1. o + g \in Nat /\ r.buf \o Slice(r.data, r.off, g) \in Seq(Byte) /\ r.off + g \in Nat
    BY <1>0, <1>2, <1>3, <1>5
  <2> QED
    BY Zenon, <1>0, <2>1 DEF From!Stream
<1> HIDE DEF u
<1>8. \A i \in 1..(m + g) : (b \o d)[i] = Initial[at + i]
  <2> TAKE i \in 1..(m + g)
  <2>1. CASE i <= m
    <3>1. i \in 1..m /\ (b \o d)[i] = b[i]
      BY ONLY <1>3, <1>5, <2>1, i \in 1..(m + g), g \in Nat
    <3> QED
      BY <1>1, <1>2, <3>1
  <2>2. CASE ~(i <= m)
    <3>1. i - m \in 1..g /\ o + (i - m) = at + i
      BY ONLY <1>3, <2>2, g \in Nat, i \in 1..(m + g)
    <3> QED
      BY <1>4, <1>5, <2>2, <3>1
  <2> QED
    BY <2>1, <2>2
<1>9. /\ Keeps(r, u) /\ u.state # "wr" /\ u.maxsize >= r.maxsize
      /\ u.bpos <= Len(u.buf) /\ Len(u.buf) <= u.maxsize
      /\ u.off <= Len(Initial) /\ at + Len(u.buf) = u.off
  <2>1. Keeps(r, u) /\ u.state # "wr"
    BY <1>6 DEF Keeps, Source
  <2>2. g \in Nat /\ Len(u.buf) = m + g /\ m + g \in Nat
    BY <1>3, <1>5, <1>6
  <2>3. u.maxsize >= r.maxsize /\ Len(u.buf) <= u.maxsize
    BY ONLY <1>0, <1>3, <1>6, <2>2
  <2>4. u.bpos <= Len(u.buf)
    BY ONLY <1>0, <1>2, <1>3, <1>6, <2>2
  <2>5. u.off <= Len(Initial) /\ at + Len(u.buf) = u.off
    BY ONLY <1>0, <1>3, <1>6, <2>2
  <2> QED
    BY ONLY <2>1, <2>3, <2>4, <2>5
<1>10. /\ Source(u) /\ u.status = "open" /\ From!Pos(u) = at + u.bpos
       /\ From!Avail(u) = Len(u.buf) - u.bpos
  BY <1>5, <1>6, <1>7, <1>8, <1>9, SourceView
<1>11. From!Avail(u) = From!Avail(r) + g
  <2>1. From!Avail(u) = m + g - r.bpos /\ From!Avail(r) = m - r.bpos
    <3>1. From!Avail(r) = m - r.bpos
      BY ONLY <1>2 DEF From!Avail
    <3>2. Len(u.buf) = m + g /\ u.bpos = r.bpos
      BY ONLY <1>5, <1>6
    <3>3. From!Avail(u) = Len(u.buf) - u.bpos
      BY <1>10
    <3>4. From!Avail(u) = m + g - r.bpos
      BY ONLY <1>0, <1>3, <3>2, <3>3, g \in Nat
    <3> QED
      BY ONLY <3>1, <3>4
  <2> QED
    BY ONLY <1>0, <1>3, <2>1, g \in Nat
<1> QED
  BY <1>1, <1>6, <1>10, <1>11 DEF u

\* Looking ahead changes nothing of what is there, and finds nothing only at the
\* end.
LEMMA SourcePrepare ==
  ASSUME Source(from), from.status = "open", NEW n \in Nat, From!Readprep(n)
  PROVE  /\ Source(from') /\ from'.status = "open" /\ from'.eof = from.eof /\ from'.state = "rd"
         /\ From!Pos(from') = From!Pos(from) /\ From!Avail(from') >= From!Avail(from)
         /\ From!Avail(from') = 0 /\ n \in 1..BufSize /\ (n = 1 \/ from'.maxsize >= BufSize)
              => From!Pos(from) = Len(Initial)
<1> DEFINE p == [from EXCEPT !.state = "rd"]
<1>1. /\ Source(p) /\ p.status = "open" /\ p.eof = from.eof /\ p.state = "rd"
      /\ From!Pos(p) = From!Pos(from) /\ From!Avail(p) = From!Avail(from)
  BY InReading
<1>2. /\ From!Avail(from) \in Nat
      /\ From!InMemory => From!Pos(from) + From!Avail(from) = Len(Initial)
      /\ From!Pos(from) \in Nat
  BY SourceUnread
<1>3. PICK nw : LET q == From!Prepared(nw) IN
        IF From!Avail(q) >= n \/ From!InMemory THEN from' = q
        ELSE \E r \in From!MakeRoom(q, n) :
          LET most == IF r.maxsize < r.bpos + n THEN 0
                      ELSE From!Min2(r.maxsize - Len(r.buf), From!Readable(r)) IN
          \E g \in 0..most :
            /\ g = 0 => most = 0
            /\ from' = [r EXCEPT !.buf = @ \o From!Slice(r.data, r.off, g), !.off = @ + g]
  BY Zenon DEF From!Readprep
<1>4. From!Prepared(nw) = p
  BY PreparedSource
<1> HIDE DEF p
<1>5. CASE From!Avail(p) >= n \/ From!InMemory
  <2>1. from' = p
    BY <1>3, <1>4, <1>5
  <2> QED
    BY <1>1, <1>2, <1>5, <2>1
<1>6. CASE ~(From!Avail(p) >= n \/ From!InMemory)
  <2> DEFINE most(r) == IF r.maxsize < r.bpos + n THEN 0
                        ELSE Min2(r.maxsize - Len(r.buf), From!Readable(r))
  <2>1. PICK r \in From!MakeRoom(p, n) :
          \E g \in 0..most(r) :
            /\ g = 0 => most(r) = 0
            /\ from' = [r EXCEPT !.buf = @ \o Slice(r.data, r.off, g), !.off = @ + g]
    BY Zenon, <1>3, <1>4, <1>6, FromBytes
  <2>2. PICK g \in 0..most(r) :
            /\ g = 0 => most(r) = 0
            /\ from' = [r EXCEPT !.buf = @ \o Slice(r.data, r.off, g), !.off = @ + g]
    BY <2>1
  <2>3. /\ Source(r) /\ r.status = "open" /\ r.eof = p.eof /\ r.state = "rd"
        /\ From!Pos(r) = From!Pos(p) /\ From!Avail(r) = From!Avail(p)
        /\ Roomy(r, n)
    BY <1>1, <1>6, RoomySource
  <2>4. /\ Len(r.buf) \in Nat /\ r.maxsize \in Nat /\ r.off \in Nat /\ Len(Initial) \in Nat
        /\ r.bpos \in Nat
        /\ Len(r.buf) <= r.maxsize /\ r.off <= Len(Initial) /\ r.data = Initial
    BY <1>6, <2>3, Known, Constants DEF Source
  <2>5. From!Readable(r) = Len(Initial) - r.off
    BY <2>4, FromBytes DEF From!Readable, Max2
  <2>6. /\ g \in Nat /\ g <= r.maxsize - Len(r.buf) /\ g <= Len(Initial) - r.off
        /\ g = 0 => \/ r.maxsize < r.bpos + n \/ r.maxsize = Len(r.buf)
                    \/ r.off = Len(Initial)
    <3>1. 0 <= r.maxsize - Len(r.buf) /\ 0 <= Len(Initial) - r.off
      BY <2>4
    <3> QED
      BY <2>2, <2>4, <2>5, <3>1 DEF Min2
  <2>7. /\ from'.maxsize = r.maxsize
        /\ Source(from') /\ from'.status = "open" /\ from'.eof = r.eof /\ from'.state = "rd"
        /\ From!Pos(from') = From!Pos(r) /\ From!Avail(from') = From!Avail(r) + g
    <3>1. from'.maxsize = r.maxsize
      <4>1. r \in From!Stream
        BY <2>3 DEF Source
      <4> QED
        BY <2>2, <4>1, Zenon DEF From!Stream
    <3> QED
      BY <1>6, <2>2, <2>3, <2>6, <3>1, AppendedSource
  <2>8. ASSUME From!Avail(from') = 0, n \in 1..BufSize, n = 1 \/ from'.maxsize >= BufSize
        PROVE  From!Pos(from) = Len(Initial)
    <3>1. From!Avail(r) = 0 /\ g = 0
      BY <1>1, <1>2, <2>3, <2>6, <2>7, <2>8
    <3>2. r.off = Len(Initial)
      <4>1. r.maxsize >= r.bpos + n /\ r.bpos = Len(r.buf)
        BY <2>3, <2>4, <2>7, <2>8, <3>1 DEF Roomy, From!Avail
      <4> QED
        BY <2>4, <2>6, <2>8, <3>1, <4>1
    <3>3. From!Pos(r) + From!Avail(r) = r.off /\ From!Pos(r) \in Nat
      BY <1>6, <2>3, SourceUnread
    <3> QED
      BY <1>1, <2>3, <3>1, <3>2, <3>3
  <2> QED
    BY <1>1, <1>2, <2>3, <2>6, <2>7, <2>8
<1> QED
  BY <1>5, <1>6

-------------------------------------------------------------------------------
(***************************************************************************)
(* The call under way.                                                     *)
(***************************************************************************)

Job(j) ==
  j \in [op : {"none", "copy", "copyall", "until", "line", "getutf8", "peekutf8"},
         pc : {"end", "prep", "move", "look", "take", "byte", "unget", "fill", "decode", "pass"},
         num : Nat, left : Nat, total : Nat, first : BOOLEAN, ret : {0, 1, EOF}, ch : {j.ch},
         src : Seq(Byte), at : Nat, dst : Seq(Byte), pos : Nat, short : BOOLEAN]

\* Which steps a call has.
Places ==
  /\ job.op = "none" => job.pc = "end"
  /\ Copying => job.pc \in {"prep", "move", "end"}
  /\ ByLine => job.pc \in {"prep", "look", "take", "end"}
  /\ job.op = "until" => job.pc # "take"
  /\ ByCharacter => job.pc \in {"byte", "unget", "fill", "decode", "pass", "end"}
  /\ job.op = "line" => ToKind = "mem"

\* The source it was asked of: what was still to be had of it, from where on.
Asked ==
  /\ job.op # "none" => from.status = "open" /\ job.at <= Len(Initial)
  /\ job.src \in {<<>>, After(Initial, job.at)}
  /\ job.pc \notin {"end", "take"} => job.src = After(Initial, job.at)
  /\ job.pc \in {"prep", "move", "look"} => ~from.eof

\* How far it is, in both streams.
Moved ==
  (Copying \/ ByLine) /\ ~job.short =>
     From!Pos(from) = job.at + job.total /\ job.total <= Len(job.src)

Laid ==
  Copying \/ (ByLine /\ ~job.short /\ ~(job.op = "line" /\ Idle)) =>
    /\ job.total <= Len(job.src)
    /\ To!Contents(to) = Overlay(job.dst, job.pos, Passed)
    /\ To!Pos(to) = job.pos + job.total

\* What remains, and that nothing does at the end.
CopyOn ==
  Copying =>
    /\ ~Idle => ~job.short
    /\ job.op = "copy" /\ ~Idle => job.left = job.num - job.total
    /\ job.pc = "move" /\ Unread = <<>> /\ HasBuffer => From!Pos(from) = Len(Initial)
    /\ Idle /\ ~job.short /\ HasBuffer =>
         IF job.op = "copy"
         THEN job.total = Min2(job.num, Len(job.src)) /\ (ios_eof => job.total = Len(job.src))
         ELSE job.total = Len(job.src)

NoDelim == \A i \in 1..job.total : job.src[i] # Delim

LineEnd ==
  /\ \/ job.total \in 1..Len(job.src) /\ job.src[job.total] = Delim
     \/ ios_eof /\ job.total \in 0..Len(job.src)
  /\ \A i \in 1..Len(job.src) : job.src[i] = Delim => job.total <= i

LineOn ==
  ByLine /\ ~job.short =>
    IF job.pc \in {"prep", "look"} THEN NoDelim ELSE LineEnd

\* The position is at the character, or behind its first byte to put that back.
CharOn ==
  ByCharacter =>
    /\ job.pc \in {"byte", "unget", "fill", "decode"} => ~job.short /\ job.ret = 0
    /\ job.pc = "pass" => job.op = "getutf8" /\ job.ret = 0
    /\ job.pc \in {"byte", "fill", "decode", "pass"} => From!Pos(from) = job.at
    /\ job.pc \in {"unget", "fill", "decode", "pass"} =>
         job.src # <<>> /\ job.src[1] >= 128 /\ job.left = U!u8_seqlen(job.src[1]) - 1
    /\ job.pc = "unget" => /\ job.op = "getutf8" /\ From!Pos(from) = job.at + 1
                           /\ fromCall.op = "getc" /\ fromCall.bytes # <<>>
    /\ job.pc \in {"decode", "pass"} => From!Avail(from) >= job.left
    /\ job.pc = "pass" =>
         \A ch \in Char : Encodes(job.src, ch) /\ ~job.short /\ FollowedWell(job.src, ch)
                            => job.ch = ch
    /\ CharacterTaken

JInv ==
  /\ Job(job) /\ Places /\ Asked /\ Moved /\ Laid /\ CopyOn /\ LineOn /\ CharOn

\* The properties follow.
LEMMA JobComplete ==
  ASSUME JInv
  PROVE  InOrder /\ NothingLost /\ Complete /\ CharacterTaken
<1>1. InOrder
  BY DEF JInv, Laid, InOrder
<1>2. NothingLost
  BY DEF JInv, Moved, NothingLost
<1>3. CharacterTaken
  BY DEF JInv, CharOn, CharacterTaken
<1>4. Complete
  <2> SUFFICES ASSUME Idle, ~job.short, HasBuffer
               PROVE  LET all == Len(job.src)
                          delims == {i \in 1..all : job.src[i] = Delim}
                      IN CASE job.op = "copy" -> /\ job.total = Min2(job.num, all)
                                                 /\ ios_eof => job.total = all
                           [] job.op = "copyall" -> job.total = all
                           [] ByLine -> \/ job.total \in delims
                                        \/ ios_eof /\ job.total \in 0..all
                                        /\ \A i \in delims : job.total <= i
                           [] OTHER -> TRUE
    BY Zenon DEF Complete
  <2>1. job.op = "copy" => /\ job.total = Min2(job.num, Len(job.src))
                           /\ ios_eof => job.total = Len(job.src)
    BY DEF JInv, CopyOn, Copying
  <2>2. job.op = "copyall" => job.total = Len(job.src)
    BY DEF JInv, CopyOn, Copying
  <2>3. ByLine => LineEnd
    BY DEF JInv, LineOn, Idle
  <2> QED
    BY <2>1, <2>2, <2>3 DEF ByLine, LineEnd
<1> QED
  BY <1>1, <1>2, <1>3, <1>4

\* What a call did to the streams, as far as the call under way can see it.
ReadOn(k) ==
  Source(from') /\ from'.status = "open" /\ From!Pos(from') = From!Pos(from) + k

Wrote(d, r) ==
  /\ r \in 0..Len(d) /\ toCall'.ret = r
  /\ To!Contents(to') = Overlay(To!Contents(to), To!Pos(to), First(d, r))
  /\ To!Pos(to') = To!Pos(to) + r

LEMMA Typed ==
  ASSUME Job(job)
  PROVE  /\ job.num \in Nat /\ job.left \in Nat /\ job.total \in Nat /\ job.at \in Nat
         /\ job.pos \in Nat /\ job.src \in Seq(Byte) /\ Len(job.src) \in Nat
         /\ job.dst \in Seq(Byte) /\ job.short \in BOOLEAN /\ job.first \in BOOLEAN
         /\ job.ret \in {0, 1, EOF}
         /\ job.op \in {"none", "copy", "copyall", "until", "line", "getutf8", "peekutf8"}
BY LenProperties DEF Job

\* What is buffered comes next of what the call was asked of.
LEMMA NextBytes ==
  ASSUME Source(from), from.status = "open", Job(job), job.at <= Len(Initial),
         job.src = After(Initial, job.at), From!Pos(from) = job.at + job.total
  PROVE  /\ Unread \in Seq(Byte) /\ Len(Unread) \in Nat /\ Len(Unread) = From!Avail(from)
         /\ Len(job.src) = Len(Initial) - job.at
         /\ job.total + Len(Unread) <= Len(job.src)
         /\ \A i \in 1..Len(Unread) : Unread[i] = job.src[job.total + i]
<1>1. /\ From!Pos(from) \in Nat /\ From!Avail(from) \in Nat
      /\ From!Pos(from) + From!Avail(from) <= Len(Initial)
      /\ Unread = Slice(Initial, From!Pos(from), From!Avail(from))
      /\ Len(Unread) = From!Avail(from)
  BY SourceUnread DEF Unread
<1>2. PICK p, n, a, m : p = From!Pos(from) /\ n = From!Avail(from) /\ a = job.at /\ m = job.total
  OBVIOUS
<1>3. /\ p \in Nat /\ n \in Nat /\ a \in Nat /\ m \in Nat /\ p = a + m
      /\ p + n <= Len(Initial) /\ a <= Len(Initial) /\ Len(Initial) \in Nat
      /\ Initial \in Seq(Byte)
  BY <1>1, <1>2, Typed, Constants
<1>4. /\ Slice(Initial, p, n) \in Seq(Byte) /\ Len(Slice(Initial, p, n)) = n
      /\ \A i \in 1..n : Slice(Initial, p, n)[i] = Initial[p + i]
  BY ONLY <1>3, SliceBytes
<1>5. /\ Len(After(Initial, a)) = Len(Initial) - a
      /\ \A i \in 1..(Len(Initial) - a) : After(Initial, a)[i] = Initial[a + i]
  BY ONLY <1>3, AfterBytes
<1>6. \A i \in 1..n : Slice(Initial, p, n)[i] = After(Initial, a)[m + i]
  <2> TAKE i \in 1..n
  <2>1. m + i \in 1..(Len(Initial) - a) /\ a + (m + i) = p + i
    BY ONLY <1>3, i \in 1..n
  <2> QED
    BY ONLY <1>4, <1>5, <2>1, i \in 1..n
<1>7. m + n <= Len(Initial) - a
  BY ONLY <1>3
<1> QED
  BY <1>1, <1>2, <1>3, <1>4, <1>5, <1>6, <1>7

\* Laid behind what is there already, they extend it.
LEMMA Appended ==
  ASSUME Job(job), NEW d \in Seq(Byte), job.total + Len(d) <= Len(job.src),
         \A i \in 1..Len(d) : d[i] = job.src[job.total + i], NEW r \in 0..Len(d)
  PROVE  /\ Overlay(Overlay(job.dst, job.pos, Passed), job.pos + job.total, First(d, r))
              = Overlay(job.dst, job.pos, SubSeq(job.src, 1, job.total + r))
<1>1. PICK c, at, b, m, n : /\ c = job.dst /\ at = job.pos /\ b = job.src /\ m = job.total
                            /\ n = job.total + r
  OBVIOUS
<1>2. /\ c \in Seq(Byte) /\ at \in Nat /\ b \in Seq(Byte) /\ m \in Nat /\ Len(b) \in Nat
      /\ Len(d) \in Nat /\ r \in Nat /\ r <= Len(d) /\ n = m + r /\ m + Len(d) <= Len(b)
      /\ n \in Nat /\ m <= n /\ n <= Len(b)
  BY <1>1, Typed, LenProperties
<1>3. /\ First(b, n) \in Seq(Byte) /\ Len(First(b, n)) = n
      /\ \A i \in 1..n : First(b, n)[i] = b[i]
  <2>1. n \in 0..Len(b)
    BY ONLY <1>2
  <2> QED
    BY ONLY <1>2, <2>1, FirstBytes
<1>4. First(First(b, n), m) = First(b, m)
  <2>1. /\ First(b, m) \in Seq(Byte) /\ Len(First(b, m)) = m
        /\ \A i \in 1..m : First(b, m)[i] = b[i]
    <3>1. m \in 0..Len(b)
      BY ONLY <1>2
    <3> QED
      BY ONLY <1>2, <3>1, FirstBytes
  <2>2. /\ First(First(b, n), m) \in Seq(Byte) /\ Len(First(First(b, n), m)) = m
        /\ \A i \in 1..m : First(First(b, n), m)[i] = First(b, n)[i]
    <3>1. m \in 0..Len(First(b, n))
      BY ONLY <1>2, <1>3
    <3> QED
      BY ONLY <1>3, <3>1, FirstBytes
  <2>3. \A i \in 1..m : i \in 1..n
    BY ONLY <1>2
  <2>4. \A i \in 1..m : First(First(b, n), m)[i] = First(b, m)[i]
    BY ONLY <1>3, <2>1, <2>2, <2>3
  <2> QED
    BY ONLY <1>2, <2>1, <2>2, <2>4, SeqEqual
<1>5. After(First(b, n), m) = First(d, r)
  <2>1. /\ After(First(b, n), m) \in Seq(Byte) /\ Len(After(First(b, n), m)) = n - m
        /\ \A i \in 1..(n - m) : After(First(b, n), m)[i] = First(b, n)[m + i]
    <3>1. PICK e : e = First(b, n)
      OBVIOUS
    <3>2. e \in Seq(Byte) /\ Len(e) = n /\ m \in Nat /\ m <= Len(e)
      BY ONLY <1>2, <1>3, <3>1
    <3>3. /\ After(e, m) \in Seq(Byte) /\ Len(After(e, m)) = Len(e) - m
          /\ \A i \in 1..(Len(e) - m) : After(e, m)[i] = e[m + i]
      BY ONLY <3>2, AfterBytes
    <3> QED
      BY ONLY <3>1, <3>2, <3>3
  <2>2. /\ First(d, r) \in Seq(Byte) /\ Len(First(d, r)) = r
        /\ \A i \in 1..r : First(d, r)[i] = d[i]
    BY ONLY <1>2, d \in Seq(Byte), r \in 0..Len(d), FirstBytes
  <2>3. n - m = r
    BY ONLY <1>2
  <2>4. \A i \in 1..r : After(First(b, n), m)[i] = First(d, r)[i]
    <3> TAKE i \in 1..r
    <3>1. i \in 1..Len(d) /\ m + i \in 1..n
      BY ONLY <1>2, i \in 1..r
    <3>2. d[i] = b[m + i]
      BY <1>1, <3>1
    <3> QED
      BY ONLY <1>3, <2>1, <2>2, <2>3, <3>1, <3>2, i \in 1..r
  <2> QED
    BY ONLY <1>2, <2>1, <2>2, <2>3, <2>4, SeqEqual
<1>6. Overlay(Overlay(c, at, First(First(b, n), m)), at + m, After(First(b, n), m))
        = Overlay(c, at, First(b, n))
  <2>1. m \in 0..Len(First(b, n)) /\ 0 \in Byte
    BY <1>2, <1>3, Constants
  <2> QED
    BY ONLY <1>2, <1>3, <2>1, OverlayParts
<1>7. Passed = First(b, m) /\ SubSeq(job.src, 1, job.total + r) = First(b, n)
  BY <1>1 DEF Passed, First
<1> QED
  BY ONLY <1>1, <1>4, <1>5, <1>6, <1>7

-------------------------------------------------------------------------------
(* A call begins. *)

LEMMA BeginsJob ==
  ASSUME Source(from), To!Contents(to) \in Seq(Byte), To!Pos(to) \in Nat,
         FromRests, ToRests, NEW op, NEW pc, NEW n \in Nat, NEW over, Begins(op, pc, n, over),
         \/ op \in {"copy", "copyall"} /\ pc = "prep" /\ over = ios_eof
         \/ op = "until" /\ pc \in {"prep", "look"} /\ over = ios_eof
         \/ op \in {"getutf8", "peekutf8"} /\ pc = "byte" /\ over = FALSE
  PROVE  JInv'
<1>0. from' = from /\ to' = to /\ from.status = "open"
  BY DEF FromRests, ToRests, Begins, Ready, From!Open
<1>1. /\ From!Pos(from) \in Nat /\ From!Pos(from) <= Len(Initial) /\ From!Contents(from) = Initial
  BY <1>0, SourceUnread, SourceContents, Constants
<1>2. PICK b, at : b = After(Initial, at) /\ at = From!Pos(from)
  OBVIOUS
<1>3. b \in Seq(Byte) /\ Len(b) \in Nat /\ <<>> \in Seq(Byte)
  BY <1>1, <1>2, Constants, AfterBytes, LenProperties, EmptyBytes
<1>4. Left = b
  BY <1>1, <1>2, FromBytes DEF Left
<1>5. /\ job'.op = op /\ job'.num = n /\ job'.left = n /\ job'.total = 0 /\ job'.first = TRUE
      /\ job'.ret = 0 /\ job'.ch = 0 /\ job'.at = at /\ job'.dst = To!Contents(to)
      /\ job'.pos = To!Pos(to) /\ job'.short = FALSE
      /\ job'.pc = (IF over THEN "end" ELSE pc)
      /\ job'.src = (IF over THEN <<>> ELSE b)
  BY <1>2, <1>4 DEF Begins, NoJob
<1>e. /\ op \in {"copy", "copyall", "until"} => (over <=> from.eof)
      /\ op \in {"getutf8", "peekutf8"} => ~over
  BY DEF ios_eof
<1>6. Job(job)'
  <2>1. PICK x, y, c, p : /\ x = job'.pc /\ y = job'.src
                          /\ c = To!Contents(to) /\ p = To!Pos(to)
    OBVIOUS
  <2>2. job' = [op |-> op, pc |-> x, num |-> n, left |-> n, total |-> 0, first |-> TRUE,
          ret |-> 0, ch |-> 0, src |-> y, at |-> at, dst |-> c, pos |-> p, short |-> FALSE]
    BY <1>5, <2>1 DEF Begins, NoJob
  <2>3. /\ x \in {"end", "prep", "move", "look", "take", "byte", "unget", "fill", "decode", "pass"}
        /\ y \in Seq(Byte) /\ c \in Seq(Byte) /\ p \in Nat /\ at \in Nat
    BY <1>1, <1>2, <1>3, <1>5, <2>1
  <2>4. op \in {"none", "copy", "copyall", "until", "line", "getutf8", "peekutf8"}
    OBVIOUS
  <2> QED
    BY ONLY <2>2, <2>3, <2>4, n \in Nat DEF Job
<1>7. Places'
  BY <1>5 DEF Places, Copying, ByLine, ByCharacter
<1>8. Asked'
  BY <1>0, <1>1, <1>2, <1>5, <1>e DEF Asked
<1>9. SubSeq(job'.src, 1, 0) = <<>> /\ Len(job'.src) \in Nat
  BY <1>3, <1>5, FirstNone DEF First
<1>10. Moved'
  BY <1>0, <1>1, <1>2, <1>5, <1>9 DEF Moved
<1>11. Laid'
  <2>1. Overlay(To!Contents(to), To!Pos(to), <<>>) = To!Contents(to)
    BY OverlayNothing
  <2>2. 0 <= Len(job'.src) /\ To!Pos(to) = job'.pos + 0
    BY <1>5, <1>9
  <2>3. To!Contents(to) = Overlay(job'.dst, job'.pos, SubSeq(job'.src, 1, 0))
    BY <1>5, <1>9, <2>1
  <2> QED
    BY <1>0, <1>5, <2>2, <2>3 DEF Laid, Passed
<1>12. CopyOn'
  BY <1>0, <1>3, <1>5, <1>e, EmptyBytes DEF CopyOn, Copying, Idle, ios_eof, Min2
<1>13. LineOn'
  BY <1>0, <1>3, <1>5, <1>e, EmptyBytes DEF LineOn, NoDelim, LineEnd, ios_eof, ByLine
<1>14. CharOn'
  <2>1. CharacterTaken'
    BY <1>5, <1>e DEF CharacterTaken, Idle, ByCharacter
  <2> QED
    BY <1>0, <1>2, <1>5, <1>e, <2>1 DEF CharOn, ByCharacter
<1> QED
  BY <1>6, <1>7, <1>8, <1>10, <1>11, <1>12, <1>13, <1>14 DEF JInv

LEMMA ReadlineJob ==
  ASSUME Source(from), ios_readline
  PROVE  JInv'
<1>0. from' = from /\ from.status = "open" /\ ToKind = "mem" /\ to' = To!Opened(<<>>)
  BY DEF ios_readline, FromRests, Ready, From!Open
<1>1. /\ From!Pos(from) \in Nat /\ From!Pos(from) <= Len(Initial) /\ From!Contents(from) = Initial
  BY <1>0, SourceUnread, SourceContents, Constants
<1>2. PICK b, at : b = After(Initial, at) /\ at = From!Pos(from)
  OBVIOUS
<1>3. b \in Seq(Byte) /\ Len(b) \in Nat /\ <<>> \in Seq(Byte)
  BY <1>1, <1>2, Constants, AfterBytes, LenProperties, EmptyBytes
<1>4. Left = b
  BY <1>1, <1>2, FromBytes DEF Left
<1>5. /\ job'.op = "line" /\ job'.num = 0 /\ job'.left = 0 /\ job'.total = 0
      /\ job'.first = TRUE /\ job'.ret = 0 /\ job'.ch = 0 /\ job'.at = at /\ job'.dst = <<>>
      /\ job'.pos = 0 /\ job'.short = FALSE
      /\ job'.pc = (IF from.eof THEN "take" ELSE FirstLook)
      /\ job'.src = (IF from.eof THEN <<>> ELSE b)
  BY <1>2, <1>4 DEF ios_readline, NoJob, ios_eof
<1>6. job'.pc \in {"take", "prep", "look"} /\ (from.eof <=> job'.pc = "take")
  BY <1>5 DEF FirstLook
<1>7. Job(job)'
  <2>1. PICK x, y : x = job'.pc /\ y = job'.src
    OBVIOUS
  <2>2. job' = [op |-> "line", pc |-> x, num |-> 0, left |-> 0, total |-> 0, first |-> TRUE,
          ret |-> 0, ch |-> 0, src |-> y, at |-> at, dst |-> <<>>, pos |-> 0, short |-> FALSE]
    BY <1>5, <2>1 DEF ios_readline, NoJob
  <2>3. /\ x \in {"end", "prep", "move", "look", "take", "byte", "unget", "fill", "decode", "pass"}
        /\ y \in Seq(Byte) /\ at \in Nat /\ <<>> \in Seq(Byte)
    BY <1>1, <1>2, <1>3, <1>5, <1>6, <2>1
  <2> QED
    BY ONLY <2>2, <2>3 DEF Job
<1>8. Places'
  BY <1>0, <1>5, <1>6 DEF Places, Copying, ByLine, ByCharacter
<1>9. Asked'
  BY <1>0, <1>1, <1>2, <1>5, <1>6 DEF Asked
<1>10. SubSeq(job'.src, 1, 0) = <<>> /\ Len(job'.src) \in Nat
  BY <1>3, <1>5, FirstNone DEF First
<1>11. Moved'
  BY <1>0, <1>1, <1>2, <1>5, <1>10 DEF Moved
<1>12. Laid'
  <2>1. To!Contents(to') = <<>> /\ To!Pos(to') = 0
    BY <1>0 DEF To!Opened, To!Contents, To!Pos, To!InMemory
  <2>2. Overlay(<<>>, 0, <<>>) = <<>>
    BY OverlayNothing
  <2>3. 0 <= Len(job'.src) /\ 0 = job'.pos + 0
    BY <1>5, <1>10
  <2>4. <<>> = Overlay(job'.dst, job'.pos, SubSeq(job'.src, 1, 0))
    BY <1>5, <1>10, <2>2
  <2> QED
    BY <1>5, <2>1, <2>3, <2>4 DEF Laid, Passed
<1>13. CopyOn' /\ CharOn'
  BY <1>5 DEF CopyOn, Copying, CharOn, ByCharacter
<1>14. LineOn'
  BY <1>0, <1>3, <1>5, <1>6, EmptyBytes DEF LineOn, NoDelim, LineEnd, ios_eof, ByLine
<1> QED
  BY <1>7, <1>8, <1>9, <1>11, <1>12, <1>13, <1>14 DEF JInv

-------------------------------------------------------------------------------
(* ios_copy and ios_copyall. *)

LEMMA CopyPrepJob ==
  ASSUME JInv, Source(from), CopyPrep
  PROVE  JInv' /\ Source(from')
<1>0. /\ Job(job) /\ Places /\ Asked /\ Moved /\ Laid /\ CopyOn /\ Copying /\ job.pc = "prep"
      /\ to' = to /\ job' = [job EXCEPT !.pc = "move"] /\ job.op \in {"copy", "copyall"}
  BY DEF JInv, CopyPrep, ToRests, Copying
<1>1. from.status = "open" /\ ~from.eof /\ job.at <= Len(Initial) /\ job.src = After(Initial, job.at)
  BY <1>0 DEF Asked
<1>2. BufSize \div 2 \in Nat /\ BufSize \div 2 \in 1..BufSize
  BY Constants
<1>3. /\ Source(from') /\ from'.status = "open" /\ from'.eof = from.eof
      /\ From!Pos(from') = From!Pos(from) /\ From!Avail(from') \in Nat
      /\ From!Avail(from') = 0 /\ (From!InMemory \/ from'.maxsize >= BufSize)
           => From!Pos(from) = Len(Initial)
      /\ Len(After(from'.buf, from'.bpos)) = From!Avail(from')
  BY <1>1, <1>2, SourcePrepare, SourceUnread DEF CopyPrep, Prepare
<1>4. /\ job'.op = job.op /\ job'.pc = "move" /\ job'.num = job.num /\ job'.left = job.left
      /\ job'.total = job.total /\ job'.src = job.src /\ job'.at = job.at
      /\ job'.dst = job.dst /\ job'.pos = job.pos /\ job'.short = job.short
  BY <1>0 DEF Job
<1>5. Job(job)'
  BY <1>0 DEF Job
<1>6. Places' /\ Asked'
  BY <1>0, <1>1, <1>3, <1>4 DEF Places, Asked, Copying, ByLine, ByCharacter
<1>7. Moved' /\ Laid'
  BY <1>0, <1>3, <1>4 DEF Moved, Laid, Copying, ByLine, Passed, Idle
<1>8. CopyOn'
  <2>1. Unread' = <<>> /\ HasBuffer' => From!Pos(from') = Len(Initial)
    BY <1>3, EmptyBytes DEF Unread, HasBuffer
  <2> QED
    BY <1>0, <1>4, <2>1 DEF CopyOn, Copying, Idle
<1>9. LineOn' /\ CharOn'
  BY <1>0, <1>4 DEF LineOn, CharOn, ByLine, ByCharacter
<1> QED
  BY <1>3, <1>5, <1>6, <1>7, <1>8, <1>9 DEF JInv

LEMMA SourceEof ==
  ASSUME NEW t, Source(t), NEW e \in BOOLEAN
  PROVE  LET u == [t EXCEPT !.eof = e] IN
         /\ Source(u) /\ u.status = t.status /\ From!Pos(u) = From!Pos(t)
         /\ From!Avail(u) = From!Avail(t) /\ u.eof = e /\ u.buf = t.buf /\ u.bpos = t.bpos
         /\ u.state = t.state
<1> DEFINE u == [t EXCEPT !.eof = e]
<1>0. t \in From!Stream
  BY DEF Source
<1>1. u \in From!Stream
  BY Zenon, <1>0 DEF From!Stream
<1>2. /\ u.buf = t.buf /\ u.bpos = t.bpos /\ u.maxsize = t.maxsize /\ u.off = t.off
      /\ u.ndirty = t.ndirty /\ u.data = t.data /\ u.inl = t.inl
      /\ u.status = t.status /\ u.eof = e /\ u.state = t.state
  BY Zenon, <1>0 DEF From!Stream
<1> HIDE DEF u
<1>4. Source(u)
  BY <1>1, <1>2 DEF Source
<1>5. From!Pos(u) = From!Pos(t)
  BY <1>2, <1>4, SourcePos
<1> QED
  BY <1>2, <1>4, <1>5 DEF From!Avail, u

LEMMA CopyEndJob ==
  ASSUME JInv, Source(from), CopyEnd
  PROVE  JInv' /\ Source(from')
<1>0. /\ Job(job) /\ Places /\ Asked /\ Moved /\ Laid /\ CopyOn /\ Copying /\ job.pc = "move"
      /\ to' = to /\ job' = [job EXCEPT !.pc = "end"] /\ job.op \in {"copy", "copyall"}
      /\ Unread = <<>>
  BY DEF JInv, CopyEnd, ToRests, Copying
<1>1. from.status = "open" /\ ~from.eof /\ job.at <= Len(Initial) /\ job.src = After(Initial, job.at)
  BY <1>0 DEF Asked
<1>2. /\ Source(from') /\ from'.status = "open" /\ from'.eof = TRUE
      /\ From!Pos(from') = From!Pos(from)
  BY <1>1, SourceEof DEF CopyEnd
<1>3. /\ ~job.short /\ (HasBuffer => From!Pos(from) = Len(Initial))
      /\ From!Pos(from) = job.at + job.total
      /\ job.op = "copy" => job.left = job.num - job.total
  BY <1>0 DEF CopyOn, Moved, Idle
<1>4. /\ job'.op = job.op /\ job'.pc = "end" /\ job'.num = job.num /\ job'.left = job.left
      /\ job'.total = job.total /\ job'.src = job.src /\ job'.at = job.at
      /\ job'.dst = job.dst /\ job'.pos = job.pos /\ job'.short = job.short
  BY <1>0 DEF Job
<1>5. Job(job)'
  BY <1>0 DEF Job
<1>6. Places' /\ Asked'
  BY <1>0, <1>1, <1>2, <1>4 DEF Places, Asked, Copying, ByLine, ByCharacter
<1>7. Moved' /\ Laid'
  BY <1>0, <1>2, <1>4 DEF Moved, Laid, Copying, ByLine, Passed, Idle
<1>8. CopyOn'
  <2>0. HasBuffer' => HasBuffer
    <3>1. from \in From!Stream /\ from' = [from EXCEPT !.eof = TRUE]
      BY DEF Source, CopyEnd
    <3>2. from'.maxsize = from.maxsize
      BY <3>1, Zenon DEF From!Stream
    <3> QED
      BY <3>2 DEF HasBuffer
  <2>1. HasBuffer => Len(job.src) = job.total
    <3> HAVE HasBuffer
    <3>1. Len(job.src) = Len(Initial) - job.at
      BY <1>0, <1>1, <1>3, NextBytes
    <3>2. /\ job.total \in Nat /\ job.at \in Nat /\ Len(Initial) \in Nat
          /\ Len(Initial) = job.at + job.total
      BY <1>0, <1>3, Typed, Constants
    <3> QED
      BY ONLY <3>1, <3>2
  <2>2. job.op = "copy" => job.total <= job.num
    BY <1>0, <1>3, Typed
  <2>3. HasBuffer /\ job.op = "copy" => job.total = Min2(job.num, Len(job.src))
    BY <1>0, <2>1, <2>2, Typed DEF Min2
  <2> QED
    BY <1>0, <1>4, <2>0, <2>1, <2>3 DEF CopyOn, Copying, Idle
<1>9. LineOn' /\ CharOn'
  BY <1>0, <1>4 DEF LineOn, CharOn, ByLine, ByCharacter
<1> QED
  BY <1>2, <1>5, <1>6, <1>7, <1>8, <1>9 DEF JInv

\* The bytes that are to be written next.
LEMMA Parts ==
  ASSUME NEW S, NEW c \in Seq(S), NEW n \in 0..Len(c)
  PROVE  /\ First(c, n) \in Seq(S) /\ Len(First(c, n)) = n /\ n \in Nat
         /\ First(c, n) = <<>> <=> n = 0
         /\ \A i \in 1..n : First(c, n)[i] = c[i]
BY FirstBytes, EmptyByLength, EmptyBytes, LenProperties

\* A step over what was written.
LEMMA SourceMoved ==
  ASSUME NEW t, Source(t), t.status = "open", NEW k \in 0..From!Avail(t)
  PROVE  LET u == [t EXCEPT !.bpos = @ + k] IN
         /\ Source(u) /\ u.status = "open" /\ u.eof = t.eof
         /\ From!Pos(u) = From!Pos(t) + k /\ From!Avail(u) = From!Avail(t) - k
<1> DEFINE u == [t EXCEPT !.bpos = @ + k]
<1>0. /\ t \in From!Stream /\ t.bpos \in Nat /\ Len(t.buf) \in Nat /\ t.bpos <= Len(t.buf)
      /\ t.off \in Nat /\ k \in Nat /\ t.bpos + k <= Len(t.buf) /\ t.bpos + k \in Nat
  <2>1. /\ t \in From!Stream /\ t.bpos \in Nat /\ Len(t.buf) \in Nat /\ t.bpos <= Len(t.buf)
        /\ t.off \in Nat
    BY Known DEF Source
  <2>2. From!Avail(t) = Len(t.buf) - t.bpos
    BY DEF From!Avail
  <2>3. k \in Nat /\ t.bpos + k <= Len(t.buf) /\ t.bpos + k \in Nat
    BY ONLY <2>1, <2>2, k \in 0..From!Avail(t)
  <2> QED
    BY <2>1, <2>3
<1>1. u \in From!Stream
  BY Zenon, <1>0 DEF From!Stream
<1>2. /\ u.buf = t.buf /\ u.bpos = t.bpos + k /\ u.maxsize = t.maxsize /\ u.off = t.off
      /\ u.ndirty = t.ndirty /\ u.data = t.data /\ u.inl = t.inl
      /\ u.status = t.status /\ u.eof = t.eof /\ u.state = t.state
  BY Zenon, <1>0 DEF From!Stream
<1> HIDE DEF u
<1>3. Source(u)
  BY <1>0, <1>1, <1>2 DEF Source
<1>4. From!Pos(u) = From!Pos(t) + k
  <2>1. From!Pos(u) = IF From!InMemory THEN t.bpos + k ELSE t.off - Len(t.buf) + (t.bpos + k)
    BY <1>2, <1>3, SourcePos
  <2>2. From!Pos(t) = IF From!InMemory THEN t.bpos ELSE t.off - Len(t.buf) + t.bpos
    BY SourcePos
  <2> QED
    BY ONLY <1>0, <2>1, <2>2
<1>5. From!Avail(u) = From!Avail(t) - k
  BY <1>0, <1>2 DEF From!Avail
<1> QED
  BY <1>2, <1>3, <1>4, <1>5 DEF u

\* from moves over the bytes that it gave to be written.
LEMMA MoveSource ==
  ASSUME Source(from), from.status = "open", NEW k \in 0..Len(Unread), Move(First(Unread, k))
  PROVE  ReadOn(k) /\ from'.eof = from.eof
<1>1. /\ Unread \in Seq(Byte) /\ Len(Unread) = From!Avail(from) /\ From!Pos(from) \in Nat
      /\ From!Avail(from) \in Nat
  <2>1. from.buf \in Seq(Byte) /\ from.bpos \in Nat
    BY Known DEF Source
  <2> QED
    BY <2>1, SourceUnread, AfterBytes DEF Unread
<1>2. Len(First(Unread, k)) = k /\ (First(Unread, k) = <<>> <=> k = 0) /\ k \in Nat
  BY <1>1, Parts
<1>3. CASE k = 0
  BY <1>1, <1>2, <1>3 DEF Move, FromRests, ReadOn
<1>4. CASE k # 0
  <2>1. from' = [from EXCEPT !.bpos = @ + k]
    BY <1>2, <1>4 DEF Move
  <2> QED
    BY <1>1, <2>1, SourceMoved DEF ReadOn
<1> QED
  BY <1>3, <1>4

LEMMA CopyMoveJob ==
  ASSUME JInv, Source(from), CopyMove, NEW r, Wrote(Wanted, r)
  PROVE  JInv' /\ Source(from')
<1>0. /\ Job(job) /\ Places /\ Asked /\ Moved /\ Laid /\ CopyOn /\ Copying /\ job.pc = "move"
      /\ job.op \in {"copy", "copyall"} /\ Unread # <<>>
  BY DEF JInv, CopyMove, Copying
<1>1. from.status = "open" /\ ~from.eof /\ job.at <= Len(Initial) /\ job.src = After(Initial, job.at)
  BY <1>0 DEF Asked
<1>2. /\ ~job.short /\ From!Pos(from) = job.at + job.total
      /\ job.op = "copy" => job.left = job.num - job.total
      /\ To!Contents(to) = Overlay(job.dst, job.pos, Passed)
      /\ To!Pos(to) = job.pos + job.total
  BY <1>0 DEF CopyOn, Moved, Laid, Idle
<1>3. /\ Unread \in Seq(Byte) /\ Len(Unread) \in Nat
      /\ job.total + Len(Unread) <= Len(job.src)
      /\ \A i \in 1..Len(Unread) : Unread[i] = job.src[job.total + i]
  BY <1>0, <1>1, <1>2, NextBytes
<1>4. PICK k : k = IF job.op = "copyall" THEN Len(Unread) ELSE Min2(Len(Unread), job.left)
  OBVIOUS
<1>5. k \in 0..Len(Unread) /\ k \in Nat /\ (job.op = "copy" => k <= job.left)
  BY <1>0, <1>3, <1>4, Typed DEF Min2
<1>6. Wanted = First(Unread, k)
  BY <1>3, <1>4, FirstAll DEF Wanted
<1>7. /\ Wanted \in Seq(Byte) /\ Len(Wanted) = k
      /\ \A i \in 1..k : Wanted[i] = Unread[i]
  BY <1>3, <1>5, <1>6, Parts
<1>8. ReadOn(k) /\ from'.eof = from.eof
  BY <1>0, <1>1, <1>5, <1>6, MoveSource DEF CopyMove
<1>9. r \in 0..k /\ r \in Nat /\ toCall'.ret = r
  BY <1>5, <1>7 DEF Wrote
<1>10. /\ job.total + Len(Wanted) <= Len(job.src)
       /\ \A i \in 1..Len(Wanted) : Wanted[i] = job.src[job.total + i]
  <2>1. job.total \in Nat /\ Len(job.src) \in Nat
    BY <1>0, Typed
  <2>2. job.total + k <= Len(job.src)
    BY ONLY <1>3, <1>5, <2>1
  <2>3. \A i \in 1..k : i \in 1..Len(Unread)
    BY ONLY <1>3, <1>5
  <2> QED
    BY ONLY <1>3, <1>7, <2>2, <2>3
<1>11. /\ To!Contents(to') = Overlay(job.dst, job.pos, SubSeq(job.src, 1, job.total + r))
       /\ To!Pos(to') = job.pos + (job.total + r)
  <2>1. r \in 0..Len(Wanted)
    BY <1>7, <1>9
  <2>2. Overlay(Overlay(job.dst, job.pos, Passed), job.pos + job.total, First(Wanted, r))
              = Overlay(job.dst, job.pos, SubSeq(job.src, 1, job.total + r))
    BY <1>0, <1>7, <1>10, <2>1, Appended
  <2>3. job.pos + job.total + r = job.pos + (job.total + r)
    BY <1>0, <1>9, Typed
  <2> QED
    BY <1>2, <2>2, <2>3 DEF Wrote
<1> DEFINE left == IF job.op = "copy" THEN job.left - r ELSE 0
           over == (job.op = "copy" /\ left = 0) \/ r < k \/ from.eof
<1>12. /\ job' = [job EXCEPT !.left = left, !.total = @ + r, !.short = r < k,
                    !.pc = IF over THEN "end" ELSE "prep"]
  BY <1>7, <1>9, Zenon DEF CopyMove, ios_eof
<1>13. left \in Nat /\ job.total + r \in Nat /\ (r < k) \in BOOLEAN /\ over \in BOOLEAN
  BY <1>0, <1>5, <1>9, Typed
<1>14. PICK l, o, m, sh : l = left /\ o = over /\ m = job.total + r /\ sh = (r < k)
  OBVIOUS
<1>15. job' = [job EXCEPT !.left = l, !.total = m, !.short = sh,
                    !.pc = IF o THEN "end" ELSE "prep"]
  BY <1>12, <1>14, Zenon
<1>16. l \in Nat /\ m \in Nat /\ sh \in BOOLEAN
  BY <1>13, <1>14
<1>17. /\ job'.op = job.op /\ job'.num = job.num /\ job'.left = l /\ job'.total = m
       /\ job'.src = job.src /\ job'.at = job.at /\ job'.dst = job.dst /\ job'.pos = job.pos
       /\ job'.short = sh /\ job'.pc = (IF o THEN "end" ELSE "prep") /\ job'.ch = job.ch
  BY <1>0, <1>15, Zenon DEF Job
<1>18. Job(job)'
  BY <1>0, <1>15, <1>16, Zenon DEF Job
<1> HIDE DEF left, over
<1>19. /\ sh <=> r < k
       /\ ~sh => r = k
       /\ job.op = "copy" => l = job.left - r
       /\ o <=> (job.op = "copy" /\ l = 0) \/ sh
  <2>1. sh <=> r < k
    BY Zenon, <1>14
  <2>2. ~sh => r = k
    BY ONLY <2>1, <1>5, <1>9
  <2>3. job.op = "copy" => l = job.left - r
    BY <1>14 DEF left
  <2>4. o <=> (job.op = "copy" /\ l = 0) \/ sh
    BY Zenon, <1>1, <1>14, <2>1 DEF over
  <2> QED
    BY <2>1, <2>2, <2>3, <2>4
<1>20. m = job.total + r /\ m <= Len(job.src)
  BY <1>0, <1>5, <1>7, <1>9, <1>10, <1>14, Typed
<1>21. Places' /\ Asked'
  BY <1>0, <1>1, <1>8, <1>17 DEF Places, Asked, Copying, ByLine, ByCharacter, ReadOn
<1>22. Moved'
  <2>1. ~sh => From!Pos(from') = job.at + m
    <3>1. From!Pos(from') = From!Pos(from) + k
      BY <1>8 DEF ReadOn
    <3>2. job.at \in Nat /\ job.total \in Nat
      BY <1>0, Typed
    <3> QED
      BY ONLY <1>2, <1>5, <1>19, <1>20, <3>1, <3>2
  <2> QED
    BY <1>17, <1>20, <2>1 DEF Moved
<1>23. Laid'
  <2>1. To!Contents(to') = Overlay(job'.dst, job'.pos, SubSeq(job'.src, 1, job'.total))
    BY <1>11, <1>17, <1>20
  <2>2. To!Pos(to') = job'.pos + job'.total /\ job'.total <= Len(job'.src)
    BY <1>11, <1>17, <1>20
  <2> QED
    BY <2>1, <2>2 DEF Laid, Passed
<1>24. CopyOn'
  <2>1. CASE sh
    BY <1>17, <1>19, <2>1 DEF CopyOn, Copying, Idle
  <2>2. CASE ~sh
    <3>1. job.op = "copy" => l = job.num - m
      <4>1. job.num \in Nat /\ job.total \in Nat /\ r \in Nat
        BY <1>0, <1>9, Typed
      <4> QED
        BY ONLY <1>2, <1>19, <1>20, <4>1
    <3>2. job.op = "copy" /\ l = 0 => m = job.num
      BY <1>0, <1>16, <3>1, Typed
    <3>3. job.op = "copy" /\ l = 0 => m = Min2(job.num, Len(job.src))
      BY <1>20, <3>2 DEF Min2
    <3>4. ~from'.eof
      BY <1>1, <1>8
    <3> QED
      BY <1>0, <1>17, <1>19, <2>2, <3>1, <3>3, <3>4 DEF CopyOn, Copying, Idle, ios_eof
  <2> QED
    BY <1>16, <2>1, <2>2
<1>25. LineOn' /\ CharOn'
  BY <1>0, <1>17 DEF LineOn, CharOn, ByLine, ByCharacter
<1> QED
  BY <1>8, <1>18, <1>21, <1>22, <1>23, <1>24, <1>25 DEF JInv, ReadOn

-------------------------------------------------------------------------------
(* ios_copyuntil and ios_readline. *)

LEMMA LeastOf ==
  ASSUME NEW S \in SUBSET Nat, S # {}
  PROVE  Min(S) \in S /\ \A x \in S : Min(S) <= x
<1> DEFINE Least(x) == \A y \in S : x <= y
<1>1. PICK p \in S : \A y \in S : ~ (<<y, p>> \in OpToRel(<, Nat))
  BY NatLessThanWellFounded, WFMin
<1>2. \A y \in S : ~ (y < p)
  BY <1>1 DEF OpToRel
<1>3. Least(p)
  BY <1>2
<1>4. Min(S) = CHOOSE x \in S : Least(x)
  BY Zenon DEF Min, Least
<1> HIDE DEF Least
<1>5. Min(S) \in S /\ Least(Min(S))
  BY <1>3, <1>4, Zenon
<1> QED
  BY <1>5 DEF Least

LEMMA UntilPrepJob ==
  ASSUME JInv, Source(from), UntilPrep
  PROVE  JInv' /\ Source(from')
<1>0. /\ Job(job) /\ Places /\ Asked /\ Moved /\ Laid /\ LineOn /\ ByLine /\ job.pc = "prep"
      /\ to' = to /\ job' = [job EXCEPT !.pc = "look", !.first = FALSE]
      /\ job.op \in {"until", "line"}
  BY DEF JInv, UntilPrep, ToRests, ByLine
<1>1. from.status = "open" /\ ~from.eof /\ job.at <= Len(Initial) /\ job.src = After(Initial, job.at)
  BY <1>0 DEF Asked
<1>3. /\ Source(from') /\ from'.status = "open" /\ from'.eof = from.eof
      /\ From!Pos(from') = From!Pos(from)
  BY <1>1, Constants, SourcePrepare DEF UntilPrep, Prepare
<1>4. /\ job'.op = job.op /\ job'.pc = "look" /\ job'.num = job.num /\ job'.left = job.left
      /\ job'.total = job.total /\ job'.src = job.src /\ job'.at = job.at
      /\ job'.dst = job.dst /\ job'.pos = job.pos /\ job'.short = job.short
  BY <1>0 DEF Job
<1>5. Job(job)'
  BY <1>0, Zenon DEF Job
<1>6. Places' /\ Asked'
  BY <1>0, <1>1, <1>3, <1>4 DEF Places, Asked, Copying, ByLine, ByCharacter
<1>7. Moved' /\ Laid'
  BY <1>0, <1>3, <1>4 DEF Moved, Laid, Copying, ByLine, Passed, Idle
<1>8. LineOn'
  BY <1>0, <1>4 DEF LineOn, NoDelim, ByLine
<1>9. CopyOn' /\ CharOn'
  BY <1>0, <1>4 DEF CopyOn, CharOn, Copying, ByCharacter
<1> QED
  BY <1>3, <1>5, <1>6, <1>7, <1>8, <1>9 DEF JInv

\* k of the unread bytes are written and passed, none of them a delimiter but
\* perhaps the last.
LEMMA LineMoveJob ==
  ASSUME JInv, Source(from), ByLine, job.pc = "look",
         NEW k \in 0..Len(Unread), NEW r, Wrote(First(Unread, k), r), ReadOn(k),
         NEW pc \in {"prep", Over}, Counted(k, pc),
         \A i \in 1..k : Unread[i] = Delim => i = k,
         pc = "prep" => ~from'.eof /\ \A i \in 1..k : Unread[i] # Delim,
         pc # "prep" => (k >= 1 /\ Unread[k] = Delim) \/ from'.eof = TRUE
  PROVE  JInv'
<1>0. /\ Job(job) /\ Places /\ Asked /\ Moved /\ Laid /\ LineOn /\ job.op \in {"until", "line"}
  BY DEF JInv, ByLine
<1>1. from.status = "open" /\ job.at <= Len(Initial) /\ job.src = After(Initial, job.at)
  BY <1>0 DEF Asked
<1>2. /\ Unread \in Seq(Byte) /\ Len(Unread) \in Nat /\ k \in Nat /\ k <= Len(Unread)
  <2>1. from.buf \in Seq(Byte) /\ from.bpos \in Nat
    BY Known DEF Source
  <2>2. Unread \in Seq(Byte)
    BY <2>1, AfterBytes DEF Unread
  <2>3. Len(Unread) \in Nat
    BY <2>2, LenProperties
  <2> QED
    BY <2>2, <2>3
<1>3. PICK d : d = First(Unread, k)
  OBVIOUS
<1>4. d \in Seq(Byte) /\ Len(d) = k /\ \A i \in 1..k : d[i] = Unread[i]
  BY <1>2, <1>3, Parts
<1>5. r \in 0..k /\ r \in Nat /\ toCall'.ret = r
  BY <1>3, <1>4 DEF Wrote
<1>6. job' = [job EXCEPT !.total = @ + r, !.pc = pc, !.short = @ \/ r < k]
  BY <1>5 DEF Counted
<1>7. PICK m, sh : m = job.total + r /\ sh = (job.short \/ r < k)
  OBVIOUS
<1>8. job' = [job EXCEPT !.total = m, !.pc = pc, !.short = sh]
  BY <1>6, <1>7, Zenon
<1>9. /\ m \in Nat /\ sh \in BOOLEAN /\ job.total \in Nat /\ job.at \in Nat
      /\ Len(job.src) \in Nat
  BY <1>0, <1>5, <1>7, Typed
<1>10. pc \in {"prep", "take", "end"} /\ (pc = "take" => job.op = "line")
       /\ (job.op = "line" => pc # "end")
  BY <1>0 DEF Over
<1>11. /\ job'.op = job.op /\ job'.total = m /\ job'.src = job.src /\ job'.at = job.at
       /\ job'.dst = job.dst /\ job'.pos = job.pos /\ job'.short = sh /\ job'.pc = pc
  BY <1>0, <1>8, Zenon DEF Job
<1>12. Job(job)'
  BY <1>0, <1>8, <1>9, <1>10, Zenon DEF Job
<1>13. Places' /\ Asked'
  BY <1>0, <1>1, <1>10, <1>11 DEF Places, Asked, Copying, ByLine, ByCharacter, ReadOn
<1>14. CopyOn' /\ CharOn'
  BY <1>0, <1>11 DEF CopyOn, CharOn, Copying, ByCharacter
<1>15. CASE sh
  BY <1>0, <1>11, <1>12, <1>13, <1>14, <1>15 DEF JInv, Moved, Laid, LineOn, Copying, ByLine
<1>16. CASE ~sh
  <2>0. ~job.short /\ ~(r < k)
    BY <1>7, <1>16, Zenon
  <2>1. ~job.short /\ r = k
    BY ONLY <1>2, <1>5, <2>0
  <2>2. /\ From!Pos(from) = job.at + job.total /\ NoDelim
        /\ To!Contents(to) = Overlay(job.dst, job.pos, Passed)
        /\ To!Pos(to) = job.pos + job.total
    BY <1>0, <2>1 DEF Moved, Laid, LineOn, ByLine, Idle
  <2>3. /\ job.total + Len(Unread) <= Len(job.src)
        /\ \A i \in 1..Len(Unread) : Unread[i] = job.src[job.total + i]
    BY <1>0, <1>1, <2>2, NextBytes
  <2>4. m = job.total + k /\ m <= Len(job.src)
    BY ONLY <1>2, <1>7, <1>9, <2>1, <2>3
  <2>5. Moved'
    <3>1. From!Pos(from') = From!Pos(from) + k
      BY DEF ReadOn
    <3>2. From!Pos(from') = job.at + m
      BY ONLY <1>2, <1>9, <2>2, <2>4, <3>1
    <3> QED
      BY <1>11, <2>4, <3>2 DEF Moved
  <2>6. Laid'
    <3>1. /\ job.total + Len(d) <= Len(job.src)
          /\ \A i \in 1..Len(d) : d[i] = job.src[job.total + i]
      <4>1. \A i \in 1..k : i \in 1..Len(Unread)
        BY ONLY <1>2
      <4> QED
        BY ONLY <1>4, <2>3, <2>4, <4>1, <1>7, <2>1
    <3>2. Overlay(Overlay(job.dst, job.pos, Passed), job.pos + job.total, First(d, r))
              = Overlay(job.dst, job.pos, SubSeq(job.src, 1, m))
      <4>1. r \in 0..Len(d)
        BY <1>4, <1>5
      <4> QED
        BY <1>0, <1>4, <1>7, <3>1, <4>1, Appended
    <3>3. job.pos + job.total + r = job.pos + m
      BY <1>0, <1>5, <1>7, Typed
    <3>4. To!Contents(to') = Overlay(job'.dst, job'.pos, SubSeq(job'.src, 1, job'.total))
      BY <1>3, <1>11, <2>2, <3>2 DEF Wrote
    <3>5. To!Pos(to') = job'.pos + job'.total /\ job'.total <= Len(job'.src)
      BY <1>3, <1>11, <2>2, <2>4, <3>3 DEF Wrote
    <3> QED
      BY <3>4, <3>5 DEF Laid, Passed
  <2>7. \A i \in 1..m : job.src[i] = Delim =>
          i = m /\ k >= 1 /\ Unread[k] = Delim
    <3> SUFFICES ASSUME NEW i \in 1..m, job.src[i] = Delim
                 PROVE  i = m /\ k >= 1 /\ Unread[k] = Delim
      OBVIOUS
    <3>1. ~(i \in 1..job.total)
      BY <2>2 DEF NoDelim
    <3>2. PICK j : j = i - job.total
      OBVIOUS
    <3>3. j \in 1..k /\ i = job.total + j /\ j \in 1..Len(Unread)
      BY ONLY <1>2, <1>9, <2>4, <3>1, <3>2, i \in 1..m
    <3>4. Unread[j] = Delim
      BY <2>3, <3>3
    <3>5. j = k
      BY <3>3, <3>4
    <3> QED
      BY ONLY <1>2, <2>4, <3>3, <3>4, <3>5
  <2>8. LineOn'
    <3>1. CASE pc = "prep"
      <4>1. \A i \in 1..m : job.src[i] # Delim
        BY <1>2, <2>7, <3>1
      <4> QED
        BY <1>11, <3>1, <4>1 DEF LineOn, NoDelim
    <3>2. CASE pc # "prep"
      <4>1. \A i \in 1..Len(job.src) : job.src[i] = Delim => m <= i
        <5> SUFFICES ASSUME NEW i \in 1..Len(job.src), job.src[i] = Delim, ~(m <= i)
                     PROVE  FALSE
          OBVIOUS
        <5>1. i \in 1..m /\ i # m
          BY ONLY <1>9, i \in 1..Len(job.src), ~(m <= i)
        <5> QED
          BY <2>7, <5>1
      <4>2. m \in 0..Len(job.src)
        BY <1>9, <2>4
      <4>3. k >= 1 /\ Unread[k] = Delim => m \in 1..Len(job.src) /\ job.src[m] = Delim
        <5> HAVE k >= 1 /\ Unread[k] = Delim
        <5>1. k \in 1..Len(Unread) /\ m \in 1..Len(job.src)
          BY ONLY <1>2, <1>9, <2>4, k >= 1
        <5> QED
          BY <2>3, <2>4, <5>1
      <4> QED
        BY <1>10, <1>11, <3>2, <4>1, <4>2, <4>3 DEF LineOn, LineEnd, ios_eof
    <3> QED
      BY <3>1, <3>2
  <2> QED
    BY <1>12, <1>13, <1>14, <2>5, <2>6, <2>8 DEF JInv
<1> QED
  BY <1>9, <1>15, <1>16

LEMMA UntilFoundJob ==
  ASSUME JInv, Source(from), UntilFound, NEW r, Wrote(First(Unread, Min(Delims)), r)
  PROVE  JInv' /\ Source(from')
<1>1. Len(Unread) \in Nat /\ Unread \in Seq(Byte)
  <2>1. from.buf \in Seq(Byte) /\ from.bpos \in Nat
    BY Known DEF Source
  <2> QED
    BY <2>1, AfterBytes, LenProperties DEF Unread
<1>2. PICK k : k = Min(Delims)
  OBVIOUS
<1>3. k \in Delims /\ \A x \in Delims : k <= x
  <2>1. Delims \in SUBSET Nat /\ Delims # {}
    BY <1>1 DEF Delims, UntilFound
  <2> QED
    BY <1>2, <2>1, LeastOf
<1>4. k \in 1..Len(Unread) /\ Unread[k] = Delim /\ k \in 0..Len(Unread) /\ k >= 1
      /\ \A i \in 1..k : Unread[i] = Delim => i = k
  BY <1>1, <1>3 DEF Delims
<1>5. from.status = "open" /\ job.pc = "look" /\ ByLine /\ Over # "prep"
  BY DEF UntilFound, JInv, Asked, ByLine, Over
<1>6. ReadOn(k)
  BY <1>2, <1>4, <1>5, MoveSource DEF UntilFound
<1>7. Counted(k, Over) /\ Wrote(First(Unread, k), r) /\ Over \in {"prep", Over}
  BY <1>2 DEF UntilFound
<1> QED
  BY <1>4, <1>5, <1>6, <1>7, LineMoveJob DEF ReadOn

LEMMA UntilMoreJob ==
  ASSUME JInv, Source(from), UntilMore, NEW r, Wrote(Unread, r)
  PROVE  JInv' /\ Source(from')
<1>1. Len(Unread) \in Nat /\ Unread \in Seq(Byte)
  <2>1. from.buf \in Seq(Byte) /\ from.bpos \in Nat
    BY Known DEF Source
  <2> QED
    BY <2>1, AfterBytes, LenProperties DEF Unread
<1>2. PICK k : k = Len(Unread)
  OBVIOUS
<1>3. k \in 0..Len(Unread) /\ First(Unread, k) = Unread
  BY <1>1, <1>2, FirstAll
<1>4. \A i \in 1..k : Unread[i] # Delim
  BY <1>2 DEF UntilMore, Delims
<1>5. from.status = "open" /\ job.pc = "look" /\ ByLine /\ ~from.eof
  BY DEF UntilMore, JInv, Asked, ByLine, ios_eof
<1>6. ReadOn(k) /\ from'.eof = from.eof
  BY <1>3, <1>5, MoveSource DEF UntilMore
<1>7. Counted(k, "prep") /\ Wrote(First(Unread, k), r) /\ "prep" \in {"prep", Over}
  BY <1>2, <1>3 DEF UntilMore
<1> QED
  BY <1>3, <1>4, <1>5, <1>6, <1>7, LineMoveJob DEF ReadOn

LEMMA UntilNoneJob ==
  ASSUME JInv, Source(from), UntilNone, NEW r, Wrote(Unread, r)
  PROVE  JInv' /\ Source(from')
<1>1. Len(Unread) \in Nat /\ Unread \in Seq(Byte) /\ Len(Unread) = From!Avail(from)
      /\ from.bpos \in Nat /\ Len(from.buf) \in Nat /\ from.status = "open"
      /\ job.pc = "look" /\ ByLine
  <2>1. from.buf \in Seq(Byte) /\ from.bpos \in Nat
    BY Known DEF Source
  <2>2. from.status = "open" /\ job.pc = "look" /\ ByLine
    BY DEF UntilNone, JInv, Asked, ByLine
  <2> QED
    BY <2>1, <2>2, AfterBytes, LenProperties, SourceUnread DEF Unread
<1>2. PICK k : k = Len(Unread)
  OBVIOUS
<1>3. k \in 0..Len(Unread) /\ First(Unread, k) = Unread /\ k \in 0..From!Avail(from)
  BY <1>1, <1>2, FirstAll
<1>4. \A i \in 1..k : Unread[i] # Delim
  BY <1>2 DEF UntilNone, Delims
<1>5. Len(from.buf) = from.bpos + k
  BY <1>1, <1>2 DEF From!Avail
<1>6. ReadOn(k) /\ from'.eof = TRUE
  <2> DEFINE u == [from EXCEPT !.bpos = @ + k]
  <2>1. /\ Source(u) /\ u.status = "open" /\ From!Pos(u) = From!Pos(from) + k
    BY <1>1, <1>3, SourceMoved
  <2>2. from' = [u EXCEPT !.eof = TRUE]
    BY <1>5 DEF UntilNone
  <2> HIDE DEF u
  <2>3. /\ Source([u EXCEPT !.eof = TRUE]) /\ [u EXCEPT !.eof = TRUE].status = u.status
        /\ From!Pos([u EXCEPT !.eof = TRUE]) = From!Pos(u) /\ [u EXCEPT !.eof = TRUE].eof = TRUE
    BY <2>1, SourceEof
  <2> QED
    BY <2>1, <2>2, <2>3 DEF ReadOn
<1>7. Counted(k, Over) /\ Wrote(First(Unread, k), r) /\ Over \in {"prep", Over} /\ Over # "prep"
  BY <1>2, <1>3 DEF UntilNone, Over
<1> QED
  BY <1>1, <1>3, <1>4, <1>6, <1>7, LineMoveJob DEF ReadOn

\* dest goes, and with it what was put there.
LEMMA ReadlineTakeJob ==
  ASSUME JInv, Source(from), ReadlineTake
  PROVE  JInv'
<1>0. /\ Job(job) /\ Places /\ Asked /\ Moved /\ LineOn /\ job.op = "line" /\ job.pc = "take"
      /\ from' = from
  BY DEF JInv, ReadlineTake, FromRests
<1>1. PICK x \in {1, EOF} : job' = [job EXCEPT !.pc = "end", !.ret = x]
  BY DEF ReadlineTake
<1>2. /\ job'.op = job.op /\ job'.total = job.total /\ job'.src = job.src /\ job'.at = job.at
      /\ job'.short = job.short /\ job'.pc = "end"
  BY <1>0, <1>1, Zenon DEF Job
<1>3. Job(job)'
  BY <1>0, <1>1, Zenon DEF Job
<1>4. Places' /\ Asked'
  BY <1>0, <1>2 DEF Places, Asked, Copying, ByLine, ByCharacter
<1>5. Moved' /\ Laid' /\ CopyOn' /\ CharOn'
  BY <1>0, <1>2 DEF Moved, Laid, CopyOn, CharOn, Copying, ByLine, ByCharacter, Idle
<1>6. LineOn'
  BY <1>0, <1>2 DEF LineOn, LineEnd, ByLine, ios_eof
<1> QED
  BY <1>3, <1>4, <1>5, <1>6 DEF JInv

-------------------------------------------------------------------------------
(* ios_getutf8 and ios_peekutf8. *)

\* The theorems about the codec. It has no parameters: it is the U of IosCalls.
UP == INSTANCE Utf8_proofs

LEMMA Utf8Same ==
  /\ \A ch : UP!u8_wc_toutf8(ch) = U!u8_wc_toutf8(ch)
  /\ \A ch : UP!u8_charlen(ch) = U!u8_charlen(ch)
  /\ \A b : UP!isutf(b) <=> U!isutf(b)
  /\ \A b : UP!u8_seqlen(b) = U!u8_seqlen(b)
  /\ \A s, p : UP!At(s, p) = s[p + 1]
  /\ \A s, p : UP!u8_nextmemchar(s, p) = U!u8_nextmemchar(s, p)
<1>1. \A v : UP!Behind(v) = U!Behind(v)
  BY DEF UP!Behind, U!Behind
<1>2. \A ch : UP!u8_wc_toutf8(ch) = U!u8_wc_toutf8(ch)
  BY <1>1, SMT DEF UP!u8_wc_toutf8, U!u8_wc_toutf8
<1>3. \A ch : UP!u8_charlen(ch) = U!u8_charlen(ch)
  BY DEF UP!u8_charlen, U!u8_charlen
<1>4. \A b : UP!isutf(b) <=> U!isutf(b)
  BY DEF UP!isutf, U!isutf
<1>5. \A b : UP!u8_seqlen(b) = U!u8_seqlen(b)
  BY Zenon DEF UP!u8_seqlen, U!u8_seqlen, UP!trailingBytesForUTF8, U!trailingBytesForUTF8
<1>6. \A s, p : UP!At(s, p) = s[p + 1] /\ U!At(s, p) = s[p + 1]
  BY DEF UP!At, U!At
<1>7. \A s, p, n : UP!Decoded(s, p, n) = U!Decoded(s, p, n)
  <2>1. \A s, p, n : UP!Joined(s, p, n) = U!Joined(s, p, n)
    BY Zenon DEF UP!Joined, U!Joined, UP!At, U!At
  <2>2. UP!offsetsFromUTF8 = U!offsetsFromUTF8
    BY SMT DEF UP!offsetsFromUTF8, U!offsetsFromUTF8
  <2> QED
    BY <2>1, <2>2, Zenon DEF UP!Decoded, U!Decoded
<1>8. \A s, p, a, b : UP!Start(s, p, a, b) = U!Start(s, p, a, b)
  BY Zenon DEF UP!Start, U!Start, UP!isutf, U!isutf, UP!At, U!At, UP!Min, U!Min
<1>9. \A s, p : UP!u8_nextmemchar(s, p) = U!u8_nextmemchar(s, p)
  BY <1>7, <1>8, Zenon DEF UP!u8_nextmemchar, U!u8_nextmemchar, UP!Read, U!Read
<1> QED
  BY <1>2, <1>3, <1>4, <1>5, <1>6, <1>9

\* What begins with the bytes of a character.
LEMMA BeginsWith ==
  ASSUME NEW ch \in Char, NEW src \in Seq(Byte), Encodes(src, ch)
  PROVE  /\ U!u8_charlen(ch) \in 1..4 /\ U!u8_charlen(ch) <= Len(src) /\ src # <<>>
         /\ Len(U!u8_wc_toutf8(ch)) = U!u8_charlen(ch)
         /\ UP!Encodable(ch)
         /\ \A i \in 1..U!u8_charlen(ch) : src[i] = U!u8_wc_toutf8(ch)[i]
         /\ src[1] \in 0..255 /\ U!u8_seqlen(src[1]) = U!u8_charlen(ch)
         /\ src[1] < 128 <=> U!u8_charlen(ch) = 1
         /\ src[1] < 128 => src[1] = ch
         /\ \A i \in 2..U!u8_charlen(ch) : ~U!isutf(src[i])
<1> DEFINE n == U!u8_charlen(ch)
           enc == U!u8_wc_toutf8(ch)
           s == [i \in 1..(n + 1) |-> IF i <= n THEN enc[i] ELSE 0]
<1>1. ch \in Nat /\ ch < 1114112
  BY IosCallsAssumption DEF Encodes, U!u8_wc_toutf8
<1>2. n \in 1..4 /\ enc \in Seq(Nat) /\ Len(enc) = n
  BY <1>1 DEF U!u8_wc_toutf8, U!u8_charlen, U!Behind
<1>3. Len(enc) <= Len(src) /\ SubSeq(enc, 1, Len(enc)) = SubSeq(src, 1, Len(enc))
  BY DEF Encodes, IsPrefix
<1> HIDE DEF n, enc
<1>4. n \in 0..Len(src) /\ n \in 0..Len(enc) /\ Len(src) \in Nat
  BY <1>2, <1>3, LenProperties
<1>5. \A i \in 1..n : src[i] = enc[i]
  <2>1. \A i \in 1..n : First(src, n)[i] = src[i] /\ First(enc, n)[i] = enc[i]
    BY <1>2, <1>4, FirstBytes
  <2> QED
    BY <1>2, <1>3, <2>1 DEF First
<1>6. s \in Seq(Nat) /\ Len(s) = n + 1 /\ \A i \in 1..(n + 1) : s[i] = IF i <= n THEN enc[i] ELSE 0
  <2>1. \A i \in 1..(n + 1) : (IF i <= n THEN enc[i] ELSE 0) \in Nat
    BY <1>2, ElementOfSeq
  <2>2. n + 1 \in Nat
    BY <1>2
  <2>3. s \in Seq(Nat)
    BY <2>1, <2>2, IsASeq
  <2>4. Len(s) = n + 1
    BY <2>2, <2>3, LenProperties
  <2> QED
    BY <2>3, <2>4
<1> HIDE DEF s
<1>7. UP!Encodable(ch)
  BY <1>1 DEF UP!Encodable
<1>8. UP!Holds(s, 0, ch)
  <2>1. UP!u8_wc_toutf8(ch) = enc /\ \A p : UP!At(s, p) = s[p + 1]
    BY Utf8Same DEF enc
  <2>2. \A k \in 0..(n - 1) : UP!At(s, 0 + k) = enc[k + 1]
    BY <1>2, <1>6, <2>1
  <2>3. UP!At(s, 0 + n) = 0
    BY <1>2, <1>6, <2>1
  <2>4. UP!isutf(UP!At(s, 0 + n))
    <3>1. UP!isutf(0)
      BY DEF UP!isutf
    <3> QED
      BY <2>3, <3>1
  <2> QED
    BY <1>2, <1>6, <2>1, <2>2, <2>4 DEF UP!Holds
<1>9. /\ UP!isutf(UP!At(s, 0)) /\ UP!u8_seqlen(UP!At(s, 0)) = n
      /\ \A k \in 1..(n - 1) : ~UP!isutf(UP!At(s, 0 + k))
  BY <1>7, <1>8, UP!HeldBytes, Utf8Same DEF n
<1>10. UP!At(s, 0) = src[1]
  BY <1>2, <1>5, <1>6, Utf8Same
<1>11. src[1] \in 0..255
  <2>1. 1 \in 1..Len(src)
    BY <1>2, <1>4
  <2> QED
    BY <2>1, ElementOfSeq, IosCallsAssumption
<1>12. \A i \in 2..n : ~U!isutf(src[i])
  <2> TAKE i \in 2..n
  <2>1. i - 1 \in 1..(n - 1) /\ 0 + (i - 1) + 1 = i /\ i \in 1..n /\ i \in 1..(n + 1)
    BY <1>2
  <2>2. UP!At(s, 0 + (i - 1)) = src[i]
    BY <1>5, <1>6, <2>1, Utf8Same
  <2> QED
    BY <1>9, <2>1, <2>2, Utf8Same
<1>13. src[1] < 128 <=> n = 1
  <2>1. UP!u8_seqlen(src[1]) = n /\ UP!isutf(src[1])
    BY <1>9, <1>10
  <2> QED
    BY <1>11, <2>1, UP!SeqlenTells
<1>14. n = 1 => src[1] = ch
  <2>1. n = 1 => enc = <<ch>>
    BY <1>1 DEF n, enc, U!u8_charlen, U!u8_wc_toutf8
  <2> QED
    BY <1>5, <2>1
<1> QED
  BY <1>2, <1>4, <1>5, <1>7, <1>9, <1>10, <1>11, <1>12, <1>13, <1>14, Utf8Same, EmptyBytes DEF n, enc

\* u8_nextmemchar finds it, where the buffer shows its end.
LEMMA DecodesTo ==
  ASSUME NEW ch \in Char, NEW src \in Seq(Byte), Encodes(src, ch), FollowedWell(src, ch),
         NEW u \in Seq(Byte), Len(u) <= Len(src), \A i \in 1..Len(u) : u[i] = src[i],
         NEW i \in 2..Len(u), U!isutf(u[i])
  PROVE  U!u8_nextmemchar(u, 0).ch = ch
<1> DEFINE n == U!u8_charlen(ch)
           enc == U!u8_wc_toutf8(ch)
<1>1. /\ n \in 1..4 /\ n <= Len(src) /\ Len(enc) = n /\ UP!Encodable(ch)
      /\ \A k \in 1..n : src[k] = enc[k]
      /\ \A k \in 2..n : ~U!isutf(src[k])
  BY BeginsWith
<1>2. n < Len(src) => U!isutf(src[n + 1])
  BY <1>1 DEF FollowedWell
<1>3. Len(u) \in Nat /\ Len(src) \in Nat /\ u \in Seq(0..255)
  <2>1. Byte \subseteq 0..255
    BY IosCallsAssumption
  <2>2. Len(u) \in Nat /\ Len(src) \in Nat
    BY LenProperties
  <2>4. u \in Seq(0..255)
    <3>1. PICK T : T = 0..255
      OBVIOUS
    <3>2. Byte \subseteq T /\ u \in Seq(Byte)
      BY <2>1, <3>1
    <3>3. u \in Seq(T)
      BY ONLY <3>2, SeqMonotonic
    <3> QED
      BY ONLY <3>1, <3>3
  <2> QED
    BY <2>2, <2>4
<1> HIDE DEF n, enc
<1>4. i > n
  <2>1. u[i] = src[i] /\ i \in Nat /\ i >= 2
    BY <1>3
  <2> QED
    BY <1>1, <2>1
<1>5. n + 1 \in 1..Len(u) /\ n < Len(src) /\ n < Len(u)
  BY <1>1, <1>3, <1>4
<1>6. UP!Holds(u, 0, ch)
  <2>1. UP!u8_wc_toutf8(ch) = enc /\ \A p : UP!At(u, p) = u[p + 1]
    BY Utf8Same DEF enc
  <2>2. \A k \in 0..(n - 1) : UP!At(u, 0 + k) = enc[k + 1]
    <3> TAKE k \in 0..(n - 1)
    <3>1. 0 + k + 1 = k + 1 /\ k + 1 \in 1..n /\ k + 1 \in 1..Len(u)
      BY <1>1, <1>5
    <3> QED
      BY <1>1, <2>1, <3>1
  <2>3. UP!At(u, 0 + n) = src[n + 1]
    BY <1>1, <1>5, <2>1
  <2>4. UP!isutf(UP!At(u, 0 + n)) /\ 0 + n < Len(u)
    BY <1>1, <1>2, <1>5, <2>3, Utf8Same
  <2> QED
    BY <1>1, <2>1, <2>2, <2>4 DEF UP!Holds
<1>7. UP!u8_nextmemchar(u, 0) = UP!Read(ch, 0 + UP!u8_charlen(ch))
  BY <1>1, <1>3, <1>6, 0 \in Nat, UP!ReadsBack
<1> QED
  BY <1>7, Utf8Same DEF UP!Read

\* The source that a call for a character was asked of.
LEMMA AtCharacter ==
  ASSUME JInv, Source(from), ByCharacter, ~Idle
  PROVE  /\ Job(job) /\ Places /\ Asked /\ CharOn /\ job.op \in {"getutf8", "peekutf8"}
         /\ from.status = "open" /\ job.at \in Nat /\ job.at <= Len(Initial)
         /\ job.src = After(Initial, job.at) /\ job.src \in Seq(Byte)
         /\ Len(job.src) = Len(Initial) - job.at /\ Len(Initial) \in Nat
         /\ \A i \in 1..Len(job.src) : job.src[i] = Initial[job.at + i]
<1>1. /\ Job(job) /\ Places /\ Asked /\ CharOn /\ job.op \in {"getutf8", "peekutf8"}
  BY DEF JInv, ByCharacter
<1>2. job.pc \notin {"end", "take"}
  BY <1>1 DEF Places, ByCharacter, Idle
<1>3. from.status = "open" /\ job.at \in Nat /\ job.at <= Len(Initial)
      /\ job.src = After(Initial, job.at) /\ job.src \in Seq(Byte)
  BY <1>1, <1>2, Typed DEF Asked
<1>4. /\ Len(After(Initial, job.at)) = Len(Initial) - job.at
      /\ \A i \in 1..(Len(Initial) - job.at) : After(Initial, job.at)[i] = Initial[job.at + i]
  <2>1. Initial \in Seq(Byte) /\ Len(Initial) \in Nat
    BY Constants
  <2> QED
    BY <1>3, <2>1, AfterBytes
<1> QED
  BY <1>1, <1>3, <1>4, Constants

\* What the invariant says of a call for a character that is over, and of what
\* other calls leave.
LEMMA CharacterRest ==
  ASSUME Job(job)', ByCharacter', Places', Asked', CharOn'
  PROVE  JInv'
BY DEF JInv, Moved, Laid, CopyOn, LineOn, Copying, ByLine, ByCharacter

LEMMA FirstByteJob ==
  ASSUME JInv, Source(from), FirstByte, Source(from'), from'.status = "open",
         NEW k \in 0..1, From!Pos(from) + k <= Len(Initial),
         fromCall'.bytes = Slice(Initial, From!Pos(from), k),
         job.op = "getutf8" => fromCall'.op = "getc" /\ From!Pos(from') = From!Pos(from) + k,
         job.op = "peekutf8" => From!Pos(from') = From!Pos(from)
  PROVE  JInv'
<1>0. /\ Job(job) /\ Places /\ Asked /\ CharOn /\ job.op \in {"getutf8", "peekutf8"}
      /\ from.status = "open" /\ job.at \in Nat /\ job.at <= Len(Initial)
      /\ job.src = After(Initial, job.at) /\ job.src \in Seq(Byte)
      /\ Len(job.src) = Len(Initial) - job.at /\ Len(Initial) \in Nat
      /\ \A i \in 1..Len(job.src) : job.src[i] = Initial[job.at + i]
      /\ job.pc = "byte" /\ ByCharacter
  BY AtCharacter DEF FirstByte, Idle
<1>1. ~job.short /\ job.ret = 0 /\ From!Pos(from) = job.at
  BY <1>0 DEF CharOn
<1>2. PICK c : c = fromCall'.bytes
  OBVIOUS
<1>3. /\ c \in Seq(Byte) /\ Len(c) = k /\ (c = <<>> <=> k = 0)
      /\ k = 1 => c[1] = Initial[job.at + 1]
  <2>1. Initial \in Seq(Byte) /\ job.at \in Nat /\ k \in Nat /\ (k > 0 => job.at + k <= Len(Initial))
    BY <1>0, <1>1, Constants
  <2>2. /\ Slice(Initial, job.at, k) \in Seq(Byte) /\ Len(Slice(Initial, job.at, k)) = k
        /\ \A i \in 1..k : Slice(Initial, job.at, k)[i] = Initial[job.at + i]
    BY ONLY <2>1, SliceBytes
  <2> QED
    BY <1>1, <1>2, <2>2, EmptyByLength, EmptyBytes
<1>4. \/ c = <<>> /\ Answers(EOF, 0)
      \/ c # <<>> /\ c[1] < 128 /\ Answers(1, c[1])
      \/ /\ c # <<>> /\ c[1] >= 128
         /\ job' = [job EXCEPT !.left = U!u8_seqlen(c[1]) - 1,
                     !.pc = IF job.op = "getutf8" THEN "unget" ELSE "fill"]
  BY <1>2 DEF FirstByte
<1>5. c # <<>> => k = 1 /\ job.src # <<>> /\ job.src[1] = c[1] /\ c[1] \in 0..255
  <2> HAVE c # <<>>
  <2>1. k = 1 /\ job.at + 1 <= Len(Initial)
    BY <1>1, <1>3
  <2>2. 1 \in 1..Len(job.src) /\ 1 \in 1..Len(c)
    BY <1>0, <1>3, <2>1
  <2>3. job.src[1] = c[1] /\ c[1] \in Byte
    BY <1>0, <1>3, <2>1, <2>2, ElementOfSeq
  <2>4. job.src # <<>>
    BY <2>2, EmptyBytes
  <2> QED
    BY <2>1, <2>3, <2>4, IosCallsAssumption
<1>6. CASE c = <<>> /\ Answers(EOF, 0)
  <2>1. job' = [job EXCEPT !.pc = "end", !.ret = EOF, !.ch = 0]
    BY <1>6 DEF Answers
  <2>2. /\ job'.op = job.op /\ job'.src = job.src /\ job'.at = job.at /\ job'.ret = EOF
        /\ job'.pc = "end" /\ job'.short = job.short
    BY <1>0, <2>1, Zenon DEF Job
  <2>3. Job(job)'
    BY <1>0, <2>1, Zenon DEF Job
  <2>4. Places' /\ Asked' /\ ByCharacter'
    BY <1>0, <2>2 DEF Places, Asked, Copying, ByLine, ByCharacter
  <2>5. From!Pos(from') = job.at
    BY <1>0, <1>1, <1>3, <1>6
  <2>6. CharacterTaken'
    BY <2>2, <2>5, <1>0 DEF CharacterTaken, EOF
  <2>7. CharOn'
    BY <2>2, <2>6 DEF CharOn
  <2> QED
    BY <2>3, <2>4, <2>7, CharacterRest
<1>7. CASE c # <<>> /\ c[1] < 128 /\ Answers(1, c[1])
  <2>0. PICK x : x = c[1]
    OBVIOUS
  <2>1. job' = [job EXCEPT !.pc = "end", !.ret = 1, !.ch = x]
    BY <1>7, <2>0 DEF Answers
  <2>2. /\ job'.op = job.op /\ job'.src = job.src /\ job'.at = job.at /\ job'.ret = 1
        /\ job'.pc = "end" /\ job'.short = job.short /\ job'.ch = x
    BY <1>0, <2>1, Zenon DEF Job
  <2>3. Job(job)'
    BY <1>0, <2>1, Zenon DEF Job
  <2>4. Places' /\ Asked' /\ ByCharacter'
    BY <1>0, <2>2 DEF Places, Asked, Copying, ByLine, ByCharacter
  <2>5. From!Pos(from') = job.at + (IF job.op = "getutf8" THEN 1 ELSE 0)
    BY <1>0, <1>1, <1>5, <1>7
  <2>6. CharacterTaken'
    <3> SUFFICES ASSUME NEW ch \in Char, Encodes(job.src, ch)
                 PROVE  U!u8_charlen(ch) = 1 /\ x = ch
      BY <2>2, <2>5 DEF CharacterTaken
    <3>1. job.src[1] < 128 /\ job.src[1] = x
      BY <1>5, <1>7, <2>0
    <3> QED
      BY <1>0, <3>1, BeginsWith
  <2>7. CharOn'
    BY <2>2, <2>6 DEF CharOn
  <2> QED
    BY <2>3, <2>4, <2>7, CharacterRest
<1>8. CASE /\ c # <<>> /\ c[1] >= 128
           /\ job' = [job EXCEPT !.left = U!u8_seqlen(c[1]) - 1,
                     !.pc = IF job.op = "getutf8" THEN "unget" ELSE "fill"]
  <2>0. PICK l, pc : /\ l = U!u8_seqlen(c[1]) - 1
                     /\ pc = IF job.op = "getutf8" THEN "unget" ELSE "fill"
    OBVIOUS
  <2>1. job' = [job EXCEPT !.left = l, !.pc = pc]
    BY <1>8, <2>0, Zenon
  <2>2. l \in Nat
    BY <1>5, <1>8, <2>0 DEF U!u8_seqlen, U!trailingBytesForUTF8
  <2>3. /\ job'.op = job.op /\ job'.src = job.src /\ job'.at = job.at /\ job'.ret = job.ret
        /\ job'.pc = pc /\ job'.short = job.short /\ job'.left = l
    BY <1>0, <2>1, Zenon DEF Job
  <2>4. pc \in {"unget", "fill"}
    BY <2>0
  <2>5. Job(job)'
    BY <1>0, <2>1, <2>2, <2>4, Zenon DEF Job
  <2>6. Places' /\ Asked' /\ ByCharacter'
    BY <1>0, <2>3, <2>4 DEF Places, Asked, Copying, ByLine, ByCharacter
  <2>7. CharacterTaken'
    BY <2>3, <2>4 DEF CharacterTaken, Idle
  <2>8. /\ pc = "unget" => /\ job.op = "getutf8" /\ From!Pos(from') = job.at + 1
                           /\ fromCall'.op = "getc"
        /\ pc = "fill" => From!Pos(from') = job.at
    BY <1>0, <1>1, <1>5, <1>8, <2>0
  <2>9. CharOn'
    BY <1>1, <1>2, <1>5, <1>8, <2>0, <2>3, <2>4, <2>7, <2>8 DEF CharOn
  <2> QED
    BY <2>5, <2>6, <2>9, CharacterRest
<1> QED
  BY <1>4, <1>6, <1>7, <1>8

LEMMA NoByteJob ==
  ASSUME JInv, Source(from), NoByte
  PROVE  JInv'
<1>0. /\ Job(job) /\ Places /\ Asked /\ CharOn /\ job.op \in {"getutf8", "peekutf8"}
      /\ from.status = "open" /\ job.at \in Nat
      /\ job.pc = "byte" /\ ByCharacter /\ from' = from
  BY AtCharacter DEF NoByte, Idle, FromRests
<1>1. From!Pos(from) = job.at
  BY <1>0 DEF CharOn
<1>2. job' = [job EXCEPT !.pc = "end", !.ret = EOF, !.ch = 0]
  BY DEF NoByte, Answers
<1>3. /\ job'.op = job.op /\ job'.src = job.src /\ job'.at = job.at /\ job'.ret = EOF
      /\ job'.pc = "end" /\ job'.short = job.short
  BY <1>0, <1>2, Zenon DEF Job
<1>4. Job(job)'
  BY <1>0, <1>2, Zenon DEF Job
<1>5. Places' /\ Asked' /\ ByCharacter'
  BY <1>0, <1>3 DEF Places, Asked, Copying, ByLine, ByCharacter
<1>6. CharacterTaken'
  BY <1>0, <1>1, <1>3 DEF CharacterTaken, EOF
<1>7. CharOn'
  BY <1>3, <1>6 DEF CharOn
<1> QED
  BY <1>4, <1>5, <1>7, CharacterRest

LEMMA PutBackJob ==
  ASSUME JInv, Source(from), PutBack, ReadOn(-1), fromCall'.op = "unget"
  PROVE  JInv'
<1>0. /\ Job(job) /\ Places /\ Asked /\ CharOn /\ job.op \in {"getutf8", "peekutf8"}
      /\ from.status = "open" /\ job.at \in Nat /\ job.at <= Len(Initial)
      /\ job.src = After(Initial, job.at)
      /\ job.pc = "unget" /\ ByCharacter
  BY AtCharacter DEF PutBack, Idle
<1>1. job' = [job EXCEPT !.pc = "fill", !.ret = 0]
  BY DEF PutBack
<1>2. /\ job'.op = job.op /\ job'.src = job.src /\ job'.at = job.at /\ job'.ret = 0
      /\ job'.pc = "fill" /\ job'.short = job.short /\ job'.left = job.left
  BY <1>0, <1>1, Zenon DEF Job
<1>3. Job(job)'
  BY <1>0, <1>1, Zenon DEF Job
<1>4. Places' /\ Asked' /\ ByCharacter'
  BY <1>0, <1>2 DEF Places, Asked, Copying, ByLine, ByCharacter, ReadOn
<1>5. From!Pos(from') = job.at
  <2>1. From!Pos(from) = job.at + 1 /\ From!Pos(from') = From!Pos(from) + -1
    BY <1>0 DEF CharOn, ReadOn
  <2> QED
    BY <1>0, <2>1
<1>6. CharacterTaken'
  BY <1>2 DEF CharacterTaken, Idle
<1>7. CharOn'
  BY <1>0, <1>2, <1>5, <1>6 DEF CharOn
<1> QED
  BY <1>3, <1>4, <1>7, CharacterRest

LEMMA FillCharacterJob ==
  ASSUME JInv, Source(from), FillCharacter
  PROVE  JInv' /\ Source(from')
<1>0. /\ Job(job) /\ Places /\ Asked /\ CharOn /\ job.op \in {"getutf8", "peekutf8"}
      /\ from.status = "open" /\ job.at \in Nat /\ job.at <= Len(Initial)
      /\ job.src = After(Initial, job.at) /\ job.left \in Nat
      /\ job.pc = "fill" /\ ByCharacter
  BY AtCharacter, Typed DEF FillCharacter, Idle
<1>1. /\ Source(from') /\ from'.status = "open" /\ From!Pos(from') = job.at
      /\ From!Avail(from') \in Nat
  BY <1>0, SourcePrepare, SourceUnread DEF FillCharacter, Prepare, CharOn
<1>2. fromCall'.ret = From!Avail(from')
  BY DEF FillCharacter, Prepare, From!Did
<1>3. CASE fromCall'.ret < job.left
  <2>1. job' = [job EXCEPT !.pc = "end", !.ret = EOF, !.ch = 0]
    BY <1>3 DEF FillCharacter, Answers
  <2>2. /\ job'.op = job.op /\ job'.src = job.src /\ job'.at = job.at /\ job'.ret = EOF
        /\ job'.pc = "end" /\ job'.short = job.short
    BY <1>0, <2>1, Zenon DEF Job
  <2>3. Job(job)'
    BY <1>0, <2>1, Zenon DEF Job
  <2>4. Places' /\ Asked' /\ ByCharacter'
    BY <1>0, <1>1, <2>2 DEF Places, Asked, Copying, ByLine, ByCharacter
  <2>5. CharacterTaken'
    BY <1>0, <1>1, <2>2 DEF CharacterTaken, EOF
  <2>6. CharOn'
    BY <2>2, <2>5 DEF CharOn
  <2> QED
    BY <1>1, <2>3, <2>4, <2>6, CharacterRest
<1>4. CASE ~(fromCall'.ret < job.left)
  <2>1. job' = [job EXCEPT !.pc = "decode"]
    BY <1>4 DEF FillCharacter
  <2>2. /\ job'.op = job.op /\ job'.src = job.src /\ job'.at = job.at /\ job'.ret = job.ret
        /\ job'.pc = "decode" /\ job'.short = job.short /\ job'.left = job.left
    BY <1>0, <2>1, Zenon DEF Job
  <2>3. Job(job)'
    BY <1>0, <2>1, Zenon DEF Job
  <2>4. Places' /\ Asked' /\ ByCharacter'
    BY <1>0, <1>1, <2>2 DEF Places, Asked, Copying, ByLine, ByCharacter
  <2>5. CharacterTaken'
    BY <2>2 DEF CharacterTaken, Idle
  <2>6. From!Avail(from') >= job.left
    BY <1>0, <1>1, <1>2, <1>4
  <2>7. CharOn'
    BY <1>0, <1>1, <2>2, <2>5, <2>6 DEF CharOn
  <2> QED
    BY <1>1, <2>3, <2>4, <2>7, CharacterRest
<1> QED
  BY <1>3, <1>4

LEMMA DecodeJob ==
  ASSUME JInv, Source(from), Decode
  PROVE  JInv'
<1>0. /\ Job(job) /\ Places /\ Asked /\ CharOn /\ job.op \in {"getutf8", "peekutf8"}
      /\ from.status = "open" /\ job.at \in Nat /\ job.at <= Len(Initial)
      /\ job.src = After(Initial, job.at) /\ job.src \in Seq(Byte)
      /\ Len(job.src) = Len(Initial) - job.at /\ Len(Initial) \in Nat
      /\ \A i \in 1..Len(job.src) : job.src[i] = Initial[job.at + i]
      /\ job.pc = "decode" /\ ByCharacter /\ from' = from
  BY AtCharacter DEF Decode, Idle, FromRests
<1>1. /\ ~job.short /\ job.ret = 0 /\ From!Pos(from) = job.at /\ From!Avail(from) >= job.left
      /\ job.src # <<>> /\ job.src[1] >= 128 /\ job.left = U!u8_seqlen(job.src[1]) - 1
  BY <1>0 DEF CharOn
<1>2. /\ Unread \in Seq(Byte) /\ Len(Unread) \in Nat /\ Len(Unread) <= Len(job.src)
      /\ \A i \in 1..Len(Unread) : Unread[i] = job.src[i]
  <2>1. PICK at, n : at = job.at /\ n = From!Avail(from)
    OBVIOUS
  <2>2. /\ n \in Nat /\ at + n <= Len(Initial) /\ Unread = Slice(Initial, at, n) /\ at \in Nat
        /\ Initial \in Seq(Byte) /\ Len(Initial) \in Nat
    BY <1>0, <1>1, <2>1, SourceUnread, Constants DEF Unread
  <2>3. /\ Slice(Initial, at, n) \in Seq(Byte) /\ Len(Slice(Initial, at, n)) = n
        /\ \A i \in 1..n : Slice(Initial, at, n)[i] = Initial[at + i]
    BY ONLY <2>2, SliceBytes
  <2>4. n <= Len(job.src) /\ \A i \in 1..n : i \in 1..Len(job.src)
    BY ONLY <1>0, <2>1, <2>2
  <2>5. \A i \in 1..n : Unread[i] = job.src[i]
    BY ONLY <1>0, <2>1, <2>2, <2>3, <2>4
  <2> QED
    BY <2>2, <2>3, <2>4, <2>5
<1>3. PICK stale \in [1..2 -> Byte] :
       job' = [job EXCEPT !.ch = U!u8_nextmemchar(Unread \o (IF EndsInside THEN <<>> ELSE stale), 0).ch,
                          !.short = ~EndsInside,
                          !.ret = IF job.op = "getutf8" THEN 0 ELSE 1,
                          !.pc = IF job.op = "getutf8" THEN "pass" ELSE "end"]
  BY DEF Decode
<1>4. PICK c, sh, x, pc :
        /\ c = U!u8_nextmemchar(Unread \o (IF EndsInside THEN <<>> ELSE stale), 0).ch
        /\ sh = ~EndsInside /\ x = (IF job.op = "getutf8" THEN 0 ELSE 1)
        /\ pc = (IF job.op = "getutf8" THEN "pass" ELSE "end")
  OBVIOUS
<1>5. job' = [job EXCEPT !.ch = c, !.short = sh, !.ret = x, !.pc = pc]
  BY <1>3, <1>4, Zenon
<1>6. sh \in BOOLEAN /\ (~sh => EndsInside)
  BY <1>4, Zenon
<1>7. x \in {0, 1} /\ pc \in {"pass", "end"} /\ (pc = "pass" <=> job.op = "getutf8")
      /\ (x = 0 <=> job.op = "getutf8")
  BY <1>4
<1>8. /\ job'.op = job.op /\ job'.src = job.src /\ job'.at = job.at /\ job'.ret = x
      /\ job'.pc = pc /\ job'.short = sh /\ job'.left = job.left /\ job'.ch = c
  BY <1>0, <1>5, Zenon DEF Job
<1>9. Job(job)'
  BY <1>0, <1>5, <1>6, <1>7, Zenon DEF Job
<1>10. Places' /\ Asked' /\ ByCharacter'
  BY <1>0, <1>7, <1>8 DEF Places, Asked, Copying, ByLine, ByCharacter
<1>11. ASSUME NEW ch \in Char, Encodes(job.src, ch), ~sh, FollowedWell(job.src, ch)
       PROVE  c = ch
  <2>1. EndsInside
    BY <1>6, <1>11
  <2>2. PICK i \in 2..Len(Unread) : U!isutf(Unread[i])
    BY <2>1 DEF EndsInside
  <2>3. U!u8_nextmemchar(Unread, 0).ch = ch
    BY <1>0, <1>2, <1>11, <2>2, DecodesTo
  <2>4. Unread \o <<>> = Unread
    BY <1>2, ConcatEmptySeq
  <2> QED
    BY <1>4, <2>1, <2>3, <2>4
<1>12. CharacterTaken'
  <2> SUFFICES ASSUME pc = "end", NEW ch \in Char, Encodes(job.src, ch)
               PROVE  ~sh /\ FollowedWell(job.src, ch) => c = ch
    BY <1>0, <1>1, <1>7, <1>8 DEF CharacterTaken, Idle
  <2> QED
    BY <1>11
<1>13. CharOn'
  BY <1>0, <1>1, <1>7, <1>8, <1>11, <1>12 DEF CharOn
<1> QED
  BY <1>9, <1>10, <1>13, CharacterRest

LEMMA PassCharacterJob ==
  ASSUME JInv, Source(from), PassCharacter, NEW k \in Nat, ReadOn(k),
         job.left + 1 <= Len(Initial) - From!Pos(from) => k = job.left + 1
  PROVE  JInv'
<1>0. /\ Job(job) /\ Places /\ Asked /\ CharOn /\ job.op \in {"getutf8", "peekutf8"}
      /\ from.status = "open" /\ job.at \in Nat /\ job.at <= Len(Initial)
      /\ job.src = After(Initial, job.at) /\ job.src \in Seq(Byte)
      /\ Len(job.src) = Len(Initial) - job.at /\ Len(Initial) \in Nat
      /\ job.pc = "pass" /\ ByCharacter
  BY AtCharacter DEF PassCharacter, Idle
<1>1. /\ job.op = "getutf8" /\ From!Pos(from) = job.at
      /\ job.src # <<>> /\ job.left = U!u8_seqlen(job.src[1]) - 1
      /\ \A ch \in Char : Encodes(job.src, ch) /\ ~job.short /\ FollowedWell(job.src, ch)
                            => job.ch = ch
  BY <1>0 DEF CharOn
<1>2. job' = [job EXCEPT !.pc = "end", !.ret = 1]
  BY DEF PassCharacter
<1>3. /\ job'.op = job.op /\ job'.src = job.src /\ job'.at = job.at /\ job'.ret = 1
      /\ job'.pc = "end" /\ job'.short = job.short /\ job'.left = job.left /\ job'.ch = job.ch
  BY <1>0, <1>2, Zenon DEF Job
<1>4. Job(job)'
  BY <1>0, <1>2, Zenon DEF Job
<1>5. Places' /\ Asked' /\ ByCharacter'
  BY <1>0, <1>3 DEF Places, Asked, Copying, ByLine, ByCharacter, ReadOn
<1>6. CharacterTaken'
  <2> SUFFICES ASSUME NEW ch \in Char, Encodes(job.src, ch)
               PROVE  /\ From!Pos(from') = job.at + U!u8_charlen(ch)
                      /\ ~job.short /\ FollowedWell(job.src, ch) => job.ch = ch
    BY <1>1, <1>3 DEF CharacterTaken
  <2>1. PICK n : n = U!u8_charlen(ch)
    OBVIOUS
  <2>2. n \in 1..4 /\ n <= Len(job.src) /\ U!u8_seqlen(job.src[1]) = n
    BY <1>0, <2>1, BeginsWith
  <2>3. job.left + 1 = n
    BY <1>1, <2>2
  <2>4. n <= Len(Initial) - From!Pos(from)
    BY <1>0, <1>1, <2>2
  <2>5. k = n
    BY <2>3, <2>4
  <2> QED
    BY <1>1, <2>1, <2>5 DEF ReadOn
<1>7. CharOn'
  BY <1>3, <1>6 DEF CharOn
<1> QED
  BY <1>4, <1>5, <1>7, CharacterRest

\* The client waits until a call is over, and then has no call.
LEMMA ClientJob ==
  ASSUME job' = NoJob
  PROVE  JInv'
<1>1. /\ job'.op = "none" /\ job'.pc = "end" /\ job'.src = <<>>
  BY DEF NoJob
<1>2. Job(job)'
  BY EmptyBytes DEF Job, NoJob
<1> QED
  BY <1>1, <1>2 DEF JInv, Places, Asked, Moved, Laid, CopyOn, LineOn, CharOn, Copying, ByLine,
                    ByCharacter

-------------------------------------------------------------------------------
(***************************************************************************)
(* What the calls on the source answer: the bytes from its position on.    *)
(***************************************************************************)

\* Nothing is dirty, so what is flushed before a read is nothing.
LEMMA DrainedSource ==
  ASSUME ~From!InMemory, Source(from), from.status = "open", NEW nw
  PROVE  LET f == From!Drained(from, nw) IN
         /\ f \in From!Stream /\ Keeps(from, f) /\ f.buf = <<>> /\ f.bpos = 0
         /\ f.state = "rd" /\ f.maxsize = from.maxsize /\ f.off = from.off
         /\ f.eof = from.eof /\ f.data = Initial
         /\ From!Readable(f) = Len(Initial) - from.off
<1>0. from \in From!Stream /\ from.ndirty = 0 /\ Len(from.buf) \in Nat /\ from.data = Initial
  BY Known DEF Source
<1> DEFINE e == [from EXCEPT !.bpos = Len(from.buf)]
           f == [e EXCEPT !.buf = <<>>, !.bpos = 0, !.state = "rd", !.fpos = -1]
<1>1. e \in From!Stream /\ e.ndirty = 0
  BY Zenon, <1>0 DEF From!Stream
<1>2. From!Drained(from, nw) = f
  BY <1>1 DEF From!Drained, From!Flush
<1>3. <<>> \in Seq(Byte) /\ 0 \in Nat /\ -1 \in Nat \cup {-1}
  BY EmptyBytes
<1>4. /\ f.buf = <<>> /\ f.bpos = 0 /\ f.state = "rd" /\ f.maxsize = from.maxsize
      /\ f.off = from.off /\ f.eof = from.eof /\ f.data = from.data
      /\ f.ndirty = from.ndirty /\ f.inl = from.inl /\ f.status = from.status
  BY Zenon, <1>0 DEF From!Stream
<1>5. f \in From!Stream
  BY Zenon, <1>0, <1>1, <1>3 DEF From!Stream
<1> HIDE DEF f
<1>6. From!Readable(f) = Len(Initial) - from.off
  BY <1>0, <1>4, Known, Constants, FromBytes DEF From!Readable, Max2, Source
<1>7. Keeps(from, f)
  BY <1>0, <1>4 DEF Keeps, Source
<1> QED
  BY <1>0, <1>2, <1>4, <1>5, <1>6, <1>7

\* The unread bytes and the k that lie behind the offset.
LEMMA ReadJoin ==
  ASSUME ~From!InMemory, Source(from), from.status = "open", NEW k \in Nat,
         k <= Len(Initial) - from.off
  PROVE  /\ From!After(from.buf, from.bpos) \o From!Slice(Initial, from.off, k)
              = Slice(Initial, From!Pos(from), From!Avail(from) + k)
         /\ Len(Slice(Initial, From!Pos(from), From!Avail(from) + k)) = From!Avail(from) + k
         /\ From!Avail(from) + k <= Len(Initial) - From!Pos(from)
<1>1. PICK p, m, o : p = From!Pos(from) /\ m = From!Avail(from) /\ o = from.off
  OBVIOUS
<1>2. /\ p \in Nat /\ m \in Nat /\ o = p + m /\ After(from.buf, from.bpos) = Slice(Initial, p, m)
      /\ Len(Initial) \in Nat /\ Initial \in Seq(Byte)
  BY <1>1, SourceUnread, Constants
<1>3. p + m + k <= Len(Initial)
  BY <1>1, <1>2
<1>4. Slice(Initial, p, m) \o Slice(Initial, p + m, k) = Slice(Initial, p, m + k)
  BY ONLY <1>2, <1>3, k \in Nat, SliceJoin
<1>5. Len(Slice(Initial, p, m + k)) = m + k
  <2>1. PICK n : n = m + k
    OBVIOUS
  <2>2. n \in Nat /\ (n > 0 => p + n <= Len(Initial))
    BY ONLY <1>2, <1>3, <2>1, k \in Nat
  <2>3. Len(Slice(Initial, p, n)) = n
    BY ONLY <1>2, <2>2, SliceBytes
  <2> QED
    BY ONLY <2>1, <2>3
<1>6. From!After(from.buf, from.bpos) = Slice(Initial, p, m)
      /\ From!Slice(Initial, from.off, k) = Slice(Initial, p + m, k)
  BY <1>1, <1>2, Zenon, FromBytes
<1>7. m + k <= Len(Initial) - p
  BY ONLY <1>2, <1>3, k \in Nat
<1> QED
  BY ONLY <1>1, <1>4, <1>5, <1>6, <1>7

\* Of a read of n bytes, k are had.
Had(op, n, k) ==
  /\ k <= n
  /\ fromCall' = [op |-> op, num |-> n, bytes |-> Slice(Initial, From!Pos(from), k), ret |-> k]
  /\ Source(from') /\ from'.status = "open" /\ from'.state = "rd"
  /\ From!Pos(from') = From!Pos(from) + k
  /\ k > 0 => from'.bpos > 0 \/ from'.buf = <<>>
  /\ k = 0 => From!Pos(from) = Len(Initial)
  /\ op # "read" \/ n <= From!Avail(from) + 1 => k = n \/ From!Pos(from) + k = Len(Initial)

LEMMA BufferedHad ==
  ASSUME Source(from), from.status = "open", NEW op, NEW n \in Nat \ {0},
         From!ReadBuffered(op, n)
  PROVE  n \in 0..(Len(Initial) - From!Pos(from)) /\ Had(op, n, n)
<1>1. /\ n <= From!Avail(from) /\ from' = [from EXCEPT !.bpos = @ + n, !.state = "rd"]
      /\ fromCall' = [op |-> op, num |-> n, bytes |-> Slice(from.buf, from.bpos, n),
                      ret |-> Len(Slice(from.buf, from.bpos, n))]
  BY FromBytes DEF From!ReadBuffered, From!Got, From!Did
<1>2. /\ From!Pos(from) \in Nat /\ From!Avail(from) \in Nat
      /\ From!Pos(from) + From!Avail(from) <= Len(Initial)
      /\ Slice(from.buf, from.bpos, n) = Slice(Initial, From!Pos(from), n)
  BY <1>1, SourceUnread
<1>3. Len(Slice(Initial, From!Pos(from), n)) = n
  BY <1>1, <1>2, SliceBytes, Constants
<1> DEFINE t == [from EXCEPT !.bpos = @ + n]
<1>4. /\ Source(t) /\ t.status = "open" /\ t.bpos = from.bpos + n
      /\ From!Pos(t) = From!Pos(from) + n
  <2>1. n \in 0..From!Avail(from)
    BY <1>1, <1>2
  <2>2. from \in From!Stream
    BY DEF Source
  <2>3. t.bpos = from.bpos + n
    BY Zenon, <2>2 DEF From!Stream
  <2> QED
    BY <2>1, <2>3, SourceMoved
<1>5. from' = [t EXCEPT !.state = "rd"]
  <2>1. from \in From!Stream
    BY DEF Source
  <2> QED
    BY <1>1, <2>1 DEF From!Stream
<1> HIDE DEF t
<1>6. /\ Source(from') /\ from'.status = "open" /\ from'.state = "rd"
      /\ From!Pos(from') = From!Pos(t) /\ from'.bpos = t.bpos
  BY <1>4, <1>5, InReading
<1>7. from.bpos \in Nat
  BY Known DEF Source
<1> QED
  BY <1>1, <1>2, <1>3, <1>4, <1>6, <1>7 DEF Had

LEMMA RestHad ==
  ASSUME Source(from), from.status = "open", NEW op, NEW n \in Nat \ {0},
         From!ReadRest(op, n)
  PROVE  \E k \in 0..(Len(Initial) - From!Pos(from)) : Had(op, n, k)
<1>0. PICK k, e : k = From!Avail(from) /\ e = (from.eof \/ From!Avail(from) = 0)
  OBVIOUS
<1>1. /\ n > k /\ from' = [from EXCEPT !.bpos = Len(from.buf), !.state = "rd", !.eof = e]
      /\ fromCall' = [op |-> op, num |-> n, bytes |-> After(from.buf, from.bpos),
                      ret |-> Len(After(from.buf, from.bpos))]
      /\ From!InMemory
  BY <1>0, FromBytes DEF From!ReadRest, From!Got, From!Did
<1>2. /\ From!Pos(from) \in Nat /\ k \in Nat /\ Len(from.buf) = from.bpos + k
      /\ From!Pos(from) + k = Len(Initial)
      /\ After(from.buf, from.bpos) = Slice(Initial, From!Pos(from), k)
      /\ Len(After(from.buf, from.bpos)) = k
      /\ from.bpos \in Nat /\ from \in From!Stream /\ e \in BOOLEAN
  <2>1. from \in From!Stream /\ from.bpos \in Nat /\ Len(from.buf) \in Nat /\ from.eof \in BOOLEAN
    BY Known DEF Source, From!Stream
  <2> QED
    BY <1>0, <1>1, <2>1, SourceUnread
<1> DEFINE t == [from EXCEPT !.bpos = @ + k]
           u == [t EXCEPT !.state = "rd"]
<1>3. Source(t) /\ t.status = "open" /\ From!Pos(t) = From!Pos(from) + k
  <2>1. k \in 0..From!Avail(from)
    BY <1>0, <1>2
  <2> QED
    BY <2>1, SourceMoved
<1>4. t.bpos = from.bpos + k
  BY Zenon, <1>2 DEF From!Stream
<1>5. from' = [u EXCEPT !.eof = e]
  BY <1>1, <1>2 DEF From!Stream
<1> HIDE DEF t
<1>6. Source(u) /\ u.status = "open" /\ u.state = "rd" /\ From!Pos(u) = From!Pos(t) /\ u.bpos = t.bpos
  BY <1>3, InReading
<1> HIDE DEF u
<1>7. /\ Source(from') /\ from'.status = "open" /\ from'.state = "rd"
      /\ From!Pos(from') = From!Pos(u) /\ from'.bpos = u.bpos
  BY <1>2, <1>5, <1>6, SourceEof
<1>8. Had(op, n, k)
  BY <1>1, <1>2, <1>3, <1>4, <1>6, <1>7, Constants DEF Had
<1> QED
  BY <1>2, <1>8, Constants

\* A source over a descriptor whose buffer holds m bytes that end at o.
LEMMA RefilledSource ==
  ASSUME ~From!InMemory, Source(from), from.status = "open", NEW u \in From!Stream,
         Keeps(from, u), u.state # "wr", u.maxsize = from.maxsize, NEW m \in Nat, NEW o \in Nat,
         o <= Len(Initial), m <= o, m <= u.maxsize, u.off = o,
         u.buf = Slice(Initial, o - m, m), NEW b \in 0..m, u.bpos = b
  PROVE  Source(u) /\ u.status = "open" /\ From!Pos(u) = o - m + b
<1>1. PICK at : at = o - m
  OBVIOUS
<1>2. at \in Nat /\ at + m = o /\ (m > 0 => at + m <= Len(Initial)) /\ Len(Initial) \in Nat
  BY <1>1, Constants
<1>3. /\ Slice(Initial, at, m) \in Seq(Byte) /\ Len(Slice(Initial, at, m)) = m
      /\ \A i \in 1..m : Slice(Initial, at, m)[i] = Initial[at + i]
  <2>1. Initial \in Seq(Byte)
    BY Constants
  <2> QED
    BY ONLY <1>2, <2>1, SliceBytes, m \in Nat
<1>4. /\ u.buf = Slice(Initial, at, m) /\ Len(u.buf) = m
      /\ \A i \in 1..Len(u.buf) : u.buf[i] = Initial[at + i]
  BY <1>1, <1>3
<1>5. from.maxsize \in Nat /\ b \in Nat /\ b <= m
  BY Known DEF Source
<1>6. /\ u.maxsize >= from.maxsize
      /\ u.bpos <= Len(u.buf) /\ Len(u.buf) <= u.maxsize /\ u.off <= Len(Initial)
      /\ at + Len(u.buf) = u.off
  <2>1. Len(u.buf) = m
    BY <1>4
  <2>2. /\ u.maxsize = from.maxsize /\ m <= u.maxsize /\ u.bpos = b
        /\ u.off = o /\ o <= Len(Initial) /\ m \in Nat /\ o \in Nat
    OBVIOUS
  <2> QED
    BY ONLY <1>2, <1>5, <2>1, <2>2
<1>7. /\ Source(u) /\ u.status = "open" /\ From!Pos(u) = at + u.bpos
  BY <1>2, <1>4, <1>6, SourceView
<1> QED
  BY <1>1, <1>7

LEMMA DirectHad ==
  ASSUME Source(from), from.status = "open", NEW op, NEW n \in Nat \ {0},
         From!ReadDirect(op, n)
  PROVE  \E k \in 0..(Len(Initial) - From!Pos(from)) : Had(op, n, k)
<1>0. ~From!InMemory /\ n > From!Avail(from)
  BY DEF From!ReadDirect
<1>1. PICK nw : LET f == From!Drained(from, nw)
                    most == From!Min2(n - From!Avail(from), From!Readable(f))
                IN \E k \in 0..most :
                     /\ k < most => op = "read" /\ k > 0
                     /\ from' = [f EXCEPT !.off = @ + k, !.eof = @ \/ k = 0]
                     /\ From!Got(op, n, From!After(from.buf, from.bpos)
                                           \o From!Slice(f.data, f.off, k))
  BY Zenon DEF From!ReadDirect
<1>2. PICK f : f = From!Drained(from, nw)
  OBVIOUS
<1>3. /\ f \in From!Stream /\ Keeps(from, f) /\ f.buf = <<>> /\ f.bpos = 0
      /\ f.state = "rd" /\ f.maxsize = from.maxsize /\ f.off = from.off
      /\ f.eof = from.eof /\ f.data = Initial
      /\ From!Readable(f) = Len(Initial) - from.off
  BY <1>0, <1>2, DrainedSource
<1>4. PICK most : most = From!Min2(n - From!Avail(from), From!Readable(f))
  OBVIOUS
<1>5. PICK k \in 0..most :
        /\ k < most => op = "read" /\ k > 0
        /\ from' = [f EXCEPT !.off = @ + k, !.eof = @ \/ k = 0]
        /\ From!Got(op, n, From!After(from.buf, from.bpos) \o From!Slice(f.data, f.off, k))
  BY Zenon, <1>1, <1>2, <1>4
<1>6. PICK p, m, o : p = From!Pos(from) /\ m = From!Avail(from) /\ o = from.off
  OBVIOUS
<1>7. /\ p \in Nat /\ m \in Nat /\ o = p + m /\ o \in Nat /\ o <= Len(Initial)
      /\ Len(Initial) \in Nat /\ n > m
  BY <1>0, <1>6, SourceUnread, Constants
<1>8. most = IF n - m <= Len(Initial) - o THEN n - m ELSE Len(Initial) - o
  BY <1>3, <1>4, <1>6, FromBytes DEF Min2
<1>9. /\ k \in Nat /\ k <= n - m /\ k <= Len(Initial) - o /\ o + k \in Nat
      /\ k < most => op = "read" /\ k > 0
      /\ m + k \in 0..(Len(Initial) - p) /\ m + k <= n
      /\ k = most => m + k = n \/ p + (m + k) = Len(Initial)
      /\ k = 0 => most = 0
      /\ n <= m + 1 => k = most
      /\ m + k = 0 => p = Len(Initial)
      /\ p + (m + k) = o + k
  <2>1. /\ k \in 0..most /\ n \in Nat
        /\ k < most => op = "read" /\ k > 0
    BY <1>5
  <2>2. PICK l : l = Len(Initial)
    OBVIOUS
  <2>3. /\ p \in Nat /\ m \in Nat /\ o = p + m /\ o \in Nat /\ o <= l /\ l \in Nat /\ n > m
        /\ most = IF n - m <= l - o THEN n - m ELSE l - o
    BY ONLY <1>7, <1>8, <2>2
  <2>4. /\ most \in Nat /\ k \in Nat /\ k <= n - m /\ k <= l - o
        /\ (most = n - m \/ most = l - o) /\ n - m > 0
    BY ONLY <2>1, <2>3
  <2>5. /\ o + k \in Nat /\ m + k \in 0..(l - p) /\ m + k <= n
        /\ k = most => m + k = n \/ p + (m + k) = l
        /\ p + (m + k) = o + k
    BY ONLY <2>3, <2>4, n \in Nat
  <2>6. k = 0 => most = 0
    BY ONLY <2>1, <2>4
  <2>7. n <= m + 1 => k = most
    BY ONLY <2>1, <2>3, <2>4
  <2>8. m + k = 0 => p = l
    BY ONLY <2>3, <2>4, <2>6, n \in Nat
  <2> QED
    BY ONLY <2>1, <2>2, <2>4, <2>5, <2>6, <2>7, <2>8
<1>10. /\ Slice(Initial, p, m + k) = From!After(from.buf, from.bpos) \o From!Slice(f.data, f.off, k)
       /\ Len(Slice(Initial, p, m + k)) = m + k
  BY <1>0, <1>3, <1>6, <1>9, ReadJoin
<1>11. fromCall' = [op |-> op, num |-> n, bytes |-> Slice(Initial, p, m + k), ret |-> m + k]
  BY <1>5, <1>10 DEF From!Got, From!Did
<1>12. /\ Source(from') /\ from'.status = "open" /\ from'.state = "rd" /\ from'.buf = <<>>
       /\ From!Pos(from') = o + k
  <2>1. PICK e : e = (f.eof \/ k = 0)
    OBVIOUS
  <2>2. e \in BOOLEAN /\ from' = [f EXCEPT !.off = @ + k, !.eof = e] /\ f.off = o
    BY <1>3, <1>5, <1>6, <2>1
  <2>3. /\ from' \in From!Stream
        /\ from'.off = o + k /\ from'.buf = f.buf /\ from'.bpos = f.bpos
        /\ from'.state = f.state /\ from'.maxsize = f.maxsize
    BY Zenon, <1>3, <1>9, <2>2 DEF From!Stream
  <2>4. Keeps(from, from')
    <3>1. /\ from'.ndirty = f.ndirty /\ from'.data = f.data /\ from'.inl = f.inl
          /\ from'.status = f.status
      BY Zenon, <1>3, <2>2 DEF From!Stream
    <3> QED
      BY <1>3, <2>3, <3>1 DEF Keeps
  <2>5. /\ 0 \in 0..0 /\ o + k \in Nat /\ o + k <= Len(Initial) /\ 0 <= o + k
        /\ 0 <= from.maxsize /\ o + k - 0 \in Nat
    <3>1. 0 \in 0..0 /\ o + k \in Nat /\ o + k <= Len(Initial)
      BY ONLY <1>7, <1>9
    <3>2. 0 <= from.maxsize
      BY Known DEF Source
    <3> QED
      BY ONLY <3>1, <3>2
  <2>6. from'.buf = Slice(Initial, o + k - 0, 0)
    BY <1>3, <2>3, <2>5, SliceNone, Constants
  <2>7. Source(from') /\ from'.status = "open" /\ From!Pos(from') = o + k - 0 + 0
    BY <1>0, <1>3, <2>3, <2>4, <2>5, <2>6, RefilledSource
  <2> QED
    BY <1>3, <1>9, <2>3, <2>7
<1>13. Had(op, n, m + k)
  <2>1. op # "read" \/ n <= m + 1 => m + k = n \/ p + (m + k) = Len(Initial)
    BY ONLY <1>5, <1>7, <1>9, n \in Nat, <1>8
  <2> QED
    BY <1>6, <1>9, <1>11, <1>12, <2>1 DEF Had
<1> QED
  BY <1>6, <1>9, <1>13

LEMMA RefillHad ==
  ASSUME Source(from), from.status = "open", NEW op, NEW n \in Nat \ {0},
         From!ReadRefill(op, n)
  PROVE  \E k \in 0..(Len(Initial) - From!Pos(from)) : Had(op, n, k)
<1>0. ~From!InMemory /\ n > From!Avail(from)
  BY DEF From!ReadRefill
<1>1. PICK nw, f :
        /\ f = From!Drained(from, nw)
        /\ \/ \E b \in 1..(n - From!Avail(from)), g \in 0..f.maxsize :
                /\ b + g <= f.maxsize /\ n - From!Avail(from) + g <= From!Readable(f)
                /\ from' = From!Refilled(f, n - From!Avail(from), b, g)
                /\ From!Got(op, n, From!After(from.buf, from.bpos)
                                      \o From!Slice(f.data, f.off, n - From!Avail(from)))
           \/ \E k \in 0..From!Min2(n - From!Avail(from) - 1, From!Readable(f)) :
                /\ k = From!Readable(f)
                /\ from' = [f EXCEPT !.off = @ + k, !.eof = TRUE]
                /\ From!Got(op, n, From!After(from.buf, from.bpos) \o From!Slice(f.data, f.off, k))
  BY Zenon DEF From!ReadRefill
<1>3. /\ f \in From!Stream /\ Keeps(from, f) /\ f.buf = <<>> /\ f.bpos = 0
      /\ f.state = "rd" /\ f.maxsize = from.maxsize /\ f.off = from.off
      /\ f.eof = from.eof /\ f.data = Initial
      /\ From!Readable(f) = Len(Initial) - from.off
  BY <1>0, <1>1, DrainedSource
<1>6. PICK p, m, o : p = From!Pos(from) /\ m = From!Avail(from) /\ o = from.off
  OBVIOUS
<1>7. /\ p \in Nat /\ m \in Nat /\ o = p + m /\ o \in Nat /\ o <= Len(Initial)
      /\ Len(Initial) \in Nat /\ n > m /\ from.maxsize \in Nat
  BY <1>0, <1>6, SourceUnread, Constants, Known DEF Source
<1>8. ASSUME NEW b \in 1..(n - m), NEW g \in 0..f.maxsize,
             b + g <= f.maxsize /\ n - m + g <= From!Readable(f),
             from' = From!Refilled(f, n - m, b, g),
             From!Got(op, n, From!After(from.buf, from.bpos) \o From!Slice(f.data, f.off, n - m))
      PROVE  n \in 0..(Len(Initial) - p) /\ Had(op, n, n)
  <2>1. /\ b \in Nat /\ g \in Nat /\ b > 0 /\ n - m \in Nat /\ n - m <= Len(Initial) - o
        /\ b + g \in Nat /\ o + (n - m) + g \in Nat /\ o + (n - m) + g <= Len(Initial)
        /\ b + g <= o + (n - m) + g /\ b \in 0..(b + g)
        /\ o + (n - m) + g - (b + g) = o + (n - m) - b
        /\ o + (n - m) + g - (b + g) + b = p + n /\ m + (n - m) = n
        /\ n \in 0..(Len(Initial) - p) /\ b + g <= from.maxsize
        /\ o + (n - m) - b \in Nat
    <3>1. PICK l, x : l = Len(Initial) /\ x = from.maxsize
      OBVIOUS
    <3>2. /\ b \in 1..(n - m) /\ g \in Nat /\ b + g <= x /\ n - m + g <= l - o
      BY <1>3, <1>6, <1>7, <1>8, <3>1
    <3>3. /\ p \in Nat /\ m \in Nat /\ o = p + m /\ o \in Nat /\ o <= l
          /\ l \in Nat /\ n > m /\ x \in Nat /\ n \in Nat
      BY <1>7, <3>1
    <3>4. /\ b \in Nat /\ g \in Nat /\ b > 0 /\ n - m \in Nat /\ n - m <= l - o
          /\ b + g \in Nat /\ o + (n - m) + g \in Nat /\ o + (n - m) + g <= l
          /\ b + g <= o + (n - m) + g /\ b \in 0..(b + g)
      BY ONLY <3>2, <3>3
    <3>5. /\ o + (n - m) + g - (b + g) = o + (n - m) - b
          /\ o + (n - m) + g - (b + g) + b = p + n /\ m + (n - m) = n
          /\ n \in 0..(l - p) /\ o + (n - m) - b \in Nat
      BY ONLY <3>2, <3>3, <3>4
    <3> QED
      BY ONLY <3>1, <3>2, <3>4, <3>5
  <2>2. /\ Slice(Initial, p, n)
              = From!After(from.buf, from.bpos) \o From!Slice(f.data, f.off, n - m)
        /\ Len(Slice(Initial, p, n)) = n
    <3>1. PICK w : w = n - m
      OBVIOUS
    <3>2. w \in Nat /\ w <= Len(Initial) - from.off /\ m + w = n
      BY <1>6, <2>1, <3>1
    <3> QED
      BY <1>0, <1>3, <1>6, <3>1, <3>2, ReadJoin
  <2>3. fromCall' = [op |-> op, num |-> n, bytes |-> Slice(Initial, p, n), ret |-> n]
    BY <1>8, <2>2 DEF From!Got, From!Did
  <2>4. PICK x, y, z : x = o + (n - m) + g /\ y = Slice(Initial, o + (n - m) - b, b + g) /\ z = b + g
    OBVIOUS
  <2>5. from' = [f EXCEPT !.off = x, !.buf = y, !.bpos = b]
    BY <1>3, <1>6, <1>8, <2>4, FromBytes DEF From!Refilled
  <2>6. y \in Seq(Byte)
    <3>1. o + (n - m) - b + (b + g) <= Len(Initial)
      BY ONLY <2>1, <1>7, n \in Nat
    <3> QED
      BY <2>1, <2>4, <3>1, SliceBytes, Constants
  <2>7. /\ from' \in From!Stream
        /\ from'.off = x /\ from'.buf = y /\ from'.bpos = b
        /\ from'.state = f.state /\ from'.maxsize = f.maxsize
    BY Zenon, <1>3, <2>1, <2>4, <2>5, <2>6 DEF From!Stream
  <2>8. Keeps(from, from')
    <3>1. /\ from'.ndirty = f.ndirty /\ from'.data = f.data /\ from'.inl = f.inl
          /\ from'.status = f.status
      BY Zenon, <1>3, <2>5 DEF From!Stream
    <3> QED
      BY <1>3, <2>7, <3>1 DEF Keeps
  <2>9. Source(from') /\ from'.status = "open" /\ From!Pos(from') = p + n
    <3>1. /\ x \in Nat /\ z \in Nat /\ x <= Len(Initial) /\ z <= x /\ z <= from'.maxsize
          /\ y = Slice(Initial, x - z, z) /\ b \in 0..z /\ x - z + b = p + n
      <4>1. x - z = o + (n - m) - b /\ x - z + b = p + n
        <5>1. x = o + (n - m) + g /\ z = b + g
          BY <2>4
        <5>3. /\ o \in Nat /\ n \in Nat /\ m \in Nat /\ g \in Nat /\ b \in Nat /\ p \in Nat
              /\ o = p + m
          BY <1>7, <2>1
        <5> QED
          BY ONLY <5>1, <5>3
      <4>2. y = Slice(Initial, x - z, z)
        BY ONLY <2>4, <4>1
      <4>3. z <= from'.maxsize
        BY ONLY <1>3, <2>1, <2>4, <2>7
      <4>4. x \in Nat /\ z \in Nat /\ x <= Len(Initial) /\ z <= x /\ b \in 0..z
        BY ONLY <2>1, <2>4
      <4> QED
        BY ONLY <4>1, <4>2, <4>3, <4>4
    <3> QED
      BY <1>0, <1>3, <2>7, <2>8, <3>1, RefilledSource
  <2> QED
    BY <1>3, <1>6, <2>1, <2>3, <2>7, <2>9 DEF Had
<1>9. ASSUME NEW k \in 0..From!Min2(n - m - 1, From!Readable(f)), k = From!Readable(f),
             from' = [f EXCEPT !.off = @ + k, !.eof = TRUE],
             From!Got(op, n, From!After(from.buf, from.bpos) \o From!Slice(f.data, f.off, k))
      PROVE  m + k \in 0..(Len(Initial) - p) /\ Had(op, n, m + k)
  <2>0. k <= n - m - 1
    BY <1>3, <1>7, <1>9, FromBytes DEF Min2
  <2>1. /\ k \in Nat /\ k = Len(Initial) - o /\ o + k = Len(Initial)
        /\ m + k \in 0..(Len(Initial) - p) /\ m + k <= n /\ p + (m + k) = Len(Initial)
        /\ o + k = p + (m + k) /\ o + k \in Nat
    <3>1. k = Len(Initial) - o
      BY <1>3, <1>6, <1>9
    <3>2. PICK l : l = Len(Initial)
      OBVIOUS
    <3>3. /\ p \in Nat /\ m \in Nat /\ o = p + m /\ o \in Nat /\ o <= l /\ l \in Nat /\ n > m
          /\ k = l - o /\ k <= n - m - 1
      BY ONLY <1>7, <2>0, <3>1, <3>2
    <3>4. /\ k \in Nat /\ o + k = l /\ m + k \in 0..(l - p) /\ m + k <= n
          /\ p + (m + k) = l /\ o + k = p + (m + k) /\ o + k \in Nat
      BY ONLY <3>3, n \in Nat
    <3> QED
      BY ONLY <3>1, <3>2, <3>4
  <2>2. /\ Slice(Initial, p, m + k) = From!After(from.buf, from.bpos) \o From!Slice(f.data, f.off, k)
        /\ Len(Slice(Initial, p, m + k)) = m + k
    <3>1. k \in Nat /\ k <= Len(Initial) - from.off
      BY <1>6, <1>7, <2>1
    <3> QED
      BY <1>0, <1>3, <1>6, <3>1, ReadJoin
  <2>3. fromCall' = [op |-> op, num |-> n, bytes |-> Slice(Initial, p, m + k), ret |-> m + k]
    BY <1>9, <2>2 DEF From!Got, From!Did
  <2>4. /\ from' \in From!Stream
        /\ from'.off = o + k /\ from'.buf = f.buf /\ from'.bpos = f.bpos
        /\ from'.state = f.state /\ from'.maxsize = f.maxsize
    <3>1. f.off = o /\ TRUE \in BOOLEAN
      BY <1>3, <1>6
    <3> QED
      BY Zenon, <1>3, <1>9, <2>1, <3>1 DEF From!Stream
  <2>5. Keeps(from, from')
    <3>1. /\ from'.ndirty = f.ndirty /\ from'.data = f.data /\ from'.inl = f.inl
          /\ from'.status = f.status
      BY Zenon, <1>3, <1>9 DEF From!Stream
    <3> QED
      BY <1>3, <2>4, <3>1 DEF Keeps
  <2>6. Source(from') /\ from'.status = "open" /\ From!Pos(from') = o + k
    <3>1. /\ 0 \in 0..0 /\ o + k \in Nat /\ o + k <= Len(Initial) /\ 0 <= o + k
          /\ 0 <= from'.maxsize /\ o + k - 0 \in Nat /\ o + k - 0 + 0 = o + k
      BY <1>3, <1>7, <2>1, <2>4
    <3>2. from'.buf = Slice(Initial, o + k - 0, 0)
      BY <1>3, <2>4, <3>1, SliceNone, Constants
    <3>3. Source(from') /\ from'.status = "open" /\ From!Pos(from') = o + k - 0 + 0
      BY <1>0, <1>3, <2>4, <2>5, <3>1, <3>2, RefilledSource
    <3> QED
      BY <3>1, <3>3
  <2>7. m + k = 0 => p = Len(Initial)
    BY ONLY <2>1, <1>7
  <2> QED
    BY <1>3, <1>6, <2>1, <2>3, <2>4, <2>6, <2>7 DEF Had
<1> QED
  BY <1>1, <1>6, <1>8, <1>9

LEMMA SourceReads ==
  ASSUME Source(from), from.status = "open", NEW op, NEW n \in Nat \ {0},
         From!Reading(op, n)
  PROVE  \E k \in 0..(Len(Initial) - From!Pos(from)) : Had(op, n, k)
BY BufferedHad, RestHad, DirectHad, RefillHad DEF From!Reading

-------------------------------------------------------------------------------
(***************************************************************************)
(* Every call on the source, and what it did to the array of bytes with a  *)
(* pointer that ios.h describes.                                           *)
(***************************************************************************)

\* What its last call answered.
FromAnswer == fromCall.num \in Int /\ fromCall.ret \in Int /\ fromCall.bytes \in Seq(Byte)

\* The byte a getc took lies before the position, and an unget finds room for it.
LastByte ==
  fromCall.op = "getc" /\ fromCall.bytes # <<>> =>
    /\ from.status = "open" /\ from.state = "rd"
    /\ From!Pos(from) \in 1..Len(Initial) /\ fromCall.bytes[1] = Initial[From!Pos(from)]
    /\ from.bpos > 0 \/ from.buf = <<>>

\* The buffer fills only by reading.
Filled == ~From!InMemory /\ from.state = "none" => from.buf = <<>>

FromInv == Source(from) /\ FromAnswer /\ LastByte /\ Filled

FromStep == [From!Pointer!Next]_(From!Pointer!vars)

\* What the promise says of a source that is open and stays so.
LEMMA FromKept ==
  ASSUME Source(from), Source(from'), from.status = "open", from'.status = "open"
  PROVE  /\ From!Contents(from) = Initial /\ From!Contents(from') = Initial
         /\ From!Pos(from) \in Nat /\ From!Pos(from) <= Len(Initial) /\ Len(Initial) \in Nat
         /\ From!Pointer!Left = Len(Initial) - From!Pos(from)
<1>1. From!Contents(from) = Initial /\ From!Contents(from') = Initial
  BY SourceContents
<1>2. /\ From!Pos(from) \in Nat /\ From!Pos(from) <= Len(Initial) /\ Len(Initial) \in Nat
  BY SourceUnread, Constants
<1>3. From!Pointer!Left = IF 0 >= Len(Initial) - From!Pos(from) THEN 0 ELSE Len(Initial) - From!Pos(from)
  BY <1>1 DEF From!Pointer!Left, From!Pointer!Max2
<1>4. From!Pointer!Left = Len(Initial) - From!Pos(from)
  BY <1>2, <1>3
<1> QED
  BY <1>1, <1>2, <1>4

LEMMA FromQuiet ==
  ASSUME Source(from), Source(from'), from.status = "open", from'.status = "open",
         From!Pos(from') = From!Pos(from), fromCall'.op \in {"prep", "refused"}
  PROVE  FromStep
<1>1. From!Contents(from') = From!Contents(from)
  BY FromKept
<1>2. From!Pointer!Quiet
  BY <1>1 DEF From!Pointer!Quiet
<1> QED
  BY <1>2 DEF FromStep, From!Pointer!Next

LEMMA FromRestsStep ==
  ASSUME FromInv, FromRests
  PROVE  FromInv' /\ FromStep
<1>1. from' = from /\ fromCall' = [op |-> "refused", num |-> 0, bytes |-> <<>>, ret |-> 0]
  BY DEF FromRests, From!Did
<1>2. FromInv'
  BY <1>1, EmptyBytes DEF FromInv, FromAnswer, LastByte, Filled, Source
<1>3. From!Pointer!Quiet
  BY <1>1 DEF From!Pointer!Quiet
<1> QED
  BY <1>2, <1>3 DEF FromStep, From!Pointer!Next

LEMMA FromPrepared ==
  ASSUME FromInv, from.status = "open", NEW n \in Nat, Prepare(n)
  PROVE  FromInv' /\ FromStep
<1>1. /\ Source(from') /\ from'.status = "open" /\ from'.state = "rd"
      /\ From!Pos(from') = From!Pos(from)
  BY SourcePrepare DEF Prepare, FromInv
<1>2. fromCall' = [op |-> "prep", num |-> n, bytes |-> <<>>, ret |-> From!Avail(from')]
  BY DEF Prepare, From!Did
<1>3. From!Avail(from') \in Nat
  BY <1>1, SourceUnread
<1>4. FromInv'
  BY <1>1, <1>2, <1>3, EmptyBytes DEF FromInv, FromAnswer, LastByte, Filled
<1>5. FromStep
  BY <1>1, <1>2, FromQuiet DEF FromInv
<1> QED
  BY <1>4, <1>5

LEMMA SliceFirst ==
  ASSUME NEW S, NEW c \in Seq(S), NEW at \in Nat, NEW m \in Nat, at + m <= Len(c), NEW k \in 0..m
  PROVE  /\ First(Slice(c, at, m), k) = Slice(c, at, k)
         /\ Len(Slice(c, at, k)) = k /\ Slice(c, at, k) \in Seq(S)
<1>1. k \in Nat /\ Len(c) \in Nat
  BY LenProperties
<1>2. PICK u : u = Slice(c, at, m)
  OBVIOUS
<1>3. u \in Seq(S) /\ Len(u) = m /\ \A i \in 1..m : u[i] = c[at + i]
  BY <1>2, SliceBytes
<1>4. /\ First(u, k) \in Seq(S) /\ Len(First(u, k)) = k
      /\ \A i \in 1..k : First(u, k)[i] = u[i]
  BY <1>3, FirstBytes
<1>5. /\ Slice(c, at, k) \in Seq(S) /\ Len(Slice(c, at, k)) = k
      /\ \A i \in 1..k : Slice(c, at, k)[i] = c[at + i]
  <2>1. k > 0 => at + k <= Len(c)
    BY <1>1
  <2> QED
    BY <1>1, <2>1, SliceBytes
<1>6. \A i \in 1..k : i \in 1..m
  BY <1>1
<1>7. \A i \in 1..k : First(u, k)[i] = Slice(c, at, k)[i]
  BY ONLY <1>3, <1>4, <1>5, <1>6
<1>8. First(u, k) = Slice(c, at, k)
  BY ONLY <1>1, <1>4, <1>5, <1>7, SeqEqual
<1> QED
  BY <1>2, <1>5, <1>8

LEMMA FromMoved ==
  ASSUME FromInv, from.status = "open", NEW k \in 1..From!Avail(from),
         from' = [from EXCEPT !.bpos = @ + k],
         fromCall' = [op |-> "read", num |-> k, bytes |-> First(Unread, k), ret |-> k]
  PROVE  FromInv' /\ FromStep
<1>0. Source(from)
  BY DEF FromInv
<1>1. /\ From!Avail(from) \in Nat /\ From!Pos(from) \in Nat
      /\ From!Pos(from) + From!Avail(from) <= Len(Initial)
      /\ Unread = Slice(Initial, From!Pos(from), From!Avail(from))
  BY <1>0, SourceUnread DEF Unread
<1>2. k \in 0..From!Avail(from) /\ k \in Nat /\ k > 0
  BY <1>1
<1>3. /\ Source(from') /\ from'.status = "open" /\ From!Pos(from') = From!Pos(from) + k
  BY <1>0, <1>2, SourceMoved
<1>4. from'.state = from.state /\ from'.buf = from.buf
  BY <1>0 DEF Source, From!Stream
<1>5. First(Unread, k) = Slice(Initial, From!Pos(from), k) /\ Len(Slice(Initial, From!Pos(from), k)) = k
      /\ Slice(Initial, From!Pos(from), k) \in Seq(Byte)
  <2>1. PICK p, m : p = From!Pos(from) /\ m = From!Avail(from)
    OBVIOUS
  <2>2. /\ p \in Nat /\ m \in Nat /\ p + m <= Len(Initial) /\ Initial \in Seq(Byte) /\ k \in 0..m
    BY <1>1, <1>2, <2>1, Constants
  <2>3. /\ First(Slice(Initial, p, m), k) = Slice(Initial, p, k)
        /\ Len(Slice(Initial, p, k)) = k /\ Slice(Initial, p, k) \in Seq(Byte)
    BY ONLY <2>2, SliceFirst
  <2> QED
    BY <1>1, <2>1, <2>3
<1>6. FromInv'
  BY <1>1, <1>2, <1>3, <1>4, <1>5 DEF FromInv, FromAnswer, LastByte, Filled
<1>7. From!Pointer!Read
  <2>1. /\ From!Contents(from) = Initial /\ From!Contents(from') = Initial
        /\ From!Pointer!Left = Len(Initial) - From!Pos(from) /\ Len(Initial) \in Nat
    BY <1>0, <1>3, FromKept
  <2>2. PICK l : l = From!Pointer!Left
    OBVIOUS
  <2>3. l \in Nat /\ k \in (IF l = 0 THEN {0} ELSE 1..From!Pointer!Min2(l, k))
    BY <1>1, <1>2, <2>1, <2>2 DEF From!Pointer!Min2
  <2>4. fromCall'.op = "read" /\ fromCall'.num = k /\ fromCall'.bytes = Slice(Initial, From!Pos(from), k)
    BY <1>5
  <2>5. From!Pointer!Slice(Initial, From!Pos(from), k) = Slice(Initial, From!Pos(from), k)
    BY DEF From!Pointer!Slice, Slice
  <2> QED
    BY <1>3, <1>5, <2>1, <2>2, <2>3, <2>4, <2>5 DEF From!Pointer!Read
<1> QED
  BY <1>6, <1>7 DEF FromStep, From!Pointer!Next

\* UntilNone moves over all that is left in the buffer and says end of file.
LEMMA FromNone ==
  ASSUME FromInv, from.status = "open",
         from' = [from EXCEPT !.bpos = Len(from.buf), !.eof = TRUE],
         From!Got(IF Unread = <<>> THEN "prep" ELSE "read", Len(Unread), Unread)
  PROVE  FromInv' /\ FromStep
<1>0. Source(from) /\ from \in From!Stream
  BY DEF FromInv, Source
<1>1. PICK k : k = From!Avail(from)
  OBVIOUS
<1>2. /\ k \in Nat /\ From!Pos(from) \in Nat /\ Len(from.buf) = from.bpos + k
      /\ From!Pos(from) + k <= Len(Initial) /\ Len(Unread) = k
      /\ Unread = Slice(Initial, From!Pos(from), k) /\ from.bpos \in Nat
  <2>1. from.bpos \in Nat /\ Len(from.buf) \in Nat
    BY <1>0, Known
  <2> QED
    BY <1>0, <1>1, <2>1, SourceUnread DEF Unread
<1> DEFINE t == [from EXCEPT !.bpos = @ + k]
<1>3. from' = [t EXCEPT !.eof = TRUE]
  BY <1>0, <1>2 DEF From!Stream
<1>4. t.state = from.state /\ t.buf = from.buf
  BY <1>0 DEF From!Stream
<1>5. Source(t) /\ t.status = "open" /\ From!Pos(t) = From!Pos(from) + k
  <2>1. k \in 0..From!Avail(from)
    BY <1>1, <1>2
  <2> QED
    BY <1>0, <2>1, SourceMoved
<1> HIDE DEF t
<1>6. /\ Source(from') /\ from'.status = "open" /\ From!Pos(from') = From!Pos(from) + k
      /\ from'.state = from.state /\ from'.buf = from.buf
  <2>1. PICK u : u = [t EXCEPT !.eof = TRUE]
    OBVIOUS
  <2>2. /\ Source(u) /\ u.status = t.status /\ From!Pos(u) = From!Pos(t)
        /\ u.buf = t.buf /\ u.state = t.state
    BY ONLY <1>5, <2>1, TRUE \in BOOLEAN, SourceEof
  <2> QED
    BY ONLY <1>3, <1>4, <1>5, <2>1, <2>2
<1>7. Unread \in Seq(Byte)
  BY <1>2, SliceBytes, Constants
<1>8. /\ fromCall'.num = k /\ fromCall'.bytes = Unread /\ fromCall'.ret = k
      /\ fromCall'.op = IF Unread = <<>> THEN "prep" ELSE "read"
  BY <1>2 DEF From!Got, From!Did
<1>9. FromInv'
  BY <1>2, <1>6, <1>7, <1>8 DEF FromInv, FromAnswer, LastByte, Filled
<1>10. CASE Unread = <<>>
  <2>1. k = 0
    BY <1>2, <1>10, EmptyBytes
  <2> QED
    BY <1>0, <1>2, <1>6, <1>8, <1>9, <1>10, <2>1, FromQuiet
<1>11. CASE Unread # <<>>
  <2>0. k # 0
    BY <1>2, <1>11, <1>7, EmptyByLength
  <2>1. /\ From!Contents(from) = Initial /\ From!Contents(from') = Initial
        /\ From!Pointer!Left = Len(Initial) - From!Pos(from) /\ Len(Initial) \in Nat
    BY <1>0, <1>6, FromKept
  <2>2. PICK l : l = From!Pointer!Left
    OBVIOUS
  <2>3. l \in Nat /\ k \in (IF l = 0 THEN {0} ELSE 1..From!Pointer!Min2(l, k))
    BY <1>2, <2>0, <2>1, <2>2 DEF From!Pointer!Min2
  <2>4. fromCall'.op = "read" /\ fromCall'.num = k /\ fromCall'.bytes = Slice(Initial, From!Pos(from), k)
    BY <1>2, <1>8, <1>11
  <2>5. From!Pointer!Slice(Initial, From!Pos(from), k) = Slice(Initial, From!Pos(from), k)
    BY DEF From!Pointer!Slice, Slice
  <2>6. From!Pointer!Read
    BY <1>2, <1>6, <1>8, <2>1, <2>2, <2>3, <2>4, <2>5 DEF From!Pointer!Read
  <2> QED
    BY <1>9, <2>6 DEF FromStep, From!Pointer!Next
<1> QED
  BY <1>10, <1>11

LEMMA InitialSlice ==
  ASSUME NEW p \in Nat, NEW k \in Nat, p + k <= Len(Initial)
  PROVE  /\ Slice(Initial, p, k) \in Seq(Byte) /\ Len(Slice(Initial, p, k)) = k
         /\ \A i \in 1..k : Slice(Initial, p, k)[i] = Initial[p + i]
BY SliceBytes, Constants

\* A read, whichever asks for it. A getc is asked for one byte.
LEMMA FromHad ==
  ASSUME FromInv, from.status = "open", NEW op \in {"read", "readall", "getc"},
         NEW n \in Nat \ {0}, op = "getc" => n = 1, From!Reading(op, n)
  PROVE  FromInv' /\ FromStep
<1>0. Source(from)
  BY DEF FromInv
<1>1. PICK k \in 0..(Len(Initial) - From!Pos(from)) : Had(op, n, k)
  BY <1>0, SourceReads
<1>2. PICK p, b : p = From!Pos(from) /\ b = Slice(Initial, p, k)
  OBVIOUS
<1>3. /\ p \in Nat /\ k \in Nat /\ p + k <= Len(Initial) /\ Initial \in Seq(Byte)
      /\ Len(Initial) \in Nat
  BY <1>0, <1>1, <1>2, SourceUnread, Constants
<1>4. b \in Seq(Byte) /\ Len(b) = k /\ \A i \in 1..k : b[i] = Initial[p + i]
  <2>1. (k > 0 => p + k <= Len(Initial)) /\ b = Slice(Initial, p, k)
    BY <1>2, <1>3
  <2>2. /\ Slice(Initial, p, k) \in Seq(Byte) /\ Len(Slice(Initial, p, k)) = k
        /\ \A i \in 1..k : Slice(Initial, p, k)[i] = Initial[p + i]
    BY ONLY <1>3, InitialSlice
  <2> QED
    BY ONLY <2>1, <2>2
<1>5. /\ fromCall' = [op |-> op, num |-> n, bytes |-> b, ret |-> k] /\ k <= n
      /\ Source(from') /\ from'.status = "open" /\ from'.state = "rd"
      /\ From!Pos(from') = p + k
      /\ k > 0 => from'.bpos > 0 \/ from'.buf = <<>>
      /\ k = 0 => p = Len(Initial)
      /\ op # "read" \/ n <= From!Avail(from) + 1 => k = n \/ p + k = Len(Initial)
  BY <1>1, <1>2 DEF Had
<1>6. LastByte'
  <2> SUFFICES ASSUME op = "getc", b # <<>>
               PROVE  /\ p + k \in 1..Len(Initial) /\ b[1] = Initial[p + k]
                      /\ from'.bpos > 0 \/ from'.buf = <<>>
    BY <1>5 DEF LastByte
  <2>1. k = 1
    BY <1>3, <1>4, <1>5, EmptyByLength
  <2> QED
    BY <1>3, <1>4, <1>5, <2>1
<1>7. FromInv'
  BY <1>3, <1>4, <1>5, <1>6 DEF FromInv, FromAnswer, Filled
<1>8. /\ From!Contents(from) = Initial /\ From!Contents(from') = Initial
      /\ From!Pointer!Left = Len(Initial) - p
  BY <1>0, <1>2, <1>5, FromKept
<1>9. From!Pointer!Slice(Initial, p, k) = b
  BY <1>2 DEF From!Pointer!Slice, Slice
<1>10. PICK l : l = From!Pointer!Left
  OBVIOUS
<1>11. l \in Nat /\ l = Len(Initial) - p /\ k <= l
  BY <1>3, <1>8, <1>10
<1>12. CASE op = "read"
  <2>1. k \in (IF l = 0 THEN {0} ELSE 1..From!Pointer!Min2(l, n))
    BY <1>3, <1>5, <1>11 DEF From!Pointer!Min2
  <2>2. From!Pointer!Read
    BY <1>2, <1>4, <1>5, <1>8, <1>9, <1>10, <1>12, <2>1 DEF From!Pointer!Read
  <2> QED
    BY <1>7, <2>2 DEF FromStep, From!Pointer!Next
<1>13. CASE op # "read"
  <2>1. k = From!Pointer!Min2(l, n)
    BY <1>3, <1>5, <1>11, <1>13 DEF From!Pointer!Min2
  <2>2. From!Pointer!ReadAll
    BY <1>2, <1>4, <1>5, <1>8, <1>9, <1>10, <1>13, <2>1 DEF From!Pointer!ReadAll
  <2> QED
    BY <1>7, <2>2 DEF FromStep, From!Pointer!Next
<1> QED
  BY <1>12, <1>13

\* A byte looked at, by a client that was not told of the end of file.
Looked(c) ==
  /\ Source(from') /\ from'.status = "open" /\ From!Pos(from') = From!Pos(from)
  /\ fromCall' = [op |-> "peek", num |-> 1, bytes |-> c, ret |-> Len(c)]
  /\ c = Slice(Initial, From!Pos(from), Min2(Len(Initial) - From!Pos(from), 1))

LEMMA SourcePeeked ==
  ASSUME Source(from), from.status = "open", ~from.eof \/ From!Avail(from) > 0, From!ios_peekc
  PROVE  /\ \E c \in Seq(Byte) : Looked(c)
         /\ from' = from \/ from'.state = "rd"
<1>1. /\ IF From!Avail(from) > 0 THEN from' = from ELSE From!Readprep(1)
      /\ From!Got("peek", 1, From!First(From!After(from'.buf, from'.bpos),
                                        From!Min2(1, From!Avail(from'))))
  BY DEF From!ios_peekc
<1>2. From!Avail(from) \in Nat /\ From!Pos(from) \in Nat
  BY SourceUnread
<1>3. /\ Source(from') /\ from'.status = "open" /\ From!Pos(from') = From!Pos(from)
      /\ From!Avail(from') > 0 \/ (From!Avail(from') = 0 /\ From!Pos(from) = Len(Initial))
      /\ from' = from \/ from'.state = "rd"
  <2>1. CASE From!Avail(from) > 0
    BY <1>1, <2>1 DEF Source
  <2>2. CASE ~(From!Avail(from) > 0)
    <3>1. 1 \in Nat /\ 1 \in 1..BufSize
      BY Constants
    <3>2. /\ Source(from') /\ from'.status = "open" /\ From!Pos(from') = From!Pos(from)
          /\ From!Avail(from') = 0 => From!Pos(from) = Len(Initial)
          /\ from'.state = "rd"
      BY <1>1, <2>2, <3>1, SourcePrepare
    <3>3. From!Avail(from') \in Nat
      BY <3>2, SourceUnread
    <3> QED
      BY <3>2, <3>3
  <2> QED
    BY <2>1, <2>2
<1>4. PICK p, a, m : /\ p = From!Pos(from) /\ a = From!Avail(from')
                     /\ m = Min2(Len(Initial) - From!Pos(from), 1)
  OBVIOUS
<1>5. /\ p \in Nat /\ a \in Nat /\ p + a <= Len(Initial) /\ Len(Initial) \in Nat
      /\ After(from'.buf, from'.bpos) = Slice(Initial, p, a)
  BY <1>3, <1>4, SourceUnread, Constants
<1>6. m \in 0..a /\ Min2(1, a) = m
  <2>1. a > 0 \/ (a = 0 /\ p = Len(Initial))
    BY <1>3, <1>4
  <2>2. m = IF Len(Initial) - p <= 1 THEN Len(Initial) - p ELSE 1
    BY <1>4 DEF Min2
  <2>3. Min2(1, a) = IF 1 <= a THEN 1 ELSE a
    BY DEF Min2
  <2> QED
    BY ONLY <1>5, <2>1, <2>2, <2>3
<1>7. /\ First(Slice(Initial, p, a), m) = Slice(Initial, p, m) /\ Slice(Initial, p, m) \in Seq(Byte)
  BY <1>5, <1>6, Constants, SliceFirst
<1>8. From!First(From!After(from'.buf, from'.bpos), From!Min2(1, From!Avail(from')))
        = Slice(Initial, p, m)
  BY <1>4, <1>5, <1>6, <1>7, FromBytes, Zenon
<1>9. Looked(Slice(Initial, p, m))
  BY <1>1, <1>3, <1>4, <1>8 DEF Looked, From!Got, From!Did
<1> QED
  BY <1>3, <1>7, <1>9

LEMMA FromPeeked ==
  ASSUME FromInv, from.status = "open", ~from.eof \/ From!Avail(from) > 0, From!ios_peekc
  PROVE  FromInv' /\ FromStep
<1>0. Source(from)
  BY DEF FromInv
<1>1. /\ \E c \in Seq(Byte) : Looked(c)
      /\ from' = from \/ from'.state = "rd"
  BY <1>0, SourcePeeked
<1>2. PICK c \in Seq(Byte) : Looked(c)
  BY <1>1
<1>3. Len(c) \in Nat
  BY LenProperties
<1>4. FromInv'
  BY <1>1, <1>2, <1>3 DEF FromInv, FromAnswer, LastByte, Filled, Looked
<1>5. /\ From!Contents(from) = Initial /\ From!Contents(from') = Initial
      /\ From!Pointer!Left = Len(Initial) - From!Pos(from)
  BY <1>0, <1>2, FromKept DEF Looked
<1>6. \A x, at, n : From!Pointer!Slice(x, at, n) = Slice(x, at, n)
  BY DEF From!Pointer!Slice, Slice
<1>7. \A x, y : From!Pointer!Min2(x, y) = Min2(x, y)
  BY DEF From!Pointer!Min2, Min2
<1>8. From!Pointer!Peek
  BY <1>2, <1>5, <1>6, <1>7 DEF From!Pointer!Peek, Looked
<1> QED
  BY <1>4, <1>8 DEF FromStep, From!Pointer!Next

\* The byte a getc took goes back, into the place it came from or a new one.
LEMMA FromPutBack ==
  ASSUME FromInv, From!ios_ungetc
  PROVE  FromInv' /\ FromStep /\ ReadOn(-1) /\ fromCall'.op = "unget"
<1>0. Source(from) /\ from \in From!Stream
  BY DEF FromInv, Source
<1>1. /\ fromCall.op = "getc" /\ fromCall.bytes # <<>> /\ from.status = "open"
      /\ LET c == fromCall.bytes[1] IN
           IF from.bpos > 0
           THEN /\ from' = [from EXCEPT !.bpos = @ - 1, !.buf[from.bpos] = c, !.eof = FALSE]
                /\ From!Did("unget", 0, <<>>, c)
           ELSE \E cap \in (IF Len(from.buf) = from.maxsize THEN From!Realloc(from, 2 * from.maxsize)
                            ELSE {from.maxsize}) :
                  IF cap = Len(from.buf) /\ cap > 0 THEN UNCHANGED from /\ From!Did("refused", 0, <<>>, -1)
                  ELSE /\ from' = [From!Resized(from, cap) EXCEPT !.buf = <<c>> \o @, !.eof = FALSE]
                       /\ From!Did("unget", 0, <<>>, c)
  BY DEF From!ios_ungetc, From!Open
<1>2. PICK c, p : c = fromCall.bytes[1] /\ p = From!Pos(from)
  OBVIOUS
<1>3. /\ p \in 1..Len(Initial) /\ c = Initial[p] /\ from.state = "rd"
      /\ from.bpos > 0 \/ from.buf = <<>>
  BY <1>1, <1>2 DEF FromInv, LastByte
<1>4. c \in Byte /\ c \in Nat /\ Len(Initial) \in Nat
  BY <1>3, Constants, ElementOfSeq
<1>5. /\ from.buf \in Seq(Byte) /\ Len(from.buf) \in Nat /\ from.bpos \in Nat
      /\ from.bpos <= Len(from.buf) /\ from.maxsize \in Nat /\ from.off \in Nat
      /\ from.off <= Len(Initial)
  BY <1>0, Known DEF Source
<1>a. from.status = "open" /\ Source(from)
  BY <1>0, <1>1
<1>6. ASSUME from.bpos > 0
      PROVE  /\ Source(from') /\ from'.status = "open" /\ From!Pos(from') = p - 1
             /\ from'.state = "rd"
             /\ fromCall' = [op |-> "unget", num |-> 0, bytes |-> <<>>, ret |-> c]
  <2>1. from' = [from EXCEPT !.bpos = @ - 1, !.buf[from.bpos] = c, !.eof = FALSE]
    BY <1>1, <1>2, <1>6
  <2>2. from.bpos \in 1..Len(from.buf) /\ from.bpos - 1 \in Nat
    BY <1>5, <1>6
  <2>3. from.buf[from.bpos] = c
    <3>1. CASE From!InMemory
      <4>1. p = from.bpos /\ from.buf = Initial
        BY <1>0, <1>1, <1>2, <3>1, SourcePos DEF Source
      <4> QED
        BY <1>3, <4>1
    <3>2. CASE ~From!InMemory
      <4>1. PICK at \in Nat : /\ p = at + from.bpos
                              /\ \A i \in 1..Len(from.buf) : from.buf[i] = Initial[at + i]
        <5>1. PICK at \in Nat : /\ From!Pos(from) = at + from.bpos
                              /\ \A i \in 1..Len(from.buf) : from.buf[i] = Initial[at + i]
          BY ONLY <1>a, <3>2, SourceStart
        <5> QED
          BY <1>2, <5>1
      <4> QED
        BY <1>3, <2>2, <4>1
    <3> QED
      BY <3>1, <3>2
  <2>4. [from.buf EXCEPT ![from.bpos] = c] = from.buf
    BY <1>5, <2>2, <2>3, LenProperties
  <2>5. /\ from'.bpos = from.bpos - 1 /\ from'.buf = from.buf /\ from'.maxsize = from.maxsize
        /\ from'.off = from.off /\ from'.state = from.state /\ from'.ndirty = from.ndirty
        /\ from'.data = from.data /\ from'.inl = from.inl /\ from'.status = from.status
    BY <1>0, <2>1, <2>4 DEF From!Stream
  <2>6. from' \in From!Stream
    <3>1. PICK k, b : k = from.bpos - 1 /\ b = [from.buf EXCEPT ![from.bpos] = c]
      OBVIOUS
    <3>2. k \in Nat /\ b \in Seq(Byte) /\ from' = [from EXCEPT !.bpos = k, !.buf = b, !.eof = FALSE]
      BY <1>0, <1>5, <2>1, <2>2, <2>4, <3>1 DEF From!Stream
    <3> QED
      BY <1>0, <3>2, Zenon DEF From!Stream
  <2>7. Source(from')
    BY <1>0, <1>5, <2>2, <2>5, <2>6 DEF Source
  <2>8. From!Pos(from') = p - 1
    <3>1. From!Pos(from') = IF From!InMemory THEN from.bpos - 1 ELSE from.off - Len(from.buf) + (from.bpos - 1)
      BY <2>5, <2>7, SourcePos
    <3>2. p = IF From!InMemory THEN from.bpos ELSE from.off - Len(from.buf) + from.bpos
      BY <1>0, <1>2, SourcePos
    <3> QED
      BY ONLY <1>5, <3>1, <3>2
  <2>9. fromCall' = [op |-> "unget", num |-> 0, bytes |-> <<>>, ret |-> c]
    BY <1>1, <1>2, <1>6 DEF From!Did
  <2> QED
    BY <1>1, <1>3, <2>5, <2>7, <2>8, <2>9
<1>7. ASSUME ~(from.bpos > 0)
      PROVE  /\ Source(from') /\ from'.status = "open" /\ From!Pos(from') = p - 1
             /\ from'.state = "rd"
             /\ fromCall' = [op |-> "unget", num |-> 0, bytes |-> <<>>, ret |-> c]
  <2>1. from.bpos = 0 /\ from.buf = <<>> /\ Len(from.buf) = 0
    BY <1>3, <1>5, <1>7, EmptyBytes
  <2>2. ~From!InMemory
    <3>1. From!InMemory => p = 0
      BY <1>0, <1>2, <2>1, SourcePos
    <3> QED
      BY <1>3, <3>1
  <2>3. from.maxsize = 0 => from.inl
    BY <1>a, <2>2 DEF Source
  <2>4. PICK cap \in Nat :
          /\ cap >= 1 /\ cap >= from.maxsize
          /\ from' = [From!Resized(from, cap) EXCEPT !.buf = <<c>> \o @, !.eof = FALSE]
          /\ From!Did("unget", 0, <<>>, c)
    <3>1. PICK cap \in (IF Len(from.buf) = from.maxsize THEN From!Realloc(from, 2 * from.maxsize)
                        ELSE {from.maxsize}) :
            IF cap = Len(from.buf) /\ cap > 0 THEN UNCHANGED from /\ From!Did("refused", 0, <<>>, -1)
            ELSE /\ from' = [From!Resized(from, cap) EXCEPT !.buf = <<c>> \o @, !.eof = FALSE]
                 /\ From!Did("unget", 0, <<>>, c)
      BY <1>1, <1>2, <1>7, Zenon
    <3>2. cap \in Nat /\ cap >= 1 /\ cap >= from.maxsize
      <4>1. CASE from.maxsize = 0
        <5>1. cap \in From!Realloc(from, 2 * from.maxsize) /\ 2 * from.maxsize = 0
          BY <2>1, <3>1, <4>1
        <5>2. cap = InlSize
          BY <2>3, <4>1, <5>1, Constants DEF From!Realloc
        <5> QED
          BY <4>1, <5>2, Constants
      <4>2. CASE from.maxsize # 0
        <5>1. cap = from.maxsize
          BY <2>1, <3>1, <4>2
        <5> QED
          BY <1>5, <4>2, <5>1
      <4> QED
        BY <4>1, <4>2
    <3>3. ~(cap = Len(from.buf) /\ cap > 0)
      BY <2>1, <3>2
    <3> QED
      BY <3>1, <3>2, <3>3, Zenon
  <2>5. PICK inl : inl = (from.inl /\ cap <= InlSize)
    OBVIOUS
  <2>e. inl \in BOOLEAN /\ from' = [from EXCEPT !.maxsize = cap, !.inl = inl, !.buf = <<c>>, !.eof = FALSE]
    <3>1. From!Resized(from, cap) = [from EXCEPT !.maxsize = cap, !.inl = inl]
      BY <1>0, <2>5 DEF From!Resized, From!Stream
    <3>2. <<c>> \o <<>> = <<c>>
      BY <1>4, ConcatEmptySeq, SeqDef
    <3>3. inl \in BOOLEAN
      BY <2>5
    <3> QED
      BY <1>0, <2>1, <2>4, <3>1, <3>2, <3>3 DEF From!Stream
  <2>6. <<c>> \in Seq(Byte) /\ Len(<<c>>) = 1 /\ <<c>>[1] = c
    BY <1>4
  <2>7. /\ from' \in From!Stream
        /\ from'.bpos = 0 /\ from'.buf = <<c>> /\ from'.maxsize = cap
        /\ from'.off = from.off /\ from'.state = from.state
    BY <1>0, <2>1, <2>4, <2>e, <2>6, Zenon DEF From!Stream
  <2>8. Keeps(from, from')
    <3>1. /\ from'.ndirty = from.ndirty /\ from'.data = from.data /\ from'.status = from.status
          /\ from'.inl = inl
      BY <1>0, <2>e, Zenon DEF From!Stream
    <3>2. from'.maxsize = cap /\ cap # 0
      BY <2>4, <2>7
    <3>3. inl => cap <= InlSize
      BY <2>5, Zenon
    <3> QED
      BY <3>1, <3>2, <3>3 DEF Keeps
  <2>9. from.off = p /\ p - 1 \in Nat
    <3>1. p = from.off - Len(from.buf) + from.bpos
      BY <1>0, <1>2, <2>2, SourcePos
    <3> QED
      BY <1>3, <1>4, <1>5, <2>1, <3>1
  <2>10. /\ p - 1 + Len(from'.buf) = from'.off
         /\ \A i \in 1..Len(from'.buf) : from'.buf[i] = Initial[p - 1 + i]
    <3>1. Len(from'.buf) = 1 /\ from'.buf[1] = Initial[p]
      BY <1>3, <2>6, <2>7
    <3>2. p - 1 + 1 = p /\ \A i \in 1..1 : i = 1
      BY <1>3, <1>4
    <3> QED
      BY <2>7, <2>9, <3>1, <3>2
  <2>11. Source(from') /\ from'.status = "open" /\ From!Pos(from') = p - 1 + from'.bpos
    <3>1. /\ from'.state # "wr" /\ from'.maxsize >= from.maxsize /\ from'.bpos <= Len(from'.buf)
          /\ Len(from'.buf) <= from'.maxsize /\ from'.off <= Len(Initial)
      BY <1>3, <1>5, <2>4, <2>6, <2>7
    <3> QED
      BY <1>0, <1>1, <2>2, <2>7, <2>8, <2>9, <2>10, <3>1, SourceView
  <2>12. fromCall' = [op |-> "unget", num |-> 0, bytes |-> <<>>, ret |-> c]
    BY <2>4 DEF From!Did
  <2> QED
    BY <1>3, <2>7, <2>9, <2>11, <2>12
<1>8. /\ Source(from') /\ from'.status = "open" /\ From!Pos(from') = p - 1 /\ from'.state = "rd"
      /\ fromCall' = [op |-> "unget", num |-> 0, bytes |-> <<>>, ret |-> c]
  BY <1>6, <1>7
<1>9. FromInv'
  BY <1>4, <1>8, EmptyBytes DEF FromInv, FromAnswer, LastByte, Filled
<1>10. ReadOn(-1)
  <2>1. p - 1 = p + -1
    BY <1>3, <1>4
  <2> QED
    BY <1>2, <1>8, <2>1 DEF ReadOn
<1>11. From!Contents(from') = From!Contents(from)
  BY <1>0, <1>1, <1>8, FromKept
<1>12. From!Pointer!Unget
  BY <1>2, <1>8, <1>11 DEF From!Pointer!Unget
<1> QED
  BY <1>8, <1>9, <1>10, <1>12 DEF FromStep, From!Pointer!Next

LEMMA FromPurged ==
  ASSUME FromInv, From!ios_purge
  PROVE  FromInv' /\ FromStep
<1>0. /\ Source(from) /\ from \in From!Stream /\ from.status = "open" /\ Filled
      /\ from' = [from EXCEPT !.bpos = IF from.state = "rd" THEN Len(from.buf) ELSE @]
      /\ fromCall' = [op |-> "purge", num |-> 0, bytes |-> <<>>, ret |-> 0]
  BY DEF FromInv, Source, From!ios_purge, From!Open, From!Did
<1>1. /\ from.bpos \in Nat /\ Len(from.buf) \in Nat /\ from.bpos <= Len(from.buf)
      /\ From!Avail(from) = Len(from.buf) - from.bpos
      /\ From!Pos(from) \in Nat /\ From!Pos(from) + From!Avail(from) <= Len(Initial)
      /\ Len(Initial) \in Nat
  BY <1>0, Known, SourceUnread, Constants DEF Source
<1>2. PICK k : k = IF from.state = "rd" THEN From!Avail(from) ELSE 0
  OBVIOUS
<1>3. k \in 0..From!Avail(from) /\ from' = [from EXCEPT !.bpos = @ + k]
  <2>1. from.bpos + k = (IF from.state = "rd" THEN Len(from.buf) ELSE from.bpos)
    BY ONLY <1>1, <1>2
  <2>2. k \in 0..From!Avail(from)
    BY ONLY <1>1, <1>2
  <2>3. from' = [from EXCEPT !.bpos = from.bpos + k]
    BY Zenon, <1>0, <2>1
  <2> QED
    BY <2>2, <2>3
<1>4. /\ Source(from') /\ from'.status = "open" /\ From!Pos(from') = From!Pos(from) + k
  BY ONLY <1>0, <1>3, SourceMoved
<1>5. from'.state = from.state /\ from'.buf = from.buf
  BY <1>0 DEF From!Stream
<1>6. FromInv'
  BY <1>0, <1>4, <1>5, EmptyBytes DEF FromInv, FromAnswer, LastByte, Filled
<1>7. /\ From!Contents(from) = Initial /\ From!Contents(from') = Initial
      /\ From!Pointer!Left = Len(Initial) - From!Pos(from)
  BY <1>0, <1>4, FromKept
<1>8. PICK l : l = From!Pointer!Left
  OBVIOUS
<1>9. From!Pos(from) + k \in From!Pos(from)..(From!Pos(from) + l)
  BY <1>1, <1>3, <1>7, <1>8
<1>10. From!Pointer!Purge
  BY <1>0, <1>4, <1>7, <1>8, <1>9 DEF From!Pointer!Purge
<1> QED
  BY <1>6, <1>10 DEF FromStep, From!Pointer!Next

\* A source has nothing to flush.
LEMMA SourceClean ==
  ASSUME Source(from), NEW nw
  PROVE  From!Flush(from, nw) = from
BY DEF Source, From!Flush

LEMMA FromClosed ==
  ASSUME FromInv, From!ios_close
  PROVE  FromInv' /\ FromStep
<1>0. /\ Source(from) /\ from \in From!Stream /\ from.status = "open"
      /\ from' = [from EXCEPT !.buf = <<>>, !.bpos = 0, !.maxsize = 0, !.inl = TRUE,
                              !.status = "closed"]
      /\ fromCall' = [op |-> "close", num |-> 0, bytes |-> <<>>, ret |-> 0]
  BY SourceClean DEF FromInv, Source, From!ios_close, From!Open, From!Did
<1>1. /\ from'.bpos = 0 /\ from'.buf = <<>> /\ from'.maxsize = 0 /\ from'.status = "closed"
      /\ from'.off = from.off /\ from'.state = from.state /\ from'.ndirty = from.ndirty
      /\ from'.data = from.data /\ from'.inl = TRUE
  BY <1>0 DEF From!Stream
<1>2. from' \in From!Stream
  BY <1>0, EmptyBytes, 0 \in Nat, TRUE \in BOOLEAN, Zenon DEF From!Stream
<1>3. from.off \in Nat /\ Len(<<>>) = 0 /\ from.off - 0 = from.off
  BY <1>0, Known, EmptyBytes
<1>4. Source(from')
  <2>1. Slice(Initial, from.off, 0) = <<>>
    BY <1>3, Constants, SliceNone
  <2> QED
    BY <1>0, <1>1, <1>2, <1>3, <2>1, Constants DEF Source
<1>5. FromInv'
  BY <1>0, <1>1, <1>4, EmptyBytes DEF FromInv, FromAnswer, LastByte, Filled
<1>6. From!Pos(from') \in Int
  BY <1>1, <1>3, <1>4, SourcePos
<1>7. From!Contents(from') = IF ~From!InMemory THEN From!Contents(from) ELSE <<>>
  <2>1. CASE From!InMemory
    BY <1>1, <2>1 DEF From!Contents
  <2>2. CASE ~From!InMemory
    <3>1. from.ndirty = 0
      BY <1>0, <2>2 DEF Source
    <3> QED
      BY <1>1, <2>2, <3>1, Zenon DEF From!Contents
  <2> QED
    BY <2>1, <2>2
<1>8. From!Pointer!Close
  BY <1>0, <1>6, <1>7 DEF From!Pointer!Close
<1> QED
  BY <1>5, <1>8 DEF FromStep, From!Pointer!Next

\* A movement of the position, or one that is refused and moves nothing.
LEMMA FromSkips ==
  ASSUME FromInv, NEW k \in Int, From!ios_skip(k)
  PROVE  /\ Source(from') /\ from'.status = "open" /\ from.status = "open"
         /\ (from'.buf = <<>> /\ from'.state = from.state) \/ (from'.buf = from.buf /\ from'.state = from.state)
         /\ \E r \in {0, -1} :
              /\ fromCall' = [op |-> "skip", num |-> k, bytes |-> <<>>, ret |-> r]
              /\ From!Pos(from') = IF r = 0 THEN From!Pos(from) + k ELSE From!Pos(from)
<1>0. /\ Source(from) /\ from \in From!Stream /\ from.status = "open" /\ Filled
      /\ From!Pos(from) + k <= Len(Initial)
      /\ From!SkipWithin(k) \/ From!SkipBeyond(k)
         \/ (UNCHANGED from /\ From!Did("skip", k, <<>>, -1))
  BY DEF FromInv, Source, From!ios_skip, From!MayMove, From!Open
<1>1. /\ from.bpos \in Nat /\ Len(from.buf) \in Nat /\ from.bpos <= Len(from.buf)
      /\ From!Avail(from) = Len(from.buf) - from.bpos
      /\ From!Pos(from) \in Nat /\ from.off \in Nat /\ Len(Initial) \in Nat
  BY <1>0, Known, SourceUnread, Constants DEF Source
<1>2. CASE From!SkipWithin(k)
  <2>0. PICK e : e = (from.eof /\ k > 0)
    OBVIOUS
  <2>1. /\ k <= From!Avail(from) /\ -k <= from.bpos
        /\ from' = [from EXCEPT !.bpos = @ + k, !.eof = e]
        /\ fromCall' = [op |-> "skip", num |-> k, bytes |-> <<>>, ret |-> 0]
    BY <1>2, <2>0 DEF From!SkipWithin, From!Did
  <2>2. from.bpos + k \in Nat /\ from.bpos + k <= Len(from.buf) /\ e \in BOOLEAN
    BY <1>0, <1>1, <2>0, <2>1 DEF From!Stream
  <2>3. /\ from'.bpos = from.bpos + k /\ from'.buf = from.buf /\ from'.maxsize = from.maxsize
        /\ from'.off = from.off /\ from'.state = from.state /\ from'.ndirty = from.ndirty
        /\ from'.data = from.data /\ from'.inl = from.inl /\ from'.status = from.status
    BY <1>0, <2>1 DEF From!Stream
  <2>4. from' \in From!Stream
    BY <1>0, <2>1, <2>2, Zenon DEF From!Stream
  <2>5. Source(from')
    BY <1>0, <2>2, <2>3, <2>4 DEF Source
  <2>6. From!Pos(from') = From!Pos(from) + k
    <3>1. From!Pos(from') = IF From!InMemory THEN from.bpos + k ELSE from.off - Len(from.buf) + (from.bpos + k)
      BY <2>3, <2>5, SourcePos
    <3>2. From!Pos(from) = IF From!InMemory THEN from.bpos ELSE from.off - Len(from.buf) + from.bpos
      BY <1>0, SourcePos
    <3> QED
      BY ONLY <1>1, <3>1, <3>2, k \in Int
  <2> QED
    BY <1>0, <2>1, <2>3, <2>5, <2>6
<1>3. CASE From!SkipBeyond(k)
  <2>1. ~From!InMemory
    BY <1>3 DEF From!SkipBeyond
  <2>2. PICK to1 :
          /\ to1 = from.off + k + (CASE from.state = "wr" -> from.bpos
                                     [] from.state = "rd" -> -From!Avail(from)
                                     [] OTHER -> 0)
          /\ IF From!Seekable /\ to1 >= 0
             THEN /\ from' = [From!Lseek(from, to1) EXCEPT !.buf = <<>>, !.bpos = 0, !.eof = FALSE]
                  /\ From!Did("skip", k, <<>>, 0)
             ELSE from' = from /\ From!Did("skip", k, <<>>, -1)
    <3>1. \A nw : From!Flush(from, nw) = from
      BY <1>0, SourceClean
    <3>2. PICK x : x = from.off + k + (CASE from.state = "wr" -> from.bpos
                                         [] from.state = "rd" -> -From!Avail(from)
                                         [] OTHER -> 0)
      OBVIOUS
    <3>3. PICK nw, f : /\ f = From!Flush(from, nw)
                       /\ LET dest == f.off + k + (CASE f.state = "wr" -> f.bpos
                                                     [] f.state = "rd" -> -From!Avail(f)
                                                     [] OTHER -> 0)
                          IN IF From!Seekable /\ dest >= 0
                             THEN /\ from' = [From!Lseek(f, dest) EXCEPT !.buf = <<>>, !.bpos = 0, !.eof = FALSE]
                                  /\ From!Did("skip", k, <<>>, 0)
                             ELSE from' = f /\ From!Did("skip", k, <<>>, -1)
      BY <1>3, Zenon DEF From!SkipBeyond
    <3>4. f = from
      BY <3>1, <3>3
    <3>5. IF From!Seekable /\ x >= 0
          THEN /\ from' = [From!Lseek(from, x) EXCEPT !.buf = <<>>, !.bpos = 0, !.eof = FALSE]
               /\ From!Did("skip", k, <<>>, 0)
          ELSE from' = from /\ From!Did("skip", k, <<>>, -1)
      BY <3>2, <3>3, <3>4, Zenon
    <3> QED
      BY <3>2, <3>5, Zenon
  <2>3. to1 = From!Pos(from) + k /\ to1 <= Len(Initial)
    <3>1. From!Pos(from) = from.off - Len(from.buf) + from.bpos /\ from.state # "wr"
      BY <1>0, <2>1, SourcePos DEF Source
    <3>2. CASE from.state = "rd"
      BY <1>0, <1>1, <2>2, <3>1, <3>2
    <3>3. CASE from.state # "rd"
      <4>1. from.state = "none"
        BY <1>0, <3>1, <3>3 DEF From!Stream
      <4>2. Len(from.buf) = 0 /\ from.bpos = 0
        BY <1>0, <1>1, <2>1, <4>1, EmptyBytes DEF Filled
      <4> QED
        BY <1>0, <1>1, <2>2, <3>1, <4>1, <4>2
    <3> QED
      BY <3>2, <3>3
  <2>4. CASE From!Seekable /\ to1 >= 0
    <3>1. /\ to1 \in Nat
          /\ from' = [from EXCEPT !.off = to1, !.buf = <<>>, !.bpos = 0, !.eof = FALSE]
          /\ fromCall' = [op |-> "skip", num |-> k, bytes |-> <<>>, ret |-> 0]
      <4>1. to1 \in Nat
        BY <1>1, <2>3, <2>4
      <4>2. From!Lseek(from, to1) = [from EXCEPT !.off = to1]
        BY <2>4 DEF From!Lseek
      <4> QED
        BY <1>0, <2>2, <2>4, <4>1, <4>2 DEF From!Did, From!Stream
    <3>2. /\ from' \in From!Stream
          /\ from'.bpos = 0 /\ from'.buf = <<>> /\ from'.maxsize = from.maxsize
          /\ from'.off = to1 /\ from'.state = from.state
      BY <1>0, <3>1, EmptyBytes, 0 \in Nat, Zenon DEF From!Stream
    <3>3. Keeps(from, from')
      <4>1. /\ from'.ndirty = from.ndirty /\ from'.data = from.data
            /\ from'.status = from.status /\ from'.inl = from.inl
        BY <1>0, <3>1, Zenon DEF From!Stream
      <4>2. from.inl => from.maxsize <= InlSize
        BY <1>0, <2>1 DEF Source
      <4> QED
        BY <3>2, <4>1, <4>2 DEF Keeps
    <3>4. Source(from') /\ from'.status = "open" /\ From!Pos(from') = to1 - 0 + 0
      <4>1. /\ 0 \in 0..0 /\ 0 <= to1 /\ 0 <= from'.maxsize /\ to1 - 0 = to1 /\ from.state # "wr"
        BY <1>0, <2>1, <3>1, <3>2, Known DEF Source
      <4>2. from'.buf = Slice(Initial, to1 - 0, 0)
        BY <3>1, <3>2, <4>1, SliceNone, Constants
      <4> QED
        <5>1. /\ Source(from) /\ from.status = "open" /\ to1 \in Nat /\ to1 <= Len(Initial)
              /\ 0 \in Nat /\ from'.state # "wr" /\ from'.off = to1 /\ from'.bpos = 0
          BY <1>0, <2>3, <3>1, <3>2, <4>1
        <5> QED
          BY ONLY <2>1, <3>2, <3>3, <4>1, <4>2, <5>1, RefilledSource
    <3>5. to1 - 0 + 0 = to1
      BY <3>1
    <3> QED
      BY <1>0, <2>3, <3>1, <3>2, <3>4, <3>5
  <2>5. CASE ~(From!Seekable /\ to1 >= 0)
    BY <1>0, <2>2, <2>5 DEF From!Did
  <2> QED
    BY <2>4, <2>5
<1>4. CASE UNCHANGED from /\ From!Did("skip", k, <<>>, -1)
  BY <1>0, <1>4 DEF From!Did
<1> QED
  BY <1>0, <1>2, <1>3, <1>4

LEMMA FromSkipped ==
  ASSUME FromInv, NEW k \in Int, From!ios_skip(k)
  PROVE  FromInv' /\ FromStep
<1>0. Source(from)
  BY DEF FromInv
<1>1. /\ Source(from') /\ from'.status = "open" /\ from.status = "open"
      /\ (from'.buf = <<>> /\ from'.state = from.state) \/ (from'.buf = from.buf /\ from'.state = from.state)
      /\ \E r \in {0, -1} :
           /\ fromCall' = [op |-> "skip", num |-> k, bytes |-> <<>>, ret |-> r]
           /\ From!Pos(from') = IF r = 0 THEN From!Pos(from) + k ELSE From!Pos(from)
  BY FromSkips
<1>2. PICK r \in {0, -1} :
        /\ fromCall' = [op |-> "skip", num |-> k, bytes |-> <<>>, ret |-> r]
        /\ From!Pos(from') = IF r = 0 THEN From!Pos(from) + k ELSE From!Pos(from)
  BY <1>1
<1>3. FromInv'
  BY <1>1, <1>2, EmptyBytes DEF FromInv, FromAnswer, LastByte, Filled
<1>4. From!Contents(from) = Initial /\ From!Contents(from') = Initial
  BY <1>0, <1>1, FromKept
<1>5. From!Pointer!Move
  BY <1>2, <1>4 DEF From!Pointer!Move
<1> QED
  BY <1>3, <1>5 DEF FromStep, From!Pointer!Next

\* ios_copy finds nothing more and says end of file.
LEMMA FromEnded ==
  ASSUME FromInv, from.status = "open", from' = [from EXCEPT !.eof = TRUE],
         From!Did("refused", 0, <<>>, 0)
  PROVE  FromInv' /\ FromStep
<1>0. Source(from) /\ fromCall' = [op |-> "refused", num |-> 0, bytes |-> <<>>, ret |-> 0]
  BY DEF FromInv, From!Did
<1>1. /\ Source(from') /\ from'.status = "open" /\ From!Pos(from') = From!Pos(from)
      /\ from'.buf = from.buf /\ from'.state = from.state
  BY <1>0, SourceEof, TRUE \in BOOLEAN
<1>2. FromInv'
  BY <1>0, <1>1, EmptyBytes DEF FromInv, FromAnswer, LastByte, Filled
<1> QED
  BY <1>0, <1>1, <1>2, FromQuiet

\* Every call that the client makes of it itself.
LEMMA FromClientStep ==
  ASSUME FromInv, FromClient
  PROVE  FromInv' /\ FromStep
<1>0. Counts \subseteq Nat \ {0} /\ Skips \subseteq Int
  BY IosCallsAssumption
<1>2. CASE From!ios_getc
  <2>1. from.status = "open"
    BY <1>2 DEF From!ios_getc, From!MayRead, From!Open
  <2>2. ASSUME From!Reading("getc", 1) PROVE fromCall'.op = "getc"
    <3>1. \E k \in 0..(Len(Initial) - From!Pos(from)) : Had("getc", 1, k)
      BY <2>1, <2>2, SourceReads DEF FromInv
    <3> QED
      BY <3>1 DEF Had
  <2>3. fromCall'.op = "getc"
    <3>1. From!Got("getc", 1, <<>>) \/ From!Reading("getc", 1)
      BY <1>2, Zenon DEF From!ios_getc
    <3>2. From!Got("getc", 1, <<>>) => fromCall'.op = "getc"
      BY DEF From!Got, From!Did
    <3> QED
      BY <2>2, <3>1, <3>2
  <2>4. ~from.eof
    BY <2>3 DEF FromClient, Reads, ios_eof
  <2>5. From!Reading("getc", 1)
    BY <1>2, <2>4 DEF From!ios_getc
  <2> QED
    BY <2>1, <2>5, FromHad
<1>3. CASE From!ios_peekc
  <2>1. from.status = "open"
    BY <1>3 DEF From!ios_peekc, From!MayPrep, From!MayRead, From!Open
  <2>2. ~from.eof
    BY <1>3 DEF FromClient, Reads, ios_eof, From!ios_peekc, From!Got, From!Did
  <2> QED
    BY <1>3, <2>1, <2>2, FromPeeked
<1>4. CASE From!ios_ungetc
  BY <1>4, FromPutBack
<1>5. CASE From!ios_purge
  BY <1>5, FromPurged
<1>6. CASE From!ios_close
  BY <1>6, FromClosed
<1>7. ASSUME NEW n \in Counts, From!ios_read(n) \/ From!ios_readall(n)
      PROVE  FromInv' /\ FromStep
  <2>1. from.status = "open"
    BY <1>7 DEF From!ios_read, From!ios_readall, From!MayRead, From!Open
  <2>2. n \in Nat \ {0} /\ (From!Reading("read", n) \/ From!Reading("readall", n))
    BY <1>0, <1>7 DEF From!ios_read, From!ios_readall
  <2> QED
    BY <1>0, <2>1, <2>2, FromHad
<1>8. ASSUME NEW n \in Counts, From!ios_readprep(n)
      PROVE  FromInv' /\ FromStep
  <2>1. from.status = "open" /\ Prepare(n)
    BY <1>8 DEF From!ios_readprep, From!MayPrep, From!MayRead, From!Open, Prepare
  <2> QED
    BY <1>0, <2>1, FromPrepared
<1>9. ASSUME NEW k \in Skips, From!ios_skip(k)
      PROVE  FromInv' /\ FromStep
  BY <1>0, <1>9, FromSkipped
<1> QED
  BY <1>2, <1>3, <1>4, <1>5, <1>6, <1>7, <1>8, <1>9 DEF FromClient

-------------------------------------------------------------------------------
(***************************************************************************)
(* The stream that is written: the theorems about a stream that is only    *)
(* written, with the parameters that To gives to Ios.                      *)
(***************************************************************************)
TP == INSTANCE Ios_proofs WITH
  s <- to, call <- toCall, Kind <- ToKind, Mode <- ModeOf(ToKind), Modes <- {}, Bufs <- {},
  CanRead <- FALSE, CanWrite <- TRUE, Client <- "seeks", IoErrors <- FALSE,
  Initial <- <<>>, Newline <- Delim, Payloads <- {}, Chars <- {}, Counts <- {},
  AsksPos <- FALSE, Skips <- {}

LEMMA ToSame ==
  /\ TP!Stream = To!Stream
  /\ TP!TypeOK <=> To!TypeOK
  /\ TP!InMemory <=> To!InMemory
  /\ \A a, b : TP!Max2(a, b) = To!Max2(a, b)
  /\ \A c, at, d : TP!Overlay(c, at, d) = To!Overlay(c, at, d)
  /\ \A t : TP!BufferAt(t) = To!BufferAt(t)
  /\ \A c, n : TP!First(c, n) = To!First(c, n)
  /\ \A a, b : TP!Min2(a, b) = To!Min2(a, b)
  /\ \A t : TP!Contents(t) = To!Contents(t)
  /\ \A t : TP!Avail(t) = To!Avail(t)
  /\ \A t : TP!Pos(t) = To!Pos(t)
  /\ TP!Open <=> To!Open
  /\ \A op, num, bytes, ret : TP!Did(op, num, bytes, ret) <=> To!Did(op, num, bytes, ret)
  /\ TP!rereadable <=> To!rereadable
  /\ \A t : TP!ForWriting(t) = To!ForWriting(t)
  /\ \A t, sz : TP!Realloc(t, sz) = To!Realloc(t, sz)
  /\ \A t, need : TP!Doubled(t, need) = To!Doubled(t, need)
  /\ \A t, n : TP!Capacities(t, n) = To!Capacities(t, n)
  /\ \A t, d : TP!Put(t, d) = To!Put(t, d)
  /\ \A t, cap : TP!Resized(t, cap) = To!Resized(t, cap)
  /\ \A t, d, cap : TP!WriteGrow(t, d, cap) = To!WriteGrow(t, d, cap)
  /\ \A t, d : TP!WriteMem(t, d) <=> To!WriteMem(t, d)
  /\ \A n : TP!Accepted(n) = To!Accepted(n)
  /\ \A t, d : TP!KernelWrite(t, d) = To!KernelWrite(t, d)
  /\ \A t, d : TP!WriteUnbuffered(t, d) <=> To!WriteUnbuffered(t, d)
  /\ \A t : TP!Space(t) = To!Space(t)
  /\ \A d : TP!LineEnds(d) = To!LineEnds(d)
  /\ \A t : TP!Flushed(t) = To!Flushed(t)
  /\ TP!Seekable <=> To!Seekable
  /\ \A t, p : TP!Lseek(t, p) = To!Lseek(t, p)
  /\ \A c, n : TP!After(c, n) = To!After(c, n)
  /\ \A t, nw : TP!FlushDirty(t, nw) = To!FlushDirty(t, nw)
  /\ \A t, nw : TP!Flush(t, nw) = To!Flush(t, nw)
  /\ \A t, d, j, nw : TP!BufferedWrite(t, d, j, nw) = To!BufferedWrite(t, d, j, nw)
  /\ \A t, d : TP!WriteBuffered(t, d) <=> To!WriteBuffered(t, d)
  /\ \A x : TP!MostOf(x) = To!MostOf(x)
  /\ \A t, d : TP!WriteThrough(t, d) <=> To!WriteThrough(t, d)
  /\ \A t, d : TP!Writing(t, d) <=> To!Writing(t, d)
  /\ \A n : TP!MayWrite(n) <=> To!MayWrite(n)
  /\ \A d : TP!ios_write(d) <=> To!ios_write(d)
  /\ \A t, d : TP!PutDirectly(t, d) <=> To!PutDirectly(t, d)
  /\ \A c : TP!ios_putc(c) <=> To!ios_putc(c)
  /\ TP!ios_takebuf <=> To!ios_takebuf
  /\ \A p : TP!ios_seek(p) <=> To!ios_seek(p)
  /\ TP!ios_set_readonly <=> To!ios_set_readonly
  /\ \A data : TP!Opened(data) = To!Opened(data)
  /\ TP!Init <=> To!Init
  /\ TP!HasRoom <=> To!HasRoom
  /\ \A t : TP!Retaken(t) = To!Retaken(t)
  /\ \A data : TP!Openings(data) = To!Openings(data)
<1>1. TP!Stream = To!Stream
  BY DEF TP!Stream, To!Stream
<1>2. TP!TypeOK <=> To!TypeOK
  BY <1>1 DEF TP!TypeOK, To!TypeOK
<1>3. TP!InMemory <=> To!InMemory
  BY DEF TP!InMemory, To!InMemory
<1>4. \A a, b : TP!Max2(a, b) = To!Max2(a, b)
  BY DEF TP!Max2, To!Max2
<1>5. \A c, at, d : TP!Overlay(c, at, d) = To!Overlay(c, at, d)
  BY <1>4 DEF TP!Overlay, To!Overlay
<1>6. \A t : TP!BufferAt(t) = To!BufferAt(t)
  BY DEF TP!BufferAt, To!BufferAt
<1>7. \A c, n : TP!First(c, n) = To!First(c, n)
  BY DEF TP!First, To!First
<1>8. \A a, b : TP!Min2(a, b) = To!Min2(a, b)
  BY DEF TP!Min2, To!Min2
<1>9. \A t : TP!Contents(t) = To!Contents(t)
  BY <1>3, <1>5, <1>6, <1>7, <1>8 DEF TP!Contents, To!Contents
<1>10. \A t : TP!Avail(t) = To!Avail(t)
  BY DEF TP!Avail, To!Avail
<1>11. \A t : TP!Pos(t) = To!Pos(t)
  BY <1>3, <1>10 DEF TP!Pos, To!Pos
<1>12. TP!Open <=> To!Open
  BY DEF TP!Open, To!Open
<1>13. \A op, num, bytes, ret : TP!Did(op, num, bytes, ret) <=> To!Did(op, num, bytes, ret)
  BY DEF TP!Did, To!Did
<1>14. TP!rereadable <=> To!rereadable
  BY DEF TP!rereadable, To!rereadable
<1>15. \A t : TP!ForWriting(t) = To!ForWriting(t)
  BY <1>14 DEF TP!ForWriting, To!ForWriting
<1>16. \A t, sz : TP!Realloc(t, sz) = To!Realloc(t, sz)
  BY DEF TP!Realloc, To!Realloc
<1>17. \A t, need : TP!Doubled(t, need) = To!Doubled(t, need)
  BY DEF TP!Doubled, To!Doubled
<1>18. \A t, n : TP!Capacities(t, n) = To!Capacities(t, n)
  BY <1>16, <1>17 DEF TP!Capacities, To!Capacities
<1>19. \A t, d : TP!Put(t, d) = To!Put(t, d)
  BY <1>5, <1>4 DEF TP!Put, To!Put
<1>20. \A t, cap : TP!Resized(t, cap) = To!Resized(t, cap)
  BY DEF TP!Resized, To!Resized
<1>21. \A t, d, cap : TP!WriteGrow(t, d, cap) = To!WriteGrow(t, d, cap)
  BY <1>19, <1>20, <1>7, <1>8 DEF TP!WriteGrow, To!WriteGrow
<1>22. \A t, d : TP!WriteMem(t, d) <=> To!WriteMem(t, d)
  BY <1>15, <1>18, <1>21, <1>13, <1>8 DEF TP!WriteMem, To!WriteMem
<1>23. \A n : TP!Accepted(n) = To!Accepted(n)
  BY DEF TP!Accepted, To!Accepted
<1>24. \A t, d : TP!KernelWrite(t, d) = To!KernelWrite(t, d)
  BY <1>5 DEF TP!KernelWrite, To!KernelWrite
<1>25. \A t, d : TP!WriteUnbuffered(t, d) <=> To!WriteUnbuffered(t, d)
  BY <1>15, <1>23, <1>24, <1>7, <1>13 DEF TP!WriteUnbuffered, To!WriteUnbuffered
<1>26. \A t : TP!Space(t) = To!Space(t)
  BY <1>10 DEF TP!Space, To!Space
<1>27. \A d : TP!LineEnds(d) = To!LineEnds(d)
  BY DEF TP!LineEnds, To!LineEnds
<1>28. \A t : TP!Flushed(t) = To!Flushed(t)
  BY <1>23 DEF TP!Flushed, To!Flushed
<1>29. TP!Seekable <=> To!Seekable
  BY DEF TP!Seekable, To!Seekable
<1>30. \A t, p : TP!Lseek(t, p) = To!Lseek(t, p)
  BY <1>29 DEF TP!Lseek, To!Lseek
<1>31. \A c, n : TP!After(c, n) = To!After(c, n)
  BY DEF TP!After, To!After
<1>32. \A t, nw : TP!FlushDirty(t, nw) = To!FlushDirty(t, nw)
  <2> TAKE t, nw
  <2> QED
    BY Zenon DEF TP!FlushDirty, To!FlushDirty, TP!KernelWrite, To!KernelWrite, TP!Lseek, To!Lseek, TP!Seekable, To!Seekable, TP!First, To!First, TP!Min2, To!Min2, TP!After, To!After, TP!Overlay, To!Overlay, TP!Max2, To!Max2
<1>33. \A t, nw : TP!Flush(t, nw) = To!Flush(t, nw)
  BY <1>3, <1>32 DEF TP!Flush, To!Flush
<1>34. \A t, d, j, nw : TP!BufferedWrite(t, d, j, nw) = To!BufferedWrite(t, d, j, nw)
  BY <1>19, <1>33, <1>7, <1>31 DEF TP!BufferedWrite, To!BufferedWrite
<1>35. \A t, d : TP!WriteBuffered(t, d) <=> To!WriteBuffered(t, d)
  BY <1>15, <1>26, <1>27, <1>28, <1>19, <1>7, <1>34, <1>13 DEF TP!WriteBuffered, To!WriteBuffered
<1>36. \A x : TP!MostOf(x) = To!MostOf(x)
  BY DEF TP!MostOf, To!MostOf
<1>37. \A t, d : TP!WriteThrough(t, d) <=> To!WriteThrough(t, d)
  BY <1>15, <1>26, <1>28, <1>33, <1>36, <1>23, <1>24, <1>7, <1>13, <1>27, <1>19, <1>34 DEF TP!WriteThrough, To!WriteThrough
<1>38. \A t, d : TP!Writing(t, d) <=> To!Writing(t, d)
  BY <1>13, <1>22, <1>25, <1>35, <1>37 DEF TP!Writing, To!Writing
<1>39. \A n : TP!MayWrite(n) <=> To!MayWrite(n)
  BY <1>12, <1>11, <1>10 DEF TP!MayWrite, To!MayWrite
<1>40. \A d : TP!ios_write(d) <=> To!ios_write(d)
  BY <1>39, <1>38 DEF TP!ios_write, To!ios_write
<1>41. \A t, d : TP!PutDirectly(t, d) <=> To!PutDirectly(t, d)
  BY <1>13, <1>28, <1>19, <1>33 DEF TP!PutDirectly, To!PutDirectly
<1>48. TP!HasRoom <=> To!HasRoom
  BY DEF TP!HasRoom, To!HasRoom
<1>49. \A t : TP!Retaken(t) = To!Retaken(t)
  BY DEF TP!Retaken, To!Retaken
<1>42. \A c : TP!ios_putc(c) <=> To!ios_putc(c)
  BY <1>39, <1>41, <1>40, <1>48 DEF TP!ios_putc, To!ios_putc
<1>43. TP!ios_takebuf <=> To!ios_takebuf
  BY <1>3, <1>12, <1>13, <1>28, <1>33, <1>49 DEF TP!ios_takebuf, To!ios_takebuf
<1>44. \A p : TP!ios_seek(p) <=> To!ios_seek(p)
  BY <1>12, <1>3, <1>13, <1>28, <1>33, <1>29, <1>30 DEF TP!ios_seek, To!ios_seek
<1>45. TP!ios_set_readonly <=> To!ios_set_readonly
  BY <1>12, <1>3, <1>28, <1>33, <1>13 DEF TP!ios_set_readonly, To!ios_set_readonly
<1>46. \A data : TP!Opened(data) = To!Opened(data)
  BY <1>4 DEF TP!Opened, To!Opened
<1>50. \A data : TP!Openings(data) = To!Openings(data)
  BY <1>3, <1>46 DEF TP!Openings, To!Openings
<1>47. TP!Init <=> To!Init
  BY <1>50, <1>3 DEF TP!Init, To!Init
<1> QED
  BY <1>1, <1>2, <1>3, <1>4, <1>5, <1>6, <1>7, <1>8, <1>9, <1>10, <1>11, <1>12, <1>13, <1>14, <1>15, <1>16, <1>17, <1>18, <1>19, <1>20, <1>21, <1>22, <1>23, <1>24, <1>25, <1>26, <1>27, <1>28, <1>29, <1>30, <1>31, <1>32, <1>33, <1>34, <1>35, <1>36, <1>37, <1>38, <1>39, <1>40, <1>41, <1>42, <1>43, <1>44, <1>45, <1>46, <1>47, <1>48, <1>49, <1>50

ToStep == [To!Pointer!Next]_(To!Pointer!vars)

LEMMA ToAssumption == TP!IosAssumption
<1>1. /\ ToKind \in {"mem", "file", "pipe"} /\ AllocFails \in BOOLEAN
      /\ {InlSize, MostDiv} \subseteq Nat \ {0} /\ BufSize \in Nat \ {0} /\ InlSize < BufSize
      /\ MaxSize \in Nat /\ Byte \subseteq Nat /\ {0, Delim} \subseteq Byte
  BY IosCallsAssumption
<1>2. <<>> \in Seq(Byte)
  BY EmptyBytes
<1>3. /\ ModeOf(ToKind) \in {"none", "line", "block", "mem"}
      /\ ModeOf(ToKind) = "mem" <=> ToKind \in {"mem", "str", "static"}
  BY <1>1 DEF ModeOf
<1> QED
  BY <1>1, <1>2, <1>3 DEF TP!IosAssumption

LEMMA ToOrderly == TP!Orderly
<1>1. ModeOf(ToKind) # "none"
  BY DEF ModeOf
<1> QED
  BY <1>1 DEF TP!Orderly, TP!Plain

LEMMA ToPromise == TP!PStep => ToStep
<1> SUFFICES ASSUME TP!PStep PROVE ToStep
  OBVIOUS
<1>1. /\ To!Contents(to) = TP!Contents(to) /\ To!Contents(to') = TP!Contents(to')
      /\ To!Pos(to) = TP!Pos(to) /\ To!Pos(to') = TP!Pos(to')
      /\ To!InMemory <=> TP!InMemory
  BY ToSame
<1>2. TP!Pointer!Next \/ UNCHANGED TP!Pointer!vars
  BY DEF TP!PStep
<1>3. CASE UNCHANGED TP!Pointer!vars
  BY <1>1, <1>3 DEF TP!Pointer!vars, To!Pointer!vars, ToStep
<1>4. CASE TP!Pointer!Next
  <2>1. TP!Pointer!Read => To!Pointer!Read
    BY <1>1, Zenon DEF TP!Pointer!Read, To!Pointer!Read,
      TP!Pointer!Left, To!Pointer!Left, TP!Pointer!Max2, To!Pointer!Max2, TP!Pointer!Min2, To!Pointer!Min2, TP!Pointer!Slice, To!Pointer!Slice, TP!Pointer!Overlay, To!Pointer!Overlay, TP!Pointer!First, To!Pointer!First
  <2>2. TP!Pointer!ReadAll => To!Pointer!ReadAll
    BY <1>1, Zenon DEF TP!Pointer!ReadAll, To!Pointer!ReadAll,
      TP!Pointer!Left, To!Pointer!Left, TP!Pointer!Max2, To!Pointer!Max2, TP!Pointer!Min2, To!Pointer!Min2, TP!Pointer!Slice, To!Pointer!Slice, TP!Pointer!Overlay, To!Pointer!Overlay, TP!Pointer!First, To!Pointer!First
  <2>3. TP!Pointer!Peek => To!Pointer!Peek
    BY <1>1, Zenon DEF TP!Pointer!Peek, To!Pointer!Peek,
      TP!Pointer!Left, To!Pointer!Left, TP!Pointer!Max2, To!Pointer!Max2, TP!Pointer!Min2, To!Pointer!Min2, TP!Pointer!Slice, To!Pointer!Slice, TP!Pointer!Overlay, To!Pointer!Overlay, TP!Pointer!First, To!Pointer!First
  <2>4. TP!Pointer!Unget => To!Pointer!Unget
    BY <1>1, Zenon DEF TP!Pointer!Unget, To!Pointer!Unget,
      TP!Pointer!Left, To!Pointer!Left, TP!Pointer!Max2, To!Pointer!Max2, TP!Pointer!Min2, To!Pointer!Min2, TP!Pointer!Slice, To!Pointer!Slice, TP!Pointer!Overlay, To!Pointer!Overlay, TP!Pointer!First, To!Pointer!First
  <2>5. TP!Pointer!Write => To!Pointer!Write
    BY <1>1, Zenon DEF TP!Pointer!Write, To!Pointer!Write,
      TP!Pointer!Left, To!Pointer!Left, TP!Pointer!Max2, To!Pointer!Max2, TP!Pointer!Min2, To!Pointer!Min2, TP!Pointer!Slice, To!Pointer!Slice, TP!Pointer!Overlay, To!Pointer!Overlay, TP!Pointer!First, To!Pointer!First
  <2>6. TP!Pointer!Move => To!Pointer!Move
    BY <1>1, Zenon DEF TP!Pointer!Move, To!Pointer!Move,
      TP!Pointer!Left, To!Pointer!Left, TP!Pointer!Max2, To!Pointer!Max2, TP!Pointer!Min2, To!Pointer!Min2, TP!Pointer!Slice, To!Pointer!Slice, TP!Pointer!Overlay, To!Pointer!Overlay, TP!Pointer!First, To!Pointer!First
  <2>7. TP!Pointer!Trunc => To!Pointer!Trunc
    <3>1. \A a, b : TP!Pointer!Min2(a, b) = To!Pointer!Min2(a, b)
      BY DEF TP!Pointer!Min2, To!Pointer!Min2
    <3> QED
      BY <1>1, <3>1 DEF TP!Pointer!Trunc, To!Pointer!Trunc
  <2>8. TP!Pointer!Take => To!Pointer!Take
    BY <1>1, Zenon DEF TP!Pointer!Take, To!Pointer!Take,
      TP!Pointer!Left, To!Pointer!Left, TP!Pointer!Max2, To!Pointer!Max2, TP!Pointer!Min2, To!Pointer!Min2, TP!Pointer!Slice, To!Pointer!Slice, TP!Pointer!Overlay, To!Pointer!Overlay, TP!Pointer!First, To!Pointer!First
  <2>9. TP!Pointer!Purge => To!Pointer!Purge
    BY <1>1, Zenon DEF TP!Pointer!Purge, To!Pointer!Purge,
      TP!Pointer!Left, To!Pointer!Left, TP!Pointer!Max2, To!Pointer!Max2, TP!Pointer!Min2, To!Pointer!Min2, TP!Pointer!Slice, To!Pointer!Slice, TP!Pointer!Overlay, To!Pointer!Overlay, TP!Pointer!First, To!Pointer!First
  <2>10. TP!Pointer!Close => To!Pointer!Close
    BY <1>1, Zenon DEF TP!Pointer!Close, To!Pointer!Close,
      TP!Pointer!Left, To!Pointer!Left, TP!Pointer!Max2, To!Pointer!Max2, TP!Pointer!Min2, To!Pointer!Min2, TP!Pointer!Slice, To!Pointer!Slice, TP!Pointer!Overlay, To!Pointer!Overlay, TP!Pointer!First, To!Pointer!First
  <2>11. TP!Pointer!Reopen => To!Pointer!Reopen
    BY <1>1, Zenon DEF TP!Pointer!Reopen, To!Pointer!Reopen,
      TP!Pointer!Left, To!Pointer!Left, TP!Pointer!Max2, To!Pointer!Max2, TP!Pointer!Min2, To!Pointer!Min2, TP!Pointer!Slice, To!Pointer!Slice, TP!Pointer!Overlay, To!Pointer!Overlay, TP!Pointer!First, To!Pointer!First
  <2>12. TP!Pointer!Tell => To!Pointer!Tell
    BY <1>1, Zenon DEF TP!Pointer!Tell, To!Pointer!Tell,
      TP!Pointer!Left, To!Pointer!Left, TP!Pointer!Max2, To!Pointer!Max2, TP!Pointer!Min2, To!Pointer!Min2, TP!Pointer!Slice, To!Pointer!Slice, TP!Pointer!Overlay, To!Pointer!Overlay, TP!Pointer!First, To!Pointer!First
  <2>13. TP!Pointer!Quiet => To!Pointer!Quiet
    BY <1>1, Zenon DEF TP!Pointer!Quiet, To!Pointer!Quiet,
      TP!Pointer!Left, To!Pointer!Left, TP!Pointer!Max2, To!Pointer!Max2, TP!Pointer!Min2, To!Pointer!Min2, TP!Pointer!Slice, To!Pointer!Slice, TP!Pointer!Overlay, To!Pointer!Overlay, TP!Pointer!First, To!Pointer!First
  <2> QED
    BY <1>4, <2>1, <2>2, <2>3, <2>4, <2>5, <2>6, <2>7, <2>8, <2>9, <2>10, <2>11, <2>12, <2>13, Zenon DEF TP!Pointer!Next, To!Pointer!Next, ToStep
<1> QED
  BY <1>2, <1>3, <1>4

ToInv == TP!WInv

LEMMA ToTyped ==
  ASSUME ToInv
  PROVE  To!TypeOK /\ To!Contents(to) \in Seq(Byte) /\ To!Pos(to) \in Nat
<1>1. TP!Contents(to) \in Seq(Byte) /\ TP!Pos(to) \in Nat
  BY ToAssumption, TP!WriterTyped DEF ToInv
<1>2. TP!TypeOK
  BY DEF ToInv, TP!WInv, TP!IInv
<1> QED
  BY <1>1, <1>2, ToSame

\* Where a call does not touch it, to does a step that changes nothing.
LEMMA ToRested ==
  ASSUME ToInv, ToRests
  PROVE  /\ ToInv' /\ ToStep /\ Wrote(<<>>, 0)
         /\ To!Contents(to') = To!Contents(to) /\ To!Pos(to') = To!Pos(to)
<1>1. UNCHANGED to /\ TP!Did("refused", 0, <<>>, 0) /\ toCall'.ret = 0
  BY ToSame DEF ToRests, To!Did
<1>2. ToInv' /\ TP!PStep
  BY <1>1, ToAssumption, ToOrderly, TP!WriterRests DEF ToInv
<1>3. To!Contents(to') = To!Contents(to) /\ To!Pos(to') = To!Pos(to)
  BY <1>1
<1>4. Wrote(<<>>, 0)
  <2>1. To!Contents(to) \in Seq(Byte) /\ To!Pos(to) \in Nat
    BY ToTyped
  <2>2. PICK e \in Seq(Byte) : e = <<>> /\ Len(e) = 0
    BY EmptyBytes
  <2>3. First(e, 0) = e
    BY <2>2, FirstAll
  <2>4. Overlay(To!Contents(to), To!Pos(to), e) = To!Contents(to)
    BY <2>2, OverlayNothing
  <2> QED
    BY <1>1, <1>3, <2>1, <2>2, <2>3, <2>4 DEF Wrote
<1> QED
  BY <1>2, <1>3, <1>4, ToPromise

LEMMA ToWrites ==
  ASSUME ToInv, NEW d \in Seq(Byte), To!Writing(to, d)
  PROVE  ToInv' /\ ToStep /\ \E r : Wrote(d, r)
<1>1. TP!WInv' /\ TP!PStep /\ \E r \in 0..Len(d) : TP!WroteSome(d, r)
  BY ToAssumption, ToOrderly, ToSame, TP!WriterWrites DEF ToInv
<1>2. PICK r \in 0..Len(d) : TP!WroteSome(d, r)
  BY <1>1
<1>3. \A c, n : TP!First(c, n) = First(c, n)
  BY ToSame, ToBytes
<1>4. \A c, at, e : TP!Overlay(c, at, e) = Overlay(c, at, e)
  BY ToSame, ToBytes
<1>5. /\ \A t : TP!Contents(t) = To!Contents(t)
      /\ \A t : TP!Pos(t) = To!Pos(t)
  BY ToSame
<1>6. Wrote(d, r)
  BY <1>2, <1>3, <1>4, <1>5 DEF TP!WroteSome, Wrote
<1> QED
  BY <1>1, <1>6, ToPromise DEF ToInv

LEMMA ToPuts ==
  ASSUME ToInv, NEW c \in Byte, To!ios_putc(c)
  PROVE  ToInv' /\ ToStep
BY ToAssumption, ToOrderly, ToSame, TP!WriterPuts, ToPromise DEF ToInv

LEMMA ToTakes ==
  ASSUME ToInv, ToKind = "mem", To!ios_takebuf
  PROVE  ToInv' /\ ToStep
<1>1. TP!InMemory
  BY DEF TP!InMemory
<1> QED
  BY <1>1, ToAssumption, ToOrderly, ToSame, TP!WriterTakes, ToPromise DEF ToInv

LEMMA ToOpens ==
  ASSUME ToKind = "mem", to' = To!Opened(<<>>),
         toCall' = [op |-> "open", num |-> 0, bytes |-> <<>>, ret |-> 0]
  PROVE  ToInv' /\ ToStep
<1>1. TP!InMemory
  BY DEF TP!InMemory
<1>2. to' = TP!Opened(<<>>)
  BY ToSame
<1> QED
  BY <1>1, <1>2, ToAssumption, ToOrderly, TP!WriterOpens, ToPromise DEF ToInv

LEMMA ToSeeks ==
  ASSUME ToInv, NEW p \in Nat, To!ios_seek(p)
  PROVE  ToInv' /\ ToStep
BY ToAssumption, ToOrderly, ToSame, TP!WriterSeeks, ToPromise DEF ToInv

LEMMA ToLocks ==
  ASSUME ToInv, To!ios_set_readonly
  PROVE  ToInv' /\ ToStep
BY ToAssumption, ToOrderly, ToSame, TP!WriterLocks, ToPromise DEF ToInv

LEMMA ToStarts ==
  ASSUME To!Init
  PROVE  ToInv /\ To!Pointer!Init
<1>1. TP!Init /\ ToKind \in {"mem", "file", "pipe"}
  BY ToSame, IosCallsAssumption
<1>2. ToInv /\ TP!Pointer!Init
  BY <1>1, ToAssumption, ToOrderly, TP!WriterInit DEF ToInv
<1>3. To!Contents(to) = TP!Contents(to) /\ To!Pos(to) = TP!Pos(to)
  BY ToSame
<1> QED
  BY <1>2, <1>3 DEF TP!Pointer!Init, To!Pointer!Init

LEMMA ToStays ==
  ASSUME ToInv, UNCHANGED <<to, toCall>>
  PROVE  ToInv' /\ ToStep
BY ToAssumption, ToOrderly, TP!WriterStutters, ToPromise DEF ToInv, TP!vars

LEMMA NoJobYet ==
  ASSUME job = NoJob
  PROVE  JInv
<1>1. /\ job.op = "none" /\ job.pc = "end" /\ job.src = <<>>
  BY DEF NoJob
<1>2. Job(job)
  BY EmptyBytes DEF Job, NoJob
<1> QED
  BY <1>1, <1>2 DEF JInv, Places, Asked, Moved, Laid, CopyOn, LineOn, CharOn, Copying, ByLine,
                    ByCharacter

\* The source as it is opened.
LEMMA SourceOpened ==
  ASSUME NEW data, data = (IF From!InMemory THEN <<>> ELSE Initial), NEW t, t = From!Opened(data)
  PROVE  Source(t) /\ t.status = "open" /\ From!Pos(t) = 0 /\ (~From!InMemory => t.buf = <<>>)
<1> DEFINE fresh == [bm |-> ModeOf(FromKind), state |-> "none", buf |-> <<>>, maxsize |-> 0,
                     bpos |-> 0, ndirty |-> 0, fpos |-> -1, readonly |-> TRUE,
                     eof |-> FALSE, inl |-> TRUE, data |-> data, off |-> 0, status |-> "open"]
<1>0. /\ Initial \in Seq(Byte) /\ Len(Initial) \in Nat /\ InlSize \in Nat /\ BufSize \in Nat
      /\ BufSize >= 2 /\ FromKind \in {"str", "static", "file", "pipe"}
      /\ <<>> \in Seq(Byte) /\ Len(<<>>) = 0 /\ data \in Seq(Byte)
  BY Constants, EmptyBytes, IosCallsAssumption
<1>1. ModeOf(FromKind) \in {"none", "line", "block", "mem"} /\ -1 \in Int /\ 0 \in Nat /\ 0 \in Int
  BY DEF ModeOf
<1>2. /\ fresh \in From!Stream /\ fresh.bpos = 0 /\ fresh.buf = <<>> /\ fresh.off = 0
      /\ fresh.status = "open" /\ fresh.state = "none" /\ fresh.ndirty = 0 /\ fresh.data = data
  BY <1>0, <1>1 DEF From!Stream
<1> HIDE DEF fresh
<1>3. CASE FromKind = "str"
  <2>1. PICK m : m = From!Max2(InlSize, Len(Initial)) /\ m \in Nat /\ Len(Initial) <= m
    BY <1>0, FromBytes DEF Max2
  <2>2. PICK i \in BOOLEAN : i <=> (Len(Initial) <= InlSize)
    BY <1>0
  <2>3. PICK l : l = Len(Initial) /\ l \in Nat
    BY <1>0
  <2>4. t = [fresh EXCEPT !.state = "wr", !.buf = Initial, !.ndirty = l, !.maxsize = m, !.inl = i]
    <3>1. (Len(Initial) <= InlSize) = i
      BY <1>0, <2>2
    <3>2. From!Opened(data) = [fresh EXCEPT !.state = "wr", !.buf = Initial,
             !.ndirty = Len(Initial), !.maxsize = From!Max2(InlSize, Len(Initial)),
             !.inl = (Len(Initial) <= InlSize)]
      BY <1>3, Zenon DEF From!Opened, fresh
    <3> QED
      BY <2>1, <2>3, <3>1, <3>2, Zenon
  <2>5. /\ t \in From!Stream /\ t.bpos = 0 /\ t.buf = Initial /\ t.maxsize = m
        /\ t.status = "open" /\ t.off = 0
    BY <1>0, <1>2, <2>1, <2>2, <2>3, <2>4, Zenon DEF From!Stream
  <2>6. From!InMemory
    BY <1>3 DEF From!InMemory
  <2>7. Source(t)
    BY <1>0, <2>1, <2>5, <2>6 DEF Source
  <2> QED
    BY <2>5, <2>6, <2>7, SourcePos
<1>4. CASE FromKind = "static"
  <2>1. PICK l : l = Len(Initial) /\ l \in Nat
    BY <1>0
  <2>2. t = [fresh EXCEPT !.buf = Initial, !.maxsize = l, !.inl = FALSE]
    BY <1>4, <2>1, Zenon DEF From!Opened, fresh
  <2>3. /\ t \in From!Stream /\ t.bpos = 0 /\ t.buf = Initial /\ t.maxsize = l
        /\ t.status = "open" /\ t.off = 0
    BY <1>0, <1>2, <2>1, <2>2, Zenon DEF From!Stream
  <2>4. From!InMemory
    BY <1>4 DEF From!InMemory
  <2>5. Source(t)
    BY <1>0, <2>1, <2>3, <2>4 DEF Source
  <2> QED
    BY <2>3, <2>4, <2>5, SourcePos
<1>5. CASE FromKind \in {"file", "pipe"}
  <2>1. ~From!InMemory
    BY <1>5 DEF From!InMemory
  <2>2. t = [fresh EXCEPT !.maxsize = BufSize, !.inl = FALSE]
    <3>1. /\ FromKind # "str" /\ FromKind # "static"
          /\ FromKind # "mem" /\ FromKind # "stdin" /\ FromKind # "stdout"
      BY <1>5
    <3> QED
      BY <1>5, <3>1, Zenon DEF From!Opened, fresh
  <2>3. /\ t \in From!Stream /\ t.bpos = 0 /\ t.buf = <<>> /\ t.maxsize = BufSize
        /\ t.status = "open" /\ t.off = 0 /\ t.state = "none" /\ t.ndirty = 0
        /\ t.data = data /\ t.inl = FALSE
    BY <1>0, <1>2, <2>2, Zenon DEF From!Stream
  <2>4. data = Initial
    BY <2>1
  <2>5. Slice(Initial, 0 - 0, 0) = <<>>
    BY <1>0, SliceNone
  <2>6. Source(t)
    BY <1>0, <2>1, <2>3, <2>4, <2>5 DEF Source
  <2> QED
    BY <1>0, <2>3, <2>1, <2>6, SourcePos
<1> QED
  BY <1>0, <1>3, <1>4, <1>5

LEMMA FromStarts ==
  ASSUME From!Init
  PROVE  FromInv /\ From!Pointer!Init
<1>1. /\ Source(from) /\ from.status = "open" /\ From!Pos(from) = 0
      /\ ~From!InMemory => from.buf = <<>>
  <2>1. PICK data : /\ data = (IF From!InMemory THEN <<>> ELSE Initial)
                    /\ from \in From!Openings(data)
    BY DEF From!Init
  <2>2. PICK t : t = From!Opened(data)
    OBVIOUS
  <2>3. /\ Source(t) /\ t.status = "open" /\ From!Pos(t) = 0
        /\ ~From!InMemory => t.buf = <<>>
    BY <2>1, <2>2, SourceOpened
  <2>4. CASE from = t
    BY <2>3, <2>4
  <2>5. CASE ~From!InMemory /\ from = [t EXCEPT !.maxsize = 0, !.inl = TRUE]
    <3>1. /\ from \in From!Stream /\ from.buf = <<>> /\ from.bpos = t.bpos
          /\ from.maxsize = 0 /\ from.inl = TRUE /\ from.status = t.status
          /\ from.state = t.state /\ from.off = t.off /\ from.ndirty = t.ndirty
          /\ from.data = t.data /\ t.buf = <<>>
      BY <2>3, <2>5 DEF Source, From!Stream
    <3>2. Len(from.buf) = 0 /\ Len(t.buf) = 0 /\ t.bpos = 0
      BY <2>3, <3>1 DEF Source, From!Stream
    <3>3. Source(from)
      BY <2>3, <2>5, <3>1, <3>2, Constants DEF Source
    <3>4. From!Pos(from) = 0
      BY <2>3, <2>5, <3>1 DEF From!Pos, From!Avail
    <3> QED
      BY <2>3, <2>5, <3>1, <3>3, <3>4
  <2> QED
    BY <2>1, <2>2, <2>4, <2>5 DEF From!Openings
<1>2. fromCall = [op |-> "open", num |-> 0, bytes |-> <<>>, ret |-> 0]
  BY DEF From!Init
<1>3. FromInv
  BY <1>1, <1>2, EmptyBytes DEF FromInv, FromAnswer, LastByte, Filled
<1>4. From!Contents(from) \in Seq(Nat)
  <2>1. From!Contents(from) = Initial
    BY <1>1, SourceContents
  <2>2. Initial \in Seq(Nat)
    BY Constants, SeqMonotonic
  <2> QED
    BY <2>1, <2>2
<1> QED
  BY <1>1, <1>2, <1>3, <1>4 DEF From!Pointer!Init

(***************************************************************************)
(* The invariant of the two streams and the call under way, and what each  *)
(* step makes of the three of them.                                        *)
(***************************************************************************)
IInv == FromInv /\ ToInv /\ JInv

\* Both streams keep their invariants and their promises.
Streams == FromInv' /\ FromStep /\ ToInv' /\ ToStep

LEMMA Resting ==
  ASSUME IInv, FromRests, ToRests
  PROVE  Streams
BY FromRestsStep, ToRested DEF IInv, Streams

LEMMA UnreadTyped ==
  ASSUME Source(from)
  PROVE  /\ Unread \in Seq(Byte) /\ Len(Unread) \in Nat /\ Len(Unread) = From!Avail(from)
<1>1. /\ from.buf \in Seq(Byte) /\ from.bpos \in Nat /\ from.bpos <= Len(from.buf)
      /\ Len(from.buf) \in Nat
  BY Known, LenProperties DEF Source
<1>2. Unread \in Seq(Byte) /\ Len(Unread) = Len(from.buf) - from.bpos
  BY <1>1, AfterBytes DEF Unread
<1> QED
  BY <1>1, <1>2 DEF From!Avail

LEMMA Moving ==
  ASSUME IInv, from.status = "open", NEW k \in 0..Len(Unread), Move(First(Unread, k))
  PROVE  Streams /\ \E r : Wrote(First(Unread, k), r)
<1>1. Unread \in Seq(Byte) /\ Len(Unread) = From!Avail(from) /\ FromInv /\ ToInv
  BY UnreadTyped DEF IInv, FromInv
<1>2. /\ First(Unread, k) \in Seq(Byte) /\ Len(First(Unread, k)) = k
      /\ First(Unread, k) = <<>> <=> k = 0
  BY <1>1, Parts
<1>3. CASE k = 0
  <2>1. FromRests /\ ToRests /\ First(Unread, k) = <<>>
    BY <1>2, <1>3 DEF Move
  <2> QED
    BY <1>1, <2>1, FromRestsStep, ToRested DEF Streams
<1>4. CASE k # 0
  <2>1. /\ To!Writing(to, First(Unread, k)) /\ from' = [from EXCEPT !.bpos = @ + k]
        /\ From!Got("read", k, First(Unread, k))
    BY <1>2, <1>4 DEF Move
  <2>2. fromCall' = [op |-> "read", num |-> k, bytes |-> First(Unread, k), ret |-> k]
    BY <1>2, <2>1 DEF From!Got, From!Did
  <2>3. k \in 1..From!Avail(from)
    BY <1>1, <1>4
  <2>4. FromInv' /\ FromStep
    BY <1>1, <2>1, <2>2, <2>3, FromMoved
  <2>5. ToInv' /\ ToStep /\ \E r : Wrote(First(Unread, k), r)
    BY <1>1, <1>2, <2>1, ToWrites
  <2> QED
    BY <2>4, <2>5 DEF Streams
<1> QED
  BY <1>3, <1>4

LEMMA Preparing ==
  ASSUME IInv, from.status = "open", NEW n \in Nat, Prepare(n), ToRests
  PROVE  Streams
BY FromPrepared, ToRested DEF IInv, Streams

\* The source of a call under way is open.
LEMMA UnderWay ==
  ASSUME IInv, job.op # "none"
  PROVE  /\ from.status = "open" /\ Source(from) /\ JInv
         /\ job.pc \in {"prep", "move", "look"} => ~from.eof
         /\ job.left \in Nat
BY Typed DEF IInv, FromInv, JInv, Asked

-------------------------------------------------------------------------------
(* The steps of a copy. *)

LEMMA CopyPrepStep ==
  ASSUME IInv, CopyPrep
  PROVE  IInv' /\ Streams
<1>1. job.op # "none"
  BY DEF CopyPrep, Copying
<1>2. BufSize \div 2 \in Nat
  BY Constants
<1>3. Streams
  BY <1>1, <1>2, UnderWay, Preparing DEF CopyPrep
<1>4. JInv'
  BY <1>1, UnderWay, CopyPrepJob
<1> QED
  BY <1>3, <1>4 DEF IInv, Streams

LEMMA CopyEndStep ==
  ASSUME IInv, CopyEnd
  PROVE  IInv' /\ Streams
<1>1. job.op # "none"
  BY DEF CopyEnd, Copying
<1>2. FromInv' /\ FromStep
  BY <1>1, UnderWay, FromEnded DEF CopyEnd, IInv
<1>3. ToInv' /\ ToStep
  BY ToRested DEF CopyEnd, IInv
<1>4. JInv'
  BY <1>1, UnderWay, CopyEndJob
<1> QED
  BY <1>2, <1>3, <1>4 DEF IInv, Streams

LEMMA CopyMoveStep ==
  ASSUME IInv, CopyMove
  PROVE  IInv' /\ Streams
<1>1. job.op # "none"
  BY DEF CopyMove, Copying
<1>2. Unread \in Seq(Byte) /\ Len(Unread) \in Nat
  BY UnreadTyped DEF IInv, FromInv
<1>3. PICK k : k = IF job.op = "copyall" THEN Len(Unread) ELSE Min2(Len(Unread), job.left)
  OBVIOUS
<1>4. k \in 0..Len(Unread)
  BY <1>1, <1>2, <1>3, UnderWay DEF Min2
<1>5. Wanted = First(Unread, k)
  BY <1>2, <1>3, FirstAll DEF Wanted
<1>6. Streams /\ \E r : Wrote(Wanted, r)
  BY <1>1, <1>4, <1>5, UnderWay, Moving DEF CopyMove
<1>7. JInv'
  BY <1>1, <1>6, UnderWay, CopyMoveJob
<1> QED
  BY <1>6, <1>7 DEF IInv, Streams

LEMMA UntilPrepStep ==
  ASSUME IInv, UntilPrep
  PROVE  IInv' /\ Streams
<1>1. job.op # "none"
  BY DEF UntilPrep, ByLine
<1>2. ChunkSize \in Nat
  BY Constants
<1>3. Streams
  BY <1>1, <1>2, UnderWay, Preparing DEF UntilPrep
<1>4. JInv'
  BY <1>1, UnderWay, UntilPrepJob
<1> QED
  BY <1>3, <1>4 DEF IInv, Streams

LEMMA UntilFoundStep ==
  ASSUME IInv, UntilFound
  PROVE  IInv' /\ Streams
<1>1. job.op # "none"
  BY DEF UntilFound, ByLine
<1>2. Len(Unread) \in Nat
  BY UnreadTyped DEF IInv, FromInv
<1>3. PICK k : k = Min(Delims)
  OBVIOUS
<1>4. k \in 0..Len(Unread)
  <2>1. Delims \in SUBSET Nat /\ Delims # {}
    BY <1>2 DEF Delims, UntilFound
  <2>2. k \in Delims
    BY <1>3, <2>1, LeastOf
  <2> QED
    BY <1>2, <2>2 DEF Delims
<1>5. Streams /\ \E r : Wrote(First(Unread, Min(Delims)), r)
  BY <1>1, <1>3, <1>4, UnderWay, Moving DEF UntilFound
<1>6. JInv'
  BY <1>1, <1>5, UnderWay, UntilFoundJob
<1> QED
  BY <1>5, <1>6 DEF IInv, Streams

LEMMA UntilMoreStep ==
  ASSUME IInv, UntilMore
  PROVE  IInv' /\ Streams
<1>1. job.op # "none"
  BY DEF UntilMore, ByLine
<1>2. Unread \in Seq(Byte) /\ Len(Unread) \in Nat
  BY UnreadTyped DEF IInv, FromInv
<1>3. PICK k : k = Len(Unread)
  OBVIOUS
<1>4. k \in 0..Len(Unread) /\ First(Unread, k) = Unread
  BY <1>2, <1>3, FirstAll
<1>5. Streams /\ \E r : Wrote(Unread, r)
  BY <1>1, <1>4, UnderWay, Moving DEF UntilMore
<1>6. JInv'
  BY <1>1, <1>5, UnderWay, UntilMoreJob
<1> QED
  BY <1>5, <1>6 DEF IInv, Streams

LEMMA UntilNoneStep ==
  ASSUME IInv, UntilNone
  PROVE  IInv' /\ Streams
<1>1. job.op # "none"
  BY DEF UntilNone, ByLine
<1>2. Unread \in Seq(Byte)
  BY UnreadTyped DEF IInv, FromInv
<1>3. FromInv' /\ FromStep
  BY <1>1, UnderWay, FromNone DEF UntilNone, IInv
<1>4. ToInv' /\ ToStep /\ \E r : Wrote(Unread, r)
  <2>1. CASE Unread = <<>>
    BY <2>1, ToRested DEF UntilNone, IInv
  <2>2. CASE Unread # <<>>
    BY <1>2, <2>2, ToWrites DEF UntilNone, IInv
  <2> QED
    BY <2>1, <2>2
<1>5. JInv'
  BY <1>1, <1>4, UnderWay, UntilNoneJob
<1> QED
  BY <1>3, <1>4, <1>5 DEF IInv, Streams

LEMMA ReadlineTakeStep ==
  ASSUME IInv, ReadlineTake
  PROVE  IInv' /\ Streams
<1>1. job.op # "none" /\ job.op = "line"
  BY DEF ReadlineTake
<1>2. FromInv' /\ FromStep
  BY FromRestsStep DEF ReadlineTake, IInv
<1>3. ToInv' /\ ToStep
  BY <1>1, ToTakes DEF ReadlineTake, IInv, JInv, Places
<1>4. JInv'
  BY <1>1, UnderWay, ReadlineTakeJob
<1> QED
  BY <1>2, <1>3, <1>4 DEF IInv, Streams

-------------------------------------------------------------------------------
(* The steps of a call for a character. *)

LEMMA FirstByteStep ==
  ASSUME IInv, FirstByte
  PROVE  IInv' /\ Streams
<1>1. job.op # "none" /\ job.op \in {"getutf8", "peekutf8"} /\ job.pc = "byte"
  BY DEF FirstByte, ByCharacter
<1>2. from.status = "open" /\ Source(from) /\ JInv /\ FromInv /\ ToInv
  BY <1>1, UnderWay DEF IInv
<1>b. ~(from.eof /\ (Unread = <<>> \/ (job.op = "getutf8" /\ from.state # "rd")))
  BY DEF FirstByte, Believed, ios_eof
<1>u. Unread # <<>> => From!Avail(from) > 0
  <2>1. Unread \in Seq(Byte) /\ Len(Unread) \in Nat /\ Len(Unread) = From!Avail(from)
    BY <1>2, UnreadTyped
  <2> QED
    BY <2>1, EmptyByLength
<1>3. ToInv' /\ ToStep
  BY <1>2, ToRested DEF FirstByte
<1>4. From!Pos(from) \in Nat /\ From!Pos(from) <= Len(Initial) /\ Len(Initial) \in Nat
  BY <1>2, SourceUnread, Constants
<1>5. CASE job.op = "getutf8"
  <2>1. From!Reading("getc", 1)
    BY <1>2, <1>5, <1>b, <1>u DEF FirstByte, From!ios_getc
  <2>2. FromInv' /\ FromStep
    BY <1>2, <2>1, FromHad
  <2>3. PICK k \in 0..(Len(Initial) - From!Pos(from)) : Had("getc", 1, k)
    BY <1>2, <2>1, SourceReads
  <2>4. /\ Source(from') /\ from'.status = "open" /\ fromCall'.op = "getc"
        /\ fromCall'.bytes = Slice(Initial, From!Pos(from), k)
        /\ From!Pos(from') = From!Pos(from) + k
    BY <2>3 DEF Had
  <2>5. k \in 0..1 /\ From!Pos(from) + k <= Len(Initial)
    BY <1>4, <2>3 DEF Had
  <2>6. JInv'
    BY <1>2, <1>5, <2>4, <2>5, FirstByteJob
  <2> QED
    BY <1>3, <2>2, <2>6 DEF IInv, Streams
<1>6. CASE job.op = "peekutf8"
  <2>1. From!ios_peekc
    BY <1>6 DEF FirstByte
  <2>e. ~from.eof \/ From!Avail(from) > 0
    BY <1>b, <1>u
  <2>2. FromInv' /\ FromStep
    BY <1>2, <2>1, <2>e, FromPeeked
  <2>3. PICK c \in Seq(Byte) : Looked(c)
    BY <1>2, <2>1, <2>e, SourcePeeked
  <2>4. PICK k : k = Min2(Len(Initial) - From!Pos(from), 1)
    OBVIOUS
  <2>5. /\ Source(from') /\ from'.status = "open"
        /\ fromCall'.bytes = Slice(Initial, From!Pos(from), k)
        /\ From!Pos(from') = From!Pos(from)
    BY <2>3, <2>4 DEF Looked
  <2>6. k \in 0..1 /\ From!Pos(from) + k <= Len(Initial)
    BY <1>4, <2>4 DEF Min2
  <2>7. JInv'
    BY <1>2, <1>6, <2>5, <2>6, FirstByteJob
  <2> QED
    BY <1>3, <2>2, <2>7 DEF IInv, Streams
<1> QED
  BY <1>1, <1>5, <1>6

LEMMA NoByteStep ==
  ASSUME IInv, NoByte
  PROVE  IInv' /\ Streams
<1>1. job.op # "none"
  BY DEF NoByte, ByCharacter
<1>2. Streams
  BY Resting DEF NoByte
<1>3. JInv'
  BY <1>1, UnderWay, NoByteJob
<1> QED
  BY <1>2, <1>3 DEF IInv, Streams

LEMMA PutBackStep ==
  ASSUME IInv, PutBack
  PROVE  IInv' /\ Streams
<1>1. job.op # "none"
  BY DEF PutBack, ByCharacter
<1>2. FromInv' /\ FromStep /\ ReadOn(-1) /\ fromCall'.op = "unget"
  BY FromPutBack DEF PutBack, IInv
<1>3. ToInv' /\ ToStep
  BY ToRested DEF PutBack, IInv
<1>4. JInv'
  BY <1>1, <1>2, UnderWay, PutBackJob
<1> QED
  BY <1>2, <1>3, <1>4 DEF IInv, Streams

LEMMA FillCharacterStep ==
  ASSUME IInv, FillCharacter
  PROVE  IInv' /\ Streams
<1>1. job.op # "none"
  BY DEF FillCharacter, ByCharacter
<1>2. Streams
  BY <1>1, UnderWay, Preparing DEF FillCharacter
<1>3. JInv'
  BY <1>1, UnderWay, FillCharacterJob
<1> QED
  BY <1>2, <1>3 DEF IInv, Streams

LEMMA DecodeStep ==
  ASSUME IInv, Decode
  PROVE  IInv' /\ Streams
<1>1. job.op # "none"
  BY DEF Decode, ByCharacter
<1>2. Streams
  BY Resting DEF Decode
<1>3. JInv'
  BY <1>1, UnderWay, DecodeJob
<1> QED
  BY <1>2, <1>3 DEF IInv, Streams

LEMMA PassCharacterStep ==
  ASSUME IInv, PassCharacter
  PROVE  IInv' /\ Streams
<1>1. job.op # "none" /\ ByCharacter /\ job.pc = "pass"
  BY DEF PassCharacter, ByCharacter
<1>2. /\ from.status = "open" /\ Source(from) /\ JInv /\ FromInv /\ ToInv /\ job.left \in Nat
  BY <1>1, UnderWay DEF IInv
<1>3. ToInv' /\ ToStep
  BY <1>2, ToRested DEF PassCharacter
<1>4. PICK n : n = job.left + 1 /\ n \in Nat \ {0}
  BY <1>2
<1>5. From!Reading("read", n)
  BY <1>4 DEF PassCharacter
<1>6. FromInv' /\ FromStep
  BY <1>2, <1>4, <1>5, FromHad
<1>7. PICK k \in 0..(Len(Initial) - From!Pos(from)) : Had("read", n, k)
  BY <1>2, <1>4, <1>5, SourceReads
<1>8. From!Avail(from) >= job.left /\ From!Avail(from) \in Nat
      /\ From!Pos(from) \in Nat /\ From!Pos(from) <= Len(Initial) /\ Len(Initial) \in Nat
  BY <1>1, <1>2, SourceUnread, Constants DEF JInv, CharOn
<1>9. k \in Nat /\ ReadOn(k) /\ k <= n /\ (n <= From!Avail(from) + 1 =>
                                             k = n \/ From!Pos(from) + k = Len(Initial))
  BY <1>7, <1>8 DEF Had, ReadOn
<1>10. job.left + 1 <= Len(Initial) - From!Pos(from) => k = job.left + 1
  BY ONLY <1>2, <1>4, <1>8, <1>9
<1>11. JInv'
  BY <1>2, <1>9, <1>10, PassCharacterJob
<1> QED
  BY <1>3, <1>6, <1>11 DEF IInv, Streams

-------------------------------------------------------------------------------
(* The steps of the client. *)

LEMMA BeginsStep ==
  ASSUME IInv, NEW op, NEW pc, NEW n \in Nat, NEW over, Begins(op, pc, n, over),
         FromRests, ToRests,
         \/ op \in {"copy", "copyall"} /\ pc = "prep" /\ over = ios_eof
         \/ op = "until" /\ pc \in {"prep", "look"} /\ over = ios_eof
         \/ op \in {"getutf8", "peekutf8"} /\ pc = "byte" /\ over = FALSE
  PROVE  IInv' /\ Streams
<1>1. Streams
  BY Resting
<1>2. Source(from) /\ To!Contents(to) \in Seq(Byte) /\ To!Pos(to) \in Nat
  BY ToTyped DEF IInv, FromInv
<1>3. JInv'
  BY <1>2, BeginsJob
<1> QED
  BY <1>1, <1>3 DEF IInv, Streams

LEMMA ReadlineStep ==
  ASSUME IInv, ios_readline
  PROVE  IInv' /\ Streams
<1>1. FromInv' /\ FromStep
  BY FromRestsStep DEF ios_readline, IInv
<1>2. ToInv' /\ ToStep
  BY ToOpens DEF ios_readline
<1>3. JInv'
  BY ReadlineJob DEF IInv, FromInv
<1> QED
  BY <1>1, <1>2, <1>3 DEF IInv, Streams

LEMMA PutsCharacter ==
  ASSUME IInv, NEW wc \in Chars, ios_pututf8(wc)
  PROVE  Streams
<1>1. FromInv' /\ FromStep
  BY FromRestsStep DEF ios_pututf8, IInv
<1>2. ToInv' /\ ToStep
  <2>1. wc \in Nat /\ U!u8_wc_toutf8(wc) \in Seq(Byte)
    BY IosCallsAssumption
  <2>2. CASE wc < 128
    <3>1. U!u8_wc_toutf8(wc) = <<wc>>
      BY <2>2, <2>1 DEF U!u8_wc_toutf8
    <3>2. wc \in Byte
      <4>1. PICK c \in Seq(Byte) : c = <<wc>>
        BY <2>1, <3>1
      <4>2. Len(c) = 1 /\ c[1] = wc /\ 1 \in 1..Len(c)
        BY <4>1
      <4>3. c[1] \in Byte
        BY <4>2, ElementOfSeq
      <4> QED
        BY <4>2, <4>3
    <3>3. To!ios_putc(wc)
      BY <2>2 DEF ios_pututf8
    <3> QED
      BY <3>2, <3>3, ToPuts DEF IInv
  <2>3. CASE ~(wc < 128)
    <3>1. To!ios_write(U!u8_wc_toutf8(wc))
      BY <2>3 DEF ios_pututf8
    <3>2. To!Writing(to, U!u8_wc_toutf8(wc))
      BY <3>1 DEF To!ios_write
    <3> QED
      BY <2>1, <3>2, ToWrites DEF IInv
  <2> QED
    BY <2>2, <2>3
<1> QED
  BY <1>1, <1>2 DEF Streams

LEMMA ClientStep ==
  ASSUME IInv, Client
  PROVE  IInv' /\ Streams
<1>1. JInv'
  BY ClientJob DEF Client
<1>2. Streams
  <2>1. CASE FromClient
    BY <2>1, FromClientStep, ToRested DEF FromClient, IInv, Streams
  <2>2. CASE ToClient
    <3>1. FromInv' /\ FromStep
      BY <2>2, FromRestsStep DEF ToClient, IInv
    <3>2. ToInv' /\ ToStep
      <4>1. ASSUME NEW p \in 0..MaxSize, To!ios_seek(p)
            PROVE  ToInv' /\ ToStep
        <5>1. p \in Nat
          BY IosCallsAssumption
        <5> QED
          BY <4>1, <5>1, ToSeeks DEF IInv
      <4>2. CASE To!ios_set_readonly
        BY <4>2, ToLocks DEF IInv
      <4> QED
        BY <2>2, <4>1, <4>2 DEF ToClient
    <3> QED
      BY <3>1, <3>2 DEF Streams
  <2>3. CASE \E wc \in Chars : ios_pututf8(wc)
    BY <2>3, PutsCharacter
  <2> QED
    BY <2>1, <2>2, <2>3 DEF Client
<1> QED
  BY <1>1, <1>2 DEF IInv, Streams

LEMMA CallStepStep ==
  ASSUME IInv, CallStep
  PROVE  IInv' /\ Streams
BY CopyPrepStep, CopyEndStep, CopyMoveStep, UntilPrepStep, UntilFoundStep, UntilMoreStep,
   UntilNoneStep, ReadlineTakeStep, FirstByteStep, NoByteStep, PutBackStep, FillCharacterStep, DecodeStep,
   PassCharacterStep DEF CallStep

LEMMA NextStep ==
  ASSUME IInv, Next
  PROVE  IInv' /\ Streams
<1>1. CASE Client
  BY <1>1, ClientStep
<1>2. ASSUME NEW n \in CopyCounts, ios_copy(n)
      PROVE  IInv' /\ Streams
  <2>1. n \in Nat
    BY IosCallsAssumption
  <2> QED
    BY <1>2, <2>1, BeginsStep DEF ios_copy
<1>3. CASE ios_copyall
  BY <1>3, BeginsStep DEF ios_copyall
<1>4. CASE ios_copyuntil
  <2>1. FirstLook \in {"prep", "look"}
    BY DEF FirstLook
  <2> QED
    BY <1>4, <2>1, BeginsStep DEF ios_copyuntil
<1>5. CASE ios_readline
  BY <1>5, ReadlineStep
<1>6. CASE ios_getutf8
  BY <1>6, BeginsStep DEF ios_getutf8
<1>7. CASE ios_peekutf8
  BY <1>7, BeginsStep DEF ios_peekutf8
<1>8. CASE CallStep
  BY <1>8, CallStepStep
<1> QED
  BY <1>1, <1>2, <1>3, <1>4, <1>5, <1>6, <1>7, <1>8 DEF Next

LEMMA StutterStep ==
  ASSUME IInv, UNCHANGED vars
  PROVE  IInv' /\ Streams
<1>1. from' = from /\ fromCall' = fromCall /\ to' = to /\ toCall' = toCall /\ job' = job
  BY DEF vars
<1>2. FromInv' /\ FromStep
  <2>1. FromInv'
    BY <1>1 DEF IInv, FromInv, FromAnswer, LastByte, Filled, Source
  <2>2. FromStep
    BY <1>1 DEF FromStep, From!Pointer!vars
  <2> QED
    BY <2>1, <2>2
<1>3. ToInv' /\ ToStep
  BY <1>1, ToStays DEF IInv
<1>4. JInv'
  <2>1. Job(job)' /\ Places' /\ Asked' /\ Moved'
    BY <1>1, Zenon DEF IInv, JInv, Job, Places, Asked, Moved, Copying, ByLine, ByCharacter
  <2>2. Laid' /\ CopyOn' /\ LineOn'
    BY <1>1, Zenon DEF IInv, JInv, Laid, CopyOn, LineOn, LineEnd, NoDelim, Copying, ByLine, Idle,
                       Passed, Unread, ios_eof, HasBuffer
  <2>3. CharOn'
    BY <1>1, Zenon DEF IInv, JInv, CharOn, ByCharacter, Idle, CharacterTaken
  <2> QED
    BY <2>1, <2>2, <2>3 DEF JInv
<1> QED
  BY <1>2, <1>3, <1>4 DEF IInv, Streams

LEMMA AtStart ==
  ASSUME Init
  PROVE  IInv /\ From!Pointer!Init /\ To!Pointer!Init
BY FromStarts, ToStarts, NoJobYet DEF Init, IInv

LEMMA EachStep ==
  ASSUME IInv, [Next]_vars
  PROVE  IInv' /\ FromStep /\ ToStep
BY NextStep, StutterStep DEF Streams

LEMMA Promises ==
  ASSUME IInv
  PROVE  TypeOK /\ InOrder /\ NothingLost /\ Complete /\ CharacterTaken
<1>1. From!TypeOK
  BY DEF IInv, FromInv, Source, FromAnswer, From!TypeOK
<1>2. To!TypeOK
  BY ToTyped DEF IInv
<1>3. Job(job)
  BY DEF IInv, JInv
<1>4. TypeOK
  BY <1>1, <1>2, <1>3, Typed DEF TypeOK
<1> QED
  BY <1>4, JobComplete DEF IInv

\* Whatever calls made of calls ios.c is given, in whatever order: the buffer of
\* the stream they read is what the file has there, the stream they write is as
\* its own invariant says, and the call under way has moved both as far as it
\* counts.
THEOREM CallsInvariant == Spec => []IInv
<1>1. Init => IInv
  BY AtStart
<1>2. IInv /\ [Next]_vars => IInv'
  BY EachStep
<1> QED
  BY <1>1, <1>2, PTL DEF Spec

\* Whatever calls a client makes, one inside the other, both streams and the call
\* under way keep their types: no number that a call counts becomes negative.
THEOREM CallsTyped == Spec => []TypeOK
<1>1. IInv => TypeOK
  BY Promises
<1> QED
  BY <1>1, CallsInvariant, PTL

\* What ios_copy, ios_copyall, ios_copyuntil and ios_readline have put into the
\* other stream at any moment is what the source gave from its position on, in
\* order, with nothing left out and nothing twice, over streams of every kind and
\* buffers of every size.
THEOREM CopiesInOrder == Spec => []InOrder
<1>1. IInv => InOrder
  BY Promises
<1> QED
  BY <1>1, CallsInvariant, PTL

\* However the buffers of the two streams fill and empty under it, a copy moves the
\* source by what it wrote, unless a write came up short.
THEOREM CopiesLoseNothing == Spec => []NothingLost
<1>1. IInv => NothingLost
  BY Promises
<1> QED
  BY <1>1, CallsInvariant, PTL

\* ios_copy ends with all it was asked for or all there was; ios_copyall with all
\* there was; ios_copyuntil and ios_readline behind the first delimiter, never
\* later, and earlier only where they take it for the end of the file.
THEOREM CopiesAreComplete == Spec => []Complete
<1>1. IInv => Complete
  BY Promises
<1> QED
  BY <1>1, CallsInvariant, PTL

\* ios_getutf8 passes over a whole character or stays where it is, ios_peekutf8
\* stays, and the character answered is the one whose bytes are there, wherever
\* in the bytes of the character the buffer had ended.
THEOREM CharactersAreTaken == Spec => []CharacterTaken
<1>1. IInv => CharacterTaken
  BY Promises
<1> QED
  BY <1>1, CallsInvariant, PTL

\* No call made of calls does to the stream it reads what the array of bytes with a
\* pointer of ios.h could not do: the steps of ios.c that move bpos, eof and the
\* buffer past its own calls are steps of ByteStream.
THEOREM SourceIsAPointer == Spec => FromPointer
<1>1. Init => From!Pointer!Init
  BY AtStart
<1>2. IInv /\ [Next]_vars => [From!Pointer!Next]_(From!Pointer!vars)
  BY EachStep DEF FromStep
<1> QED
  BY <1>1, <1>2, CallsInvariant, PTL DEF Spec, FromPointer, From!PointerSpec, From!Pointer!Spec

\* Likewise for the stream that is written.
THEOREM TargetIsAPointer == Spec => ToPointer
<1>1. Init => To!Pointer!Init
  BY AtStart
<1>2. IInv /\ [Next]_vars => [To!Pointer!Next]_(To!Pointer!vars)
  BY EachStep DEF ToStep
<1> QED
  BY <1>1, <1>2, CallsInvariant, PTL DEF Spec, ToPointer, To!PointerSpec, To!Pointer!Spec
================================================================================
