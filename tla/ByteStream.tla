------------------------------ MODULE ByteStream ------------------------------
(***************************************************************************)
(* What a stream promises its client, from the description of mixed reads  *)
(* and writes in ios.h: the stream is an array of bytes and a pointer p,   *)
(* and every call is a sequence of *p++, as an lvalue or an rvalue, or a   *)
(* movement of p.  No buffer, no file descriptor, no mode.                 *)
(*                                                                         *)
(* call is the last call, with its numeric argument, the bytes that went   *)
(* in or came out, and the number it returned.                             *)
(***************************************************************************)
EXTENDS Bytes

CONSTANTS
  Durable,   \* what was written outlives the stream (a file does)
  Scarce     \* room for what is written may run out

VARIABLES
  contents,   \* the bytes of the stream, written ones included
  pos,        \* the pointer p
  call        \* [op, num, bytes, ret] of the last call

vars == <<contents, pos, call>>

Left == Max2(0, Len(contents) - pos)

Init ==
  /\ contents \in Seq(Nat)
  /\ pos = 0
  /\ call = [op |-> "open", num |-> 0, bytes |-> <<>>, ret |-> 0]

\* *p++ as an rvalue, up to the number asked for. Nothing comes back only
\* when nothing is left.
Read ==
  /\ call'.op = "read"
  /\ Len(call'.bytes) \in (IF Left = 0 THEN {0} ELSE 1..Min2(Left, call'.num))
  /\ call'.bytes = Slice(contents, pos, Len(call'.bytes))
  /\ pos' = pos + Len(call'.bytes)
  /\ UNCHANGED contents

\* A getc: one byte if there is one. readall: all that is asked for.
ReadAll ==
  /\ call'.op \in {"getc", "readall"}
  /\ call'.bytes = Slice(contents, pos, Min2(Left, call'.num))
  /\ pos' = pos + Len(call'.bytes)
  /\ UNCHANGED contents

\* The next byte, p unmoved.
Peek ==
  /\ call'.op = "peek"
  /\ call'.bytes = Slice(contents, pos, Min2(Left, 1))
  /\ UNCHANGED <<contents, pos>>

\* An unget of the byte just read.
Unget ==
  /\ call'.op = "unget"
  /\ pos' = pos - 1
  /\ UNCHANGED contents

\* *p++ as an lvalue, for each byte of the data, or for as many of them as the
\* answer says when there is no room for all.
Write ==
  /\ call'.op = "write"
  /\ call'.ret \in (IF Scarce THEN 0..Len(call'.bytes) ELSE {Len(call'.bytes)})
  /\ contents' = Overlay(contents, pos, First(call'.bytes, call'.ret))
  /\ pos' = pos + call'.ret

\* The three movements of p. A refused movement leaves p where it was.
Move ==
  /\ call'.op \in {"seek", "seek_end", "skip"}
  /\ pos' = IF call'.ret # 0 THEN pos
            ELSE CASE call'.op = "seek"     -> call'.num
                   [] call'.op = "seek_end" -> Len(contents)
                   [] call'.op = "skip"     -> pos + call'.num
  /\ UNCHANGED contents

\* Cut the stream, or lengthen it by bytes of any value.
Trunc ==
  /\ call'.op = "trunc"
  /\ Len(contents') = call'.num
  /\ \A i \in 1..Min2(Len(contents), call'.num) : contents'[i] = contents[i]
  /\ pos' = Min2(pos, call'.num)

\* The client takes everything and the stream starts over.
Take ==
  /\ call'.op = "take"
  /\ call'.bytes = contents
  /\ contents' = <<>> /\ pos' = 0

\* Bytes already buffered for reading are given up: p moves over them.
Purge ==
  /\ call'.op = "purge"
  /\ pos' \in pos..(pos + Left)
  /\ UNCHANGED contents

\* Closing keeps all that was written to a file; a memory stream is gone.
Close ==
  /\ call'.op = "close"
  /\ contents' = IF Durable THEN contents ELSE <<>>
  /\ pos' \in Int

\* Opening again: at the start, of the same bytes unless they are truncated, or
\* of whatever a memory stream is made with.
Reopen ==
  /\ call'.op = "open"
  /\ pos' = 0
  /\ Durable => contents' \in {contents, <<>>}

\* Where p is.
Tell ==
  /\ call'.op = "pos" /\ call'.ret = pos
  /\ UNCHANGED <<contents, pos>>

\* Calls that change nothing a client can see of the stream.
Quiet ==
  /\ call'.op \in {"flush", "prep", "setbuf", "bufmode", "readonly", "refused"}
  /\ UNCHANGED <<contents, pos>>

Next == Read \/ ReadAll \/ Peek \/ Unget \/ Write \/ Move \/ Trunc \/ Take
          \/ Purge \/ Close \/ Reopen \/ Tell \/ Quiet

Spec == Init /\ [][Next]_vars
===============================================================================
