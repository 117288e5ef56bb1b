# A model of cclojure in TLA+

The repository holds two independent readers and read-print loops for Clojure.
The default build is the C++ program (`src/c++`); `make c` builds the older C
program (`src/c`), which stands on a library of buffered streams taken from
femtolisp (`ios.c`). There are no tests, so the reference is the code; where a
comment of a header promises something, the promise is stated as a property.

## 1. Inventory

| part | state it keeps | operations | interacts with | what makes it correct |
|---|---|---|---|---|
| `ios.c`, `ios.h` buffered streams (C) | `ios_t`: mode, state (none, reading, writing), buffer with position, valid bytes, dirty bytes and capacity, cached file position, end-of-file flag; the kernel's file and offset | open (file, memory, string, static, descriptor), read, readall, readprep, getc, peekc, ungetc, write, putc, printf, seek, seek_end, skip, pos, trunc, flush, takebuf, setbuf, bufmode, set_readonly, purge, close, copy, copyall, copyuntil, readline, getutf8, peekutf8, pututf8 | the kernel (`read`, `write`, `lseek`, with short counts, EINTR, EAGAIN and errors), the allocator, every client of the C program | a client sees an array and a pointer; nothing written is lost, repeated or put elsewhere; no access leaves the buffer; no call recurses for ever |
| `lispreader.cpp`, `numbers.cpp` reader (C++) | none between calls: the stream (position, eofbit, failbit), and the call stack with what each call has collected | `read`, a macro function for each special character, `read_number`, `read_token`, `read_delimited_list` | `std::istream`, the constructors of the values, the loop (through exceptions) | the forms of a text come out in order, each once; every loop ends at the end of the text; errors are reported |
| `repl.cpp`, `cclj.cpp` loop (C++) | none but what it printed | read, print or report, leave at the end | the reader; catches strings only | ends exactly at the end of the text |
| `var.cpp` vars (C++) | a root value and a flag per var; a stack of maps per thread, in one global map | push, deref, set | `Map::assoc`, the compiler, other threads | a binding is seen by its thread only, and the inner one wins |
| `map`, `set`, `list`, `vector` (C++) | immutable values on a shared heap; maps and sets ordered by hash code | construct, cons, first, rest, assoc, valAt, withMeta | the reader, vars, `utils::print` | old versions stay, whatever is made of them; a list prints what it counts; what is equal has one hash code |
| `symbol`, `keyword`, `namespace` (C++) | two global tables | create, findOrCreate, compareTo, `==`, hashCode | the reader, maps and sets | one keyword or namespace for a name |
| `numbers`, `string`, `character` (C++) | none: values | compareTo, `==`, hashCode, print | maps and sets, the reader | an order; equal objects hash alike |
| `compiler.cpp`, `runtime.cpp` (C++) | a counter | a stub of `eval`, `nextId`, `seq`, `first` | vars | - |
| `lispreader.c`, `repl.c`, `clojure.c` (C) | `readerstate_t`: stream, value stack, jump buffer | the same reader, with lists, strings, numbers and symbols only | `ios_getc`, `ios_ungetc`, `_eof`; errors by `longjmp` | as for C++ |
| `types.c` (C) | trees of namespaces and symbols | constructors of values, printing, `symbol`, `namespace` | the C reader | one symbol for a name |
| `utf8.c`, `utf8.cpp` | none | encode, decode, move an index, count, search, turn, escape, validate | streams, strings | characters only: whatever their lengths in bytes, there and back |
| `timefuncs.c`, `utils.h`, `dtypes.h`, `llt.h` | none | calls of the system, macros | - | - |

What is hard in this code is not concurrency (both programs are one thread: no
code starts another, though `var.cpp` prepares for them) but long protocols: a
buffer shared by reading and writing, whose meaning depends on a state that every
call may change; characters put back into a stream whose two end flags do not
move together; errors that leave nested calls and resume in the middle of a
line. `PROJECT.json` lists the hazards with their lines.

## 2. Modules

| module | what it is |
|---|---|
| `Bytes` | byte strings and C positions: `Overlay` is `memcpy` at a position |
| `ByteStream` | abstract specification: what `ios.h` promises a client, an array and a pointer `p`, each call a sequence of `*p++` |
| `Ios` | one stream of `ios.c`: the variable `s` is the `ios_t` and the kernel's side of its descriptor, `call` the last call and its answer; one action for each call of `ios.h` |
| `Bytes_proofs` | lemmas: what copying, cutting and joining byte strings leaves at each position |
| `Ios_proofs` | proofs in five parts: types and bounds for any client, and a lemma for each internal function; memory streams implement `ByteStream`; what dutiful clients get when I/O and allocation fail: dirty bytes are valid, no call is stuck, a flush that answers 0 has written; files and pipes that work implement `ByteStream`, and buffer, end flag and lines agree with the file; streams that are only written |
| `MCIos` | values of the constants for TLC |
| `IosCalls`, `MCIosCalls` | the calls of `ios.c` that are made of other calls (copies, lines, characters) over two instances of `Ios`, `from` and `to`; `job` is the call under way, one action for each stretch of it between two looks at a stream |
| `IosCalls_proofs` | copies are complete and in order, characters are taken whole, and both streams stay implementations of `ByteStream` |
| `Istream` | `std::istream` over a text, as the reader uses it (external) |
| `ReadNumber` | `read_number` as a function of what is collected and the next character, and the constructors of `numbers.cpp` |
| `LispReader` | the C++ reader and loop: `in` the stream, `stack` the calls that wait for `read()`, `todo` where control is, `val` what is returned or collected, `out` what is printed |
| `Chars`, `Lexemes` | what the two readers and the two grammars share: classes of characters, `strtoll`; the spelling of numbers and strings |
| `ClojureText` | reference definition: the forms of a text by recursive descent over positions, without stream, flags or `unget` |
| `MCReader` | the texts for TLC, and the properties that compare `LispReader` with `ClojureText` |
| `CReader` | the C reader, its loop and its constructors over a stream with `ios_getc`, `ios_ungetc` and a flag `_eof` that stays |
| `CText`, `MCCReader` | the same for the C program: its grammar, the texts and the properties |
| `LispReader_proofs`, `CReader_proofs` | the streams, stacks and answers of the two readers, for every text |
| `Utf8` | `utf8.c` as functions of bytes in memory |
| `CharText` | abstract specification: a text is a sequence of characters and an index the number of one |
| `Utf8Text` | a client of `utf8.c` with a string and an index, one action for each call; UTF-8 by its definition; the properties |
| `Persistent` | abstract specification: what the objects of the C++ program promise, immutable values said in terms of elements alone |
| `Values` | the objects themselves: `heap` holds cells, vectors and trees that point to each other, `keywords` and `namespaces` are the two tables; one action for each call |
| `MCValues` | its first objects for TLC |
| `Values_proofs` | keywords are unique; the objects implement `Persistent`, and the invariants of the run |
| `MCUtf8` | its texts for TLC |
| `Utf8_proofs` | the theorems about the codec: one character anywhere in memory, and one call of `u8_escape` on any string |
| `Utf8Text_proofs` | the routines on whole texts: `Utf8Text` implements `CharText`, `u8_isvalid` is right, and the invariants of the run |

Operators called `..._faulty` stand before the definition they would replace and
hold one plausible mistake; with it, the property named in `PROJECT.json`
(`mutants`) fails. They are used by no specification.

### Ios and the code

An action is a whole call. `ios_write` is a disjunction of its four ways through
the code (`WriteMem`, `WriteUnbuffered`, `WriteBuffered`, `WriteThrough`), each
with the turn from reading to writing that comes first (`ForWriting`) and the
flush that may happen inside. The valid bytes `buf[0..size)` are the sequence
`s.buf`, so `size` is its length. `_buf_realloc` gives the set of capacities the
buffer may get: one, or also the old one when the allocator may fail. A write to
the descriptor gets out any number of bytes when errors are admitted
(`IoErrors`) and all of them otherwise, because `_os_write_all` retries. The end
of a file is visible to `read` at once; a pipe may return fewer bytes than asked
for. `status` records what C cannot survive: `hung` when `ios_write` calls itself
with the same arguments, `corrupt` when a flush takes more dirty bytes than there
are valid ones, `lost` when `ios_takebuf` over a descriptor leaves the stream a null
pointer and its old size. A stream over a descriptor may be opened without a buffer
(`Openings`: `ios_fd` does not look whether `_buf_realloc` had one), and
`ios_readprep` reads nothing when it cannot have a larger one. `ios_vprintf` prints
into the buffer and puts a NUL behind it (`Printed`), also when it then finds that
not all fits and writes the whole again; of the valid bytes those it meets are gone.

`Client` says how the client mixes its calls. `"any"` is the comment "in general,
you can do any operation in any state" (`ios.h:21`); bounds and memory safety are
checked for it. What the header says about positions and contents is not true of
all sequences of calls, so the refinement is checked for clients that seek or
flush between reading and writing (`"seeks"`, as C demands of a `FILE`) or also
write over bytes they have buffered (`"inplace"`). The guards `MayWrite`,
`MayPrint`, `MayRead`, `MayGrow`, `MayMove` and `MayPrep` are these duties; section 6 lists
what happens without them. Every client, `"any"` too, gives `ios_setbuf` a buffer that
is not empty and has one byte more than it says (`ios_takebuf` puts a NUL there, and
`ios_ungetc` doubles a size of 0 to 0 and then writes), takes no buffer of a static
stream, and never asks `ios_bufmode` for `bm_mem`.

### IosCalls and the code

`ios_copy` and its kin look at the source, write to the target and move the source,
in a loop that other errors or the end of the source leave. Each action takes one
such step; `Move` moves the source over the whole chunk however much of it the
target took, as the code does. `ios_readline` opens a memory stream of its own: it
takes the place of `to`. A character is read with `ios_getc`, put back, prepared
(one byte short, `ios.c:901`) and decoded by the functions of `Utf8`; what
`u8_nextchar` finds behind the valid bytes is any bytes (`stale`). `ios_getc` believes
a set `_eof` unless it finds bytes that are buffered for reading, `ios_peekc` only when
nothing is buffered (`Believed`): after a line that was cut, `ios_peekutf8` may
answer a character where `ios_eof` says end of file. Between two calls
the client reads, peeks, ungets, skips, purges and closes the source, and seeks in or
locks the target.

### LispReader and the code

The macro functions call `read` recursively. A call that waits is a frame of
`stack`; an exception that the loop catches empties it (`Throw`), one that it does
not catch, or a null pointer, ends the program (`Die`). Numbers, strings and
regular expressions take a step for each `get()`; tokens, comments and characters
are loops that stop at the first character of a set and take one step. A stream
that has failed without `eofbit` makes the loops of the code spin: the model
stutters (`Spin`), so that `Finishes` and `EndReported` see it. Numbers are
computed, with `LongMax` in place of `2^63-1`; undefined behaviour (a radix below
2) is a choice of outcomes. Decimals stay as they are spelled, but what is too
large or too small for a double is out of range for `stod`, which ends the program
(`Place`; at the outermost power of ten, 308, either may happen). Maps and sets
compare keys by hash code alone (`SameHash`); `HashOf` says which codes meet. Strings are collected as their source spells them.
Letters of either case are lower case, and of the characters a text may hold, the
families use those the code tells apart.

### Values and the code

A `shared_ptr` is an index into `heap`, which only grows, as an object lives while
anything points to it. A list is a cell with a first, a rest and a count of its own;
a `std::map` or `std::set` is a sorted sequence with a lower bound (`LowerBound`,
`Insert`). Hash codes are constants: of strings and symbols what `MCValues` says, of
an object that has none of its own its place in memory. `Xored` is the `^` of C++.
`call` holds the last call and what it returned. Sorting by compareTo (keywords) and
by hash code alone (maps, sets, namespaces) are kept apart as the code keeps them.

### CReader and the code

As in `LispReader`, but only lists call `read` again, and `longjmp` (`Throw`)
leaves it. The stream is what `ios_getc` and `ios_ungetc` make of standard input:
`ungetc` clears `_eof` and stores what it is given as a byte, so `IOS_EOF` comes
back as 0xFF, once. `symbol()` answers 0 for every namespace but 0 (the test at
`types.c:123` is the wrong way round), so every token is the value `Null`. The
constructors of numbers pass `&i + strlen(i)` to memory functions, which lands on
the number or beside it depending on its length: `Answer` offers `Junk` beside the
right value. More open lists than `NStack`, `N_STACK` in the code, end in a crash,
as do empty strings. `MaxKept` bounds the forms kept of an endless list.

### Utf8 and the code

The routines are functions of memory and position; the loops of `utf8.c` are
recursive functions, and those that look at a byte after another until `isutf`
share `Start`. The client `Utf8Text` keeps the index at the start of a character,
as every call but `u8_isvalid` demands, and calls whatever it likes. Its texts are
sequences of `Chr`, the characters that `u8_charlen` knows a length of, but NUL. When it
escapes, it goes on from where `u8_escape` stopped and unescapes what it has so
far, so that a character lost between two buffers shows. `iswprint` accepts ASCII
only: neither program calls `setlocale`.

## 3. Runs

| run | question | bounds |
|---|---|---|
| `IosMem` | does a memory stream, whose allocations may fail, behave as an array and a pointer (`ByteStream`)? | inline buffer of 2 bytes, positions to 3: the buffer moves from inline to allocated and doubles |
| `IosFile` | does a line-buffered file, also modified in place? Are the dirty bytes valid, the read buffer a view of the file, the end of file true, finished lines out? | buffer of 3 bytes, file of 3 bytes, positions to 4 |
| `IosAny` | do position, valid bytes and capacity stay nested whatever a client does, with changes of mode and failing allocations? | buffer of 2 bytes, inline buffer of 1 (the code's is smaller than `IOS_BUFSIZE`, too), file of 2 bytes, positions to 2 |
| `IosErrors` | does a flush that answers 0 mean what it says when reads and writes fail part of the way? | as `IosFile`, block-buffered, positions to 3 |
| `IosCalls` | do the calls made of calls bring over every byte once and in order, say rightly whether they got all, and come back, while a pipe delivers in pieces and the target's allocations may fail? | a pipe of 4 bytes (a letter, a newline, a character of two bytes), buffer of 4, chunks of 2, inline buffer of 1, positions to 2 |
| `Reader` | are the forms of a text read as the grammar says, and does the loop end? | some 7800 texts: all of up to four pieces in the families Structure, Comments, MapsAndSets, Meeting (keys of one hash code) and Numbers_, three in Strings, two in Metadata, and some 55 cut off or broken ones |
| `CReader` | are the forms the C program knows read as its grammar says, and does its loop end? | some 4100 texts: four pieces of structure, three in strings, numbers of up to four characters alone and in a list, and 30 broken ones; stack of 4 lists |
| `Utf8` | does a client of `utf8.c` see characters only (`CharText`), is `u8_isvalid` right about every string with a byte replaced, does escaping stay in its buffer? | 238 strings: all of up to two characters among the first and last of each length and those with escape sequences of their own, and three-character ones of lengths 1, 2 and 4; escape buffers of 12 (the least allowed) and 22 bytes |
| `Values` | is every object the immutable value it promises to be, is a keyword the one of its name, does a list print what it counts? | six sets of first objects (numbers of one hash code, equal characters, strings and symbols, an empty map and a list, symbols and ratios to compare), up to 5 objects, literals of two items, vectors and maps of one |
| `IosMemWipe`, `IosRecursion`, `ReaderEnd` | the findings below | |

The bounds of the streams are small because the code compares sizes with each
other and never with a number: what matters is shorter, equal or longer than the
buffer, the free space and the rest of the file, and each case is reached with a
buffer of two or three bytes (with `MostDiv` 3 or 4 in place of 16, so that a write may
be "most of" a small buffer). Bytes in the file, bytes the client writes and
newlines are different, so a byte in the wrong place shows. `MaxSize` bounds the
position a client goes to, `MaxObjects` the objects made, and `s.off <= 2 * MaxSize` an offset that has run away.
Five objects are a list, a list made of it and one made of that, beside the first
two, which is as far as sharing and a count that goes from cell to cell reach. The
configuration of `Values` hides `call` (`VIEW`): no step reads it, and TLC checks
what a call returned (`PersistentSpec`) on every step it generates, also on those
that lead to a state it has seen. Four pieces of text are two levels of nesting with something in them, and each
family joins the pieces that one part of the reader tells apart.

Deadlock is checked but for `Values`, which ends when there is no room for more objects, for pipes and arbitrary clients, whose stream may be
closed or stuck for good, and for the readers, which stop when their programs exit.

Fairness: none in `Ios`, whose calls are up to the client; nothing is claimed to
happen eventually. `LispReader` and `CReader` have `WF_vars(Next)`: the program's
single thread goes on by itself while it has something to do, and the text is all
there. `IosCalls` has `WF_vars(CallStep)`: the thread that made a call goes on in it,
and nothing in a call waits for the client (a read of a pipe is taken to return).
`Utf8Text` and `Values` have none.

## 4. Properties

* `PointerSpec`: `Ios` implements `ByteStream` under the mapping `contents <-
  Contents(s)` (the file under the dirty part of the buffer), `pos <- Pos(s)`.
  Every answer, every byte and every movement of the position is one the array and
  pointer allow.
* `BufferBounds`, `DirtyIsValid`, `NeverStuck`: position, valid bytes and capacity
  are nested, on which the calls of `memcpy`, `read` and `write` rely; the comment
  "length of valid data in buf, >=ndirty"; no endless recursion. `BufferBounds` does
  not speak of the two accesses that go beyond the valid bytes by design, the NUL of
  `ios_takebuf` (`ios.c:601`) and the look ahead of `u8_nextchar` (`ios.c:905`).
* `BufferIsView`: the comment on `state`: a clean read buffer ends at the file
  offset and holds the bytes before it.
* `EofIsEnd`: no end of file before the last byte. `LinesGoOut`: no finished line
  waits in the buffer of a line-buffered stream. `FlushWrites`: a flush that
  answers 0 has written everything, and the position stands.
* `FromPointer`, `ToPointer`: both streams of `IosCalls` implement `ByteStream`,
  whatever the calls made of calls do to them.
* `InOrder`, `NothingLost`: at each moment of a copy, the target holds what the source
  gave from its position on, in order, and the source has moved by what was written;
  true as far as no write came up short.
* `Complete`: a copy that was not stopped by a short write, and whose source was not
  opened without a buffer (`HasBuffer`), ends with all it was asked
  for or all there was; a copy up to a delimiter ends behind the first, earlier only
  with the end of file reported, which the code also does when a line is longer than a
  refill.
* `CharacterTaken`: `ios_getutf8` passes a character whole or not at all, and where the
  buffer shows the end of the character it is the right one.
* `CallsReturn`: every call comes back.
* `PersistentSpec`: `Values` implements `Persistent` under the mapping `values <-` the
  elements, length, metadata and hash code of each object. No call changes a value
  that another holds; what each call returns is said without cells, copies and trees.
* `KeywordsUnique`: `keyword.h` promises that `:a` is one object. No two keywords have
  one name, whatever names were entered in between.
* `CountIsPrinted`: `utils::print` walks a list by its count and meets no null pointer,
  also in lists made of lists whose count `withMeta` never set.
* `EqualsHash`: what `utils::equals` calls equal has one hash code, but for characters.
* `ReadsForms`: for each clean text, what is printed is what `ClojureText` says, up
  to the first mistake, which is reported. It says nothing of what follows a
  mistake, of a comment where a form must stand, or of metadata that gives one key
  two values: the repository says nothing about them either.
* `Finishes`: every clean text, mistakes or not, is read to its end.
* `CReadsForms`, `CFinishes`: the same for the C program, whose clean texts have
  white space behind numbers; a number that was overwritten counts as itself, and a
  crash as an end.
* `TextSpec`: `Utf8Text` implements `CharText` under the mapping `text <- CharsOf`
  the bytes, `k <-` the first bytes before the index, `said <- CharsOf` what was
  escaped and unescaped again. `CharsOf` decodes by the definition of UTF-8, not by
  the tables of the code.
* `ValidMeansWellFormed`: `u8_isvalid` accepts exactly the sequences of shortest
  spellings, of up to six bytes as the code has it, among the strings that differ
  from a valid one in one byte.
* `EscapeFits`: `u8_escape` writes no more than the buffer holds, ends with a NUL,
  and gets on.

## 5. Proofs

`Ios_proofs` proves for all values of the constants that meet `IosAssumption`,
that is for every kind of stream, client, buffer size and payload, with I/O errors
and failing allocations:

* `TypeCorrect`: `Spec => []TypeOK`. No position, size or dirty count goes below
  zero and every answer is a number.
* `StaysInBuffer`: `Spec => []BufferBounds`.

`BufferBounds` is not inductive: a reallocation that fails, or one that the inline
buffer serves, gives back a capacity whose relation to the valid bytes depends on
where the buffer is. `IInv` adds the types and that an inline buffer is no larger
than `InlSize`. Each internal function has a lemma (`Put`, `Flush`, `Realloc`,
`WriteGrow`, `Drained`, ...) saying that it takes a stream with these properties to
one that has them; each action has a step that cites the lemmas of the functions it
calls. TLC checks the parts of `IInv` in `IosMem` and `IosAny`.

The other theorems about streams stand on these, and each group adds an invariant:

* `Ios_proofs`, `MemoryIsAPointer`: `Spec => PointerSpec` for memory streams. A
  step is a step of `ByteStream` only when the stream is in the state `MemView`
  describes: the end flag is set only at the end, and the byte of the last getc lies
  before the position, so that putting it back changes nothing (`Dutiful`). `MemOK`,
  that a memory stream stays one and is never stuck, needs no duties. `ReadPromise`
  and its kin say when two states make a step of `ByteStream`; each action has one
  step that shows the invariant and one that shows the promise.
* `Ios_proofs`, `DirtyStaysValid`, `NeverGetsStuck`, `FlushWritesAll`: for
  every kind of stream, with I/O errors, failing allocations and changes of mode.
  `DirtyIsValid` alone is not inductive. `Shape` says what each of the three states
  of a descriptor's stream means: while it is written all of its buffer is dirty,
  while it is read the buffer lies before the offset, and otherwise there is none;
  a pipe has nothing dirty while it is read. With it a turn from reading to writing
  finds the bytes it flushes, and no size goes below zero. `FlushWrites` is an action
  property: `FlushIs` says what is in the file when `ios_flush` answers 0, whatever
  failed before.
* `Ios_proofs`, `BufferIsTheFile`, `EofOnlyAtTheEnd`, `FinishedLinesAreOut`,
  `DescriptorIsAPointer`: descriptors that work (`Plain`). `View` is the relation of
  buffer and file: `Clean`, the bytes that are not dirty are those of the file that
  end at the offset; `Lines`, in line mode a newline in the buffer is in the file;
  `Unheld`, in mode none nothing written waits. `Remembered` ties the last getc to
  the contents. With these the contents a client sees are the file overlaid with the
  dirty bytes, its position is where the buffer is plus `bpos`, and a refill, a flush
  and a turn change neither. The last theorem then takes each action to its call of
  `ByteStream`.

`IosAssumption` asks that the inline buffer is smaller than that of a descriptor (54
and 131072 bytes in the code), that a client's buffers and a static one are not empty, and,
where allocations may fail, that the string `ios_str` copies fits inline: otherwise the
code writes into a stream that was not made. The other assumptions are these, and each one stands for a duty or a
circumstance that the code depends on:

| assumption | why |
|---|---|
| `Client # "any"` | the client seeks or flushes between reading and writing, or writes over what it has buffered: without it the findings and hazards of section 6 and `PROJECT.json` break every one of these properties |
| `~IoErrors` (`Plain`) | a read or write that fails loses its place by design; what survives is `DirtyStaysValid` and `FlushWritesAll` |
| `"none" \notin Modes` (`Plain`) | `ios_bufmode(s, bm_none)` with bytes still buffered lets later ones overtake them. A stream opened in that mode, as stderr is, is covered for pipes and clients that seek |
| `~AsksPos` (`DescriptorIsAPointer`) | `ios_pos` keeps an offset in `fpos` that later calls do not renew (a hazard listed) |
| `Modes \subseteq {"line"}` (`FinishedLinesAreOut`) | the property is about line mode |

The runs `IosMem` and `IosFile` have constants that meet them, so that the
hypotheses of every theorem hold of an instance TLC explores.

### Calls made of calls

`IosCalls_proofs` proves every safety property of `IosCalls`: `CallsTyped`, `CopiesInOrder`,
`CopiesLoseNothing`, `CopiesAreComplete`, `CharactersAreTaken`, `SourceIsAPointer` and
`TargetIsAPointer`, that is `TypeOK`, `InOrder`, `NothingLost`, `Complete`, `CharacterTaken`,
`FromPointer` and `ToPointer`. They hold for every pair of kinds, all sizes of the two
buffers, every content and allocations that fail in either stream.

None of them is inductive, since each speaks of a call that has ended or of one stream.
`IInv` has three parts, and a step is proved from one lemma on each:

* `FromInv`: the source is a window on `Initial` (`Source`: the buffer of a descriptor
  ends at the offset and is what the file has there); what the last call answered
  (`FromAnswer`, `LastByte`) and how much is filled (`Filled`) hold as long as the call
  under way needs them. The source's lemmas are its own because these calls move
  `bpos` and the end flag themselves, between two looks.
* `ToInv`: the invariant of a stream that is only written (`WInv`, the last part of
  `Ios_proofs`), with the parameters `IosCalls` gives it. `WroteSome` is all that a
  copy sees of a write: how many bytes it took, and that they are in the contents.
* `JInv`: place by place, what the call has done and has left to do. `Moved` ties its
  counts to the positions, `Laid` what the target holds to what the source gave,
  `LineOn` says that no delimiter lies in what was passed, and `CharOn` which bytes of
  a character are in the buffer wherever it ended.

`CharacterTaken` says of a character which one it is only where a character, or nothing,
starts behind it (`FollowedWell`): `ios_getutf8` looks for the end of its bytes at the
next first byte, and contents that are not UTF-8 may have none there. The sources
that `MCIosCalls` takes are texts, where this always holds; the theorem is about any
bytes. `IosCallsAssumption` asks of the constants only that they are bytes, sizes and
counts of their kinds, that a buffer has room for two bytes, and that what
`u8_wc_toutf8` writes of a character are bytes.

### Readers

`LispReader_proofs` and `CReader_proofs` prove `TypeOK` of the two readers, for every set of
texts and, in C, every `N_STACK`. These invariants are about how stream, stack and
control agree: a stream fails, or has its end flag set, only at the end of its
text, also when characters were put back and when an error left nested calls; a
collection is only read for a call that waits for one; what stands for the end of
the text never reaches a call that waits inside a form; the C stack is empty
whenever a form starts at the top. `IInv` adds what the loop of `read_string` holds
(`Loops`, `Reading`) and that every waiting call is a record of a known function
(`Calls`). One lemma says of each way in which control can go on (`Returned`, `Thrown`,
`Replaced`, ...) that it keeps `IInv`; each action has a step that shows which ways it
takes. `Texts` is any set of sequences of characters.

### Characters

`Utf8_proofs` proves of the codec, for every character that can be encoded and
every memory that holds one anywhere:

* `ReadsBack`: `u8_nextmemchar` answers the character and stops behind it.
* `PassesOver`: `u8_inc` and `u8_dec` undo each other, and the counting loops take
  one turn.
* `WritesShortest`: `u8_charlen`, `u8_seqlen` and the bytes written agree, and
  `Overlong` refuses none of them.
* `EscapeStaysInBuffer`, of every string whatsoever that ends before a first byte, and
  every buffer of more than eleven bytes: `u8_escape` never puts more than fits, the
  NUL with it, does not pass the end of the string, and gets on by at least one
  character. This is what `EscapeFits` of the run `Utf8` says of the texts there.

The argument goes by the four lengths (`One` ... `Four`): dividing by 4096 and
262144 is dividing by 64 twice and three times (`Shifts`), each byte keeps the six
bits that the division drops (`BehindKeeps`), and the offsets are what the tag bits
add up to (`Subtracted`); `StartIs` and `DecIs` say that a search for a first byte
ends at the one there is. `u8_escape` is a recursive function over the string: `PutsExist`
builds it from the end of the string on, by the least distance at which there would
be none, `EscapeUnfolds` gives its equation, `HexRow` to `WcharRow` bound the spelling of one
character (ten bytes at most), and `PutsStep` adds one character to what the
rest puts.

`Utf8Text_proofs` goes from one character to texts: `TypeCorrect`, `EscapesFit`,
`ValidIsWellFormed` and `BytesDoNotShow`, that is `TypeOK`, `EscapeFits`,
`ValidMeansWellFormed` and `Spec => TextSpec`, for texts of any length.

* `IInv` says that there are a text `t`, a number `k` of characters and an `a` no larger,
  such that the memory is `Stored(t)`, the index is `Bound(t, k)`, where the bytes of the
  first `k` characters end, what is escaped stands for characters `a + 1` to `k`
  (`Told`), and unescaping gave their bytes (`Holding`). `TypeOK` alone is not
  inductive: that the index is at a first byte does not say that the bytes behind it
  are a character. `EscapeFits` is a part of it because it speaks of the last call.
* The loops of `utf8.c` are recursive functions over positions, and TLA+ says of a
  recursive function only that it is one if there is one. `Recursion` and
  `ForwardExists` build one from the end of memory backwards, by the least position at
  which there would be none (`Climb`, `Descend` and `LeastOf` stand in for induction);
  the lemmas named `...Exists` and `...Unfolds` give each loop its equation, and the
  loop is then computed at every `Bound(t, k)`, from the last one back.
* `CharsAre`: `CharsOf(Encoded(t)) = t`, the decoder by definition reads back what the
  tables wrote. The refinement mapping rests on it.
* `Stands` says of an escape sequence which character it is for, `Told` of several that
  they are for a text: `u8_escape` puts such, whichever of its branches it takes and
  wherever the buffer ends, and `u8_unescape` turns every such into the text. A
  digit that follows a sequence of digits never reads as one more of them, because
  those that `u8_escape` writes have all the digits `u8_unescape` takes.
* `ValidIs`: whatever bytes stand before the NUL, `u8_isvalid` answers `WellFormed`; the
  check of one character (`CheckingRound`) and the definition (`WellOn`) are compared
  for each of the six lengths. Nothing is assumed of the bytes but that a NUL
  stands behind them.
* Each call has a lemma (`IncStep`, ..., `EscapeStep`) that it keeps `Holding` and is the
  step of `CharText` of that name; `Stepped` puts them together.

`Utf8Assumption` asks that texts are of such characters, that buffers for escapes are
larger than the eleven bytes `u8_escape` reserves (`utf8.h:77`: "must be at least
12"), and that `iswprint` accepts nothing outside 32 to 126.

### Objects

`Values_proofs` proves `KeywordsAreUnique`, `Spec => []KeywordsUnique`, for every set of
names, all hash functions and first objects and any number of objects.
`KeywordsUnique` is not inductive: that a search finds every keyword needs the table
to be sorted by compareTo (`Ordered`), every keyword to be in it (`Entered`), entries
to lead to keywords of their names (`Known`) and the shape of the heap
(`HeapShaped`). `CompareIsOrder` says that compareTo orders names strictly and totally,
with an empty namespace first; `LowerBoundIs` that the lower bound exists (by the
least element of a set of numbers, `WFMin`); `InsertIs` what an insertion does to a
sorted table; `MadeKeeps` that a call which makes other objects leaves all of that
true. Atoms may be anything but keywords, as `ValuesAssumption` says.

The same module proves the other properties of `Values`, for collections of any
size in any number:

* `ImplementsPersistent`: `Spec => PersistentSpec`. No call changes a value that was
  there, and each returns what `Persistent` says of the elements.
* `CountsArePrinted`, `PointersAreOlder`, `EqualsHaveOneHash`: `[]CountIsPrinted`,
  `[]TypeOK` and `[]EqualsHash`.

None of them is inductive; `PInv` is. To the invariant of the keywords it adds
`HeapOK`, which says of every object what it points to and what it counts, and
`NInv`, the same table invariant for namespaces, in the order of hash codes. The part
that matters is `Counted`: a list's rest is an older list with a count and without
metadata. `withMeta` leaves a list whose count is junk, and only because `cons` puts a
copy between, and `rest` passes over the annotated list itself, does no other list
count on that one.

A list's elements (`Chain`) and the tree of a literal (`Inserted`) are recursive
functions over data. The prover cannot use an induction theorem that takes an
operator, so `Induction` says it of a set of numbers, from the least number that is
not in it. `ChainIs` and `GrowthIs` prove with it that the recursive functions exist
and satisfy their equations; `ChainGives` that every list has as many elements as it
counts; `ChainStays` that they stay; `InsertedIs` that the tree of a literal has all
its entries or two keys were of one hash code. `OldFine` and `ValueStays` do the
frame: whatever is added, old objects keep their shape and their value. Each call has
a lemma (`MakeListKept`, ..., `NamespaceKept`) that it keeps the heap in shape and is
the step of `Persistent` of that name; `StepKept` puts them together.

`Ratio::compareTo` divides as doubles (`numbers.cpp:166`). Two different quotients of
numbers up to 2^26-1 (`MostExact`) differ by at least one part in 2^52, more than
rounding may close, so that there multiplying crosswise is the same: `Literal`
asks this of ratios, in the run and in the theorems.

The assumption on the first objects (`Literal`) is what a reader makes of small
literals: an atom has the strings or numbers of its class, a list at most one item, a
map none. Larger ones are made by calls, so that the theorems are about all of them.

### What stays with TLC

* Every liveness property (`Finishes`, `CallsReturn` and their kin): the prover has no
  rules for fairness and ENABLED.
* The comparison of the readers with their grammars (`ReadsForms`, `CReadsForms`): both
  sides are recursive over the text, the grammar with RECURSIVE operators.

Every other property of the passing runs is a theorem: their other invariants and
action properties, and the refinements of `ByteStream` (of one stream, and of each of the
two of `IosCalls`), `CharText` and `Persistent`.

## 6. What the code does that its comments do not say

Findings, with a run each:

* `IosMemWipe`: a write to a memory stream that was read before drops the whole
  contents (`ios.c:345`), though `ios.h:138-139` promises `*p++`.
* `IosRecursion`: a write after a clean read buffer was read to its end calls
  `ios_write` with the same arguments for ever (`ios.c:386`).
* `ReaderEnd`: `unget()` at the end of the text clears `eofbit` and leaves
  `failbit`, so `(a` without a newline is never reported (`lispreader.cpp:391,
  660`): the program spins.

The C reader has the same fault: it puts back the `IOS_EOF` that ended a token
(`lispreader.c:480`), which clears `_eof`: a text that ends in a token inside a list is
never reported as `EOF while reading`, and at top level never ends (`CReader`'s broken
texts contain both).

Duties of an `ios` client, met by the checked ones: not to write more than is left
in the read buffer after reading part of a file (`ios.c:380`: the data lands too
far on); not to `ios_readprep` over bytes modified in place (`ios.c:312`: `ndirty`
exceeds `size`); not to rely on `ios_pos` after a seek or skip once it was called
(`ios.c:468`: the cached offset is stale); not to lengthen a stream that said end
of file (`ios_trunc` leaves `_eof`); to seek before `ios_set_readonly`; not to print
with `ios_printf` over written bytes after moving back (`ios.c:971`: the NUL destroys the
byte behind); not to take the buffer of a stream over a descriptor (`ios.c:574-579`: the
stream is left without one, `_buf_realloc` finding the old size enough); not to go to
`bm_none` with bytes in the buffer (`ios.c:633`: later ones overtake them); to look
at the answer of a flush, since bytes that did not get out are forgotten; not to give
`ios_setbuf` a buffer smaller than the valid bytes of a file that is read
(`ios.c:616`: the unread ones are dropped).

The calls made of calls: a copy whose target takes only part of a chunk loses the rest,
as the source has moved over all of it (`ios.c:665`), and `ios_copyuntil` goes on behind
the gap; `ios_copyuntil` and `ios_readline` cut a line that one refill does not hold, or
that a pipe delivers in pieces, and set the end-of-file flag, because `avail` is 0 when
it is compared with `LINE_CHUNK_SIZE` (`ios.c:715`); `ios_getutf8` and `ios_peekutf8`
prepare one byte less than the character has (`ios.c:901`), so that at the end of the
valid bytes the last byte may be whatever the buffer held before.

The values of the C++ program: keys are compared by hash code alone (`object.cpp:53`), so
that 3 and 1/2, whose hash codes are one, are one key and `#{3 1/2}` is refused;
namespaces likewise; numbers are equal only to themselves for `utils::equals`; equal
characters hash by their addresses, so that `#{\a \a}` has both; `cons` on an empty list
gives a list with a nil behind the new item; the list that `List::withMeta` makes never
has its count set (`list.cpp:29`); `Map::assoc` does not replace a value
(`map.cpp:64`).

The reader, on texts outside the clean families (all in `Ragged`, or left out of
the families as said in `MCReader`): `0.5`, `0N` and `-8r7` are "Invalid Number";
`(0)` loses its parenthesis; `a/b` ends the program (`lispreader.cpp:683`) and
`aa/b` loses a character of its namespace (`symbol.cpp:45`); nil as a key crashes
when it is compared; metadata at the end of the text dereferences null; metadata on
metadata keeps the inner value; a comment at top level, or quoted,
is an object `noop`; `"\""` is read as a single quote; any exception that is not a
string ends the loop.

The C reader, likewise: `(1)` loses its parenthesis, `12N ` and `1.5e3` are
"Invalid number", `0.5` is 5, `40r1` and `-8r7` are 0, `36rr` is refused, `(+ 1)` is
`(+1)`, `""` crashes, and nesting is not checked against the stack
(`lispreader.c:31`).

`utf8.c`: `u8_isvalid` counts its length down by trailing bytes only, so it relies
on the NUL behind a string that ends in the middle of a sequence (`utf8.c:644`);
`u8_unescape` drops bytes above 127 where `char` is signed (`utf8.c:407`);
`u8_toucs` reads one byte more than it was given (`utf8.c:101`).

## 7. Plan

1. Done: `Bytes`, `ByteStream`, `Ios`, `MCIos`, `Ios_proofs` (streams first: they
   carry the most state and the most duties).
2. Done: `Istream`, `ReadNumber`, `LispReader`, `ClojureText`, `MCReader`.
3. Done: `CReader`, `CText`, `MCCReader`.
4. Done: `Utf8`, `CharText`, `Utf8Text`, `MCUtf8`, `Utf8_proofs`, `Utf8Text_proofs`.
5. Done: `IosCalls`, `MCIosCalls`.
6. Done: `Values`, `Persistent`, `MCValues`, `Values_proofs`.
7. Done: the proofs about streams (`Bytes_proofs`, `Ios_proofs`,
   `IosCalls_proofs`) and about the readers (`LispReader_proofs`, `CReader_proofs`).
8. Left to TLC: the comparison of the readers with their grammars, and liveness
   (section 5 says why).

Not modelled, and why: thread bindings (`var.cpp`: the first push of a thread takes
`top()` of an empty stack, which is undefined, and only a stub of `eval` that
nothing calls pushes; no code starts a thread), syntax quote (no macro calls it, and its
gensym environment is a var that nothing binds), `eval` (a stub that nothing calls),
the C program's trees of symbols (`symbol()` answers 0 before it reaches them), doubles
and patterns (compared by the library), the iterators of maps and sets, headers of
macros and portability (no state), times (calls of the system), waiting for a
descriptor (`ios.c:62-144`, taken to end), the build files, `seqs.cpp` (commented out),
the layout of printed values (no property is about it). Hash codes are not computed, so
that the wrap of their arithmetic at 2^64 does not show.
