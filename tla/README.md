# A specification of bc-core

bc-core is a C library without allocations: buffered I/O over descriptors,
vectorised operations on memory, hashing, sorting, and conversions of numbers
and times. This directory models its stateful and its boundary-ridden parts in
TLA+, and its conversions, which keep no state, as steps and functions compared
with a definition of what they should return. TLC checks the models on small
instances; the proof system TLAPS proves what matters most for every instance.

- [The system](#the-system): the components, their state and their hazards
- [The modules](#the-modules): what models what, and how
- [The runs](#the-runs): what is checked, on which bounds, and what it shows
- [The findings](#the-findings)
- [The proofs](#the-proofs): what holds for every instance, and why
- [Limits](#limits): what is only model-checked, and what is not modelled
- [The plan](#the-plan): what comes next

To check a run: `tlc -config MCWriter.cfg MCWriter.tla`; to check the proofs
of a module: `tlapm WriterProofs.tla`. `PROJECT.json` lists the runs, the source
lines behind every definition, the faults that break each property, the
hazards and the theorems.

## The system

| Component | Source (`src/`) | State it keeps | What makes it correct |
|---|---|---|---|
| Buffered writer | `io/bc_core_writer.c` | descriptor, buffer, position, sticky error | every byte is delivered once, in order; an error is never silent and never forgotten; a field is whole |
| Buffered reader | `io/bc_core_reader.c` | descriptor, buffer, two positions, end and error flags | the stream is delivered in order to any mix of calls; lines are lines; end and error are not confused |
| Copy and move | `memory/bc_core_copy.c`, `bc_core_move.c` | the kernel the constructor chose | the destination is what the source was; nothing else is touched; streaming stores are fenced |
| Fill and zero | `memory/bc_core_fill.c`, `bc_core_zero.c` | the kernel chosen | every byte of the region and no other is stored to |
| Searching | `memory/bc_core_find.c` | the kernel chosen; prepared byte masks | the first (last) occurrence, or none |
| Counting | `memory/bc_core_count.c` | `in_word_state`, which the caller carries | every occurrence, line or word once, however the text is cut |
| CPU features | `cpu/bc_core_cpu_features.c` | a cache published by one of the threads | no torn or stale result, no data race, no waiting |
| Cache sizes, thresholds | `cpu/bc_core_cache_sizes.c`, `bc_core_buffer_thresholds.c` | caches set by constructors | usable before their constructor ran |
| SHA-256 | `hash/bc_core_hash_sha256.c` | a context: state, rest of a block, length | the digest does not depend on how the message was cut |
| CRC-32C | `hash/bc_core_hash_crc32c.c` | the running value | the same for every kernel and every cut |
| Sorting | `sort/bc_core_sort_with_compare.c` | the array; a callback of the caller | sorted; and for any callback a permutation, in bounds, in bounded depth |
| Comparing, lengths, case | `memory/bc_core_compare.c`, `_equal.c`, `_length.c`, ... | none | as the byte by byte definition |
| Formatting, base64/32, hex dump, parsing, glob, time, errors | `format/`, `parse/`, `glob/`, `time/`, `error/` | none | inverse of each other, no overflow, no bytes past the capacity |

**How they interact.** The writer and the reader call bc_core_copy, the reader
bc_core_find_byte, the writer the formatters. SHA-256 calls copy and zero. Move
calls copy when the regions do not overlap. Copy, fill, find, count, SHA-256 and
CRC-32C choose a kernel in a constructor, from the CPU features. Copy and fill
take their streaming thresholds from the cached cache sizes. The kernel is the
other party of the writer and the reader; threads meet only in the CPU features.
The sort calls back into its caller.

**What is hard here.** write(2) and read(2) answer with any part of what was
asked, are interrupted, or fail between two parts (`bc_core_writer.c:16`,
`bc_core_reader.c:58`). Buffers are exactly full (`bc_core_writer.c:133`,
`bc_core_reader.c:155`). Vectors overlap each other, the head and the tail, and,
in a move or a compaction, what is still to be read (`bc_core_copy.c:206`,
`bc_core_reader.c:48`). Threads race to publish (`bc_core_cpu_features.c:74`).
Texts and messages arrive in pieces that cut a block, a word or a white space
character in two (`bc_core_count.c:380`, `bc_core_hash_sha256.c:236`). Lanes
overflow (`bc_core_count.c:81`). A comparison contradicts itself
(`bc_core_sort_with_compare.c:66`). `PROJECT.json` lists each hazard at its line,
with the properties that would catch it.

## The modules

Everywhere, the widths of vectors, blocks and lanes are constants: the code's
are 32 and 64 bytes, 64 bytes and 8 bits, the runs use 2 to 4. A definition
whose comment begins "A fault" is not part of the model: it is what its
neighbour would be if the code had a plausible bug, and exists to show that a
property notices.

**`Writer`** (over `OutputStream`). The state is the struct: `fd`,
`errorLatched`, `capacity`, `buffer` (the bytes up to `position`). Bytes are
numbered in the order in which callers hand them over, so that loss, repetition
and reordering show as numbers. An API call is a program of primitives, `bytes`,
`char`, `latch`, `flush` and `destroy`, run until one fails: a padded number is
a `char` for each padding character and a `bytes` for the digits, exactly as in
lines 185-266. Each branch of `write_bytes`, `write_char`, `flush` and `destroy`
is an action; `raw_write_all` is a loop of actions of the kernel (`WriteSome`,
`WriteInterrupted`, `WriteRefused`). Between two of these anything may happen
that the kernel can answer. `size_t` is subtracted modulo `SizeModulus`. A writer
with a descriptor is given a buffer of at least one byte; with none, `write_char`
would store outside of it (`bc_core_writer.c:164`).

**`OutputStream`** is what a writer promises: callers issue bytes, the stream
delivers the next ones in order, may break for good, and is closed, with success
only when everything was delivered. A writer without a descriptor is a stream
that never delivers and never closes.

**`InputStream`** is what a reader promises: calls ask for bytes, for exactly so
many, or for a line, and are given the next bytes of the stream, once, in order;
a read gives something unless the stream is over, an exact read everything or
the rest; a line is what lies before the next newline or the end; a failure is final. `Reader!Input` maps
the two: what was given is what was delivered, the call that is pending is the
one whose program runs, and the stream has ended when the end was latched and
the buffer of an open reader is empty, which is what `is_eof` says.

**`Reader`** runs the copy kernels of `MemoryCopy` on its own buffer, action by
action, because the regions of a compaction may overlap. The stream is a length
and the positions of its newlines; bytes are their positions. `read_exact` is the
loop over `read` of lines 113-123; `read_line` the loop of lines 133-163.

**`MemoryCopy`** models the memory as a function from addresses to the address
where the byte was at first. A vector block loads and then stores at once; blocks
that the code loads before it stores any are one set of blocks. Its phases are
the parts of a kernel: bytes, head, middle, loops, tail, and the two directions
of move. **`MemoryFill`** has the same shape, and its state is the set of offsets
stored to. Both extend **`MemoryKernel`**, the constants they share, and share no
name besides, so that one module of proofs can extend the two.

**`Find`** has a request (one of six searches), an offset and a result. A step
looks at four vectors, at one, or at a byte; what a vector sees and what the loop
over bytes sees are different definitions, `VectorHit` and `ByteHit`, as they are
different code. A byte is a pair of nibbles and the tables are sets of bits.

**`CountByte`**, **`CountLines`**, **`CountWords`** extend `CountText`, which
declares the text and the position in it; **`Count`** puts them side by side, one
function to a behaviour. A mask is a set of positions in a block; `lane` is the
accumulators with their overflow, and their sum, `LaneSum`, counts the units in
them; `spill` is `carry_ws_mask`. `CountWords` is called again and again with what
`in_word_state` was left at. What it takes for white space is a set of sequences of
bytes, of which `WordsAssumption` says what UTF-8 ensures.

**`CpuFeatures`**. Threads run the lines of `detect` one access at a time: the
structure is copied and written field by field, the flag is read and set by
atomic operations, and the claim is one compare-and-exchange. Sequential
consistency is enough to find torn copies, because the one plain structure is
ordered by a release store and an acquire load; that no plain access races is a
property, `NoDataRace`.

**`Sha256Stream`**. A hash state stands for the sequence of blocks compressed into
it; a block is a sequence of cells that are a numbered byte of the message, the
mark, a zero or a digit of the length. The compression function is not modelled.

**`Sort`**. One step per call of the comparison. An activation of the introsort is
a frame; the stack holds those that called it. The comparison is honest (by
keys), or answers anything every time.

**The conversions.** Functions without state share the variables of **`Call`**: the
call, where it is, what it has stored, and its result. **`Conversions`** makes one
call of any of them, and then the call that its caller would make next with the
result: what was encoded is decoded, what was formatted is parsed, a checksum
is continued with the rest of the bytes. Loops whose bounds or order matter are
steps, one per group, digit, piece or vector; the rest is a function.

- **`Codecs`**: base64 and base32, both alphabets of base64 being one set of
  digits. The bits of a group of bytes are regrouped into those of its digits;
  padding, the capacity, and every refusal of the decoders.
- **`HexDump`**: the offset, the digits, the gap and the characters of a line, each
  with its check against the capacity.
- **`Numbers`**: formatting of integers, hexadecimals, doubles, sizes and durations;
  parsing, with its test before each multiplication, up to `SignedMax` and
  `UnsignedMax`. A double is so many times the smallest one, 2 ^ -`Places`, and has
  `Precision` bits; every product, sum and quotient of the code is `Rounded` to the
  nearest double, an even one if there are two. `magnitude * scale + 0.5` is rounded
  once or twice (`Sums`), as a compiler may fuse it. So 4503599627370497 is shown as
  4503599627370498 with no digits after the point, 0.49999999999999994 as 1, and
  2^60 - 1 bytes as 1.00 EB, which the scaled model has counterparts of.
- **`Time`**: durations with their borrows, and conversions that refuse what does not
  fit, at scaled widths; sleeping until `nanosleep` has nothing left, interrupted or not;
  formatting and parsing around the calendar of the C library, which is taken
  as given, with its answer of -1.
- **`Glob`**: the matcher with its classes, stars and slashes, as the set of the indices
  of the text from which each rest of the pattern matches (`MatchingFrom`); and the
  language of a pattern to compare it with, read from the front, token by token
  (`Ends`), with classes that end at their first closing bracket (`ClassEnd`).
- **`Scans`**: comparisons, equality, prefixes, the length of a string by aligned
  vectors, swapping and lower case.
- **`Crc32c`**: polynomials over two elements as sets of exponents. Three streams of
  words, their combination by the constants of the code and the reduction of Barrett,
  words, bytes; the instructions by the bits they take in; and the checksum by long
  division (`CrcOf`), to compare the result with.

| Proof module | about |
|---|---|
| `WriterProofs` | `Writer`, and that it implements `OutputStream` |
| `ReaderProofs` | `Reader`, and that it implements `InputStream` |
| `MemoryProofs` | `MemoryCopy` and `MemoryFill` |
| `SortProofs`, `CountProofs` | the module of that name |
| `Sha256StreamProofs` | `Sha256Stream`, and `CpuFeatures`, which the constructor of SHA-256 asks |
| `StatelessProofs` | `Find`; and the steps of `Scans`, `Time`, `HexDump` and of the integers of `Numbers` |
| `ConversionProofs` | the steps of `Codecs`, of the other `Numbers`, of `Glob` and of `Crc32c`, and the theorems about `Conversions` |

**Fairness.** `Writer!FairSpec` is weakly fair to everything a running call and
the kernel do except being interrupted: a thread that runs goes on, and the
kernel answers in the end with something else than EINTR, which a signal, and not
the code, produces. Nobody is obliged to call. `Reader!FairSpec` says the same of
`Running`, and `Sort!FairSpec` that the program goes on and its callback returns.
`CpuFeatures!WaitFree` has its fairness inside: each thread by itself, if it is
scheduled, returns, whatever happens to the others.

## The runs

| Run | States | What it checks | Bounds, and why they are enough |
|---|---|---|---|
| `writer` | 31,699 | No byte lost while no error is latched; `true` from flush and destroy means delivered; fields are whole; an error is final; calls return; without a descriptor, what is kept is a prefix of what was handed over, all of it without an error; the writer implements `OutputStream` | Buffers of 1 to 3 bytes (and of 0 without a descriptor), pieces of 0 to 4, a width of 3, 8 bytes in all, 2 interruptions: pieces are shorter than, equal to and longer than the room and the buffer, and padding crosses a flush |
| `reader` | 321,032 | The reader implements `InputStream`: order, end, exact reads, lines, failures; the buffer holds the rest of what was received; only lines longer than the buffer are refused; calls return | A buffer of 3 bytes and every stream of 0, 2 or 5 bytes, cut in every way, one interruption: lines shorter than, of, and longer than the buffer. A copy of less than 32 bytes goes byte by byte, as in the code: that a compaction by vectors may lose bytes is left to `reader_shortline` |
| `reader_shortline` | - | The violation described below | The vectors of the code, a buffer of 41 bytes |
| `copy` | 22,554 | Copies are exact, nothing else is touched, fences, alignment | Lengths to 21 for vectors of 2 and 4: no loop, each loop, both; every alignment; overlaps of every distance |
| `fill` | 12,152 | The region and nothing else; fences | Lengths to 40, every alignment |
| `find` | 113,047 | The first, or last, occurrence | Texts of 0 to 9 letters, vectors of 2 and 4, two a step; patterns of 0 to 3 letters; all sets of four bytes of two nibbles |
| `count` | 3,677,390 | Bytes, with lanes that can overflow; lines with a pattern; words that add up over calls and blocks: each counted once | Blocks of 3. Lanes of 2 bits, filled more than twice over, and any interval of matches. All texts of up to 8 bytes of three kinds with 8 patterns, with newlines inside too. All texts of 6 bytes of five kinds, cut into calls in all ways |
| `features` | 2,892 | No torn result, no race; nobody waits | Three threads, two fields: one publishes, one detects, one copies. No symmetry, which would be unsound for the last property |
| `sha256` | 18,991 | The digest is of the padded message, whatever the pieces it came in | Blocks of 4 cells, 2 of them for the length; messages to 11 bytes in pieces of 0 to 9; contexts and the one-shot |
| `sort` | 87,312 | The result is a permutation for any comparison, and sorted for an honest one; nothing is stored outside the part, in logarithmic depth, in the end | 0 to 6 elements, 3 keys or a comparison that answers either way every time; insertion up to 2 elements, depth limits of 0, one and two partitions per binary digit (the code has two) |
| `conversions` | 254,770 | What is encoded is decoded; a dump fits its capacity or is refused; what is formatted is parsed, or shows its value to half of the last digit and the roundings of doubles; parsing refuses what overflows; arithmetic on durations is exact, and a conversion refused if it does not fit; a sleep that succeeds lasts as long as asked, whatever interrupts it; times read back; globs match their language; scans answer as byte by byte, and read no page beyond the string's; checksums are those of the polynomial, cut and combined in any way | One call each. Integers of 18 bits and their boundaries; doubles of 8 bits, the smallest 1/512, around every spacing, tie and carry, shown with 0 to 3 digits, in units of 128 bytes and 12 ns; durations of seconds of 6 ns up to their limits; vectors of 4 bytes in pages of 32; patterns of up to 4 characters; dumps of up to 5 bytes in lines of up to 3 with every capacity up to 91, more than the longest needs; codecs of up to two groups, the last of every length; streams of 16 bytes, while `KeysAssumption` verifies the constants of the code at its 1024 |
| `base32` | - | The second violation described below | Up to six bytes, so every remainder of 5 |

Runs that set `CHECK_DEADLOCK FALSE` model one call, which ends; in the others a
caller can always make another call, and a deadlock would be an error. The bounds
in the modules are `MaxIssued`, `MaxInterrupts` (Writer, Reader), `MaxMessage`
(Sha256Stream) and the sets of requests, texts and lengths.

Every property of a passing run is broken by a fault of the model; `PROJECT.json`
pairs them under `mutants`: a flush that does not latch, a compaction that moves
half of the bytes, a buffer never found full, a tail stored where the loops ended,
a missing fence, a flag published before the structure, a batch one step too
long, white space forgotten at the end of a block, a recursion into the larger
part, and so on.

## The findings

`reader_refill` moves the unread bytes to the front of their own buffer with
`bc_core_copy` (`bc_core_reader.c:48`). The public header has `bc_core_move` for
regions that overlap; `bc_core_copy` stores a vector before it loads the next, or
loads the tail after it has stored the head. If 32 bytes or more are unread and
`read_position` is smaller than a vector, later bytes are overwritten before they
are read. Run `reader_shortline` shows it with a buffer of 41 bytes and a stream
of an empty line and a line of 40 bytes: `read_line` returns the empty line, the
refill moves the 39 or 40 bytes that follow down by one, and the second line that
`read_line` returns holds bytes of another place of the stream. The test of the
refill, `tests/test_bc_core_reader.c:161`, states that lines are those of the
stream, with a buffer of 6 bytes, which are moved one by one, upwards, and so
correctly. The reader is right where the copy is: theorem `Exactness` of
`MemoryProofs` says that a compaction by a vector or more is exact, and the
theorems of `ReaderProofs` say what follows for the reader: all that it promises,
as long as every compaction is one that `bc_core_copy` bears (`CompactsSafely`),
and always with a buffer no larger than a vector, on lines shorter than one, or
without `read_line`.

`bc_core_format_base32_decode` refuses a text that ends in exactly one padding
character (`bc_core_format_base32.c:89`), but that is how the encoder ends every
text whose length is 4 modulo 5: its table of paddings has a 1 there, and the
table of the decoder an entry of four bytes that is never reached. Run `base32`
shows four bytes that do not survive the round trip. The test of the round trip,
`tests/test_bc_core_format_extensions.c:187`, uses 100 bytes, a multiple of 5;
line 141 of that file expects `MZXW6YQ=` of the encoder, and line 207 expects the
decoder to refuse one padding character.

## The proofs

Every proof is of a formula that TLC has checked on the run of its module, the
inductive invariants (`IInv`, `FillInv`, `InvConversions`) included. The assumptions are those of
the modules, which TLC evaluates:

- `WriterAssumption`, `ReaderAssumption`, `CopyAssumption`, `FillAssumption`,
  `FindAssumption`, `SortAssumption`, `TextAssumption`, `ByteAssumption`,
  `LinesAssumption`: the types of the constants, that vectors and buffers have at
  least one byte (two, for those that count) and that a pattern to count is not
  empty, as the code tests;
- `ShaAssumption`: also that the length field is smaller than a block;
- `ScansAssumption`: a page holds whole steps of the loops that look for the end of
  a string;
- `TimeAssumption`: 32 bits of nanoseconds hold a little more than two seconds, and a
  time has three seconds more in 64 bits than a year of the calendar can have, so
  that seconds that wrapped around are in no year;
- `NumbersAssumption`: the largest unsigned integer is twice the largest signed one
  and one; the next larger unit is larger; a double has 3 bits at least, and no more
  than there are places;
- `DoublesAssumption`: the powers of ten that the code multiplies up and the units of
  durations are doubles, so that only what follows is rounded; a unit of bytes is a power of two.
  Both hold of 53 bits, 10^18, 1000^3 and 1024;
- `CallsAssumption`: calls begin with what the signatures allow (`ScanCall`,
  `TimeCall`, `NumberCall`, `DumpCall`, `CodecCall`, `GlobCall`, `CrcCall`): the regions of a comparison without
  lengths of its own are of one length, integers and the fields of a time have their
  widths, what is encoded consists of bytes, a pattern and its text of characters, a finite double is one of the doubles, what is
  continued is the checksum of the pieces before; only what
  this specification has encoded itself, `DecodeEncoded`, has an origin to return to;
- `KeysAssumption`, `ReductionAssumption`: the constants of the CRC-32C are what their
  names say. The keys are the powers of x that two streams and one are long; that the
  two of the code are those of 1024 bytes is evaluated on every run. P is of
  degree 32, and x ^ 64 less the product of `Mu` and P is of a degree below 32. Both
  are facts about four numbers in the source, not hypotheses about its callers;
- `OffsetAssumption`: digits of the offset of a line tell some number of offsets apart;
- `WordsAssumption`: also what UTF-8 ensures of the white space that
  `is_unicode_ws_2byte` and `is_unicode_ws_3byte` recognise: the first byte says how
  many there are, and those that follow are neither a first byte nor a blank.

**Writer.** The properties are not inductive by themselves: they speak of
`issued`, `buffer` and `output`, and during `raw_write_all` the bytes are on the
way. `IInv` adds where every byte is (`InvWhere`): output, then what
`raw_write_all` still holds, then the piece that waits for the flush, or else the
buffer, are consecutive and end at `issued`. `InvProgram` says what is left of a
program, `InvRaw` that the kernel is asked only with a descriptor, `InvBuffer`
that the buffer is within its capacity. One lemma per action shows that it is
preserved. From `IInv` follow `TypeCorrect`, `OutputPrefix`, `NoLoss`, `Delivery`,
`MemoryPrefix`, `InBounds`, the action property `Finality`, and `Implementation`:
with the mapping of `Writer!Stream` every step is one of `OutputStream`, or
stutters. For `FieldIsWhole` a second invariant, `InvField`, keeps account of what the
program owes: with what was issued since the call started it is the field, of
any length and width, so that a call that succeeds has emitted all of it.

**Reader.** `IInv` says where each received byte is: what has not been given out
lies between the two positions in its order, and during a compaction is split
between the place it is copied to and the one it is copied from, as far as the
running copy kernel has come. The kernel's own invariant, of `MemoryProofs`, is
about addresses that hold their own name and does not fit bytes that move
again and again; so the part of a compaction (`InvCompaction`) is stated and proved
anew, block by block. It does not hold of every compaction, and this is the
finding: the theorems have the hypothesis `[]CompactsSafely`, or conclude from
something a caller can see. `SafeCompactions` proves `CompactsSafely` for buffers no
larger than a vector and for lines shorter than one, `NoLinesNoCompaction` that a
reader which is asked for no line never compacts. Under it: `HoldsTheRest`,
`InOrder`, `LongLinesRefused`, and `Implementation`, the refinement of
`InputStream`, one lemma per kind of step; `ShortLinesImplementation` and
`NoLinesImplementation` are the same without the hypothesis. The buffer may lie at
any address, `Base`, since the alignment of the copy depends on it.

**MemoryCopy.** While a call runs, what has been copied is a prefix of the
destination, or going downwards a suffix; but the head vector reaches past the
offset from which the aligned loops go on, so that `InvCopied` says that for some
`e`, at most a vector past the offset, the first `e` bytes are copied. A block
that starts at or below `e` prolongs it, whatever it copies twice: copying again
is harmless as long as the source is not disturbed, which `Safe` ensures.
`InvOverlap` says that only a move meets overlaps, in the direction that suits
them. `InvAligned` adds that the loops stand at a boundary, which the head vector
has gone up or down to. Theorems: `Exactness`, `Containment`, `Fenced`, `Aligned`,
`TypeCorrect`, for all widths, lengths, alignments and distances.

**MemoryFill.** The bytes below the offset of the loops are stored to
(`InvStored`), and when the loops are over less than a vector is missing, which
the tail closes. A lemma shows that up to four vectors, the last one aligned with
the end, cover the region. Theorems, in the same module: `Filled`, `FillFenced`.

**Sort.** The frames still to be sorted, the running one and those on the stack,
are disjoint (`InvFrames`); two elements that share none of them are in order
(`InvOrder`), so that the end, when no frame is left, is a sorted array. Each loop
adds the order inside its frame: the two sides of a partition, the prefix of an
insertion, the heap but for the element that sinks (`InvHeap`). That the root of a
heap is its largest element is an induction over offsets; it is done with the least
offset that would be a counterexample. The depth (`InvDepth`) is a product: the
length of a frame, times two for each frame below it, is at most the count.
Theorems: `Sorted` (a permutation at every step and for any comparison, in order for
an honest one), `Shallow`, `StaysInside`, `TypeCorrect`, for any count, threshold
and depth limit.

**Sha256Stream.** What was consumed of a message lies in the hash state, block by
block, and behind it in the buffer (`InvContext`), however the updates cut it;
lemmas about division show that an update leaves less than a block, and that the
padding, in one block or two, is that of the message. Theorem: `DigestCorrect`, for
blocks, length fields and cells of any size.

**Count.** What is counted is what lies before the offset, but each function has
some of it elsewhere. `InvByte`: in the lanes, none of which can overflow in the
iterations that the batch has left; the sum of the lanes is the number of pairs of a
lane and a unit in it, so that a step that adds to some lanes adds so many pairs.
`InvLines`: lines are named by the newlines before them; up to some byte, the offset
or, in a block, the last newline dealt with, the lines over are counted and the
flag is about the line that is not (`CountedTo`); the masks hold what follows.
`InvWords`: `spill` is what the white space that began before the offset takes of
the bytes behind it (`Reaches`). The lemma it rests on is `WhiteAlone`: white space
starts neither inside other white space nor twice in a place, which is where
`WordsAssumption` is needed. Theorems: `HitsCounted`, `LinesAreCounted`,
`WordsAreCounted`.

**Find.** Nothing occurs where the search has been (`InvSeen`); that the tables of
nibbles mean membership in the set, and that what vectors and byte loops see is
what occurs, are lemmas. Theorem: `FirstIsFound`.

**Scans.** Nothing differs where the loop has been, and nothing ends there
(`InvCompare`, `InvLength`), so that what stops it is the first difference, or the
end; in place, what is done is done once (`InvInPlace`). The comparison of vectors
asks for letters by signed bytes, the one of bytes by ranges: that they agree is a
lemma. The loads of a length begin at multiples of their width, and a page holds
whole steps: a step that begins in the page of a byte of the string stays in it.
Theorems: `Answers`, `StaysInPages`.

**Time.** A time stands for a number. `NormalizedIs` says that whatever is carried or
borrowed the number stays, at most wrapped around in its seconds; it rests on two
lemmas, that a division is known by its quotient and remainder, and that a sum wraps
around once however often its parts have (`WrapAdds`), which is why the borrow of
three seconds, which overflows twice in 32 bits, comes out right. Sums, the order and
the conversions follow. What a sleep has taken and what is still requested make up
the request (`InvSleep`), and what was formatted is the text of the second the time
stands for (`InvFormatted`), never of one that wrapped around (`CalendarFits`).
Theorems: `TimesAreExact`, `SleepsWhole`, `TimesReadBack`.

**Numbers.** The value so far is that of the digits passed (`InvParse`), and fits
its type: the test before the multiplication is the comparison after it
(`OverflowsIs`). A text of more digits has no smaller value (`ValueGrows`), so that
the first digit too many is reason enough to refuse the text, and leading zeros
are none. What is written is the spelling of the number (`InvWritten`), and that
has its value (`DigitsRead`), in any base. `Digits` and `ValueOf` are recursive
functions: that they exist, what they are of a number or of one digit more, and
what follows are inductions, each done with the least number that would be a
counterexample (`LeastNat`, from the well-foundedness of the numbers). Theorems:
`ParsesExactly`, `IntegersAreReadBack`.

**Number texts.** `FormatsAreRead` is about every other text that `Numbers` writes.
Fixed digits are the value, or its remainder (`LastDigitsRead`), an induction on their
number. What a double shows is not the nearest number of so many digits, as the code
rounds in binary first; the property says how far it is from that, and that it is the
nearest where nothing is rounded (`Exact`). The distance of doubles at a number is a
recursive function (`SpacesExist`, `SpacingIs`), and no more than the number divided by
2 ^ (`Precision` - 1), or the smallest double; so a rounding is off by one of the parts
of its number, or by nothing (`RoundedNear`), and leaves a double as it is
(`RoundedExact`). The four roundings, of the integer, the quotient, the product and the
sum, add up to less than five parts (`WithinTwo`, `WithinSum`, `SumNear`), of any
precision of 3 bits or more, in either of the two `Sums`; what is cut off then is less
than 1, and 0.5 of it was added (`CutNear`, `CutExact`). The text of a fraction has the
digits of the cut sum with one point in its place (`DecimalDigits`,
`FractionAfterPoint`), leading zeros included: it shows that number (`DecimalShows`), with
a sign before it and a unit behind it. `DoublesAssumption` says that the powers of ten and
the units are doubles, and that a unit of bytes is a power of two; all three hold of
the code. A unit is read from the one letter that stands for it (`UnitReads`); that
there is one that fits the value is `UnitType`. The two halves of
an escape outside the basic plane are put together by their quotient and remainder
(`PairEscapeReads`). What a text of several parts is read as follows from
`DigitsInJoined` and `ValueOfJoined`: digits of parts put together are those of one,
then those of the other. Here every function is one step, so that the property is its
own invariant.

**Codecs.** A row of numbers is a row of bits (`BitOf`), and both directions keep the
bits while they change the size of the numbers. `SameBits` says that the digits of a
group have the bits of its bytes, and zeros behind them; `BytesComeBack` that bytes
made of the bits of those digits are the bytes. A number is determined by its bits
(`MadeOfBits`), an induction on their number. What is encoded is a row of groups
(`EncodesTo`), and the padding at its end tells how long the last one was: for each of
its lengths, except for the four bytes that base32 refuses, and no digit is taken for
padding. The property is about the end of the decoding; the invariant is about the
groups so far: `InvEncode` and `InvDecode` say that the loop stands between groups, and
that so many bytes have come back, in their order. `InvDecode` also bounds what an invalid text can make
the decoder write. Theorem: `CodecsRoundTrip`, for bytes of every length.

**Glob.** The matcher recurs to the rest of the pattern, the language goes from its
front; they meet where the text is cut between two tokens. That each of the
recursive functions is what its body says is `FixedBy`: a function exists if what it
is of an argument depends on what it is of smaller ones, by a bounded measure, as
iterating the body shows (`Iterates`). What `parse_class` scans, ranges in steps of
three, ends at the first closing bracket behind the first character and has by then
tried exactly the characters named (`ScannedToEnd`, `ClassIs`), or never ends if there
is none (`NeverClosed`). One round of the matcher is one token and what it stands
for (`MatchingAt`). A text in the language has an index that both reach in each row
of tokens: the last row that has one is that of the end, and the first that of the
beginning (`MatchesLanguage`). Theorem: `GlobsAreMatched`.

**Crc32c.** Polynomials are finite sets of exponents, their sum the symmetric
difference, and the product (`Mul`) of two sets of them has the exponents that an odd number of
pairs add up to; that it distributes and is associative is shown by adding up one of the
factors term by term. The multiples of P are an ideal, and two polynomials are congruent
if their sum is in it; of degree below 32 such are equal (`SmallIsEqual`). So `Remainder`, a
long division, is the only small polynomial congruent to its argument (`RemainderIs`),
and `PowerOfX` is congruent to a power of x (`PowerOfXIs`). To take in a byte moves the
reversed register by eight exponents and adds the byte (`TakeByteIs`, and `RestIs` for the
definition of the checksum), hence what a register held before a stream is moved by the
stream's length, and what the stream gives by itself is added (`TakenMoves`). That is what the
multiplication by a key does for a stream at once; Barrett's quotient is the one whose
product with P has the upper half of its argument, so what is left is the remainder (`BarrettIs`).
Three streams then give what they give one after the other (`CombinedTakes`). The
invariant (`InvRegister`) is that the register has taken in the message so far, that of
the pieces before included. Theorem: `ChecksumsAreOfMessages`, for streams of any power of
two of bytes.

**HexDump.** A dump consists of whole lines, which show the bytes before `at`, and
all but the last are full (`InvDump`); so `at` is a multiple of the width until the
end, and a line more is a line more in the quotient of the required capacity
(`OneLineMore`). A line is at most as long as a full one (`LineIs`), and shows its
bytes in each column that it has, blanks and bars besides. Where a piece has no
room, the capacity is less than what the lines so far and a full one take, and so
less than what is required. The lengths and what is shown are recursive functions
of the pieces; that they are those of the parts put together
(`LengthOfJoined`, `ShownOfJoined`) are inductions as for numbers. Theorem:
`DumpsFit`.

The properties of scans, times, numbers, codecs, globs, checksums and dumps are of one specification, so
`InvConversions` is proved to be kept by every step of every function, those of the
other modules included.

**CpuFeatures.** At most one thread writes, none copies before it has published,
and the fields already written, or already copied, are those of the hardware.
Theorems: `NeverTorn`, `RaceFree`, `OncePublished`, for any number of threads.

## Limits

Every invariant of the passing runs is proved. Only model-checked: the property of the
run `base32`, which does not hold; and liveness (`CallsReturn`,
`WaitFree`, `Terminates`), which the prover does not reach. The general theorems of
induction have an operator for a parameter, which the installed provers cannot
instantiate; each induction has to be done for its own formula, with a least
counterexample. That is done above for positions, cardinalities, heaps, the
digits of numbers, the bits of a codec, the tokens of a glob, the pieces of a dump and
the terms of a polynomial.

Abstracted: contents of memory are addresses or numbers; cpuid answers anything;
the C library and the kernel are their interfaces. Signed overflow in the
arithmetic of times is modelled as wrapping around, which is what the builds do.
The matcher of globs takes the ends of a star in any order: the answer is the
same, and the time and the stack, which grow with the number of stars
(`bc_core_glob.c:94`), are not modelled.

Not modelled:

- what the compiler may do with undefined behaviour: a capacity of 0 with a
  descriptor (`bc_core_writer.c:164`), the registers of xgetbv;
- a finalized SHA-256 context used without a new `init`, and the lifetime of the
  view that `read_line` returns, which are the caller's affair;
- white space of several bytes cut in two by the end of a call
  (`bc_core_count.c:408`), which the interface gives no means to carry:
  `WordsCounted` excludes it;
- cache sizes and streaming thresholds: the models take any threshold, 0
  included; the order of the constructors;
- the compression function of SHA-256, the arithmetic of 32 bit words;
- the shortest text of a double, one `snprintf`;
  the calendar of the C library; the clocks, one system call each;
- secure zeroing, which differs from zeroing in what a compiler may remove;
  tables of error names; inline wrappers of compiler builtins; prefetches.

## The plan

The order so far: the writer, with its abstract specification and its proofs;
copy and move, with theirs; the reader, composed with the copy, and the abstract
specification it implements; CPU features; SHA-256; sorting; counting,
searching and filling; the conversions; and the proofs of every invariant, those
of numbers, dumps, codecs, globs and checksums, whose definitions are recursive
functions, last. No module declares a recursive operator, so that all can be proved about. Next:

1. `Dispatch`: constructors of several files in any order, with the cached
   thresholds and the kernels they publish, and calls made before and after.
