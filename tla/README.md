# string_theory in TLA+

Models of the library's core (`src/include`, version 3.10), checked with TLC on
small instances, and theorems about them checked with TLAPS for every instance.

The library is header-only C++ and sequential: it starts no thread, takes no
lock and keeps nothing on disk.  What is hard in it is elsewhere:

- objects that are short or long and own heap memory in one case only, through
  copies, moves, self-assignment and allocations that throw;
- loops that measure in one pass and write in another, in separate code;
- one encoding that three functions walk, each written apart;
- arithmetic in `size_t` that wraps, and its conversions to signed offsets;
- errors found in the middle, when part of a result is written or handed to a stream;
- a parser of C strings that looks ahead, and numbers at the ends of their types.

A doubtful sequence of calls takes the place a doubtful interleaving has
elsewhere.

## 1. Inventory

| Part | State | Operations | Makes it correct | Modelled |
|---|---|---|---|---|
| `ST::buffer<char_T>` (`st_charbuffer.h`) | `m_chars`, `m_size`, `m_data[local_length]`, a heap block when `m_size >= local_length` | construct, copy, move, assign, clear, `allocate`, write in place, destroy | one owner for each block, none lost, contents terminated, value semantics | `Buffer`, `BufferValues`, `StringBuildProofs` |
| `ST::string_stream` (`st_stringstream.h`) | `m_chars`, `m_alloc`, `m_size`, `m_stack` | `append`, `append_char`, `operator<<`, `truncate`, `erase`, moves | as above; growth ends; the text is what was appended | `StringStream`, `StreamText`, `StringStreamProofs` |
| UTF codes (`st_utf_conv_priv.h`) | none | extract, measure, write, validate, clean up one character | moves on, stays inside, agrees with its sisters | `UtfCode`, `TextProofs` |
| UTF conversions (`st_utf_conv.h`, `_priv.h`), `string::set` | position, size, result | 13 conversions and `set`, three modes each | reads and writes inside; what Unicode says | `UtfLoops`, `UtfConv`, `Unicode`, `UtfConvProofs` |
| Codecs (`st_codecs.h`, `_priv.h`) | position, size, output | hex and base64 both ways | RFC 4648; stays in the caller's room | `Codecs`, `CodecsProofs` |
| Searches, cuts, `replace`, `split`, `tokenize` (`st_string.h`, `st_string_priv.h`) | position, output, vector | those, in three overloads each | the answer of a definition without a loop; two passes agree | `StringSearch`, `StringCalls`, `StringCallsProofs` |
| Construction, assignment, `+`, `+=`, `to_buffer` (`st_string.h`) | `m_buffer`, the call's locals | `set` in its forms, `operator+`, moves | a call that throws has changed nothing; one that returns has the right text; locals alone break | `StringBuild` (on `Buffer`), `StringBuildProofs` |
| Comparison, hash, case (`st_string.h`, `st_string_priv.h`) | none | `compare`, `compare_n`, `starts_with`, `ends_with`, `hash`, `to_upper` and the case-insensitive ones | orders; equality that hashes agree with | `StringOrder`, called in `StringCalls`; `StringCallsProofs` |
| Numbers as text (`st_format_numeric.h`, `from_int`, `to_int`, `operator<<`) | `m_buffer[]`, `m_start`, what is left of the number | `uint_formatter::format`, `to_long` and its sisters | stays in the buffer; the digits are the number's; read back as written | `Numerals`, `NumberText`, `NumberTextProofs` |
| Formatter (`st_formatter.h`, `st_format_priv.h`) | place in the format string, `format_spec`, argument index | `fetch_prefix`, `parse_format`, `apply_format`, `format_type` | ends at the terminator; literal text and arguments in order, padded as asked | `Formatter`, `FormatFields`, `FormatGrammar`, `FormatterProofs` |
| Writers (`st_format.h`, `st_stdio.h`, `st_iostream.h`) | what they have taken | `append`, `append_char`, `to_string` | the same text through all of them | `Formatter` |
| Rest of `ST::string` | `m_buffer` | accessors, views, `contains`, `fill`, overloads that forward | | no |
| `st_assert.h`, `st_config.h.in`, CMake, tests, docs | | | | no |

How they interact: a string is a `char_buffer`; `string::set` validates or
cleans what it is given and then keeps it, by a move when it can.  A conversion
allocates a `buffer` from its first pass and writes it in its second.  The
stream, the codecs, `replace` and the formatter produce a `char_buffer` that a
string takes over, without validation where the text is known to be valid.  A
format call hands the pieces of its output to a writer as it goes, so that an error
comes after part of it.  All
communication is by call and return; the only shared state is memory two
objects could both point to.

The hazards, each at its line, are in `PROJECT.json`.

## 2. Modules

**Buffer.**  Each object has `life`, `m_chars`, `m_size`; `mem` holds the
contents of every storage, the objects' own `m_data` included, and `NoStorage`
marks a free block.  A pointer is the storage it points to, so that a pointer
into another object's `m_data` (what a move of a short buffer leaves behind) is
a state of its own.  There is one action for each constructor, assignment and
`allocate`, and a second where `new` throws: `CopyAssignThrows`,
`AllocateThrows`.  `Misuse` is the step to undefined behaviour, a `delete[]` or a
read of storage that is not there; after it nothing happens.  Objects that were
moved from may be assigned, copied, cleared, moved and destroyed, and not be
written to, as the tests do.

**BufferValues** is what the header promises: objects with independent values, and for
each operation the value it gives: `Make` the one passed in, `Copy` the other object's, `Move`
the same and nobody knows what to the source, `Resize` that many characters of any kind, `Fill` of one
kind, `Put` one character changed.  `Lose` is the assignment that throws.
`Buffer!ValueSemantics` maps each object to its content, or to `Unspecified` when
it was moved from, and says that every step of `Buffer` is the one of
`BufferValues` with the same operands.

**StringStream.**  An append is a call in several steps: `Begin`, a step of
`Double` for each turn of the doubling loop, and `WriteInPlace`, `WriteGrown` or
`GrowThrows`.  `SizeMod` is the width of `size_t`.  **StreamText** is the stream
as a plain text, with an append that is asked for and then done or refused.

**UtfCode** has the functions of one character, **UtfLoops** one turn of each
measuring and each writing loop, **UtfConv** the call: `Call`, `Validate`,
`MeasureOne`, `Allocate`, `Write`, `Throw`, `AssertFails`, `Return`.  A unit is its
number; `ErrorBit` is kept as the code has it, on top of a code point.  `counted` is
a history variable, no part of the program: the sum of the first pass at each place.
**Unicode** is the reference: the encoding tables of the standard, of a character and of a text,
written without a look at the code.

**Codecs** has one call at a time: the size from the input's length and its last
two characters, then the loop, then base64's last group.  The caller's buffer may
be too small, and what was written before an error stays counted.

**StringSearch** has the operations that give an answer in one step, **StringCalls**
the calls of all of them, and the loops of `replace`, `split` and `tokenize` with one
action for each turn.  `find_in` stands for the four loops `find_cs` and `find_ci`: the
first place where the first character is and where the loop ends, by a match or
because too little is left.  The three kinds of needle (`char`, `const char *`,
`string`) are the field `kind`; they differ at embedded NULs and in
`after_first` and `after_last`.

**StringOrder** has what compares, folds case and hashes, with the signs the code
gives them: bytes are compared unsigned where case counts and as signed `char`
where it does not, a difference of sizes goes into an `int`, and a hash widens a
`char` with its sign.

**StringBuild** extends `Buffer` and composes its actions: each call of the string is a
run of phases (`CopyIn`, `Validate`, `Assign`, `Open`, `Build`, `Take`, `DropLocal`, ...)
in which the string's `m_buffer`, a `char_buffer` of the program and the call's two
locals go through the constructors, `allocate` and assignments of `Buffer`, those that
throw included.  After a throw the locals are still destroyed.  `cleaned` gives the
text `substitute_invalid` makes of each, and so says which are valid; what UTF-8 is
belongs to `UtfConv`.  In `MovedSpec` the program also writes into buffers it has
moved from, which `at()` allows.

**FormatFields** is what one argument prints under one `format_spec`, as a sequence of
calls to the writer: pieces of text, and single chars (`raw`), which the writers do
not convert.  An integer printed as a character is narrowed to an `int` first (`AsInt`), as the code
casts it; a wide text that is no Unicode (`"ill_formed"`) throws `unicode_error` from its conversion
before anything of it is printed.  **Formatter** is the call: `Literal`, `Escape`, `Reach` and `EnterField` are
the turns and ends of `fetch_prefix`, `Flag`, `PadGroup`, `Width`, `NumberGroup` and
`BadGroup` the groups of `parse_format`, `Apply` the body of `apply_format`, `MakeString`
the end of `ST::format`.  A writer that throws at a piece keeps those before it.
**FormatGrammar** has what a call owes its caller, read off the grammar of format strings
and not off the parser: `GroupsFrom` are the groups from a place on, `Settings` what they come
to, `MeaningFrom` the text and the outcome from a place on.

**Numerals** has the digits of a number in a base, the number digits are worth, and the
characters `strtol` tells apart, white space among them; the formatter's fields, its grammar and
`NumberText` share it.  **NumberText** has one action for each digit `uint_formatter` writes, the copies behind
them, and what `strtol` reads back.  `unit` and `sum` are history variables.

**MCBuffer, MCStringStream, MCUtfConv, MCCodecs, MCStringCalls, MCStringBuild,
MCFormatter, MCNumberText** give the constants their values.  Reference definitions
that a theorem is about stand in the component's module (`StringCalls`: matches as sets
of places, the text with its matches replaced, the runs of a text without a delimiter;
`Codecs`: RFC 4648 by its own arithmetic, on groups of 24 bits; `UtfConv`: `Points`, the
characters of a text, and the tables of `Unicode`; `FormatGrammar`).

**StringBuildProofs** (buffers, and strings on them), **StringStreamProofs, UtfConvProofs,
CodecsProofs, StringCallsProofs, FormatterProofs, NumberTextProofs** hold the theorems and their
proofs; **TextProofs** the lemmas they share: UTF-8 texts cut and joined, recursive functions over the
places of a text, sequences.

The definitions named `X_Something` or `XSomething` after a comment "Mutant:" are
wrong variants of `X`, each the form a plausible slip would take.  Nothing uses
them; they record which property would notice.

## 3. Runs

| Run | What it asks | Bounds |
|---|---|---|
| `buffer` | Every sequence of operations: `SoleOwner`, `NoLeak`, `Terminated`; storage is misused after an `allocate` that threw and never otherwise (`OnlyAllocateCorrupts`); every step gives its operands the values its operation says and leaves all others alone (`ValueSemantics`). | 2 buffers, 2 blocks, 2 characters, `LocalLength` 2, contents up to 3 |
| `stream` | Two streams that move, grow and fail to grow: `OneOwner`; `OnlyKnownMisuse` names the two ways to misuse memory; the text is the one appended (`TextSemantics`); the doubling loop ends (`GrowthEnds`). | 2 streams, 2 blocks, 2 characters, stack of 1, `size_t` of 3 bits, texts up to 3 |
| `utf_conversions` | All conversions in all modes: nothing read or written outside, all written, what Unicode says, the three walks of UTF-8 agree, surrogates are paired or refused where they stand (`SurrogatesJudged`), each call ends. | texts up to 3 units over boundary units, surrogates of each end in any order, 4-byte heads with every tail |
| `codecs` | The bytes of RFC 4648, back again, every other text refused, never past the caller's room. | data up to 4 bytes, texts of one and two groups, rooms 0 to 3 |
| `string_calls` | Searches, cuts, trims, sides, `split`, `tokenize`, `replace`; comparisons are orders and hashes follow equality. | all texts up to 4 characters over `A`, `a`, NUL; needles up to 2; `size_t` of 4 bits, `int` of 3, a hash of 8; words with non-ASCII characters |
| `format` | The parser stays before the terminator and ends; output and exception are those of the grammar (`InterpretsFormat`); each field is as long as asked and its number reads back (`FieldsPadded`); all writers show the same text (`WritersAgree`). | any 3 characters of 12, `{` and any 4, fields of up to 3 groups of any kind and one character each, fields made of every combination of groups; integers that fit no `int` as arguments, widths and indices, with an `int` of 22 bits and a `long` of 28; wide texts that are no Unicode; 8 chars for a float |
| `numbers` | Digits stay in the buffer, are the number's and are read back; the flags of `to_int` and its sisters. | all integers of 6 bits, `long` of 8, bases 2, 8, 10, 16, 36 to write, 0, 2, 10, 16 to read; texts up to 4 of 10 characters, NUL, tab and blank among them |
| `string_build` | A call that throws has changed nothing (`UnharmedByFailure`), one that returns has made what it says, strings being targets of themselves (`BuildsWhatItSays`); locals alone are ever broken (`OnlyLocalsBreak`). | 2 strings, 1 `char_buffer`, 3 blocks, 2 characters, texts up to 3, long from 2, four texts passed in |
| `utf_range` | expected to fail, finding 1 | 4-byte sequences |
| `string_right` | expected to fail, finding 2 | texts up to 4 |
| `string_after` | expected to fail, finding 3 | texts up to 3 |
| `string_moved` | expected to fail, finding 4 | as `string_build`, under `MovedSpec` |

Why the bounds are enough.  Two objects suffice for every operation with an
argument, and a block passes from one to the other and back; what more of them could
do is proved.  In `string_build` three buffers of the program and two locals share
three blocks, which leaves one to be given up while another is taken.
`LocalLength` 2 with sizes 0 to 3 has both sizes on each side of the limit.
Three or four bits of `size_t` are enough for a sum and a doubling that wrap, with texts
that are still short; the stream's blocks of 2 and 4 characters come before that.  The UTF units are one for each branch a function takes,
and a sequence of three crosses a cut-off lead byte with what comes next.  Base64 works on
groups of three bytes: four have a whole group, and each remainder.  Texts of
four characters hold two matches of a needle of two, overlapping ones, and
matches at both ends.  A format string of five characters has a group cut off anywhere, two groups
that set the same thing, and a number of two digits; an `int` of 22 bits holds every code point, negative ones for errors too, and numbers of seven digits wrap it.  In
`string_build` one character is a byte of a two-byte sequence, valid in pairs only, so that texts
are valid, invalid and, once replaced, longer.

Bounds in guards: `MaxSize` (contents of buffers, streams and built strings), `MaxText` (one
append), `HugeCounts` (the counts of `append_char` that make the sum wrap), `Inputs` (the texts
passed to a string), `Garbage` (what `new char[]` leaves in a block: any text in `buffer`, one in
`string_build`).  `Sensible` keeps the program of `string_build` to what C++ lets it expect: it
reads no object it has moved from, and says `assume_valid` of valid text only.
`CHECK_DEADLOCK FALSE` is in the runs whose system may stop, after undefined
behaviour or a failed assertion; the heap of a run may be used up as well.
`codecs` and `string_calls` check for deadlock.

Fairness.  `StringStream`, `UtfConv` and `Formatter` have weak fairness on the steps inside a
call: the code is sequential, and a call that has begun keeps running until it
returns, throws or aborts.  Nothing is assumed of the caller, who may never call
again.  `WriteGrown \/ GrowThrows` is fair as one: `new` returns or throws.

## 4. Findings

1. `utf8_to_utf16` aborts on a four-byte sequence above U+10FFFF
   (`st_utf_conv_priv.h:470`), in every validation mode: validation accepts it, and the
   assertion takes it for impossible.  `utf32_to_utf16` raises `out_of_range` for the
   same character.
2. `right(n)` with more characters asked for than there are returns too few
   (`st_string.h:2068`): `size() - n` is negative, and `substr` adds `size()` to it
   once more.  The tests cover `n >= 2 * size()` only.
3. `after_first(const string &)` goes on one character behind the match, whatever
   the separator's size (`st_string.h:2184`); so does `after_last` (`:2244`).
4. Strings are not immutable while a buffer they were moved from lives
   (`st_charbuffer.h:189`): after `s = std::move(b)` with two short texts, `b` points into
   `s`, has the old `size()` of `s`, and `b.at(0) = 'Q'` changes `s`.

Not findings, as nothing in the repository says otherwise, but worth knowing:

- an append of a stream's own `raw_buffer()` reads freed memory when it grows
  (`OnlyKnownMisuse`), and a moved-from stream never returns from `append`;
- `allocate` that throws leaves a buffer whose destructor deletes what it does not own
  (`OnlyAllocateCorrupts`);
- `split` with an empty splitter yields an empty piece at a NUL of the text, again
  and again until `max_splits` (`PiecesAreExact` leaves this out);
- UTF-8 that encodes surrogates is taken as valid, and UTF-16 pairs are joined in either order;
- `to_utf8` is `noexcept` and copies: when memory runs out, it ends the program (`CopyOut`);
- an argument number, a width or a precision beyond `int` wraps and is taken for another
  (`AsInt`), as `to_short` takes "70000" for 4464 with both flags set, and `{c}` prints "A" for
  0x100000041LL;
- a wide stream prints a single `char` beyond ASCII (padding, or `{c}` of a `char8_t`)
  with its sign, as another character (`WideText`);
- `hash` widens a signed `char`, so that it is FNV-1a for ASCII only;
- `compare_i` orders non-ASCII characters before ASCII, `compare` after; each is an order by
  itself (`OrdersTexts`).

## 5. Proofs

Each `*Proofs` module proves, for every value of the constants, what the runs check on a
small instance.  The argument is the same throughout: an inductive invariant, one
lemma for each action that keeps it, and the property as a consequence; two
refinements and a termination measure build on it.  `PROJECT.json` lists the theorems.

| Module | Invariant | Theorems |
|---|---|---|
| `StringBuildProofs` | `IInv` | `OwnershipExclusive`, `NothingLeaks`, `CorruptionConfined`, `ContentsTerminated`, `BuffersAreValues` |
|  | `BInv` | `StringStorageSound`, `BreakageIsLocal`, `FailureHarmless`, `BuiltAsSaid`, `StringsKeepTheirText` |
| `StringStreamProofs` | `IInv` | `StorageOwned`, `MisuseKnown`, `TextKeptByStreams` |
| `UtfConvProofs` | `IInv`, `WInv`, `TranscodedSoFar` | `ReadsStayWithin`, `WritesStayWithin`, `NothingLeftUnwritten`, `UnicodeTranscodes`, `ResultsAreValid`, `WalkersAlwaysAgree` |
| `CodecsProofs` | `CInv`, `Coded` | `RoomRespected`, `RoomFilled`, `EncodersConform`, `DecodersInvert` |
| `StringCallsProofs` | `SCInv`, `Answered`, `Replacing`, `Splitting`, `Tokening` | `ReplaceFits`, `SearchesFind`, `CutsCut`, `MatchesReplaced`, `PiecesCollected`, `TextsOrdered`, `HashesAgree` |
| `FormatterProofs` | `FInv`, `CourseInv`, `TextsInv` | `FormatNotPassed`, `FormattingAdvances`, `FormatInterpreted`, `FieldPads`, `AllWritersAgree` |
| `NumberTextProofs` | `IInv`, `TInv` | `BufferRespected`, `DigitsAreTheNumber`, `NumbersReadBack`, `FlagsTellTruth` |

**Buffers.**  The invariant is the conjunction of the properties and `Shape`, which says where
each object's pointer leads.  It is needed because `SoleOwner` alone does not say what a
short buffer points to, and `m_chars` of a moved-from one may lead anywhere; a destructor
looks at the size alone, so the invariant ties the two.  There is a lemma for each
operation and two for the ends they share, `SettleShort` and `SettleLong`.
`BuffersAreValues` is the refinement `ValueSemantics`, step by step: a constructor, a copy, a fill, an
`allocate`, a move or a write gives its operands the value `BufferValues` says for it and, because no other object owns the storage it writes
(`OthersKept`), nobody else's.  `Misuse` and the failed assignments are stutters.

**Streams.**  `IInv` ties `m_chars` to `m_alloc` (on the stack as long as the room is the stack's, in a
block of the room's size otherwise), and says of an append in progress how far the doubling
has come.  `size_t` wraps: every room the loop passes is in a set closed under wrapped
doubling that stays below half of what a `size_t` counts (`DoublingAssumption`, true of powers of two,
whose doubling wraps to 0), so that a sum that did not wrap is never taken for one that fits when it
does not.  `TextKeptByStreams` is the refinement `TextSemantics`: the turns of the loop are stutters of
`StreamText`, the write is its append, and a throw its refusal.

**Strings on buffers.**  `BInv` has the invariant of `Buffer` in it, whose lemmas are cited for each phase,
and says for each phase of each call what its two locals, the string and the program's buffer are and
hold: which of them was moved from, which holds the text to be, that a call that failed has put
nothing into the string.  `before` is what all held when the call began, so that
`FailureHarmless` and `BuiltAsSaid` compare two moments.  `StringsKeepTheirText` is an action property of
`BuildSpec`; under `MovedSpec` it fails, which is finding 4.

**UTF conversions.**  First the characters: an extract passes at least one unit and none
beyond the end, and each write stores as many units as its measure says, errors
included (`Utf8Writes`, `Utf16Writes`).  From them `PassesAgree`: at each place the
writing turn of every conversion writes what the measuring turn has counted.  The
invariant then says that the second pass stands at a place of the first and has written what
the first had counted there (`Converting`); since the counts grow, that is never more than
was allocated, and at the end all of it.

What is written is compared with `Points`, the characters `extract_utf8` finds from each place of
a text on.  `WInv` says that what has been written is a text of whole characters (`PointsOfBoth`: the characters
of two texts put together are those of each, if the first ends with a whole one), that nothing a check
has passed had a fault, and that what was written and the rest of the text repaired are together the text
repaired; `ValidatesTheSame` and `CleanedReads` tie the other two walks to `Points` at one place.
`TranscodedSoFar` is the same for a text that encodes Unicode: the loop stands behind so many of its
characters and has written the encoding of as many.  The arithmetic is in lemmas about one character:
`EncodedWhole` (what a table gives is read back as that character), `EncodedByTheTables` (what the code writes is what
the table gives), `CharacterShows` (the loop reads that character where its encoding stands in the text).

**Codecs.**  `CInv` says how much has been written at each place of the input, for each call, and
that this is the size computed beforehand when the loop is through (`Sizes`, from which `RoomRespected`
and `RoomFilled` follow).  `Coded` says what: the beginning of the text of RFC 4648; for a decoder, digits
alone so far and the beginning of whatever data the text encodes; for one that has refused, a text that is
no encoding.  The arithmetic is in lemmas about one group: `DigitsOf24` (the 24 bits of three bytes
cut into digits are what the shifts and masks of the loop give), `DecodesGroup` (and back), `B64LastIs` and
`WellFormed64Is` (what the branches behind the loop accept is padding at the end and nowhere
else).

**Searches, cuts, pieces, orders.**  `SCInv` describes the two passes of `replace`: `Run` is the row of
matches the first has met, with the place behind each and the size so far; the second pass is at a place of
the same row, and `ReplaceAssumption` keeps the sums within a `size_t`.  A call that answers in one step has
answered what its operator gives (`AnswersHold`), and the operators are compared with definitions
without a loop: a search with the least and greatest place of a match (`FindLastIs` for the loop of `find_last`,
which goes on behind each match), a cut with the piece of the text, through the wraps of `size_t`.  `Replacing`
says that what is written and what `Rewritten` makes of the rest are together the answer, `Splitting` that the
pieces so far have ended at the first splitters, `Tokening` that every run that has begun is a piece.  Orders are
proved by the least place where two texts differ, and equality of hashes by the equality of the folded texts.

**Formatter.**  The parser stands at a place of the format string in each phase, since it passes a character
only after it has seen that this is not the terminator, and `strtol` stops before one.  `FormattingAdvances` has the
measure `Remaining`: each step lowers it and it is never below -1, which is the part of `FormatEnds` that needs no
fairness.

`CourseInv` compares the parser with the grammar: what the writer has been given, followed by what the
format string means from the parser's place on (`Ahead`), is what the whole call means (`Entire`).  In
the middle of a field (`InField`) the place is that of its "{", and the settings so far are those of the groups read
so far, which followed by the groups ahead are the field's.  That each group does to `format_spec` what `Settings`
makes of one more group at the end is `SettingsAppend`, `FlagSets` and `GroupSets`; that `strtol` and the step back
behind it read the number the grammar has there is `StrtolReads`.  There is a lemma for each step of the
parser on both levels: what it does to the place in the grammar (`LiteralAhead`, `EnterAhead`, `GroupAhead`,
`FieldEndsAhead`...), and that the step keeps the invariant (`LiteralCourse` and so on).

`FieldPads` is about a call of one field.  By `FormatInterpreted` its output is what `format_type` gives, and a lemma
for each type of argument compares that with the layout asked for (`TextIs`, `NumberIs`, `DoubleIs`, `CharIs`): the digits
of a number are a numeral worth it, of no leading zero (`NumeralIs`), and the unsigned difference in `pad_size` is what is missing.

`AllWritersAgree` compares the writers.  The string writers look at the text as a whole, so `CourseInv` says what they
make of it, once repairing is known to give a sound text of bytes (`TextProofs`).  A wide stream converts each piece it
is given by itself and throws at the first it cannot, and UTF-8 may be sound as a whole and unsound cut in two.
`TextsInv` says that it is never cut there: with a sound format string and sound arguments (`SoundJob`) literal pieces
begin where a character does (`AtCharacter`) and end before a brace, padding is ASCII since one byte of a
longer character would have made the format string unsound, and what a field prints begins with a whole character.  So the calls taken
are texts of whole characters (`WellCalls`), whose characters in a row are those of the text; and a piece that is
refused has a fault that no continuation mends (`FaultStays`), so that the text is no UTF-8 and `ST::format` would throw too.

**Numbers.**  What is left of the number is below the power of two of the chars left in the
buffer, which holds after a turn because a base divides by two at least (`QuotientHalves`); and what
is left, times `unit`, plus `sum` is the magnitude, whatever way it was computed, the smallest
number's too.  `TInv` says that the digits left to write, followed by those in the buffer, are the digits of the
number all the time, so that the text is the one `Digits` gives; and that what a conversion has returned
depends on the text alone.  Where the scan of `strtol` stops is unique (`PastIs`), so that white space, a sign, the
prefix of base 16 and the digits of a base, which base 0 reads off the text, are where the scan finds them (`NumberFound`, `FoundNumber`), before the first NUL
(`NumberBeforeNul`); the worth of the digits of a number is the number (`WorthOfWritten`), and a type that holds
it gets it through the limits of `strtol` and the casts (`WithinLimits`, `Narrowed`).

**Recursion.**  The library's induction theorems cannot be used, as they take an operator.  Where a definition is a
recursive function over the places of a text (`find_last`, `Rewritten`, `Worth`, `Points`, `Encoded`) or over numbers
(`Digits`), a lemma shows that it is well defined and has
its property everywhere by the least counterexample (`WFMin`, an instance for one set).

Assumptions, all evaluated in the runs: `BufferAssumption` (`NUL` is a character, there is a local array,
addresses are distinct), `StreamAssumption` (the same for streams), `MarksAssumption` (what stands for "no text" is no
text), `DoublingAssumption`, `HugeAssumption` (the counts of `append_char` that stand for enormous ones are above half of
a `size_t`), `BuildAssumption` (strings, buffers and locals are different objects; cleaning is idempotent),
`TextsAssumption`, `TextAssumption`, `ScalarTextsAssumption` (texts of code points that are no surrogates), `CodecsAssumption`, `FormatAssumption` (texts are sequences of bytes, a C string
has no NUL in it, and a call has one of the four writers and one of the four modes), `LongAssumption` (a `long` holds at least what an `int` does), `ReplaceAssumption` (a replaced text fits in a `size_t`, which the code takes for granted),
`LengthAssumption` (a size fits in an `ST_ssize_t`, which memory guarantees), `PlaceAssumption`, `SizeAssumption`, `IntAssumption`
(the ranges of the integer types), `WidthAssumption`, `RadixAssumption`, `ReadAssumption` (powers of two, bases from 2 to 36 and 0, texts of bytes).

Model-checked only:

- liveness under fairness (`GrowthEnds`, `ConversionEnds`, `FormatEnds`), and `ENABLED` in it;
- `SurrogatesJudged`, what becomes of malformed UTF-16;
- what the C library prints: `snprintf` is a model of it, for numbers of one digit.

## 6. Left out

- Null pointers (a null format string throws at once) and the `ST_HUGE_BUFFER_SIZE`
  assertions: preconditions, tested at the head of each call.
- `wchar_t`: its conversions forward to the 16- or the 32-bit ones.
- Writes through a buffer that was moved from, in `Buffer`; `string_moved` has them.
- `snprintf` and `strtol` are the C library's: `FormatFields!snprintf` prints a number of one digit,
  which is enough for padding and for the size of the buffer; `strtol` is modelled in full, in
  the C locale: all of `isspace`, the prefixes, base 0, the limits.
- `std::abs` of the smallest integer is undefined; `NumberText` has what builds make of it, a negation that wraps.
- Bases below 2 or above 36 for `from_int`: the code divides by whatever it is given.
- `char16_t` and `char32_t` streams, which convert as wide ones do; the operators `<<` and `>>` of
  C++ streams, whose loop reads what the stream gives; write errors, which no writer looks at.
- UTF-16 and UTF-32 text given with `assume_valid` that is not valid, in `StringBuild`.
- `contains`, `fill`, views, accessors and STL conversions.
- Formatters written by the program.
- Non-ASCII splitters given as `const char *`, whose pieces are validated once more.
- The `char8_t`, `string_view` and `filesystem::path` overloads: they forward.
- The failing allocation inside a codec or `replace`: as in `operator+`, which is modelled.

## 7. Plan

1. (done) `Buffer`, `StringStream`, the UTF conversions, `Codecs`, `StringCalls`; proofs
   for `Buffer` and `UtfConv`.
2. (done) `Formatter` and its fields and writers, `NumberText` with its proofs, `StringBuild` on
   `Buffer`, `StringOrder`.
3. (done) Proofs for every component: both refinements, the answers of `StringCalls`, the
   results of `Codecs`, failures of `StringBuild`.
4. (done) Proofs of what the UTF conversions make of a text, of what a format string means, and that the
   writers agree: each invariant a run checks and expects to hold is a theorem,
   but for `SurrogatesJudged`.
5. `SurrogatesJudged` as a theorem, with `Points` for UTF-16.
6. `StreamExtract`: the loop of `operator>>` in `st_iostream.h`.
