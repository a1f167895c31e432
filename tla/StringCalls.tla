---------------------------- MODULE StringCalls -----------------------------
(***************************************************************************)
(* Calls of the searching, cutting and comparing operations of ST::string. *)
(* Those of StringSearch.tla and StringOrder.tla give their answer in one  *)
(* step.  replace runs through the text twice, once for the size of its    *)
(* result and once for its characters; split and tokenize put one piece    *)
(* after another into a vector (st_string.h:2275-2334, 2414-2540).         *)
(*                                                                         *)
(* The texts to search are ASCII.  split checks its pieces again when it   *)
(* is given a char array that is not, which is left out.                   *)
(***************************************************************************)
EXTENDS StringOrder

CONSTANTS
  Texts,
  Rulers,       \* texts for the operations that count only
  Needles,
  Charsets,     \* for trims and tokenize: no NUL in them
  Replacements,
  Offsets,      \* where substr starts, negative from the end
  Places,       \* where find starts and find_last ends
  Limits,       \* of the number of splits
  Words,        \* texts to compare and to hash
  NoJob

Byte == 0 .. 255

ASSUME TextAssumption ==
  Texts \cup Rulers \cup Needles \cup Charsets \cup Replacements \cup Words \subseteq Seq(Byte)

\* No count of replace overflows a size_t, not even for a text each character
\* of which is replaced.  The code takes this for granted.
ASSUME ReplaceAssumption ==
  \A t \in Texts, to \in Replacements : Len(t) < SizeMod /\ Len(t) * Len(to) < SizeMod

\* A place and a limit are a size_t, an offset an ST_ssize_t, and a size fits
\* in one.
ASSUME PlaceAssumption ==
  Places \subseteq Nat /\ Limits \subseteq Nat /\ Offsets \subseteq Int
ASSUME LengthAssumption == \A t \in Texts \cup Rulers : 2 * Len(t) < SizeMod

Counts == 0 .. AUTO

Fits(j) == j.kind = "char" => Len(j.arg) = 1

FindJobs == { j \in [call : {"find", "find_last"}, text : Texts, kind : Kinds,
                     arg : Needles, n : Places, cs : BOOLEAN] : Fits(j) }

CutJobs ==
  [call : {"substr"}, text : Rulers, start : Offsets, n : Counts] \cup
  [call : {"left", "right"}, text : Rulers, n : Counts] \cup
  [call : {"trim_left", "trim_right", "trim"}, text : Texts, arg : Charsets]

SepJobs == { j \in [call : {"before_first", "after_first", "before_last", "after_last"},
                    text : Texts, kind : Kinds, arg : Needles, cs : BOOLEAN] : Fits(j) }

ReplaceJobs == [call : {"replace"}, text : Texts, arg : Needles, to : Replacements, cs : BOOLEAN]

\* A splitting character is asserted to be in '\x01' - '\x7f'.
SplitJobs == { j \in [call : {"split"}, text : Texts, kind : Kinds, arg : Needles,
                      n : Limits, cs : BOOLEAN] :
                 Fits(j) /\ (j.kind = "char" => j.arg[1] \in 1 .. 127) }

TokenJobs == [call : {"tokenize"}, text : Texts, arg : Charsets]

OrderJobs ==
  [call : {"compare_n"}, text : Words, kind : {"cstr", "string"}, arg : Words, n : Counts, cs : BOOLEAN] \cup
  [call : {"compare", "starts_with", "ends_with"}, text : Words, kind : {"cstr", "string"},
   arg : Words, cs : BOOLEAN] \cup
  [call : {"hash"}, text : Words, cs : BOOLEAN]

CaseJobs == [call : {"to_upper", "to_lower"}, text : Words]

Jobs == FindJobs \cup CutJobs \cup SepJobs \cup ReplaceJobs \cup SplitJobs \cup TokenJobs
        \cup OrderJobs \cup CaseJobs

VARIABLES
  job,
  phase,   \* "idle", "measure" and "write" in replace, "collect" in the
           \* others, "done"
  next,    \* pstart in replace, next in split and tokenize
  size,    \* outsize in replace, and in split what is left of max_splits
  found,   \* the number a search, a comparison or a hash answers
  answer,  \* the text other calls answer, and what replace has written
  pieces   \* the vector of split and tokenize

vars == <<job, phase, next, size, found, answer, pieces>>

-----------------------------------------------------------------------------
Place(j) ==
  IF j.call = "find" THEN find(j.text, j.n, Needle(j.kind, j.arg), j.cs)
  ELSE find_last(j.text, j.n, Needle(j.kind, j.arg), j.cs)

Answer(j) ==
  LET t == j.text IN
  CASE j.call = "substr"       -> substr(t, j.start, j.n)
    [] j.call = "left"         -> left(t, j.n)
    [] j.call = "right"        -> right(t, j.n)
    [] j.call = "to_upper"     -> to_upper(t)
    [] j.call = "to_lower"     -> to_lower(t)
    [] j.call = "trim_left"    -> trim_left(t, j.arg)
    [] j.call = "trim_right"   -> trim_right(t, j.arg)
    [] j.call = "trim"         -> trim(t, j.arg)
    [] j.call = "before_first" -> before_first(t, j.kind, j.arg, j.cs)
    [] j.call = "after_first"  -> after_first(t, j.kind, j.arg, j.cs)
    [] j.call = "before_last"  -> before_last(t, j.kind, j.arg, j.cs)
    [] j.call = "after_last"   -> after_last(t, j.kind, j.arg, j.cs)

Number(b) == IF b THEN 1 ELSE 0

\* starts_with and ends_with answer a bool, the others a number.
Compared(j) ==
  LET l == j.text
      r == Needle(j.kind, j.arg)
  IN  CASE j.call = "compare"     -> compare(l, r, j.cs)
        [] j.call = "compare_n"   -> compare_n(l, r, j.n, j.cs)
        [] j.call = "starts_with" -> Number(starts_with(l, r, j.cs))
        [] j.call = "ends_with"   -> Number(ends_with(l, r, j.cs))

Init ==
  /\ job = NoJob
  /\ phase = "idle"
  /\ next = 0 /\ size = 0
  /\ found = -1
  /\ answer = <<>>
  /\ pieces = <<>>

Find(j) ==
  /\ phase = "idle"
  /\ job' = j
  /\ found' = Place(j)
  /\ phase' = "done"
  /\ UNCHANGED <<next, size, answer, pieces>>

Ask(j) ==
  /\ phase = "idle"
  /\ job' = j
  /\ answer' = Answer(j)
  /\ phase' = "done"
  /\ UNCHANGED <<next, size, found, pieces>>

Order(j) ==
  /\ phase = "idle"
  /\ job' = j
  /\ found' = IF j.call = "hash" THEN hash(j.text, j.cs) ELSE Compared(j)
  /\ phase' = "done"
  /\ UNCHANGED <<next, size, answer, pieces>>

-----------------------------------------------------------------------------
\* Sizes that are equal are not measured.
CallReplace(j) ==
  /\ phase = "idle"
  /\ job' = j
  /\ size' = Len(j.text)
  /\ IF j.text = <<>> \/ j.arg = <<>>
     THEN phase' = "done" /\ answer' = j.text
     ELSE /\ phase' = IF Len(j.arg) # Len(j.to) THEN "measure" ELSE "write"
          /\ UNCHANGED answer
  /\ UNCHANGED <<next, found, pieces>>

Found == find_in(job.text, next, Len(job.text), job.arg, job.cs)

\* Mutant: the first pass also counts matches that overlap.
MeasureMatch_Overlaps ==
  /\ phase = "measure" /\ Found # -1
  /\ size' = Wrap(size + Len(job.to) - Len(job.arg))
  /\ next' = Found + 1
  /\ UNCHANGED <<job, phase, found, answer, pieces>>

MeasureMatch ==
  /\ phase = "measure" /\ Found # -1
  /\ size' = Wrap(size + Len(job.to) - Len(job.arg))
  /\ next' = Found + Len(job.arg)
  /\ UNCHANGED <<job, phase, found, answer, pieces>>

\* result.allocate(outsize), and back to the start.
Allocate ==
  /\ phase = "measure" /\ Found = -1
  /\ phase' = "write"
  /\ next' = 0
  /\ UNCHANGED <<job, size, found, answer, pieces>>

\* Mutant: the search goes on behind as many characters as were written.
WriteMatch_SkipsTo ==
  /\ phase = "write" /\ Found # -1
  /\ answer' = answer \o SubSeq(job.text, next + 1, Found) \o job.to
  /\ next' = Min({Len(job.text), Found + Len(job.to)})
  /\ UNCHANGED <<job, phase, size, found, pieces>>

WriteMatch ==
  /\ phase = "write" /\ Found # -1
  /\ answer' = answer \o SubSeq(job.text, next + 1, Found) \o job.to
  /\ next' = Found + Len(job.arg)
  /\ UNCHANGED <<job, phase, size, found, pieces>>

WriteRest ==
  /\ phase = "write" /\ Found = -1
  /\ answer' = answer \o SubSeq(job.text, next + 1, Len(job.text))
  /\ phase' = "done"
  /\ UNCHANGED <<job, next, size, found, pieces>>

-----------------------------------------------------------------------------
CallPieces(j) ==
  /\ phase = "idle"
  /\ job' = j
  /\ phase' = "collect"
  /\ size' = IF j.call = "split" THEN j.n ELSE size
  /\ UNCHANGED <<next, found, answer, pieces>>

Splitter == Needle(job.kind, job.arg)

SplitAt == find_in(job.text, next, Len(job.text), Splitter, job.cs)

\* Mutant: a match in other case does not use up one of max_splits.
SplitOne_Unlimited ==
  /\ phase = "collect" /\ job.call = "split"
  /\ size # 0 /\ SplitAt # -1
  /\ pieces' = Append(pieces, SubSeq(job.text, next + 1, SplitAt))
  /\ next' = SplitAt + Len(Splitter)
  /\ size' = IF job.cs THEN size - 1 ELSE size
  /\ UNCHANGED <<job, phase, found, answer>>

\* An empty splitter begins with its terminator: it is found at each NUL of
\* the text, and found there again.
SplitOne ==
  /\ phase = "collect" /\ job.call = "split"
  /\ size # 0 /\ SplitAt # -1
  /\ pieces' = Append(pieces, SubSeq(job.text, next + 1, SplitAt))
  /\ next' = SplitAt + Len(Splitter)
  /\ size' = size - 1
  /\ UNCHANGED <<job, phase, found, answer>>

SplitRest ==
  /\ phase = "collect" /\ job.call = "split"
  /\ size = 0 \/ SplitAt = -1
  /\ pieces' = Append(pieces, SubSeq(job.text, next + 1, Len(job.text)))
  /\ phase' = "done"
  /\ UNCHANGED <<job, next, size, found, answer>>

\* The place where the delimiters begin, from p on, and where they end.
Delimited(p) == Min({q \in p .. Len(job.text) : q = Len(job.text) \/ In(job.text, q, job.arg)})
Resumed(p)   == Min({q \in p .. Len(job.text) : q = Len(job.text) \/ ~In(job.text, q, job.arg)})

\* One turn: a token, unless the text begins with a delimiter, and the
\* delimiters behind it.
Token ==
  /\ phase = "collect" /\ job.call = "tokenize"
  /\ next # Len(job.text)
  /\ LET cur == Delimited(next) IN
       /\ pieces' = IF cur = next THEN pieces
                    ELSE Append(pieces, SubSeq(job.text, next + 1, cur))
       /\ next' = Resumed(cur)
  /\ UNCHANGED <<job, phase, size, found, answer>>

TokensDone ==
  /\ phase = "collect" /\ job.call = "tokenize"
  /\ next = Len(job.text)
  /\ phase' = "done"
  /\ UNCHANGED <<job, next, size, found, answer, pieces>>

Return ==
  /\ phase = "done"
  /\ job' = NoJob
  /\ phase' = "idle"
  /\ next' = 0 /\ size' = 0
  /\ found' = -1
  /\ answer' = <<>>
  /\ pieces' = <<>>

Next ==
  \/ phase = "idle" /\ \E j \in FindJobs : Find(j)
  \/ phase = "idle" /\ \E j \in CutJobs : Ask(j)
  \/ phase = "idle" /\ \E j \in SepJobs : Ask(j)
  \/ phase = "idle" /\ \E j \in CaseJobs : Ask(j)
  \/ phase = "idle" /\ \E j \in OrderJobs : Order(j)
  \/ phase = "idle" /\ \E j \in ReplaceJobs : CallReplace(j)
  \/ MeasureMatch \/ Allocate \/ WriteMatch \/ WriteRest
  \/ phase = "idle" /\ \E j \in SplitJobs : CallPieces(j)
  \/ phase = "idle" /\ \E j \in TokenJobs : CallPieces(j)
  \/ SplitOne \/ SplitRest \/ Token \/ TokensDone
  \/ Return

Spec == Init /\ [][Next]_vars

-----------------------------------------------------------------------------
\* replace's second pass writes what its first has counted: never more than
\* was allocated, and when it returns all of it.
WritesWhatItMeasured ==
  job # NoJob /\ job.call = "replace" =>
    /\ phase = "write" => Len(answer) <= size
    /\ phase = "done" => Len(answer) = size

-----------------------------------------------------------------------------
(* A match, and the places of all of them before ep. *)

Equal(s, t, cs) == Len(s) = Len(t) /\ \A i \in DOMAIN s : Same(s[i], t[i], cs)

Occurs(t, needle, cs, p) ==
  p + Len(needle) <= Len(t) /\ Equal(SubSeq(t, p + 1, p + Len(needle)), needle, cs)

Occurrences(t, needle, cs, from, ep) ==
  IF needle = <<>> THEN {}
  ELSE {p \in from .. ep - Len(needle) : Occurs(t, needle, cs, p)}

Lowest(set) == IF set = {} THEN -1 ELSE Min(set)
Highest(set)  == IF set = {} THEN -1 ELSE Max(set)

\* The text from each place on, each match of from replaced that is not within
\* the one before.
Rewritten(t, from, to, cs) ==
  LET rest[p \in 0 .. Len(t)] ==
        LET q == Lowest(Occurrences(t, from, cs, p, Len(t))) IN
        IF q = -1 THEN SubSeq(t, p + 1, Len(t))
        ELSE SubSeq(t, p + 1, q) \o to \o rest[q + Len(from)]
  IN  rest

Within(n, t) == IF n > Len(t) THEN Len(t) ELSE n

Done(calls) == phase = "done" /\ job.call \in calls

\* find gives the first place from its start on where the needle is, and
\* find_last the last one where it ends before max; both none for an empty
\* needle (st_string.h:1729-1939).
FindsFirstAndLast ==
  /\ Done({"find"}) =>
       found = Lowest(Occurrences(job.text, Needle(job.kind, job.arg), job.cs, job.n, Len(job.text)))
  /\ Done({"find_last"}) =>
       found = Highest(Occurrences(job.text, Needle(job.kind, job.arg), job.cs, 0, Within(job.n, job.text)))

\* substr, left and right clip what is asked for to the text, and stay in it,
\* unless the sum of start and count wraps or right is asked for more than
\* there is.
CutsClip ==
  LET max == Len(job.text) IN
  /\ Done({"substr"}) =>
       LET from == Within(IF job.start >= 0 THEN job.start ELSE Max({0, job.start + max}), job.text)
       IN  \/ answer = SubSeq(job.text, from + 1, Within(from + job.n, job.text))
           \/ from + job.n >= SizeMod /\ job.n # AUTO
  /\ Done({"left"}) => answer = SubSeq(job.text, 1, Within(job.n, job.text))
  /\ Done({"right"}) /\ job.n <= max =>
       answer = SubSeq(job.text, max - job.n + 1, max)

\* The trims take off what is in the charset, all of it and nothing else.
TrimsTight ==
  Done({"trim_left", "trim_right", "trim"}) =>
    \E cut, keep \in 0 .. Len(job.text) :
      /\ cut <= keep
      /\ answer = SubSeq(job.text, cut + 1, keep)
      /\ \A p \in 0 .. Len(job.text) - 1 : p < cut \/ p >= keep => In(job.text, p, job.arg)
      /\ cut > 0 => job.call # "trim_right"
      /\ keep < Len(job.text) => job.call # "trim_left" \/ cut = keep
      /\ answer # <<>> =>
           /\ job.call # "trim_right" => ~In(job.text, cut, job.arg)
           /\ job.call # "trim_left"  => ~In(job.text, keep - 1, job.arg)

\* Where there is a separator, before_first and after_first, and before_last
\* and after_last, give what is on both sides of it.  For a separator that is
\* a string, those that come after are in a run of their own.
SidesOfSeparator ==
  Done({"before_first", "after_first", "before_last", "after_last"})
  /\ (job.kind = "string" => Len(job.arg) = 1) =>
    LET sep   == Needle(job.kind, job.arg)
        all   == Occurrences(job.text, sep, job.cs, 0, Len(job.text))
        place == IF job.call \in {"before_first", "after_first"} THEN Lowest(all) ELSE Highest(all)
    IN  answer =
          IF place # -1
          THEN IF job.call \in {"before_first", "before_last"}
               THEN SubSeq(job.text, 1, place)
               ELSE SubSeq(job.text, place + Len(sep) + 1, Len(job.text))
          ELSE IF job.call \in {"before_first", "after_last"} THEN job.text ELSE <<>>

\* substr, left, right, the trims and the sides of a separator all cut what
\* they are asked for from the text, and nothing from beyond it
\* (st_string.h:1984-2247).
CutsAreExact == CutsClip /\ TrimsTight /\ SidesOfSeparator

\* replace puts the replacement where the first match is, and goes on behind
\* that match, to the end of the text (st_string.h:2275-2334).
ReplacesAll ==
  Done({"replace"}) => answer = Rewritten(job.text, job.arg, job.to, job.cs)[0]

\* split gives at most max_splits pieces and the rest of the text.  Each piece
\* ends where the first splitter is from its beginning on, and the next one
\* begins behind it.  An empty splitter splits nothing, in a text without a NUL.
SplitsBack ==
  Done({"split"}) /\ ~(Splitter = <<>> /\ \E i \in DOMAIN job.text : job.text[i] = NUL) =>
    \E at \in [1 .. Len(pieces) -> 0 .. Len(job.text)] :
      LET k       == Len(pieces)
          upto(i) == at[i] + Len(pieces[i])
          stop(i) == Lowest(Occurrences(job.text, Splitter, job.cs, at[i], Len(job.text)))
      IN  /\ k \in 1 .. job.n + 1
          /\ at[1] = 0 /\ upto(k) = Len(job.text)
          /\ \A i \in 1 .. k : /\ upto(i) <= Len(job.text)
                                /\ pieces[i] = SubSeq(job.text, at[i] + 1, upto(i))
          /\ \A i \in 1 .. k - 1 : stop(i) = upto(i) /\ at[i + 1] = upto(i) + Len(Splitter)
          /\ k = job.n + 1 \/ stop(k) = -1

\* The longest runs of a text without a character of the charset, from and up to.
Runs(t, charset) ==
  { pq \in (0 .. Len(t)) \X (0 .. Len(t)) :
      /\ pq[1] < pq[2]
      /\ \A p \in pq[1] .. pq[2] - 1 : ~In(t, p, charset)
      /\ pq[1] = 0 \/ In(t, pq[1] - 1, charset)
      /\ pq[2] = Len(t) \/ In(t, pq[2], charset) }

\* tokenize gives the longest runs without a delimiter, all of them and in
\* their order.
TokensAreRuns ==
  Done({"tokenize"}) =>
    \E at \in [1 .. Len(pieces) -> Runs(job.text, job.arg)] :
      /\ \A i \in 1 .. Len(pieces) : pieces[i] = SubSeq(job.text, at[i][1] + 1, at[i][2])
      /\ \A i, j \in 1 .. Len(pieces) : i < j => at[i][2] < at[j][1]
      /\ \A pq \in Runs(job.text, job.arg) : \E i \in 1 .. Len(pieces) : at[i] = pq

\* The pieces of split and tokenize lose nothing of the text but what
\* separates them (st_string.h:2414-2540).
PiecesAreExact == SplitsBack /\ TokensAreRuns

-----------------------------------------------------------------------------
(* The order of a dictionary over the bytes, or over the signed chars of the   *)
(* texts in lower case.                                                        *)

Weight(c, cs) == IF cs THEN c ELSE AsChar(cl_fast_lower(c))

Before(s, t, cs) ==
  \E i \in 1 .. Len(t) :
    /\ i <= Len(s) + 1
    /\ \A k \in 1 .. i - 1 : Weight(s[k], cs) = Weight(t[k], cs)
    /\ i <= Len(s) => Weight(s[i], cs) < Weight(t[i], cs)

\* What j compares, and whether an int holds the difference of their lengths.
LeftOf(j)  == IF j.call = "compare_n" THEN SubSeq(j.text, 1, Within(j.n, j.text)) ELSE j.text
RightOf(j) ==
  LET arg == Needle(j.kind, j.arg)
  IN  IF j.call = "compare_n" THEN SubSeq(arg, 1, Within(j.n, arg)) ELSE arg
InInt(s, t) == 2 * (Len(s) - Len(t)) < IntMod /\ 2 * (Len(t) - Len(s)) < IntMod

\* compare, compare_n and their _i forms tell which text is before the other,
\* and 0 when they are the same, for lengths whose difference an int holds;
\* starts_with and ends_with tell whether the text has that part there
\* (st_charbuffer.h:199-215, st_string.h:1573-1658, 2071-2111).
OrdersTexts ==
  /\ Done({"compare", "compare_n"}) =>
       LET l == LeftOf(job)
           r == RightOf(job)
       IN  InInt(l, r) =>
             /\ found < 0 <=> Before(l, r, job.cs)
             /\ found > 0 <=> Before(r, l, job.cs)
             /\ found = 0 <=> Equal(l, r, job.cs)
  /\ Done({"starts_with", "ends_with"}) =>
       LET part == Needle(job.kind, job.arg)
           at   == IF job.call = "starts_with" THEN 0 ELSE Len(job.text) - Len(part)
       IN  found = 1 <=> at >= 0 /\ Occurs(job.text, part, job.cs, at)

\* What equal_i takes for equal, hash_i puts in the same place, and to_lower
\* and to_upper make the same text; of what == takes for equal, so does hash;
\* all for lengths whose difference an int holds
\* (st_string.h:2384-2412, 2553-2605).
HashesFollowEquality ==
  /\ Done({"hash"}) =>
       \A t \in Words :
         InInt(job.text, t) /\ compare(job.text, t, job.cs) = 0 => hash(t, job.cs) = found
  /\ Done({"to_upper", "to_lower"}) =>
       /\ \A t \in Words : InInt(job.text, t) =>
            (compare(job.text, t, FALSE) = 0 <=>
              answer = IF job.call = "to_lower" THEN to_lower(t) ELSE to_upper(t))
       /\ hash(answer, FALSE) = hash(job.text, FALSE)
=============================================================================
