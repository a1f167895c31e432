------------------------------ MODULE UtfConv ------------------------------
(***************************************************************************)
(* The conversions of st_utf_conv.h, and the way a UTF-8 text gets into an *)
(* ST::string (string::set), as the two passes they are: one measures the  *)
(* result, the buffer is allocated, a second one writes it.  Nothing in    *)
(* the writing pass looks at the size of what it writes to: it is safe     *)
(* only as long as two loops, over separately written functions, agree on  *)
(* every input, malformed ones included.                                   *)
(***************************************************************************)
EXTENDS UtfLoops, Unicode

CONSTANTS
  Texts,       \* Texts[encoding]: the texts converted, any sequences of units
  ScalarTexts, \* texts in Unicode, to see whether one that encodes them is
               \* converted right
  NoJob        \* no conversion is under way

Encodings == {"utf8", "utf16", "utf32", "latin1"}

ASSUME TextsAssumption == \A enc \in Encodings : Texts[enc] \subseteq Seq(Nat)
ASSUME ScalarTextsAssumption == \A t \in ScalarTexts : IsScalarText(t)

(***************************************************************************)
(* The calls, by the encoding of what they read and of what they yield.    *)
(* The wchar_t ones run the loops of UTF-16 or UTF-32, whichever has units *)
(* as wide.  set is what string::set() does to a text that stays in UTF-8. *)
(***************************************************************************)
Source == [
  set |-> "utf8",
  utf16_to_utf8  |-> "utf16", utf32_to_utf8  |-> "utf32", latin_1_to_utf8   |-> "latin1",
  utf8_to_utf16  |-> "utf8",  utf32_to_utf16 |-> "utf32", latin_1_to_utf16  |-> "latin1",
  utf8_to_utf32  |-> "utf8",  utf16_to_utf32 |-> "utf16", latin_1_to_utf32  |-> "latin1",
  utf8_to_latin_1 |-> "utf8", utf16_to_latin_1 |-> "utf16", utf32_to_latin_1 |-> "utf32"]

ToUtf8   == {"set", "utf16_to_utf8", "utf32_to_utf8", "latin_1_to_utf8"}
ToUtf16  == {"utf8_to_utf16", "utf32_to_utf16", "latin_1_to_utf16"}
ToUtf32  == {"utf8_to_utf32", "utf16_to_utf32", "latin_1_to_utf32"}
ToLatin1 == {"utf8_to_latin_1", "utf16_to_latin_1", "utf32_to_latin_1"}
Calls    == ToUtf8 \cup ToUtf16 \cup ToUtf32 \cup ToLatin1

Modes == {"assume_valid", "substitute_invalid", "check_validity"}

Jobs ==
  UNION { [call : {c}, units : Texts[Source[c]],
           mode : IF Source[c] = "latin1" THEN {"assume_valid"} ELSE Modes,
           sub  : IF c \in ToLatin1 THEN BOOLEAN ELSE {TRUE}] : c \in Calls }

VARIABLES
  job,      \* the call, its text and its arguments
  phase,    \* "idle", "validate", "measure", "convert", and how it ended:
            \* "done", "thrown" or "aborted" (by ST_ASSERT)
  sp,       \* the loop's place in the text
  size,     \* what the first pass has counted, then the allocated size
  dest,     \* what the second pass has written
  error,    \* what was thrown
  counted   \* history: at the places the first pass was at, what size was

vars == <<job, phase, sp, size, dest, error, counted>>

NotAtStart == [p \in {} |-> 0]
AtStart    == [p \in {0} |-> 0]

-----------------------------------------------------------------------------
(* The loops of a call. *)

Passed(j, p) ==
  CASE j.call = "set"           -> cleanup_utf8(j.units, p).len
    [] j.call # "set" /\ Source[j.call] = "utf8"  -> extract_utf8(j.units, p).len
    [] Source[j.call] = "utf16" -> extract_utf16(j.units, p).len
    [] OTHER                    -> 1

\* The calls whose result has as many units as the text: nothing to measure.
Unmeasured == {"latin_1_to_utf16", "latin_1_to_utf32", "utf32_to_latin_1"}

Measure(j, p) ==
  LET u == j.units IN
  CASE j.call = "set"              -> Len(cleanup_utf8(u, p).units)
    [] j.call = "utf16_to_utf8"    -> utf8_measure_from_utf16(u, p)
    [] j.call = "utf32_to_utf8"    -> utf8_measure_from_utf32(u, p)
    [] j.call = "latin_1_to_utf8"  -> utf8_measure_from_latin_1(u, p)
    [] j.call = "utf8_to_utf16"    -> utf16_measure_from_utf8(u, p)
    [] j.call = "utf32_to_utf16"   -> utf16_measure_from_utf32(u, p)
    [] j.call = "utf8_to_utf32"    -> utf32_measure_from_utf8(u, p)
    [] j.call = "utf16_to_utf32"   -> utf32_measure_from_utf16(u, p)
    [] j.call = "utf8_to_latin_1"  -> latin_1_measure_from_utf8(u, p)
    [] j.call = "utf16_to_latin_1" -> latin_1_measure_from_utf16(u, p)

Outcome(j, p) ==
  LET u == j.units IN
  CASE j.call = "set"              -> Units(cleanup_utf8(u, p).units)
    [] j.call = "utf16_to_utf8"    -> utf8_convert_from_utf16(u, p, j.mode)
    [] j.call = "utf32_to_utf8"    -> utf8_convert_from_utf32(u, p, j.mode)
    [] j.call = "latin_1_to_utf8"  -> utf8_convert_from_latin_1(u, p)
    [] j.call = "utf8_to_utf16"    -> utf16_convert_from_utf8(u, p, j.mode)
    [] j.call = "utf32_to_utf16"   -> utf16_convert_from_utf32(u, p, j.mode)
    [] j.call = "latin_1_to_utf16" -> utf16_convert_from_latin_1(u, p)
    [] j.call = "utf8_to_utf32"    -> utf32_convert_from_utf8(u, p, j.mode)
    [] j.call = "utf16_to_utf32"   -> utf32_convert_from_utf16(u, p, j.mode)
    [] j.call = "latin_1_to_utf32" -> utf32_convert_from_latin_1(u, p)
    [] j.call = "utf8_to_latin_1"  -> latin_1_convert_from_utf8(u, p, j.mode, j.sub)
    [] j.call = "utf16_to_latin_1" -> latin_1_convert_from_utf16(u, p, j.mode, j.sub)
    [] j.call = "utf32_to_latin_1" -> latin_1_convert_from_utf32(u, p, j.mode, j.sub)

-----------------------------------------------------------------------------
Init ==
  /\ job = NoJob
  /\ phase = "idle"
  /\ sp = 0 /\ size = 0
  /\ dest = <<>>
  /\ error = success
  /\ counted = NotAtStart

Call(j) ==
  /\ phase = "idle"
  /\ job' = j
  /\ phase' = IF j.call # "set" THEN "measure"
              ELSE CASE j.mode = "check_validity"     -> "validate"
                     [] j.mode = "substitute_invalid" -> "measure"
                     [] j.mode = "assume_valid"       -> "done"
  /\ dest' = IF phase' = "done" THEN j.units ELSE <<>>
  /\ size' = Len(dest')
  /\ sp' = 0
  /\ counted' = AtStart
  /\ UNCHANGED error

AtEnd == sp >= Len(job.units)

\* validate_utf8 passes a sequence, or stops.
Validate ==
  /\ phase = "validate" /\ ~AtEnd
  /\ LET v == validate_utf8(job.units, sp) IN
       /\ error' = v.error
       /\ phase' = IF v.error = success THEN phase ELSE "thrown"
       /\ sp' = IF v.error = success THEN sp + v.len ELSE sp
  /\ UNCHANGED <<job, size, dest, counted>>

\* m_buffer = init
Validated ==
  /\ phase = "validate" /\ AtEnd
  /\ phase' = "done"
  /\ dest' = job.units /\ size' = Len(job.units)
  /\ UNCHANGED <<job, sp, error, counted>>

MeasureOne ==
  /\ phase = "measure" /\ job.call \notin Unmeasured /\ ~AtEnd
  /\ sp' = sp + Passed(job, sp)
  /\ size' = size + Measure(job, sp)
  /\ counted' = [p \in DOMAIN counted \cup {sp'} |-> IF p = sp' THEN size' ELSE counted[p]]
  /\ UNCHANGED <<job, phase, dest, error>>

MeasureAll ==
  /\ phase = "measure" /\ job.call \in Unmeasured /\ ~AtEnd
  /\ sp' = Len(job.units)
  /\ size' = Len(job.units)
  /\ counted' = [p \in 0 .. Len(job.units) |-> p]
  /\ UNCHANGED <<job, phase, dest, error>>

\* An empty result is returned at once.  utf32_to_latin_1 and the clean-up
\* allocate it and run through no turn of the loop, which comes to the same.
Allocate ==
  /\ phase = "measure" /\ AtEnd
  /\ phase' = IF size = 0 THEN "done" ELSE "convert"
  /\ sp' = 0
  /\ UNCHANGED <<job, size, dest, error, counted>>

Write ==
  /\ phase = "convert" /\ ~AtEnd
  /\ Outcome(job, sp).kind = "units"
  /\ dest' = dest \o Outcome(job, sp).units
  /\ sp' = sp + Passed(job, sp)
  /\ UNCHANGED <<job, phase, size, error, counted>>

\* raise_conversion_error: the result is destroyed, half written.
Throw ==
  /\ phase = "convert" /\ ~AtEnd
  /\ Outcome(job, sp).kind = "raise"
  /\ error' = Outcome(job, sp).error
  /\ phase' = "thrown"
  /\ UNCHANGED <<job, sp, size, dest, counted>>

AssertFails ==
  /\ phase = "convert" /\ ~AtEnd
  /\ Outcome(job, sp).kind = "abort"
  /\ phase' = "aborted"
  /\ UNCHANGED <<job, sp, size, dest, error, counted>>

Finish ==
  /\ phase = "convert" /\ AtEnd
  /\ phase' = "done"
  /\ UNCHANGED <<job, sp, size, dest, error, counted>>

Return ==
  /\ phase \in {"done", "thrown"}
  /\ job' = NoJob
  /\ phase' = "idle"
  /\ sp' = 0 /\ size' = 0
  /\ dest' = <<>>
  /\ error' = success
  /\ counted' = NotAtStart

Turn == Validate \/ Validated \/ MeasureOne \/ MeasureAll \/ Allocate
        \/ Write \/ Throw \/ AssertFails \/ Finish

Next == (phase = "idle" /\ \E j \in Jobs : Call(j)) \/ Turn \/ Return

\* A call that has begun keeps running.
Spec == Init /\ [][Next]_vars /\ WF_vars(Turn)

-----------------------------------------------------------------------------
\* The loops read no unit past the end of the text, whatever is cut off
\* there: a sequence that announces more units than are left is not begun.
ReadsWithin == phase # "idle" => sp <= Len(job.units)

\* The writing loop stays inside what the measuring loop asked for, on every
\* text, in every mode, up to the place where it throws or aborts.
WritesWithin ==
  phase \in {"convert", "thrown", "aborted"} => Len(dest) <= size

\* A conversion that returns has written its whole result: no unit of the
\* buffer is left as allocate() found it.
WritesAll == phase = "done" => Len(dest) = size

Ended == phase \in {"done", "thrown", "aborted"}

Target == IF job.call \in ToUtf8 THEN "utf8"
          ELSE IF job.call \in ToUtf16 THEN "utf16"
          ELSE IF job.call \in ToUtf32 THEN "utf32"
          ELSE "latin1"

\* Text that is well-formed Unicode comes out as the Unicode standard encodes
\* the same characters, in every mode and for every pair of encodings, and
\* nothing is thrown but for characters Latin-1 lacks when the caller asks.
Transcodes ==
  Ended => \A t \in ScalarTexts :
    (/\ job.units = Encoded(Source[job.call], t)
     /\ Source[job.call] = "latin1" => \A i \in DOMAIN t : t[i] < 256) =>
    IF Target = "latin1" /\ ~job.sub /\ \E i \in DOMAIN t : t[i] > 255
    THEN phase = "thrown" /\ error = latin1_out_of_range
    ELSE phase = "done" /\ dest = Encoded(Target, t)

\* What the conversions to UTF-8 yield is what string::set() would accept:
\* from_utf16(), from_utf32(), from_wchar() and from_latin_1() store it
\* through from_validated(), without looking, in every mode.
ResultsValid ==
  phase = "done" /\ job.call \in ToUtf8 \ {"set"} => ~Faulty(Points(dest))

\* Checking means the same everywhere: a UTF-8 text that string::set()
\* accepts is one that utf8_to_utf16() and utf8_to_utf32() do not throw at,
\* and a text it throws at is one they throw at, though validate_utf8() and
\* extract_utf8() are written apart.
CheckAgrees ==
  phase \in {"done", "thrown"} /\ job.call \in {"set", "utf8_to_utf16", "utf8_to_utf32"}
    /\ job.mode = "check_validity" =>
  (phase = "thrown" <=> Faulty(Points(job.units)))

\* Substituting means the same everywhere: cleaning a text up and reading it
\* finds the characters that a conversion with substitution finds, with one
\* U+FFFD for every byte that belongs to no sequence.
SubstitutionAgrees ==
  phase = "done" /\ job.mode = "substitute_invalid" =>
  /\ job.call = "set"           => Points(dest) = Repaired(Points(job.units))
  /\ job.call = "utf8_to_utf32" => dest = Repaired(Points(job.units))

\* The three functions that walk UTF-8, written apart, find the same
\* characters and the same faults in it (st_utf_conv_priv.h:60-230).
WalkersAgree == CheckAgrees /\ SubstitutionAgrees

\* Surrogates are paired two by two from the left of a run in which high and
\* low ones alternate, in either order, and one that is left over is malformed:
\* checking throws at the texts that have one, and substituting puts U+FFFD for
\* it and keeps every character around it (st_utf_conv_priv.h:274).
SurrogatesJudged ==
  LET u == job.units
      Turns(i)  == i > 1 /\ \/ u[i - 1] \in High /\ u[i] \in Low
                            \/ u[i - 1] \in Low /\ u[i] \in High
      Second(i) == \E k \in 1 .. i : /\ (i - k) % 2 = 1 /\ ~Turns(k)
                                     /\ \A l \in k + 1 .. i : Turns(l)
      First(i)  == i < Len(u) /\ Second(i + 1)
      Alone(i)  == u[i] \in High \cup Low /\ ~First(i) /\ ~Second(i)
      Begins    == SelectSeq([i \in 1 .. Len(u) |-> i], LAMBDA i : ~Second(i))
      Shown     == [k \in DOMAIN Begins |->
                     LET i == Begins[k] IN
                     IF Alone(i) THEN 65533
                     ELSE IF ~First(i) THEN u[i]
                     ELSE IF u[i] \in High
                     THEN 65536 + (u[i] - 55296) * 1024 + (u[i + 1] - 56320)
                     ELSE 65536 + (u[i + 1] - 55296) * 1024 + (u[i] - 56320)]
  IN
  phase \in {"done", "thrown"} /\ Source[job.call] = "utf16" =>
    /\ job.mode = "check_validity" /\ error # latin1_out_of_range =>
         (phase = "thrown" <=> \E i \in 1 .. Len(u) : Alone(i))
    /\ job.mode = "substitute_invalid" /\ job.call = "utf16_to_utf32" => dest = Shown
    /\ job.mode = "substitute_invalid" /\ job.call = "utf16_to_utf8"  => Points(dest) = Shown

\* Every conversion comes to its end.
ConversionEnds == phase # "idle" ~> phase \in {"done", "thrown", "aborted"}
=============================================================================
