--------------------------- MODULE UtfConvProofs ---------------------------
(***************************************************************************)
(* What holds of the conversions of UtfConv.tla for every text.            *)
(*                                                                         *)
(* First, the loops stay inside the text they read and inside the buffer   *)
(* they write.  The two passes are tied together by the history variable   *)
(* counted: it holds, for every place the first pass was at, what it had   *)
(* counted there.  The second pass goes through the same places, and at    *)
(* each one has written as many units as the first one had counted.        *)
(*                                                                         *)
(* Then, what they write is right: the conversions to UTF-8 yield UTF-8,   *)
(* the three walks over UTF-8 find the same characters and faults, and     *)
(* Unicode comes out as the standard encodes it.  Each of these compares   *)
(* what was made of a text up to the loop's place with what a function     *)
(* over the whole text says; that function is unfolded by one character    *)
(* as the loop takes its turn.                                             *)
(***************************************************************************)
EXTENDS UtfConv, TextProofs

-----------------------------------------------------------------------------
(* Turns of the loops *)

\* A turn of a writing loop, if it writes, writes n units.
Writes(outcome, n) ==
  /\ outcome.units \in Seq(Nat)
  /\ outcome.kind = "units" => Len(outcome.units) = n

\* What is written in the place of an error has the length it has.
LEMMA RefuseWrites ==
  ASSUME NEW mode, NEW e, NEW s \in Seq(Nat)
  PROVE  Writes(Refuse(mode, e, s), Len(s))
BY EmptySeq DEF Writes, Refuse, Units, Raise

\* The assertion lets what was encoded through.
LEMMA AssertedWrites ==
  ASSUME NEW s \in Seq(Nat), NEW n, s # <<>> => Len(s) = n
  PROVE  Writes(AssertInRange(s), n)
BY EmptySeq DEF Writes, AssertInRange, Units, Abort

\* A conversion to Latin-1 writes a unit for each character.
LEMMA NarrowedWrites ==
  ASSUME NEW ch \in Nat, NEW sub
  PROVE  Writes(Narrowed(ch, sub), 1)
BY EmptySeq DEF Writes, Narrowed, Units, Raise, BadChar

\* The replacement character has the length the measuring functions give
\* what they find out of range.
LEMMA ReplacementsWrite ==
  ASSUME NEW mode, NEW e
  PROVE  /\ Writes(Refuse(mode, e, BadChar.utf8), 3)
         /\ Writes(Refuse(mode, e, BadChar.utf16), 1)
         /\ Writes(Refuse(mode, e, BadChar.utf32), 1)
         /\ Writes(Refuse(mode, e, BadChar.latin1), 1)
<1>1. /\ BadChar.utf8 \in Seq(Nat) /\ Len(BadChar.utf8) = 3
      /\ BadChar.utf16 \in Seq(Nat) /\ Len(BadChar.utf16) = 1
      /\ BadChar.utf32 \in Seq(Nat) /\ Len(BadChar.utf32) = 1
      /\ BadChar.latin1 \in Seq(Nat) /\ Len(BadChar.latin1) = 1
  BY DEF BadChar
<1> QED
  BY <1>1, RefuseWrites

\* A character written in UTF-8, or an error replaced, has the length
\* measured for it.
LEMMA Utf8Writes ==
  ASSUME NEW ch \in Nat, NEW mode
  PROVE  /\ Writes(IF char_error(ch) # success
                   THEN Refuse(mode, char_error(ch), BadChar.utf8)
                   ELSE AssertInRange(write_utf8(ch)), utf8_measure(ch))
         /\ Writes(IF write_utf8(ch) = <<>> THEN Refuse(mode, out_of_range, BadChar.utf8)
                   ELSE Units(write_utf8(ch)), utf8_measure(ch))
<1>1. CASE char_error(ch) # success
  <2>1. utf8_measure(ch) = 3
    BY <1>1, ErrorsOutOfRange, Utf8Measured
  <2> QED
    BY <1>1, <2>1, ReplacementsWrite, Utf8Measured DEF Writes, Units
<1>2. CASE char_error(ch) = success
  <2>1. Writes(AssertInRange(write_utf8(ch)), utf8_measure(ch))
    BY AssertedWrites, Utf8Measured
  <2> QED
    BY <1>2, <2>1, ReplacementsWrite, Utf8Measured DEF Writes, Units
<1> QED
  BY <1>1, <1>2

\* The same in UTF-16.
LEMMA Utf16Writes ==
  ASSUME NEW ch \in Nat, NEW mode
  PROVE  /\ Writes(IF char_error(ch) # success
                   THEN Refuse(mode, char_error(ch), BadChar.utf16)
                   ELSE AssertInRange(write_utf16(ch)), utf16_measure(ch))
         /\ Writes(IF write_utf16(ch) = <<>> THEN Refuse(mode, out_of_range, BadChar.utf16)
                   ELSE Units(write_utf16(ch)), utf16_measure(ch))
<1>1. CASE char_error(ch) # success
  <2>1. utf16_measure(ch) = 1
    BY <1>1, ErrorsOutOfRange, Utf16Measured
  <2> QED
    BY <1>1, <2>1, ReplacementsWrite, Utf16Measured DEF Writes, Units
<1>2. CASE char_error(ch) = success
  <2>1. Writes(AssertInRange(write_utf16(ch)), utf16_measure(ch))
    BY AssertedWrites, Utf16Measured
  <2> QED
    BY <1>2, <2>1, ReplacementsWrite, Utf16Measured DEF Writes, Units
<1> QED
  BY <1>1, <1>2

-----------------------------------------------------------------------------
(* The turns of a call *)

\* What a call converts is a text in the encoding the call reads.
LEMMA JobShape ==
  ASSUME NEW j \in Jobs
  PROVE  j.call \in Calls /\ j.units \in Seq(Nat) /\ j.mode \in Modes
<1>1. PICK c \in Calls :
        j \in [call : {c}, units : Texts[Source[c]],
              mode : IF Source[c] = "latin1" THEN {"assume_valid"} ELSE Modes,
              sub  : IF c \in ToLatin1 THEN BOOLEAN ELSE {TRUE}]
  BY DEF Jobs
<1>2. Source[c] \in Encodings
  BY <1>1 DEF Calls, ToUtf8, ToUtf16, ToUtf32, ToLatin1, Source, Encodings
<1>3. Texts[Source[c]] \subseteq Seq(Nat)
  BY <1>2, TextsAssumption
<1> QED
  BY <1>1, <1>3 DEF Modes

\* Every loop moves on, and none past the end of its text.
LEMMA LoopsMoveOn ==
  ASSUME NEW j \in Jobs, NEW p \in 0 .. Len(j.units) - 1
  PROVE  Passed(j, p) \in 1 .. Len(j.units) - p
<1>1. j.units \in Seq(Nat)
  BY JobShape
<1>2. 1 \in 1 .. Len(j.units) - p
  BY <1>1
<1> QED
  BY <1>1, <1>2, Utf8Read, Utf16Read, Utf8Cleaned DEF Passed

\* At every place of every text the two passes of a call agree: if the second
\* one writes, it writes as much as the first one has measured.
LEMMA PassesAgree ==
  ASSUME NEW j \in Jobs, NEW p \in 0 .. Len(j.units) - 1
  PROVE  Writes(Outcome(j, p), IF j.call \in Unmeasured THEN 1 ELSE Measure(j, p))
<1> DEFINE u == j.units
           out == Outcome(j, p)
           wants == IF j.call \in Unmeasured THEN 1 ELSE Measure(j, p)
<1>1. u \in Seq(Nat)
  BY JobShape
<1>2. u[p + 1] \in Nat
  <2>1. p + 1 \in 1 .. Len(u)
    BY <1>1
  <2> QED
    BY <1>1, <2>1, ElementOfSeq, Zenon
<1>3. extract_utf8(u, p).ch \in Nat
  BY <1>1, Utf8Read
<1>4. extract_utf16(u, p).ch \in Nat
  BY <1>1, Utf16Read
<1>5. cleanup_utf8(u, p).units \in Seq(Nat)
  BY <1>1, Utf8Cleaned
<1>c1. CASE j.call = "set"
  <2>1. out = Units(cleanup_utf8(u, p).units) /\ wants = Len(cleanup_utf8(u, p).units)
    BY <1>c1 DEF Outcome, Measure, Unmeasured
  <2> QED
    BY <2>1, <1>5 DEF Writes, Units
<1>c2. CASE j.call = "utf16_to_utf8"
  <2>1. out = utf8_convert_from_utf16(u, p, j.mode) /\ wants = utf8_measure_from_utf16(u, p)
    BY <1>c2 DEF Outcome, Measure, Unmeasured
  <2> QED
    BY <2>1, <1>4, Utf8Writes DEF utf8_convert_from_utf16, utf8_measure_from_utf16
<1>c3. CASE j.call = "utf32_to_utf8"
  <2>1. out = utf8_convert_from_utf32(u, p, j.mode) /\ wants = utf8_measure_from_utf32(u, p)
    BY <1>c3 DEF Outcome, Measure, Unmeasured
  <2> QED
    BY <2>1, <1>2, Utf8Writes DEF utf8_convert_from_utf32, utf8_measure_from_utf32
<1>c4. CASE j.call = "latin_1_to_utf8"
  <2>1. out = utf8_convert_from_latin_1(u, p) /\ wants = utf8_measure_from_latin_1(u, p)
    BY <1>c4 DEF Outcome, Measure, Unmeasured
  <2> QED
    <3>1. CASE u[p + 1] >= 128
      <4> DEFINE two == <<192 + Bits(u[p + 1] \div 64, 32), 128 + Bits(u[p + 1], 64)>>
      <4>1. two \in Seq(Nat) /\ Len(two) = 2
        <5>1. u[p + 1] \div 64 \in Nat
          BY <1>2
        <5> HIDE DEF u
        <5> QED
          BY <5>1, <1>2 DEF Bits
      <4> QED
        BY <2>1, <3>1, <4>1 DEF utf8_convert_from_latin_1, utf8_measure_from_latin_1,
                                 Writes, Units
    <3>2. CASE ~(u[p + 1] >= 128)
      BY <2>1, <3>2, <1>2 DEF utf8_convert_from_latin_1, utf8_measure_from_latin_1,
                               Writes, Units
    <3> QED
      BY <3>1, <3>2
<1>c5. CASE j.call = "utf8_to_utf16"
  <2>1. out = utf16_convert_from_utf8(u, p, j.mode) /\ wants = utf16_measure_from_utf8(u, p)
    BY <1>c5 DEF Outcome, Measure, Unmeasured
  <2> QED
    BY <2>1, <1>3, Utf16Writes DEF utf16_convert_from_utf8, utf16_measure_from_utf8
<1>c6. CASE j.call = "utf32_to_utf16"
  <2>1. out = utf16_convert_from_utf32(u, p, j.mode) /\ wants = utf16_measure_from_utf32(u, p)
    BY <1>c6 DEF Outcome, Measure, Unmeasured
  <2> QED
    BY <2>1, <1>2, Utf16Writes DEF utf16_convert_from_utf32, utf16_measure_from_utf32
<1>c7. CASE j.call = "latin_1_to_utf16"
  <2>1. out = utf16_convert_from_latin_1(u, p) /\ wants = 1
    BY <1>c7 DEF Outcome, Unmeasured
  <2> QED
    BY <2>1, <1>2 DEF utf16_convert_from_latin_1, Writes, Units
<1>c8. CASE j.call = "utf8_to_utf32"
  <2>1. out = utf32_convert_from_utf8(u, p, j.mode) /\ wants = 1
    BY <1>c8 DEF Outcome, Measure, Unmeasured, utf32_measure_from_utf8
  <2>2. Writes(Units(<<extract_utf8(u, p).ch>>), 1)
    BY <1>3 DEF Writes, Units
  <2> QED
    BY <2>1, <2>2, ReplacementsWrite DEF utf32_convert_from_utf8
<1>c9. CASE j.call = "utf16_to_utf32"
  <2>1. out = utf32_convert_from_utf16(u, p, j.mode) /\ wants = 1
    BY <1>c9 DEF Outcome, Measure, Unmeasured, utf32_measure_from_utf16
  <2>2. Writes(Units(<<extract_utf16(u, p).ch>>), 1)
    BY <1>4 DEF Writes, Units
  <2> QED
    BY <2>1, <2>2, ReplacementsWrite DEF utf32_convert_from_utf16
<1>c10. CASE j.call = "latin_1_to_utf32"
  <2>1. out = utf32_convert_from_latin_1(u, p) /\ wants = 1
    BY <1>c10 DEF Outcome, Unmeasured
  <2> QED
    BY <2>1, <1>2 DEF utf32_convert_from_latin_1, Writes, Units
<1>c11. CASE j.call = "utf8_to_latin_1"
  <2>1. out = latin_1_convert_from_utf8(u, p, j.mode, j.sub) /\ wants = 1
    BY <1>c11 DEF Outcome, Measure, Unmeasured, latin_1_measure_from_utf8,
                  utf32_measure_from_utf8
  <2> QED
    BY <2>1, <1>3, ReplacementsWrite, NarrowedWrites DEF latin_1_convert_from_utf8
<1>c12. CASE j.call = "utf16_to_latin_1"
  <2>1. out = latin_1_convert_from_utf16(u, p, j.mode, j.sub) /\ wants = 1
    BY <1>c12 DEF Outcome, Measure, Unmeasured, latin_1_measure_from_utf16,
                  utf32_measure_from_utf16
  <2> QED
    BY <2>1, <1>4, ReplacementsWrite, NarrowedWrites DEF latin_1_convert_from_utf16
<1>c13. CASE j.call = "utf32_to_latin_1"
  <2>1. out = latin_1_convert_from_utf32(u, p, j.mode, j.sub) /\ wants = 1
    BY <1>c13 DEF Outcome, Unmeasured
  <2>2. Writes(Raise(out_of_range), 1)
    BY EmptySeq DEF Writes, Raise
  <2> QED
    BY <2>1, <2>2, <1>2, NarrowedWrites DEF latin_1_convert_from_utf32
<1> QED
  BY JobShape, <1>c1, <1>c2, <1>c3, <1>c4, <1>c5, <1>c6, <1>c7, <1>c8, <1>c9, <1>c10,
     <1>c11, <1>c12, <1>c13 DEF Calls, ToUtf8, ToUtf16, ToUtf32, ToLatin1

\* What the first pass adds is a number, and not 0.
LEMMA MeasuresCount ==
  ASSUME NEW j \in Jobs, NEW p \in 0 .. Len(j.units) - 1, j.call \notin Unmeasured
  PROVE  Measure(j, p) \in Nat /\ Measure(j, p) > 0
<1>1. j.call \in Calls /\ j.units \in Seq(Nat)
  BY JobShape
<1>2. CASE j.call = "set"
  <2>1. cleanup_utf8(j.units, p).units \in Seq(Nat) /\ cleanup_utf8(j.units, p).units # <<>>
    BY <1>1, Utf8Cleaned
  <2> QED
    BY <1>2, <2>1, EmptySeq DEF Measure
<1>3. CASE j.call # "set"
  <2>1. Measure(j, p) \in 1 .. 4
    BY <1>1, <1>3 DEF Measure, Unmeasured, Calls, ToUtf8, ToUtf16, ToUtf32, ToLatin1,
      utf8_measure_from_utf16, utf8_measure_from_utf32, utf8_measure_from_latin_1,
      utf16_measure_from_utf8, utf16_measure_from_utf32, utf32_measure_from_utf8,
      utf32_measure_from_utf16, latin_1_measure_from_utf8, latin_1_measure_from_utf16,
      utf8_measure, utf16_measure
  <2> QED
    BY <2>1
<1> QED
  BY <1>2, <1>3

-----------------------------------------------------------------------------
(***************************************************************************)
(* The invariant.  WritesWithin says nothing of a place in the middle of   *)
(* the second pass: to keep it, one must know that what is still to be     *)
(* written fits, and that is what counted tells, place by place.           *)
(***************************************************************************)

\* What the first pass adds for the place p.
Wanted(p) == IF job.call \in Unmeasured THEN 1 ELSE Measure(job, p)

\* The first pass has been at the places in counted, from 0 to q, one turn
\* after the other.
CountedTo(q) ==
  /\ {0, q} \subseteq DOMAIN counted
  /\ DOMAIN counted \subseteq 0 .. q
  /\ counted[0] = 0
  /\ counted[q] = size
  /\ \A p \in DOMAIN counted : counted[p] \in 0 .. size
  /\ \A p \in DOMAIN counted : p < q =>
       /\ p + Passed(job, p) \in DOMAIN counted
       /\ counted[p + Passed(job, p)] = counted[p] + Wanted(p)

Started ==
  /\ size \in Nat
  /\ dest \in Seq(Nat)
  /\ phase = "validate" => dest = <<>>
  /\ phase # "idle" => job \in Jobs /\ sp \in 0 .. Len(job.units)

Measuring == phase = "measure" => dest = <<>> /\ CountedTo(sp)

Converting ==
  phase = "convert" =>
    /\ CountedTo(Len(job.units))
    /\ sp \in DOMAIN counted
    /\ Len(dest) = counted[sp]

\* The second pass is where the first one was, and has written what the first
\* one had counted there.
IInv == Started /\ Measuring /\ Converting /\ WritesWithin /\ WritesAll

\* Before a call there is nothing to show.
LEMMA InitIInv == Init => IInv
BY EmptySeq DEF Init, IInv, Started, Measuring, Converting, WritesWithin, WritesAll

\* A call begins at the start of its text, with nothing counted.
LEMMA CallIInv == ASSUME IInv, NEW j \in Jobs, Call(j) PROVE IInv'
<1>1. j.units \in Seq(Nat) /\ j.mode \in Modes
  BY JobShape
<1>2. phase' \in {"measure", "validate", "done"}
  BY <1>1 DEF Call, Modes
<1>3. dest' \in Seq(Nat) /\ size' = Len(dest') /\ (phase' # "done" => dest' = <<>>)
  BY <1>1, EmptySeq DEF Call
<1>4. Started'
  <2>1. 0 \in 0 .. Len(j.units)
    BY <1>1
  <2>2. job' = j /\ sp' = 0
    BY DEF Call
  <2>3. size' \in Nat
    BY <1>3
  <2>4. phase' = "validate" => dest' = <<>>
    BY <1>3
  <2> QED
    BY <1>3, <2>1, <2>2, <2>3, <2>4 DEF Started
<1>5. Measuring'
  <2> SUFFICES ASSUME phase' = "measure" PROVE dest' = <<>> /\ CountedTo(sp)'
    BY DEF Measuring
  <2>1. dest' = <<>> /\ size' = 0
    BY <1>3, EmptySeq
  <2>2. sp' = 0 /\ counted' = AtStart
    BY DEF Call
  <2> QED
    BY <2>1, <2>2 DEF CountedTo, AtStart
<1> QED
  BY <1>2, <1>3, <1>4, <1>5 DEF IInv, Converting, WritesWithin, WritesAll

\* Validation stays inside the text.
LEMMA ValidateIInv == ASSUME IInv, Validate PROVE IInv'
<1>1. job \in Jobs /\ sp \in 0 .. Len(job.units) - 1
  BY DEF IInv, Started, Validate, AtEnd
<1>2. job.units \in Seq(Nat)
  BY <1>1, JobShape
<1>3. sp' \in 0 .. Len(job.units)
  <2> DEFINE v == validate_utf8(job.units, sp)
  <2>1. v.error = success => v.len \in 1 .. Len(job.units) - sp
    BY <1>1, <1>2, Utf8Validated
  <2>2. sp' = IF v.error = success THEN sp + v.len ELSE sp
    BY DEF Validate
  <2> HIDE DEF v
  <2> QED
    BY <1>1, <1>2, <2>1, <2>2, SMTT(30)
<1>4. Started'
  BY <1>1, <1>3 DEF IInv, Started, Validate
<1>5. WritesWithin'
  <2>1. Len(dest) = 0 /\ size \in Nat
    BY EmptySeq DEF IInv, Started, Validate
  <2> QED
    BY <2>1 DEF WritesWithin, Validate
<1>6. phase' \in {"validate", "thrown"}
  BY DEF Validate
<1> QED
  BY <1>4, <1>5, <1>6 DEF IInv, Measuring, Converting, WritesAll

\* A call that is to return its text as it is allocates room for it.
LEMMA ValidatedIInv == ASSUME IInv, Validated PROVE IInv'
<1>1. job.units \in Seq(Nat)
  BY JobShape DEF IInv, Started, Validated
<1>2. dest' = job.units /\ size' = Len(job.units) /\ phase' = "done" /\ UNCHANGED <<job, sp>>
  BY DEF Validated
<1>3. Started'
  BY <1>1, <1>2 DEF IInv, Started, Validated
<1> QED
  BY <1>2, <1>3 DEF IInv, Measuring, Converting, WritesWithin, WritesAll

\* A turn of the first pass adds one place, the next one, to counted.
LEMMA MeasureOneIInv == ASSUME IInv, MeasureOne PROVE IInv'
<1>1. /\ job \in Jobs /\ sp \in 0 .. Len(job.units) - 1
      /\ job.call \notin Unmeasured
  BY DEF IInv, Started, MeasureOne, AtEnd
<1>2. job.units \in Seq(Nat)
  BY <1>1, JobShape
<1> DEFINE step == Passed(job, sp)
           adds == Measure(job, sp)
<1>3. step \in 1 .. Len(job.units) - sp /\ adds \in Nat
  BY <1>1, LoopsMoveOn, MeasuresCount
<1>4. /\ phase' = "measure" /\ UNCHANGED <<job, phase, dest>>
      /\ sp' = sp + step /\ size' = size + adds
      /\ counted' = [p \in DOMAIN counted \cup {sp'} |-> IF p = sp' THEN size' ELSE counted[p]]
  BY DEF MeasureOne
<1>5. size \in Nat /\ dest = <<>> /\ CountedTo(sp)
  BY DEF IInv, Started, Measuring, MeasureOne
<1>6. \A p : Passed(job, p)' = Passed(job', p) /\ Wanted(p)' = Wanted(p)
  BY <1>4 DEF Wanted
<1>7. Wanted(sp) = adds
  BY <1>1 DEF Wanted
<1> HIDE DEF step, adds
<1>8. sp' \in 0 .. Len(job.units) /\ sp < sp' /\ size' \in Nat /\ size <= size'
  BY <1>1, <1>2, <1>3, <1>4, <1>5
<1>9. CountedTo(sp)'
  <2>1. /\ DOMAIN counted' = DOMAIN counted \cup {sp'}
        /\ counted'[sp'] = size'
        /\ \A p \in DOMAIN counted : p # sp' => counted'[p] = counted[p]
    BY <1>4
  <2>2. DOMAIN counted \subseteq 0 .. sp /\ {0, sp} \subseteq DOMAIN counted
    BY <1>5 DEF CountedTo
  <2>3. \A p \in DOMAIN counted : p # sp' /\ counted'[p] = counted[p] /\ p <= sp /\ p \in Nat
    BY <1>1, <1>8, <2>1, <2>2
  <2>4. {0, sp'} \subseteq DOMAIN counted' /\ DOMAIN counted' \subseteq 0 .. sp'
    BY <1>1, <1>8, <2>1, <2>2
  <2>5. counted'[0] = 0
    BY <1>5, <2>2, <2>3 DEF CountedTo
  <2>6. \A p \in DOMAIN counted' : counted'[p] \in 0 .. size'
    <3>1. \A p \in DOMAIN counted : counted[p] \in 0 .. size
      BY <1>5 DEF CountedTo
    <3> QED
      BY <1>5, <1>8, <2>1, <2>3, <3>1
  <2>7. ASSUME NEW p \in DOMAIN counted', p < sp'
        PROVE  /\ p + Passed(job, p) \in DOMAIN counted'
               /\ counted'[p + Passed(job, p)] = counted'[p] + Wanted(p)
    <3>1. p \in DOMAIN counted
      BY <2>1, <2>7, <1>8
    <3>2. CASE p = sp
      <4>1. p + Passed(job, p) = sp' /\ counted'[p] = size
        BY <1>4, <1>5, <2>3, <3>1, <3>2 DEF step, CountedTo
      <4> QED
        BY <1>4, <1>7, <2>1, <3>2, <4>1
    <3>3. CASE p # sp
      <4>1. p < sp
        BY <1>1, <2>3, <3>1, <3>3
      <4>2. /\ p + Passed(job, p) \in DOMAIN counted
            /\ counted[p + Passed(job, p)] = counted[p] + Wanted(p)
        BY <1>5, <3>1, <4>1 DEF CountedTo
      <4> QED
        BY <2>1, <2>3, <3>1, <4>2
    <3> QED
      BY <3>2, <3>3
  <2> QED
    BY <1>4, <1>6, <2>1, <2>4, <2>5, <2>6, <2>7 DEF CountedTo
<1>10. Started'
  BY <1>1, <1>4, <1>5, <1>8 DEF IInv, Started
<1> QED
  BY <1>4, <1>5, <1>9, <1>10 DEF IInv, Measuring, Converting, WritesWithin, WritesAll

\* The calls that measure nothing pass one unit at a time and write one.
LEMMA UnmeasuredPassOne ==
  ASSUME NEW j, j.call \in Unmeasured, NEW p
  PROVE  Passed(j, p) = 1
BY DEF Passed, Unmeasured, Source

\* A call that does not measure has, so to say, been at every place.
LEMMA MeasureAllIInv == ASSUME IInv, MeasureAll PROVE IInv'
<1>1. job \in Jobs /\ job.call \in Unmeasured /\ dest = <<>>
  BY DEF IInv, Started, Measuring, MeasureAll
<1> DEFINE n == Len(job.units)
<1>2. n \in Nat
  BY <1>1, JobShape
<1>3. /\ UNCHANGED <<job, phase, dest>>
      /\ sp' = n /\ size' = n /\ counted' = [p \in 0 .. n |-> p]
      /\ phase = "measure"
  BY DEF MeasureAll
<1>4. n' = n
  BY <1>3
<1>5. \A p : Passed(job', p) = 1 /\ Wanted(p)' = 1
  BY <1>1, <1>3, UnmeasuredPassOne DEF Wanted
<1> HIDE DEF n
<1>6. CountedTo(sp)'
  BY <1>2, <1>3, <1>5 DEF CountedTo
<1>7. Started'
  BY <1>1, <1>2, <1>3, <1>4 DEF IInv, Started, n
<1> QED
  BY <1>1, <1>3, <1>6, <1>7 DEF IInv, Measuring, Converting, WritesWithin, WritesAll

\* Nothing is written when the buffer is allocated.
LEMMA AllocateIInv == ASSUME IInv, Allocate PROVE IInv'
<1>1. job \in Jobs /\ dest = <<>> /\ CountedTo(sp) /\ size \in Nat /\ sp = Len(job.units)
  <2>1. job \in Jobs /\ sp \in 0 .. Len(job.units)
    BY DEF IInv, Started, Allocate
  <2>2. job.units \in Seq(Nat)
    BY <2>1, JobShape
  <2> QED
    BY <2>1, <2>2 DEF IInv, Started, Measuring, Allocate, AtEnd
<1>2. UNCHANGED <<job, size, dest, counted>> /\ sp' = 0 /\ phase' \in {"done", "convert"}
      /\ (phase' = "done" => size = 0)
  BY DEF Allocate
<1>3. Len(job.units) \in Nat
  BY <1>1, JobShape
<1>4. \A p : Passed(job, p)' = Passed(job, p) /\ Wanted(p)' = Wanted(p)
  BY <1>2 DEF Wanted
<1>5. CountedTo(Len(job.units))'
  BY <1>1, <1>2, <1>4 DEF CountedTo
<1>6. Started'
  BY <1>1, <1>2, <1>3 DEF IInv, Started
<1>7. Len(dest) = 0
  BY <1>1
<1>8. Converting'
  BY <1>1, <1>2, <1>5, <1>7 DEF Converting, CountedTo
<1> QED
  BY <1>1, <1>2, <1>6, <1>7, <1>8 DEF IInv, Measuring, WritesWithin, WritesAll

\* A turn of the second pass takes it to the next place the first one was at,
\* and to what was counted there.
LEMMA WriteIInv == ASSUME IInv, Write PROVE IInv'
<1> DEFINE step == Passed(job, sp)
           text == Outcome(job, sp).units
           n    == Len(job.units)
<1>1. job \in Jobs /\ sp \in 0 .. n - 1 /\ size \in Nat /\ dest \in Seq(Nat)
  BY DEF IInv, Started, Write, AtEnd
<1>2. n \in Nat
  BY <1>1, JobShape
<1>3. step \in 1 .. n - sp
  BY <1>1, LoopsMoveOn
<1>4. text \in Seq(Nat) /\ Len(text) = Wanted(sp)
  BY <1>1, PassesAgree DEF Write, Writes, Wanted
<1>5. UNCHANGED <<job, phase, size, counted>> /\ sp' = sp + step /\ dest' = dest \o text
      /\ phase = "convert"
  BY DEF Write
<1>6. CountedTo(n) /\ sp \in DOMAIN counted /\ Len(dest) = counted[sp]
  BY <1>5 DEF IInv, Converting
<1>7. /\ sp + step \in DOMAIN counted
      /\ counted[sp + step] = counted[sp] + Wanted(sp)
      /\ counted[sp + step] \in 0 .. size
  BY <1>1, <1>2, <1>6 DEF CountedTo
<1>8. dest' \in Seq(Nat) /\ Len(dest') = Len(dest) + Len(text)
  <2> HIDE DEF text
  <2> QED
    BY <1>1, <1>4, <1>5, ConcatProperties
<1>9. \A p : Passed(job, p)' = Passed(job, p) /\ Wanted(p)' = Wanted(p)
  BY <1>5 DEF Wanted
<1>10. n' = n
  BY <1>5
<1>11. CountedTo(n)'
  BY <1>5, <1>6, <1>9, <1>10 DEF CountedTo
<1> HIDE DEF step, text, n
<1>12. Len(dest') = counted[sp'] /\ Len(dest') <= size /\ sp' \in 0 .. n
  BY <1>1, <1>2, <1>3, <1>4, <1>5, <1>6, <1>7, <1>8
<1>13. Started'
  BY <1>1, <1>5, <1>8, <1>10, <1>12 DEF Started, n
<1>14. Converting'
  BY <1>5, <1>7, <1>11, <1>12 DEF Converting, n
<1> QED
  BY <1>5, <1>12, <1>13, <1>14 DEF IInv, Measuring, WritesWithin, WritesAll

\* What was written fits, and is complete at the end of the second pass.
LEMMA StopsIInv == ASSUME IInv, Throw \/ AssertFails \/ Finish PROVE IInv'
<1>1. phase = "convert" /\ UNCHANGED <<job, sp, size, dest, counted>>
      /\ phase' \in {"thrown", "aborted", "done"}
  BY DEF Throw, AssertFails, Finish
<1>2. job \in Jobs /\ sp \in 0 .. Len(job.units) /\ CountedTo(Len(job.units))
      /\ Len(dest) = counted[sp] /\ Len(dest) <= size
  BY <1>1 DEF IInv, Started, Converting, WritesWithin
<1>3. Len(job.units) \in Nat
  BY <1>2, JobShape
<1>4. phase' = "done" => Len(dest) = size
  <2> SUFFICES ASSUME phase' = "done" PROVE sp = Len(job.units)
    BY <1>2 DEF CountedTo
  <2>1. sp >= Len(job.units)
    BY DEF Throw, AssertFails, Finish, AtEnd
  <2> QED
    BY <1>2, <1>3, <2>1
<1>5. Started'
  BY <1>1, <1>2 DEF IInv, Started
<1>6. WritesWithin' /\ WritesAll'
  BY <1>1, <1>2, <1>4 DEF WritesWithin, WritesAll
<1> QED
  BY <1>1, <1>5, <1>6 DEF IInv, Measuring, Converting

\* A call that has returned leaves nothing behind.
LEMMA ReturnIInv == ASSUME IInv, Return PROVE IInv'
<1>1. phase' = "idle" /\ dest' = <<>> /\ size' = 0
  BY DEF Return
<1> QED
  BY <1>1, EmptySeq DEF IInv, Started, Measuring, Converting, WritesWithin, WritesAll

\* Every step keeps the invariant.
LEMMA NextIInv == IInv /\ [Next]_vars => IInv'
<1> SUFFICES ASSUME IInv, [Next]_vars PROVE IInv'
  OBVIOUS
<1>1. ASSUME NEW j \in Jobs, Call(j) PROVE IInv'
  BY <1>1, CallIInv
<1>2. CASE Validate
  BY <1>2, ValidateIInv
<1>3. CASE Validated
  BY <1>3, ValidatedIInv
<1>4. CASE MeasureOne
  BY <1>4, MeasureOneIInv
<1>5. CASE MeasureAll
  BY <1>5, MeasureAllIInv
<1>6. CASE Allocate
  BY <1>6, AllocateIInv
<1>7. CASE Write
  BY <1>7, WriteIInv
<1>8. CASE Throw \/ AssertFails \/ Finish
  BY <1>8, StopsIInv
<1>9. CASE Return
  BY <1>9, ReturnIInv
<1>10. CASE UNCHANGED vars
  <2>1. \A p : Passed(job, p)' = Passed(job, p) /\ Wanted(p)' = Wanted(p)
    BY <1>10 DEF vars, Wanted
  <2>2. \A q : CountedTo(q)' = CountedTo(q)
    BY <1>10, <2>1 DEF vars, CountedTo
  <2> QED
    BY <1>10, <2>2 DEF vars, IInv, Started, Measuring, Converting, WritesWithin, WritesAll
<1> QED
  BY <1>1, <1>2, <1>3, <1>4, <1>5, <1>6, <1>7, <1>8, <1>9, <1>10 DEF Next, Turn

\* The two passes of every conversion stay together, on every text.
THEOREM IInvHolds == Spec => []IInv
BY InitIInv, NextIInv, PTL DEF Spec

-----------------------------------------------------------------------------
\* No loop reads past the end of its text: what a head byte or a surrogate
\* announces is only read when it is there.
THEOREM ReadsStayWithin == Spec => []ReadsWithin
<1>1. IInv => ReadsWithin
  <2> SUFFICES ASSUME IInv, phase # "idle" PROVE sp <= Len(job.units)
    BY DEF ReadsWithin
  <2>1. job \in Jobs /\ sp \in 0 .. Len(job.units)
    BY DEF IInv, Started
  <2>2. Len(job.units) \in Nat
    BY <2>1, JobShape
  <2> QED
    BY <2>1, <2>2
<1> QED
  BY <1>1, IInvHolds, PTL

\* No conversion writes past the buffer it has measured, whatever the text,
\* the mode and the encodings are.
THEOREM WritesStayWithin == Spec => []WritesWithin
<1>1. IInv => WritesWithin
  BY DEF IInv
<1> QED
  BY <1>1, IInvHolds, PTL

\* No conversion returns a buffer with a unit it has not written.
THEOREM NothingLeftUnwritten == Spec => []WritesAll
<1>1. IInv => WritesAll
  BY DEF IInv
<1> QED
  BY <1>1, IInvHolds, PTL

-----------------------------------------------------------------------------
(* What a turn of a converting loop makes of what it reads *)

\* The conversions to UTF-8 write whole sequences only.
LEMMA TurnsWriteWhole ==
  ASSUME NEW j \in Jobs, NEW p \in 0 .. Len(j.units) - 1,
         j.call \in ToUtf8 \ {"set"}, Outcome(j, p).kind = "units"
  PROVE  Outcome(j, p).units \in Seq(Nat) /\ ~Faulty(Points(Outcome(j, p).units))
<1> DEFINE Right(o) == o.kind = "units" => o.units \in Seq(Nat) /\ ~Faulty(Points(o.units))
<1>1. PICK u, mode : u = j.units /\ mode = j.mode
  OBVIOUS
<1>2. u \in Seq(Nat) /\ p \in 0 .. Len(u) - 1
  BY <1>1, JobShape
<1>3. u[p + 1] \in Nat
  <2>1. p + 1 \in 1 .. Len(u)
    BY <1>2
  <2> QED
    BY <1>2, <2>1, ElementOfSeq, Zenon
<1>4. \A e : Right(Refuse(mode, e, BadChar.utf8))
  BY ReplacementReads DEF Refuse, Raise, Units
<1>5. ASSUME NEW c \in Nat, write_utf8(c) # <<>> PROVE Right(Units(write_utf8(c)))
  <2>1. c <= MaxCode
    BY <1>5, SMT DEF write_utf8, MaxCode
  <2> QED
    BY <2>1, WrittenReads DEF Units
<1>6. ASSUME NEW c \in Nat PROVE Right(AssertInRange(write_utf8(c)))
  BY <1>5 DEF AssertInRange, Abort
<1>7. CASE j.call = "utf16_to_utf8"
  <2>1. extract_utf16(u, p).ch \in Nat
    BY <1>2, Utf16Read
  <2>2. Outcome(j, p) = utf8_convert_from_utf16(u, p, mode)
    BY <1>1, <1>7 DEF Outcome
  <2> QED
    BY <1>4, <1>6, <2>1, <2>2 DEF utf8_convert_from_utf16
<1>8. CASE j.call = "utf32_to_utf8"
  <2>1. Outcome(j, p) = utf8_convert_from_utf32(u, p, mode)
    BY <1>1, <1>8 DEF Outcome
  <2> QED
    BY <1>3, <1>4, <1>5, <2>1 DEF utf8_convert_from_utf32
<1>9. CASE j.call = "latin_1_to_utf8"
  <2>1. Outcome(j, p) = utf8_convert_from_latin_1(u, p)
    BY <1>1, <1>9 DEF Outcome
  <2>2. PICK x : x = u[p + 1]
    OBVIOUS
  <2>3. CASE x >= 128
    <3>1. PICK s : s = <<192 + Bits(x \div 64, 32), 128 + Bits(x, 64)>>
      OBVIOUS
    <3>2. Outcome(j, p) = Units(s)
      BY <2>1, <2>2, <2>3, <3>1 DEF utf8_convert_from_latin_1
    <3>3. s \in Seq(Nat) /\ ~Faulty(Points(s))
      <4>1. x \in Nat
        BY <1>3, <2>2
      <4> QED
        BY ONLY <3>1, <4>1, TwoBytesRead
    <3> QED
      BY <3>2, <3>3 DEF Units
  <2>4. CASE ~(x >= 128)
    <3>1. Outcome(j, p) = Units(<<x>>)
      BY <2>1, <2>2, <2>4 DEF utf8_convert_from_latin_1
    <3>2. write_utf8(x) = <<x>> /\ x \in Nat /\ x <= MaxCode
      <4>1. x \in Nat /\ x < 128
        BY <1>3, <2>2, <2>4
      <4>2. x <= MaxCode
        BY ONLY <4>1, SMT DEF MaxCode
      <4>3. write_utf8(x) = <<x>>
        BY ONLY <4>1, SMT DEF write_utf8
      <4> QED
        BY <4>1, <4>2, <4>3
    <3>3. <<x>> \in Seq(Nat) /\ ~Faulty(Points(<<x>>))
      BY <3>2, WrittenReads
    <3> QED
      BY <3>1, <3>3 DEF Units
  <2> QED
    BY <2>3, <2>4
<1> QED
  BY <1>7, <1>8, <1>9 DEF ToUtf8

\* The conversions from UTF-8 throw, when they check, at errors and at nothing
\* else.
LEMMA TurnsThrowAtErrors ==
  ASSUME NEW j \in Jobs, NEW p \in 0 .. Len(j.units) - 1, NEW r, r = extract_utf8(j.units, p),
         j.call \in {"utf8_to_utf16", "utf8_to_utf32"}, j.mode = "check_validity"
  PROVE  /\ Outcome(j, p).kind = "units" => char_error(r.ch) = success
         /\ Outcome(j, p).kind = "raise" => char_error(r.ch) # success
         /\ Passed(j, p) = r.len
<1>1. Passed(j, p) = r.len
  BY DEF Passed, Source
<1>2. CASE j.call = "utf8_to_utf16"
  BY <1>1, <1>2 DEF Outcome, utf16_convert_from_utf8, Refuse, Raise, AssertInRange, Units, Abort
<1>3. CASE j.call = "utf8_to_utf32"
  BY <1>1, <1>3 DEF Outcome, utf32_convert_from_utf8, Refuse, Raise, Units
<1> QED
  BY <1>2, <1>3

\* Substituting writes what is read, or the replacement character.
LEMMA TurnsSubstitute ==
  ASSUME NEW j \in Jobs, NEW p \in 0 .. Len(j.units) - 1, NEW r, r = extract_utf8(j.units, p),
         j.mode = "substitute_invalid"
  PROVE  /\ j.call = "set" =>
              /\ Passed(j, p) = r.len
              /\ Outcome(j, p).units \in Seq(Nat)
              /\ Points(Outcome(j, p).units) = <<Repair(r.ch)>>
              /\ ~Faulty(Points(Outcome(j, p).units))
         /\ j.call = "utf8_to_utf32" =>
              /\ Passed(j, p) = r.len
              /\ Outcome(j, p).units = <<Repair(r.ch)>>
<1>1. j.units \in Seq(Nat)
  BY JobShape
<1>2. CASE j.call = "set"
  <2>1. Passed(j, p) = cleanup_utf8(j.units, p).len
    BY <1>2 DEF Passed, Source
  <2>2. Outcome(j, p).units = cleanup_utf8(j.units, p).units
    BY <1>2 DEF Outcome, Units
  <2> QED
    BY <1>1, <1>2, <2>1, <2>2, CleanedReads
<1>3. CASE j.call = "utf8_to_utf32"
  <2>1. Passed(j, p) = r.len
    BY <1>3 DEF Passed, Source
  <2>2. Outcome(j, p) = IF char_error(r.ch) # success THEN Units(BadChar.utf32) ELSE Units(<<r.ch>>)
    BY <1>3 DEF Outcome, utf32_convert_from_utf8, Refuse
  <2>3. PICK b : b = 65533
    OBVIOUS
  <2>4. BadChar.utf32 = <<b>> /\ Repair(r.ch) = IF char_error(r.ch) # success THEN b ELSE r.ch
    BY <2>3, SMT DEF BadChar, Repair
  <2> QED
    BY <1>3, <2>1, <2>2, <2>4 DEF Units
<1> QED
  BY <1>2, <1>3

-----------------------------------------------------------------------------
(***************************************************************************)
(* What is left of the text, and what has been made of the rest of it.     *)
(* The three functions that walk UTF-8 are compared by what is still to be *)
(* read at the place they are at: as long as they went over no fault the   *)
(* faults of the text are those of the rest, and what was substituted and  *)
(* the rest repaired are together the text repaired.                       *)
(***************************************************************************)

\* The characters still to be read.
Left == PointsFrom(job.units)[sp]

\* Only string::set() validates; it goes through the two passes only to
\* substitute.  What has been measured so far is not nothing.
Underway ==
  /\ phase = "validate" => job.call = "set" /\ job.mode = "check_validity"
  /\ phase \in {"measure", "convert"} /\ job.call = "set" => job.mode = "substitute_invalid"
  /\ phase = "measure" /\ sp > 0 => size > 0

WholeSoFar ==
  phase \in {"convert", "done"} /\ job.call \in ToUtf8 \ {"set"} => ~Faulty(Points(dest))

CheckedSoFar ==
  phase \in {"validate", "convert", "done", "thrown"}
    /\ job.call \in {"set", "utf8_to_utf16", "utf8_to_utf32"} /\ job.mode = "check_validity" =>
  /\ phase \in {"validate", "convert"} => (Faulty(Points(job.units)) <=> Faulty(Left))
  /\ phase = "done" => ~Faulty(Points(job.units))
  /\ phase = "thrown" => Faulty(Points(job.units))

SubstitutedSoFar ==
  phase = "convert" /\ job.mode = "substitute_invalid" =>
  /\ job.call = "set" =>
       ~Faulty(Points(dest)) /\ Points(dest) \o Repaired(Left) = Repaired(Points(job.units))
  /\ job.call = "utf8_to_utf32" => dest \o Repaired(Left) = Repaired(Points(job.units))

\* What has been read and what is left of it agree.
WInv == Underway /\ WholeSoFar /\ CheckedSoFar /\ SubstitutedSoFar /\ SubstitutionAgrees

\* At the end of a text nothing is left of it; at its start, all.
LEMMA LeftAtTheEnds ==
  ASSUME IInv, phase # "idle"
  PROVE  /\ job \in Jobs /\ job.units \in Seq(Nat) /\ dest \in Seq(Nat)
         /\ Points(job.units) \in Seq(Nat) /\ Left \in Seq(Nat)
         /\ AtEnd => Left = <<>> /\ sp = Len(job.units)
         /\ ~AtEnd => sp \in 0 .. Len(job.units) - 1
         /\ sp = 0 => Left = Points(job.units)
<1>1. job \in Jobs /\ sp \in 0 .. Len(job.units) /\ dest \in Seq(Nat)
  BY DEF IInv, Started
<1>2. job.units \in Seq(Nat)
  BY <1>1, JobShape
<1>3. PICK u, p : u = job.units /\ p = sp
  OBVIOUS
<1>4. u \in Seq(Nat) /\ p \in Nat /\ Len(u) \in Nat /\ p \in 0 .. Len(u)
  BY <1>1, <1>2, <1>3
<1>5. PointsFrom(u)[p] \in Seq(Nat) /\ PointsFrom(u)[0] \in Seq(Nat)
      /\ (p >= Len(u) => PointsFrom(u)[p] = <<>>)
  BY <1>4, PointsStep, PointsType
<1>6. (p >= Len(u) => p = Len(u)) /\ (~(p >= Len(u)) => p \in 0 .. Len(u) - 1)
  BY <1>4
<1> QED
  BY <1>1, <1>2, <1>3, <1>5, <1>6 DEF Left, Points, AtEnd

\* Before a call there is nothing to show.
LEMMA InitWInv == Init => WInv
BY DEF Init, WInv, Underway, WholeSoFar, CheckedSoFar, SubstitutedSoFar, SubstitutionAgrees

\* A call begins at the start of its text, with nothing read.
LEMMA CallWInv == ASSUME IInv, WInv, NEW j \in Jobs, Call(j) PROVE WInv'
<1>1. j.mode \in Modes /\ j.units \in Seq(Nat)
  BY JobShape
<1>2. /\ job' = j /\ sp' = 0
      /\ phase' = "done" => j.call = "set" /\ j.mode = "assume_valid"
      /\ phase' = "validate" => j.call = "set" /\ j.mode = "check_validity"
      /\ phase' = "measure" /\ j.call = "set" => j.mode = "substitute_invalid"
      /\ phase' \in {"measure", "validate", "done"}
  BY <1>1 DEF Call, Modes
<1>3. Left' = Points(j.units)
  BY <1>2 DEF Left, Points
<1> QED
  BY <1>2, <1>3 DEF WInv, Underway, WholeSoFar, CheckedSoFar, SubstitutedSoFar, SubstitutionAgrees

\* Validation passes no fault, and stops at one.
LEMMA ValidateWInv == ASSUME IInv, WInv, Validate PROVE WInv'
<1>1. job \in Jobs /\ job.units \in Seq(Nat) /\ sp \in 0 .. Len(job.units) - 1
  BY LeftAtTheEnds DEF Validate
<1>2. PICK u, p, r, v : u = job.units /\ p = sp /\ r = extract_utf8(u, p) /\ v = validate_utf8(u, p)
  OBVIOUS
<1>3. /\ v.error = success <=> char_error(r.ch) = success
      /\ v.error = success => v.len = r.len
  BY <1>1, <1>2, ValidatesTheSame
<1>4. Faulty(PointsFrom(u)[p]) <=> char_error(r.ch) # success \/ Faulty(PointsFrom(u)[p + r.len])
  BY <1>1, <1>2, FaultsAhead
<1>5. /\ job' = job /\ phase = "validate"
      /\ v.error = success => phase' = "validate" /\ sp' = p + v.len
      /\ v.error # success => phase' = "thrown"
  BY <1>2 DEF Validate
<1>6. Faulty(Points(u)) <=> Faulty(PointsFrom(u)[p])
  BY <1>2, <1>5 DEF WInv, Underway, CheckedSoFar, Left
<1>7. CASE v.error = success
  <2>1. Left' = PointsFrom(u)[p + r.len]
    BY <1>2, <1>3, <1>5, <1>7 DEF Left
  <2> QED
    BY <1>2, <1>3, <1>4, <1>5, <1>6, <1>7, <2>1
       DEF WInv, Underway, WholeSoFar, CheckedSoFar, SubstitutedSoFar, SubstitutionAgrees
<1>8. CASE v.error # success
  BY <1>2, <1>3, <1>4, <1>5, <1>6, <1>8
     DEF WInv, Underway, WholeSoFar, CheckedSoFar, SubstitutedSoFar, SubstitutionAgrees
<1> QED
  BY <1>7, <1>8

\* A text that was validated to its end has no fault.
LEMMA ValidatedWInv == ASSUME IInv, WInv, Validated PROVE WInv'
<1>1. Left = <<>>
  BY LeftAtTheEnds DEF Validated
<1>2. ~Faulty(<<>>)
  BY DEF Faulty
<1>3. job' = job /\ phase = "validate" /\ phase' = "done"
  BY DEF Validated
<1> QED
  BY <1>1, <1>2, <1>3
     DEF WInv, Underway, WholeSoFar, CheckedSoFar, SubstitutedSoFar, SubstitutionAgrees

\* Every turn of the first pass adds something.
LEMMA MeasureWInv == ASSUME IInv, WInv, MeasureOne \/ MeasureAll PROVE WInv'
<1>1. job \in Jobs /\ job.units \in Seq(Nat) /\ sp \in 0 .. Len(job.units) - 1
  BY LeftAtTheEnds DEF MeasureOne, MeasureAll
<1>2. job' = job /\ phase = "measure" /\ phase' = "measure"
  BY DEF MeasureOne, MeasureAll
<1>3. size' > 0
  <2>1. CASE MeasureOne
    <3>1. PICK adds : adds = Measure(job, sp)
      OBVIOUS
    <3>2. adds \in Nat /\ adds > 0 /\ size \in Nat /\ size' = size + adds
      BY <1>1, <2>1, <3>1, MeasuresCount DEF MeasureOne, IInv, Started
    <3> QED
      BY <3>2
  <2>2. CASE MeasureAll
    <3>1. size' = Len(job.units) /\ Len(job.units) \in Nat
      BY <1>1, <2>2 DEF MeasureAll
    <3> QED
      BY <1>1, <3>1
  <2> QED
    BY <2>1, <2>2
<1> QED
  BY <1>2, <1>3
     DEF WInv, Underway, WholeSoFar, CheckedSoFar, SubstitutedSoFar, SubstitutionAgrees

\* The second pass begins with all the text left; there is none only if the
\* text is empty.
LEMMA AllocateWInv == ASSUME IInv, WInv, Allocate PROVE WInv'
<1>1. /\ job \in Jobs /\ job.units \in Seq(Nat) /\ Points(job.units) \in Seq(Nat)
      /\ Left = <<>> /\ (sp = 0 => Left = Points(job.units))
  BY LeftAtTheEnds DEF Allocate
<1>2. /\ job' = job /\ sp' = 0 /\ dest' = <<>> /\ phase = "measure"
      /\ phase' = IF size = 0 THEN "done" ELSE "convert"
  BY DEF Allocate, IInv, Measuring
<1>3. Left' = Points(job.units)
  BY <1>2 DEF Left, Points
<1>4. Points(<<>>) = <<>> /\ ~Faulty(Points(<<>>)) /\ Repaired(<<>>) = <<>>
  BY PointsOfNone DEF Repaired
<1>5. Repaired(Points(job.units)) \in Seq(Nat)
  BY <1>1, FaultsOfBoth
<1>6. <<>> \o Repaired(Points(job.units)) = Repaired(Points(job.units))
  BY <1>5, JoinedToNone
<1>7. size = 0 => Points(job.units) = <<>>
  <2>1. sp \in Nat
    BY DEF IInv, Started, Allocate
  <2> QED
    BY <1>1, <1>2, <2>1 DEF WInv, Underway
<1>8. Underway' /\ WholeSoFar'
  BY <1>2, <1>4 DEF WInv, Underway, WholeSoFar
<1>9. CheckedSoFar'
  BY <1>2, <1>3, <1>4, <1>7 DEF CheckedSoFar
<1>10. SubstitutedSoFar' /\ SubstitutionAgrees'
  BY <1>2, <1>3, <1>4, <1>6, <1>7 DEF SubstitutedSoFar, SubstitutionAgrees
<1> QED
  BY <1>8, <1>9, <1>10 DEF WInv

\* A turn of the second pass takes what it reads from what is left and adds
\* it to what is written.
LEMMA WriteWInv == ASSUME IInv, WInv, Write PROVE WInv'
<1>1. /\ job \in Jobs /\ job.units \in Seq(Nat) /\ sp \in 0 .. Len(job.units) - 1
      /\ dest \in Seq(Nat) /\ Points(job.units) \in Seq(Nat)
  BY LeftAtTheEnds DEF Write
<1>2. PICK u, p, r, out, rest : /\ u = job.units /\ p = sp /\ r = extract_utf8(u, p)
                                /\ out = Outcome(job, p) /\ rest = PointsFrom(u)[p + r.len]
  OBVIOUS
<1>3. /\ job' = job /\ phase = "convert" /\ phase' = "convert"
      /\ out.kind = "units" /\ dest' = dest \o out.units /\ sp' = p + Passed(job, p)
  BY <1>2 DEF Write
<1>4. /\ r.ch \in Nat /\ rest \in Seq(Nat)
      /\ Left = <<r.ch>> \o rest
      /\ Faulty(Left) <=> char_error(r.ch) # success \/ Faulty(rest)
      /\ Repaired(Left) = <<Repair(r.ch)>> \o Repaired(rest)
  <2>1. u \in Seq(Nat) /\ p \in 0 .. Len(u) - 1 /\ r = extract_utf8(u, p)
    BY <1>1, <1>2
  <2>2. /\ r.ch \in Nat /\ PointsFrom(u)[p + r.len] \in Seq(Nat)
        /\ PointsFrom(u)[p] = <<r.ch>> \o PointsFrom(u)[p + r.len]
        /\ Faulty(PointsFrom(u)[p]) <=>
             char_error(r.ch) # success \/ Faulty(PointsFrom(u)[p + r.len])
        /\ Repaired(PointsFrom(u)[p]) = <<Repair(r.ch)>> \o Repaired(PointsFrom(u)[p + r.len])
    BY ONLY <2>1, FaultsAhead
  <2>3. Left = PointsFrom(u)[p] /\ rest = PointsFrom(u)[p + r.len]
    BY <1>2 DEF Left
  <2> QED
    BY ONLY <2>2, <2>3
<1>5. Passed(job, p) = r.len => Left' = rest
  BY <1>2, <1>3 DEF Left
<1>6. Underway'
  BY <1>3 DEF WInv, Underway
<1>7. WholeSoFar'
  <2> SUFFICES ASSUME job.call \in ToUtf8 \ {"set"} PROVE ~Faulty(Points(dest'))
    BY <1>3 DEF WholeSoFar
  <2>1. out.units \in Seq(Nat) /\ ~Faulty(Points(out.units))
    BY <1>1, <1>2, <1>3, TurnsWriteWhole
  <2>2. ~Faulty(Points(dest))
    BY <1>3 DEF WInv, WholeSoFar
  <2>3. PICK a, b : a = dest /\ b = out.units
    OBVIOUS
  <2>4. a \in Seq(Nat) /\ b \in Seq(Nat) /\ ~Faulty(Points(a)) /\ ~Faulty(Points(b))
    BY <1>1, <2>1, <2>2, <2>3
  <2>5. ~Faulty(Points(a \o b))
    BY <2>4, PointsOfBoth
  <2> QED
    BY <1>3, <2>3, <2>5
<1>8. CheckedSoFar'
  <2> SUFFICES ASSUME job.call \in {"set", "utf8_to_utf16", "utf8_to_utf32"},
                      job.mode = "check_validity"
               PROVE  Faulty(Points(job.units)) <=> Faulty(Left')
    BY <1>3 DEF CheckedSoFar
  <2>1. job.call # "set"
    BY <1>3 DEF WInv, Underway
  <2>2. char_error(r.ch) = success /\ Passed(job, p) = r.len
    BY <1>1, <1>2, <1>3, <2>1, TurnsThrowAtErrors
  <2>3. Faulty(Points(job.units)) <=> Faulty(Left)
    BY <1>3 DEF WInv, CheckedSoFar
  <2> QED
    BY <1>4, <1>5, <2>2, <2>3
<1>9. SubstitutedSoFar'
  <2> SUFFICES ASSUME job.mode = "substitute_invalid"
               PROVE  /\ job.call = "set" =>
                           /\ ~Faulty(Points(dest'))
                           /\ Points(dest') \o Repaired(Left') = Repaired(Points(job.units))
                      /\ job.call = "utf8_to_utf32" =>
                           dest' \o Repaired(Left') = Repaired(Points(job.units))
    BY <1>3 DEF SubstitutedSoFar
  <2>1. PICK c, a, b, rr, all : /\ c = Repair(r.ch) /\ a = dest /\ b = out.units
                                /\ rr = Repaired(rest) /\ all = Repaired(Points(job.units))
    OBVIOUS
  <2>2. c \in Nat /\ <<c>> \in Seq(Nat) /\ rr \in Seq(Nat) /\ a \in Seq(Nat)
    <3>1. c \in Nat
      BY <1>4, <2>1, SMT DEF Repair
    <3>2. rr \in Seq(Nat)
      BY <1>4, <2>1, FaultsOfBoth
    <3>3. a \in Seq(Nat)
      BY <1>1, <2>1
    <3> QED
      BY <3>1, <3>2, <3>3
  <2>3. Repaired(Left) = <<c>> \o rr
    BY <1>4, <2>1
  <2>4. ASSUME NEW x \in Seq(Nat) PROVE x \o (<<c>> \o rr) = (x \o <<c>>) \o rr
    <3>1. PICK y : y = <<c>>
      OBVIOUS
    <3>2. x \o (y \o rr) = (x \o y) \o rr
      BY <2>2, <3>1, JoinedInAnyOrder
    <3> QED
      BY <3>1, <3>2
  <2>5. CASE job.call = "set"
    <3>1. /\ Passed(job, p) = r.len /\ b \in Seq(Nat)
          /\ Points(b) = <<c>> /\ ~Faulty(Points(b))
      BY <1>1, <1>2, <2>1, <2>5, TurnsSubstitute
    <3>2. ~Faulty(Points(a)) /\ Points(a) \o Repaired(Left) = all
      BY <1>3, <2>1, <2>5 DEF WInv, SubstitutedSoFar
    <3>3. /\ Points(a \o b) = Points(a) \o Points(b)
          /\ ~Faulty(Points(a \o b)) /\ Points(a) \in Seq(Nat)
      BY <2>2, <3>1, <3>2, PointsOfBoth
    <3>4. Points(a \o b) \o rr = all
      BY <2>3, <2>4, <3>1, <3>2, <3>3
    <3> QED
      BY <1>3, <1>5, <2>1, <2>5, <3>1, <3>3, <3>4
  <2>6. CASE job.call = "utf8_to_utf32"
    <3>1. Passed(job, p) = r.len /\ b = <<c>>
      BY <1>1, <1>2, <2>1, <2>6, TurnsSubstitute
    <3>2. a \o Repaired(Left) = all
      BY <1>3, <2>1, <2>6 DEF WInv, SubstitutedSoFar
    <3>3. (a \o b) \o rr = all
      BY <2>2, <2>3, <2>4, <3>1, <3>2
    <3> QED
      BY <1>3, <1>5, <2>1, <2>6, <3>1, <3>3
  <2> QED
    BY <2>5, <2>6
<1>10. SubstitutionAgrees'
  BY <1>3 DEF SubstitutionAgrees
<1> QED
  BY <1>6, <1>7, <1>8, <1>9, <1>10 DEF WInv

\* The conversions throw at a fault, and finish when nothing is left.
LEMMA StopsWInv == ASSUME IInv, WInv, Throw \/ AssertFails \/ Finish PROVE WInv'
<1>1. /\ phase = "convert" /\ phase' \in {"thrown", "aborted", "done"}
      /\ UNCHANGED <<job, sp, dest>>
      /\ phase' = "done" => AtEnd
      /\ phase' = "thrown" => ~AtEnd /\ Outcome(job, sp).kind = "raise"
  BY DEF Throw, AssertFails, Finish
<1>2. /\ job \in Jobs /\ job.units \in Seq(Nat) /\ dest \in Seq(Nat)
      /\ AtEnd => Left = <<>>
      /\ ~AtEnd => sp \in 0 .. Len(job.units) - 1
  BY <1>1, LeftAtTheEnds
<1>3. Underway' /\ WholeSoFar' /\ SubstitutedSoFar'
  BY <1>1 DEF WInv, Underway, WholeSoFar, SubstitutedSoFar
<1>4. CheckedSoFar'
  <2> SUFFICES ASSUME job.call \in {"set", "utf8_to_utf16", "utf8_to_utf32"},
                      job.mode = "check_validity"
               PROVE  /\ phase' = "done" => ~Faulty(Points(job.units))
                      /\ phase' = "thrown" => Faulty(Points(job.units))
    BY <1>1 DEF CheckedSoFar
  <2>1. Faulty(Points(job.units)) <=> Faulty(Left)
    BY <1>1 DEF WInv, CheckedSoFar
  <2>2. phase' = "done" => ~Faulty(Left)
    BY <1>1, <1>2 DEF Faulty
  <2>3. ASSUME phase' = "thrown" PROVE Faulty(Left)
    <3>1. PICK u, p, r : u = job.units /\ p = sp /\ r = extract_utf8(u, p)
      OBVIOUS
    <3>2. u \in Seq(Nat) /\ p \in 0 .. Len(u) - 1
      BY <1>1, <1>2, <2>3, <3>1
    <3>3. job.call # "set"
      BY <1>1 DEF WInv, Underway
    <3>4. char_error(r.ch) # success
      BY <1>1, <1>2, <2>3, <3>1, <3>2, <3>3, TurnsThrowAtErrors
    <3>5. Faulty(PointsFrom(u)[p])
      BY <3>1, <3>2, <3>4, FaultsAhead
    <3> QED
      BY <3>1, <3>5 DEF Left
  <2> QED
    BY <2>1, <2>2, <2>3
<1>5. SubstitutionAgrees'
  <2> SUFFICES ASSUME phase' = "done", job.mode = "substitute_invalid"
               PROVE  /\ job.call = "set" => Points(dest) = Repaired(Points(job.units))
                      /\ job.call = "utf8_to_utf32" => dest = Repaired(Points(job.units))
    BY <1>1 DEF SubstitutionAgrees
  <2>1. Left = <<>> /\ Repaired(<<>>) = <<>>
    BY <1>1, <1>2 DEF Repaired
  <2>2. Points(dest) \in Seq(Nat)
    BY <1>2, PointsType DEF Points
  <2>3. Points(dest) \o <<>> = Points(dest) /\ dest \o <<>> = dest
    BY <1>2, <2>2, JoinedToNone
  <2> QED
    BY <1>1, <2>1, <2>3 DEF WInv, SubstitutedSoFar
<1> QED
  BY <1>3, <1>4, <1>5 DEF WInv

\* Every step keeps it, given that the passes stay together.
LEMMA NextWInv == IInv /\ WInv /\ [Next]_vars => WInv'
<1> SUFFICES ASSUME IInv, WInv, [Next]_vars PROVE WInv'
  OBVIOUS
<1>1. ASSUME NEW j \in Jobs, Call(j) PROVE WInv'
  BY <1>1, CallWInv
<1>2. CASE Validate
  BY <1>2, ValidateWInv
<1>3. CASE Validated
  BY <1>3, ValidatedWInv
<1>4. CASE MeasureOne \/ MeasureAll
  BY <1>4, MeasureWInv
<1>5. CASE Allocate
  BY <1>5, AllocateWInv
<1>6. CASE Write
  BY <1>6, WriteWInv
<1>7. CASE Throw \/ AssertFails \/ Finish
  BY <1>7, StopsWInv
<1>8. CASE Return
  BY <1>8 DEF Return, WInv, Underway, WholeSoFar, CheckedSoFar, SubstitutedSoFar, SubstitutionAgrees
<1>9. CASE UNCHANGED vars
  BY <1>9 DEF vars, WInv, Underway, WholeSoFar, CheckedSoFar, SubstitutedSoFar,
              SubstitutionAgrees, Left
<1> QED
  BY <1>1, <1>2, <1>3, <1>4, <1>5, <1>6, <1>7, <1>8, <1>9 DEF Next, Turn

\* At every moment what was read of the text and what is left of it agree.
THEOREM WInvHolds == Spec => []WInv
BY InitWInv, NextWInv, IInvHolds, PTL DEF Spec

\* What a conversion to UTF-8 returns is UTF-8, whatever it was given and in
\* every mode: from_validated() may take it without looking.
THEOREM ResultsAreValid == Spec => []ResultsValid
<1>1. WInv => ResultsValid
  BY DEF WInv, WholeSoFar, ResultsValid
<1> QED
  BY <1>1, WInvHolds, PTL

\* string::set() throws at the texts that utf8_to_utf16() and utf8_to_utf32()
\* throw at and at no other, and repairs to what they substitute: the three
\* walks over UTF-8 agree on every sequence of bytes.
THEOREM WalkersAlwaysAgree == Spec => []WalkersAgree
<1>1. WInv => WalkersAgree
  BY DEF WInv, CheckedSoFar, SubstitutionAgrees, CheckAgrees, WalkersAgree
<1> QED
  BY <1>1, WInvHolds, PTL

-----------------------------------------------------------------------------
(* Texts in Unicode *)

\* A scalar value is a code point, and neither a surrogate nor an error; each
\* encoding has the form that is written for it.
LEMMA ScalarForms ==
  ASSUME NEW c, IsScalar(c)
  PROVE  /\ c \in Nat /\ c <= MaxCode /\ c \notin High \cup Low /\ char_error(c) = success
         /\ Form("utf8", c) = write_utf8(c) /\ write_utf8(c) \in Seq(Nat) /\ write_utf8(c) # <<>>
         /\ Form("utf16", c) = write_utf16(c) /\ write_utf16(c) \in Seq(Nat) /\ write_utf16(c) # <<>>
         /\ Form("utf32", c) = <<c>>
         /\ c < 256 => Form("latin1", c) = <<c>>
         /\ ~(c < 256) => Form("latin1", c) = BadChar.latin1
<1>1. c \in Nat /\ c <= MaxCode /\ c \notin High \cup Low
  <2>1. c \in Nat /\ c <= MaxCode /\ (c < 55296 \/ 57343 < c)
    BY SMT DEF IsScalar, MaxCode
  <2>2. c \notin High
    BY <2>1, SMT DEF High
  <2>3. c \notin Low
    BY <2>1, SMT DEF Low
  <2> QED
    BY <2>1, <2>2, <2>3
<1>2. char_error(c) = success
  BY <1>1, SMT DEF char_error, success, ErrorBit, MaxCode
<1>3. Form("utf8", c) = UTF8(c) /\ Form("utf16", c) = UTF16(c) /\ Form("utf32", c) = <<c>>
      /\ Form("latin1", c) = Latin1(c)
  BY DEF Form
<1>4. write_utf8(c) = UTF8(c) /\ write_utf16(c) = UTF16(c)
  BY <1>1, EncodedByTheTables
<1>5. write_utf8(c) \in Seq(Nat) /\ write_utf16(c) \in Seq(Nat)
  BY <1>1, Utf8Measured, Utf16Measured
<1>6. write_utf8(c) # <<>>
  <2>1. Len(write_utf8(c)) \in 1 .. 4
    BY <1>1, EncodedWhole
  <2> QED
    BY <2>1
<1>7. write_utf16(c) # <<>>
  BY <1>1, SMT DEF write_utf16, MaxCode
<1>8. /\ c < 256 => Latin1(c) = <<c>>
      /\ ~(c < 256) => Latin1(c) = BadChar.latin1
  BY <1>1, SMT DEF Latin1, BadChar
<1>9. c < 256 => Form("latin1", c) = <<c>>
  BY <1>3, <1>8
<1>10. ~(c < 256) => Form("latin1", c) = BadChar.latin1
  BY <1>3, <1>8
<1>11. Form("utf8", c) = write_utf8(c) /\ Form("utf16", c) = write_utf16(c) /\ Form("utf32", c) = <<c>>
  BY <1>3, <1>4
<1> QED
  BY ONLY <1>1, <1>2, <1>5, <1>6, <1>7, <1>9, <1>10, <1>11

\* The form of a character is not empty.
LEMMA FormType ==
  ASSUME NEW enc \in Encodings, NEW c, IsScalar(c)
  PROVE  Form(enc, c) \in Seq(Nat) /\ Len(Form(enc, c)) \in Nat /\ Len(Form(enc, c)) > 0
<1>1. Form(enc, c) \in Seq(Nat) /\ Form(enc, c) # <<>>
  <2>1. BadChar.latin1 \in Seq(Nat) /\ BadChar.latin1 # <<>>
    BY DEF BadChar
  <2>2. c \in Nat /\ <<c>> \in Seq(Nat) /\ <<c>> # <<>>
    BY ScalarForms
  <2>3. CASE enc = "latin1"
    BY <2>1, <2>2, <2>3, ScalarForms
  <2>4. CASE enc # "latin1"
    BY <2>2, <2>4, ScalarForms DEF Encodings
  <2> QED
    BY <2>3, <2>4
<1> QED
  BY <1>1, EmptySeq

\* What Encoding(enc, t) is at k, if f is what it is up to there.
EncodingAt(enc, t, f, k) == IF k = 0 THEN <<>> ELSE f[k - 1] \o Form(enc, t[k])

\* There is a function that encodes a text up to each place.
LEMMA EncodingExists ==
  ASSUME NEW enc, NEW t \in Seq(Nat)
  PROVE  Encoding(enc, t) = [k \in 0 .. Len(t) |-> EncodingAt(enc, t, Encoding(enc, t), k)]
<1> DEFINE n == Len(t)
           Right(f, k) == /\ f = [x \in 0 .. n |-> f[x]]
                          /\ \A x \in 0 .. n : x < k => f[x] = EncodingAt(enc, t, f, x)
           G == {k \in Nat : \E f : Right(f, k)}
<1>1. n \in Nat
  OBVIOUS
<1>2. ASSUME NEW k \in Nat, \A j \in 0 .. k - 1 : j \in G PROVE k \in G
  <2>1. CASE k = 0
    <3>1. Right([x \in 0 .. n |-> <<>>], 0)
      BY <1>1
    <3> QED
      BY <2>1, <3>1
  <2>2. CASE k # 0
    <3>1. k - 1 \in 0 .. k - 1 /\ k - 1 \in Nat
      BY <2>2
    <3>2. PICK f : Right(f, k - 1)
      BY <1>2, <3>1
    <3>3. CASE k - 1 > n
      <4>1. \A x \in 0 .. n : x < k - 1
        BY <1>1, <3>1, <3>3
      <4>2. Right(f, k)
        BY <3>2, <4>1
      <4> QED
        BY <4>2
    <3>4. CASE k - 1 <= n
      <4> DEFINE q == k - 1
                 g == [f EXCEPT ![q] = EncodingAt(enc, t, f, q)]
      <4>1. q \in 0 .. n
        BY <1>1, <3>1, <3>4
      <4>2. g = [x \in 0 .. n |-> IF x = q THEN EncodingAt(enc, t, f, q) ELSE f[x]]
        BY <3>2, <4>1
      <4>3. ASSUME NEW x \in 0 .. n, x <= q PROVE EncodingAt(enc, t, g, x) = EncodingAt(enc, t, f, x)
        <5>1. CASE x = 0
          BY <5>1 DEF EncodingAt
        <5>2. CASE x # 0
          <6>1. x - 1 \in 0 .. n /\ x - 1 # q
            BY <1>1, <4>1, <4>3, <5>2
          <6>2. g[x - 1] = f[x - 1]
            BY <4>2, <6>1
          <6> HIDE DEF g
          <6> QED
            BY <6>2 DEF EncodingAt
        <5> QED
          BY <5>1, <5>2
      <4>4. ASSUME NEW x \in 0 .. n, x < k PROVE g[x] = EncodingAt(enc, t, g, x)
        <5>1. x <= q /\ (x # q => x < k - 1)
          BY <1>1, <4>4
        <5>2. x # q => f[x] = EncodingAt(enc, t, f, x)
          BY <3>2, <5>1
        <5>3. g[x] = EncodingAt(enc, t, f, x)
          BY <4>2, <5>2
        <5> QED
          BY <4>3, <5>1, <5>3
      <4>5. g = [x \in 0 .. n |-> g[x]]
        BY <4>2
      <4>6. Right(g, k)
        BY <4>4, <4>5
      <4> QED
        BY <4>6
    <3> QED
      BY <1>1, <3>1, <3>3, <3>4
  <2> QED
    BY <2>1, <2>2
<1>3. n + 1 \in G
  <2>1. n + 1 \in Nat
    BY <1>1
  <2> HIDE DEF G
  <2> QED
    BY <2>1, <1>2, InductionOn
<1>4. PICK f : Right(f, n + 1)
  BY <1>3
<1>5. f = [k \in 0 .. n |-> EncodingAt(enc, t, f, k)]
  <2>1. \A k \in 0 .. n : f[k] = EncodingAt(enc, t, f, k)
    <3>1. \A k \in 0 .. n : k < n + 1
      BY <1>1
    <3> QED
      BY <1>4, <3>1
  <2> QED
    BY <1>4, <2>1
<1> QED
  <2>1. Encoding(enc, t) = CHOOSE h : h = [k \in 0 .. n |-> EncodingAt(enc, t, h, k)]
    BY DEF Encoding, EncodingAt
  <2> QED
    BY <1>5, <2>1

\* A text is encoded character by character.
LEMMA EncodingStep ==
  ASSUME NEW enc \in Encodings, NEW t, IsScalarText(t)
  PROVE  /\ t \in Seq(Nat) /\ Len(t) \in Nat
         /\ Encoding(enc, t)[0] = <<>>
         /\ \A k \in 0 .. Len(t) - 1 :
              /\ k + 1 \in 1 .. Len(t) /\ IsScalar(t[k + 1])
              /\ Encoding(enc, t)[k + 1] = Encoding(enc, t)[k] \o Form(enc, t[k + 1])
<1>1. t \in Seq(Nat) /\ Len(t) \in Nat /\ DOMAIN t = 1 .. Len(t)
  BY DEF IsScalarText
<1>2. PICK e, n : e = Encoding(enc, t) /\ n = Len(t)
  OBVIOUS
<1>3. e = [k \in 0 .. n |-> EncodingAt(enc, t, e, k)] /\ n \in Nat
  BY <1>1, <1>2, EncodingExists
<1>4. \A k \in 0 .. n : e[k] = EncodingAt(enc, t, e, k)
  BY <1>3
<1>5. e[0] = <<>>
  BY <1>3, <1>4 DEF EncodingAt
<1>6. ASSUME NEW k \in 0 .. n - 1
      PROVE  k + 1 \in 1 .. n /\ IsScalar(t[k + 1]) /\ e[k + 1] = e[k] \o Form(enc, t[k + 1])
  <2>1. k + 1 \in 1 .. n /\ k + 1 \in 0 .. n /\ k + 1 # 0 /\ (k + 1) - 1 = k
    BY <1>3
  <2>2. e[k + 1] = EncodingAt(enc, t, e, k + 1)
    BY <1>4, <2>1
  <2> QED
    BY <1>1, <1>2, <2>1, <2>2 DEF EncodingAt, IsScalarText
<1> QED
  BY <1>1, <1>2, <1>5, <1>6

\* Up to each place a text is encoded in units.
LEMMA EncodingType ==
  ASSUME NEW enc \in Encodings, NEW t, IsScalarText(t), NEW k \in 0 .. Len(t)
  PROVE  Encoding(enc, t)[k] \in Seq(Nat)
<1> DEFINE n == Len(t)  e == Encoding(enc, t)
           G == {m \in Nat : m <= n => e[m] \in Seq(Nat)}
<1>1. n \in Nat
  BY EncodingStep
<1>2. ASSUME NEW m \in Nat, \A j \in 0 .. m - 1 : j \in G PROVE m \in G
  <2>1. CASE m = 0
    <3>1. e[0] = <<>> /\ <<>> \in Seq(Nat)
      BY EncodingStep, EmptySeq
    <3> HIDE DEF e
    <3> QED
      BY <2>1, <3>1
  <2>2. CASE m # 0 /\ m <= n
    <3>1. m - 1 \in 0 .. m - 1 /\ m - 1 \in 0 .. n - 1 /\ (m - 1) + 1 = m /\ m - 1 <= n
      BY <1>1, <2>2
    <3>2. e[m - 1] \in Seq(Nat)
      BY <1>2, <3>1
    <3>3. IsScalar(t[m]) /\ e[m] = e[m - 1] \o Form(enc, t[m])
      BY <3>1, EncodingStep
    <3>4. Form(enc, t[m]) \in Seq(Nat)
      BY <3>3, FormType
    <3> HIDE DEF e
    <3> QED
      BY <3>2, <3>3, <3>4, Joined
  <2> QED
    BY <2>1, <2>2
<1>3. k \in Nat /\ k <= n
  BY <1>1
<1>4. k \in G
  <2> HIDE DEF G
  <2> QED
    BY <1>2, <1>3, InductionOn
<1> QED
  BY <1>3, <1>4

\* s is in u at p.
Shows(u, p, s) == p + Len(s) <= Len(u) /\ \A i \in 1 .. Len(s) : u[p + i] = s[i]

\* The whole text begins with what it is encoded as up to each place.
LEMMA EncodingBegins ==
  ASSUME NEW enc \in Encodings, NEW t, IsScalarText(t), NEW k \in 0 .. Len(t)
  PROVE  Shows(Encoded(enc, t), 0, Encoding(enc, t)[k])
<1> DEFINE n == Len(t)  e == Encoding(enc, t)  u == Encoded(enc, t)
           G == {m \in Nat : m <= n => Shows(u, 0, e[n - m])}
<1>1. n \in Nat /\ u = e[n] /\ u \in Seq(Nat)
  <2>1. n \in Nat
    BY EncodingStep
  <2>2. n \in 0 .. Len(t)
    BY <2>1
  <2> QED
    BY <2>1, <2>2, EncodingType DEF Encoded
<1>2. ASSUME NEW m \in Nat, \A j \in 0 .. m - 1 : j \in G PROVE m \in G
  <2>1. CASE m = 0
    <3>1. n - 0 = n /\ Len(u) \in Nat /\ 0 + Len(u) = Len(u) /\ \A i \in 1 .. Len(u) : 0 + i = i
      BY <1>1
    <3> HIDE DEF u, e
    <3>2. Shows(u, 0, u)
      BY <3>1 DEF Shows
    <3> QED
      BY <1>1, <2>1, <3>1, <3>2
  <2>2. CASE m # 0 /\ m <= n
    <3>1. PICK x : x = n - m
      OBVIOUS
    <3>2. m - 1 \in 0 .. m - 1 /\ m - 1 <= n /\ x \in 0 .. n - 1 /\ n - (m - 1) = x + 1 /\ x \in 0 .. n
      BY <1>1, <2>2, <3>1
    <3>3. Shows(u, 0, e[x + 1])
      BY <1>2, <3>2
    <3>4. IsScalar(t[x + 1]) /\ e[x + 1] = e[x] \o Form(enc, t[x + 1]) /\ e[x] \in Seq(Nat)
      BY <3>2, EncodingStep, EncodingType
    <3>5. PICK a, b : a = e[x] /\ b = Form(enc, t[x + 1])
      OBVIOUS
    <3>6. a \in Seq(Nat) /\ b \in Seq(Nat) /\ Shows(u, 0, a \o b)
      BY <3>3, <3>4, <3>5, FormType
    <3>7. /\ Len(a \o b) = Len(a) + Len(b) /\ Len(a) \in Nat /\ Len(b) \in Nat
          /\ \A i \in 1 .. Len(a) : (a \o b)[i] = a[i]
      BY <3>6, Joined
    <3> HIDE DEF u, e
    <3>8. 0 + Len(a) <= Len(u) /\ \A i \in 1 .. Len(a) : i \in 1 .. Len(a \o b)
      BY <1>1, <3>6, <3>7 DEF Shows
    <3>9. Shows(u, 0, a)
      BY <3>6, <3>7, <3>8 DEF Shows
    <3> QED
      BY <3>1, <3>5, <3>9
  <2> QED
    BY <2>1, <2>2
<1>3. PICK m : m = n - k
  OBVIOUS
<1>4. m \in Nat /\ m <= n /\ n - m = k
  BY <1>1, <1>3
<1>5. m \in G
  <2> HIDE DEF G
  <2> QED
    BY <1>2, <1>4, InductionOn
<1> QED
  BY <1>4, <1>5

\* Behind what comes before it, each character is there in its form.
LEMMA CharacterShows ==
  ASSUME NEW enc \in Encodings, NEW t, IsScalarText(t), NEW k \in 0 .. Len(t) - 1
  PROVE  /\ IsScalar(t[k + 1])
         /\ Encoding(enc, t)[k] \in Seq(Nat) /\ Encoded(enc, t) \in Seq(Nat)
         /\ Shows(Encoded(enc, t), Len(Encoding(enc, t)[k]), Form(enc, t[k + 1]))
         /\ Len(Encoding(enc, t)[k + 1]) =
              Len(Encoding(enc, t)[k]) + Len(Form(enc, t[k + 1]))
<1>1. Len(t) \in Nat /\ k \in 0 .. Len(t) /\ k + 1 \in 0 .. Len(t) /\ Len(t) \in 0 .. Len(t)
  BY EncodingStep
<1>2. PICK a, b, c, u : /\ a = Encoding(enc, t)[k] /\ b = Form(enc, t[k + 1])
                        /\ c = Encoding(enc, t)[k + 1] /\ u = Encoded(enc, t)
  OBVIOUS
<1>3. IsScalar(t[k + 1]) /\ c = a \o b
  BY <1>2, EncodingStep
<1>4. a \in Seq(Nat) /\ b \in Seq(Nat) /\ u \in Seq(Nat) /\ Shows(u, 0, c)
  BY <1>1, <1>2, <1>3, FormType, EncodingType, EncodingBegins DEF Encoded
<1>5. /\ Len(c) = Len(a) + Len(b) /\ Len(a) \in Nat /\ Len(b) \in Nat /\ Len(u) \in Nat
      /\ \A i \in 1 .. Len(b) : c[Len(a) + i] = b[i]
  BY <1>3, <1>4, Joined
<1>6. Len(a) + Len(b) <= Len(u)
  BY <1>4, <1>5 DEF Shows
<1>7. ASSUME NEW i \in 1 .. Len(b) PROVE u[Len(a) + i] = b[i]
  <2>1. Len(a) + i \in 1 .. Len(c) /\ 0 + (Len(a) + i) = Len(a) + i
    BY <1>5
  <2>2. u[0 + (Len(a) + i)] = c[Len(a) + i]
    BY <1>4, <2>1 DEF Shows
  <2> QED
    BY <1>5, <2>1, <2>2
<1>8. Shows(u, Len(a), b)
  BY <1>6, <1>7 DEF Shows
<1> QED
  BY <1>2, <1>3, <1>4, <1>5, <1>8

-----------------------------------------------------------------------------
(* What the loops make of a text in Unicode *)

\* A character shown in UTF-8 is what each of the three walks finds there.
LEMMA ShownInUtf8 ==
  ASSUME NEW u \in Seq(Nat), NEW p \in Nat, NEW c \in Nat, c <= MaxCode,
         NEW s, s = write_utf8(c), Shows(u, p, s)
  PROVE  /\ extract_utf8(u, p) = Char(c, Len(s))
         /\ cleanup_utf8(u, p).units = s /\ cleanup_utf8(u, p).len = Len(s)
         /\ validate_utf8(u, p).error = success /\ validate_utf8(u, p).len = Len(s)
<1>1. /\ s \in Seq(Nat) /\ Len(s) \in 1 .. 4 /\ Announced(s[1]) = Len(s)
      /\ Whole(s, 0, Len(s)) /\ Assembled(s, 0, Len(s)) = c
  BY EncodedWhole
<1>2. PICK n : n = Len(s)
  OBVIOUS
<1>3. /\ n \in 1 .. 4 /\ 0 + 1 = 1 /\ 0 \in 0 .. Len(s) - 1 /\ n # 0 /\ n \in Nat
      /\ p + n <= Len(u) /\ Len(u) \in Nat
      /\ \A i \in 1 .. n : u[p + i] = s[i] /\ 0 + i = i
  <2>1. n \in 1 .. 4 /\ Len(u) \in Nat
    <3>1. Len(u) \in Nat
      BY ONLY u \in Seq(Nat)
    <3> QED
      BY ONLY <1>1, <1>2, <3>1
  <2>2. p + n <= Len(u) /\ \A i \in 1 .. n : u[p + i] = s[i]
    BY <1>2 DEF Shows
  <2>3. n # 0 /\ n \in Nat /\ 0 \in 0 .. n - 1 /\ 0 + 1 = 1 /\ \A i \in 1 .. n : 0 + i = i
    BY <2>1
  <2> QED
    BY <1>2, <2>1, <2>2, <2>3
<1>4. Announced(s[0 + 1]) = n /\ Whole(s, 0, n) /\ Assembled(s, 0, n) = c
  BY <1>1, <1>2, <1>3
<1>5. extract_utf8(s, 0) = Char(c, n)
  BY <1>1, <1>3, <1>4, WholeReads
<1>6. /\ extract_utf8(u, p) = extract_utf8(s, 0)
      /\ Announced(u[p + 1]) = Announced(s[0 + 1])
      /\ Whole(u, p, Announced(u[p + 1]))
  <2>1. \A i \in 1 .. Announced(s[0 + 1]) : u[p + i] = s[0 + i]
    BY <1>3, <1>4
  <2>2. Announced(s[0 + 1]) # 0 /\ Whole(s, 0, Announced(s[0 + 1])) /\ p + Announced(s[0 + 1]) <= Len(u)
    BY <1>3, <1>4
  <2> QED
    BY <1>1, <1>3, <2>1, <2>2, WholeSame
<1>7. cleanup_utf8(u, p) = [units |-> SubSeq(u, p + 1, p + n), len |-> n]
  BY <1>3, <1>4, <1>6 DEF cleanup_utf8
<1>8. SubSeq(u, p + 1, p + n) = s
  <2>1. PICK d : d = SubSeq(u, p + 1, p + n)
    OBVIOUS
  <2>2. p + 1 \in Int /\ p + n \in Int /\ p + 1 <= p + n /\ (p + n) - (p + 1) + 1 = n
    BY <1>3
  <2>3. \A i \in p + 1 .. p + n : u[i] \in Nat
    <3> SUFFICES ASSUME NEW i \in p + 1 .. p + n PROVE u[i] \in Nat
      OBVIOUS
    <3>1. i \in 1 .. Len(u)
      BY <1>3
    <3> QED
      BY <3>1, ElementOfSeq, Zenon
  <2>4. d \in Seq(Nat) /\ Len(d) = n /\ \A i \in 1 .. n : d[i] = u[(p + 1) + i - 1]
    BY <2>1, <2>2, <2>3, SubSeqProperties
  <2>5. \A i \in 1 .. n : (p + 1) + i - 1 = p + i
    BY <1>3
  <2>6. \A i \in 1 .. Len(s) : d[i] = s[i]
    BY <1>2, <1>3, <2>4, <2>5
  <2>7. d = s
    BY <1>1, <1>2, <2>4, <2>6, SeqEqual
  <2> QED
    BY <2>1, <2>7
<1>9. validate_utf8(u, p).error = success /\ validate_utf8(u, p).len = n
  BY <1>3, <1>4, <1>6 DEF validate_utf8, Whole
<1> QED
  BY <1>2, <1>5, <1>6, <1>7, <1>8, <1>9

\* The bits of a surrogate are what was added to its mark.
LEMMA SurrogateBits ==
  ASSUME NEW h \in Nat, h < 1024
  PROVE  /\ 55296 + h \in High /\ Bits(55296 + h, 1024) = h
         /\ 56320 + h \in Low /\ Bits(56320 + h, 1024) = h
<1>1. 55296 + h \in High
  BY SMT DEF High
<1>2. 56320 + h \in Low
  BY SMT DEF Low
<1>3. Bits(55296 + h, 1024) = h /\ Bits(56320 + h, 1024) = h
  BY SMT DEF Bits
<1> QED
  BY <1>1, <1>2, <1>3, SMT

\* A character shown in UTF-16 is what is read there.
LEMMA ShownInUtf16 ==
  ASSUME NEW u \in Seq(Nat), NEW p \in Nat, NEW c, IsScalar(c),
         NEW s, s = write_utf16(c), Shows(u, p, s)
  PROVE  extract_utf16(u, p) = Char(c, Len(s))
<1>1. c \in Nat /\ c <= MaxCode /\ c \notin High \cup Low
  BY ScalarForms
<1>2. CASE c < 65536
  <2>1. s = <<c>>
    BY <1>2, SMT DEF write_utf16
  <2>2. Len(s) = 1 /\ s[1] = c /\ 1 \in 1 .. Len(s)
    BY <2>1
  <2>3. u[p + 1] = c
    BY <2>2 DEF Shows
  <2> QED
    BY <1>1, <2>2, <2>3 DEF extract_utf16
<1>3. CASE ~(c < 65536)
  <2>1. PICK h, l : h = Bits((c - 65536) \div 1024, 1024) /\ l = Bits(c - 65536, 1024)
    OBVIOUS
  <2>2. h \in Nat /\ h < 1024 /\ l \in Nat /\ l < 1024 /\ 65536 + h * 1024 + l = c
    <3>1. PICK d : d = c - 65536
      OBVIOUS
    <3>2. d \in Nat /\ d < 1048576 /\ 65536 + d = c
      BY <1>1, <1>3, <3>1, SMT DEF MaxCode
    <3>3. d \div 1024 \in Nat /\ d \div 1024 < 1024 /\ (d \div 1024) * 1024 + (d % 1024) = d
          /\ d % 1024 \in Nat /\ d % 1024 < 1024
      BY <3>2, SMT
    <3>4. PICK x, y : x = d \div 1024 /\ y = d % 1024
      OBVIOUS
    <3>5. x \in Nat /\ x < 1024 /\ y \in Nat /\ y < 1024 /\ x * 1024 + y = d
      BY <3>3, <3>4, SMT
    <3>6. h = x % 1024 /\ l = y
      BY <2>1, <3>1, <3>4, SMT DEF Bits
    <3>7. x % 1024 = x
      BY <3>5, SMT
    <3> QED
      BY <3>2, <3>5, <3>6, <3>7, SMT
  <2>3. s = <<55296 + h, 56320 + l>>
    BY <1>1, <1>3, <2>1, SMT DEF write_utf16, MaxCode
  <2>4. PICK hi, lo : hi = 55296 + h /\ lo = 56320 + l
    OBVIOUS
  <2>5. hi \in High /\ lo \in Low /\ Bits(hi, 1024) = h /\ Bits(lo, 1024) = l
    BY <2>2, <2>4, SurrogateBits
  <2>6. s = <<hi, lo>>
    BY <2>3, <2>4, SMT
  <2>7. Len(s) = 2 /\ s[1] = hi /\ s[2] = lo /\ 1 \in 1 .. Len(s) /\ 2 \in 1 .. Len(s)
    BY <2>6
  <2>8. u[p + 1] = hi /\ u[p + 2] = lo /\ ~(p + 1 >= Len(u))
    <3>1. p + 2 <= Len(u) /\ Len(u) \in Nat
      BY <2>7 DEF Shows
    <3>2. u[p + 1] = hi /\ u[p + 2] = lo
      BY <2>7 DEF Shows
    <3> QED
      BY <3>1, <3>2
  <2>9. Pair(hi, lo) = c
    BY <2>2, <2>5, SMT DEF Pair
  <2>10. extract_utf16(u, p) = Char(Pair(hi, lo), 2)
    BY <2>5, <2>8 DEF extract_utf16
  <2> QED
    BY <2>7, <2>9, <2>10
<1> QED
  BY <1>2, <1>3

\* What a conversion is to write for a character.
Due(c) ==
  IF Target = "latin1" /\ ~job.sub /\ ~(c < 256) THEN Raise(latin1_out_of_range)
  ELSE Units(Form(Target, c))

\* What the three kinds of loops write for a character they have read.
LEMMA DueForms ==
  ASSUME NEW c, IsScalar(c)
  PROVE  /\ Target = "utf8" => AssertInRange(write_utf8(c)) = Due(c) /\ Units(write_utf8(c)) = Due(c)
         /\ Target = "utf16" => AssertInRange(write_utf16(c)) = Due(c) /\ Units(write_utf16(c)) = Due(c)
         /\ Target = "utf32" => Units(<<c>>) = Due(c)
         /\ Target = "latin1" => Narrowed(c, job.sub) = Due(c)
         /\ char_error(c) = success /\ c \in Nat /\ ~(c > MaxCode)
         /\ write_utf8(c) # <<>> /\ write_utf16(c) # <<>>
<1>1. /\ char_error(c) = success /\ c \in Nat /\ c <= MaxCode
      /\ write_utf8(c) # <<>> /\ write_utf16(c) # <<>>
  BY ScalarForms
<1>2. ~(c > MaxCode)
  BY <1>1, SMT DEF MaxCode
<1>3. Target = "utf8" => AssertInRange(write_utf8(c)) = Due(c) /\ Units(write_utf8(c)) = Due(c)
  BY <1>1, ScalarForms DEF Due, AssertInRange
<1>4. Target = "utf16" => AssertInRange(write_utf16(c)) = Due(c) /\ Units(write_utf16(c)) = Due(c)
  BY <1>1, ScalarForms DEF Due, AssertInRange
<1>5. Target = "utf32" => Units(<<c>>) = Due(c)
  BY ScalarForms DEF Due
<1>6. Target = "latin1" => Narrowed(c, job.sub) = Due(c)
  BY ScalarForms DEF Due, Narrowed
<1> QED
  BY <1>1, <1>2, <1>3, <1>4, <1>5, <1>6

\* A turn of any conversion, at a place that shows a character in the encoding
\* it reads, passes the character and writes what is due for it.
LEMMA TurnsTranscode ==
  ASSUME job \in Jobs, NEW p \in 0 .. Len(job.units) - 1, NEW c, IsScalar(c),
         Source[job.call] = "latin1" => c < 256,
         Shows(job.units, p, Form(Source[job.call], c))
  PROVE  /\ Passed(job, p) = Len(Form(Source[job.call], c))
         /\ Outcome(job, p) = Due(c)
<1>1. PICK u, s, sub, mode : /\ u = job.units /\ s = Form(Source[job.call], c)
                             /\ sub = job.sub /\ mode = job.mode
  OBVIOUS
<1>2. u \in Seq(Nat) /\ job.call \in Calls /\ Shows(u, p, s) /\ p \in Nat
  BY <1>1, JobShape
<1>3. c \in Nat /\ c <= MaxCode /\ char_error(c) = success
  BY ScalarForms
<1>4. ASSUME Source[job.call] = "utf8"
      PROVE  extract_utf8(u, p) = Char(c, Len(s)) /\ cleanup_utf8(u, p).units = s
             /\ cleanup_utf8(u, p).len = Len(s) /\ s = write_utf8(c)
  <2>1. s = write_utf8(c)
    BY <1>1, <1>4, ScalarForms
  <2> QED
    BY <1>2, <1>3, <2>1, ShownInUtf8
<1>5. ASSUME Source[job.call] = "utf16" PROVE extract_utf16(u, p) = Char(c, Len(s))
  <2>1. s = write_utf16(c)
    BY <1>1, <1>5, ScalarForms
  <2> QED
    BY <1>2, <2>1, ShownInUtf16
<1>6. ASSUME Source[job.call] \in {"utf32", "latin1"} PROVE u[p + 1] = c /\ Len(s) = 1
  <2>1. s = <<c>>
    BY <1>1, <1>6, ScalarForms
  <2>2. Len(s) = 1 /\ s[1] = c /\ 1 \in 1 .. Len(s)
    BY <2>1
  <2> QED
    BY <1>2, <2>2 DEF Shows
<1>7. Passed(job, p) = Len(s)
  <2>1. Source[job.call] \in {"utf8", "utf16", "utf32", "latin1"}
        /\ (job.call = "set" => Source[job.call] = "utf8")
    BY <1>2 DEF Source, Calls, ToUtf8, ToUtf16, ToUtf32, ToLatin1
  <2>2. CASE job.call = "set"
    BY <1>1, <1>4, <2>1, <2>2 DEF Passed
  <2>3. CASE job.call # "set" /\ Source[job.call] = "utf8"
    BY <1>1, <1>4, <2>3 DEF Passed, Char
  <2>4. CASE job.call # "set" /\ Source[job.call] = "utf16"
    BY <1>1, <1>5, <2>4 DEF Passed, Char
  <2>5. CASE job.call # "set" /\ Source[job.call] \in {"utf32", "latin1"}
    BY <1>1, <1>6, <2>5 DEF Passed
  <2> QED
    BY <2>1, <2>2, <2>3, <2>4, <2>5
<1> DEFINE o == Outcome(job, p)
<1>8. CASE job.call = "set"
  <2>1. Target = "utf8" /\ Source[job.call] = "utf8"
    BY <1>8 DEF Target, ToUtf8, Source
  <2>2. o = Units(cleanup_utf8(u, p).units)
    BY <1>1, <1>8 DEF Outcome
  <2> QED
    BY <1>1, <1>4, <1>7, <2>1, <2>2, DueForms
<1>9. CASE job.call = "utf16_to_utf8"
  <2>1. Target = "utf8" /\ Source[job.call] = "utf16"
    BY <1>9 DEF Target, ToUtf8, Source
  <2>2. o = utf8_convert_from_utf16(u, p, mode)
    BY <1>1, <1>9 DEF Outcome
  <2> QED
    BY <1>1, <1>3, <1>5, <1>7, <2>1, <2>2, DueForms DEF utf8_convert_from_utf16, Char
<1>10. CASE job.call = "utf32_to_utf8"
  <2>1. Target = "utf8" /\ Source[job.call] = "utf32"
    BY <1>10 DEF Target, ToUtf8, Source
  <2>2. o = utf8_convert_from_utf32(u, p, mode)
    BY <1>1, <1>10 DEF Outcome
  <2> QED
    BY <1>1, <1>6, <1>7, <2>1, <2>2, DueForms DEF utf8_convert_from_utf32
<1>11. CASE job.call = "latin_1_to_utf8"
  <2>1. Target = "utf8" /\ Source[job.call] = "latin1"
    BY <1>11 DEF Target, ToUtf8, Source
  <2>2. o = utf8_convert_from_latin_1(u, p)
    BY <1>1, <1>11 DEF Outcome
  <2>3. utf8_convert_from_latin_1(u, p) = Units(write_utf8(c))
    <3>1. u[p + 1] = c /\ c < 256
      BY <1>6, <2>1
    <3> QED
      BY <1>3, <3>1, SMTT(30) DEF utf8_convert_from_latin_1, write_utf8
  <2> QED
    BY <1>1, <1>7, <2>1, <2>2, <2>3, DueForms
<1>12. CASE job.call = "utf8_to_utf16"
  <2>1. Target = "utf16" /\ Source[job.call] = "utf8"
    BY <1>12 DEF Target, ToUtf8, ToUtf16, Source
  <2>2. o = utf16_convert_from_utf8(u, p, mode)
    BY <1>1, <1>12 DEF Outcome
  <2> QED
    BY <1>1, <1>3, <1>4, <1>7, <2>1, <2>2, DueForms DEF utf16_convert_from_utf8, Char
<1>13. CASE job.call = "utf32_to_utf16"
  <2>1. Target = "utf16" /\ Source[job.call] = "utf32"
    BY <1>13 DEF Target, ToUtf8, ToUtf16, Source
  <2>2. o = utf16_convert_from_utf32(u, p, mode)
    BY <1>1, <1>13 DEF Outcome
  <2> QED
    BY <1>1, <1>6, <1>7, <2>1, <2>2, DueForms DEF utf16_convert_from_utf32
<1>14. CASE job.call = "latin_1_to_utf16"
  <2>1. Target = "utf16" /\ Source[job.call] = "latin1"
    BY <1>14 DEF Target, ToUtf8, ToUtf16, Source
  <2>2. o = utf16_convert_from_latin_1(u, p)
    BY <1>1, <1>14 DEF Outcome
  <2>3. utf16_convert_from_latin_1(u, p) = Units(write_utf16(c))
    <3>1. u[p + 1] = c /\ c < 256
      BY <1>6, <2>1
    <3> QED
      BY <1>3, <3>1, SMT DEF utf16_convert_from_latin_1, write_utf16
  <2> QED
    BY <1>1, <1>7, <2>1, <2>2, <2>3, DueForms
<1>15. CASE job.call \in ToUtf32
  <2>1. Target = "utf32"
    BY <1>15 DEF Target, ToUtf8, ToUtf16, ToUtf32
  <2>2. CASE job.call = "utf8_to_utf32"
    <3>1. o = utf32_convert_from_utf8(u, p, mode) /\ Source[job.call] = "utf8"
      BY <1>1, <2>2 DEF Outcome, Source
    <3> QED
      BY <1>1, <1>3, <1>4, <1>7, <2>1, <3>1, DueForms DEF utf32_convert_from_utf8, Char
  <2>3. CASE job.call = "utf16_to_utf32"
    <3>1. o = utf32_convert_from_utf16(u, p, mode) /\ Source[job.call] = "utf16"
      BY <1>1, <2>3 DEF Outcome, Source
    <3> QED
      BY <1>1, <1>3, <1>5, <1>7, <2>1, <3>1, DueForms DEF utf32_convert_from_utf16, Char
  <2>4. CASE job.call = "latin_1_to_utf32"
    <3>1. o = utf32_convert_from_latin_1(u, p) /\ Source[job.call] = "latin1"
      BY <1>1, <2>4 DEF Outcome, Source
    <3> QED
      BY <1>1, <1>6, <1>7, <2>1, <3>1, DueForms DEF utf32_convert_from_latin_1
  <2> QED
    BY <1>15, <2>2, <2>3, <2>4 DEF ToUtf32
<1>16. CASE job.call \in ToLatin1
  <2>1. Target = "latin1"
    BY <1>16 DEF Target, ToUtf8, ToUtf16, ToUtf32, ToLatin1
  <2>2. CASE job.call = "utf8_to_latin_1"
    <3>1. o = latin_1_convert_from_utf8(u, p, mode, sub) /\ Source[job.call] = "utf8"
      BY <1>1, <2>2 DEF Outcome, Source
    <3> QED
      BY <1>1, <1>3, <1>4, <1>7, <2>1, <3>1, DueForms DEF latin_1_convert_from_utf8, Char
  <2>3. CASE job.call = "utf16_to_latin_1"
    <3>1. o = latin_1_convert_from_utf16(u, p, mode, sub) /\ Source[job.call] = "utf16"
      BY <1>1, <2>3 DEF Outcome, Source
    <3> QED
      BY <1>1, <1>3, <1>5, <1>7, <2>1, <3>1, DueForms DEF latin_1_convert_from_utf16, Char
  <2>4. CASE job.call = "utf32_to_latin_1"
    <3>1. o = latin_1_convert_from_utf32(u, p, mode, sub) /\ Source[job.call] = "utf32"
      BY <1>1, <2>4 DEF Outcome, Source
    <3> QED
      BY <1>1, <1>6, <1>7, <2>1, <3>1, DueForms DEF latin_1_convert_from_utf32
  <2> QED
    BY <1>16, <2>2, <2>3, <2>4 DEF ToLatin1
<1> QED
  BY <1>2, <1>8, <1>9, <1>10, <1>11, <1>12, <1>13, <1>14, <1>15, <1>16
     DEF Calls, ToUtf8, ToUtf16, ToUtf32, ToLatin1

\* The text under way is t, in the encoding the call reads.
Encodes(t) ==
  /\ job.units = Encoded(Source[job.call], t)
  /\ Source[job.call] = "latin1" => \A i \in DOMAIN t : t[i] < 256

\* One of the first k characters is one that Latin-1 lacks and the caller
\* does not want substituted.
Lacks(t, k) == Target = "latin1" /\ ~job.sub /\ \E i \in 1 .. k : t[i] > 255

\* The loop is behind the first k characters of t.
Behind(t, k) == k \in 0 .. Len(t) /\ sp = Len(Encoding(Source[job.call], t)[k])

\* Up to some character the text was read, and what it encodes was written.
TranscodedSoFar ==
  \A t \in ScalarTexts : Encodes(t) =>
    /\ phase = "validate" => \E k : Behind(t, k)
    /\ phase = "convert" =>
         \E k : Behind(t, k) /\ dest = Encoding(Target, t)[k] /\ ~Lacks(t, k)
    /\ Ended =>
         IF Lacks(t, Len(t)) THEN phase = "thrown" /\ error = latin1_out_of_range
         ELSE phase = "done" /\ dest = Encoded(Target, t)

\* The encodings of a call.
LEMMA CallEncodings ==
  ASSUME job \in Jobs
  PROVE  /\ Source[job.call] \in Encodings /\ Target \in Encodings
         /\ job.call = "set" => Source[job.call] = "utf8" /\ Target = "utf8"
<1>1. job.call \in Calls
  BY JobShape
<1>2. Source[job.call] \in Encodings
  BY <1>1 DEF Source, Calls, ToUtf8, ToUtf16, ToUtf32, ToLatin1, Encodings
<1>3. Target \in Encodings
  BY DEF Target, Encodings
<1>4. job.call = "set" => Source[job.call] = "utf8" /\ Target = "utf8"
  BY DEF Source, Target, ToUtf8
<1> QED
  BY <1>2, <1>3, <1>4

\* Behind k characters the loop is at the end, or the next one shows.
LEMMA NextCharacter ==
  ASSUME IInv, phase # "idle", NEW t \in ScalarTexts, Encodes(t), NEW k, Behind(t, k)
  PROVE  /\ AtEnd => k = Len(t)
         /\ ~AtEnd =>
              /\ k \in 0 .. Len(t) - 1 /\ sp \in 0 .. Len(job.units) - 1
              /\ IsScalar(t[k + 1]) /\ (Source[job.call] = "latin1" => t[k + 1] < 256)
              /\ Shows(job.units, sp, Form(Source[job.call], t[k + 1]))
              /\ k + 1 \in 0 .. Len(t)
              /\ Len(Encoding(Source[job.call], t)[k + 1]) =
                   sp + Len(Form(Source[job.call], t[k + 1]))
<1>1. PICK src, u, n, m : src = Source[job.call] /\ u = job.units /\ n = Len(t) /\ m = Len(u)
  OBVIOUS
<1>2. /\ job \in Jobs /\ u \in Seq(Nat) /\ src \in Encodings
      /\ ~AtEnd => sp \in 0 .. m - 1
      /\ AtEnd => sp = m
  BY <1>1, LeftAtTheEnds, CallEncodings
<1>3. IsScalarText(t)
  BY ScalarTextsAssumption
<1>4. t \in Seq(Nat) /\ n \in Nat /\ DOMAIN t = 1 .. n /\ m \in Nat
  <2>1. t \in Seq(Nat) /\ Len(t) \in Nat
    BY <1>2, <1>3, EncodingStep
  <2>2. Len(u) \in Nat /\ DOMAIN t = 1 .. Len(t)
    BY <1>2, <2>1
  <2> QED
    BY <1>1, <2>1, <2>2
<1>5. k \in 0 .. n /\ sp = Len(Encoding(src, t)[k]) /\ u = Encoded(src, t)
  BY <1>1 DEF Behind, Encodes
<1>6. CASE k = n
  <2>1. sp = m
    BY <1>1, <1>5, <1>6 DEF Encoded
  <2>2. AtEnd
    <3>1. ~(sp \in 0 .. m - 1)
      BY <1>4, <2>1
    <3> QED
      BY <1>2, <3>1
  <2> QED
    BY <1>1, <1>6, <2>2
<1>7. CASE k # n
  <2>1. k \in 0 .. n - 1 /\ k + 1 \in 0 .. n /\ k + 1 \in 1 .. n
    BY <1>4, <1>5, <1>7
  <2>2. PICK c, f : c = t[k + 1] /\ f = Form(src, c)
    OBVIOUS
  <2>3. /\ IsScalar(c) /\ Shows(u, sp, f)
        /\ Len(Encoding(src, t)[k + 1]) = sp + Len(f)
    BY <1>1, <1>2, <1>3, <1>5, <2>1, <2>2, CharacterShows
  <2>4. Len(f) \in Nat /\ Len(f) > 0
    BY <1>2, <2>2, <2>3, FormType
  <2>5. sp + Len(f) <= m
    BY <1>1, <2>3 DEF Shows
  <2>6. ~AtEnd
    BY <1>2, <1>4, <2>4, <2>5
  <2>7. src = "latin1" => c < 256
    BY <1>1, <1>4, <2>1, <2>2 DEF Encodes
  <2> QED
    BY <1>1, <1>2, <2>1, <2>2, <2>3, <2>6, <2>7
<1> QED
  BY <1>6, <1>7

\* A conversion without a character written lacks none.
LEMMA NothingLacked == ASSUME NEW t PROVE ~Lacks(t, 0)
BY DEF Lacks

\* At the start of a text no character has been read.
LEMMA BehindNone ==
  ASSUME NEW t \in ScalarTexts, NEW enc \in Encodings
  PROVE  0 \in 0 .. Len(t) /\ Encoding(enc, t)[0] = <<>> /\ Len(Encoding(enc, t)[0]) = 0
<1>1. IsScalarText(t)
  BY ScalarTextsAssumption
<1>2. Encoding(enc, t)[0] = <<>> /\ Len(t) \in Nat
  BY <1>1, EncodingStep
<1> QED
  BY <1>2

\* Before a call there is nothing to show.
LEMMA InitTInv == Init => TranscodedSoFar
BY DEF Init, TranscodedSoFar, Ended

\* A call begins at the start; what it returns as it was given is UTF-8.
LEMMA CallTInv == ASSUME IInv, NEW j \in Jobs, Call(j) PROVE TranscodedSoFar'
<1>1. j.mode \in Modes
  BY JobShape
<1>2. /\ job' = j /\ sp' = 0
      /\ phase' \in {"measure", "validate", "done"}
      /\ phase' = "done" => j.call = "set" /\ dest' = j.units
  BY <1>1 DEF Call, Modes
<1>3. /\ Source[j.call] \in Encodings
      /\ j.call = "set" => Source[j.call] = "utf8" /\ Target' = "utf8"
  <2>1. j.call \in Calls
    BY JobShape
  <2>2. Source[j.call] \in Encodings
    BY <2>1 DEF Source, Calls, ToUtf8, ToUtf16, ToUtf32, ToLatin1, Encodings
  <2>3. j.call = "set" => Source[j.call] = "utf8" /\ Target' = "utf8"
    BY <1>2 DEF Source, Target, ToUtf8
  <2> QED
    BY <2>2, <2>3
<1> SUFFICES ASSUME NEW t \in ScalarTexts, Encodes(t)'
             PROVE  /\ phase' = "validate" => \E k : Behind(t, k)'
                    /\ phase' = "convert" =>
                         \E k : Behind(t, k)' /\ dest' = Encoding(Target', t)[k] /\ ~Lacks(t, k)'
                    /\ Ended' =>
                         IF Lacks(t, Len(t))' THEN phase' = "thrown" /\ error' = latin1_out_of_range
                         ELSE phase' = "done" /\ dest' = Encoded(Target', t)
  BY DEF TranscodedSoFar
<1>4. CASE phase' = "measure"
  BY <1>4 DEF Ended
<1>5. CASE phase' = "validate"
  <2>1. Behind(t, 0)'
    BY <1>2, <1>3, BehindNone DEF Behind
  <2> QED
    BY <1>5, <2>1 DEF Ended
<1>6. CASE phase' = "done"
  <2>1. Target' = "utf8" /\ Source[j.call] = "utf8"
    BY <1>2, <1>3, <1>6
  <2>2. ~Lacks(t, Len(t))'
    BY <2>1 DEF Lacks
  <2>3. dest' = Encoded(Target', t)
    BY <1>2, <1>6, <2>1 DEF Encodes
  <2> QED
    BY <1>6, <2>2, <2>3 DEF Ended
<1> QED
  BY <1>2, <1>4, <1>5, <1>6

\* Validation finds no fault in a text in Unicode.
LEMMA ValidateTInv == ASSUME IInv, WInv, TranscodedSoFar, Validate PROVE TranscodedSoFar'
<1>1. /\ job' = job /\ phase = "validate" /\ ~AtEnd /\ job \in Jobs /\ job.units \in Seq(Nat)
      /\ job.call = "set"
  BY LeftAtTheEnds DEF Validate, WInv, Underway
<1>2. Source[job.call] = "utf8"
  BY <1>1, CallEncodings
<1> SUFFICES ASSUME NEW t \in ScalarTexts, Encodes(t)
             PROVE  phase' = "validate" /\ \E k : Behind(t, k)'
  BY <1>1 DEF TranscodedSoFar, Ended, Encodes
<1>3. PICK k : Behind(t, k)
  BY <1>1 DEF TranscodedSoFar
<1>4. PICK c, f : c = t[k + 1] /\ f = Form(Source[job.call], c)
  OBVIOUS
<1>5. /\ IsScalar(c) /\ Shows(job.units, sp, f) /\ k + 1 \in 0 .. Len(t)
      /\ Len(Encoding(Source[job.call], t)[k + 1]) = sp + Len(f)
      /\ sp \in 0 .. Len(job.units) - 1
  BY <1>1, <1>3, <1>4, NextCharacter
<1>6. f = write_utf8(c) /\ c \in Nat /\ c <= MaxCode
  BY <1>2, <1>4, <1>5, ScalarForms
<1>7. validate_utf8(job.units, sp).error = success /\ validate_utf8(job.units, sp).len = Len(f)
  <2>1. sp \in Nat
    BY <1>5
  <2> QED
    BY <1>1, <1>5, <1>6, <2>1, ShownInUtf8
<1>8. phase' = "validate" /\ sp' = sp + Len(f)
  BY <1>1, <1>7 DEF Validate
<1>9. Behind(t, k + 1)'
  BY <1>1, <1>5, <1>8 DEF Behind
<1> QED
  BY <1>8, <1>9

\* What was validated is returned as it is.
LEMMA ValidatedTInv == ASSUME IInv, WInv, TranscodedSoFar, Validated PROVE TranscodedSoFar'
<1>1. /\ job' = job /\ phase' = "done" /\ dest' = job.units /\ job.call = "set" /\ job \in Jobs
  BY LeftAtTheEnds DEF Validated, WInv, Underway
<1>2. Source[job.call] = "utf8" /\ Target = "utf8" /\ Target' = Target
  BY <1>1, CallEncodings DEF Target
<1> QED
  BY <1>1, <1>2 DEF TranscodedSoFar, Ended, Encodes, Lacks

\* The second pass begins with no character written, and is left out only
\* when there is none.
LEMMA AllocateTInv == ASSUME IInv, WInv, TranscodedSoFar, Allocate PROVE TranscodedSoFar'
<1>1. /\ job' = job /\ phase = "measure" /\ sp' = 0 /\ dest' = <<>> /\ job \in Jobs
      /\ phase' = IF size = 0 THEN "done" ELSE "convert"
      /\ AtEnd /\ sp \in Nat
  BY DEF Allocate, IInv, Measuring, Started
<1>2. Source[job.call] \in Encodings /\ Target \in Encodings /\ Target' = Target
  BY <1>1, CallEncodings DEF Target
<1> SUFFICES ASSUME NEW t \in ScalarTexts, Encodes(t)
             PROVE  /\ phase' = "convert" =>
                         \E k : Behind(t, k)' /\ dest' = Encoding(Target', t)[k] /\ ~Lacks(t, k)'
                    /\ phase' = "done" => ~Lacks(t, Len(t))' /\ dest' = Encoded(Target', t)
  BY <1>1 DEF TranscodedSoFar, Ended, Encodes
<1>3. Behind(t, 0)' /\ dest' = Encoding(Target', t)[0] /\ ~Lacks(t, 0)'
  BY <1>1, <1>2, BehindNone DEF Behind, Lacks
<1>4. ASSUME phase' = "done" PROVE Len(t) = 0
  <2>1. sp = 0
    BY <1>1, <1>4 DEF WInv, Underway
  <2>2. Behind(t, 0)
    BY <1>2, <2>1, BehindNone DEF Behind
  <2> QED
    BY <1>1, <2>2, NextCharacter
<1> QED
  BY <1>3, <1>4 DEF Encoded

\* A turn of the second pass writes what is due for the character it is at.
LEMMA WriteTInv == ASSUME IInv, TranscodedSoFar, Write PROVE TranscodedSoFar'
<1>1. /\ job' = job /\ phase = "convert" /\ phase' = "convert" /\ ~AtEnd /\ job \in Jobs
      /\ Outcome(job, sp).kind = "units"
      /\ dest' = dest \o Outcome(job, sp).units /\ sp' = sp + Passed(job, sp)
  BY LeftAtTheEnds DEF Write
<1>2. Source[job.call] \in Encodings /\ Target \in Encodings /\ Target' = Target
  BY <1>1, CallEncodings DEF Target
<1> SUFFICES ASSUME NEW t \in ScalarTexts, Encodes(t)
             PROVE  \E k : Behind(t, k)' /\ dest' = Encoding(Target', t)[k] /\ ~Lacks(t, k)'
  BY <1>1 DEF TranscodedSoFar, Ended, Encodes
<1>3. PICK k : Behind(t, k) /\ dest = Encoding(Target, t)[k] /\ ~Lacks(t, k)
  BY <1>1 DEF TranscodedSoFar
<1>4. PICK c, f : c = t[k + 1] /\ f = Form(Source[job.call], c)
  OBVIOUS
<1>5. /\ IsScalar(c) /\ (Source[job.call] = "latin1" => c < 256)
      /\ Shows(job.units, sp, f) /\ k \in 0 .. Len(t) - 1 /\ k + 1 \in 0 .. Len(t)
      /\ Len(Encoding(Source[job.call], t)[k + 1]) = sp + Len(f)
      /\ sp \in 0 .. Len(job.units) - 1
  BY <1>1, <1>3, <1>4, NextCharacter
<1>6. Passed(job, sp) = Len(f) /\ Outcome(job, sp) = Due(c)
  BY <1>1, <1>4, <1>5, TurnsTranscode
<1>7. ~(Target = "latin1" /\ ~job.sub /\ ~(c < 256)) /\ Outcome(job, sp).units = Form(Target, c)
  BY <1>1, <1>6 DEF Due, Raise, Units
<1>8. Behind(t, k + 1)'
  BY <1>1, <1>5, <1>6 DEF Behind
<1>9. dest' = Encoding(Target', t)[k + 1]
  <2>1. IsScalarText(t)
    BY ScalarTextsAssumption
  <2>2. Encoding(Target, t)[k + 1] = Encoding(Target, t)[k] \o Form(Target, t[k + 1])
    BY <1>2, <1>5, <2>1, EncodingStep
  <2> QED
    BY <1>1, <1>2, <1>3, <1>4, <1>7, <2>2
<1>10. ~Lacks(t, k + 1)'
  <2> SUFFICES ASSUME Target = "latin1", ~job.sub, NEW i \in 1 .. k + 1 PROVE ~(t[i] > 255)
    BY <1>1, <1>2 DEF Lacks
  <2>1. c \in Nat /\ c < 256 /\ k \in Nat
    BY <1>5, <1>7, ScalarForms
  <2>2. CASE i = k + 1
    BY <1>4, <2>1, <2>2
  <2>3. CASE i # k + 1
    <3>1. i \in 1 .. k
      BY <2>1, <2>3
    <3> QED
      BY <1>3, <3>1 DEF Lacks
  <2> QED
    BY <2>2, <2>3
<1> QED
  BY <1>8, <1>9, <1>10

\* A conversion of a text in Unicode throws only at a character Latin-1 lacks,
\* fails no assertion, and is done when all of it is written.
LEMMA StopsTInv == ASSUME IInv, TranscodedSoFar, Throw \/ AssertFails \/ Finish PROVE TranscodedSoFar'
<1>1. /\ job' = job /\ phase = "convert" /\ dest' = dest /\ job \in Jobs
      /\ phase' \in {"thrown", "aborted", "done"}
      /\ phase' = "done" => AtEnd
      /\ phase' = "thrown" => ~AtEnd /\ Outcome(job, sp).kind = "raise"
                              /\ error' = Outcome(job, sp).error
      /\ phase' = "aborted" => ~AtEnd /\ Outcome(job, sp).kind = "abort"
  BY LeftAtTheEnds DEF Throw, AssertFails, Finish
<1>2. Target' = Target
  BY <1>1 DEF Target
<1> SUFFICES ASSUME NEW t \in ScalarTexts, Encodes(t)
             PROVE  IF Lacks(t, Len(t)) THEN phase' = "thrown" /\ error' = latin1_out_of_range
                    ELSE phase' = "done" /\ dest' = Encoded(Target, t)
  BY <1>1, <1>2 DEF TranscodedSoFar, Ended, Encodes, Lacks
<1>3. PICK k : Behind(t, k) /\ dest = Encoding(Target, t)[k] /\ ~Lacks(t, k)
  BY <1>1 DEF TranscodedSoFar
<1>4. CASE phase' = "done"
  <2>1. k = Len(t)
    BY <1>1, <1>3, <1>4, NextCharacter
  <2> QED
    BY <1>1, <1>3, <1>4, <2>1 DEF Encoded
<1>5. CASE phase' # "done"
  <2>1. PICK c, f : c = t[k + 1] /\ f = Form(Source[job.call], c)
    OBVIOUS
  <2>2. /\ IsScalar(c) /\ (Source[job.call] = "latin1" => c < 256)
        /\ Shows(job.units, sp, f) /\ k \in 0 .. Len(t) - 1
        /\ sp \in 0 .. Len(job.units) - 1
    BY <1>1, <1>3, <1>5, <2>1, NextCharacter
  <2>3. Outcome(job, sp) = Due(c)
    BY <1>1, <2>1, <2>2, TurnsTranscode
  <2>4. /\ Target = "latin1" /\ ~job.sub /\ ~(c < 256)
        /\ phase' = "thrown" /\ error' = latin1_out_of_range
    BY <1>1, <1>5, <2>3 DEF Due, Raise, Units
  <2>5. c > 255
    BY <2>2, <2>4, ScalarForms
  <2>6. k + 1 \in 1 .. Len(t)
    <3>1. IsScalarText(t)
      BY ScalarTextsAssumption
    <3>2. Len(t) \in Nat
      BY <3>1 DEF IsScalarText
    <3> QED
      BY <2>2, <3>2
  <2>7. Lacks(t, Len(t))
    BY <2>1, <2>4, <2>5, <2>6 DEF Lacks
  <2> QED
    BY <2>4, <2>7
<1> QED
  BY <1>4, <1>5

\* Every step keeps it.
LEMMA NextTInv == IInv /\ WInv /\ TranscodedSoFar /\ [Next]_vars => TranscodedSoFar'
<1> SUFFICES ASSUME IInv, WInv, TranscodedSoFar, [Next]_vars PROVE TranscodedSoFar'
  OBVIOUS
<1>1. ASSUME NEW j \in Jobs, Call(j) PROVE TranscodedSoFar'
  BY <1>1, CallTInv
<1>2. CASE Validate
  BY <1>2, ValidateTInv
<1>3. CASE Validated
  BY <1>3, ValidatedTInv
<1>4. CASE MeasureOne \/ MeasureAll
  BY <1>4 DEF MeasureOne, MeasureAll, TranscodedSoFar, Ended
<1>5. CASE Allocate
  BY <1>5, AllocateTInv
<1>6. CASE Write
  BY <1>6, WriteTInv
<1>7. CASE Throw \/ AssertFails \/ Finish
  BY <1>7, StopsTInv
<1>8. CASE Return
  BY <1>8 DEF Return, TranscodedSoFar, Ended
<1>9. CASE UNCHANGED vars
  <2>1. \A t : Encodes(t)' = Encodes(t) /\ \A k : Behind(t, k)' = Behind(t, k) /\ Lacks(t, k)' = Lacks(t, k)
    BY <1>9 DEF vars, Encodes, Behind, Lacks, Target
  <2> QED
    BY <1>9, <2>1 DEF vars, TranscodedSoFar, Ended, Target
<1> QED
  BY <1>1, <1>2, <1>3, <1>4, <1>5, <1>6, <1>7, <1>8, <1>9 DEF Next, Turn

\* Well-formed Unicode comes out as the Unicode standard encodes it, between
\* any two of the encodings, whatever its characters and its length are.
THEOREM UnicodeTranscodes == Spec => []Transcodes
<1>1. TranscodedSoFar => Transcodes
  <2> SUFFICES ASSUME TranscodedSoFar, Ended, NEW t \in ScalarTexts,
                      job.units = Encoded(Source[job.call], t),
                      Source[job.call] = "latin1" => \A i \in DOMAIN t : t[i] < 256
               PROVE  IF Target = "latin1" /\ ~job.sub /\ \E i \in DOMAIN t : t[i] > 255
                      THEN phase = "thrown" /\ error = latin1_out_of_range
                      ELSE phase = "done" /\ dest = Encoded(Target, t)
    BY DEF Transcodes
  <2>1. IF Lacks(t, Len(t)) THEN phase = "thrown" /\ error = latin1_out_of_range
        ELSE phase = "done" /\ dest = Encoded(Target, t)
    BY DEF TranscodedSoFar, Encodes
  <2>2. DOMAIN t = 1 .. Len(t)
    <3>1. IsScalarText(t)
      BY ScalarTextsAssumption
    <3>2. t \in Seq(Nat)
      BY <3>1 DEF IsScalarText
    <3> QED
      BY <3>2
  <2>3. Lacks(t, Len(t)) <=> Target = "latin1" /\ ~job.sub /\ \E i \in DOMAIN t : t[i] > 255
    BY <2>2 DEF Lacks
  <2> QED
    BY <2>1, <2>3
<1> QED
  BY <1>1, InitTInv, NextTInv, IInvHolds, WInvHolds, PTL DEF Spec
=============================================================================
