---------------------------- MODULE FormatterProofs ----------------------------
(***************************************************************************)
(* Proofs about Formatter.tla, for format strings of any length and all    *)
(* arguments: the parser stays in the string, and each of its steps brings *)
(* it nearer to the end.                                                   *)
(***************************************************************************)
EXTENDS FormatGrammar, TextProofs, TLAPS

Phases == {"idle", "prefix", "spec", "finish", "done", "thrown", "aborted"}

\* The place of the parser, and that of the text it has not handed over yet.
FInv ==
  /\ phase \in Phases
  /\ phase # "idle" => job \in Jobs
  /\ pos \in Nat /\ next \in Nat
  /\ phase = "idle" => pos = 0 /\ next = 0
  /\ phase = "prefix" => pos <= next /\ next <= Len(job.fmt)
  /\ phase = "spec" => next <= pos /\ pos < Len(job.fmt)

\* How many steps there are left at most: a character before the field may be
\* the beginning of a field, which is one more step.
Remaining ==
  IF phase = "prefix" THEN 2 * (Len(job.fmt) - next) + 1
  ELSE IF phase = "spec" THEN 2 * (Len(job.fmt) - pos)
  ELSE IF phase = "finish" THEN 0 ELSE -1

-----------------------------------------------------------------------------
(* What the parser reads. *)

\* The least of some natural numbers.
LEMMA MinFacts ==
  ASSUME NEW S \in SUBSET Nat, S # {}
  PROVE  Min(S) \in S /\ \A y \in S : Min(S) <= y
<1> DEFINE R == {ss \in Nat \X Nat : ss[1] < ss[2]}
<1>1. IsWellFoundedOn(R, Nat)
  BY NatLessThanWellFounded DEF OpToRel
<1>2. PICK x \in S : \A y \in S : ~ (<<y, x>> \in R)
  <2> HIDE DEF R
  <2>1. QED
    BY <1>1, WFMin
<1>3. ASSUME NEW y \in S PROVE x <= y
  <2>1. x \in Nat /\ y \in Nat
    OBVIOUS
  <2>2. y < x => <<y, x>> \in R
    BY <2>1
  <2>3. QED
    BY <1>2, <2>1, <2>2
<1>4. QED
  BY <1>3 DEF Min

\* A format string has a length.
LEMMA Format ==
  ASSUME NEW j \in Jobs
  PROVE  Len(j.fmt) \in Nat
  BY FormatAssumption, LenProperties

\* There is something to read only before the terminator.
LEMMA HereInside ==
  ASSUME NEW p \in Nat, Here(p) # NUL
  PROVE  p < Len(job.fmt)
  BY DEF Here

\* strtol stops at the terminator, if not before.
LEMMA SpanFacts ==
  ASSUME job \in Jobs, NEW p \in 0 .. Len(job.fmt), NEW chars, NUL \notin chars
  PROVE  /\ Span(p, chars) \in p .. Len(job.fmt)
         /\ Here(Span(p, chars)) \notin chars
         /\ Here(p) \notin chars => Span(p, chars) = p
<1> DEFINE S == {q \in p .. Len(job.fmt) : Here(q) \notin chars}
<1>1. Len(job.fmt) \in Nat
  BY Format
<1>2. Len(job.fmt) \in S
  BY <1>1 DEF Here
<1>3. S \in SUBSET Nat /\ S # {}
  BY <1>1, <1>2
<1>4. Min(S) \in S /\ \A y \in S : Min(S) <= y
  BY <1>3, MinFacts
<1>5. Span(p, chars) = Min(S)
  BY DEF Span
<1>6. Here(p) \notin chars => p \in S
  BY <1>1
<1>7. Min(S) \in p .. Len(job.fmt)
  BY <1>4
<1>8. Here(p) \notin chars => Min(S) = p
  BY <1>4, <1>6, <1>7
<1>9. QED
  BY <1>4, <1>5, <1>7, <1>8

\* strtol takes characters of the format string, and at least one when it
\* begins at a digit.
LEMMA StrtolFacts ==
  ASSUME job \in Jobs, NEW p \in 0 .. Len(job.fmt)
  PROVE  /\ strtol(p).end \in p .. Len(job.fmt)
         /\ Here(p) \in 48 .. 57 => strtol(p).end > p
<1> DEFINE sign  == Span(p, Spaces)
           first == IF Here(sign) \in {Plus, Minus} THEN sign + 1 ELSE sign
           end   == Span(first, 48 .. 57)
<1>1. Len(job.fmt) \in Nat
  BY Format
<1>2. sign \in p .. Len(job.fmt) /\ (Here(p) \notin Spaces => sign = p)
  BY SpanFacts DEF NUL, Blank, Spaces
<1>3. first \in p .. Len(job.fmt)
  <2>1. CASE Here(sign) \in {Plus, Minus}
    <3>1. Here(sign) # NUL
      BY <2>1 DEF NUL, Plus, Minus
    <3>2. sign < Len(job.fmt)
      BY <1>2, <3>1, HereInside
    <3>3. QED
      BY <1>1, <1>2, <2>1, <3>2
  <2>2. CASE Here(sign) \notin {Plus, Minus}
    BY <1>2, <2>2
  <2>3. QED
    BY <2>1, <2>2
<1>4. end \in first .. Len(job.fmt) /\ Here(end) \notin 48 .. 57
  <2> HIDE DEF first
  <2>1. first \in 0 .. Len(job.fmt) /\ NUL \notin 48 .. 57
    BY <1>1, <1>3 DEF NUL
  <2>2. QED
    BY <2>1, SpanFacts
<1>5. strtol(p).end = IF end = first THEN p ELSE end
  BY DEF strtol
<1>6. Here(p) \in 48 .. 57 => first = p
  <2> SUFFICES ASSUME Here(p) \in 48 .. 57 PROVE first = p
    OBVIOUS
  <2>1. sign = p
    <3>1. Here(p) \notin Spaces
      BY DEF Blank, Spaces
    <3> QED
      BY <1>2, <3>1
  <2>2. Here(sign) \notin {Plus, Minus}
    BY <2>1 DEF Plus, Minus
  <2>3. QED
    BY <2>1, <2>2
<1> HIDE DEF sign, first, end
<1>7. strtol(p).end \in p .. Len(job.fmt)
  BY <1>1, <1>3, <1>4, <1>5
<1>8. Here(p) \in 48 .. 57 => strtol(p).end > p
  BY <1>1, <1>3, <1>4, <1>5, <1>6
<1>9. QED
  BY <1>7, <1>8

-----------------------------------------------------------------------------
(* The steps.  Each keeps the invariant and takes from what remains. *)

Keeps == FInv' /\ Remaining' < Remaining

\* A writer that throws ends the call.
LEMMA DeliverEnds ==
  ASSUME NEW calls, NEW ph, NEW err, Deliver(calls, ph, err)
  PROVE  phase' \in {ph, "thrown"}
  BY DEF Deliver

\* The call a step belongs to.
LEMMA AtStep ==
  ASSUME FInv, phase \in {"prefix", "spec", "finish"}
  PROVE  job \in Jobs /\ Len(job.fmt) \in Nat /\ pos \in Nat /\ next \in Nat
<1>1. job \in Jobs /\ pos \in Nat /\ next \in Nat
  BY DEF FInv
<1>2. QED
  BY <1>1, Format

\* Nothing has been called.
LEMMA InitFInv == Init => FInv
  BY DEF Init, FInv, Phases

\* A call begins before its format string.
LEMMA CallFInv ==
  ASSUME FInv, NEW j \in Jobs, Call(j)
  PROVE  FInv'
<1>1. phase = "idle" /\ job' = j /\ phase' = "prefix" /\ pos' = pos /\ next' = next
  BY DEF Call
<1>2. pos' = 0 /\ next' = 0 /\ Len(j.fmt) \in Nat
  BY <1>1, Format DEF FInv
<1>3. QED
  BY <1>1, <1>2 DEF FInv, Phases

\* The steps of fetch_prefix that go on.
LEMMA PrefixSteps ==
  ASSUME FInv, Literal \/ Escape
  PROVE  Keeps
<1> DEFINE len == Len(job.fmt)
<1>1. phase = "prefix"
  BY DEF Literal, Escape
<1>2. job \in Jobs /\ len \in Nat /\ pos \in Nat /\ next \in Nat /\ pos <= next /\ next <= len
  BY <1>1, AtStep DEF FInv
<1>3. CASE Literal
  <2>1. Here(next) # NUL /\ next' = next + 1 /\ job' = job /\ phase' = phase /\ pos' = pos
    BY <1>3 DEF Literal
  <2>2. next < len
    BY <1>2, <2>1, HereInside
  <2> HIDE DEF len
  <2>3. next' \in Nat /\ pos' <= next' /\ next' <= len /\ 2 * (len - next') + 1 < 2 * (len - next) + 1
    BY <1>2, <2>1, <2>2
  <2>4. FInv'
    BY <1>1, <1>2, <2>1, <2>3 DEF FInv, Phases, len
  <2>5. QED
    BY <1>1, <2>1, <2>3, <2>4 DEF Keeps, Remaining, len
<1>4. CASE Escape
  <2>1. /\ Doubled(next) /\ pos' = next + 1 /\ next' = next + 2 /\ job' = job
        /\ phase' \in {"prefix", "thrown"}
    BY <1>4, DeliverEnds DEF Escape
  <2>2. Here(next + 1) # NUL
    BY <2>1 DEF Doubled, Open, Close, NUL
  <2>3. next + 1 < len
    BY <1>2, <2>2, HereInside
  <2> HIDE DEF len
  <2>4. /\ next' \in Nat /\ pos' \in Nat /\ pos' <= next' /\ next' <= len
        /\ 2 * (len - next') + 1 < 2 * (len - next) + 1 /\ -1 < 2 * (len - next) + 1
    BY <1>2, <2>1, <2>3
  <2>5. FInv'
    BY <1>2, <2>1, <2>4 DEF FInv, Phases, len
  <2>6. QED
    BY <1>1, <2>1, <2>4, <2>5 DEF Keeps, Remaining, len
<1>5. QED
  BY <1>3, <1>4

\* fetch_prefix is at a field or at the terminator.
LEMMA PrefixEnds ==
  ASSUME FInv, Reach \/ EnterField
  PROVE  Keeps
<1> DEFINE len == Len(job.fmt)
<1>1. phase = "prefix"
  BY DEF Reach, EnterField
<1>2. job \in Jobs /\ len \in Nat /\ pos \in Nat /\ next \in Nat /\ pos <= next /\ next <= len
  BY <1>1, AtStep DEF FInv
<1>3. CASE Reach
  <2>1. pos' = next /\ next' = next /\ job' = job /\ phase' \in {"finish", "done", "thrown"}
    BY <1>3, DeliverEnds DEF Reach
  <2>2. 0 < 2 * (len - next) + 1 /\ -1 < 2 * (len - next) + 1
    BY <1>2
  <2>3. FInv'
    BY <1>2, <2>1 DEF FInv, Phases
  <2>4. QED
    BY <1>1, <2>1, <2>2, <2>3 DEF Keeps, Remaining
<1>4. CASE EnterField
  <2>1. /\ Here(next) = Open /\ pos' = next /\ next' = next /\ job' = job
        /\ phase' \in {"spec", "thrown"}
    BY <1>4, DeliverEnds DEF EnterField
  <2>2. next < len
    BY <1>2, <2>1, HereInside DEF Open, NUL
  <2>3. FInv'
    BY <1>2, <2>1, <2>2 DEF FInv, Phases
  <2>4. 2 * (len - pos') < 2 * (len - next) + 1 /\ -1 < 2 * (len - next) + 1
    BY <1>2, <2>1
  <2>5. QED
    BY <1>1, <2>1, <2>3, <2>4 DEF Keeps, Remaining
<1>5. QED
  BY <1>3, <1>4

\* A step of parse_format that goes on has come at least one character further,
\* or it fails.
LEMMA SpecStep ==
  ASSUME FInv, phase = "spec", job' = job, next' = next, phase' \in {"spec", "thrown"},
         pos' \in Nat, phase' = "spec" => pos < pos' /\ pos' < Len(job.fmt)
  PROVE  Keeps
<1> DEFINE len == Len(job.fmt)
<1>1. job \in Jobs /\ len \in Nat /\ pos \in Nat /\ next \in Nat /\ next <= pos /\ pos < len
  BY AtStep DEF FInv
<1> HIDE DEF len
<1>2. /\ -1 < 2 * (len - pos)
      /\ pos < pos' => next' <= pos' /\ 2 * (len - pos') < 2 * (len - pos)
  <2>1. \A l, a, b \in Nat : a < l => -1 < 2 * (l - a) /\ (a < b => 2 * (l - b) < 2 * (l - a))
    OBVIOUS
  <2>2. pos < pos' => next' <= pos'
    BY <1>1
  <2>3. QED
    BY <1>1, <2>1, <2>2
<1>3. FInv'
  BY <1>1, <1>2 DEF FInv, Phases, len
<1>4. Remaining = 2 * (len - pos)
  BY DEF Remaining, len
<1>5. CASE phase' = "spec"
  <2>1. Remaining' = 2 * (len - pos')
    BY <1>5 DEF Remaining, len
  <2>2. QED
    BY <1>2, <1>3, <1>4, <1>5, <2>1 DEF Keeps
<1>6. CASE phase' = "thrown"
  <2>1. Remaining' = -1
    BY <1>6 DEF Remaining
  <2>2. QED
    BY <1>2, <1>3, <1>4, <2>1 DEF Keeps
<1>7. QED
  BY <1>5, <1>6

\* The groups of one character, and what is no group.
LEMMA FlagSteps ==
  ASSUME FInv, Flag \/ BadGroup
  PROVE  Keeps
<1>1. /\ phase = "spec" /\ job' = job /\ next' = next /\ pos' = pos + 1
      /\ phase' \in {"spec", "thrown"}
      /\ phase' = "spec" => Group \in Flags
  BY DEF Flag, BadGroup, Fail
<1>2. job \in Jobs /\ Len(job.fmt) \in Nat /\ pos \in Nat
  BY <1>1, AtStep
<1>3. phase' = "spec" => pos + 1 < Len(job.fmt)
  <2>1. phase' = "spec" => Here(pos + 1) # NUL
    BY <1>1 DEF Group, Flags, NUL
  <2>2. QED
    BY <1>2, <2>1, HereInside
<1>4. QED
  BY <1>1, <1>2, <1>3, SpecStep

\* "_" and its character.
LEMMA PadStep ==
  ASSUME FInv, PadGroup
  PROVE  Keeps
<1>1. /\ phase = "spec" /\ job' = job /\ next' = next
      /\ \/ phase' = "thrown" /\ pos' = pos + 1
         \/ phase' = "spec" /\ pos' = pos + 2 /\ Here(pos + 2) # NUL
  BY DEF PadGroup, Fail
<1>2. job \in Jobs /\ Len(job.fmt) \in Nat /\ pos \in Nat
  BY <1>1, AtStep
<1>3. phase' = "spec" => pos' = pos + 2 /\ pos + 2 < Len(job.fmt)
  BY <1>1, <1>2, HereInside
<1>4. pos' \in Nat
  BY <1>1, <1>2
<1>5. QED
  BY <1>1, <1>2, <1>3, <1>4, SpecStep

\* A number begins where its first digit is.
LEMMA WidthStep ==
  ASSUME FInv, Width
  PROVE  Keeps
<1> DEFINE end == strtol(pos + 1).end
<1>1. /\ phase = "spec" /\ job' = job /\ next' = next /\ phase' = phase
      /\ Group \in 49 .. 57 /\ pos' = end - 1
  BY DEF Width
<1>2. job \in Jobs /\ Len(job.fmt) \in Nat /\ pos \in Nat
  BY <1>1, AtStep
<1>3. pos + 1 < Len(job.fmt) /\ Here(pos + 1) \in 48 .. 57
  <2>1. Here(pos + 1) # NUL /\ Here(pos + 1) \in 48 .. 57
    BY <1>1 DEF Group, NUL
  <2>2. QED
    BY <1>2, <2>1, HereInside
<1>4. end \in pos + 1 .. Len(job.fmt) /\ end > pos + 1
  BY <1>2, <1>3, StrtolFacts
<1> HIDE DEF end
<1>5. pos' \in Nat /\ pos < pos' /\ pos' < Len(job.fmt)
  BY <1>1, <1>2, <1>4
<1>6. QED
  BY <1>1, <1>5, SpecStep

\* "." or "&" has been passed, with or without a number after it.
LEMMA NumberStep ==
  ASSUME FInv, NumberGroup
  PROVE  Keeps
<1> DEFINE end == strtol(pos + 2).end
<1>1. /\ phase = "spec" /\ job' = job /\ next' = next
      /\ \/ phase' = "thrown" /\ pos' = pos + 2
         \/ phase' = "spec" /\ pos' = end - 1 /\ Here(pos + 2) # NUL
  BY DEF NumberGroup, Fail, Before
<1>2. job \in Jobs /\ Len(job.fmt) \in Nat /\ pos \in Nat
  BY <1>1, AtStep
<1>3. phase' = "spec" => end \in pos + 2 .. Len(job.fmt)
  <2>1. phase' = "spec" => pos + 2 < Len(job.fmt)
    BY <1>1, <1>2, HereInside
  <2>2. QED
    BY <1>2, <2>1, StrtolFacts
<1> HIDE DEF end
<1>4. pos' \in Nat /\ (phase' = "spec" => pos < pos' /\ pos' < Len(job.fmt))
  BY <1>1, <1>2, <1>3
<1>5. QED
  BY <1>1, <1>4, SpecStep

\* The end of a field.
LEMMA ApplyStep ==
  ASSUME FInv, Apply
  PROVE  Keeps
<1> DEFINE len == Len(job.fmt)
<1>1. /\ phase = "spec" /\ Group = Close /\ job' = job /\ pos' = pos + 2 /\ next' = pos + 2
      /\ phase' \in {"prefix", "thrown", "aborted"}
  BY DeliverEnds DEF Apply, Fail
<1>2. job \in Jobs /\ len \in Nat /\ pos \in Nat
  BY <1>1, AtStep
<1>3. pos + 1 < len
  <2>1. Here(pos + 1) # NUL
    BY <1>1 DEF Group, Close, NUL
  <2>2. QED
    BY <1>2, <2>1, HereInside
<1> HIDE DEF len
<1>4. /\ pos' \in Nat /\ next' \in Nat /\ pos' <= next' /\ next' <= len
      /\ 2 * (len - next') + 1 < 2 * (len - pos) /\ -1 < 2 * (len - pos)
  BY <1>1, <1>2, <1>3
<1>5. FInv'
  BY <1>1, <1>2, <1>4 DEF FInv, Phases, len
<1>6. QED
  BY <1>1, <1>4, <1>5 DEF Keeps, Remaining, len

\* to_string is the last step of a call.
LEMMA MakeStringStep ==
  ASSUME FInv, MakeString
  PROVE  Keeps
<1>1. /\ phase = "finish" /\ job' = job /\ pos' = pos /\ next' = next
      /\ phase' \in {"done", "thrown", "aborted"}
  BY DEF MakeString
<1>2. job \in Jobs /\ pos \in Nat /\ next \in Nat
  BY <1>1, AtStep
<1>3. FInv'
  BY <1>1, <1>2 DEF FInv, Phases
<1>4. QED
  BY <1>1, <1>3 DEF Keeps, Remaining

\* Every step of a call.
LEMMA StepKeeps ==
  ASSUME FInv, Step
  PROVE  Keeps
  BY PrefixSteps, PrefixEnds, FlagSteps, PadStep, WidthStep, NumberStep, ApplyStep, MakeStringStep
  DEF Step

\* Every step keeps the invariant.
LEMMA NextFInv == FInv /\ [Next]_vars => FInv'
<1> SUFFICES ASSUME FInv, [Next]_vars PROVE FInv'
  OBVIOUS
<1>1. ASSUME NEW j \in Jobs, Call(j) PROVE FInv'
  BY <1>1, CallFInv
<1>2. CASE Step
  BY <1>2, StepKeeps DEF Keeps
<1>3. CASE Return
  BY <1>3 DEF Return, FInv, Phases
<1>4. CASE UNCHANGED vars
  BY <1>4 DEF vars, FInv
<1>5. QED
  BY <1>1, <1>2, <1>3, <1>4 DEF Next

-----------------------------------------------------------------------------
\* The parser is at a place of its format string, for every string.
THEOREM FInvHolds == Spec => []FInv
<1>1. QED
  BY InitFInv, NextFInv, PTL DEF Spec

\* Neither fetch_prefix nor parse_format passes the terminator
\* (st_formatter.h, format_writer).
THEOREM FormatNotPassed == Spec => []StaysInFormat
<1>1. FInv => StaysInFormat
  <2> SUFFICES ASSUME FInv, phase \in {"prefix", "spec"}
               PROVE  next <= Len(job.fmt) /\ pos <= Len(job.fmt) /\ (phase = "spec" => pos < Len(job.fmt))
    BY DEF StaysInFormat
  <2>1. Len(job.fmt) \in Nat /\ pos \in Nat /\ next \in Nat
    BY AtStep
  <2>2. QED
    BY <2>1 DEF FInv
<1>2. QED
  BY <1>1, FInvHolds, PTL

\* Each step of a call leaves fewer: a call takes at most twice as many steps
\* as its format string has characters, and two more.
StepsCountDown == Step => Remaining' < Remaining

\* No step of formatting leaves the parser where it was, whatever the format
\* string: why formatting ends, apart from fairness.
THEOREM FormattingAdvances == Spec => [][StepsCountDown]_vars /\ [](Remaining >= -1)
<1>1. FInv /\ [Next]_vars => [StepsCountDown]_vars
  BY StepKeeps DEF StepsCountDown, Keeps
<1>2. FInv => Remaining >= -1
  <2> SUFFICES ASSUME FInv PROVE Remaining >= -1
    OBVIOUS
  <2>1. CASE phase \in {"prefix", "spec"}
    <3>1. Len(job.fmt) \in Nat /\ pos \in Nat /\ next \in Nat
      BY <2>1, AtStep
    <3>2. phase = "prefix" => 2 * (Len(job.fmt) - next) + 1 >= -1
      BY <3>1 DEF FInv
    <3>3. phase = "spec" => 2 * (Len(job.fmt) - pos) >= -1
      BY <3>1 DEF FInv
    <3>4. QED
      BY <2>1, <3>2, <3>3 DEF Remaining
  <2>2. CASE phase \notin {"prefix", "spec"}
    BY <2>2 DEF Remaining
  <2>3. QED
    BY <2>1, <2>2
<1>3. QED
  BY <1>1, <1>2, FInvHolds, PTL DEF Spec

-----------------------------------------------------------------------------
(* The grammar: what a format string means has a value at each place. *)

Pairs == Nat \X Nat
Kinds == {"group", "field", "bad_format", "odd"}

\* The number at a place has the digits up to the first character that is none.
LEMMA NumberFacts ==
  ASSUME NEW f \in Seq(Nat), NEW p \in 0 .. Len(f)
  PROVE  /\ NumberEnd(f, p) \in p .. Len(f)
         /\ \A q \in p .. NumberEnd(f, p) - 1 : f[q + 1] \in Digit
         /\ NumberEnd(f, p) = Len(f) \/ f[NumberEnd(f, p) + 1] \notin Digit
         /\ p < Len(f) /\ f[p + 1] \in Digit => NumberEnd(f, p) > p
<1>1. PICK n \in Nat : n = Len(f)
  BY LenProperties
<1> DEFINE S == {q \in p .. Len(f) : q = Len(f) \/ f[q + 1] \notin Digit}
<1>2. S \in SUBSET Nat /\ Len(f) \in S
  BY <1>1
<1>3. Min(S) \in S /\ \A y \in S : Min(S) <= y
  <2> HIDE DEF S
  <2> QED
    BY <1>2, MinFacts
<1>4. PICK end : end = Min(S)
  OBVIOUS
<1>5. NumberEnd(f, p) = end
  BY <1>4 DEF NumberEnd
<1>6. end \in S /\ \A y \in S : end <= y
  BY <1>3, <1>4
<1>7. end \in p .. n /\ (end = n \/ f[end + 1] \notin Digit)
  BY <1>1, <1>6
<1>8. ASSUME NEW q \in p .. end - 1 PROVE f[q + 1] \in Digit
  <2>1. q \in p .. n /\ ~(end <= q)
    BY <1>1, <1>7
  <2> QED
    BY <1>1, <1>6, <2>1
<1>9. p < n /\ f[p + 1] \in Digit => end > p
  BY <1>1, <1>7
<1> QED
  BY <1>1, <1>5, <1>7, <1>8, <1>9

\* Digits between two places, as a text.
LEMMA DigitsBetween ==
  ASSUME NEW f \in Seq(Nat), NEW p \in 0 .. Len(f), NEW e \in p .. Len(f),
         \A q \in p .. e - 1 : f[q + 1] \in Digit
  PROVE  /\ SubSeq(f, p + 1, e) \in Seq(Digit) /\ Len(SubSeq(f, p + 1, e)) = e - p
         /\ IsDigits(SubSeq(f, p + 1, e))
<1>1. PICK n \in Nat : n = Len(f)
  BY LenProperties
<1>2. p \in Nat /\ e \in Nat /\ p + 1 \in Int /\ e \in Int
  BY <1>1
<1>3. ASSUME NEW i \in p + 1 .. e PROVE f[i] \in Digit
  <2>1. i - 1 \in p .. e - 1 /\ (i - 1) + 1 = i
    BY <1>2
  <2> QED
    BY <2>1
<1>4. PICK d : d = SubSeq(f, p + 1, e)
  OBVIOUS
<1>5. d \in Seq(Digit) /\ Len(d) = e - p
  BY <1>2, <1>3, <1>4, SubSeqProperties
<1>6. ASSUME NEW i \in 1 .. Len(d) PROVE DigitWorth(d[i]) \in Nat
  <2>1. d[i] \in Digit
    BY <1>5
  <2> QED
    BY <2>1, SMTT(30) DEF Digit, DigitWorth
<1> QED
  BY <1>4, <1>5, <1>6 DEF IsDigits

\* Its value is a number.
LEMMA NumberValue ==
  ASSUME NEW f \in Seq(Nat), NEW p \in 0 .. Len(f)
  PROVE  NumberAt(f, p) \in Nat
<1>1. PICK e : e = NumberEnd(f, p)
  OBVIOUS
<1>2. e \in p .. Len(f) /\ \A q \in p .. e - 1 : f[q + 1] \in Digit
  BY <1>1, NumberFacts
<1>3. SubSeq(f, p + 1, e) \in Seq(Digit) /\ IsDigits(SubSeq(f, p + 1, e))
  BY <1>2, DigitsBetween
<1>4. Worth(SubSeq(f, p + 1, e), 10) \in Nat
  BY <1>3, WorthFacts
<1> QED
  BY <1>1, <1>4 DEF NumberAt

\* A numbered group ends behind its number.
LEMMA NumberedFacts ==
  ASSUME NEW f \in Seq(Nat), NEW p \in 0 .. Len(f), NEW key \in Nat
  PROVE  /\ Numbered(f, p, key).kind \in {"group", "odd"}
         /\ Numbered(f, p, key).end \in Nat /\ Numbered(f, p, key).end > p
         /\ Numbered(f, p, key).kind = "group" =>
              Numbered(f, p, key).end <= Len(f) /\ Numbered(f, p, key).is \in Pairs
<1>1. PICK n \in Nat : n = Len(f)
  BY LenProperties
<1>2. PICK e : e = NumberEnd(f, p)
  OBVIOUS
<1>3. e \in p .. n
  BY <1>1, <1>2, NumberFacts
<1>4. PICK v \in Nat : v = NumberAt(f, p)
  BY NumberValue
<1>5. Numbered(f, p, key) = IF e = p \/ v >= IntMod \div 2 THEN Begins("odd", <<>>, e + 1)
                            ELSE Begins("group", <<key, v>>, e)
  BY <1>2, <1>4 DEF Numbered
<1>6. <<key, v>> \in Pairs
  BY DEF Pairs
<1>7. CASE e = p \/ v >= IntMod \div 2
  BY <1>1, <1>3, <1>5, <1>7 DEF Begins
<1>8. CASE ~(e = p \/ v >= IntMod \div 2)
  BY <1>1, <1>3, <1>5, <1>6, <1>8 DEF Begins
<1> QED
  BY <1>7, <1>8

\* What begins at a place of a field ends behind it.
LEMMA GroupFacts ==
  ASSUME NEW f \in Seq(Nat), NEW p \in Nat
  PROVE  /\ GroupAt(f, p).kind \in Kinds
         /\ GroupAt(f, p).end \in Nat /\ GroupAt(f, p).end > p
         /\ GroupAt(f, p).kind = "group" =>
              GroupAt(f, p).end <= Len(f) /\ GroupAt(f, p).is \in Pairs
         /\ GroupAt(f, p).kind = "field" => GroupAt(f, p).end <= Len(f)
         /\ p >= Len(f) => GroupAt(f, p) = Begins("bad_format", <<>>, p + 1)
<1>1. PICK n \in Nat : n = Len(f)
  BY LenProperties
<1>2. CASE p >= n
  BY <1>1, <1>2 DEF GroupAt, Begins, Kinds
<1>3. CASE p < n
  <2>1. PICK c \in Nat : c = f[p + 1]
    BY <1>1, <1>3, ElementOfSeq
  <2>2. PICK a : a = Numbered(f, p + 1, c)
    OBVIOUS
  <2>3. PICK b : b = Numbered(f, p, 49)
    OBVIOUS
  <2>4. a.kind \in {"group", "odd"} /\ a.end \in Nat /\ a.end > p + 1
        /\ (a.kind = "group" => a.end <= n /\ a.is \in Pairs)
    <3>1. p + 1 \in 0 .. Len(f)
      BY <1>1, <1>3
    <3> QED
      BY <1>1, <2>1, <2>2, <3>1, NumberedFacts
  <2>5. b.kind \in {"group", "odd"} /\ b.end \in Nat /\ b.end > p
        /\ (b.kind = "group" => b.end <= n /\ b.is \in Pairs)
    <3>1. p \in 0 .. Len(f) /\ 49 \in Nat
      BY <1>1, <1>3
    <3> QED
      BY <1>1, <2>3, <3>1, NumberedFacts
  <2>6. /\ p + 2 <= n => <<Under, f[p + 2]>> \in Pairs
        /\ <<c, 0>> \in Pairs
    <3>1. p + 2 <= n => f[p + 2] \in Nat
      BY <1>1, ElementOfSeq
    <3> QED
      BY <2>1, <3>1 DEF Pairs, Under
  <2>7. GroupAt(f, p) =
          IF c = Close THEN Begins("field", <<>>, p + 1)
          ELSE IF c \in {Under, Dot, Amp} /\ p + 1 = n THEN Begins("bad_format", <<>>, p + 1)
          ELSE IF c = Under THEN Begins("group", <<Under, f[p + 2]>>, p + 2)
          ELSE IF c \in {Dot, Amp} THEN a
          ELSE IF c \in Digit \ {Zero} THEN b
          ELSE IF c \in Single THEN Begins("group", <<c, 0>>, p + 1)
          ELSE Begins("bad_format", <<>>, p + 1)
    BY <1>1, <1>3, <2>1, <2>2, <2>3 DEF GroupAt
  <2>8. CASE c = Close
    BY <1>1, <1>3, <2>7, <2>8 DEF Begins, Kinds
  <2>9. CASE c # Close /\ c \in {Under, Dot, Amp} /\ p + 1 = n
    BY <1>1, <1>3, <2>7, <2>9 DEF Begins, Kinds
  <2>10. CASE c = Under /\ p + 1 # n
    <3>1. GroupAt(f, p) = Begins("group", <<Under, f[p + 2]>>, p + 2)
      BY <2>7, <2>10 DEF Under, Close
    <3> QED
      BY <1>1, <1>3, <2>6, <2>10, <3>1 DEF Begins, Kinds
  <2>11. CASE c \in {Dot, Amp} /\ p + 1 # n
    <3>1. GroupAt(f, p) = a
      BY <2>7, <2>11 DEF Under, Close, Dot, Amp
    <3> QED
      BY <1>1, <1>3, <2>4, <3>1 DEF Kinds
  <2>12. CASE c \notin {Close, Under, Dot, Amp} /\ c \in Digit \ {Zero}
    <3>1. GroupAt(f, p) = b
      BY <2>7, <2>12
    <3> QED
      BY <1>1, <1>3, <2>5, <3>1 DEF Kinds
  <2>13. CASE c \notin {Close, Under, Dot, Amp} /\ c \notin Digit \ {Zero}
    <3>1. GroupAt(f, p) \in {Begins("group", <<c, 0>>, p + 1), Begins("bad_format", <<>>, p + 1)}
      BY <2>7, <2>13
    <3> QED
      BY <1>1, <1>3, <2>6, <3>1 DEF Begins, Kinds
  <2> QED
    BY <2>8, <2>9, <2>10, <2>11, <2>12, <2>13
<1> QED
  BY <1>1, <1>2, <1>3

\* What may be parsed from a place.
Parses == [kind : Kinds \ {"group"}, groups : Seq(Pairs), end : Nat]

\* The groups from p on, when those from each place are g.
ParsedAt(f, g, p) ==
  IF GroupAt(f, p).kind # "group"
  THEN [kind |-> GroupAt(f, p).kind, groups |-> <<>>, end |-> GroupAt(f, p).end]
  ELSE [g[GroupAt(f, p).end] EXCEPT !.groups = <<GroupAt(f, p).is>> \o @]

\* The groups from each place on.
LEMMA GroupsExist ==
  ASSUME NEW f \in Seq(Nat)
  PROVE  /\ GroupsFrom(f) \in [Nat -> Parses]
         /\ \A p \in Nat : GroupsFrom(f)[p] = ParsedAt(f, GroupsFrom(f), p)
<1>1. PICK n \in Nat : n = Len(f)
  BY LenProperties
<1> DEFINE Alone(p) == [kind |-> GroupAt(f, p).kind, groups |-> <<>>, end |-> GroupAt(f, p).end]
           base == [p \in Nat |-> [kind |-> "bad_format", groups |-> <<>>, end |-> p + 1]]
           succ == [p \in Nat |-> GroupAt(f, p).end]
           step == [p \in Nat |-> [v \in Parses |->
                      IF GroupAt(f, p).kind # "group" THEN Alone(p)
                      ELSE [v EXCEPT !.groups = <<GroupAt(f, p).is>> \o @]]]
<1>2. \A p \in Nat : base[p] \in Parses
  BY EmptySeq DEF Parses, Kinds
<1>3. \A p \in Nat : p < n => succ[p] \in Nat /\ succ[p] > p
  BY GroupFacts
<1>4. ASSUME NEW p \in Nat, NEW v \in Parses PROVE step[p][v] \in Parses
  <2>1. PICK g : g = GroupAt(f, p)
    OBVIOUS
  <2>2. g.kind \in Kinds /\ g.end \in Nat /\ (g.kind = "group" => g.is \in Pairs)
    BY <2>1, GroupFacts
  <2>3. step[p][v] = IF g.kind # "group" THEN [kind |-> g.kind, groups |-> <<>>, end |-> g.end]
                     ELSE [v EXCEPT !.groups = <<g.is>> \o @]
    BY <2>1
  <2>4. g.kind = "group" => <<g.is>> \o v.groups \in Seq(Pairs)
    <3>1. v.groups \in Seq(Pairs)
      BY DEF Parses
    <3>2. g.kind = "group" => <<g.is>> \in Seq(Pairs)
      BY <2>2
    <3> QED
      BY <3>1, <3>2, ConcatProperties
  <2>5. <<>> \in Seq(Pairs)
    BY EmptySeq
  <2> HIDE DEF step
  <2>6. CASE g.kind # "group"
    BY <2>2, <2>3, <2>5, <2>6 DEF Parses
  <2>7. CASE g.kind = "group"
    <3>1. step[p][v] = [v EXCEPT !.groups = <<g.is>> \o @]
      BY <2>3, <2>7
    <3>2. v = [kind |-> v.kind, groups |-> v.groups, end |-> v.end]
          /\ v.kind \in Kinds \ {"group"} /\ v.end \in Nat
      BY DEF Parses
    <3>3. step[p][v] = [kind |-> v.kind, groups |-> <<g.is>> \o v.groups, end |-> v.end]
      BY <3>1, <3>2
    <3> QED
      BY <2>4, <2>7, <3>2, <3>3 DEF Parses
  <2> QED
    BY <2>6, <2>7
<1>5. PICK h \in [Nat -> Parses] : \A p \in Nat : h[p] = IF p < n THEN step[p][h[succ[p]]] ELSE base[p]
  <2>1. PICK b : b = base
    OBVIOUS
  <2>2. PICK c : c = succ
    OBVIOUS
  <2>3. PICK t : t = step
    OBVIOUS
  <2>4. \A p \in Nat : b[p] \in Parses
    BY <1>2, <2>1
  <2>5. \A p \in Nat : p < n => c[p] \in Nat /\ c[p] > p
    BY <1>3, <2>2
  <2>6. \A p \in Nat : p < n => \A v \in Parses : t[p][v] \in Parses
    BY <1>4, <2>3
  <2>7. n \in Nat
    OBVIOUS
  <2>8. IsForward(Parses, n, b, t, c)
    BY ONLY <2>4, <2>5, <2>6, <2>7 DEF IsForward
  <2>9. \E h \in [Nat -> Parses] : \A p \in Nat : h[p] = IF p < n THEN t[p][h[c[p]]] ELSE b[p]
    BY ONLY <2>8, ForwardExists
  <2> HIDE DEF base, succ, step
  <2> QED
    BY <2>1, <2>2, <2>3, <2>9
<1>6. ASSUME NEW p \in Nat PROVE h[p] = ParsedAt(f, h, p)
  <2>1. GroupAt(f, p).end \in Nat /\ h[GroupAt(f, p).end] \in Parses
    BY GroupFacts
  <2>2. CASE p < n
    <3>1. h[p] = step[p][h[GroupAt(f, p).end]]
      BY <1>5, <2>2
    <3> QED
      BY <2>1, <3>1 DEF ParsedAt
  <2>3. CASE ~(p < n)
    <3>1. h[p] = [kind |-> "bad_format", groups |-> <<>>, end |-> p + 1]
      BY <1>5, <2>3
    <3>2. GroupAt(f, p) = Begins("bad_format", <<>>, p + 1)
      BY <1>1, <2>3, GroupFacts
    <3> QED
      BY <3>1, <3>2 DEF ParsedAt, Begins
  <2> QED
    BY <2>2, <2>3
<1> DEFINE is(g) == g = [p \in Nat |-> ParsedAt(f, g, p)]
<1>7. h = [p \in Nat |-> h[p]]
  OBVIOUS
<1>8. is(h)
  BY <1>6, <1>7
<1>9. GroupsFrom(f) = CHOOSE g : is(g)
  BY DEF GroupsFrom, ParsedAt
<1> HIDE DEF is
<1>10. is(GroupsFrom(f))
  BY <1>8, <1>9
<1>11. PICK g : g = GroupsFrom(f)
  OBVIOUS
<1>12. g = [p \in Nat |-> ParsedAt(f, g, p)]
  BY <1>10, <1>11 DEF is
<1>13. \A p \in Nat : g[p] = ParsedAt(f, g, p)
  BY <1>12
<1>14. \A p \in Nat : g[p] = h[p]
  <2> DEFINE G == {k \in Nat : \A p \in Nat : p + k >= n => g[p] = h[p]}
  <2>1. ASSUME NEW k \in Nat, \A j \in 0 .. k - 1 : j \in G PROVE k \in G
    <3> SUFFICES ASSUME NEW p \in Nat, p + k >= n PROVE g[p] = h[p]
      OBVIOUS
    <3>1. PICK a : a = GroupAt(f, p)
      OBVIOUS
    <3>2. a.end \in Nat /\ a.end > p /\ (p >= n => a.kind # "group")
      BY <1>1, <3>1, GroupFacts DEF Begins
    <3>3. a.kind = "group" => g[a.end] = h[a.end]
      <4> SUFFICES ASSUME a.kind = "group" PROVE g[a.end] = h[a.end]
        OBVIOUS
      <4>1. p < n
        BY <3>2
      <4>2. k # 0 /\ k - 1 \in 0 .. k - 1 /\ a.end + (k - 1) >= n
        BY <3>2, <4>1
      <4> QED
        BY <2>1, <3>2, <4>2
    <3> QED
      BY <1>6, <1>13, <3>1, <3>3, ZenonT(60) DEF ParsedAt
  <2> HIDE DEF G
  <2>2. \A k \in Nat : k \in G
    BY <2>1, InductionOn
  <2>3. ASSUME NEW p \in Nat PROVE g[p] = h[p]
    <3>1. n \in G /\ p + n >= n
      BY <2>2
    <3> QED
      BY <3>1 DEF G
  <2> QED
    BY <2>3
<1>15. g \in [Nat -> Parses]
  <2>1. \A p \in Nat : h[p] \in Parses
    OBVIOUS
  <2>2. \A p \in Nat : ParsedAt(f, g, p) \in Parses
    BY <1>13, <1>14, <2>1
  <2> QED
    BY <1>12, <2>2
<1> QED
  BY <1>11, <1>13, <1>15

\* What is parsed from a place ends behind it, and a field ends in the string.
LEMMA ParsedFacts ==
  ASSUME NEW f \in Seq(Nat), NEW p \in Nat
  PROVE  /\ GroupsFrom(f)[p] \in Parses
         /\ GroupsFrom(f)[p].end > p
         /\ GroupsFrom(f)[p].kind = "field" => GroupsFrom(f)[p].end <= Len(f)
<1>1. PICK n \in Nat : n = Len(f)
  BY LenProperties
<1>2. PICK h : h = GroupsFrom(f)
  OBVIOUS
<1>3. h \in [Nat -> Parses] /\ \A q \in Nat : h[q] = ParsedAt(f, h, q)
  BY <1>2, GroupsExist
<1> DEFINE Right(q) == h[q].end > q /\ (h[q].kind = "field" => h[q].end <= n)
           G == {k \in Nat : \A q \in Nat : q + k >= n => Right(q)}
<1>4. ASSUME NEW k \in Nat, \A j \in 0 .. k - 1 : j \in G PROVE k \in G
  <2> SUFFICES ASSUME NEW q \in Nat, q + k >= n PROVE Right(q)
    OBVIOUS
  <2>1. PICK a : a = GroupAt(f, q)
    OBVIOUS
  <2>2. a.end \in Nat /\ a.end > q /\ (q >= n => a.kind # "group") /\ (a.kind = "field" => a.end <= n)
    BY <1>1, <2>1, GroupFacts DEF Begins
  <2>3. CASE a.kind # "group"
    <3>1. h[q] = [kind |-> a.kind, groups |-> <<>>, end |-> a.end]
      BY <1>3, <2>1, <2>3 DEF ParsedAt
    <3> QED
      BY <2>2, <3>1
  <2>4. CASE a.kind = "group"
    <3>1. h[q] = [h[a.end] EXCEPT !.groups = <<a.is>> \o @]
      BY <1>3, <2>1, <2>4 DEF ParsedAt
    <3>2. k # 0 /\ k - 1 \in 0 .. k - 1 /\ a.end + (k - 1) >= n
      BY <2>2, <2>4
    <3>3. Right(a.end)
      BY <1>4, <2>2, <3>2
    <3>4. h[a.end] \in Parses
      BY <1>3, <2>2
    <3>5. h[q].end = h[a.end].end /\ h[q].kind = h[a.end].kind
      BY <3>1, <3>4 DEF Parses
    <3>6. h[a.end].end \in Nat
      BY <3>4 DEF Parses
    <3> QED
      BY <2>2, <3>3, <3>5, <3>6
  <2> QED
    BY <2>3, <2>4
<1> HIDE DEF G
<1>5. \A k \in Nat : k \in G
  BY <1>4, InductionOn
<1>6. n \in G /\ p + n >= n
  BY <1>5
<1>7. Right(p)
  BY <1>6 DEF G
<1>8. h[p] \in Parses
  BY <1>3
<1> QED
  BY <1>1, <1>2, <1>7, <1>8

-----------------------------------------------------------------------------
(* How functions along a text are joined. *)

\* A text more.
LEMMA JoinStep ==
  ASSUME NEW n \in Nat, NEW w, NEW f, IsJoin(f, n, w)
  PROVE  /\ f[0] = <<>>
         /\ \A i \in 1 .. n : f[i] = f[i - 1] \o w[i]
<1>1. \A i \in 0 .. n : f[i] = IF i = 0 THEN <<>> ELSE f[i - 1] \o w[i]
  BY DEF IsJoin
<1>2. f[0] = <<>>
  <2>1. 0 \in 0 .. n
    OBVIOUS
  <2> QED
    BY <1>1, <2>1
<1>3. ASSUME NEW i \in 1 .. n PROVE f[i] = f[i - 1] \o w[i]
  <2>1. i \in 0 .. n /\ i # 0
    OBVIOUS
  <2> QED
    BY <1>1, <2>1
<1> QED
  BY <1>2, <1>3

\* The texts w joined are f, the texts v are g, and w and v behind them are h.
Joins(S, n, m, w, v, f, g, h) ==
  /\ n \in Nat /\ m \in Nat
  /\ IsJoin(f, n, w) /\ IsJoin(g, m, v)
  /\ \A i \in 1 .. n : w[i] \in Seq(S)
  /\ \A i \in 1 .. m : v[i] \in Seq(S)
  /\ IsJoin(h, n + m, [i \in 1 .. n + m |-> IF i <= n THEN w[i] ELSE v[i - n]])

IsJoined(S, n, m, f, g, h) == f[n] \in Seq(S) /\ g[m] \in Seq(S) /\ h[n + m] = f[n] \o g[m]

\* Texts joined behind others.
LEMMA JoinBoth ==
  ASSUME NEW S, NEW n, NEW m, NEW w, NEW v, NEW f, NEW g, NEW h, Joins(S, n, m, w, v, f, g, h)
  PROVE  IsJoined(S, n, m, f, g, h)
<1>1. n \in Nat /\ m \in Nat /\ n + m \in Nat
  BY DEF Joins
<1>2. PICK x : x = [i \in 1 .. n + m |-> IF i <= n THEN w[i] ELSE v[i - n]]
  OBVIOUS
<1>3. \A i \in 1 .. n + m : x[i] = IF i <= n THEN w[i] ELSE v[i - n]
  BY <1>2
<1>4. IsJoin(f, n, w) /\ IsJoin(g, m, v) /\ IsJoin(h, n + m, x)
  BY <1>2 DEF Joins
<1>5. \A i \in 1 .. n : w[i] \in Seq(S) /\ x[i] = w[i]
  <2>1. ASSUME NEW i \in 1 .. n PROVE w[i] \in Seq(S) /\ x[i] = w[i]
    <3>1. i \in 1 .. n + m /\ i <= n
      BY <1>1
    <3> QED
      BY <1>3, <3>1 DEF Joins
  <2> QED
    BY <2>1
<1>6. h[n] = f[n] /\ f[n] \in Seq(S)
  <2>1. n + m \in Nat /\ n \in Nat /\ n <= n /\ n <= n + m
    BY <1>1
  <2> QED
    BY ONLY <1>4, <1>5, <2>1, JoinSame
<1>7. /\ g[0] = <<>> /\ \A i \in 1 .. m : g[i] = g[i - 1] \o v[i]
      /\ \A i \in 1 .. n + m : h[i] = h[i - 1] \o x[i]
  <2>1. g[0] = <<>> /\ \A i \in 1 .. m : g[i] = g[i - 1] \o v[i]
    BY ONLY <1>1, <1>4, JoinStep, ZenonT(60)
  <2>2. \A i \in 1 .. n + m : h[i] = h[i - 1] \o x[i]
    BY ONLY <1>1, <1>4, JoinStep, ZenonT(60)
  <2> QED
    BY <2>1, <2>2
<1> DEFINE G == {k \in Nat : k <= m => g[k] \in Seq(S) /\ h[n + k] = f[n] \o g[k]}
<1>8. ASSUME NEW k \in Nat, \A j \in 0 .. k - 1 : j \in G PROVE k \in G
  <2> SUFFICES ASSUME k <= m PROVE g[k] \in Seq(S) /\ h[n + k] = f[n] \o g[k]
    OBVIOUS
  <2>1. CASE k = 0
    <3>1. g[k] = <<>> /\ h[n + k] = f[n]
      BY <1>1, <1>6, <1>7, <2>1
    <3> QED
      BY <1>6, <3>1, EmptySeq, ConcatEmptySeq
  <2>2. CASE k # 0
    <3>1. PICK q \in Nat : q = n + k
      BY <1>1
    <3>2. /\ k - 1 \in 0 .. k - 1 /\ k - 1 <= m /\ k \in 1 .. m /\ q \in 1 .. n + m /\ q - 1 = n + (k - 1)
          /\ ~(q <= n) /\ q - n = k
      BY <1>1, <2>2, <3>1
    <3>3. PICK a : a = g[k - 1]
      OBVIOUS
    <3>4. PICK b : b = v[k]
      OBVIOUS
    <3>5. PICK c : c = f[n]
      OBVIOUS
    <3>6. a \in Seq(S) /\ h[q - 1] = c \o a
      BY <1>8, <3>2, <3>3, <3>5
    <3>7. b \in Seq(S) /\ x[q] = b
      BY <1>3, <3>2, <3>4 DEF Joins
    <3>8. g[k] = a \o b /\ h[q] = (c \o a) \o b
      BY <1>7, <3>2, <3>3, <3>4, <3>6, <3>7
    <3>9. c \in Seq(S)
      BY <1>6, <3>5
    <3>10. a \o b \in Seq(S) /\ (c \o a) \o b = c \o (a \o b)
      BY <3>6, <3>7, <3>9, ConcatAssociative, ConcatProperties, SMTT(30)
    <3> QED
      BY <3>1, <3>5, <3>8, <3>10
  <2> QED
    BY <2>1, <2>2
<1>9. m \in G
  <2> HIDE DEF G
  <2> QED
    BY <1>1, <1>8, InductionOn
<1>10. m <= m
  BY <1>1
<1> QED
  BY <1>6, <1>9, <1>10 DEF IsJoined

-----------------------------------------------------------------------------
(* The calls of a writer. *)

Calls == [raw : BOOLEAN, text : Seq(Nat)]

TextsOf(c) == [i \in 1 .. Len(c) |-> c[i].text]

\* The text of some calls is that of each, one behind the other.
LEMMA AllJoins ==
  ASSUME NEW c \in Seq(Calls)
  PROVE  /\ Len(c) \in Nat
         /\ \A i \in 1 .. Len(c) : TextsOf(c)[i] = c[i].text /\ TextsOf(c)[i] \in Seq(Nat)
         /\ \E f : IsJoin(f, Len(c), TextsOf(c)) /\ All(c) = f[Len(c)]
<1>1. PICK n \in Nat : n = Len(c)
  BY LenProperties
<1>2. PICK w : w = TextsOf(c)
  OBVIOUS
<1>3. \A i \in 1 .. n : w[i] = c[i].text
  BY <1>1, <1>2 DEF TextsOf
<1>4. ASSUME NEW i \in 1 .. n PROVE c[i].text \in Seq(Nat)
  <2>1. c[i] \in Calls
    BY <1>1, ElementOfSeq
  <2> QED
    BY <2>1 DEF Calls
<1>5. PICK f : IsJoin(f, n, w)
  BY JoinExists
<1> DEFINE is(g) == g = [i \in 0 .. n |-> IF i = 0 THEN <<>> ELSE g[i - 1] \o c[i].text]
<1>6. ASSUME NEW g PROVE is(g) <=> IsJoin(g, n, w)
  <2>1. \A i \in 0 .. n : i # 0 => w[i] = c[i].text
    BY <1>3
  <2>2. [i \in 0 .. n |-> IF i = 0 THEN <<>> ELSE g[i - 1] \o c[i].text]
          = [i \in 0 .. n |-> IF i = 0 THEN <<>> ELSE g[i - 1] \o w[i]]
    BY <2>1
  <2> QED
    BY <2>2 DEF IsJoin
<1>7. All(c) = (CHOOSE g : is(g))[n]
  BY <1>1 DEF All
<1>8. is(CHOOSE g : is(g))
  <2>1. is(f)
    BY <1>5, <1>6
  <2> HIDE DEF is
  <2> QED
    BY <2>1
<1>9. PICK g : g = CHOOSE gg : is(gg)
  OBVIOUS
<1>10. IsJoin(g, n, w) /\ All(c) = g[n]
  BY <1>6, <1>7, <1>8, <1>9
<1> QED
  BY <1>1, <1>2, <1>3, <1>4, <1>10

\* No calls are no text; calls behind others add their text to it.
LEMMA AllFacts ==
  ASSUME NEW a \in Seq(Calls), NEW b \in Seq(Calls)
  PROVE  All(a) \in Seq(Nat) /\ All(b) \in Seq(Nat) /\ a \o b \in Seq(Calls)
         /\ All(a \o b) = All(a) \o All(b)
<1>1. PICK c : c = a \o b
  OBVIOUS
<1>2. PICK n \in Nat : n = Len(a)
  BY LenProperties
<1>3. PICK m \in Nat : m = Len(b)
  BY LenProperties
<1>4. /\ c \in Seq(Calls) /\ Len(c) = n + m
      /\ \A i \in 1 .. n + m : c[i] = IF i <= n THEN a[i] ELSE b[i - n]
  BY <1>1, <1>2, <1>3, ConcatProperties
<1>5. PICK w : w = TextsOf(a)
  OBVIOUS
<1>6. PICK v : v = TextsOf(b)
  OBVIOUS
<1>7. PICK x : x = TextsOf(c)
  OBVIOUS
<1>8. PICK f : IsJoin(f, n, w) /\ All(a) = f[n]
  BY <1>2, <1>5, AllJoins
<1>9. PICK g : IsJoin(g, m, v) /\ All(b) = g[m]
  BY <1>3, <1>6, AllJoins
<1>10. PICK h : IsJoin(h, n + m, x) /\ All(c) = h[n + m]
  BY <1>4, <1>7, AllJoins
<1>11. /\ \A i \in 1 .. n : w[i] = a[i].text /\ w[i] \in Seq(Nat)
       /\ \A i \in 1 .. m : v[i] = b[i].text /\ v[i] \in Seq(Nat)
       /\ \A i \in 1 .. n + m : x[i] = c[i].text
  BY <1>2, <1>3, <1>4, <1>5, <1>6, <1>7, AllJoins
<1>12. x = [i \in 1 .. n + m |-> IF i <= n THEN w[i] ELSE v[i - n]]
  <2>1. x = [i \in 1 .. n + m |-> c[i].text]
    BY <1>4, <1>7 DEF TextsOf
  <2>2. ASSUME NEW i \in 1 .. n + m PROVE c[i].text = IF i <= n THEN w[i] ELSE v[i - n]
    <3>1. CASE i <= n
      <4>1. i \in 1 .. n
        BY <3>1
      <4> QED
        BY <1>4, <1>11, <3>1, <4>1
    <3>2. CASE ~(i <= n)
      <4>1. i - n \in 1 .. m
        BY <3>2
      <4> QED
        BY <1>4, <1>11, <3>2, <4>1
    <3> QED
      BY <3>1, <3>2
  <2> QED
    BY <2>1, <2>2
<1>13. Joins(Nat, n, m, w, v, f, g, h)
  BY <1>8, <1>9, <1>10, <1>11, <1>12 DEF Joins
<1>14. f[n] \in Seq(Nat) /\ g[m] \in Seq(Nat) /\ h[n + m] = f[n] \o g[m]
  <2>1. IsJoined(Nat, n, m, f, g, h)
    BY <1>13, JoinBoth
  <2> QED
    BY <2>1 DEF IsJoined
<1> QED
  BY <1>1, <1>4, <1>8, <1>9, <1>10, <1>14

\* The text of no call and of one.
LEMMA AllOfFew ==
  /\ <<>> \in Seq(Calls) /\ All(<<>>) = <<>>
  /\ \A c \in Calls : <<c>> \in Seq(Calls) /\ All(<<c>>) = c.text
<1>1. <<>> \in Seq(Calls) /\ Len(<<>>) = 0
  BY EmptySeq
<1>2. PICK f : IsJoin(f, Len(<<>>), TextsOf(<<>>)) /\ All(<<>>) = f[Len(<<>>)]
  BY <1>1, AllJoins
<1>3. All(<<>>) = <<>>
  <2>1. 0 \in 0 .. Len(<<>>)
    BY <1>1
  <2> QED
    BY <1>1, <1>2, <2>1 DEF IsJoin
<1>4. ASSUME NEW c \in Calls PROVE <<c>> \in Seq(Calls) /\ All(<<c>>) = c.text
  <2>1. PICK s : s = <<c>>
    OBVIOUS
  <2>2. s \in Seq(Calls) /\ Len(s) = 1 /\ s[1] = c
    BY <2>1
  <2>3. PICK w : w = TextsOf(s)
    OBVIOUS
  <2>4. w[1] = c.text
    BY <2>2, <2>3, AllJoins
  <2>5. PICK g : IsJoin(g, 1, w) /\ All(s) = g[1]
    BY <2>2, <2>3, AllJoins
  <2>6. g[1] = g[0] \o w[1] /\ g[0] = <<>>
    <3>1. 1 \in 1 .. 1 /\ 1 - 1 = 0 /\ 1 \in Nat
      OBVIOUS
    <3>2. g[0] = <<>> /\ \A i \in 1 .. 1 : g[i] = g[i - 1] \o w[i]
      BY <2>5, <3>1, JoinStep, ZenonT(60)
    <3>3. g[1] = g[1 - 1] \o w[1]
      BY <3>1, <3>2
    <3> QED
      BY <3>1, <3>2, <3>3
  <2>7. c.text \in Seq(Nat)
    BY DEF Calls
  <2>8. All(s) = c.text
    BY <2>4, <2>5, <2>6, <2>7, JoinedToNone
  <2> QED
    BY <2>1, <2>2, <2>8
<1> QED
  BY <1>1, <1>3, <1>4

\* append and append_char.
LEMMA AppendFacts ==
  ASSUME NEW t \in Seq(Nat)
  PROVE  append(t) \in Seq(Calls) /\ All(append(t)) = t
<1>1. [raw |-> FALSE, text |-> t] \in Calls
  BY DEF Calls
<1> QED
  BY <1>1, AllOfFew DEF append

\* One call of append_char, if any is made.
LEMMA AppendCharFacts ==
  ASSUME NEW c \in Nat, NEW n \in Int
  PROVE  /\ append_char(c, n) \in Seq(Calls)
         /\ All(append_char(c, n)) = [i \in 1 .. n |-> c]
         /\ [i \in 1 .. n |-> c] \in Seq(Nat)
<1>1. CASE n <= 0
  <2>1. [i \in 1 .. n |-> c] = <<>>
    <3>1. 1 .. n = {}
      BY <1>1
    <3> QED
      BY <3>1
  <2> QED
    BY <1>1, <2>1, AllOfFew, EmptySeq DEF append_char
<1>2. CASE n > 0
  <2>1. n \in Nat
    BY <1>2
  <2>2. [i \in 1 .. n |-> c] \in Seq(Nat)
    BY <2>1, SeqDef
  <2>3. [raw |-> TRUE, text |-> [i \in 1 .. n |-> c]] \in Calls
    BY <2>2 DEF Calls
  <2>4. append_char(c, n) = <<[raw |-> TRUE, text |-> [i \in 1 .. n |-> c]]>>
    <3>1. ~(n <= 0)
      BY <1>2
    <3> QED
      BY <3>1, Zenon DEF append_char
  <2> QED
    BY <2>2, <2>3, <2>4, AllOfFew
<1> QED
  BY <1>1, <1>2

-----------------------------------------------------------------------------
(* What the writers are called with for an argument: texts. *)

\* What format_spec holds.
Specs ==
  [minimum_length : Int, precision : Int, arg_index : Int,
   alignment : {"default", "left", "right"},
   digit_class : {"default", "hex", "hex_upper", "dec", "oct", "bin", "char"},
   float_class : {"default", "fixed", "exp", "exp_upper"},
   pad : Nat, always_signed : BOOLEAN, class_prefix : BOOLEAN, numeric_pad : BOOLEAN]

\* What printing an argument may come to.
Printings == [calls : Seq(Calls), ok : BOOLEAN]

\* Some texts are texts.
LEMMA ShortTexts ==
  /\ \A c \in Nat : <<c>> \in Seq(Nat)
  /\ \A c, d \in Nat : <<c, d>> \in Seq(Nat)
  /\ \A c, d, e, f \in Nat : <<c, d, e, f>> \in Seq(Nat)
  /\ <<>> \in Seq(Nat)
  OBVIOUS

\* An argument's texts are bytes.
LEMMA ArgFacts ==
  ASSUME NEW a \in Args
  PROVE  /\ a.type \in ArgTypes /\ a.value \in Int
         /\ a.text \in Seq(Nat) /\ a.imag \in Seq(Nat)
         /\ a.type = "char8" => a.value \in Nat
<1> DEFINE B == 0 .. 255
<1>1. a \in [type : ArgTypes, value : Int, text : Seq(B), imag : Seq(B)] /\ (a.type = "char8" => a.value \in B)
  BY DEF Args
<1>2. B \subseteq Nat
  OBVIOUS
<1> HIDE DEF B
<1>3. a.text \in Seq(B) /\ a.imag \in Seq(B) /\ a.type \in ArgTypes /\ a.value \in Int
  BY <1>1
<1> QED
  BY <1>1, <1>2, <1>3, SeqMonotonic

\* One char.
LEMMA OneChar ==
  ASSUME NEW c \in Nat
  PROVE  /\ append_char(c, 1) \in Seq(Calls) /\ All(append_char(c, 1)) = <<c>>
         /\ All(append_char(c, 1)) = [i \in 1 .. 1 |-> c]
<1>1. PICK n \in Int : n = 1
  OBVIOUS
<1>2. append_char(c, n) \in Seq(Calls) /\ All(append_char(c, n)) = [i \in 1 .. n |-> c]
  BY AppendCharFacts
<1>3. [i \in 1 .. 1 |-> c] = <<c>>
  OBVIOUS
<1> QED
  BY <1>1, <1>2, <1>3

\* The character to pad with.
LEMMA PadFacts ==
  ASSUME NEW s \in Specs
  PROVE  /\ Pad(s) \in Nat
         /\ \A n \in Int : /\ append_char(Pad(s), n) \in Seq(Calls)
                           /\ All(append_char(Pad(s), n)) = [i \in 1 .. n |-> Pad(s)]
                           /\ [i \in 1 .. n |-> Pad(s)] \in Seq(Nat)
<1>1. Pad(s) \in Nat
  BY DEF Specs, Pad, Blank
<1> QED
  BY <1>1, AppendCharFacts

\* Part of a text from its beginning.
LEMMA Beginning ==
  ASSUME NEW t \in Seq(Nat), NEW n \in 0 .. Len(t)
  PROVE  SubSeq(t, 1, n) \in Seq(Nat) /\ Len(SubSeq(t, 1, n)) = n
<1>1. Len(t) \in Nat
  BY LenProperties
<1>2. n \in Int /\ \A i \in 1 .. n : t[i] \in Nat
  <2>1. n \in Int /\ \A i \in 1 .. n : i \in 1 .. Len(t)
    BY <1>1
  <2> QED
    BY <2>1, ElementOfSeq
<1>3. SubSeq(t, 1, n) \in Seq(Nat) /\ Len(SubSeq(t, 1, n)) = IF 1 <= n THEN n - 1 + 1 ELSE 0
  BY <1>2, SubSeqProperties
<1> QED
  BY <1>1, <1>3

\* How much of a text is shown.
Shown(s, t) == IF s.precision >= 0 /\ Len(t) > s.precision THEN s.precision ELSE Len(t)

\* format_string: what is shown of the text, filled up.
LEMMA StringCalls ==
  ASSUME NEW s \in Specs, NEW t \in Seq(Nat)
  PROVE  /\ Shown(s, t) \in 0 .. Len(t)
         /\ format_string(s, t) \in Seq(Calls)
         /\ LET shown == SubSeq(t, 1, Shown(s, t))
                fill  == [i \in 1 .. s.minimum_length - Shown(s, t) |-> Pad(s)]
            IN  All(format_string(s, t)) = IF s.alignment = "right" THEN fill \o shown ELSE shown \o fill
<1>1. PICK k : k = Shown(s, t)
  OBVIOUS
<1>2. Len(t) \in Nat
  BY LenProperties
<1>3. s.precision \in Int /\ s.minimum_length \in Int
  BY DEF Specs
<1>4. k \in 0 .. Len(t)
  BY <1>1, <1>2, <1>3 DEF Shown
<1>5. PICK shown : shown = SubSeq(t, 1, k)
  OBVIOUS
<1>6. append(shown) \in Seq(Calls) /\ All(append(shown)) = shown
  BY <1>4, <1>5, Beginning, AppendFacts
<1>7. PICK n \in Int : n = s.minimum_length - k
  BY <1>3, <1>4
<1>8. PICK fill : fill = append_char(Pad(s), n)
  OBVIOUS
<1>9. fill \in Seq(Calls) /\ All(fill) = [i \in 1 .. n |-> Pad(s)]
  BY <1>8, PadFacts
<1>10. format_string(s, t) = IF s.alignment = "right" THEN fill \o append(shown) ELSE append(shown) \o fill
  BY <1>1, <1>5, <1>7, <1>8 DEF format_string, Shown
<1>11. PICK piece : piece = append(shown)
  OBVIOUS
<1>12. /\ fill \o piece \in Seq(Calls) /\ All(fill \o piece) = All(fill) \o All(piece)
       /\ piece \o fill \in Seq(Calls) /\ All(piece \o fill) = All(piece) \o All(fill)
  BY <1>6, <1>9, <1>11, AllFacts
<1>13. format_string(s, t) \in Seq(Calls)
  BY <1>10, <1>11, <1>12
<1>14. All(format_string(s, t)) = IF s.alignment = "right" THEN All(fill) \o shown ELSE shown \o All(fill)
  BY <1>6, <1>10, <1>11, <1>12
<1>15. All(fill) = [i \in 1 .. s.minimum_length - k |-> Pad(s)]
  BY <1>7, <1>9
<1> QED
  BY <1>1, <1>4, <1>5, <1>13, <1>14, <1>15

\* Calls in three parts.
LEMMA AllOfThree ==
  ASSUME NEW a \in Seq(Calls), NEW b \in Seq(Calls), NEW c \in Seq(Calls)
  PROVE  /\ (a \o b) \o c \in Seq(Calls)
         /\ All((a \o b) \o c) = (All(a) \o All(b)) \o All(c)
<1>1. PICK x : x = a \o b
  OBVIOUS
<1>2. x \in Seq(Calls) /\ All(x) = All(a) \o All(b)
  BY <1>1, AllFacts
<1>3. x \o c \in Seq(Calls) /\ All(x \o c) = All(x) \o All(c)
  BY <1>2, AllFacts
<1> QED
  BY <1>1, <1>2, <1>3

-----------------------------------------------------------------------------
(* Numbers *)

\* The digits of a number, of which there is at least one.
LEMMA DigitsFacts ==
  ASSUME NEW r \in {2, 8, 10, 16}, NEW u \in BOOLEAN, NEW n \in Nat
  PROVE  /\ Digits(n, r, u) \in Seq(DigitCodes(r))
         /\ Digits(n, r, u) \in Seq(Nat)
         /\ Digits(n, r, u) # <<>>
         /\ Worth(Digits(n, r, u), r) = n
<1>1. r \in Nat /\ r >= 2 /\ r <= 36
  OBVIOUS
<1>2. DigitCodes(r) \subseteq Nat
  BY DEF DigitCodes
<1>3. CASE n = 0
  <2>1. Digits(n, r, u) = <<48>>
    BY <1>3 DEF Digits
  <2>2. 48 \in DigitCodes(r)
    BY <1>1 DEF DigitCodes, IsDigit, DigitWorth
  <2>3. <<48>> \in Seq(DigitCodes(r)) /\ <<48>> \in Seq(Nat) /\ <<48>> # <<>>
    BY <2>2
  <2>4. PICK S : S = DigitCodes(r)
    OBVIOUS
  <2>5. <<>> \in Seq(S) /\ IsDigits(<<>>) /\ 48 \in S /\ DigitWorth(48) = 0
    BY <2>2, <2>4 DEF IsDigits, DigitWorth
  <2>6. Worth(<<>>, r) = 0 /\ Worth(Append(<<>>, 48), r) = r * Worth(<<>>, r) + DigitWorth(48)
    <3> DEFINE W(d) == Worth(d, r)
               A(d, c) == Append(d, c)
               Z == Seq(S)
               D(d) == IsDigits(d)
               V(c) == DigitWorth(c)
    <3>1. r \in Nat /\ <<>> \in Z /\ D(<<>>) /\ 48 \in S /\ V(48) \in Nat
      BY <1>1, <2>5
    <3>2. \A d \in Z : D(d) => /\ W(<<>>) = 0
                              /\ \A c \in S : V(c) \in Nat => W(A(d, c)) = r * W(d) + V(c)
      BY <3>1, WorthFacts
    <3> HIDE DEF W, A, Z, D, V
    <3>3. W(<<>>) = 0 /\ W(A(<<>>, 48)) = r * W(<<>>) + V(48)
      BY ONLY <3>1, <3>2
    <3> QED
      BY ONLY <3>3 DEF W, A, V
  <2>7. Append(<<>>, 48) = <<48>>
    OBVIOUS
  <2>8. Worth(<<48>>, r) = 0
    BY <1>1, <2>5, <2>6, <2>7
  <2> QED
    BY <1>3, <2>1, <2>3, <2>8
<1>4. CASE n # 0
  <2>1. Digits(n, r, u) = Written(n, r, u)
    BY <1>4 DEF Written
  <2>2. Written(n, r, u) \in Seq(DigitCodes(r))
    BY <1>1, WrittenFacts
  <2>3. Worth(Written(n, r, u), r) = n
    BY <1>1, WorthOfWritten
  <2>4. Written(n, r, u) # <<>>
    <3>1. <<>> \in Seq(DigitCodes(r)) /\ IsDigits(<<>>)
      BY EmptySeq DEF IsDigits
    <3>2. Worth(<<>>, r) = 0
      BY <1>1, <3>1, WorthFacts
    <3> QED
      BY <1>4, <2>3, <3>2
  <2>5. Written(n, r, u) \in Seq(Nat)
    BY <1>2, <2>2, SeqMonotonic
  <2> QED
    BY <2>1, <2>2, <2>3, <2>4, <2>5
<1> QED
  BY <1>3, <1>4

\* The sign and the prefix of a number, as the writer is given them.
LEMMA PrefixCalls ==
  ASSUME NEW s \in Specs, NEW v \in Int
  PROVE  /\ Sign(s, v) \in Seq(Nat) /\ ClassPrefix(s, v) \in Seq(Nat)
         /\ Len(Sign(s, v)) \in {0, 1} /\ Len(ClassPrefix(s, v)) \in {0, 1, 2}
         /\ format_numeric_prefix(s, v) \in Seq(Calls)
         /\ All(format_numeric_prefix(s, v)) = Sign(s, v) \o ClassPrefix(s, v)
<1>1. PICK sign : sign = Sign(s, v)
  OBVIOUS
<1>2. PICK cls : cls = ClassPrefix(s, v)
  OBVIOUS
<1>3. sign \in {<<>>, <<43>>, <<45>>}
  BY <1>1 DEF Sign, Plus, Minus
<1>4. cls \in {<<>>, <<48>>, <<48, 120>>, <<48, 88>>, <<48, 98>>}
  BY <1>2 DEF ClassPrefix
<1>5. /\ sign \in Seq(Nat) /\ Len(sign) \in {0, 1}
      /\ sign # <<>> => Len(sign) = 1 /\ sign[1] \in Nat /\ sign = [i \in 1 .. 1 |-> sign[1]]
  <2>1. CASE sign = <<>>
    BY <2>1
  <2>2. CASE sign = <<43>>
    BY <2>2
  <2>3. CASE sign = <<45>>
    BY <2>3
  <2> QED
    BY <1>3, <2>1, <2>2, <2>3
<1>6. /\ cls \in Seq(Nat) /\ Len(cls) \in {0, 1, 2}
      /\ Len(cls) = 0 => cls = <<>>
      /\ Len(cls) = 1 => cls = [i \in 1 .. 1 |-> 48]
  <2>1. CASE cls = <<>>
    BY <2>1
  <2>2. CASE cls = <<48>>
    BY <2>2
  <2>3. CASE cls = <<48, 120>>
    BY <2>3
  <2>4. CASE cls = <<48, 88>>
    BY <2>4
  <2>5. CASE cls = <<48, 98>>
    BY <2>5
  <2> QED
    BY <1>4, <2>1, <2>2, <2>3, <2>4, <2>5
<1>7. PICK a : a = IF sign = <<>> THEN <<>> ELSE append_char(sign[1], 1)
  OBVIOUS
<1>8. PICK b : b = IF Len(cls) = 1 THEN append_char(48, 1) ELSE IF cls = <<>> THEN <<>> ELSE append(cls)
  OBVIOUS
<1>9. format_numeric_prefix(s, v) = a \o b
  BY <1>1, <1>2, <1>7, <1>8 DEF format_numeric_prefix
<1>10. a \in Seq(Calls) /\ All(a) = sign
  <2>1. CASE sign = <<>>
    BY <1>7, <2>1, AllOfFew
  <2>2. CASE sign # <<>>
    <3>1. PICK c \in Nat : c = sign[1]
      BY <1>5, <2>2
    <3>2. append_char(c, 1) \in Seq(Calls) /\ All(append_char(c, 1)) = [i \in 1 .. 1 |-> c]
      BY OneChar
    <3> QED
      BY <1>5, <1>7, <2>2, <3>1, <3>2
  <2> QED
    BY <2>1, <2>2
<1>11. b \in Seq(Calls) /\ All(b) = cls
  <2>1. append_char(48, 1) \in Seq(Calls) /\ All(append_char(48, 1)) = [i \in 1 .. 1 |-> 48]
    BY OneChar
  <2>2. append(cls) \in Seq(Calls) /\ All(append(cls)) = cls
    BY <1>6, AppendFacts
  <2> QED
    BY <1>6, <1>8, <2>1, <2>2, AllOfFew
<1>12. a \o b \in Seq(Calls) /\ All(a \o b) = All(a) \o All(b)
  BY <1>10, <1>11, AllFacts
<1> QED
  BY <1>1, <1>2, <1>5, <1>6, <1>9, <1>10, <1>11, <1>12

\* The digits of a number's magnitude.
Magnitude(v) == IF v < 0 THEN -v ELSE v
DigitsOf(s, v) == Digits(Magnitude(v), Radix(s), s.digit_class = "hex_upper")

\* format_numeric: the digits, what precedes them, and the fill at its place.
LEMMA NumericCalls ==
  ASSUME NEW s \in Specs, NEW v \in Int
  PROVE  /\ Magnitude(v) \in Nat /\ Radix(s) \in {2, 8, 10, 16}
         /\ DigitsOf(s, v) \in Seq(DigitCodes(Radix(s))) /\ DigitsOf(s, v) \in Seq(Nat)
         /\ DigitsOf(s, v) # <<>> /\ Worth(DigitsOf(s, v), Radix(s)) = Magnitude(v)
         /\ pad_size(s, Len(DigitsOf(s, v)), v) \in Int
         /\ format_numeric(s, v) \in Seq(Calls)
         /\ LET prefix == Sign(s, v) \o ClassPrefix(s, v)
                fill   == [i \in 1 .. pad_size(s, Len(DigitsOf(s, v)), v) |-> Pad(s)]
            IN  All(format_numeric(s, v)) =
                  IF s.numeric_pad THEN (prefix \o fill) \o DigitsOf(s, v)
                  ELSE IF s.alignment = "left" THEN (prefix \o DigitsOf(s, v)) \o fill
                  ELSE (fill \o prefix) \o DigitsOf(s, v)
<1>1. PICK m \in Nat : m = Magnitude(v)
  BY DEF Magnitude
<1>2. PICK r \in {2, 8, 10, 16} : r = Radix(s)
  BY DEF Radix
<1>3. PICK u \in BOOLEAN : u = (s.digit_class = "hex_upper")
  OBVIOUS
<1>4. PICK d : d = Digits(m, r, u)
  OBVIOUS
<1>5. d \in Seq(DigitCodes(r)) /\ d \in Seq(Nat) /\ d # <<>> /\ Worth(d, r) = m
  BY <1>4, DigitsFacts
<1>6. DigitsOf(s, v) = d
  BY <1>1, <1>2, <1>3, <1>4 DEF DigitsOf
<1>7. PICK pre : pre = format_numeric_prefix(s, v)
  OBVIOUS
<1>8. pre \in Seq(Calls) /\ All(pre) = Sign(s, v) \o ClassPrefix(s, v)
  BY <1>7, PrefixCalls
<1>9. PICK n : n = pad_size(s, Len(d), v)
  OBVIOUS
<1>10. n \in Int
  <2>1. Len(d) \in Nat /\ Len(Sign(s, v)) \in Int /\ Len(ClassPrefix(s, v)) \in Int /\ s.minimum_length \in Int
    <3>1. Len(Sign(s, v)) \in {0, 1} /\ Len(ClassPrefix(s, v)) \in {0, 1, 2}
      BY PrefixCalls
    <3>2. Len(d) \in Nat
      BY <1>5, LenProperties
    <3> QED
      BY <3>1, <3>2 DEF Specs
  <2> QED
    BY <1>9, <2>1 DEF pad_size
<1>11. PICK fill : fill = append_char(Pad(s), n)
  OBVIOUS
<1>12. fill \in Seq(Calls) /\ All(fill) = [i \in 1 .. n |-> Pad(s)]
  BY <1>10, <1>11, PadFacts
<1>13. PICK e : e = append(d)
  OBVIOUS
<1>14. e \in Seq(Calls) /\ All(e) = d
  BY <1>5, <1>13, AppendFacts
<1>15. format_numeric(s, v) = IF s.numeric_pad THEN (pre \o fill) \o e
                              ELSE IF s.alignment = "left" THEN (pre \o e) \o fill
                              ELSE (fill \o pre) \o e
  <2>1. format_numeric(s, v) = format_numeric_string(s, d, v)
    BY <1>1, <1>2, <1>3, <1>4 DEF format_numeric, Magnitude
  <2> QED
    BY <1>7, <1>9, <1>11, <1>13, <2>1 DEF format_numeric_string
<1>16. /\ (pre \o fill) \o e \in Seq(Calls) /\ (pre \o e) \o fill \in Seq(Calls)
       /\ (fill \o pre) \o e \in Seq(Calls)
       /\ All((pre \o fill) \o e) = (All(pre) \o All(fill)) \o All(e)
       /\ All((pre \o e) \o fill) = (All(pre) \o All(e)) \o All(fill)
       /\ All((fill \o pre) \o e) = (All(fill) \o All(pre)) \o All(e)
  BY <1>8, <1>12, <1>14, AllOfThree
<1>17. PICK p : p = Sign(s, v) \o ClassPrefix(s, v)
  OBVIOUS
<1>18. PICK z : z = [i \in 1 .. n |-> Pad(s)]
  OBVIOUS
<1>19. format_numeric(s, v) \in Seq(Calls)
  BY <1>15, <1>16
<1>20. All(format_numeric(s, v)) = IF s.numeric_pad THEN (p \o z) \o d
                                   ELSE IF s.alignment = "left" THEN (p \o d) \o z
                                   ELSE (z \o p) \o d
  <2>1. All(pre) = p /\ All(fill) = z /\ All(e) = d
    BY <1>8, <1>12, <1>14, <1>17, <1>18
  <2> QED
    BY <1>15, <1>16, <2>1
<1> QED
  BY <1>1, <1>2, <1>5, <1>6, <1>9, <1>10, <1>17, <1>18, <1>19, <1>20

-----------------------------------------------------------------------------
(* What the writers are called with for an argument: each type. *)

\* What snprintf prints is a text.
LEMMA SnprintfText ==
  ASSUME NEW s \in Specs, NEW t \in Seq(Nat)
  PROVE  snprintf(s, t) \in Seq(Nat)
<1>1. s.precision \in Int /\ s.always_signed \in BOOLEAN
  BY DEF Specs
<1>2. PICK places \in Nat : places = IF s.precision >= 0 THEN s.precision ELSE 6
  BY <1>1
<1>3. PICK plus : plus = IF s.always_signed THEN <<Plus>> ELSE <<>>
  OBVIOUS
<1>31. plus \in Seq(Nat)
  <2>1. <<43>> \in Seq(Nat) /\ <<>> \in Seq(Nat)
    OBVIOUS
  <2> QED
    BY <1>3, <2>1 DEF Plus
<1>4. PICK point : point = IF places = 0 THEN <<>> ELSE <<46>>
  OBVIOUS
<1>41. point \in Seq(Nat)
  <2>1. <<46>> \in Seq(Nat) /\ <<>> \in Seq(Nat)
    OBVIOUS
  <2> QED
    BY <1>4, <2>1
<1>5. PICK zeros : zeros = [i \in 1 .. places |-> Zero]
  OBVIOUS
<1>51. zeros \in Seq(Nat)
  <2>1. \A c \in Nat : [i \in 1 .. places |-> c] \in Seq(Nat)
    BY SeqDef
  <2>2. Zero \in Nat
    BY DEF Zero
  <2> QED
    BY <1>5, <2>1, <2>2
<1>6. PICK power :
        power = CASE s.float_class = "exp"       -> <<101, Plus, Zero, Zero>>
                  [] s.float_class = "exp_upper" -> <<69, Plus, Zero, Zero>>
                  [] OTHER -> <<>>
  OBVIOUS
<1>61. power \in Seq(Nat)
  <2>1. <<101, 43, 48, 48>> \in Seq(Nat) /\ <<69, 43, 48, 48>> \in Seq(Nat) /\ <<>> \in Seq(Nat)
    BY ShortTexts
  <2> QED
    BY <1>6, <2>1 DEF Plus, Zero
<1>7. snprintf(s, t) = IF s.float_class = "default" THEN plus \o t
                       ELSE plus \o t \o point \o zeros \o power
  BY <1>2, <1>3, <1>4, <1>5, <1>6 DEF snprintf
<1>8. plus \o t \in Seq(Nat)
  BY <1>31, ConcatProperties
<1>9. plus \o t \o point \in Seq(Nat)
  BY <1>8, <1>41, ConcatProperties
<1>10. plus \o t \o point \o zeros \in Seq(Nat)
  BY <1>9, <1>51, ConcatProperties
<1>11. plus \o t \o point \o zeros \o power \in Seq(Nat)
  BY <1>10, <1>61, ConcatProperties
<1> QED
  BY <1>7, <1>8, <1>11

\* A floating-point number is printed with its padding or not at all.
LEMMA DoubleCalls ==
  ASSUME NEW s \in Specs, NEW t \in Seq(Nat)
  PROVE  LET text == snprintf(s, t)
             fill == [i \in 1 .. s.minimum_length - Len(text) |-> Pad(s)]
             r    == format_double(s, t)
         IN  /\ r \in Printings
             /\ r.ok <=> Len(text) < OutBuffer
             /\ All(r.calls) = IF ~r.ok THEN <<>>
                               ELSE IF s.alignment = "left" THEN text \o fill ELSE fill \o text
<1>1. PICK text \in Seq(Nat) : text = snprintf(s, t)
  BY SnprintfText
<1>2. PICK n \in Int : n = s.minimum_length - Len(text)
  <2>1. Len(text) \in Nat /\ s.minimum_length \in Int
    BY LenProperties DEF Specs
  <2> QED
    BY <2>1
<1>3. PICK fill : fill = append_char(Pad(s), n)
  OBVIOUS
<1>4. fill \in Seq(Calls) /\ All(fill) = [i \in 1 .. n |-> Pad(s)]
  BY <1>3, PadFacts
<1>5. PICK e : e = append(text)
  OBVIOUS
<1>6. e \in Seq(Calls) /\ All(e) = text
  BY <1>5, AppendFacts
<1>7. /\ e \o fill \in Seq(Calls) /\ All(e \o fill) = All(e) \o All(fill)
      /\ fill \o e \in Seq(Calls) /\ All(fill \o e) = All(fill) \o All(e)
  BY <1>4, <1>6, AllFacts
<1>8. PICK r : r = format_double(s, t)
  OBVIOUS
<1>9. r = IF ~(Len(text) < OutBuffer) THEN AssertFails
          ELSE Printed(IF s.alignment = "left" THEN e \o fill ELSE fill \o e)
  BY <1>1, <1>2, <1>3, <1>5, <1>8 DEF format_double, FloatFits
<1>10. CASE ~(Len(text) < OutBuffer)
  <2>1. r.calls = <<>> /\ r.ok = FALSE /\ r \in Printings
    BY <1>9, <1>10, AllOfFew DEF AssertFails, Printings
  <2> QED
    BY <1>1, <1>8, <1>10, <2>1, AllOfFew
<1>11. CASE Len(text) < OutBuffer
  <2>1. PICK c : c = IF s.alignment = "left" THEN e \o fill ELSE fill \o e
    OBVIOUS
  <2>2. c \in Seq(Calls) /\ All(c) = IF s.alignment = "left" THEN text \o All(fill) ELSE All(fill) \o text
    BY <1>6, <1>7, <2>1
  <2>3. r.calls = c /\ r.ok = TRUE /\ r \in Printings
    BY <1>9, <1>11, <2>1, <2>2 DEF Printed, Printings
  <2> QED
    BY <1>1, <1>2, <1>4, <1>8, <1>11, <2>2, <2>3
<1> QED
  BY <1>10, <1>11

\* A character is printed as its encoding, or the replacement's.
LEMMA CharCalls ==
  ASSUME NEW s \in Specs, NEW v \in Int
  PROVE  LET r    == format_char(s, v)
             text == IF v \in 0 .. MaxCode THEN write_utf8(v) ELSE BadChar.utf8
         IN  /\ r \in Printings
             /\ r.ok <=> NoPadding(s)
             /\ text \in Seq(Nat)
             /\ All(r.calls) = IF r.ok THEN text ELSE <<>>
             /\ r.ok => r.calls = append(text)
<1>1. PICK text : text = IF v \in 0 .. MaxCode THEN write_utf8(v) ELSE BadChar.utf8
  OBVIOUS
<1>2. PICK r : r = format_char(s, v)
  OBVIOUS
<1>0. v \in 0 .. MaxCode <=> v \in Nat /\ v <= MaxCode
  <2>1. PICK M \in Nat : M = MaxCode
    BY DEF MaxCode
  <2> QED
    BY <2>1
<1>3. text \in Seq(Nat)
  <2>1. BadChar.utf8 \in Seq(Nat)
    BY ReplacementReads
  <2>2. v \in 0 .. MaxCode => write_utf8(v) \in Seq(Nat)
    BY <1>0, EncodedWhole
  <2> QED
    BY <1>1, <2>1, <2>2
<1>4. (IF v < 0 THEN <<>> ELSE write_utf8(v)) = IF v \in 0 .. MaxCode THEN write_utf8(v) ELSE <<>>
  <2>1. ~(v <= MaxCode) => write_utf8(v) = <<>>
    BY DEF write_utf8, MaxCode
  <2>2. v < 0 <=> v \notin Nat
    OBVIOUS
  <2> QED
    BY <1>0, <2>1, <2>2
<1>5. v \in 0 .. MaxCode => write_utf8(v) # <<>>
  <2> SUFFICES ASSUME v \in 0 .. MaxCode PROVE write_utf8(v) # <<>>
    OBVIOUS
  <2>1. v \in Nat /\ v <= MaxCode
    BY <1>0
  <2>2. Len(write_utf8(v)) \in 1 .. 4
    BY <2>1, EncodedWhole
  <2> QED
    BY <2>2
<1>6. r = IF ~NoPadding(s) THEN AssertFails ELSE Printed(append(text))
  <2>1. r = LET utf8 == IF v \in 0 .. MaxCode THEN write_utf8(v) ELSE <<>>
            IN  IF ~NoPadding(s) THEN AssertFails
                ELSE Printed(append(IF utf8 = <<>> THEN BadChar.utf8 ELSE utf8))
    BY <1>2, <1>4 DEF format_char
  <2> QED
    BY <1>1, <1>5, <2>1
<1>7. append(text) \in Seq(Calls) /\ All(append(text)) = text
  BY <1>3, AppendFacts
<1>8. CASE NoPadding(s)
  <2>1. r.calls = append(text) /\ r.ok = TRUE /\ r \in Printings
    BY <1>6, <1>7, <1>8 DEF Printed, Printings
  <2> QED
    BY <1>1, <1>2, <1>3, <1>7, <1>8, <2>1
<1>9. CASE ~NoPadding(s)
  <2>1. r.calls = <<>> /\ r.ok = FALSE /\ r \in Printings
    BY <1>6, <1>9, AllOfFew DEF AssertFails, Printings
  <2> QED
    BY <1>1, <1>2, <1>3, <1>9, <2>1, AllOfFew
<1> QED
  BY <1>8, <1>9

\* A complex number is its two parts.
LEMMA ComplexCalls ==
  ASSUME NEW s \in Specs, NEW a \in Args
  PROVE  /\ format_complex(s, a) \in Printings
         /\ LET real == format_double(s, a.text)
                imag == format_double(s, a.imag)
                r    == format_complex(s, a)
            IN  r.calls = IF ~real.ok THEN <<>>
                          ELSE IF ~imag.ok THEN real.calls \o append_char(Plus, 1)
                          ELSE real.calls \o append_char(Plus, 1) \o imag.calls \o append_char(105, 1)
<1>1. a.text \in Seq(Nat) /\ a.imag \in Seq(Nat)
  BY ArgFacts
<1>2. PICK x \in Printings : x = format_double(s, a.text)
  BY <1>1, DoubleCalls
<1>3. PICK y \in Printings : y = format_double(s, a.imag)
  BY <1>1, DoubleCalls
<1>4. PICK p \in Seq(Calls) : p = append_char(Plus, 1)
  BY OneChar DEF Plus
<1>5. PICK q \in Seq(Calls) : q = append_char(105, 1)
  BY OneChar
<1>6. x.calls \in Seq(Calls) /\ y.calls \in Seq(Calls) /\ x.ok \in BOOLEAN /\ y.ok \in BOOLEAN
      /\ y = [calls |-> y.calls, ok |-> y.ok]
  BY DEF Printings
<1>7. x.calls \o p \in Seq(Calls)
  BY <1>6, ConcatProperties
<1>8. x.calls \o p \o y.calls \in Seq(Calls)
  BY <1>6, <1>7, ConcatProperties
<1>9. x.calls \o p \o y.calls \o q \in Seq(Calls)
  BY <1>6, <1>8, ConcatProperties
<1>10. PICK r : r = format_complex(s, a)
  OBVIOUS
<1>11. r = IF ~x.ok THEN x ELSE IF ~y.ok THEN [y EXCEPT !.calls = x.calls \o p]
           ELSE Printed(x.calls \o p \o y.calls \o q)
  BY <1>2, <1>3, <1>4, <1>5, <1>10 DEF format_complex
<1>12. ~x.ok => x.calls = <<>>
  <2>1. ~x.ok => x = AssertFails
    BY <1>2 DEF format_double, AssertFails, Printed
  <2> QED
    BY <2>1 DEF AssertFails
<1>13. CASE ~x.ok
  BY <1>2, <1>3, <1>4, <1>5, <1>10, <1>11, <1>12, <1>13
<1>14. CASE x.ok /\ ~y.ok
  <2>1. r = [calls |-> x.calls \o p, ok |-> y.ok]
    BY <1>6, <1>11, <1>14
  <2>2. r \in Printings /\ r.calls = x.calls \o p
    BY <1>6, <1>7, <2>1 DEF Printings
  <2> QED
    BY <1>2, <1>3, <1>4, <1>5, <1>10, <1>14, <2>2
<1>15. CASE x.ok /\ y.ok
  <2>1. r = [calls |-> x.calls \o p \o y.calls \o q, ok |-> TRUE]
    BY <1>11, <1>15 DEF Printed
  <2>2. r \in Printings /\ r.calls = x.calls \o p \o y.calls \o q
    BY <1>9, <2>1 DEF Printings
  <2> QED
    BY <1>2, <1>3, <1>4, <1>5, <1>10, <1>15, <2>2
<1> QED
  BY <1>13, <1>14, <1>15

\* What a bool is called.
BoolText(v) == IF v = 1 THEN <<116, 114, 117, 101>> ELSE <<102, 97, 108, 115, 101>>

\* Each kind of argument.
LEMMA TypeCalls ==
  ASSUME NEW s \in Specs, NEW a \in Args
  PROVE  /\ a.type = "text" => format_type(s, a) = Printed(format_string(s, a.text))
         /\ a.type = "ill_formed" => format_type(s, a) = Throws
         /\ a.type = "null" => format_type(s, a) = Printed(<<>>)
         /\ a.type = "bool" => format_type(s, a) = Printed(format_string(s, BoolText(a.value)))
         /\ a.type = "int" => format_type(s, a) = IF s.digit_class = "char" THEN format_char(s, AsInt(a.value))
                                                  ELSE Printed(format_numeric(s, a.value))
         /\ a.type = "char8" => format_type(s, a) =
              IF s.digit_class # "char" THEN Printed(format_numeric(s, a.value))
              ELSE IF NoPadding(s) THEN Printed(append_char(a.value, 1)) ELSE AssertFails
         /\ a.type = "double" => format_type(s, a) = format_double(s, a.text)
         /\ a.type = "complex" => format_type(s, a) = format_complex(s, a)
<1>1. PICK t : t = a.type
  OBVIOUS
<1> HIDE DEF Args
<1>2. CASE t = "text"
  BY <1>1, <1>2 DEF format_type
<1>3. CASE t = "null"
  BY <1>1, <1>3 DEF format_type
<1>4. CASE t = "bool"
  BY <1>1, <1>4 DEF format_type, BoolText
<1>5. CASE t = "int"
  BY <1>1, <1>5 DEF format_type
<1>6. CASE t = "char8"
  BY <1>1, <1>6 DEF format_type
<1>7. CASE t = "double"
  BY <1>1, <1>7 DEF format_type
<1>8. CASE t = "complex"
  BY <1>1, <1>8 DEF format_type
<1>9. CASE t = "ill_formed"
  BY <1>1, <1>9 DEF format_type
<1> QED
  BY <1>1, <1>2, <1>3, <1>4, <1>5, <1>6, <1>7, <1>8, <1>9

\* A number of no more than MaxCode is the int it is narrowed to.
LEMMA NarrowFacts ==
  ASSUME NEW n \in Int
  PROVE  /\ AsInt(n) \in Int /\ n % IntMod \in Nat
         /\ AsInt(n) \in 0 .. MaxCode <=> n % IntMod \in 0 .. MaxCode
         /\ AsInt(n) \in 0 .. MaxCode => AsInt(n) = n % IntMod
<1>1. PICK m \in Nat : m = IntMod
  BY IntAssumption
<1>2. PICK M \in Nat : M = MaxCode
  BY DEF MaxCode
<1>3. PICK h \in Nat : h = m \div 2 /\ h > M /\ 2 * h <= m
  <2>1. m \div 2 \in Nat /\ 2 * (m \div 2) <= m
    OBVIOUS
  <2> QED
    BY <1>1, <1>2, <2>1, IntAssumption
<1>4. m > 0
  BY <1>3
<1>5. PICK r \in 0 .. m - 1 : r = n % m
  BY <1>4
<1>6. PICK k \in 0 .. m - 1 : k = (n + h) % m
  BY <1>4
<1>7. k = IF r + h < m THEN r + h ELSE r + h - m
  <2>1. PICK x \in Int : n = m * x + r
    <3>1. n = m * (n \div m) + (n % m) /\ n \div m \in Int
      BY <1>4
    <3> QED
      BY <1>5, <3>1
  <2>2. PICK y \in Int : n + h = m * y + k
    <3>1. n + h = m * ((n + h) \div m) + ((n + h) % m) /\ (n + h) \div m \in Int
      BY <1>4
    <3> QED
      BY <1>6, <3>1
  <2>3. PICK z \in Int : z = y - x
    OBVIOUS
  <2>4. m * z = m * y - m * x
    BY <2>3
  <2>5. m * z = r + h - k
    BY <2>1, <2>2, <2>4
  <2>6. z < 2
    <3>1. z >= 2 => m * z >= 2 * m
      BY <1>4
    <3> QED
      BY <1>3, <2>5, <3>1
  <2>7. z > -1
    <3>1. z <= -1 => m * z <= -m
      BY <1>4
    <3> QED
      BY <1>3, <2>5, <3>1
  <2>8. z = 0 \/ z = 1
    BY <2>6, <2>7
  <2>9. CASE z = 0
    BY <2>5, <2>9
  <2>10. CASE z = 1
    BY <2>5, <2>10
  <2> QED
    BY <2>8, <2>9, <2>10
<1>8. AsInt(n) = k - h
  BY <1>1, <1>3, <1>6 DEF AsInt
<1>9. /\ k - h \in Int /\ r \in Nat
      /\ k - h \in 0 .. M <=> r \in 0 .. M
      /\ k - h \in 0 .. M => k - h = r
  BY <1>3, <1>7
<1> QED
  BY <1>1, <1>2, <1>5, <1>8, <1>9

\* Whatever is printed is calls of the writer.
LEMMA PrintedFacts ==
  ASSUME NEW s \in Specs, NEW a \in Args
  PROVE  format_type(s, a) \in Printings
<1>1. /\ a.type \in ArgTypes /\ a.value \in Int /\ a.text \in Seq(Nat) /\ a.imag \in Seq(Nat)
      /\ a.type = "char8" => a.value \in Nat
  BY ArgFacts
<1>2. \A c \in Seq(Calls) : Printed(c) \in Printings
  BY DEF Printed, Printings
<1>3. AssertFails \in Printings
  BY AllOfFew DEF AssertFails, Printings
<1>4. BoolText(a.value) \in Seq(Nat)
  <2>1. <<116, 114, 117, 101>> \in Seq(Nat) /\ <<102, 97, 108, 115, 101>> \in Seq(Nat)
    OBVIOUS
  <2> QED
    BY <2>1 DEF BoolText
<1>5. CASE a.type \in {"text", "bool"}
  <2>1. format_string(s, a.text) \in Seq(Calls) /\ format_string(s, BoolText(a.value)) \in Seq(Calls)
    BY <1>1, <1>4, StringCalls
  <2> QED
    BY <1>2, <1>5, <2>1, TypeCalls
<1>6. CASE a.type = "null"
  BY <1>2, <1>6, AllOfFew, TypeCalls
<1>7. CASE a.type = "int"
  <2>1. format_char(s, AsInt(a.value)) \in Printings /\ format_numeric(s, a.value) \in Seq(Calls)
    BY <1>1, NarrowFacts, CharCalls, NumericCalls
  <2> QED
    BY <1>2, <1>7, <2>1, TypeCalls
<1>8. CASE a.type = "char8"
  <2>1. append_char(a.value, 1) \in Seq(Calls) /\ format_numeric(s, a.value) \in Seq(Calls)
    BY <1>1, <1>8, OneChar, NumericCalls
  <2> QED
    BY <1>2, <1>3, <1>8, <2>1, TypeCalls
<1>9. CASE a.type \in {"double", "complex"}
  BY <1>1, <1>9, DoubleCalls, ComplexCalls, TypeCalls
<1>10. CASE a.type = "ill_formed"
  BY <1>3, <1>10, TypeCalls DEF Throws, AssertFails
<1> QED
  BY <1>1, <1>5, <1>6, <1>7, <1>8, <1>9, <1>10 DEF ArgTypes

-----------------------------------------------------------------------------
(* The settings of a field. *)

\* The greatest of some numbers up to n.
LEMMA MaxFacts ==
  ASSUME NEW n \in Nat, NEW S \in SUBSET (0 .. n), S # {}
  PROVE  Max(S) \in S /\ \A y \in S : y <= Max(S)
<1> DEFINE T == {n - y : y \in S}
<1>1. T \in SUBSET Nat /\ T # {}
  <2>1. \A y \in S : n - y \in Nat
    OBVIOUS
  <2>2. PICK y \in S : TRUE
    OBVIOUS
  <2>3. n - y \in T
    OBVIOUS
  <2> QED
    BY <2>1, <2>3
<1>2. PICK m \in T : \A z \in T : m <= z
  <2> HIDE DEF T
  <2> QED
    BY <1>1, MinFacts
<1>3. PICK x \in S : m = n - x
  BY <1>2
<1>4. ASSUME NEW y \in S PROVE y <= x
  <2>1. n - y \in T
    OBVIOUS
  <2>2. m <= n - y /\ x \in 0 .. n /\ y \in 0 .. n
    BY <1>2, <2>1
  <2> QED
    BY <1>3, <2>2
<1> QED
  BY <1>4 DEF Max

\* The last group of some kinds is a group of them.
LEMMA LastIs ==
  ASSUME NEW s \in Seq(Pairs), NEW kinds, NEW default
  PROVE  \/ LastOf(s, kinds, default) = default
         \/ LastOf(s, kinds, default) \in Pairs /\ LastOf(s, kinds, default)[1] \in kinds
<1>1. PICK n \in Nat : n = Len(s)
  BY LenProperties
<1>2. DOMAIN s = 1 .. n
  BY <1>1, LenProperties
<1> DEFINE at == {i \in DOMAIN s : s[i][1] \in kinds}
<1>3. at \in SUBSET (0 .. n)
  BY <1>2
<1>4. LastOf(s, kinds, default) = IF at = {} THEN default ELSE s[Max(at)]
  BY DEF LastOf
<1>5. ASSUME at # {} PROVE Max(at) \in at
  <2> HIDE DEF at
  <2> QED
    BY <1>3, <1>5, MaxFacts
<1>6. ASSUME at # {} PROVE s[Max(at)] \in Pairs /\ s[Max(at)][1] \in kinds
  <2>1. Max(at) \in 1 .. n /\ s[Max(at)][1] \in kinds
    BY <1>2, <1>5, <1>6
  <2> HIDE DEF at
  <2> QED
    BY <1>1, <2>1, ElementOfSeq
<1> QED
  BY <1>4, <1>6

\* A group more is the last of its kind.
LEMMA LastAppend ==
  ASSUME NEW s \in Seq(Pairs), NEW g \in Pairs, NEW kinds, NEW default
  PROVE  LastOf(Append(s, g), kinds, default) = IF g[1] \in kinds THEN g ELSE LastOf(s, kinds, default)
<1>1. PICK n \in Nat : n = Len(s)
  BY LenProperties
<1>2. PICK t : t = Append(s, g)
  OBVIOUS
<1>3. DOMAIN s = 1 .. n /\ DOMAIN t = 1 .. n + 1 /\ t[n + 1] = g /\ \A i \in 1 .. n : t[i] = s[i]
  BY <1>1, <1>2, AppendProperties, LenProperties
<1>4. PICK at : at = {i \in DOMAIN s : s[i][1] \in kinds}
  OBVIOUS
<1>5. PICK up : up = {i \in DOMAIN t : t[i][1] \in kinds}
  OBVIOUS
<1>6. /\ LastOf(s, kinds, default) = IF at = {} THEN default ELSE s[Max(at)]
      /\ LastOf(t, kinds, default) = IF up = {} THEN default ELSE t[Max(up)]
  BY <1>4, <1>5 DEF LastOf
<1>7. CASE g[1] \in kinds
  <2>1. n + 1 \in up /\ up \in SUBSET (0 .. n + 1)
    BY <1>3, <1>5, <1>7
  <2>2. n + 1 \in Nat
    OBVIOUS
  <2>3. Max(up) \in up /\ \A y \in up : y <= Max(up)
    <3>1. up # {}
      BY <2>1
    <3> QED
      BY <2>1, <2>2, <3>1, MaxFacts
  <2>4. Max(up) = n + 1
    <3>1. Max(up) \in 0 .. n + 1 /\ n + 1 <= Max(up)
      BY <2>1, <2>3
    <3> QED
      BY <3>1
  <2> QED
    BY <1>2, <1>3, <1>6, <1>7, <2>1, <2>4
<1>8. CASE g[1] \notin kinds
  <2>1. ASSUME NEW i PROVE i \in up <=> i \in at
    <3>1. i \in 1 .. n + 1 /\ i # n + 1 <=> i \in 1 .. n
      OBVIOUS
    <3> QED
      BY <1>3, <1>4, <1>5, <1>8, <3>1
  <2>2. up = at
    BY <2>1
  <2>3. at # {} => Max(at) \in 1 .. n
    <3>1. at \in SUBSET (0 .. n) /\ at \subseteq 1 .. n
      BY <1>3, <1>4
    <3> QED
      BY <3>1, MaxFacts
  <2> QED
    BY <1>2, <1>3, <1>6, <1>8, <2>2, <2>3
<1> QED
  BY <1>7, <1>8

\* A format_spec with these fields.
Made(width, precision, arg, align, class, float, pad, plus, prefix, numeric) ==
  [minimum_length |-> width, precision |-> precision, arg_index |-> arg, alignment |-> align,
   digit_class |-> class, float_class |-> float, pad |-> pad, always_signed |-> plus,
   class_prefix |-> prefix, numeric_pad |-> numeric]

AlignOf(c) == CASE c = 60 -> "left" [] c = 62 -> "right" [] OTHER -> "default"
ClassOf(c) == CASE c = 120 -> "hex" [] c = 88 -> "hex_upper" [] c = 100 -> "dec" [] c = 111 -> "oct"
                [] c = 98 -> "bin" [] c = 99 -> "char" [] OTHER -> "default"
FloatOf(c) == CASE c = 102 -> "fixed" [] c = 101 -> "exp" [] c = 69 -> "exp_upper" [] OTHER -> "default"
PadOf(g)   == IF g[1] = Zero THEN Zero ELSE g[2]

\* What a field is set to by the last group of each kind.
Chosen(padding, width, precision, arg, align, class, float, plus, prefix) ==
  Made(width[2], precision[2], arg[2], AlignOf(align[1]), ClassOf(class[1]), FloatOf(float[1]),
       PadOf(padding), plus[1] = Plus, prefix[1] = 35, padding[1] = Zero)

\* What Settings is, by the last group of each kind.
LEMMA SettingsAre ==
  ASSUME NEW s
  PROVE  Settings(s) = Chosen(LastOf(s, {Under, Zero}, <<0, 0>>), LastOf(s, {49}, <<0, 0>>),
                              LastOf(s, {Dot}, <<0, -1>>), LastOf(s, {Amp}, <<0, -1>>),
                              LastOf(s, {60, 62}, <<0, 0>>),
                              LastOf(s, {120, 88, 100, 111, 98, 99}, <<0, 0>>),
                              LastOf(s, {102, 101, 69}, <<0, 0>>),
                              LastOf(s, {Plus}, <<0, 0>>), LastOf(s, {35}, <<0, 0>>))
BY DEF Settings, Chosen, Made, AlignOf, ClassOf, FloatOf, PadOf

\* They are the settings of a format_spec.
LEMMA SettingsType ==
  ASSUME NEW s \in Seq(Pairs)
  PROVE  /\ Settings(s) \in Specs
         /\ Settings(s).minimum_length \in Nat
         /\ Settings(s).precision \in Nat \cup {-1}
         /\ Settings(s).arg_index \in Nat \cup {-1}
<1>1. \A kinds : LastOf(s, kinds, <<0, 0>>) \in Pairs
  <2>1. <<0, 0>> \in Pairs
    BY DEF Pairs
  <2> QED
    BY <2>1, LastIs
<1>2. \A kinds : LastOf(s, kinds, <<0, -1>>) \in Pairs \cup {<<0, -1>>}
  BY LastIs
<1>3. \A p \in Pairs : p[2] \in Nat
  BY DEF Pairs
<1>4. \A p \in Pairs \cup {<<0, -1>>} : p[2] \in Nat \cup {-1}
  BY <1>3
<1>5. Zero \in Nat
  BY DEF Zero
<1>6. ASSUME NEW p \in Pairs, NEW w \in Pairs, NEW d \in Pairs \cup {<<0, -1>>},
             NEW i \in Pairs \cup {<<0, -1>>}, NEW a, NEW c, NEW f, NEW u, NEW x
      PROVE  /\ Chosen(p, w, d, i, a, c, f, u, x) \in Specs
             /\ Chosen(p, w, d, i, a, c, f, u, x).minimum_length \in Nat
             /\ Chosen(p, w, d, i, a, c, f, u, x).precision \in Nat \cup {-1}
             /\ Chosen(p, w, d, i, a, c, f, u, x).arg_index \in Nat \cup {-1}
  <2>1. w[2] \in Nat /\ d[2] \in Nat \cup {-1} /\ i[2] \in Nat \cup {-1} /\ p[2] \in Nat
    BY <1>3, <1>4
  <2>2. AlignOf(a[1]) \in {"default", "left", "right"}
    BY DEF AlignOf
  <2>3. ClassOf(c[1]) \in {"default", "hex", "hex_upper", "dec", "oct", "bin", "char"}
    BY DEF ClassOf
  <2>4. FloatOf(f[1]) \in {"default", "fixed", "exp", "exp_upper"}
    BY DEF FloatOf
  <2>5. PadOf(p) \in Nat
    BY <1>5, <2>1 DEF PadOf
  <2>6. /\ (u[1] = Plus) \in BOOLEAN /\ (x[1] = 35) \in BOOLEAN /\ (p[1] = Zero) \in BOOLEAN
    OBVIOUS
  <2> QED
    BY <2>1, <2>2, <2>3, <2>4, <2>5, <2>6 DEF Chosen, Made, Specs
<1>7. PICK p, w, d, i :
        p = LastOf(s, {Under, Zero}, <<0, 0>>) /\ w = LastOf(s, {49}, <<0, 0>>)
        /\ d = LastOf(s, {Dot}, <<0, -1>>) /\ i = LastOf(s, {Amp}, <<0, -1>>)
  OBVIOUS
<1>8. PICK a, c, f, u, x :
        a = LastOf(s, {60, 62}, <<0, 0>>) /\ c = LastOf(s, {120, 88, 100, 111, 98, 99}, <<0, 0>>)
        /\ f = LastOf(s, {102, 101, 69}, <<0, 0>>) /\ u = LastOf(s, {Plus}, <<0, 0>>)
        /\ x = LastOf(s, {35}, <<0, 0>>)
  OBVIOUS
<1>9. Settings(s) = Chosen(p, w, d, i, a, c, f, u, x)
  BY <1>7, <1>8, SettingsAre, ZenonT(60)
<1>10. p \in Pairs /\ w \in Pairs /\ d \in Pairs \cup {<<0, -1>>} /\ i \in Pairs \cup {<<0, -1>>}
  BY <1>1, <1>2, <1>7
<1> QED
  BY ONLY <1>6, <1>9, <1>10

\* A group more changes the choice of its kind.
LEMMA SettingsAppend ==
  ASSUME NEW s \in Seq(Pairs), NEW g \in Pairs
  PROVE  \E p, w, d, i, a, c, f, u, x :
           /\ Settings(s) = Chosen(p, w, d, i, a, c, f, u, x)
           /\ Settings(Append(s, g)) =
                Chosen(IF g[1] \in {Under, Zero} THEN g ELSE p, IF g[1] \in {49} THEN g ELSE w,
                       IF g[1] \in {Dot} THEN g ELSE d, IF g[1] \in {Amp} THEN g ELSE i,
                       IF g[1] \in {60, 62} THEN g ELSE a,
                       IF g[1] \in {120, 88, 100, 111, 98, 99} THEN g ELSE c,
                       IF g[1] \in {102, 101, 69} THEN g ELSE f,
                       IF g[1] \in {Plus} THEN g ELSE u, IF g[1] \in {35} THEN g ELSE x)
<1>1. PICK t : t = Append(s, g)
  OBVIOUS
<1>2. \A kinds, default : LastOf(t, kinds, default) = IF g[1] \in kinds THEN g ELSE LastOf(s, kinds, default)
  BY <1>1, LastAppend
<1>3. Settings(t) =
        Chosen(IF g[1] \in {Under, Zero} THEN g ELSE LastOf(s, {Under, Zero}, <<0, 0>>),
               IF g[1] \in {49} THEN g ELSE LastOf(s, {49}, <<0, 0>>),
               IF g[1] \in {Dot} THEN g ELSE LastOf(s, {Dot}, <<0, -1>>),
               IF g[1] \in {Amp} THEN g ELSE LastOf(s, {Amp}, <<0, -1>>),
               IF g[1] \in {60, 62} THEN g ELSE LastOf(s, {60, 62}, <<0, 0>>),
               IF g[1] \in {120, 88, 100, 111, 98, 99} THEN g
               ELSE LastOf(s, {120, 88, 100, 111, 98, 99}, <<0, 0>>),
               IF g[1] \in {102, 101, 69} THEN g ELSE LastOf(s, {102, 101, 69}, <<0, 0>>),
               IF g[1] \in {Plus} THEN g ELSE LastOf(s, {Plus}, <<0, 0>>),
               IF g[1] \in {35} THEN g ELSE LastOf(s, {35}, <<0, 0>>))
  <2>1. Settings(t) = Chosen(LastOf(t, {Under, Zero}, <<0, 0>>), LastOf(t, {49}, <<0, 0>>),
                              LastOf(t, {Dot}, <<0, -1>>), LastOf(t, {Amp}, <<0, -1>>),
                              LastOf(t, {60, 62}, <<0, 0>>),
                              LastOf(t, {120, 88, 100, 111, 98, 99}, <<0, 0>>),
                              LastOf(t, {102, 101, 69}, <<0, 0>>),
                              LastOf(t, {Plus}, <<0, 0>>), LastOf(t, {35}, <<0, 0>>))
    BY SettingsAre
  <2>2. /\ LastOf(t, {Under, Zero}, <<0, 0>>) =
             IF g[1] \in {Under, Zero} THEN g ELSE LastOf(s, {Under, Zero}, <<0, 0>>)
        /\ LastOf(t, {49}, <<0, 0>>) = IF g[1] \in {49} THEN g ELSE LastOf(s, {49}, <<0, 0>>)
        /\ LastOf(t, {Dot}, <<0, -1>>) = IF g[1] \in {Dot} THEN g ELSE LastOf(s, {Dot}, <<0, -1>>)
        /\ LastOf(t, {Amp}, <<0, -1>>) = IF g[1] \in {Amp} THEN g ELSE LastOf(s, {Amp}, <<0, -1>>)
        /\ LastOf(t, {60, 62}, <<0, 0>>) = IF g[1] \in {60, 62} THEN g ELSE LastOf(s, {60, 62}, <<0, 0>>)
        /\ LastOf(t, {120, 88, 100, 111, 98, 99}, <<0, 0>>) =
             IF g[1] \in {120, 88, 100, 111, 98, 99} THEN g
             ELSE LastOf(s, {120, 88, 100, 111, 98, 99}, <<0, 0>>)
        /\ LastOf(t, {102, 101, 69}, <<0, 0>>) =
             IF g[1] \in {102, 101, 69} THEN g ELSE LastOf(s, {102, 101, 69}, <<0, 0>>)
        /\ LastOf(t, {Plus}, <<0, 0>>) = IF g[1] \in {Plus} THEN g ELSE LastOf(s, {Plus}, <<0, 0>>)
        /\ LastOf(t, {35}, <<0, 0>>) = IF g[1] \in {35} THEN g ELSE LastOf(s, {35}, <<0, 0>>)
    BY ONLY <1>2
  <2> QED
    BY ONLY <2>1, <2>2
<1>4. Settings(s) = Chosen(LastOf(s, {Under, Zero}, <<0, 0>>), LastOf(s, {49}, <<0, 0>>),
                              LastOf(s, {Dot}, <<0, -1>>), LastOf(s, {Amp}, <<0, -1>>),
                              LastOf(s, {60, 62}, <<0, 0>>),
                              LastOf(s, {120, 88, 100, 111, 98, 99}, <<0, 0>>),
                              LastOf(s, {102, 101, 69}, <<0, 0>>),
                              LastOf(s, {Plus}, <<0, 0>>), LastOf(s, {35}, <<0, 0>>))
  BY SettingsAre
<1>5. PICK p, w, d, i :
        p = LastOf(s, {Under, Zero}, <<0, 0>>) /\ w = LastOf(s, {49}, <<0, 0>>)
        /\ d = LastOf(s, {Dot}, <<0, -1>>) /\ i = LastOf(s, {Amp}, <<0, -1>>)
  OBVIOUS
<1>6. PICK a, c, f, u, x :
        a = LastOf(s, {60, 62}, <<0, 0>>) /\ c = LastOf(s, {120, 88, 100, 111, 98, 99}, <<0, 0>>)
        /\ f = LastOf(s, {102, 101, 69}, <<0, 0>>) /\ u = LastOf(s, {Plus}, <<0, 0>>)
        /\ x = LastOf(s, {35}, <<0, 0>>)
  OBVIOUS
<1>7. /\ Settings(s) = Chosen(p, w, d, i, a, c, f, u, x)
      /\ Settings(Append(s, g)) =
                Chosen(IF g[1] \in {Under, Zero} THEN g ELSE p, IF g[1] \in {49} THEN g ELSE w,
                       IF g[1] \in {Dot} THEN g ELSE d, IF g[1] \in {Amp} THEN g ELSE i,
                       IF g[1] \in {60, 62} THEN g ELSE a,
                       IF g[1] \in {120, 88, 100, 111, 98, 99} THEN g ELSE c,
                       IF g[1] \in {102, 101, 69} THEN g ELSE f,
                       IF g[1] \in {Plus} THEN g ELSE u, IF g[1] \in {35} THEN g ELSE x)
  BY ONLY <1>1, <1>3, <1>4, <1>5, <1>6
<1> QED
  BY ONLY <1>7

\* What choosing a group more comes to.
Chooses(p, w, d, i, a, c, f, u, x, g) ==
  /\ g[1] = Under => [Chosen(p, w, d, i, a, c, f, u, x) EXCEPT !.pad = g[2], !.numeric_pad = FALSE] =
                       Chosen(g, w, d, i, a, c, f, u, x)
  /\ g[1] = 49 => [Chosen(p, w, d, i, a, c, f, u, x) EXCEPT !.minimum_length = g[2]] =
                  Chosen(p, g, d, i, a, c, f, u, x)
  /\ g[1] = Dot => [Chosen(p, w, d, i, a, c, f, u, x) EXCEPT !.precision = g[2]] =
                   Chosen(p, w, g, i, a, c, f, u, x)
  /\ g[1] = Amp => [Chosen(p, w, d, i, a, c, f, u, x) EXCEPT !.arg_index = g[2]] =
                   Chosen(p, w, d, g, a, c, f, u, x)

\* A group changes the choice as it changes the settings.
LEMMA GroupChoice ==
  ASSUME NEW p, NEW w, NEW d, NEW i, NEW a, NEW c, NEW f, NEW u, NEW x, NEW g
  PROVE  Chooses(p, w, d, i, a, c, f, u, x, g)
<1>1. PICK m1, m2, m3, m4, m5, m6, m7, m8, m9, m10 :
         m1 = w[2] /\ m2 = d[2] /\ m3 = i[2] /\ m4 = AlignOf(a[1]) /\ m5 = ClassOf(c[1])
         /\ m6 = FloatOf(f[1]) /\ m7 = PadOf(p) /\ m8 = (u[1] = Plus) /\ m9 = (x[1] = 35) /\ m10 = (p[1] = Zero)
  OBVIOUS
<1>2. PICK s : s = Made(m1, m2, m3, m4, m5, m6, m7, m8, m9, m10)
  OBVIOUS
<1>3. s = Made(m1, m2, m3, m4, m5, m6, m7, m8, m9, m10) /\ s = Chosen(p, w, d, i, a, c, f, u, x)
  BY <1>1, <1>2, Zenon DEF Chosen
<1>4. CASE g[1] = Under
  <2>1. PICK y : y = g[2]
    OBVIOUS
  <2>2. PICK z : z = FALSE
    OBVIOUS
  <2>3. PadOf(g) = y /\ (g[1] = Zero) = z
    <3>1. g[1] # Zero
      BY <1>4 DEF Under, Zero
    <3>2. PadOf(g) = y
      BY <2>1, <3>1 DEF PadOf
    <3> QED
      BY <2>2, <3>1, <3>2, Zenon
  <2>4. Chosen(g, w, d, i, a, c, f, u, x) = Made(m1, m2, m3, m4, m5, m6, y, m8, m9, z)
    BY <1>1, <2>3, Zenon DEF Chosen
  <2>5. PICK t : t = [s EXCEPT !.pad = y]
    OBVIOUS
  <2>6. [s EXCEPT !.pad = y, !.numeric_pad = z] = [t EXCEPT !.numeric_pad = z]
    BY ONLY <2>5
  <2>7. t = Made(m1, m2, m3, m4, m5, m6, y, m8, m9, m10)
    BY ONLY <1>2, <2>5 DEF Made
  <2>8. [t EXCEPT !.numeric_pad = z] = Made(m1, m2, m3, m4, m5, m6, y, m8, m9, z)
    BY ONLY <2>7 DEF Made
  <2>9. Chosen(g, w, d, i, a, c, f, u, x) = [s EXCEPT !.pad = y, !.numeric_pad = z]
    BY ONLY <2>4, <2>6, <2>8
  <2>10. Chosen(g, w, d, i, a, c, f, u, x) = [s EXCEPT !.pad = g[2], !.numeric_pad = FALSE]
    BY ONLY <2>1, <2>2, <2>9, Zenon
  <2> QED
    BY ONLY <1>3, <1>4, <2>10 DEF Chooses, Under, Dot, Amp
<1>5. CASE g[1] = 49
  <2>1. PICK y : y = g[2]
    OBVIOUS
  <2>3. Chosen(p, g, d, i, a, c, f, u, x) = Made(y, m2, m3, m4, m5, m6, m7, m8, m9, m10)
    BY <1>1, <2>1, Zenon DEF Chosen
  <2>4. [s EXCEPT !.minimum_length = y] = Made(y, m2, m3, m4, m5, m6, m7, m8, m9, m10)
    BY ONLY <1>2 DEF Made
  <2>5. Chosen(p, g, d, i, a, c, f, u, x) = [s EXCEPT !.minimum_length = g[2]]
    BY ONLY <2>1, <2>3, <2>4, Zenon
  <2> QED
    BY ONLY <1>3, <1>5, <2>5 DEF Chooses, Under, Dot, Amp
<1>6. CASE g[1] = Dot
  <2>1. PICK y : y = g[2]
    OBVIOUS
  <2>3. Chosen(p, w, g, i, a, c, f, u, x) = Made(m1, y, m3, m4, m5, m6, m7, m8, m9, m10)
    BY <1>1, <2>1, Zenon DEF Chosen
  <2>4. [s EXCEPT !.precision = y] = Made(m1, y, m3, m4, m5, m6, m7, m8, m9, m10)
    BY ONLY <1>2 DEF Made
  <2>5. Chosen(p, w, g, i, a, c, f, u, x) = [s EXCEPT !.precision = g[2]]
    BY ONLY <2>1, <2>3, <2>4, Zenon
  <2> QED
    BY ONLY <1>3, <1>6, <2>5 DEF Chooses, Under, Dot, Amp
<1>7. CASE g[1] = Amp
  <2>1. PICK y : y = g[2]
    OBVIOUS
  <2>3. Chosen(p, w, d, g, a, c, f, u, x) = Made(m1, m2, y, m4, m5, m6, m7, m8, m9, m10)
    BY <1>1, <2>1, Zenon DEF Chosen
  <2>4. [s EXCEPT !.arg_index = y] = Made(m1, m2, y, m4, m5, m6, m7, m8, m9, m10)
    BY ONLY <1>2 DEF Made
  <2>5. Chosen(p, w, d, g, a, c, f, u, x) = [s EXCEPT !.arg_index = g[2]]
    BY ONLY <2>1, <2>3, <2>4, Zenon
  <2> QED
    BY ONLY <1>3, <1>7, <2>5 DEF Chooses, Under, Dot, Amp
<1> QED
  BY <1>4, <1>5, <1>6, <1>7 DEF Chooses

\* So does a flag.
LEMMA FlagChoice ==
  ASSUME NEW p, NEW w, NEW d, NEW i, NEW a, NEW c, NEW f, NEW u, NEW x, NEW g, g[1] \in Flags
  PROVE  WithFlag(Chosen(p, w, d, i, a, c, f, u, x), g[1]) =
           Chosen(IF g[1] \in {Under, Zero} THEN g ELSE p, IF g[1] \in {49} THEN g ELSE w,
                  IF g[1] \in {Dot} THEN g ELSE d, IF g[1] \in {Amp} THEN g ELSE i,
                  IF g[1] \in {60, 62} THEN g ELSE a,
                  IF g[1] \in {120, 88, 100, 111, 98, 99} THEN g ELSE c,
                  IF g[1] \in {102, 101, 69} THEN g ELSE f,
                  IF g[1] \in {Plus} THEN g ELSE u, IF g[1] \in {35} THEN g ELSE x)
<1>1. PICK m1, m2, m3, m4, m5, m6, m7, m8, m9, m10 :
         m1 = w[2] /\ m2 = d[2] /\ m3 = i[2] /\ m4 = AlignOf(a[1]) /\ m5 = ClassOf(c[1])
         /\ m6 = FloatOf(f[1]) /\ m7 = PadOf(p) /\ m8 = (u[1] = Plus) /\ m9 = (x[1] = 35) /\ m10 = (p[1] = Zero)
  OBVIOUS
<1>2. PICK s : s = Made(m1, m2, m3, m4, m5, m6, m7, m8, m9, m10)
  OBVIOUS
<1>3. s = Made(m1, m2, m3, m4, m5, m6, m7, m8, m9, m10) /\ s = Chosen(p, w, d, i, a, c, f, u, x)
  BY <1>1, <1>2, Zenon DEF Chosen
<1>4. CASE g[1] = 60
  <2>1. PICK y : y = "left"
    OBVIOUS
  <2>2. AlignOf(g[1]) = y
    BY <1>4, <2>1 DEF AlignOf, ClassOf, FloatOf, Zero, Plus
  <2>3. Chosen(p, w, d, i, g, c, f, u, x) = Made(m1, m2, m3, y, m5, m6, m7, m8, m9, m10)
    BY <1>1, <2>2, Zenon DEF Chosen
  <2>4. [s EXCEPT !.alignment = y] = Made(m1, m2, m3, y, m5, m6, m7, m8, m9, m10)
    BY ONLY <1>2 DEF Made
  <2>5. Chosen(p, w, d, i, g, c, f, u, x) = [s EXCEPT !.alignment = "left"]
    BY ONLY <2>1, <2>3, <2>4, Zenon
  <2>6. WithFlag(s, g[1]) = [s EXCEPT !.alignment = "left"]
    BY <1>4 DEF WithFlag
  <2>7. Chosen(IF g[1] \in {Under, Zero} THEN g ELSE p, IF g[1] \in {49} THEN g ELSE w,
               IF g[1] \in {Dot} THEN g ELSE d, IF g[1] \in {Amp} THEN g ELSE i,
               IF g[1] \in {60, 62} THEN g ELSE a,
               IF g[1] \in {120, 88, 100, 111, 98, 99} THEN g ELSE c,
               IF g[1] \in {102, 101, 69} THEN g ELSE f,
               IF g[1] \in {Plus} THEN g ELSE u, IF g[1] \in {35} THEN g ELSE x)
          = Chosen(p, w, d, i, g, c, f, u, x)
    BY <1>4 DEF Under, Zero, Dot, Amp, Plus
  <2> QED
    BY ONLY <1>3, <2>5, <2>6, <2>7
<1>5. CASE g[1] = 62
  <2>1. PICK y : y = "right"
    OBVIOUS
  <2>2. AlignOf(g[1]) = y
    BY <1>5, <2>1 DEF AlignOf, ClassOf, FloatOf, Zero, Plus
  <2>3. Chosen(p, w, d, i, g, c, f, u, x) = Made(m1, m2, m3, y, m5, m6, m7, m8, m9, m10)
    BY <1>1, <2>2, Zenon DEF Chosen
  <2>4. [s EXCEPT !.alignment = y] = Made(m1, m2, m3, y, m5, m6, m7, m8, m9, m10)
    BY ONLY <1>2 DEF Made
  <2>5. Chosen(p, w, d, i, g, c, f, u, x) = [s EXCEPT !.alignment = "right"]
    BY ONLY <2>1, <2>3, <2>4, Zenon
  <2>6. WithFlag(s, g[1]) = [s EXCEPT !.alignment = "right"]
    BY <1>5 DEF WithFlag
  <2>7. Chosen(IF g[1] \in {Under, Zero} THEN g ELSE p, IF g[1] \in {49} THEN g ELSE w,
               IF g[1] \in {Dot} THEN g ELSE d, IF g[1] \in {Amp} THEN g ELSE i,
               IF g[1] \in {60, 62} THEN g ELSE a,
               IF g[1] \in {120, 88, 100, 111, 98, 99} THEN g ELSE c,
               IF g[1] \in {102, 101, 69} THEN g ELSE f,
               IF g[1] \in {Plus} THEN g ELSE u, IF g[1] \in {35} THEN g ELSE x)
          = Chosen(p, w, d, i, g, c, f, u, x)
    BY <1>5 DEF Under, Zero, Dot, Amp, Plus
  <2> QED
    BY ONLY <1>3, <2>5, <2>6, <2>7
<1>6. CASE g[1] = 48
  <2>1. PICK y : y = Zero
    OBVIOUS
  <2>2. PICK z : z = TRUE
    OBVIOUS
  <2>3. PadOf(g) = y /\ (g[1] = Zero) = z
    BY <1>6, <2>1, <2>2 DEF PadOf, Under, Zero
  <2>4. Chosen(g, w, d, i, a, c, f, u, x) = Made(m1, m2, m3, m4, m5, m6, y, m8, m9, z)
    BY <1>1, <2>3, Zenon DEF Chosen
  <2>5. PICK t : t = [s EXCEPT !.pad = y]
    OBVIOUS
  <2>6. [s EXCEPT !.pad = y, !.numeric_pad = z] = [t EXCEPT !.numeric_pad = z]
    BY ONLY <2>5
  <2>7. t = Made(m1, m2, m3, m4, m5, m6, y, m8, m9, m10)
    BY ONLY <1>2, <2>5 DEF Made
  <2>8. [t EXCEPT !.numeric_pad = z] = Made(m1, m2, m3, m4, m5, m6, y, m8, m9, z)
    BY ONLY <2>7 DEF Made
  <2>9. Chosen(g, w, d, i, a, c, f, u, x) = [s EXCEPT !.pad = y, !.numeric_pad = z]
    BY ONLY <2>4, <2>6, <2>8
  <2>10. Chosen(g, w, d, i, a, c, f, u, x) = [s EXCEPT !.pad = Zero, !.numeric_pad = TRUE]
    BY ONLY <2>1, <2>2, <2>9, Zenon
  <2>11. WithFlag(s, g[1]) = [s EXCEPT !.pad = Zero, !.numeric_pad = TRUE]
    BY <1>6 DEF WithFlag
  <2>12. Chosen(IF g[1] \in {Under, Zero} THEN g ELSE p, IF g[1] \in {49} THEN g ELSE w,
               IF g[1] \in {Dot} THEN g ELSE d, IF g[1] \in {Amp} THEN g ELSE i,
               IF g[1] \in {60, 62} THEN g ELSE a,
               IF g[1] \in {120, 88, 100, 111, 98, 99} THEN g ELSE c,
               IF g[1] \in {102, 101, 69} THEN g ELSE f,
               IF g[1] \in {Plus} THEN g ELSE u, IF g[1] \in {35} THEN g ELSE x)
          = Chosen(g, w, d, i, a, c, f, u, x)
    BY <1>6 DEF Under, Zero, Dot, Amp, Plus
  <2> QED
    BY ONLY <1>3, <2>10, <2>11, <2>12
<1>7. CASE g[1] = 35
  <2>1. PICK y : y = TRUE
    OBVIOUS
  <2>2. (g[1] = 35) = y
    BY <1>7, <2>1 DEF AlignOf, ClassOf, FloatOf, Zero, Plus
  <2>3. Chosen(p, w, d, i, a, c, f, u, g) = Made(m1, m2, m3, m4, m5, m6, m7, m8, y, m10)
    BY <1>1, <2>2, Zenon DEF Chosen
  <2>4. [s EXCEPT !.class_prefix = y] = Made(m1, m2, m3, m4, m5, m6, m7, m8, y, m10)
    BY ONLY <1>2 DEF Made
  <2>5. Chosen(p, w, d, i, a, c, f, u, g) = [s EXCEPT !.class_prefix = TRUE]
    BY ONLY <2>1, <2>3, <2>4, Zenon
  <2>6. WithFlag(s, g[1]) = [s EXCEPT !.class_prefix = TRUE]
    BY <1>7 DEF WithFlag
  <2>7. Chosen(IF g[1] \in {Under, Zero} THEN g ELSE p, IF g[1] \in {49} THEN g ELSE w,
               IF g[1] \in {Dot} THEN g ELSE d, IF g[1] \in {Amp} THEN g ELSE i,
               IF g[1] \in {60, 62} THEN g ELSE a,
               IF g[1] \in {120, 88, 100, 111, 98, 99} THEN g ELSE c,
               IF g[1] \in {102, 101, 69} THEN g ELSE f,
               IF g[1] \in {Plus} THEN g ELSE u, IF g[1] \in {35} THEN g ELSE x)
          = Chosen(p, w, d, i, a, c, f, u, g)
    BY <1>7 DEF Under, Zero, Dot, Amp, Plus
  <2> QED
    BY ONLY <1>3, <2>5, <2>6, <2>7
<1>8. CASE g[1] = 120
  <2>1. PICK y : y = "hex"
    OBVIOUS
  <2>2. ClassOf(g[1]) = y
    BY <1>8, <2>1 DEF AlignOf, ClassOf, FloatOf, Zero, Plus
  <2>3. Chosen(p, w, d, i, a, g, f, u, x) = Made(m1, m2, m3, m4, y, m6, m7, m8, m9, m10)
    BY <1>1, <2>2, Zenon DEF Chosen
  <2>4. [s EXCEPT !.digit_class = y] = Made(m1, m2, m3, m4, y, m6, m7, m8, m9, m10)
    BY ONLY <1>2 DEF Made
  <2>5. Chosen(p, w, d, i, a, g, f, u, x) = [s EXCEPT !.digit_class = "hex"]
    BY ONLY <2>1, <2>3, <2>4, Zenon
  <2>6. WithFlag(s, g[1]) = [s EXCEPT !.digit_class = "hex"]
    BY <1>8 DEF WithFlag
  <2>7. Chosen(IF g[1] \in {Under, Zero} THEN g ELSE p, IF g[1] \in {49} THEN g ELSE w,
               IF g[1] \in {Dot} THEN g ELSE d, IF g[1] \in {Amp} THEN g ELSE i,
               IF g[1] \in {60, 62} THEN g ELSE a,
               IF g[1] \in {120, 88, 100, 111, 98, 99} THEN g ELSE c,
               IF g[1] \in {102, 101, 69} THEN g ELSE f,
               IF g[1] \in {Plus} THEN g ELSE u, IF g[1] \in {35} THEN g ELSE x)
          = Chosen(p, w, d, i, a, g, f, u, x)
    BY <1>8 DEF Under, Zero, Dot, Amp, Plus
  <2> QED
    BY ONLY <1>3, <2>5, <2>6, <2>7
<1>9. CASE g[1] = 88
  <2>1. PICK y : y = "hex_upper"
    OBVIOUS
  <2>2. ClassOf(g[1]) = y
    BY <1>9, <2>1 DEF AlignOf, ClassOf, FloatOf, Zero, Plus
  <2>3. Chosen(p, w, d, i, a, g, f, u, x) = Made(m1, m2, m3, m4, y, m6, m7, m8, m9, m10)
    BY <1>1, <2>2, Zenon DEF Chosen
  <2>4. [s EXCEPT !.digit_class = y] = Made(m1, m2, m3, m4, y, m6, m7, m8, m9, m10)
    BY ONLY <1>2 DEF Made
  <2>5. Chosen(p, w, d, i, a, g, f, u, x) = [s EXCEPT !.digit_class = "hex_upper"]
    BY ONLY <2>1, <2>3, <2>4, Zenon
  <2>6. WithFlag(s, g[1]) = [s EXCEPT !.digit_class = "hex_upper"]
    BY <1>9 DEF WithFlag
  <2>7. Chosen(IF g[1] \in {Under, Zero} THEN g ELSE p, IF g[1] \in {49} THEN g ELSE w,
               IF g[1] \in {Dot} THEN g ELSE d, IF g[1] \in {Amp} THEN g ELSE i,
               IF g[1] \in {60, 62} THEN g ELSE a,
               IF g[1] \in {120, 88, 100, 111, 98, 99} THEN g ELSE c,
               IF g[1] \in {102, 101, 69} THEN g ELSE f,
               IF g[1] \in {Plus} THEN g ELSE u, IF g[1] \in {35} THEN g ELSE x)
          = Chosen(p, w, d, i, a, g, f, u, x)
    BY <1>9 DEF Under, Zero, Dot, Amp, Plus
  <2> QED
    BY ONLY <1>3, <2>5, <2>6, <2>7
<1>10. CASE g[1] = 43
  <2>1. PICK y : y = TRUE
    OBVIOUS
  <2>2. (g[1] = Plus) = y
    BY <1>10, <2>1 DEF AlignOf, ClassOf, FloatOf, Zero, Plus
  <2>3. Chosen(p, w, d, i, a, c, f, g, x) = Made(m1, m2, m3, m4, m5, m6, m7, y, m9, m10)
    BY <1>1, <2>2, Zenon DEF Chosen
  <2>4. [s EXCEPT !.always_signed = y] = Made(m1, m2, m3, m4, m5, m6, m7, y, m9, m10)
    BY ONLY <1>2 DEF Made
  <2>5. Chosen(p, w, d, i, a, c, f, g, x) = [s EXCEPT !.always_signed = TRUE]
    BY ONLY <2>1, <2>3, <2>4, Zenon
  <2>6. WithFlag(s, g[1]) = [s EXCEPT !.always_signed = TRUE]
    BY <1>10 DEF WithFlag
  <2>7. Chosen(IF g[1] \in {Under, Zero} THEN g ELSE p, IF g[1] \in {49} THEN g ELSE w,
               IF g[1] \in {Dot} THEN g ELSE d, IF g[1] \in {Amp} THEN g ELSE i,
               IF g[1] \in {60, 62} THEN g ELSE a,
               IF g[1] \in {120, 88, 100, 111, 98, 99} THEN g ELSE c,
               IF g[1] \in {102, 101, 69} THEN g ELSE f,
               IF g[1] \in {Plus} THEN g ELSE u, IF g[1] \in {35} THEN g ELSE x)
          = Chosen(p, w, d, i, a, c, f, g, x)
    BY <1>10 DEF Under, Zero, Dot, Amp, Plus
  <2> QED
    BY ONLY <1>3, <2>5, <2>6, <2>7
<1>11. CASE g[1] = 100
  <2>1. PICK y : y = "dec"
    OBVIOUS
  <2>2. ClassOf(g[1]) = y
    BY <1>11, <2>1 DEF AlignOf, ClassOf, FloatOf, Zero, Plus
  <2>3. Chosen(p, w, d, i, a, g, f, u, x) = Made(m1, m2, m3, m4, y, m6, m7, m8, m9, m10)
    BY <1>1, <2>2, Zenon DEF Chosen
  <2>4. [s EXCEPT !.digit_class = y] = Made(m1, m2, m3, m4, y, m6, m7, m8, m9, m10)
    BY ONLY <1>2 DEF Made
  <2>5. Chosen(p, w, d, i, a, g, f, u, x) = [s EXCEPT !.digit_class = "dec"]
    BY ONLY <2>1, <2>3, <2>4, Zenon
  <2>6. WithFlag(s, g[1]) = [s EXCEPT !.digit_class = "dec"]
    BY <1>11 DEF WithFlag
  <2>7. Chosen(IF g[1] \in {Under, Zero} THEN g ELSE p, IF g[1] \in {49} THEN g ELSE w,
               IF g[1] \in {Dot} THEN g ELSE d, IF g[1] \in {Amp} THEN g ELSE i,
               IF g[1] \in {60, 62} THEN g ELSE a,
               IF g[1] \in {120, 88, 100, 111, 98, 99} THEN g ELSE c,
               IF g[1] \in {102, 101, 69} THEN g ELSE f,
               IF g[1] \in {Plus} THEN g ELSE u, IF g[1] \in {35} THEN g ELSE x)
          = Chosen(p, w, d, i, a, g, f, u, x)
    BY <1>11 DEF Under, Zero, Dot, Amp, Plus
  <2> QED
    BY ONLY <1>3, <2>5, <2>6, <2>7
<1>12. CASE g[1] = 111
  <2>1. PICK y : y = "oct"
    OBVIOUS
  <2>2. ClassOf(g[1]) = y
    BY <1>12, <2>1 DEF AlignOf, ClassOf, FloatOf, Zero, Plus
  <2>3. Chosen(p, w, d, i, a, g, f, u, x) = Made(m1, m2, m3, m4, y, m6, m7, m8, m9, m10)
    BY <1>1, <2>2, Zenon DEF Chosen
  <2>4. [s EXCEPT !.digit_class = y] = Made(m1, m2, m3, m4, y, m6, m7, m8, m9, m10)
    BY ONLY <1>2 DEF Made
  <2>5. Chosen(p, w, d, i, a, g, f, u, x) = [s EXCEPT !.digit_class = "oct"]
    BY ONLY <2>1, <2>3, <2>4, Zenon
  <2>6. WithFlag(s, g[1]) = [s EXCEPT !.digit_class = "oct"]
    BY <1>12 DEF WithFlag
  <2>7. Chosen(IF g[1] \in {Under, Zero} THEN g ELSE p, IF g[1] \in {49} THEN g ELSE w,
               IF g[1] \in {Dot} THEN g ELSE d, IF g[1] \in {Amp} THEN g ELSE i,
               IF g[1] \in {60, 62} THEN g ELSE a,
               IF g[1] \in {120, 88, 100, 111, 98, 99} THEN g ELSE c,
               IF g[1] \in {102, 101, 69} THEN g ELSE f,
               IF g[1] \in {Plus} THEN g ELSE u, IF g[1] \in {35} THEN g ELSE x)
          = Chosen(p, w, d, i, a, g, f, u, x)
    BY <1>12 DEF Under, Zero, Dot, Amp, Plus
  <2> QED
    BY ONLY <1>3, <2>5, <2>6, <2>7
<1>13. CASE g[1] = 98
  <2>1. PICK y : y = "bin"
    OBVIOUS
  <2>2. ClassOf(g[1]) = y
    BY <1>13, <2>1 DEF AlignOf, ClassOf, FloatOf, Zero, Plus
  <2>3. Chosen(p, w, d, i, a, g, f, u, x) = Made(m1, m2, m3, m4, y, m6, m7, m8, m9, m10)
    BY <1>1, <2>2, Zenon DEF Chosen
  <2>4. [s EXCEPT !.digit_class = y] = Made(m1, m2, m3, m4, y, m6, m7, m8, m9, m10)
    BY ONLY <1>2 DEF Made
  <2>5. Chosen(p, w, d, i, a, g, f, u, x) = [s EXCEPT !.digit_class = "bin"]
    BY ONLY <2>1, <2>3, <2>4, Zenon
  <2>6. WithFlag(s, g[1]) = [s EXCEPT !.digit_class = "bin"]
    BY <1>13 DEF WithFlag
  <2>7. Chosen(IF g[1] \in {Under, Zero} THEN g ELSE p, IF g[1] \in {49} THEN g ELSE w,
               IF g[1] \in {Dot} THEN g ELSE d, IF g[1] \in {Amp} THEN g ELSE i,
               IF g[1] \in {60, 62} THEN g ELSE a,
               IF g[1] \in {120, 88, 100, 111, 98, 99} THEN g ELSE c,
               IF g[1] \in {102, 101, 69} THEN g ELSE f,
               IF g[1] \in {Plus} THEN g ELSE u, IF g[1] \in {35} THEN g ELSE x)
          = Chosen(p, w, d, i, a, g, f, u, x)
    BY <1>13 DEF Under, Zero, Dot, Amp, Plus
  <2> QED
    BY ONLY <1>3, <2>5, <2>6, <2>7
<1>14. CASE g[1] = 99
  <2>1. PICK y : y = "char"
    OBVIOUS
  <2>2. ClassOf(g[1]) = y
    BY <1>14, <2>1 DEF AlignOf, ClassOf, FloatOf, Zero, Plus
  <2>3. Chosen(p, w, d, i, a, g, f, u, x) = Made(m1, m2, m3, m4, y, m6, m7, m8, m9, m10)
    BY <1>1, <2>2, Zenon DEF Chosen
  <2>4. [s EXCEPT !.digit_class = y] = Made(m1, m2, m3, m4, y, m6, m7, m8, m9, m10)
    BY ONLY <1>2 DEF Made
  <2>5. Chosen(p, w, d, i, a, g, f, u, x) = [s EXCEPT !.digit_class = "char"]
    BY ONLY <2>1, <2>3, <2>4, Zenon
  <2>6. WithFlag(s, g[1]) = [s EXCEPT !.digit_class = "char"]
    BY <1>14 DEF WithFlag
  <2>7. Chosen(IF g[1] \in {Under, Zero} THEN g ELSE p, IF g[1] \in {49} THEN g ELSE w,
               IF g[1] \in {Dot} THEN g ELSE d, IF g[1] \in {Amp} THEN g ELSE i,
               IF g[1] \in {60, 62} THEN g ELSE a,
               IF g[1] \in {120, 88, 100, 111, 98, 99} THEN g ELSE c,
               IF g[1] \in {102, 101, 69} THEN g ELSE f,
               IF g[1] \in {Plus} THEN g ELSE u, IF g[1] \in {35} THEN g ELSE x)
          = Chosen(p, w, d, i, a, g, f, u, x)
    BY <1>14 DEF Under, Zero, Dot, Amp, Plus
  <2> QED
    BY ONLY <1>3, <2>5, <2>6, <2>7
<1>15. CASE g[1] = 102
  <2>1. PICK y : y = "fixed"
    OBVIOUS
  <2>2. FloatOf(g[1]) = y
    BY <1>15, <2>1 DEF AlignOf, ClassOf, FloatOf, Zero, Plus
  <2>3. Chosen(p, w, d, i, a, c, g, u, x) = Made(m1, m2, m3, m4, m5, y, m7, m8, m9, m10)
    BY <1>1, <2>2, Zenon DEF Chosen
  <2>4. [s EXCEPT !.float_class = y] = Made(m1, m2, m3, m4, m5, y, m7, m8, m9, m10)
    BY ONLY <1>2 DEF Made
  <2>5. Chosen(p, w, d, i, a, c, g, u, x) = [s EXCEPT !.float_class = "fixed"]
    BY ONLY <2>1, <2>3, <2>4, Zenon
  <2>6. WithFlag(s, g[1]) = [s EXCEPT !.float_class = "fixed"]
    BY <1>15 DEF WithFlag
  <2>7. Chosen(IF g[1] \in {Under, Zero} THEN g ELSE p, IF g[1] \in {49} THEN g ELSE w,
               IF g[1] \in {Dot} THEN g ELSE d, IF g[1] \in {Amp} THEN g ELSE i,
               IF g[1] \in {60, 62} THEN g ELSE a,
               IF g[1] \in {120, 88, 100, 111, 98, 99} THEN g ELSE c,
               IF g[1] \in {102, 101, 69} THEN g ELSE f,
               IF g[1] \in {Plus} THEN g ELSE u, IF g[1] \in {35} THEN g ELSE x)
          = Chosen(p, w, d, i, a, c, g, u, x)
    BY <1>15 DEF Under, Zero, Dot, Amp, Plus
  <2> QED
    BY ONLY <1>3, <2>5, <2>6, <2>7
<1>16. CASE g[1] = 101
  <2>1. PICK y : y = "exp"
    OBVIOUS
  <2>2. FloatOf(g[1]) = y
    BY <1>16, <2>1 DEF AlignOf, ClassOf, FloatOf, Zero, Plus
  <2>3. Chosen(p, w, d, i, a, c, g, u, x) = Made(m1, m2, m3, m4, m5, y, m7, m8, m9, m10)
    BY <1>1, <2>2, Zenon DEF Chosen
  <2>4. [s EXCEPT !.float_class = y] = Made(m1, m2, m3, m4, m5, y, m7, m8, m9, m10)
    BY ONLY <1>2 DEF Made
  <2>5. Chosen(p, w, d, i, a, c, g, u, x) = [s EXCEPT !.float_class = "exp"]
    BY ONLY <2>1, <2>3, <2>4, Zenon
  <2>6. WithFlag(s, g[1]) = [s EXCEPT !.float_class = "exp"]
    BY <1>16 DEF WithFlag
  <2>7. Chosen(IF g[1] \in {Under, Zero} THEN g ELSE p, IF g[1] \in {49} THEN g ELSE w,
               IF g[1] \in {Dot} THEN g ELSE d, IF g[1] \in {Amp} THEN g ELSE i,
               IF g[1] \in {60, 62} THEN g ELSE a,
               IF g[1] \in {120, 88, 100, 111, 98, 99} THEN g ELSE c,
               IF g[1] \in {102, 101, 69} THEN g ELSE f,
               IF g[1] \in {Plus} THEN g ELSE u, IF g[1] \in {35} THEN g ELSE x)
          = Chosen(p, w, d, i, a, c, g, u, x)
    BY <1>16 DEF Under, Zero, Dot, Amp, Plus
  <2> QED
    BY ONLY <1>3, <2>5, <2>6, <2>7
<1>17. CASE g[1] = 69
  <2>1. PICK y : y = "exp_upper"
    OBVIOUS
  <2>2. FloatOf(g[1]) = y
    BY <1>17, <2>1 DEF AlignOf, ClassOf, FloatOf, Zero, Plus
  <2>3. Chosen(p, w, d, i, a, c, g, u, x) = Made(m1, m2, m3, m4, m5, y, m7, m8, m9, m10)
    BY <1>1, <2>2, Zenon DEF Chosen
  <2>4. [s EXCEPT !.float_class = y] = Made(m1, m2, m3, m4, m5, y, m7, m8, m9, m10)
    BY ONLY <1>2 DEF Made
  <2>5. Chosen(p, w, d, i, a, c, g, u, x) = [s EXCEPT !.float_class = "exp_upper"]
    BY ONLY <2>1, <2>3, <2>4, Zenon
  <2>6. WithFlag(s, g[1]) = [s EXCEPT !.float_class = "exp_upper"]
    BY <1>17 DEF WithFlag
  <2>7. Chosen(IF g[1] \in {Under, Zero} THEN g ELSE p, IF g[1] \in {49} THEN g ELSE w,
               IF g[1] \in {Dot} THEN g ELSE d, IF g[1] \in {Amp} THEN g ELSE i,
               IF g[1] \in {60, 62} THEN g ELSE a,
               IF g[1] \in {120, 88, 100, 111, 98, 99} THEN g ELSE c,
               IF g[1] \in {102, 101, 69} THEN g ELSE f,
               IF g[1] \in {Plus} THEN g ELSE u, IF g[1] \in {35} THEN g ELSE x)
          = Chosen(p, w, d, i, a, c, g, u, x)
    BY <1>17 DEF Under, Zero, Dot, Amp, Plus
  <2> QED
    BY ONLY <1>3, <2>5, <2>6, <2>7
<1> QED
  BY <1>4, <1>5, <1>6, <1>7, <1>8, <1>9, <1>10, <1>11, <1>12, <1>13, <1>14, <1>15, <1>16, <1>17 DEF Flags

\* The groups with a character or a number.
LEMMA GroupSets ==
  ASSUME NEW s \in Seq(Pairs), NEW v \in Nat
  PROVE  /\ Settings(Append(s, <<Under, v>>)) = [Settings(s) EXCEPT !.pad = v, !.numeric_pad = FALSE]
         /\ Settings(Append(s, <<49, v>>)) = [Settings(s) EXCEPT !.minimum_length = v]
         /\ Settings(Append(s, <<Dot, v>>)) = [Settings(s) EXCEPT !.precision = v]
         /\ Settings(Append(s, <<Amp, v>>)) = [Settings(s) EXCEPT !.arg_index = v]
<1>1. Settings(Append(s, <<Under, v>>)) = [Settings(s) EXCEPT !.pad = v, !.numeric_pad = FALSE]
  <2>1. PICK g \in Pairs : g = <<Under, v>>
    BY DEF Pairs, Under, Dot, Amp
  <2>2. g[1] = Under /\ g[2] = v
    BY <2>1
  <2>3. PICK p, w, d, i, a, c, f, u, x :
           /\ Settings(s) = Chosen(p, w, d, i, a, c, f, u, x)
           /\ Settings(Append(s, g)) =
                Chosen(IF g[1] \in {Under, Zero} THEN g ELSE p, IF g[1] \in {49} THEN g ELSE w,
                  IF g[1] \in {Dot} THEN g ELSE d, IF g[1] \in {Amp} THEN g ELSE i,
                  IF g[1] \in {60, 62} THEN g ELSE a,
                  IF g[1] \in {120, 88, 100, 111, 98, 99} THEN g ELSE c,
                  IF g[1] \in {102, 101, 69} THEN g ELSE f,
                  IF g[1] \in {Plus} THEN g ELSE u, IF g[1] \in {35} THEN g ELSE x)
    BY SettingsAppend
  <2>4. Chosen(IF g[1] \in {Under, Zero} THEN g ELSE p, IF g[1] \in {49} THEN g ELSE w,
               IF g[1] \in {Dot} THEN g ELSE d, IF g[1] \in {Amp} THEN g ELSE i,
               IF g[1] \in {60, 62} THEN g ELSE a,
               IF g[1] \in {120, 88, 100, 111, 98, 99} THEN g ELSE c,
               IF g[1] \in {102, 101, 69} THEN g ELSE f,
               IF g[1] \in {Plus} THEN g ELSE u, IF g[1] \in {35} THEN g ELSE x)
          = Chosen(g, w, d, i, a, c, f, u, x)
    BY <2>2 DEF Under, Zero, Dot, Amp, Plus
  <2>5. [Chosen(p, w, d, i, a, c, f, u, x) EXCEPT !.pad = v, !.numeric_pad = FALSE] =
          Chosen(g, w, d, i, a, c, f, u, x)
    <3>1. Chooses(p, w, d, i, a, c, f, u, x, g)
      BY ONLY GroupChoice
    <3> QED
      BY ONLY <2>2, <3>1 DEF Chooses
  <2> QED
    BY ONLY <2>1, <2>3, <2>4, <2>5
<1>2. Settings(Append(s, <<49, v>>)) = [Settings(s) EXCEPT !.minimum_length = v]
  <2>1. PICK g \in Pairs : g = <<49, v>>
    BY DEF Pairs, Under, Dot, Amp
  <2>2. g[1] = 49 /\ g[2] = v
    BY <2>1
  <2>3. PICK p, w, d, i, a, c, f, u, x :
           /\ Settings(s) = Chosen(p, w, d, i, a, c, f, u, x)
           /\ Settings(Append(s, g)) =
                Chosen(IF g[1] \in {Under, Zero} THEN g ELSE p, IF g[1] \in {49} THEN g ELSE w,
                  IF g[1] \in {Dot} THEN g ELSE d, IF g[1] \in {Amp} THEN g ELSE i,
                  IF g[1] \in {60, 62} THEN g ELSE a,
                  IF g[1] \in {120, 88, 100, 111, 98, 99} THEN g ELSE c,
                  IF g[1] \in {102, 101, 69} THEN g ELSE f,
                  IF g[1] \in {Plus} THEN g ELSE u, IF g[1] \in {35} THEN g ELSE x)
    BY SettingsAppend
  <2>4. Chosen(IF g[1] \in {Under, Zero} THEN g ELSE p, IF g[1] \in {49} THEN g ELSE w,
               IF g[1] \in {Dot} THEN g ELSE d, IF g[1] \in {Amp} THEN g ELSE i,
               IF g[1] \in {60, 62} THEN g ELSE a,
               IF g[1] \in {120, 88, 100, 111, 98, 99} THEN g ELSE c,
               IF g[1] \in {102, 101, 69} THEN g ELSE f,
               IF g[1] \in {Plus} THEN g ELSE u, IF g[1] \in {35} THEN g ELSE x)
          = Chosen(p, g, d, i, a, c, f, u, x)
    BY <2>2 DEF Under, Zero, Dot, Amp, Plus
  <2>5. [Chosen(p, w, d, i, a, c, f, u, x) EXCEPT !.minimum_length = v] = Chosen(p, g, d, i, a, c, f, u, x)
    <3>1. Chooses(p, w, d, i, a, c, f, u, x, g)
      BY ONLY GroupChoice
    <3> QED
      BY ONLY <2>2, <3>1 DEF Chooses
  <2> QED
    BY ONLY <2>1, <2>3, <2>4, <2>5
<1>3. Settings(Append(s, <<Dot, v>>)) = [Settings(s) EXCEPT !.precision = v]
  <2>1. PICK g \in Pairs : g = <<Dot, v>>
    BY DEF Pairs, Under, Dot, Amp
  <2>2. g[1] = Dot /\ g[2] = v
    BY <2>1
  <2>3. PICK p, w, d, i, a, c, f, u, x :
           /\ Settings(s) = Chosen(p, w, d, i, a, c, f, u, x)
           /\ Settings(Append(s, g)) =
                Chosen(IF g[1] \in {Under, Zero} THEN g ELSE p, IF g[1] \in {49} THEN g ELSE w,
                  IF g[1] \in {Dot} THEN g ELSE d, IF g[1] \in {Amp} THEN g ELSE i,
                  IF g[1] \in {60, 62} THEN g ELSE a,
                  IF g[1] \in {120, 88, 100, 111, 98, 99} THEN g ELSE c,
                  IF g[1] \in {102, 101, 69} THEN g ELSE f,
                  IF g[1] \in {Plus} THEN g ELSE u, IF g[1] \in {35} THEN g ELSE x)
    BY SettingsAppend
  <2>4. Chosen(IF g[1] \in {Under, Zero} THEN g ELSE p, IF g[1] \in {49} THEN g ELSE w,
               IF g[1] \in {Dot} THEN g ELSE d, IF g[1] \in {Amp} THEN g ELSE i,
               IF g[1] \in {60, 62} THEN g ELSE a,
               IF g[1] \in {120, 88, 100, 111, 98, 99} THEN g ELSE c,
               IF g[1] \in {102, 101, 69} THEN g ELSE f,
               IF g[1] \in {Plus} THEN g ELSE u, IF g[1] \in {35} THEN g ELSE x)
          = Chosen(p, w, g, i, a, c, f, u, x)
    BY <2>2 DEF Under, Zero, Dot, Amp, Plus
  <2>5. [Chosen(p, w, d, i, a, c, f, u, x) EXCEPT !.precision = v] = Chosen(p, w, g, i, a, c, f, u, x)
    <3>1. Chooses(p, w, d, i, a, c, f, u, x, g)
      BY ONLY GroupChoice
    <3> QED
      BY ONLY <2>2, <3>1 DEF Chooses
  <2> QED
    BY ONLY <2>1, <2>3, <2>4, <2>5
<1>4. Settings(Append(s, <<Amp, v>>)) = [Settings(s) EXCEPT !.arg_index = v]
  <2>1. PICK g \in Pairs : g = <<Amp, v>>
    BY DEF Pairs, Under, Dot, Amp
  <2>2. g[1] = Amp /\ g[2] = v
    BY <2>1
  <2>3. PICK p, w, d, i, a, c, f, u, x :
           /\ Settings(s) = Chosen(p, w, d, i, a, c, f, u, x)
           /\ Settings(Append(s, g)) =
                Chosen(IF g[1] \in {Under, Zero} THEN g ELSE p, IF g[1] \in {49} THEN g ELSE w,
                  IF g[1] \in {Dot} THEN g ELSE d, IF g[1] \in {Amp} THEN g ELSE i,
                  IF g[1] \in {60, 62} THEN g ELSE a,
                  IF g[1] \in {120, 88, 100, 111, 98, 99} THEN g ELSE c,
                  IF g[1] \in {102, 101, 69} THEN g ELSE f,
                  IF g[1] \in {Plus} THEN g ELSE u, IF g[1] \in {35} THEN g ELSE x)
    BY SettingsAppend
  <2>4. Chosen(IF g[1] \in {Under, Zero} THEN g ELSE p, IF g[1] \in {49} THEN g ELSE w,
               IF g[1] \in {Dot} THEN g ELSE d, IF g[1] \in {Amp} THEN g ELSE i,
               IF g[1] \in {60, 62} THEN g ELSE a,
               IF g[1] \in {120, 88, 100, 111, 98, 99} THEN g ELSE c,
               IF g[1] \in {102, 101, 69} THEN g ELSE f,
               IF g[1] \in {Plus} THEN g ELSE u, IF g[1] \in {35} THEN g ELSE x)
          = Chosen(p, w, d, g, a, c, f, u, x)
    BY <2>2 DEF Under, Zero, Dot, Amp, Plus
  <2>5. [Chosen(p, w, d, i, a, c, f, u, x) EXCEPT !.arg_index = v] = Chosen(p, w, d, g, a, c, f, u, x)
    <3>1. Chooses(p, w, d, i, a, c, f, u, x, g)
      BY ONLY GroupChoice
    <3> QED
      BY ONLY <2>2, <3>1 DEF Chooses
  <2> QED
    BY ONLY <2>1, <2>3, <2>4, <2>5
<1> QED
  BY <1>1, <1>2, <1>3, <1>4

\* The groups of one character.
LEMMA FlagSets ==
  ASSUME NEW s \in Seq(Pairs), NEW k \in Flags
  PROVE  Settings(Append(s, <<k, 0>>)) = WithFlag(Settings(s), k)
<1>1. PICK g : g = <<k, 0>>
  OBVIOUS
<1>2. g \in Pairs /\ g[1] = k
  <2>1. k \in Nat
    BY DEF Flags
  <2> QED
    BY <1>1, <2>1 DEF Pairs
<1>3. PICK p, w, d, i, a, c, f, u, x :
           /\ Settings(s) = Chosen(p, w, d, i, a, c, f, u, x)
           /\ Settings(Append(s, g)) =
                Chosen(IF g[1] \in {Under, Zero} THEN g ELSE p, IF g[1] \in {49} THEN g ELSE w,
                  IF g[1] \in {Dot} THEN g ELSE d, IF g[1] \in {Amp} THEN g ELSE i,
                  IF g[1] \in {60, 62} THEN g ELSE a,
                  IF g[1] \in {120, 88, 100, 111, 98, 99} THEN g ELSE c,
                  IF g[1] \in {102, 101, 69} THEN g ELSE f,
                  IF g[1] \in {Plus} THEN g ELSE u, IF g[1] \in {35} THEN g ELSE x)
  BY <1>2, SettingsAppend
<1>4. WithFlag(Chosen(p, w, d, i, a, c, f, u, x), g[1]) =
           Chosen(IF g[1] \in {Under, Zero} THEN g ELSE p, IF g[1] \in {49} THEN g ELSE w,
                  IF g[1] \in {Dot} THEN g ELSE d, IF g[1] \in {Amp} THEN g ELSE i,
                  IF g[1] \in {60, 62} THEN g ELSE a,
                  IF g[1] \in {120, 88, 100, 111, 98, 99} THEN g ELSE c,
                  IF g[1] \in {102, 101, 69} THEN g ELSE f,
                  IF g[1] \in {Plus} THEN g ELSE u, IF g[1] \in {35} THEN g ELSE x)
  BY <1>2, FlagChoice
<1> QED
  BY ONLY <1>1, <1>2, <1>3, <1>4

\* Without a group the settings are those of format_spec().
LEMMA NoGroups == Settings(<<>>) = NoSpec
<1>1. \A kinds, default : LastOf(<<>>, kinds, default) = default
  <2> SUFFICES ASSUME NEW kinds, NEW default PROVE LastOf(<<>>, kinds, default) = default
    OBVIOUS
  <2>1. {i \in DOMAIN <<>> : <<>>[i][1] \in kinds} = {}
    OBVIOUS
  <2> QED
    BY <2>1 DEF LastOf
<1>2. PICK t : t = <<>>
  OBVIOUS
<1>3. Settings(t) = Chosen(<<0, 0>>, <<0, 0>>, <<0, -1>>, <<0, -1>>, <<0, 0>>,
                           <<0, 0>>, <<0, 0>>, <<0, 0>>, <<0, 0>>)
  BY <1>1, <1>2, SettingsAre
<1>4. AlignOf(0) = "default" /\ ClassOf(0) = "default" /\ FloatOf(0) = "default" /\ PadOf(<<0, 0>>) = NUL
  BY DEF AlignOf, ClassOf, FloatOf, PadOf, Zero, NUL
<1>5. (0 = Zero) = FALSE /\ (0 = Plus) = FALSE /\ (0 = 35) = FALSE
  BY DEF Zero, Plus
<1>6. Settings(t) = Made(0, -1, -1, AlignOf(0), ClassOf(0), FloatOf(0), PadOf(<<0, 0>>),
                         0 = Plus, 0 = 35, 0 = Zero)
  <2>1. <<0, 0>>[1] = 0 /\ <<0, 0>>[2] = 0 /\ <<0, -1>>[2] = -1
    OBVIOUS
  <2> QED
    BY <1>3, <2>1, Zenon DEF Chosen
<1>7. Settings(t) = Made(0, -1, -1, "default", "default", "default", NUL, FALSE, FALSE, FALSE)
  BY <1>4, <1>5, <1>6, Zenon
<1> QED
  BY ONLY <1>2, <1>7, Zenon DEF Made, NoSpec

-----------------------------------------------------------------------------
(* What is ahead of a place in the format string. *)

Outcomes == {"done", "out_of_range", "unicode_error", "bad_format", "odd", "aborted"}
Meanings == [text : Seq(Nat), outcome : Outcomes]

\* A text before what is meant is meant.
LEMMA AfterFacts ==
  /\ \A t \in Seq(Nat), m \in Meanings : After(t, m) \in Meanings
  /\ \A t \in Seq(Nat), o \in Outcomes : Meant(t, o) \in Meanings
<1>1. ASSUME NEW t \in Seq(Nat), NEW o \in Outcomes PROVE Meant(t, o) \in Meanings
  BY DEF Meant, Meanings
<1>2. ASSUME NEW t \in Seq(Nat), NEW m \in Meanings PROVE After(t, m) \in Meanings
  <2>1. m.text \in Seq(Nat) /\ m.outcome \in Outcomes
    BY DEF Meanings
  <2>2. t \o m.text \in Seq(Nat)
    BY <2>1, ConcatProperties
  <2> QED
    BY <1>1, <2>1, <2>2 DEF After
<1> QED
  BY <1>1, <1>2

\* The text goes on behind what begins at p.
LEMMA BehindFacts ==
  ASSUME NEW f \in Seq(Nat), NEW p \in Nat
  PROVE  Behind(f, p) \in Nat /\ Behind(f, p) > p
<1>1. PICK g : g = GroupsFrom(f)[p + 1]
  OBVIOUS
<1>2. g \in Parses /\ g.end > p + 1
  BY <1>1, ParsedFacts
<1>3. g.end \in Nat
  BY <1>2 DEF Parses
<1>4. Behind(f, p) = IF Brace(f, p) THEN p + 2 ELSE IF f[p + 1] # Open THEN p + 1 ELSE g.end
  BY <1>1 DEF Behind
<1> QED
  BY <1>2, <1>3, <1>4

\* What a field means.
LEMMA FieldType ==
  ASSUME NEW f \in Seq(Nat), NEW p \in Nat, NEW args \in Seq(Args), NEW k \in Nat,
         NEW rest \in [Nat -> Meanings]
  PROVE  FieldMeans(f, p, args, k, rest) \in Meanings
<1>1. PICK g : g = GroupsFrom(f)[p + 1]
  OBVIOUS
<1>2. g \in Parses
  BY <1>1, ParsedFacts
<1>3. g.groups \in Seq(Pairs) /\ g.kind \in {"field", "bad_format", "odd"}
  BY <1>2 DEF Parses, Kinds
<1>4. PICK s : s = Settings(g.groups)
  OBVIOUS
<1>5. s \in Specs /\ s.arg_index \in Nat \cup {-1}
  BY <1>3, <1>4, SettingsType
<1>6. Taken(s, k) \in Nat
  BY DEF Taken
<1>7. PICK r : r = format_type(s, args[Which(s, k)])
  OBVIOUS
<1>8. FieldMeans(f, p, args, k, rest) =
        IF args = <<>> THEN Meant(<<>>, "out_of_range")
        ELSE IF g.kind # "field" THEN Meant(<<>>, g.kind)
        ELSE IF Which(s, k) \notin DOMAIN args THEN Meant(<<>>, "out_of_range")
        ELSE IF args[Which(s, k)].type = "ill_formed" THEN Meant(<<>>, "unicode_error")
        ELSE IF r.ok THEN After(All(r.calls), rest[Taken(s, k)])
        ELSE Meant(All(r.calls), "aborted")
  BY <1>1, <1>4, <1>7 DEF FieldMeans
<1>9. /\ Meant(<<>>, "out_of_range") \in Meanings /\ Meant(<<>>, "unicode_error") \in Meanings
      /\ (g.kind # "field" => Meant(<<>>, g.kind) \in Meanings)
  <2>1. <<>> \in Seq(Nat)
    BY EmptySeq
  <2> QED
    BY <1>3, <2>1, AfterFacts DEF Outcomes
<1>10. ASSUME Which(s, k) \in DOMAIN args
       PROVE  After(All(r.calls), rest[Taken(s, k)]) \in Meanings /\ Meant(All(r.calls), "aborted") \in Meanings
  <2>1. args[Which(s, k)] \in Args
    BY <1>10, ElementOfSeq, LenProperties
  <2>2. r \in Printings
    BY <1>5, <1>7, <2>1, PrintedFacts
  <2>3. r.calls \in Seq(Calls)
    BY <2>2 DEF Printings
  <2>4. All(r.calls) \in Seq(Nat)
    BY <2>3, AllFacts
  <2>5. rest[Taken(s, k)] \in Meanings
    BY <1>6
  <2> QED
    BY <2>4, <2>5, AfterFacts DEF Outcomes
<1> QED
  BY <1>8, <1>9, <1>10

\* What a format string means from p on, when from each place it means m.
MeaningAt(f, args, m, p) ==
  [k \in Nat |->
     IF p >= Len(f) THEN Meant(<<>>, "done")
     ELSE IF Brace(f, p) \/ f[p + 1] # Open
     THEN After(<<f[p + 1]>>, m[Behind(f, p)][k])
     ELSE FieldMeans(f, p, args, k, m[Behind(f, p)])]

\* What is meant from p on.
LEMMA MeaningType ==
  ASSUME NEW f \in Seq(Nat), NEW args \in Seq(Args), NEW m, NEW p \in Nat,
         p < Len(f) => m[Behind(f, p)] \in [Nat -> Meanings]
  PROVE  MeaningAt(f, args, m, p) \in [Nat -> Meanings]
<1> SUFFICES ASSUME NEW k \in Nat PROVE MeaningAt(f, args, m, p)[k] \in Meanings
  BY DEF MeaningAt
<1>1. PICK n \in Nat : n = Len(f)
  BY LenProperties
<1>2. PICK v : v = MeaningAt(f, args, m, p)[k]
  OBVIOUS
<1>3. v = IF p >= n THEN Meant(<<>>, "done")
          ELSE IF Brace(f, p) \/ f[p + 1] # Open THEN After(<<f[p + 1]>>, m[Behind(f, p)][k])
          ELSE FieldMeans(f, p, args, k, m[Behind(f, p)])
  BY <1>1, <1>2 DEF MeaningAt
<1>4. Meant(<<>>, "done") \in Meanings
  <2>1. <<>> \in Seq(Nat)
    BY EmptySeq
  <2> QED
    BY <2>1, AfterFacts DEF Outcomes
<1>5. ASSUME p < n PROVE After(<<f[p + 1]>>, m[Behind(f, p)][k]) \in Meanings
  <2>1. f[p + 1] \in Nat
    BY <1>1, <1>5, ElementOfSeq
  <2>2. m[Behind(f, p)][k] \in Meanings
    BY <1>1, <1>5
  <2> QED
    BY <2>1, <2>2, AfterFacts, ShortTexts
<1>6. p < n => FieldMeans(f, p, args, k, m[Behind(f, p)]) \in Meanings
  BY <1>1, FieldType
<1> QED
  BY <1>2, <1>3, <1>4, <1>5, <1>6

\* A format string has a meaning at each place.
LEMMA MeaningExists ==
  ASSUME NEW f \in Seq(Nat), NEW args \in Seq(Args)
  PROVE  /\ MeaningFrom(f, args) \in [Nat -> [Nat -> Meanings]]
         /\ \A p \in Nat : MeaningFrom(f, args)[p] = MeaningAt(f, args, MeaningFrom(f, args), p)
<1>1. PICK n \in Nat : n = Len(f)
  BY LenProperties
<1>2. PICK V : V = [Nat -> Meanings]
  OBVIOUS
<1> DEFINE base == [p \in Nat |-> [k \in Nat |-> Meant(<<>>, "done")]]
           succ == [p \in Nat |-> Behind(f, p)]
           step == [p \in Nat |-> [v \in V |-> MeaningAt(f, args, [q \in {Behind(f, p)} |-> v], p)]]
<1>3. \A p \in Nat : base[p] \in V
  <2>1. <<>> \in Seq(Nat)
    BY EmptySeq
  <2>2. Meant(<<>>, "done") \in Meanings
    BY <2>1, AfterFacts DEF Outcomes
  <2> QED
    BY <1>2, <2>2
<1>4. \A p \in Nat : p < n => succ[p] \in Nat /\ succ[p] > p
  BY BehindFacts
<1>5. ASSUME NEW p \in Nat, NEW v \in V PROVE step[p][v] \in V
  <2>1. PICK m : m = [q \in {Behind(f, p)} |-> v]
    OBVIOUS
  <2>2. m[Behind(f, p)] \in [Nat -> Meanings]
    BY <1>2, <2>1
  <2>3. MeaningAt(f, args, m, p) \in [Nat -> Meanings]
    BY <2>2, MeaningType
  <2> QED
    BY <1>2, <2>1, <2>3
<1>6. PICK h \in [Nat -> V] : \A p \in Nat : h[p] = IF p < n THEN step[p][h[succ[p]]] ELSE base[p]
  <2>1. PICK b : b = base
    OBVIOUS
  <2>2. PICK c : c = succ
    OBVIOUS
  <2>3. PICK t : t = step
    OBVIOUS
  <2>4. \A p \in Nat : b[p] \in V
    BY <1>3, <2>1
  <2>5. \A p \in Nat : p < n => c[p] \in Nat /\ c[p] > p
    BY <1>4, <2>2
  <2>6. \A p \in Nat : p < n => \A v \in V : t[p][v] \in V
    BY <1>5, <2>3
  <2>7. n \in Nat
    OBVIOUS
  <2>8. IsForward(V, n, b, t, c)
    BY ONLY <2>4, <2>5, <2>6, <2>7 DEF IsForward
  <2>9. \E h \in [Nat -> V] : \A p \in Nat : h[p] = IF p < n THEN t[p][h[c[p]]] ELSE b[p]
    BY ONLY <2>8, ForwardExists
  <2> HIDE DEF base, succ, step
  <2> QED
    BY <2>1, <2>2, <2>3, <2>9
<1>7. ASSUME NEW m, NEW p \in Nat
      PROVE  /\ p >= n => MeaningAt(f, args, m, p) = [k \in Nat |-> Meant(<<>>, "done")]
             /\ \A w : w[Behind(f, p)] = m[Behind(f, p)] =>
                         MeaningAt(f, args, w, p) = MeaningAt(f, args, m, p)
  <2>1. ASSUME p >= n PROVE MeaningAt(f, args, m, p) = [k \in Nat |-> Meant(<<>>, "done")]
    BY <1>1, <2>1 DEF MeaningAt
  <2>2. ASSUME NEW w, w[Behind(f, p)] = m[Behind(f, p)]
        PROVE  MeaningAt(f, args, w, p) = MeaningAt(f, args, m, p)
    BY <2>2, Zenon DEF MeaningAt
  <2> QED
    BY <2>1, <2>2
<1>8. ASSUME NEW p \in Nat PROVE h[p] = MeaningAt(f, args, h, p)
  <2>1. Behind(f, p) \in Nat /\ h[Behind(f, p)] \in V
    BY BehindFacts
  <2>2. CASE p < n
    <3>1. PICK w : w = [q \in {Behind(f, p)} |-> h[Behind(f, p)]]
      OBVIOUS
    <3>2. w[Behind(f, p)] = h[Behind(f, p)]
      BY <3>1
    <3>3. h[p] = step[p][h[Behind(f, p)]]
      BY <1>6, <2>2
    <3>4. h[p] = MeaningAt(f, args, w, p)
      BY <2>1, <3>1, <3>3
    <3> QED
      BY <1>7, <3>2, <3>4
  <2>3. CASE ~(p < n)
    <3>1. h[p] = [k \in Nat |-> Meant(<<>>, "done")]
      BY <1>6, <2>3
    <3> QED
      BY <1>7, <2>3, <3>1
  <2> QED
    BY <2>2, <2>3
<1> DEFINE is(g) == g = [p \in Nat |-> MeaningAt(f, args, g, p)]
<1>9. h = [p \in Nat |-> h[p]]
  OBVIOUS
<1>10. is(h)
  BY <1>8, <1>9
<1>11. MeaningFrom(f, args) = CHOOSE g : is(g)
  BY Zenon DEF MeaningFrom, MeaningAt
<1> HIDE DEF is
<1>12. is(MeaningFrom(f, args))
  BY <1>10, <1>11
<1>13. PICK g : g = MeaningFrom(f, args)
  OBVIOUS
<1>14. g = [p \in Nat |-> MeaningAt(f, args, g, p)]
  BY <1>12, <1>13 DEF is
<1>15. \A p \in Nat : g[p] = MeaningAt(f, args, g, p)
  BY <1>14
<1>16. \A p \in Nat : g[p] = h[p]
  <2> DEFINE G == {k \in Nat : \A p \in Nat : p + k >= n => g[p] = h[p]}
  <2>1. ASSUME NEW k \in Nat, \A j \in 0 .. k - 1 : j \in G PROVE k \in G
    <3> SUFFICES ASSUME NEW p \in Nat, p + k >= n PROVE g[p] = h[p]
      OBVIOUS
    <3>1. CASE p >= n
      BY <1>7, <1>8, <1>15, <3>1
    <3>2. CASE ~(p >= n)
      <4>1. Behind(f, p) \in Nat /\ Behind(f, p) > p
        BY BehindFacts
      <4>2. k # 0 /\ k - 1 \in 0 .. k - 1 /\ Behind(f, p) + (k - 1) >= n
        BY <3>2, <4>1
      <4>3. g[Behind(f, p)] = h[Behind(f, p)]
        BY <2>1, <4>1, <4>2
      <4> QED
        BY <1>7, <1>8, <1>15, <4>3
    <3> QED
      BY <3>1, <3>2
  <2> HIDE DEF G
  <2>2. \A k \in Nat : k \in G
    BY <2>1, InductionOn
  <2>3. ASSUME NEW p \in Nat PROVE g[p] = h[p]
    <3>1. n \in G /\ p + n >= n
      BY <2>2
    <3> QED
      BY <3>1 DEF G
  <2> QED
    BY <2>3
<1>17. g \in [Nat -> V]
  <2>1. \A p \in Nat : h[p] \in V
    OBVIOUS
  <2>2. \A p \in Nat : MeaningAt(f, args, g, p) \in V
    BY <1>15, <1>16, <2>1
  <2> QED
    BY <1>14, <2>2
<1> QED
  BY <1>2, <1>13, <1>15, <1>17

-----------------------------------------------------------------------------
(* The numbers in a format string. *)

\* A call has a text to format, and arguments.
LEMMA FormatText ==
  ASSUME job \in Jobs
  PROVE  /\ job.fmt \in Seq(Nat) /\ job.args \in Seq(Args)
         /\ \A p \in 0 .. Len(job.fmt) - 1 : Here(p) = job.fmt[p + 1] /\ Here(p) # NUL
<1>1. PICK f : f = job.fmt
  OBVIOUS
<1>2. PICK S : S = 1 .. 255
  OBVIOUS
<1>3. f \in Seq(S) /\ job.args \in Seq(Args)
  BY <1>1, <1>2, FormatAssumption
<1>4. \A x \in S : x \in Nat /\ x # NUL
  BY <1>2 DEF NUL
<1>5. f \in Seq(Nat)
  BY <1>3, <1>4
<1>6. PICK n \in Nat : n = Len(f)
  BY <1>3, LenProperties
<1>7. ASSUME NEW p \in 0 .. n - 1 PROVE Here(p) = f[p + 1] /\ Here(p) # NUL
  <2>1. p + 1 \in 1 .. n /\ p < n
    BY <1>6
  <2>2. f[p + 1] \in S
    BY <1>3, <1>6, <2>1, ElementOfSeq
  <2>3. Here(p) = f[p + 1]
    BY <1>1, <1>6, <2>1 DEF Here
  <2> QED
    BY <1>4, <2>2, <2>3
<1> QED
  BY <1>1, <1>3, <1>5, <1>6, <1>7

\* What strtol has come to at each place, from the digits' first on.
IsReading(v, a, e) ==
  v = [q \in a .. e |-> IF q = a THEN 0 ELSE Min({LongMax, 10 * v[q - 1] + Here(q - 1) - 48})]

\* The lesser of two numbers.
LEMMA MinOfTwo ==
  ASSUME NEW a \in Nat, NEW b \in Nat
  PROVE  Min({a, b}) = IF a <= b THEN a ELSE b
<1>1. PICK S : S = {a, b}
  OBVIOUS
<1>2. S \in SUBSET Nat /\ S # {}
  BY <1>1
<1>3. Min(S) \in S /\ \A y \in S : Min(S) <= y
  BY <1>2, MinFacts
<1>4. Min(S) \in {a, b} /\ Min(S) <= a /\ Min(S) <= b
  BY <1>1, <1>3
<1> QED
  BY <1>1, <1>4

\* A digit more, as the parser reads the string and as a text.
LEMMA DigitMore ==
  ASSUME job \in Jobs, NEW a \in 0 .. Len(job.fmt), NEW e \in a .. Len(job.fmt),
         \A q \in a .. e - 1 : job.fmt[q + 1] \in Digit, NEW q \in a + 1 .. e
  PROVE  /\ Worth(SubSeq(job.fmt, a + 1, q), 10) \in Nat
         /\ Worth(SubSeq(job.fmt, a + 1, q - 1), 10) \in Nat
         /\ Here(q - 1) \in Digit
         /\ Worth(SubSeq(job.fmt, a + 1, q), 10) =
              10 * Worth(SubSeq(job.fmt, a + 1, q - 1), 10) + Here(q - 1) - 48
<1>1. PICK f \in Seq(Nat) : f = job.fmt
  BY FormatText
<1>2. PICK n \in Nat : n = Len(f)
  BY LenProperties
<1>3. a \in Nat /\ q \in Nat /\ a + 1 <= q /\ q <= e /\ e <= n /\ e \in Nat
  BY <1>1, <1>2
<1>4. PICK c : c = f[q]
  OBVIOUS
<1>5. c \in Digit /\ Here(q - 1) = c
  <2>1. q - 1 \in a .. e - 1 /\ (q - 1) + 1 = q /\ q - 1 < n
    BY <1>3
  <2>2. job.fmt[(q - 1) + 1] \in Digit /\ job.fmt[(q - 1) + 1] = c
    BY <1>1, <1>4, <2>1
  <2>3. q - 1 < Len(job.fmt)
    BY <1>1, <1>2, <2>1
  <2> QED
    BY <2>2, <2>3 DEF Here
<1>6. PICK d : d = SubSeq(f, a + 1, q - 1)
  OBVIOUS
<1>7. d \in Seq(Digit) /\ IsDigits(d)
  <2>1. q - 1 \in a .. Len(f) /\ a \in 0 .. Len(f)
    BY <1>2, <1>3
  <2>2. \A i \in a .. (q - 1) - 1 : f[i + 1] \in Digit
    BY <1>1, <1>3
  <2> QED
    BY <1>6, <2>1, <2>2, DigitsBetween
<1>8. SubSeq(f, a + 1, q) = Append(d, c)
  <2>1. PICK e1 : e1 = SubSeq(f, a + 1, q)
    OBVIOUS
  <2>2. e1 \in Seq(Nat) /\ Len(e1) = q - a /\ \A i \in 1 .. q - a : e1[i] = f[a + i]
    <3>1. \A i \in a + 1 .. q : f[i] \in Nat
      BY <1>2, <1>3, ElementOfSeq
    <3>2. a + 1 \in Int /\ q \in Int
      BY <1>3
    <3>3. PICK g : g = SubSeq(f, a + 1, q)
      OBVIOUS
    <3> QED
      BY <1>3, <2>1, <3>1, <3>2, SubSeqProperties
  <2>3. Len(d) = q - 1 - a /\ \A i \in 1 .. q - 1 - a : d[i] = f[a + i]
    BY <1>2, <1>3, <1>6, SubSeqProperties
  <2>4. PICK e2 : e2 = Append(d, c)
    OBVIOUS
  <2>5. e2 \in Seq(Nat) /\ Len(e2) = q - a /\ e2[q - a] = c /\ \A i \in 1 .. q - 1 - a : e2[i] = d[i]
    <3>1. d \in Seq(Nat)
      <4>1. \A x \in Digit : x \in Nat
        BY DEF Digit
      <4> QED
        BY <1>7, <4>1, LenProperties
    <3>2. c \in Nat
      BY <1>5 DEF Digit
    <3> QED
      BY <1>3, <2>3, <2>4, <3>1, <3>2, AppendProperties
  <2>6. \A i \in 1 .. q - a : e1[i] = e2[i]
    <3> SUFFICES ASSUME NEW i \in 1 .. q - a PROVE e1[i] = e2[i]
      OBVIOUS
    <3>1. CASE i = q - a
      BY <1>3, <1>4, <2>2, <2>5, <3>1
    <3>2. CASE i # q - a
      <4>1. i \in 1 .. q - 1 - a
        BY <1>3, <3>2
      <4> QED
        BY <1>3, <2>2, <2>3, <2>5, <4>1
    <3> QED
      BY <3>1, <3>2
  <2>7. e1 = e2
    BY <2>2, <2>5, <2>6, SeqEqual
  <2> QED
    BY <2>1, <2>4, <2>7
<1>9. DigitWorth(c) = c - 48 /\ DigitWorth(c) \in Nat
  BY <1>5 DEF Digit, DigitWorth
<1>10. Worth(d, 10) \in Nat /\ Worth(Append(d, c), 10) = 10 * Worth(d, 10) + DigitWorth(c)
  <2>1. 10 \in Nat
    OBVIOUS
  <2> QED
    BY <1>5, <1>7, <1>9, <2>1, WorthFacts
<1> QED
  <2>1. PICK w \in Nat : w = Worth(d, 10)
    BY <1>10
  <2>2. PICK x : x = Worth(Append(d, c), 10)
    OBVIOUS
  <2>3. x = 10 * w + (c - 48) /\ x \in Nat /\ c \in Int
    BY <1>5, <1>9, <1>10, <2>1, <2>2 DEF Digit
  <2>4. x = 10 * w + c - 48
    BY <2>3
  <2> QED
    BY <1>1, <1>5, <1>6, <1>8, <2>1, <2>2, <2>3, <2>4

\* The digits are read for what they are worth, as far as a long goes.
LEMMA ReadingIs ==
  ASSUME job \in Jobs, NEW a \in 0 .. Len(job.fmt), NEW e \in a .. Len(job.fmt),
         \A q \in a .. e - 1 : job.fmt[q + 1] \in Digit
  PROVE  /\ \E v : IsReading(v, a, e)
         /\ \A v : IsReading(v, a, e) => v[e] = Min({LongMax, Worth(SubSeq(job.fmt, a + 1, e), 10)})
<1>1. PICK n \in Nat : n = Len(job.fmt)
  BY Format
<1>2. PICK l \in Nat : l = LongMax
  BY LongAssumption
<1>3. a \in Nat /\ e \in Nat /\ a <= e /\ e <= n
  BY <1>1
<1> DEFINE W(q) == Worth(SubSeq(job.fmt, a + 1, q), 10)
<1>4. W(a) = 0
  <2>1. SubSeq(job.fmt, a + 1, a) = <<>>
    <3>1. PICK t : t = SubSeq(job.fmt, a + 1, a)
      OBVIOUS
    <3>2. job.fmt \in Seq(1 .. 255)
      BY FormatAssumption
    <3>3. Len(t) = 0 /\ t \in Seq(1 .. 255)
      <4>1. a + 1 \in Int /\ a \in Int /\ \A i \in a + 1 .. a : job.fmt[i] \in 1 .. 255
        BY <1>3
      <4> QED
        BY <1>3, <3>1, <4>1, SubSeqProperties
    <3> QED
      BY <3>1, <3>3, EmptySeq
  <2>2. Worth(<<>>, 10) = 0
    <3>1. <<>> \in Seq(Digit) /\ IsDigits(<<>>) /\ 10 \in Nat
      BY DEF IsDigits
    <3> QED
      BY <3>1, WorthFacts
  <2> QED
    BY <2>1, <2>2
<1>5. ASSUME NEW q \in a + 1 .. e
      PROVE  W(q) \in Nat /\ W(q - 1) \in Nat /\ Here(q - 1) \in Digit /\ W(q) = 10 * W(q - 1) + Here(q - 1) - 48
  BY DigitMore
<1> HIDE DEF W
<1>6. ASSUME NEW q \in a + 1 .. e
      PROVE  Min({LongMax, 10 * Min({LongMax, W(q - 1)}) + Here(q - 1) - 48}) = Min({LongMax, W(q)})
  <2>1. PICK w \in Nat : w = W(q - 1)
    BY <1>5
  <2>2. PICK x \in Nat : x = W(q)
    BY <1>5
  <2>3. PICK d \in 0 .. 9 : Here(q - 1) = 48 + d
    <3>1. Here(q - 1) \in 48 .. 57
      BY <1>5 DEF Digit
    <3>2. Here(q - 1) - 48 \in 0 .. 9 /\ Here(q - 1) = 48 + (Here(q - 1) - 48)
      BY <3>1
    <3> QED
      BY <3>2
  <2>4. x = 10 * w + d
    <3>1. x = 10 * w + (48 + d) - 48
      BY <1>5, <2>1, <2>2, <2>3
    <3> QED
      BY <3>1
  <2>5. PICK m \in Nat : m = Min({l, w}) /\ m = IF l <= w THEN l ELSE w
    BY MinOfTwo
  <2>6. 10 * m + Here(q - 1) - 48 = 10 * m + d /\ 10 * m + d \in Nat
    BY <2>3
  <2>7. Min({l, 10 * m + d}) = IF l <= 10 * m + d THEN l ELSE 10 * m + d
    BY <2>6, MinOfTwo
  <2>8. Min({l, x}) = IF l <= x THEN l ELSE x
    BY MinOfTwo
  <2>9. (IF l <= 10 * m + d THEN l ELSE 10 * m + d) = IF l <= x THEN l ELSE x
    <3>1. CASE l <= w
      BY <2>4, <2>5, <3>1
    <3>2. CASE ~(l <= w)
      BY <2>4, <2>5, <3>2
    <3> QED
      BY <3>1, <3>2
  <2> QED
    BY <1>2, <2>1, <2>2, <2>5, <2>6, <2>7, <2>8, <2>9
<1>7. Min({LongMax, W(a)}) = 0
  <2>1. 0 \in Nat
    OBVIOUS
  <2>2. Min({l, 0}) = 0
    BY <2>1, MinOfTwo
  <2> QED
    BY <1>2, <1>4, <2>2
<1>8. \E v : IsReading(v, a, e)
  <2>1. PICK v : v = [q \in a .. e |-> Min({LongMax, W(q)})]
    OBVIOUS
  <2>2. \A q \in a .. e : v[q] = Min({LongMax, W(q)})
    BY <2>1
  <2>3. ASSUME NEW q \in a .. e
        PROVE  Min({LongMax, W(q)}) = IF q = a THEN 0 ELSE Min({LongMax, 10 * v[q - 1] + Here(q - 1) - 48})
    <3>1. CASE q = a
      BY <1>7, <3>1
    <3>2. CASE q # a
      <4>1. q \in a + 1 .. e /\ q - 1 \in a .. e
        BY <1>3, <3>2
      <4>2. v[q - 1] = Min({LongMax, W(q - 1)})
        BY <2>2, <4>1
      <4> QED
        BY <1>6, <3>2, <4>1, <4>2
    <3> QED
      BY <3>1, <3>2
  <2>4. IsReading(v, a, e)
    <3>1. [q \in a .. e |-> Min({LongMax, W(q)})]
            = [q \in a .. e |-> IF q = a THEN 0 ELSE Min({LongMax, 10 * v[q - 1] + Here(q - 1) - 48})]
      BY <2>3
    <3> QED
      BY <2>1, <3>1 DEF IsReading
  <2> QED
    BY <2>4
<1>9. ASSUME NEW v, IsReading(v, a, e) PROVE v[e] = Min({LongMax, W(e)})
  <2>1. \A q \in a .. e : v[q] = IF q = a THEN 0 ELSE Min({LongMax, 10 * v[q - 1] + Here(q - 1) - 48})
    BY <1>9 DEF IsReading
  <2> DEFINE G == {k \in Nat : a + k <= e => v[a + k] = Min({LongMax, W(a + k)})}
  <2>2. ASSUME NEW k \in Nat, \A j \in 0 .. k - 1 : j \in G PROVE k \in G
    <3> SUFFICES ASSUME a + k <= e PROVE v[a + k] = Min({LongMax, W(a + k)})
      OBVIOUS
    <3>1. CASE k = 0
      <4>1. a + k = a /\ a \in a .. e
        BY <1>3, <3>1
      <4> QED
        BY <1>7, <2>1, <4>1
    <3>2. CASE k # 0
      <4>1. PICK q : q = a + k
        OBVIOUS
      <4>2. q \in a + 1 .. e /\ q \in a .. e /\ q # a /\ k - 1 \in 0 .. k - 1 /\ q - 1 = a + (k - 1)
            /\ a + (k - 1) <= e
        BY <1>3, <3>2, <4>1
      <4>3. v[q - 1] = Min({LongMax, W(q - 1)})
        BY <2>2, <4>2
      <4>4. v[q] = Min({LongMax, 10 * v[q - 1] + Here(q - 1) - 48})
        BY <2>1, <4>2
      <4> QED
        BY <1>6, <4>1, <4>2, <4>3, <4>4
    <3> QED
      BY <3>1, <3>2
  <2> HIDE DEF G
  <2>3. \A k \in Nat : k \in G
    BY <2>2, InductionOn
  <2>4. e - a \in G /\ a + (e - a) = e
    BY <1>3, <2>3
  <2> QED
    BY <1>3, <2>4 DEF G
<1> QED
  BY <1>8, <1>9 DEF W

\* What strtol gives for the digits from a place to another.
Taking(p, sign, first, end) ==
  LET value == CHOOSE v : IsReading(v, first, end)
  IN  IF end = first THEN [value |-> 0, end |-> p]
      ELSE [value |-> IF Here(sign) = Minus THEN -value[end] ELSE value[end], end |-> end]

\* What a number ends with, and is, for strtol.
LEMMA StrtolReads ==
  ASSUME job \in Jobs, NEW p \in 0 .. Len(job.fmt), Here(p) \in Digit
  PROVE  /\ strtol(p).end = NumberEnd(job.fmt, p)
         /\ NumberAt(job.fmt, p) < IntMod \div 2 => AsInt(strtol(p).value) = NumberAt(job.fmt, p)
<1>1. PICK n \in Nat : n = Len(job.fmt)
  BY Format
<1>2. Here(n) \notin Digit
  BY <1>1 DEF Here, NUL, Digit
<1>3. Span(p, Spaces) = p
  <2>1. NUL \notin Spaces
    BY DEF NUL, Blank, Spaces
  <2>2. \A c \in Digit : c \notin Spaces
    BY DEF Blank, Spaces, Digit
  <2> QED
    BY <2>1, <2>2, SpanFacts
<1>4. Here(p) \notin {Plus, Minus} /\ Here(p) # Minus
  BY DEF Digit, Plus, Minus
<1>5. PICK e : e = NumberEnd(job.fmt, p)
  OBVIOUS
<1>6. /\ e \in p .. n /\ e # p
      /\ \A q \in p .. e - 1 : job.fmt[q + 1] \in Digit
  <2>1. job.fmt \in Seq(Nat)
    BY FormatText
  <2>2. p < n /\ job.fmt[p + 1] \in Digit
    <3>1. p # n
      BY <1>2
    <3>2. p < n
      BY <1>1, <3>1
    <3> QED
      BY <1>1, <3>2 DEF Here
  <2>3. /\ NumberEnd(job.fmt, p) \in p .. Len(job.fmt)
        /\ \A q \in p .. NumberEnd(job.fmt, p) - 1 : job.fmt[q + 1] \in Digit
        /\ NumberEnd(job.fmt, p) > p
    BY <1>1, <2>1, <2>2, NumberFacts
  <2>4. e \in p .. n /\ e > p
    BY <1>1, <1>5, <2>3
  <2>5. e # p
    BY <1>1, <2>4
  <2> QED
    BY <1>5, <2>3, <2>4, <2>5
<1>7. Span(p, 48 .. 57) = e
  <2>1. \A q \in p .. n : Here(q) \notin Digit <=> q = n \/ job.fmt[q + 1] \notin Digit
    <3> SUFFICES ASSUME NEW q \in p .. n PROVE Here(q) \notin Digit <=> q = n \/ job.fmt[q + 1] \notin Digit
      OBVIOUS
    <3>1. CASE q = n
      BY <1>2, <3>1
    <3>2. CASE q # n
      <4>1. q < n
        BY <1>1, <3>2
      <4>2. Here(q) = job.fmt[q + 1]
        BY <1>1, <4>1 DEF Here
      <4> QED
        BY <3>2, <4>2
    <3> QED
      BY <3>1, <3>2
  <2>2. {q \in p .. Len(job.fmt) : Here(q) \notin Digit}
          = {q \in p .. Len(job.fmt) : q = Len(job.fmt) \/ job.fmt[q + 1] \notin Digit}
    BY <1>1, <2>1
  <2>3. Span(p, Digit) = Min({q \in p .. Len(job.fmt) : Here(q) \notin Digit})
    BY Zenon DEF Span
  <2>4. e = Min({q \in p .. Len(job.fmt) : q = Len(job.fmt) \/ job.fmt[q + 1] \notin Digit})
    BY <1>5, Zenon DEF NumberEnd
  <2> QED
    BY <2>2, <2>3, <2>4, Zenon DEF Digit
<1>8. PICK v : v = CHOOSE w : IsReading(w, p, e)
  OBVIOUS
<1>9. strtol(p) = [value |-> v[e], end |-> e]
  <2>1. strtol(p) = Taking(p, Span(p, Spaces), IF Here(Span(p, Spaces)) \in {Plus, Minus}
                                                THEN Span(p, Spaces) + 1 ELSE Span(p, Spaces),
                           Span(IF Here(Span(p, Spaces)) \in {Plus, Minus}
                                THEN Span(p, Spaces) + 1 ELSE Span(p, Spaces), 48 .. 57))
    BY Zenon DEF strtol, Taking, IsReading
  <2>2. (IF Here(Span(p, Spaces)) \in {Plus, Minus} THEN Span(p, Spaces) + 1 ELSE Span(p, Spaces)) = p
    BY <1>3, <1>4
  <2>3. strtol(p) = Taking(p, p, p, e)
    BY <1>3, <1>7, <2>1, <2>2, Zenon
  <2> QED
    BY <1>4, <1>6, <1>8, <2>3, Zenon DEF Taking
<1>10. v[e] = Min({LongMax, NumberAt(job.fmt, p)})
  <2>1. e \in p .. Len(job.fmt)
    BY <1>1, <1>6
  <2>2. \E w : IsReading(w, p, e)
    BY <1>6, <2>1, ReadingIs
  <2>3. IsReading(v, p, e)
    BY <1>8, <2>2
  <2>4. v[e] = Min({LongMax, Worth(SubSeq(job.fmt, p + 1, e), 10)})
    BY <1>6, <2>1, <2>3, ReadingIs
  <2> QED
    BY <1>5, <2>4 DEF NumberAt
<1>11. PICK w \in Nat : w = NumberAt(job.fmt, p)
  <2>1. job.fmt \in Seq(Nat)
    BY FormatText
  <2> QED
    BY <2>1, NumberValue
<1>12. ASSUME w < IntMod \div 2 PROVE AsInt(v[e]) = w
  <2>1. PICK l \in Nat, m \in Nat : l = LongMax /\ m = IntMod
    BY LongAssumption, IntAssumption
  <2>2. PICK h \in Nat : h = m \div 2 /\ 2 * h <= m
    <3>1. m \div 2 \in Nat /\ 2 * (m \div 2) <= m
      OBVIOUS
    <3> QED
      BY <3>1
  <2>3. w < h /\ h <= l + 1
    BY <1>12, <2>1, <2>2, LongAssumption
  <2>4. w <= l
    BY <2>3
  <2>5. v[e] = w
    BY <1>10, <1>11, <2>1, <2>4, MinOfTwo
  <2>6. (w + h) % m = w + h
    <3>1. w + h \in Nat /\ w + h < m /\ m > 0
      BY <2>2, <2>3
    <3> QED
      BY <3>1
  <2>7. (w + h) - h = w
    OBVIOUS
  <2> QED
    BY <2>1, <2>2, <2>5, <2>6, <2>7 DEF AsInt
<1> QED
  BY <1>5, <1>9, <1>11, <1>12

-----------------------------------------------------------------------------
(* What a call means, and what is left of it to be done. *)

Ahead(j, p, k) == MeaningFrom(j.fmt, j.args)[p][k]
Entire(j)      == Ahead(j, 0, 0)

\* Nothing before what is meant, and two texts before it.
LEMMA AfterTexts ==
  ASSUME NEW m \in Meanings
  PROVE  /\ After(<<>>, m) = m
         /\ \A s, t \in Seq(Nat) : After(s, After(t, m)) = After(s \o t, m)
         /\ \A s \in Seq(Nat) : \A o : After(s, Meant(<<>>, o)) = Meant(s, o)
<1>1. m = [text |-> m.text, outcome |-> m.outcome] /\ m.text \in Seq(Nat)
  BY DEF Meanings
<1>2. After(<<>>, m) = m
  <2>1. <<>> \o m.text = m.text
    BY <1>1, JoinedToNone
  <2> QED
    BY <1>1, <2>1 DEF After, Meant
<1>3. ASSUME NEW s \in Seq(Nat), NEW t \in Seq(Nat) PROVE After(s, After(t, m)) = After(s \o t, m)
  <2>1. s \o (t \o m.text) = (s \o t) \o m.text
    BY <1>1, JoinedInAnyOrder
  <2> QED
    BY <2>1 DEF After, Meant
<1>4. ASSUME NEW s \in Seq(Nat), NEW o PROVE After(s, Meant(<<>>, o)) = Meant(s, o)
  <2>1. s \o <<>> = s
    BY JoinedToNone
  <2> QED
    BY <2>1 DEF After, Meant
<1> QED
  BY <1>2, <1>3, <1>4

\* A job has a text to format, and arguments.
LEMMA JobText ==
  ASSUME NEW j \in Jobs
  PROVE  j.fmt \in Seq(Nat) /\ j.args \in Seq(Args) /\ Len(j.fmt) \in Nat
<1>1. PICK S : S = 1 .. 255
  OBVIOUS
<1>2. j.fmt \in Seq(S) /\ j.args \in Seq(Args)
  BY <1>1, FormatAssumption
<1>3. S \subseteq Nat
  BY <1>1
<1>4. j.fmt \in Seq(Nat)
  BY <1>2, <1>3, SeqMonotonic
<1> QED
  BY <1>2, <1>4, LenProperties

\* What is left is something meant.
LEMMA AheadFacts ==
  ASSUME NEW j \in Jobs, NEW p \in Nat, NEW k \in Nat
  PROVE  /\ Ahead(j, p, k) \in Meanings
         /\ p >= Len(j.fmt) => Ahead(j, p, k) = Meant(<<>>, "done")
         /\ p < Len(j.fmt) /\ (Brace(j.fmt, p) \/ j.fmt[p + 1] # Open) =>
              Ahead(j, p, k) = After(<<j.fmt[p + 1]>>, Ahead(j, Behind(j.fmt, p), k))
         /\ p < Len(j.fmt) /\ ~(Brace(j.fmt, p) \/ j.fmt[p + 1] # Open) =>
              Ahead(j, p, k) = FieldMeans(j.fmt, p, j.args, k, MeaningFrom(j.fmt, j.args)[Behind(j.fmt, p)])
<1>1. j.fmt \in Seq(Nat) /\ j.args \in Seq(Args)
  BY JobText
<1>2. PICK m : m = MeaningFrom(j.fmt, j.args)
  OBVIOUS
<1>3. m \in [Nat -> [Nat -> Meanings]] /\ m[p] = MeaningAt(j.fmt, j.args, m, p)
  BY <1>1, <1>2, MeaningExists
<1>4. m[p][k] \in Meanings
  BY <1>3
<1>5. m[p][k] = IF p >= Len(j.fmt) THEN Meant(<<>>, "done")
                ELSE IF Brace(j.fmt, p) \/ j.fmt[p + 1] # Open
                THEN After(<<j.fmt[p + 1]>>, m[Behind(j.fmt, p)][k])
                ELSE FieldMeans(j.fmt, p, j.args, k, m[Behind(j.fmt, p)])
  BY <1>3 DEF MeaningAt
<1>6. Len(j.fmt) \in Nat
  BY <1>1, LenProperties
<1> QED
  BY <1>1, <1>2, <1>4, <1>5, <1>6 DEF Ahead

\* Between two characters, as the parser reads them and as the grammar does.
LEMMA DoubledIs ==
  ASSUME job \in Jobs, NEW p \in Nat
  PROVE  /\ Doubled(p) <=> Brace(job.fmt, p)
         /\ p < Len(job.fmt) <=> Here(p) # NUL
         /\ p < Len(job.fmt) => Here(p) = job.fmt[p + 1]
<1>1. PICK n \in Nat : n = Len(job.fmt)
  BY Format
<1>2. ASSUME NEW q \in Nat
      PROVE  /\ q < n <=> Here(q) # NUL
             /\ q < n => Here(q) = job.fmt[q + 1]
  <2>1. CASE q < n
    <3>1. q \in 0 .. Len(job.fmt) - 1
      BY <1>1, <2>1
    <3> QED
      BY <2>1, <3>1, FormatText
  <2>2. CASE ~(q < n)
    BY <1>1, <2>2 DEF Here
  <2> QED
    BY <2>1, <2>2
<1>3. CASE p + 1 < n
  <2>1. p + 1 \in Nat /\ (p + 1) + 1 = p + 2
    OBVIOUS
  <2>2. Here(p + 1) = job.fmt[p + 2] /\ Here(p) = job.fmt[p + 1]
    BY <1>2, <1>3, <2>1
  <2> QED
    BY <1>1, <1>2, <1>3, <2>2 DEF Doubled, Brace
<1>4. CASE ~(p + 1 < n)
  <2>1. Here(p + 1) = NUL
    BY <1>2, <1>4
  <2>2. ~Doubled(p)
    BY <2>1 DEF Doubled, Open, Close, NUL
  <2> QED
    BY <1>1, <1>2, <1>4, <2>2 DEF Brace
<1> QED
  BY <1>3, <1>4

-----------------------------------------------------------------------------
(* A step of the parser and what is ahead. *)

\* A piece of a text, and one character more.
LEMMA PieceFacts ==
  ASSUME NEW f \in Seq(Nat), NEW a \in Nat, NEW b \in Nat, a <= b, b <= Len(f)
  PROVE  /\ SubSeq(f, a + 1, b) \in Seq(Nat)
         /\ a = b => SubSeq(f, a + 1, b) = <<>>
         /\ b < Len(f) => SubSeq(f, a + 1, b + 1) = SubSeq(f, a + 1, b) \o <<f[b + 1]>>
<1>1. PICK n \in Nat : n = Len(f)
  BY LenProperties
<1>2. ASSUME NEW e \in Nat, a <= e, e <= n
      PROVE  /\ SubSeq(f, a + 1, e) \in Seq(Nat) /\ Len(SubSeq(f, a + 1, e)) = e - a
             /\ \A i \in 1 .. e - a : SubSeq(f, a + 1, e)[i] = f[a + i]
  <2>1. \A i \in a + 1 .. e : f[i] \in Nat
    BY <1>1, <1>2, ElementOfSeq
  <2>2. a + 1 \in Int /\ e \in Int /\ (IF a + 1 <= e THEN e - (a + 1) + 1 ELSE 0) = e - a
        /\ \A i \in Nat : (a + 1) + i - 1 = a + i
    BY <1>2
  <2> QED
    BY <2>1, <2>2, SubSeqProperties
<1>3. SubSeq(f, a + 1, b) \in Seq(Nat)
  BY <1>1, <1>2
<1>4. ASSUME a = b PROVE SubSeq(f, a + 1, b) = <<>>
  <2>1. PICK t : t = SubSeq(f, a + 1, b)
    OBVIOUS
  <2>2. t \in Seq(Nat) /\ Len(t) = 0
    <3>1. Len(t) = b - a /\ t \in Seq(Nat)
      BY <1>1, <1>2, <2>1
    <3> QED
      BY <1>4, <3>1
  <2> QED
    BY <2>1, <2>2, EmptySeq
<1>5. ASSUME b < n PROVE SubSeq(f, a + 1, b + 1) = SubSeq(f, a + 1, b) \o <<f[b + 1]>>
  <2>1. PICK s : s = SubSeq(f, a + 1, b)
    OBVIOUS
  <2>2. PICK t : t = SubSeq(f, a + 1, b + 1)
    OBVIOUS
  <2>3. s \in Seq(Nat) /\ Len(s) = b - a /\ \A i \in 1 .. b - a : s[i] = f[a + i]
    BY <1>1, <1>2, <2>1
  <2>4. t \in Seq(Nat) /\ Len(t) = b + 1 - a /\ \A i \in 1 .. b + 1 - a : t[i] = f[a + i]
    <3>1. b + 1 \in Nat /\ a <= b + 1 /\ b + 1 <= n
      BY <1>1, <1>5
    <3> QED
      BY <1>2, <2>2, <3>1
  <2>5. PICK c \in Nat : c = f[b + 1]
    BY <1>1, <1>5, ElementOfSeq
  <2>6. PICK u : u = s \o <<c>>
    OBVIOUS
  <2>7. u \in Seq(Nat) /\ Len(u) = b + 1 - a /\ u[b + 1 - a] = c /\ \A i \in 1 .. b - a : u[i] = s[i]
    <3>1. PICK x \in Seq(Nat) : x = <<c>>
      BY ShortTexts
    <3>2. Len(x) = 1 /\ x[1] = c
      BY <3>1
    <3>3. u = s \o x
      BY <2>6, <3>1
    <3>4. /\ u \in Seq(Nat) /\ Len(u) = Len(s) + Len(x)
          /\ \A i \in 1 .. Len(s) : u[i] = s[i]
          /\ \A i \in 1 .. Len(x) : u[Len(s) + i] = x[i]
      BY <2>3, <3>3, Joined
    <3>5. u[(b - a) + 1] = c
      BY <2>3, <3>2, <3>4
    <3>6. (b - a) + 1 = b + 1 - a
      OBVIOUS
    <3> QED
      BY <2>3, <3>2, <3>4, <3>5, <3>6
  <2>8. \A i \in 1 .. b + 1 - a : t[i] = u[i]
    <3> SUFFICES ASSUME NEW i \in 1 .. b + 1 - a PROVE t[i] = u[i]
      OBVIOUS
    <3>1. CASE i = b + 1 - a
      <4>1. a + i = b + 1
        BY <3>1
      <4> QED
        BY <2>4, <2>5, <2>7, <3>1, <4>1
    <3>2. CASE i # b + 1 - a
      <4>1. i \in 1 .. b - a
        BY <3>2
      <4> QED
        BY <2>3, <2>4, <2>7, <4>1
    <3> QED
      BY <3>1, <3>2
  <2>9. t = u
    BY <2>4, <2>7, <2>8, SeqEqual
  <2> QED
    BY <2>1, <2>2, <2>5, <2>6, <2>9
<1> QED
  BY <1>1, <1>3, <1>4, <1>5

\* In fetch_prefix: o has been written, the text between a and b has not, and
\* k arguments have been taken in their turn.
InPrefix(j, o, a, b, k) ==
  Entire(j) = After(All(o) \o SubSeq(j.fmt, a + 1, b), Ahead(j, b, k))

\* In parse_format: the field at b has been read up to p and sets s.
InField(j, o, b, p, s, k) ==
  /\ b < Len(j.fmt) /\ j.fmt[b + 1] = Open /\ ~Brace(j.fmt, b) /\ j.args # <<>>
  /\ Entire(j) = After(All(o), Ahead(j, b, k))
  /\ \E done \in Seq(Pairs) :
       /\ s = Settings(done)
       /\ GroupsFrom(j.fmt)[b + 1] = [GroupsFrom(j.fmt)[p + 1] EXCEPT !.groups = done \o @]

\* A call begins with all it means ahead.
LEMMA BeginsAhead ==
  ASSUME NEW j \in Jobs
  PROVE  InPrefix(j, <<>>, 0, 0, 0)
<1>1. PICK z \in Nat : z = 0
  OBVIOUS
<1>2. PICK m \in Meanings : m = Ahead(j, z, z)
  BY AheadFacts
<1>3. SubSeq(j.fmt, z + 1, z) = <<>>
  <2>1. j.fmt \in Seq(Nat) /\ z <= Len(j.fmt)
    BY <1>1, JobText
  <2> QED
    BY <2>1, PieceFacts
<1>4. All(<<>>) = <<>> /\ <<>> \o <<>> = <<>>
  <2>1. <<>> \in Seq(Nat)
    BY EmptySeq
  <2> QED
    BY <2>1, AllOfFew, JoinedToNone
<1>5. Entire(j) = After(All(<<>>) \o SubSeq(j.fmt, z + 1, z), Ahead(j, z, z))
  <2>1. After(<<>>, m) = m
    BY AfterTexts
  <2>2. Entire(j) = m
    BY <1>1, <1>2 DEF Entire
  <2> QED
    BY <1>2, <1>3, <1>4, <2>1, <2>2
<1> QED
  BY <1>1, <1>5 DEF InPrefix

\* A character more.
LEMMA LiteralAhead ==
  ASSUME NEW j \in Jobs, NEW o \in Seq(Calls), NEW a \in Nat, NEW b \in Nat, NEW k \in Nat,
         a <= b, b < Len(j.fmt), j.fmt[b + 1] # Open, ~Brace(j.fmt, b), InPrefix(j, o, a, b, k)
  PROVE  InPrefix(j, o, a, b + 1, k)
<1>1. j.fmt \in Seq(Nat) /\ Len(j.fmt) \in Nat /\ b + 1 \in Nat /\ b <= Len(j.fmt)
  BY JobText
<1>2. PICK c \in Nat : c = j.fmt[b + 1]
  BY <1>1, ElementOfSeq
<1>3. Behind(j.fmt, b) = b + 1
  BY DEF Behind
<1>4. PICK m \in Meanings : m = Ahead(j, b + 1, k)
  BY <1>1, AheadFacts
<1>5. Ahead(j, b, k) = After(<<c>>, m)
  BY <1>2, <1>3, <1>4, AheadFacts
<1>6. PICK s \in Seq(Nat) : s = SubSeq(j.fmt, a + 1, b)
  BY <1>1, PieceFacts
<1>7. SubSeq(j.fmt, a + 1, b + 1) = s \o <<c>>
  BY <1>1, <1>2, <1>6, PieceFacts
<1>8. PICK t \in Seq(Nat) : t = All(o)
  BY AllFacts
<1>9. t \o s \in Seq(Nat) /\ <<c>> \in Seq(Nat)
  BY Joined, ShortTexts
<1>10. After(t \o s, After(<<c>>, m)) = After((t \o s) \o <<c>>, m)
  BY <1>9, AfterTexts
<1>11. (t \o s) \o <<c>> = t \o (s \o <<c>>)
  BY <1>9, JoinedInAnyOrder
<1> QED
  BY <1>4, <1>5, <1>6, <1>7, <1>8, <1>10, <1>11 DEF InPrefix

\* Writing the text between a and b, in one call or, if it is empty, in none.
HandedOver(f, o, a, b) ==
  LET piece == SubSeq(f, a + 1, b)
      calls == IF b = a THEN <<>> ELSE append(piece)
  IN  /\ calls \in Seq(Calls) /\ o \o calls \in Seq(Calls) /\ All(o \o calls) = All(o) \o piece
      /\ append(piece) \in Seq(Calls) /\ o \o append(piece) \in Seq(Calls)
      /\ All(o \o append(piece)) = All(o) \o piece

\* The text that has not been handed over, as a call of the writer or none.
LEMMA PieceHandedOver ==
  ASSUME NEW j \in Jobs, NEW o \in Seq(Calls), NEW a \in Nat, NEW b \in Nat, a <= b, b <= Len(j.fmt)
  PROVE  HandedOver(j.fmt, o, a, b)
<1>1. j.fmt \in Seq(Nat) /\ Len(j.fmt) \in Nat
  BY JobText
<1>2. PICK s \in Seq(Nat) : s = SubSeq(j.fmt, a + 1, b)
  BY <1>1, PieceFacts
<1>3. b = a => s = <<>>
  BY <1>1, <1>2, PieceFacts
<1>4. append(s) \in Seq(Calls) /\ All(append(s)) = s
  BY AppendFacts
<1>5. o \o append(s) \in Seq(Calls) /\ All(o \o append(s)) = All(o) \o s
  BY <1>4, AllFacts
<1>6. <<>> \in Seq(Calls) /\ o \o <<>> \in Seq(Calls) /\ All(o \o <<>>) = All(o) \o <<>>
  BY AllOfFew, AllFacts
<1> QED
  BY <1>2, <1>3, <1>4, <1>5, <1>6 DEF HandedOver

\* A doubled brace is one.
LEMMA EscapeAhead ==
  ASSUME NEW j \in Jobs, NEW o \in Seq(Calls), NEW a \in Nat, NEW b \in Nat, NEW k \in Nat,
         a <= b, b < Len(j.fmt), Brace(j.fmt, b), InPrefix(j, o, a, b, k)
  PROVE  LET calls == append(SubSeq(j.fmt, a + 1, b))
         IN  o \o calls \in Seq(Calls) /\ InPrefix(j, o \o calls, b + 1, b + 2, k)
<1>1. j.fmt \in Seq(Nat) /\ Len(j.fmt) \in Nat /\ b + 1 \in Nat /\ b + 2 \in Nat /\ b <= Len(j.fmt)
  BY JobText
<1>2. PICK c \in Nat : c = j.fmt[b + 1] /\ c = j.fmt[b + 2] /\ b + 1 < Len(j.fmt)
  <2>1. j.fmt[b + 1] \in Nat
    BY <1>1, ElementOfSeq
  <2> QED
    BY <2>1 DEF Brace
<1>3. Behind(j.fmt, b) = b + 2
  BY DEF Behind
<1>4. PICK m \in Meanings : m = Ahead(j, b + 2, k)
  BY <1>1, AheadFacts
<1>5. Ahead(j, b, k) = After(<<c>>, m)
  BY <1>2, <1>3, <1>4, AheadFacts
<1>6. PICK s \in Seq(Nat) : s = SubSeq(j.fmt, a + 1, b)
  BY <1>1, PieceFacts
<1>7. o \o append(s) \in Seq(Calls) /\ All(o \o append(s)) = All(o) \o s
  <2>1. HandedOver(j.fmt, o, a, b)
    BY <1>1, PieceHandedOver
  <2> QED
    BY <1>6, <2>1 DEF HandedOver
<1>8. SubSeq(j.fmt, (b + 1) + 1, b + 2) = <<c>>
  <2>1. PICK e \in Nat : e = b + 1
    BY <1>1
  <2>2. /\ SubSeq(j.fmt, e + 1, e) = <<>>
        /\ SubSeq(j.fmt, e + 1, e + 1) = SubSeq(j.fmt, e + 1, e) \o <<j.fmt[e + 1]>>
    BY <1>1, <1>2, <2>1, PieceFacts
  <2>3. e + 1 = b + 2 /\ <<>> \o <<c>> = <<c>>
    BY <2>1, ShortTexts, JoinedToNone
  <2> QED
    BY <1>2, <2>1, <2>2, <2>3
<1>9. PICK t \in Seq(Nat) : t = All(o)
  BY AllFacts
<1>10. t \o s \in Seq(Nat) /\ <<c>> \in Seq(Nat)
  BY Joined, ShortTexts
<1>11. After(t \o s, After(<<c>>, m)) = After((t \o s) \o <<c>>, m)
  BY <1>10, AfterTexts
<1> QED
  BY <1>4, <1>5, <1>6, <1>7, <1>8, <1>9, <1>11 DEF InPrefix

\* The end of the format string is the end of what is meant.
LEMMA EndAhead ==
  ASSUME NEW j \in Jobs, NEW o \in Seq(Calls), NEW a \in Nat, NEW b \in Nat, NEW k \in Nat,
         a <= b, b = Len(j.fmt), InPrefix(j, o, a, b, k)
  PROVE  Entire(j) = Meant(All(o) \o SubSeq(j.fmt, a + 1, b), "done")
<1>1. Ahead(j, b, k) = Meant(<<>>, "done") /\ j.fmt \in Seq(Nat) /\ b <= Len(j.fmt)
  <2>1. j.fmt \in Seq(Nat) /\ b >= Len(j.fmt) /\ b <= Len(j.fmt)
    BY JobText
  <2> QED
    BY <2>1, AheadFacts
<1>2. PICK s \in Seq(Nat) : s = SubSeq(j.fmt, a + 1, b)
  BY <1>1, PieceFacts
<1>3. All(o) \o s \in Seq(Nat)
  BY AllFacts, Joined
<1>4. PICK m \in Meanings : TRUE
  BY AheadFacts
<1>5. After(All(o) \o s, Meant(<<>>, "done")) = Meant(All(o) \o s, "done")
  BY <1>3, <1>4, AfterTexts
<1> QED
  BY <1>1, <1>2, <1>5 DEF InPrefix

\* Groups before what is parsed.
Put(done, g) == [g EXCEPT !.groups = done \o @]

\* Groups are put before as they are appended one after the other.
LEMMA PutFacts ==
  ASSUME NEW g \in Parses, NEW done \in Seq(Pairs)
  PROVE  /\ Put(done, g) \in Parses
         /\ Put(done, g).kind = g.kind /\ Put(done, g).end = g.end /\ Put(done, g).groups = done \o g.groups
         /\ Put(<<>>, g) = g
         /\ \A x \in Pairs : Put(done, Put(<<x>>, g)) = Put(Append(done, x), g)
<1>1. PICK y \in Kinds \ {"group"}, q \in Seq(Pairs), e \in Nat : g = [kind |-> y, groups |-> q, end |-> e]
  BY DEF Parses
<1>2. ASSUME NEW d \in Seq(Pairs)
      PROVE  Put(d, g) = [kind |-> y, groups |-> d \o q, end |-> e] /\ d \o q \in Seq(Pairs)
  <2>1. PICK h : h = d \o q
    OBVIOUS
  <2>2. Put(d, g) = [g EXCEPT !.groups = h]
    BY <1>1, <2>1 DEF Put
  <2>3. [g EXCEPT !.groups = h] = [kind |-> y, groups |-> h, end |-> e]
    BY ONLY <1>1
  <2> QED
    BY <2>1, <2>2, <2>3, ConcatProperties
<1>3. PICK dq \in Seq(Pairs) : dq = done \o q /\ Put(done, g) = [kind |-> y, groups |-> dq, end |-> e]
  BY <1>2
<1>4. Put(done, g) \in Parses
  BY <1>3 DEF Parses
<1>5. Put(<<>>, g) = g
  <2>1. <<>> \in Seq(Pairs) /\ <<>> \o q = q
    BY ConcatEmptySeq
  <2> QED
    BY <1>1, <1>2, <2>1
<1>6. ASSUME NEW x \in Pairs PROVE Put(done, Put(<<x>>, g)) = Put(Append(done, x), g)
  <2>1. <<x>> \in Seq(Pairs) /\ Append(done, x) \in Seq(Pairs)
    BY AppendProperties
  <2>2. PICK xq \in Seq(Pairs) : xq = <<x>> \o q
    BY <2>1, ConcatProperties
  <2>3. PICK h : h = Put(<<x>>, g)
    OBVIOUS
  <2>4. h = [kind |-> y, groups |-> xq, end |-> e]
    BY <1>2, <2>1, <2>2, <2>3
  <2>5. Put(done, h) = [kind |-> y, groups |-> done \o xq, end |-> e]
    <3>1. PICK t : t = done \o xq
      OBVIOUS
    <3>2. Put(done, h) = [h EXCEPT !.groups = t]
      BY <2>4, <3>1 DEF Put
    <3>3. [h EXCEPT !.groups = t] = [kind |-> y, groups |-> t, end |-> e]
      BY ONLY <2>4
    <3> QED
      BY <3>1, <3>2, <3>3
  <2>6. Put(Append(done, x), g) = [kind |-> y, groups |-> Append(done, x) \o q, end |-> e]
    BY <1>2, <2>1
  <2>7. done \o xq = Append(done, x) \o q
    <3>1. PICK u \in Seq(Pairs) : u = <<x>>
      BY <2>1
    <3>2. Append(done, x) = done \o u
      BY <3>1, AppendIsConcat
    <3>3. (done \o u) \o q = done \o (u \o q)
      BY ConcatAssociative
    <3> QED
      BY <2>2, <3>1, <3>2, <3>3
  <2> QED
    BY <2>3, <2>5, <2>6, <2>7
<1> QED
  BY <1>1, <1>3, <1>4, <1>5, <1>6

\* The parts of a field read so far.
LEMMA PutParts ==
  ASSUME NEW g \in Parses, NEW done \in Seq(Pairs)
  PROVE  Put(done, g).kind = g.kind /\ Put(done, g).end = g.end /\ Put(done, g).groups = done \o g.groups
BY PutFacts

\* What is parsed from p on is what begins there, before what is parsed behind it.
LEMMA ParsedStep ==
  ASSUME NEW f \in Seq(Nat), NEW p \in Nat
  PROVE  /\ GroupsFrom(f)[p] \in Parses
         /\ GroupAt(f, p).kind # "group" =>
              GroupsFrom(f)[p] = [kind |-> GroupAt(f, p).kind, groups |-> <<>>, end |-> GroupAt(f, p).end]
         /\ GroupAt(f, p).kind = "group" =>
              /\ GroupAt(f, p).is \in Pairs /\ GroupAt(f, p).end \in Nat
              /\ GroupsFrom(f)[p] = Put(<<GroupAt(f, p).is>>, GroupsFrom(f)[GroupAt(f, p).end])
<1>1. GroupsFrom(f)[p] \in Parses /\ GroupsFrom(f)[p] = ParsedAt(f, GroupsFrom(f), p)
  BY GroupsExist
<1>2. GroupAt(f, p).kind = "group" => GroupAt(f, p).is \in Pairs /\ GroupAt(f, p).end \in Nat
  BY GroupFacts
<1> QED
  BY <1>1, <1>2 DEF ParsedAt, Put

\* The field at b, read up to p: InField in terms of Put.
LEMMA FieldSoFar ==
  ASSUME NEW j \in Jobs, NEW o, NEW b, NEW p, NEW s, NEW k
  PROVE  InField(j, o, b, p, s, k) <=>
           /\ b < Len(j.fmt) /\ j.fmt[b + 1] = Open /\ ~Brace(j.fmt, b) /\ j.args # <<>>
           /\ Entire(j) = After(All(o), Ahead(j, b, k))
           /\ \E done \in Seq(Pairs) :
                s = Settings(done) /\ GroupsFrom(j.fmt)[b + 1] = Put(done, GroupsFrom(j.fmt)[p + 1])
  BY DEF InField, Put

\* A field begins, or is one too many.
LEMMA EnterAhead ==
  ASSUME NEW j \in Jobs, NEW o \in Seq(Calls), NEW a \in Nat, NEW b \in Nat, NEW k \in Nat,
         a <= b, b < Len(j.fmt), j.fmt[b + 1] = Open, ~Brace(j.fmt, b), InPrefix(j, o, a, b, k),
         NEW e \in Seq(Calls), All(e) = All(o) \o SubSeq(j.fmt, a + 1, b)
  PROVE  /\ j.args = <<>> => Entire(j) = Meant(All(e), "out_of_range")
         /\ j.args # <<>> => InField(j, e, b, b, NoSpec, k)
<1>1. j.fmt \in Seq(Nat) /\ Len(j.fmt) \in Nat /\ b + 1 \in Nat
  BY JobText
<1>2. Entire(j) = After(All(e), Ahead(j, b, k))
  BY DEF InPrefix
<1>3. Ahead(j, b, k) = FieldMeans(j.fmt, b, j.args, k, MeaningFrom(j.fmt, j.args)[Behind(j.fmt, b)])
  BY AheadFacts
<1>4. ASSUME j.args = <<>> PROVE Entire(j) = Meant(All(e), "out_of_range")
  <2>1. Ahead(j, b, k) = Meant(<<>>, "out_of_range")
    BY <1>3, <1>4 DEF FieldMeans
  <2>2. All(e) \in Seq(Nat)
    BY AllFacts
  <2>3. PICK m \in Meanings : TRUE
    BY AheadFacts
  <2> QED
    BY <1>2, <2>1, <2>2, <2>3, AfterTexts
<1>5. ASSUME j.args # <<>> PROVE InField(j, e, b, b, NoSpec, k)
  <2>1. PICK g \in Parses : g = GroupsFrom(j.fmt)[b + 1]
    BY <1>1, ParsedStep
  <2>2. <<>> \in Seq(Pairs)
    BY EmptySeq
  <2>3. g = Put(<<>>, g)
    BY <2>2, PutFacts
  <2> QED
    BY <1>2, <1>5, <2>1, <2>2, <2>3, NoGroups, FieldSoFar
<1> QED
  BY <1>4, <1>5

\* A group more has been read.
LEMMA GroupAhead ==
  ASSUME NEW j \in Jobs, NEW o \in Seq(Calls), NEW b \in Nat, NEW p \in Nat, NEW s, NEW k \in Nat,
         InField(j, o, b, p, s, k), GroupAt(j.fmt, p + 1).kind = "group"
  PROVE  \E done \in Seq(Pairs) :
           s = Settings(done) /\
           InField(j, o, b, GroupAt(j.fmt, p + 1).end - 1,
                   Settings(Append(done, GroupAt(j.fmt, p + 1).is)), k)
<1>1. j.fmt \in Seq(Nat) /\ p + 1 \in Nat
  BY JobText
<1>2. PICK x \in Pairs, e \in Nat : x = GroupAt(j.fmt, p + 1).is /\ e = GroupAt(j.fmt, p + 1).end
  BY <1>1, ParsedStep
<1>3. PICK g \in Parses : g = GroupsFrom(j.fmt)[e]
  BY <1>1, ParsedStep
<1>4. PICK done \in Seq(Pairs) :
        s = Settings(done) /\ GroupsFrom(j.fmt)[b + 1] = Put(done, GroupsFrom(j.fmt)[p + 1])
  BY FieldSoFar
<1>5. GroupsFrom(j.fmt)[p + 1] = Put(<<x>>, g)
  BY <1>1, <1>2, <1>3, ParsedStep
<1>6. GroupsFrom(j.fmt)[b + 1] = Put(Append(done, x), g)
  BY <1>4, <1>5, PutFacts
<1>7. Append(done, x) \in Seq(Pairs) /\ (e - 1) + 1 = e
  BY AppendProperties
<1>8. /\ b < Len(j.fmt) /\ j.fmt[b + 1] = Open /\ ~Brace(j.fmt, b) /\ j.args # <<>>
      /\ Entire(j) = After(All(o), Ahead(j, b, k))
  BY FieldSoFar
<1>9. InField(j, o, b, e - 1, Settings(Append(done, x)), k)
  <2>1. GroupsFrom(j.fmt)[b + 1] = Put(Append(done, x), GroupsFrom(j.fmt)[(e - 1) + 1])
    BY <1>3, <1>6, <1>7
  <2> QED
    BY <1>7, <1>8, <2>1, FieldSoFar
<1> QED
  BY <1>2, <1>4, <1>9

\* How a call ends that could not print an argument.
Unprinted(a) == IF a.type = "ill_formed" THEN "unicode_error" ELSE "aborted"

\* Nothing is printed of a wide text that is no Unicode.
LEMMA NoneOfIllFormed ==
  ASSUME NEW s \in Specs, NEW a \in Args, NEW rest, NEW r, r = format_type(s, a)
  PROVE  /\ a.type = "ill_formed" => ~r.ok /\ r.calls = <<>> /\ All(r.calls) = <<>>
         /\ (IF a.type = "ill_formed" THEN Meant(<<>>, "unicode_error")
             ELSE IF r.ok THEN rest ELSE Meant(All(r.calls), "aborted"))
              = IF r.ok THEN rest ELSE Meant(All(r.calls), Unprinted(a))
<1>1. ASSUME a.type = "ill_formed" PROVE ~r.ok /\ r.calls = <<>> /\ All(r.calls) = <<>>
  <2>1. r = Throws
    BY <1>1, TypeCalls
  <2>2. ~r.ok /\ r.calls = <<>>
    BY <2>1 DEF Throws
  <2> QED
    BY <2>2, AllOfFew
<1> QED
  BY <1>1 DEF Unprinted

\* What is no group ends the field, well or not.
LEMMA FieldEndsAhead ==
  ASSUME NEW j \in Jobs, NEW o \in Seq(Calls), NEW b \in Nat, NEW p \in Nat, NEW s, NEW k \in Nat,
         InField(j, o, b, p, s, k), GroupAt(j.fmt, p + 1).kind # "group"
  PROVE  /\ s \in Specs /\ s.arg_index \in Nat \cup {-1}
         /\ Entire(j) = After(All(o),
              IF GroupAt(j.fmt, p + 1).kind # "field" THEN Meant(<<>>, GroupAt(j.fmt, p + 1).kind)
              ELSE IF Which(s, k) \notin DOMAIN j.args THEN Meant(<<>>, "out_of_range")
              ELSE IF format_type(s, j.args[Which(s, k)]).ok
              THEN After(All(format_type(s, j.args[Which(s, k)]).calls),
                         Ahead(j, GroupAt(j.fmt, p + 1).end, Taken(s, k)))
              ELSE Meant(All(format_type(s, j.args[Which(s, k)]).calls), Unprinted(j.args[Which(s, k)])))
<1>1. j.fmt \in Seq(Nat) /\ p + 1 \in Nat
  BY JobText
<1>2. PICK a : a = GroupAt(j.fmt, p + 1)
  OBVIOUS
<1>3. PICK h \in Parses : h = GroupsFrom(j.fmt)[p + 1]
  BY <1>1, ParsedStep
<1>4. h = [kind |-> a.kind, groups |-> <<>>, end |-> a.end]
  BY <1>1, <1>2, <1>3, ParsedStep
<1>5. PICK done \in Seq(Pairs) : s = Settings(done) /\ GroupsFrom(j.fmt)[b + 1] = Put(done, h)
  BY <1>3, FieldSoFar
<1>6. PICK g : g = GroupsFrom(j.fmt)[b + 1]
  OBVIOUS
<1>7. g.kind = a.kind /\ g.end = a.end /\ g.groups = done
  <2>0. PICK x : x = Put(done, h) /\ x.kind = h.kind /\ x.end = h.end /\ x.groups = done \o h.groups
    BY <1>3, PutParts
  <2>1. g.kind = h.kind /\ g.end = h.end /\ g.groups = done \o h.groups
    BY ONLY <1>5, <1>6, <2>0
  <2>2. done \o <<>> = done
    BY ONLY <1>5, ConcatEmptySeq
  <2>3. h.kind = a.kind /\ h.end = a.end /\ h.groups = <<>>
    BY ONLY <1>4
  <2> QED
    BY ONLY <2>1, <2>2, <2>3
<1>8. s \in Specs /\ s.arg_index \in Nat \cup {-1}
  BY <1>5, SettingsType
<1>9. /\ b < Len(j.fmt) /\ j.fmt[b + 1] = Open /\ ~Brace(j.fmt, b) /\ j.args # <<>>
      /\ Entire(j) = After(All(o), Ahead(j, b, k))
  BY FieldSoFar
<1>10. Behind(j.fmt, b) = a.end
  BY <1>6, <1>7, <1>9 DEF Behind
<1>11. Ahead(j, b, k) = FieldMeans(j.fmt, b, j.args, k, MeaningFrom(j.fmt, j.args)[a.end])
  <2>1. Ahead(j, b, k) = FieldMeans(j.fmt, b, j.args, k, MeaningFrom(j.fmt, j.args)[Behind(j.fmt, b)])
    BY <1>9, AheadFacts
  <2> QED
    BY <1>10, <2>1
<1>12. PICK r : r = format_type(s, j.args[Which(s, k)])
  OBVIOUS
<1>13. FieldMeans(j.fmt, b, j.args, k, MeaningFrom(j.fmt, j.args)[a.end])
         = IF a.kind # "field" THEN Meant(<<>>, a.kind)
           ELSE IF Which(s, k) \notin DOMAIN j.args THEN Meant(<<>>, "out_of_range")
           ELSE IF r.ok THEN After(All(r.calls), Ahead(j, a.end, Taken(s, k)))
           ELSE Meant(All(r.calls), Unprinted(j.args[Which(s, k)]))
  <2>1. PICK t : t = Settings(g.groups)
    OBVIOUS
  <2>2. t = s
    BY <1>5, <1>7, <2>1
  <2>3. PICK rest : rest = After(All(r.calls), Ahead(j, a.end, Taken(s, k)))
    OBVIOUS
  <2>4. PICK w : w = Which(s, k)
    OBVIOUS
  <2>5. PICK u : u = FieldMeans(j.fmt, b, j.args, k, MeaningFrom(j.fmt, j.args)[a.end])
    OBVIOUS
  <2>6. u = IF a.kind # "field" THEN Meant(<<>>, a.kind)
            ELSE IF w \notin DOMAIN j.args THEN Meant(<<>>, "out_of_range")
            ELSE IF j.args[w].type = "ill_formed" THEN Meant(<<>>, "unicode_error")
            ELSE IF r.ok THEN rest ELSE Meant(All(r.calls), "aborted")
    BY <1>6, <1>7, <1>9, <1>12, <2>1, <2>2, <2>3, <2>4, <2>5 DEF FieldMeans, Ahead
  <2>7. ASSUME w \in DOMAIN j.args
        PROVE  (IF j.args[w].type = "ill_formed" THEN Meant(<<>>, "unicode_error")
                ELSE IF r.ok THEN rest ELSE Meant(All(r.calls), "aborted"))
                 = IF r.ok THEN rest ELSE Meant(All(r.calls), Unprinted(j.args[w]))
    <3>1. PICK x \in Args : x = j.args[w]
      <4>1. j.args \in Seq(Args)
        BY JobText
      <4> QED
        BY <2>7, <4>1, LenProperties, ElementOfSeq
    <3>2. r = format_type(s, x)
      BY <1>12, <2>4, <3>1
    <3>3. (IF x.type = "ill_formed" THEN Meant(<<>>, "unicode_error")
           ELSE IF r.ok THEN rest ELSE Meant(All(r.calls), "aborted"))
            = IF r.ok THEN rest ELSE Meant(All(r.calls), Unprinted(x))
      BY <1>8, <3>2, NoneOfIllFormed
    <3> QED
      BY <3>1, <3>3
  <2>8. CASE a.kind # "field" \/ w \notin DOMAIN j.args
    BY <2>3, <2>4, <2>5, <2>6, <2>8
  <2>9. CASE a.kind = "field" /\ w \in DOMAIN j.args
    <3>1. u = IF j.args[w].type = "ill_formed" THEN Meant(<<>>, "unicode_error")
              ELSE IF r.ok THEN rest ELSE Meant(All(r.calls), "aborted")
      BY <2>6, <2>9
    <3>2. u = IF r.ok THEN rest ELSE Meant(All(r.calls), Unprinted(j.args[w]))
      BY <2>7, <2>9, <3>1
    <3> QED
      BY <2>3, <2>4, <2>5, <2>9, <3>2
  <2> QED
    BY <2>8, <2>9
<1> QED
  BY <1>2, <1>8, <1>9, <1>11, <1>12, <1>13

-----------------------------------------------------------------------------
(* Steps of the parser: the literal text. *)

\* What the writer's to_string does of what has been written, for the call
\* to end so.
StringMade ==
  LET text  == All(out)
      taken == job.sink = "format_latin_1" \/ Valid(text)
               \/ job.mode \in {"assume_valid", "substitute_invalid"}
  IN  /\ job.sink \in {"format", "format_latin_1"}
      /\ Entire(job) = Meant(text, "done")
      /\ phase = IF taken THEN "done" ELSE IF job.mode = "check_validity" THEN "thrown" ELSE "aborted"
      /\ phase = "thrown" => error = "unicode_error"
      /\ result = IF ~taken THEN <<>>
                  ELSE IF job.sink = "format_latin_1" THEN FromLatin1(text)
                  ELSE IF job.mode = "substitute_invalid" THEN Cleaned(text)
                  ELSE text

\* A call that has ended: a wide stream may have thrown; else what is meant is
\* written, and a string may have been made of it.
EndsAsMeant ==
  \/ job.sink = "wide" /\ phase = "thrown" /\ error = "unicode_error"
  \/ /\ Entire(job) = Meant(All(out), Outcome) /\ result = <<>>
     /\ Outcome = "done" => job.sink \notin {"format", "format_latin_1"}
  \/ StringMade

\* The part of what is meant that has been done, and that the rest is ahead.
OnCourse ==
  /\ phase \in {"prefix", "spec", "finish"} => out \in Seq(Calls) /\ index \in Nat /\ result = <<>>
  /\ phase = "prefix" => InPrefix(job, out, pos, next, index)
  /\ phase = "spec" => InField(job, out, next, pos, spec, index)
  /\ phase = "finish" => job.sink \in {"format", "format_latin_1"} /\ Entire(job) = Meant(All(out), "done")
  /\ phase \in {"done", "thrown", "aborted"} => EndsAsMeant

CourseInv ==
  /\ phase = "idle" => out = <<>> /\ index = 0 /\ result = <<>>
  /\ phase # "idle" /\ Entire(job).outcome # "odd" => OnCourse

\* A call that is under way, and means something.
UnderWay == FInv /\ OnCourse /\ Entire(job).outcome # "odd"

\* The writer takes the calls, or it is a wide stream that throws.
LEMMA DeliverTakes ==
  ASSUME NEW calls, NEW ph, NEW err, Deliver(calls, ph, err)
  PROVE  \/ out' = out \o calls /\ phase' = ph /\ error' = err
         \/ job.sink = "wide" /\ phase' = "thrown" /\ error' = "unicode_error"
<1>1. CASE Refused(calls) = {}
  BY <1>1 DEF Deliver
<1>2. CASE Refused(calls) # {}
  <2>1. job.sink = "wide"
    BY <1>2 DEF Refused
  <2> QED
    BY <1>2, <2>1 DEF Deliver
<1> QED
  BY <1>1, <1>2

\* A wide stream that throws has ended.
LEMMA WideEnds ==
  ASSUME job' = job, job.sink = "wide", phase' = "thrown", error' = "unicode_error"
  PROVE  OnCourse'
  BY DEF OnCourse, EndsAsMeant

\* In fetch_prefix.
LEMMA PrefixPlace ==
  ASSUME UnderWay, phase = "prefix"
  PROVE  /\ job \in Jobs /\ Len(job.fmt) \in Nat
         /\ pos \in Nat /\ next \in Nat /\ pos <= next /\ next <= Len(job.fmt)
         /\ out \in Seq(Calls) /\ index \in Nat /\ result = <<>> /\ InPrefix(job, out, pos, next, index)
         /\ HandedOver(job.fmt, out, pos, next)
<1>1. /\ job \in Jobs /\ Len(job.fmt) \in Nat
      /\ pos \in Nat /\ next \in Nat /\ pos <= next /\ next <= Len(job.fmt)
      /\ out \in Seq(Calls) /\ index \in Nat /\ result = <<>> /\ InPrefix(job, out, pos, next, index)
  BY AtStep DEF UnderWay, FInv, OnCourse
<1> QED
  BY <1>1, PieceHandedOver

\* A call begins at the place 0.
LEMMA CallCourse ==
  ASSUME FInv, CourseInv, NEW j \in Jobs, Call(j)
  PROVE  CourseInv'
<1>1. /\ phase = "idle" /\ job' = j /\ phase' = "prefix" /\ pos' = 0 /\ next' = 0
      /\ out' = <<>> /\ index' = 0 /\ result' = <<>>
  BY DEF Call, FInv, CourseInv
<1>2. InPrefix(j, <<>>, 0, 0, 0) /\ <<>> \in Seq(Calls) /\ 0 \in Nat
  BY BeginsAhead, AllOfFew
<1> QED
  BY <1>1, <1>2 DEF CourseInv, OnCourse

\* A character of literal text.
LEMMA LiteralCourse ==
  ASSUME UnderWay, Literal
  PROVE  OnCourse'
<1>1. /\ phase = "prefix" /\ Here(next) \notin {NUL, Open} /\ ~Doubled(next) /\ next' = next + 1
      /\ job' = job /\ phase' = phase /\ pos' = pos /\ index' = index /\ out' = out /\ result' = result
  BY DEF Literal
<1>2. /\ job \in Jobs /\ pos \in Nat /\ next \in Nat /\ pos <= next
      /\ out \in Seq(Calls) /\ index \in Nat /\ result = <<>> /\ InPrefix(job, out, pos, next, index)
  BY <1>1, PrefixPlace
<1>3. next < Len(job.fmt) /\ job.fmt[next + 1] # Open /\ ~Brace(job.fmt, next)
  BY <1>1, <1>2, DoubledIs
<1>4. InPrefix(job, out, pos, next + 1, index)
  BY <1>2, <1>3, LiteralAhead
<1> QED
  BY <1>1, <1>2, <1>4 DEF OnCourse

\* A doubled brace.
LEMMA EscapeCourse ==
  ASSUME UnderWay, Escape
  PROVE  OnCourse'
<1> DEFINE calls == append(SubSeq(job.fmt, pos + 1, next))
<1>1. /\ phase = "prefix" /\ Doubled(next) /\ Deliver(calls, "prefix", error)
      /\ pos' = next + 1 /\ next' = next + 2
      /\ job' = job /\ index' = index /\ result' = result
  BY DEF Escape
<1>2. /\ job \in Jobs /\ pos \in Nat /\ next \in Nat /\ pos <= next
      /\ out \in Seq(Calls) /\ index \in Nat /\ result = <<>> /\ InPrefix(job, out, pos, next, index)
  BY <1>1, PrefixPlace
<1>3. next < Len(job.fmt) /\ Brace(job.fmt, next)
  BY <1>1, <1>2, DoubledIs DEF Doubled, Open, Close, NUL
<1>4. out \o calls \in Seq(Calls) /\ InPrefix(job, out \o calls, next + 1, next + 2, index)
  BY <1>2, <1>3, EscapeAhead
<1> HIDE DEF calls
<1>5. CASE job.sink = "wide" /\ phase' = "thrown" /\ error' = "unicode_error"
  BY <1>1, <1>5, WideEnds
<1>6. CASE out' = out \o calls /\ phase' = "prefix"
  BY <1>1, <1>2, <1>4, <1>6 DEF OnCourse
<1> QED
  BY <1>1, <1>5, <1>6, DeliverTakes

\* What is left of the literal text is handed over at a field or at the end.
LEMMA PrefixTaken ==
  ASSUME UnderWay, phase = "prefix"
  PROVE  /\ Prefix \in Seq(Calls) /\ out \o Prefix \in Seq(Calls)
         /\ All(out \o Prefix) = All(out) \o SubSeq(job.fmt, pos + 1, next)
<1>1. HandedOver(job.fmt, out, pos, next)
  BY PrefixPlace
<1> QED
  BY <1>1 DEF HandedOver, Prefix

\* The terminator.
LEMMA ReachCourse ==
  ASSUME UnderWay, Reach
  PROVE  OnCourse'
<1> DEFINE ph == IF job.sink \in {"format", "format_latin_1"} THEN "finish" ELSE "done"
<1>1. /\ phase = "prefix" /\ Here(next) = NUL /\ Deliver(Prefix, ph, error)
      /\ job' = job /\ index' = index /\ result' = result
  BY DEF Reach
<1>2. /\ job \in Jobs /\ Len(job.fmt) \in Nat
      /\ pos \in Nat /\ next \in Nat /\ pos <= next /\ next <= Len(job.fmt)
      /\ out \in Seq(Calls) /\ index \in Nat /\ result = <<>> /\ InPrefix(job, out, pos, next, index)
  BY <1>1, PrefixPlace
<1>3. next = Len(job.fmt)
  BY <1>1, <1>2, DoubledIs
<1>4. Entire(job) = Meant(All(out \o Prefix), "done") /\ out \o Prefix \in Seq(Calls)
  BY <1>1, <1>2, <1>3, EndAhead, PrefixTaken
<1>5. CASE job.sink = "wide" /\ phase' = "thrown" /\ error' = "unicode_error"
  BY <1>1, <1>5, WideEnds
<1>6. CASE out' = out \o Prefix /\ phase' = ph
  <2>1. Entire(job)' = Entire(job)
    BY <1>1 DEF Entire, Ahead
  <2> QED
    BY <1>1, <1>2, <1>4, <1>6, <2>1 DEF OnCourse, EndsAsMeant, Outcome
<1> QED
  BY <1>1, <1>5, <1>6, DeliverTakes

\* A field begins.
LEMMA EnterCourse ==
  ASSUME UnderWay, EnterField
  PROVE  OnCourse'
<1>1. /\ phase = "prefix" /\ Here(next) = Open /\ ~Doubled(next)
      /\ job.args = <<>> => Deliver(Prefix, "thrown", "out_of_range")
      /\ job.args # <<>> => Deliver(Prefix, "spec", error)
      /\ pos' = next /\ spec' = NoSpec
      /\ job' = job /\ next' = next /\ index' = index /\ result' = result
  BY DEF EnterField
<1>2. /\ job \in Jobs /\ pos \in Nat /\ next \in Nat /\ pos <= next
      /\ out \in Seq(Calls) /\ index \in Nat /\ result = <<>> /\ InPrefix(job, out, pos, next, index)
  BY <1>1, PrefixPlace
<1>3. next < Len(job.fmt) /\ job.fmt[next + 1] = Open /\ ~Brace(job.fmt, next)
  BY <1>1, <1>2, DoubledIs DEF Open, NUL
<1>4. PICK e \in Seq(Calls) : e = out \o Prefix /\ All(e) = All(out) \o SubSeq(job.fmt, pos + 1, next)
  BY <1>1, PrefixTaken
<1>5. /\ job.args = <<>> => Entire(job) = Meant(All(e), "out_of_range")
      /\ job.args # <<>> => InField(job, e, next, next, NoSpec, index)
  BY <1>2, <1>3, <1>4, EnterAhead
<1>6. CASE job.sink = "wide" /\ phase' = "thrown" /\ error' = "unicode_error"
  BY <1>1, <1>6, WideEnds
<1>7. CASE job.args = <<>> /\ out' = e /\ phase' = "thrown" /\ error' = "out_of_range"
  BY <1>1, <1>2, <1>5, <1>7 DEF OnCourse, EndsAsMeant, Outcome
<1>8. CASE job.args # <<>> /\ out' = e /\ phase' = "spec"
  BY <1>1, <1>2, <1>5, <1>8 DEF OnCourse
<1> QED
  BY <1>1, <1>4, <1>6, <1>7, <1>8, DeliverTakes

-----------------------------------------------------------------------------
(* Steps of the parser: the groups of a field. *)

\* What begins at a place of a field, by the characters the parser sees.
LEMMA GroupSeen ==
  ASSUME job \in Jobs, NEW q \in Nat
  PROVE  /\ Here(q) = Close => GroupAt(job.fmt, q) = Begins("field", <<>>, q + 1)
         /\ Here(q) = Under /\ Here(q + 1) # NUL =>
              GroupAt(job.fmt, q) = Begins("group", <<Under, Here(q + 1)>>, q + 2)
         /\ Here(q) \in {Under, Dot, Amp} /\ Here(q + 1) = NUL => GroupAt(job.fmt, q).kind = "bad_format"
         /\ Here(q) \in {Dot, Amp} /\ Here(q + 1) # NUL => GroupAt(job.fmt, q) = Numbered(job.fmt, q + 1, Here(q))
         /\ Here(q) \in 49 .. 57 => GroupAt(job.fmt, q) = Numbered(job.fmt, q, 49)
         /\ Here(q) \in Flags => GroupAt(job.fmt, q) = Begins("group", <<Here(q), 0>>, q + 1)
         /\ Here(q) \notin Flags \cup 49 .. 57 \cup {Close, Under, Dot, Amp} =>
              GroupAt(job.fmt, q).kind = "bad_format"
<1>1. PICK f : f = job.fmt
  OBVIOUS
<1>2. PICK n \in Nat : n = Len(f)
  BY <1>1, Format
<1>3. PICK d : d = Here(q + 1)
  OBVIOUS
<1>4. /\ q + 1 < n <=> d # NUL
      /\ q + 1 < n => d = f[q + 2]
  <2>1. q + 1 \in Nat /\ (q + 1) + 1 = q + 2
    OBVIOUS
  <2> QED
    BY <1>1, <1>2, <1>3, <2>1, DoubledIs
<1>5. PICK c : c = Here(q)
  OBVIOUS
<1>6. /\ q < n <=> c # NUL
      /\ q < n => c = f[q + 1]
  BY <1>1, <1>2, <1>5, DoubledIs
<1>7. CASE c = NUL
  <2>1. q >= n
    BY <1>2, <1>6, <1>7
  <2>2. GroupAt(f, q) = Begins("bad_format", <<>>, q + 1)
    BY <1>2, <2>1 DEF GroupAt
  <2>3. c \notin {Close, Under, Dot, Amp} /\ c \notin 49 .. 57 /\ c \notin Flags
    BY <1>7 DEF NUL, Close, Under, Dot, Amp, Flags
  <2> QED
    BY <1>1, <1>5, <2>2, <2>3 DEF Begins
<1>8. CASE c # NUL
  <2>1. PICK u : u = Numbered(f, q + 1, c)
    OBVIOUS
  <2>2. PICK v : v = Numbered(f, q, 49)
    OBVIOUS
  <2>3. PICK g : g = GroupAt(f, q)
    OBVIOUS
  <2>4. PICK t : t = <<>>
    OBVIOUS
  <2>5. g = IF c = Close THEN Begins("field", t, q + 1)
            ELSE IF c \in {Under, Dot, Amp} /\ q + 1 = n THEN Begins("bad_format", t, q + 1)
            ELSE IF c = Under THEN Begins("group", <<Under, f[q + 2]>>, q + 2)
            ELSE IF c \in {Dot, Amp} THEN u
            ELSE IF c \in Digit \ {Zero} THEN v
            ELSE IF c \in Single THEN Begins("group", <<c, 0>>, q + 1)
            ELSE Begins("bad_format", t, q + 1)
    <3>1. ~(q >= n)
      BY <1>2, <1>6, <1>8
    <3> QED
      BY <1>2, <1>6, <1>8, <2>1, <2>2, <2>3, <2>4, <3>1 DEF GroupAt
  <2>6. d = NUL <=> q + 1 = n
    BY <1>2, <1>4, <1>6, <1>8
  <2>7. d # NUL => d = f[q + 2]
    BY <1>4
  <2>8. PICK b1, b2 : b1 = Begins("field", t, q + 1) /\ b2 = Begins("bad_format", t, q + 1)
    OBVIOUS
  <2>14. b2.kind = "bad_format"
    BY <2>8 DEF Begins
  <2>9. PICK b3, b4 : b3 = Begins("group", <<Under, f[q + 2]>>, q + 2) /\ b4 = Begins("group", <<c, 0>>, q + 1)
    OBVIOUS
  <2>10. /\ Close = 125 /\ Under = 95 /\ Dot = 46 /\ Amp = 38 /\ Zero = 48
         /\ Single = {60, 62, 48, 35, 120, 88, 43, 100, 111, 98, 99, 102, 101, 69} /\ Flags = Single /\ Digit = 48 .. 57
    BY DEF Close, Under, Dot, Amp, Zero, Single, Flags, Digit
  <2>11. g = IF c = Close THEN b1
            ELSE IF c \in {Under, Dot, Amp} /\ d = NUL THEN b2
            ELSE IF c = Under THEN b3
            ELSE IF c \in {Dot, Amp} THEN u
            ELSE IF c \in Digit \ {Zero} THEN v
            ELSE IF c \in Single THEN b4
            ELSE b2
    BY <2>5, <2>6, <2>8, <2>9
  <2>12. /\ c = Close => g = b1
         /\ c = Under /\ d # NUL => g = b3
         /\ c \in {Under, Dot, Amp} /\ d = NUL => g = b2
         /\ c \in {Dot, Amp} /\ d # NUL => g = u
         /\ c \in 49 .. 57 => g = v
         /\ c \in Flags => g = b4
         /\ c \notin Flags \cup 49 .. 57 \cup {Close, Under, Dot, Amp} => g = b2
    BY ONLY <2>10, <2>11
  <2>13. c = Under /\ d # NUL => b3 = Begins("group", <<Under, d>>, q + 2)
    BY <2>7, <2>9
  <2> QED
    BY <1>1, <1>3, <1>5, <2>1, <2>2, <2>3, <2>4, <2>8, <2>9, <2>12, <2>13, <2>14
<1> QED
  BY <1>7, <1>8

\* A number that is not odd is the one strtol reads.
LEMMA NumberedSeen ==
  ASSUME job \in Jobs, NEW p \in 0 .. Len(job.fmt), NEW key \in Nat, Numbered(job.fmt, p, key).kind # "odd"
  PROVE  /\ AsInt(strtol(p).value) \in Nat
         /\ Numbered(job.fmt, p, key) = Begins("group", <<key, AsInt(strtol(p).value)>>, strtol(p).end)
<1>1. PICK f \in Seq(Nat) : f = job.fmt
  BY FormatText
<1>2. PICK e, v : e = NumberEnd(f, p) /\ v = NumberAt(f, p) /\ v \in Nat
  BY <1>1, NumberValue
<1>3. Numbered(f, p, key) = IF e = p \/ v >= IntMod \div 2 THEN Begins("odd", <<>>, e + 1)
                            ELSE Begins("group", <<key, v>>, e)
  BY <1>2 DEF Numbered
<1>4. ~(e = p \/ v >= IntMod \div 2)
  BY <1>1, <1>3 DEF Begins
<1>5. PICK n \in Nat : n = Len(f)
  BY <1>1, Format
<1>6. e \in p .. n /\ \A q \in p .. e - 1 : f[q + 1] \in Digit
  BY <1>1, <1>2, <1>5, NumberFacts
<1>7. p < n /\ f[p + 1] \in Digit
  <2>1. e > p /\ p \in p .. e - 1 /\ p < n
    BY <1>1, <1>4, <1>5, <1>6
  <2> QED
    BY <1>6, <2>1
<1>8. Here(p) \in Digit
  BY <1>1, <1>5, <1>7 DEF Here
<1>9. v < IntMod \div 2
  <2>1. PICK h \in Nat : h = IntMod \div 2
    <3>1. PICK m \in Nat : m = IntMod
      BY IntAssumption
    <3>2. m \div 2 \in Nat
      OBVIOUS
    <3> QED
      BY <3>1, <3>2
  <2> QED
    BY <1>2, <1>4, <2>1
<1>10. strtol(p).end = e /\ AsInt(strtol(p).value) = v
  BY <1>1, <1>2, <1>8, <1>9, StrtolReads
<1> QED
  BY <1>1, <1>2, <1>3, <1>4, <1>10

\* In parse_format.
LEMMA SpecPlace ==
  ASSUME UnderWay, phase = "spec"
  PROVE  /\ job \in Jobs /\ Len(job.fmt) \in Nat /\ pos \in Nat /\ next \in Nat /\ pos < Len(job.fmt)
         /\ out \in Seq(Calls) /\ index \in Nat /\ result = <<>> /\ InField(job, out, next, pos, spec, index)
         /\ GroupAt(job.fmt, pos + 1).kind # "odd"
<1>1. /\ job \in Jobs /\ Len(job.fmt) \in Nat /\ pos \in Nat /\ next \in Nat /\ pos < Len(job.fmt)
      /\ out \in Seq(Calls) /\ index \in Nat /\ result = <<>> /\ InField(job, out, next, pos, spec, index)
  BY AtStep DEF UnderWay, FInv, OnCourse
<1>2. ASSUME GroupAt(job.fmt, pos + 1).kind = "odd" PROVE FALSE
  <2>1. PICK a : a = GroupAt(job.fmt, pos + 1)
    OBVIOUS
  <2>2. Entire(job) = After(All(out), Meant(<<>>, "odd"))
    BY <1>1, <1>2, <2>1, FieldEndsAhead
  <2>3. Entire(job).outcome = "odd"
    BY <2>2 DEF After, Meant
  <2> QED
    BY <2>3 DEF UnderWay
<1> QED
  BY <1>1, <1>2

\* A group that has been read.
LEMMA GroupCourse ==
  ASSUME UnderWay, phase = "spec", NEW k, NEW v, NEW e \in Nat,
         GroupAt(job.fmt, pos + 1) = Begins("group", <<k, v>>, e),
         \A done \in Seq(Pairs) : spec = Settings(done) => spec' = Settings(Append(done, <<k, v>>)),
         phase' = "spec", pos' = e - 1,
         job' = job, next' = next, index' = index, out' = out, result' = result
  PROVE  OnCourse'
<1>1. /\ job \in Jobs /\ pos \in Nat /\ next \in Nat
      /\ out \in Seq(Calls) /\ index \in Nat /\ result = <<>> /\ InField(job, out, next, pos, spec, index)
  BY SpecPlace
<1>2. PICK a : a = GroupAt(job.fmt, pos + 1)
  OBVIOUS
<1>3. a.kind = "group" /\ a.is = <<k, v>> /\ a.end = e
  BY <1>2 DEF Begins
<1>4. PICK done \in Seq(Pairs) :
        spec = Settings(done) /\ InField(job, out, next, a.end - 1, Settings(Append(done, a.is)), index)
  BY <1>1, <1>2, <1>3, GroupAhead
<1>5. InField(job, out, next, e - 1, spec', index)
  BY <1>3, <1>4
<1> QED
  BY <1>1, <1>5 DEF OnCourse

\* A field that is malformed.
LEMMA FailCourse ==
  ASSUME UnderWay, phase = "spec", GroupAt(job.fmt, pos + 1).kind = "bad_format",
         phase' = "thrown", error' = "bad_format",
         job' = job, out' = out, result' = result
  PROVE  OnCourse'
<1>1. /\ job \in Jobs /\ pos \in Nat /\ next \in Nat
      /\ out \in Seq(Calls) /\ index \in Nat /\ result = <<>> /\ InField(job, out, next, pos, spec, index)
  BY SpecPlace
<1>2. Entire(job) = After(All(out), Meant(<<>>, "bad_format"))
  BY <1>1, FieldEndsAhead
<1>3. Entire(job) = Meant(All(out), "bad_format")
  <2>1. PICK m \in Meanings : TRUE
    BY <1>1, AheadFacts
  <2>2. All(out) \in Seq(Nat)
    BY <1>1, AllFacts
  <2> QED
    BY <1>2, <2>1, <2>2, AfterTexts
<1> QED
  BY <1>1, <1>3 DEF OnCourse, EndsAsMeant, Outcome

\* A flag of one character.
LEMMA FlagCourse ==
  ASSUME UnderWay, Flag
  PROVE  OnCourse'
<1>1. /\ phase = "spec" /\ Group \in Flags /\ spec' = WithFlag(spec, Group) /\ pos' = pos + 1
      /\ job' = job /\ phase' = phase /\ next' = next /\ index' = index /\ out' = out /\ result' = result
  BY DEF Flag
<1>2. job \in Jobs /\ pos \in Nat
  BY <1>1, SpecPlace
<1>3. PICK q \in Nat, e \in Nat : q = pos + 1 /\ e = q + 1 /\ pos' = e - 1
  BY <1>1, <1>2
<1>4. PICK c \in Flags : c = Here(q) /\ Group = c
  BY <1>1, <1>3 DEF Group
<1>5. GroupAt(job.fmt, pos + 1) = Begins("group", <<c, 0>>, e)
  BY <1>2, <1>3, <1>4, GroupSeen
<1>6. \A done \in Seq(Pairs) : spec = Settings(done) => spec' = Settings(Append(done, <<c, 0>>))
  BY <1>1, <1>4, FlagSets
<1> QED
  BY <1>1, <1>3, <1>5, <1>6, GroupCourse

\* The character to pad with.
LEMMA PadCourse ==
  ASSUME UnderWay, PadGroup
  PROVE  OnCourse'
<1>1. /\ phase = "spec" /\ Group = Under
      /\ spec' = [spec EXCEPT !.pad = Here(pos + 2), !.numeric_pad = FALSE]
      /\ Here(pos + 2) = NUL => phase' = "thrown" /\ error' = "bad_format" /\ out' = out
      /\ Here(pos + 2) # NUL => pos' = pos + 2 /\ phase' = phase /\ out' = out
      /\ job' = job /\ next' = next /\ index' = index /\ result' = result
  BY DEF PadGroup, Fail
<1>2. job \in Jobs /\ pos \in Nat
  BY <1>1, SpecPlace
<1>3. PICK q \in Nat, e \in Nat : q = pos + 1 /\ q + 1 = pos + 2 /\ e = q + 2 /\ pos + 2 = e - 1
  BY <1>2
<1>4. Here(q) = Under
  BY <1>1, <1>3 DEF Group
<1>5. CASE Here(q + 1) = NUL
  <2>1. GroupAt(job.fmt, q).kind = "bad_format"
    BY <1>2, <1>4, <1>5, GroupSeen
  <2> QED
    BY <1>1, <1>3, <1>5, <2>1, FailCourse
<1>6. CASE Here(q + 1) # NUL
  <2>1. PICK v \in Nat : v = Here(q + 1)
    <3>1. q + 1 < Len(job.fmt) /\ Here(q + 1) = job.fmt[(q + 1) + 1]
      BY <1>2, <1>6, DoubledIs
    <3>2. job.fmt \in Seq(Nat) /\ Len(job.fmt) \in Nat
      BY <1>2, JobText
    <3> QED
      BY <3>1, <3>2, ElementOfSeq
  <2>2. GroupAt(job.fmt, pos + 1) = Begins("group", <<Under, v>>, e)
    BY <1>2, <1>3, <1>4, <1>6, <2>1, GroupSeen
  <2>3. spec' = [spec EXCEPT !.pad = v, !.numeric_pad = FALSE]
    BY <1>1, <1>3, <2>1
  <2>4. \A done \in Seq(Pairs) : spec = Settings(done) => spec' = Settings(Append(done, <<Under, v>>))
    <3> SUFFICES ASSUME NEW done \in Seq(Pairs), spec = Settings(done)
                 PROVE  spec' = Settings(Append(done, <<Under, v>>))
      OBVIOUS
    <3>1. Settings(Append(done, <<Under, v>>)) = [Settings(done) EXCEPT !.pad = v, !.numeric_pad = FALSE]
      BY GroupSets
    <3> QED
      BY <2>3, <3>1
  <2> QED
    BY <1>1, <1>3, <1>6, <2>2, <2>4, GroupCourse
<1> QED
  BY <1>5, <1>6

\* A minimum length.
LEMMA WidthCourse ==
  ASSUME UnderWay, Width
  PROVE  OnCourse'
<1>1. /\ phase = "spec" /\ Group \in 49 .. 57
      /\ spec' = [spec EXCEPT !.minimum_length = AsInt(strtol(pos + 1).value)]
      /\ pos' = strtol(pos + 1).end - 1
      /\ job' = job /\ phase' = phase /\ next' = next /\ index' = index /\ out' = out /\ result' = result
  BY DEF Width
<1>2. job \in Jobs /\ pos \in Nat /\ Len(job.fmt) \in Nat /\ pos < Len(job.fmt)
  BY <1>1, SpecPlace
<1>3. PICK q : q = pos + 1
  OBVIOUS
<1>4. q \in 0 .. Len(job.fmt) /\ q \in Nat /\ Here(q) \in 49 .. 57
  BY <1>1, <1>2, <1>3 DEF Group
<1>5. GroupAt(job.fmt, q) = Numbered(job.fmt, q, 49)
  BY <1>2, <1>4, GroupSeen
<1>6. Numbered(job.fmt, q, 49).kind # "odd"
  BY <1>1, <1>3, <1>5, SpecPlace
<1>7. PICK v \in Nat, e \in Nat : v = AsInt(strtol(q).value) /\ e = strtol(q).end
  <2>1. AsInt(strtol(q).value) \in Nat
    BY <1>2, <1>4, <1>6, NumberedSeen
  <2>2. strtol(q).end \in Nat
    BY <1>2, <1>4, StrtolFacts
  <2> QED
    BY <2>1, <2>2
<1>8. GroupAt(job.fmt, pos + 1) = Begins("group", <<49, v>>, e)
  BY <1>2, <1>3, <1>4, <1>5, <1>6, <1>7, NumberedSeen
<1>9. \A done \in Seq(Pairs) : spec = Settings(done) => spec' = Settings(Append(done, <<49, v>>))
  <2> SUFFICES ASSUME NEW done \in Seq(Pairs), spec = Settings(done)
               PROVE  spec' = Settings(Append(done, <<49, v>>))
    OBVIOUS
  <2>1. Settings(Append(done, <<49, v>>)) = [Settings(done) EXCEPT !.minimum_length = v]
    BY GroupSets
  <2> QED
    BY <1>1, <1>3, <1>7, <2>1
<1> QED
  BY <1>1, <1>3, <1>7, <1>8, <1>9, GroupCourse

\* A precision or the number of an argument.
LEMMA NumberCourse ==
  ASSUME UnderWay, NumberGroup
  PROVE  OnCourse'
<1>1. /\ phase = "spec" /\ Group \in {Dot, Amp}
      /\ Here(pos + 2) = NUL => phase' = "thrown" /\ error' = "bad_format" /\ out' = out
      /\ Here(pos + 2) # NUL =>
           /\ spec' = IF Group = Dot THEN [spec EXCEPT !.precision = AsInt(strtol(pos + 2).value)]
                      ELSE [spec EXCEPT !.arg_index = AsInt(strtol(pos + 2).value)]
           /\ pos' = strtol(pos + 2).end - 1
           /\ phase' = phase /\ out' = out
      /\ job' = job /\ next' = next /\ index' = index /\ result' = result
  BY DEF NumberGroup, Fail, Before
<1>2. job \in Jobs /\ pos \in Nat /\ Len(job.fmt) \in Nat /\ pos < Len(job.fmt)
  BY <1>1, SpecPlace
<1>3. PICK q \in Nat, r \in Nat : q = pos + 1 /\ q + 1 = pos + 2 /\ r = pos + 2
  BY <1>2
<1>4. PICK c : c = Here(q) /\ Group = c /\ c \in {Dot, Amp}
  BY <1>1, <1>3 DEF Group
<1>5. CASE Here(r) = NUL
  <2>1. GroupAt(job.fmt, q).kind = "bad_format"
    BY <1>2, <1>3, <1>4, <1>5, GroupSeen
  <2> QED
    BY <1>1, <1>3, <1>5, <2>1, FailCourse
<1>6. CASE Here(r) # NUL
  <2>1. r \in 0 .. Len(job.fmt)
    <3>1. r < Len(job.fmt)
      BY <1>2, <1>6, DoubledIs
    <3> QED
      BY <1>2, <3>1
  <2>2. GroupAt(job.fmt, q) = Numbered(job.fmt, r, c)
    BY <1>2, <1>3, <1>4, <1>6, GroupSeen
  <2>3. Numbered(job.fmt, r, c).kind # "odd" /\ c \in Nat
    BY <1>1, <1>3, <1>4, <2>2, SpecPlace DEF Dot, Amp
  <2>4. PICK v \in Nat, e \in Nat : v = AsInt(strtol(r).value) /\ e = strtol(r).end
    <3>1. AsInt(strtol(r).value) \in Nat
      BY <1>2, <2>1, <2>3, NumberedSeen
    <3>2. strtol(r).end \in Nat
      BY <1>2, <2>1, StrtolFacts
    <3> QED
      BY <3>1, <3>2
  <2>5. GroupAt(job.fmt, pos + 1) = Begins("group", <<c, v>>, e)
    BY <1>2, <1>3, <2>1, <2>2, <2>3, <2>4, NumberedSeen
  <2>6. \A done \in Seq(Pairs) : spec = Settings(done) => spec' = Settings(Append(done, <<c, v>>))
    <3>1. CASE c = Dot
      <4>1. spec' = [spec EXCEPT !.precision = v]
        BY <1>1, <1>3, <1>4, <1>6, <2>4, <3>1
      <4> QED
        <5> SUFFICES ASSUME NEW done \in Seq(Pairs), spec = Settings(done)
                     PROVE  spec' = Settings(Append(done, <<c, v>>))
          OBVIOUS
        <5>1. Settings(Append(done, <<Dot, v>>)) = [Settings(done) EXCEPT !.precision = v]
          BY GroupSets
        <5> QED
          BY <3>1, <4>1, <5>1
    <3>2. CASE c = Amp
      <4>1. spec' = [spec EXCEPT !.arg_index = v]
        BY <1>1, <1>3, <1>4, <1>6, <2>4, <3>2 DEF Dot, Amp
      <4> QED
        <5> SUFFICES ASSUME NEW done \in Seq(Pairs), spec = Settings(done)
                     PROVE  spec' = Settings(Append(done, <<c, v>>))
          OBVIOUS
        <5>1. Settings(Append(done, <<Amp, v>>)) = [Settings(done) EXCEPT !.arg_index = v]
          BY GroupSets
        <5> QED
          BY <3>2, <4>1, <5>1
    <3> QED
      BY <1>4, <3>1, <3>2
  <2> QED
    BY <1>1, <1>3, <1>6, <2>4, <2>5, <2>6, GroupCourse
<1> QED
  BY <1>5, <1>6

\* A group that is none.
LEMMA BadCourse ==
  ASSUME UnderWay, BadGroup
  PROVE  OnCourse'
<1>1. /\ phase = "spec" /\ Group \notin Flags \cup 49 .. 57 \cup {Close, Under, Dot, Amp}
      /\ phase' = "thrown" /\ error' = "bad_format" /\ out' = out
      /\ job' = job /\ result' = result
  BY DEF BadGroup, Fail
<1>2. job \in Jobs /\ pos \in Nat
  BY <1>1, SpecPlace
<1>3. PICK q \in Nat : q = pos + 1
  BY <1>2
<1>4. GroupAt(job.fmt, q).kind = "bad_format"
  BY <1>1, <1>2, <1>3, GroupSeen DEF Group
<1> QED
  BY <1>1, <1>3, <1>4, FailCourse

\* The end of a field: its argument is printed, or it asks for one that is not
\* there, or for a wide text that is no Unicode.
LEMMA ApplyCourse ==
  ASSUME UnderWay, Apply
  PROVE  OnCourse'
<1>1. /\ phase = "spec" /\ Group = Close
      /\ index' = IF spec.arg_index >= 0 THEN index ELSE index + 1
      /\ Wanted \notin 0 .. Len(job.args) - 1 => phase' = "thrown" /\ error' = "out_of_range" /\ out' = out
      /\ Wanted \in 0 .. Len(job.args) - 1 =>
           IF job.args[Wanted + 1].type = "ill_formed"
           THEN phase' = "thrown" /\ error' = "unicode_error" /\ out' = out
           ELSE Deliver(format_type(spec, job.args[Wanted + 1]).calls,
                        IF format_type(spec, job.args[Wanted + 1]).ok THEN "prefix" ELSE "aborted", error)
      /\ pos' = pos + 2 /\ next' = pos + 2
      /\ job' = job /\ result' = result
  BY DEF Apply, Fail
<1>2. /\ job \in Jobs /\ pos \in Nat /\ next \in Nat /\ Len(job.fmt) \in Nat /\ pos < Len(job.fmt)
      /\ out \in Seq(Calls) /\ index \in Nat /\ result = <<>> /\ InField(job, out, next, pos, spec, index)
  BY <1>1, SpecPlace
<1>3. PICK q \in Nat, e \in Nat : q = pos + 1 /\ e = pos + 2 /\ q + 1 = e
  BY <1>2
<1>4. PICK g : g = GroupAt(job.fmt, pos + 1)
  OBVIOUS
<1>5. g.kind = "field" /\ g.end = e
  <2>1. GroupAt(job.fmt, q) = Begins("field", <<>>, q + 1)
    BY <1>1, <1>2, <1>3, GroupSeen DEF Group
  <2> QED
    BY <1>3, <1>4, <2>1 DEF Begins
<1>6. PICK w : w = Which(spec, index)
  OBVIOUS
<1>7. PICK r : r = format_type(spec, job.args[w])
  OBVIOUS
<1>8. /\ spec \in Specs /\ spec.arg_index \in Nat \cup {-1}
      /\ Entire(job) = After(All(out),
              IF w \notin DOMAIN job.args THEN Meant(<<>>, "out_of_range")
              ELSE IF r.ok THEN After(All(r.calls), Ahead(job, e, Taken(spec, index)))
              ELSE Meant(All(r.calls), Unprinted(job.args[w])))
  <2>1. g.kind # "group" /\ ~(g.kind # "field")
    BY <1>5
  <2> QED
    BY <1>2, <1>4, <1>5, <1>6, <1>7, <2>1, FieldEndsAhead
<1>9. w = Wanted + 1 /\ w \in Int /\ Wanted \in Int /\ Taken(spec, index) = index' /\ index' \in Nat
  <2>1. CASE spec.arg_index = -1
    <3>1. ~(spec.arg_index >= 0)
      BY <2>1
    <3> QED
      BY <1>1, <1>2, <1>6, <2>1, <3>1 DEF Which, Wanted, Taken
  <2>2. CASE spec.arg_index # -1
    <3>1. spec.arg_index \in Nat /\ spec.arg_index >= 0
      BY <1>8, <2>2
    <3>2. w = spec.arg_index /\ Wanted = spec.arg_index - 1 /\ Taken(spec, index) = index /\ index' = index
      BY <1>1, <1>6, <2>2, <3>1 DEF Which, Wanted, Taken
    <3> QED
      BY <1>2, <3>1, <3>2
  <2> QED
    BY <2>1, <2>2
<1>10. Wanted \in 0 .. Len(job.args) - 1 <=> w \in DOMAIN job.args
  <2>1. job.args \in Seq(Args)
    BY <1>2, JobText
  <2>2. DOMAIN job.args = 1 .. Len(job.args) /\ Len(job.args) \in Nat
    BY <2>1, LenProperties
  <2>3. PICK n \in Nat : n = Len(job.args)
    BY <2>2
  <2> QED
    BY <1>9, <2>2, <2>3
<1>11. All(out) \in Seq(Nat)
  BY <1>2, AllFacts
<1>12. CASE w \notin DOMAIN job.args
  <2>1. phase' = "thrown" /\ error' = "out_of_range" /\ out' = out
    BY <1>1, <1>10, <1>12
  <2>2. Entire(job) = After(All(out), Meant(<<>>, "out_of_range"))
    BY <1>8, <1>12
  <2>3. Entire(job) = Meant(All(out), "out_of_range")
    <3>1. PICK m \in Meanings : TRUE
      BY <1>2, AheadFacts
    <3> QED
      BY <1>11, <2>2, <3>1, AfterTexts
  <2> QED
    BY <1>1, <1>2, <2>1, <2>3 DEF OnCourse, EndsAsMeant, Outcome
<1>13. ASSUME w \in DOMAIN job.args PROVE job.args[w] \in Args
  <2>1. job.args \in Seq(Args)
    BY <1>2, JobText
  <2> QED
    BY <1>13, <2>1, LenProperties, ElementOfSeq
<1>14. CASE w \in DOMAIN job.args /\ job.args[w].type = "ill_formed"
  <2>1. phase' = "thrown" /\ error' = "unicode_error" /\ out' = out
    BY <1>1, <1>9, <1>10, <1>14
  <2>2. ~r.ok /\ All(r.calls) = <<>> /\ Unprinted(job.args[w]) = "unicode_error"
    BY <1>7, <1>8, <1>13, <1>14, NoneOfIllFormed DEF Unprinted
  <2>3. Entire(job) = After(All(out), Meant(<<>>, "unicode_error"))
    BY <1>8, <1>14, <2>2
  <2>4. Entire(job) = Meant(All(out), "unicode_error")
    <3>1. PICK m \in Meanings : TRUE
      BY <1>2, AheadFacts
    <3> QED
      BY <1>11, <2>3, <3>1, AfterTexts
  <2> QED
    BY <1>1, <1>2, <2>1, <2>4 DEF OnCourse, EndsAsMeant, Outcome
<1>15. CASE w \in DOMAIN job.args /\ job.args[w].type # "ill_formed"
  <2>1. Deliver(r.calls, IF r.ok THEN "prefix" ELSE "aborted", error)
    BY <1>1, <1>7, <1>9, <1>10, <1>15
  <2>2. r.calls \in Seq(Calls)
    <3>2. r \in Printings
      BY <1>7, <1>8, <1>15, <1>13, PrintedFacts
    <3> QED
      BY <3>2 DEF Printings
  <2>3. PICK o \in Seq(Calls) : o = out \o r.calls /\ All(o) = All(out) \o All(r.calls)
    BY <1>2, <2>2, AllFacts
  <2>4. All(r.calls) \in Seq(Nat)
    BY <2>2, AllFacts
  <2>5. CASE job.sink = "wide" /\ phase' = "thrown" /\ error' = "unicode_error"
    BY <1>1, <2>5, WideEnds
  <2>6. CASE r.ok /\ out' = o /\ phase' = "prefix"
    <3>1. PICK m \in Meanings : m = Ahead(job, e, index')
      BY <1>2, <1>9, AheadFacts
    <3>2. Entire(job) = After(All(out), After(All(r.calls), m))
      BY <1>8, <1>9, <1>15, <2>6, <3>1
    <3>3. Entire(job) = After(All(o), m)
      BY <1>11, <2>3, <2>4, <3>2, AfterTexts
    <3>4. SubSeq(job.fmt, e + 1, e) = <<>>
      <4>1. e <= Len(job.fmt) /\ job.fmt \in Seq(Nat)
        <5>1. Here(q) # NUL
          BY <1>1, <1>3 DEF Group, Close, NUL
        <5>2. q < Len(job.fmt)
          BY <1>2, <5>1, DoubledIs
        <5> QED
          BY <1>2, <1>3, <5>2, JobText
      <4> QED
        BY <4>1, PieceFacts
    <3>5. All(o) \o <<>> = All(o)
      <4>1. All(o) \in Seq(Nat)
        BY AllFacts
      <4> QED
        BY <4>1, JoinedToNone
    <3>6. InPrefix(job, o, e, e, index')
      BY <3>1, <3>3, <3>4, <3>5 DEF InPrefix
    <3> QED
      BY <1>1, <1>2, <1>3, <1>9, <2>6, <3>6 DEF OnCourse
  <2>7. CASE ~r.ok /\ out' = o /\ phase' = "aborted"
    <3>1. Entire(job) = After(All(out), Meant(All(r.calls), "aborted"))
      BY <1>8, <1>15, <2>7 DEF Unprinted
    <3>2. Entire(job) = Meant(All(o), "aborted")
      BY <2>3, <3>1 DEF After, Meant
    <3> QED
      BY <1>1, <1>2, <2>7, <3>2 DEF OnCourse, EndsAsMeant, Outcome
  <2> QED
    BY <2>1, <2>3, <2>5, <2>6, <2>7, DeliverTakes
<1> QED
  BY <1>12, <1>14, <1>15

\* The string is made of what the writer holds.
LEMMA MakeStringCourse ==
  ASSUME UnderWay, MakeString
  PROVE  OnCourse'
<1>1. phase = "finish" /\ job.sink \in {"format", "format_latin_1"} /\ Entire(job) = Meant(All(out), "done")
  BY DEF UnderWay, OnCourse, MakeString
<1>2. PICK text : text = All(out)
  OBVIOUS
<1>3. PICK taken : taken = (job.sink = "format_latin_1" \/ Valid(text)
                            \/ job.mode \in {"assume_valid", "substitute_invalid"})
  OBVIOUS
<1>4. /\ phase' = IF taken THEN "done" ELSE IF job.mode = "check_validity" THEN "thrown" ELSE "aborted"
      /\ phase' = "thrown" => error' = "unicode_error"
      /\ result' = IF ~taken THEN <<>>
                   ELSE IF job.sink = "format_latin_1" THEN FromLatin1(text)
                   ELSE IF job.mode = "substitute_invalid" THEN Cleaned(text)
                   ELSE text
      /\ job' = job /\ out' = out
  BY <1>2, <1>3 DEF MakeString
<1>5. StringMade'
  <2>1. All(out)' = text /\ Entire(job)' = Entire(job) /\ Valid(text)' = Valid(text)
        /\ FromLatin1(text)' = FromLatin1(text) /\ Cleaned(text)' = Cleaned(text)
    BY <1>2, <1>4
  <2> QED
    BY <1>1, <1>2, <1>3, <1>4, <2>1 DEF StringMade
<1> QED
  BY <1>4, <1>5 DEF OnCourse, EndsAsMeant

-----------------------------------------------------------------------------
(* The course of a call. *)

\* Nothing has been done of a call that has not begun.
LEMMA InitCourse == Init => CourseInv
  BY DEF Init, CourseInv

\* Every step does some of what is meant.
LEMMA StepCourse ==
  ASSUME UnderWay, Step
  PROVE  OnCourse'
  BY LiteralCourse, EscapeCourse, ReachCourse, EnterCourse, FlagCourse, PadCourse, WidthCourse,
     NumberCourse, BadCourse, ApplyCourse, MakeStringCourse
  DEF Step

\* Every step keeps the invariant.
LEMMA NextCourse == FInv /\ CourseInv /\ [Next]_vars => CourseInv'
<1> SUFFICES ASSUME FInv, CourseInv, [Next]_vars PROVE CourseInv'
  OBVIOUS
<1>1. ASSUME NEW j \in Jobs, Call(j) PROVE CourseInv'
  BY <1>1, CallCourse
<1>2. CASE Step
  <2>1. phase \in {"prefix", "spec", "finish"} /\ job' = job
    BY <1>2 DEF Step, Literal, Escape, Reach, EnterField, Flag, PadGroup, Width, NumberGroup, BadGroup, Apply,
                MakeString
  <2>2. phase' # "idle"
    <3>1. job \in Jobs
      BY <2>1, AtStep
    <3> QED
      BY <1>2, <2>1, DeliverEnds DEF Step, Literal, Escape, Reach, EnterField, Flag, PadGroup, Width, NumberGroup,
                                     BadGroup, Apply, MakeString, Fail
  <2>3. Entire(job)' = Entire(job)
    BY <2>1 DEF Entire, Ahead
  <2>4. Entire(job).outcome # "odd" => OnCourse'
    BY <1>2, <2>1, StepCourse DEF UnderWay, CourseInv
  <2> QED
    BY <2>2, <2>3, <2>4 DEF CourseInv
<1>3. CASE Return
  BY <1>3 DEF Return, CourseInv
<1>4. CASE UNCHANGED vars
  BY <1>4 DEF vars, CourseInv, OnCourse, EndsAsMeant, StringMade, InPrefix, InField, Entire, Ahead, Outcome
<1> QED
  BY <1>1, <1>2, <1>3, <1>4 DEF Next

\* What has been written, and what is ahead, are what the call means: after
\* every step of every call whose format string is not odd.
THEOREM CourseKept == Spec => []CourseInv
<1>1. FInv /\ CourseInv /\ [Next]_vars => CourseInv'
  BY NextCourse
<1> QED
  BY <1>1, InitCourse, FInvHolds, PTL DEF Spec

\* For every format string and all arguments, a stream is given the literal
\* text and the arguments under the settings of their fields, in the order the
\* fields ask for them, and the call ends as the grammar says
\* (st_formatter.h, fetch_prefix, parse_format, apply_format).
THEOREM FormatInterpreted == Spec => []InterpretsFormat
<1>1. FInv /\ CourseInv => InterpretsFormat
  <2> SUFFICES ASSUME FInv, CourseInv, Ended, job.sink = "stream", Meaning.outcome # "odd"
               PROVE  Outcome = Meaning.outcome /\ All(out) = Meaning.text
    BY DEF InterpretsFormat
  <2>1. Meaning = Entire(job)
    BY DEF Meaning, Entire, Ahead
  <2>2. EndsAsMeant
    BY <2>1 DEF CourseInv, OnCourse, Ended
  <2>3. Entire(job) = Meant(All(out), Outcome)
    BY <2>2 DEF EndsAsMeant, StringMade
  <2> QED
    BY <2>1, <2>3 DEF Meant
<1> QED
  BY <1>1, FInvHolds, CourseKept, PTL

-----------------------------------------------------------------------------
(* How a number stands in its field. *)

\* The characters of digits that are upper-case or that are not.
CaseCodes(u) == {c \in 48 .. 122 : c \in 48 .. 57 \/ c \in IF u THEN 65 .. 90 ELSE 97 .. 122}

\* Digits of one case that do not begin with a zero.
Neat(d, u) == d \in Seq(CaseCodes(u)) /\ d # <<>> /\ d[1] # Zero

\* The character of a digit.
LEMMA DigitCharNeat ==
  ASSUME NEW d \in 0 .. 35, NEW u \in BOOLEAN
  PROVE  DigitChar(d, u) \in CaseCodes(u) /\ (d # 0 => DigitChar(d, u) # Zero)
<1>1. CASE u
  BY <1>1 DEF DigitChar, CaseCodes, Zero
<1>2. CASE ~u
  BY <1>2 DEF DigitChar, CaseCodes, Zero
<1> QED
  BY <1>1, <1>2

\* A number is written without a digit too many.
LEMMA WrittenNeat ==
  ASSUME NEW r \in Nat, r >= 2, r <= 36, NEW u \in BOOLEAN, NEW v \in Nat, v # 0
  PROVE  Neat(Written(v, r, u), u)
<1> DEFINE G == {k \in Nat : k # 0 => Neat(Written(k, r, u), u)}
<1>1. ASSUME NEW k \in Nat, \A j \in 0 .. k - 1 : j \in G PROVE k \in G
  <2>1. SUFFICES ASSUME k # 0 PROVE Neat(Written(k, r, u), u)
    OBVIOUS
  <2>2. k \div r \in 0 .. k - 1 /\ k % r \in 0 .. r - 1 /\ k = r * (k \div r) + (k % r)
    BY <2>1, QuotientSmaller
  <2>3. PICK q \in 0 .. k - 1 : q = k \div r
    BY <2>2
  <2>4. PICK c \in 0 .. r - 1 : c = k % r
    BY <2>2
  <2>5. Written(k, r, u) = Append(Written(q, r, u), DigitChar(c, u))
    BY <2>1, <2>3, <2>4, WrittenFacts
  <2>6. PICK e : e = DigitChar(c, u)
    OBVIOUS
  <2>7. e \in CaseCodes(u) /\ (c # 0 => e # Zero)
    <3>1. c \in 0 .. 35
      OBVIOUS
    <3> QED
      BY <2>6, <3>1, DigitCharNeat
  <2>8. PICK S : S = CaseCodes(u)
    OBVIOUS
  <2>9. CASE q = 0
    <3>1. Written(q, r, u) = <<>>
      BY <2>9 DEF Written
    <3>2. Written(k, r, u) = <<e>>
      BY <2>5, <2>6, <3>1
    <3>3. r * q = 0
      BY <2>9
    <3>4. c # 0
      BY <2>1, <2>2, <2>3, <2>4, <3>3
    <3>5. e \in S
      BY <2>7, <2>8
    <3>6. <<e>> \in Seq(S) /\ <<e>> # <<>> /\ <<e>>[1] = e
      BY <3>5
    <3> QED
      BY <2>7, <2>8, <3>2, <3>4, <3>6 DEF Neat
  <2>10. CASE q # 0
    <3>1. PICK d \in Seq(S) : d = Written(q, r, u) /\ d # <<>> /\ d[1] # Zero
      <4>1. Neat(Written(q, r, u), u)
        BY <1>1, <2>10
      <4> QED
        BY <2>8, <4>1 DEF Neat
    <3>2. PICK b : b = Append(d, e)
      OBVIOUS
    <3>3. b \in Seq(S) /\ b # <<>> /\ b[1] = d[1]
      <4>1. e \in S
        BY <2>7, <2>8
      <4>2. Len(d) \in Nat /\ Len(d) # 0
        BY <3>1, LenProperties, EmptySeq
      <4>3. b \in Seq(S) /\ Len(b) = Len(d) + 1 /\ \A i \in 1 .. Len(d) : b[i] = d[i]
        BY <3>2, <4>1, AppendProperties
      <4>4. b # <<>>
        BY <4>2, <4>3
      <4> QED
        BY <4>2, <4>3, <4>4
    <3> QED
      BY <2>5, <2>6, <2>8, <3>1, <3>2, <3>3 DEF Neat
  <2> QED
    BY <2>9, <2>10
<1> HIDE DEF G
<1>2. v \in G
  BY <1>1, InductionOn
<1> QED
  BY <1>2 DEF G

\* The base of a number.
LEMMA RadixIs ==
  ASSUME NEW s \in Specs
  PROVE  Radix(s) = CASE s.digit_class = "oct" -> 8 [] s.digit_class = "bin" -> 2
                      [] s.digit_class \in {"hex", "hex_upper"} -> 16 [] OTHER -> 10
  BY DEF Radix

\* Numeral, for the base.
NumeralIn(d, n, s, radix) ==
  /\ d # <<>> /\ (d[1] = Zero => Len(d) = 1)
  /\ \A i \in DOMAIN d :
       /\ IsDigit(d[i], radix)
       /\ d[i] \notin Digit => (d[i] < 97 <=> s.digit_class = "hex_upper")
  /\ Worth(d, radix) = n

\* How a number is written in a field.
LEMMA NumeralIs ==
  ASSUME NEW s \in Specs, NEW v \in Int
  PROVE  Numeral(DigitsOf(s, v), Magnitude(v), s)
<1>1. PICK m \in Nat : m = Magnitude(v)
  BY NumericCalls
<1>2. PICK r \in {2, 8, 10, 16} : r = Radix(s)
  BY NumericCalls
<1>3. PICK u \in BOOLEAN : u = (s.digit_class = "hex_upper")
  OBVIOUS
<1>4. PICK d : d = DigitsOf(s, v)
  OBVIOUS
<1>5. d = Digits(m, r, u)
  BY <1>1, <1>2, <1>3, <1>4 DEF DigitsOf
<1>6. d \in Seq(DigitCodes(r)) /\ d # <<>> /\ Worth(d, r) = m
  BY <1>1, <1>2, <1>4, NumericCalls
<1>7. d \in Seq(CaseCodes(u)) /\ (d[1] = Zero => Len(d) = 1)
  <2>1. CASE m = 0
    <3>1. d = <<48>>
      BY <1>5, <2>1 DEF Digits
    <3>2. 48 \in CaseCodes(u)
      BY DEF CaseCodes
    <3> QED
      BY <3>1, <3>2
  <2>2. CASE m # 0
    <3>1. d = Written(m, r, u)
      BY <1>5, <2>2 DEF Written
    <3>2. r \in Nat /\ r >= 2 /\ r <= 36
      BY <1>2
    <3>3. Neat(d, u)
      BY <2>2, <3>1, <3>2, WrittenNeat
    <3> QED
      BY <3>3 DEF Neat
  <2> QED
    BY <2>1, <2>2
<1>8. ASSUME NEW i \in DOMAIN d
      PROVE  IsDigit(d[i], r) /\ (d[i] \notin Digit => (d[i] < 97 <=> s.digit_class = "hex_upper"))
  <2>1. d[i] \in DigitCodes(r) /\ d[i] \in CaseCodes(u)
    <3>1. PICK S, T : S = DigitCodes(r) /\ T = CaseCodes(u)
      OBVIOUS
    <3>2. d \in Seq(S) /\ d \in Seq(T)
      BY <1>6, <1>7, <3>1
    <3>3. i \in 1 .. Len(d)
      BY <3>2, LenProperties
    <3>4. d[i] \in S /\ d[i] \in T
      BY <3>2, <3>3, ElementOfSeq
    <3> QED
      BY <3>1, <3>4
  <2>2. PICK c \in 48 .. 122 : c = d[i]
    BY <2>1 DEF CaseCodes
  <2>3. IsDigit(c, r)
    BY <2>1, <2>2 DEF DigitCodes
  <2>4. c \notin Digit => (c < 97 <=> u)
    <3>1. CASE u
      BY <2>1, <2>2, <3>1 DEF CaseCodes, Digit
    <3>2. CASE ~u
      BY <2>1, <2>2, <3>2 DEF CaseCodes, Digit
    <3> QED
      BY <3>1, <3>2
  <2> QED
    BY <1>3, <2>2, <2>3, <2>4
<1>9. r = CASE s.digit_class = "oct" -> 8 [] s.digit_class = "bin" -> 2
            [] s.digit_class \in {"hex", "hex_upper"} -> 16 [] OTHER -> 10
  BY <1>2, RadixIs
<1>10. NumeralIn(d, m, s, r)
  BY <1>6, <1>7, <1>8 DEF NumeralIn
<1>11. Numeral(d, m, s) <=> NumeralIn(d, m, s, CASE s.digit_class = "oct" -> 8 [] s.digit_class = "bin" -> 2
                                                 [] s.digit_class \in {"hex", "hex_upper"} -> 16 [] OTHER -> 10)
  BY Zenon DEF Numeral, NumeralIn
<1>12. Numeral(d, m, s)
  BY <1>9, <1>10, <1>11, Zenon
<1> QED
  BY <1>1, <1>4, <1>12

\* As much padding as is missing.
LEMMA FillFacts ==
  ASSUME NEW n \in Int, NEW c \in Nat
  PROVE  \E f \in Seq(Nat) :
           /\ f = [i \in 1 .. n |-> c]
           /\ Len(f) = IF n > 0 THEN n ELSE 0
           /\ [i \in 1 .. Len(f) |-> c] = f
<1>1. CASE n > 0
  <2>1. n \in Nat
    BY <1>1
  <2>2. PICK f : f = [i \in 1 .. n |-> c]
    OBVIOUS
  <2>3. f \in Seq(Nat) /\ Len(f) = n
    BY <2>1, <2>2
  <2> QED
    BY <1>1, <2>2, <2>3
<1>2. CASE ~(n > 0)
  <2>1. 1 .. n = {} /\ 1 .. 0 = {}
    BY <1>2
  <2>2. [i \in 1 .. n |-> c] = <<>> /\ [i \in 1 .. 0 |-> c] = <<>>
    BY <2>1
  <2>3. PICK f \in Seq(Nat) : f = <<>>
    BY EmptySeq
  <2>4. Len(f) = 0
    BY <2>3
  <2>5. PICK l : l = Len(f)
    OBVIOUS
  <2>6. [i \in 1 .. l |-> c] = f
    <3>1. [i \in 1 .. 0 |-> c] = f
      BY <2>2, <2>3
    <3> QED
      BY <2>4, <2>5, <3>1, Zenon
  <2>7. f = [i \in 1 .. n |-> c]
    BY <2>2, <2>3, Zenon
  <2>8. l = IF n > 0 THEN n ELSE 0
    BY <1>2, <2>4, <2>5
  <2> QED
    BY <2>5, <2>6, <2>7, <2>8, Zenon
<1> QED
  BY <1>1, <1>2

\* The more of none and a number.
LEMMA MaxOfNone ==
  ASSUME NEW x \in Int
  PROVE  Max({0, x}) = IF x > 0 THEN x ELSE 0
<1>1. PICK m : m = IF x > 0 THEN x ELSE 0
  OBVIOUS
<1>2. m \in {0, x} /\ \A y \in {0, x} : m >= y
  BY <1>1
<1>3. \A z \in {0, x} : (\A y \in {0, x} : z >= y) => z = m
  BY <1>1
<1>4. Max({0, x}) = m
  BY <1>2, <1>3 DEF Max
<1> QED
  BY <1>1, <1>4

\* What is filled up to a length is padded to it.
LEMMA PaddedIs ==
  ASSUME NEW body \in Seq(Nat), NEW min \in Int, NEW pad \in Nat
  PROVE  LET fill == [i \in 1 .. min - Len(body) |-> pad]
         IN  /\ fill \in Seq(Nat)
             /\ Padded(body \o fill, body, min, pad, TRUE)
             /\ Padded(fill \o body, body, min, pad, FALSE)
<1>1. PICK b \in Nat : b = Len(body)
  BY LenProperties
<1>2. PICK n \in Int : n = min - b
  OBVIOUS
<1>3. PICK fill \in Seq(Nat) :
        /\ fill = [i \in 1 .. n |-> pad]
        /\ Len(fill) = IF n > 0 THEN n ELSE 0
        /\ [i \in 1 .. Len(fill) |-> pad] = fill
  BY FillFacts
<1>4. PICK l \in Nat : l = Len(fill)
  BY LenProperties
<1>5. Max({0, min - Len(body)}) = l
  BY <1>1, <1>2, <1>3, <1>4, MaxOfNone
<1>6. PICK t \in Seq(Nat), u \in Seq(Nat) : t = body \o fill /\ u = fill \o body
  BY Joined
<1>7. Len(t) - Len(body) = l /\ Len(u) - Len(body) = l
  <2>1. Len(t) = Len(body) + Len(fill) /\ Len(u) = Len(fill) + Len(body)
    BY <1>6, Joined
  <2> QED
    BY <1>1, <1>4, <2>1
<1>8. [i \in 1 .. l |-> pad] = fill
  BY <1>3, <1>4
<1>9. Padded(t, body, min, pad, TRUE) /\ Padded(u, body, min, pad, FALSE)
  BY <1>5, <1>6, <1>7, <1>8 DEF Padded
<1>10. [i \in 1 .. min - Len(body) |-> pad] = fill
  BY <1>1, <1>2, <1>3
<1> QED
  BY <1>6, <1>9, <1>10

\* A text between two others.
LEMMA Middle ==
  ASSUME NEW a \in Seq(Nat), NEW b \in Seq(Nat), NEW c \in Seq(Nat)
  PROVE  SubSeq((a \o b) \o c, Len(a) + 1, Len(a) + Len(b)) = b
<1>1. PICK la \in Nat, lb \in Nat, lc \in Nat : la = Len(a) /\ lb = Len(b) /\ lc = Len(c)
  BY LenProperties
<1>2. PICK ab : ab = a \o b
  OBVIOUS
<1>3. ab \in Seq(Nat) /\ Len(ab) = la + lb /\ \A i \in 1 .. lb : ab[la + i] = b[i]
  BY <1>1, <1>2, Joined
<1>4. PICK t : t = ab \o c
  OBVIOUS
<1>5. t \in Seq(Nat) /\ Len(t) = la + lb + lc /\ \A i \in 1 .. la + lb : t[i] = ab[i]
  <2>1. t \in Seq(Nat) /\ Len(t) = Len(ab) + Len(c) /\ \A i \in 1 .. Len(ab) : t[i] = ab[i]
    BY <1>3, <1>4, Joined, ZenonT(60)
  <2> QED
    BY <1>1, <1>3, <2>1
<1>6. PICK s : s = SubSeq(t, la + 1, la + lb)
  OBVIOUS
<1>7. s \in Seq(Nat) /\ Len(s) = lb /\ \A i \in 1 .. lb : s[i] = t[la + i]
  <2>1. \A i \in la + 1 .. la + lb : t[i] \in Nat
    <3> SUFFICES ASSUME NEW i \in la + 1 .. la + lb PROVE t[i] \in Nat
      OBVIOUS
    <3>1. i \in 1 .. Len(t)
      BY <1>5
    <3> QED
      BY <1>5, <3>1, ElementOfSeq
  <2>2. la + 1 \in Int /\ la + lb \in Int /\ (IF la + 1 <= la + lb THEN (la + lb) - (la + 1) + 1 ELSE 0) = lb
        /\ \A i \in Nat : (la + 1) + i - 1 = la + i
    OBVIOUS
  <2> QED
    BY <1>6, <2>1, <2>2, SubSeqProperties
<1>8. \A i \in 1 .. lb : s[i] = b[i]
  <2> SUFFICES ASSUME NEW i \in 1 .. lb PROVE s[i] = b[i]
    OBVIOUS
  <2>1. la + i \in 1 .. la + lb
    OBVIOUS
  <2> QED
    BY <1>3, <1>5, <1>7, <2>1
<1>9. s = b
  BY <1>1, <1>7, <1>8, SeqEqual
<1> QED
  BY <1>1, <1>2, <1>4, <1>6, <1>9

\* The first of two texts, and the last.
LEMMA Parts ==
  ASSUME NEW a \in Seq(Nat), NEW b \in Seq(Nat)
  PROVE  SubSeq(a \o b, 1, Len(a)) = a /\ Drop(a \o b, Len(a)) = b
<1>1. PICK e \in Seq(Nat) : e = <<>>
  BY EmptySeq
<1>2. Len(e) = 0 /\ e \o a = a
  BY <1>1, JoinedToNone
<1>3. PICK n \in Nat, m \in Nat : n = Len(a) /\ m = Len(b)
  BY LenProperties, SMTT(30)
<1>4. SubSeq(a \o b, 1, n) = a
  <2>1. SubSeq((e \o a) \o b, Len(e) + 1, Len(e) + Len(a)) = a
    BY Middle
  <2>2. Len(e) + 1 = 1 /\ Len(e) + Len(a) = n
    BY <1>2, <1>3
  <2> QED
    BY <1>2, <2>1, <2>2
<1>5. SubSeq(a \o b, n + 1, n + m) = b
  <2>1. SubSeq((a \o b) \o e, Len(a) + 1, Len(a) + Len(b)) = b
    BY Middle
  <2>2. a \o b \in Seq(Nat)
    BY Joined
  <2>3. (a \o b) \o e = a \o b
    BY <1>1, <2>2, JoinedToNone
  <2> QED
    BY <1>3, <2>1, <2>3
<1>6. Len(a \o b) = n + m
  BY <1>3, Joined
<1> QED
  BY <1>3, <1>4, <1>5, <1>6 DEF Drop

\* What introduces a number is its sign and its prefix.
LEMMA IntroducedIs ==
  ASSUME NEW s \in Specs, NEW v \in Int
  PROVE  Introduced(v, s) = Sign(s, v) \o ClassPrefix(s, v)
<1>1. PICK x : x = Sign(s, v)
  OBVIOUS
<1>2. PICK y : y = ClassPrefix(s, v)
  OBVIOUS
<1>3. x = IF v < 0 THEN <<Minus>> ELSE IF s.always_signed THEN <<Plus>> ELSE <<>>
  BY <1>1 DEF Sign
<1>4. y = IF ~s.class_prefix \/ v = 0 THEN <<>>
          ELSE CASE s.digit_class = "hex" -> <<48, 120>> [] s.digit_class = "hex_upper" -> <<48, 88>>
                 [] s.digit_class = "bin" -> <<48, 98>> [] s.digit_class = "oct" -> <<48>> [] OTHER -> <<>>
  BY <1>2 DEF ClassPrefix
<1>5. Introduced(v, s) = x \o y
  BY <1>3, <1>4, Zenon DEF Introduced
<1> QED
  BY <1>1, <1>2, <1>5

\* The digits d of v stand in t from a place on.
StandsAt(t, v, s, pad, intro, d) ==
  /\ Numeral(d, Magnitude(v), s)
  /\ IF s.numeric_pad
     THEN /\ SubSeq(t, 1, Len(intro)) = intro
          /\ Padded(Drop(t, Len(intro)), d, s.minimum_length - Len(intro), pad, FALSE)
     ELSE Padded(t, intro \o d, s.minimum_length, pad, s.alignment = "left")

\* Where the digits of a number begin.
FirstDigit(t, s, intro, k) ==
  IF s.alignment = "left" /\ ~s.numeric_pad THEN Len(intro) + 1 ELSE Len(t) - k + 1

\* How a number stands in its field, for the place of its digits.
LEMMA NumberStands ==
  ASSUME NEW t, NEW v, NEW s, NEW pad
  PROVE  Number(t, v, s, pad) <=>
           \E k \in 1 .. Len(t) :
             StandsAt(t, v, s, pad, Introduced(v, s),
                      SubSeq(t, FirstDigit(t, s, Introduced(v, s), k),
                             FirstDigit(t, s, Introduced(v, s), k) + k - 1))
  BY Zenon DEF Number, StandsAt, FirstDigit, Magnitude

\* A number and its padding.
LEMMA NumberIs ==
  ASSUME NEW s \in Specs, NEW v \in Int
  PROVE  Number(All(format_numeric(s, v)), v, s, Pad(s))
<1>1. PICK intro : intro = Introduced(v, s)
  OBVIOUS
<1>2. PICK pad \in Nat : pad = Pad(s)
  BY PadFacts
<1>3. PICK d \in Seq(Nat) : d = DigitsOf(s, v) /\ d # <<>>
  BY NumericCalls
<1>4. Numeral(d, Magnitude(v), s)
  BY <1>3, NumeralIs
<1>5. PICK k \in Nat : k = Len(d) /\ k > 0
  <2>1. Len(d) \in Nat /\ Len(d) # 0
    BY <1>3, LenProperties, EmptySeq
  <2> QED
    BY <2>1
<1>6. /\ intro \in Seq(Nat) /\ Len(intro) = Len(Sign(s, v)) + Len(ClassPrefix(s, v))
      /\ intro = Sign(s, v) \o ClassPrefix(s, v)
  <2>1. PICK x \in Seq(Nat), y \in Seq(Nat) : x = Sign(s, v) /\ y = ClassPrefix(s, v)
    BY PrefixCalls
  <2>2. x \o y \in Seq(Nat) /\ Len(x \o y) = Len(x) + Len(y)
    BY Joined
  <2>3. intro = x \o y
    BY <1>1, <2>1, IntroducedIs
  <2> QED
    BY <2>1, <2>2, <2>3
<1>7. PICK li \in Nat : li = Len(intro)
  BY <1>6, LenProperties
<1>8. PICK min \in Int : min = s.minimum_length
  BY DEF Specs
<1>9. PICK n \in Int : n = pad_size(s, Len(DigitsOf(s, v)), v) /\ n = (min - li) - k /\ n = min - (li + k)
  <2>1. PICK x \in Nat, y \in Nat : x = Len(Sign(s, v)) /\ y = Len(ClassPrefix(s, v))
    <3>1. Len(Sign(s, v)) \in {0, 1} /\ Len(ClassPrefix(s, v)) \in {0, 1, 2}
      BY PrefixCalls
    <3>2. Len(Sign(s, v)) \in Nat /\ Len(ClassPrefix(s, v)) \in Nat
      BY <3>1
    <3> QED
      BY <3>2
  <2>2. pad_size(s, Len(DigitsOf(s, v)), v) = min - k - x - y
    BY <1>3, <1>5, <1>8, <2>1 DEF pad_size
  <2>3. li = x + y
    BY <1>6, <1>7, <2>1
  <2> QED
    BY <2>2, <2>3
<1>10. PICK fill \in Seq(Nat) : fill = [i \in 1 .. n |-> pad]
  BY FillFacts
<1>11. PICK t : t = All(format_numeric(s, v))
  OBVIOUS
<1>12. t = IF s.numeric_pad THEN (intro \o fill) \o d
           ELSE IF s.alignment = "left" THEN (intro \o d) \o fill
           ELSE (fill \o intro) \o d
  <2>1. PICK x : x = Sign(s, v) \o ClassPrefix(s, v)
    OBVIOUS
  <2>2. [i \in 1 .. pad_size(s, Len(DigitsOf(s, v)), v) |-> Pad(s)] = fill
    BY <1>2, <1>9, <1>10
  <2>3. All(format_numeric(s, v)) =
          IF s.numeric_pad THEN (x \o [i \in 1 .. pad_size(s, Len(DigitsOf(s, v)), v) |-> Pad(s)]) \o DigitsOf(s, v)
          ELSE IF s.alignment = "left"
          THEN (x \o DigitsOf(s, v)) \o [i \in 1 .. pad_size(s, Len(DigitsOf(s, v)), v) |-> Pad(s)]
          ELSE ([i \in 1 .. pad_size(s, Len(DigitsOf(s, v)), v) |-> Pad(s)] \o x) \o DigitsOf(s, v)
    BY <2>1, NumericCalls, Zenon
  <2> QED
    BY <1>3, <1>6, <1>11, <2>1, <2>2, <2>3, Zenon
<1>13. intro \o d \in Seq(Nat) /\ Len(intro \o d) = li + k
  BY <1>5, <1>6, <1>7, Joined
<1>14. \A from \in Int :
         /\ k <= Len(t) /\ FirstDigit(t, s, intro, k) = from /\ SubSeq(t, from, from + k - 1) = d
         /\ StandsAt(t, v, s, pad, intro, d)
         => Number(t, v, s, pad)
  <2> SUFFICES ASSUME NEW from \in Int, k <= Len(t), FirstDigit(t, s, intro, k) = from,
                      SubSeq(t, from, from + k - 1) = d, StandsAt(t, v, s, pad, intro, d), t \in Seq(Nat)
               PROVE  Number(t, v, s, pad)
    BY <1>3, <1>6, <1>12, Joined
  <2>1. k \in 1 .. Len(t)
    <3>1. Len(t) \in Nat
      BY LenProperties
    <3> QED
      BY <1>5, <3>1
  <2>2. StandsAt(t, v, s, pad, intro,
                 SubSeq(t, FirstDigit(t, s, intro, k), FirstDigit(t, s, intro, k) + k - 1))
    OBVIOUS
  <2> QED
    BY <1>1, <2>1, <2>2, NumberStands
<1>15. CASE s.numeric_pad
  <2>1. t = (intro \o fill) \o d
    BY <1>12, <1>15
  <2>2. PICK a \in Seq(Nat), la \in Nat : a = intro \o fill /\ la = Len(a)
    BY <1>6, Joined, LenProperties
  <2>3. PICK b \in Seq(Nat) : b = fill \o d
    BY Joined
  <2>4. t = intro \o b
    BY <1>6, <2>1, <2>3, JoinedInAnyOrder, ZenonT(60)
  <2>5. SubSeq(t, 1, li) = intro /\ Drop(t, li) = b
    BY <1>6, <1>7, <2>4, Parts
  <2>6. Padded(b, d, min - li, pad, FALSE)
    <3>1. [i \in 1 .. (min - li) - Len(d) |-> pad] = fill
      BY <1>5, <1>9, <1>10
    <3>2. min - li \in Int
      OBVIOUS
    <3> QED
      BY <2>3, <3>1, <3>2, PaddedIs
  <2>7. StandsAt(t, v, s, pad, intro, d)
    BY <1>4, <1>7, <1>8, <1>15, <2>5, <2>6 DEF StandsAt
  <2>8. Drop(t, la) = d /\ Len(t) = la + k
    BY <1>5, <2>1, <2>2, Parts, Joined
  <2>9. FirstDigit(t, s, intro, k) = la + 1 /\ (la + 1) + k - 1 = Len(t) /\ k <= Len(t) /\ la + 1 \in Int
    BY <1>15, <2>8 DEF FirstDigit
  <2>10. SubSeq(t, la + 1, (la + 1) + k - 1) = d
    BY <2>8, <2>9 DEF Drop
  <2> QED
    BY <1>2, <1>11, <1>14, <2>7, <2>9, <2>10
<1>16. CASE ~s.numeric_pad /\ s.alignment = "left"
  <2>1. t = (intro \o d) \o fill
    BY <1>12, <1>16
  <2>2. SubSeq(t, li + 1, li + k) = d
    BY <1>5, <1>6, <1>7, <2>1, Middle
  <2>3. Padded(t, intro \o d, min, pad, TRUE)
    <3>1. [i \in 1 .. min - Len(intro \o d) |-> pad] = fill
      BY <1>9, <1>10, <1>13
    <3> QED
      BY <1>13, <2>1, <3>1, PaddedIs
  <2>4. StandsAt(t, v, s, pad, intro, d)
    BY <1>4, <1>8, <1>16, <2>3, Zenon DEF StandsAt
  <2>5. Len(t) = (li + k) + Len(fill) /\ Len(fill) \in Nat
    BY <1>13, <2>1, Joined, LenProperties
  <2>6. FirstDigit(t, s, intro, k) = li + 1 /\ (li + 1) + k - 1 = li + k /\ k <= Len(t) /\ li + 1 \in Int
    BY <1>7, <1>16, <2>5 DEF FirstDigit
  <2> QED
    BY <1>2, <1>11, <1>14, <2>2, <2>4, <2>6
<1>17. CASE ~s.numeric_pad /\ s.alignment # "left"
  <2>1. t = (fill \o intro) \o d
    BY <1>12, <1>17
  <2>2. PICK a \in Seq(Nat), la \in Nat : a = fill \o intro /\ la = Len(a)
    BY <1>6, Joined, LenProperties
  <2>3. t = fill \o (intro \o d)
    BY <1>6, <2>1, JoinedInAnyOrder
  <2>4. Padded(t, intro \o d, min, pad, FALSE)
    <3>1. [i \in 1 .. min - Len(intro \o d) |-> pad] = fill
      BY <1>9, <1>10, <1>13
    <3> QED
      BY <1>13, <2>3, <3>1, PaddedIs
  <2>5. StandsAt(t, v, s, pad, intro, d)
    BY <1>4, <1>8, <1>17, <2>4, Zenon DEF StandsAt
  <2>6. Drop(t, la) = d /\ Len(t) = la + k
    BY <1>5, <2>1, <2>2, Parts, Joined
  <2>7. FirstDigit(t, s, intro, k) = la + 1 /\ (la + 1) + k - 1 = Len(t) /\ k <= Len(t) /\ la + 1 \in Int
    BY <1>17, <2>6 DEF FirstDigit
  <2>8. SubSeq(t, la + 1, (la + 1) + k - 1) = d
    BY <2>6, <2>7 DEF Drop
  <2> QED
    BY <1>2, <1>11, <1>14, <2>5, <2>7, <2>8
<1> QED
  BY <1>15, <1>16, <1>17

\* What is shown of a text.
Cut(s, text) == IF s.precision = -1 THEN text ELSE SubSeq(text, 1, Min({s.precision, Len(text)}))

\* What an argument prints, type by type, when no assertion can fail.
LEMMA PrintsSurely ==
  ASSUME NEW s, NEW a, NEW t
  PROVE  /\ a.type = "text" /\ Padded(t, Cut(s, a.text), s.minimum_length, Pad(s), s.alignment # "right") =>
              Prints(s, a, t, TRUE)
         /\ a.type = "bool"
              /\ Padded(t, Cut(s, BoolText(a.value)), s.minimum_length, Pad(s), s.alignment # "right") =>
              Prints(s, a, t, TRUE)
         /\ a.type = "null" /\ t = <<>> => Prints(s, a, t, TRUE)
         /\ a.type \in {"int", "char8"} /\ s.digit_class # "char" /\ Number(t, a.value, s, Pad(s)) =>
              Prints(s, a, t, TRUE)
<1>1. Pad(s) = IF s.pad = NUL THEN Blank ELSE s.pad
  BY DEF Pad
<1>2. CASE a.type = "text"
  BY <1>1, <1>2 DEF Prints, Cut
<1>3. CASE a.type = "bool"
  BY <1>1, <1>3 DEF Prints, Cut, BoolText
<1>4. CASE a.type = "null"
  BY <1>4 DEF Prints
<1>5. CASE a.type \in {"int", "char8"}
  BY <1>1, <1>5 DEF Prints
<1> QED
  BY <1>2, <1>3, <1>4, <1>5

\* What an argument prints, or an assertion fails.
LEMMA PrintsOrFails ==
  ASSUME NEW s, NEW a, NEW t, NEW ok
  PROVE  /\ a.type = "int" /\ s.digit_class = "char" =>
              \A c : c = (IF a.value % IntMod \in 0 .. MaxCode THEN a.value % IntMod ELSE 65533) =>
                (Prints(s, a, t, ok) <=> (ok <=> NoPadding(s)) /\ IF ok THEN Points(t) = <<c>> ELSE t = <<>>)
         /\ a.type = "char8" /\ s.digit_class = "char" =>
              (Prints(s, a, t, ok) <=>
                 /\ ok <=> NoPadding(s)
                 /\ t = IF ok THEN <<a.value>> ELSE <<>>)
         /\ a.type = "double" =>
              (Prints(s, a, t, ok) <=>
                 /\ ok <=> Len(snprintf(s, a.text)) < OutBuffer
                 /\ IF ok THEN Padded(t, snprintf(s, a.text), s.minimum_length, Pad(s), s.alignment = "left")
                    ELSE t = <<>>)
         /\ a.type = "complex" => Prints(s, a, t, ok)
         /\ a.type = "ill_formed" => (Prints(s, a, t, ok) <=> ~ok /\ t = <<>>)
<1>1. Pad(s) = IF s.pad = NUL THEN Blank ELSE s.pad
  BY DEF Pad
<1>2. NoPadding(s) <=> s.minimum_length = 0 /\ s.pad = NUL
  BY DEF NoPadding
<1>3. CASE a.type = "int"
  BY <1>1, <1>2, <1>3 DEF Prints
<1>4. CASE a.type = "char8"
  BY <1>1, <1>2, <1>4 DEF Prints
<1>5. CASE a.type = "double"
  BY <1>1, <1>5 DEF Prints
<1>6. CASE a.type = "complex"
  BY <1>6 DEF Prints
<1>7. CASE a.type = "ill_formed"
  BY <1>7 DEF Prints
<1> QED
  BY <1>3, <1>4, <1>5, <1>6, <1>7

\* A text and its padding.
LEMMA TextIs ==
  ASSUME NEW s \in Specs, s.precision \in Nat \cup {-1}, NEW t \in Seq(Nat)
  PROVE  Padded(All(format_string(s, t)), Cut(s, t), s.minimum_length, Pad(s), s.alignment # "right")
<1>1. PICK n \in 0 .. Len(t) : n = Shown(s, t)
  BY StringCalls
<1>2. PICK body \in Seq(Nat) : body = SubSeq(t, 1, n) /\ Len(body) = n
  BY Beginning
<1>3. PICK l \in Nat : l = Len(t)
  BY LenProperties
<1>4. Cut(s, t) = body
  <2>1. CASE s.precision = -1
    <3>1. n = l
      BY <1>1, <1>3, <2>1 DEF Shown
    <3>2. SubSeq(t, 1, l) = t
      <4>1. SubSeq(t, 1, Len(t)) = t
        <5>1. PICK e \in Seq(Nat) : e = <<>>
          BY EmptySeq
        <5>2. SubSeq(t \o e, 1, Len(t)) = t
          BY Parts
        <5> QED
          BY <5>1, <5>2, JoinedToNone
      <4> QED
        BY <1>3, <4>1
    <3> QED
      BY <1>2, <2>1, <3>1, <3>2 DEF Cut
  <2>2. CASE s.precision # -1
    <3>1. PICK p \in Nat : p = s.precision
      BY <2>2
    <3>2. Min({p, l}) = n
      <4>1. Min({p, l}) = IF p <= l THEN p ELSE l
        BY MinOfTwo
      <4>2. n = IF p >= 0 /\ l > p THEN p ELSE l
        BY <1>1, <1>3, <3>1 DEF Shown
      <4> QED
        BY <4>1, <4>2
    <3> QED
      BY <1>2, <1>3, <2>2, <3>1, <3>2 DEF Cut
  <2> QED
    BY <2>1, <2>2
<1>5. PICK min \in Int, pad \in Nat : min = s.minimum_length /\ pad = Pad(s)
  BY PadFacts DEF Specs
<1>6. PICK fill : fill = [i \in 1 .. min - Len(body) |-> pad]
  OBVIOUS
<1>7. All(format_string(s, t)) = IF s.alignment = "right" THEN fill \o body ELSE body \o fill
  <2>1. [i \in 1 .. s.minimum_length - Shown(s, t) |-> Pad(s)] = fill
    BY <1>1, <1>2, <1>5, <1>6
  <2>2. SubSeq(t, 1, Shown(s, t)) = body
    BY <1>1, <1>2
  <2>3. All(format_string(s, t)) =
          IF s.alignment = "right"
          THEN [i \in 1 .. s.minimum_length - Shown(s, t) |-> Pad(s)] \o SubSeq(t, 1, Shown(s, t))
          ELSE SubSeq(t, 1, Shown(s, t)) \o [i \in 1 .. s.minimum_length - Shown(s, t) |-> Pad(s)]
    BY StringCalls, Zenon
  <2> QED
    BY <2>1, <2>2, <2>3, Zenon
<1>8. Padded(body \o fill, body, min, pad, TRUE) /\ Padded(fill \o body, body, min, pad, FALSE)
  BY <1>6, PaddedIs
<1>9. CASE s.alignment = "right"
  BY <1>4, <1>5, <1>7, <1>8, <1>9, Zenon
<1>10. CASE s.alignment # "right"
  BY <1>4, <1>5, <1>7, <1>8, <1>10, Zenon
<1> QED
  BY <1>9, <1>10

\* A floating-point number and its padding.
LEMMA DoubleIs ==
  ASSUME NEW s \in Specs, NEW t \in Seq(Nat), format_double(s, t).ok
  PROVE  Padded(All(format_double(s, t).calls), snprintf(s, t), s.minimum_length, Pad(s), s.alignment = "left")
<1>1. PICK body \in Seq(Nat) : body = snprintf(s, t)
  BY SnprintfText
<1>2. PICK min \in Int, pad \in Nat : min = s.minimum_length /\ pad = Pad(s)
  BY PadFacts DEF Specs
<1>3. PICK fill : fill = [i \in 1 .. min - Len(body) |-> pad]
  OBVIOUS
<1>4. PICK u : u = All(format_double(s, t).calls)
  OBVIOUS
<1>5. u = IF s.alignment = "left" THEN body \o fill ELSE fill \o body
  BY <1>1, <1>2, <1>3, <1>4, DoubleCalls
<1>6. Padded(body \o fill, body, min, pad, TRUE) /\ Padded(fill \o body, body, min, pad, FALSE)
  BY <1>3, PaddedIs
<1>7. CASE s.alignment = "left"
  BY <1>1, <1>2, <1>4, <1>5, <1>6, <1>7, Zenon
<1>8. CASE s.alignment # "left"
  BY <1>1, <1>2, <1>4, <1>5, <1>6, <1>8, Zenon
<1> QED
  BY <1>7, <1>8

\* A character by its number.
LEMMA CharIs ==
  ASSUME NEW s \in Specs, NEW v \in Int
  PROVE  LET r == format_char(s, v) IN
         /\ r.ok <=> NoPadding(s)
         /\ IF r.ok THEN Points(All(r.calls)) = <<IF v \in 0 .. MaxCode THEN v ELSE 65533>>
            ELSE All(r.calls) = <<>>
<1>1. PICK r : r = format_char(s, v)
  OBVIOUS
<1>2. PICK text : text = IF v \in 0 .. MaxCode THEN write_utf8(v) ELSE BadChar.utf8
  OBVIOUS
<1>3. (r.ok <=> NoPadding(s)) /\ All(r.calls) = IF r.ok THEN text ELSE <<>>
  BY <1>1, <1>2, CharCalls
<1>4. Points(text) = <<IF v \in 0 .. MaxCode THEN v ELSE 65533>>
  <2>1. PICK m : m = MaxCode /\ m \in Nat
    BY DEF MaxCode
  <2>2. CASE v \in 0 .. m
    <3>1. v \in Nat /\ v <= m
      BY <2>1, <2>2
    <3>2. Points(write_utf8(v)) = <<v>>
      BY <2>1, <3>1, WrittenReads
    <3> QED
      BY <1>2, <2>1, <2>2, <3>2
  <2>3. CASE v \notin 0 .. m
    BY <1>2, <2>1, <2>3, ReplacementReads
  <2> QED
    BY <2>2, <2>3
<1> QED
  BY <1>1, <1>3, <1>4

\* What an argument prints in a field by itself is what Prints says.
LEMMA PrintsIs ==
  ASSUME NEW s \in Specs, s.precision \in Nat \cup {-1}, NEW a \in Args
  PROVE  Prints(s, a, All(format_type(s, a).calls), format_type(s, a).ok)
<1>1. /\ a.type \in ArgTypes /\ a.value \in Int
      /\ a.text \in Seq(Nat) /\ a.imag \in Seq(Nat)
      /\ a.type = "char8" => a.value \in Nat
  BY ArgFacts
<1>2. PICK r : r = format_type(s, a)
  OBVIOUS
<1>3. PICK t : t = All(r.calls)
  OBVIOUS
<1>4. \A c : r = Printed(c) => r.ok /\ t = All(c)
  BY <1>3 DEF Printed
<1>5. r = AssertFails => ~r.ok /\ t = <<>>
  BY <1>3, AllOfFew DEF AssertFails
<1>14. PICK ok \in BOOLEAN : ok = r.ok
  <2>1. r.ok \in BOOLEAN
    BY <1>2, PrintedFacts DEF Printings
  <2> QED
    BY <2>1
<1> SUFFICES Prints(s, a, t, ok)
  BY <1>2, <1>3, <1>14
<1>6. CASE a.type = "text"
  <2>1. Padded(All(format_string(s, a.text)), Cut(s, a.text), s.minimum_length, Pad(s), s.alignment # "right")
    BY <1>1, TextIs
  <2>2. r = Printed(format_string(s, a.text))
    BY <1>2, <1>6, TypeCalls
  <2>3. r.ok /\ t = All(format_string(s, a.text))
    BY <1>4, <2>2
  <2>9. Prints(s, a, t, TRUE)
    BY <1>6, <2>1, <2>3, PrintsSurely
  <2> QED
    BY <1>14, <2>3, <2>9
<1>7. CASE a.type = "bool"
  <2>1. PICK b \in Seq(Nat) : b = BoolText(a.value)
    <3>1. BoolText(a.value) \in Seq(Nat)
      BY DEF BoolText
    <3> QED
      BY <3>1
  <2>2. Padded(All(format_string(s, b)), Cut(s, b), s.minimum_length, Pad(s), s.alignment # "right")
    BY TextIs
  <2>3. r = Printed(format_string(s, b))
    BY <1>2, <1>7, <2>1, TypeCalls
  <2>4. r.ok /\ t = All(format_string(s, b))
    BY <1>4, <2>3
  <2>9. Prints(s, a, t, TRUE)
    BY <1>7, <2>1, <2>2, <2>4, PrintsSurely
  <2> QED
    BY <1>14, <2>4, <2>9
<1>8. CASE a.type = "null"
  <2>1. r.ok /\ t = <<>>
    BY <1>2, <1>4, <1>8, TypeCalls, AllOfFew
  <2>9. Prints(s, a, t, TRUE)
    BY <1>8, <2>1, PrintsSurely
  <2> QED
    BY <1>14, <2>1, <2>9
<1>9. CASE a.type \in {"int", "char8"} /\ s.digit_class # "char"
  <2>1. Number(All(format_numeric(s, a.value)), a.value, s, Pad(s))
    BY <1>1, NumberIs
  <2>2. r = Printed(format_numeric(s, a.value))
    BY <1>2, <1>9, TypeCalls
  <2>3. r.ok /\ t = All(format_numeric(s, a.value))
    BY <1>4, <2>2
  <2>9. Prints(s, a, t, TRUE)
    BY <1>9, <2>1, <2>3, PrintsSurely, Zenon
  <2> QED
    BY <1>14, <2>3, <2>9
<1>10. CASE a.type = "int" /\ s.digit_class = "char"
  <2>1. PICK v \in Int : v = AsInt(a.value)
    BY <1>1, NarrowFacts
  <2>2. r = format_char(s, v)
    BY <1>2, <1>10, <2>1, TypeCalls
  <2>3. /\ r.ok <=> NoPadding(s)
        /\ IF r.ok THEN Points(t) = <<IF v \in 0 .. MaxCode THEN v ELSE 65533>> ELSE t = <<>>
    BY <1>3, <2>2, CharIs
  <2>4. PICK c : c = IF v \in 0 .. MaxCode THEN v ELSE 65533
    OBVIOUS
  <2>5. c = IF a.value % IntMod \in 0 .. MaxCode THEN a.value % IntMod ELSE 65533
    <3>1. PICK n \in Nat : n = a.value % IntMod
      BY <1>1, NarrowFacts
    <3>2. v \in 0 .. MaxCode <=> n \in 0 .. MaxCode
      BY <1>1, <2>1, <3>1, NarrowFacts
    <3>3. v \in 0 .. MaxCode => v = n
      BY <1>1, <2>1, <3>1, NarrowFacts
    <3> QED
      BY ONLY <2>4, <3>1, <3>2, <3>3
  <2>6. (ok <=> NoPadding(s)) /\ IF ok THEN Points(t) = <<c>> ELSE t = <<>>
    BY <1>14, <2>3, <2>4
  <2>7. Prints(s, a, t, ok) <=> (ok <=> NoPadding(s)) /\ IF ok THEN Points(t) = <<c>> ELSE t = <<>>
    BY <1>10, <2>5, PrintsOrFails
  <2> QED
    BY <2>6, <2>7
<1>11. CASE a.type = "char8" /\ s.digit_class = "char"
  <2>1. r = IF NoPadding(s) THEN Printed(append_char(a.value, 1)) ELSE AssertFails
    BY <1>2, <1>11, TypeCalls
  <2>2. (r.ok <=> NoPadding(s)) /\ t = IF r.ok THEN <<a.value>> ELSE <<>>
    <3>1. All(append_char(a.value, 1)) = <<a.value>>
      BY <1>1, <1>11, OneChar
    <3> QED
      BY <1>4, <1>5, <2>1, <3>1
  <2> QED
    BY <1>14, <1>11, <2>2, PrintsOrFails
<1>12. CASE a.type = "double"
  <2>1. r = format_double(s, a.text)
    BY <1>2, <1>12, TypeCalls
  <2>2. /\ r.ok <=> Len(snprintf(s, a.text)) < OutBuffer
        /\ ~r.ok => t = <<>>
    BY <1>1, <1>3, <2>1, DoubleCalls
  <2>3. r.ok => Padded(t, snprintf(s, a.text), s.minimum_length, Pad(s), s.alignment = "left")
    BY <1>1, <1>3, <2>1, DoubleIs
  <2> QED
    BY <1>14, <1>12, <2>2, <2>3, PrintsOrFails
<1>13. CASE a.type = "complex"
  BY <1>13, PrintsOrFails
<1>15. CASE a.type = "ill_formed"
  <2>1. r = Throws
    BY <1>2, <1>15, TypeCalls
  <2>2. r = AssertFails
    BY <2>1 DEF Throws, AssertFails
  <2> QED
    BY <1>5, <1>14, <1>15, <2>2, PrintsOrFails
<1> QED
  BY <1>1, <1>6, <1>7, <1>8, <1>9, <1>10, <1>11, <1>12, <1>13, <1>15 DEF ArgTypes

-----------------------------------------------------------------------------
(* A format string of one field. *)

\* No exception has the name of the end of a call.
NamedError == phase = "thrown" => error # "done"

\* The exceptions are named as what is meant names them.
LEMMA ErrorNamed == NamedError /\ [Next]_vars => NamedError'
<1> SUFFICES ASSUME NamedError, [Next]_vars, phase' = "thrown" PROVE error' # "done"
  BY DEF NamedError
<1>1. ASSUME NEW calls, NEW ph, NEW err, Deliver(calls, ph, err),
             ph # "thrown" \/ err # "done"
      PROVE  error' # "done"
  <2>1. error' = "unicode_error" \/ (phase' = ph /\ error' = err)
    BY <1>1, DeliverTakes
  <2> QED
    BY <1>1, <2>1
<1>2. ASSUME NEW j \in Jobs, phase = "idle", Call(j) PROVE FALSE
  BY <1>2 DEF Call
<1>3. CASE Literal \/ Flag \/ Width
  BY <1>3 DEF Literal, Flag, Width
<1>4. CASE Escape
  <2>1. Deliver(append(SubSeq(job.fmt, pos + 1, next)), "prefix", error)
    BY <1>4 DEF Escape
  <2> QED
    BY <1>1, <2>1
<1>5. CASE Reach
  <2>1. PICK ph : ph \in {"finish", "done"} /\ Deliver(Prefix, ph, error)
    BY <1>5 DEF Reach
  <2> QED
    BY <1>1, <2>1
<1>6. CASE EnterField
  <2>1. Deliver(Prefix, "thrown", "out_of_range") \/ Deliver(Prefix, "spec", error)
    BY <1>6 DEF EnterField
  <2> QED
    BY <1>1, <2>1
<1>7. CASE PadGroup \/ NumberGroup \/ BadGroup
  BY <1>7 DEF PadGroup, NumberGroup, BadGroup, Fail
<1>8. CASE Apply
  <2>1. error' \in {"out_of_range", "unicode_error"} \/ \E calls : \E ph \in {"prefix", "aborted"} : Deliver(calls, ph, error)
    BY <1>8 DEF Apply, Fail
  <2> QED
    BY <1>1, <2>1
<1>9. CASE MakeString
  BY <1>9 DEF MakeString
<1>10. CASE Return
  BY <1>10 DEF Return
<1>11. CASE UNCHANGED vars
  BY <1>11 DEF vars, NamedError
<1> QED
  BY <1>2, <1>3, <1>4, <1>5, <1>6, <1>7, <1>8, <1>9, <1>10, <1>11 DEF Next, Step

\* What a format string of one field means, when there is one argument.
LEMMA OneFieldMeans ==
  ASSUME NEW j \in Jobs, OneField(j.fmt), Len(j.args) = 1,
         NEW s, s = Settings(GroupsFrom(j.fmt)[1].groups),
         NEW r, r = format_type(s, j.args[1])
  PROVE  /\ s \in Specs /\ s.precision \in Nat \cup {-1} /\ j.args[1] \in Args
         /\ \/ Entire(j) = Meant(<<>>, "out_of_range")
            \/ Entire(j) = Meant(All(r.calls), IF r.ok THEN "done" ELSE Unprinted(j.args[1]))
<1>1. j.fmt \in Seq(Nat) /\ j.args \in Seq(Args) /\ Len(j.fmt) \in Nat
  BY JobText
<1>2. PICK f : f = j.fmt
  OBVIOUS
<1>3. /\ f[1] = Open /\ f[2] # Open /\ Len(f) > 1
      /\ GroupsFrom(f)[1].kind = "field" /\ GroupsFrom(f)[1].end = Len(f)
  BY <1>2 DEF OneField
<1>4. ~Brace(f, 0)
  <2>1. 0 + 1 = 1 /\ 0 + 2 = 2
    OBVIOUS
  <2> QED
    BY <1>3, <2>1 DEF Brace
<1>5. PICK g \in Parses : g = GroupsFrom(f)[1]
  BY <1>1, <1>2, ParsedFacts
<1>6. Behind(f, 0) = Len(f)
  <2>1. 0 + 1 = 1
    OBVIOUS
  <2> QED
    BY <1>3, <1>4, <2>1 DEF Behind
<1>7. s \in Specs /\ s.precision \in Nat \cup {-1}
  BY <1>2, <1>5, SettingsType DEF Parses
<1>8. DOMAIN j.args = {1} /\ j.args # <<>> /\ j.args[1] \in Args
  BY <1>1
<1>9. PICK a \in Args : a = j.args[1]
  BY <1>8
<1>10. Entire(j) = FieldMeans(f, 0, j.args, 0, MeaningFrom(f, j.args)[Len(f)])
  <2>1. Entire(j) = FieldMeans(j.fmt, 0, j.args, 0, MeaningFrom(j.fmt, j.args)[Behind(j.fmt, 0)])
    <3>1. 0 \in Nat /\ 0 < Len(j.fmt) /\ 0 + 1 = 1
      BY <1>1, <1>2, <1>3
    <3>2. ~(Brace(j.fmt, 0) \/ j.fmt[0 + 1] # Open)
      BY <1>2, <1>3, <1>4, <3>1
    <3> QED
      BY <3>1, <3>2, AheadFacts DEF Entire
  <2> QED
    BY <1>2, <1>6, <2>1
<1>11. PICK k : k = Which(s, 0)
  OBVIOUS
<1>12. PICK rest : rest = MeaningFrom(f, j.args)[Len(f)]
  OBVIOUS
<1>13. Entire(j) = IF k \notin DOMAIN j.args THEN Meant(<<>>, "out_of_range")
                   ELSE IF j.args[k].type = "ill_formed" THEN Meant(<<>>, "unicode_error")
                   ELSE IF format_type(s, j.args[k]).ok
                   THEN After(All(format_type(s, j.args[k]).calls), rest[Taken(s, 0)])
                   ELSE Meant(All(format_type(s, j.args[k]).calls), "aborted")
  <2>1. 0 + 1 = 1
    OBVIOUS
  <2> QED
    BY <1>2, <1>3, <1>8, <1>10, <1>11, <1>12, <2>1, Zenon DEF FieldMeans
<1>14. CASE k \notin DOMAIN j.args
  BY <1>7, <1>8, <1>13, <1>14
<1>15. CASE k \in DOMAIN j.args
  <2>1. k = 1
    BY <1>8, <1>15
  <2>2. PICK t : t = All(r.calls)
    OBVIOUS
  <2>3. rest[Taken(s, 0)] = Meant(<<>>, "done")
    <3>1. PICK q \in Nat : q = Taken(s, 0)
      <4>1. s.arg_index \in Nat \cup {-1}
        BY <1>2, <1>5, SettingsType DEF Parses
      <4> QED
        BY DEF Taken
    <3>2. Ahead(j, Len(j.fmt), q) = Meant(<<>>, "done")
      <4>1. PICK n \in Nat : n = Len(j.fmt)
        BY <1>1
      <4>2. n >= Len(j.fmt) => Ahead(j, n, q) = Meant(<<>>, "done")
        BY AheadFacts
      <4>3. n >= Len(j.fmt)
        BY <4>1
      <4> QED
        BY <4>1, <4>2, <4>3
    <3> QED
      BY <1>2, <1>12, <3>1, <3>2 DEF Ahead
  <2>4. t \in Seq(Nat)
    <3>1. format_type(s, a) \in Printings
      BY <1>7, PrintedFacts
    <3>2. r.calls \in Seq(Calls)
      BY <1>9, <3>1 DEF Printings
    <3> QED
      BY <2>2, <3>2, AllFacts
  <2>5. After(t, Meant(<<>>, "done")) = Meant(t, "done")
    BY <2>4, JoinedToNone DEF After, Meant
  <2>6. Entire(j) = IF r.ok THEN After(t, Meant(<<>>, "done")) ELSE Meant(t, Unprinted(a))
    <3>1. PICK m : m = After(t, Meant(<<>>, "done"))
      OBVIOUS
    <3>2. Entire(j) = IF a.type = "ill_formed" THEN Meant(<<>>, "unicode_error")
                      ELSE IF r.ok THEN m ELSE Meant(All(r.calls), "aborted")
      BY <1>9, <1>13, <1>15, <2>1, <2>2, <2>3, <3>1
    <3>3. r = format_type(s, a)
      BY <1>9
    <3>4. Entire(j) = IF r.ok THEN m ELSE Meant(All(r.calls), Unprinted(a))
      BY <1>7, <3>2, <3>3, NoneOfIllFormed
    <3> QED
      BY <2>2, <3>1, <3>4
  <2> QED
    BY <1>7, <1>8, <1>9, <2>2, <2>5, <2>6
<1> QED
  BY <1>14, <1>15

\* A call has a job until it returns, and an exception has a name.
LEMMA EndedJob ==
  ASSUME FInv, Ended
  PROVE  job \in Jobs
  BY DEF FInv, Ended

\* A field by itself prints its argument under its settings.
LEMMA FieldPrinted == FInv /\ NamedError /\ InterpretsFormat => FieldsPadded
<1> SUFFICES ASSUME FInv, NamedError, InterpretsFormat, Ended, job.sink = "stream", OneField(job.fmt),
                    Len(job.args) = 1, Outcome # "out_of_range"
             PROVE  Prints(Settings(GroupsFrom(job.fmt)[1].groups), job.args[1], All(out), phase = "done")
  BY DEF FieldsPadded
<1>1. PICK s : s = Settings(GroupsFrom(job.fmt)[1].groups)
  OBVIOUS
<1>2. PICK r : r = format_type(s, job.args[1])
  OBVIOUS
<1>3. PICK t : t = All(r.calls)
  OBVIOUS
<1>4. /\ s \in Specs /\ s.precision \in Nat \cup {-1} /\ job.args[1] \in Args
      /\ \/ Entire(job) = Meant(<<>>, "out_of_range")
         \/ Entire(job) = Meant(t, IF r.ok THEN "done" ELSE Unprinted(job.args[1]))
  BY <1>1, <1>2, <1>3, EndedJob, OneFieldMeans
<1>5. PICK a \in Args : a = job.args[1]
  BY <1>4
<1>6. Prints(s, a, t, r.ok)
  BY <1>2, <1>3, <1>4, <1>5, PrintsIs
<1>7. Meaning = Entire(job)
  BY DEF Meaning, Entire, Ahead
<1>8. Outcome = Meaning.outcome /\ All(out) = Meaning.text
  <2>1. Meaning.outcome # "odd"
    BY <1>4, <1>7 DEF Meant, Unprinted
  <2> QED
    BY <2>1 DEF InterpretsFormat
<1>9. (IF r.ok THEN Outcome = "done" ELSE Outcome \in {"unicode_error", "aborted"}) /\ All(out) = t
  BY <1>4, <1>7, <1>8 DEF Meant, Unprinted
<1>10. CASE r.ok
  <2>1. phase = "done"
    BY <1>9, <1>10 DEF Outcome, NamedError
  <2>2. PICK ok \in BOOLEAN : ok = r.ok
    <3>1. r.ok \in BOOLEAN
      BY <1>2, <1>4, PrintedFacts DEF Printings
    <3> QED
      BY <3>1
  <2>3. Prints(s, a, t, ok)
    BY <1>6, <2>2
  <2>4. ok = TRUE /\ (phase = "done") = TRUE
    BY <1>10, <2>1, <2>2
  <2>5. Prints(s, a, t, phase = "done")
    BY <2>3, <2>4
  <2> QED
    BY <1>1, <1>5, <1>9, <2>5
<1>11. CASE ~r.ok
  <2>1. phase # "done"
    BY <1>9, <1>11 DEF Outcome
  <2>2. PICK ok \in BOOLEAN : ok = r.ok
    <3>1. r.ok \in BOOLEAN
      BY <1>2, <1>4, PrintedFacts DEF Printings
    <3> QED
      BY <3>1
  <2>3. Prints(s, a, t, ok)
    BY <1>6, <2>2
  <2>4. ok = FALSE /\ (phase = "done") = FALSE
    BY <1>11, <2>1, <2>2
  <2>5. Prints(s, a, t, phase = "done")
    BY <2>3, <2>4
  <2> QED
    BY <1>1, <1>5, <1>9, <2>5
<1> QED
  BY <1>10, <1>11

\* For every field and every argument, a field by itself prints the argument
\* as the field says: the cut and the padding of a text, the sign, the prefix
\* and the digits of a number, which read back to it, and where an assertion
\* fails (st_formatter.h, format_string, format_numeric_impl, format_char,
\* format_double).
THEOREM FieldPads == Spec => []FieldsPadded
<1>1. Init => NamedError
  BY DEF Init, NamedError
<1>2. Spec => []NamedError
  BY <1>1, ErrorNamed, PTL DEF Spec
<1> QED
  BY <1>2, FInvHolds, FormatInterpreted, FieldPrinted, PTL

-----------------------------------------------------------------------------
(* Texts that are valid, and texts cleaned up. *)

\* One turn of from_utf8's validation, when the rest is f.
ValidAt(u, f, p) ==
  p = Len(u) \/ (validate_utf8(u, p).error = success /\ f[p + validate_utf8(u, p).len])

\* A text is valid when it reads without a fault.
LEMMA ValidIs ==
  ASSUME NEW u \in Seq(Nat)
  PROVE  Valid(u) <=> ~Faulty(Points(u))
<1>1. PICK n \in Nat : n = Len(u)
  BY LenProperties
<1> DEFINE is(g) == g = [p \in 0 .. n |-> ValidAt(u, g, p)]
           h == [p \in 0 .. n |-> ~Faulty(PointsFrom(u)[p])]
<1>2. ASSUME NEW p \in 0 .. n, p # n
      PROVE  /\ validate_utf8(u, p).error = success => p + validate_utf8(u, p).len \in p + 1 .. n
             /\ ~Faulty(PointsFrom(u)[p]) <=>
                  (validate_utf8(u, p).error = success /\ ~Faulty(PointsFrom(u)[p + validate_utf8(u, p).len]))
  <2>1. p \in 0 .. Len(u) - 1
    BY <1>1, <1>2
  <2>2. PICK v : v = validate_utf8(u, p)
    OBVIOUS
  <2>3. PICK r : r = extract_utf8(u, p)
    OBVIOUS
  <2>4. (v.error = success <=> char_error(r.ch) = success) /\ (v.error = success => v.len = r.len)
    BY <2>1, <2>2, <2>3, ValidatesTheSame
  <2>5. r.len \in 1 .. n - p
        /\ (Faulty(PointsFrom(u)[p]) <=> char_error(r.ch) # success \/ Faulty(PointsFrom(u)[p + r.len]))
    BY <1>1, <2>1, <2>3, FaultsAhead
  <2>6. p + r.len \in p + 1 .. n
    <3>1. PICK l : l = r.len
      OBVIOUS
    <3>2. p + l \in p + 1 .. n
      BY <2>5, <3>1
    <3> QED
      BY <3>1, <3>2
  <2> QED
    BY <2>2, <2>4, <2>5, <2>6
<1>3. \A p \in 0 .. n : ValidAt(u, h, p) <=> ~Faulty(PointsFrom(u)[p])
  <2> SUFFICES ASSUME NEW p \in 0 .. n PROVE ValidAt(u, h, p) <=> ~Faulty(PointsFrom(u)[p])
    OBVIOUS
  <2>1. CASE p = n
    <3>1. PointsFrom(u)[p] = <<>>
      <4>1. p \in Nat /\ p >= Len(u)
        BY <1>1, <2>1
      <4> QED
        BY <4>1, PointsStep
    <3>2. ~Faulty(PointsFrom(u)[p])
      BY <3>1, OneCharacter
    <3>3. ValidAt(u, h, p)
      BY <1>1, <2>1 DEF ValidAt
    <3> QED
      BY <3>2, <3>3
  <2>2. CASE p # n
    <3>1. PICK q, e : q = p + validate_utf8(u, p).len /\ e = validate_utf8(u, p).error
      OBVIOUS
    <3>2. (e = success => q \in p + 1 .. n) /\ (~Faulty(PointsFrom(u)[p]) <=> (e = success /\ ~Faulty(PointsFrom(u)[q])))
      BY <1>2, <2>2, <3>1
    <3>3. ValidAt(u, h, p) <=> (e = success /\ h[q])
      BY <1>1, <2>2, <3>1 DEF ValidAt
    <3>4. e = success => q \in 0 .. n
      BY <3>2
    <3>5. e = success => (h[q] <=> ~Faulty(PointsFrom(u)[q]))
      BY <3>4, Zenon
    <3> HIDE DEF h
    <3> QED
      BY <3>2, <3>3, <3>5
  <2> QED
    BY <2>1, <2>2
<1>4. is(h)
  <2>1. \A p \in 0 .. n : ValidAt(u, h, p) = ~Faulty(PointsFrom(u)[p])
    <3> HIDE DEF h
    <3> QED
      BY <1>3, Zenon DEF ValidAt
  <2>2. PICK g : g = h
    OBVIOUS
  <2>3. [p \in 0 .. n |-> ~Faulty(PointsFrom(u)[p])] = [p \in 0 .. n |-> ValidAt(u, g, p)]
    BY <2>1, <2>2, Zenon
  <2> QED
    BY <2>2, <2>3, Zenon
<1>5. Valid(u) <=> (CHOOSE g : is(g))[0]
  BY <1>1 DEF Valid, ValidAt
<1>6. PICK g : g = CHOOSE gg : is(gg)
  OBVIOUS
<1>7. is(g)
  <2> HIDE DEF is
  <2> QED
    BY <1>4, <1>6
<1> DEFINE G == {k \in Nat : \A p \in 0 .. n : p + k >= n => (g[p] <=> ~Faulty(PointsFrom(u)[p]))}
<1>8. \A p \in 0 .. n : g[p] = ValidAt(u, g, p)
  <2>1. g = [p \in 0 .. n |-> ValidAt(u, g, p)]
    BY <1>7
  <2> QED
    BY <2>1, Zenon
<1>9. ASSUME NEW k \in Nat, \A j \in 0 .. k - 1 : j \in G PROVE k \in G
  <2> SUFFICES ASSUME NEW p \in 0 .. n, p + k >= n PROVE g[p] <=> ~Faulty(PointsFrom(u)[p])
    OBVIOUS
  <2>1. CASE p = n
    <3>1. PointsFrom(u)[p] = <<>>
      <4>1. p \in Nat /\ p >= Len(u)
        BY <1>1, <2>1
      <4> QED
        BY <4>1, PointsStep
    <3>2. ~Faulty(PointsFrom(u)[p])
      BY <3>1, OneCharacter
    <3>3. ValidAt(u, g, p)
      BY <1>1, <2>1 DEF ValidAt
    <3> QED
      BY <1>8, <3>2, <3>3
  <2>2. CASE p # n
    <3>1. PICK q, e : q = p + validate_utf8(u, p).len /\ e = validate_utf8(u, p).error
      OBVIOUS
    <3>2. (e = success => q \in p + 1 .. n) /\ (~Faulty(PointsFrom(u)[p]) <=> (e = success /\ ~Faulty(PointsFrom(u)[q])))
      BY <1>2, <2>2, <3>1
    <3>3. ValidAt(u, g, p) <=> (e = success /\ g[q])
      BY <1>1, <2>2, <3>1 DEF ValidAt
    <3>4. e = success => q \in 0 .. n /\ q + (k - 1) >= n /\ k - 1 \in 0 .. k - 1
      BY <2>2, <3>2
    <3>5. e = success => (g[q] <=> ~Faulty(PointsFrom(u)[q]))
      BY <1>9, <3>4
    <3> QED
      BY <1>8, <3>2, <3>3, <3>5
  <2> QED
    BY <2>1, <2>2
<1>10. n \in G
  <2> HIDE DEF G
  <2> QED
    BY <1>9, InductionOn
<1>11. 0 \in 0 .. n /\ 0 + n >= n
  OBVIOUS
<1>12. g[0] <=> ~Faulty(PointsFrom(u)[0])
  BY <1>10, <1>11
<1> QED
  BY <1>5, <1>6, <1>12 DEF Points

\* What is cleaned from a place on, when what is from those behind it is f.
CleanedAt(u, f, p) ==
  IF p = Len(u) THEN <<>> ELSE cleanup_utf8(u, p).units \o f[p + cleanup_utf8(u, p).len]

\* A text can be cleaned from its end on.
LEMMA CleanedExists ==
  ASSUME NEW u \in Seq(Nat)
  PROVE  \E f \in [0 .. Len(u) -> Seq(Nat)] : f = [p \in 0 .. Len(u) |-> CleanedAt(u, f, p)]
<1>1. PICK n \in Nat : n = Len(u)
  BY LenProperties
<1> DEFINE base == [p \in Nat |-> <<>>]
           succ == [p \in Nat |-> p + cleanup_utf8(u, p).len]
           step == [p \in Nat |-> [v \in Seq(Nat) |-> cleanup_utf8(u, p).units \o v]]
<1>2. \A p \in Nat : base[p] \in Seq(Nat)
  BY EmptySeq
<1>3. ASSUME NEW p \in Nat, p < n
      PROVE  cleanup_utf8(u, p).len \in 1 .. n - p /\ cleanup_utf8(u, p).units \in Seq(Nat)
  <2>1. p \in 0 .. Len(u) - 1
    BY <1>1, <1>3
  <2> QED
    BY <1>1, <2>1, Utf8Cleaned
<1>4. \A p \in Nat : p < n => succ[p] \in Nat /\ succ[p] > p /\ succ[p] <= n
  <2> SUFFICES ASSUME NEW p \in Nat, p < n PROVE succ[p] \in Nat /\ succ[p] > p /\ succ[p] <= n
    OBVIOUS
  <2>1. PICK l \in 1 .. n - p : l = cleanup_utf8(u, p).len
    BY <1>3
  <2>2. succ[p] = p + l
    BY <2>1
  <2> HIDE DEF succ
  <2> QED
    BY <2>2
<1>5. \A p \in Nat : p < n => \A v \in Seq(Nat) : step[p][v] \in Seq(Nat)
  <2> SUFFICES ASSUME NEW p \in Nat, p < n, NEW v \in Seq(Nat) PROVE step[p][v] \in Seq(Nat)
    OBVIOUS
  <2>1. PICK s \in Seq(Nat) : s = cleanup_utf8(u, p).units
    BY <1>3
  <2>2. step[p][v] = s \o v
    BY <2>1
  <2> HIDE DEF step
  <2> QED
    BY <2>2, Joined
<1>6. PICK h \in [Nat -> Seq(Nat)] : \A p \in Nat : h[p] = IF p < n THEN step[p][h[succ[p]]] ELSE base[p]
  <2>1. PICK b, c, t : b = base /\ c = succ /\ t = step
    OBVIOUS
  <2>2. /\ \A p \in Nat : b[p] \in Seq(Nat)
        /\ \A p \in Nat : p < n => c[p] \in Nat /\ c[p] > p
        /\ \A p \in Nat : p < n => \A v \in Seq(Nat) : t[p][v] \in Seq(Nat)
    <3> HIDE DEF base, succ, step
    <3> QED
      BY <1>2, <1>4, <1>5, <2>1
  <2>3. PICK S : S = Seq(Nat)
    OBVIOUS
  <2>4. IsForward(S, n, b, t, c)
    BY ONLY <2>2, <2>3, n \in Nat DEF IsForward
  <2>5. \E h \in [Nat -> S] : \A p \in Nat : h[p] = IF p < n THEN t[p][h[c[p]]] ELSE b[p]
    BY ONLY <2>4, ForwardExists
  <2> HIDE DEF base, succ, step
  <2> QED
    BY <2>1, <2>3, <2>5
<1> DEFINE f == [p \in 0 .. n |-> h[p]]
<1>7. f \in [0 .. n -> Seq(Nat)]
  OBVIOUS
<1>8. ASSUME NEW p \in 0 .. n PROVE h[p] = CleanedAt(u, f, p)
  <2>1. CASE p = n
    <3>1. p \in Nat /\ ~(p < n) /\ base[p] = <<>>
      BY <2>1
    <3> HIDE DEF base, succ, step, f
    <3>2. h[p] = <<>>
      BY <1>6, <3>1
    <3> QED
      BY <1>1, <2>1, <3>2 DEF CleanedAt
  <2>2. CASE p # n
    <3>1. p \in Nat /\ p < n
      BY <2>2
    <3>2. PICK l \in 1 .. n - p, s \in Seq(Nat) : l = cleanup_utf8(u, p).len /\ s = cleanup_utf8(u, p).units
      BY <1>3, <3>1
    <3>3. succ[p] = p + l /\ \A v \in Seq(Nat) : step[p][v] = s \o v
      BY <3>1, <3>2
    <3>4. p + l \in 0 .. n /\ p + l \in Nat
      BY <3>1
    <3>5. h[p] = s \o h[p + l]
      <4> HIDE DEF succ, step, base, f
      <4> QED
        BY <1>6, <3>1, <3>3, <3>4
    <3>6. f[p + l] = h[p + l]
      BY <3>4
    <3> HIDE DEF succ, step, base, f
    <3>7. CleanedAt(u, f, p) = s \o f[p + l]
      BY <1>1, <2>2, <3>2 DEF CleanedAt
    <3> QED
      BY <3>5, <3>6, <3>7
  <2> QED
    BY <2>1, <2>2
<1>9. PICK g : g = f
  OBVIOUS
<1>10. g \in [0 .. n -> Seq(Nat)] /\ g = [p \in 0 .. n |-> CleanedAt(u, g, p)]
  <2>1. [p \in 0 .. n |-> h[p]] = [p \in 0 .. n |-> CleanedAt(u, g, p)]
    <3> HIDE DEF f
    <3> QED
      BY <1>8, <1>9
  <2> QED
    BY <1>7, <1>9, <2>1
<1> QED
  BY <1>1, <1>10

\* Two pieces of a text, one behind the other.
LEMMA Pieces ==
  ASSUME NEW u \in Seq(Nat), NEW p \in Nat, NEW q \in Nat, p <= q, q <= Len(u)
  PROVE  /\ SubSeq(u, p + 1, q) \in Seq(Nat) /\ SubSeq(u, p + 1, Len(u)) \in Seq(Nat)
         /\ SubSeq(u, p + 1, Len(u)) = SubSeq(u, p + 1, q) \o SubSeq(u, q + 1, Len(u))
         /\ p = Len(u) => SubSeq(u, p + 1, Len(u)) = <<>>
         /\ p = 0 => SubSeq(u, p + 1, Len(u)) = u
<1>1. PICK n \in Nat : n = Len(u)
  BY LenProperties
<1>2. ASSUME NEW a \in Nat, NEW b \in Nat, a <= b, b <= n
      PROVE  /\ SubSeq(u, a + 1, b) \in Seq(Nat) /\ Len(SubSeq(u, a + 1, b)) = b - a
             /\ \A i \in 1 .. b - a : SubSeq(u, a + 1, b)[i] = u[a + i]
  <2>1. \A i \in a + 1 .. b : u[i] \in Nat
    BY <1>1, <1>2, ElementOfSeq
  <2>2. a + 1 \in Int /\ b \in Int /\ (IF a + 1 <= b THEN b - (a + 1) + 1 ELSE 0) = b - a
        /\ b - (a + 1) + 1 = b - a /\ \A i \in Nat : (a + 1) + i - 1 = a + i
    BY <1>2
  <2> QED
    BY <2>1, <2>2, SubSeqProperties
<1>3. PICK x, y, z : x = SubSeq(u, p + 1, q) /\ y = SubSeq(u, q + 1, n) /\ z = SubSeq(u, p + 1, n)
  OBVIOUS
<1>4. /\ x \in Seq(Nat) /\ Len(x) = q - p /\ \A i \in 1 .. q - p : x[i] = u[p + i]
      /\ y \in Seq(Nat) /\ Len(y) = n - q /\ \A i \in 1 .. n - q : y[i] = u[q + i]
      /\ z \in Seq(Nat) /\ Len(z) = n - p /\ \A i \in 1 .. n - p : z[i] = u[p + i]
  <2>1. p <= n /\ q <= n /\ n <= n
    BY <1>1
  <2>2. x \in Seq(Nat) /\ Len(x) = q - p /\ \A i \in 1 .. q - p : x[i] = u[p + i]
    BY <1>2, <1>3, <2>1
  <2>3. y \in Seq(Nat) /\ Len(y) = n - q /\ \A i \in 1 .. n - q : y[i] = u[q + i]
    BY <1>2, <1>3, <2>1
  <2>4. z \in Seq(Nat) /\ Len(z) = n - p /\ \A i \in 1 .. n - p : z[i] = u[p + i]
    BY <1>2, <1>3, <2>1
  <2> QED
    BY <2>2, <2>3, <2>4
<1>5. PICK w : w = x \o y
  OBVIOUS
<1>6. /\ w \in Seq(Nat) /\ Len(w) = n - p
      /\ \A i \in 1 .. q - p : w[i] = x[i]
      /\ \A i \in 1 .. n - q : w[(q - p) + i] = y[i]
  <2>1. /\ w \in Seq(Nat) /\ Len(w) = Len(x) + Len(y)
        /\ \A i \in 1 .. Len(x) : w[i] = x[i]
        /\ \A i \in 1 .. Len(y) : w[Len(x) + i] = y[i]
    BY <1>4, <1>5, Joined, ZenonT(60)
  <2>2. Len(x) = q - p /\ Len(y) = n - q /\ (q - p) + (n - q) = n - p
    BY <1>4
  <2> QED
    BY <2>1, <2>2
<1>7. ASSUME NEW i \in 1 .. n - p PROVE z[i] = w[i]
  <2>1. CASE i <= q - p
    <3>1. i \in 1 .. q - p
      BY <2>1
    <3> QED
      BY <1>4, <1>6, <3>1
  <2>2. CASE i > q - p
    <3>1. i - (q - p) \in 1 .. n - q /\ (q - p) + (i - (q - p)) = i /\ q + (i - (q - p)) = p + i
      BY <2>2
    <3>2. w[i] = y[i - (q - p)] /\ y[i - (q - p)] = u[p + i]
      BY <1>4, <1>6, <3>1
    <3> QED
      BY <1>4, <3>2
  <2> QED
    BY <2>1, <2>2
<1>8. z = w
  BY <1>4, <1>6, <1>7, SeqEqual
<1>9. p = n => z = <<>>
  BY <1>4, EmptySeq
<1>10. p = 0 => z = u
  <2> SUFFICES ASSUME p = 0 PROVE z = u
    OBVIOUS
  <2>1. Len(z) = n /\ \A i \in 1 .. n : z[i] = u[i]
    BY <1>4
  <2> QED
    BY <1>1, <1>4, <2>1, SeqEqual
<1> QED
  BY <1>1, <1>3, <1>4, <1>5, <1>8, <1>9, <1>10

\* What cleanup_utf8 does of a sound text at a place is what is there.
LEMMA CleanedSame ==
  ASSUME NEW u \in Seq(Nat), NEW p \in 0 .. Len(u) - 1, char_error(extract_utf8(u, p).ch) = success
  PROVE  cleanup_utf8(u, p).units = SubSeq(u, p + 1, p + cleanup_utf8(u, p).len)
<1>1. PICK n : n = Announced(u[p + 1])
  OBVIOUS
<1>2. n # 0 /\ Whole(u, p, n)
  BY <1>1, BrokenReads
<1> QED
  BY <1>1, <1>2 DEF cleanup_utf8

\* What is cleaned has no faults, and a text without any is left as it is.
LEMMA CleanedIs ==
  ASSUME NEW u \in Seq(Nat)
  PROVE  /\ Cleaned(u) \in Seq(Nat) /\ ~Faulty(Points(Cleaned(u)))
         /\ ~Faulty(Points(u)) => Cleaned(u) = u
<1>1. PICK n \in Nat : n = Len(u)
  BY LenProperties
<1> DEFINE is(g) == g = [p \in 0 .. n |-> CleanedAt(u, g, p)]
<1>2. \E g : is(g)
  BY <1>1, CleanedExists
<1>3. Cleaned(u) = (CHOOSE g : is(g))[0]
  BY <1>1 DEF Cleaned, CleanedAt
<1>4. PICK g : g = CHOOSE gg : is(gg)
  OBVIOUS
<1>5. is(g)
  <2> HIDE DEF is
  <2> QED
    BY <1>2, <1>4
<1>6. \A p \in 0 .. n : g[p] = CleanedAt(u, g, p)
  <2>1. g = [p \in 0 .. n |-> CleanedAt(u, g, p)]
    BY <1>5
  <2> QED
    BY <2>1, Zenon
<1> DEFINE Right(p) == /\ g[p] \in Seq(Nat) /\ ~Faulty(Points(g[p]))
                       /\ ~Faulty(PointsFrom(u)[p]) => g[p] = SubSeq(u, p + 1, n)
           G == {k \in Nat : \A p \in 0 .. n : p + k >= n => Right(p)}
<1>7. ASSUME NEW k \in Nat, \A j \in 0 .. k - 1 : j \in G PROVE k \in G
  <2> SUFFICES ASSUME NEW p \in 0 .. n, p + k >= n PROVE Right(p)
    OBVIOUS
  <2>1. CASE p = n
    <3>1. g[p] = <<>>
      BY <1>1, <1>6, <2>1 DEF CleanedAt
    <3>2. SubSeq(u, p + 1, n) = <<>>
      BY <1>1, <2>1, Pieces
    <3> QED
      BY <3>1, <3>2, EmptySeq, PointsOfNone
  <2>2. CASE p # n
    <3>1. p \in 0 .. Len(u) - 1 /\ p \in Nat
      BY <1>1, <2>2
    <3>2. PICK c : c = cleanup_utf8(u, p)
      OBVIOUS
    <3>3. PICK r : r = extract_utf8(u, p)
      OBVIOUS
    <3>4. PICK s \in Seq(Nat), l \in 1 .. n - p : s = c.units /\ l = c.len /\ ~Faulty(Points(s)) /\ l = r.len
      <4>1. c.units \in Seq(Nat) /\ c.len \in 1 .. n - p
        BY <1>1, <3>1, <3>2, Utf8Cleaned
      <4>2. ~Faulty(Points(c.units)) /\ c.len = r.len
        BY <3>1, <3>2, <3>3, CleanedReads
      <4> QED
        BY <4>1, <4>2
    <3>5. PICK q \in Nat : q = p + l /\ q \in 0 .. n /\ p <= q
      BY <3>1
    <3>6. g[p] = s \o g[q]
      BY <1>1, <1>6, <2>2, <3>2, <3>4, <3>5 DEF CleanedAt
    <3>7. Right(q)
      <4>1. q + (k - 1) >= n /\ k - 1 \in 0 .. k - 1
        BY <2>2, <3>5
      <4> HIDE DEF Right
      <4> QED
        BY <1>7, <3>5, <4>1
    <3>8. PICK t \in Seq(Nat) : t = g[q] /\ ~Faulty(Points(t))
      BY <3>7
    <3>9. g[p] \in Seq(Nat) /\ ~Faulty(Points(g[p]))
      <4>1. s \o t \in Seq(Nat)
        BY Joined
      <4>2. ~Faulty(Points(s \o t))
        BY <3>4, <3>8, PointsOfBoth
      <4> QED
        BY <3>6, <3>8, <4>1, <4>2
    <3>10. ASSUME ~Faulty(PointsFrom(u)[p]) PROVE g[p] = SubSeq(u, p + 1, n)
      <4>1. char_error(r.ch) = success /\ ~Faulty(PointsFrom(u)[p + r.len])
        BY <3>1, <3>3, <3>10, FaultsAhead
      <4>2. s = SubSeq(u, p + 1, q)
        BY <3>1, <3>2, <3>3, <3>4, <3>5, <4>1, CleanedSame
      <4>3. t = SubSeq(u, q + 1, n)
        BY <3>4, <3>5, <3>7, <3>8, <4>1
      <4>4. SubSeq(u, p + 1, n) = SubSeq(u, p + 1, q) \o SubSeq(u, q + 1, n)
        BY <1>1, <3>1, <3>5, Pieces
      <4> QED
        BY <3>6, <3>8, <4>2, <4>3, <4>4
    <3> QED
      BY <3>9, <3>10
  <2> QED
    BY <2>1, <2>2
<1>8. n \in G
  <2> HIDE DEF G
  <2> QED
    BY <1>7, InductionOn
<1>9. 0 \in 0 .. n /\ 0 + n >= n
  OBVIOUS
<1>10. Right(0)
  <2> HIDE DEF Right
  <2> QED
    BY <1>8, <1>9
<1>11. SubSeq(u, 0 + 1, n) = u
  <2>1. 0 \in Nat /\ 0 <= 0 /\ 0 <= Len(u)
    BY <1>1
  <2> QED
    BY <1>1, <2>1, Pieces
<1> QED
  BY <1>3, <1>4, <1>10, <1>11 DEF Points

-----------------------------------------------------------------------------
(* What the writers make of a text. *)

\* n texts, w, and the characters of each, v, joined.
JoinedPoints(n, w, v, f, g) ==
  /\ n \in Nat /\ IsJoin(f, n, w) /\ IsJoin(g, n, v)
  /\ \A i \in 1 .. n : w[i] \in Seq(Nat) /\ ~Faulty(Points(w[i])) /\ v[i] = Points(w[i])

PointsJoined(n, f, g) == f[n] \in Seq(Nat) /\ ~Faulty(Points(f[n])) /\ g[n] = Points(f[n])

\* The characters of texts without a fault are those of all joined.
LEMMA PointsOfJoin ==
  ASSUME NEW n, NEW w, NEW v, NEW f, NEW g, JoinedPoints(n, w, v, f, g)
  PROVE  PointsJoined(n, f, g)
<1>1. n \in Nat /\ IsJoin(f, n, w) /\ IsJoin(g, n, v)
  BY DEF JoinedPoints
<1>2. \A i \in 1 .. n : w[i] \in Seq(Nat) /\ ~Faulty(Points(w[i])) /\ v[i] = Points(w[i])
  BY DEF JoinedPoints
<1>3. f[0] = <<>> /\ \A i \in 1 .. n : f[i] = f[i - 1] \o w[i]
  BY ONLY <1>1, JoinStep
<1>4. g[0] = <<>> /\ \A i \in 1 .. n : g[i] = g[i - 1] \o v[i]
  BY ONLY <1>1, JoinStep
<1> DEFINE G == {k \in Nat : k <= n => PointsJoined(k, f, g)}
<1>5. ASSUME NEW k \in Nat, \A j \in 0 .. k - 1 : j \in G PROVE k \in G
  <2> SUFFICES ASSUME k <= n PROVE PointsJoined(k, f, g)
    OBVIOUS
  <2>1. CASE k = 0
    BY <1>3, <1>4, <2>1, PointsOfNone, EmptySeq DEF PointsJoined
  <2>2. CASE k # 0
    <3>1. k - 1 \in 0 .. k - 1 /\ k - 1 <= n /\ k \in 1 .. n
      BY <1>1, <2>2
    <3>2. PICK a, b, c, d : a = f[k - 1] /\ b = w[k] /\ c = g[k - 1] /\ d = v[k]
      OBVIOUS
    <3>3. a \in Seq(Nat) /\ ~Faulty(Points(a)) /\ c = Points(a)
      BY <1>5, <3>1, <3>2 DEF PointsJoined
    <3>4. b \in Seq(Nat) /\ ~Faulty(Points(b)) /\ d = Points(b)
      BY <1>2, <3>1, <3>2
    <3>5. a \o b \in Seq(Nat)
      BY ONLY <3>3, <3>4, Joined
    <3>6. Points(a \o b) = c \o d /\ ~Faulty(Points(a \o b))
      BY ONLY <3>3, <3>4, PointsOfBoth
    <3>7. f[k] = a \o b /\ g[k] = c \o d
      BY <1>3, <1>4, <3>1, <3>2
    <3> QED
      BY <3>5, <3>6, <3>7 DEF PointsJoined
  <2> QED
    BY <2>1, <2>2
<1>6. n \in G
  <2> HIDE DEF G
  <2> QED
    BY <1>1, <1>5, InductionOn
<1> QED
  BY <1>1, <1>6

\* The prefixes of a text are its units joined one by one.
LEMMA UnitsJoined ==
  ASSUME NEW u \in Seq(Nat), NEW n \in Nat, n = Len(u), NEW v, \A i \in 1 .. n : v[i] = <<u[i]>>
  PROVE  IsJoin([i \in 0 .. n |-> SubSeq(u, 1, i)], n, v) /\ SubSeq(u, 1, n) = u
<1> DEFINE g == [i \in 0 .. n |-> SubSeq(u, 1, i)]
<1>1. ASSUME NEW i \in 0 .. n PROVE g[i] = IF i = 0 THEN <<>> ELSE g[i - 1] \o v[i]
  <2>1. CASE i = 0
    <3>1. SubSeq(u, 0 + 1, 0) = <<>>
      BY PieceFacts
    <3> QED
      BY <2>1, <3>1
  <2>2. CASE i # 0
    <3>1. PICK b \in Nat : b = i - 1
      BY <2>2
    <3>2. b < Len(u) /\ b <= Len(u) /\ 0 <= b /\ i = b + 1 /\ i \in 1 .. n /\ b \in 0 .. n
      BY <2>2, <3>1
    <3>3. PICK x, y : x = SubSeq(u, 1, b) /\ y = SubSeq(u, 1, i)
      OBVIOUS
    <3>4. y = x \o <<u[i]>>
      <4>1. SubSeq(u, 0 + 1, b + 1) = SubSeq(u, 0 + 1, b) \o <<u[b + 1]>>
        BY <3>2, PieceFacts
      <4>2. 0 + 1 = 1
        OBVIOUS
      <4> QED
        BY <3>2, <3>3, <4>1, <4>2
    <3>5. g[i] = y /\ g[b] = x
      BY <3>2, <3>3
    <3>6. v[i] = <<u[i]>>
      BY <3>2
    <3> HIDE DEF g
    <3> QED
      BY <2>2, <3>1, <3>4, <3>5, <3>6
  <2> QED
    BY <2>1, <2>2
<1>2. IsJoin(g, n, v)
  <2>1. PICK h : h = g
    OBVIOUS
  <2>2. g = [i \in 0 .. n |-> IF i = 0 THEN <<>> ELSE h[i - 1] \o v[i]]
    BY <1>1, <2>1
  <2> QED
    BY <2>1, <2>2 DEF IsJoin
<1>3. SubSeq(u, 1, n) = u
  <2>1. SubSeq(u, 0 + 1, Len(u)) = u
    BY Pieces
  <2> QED
    BY <2>1
<1> QED
  BY <1>2, <1>3

\* Each byte is taken for the character of its number.
LEMMA Latin1Is ==
  ASSUME NEW u \in Seq(Nat), \A i \in 1 .. Len(u) : u[i] <= MaxCode
  PROVE  FromLatin1(u) \in Seq(Nat) /\ Points(FromLatin1(u)) = u
<1>1. PICK n \in Nat : n = Len(u)
  BY LenProperties
<1>2. PICK w : w = [i \in 1 .. n |-> write_utf8(u[i])]
  OBVIOUS
<1>3. PICK v : v = [i \in 1 .. n |-> <<u[i]>>]
  OBVIOUS
<1>4. \A i \in 1 .. n : w[i] = write_utf8(u[i]) /\ v[i] = <<u[i]>>
  BY <1>2, <1>3
<1> DEFINE is(f) == f = [i \in 0 .. n |-> IF i = 0 THEN <<>> ELSE f[i - 1] \o write_utf8(u[i])]
<1>5. ASSUME NEW f PROVE is(f) <=> IsJoin(f, n, w)
  <2>1. \A i \in 0 .. n : i # 0 => w[i] = write_utf8(u[i])
    BY <1>4
  <2>2. [i \in 0 .. n |-> IF i = 0 THEN <<>> ELSE f[i - 1] \o write_utf8(u[i])]
          = [i \in 0 .. n |-> IF i = 0 THEN <<>> ELSE f[i - 1] \o w[i]]
    BY <2>1
  <2> QED
    BY <2>2 DEF IsJoin
<1>6. FromLatin1(u) = (CHOOSE f : is(f))[n]
  BY <1>1 DEF FromLatin1
<1>7. is(CHOOSE f : is(f))
  <2>1. \E f : IsJoin(f, n, w)
    BY JoinExists
  <2>2. \E f : is(f)
    BY <1>5, <2>1
  <2> HIDE DEF is
  <2> QED
    BY <2>2
<1>8. PICK f : f = CHOOSE ff : is(ff)
  OBVIOUS
<1>9. IsJoin(f, n, w) /\ FromLatin1(u) = f[n]
  BY <1>5, <1>6, <1>7, <1>8
<1>10. PICK g : g = [i \in 0 .. n |-> SubSeq(u, 1, i)]
  OBVIOUS
<1>11. IsJoin(g, n, v) /\ g[n] = u
  <2>1. \A i \in 1 .. n : v[i] = <<u[i]>>
    BY <1>4
  <2>2. IsJoin([i \in 0 .. n |-> SubSeq(u, 1, i)], n, v) /\ SubSeq(u, 1, n) = u
    BY ONLY <1>1, <2>1, UnitsJoined, u \in Seq(Nat)
  <2> QED
    BY <1>10, <2>2
<1>12. ASSUME NEW i \in 1 .. n
       PROVE  w[i] \in Seq(Nat) /\ ~Faulty(Points(w[i])) /\ v[i] = Points(w[i])
  <2>1. u[i] \in Nat /\ u[i] <= MaxCode
    BY <1>1, ElementOfSeq
  <2> QED
    BY <1>4, <2>1, WrittenReads
<1>13. JoinedPoints(n, w, v, f, g)
  BY <1>9, <1>11, <1>12 DEF JoinedPoints
<1>14. PointsJoined(n, f, g)
  BY <1>13, PointsOfJoin
<1> QED
  BY <1>9, <1>11, <1>14 DEF PointsJoined

-----------------------------------------------------------------------------
\* A text of ASCII is its characters.
LEMMA AsciiReads ==
  ASSUME NEW u \in Seq(Nat), \A i \in 1 .. Len(u) : u[i] < 128
  PROVE  Points(u) = u /\ ~Faulty(Points(u))
<1>1. PICK n \in Nat : n = Len(u)
  BY LenProperties
<1>2. PICK v : v = [i \in 1 .. n |-> <<u[i]>>]
  OBVIOUS
<1>3. \A i \in 1 .. n : v[i] = <<u[i]>>
  BY <1>2
<1>4. PICK g : g = [i \in 0 .. n |-> SubSeq(u, 1, i)]
  OBVIOUS
<1>5. IsJoin(g, n, v) /\ g[n] = u
  <2>1. IsJoin([i \in 0 .. n |-> SubSeq(u, 1, i)], n, v) /\ SubSeq(u, 1, n) = u
    BY ONLY <1>1, <1>3, UnitsJoined, u \in Seq(Nat)
  <2> QED
    BY <1>4, <2>1
<1>6. ASSUME NEW i \in 1 .. n
      PROVE  v[i] \in Seq(Nat) /\ ~Faulty(Points(v[i])) /\ v[i] = Points(v[i])
  <2>1. u[i] \in Nat /\ u[i] < 128
    BY <1>1, ElementOfSeq
  <2>2. PICK c \in Nat : c = u[i] /\ c < 128
    BY <2>1
  <2>3. PICK e \in Seq(Nat) : e = <<>>
    BY EmptySeq
  <2>4. <<c>> \in Seq(Nat) /\ Points(<<c>>) = <<c>> /\ ~Faulty(Points(<<c>>))
    BY <2>2, <2>3, AsciiAhead
  <2>5. v[i] = <<c>>
    BY <1>3, <2>2
  <2> QED
    BY <2>4, <2>5
<1>7. JoinedPoints(n, v, v, g, g)
  BY <1>5, <1>6 DEF JoinedPoints
<1>8. PointsJoined(n, g, g)
  BY <1>7, PointsOfJoin
<1> QED
  BY <1>5, <1>8 DEF PointsJoined

\* A call that a wide stream shows as what it is: its text is valid, and a
\* char by itself is ASCII.
ShowsWell(c) ==
  IF c.raw THEN \A k \in 1 .. Len(c.text) : c.text[k] < 128 ELSE ~Faulty(Points(c.text))

\* What a wide stream shows of a call.
Shows(c) ==
  IF ~c.raw THEN Points(c.text)
  ELSE [k \in DOMAIN c.text |-> IF c.text[k] < 128 THEN c.text[k] ELSE c.text[k] - 256]

\* A call shows its characters.
LEMMA ShownIs ==
  ASSUME NEW c \in Calls, ShowsWell(c)
  PROVE  c.text \in Seq(Nat) /\ ~Faulty(Points(c.text)) /\ Shows(c) = Points(c.text)
<1>1. PICK t \in Seq(Nat) : t = c.text
  BY DEF Calls
<1>2. CASE ~c.raw
  BY <1>1, <1>2 DEF Shows, ShowsWell
<1>3. CASE c.raw
  <2>1. \A k \in 1 .. Len(t) : t[k] < 128
    BY <1>1, <1>3 DEF ShowsWell
  <2>2. Points(t) = t /\ ~Faulty(Points(t))
    BY <2>1, AsciiReads
  <2>3. Shows(c) = [k \in DOMAIN t |-> IF t[k] < 128 THEN t[k] ELSE t[k] - 256]
    BY <1>1, <1>3 DEF Shows
  <2>4. DOMAIN t = 1 .. Len(t) /\ t = [k \in DOMAIN t |-> t[k]]
    BY LenProperties
  <2>5. \A k \in DOMAIN t : (IF t[k] < 128 THEN t[k] ELSE t[k] - 256) = t[k]
    BY <2>1, <2>4
  <2>6. Shows(c) = t
    BY <2>3, <2>4, <2>5
  <2> QED
    BY <1>1, <2>2, <2>6
<1> QED
  BY <1>2, <1>3

\* What a wide stream holds is the characters of what it has been given.
LEMMA WideIs ==
  ASSUME out \in Seq(Calls), \A i \in 1 .. Len(out) : ShowsWell(out[i])
  PROVE  All(out) \in Seq(Nat) /\ ~Faulty(Points(All(out))) /\ WideText = Points(All(out))
<1>1. PICK n \in Nat : n = Len(out)
  BY LenProperties
<1>2. PICK w : w = TextsOf(out)
  OBVIOUS
<1>3. PICK f : IsJoin(f, n, w) /\ All(out) = f[n]
  BY <1>1, <1>2, AllJoins
<1>4. PICK v : v = [i \in 1 .. n |-> Shows(out[i])]
  OBVIOUS
<1>5. \A i \in 1 .. n : v[i] = Shows(out[i])
  BY <1>4
<1> DEFINE is(g) == g = [i \in 0 .. n |->
             IF i = 0 THEN <<>>
             ELSE g[i - 1] \o
                  IF ~out[i].raw THEN Points(out[i].text)
                  ELSE [k \in DOMAIN out[i].text |->
                          IF out[i].text[k] < 128 THEN out[i].text[k] ELSE out[i].text[k] - 256]]
<1>6. ASSUME NEW g PROVE is(g) <=> IsJoin(g, n, v)
  <2>1. \A i \in 0 .. n : i # 0 =>
          v[i] = IF ~out[i].raw THEN Points(out[i].text)
                 ELSE [k \in DOMAIN out[i].text |->
                         IF out[i].text[k] < 128 THEN out[i].text[k] ELSE out[i].text[k] - 256]
    BY <1>5 DEF Shows
  <2>2. [i \in 0 .. n |->
             IF i = 0 THEN <<>>
             ELSE g[i - 1] \o
                  IF ~out[i].raw THEN Points(out[i].text)
                  ELSE [k \in DOMAIN out[i].text |->
                          IF out[i].text[k] < 128 THEN out[i].text[k] ELSE out[i].text[k] - 256]]
          = [i \in 0 .. n |-> IF i = 0 THEN <<>> ELSE g[i - 1] \o v[i]]
    BY <2>1
  <2> QED
    BY <2>2 DEF IsJoin
<1>7. WideText = (CHOOSE g : is(g))[n]
  BY <1>1 DEF WideText
<1>8. is(CHOOSE g : is(g))
  <2>1. \E g : IsJoin(g, n, v)
    BY JoinExists
  <2>2. \E g : is(g)
    BY <1>6, <2>1
  <2> HIDE DEF is
  <2> QED
    BY <2>2
<1>9. PICK g : g = CHOOSE gg : is(gg)
  OBVIOUS
<1>10. IsJoin(g, n, v) /\ WideText = g[n]
  BY <1>6, <1>7, <1>8, <1>9
<1>11. ASSUME NEW i \in 1 .. n
       PROVE  w[i] \in Seq(Nat) /\ ~Faulty(Points(w[i])) /\ v[i] = Points(w[i])
  <2>1. PICK c \in Calls : c = out[i]
    BY <1>1, ElementOfSeq
  <2>2. w[i] = c.text /\ v[i] = Shows(c) /\ ShowsWell(c)
    BY <1>1, <1>2, <1>5, <2>1, AllJoins
  <2> QED
    BY <2>2, ShownIs
<1>12. JoinedPoints(n, w, v, f, g)
  BY <1>3, <1>10, <1>11 DEF JoinedPoints
<1>13. PointsJoined(n, f, g)
  BY <1>12, PointsOfJoin
<1> QED
  BY <1>3, <1>10, <1>13 DEF PointsJoined

-----------------------------------------------------------------------------
(* The padding a field asks for. *)

\* Every character to pad with is one of these.
PadsIn(g, S) == \A i \in 1 .. Len(g) : g[i][1] = Under => g[i][2] \in S

\* A field pads with one of the characters it names, with "0" or with none.
LEMMA PadChosen ==
  ASSUME NEW g \in Seq(Pairs), NEW S \in SUBSET Nat, 0 \in S, Zero \in S, PadsIn(g, S)
  PROVE  Settings(g).pad \in S
<1>1. PICK p : p = LastOf(g, {Under, Zero}, <<0, 0>>)
  OBVIOUS
<1>2. Settings(g).pad = PadOf(p)
  BY <1>1 DEF Settings, PadOf
<1>3. p = <<0, 0>> \/ \E i \in 1 .. Len(g) : p = g[i] /\ g[i][1] \in {Under, Zero}
  <2> DEFINE at == {i \in DOMAIN g : g[i][1] \in {Under, Zero}}
  <2>1. p = IF at = {} THEN <<0, 0>> ELSE g[Max(at)]
    BY <1>1 DEF LastOf
  <2>2. PICK n \in Nat : n = Len(g) /\ DOMAIN g = 1 .. n
    BY LenProperties
  <2>3. CASE at = {}
    BY <2>1, <2>3
  <2>4. CASE at # {}
    <3>1. at \in SUBSET (0 .. n)
      BY <2>2
    <3>2. Max(at) \in at
      <4> HIDE DEF at
      <4> QED
        BY <2>4, <3>1, MaxFacts
    <3>3. PICK m : m = Max(at)
      OBVIOUS
    <3>4. m \in DOMAIN g /\ g[m][1] \in {Under, Zero} /\ p = g[m]
      BY <2>1, <2>4, <3>2, <3>3
    <3> QED
      BY <2>2, <3>4
  <2> QED
    BY <2>3, <2>4
<1>4. CASE p = <<0, 0>>
  BY <1>2, <1>4 DEF PadOf, Zero
<1>5. CASE p # <<0, 0>>
  <2>1. PICK i \in 1 .. Len(g) : p = g[i] /\ g[i][1] \in {Under, Zero}
    BY <1>3, <1>5
  <2>2. p[1] = Zero \/ p[2] \in S
    BY <2>1 DEF PadsIn
  <2> QED
    BY <1>2, <2>2 DEF PadOf
<1> QED
  BY <1>4, <1>5

\* Beyond ASCII no group begins, and no field ends.
LEMMA NoGroupBegins ==
  ASSUME NEW c \in Nat, c >= 128
  PROVE  c \notin {Close, Under, Dot, Amp} /\ c \notin Digit /\ c \notin Single
<1>1. c \notin {Close, Under, Dot, Amp}
  BY DEF Close, Under, Dot, Amp
<1>2. c \notin Digit
  BY DEF Digit
<1>3. c \notin Single
  BY DEF Single
<1> QED
  BY <1>1, <1>2, <1>3

\* A field pads with characters that may be padded with.
LEMMA FieldPadsIn ==
  ASSUME NEW f \in Seq(Nat), NEW S,
         \A p \in Nat : /\ GroupAt(f, p).kind = "group" /\ GroupAt(f, p).is[1] = Under
                        /\ GroupsFrom(f)[GroupAt(f, p).end].kind = "field"
                        => GroupAt(f, p).is[2] \in S,
         NEW q \in Nat, GroupsFrom(f)[q].kind = "field"
  PROVE  PadsIn(GroupsFrom(f)[q].groups, S)
<1>1. PICK n \in Nat : n = Len(f)
  BY LenProperties
<1> DEFINE Ok(p) == GroupsFrom(f)[p].kind = "field" => PadsIn(GroupsFrom(f)[p].groups, S)
           G == {k \in Nat : \A p \in Nat : p + k >= n => Ok(p)}
<1>2. ASSUME NEW k \in Nat, \A j \in 0 .. k - 1 : j \in G PROVE k \in G
  <2> SUFFICES ASSUME NEW p \in Nat, p + k >= n, GroupsFrom(f)[p].kind = "field"
               PROVE  PadsIn(GroupsFrom(f)[p].groups, S)
    OBVIOUS
  <2>1. PICK g : g = GroupAt(f, p)
    OBVIOUS
  <2>2. CASE g.kind # "group"
    <3>1. GroupsFrom(f)[p] = [kind |-> g.kind, groups |-> <<>>, end |-> g.end]
      BY <2>1, <2>2, ParsedStep
    <3>2. PICK r : r = GroupsFrom(f)[p]
      OBVIOUS
    <3>3. r.groups = <<>>
      BY <3>1, <3>2
    <3> QED
      BY <3>2, <3>3 DEF PadsIn
  <2>3. CASE g.kind = "group"
    <3>1. PICK e \in Nat, x \in Pairs :
            /\ e = g.end /\ x = g.is
            /\ GroupsFrom(f)[p] = Put(<<x>>, GroupsFrom(f)[e])
      BY <2>1, <2>3, ParsedStep
    <3>2. e > p /\ e <= n
      BY <1>1, <2>1, <2>3, <3>1, GroupFacts
    <3>3. PICK r \in Parses : r = GroupsFrom(f)[e]
      BY ParsedStep
    <3>4. <<x>> \in Seq(Pairs) /\ Len(<<x>>) = 1 /\ <<x>>[1] = x
      OBVIOUS
    <3>5. r.kind = "field" /\ GroupsFrom(f)[p].groups = <<x>> \o r.groups
      <4>1. /\ Put(<<x>>, r).kind = r.kind
            /\ Put(<<x>>, r).groups = <<x>> \o r.groups
        BY <3>4, PutFacts
      <4>2. GroupsFrom(f)[p] = Put(<<x>>, r)
        BY <3>1, <3>3
      <4>3. PICK a : a = GroupsFrom(f)[p]
        OBVIOUS
      <4> QED
        BY <4>1, <4>2, <4>3
    <3>6. PadsIn(r.groups, S)
      <4>1. e + (k - 1) >= n /\ k - 1 \in 0 .. k - 1
        BY <3>2
      <4>2. Ok(e)
        <5> HIDE DEF Ok
        <5> QED
          BY <1>2, <4>1
      <4> QED
        BY <3>3, <3>5, <4>2
    <3>7. x[1] = Under => x[2] \in S
      BY <2>1, <2>3, <3>1, <3>3, <3>5
    <3> QED
      <4>1. PICK h \in Seq(Pairs) : h = r.groups
        BY <3>3 DEF Parses
      <4>2. PICK y : y = <<x>> \o h
        OBVIOUS
      <4>3. Len(y) = 1 + Len(h) /\ y[1] = x /\ \A i \in 1 .. Len(h) : y[1 + i] = h[i]
        BY <3>4, <4>1, <4>2, ConcatProperties
      <4>4. ASSUME NEW i \in 1 .. Len(y), y[i][1] = Under PROVE y[i][2] \in S
        <5>1. Len(h) \in Nat
          BY LenProperties
        <5>2. CASE i = 1
          BY <3>7, <4>3, <4>4, <5>2
        <5>3. CASE i # 1
          <6>1. i - 1 \in 1 .. Len(h) /\ 1 + (i - 1) = i
            BY <4>3, <5>1, <5>3
          <6>2. y[i] = h[i - 1]
            <7>1. PICK at \in 1 .. Len(h) : at = i - 1
              BY <6>1
            <7>2. y[1 + at] = h[at] /\ 1 + at = i
              BY <4>3, <6>1, <7>1
            <7> QED
              BY ONLY <7>1, <7>2
          <6>3. h[i - 1][1] = Under => h[i - 1][2] \in S
            BY <3>6, <4>1, <6>1 DEF PadsIn
          <6> QED
            BY ONLY <4>4, <6>2, <6>3
        <5> QED
          BY <5>2, <5>3
      <4> QED
        BY <3>5, <4>1, <4>2, <4>4 DEF PadsIn
  <2> QED
    BY <2>2, <2>3
<1>3. n \in G
  <2> HIDE DEF G
  <2> QED
    BY <1>2, InductionOn
<1>4. q + n >= n
  OBVIOUS
<1> QED
  BY <1>3, <1>4

\* What a group with a character to pad with is.
LEMMA UnderGroup ==
  ASSUME NEW f \in Seq(Nat), NEW p \in Nat, GroupAt(f, p).kind = "group", GroupAt(f, p).is[1] = Under
  PROVE  /\ p + 1 < Len(f) /\ p + 2 \in 1 .. Len(f) /\ f[p + 1] = Under
         /\ GroupAt(f, p).is[2] = f[p + 2] /\ GroupAt(f, p).end = p + 2
<1>1. PICK n \in Nat : n = Len(f)
  BY LenProperties
<1>2. /\ p + 1 < n /\ f[p + 1] = Under
      /\ GroupAt(f, p).is[2] = f[p + 2] /\ GroupAt(f, p).end = p + 2
  BY <1>1 DEF GroupAt, Begins, Numbered, Under, Dot, Amp, Close, Single, Digit, Zero
<1> QED
  BY <1>1, <1>2

\* A field pads with a byte.
LEMMA FieldPadsBytes ==
  ASSUME NEW f \in Seq(1 .. 255), NEW q \in Nat, GroupsFrom(f)[q].kind = "field"
  PROVE  PadsIn(GroupsFrom(f)[q].groups, 0 .. 255)
<1>1. f \in Seq(Nat)
  <2>1. 1 .. 255 \subseteq Nat
    OBVIOUS
  <2> QED
    BY <2>1, SeqMonotonic
<1>2. ASSUME NEW p \in Nat, GroupAt(f, p).kind = "group", GroupAt(f, p).is[1] = Under
      PROVE  GroupAt(f, p).is[2] \in 0 .. 255
  <2>1. p + 2 \in 1 .. Len(f) /\ GroupAt(f, p).is[2] = f[p + 2]
    BY <1>1, <1>2, UnderGroup
  <2>2. f[p + 2] \in 1 .. 255
    BY <2>1, ElementOfSeq
  <2> QED
    BY <2>1, <2>2
<1> QED
  BY <1>1, <1>2, FieldPadsIn

\* A field of a valid format string pads with ASCII: behind "_" and the first
\* byte of a longer character there is another byte of it, and no group and
\* no field's end begins with that.
LEMMA FieldPadsAscii ==
  ASSUME NEW f \in Seq(Nat), ~Faulty(Points(f)), NEW q \in Nat, GroupsFrom(f)[q].kind = "field"
  PROVE  PadsIn(GroupsFrom(f)[q].groups, 0 .. 127)
<1>1. PICK n \in Nat : n = Len(f)
  BY LenProperties
<1>2. ASSUME NEW p \in Nat, GroupAt(f, p).kind = "group", GroupAt(f, p).is[1] = Under,
             GroupsFrom(f)[GroupAt(f, p).end].kind = "field"
      PROVE  GroupAt(f, p).is[2] \in 0 .. 127
  <2>0. PICK e \in Nat : e = p + 2
    OBVIOUS
  <2>1. PICK c : c = GroupAt(f, p).is[2] /\ e = p + 2
    BY <2>0
  <2>2. p + 1 < n /\ e \in 1 .. n /\ f[p + 1] = Under /\ c = f[e] /\ GroupAt(f, p).end = e
    BY <1>1, <1>2, <2>1, UnderGroup
  <2>3. c \in Nat
    BY <1>1, <2>2, ElementOfSeq
  <2>4. CASE c >= 128
    <3>1. p < Len(f) /\ f[p + 1] < 128 /\ p + 1 < Len(f) /\ f[p + 2] >= 128
      BY <1>1, <2>1, <2>2, <2>4 DEF Under
    <3>2. p + 2 < Len(f) /\ f[p + 3] >= 128
      BY <3>1, BehindAscii
    <3>3. e < n /\ e + 1 \in 1 .. n /\ f[e + 1] >= 128
      BY <1>1, <2>1, <3>2
    <3>4. PICK d \in Nat : d = f[e + 1] /\ d >= 128
      BY <1>1, <3>3, ElementOfSeq
    <3>5. d \notin {Close, Under, Dot, Amp} /\ d \notin Digit /\ d \notin Single
      BY <3>4, NoGroupBegins
    <3>6. GroupAt(f, e).kind = "bad_format"
      BY <3>4, <3>5 DEF GroupAt, Begins
    <3>7. PICK h : h = GroupAt(f, e)
      OBVIOUS
    <3>8. GroupsFrom(f)[e] = [kind |-> h.kind, groups |-> <<>>, end |-> h.end]
      BY <3>6, <3>7, ParsedStep
    <3>9. GroupsFrom(f)[e].kind = "bad_format"
      BY <3>6, <3>7, <3>8
    <3> QED
      BY <1>2, <2>2, <3>9
  <2>5. CASE ~(c >= 128)
    <3>1. c \in 0 .. 127
      BY <2>3, <2>5
    <3> QED
      BY <2>1, <3>1
  <2> QED
    BY <2>4, <2>5
<1> QED
  BY <1>2, FieldPadsIn

-----------------------------------------------------------------------------
(* What the calls of a field are like. *)

\* The calls that printing an argument under these settings makes are all
\* among K.
Closing(K, s, a) ==
  /\ \A t \in Seq(0 .. 127) : \A b \in BOOLEAN : [raw |-> b, text |-> t] \in K
  /\ \A n \in Nat : n > 0 => [raw |-> TRUE, text |-> [i \in 1 .. n |-> Pad(s)]] \in K
  /\ \A t \in {a.text, a.imag} :
       /\ \A n \in 0 .. Len(t) : [raw |-> FALSE, text |-> SubSeq(t, 1, n)] \in K
       /\ [raw |-> FALSE, text |-> snprintf(s, t)] \in K
  /\ \A c \in Nat : c <= MaxCode => [raw |-> FALSE, text |-> write_utf8(c)] \in K
  /\ [raw |-> FALSE, text |-> BadChar.utf8] \in K
  /\ a.type = "char8" => [raw |-> TRUE, text |-> [i \in 1 .. 1 |-> a.value]] \in K

\* Calls of a kind.
LEMMA CallsOfKind ==
  ASSUME NEW K
  PROVE  /\ <<>> \in Seq(K)
         /\ \A t : [raw |-> FALSE, text |-> t] \in K => append(t) \in Seq(K)
         /\ \A c, n : (~(n <= 0) => [raw |-> TRUE, text |-> [i \in 1 .. n |-> c]] \in K) =>
              append_char(c, n) \in Seq(K)
         /\ \A x, y \in Seq(K) : x \o y \in Seq(K)
<1>1. \A x \in K : <<x>> \in Seq(K)
  OBVIOUS
<1>2. <<>> \in Seq(K)
  OBVIOUS
<1>3. ASSUME NEW t, [raw |-> FALSE, text |-> t] \in K PROVE append(t) \in Seq(K)
  BY <1>1, <1>3 DEF append
<1>4. ASSUME NEW c, NEW n, ~(n <= 0) => [raw |-> TRUE, text |-> [i \in 1 .. n |-> c]] \in K
      PROVE  append_char(c, n) \in Seq(K)
  <2>1. CASE n <= 0
    BY <1>2, <2>1 DEF append_char
  <2>2. CASE ~(n <= 0)
    <3>1. PICK x \in K : x = [raw |-> TRUE, text |-> [i \in 1 .. n |-> c]]
      BY <1>4, <2>2
    <3>2. append_char(c, n) = <<x>>
      BY <2>2, <3>1 DEF append_char
    <3> QED
      BY <1>1, <3>2
  <2> QED
    BY <2>1, <2>2
<1>5. \A x, y \in Seq(K) : x \o y \in Seq(K)
  BY ConcatProperties
<1> QED
  BY <1>2, <1>3, <1>4, <1>5

\* What is filled up, and single characters.
LEMMA FillsKept ==
  ASSUME NEW K, NEW s, NEW a, Closing(K, s, a)
  PROVE  /\ \A n \in Int : append_char(Pad(s), n) \in Seq(K)
         /\ \A c \in 0 .. 127 : append_char(c, 1) \in Seq(K)
         /\ \A t \in Seq(0 .. 127) : append(t) \in Seq(K)
<1>1. ASSUME NEW n \in Int PROVE append_char(Pad(s), n) \in Seq(K)
  <2>1. ~(n <= 0) => [raw |-> TRUE, text |-> [i \in 1 .. n |-> Pad(s)]] \in K
    <3>1. ~(n <= 0) => n \in Nat /\ n > 0
      OBVIOUS
    <3> QED
      BY <3>1 DEF Closing
  <2> QED
    BY <2>1, CallsOfKind
<1>2. ASSUME NEW c \in 0 .. 127 PROVE append_char(c, 1) \in Seq(K)
  <2>1. [i \in 1 .. 1 |-> c] \in Seq(0 .. 127)
    OBVIOUS
  <2>2. [raw |-> TRUE, text |-> [i \in 1 .. 1 |-> c]] \in K
    BY <2>1 DEF Closing
  <2> QED
    BY <2>2, CallsOfKind
<1>3. ASSUME NEW t \in Seq(0 .. 127) PROVE append(t) \in Seq(K)
  <2>1. [raw |-> FALSE, text |-> t] \in K
    BY DEF Closing
  <2> QED
    BY <2>1, CallsOfKind
<1> QED
  BY <1>1, <1>2, <1>3

\* format_string, of a text whose beginnings are of the kind.
LEMMA StringKept ==
  ASSUME NEW K, NEW s \in Specs, NEW a, Closing(K, s, a), NEW t \in Seq(Nat),
         \A n \in 0 .. Len(t) : [raw |-> FALSE, text |-> SubSeq(t, 1, n)] \in K
  PROVE  format_string(s, t) \in Seq(K)
<1>1. PICK k \in 0 .. Len(t) : k = Shown(s, t)
  BY StringCalls
<1>2. PICK piece \in Seq(K) : piece = append(SubSeq(t, 1, k))
  <2>1. PICK x : x = SubSeq(t, 1, k)
    OBVIOUS
  <2>2. [raw |-> FALSE, text |-> x] \in K
    BY <2>1
  <2>3. append(x) \in Seq(K)
    BY <2>2, CallsOfKind
  <2> QED
    BY <2>1, <2>3
<1>3. PICK fill \in Seq(K) : fill = append_char(Pad(s), s.minimum_length - k)
  <2>1. s.minimum_length - k \in Int
    <3>1. Len(t) \in Nat /\ s.minimum_length \in Int
      BY LenProperties DEF Specs
    <3> QED
      BY <3>1
  <2> QED
    BY <2>1, FillsKept
<1>4. format_string(s, t) = IF s.alignment = "right" THEN fill \o piece ELSE piece \o fill
  BY <1>1, <1>2, <1>3 DEF format_string, Shown
<1>5. fill \o piece \in Seq(K) /\ piece \o fill \in Seq(K)
  BY CallsOfKind
<1> QED
  BY <1>4, <1>5

\* The names of a bool are ASCII, and so are their beginnings.
LEMMA BoolKept ==
  ASSUME NEW K, NEW s \in Specs, NEW a, Closing(K, s, a), NEW v
  PROVE  format_string(s, BoolText(v)) \in Seq(K)
<1>1. PICK t \in Seq(0 .. 127) : t = BoolText(v)
  <2>1. <<116, 114, 117, 101>> \in Seq(0 .. 127) /\ <<102, 97, 108, 115, 101>> \in Seq(0 .. 127)
    OBVIOUS
  <2> QED
    BY <2>1 DEF BoolText
<1>2. t \in Seq(Nat)
  <2>1. 0 .. 127 \subseteq Nat
    OBVIOUS
  <2> QED
    BY <2>1, SeqMonotonic
<1>3. ASSUME NEW n \in 0 .. Len(t) PROVE [raw |-> FALSE, text |-> SubSeq(t, 1, n)] \in K
  <2>1. SubSeq(t, 1, n) \in Seq(0 .. 127)
    <3>1. Len(t) \in Nat
      BY LenProperties
    <3>2. \A i \in 1 .. n : t[i] \in 0 .. 127
      <4>1. ASSUME NEW i \in 1 .. n PROVE t[i] \in 0 .. 127
        <5>1. i \in 1 .. Len(t)
          BY <3>1
        <5> QED
          BY <5>1, ElementOfSeq
      <4> QED
        BY <4>1
    <3>3. 1 \in Int /\ n \in Int
      BY <3>1
    <3> QED
      BY <3>2, <3>3, SubSeqProperties
  <2> QED
    BY <2>1 DEF Closing
<1> QED
  BY <1>1, <1>2, <1>3, StringKept

\* The digits, the sign and the prefix of a number are ASCII.
LEMMA NumericKept ==
  ASSUME NEW K, NEW s \in Specs, NEW a, Closing(K, s, a), NEW v \in Int
  PROVE  format_numeric(s, v) \in Seq(K)
<1>1. PICK sign : sign = Sign(s, v)
  OBVIOUS
<1>2. PICK cls : cls = ClassPrefix(s, v)
  OBVIOUS
<1>3. sign \in {<<>>, <<43>>, <<45>>}
  BY <1>1 DEF Sign, Plus, Minus
<1>4. cls \in {<<>>, <<48>>, <<48, 120>>, <<48, 88>>, <<48, 98>>}
  BY <1>2 DEF ClassPrefix
<1>5. PICK x : x = IF sign = <<>> THEN <<>> ELSE append_char(sign[1], 1)
  OBVIOUS
<1>6. x \in Seq(K)
  <2>1. CASE sign = <<>>
    BY <1>5, <2>1, CallsOfKind
  <2>2. CASE sign # <<>>
    <3>1. sign[1] \in 0 .. 127
      BY <1>3, <2>2
    <3> QED
      BY <1>5, <2>2, <3>1, FillsKept
  <2> QED
    BY <2>1, <2>2
<1>7. PICK y : y = IF Len(cls) = 1 THEN append_char(48, 1) ELSE IF cls = <<>> THEN <<>> ELSE append(cls)
  OBVIOUS
<1>8. y \in Seq(K)
  <2>1. cls \in Seq(0 .. 127)
    <3>1. /\ <<>> \in Seq(0 .. 127) /\ <<48>> \in Seq(0 .. 127) /\ <<48, 120>> \in Seq(0 .. 127)
          /\ <<48, 88>> \in Seq(0 .. 127) /\ <<48, 98>> \in Seq(0 .. 127)
      OBVIOUS
    <3> QED
      BY <1>4, <3>1, ZenonT(60)
  <2>2. append_char(48, 1) \in Seq(K) /\ append(cls) \in Seq(K) /\ <<>> \in Seq(K)
    BY <2>1, FillsKept, CallsOfKind
  <2> QED
    BY <1>7, <2>2
<1>9. PICK pre \in Seq(K) : pre = format_numeric_prefix(s, v)
  <2>1. format_numeric_prefix(s, v) = x \o y
    BY <1>1, <1>2, <1>5, <1>7 DEF format_numeric_prefix
  <2> QED
    BY <1>6, <1>8, <2>1, CallsOfKind
<1>10. PICK d : d = DigitsOf(s, v)
  OBVIOUS
<1>11. PICK r \in {2, 8, 10, 16} : r = Radix(s)
  BY NumericCalls
<1>12. PICK n \in Int : n = pad_size(s, Len(d), v)
  BY <1>10, NumericCalls
<1>13. PICK fill \in Seq(K) : fill = append_char(Pad(s), n)
  BY FillsKept
<1>14. PICK e \in Seq(K) : e = append(d)
  <2>1. d \in Seq(DigitCodes(r))
    BY <1>10, <1>11, NumericCalls
  <2>2. DigitCodes(r) \subseteq 0 .. 127
    BY DEF DigitCodes
  <2>3. d \in Seq(0 .. 127)
    BY <2>1, <2>2, SeqMonotonic
  <2> QED
    BY <2>3, FillsKept
<1>15. format_numeric(s, v) = IF s.numeric_pad THEN (pre \o fill) \o e
                              ELSE IF s.alignment = "left" THEN (pre \o e) \o fill
                              ELSE (fill \o pre) \o e
  <2>1. format_numeric(s, v) = format_numeric_string(s, d, v)
    BY <1>10 DEF format_numeric, DigitsOf, Magnitude
  <2> QED
    BY <1>9, <1>12, <1>13, <1>14, <2>1 DEF format_numeric_string
<1>16. pre \o fill \in Seq(K) /\ pre \o e \in Seq(K) /\ fill \o pre \in Seq(K)
  BY CallsOfKind
<1>17. (pre \o fill) \o e \in Seq(K) /\ (pre \o e) \o fill \in Seq(K) /\ (fill \o pre) \o e \in Seq(K)
  BY <1>16, CallsOfKind
<1> QED
  BY <1>15, <1>17

\* A character is a text by itself.
LEMMA CharKept ==
  ASSUME NEW K, NEW s \in Specs, NEW a, Closing(K, s, a), NEW v \in Int
  PROVE  format_char(s, v).calls \in Seq(K)
<1>1. PICK r : r = format_char(s, v)
  OBVIOUS
<1>2. PICK text : text = IF v \in 0 .. MaxCode THEN write_utf8(v) ELSE BadChar.utf8
  OBVIOUS
<1>3. (r.ok => r.calls = append(text)) /\ (r.ok <=> NoPadding(s))
  BY <1>1, <1>2, CharCalls
<1>4. [raw |-> FALSE, text |-> text] \in K
  <2>1. PICK M \in Nat : M = MaxCode
    BY DEF MaxCode
  <2>2. CASE v \in 0 .. M
    <3>1. v \in Nat /\ v <= M
      BY <2>2
    <3>2. [raw |-> FALSE, text |-> write_utf8(v)] \in K
      BY <2>1, <3>1 DEF Closing
    <3> QED
      BY <1>2, <2>1, <2>2, <3>2
  <2>3. CASE v \notin 0 .. M
    <3>1. [raw |-> FALSE, text |-> BadChar.utf8] \in K
      BY DEF Closing
    <3> QED
      BY <1>2, <2>1, <2>3, <3>1
  <2> QED
    BY <2>2, <2>3
<1>5. append(text) \in Seq(K)
  BY <1>4, CallsOfKind
<1>6. ~NoPadding(s) => r.calls = <<>>
  BY <1>1 DEF format_char, AssertFails
<1> QED
  BY <1>1, <1>3, <1>5, <1>6, CallsOfKind

\* A floating-point number is a text, and a complex one is two.
LEMMA DoubleKept ==
  ASSUME NEW K, NEW s \in Specs, NEW a, Closing(K, s, a), NEW t \in Seq(Nat), t \in {a.text, a.imag}
  PROVE  format_double(s, t).calls \in Seq(K)
<1>1. PICK text \in Seq(Nat) : text = snprintf(s, t)
  BY SnprintfText
<1>2. PICK e \in Seq(K) : e = append(text)
  <2>1. [raw |-> FALSE, text |-> text] \in K
    BY <1>1 DEF Closing
  <2> QED
    BY <2>1, CallsOfKind
<1>3. PICK fill \in Seq(K) : fill = append_char(Pad(s), s.minimum_length - Len(text))
  <2>1. Len(text) \in Nat /\ s.minimum_length \in Int
    BY LenProperties DEF Specs
  <2>2. s.minimum_length - Len(text) \in Int
    BY <2>1
  <2> QED
    BY <2>2, FillsKept
<1>4. PICK r : r = format_double(s, t)
  OBVIOUS
<1>5. r = IF ~FloatFits(text) THEN AssertFails
          ELSE Printed(IF s.alignment = "left" THEN e \o fill ELSE fill \o e)
  BY <1>1, <1>2, <1>3, <1>4 DEF format_double
<1>6. r.calls \in {<<>>, e \o fill, fill \o e}
  BY <1>5 DEF AssertFails, Printed
<1> QED
  BY <1>4, <1>6, CallsOfKind

\* Whatever an argument prints is of the kind.
LEMMA PrintedKept ==
  ASSUME NEW K, NEW s \in Specs, NEW a \in Args, Closing(K, s, a)
  PROVE  format_type(s, a).calls \in Seq(K)
<1>1. /\ a.type \in ArgTypes /\ a.value \in Int /\ a.text \in Seq(Nat) /\ a.imag \in Seq(Nat)
      /\ a.type = "char8" => a.value \in Nat
  BY ArgFacts
<1>2. PICK r : r = format_type(s, a)
  OBVIOUS
<1>3. \A c : r = Printed(c) => r.calls = c
  BY DEF Printed
<1>4. CASE a.type = "text"
  <2>1. format_string(s, a.text) \in Seq(K)
    <3>1. \A n \in 0 .. Len(a.text) : [raw |-> FALSE, text |-> SubSeq(a.text, 1, n)] \in K
      BY DEF Closing
    <3> QED
      BY <1>1, <3>1, StringKept
  <2>2. r = Printed(format_string(s, a.text))
    BY <1>2, <1>4, TypeCalls
  <2> QED
    BY <1>2, <1>3, <2>1, <2>2
<1>5. CASE a.type = "bool"
  <2>1. r = Printed(format_string(s, BoolText(a.value)))
    BY <1>2, <1>5, TypeCalls
  <2> QED
    BY <1>2, <1>3, <2>1, BoolKept
<1>6. CASE a.type = "null"
  <2>1. r = Printed(<<>>)
    BY <1>2, <1>6, TypeCalls
  <2> QED
    BY <1>2, <1>3, <2>1, CallsOfKind
<1>7. CASE a.type = "int"
  <2>1. r = IF s.digit_class = "char" THEN format_char(s, AsInt(a.value)) ELSE Printed(format_numeric(s, a.value))
    BY <1>2, <1>7, TypeCalls
  <2>2. format_char(s, AsInt(a.value)).calls \in Seq(K) /\ format_numeric(s, a.value) \in Seq(K)
    BY <1>1, NarrowFacts, CharKept, NumericKept
  <2> QED
    BY <1>2, <1>3, <2>1, <2>2
<1>8. CASE a.type = "char8"
  <2>1. r = IF s.digit_class # "char" THEN Printed(format_numeric(s, a.value))
            ELSE IF NoPadding(s) THEN Printed(append_char(a.value, 1)) ELSE AssertFails
    BY <1>2, <1>8, TypeCalls
  <2>2. format_numeric(s, a.value) \in Seq(K)
    BY <1>1, NumericKept
  <2>3. append_char(a.value, 1) \in Seq(K)
    <3>1. [raw |-> TRUE, text |-> [i \in 1 .. 1 |-> a.value]] \in K
      BY <1>8 DEF Closing
    <3> QED
      BY <3>1, CallsOfKind
  <2>4. AssertFails.calls = <<>>
    BY DEF AssertFails
  <2> QED
    BY <1>2, <1>3, <2>1, <2>2, <2>3, <2>4, CallsOfKind
<1>9. CASE a.type = "double"
  <2>1. format_double(s, a.text).calls \in Seq(K)
    BY <1>1, DoubleKept
  <2> QED
    BY <1>9, <2>1, TypeCalls
<1>10. CASE a.type = "complex"
  <2>1. PICK x \in Seq(K), y \in Seq(K) : x = format_double(s, a.text).calls /\ y = format_double(s, a.imag).calls
    BY <1>1, DoubleKept
  <2>2. PICK p \in Seq(K), q \in Seq(K) : p = append_char(Plus, 1) /\ q = append_char(105, 1)
    <3>1. Plus \in 0 .. 127 /\ 105 \in 0 .. 127
      BY DEF Plus
    <3> QED
      BY <3>1, FillsKept
  <2>3. r.calls \in {<<>>, x \o p, ((x \o p) \o y) \o q}
    <3>1. r = format_complex(s, a)
      BY <1>2, <1>10, TypeCalls
    <3> QED
      BY <2>1, <2>2, <3>1, ComplexCalls
  <2>4. x \o p \in Seq(K)
    BY CallsOfKind
  <2>5. (x \o p) \o y \in Seq(K)
    BY <2>4, CallsOfKind
  <2>6. ((x \o p) \o y) \o q \in Seq(K)
    BY <2>5, CallsOfKind
  <2> QED
    BY <1>2, <2>3, <2>4, <2>6, CallsOfKind
<1>11. CASE a.type = "ill_formed"
  <2>1. r.calls = <<>>
    BY <1>2, <1>11, TypeCalls DEF Throws
  <2> QED
    BY <1>2, <2>1, CallsOfKind
<1> QED
  BY <1>1, <1>4, <1>5, <1>6, <1>7, <1>8, <1>9, <1>10, <1>11 DEF ArgTypes

\* Bits of a number are few.
LEMMA FewBits ==
  ASSUME NEW x \in Nat
  PROVE  /\ Bits(x, 64) \in Nat /\ Bits(x, 64) <= 63
         /\ Bits(x, 32) \in Nat /\ Bits(x, 32) <= 31
         /\ Bits(x, 16) \in Nat /\ Bits(x, 16) <= 15
         /\ Bits(x, 8) \in Nat /\ Bits(x, 8) <= 7
  BY SMT DEF Bits

\* An encoding is bytes.
LEMMA EncodedBytes ==
  ASSUME NEW c \in Nat, c <= MaxCode
  PROVE  write_utf8(c) \in Seq(0 .. 255)
<1>1. PICK q : q = c \div 64
  OBVIOUS
<1>2. PICK q2 : q2 = c \div 4096
  OBVIOUS
<1>3. PICK q3 : q3 = c \div 262144
  OBVIOUS
<1>4. q \in Nat /\ q2 \in Nat /\ q3 \in Nat
  BY <1>1, <1>2, <1>3, SMT
<1>5. PICK x1 : x1 = Bits(q, 32)
  OBVIOUS
<1>6. PICK x2 : x2 = Bits(c, 64)
  OBVIOUS
<1>7. PICK x3 : x3 = Bits(q2, 16)
  OBVIOUS
<1>8. PICK x4 : x4 = Bits(q, 64)
  OBVIOUS
<1>9. PICK y1 : y1 = Bits(q3, 8)
  OBVIOUS
<1>10. PICK y2 : y2 = Bits(q2, 64)
  OBVIOUS
<1>11. /\ x1 \in Nat /\ x1 <= 31 /\ x2 \in Nat /\ x2 <= 63 /\ x3 \in Nat /\ x3 <= 15
       /\ x4 \in Nat /\ x4 <= 63 /\ y1 \in Nat /\ y1 <= 7 /\ y2 \in Nat /\ y2 <= 63
  BY <1>4, <1>5, <1>6, <1>7, <1>8, <1>9, <1>10, FewBits
<1>12. PICK B : B = 0 .. 255
  OBVIOUS
<1>13. /\ 192 + x1 \in B /\ 128 + x2 \in B /\ 224 + x3 \in B /\ 128 + x4 \in B
       /\ 240 + y1 \in B /\ 128 + y2 \in B
       /\ c < 128 => c \in B
  BY <1>11, <1>12
<1>14. /\ \A d \in B : <<d>> \in Seq(B)
       /\ \A d, e \in B : <<d, e>> \in Seq(B)
       /\ \A d, e, f \in B : <<d, e, f>> \in Seq(B)
       /\ \A d, e, f, g \in B : <<d, e, f, g>> \in Seq(B)
  OBVIOUS
<1>15. write_utf8(c) = IF c < 128 THEN <<c>> ELSE IF c < 2048 THEN <<192 + x1, 128 + x2>>
                       ELSE IF c < 65536 THEN <<224 + x3, 128 + x4, 128 + x2>>
                       ELSE <<240 + y1, 128 + y2, 128 + x4, 128 + x2>>
  <2>1. PICK M \in Nat : M = MaxCode
    BY DEF MaxCode
  <2>2. ~(c > M)
    BY <2>1
  <2> QED
    BY <1>1, <1>2, <1>3, <1>5, <1>6, <1>7, <1>8, <1>9, <1>10, <2>1, <2>2 DEF write_utf8
<1>16. write_utf8(c) \in Seq(B)
  <2>1. CASE c < 128
    BY <1>13, <1>14, <1>15, <2>1
  <2>2. /\ <<192 + x1, 128 + x2>> \in Seq(B)
        /\ <<224 + x3, 128 + x4, 128 + x2>> \in Seq(B)
        /\ <<240 + y1, 128 + y2, 128 + x4, 128 + x2>> \in Seq(B)
    BY <1>13, <1>14
  <2> QED
    BY <1>15, <2>1, <2>2
<1> QED
  BY <1>12, <1>16

\* What snprintf prints of a number is ASCII around its text.
LEMMA SnprintfParts ==
  ASSUME NEW s \in Specs, NEW t \in Seq(Nat)
  PROVE  \E a, b \in Seq(0 .. 127) : snprintf(s, t) = (a \o t) \o b
<1>1. s.precision \in Int /\ s.always_signed \in BOOLEAN
  BY DEF Specs
<1>0. PICK B : B = 0 .. 127
  OBVIOUS
<1>00. <<>> \in Seq(B)
  OBVIOUS
<1>2. PICK places \in Nat : places = IF s.precision >= 0 THEN s.precision ELSE 6
  BY <1>1
<1>3. PICK plus : plus = IF s.always_signed THEN <<Plus>> ELSE <<>>
  OBVIOUS
<1>31. plus \in Seq(B)
  <2>1. <<43>> \in Seq(B)
    BY <1>0
  <2> QED
    BY <1>00, <1>3, <2>1 DEF Plus
<1>4. PICK point : point = IF places = 0 THEN <<>> ELSE <<46>>
  OBVIOUS
<1>41. point \in Seq(B)
  <2>1. <<46>> \in Seq(B)
    BY <1>0
  <2> QED
    BY <1>00, <1>4, <2>1
<1>5. PICK zeros : zeros = [i \in 1 .. places |-> Zero]
  OBVIOUS
<1>51. zeros \in Seq(B)
  <2>1. \A c \in B : [i \in 1 .. places |-> c] \in Seq(B)
    BY SeqDef
  <2>2. Zero \in B
    BY <1>0 DEF Zero
  <2> QED
    BY <1>5, <2>1, <2>2
<1>6. PICK power :
        power = CASE s.float_class = "exp"       -> <<101, Plus, Zero, Zero>>
                  [] s.float_class = "exp_upper" -> <<69, Plus, Zero, Zero>>
                  [] OTHER -> <<>>
  OBVIOUS
<1>61. power \in Seq(B)
  <2>0. \A c, d, e, f \in B : <<c, d, e, f>> \in Seq(B)
    OBVIOUS
  <2>01. 101 \in B /\ 43 \in B /\ 48 \in B /\ 69 \in B
    BY <1>0
  <2>1. <<101, 43, 48, 48>> \in Seq(B) /\ <<69, 43, 48, 48>> \in Seq(B)
    BY <2>0, <2>01
  <2> QED
    BY <1>00, <1>6, <2>1 DEF Plus, Zero
<1>7. snprintf(s, t) = IF s.float_class = "default" THEN plus \o t
                       ELSE plus \o t \o point \o zeros \o power
  BY <1>2, <1>3, <1>4, <1>5, <1>6 DEF snprintf
<1>71. plus \in Seq(Nat) /\ point \in Seq(Nat) /\ zeros \in Seq(Nat) /\ power \in Seq(Nat)
  <2>1. B \subseteq Nat
    BY <1>0
  <2> QED
    BY <1>31, <1>41, <1>51, <1>61, <2>1, SeqMonotonic
<1>8. plus \o t \in Seq(Nat)
  BY <1>71, ConcatProperties
<1>9. PICK b : b = (point \o zeros) \o power
  OBVIOUS
<1>10. b \in Seq(B)
  <2>1. point \o zeros \in Seq(B)
    BY <1>41, <1>51, ConcatProperties
  <2> QED
    BY <1>61, <1>9, <2>1, ConcatProperties
<1>11. plus \o t \o point \o zeros \o power = (plus \o t) \o b
  <2>0. PICK h \in Seq(Nat) : h = plus \o t
    BY <1>8
  <2>1. h \in UnitTexts /\ point \in UnitTexts /\ zeros \in UnitTexts /\ power \in UnitTexts
    BY <1>71, <2>0 DEF UnitTexts
  <2>2. Then(h, Then(Then(point, zeros), power)) = Then(Then(Then(h, point), zeros), power)
    BY ONLY <2>1, FourJoined
  <2>3. h = Then(plus, t) /\ b = Then(Then(point, zeros), power)
    BY ONLY <1>9, <2>0 DEF Then
  <2>4. Then(Then(Then(Then(plus, t), point), zeros), power) = Then(Then(plus, t), b)
    BY ONLY <2>2, <2>3
  <2> QED
    BY ONLY <2>4 DEF Then
<1>12. (plus \o t) \o <<>> = plus \o t
  BY <1>8, ConcatEmptySeq
<1> QED
  BY <1>0, <1>00, <1>7, <1>10, <1>11, <1>12, <1>31

\* A call whose text is bytes.
ByteCalls == [raw : BOOLEAN, text : Seq(0 .. 255)]

\* What a field prints is bytes.
LEMMA BytesClose ==
  ASSUME NEW s \in Specs, s.pad \in 0 .. 255, NEW a \in Args
  PROVE  Closing(ByteCalls, s, a)
<1>1. PICK B : B = 0 .. 255
  OBVIOUS
<1>2. PICK K : K = ByteCalls
  OBVIOUS
<1>3. \A b \in BOOLEAN : \A t \in Seq(B) : [raw |-> b, text |-> t] \in K
  BY <1>1, <1>2 DEF ByteCalls
<1>4. \A t \in Seq(0 .. 127) : t \in Seq(B)
  <2>1. 0 .. 127 \subseteq B
    BY <1>1
  <2> QED
    BY <2>1, SeqMonotonic
<1>5. \A n \in Nat : \A c \in B : [i \in 1 .. n |-> c] \in Seq(B)
  BY SeqDef
<1>6. Pad(s) \in B
  BY <1>1 DEF Pad, Blank
<1>7. ASSUME NEW t \in {a.text, a.imag}
      PROVE  /\ \A n \in 0 .. Len(t) : SubSeq(t, 1, n) \in Seq(B)
             /\ snprintf(s, t) \in Seq(B)
  <2>1. t \in Seq(B)
    BY <1>1 DEF Args
  <2>2. \A n \in 0 .. Len(t) : SubSeq(t, 1, n) \in Seq(B)
    <3>1. ASSUME NEW n \in 0 .. Len(t) PROVE SubSeq(t, 1, n) \in Seq(B)
      <4>1. \A i \in 1 .. n : t[i] \in B
        <5>1. Len(t) \in Nat /\ \A i \in 1 .. Len(t) : t[i] \in B
          BY <2>1, ElementOfSeq, LenProperties
        <5> QED
          BY <5>1
      <4>2. SubSeq(t, 1, n) = [i \in 1 .. n |-> t[i]]
        BY DEF SubSeq
      <4>3. \A f : f = [i \in 1 .. n |-> t[i]] => f \in Seq(B)
        BY <4>1, SeqDef
      <4> QED
        BY <4>2, <4>3
    <3> QED
      BY <3>1
  <2>3. t \in Seq(Nat)
    BY ArgFacts
  <2>4. PICK x \in Seq(0 .. 127), y \in Seq(0 .. 127) : snprintf(s, t) = (x \o t) \o y
    BY <2>3, SnprintfParts
  <2>5. x \in Seq(B) /\ y \in Seq(B)
    BY <1>4
  <2>6. x \o t \in Seq(B)
    BY <2>1, <2>5, ConcatProperties
  <2>7. (x \o t) \o y \in Seq(B)
    BY <2>5, <2>6, ConcatProperties
  <2> QED
    BY <2>2, <2>4, <2>7
<1>8. \A c \in Nat : c <= MaxCode => write_utf8(c) \in Seq(B)
  BY <1>1, EncodedBytes
<1>9. BadChar.utf8 \in Seq(B)
  <2>1. 239 \in B /\ 191 \in B /\ 189 \in B
    BY <1>1
  <2>2. <<239, 191, 189>> \in Seq(B)
    BY <2>1
  <2> QED
    BY <2>2 DEF BadChar
<1>10. a.type = "char8" => a.value \in B
  BY <1>1 DEF Args
<1>11. Closing(K, s, a)
  <2>1. TRUE \in BOOLEAN /\ FALSE \in BOOLEAN /\ 1 \in Nat
    OBVIOUS
  <2>2. \A t \in Seq(0 .. 127) : \A b \in BOOLEAN : [raw |-> b, text |-> t] \in K
    BY <1>3, <1>4
  <2>3. \A n \in Nat : n > 0 => [raw |-> TRUE, text |-> [i \in 1 .. n |-> Pad(s)]] \in K
    BY <1>3, <1>5, <1>6, <2>1
  <2>4. \A t \in {a.text, a.imag} :
       /\ \A n \in 0 .. Len(t) : [raw |-> FALSE, text |-> SubSeq(t, 1, n)] \in K
       /\ [raw |-> FALSE, text |-> snprintf(s, t)] \in K
    BY <1>3, <1>7, <2>1
  <2>5. \A c \in Nat : c <= MaxCode => [raw |-> FALSE, text |-> write_utf8(c)] \in K
    BY <1>3, <1>8, <2>1
  <2>6. [raw |-> FALSE, text |-> BadChar.utf8] \in K
    BY <1>3, <1>9, <2>1
  <2>7. a.type = "char8" => [raw |-> TRUE, text |-> [i \in 1 .. 1 |-> a.value]] \in K
    BY <1>3, <1>5, <1>10, <2>1
  <2> QED
    BY <2>2, <2>3, <2>4, <2>5, <2>6, <2>7 DEF Closing
<1> QED
  BY <1>2, <1>11

\* Calls that are no continuation of a character: each begins whole, and what
\* is put char by char is ASCII.
WideCalls ==
  {c \in Calls : IF c.raw THEN \A k \in 1 .. Len(c.text) : c.text[k] < 128 ELSE BeginsWhole(c.text)}

\* The beginning of a text begins as the text does.
LEMMA CutBegins ==
  ASSUME NEW t \in Seq(Nat), BeginsWhole(t), NEW n \in 0 .. Len(t)
  PROVE  SubSeq(t, 1, n) \in Seq(Nat) /\ BeginsWhole(SubSeq(t, 1, n))
<1>1. SubSeq(t, 1, n) \in Seq(Nat) /\ Len(SubSeq(t, 1, n)) = n
  BY Beginning
<1>2. CASE n = 0
  BY <1>1, <1>2 DEF BeginsWhole
<1>3. CASE n # 0
  <2>1. Len(t) \in Nat
    BY LenProperties
  <2>2. n \in Nat /\ 1 <= n /\ n <= Len(t) /\ t # <<>>
    BY <1>3, <2>1
  <2>3. SubSeq(t, 1, n)[1] = t[1]
    BY <2>1, <2>2
  <2> QED
    BY <1>1, <2>2, <2>3 DEF BeginsWhole
<1> QED
  BY <1>2, <1>3

\* A text of ASCII begins whole.
LEMMA AsciiBegins ==
  ASSUME NEW t \in Seq(0 .. 127)
  PROVE  t \in Seq(Nat) /\ BeginsWhole(t) /\ \A k \in 1 .. Len(t) : t[k] < 128
<1>1. t \in Seq(Nat)
  <2>1. 0 .. 127 \subseteq Nat
    OBVIOUS
  <2> QED
    BY <2>1, SeqMonotonic
<1>2. \A k \in 1 .. Len(t) : t[k] \in 0 .. 127
  BY ElementOfSeq
<1>3. \A k \in 1 .. Len(t) : t[k] < 128 /\ t[k] \notin 128 .. 191
  <2>1. \A x \in 0 .. 127 : x < 128 /\ x \notin 128 .. 191
    OBVIOUS
  <2> QED
    BY ONLY <1>2, <2>1, ZenonT(60)
<1>4. t = <<>> \/ 1 \in 1 .. Len(t)
  <2>1. Len(t) \in Nat /\ (t = <<>> <=> Len(t) = 0)
    BY <1>1, LenProperties, EmptySeq
  <2> QED
    BY <2>1
<1> QED
  BY <1>1, <1>3, <1>4 DEF BeginsWhole

\* What a field of a sound format string prints of sound texts is no
\* continuation of a character.
LEMMA WideClose ==
  ASSUME NEW s \in Specs, s.pad \in 0 .. 127, NEW a \in Args, a.type # "char8",
         ~Faulty(Points(a.text)), ~Faulty(Points(a.imag))
  PROVE  Closing(WideCalls, s, a)
<1>1. PICK K : K = WideCalls
  OBVIOUS
<1>2. \A t \in Seq(Nat) : BeginsWhole(t) => [raw |-> FALSE, text |-> t] \in K
  BY <1>1 DEF WideCalls, Calls
<1>3. \A t \in Seq(0 .. 127) : \A b \in BOOLEAN : [raw |-> b, text |-> t] \in K
  <2>1. ASSUME NEW t \in Seq(0 .. 127), NEW b \in BOOLEAN PROVE [raw |-> b, text |-> t] \in K
    <3>1. t \in Seq(Nat) /\ BeginsWhole(t) /\ \A k \in 1 .. Len(t) : t[k] < 128
      BY AsciiBegins
    <3>2. PICK c : c = [raw |-> b, text |-> t]
      OBVIOUS
    <3>3. c.raw = b /\ c.text = t /\ c \in Calls
      BY <3>1, <3>2 DEF Calls
    <3>4. c \in WideCalls
      BY <3>1, <3>3 DEF WideCalls
    <3> QED
      BY <1>1, <3>2, <3>4
  <2> QED
    BY <2>1
<1>4. \A n \in Nat : [i \in 1 .. n |-> Pad(s)] \in Seq(0 .. 127)
  <2>1. Pad(s) \in 0 .. 127
    BY DEF Pad, Blank
  <2>2. PICK B : B = 0 .. 127
    OBVIOUS
  <2>3. \A n \in Nat : \A c \in B : [i \in 1 .. n |-> c] \in Seq(B)
    BY SeqDef
  <2> QED
    BY <2>1, <2>2, <2>3
<1>5. ASSUME NEW t \in {a.text, a.imag}
      PROVE  /\ \A n \in 0 .. Len(t) : [raw |-> FALSE, text |-> SubSeq(t, 1, n)] \in K
             /\ [raw |-> FALSE, text |-> snprintf(s, t)] \in K
  <2>1. t \in Seq(Nat) /\ ~Faulty(Points(t))
    BY ArgFacts
  <2>2. BeginsWhole(t)
    BY <2>1, SoundBegins
  <2>3. \A n \in 0 .. Len(t) : [raw |-> FALSE, text |-> SubSeq(t, 1, n)] \in K
    BY <1>2, <2>1, <2>2, CutBegins
  <2>4. PICK x \in Seq(0 .. 127), y \in Seq(0 .. 127) : snprintf(s, t) = (x \o t) \o y
    BY <2>1, SnprintfParts
  <2>5. x \in Seq(Nat) /\ BeginsWhole(x) /\ y \in Seq(Nat) /\ BeginsWhole(y)
    BY AsciiBegins
  <2>6. PICK h : h = x \o t
    OBVIOUS
  <2>7. h \in Seq(Nat) /\ BeginsWhole(h)
    BY <2>1, <2>2, <2>5, <2>6, BeginsJoined, Joined
  <2>8. h \o y \in Seq(Nat) /\ BeginsWhole(h \o y)
    BY <2>5, <2>7, BeginsJoined, Joined
  <2> QED
    BY <1>2, <2>3, <2>4, <2>6, <2>8
<1>6. ASSUME NEW c \in Nat, c <= MaxCode PROVE [raw |-> FALSE, text |-> write_utf8(c)] \in K
  <2>1. write_utf8(c) \in Seq(Nat) /\ ~Faulty(Points(write_utf8(c)))
    BY <1>6, WrittenReads
  <2> QED
    BY <1>2, <2>1, SoundBegins
<1>7. [raw |-> FALSE, text |-> BadChar.utf8] \in K
  <2>1. PICK t : t = <<239, 191, 189>>
    OBVIOUS
  <2>2. t \in Seq(Nat) /\ t[1] = 239
    BY <2>1
  <2>3. t[1] \notin 128 .. 191
    BY <2>2
  <2>4. BadChar.utf8 = t
    BY <2>1 DEF BadChar
  <2>5. BeginsWhole(t)
    BY <2>3 DEF BeginsWhole
  <2> QED
    BY <1>2, <2>2, <2>4, <2>5
<1>8. Closing(K, s, a)
  <2>1. \A n \in Nat : n > 0 => [raw |-> TRUE, text |-> [i \in 1 .. n |-> Pad(s)]] \in K
    <3>1. TRUE \in BOOLEAN
      OBVIOUS
    <3> QED
      BY <1>3, <1>4, <3>1
  <2> QED
    BY <1>3, <1>5, <1>6, <1>7, <2>1 DEF Closing
<1> QED
  BY <1>1, <1>8

\* The text of calls that begin whole begins whole.
LEMMA AllBegins ==
  ASSUME NEW c \in Seq(WideCalls)
  PROVE  c \in Seq(Calls) /\ All(c) \in Seq(Nat) /\ BeginsWhole(All(c))
<1>1. c \in Seq(Calls)
  <2>1. WideCalls \subseteq Calls
    BY DEF WideCalls
  <2> QED
    BY <2>1, SeqMonotonic
<1>2. PICK n \in Nat : n = Len(c)
  BY LenProperties
<1>3. PICK w : w = TextsOf(c)
  OBVIOUS
<1>4. PICK f : IsJoin(f, n, w) /\ All(c) = f[n]
  BY <1>1, <1>2, <1>3, AllJoins
<1>5. f[0] = <<>> /\ \A i \in 1 .. n : f[i] = f[i - 1] \o w[i]
  BY ONLY <1>4, n \in Nat, JoinStep
<1>6. ASSUME NEW i \in 1 .. n PROVE w[i] \in Seq(Nat) /\ BeginsWhole(w[i])
  <2>1. PICK d \in WideCalls : d = c[i]
    BY <1>2, ElementOfSeq
  <2>2. w[i] = d.text /\ d \in Calls /\ d.text \in Seq(Nat)
    BY <1>1, <1>2, <1>3, <2>1, AllJoins DEF WideCalls
  <2>3. CASE ~d.raw
    BY <2>1, <2>2, <2>3 DEF WideCalls
  <2>4. CASE d.raw
    <3>1. \A k \in 1 .. Len(d.text) : d.text[k] < 128
      BY <2>1, <2>4 DEF WideCalls
    <3>2. PICK t \in Seq(Nat) : t = d.text
      BY <2>2
    <3>3. t # <<>> => 1 \in 1 .. Len(t) /\ t[1] \in Nat /\ t[1] < 128
      <4>1. Len(t) \in Nat /\ (t = <<>> <=> Len(t) = 0)
        BY LenProperties, EmptySeq
      <4>2. t # <<>> => 1 \in 1 .. Len(t)
        BY <4>1
      <4> QED
        BY <3>1, <3>2, <4>2, ElementOfSeq
    <3>4. \A x \in Nat : x < 128 => x \notin 128 .. 191
      OBVIOUS
    <3> QED
      BY <2>2, <3>2, <3>3, <3>4 DEF BeginsWhole
  <2> QED
    BY <2>3, <2>4
<1> DEFINE G == {k \in Nat : k <= n => f[k] \in Seq(Nat) /\ BeginsWhole(f[k])}
<1>7. ASSUME NEW k \in Nat, \A j \in 0 .. k - 1 : j \in G PROVE k \in G
  <2> SUFFICES ASSUME k <= n PROVE f[k] \in Seq(Nat) /\ BeginsWhole(f[k])
    OBVIOUS
  <2>1. CASE k = 0
    BY <1>5, <2>1, EmptySeq DEF BeginsWhole
  <2>2. CASE k # 0
    <3>1. k - 1 \in 0 .. k - 1 /\ k - 1 <= n /\ k \in 1 .. n
      BY <2>2
    <3>2. PICK a, b : a = f[k - 1] /\ b = w[k]
      OBVIOUS
    <3>3. a \in Seq(Nat) /\ BeginsWhole(a) /\ b \in Seq(Nat) /\ BeginsWhole(b)
      BY <1>6, <1>7, <3>1, <3>2
    <3>4. f[k] = a \o b
      BY <1>5, <3>1, <3>2
    <3>5. a \o b \in Seq(Nat) /\ BeginsWhole(a \o b)
      BY ONLY <3>3, BeginsJoined, Joined
    <3> QED
      BY <3>4, <3>5
  <2> QED
    BY <2>1, <2>2
<1>8. n \in G
  <2> HIDE DEF G
  <2> QED
    BY <1>7, InductionOn
<1> QED
  BY <1>1, <1>4, <1>8

\* Calls that show what they were given.
WellCalls == {c \in Calls : ShowsWell(c)}

\* Their text is sound.
LEMMA AllSound ==
  ASSUME NEW o \in Seq(WellCalls)
  PROVE  o \in Seq(Calls) /\ All(o) \in Seq(Nat) /\ ~Faulty(Points(All(o)))
<1>1. o \in Seq(Calls)
  <2>1. WellCalls \subseteq Calls
    BY DEF WellCalls
  <2> QED
    BY <2>1, SeqMonotonic
<1>2. PICK n \in Nat : n = Len(o)
  BY LenProperties
<1>3. PICK w : w = TextsOf(o)
  OBVIOUS
<1>4. PICK f : IsJoin(f, n, w) /\ All(o) = f[n]
  BY <1>1, <1>2, <1>3, AllJoins
<1>5. PICK v : v = [i \in 1 .. n |-> Points(w[i])]
  OBVIOUS
<1>6. \A i \in 1 .. n : v[i] = Points(w[i])
  BY <1>5
<1>7. PICK g : IsJoin(g, n, v)
  BY JoinExists
<1>8. ASSUME NEW i \in 1 .. n
      PROVE  w[i] \in Seq(Nat) /\ ~Faulty(Points(w[i])) /\ v[i] = Points(w[i])
  <2>1. PICK d \in WellCalls : d = o[i]
    BY <1>2, ElementOfSeq
  <2>2. w[i] = d.text /\ d \in Calls /\ ShowsWell(d)
    BY <1>1, <1>2, <1>3, <2>1, AllJoins DEF WellCalls
  <2> QED
    BY <1>6, <2>2, ShownIs
<1>9. JoinedPoints(n, w, v, f, g)
  BY <1>4, <1>7, <1>8 DEF JoinedPoints
<1>10. PointsJoined(n, f, g)
  BY <1>9, PointsOfJoin
<1> QED
  BY <1>1, <1>4, <1>10 DEF PointsJoined

-----------------------------------------------------------------------------
(* What a wide stream takes. *)

\* Convertible, said of faults.
LEMMA ConvertibleIs ==
  ASSUME NEW u
  PROVE  Convertible(u) <=> ~Faulty(Points(u))
  BY DEF Convertible, Faulty

\* Calls are those before one, that one and those behind it.
Parting(S, T, c, m) ==
  c \in Seq(S) /\ m \in 1 .. Len(c) /\ \A i \in 1 .. m - 1 : c[i] \in T
Parted(S, T, c, m) ==
  \E a \in Seq(S), b \in Seq(S), d \in S :
    /\ a = SubSeq(c, 1, m - 1) /\ a \in Seq(T) /\ d = c[m]
    /\ c = (a \o <<d>>) \o b

\* A course of calls parted at one of them: the calls before it, itself, and
\* the calls behind it.
LEMMA CallsParted ==
  ASSUME NEW S, NEW T, NEW c, NEW m, Parting(S, T, c, m)
  PROVE  Parted(S, T, c, m)
<1>0. c \in Seq(S) /\ m \in 1 .. Len(c) /\ \A i \in 1 .. m - 1 : c[i] \in T
  BY DEF Parting
<1>1. PICK n \in Nat : n = Len(c)
  BY <1>0, LenProperties
<1>2. m \in Nat /\ 1 <= m /\ m <= n /\ m - 1 \in Nat
  BY <1>0, <1>1
<1>3. PICK a : a = SubSeq(c, 1, m - 1)
  OBVIOUS
<1>4. PICK b : b = SubSeq(c, m + 1, n)
  OBVIOUS
<1>5. PICK d : d = c[m]
  OBVIOUS
<1>6. d \in S
  BY <1>0, <1>1, <1>2, <1>5, ElementOfSeq
<1>7. \A i \in 1 .. n : c[i] \in S
  BY <1>0, <1>1, ElementOfSeq
<1>8. a = [i \in 1 .. m - 1 |-> c[i]]
  BY <1>2, <1>3 DEF SubSeq
<1>9. b = [i \in 1 .. n - m |-> c[i + m]]
  <2>1. b = [i \in 1 .. 1 + n - (m + 1) |-> c[i + (m + 1) - 1]]
    BY <1>1, <1>2, <1>4 DEF SubSeq
  <2>2. 1 + n - (m + 1) = n - m /\ \A i \in 1 .. n - m : i + (m + 1) - 1 = i + m
    BY <1>1, <1>2
  <2> QED
    BY <2>1, <2>2
<1>10. a \in Seq(S) /\ a \in Seq(T) /\ Len(a) = m - 1
  <2>1. \A i \in 1 .. m - 1 : c[i] \in S /\ c[i] \in T
    BY <1>0, <1>2, <1>7
  <2> QED
    BY <1>2, <1>8, <2>1, SeqDef
<1>11. b \in Seq(S) /\ Len(b) = n - m
  <2>1. \A i \in 1 .. n - m : c[i + m] \in S
    BY <1>1, <1>2, <1>7
  <2>2. n - m \in Nat
    BY <1>1, <1>2
  <2> QED
    BY <1>9, <2>1, <2>2, SeqDef
<1>12. <<d>> \in Seq(S) /\ Len(<<d>>) = 1 /\ <<d>>[1] = d
  BY <1>6
<1>13. PICK h : h = a \o <<d>>
  OBVIOUS
<1>14. h \in Seq(S) /\ Len(h) = m /\ \A i \in 1 .. m - 1 : h[i] = c[i]
  <2>1. h \in Seq(S) /\ Len(h) = Len(a) + 1 /\ \A i \in 1 .. Len(a) : h[i] = a[i]
    BY <1>10, <1>12, <1>13, ConcatProperties
  <2> QED
    BY <1>2, <1>8, <1>10, <2>1
<1>15. h[m] = d
  <2>1. h[Len(a) + 1] = <<d>>[1]
    BY <1>10, <1>12, <1>13, ConcatProperties
  <2> QED
    BY <1>2, <1>10, <1>12, <2>1
<1>16. PICK e : e = h \o b
  OBVIOUS
<1>17. e \in Seq(S) /\ Len(e) = n
  <2>1. e \in Seq(S) /\ Len(e) = Len(h) + Len(b)
    BY <1>11, <1>14, <1>16, ConcatProperties
  <2> QED
    BY <1>1, <1>2, <1>11, <1>14, <2>1
<1>18. \A i \in 1 .. n : e[i] = c[i]
  <2>1. ASSUME NEW i \in 1 .. n PROVE e[i] = c[i]
    <3>1. CASE i <= m
      <4>1. i \in 1 .. Len(h)
        BY <1>2, <1>14, <3>1
      <4>2. e[i] = h[i]
        BY <1>11, <1>14, <1>16, <4>1, ConcatProperties
      <4> QED
        BY <1>2, <1>5, <1>14, <1>15, <3>1, <4>2
    <3>2. CASE ~(i <= m)
      <4>1. PICK k \in 1 .. n - m : i = m + k
        <5>1. i - m \in 1 .. n - m /\ i = m + (i - m)
          BY <1>1, <1>2, <3>2
        <5> QED
          BY <5>1
      <4>2. e[Len(h) + k] = b[k]
        BY <1>11, <1>14, <1>16, <4>1, ConcatProperties
      <4>3. b[k] = c[k + m] /\ k + m = m + k
        BY <1>1, <1>2, <1>9, <4>1
      <4> QED
        BY <1>14, <4>1, <4>2, <4>3
    <3> QED
      BY <3>1, <3>2
  <2> QED
    BY <2>1
<1>19. e = c
  BY <1>0, <1>1, <1>17, <1>18, SeqEqual
<1> QED
  BY <1>3, <1>5, <1>6, <1>10, <1>11, <1>13, <1>16, <1>19 DEF Parted

\* What a wide stream that has shown all it was given makes of more calls: it
\* shows them too, or throws at one whose text is faulty.
WideTakes(calls, ph, err) ==
  \/ out' \in Seq(WellCalls) /\ out' = out \o calls /\ phase' = ph /\ error' = err
  \/ /\ out' \in Seq(WellCalls) /\ phase' = "thrown" /\ error' = "unicode_error"
     /\ Faulty(Points(All(out) \o All(calls)))
     /\ \E x \in Seq(Nat) : All(out) \o All(calls) = All(out') \o x

\* What the calls' delivery leaves of a wide stream: all of them taken, or
\* those before the first that is no UTF-8, and then the whole text is none.
LEMMA WideDeliver ==
  ASSUME job.sink = "wide", out \in Seq(WellCalls), NEW calls \in Seq(WideCalls), NEW ph, NEW err,
         Deliver(calls, ph, err)
  PROVE  WideTakes(calls, ph, err)
<1>1. PICK R : R = Refused(calls)
  OBVIOUS
<1>2. \A i : i \in R <=> i \in DOMAIN calls /\ ~calls[i].raw /\ ~Convertible(calls[i].text)
  BY <1>1 DEF Refused
<1>3. calls \in Seq(Calls) /\ All(calls) \in Seq(Nat)
  BY AllBegins
<1>4. out \in Seq(Calls) /\ All(out) \in Seq(Nat) /\ ~Faulty(Points(All(out)))
  BY AllSound
<1>5. DOMAIN calls = 1 .. Len(calls) /\ Len(calls) \in Nat
  BY LenProperties
<1>6. ASSUME NEW i \in 1 .. Len(calls), i \notin R PROVE calls[i] \in WellCalls
  <2>1. PICK d \in WideCalls : d = calls[i]
    BY ElementOfSeq
  <2>2. d \in Calls /\ (d.raw => \A k \in 1 .. Len(d.text) : d.text[k] < 128)
    BY DEF WideCalls
  <2>3. ~d.raw => ~Faulty(Points(d.text))
    BY <1>2, <1>5, <1>6, <2>1, ConvertibleIs
  <2> QED
    BY <2>1, <2>2, <2>3 DEF WellCalls, ShowsWell
<1>7. CASE R = {}
  <2>1. out' = out \o calls /\ phase' = ph /\ error' = err
    BY <1>1, <1>7 DEF Deliver
  <2>2. \A i \in 1 .. Len(calls) : calls[i] \in WellCalls
    BY <1>6, <1>7
  <2>3. calls \in Seq(WellCalls)
    <3>1. calls = [i \in 1 .. Len(calls) |-> calls[i]]
      BY <1>3, <1>5, LenProperties
    <3> QED
      BY <1>5, <2>2, <3>1, SeqDef
  <2>4. out \o calls \in Seq(WellCalls)
    BY <2>3, ConcatProperties
  <2> QED
    BY <2>1, <2>4 DEF WideTakes
<1>8. CASE R # {}
  <2>1. PICK m : m = Min(R)
    OBVIOUS
  <2>2. out' = out \o SubSeq(calls, 1, m - 1) /\ phase' = "thrown" /\ error' = "unicode_error"
    BY <1>1, <1>8, <2>1 DEF Deliver
  <2>3. m \in R /\ \A y \in R : m <= y
    <3>1. R \in SUBSET Nat
      BY <1>2, <1>5
    <3> QED
      BY <1>8, <2>1, <3>1, MinFacts
  <2>4. m \in 1 .. Len(calls) /\ ~calls[m].raw /\ Faulty(Points(calls[m].text))
    BY <1>2, <1>5, <2>3, ConvertibleIs
  <2>5. \A i \in 1 .. m - 1 : calls[i] \in WellCalls
    <3>1. ASSUME NEW i \in 1 .. m - 1 PROVE calls[i] \in WellCalls
      <4>1. i \in 1 .. Len(calls) /\ ~(m <= i)
        BY <1>5, <2>4
      <4>2. i \notin R
        BY <2>3, <4>1
      <4> QED
        BY <1>6, <4>1, <4>2
    <3> QED
      BY <3>1
  <2>6. PICK a \in Seq(WideCalls), b \in Seq(WideCalls), d \in WideCalls :
          a = SubSeq(calls, 1, m - 1) /\ a \in Seq(WellCalls) /\ d = calls[m] /\ calls = (a \o <<d>>) \o b
    <3>1. PICK S, T : S = WideCalls /\ T = WellCalls
      OBVIOUS
    <3>2. Parting(S, T, calls, m)
      BY <2>4, <2>5, <3>1 DEF Parting
    <3>3. Parted(S, T, calls, m)
      BY <3>2, CallsParted
    <3> QED
      BY <3>1, <3>3 DEF Parted
  <2>7. a \in Seq(Calls) /\ b \in Seq(Calls) /\ d \in Calls /\ d.text \in Seq(Nat)
        /\ All(a) \in Seq(Nat) /\ All(b) \in Seq(Nat) /\ BeginsWhole(All(b))
    <3>1. d \in Calls /\ d.text \in Seq(Nat)
      BY DEF WideCalls, Calls
    <3> QED
      BY <3>1, AllBegins
  <2>8. out' \in Seq(WellCalls) /\ out' = out \o a
    BY <2>2, <2>6, ConcatProperties
  <2>9. All(out') = All(out) \o All(a) /\ All(out') \in Seq(Nat) /\ ~Faulty(Points(All(out')))
    BY <1>4, <2>7, <2>8, AllFacts, AllSound
  <2>10. All(calls) = (All(a) \o d.text) \o All(b)
    <3>1. <<d>> \in Seq(Calls) /\ All(<<d>>) = d.text
      BY <2>7, AllOfFew
    <3>2. PICK e \in Seq(Calls) : e = <<d>> /\ All(e) = d.text
      BY <3>1
    <3>3. All((a \o e) \o b) = (All(a) \o All(e)) \o All(b)
      BY ONLY <2>7, <3>2, AllOfThree
    <3>4. calls = (a \o e) \o b
      BY <2>6, <3>2
    <3> QED
      BY <3>2, <3>3, <3>4
  <2>11. PICK o, s, t, u, v : o = All(out) /\ s = All(a) /\ t = d.text /\ u = All(b) /\ v = All(out')
    OBVIOUS
  <2>12. o \in Seq(Nat) /\ s \in Seq(Nat) /\ t \in Seq(Nat) /\ u \in Seq(Nat) /\ v \in Seq(Nat)
    BY <1>4, <2>7, <2>9, <2>11
  <2>13. v = o \o s /\ ~Faulty(Points(v)) /\ Faulty(Points(t)) /\ BeginsWhole(u)
    BY <2>4, <2>6, <2>7, <2>9, <2>11
  <2>14. v \o t \in Seq(Nat) /\ Faulty(Points(v \o t))
    BY ONLY <2>12, <2>13, PointsOfBoth, Joined
  <2>15. Faulty(Points((v \o t) \o u))
    BY ONLY <2>12, <2>13, <2>14, FaultStays
  <2>16. o \o ((s \o t) \o u) = (v \o t) \o u /\ (v \o t) \o u = v \o (t \o u) /\ t \o u \in Seq(Nat)
    <3>1. /\ o \o ((s \o t) \o u) = ((o \o s) \o t) \o u
          /\ ((o \o s) \o t) \o u = (o \o s) \o (t \o u)
      <4>1. o \in UnitTexts /\ s \in UnitTexts /\ t \in UnitTexts /\ u \in UnitTexts
        BY ONLY <2>12 DEF UnitTexts
      <4>2. /\ Then(o, Then(Then(s, t), u)) = Then(Then(Then(o, s), t), u)
            /\ Then(Then(Then(o, s), t), u) = Then(Then(o, s), Then(t, u))
        BY ONLY <4>1, FourJoined
      <4> QED
        BY ONLY <4>2 DEF Then
    <3>2. t \o u \in Seq(Nat)
      BY ONLY <2>12, Joined
    <3>3. v = o \o s
      BY <2>13
    <3> QED
      BY ONLY <3>1, <3>2, <3>3
  <2>17. All(out) \o All(calls) = (v \o t) \o u /\ All(out) \o All(calls) = v \o (t \o u)
    BY <2>10, <2>11, <2>16
  <2>18. \E x \in Seq(Nat) : All(out) \o All(calls) = All(out') \o x
    BY <2>11, <2>16, <2>17
  <2>19. Faulty(Points(All(out) \o All(calls)))
    BY <2>15, <2>17
  <2> QED
    BY <2>2, <2>8, <2>18, <2>19 DEF WideTakes
<1> QED
  BY <1>7, <1>8

\* A format string and arguments of whole characters.
SoundJob(j) ==
  /\ ~Faulty(Points(j.fmt))
  /\ \A i \in DOMAIN j.args : /\ j.args[i].type # "char8"
                              /\ ~Faulty(Points(j.args[i].text)) /\ ~Faulty(Points(j.args[i].imag))

\* A sound job in terms of its code units: format string and arguments are
\* UTF-8 (st_format_priv.h, st_formatter.h).
LEMMA SoundIs == AllConvertible <=> SoundJob(job)
  BY ConvertibleIs DEF AllConvertible, SoundJob

\* A piece of a sound format string, from where a character begins to ASCII or
\* to the end, is sound.
LEMMA SoundPiece ==
  ASSUME NEW f \in Seq(Nat), ~Faulty(Points(f)), NEW a \in Nat, NEW b \in Nat, a <= b, b <= Len(f),
         a < Len(f) => f[a + 1] \notin 128 .. 191,
         b < Len(f) => f[b + 1] < 128
  PROVE  SubSeq(f, a + 1, b) \in Seq(Nat) /\ ~Faulty(Points(SubSeq(f, a + 1, b)))
<1>1. PICK n \in Nat : n = Len(f)
  BY LenProperties
<1>2. PICK s : s = SubSeq(f, a + 1, n)
  OBVIOUS
<1>3. PICK x : x = SubSeq(f, a + 1, b)
  OBVIOUS
<1>4. PICK y : y = SubSeq(f, b + 1, n)
  OBVIOUS
<1>5. x \in Seq(Nat) /\ s \in Seq(Nat) /\ s = x \o y
  <2>1. /\ SubSeq(f, a + 1, b) \in Seq(Nat) /\ SubSeq(f, a + 1, Len(f)) \in Seq(Nat)
        /\ SubSeq(f, a + 1, Len(f)) = SubSeq(f, a + 1, b) \o SubSeq(f, b + 1, Len(f))
    BY Pieces, ZenonT(60)
  <2> QED
    BY <1>1, <1>2, <1>3, <1>4, <2>1
<1>6. a \in 0 .. Len(f) /\ b \in 0 .. Len(f)
  BY <1>1
<1>7. ~Faulty(Points(s))
  BY <1>1, <1>2, <1>6, SoundBehind
<1>8. y \in Seq(Nat) /\ BeginsWhole(y)
  <2>1. y \in Seq(Nat) /\ Len(y) = n - b /\ \A i \in 1 .. n - b : y[i] = f[b + i]
    BY <1>1, <1>4, <1>6, TextParts
  <2>2. CASE b = n
    BY <1>1, <2>1, <2>2, EmptySeq DEF BeginsWhole
  <2>3. CASE b # n
    <3>1. b < n /\ 1 \in 1 .. n - b /\ b + 1 \in 1 .. n
      BY <1>1, <2>3
    <3>2. PICK c \in Nat : c = f[b + 1] /\ c < 128
      BY <1>1, <3>1, ElementOfSeq
    <3>3. y[1] = c
      BY <2>1, <3>1, <3>2
    <3>4. c \notin 128 .. 191
      BY <3>2, TrailFacts
    <3> QED
      BY <2>1, <3>3, <3>4 DEF BeginsWhole
  <2> QED
    BY <2>2, <2>3
<1>9. ~Faulty(Points(x))
  BY <1>5, <1>7, <1>8, FaultStays
<1> QED
  BY <1>3, <1>5, <1>9

-----------------------------------------------------------------------------
(* Where fields end, and what they print. *)

\* A field's end is behind a closing brace.
LEMMA CloseSeen ==
  ASSUME NEW f \in Seq(Nat), NEW p \in Nat, GroupAt(f, p).kind = "field"
  PROVE  p + 1 \in 1 .. Len(f) /\ f[p + 1] = Close /\ GroupAt(f, p).end = p + 1
<1>1. PICK n \in Nat : n = Len(f)
  BY LenProperties
<1>2. p < n /\ f[p + 1] = Close /\ GroupAt(f, p).end = p + 1
  BY <1>1 DEF GroupAt, Begins, Numbered, Under, Dot, Amp, Close, Single, Digit, Zero
<1> QED
  BY <1>1, <1>2

\* The group that ends a field ends behind a closing brace, at or behind its
\* own beginning (parse_format).
LEMMA FieldCloses ==
  ASSUME NEW f \in Seq(Nat), NEW q \in Nat, GroupsFrom(f)[q].kind = "field"
  PROVE  \E e \in Nat : GroupsFrom(f)[q].end = e + 1 /\ e + 1 \in 1 .. Len(f) /\ f[e + 1] = Close /\ e >= q
<1>1. PICK n \in Nat : n = Len(f)
  BY LenProperties
<1>2. PICK h : h = GroupsFrom(f)
  OBVIOUS
<1>3. h \in [Nat -> Parses] /\ \A p \in Nat : h[p] = ParsedAt(f, h, p)
  BY <1>2, GroupsExist
<1> DEFINE Right(p) == h[p].kind = "field" =>
             \E e \in Nat : h[p].end = e + 1 /\ e + 1 \in 1 .. n /\ f[e + 1] = Close /\ e >= p
           G == {k \in Nat : \A p \in Nat : p + k >= n => Right(p)}
<1>4. ASSUME NEW k \in Nat, \A j \in 0 .. k - 1 : j \in G PROVE k \in G
  <2> SUFFICES ASSUME NEW p \in Nat, p + k >= n PROVE Right(p)
    OBVIOUS
  <2>1. PICK a : a = GroupAt(f, p)
    OBVIOUS
  <2>2. a.end \in Nat /\ a.end > p /\ (p >= n => a.kind # "group")
    BY <1>1, <2>1, GroupFacts DEF Begins
  <2>3. CASE a.kind # "group"
    <3>1. h[p] = [kind |-> a.kind, groups |-> <<>>, end |-> a.end]
      BY <1>3, <2>1, <2>3 DEF ParsedAt
    <3>2. h[p].kind = a.kind /\ h[p].end = a.end
      BY <3>1
    <3>3. a.kind = "field" => p + 1 \in 1 .. n /\ f[p + 1] = Close /\ a.end = p + 1
      BY <1>1, <2>1, CloseSeen
    <3> QED
      BY <3>2, <3>3
  <2>4. CASE a.kind = "group"
    <3>1. h[p] = [h[a.end] EXCEPT !.groups = <<a.is>> \o @]
      BY <1>3, <2>1, <2>4 DEF ParsedAt
    <3>2. k # 0 /\ k - 1 \in 0 .. k - 1 /\ a.end + (k - 1) >= n
      BY <2>2, <2>4
    <3>3. Right(a.end)
      BY <1>4, <2>2, <3>2
    <3>4. h[a.end] \in Parses
      BY <1>3, <2>2
    <3>5. h[p].end = h[a.end].end /\ h[p].kind = h[a.end].kind
      BY <3>1, <3>4 DEF Parses
    <3>6. \A e \in Nat : e >= a.end => e >= p
      BY <2>2
    <3> QED
      BY <3>3, <3>5, <3>6
  <2> QED
    BY <2>3, <2>4
<1> HIDE DEF G
<1>5. \A k \in Nat : k \in G
  BY <1>4, InductionOn
<1>6. n \in G /\ q + n >= n
  BY <1>5
<1>7. Right(q)
  BY <1>6 DEF G
<1> QED
  BY <1>1, <1>2, <1>7

\* A field prints bytes; of a sound format string and sound arguments it prints
\* what begins whole.
LEMMA FieldPrints ==
  ASSUME NEW j \in Jobs, NEW q \in Nat, GroupsFrom(j.fmt)[q].kind = "field",
         NEW s, s = Settings(GroupsFrom(j.fmt)[q].groups), NEW i \in DOMAIN j.args
  PROVE  /\ format_type(s, j.args[i]).calls \in Seq(ByteCalls)
         /\ SoundJob(j) => format_type(s, j.args[i]).calls \in Seq(WideCalls)
<1>1. j.fmt \in Seq(Nat) /\ j.fmt \in Seq(1 .. 255) /\ j.args \in Seq(Args)
  BY JobText, FormatAssumption
<1>2. PICK a \in Args : a = j.args[i]
  BY <1>1, ElementOfSeq, LenProperties
<1>3. PICK g \in Seq(Pairs) : g = GroupsFrom(j.fmt)[q].groups
  <2>1. PICK r \in Parses : r = GroupsFrom(j.fmt)[q]
    BY <1>1, ParsedFacts
  <2> QED
    BY <2>1 DEF Parses
<1>4. s \in Specs
  BY <1>3, SettingsType, SMTT(30)
<1>5. s.pad \in 0 .. 255
  <2>1. PadsIn(g, 0 .. 255)
    BY <1>1, <1>3, FieldPadsBytes
  <2>2. 0 .. 255 \in SUBSET Nat /\ 0 \in 0 .. 255 /\ Zero \in 0 .. 255
    BY DEF Zero
  <2> QED
    BY <1>3, <2>1, <2>2, PadChosen
<1>6. format_type(s, a).calls \in Seq(ByteCalls)
  BY <1>4, <1>5, BytesClose, PrintedKept
<1>7. ASSUME SoundJob(j) PROVE format_type(s, a).calls \in Seq(WideCalls)
  <2>1. PadsIn(g, 0 .. 127)
    BY <1>1, <1>3, <1>7, FieldPadsAscii DEF SoundJob
  <2>2. 0 .. 127 \in SUBSET Nat /\ 0 \in 0 .. 127 /\ Zero \in 0 .. 127
    BY DEF Zero
  <2>3. s.pad \in 0 .. 127
    BY <1>3, <2>1, <2>2, PadChosen
  <2>4. a.type # "char8" /\ ~Faulty(Points(a.text)) /\ ~Faulty(Points(a.imag))
    BY <1>2, <1>7 DEF SoundJob
  <2>5. Closing(WideCalls, s, a)
    BY <1>4, <2>3, <2>4, WideClose
  <2> QED
    BY <1>4, <2>5, PrintedKept
<1> QED
  BY <1>2, <1>6, <1>7

\* The settings of a field that ends here are those of its groups.
LEMMA SpecSettings ==
  ASSUME NEW j \in Jobs, NEW o, NEW b \in Nat, NEW p \in Nat, NEW s, NEW k,
         InField(j, o, b, p, s, k), GroupAt(j.fmt, p + 1).kind = "field"
  PROVE  GroupsFrom(j.fmt)[b + 1].kind = "field" /\ s = Settings(GroupsFrom(j.fmt)[b + 1].groups)
<1>1. PICK done \in Seq(Pairs) :
        s = Settings(done) /\ GroupsFrom(j.fmt)[b + 1] = Put(done, GroupsFrom(j.fmt)[p + 1])
  BY FieldSoFar
<1>2. PICK e \in Nat : e = p + 1
  OBVIOUS
<1>3. PICK r \in Parses : r = GroupsFrom(j.fmt)[e]
  BY JobText, ParsedStep
<1>4. r = [kind |-> GroupAt(j.fmt, e).kind, groups |-> <<>>, end |-> GroupAt(j.fmt, e).end]
  <2>1. GroupAt(j.fmt, e).kind # "group"
    BY <1>2
  <2> QED
    BY <1>3, <2>1, JobText, ParsedStep
<1>5. r.kind = "field" /\ r.groups = <<>>
  BY <1>2, <1>4
<1>6. Put(done, r).kind = r.kind /\ Put(done, r).groups = done \o r.groups
  BY PutFacts
<1>7. done \o <<>> = done
  BY ConcatEmptySeq
<1> QED
  BY <1>1, <1>2, <1>3, <1>5, <1>6, <1>7

\* What a field means, case by case.
LEMMA FieldCases ==
  ASSUME NEW f, NEW p, NEW args, NEW k, NEW rest, NEW s, NEW r, NEW w,
         s = Settings(GroupsFrom(f)[p + 1].groups), w = Which(s, k), r = format_type(s, args[w])
  PROVE  \/ \E o : FieldMeans(f, p, args, k, rest) = Meant(<<>>, o)
         \/ /\ GroupsFrom(f)[p + 1].kind = "field" /\ w \in DOMAIN args
            /\ \/ FieldMeans(f, p, args, k, rest) = After(All(r.calls), rest[Taken(s, k)])
               \/ \E o : FieldMeans(f, p, args, k, rest) = Meant(All(r.calls), o)
  BY DEF FieldMeans

\* From where a character begins on, a sound format string means a text that
\* begins with a character.
LEMMA AheadBegins ==
  ASSUME NEW j \in Jobs, SoundJob(j), NEW p \in Nat, NEW k \in Nat,
         p < Len(j.fmt) => j.fmt[p + 1] \notin 128 .. 191
  PROVE  BeginsWhole(Ahead(j, p, k).text)
<1>1. PICK n \in Nat : n = Len(j.fmt)
  BY JobText
<1>2. PICK f \in Seq(Nat) : f = j.fmt
  BY JobText
<1> DEFINE Right(q) == (q < n => f[q + 1] \notin 128 .. 191) =>
                         \A i \in Nat : BeginsWhole(Ahead(j, q, i).text)
           G == {m \in Nat : \A q \in Nat : q + m >= n => Right(q)}
<1>3. ASSUME NEW m \in Nat, \A i \in 0 .. m - 1 : i \in G PROVE m \in G
  <2> SUFFICES ASSUME NEW q \in Nat, q + m >= n, q < n => f[q + 1] \notin 128 .. 191, NEW i \in Nat
               PROVE  BeginsWhole(Ahead(j, q, i).text)
    OBVIOUS
  <2>1. CASE q >= n
    <3>1. Ahead(j, q, i) = Meant(<<>>, "done")
      BY <1>1, <2>1, AheadFacts
    <3>2. Ahead(j, q, i).text = <<>>
      BY <3>1 DEF Meant
    <3> QED
      BY <3>2 DEF BeginsWhole
  <2>2. CASE q < n /\ (Brace(f, q) \/ f[q + 1] # Open)
    <3>1. PICK b \in Nat : b = Behind(f, q)
      BY BehindFacts
    <3>2. PICK d \in Meanings : d = Ahead(j, b, i)
      BY AheadFacts
    <3>3. Ahead(j, q, i) = After(<<f[q + 1]>>, d)
      BY <1>1, <1>2, <2>2, <3>1, <3>2, AheadFacts
    <3>4. PICK c \in Nat : c = f[q + 1] /\ c \notin 128 .. 191
      <4>0. n = Len(f) /\ q < n
        BY <1>1, <1>2, <2>2
      <4>1. q + 1 \in 1 .. Len(f)
        BY ONLY <4>0, n \in Nat, q \in Nat
      <4> QED
        BY <2>2, <4>1, ElementOfSeq
    <3>5. PICK t \in Seq(Nat) : t = d.text
      BY DEF Meanings
    <3>6. Ahead(j, q, i).text = <<c>> \o t
      <4>1. PICK a : a = Ahead(j, q, i)
        OBVIOUS
      <4>2. a = [text |-> <<c>> \o t, outcome |-> d.outcome]
        BY <3>3, <3>4, <3>5, <4>1 DEF After, Meant
      <4>3. a.text = <<c>> \o t
        BY <4>2
      <4> QED
        BY <4>1, <4>3
    <3>7. <<c>> \in Seq(Nat) /\ Len(<<c>>) = 1 /\ <<c>>[1] = c
      OBVIOUS
    <3>8. (<<c>> \o t)[1] = c
      BY <3>7, Joined
    <3> QED
      BY <3>4, <3>6, <3>8 DEF BeginsWhole
  <2>3. CASE q < n /\ ~(Brace(f, q) \/ f[q + 1] # Open)
    <3>1. PICK s : s = Settings(GroupsFrom(f)[q + 1].groups)
      OBVIOUS
    <3>2. PICK w : w = Which(s, i)
      OBVIOUS
    <3>3. PICK r : r = format_type(s, j.args[w])
      OBVIOUS
    <3>4. PICK rest : rest = MeaningFrom(f, j.args)[Behind(f, q)]
      OBVIOUS
    <3>5. PICK a : a = Ahead(j, q, i)
      OBVIOUS
    <3>6. a = FieldMeans(f, q, j.args, i, rest)
      BY <1>1, <1>2, <2>3, <3>4, <3>5, AheadFacts
    <3>61. \/ \E o : a = Meant(<<>>, o)
          \/ /\ GroupsFrom(f)[q + 1].kind = "field" /\ w \in DOMAIN j.args
             /\ a = After(All(r.calls), rest[Taken(s, i)]) \/ \E o : a = Meant(All(r.calls), o)
      BY ONLY <3>1, <3>2, <3>3, <3>6, FieldCases
    <3>7. CASE \E o : a = Meant(<<>>, o)
      <4>1. a.text = <<>>
        BY <3>7 DEF Meant
      <4> QED
        BY <3>5, <4>1 DEF BeginsWhole
    <3>8. CASE GroupsFrom(f)[q + 1].kind = "field" /\ w \in DOMAIN j.args
      <4>0. PICK b \in Nat : b = q + 1
        OBVIOUS
      <4>1. r.calls \in Seq(WideCalls)
        BY <1>2, <3>1, <3>3, <3>8, <4>0, FieldPrints
      <4>2. PICK t \in Seq(Nat) : t = All(r.calls) /\ BeginsWhole(t)
        BY <4>1, AllBegins
      <4>3. CASE \E o : a = Meant(All(r.calls), o)
        <5>1. a.text = t
          BY <4>2, <4>3 DEF Meant
        <5> QED
          BY <3>5, <4>2, <5>1
      <4>4. CASE a = After(All(r.calls), rest[Taken(s, i)])
        <5>1. PICK e \in Nat : GroupsFrom(f)[b].end = e + 1 /\ e + 1 \in 1 .. Len(f) /\ f[e + 1] = Close /\ e >= b
          BY <3>8, <4>0, FieldCloses
        <5>2. Behind(f, q) = e + 1
          BY <2>3, <4>0, <5>1 DEF Behind
        <5>3. PICK l \in Nat : l = Taken(s, i)
          <6>1. s.arg_index \in Nat \cup {-1}
            <7>1. PICK g \in Parses : g = GroupsFrom(f)[b]
              BY ParsedFacts
            <7>2. g.groups \in Seq(Pairs)
              BY DEF Parses
            <7> QED
              BY <3>1, <4>0, <7>1, <7>2, SettingsType
          <6> QED
            BY DEF Taken
        <5>4. PICK d \in Nat : d = e + 1
          OBVIOUS
        <5>5. rest[l] = Ahead(j, d, l)
          BY <1>2, <3>4, <5>2, <5>4 DEF Ahead
        <5>6. d < n => f[d + 1] \notin 128 .. 191
          <6>1. f[e + 1] < 128 /\ e < Len(f)
            BY <5>1 DEF Close
          <6>2. e + 1 < Len(f) => f[e + 2] \notin 128 .. 191
            BY <1>2, <6>1, BehindAscii DEF SoundJob
          <6>3. d + 1 = e + 2
            BY <5>4
          <6> QED
            BY <1>1, <1>2, <5>4, <6>2, <6>3
        <5>7. BeginsWhole(Ahead(j, d, l).text)
          <6>1. m # 0 /\ m - 1 \in 0 .. m - 1 /\ d + (m - 1) >= n
            BY <2>3, <4>0, <5>1, <5>4
          <6>2. Right(d)
            <7> HIDE DEF Right
            <7> QED
              BY <1>3, <6>1
          <6> QED
            BY <5>6, <6>2
        <5>8. PICK x \in Meanings : x = Ahead(j, d, l)
          BY AheadFacts
        <5>9. x.text \in Seq(Nat) /\ BeginsWhole(x.text)
          BY <5>7, <5>8 DEF Meanings
        <5>10. a.text = t \o x.text
          BY <4>2, <4>4, <5>3, <5>5, <5>8 DEF After, Meant
        <5> QED
          BY <3>5, <4>2, <5>9, <5>10, BeginsJoined
      <4> QED
        BY <3>61, <3>7, <4>3, <4>4
    <3> QED
      BY <3>61, <3>7, <3>8
  <2> QED
    BY <1>1, <2>1, <2>2, <2>3
<1> HIDE DEF G
<1>4. \A m \in Nat : m \in G
  BY <1>3, InductionOn
<1>5. n \in G /\ p + n >= n
  BY <1>4
<1>6. Right(p)
  BY <1>5 DEF G
<1> QED
  BY <1>1, <1>2, <1>6

-----------------------------------------------------------------------------
(* What has been handed over. *)

\* Until a call is over: the writer has taken bytes, and a wide stream that is
\* to show whole characters shows them; what it refuses is no character, or a
\* wide text among the arguments that is none.
AtCharacter == pos < Len(job.fmt) => job.fmt[pos + 1] \notin 128 .. 191

WideCourse ==
  /\ out \in Seq(WellCalls)
  /\ phase = "prefix" => AtCharacter
  /\ phase = "thrown" /\ error = "unicode_error" =>
       \/ /\ Faulty(Points(Entire(job).text))
          /\ \E x \in Seq(Nat) : Entire(job).text = All(out) \o x
       \/ Entire(job) = Meant(All(out), "unicode_error")

TextsKept ==
  /\ out \in Seq(ByteCalls)
  /\ job.sink = "wide" /\ SoundJob(job) => WideCourse

TextsInv == phase # "idle" /\ Entire(job).outcome # "odd" => TextsKept

\* Calls from whose text what follows is parted by a character's beginning.
Carried(calls) ==
  /\ calls \in Seq(WideCalls)
  /\ Faulty(Points(All(out) \o All(calls))) =>
       \E y \in Seq(Nat) : BeginsWhole(y) /\ Entire(job).text = (All(out) \o All(calls)) \o y

\* A step within a job leaves alone what the format string asks for.
LEMMA SameMeaning ==
  ASSUME job' = job
  PROVE  Entire(job)' = Entire(job) /\ (SoundJob(job)' <=> SoundJob(job))
  BY DEF Entire, Ahead, SoundJob

\* A step of parse_format that hands nothing over.
LEMMA KeptStill ==
  ASSUME TextsKept, job' = job, out' = out, phase' # "prefix",
         phase' = "thrown" /\ job.sink = "wide" =>
           error' # "unicode_error" \/ Entire(job) = Meant(All(out), "unicode_error")
  PROVE  TextsKept'
  BY SameMeaning DEF TextsKept, WideCourse

\* What is handed over is bytes.
LEMMA BytesDelivered ==
  ASSUME out \in Seq(ByteCalls), NEW calls \in Seq(ByteCalls), NEW ph, NEW err, Deliver(calls, ph, err)
  PROVE  out' \in Seq(ByteCalls)
<1>1. PICK S : S = ByteCalls
  OBVIOUS
<1>2. out \in Seq(S) /\ calls \in Seq(S)
  BY <1>1
<1>3. PICK R : R = Refused(calls)
  OBVIOUS
<1>4. CASE R = {}
  <2>1. out' = out \o calls
    BY <1>3, <1>4 DEF Deliver
  <2> QED
    BY <1>1, <1>2, <2>1, ConcatProperties
<1>5. CASE R # {}
  <2>1. PICK m : m = Min(R)
    OBVIOUS
  <2>2. out' = out \o SubSeq(calls, 1, m - 1)
    BY <1>3, <1>5, <2>1 DEF Deliver
  <2>3. m \in 1 .. Len(calls)
    <3>1. R \subseteq 1 .. Len(calls)
      BY <1>2, <1>3, LenProperties DEF Refused
    <3>2. R \in SUBSET Nat
      BY <3>1
    <3>3. m \in R
      BY <1>5, <2>1, <3>2, MinFacts
    <3> QED
      BY <3>1, <3>3
  <2>4. Parting(S, S, calls, m)
    <3>1. \A i \in 1 .. Len(calls) : calls[i] \in S
      BY <1>2, ElementOfSeq
    <3>2. 1 .. m - 1 \subseteq 1 .. Len(calls)
      <4>1. Len(calls) \in Nat
        BY <1>2, LenProperties
      <4> QED
        BY <2>3, <4>1
    <3> QED
      BY <1>2, <2>3, <3>1, <3>2 DEF Parting
  <2>5. SubSeq(calls, 1, m - 1) \in Seq(S)
    <3>1. Parted(S, S, calls, m)
      BY <2>4, CallsParted
    <3> QED
      BY <3>1 DEF Parted
  <2> QED
    BY <1>1, <1>2, <2>2, <2>5, ConcatProperties
<1> QED
  BY <1>4, <1>5

\* What is handed over keeps the course.
LEMMA KeptDelivered ==
  ASSUME TextsKept, job' = job, NEW calls \in Seq(ByteCalls), NEW ph, NEW err, Deliver(calls, ph, err),
         ph = "thrown" => err # "unicode_error",
         job.sink = "wide" /\ SoundJob(job) => Carried(calls) /\ (ph = "prefix" => AtCharacter')
  PROVE  TextsKept'
<1>1. out' \in Seq(ByteCalls)
  BY BytesDelivered DEF TextsKept
<1>2. Entire(job)' = Entire(job) /\ (SoundJob(job)' <=> SoundJob(job))
  BY SameMeaning
<1>3. ASSUME job.sink = "wide", SoundJob(job) PROVE WideCourse'
  <2>1. out \in Seq(WellCalls) /\ calls \in Seq(WideCalls) /\ (ph = "prefix" => AtCharacter')
    BY <1>3 DEF TextsKept, WideCourse, Carried
  <2>2. WideTakes(calls, ph, err)
    BY <1>3, <2>1, WideDeliver
  <2>3. CASE out' \in Seq(WellCalls) /\ out' = out \o calls /\ phase' = ph /\ error' = err
    BY <2>1, <2>3 DEF WideCourse
  <2>4. CASE /\ out' \in Seq(WellCalls) /\ phase' = "thrown" /\ error' = "unicode_error"
             /\ Faulty(Points(All(out) \o All(calls)))
             /\ \E x \in Seq(Nat) : All(out) \o All(calls) = All(out') \o x
    <3>1. PICK h : h = All(out) \o All(calls)
      OBVIOUS
    <3>2. PICK o \in Seq(Nat) : o = All(out')
      BY <2>4, AllSound
    <3>3. PICK x \in Seq(Nat) : h = o \o x
      BY <2>4, <3>1, <3>2
    <3>4. PICK y \in Seq(Nat) : BeginsWhole(y) /\ Entire(job).text = h \o y
      BY <1>3, <2>4, <3>1 DEF Carried
    <3>5. h \in Seq(Nat) /\ x \o y \in Seq(Nat)
      BY <3>2, <3>3, <3>4, Joined
    <3>6. Faulty(Points(h \o y))
      BY <2>4, <3>1, <3>4, <3>5, FaultStays
    <3>7. h \o y = o \o (x \o y)
      BY <3>2, <3>3, <3>4, JoinedInAnyOrder
    <3>8. Faulty(Points(Entire(job).text)) /\ Entire(job).text = All(out') \o (x \o y)
      BY <3>2, <3>4, <3>6, <3>7
    <3>9. Faulty(Points(Entire(job).text))' /\ (Entire(job).text = All(out) \o (x \o y))'
      BY <1>2, <3>8
    <3> QED
      BY <2>4, <3>5, <3>9 DEF WideCourse
  <2> QED
    BY <2>2, <2>3, <2>4 DEF WideTakes
<1> QED
  BY <1>1, <1>2, <1>3 DEF TextsKept

-----------------------------------------------------------------------------
(* Steps of the parser and what is handed over. *)

\* A piece of the format string is bytes.
LEMMA PieceBytes ==
  ASSUME NEW j \in Jobs, NEW a \in Nat, NEW b \in Nat, a <= b, b <= Len(j.fmt)
  PROVE  append(SubSeq(j.fmt, a + 1, b)) \in Seq(ByteCalls)
<1>1. PICK B : B = 0 .. 255
  OBVIOUS
<1>2. j.fmt \in Seq(B)
  <2>1. 1 .. 255 \subseteq B
    BY <1>1
  <2> QED
    BY <2>1, FormatAssumption, SeqMonotonic
<1>3. PICK n \in Nat : n = Len(j.fmt)
  BY JobText
<1>4. SubSeq(j.fmt, a + 1, b) \in Seq(B)
  <2>1. \A i \in a + 1 .. b : j.fmt[i] \in B
    <3>1. \A i \in a + 1 .. b : i \in 1 .. Len(j.fmt)
      BY <1>3
    <3> QED
      BY <1>2, <3>1, ElementOfSeq
  <2>2. a + 1 \in Int /\ b \in Int
    OBVIOUS
  <2> QED
    BY <2>1, <2>2, SubSeqProperties
<1>5. [raw |-> FALSE, text |-> SubSeq(j.fmt, a + 1, b)] \in ByteCalls
  BY <1>1, <1>4 DEF ByteCalls
<1> QED
  BY <1>5, CallsOfKind

\* Literal text that is handed over is carried.
LEMMA PieceCarried ==
  ASSUME UnderWay, TextsKept, phase = "prefix", next < Len(job.fmt) => job.fmt[next + 1] < 128
  PROVE  /\ append(SubSeq(job.fmt, pos + 1, next)) \in Seq(ByteCalls) /\ Prefix \in Seq(ByteCalls)
         /\ job.sink = "wide" /\ SoundJob(job) =>
              Carried(append(SubSeq(job.fmt, pos + 1, next))) /\ Carried(Prefix)
<1>1. /\ job \in Jobs /\ Len(job.fmt) \in Nat
      /\ pos \in Nat /\ next \in Nat /\ pos <= next /\ next <= Len(job.fmt)
  BY PrefixPlace
<1>2. PICK t : t = SubSeq(job.fmt, pos + 1, next)
  OBVIOUS
<1>3. append(t) \in Seq(ByteCalls) /\ <<>> \in Seq(ByteCalls)
  <2>1. append(SubSeq(job.fmt, pos + 1, next)) \in Seq(ByteCalls)
    BY <1>1, PieceBytes
  <2> QED
    BY <1>2, <2>1, CallsOfKind
<1>4. Prefix = IF next = pos THEN <<>> ELSE append(t)
  BY <1>2 DEF Prefix
<1>5. ASSUME job.sink = "wide", SoundJob(job) PROVE Carried(append(t)) /\ Carried(<<>>)
  <2>1. PICK o \in Seq(Nat) : o = All(out) /\ ~Faulty(Points(o))
    BY <1>5, AllSound DEF TextsKept, WideCourse
  <2>2. t \in Seq(Nat) /\ ~Faulty(Points(t))
    <3>1. job.fmt \in Seq(Nat) /\ ~Faulty(Points(job.fmt))
      BY <1>1, <1>5, JobText DEF SoundJob
    <3>2. pos < Len(job.fmt) => job.fmt[pos + 1] \notin 128 .. 191
      BY <1>5 DEF TextsKept, WideCourse, AtCharacter
    <3> QED
      BY <1>1, <1>2, <3>1, <3>2, SoundPiece
  <2>3. BeginsWhole(t)
    BY <2>2, SoundBegins
  <2>4. PICK c : c = [raw |-> FALSE, text |-> t]
    OBVIOUS
  <2>5. c \in WideCalls
    <3>1. c.raw = FALSE /\ c.text = t /\ c \in Calls
      BY <2>2, <2>4 DEF Calls
    <3> QED
      BY <2>3, <3>1 DEF WideCalls
  <2>6. append(t) \in Seq(WideCalls) /\ <<>> \in Seq(WideCalls)
    BY <2>4, <2>5, CallsOfKind
  <2>7. All(append(t)) = t
    BY <2>2, AppendFacts
  <2>8. ~Faulty(Points(o \o t))
    BY <2>1, <2>2, PointsOfBoth
  <2>9. All(<<>>) = <<>> /\ o \o <<>> = o
    BY <2>1, AllOfFew, JoinedToNone
  <2> QED
    BY <2>1, <2>6, <2>7, <2>8, <2>9 DEF Carried
<1> QED
  BY <1>2, <1>3, <1>4, <1>5

\* Where fetch_prefix hands over, the format string goes on with ASCII.
LEMMA StopsAtAscii ==
  ASSUME UnderWay, phase = "prefix", Here(next) \in {NUL, Open, Close}
  PROVE  next < Len(job.fmt) => job.fmt[next + 1] < 128
<1>1. job \in Jobs /\ next \in Nat
  BY PrefixPlace
<1>2. next < Len(job.fmt) => Here(next) = job.fmt[next + 1]
  BY <1>1, DoubledIs
<1> QED
  BY <1>2 DEF NUL, Open, Close

\* A literal character hands nothing over, and keeps to characters.
LEMMA LiteralTexts ==
  ASSUME UnderWay, TextsKept, Literal
  PROVE  TextsKept'
<1>1. /\ phase = "prefix" /\ job' = job /\ phase' = phase /\ pos' = pos /\ out' = out
  BY DEF Literal
<1> QED
  BY <1>1, SameMeaning DEF TextsKept, WideCourse, AtCharacter

\* A doubled brace hands over the piece up to the first of them: a whole
\* number of characters.
LEMMA EscapeTexts ==
  ASSUME UnderWay, TextsKept, Escape
  PROVE  TextsKept'
<1> DEFINE calls == append(SubSeq(job.fmt, pos + 1, next))
<1>1. /\ phase = "prefix" /\ Doubled(next) /\ Deliver(calls, "prefix", error)
      /\ pos' = next + 1 /\ job' = job
  BY DEF Escape
<1>2. Here(next) \in {NUL, Open, Close}
  BY <1>1 DEF Doubled
<1>3. next < Len(job.fmt) => job.fmt[next + 1] < 128
  BY <1>1, <1>2, StopsAtAscii
<1>4. calls \in Seq(ByteCalls) /\ (job.sink = "wide" /\ SoundJob(job) => Carried(calls))
  BY <1>1, <1>3, PieceCarried
<1>5. AtCharacter'
  <2>1. job \in Jobs /\ next \in Nat
    BY <1>1, PrefixPlace
  <2>2. PICK q \in Nat : q = next + 1
    BY <2>1
  <2>3. Here(q) \in {Open, Close}
    BY <1>1, <2>2 DEF Doubled
  <2>4. q < Len(job.fmt) => Here(q) = job.fmt[q + 1]
    BY <2>1, DoubledIs
  <2>5. Open \notin 128 .. 191 /\ Close \notin 128 .. 191
    BY DEF Open, Close
  <2>6. pos' < Len(job.fmt) => job.fmt[pos' + 1] \notin 128 .. 191
    BY <1>1, <2>2, <2>3, <2>4, <2>5
  <2> QED
    BY <1>1, <2>6 DEF AtCharacter
<1> HIDE DEF calls
<1> QED
  BY <1>1, <1>4, <1>5, KeptDelivered

\* At the next field or the end the parser hands over what was literal.
LEMMA ReachTexts ==
  ASSUME UnderWay, TextsKept, Reach
  PROVE  TextsKept'
<1>1. PICK ph : ph = IF job.sink \in {"format", "format_latin_1"} THEN "finish" ELSE "done"
  OBVIOUS
<1>2. phase = "prefix" /\ Here(next) = NUL /\ Deliver(Prefix, ph, error) /\ job' = job
  BY <1>1 DEF Reach
<1>3. next < Len(job.fmt) => job.fmt[next + 1] < 128
  BY <1>2, StopsAtAscii
<1>4. Prefix \in Seq(ByteCalls) /\ (job.sink = "wide" /\ SoundJob(job) => Carried(Prefix))
  BY <1>2, <1>3, PieceCarried
<1>5. ph # "thrown" /\ ph # "prefix"
  BY <1>1
<1> QED
  BY <1>2, <1>4, <1>5, KeptDelivered

\* Entering a field hands over what was literal before its brace.
LEMMA EnterTexts ==
  ASSUME UnderWay, TextsKept, EnterField
  PROVE  TextsKept'
<1>1. /\ phase = "prefix" /\ Here(next) = Open /\ job' = job
      /\ Deliver(Prefix, "thrown", "out_of_range") \/ Deliver(Prefix, "spec", error)
  BY DEF EnterField
<1>2. next < Len(job.fmt) => job.fmt[next + 1] < 128
  BY <1>1, StopsAtAscii
<1>3. Prefix \in Seq(ByteCalls) /\ (job.sink = "wide" /\ SoundJob(job) => Carried(Prefix))
  BY <1>1, <1>2, PieceCarried
<1>4. CASE Deliver(Prefix, "thrown", "out_of_range")
  BY <1>1, <1>3, <1>4, KeptDelivered
<1>5. CASE Deliver(Prefix, "spec", error)
  BY <1>1, <1>3, <1>5, KeptDelivered
<1> QED
  BY <1>1, <1>4, <1>5

\* The argument that is picked is the one the field asks for.
LEMMA WantedIs ==
  ASSUME spec.arg_index \in Nat \cup {-1}, index \in Nat
  PROVE  Which(spec, index) = Wanted + 1 /\ Wanted \in Int /\ Taken(spec, index) \in Nat
<1>1. CASE spec.arg_index = -1
  <2>1. ~(spec.arg_index >= 0)
    BY <1>1
  <2> QED
    BY <1>1, <2>1 DEF Which, Wanted, Taken
<1>2. CASE spec.arg_index # -1
  <2>1. spec.arg_index \in Nat /\ spec.arg_index >= 0
    BY <1>2
  <2> QED
    BY <1>2, <2>1 DEF Which, Wanted, Taken
<1> QED
  BY <1>1, <1>2

\* Behind the brace that closes a field a character begins.
LEMMA BehindField ==
  ASSUME UnderWay, phase = "spec", Group = Close
  PROVE  /\ GroupAt(job.fmt, pos + 1).kind = "field" /\ GroupAt(job.fmt, pos + 1).end = pos + 2
         /\ SoundJob(job) /\ pos + 2 < Len(job.fmt) => job.fmt[pos + 3] \notin 128 .. 191
<1>1. job \in Jobs /\ Len(job.fmt) \in Nat /\ pos \in Nat /\ job.fmt \in Seq(Nat)
  BY SpecPlace, JobText
<1>2. PICK q \in Nat : q = pos + 1 /\ q + 1 = pos + 2 /\ q + 2 = pos + 3
  BY <1>1
<1>3. Here(q) = Close
  BY <1>2 DEF Group
<1>4. GroupAt(job.fmt, q) = Begins("field", <<>>, q + 1)
  BY <1>1, <1>3, GroupSeen
<1>5. GroupAt(job.fmt, q).kind = "field" /\ GroupAt(job.fmt, q).end = q + 1
  BY <1>4 DEF Begins
<1>6. q < Len(job.fmt) /\ job.fmt[q + 1] = Close
  <2>1. q < Len(job.fmt) <=> Here(q) # NUL
    BY <1>1, DoubledIs
  <2>2. q < Len(job.fmt) => Here(q) = job.fmt[q + 1]
    BY <1>1, DoubledIs
  <2>3. Close # NUL
    BY DEF Close, NUL
  <2> QED
    BY <1>3, <2>1, <2>2, <2>3
<1>7. ASSUME SoundJob(job), q + 1 < Len(job.fmt) PROVE job.fmt[q + 2] \notin 128 .. 191
  <2>1. ~Faulty(Points(job.fmt)) /\ job.fmt[q + 1] < 128
    BY <1>6, <1>7 DEF SoundJob, Close
  <2> QED
    BY <1>1, <1>6, <1>7, <2>1, BehindAscii
<1> QED
  BY <1>2, <1>5, <1>7

\* A field's text begins whole, and behind its closing brace the format string
\* goes on with a character: the pieces shown stay whole.
LEMMA ApplyTexts ==
  ASSUME UnderWay, TextsKept, Apply
  PROVE  TextsKept'
<1>1. PICK r : r = format_type(spec, job.args[Wanted + 1])
  OBVIOUS
<1>2. PICK ph : ph = IF r.ok THEN "prefix" ELSE "aborted"
  OBVIOUS
<1>3. /\ phase = "spec" /\ Group = Close
      /\ Wanted \notin 0 .. Len(job.args) - 1 => phase' = "thrown" /\ error' = "out_of_range" /\ out' = out
      /\ Wanted \in 0 .. Len(job.args) - 1 =>
           IF job.args[Wanted + 1].type = "ill_formed"
           THEN phase' = "thrown" /\ error' = "unicode_error" /\ out' = out
           ELSE Deliver(r.calls, ph, error)
      /\ pos' = pos + 2 /\ job' = job
  BY <1>1, <1>2 DEF Apply, Fail
<1>4. /\ job \in Jobs /\ pos \in Nat /\ next \in Nat /\ Len(job.fmt) \in Nat
      /\ out \in Seq(Calls) /\ index \in Nat /\ InField(job, out, next, pos, spec, index)
  BY <1>3, SpecPlace
<1>5. PICK g : g = GroupAt(job.fmt, pos + 1)
  OBVIOUS
<1>6. /\ g.kind = "field" /\ g.end = pos + 2
      /\ SoundJob(job) /\ pos + 2 < Len(job.fmt) => job.fmt[pos + 3] \notin 128 .. 191
  BY <1>3, <1>5, BehindField
<1>7. CASE Wanted \notin 0 .. Len(job.args) - 1
  BY <1>3, <1>7, KeptStill
<1>8. CASE Wanted \in 0 .. Len(job.args) - 1
  <2>1. PICK e \in Nat : e = pos + 2 /\ e + 1 = pos + 3
    BY <1>4
  <2>2. PICK w : w = Which(spec, index)
    OBVIOUS
  <2>3. spec.arg_index \in Nat \cup {-1}
    BY <1>4, <1>5, <1>6, FieldEndsAhead
  <2>4. w = Wanted + 1 /\ Wanted \in Int /\ Taken(spec, index) \in Nat
    BY <1>4, <2>2, <2>3, WantedIs
  <2>5. PICK k \in Nat : k = Taken(spec, index)
    BY <2>4
  <2>6. w \in DOMAIN job.args
    <3>1. job.args \in Seq(Args)
      BY <1>4, JobText
    <3>2. DOMAIN job.args = 1 .. Len(job.args) /\ Len(job.args) \in Nat
      BY <3>1, LenProperties
    <3>3. PICK n \in Nat : n = Len(job.args)
      BY <3>2
    <3> QED
      BY <1>8, <2>4, <3>2, <3>3
  <2>7. r = format_type(spec, job.args[w])
    BY <1>1, <2>4
  <2>8. PICK q \in Nat : q = next + 1
    BY <1>4
  <2>9. GroupsFrom(job.fmt)[q].kind = "field" /\ spec = Settings(GroupsFrom(job.fmt)[q].groups)
    BY <1>4, <1>5, <1>6, <2>8, SpecSettings
  <2>10. r.calls \in Seq(ByteCalls) /\ (SoundJob(job) => r.calls \in Seq(WideCalls))
    BY <1>4, <2>6, <2>7, <2>9, FieldPrints
  <2>11. Entire(job) = After(All(out),
           IF r.ok THEN After(All(r.calls), Ahead(job, e, k)) ELSE Meant(All(r.calls), Unprinted(job.args[w])))
    <3>1. Entire(job) = After(All(out),
              IF GroupAt(job.fmt, pos + 1).kind # "field" THEN Meant(<<>>, GroupAt(job.fmt, pos + 1).kind)
              ELSE IF Which(spec, index) \notin DOMAIN job.args THEN Meant(<<>>, "out_of_range")
              ELSE IF format_type(spec, job.args[Which(spec, index)]).ok
              THEN After(All(format_type(spec, job.args[Which(spec, index)]).calls),
                         Ahead(job, GroupAt(job.fmt, pos + 1).end, Taken(spec, index)))
              ELSE Meant(All(format_type(spec, job.args[Which(spec, index)]).calls),
                         Unprinted(job.args[Which(spec, index)])))
      BY <1>4, <1>5, <1>6, FieldEndsAhead
    <3> QED
      BY <1>5, <1>6, <2>1, <2>2, <2>5, <2>6, <2>7, <3>1
  <2>12. ASSUME job.sink = "wide", SoundJob(job) PROVE Carried(r.calls)
    <3>1. PICK o \in Seq(Nat) : o = All(out)
      BY <1>4, AllFacts
    <3>2. PICK t \in Seq(Nat) : t = All(r.calls)
      BY <2>10, <2>12, AllBegins
    <3>3. PICK m \in Meanings : m = Ahead(job, e, k)
      BY <1>4, AheadFacts
    <3>4. PICK x \in Seq(Nat) : x = m.text
      BY DEF Meanings
    <3>5. BeginsWhole(x)
      <4>1. e < Len(job.fmt) => job.fmt[e + 1] \notin 128 .. 191
        BY <1>6, <2>1, <2>12
      <4>2. BeginsWhole(Ahead(job, e, k).text)
        BY <1>4, <2>12, <4>1, AheadBegins
      <4> QED
        BY <3>3, <3>4, <4>2
    <3>6. Entire(job).text = o \o (t \o x) \/ Entire(job).text = o \o t
      <4>1. PICK d : d = Entire(job)
        OBVIOUS
      <4>2. CASE r.ok
        <5>1. d = After(o, After(t, m))
          BY <2>11, <3>1, <3>2, <3>3, <4>1, <4>2
        <5>2. d.text = o \o (t \o x)
          BY <3>4, <5>1 DEF After, Meant
        <5> QED
          BY <4>1, <5>2
      <4>3. CASE ~r.ok
        <5>1. d = After(o, Meant(t, Unprinted(job.args[w])))
          BY <2>11, <3>1, <3>2, <4>1, <4>3
        <5>2. d.text = o \o t
          BY <5>1 DEF After, Meant
        <5> QED
          BY <4>1, <5>2
      <4> QED
        BY <4>2, <4>3
    <3>7. o \o (t \o x) = (o \o t) \o x
      BY JoinedInAnyOrder
    <3>8. (o \o t) \o <<>> = o \o t /\ <<>> \in Seq(Nat) /\ BeginsWhole(<<>>)
      <4>1. o \o t \in Seq(Nat)
        BY Joined
      <4> QED
        BY <4>1, JoinedToNone, EmptySeq DEF BeginsWhole
    <3> QED
      BY <2>10, <2>12, <3>1, <3>2, <3>5, <3>6, <3>7, <3>8 DEF Carried
  <2>13. ASSUME SoundJob(job) PROVE AtCharacter'
    <3>1. pos' < Len(job.fmt) => job.fmt[pos' + 1] \notin 128 .. 191
      BY <1>3, <1>6, <2>1, <2>13
    <3> QED
      BY <1>3, <3>1 DEF AtCharacter
  <2>14. CASE job.args[w].type = "ill_formed"
    <3>1. phase' = "thrown" /\ error' = "unicode_error" /\ out' = out
      BY <1>3, <1>8, <2>4, <2>14
    <3>2. PICK a \in Args : a = job.args[w]
      <4>1. job.args \in Seq(Args)
        BY <1>4, JobText
      <4> QED
        BY <2>6, <4>1, LenProperties, ElementOfSeq
    <3>3. spec \in Specs
      BY <1>4, <1>5, <1>6, FieldEndsAhead
    <3>4. ~r.ok /\ All(r.calls) = <<>> /\ Unprinted(a) = "unicode_error"
      BY <2>7, <2>14, <3>2, <3>3, NoneOfIllFormed DEF Unprinted
    <3>5. Entire(job) = After(All(out), Meant(<<>>, "unicode_error"))
      BY <2>11, <3>2, <3>4
    <3>6. Entire(job) = Meant(All(out), "unicode_error")
      <4>1. All(out) \in Seq(Nat)
        BY <1>4, AllFacts
      <4>2. PICK m \in Meanings : TRUE
        BY <1>4, AheadFacts
      <4> QED
        BY <3>5, <4>1, <4>2, AfterTexts
    <3> QED
      BY <1>3, <3>1, <3>6, KeptStill
  <2>15. CASE job.args[w].type # "ill_formed"
    <3>1. Deliver(r.calls, ph, error) /\ ph # "thrown"
      BY <1>2, <1>3, <1>8, <2>4, <2>15
    <3> QED
      BY <1>3, <2>10, <2>12, <2>13, <3>1, KeptDelivered
  <2> QED
    BY <2>14, <2>15
<1> QED
  BY <1>7, <1>8

\* The steps of parse_format and of to_string that hand nothing over.
LEMMA StillTexts ==
  ASSUME UnderWay, TextsKept, Flag \/ PadGroup \/ Width \/ NumberGroup \/ BadGroup
  PROVE  TextsKept'
<1>1. /\ phase = "spec" /\ job' = job /\ out' = out
      /\ phase' = "spec" \/ (phase' = "thrown" /\ error' = "bad_format")
  BY DEF Flag, PadGroup, Width, NumberGroup, BadGroup, Fail
<1> QED
  BY <1>1, KeptStill

\* Making the string at the end takes no more bytes, and is no step of a wide
\* stream (ST::format, ST::format_latin_1).
LEMMA MakeStringTexts ==
  ASSUME UnderWay, TextsKept, MakeString
  PROVE  TextsKept'
<1>1. phase = "finish" /\ job' = job /\ out' = out /\ phase' \in {"done", "thrown", "aborted"}
  BY DEF MakeString
<1>2. job.sink # "wide"
  BY <1>1 DEF UnderWay, OnCourse
<1> QED
  BY <1>1, <1>2, KeptStill

\* Every step of the parser keeps what the writers were given.
LEMMA StepTexts ==
  ASSUME UnderWay, TextsKept, Step
  PROVE  TextsKept'
  BY LiteralTexts, EscapeTexts, ReachTexts, EnterTexts, StillTexts, ApplyTexts, MakeStringTexts
  DEF Step

\* A call begins with the first character.
LEMMA CallTexts ==
  ASSUME FInv, CourseInv, NEW j \in Jobs, Call(j)
  PROVE  TextsInv'
<1>1. phase = "idle" /\ job' = j /\ phase' = "prefix" /\ pos' = 0 /\ out' = <<>>
  BY DEF Call, FInv, CourseInv
<1>2. \A S : <<>> \in Seq(S)
  OBVIOUS
<1>3. ASSUME SoundJob(j) PROVE 0 < Len(j.fmt) => j.fmt[0 + 1] \notin 128 .. 191
  <2>1. j.fmt \in Seq(Nat) /\ Len(j.fmt) \in Nat /\ BeginsWhole(j.fmt)
    BY <1>3, JobText, SoundBegins DEF SoundJob
  <2> QED
    BY <2>1 DEF BeginsWhole
<1> QED
  BY <1>1, <1>2, <1>3 DEF TextsInv, TextsKept, WideCourse, AtCharacter

\* Before any call there is no text.
LEMMA InitTexts == Init => TextsInv
  BY DEF Init, TextsInv

\* What the writers were given is kept by every call and every step.
LEMMA NextTexts == FInv /\ CourseInv /\ TextsInv /\ [Next]_vars => TextsInv'
<1> SUFFICES ASSUME FInv, CourseInv, TextsInv, [Next]_vars PROVE TextsInv'
  OBVIOUS
<1>1. ASSUME NEW j \in Jobs, Call(j) PROVE TextsInv'
  BY <1>1, CallTexts
<1>2. CASE Step
  <2>1. phase \in {"prefix", "spec", "finish"} /\ job' = job
    BY <1>2 DEF Step, Literal, Escape, Reach, EnterField, Flag, PadGroup, Width, NumberGroup, BadGroup, Apply,
                MakeString
  <2>2. Entire(job)' = Entire(job)
    BY <2>1, SameMeaning
  <2>3. Entire(job).outcome # "odd" => TextsKept'
    BY <1>2, <2>1, StepTexts DEF UnderWay, CourseInv, TextsInv
  <2> QED
    BY <2>2, <2>3 DEF TextsInv
<1>3. CASE Return
  BY <1>3 DEF Return, TextsInv
<1>4. CASE UNCHANGED vars
  <2>1. /\ job' = job /\ phase' = phase /\ pos' = pos /\ out' = out /\ error' = error
    BY <1>4 DEF vars
  <2>2. Entire(job)' = Entire(job) /\ (SoundJob(job)' <=> SoundJob(job))
    BY <2>1, SameMeaning
  <2> QED
    BY <2>1, <2>2 DEF TextsInv, TextsKept, WideCourse, AtCharacter
<1> QED
  BY <1>1, <1>2, <1>3, <1>4 DEF Next

\* The text of calls that are bytes is bytes.
LEMMA AllBytes ==
  ASSUME NEW c \in Seq(ByteCalls)
  PROVE  c \in Seq(Calls) /\ All(c) \in Seq(Nat) /\ \A i \in 1 .. Len(All(c)) : All(c)[i] <= 255
<1>1. PICK B : B = 0 .. 255
  OBVIOUS
<1>2. Seq(B) \subseteq Seq(Nat)
  <2>1. B \subseteq Nat
    BY <1>1
  <2> QED
    BY <2>1, SeqMonotonic
<1>3. c \in Seq(Calls)
  <2>1. ByteCalls \subseteq Calls
    BY <1>1, <1>2 DEF ByteCalls, Calls
  <2> QED
    BY <2>1, SeqMonotonic
<1>4. PICK n \in Nat : n = Len(c)
  BY LenProperties
<1>5. PICK w : w = TextsOf(c)
  OBVIOUS
<1>6. PICK f : IsJoin(f, n, w) /\ All(c) = f[n]
  BY <1>3, <1>4, <1>5, AllJoins
<1>7. \A i \in 1 .. n : w[i] \in Seq(B)
  <2>1. ASSUME NEW i \in 1 .. n PROVE w[i] \in Seq(B)
    <3>1. PICK d \in ByteCalls : d = c[i]
      BY <1>4, ElementOfSeq
    <3> QED
      BY <1>1, <1>3, <1>4, <1>5, <3>1, AllJoins DEF ByteCalls
  <2> QED
    BY <2>1
<1>8. f[n] \in Seq(B)
  <2>1. PICK m \in Nat : m = 0
    OBVIOUS
  <2>2. PICK v : v = [i \in 1 .. n + m |-> IF i <= n THEN w[i] ELSE w[i - n]]
    OBVIOUS
  <2>3. PICK g, h : IsJoin(g, m, w) /\ IsJoin(h, n + m, v)
    <3>1. n + m \in Nat
      BY <2>1
    <3> QED
      BY <2>1, <3>1, JoinExists
  <2>4. \A i \in 1 .. m : w[i] \in Seq(B)
    BY <2>1
  <2>5. Joins(B, n, m, w, w, f, g, h)
    BY <1>6, <1>7, <2>1, <2>2, <2>3, <2>4 DEF Joins
  <2>6. IsJoined(B, n, m, f, g, h)
    BY <2>5, JoinBoth
  <2> QED
    BY <2>6 DEF IsJoined
<1>9. PICK a \in Seq(B) : a = All(c)
  BY <1>6, <1>8
<1>10. \A i \in 1 .. Len(a) : a[i] <= 255
  <2>1. \A i \in 1 .. Len(a) : a[i] \in B
    BY ElementOfSeq
  <2>2. \A x \in B : x <= 255
    BY <1>1
  <2> QED
    BY <2>1, <2>2
<1> QED
  BY <1>2, <1>3, <1>9, <1>10

-----------------------------------------------------------------------------
(* What the writers show. *)

\* At every moment of every job, what a writer has taken is a beginning of the
\* text asked for, in bytes; a wide stream has taken whole characters.
THEOREM TextsHold == Spec => []TextsInv
<1>1. FInv /\ CourseInv /\ TextsInv /\ [Next]_vars => TextsInv'
  BY NextTexts
<1> QED
  BY <1>1, InitTexts, FInvHolds, CourseKept, PTL DEF Spec

\* What a call has come to that is over.
EndedWell ==
  job \in Jobs /\ Ended /\ EndsAsMeant /\ TextsKept /\ Entire(job) \in Meanings

\* A string of the Latin-1 characters.
LEMMA LatinAgrees ==
  ASSUME EndedWell, job.sink = "format_latin_1"
  PROVE  /\ Outcome = Entire(job).outcome
         /\ phase = "done" => Points(result) = Entire(job).text
<1>1. PICK t : t = All(out)
  OBVIOUS
<1>2. t \in Seq(Nat) /\ \A i \in 1 .. Len(t) : t[i] <= 255
  BY <1>1, AllBytes DEF EndedWell, TextsKept
<1>3. PICK m : m = Entire(job)
  OBVIOUS
<1>4. CASE /\ Entire(job) = Meant(All(out), Outcome)
           /\ Outcome = "done" => job.sink \notin {"format", "format_latin_1"}
  <2>1. m.outcome = Outcome
    BY <1>3, <1>4 DEF Meant
  <2>2. phase # "done"
    BY <1>4 DEF Outcome
  <2> QED
    BY <1>3, <2>1, <2>2
<1>5. CASE StringMade
  <2>1. m = Meant(t, "done") /\ phase = "done" /\ result = FromLatin1(t)
    BY <1>1, <1>3, <1>5 DEF StringMade
  <2>2. m.outcome = "done" /\ m.text = t /\ Outcome = "done"
    BY <2>1 DEF Meant, Outcome
  <2>3. \A i \in 1 .. Len(t) : t[i] <= MaxCode
    <3>1. \A i \in 1 .. Len(t) : t[i] \in Nat /\ t[i] <= 255
      BY <1>2, ElementOfSeq
    <3>2. \A c \in Nat : c <= 255 => c <= MaxCode
      BY DEF MaxCode
    <3> QED
      BY <3>1, <3>2
  <2>4. Points(result) = t
    BY <1>2, <2>1, <2>3, Latin1Is
  <2> QED
    BY <1>3, <2>2, <2>4
<1> QED
  BY <1>4, <1>5 DEF EndedWell, EndsAsMeant

\* A string, once it is validated.
LEMMA FormatAgrees ==
  ASSUME EndedWell, job.sink = "format", NEW m, m = Entire(job)
  PROVE  IF m.outcome # "done" THEN Outcome = m.outcome /\ result = <<>>
         ELSE IF Convertible(m.text) THEN Outcome = "done" /\ result = m.text
         ELSE CASE job.mode = "check_validity"     -> Outcome = "unicode_error"
                [] job.mode = "assert_validity"    -> Outcome = "aborted"
                [] job.mode = "assume_valid"       -> Outcome = "done" /\ result = m.text
                [] job.mode = "substitute_invalid" -> Outcome = "done" /\ Convertible(result)
<1>1. PICK t \in Seq(Nat) : t = All(out)
  BY AllBytes DEF EndedWell, TextsKept
<1>2. job.mode \in Modes
  BY FormatAssumption DEF EndedWell
<1>3. CASE /\ Entire(job) = Meant(All(out), Outcome) /\ result = <<>>
           /\ Outcome = "done" => job.sink \notin {"format", "format_latin_1"}
  <2>1. m.outcome = Outcome
    BY <1>3 DEF Meant
  <2> QED
    BY <1>3, <2>1
<1>4. CASE StringMade
  <2>1. PICK ok \in BOOLEAN : ok <=> ~Faulty(Points(t))
    BY Zenon
  <2>2. ok <=> Valid(t)
    BY <2>1, ValidIs
  <2>3. /\ m = Meant(t, "done")
        /\ phase = IF ok \/ job.mode \in {"assume_valid", "substitute_invalid"} THEN "done"
                   ELSE IF job.mode = "check_validity" THEN "thrown" ELSE "aborted"
        /\ phase = "thrown" => error = "unicode_error"
        /\ result = IF ~(ok \/ job.mode \in {"assume_valid", "substitute_invalid"}) THEN <<>>
                    ELSE IF job.mode = "substitute_invalid" THEN Cleaned(t) ELSE t
    BY <1>1, <1>4, <2>2 DEF StringMade
  <2>4. m.outcome = "done" /\ m.text = t
    BY <2>3 DEF Meant
  <2>5. Convertible(t) <=> ok
    BY <2>1, ConvertibleIs
  <2>6. CASE ok
    <3>1. phase = "done" /\ result = t
      BY <2>1, <2>3, <2>6, CleanedIs
    <3> QED
      BY <2>4, <2>5, <2>6, <3>1 DEF Outcome
  <2>7. CASE ~ok
    <3>1. CASE job.mode = "check_validity"
      BY <2>3, <2>4, <2>5, <2>7, <3>1 DEF Outcome
    <3>2. CASE job.mode = "assert_validity"
      BY <2>3, <2>4, <2>5, <2>7, <3>2 DEF Outcome
    <3>3. CASE job.mode = "assume_valid"
      BY <2>3, <2>4, <2>5, <2>7, <3>3 DEF Outcome
    <3>4. CASE job.mode = "substitute_invalid"
      <4>1. phase = "done" /\ result = Cleaned(t)
        BY <2>3, <2>7, <3>4
      <4>2. Convertible(result)
        BY <4>1, CleanedIs, ConvertibleIs
      <4> QED
        BY <2>4, <2>5, <2>7, <3>4, <4>1, <4>2 DEF Outcome
    <3> QED
      BY <1>2, <3>1, <3>2, <3>3, <3>4 DEF Modes
  <2> QED
    BY <2>6, <2>7
<1> QED
  BY <1>3, <1>4 DEF EndedWell, EndsAsMeant

\* A wide stream.
LEMMA WideAgrees ==
  ASSUME EndedWell, job.sink = "wide", AllConvertible, NEW m, m = Entire(job)
  PROVE  IF Convertible(m.text) THEN Outcome = m.outcome /\ WideText = Points(m.text)
         ELSE Outcome = "unicode_error" /\ IsPrefix(WideText, Points(m.text))
<1>1. WideCourse
  BY SoundIs DEF EndedWell, TextsKept
<1>2. out \in Seq(WellCalls)
  BY <1>1 DEF WideCourse
<1>3. PICK t : t = All(out)
  OBVIOUS
<1>4. t \in Seq(Nat) /\ ~Faulty(Points(t)) /\ WideText = Points(t)
  <2>1. out \in Seq(Calls) /\ \A i \in 1 .. Len(out) : ShowsWell(out[i])
    <3>1. \A i \in 1 .. Len(out) : out[i] \in WellCalls
      BY <1>2, ElementOfSeq
    <3> QED
      BY <1>2, <3>1, AllSound DEF WellCalls
  <2> QED
    BY <1>3, <2>1, WideIs
<1>5. CASE /\ phase = "thrown" /\ error = "unicode_error" /\ Faulty(Points(m.text))
           /\ \E x \in Seq(Nat) : m.text = t \o x
  <2>1. PICK x \in Seq(Nat) : m.text = t \o x
    BY <1>5
  <2>2. ~Convertible(m.text) /\ Outcome = "unicode_error"
    BY <1>5, ConvertibleIs DEF Outcome
  <2>3. Points(t \o x) = Points(t) \o Points(x) /\ Points(t) \in Seq(Nat) /\ Points(x) \in Seq(Nat)
    BY <1>4, PointsOfBoth
  <2>4. PICK a \in Seq(Nat), b \in Seq(Nat) : a = Points(t) /\ b = Points(x)
    BY <2>3
  <2>5. SubSeq(a \o b, 1, Len(a)) = a /\ Len(a) \in Nat /\ Len(b) \in Nat /\ Len(a \o b) = Len(a) + Len(b)
    BY Parts, Joined, LenProperties
  <2>6. SubSeq(a, 1, Len(a)) = a /\ Len(a) <= Len(a \o b)
    <3>1. Len(a) <= Len(a \o b)
      BY <2>5
    <3>2. SubSeq(a, 1, Len(a)) = a
      BY LenProperties
    <3> QED
      BY <3>1, <3>2
  <2>7. IsPrefix(WideText, Points(m.text))
    BY <1>4, <2>1, <2>3, <2>4, <2>5, <2>6 DEF IsPrefix
  <2> QED
    BY <2>2, <2>7
<1>6. CASE m = Meant(t, Outcome)
  <2>1. m.text = t /\ m.outcome = Outcome
    BY <1>6 DEF Meant
  <2> QED
    BY <1>4, <2>1, ConvertibleIs
<1>7. CASE ~(phase = "thrown" /\ error = "unicode_error")
  <2>1. m = Meant(t, Outcome)
    BY <1>3, <1>7 DEF EndedWell, EndsAsMeant, StringMade
  <2> QED
    BY <1>6, <2>1
<1>8. CASE phase = "thrown" /\ error = "unicode_error"
  <2>1. CASE Faulty(Points(m.text)) /\ \E x \in Seq(Nat) : m.text = t \o x
    BY <1>5, <1>8, <2>1
  <2>2. CASE m = Meant(t, "unicode_error")
    <3>1. Outcome = "unicode_error"
      BY <1>8 DEF Outcome
    <3> QED
      BY <1>6, <2>2, <3>1
  <2> QED
    BY <1>1, <1>3, <1>8, <2>1, <2>2 DEF WideCourse
<1> QED
  BY <1>7, <1>8

\* For every format string and all arguments, the writers are given the same
\* calls and show the same text: a wide stream its characters, and it throws
\* where the text is no UTF-8; ST::format a string of it that its mode allows;
\* ST::format_latin_1 a string of the bytes' characters (st_format.h,
\* st_stdio.h, st_iostream.h).
THEOREM AllWritersAgree == Spec => []WritersAgree
<1>1. FInv /\ CourseInv /\ TextsInv => WritersAgree
  <2> SUFFICES ASSUME FInv, CourseInv, TextsInv, Ended, Meaning.outcome # "odd"
               PROVE  WritersOwe(Meaning)
    BY DEF WritersAgree
  <2>1. Meaning = Entire(job)
    BY DEF Meaning, Entire, Ahead
  <2>2. EndedWell
    <3>1. phase # "idle" /\ job \in Jobs
      BY DEF Ended, FInv
    <3>2. Entire(job) \in Meanings
      BY <3>1, AheadFacts DEF Entire
    <3> QED
      BY <2>1, <3>1, <3>2 DEF EndedWell, CourseInv, TextsInv, OnCourse, Ended
  <2> QED
    BY <2>1, <2>2, LatinAgrees, FormatAgrees, WideAgrees DEF WritersOwe
<1> QED
  BY <1>1, FInvHolds, CourseKept, TextsHold, PTL

===============================================================================
