---------------------------- MODULE FormatGrammar -----------------------------
(***************************************************************************)
(* What a format string means, read off its grammar and not off the        *)
(* parser, and what a call of Formatter.tla owes it.                       *)
(*                                                                         *)
(* A format string is a sequence of characters, doubled braces and fields; *)
(* a field is a sequence of groups; of groups that set the same thing the  *)
(* last one counts.  Numbers too large for an int, and "." or "&" before   *)
(* anything but a digit, are left out ("odd").                             *)
(*                                                                         *)
(* A place p of a text f is the number of characters before it; what a     *)
(* text means from a place on is a function of the place.                  *)
(***************************************************************************)
EXTENDS Formatter, SequencesExt

Digit == 48 .. 57

\* The decimal number at p, and the place behind it.
NumberEnd(f, p) == Min({q \in p .. Len(f) : q = Len(f) \/ f[q + 1] \notin Digit})

NumberAt(f, p) == Worth(SubSeq(f, p + 1, NumberEnd(f, p)), 10)

\* A group is a pair: what it sets, named by the group's first character, "1"
\* for a width, and the character or number that belongs to it.
Single == {60, 62, 48, 35, 120, 88, 43, 100, 111, 98, 99, 102, 101, 69}

Begins(kind, is, end) == [kind |-> kind, is |-> is, end |-> end]

Numbered(f, p, key) ==
  LET end == NumberEnd(f, p) IN
  IF end = p \/ NumberAt(f, p) >= IntMod \div 2 THEN Begins("odd", <<>>, end + 1)
  ELSE Begins("group", <<key, NumberAt(f, p)>>, end)

\* What begins at p in a field: a group, the end of the field, or an error.
GroupAt(f, p) ==
  LET c == f[p + 1] IN
  IF p >= Len(f) THEN Begins("bad_format", <<>>, p + 1)
  ELSE IF c = Close THEN Begins("field", <<>>, p + 1)
  ELSE IF c \in {Under, Dot, Amp} /\ p + 1 = Len(f) THEN Begins("bad_format", <<>>, p + 1)
  ELSE IF c = Under THEN Begins("group", <<Under, f[p + 2]>>, p + 2)
  ELSE IF c \in {Dot, Amp} THEN Numbered(f, p + 1, c)
  ELSE IF c \in Digit \ {Zero} THEN Numbered(f, p, 49)
  ELSE IF c \in Single THEN Begins("group", <<c, 0>>, p + 1)
  ELSE Begins("bad_format", <<>>, p + 1)

\* The groups from each place on, and the place behind them.
GroupsFrom(f) ==
  LET from[p \in Nat] ==
        LET g == GroupAt(f, p) IN
        IF g.kind # "group" THEN [kind |-> g.kind, groups |-> <<>>, end |-> g.end]
        ELSE [from[g.end] EXCEPT !.groups = <<g.is>> \o @]
  IN  from

\* The last of the groups of these kinds, or the default.
LastOf(groups, kinds, default) ==
  LET at == {i \in DOMAIN groups : groups[i][1] \in kinds}
  IN  IF at = {} THEN default ELSE groups[Max(at)]

Settings(groups) ==
  LET padding == LastOf(groups, {Under, Zero}, <<0, 0>>)
      has(c)  == LastOf(groups, {c}, <<0, 0>>)[1] = c
      align   == LastOf(groups, {60, 62}, <<0, 0>>)[1]
      class   == LastOf(groups, {120, 88, 100, 111, 98, 99}, <<0, 0>>)[1]
      float   == LastOf(groups, {102, 101, 69}, <<0, 0>>)[1]
  IN  [minimum_length |-> LastOf(groups, {49}, <<0, 0>>)[2],
       precision      |-> LastOf(groups, {Dot}, <<0, -1>>)[2],
       arg_index      |-> LastOf(groups, {Amp}, <<0, -1>>)[2],
       alignment      |-> CASE align = 60 -> "left" [] align = 62 -> "right" [] OTHER -> "default",
       digit_class    |-> CASE class = 120 -> "hex" [] class = 88 -> "hex_upper" [] class = 100 -> "dec"
                            [] class = 111 -> "oct" [] class = 98 -> "bin" [] class = 99 -> "char"
                            [] OTHER -> "default",
       float_class    |-> CASE float = 102 -> "fixed" [] float = 101 -> "exp" [] float = 69 -> "exp_upper"
                            [] OTHER -> "default",
       pad            |-> IF padding[1] = Zero THEN Zero ELSE padding[2],
       always_signed  |-> has(Plus),
       class_prefix   |-> has(35),
       numeric_pad    |-> padding[1] = Zero]

-----------------------------------------------------------------------------
Meant(text, outcome) == [text |-> text, outcome |-> outcome]
After(text, m)       == Meant(text \o m.text, m.outcome)

Brace(f, p) == p + 1 < Len(f) /\ f[p + 1] \in {Open, Close} /\ f[p + 2] = f[p + 1]

\* Where the text goes on behind what begins at p.
Behind(f, p) ==
  IF Brace(f, p) THEN p + 2 ELSE IF f[p + 1] # Open THEN p + 1 ELSE GroupsFrom(f)[p + 1].end

\* The argument a field asks for, when k have been taken in their turn, and
\* how many have been then.
Which(s, k) == IF s.arg_index = -1 THEN k + 1 ELSE s.arg_index
Taken(s, k) == IF s.arg_index = -1 THEN k + 1 ELSE k

\* What a field means that begins at p, "rest" being what is meant behind it.
FieldMeans(f, p, args, k, rest) ==
  LET g == GroupsFrom(f)[p + 1]
      s == Settings(g.groups)
      r == format_type(s, args[Which(s, k)])
  IN  IF args = <<>> THEN Meant(<<>>, "out_of_range")
      ELSE IF g.kind # "field" THEN Meant(<<>>, g.kind)
      ELSE IF Which(s, k) \notin DOMAIN args THEN Meant(<<>>, "out_of_range")
      ELSE IF args[Which(s, k)].type = "ill_formed" THEN Meant(<<>>, "unicode_error")
      ELSE IF r.ok THEN After(All(r.calls), rest[Taken(s, k)])
      ELSE Meant(All(r.calls), "aborted")

\* What a format string means from each place on, for each number of
\* arguments already taken in their turn.
MeaningFrom(f, args) ==
  LET from[p \in Nat] ==
        [k \in Nat |->
           IF p >= Len(f) THEN Meant(<<>>, "done")
           ELSE IF Brace(f, p) \/ f[p + 1] # Open
           THEN After(<<f[p + 1]>>, from[Behind(f, p)][k])
           ELSE FieldMeans(f, p, args, k, from[Behind(f, p)])]
  IN  from

Meaning == MeaningFrom(job.fmt, job.args)[0][0]

Ended == phase \in {"done", "thrown", "aborted"}

Outcome == IF phase = "thrown" THEN error ELSE phase

\* What goes to a stream is the literal text and the arguments, each under
\* the settings of its field, in the order the fields ask for them; the call
\* throws at the first field that is malformed or has no argument, and what
\* comes before it has been written.
InterpretsFormat ==
  Ended /\ job.sink = "stream" /\ Meaning.outcome # "odd" =>
    Outcome = Meaning.outcome /\ All(out) = Meaning.text

-----------------------------------------------------------------------------
Drop(t, n) == SubSeq(t, n + 1, Len(t))

\* t is body and as much padding as makes it min characters.
Padded(t, body, min, pad, left) ==
  LET fill == Len(t) - Len(body) IN
  /\ fill = Max({0, min - Len(body)})
  /\ IF left THEN t = body \o [i \in 1 .. fill |-> pad] ELSE t = [i \in 1 .. fill |-> pad] \o body

\* d is how a number is written: no digit too many, and letters of one case.
Numeral(d, n, s) ==
  LET radix == CASE s.digit_class = "oct" -> 8 [] s.digit_class = "bin" -> 2
                 [] s.digit_class \in {"hex", "hex_upper"} -> 16 [] OTHER -> 10
  IN  /\ d # <<>> /\ (d[1] = Zero => Len(d) = 1)
      /\ \A i \in DOMAIN d :
           /\ IsDigit(d[i], radix)
           /\ d[i] \notin Digit => (d[i] < 97 <=> s.digit_class = "hex_upper")
      /\ Worth(d, radix) = n

Introduced(n, s) ==
  (IF n < 0 THEN <<Minus>> ELSE IF s.always_signed THEN <<Plus>> ELSE <<>>)
  \o IF ~s.class_prefix \/ n = 0 THEN <<>>
     ELSE CASE s.digit_class = "hex" -> <<48, 120>> [] s.digit_class = "hex_upper" -> <<48, 88>>
            [] s.digit_class = "bin" -> <<48, 98>> [] s.digit_class = "oct" -> <<48>> [] OTHER -> <<>>

\* The digits of n stand in t behind what introduces them, with the padding
\* between them for "0", and else on the side that the alignment says.
Number(t, n, s, pad) ==
  LET intro == Introduced(n, s)
      left  == s.alignment = "left"
      min   == s.minimum_length
  IN  \E k \in 1 .. Len(t) :
        LET from == IF left /\ ~s.numeric_pad THEN Len(intro) + 1 ELSE Len(t) - k + 1
            d    == SubSeq(t, from, from + k - 1)
        IN  /\ Numeral(d, IF n < 0 THEN -n ELSE n, s)
            /\ IF s.numeric_pad
               THEN /\ SubSeq(t, 1, Len(intro)) = intro
                    /\ Padded(Drop(t, Len(intro)), d, min - Len(intro), pad, FALSE)
               ELSE Padded(t, intro \o d, min, pad, left)

\* What an argument prints in a field by itself: t, with an assertion failing
\* or not.
Prints(s, arg, t, ok) ==
  LET pad  == IF s.pad = NUL THEN Blank ELSE s.pad
      min  == s.minimum_length
      n    == arg.value
      char == s.digit_class = "char"
      plain == min = 0 /\ s.pad = NUL
  IN
  CASE arg.type \in {"text", "bool"} ->
         LET text == IF arg.type = "text" THEN arg.text
                     ELSE IF n = 1 THEN <<116, 114, 117, 101>> ELSE <<102, 97, 108, 115, 101>>
         IN  ok /\ Padded(t, IF s.precision = -1 THEN text
                             ELSE SubSeq(text, 1, Min({s.precision, Len(text)})),
                          min, pad, s.alignment # "right")
    [] arg.type = "ill_formed" -> ~ok /\ t = <<>>
    [] arg.type = "null" -> ok /\ t = <<>>
    [] arg.type \in {"int", "char8"} /\ ~char -> ok /\ Number(t, n, s, pad)
    [] arg.type = "int" /\ char ->
         /\ ok <=> plain
         /\ IF ok THEN Points(t) = <<IF n % IntMod \in 0 .. MaxCode THEN n % IntMod ELSE 65533>>
            ELSE t = <<>>
    [] arg.type = "char8" /\ char ->
         /\ ok <=> plain
         /\ t = IF ok THEN <<n>> ELSE <<>>
    [] arg.type = "double" ->
         LET body == snprintf(s, arg.text) IN
         /\ ok <=> Len(body) < OutBuffer
         /\ IF ok THEN Padded(t, body, min, pad, s.alignment = "left") ELSE t = <<>>
    [] OTHER -> TRUE

\* The format string is one field and nothing else.
OneField(f) ==
  /\ Len(f) > 1 /\ f[1] = Open /\ f[2] # Open
  /\ GroupsFrom(f)[1].kind = "field" /\ GroupsFrom(f)[1].end = Len(f)

\* One field prints one argument: a text cut to the precision, a number whose
\* digits read back to it behind its sign and its prefix, as long as the
\* field asks for at least and no longer than it has to be; the padding is on
\* the side the alignment says, and between the sign and the digits for "0".
\* A character is what an int holds of the number, printed as itself, and
\* refuses to be padded; a float that would not fit the buffer of snprintf ends
\* in an assertion; of a wide text that is no Unicode nothing is printed.
FieldsPadded ==
  Ended /\ job.sink = "stream" /\ OneField(job.fmt) /\ Len(job.args) = 1
        /\ Outcome # "out_of_range" =>
    Prints(Settings(GroupsFrom(job.fmt)[1].groups), job.args[1], All(out), phase = "done")

-----------------------------------------------------------------------------
\* The format string and the arguments are UTF-8, each by itself.
AllConvertible ==
  /\ Convertible(job.fmt)
  /\ \A i \in DOMAIN job.args :
       /\ job.args[i].type # "char8"
       /\ Convertible(job.args[i].text) /\ Convertible(job.args[i].imag)

\* What all the writers owe a format string that means m.
WritersOwe(m) ==
  /\ job.sink = "format_latin_1" =>
       /\ Outcome = m.outcome
       /\ phase = "done" => Points(result) = m.text
  /\ job.sink = "wide" /\ AllConvertible =>
       IF Convertible(m.text) THEN Outcome = m.outcome /\ WideText = Points(m.text)
       ELSE Outcome = "unicode_error" /\ IsPrefix(WideText, Points(m.text))
  /\ job.sink = "format" =>
       IF m.outcome # "done" THEN Outcome = m.outcome /\ result = <<>>
       ELSE IF Convertible(m.text) THEN Outcome = "done" /\ result = m.text
       ELSE CASE job.mode = "check_validity"     -> Outcome = "unicode_error"
              [] job.mode = "assert_validity"    -> Outcome = "aborted"
              [] job.mode = "assume_valid"       -> Outcome = "done" /\ result = m.text
              [] job.mode = "substitute_invalid" -> Outcome = "done" /\ Convertible(result)

\* The writers are given the same calls and show the same text: a char stream
\* its bytes, a wide stream its characters, ST::format a string of it once it
\* is validated, ST::format_latin_1 one of its bytes' characters.  A wide
\* stream throws where ST::format would, though it looks at each piece by
\* itself, unless an argument is a piece of a character.
WritersAgree == Ended /\ Meaning.outcome # "odd" => WritersOwe(Meaning)
=============================================================================
