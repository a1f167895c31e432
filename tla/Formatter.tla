----------------------------- MODULE Formatter ------------------------------
(***************************************************************************)
(* A call of ST::format, printf or writef: fetch_prefix and parse_format   *)
(* walk the format string, apply_format picks the arguments, and a writer  *)
(* takes what is printed (st_formatter.h, st_format.h, st_stdio.h,         *)
(* st_iostream.h).                                                         *)
(*                                                                         *)
(* The format string is a C string: a place in it is the number of chars   *)
(* before, and at Len(fmt) there is the terminator.                        *)
(***************************************************************************)
EXTENDS FormatFields, FiniteSetsExt

CONSTANTS
  Jobs,     \* the calls: format string, arguments, writer, validation mode
  LongMax,  \* LONG_MAX
  NoJob

\* Writers: of ST::format, of ST::format_latin_1, of FILE * and char streams,
\* and of wide streams.
Sinks == {"format", "format_latin_1", "stream", "wide"}
Modes == {"check_validity", "substitute_invalid", "assume_valid", "assert_validity"}

\* A format string has no NUL in it, and a text, a char8_t, are bytes.
ASSUME FormatAssumption ==
  \A j \in Jobs : /\ j.fmt \in Seq(1 .. 255)
                  /\ j.args \in Seq(Args)
                  /\ j.sink \in Sinks /\ j.mode \in Modes

\* A long holds at least what an int holds.
ASSUME LongAssumption == LongMax \in Nat /\ IntMod \div 2 <= LongMax + 1

Open  == 123  \* {
Close == 125  \* }
Under == 95
Dot   == 46
Amp   == 38

VARIABLES
  job,
  phase,   \* "idle", "prefix" in fetch_prefix, "spec" in parse_format,
           \* "finish" in to_string, "done", "thrown", "aborted"
  pos,     \* m_format_str
  next,    \* next, in fetch_prefix
  spec,    \* the format_spec being parsed
  index,   \* of the argument whose turn it is
  out,     \* the calls the writer has taken
  error,   \* the exception
  result   \* the text of the string that is returned

vars == <<job, phase, pos, next, spec, index, out, error, result>>

Here(p) == IF p < Len(job.fmt) THEN job.fmt[p + 1] ELSE NUL

-----------------------------------------------------------------------------
(* Writers *)

Convertible(u) == \A i \in DOMAIN Points(u) : char_error(Points(u)[i]) = success

\* utf8_to_wchar throws at a piece that is no UTF-8 by itself.
Refused(calls) ==
  { i \in DOMAIN calls : job.sink = "wide" /\ ~calls[i].raw /\ ~Convertible(calls[i].text) }

\* Mutant: the exception of a wide stream is swallowed.
Deliver_Swallows(calls, ph, err) ==
  LET ok == SelectSeq(calls, LAMBDA c : job.sink # "wide" \/ c.raw \/ Convertible(c.text))
  IN  out' = out \o ok /\ phase' = ph /\ error' = err

\* The writer takes calls, and then the phase is ph, unless it throws.
Deliver(calls, ph, err) ==
  IF Refused(calls) = {}
  THEN out' = out \o calls /\ phase' = ph /\ error' = err
  ELSE /\ out' = out \o SubSeq(calls, 1, Min(Refused(calls)) - 1)
       /\ phase' = "thrown" /\ error' = "unicode_error"

\* What a wide stream holds then: append_char puts a char as it is, and a char
\* is signed.
WideText ==
  LET text[i \in 0 .. Len(out)] ==
        IF i = 0 THEN <<>>
        ELSE text[i - 1] \o
             IF ~out[i].raw THEN Points(out[i].text)
             ELSE [k \in DOMAIN out[i].text |->
                     IF out[i].text[k] < 128 THEN out[i].text[k] ELSE out[i].text[k] - 256]
  IN  text[Len(out)]

Fail(e) == phase' = "thrown" /\ error' = e /\ UNCHANGED out

-----------------------------------------------------------------------------
Init ==
  /\ job = NoJob /\ phase = "idle"
  /\ pos = 0 /\ next = 0 /\ index = 0
  /\ spec = NoSpec
  /\ out = <<>> /\ result = <<>>
  /\ error = "none"

Call(j) ==
  /\ phase = "idle"
  /\ job' = j
  /\ phase' = "prefix"
  /\ UNCHANGED <<pos, next, spec, index, out, error, result>>

Doubled(p) == Here(p) \in {Open, Close} /\ Here(p + 1) = Here(p)

\* A closing brace by itself is a character like any other.
Literal ==
  /\ phase = "prefix"
  /\ Here(next) \notin {NUL, Open} /\ ~Doubled(next)
  /\ next' = next + 1
  /\ UNCHANGED <<job, phase, pos, spec, index, out, error, result>>

\* Mutant: both braces are passed.
Escape_Both ==
  /\ phase = "prefix" /\ Doubled(next)
  /\ Deliver(append(SubSeq(job.fmt, pos + 1, next)), "prefix", error)
  /\ pos' = next + 2 /\ next' = next + 2
  /\ UNCHANGED <<job, spec, index, result>>

\* The second brace becomes the first character of what follows.
Escape ==
  /\ phase = "prefix" /\ Doubled(next)
  /\ Deliver(append(SubSeq(job.fmt, pos + 1, next)), "prefix", error)
  /\ pos' = next + 1 /\ next' = next + 2
  /\ UNCHANGED <<job, spec, index, result>>

Prefix == IF next = pos THEN <<>> ELSE append(SubSeq(job.fmt, pos + 1, next))

\* The end of the format string: format() has a string to make.
Reach ==
  /\ phase = "prefix" /\ Here(next) = NUL
  /\ Deliver(Prefix, IF job.sink \in {"format", "format_latin_1"} THEN "finish" ELSE "done", error)
  /\ pos' = next
  /\ UNCHANGED <<job, next, spec, index, result>>

\* A field.  Without arguments it is one too many.
EnterField ==
  /\ phase = "prefix" /\ Here(next) = Open /\ ~Doubled(next)
  /\ IF job.args = <<>> THEN Deliver(Prefix, "thrown", "out_of_range")
     ELSE Deliver(Prefix, "spec", error)
  /\ pos' = next
  /\ spec' = NoSpec
  /\ UNCHANGED <<job, next, index, result>>

-----------------------------------------------------------------------------
(* parse_format: each step begins with "*++m_format_str". *)

Group == Here(pos + 1)

\* The groups of one character.
Flags == {60, 62, 48, 35, 120, 88, 43, 100, 111, 98, 99, 102, 101, 69}

WithFlag(s, c) ==
  CASE c = 60  -> [s EXCEPT !.alignment = "left"]                      \* <
    [] c = 62  -> [s EXCEPT !.alignment = "right"]                     \* >
    [] c = 48  -> [s EXCEPT !.pad = Zero, !.numeric_pad = TRUE]        \* 0
    [] c = 35  -> [s EXCEPT !.class_prefix = TRUE]                     \* #
    [] c = 120 -> [s EXCEPT !.digit_class = "hex"]                     \* x
    [] c = 88  -> [s EXCEPT !.digit_class = "hex_upper"]               \* X
    [] c = 43  -> [s EXCEPT !.always_signed = TRUE]                    \* +
    [] c = 100 -> [s EXCEPT !.digit_class = "dec"]                     \* d
    [] c = 111 -> [s EXCEPT !.digit_class = "oct"]                     \* o
    [] c = 98  -> [s EXCEPT !.digit_class = "bin"]                     \* b
    [] c = 99  -> [s EXCEPT !.digit_class = "char"]                    \* c
    [] c = 102 -> [s EXCEPT !.float_class = "fixed"]                   \* f
    [] c = 101 -> [s EXCEPT !.float_class = "exp"]                     \* e
    [] c = 69  -> [s EXCEPT !.float_class = "exp_upper"]               \* E

Flag ==
  /\ phase = "spec" /\ Group \in Flags
  /\ spec' = WithFlag(spec, Group)
  /\ pos' = pos + 1
  /\ UNCHANGED <<job, phase, next, index, out, error, result>>

\* Mutant: the terminator is not looked for.
PadGroup_NoTest ==
  /\ phase = "spec" /\ Group = Under
  /\ spec' = [spec EXCEPT !.pad = Here(pos + 2), !.numeric_pad = FALSE]
  /\ pos' = pos + 2
  /\ UNCHANGED <<job, phase, next, index, out, error, result>>

\* "_" and the character to pad with, which may be any.
PadGroup ==
  /\ phase = "spec" /\ Group = Under
  /\ spec' = [spec EXCEPT !.pad = Here(pos + 2), !.numeric_pad = FALSE]
  /\ IF Here(pos + 2) = NUL THEN Fail("bad_format") /\ pos' = pos + 1
     ELSE pos' = pos + 2 /\ UNCHANGED <<phase, out, error>>
  /\ UNCHANGED <<job, next, index, result>>

(***************************************************************************)
(* strtol: white space, a sign, digits; what is too large gives the        *)
(* largest long, and without a digit nothing is taken.                     *)
(***************************************************************************)
Span(p, chars) == Min({q \in p .. Len(job.fmt) : Here(q) \notin chars})

strtol(p) ==
  LET sign   == Span(p, Spaces)
      first  == IF Here(sign) \in {Plus, Minus} THEN sign + 1 ELSE sign
      end    == Span(first, 48 .. 57)
      value[q \in first .. end] ==
        IF q = first THEN 0 ELSE Min({LongMax, 10 * value[q - 1] + Here(q - 1) - 48})
  IN  IF end = first THEN [value |-> 0, end |-> p]
      ELSE [value |-> IF Here(sign) = Minus THEN -value[end] ELSE value[end], end |-> end]

\* The long is narrowed to an int.
Width ==
  /\ phase = "spec" /\ Group \in 49 .. 57
  /\ LET n == strtol(pos + 1) IN
       /\ spec' = [spec EXCEPT !.minimum_length = AsInt(n.value)]
       /\ pos' = n.end - 1
  /\ UNCHANGED <<job, phase, next, index, out, error, result>>

\* Mutant: without a number, the place stays where it was.
Before_Stays(n) == IF n.end = pos + 2 THEN pos ELSE n.end - 1

\* The place to go on from, as each step begins by moving on.
Before(n) == n.end - 1

\* "." and "&" and their number, 0 if there is none.
NumberGroup ==
  /\ phase = "spec" /\ Group \in {Dot, Amp}
  /\ LET n == strtol(pos + 2) IN
     IF Here(pos + 2) = NUL
     THEN Fail("bad_format") /\ pos' = pos + 2 /\ UNCHANGED spec
     ELSE /\ spec' = IF Group = Dot THEN [spec EXCEPT !.precision = AsInt(n.value)]
                     ELSE [spec EXCEPT !.arg_index = AsInt(n.value)]
          /\ pos' = Before(n)
          /\ UNCHANGED <<phase, out, error>>
  /\ UNCHANGED <<job, next, index, result>>

\* "Unterminated format specifier", "Unexpected character in format string"
BadGroup ==
  /\ phase = "spec"
  /\ Group \notin Flags \cup 49 .. 57 \cup {Close, Under, Dot, Amp}
  /\ Fail("bad_format")
  /\ pos' = pos + 1
  /\ UNCHANGED <<job, next, spec, index, result>>

\* formatter_id
Wanted == IF spec.arg_index >= 0 THEN spec.arg_index - 1 ELSE index

\* The end of the field: the argument is printed, as far as it goes.  A wide
\* text is converted first, which throws where it is no Unicode.
Apply ==
  /\ phase = "spec" /\ Group = Close
  /\ index' = IF spec.arg_index >= 0 THEN index ELSE index + 1
  /\ IF Wanted \notin 0 .. Len(job.args) - 1 THEN Fail("out_of_range")
     ELSE IF job.args[Wanted + 1].type = "ill_formed" THEN Fail("unicode_error")
     ELSE LET r == format_type(spec, job.args[Wanted + 1])
          IN  Deliver(r.calls, IF r.ok THEN "prefix" ELSE "aborted", error)
  /\ pos' = pos + 2 /\ next' = pos + 2
  /\ UNCHANGED <<job, spec, result>>

-----------------------------------------------------------------------------
All(calls) ==
  LET text[i \in 0 .. Len(calls)] == IF i = 0 THEN <<>> ELSE text[i - 1] \o calls[i].text
  IN  text[Len(calls)]

\* string::from_utf8 in its four modes; Latin-1 is converted.
Valid(u) ==
  LET from[p \in 0 .. Len(u)] ==
        p = Len(u) \/ LET r == validate_utf8(u, p) IN r.error = success /\ from[p + r.len]
  IN  from[0]

Cleaned(u) ==
  LET from[p \in 0 .. Len(u)] ==
        IF p = Len(u) THEN <<>>
        ELSE LET r == cleanup_utf8(u, p) IN r.units \o from[p + r.len]
  IN  from[0]

FromLatin1(u) ==
  LET from[i \in 0 .. Len(u)] == IF i = 0 THEN <<>> ELSE from[i - 1] \o write_utf8(u[i])
  IN  from[Len(u)]

\* The writer's to_string.
MakeString ==
  /\ phase = "finish"
  /\ LET text  == All(out)
         taken == job.sink = "format_latin_1" \/ Valid(text)
                  \/ job.mode \in {"assume_valid", "substitute_invalid"}
     IN  /\ phase' = IF taken THEN "done"
                     ELSE IF job.mode = "check_validity" THEN "thrown" ELSE "aborted"
         /\ error' = IF phase' = "thrown" THEN "unicode_error" ELSE error
         /\ result' = IF ~taken THEN <<>>
                      ELSE IF job.sink = "format_latin_1" THEN FromLatin1(text)
                      ELSE IF job.mode = "substitute_invalid" THEN Cleaned(text)
                      ELSE text
  /\ UNCHANGED <<job, pos, next, spec, index, out>>

Return ==
  /\ phase \in {"done", "thrown"}
  /\ job' = NoJob /\ phase' = "idle"
  /\ pos' = 0 /\ next' = 0 /\ index' = 0
  /\ spec' = NoSpec
  /\ out' = <<>> /\ result' = <<>>
  /\ error' = "none"

Step ==
  \/ Literal \/ Escape \/ Reach \/ EnterField
  \/ Flag \/ PadGroup \/ Width \/ NumberGroup \/ BadGroup \/ Apply
  \/ MakeString

Next ==
  \/ phase = "idle" /\ \E j \in Jobs : Call(j)
  \/ Step
  \/ Return

\* A call that has begun runs on.
Spec == Init /\ [][Next]_vars /\ WF_vars(Step)

-----------------------------------------------------------------------------
\* Neither fetch_prefix nor any group of parse_format, whatever it is cut off
\* in, takes a step beyond the terminator: parse_format always has a
\* character left to read.
StaysInFormat ==
  /\ phase \in {"prefix", "spec"} => next <= Len(job.fmt) /\ pos <= Len(job.fmt)
  /\ phase = "spec" => pos < Len(job.fmt)

\* Formatting ends, for every format string.
FormatEnds == phase \in {"prefix", "spec", "finish"} ~> phase \in {"done", "thrown", "aborted"}
=============================================================================
