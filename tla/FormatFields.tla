---------------------------- MODULE FormatFields ----------------------------
(***************************************************************************)
(* What one argument prints under one format specification: the            *)
(* format_type overloads of st_formatter.h and what st_format_priv.h does  *)
(* for them.                                                               *)
(*                                                                         *)
(* A character is its code, a char of a text its unsigned value.  Printing *)
(* yields the calls made to the writer: append hands over a piece of text, *)
(* append_char repeats one char, which the writers do not convert ("raw"). *)
(***************************************************************************)
EXTENDS UtfCode, Numerals

CONSTANTS
  OutBuffer,  \* sizeof(out_buffer), the room for a floating-point number
  IntMod      \* the values of an int, twice as many as there are positive ones

ASSUME OutBufferAssumption == OutBuffer \in Nat

\* An int holds every character, and more.
ASSUME IntAssumption == IntMod \in Nat /\ IntMod \div 2 > MaxCode

\* format_spec().  Names are those of the enumerators without their prefix.
NoSpec == [minimum_length |-> 0, precision |-> -1, arg_index |-> -1,
           alignment |-> "default", digit_class |-> "default", float_class |-> "default",
           pad |-> NUL, always_signed |-> FALSE, class_prefix |-> FALSE, numeric_pad |-> FALSE]

append(text)       == <<[raw |-> FALSE, text |-> text]>>
append_char(ch, n) == IF n <= 0 THEN <<>> ELSE <<[raw |-> TRUE, text |-> [i \in 1 .. n |-> ch]]>>

\* ok is FALSE when an assertion failed, or a conversion threw, after these
\* calls.
Printed(calls) == [calls |-> calls, ok |-> TRUE]
AssertFails    == [calls |-> <<>>, ok |-> FALSE]
Throws         == [calls |-> <<>>, ok |-> FALSE]

Pad(spec) == IF spec.pad = NUL THEN Blank ELSE spec.pad

-----------------------------------------------------------------------------
\* A precision cuts the text.  The default alignment is left.
format_string(spec, text) ==
  LET size  == IF spec.precision >= 0 /\ Len(text) > spec.precision
               THEN spec.precision ELSE Len(text)
      shown == append(SubSeq(text, 1, size))
      fill  == append_char(Pad(spec), spec.minimum_length - size)
  IN  IF spec.alignment = "right" THEN fill \o shown ELSE shown \o fill

-----------------------------------------------------------------------------
(* Integers.  The digits are those of uint_formatter, see Numerals and NumberText. *)

Radix(spec) ==
  CASE spec.digit_class \in {"hex", "hex_upper"} -> 16
    [] spec.digit_class = "oct" -> 8
    [] spec.digit_class = "bin" -> 2
    [] OTHER -> 10

Sign(spec, value) ==
  IF value < 0 THEN <<Minus>> ELSE IF spec.always_signed THEN <<Plus>> ELSE <<>>

\* "0x" and its kind; a zero has none.
ClassPrefix(spec, value) ==
  IF value = 0 \/ ~spec.class_prefix THEN <<>>
  ELSE CASE spec.digit_class = "hex"       -> <<48, 120>>
         [] spec.digit_class = "hex_upper" -> <<48, 88>>
         [] spec.digit_class = "bin"       -> <<48, 98>>
         [] spec.digit_class = "oct"       -> <<48>>
         [] OTHER -> <<>>

format_numeric_prefix(spec, value) ==
  (IF Sign(spec, value) = <<>> THEN <<>> ELSE append_char(Sign(spec, value)[1], 1))
  \o IF Len(ClassPrefix(spec, value)) = 1 THEN append_char(48, 1)
     ELSE IF ClassPrefix(spec, value) = <<>> THEN <<>>
     ELSE append(ClassPrefix(spec, value))

\* Mutant: the sign of a number is not counted unless it is asked for.
pad_size_NoMinus(spec, size, value) ==
  spec.minimum_length - size - (IF spec.always_signed THEN 1 ELSE 0)
    - Len(ClassPrefix(spec, value))

\* What is left to fill, none if negative.
pad_size(spec, size, value) ==
  spec.minimum_length - size - Len(Sign(spec, value)) - Len(ClassPrefix(spec, value))

\* Zeros go between the prefix and the digits, whatever the alignment; the
\* default alignment is right.
format_numeric_string(spec, text, value) ==
  LET prefix == format_numeric_prefix(spec, value)
      fill   == append_char(Pad(spec), pad_size(spec, Len(text), value))
  IN  IF spec.numeric_pad THEN prefix \o fill \o append(text)
      ELSE IF spec.alignment = "left" THEN prefix \o append(text) \o fill
      ELSE fill \o prefix \o append(text)

\* format_numeric_s and format_numeric_u.
format_numeric(spec, value) ==
  LET magnitude == IF value < 0 THEN -value ELSE value
  IN  format_numeric_string(spec, Digits(magnitude, Radix(spec), spec.digit_class = "hex_upper"), value)

\* "Char formatting does not currently support padding"
NoPadding(spec) == spec.minimum_length = 0 /\ spec.pad = NUL

\* static_cast<int>, of any integer.
AsInt(n) == ((n + IntMod \div 2) % IntMod) - IntMod \div 2

\* A negative number is taken for a char32_t out of range.
format_char(spec, value) ==
  LET utf8 == IF value < 0 THEN <<>> ELSE write_utf8(value)
  IN  IF ~NoPadding(spec) THEN AssertFails
      ELSE Printed(append(IF utf8 = <<>> THEN BadChar.utf8 ELSE utf8))

-----------------------------------------------------------------------------
(***************************************************************************)
(* Floating point.  What snprintf prints for a number of one digit, which  *)
(* is the number's text: "%g" as it is, "%f" and "%e" with the precision   *)
(* (6 when none is given) in zeros.                                        *)
(***************************************************************************)
snprintf(spec, text) ==
  LET places == IF spec.precision >= 0 THEN spec.precision ELSE 6
      plus   == IF spec.always_signed THEN <<Plus>> ELSE <<>>
      point  == IF places = 0 THEN <<>> ELSE <<46>>
      zeros  == [i \in 1 .. places |-> Zero]
      power  == CASE spec.float_class = "exp"       -> <<101, Plus, Zero, Zero>>
                  [] spec.float_class = "exp_upper" -> <<69, Plus, Zero, Zero>>
                  [] OTHER -> <<>>
  IN  IF spec.float_class = "default" THEN plus \o text
      ELSE plus \o text \o point \o zeros \o power

\* "Format buffer too small"
FloatFits(text) == Len(text) < OutBuffer

format_double(spec, number) ==
  LET text == snprintf(spec, number)
      fill == append_char(Pad(spec), spec.minimum_length - Len(text))
  IN  IF ~FloatFits(text) THEN AssertFails
      ELSE Printed(IF spec.alignment = "left" THEN append(text) \o fill ELSE fill \o append(text))

format_complex(spec, arg) ==
  LET real == format_double(spec, arg.text)
      imag == format_double(spec, arg.imag)
  IN  IF ~real.ok THEN real
      ELSE IF ~imag.ok THEN [imag EXCEPT !.calls = real.calls \o append_char(Plus, 1)]
      ELSE Printed(real.calls \o append_char(Plus, 1) \o imag.calls \o append_char(105, 1))

-----------------------------------------------------------------------------
(***************************************************************************)
(* An argument has a type, and a value or a text.  "text" stands for char  *)
(* arrays, strings, string views and paths, and for the wide texts, which  *)
(* are converted first: "ill_formed" is one of those that is no Unicode.   *)
(* "int" stands for all integers, however wide, and all characters but     *)
(* char8_t.                                                                *)
(***************************************************************************)
ArgTypes == {"text", "ill_formed", "null", "bool", "int", "char8", "double", "complex"}

Args == { a \in [type : ArgTypes, value : Int, text : Seq(0 .. 255), imag : Seq(0 .. 255)] :
            a.type = "char8" => a.value \in 0 .. 255 }

Arg(type, value, text) == [type |-> type, value |-> value, text |-> text, imag |-> text]

\* An integer printed as a character is narrowed to an int first; a char8_t is
\* a byte of UTF-8 and printed as it is.
format_type(spec, arg) ==
  LET asChar == spec.digit_class = "char" IN
  CASE arg.type = "text"    -> Printed(format_string(spec, arg.text))
    [] arg.type = "ill_formed" -> Throws
    [] arg.type = "null"    -> Printed(<<>>)
    [] arg.type = "bool"    -> Printed(format_string(spec, IF arg.value = 1 THEN <<116, 114, 117, 101>>
                                                           ELSE <<102, 97, 108, 115, 101>>))
    [] arg.type = "int"     -> IF asChar THEN format_char(spec, AsInt(arg.value))
                               ELSE Printed(format_numeric(spec, arg.value))
    [] arg.type = "char8"   -> IF ~asChar THEN Printed(format_numeric(spec, arg.value))
                               ELSE IF NoPadding(spec) THEN Printed(append_char(arg.value, 1))
                               ELSE AssertFails
    [] arg.type = "double"  -> format_double(spec, arg.text)
    [] arg.type = "complex" -> format_complex(spec, arg)
=============================================================================
