------------------------------ MODULE UtfLoops ------------------------------
(***************************************************************************)
(* One turn of each loop of st_utf_conv_priv.h: of the ..._measure_from_   *)
(* functions, which add up how long a result will be, and of the           *)
(* ..._convert_from_ ones, which write it.  u is the text, p the place.    *)
(***************************************************************************)
EXTENDS UtfCode

(* What a turn of a measuring loop adds. *)

utf8_measure_from_utf16(u, p)    == utf8_measure(extract_utf16(u, p).ch)
utf8_measure_from_utf32(u, p)    == utf8_measure(u[p + 1])
utf8_measure_from_latin_1(u, p)  == IF u[p + 1] >= 128 THEN 2 ELSE 1
utf16_measure_from_utf8(u, p)    == utf16_measure(extract_utf8(u, p).ch)
utf16_measure_from_utf32(u, p)   == utf16_measure(u[p + 1])
utf32_measure_from_utf8(u, p)    == 1
utf32_measure_from_utf16(u, p)   == 1
latin_1_measure_from_utf8(u, p)  == utf32_measure_from_utf8(u, p)
latin_1_measure_from_utf16(u, p) == utf32_measure_from_utf16(u, p)

-----------------------------------------------------------------------------
(***************************************************************************)
(* What a turn of a converting loop comes to: it writes units, returns an  *)
(* error, or fails an assertion.                                           *)
(***************************************************************************)
Units(s) == [kind |-> "units", units |-> s, error |-> success]
Raise(e) == [kind |-> "raise", units |-> <<>>, error |-> e]
Abort    == [kind |-> "abort", units |-> <<>>, error |-> success]

\* An error stops a conversion that checks; another one writes s instead.
Refuse(mode, e, s) == IF mode = "check_validity" THEN Raise(e) ELSE Units(s)

\* ST_ASSERT(error == success, "Input character out of range")
AssertInRange(s) == IF s = <<>> THEN Abort ELSE Units(s)

utf8_convert_from_utf16(u, p, mode) ==
  LET ch == extract_utf16(u, p).ch IN
  IF char_error(ch) # success THEN Refuse(mode, char_error(ch), BadChar.utf8)
  ELSE AssertInRange(write_utf8(ch))

utf8_convert_from_utf32(u, p, mode) ==
  IF write_utf8(u[p + 1]) = <<>> THEN Refuse(mode, out_of_range, BadChar.utf8)
  ELSE Units(write_utf8(u[p + 1]))

utf8_convert_from_latin_1(u, p) ==
  IF u[p + 1] >= 128 THEN Units(<<192 + Bits(u[p + 1] \div 64, 32), 128 + Bits(u[p + 1], 64)>>)
  ELSE Units(<<u[p + 1]>>)

utf16_convert_from_utf8(u, p, mode) ==
  LET ch == extract_utf8(u, p).ch IN
  IF char_error(ch) # success THEN Refuse(mode, char_error(ch), BadChar.utf16)
  ELSE AssertInRange(write_utf16(ch))

utf16_convert_from_utf32(u, p, mode) ==
  IF write_utf16(u[p + 1]) = <<>> THEN Refuse(mode, out_of_range, BadChar.utf16)
  ELSE Units(write_utf16(u[p + 1]))

utf16_convert_from_latin_1(u, p) == Units(<<u[p + 1]>>)

utf32_convert_from_utf8(u, p, mode) ==
  LET ch == extract_utf8(u, p).ch IN
  IF char_error(ch) # success THEN Refuse(mode, char_error(ch), BadChar.utf32)
  ELSE Units(<<ch>>)

utf32_convert_from_utf16(u, p, mode) ==
  LET ch == extract_utf16(u, p).ch IN
  IF char_error(ch) # success THEN Refuse(mode, char_error(ch), BadChar.utf32)
  ELSE Units(<<ch>>)

utf32_convert_from_latin_1(u, p) == Units(<<u[p + 1]>>)

\* The end of the three loops below; sub is substitute_out_of_range.
Narrowed(ch, sub) ==
  IF ch < 256 THEN Units(<<ch>>)
  ELSE IF sub THEN Units(BadChar.latin1)
  ELSE Raise(latin1_out_of_range)

latin_1_convert_from_utf8(u, p, mode, sub) ==
  LET ch == extract_utf8(u, p).ch IN
  IF char_error(ch) # success THEN Refuse(mode, char_error(ch), BadChar.latin1)
  ELSE Narrowed(ch, sub)

latin_1_convert_from_utf16(u, p, mode, sub) ==
  LET ch == extract_utf16(u, p).ch IN
  IF char_error(ch) # success THEN Refuse(mode, char_error(ch), BadChar.latin1)
  ELSE Narrowed(ch, sub)

latin_1_convert_from_utf32(u, p, mode, sub) ==
  IF u[p + 1] > MaxCode /\ mode = "check_validity" THEN Raise(out_of_range)
  ELSE Narrowed(u[p + 1], sub)
=============================================================================
