------------------------------ MODULE UtfCode ------------------------------
(***************************************************************************)
(* One character at a time: what st_utf_conv_priv.h reads at a place of a  *)
(* UTF-8, UTF-16, UTF-32 or Latin-1 text, and what it writes.              *)
(*                                                                         *)
(* A text is a sequence of code units, each the unsigned value of a char,  *)
(* a char16_t or a char32_t.  A place is the number of units before it, so *)
(* that the unit "*sp" is u[sp + 1].  Reading yields the character and how *)
(* many units it took.                                                     *)
(***************************************************************************)
EXTENDS Integers, Sequences

(***************************************************************************)
(* conversion_error_t.  The reading functions return an error in the place *)
(* of the character, marked by a bit no character has.                     *)
(***************************************************************************)
success                   == 0
incomplete_utf8_seq       == 1
incomplete_surrogate_pair == 2
invalid_utf8_seq          == 3
out_of_range              == 4
latin1_out_of_range       == 5

ErrorBit == 4194304   \* 0x400000
MaxCode  == 1114111   \* 0x10FFFF

error_char(error) == ErrorBit + error
char_error(ch)    == IF (ch \div ErrorBit) % 2 = 1 THEN ch - ErrorBit ELSE success

\* U+FFFD, the badchar_substitute, in each encoding; Latin-1 has "?".
BadChar == [utf8 |-> <<239, 191, 189>>, utf16 |-> <<65533>>, utf32 |-> <<65533>>,
            latin1 |-> <<63>>]

\* The low bits of a unit, as many as m is a power of two: unit & (m - 1).
Bits(unit, m) == unit % m

Char(ch, len) == [ch |-> ch, len |-> len]

-----------------------------------------------------------------------------
(* UTF-8 *)

\* How many bytes the one at the head announces; 0 for no head at all.
\* 0xC0, 0xE0 and 0xF0 up to 0xF7 are heads like any other.
Announced(byte) ==
  IF byte < 128 THEN 1
  ELSE IF byte \in 192 .. 223 THEN 2
  ELSE IF byte \in 224 .. 239 THEN 3
  ELSE IF byte \in 240 .. 247 THEN 4
  ELSE 0

Fits(u, sp, n)    == sp + n <= Len(u)
Trailed(u, sp, n) == \A i \in sp + 2 .. sp + n : u[i] \in 128 .. 191
Whole(u, sp, n)   == Fits(u, sp, n) /\ Trailed(u, sp, n)

\* Mutant: the head of a 3-byte sequence loses a bit.
AssembledNarrow(u, sp, n) ==
  LET t(i) == Bits(u[sp + i], 64) IN
  IF n = 1 THEN u[sp + 1]
  ELSE IF n = 2 THEN Bits(u[sp + 1], 32) * 64 + t(2)
  ELSE IF n = 3 THEN Bits(u[sp + 1], 8) * 4096 + t(2) * 64 + t(3)
  ELSE Bits(u[sp + 1], 8) * 262144 + t(2) * 4096 + t(3) * 64 + t(4)

\* The bits of the n bytes put together.
Assembled(u, sp, n) ==
  LET t(i) == Bits(u[sp + i], 64) IN
  IF n = 1 THEN u[sp + 1]
  ELSE IF n = 2 THEN Bits(u[sp + 1], 32) * 64 + t(2)
  ELSE IF n = 3 THEN Bits(u[sp + 1], 16) * 4096 + t(2) * 64 + t(3)
  ELSE Bits(u[sp + 1], 8) * 262144 + t(2) * 4096 + t(3) * 64 + t(4)

\* Mutant: a broken sequence is passed as a whole.
extract_utf8_PassesAll(u, sp) ==
  LET n == Announced(u[sp + 1]) IN
  IF n = 0 THEN Char(error_char(invalid_utf8_seq), 1)
  ELSE IF Whole(u, sp, n) THEN Char(Assembled(u, sp, n), n)
  ELSE Char(error_char(incomplete_utf8_seq), n)

extract_utf8(u, sp) ==
  LET n == Announced(u[sp + 1]) IN
  IF n = 0 THEN Char(error_char(invalid_utf8_seq), 1)
  ELSE IF Whole(u, sp, n) THEN Char(Assembled(u, sp, n), n)
  ELSE Char(error_char(incomplete_utf8_seq), 1)

\* The characters of a text from each of its places on.
PointsFrom(u) ==
  LET from[p \in Nat] ==
        IF p >= Len(u) THEN <<>>
        ELSE LET r == extract_utf8(u, p) IN <<r.ch>> \o from[p + r.len]
  IN  from

Points(u) == PointsFrom(u)[0]

Faulty(s) == \E i \in DOMAIN s : char_error(s[i]) # success

Repair(c) == IF char_error(c) # success THEN 65533 ELSE c

Repaired(s) == [i \in DOMAIN s |-> Repair(s[i])]

\* Mutant: "continue" without stepping over an ASCII character.
validate_utf8_Stuck(u, sp) ==
  LET n == Announced(u[sp + 1]) IN
  [len |-> IF n = 1 THEN 0 ELSE n,
   error |-> IF n = 0 THEN invalid_utf8_seq
             ELSE IF ~Fits(u, sp, n) THEN incomplete_utf8_seq
             ELSE IF ~Trailed(u, sp, n) THEN invalid_utf8_seq
             ELSE success]

\* One turn of validate_utf8's loop: the error it stops with, and how many
\* bytes it passes.
validate_utf8(u, sp) ==
  LET n == Announced(u[sp + 1]) IN
  [len |-> n,
   error |-> IF n = 0 THEN invalid_utf8_seq
             ELSE IF ~Fits(u, sp, n) THEN incomplete_utf8_seq
             ELSE IF ~Trailed(u, sp, n) THEN invalid_utf8_seq
             ELSE success]

\* Mutant: bad bytes are dropped.
cleanup_utf8_Drops(u, sp) ==
  LET n == Announced(u[sp + 1]) IN
  IF n # 0 /\ Whole(u, sp, n)
  THEN [units |-> SubSeq(u, sp + 1, sp + n), len |-> n]
  ELSE [units |-> <<>>, len |-> 1]

\* One turn of cleanup_utf8's loop: the bytes it appends and the ones it
\* passes.
cleanup_utf8(u, sp) ==
  LET n == Announced(u[sp + 1]) IN
  IF n # 0 /\ Whole(u, sp, n)
  THEN [units |-> SubSeq(u, sp + 1, sp + n), len |-> n]
  ELSE [units |-> BadChar.utf8, len |-> 1]

\* Mutant: what cannot be encoded is given four bytes.
utf8_measure_FourForBad(ch) ==
  IF ch < 128 THEN 1 ELSE IF ch < 2048 THEN 2 ELSE IF ch < 65536 THEN 3 ELSE 4

utf8_measure(ch) ==
  IF ch < 128 THEN 1
  ELSE IF ch < 2048 THEN 2
  ELSE IF ch < 65536 THEN 3
  ELSE IF ch <= MaxCode THEN 4
  ELSE 3

\* Mutant: the last byte of three is written without its mark.
write_utf8_Unmarked(ch) ==
  IF ch < 128 THEN <<ch>>
  ELSE IF ch < 2048 THEN <<192 + Bits(ch \div 64, 32), 128 + Bits(ch, 64)>>
  ELSE IF ch < 65536
  THEN <<224 + Bits(ch \div 4096, 16), 128 + Bits(ch \div 64, 64), Bits(ch, 64)>>
  ELSE IF ch <= MaxCode
  THEN <<240 + Bits(ch \div 262144, 8), 128 + Bits(ch \div 4096, 64),
         128 + Bits(ch \div 64, 64), 128 + Bits(ch, 64)>>
  ELSE <<>>

\* What write_utf8 stores; <<>> says it returned out_of_range.
write_utf8(ch) ==
  IF ch < 128 THEN <<ch>>
  ELSE IF ch < 2048 THEN <<192 + Bits(ch \div 64, 32), 128 + Bits(ch, 64)>>
  ELSE IF ch < 65536
  THEN <<224 + Bits(ch \div 4096, 16), 128 + Bits(ch \div 64, 64), 128 + Bits(ch, 64)>>
  ELSE IF ch <= MaxCode
  THEN <<240 + Bits(ch \div 262144, 8), 128 + Bits(ch \div 4096, 64),
         128 + Bits(ch \div 64, 64), 128 + Bits(ch, 64)>>
  ELSE <<>>

-----------------------------------------------------------------------------
(* UTF-16.  A pair is taken in either order. *)

High == 55296 .. 56319   \* 0xD800 .. 0xDBFF
Low  == 56320 .. 57343   \* 0xDC00 .. 0xDFFF

Pair(high, low) == 65536 + Bits(high, 1024) * 1024 + Bits(low, 1024)

\* Mutant: a low surrogate that comes first is taken as it is.
extract_utf16_LowFirst(u, sp) ==
  IF u[sp + 1] \in High /\ sp + 1 < Len(u) /\ u[sp + 2] \in Low
  THEN Char(Pair(u[sp + 1], u[sp + 2]), 2)
  ELSE IF u[sp + 1] \in High THEN Char(error_char(incomplete_surrogate_pair), 1)
  ELSE Char(u[sp + 1], 1)

extract_utf16(u, sp) ==
  LET unit  == u[sp + 1]
      other == u[sp + 2]
      last  == sp + 1 >= Len(u)
  IN
  IF unit \notin High \cup Low THEN Char(unit, 1)
  ELSE IF ~last /\ unit \in High /\ other \in Low THEN Char(Pair(unit, other), 2)
  ELSE IF ~last /\ unit \in Low /\ other \in High THEN Char(Pair(other, unit), 2)
  ELSE Char(error_char(incomplete_surrogate_pair), 1)

\* Mutant: the last code point counts as out of range.
utf16_measure_OffByOne(ch) == IF ch < 65536 \/ ch >= MaxCode THEN 1 ELSE 2

utf16_measure(ch) == IF ch < 65536 \/ ch > MaxCode THEN 1 ELSE 2

\* What write_utf16 stores; <<>> says it returned out_of_range.
write_utf16(ch) ==
  IF ch < 65536 THEN <<ch>>
  ELSE IF ch <= MaxCode
  THEN <<55296 + Bits((ch - 65536) \div 1024, 1024), 56320 + Bits(ch - 65536, 1024)>>
  ELSE <<>>
=============================================================================
