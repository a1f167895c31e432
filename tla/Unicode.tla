------------------------------ MODULE Unicode -------------------------------
(***************************************************************************)
(* What the Unicode standard says of the encodings st_utf_conv.h converts  *)
(* between, written without a look at the code: the code units each        *)
(* encoding gives a character, and a text.                                 *)
(***************************************************************************)
EXTENDS Integers, Sequences

\* Every code point but the surrogates, 0xD800 .. 0xDFFF.
IsScalar(c) == c \in Nat /\ (c < 55296 \/ (57343 < c /\ c <= 1114111))

IsScalarText(t) == t \in Seq(Nat) /\ \A i \in DOMAIN t : IsScalar(t[i])

\* Table 3-6.
UTF8(c) ==
  IF c < 128 THEN <<c>>
  ELSE IF c < 2048 THEN <<192 + (c \div 64), 128 + (c % 64)>>
  ELSE IF c < 65536 THEN <<224 + (c \div 4096), 128 + ((c \div 64) % 64), 128 + (c % 64)>>
  ELSE <<240 + (c \div 262144), 128 + ((c \div 4096) % 64),
         128 + ((c \div 64) % 64), 128 + (c % 64)>>

\* Table 3-5.
UTF16(c) == IF c < 65536 THEN <<c>> ELSE <<55232 + (c \div 1024), 56320 + (c % 1024)>>

\* Latin-1 has no more than 256 characters, and "?" for the others.
Latin1(c) == IF c < 256 THEN <<c>> ELSE <<63>>

Form(enc, c) ==
  CASE enc = "utf8"   -> UTF8(c)
    [] enc = "utf16"  -> UTF16(c)
    [] enc = "utf32"  -> <<c>>
    [] enc = "latin1" -> Latin1(c)

\* The first so many characters of a text, for every number of them.
Encoding(enc, t) ==
  LET upto[k \in 0 .. Len(t)] == IF k = 0 THEN <<>> ELSE upto[k - 1] \o Form(enc, t[k])
  IN  upto

Encoded(enc, t) == Encoding(enc, t)[Len(t)]
=============================================================================
