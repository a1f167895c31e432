------------------------------ MODULE Numerals -------------------------------
(***************************************************************************)
(* Numbers in a base: the digits uint_formatter gives a number, as a text, *)
(* and what strtol and strtoul take a text of digits for.  How the loop of *)
(* uint_formatter comes to these digits is in NumberText.tla.  A character *)
(* is its code.                                                            *)
(***************************************************************************)
EXTENDS Integers, Sequences

NUL   == 0
Blank == 32
Plus  == 43
Minus == 45
Zero  == 48

\* What strtol passes before a number: isspace in the "C" locale.
Spaces == 9 .. 13 \cup {Blank}

DigitChar(digit, upper) ==
  IF digit < 10 THEN 48 + digit ELSE IF upper THEN 65 + digit - 10 ELSE 97 + digit - 10

Digits(n, radix, upper) ==
  LET text[v \in 0 .. n] ==
        IF v = 0 THEN <<>> ELSE Append(text[v \div radix], DigitChar(v % radix, upper))
  IN  IF n = 0 THEN <<48>> ELSE text[n]

\* The worth of a digit's character.
DigitWorth(c) == IF c < 58 THEN c - 48 ELSE IF c < 91 THEN c - 55 ELSE c - 87

IsDigit(c, base) ==
  (c \in 48 .. 57 \/ c \in 65 .. 90 \/ c \in 97 .. 122) /\ DigitWorth(c) < base

\* The number these digits are: each one is read as the next of a number.
Worth(d, base) ==
  LET first[i \in 0 .. Len(d)] ==
        IF i = 0 THEN 0 ELSE base * first[i - 1] + DigitWorth(d[i])
  IN  first[Len(d)]
=============================================================================
