---------------------------- MODULE StringSearch ----------------------------
(***************************************************************************)
(* What ST::string computes without a loop of its own over results: the    *)
(* searches, the cuts and the trims (st_string.h, st_string_priv.h).       *)
(*                                                                         *)
(* A character is its code and a text a sequence of them; NUL characters   *)
(* may be in a text, and one follows it.  A place is an offset from        *)
(* c_str(), so the character at p is t[p + 1], and -1 stands for none.     *)
(***************************************************************************)
EXTENDS Integers, Sequences, FiniteSetsExt

CONSTANTS
  SizeMod,  \* a size_t is taken modulo SizeMod
  Outside   \* stands for: characters from beyond the text

ASSUME SizeAssumption == SizeMod \in Nat /\ SizeMod > 1

NUL == 0

AUTO == SizeMod - 1   \* ST_AUTO_SIZE

Wrap(n) == n % SizeMod

\* A size_t as an ST_ssize_t.
Signed(n) == IF 2 * n >= SizeMod THEN n - SizeMod ELSE n

\* A char array, as far as functions that look for its end can see.
CStr(s) ==
  IF \E i \in DOMAIN s : s[i] = NUL
  THEN SubSeq(s, 1, Min({i \in DOMAIN s : s[i] = NUL}) - 1) ELSE s

-----------------------------------------------------------------------------
cl_fast_lower(c) == IF c \in 65 .. 90 THEN c + 32 ELSE c

\* cs is TRUE for case_sensitive.
Same(a, b, cs) == IF cs THEN a = b ELSE cl_fast_lower(a) = cl_fast_lower(b)

Matches(t, p, needle, cs) == \A i \in DOMAIN needle : Same(t[p + i], needle[i], cs)

Lead(needle) == IF needle = <<>> THEN NUL ELSE needle[1]

\* Mutant: a match that ends where the text ends is taken for one too long.
find_in_OffByOne(t, from, ep, needle, cs) ==
  LET stops == {p \in from .. ep - 1 :
                  /\ Same(t[p + 1], Lead(needle), cs)
                  /\ p + Len(needle) >= ep \/ Matches(t, p, needle, cs)}
  IN  IF stops = {} \/ Min(stops) + Len(needle) >= ep THEN -1 ELSE Min(stops)

\* The loop looks for the first character of the needle, and stops where what
\* is left of the text is too short or the rest of the needle follows.
find_in(t, from, ep, needle, cs) ==
  LET stops == {p \in from .. ep - 1 :
                  /\ Same(t[p + 1], Lead(needle), cs)
                  /\ p + Len(needle) > ep \/ Matches(t, p, needle, cs)}
  IN  IF stops = {} \/ Min(stops) + Len(needle) > ep THEN -1 ELSE Min(stops)

find(t, start, needle, cs) ==
  IF needle = <<>> \/ start >= Len(t) THEN -1 ELSE find_in(t, start, Len(t), needle, cs)

\* Search after search, each from behind the match before.
find_last(t, max, needle, cs) ==
  LET ep == IF max > Len(t) THEN Len(t) ELSE max
      last[p \in 0 .. ep] ==
        LET cp == find_in(t, p, ep, needle, cs) IN
        IF cp = -1 \/ last[cp + 1] = -1 THEN cp ELSE last[cp + 1]
  IN  IF needle = <<>> \/ t = <<>> THEN -1 ELSE last[0]

-----------------------------------------------------------------------------
\* Mutant: a count that is too large becomes the whole size.
substr_KeepsCount(t, start, count) ==
  LET max  == Len(t)
      from == IF start >= 0 THEN start ELSE IF start + max < 0 THEN 0 ELSE start + max
      want == IF count = AUTO THEN max ELSE count
      take == IF Wrap(from + want) > max THEN max ELSE want
  IN  IF from > max THEN <<>>
      ELSE IF from + take > max THEN Outside
      ELSE SubSeq(t, from + 1, from + take)

\* "start + count" is a size_t and wraps.
substr(t, start, count) ==
  LET max  == Len(t)
      from == IF start >= 0 THEN start ELSE IF start + max < 0 THEN 0 ELSE start + max
      want == IF count = AUTO THEN max ELSE count
      take == IF Wrap(from + want) > max THEN max - from ELSE want
  IN  IF from > max THEN <<>>
      ELSE IF from + take > max THEN Outside
      ELSE SubSeq(t, from + 1, from + take)

left(t, size) == substr(t, 0, size)

\* "this->size() - size" is a size_t, and negative for substr.
right(t, size) == substr(t, Signed(Wrap(Len(t) - size)), size)

In(t, p, charset) == \E i \in DOMAIN charset : t[p + 1] = charset[i]

\* The first place that is not in the charset, and behind the last one.
Left(t, charset) ==
  Min({p \in 0 .. Len(t) : p = Len(t) \/ ~In(t, p, charset)})

Right(t, from, charset) ==
  Max({p \in from .. Len(t) : p = from \/ ~In(t, p - 1, charset)})

trim_left(t, charset)  == substr(t, Left(t, charset), AUTO)
trim_right(t, charset) == substr(t, 0, Right(t, 0, charset))
trim(t, charset) ==
  LET lp == Left(t, charset) IN substr(t, lp, Right(t, lp, charset) - lp)

-----------------------------------------------------------------------------
(* The overloads.  after_first and after_last go on behind the match: by one  *)
(* character for a char, by the length of the separator for a char array,     *)
(* and by one character for a string, whatever its size.                      *)

Kinds == {"char", "cstr", "string"}

Needle(kind, arg) == IF kind = "cstr" THEN CStr(arg) ELSE arg

Skip(kind, arg) == IF kind = "cstr" THEN Len(CStr(arg)) ELSE 1

before_first(t, kind, arg, cs) ==
  LET first == find(t, 0, Needle(kind, arg), cs)
  IN  IF first >= 0 THEN left(t, first) ELSE t

after_first(t, kind, arg, cs) ==
  LET first == find(t, 0, Needle(kind, arg), cs)
  IN  IF first >= 0 THEN substr(t, first + Skip(kind, arg), AUTO) ELSE <<>>

before_last(t, kind, arg, cs) ==
  LET last == find_last(t, AUTO, Needle(kind, arg), cs)
  IN  IF last >= 0 THEN left(t, last) ELSE <<>>

after_last(t, kind, arg, cs) ==
  LET last == find_last(t, AUTO, Needle(kind, arg), cs)
  IN  IF last >= 0 THEN substr(t, last + Skip(kind, arg), AUTO) ELSE t
=============================================================================
