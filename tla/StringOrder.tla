----------------------------- MODULE StringOrder ------------------------------
(***************************************************************************)
(* How ST::string compares, orders and hashes (st_charbuffer.h,            *)
(* st_string_priv.h, st_string.h).  A comparison with case_sensitive looks *)
(* at bytes, one without subtracts a char from a char, and a char is       *)
(* signed.                                                                 *)
(***************************************************************************)
EXTENDS StringSearch, SequencesExt

CONSTANTS
  IntMod,        \* an int is taken modulo IntMod
  HashMod,       \* the size_t of a hash, which has to tell characters apart,
                 \* is taken modulo HashMod
  offset_basis,  \* of fnv_constants
  prime,
  xor(_, _)      \* the operator ^ of size_t

ASSUME IntAssumption == IntMod \in Nat /\ IntMod > 1 /\ SizeMod % IntMod = 0

\* A size_t as an int, and a byte as a char.
AsInt(n)  == LET m == n % IntMod IN IF 2 * m >= IntMod THEN m - IntMod ELSE m
AsChar(b) == IF b >= 128 THEN b - 256 ELSE b

cl_fast_upper(c) == IF c \in 97 .. 122 THEN c - 32 ELSE c

to_upper(t) == [i \in DOMAIN t |-> cl_fast_upper(t[i])]
to_lower(t) == [i \in DOMAIN t |-> cl_fast_lower(t[i])]

-----------------------------------------------------------------------------
\* The first n characters of both: 0, or the first that differ decide.
compare_cs(l, r, n, cs) ==
  LET apart == {i \in 1 .. n : ~Same(l[i], r[i], cs)}
      first == Min(apart)
  IN  IF apart = {} THEN 0
      ELSE IF cs THEN l[first] - r[first]
      ELSE AsChar(cl_fast_lower(l[first])) - AsChar(cl_fast_lower(r[first]))

\* Mutant: a text is taken for equal to one that it begins.
compare_Prefix(l, r, cs) == compare_cs(l, r, Min({Len(l), Len(r)}), cs)

\* A text that begins the other one is before it, as far as the difference
\* of their lengths goes into an int.
compare(l, r, cs) ==
  LET cmp == compare_cs(l, r, Min({Len(l), Len(r)}), cs)
  IN  IF cmp # 0 THEN cmp ELSE AsInt(Wrap(Len(l) - Len(r)))

Clip(t, n) == SubSeq(t, 1, Min({n, Len(t)}))

compare_n(l, r, n, cs) == compare(Clip(l, n), Clip(r, n), cs)

starts_with(t, prefix, cs) ==
  Len(prefix) <= Len(t) /\ compare_n(t, prefix, Len(prefix), cs) = 0

ends_with(t, suffix, cs) ==
  /\ Len(suffix) <= Len(t)
  /\ compare_cs(SubSeq(t, Len(t) - Len(suffix) + 1, Len(t)), suffix, Len(suffix), cs) = 0

-----------------------------------------------------------------------------
\* ST::hash.  Each character is made a size_t with its sign.
fnv(t) ==
  FoldLeft(LAMBDA h, c : (xor(h, AsChar(c) % HashMod) * prime) % HashMod, offset_basis, t)

\* Mutant: the same hash for both.
hash_Plain(t, cs) == fnv(t)

\* ST::hash and ST::hash_i.
hash(t, cs) == IF cs THEN fnv(t) ELSE fnv(to_lower(t))
=============================================================================
