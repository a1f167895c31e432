--------------------------- MODULE MCStringBuild ---------------------------
(***************************************************************************)
(* StringBuild.tla with two strings and one char_buffer, in which texts of *)
(* two characters are long.  "x" is a byte of a two-byte sequence: valid   *)
(* in pairs only; a lone one is replaced by a pair.                        *)
(***************************************************************************)
EXTENDS StringBuild, Sequences, TLC

CONSTANTS x

Text(s) == [i \in 0 .. Len(s) - 1 |-> s[i + 1]]

MCcleaned ==
  LET Repaired[v \in UNION { [1 .. k -> Char] : k \in 0 .. MaxSize }] ==
        IF v = <<>> THEN <<>>
        ELSE IF v[1] # x THEN <<v[1]>> \o Repaired[Tail(v)]
        ELSE IF Len(v) > 1 /\ v[2] = x THEN <<x, x>> \o Repaired[SubSeq(v, 3, Len(v))]
        ELSE <<x, x>> \o Repaired[Tail(v)]
  IN  [v \in UNION { Arrays(n) : n \in 0 .. MaxSize } |->
         Text(Repaired[[i \in 1 .. Size(v) |-> v[i - 1]]])]

MCGarbage == {Text(<<x, x>>)}

MCInputs == { Text(s) : s \in {<<>>, <<NUL>>, <<x>>, <<NUL, x>>} }

Symmetry == Permutations(Strings) \cup Permutations(Blocks)
=============================================================================
