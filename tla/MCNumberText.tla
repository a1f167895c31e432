---------------------------- MODULE MCNumberText ----------------------------
(***************************************************************************)
(* NumberText.tla with integers of few bits, all of them, and short texts. *)
(***************************************************************************)
EXTENDS NumberText

MCPow2 == [n \in 0 .. LongWidth |-> 2 ^ n]

UpTo(chars, n) == UNION { [1 .. k -> chars] : k \in 0 .. n }

\* NUL, tab, blank, "+", "-", "0", "1", "9", "a", "x".
MCTexts  == UpTo({0, 9, 32, 43, 45, 48, 49, 57, 97, 120}, 4)
MCFloats == { [i \in 1 .. n |-> Zero] : n \in 1 .. 9 }

=============================================================================
