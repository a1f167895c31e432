------------------------------ MODULE MCBuffer ------------------------------
(***************************************************************************)
(* Buffer.tla on a small heap.  Every operation frees before it allocates, *)
(* so as many blocks as buffers are enough for operator new never to be    *)
(* refused for want of addresses.                                          *)
(***************************************************************************)
EXTENDS Buffer, TLC

MCGarbage == Arrays(LocalLength)

Symmetry == Permutations(Buffers) \cup Permutations(Blocks)
=============================================================================
