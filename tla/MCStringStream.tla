--------------------------- MODULE MCStringStream ---------------------------
(***************************************************************************)
(* StringStream.tla on a small machine: a stack of one character and a     *)
(* size_t of three bits, so that blocks of 2 and 4 characters are reached  *)
(* and the next doubling wraps.  There is no symmetry: the run checks      *)
(* liveness.                                                               *)
(***************************************************************************)
EXTENDS StringStream
=============================================================================
