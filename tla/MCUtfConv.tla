----------------------------- MODULE MCUtfConv -----------------------------
(***************************************************************************)
(* UtfConv.tla on short texts over units that stand for every case the     *)
(* code tells apart, and on what encodes short texts in Unicode.           *)
(***************************************************************************)
EXTENDS UtfConv

UpTo(units, n) == UNION { [1 .. k -> units] : k \in 0 .. n }

\* Scalar values at each border.
Scalars == {65, 127, 128, 233, 2047, 2048, 8364, 65533, 65535, 65536, 1114111}

MCScalarTexts == UpTo(Scalars, 2)

-----------------------------------------------------------------------------
(***************************************************************************)
(* UTF-8: an ASCII character; two trailing bytes, the one that makes what  *)
(* begins with 0xE0, 0xED and 0xF4 overlong, valid and valid, and the one  *)
(* that makes it valid, a surrogate and out of range; a head of each       *)
(* length, and a byte that is none.  All texts of up to three bytes, and   *)
(* those of four that begin with the longest head.                         *)
(***************************************************************************)
Bytes == {65, 130, 191, 195, 224, 237, 244, 255}

FourBytes(trail) == { <<244>> \o s : s \in [1 .. 3 -> trail] }

EncodedTexts(enc) == { Encoded(enc, t) : t \in MCScalarTexts }

MCTexts == [
  utf8   |-> UpTo(Bytes, 3) \cup FourBytes(Bytes) \cup EncodedTexts("utf8"),
  utf16  |-> UpTo({65, 233, 8364, 55296, 56319, 56320, 57343}, 3) \cup EncodedTexts("utf16"),
  utf32  |-> UpTo({65, 233, 55296, 65536, 1114112, 4194305, 2147483647}, 2)
               \cup EncodedTexts("utf32"),
  latin1 |-> UpTo({65, 127, 128, 233, 255}, 3)]

\* Enough for the range alone: one UTF-8 sequence of four bytes.
RangeTexts == [enc \in Encodings |-> IF enc = "utf8" THEN FourBytes({130, 191}) ELSE {}]

-----------------------------------------------------------------------------
\* "Input character out of range", says the assertion in the UTF-8 to UTF-16
\* loop (st_utf_conv_priv.h:470): it holds whenever the caller has not
\* vouched for the text, as what is malformed is thrown at or substituted.
RangeChecked == phase = "aborted" => job.mode = "assume_valid"
=============================================================================
