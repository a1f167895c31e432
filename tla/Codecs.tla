------------------------------- MODULE Codecs -------------------------------
(***************************************************************************)
(* The hexadecimal and base64 codecs (st_codecs.h, st_codecs_priv.h).      *)
(*                                                                         *)
(* The size of a result is computed first, from the length of the input    *)
(* and, for base64, from its last two characters.  The loops that follow   *)
(* write until they are through, and the decoding ones may find at any     *)
(* turn that the input is no encoding of anything.  A character is its     *)
(* code, and the one at "*sp" is t[sp + 1].                                *)
(***************************************************************************)
EXTENDS Integers, Sequences

CONSTANTS
  Data,      \* what is encoded: sequences of bytes
  HexTexts,  \* what is decoded
  B64Texts,
  Rooms,     \* sizes of the buffers a caller decodes into
  Own,       \* stands for: the library allocates the result
  Query,     \* stands for: no buffer, the caller asks for the size
  NoJob

Byte == 0 .. 255

ASSUME CodecsAssumption ==
  /\ Data \subseteq Seq(Byte)
  /\ HexTexts \cup B64Texts \subseteq Seq(Byte)
  /\ Rooms \subseteq Nat
  /\ {Own, Query} \cap Rooms = {} /\ Own # Query

-----------------------------------------------------------------------------
(* The tables. *)

hex_chars(v) == IF v < 10 THEN 48 + v ELSE 87 + v

hex_values(c) ==
  IF c \in 48 .. 57 THEN c - 48          \* "0" to "9"
  ELSE IF c \in 65 .. 70 THEN c - 55     \* "A" to "F"
  ELSE IF c \in 97 .. 102 THEN c - 87    \* "a" to "f"
  ELSE -1

Pad == 61   \* "="

b64_chars(v) ==
  IF v < 26 THEN 65 + v
  ELSE IF v < 52 THEN 71 + v
  ELSE IF v < 62 THEN v - 4
  ELSE IF v = 62 THEN 43 ELSE 47

b64_values(c) ==
  IF c \in 65 .. 90 THEN c - 65          \* "A" to "Z"
  ELSE IF c \in 97 .. 122 THEN c - 71    \* "a" to "z"
  ELSE IF c \in 48 .. 57 THEN c + 4      \* "0" to "9"
  ELSE IF c = 43 THEN 62                 \* "+"
  ELSE IF c = 47 THEN 63                 \* "/"
  ELSE -1

-----------------------------------------------------------------------------
(* The sizes; -1 for a text no data is encoded as. *)

hex_decode_size(t) == IF Len(t) % 2 = 0 THEN Len(t) \div 2 ELSE -1

b64_encode_size(n) == ((n + 2) \div 3) * 4

Padded(t, i) == Len(t) >= i /\ t[Len(t) - i + 1] = Pad

\* Mutant: only the last character is looked at.
b64_decode_size_OnePad(t) ==
  IF Len(t) % 4 # 0 THEN -1
  ELSE (Len(t) \div 4) * 3 - (IF Padded(t, 1) THEN 1 ELSE 0)

b64_decode_size(t) ==
  IF Len(t) % 4 # 0 THEN -1
  ELSE (Len(t) \div 4) * 3 - (IF Padded(t, 1) THEN 1 ELSE 0) - (IF Padded(t, 2) THEN 1 ELSE 0)

-----------------------------------------------------------------------------
(* One turn of each loop: what it writes and whether it goes on. *)

Go(s)   == [units |-> s, ok |-> TRUE]
Stop(s) == [units |-> s, ok |-> FALSE]

hex_encode(d, p) == Go(<<hex_chars(d[p + 1] \div 16), hex_chars(d[p + 1] % 16)>>)

hex_decode(t, p) ==
  LET high == hex_values(t[p + 1])
      low  == hex_values(t[p + 2])
  IN  IF high < 0 \/ low < 0 THEN Stop(<<>>) ELSE Go(<<high * 16 + low>>)

\* Mutant: the bits of the second byte are taken from the wrong end.
b64_encode_WrongBits(d, p) ==
  LET left   == Len(d) - p
      first  == b64_chars(d[p + 1] \div 4)
      second == b64_chars((d[p + 1] % 4) * 16 + IF left > 1 THEN d[p + 2] % 16 ELSE 0)
      third  == b64_chars((d[p + 2] % 16) * 4 + IF left > 2 THEN d[p + 3] \div 64 ELSE 0)
      fourth == b64_chars(d[p + 3] % 64)
  IN  IF left > 2 THEN Go(<<first, second, third, fourth>>)
      ELSE IF left = 2 THEN Go(<<first, second, third, Pad>>)
      ELSE Go(<<first, second, Pad, Pad>>)

\* Three bytes in the loop; the last two or the last one after it.
b64_encode(d, p) ==
  LET left   == Len(d) - p
      first  == b64_chars(d[p + 1] \div 4)
      second == b64_chars((d[p + 1] % 4) * 16 + IF left > 1 THEN d[p + 2] \div 16 ELSE 0)
      third  == b64_chars((d[p + 2] % 16) * 4 + IF left > 2 THEN d[p + 3] \div 64 ELSE 0)
      fourth == b64_chars(d[p + 3] % 64)
  IN  IF left > 2 THEN Go(<<first, second, third, fourth>>)
      ELSE IF left = 2 THEN Go(<<first, second, third, Pad>>)
      ELSE Go(<<first, second, Pad, Pad>>)

\* The three bytes of four digits.
First(v)  == v[1] * 4 + v[2] \div 16
Second(v) == (v[2] % 16) * 16 + v[3] \div 4
Third(v)  == (v[3] % 4) * 64 + v[4]

Values(t, p) == [i \in 1 .. 4 |-> b64_values(t[p + i])]

b64_decode_loop(t, p) ==
  LET v == Values(t, p) IN
  IF \E i \in 1 .. 4 : v[i] < 0 THEN Stop(<<>>)
  ELSE Go(<<First(v), Second(v), Third(v)>>)

\* Mutant: a padding character before a digit is let through.
b64_decode_last_PadInside(t, p) ==
  LET v   == Values(t, p)
      two == IF t[p + 3] = Pad THEN <<First(v)>> ELSE <<First(v), Second(v)>>
  IN  IF v[1] < 0 \/ v[2] < 0 THEN Stop(<<>>)
      ELSE IF t[p + 3] # Pad /\ v[3] < 0 THEN Stop(<<First(v)>>)
      ELSE IF t[p + 4] = Pad THEN Go(two)
      ELSE IF v[4] < 0 THEN Stop(two)
      ELSE Go(Append(two, Third(v)))

\* The final four characters, where each "=" stands for no byte.  What was
\* written before the error was found stays written.
b64_decode_last(t, p) ==
  LET v   == Values(t, p)
      two == IF t[p + 3] = Pad THEN <<First(v)>> ELSE <<First(v), Second(v)>>
  IN  IF v[1] < 0 \/ v[2] < 0 THEN Stop(<<>>)
      ELSE IF t[p + 3] # Pad /\ v[3] < 0 THEN Stop(<<First(v)>>)
      ELSE IF t[p + 4] = Pad THEN Go(two)
      ELSE IF v[3] < 0 \/ v[4] < 0 THEN Stop(two)
      ELSE Go(Append(two, Third(v)))

-----------------------------------------------------------------------------
(* A call. *)

Jobs ==
  [call : {"hex_encode", "base64_encode"}, input : Data, room : {Own}] \cup
  [call : {"hex_decode"}, input : HexTexts, room : Rooms \cup {Own, Query}] \cup
  [call : {"base64_decode"}, input : B64Texts, room : Rooms \cup {Own, Query}]

VARIABLES
  job,    \* the call, its input and where its result goes
  phase,  \* "idle", "work", and how it ended: "done", "told" (the size) or
          \* "refused" (-1 is returned, codec_error is thrown)
  sp,     \* the loop's place in the input
  size,   \* the computed size of the result
  out     \* what has been written

vars == <<job, phase, sp, size, out>>

SizeOf(j) ==
  CASE j.call = "hex_encode"    -> 2 * Len(j.input)
    [] j.call = "hex_decode"    -> hex_decode_size(j.input)
    [] j.call = "base64_encode" -> b64_encode_size(Len(j.input))
    [] j.call = "base64_decode" -> b64_decode_size(j.input)

\* The decoding loop of base64 leaves the last three bytes, or fewer.
Turn ==
  CASE job.call = "hex_encode"    -> hex_encode(job.input, sp)
    [] job.call = "hex_decode"    -> hex_decode(job.input, sp)
    [] job.call = "base64_encode" -> b64_encode(job.input, sp)
    [] job.call = "base64_decode" -> IF Len(out) + 3 < size THEN b64_decode_loop(job.input, sp)
                                     ELSE b64_decode_last(job.input, sp)

\* How much of the input a turn takes.
Step ==
  CASE job.call = "hex_encode"    -> 1
    [] job.call = "hex_decode"    -> 2
    [] job.call = "base64_encode" -> IF Len(job.input) - sp > 3 THEN 3 ELSE Len(job.input) - sp
    [] job.call = "base64_decode" -> 4

Init ==
  /\ job = NoJob
  /\ phase = "idle"
  /\ sp = 0 /\ size = 0
  /\ out = <<>>

\* Mutant: the size of the caller's buffer is not looked at.
Call_AnyRoom(j) ==
  /\ phase = "idle"
  /\ job' = j
  /\ size' = SizeOf(j)
  /\ phase' = IF size' < 0 THEN "refused"
              ELSE IF j.room = Query THEN "told"
              ELSE IF size' = 0 THEN "done" ELSE "work"
  /\ UNCHANGED <<sp, out>>

Call(j) ==
  /\ phase = "idle"
  /\ job' = j
  /\ size' = SizeOf(j)
  /\ phase' = IF size' < 0 THEN "refused"
              ELSE IF j.room = Query THEN "told"
              ELSE IF j.room # Own /\ size' > j.room THEN "refused"
              ELSE IF size' = 0 THEN "done" ELSE "work"
  /\ UNCHANGED <<sp, out>>

\* The loops of the encoders run as long as there is input, those of the
\* decoders as long as there is room.
AtEnd == IF job.call \in {"hex_encode", "base64_encode"} THEN sp >= Len(job.input)
         ELSE Len(out) >= size

Write ==
  /\ phase = "work" /\ ~AtEnd
  /\ Turn.ok
  /\ out' = out \o Turn.units
  /\ sp' = sp + Step
  /\ phase' = IF job.call = "base64_decode" /\ Len(out) + 3 >= size THEN "done" ELSE phase
  /\ UNCHANGED <<job, size>>

Refuse ==
  /\ phase = "work" /\ ~AtEnd
  /\ ~Turn.ok
  /\ out' = out \o Turn.units
  /\ phase' = "refused"
  /\ UNCHANGED <<job, sp, size>>

Finish ==
  /\ phase = "work" /\ AtEnd
  /\ phase' = "done"
  /\ UNCHANGED <<job, sp, size, out>>

Return ==
  /\ phase \in {"done", "told", "refused"}
  /\ job' = NoJob
  /\ phase' = "idle"
  /\ sp' = 0 /\ size' = 0
  /\ out' = <<>>

Next == (phase = "idle" /\ \E j \in Jobs : Call(j)) \/ Write \/ Refuse \/ Finish \/ Return

Spec == Init /\ [][Next]_vars

-----------------------------------------------------------------------------
\* No codec writes past its result: the buffer the library has allocated, or
\* the one of the caller, whose size was compared with the computed one.
StaysInRoom ==
  phase # "idle" =>
  /\ Len(out) <= (IF size < 0 THEN 0 ELSE size)
  /\ job.room \in Rooms => Len(out) <= job.room

\* "Conversion didn't match expected length" (st_codecs.h:68, 109) is never
\* reported, and the encoders fill what they have allocated.
FillsItsRoom == phase = "done" => Len(out) = size

-----------------------------------------------------------------------------
(* RFC 4648: three bytes are a group of 24 bits, cut into four digits; one *)
(* byte is two digits of base 16.  In the last group zeros take the place  *)
(* of missing bytes, and padding that of digits no bit of the data is in.  *)

Alphabet16 == <<48, 49, 50, 51, 52, 53, 54, 55, 56, 57, 97, 98, 99, 100, 101, 102>>

Alphabet64 == [v \in 1 .. 64 |-> IF v <= 26 THEN 64 + v          \* A to Z
                                 ELSE IF v <= 52 THEN 70 + v     \* a to z
                                 ELSE IF v <= 62 THEN v - 5      \* 0 to 9
                                 ELSE IF v = 63 THEN 43 ELSE 47] \* + and /

Base16(d) ==
  [k \in 1 .. 2 * Len(d) |->
     LET b == d[((k - 1) \div 2) + 1]
     IN  Alphabet16[(IF k % 2 = 1 THEN b \div 16 ELSE b % 16) + 1]]

ByteAt(d, i) == IF i < Len(d) THEN d[i + 1] ELSE 0

\* The 24 bits of the group number g, counted from 0.
Group(d, g) == ByteAt(d, 3 * g) * 256 * 256 + ByteAt(d, 3 * g + 1) * 256 + ByteAt(d, 3 * g + 2)

\* The digit at place k, counted from 0.
Digit(d, k) == (Group(d, k \div 4) \div <<64 * 64 * 64, 64 * 64, 64, 1>>[(k % 4) + 1]) % 64

Base64(d) ==
  [k \in 1 .. 4 * ((Len(d) + 2) \div 3) |->
     IF 6 * (k - 1) < 8 * Len(d) THEN Alphabet64[Digit(d, k - 1) + 1] ELSE Pad]

\* A text made of whole groups of characters of the alphabet, the last one
\* with no more than two padding characters, at its end.
WellFormed64(t) ==
  /\ Len(t) % 4 = 0
  /\ \E pads \in 0 .. 2 :
       /\ pads <= Len(t)
       /\ \A k \in 1 .. Len(t) - pads : \E v \in 1 .. 64 : t[k] = Alphabet64[v]
       /\ \A k \in Len(t) - pads + 1 .. Len(t) : t[k] = Pad

Lower(c) == IF c \in 65 .. 70 THEN c + 32 ELSE c

WellFormed16(t) ==
  /\ Len(t) % 2 = 0
  /\ \A k \in DOMAIN t : \E v \in 1 .. 16 : Lower(t[k]) = Alphabet16[v]

\* The encoders write what RFC 4648 says, for every length of the last group.
EncodesAsRFC4648 ==
  phase = "done" =>
  /\ job.call = "hex_encode"    => out = Base16(job.input)
  /\ job.call = "base64_encode" => out = Base64(job.input)

\* Decoding undoes encoding, whichever case the hexadecimal digits have.
DecodesBack ==
  phase = "done" =>
  /\ job.call = "hex_decode" => Base16(out) = [k \in DOMAIN job.input |-> Lower(job.input[k])]
  /\ job.call = "base64_decode" /\ job.input \in { Base64(d) : d \in Data } =>
       Base64(out) = job.input

\* A decoder with room enough refuses exactly what is no encoding, wherever
\* in the text the wrong character is; of a padded last group it does not ask
\* that the bits left over be zero.
RefusesTheRest ==
  phase \in {"done", "refused"} /\ (job.room = Own \/ (job.room \in Rooms /\ job.room >= size)) =>
  /\ job.call = "hex_decode"    => (phase = "done" <=> WellFormed16(job.input))
  /\ job.call = "base64_decode" => (phase = "done" <=> WellFormed64(job.input))

\* The decoders are the inverse of the encoders: they give back what was
\* encoded and refuse everything else (st_codecs_priv.h:69-220).
DecodesExactly == DecodesBack /\ RefusesTheRest
=============================================================================
