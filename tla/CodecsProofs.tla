----------------------------- MODULE CodecsProofs -----------------------------
(***************************************************************************)
(* Proofs about Codecs.tla, for all data and texts of any length: what the *)
(* size functions compute beforehand is as much as the loops then write,   *)
(* and what they write is the encoding of RFC 4648, or what it encodes.    *)
(***************************************************************************)
EXTENDS Codecs, SequenceTheorems, TLAPS

Phases == {"idle", "work", "done", "told", "refused"}

\* Where a loop is in its input, by what it has written: after k turns it has
\* taken and written so much.  The encoder of base64 may also have taken the
\* last group, which is of three bytes or fewer.
InPlaceAt(p, n) ==
  \E k \in 0 .. Len(job.input) :
    \/ job.call = "hex_encode" /\ p = k /\ n = 2 * k
    \/ job.call = "hex_decode" /\ p = 2 * k /\ n = k
    \/ job.call = "base64_encode" /\ p = 3 * k /\ n = 4 * k
    \/ job.call = "base64_encode" /\ p = Len(job.input) /\ n = size
    \/ job.call = "base64_decode" /\ p = 4 * k /\ n = 3 * k /\ n < size

InPlace == InPlaceAt(sp, Len(out))

TypeOK ==
  /\ phase \in Phases
  /\ phase # "idle" => job \in Jobs /\ size = SizeOf(job)
  /\ sp \in Nat /\ size \in Int
  /\ out \in Seq(Byte)

CInv ==
  /\ TypeOK
  /\ phase = "idle" => sp = 0 /\ out = <<>>
  /\ phase # "idle" =>
       /\ Len(out) <= (IF size < 0 THEN 0 ELSE size)
       /\ job.room \in Rooms => Len(out) = 0 \/ size <= job.room
  /\ phase = "work" => size > 0 /\ sp <= Len(job.input) /\ InPlace /\ (job.room \in Rooms => size <= job.room)
  /\ phase = "done" => Len(out) = size

-----------------------------------------------------------------------------
(* The tables. *)

\* What the tables hold.
LEMMA Tables ==
  /\ \A v \in 0 .. 15 : hex_chars(v) \in Byte
  /\ \A c \in Byte : hex_values(c) \in -1 .. 15
  /\ \A v \in 0 .. 63 : b64_chars(v) \in Byte
  /\ \A c \in Byte : b64_values(c) \in -1 .. 63
  /\ b64_values(Pad) = -1 /\ Pad \in Byte
<1>1. \A v \in 0 .. 15 : hex_chars(v) \in Byte
  BY DEF hex_chars, Byte
<1>2. \A c \in Byte : hex_values(c) \in -1 .. 15
  BY DEF hex_values, Byte
<1>3. \A v \in 0 .. 63 : b64_chars(v) \in Byte
  BY DEF b64_chars, Byte
<1>4. \A c \in Byte : b64_values(c) \in -1 .. 63
  BY DEF b64_values, Byte
<1>5. b64_values(Pad) = -1 /\ Pad \in Byte
  BY DEF b64_values, Pad, Byte
<1>6. QED
  BY <1>1, <1>2, <1>3, <1>4, <1>5

\* The parts a byte is cut into.
LEMMA Cuts ==
  ASSUME NEW b \in Byte
  PROVE  /\ b \div 16 \in 0 .. 15 /\ b % 16 \in 0 .. 15
         /\ b \div 4 \in 0 .. 63 /\ b % 4 \in 0 .. 3
         /\ b \div 64 \in 0 .. 3 /\ b % 64 \in 0 .. 63
  BY DEF Byte

\* Characters of a text.
LEMMA CharAt ==
  ASSUME NEW t \in Seq(Byte), NEW i \in Nat, i < Len(t)
  PROVE  t[i + 1] \in Byte
<1>1. i + 1 \in 1 .. Len(t)
  BY LenProperties
<1>2. QED
  BY <1>1, ElementOfSeq

-----------------------------------------------------------------------------
(* The turns of the loops: what they write is bytes, and so many. *)

\* What a turn is made of after which a loop goes on.
LEMMA GoParts ==
  ASSUME NEW s, NEW turn, turn = Go(s)
  PROVE  turn.units = s /\ turn.ok /\ turn.ok \in BOOLEAN
  BY DEF Go

\* What the turn is made of that stops a loop.
LEMMA StopParts ==
  ASSUME NEW s, NEW turn, turn = Stop(s)
  PROVE  turn.units = s /\ ~turn.ok /\ turn.ok \in BOOLEAN
  BY DEF Stop

\* No byte, or up to four of them.
LEMMA Bytes ==
  /\ <<>> \in Seq(Byte) /\ Len(<<>>) = 0
  /\ \A a \in Byte : <<a>> \in Seq(Byte) /\ Len(<<a>>) = 1
  /\ \A a, b \in Byte : <<a, b>> \in Seq(Byte) /\ Len(<<a, b>>) = 2
  /\ \A a, b, c \in Byte : <<a, b, c>> \in Seq(Byte) /\ Len(<<a, b, c>>) = 3
  /\ \A a, b, c, d \in Byte : <<a, b, c, d>> \in Seq(Byte) /\ Len(<<a, b, c, d>>) = 4
  OBVIOUS

\* A byte after others.
LEMMA AppendByte ==
  ASSUME NEW s \in Seq(Byte), NEW b \in Byte
  PROVE  Append(s, b) \in Seq(Byte) /\ Len(Append(s, b)) = Len(s) + 1
  BY AppendProperties

\* hex_encode writes two characters.
LEMMA HexEncodeTurn ==
  ASSUME NEW d \in Seq(Byte), NEW p \in Nat, p < Len(d)
  PROVE  /\ hex_encode(d, p).ok
         /\ hex_encode(d, p).units \in Seq(Byte) /\ Len(hex_encode(d, p).units) = 2
<1>1. hex_chars(d[p + 1] \div 16) \in Byte /\ hex_chars(d[p + 1] % 16) \in Byte
  BY CharAt, Cuts, Tables
<1>2. QED
  BY <1>1 DEF hex_encode, Go

\* hex_decode writes one byte, or none and stops.
LEMMA HexDecodeTurn ==
  ASSUME NEW t \in Seq(Byte), NEW p \in Nat, p + 1 < Len(t)
  PROVE  /\ hex_decode(t, p).ok \in BOOLEAN
         /\ hex_decode(t, p).units \in Seq(Byte)
         /\ Len(hex_decode(t, p).units) = IF hex_decode(t, p).ok THEN 1 ELSE 0
<1>1. t[p + 1] \in Byte /\ t[p + 2] \in Byte
  <2>1. p + 1 \in Nat /\ p < Len(t) /\ (p + 1) + 1 = p + 2
    BY LenProperties
  <2>2. QED
    BY <2>1, CharAt
<1>2. PICK high \in -1 .. 15, low \in -1 .. 15 :
        high = hex_values(t[p + 1]) /\ low = hex_values(t[p + 2])
  BY <1>1, Tables
<1>3. hex_decode(t, p) = IF high < 0 \/ low < 0 THEN Stop(<<>>) ELSE Go(<<high * 16 + low>>)
  BY <1>2 DEF hex_decode
<1>4. CASE high < 0 \/ low < 0
  <2>1. hex_decode(t, p) = Stop(<<>>)
    BY <1>3, <1>4
  <2>2. QED
    BY <2>1, StopParts, Bytes
<1>5. CASE ~(high < 0 \/ low < 0)
  <2>1. high * 16 + low \in Byte
    BY <1>5 DEF Byte
  <2>2. QED
    BY <1>3, <1>5, <2>1 DEF Go
<1>6. QED
  BY <1>4, <1>5

\* The digits of base64 are made of parts of two bytes.
LEMMA Digits ==
  ASSUME NEW a \in Byte, NEW b \in Byte
  PROVE  /\ b64_chars(a \div 4) \in Byte /\ b64_chars(a % 64) \in Byte
         /\ b64_chars((a % 4) * 16 + b \div 16) \in Byte /\ b64_chars((a % 4) * 16 + 0) \in Byte
         /\ b64_chars((a % 16) * 4 + b \div 64) \in Byte /\ b64_chars((a % 16) * 4 + 0) \in Byte
<1>1. PICK q \in 0 .. 3, r \in 0 .. 15 : q = a % 4 /\ r = a % 16
  BY Cuts
<1>2. PICK x \in 0 .. 15, y \in 0 .. 3 : x = b \div 16 /\ y = b \div 64
  BY Cuts
<1>3. /\ q * 16 + x \in 0 .. 63 /\ q * 16 + 0 \in 0 .. 63
      /\ r * 4 + y \in 0 .. 63 /\ r * 4 + 0 \in 0 .. 63
  OBVIOUS
<1>4. a \div 4 \in 0 .. 63 /\ a % 64 \in 0 .. 63
  BY Cuts
<1>5. QED
  BY <1>1, <1>2, <1>3, <1>4, Tables

\* b64_encode writes four characters, from three bytes or from what is left.
LEMMA B64EncodeTurn ==
  ASSUME NEW d \in Seq(Byte), NEW p \in Nat, p < Len(d)
  PROVE  /\ b64_encode(d, p).ok
         /\ b64_encode(d, p).units \in Seq(Byte) /\ Len(b64_encode(d, p).units) = 4
<1> DEFINE left   == Len(d) - p
           first  == b64_chars(d[p + 1] \div 4)
           second == b64_chars((d[p + 1] % 4) * 16 + IF left > 1 THEN d[p + 2] \div 16 ELSE 0)
           third  == b64_chars((d[p + 2] % 16) * 4 + IF left > 2 THEN d[p + 3] \div 64 ELSE 0)
           fourth == b64_chars(d[p + 3] % 64)
<1>1. left \in Nat \ {0}
  BY LenProperties
<1>2. /\ d[p + 1] \in Byte
      /\ left > 1 => d[p + 2] \in Byte
      /\ left > 2 => d[p + 3] \in Byte
  <2>1. /\ p + 1 \in Nat /\ p + 2 \in Nat /\ (p + 1) + 1 = p + 2 /\ (p + 2) + 1 = p + 3
        /\ left > 1 => p + 1 < Len(d)
        /\ left > 2 => p + 2 < Len(d)
    BY LenProperties
  <2>2. QED
    BY <2>1, CharAt
<1>3. first \in Byte /\ second \in Byte
  <2>1. CASE left > 1
    BY <1>2, <2>1, Digits
  <2>2. CASE ~(left > 1)
    BY <1>2, <2>2, Digits
  <2>3. QED
    BY <2>1, <2>2
<1>4. left > 1 => third \in Byte
  <2>1. CASE left > 2
    <3>1. left > 1
      BY <1>1, <2>1
    <3>2. QED
      BY <1>2, <2>1, <3>1, Digits
  <2>2. CASE ~(left > 2)
    BY <1>2, <2>2, Digits
  <2>3. QED
    BY <2>1, <2>2
<1>5. left > 2 => fourth \in Byte
  BY <1>2, Digits
<1>6. b64_encode(d, p) = IF left > 2 THEN Go(<<first, second, third, fourth>>)
                         ELSE IF left = 2 THEN Go(<<first, second, third, Pad>>)
                         ELSE Go(<<first, second, Pad, Pad>>)
  BY DEF b64_encode
<1> HIDE DEF left, first, second, third, fourth
<1>7. Pad \in Byte /\ (left > 2 => left > 1) /\ (left = 2 => left > 1)
  BY <1>1, Tables
<1>8. CASE left > 2
  <2>1. b64_encode(d, p) = Go(<<first, second, third, fourth>>)
    BY <1>6, <1>8
  <2>2. first \in Byte /\ second \in Byte /\ third \in Byte /\ fourth \in Byte
    BY <1>3, <1>4, <1>5, <1>7, <1>8
  <2>3. b64_encode(d, p).units = <<first, second, third, fourth>> /\ b64_encode(d, p).ok
    BY <2>1, GoParts
  <2>4. QED
    BY <2>2, <2>3, Bytes
<1>9. CASE left = 2
  <2>1. b64_encode(d, p) = Go(<<first, second, third, Pad>>)
    BY <1>6, <1>9
  <2>2. first \in Byte /\ second \in Byte /\ third \in Byte
    BY <1>3, <1>4, <1>7, <1>9
  <2>3. b64_encode(d, p).units = <<first, second, third, Pad>> /\ b64_encode(d, p).ok
    BY <2>1, GoParts
  <2>4. QED
    BY <1>7, <2>2, <2>3, Bytes
<1>10. CASE ~(left > 2) /\ left # 2
  <2>1. b64_encode(d, p) = Go(<<first, second, Pad, Pad>>)
    BY <1>6, <1>10
  <2>2. b64_encode(d, p).units = <<first, second, Pad, Pad>> /\ b64_encode(d, p).ok
    BY <2>1, GoParts
  <2>3. QED
    BY <1>3, <1>7, <2>2, Bytes
<1>11. QED
  BY <1>8, <1>9, <1>10

\* Four digits, some of which may be none.
LEMMA FourDigits ==
  ASSUME NEW t \in Seq(Byte), NEW p \in Nat, p + 4 <= Len(t)
  PROVE  /\ Values(t, p)[1] \in -1 .. 63 /\ Values(t, p)[2] \in -1 .. 63
         /\ Values(t, p)[3] \in -1 .. 63 /\ Values(t, p)[4] \in -1 .. 63
         /\ t[p + 3] = Pad => Values(t, p)[3] = -1
         /\ t[p + 4] = Pad => Values(t, p)[4] = -1
<1>1. \A i \in 1 .. 4 : t[p + i] \in Byte
  <2> TAKE i \in 1 .. 4
  <2>1. p + i \in 1 .. Len(t)
    BY LenProperties
  <2>2. QED
    BY <2>1, ElementOfSeq
<1>2. \A i \in 1 .. 4 : Values(t, p)[i] = b64_values(t[p + i])
  BY DEF Values
<1>3. \A i \in 1 .. 4 : Values(t, p)[i] \in -1 .. 63
  BY <1>1, <1>2, Tables
<1>4. 1 \in 1 .. 4 /\ 2 \in 1 .. 4 /\ 3 \in 1 .. 4 /\ 4 \in 1 .. 4
  OBVIOUS
<1>5. /\ t[p + 3] = Pad => Values(t, p)[3] = -1
      /\ t[p + 4] = Pad => Values(t, p)[4] = -1
  BY <1>2, <1>4, Tables
<1>6. QED
  BY <1>3, <1>4, <1>5

\* Bytes are made of digits.
LEMMA Joins ==
  ASSUME NEW a \in 0 .. 63, NEW b \in 0 .. 63
  PROVE  /\ a * 4 + b \div 16 \in Byte
         /\ (a % 16) * 16 + b \div 4 \in Byte
         /\ (a % 4) * 64 + b \in Byte
<1> DEFINE q == a % 4  r == a % 16  x == b \div 16  y == b \div 4
<1>1. q \in 0 .. 3 /\ r \in 0 .. 15
  OBVIOUS
<1>2. x \in 0 .. 3
  OBVIOUS
<1>3. y \in 0 .. 15
  OBVIOUS
<1> HIDE DEF q, r, x, y
<1>4. a * 4 + x \in Byte /\ r * 16 + y \in Byte /\ q * 64 + b \in Byte
  BY <1>1, <1>2, <1>3 DEF Byte
<1>5. QED
  BY <1>4 DEF q, r, x, y

\* A turn of base64's loop writes three bytes, or none and stops.
LEMMA B64LoopTurn ==
  ASSUME NEW t \in Seq(Byte), NEW p \in Nat, p + 4 <= Len(t)
  PROVE  /\ b64_decode_loop(t, p).ok \in BOOLEAN
         /\ b64_decode_loop(t, p).units \in Seq(Byte)
         /\ Len(b64_decode_loop(t, p).units) = IF b64_decode_loop(t, p).ok THEN 3 ELSE 0
<1> DEFINE v == Values(t, p)
           a == v[1]
           b == v[2]
           c == v[3]
           d == v[4]
<1>1. a \in -1 .. 63 /\ b \in -1 .. 63 /\ c \in -1 .. 63 /\ d \in -1 .. 63
  BY FourDigits
<1>2. b64_decode_loop(t, p) = IF \E i \in 1 .. 4 : v[i] < 0 THEN Stop(<<>>)
                              ELSE Go(<<First(v), Second(v), Third(v)>>)
  BY DEF b64_decode_loop
<1>0. /\ First(v) = a * 4 + b \div 16
      /\ Second(v) = (b % 16) * 16 + c \div 4
      /\ Third(v) = (c % 4) * 64 + d
  BY DEF First, Second, Third
<1>3. CASE \E i \in 1 .. 4 : v[i] < 0
  <2>1. b64_decode_loop(t, p) = Stop(<<>>)
    BY <1>2, <1>3
  <2>2. QED
    BY <2>1, StopParts, Bytes
<1>4. CASE ~ \E i \in 1 .. 4 : v[i] < 0
  <2>1. 1 \in 1 .. 4 /\ 2 \in 1 .. 4 /\ 3 \in 1 .. 4 /\ 4 \in 1 .. 4
    OBVIOUS
  <2>2. ~(a < 0) /\ ~(b < 0) /\ ~(c < 0) /\ ~(d < 0)
    BY <1>4, <2>1
  <2>3. a \in 0 .. 63 /\ b \in 0 .. 63 /\ c \in 0 .. 63 /\ d \in 0 .. 63
    BY <1>1, <2>2
  <2> HIDE DEF v, a, b, c, d
  <2>4. First(v) \in Byte /\ Second(v) \in Byte /\ Third(v) \in Byte
    <3>1. /\ a * 4 + b \div 16 \in Byte
          /\ (b % 16) * 16 + c \div 4 \in Byte
          /\ (c % 4) * 64 + d \in Byte
      BY <2>3, Joins
    <3>2. QED
      BY <1>0, <3>1
  <2>5. b64_decode_loop(t, p) = Go(<<First(v), Second(v), Third(v)>>)
    BY <1>2, <1>4
  <2>6. b64_decode_loop(t, p).units = <<First(v), Second(v), Third(v)>> /\ b64_decode_loop(t, p).ok
    BY <2>5, GoParts
  <2>7. QED
    BY <2>4, <2>6, Bytes
<1>5. QED
  BY <1>3, <1>4

\* The number of "=" the size function finds at the end of a text.
Pads(t) == (IF Padded(t, 1) THEN 1 ELSE 0) + (IF Padded(t, 2) THEN 1 ELSE 0)

\* What the size takes off for padding, the last turn does not write.
LEMMA B64LastTurn ==
  ASSUME NEW t \in Seq(Byte), NEW p \in Nat, p + 4 = Len(t)
  PROVE  /\ b64_decode_last(t, p).ok \in BOOLEAN
         /\ b64_decode_last(t, p).units \in Seq(Byte)
         /\ Len(b64_decode_last(t, p).units) <= 3 - Pads(t)
         /\ b64_decode_last(t, p).ok => Len(b64_decode_last(t, p).units) = 3 - Pads(t)
<1> DEFINE v    == Values(t, p)
           pad3 == t[p + 3] = Pad
           pad4 == t[p + 4] = Pad
           two  == IF pad3 THEN <<First(v)>> ELSE <<First(v), Second(v)>>
           a == v[1]
           b == v[2]
           c == v[3]
           d == v[4]
<1>1. /\ a \in -1 .. 63 /\ b \in -1 .. 63 /\ c \in -1 .. 63 /\ d \in -1 .. 63
      /\ (pad3 => c = -1) /\ (pad4 => d = -1)
  BY FourDigits
<1>0. /\ First(v) = a * 4 + b \div 16
      /\ Second(v) = (b % 16) * 16 + c \div 4
      /\ Third(v) = (c % 4) * 64 + d
  BY DEF First, Second, Third
<1>2. Pads(t) = (IF pad4 THEN 1 ELSE 0) + (IF pad3 THEN 1 ELSE 0)
  <2>1. Len(t) \in Nat /\ Len(t) >= 2 /\ Len(t) - 1 + 1 = p + 4 /\ Len(t) - 2 + 1 = p + 3
    BY LenProperties
  <2>2. (Padded(t, 1) <=> pad4) /\ (Padded(t, 2) <=> pad3)
    BY <2>1 DEF Padded
  <2>3. QED
    BY <2>2 DEF Pads
<1>3. b64_decode_last(t, p) =
        IF a < 0 \/ b < 0 THEN Stop(<<>>)
        ELSE IF ~pad3 /\ c < 0 THEN Stop(<<First(v)>>)
        ELSE IF pad4 THEN Go(two)
        ELSE IF c < 0 \/ d < 0 THEN Stop(two)
        ELSE Go(Append(two, Third(v)))
  BY DEF b64_decode_last
<1> HIDE DEF v, a, b, c, d
<1>4. CASE a < 0 \/ b < 0
  <2>1. b64_decode_last(t, p) = Stop(<<>>)
    BY <1>3, <1>4
  <2>2. 0 <= 3 - Pads(t)
    BY <1>2
  <2>3. QED
    BY <2>1, <2>2, StopParts, Bytes
<1>5. CASE ~(a < 0 \/ b < 0)
  <2>1. /\ First(v) \in Byte
        /\ ~(c < 0) => Second(v) \in Byte
        /\ ~(c < 0 \/ d < 0) => Third(v) \in Byte
    <3>1. a \in 0 .. 63 /\ b \in 0 .. 63
      BY <1>1, <1>5
    <3>2. First(v) \in Byte
      BY <1>0, <3>1, Joins
    <3>3. ~(c < 0) => Second(v) \in Byte
      <4>1. ~(c < 0) => c \in 0 .. 63
        BY <1>1
      <4>2. QED
        BY <1>0, <3>1, <4>1, Joins
    <3>4. ~(c < 0 \/ d < 0) => Third(v) \in Byte
      <4>1. ~(c < 0 \/ d < 0) => c \in 0 .. 63 /\ d \in 0 .. 63
        BY <1>1
      <4>2. QED
        BY <1>0, <4>1, Joins
    <3>5. QED
      BY <3>2, <3>3, <3>4
  <2>2. CASE ~pad3 /\ c < 0
    <3>1. b64_decode_last(t, p) = Stop(<<First(v)>>)
      BY <1>3, <1>5, <2>2
    <3>2. 1 <= 3 - Pads(t)
      BY <1>2
    <3>3. b64_decode_last(t, p).units = <<First(v)>> /\ ~b64_decode_last(t, p).ok
          /\ b64_decode_last(t, p).ok \in BOOLEAN
      BY <3>1, StopParts
    <3>4. <<First(v)>> \in Seq(Byte) /\ Len(<<First(v)>>) = 1
      BY <2>1, Bytes
    <3>5. QED
      BY <3>2, <3>3, <3>4
  <2>3. CASE ~(~pad3 /\ c < 0)
    <3>1. two \in Seq(Byte) /\ Len(two) = IF pad3 THEN 1 ELSE 2
      <4>1. CASE pad3
        BY <2>1, <4>1, Bytes
      <4>2. CASE ~pad3
        BY <2>1, <2>3, <4>2, Bytes
      <4>3. QED
        BY <4>1, <4>2
    <3> HIDE DEF two
    <3>2. CASE pad4
      <4>1. b64_decode_last(t, p) = Go(two)
        BY <1>3, <1>5, <2>3, <3>2
      <4>2. Len(two) = 3 - Pads(t) /\ Len(two) <= 3 - Pads(t)
        BY <1>2, <3>1, <3>2
      <4>3. QED
        BY <3>1, <4>1, <4>2, GoParts
    <3>3. CASE ~pad4 /\ (c < 0 \/ d < 0)
      <4>1. b64_decode_last(t, p) = Stop(two)
        BY <1>3, <1>5, <2>3, <3>3
      <4>2. Len(two) <= 3 - Pads(t)
        BY <1>2, <3>1, <3>3
      <4>3. QED
        BY <3>1, <4>1, <4>2, StopParts
    <3>4. CASE ~pad4 /\ ~(c < 0 \/ d < 0)
      <4>1. b64_decode_last(t, p) = Go(Append(two, Third(v)))
        BY <1>3, <1>5, <2>3, <3>4
      <4>2. ~pad3
        BY <1>1, <3>4
      <4>3. Append(two, Third(v)) \in Seq(Byte) /\ Len(Append(two, Third(v))) = 3
        <5>1. Third(v) \in Byte /\ Len(two) = 2
          BY <2>1, <3>1, <3>4, <4>2
        <5>2. Append(two, Third(v)) \in Seq(Byte) /\ Len(Append(two, Third(v))) = Len(two) + 1
          BY <3>1, <5>1, AppendByte
        <5>3. QED
          BY <5>1, <5>2
      <4>4. Pads(t) = 0 /\ 3 = 3 - Pads(t) /\ 3 <= 3 - Pads(t)
        BY <1>2, <3>4, <4>2
      <4>5. QED
        BY <4>1, <4>3, <4>4, GoParts
    <3>5. QED
      BY <3>2, <3>3, <3>4
  <2>4. QED
    BY <2>2, <2>3
<1>6. QED
  BY <1>4, <1>5

-----------------------------------------------------------------------------
(* A turn within a call. *)

\* What a call is made of.
LEMMA JobFacts ==
  ASSUME NEW j \in Jobs
  PROVE  /\ j.call \in {"hex_encode", "hex_decode", "base64_encode", "base64_decode"}
         /\ j.input \in Seq(Byte) /\ Len(j.input) \in Nat
<1>1. Data \subseteq Seq(Byte) /\ HexTexts \subseteq Seq(Byte) /\ B64Texts \subseteq Seq(Byte)
  BY CodecsAssumption
<1>2. j.input \in Seq(Byte)
  BY <1>1 DEF Jobs
<1>3. j.call \in {"hex_encode", "hex_decode", "base64_encode", "base64_decode"}
  BY DEF Jobs
<1>4. QED
  BY <1>2, <1>3, LenProperties

\* The sizes, as the loops need them.
LEMMA Sizes ==
  ASSUME NEW j \in Jobs
  PROVE  /\ SizeOf(j) \in Int
         /\ j.call = "hex_encode" => SizeOf(j) = 2 * Len(j.input)
         /\ j.call = "hex_decode" /\ SizeOf(j) > 0 => Len(j.input) = 2 * SizeOf(j)
         /\ j.call = "base64_encode" => SizeOf(j) = ((Len(j.input) + 2) \div 3) * 4
         /\ j.call = "base64_decode" /\ SizeOf(j) > 0 =>
              \E q \in Nat : Len(j.input) = 4 * q /\ SizeOf(j) = 3 * q - Pads(j.input)
<1> DEFINE n == Len(j.input)
<1>1. n \in Nat
  BY JobFacts
<1>2. CASE j.call = "hex_encode"
  <2>1. SizeOf(j) = 2 * n
    BY <1>2 DEF SizeOf
  <2>2. QED
    BY <1>1, <1>2, <2>1
<1>3. CASE j.call = "hex_decode"
  <2>1. SizeOf(j) = IF n % 2 = 0 THEN n \div 2 ELSE -1
    BY <1>3 DEF SizeOf, hex_decode_size
  <2>2. SizeOf(j) \in Int /\ (SizeOf(j) > 0 => n = 2 * SizeOf(j))
    <3> HIDE DEF n
    <3>1. QED
      BY <1>1, <2>1
  <2>3. QED
    BY <1>3, <2>2
<1>4. CASE j.call = "base64_encode"
  <2>1. SizeOf(j) = ((n + 2) \div 3) * 4
    BY <1>4 DEF SizeOf, b64_encode_size
  <2>2. SizeOf(j) \in Int
    <3> HIDE DEF n
    <3>1. QED
      BY <1>1, <2>1
  <2>3. QED
    BY <1>4, <2>1, <2>2
<1>5. CASE j.call = "base64_decode"
  <2>1. SizeOf(j) = IF n % 4 # 0 THEN -1
                    ELSE (n \div 4) * 3 - (IF Padded(j.input, 1) THEN 1 ELSE 0)
                                        - (IF Padded(j.input, 2) THEN 1 ELSE 0)
    BY <1>5 DEF SizeOf, b64_decode_size
  <2>2. SizeOf(j) = IF n % 4 # 0 THEN -1 ELSE 3 * (n \div 4) - Pads(j.input)
    <3> HIDE DEF n
    <3>1. QED
      BY <1>1, <2>1 DEF Pads
  <2>3. Pads(j.input) \in 0 .. 2
    BY DEF Pads
  <2>4. n \div 4 \in Nat /\ (n % 4 = 0 => n = 4 * (n \div 4))
    <3> HIDE DEF n
    <3>1. QED
      BY <1>1
  <2>5. CASE n % 4 # 0
    <3>1. SizeOf(j) = -1
      BY <2>2, <2>5
    <3>2. QED
      BY <1>5, <3>1
  <2>6. CASE n % 4 = 0
    <3>1. SizeOf(j) = 3 * (n \div 4) - Pads(j.input) /\ n = 4 * (n \div 4)
      BY <2>2, <2>4, <2>6
    <3>2. SizeOf(j) \in Int
      <4>1. \A a \in Nat, b \in 0 .. 2 : 3 * a - b \in Int
        OBVIOUS
      <4>2. QED
        BY <2>3, <2>4, <3>1, <4>1
    <3>3. QED
      BY <1>5, <2>4, <3>1, <3>2
  <2>7. QED
    BY <2>5, <2>6
<1>6. QED
  BY <1>2, <1>3, <1>4, <1>5, JobFacts

\* A turn writes what there is room for.  When it does not stop, the loop is
\* in place again, or the last turn of base64's decoder has filled the result.
Advances ==
  /\ Turn.ok \in BOOLEAN
  /\ Turn.units \in Seq(Byte)
  /\ Len(out) + Len(Turn.units) <= size
  /\ Turn.ok =>
       /\ sp + Step \in Nat /\ sp + Step <= Len(job.input)
       /\ IF job.call = "base64_decode" /\ Len(out) + 3 >= size
          THEN Len(out) + Len(Turn.units) = size
          ELSE InPlaceAt(sp + Step, Len(out) + Len(Turn.units))

\* Before a turn: the call is one of those, and so far the loop is.
LEMMA AtWork ==
  ASSUME CInv, phase = "work"
  PROVE  /\ job \in Jobs /\ size = SizeOf(job) /\ size \in Int /\ size > 0
         /\ job.input \in Seq(Byte) /\ Len(job.input) \in Nat
         /\ sp \in Nat /\ sp <= Len(job.input) /\ out \in Seq(Byte) /\ Len(out) \in Nat
         /\ Len(out) <= size
         /\ InPlace
<1>1. phase # "idle"
  OBVIOUS
<1>2. /\ job \in Jobs /\ size = SizeOf(job) /\ size \in Int /\ size > 0
      /\ sp \in Nat /\ sp <= Len(job.input) /\ out \in Seq(Byte) /\ InPlace
      /\ Len(out) <= (IF size < 0 THEN 0 ELSE size)
  BY <1>1 DEF CInv, TypeOK
<1>3. Len(out) \in Nat
  BY <1>2, LenProperties
<1>4. QED
  BY <1>2, <1>3, JobFacts

\* A turn of hex_encode.
LEMMA HexEncodeAdvances ==
  ASSUME CInv, phase = "work", ~AtEnd, job.call = "hex_encode"
  PROVE  Advances
<1> DEFINE n == Len(job.input)
           turn == hex_encode(job.input, sp)
<1>1. PICK k \in 0 .. n : sp = k /\ Len(out) = 2 * k
  BY AtWork DEF InPlace, InPlaceAt
<1>2. k < n /\ size = 2 * n /\ n \in Nat
  <2>1. job \in Jobs /\ size = SizeOf(job) /\ n \in Nat
    BY AtWork
  <2>2. ~(sp >= n)
    BY DEF AtEnd
  <2>3. size = 2 * n
    BY <2>1, Sizes
  <2>4. QED
    BY <1>1, <2>1, <2>2, <2>3
<1>3. turn.ok /\ turn.units \in Seq(Byte) /\ Len(turn.units) = 2
  BY <1>1, <1>2, AtWork, HexEncodeTurn
<1>4. Turn = turn /\ Step = 1
  BY DEF Turn, Step
<1> HIDE DEF n, turn
<1>5. /\ k + 1 \in 0 .. n /\ sp + 1 = k + 1 /\ Len(out) + 2 = 2 * (k + 1) /\ Len(out) + 2 <= size
      /\ sp + 1 \in Nat /\ sp + 1 <= n
  BY <1>1, <1>2
<1>6. InPlaceAt(sp + 1, Len(out) + 2)
  BY <1>5 DEF InPlaceAt, n
<1>7. QED
  BY <1>3, <1>4, <1>5, <1>6 DEF Advances, n

\* A turn of hex_decode.
LEMMA HexDecodeAdvances ==
  ASSUME CInv, phase = "work", ~AtEnd, job.call = "hex_decode"
  PROVE  Advances
<1> DEFINE n == Len(job.input)
           turn == hex_decode(job.input, sp)
<1>1. PICK k \in 0 .. n : sp = 2 * k /\ Len(out) = k
  BY AtWork DEF InPlace, InPlaceAt
<1>2. k < size /\ n = 2 * size /\ n \in Nat /\ size \in Int
  <2>1. job \in Jobs /\ size = SizeOf(job) /\ size > 0 /\ n \in Nat /\ size \in Int
    BY AtWork
  <2>2. ~(Len(out) >= size)
    BY DEF AtEnd
  <2>3. n = 2 * size
    BY <2>1, Sizes
  <2>4. QED
    BY <1>1, <2>1, <2>2, <2>3
<1>3. turn.ok \in BOOLEAN /\ turn.units \in Seq(Byte) /\ Len(turn.units) = IF turn.ok THEN 1 ELSE 0
  <2>1. sp + 1 < Len(job.input)
    BY <1>1, <1>2
  <2>2. QED
    BY <2>1, AtWork, HexDecodeTurn
<1>4. Turn = turn /\ Step = 2
  BY DEF Turn, Step
<1> HIDE DEF n, turn
<1>5. /\ k + 1 \in 0 .. n /\ sp + 2 = 2 * (k + 1) /\ Len(out) + 1 = k + 1
      /\ Len(out) + 1 <= size /\ Len(out) + 0 <= size
      /\ sp + 2 \in Nat /\ sp + 2 <= n
  BY <1>1, <1>2
<1>6. InPlaceAt(sp + 2, Len(out) + 1)
  BY <1>5 DEF InPlaceAt, n
<1>7. CASE turn.ok
  BY <1>3, <1>4, <1>5, <1>6, <1>7 DEF Advances, n
<1>8. CASE ~turn.ok
  BY <1>3, <1>4, <1>5, <1>8 DEF Advances
<1>9. QED
  BY <1>7, <1>8

\* A turn of base64_encode, the last of which takes what is left.
LEMMA B64EncodeAdvances ==
  ASSUME CInv, phase = "work", ~AtEnd, job.call = "base64_encode"
  PROVE  Advances
<1> DEFINE n == Len(job.input)
           turn == b64_encode(job.input, sp)
           step == IF n - sp > 3 THEN 3 ELSE n - sp
<1>1. sp < n /\ size = ((n + 2) \div 3) * 4 /\ n \in Nat /\ sp \in Nat
  <2>1. job \in Jobs /\ size = SizeOf(job) /\ n \in Nat /\ sp \in Nat
    BY AtWork
  <2>2. ~(sp >= n)
    BY DEF AtEnd
  <2>3. size = ((n + 2) \div 3) * 4
    BY <2>1, Sizes
  <2>4. QED
    BY <2>1, <2>2, <2>3
<1>2. PICK k \in 0 .. n : sp = 3 * k /\ Len(out) = 4 * k
  <2>1. PICK k \in 0 .. n : (sp = 3 * k /\ Len(out) = 4 * k) \/ sp = n
    BY AtWork DEF InPlace, InPlaceAt
  <2>2. sp # n
    BY <1>1
  <2>3. QED
    BY <2>1, <2>2
<1>3. turn.ok /\ turn.units \in Seq(Byte) /\ Len(turn.units) = 4
  BY <1>1, AtWork, B64EncodeTurn
<1>4. Turn = turn /\ Step = step
  BY DEF Turn, Step
<1> HIDE DEF n, turn
<1>5. sp + step \in Nat /\ sp + step <= n
  BY <1>1
<1>6. CASE n - sp > 3
  <2>1. /\ step = 3 /\ k + 1 \in 0 .. n /\ sp + 3 = 3 * (k + 1)
        /\ Len(out) + 4 = 4 * (k + 1) /\ Len(out) + 4 <= size
    BY <1>1, <1>2, <1>6
  <2>2. InPlaceAt(sp + 3, Len(out) + 4)
    BY <2>1 DEF InPlaceAt, n
  <2>3. QED
    BY <1>3, <1>4, <1>5, <2>1, <2>2 DEF Advances, n
<1>7. CASE ~(n - sp > 3)
  <2>1. (n + 2) \div 3 = k + 1
    BY <1>1, <1>2, <1>7
  <2>2. step = n - sp /\ sp + step = n /\ Len(out) + 4 = size /\ Len(out) + 4 <= size
    BY <1>1, <1>2, <1>7, <2>1
  <2>3. InPlaceAt(sp + step, Len(out) + 4)
    BY <2>2 DEF InPlaceAt, n
  <2>4. QED
    BY <1>3, <1>4, <1>5, <2>2, <2>3 DEF Advances, n
<1>8. QED
  BY <1>6, <1>7

\* A turn of base64_decode: the loop leaves at most three bytes, and those are
\* the ones of the last four characters.
LEMMA B64DecodeAdvances ==
  ASSUME CInv, phase = "work", ~AtEnd, job.call = "base64_decode"
  PROVE  Advances
<1> DEFINE n == Len(job.input)
           pads == Pads(job.input)
<1>1. PICK k \in 0 .. n : sp = 4 * k /\ Len(out) = 3 * k /\ Len(out) < size
  BY AtWork DEF InPlace, InPlaceAt
<1>2. PICK q \in Nat : n = 4 * q /\ size = 3 * q - pads
  BY AtWork, Sizes
<1>3. pads \in 0 .. 2 /\ Step = 4
  BY DEF Pads, Step
<1> HIDE DEF n, pads
<1>4. CASE Len(out) + 3 < size
  <2> DEFINE turn == b64_decode_loop(job.input, sp)
  <2>1. /\ sp + 4 \in Nat /\ sp + 4 <= n /\ sp + 4 = 4 * (k + 1) /\ k + 1 \in 0 .. n
        /\ Len(out) + 3 = 3 * (k + 1) /\ Len(out) + 3 <= size /\ Len(out) + 0 <= size
        /\ ~(Len(out) + 3 >= size)
    BY <1>1, <1>2, <1>3, <1>4
  <2>2. Turn = turn
    BY <1>4 DEF Turn
  <2>3. turn.ok \in BOOLEAN /\ turn.units \in Seq(Byte) /\ Len(turn.units) = IF turn.ok THEN 3 ELSE 0
    BY <2>1, AtWork, B64LoopTurn DEF n
  <2> HIDE DEF turn
  <2>4. InPlaceAt(sp + 4, Len(out) + 3)
    BY <1>4, <2>1 DEF InPlaceAt, n
  <2>5. CASE turn.ok
    BY <1>3, <2>1, <2>2, <2>3, <2>4, <2>5 DEF Advances, n
  <2>6. CASE ~turn.ok
    BY <2>1, <2>2, <2>3, <2>6 DEF Advances
  <2>7. QED
    BY <2>5, <2>6
<1>5. CASE ~(Len(out) + 3 < size)
  <2> DEFINE turn == b64_decode_last(job.input, sp)
  <2>1. q = k + 1
    BY <1>1, <1>2, <1>3, <1>5
  <2>2. /\ sp + 4 = n /\ sp + 4 \in Nat /\ sp + 4 <= n /\ Len(out) + 3 >= size
        /\ Len(out) + (3 - pads) = size
    BY <1>1, <1>2, <1>3, <1>5, <2>1
  <2>3. Turn = turn
    BY <1>5 DEF Turn
  <2>4. /\ turn.ok \in BOOLEAN /\ turn.units \in Seq(Byte)
        /\ Len(turn.units) <= 3 - pads
        /\ turn.ok => Len(turn.units) = 3 - pads
    BY <2>2, AtWork, B64LastTurn DEF n, pads
  <2> HIDE DEF turn
  <2>5. Len(turn.units) \in Nat
    BY <2>4, LenProperties
  <2>6. Len(out) + Len(turn.units) <= size /\ (turn.ok => Len(out) + Len(turn.units) = size)
    <3>1. \A a, b \in Nat, c \in 0 .. 2 : a + (3 - c) = size /\ b <= 3 - c => a + b <= size
      OBVIOUS
    <3>2. Len(out) \in Nat
      BY <1>1
    <3>3. QED
      BY <1>3, <2>2, <2>4, <2>5, <3>1, <3>2
  <2>7. QED
    BY <1>3, <2>2, <2>3, <2>4, <2>6 DEF Advances, n
<1>6. QED
  BY <1>4, <1>5

\* Every turn.
LEMMA TurnAdvances ==
  ASSUME CInv, phase = "work", ~AtEnd
  PROVE  Advances
<1>1. job.call \in {"hex_encode", "hex_decode", "base64_encode", "base64_decode"}
  BY AtWork, JobFacts
<1>2. QED
  BY <1>1, HexEncodeAdvances, HexDecodeAdvances, B64EncodeAdvances, B64DecodeAdvances

\* What was written stays, and what a turn writes follows it.
LEMMA Written ==
  ASSUME NEW s \in Seq(Byte), NEW u \in Seq(Byte)
  PROVE  s \o u \in Seq(Byte) /\ Len(s \o u) = Len(s) + Len(u)
  BY ConcatProperties

-----------------------------------------------------------------------------
(* The actions. *)

\* Nothing has been called.
LEMMA InitCInv == Init => CInv
<1> SUFFICES ASSUME Init PROVE CInv
  OBVIOUS
<1>1. out \in Seq(Byte) /\ sp \in Nat /\ size \in Int /\ phase = "idle"
  BY Bytes DEF Init
<1>2. QED
  BY <1>1 DEF Init, CInv, TypeOK, Phases

\* A call computes its size and looks at the room.
LEMMA CallCInv ==
  ASSUME CInv, NEW j \in Jobs, Call(j)
  PROVE  CInv'
<1>1. /\ phase = "idle" /\ job' = j /\ size' = SizeOf(j) /\ sp' = sp /\ out' = out
      /\ phase' = IF size' < 0 THEN "refused"
                  ELSE IF j.room = Query THEN "told"
                  ELSE IF j.room # Own /\ size' > j.room THEN "refused"
                  ELSE IF size' = 0 THEN "done" ELSE "work"
  BY DEF Call
<1>2. sp' = 0 /\ out' = <<>> /\ Len(out') = 0 /\ out' \in Seq(Byte)
  BY <1>1, Bytes DEF CInv
<1>3. size' \in Int
  BY <1>1, Sizes
<1>4. SizeOf(job)' = SizeOf(j)
  BY <1>1 DEF SizeOf
<1>5. phase' \in Phases \ {"idle"}
  BY <1>1 DEF Phases
<1>6. TypeOK'
  BY <1>1, <1>2, <1>3, <1>4, <1>5 DEF TypeOK
<1>7. Len(out') <= (IF size' < 0 THEN 0 ELSE size')
  BY <1>2, <1>3
<1>8. phase' = "done" => Len(out') = size'
  BY <1>1, <1>2, <1>3
<1>9. phase' = "work" =>
        /\ size' > 0 /\ sp' <= Len(job'.input) /\ InPlace'
        /\ job'.room \in Rooms => size' <= job'.room
  <2> SUFFICES ASSUME phase' = "work"
               PROVE  /\ size' > 0 /\ sp' <= Len(job'.input) /\ InPlace'
                      /\ job'.room \in Rooms => size' <= job'.room
    OBVIOUS
  <2>1. size' > 0 /\ (j.room = Own \/ ~(size' > j.room))
    BY <1>1, <1>3
  <2>2. job'.room \in Rooms => size' <= job'.room
    <3>1. j.room \in Rooms => j.room # Own /\ j.room \in Nat
      BY CodecsAssumption
    <3>2. QED
      BY <1>1, <1>3, <2>1, <3>1
  <2>3. Len(j.input) \in Nat /\ j.call \in {"hex_encode", "hex_decode", "base64_encode", "base64_decode"}
    BY JobFacts
  <2>4. 0 \in 0 .. Len(j.input)
    BY <2>3
  <2>5. InPlace'
    BY <1>1, <1>2, <2>1, <2>3, <2>4 DEF InPlace, InPlaceAt
  <2>6. QED
    BY <1>1, <1>2, <2>1, <2>2, <2>3, <2>5
<1>10. QED
  BY <1>2, <1>5, <1>6, <1>7, <1>8, <1>9 DEF CInv

\* A turn that goes on.
LEMMA WriteCInv ==
  ASSUME CInv, Write
  PROVE  CInv'
<1>1. /\ phase = "work" /\ ~AtEnd /\ Turn.ok
      /\ out' = out \o Turn.units /\ sp' = sp + Step /\ job' = job /\ size' = size
      /\ phase' = IF job.call = "base64_decode" /\ Len(out) + 3 >= size THEN "done" ELSE phase
  BY DEF Write
<1>2. Advances
  BY <1>1, TurnAdvances
<1>3. /\ Turn.units \in Seq(Byte)
      /\ Len(out) + Len(Turn.units) <= size
      /\ sp + Step \in Nat /\ sp + Step <= Len(job.input)
      /\ IF job.call = "base64_decode" /\ Len(out) + 3 >= size
         THEN Len(out) + Len(Turn.units) = size
         ELSE InPlaceAt(sp + Step, Len(out) + Len(Turn.units))
  BY <1>1, <1>2 DEF Advances
<1>4. job \in Jobs /\ size = SizeOf(job) /\ size \in Int /\ size > 0 /\ out \in Seq(Byte)
  BY <1>1, AtWork
<1>5. out' \in Seq(Byte) /\ Len(out') = Len(out) + Len(Turn.units)
  BY <1>1, <1>3, <1>4, Written
<1>6. job.room \in Rooms => size <= job.room
  BY <1>1 DEF CInv
<1>7. SizeOf(job)' = SizeOf(job)
  BY <1>1 DEF SizeOf
<1>8. phase' \in {"work", "done"}
  BY <1>1
<1>9. TypeOK'
  BY <1>1, <1>3, <1>4, <1>5, <1>7, <1>8 DEF TypeOK, Phases
<1>10. Len(out') <= (IF size' < 0 THEN 0 ELSE size')
  BY <1>1, <1>3, <1>4, <1>5
<1>11. phase' = "done" => Len(out') = size'
  BY <1>1, <1>3, <1>5
<1>12. phase' = "work" => InPlace'
  <2> SUFFICES ASSUME phase' = "work" PROVE InPlace'
    OBVIOUS
  <2>1. InPlaceAt(sp + Step, Len(out) + Len(Turn.units))
    BY <1>1, <1>3
  <2>2. InPlace' <=> InPlaceAt(sp', Len(out'))
    BY <1>1 DEF InPlace, InPlaceAt
  <2>3. QED
    BY <1>1, <1>5, <2>1, <2>2
<1>13. QED
  BY <1>1, <1>3, <1>4, <1>6, <1>8, <1>9, <1>10, <1>11, <1>12 DEF CInv

\* A turn that finds a character no encoding has.
LEMMA RefuseCInv ==
  ASSUME CInv, Refuse
  PROVE  CInv'
<1>1. /\ phase = "work" /\ ~AtEnd
      /\ out' = out \o Turn.units /\ sp' = sp /\ job' = job /\ size' = size
      /\ phase' = "refused"
  BY DEF Refuse
<1>2. Turn.units \in Seq(Byte) /\ Len(out) + Len(Turn.units) <= size
  BY <1>1, TurnAdvances DEF Advances
<1>3. job \in Jobs /\ size = SizeOf(job) /\ size \in Int /\ size > 0 /\ out \in Seq(Byte) /\ sp \in Nat
  BY <1>1, AtWork
<1>4. out' \in Seq(Byte) /\ Len(out') = Len(out) + Len(Turn.units)
  BY <1>1, <1>2, <1>3, Written
<1>5. job.room \in Rooms => size <= job.room
  BY <1>1 DEF CInv
<1>6. SizeOf(job)' = SizeOf(job)
  BY <1>1 DEF SizeOf
<1>7. TypeOK'
  BY <1>1, <1>3, <1>4, <1>6 DEF TypeOK, Phases
<1>8. Len(out') <= (IF size' < 0 THEN 0 ELSE size')
  BY <1>1, <1>2, <1>3, <1>4
<1>9. QED
  BY <1>1, <1>5, <1>7, <1>8 DEF CInv

\* The loop is through, and has filled what was computed.
LEMMA FinishCInv ==
  ASSUME CInv, Finish
  PROVE  CInv'
<1>1. /\ phase = "work" /\ AtEnd /\ phase' = "done"
      /\ out' = out /\ sp' = sp /\ job' = job /\ size' = size
  BY DEF Finish
<1>2. /\ job \in Jobs /\ size = SizeOf(job) /\ size \in Int /\ size > 0 /\ out \in Seq(Byte)
      /\ sp \in Nat /\ Len(job.input) \in Nat /\ Len(out) \in Nat /\ Len(out) <= size
  BY <1>1, AtWork
<1>3. PICK k \in 0 .. Len(job.input) :
        \/ job.call = "hex_encode" /\ sp = k /\ Len(out) = 2 * k
        \/ job.call = "hex_decode" /\ sp = 2 * k /\ Len(out) = k
        \/ job.call = "base64_encode" /\ sp = 3 * k /\ Len(out) = 4 * k
        \/ job.call = "base64_encode" /\ sp = Len(job.input) /\ Len(out) = size
        \/ job.call = "base64_decode" /\ sp = 4 * k /\ Len(out) = 3 * k /\ Len(out) < size
  BY <1>1, AtWork DEF InPlace, InPlaceAt
<1>4. IF job.call \in {"hex_encode", "base64_encode"} THEN sp >= Len(job.input) ELSE Len(out) >= size
  BY <1>1 DEF AtEnd
<1>5. Len(out) = size
  <2>1. CASE job.call = "hex_encode"
    <3>1. size = 2 * Len(job.input)
      BY <1>2, <2>1, Sizes
    <3>2. QED
      BY <1>2, <1>3, <1>4, <2>1, <3>1
  <2>2. CASE job.call = "base64_encode"
    <3>1. size = ((Len(job.input) + 2) \div 3) * 4
      BY <1>2, <2>2, Sizes
    <3>2. CASE sp = 3 * k /\ Len(out) = 4 * k
      <4> DEFINE n == Len(job.input)
      <4>1. 3 * k >= n /\ n \in Nat /\ Len(out) <= size
        BY <1>2, <1>4, <2>2, <3>2
      <4> HIDE DEF n
      <4>2. (n + 2) \div 3 <= k
        BY <4>1
      <4>3. (n + 2) \div 3 \in Int
        BY <4>1
      <4>4. size = ((n + 2) \div 3) * 4
        BY <3>1 DEF n
      <4>5. QED
        BY <3>2, <4>1, <4>2, <4>3, <4>4
    <3>3. QED
      BY <1>3, <2>2, <3>2
  <2>3. CASE job.call \notin {"hex_encode", "base64_encode"}
    BY <1>2, <1>4, <2>3
  <2>4. QED
    BY <2>1, <2>2, <2>3
<1>6. job.room \in Rooms => size <= job.room
  BY <1>1 DEF CInv
<1>7. SizeOf(job)' = SizeOf(job)
  BY <1>1 DEF SizeOf
<1>8. TypeOK'
  BY <1>1, <1>2, <1>7 DEF TypeOK, Phases
<1>9. QED
  BY <1>1, <1>2, <1>5, <1>6, <1>8 DEF CInv

\* The result is handed over.
LEMMA ReturnCInv ==
  ASSUME CInv, Return
  PROVE  CInv'
<1>1. phase' = "idle" /\ sp' = 0 /\ size' = 0 /\ out' = <<>>
  BY DEF Return
<1>2. out' \in Seq(Byte) /\ sp' \in Nat /\ size' \in Int
  BY <1>1, Bytes
<1>3. QED
  BY <1>1, <1>2 DEF CInv, TypeOK, Phases

\* Every step keeps the invariant.
LEMMA NextCInv == CInv /\ [Next]_vars => CInv'
<1> SUFFICES ASSUME CInv, [Next]_vars PROVE CInv'
  OBVIOUS
<1>1. ASSUME NEW j \in Jobs, Call(j) PROVE CInv'
  BY <1>1, CallCInv
<1>2. CASE Write
  BY <1>2, WriteCInv
<1>3. CASE Refuse
  BY <1>3, RefuseCInv
<1>4. CASE Finish
  BY <1>4, FinishCInv
<1>5. CASE Return
  BY <1>5, ReturnCInv
<1>6. CASE UNCHANGED vars
  <2>1. job' = job /\ phase' = phase /\ sp' = sp /\ size' = size /\ out' = out
    BY <1>6 DEF vars
  <2>2. SizeOf(job)' = SizeOf(job) /\ (InPlace' <=> InPlace)
    BY <2>1 DEF SizeOf, InPlace, InPlaceAt
  <2>3. TypeOK'
    BY <2>1, <2>2 DEF CInv, TypeOK
  <2>4. QED
    BY <2>1, <2>2, <2>3 DEF CInv
<1>7. QED
  BY <1>1, <1>2, <1>3, <1>4, <1>5, <1>6 DEF Next

-----------------------------------------------------------------------------
\* The sizes, the places of the loops and what has been written agree, for all
\* data, all texts and all rooms.
THEOREM CInvHolds == Spec => []CInv
<1>1. QED
  BY InitCInv, NextCInv, PTL DEF Spec

\* No codec writes past its result, whoever has allocated it (st_codecs_priv.h;
\* hex_decode and base64_decode into a buffer, st_codecs.h).
THEOREM RoomRespected == Spec => []StaysInRoom
<1>1. CInv => StaysInRoom
  <2> SUFFICES ASSUME CInv, phase # "idle" PROVE
          /\ Len(out) <= (IF size < 0 THEN 0 ELSE size)
          /\ job.room \in Rooms => Len(out) <= job.room
    BY DEF StaysInRoom
  <2>1. /\ Len(out) <= (IF size < 0 THEN 0 ELSE size)
        /\ job.room \in Rooms => Len(out) = 0 \/ size <= job.room
        /\ size \in Int /\ out \in Seq(Byte)
    BY DEF CInv, TypeOK
  <2>2. Len(out) \in Nat
    BY <2>1, LenProperties
  <2>3. job.room \in Rooms => job.room \in Nat
    BY CodecsAssumption
  <2>4. QED
    BY <2>1, <2>2, <2>3
<1>2. QED
  BY <1>1, CInvHolds, PTL

\* A call that ends well has written as much as its size function promised,
\* and the error of st_codecs.h:68 and 109 is never reported.
THEOREM RoomFilled == Spec => []FillsItsRoom
<1>1. CInv => FillsItsRoom
  BY DEF CInv, FillsItsRoom
<1>2. QED
  BY <1>1, CInvHolds, PTL

-----------------------------------------------------------------------------
(* What the characters are. *)

\* The tables of base64 are those of RFC 4648, and each other's inverse.
LEMMA Alphabet64Is ==
  /\ \A v \in 0 .. 63 : /\ b64_chars(v) = Alphabet64[v + 1]
                        /\ b64_values(b64_chars(v)) = v
                        /\ b64_chars(v) # Pad
  /\ \A c \in Byte : b64_values(c) >= 0 => b64_chars(b64_values(c)) = c
  /\ \A c \in Byte : b64_values(c) >= 0 <=> \E v \in 1 .. 64 : c = Alphabet64[v]
<1>1. \A v \in 1 .. 64 : Alphabet64[v] = IF v <= 26 THEN 64 + v
                                         ELSE IF v <= 52 THEN 70 + v
                                         ELSE IF v <= 62 THEN v - 5
                                         ELSE IF v = 63 THEN 43 ELSE 47
  BY DEF Alphabet64
<1>2. ASSUME NEW v \in 0 .. 63
      PROVE  /\ b64_chars(v) = Alphabet64[v + 1]
             /\ b64_values(b64_chars(v)) = v
             /\ b64_chars(v) # Pad
  <2>1. /\ v + 1 \in 1 .. 64
        /\ (v + 1 <= 26 <=> v < 26) /\ (v + 1 <= 52 <=> v < 52) /\ (v + 1 <= 62 <=> v < 62)
    OBVIOUS
  <2>2. b64_chars(v) = Alphabet64[v + 1]
    BY <1>1, <2>1 DEF b64_chars
  <2>3. b64_values(b64_chars(v)) = v /\ b64_chars(v) # Pad
    BY DEF b64_chars, b64_values, Pad
  <2>4. QED
    BY <2>2, <2>3
<1>3. ASSUME NEW c \in Byte, b64_values(c) >= 0
      PROVE  b64_chars(b64_values(c)) = c
  BY <1>3 DEF b64_chars, b64_values, Byte
<1>4. ASSUME NEW c \in Byte
      PROVE  b64_values(c) >= 0 <=> \E v \in 1 .. 64 : c = Alphabet64[v]
  <2>1. ASSUME b64_values(c) >= 0 PROVE \E v \in 1 .. 64 : c = Alphabet64[v]
    <3>1. PICK w \in 0 .. 63 : w = b64_values(c)
      BY <2>1, Tables
    <3>2. w + 1 \in 1 .. 64 /\ c = Alphabet64[w + 1]
      BY <1>2, <1>3, <2>1, <3>1
    <3>3. QED
      BY <3>2
  <2>2. ASSUME NEW v \in 1 .. 64, c = Alphabet64[v] PROVE b64_values(c) >= 0
    <3>1. v - 1 \in 0 .. 63 /\ (v - 1) + 1 = v
      OBVIOUS
    <3>2. b64_values(c) = v - 1
      BY <1>2, <2>2, <3>1
    <3>3. QED
      BY <3>1, <3>2
  <2>3. QED
    BY <2>1, <2>2
<1>5. QED
  BY <1>2, <1>3, <1>4

\* So are those of hexadecimal digits, but for the case of the letters.
LEMMA Alphabet16Is ==
  /\ \A v \in 0 .. 15 : hex_chars(v) = Alphabet16[v + 1]
  /\ \A c \in Byte : hex_values(c) >= 0 => hex_chars(hex_values(c)) = Lower(c)
  /\ \A c \in Byte : hex_values(c) >= 0 <=> \E v \in 1 .. 16 : Lower(c) = Alphabet16[v]
<1>1. ASSUME NEW v \in 0 .. 15 PROVE hex_chars(v) = Alphabet16[v + 1]
  <2>1. \/ v = 0 \/ v = 1 \/ v = 2 \/ v = 3 \/ v = 4 \/ v = 5 \/ v = 6 \/ v = 7
        \/ v = 8 \/ v = 9 \/ v = 10 \/ v = 11 \/ v = 12 \/ v = 13 \/ v = 14 \/ v = 15
    OBVIOUS
  <2>2. /\ Alphabet16[1] = 48 /\ Alphabet16[2] = 49 /\ Alphabet16[3] = 50 /\ Alphabet16[4] = 51
        /\ Alphabet16[5] = 52 /\ Alphabet16[6] = 53 /\ Alphabet16[7] = 54 /\ Alphabet16[8] = 55
        /\ Alphabet16[9] = 56 /\ Alphabet16[10] = 57 /\ Alphabet16[11] = 97 /\ Alphabet16[12] = 98
        /\ Alphabet16[13] = 99 /\ Alphabet16[14] = 100 /\ Alphabet16[15] = 101 /\ Alphabet16[16] = 102
    BY DEF Alphabet16
  <2>3. QED
    BY <2>1, <2>2 DEF hex_chars
<1>2. ASSUME NEW c \in Byte, hex_values(c) >= 0
      PROVE  hex_chars(hex_values(c)) = Lower(c)
  BY <1>2 DEF hex_chars, hex_values, Lower, Byte
<1>3. ASSUME NEW c \in Byte, NEW v \in 0 .. 15, Lower(c) = hex_chars(v)
      PROVE  hex_values(c) >= 0
  BY <1>3 DEF hex_chars, hex_values, Lower, Byte
<1>4. ASSUME NEW c \in Byte
      PROVE  hex_values(c) >= 0 <=> \E v \in 1 .. 16 : Lower(c) = Alphabet16[v]
  <2>1. ASSUME hex_values(c) >= 0 PROVE \E v \in 1 .. 16 : Lower(c) = Alphabet16[v]
    <3>1. PICK w \in 0 .. 15 : w = hex_values(c)
      BY <2>1, Tables
    <3>2. w + 1 \in 1 .. 16 /\ Lower(c) = Alphabet16[w + 1]
      BY <1>1, <1>2, <2>1, <3>1
    <3>3. QED
      BY <3>2
  <2>2. ASSUME NEW v \in 1 .. 16, Lower(c) = Alphabet16[v] PROVE hex_values(c) >= 0
    <3>1. PICK w \in 0 .. 15 : w + 1 = v
      <4>1. v - 1 \in 0 .. 15 /\ (v - 1) + 1 = v
        OBVIOUS
      <4>2. QED
        BY <4>1
    <3>2. Lower(c) = hex_chars(w)
      BY <1>1, <2>2, <3>1
    <3>3. QED
      BY <1>3, <3>2
  <2>3. QED
    BY <2>1, <2>2
<1>5. QED
  BY <1>1, <1>2, <1>4

\* The characters of a byte.
LEMMA Base16At ==
  ASSUME NEW d \in Seq(Byte), NEW p \in Nat, p < Len(d)
  PROVE  /\ Base16(d)[2 * p + 1] = hex_chars(d[p + 1] \div 16)
         /\ Base16(d)[2 * p + 2] = hex_chars(d[p + 1] % 16)
<1> DEFINE n == Len(d)
<1>1. n \in Nat
  BY LenProperties
<1>2. /\ 2 * p + 1 \in 1 .. 2 * n /\ 2 * p + 2 \in 1 .. 2 * n
      /\ ((2 * p + 1) - 1) \div 2 = p /\ ((2 * p + 2) - 1) \div 2 = p
      /\ (2 * p + 1) % 2 = 1 /\ (2 * p + 2) % 2 # 1
  <2> HIDE DEF n
  <2>1. p < n
    BY DEF n
  <2>2. QED
    BY <1>1, <2>1
<1>3. /\ Base16(d)[2 * p + 1] = Alphabet16[d[p + 1] \div 16 + 1]
      /\ Base16(d)[2 * p + 2] = Alphabet16[(d[p + 1] % 16) + 1]
  BY <1>2 DEF Base16
<1>4. d[p + 1] \div 16 \in 0 .. 15 /\ d[p + 1] % 16 \in 0 .. 15
  BY CharAt, Cuts
<1>5. QED
  BY <1>3, <1>4, Alphabet16Is

-----------------------------------------------------------------------------
(* The groups of base64. *)

\* The digits of the 24 bits of three bytes.
LEMMA DigitsOf24 ==
  ASSUME NEW a \in Byte, NEW b \in Byte, NEW c \in Byte
  PROVE  LET n == a * 256 * 256 + b * 256 + c
         IN  /\ (n \div (64 * 64 * 64)) % 64 = a \div 4
             /\ (n \div (64 * 64)) % 64 = (a % 4) * 16 + b \div 16
             /\ (n \div 64) % 64 = (b % 16) * 4 + c \div 64
             /\ (n \div 1) % 64 = c % 64
<1>1. PICK a1 \in 0 .. 63, a2 \in 0 .. 3 : a1 = a \div 4 /\ a2 = a % 4 /\ a = 4 * a1 + a2
  BY Cuts DEF Byte
<1>2. PICK b1 \in 0 .. 15, b2 \in 0 .. 15 : b1 = b \div 16 /\ b2 = b % 16 /\ b = 16 * b1 + b2
  BY Cuts DEF Byte
<1>3. PICK c1 \in 0 .. 3, c2 \in 0 .. 63 : c1 = c \div 64 /\ c2 = c % 64 /\ c = 64 * c1 + c2
  BY Cuts DEF Byte
<1>4. PICK n \in Nat : n = a * 256 * 256 + b * 256 + c
  BY DEF Byte
<1>5. PICK y \in 0 .. 63, z \in 0 .. 63 : y = a2 * 16 + b1 /\ z = b2 * 4 + c1
  <2>1. a2 * 16 + b1 \in 0 .. 63 /\ b2 * 4 + c1 \in 0 .. 63
    OBVIOUS
  <2>2. QED
    BY <2>1
<1>6. n = a1 * (64 * 64 * 64) + y * (64 * 64) + z * 64 + c2
  BY <1>1, <1>2, <1>3, <1>4, <1>5
<1>7. /\ n \div (64 * 64 * 64) = a1
      /\ n \div (64 * 64) = a1 * 64 + y
      /\ n \div 64 = (a1 * 64 + y) * 64 + z
      /\ (n \div 1) % 64 = c2
  <2>1. n \div (64 * 64 * 64) = a1
    BY ONLY SMTT(30), <1>6, a1 \in 0 .. 63, y \in 0 .. 63, z \in 0 .. 63, c2 \in 0 .. 63
  <2>2. n \div (64 * 64) = a1 * 64 + y
    BY ONLY SMTT(30), <1>6, a1 \in 0 .. 63, y \in 0 .. 63, z \in 0 .. 63, c2 \in 0 .. 63
  <2>3. n \div 64 = (a1 * 64 + y) * 64 + z
    BY ONLY SMTT(30), <1>6, a1 \in 0 .. 63, y \in 0 .. 63, z \in 0 .. 63, c2 \in 0 .. 63
  <2>4. (n \div 1) % 64 = c2
    BY ONLY SMTT(30), <1>6, a1 \in 0 .. 63, y \in 0 .. 63, z \in 0 .. 63, c2 \in 0 .. 63
  <2>5. QED
    BY <2>1, <2>2, <2>3, <2>4
<1>8. a1 % 64 = a1 /\ (a1 * 64 + y) % 64 = y /\ ((a1 * 64 + y) * 64 + z) % 64 = z
  BY ONLY SMTT(30), a1 \in 0 .. 63, y \in 0 .. 63, z \in 0 .. 63
<1>9. QED
  BY <1>1, <1>2, <1>3, <1>4, <1>5, <1>7, <1>8

\* A group is four characters, made as the code makes them.
LEMMA Base64At ==
  ASSUME NEW d \in Seq(Byte), NEW g \in Nat, 3 * g < Len(d)
  PROVE  LET a == ByteAt(d, 3 * g)
             b == ByteAt(d, 3 * g + 1)
             c == ByteAt(d, 3 * g + 2)
         IN  /\ a \in Byte /\ b \in Byte /\ c \in Byte
             /\ Base64(d)[4 * g + 1] = b64_chars(a \div 4)
             /\ Base64(d)[4 * g + 2] = b64_chars((a % 4) * 16 + b \div 16)
             /\ Base64(d)[4 * g + 3] = IF 3 * g + 1 < Len(d) THEN b64_chars((b % 16) * 4 + c \div 64) ELSE Pad
             /\ Base64(d)[4 * g + 4] = IF 3 * g + 2 < Len(d) THEN b64_chars(c % 64) ELSE Pad
<1> DEFINE n == Len(d)
           a == ByteAt(d, 3 * g)
           b == ByteAt(d, 3 * g + 1)
           c == ByteAt(d, 3 * g + 2)
<1>1. n \in Nat
  BY LenProperties
<1>2. \A i \in Nat : ByteAt(d, i) \in Byte
  <2>1. 0 \in Byte
    BY DEF Byte
  <2>2. QED
    BY <2>1, CharAt DEF ByteAt
<1>3. a \in Byte /\ b \in Byte /\ c \in Byte
  BY <1>2
<1>4. \A j \in 0 .. 3 :
        /\ (4 * g + j) \div 4 = g /\ (4 * g + j) % 4 = j
        /\ 4 * g + (j + 1) \in 1 .. 4 * ((n + 2) \div 3)
        /\ (4 * g + (j + 1)) - 1 = 4 * g + j
  <2> HIDE DEF n
  <2>1. 3 * g < n
    BY DEF n
  <2>2. QED
    BY <1>1, <2>1
<1>5. Group(d, g) = a * 256 * 256 + b * 256 + c
  BY DEF Group
<1> DEFINE N == a * 256 * 256 + b * 256 + c
<1>6. /\ (N \div (64 * 64 * 64)) % 64 = a \div 4
      /\ (N \div (64 * 64)) % 64 = (a % 4) * 16 + b \div 16
      /\ (N \div 64) % 64 = (b % 16) * 4 + c \div 64
      /\ (N \div 1) % 64 = c % 64
  <2> HIDE DEF a, b, c
  <2>1. QED
    BY <1>3, DigitsOf24
<1>7. \A j \in 0 .. 3 : Digit(d, 4 * g + j) = (Group(d, g) \div <<64 * 64 * 64, 64 * 64, 64, 1>>[j + 1]) % 64
  BY <1>4 DEF Digit
<1>8. \A j \in 0 .. 3 :
        Base64(d)[4 * g + (j + 1)] =
          IF 6 * (4 * g + j) < 8 * n THEN Alphabet64[Digit(d, 4 * g + j) + 1] ELSE Pad
  BY <1>4 DEF Base64
<1>9. /\ 6 * (4 * g + 0) < 8 * n
      /\ 6 * (4 * g + 1) < 8 * n
      /\ 6 * (4 * g + 2) < 8 * n <=> 3 * g + 1 < n
      /\ 6 * (4 * g + 3) < 8 * n <=> 3 * g + 2 < n
  <2> HIDE DEF n
  <2>1. 3 * g < n
    BY DEF n
  <2>2. QED
    BY <1>1, <2>1
<1>10. /\ Digit(d, 4 * g + 0) = a \div 4
       /\ Digit(d, 4 * g + 1) = (a % 4) * 16 + b \div 16
       /\ Digit(d, 4 * g + 2) = (b % 16) * 4 + c \div 64
       /\ Digit(d, 4 * g + 3) = c % 64
  <2>1. /\ <<64 * 64 * 64, 64 * 64, 64, 1>>[0 + 1] = 64 * 64 * 64
        /\ <<64 * 64 * 64, 64 * 64, 64, 1>>[1 + 1] = 64 * 64
        /\ <<64 * 64 * 64, 64 * 64, 64, 1>>[2 + 1] = 64
        /\ <<64 * 64 * 64, 64 * 64, 64, 1>>[3 + 1] = 1
    OBVIOUS
  <2>2. 0 \in 0 .. 3 /\ 1 \in 0 .. 3 /\ 2 \in 0 .. 3 /\ 3 \in 0 .. 3
    OBVIOUS
  <2> HIDE DEF a, b, c
  <2>3. QED
    BY <1>5, <1>6, <1>7, <2>1, <2>2
<1>11. /\ a \div 4 \in 0 .. 63 /\ (a % 4) * 16 + b \div 16 \in 0 .. 63
       /\ (b % 16) * 4 + c \div 64 \in 0 .. 63 /\ c % 64 \in 0 .. 63
  <2> HIDE DEF a, b, c
  <2>1. PICK a2 \in 0 .. 3, b1 \in 0 .. 15, b2 \in 0 .. 15, c1 \in 0 .. 3 :
          a2 = a % 4 /\ b1 = b \div 16 /\ b2 = b % 16 /\ c1 = c \div 64
    BY <1>3, Cuts
  <2>2. a2 * 16 + b1 \in 0 .. 63 /\ b2 * 4 + c1 \in 0 .. 63
    OBVIOUS
  <2>3. QED
    BY <1>3, <2>1, <2>2, Cuts
<1>12. /\ Base64(d)[4 * g + 1] = b64_chars(a \div 4)
       /\ Base64(d)[4 * g + 2] = b64_chars((a % 4) * 16 + b \div 16)
       /\ Base64(d)[4 * g + 3] = IF 3 * g + 1 < n THEN b64_chars((b % 16) * 4 + c \div 64) ELSE Pad
       /\ Base64(d)[4 * g + 4] = IF 3 * g + 2 < n THEN b64_chars(c % 64) ELSE Pad
  <2>1. /\ Base64(d)[4 * g + (0 + 1)] = IF 6 * (4 * g + 0) < 8 * n THEN Alphabet64[Digit(d, 4 * g + 0) + 1] ELSE Pad
        /\ Base64(d)[4 * g + (1 + 1)] = IF 6 * (4 * g + 1) < 8 * n THEN Alphabet64[Digit(d, 4 * g + 1) + 1] ELSE Pad
        /\ Base64(d)[4 * g + (2 + 1)] = IF 6 * (4 * g + 2) < 8 * n THEN Alphabet64[Digit(d, 4 * g + 2) + 1] ELSE Pad
        /\ Base64(d)[4 * g + (3 + 1)] = IF 6 * (4 * g + 3) < 8 * n THEN Alphabet64[Digit(d, 4 * g + 3) + 1] ELSE Pad
    BY <1>8
  <2>2. /\ Alphabet64[a \div 4 + 1] = b64_chars(a \div 4)
        /\ Alphabet64[((a % 4) * 16 + b \div 16) + 1] = b64_chars((a % 4) * 16 + b \div 16)
        /\ Alphabet64[((b % 16) * 4 + c \div 64) + 1] = b64_chars((b % 16) * 4 + c \div 64)
        /\ Alphabet64[(c % 64) + 1] = b64_chars(c % 64)
    BY <1>11, Alphabet64Is
  <2>3. 0 + 1 = 1 /\ 1 + 1 = 2 /\ 2 + 1 = 3 /\ 3 + 1 = 4
    OBVIOUS
  <2> HIDE DEF a, b, c, n
  <2>4. QED
    BY <1>9, <1>10, <2>1, <2>2, <2>3
<1>13. QED
  BY <1>3, <1>12

-----------------------------------------------------------------------------
(* What a turn writes, and what stops it. *)

\* What stands where in two texts put together.
LEMMA Together ==
  ASSUME NEW s \in Seq(Byte), NEW u \in Seq(Byte)
  PROVE  /\ Len(s) \in Nat /\ Len(u) \in Nat /\ Len(s \o u) = Len(s) + Len(u)
         /\ \A i \in 1 .. Len(s) : (s \o u)[i] = s[i]
         /\ \A i \in 1 .. Len(u) : (s \o u)[Len(s) + i] = u[i]
         /\ \A i \in 1 .. Len(s \o u) :
              i \in 1 .. Len(s) \/ \E j \in 1 .. Len(u) : i = Len(s) + j
<1>1. Len(s) \in Nat /\ Len(u) \in Nat /\ Len(s \o u) = Len(s) + Len(u)
  BY ConcatProperties, LenProperties
<1>2. \A i \in 1 .. Len(s) + Len(u) :
        (s \o u)[i] = IF i <= Len(s) THEN s[i] ELSE u[i - Len(s)]
  BY ConcatProperties
<1>3. ASSUME NEW i \in 1 .. Len(s) PROVE (s \o u)[i] = s[i]
  <2>1. i \in 1 .. Len(s) + Len(u) /\ i <= Len(s)
    BY <1>1
  <2>2. QED
    BY <1>2, <2>1
<1>4. ASSUME NEW i \in 1 .. Len(u) PROVE (s \o u)[Len(s) + i] = u[i]
  <2>1. Len(s) + i \in 1 .. Len(s) + Len(u) /\ ~(Len(s) + i <= Len(s)) /\ (Len(s) + i) - Len(s) = i
    BY <1>1
  <2>2. QED
    BY <1>2, <2>1
<1>5. ASSUME NEW i \in 1 .. Len(s) + Len(u)
      PROVE  i \in 1 .. Len(s) \/ \E j \in 1 .. Len(u) : i = Len(s) + j
  <2>1. i > Len(s) => i - Len(s) \in 1 .. Len(u) /\ i = Len(s) + (i - Len(s))
    BY <1>1
  <2>2. ~(i > Len(s)) => i \in 1 .. Len(s)
    BY <1>1
  <2>3. QED
    BY <2>1, <2>2
<1>6. QED
  BY <1>1, <1>3, <1>4, <1>5

\* What base64_encode writes for a group.
LEMMA B64EncodeIs ==
  ASSUME NEW d \in Seq(Byte), NEW g \in Nat, 3 * g < Len(d)
  PROVE  LET u == b64_encode(d, 3 * g).units
         IN  /\ u[1] = Base64(d)[4 * g + 1] /\ u[2] = Base64(d)[4 * g + 2]
             /\ u[3] = Base64(d)[4 * g + 3] /\ u[4] = Base64(d)[4 * g + 4]
<1> DEFINE n == Len(d)
           a == ByteAt(d, 3 * g)
           b == ByteAt(d, 3 * g + 1)
           c == ByteAt(d, 3 * g + 2)
           left == n - 3 * g
           e == b64_encode(d, 3 * g)
           one == b64_chars(a \div 4)
           two == b64_chars((a % 4) * 16 + b \div 16)
           three == b64_chars((b % 16) * 4 + c \div 64)
           four == b64_chars(c % 64)
<1>1. n \in Nat
  BY LenProperties
<1>2. /\ Base64(d)[4 * g + 1] = one
      /\ Base64(d)[4 * g + 2] = two
      /\ Base64(d)[4 * g + 3] = IF 3 * g + 1 < n THEN three ELSE Pad
      /\ Base64(d)[4 * g + 4] = IF 3 * g + 2 < n THEN four ELSE Pad
  BY Base64At
<1>3. /\ left > 2 <=> 3 * g + 2 < n
      /\ left > 1 <=> 3 * g + 1 < n
      /\ left = 2 <=> (3 * g + 1 < n /\ ~(3 * g + 2 < n))
      /\ left > 2 => left > 1
      /\ left = 2 => left > 1
  <2> HIDE DEF n
  <2>1. QED
    BY <1>1
<1>4. /\ a = d[3 * g + 1]
      /\ left > 1 => b = d[3 * g + 2]
      /\ left > 2 => c = d[3 * g + 3]
      /\ ~(left > 1) => b = 0
      /\ ~(left > 2) => c = 0
  <2>1. (3 * g + 1) + 1 = 3 * g + 2 /\ (3 * g + 2) + 1 = 3 * g + 3
    OBVIOUS
  <2>2. /\ a = d[3 * g + 1]
        /\ b = IF 3 * g + 1 < n THEN d[3 * g + 2] ELSE 0
        /\ c = IF 3 * g + 2 < n THEN d[3 * g + 3] ELSE 0
    BY <2>1 DEF ByteAt
  <2> HIDE DEF a, b, c, n, left
  <2>3. QED
    BY <1>3, <2>2
<1>5. 0 \div 16 = 0 /\ 0 \div 64 = 0
  OBVIOUS
<1>6. e = IF left > 2
          THEN Go(<<b64_chars(d[3 * g + 1] \div 4),
                    b64_chars((d[3 * g + 1] % 4) * 16 + IF left > 1 THEN d[3 * g + 2] \div 16 ELSE 0),
                    b64_chars((d[3 * g + 2] % 16) * 4 + IF left > 2 THEN d[3 * g + 3] \div 64 ELSE 0),
                    b64_chars(d[3 * g + 3] % 64)>>)
          ELSE IF left = 2
          THEN Go(<<b64_chars(d[3 * g + 1] \div 4),
                    b64_chars((d[3 * g + 1] % 4) * 16 + IF left > 1 THEN d[3 * g + 2] \div 16 ELSE 0),
                    b64_chars((d[3 * g + 2] % 16) * 4 + IF left > 2 THEN d[3 * g + 3] \div 64 ELSE 0), Pad>>)
          ELSE Go(<<b64_chars(d[3 * g + 1] \div 4),
                    b64_chars((d[3 * g + 1] % 4) * 16 + IF left > 1 THEN d[3 * g + 2] \div 16 ELSE 0),
                    Pad, Pad>>)
  BY DEF b64_encode
<1> HIDE DEF left, a, b, c, e
<1>7. e = IF left > 2 THEN Go(<<one, two, three, four>>)
          ELSE IF left = 2 THEN Go(<<one, two, three, Pad>>)
          ELSE Go(<<one, two, Pad, Pad>>)
  <2>1. CASE left > 2
    <3>1. e = Go(<<b64_chars(d[3 * g + 1] \div 4),
                   b64_chars((d[3 * g + 1] % 4) * 16 + d[3 * g + 2] \div 16),
                   b64_chars((d[3 * g + 2] % 16) * 4 + d[3 * g + 3] \div 64),
                   b64_chars(d[3 * g + 3] % 64)>>)
      BY <1>3, <1>6, <2>1
    <3>2. QED
      BY <1>3, <1>4, <2>1, <3>1
  <2>2. CASE left = 2
    <3>1. ~(left > 2) /\ left > 1
      BY <1>3, <2>2
    <3>2. e = Go(<<b64_chars(d[3 * g + 1] \div 4),
                   b64_chars((d[3 * g + 1] % 4) * 16 + d[3 * g + 2] \div 16),
                   b64_chars((d[3 * g + 2] % 16) * 4 + 0), Pad>>)
      BY <1>6, <2>2, <3>1
    <3>3. QED
      BY <1>4, <1>5, <2>2, <3>1, <3>2
  <2>3. CASE ~(left > 2) /\ left # 2
    <3>1. ~(left > 1)
      BY <1>3, <2>3
    <3>2. e = Go(<<b64_chars(d[3 * g + 1] \div 4), b64_chars((d[3 * g + 1] % 4) * 16 + 0), Pad, Pad>>)
      BY <1>6, <2>3, <3>1
    <3>3. QED
      BY <1>4, <1>5, <2>3, <3>1, <3>2
  <2>4. QED
    BY <2>1, <2>2, <2>3
<1> HIDE DEF one, two, three, four
<1>8. e.units = IF left > 2 THEN <<one, two, three, four>>
                ELSE IF left = 2 THEN <<one, two, three, Pad>>
                ELSE <<one, two, Pad, Pad>>
  BY <1>7 DEF Go
<1>9. /\ e.units[1] = one /\ e.units[2] = two
      /\ e.units[3] = IF left > 2 \/ left = 2 THEN three ELSE Pad
      /\ e.units[4] = IF left > 2 THEN four ELSE Pad
  BY <1>8
<1>10. QED
  BY <1>2, <1>3, <1>9 DEF e

\* The values of the characters of a group.
LEMMA DecodesGroup ==
  ASSUME NEW d \in Seq(Byte), NEW g \in Nat, 3 * g < Len(d)
  PROVE  LET v == Values(Base64(d), 4 * g)
         IN  /\ First(v) = d[3 * g + 1]
             /\ 3 * g + 1 < Len(d) => Second(v) = d[3 * g + 2]
             /\ 3 * g + 2 < Len(d) => Third(v) = d[3 * g + 3]
             /\ Base64(d)[4 * g + 3] = Pad <=> ~(3 * g + 1 < Len(d))
             /\ Base64(d)[4 * g + 4] = Pad <=> ~(3 * g + 2 < Len(d))
<1> DEFINE n == Len(d)
           a == ByteAt(d, 3 * g)
           b == ByteAt(d, 3 * g + 1)
           c == ByteAt(d, 3 * g + 2)
           t == Base64(d)
           v == Values(t, 4 * g)
<1>1. a \in Byte /\ b \in Byte /\ c \in Byte
  BY Base64At
<1>2. /\ t[4 * g + 1] = b64_chars(a \div 4)
      /\ t[4 * g + 2] = b64_chars((a % 4) * 16 + b \div 16)
      /\ t[4 * g + 3] = IF 3 * g + 1 < n THEN b64_chars((b % 16) * 4 + c \div 64) ELSE Pad
      /\ t[4 * g + 4] = IF 3 * g + 2 < n THEN b64_chars(c % 64) ELSE Pad
  BY Base64At
<1>3. v[1] = b64_values(t[4 * g + 1]) /\ v[2] = b64_values(t[4 * g + 2])
      /\ v[3] = b64_values(t[4 * g + 3]) /\ v[4] = b64_values(t[4 * g + 4])
  BY DEF Values
<1>4. /\ a = d[3 * g + 1]
      /\ 3 * g + 1 < n => b = d[3 * g + 2]
      /\ 3 * g + 2 < n => c = d[3 * g + 3]
  <2>1. (3 * g + 1) + 1 = 3 * g + 2 /\ (3 * g + 2) + 1 = 3 * g + 3
    OBVIOUS
  <2>2. QED
    BY <2>1 DEF ByteAt
<1>5. First(v) = v[1] * 4 + v[2] \div 16 /\ Second(v) = (v[2] % 16) * 16 + v[3] \div 4
      /\ Third(v) = (v[3] % 4) * 64 + v[4]
  BY DEF First, Second, Third
<1> HIDE DEF n, a, b, c, t, v
<1>6. PICK a1 \in 0 .. 63, a2 \in 0 .. 3 : a1 = a \div 4 /\ a2 = a % 4 /\ a = 4 * a1 + a2
  BY <1>1, Cuts DEF Byte
<1>7. PICK b1 \in 0 .. 15, b2 \in 0 .. 15 : b1 = b \div 16 /\ b2 = b % 16 /\ b = 16 * b1 + b2
  BY <1>1, Cuts DEF Byte
<1>8. PICK c1 \in 0 .. 3, c2 \in 0 .. 63 : c1 = c \div 64 /\ c2 = c % 64 /\ c = 64 * c1 + c2
  BY <1>1, Cuts DEF Byte
<1>9. PICK y \in 0 .. 63, z \in 0 .. 63 : y = a2 * 16 + b1 /\ z = b2 * 4 + c1
  <2>1. a2 * 16 + b1 \in 0 .. 63 /\ b2 * 4 + c1 \in 0 .. 63
    OBVIOUS
  <2>2. QED
    BY <2>1
<1>10. /\ t[4 * g + 1] = b64_chars(a1)
       /\ t[4 * g + 2] = b64_chars(y)
       /\ t[4 * g + 3] = IF 3 * g + 1 < n THEN b64_chars(z) ELSE Pad
       /\ t[4 * g + 4] = IF 3 * g + 2 < n THEN b64_chars(c2) ELSE Pad
  BY <1>2, <1>6, <1>7, <1>8, <1>9
<1>11. /\ v[1] = a1 /\ v[2] = y
       /\ 3 * g + 1 < n => v[3] = z
       /\ 3 * g + 2 < n => v[4] = c2
  BY <1>3, <1>10, Alphabet64Is
<1>12. /\ a1 * 4 + y \div 16 = a
       /\ (y % 16) * 16 + z \div 4 = b
       /\ (z % 4) * 64 + c2 = c
  <2>1. y \div 16 = a2 /\ y % 16 = b1 /\ z \div 4 = b2 /\ z % 4 = c1
    BY <1>9
  <2>2. QED
    BY <1>6, <1>7, <1>8, <2>1
<1>13. 3 * g + 2 < n => 3 * g + 1 < n
  <2>1. n \in Nat
    BY LenProperties DEF n
  <2>2. QED
    BY <2>1
<1>14. First(v) = a /\ (3 * g + 1 < n => Second(v) = b) /\ (3 * g + 2 < n => Third(v) = c)
  BY <1>5, <1>11, <1>12, <1>13
<1>15. /\ t[4 * g + 3] = Pad <=> ~(3 * g + 1 < n)
       /\ t[4 * g + 4] = Pad <=> ~(3 * g + 2 < n)
  BY <1>10, Alphabet64Is
<1>16. QED
  BY <1>4, <1>14, <1>15 DEF n, t, v

\* How long what base64_encode writes is.
LEMMA Base64Size ==
  ASSUME NEW d \in Seq(Byte)
  PROVE  /\ Len(Base64(d)) = 4 * ((Len(d) + 2) \div 3)
         /\ b64_decode_size(Base64(d)) = Len(d)
<1> DEFINE n == Len(d)
           q == (n + 2) \div 3
           t == Base64(d)
<1>1. n \in Nat /\ q \in Nat /\ 4 * q \in Nat
  <2>1. n \in Nat
    BY LenProperties
  <2> HIDE DEF n
  <2>2. QED
    BY <2>1
<1>2. Len(t) = 4 * q
  <2>1. DOMAIN t = 1 .. 4 * q
    BY DEF Base64
  <2> HIDE DEF t, q
  <2>2. QED
    BY <1>1, <2>1
<1>3. (4 * q) % 4 = 0 /\ (4 * q) \div 4 = q
  <2> HIDE DEF q
  <2>1. QED
    BY <1>1
<1>4. b64_decode_size(t) = (q * 3 - (IF Padded(t, 1) THEN 1 ELSE 0)) - (IF Padded(t, 2) THEN 1 ELSE 0)
  BY <1>2, <1>3 DEF b64_decode_size
<1>5. CASE n = 0
  <2>1. q = 0
    BY <1>5
  <2>2. ~Padded(t, 1) /\ ~Padded(t, 2)
    BY <1>2, <2>1 DEF Padded
  <2> HIDE DEF n, q, t
  <2>3. (IF Padded(t, 1) THEN 1 ELSE 0) = 0 /\ (IF Padded(t, 2) THEN 1 ELSE 0) = 0
    BY <2>2
  <2>4. b64_decode_size(t) = (q * 3 - 0) - 0
    BY <1>4, <2>3
  <2>5. (q * 3 - 0) - 0 = n
    BY <1>5, <2>1
  <2>6. QED
    BY <1>2, <2>4, <2>5 DEF n, t, q
<1>6. CASE n # 0
  <2> DEFINE g == q - 1
  <2>1. g \in Nat /\ 3 * g < n /\ n <= 3 * g + 3 /\ q = g + 1
    <3> HIDE DEF n
    <3>1. QED
      BY <1>1, <1>6
  <2> HIDE DEF g, q
  <2>2. /\ t[4 * g + 3] = Pad <=> ~(3 * g + 1 < n)
        /\ t[4 * g + 4] = Pad <=> ~(3 * g + 2 < n)
    BY <2>1, DecodesGroup
  <2>3. Len(t) >= 1 /\ Len(t) >= 2 /\ Len(t) - 1 + 1 = 4 * g + 4 /\ Len(t) - 2 + 1 = 4 * g + 3
    BY <1>2, <2>1
  <2>4. (Padded(t, 1) <=> ~(3 * g + 2 < n)) /\ (Padded(t, 2) <=> ~(3 * g + 1 < n))
    BY <2>2, <2>3 DEF Padded
  <2> HIDE DEF n, t
  <2>5. (q * 3 - (IF Padded(t, 1) THEN 1 ELSE 0)) - (IF Padded(t, 2) THEN 1 ELSE 0) = n
    BY <1>1, <2>1, <2>4
  <2>6. QED
    BY <1>2, <1>4, <2>5 DEF n, t, q
<1>7. QED
  BY <1>5, <1>6

\* Which texts are well formed, by the values of their characters.
LEMMA WellFormed64Is ==
  ASSUME NEW t \in Seq(Byte)
  PROVE  WellFormed64(t) <=>
           /\ Len(t) % 4 = 0
           /\ \A k \in 1 .. Len(t) : b64_values(t[k]) >= 0 \/ (t[k] = Pad /\ k > Len(t) - 2)
           /\ Len(t) > 0 /\ t[Len(t) - 1] = Pad => t[Len(t)] = Pad
<1> DEFINE n == Len(t)
           In64(k) == \E v \in 1 .. 64 : t[k] = Alphabet64[v]
<1>1. n \in Nat
  BY LenProperties
<1>2. \A k \in 1 .. n : t[k] \in Byte
  BY ElementOfSeq
<1>3. \A k \in 1 .. n : b64_values(t[k]) >= 0 <=> In64(k)
  BY <1>2, Alphabet64Is
<1>4. \A k \in 1 .. n : t[k] = Pad => ~(b64_values(t[k]) >= 0)
  <2>1. ~(-1 >= 0)
    OBVIOUS
  <2>2. QED
    BY <2>1, Tables
<1>5. WellFormed64(t) <=>
        /\ n % 4 = 0
        /\ \E pads \in 0 .. 2 :
             /\ pads <= n
             /\ \A k \in 1 .. n - pads : In64(k)
             /\ \A k \in n - pads + 1 .. n : t[k] = Pad
  BY DEF WellFormed64
<1> HIDE DEF n, In64
<1>6. ASSUME n % 4 = 0, NEW pads \in 0 .. 2, pads <= n,
             \A k \in 1 .. n - pads : In64(k), \A k \in n - pads + 1 .. n : t[k] = Pad
      PROVE  /\ \A k \in 1 .. n : b64_values(t[k]) >= 0 \/ (t[k] = Pad /\ k > n - 2)
             /\ n > 0 /\ t[n - 1] = Pad => t[n] = Pad
  <2>1. ASSUME NEW k \in 1 .. n
        PROVE  b64_values(t[k]) >= 0 \/ (t[k] = Pad /\ k > n - 2)
    <3>1. CASE k <= n - pads
      <4>1. k \in 1 .. n - pads
        BY <1>1, <3>1
      <4>2. QED
        BY <1>3, <1>6, <4>1
    <3>2. CASE ~(k <= n - pads)
      <4>1. k \in n - pads + 1 .. n /\ k > n - 2
        BY <1>1, <3>2
      <4>2. QED
        BY <1>6, <4>1
    <3>3. QED
      BY <3>1, <3>2
  <2>2. ASSUME n > 0, t[n - 1] = Pad PROVE t[n] = Pad
    <3>1. n >= 4 /\ n - 1 \in 1 .. n
      BY <1>1, <1>6, <2>2
    <3>2. ~(n - 1 \in 1 .. n - pads)
      BY <1>3, <1>4, <1>6, <2>2, <3>1
    <3>3. n \in n - pads + 1 .. n
      BY <1>1, <3>1, <3>2
    <3>4. QED
      BY <1>6, <3>3
  <2>3. QED
    BY <2>1, <2>2
<1>7. ASSUME n % 4 = 0,
             \A k \in 1 .. n : b64_values(t[k]) >= 0 \/ (t[k] = Pad /\ k > n - 2),
             n > 0 /\ t[n - 1] = Pad => t[n] = Pad
      PROVE  \E pads \in 0 .. 2 :
               /\ pads <= n
               /\ \A k \in 1 .. n - pads : In64(k)
               /\ \A k \in n - pads + 1 .. n : t[k] = Pad
  <2> DEFINE pads == IF n = 0 \/ t[n] # Pad THEN 0 ELSE IF t[n - 1] # Pad THEN 1 ELSE 2
  <2>1. pads \in 0 .. 2 /\ pads <= n
    BY <1>1, <1>7
  <2>2. ASSUME NEW k \in 1 .. n - pads PROVE In64(k)
    <3>1. k \in 1 .. n
      BY <1>1, <2>1
    <3>2. ~(t[k] = Pad /\ k > n - 2)
      <4> SUFFICES ASSUME t[k] = Pad, k > n - 2 PROVE FALSE
        OBVIOUS
      <4>1. k = n \/ k = n - 1
        BY <1>1, <3>1
      <4>2. CASE k = n
        <5>1. t[n] = Pad /\ n # 0
          BY <1>1, <3>1, <4>2
        <5>2. pads > 0
          BY <5>1
        <5>3. QED
          BY <1>1, <2>1, <4>2, <5>2
      <4>3. CASE k = n - 1
        <5>1. t[n - 1] = Pad /\ n > 0
          BY <1>1, <3>1, <4>3
        <5>2. pads = 2
          BY <1>1, <1>7, <5>1
        <5>3. QED
          BY <1>1, <4>3, <5>2
      <4>4. QED
        BY <4>1, <4>2, <4>3
    <3>3. QED
      BY <1>3, <1>7, <3>1, <3>2
  <2>3. ASSUME NEW k \in n - pads + 1 .. n PROVE t[k] = Pad
    <3>1. CASE pads = 0
      BY <1>1, <3>1
    <3>2. CASE pads = 1
      <4>1. k = n /\ t[n] = Pad
        BY <1>1, <3>2
      <4>2. QED
        BY <4>1
    <3>3. CASE pads = 2
      <4>1. k = n \/ k = n - 1
        BY <1>1, <3>3
      <4>2. t[n] = Pad /\ t[n - 1] = Pad
        BY <1>1, <3>3
      <4>3. QED
        BY <4>1, <4>2
    <3>4. QED
      BY <2>1, <3>1, <3>2, <3>3
  <2> HIDE DEF pads
  <2>4. QED
    BY <2>1, <2>2, <2>3
<1>8. QED
  BY <1>5, <1>6, <1>7 DEF n

\* A turn of base64's loop stops at a character that is no digit.
LEMMA B64LoopIs ==
  ASSUME NEW t \in Seq(Byte), NEW p \in Nat, p + 4 <= Len(t)
  PROVE  LET e == b64_decode_loop(t, p)
             v == Values(t, p)
         IN  /\ e.ok <=> /\ b64_values(t[p + 1]) >= 0 /\ b64_values(t[p + 2]) >= 0
                         /\ b64_values(t[p + 3]) >= 0 /\ b64_values(t[p + 4]) >= 0
             /\ e.ok => e.units = <<First(v), Second(v), Third(v)>>
<1> DEFINE e == b64_decode_loop(t, p)
           v == Values(t, p)
<1>1. /\ v[1] = b64_values(t[p + 1]) /\ v[2] = b64_values(t[p + 2])
      /\ v[3] = b64_values(t[p + 3]) /\ v[4] = b64_values(t[p + 4])
  BY DEF Values
<1>2. v[1] \in -1 .. 63 /\ v[2] \in -1 .. 63 /\ v[3] \in -1 .. 63 /\ v[4] \in -1 .. 63
  BY FourDigits
<1>3. e = IF \E i \in 1 .. 4 : v[i] < 0 THEN Stop(<<>>) ELSE Go(<<First(v), Second(v), Third(v)>>)
  BY DEF b64_decode_loop
<1> HIDE DEF e, v
<1>4. (\E i \in 1 .. 4 : v[i] < 0) <=> ~(v[1] >= 0 /\ v[2] >= 0 /\ v[3] >= 0 /\ v[4] >= 0)
  <2>1. \A i \in 1 .. 4 : i = 1 \/ i = 2 \/ i = 3 \/ i = 4
    OBVIOUS
  <2>2. 1 \in 1 .. 4 /\ 2 \in 1 .. 4 /\ 3 \in 1 .. 4 /\ 4 \in 1 .. 4
    OBVIOUS
  <2>3. \A x \in -1 .. 63 : x < 0 <=> ~(x >= 0)
    OBVIOUS
  <2>4. /\ v[1] < 0 <=> ~(v[1] >= 0)
        /\ v[2] < 0 <=> ~(v[2] >= 0)
        /\ v[3] < 0 <=> ~(v[3] >= 0)
        /\ v[4] < 0 <=> ~(v[4] >= 0)
    BY <1>2, <2>3
  <2>5. QED
    BY <2>1, <2>2, <2>4
<1>5. e.ok <=> (v[1] >= 0 /\ v[2] >= 0 /\ v[3] >= 0 /\ v[4] >= 0)
  BY <1>3, <1>4, GoParts, StopParts
<1>6. e.ok => e.units = <<First(v), Second(v), Third(v)>>
  BY <1>3, GoParts, StopParts
<1>7. QED
  BY <1>1, <1>5, <1>6 DEF e, v

\* A byte after two others.
LEMMA ThreeBytes ==
  ASSUME NEW x \in Byte, NEW y \in Byte, NEW z \in Byte
  PROVE  Append(<<x, y>>, z) = <<x, y, z>>
<1> DEFINE s == Append(<<x, y>>, z)  u == <<x, y, z>>
<1>1. <<x, y>> \in Seq(Byte) /\ Len(<<x, y>>) = 2 /\ <<x, y>>[1] = x /\ <<x, y>>[2] = y
  BY Bytes
<1>2. u \in Seq(Byte) /\ Len(u) = 3 /\ u[1] = x /\ u[2] = y /\ u[3] = z
  BY Bytes
<1>3. /\ s \in Seq(Byte) /\ Len(s) = 2 + 1 /\ s[2 + 1] = z
      /\ \A i \in 1 .. 2 : s[i] = <<x, y>>[i]
  BY <1>1, AppendProperties
<1>4. s[1] = x /\ s[2] = y /\ s[3] = z /\ Len(s) = 3
  BY <1>1, <1>3
<1> HIDE DEF s, u
<1>5. \A i \in 1 .. 3 : i = 1 \/ i = 2 \/ i = 3
  OBVIOUS
<1>6. \A i \in 1 .. 3 : s[i] = u[i]
  BY <1>2, <1>4, <1>5
<1>7. s = u
  BY <1>2, <1>3, <1>4, <1>6, SeqEqual
<1>8. QED
  BY <1>7 DEF s, u

\* The last turn lets "=" through at the end alone, and writes a byte less for
\* each.
LEMMA B64LastIs ==
  ASSUME NEW t \in Seq(Byte), NEW p \in Nat, p + 4 = Len(t)
  PROVE  LET e == b64_decode_last(t, p)
             v == Values(t, p)
         IN  /\ e.ok <=> /\ b64_values(t[p + 1]) >= 0 /\ b64_values(t[p + 2]) >= 0
                         /\ b64_values(t[p + 3]) >= 0 \/ t[p + 3] = Pad
                         /\ b64_values(t[p + 4]) >= 0 \/ t[p + 4] = Pad
                         /\ t[p + 3] = Pad => t[p + 4] = Pad
             /\ e.ok => e.units = IF t[p + 3] = Pad THEN <<First(v)>>
                                  ELSE IF t[p + 4] = Pad THEN <<First(v), Second(v)>>
                                  ELSE <<First(v), Second(v), Third(v)>>
<1> DEFINE e == b64_decode_last(t, p)
           v == Values(t, p)
           pad3 == t[p + 3] = Pad
           pad4 == t[p + 4] = Pad
           two  == IF pad3 THEN <<First(v)>> ELSE <<First(v), Second(v)>>
<1>1. /\ v[1] = b64_values(t[p + 1]) /\ v[2] = b64_values(t[p + 2])
      /\ v[3] = b64_values(t[p + 3]) /\ v[4] = b64_values(t[p + 4])
  BY DEF Values
<1>2. /\ v[1] \in -1 .. 63 /\ v[2] \in -1 .. 63 /\ v[3] \in -1 .. 63 /\ v[4] \in -1 .. 63
      /\ (pad3 => v[3] = -1) /\ (pad4 => v[4] = -1)
  BY FourDigits
<1>3. e = IF v[1] < 0 \/ v[2] < 0 THEN Stop(<<>>)
          ELSE IF ~pad3 /\ v[3] < 0 THEN Stop(<<First(v)>>)
          ELSE IF pad4 THEN Go(two)
          ELSE IF v[3] < 0 \/ v[4] < 0 THEN Stop(two)
          ELSE Go(Append(two, Third(v)))
  BY DEF b64_decode_last
<1>4. \A x, y, z \in Byte : Append(<<x, y>>, z) = <<x, y, z>>
  BY ThreeBytes
<1>0. /\ First(v) = v[1] * 4 + v[2] \div 16
      /\ Second(v) = (v[2] % 16) * 16 + v[3] \div 4
      /\ Third(v) = (v[3] % 4) * 64 + v[4]
  BY DEF First, Second, Third
<1> HIDE DEF e, v, pad3, pad4
<1>5. /\ v[1] < 0 <=> ~(v[1] >= 0)
      /\ v[2] < 0 <=> ~(v[2] >= 0)
      /\ v[3] < 0 <=> ~(v[3] >= 0)
      /\ v[4] < 0 <=> ~(v[4] >= 0)
      /\ pad3 => v[3] < 0
      /\ pad4 => v[4] < 0
  <2>1. (\A x \in -1 .. 63 : x < 0 <=> ~(x >= 0)) /\ -1 < 0
    OBVIOUS
  <2>2. QED
    BY <1>2, <2>1
<1>6. e.ok <=> /\ v[1] >= 0 /\ v[2] >= 0 /\ (v[3] >= 0 \/ pad3) /\ (v[4] >= 0 \/ pad4)
               /\ (pad3 => pad4)
  BY <1>3, <1>5, GoParts, StopParts
<1>7. ASSUME e.ok
      PROVE  e.units = IF pad3 THEN <<First(v)>>
                       ELSE IF pad4 THEN <<First(v), Second(v)>>
                       ELSE <<First(v), Second(v), Third(v)>>
  <2>1. e = IF pad4 THEN Go(two) ELSE Go(Append(two, Third(v)))
    BY <1>3, <1>5, <1>6, <1>7
  <2>2. e.units = IF pad4 THEN two ELSE Append(two, Third(v))
    BY <2>1, GoParts
  <2>3. pad3 => pad4
    BY <1>6, <1>7
  <2>4. ASSUME ~pad3, ~pad4
        PROVE  Append(<<First(v), Second(v)>>, Third(v)) = <<First(v), Second(v), Third(v)>>
    <3>1. \A x \in -1 .. 63 : x >= 0 => x \in 0 .. 63
      OBVIOUS
    <3>2. v[1] \in 0 .. 63 /\ v[2] \in 0 .. 63 /\ v[3] \in 0 .. 63 /\ v[4] \in 0 .. 63
      BY <1>2, <1>6, <1>7, <2>4, <3>1
    <3>3. First(v) \in Byte /\ Second(v) \in Byte /\ Third(v) \in Byte
      <4>1. \A x, y \in 0 .. 63 : /\ x * 4 + y \div 16 \in Byte
                                 /\ (x % 16) * 16 + y \div 4 \in Byte
                                 /\ (x % 4) * 64 + y \in Byte
        BY Joins
      <4> HIDE DEF v
      <4>2. v[1] * 4 + v[2] \div 16 \in Byte
        BY ONLY <3>2, <4>1
      <4>3. (v[2] % 16) * 16 + v[3] \div 4 \in Byte
        BY ONLY <3>2, <4>1
      <4>4. (v[3] % 4) * 64 + v[4] \in Byte
        BY ONLY <3>2, <4>1
      <4>5. QED
        BY ONLY <1>0, <4>2, <4>3, <4>4
    <3>4. QED
      BY <1>4, <3>3
  <2>5. QED
    BY <2>2, <2>3, <2>4
<1>8. QED
  BY <1>1, <1>6, <1>7 DEF e, v, pad3, pad4

\* hex_decode stops at a character that is no digit.
LEMMA HexDecodeIs ==
  ASSUME NEW t \in Seq(Byte), NEW p \in Nat, p + 1 < Len(t)
  PROVE  LET e    == hex_decode(t, p)
             high == hex_values(t[p + 1])
             low  == hex_values(t[p + 2])
         IN  /\ high \in -1 .. 15 /\ low \in -1 .. 15
             /\ e.ok <=> high >= 0 /\ low >= 0
             /\ e.ok => e.units = <<high * 16 + low>>
<1> DEFINE e    == hex_decode(t, p)
           high == hex_values(t[p + 1])
           low  == hex_values(t[p + 2])
<1>1. t[p + 1] \in Byte /\ t[p + 2] \in Byte
  <2>1. p + 1 \in Nat /\ p < Len(t) /\ (p + 1) + 1 = p + 2
    BY LenProperties
  <2>2. QED
    BY <2>1, CharAt
<1>2. high \in -1 .. 15 /\ low \in -1 .. 15
  BY <1>1, Tables
<1>3. e = IF high < 0 \/ low < 0 THEN Stop(<<>>) ELSE Go(<<high * 16 + low>>)
  BY DEF hex_decode
<1> HIDE DEF e, high, low
<1>4. (high < 0 \/ low < 0) <=> ~(high >= 0 /\ low >= 0)
  BY <1>2
<1>5. /\ e.ok <=> high >= 0 /\ low >= 0
      /\ e.ok => e.units = <<high * 16 + low>>
  BY <1>3, <1>4, GoParts, StopParts
<1>6. QED
  BY <1>2, <1>5 DEF e, high, low

-----------------------------------------------------------------------------
(* What the loops have made of the input. *)

RoomEnough == job.room = Own \/ (job.room \in Rooms /\ job.room >= size)

\* The encoders have written the beginning of what RFC 4648 says.
HexEncodes ==
  phase \in {"work", "done"} /\ job.call = "hex_encode" =>
    \A i \in 1 .. Len(out) : out[i] = Base16(job.input)[i]

B64Encodes ==
  phase \in {"work", "done"} /\ job.call = "base64_encode" =>
    \A i \in 1 .. Len(out) : out[i] = Base64(job.input)[i]

\* The decoders have met digits alone.  Whatever data the text encodes, they
\* have written the beginning of it.
HexDecoded ==
  \A p \in 0 .. Len(out) - 1 :
    /\ hex_values(job.input[2 * p + 1]) >= 0 /\ hex_values(job.input[2 * p + 2]) >= 0
    /\ out[p + 1] = hex_values(job.input[2 * p + 1]) * 16 + hex_values(job.input[2 * p + 2])

HexDecodes ==
  /\ phase \in {"work", "done"} /\ job.call = "hex_decode" => HexDecoded
  /\ phase = "refused" /\ RoomEnough /\ job.call = "hex_decode" => ~WellFormed16(job.input)

BeginsData ==
  \A d \in Data : Base64(d) = job.input =>
    Len(out) <= Len(d) /\ \A i \in 1 .. Len(out) : out[i] = d[i]

B64Decodes ==
  /\ phase \in {"work", "done"} /\ job.call = "base64_decode" => BeginsData
  /\ phase = "work" /\ job.call = "base64_decode" =>
       \A i \in 1 .. sp : b64_values(job.input[i]) >= 0
  /\ phase = "done" /\ job.call = "base64_decode" => WellFormed64(job.input)
  /\ phase = "refused" /\ RoomEnough /\ job.call = "base64_decode" => ~WellFormed64(job.input)

Coded == HexEncodes /\ B64Encodes /\ HexDecodes /\ B64Decodes

\* Where each loop is before a turn.
LEMMA HexEncodeAt ==
  ASSUME CInv, phase = "work", ~AtEnd, job.call = "hex_encode"
  PROVE  sp < Len(job.input) /\ Len(out) = 2 * sp
<1>1. PICK k \in 0 .. Len(job.input) : sp = k /\ Len(out) = 2 * k
  BY AtWork DEF InPlace, InPlaceAt
<1>2. ~(sp >= Len(job.input)) /\ Len(job.input) \in Nat
  BY AtWork DEF AtEnd
<1>3. QED
  BY <1>1, <1>2

\* As HexEncodeAt: base64_encode, whose last turn is not over.
LEMMA B64EncodeAt ==
  ASSUME CInv, phase = "work", ~AtEnd, job.call = "base64_encode"
  PROVE  \E k \in Nat : sp = 3 * k /\ Len(out) = 4 * k /\ 3 * k < Len(job.input)
<1> DEFINE n == Len(job.input)
<1>1. n \in Nat /\ sp \in Nat /\ ~(sp >= n)
  BY AtWork DEF AtEnd
<1>2. PICK k \in 0 .. n : (sp = 3 * k /\ Len(out) = 4 * k) \/ sp = n
  BY AtWork DEF InPlace, InPlaceAt
<1> HIDE DEF n
<1>3. sp = 3 * k /\ Len(out) = 4 * k /\ 3 * k < n /\ k \in Nat
  BY <1>1, <1>2
<1>4. QED
  BY <1>3 DEF n

\* hex_decode, which has as much text left as it has room.
LEMMA HexDecodeAt ==
  ASSUME CInv, phase = "work", ~AtEnd, job.call = "hex_decode"
  PROVE  /\ Len(out) \in Nat /\ sp = 2 * Len(out) /\ sp + 1 < Len(job.input)
         /\ Len(job.input) = 2 * size
<1> DEFINE n == Len(job.input)
<1>1. PICK k \in 0 .. n : sp = 2 * k /\ Len(out) = k
  BY AtWork DEF InPlace, InPlaceAt
<1>2. job \in Jobs /\ size = SizeOf(job) /\ size > 0 /\ n \in Nat /\ size \in Int
  BY AtWork
<1>3. ~(Len(out) >= size)
  BY DEF AtEnd
<1>4. n = 2 * size
  BY <1>2, Sizes
<1> HIDE DEF n
<1>5. Len(out) \in Nat /\ sp = 2 * Len(out) /\ sp + 1 < n
  BY <1>1, <1>2, <1>3, <1>4
<1>6. QED
  BY <1>4, <1>5 DEF n

\* base64_decode, which leaves room to write in every turn; whether it is in its
\* loop or past it tells how many groups are left.
LEMMA B64DecodeAt ==
  ASSUME CInv, phase = "work", job.call = "base64_decode"
  PROVE  \E k \in Nat, q \in Nat :
           /\ sp = 4 * k /\ Len(out) = 3 * k /\ 3 * k < size /\ ~AtEnd
           /\ Len(job.input) = 4 * q
           /\ IF Len(out) + 3 < size THEN k + 1 < q ELSE q = k + 1
<1> DEFINE n == Len(job.input)
           pads == Pads(job.input)
<1>1. PICK k \in 0 .. n : sp = 4 * k /\ Len(out) = 3 * k /\ Len(out) < size
  BY AtWork DEF InPlace, InPlaceAt
<1>2. PICK q \in Nat : n = 4 * q /\ size = 3 * q - pads
  BY AtWork, Sizes
<1>3. pads \in 0 .. 2
  BY DEF Pads
<1>4. n \in Nat /\ size \in Int
  BY AtWork
<1>5. ~AtEnd
  <2>1. ~(Len(out) >= size)
    BY <1>1, <1>4
  <2>2. QED
    BY <2>1 DEF AtEnd
<1> HIDE DEF n, pads
<1>6. IF Len(out) + 3 < size THEN k + 1 < q ELSE q = k + 1
  BY <1>1, <1>2, <1>3, <1>4
<1>7. k \in Nat /\ 3 * k < size
  BY <1>1, <1>4
<1>8. QED
  BY <1>1, <1>2, <1>5, <1>6, <1>7 DEF n

-----------------------------------------------------------------------------
(* The actions. *)

\* A turn that goes on, as the lemmas below see it.
LEMMA AfterWrite ==
  ASSUME CInv, Write
  PROVE  /\ phase = "work" /\ ~AtEnd /\ Turn.ok /\ job' = job /\ size' = size
         /\ job.input \in Seq(Byte) /\ sp \in Nat
         /\ out' = out \o Turn.units /\ sp' = sp + Step
         /\ phase' = IF job.call = "base64_decode" /\ Len(out) + 3 >= size THEN "done" ELSE "work"
         /\ out \in Seq(Byte) /\ Turn.units \in Seq(Byte)
         /\ Len(out) \in Nat /\ Len(Turn.units) \in Nat /\ Len(out') = Len(out) + Len(Turn.units)
         /\ \A i \in 1 .. Len(out) : out'[i] = out[i]
         /\ \A i \in 1 .. Len(Turn.units) : out'[Len(out) + i] = Turn.units[i]
         /\ \A i \in 1 .. Len(out') :
              i \in 1 .. Len(out) \/ \E j \in 1 .. Len(Turn.units) : i = Len(out) + j
<1>1. /\ phase = "work" /\ ~AtEnd /\ Turn.ok /\ job' = job /\ size' = size
      /\ out' = out \o Turn.units /\ sp' = sp + Step
      /\ phase' = IF job.call = "base64_decode" /\ Len(out) + 3 >= size THEN "done" ELSE "work"
  BY DEF Write
<1>2. out \in Seq(Byte) /\ job.input \in Seq(Byte) /\ sp \in Nat
  BY <1>1, AtWork
<1>3. Turn.units \in Seq(Byte)
  BY <1>1, TurnAdvances DEF Advances
<1>4. QED
  BY <1>1, <1>2, <1>3, Together

\* Two more characters of hex_encode.
LEMMA WriteHexEncodes ==
  ASSUME CInv, HexEncodes, Write, job.call = "hex_encode"
  PROVE  HexEncodes'
<1> DEFINE t == job.input
           u == Turn.units
<1>1. sp < Len(t) /\ Len(out) = 2 * sp /\ t \in Seq(Byte) /\ sp \in Nat /\ phase = "work" /\ job' = job
  BY AfterWrite, HexEncodeAt
<1>2. u = <<hex_chars(t[sp + 1] \div 16), hex_chars(t[sp + 1] % 16)>>
  BY DEF Turn, hex_encode, Go
<1>3. u[1] = Base16(t)[2 * sp + 1] /\ u[2] = Base16(t)[2 * sp + 2] /\ Len(u) = 2
  BY <1>1, <1>2, Base16At
<1>4. \A i \in 1 .. Len(out) : out[i] = Base16(t)[i]
  BY <1>1 DEF HexEncodes
<1>5. ASSUME NEW i \in 1 .. Len(out') PROVE out'[i] = Base16(t)[i]
  <2>1. CASE i \in 1 .. Len(out)
    BY <1>4, <2>1, AfterWrite
  <2>2. CASE \E j \in 1 .. Len(u) : i = Len(out) + j
    <3>1. PICK j \in 1 .. 2 : i = 2 * sp + j
      BY <1>1, <1>3, <2>2
    <3>2. out'[i] = u[j]
      BY <1>1, <1>3, <3>1, AfterWrite
    <3>3. j = 1 \/ j = 2
      OBVIOUS
    <3>4. QED
      BY <1>3, <3>1, <3>2, <3>3
  <2>3. QED
    BY <2>1, <2>2, AfterWrite
<1>6. QED
  BY <1>1, <1>5 DEF HexEncodes

\* Four more characters of base64_encode.
LEMMA WriteB64Encodes ==
  ASSUME CInv, B64Encodes, Write, job.call = "base64_encode"
  PROVE  B64Encodes'
<1> DEFINE t == job.input
           u == Turn.units
<1>1. PICK k \in Nat : sp = 3 * k /\ Len(out) = 4 * k /\ 3 * k < Len(t)
  BY AfterWrite, B64EncodeAt
<1>2. t \in Seq(Byte) /\ phase = "work" /\ job' = job
  BY AfterWrite
<1>3. u = b64_encode(t, 3 * k).units
  BY <1>1 DEF Turn
<1>4. /\ u[1] = Base64(t)[4 * k + 1] /\ u[2] = Base64(t)[4 * k + 2]
      /\ u[3] = Base64(t)[4 * k + 3] /\ u[4] = Base64(t)[4 * k + 4]
  BY <1>1, <1>2, <1>3, B64EncodeIs
<1>5. Len(u) = 4
  BY <1>1, <1>2, <1>3, B64EncodeTurn
<1>6. \A i \in 1 .. Len(out) : out[i] = Base64(t)[i]
  BY <1>2 DEF B64Encodes
<1> HIDE DEF t, u
<1>7. ASSUME NEW i \in 1 .. Len(out') PROVE out'[i] = Base64(t)[i]
  <2>1. CASE i \in 1 .. Len(out)
    BY <1>6, <2>1, AfterWrite
  <2>2. CASE \E j \in 1 .. Len(u) : i = Len(out) + j
    <3>1. PICK j \in 1 .. 4 : i = 4 * k + j
      BY <1>1, <1>5, <2>2
    <3>2. out'[i] = u[j]
      BY <1>1, <1>5, <3>1, AfterWrite DEF u
    <3>3. j = 1 \/ j = 2 \/ j = 3 \/ j = 4
      OBVIOUS
    <3>4. QED
      BY <1>4, <3>1, <3>2, <3>3
  <2>3. QED
    BY <2>1, <2>2, AfterWrite DEF u
<1>8. QED
  BY <1>2, <1>7 DEF B64Encodes, t

\* One more byte of hex_decode.
LEMMA WriteHexDecodes ==
  ASSUME CInv, HexDecodes, Write, job.call = "hex_decode"
  PROVE  HexDecodes'
<1> DEFINE t == job.input
           u == Turn.units
           high == hex_values(t[sp + 1])
           low == hex_values(t[sp + 2])
<1>1. /\ Len(out) \in Nat /\ sp = 2 * Len(out) /\ sp + 1 < Len(t)
      /\ t \in Seq(Byte) /\ sp \in Nat /\ phase = "work" /\ phase' = "work" /\ job' = job
      /\ Turn.ok /\ Len(out') = Len(out) + Len(u)
  BY AfterWrite, HexDecodeAt
<1>2. Turn = hex_decode(t, sp)
  BY DEF Turn
<1>3. high >= 0 /\ low >= 0 /\ u = <<high * 16 + low>>
  BY <1>1, <1>2, HexDecodeIs
<1>4. Len(u) = 1 /\ u[1] = high * 16 + low
  BY <1>3
<1>5. HexDecoded
  BY <1>1 DEF HexDecodes
<1> HIDE DEF t, u, high, low
<1>6. out'[Len(out) + 1] = high * 16 + low
  <2>1. 1 \in 1 .. Len(u)
    BY <1>4
  <2>2. QED
    BY <1>4, <2>1, AfterWrite DEF u
<1>7. ASSUME NEW p \in 0 .. Len(out') - 1
      PROVE  /\ hex_values(t[2 * p + 1]) >= 0 /\ hex_values(t[2 * p + 2]) >= 0
             /\ out'[p + 1] = hex_values(t[2 * p + 1]) * 16 + hex_values(t[2 * p + 2])
  <2>1. CASE p = Len(out)
    BY <1>1, <1>3, <1>6, <2>1 DEF high, low
  <2>2. CASE p # Len(out)
    <3>1. p \in 0 .. Len(out) - 1 /\ p + 1 \in 1 .. Len(out)
      BY <1>1, <1>4, <2>2
    <3>2. out'[p + 1] = out[p + 1]
      BY <3>1, AfterWrite
    <3>3. QED
      BY <1>5, <3>1, <3>2 DEF HexDecoded, t
  <2>3. QED
    BY <2>1, <2>2
<1>8. HexDecoded'
  BY <1>1, <1>7 DEF HexDecoded, t
<1>9. QED
  BY <1>1, <1>8 DEF HexDecodes

\* A turn of base64_decode that goes on, in the loop or after it: the digits it
\* has read, and that what it writes are bytes of these.
LEMMA B64TurnIs ==
  ASSUME CInv, Write, job.call = "base64_decode",
         NEW k \in Nat, sp = 4 * k, Len(out) = 3 * k,
         NEW q \in Nat, Len(job.input) = 4 * q,
         IF Len(out) + 3 < size THEN k + 1 < q ELSE q = k + 1
  PROVE  LET t == job.input
             v == Values(t, 4 * k)
             u == Turn.units
         IN  /\ b64_values(t[4 * k + 1]) >= 0 /\ b64_values(t[4 * k + 2]) >= 0
             /\ Len(out) + 3 < size =>
                  b64_values(t[4 * k + 3]) >= 0 /\ b64_values(t[4 * k + 4]) >= 0
             /\ ~(Len(out) + 3 < size) =>
                  /\ b64_values(t[4 * k + 3]) >= 0 \/ t[4 * k + 3] = Pad
                  /\ b64_values(t[4 * k + 4]) >= 0 \/ t[4 * k + 4] = Pad
                  /\ t[4 * k + 3] = Pad => t[4 * k + 4] = Pad
             /\ \/ u = <<First(v)>>
                \/ u = <<First(v), Second(v)>>
                \/ u = <<First(v), Second(v), Third(v)>>
<1> DEFINE t == job.input
           v == Values(t, 4 * k)
           u == Turn.units
<1>1. t \in Seq(Byte) /\ Turn.ok /\ 4 * k \in Nat
  BY AfterWrite
<1>2. CASE Len(out) + 3 < size
  <2> DEFINE e == b64_decode_loop(t, 4 * k)
  <2>1. Turn = e
    BY <1>2 DEF Turn
  <2>2. 4 * k + 4 <= Len(t)
    BY <1>2
  <2>3. /\ e.ok <=> /\ b64_values(t[4 * k + 1]) >= 0 /\ b64_values(t[4 * k + 2]) >= 0
                    /\ b64_values(t[4 * k + 3]) >= 0 /\ b64_values(t[4 * k + 4]) >= 0
        /\ e.ok => e.units = <<First(v), Second(v), Third(v)>>
    BY <1>1, <2>2, B64LoopIs
  <2> HIDE DEF e, v, t
  <2>4. QED
    BY <1>1, <1>2, <2>1, <2>3 DEF v, t
<1>3. CASE ~(Len(out) + 3 < size)
  <2> DEFINE e == b64_decode_last(t, 4 * k)
  <2>1. Turn = e
    BY <1>3 DEF Turn
  <2>2. 4 * k + 4 = Len(t)
    BY <1>3
  <2>3. /\ e.ok <=> /\ b64_values(t[4 * k + 1]) >= 0 /\ b64_values(t[4 * k + 2]) >= 0
                    /\ b64_values(t[4 * k + 3]) >= 0 \/ t[4 * k + 3] = Pad
                    /\ b64_values(t[4 * k + 4]) >= 0 \/ t[4 * k + 4] = Pad
                    /\ t[4 * k + 3] = Pad => t[4 * k + 4] = Pad
        /\ e.ok => e.units = IF t[4 * k + 3] = Pad THEN <<First(v)>>
                             ELSE IF t[4 * k + 4] = Pad THEN <<First(v), Second(v)>>
                             ELSE <<First(v), Second(v), Third(v)>>
    BY <1>1, <2>2, B64LastIs
  <2>4. \/ e.units = <<First(v)>>
        \/ e.units = <<First(v), Second(v)>>
        \/ e.units = <<First(v), Second(v), Third(v)>>
    BY <1>1, <2>1, <2>3
  <2> HIDE DEF e, v, t
  <2>5. QED
    BY <1>1, <1>3, <2>1, <2>3, <2>4 DEF v, t
<1>4. QED
  BY <1>2, <1>3

\* What the turn writes is what has been encoded.
LEMMA B64TurnDecodes ==
  ASSUME CInv, Write, job.call = "base64_decode", NEW d \in Data, Base64(d) = job.input
  PROVE  /\ Len(d) = size
         /\ \A j \in 1 .. Len(Turn.units) : Turn.units[j] = d[Len(out) + j]
<1> DEFINE t == job.input
           u == Turn.units
<1>1. PICK k \in Nat, q \in Nat :
        /\ sp = 4 * k /\ Len(out) = 3 * k /\ 3 * k < size
        /\ Len(t) = 4 * q
        /\ IF Len(out) + 3 < size THEN k + 1 < q ELSE q = k + 1
  BY AfterWrite, B64DecodeAt
<1> DEFINE v == Values(t, 4 * k)
<1>2. d \in Seq(Byte) /\ Len(d) \in Nat
  BY CodecsAssumption, LenProperties
<1>3. Len(d) = size
  <2>1. size = SizeOf(job)
    BY AfterWrite, AtWork
  <2>2. SizeOf(job) = b64_decode_size(t)
    BY DEF SizeOf
  <2>3. b64_decode_size(Base64(d)) = Len(d)
    BY <1>2, Base64Size
  <2>4. QED
    BY <2>1, <2>2, <2>3
<1>4. \/ u = <<First(v)>>
      \/ u = <<First(v), Second(v)>>
      \/ u = <<First(v), Second(v), Third(v)>>
  BY <1>1, B64TurnIs
<1>5. /\ First(v) = d[3 * k + 1]
      /\ 3 * k + 1 < Len(d) => Second(v) = d[3 * k + 2]
      /\ 3 * k + 2 < Len(d) => Third(v) = d[3 * k + 3]
  <2>1. 3 * k < Len(d)
    BY <1>1, <1>3
  <2>2. v = Values(Base64(d), 4 * k)
    OBVIOUS
  <2>3. QED
    BY <1>2, <2>1, <2>2, DecodesGroup
<1>6. Len(out) + Len(u) <= size /\ Len(u) \in Nat
  BY AfterWrite, TurnAdvances DEF Advances
<1> HIDE DEF v, t, u
<1>7. /\ Len(u) \in 1 .. 3
      /\ u[1] = First(v)
      /\ Len(u) > 1 => u[2] = Second(v)
      /\ Len(u) > 2 => u[3] = Third(v)
  BY <1>4
<1>8. ASSUME NEW j \in 1 .. Len(u) PROVE u[j] = d[Len(out) + j]
  <2>1. j = 1 \/ j = 2 \/ j = 3
    <3>1. PICK m \in 1 .. 3 : Len(u) = m
      BY <1>7
    <3>2. QED
      BY <3>1
  <2>2. 3 * k + j <= Len(d)
    BY <1>1, <1>3, <1>6
  <2>3. CASE j = 1
    BY <1>1, <1>5, <1>7, <2>3
  <2>4. CASE j = 2
    <3>1. 3 * k + 1 < Len(d) /\ Len(u) > 1
      BY <1>2, <1>6, <2>2, <2>4
    <3>2. QED
      BY <1>1, <1>5, <1>7, <2>4, <3>1
  <2>5. CASE j = 3
    <3>1. 3 * k + 2 < Len(d) /\ Len(u) > 2
      BY <1>2, <1>6, <2>2, <2>5
    <3>2. QED
      BY <1>1, <1>5, <1>7, <2>5, <3>1
  <2>6. QED
    BY <2>1, <2>3, <2>4, <2>5
<1>9. QED
  BY <1>3, <1>8 DEF u

\* Up to three more bytes of base64_decode, and the end of the call with the
\* last of them.
LEMMA WriteB64Decodes ==
  ASSUME CInv, B64Decodes, Write, job.call = "base64_decode"
  PROVE  B64Decodes'
<1> DEFINE t == job.input
           u == Turn.units
<1>1. PICK k \in Nat, q \in Nat :
        /\ sp = 4 * k /\ Len(out) = 3 * k /\ 3 * k < size
        /\ Len(t) = 4 * q
        /\ IF Len(out) + 3 < size THEN k + 1 < q ELSE q = k + 1
  BY AfterWrite, B64DecodeAt
<1>2. /\ b64_values(t[4 * k + 1]) >= 0 /\ b64_values(t[4 * k + 2]) >= 0
      /\ Len(out) + 3 < size =>
           b64_values(t[4 * k + 3]) >= 0 /\ b64_values(t[4 * k + 4]) >= 0
      /\ ~(Len(out) + 3 < size) =>
           /\ b64_values(t[4 * k + 3]) >= 0 \/ t[4 * k + 3] = Pad
           /\ b64_values(t[4 * k + 4]) >= 0 \/ t[4 * k + 4] = Pad
           /\ t[4 * k + 3] = Pad => t[4 * k + 4] = Pad
  BY <1>1, B64TurnIs
<1>3. /\ phase = "work" /\ job' = job /\ size' = size /\ t \in Seq(Byte) /\ sp' = 4 * k + 4
      /\ phase' = IF Len(out) + 3 >= size THEN "done" ELSE "work"
      /\ Len(out') = Len(out) + Len(u) /\ size \in Int /\ Len(u) \in Nat
      /\ Len(out) + Len(u) <= size
  <2>1. Step = 4
    BY DEF Step
  <2>2. QED
    BY <1>1, <2>1, AfterWrite, AtWork, TurnAdvances DEF Advances
<1>4. /\ BeginsData
      /\ \A i \in 1 .. sp : b64_values(t[i]) >= 0
  BY <1>3 DEF B64Decodes
<1>5. BeginsData'
  <2> SUFFICES ASSUME NEW d \in Data, Base64(d) = t
               PROVE  Len(out') <= Len(d) /\ \A i \in 1 .. Len(out') : out'[i] = d[i]
    BY <1>3 DEF BeginsData
  <2>1. Len(d) = size /\ \A j \in 1 .. Len(u) : u[j] = d[Len(out) + j]
    BY B64TurnDecodes
  <2>2. \A i \in 1 .. Len(out) : out[i] = d[i]
    BY <1>4 DEF BeginsData
  <2>3. Len(out') <= Len(d)
    BY <1>3, <2>1
  <2> HIDE DEF t, u
  <2>4. ASSUME NEW i \in 1 .. Len(out') PROVE out'[i] = d[i]
    <3>1. CASE i \in 1 .. Len(out)
      BY <2>2, <3>1, AfterWrite
    <3>2. CASE \E j \in 1 .. Len(u) : i = Len(out) + j
      BY <2>1, <3>2, AfterWrite DEF u
    <3>3. QED
      BY <3>1, <3>2, AfterWrite DEF u
  <2>5. QED
    BY <2>3, <2>4
<1> HIDE DEF t, u
<1>6. CASE Len(out) + 3 < size
  <2>1. phase' = "work"
    BY <1>1, <1>3, <1>6
  <2>2. ASSUME NEW i \in 1 .. 4 * k + 4 PROVE b64_values(t[i]) >= 0
    <3>1. i \in 1 .. sp \/ i = 4 * k + 1 \/ i = 4 * k + 2 \/ i = 4 * k + 3 \/ i = 4 * k + 4
      BY <1>1
    <3>2. QED
      BY <1>2, <1>4, <1>6, <3>1
  <2>3. QED
    BY <1>3, <1>5, <2>1, <2>2 DEF B64Decodes, t
<1>7. CASE ~(Len(out) + 3 < size)
  <2>1. phase' = "done" /\ Len(t) = 4 * k + 4
    BY <1>1, <1>3, <1>7
  <2>2. ASSUME NEW i \in 1 .. 4 * k + 4
        PROVE  b64_values(t[i]) >= 0 \/ (t[i] = Pad /\ i > (4 * k + 4) - 2)
    <3>1. i \in 1 .. sp \/ i = 4 * k + 1 \/ i = 4 * k + 2 \/ i = 4 * k + 3 \/ i = 4 * k + 4
      BY <1>1
    <3>2. 4 * k + 3 > (4 * k + 4) - 2 /\ 4 * k + 4 > (4 * k + 4) - 2
      OBVIOUS
    <3>3. QED
      BY <1>2, <1>4, <1>7, <3>1, <3>2
  <2>3. (4 * k + 4) % 4 = 0 /\ (4 * k + 4) - 1 = 4 * k + 3
    OBVIOUS
  <2>4. t[Len(t) - 1] = Pad => t[Len(t)] = Pad
    BY <1>2, <1>7, <2>1, <2>3
  <2>5. WellFormed64(t)
    BY <1>3, <2>1, <2>2, <2>3, <2>4, WellFormed64Is
  <2>6. WellFormed64(t)'
    BY <1>3, <2>5 DEF t
  <2>7. QED
    BY <1>5, <2>1, <2>6 DEF B64Decodes, t
<1>8. QED
  BY <1>6, <1>7

\* A text with a character at such a place that is no digit is not well-formed.
LEMMA NotDigit64 ==
  ASSUME NEW t \in Seq(Byte), NEW i \in 1 .. Len(t), ~(b64_values(t[i]) >= 0),
         t[i] # Pad \/ i <= Len(t) - 2
  PROVE  ~WellFormed64(t)
<1>1. Len(t) \in Nat
  BY LenProperties
<1>2. i <= Len(t) - 2 => ~(i > Len(t) - 2)
  BY <1>1
<1>3. QED
  BY <1>2, WellFormed64Is

\* hex_decode stops at a character of no hexadecimal text.
LEMMA RefuseHex ==
  ASSUME CInv, Refuse, job.call = "hex_decode"
  PROVE  ~WellFormed16(job.input)
<1> DEFINE t == job.input
<1>1. phase = "work" /\ ~AtEnd /\ ~Turn.ok
  BY DEF Refuse
<1>2. sp + 1 < Len(t) /\ t \in Seq(Byte) /\ sp \in Nat /\ Len(t) \in Nat
  BY <1>1, HexDecodeAt, AtWork
<1>3. Turn = hex_decode(t, sp)
  BY DEF Turn
<1>4. ~(hex_values(t[sp + 1]) >= 0) \/ ~(hex_values(t[sp + 2]) >= 0)
  BY <1>1, <1>2, <1>3, HexDecodeIs
<1> HIDE DEF t
<1>5. sp + 1 \in DOMAIN t /\ sp + 2 \in DOMAIN t
  BY <1>2
<1>6. \A k \in DOMAIN t : t[k] \in Byte
  BY <1>2
<1>7. WellFormed16(t) => \A k \in DOMAIN t : hex_values(t[k]) >= 0
  BY <1>6, Alphabet16Is DEF WellFormed16
<1>8. QED
  BY <1>4, <1>5, <1>7 DEF t

\* base64_decode stops at a character of no base64 text, or of none in its place.
LEMMA RefuseB64 ==
  ASSUME CInv, Refuse, job.call = "base64_decode"
  PROVE  ~WellFormed64(job.input)
<1> DEFINE t == job.input
<1>1. phase = "work" /\ ~Turn.ok
  BY DEF Refuse
<1>2. PICK k \in Nat, q \in Nat :
        /\ sp = 4 * k /\ Len(t) = 4 * q
        /\ IF Len(out) + 3 < size THEN k + 1 < q ELSE q = k + 1
  BY <1>1, B64DecodeAt
<1>3. t \in Seq(Byte) /\ 4 * k \in Nat
  BY <1>1, AtWork
<1>4. CASE Len(out) + 3 < size
  <2> DEFINE e == b64_decode_loop(t, 4 * k)
  <2>1. Turn = e
    BY <1>2, <1>4 DEF Turn
  <2>2. 4 * k + 4 <= Len(t)
    BY <1>2, <1>4
  <2>3. e.ok <=> /\ b64_values(t[4 * k + 1]) >= 0 /\ b64_values(t[4 * k + 2]) >= 0
                 /\ b64_values(t[4 * k + 3]) >= 0 /\ b64_values(t[4 * k + 4]) >= 0
    BY <1>3, <2>2, B64LoopIs
  <2> HIDE DEF e, t
  <2>4. PICK i \in 1 .. 4 : ~(b64_values(t[4 * k + i]) >= 0)
    BY <1>1, <2>1, <2>3
  <2>5. 4 * k + i \in 1 .. Len(t) /\ 4 * k + i <= Len(t) - 2
    BY <1>2, <1>4
  <2>6. QED
    BY <1>3, <2>4, <2>5, NotDigit64 DEF t
<1>5. CASE ~(Len(out) + 3 < size)
  <2> DEFINE e == b64_decode_last(t, 4 * k)
  <2>1. Turn = e
    BY <1>2, <1>5 DEF Turn
  <2>2. 4 * k + 4 = Len(t)
    BY <1>2, <1>5
  <2>3. e.ok <=> /\ b64_values(t[4 * k + 1]) >= 0 /\ b64_values(t[4 * k + 2]) >= 0
                 /\ b64_values(t[4 * k + 3]) >= 0 \/ t[4 * k + 3] = Pad
                 /\ b64_values(t[4 * k + 4]) >= 0 \/ t[4 * k + 4] = Pad
                 /\ t[4 * k + 3] = Pad => t[4 * k + 4] = Pad
    BY <1>3, <2>2, B64LastIs
  <2> HIDE DEF e, t
  <2>4. WellFormed64(t) =>
          /\ \A i \in 1 .. Len(t) : b64_values(t[i]) >= 0 \/ (t[i] = Pad /\ i > Len(t) - 2)
          /\ Len(t) > 0 /\ t[Len(t) - 1] = Pad => t[Len(t)] = Pad
    BY <1>3, WellFormed64Is
  <2>5. /\ 4 * k + 1 \in 1 .. Len(t) /\ ~(4 * k + 1 > Len(t) - 2)
        /\ 4 * k + 2 \in 1 .. Len(t) /\ ~(4 * k + 2 > Len(t) - 2)
        /\ 4 * k + 3 \in 1 .. Len(t) /\ 4 * k + 4 \in 1 .. Len(t)
        /\ Len(t) > 0 /\ Len(t) - 1 = 4 * k + 3 /\ Len(t) = 4 * k + 4
    BY <2>2
  <2>6. WellFormed64(t) => e.ok
    BY <2>3, <2>4, <2>5
  <2>7. QED
    BY <1>1, <2>1, <2>6 DEF t
<1>6. QED
  BY <1>4, <1>5

\* A call that is refused has written nothing anyone reads.
LEMMA RefuseCoded ==
  ASSUME CInv, Coded, Refuse
  PROVE  Coded'
<1>1. phase' = "refused" /\ job' = job
  BY DEF Refuse
<1>2. job.call = "hex_decode" => ~WellFormed16(job.input)
  BY RefuseHex
<1>3. job.call = "base64_decode" => ~WellFormed64(job.input)
  BY RefuseB64
<1>4. HexEncodes' /\ B64Encodes'
  BY <1>1 DEF HexEncodes, B64Encodes
<1>5. HexDecodes'
  BY <1>1, <1>2 DEF HexDecodes
<1>6. B64Decodes'
  BY <1>1, <1>3 DEF B64Decodes
<1>7. QED
  BY <1>4, <1>5, <1>6 DEF Coded

\* A turn that goes on.
LEMMA WriteCoded ==
  ASSUME CInv, Coded, Write
  PROVE  Coded'
<1>1. phase = "work" /\ phase' \in {"work", "done"} /\ job' = job
  BY AfterWrite
<1>2. HexEncodes'
  <2>1. CASE job.call = "hex_encode"
    BY <2>1, WriteHexEncodes DEF Coded
  <2>2. CASE job.call # "hex_encode"
    BY <1>1, <2>2 DEF HexEncodes
  <2>3. QED
    BY <2>1, <2>2
<1>3. B64Encodes'
  <2>1. CASE job.call = "base64_encode"
    BY <2>1, WriteB64Encodes DEF Coded
  <2>2. CASE job.call # "base64_encode"
    BY <1>1, <2>2 DEF B64Encodes
  <2>3. QED
    BY <2>1, <2>2
<1>4. HexDecodes'
  <2>1. CASE job.call = "hex_decode"
    BY <2>1, WriteHexDecodes DEF Coded
  <2>2. CASE job.call # "hex_decode"
    BY <1>1, <2>2 DEF HexDecodes
  <2>3. QED
    BY <2>1, <2>2
<1>5. B64Decodes'
  <2>1. CASE job.call = "base64_decode"
    BY <2>1, WriteB64Decodes DEF Coded
  <2>2. CASE job.call # "base64_decode"
    BY <1>1, <2>2 DEF B64Decodes
  <2>3. QED
    BY <2>1, <2>2
<1>6. QED
  BY <1>2, <1>3, <1>4, <1>5 DEF Coded

\* The loop is through; base64_decode ends with its last turn instead.
LEMMA FinishCoded ==
  ASSUME CInv, Coded, Finish
  PROVE  Coded'
<1>1. phase = "work" /\ phase' = "done" /\ AtEnd /\ job' = job /\ out' = out
  BY DEF Finish
<1>2. job.call # "base64_decode"
  BY <1>1, B64DecodeAt
<1>3. HexEncodes' /\ B64Encodes' /\ HexDecodes'
  BY <1>1 DEF Coded, HexEncodes, B64Encodes, HexDecodes, HexDecoded
<1>4. B64Decodes'
  BY <1>1, <1>2 DEF B64Decodes
<1>5. QED
  BY <1>3, <1>4 DEF Coded

\* A call whose size is zero, or that finds at once that the text is none.
LEMMA CallCoded ==
  ASSUME CInv, NEW j \in Jobs, Call(j)
  PROVE  Coded'
<1> DEFINE t == j.input
<1>1. /\ job' = j /\ size' = SizeOf(j) /\ sp' = 0 /\ out' = <<>> /\ Len(out') = 0
      /\ phase' = IF size' < 0 THEN "refused"
                  ELSE IF j.room = Query THEN "told"
                  ELSE IF j.room # Own /\ size' > j.room THEN "refused"
                  ELSE IF size' = 0 THEN "done" ELSE "work"
  BY Bytes DEF Call, CInv
<1>2. t \in Seq(Byte) /\ Len(t) \in Nat /\ SizeOf(j) \in Int
  BY JobFacts, Sizes
<1>3. phase' = "refused" /\ RoomEnough' => SizeOf(j) < 0
  <2> SUFFICES ASSUME phase' = "refused", RoomEnough', ~(SizeOf(j) < 0) PROVE FALSE
    OBVIOUS
  <2>1. j.room # Own /\ SizeOf(j) > j.room
    BY <1>1
  <2>2. j.room \in Rooms /\ j.room >= SizeOf(j)
    BY <1>1, <2>1 DEF RoomEnough
  <2>3. j.room \in Nat
    BY <2>2, CodecsAssumption
  <2>4. QED
    BY <1>2, <2>1, <2>2, <2>3
<1>4. j.call = "hex_decode" /\ SizeOf(j) < 0 => ~WellFormed16(t)
  <2> SUFFICES ASSUME j.call = "hex_decode", SizeOf(j) < 0 PROVE ~WellFormed16(t)
    OBVIOUS
  <2>1. SizeOf(j) = IF Len(t) % 2 = 0 THEN Len(t) \div 2 ELSE -1
    BY DEF SizeOf, hex_decode_size
  <2> DEFINE n == Len(t)
  <2> HIDE DEF n
  <2>2. n \in Nat => ~(n \div 2 < 0)
    OBVIOUS
  <2>3. Len(t) % 2 # 0
    BY <1>2, <2>1, <2>2 DEF n
  <2>4. QED
    BY <2>3 DEF WellFormed16
<1>5. j.call = "base64_decode" =>
        /\ SizeOf(j) < 0 => Len(t) % 4 # 0
        /\ SizeOf(j) = 0 => Len(t) = 0
  <2> SUFFICES ASSUME j.call = "base64_decode"
               PROVE  (SizeOf(j) < 0 => Len(t) % 4 # 0) /\ (SizeOf(j) = 0 => Len(t) = 0)
    OBVIOUS
  <2> DEFINE n == Len(t)
  <2>1. SizeOf(j) = IF n % 4 # 0 THEN -1
                    ELSE (n \div 4) * 3 - (IF Padded(t, 1) THEN 1 ELSE 0)
                                        - (IF Padded(t, 2) THEN 1 ELSE 0)
    BY DEF SizeOf, b64_decode_size
  <2>2. (Padded(t, 1) \/ Padded(t, 2)) => n >= 1
    BY <1>2 DEF Padded
  <2>3. PICK a \in 0 .. 1 : a = IF Padded(t, 1) THEN 1 ELSE 0
    OBVIOUS
  <2>4. PICK b \in 0 .. 1 : b = IF Padded(t, 2) THEN 1 ELSE 0
    OBVIOUS
  <2>5. (a = 1 \/ b = 1) => n >= 1
    BY <2>2, <2>3, <2>4
  <2>6. SizeOf(j) = IF n % 4 # 0 THEN -1 ELSE (n \div 4) * 3 - a - b
    BY <2>1, <2>3, <2>4
  <2> HIDE DEF n
  <2>7. n \in Nat
    BY <1>2 DEF n
  <2>8. CASE n % 4 # 0
    <3>1. SizeOf(j) = -1 /\ -1 < 0 /\ -1 # 0
      BY <2>6, <2>8
    <3>2. QED
      BY <2>8, <3>1 DEF n
  <2>9. CASE n % 4 = 0
    <3>1. PICK m \in Nat : n = 4 * m /\ n \div 4 = m
      BY <2>7, <2>9
    <3>2. SizeOf(j) = m * 3 - a - b
      BY <2>6, <2>9, <3>1
    <3>3. ~(SizeOf(j) < 0) /\ (SizeOf(j) = 0 => n = 0)
      BY <2>5, <3>1, <3>2
    <3>4. QED
      BY <3>3 DEF n
  <2>10. QED
    BY <2>8, <2>9
<1>6. Len(t) % 4 # 0 => ~WellFormed64(t)
  BY DEF WellFormed64
<1>7. Len(t) = 0 => WellFormed64(t)
  <2>1. 0 % 4 = 0 /\ ~(0 > 0) /\ \A i \in 1 .. 0 : FALSE
    OBVIOUS
  <2>2. QED
    BY <1>2, <2>1, WellFormed64Is
<1>8. phase' = "done" => SizeOf(j) = 0
  BY <1>1
<1>9. \A i \in 1 .. Len(out') : FALSE
  BY <1>1
<1>10. \A p \in 0 .. Len(out') - 1 : FALSE
  BY <1>1
<1>11. \A i \in 1 .. sp' : FALSE
  BY <1>1
<1> HIDE DEF t
<1>12. HexEncodes' /\ B64Encodes'
  BY <1>9 DEF HexEncodes, B64Encodes
<1>13. HexDecodes'
  BY <1>1, <1>3, <1>4, <1>10 DEF HexDecodes, HexDecoded, t
<1>14. BeginsData'
  <2>1. \A d \in Data : Len(d) \in Nat /\ Len(out') <= Len(d)
    BY <1>1, CodecsAssumption
  <2>2. QED
    BY <1>9, <2>1 DEF BeginsData
<1>15. B64Decodes'
  BY <1>1, <1>3, <1>5, <1>6, <1>7, <1>8, <1>11, <1>14 DEF B64Decodes, t
<1>16. QED
  BY <1>12, <1>13, <1>15 DEF Coded

\* Before a call and after it nothing is at work.
LEMMA InitCoded == (Init => Coded) /\ (Return => Coded')
<1>1. Init => Coded
  BY DEF Init, Coded, HexEncodes, B64Encodes, HexDecodes, B64Decodes
<1>2. Return => Coded'
  BY DEF Return, Coded, HexEncodes, B64Encodes, HexDecodes, B64Decodes
<1>3. QED
  BY <1>1, <1>2

\* Every step keeps what is said of the results.
LEMMA NextCoded == CInv /\ Coded /\ [Next]_vars => Coded'
<1> SUFFICES ASSUME CInv, Coded, [Next]_vars PROVE Coded'
  OBVIOUS
<1>1. ASSUME NEW j \in Jobs, Call(j) PROVE Coded'
  BY <1>1, CallCoded
<1>2. CASE Write
  BY <1>2, WriteCoded
<1>3. CASE Refuse
  BY <1>3, RefuseCoded
<1>4. CASE Finish
  BY <1>4, FinishCoded
<1>5. CASE Return
  BY <1>5, InitCoded
<1>6. CASE UNCHANGED vars
  BY <1>6 DEF vars, Coded, HexEncodes, B64Encodes, HexDecodes, HexDecoded, B64Decodes,
              BeginsData, RoomEnough
<1>7. QED
  BY <1>1, <1>2, <1>3, <1>4, <1>5, <1>6 DEF Next

\* Two functions with the same domain and values.
LEMMA SameText ==
  ASSUME NEW s \in Seq(Byte), NEW n \in Nat, Len(s) = n, NEW f,
         f = [k \in 1 .. n |-> f[k]], \A k \in 1 .. n : s[k] = f[k]
  PROVE  s = f
<1>1. s \in [1 .. n -> Byte]
  BY LenProperties
<1>2. s = [k \in 1 .. n |-> s[k]]
  BY <1>1
<1>3. QED
  BY <1>2

\* A call that is through.
LEMMA Through ==
  ASSUME CInv, phase = "done"
  PROVE  /\ job \in Jobs /\ size = SizeOf(job) /\ size \in Nat
         /\ job.input \in Seq(Byte) /\ Len(job.input) \in Nat
         /\ out \in Seq(Byte) /\ Len(out) = size
<1>1. job \in Jobs /\ size = SizeOf(job) /\ out \in Seq(Byte) /\ Len(out) = size
  BY DEF CInv, TypeOK
<1>2. QED
  BY <1>1, JobFacts, LenProperties

\* Every hexadecimal digit is half of a byte.
LEMMA TwoDigits ==
  ASSUME NEW high \in 0 .. 15, NEW low \in 0 .. 15
  PROVE  (high * 16 + low) \div 16 = high /\ (high * 16 + low) % 16 = low
  BY SMTT(30)

\* What hex_decode has read, when it is through: a well-formed text, which is
\* the encoding of what it has written.
LEMMA HexThrough ==
  ASSUME CInv, Coded, phase = "done", job.call = "hex_decode"
  PROVE  /\ WellFormed16(job.input)
         /\ Base16(out) = [k \in DOMAIN job.input |-> Lower(job.input[k])]
<1> DEFINE t == job.input
           n == Len(out)
<1>1. t \in Seq(Byte) /\ n \in Nat /\ out \in Seq(Byte) /\ Len(t) \in Nat
  BY Through
<1>2. Len(t) = 2 * n /\ Len(t) % 2 = 0
  <2> DEFINE m == Len(t)
  <2>1. n = IF m % 2 = 0 THEN m \div 2 ELSE -1
    BY Through DEF SizeOf, hex_decode_size
  <2> HIDE DEF n, m
  <2>2. m \in Nat /\ n \in Nat
    BY <1>1 DEF m
  <2>3. m = 2 * n /\ m % 2 = 0
    BY <2>1, <2>2
  <2>4. QED
    BY <2>3 DEF m
<1>3. HexDecoded
  BY DEF Coded, HexDecodes
<1>4. \A k \in 1 .. 2 * n : t[k] \in Byte
  BY <1>1, <1>2
<1> HIDE DEF t, n
<1>5. ASSUME NEW k \in 1 .. 2 * n
      PROVE  \E p \in 0 .. n - 1 : k = 2 * p + 1 \/ k = 2 * p + 2
  <2>1. (k - 1) \div 2 \in 0 .. n - 1 /\ (k = 2 * ((k - 1) \div 2) + 1 \/ k = 2 * ((k - 1) \div 2) + 2)
    BY <1>1
  <2>2. QED
    BY <2>1
<1>6. ASSUME NEW p \in 0 .. n - 1
      PROVE  /\ hex_values(t[2 * p + 1]) >= 0 /\ hex_values(t[2 * p + 2]) >= 0
             /\ Base16(out)[2 * p + 1] = Lower(t[2 * p + 1])
             /\ Base16(out)[2 * p + 2] = Lower(t[2 * p + 2])
  <2>1. /\ hex_values(t[2 * p + 1]) >= 0 /\ hex_values(t[2 * p + 2]) >= 0
        /\ out[p + 1] = hex_values(t[2 * p + 1]) * 16 + hex_values(t[2 * p + 2])
    BY <1>3 DEF HexDecoded, t, n
  <2>2. 2 * p + 1 \in 1 .. 2 * n /\ 2 * p + 2 \in 1 .. 2 * n /\ p \in Nat /\ p < n
    BY <1>1
  <2>3. t[2 * p + 1] \in Byte /\ t[2 * p + 2] \in Byte
    BY <1>4, <2>2
  <2>4. PICK high \in -1 .. 15, low \in -1 .. 15 :
          high = hex_values(t[2 * p + 1]) /\ low = hex_values(t[2 * p + 2])
    BY <2>3, Tables
  <2>5. high \in 0 .. 15 /\ low \in 0 .. 15
    BY <2>1, <2>4
  <2>6. out[p + 1] \div 16 = high /\ out[p + 1] % 16 = low
    <3>1. out[p + 1] = high * 16 + low
      BY <2>1, <2>4
    <3>2. (high * 16 + low) \div 16 = high /\ (high * 16 + low) % 16 = low
      BY <2>5, TwoDigits
    <3>3. QED
      BY ONLY <3>1, <3>2
  <2>7. /\ Base16(out)[2 * p + 1] = hex_chars(out[p + 1] \div 16)
        /\ Base16(out)[2 * p + 2] = hex_chars(out[p + 1] % 16)
    BY <1>1, <2>2, Base16At DEF n
  <2>8. /\ hex_chars(hex_values(t[2 * p + 1])) = Lower(t[2 * p + 1])
        /\ hex_chars(hex_values(t[2 * p + 2])) = Lower(t[2 * p + 2])
    BY <2>1, <2>3, Alphabet16Is
  <2>9. QED
    BY <2>1, <2>4, <2>6, <2>7, <2>8
<1>7. \A k \in 1 .. 2 * n : hex_values(t[k]) >= 0 /\ Base16(out)[k] = Lower(t[k])
  BY <1>5, <1>6
<1>8. DOMAIN t = 1 .. 2 * n
  BY <1>1, <1>2
<1>9. WellFormed16(t)
  BY <1>2, <1>4, <1>7, <1>8, Alphabet16Is DEF WellFormed16
<1>10. Base16(out) = [k \in DOMAIN t |-> Lower(t[k])]
  <2>1. Base16(out) = [k \in 1 .. 2 * n |-> Base16(out)[k]]
    BY DEF Base16, n
  <2>2. QED
    BY <1>7, <1>8, <2>1
<1>11. QED
  BY <1>9, <1>10 DEF t

-----------------------------------------------------------------------------
\* Whatever loop runs, what it has written so far is the beginning of what it
\* is to write, and a decoder stops at what no encoding has.
THEOREM CodedHolds == Spec => [](CInv /\ Coded)
<1>1. Init => CInv /\ Coded
  BY InitCInv, InitCoded
<1>2. CInv /\ Coded /\ [Next]_vars => (CInv /\ Coded)'
  BY NextCInv, NextCoded
<1>3. QED
  BY <1>1, <1>2, PTL DEF Spec

\* hex_encode and base64_encode (st_codecs_priv.h) write what RFC 4648 says,
\* for all data, whatever its length leaves for the last group.
THEOREM EncodersConform == Spec => []EncodesAsRFC4648
<1>1. ASSUME CInv, Coded, phase = "done", job.call = "hex_encode" PROVE out = Base16(job.input)
  <2> DEFINE d == job.input
             n == 2 * Len(d)
  <2>1. n \in Nat /\ out \in Seq(Byte) /\ Len(out) = n
    BY <1>1, Through, Sizes
  <2>2. \A k \in 1 .. n : out[k] = Base16(d)[k]
    BY <1>1, <2>1 DEF Coded, HexEncodes
  <2>3. Base16(d) = [k \in 1 .. n |-> Base16(d)[k]]
    BY DEF Base16
  <2> HIDE DEF n, d
  <2>4. QED
    BY <2>1, <2>2, <2>3, SameText DEF d
<1>2. ASSUME CInv, Coded, phase = "done", job.call = "base64_encode" PROVE out = Base64(job.input)
  <2> DEFINE d == job.input
             n == 4 * ((Len(d) + 2) \div 3)
  <2>1. n \in Nat /\ out \in Seq(Byte) /\ Len(out) = n
    <3>1. size = ((Len(d) + 2) \div 3) * 4
      BY <1>2, Through, Sizes
    <3>2. Len(d) \in Nat /\ size \in Nat
      BY <1>2, Through
    <3>3. size = n
      <4> DEFINE q == (Len(d) + 2) \div 3
      <4>1. q \in Nat
        <5>1. \A m \in Nat : (m + 2) \div 3 \in Nat
          OBVIOUS
        <5>2. QED
          BY <3>2, <5>1
      <4> HIDE DEF q
      <4>2. q * 4 = 4 * q
        BY <4>1
      <4>3. QED
        BY <3>1, <4>2 DEF q
    <3>4. QED
      BY <1>2, <3>2, <3>3, Through
  <2>2. \A k \in 1 .. n : out[k] = Base64(d)[k]
    BY <1>2, <2>1 DEF Coded, B64Encodes
  <2>3. Base64(d) = [k \in 1 .. n |-> Base64(d)[k]]
    BY DEF Base64
  <2> HIDE DEF n, d
  <2>4. QED
    BY <2>1, <2>2, <2>3, SameText DEF d
<1>3. CInv /\ Coded => EncodesAsRFC4648
  BY <1>1, <1>2 DEF EncodesAsRFC4648
<1>4. QED
  BY <1>3, CodedHolds, PTL

\* hex_decode and base64_decode (st_codecs_priv.h:69-220) give back, for all
\* texts, what was encoded, and refuse every text that is no encoding; with
\* room for the result they refuse no other.
THEOREM DecodersInvert == Spec => []DecodesExactly
<1>1. ASSUME CInv, Coded, phase = "done", job.call = "base64_decode",
             job.input \in { Base64(d) : d \in Data }
      PROVE  Base64(out) = job.input
  <2>1. PICK d \in Data : Base64(d) = job.input
    BY <1>1
  <2>2. d \in Seq(Byte) /\ Len(d) \in Nat
    BY CodecsAssumption, LenProperties
  <2>3. Len(out) = Len(d)
    <3>1. size = SizeOf(job) /\ Len(out) = size
      BY <1>1, Through
    <3>2. SizeOf(job) = b64_decode_size(job.input)
      BY <1>1 DEF SizeOf
    <3>3. b64_decode_size(Base64(d)) = Len(d)
      BY <2>2, Base64Size
    <3>4. QED
      BY <2>1, <3>1, <3>2, <3>3
  <2>4. \A i \in 1 .. Len(d) : out[i] = d[i]
    BY <1>1, <2>1, <2>3 DEF Coded, B64Decodes, BeginsData
  <2>5. d = [i \in 1 .. Len(d) |-> d[i]]
    BY <2>2
  <2>6. out \in Seq(Byte)
    BY <1>1, Through
  <2>7. out = d
    BY <2>2, <2>3, <2>4, <2>5, <2>6, SameText
  <2>8. QED
    BY <2>1, <2>7
<1>2. CInv /\ Coded => DecodesBack
  BY <1>1, HexThrough DEF DecodesBack
<1>3. CInv /\ Coded => RefusesTheRest
  <2> SUFFICES ASSUME CInv, Coded, phase \in {"done", "refused"}, RoomEnough
               PROVE  /\ job.call = "hex_decode"    => (phase = "done" <=> WellFormed16(job.input))
                      /\ job.call = "base64_decode" => (phase = "done" <=> WellFormed64(job.input))
    BY DEF RefusesTheRest, RoomEnough
  <2>1. job.call = "hex_decode" => (phase = "done" <=> WellFormed16(job.input))
    BY HexThrough DEF Coded, HexDecodes
  <2>2. job.call = "base64_decode" => (phase = "done" <=> WellFormed64(job.input))
    BY DEF Coded, B64Decodes
  <2>3. QED
    BY <2>1, <2>2
<1>4. CInv /\ Coded => DecodesExactly
  BY <1>2, <1>3 DEF DecodesExactly
<1>5. QED
  BY <1>4, CodedHolds, PTL
===============================================================================
