-------------------------- MODULE NumberTextProofs --------------------------
(***************************************************************************)
(* For integers of any width and every base: the loop of uint_formatter    *)
(* stays in its buffer, the digits it leaves there add up to the number,   *)
(* and strtol reads them back as it.  For texts of any length: the flags   *)
(* and the number of a conversion tell what the text holds.                *)
(*                                                                         *)
(* What is left of the number is below the power of two that the chars     *)
(* left in the buffer stand for, as each turn divides by two at least; and *)
(* what is left, times the worth of the next digit, plus what was written, *)
(* is the number all the time.  The digits left to write, followed by      *)
(* those in the buffer, are the digits of the number all the time.         *)
(***************************************************************************)
EXTENDS NumberText, TextProofs

-----------------------------------------------------------------------------
(* Arithmetic *)

(* A quotient by a base of two or more is below half of the bound of what was divided. *)
LEMMA QuotientHalves ==
  ASSUME NEW q \in Nat, NEW r \in Nat, NEW d \in Nat, NEW p \in Nat, r >= 2, (q * r) + d < 2 * p
  PROVE  q < p
<1>1. q * r >= q * 2
  OBVIOUS
<1> QED BY <1>1

(* A digit taken off a number and counted at its worth leaves the whole as it was. *)
LEMMA WorthKept ==
  ASSUME NEW q \in Nat, NEW r \in Nat, NEW d \in Nat, NEW u \in Nat, NEW s \in Nat
  PROVE  (((q * r) + d) * u) + s = (q * (u * r)) + (s + (d * u))
OBVIOUS

(* A negative number in the unsigned type of n values, as the casts of the code take it. *)
LEMMA NegativeModulo ==
  ASSUME NEW v \in Int, NEW n \in Nat, n > 0, v < 0, v >= -n
  PROVE  v % n = IF v = -n THEN 0 ELSE v + n
OBVIOUS

(* A number that fits is not changed by the cast. *)
LEMMA SmallModulo ==
  ASSUME NEW v \in Nat, NEW n \in Nat, v < n
  PROVE  v % n = v
OBVIOUS

-----------------------------------------------------------------------------
Size(j) == IF j.value < 0 THEN -j.value ELSE j.value

(* The powers of two at the width of an integer, and one bit below it. *)
LEMMA Halves ==
  /\ Pow2[Width] = 2 * Pow2[Width - 1]
  /\ Pow2[Width] \in Nat /\ Pow2[Width - 1] \in Nat
  /\ Pow2[Width] > 0 => Pow2[Width - 1] > 0
<1>1. Width \in 1 .. LongWidth /\ Width - 1 \in 0 .. LongWidth /\ Width \in 0 .. LongWidth
  BY WidthAssumption
<1> QED BY <1>1, WidthAssumption

\* Both ways to a magnitude reach it, the smallest number's too, and it fits
\* the unsigned type.
LEMMA MagnitudeRight ==
  ASSUME NEW j \in PrintJobs
  PROVE  Magnitude(j) = Size(j) /\ Size(j) \in Nat /\ Size(j) < Pow2[Width]
<1> DEFINE P == Pow2[Width - 1]  N == Pow2[Width]
<1>1. N = 2 * P /\ P \in Nat /\ N \in Nat
  BY Halves
<1>2. CASE j.call = "from_uint"
  <2>1. j.value \in 0 .. N - 1
    BY <1>2 DEF PrintJobs, UnsignedValues
  <2> QED BY <1>1, <1>2, <2>1 DEF Magnitude, Size
<1>3. CASE j.call # "from_uint"
  <2>1. j.value \in -P .. P - 1 /\ P > 0
    BY <1>1, <1>3 DEF PrintJobs, SignedValues
  <2>2. j.value < 0 => Negated(j.value) = -j.value
    <3>1. SUFFICES ASSUME j.value < 0 PROVE Negated(j.value) = -j.value
      OBVIOUS
    <3>2. Unsigned(j.value, Width) = j.value + N
      BY <1>1, <2>1, <3>1, NegativeModulo DEF Unsigned
    <3>3. 0 - (j.value + N) < 0 /\ 0 - (j.value + N) >= -N /\ 0 - (j.value + N) # -N
      BY <1>1, <2>1, <3>1
    <3>4. (0 - (j.value + N)) % N = (0 - (j.value + N)) + N
      BY <1>1, <2>1, <3>3, NegativeModulo
    <3> QED BY <1>1, <2>1, <3>2, <3>4 DEF Negated, Unsigned
  <2>3. Unsigned(abs(j.value), Width) = Size(j)
    <3>1. CASE j.value >= 0
      BY <1>1, <2>1, <3>1, SmallModulo DEF abs, Size, Unsigned
    <3>2. CASE j.value < 0
      <4>1. Unsigned(-j.value, Width) = -j.value
        <5>1. -j.value \in Nat /\ -j.value < N
          BY <1>1, <2>1, <3>2
        <5>2. (-j.value) % N = -j.value
          BY ONLY <1>1, <5>1, SmallModulo
        <5> QED BY <5>2 DEF Unsigned
      <4>2. CASE -j.value < P
        <5>1. abs(j.value) = -j.value
          BY <1>1, <2>1, <3>2, <4>1, <4>2 DEF abs, Signed
        <5> QED BY <3>2, <4>1, <5>1 DEF Size
      <4>3. CASE -j.value = P
        <5>1. abs(j.value) = P - N
          BY <1>1, <2>1, <3>2, <4>1, <4>3 DEF abs, Signed
        <5>2. (P - N) % N = P
          BY <1>1, <2>1, NegativeModulo
        <5> QED BY <3>2, <4>3, <5>1, <5>2 DEF Size, Unsigned
      <4> QED BY <1>1, <2>1, <3>2, <4>2, <4>3
    <3> QED BY <1>1, <2>1, <3>1, <3>2
  <2>4. Magnitude(j) = Size(j)
    BY <1>3, <2>2, <2>3 DEF Magnitude, Size
  <2> QED BY <1>1, <2>1, <2>4 DEF Size
<1> QED BY <1>2, <1>3

-----------------------------------------------------------------------------
\* What is left of the number fits what is left of the buffer, and together
\* with what was written it is the number.
Converting ==
  /\ job \in PrintJobs
  /\ m_start \in 0 .. Width
  /\ value < Pow2[m_start]
  /\ (value * unit) + sum = Size(job)
  /\ value = 0 => m_start < Width

IInv ==
  /\ value \in Nat /\ unit \in Nat /\ sum \in Nat
  /\ m_start \in 0 .. Width
  /\ m_buffer \in [0 .. Width -> Int] /\ m_buffer[Width] = NUL
  /\ phase = "idle" => m_start = Width /\ unit = 1 /\ sum = 0
  /\ phase = "digits" => Converting
  /\ phase = "text" => sum = Size(job) /\ m_start < Width

(* Before the first call nothing is being converted. *)
LEMMA InitIInv == Init => IInv
BY WidthAssumption DEF Init, IInv, Converting, BufferEnd, NUL

(* A call starts with the whole magnitude to be written and the whole buffer free. *)
LEMMA CallPrintIInv ==
  ASSUME IInv, NEW j \in PrintJobs, CallPrint(j)
  PROVE  IInv'
<1>1. Magnitude(j) = Size(j) /\ Size(j) \in Nat /\ Size(j) < Pow2[Width]
  BY MagnitudeRight
<1>2. m_start = Width /\ unit = 1 /\ sum = 0 /\ job' = j /\ value' = Size(j) /\ phase' = "digits"
      /\ unit' = 1 /\ sum' = 0
  BY <1>1 DEF IInv, CallPrint
<1>3. CASE Size(j) = 0
  <2>1. m_start' = Width - 1 /\ m_buffer' = [m_buffer EXCEPT ![Width - 1] = Zero]
    BY <1>1, <1>3 DEF CallPrint, BufferEnd
  <2>2. Width - 1 \in 0 .. Width /\ Width - 1 < Width /\ Width - 1 \in 0 .. LongWidth
    BY WidthAssumption
  <2>3. m_buffer' \in [0 .. Width -> Int] /\ m_buffer'[Width] = NUL
    BY <2>1, <2>2, WidthAssumption DEF IInv, Zero
  <2>4. 0 < Pow2[Width - 1]
    BY <1>1, <1>3, Halves
  <2> QED BY <1>1, <1>2, <1>3, <2>1, <2>2, <2>3, <2>4 DEF IInv, Converting, Size
<1>4. CASE Size(j) # 0
  <2>1. m_start' = Width /\ m_buffer' = m_buffer
    BY <1>1, <1>2, <1>4 DEF CallPrint
  <2>2. (Size(j) * 1) + 0 = Size(j)
    BY <1>1
  <2> QED BY <1>1, <1>2, <1>4, <2>1, <2>2 DEF IInv, Converting, Size
<1> QED BY <1>3, <1>4

\* There is room for a digit: below the lowest power of two is only zero.
LEMMA RoomLeft ==
  ASSUME IInv, phase = "digits", value # 0
  PROVE  m_start \in 1 .. Width
BY WidthAssumption DEF IInv, Converting

(* A digit takes one place of the buffer and divides what is left by the base. *)
LEMMA PutDigitIInv ==
  ASSUME IInv, PutDigit
  PROVE  IInv'
<1> DEFINE r == job.radix  q == value \div r  d == value % r
<1>1. job \in PrintJobs /\ r \in Nat /\ r >= 2 /\ r <= 36 /\ job.upper \in BOOLEAN
  BY RadixAssumption DEF IInv, Converting, PutDigit, PrintJobs
<1>2. value \in Nat /\ unit \in Nat /\ sum \in Nat
  BY DEF IInv
<1>3. q \in Nat /\ d \in 0 .. r - 1 /\ value = (q * r) + d
  BY <1>1, <1>2, DivisionLaw
<1>4. m_start \in 1 .. Width /\ m_start \in 1 .. LongWidth
  BY RoomLeft, WidthAssumption DEF PutDigit
<1>5. Pow2[m_start] = 2 * Pow2[m_start - 1] /\ Pow2[m_start - 1] \in Nat
  BY <1>4, WidthAssumption
<1>6. q < Pow2[m_start - 1]
  <2>1. value < 2 * Pow2[m_start - 1]
    BY <1>5 DEF IInv, Converting, PutDigit
  <2>2. d \in Nat
    BY <1>1, <1>3
  <2> HIDE DEF q, d, r
  <2>3. (q * r) + d < 2 * Pow2[m_start - 1]
    BY <1>3, <2>1
  <2> QED BY <1>1, <1>3, <1>5, <2>2, <2>3, QuotientHalves
<1>7. DigitChar(d, job.upper) \in Int /\ DigitWorth(DigitChar(d, job.upper)) = d
  <2> HIDE DEF q, d, r
  <2>1. d \in 0 .. 35
    BY <1>1, <1>3
  <2> QED BY <1>1, <2>1, DigitCharWorth
<1>8. m_buffer' = [m_buffer EXCEPT ![m_start - 1] = DigitChar(d, job.upper)]
  BY DEF PutDigit
<1>9. m_buffer' \in [0 .. Width -> Int] /\ m_buffer'[Width] = NUL
      /\ m_buffer'[m_start - 1] = DigitChar(d, job.upper)
  BY <1>4, <1>7, <1>8, WidthAssumption DEF IInv
<1>10. value' = q /\ unit' = unit * r /\ sum' = sum + (d * unit) /\ m_start' = m_start - 1
       /\ phase' = "digits" /\ job' = job
  BY <1>7, <1>9 DEF PutDigit
<1>11. unit' \in Nat /\ sum' \in Nat
  <2>1. d \in Nat
    BY <1>1, <1>3
  <2> HIDE DEF q, d, r
  <2>2. unit * r \in Nat /\ d * unit \in Nat
    BY <1>1, <1>2, <2>1, ProductNatural
  <2> QED BY <1>2, <1>10, <2>2
<1>12. (value' * unit') + sum' = Size(job)
  <2>1. (value * unit) + sum = Size(job)
    BY DEF IInv, Converting, PutDigit
  <2>2. d \in Nat
    BY <1>1, <1>3
  <2> HIDE DEF q, d, r
  <2>3. (((q * r) + d) * unit) + sum = Size(job)
    BY ONLY <1>3, <2>1
  <2>4. (((q * r) + d) * unit) + sum = (q * (unit * r)) + (sum + (d * unit))
    BY <1>1, <1>2, <1>3, <2>2, WorthKept
  <2> QED BY <1>10, <2>3, <2>4
<1>13. m_start' \in 0 .. Width /\ m_start' < Width
  BY <1>4, <1>10, WidthAssumption
<1> QED BY <1>1, <1>3, <1>6, <1>9, <1>10, <1>11, <1>12, <1>13 DEF IInv, Converting, Size

(* When nothing is left, the digits are all of the number. *)
LEMMA MakeTextIInv ==
  ASSUME IInv, MakeText
  PROVE  IInv'
<1>1. 0 * unit = 0
  BY DEF IInv
<1> QED BY <1>1 DEF IInv, Converting, MakeText, Size

\* The other calls leave the buffer alone.
LEMMA OthersIInv ==
  ASSUME IInv, \/ \E j \in ReadJobs : CallRead(j)
               \/ \E j \in FloatJobs : CallFloat(j)
               \/ ReadBack \/ Return \/ UNCHANGED vars
  PROVE  IInv'
<1>1. CASE \E j \in ReadJobs : CallRead(j)
  BY <1>1 DEF IInv, CallRead
<1>2. CASE \E j \in FloatJobs : CallFloat(j)
  BY <1>2 DEF IInv, CallFloat
<1>3. CASE ReadBack
  BY <1>3 DEF IInv, ReadBack
<1>4. CASE Return
  BY <1>4, WidthAssumption DEF IInv, Return, BufferEnd, NUL
<1>5. CASE UNCHANGED vars
  BY <1>5 DEF IInv, Converting, Size, vars
<1> QED BY <1>1, <1>2, <1>3, <1>4, <1>5

\* The invariant holds in every state, for every width and every base.
THEOREM IInvHolds == Spec => []IInv
<1>1. IInv /\ [Next]_vars => IInv'
  BY CallPrintIInv, PutDigitIInv, MakeTextIInv, OthersIInv DEF Next
<1> QED BY InitIInv, <1>1, PTL DEF Spec

\* uint_formatter stays in its buffer: NumberText's StaysInBuffer.
THEOREM BufferRespected == Spec => []StaysInBuffer
<1>1. IInv => StaysInBuffer
  BY RoomLeft DEF IInv, StaysInBuffer, BufferEnd
<1> QED BY IInvHolds, <1>1, PTL

\* What it leaves there is the number: NumberText's DigitsAddUp.
THEOREM DigitsAreTheNumber == Spec => []DigitsAddUp
<1>1. IInv => DigitsAddUp
  BY DEF IInv, DigitsAddUp, Size, BufferEnd
<1> QED BY IInvHolds, <1>1, PTL

-----------------------------------------------------------------------------
(* What strtol sees. *)

(* The first place where there is none of these characters, and there is one only. *)
LEMMA PastIs ==
  ASSUME NEW S, NEW t \in Seq(S), NEW p \in 0 .. Len(t), NEW chars
  PROVE  /\ Past(t, p, chars) \in p .. Len(t)
         /\ Past(t, p, chars) = Len(t) \/ t[Past(t, p, chars) + 1] \notin chars
         /\ \A k \in p .. Past(t, p, chars) - 1 : t[k + 1] \in chars
         /\ \A q \in p .. Len(t) :
              /\ q = Len(t) \/ t[q + 1] \notin chars
              /\ \A k \in p .. q - 1 : t[k + 1] \in chars
              => q = Past(t, p, chars)
<1> DEFINE n == Len(t)
           Is(q) == /\ q = n \/ t[q + 1] \notin chars
                    /\ \A k \in p .. q - 1 : t[k + 1] \in chars
           G == {q \in Nat : ~(p <= q /\ q <= n /\ (q = n \/ t[q + 1] \notin chars))}
<1>1. n \in Nat /\ p \in Nat /\ p <= n
  OBVIOUS
<1> HIDE DEF n
<1>2. \E q \in p .. n : Is(q)
  <2> SUFFICES ASSUME \A q \in p .. n : ~Is(q) PROVE FALSE
    OBVIOUS
  <2>1. ASSUME NEW q \in Nat, \A j \in 0 .. q - 1 : j \in G PROVE q \in G
    <3> SUFFICES ASSUME q \notin G PROVE FALSE
      OBVIOUS
    <3>1. p <= q /\ q <= n /\ (q = n \/ t[q + 1] \notin chars)
      OBVIOUS
    <3>2. ASSUME NEW k \in p .. q - 1 PROVE t[k + 1] \in chars
      <4>1. k \in 0 .. q - 1 /\ k \in Nat /\ p <= k /\ k <= n
        BY <1>1, <3>1
      <4>2. k \in G
        BY <2>1, <4>1
      <4>3. QED
        BY <4>1, <4>2
    <3>3. q \in p .. n
      BY <1>1, <3>1
    <3>4. QED
      BY <3>1, <3>2, <3>3
  <2> HIDE DEF G
  <2>2. n \in G
    BY <1>1, <2>1, InductionOn
  <2>3. QED
    BY <1>1, <2>2 DEF G
<1>3. ASSUME NEW q \in p .. n, Is(q), NEW x \in p .. n, Is(x) PROVE ~(q < x)
  <2> SUFFICES ASSUME q < x PROVE FALSE
    OBVIOUS
  <2>1. q \in p .. x - 1 /\ q # n
    BY <1>1
  <2>2. QED
    BY <1>3, <2>1
<1>4. ASSUME NEW q \in p .. n, Is(q), NEW x \in p .. n, Is(x) PROVE q = x
  <2>1. ~(q < x) /\ ~(x < q)
    <3> HIDE DEF Is
    <3>1. QED
      BY <1>3, <1>4
  <2>2. QED
    BY <1>1, <2>1
<1>5. Past(t, p, chars) = CHOOSE q \in p .. n : Is(q)
  BY DEF Past, n
<1>6. Past(t, p, chars) \in p .. n /\ Is(Past(t, p, chars))
  <2> HIDE DEF Is
  <2>1. QED
    BY <1>2, <1>5
<1>7. ASSUME NEW q \in p .. n, Is(q) PROVE q = Past(t, p, chars)
  <2> HIDE DEF Is
  <2>1. QED
    BY <1>4, <1>6, <1>7
<1>8. QED
  BY <1>6, <1>7 DEF n

\* The character at a place, the terminator at the end.
At(t, p) == IF p < Len(t) THEN t[p + 1] ELSE NUL

BlanksEnd(t) == Past(t, 0, Spaces)
SignEnd(t)   == IF At(t, BlanksEnd(t)) \in {Plus, Minus} THEN BlanksEnd(t) + 1 ELSE BlanksEnd(t)

\* The base of the digits, where they begin, and where they end.
RadixOf(t, base)     == BaseAt(t, base, SignEnd(t))
DigitsStart(t, base) == FirstAt(t, base, SignEnd(t))
DigitsEnd(t, base)   == Past(t, DigitsStart(t, base), DigitCodes(RadixOf(t, base)))

SignedWorth(t, base) ==
  LET size == Worth(SubSeq(t, DigitsStart(t, base) + 1, DigitsEnd(t, base)), RadixOf(t, base))
  IN  IF At(t, BlanksEnd(t)) = Minus THEN -size ELSE size

(* The terminator is no digit, no sign and no space, and neither of the others is another. *)
LEMMA NotDigits ==
  ASSUME NEW base
  PROVE  /\ ~IsDigit(NUL, base) /\ ~IsDigit(Plus, base) /\ ~IsDigit(Minus, base)
         /\ \A c \in Spaces : ~IsDigit(c, base) /\ c # NUL
         /\ Plus \notin Spaces /\ Minus \notin Spaces /\ Zero \notin Spaces
BY DEF IsDigit, NUL, Blank, Plus, Minus, Zero, Spaces

(* A digit of a base is among its codes. *)
LEMMA DigitIsCode ==
  ASSUME NEW c, NEW base, IsDigit(c, base)
  PROVE  c \in DigitCodes(base)
<1>1. c \in 48 .. 57 \/ c \in 65 .. 90 \/ c \in 97 .. 122
  BY DEF IsDigit
<1>2. c \in 48 .. 122
  <2>1. PICK x \in Int : x = c
    BY <1>1
  <2>2. x \in 48 .. 57 \/ x \in 65 .. 90 \/ x \in 97 .. 122
    BY <1>1, <2>1
  <2>3. 48 <= x /\ x <= 122
    BY <2>2
  <2>4. QED
    BY <2>1, <2>3
<1>3. QED
  BY <1>2 DEF DigitCodes

(* The prefix, as the scan looks for it; the terminator is none of its characters. *)
LEMMA PrefixSeen ==
  ASSUME NEW t, Len(t) \in Nat, NEW p \in Nat
  PROVE  /\ Prefixed(t, p) <=> /\ At(t, p) = Zero /\ At(t, p + 1) \in {120, 88}
                               /\ IsDigit(At(t, p + 2), 16)
         /\ At(t, p) = Zero <=> p < Len(t) /\ t[p + 1] = Zero
<1>1. ASSUME NEW q \in Nat
      PROVE  /\ At(t, q) = Zero <=> q < Len(t) /\ t[q + 1] = Zero
             /\ At(t, q) \in {120, 88} <=> q < Len(t) /\ t[q + 1] \in {120, 88}
             /\ IsDigit(At(t, q), 16) <=> q < Len(t) /\ IsDigit(t[q + 1], 16)
  BY NotDigits DEF At, NUL, Zero
<1>2. p + 1 \in Nat /\ p + 2 \in Nat /\ (p + 1) + 1 = p + 2 /\ (p + 2) + 1 = p + 3
  OBVIOUS
<1>3. /\ At(t, p) = Zero <=> p < Len(t) /\ t[p + 1] = Zero
      /\ At(t, p + 1) \in {120, 88} <=> p + 1 < Len(t) /\ t[p + 2] \in {120, 88}
      /\ IsDigit(At(t, p + 2), 16) <=> p + 2 < Len(t) /\ IsDigit(t[p + 3], 16)
  BY <1>1, <1>2
<1>4. p + 2 < Len(t) => p < Len(t) /\ p + 1 < Len(t)
  OBVIOUS
<1>5. QED
  BY <1>3, <1>4 DEF Prefixed

(* Where the spaces, the sign and the prefix end. *)
LEMMA PlacesOfScan ==
  ASSUME NEW S, NEW t \in Seq(S), NEW base
  PROVE  /\ BlanksEnd(t) \in 0 .. Len(t)
         /\ \A i \in 1 .. BlanksEnd(t) : t[i] \in Spaces
         /\ SignEnd(t) = From(t, BlanksEnd(t)) /\ SignEnd(t) \in BlanksEnd(t) .. Len(t)
         /\ DigitsStart(t, base) \in SignEnd(t) .. Len(t)
         /\ DigitsEnd(t, base) \in DigitsStart(t, base) .. Len(t)
         /\ \A i \in DigitsStart(t, base) + 1 .. DigitsEnd(t, base) :
              IsDigit(t[i], RadixOf(t, base))
<1>1. Len(t) \in Nat /\ 0 \in 0 .. Len(t)
  OBVIOUS
<1>2. PICK b \in 0 .. Len(t) : b = BlanksEnd(t)
  BY <1>1, PastIs DEF BlanksEnd
<1>3. ASSUME NEW i \in 1 .. b PROVE t[i] \in Spaces
  <2>1. \A k \in 0 .. BlanksEnd(t) - 1 : t[k + 1] \in Spaces
    BY <1>1, PastIs DEF BlanksEnd
  <2>2. i - 1 \in 0 .. b - 1 /\ (i - 1) + 1 = i
    BY <1>1
  <2>3. t[(i - 1) + 1] \in Spaces
    BY <1>2, <2>1, <2>2
  <2>4. QED
    BY <2>2, <2>3
<1>4. At(t, b) \in {Plus, Minus} <=> SignAt(t, b)
  BY DEF At, SignAt, NUL, Plus, Minus
<1>5. SignEnd(t) = From(t, b)
  BY <1>2, <1>4 DEF SignEnd, From
<1>6. PICK s \in b .. Len(t) : s = SignEnd(t)
  <2>1. SignAt(t, b) => b < Len(t)
    BY DEF SignAt
  <2>2. From(t, b) \in b .. Len(t)
    BY <1>1, <2>1 DEF From
  <2>3. QED
    BY <1>5, <2>2
<1>7. PICK d \in s .. Len(t) : d = DigitsStart(t, base)
  <2>1. Prefixed(t, s) => s + 2 < Len(t)
    BY DEF Prefixed
  <2>2. FirstAt(t, base, s) \in s .. Len(t)
    BY <1>1, <2>1 DEF FirstAt
  <2>3. QED
    BY <1>6, <2>2 DEF DigitsStart
<1>8. d \in 0 .. Len(t)
  BY <1>1
<1>9. PICK e \in d .. Len(t) : e = DigitsEnd(t, base)
  BY <1>7, <1>8, PastIs DEF DigitsEnd
<1>10. ASSUME NEW i \in d + 1 .. e PROVE IsDigit(t[i], RadixOf(t, base))
  <2>1. \A k \in d .. e - 1 : t[k + 1] \in DigitCodes(RadixOf(t, base))
    BY <1>7, <1>8, <1>9, PastIs DEF DigitsEnd
  <2>2. i - 1 \in d .. e - 1 /\ (i - 1) + 1 = i
    BY <1>1, <1>8
  <2>3. t[i] \in DigitCodes(RadixOf(t, base))
    BY <2>1, <2>2
  <2>4. QED
    BY <2>3 DEF DigitCodes
<1>11. QED
  BY <1>2, <1>3, <1>5, <1>6, <1>7, <1>9, <1>10

(* The scan, place by place. *)
LEMMA ScanIs ==
  ASSUME NEW S, NEW t \in Seq(S), NEW base, NEW low, NEW high, NEW below
  PROVE  scan(t, base, low, high, below) =
           IF DigitsEnd(t, base) = DigitsStart(t, base) THEN [value |-> 0, end |-> 0]
           ELSE [value |-> IF SignedWorth(t, base) > high THEN high
                           ELSE IF SignedWorth(t, base) < low THEN below
                           ELSE SignedWorth(t, base),
                 end |-> DigitsEnd(t, base)]
<1> DEFINE blanks == Past(t, 0, Spaces)
           at(p)  == IF p < Len(t) THEN t[p + 1] ELSE NUL
           sign   == IF at(blanks) \in {Plus, Minus} THEN blanks + 1 ELSE blanks
           hex    == base \in {0, 16} /\ at(sign) = Zero /\ at(sign + 1) \in {120, 88}
                     /\ IsDigit(at(sign + 2), 16)
           radix  == IF base # 0 THEN base ELSE IF hex THEN 16 ELSE IF at(sign) = Zero THEN 8 ELSE 10
           first  == IF hex THEN sign + 2 ELSE sign
           end    == Past(t, first, {c \in 48 .. 122 : IsDigit(c, radix)})
           size   == Worth(SubSeq(t, first + 1, end), radix)
           signed == IF at(blanks) = Minus THEN -size ELSE size
<1>1. scan(t, base, low, high, below) =
        IF end = first THEN [value |-> 0, end |-> 0]
        ELSE [value |-> IF signed > high THEN high ELSE IF signed < low THEN below ELSE signed,
              end |-> end]
  BY DEF scan
<1>3. blanks = BlanksEnd(t) /\ at(blanks) = At(t, BlanksEnd(t))
  BY DEF BlanksEnd, At
<1>4. sign = SignEnd(t)
  BY <1>3 DEF SignEnd, BlanksEnd
<1>5. at(sign) = At(t, SignEnd(t)) /\ at(sign + 1) = At(t, SignEnd(t) + 1)
      /\ at(sign + 2) = At(t, SignEnd(t) + 2)
  <2> HIDE DEF sign
  <2>1. QED
    BY <1>4 DEF At
<1> HIDE DEF at, sign
<1>a. SignEnd(t) \in Nat /\ Len(t) \in Nat
  <2>1. PICK b \in 0 .. Len(t) : b = BlanksEnd(t)
    BY PlacesOfScan
  <2>2. SignEnd(t) \in b .. Len(t)
    BY <2>1, PlacesOfScan
  <2>3. QED
    BY <2>1, <2>2
<1>b. hex <=> base \in {0, 16} /\ Prefixed(t, SignEnd(t))
  BY <1>5, <1>a, PrefixSeen
<1> HIDE DEF hex
<1>2. radix = RadixOf(t, base)
  <2>1. at(sign) = Zero <=> SignEnd(t) < Len(t) /\ t[SignEnd(t) + 1] = Zero
    BY <1>5, <1>a, PrefixSeen
  <2>2. QED
    BY <1>b, <2>1 DEF RadixOf, BaseAt
<1> HIDE DEF radix
<1>6. first = DigitsStart(t, base)
  BY <1>4, <1>b DEF DigitsStart, FirstAt
<1> HIDE DEF first
<1>7. end = DigitsEnd(t, base)
  BY <1>2, <1>6 DEF DigitsEnd, DigitCodes
<1> HIDE DEF end
<1>8. size = Worth(SubSeq(t, DigitsStart(t, base) + 1, DigitsEnd(t, base)), RadixOf(t, base))
  BY <1>2, <1>6, <1>7
<1> HIDE DEF size, blanks
<1>9. signed = SignedWorth(t, base)
  BY <1>3, <1>8 DEF SignedWorth
<1> HIDE DEF signed
<1>10. QED
  BY <1>1, <1>6, <1>7, <1>9

(* A number leads the scan to its digits, and to the end of the text where it is the whole text. *)
LEMMA NumberFound ==
  ASSUME NEW S, NEW t \in Seq(S), NEW base, NEW lead \in 0 .. Len(t),
         NEW end \in 0 .. Len(t), NumberAt(t, base, lead, end)
  PROVE  /\ BlanksEnd(t) = lead /\ lead < Len(t) /\ SignEnd(t) = From(t, lead)
         /\ DigitsEnd(t, base) # DigitsStart(t, base)
         /\ end = Len(t) => DigitsEnd(t, base) = Len(t)
<1>1. Len(t) \in Nat /\ 0 \in 0 .. Len(t)
  OBVIOUS
<1>2. PICK p \in lead .. lead + 1 : p = From(t, lead)
  BY DEF From
<1>3. PICK d \in {p, p + 2} : d = FirstAt(t, base, p)
  BY DEF FirstAt
<1>4. PICK radix : radix = BaseAt(t, base, p)
  OBVIOUS
<1>5. /\ \A i \in 1 .. lead : t[i] \in Spaces
      /\ d < end
      /\ \A i \in d + 1 .. end : IsDigit(t[i], radix)
  BY <1>2, <1>3, <1>4 DEF NumberAt
<1>6. d \in p .. Len(t) - 1 /\ d \in 0 .. Len(t) /\ d + 1 \in d + 1 .. end /\ lead < Len(t)
      /\ d # Len(t)
  BY <1>1, <1>3, <1>5
<1>7. IsDigit(t[d + 1], radix)
  BY <1>5, <1>6
<1>8. t[lead + 1] \notin Spaces
  <2>1. CASE SignAt(t, lead)
    BY <2>1, NotDigits DEF SignAt
  <2>2. CASE ~SignAt(t, lead) /\ d = p
    <3>1. d = lead
      BY <1>2, <2>2 DEF From
    <3>2. QED
      BY <1>7, <3>1, NotDigits
  <2>3. CASE ~SignAt(t, lead) /\ d # p
    <3>1. p = lead /\ Prefixed(t, p)
      BY <1>2, <1>3, <2>3 DEF From, FirstAt
    <3>2. QED
      BY <3>1, NotDigits DEF Prefixed
  <2>4. QED
    BY <2>1, <2>2, <2>3
<1>9. BlanksEnd(t) = lead
  <2>1. \A k \in 0 .. lead - 1 : t[k + 1] \in Spaces
    <3> SUFFICES ASSUME NEW k \in 0 .. lead - 1 PROVE t[k + 1] \in Spaces
      OBVIOUS
    <3>1. k + 1 \in 1 .. lead
      BY <1>1
    <3>2. QED
      BY <1>5, <3>1
  <2>2. lead = Past(t, 0, Spaces)
    BY <1>1, <1>8, <2>1, PastIs
  <2>3. QED
    BY <2>2 DEF BlanksEnd
<1>10. SignEnd(t) = p
  BY <1>2, <1>9, PlacesOfScan
<1>11. DigitsStart(t, base) = d /\ RadixOf(t, base) = radix
  BY <1>3, <1>4, <1>10 DEF DigitsStart, RadixOf
<1>12. DigitsEnd(t, base) # d
  <2>1. t[d + 1] \in DigitCodes(radix)
    BY <1>7, DigitIsCode
  <2>2. Past(t, d, DigitCodes(radix)) = Len(t) \/ t[Past(t, d, DigitCodes(radix)) + 1] \notin DigitCodes(radix)
    BY <1>6, PastIs
  <2>3. QED
    BY <1>6, <1>11, <2>1, <2>2 DEF DigitsEnd
<1>13. ASSUME end = Len(t) PROVE DigitsEnd(t, base) = Len(t)
  <2>1. \A k \in d .. Len(t) - 1 : t[k + 1] \in DigitCodes(radix)
    <3> SUFFICES ASSUME NEW k \in d .. Len(t) - 1 PROVE t[k + 1] \in DigitCodes(radix)
      OBVIOUS
    <3>1. k + 1 \in d + 1 .. end
      BY <1>6, <1>13
    <3>2. QED
      BY <1>5, <3>1, DigitIsCode
  <2>2. Len(t) \in d .. Len(t)
    BY <1>6
  <2>3. Len(t) = Past(t, d, DigitCodes(radix))
    BY <1>6, <2>1, <2>2, PastIs
  <2>4. QED
    BY <1>11, <2>3 DEF DigitsEnd
<1>14. QED
  BY <1>2, <1>6, <1>9, <1>10, <1>11, <1>12, <1>13

(* Where the scan finds digits there is a number, and it ends where they do. *)
LEMMA FoundNumber ==
  ASSUME NEW S, NEW t \in Seq(S), NEW base, DigitsEnd(t, base) # DigitsStart(t, base)
  PROVE  /\ BlanksEnd(t) \in 0 .. Len(t) /\ DigitsEnd(t, base) \in 0 .. Len(t)
         /\ NumberAt(t, base, BlanksEnd(t), DigitsEnd(t, base))
<1>1. PICK b \in 0 .. Len(t) : b = BlanksEnd(t)
  BY PlacesOfScan
<1>2. PICK s \in b .. Len(t) : s = SignEnd(t)
  BY <1>1, PlacesOfScan
<1>3. PICK d \in s .. Len(t) : d = DigitsStart(t, base)
  BY <1>2, PlacesOfScan
<1>4. PICK e \in d .. Len(t) : e = DigitsEnd(t, base)
  BY <1>3, PlacesOfScan
<1>5. s = From(t, b) /\ \A i \in 1 .. b : t[i] \in Spaces
  BY <1>1, <1>2, PlacesOfScan
<1>6. d < e /\ e \in 0 .. Len(t)
  BY <1>3, <1>4
<1>7. \A i \in d + 1 .. e : IsDigit(t[i], RadixOf(t, base))
  BY <1>3, <1>4, PlacesOfScan
<1>8. d = FirstAt(t, base, s) /\ RadixOf(t, base) = BaseAt(t, base, s)
  BY <1>2, <1>3 DEF DigitsStart, RadixOf
<1>9. NumberAt(t, base, b, e)
  BY <1>5, <1>6, <1>7, <1>8 DEF NumberAt
<1>10. QED
  BY <1>1, <1>4, <1>6, <1>9

-----------------------------------------------------------------------------
(* The terminator *)

Byte == 0 .. 255

\* The text as a C string: its characters up to the first terminator.
LEMMA CStringFacts ==
  ASSUME NEW t \in Seq(Byte)
  PROVE  /\ CString(t) \in Seq(Byte) /\ Len(CString(t)) \in 0 .. Len(t)
         /\ \A i \in 1 .. Len(CString(t)) : CString(t)[i] = t[i] /\ t[i] # NUL
         /\ Len(CString(t)) = Len(t) \/ t[Len(CString(t)) + 1] = NUL
         /\ Len(CString(t)) = Len(t) => CString(t) = t
<1> DEFINE chars == 1 .. 255
<1>1. ASSUME NEW x \in Byte PROVE x \in chars <=> x # NUL
  BY DEF Byte, NUL
<1> HIDE DEF chars
<1>2. Len(t) \in Nat /\ 0 \in 0 .. Len(t) /\ \A i \in 1 .. Len(t) : t[i] \in Byte
  OBVIOUS
<1>3. PICK c \in 0 .. Len(t) : c = Past(t, 0, chars)
  BY <1>2, PastIs
<1>4. c = Len(t) \/ t[c + 1] = NUL
  <2>1. c = Len(t) \/ t[c + 1] \notin chars
    BY <1>2, <1>3, PastIs
  <2>2. c # Len(t) => c + 1 \in 1 .. Len(t)
    BY <1>2
  <2>3. QED
    BY <1>1, <1>2, <2>1, <2>2
<1>5. CString(t) = SubSeq(t, 1, c)
  BY <1>3 DEF CString, chars
<1> DEFINE s == SubSeq(t, 1, c)
<1>6. s \in Seq(Byte) /\ Len(s) = c /\ \A i \in 1 .. c : s[i] = t[i]
  <2>1. \A i \in 1 .. c : t[i] \in Byte
    BY <1>2
  <2> HIDE DEF Byte
  <2>2. QED
    BY <2>1
<1>7. ASSUME NEW i \in 1 .. c PROVE t[i] # NUL
  <2>1. \A k \in 0 .. c - 1 : t[k + 1] \in chars
    BY <1>2, <1>3, PastIs
  <2>2. i - 1 \in 0 .. c - 1 /\ (i - 1) + 1 = i /\ i \in 1 .. Len(t)
    BY <1>2
  <2>3. t[i] \in chars
    BY <2>1, <2>2
  <2>4. QED
    BY <1>1, <1>2, <2>2, <2>3
<1>8. c = Len(t) => s = t
  <2> HIDE DEF Byte
  <2>1. QED
    OBVIOUS
<1> HIDE DEF s
<1>9. QED
  BY <1>4, <1>5, <1>6, <1>7, <1>8 DEF s

(* Up to the terminator the two texts look the same: a sign, a prefix, the base they choose. *)
LEMMA SameBeforeNul ==
  ASSUME NEW t, NEW s, Len(t) \in Nat, Len(s) \in 0 .. Len(t),
         \A i \in 1 .. Len(s) : s[i] = t[i], Len(s) = Len(t) \/ t[Len(s) + 1] = NUL,
         NEW base, NEW p \in 0 .. Len(s)
  PROVE  /\ SignAt(s, p) <=> SignAt(t, p)
         /\ FirstAt(s, base, p) = FirstAt(t, base, p) /\ BaseAt(s, base, p) = BaseAt(t, base, p)
         /\ From(t, p) \in 0 .. Len(s) /\ FirstAt(t, base, p) \in 0 .. Len(s)
<1>1. PICK c \in 0 .. Len(t) : c = Len(s)
  OBVIOUS
<1>2. p < c => p < Len(t) /\ p + 1 \in 1 .. c /\ s[p + 1] = t[p + 1]
  BY <1>1
<1>3. ~(p < c) => p = c
  BY <1>1
<1>4. c # Len(t) => t[c + 1] = NUL
  BY <1>1
<1>5. p < Len(t) /\ t[p + 1] # NUL => p < c
  BY <1>1, <1>3, <1>4
<1>6. SignAt(s, p) <=> SignAt(t, p)
  BY <1>1, <1>2, <1>5 DEF SignAt, NUL, Plus, Minus
<1>7. (p < c /\ s[p + 1] = Zero) <=> (p < Len(t) /\ t[p + 1] = Zero)
  BY <1>2, <1>5 DEF NUL, Zero
<1>8. Prefixed(s, p) <=> Prefixed(t, p)
  <2>1. ASSUME Prefixed(s, p) PROVE Prefixed(t, p)
    <3>1. p + 2 < c /\ p + 1 \in 1 .. c /\ p + 2 \in 1 .. c /\ p + 3 \in 1 .. c /\ p + 2 < Len(t)
      BY <1>1, <2>1 DEF Prefixed
    <3>2. s[p + 1] = t[p + 1] /\ s[p + 2] = t[p + 2] /\ s[p + 3] = t[p + 3]
      BY <1>1, <3>1
    <3>3. QED
      BY <2>1, <3>1, <3>2 DEF Prefixed
  <2>2. ASSUME Prefixed(t, p) PROVE Prefixed(s, p)
    <3>1. t[p + 1] # NUL /\ t[p + 2] # NUL /\ t[p + 3] # NUL
      BY <2>2, NotDigits DEF Prefixed, NUL, Zero
    <3>2. p + 2 < Len(t)
      BY <2>2 DEF Prefixed
    <3>3. c # p /\ c # p + 1 /\ c # p + 2
      BY <1>1, <1>4, <3>1, <3>2
    <3>4. p + 2 < c /\ p + 1 \in 1 .. c /\ p + 2 \in 1 .. c /\ p + 3 \in 1 .. c
      BY <1>1, <3>3
    <3>5. s[p + 1] = t[p + 1] /\ s[p + 2] = t[p + 2] /\ s[p + 3] = t[p + 3]
      BY <1>1, <3>4
    <3>6. QED
      BY <1>1, <2>2, <3>4, <3>5 DEF Prefixed
  <2>3. QED
    BY <2>1, <2>2
<1>9. From(t, p) \in 0 .. c
  <2>1. SignAt(t, p) => p < c
    BY <1>5 DEF SignAt, NUL, Plus, Minus
  <2>2. QED
    BY <1>1, <2>1 DEF From
<1>10. FirstAt(t, base, p) \in 0 .. c
  <2>1. Prefixed(t, p) => p + 2 < c
    BY <1>1, <1>8 DEF Prefixed
  <2>2. QED
    BY <1>1, <2>1 DEF FirstAt
<1>11. QED
  BY <1>1, <1>6, <1>7, <1>8, <1>9, <1>10 DEF FirstAt, BaseAt

(* A number is found in a text if and only if it is found before the terminator. *)
LEMMA NumberBeforeNul ==
  ASSUME NEW t \in Seq(Byte), NEW base, NEW lead \in Nat, NEW end \in Nat
  PROVE  /\ lead \in 0 .. Len(CString(t)) /\ end \in 0 .. Len(CString(t))
              /\ NumberAt(CString(t), base, lead, end)
            => lead \in 0 .. Len(t) /\ end \in 0 .. Len(t) /\ NumberAt(t, base, lead, end)
         /\ lead \in 0 .. Len(t) /\ end \in 0 .. Len(t) /\ NumberAt(t, base, lead, end)
            => lead \in 0 .. Len(CString(t)) /\ end \in 0 .. Len(CString(t))
               /\ NumberAt(CString(t), base, lead, end)
<1>1. PICK s \in Seq(Byte) : s = CString(t)
  BY CStringFacts
<1>2. PICK c \in 0 .. Len(t) : c = Len(s)
  BY <1>1, CStringFacts
<1>3. /\ \A i \in 1 .. c : s[i] = t[i] /\ t[i] # NUL
      /\ c = Len(t) \/ t[c + 1] = NUL
  BY <1>1, <1>2, CStringFacts
<1> HIDE DEF Byte
<1>4. Len(t) \in Nat /\ Len(s) \in 0 .. Len(t) /\ c \in Nat /\ c <= Len(t)
  BY <1>2
<1>5. ASSUME NEW p \in 0 .. c
      PROVE  /\ From(s, p) = From(t, p) /\ From(t, p) \in 0 .. c
             /\ FirstAt(s, base, p) = FirstAt(t, base, p) /\ BaseAt(s, base, p) = BaseAt(t, base, p)
             /\ FirstAt(t, base, p) \in 0 .. c
  <2>1. /\ SignAt(s, p) <=> SignAt(t, p)
        /\ FirstAt(s, base, p) = FirstAt(t, base, p) /\ BaseAt(s, base, p) = BaseAt(t, base, p)
        /\ From(t, p) \in 0 .. Len(s) /\ FirstAt(t, base, p) \in 0 .. Len(s)
    <3>1. p \in 0 .. Len(s)
      BY <1>2
    <3>2. (\A i \in 1 .. Len(s) : s[i] = t[i]) /\ (Len(s) = Len(t) \/ t[Len(s) + 1] = NUL)
      BY <1>2, <1>3
    <3>3. QED
      BY <1>4, <3>1, <3>2, SameBeforeNul
  <2>2. QED
    BY <1>2, <2>1 DEF From
<1>6. ASSUME lead \in 0 .. c, end \in 0 .. c
      PROVE  NumberAt(s, base, lead, end) <=> NumberAt(t, base, lead, end)
  <2>1. PICK p \in 0 .. c : p = From(t, lead) /\ p = From(s, lead)
    BY <1>5, <1>6
  <2>2. PICK d \in 0 .. c : d = FirstAt(t, base, p) /\ d = FirstAt(s, base, p)
    BY <1>5
  <2>3. BaseAt(s, base, p) = BaseAt(t, base, p)
    BY <1>5
  <2>4. \A i \in 1 .. lead : s[i] = t[i]
    BY <1>3, <1>4, <1>6
  <2>5. \A i \in d + 1 .. end : s[i] = t[i]
    BY <1>3, <1>4, <1>6
  <2>6. QED
    BY <2>1, <2>2, <2>3, <2>4, <2>5 DEF NumberAt
<1>7. ASSUME lead \in 0 .. Len(t), end \in 0 .. Len(t), NumberAt(t, base, lead, end)
      PROVE  lead \in 0 .. c /\ end \in 0 .. c
  <2>1. ASSUME NEW k \in 0 .. Len(t), \A i \in c + 1 .. k : t[i] # NUL PROVE k \in 0 .. c
    <3>1. c < k => c # Len(t) /\ c + 1 \in c + 1 .. k
      BY <1>4
    <3>2. QED
      BY <1>3, <1>4, <2>1, <3>1
  <2>2. lead \in 0 .. c
    <3>1. \A i \in c + 1 .. lead : i \in 1 .. lead
      BY <1>4
    <3>2. \A i \in c + 1 .. lead : t[i] # NUL
      BY <1>7, <3>1, NotDigits DEF NumberAt
    <3>3. QED
      BY <1>7, <2>1, <3>2
  <2>3. PICK p \in 0 .. c : p = From(t, lead)
    BY <1>5, <2>2
  <2>4. PICK d \in 0 .. c : d = FirstAt(t, base, p)
    BY <1>5
  <2>5. end \in 0 .. c
    <3>1. \A i \in c + 1 .. end : i \in d + 1 .. end
      BY <1>4
    <3>2. \A i \in d + 1 .. end : IsDigit(t[i], BaseAt(t, base, p))
      BY <1>7, <2>3, <2>4 DEF NumberAt
    <3>3. \A i \in c + 1 .. end : t[i] # NUL
      BY <3>1, <3>2, NotDigits
    <3>4. QED
      BY <1>7, <2>1, <3>3
  <2>6. QED
    BY <2>2, <2>5
<1>8. \A k \in 0 .. c : k \in 0 .. Len(t)
  BY <1>4
<1>9. QED
  BY <1>1, <1>2, <1>6, <1>7, <1>8

-----------------------------------------------------------------------------
(* The types *)

(* A wider type has the larger power of two. *)
LEMMA PowersGrow ==
  ASSUME NEW a \in 0 .. LongWidth, NEW b \in a .. LongWidth
  PROVE  Pow2[a] \in Nat /\ Pow2[b] \in Nat /\ Pow2[a] <= Pow2[b]
<1> DEFINE G == {k \in Nat : a + k <= LongWidth => Pow2[a] <= Pow2[a + k]}
<1>0. LongWidth \in Nat /\ a \in Nat /\ b \in Nat /\ \A i \in 0 .. LongWidth : Pow2[i] \in Nat
  BY WidthAssumption
<1>1. ASSUME NEW k \in Nat, \A j \in 0 .. k - 1 : j \in G PROVE k \in G
  <2>1. SUFFICES ASSUME a + k <= LongWidth PROVE Pow2[a] <= Pow2[a + k]
    OBVIOUS
  <2>2. CASE k = 0
    <3>1. a + k = a
      BY <1>0, <2>2
    <3>2. QED
      BY <1>0, <3>1
  <2>3. CASE k # 0
    <3>1. k - 1 \in 0 .. k - 1 /\ k - 1 \in Nat /\ a + (k - 1) <= LongWidth
      BY <1>0, <2>1, <2>3
    <3>2. Pow2[a] <= Pow2[a + (k - 1)]
      BY <1>1, <3>1
    <3>3. a + k \in 1 .. LongWidth /\ (a + k) - 1 = a + (k - 1) /\ a + (k - 1) \in 0 .. LongWidth
      BY <1>0, <2>1, <2>3
    <3>4. Pow2[a + k] = 2 * Pow2[a + (k - 1)]
      BY <3>3, WidthAssumption
    <3>5. QED
      BY <1>0, <3>2, <3>3, <3>4
  <2>4. QED
    BY <2>2, <2>3
<1> HIDE DEF G
<1>2. b - a \in Nat /\ a + (b - a) = b
  BY <1>0
<1>3. b - a \in G
  BY <1>1, <1>2, InductionOn
<1>4. Pow2[a] <= Pow2[b]
  BY <1>0, <1>2, <1>3 DEF G
<1>5. QED
  BY <1>0, <1>4

ReadCalls == {"to_int", "to_long", "to_uint", "to_ulong"}

Result(call, t, base) == IF call \in {"to_int", "to_long"} THEN strtol(t, base) ELSE strtoul(t, base)

(* A narrower type that holds the number is given it by the cast. *)
LEMMA Narrowed ==
  ASSUME NEW call \in ReadCalls, NEW v \in RangeOf(call)
  PROVE  v \in Int /\ Narrow(call, v) = v
<1> DEFINE P == Pow2[Width - 1]  N == Pow2[Width]
<1>1. N = 2 * P /\ P \in Nat /\ N \in Nat
  BY Halves
<1>2. CASE call = "to_int"
  <2>1. v \in -P .. P - 1
    BY <1>2 DEF RangeOf
  <2> HIDE DEF P, N
  <2>2. v \in Int /\ -P <= v /\ v <= P - 1 /\ P > 0
    BY <1>1, <2>1
  <2>3. CASE v >= 0
    <3>1. v % N = v
      <4>1. v \in Nat /\ v < N
        BY <1>1, <2>2, <2>3
      <4>2. QED
        BY ONLY <1>1, <4>1, SmallModulo
    <3>2. Unsigned(v, Width) = v
      BY <3>1 DEF Unsigned, N
    <3>3. ~(v >= P)
      BY <1>1, <2>2
    <3>4. Signed(v, Width) = v
      BY <3>2, <3>3 DEF Signed, P
    <3>5. QED
      BY <1>2, <2>2, <3>4 DEF Narrow
  <2>4. CASE v < 0
    <3>1. v % N = v + N
      <4>1. N > 0 /\ v >= -N /\ v # -N
        BY <1>1, <2>2
      <4>2. QED
        BY <1>1, <2>2, <2>4, <4>1, NegativeModulo
    <3>2. Unsigned(v, Width) = v + N
      BY <3>1 DEF Unsigned, N
    <3>3. v + N >= P /\ (v + N) - N = v
      BY <1>1, <2>2
    <3>4. Signed(v, Width) = v
      BY <3>2, <3>3 DEF Signed, P, N
    <3>5. QED
      BY <1>2, <2>2, <3>4 DEF Narrow
  <2>5. QED
    BY <2>2, <2>3, <2>4
<1>3. CASE call = "to_uint"
  <2>1. v \in 0 .. N - 1
    BY <1>3 DEF RangeOf
  <2> HIDE DEF P, N
  <2>2. v \in Nat /\ v < N
    BY <1>1, <2>1
  <2>3. v % N = v
    BY ONLY <1>1, <2>2, SmallModulo
  <2>4. QED
    BY <1>3, <2>2, <2>3 DEF Narrow, Unsigned, N
<1>4. CASE call \notin {"to_int", "to_uint"}
  <2>1. Narrow(call, v) = v
    BY <1>4 DEF Narrow
  <2>2. call = "to_long" \/ call = "to_ulong"
    BY <1>4 DEF ReadCalls
  <2>3. Pow2[LongWidth - 1] \in Nat /\ Pow2[LongWidth] \in Nat
    <3>1. LongWidth - 1 \in 0 .. LongWidth /\ LongWidth \in 0 .. LongWidth
      BY WidthAssumption
    <3>2. QED
      BY <3>1, WidthAssumption
  <2>4. v \in Int
    BY <2>2, <2>3 DEF RangeOf
  <2>5. QED
    BY <2>1, <2>4
<1>5. QED
  BY <1>2, <1>3, <1>4

(* The limits of the two functions leave every number alone that the type asked for holds. *)
LEMMA WithinLimits ==
  ASSUME NEW call \in ReadCalls, NEW v \in RangeOf(call)
  PROVE  /\ Pow2[LongWidth] \in Nat /\ Pow2[LongWidth - 1] \in Nat
         /\ call \in {"to_int", "to_long"} =>
              ~(v > Pow2[LongWidth - 1] - 1) /\ ~(v < -Pow2[LongWidth - 1])
         /\ call \notin {"to_int", "to_long"} =>
              ~(v > Pow2[LongWidth] - 1) /\ ~(v < 1 - Pow2[LongWidth]) /\ v \in Nat
<1> DEFINE P == Pow2[Width - 1]  N == Pow2[Width]  H == Pow2[LongWidth - 1]  L == Pow2[LongWidth]
<1>1. Width - 1 \in 0 .. LongWidth /\ LongWidth - 1 \in Width - 1 .. LongWidth
      /\ Width \in 0 .. LongWidth /\ LongWidth \in Width .. LongWidth
  BY WidthAssumption
<1>2. P \in Nat /\ H \in Nat /\ P <= H /\ N \in Nat /\ L \in Nat /\ N <= L
  BY <1>1, PowersGrow
<1>3. CASE call \in {"to_int", "to_long"}
  <2>1. v \in -P .. P - 1 \/ v \in -H .. H - 1
    BY <1>3 DEF RangeOf
  <2> HIDE DEF P, H, N, L
  <2>2. ~(v > H - 1) /\ ~(v < -H)
    BY <1>2, <2>1
  <2>3. QED
    BY <1>2, <1>3, <2>2 DEF H, L
<1>4. CASE call \notin {"to_int", "to_long"}
  <2>1. v \in 0 .. N - 1 \/ v \in 0 .. L - 1
    BY <1>4 DEF RangeOf
  <2> HIDE DEF P, H, N, L
  <2>2. ~(v > L - 1) /\ ~(v < 1 - L) /\ v \in Nat
    BY <1>2, <2>1
  <2>3. QED
    BY <1>2, <1>4, <2>2 DEF H, L
<1>5. QED
  BY <1>3, <1>4

-----------------------------------------------------------------------------
(* What is read *)

(* Both functions end where the digits before the terminator end. *)
LEMMA ResultEnd ==
  ASSUME NEW t \in Seq(Byte), NEW call, NEW base
  PROVE  Result(call, t, base).end =
           IF DigitsEnd(CString(t), base) = DigitsStart(CString(t), base) THEN 0
           ELSE DigitsEnd(CString(t), base)
<1> DEFINE s == CString(t)  H == Pow2[LongWidth - 1]  L == Pow2[LongWidth]
           low == scan(s, base, -H, H - 1, -H)
           r   == scan(s, base, 1 - L, L - 1, L - 1)
           e   == IF DigitsEnd(s, base) = DigitsStart(s, base) THEN 0 ELSE DigitsEnd(s, base)
<1>1. strtol(t, base) = low /\ strtoul(t, base) = [r EXCEPT !.value = Unsigned(r.value, LongWidth)]
  BY DEF strtol, strtoul
<1>a. s \in Seq(Byte)
  BY CStringFacts
<1>2. low.end = e /\ r.end = e /\ r = [value |-> r.value, end |-> e]
  <2> HIDE DEF s, H, L
  <2>1. /\ low = IF DigitsEnd(s, base) = DigitsStart(s, base) THEN [value |-> 0, end |-> 0]
                 ELSE [value |-> IF SignedWorth(s, base) > H - 1 THEN H - 1
                                 ELSE IF SignedWorth(s, base) < -H THEN -H
                                 ELSE SignedWorth(s, base),
                       end |-> DigitsEnd(s, base)]
        /\ r   = IF DigitsEnd(s, base) = DigitsStart(s, base) THEN [value |-> 0, end |-> 0]
                 ELSE [value |-> IF SignedWorth(s, base) > L - 1 THEN L - 1
                                 ELSE IF SignedWorth(s, base) < 1 - L THEN L - 1
                                 ELSE SignedWorth(s, base),
                       end |-> DigitsEnd(s, base)]
    BY <1>a, ScanIs
  <2> HIDE DEF low, r
  <2>2. QED
    BY <2>1
<1> HIDE DEF low, r, e
<1>3. [r EXCEPT !.value = Unsigned(r.value, LongWidth)].end = e
  <2> DEFINE x == Unsigned(r.value, LongWidth)
  <2> HIDE DEF x
  <2>1. [r EXCEPT !.value = x].end = e
    BY <1>2
  <2>2. QED
    BY <2>1 DEF x
<1>4. QED
  BY <1>1, <1>2, <1>3 DEF Result, e, s

(* Where the whole text is a number, the whole text is read, as the number if the type holds it. *)
LEMMA NumberRead ==
  ASSUME NEW t \in Seq(Byte), NEW base, NEW call \in ReadCalls,
         NEW lead \in 0 .. Len(t), NumberAt(t, base, lead, Len(t))
  PROVE  /\ Result(call, t, base).end = Len(t) /\ Len(t) # 0
         /\ WorthAt(t, base, lead, Len(t)) \in RangeOf(call)
            => Narrow(call, Result(call, t, base).value) = WorthAt(t, base, lead, Len(t))
<1>1. Len(t) \in Nat /\ Len(t) \in 0 .. Len(t)
  OBVIOUS
<1>2. Len(t) \in 0 .. Len(CString(t))
  <2>1. lead \in Nat
    OBVIOUS
  <2>2. QED
    BY <1>1, <2>1, NumberBeforeNul
<1>3. CString(t) = t
  BY <1>1, <1>2, CStringFacts
<1> HIDE DEF Byte
<1>4. /\ BlanksEnd(t) = lead /\ lead < Len(t) /\ SignEnd(t) = From(t, lead)
      /\ DigitsEnd(t, base) # DigitsStart(t, base) /\ DigitsEnd(t, base) = Len(t)
  BY <1>1, NumberFound
<1>5. Result(call, t, base).end = Len(t)
  BY <1>3, <1>4, ResultEnd
<1>7. SignedWorth(t, base) = WorthAt(t, base, lead, Len(t))
  <2>1. At(t, lead) = t[lead + 1]
    BY <1>4 DEF At
  <2>2. QED
    BY <1>4, <2>1 DEF SignedWorth, WorthAt, DigitsStart, RadixOf
<1>8. ASSUME WorthAt(t, base, lead, Len(t)) \in RangeOf(call)
      PROVE  Narrow(call, Result(call, t, base).value) = WorthAt(t, base, lead, Len(t))
  <2>1. PICK v \in RangeOf(call) : v = WorthAt(t, base, lead, Len(t))
    BY <1>8
  <2> DEFINE H == Pow2[LongWidth - 1]  L == Pow2[LongWidth]
  <2>2. CASE call \in {"to_int", "to_long"}
    <3>1. ~(v > H - 1) /\ ~(v < -H)
      BY <2>2, WithinLimits
    <3>2. scan(t, base, -H, H - 1, -H) = [value |-> v, end |-> Len(t)]
      <4> HIDE DEF H
      <4>1. QED
        BY <1>4, <1>7, <2>1, <3>1, ScanIs
    <3>3. Result(call, t, base) = scan(t, base, -H, H - 1, -H)
      BY <1>3, <2>2 DEF Result, strtol
    <3>4. Result(call, t, base).value = v
      BY <3>2, <3>3
    <3>5. QED
      BY <2>1, <3>4, Narrowed
  <2>3. CASE call \notin {"to_int", "to_long"}
    <3>1. ~(v > L - 1) /\ ~(v < 1 - L) /\ v \in Nat /\ L \in Nat
      BY <2>3, WithinLimits
    <3>2. scan(t, base, 1 - L, L - 1, L - 1) = [value |-> v, end |-> Len(t)]
      <4> HIDE DEF L
      <4>1. QED
        BY <1>4, <1>7, <2>1, <3>1, ScanIs
    <3>3. Result(call, t, base) = [scan(t, base, 1 - L, L - 1, L - 1) EXCEPT
                                     !.value = Unsigned(v, LongWidth)]
      BY <1>3, <2>3, <3>2 DEF Result, strtoul
    <3>4. Unsigned(v, LongWidth) = v
      <4>1. v \in Nat /\ v < L /\ L \in Nat
        <5> HIDE DEF L
        <5>1. QED
          BY <3>1
      <4> HIDE DEF L
      <4>2. v % L = v
        BY ONLY <4>1, SmallModulo
      <4>3. QED
        BY <4>2 DEF Unsigned, L
    <3>5. Result(call, t, base).value = v
      <4> DEFINE r == scan(t, base, 1 - L, L - 1, L - 1)
      <4>1. r = [value |-> v, end |-> Len(t)] /\ Result(call, t, base) = [r EXCEPT !.value = v]
        BY <3>2, <3>3, <3>4
      <4> HIDE DEF r
      <4>2. QED
        BY <4>1
    <3>6. QED
      BY <2>1, <3>5, Narrowed
  <2>4. QED
    BY <2>2, <2>3
<1>9. Len(t) # 0
  BY <1>1, <1>4
<1>10. QED
  BY <1>5, <1>8, <1>9

-----------------------------------------------------------------------------
(* What is written *)

(* The digits of a number are digits, one at least, and read as the number. *)
LEMMA DigitsRead ==
  ASSUME NEW r \in Nat, r >= 2, r <= 36, NEW u \in BOOLEAN, NEW n \in Nat
  PROVE  /\ Digits(n, r, u) \in Seq(DigitCodes(r)) /\ Len(Digits(n, r, u)) >= 1
         /\ Worth(Digits(n, r, u), r) = n
<1>1. CASE n = 0
  <2>1. Digits(0, r, u) = <<48>> /\ <<48>> = Append(<<>>, 48)
    BY DEF Digits
  <2>2. IsDigit(48, r) /\ DigitWorth(48) = 0
    BY DEF IsDigit, DigitWorth
  <2>3. 48 \in DigitCodes(r)
    BY <2>2, DigitIsCode
  <2>4. <<>> \in Seq(DigitCodes(r)) /\ IsDigits(<<>>)
    BY DEF IsDigits
  <2>5. Worth(<<>>, r) = 0
    BY <2>4, WorthFacts
  <2>6. Worth(Append(<<>>, 48), r) = r * Worth(<<>>, r) + DigitWorth(48)
    <3> DEFINE d == <<>>  c == 48
    <3>1. d \in Seq(DigitCodes(r)) /\ IsDigits(d) /\ c \in DigitCodes(r) /\ DigitWorth(c) \in Nat
      BY <2>2, <2>3, <2>4
    <3> HIDE DEF d, c
    <3>2. Worth(Append(d, c), r) = r * Worth(d, r) + DigitWorth(c)
      BY <3>1, WorthFacts
    <3>3. QED
      BY <3>2 DEF d, c
  <2>7. r * 0 + 0 = 0
    OBVIOUS
  <2>8. Worth(<<48>>, r) = 0
    BY <2>1, <2>2, <2>5, <2>6, <2>7
  <2>9. <<48>> \in Seq(DigitCodes(r)) /\ Len(<<48>>) = 1
    BY <2>3
  <2>10. PICK w : w = <<48>>
    OBVIOUS
  <2>11. w \in Seq(DigitCodes(r)) /\ Len(w) >= 1 /\ Worth(w, r) = 0
    BY <2>8, <2>9, <2>10
  <2>12. Digits(n, r, u) = w
    BY <1>1, <2>1, <2>10
  <2>13. QED
    BY <1>1, <2>11, <2>12
<1>2. CASE n # 0
  <2>1. Digits(n, r, u) = Written(n, r, u)
    BY <1>2 DEF Written
  <2>2. PICK q \in Nat : q = n \div r
    BY <1>2, QuotientSmaller
  <2>3. PICK c \in 0 .. r - 1 : c = n % r
    BY <1>2, QuotientSmaller
  <2>4. Written(n, r, u) = Append(Written(q, r, u), DigitChar(c, u))
    BY <1>2, <2>2, <2>3, WrittenFacts
  <2>5. Written(n, r, u) \in Seq(DigitCodes(r)) /\ Written(q, r, u) \in Seq(DigitCodes(r))
    BY WrittenFacts
  <2> DEFINE d == Written(q, r, u)  e == DigitChar(c, u)
  <2> HIDE DEF d, e
  <2>6. Len(Append(d, e)) >= 1
    <3>1. d \in Seq(DigitCodes(r))
      BY <2>5 DEF d
    <3>2. QED
      BY <3>1
  <2>7. Len(Written(n, r, u)) >= 1
    BY <2>4, <2>6 DEF d, e
  <2>8. Worth(Written(n, r, u), r) = n
    BY WorthOfWritten
  <2>9. QED
    BY <2>1, <2>5, <2>7, <2>8
<1>3. QED
  BY <1>1, <1>2

\* The text of a number.
Shown(j) == (IF j.value < 0 THEN <<Minus>> ELSE <<>>) \o Digits(Size(j), j.radix, j.upper)

(* The jobs and the numbers they print. *)
LEMMA PrintJobFacts ==
  ASSUME NEW j \in PrintJobs
  PROVE  /\ j.radix \in Nat /\ j.radix >= 2 /\ j.radix <= 36 /\ j.upper \in BOOLEAN
         /\ j.value \in Int /\ Size(j) \in Nat
         /\ j.value \in RangeOf(IF j.call = "from_uint" THEN "to_uint" ELSE "to_int")
         /\ j \notin ReadJobs /\ j \notin FloatJobs
<1>1. j.radix \in Radixes /\ j.upper \in BOOLEAN
  BY DEF PrintJobs
<1>2. j.call \in {"from_int", "stream", "format", "from_uint"}
  BY DEF PrintJobs
<1>3. j \notin ReadJobs /\ j \notin FloatJobs
  BY <1>2 DEF ReadJobs, FloatJobs
<1>4. Size(j) \in Nat
  BY MagnitudeRight
<1>5. CASE j.call = "from_uint"
  <2>1. j.value \in 0 .. Pow2[Width] - 1 /\ Pow2[Width] \in Nat
    BY <1>5, Halves DEF PrintJobs, UnsignedValues
  <2>2. QED
    BY <1>1, <1>3, <1>4, <1>5, <2>1, RadixAssumption DEF RangeOf
<1>6. CASE j.call # "from_uint"
  <2>1. j.value \in -Pow2[Width - 1] .. Pow2[Width - 1] - 1 /\ Pow2[Width - 1] \in Nat
    BY <1>6, Halves DEF PrintJobs, SignedValues
  <2>2. QED
    BY <1>1, <1>3, <1>4, <1>6, <2>1, RadixAssumption DEF RangeOf
<1>7. QED
  BY <1>5, <1>6

(* The text of a number is read as it. *)
LEMMA ShownReads ==
  ASSUME NEW j \in PrintJobs
  PROVE  /\ Shown(j) \in Seq(Byte)
         /\ NumberAt(Shown(j), j.radix, 0, Len(Shown(j)))
         /\ WorthAt(Shown(j), j.radix, 0, Len(Shown(j))) = j.value
<1> DEFINE d == Digits(Size(j), j.radix, j.upper)  r == j.radix
<1>1. r \in Nat /\ r # 0 /\ j.value \in Int /\ Size(j) = IF j.value < 0 THEN -j.value ELSE j.value
  BY PrintJobFacts DEF Size
<1>2. d \in Seq(DigitCodes(r)) /\ Len(d) >= 1 /\ Worth(d, r) = Size(j)
  BY PrintJobFacts, DigitsRead
<1> HIDE DEF d, r
<1>3. d \in Seq(Byte)
  <2>1. \A c \in DigitCodes(r) : c \in Byte
    BY DEF DigitCodes, Byte
  <2> HIDE DEF Byte
  <2>2. QED
    BY <1>2, <2>1
<1>4. \A i \in 1 .. Len(d) : IsDigit(d[i], r)
  <2>1. \A i \in 1 .. Len(d) : d[i] \in DigitCodes(r)
    BY <1>2
  <2>2. QED
    BY <2>1 DEF DigitCodes
<1>5. Len(d) \in Nat
  BY <1>2
<1>a. ASSUME NEW t, Len(t) \in Nat, NEW p \in Nat, \A i \in p + 1 .. Len(t) : IsDigit(t[i], r)
      PROVE  FirstAt(t, r, p) = p /\ BaseAt(t, r, p) = r
  <2>1. ASSUME Prefixed(t, p), r = 16 PROVE FALSE
    <3>1. p + 2 \in p + 1 .. Len(t) /\ t[p + 2] \in {120, 88}
      BY <2>1 DEF Prefixed
    <3>2. IsDigit(t[p + 2], 16)
      BY <1>a, <2>1, <3>1
    <3>3. DigitWorth(120) = 33 /\ DigitWorth(88) = 33
      BY DEF DigitWorth
    <3>4. QED
      BY <3>1, <3>2, <3>3 DEF IsDigit
  <2>2. QED
    BY <1>1, <2>1 DEF FirstAt, BaseAt
<1>6. CASE j.value < 0
  <2>1. PICK t : t = <<Minus>> \o d
    OBVIOUS
  <2>2. Shown(j) = t
    BY <1>6, <2>1 DEF Shown, d
  <2>3. Minus \in Byte
    BY DEF Minus, Byte
  <2>4. /\ t \in Seq(Byte) /\ Len(t) = Len(d) + 1 /\ t[1] = Minus
        /\ \A i \in 1 .. Len(d) : t[i + 1] = d[i]
    <3> HIDE DEF Byte
    <3>1. QED
      BY <1>3, <2>1, <2>3
  <2>5. SignAt(t, 0)
    BY <1>5, <2>4 DEF SignAt
  <2>6. From(t, 0) = 1
    BY <2>5 DEF From
  <2>7. \A i \in 2 .. Len(t) : IsDigit(t[i], r)
    <3> SUFFICES ASSUME NEW i \in 2 .. Len(t) PROVE IsDigit(t[i], r)
      OBVIOUS
    <3>1. i - 1 \in 1 .. Len(d) /\ (i - 1) + 1 = i
      BY <1>5, <2>4
    <3>2. t[(i - 1) + 1] = d[i - 1]
      BY <2>4, <3>1
    <3>3. QED
      BY <1>4, <3>1, <3>2
  <2>a. FirstAt(t, r, 1) = 1 /\ BaseAt(t, r, 1) = r
    <3>1. Len(t) \in Nat /\ \A i \in 1 + 1 .. Len(t) : IsDigit(t[i], r)
      BY <1>5, <2>4, <2>7
    <3>2. QED
      BY <1>a, <3>1
  <2>8. NumberAt(t, r, 0, Len(t))
    <3>1. 1 < Len(t) /\ \A i \in 1 .. 0 : t[i] \in Spaces
      BY <1>2, <1>5, <2>4
    <3>2. \A i \in 1 + 1 .. Len(t) : IsDigit(t[i], r)
      BY <2>7
    <3>3. QED
      BY <2>6, <2>a, <3>1, <3>2 DEF NumberAt
  <2>9. SubSeq(t, 2, Len(t)) = d
    <3> HIDE DEF Byte
    <3>1. QED
      BY <1>3, <2>4
  <2>10. WorthAt(t, r, 0, Len(t)) = -Size(j)
    <3>1. From(t, 0) + 1 = 2 /\ t[0 + 1] = Minus
      BY <2>4, <2>6
    <3>2. QED
      BY <1>2, <2>6, <2>9, <2>a, <3>1 DEF WorthAt
  <2>11. WorthAt(t, r, 0, Len(t)) = j.value
    BY <1>1, <1>6, <2>10
  <2>12. QED
    BY <2>2, <2>4, <2>8, <2>11 DEF r
<1>7. CASE ~(j.value < 0)
  <2>1. Shown(j) = d
    <3>1. Shown(j) = <<>> \o d
      BY <1>7 DEF Shown, d
    <3>2. <<>> \o d = d
      <4> HIDE DEF Byte
      <4>1. QED
        BY <1>3
    <3>3. QED
      BY <3>1, <3>2
  <2>2. IsDigit(d[1], r)
    BY <1>2, <1>4, <1>5
  <2>3. ~SignAt(d, 0) /\ d[1] # Minus
    BY <2>2, NotDigits DEF SignAt
  <2>4. From(d, 0) = 0
    BY <2>3 DEF From
  <2>a. FirstAt(d, r, 0) = 0 /\ BaseAt(d, r, 0) = r
    <3>1. \A i \in 0 + 1 .. Len(d) : IsDigit(d[i], r)
      BY <1>4
    <3>2. QED
      BY <1>5, <1>a, <3>1
  <2>5. NumberAt(d, r, 0, Len(d))
    <3>1. 0 < Len(d) /\ \A i \in 1 .. 0 : d[i] \in Spaces
      BY <1>2, <1>5
    <3>2. QED
      BY <1>4, <2>4, <2>a, <3>1 DEF NumberAt
  <2>6. SubSeq(d, 1, Len(d)) = d
    <3> HIDE DEF Byte
    <3>1. QED
      BY <1>3
  <2>7. WorthAt(d, r, 0, Len(d)) = j.value
    <3>1. From(d, 0) + 1 = 1 /\ d[0 + 1] # Minus
      BY <2>3, <2>4
    <3>2. WorthAt(d, r, 0, Len(d)) = Size(j)
      BY <1>2, <2>4, <2>6, <2>a, <3>1 DEF WorthAt
    <3>3. QED
      BY <1>1, <1>7, <3>2
  <2>8. QED
    BY <1>3, <2>1, <2>5, <2>7 DEF r
<1>8. QED
  BY <1>6, <1>7

-----------------------------------------------------------------------------
\* The digits in the buffer.
DigitsWritten == [i \in 1 .. BufferEnd - m_start |-> m_buffer[m_start + i - 1]]

\* The digits left to write, and those in the buffer, are the number's; its
\* text is read as it; and what is read depends on the text alone.
TInv ==
  /\ phase = "digits" =>
       Written(value, job.radix, job.upper) \o DigitsWritten = Digits(Size(job), job.radix, job.upper)
  /\ phase = "text" => job \in PrintJobs /\ text = Shown(job)
  /\ phase = "done" /\ job \in PrintJobs =>
       number = job.value /\ flags = {"ok", "full_match"} /\ text = Shown(job)
  /\ phase = "done" /\ job \in ReadJobs =>
       LET r == Result(job.call, job.text, job.base)
       IN  number = Narrow(job.call, r.value) /\ flags = Flags(job.text, r.end)

(* Nothing is written or read at first. *)
LEMMA InitTInv == Init => TInv
BY DEF Init, TInv

(* A number to be printed has all its digits ahead, a zero its only one behind. *)
LEMMA CallPrintTInv ==
  ASSUME IInv, NEW j \in PrintJobs, CallPrint(j)
  PROVE  TInv'
<1>1. Magnitude(j) = Size(j) /\ Size(j) \in Nat
  BY MagnitudeRight
<1>2. phase' = "digits" /\ job' = j /\ value' = Size(j) /\ m_start = Width
  BY <1>1 DEF IInv, CallPrint
<1>3. Written(Size(j), j.radix, j.upper) \o DigitsWritten' = Digits(Size(j), j.radix, j.upper)
  <2>1. CASE Size(j) = 0
    <3>1. m_start' = Width - 1 /\ m_buffer' = [m_buffer EXCEPT ![Width - 1] = Zero]
      BY <1>1, <2>1 DEF CallPrint, BufferEnd
    <3>2. m_buffer \in [0 .. Width -> Int] /\ Width - 1 \in 0 .. Width /\ Width \in Nat
      BY WidthAssumption DEF IInv
    <3>3. m_buffer'[Width - 1] = 48
      BY <3>1, <3>2 DEF Zero
    <3>4. DigitsWritten' = [i \in 1 .. 1 |-> m_buffer'[(Width - 1) + i - 1]]
      <4>1. Width - (Width - 1) = 1
        BY <3>2
      <4>2. QED
        BY <3>1, <4>1 DEF DigitsWritten, BufferEnd
    <3>5. DigitsWritten' = <<48>>
      <4>1. \A i \in 1 .. 1 : (Width - 1) + i - 1 = Width - 1
        BY <3>2
      <4>2. DigitsWritten' = [i \in 1 .. 1 |-> 48]
        BY <3>3, <3>4, <4>1
      <4>3. QED
        BY <4>2
    <3>6. Written(0, j.radix, j.upper) = <<>> /\ Digits(0, j.radix, j.upper) = <<48>>
      BY DEF Written, Digits
    <3>7. <<>> \o <<48>> = <<48>>
      OBVIOUS
    <3>8. QED
      BY <2>1, <3>5, <3>6, <3>7
  <2>2. CASE Size(j) # 0
    <3>1. m_start' = Width /\ Width \in Nat
      BY <1>1, <1>2, <2>2, WidthAssumption DEF CallPrint
    <3>2. DigitsWritten' = <<>>
      <4>1. 1 .. Width - Width = {}
        BY <3>1
      <4>2. QED
        BY <3>1, <4>1 DEF DigitsWritten, BufferEnd
    <3>3. Written(Size(j), j.radix, j.upper) = Digits(Size(j), j.radix, j.upper)
      BY <2>2 DEF Written
    <3> DEFINE d == Digits(Size(j), j.radix, j.upper)
    <3>4. d \in Seq(DigitCodes(j.radix))
      BY <1>1, PrintJobFacts, DigitsRead
    <3> HIDE DEF d
    <3>5. d \o <<>> = d
      BY <3>4
    <3>6. QED
      BY <3>2, <3>3, <3>5 DEF d
  <2>3. QED
    BY <2>1, <2>2
<1>4. QED
  BY <1>2, <1>3 DEF TInv, Size

(* A turn moves a digit from those to be written to those in the buffer. *)
LEMMA PutDigitTInv ==
  ASSUME IInv, TInv, PutDigit
  PROVE  TInv'
<1>1. /\ phase = "digits" /\ phase' = "digits" /\ job' = job /\ value # 0 /\ value \in Nat
      /\ value' = value \div job.radix /\ m_start' = m_start - 1
      /\ m_buffer' = [m_buffer EXCEPT ![m_start - 1] = DigitChar(value % job.radix, job.upper)]
      /\ job \in PrintJobs /\ m_buffer \in [0 .. Width -> Int]
  BY DEF IInv, Converting, PutDigit
<1>2. m_start \in 1 .. Width /\ Width \in Nat
  BY RoomLeft, WidthAssumption DEF PutDigit
<1>3. job.radix \in Nat /\ job.radix >= 2 /\ job.radix <= 36 /\ job.upper \in BOOLEAN
  BY <1>1, PrintJobFacts
<1> DEFINE r == job.radix  u == job.upper  c == DigitChar(value % r, u)
           W == Written(value \div r, r, u)
<1>4. Written(value, r, u) = Append(W, c)
  BY <1>1, <1>3, WrittenFacts
<1>5. W \in Seq(DigitCodes(r)) /\ c \in DigitCodes(r)
  <2>1. PICK q \in Nat : q = value \div r
    <3>1. value \div r \in 0 .. value - 1
      BY <1>1, <1>3, QuotientSmaller
    <3> HIDE DEF r
    <3>2. QED
      BY <1>1, <3>1
  <2>2. Written(q, r, u) \in Seq(DigitCodes(r))
    BY <1>3, WrittenFacts
  <2>3. value % r \in 0 .. r - 1
    BY <1>1, <1>3, QuotientSmaller
  <2>4. c \in DigitCodes(r)
    BY <1>3, <2>3, DigitCharIs
  <2>5. QED
    BY <2>1, <2>2, <2>4
<1>6. \A x \in DigitCodes(r) : x \in Int
  BY DEF DigitCodes
<1>7. c \in Int
  <2> HIDE DEF c
  <2>1. QED
    BY <1>5, <1>6
<1> HIDE DEF c, W, r, u
<1>8. PICK b : b = m_buffer'
  OBVIOUS
<1>9. b[m_start - 1] = c /\ \A i \in m_start .. Width : b[i] = m_buffer[i]
  BY <1>1, <1>2, <1>8 DEF c, r, u
<1>10. DigitsWritten \in Seq(Int) /\ Len(DigitsWritten) = Width - m_start
       /\ \A i \in 1 .. Width - m_start : DigitsWritten[i] = m_buffer[m_start + i - 1]
  <2>1. Width - m_start \in Nat
    BY <1>2
  <2>2. \A i \in 1 .. Width - m_start : m_start + i - 1 \in 0 .. Width
    BY <1>2
  <2>3. \A i \in 1 .. Width - m_start : m_buffer[m_start + i - 1] \in Int
    BY <1>1, <2>2
  <2>4. QED
    BY <2>1, <2>3 DEF DigitsWritten, BufferEnd
<1>11. DigitsWritten' = <<c>> \o DigitsWritten
  <2>1. DigitsWritten' = [i \in 1 .. Width - (m_start - 1) |-> b[(m_start - 1) + i - 1]]
    BY <1>1, <1>8 DEF DigitsWritten, BufferEnd
  <2>2. Width - (m_start - 1) = (Width - m_start) + 1 /\ Width - m_start \in Nat
    BY <1>2
  <2>3. PICK n \in Nat : n = Width - m_start
    BY <2>2
  <2>4. PICK T \in Seq(Int) : T = DigitsWritten
    BY <1>10
  <2>5. Len(T) = n
    BY <1>10, <2>3, <2>4
  <2>6. ASSUME NEW i \in 1 .. n + 1 PROVE b[(m_start - 1) + i - 1] = (<<c>> \o T)[i]
    <3>1. CASE i = 1
      <4>1. (m_start - 1) + i - 1 = m_start - 1
        BY <1>2, <3>1
      <4>2. (<<c>> \o T)[1] = c
        BY <1>7, <2>4
      <4>3. QED
        BY <1>9, <3>1, <4>1, <4>2
    <3>2. CASE i # 1
      <4>1. i - 1 \in 1 .. n /\ i - 1 \in 1 .. Width - m_start
        BY <2>3, <3>2
      <4>2. (m_start - 1) + i - 1 = m_start + (i - 1) - 1 /\ m_start + (i - 1) - 1 \in m_start .. Width
        BY <1>2, <2>3, <3>2, <4>1
      <4>3. T[i - 1] = m_buffer[m_start + (i - 1) - 1]
        BY <1>10, <2>4, <4>1
      <4>4. (<<c>> \o T)[i] = T[i - 1]
        BY <1>7, <2>4, <2>5, <3>2
      <4>5. QED
        BY <1>9, <4>2, <4>3, <4>4
    <3>3. QED
      BY <3>1, <3>2
  <2>7. <<c>> \o T = [i \in 1 .. n + 1 |-> (<<c>> \o T)[i]]
    <3>1. <<c>> \o T \in Seq(Int) /\ Len(<<c>> \o T) = n + 1
      BY <1>7, <2>5
    <3>2. PICK s \in Seq(Int) : s = <<c>> \o T
      BY <3>1
    <3>3. s = [i \in 1 .. Len(s) |-> s[i]]
      OBVIOUS
    <3>4. Len(s) = n + 1
      BY <3>1, <3>2
    <3>5. QED
      BY <3>2, <3>3, <3>4
  <2>8. DigitsWritten' = [i \in 1 .. n + 1 |-> b[(m_start - 1) + i - 1]]
    BY <2>1, <2>2, <2>3
  <2>9. QED
    BY <2>4, <2>6, <2>7, <2>8
<1>12. Append(W, c) \o DigitsWritten = W \o (<<c>> \o DigitsWritten)
  <2>1. W \in Seq(Int) /\ <<c>> \in Seq(Int)
    <3>1. W \in Seq(Int)
      BY <1>5, <1>6
    <3>2. QED
      BY <1>7, <3>1
  <2>2. Append(W, c) = W \o <<c>>
    BY <1>7, <2>1, AppendIsConcat
  <2>3. (W \o <<c>>) \o DigitsWritten = W \o (<<c>> \o DigitsWritten)
    <3>1. PICK S : S = Int
      OBVIOUS
    <3>2. W \in Seq(S) /\ <<c>> \in Seq(S) /\ DigitsWritten \in Seq(S)
      BY <1>10, <2>1, <3>1
    <3>3. PICK a \in Seq(S) : a = W
      BY <3>2
    <3>4. PICK x \in Seq(S) : x = <<c>>
      BY <3>2
    <3>5. PICK d \in Seq(S) : d = DigitsWritten
      BY <3>2
    <3>6. (a \o x) \o d = a \o (x \o d)
      BY ONLY a \in Seq(S), x \in Seq(S), d \in Seq(S), ConcatAssociative
    <3>7. QED
      BY <3>3, <3>4, <3>5, <3>6
  <2>4. QED
    BY <2>2, <2>3
<1>13. W \o DigitsWritten' = Digits(Size(job), r, u)
  BY <1>1, <1>4, <1>11, <1>12 DEF TInv, r, u
<1>14. QED
  BY <1>1, <1>13 DEF TInv, Size, W, r, u

(* When nothing is left, the buffer holds the number's digits. *)
LEMMA MakeTextTInv ==
  ASSUME IInv, TInv, MakeText
  PROVE  TInv'
<1>1. phase = "digits" /\ phase' = "text" /\ job' = job /\ job \in PrintJobs /\ value = 0
  BY DEF IInv, Converting, MakeText
<1>2. text' = (IF job.value < 0 THEN <<Minus>> ELSE <<>>) \o DigitsWritten
  BY DEF MakeText, DigitsWritten
<1>3. DigitsWritten = Digits(Size(job), job.radix, job.upper)
  <2>1. <<>> \o DigitsWritten = Digits(Size(job), job.radix, job.upper)
    BY <1>1 DEF TInv, Written
  <2>2. BufferEnd - m_start \in Nat
    BY WidthAssumption DEF IInv, BufferEnd
  <2>3. PICK n \in Nat : n = BufferEnd - m_start
    BY <2>2
  <2>4. \A i \in 1 .. n : m_start + i - 1 \in 0 .. Width
    BY <2>3, WidthAssumption DEF IInv, BufferEnd
  <2>5. DigitsWritten \in Seq(Int)
    <3>1. \A i \in 1 .. n : m_buffer[m_start + i - 1] \in Int
      BY <2>4 DEF IInv
    <3>2. QED
      BY <2>3, <3>1 DEF DigitsWritten
  <2>6. PICK T \in Seq(Int) : T = DigitsWritten
    BY <2>5
  <2>7. <<>> \o T = T
    OBVIOUS
  <2>8. QED
    BY <2>1, <2>6, <2>7
<1>4. text' = Shown(job)
  BY <1>2, <1>3 DEF Shown
<1>5. Shown(job)' = Shown(job)
  BY <1>1 DEF Shown, Size
<1>6. QED
  BY <1>1, <1>4, <1>5 DEF TInv

(* The text of a number is read back as it, in full. *)
LEMMA ReadBackTInv ==
  ASSUME IInv, TInv, ReadBack
  PROVE  TInv'
<1> DEFINE call == IF job.call = "from_uint" THEN "to_uint" ELSE "to_int"
<1>1. /\ phase' = "done" /\ job' = job /\ text' = text
      /\ job \in PrintJobs /\ text = Shown(job)
      /\ number' = Narrow(call, Result(call, text, job.radix).value)
      /\ flags' = Flags(text, Result(call, text, job.radix).end)
  BY DEF TInv, ReadBack, ReadAs, Result
<1>2. call \in ReadCalls
  BY DEF ReadCalls
<1> HIDE DEF call
<1>3. /\ text \in Seq(Byte) /\ NumberAt(text, job.radix, 0, Len(text))
      /\ WorthAt(text, job.radix, 0, Len(text)) = job.value
  BY <1>1, ShownReads
<1>4. job.radix \in Nat /\ job.radix # 0 /\ job.value \in RangeOf(call) /\ job \notin ReadJobs
  BY <1>1, PrintJobFacts DEF call
<1>5. 0 \in 0 .. Len(text)
  BY <1>3
<1>6. /\ Result(call, text, job.radix).end = Len(text) /\ Len(text) # 0
      /\ Narrow(call, Result(call, text, job.radix).value) = job.value
  BY <1>2, <1>3, <1>4, <1>5, NumberRead
<1>7. flags' = {"ok", "full_match"}
  <2>1. text # <<>>
    BY <1>6
  <2>2. Flags(text, Len(text)) = {"ok", "full_match"}
    BY <1>6, <2>1 DEF Flags
  <2>3. QED
    BY <1>1, <1>6, <2>2
<1>8. Shown(job)' = Shown(job)
  BY <1>1 DEF Shown, Size
<1>9. QED
  BY <1>1, <1>4, <1>6, <1>7, <1>8 DEF TInv

(* A text to be read is read at once, a floating-point number is none of these. *)
LEMMA OthersTInv ==
  ASSUME IInv, TInv, \/ \E j \in ReadJobs : CallRead(j)
                     \/ \E j \in FloatJobs : CallFloat(j)
                     \/ Return \/ UNCHANGED vars
  PROVE  TInv'
<1>1. CASE \E j \in ReadJobs : CallRead(j)
  <2>1. PICK j \in ReadJobs : CallRead(j)
    BY <1>1
  <2>2. /\ phase' = "done" /\ job' = j
        /\ number' = Narrow(j.call, Result(j.call, j.text, j.base).value)
        /\ flags' = Flags(j.text, Result(j.call, j.text, j.base).end)
    BY <2>1 DEF CallRead, ReadAs, Result
  <2>3. j \notin PrintJobs
    BY PrintJobFacts
  <2>4. QED
    BY <2>2, <2>3 DEF TInv, Result, strtol, strtoul
<1>2. CASE \E j \in FloatJobs : CallFloat(j)
  <2>1. PICK j \in FloatJobs : CallFloat(j)
    BY <1>2
  <2>2. job' = j /\ phase' \in {"done", "thrown", "aborted"}
    BY <2>1 DEF CallFloat
  <2>3. j \notin PrintJobs /\ j \notin ReadJobs
    BY PrintJobFacts DEF FloatJobs, ReadJobs
  <2>4. QED
    BY <2>2, <2>3 DEF TInv
<1>3. CASE Return
  BY <1>3 DEF TInv, Return
<1>4. CASE UNCHANGED vars
  BY <1>4 DEF TInv, vars, DigitsWritten, Shown, Size, Result, strtol, strtoul
<1>5. QED
  BY <1>1, <1>2, <1>3, <1>4

\* Both invariants hold in every state, for every width, base and text.
THEOREM TInvHolds == Spec => [](IInv /\ TInv)
<1>1. TInv /\ IInv /\ [Next]_vars => TInv'
  BY CallPrintTInv, PutDigitTInv, MakeTextTInv, ReadBackTInv, OthersTInv DEF Next
<1>2. QED
  BY InitTInv, IInvHolds, <1>1, PTL DEF Spec

\* Every number of every width is read back as it was written, in every base,
\* the whole of its text: NumberText's RoundTrips.
THEOREM NumbersReadBack == Spec => []RoundTrips
<1>1. TInv => RoundTrips
  BY DEF TInv, RoundTrips, Shown, Size
<1>2. QED
  BY TInvHolds, <1>1, PTL

(* The flags follow from where the scan ends. *)
LEMMA FlagsFromEnd ==
  ASSUME NEW t \in Seq(Byte), NEW call \in ReadCalls, NEW base
  PROVE  /\ "ok" \in Flags(t, Result(call, t, base).end)
            <=> \E lead, end \in 0 .. Len(t) : NumberAt(t, base, lead, end)
         /\ Flags(t, Result(call, t, base).end) = {"ok", "full_match"}
            <=> \E lead \in 0 .. Len(t) : NumberAt(t, base, lead, Len(t))
<1>1. PICK s \in Seq(Byte) : s = CString(t)
  BY CStringFacts
<1>2. Len(s) \in 0 .. Len(t) /\ (Len(s) = Len(t) => s = t)
  BY <1>1, CStringFacts
<1>3. PICK d \in 0 .. Len(s) : d = DigitsStart(s, base)
  <2> HIDE DEF Byte
  <2>1. PICK b \in 0 .. Len(s) : b = BlanksEnd(s)
    BY PlacesOfScan
  <2>2. PICK x \in b .. Len(s) : x = SignEnd(s)
    BY <2>1, PlacesOfScan
  <2>3. PICK d \in x .. Len(s) : d = DigitsStart(s, base)
    BY <2>2, PlacesOfScan
  <2>4. QED
    BY <2>3
<1>4. PICK e \in d .. Len(s) : e = DigitsEnd(s, base)
  <2> HIDE DEF Byte
  <2>1. QED
    BY <1>3, PlacesOfScan
<1>5. PICK r : r = Result(call, t, base).end
  OBVIOUS
<1>6. r = IF e = d THEN 0 ELSE e
  BY <1>1, <1>3, <1>4, <1>5, ResultEnd
<1>7. (r # 0 <=> e # d) /\ (r # 0 => r = e) /\ (r # 0 => t # <<>>)
  <2>1. e \in Nat /\ d \in Nat /\ d <= e /\ e <= Len(s) /\ Len(s) <= Len(t)
    BY <1>2
  <2>2. t = <<>> => Len(t) = 0
    OBVIOUS
  <2>3. QED
    BY <1>6, <2>1, <2>2
<1>8. "ok" \in Flags(t, r) <=> r # 0
  BY <1>7 DEF Flags
<1>9. r # 0 <=> \E lead, end \in 0 .. Len(s) : NumberAt(s, base, lead, end)
  <2> HIDE DEF Byte
  <2>1. r # 0 => \E lead, end \in 0 .. Len(s) : NumberAt(s, base, lead, end)
    BY <1>3, <1>4, <1>7, FoundNumber
  <2>2. ASSUME NEW lead \in 0 .. Len(s), NEW end \in 0 .. Len(s), NumberAt(s, base, lead, end)
        PROVE  e # d
    BY <1>3, <1>4, <2>2, NumberFound
  <2>3. QED
    BY <1>7, <2>1, <2>2
<1>10. (\E lead, end \in 0 .. Len(s) : NumberAt(s, base, lead, end))
       <=> \E lead, end \in 0 .. Len(t) : NumberAt(t, base, lead, end)
  <2>1. ASSUME NEW lead \in 0 .. Len(s), NEW end \in 0 .. Len(s), NumberAt(s, base, lead, end)
        PROVE  lead \in 0 .. Len(t) /\ end \in 0 .. Len(t) /\ NumberAt(t, base, lead, end)
    <3>1. lead \in Nat /\ end \in Nat
      OBVIOUS
    <3>2. QED
      BY <1>1, <2>1, <3>1, NumberBeforeNul
  <2>2. ASSUME NEW lead \in 0 .. Len(t), NEW end \in 0 .. Len(t), NumberAt(t, base, lead, end)
        PROVE  lead \in 0 .. Len(s) /\ end \in 0 .. Len(s) /\ NumberAt(s, base, lead, end)
    <3>1. lead \in Nat /\ end \in Nat
      OBVIOUS
    <3>2. QED
      BY <1>1, <2>2, <3>1, NumberBeforeNul
  <2>3. QED
    BY <2>1, <2>2
<1>11. ASSUME Flags(t, r) = {"ok", "full_match"}
       PROVE  \E lead \in 0 .. Len(t) : NumberAt(t, base, lead, Len(t))
  <2>1. "ok" \in Flags(t, r) /\ "full_match" \in Flags(t, r)
    BY <1>11
  <2>2. r # 0 /\ t # <<>>
    BY <1>7, <1>8, <2>1
  <2>3. r = Len(t)
    BY <2>1, <2>2 DEF Flags
  <2>4. e = Len(t) /\ Len(s) = Len(t) /\ s = t
    BY <1>2, <1>7, <2>2, <2>3
  <2> HIDE DEF Byte
  <2>5. DigitsEnd(t, base) = Len(t) /\ DigitsEnd(t, base) # DigitsStart(t, base)
    BY <1>3, <1>4, <1>7, <2>2, <2>4
  <2>6. QED
    BY <2>5, FoundNumber
<1>12. ASSUME NEW lead \in 0 .. Len(t), NumberAt(t, base, lead, Len(t))
       PROVE  Flags(t, r) = {"ok", "full_match"}
  <2>1. r = Len(t) /\ Len(t) # 0
    BY <1>5, <1>12, NumberRead
  <2>2. t # <<>>
    BY <2>1
  <2>3. QED
    BY <2>1, <2>2 DEF Flags
<1>13. QED
  BY <1>5, <1>8, <1>9, <1>10, <1>11, <1>12

\* For every text, every base, 0 among them, and every width, the flags and
\* the number tell what the text holds: NumberText's FlagsTell.
THEOREM FlagsTellTruth == Spec => []FlagsTell
<1>1. TInv => FlagsTell
  <2> SUFFICES ASSUME TInv, phase = "done", job \in ReadJobs PROVE FlagsTell
    BY DEF FlagsTell
  <2> DEFINE t == job.text  base == job.base  call == job.call
             r == Result(call, t, base)
  <2>1. number = Narrow(call, r.value) /\ flags = Flags(t, r.end)
    BY DEF TInv
  <2>2. t \in Seq(Byte) /\ call \in ReadCalls
    <3>1. t \in Texts /\ call \in ReadCalls
      BY DEF ReadJobs, ReadCalls
    <3>2. Texts \subseteq Seq(Byte)
      BY ReadAssumption DEF Byte
    <3>3. QED
      BY <3>1, <3>2
  <2> HIDE DEF t, base, call, r
  <2>3. /\ "ok" \in flags <=> \E lead, end \in 0 .. Len(t) : NumberAt(t, base, lead, end)
        /\ flags = {"ok", "full_match"} <=> \E lead \in 0 .. Len(t) : NumberAt(t, base, lead, Len(t))
    BY <2>1, <2>2, FlagsFromEnd DEF r
  <2>4. ASSUME NEW lead \in 0 .. Len(t), NumberAt(t, base, lead, Len(t)),
               WorthAt(t, base, lead, Len(t)) \in RangeOf(call)
        PROVE  number = WorthAt(t, base, lead, Len(t))
    BY <2>1, <2>2, <2>4, NumberRead DEF r
  <2>5. QED
    BY <2>3, <2>4 DEF FlagsTell, t, base, call
<1>2. QED
  BY TInvHolds, <1>1, PTL
=============================================================================
