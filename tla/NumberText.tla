----------------------------- MODULE NumberText -----------------------------
(***************************************************************************)
(* Integers to text and back: uint_formatter's loop (st_format_numeric.h), *)
(* which string::from_int and from_uint, string_stream's operator<< and    *)
(* the formatter share, and string::to_int and its sisters, which rest on  *)
(* strtol.  float_formatter prints with snprintf.                          *)
(*                                                                         *)
(* Digits go into m_buffer from its end; m_start is the place of the last  *)
(* one written.                                                            *)
(***************************************************************************)
EXTENDS Numerals

CONSTANTS
  Width,      \* the bits of the integer type
  LongWidth,  \* the bits of a long
  Pow2,       \* the powers of two up to LongWidth
  Radixes,    \* "base" of from_int
  Texts,      \* read by to_int: texts,
  Bases,      \* and bases
  Floats,     \* what snprintf prints for floating-point numbers
  OutBuffer,  \* sizeof(m_buffer) in float_formatter
  NoJob

ASSUME WidthAssumption ==
  /\ Width \in Nat /\ Width >= 1
  /\ LongWidth \in Nat /\ LongWidth >= Width
  /\ Pow2 \in [0 .. LongWidth -> Nat]
  /\ Pow2[0] = 1
  /\ \A n \in 1 .. LongWidth : Pow2[n] = 2 * Pow2[n - 1]

\* strtol has no other bases.
ASSUME ReadAssumption ==
  /\ Texts \subseteq Seq(0 .. 255)
  /\ Bases \subseteq {0} \cup 2 .. 36

ASSUME OutBufferAssumption == OutBuffer \in Nat

\* Nothing smaller is a number system.
ASSUME RadixAssumption == \A r \in Radixes : r \in Nat /\ r >= 2 /\ r <= 36

Unsigned(n, bits) == n % Pow2[bits]
Signed(n, bits) ==
  IF Unsigned(n, bits) >= Pow2[bits - 1] THEN Unsigned(n, bits) - Pow2[bits] ELSE Unsigned(n, bits)

SignedValues   == -Pow2[Width - 1] .. Pow2[Width - 1] - 1
UnsignedValues == 0 .. Pow2[Width] - 1

\* "stream" is operator<<, "format" is format_numeric_s.
PrintJobs ==
  [call : {"from_int", "stream", "format"}, value : SignedValues, radix : Radixes, upper : BOOLEAN]
  \cup [call : {"from_uint"}, value : UnsignedValues, radix : Radixes, upper : BOOLEAN]

\* to_long, to_int, to_ulong, to_uint: long or narrower, signed or not.
ReadJobs == [call : {"to_int", "to_long", "to_uint", "to_ulong"}, text : Texts, base : Bases]

FloatJobs == [call : {"from_double"}, text : Floats, format : {101, 102, 103, 69, 70, 71, 97}]

VARIABLES
  job,
  phase,     \* "idle", "digits", "text", "done", "thrown", "aborted"
  value,     \* what is left of the number
  m_buffer,
  m_start,
  unit,      \* history: the worth of the next digit
  sum,       \* history: the worth of the digits written
  text,      \* the text made, or read
  number,    \* the number read
  flags      \* conversion_result

vars == <<job, phase, value, m_buffer, m_start, unit, sum, text, number, flags>>

-----------------------------------------------------------------------------
(***************************************************************************)
(* The magnitude of a signed number, as from_int computes it, and by       *)
(* std::abs.  For the smallest int, long and long long the latter is       *)
(* undefined; builds negate it, which gives the same number again.         *)
(***************************************************************************)
\* Mutant: the negation is not taken modulo 2^Width.
Negated_Narrow(v) == Unsigned(v, Width - 1)

Negated(v) == Unsigned(0 - Unsigned(v, Width), Width)

abs(v) == IF v < 0 THEN Signed(-v, Width) ELSE v

Magnitude(j) ==
  IF j.call = "from_uint" THEN j.value
  ELSE IF j.call = "from_int" THEN IF j.value < 0 THEN Negated(j.value) ELSE j.value
  ELSE Unsigned(abs(j.value), Width)

\* Mutant: room for the digits of a decimal number only.
BufferEnd_Decimal == (3 * Width) \div 10 + 1

\* uint_limits::digits, the place of the terminator.
BufferEnd == Width

Init ==
  /\ job = NoJob /\ phase = "idle"
  /\ value = 0 /\ m_start = BufferEnd
  /\ m_buffer = [i \in 0 .. BufferEnd |-> NUL]
  /\ unit = 1 /\ sum = 0
  /\ text = <<>> /\ number = 0 /\ flags = {}

\* A zero is one digit.
CallPrint(j) ==
  /\ phase = "idle"
  /\ job' = j
  /\ value' = Magnitude(j)
  /\ phase' = "digits"
  /\ IF Magnitude(j) = 0
     THEN m_start' = BufferEnd - 1 /\ m_buffer' = [m_buffer EXCEPT ![BufferEnd - 1] = Zero]
     ELSE UNCHANGED <<m_start, m_buffer>>
  /\ UNCHANGED <<unit, sum, text, number, flags>>

\* One turn of the loop.
PutDigit ==
  /\ phase = "digits" /\ value # 0
  /\ LET digit == value % job.radix IN
       /\ value' = value \div job.radix
       /\ m_start' = m_start - 1
       /\ m_buffer' = [m_buffer EXCEPT ![m_start - 1] = DigitChar(digit, job.upper)]
       /\ sum' = sum + DigitWorth(m_buffer'[m_start - 1]) * unit
       /\ unit' = unit * job.radix
  /\ UNCHANGED <<job, phase, text, number, flags>>

\* The text is copied, behind a sign if there is one.
MakeText ==
  /\ phase = "digits" /\ value = 0
  /\ text' = (IF job.value < 0 THEN <<Minus>> ELSE <<>>)
             \o [i \in 1 .. BufferEnd - m_start |-> m_buffer[m_start + i - 1]]
  /\ phase' = "text"
  /\ UNCHANGED <<job, value, m_buffer, m_start, unit, sum, number, flags>>

-----------------------------------------------------------------------------
(***************************************************************************)
(* strtol and strtoul: white space, a sign, the prefix "0x" for base 16    *)
(* and for base 0, where it or a "0" sets the base, and digits.  Too large *)
(* a value becomes the largest one; too small a one, the smallest of       *)
(* strtol and the largest of strtoul.                                      *)
(***************************************************************************)
\* The first place from p on where there is none of these characters.
Past(t, p, chars) ==
  CHOOSE q \in p .. Len(t) :
    /\ q = Len(t) \/ t[q + 1] \notin chars
    /\ \A k \in p .. q - 1 : t[k + 1] \in chars

CString(t) == SubSeq(t, 1, Past(t, 0, 1 .. 255))

scan(t, base, low, high, below) ==
  LET blanks == Past(t, 0, Spaces)
      at(p)  == IF p < Len(t) THEN t[p + 1] ELSE NUL
      sign   == IF at(blanks) \in {Plus, Minus} THEN blanks + 1 ELSE blanks
      hex    == base \in {0, 16} /\ at(sign) = Zero /\ at(sign + 1) \in {120, 88}
                /\ IsDigit(at(sign + 2), 16)
      radix  == IF base # 0 THEN base ELSE IF hex THEN 16 ELSE IF at(sign) = Zero THEN 8 ELSE 10
      first  == IF hex THEN sign + 2 ELSE sign
      end    == Past(t, first, {c \in 48 .. 122 : IsDigit(c, radix)})
      size   == Worth(SubSeq(t, first + 1, end), radix)
      signed == IF at(blanks) = Minus THEN -size ELSE size
  IN  IF end = first THEN [value |-> 0, end |-> 0]
      ELSE [value |-> IF signed > high THEN high ELSE IF signed < low THEN below ELSE signed,
            end |-> end]

strtol(t, base) ==
  LET limit == Pow2[LongWidth - 1]
  IN  scan(CString(t), base, -limit, limit - 1, -limit)

strtoul(t, base) ==
  LET limit == Pow2[LongWidth]
      r     == scan(CString(t), base, 1 - limit, limit - 1, limit - 1)
  IN  [r EXCEPT !.value = Unsigned(r.value, LongWidth)]

\* Mutant: the end is not compared with the size of the text.
Flags_AtNul(t, end) ==
  IF t = <<>> THEN {"full_match"}
  ELSE (IF end # 0 THEN {"ok"} ELSE {}) \cup (IF end = Len(CString(t)) THEN {"full_match"} ELSE {})

\* An empty text matches in full, but there is no number.
Flags(t, end) ==
  IF t = <<>> THEN {"full_match"}
  ELSE (IF end # 0 THEN {"ok"} ELSE {}) \cup (IF end = Len(t) THEN {"full_match"} ELSE {})

\* The sisters that are narrower than a long cast its value.
Narrow(call, n) ==
  CASE call = "to_int"  -> Signed(n, Width)
    [] call = "to_uint" -> Unsigned(n, Width)
    [] OTHER -> n

ReadAs(call, t, base) ==
  LET r == IF call \in {"to_int", "to_long"} THEN strtol(t, base) ELSE strtoul(t, base)
  IN  /\ number' = Narrow(call, r.value)
      /\ flags' = Flags(t, r.end)

CallRead(j) ==
  /\ phase = "idle"
  /\ job' = j
  /\ text' = j.text
  /\ ReadAs(j.call, j.text, j.base)
  /\ phase' = "done"
  /\ UNCHANGED <<value, m_buffer, m_start, unit, sum>>

\* The caller reads the number back, with the base it was written in.
ReadBack ==
  /\ phase = "text"
  /\ ReadAs(IF job.call = "from_uint" THEN "to_uint" ELSE "to_int", text, job.radix)
  /\ phase' = "done"
  /\ UNCHANGED <<job, value, m_buffer, m_start, unit, sum, text>>

-----------------------------------------------------------------------------
\* "Format buffer too small"
FloatFits(t) == Len(t) < OutBuffer

\* float_formatter: "Unsupported floating-point format specifier", and the
\* assertion that the text fits.
CallFloat(j) ==
  /\ phase = "idle"
  /\ job' = j
  /\ \/ /\ j.format \notin {101, 102, 103, 69, 70, 71}
        /\ phase' = "thrown"
        /\ UNCHANGED text
     \/ /\ j.format \in {101, 102, 103, 69, 70, 71}
        /\ IF FloatFits(j.text) THEN phase' = "done" /\ text' = j.text
           ELSE phase' = "aborted" /\ UNCHANGED text
  /\ UNCHANGED <<value, m_buffer, m_start, unit, sum, number, flags>>

Return ==
  /\ phase \in {"done", "thrown"}
  /\ job' = NoJob /\ phase' = "idle"
  /\ value' = 0 /\ m_start' = BufferEnd
  /\ m_buffer' = [i \in 0 .. BufferEnd |-> NUL]
  /\ unit' = 1 /\ sum' = 0
  /\ text' = <<>> /\ number' = 0 /\ flags' = {}

Next ==
  \/ phase = "idle" /\ \E j \in PrintJobs : CallPrint(j)
  \/ PutDigit \/ MakeText \/ ReadBack
  \/ phase = "idle" /\ \E j \in ReadJobs : CallRead(j)
  \/ phase = "idle" /\ \E j \in FloatJobs : CallFloat(j)
  \/ Return

Spec == Init /\ [][Next]_vars

-----------------------------------------------------------------------------
\* uint_formatter never writes below its buffer, which has one char for each
\* bit of the type: there is room for the next digit while any of the number
\* is left, in every base, and the terminator is never overwritten.
StaysInBuffer ==
  /\ m_start \in 0 .. BufferEnd
  /\ phase = "digits" /\ value # 0 => m_start > 0
  /\ m_buffer[BufferEnd] = NUL

\* The digits in the buffer add up to the number's magnitude, the smallest
\* number's too, and there is at least one.
DigitsAddUp ==
  phase = "text" =>
    /\ sum = IF job.value < 0 THEN -job.value ELSE job.value
    /\ m_start < BufferEnd

\* Every number is read back as it was written, in every base, and the whole
\* of its text is taken for it, though writing and reading share no code; the
\* text is the one the formatter's model takes for granted.
RoundTrips ==
  phase = "done" /\ job \in PrintJobs =>
    /\ number = job.value
    /\ flags = {"ok", "full_match"}
    /\ text = (IF job.value < 0 THEN <<Minus>> ELSE <<>>)
              \o Digits(IF job.value < 0 THEN -job.value ELSE job.value, job.radix, job.upper)

(***************************************************************************)
(* What a number looks like to strtol, place by place: as much white space *)
(* as lead, a sign, the prefix of base 16, and digits of the base, which a *)
(* text chooses for itself when the base is 0.                             *)
(***************************************************************************)
SignAt(t, lead) == lead < Len(t) /\ t[lead + 1] \in {Plus, Minus}
From(t, lead)   == IF SignAt(t, lead) THEN lead + 1 ELSE lead

Prefixed(t, p) ==
  p + 2 < Len(t) /\ t[p + 1] = Zero /\ t[p + 2] \in {120, 88} /\ IsDigit(t[p + 3], 16)

BaseAt(t, base, p) ==
  IF base # 0 THEN base
  ELSE IF Prefixed(t, p) THEN 16
  ELSE IF p < Len(t) /\ t[p + 1] = Zero THEN 8 ELSE 10

FirstAt(t, base, p) == IF base \in {0, 16} /\ Prefixed(t, p) THEN p + 2 ELSE p

\* A number in t whose digits end at this place, and its worth.
NumberAt(t, base, lead, end) ==
  LET p == From(t, lead) IN
  /\ \A i \in 1 .. lead : t[i] \in Spaces
  /\ FirstAt(t, base, p) < end
  /\ \A i \in FirstAt(t, base, p) + 1 .. end : IsDigit(t[i], BaseAt(t, base, p))

WorthAt(t, base, lead, end) ==
  LET p == From(t, lead)
      n == Worth(SubSeq(t, FirstAt(t, base, p) + 1, end), BaseAt(t, base, p))
  IN  IF t[lead + 1] = Minus THEN -n ELSE n

\* The numbers of the type a conversion returns.
RangeOf(call) ==
  LET bits == IF call \in {"to_int", "to_uint"} THEN Width ELSE LongWidth
  IN  IF call \in {"to_int", "to_long"} THEN -Pow2[bits - 1] .. Pow2[bits - 1] - 1
      ELSE 0 .. Pow2[bits] - 1

\* The flags of a conversion tell what was there, in any base and in base 0:
\* "ok" where a number begins the text, and both flags where the number is the
\* whole text, to its size and not to its first NUL; the number is the text's
\* then, if the type holds it.
FlagsTell ==
  phase = "done" /\ job \in ReadJobs =>
    LET t == job.text
        whole(lead) == NumberAt(t, job.base, lead, Len(t))
    IN
    /\ "ok" \in flags <=> \E lead, end \in 0 .. Len(t) : NumberAt(t, job.base, lead, end)
    /\ flags = {"ok", "full_match"} <=> \E lead \in 0 .. Len(t) : whole(lead)
    /\ \A lead \in 0 .. Len(t) :
         whole(lead) /\ WorthAt(t, job.base, lead, Len(t)) \in RangeOf(job.call) =>
           number = WorthAt(t, job.base, lead, Len(t))
=============================================================================
