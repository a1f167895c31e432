--------------------------- MODULE StringCallsProofs ---------------------------
(***************************************************************************)
(* Proofs about StringCalls.tla, for texts of any length: the two passes   *)
(* of replace agree, no loop goes on from beyond its text, a search finds  *)
(* the first or the last match, a cut is what was asked for, replace       *)
(* replaces every match, split and tokenize lose nothing of the text but   *)
(* what separates their pieces, a comparison orders texts, and a hash      *)
(* follows the comparison.                                                 *)
(***************************************************************************)
EXTENDS StringCalls, SequenceTheorems, WellFoundedInduction, TLAPS

Phases == {"idle", "measure", "write", "collect", "done"}

\* A match of replace from p on.
Match(p) == find_in(job.text, p, Len(job.text), job.arg, job.cs)

Larger(m, n) == IF m > n THEN m ELSE n

(***************************************************************************)
(* The first m matches of replace, as both passes meet them: c[i] is the   *)
(* place behind i of them, and w[i] is how much has been written when they *)
(* are replaced.  Each character before c[i] stands for one character or a *)
(* share of a replacement, which keeps w within what a size_t holds.       *)
(***************************************************************************)
Run(m, c, w) ==
  /\ c \in [0 .. m -> 0 .. Len(job.text)] /\ w \in [0 .. m -> Nat]
  /\ c[0] = 0 /\ w[0] = 0
  /\ \A i \in 0 .. m - 1 :
       /\ Match(c[i]) # -1
       /\ c[i + 1] = Match(c[i]) + Len(job.arg)
       /\ w[i + 1] = w[i] + (Match(c[i]) - c[i]) + Len(job.to)
  /\ \A i \in 0 .. m : w[i] <= w[m]
  /\ w[m] <= c[m] * Larger(1, Len(job.to))

\* What m matches make of the size of the text.
SizeAfter(m, c, w) == size = (Len(job.text) - c[m]) + w[m]

Measuring == \E m \in Nat : \E c, w : Run(m, c, w) /\ next = c[m] /\ SizeAfter(m, c, w)

Writing ==
  \/ /\ Len(job.arg) = Len(job.to)
     /\ size = Len(job.text) /\ Len(answer) = next
  \/ \E m \in Nat : \E c, w :
       /\ Run(m, c, w) /\ Match(c[m]) = -1 /\ SizeAfter(m, c, w)
       /\ \E i \in 0 .. m : next = c[i] /\ Len(answer) = w[i]

SCInv ==
  /\ phase \in Phases
  /\ next \in Nat
  /\ phase # "idle" => job \in Jobs
  /\ phase = "idle" => next = 0 /\ answer = <<>>
  /\ phase \in {"measure", "write", "collect"} => next <= Len(job.text)
  /\ phase = "collect" => job \in SplitJobs \cup TokenJobs
  /\ phase \in {"measure", "write"} =>
       job \in ReplaceJobs /\ job.arg # <<>> /\ answer \in Seq(Byte)
  /\ phase = "measure" => Measuring /\ answer = <<>>
  /\ phase = "write" => Writing
  /\ phase = "done" /\ job.call = "replace" => Len(answer) = size

-----------------------------------------------------------------------------
(* What the searches give. *)

\* The least of some natural numbers.
LEMMA MinFacts ==
  ASSUME NEW S \in SUBSET Nat, S # {}
  PROVE  Min(S) \in S /\ \A y \in S : Min(S) <= y
<1> DEFINE R == {ss \in Nat \X Nat : ss[1] < ss[2]}
<1>1. IsWellFoundedOn(R, Nat)
  BY NatLessThanWellFounded DEF OpToRel
<1>2. PICK x \in S : \A y \in S : ~ (<<y, x>> \in R)
  <2> HIDE DEF R
  <2>1. QED
    BY <1>1, WFMin
<1>3. ASSUME NEW y \in S PROVE x <= y
  <2>1. x \in Nat /\ y \in Nat
    OBVIOUS
  <2>2. y < x => <<y, x>> \in R
    BY <2>1
  <2>3. QED
    BY <1>2, <2>1, <2>2
<1>4. QED
  BY <1>3 DEF Min

\* A search finds nothing, or a place where the whole needle fits.
LEMMA FindInFacts ==
  ASSUME NEW t, NEW ep \in Nat, NEW from \in 0 .. ep, NEW needle \in Seq(Byte), NEW cs
  PROVE  \/ find_in(t, from, ep, needle, cs) = -1
         \/ /\ find_in(t, from, ep, needle, cs) \in from .. ep
            /\ find_in(t, from, ep, needle, cs) + Len(needle) <= ep
<1> DEFINE stops == {p \in from .. ep - 1 :
                       /\ Same(t[p + 1], Lead(needle), cs)
                       /\ p + Len(needle) > ep \/ Matches(t, p, needle, cs)}
<1>1. find_in(t, from, ep, needle, cs) =
        IF stops = {} \/ Min(stops) + Len(needle) > ep THEN -1 ELSE Min(stops)
  BY DEF find_in
<1>2. stops \in SUBSET (from .. ep)
  OBVIOUS
<1>3. stops \in SUBSET Nat
  BY <1>2
<1> HIDE DEF stops
<1>4. stops # {} => Min(stops) \in from .. ep
  BY <1>2, <1>3, MinFacts
<1>5. Len(needle) \in Nat
  BY LenProperties
<1>6. CASE stops = {} \/ Min(stops) + Len(needle) > ep
  BY <1>1, <1>6
<1>7. CASE ~(stops = {} \/ Min(stops) + Len(needle) > ep)
  <2>1. find_in(t, from, ep, needle, cs) = Min(stops)
    BY <1>1, <1>7
  <2>2. Min(stops) \in from .. ep /\ Min(stops) + Len(needle) <= ep
    BY <1>4, <1>5, <1>7
  <2>3. QED
    BY <2>1, <2>2
<1>8. QED
  BY <1>6, <1>7

\* What a call of replace is made of.
LEMMA ReplaceFacts ==
  ASSUME NEW j \in ReplaceJobs
  PROVE  /\ j \in Jobs /\ j.call = "replace"
         /\ j.text \in Texts /\ j.to \in Replacements
         /\ j.text \in Seq(Byte) /\ j.arg \in Seq(Byte) /\ j.to \in Seq(Byte)
         /\ Len(j.text) \in Nat /\ Len(j.arg) \in Nat /\ Len(j.to) \in Nat
<1>1. /\ j \in Jobs /\ j.call = "replace"
      /\ j.text \in Texts /\ j.arg \in Needles /\ j.to \in Replacements
  BY DEF ReplaceJobs, Jobs
<1>2. j.text \in Seq(Byte) /\ j.arg \in Seq(Byte) /\ j.to \in Seq(Byte)
  BY <1>1, TextAssumption
<1>3. Len(j.text) \in Nat /\ Len(j.arg) \in Nat /\ Len(j.to) \in Nat
  BY <1>2, LenProperties
<1>4. QED
  BY <1>1, <1>2, <1>3

\* What a splitter may be.
LEMMA NeedleFacts ==
  ASSUME NEW kind, NEW arg \in Seq(Byte)
  PROVE  Needle(kind, arg) \in Seq(Byte)
<1>1. CASE CStr(arg) = arg
  BY <1>1 DEF Needle
<1>2. CASE CStr(arg) # arg
  <2> DEFINE S == {i \in DOMAIN arg : arg[i] = NUL}
  <2>1. S # {} /\ CStr(arg) = SubSeq(arg, 1, Min(S) - 1)
    BY <1>2 DEF CStr
  <2>2. DOMAIN arg = 1 .. Len(arg) /\ Len(arg) \in Nat
    BY LenProperties
  <2>3. S \in SUBSET Nat /\ S \subseteq 1 .. Len(arg)
    BY <2>2
  <2> HIDE DEF S
  <2>4. Min(S) \in 1 .. Len(arg)
    BY <2>1, <2>3, MinFacts
  <2>5. \A i \in 1 .. Min(S) - 1 : arg[i] \in Byte
    BY <2>2, <2>4, ElementOfSeq
  <2>6. SubSeq(arg, 1, Min(S) - 1) \in Seq(Byte)
    BY <2>4, <2>5, SubSeqProperties
  <2>7. QED
    BY <2>1, <2>6 DEF Needle
<1>3. QED
  BY <1>1, <1>2

\* A piece of a text is a text, and as long as its ends are apart.
LEMMA Piece ==
  ASSUME NEW t \in Seq(Byte), NEW a \in 0 .. Len(t), NEW b \in a .. Len(t), Len(t) \in Nat
  PROVE  SubSeq(t, a + 1, b) \in Seq(Byte) /\ Len(SubSeq(t, a + 1, b)) = b - a
<1>1. \A i \in a + 1 .. b : t[i] \in Byte
  BY ElementOfSeq
<1>2. a + 1 \in Int /\ b \in Int
  OBVIOUS
<1>3. SubSeq(t, a + 1, b) \in Seq(Byte)
  BY <1>1, <1>2, SubSeqProperties
<1>4. Len(SubSeq(t, a + 1, b)) = IF a + 1 <= b THEN b - (a + 1) + 1 ELSE 0
  BY <1>2, SubSeqProperties
<1>5. QED
  BY <1>3, <1>4

\* Texts put together.
LEMMA Joined2 ==
  ASSUME NEW s \in Seq(Byte), NEW u \in Seq(Byte)
  PROVE  s \o u \in Seq(Byte) /\ Len(s \o u) = Len(s) + Len(u)
  BY ConcatProperties

-----------------------------------------------------------------------------
(* The matches of replace. *)

\* One more match, and what has been written has not outgrown its share.
LEMMA ShareKept ==
  ASSUME NEW b \in Nat, b >= 1, NEW to \in 0 .. b, NEW c \in Nat, NEW w \in Nat,
         NEW d \in Nat, NEW a \in Nat, a >= 1, w <= c * b
  PROVE  w + d + to <= ((c + d) + a) * b
<1>1. ((c + d) + a) * b = c * b + d * b + a * b
  OBVIOUS
<1>2. d * b >= d /\ a * b >= b
  OBVIOUS
<1>3. c * b \in Nat /\ d * b \in Nat /\ a * b \in Nat
  OBVIOUS
<1> DEFINE x == c * b
           y == d * b
           z == a * b
<1> HIDE DEF x, y, z
<1>4. w + d + to <= x + y + z
  BY <1>2, <1>3 DEF x, y, z
<1>5. QED
  BY <1>1, <1>4 DEF x, y, z

\* The rest of a text and what was written instead of its beginning are no
\* more than a replacement of each character.
LEMMA ShareFits ==
  ASSUME NEW b \in Nat, b >= 1, NEW c \in Nat, NEW w \in Nat, NEW n \in Nat, c <= n, w <= c * b
  PROVE  (n - c) + w <= n * b
<1>1. PICK r \in Nat : r = n - c
  OBVIOUS
<1>2. n = r + c
  BY <1>1
<1>3. n * b = r * b + c * b /\ r * b >= r
  BY <1>2
<1>4. r * b \in Nat /\ c * b \in Nat
  OBVIOUS
<1>5. QED
  BY <1>1, <1>3, <1>4

\* No count of replace is too large for a size_t, or negative.
LEMMA RunFits ==
  ASSUME job \in ReplaceJobs, NEW m \in Nat, NEW c, NEW w, Run(m, c, w)
  PROVE  /\ c[m] \in 0 .. Len(job.text) /\ w[m] \in Nat
         /\ (Len(job.text) - c[m]) + w[m] \in 0 .. SizeMod - 1
<1> DEFINE n == Len(job.text)
           b == Larger(1, Len(job.to))
<1>1. n \in Nat /\ Len(job.to) \in Nat /\ SizeMod \in Nat
  BY ReplaceFacts, SizeAssumption
<1>2. m \in 0 .. m
  OBVIOUS
<1>3. c[m] \in 0 .. n /\ w[m] \in Nat /\ w[m] <= c[m] * b
  BY <1>2 DEF Run
<1>4. b \in Nat /\ b >= 1 /\ n * b < SizeMod
  <2>1. n < SizeMod /\ n * Len(job.to) < SizeMod
    BY ReplaceFacts, ReplaceAssumption
  <2>2. CASE Len(job.to) < 1
    <3>1. b = 1 /\ n * 1 = n
      BY <1>1, <2>2 DEF Larger
    <3>2. QED
      BY <2>1, <3>1
  <2>3. CASE ~(Len(job.to) < 1)
    <3>1. b = Len(job.to)
      <4>1. 1 > Len(job.to) <=> Len(job.to) < 1
        BY <1>1
      <4>2. QED
        BY <2>3, <4>1 DEF Larger
    <3>2. b \in Nat /\ b >= 1
      BY <1>1, <2>3, <3>1
    <3>3. n * b = n * Len(job.to)
      BY <3>1
    <3> HIDE DEF n, b
    <3>4. QED
      BY <2>1, <3>2, <3>3 DEF n
  <2>4. QED
    BY <2>2, <2>3
<1> HIDE DEF n, b
<1>5. (n - c[m]) + w[m] <= n * b
  <2>1. PICK p \in 0 .. n, q \in Nat : p = c[m] /\ q = w[m]
    BY <1>3
  <2>2. p \in Nat /\ p <= n /\ q <= p * b
    BY <1>1, <1>3, <2>1
  <2>3. (n - p) + q <= n * b
    BY <1>1, <1>4, <2>2, ShareFits
  <2>4. QED
    BY <2>1, <2>3
<1>6. n * b \in Nat
  BY <1>1, <1>4
<1>7. (n - c[m]) + w[m] \in 0 .. SizeMod - 1
  <2> DEFINE most == n * b
  <2>1. (n - c[m]) + w[m] <= most /\ most \in Nat /\ most < SizeMod
    BY <1>4, <1>5, <1>6
  <2> HIDE DEF most
  <2>2. c[m] \in Nat /\ c[m] <= n /\ w[m] \in Nat
    BY <1>1, <1>3
  <2>3. QED
    BY <1>1, <2>1, <2>2
<1>8. QED
  BY <1>3, <1>7 DEF n

\* Before the first match of a call.
LEMMA NoMatch ==
  ASSUME job' \in ReplaceJobs
  PROVE  \E c, w : Run(0, c, w)' /\ c[0] = 0 /\ w[0] = 0
<1> DEFINE z == [i \in 0 .. 0 |-> 0]
<1>1. Len(job'.text) \in Nat /\ Len(job'.to) \in Nat
  BY ReplaceFacts
<1>2. z \in [0 .. 0 -> 0 .. Len(job'.text)] /\ z \in [0 .. 0 -> Nat]
  BY <1>1
<1>3. z[0] = 0 /\ \A i \in 0 .. 0 : z[i] = 0
  OBVIOUS
<1> HIDE DEF z
<1>4. \A i \in 0 .. 0 - 1 : FALSE
  OBVIOUS
<1>5. 0 <= 0 * Larger(1, Len(job'.to))
  BY <1>1 DEF Larger
<1>6. Run(0, z, z)'
  BY <1>2, <1>3, <1>4, <1>5 DEF Run
<1>7. QED
  BY <1>3, <1>6

\* One match after the others.
LEMMA OneMatchMore ==
  ASSUME job \in ReplaceJobs, job.arg # <<>>, NEW m \in Nat, NEW c, NEW w, Run(m, c, w),
         Match(c[m]) # -1
  PROVE  \E cc, ww :
           /\ Run(m + 1, cc, ww)
           /\ cc[m + 1] = Match(c[m]) + Len(job.arg)
           /\ ww[m + 1] = w[m] + (Match(c[m]) - c[m]) + Len(job.to)
<1> DEFINE n  == Len(job.text)
           f  == Match(c[m])
           a  == Len(job.arg)
           to == Len(job.to)
           b  == Larger(1, to)
           cc == [i \in 0 .. m + 1 |-> IF i <= m THEN c[i] ELSE f + a]
           ww == [i \in 0 .. m + 1 |-> IF i <= m THEN w[i] ELSE w[m] + (f - c[m]) + to]
<1>1. /\ n \in Nat /\ a \in Nat /\ to \in Nat /\ job.arg \in Seq(Byte)
  BY ReplaceFacts
<1>2. a >= 1
  BY <1>1, EmptySeq
<1>3. \A i \in 0 .. m : c[i] \in 0 .. n /\ w[i] \in Nat
  BY DEF Run
<1>4. c[m] \in 0 .. n /\ w[m] \in Nat
  BY <1>3
<1>5. f \in c[m] .. n /\ f + a <= n
  BY <1>1, <1>4, FindInFacts DEF Match
<1>6. b \in Nat /\ b >= 1 /\ to \in 0 .. b
  BY <1>1 DEF Larger
<1> HIDE DEF n, f, a, to, b
<1>7. w[m] + (f - c[m]) + to <= (f + a) * b
  <2>1. PICK d \in Nat : d = f - c[m]
    BY <1>4, <1>5
  <2>2. c[m] + d = f
    BY <1>4, <1>5, <2>1
  <2>3. w[m] <= c[m] * b
    BY DEF Run, b, to
  <2>4. c[m] \in Nat
    BY <1>4
  <2>5. w[m] + d + to <= ((c[m] + d) + a) * b
    BY <1>1, <1>2, <1>4, <1>6, <2>3, <2>4, ShareKept
  <2>6. QED
    BY <2>1, <2>2, <2>5
<1>8. f + a \in 0 .. n /\ w[m] + (f - c[m]) + to \in Nat /\ w[m] <= w[m] + (f - c[m]) + to
  BY <1>1, <1>4, <1>5, SMTT(30)
<1>9. /\ cc \in [0 .. m + 1 -> 0 .. n] /\ ww \in [0 .. m + 1 -> Nat]
  BY <1>3, <1>8
<1>10. /\ \A i \in 0 .. m : cc[i] = c[i] /\ ww[i] = w[i]
       /\ cc[m + 1] = f + a /\ ww[m + 1] = w[m] + (f - c[m]) + to
  OBVIOUS
<1> HIDE DEF cc, ww
<1>11. cc[0] = 0 /\ ww[0] = 0
  BY <1>10 DEF Run
<1>12. ASSUME NEW i \in 0 .. (m + 1) - 1
       PROVE  /\ Match(cc[i]) # -1
              /\ cc[i + 1] = Match(cc[i]) + a
              /\ ww[i + 1] = ww[i] + (Match(cc[i]) - cc[i]) + to
  <2>1. i \in 0 .. m
    OBVIOUS
  <2>2. CASE i = m
    <3>1. cc[i] = c[m] /\ ww[i] = w[m]
      BY <1>10, <2>1, <2>2
    <3>2. QED
      BY <1>10, <2>2, <3>1 DEF f
  <2>3. CASE i # m
    <3>1. i \in 0 .. m - 1 /\ i + 1 \in 0 .. m
      BY <2>1, <2>3
    <3>2. cc[i] = c[i] /\ ww[i] = w[i] /\ cc[i + 1] = c[i + 1] /\ ww[i + 1] = w[i + 1]
      BY <1>10, <2>1, <3>1
    <3>3. QED
      BY <3>1, <3>2 DEF Run, a, to
  <2>4. QED
    BY <2>2, <2>3
<1>13. ASSUME NEW i \in 0 .. m + 1 PROVE ww[i] <= ww[m + 1]
  <2>1. CASE i = m + 1
    BY <1>8, <1>10, <2>1
  <2>2. CASE i # m + 1
    <3>1. i \in 0 .. m
      BY <2>2
    <3>2. w[i] <= w[m]
      BY <3>1 DEF Run
    <3>3. QED
      BY <1>3, <1>4, <1>8, <1>10, <3>1, <3>2
  <2>3. QED
    BY <2>1, <2>2
<1>14. ww[m + 1] <= cc[m + 1] * b
  BY <1>7, <1>10
<1>15. Run(m + 1, cc, ww)
  BY <1>9, <1>11, <1>12, <1>13, <1>14 DEF Run, n, a, to, b
<1>16. QED
  BY <1>10, <1>15 DEF f, a, to

\* A size_t holds what is less than SizeMod.
LEMMA WrapSmall ==
  ASSUME NEW x \in 0 .. SizeMod - 1
  PROVE  Wrap(x) = x
<1>1. SizeMod \in Nat /\ SizeMod > 0 /\ x \in Nat /\ x < SizeMod
  BY SizeAssumption
<1>2. QED
  BY <1>1 DEF Wrap

\* The matches belong to the call.
LEMMA RunKept ==
  ASSUME job' = job, NEW CONSTANT m, NEW CONSTANT c, NEW CONSTANT w
  PROVE  /\ Run(m, c, w)' <=> Run(m, c, w)
         /\ \A p : Match(p)' = Match(p)
  BY DEF Run, Match

-----------------------------------------------------------------------------
(* The actions. *)

\* Nothing has been called.
LEMMA InitSCInv == Init => SCInv
  BY DEF Init, SCInv, Phases

\* Calls that answer in one step are no calls of replace.
LEMMA AnswersSCInv ==
  ASSUME SCInv, NEW j \in FindJobs \cup CutJobs \cup SepJobs \cup CaseJobs \cup OrderJobs,
         Find(j) \/ Ask(j) \/ Order(j)
  PROVE  SCInv'
<1>1. j \in Jobs /\ j.call # "replace"
  BY DEF Jobs, FindJobs, CutJobs, SepJobs, CaseJobs, OrderJobs
<1>2. job' = j /\ phase' = "done" /\ next' = next
  BY DEF Find, Ask, Order
<1>3. QED
  BY <1>1, <1>2 DEF SCInv, Phases

\* A call of replace begins before the first match.
LEMMA CallReplaceSCInv ==
  ASSUME SCInv, NEW j \in ReplaceJobs, CallReplace(j)
  PROVE  SCInv'
<1>1. /\ phase = "idle" /\ job' = j /\ size' = Len(j.text) /\ next' = next
      /\ IF j.text = <<>> \/ j.arg = <<>>
         THEN phase' = "done" /\ answer' = j.text
         ELSE /\ phase' = IF Len(j.arg) # Len(j.to) THEN "measure" ELSE "write"
              /\ answer' = answer
  BY DEF CallReplace
<1>2. next' = 0 /\ answer = <<>>
  BY <1>1 DEF SCInv
<1>3. j \in Jobs /\ Len(j.text) \in Nat /\ job' \in ReplaceJobs
  BY <1>1, ReplaceFacts
<1>4. <<>> \in Seq(Byte) /\ Len(<<>>) = 0
  OBVIOUS
<1>5. CASE j.text = <<>> \/ j.arg = <<>>
  <2>1. phase' = "done" /\ Len(answer') = size'
    BY <1>1, <1>5
  <2>2. QED
    BY <1>1, <1>2, <1>3, <2>1 DEF SCInv, Phases
<1>6. CASE ~(j.text = <<>> \/ j.arg = <<>>)
  <2>1. answer' = <<>> /\ j.arg # <<>> /\ phase' = IF Len(j.arg) # Len(j.to) THEN "measure" ELSE "write"
    BY <1>1, <1>2, <1>6
  <2>2. phase' = "measure" => Measuring'
    <3>1. PICK c, w : Run(0, c, w)' /\ c[0] = 0 /\ w[0] = 0
      BY <1>3, NoMatch
    <3>2. SizeAfter(0, c, w)'
      BY <1>1, <1>3, <3>1 DEF SizeAfter
    <3>3. 0 \in Nat /\ next' = c[0]
      BY <1>2, <3>1
    <3>4. QED
      BY <3>1, <3>2, <3>3 DEF Measuring
  <2>3. phase' = "write" => Writing'
    <3>1. phase' = "write" => Len(j.arg) = Len(j.to)
      BY <2>1
    <3>2. QED
      BY <1>1, <1>2, <1>4, <2>1, <3>1 DEF Writing
  <2>4. phase' \in {"measure", "write"}
    BY <2>1
  <2>5. next' <= Len(job'.text)
    BY <1>1, <1>2, <1>3
  <2>6. QED
    BY <1>1, <1>2, <1>3, <1>4, <2>1, <2>2, <2>3, <2>4, <2>5 DEF SCInv, Phases
<1>7. QED
  BY <1>5, <1>6

\* The first pass counts one match more.
LEMMA MeasureMatchSCInv ==
  ASSUME SCInv, MeasureMatch
  PROVE  SCInv'
<1>1. /\ phase = "measure" /\ Found # -1
      /\ size' = Wrap(size + Len(job.to) - Len(job.arg)) /\ next' = Found + Len(job.arg)
      /\ job' = job /\ phase' = phase /\ answer' = answer
  BY DEF MeasureMatch
<1>2. job \in ReplaceJobs /\ job.arg # <<>> /\ Measuring /\ answer = <<>> /\ answer \in Seq(Byte)
  BY <1>1 DEF SCInv
<1>3. PICK m \in Nat : \E c, w : Run(m, c, w) /\ next = c[m] /\ SizeAfter(m, c, w)
  BY <1>2 DEF Measuring
<1>4. PICK c, w : Run(m, c, w) /\ next = c[m] /\ SizeAfter(m, c, w)
  BY <1>3
<1>5. Found = Match(c[m])
  BY <1>4 DEF Found, Match
<1>6. PICK cc, ww :
        /\ Run(m + 1, cc, ww)
        /\ cc[m + 1] = Match(c[m]) + Len(job.arg)
        /\ ww[m + 1] = w[m] + (Match(c[m]) - c[m]) + Len(job.to)
  BY <1>1, <1>2, <1>4, <1>5, OneMatchMore
<1>7. m + 1 \in Nat /\ next' = cc[m + 1]
  BY <1>1, <1>5, <1>6
<1>8. /\ cc[m + 1] \in 0 .. Len(job.text) /\ ww[m + 1] \in Nat
      /\ (Len(job.text) - cc[m + 1]) + ww[m + 1] \in 0 .. SizeMod - 1
  BY <1>2, <1>6, <1>7, RunFits
<1>9. c[m] \in 0 .. Len(job.text) /\ w[m] \in Nat
  BY <1>2, <1>4, RunFits
<1>10. size + Len(job.to) - Len(job.arg) = (Len(job.text) - cc[m + 1]) + ww[m + 1]
  <2>1. Len(job.text) \in Nat /\ Len(job.arg) \in Nat /\ Len(job.to) \in Nat
    BY <1>2, ReplaceFacts
  <2>2. PICK f \in c[m] .. Len(job.text) : f = Match(c[m])
    <3>1. job.arg \in Seq(Byte)
      BY <1>2, ReplaceFacts
    <3>2. Match(c[m]) # -1
      BY <1>1, <1>5
    <3>3. QED
      BY <1>9, <2>1, <3>1, <3>2, FindInFacts DEF Match
  <2>3. size = (Len(job.text) - c[m]) + w[m]
    BY <1>4 DEF SizeAfter
  <2>4. cc[m + 1] = f + Len(job.arg) /\ ww[m + 1] = w[m] + (f - c[m]) + Len(job.to)
    BY <1>6, <2>2
  <2>5. f \in Nat
    BY <1>9, <2>2
  <2> DEFINE n  == Len(job.text)
             p  == c[m]
             q  == w[m]
             a  == Len(job.arg)
             to == Len(job.to)
  <2>6. n \in Int /\ p \in Int /\ q \in Int /\ a \in Int /\ to \in Int /\ f \in Int
    BY <1>9, <2>1, <2>5
  <2>7. size = (n - p) + q /\ cc[m + 1] = f + a /\ ww[m + 1] = q + (f - p) + to
    BY <2>3, <2>4
  <2> HIDE DEF n, p, q, a, to
  <2>8. ((n - p) + q) + to - a = (n - (f + a)) + (q + (f - p) + to)
    BY <2>6
  <2>9. size + to - a = (n - cc[m + 1]) + ww[m + 1]
    BY <2>7, <2>8
  <2>10. QED
    BY <2>9 DEF n, a, to
<1>11. size' = (Len(job.text) - cc[m + 1]) + ww[m + 1]
  <2> DEFINE x == (Len(job.text) - cc[m + 1]) + ww[m + 1]
  <2>1. x \in 0 .. SizeMod - 1 /\ size + Len(job.to) - Len(job.arg) = x
    BY <1>8, <1>10
  <2> HIDE DEF x
  <2>2. Wrap(x) = x
    BY <2>1, WrapSmall
  <2>3. size' = Wrap(x)
    BY <1>1, <2>1
  <2>4. QED
    BY <2>2, <2>3 DEF x
<1>12. Measuring'
  <2>1. Run(m + 1, cc, ww)'
    BY <1>1, <1>6, RunKept
  <2>2. SizeAfter(m + 1, cc, ww)'
    BY <1>1, <1>11 DEF SizeAfter
  <2>3. QED
    BY <1>7, <2>1, <2>2 DEF Measuring
<1>13. next' \in Nat /\ next' <= Len(job.text)
  BY <1>7, <1>8
<1>14. QED
  BY <1>1, <1>2, <1>12, <1>13 DEF SCInv

\* The first pass has met all matches.
LEMMA AllocateSCInv ==
  ASSUME SCInv, Allocate
  PROVE  SCInv'
<1>1. /\ phase = "measure" /\ Found = -1 /\ phase' = "write" /\ next' = 0
      /\ job' = job /\ size' = size /\ answer' = answer
  BY DEF Allocate
<1>2. job \in ReplaceJobs /\ job.arg # <<>> /\ Measuring /\ answer = <<>> /\ answer \in Seq(Byte)
      /\ job \in Jobs
  BY <1>1 DEF SCInv
<1>3. PICK m \in Nat : \E c, w : Run(m, c, w) /\ next = c[m] /\ SizeAfter(m, c, w)
  BY <1>2 DEF Measuring
<1>4. PICK c, w : Run(m, c, w) /\ next = c[m] /\ SizeAfter(m, c, w)
  BY <1>3
<1>5. Match(c[m]) = -1
  BY <1>1, <1>4 DEF Found, Match
<1>6. Run(m, c, w)' /\ (Match(c[m]) = -1)' /\ SizeAfter(m, c, w)'
  BY <1>1, <1>4, <1>5, RunKept DEF SizeAfter
<1>7. 0 \in 0 .. m /\ next' = c[0] /\ Len(answer') = w[0]
  BY <1>1, <1>2, <1>4 DEF Run
<1>8. Writing'
  BY <1>6, <1>7 DEF Writing
<1>9. 0 <= Len(job'.text)
  BY <1>1, <1>2, ReplaceFacts
<1>10. QED
  BY <1>1, <1>2, <1>8, <1>9 DEF SCInv, Phases

\* The next match in the second pass is where it is, or there is none.
LEMMA FoundInText ==
  ASSUME job \in ReplaceJobs, next \in Nat, next <= Len(job.text)
  PROVE  /\ Found = Match(next)
         /\ Found # -1 => Found \in next .. Len(job.text) /\ Found + Len(job.arg) <= Len(job.text)
<1>1. Len(job.text) \in Nat /\ job.arg \in Seq(Byte)
  BY ReplaceFacts
<1>2. next \in 0 .. Len(job.text)
  BY <1>1
<1>3. QED
  BY <1>1, <1>2, FindInFacts DEF Found, Match

\* The second pass is at a match the first has counted.
LEMMA WriteMatchSCInv ==
  ASSUME SCInv, WriteMatch
  PROVE  SCInv'
<1> DEFINE n  == Len(job.text)
           a  == Len(job.arg)
           to == Len(job.to)
<1>1. /\ phase = "write" /\ Found # -1
      /\ answer' = answer \o SubSeq(job.text, next + 1, Found) \o job.to
      /\ next' = Found + a /\ job' = job /\ phase' = phase /\ size' = size
  BY DEF WriteMatch
<1>2. /\ job \in ReplaceJobs /\ job.arg # <<>> /\ answer \in Seq(Byte) /\ Writing /\ job \in Jobs
      /\ next \in Nat /\ next <= n
  BY <1>1 DEF SCInv
<1>3. /\ n \in Nat /\ a \in Nat /\ to \in Nat
      /\ job.text \in Seq(Byte) /\ job.to \in Seq(Byte)
  BY <1>2, ReplaceFacts
<1>4. Found = Match(next) /\ Found \in next .. n /\ Found + a <= n
  BY <1>1, <1>2, FoundInText
<1>5. /\ SubSeq(job.text, next + 1, Found) \in Seq(Byte)
      /\ Len(SubSeq(job.text, next + 1, Found)) = Found - next
  BY <1>2, <1>3, <1>4, Piece
<1>6. answer' \in Seq(Byte) /\ Len(answer') = Len(answer) + (Found - next) + to
  BY <1>1, <1>2, <1>3, <1>5, Joined2
<1>7. next' \in Nat /\ next' <= n
  BY <1>1, <1>2, <1>3, <1>4
<1>8. CASE a = to /\ size = n /\ Len(answer) = next
  <2>1. Len(answer') = next'
    BY <1>1, <1>2, <1>3, <1>4, <1>6, <1>8
  <2>2. Writing'
    BY <1>1, <1>8, <2>1 DEF Writing
  <2>3. QED
    BY <1>1, <1>2, <1>6, <1>7, <2>2 DEF SCInv
<1>9. CASE \E m \in Nat : \E c, w :
              /\ Run(m, c, w) /\ Match(c[m]) = -1 /\ SizeAfter(m, c, w)
              /\ \E i \in 0 .. m : next = c[i] /\ Len(answer) = w[i]
  <2>1. PICK m \in Nat : \E c, w :
              /\ Run(m, c, w) /\ Match(c[m]) = -1 /\ SizeAfter(m, c, w)
              /\ \E i \in 0 .. m : next = c[i] /\ Len(answer) = w[i]
    BY <1>9
  <2>2. PICK c, w :
              /\ Run(m, c, w) /\ Match(c[m]) = -1 /\ SizeAfter(m, c, w)
              /\ \E i \in 0 .. m : next = c[i] /\ Len(answer) = w[i]
    BY <2>1
  <2>3. PICK i \in 0 .. m : next = c[i] /\ Len(answer) = w[i]
    BY <2>2
  <2>4. i # m
    BY <1>1, <1>4, <2>2, <2>3
  <2>5. i \in 0 .. m - 1 /\ i + 1 \in 0 .. m
    BY <2>3, <2>4
  <2>6. c[i + 1] = Match(c[i]) + a /\ w[i + 1] = w[i] + (Match(c[i]) - c[i]) + to
    BY <2>2, <2>5 DEF Run
  <2>7. next' = c[i + 1] /\ Len(answer') = w[i + 1]
    BY <1>1, <1>4, <1>6, <2>3, <2>6
  <2>8. Run(m, c, w)' /\ (Match(c[m]) = -1)' /\ SizeAfter(m, c, w)'
    BY <1>1, <2>2, RunKept DEF SizeAfter
  <2>9. Writing'
    BY <2>5, <2>7, <2>8 DEF Writing
  <2>10. QED
    BY <1>1, <1>2, <1>6, <1>7, <2>9 DEF SCInv
<1>10. QED
  BY <1>2, <1>8, <1>9 DEF Writing

\* The second pass has met all matches the first has counted.
LEMMA WriteRestSCInv ==
  ASSUME SCInv, WriteRest
  PROVE  SCInv'
<1> DEFINE n == Len(job.text)
<1>1. /\ phase = "write" /\ Found = -1
      /\ answer' = answer \o SubSeq(job.text, next + 1, n)
      /\ phase' = "done" /\ next' = next /\ job' = job /\ size' = size
  BY DEF WriteRest
<1>2. /\ job \in ReplaceJobs /\ answer \in Seq(Byte) /\ Writing /\ job \in Jobs
      /\ next \in Nat /\ next <= n
  BY <1>1 DEF SCInv
<1>3. n \in Nat /\ job.text \in Seq(Byte)
  BY <1>2, ReplaceFacts
<1>4. Match(next) = -1
  BY <1>1, <1>2, FoundInText
<1>5. /\ SubSeq(job.text, next + 1, n) \in Seq(Byte)
      /\ Len(SubSeq(job.text, next + 1, n)) = n - next
  BY <1>2, <1>3, Piece
<1>6. answer' \in Seq(Byte) /\ Len(answer') = Len(answer) + (n - next)
  BY <1>1, <1>2, <1>5, Joined2
<1>7. Len(answer') = size
  <2>1. CASE size = n /\ Len(answer) = next
    BY <1>2, <1>3, <1>6, <2>1
  <2>2. CASE \E m \in Nat : \E c, w :
              /\ Run(m, c, w) /\ Match(c[m]) = -1 /\ SizeAfter(m, c, w)
              /\ \E i \in 0 .. m : next = c[i] /\ Len(answer) = w[i]
    <3>1. PICK m \in Nat : \E c, w :
              /\ Run(m, c, w) /\ Match(c[m]) = -1 /\ SizeAfter(m, c, w)
              /\ \E i \in 0 .. m : next = c[i] /\ Len(answer) = w[i]
      BY <2>2
    <3>2. PICK c, w :
              /\ Run(m, c, w) /\ Match(c[m]) = -1 /\ SizeAfter(m, c, w)
              /\ \E i \in 0 .. m : next = c[i] /\ Len(answer) = w[i]
      BY <3>1
    <3>3. PICK i \in 0 .. m : next = c[i] /\ Len(answer) = w[i]
      BY <3>2
    <3>4. i = m
      <4>1. i \in 0 .. m - 1 => Match(c[i]) # -1
        BY <3>2 DEF Run
      <4>2. QED
        BY <1>4, <3>3, <4>1
    <3>5. c[m] \in 0 .. n /\ w[m] \in Nat
      BY <1>2, <3>2, RunFits
    <3>6. size = (n - c[m]) + w[m]
      BY <3>2 DEF SizeAfter
    <3>7. QED
      BY <1>3, <1>6, <3>3, <3>4, <3>5, <3>6
  <2>3. QED
    BY <1>2, <2>1, <2>2 DEF Writing
<1>8. QED
  BY <1>1, <1>2, <1>7 DEF SCInv, Phases

\* What a call of split or tokenize is made of.
LEMMA PiecesFacts ==
  ASSUME NEW j \in SplitJobs \cup TokenJobs
  PROVE  /\ j \in Jobs /\ j.call # "replace"
         /\ j.text \in Seq(Byte) /\ Len(j.text) \in Nat /\ j.arg \in Seq(Byte)
<1>1. j \in Jobs /\ j.call # "replace" /\ j.text \in Texts /\ j.arg \in Needles \cup Charsets
  BY DEF Jobs, SplitJobs, TokenJobs
<1>2. j.text \in Seq(Byte) /\ j.arg \in Seq(Byte)
  BY <1>1, TextAssumption
<1>3. Len(j.text) \in Nat
  BY <1>2, LenProperties
<1>4. QED
  BY <1>1, <1>2, <1>3

\* split and tokenize begin at the beginning of the text.
LEMMA CallPiecesSCInv ==
  ASSUME SCInv, NEW j \in SplitJobs \cup TokenJobs, CallPieces(j)
  PROVE  SCInv'
<1>1. phase = "idle" /\ job' = j /\ phase' = "collect" /\ next' = next
  BY DEF CallPieces
<1>2. next' = 0
  BY <1>1 DEF SCInv
<1>3. j \in Jobs /\ Len(j.text) \in Nat
  BY PiecesFacts
<1>4. QED
  BY <1>1, <1>2, <1>3 DEF SCInv, Phases

\* The call whose pieces are collected.
LEMMA AtCollect ==
  ASSUME SCInv, phase = "collect"
  PROVE  /\ job \in SplitJobs \cup TokenJobs /\ job \in Jobs /\ job.call # "replace"
         /\ Len(job.text) \in Nat /\ next \in 0 .. Len(job.text) /\ job.arg \in Seq(Byte)
<1>1. job \in SplitJobs \cup TokenJobs /\ next \in Nat /\ next <= Len(job.text)
  BY DEF SCInv
<1>2. QED
  BY <1>1, PiecesFacts

\* A piece more of split, and the splitter behind it.
LEMMA SplitOneSCInv ==
  ASSUME SCInv, SplitOne
  PROVE  SCInv'
<1>1. /\ phase = "collect" /\ SplitAt # -1 /\ next' = SplitAt + Len(Splitter)
      /\ job' = job /\ phase' = phase
  BY DEF SplitOne
<1>2. /\ job \in SplitJobs \cup TokenJobs /\ job \in Jobs
      /\ Len(job.text) \in Nat /\ next \in 0 .. Len(job.text) /\ job.arg \in Seq(Byte)
  BY <1>1, AtCollect
<1>3. Splitter \in Seq(Byte) /\ Len(Splitter) \in Nat
  BY <1>2, NeedleFacts, LenProperties DEF Splitter
<1>4. SplitAt \in next .. Len(job.text) /\ SplitAt + Len(Splitter) <= Len(job.text)
  BY <1>1, <1>2, <1>3, FindInFacts DEF SplitAt
<1>5. next' \in Nat /\ next' <= Len(job.text)
  BY <1>1, <1>2, <1>3, <1>4
<1>6. QED
  BY <1>1, <1>2, <1>5 DEF SCInv

\* The delimiters begin and end in the text.
LEMMA DelimitersFacts ==
  ASSUME Len(job.text) \in Nat, NEW p \in 0 .. Len(job.text)
  PROVE  Delimited(p) \in p .. Len(job.text) /\ Resumed(p) \in p .. Len(job.text)
<1> DEFINE S == {q \in p .. Len(job.text) : q = Len(job.text) \/ In(job.text, q, job.arg)}
           T == {q \in p .. Len(job.text) : q = Len(job.text) \/ ~In(job.text, q, job.arg)}
<1>1. /\ S \in SUBSET (p .. Len(job.text)) /\ Len(job.text) \in S
      /\ T \in SUBSET (p .. Len(job.text)) /\ Len(job.text) \in T
  OBVIOUS
<1>2. Delimited(p) = Min(S) /\ Resumed(p) = Min(T)
  BY DEF Delimited, Resumed
<1> HIDE DEF S, T
<1>3. S \in SUBSET Nat /\ T \in SUBSET Nat
  BY <1>1
<1>4. Min(S) \in S /\ Min(T) \in T
  BY <1>1, <1>3, MinFacts
<1>5. QED
  BY <1>1, <1>2, <1>4

\* A turn of tokenize.
LEMMA TokenSCInv ==
  ASSUME SCInv, Token
  PROVE  SCInv'
<1>1. /\ phase = "collect" /\ next' = Resumed(Delimited(next)) /\ job' = job /\ phase' = phase
  BY DEF Token
<1>2. /\ job \in SplitJobs \cup TokenJobs /\ job \in Jobs
      /\ Len(job.text) \in Nat /\ next \in 0 .. Len(job.text)
  BY <1>1, AtCollect
<1>3. Delimited(next) \in 0 .. Len(job.text)
  BY <1>2, DelimitersFacts
<1>4. next' \in Nat /\ next' <= Len(job.text)
  BY <1>1, <1>2, <1>3, DelimitersFacts
<1>5. QED
  BY <1>1, <1>2, <1>4 DEF SCInv

\* All pieces are collected, or the answer is handed over.
LEMMA EndsSCInv ==
  ASSUME SCInv, SplitRest \/ TokensDone \/ Return
  PROVE  SCInv'
<1>1. CASE SplitRest \/ TokensDone
  <2>1. phase = "collect" /\ phase' = "done" /\ job' = job /\ next' = next
    BY <1>1 DEF SplitRest, TokensDone
  <2>2. job \in Jobs /\ job.call # "replace" /\ next \in Nat
    BY <2>1, AtCollect
  <2>3. QED
    BY <2>1, <2>2 DEF SCInv, Phases
<1>2. CASE Return
  BY <1>2 DEF Return, SCInv, Phases
<1>3. QED
  BY <1>1, <1>2

\* Every step keeps the invariant.
LEMMA NextSCInv == SCInv /\ [Next]_vars => SCInv'
<1> SUFFICES ASSUME SCInv, [Next]_vars PROVE SCInv'
  OBVIOUS
<1>1. ASSUME NEW j \in FindJobs, Find(j) PROVE SCInv'
  BY <1>1, AnswersSCInv
<1>2. ASSUME NEW j \in CutJobs \cup SepJobs \cup CaseJobs, Ask(j) PROVE SCInv'
  BY <1>2, AnswersSCInv
<1>3. ASSUME NEW j \in OrderJobs, Order(j) PROVE SCInv'
  BY <1>3, AnswersSCInv
<1>4. ASSUME NEW j \in ReplaceJobs, CallReplace(j) PROVE SCInv'
  BY <1>4, CallReplaceSCInv
<1>5. ASSUME NEW j \in SplitJobs \cup TokenJobs, CallPieces(j) PROVE SCInv'
  BY <1>5, CallPiecesSCInv
<1>6. CASE MeasureMatch \/ Allocate \/ WriteMatch \/ WriteRest
  BY <1>6, MeasureMatchSCInv, AllocateSCInv, WriteMatchSCInv, WriteRestSCInv
<1>7. CASE SplitOne \/ Token
  BY <1>7, SplitOneSCInv, TokenSCInv
<1>8. CASE SplitRest \/ TokensDone \/ Return
  BY <1>8, EndsSCInv
<1>9. CASE UNCHANGED vars
  <2>1. job' = job /\ phase' = phase /\ next' = next /\ size' = size /\ answer' = answer
    BY <1>9 DEF vars
  <2>2. (Measuring' <=> Measuring) /\ (Writing' <=> Writing)
    BY <2>1 DEF Measuring, Writing, Run, SizeAfter, Match
  <2>3. QED
    BY <2>1, <2>2 DEF SCInv
<1>10. QED
  BY <1>1, <1>2, <1>3, <1>4, <1>5, <1>6, <1>7, <1>8, <1>9 DEF Next

-----------------------------------------------------------------------------
\* Both passes of replace meet the same matches, and every loop is in its text.
THEOREM SCInvHolds == Spec => []SCInv
<1>1. QED
  BY InitSCInv, NextSCInv, PTL DEF Spec

\* replace writes as much as it has allocated (st_string.h:2275-2334), for all
\* texts and replacements whose result a size_t can count.
THEOREM ReplaceFits == Spec => []WritesWhatItMeasured
<1>1. SCInv => WritesWhatItMeasured
  <2> SUFFICES ASSUME SCInv, phase = "write" PROVE Len(answer) <= size
    BY DEF SCInv, WritesWhatItMeasured
  <2>1. /\ job \in ReplaceJobs /\ Writing /\ next \in Nat /\ next <= Len(job.text)
    BY DEF SCInv
  <2>2. CASE size = Len(job.text) /\ Len(answer) = next
    BY <2>1, <2>2
  <2>3. CASE \E m \in Nat : \E c, w :
              /\ Run(m, c, w) /\ Match(c[m]) = -1 /\ SizeAfter(m, c, w)
              /\ \E i \in 0 .. m : next = c[i] /\ Len(answer) = w[i]
    <3>1. PICK m \in Nat : \E c, w :
              /\ Run(m, c, w) /\ Match(c[m]) = -1 /\ SizeAfter(m, c, w)
              /\ \E i \in 0 .. m : next = c[i] /\ Len(answer) = w[i]
      BY <2>3
    <3>2. PICK c, w :
              /\ Run(m, c, w) /\ Match(c[m]) = -1 /\ SizeAfter(m, c, w)
              /\ \E i \in 0 .. m : next = c[i] /\ Len(answer) = w[i]
      BY <3>1
    <3>3. PICK i \in 0 .. m : next = c[i] /\ Len(answer) = w[i]
      BY <3>2
    <3>4. c[m] \in 0 .. Len(job.text) /\ w[m] \in Nat /\ Len(job.text) \in Nat
      BY <2>1, <3>2, RunFits, ReplaceFacts
    <3>5. w[i] <= w[m] /\ w[i] \in Nat /\ size = (Len(job.text) - c[m]) + w[m]
      BY <3>2 DEF Run, SizeAfter
    <3>6. QED
      BY <3>3, <3>4, <3>5
  <2>4. QED
    BY <2>1, <2>2, <2>3 DEF Writing
<1>2. QED
  BY <1>1, SCInvHolds, PTL

-----------------------------------------------------------------------------
\* The greatest of some natural numbers up to a bound.
LEMMA MaxFacts ==
  ASSUME NEW b \in Nat, NEW S \in SUBSET (0 .. b), S # {}
  PROVE  Max(S) \in S /\ \A y \in S : y <= Max(S)
<1> DEFINE T == {b - y : y \in S}
<1>0. \A y \in S : y \in Nat /\ b - y \in Nat
  OBVIOUS
<1>1. T \in SUBSET Nat /\ T # {}
  BY <1>0
<1>2. Min(T) \in T /\ \A z \in T : Min(T) <= z
  <2> HIDE DEF T
  <2>1. QED
    BY <1>1, MinFacts
<1>3. PICK x \in S : Min(T) = b - x
  BY <1>2
<1>4. \A y \in S : y <= x
  <2> SUFFICES ASSUME NEW y \in S PROVE y <= x
    OBVIOUS
  <2>1. b - y \in T
    OBVIOUS
  <2>2. b - x <= b - y
    BY <1>2, <1>3, <2>1
  <2>3. QED
    BY <2>2
<1>5. QED
  BY <1>4 DEF Max

\* A set of places has a lowest and a highest one, unless it is empty.
LEMMA EndsFacts ==
  ASSUME NEW b \in Nat, NEW S \in SUBSET (0 .. b)
  PROVE  /\ S = {} => Lowest(S) = -1 /\ Highest(S) = -1
         /\ S # {} => /\ Lowest(S) \in S /\ \A y \in S : Lowest(S) <= y
                      /\ Highest(S) \in S /\ \A y \in S : y <= Highest(S)
<1>1. S \in SUBSET Nat
  OBVIOUS
<1>2. QED
  BY <1>1, MinFacts, MaxFacts DEF Lowest, Highest

\* The ends of a set are told by what they are.
LEMMA EndsAre ==
  ASSUME NEW b \in Nat, NEW S \in SUBSET (0 .. b), NEW x \in S
  PROVE  /\ (\A y \in S : x <= y) => Lowest(S) = x
         /\ (\A y \in S : y <= x) => Highest(S) = x
<1>1. /\ Lowest(S) \in S /\ \A y \in S : Lowest(S) <= y
      /\ Highest(S) \in S /\ \A y \in S : y <= Highest(S)
  BY EndsFacts
<1>2. \A y \in S : y \in Nat
  OBVIOUS
<1>3. Lowest(S) \in Nat /\ Highest(S) \in Nat /\ x \in Nat
  BY <1>1, <1>2
<1>4. QED
  BY <1>1, <1>3

\* The characters of a piece.
LEMMA PieceAt ==
  ASSUME NEW t \in Seq(Byte), NEW a \in 0 .. Len(t), NEW b \in a .. Len(t), Len(t) \in Nat
  PROVE  \A i \in 1 .. b - a : SubSeq(t, a + 1, b)[i] = t[a + i]
<1>1. \A i \in a + 1 .. b : t[i] \in Byte
  BY ElementOfSeq
<1>2. a + 1 \in Int /\ b \in Int
  OBVIOUS
<1>3. \A i \in 1 .. b - (a + 1) + 1 : SubSeq(t, a + 1, b)[i] = t[(a + 1) + i - 1]
  BY <1>1, <1>2, SubSeqProperties
<1>4. ASSUME NEW i \in 1 .. b - a PROVE SubSeq(t, a + 1, b)[i] = t[a + i]
  <2>1. i \in 1 .. b - (a + 1) + 1 /\ (a + 1) + i - 1 = a + i
    OBVIOUS
  <2>2. SubSeq(t, a + 1, b)[i] = t[(a + 1) + i - 1]
    BY <1>3, <2>1
  <2>3. QED
    BY <2>1, <2>2
<1>5. QED
  BY <1>4

\* What a sequence of bytes is made of.
LEMMA TextFacts ==
  ASSUME NEW t \in Seq(Byte)
  PROVE  /\ Len(t) \in Nat /\ DOMAIN t = 1 .. Len(t)
         /\ \A i \in 1 .. Len(t) : t[i] \in Byte
         /\ t # <<>> => Len(t) > 0 /\ t[1] \in Byte
         /\ t = <<>> <=> Len(t) = 0
<1>1. Len(t) \in Nat /\ DOMAIN t = 1 .. Len(t) /\ \A i \in 1 .. Len(t) : t[i] \in Byte
  BY LenProperties, ElementOfSeq
<1>2. t = <<>> <=> Len(t) = 0
  BY EmptySeq
<1>3. QED
  BY <1>1, <1>2

\* A needle is where its characters are.
LEMMA OccursWhere ==
  ASSUME NEW t \in Seq(Byte), NEW needle \in Seq(Byte), NEW cs, NEW p \in Nat,
         p + Len(needle) <= Len(t)
  PROVE  Occurs(t, needle, cs, p) <=> Matches(t, p, needle, cs)
<1> DEFINE n == Len(needle)  s == SubSeq(t, p + 1, p + n)
<1>1. n \in Nat /\ Len(t) \in Nat /\ DOMAIN needle = 1 .. n
  BY TextFacts
<1>2. p \in 0 .. Len(t) /\ p + n \in p .. Len(t)
  BY <1>1
<1>3. Len(s) = n /\ s \in Seq(Byte) /\ \A i \in 1 .. n : s[i] = t[p + i]
  <2>1. s \in Seq(Byte) /\ Len(s) = (p + n) - p
    BY <1>1, <1>2, Piece
  <2>2. \A i \in 1 .. (p + n) - p : s[i] = t[p + i]
    BY <1>1, <1>2, PieceAt
  <2>3. (p + n) - p = n
    BY <1>1
  <2>4. QED
    BY <2>1, <2>2, <2>3
<1>4. DOMAIN s = 1 .. n
  BY <1>3, TextFacts
<1> HIDE DEF s
<1>5. Equal(s, needle, cs) <=> \A i \in 1 .. n : Same(t[p + i], needle[i], cs)
  BY <1>3, <1>4 DEF Equal
<1>6. QED
  BY <1>1, <1>5 DEF Occurs, Matches, s

\* The search of the code finds the first place where the needle is
\* (st_string_priv.h, find_cs and find_ci).
LEMMA FindInIsLowest ==
  ASSUME NEW t \in Seq(Byte), NEW ep \in 0 .. Len(t), NEW from \in 0 .. ep,
         NEW needle \in Seq(Byte), needle # <<>>, NEW cs
  PROVE  find_in(t, from, ep, needle, cs) = Lowest(Occurrences(t, needle, cs, from, ep))
<1> DEFINE stops == {p \in from .. ep - 1 :
                       /\ Same(t[p + 1], Lead(needle), cs)
                       /\ p + Len(needle) > ep \/ Matches(t, p, needle, cs)}
           all == Occurrences(t, needle, cs, from, ep)
<1>1. find_in(t, from, ep, needle, cs) =
        IF stops = {} \/ Min(stops) + Len(needle) > ep THEN -1 ELSE Min(stops)
  BY DEF find_in
<1>2. Len(t) \in Nat /\ Len(needle) \in Nat /\ Len(needle) > 0 /\ 1 \in DOMAIN needle
  BY TextFacts
<1>3. \A p \in Nat : p \in all <=> (from <= p /\ p + Len(needle) <= ep /\ Matches(t, p, needle, cs))
  <2> SUFFICES ASSUME NEW p \in Nat
               PROVE  p \in all <=> (from <= p /\ p + Len(needle) <= ep /\ Matches(t, p, needle, cs))
    OBVIOUS
  <2>1. p + Len(needle) <= ep =>
          (Occurs(t, needle, cs, p) <=> Matches(t, p, needle, cs))
    BY <1>2, OccursWhere
  <2>2. p \in from .. ep - Len(needle) <=> from <= p /\ p + Len(needle) <= ep
    BY <1>2
  <2>3. QED
    BY <2>1, <2>2 DEF Occurrences
<1>4. all \in SUBSET (0 .. Len(t)) /\ stops \in SUBSET Nat
  <2>1. \A p \in from .. ep - Len(needle) : p \in 0 .. Len(t)
    BY <1>2
  <2>2. \A p \in from .. ep - 1 : p \in Nat
    BY <1>2
  <2>3. QED
    BY <2>1, <2>2 DEF Occurrences
<1>5. \A p \in Nat :
        p \in stops <=> (/\ from <= p /\ p < ep
                        /\ Same(t[p + 1], Lead(needle), cs)
                        /\ (p + Len(needle) > ep \/ Matches(t, p, needle, cs)))
  OBVIOUS
<1>6. \A p \in Nat : Matches(t, p, needle, cs) => Same(t[p + 1], Lead(needle), cs)
  BY <1>2 DEF Matches, Lead
<1> HIDE DEF stops, all
<1>7. \A p \in all : p \in stops
  <2> SUFFICES ASSUME NEW p \in all PROVE p \in stops
    OBVIOUS
  <2>1. p \in Nat
    BY <1>4
  <2>2. from <= p /\ p + Len(needle) <= ep /\ Matches(t, p, needle, cs)
    BY <1>3, <2>1
  <2>3. QED
    BY <1>2, <1>5, <1>6, <2>1, <2>2
<1>8. CASE stops = {}
  <2>1. all = {}
    BY <1>7, <1>8
  <2>2. QED
    BY <1>1, <1>8, <2>1 DEF Lowest, all
<1>9. CASE stops # {}
  <2>1. Min(stops) \in stops /\ \A y \in stops : Min(stops) <= y
    BY <1>4, <1>9, MinFacts
  <2>2. Min(stops) \in Nat
    BY <1>4, <2>1
  <2>3. CASE Min(stops) + Len(needle) > ep
    <3>1. ASSUME NEW p \in all PROVE FALSE
      <4>1. p \in Nat /\ p \in stops
        BY <1>4, <1>7
      <4>2. p + Len(needle) <= ep /\ Min(stops) <= p
        BY <1>3, <2>1, <4>1
      <4>3. QED
        BY <1>2, <2>2, <2>3, <4>1, <4>2
    <3>2. QED
      BY <1>1, <2>3, <3>1 DEF Lowest, all
  <2>4. CASE ~(Min(stops) + Len(needle) > ep)
    <3>1. Min(stops) \in all
      <4>1. /\ from <= Min(stops)
            /\ Min(stops) + Len(needle) > ep \/ Matches(t, Min(stops), needle, cs)
        BY <1>5, <2>1, <2>2
      <4>2. Min(stops) + Len(needle) <= ep
        BY <1>2, <2>2, <2>4
      <4>3. Matches(t, Min(stops), needle, cs)
        BY <2>4, <4>1
      <4>4. QED
        BY <1>3, <2>2, <4>1, <4>2, <4>3
    <3>2. Lowest(all) = Min(stops)
      BY <1>2, <1>4, <1>7, <2>1, <3>1, EndsAre
    <3>3. QED
      BY <1>1, <1>9, <2>4, <3>2 DEF all
  <2>5. QED
    BY <2>3, <2>4
<1>10. QED
  BY <1>8, <1>9

\* The places where a needle is are in the text.
LEMMA PlacesIn ==
  ASSUME NEW t \in Seq(Byte), NEW needle \in Seq(Byte), NEW cs, NEW from \in Nat,
         NEW ep \in 0 .. Len(t)
  PROVE  /\ Occurrences(t, needle, cs, from, ep) \in SUBSET (0 .. Len(t))
         /\ \A p \in Occurrences(t, needle, cs, from, ep) :
              p \in Nat /\ from <= p /\ p + Len(needle) <= ep /\ needle # <<>>
         /\ \A q \in Nat : \A p \in Nat :
              q <= p /\ p \in Occurrences(t, needle, cs, from, ep)
                => p \in Occurrences(t, needle, cs, q, ep)
<1>1. Len(t) \in Nat /\ Len(needle) \in Nat
  BY TextFacts
<1>2. \A p \in from .. ep - Len(needle) :
        p \in 0 .. Len(t) /\ p \in Nat /\ from <= p /\ p + Len(needle) <= ep
  BY <1>1
<1>3. ASSUME NEW q \in Nat, NEW p \in Nat, q <= p, p \in Occurrences(t, needle, cs, from, ep)
      PROVE  p \in Occurrences(t, needle, cs, q, ep)
  <2>1. p \in q .. ep - Len(needle)
    BY <1>1, <1>3 DEF Occurrences
  <2>2. QED
    BY <1>3, <2>1 DEF Occurrences
<1>4. QED
  BY <1>2, <1>3 DEF Occurrences

\* find, for every text and needle.
LEMMA FindIs ==
  ASSUME NEW t \in Seq(Byte), NEW start \in Nat, NEW needle \in Seq(Byte), NEW cs
  PROVE  find(t, start, needle, cs) = Lowest(Occurrences(t, needle, cs, start, Len(t)))
<1>1. Len(t) \in Nat /\ Len(needle) \in Nat /\ (needle # <<>> => Len(needle) > 0)
  BY TextFacts
<1>2. CASE needle = <<>>
  BY <1>2 DEF find, Occurrences, Lowest
<1>3. CASE needle # <<>> /\ start >= Len(t)
  <2>1. start .. Len(t) - Len(needle) = {}
    BY <1>1, <1>3
  <2>2. QED
    BY <1>3, <2>1 DEF find, Occurrences, Lowest
<1>4. CASE needle # <<>> /\ ~(start >= Len(t))
  <2>1. Len(t) \in 0 .. Len(t) /\ start \in 0 .. Len(t)
    BY <1>1, <1>4
  <2>2. find_in(t, start, Len(t), needle, cs) = Lowest(Occurrences(t, needle, cs, start, Len(t)))
    BY <1>4, <2>1, FindInIsLowest
  <2>3. QED
    BY <1>4, <2>2 DEF find
<1>5. QED
  BY <1>2, <1>3, <1>4

\* The last place of a needle is the last one behind its first, if there is one.
LEMMA HighestFrom ==
  ASSUME NEW t \in Seq(Byte), NEW needle \in Seq(Byte), needle # <<>>, NEW cs,
         NEW ep \in 0 .. Len(t), NEW p \in 0 .. ep
  PROVE  LET cp == find_in(t, p, ep, needle, cs)
             behind == Highest(Occurrences(t, needle, cs, cp + 1, ep))
         IN  /\ Highest(Occurrences(t, needle, cs, p, ep)) =
                  IF cp = -1 \/ behind = -1 THEN cp ELSE behind
             /\ cp # -1 => cp \in p .. ep - 1
<1> DEFINE cp == find_in(t, p, ep, needle, cs)
           all == Occurrences(t, needle, cs, p, ep)
           rest == Occurrences(t, needle, cs, cp + 1, ep)
<1>1. Len(t) \in Nat /\ Len(needle) \in Nat /\ Len(needle) > 0
  BY TextFacts
<1>0. p \in Nat /\ ep \in Nat
  BY <1>1
<1>2. cp = Lowest(all)
  BY FindInIsLowest
<1>3. /\ all \in SUBSET (0 .. Len(t))
      /\ \A q \in all : q \in Nat /\ p <= q /\ q + Len(needle) <= ep
      /\ \A m \in Nat : \A q \in Nat :
           m <= q /\ q \in all => q \in Occurrences(t, needle, cs, m, ep)
  BY <1>0, PlacesIn
<1>4. CASE all = {}
  BY <1>2, <1>4 DEF Lowest, Highest
<1>5. CASE all # {}
  <2> HIDE DEF all
  <2>1. cp \in all /\ \A q \in all : cp <= q
    <3>1. Lowest(all) \in all /\ \A q \in all : Lowest(all) <= q
      BY <1>1, <1>3, <1>5, EndsFacts
    <3>2. QED
      BY <1>2, <3>1
  <2>2. cp \in Nat /\ cp \in p .. ep - 1
    <3>1. cp \in Nat /\ p <= cp /\ cp + Len(needle) <= ep
      BY <1>3, <2>1
    <3>2. QED
      BY <1>0, <1>1, <3>1
  <2> HIDE DEF cp
  <2>3. /\ rest \in SUBSET (0 .. Len(t))
        /\ \A q \in rest : q \in Nat /\ cp + 1 <= q
        /\ \A m \in Nat : \A q \in Nat :
             m <= q /\ q \in rest => q \in Occurrences(t, needle, cs, m, ep)
    BY <1>1, <2>2, PlacesIn
  <2>4. \A q \in rest : q \in all
    BY <1>1, <2>2, <2>3 DEF all
  <2>5. \A q \in all : q = cp \/ q \in rest
    <3> SUFFICES ASSUME NEW q \in all, q # cp PROVE q \in rest
      OBVIOUS
    <3>1. q \in Nat /\ cp + 1 <= q
      BY <1>3, <2>1, <2>2
    <3>2. QED
      BY <1>3, <2>2, <3>1
  <2> HIDE DEF rest
  <2>6. CASE rest = {}
    <3>1. Highest(rest) = -1
      BY <2>6 DEF Highest
    <3>2. Highest(all) = cp
      BY <1>1, <1>3, <2>1, <2>2, <2>5, <2>6, EndsAre
    <3>3. QED
      BY <2>2, <3>1, <3>2 DEF all, rest, cp
  <2>7. CASE rest # {}
    <3>1. Highest(rest) \in rest /\ \A q \in rest : q <= Highest(rest)
      BY <1>1, <2>3, <2>7, EndsFacts
    <3>2. Highest(rest) \in Nat /\ Highest(rest) \in all /\ cp <= Highest(rest)
      <4>1. Highest(rest) \in Nat /\ cp + 1 <= Highest(rest)
        BY <2>3, <3>1
      <4>2. QED
        BY <2>2, <2>4, <3>1, <4>1
    <3>3. \A q \in all : q <= Highest(rest)
      BY <2>5, <3>1, <3>2
    <3>4. Highest(all) = Highest(rest)
      BY <1>1, <1>3, <3>2, <3>3, EndsAre
    <3>5. QED
      BY <2>2, <3>2, <3>4 DEF all, rest, cp
  <2>8. QED
    BY <2>6, <2>7
<1>6. QED
  BY <1>4, <1>5

\* find_last goes from match to match and stops at the last one.
LEMMA FindLastIs ==
  ASSUME NEW t \in Seq(Byte), NEW max \in Nat, NEW needle \in Seq(Byte), NEW cs
  PROVE  find_last(t, max, needle, cs) =
           Highest(Occurrences(t, needle, cs, 0, Within(max, t)))
<1> DEFINE ep == IF max > Len(t) THEN Len(t) ELSE max
           H(p) == Highest(Occurrences(t, needle, cs, p, ep))
           F(g) == [p \in 0 .. ep |->
                      LET cp == find_in(t, p, ep, needle, cs) IN
                      IF cp = -1 \/ g[cp + 1] = -1 THEN cp ELSE g[cp + 1]]
           last == CHOOSE g : g = F(g)
           w == [p \in 0 .. ep |-> H(p)]
<1>1. Len(t) \in Nat /\ Len(needle) \in Nat /\ (t = <<>> <=> Len(t) = 0)
      /\ (needle # <<>> => Len(needle) > 0)
  BY TextFacts
<1>2. ep = Within(max, t) /\ ep \in 0 .. Len(t) /\ ep \in Nat
  BY <1>1 DEF Within
<1>3. CASE needle = <<>>
  BY <1>3 DEF find_last, Occurrences, Highest
<1>4. CASE needle # <<>> /\ t = <<>>
  <2>1. ep = 0 /\ 0 .. ep - Len(needle) = {}
    BY <1>1, <1>2, <1>4
  <2>2. Occurrences(t, needle, cs, 0, Within(max, t)) = {}
    BY <1>2, <2>1 DEF Occurrences
  <2>3. QED
    BY <1>4, <2>2 DEF find_last, Highest
<1>5. CASE needle # <<>> /\ t # <<>>
  <2>1. find_last(t, max, needle, cs) = last[0]
    BY <1>5 DEF find_last
  <2>2. ASSUME NEW p \in 0 .. ep
        PROVE  LET cp == find_in(t, p, ep, needle, cs) IN
               /\ H(p) = IF cp = -1 \/ H(cp + 1) = -1 THEN cp ELSE H(cp + 1)
               /\ cp # -1 => cp \in p .. ep - 1
    <3> HIDE DEF ep
    <3>1. QED
      BY <1>2, <1>5, HighestFrom
  <2> HIDE DEF ep, H
  <2>3. w = F(w)
    <3>1. ASSUME NEW p \in 0 .. ep
          PROVE  LET cp == find_in(t, p, ep, needle, cs) IN
                 w[p] = IF cp = -1 \/ w[cp + 1] = -1 THEN cp ELSE w[cp + 1]
      <4> DEFINE cp == find_in(t, p, ep, needle, cs)
      <4>1. /\ H(p) = IF cp = -1 \/ H(cp + 1) = -1 THEN cp ELSE H(cp + 1)
            /\ cp # -1 => cp \in p .. ep - 1
        BY <2>2
      <4> HIDE DEF cp
      <4>2. cp # -1 => cp + 1 \in 0 .. ep
        BY <1>2, <4>1
      <4>3. w[p] = H(p) /\ (cp # -1 => w[cp + 1] = H(cp + 1))
        BY <4>2
      <4>4. w[p] = IF cp = -1 \/ w[cp + 1] = -1 THEN cp ELSE w[cp + 1]
        BY <4>1, <4>3
      <4>5. QED
        BY <4>4 DEF cp
    <3>2. QED
      BY <3>1
  <2>4. last = F(last)
    <3> HIDE DEF F, w
    <3>1. QED
      BY <2>3
  <2> HIDE DEF last
  <2>5. ASSUME NEW p \in 0 .. ep
        PROVE  LET cp == find_in(t, p, ep, needle, cs) IN
               last[p] = IF cp = -1 \/ last[cp + 1] = -1 THEN cp ELSE last[cp + 1]
    BY <2>4
  <2> DEFINE wrong == {k \in Nat : k <= ep /\ last[ep - k] # H(ep - k)}
  <2>6. wrong = {}
    <3> SUFFICES ASSUME wrong # {} PROVE FALSE
      OBVIOUS
    <3>1. PICK k \in wrong : \A y \in wrong : k <= y
      <4>1. wrong \in SUBSET Nat
        OBVIOUS
      <4> HIDE DEF wrong
      <4>2. QED
        BY <4>1, MinFacts
    <3> DEFINE p == ep - k  cp == find_in(t, p, ep, needle, cs)
    <3>2. k \in Nat /\ p \in 0 .. ep /\ last[p] # H(p)
      BY <1>2, <3>1
    <3>3. /\ H(p) = IF cp = -1 \/ H(cp + 1) = -1 THEN cp ELSE H(cp + 1)
          /\ cp # -1 => cp \in p .. ep - 1
          /\ last[p] = IF cp = -1 \/ last[cp + 1] = -1 THEN cp ELSE last[cp + 1]
      <4> HIDE DEF p
      <4>1. QED
        BY <2>2, <2>5, <3>2
    <3> HIDE DEF cp
    <3>4. cp # -1 /\ last[cp + 1] # H(cp + 1)
      BY <3>2, <3>3
    <3>5. /\ cp \in Nat /\ ep - (cp + 1) \in Nat /\ ep - (cp + 1) < k /\ ep - (cp + 1) <= ep
          /\ ep - (ep - (cp + 1)) = cp + 1
      <4>1. k \in Nat /\ p = ep - k /\ p \in 0 .. ep /\ cp \in p .. ep - 1
        BY <3>2, <3>3, <3>4
      <4>2. ep \in Nat
        BY <1>2
      <4>3. cp \in Nat /\ cp >= p /\ cp <= ep - 1 /\ p \in Nat
        BY <4>1, <4>2
      <4> HIDE DEF p
      <4>4. QED
        BY <4>1, <4>2, <4>3
    <3>6. ep - (cp + 1) \in wrong
      <4> DEFINE k1 == ep - (cp + 1)
      <4>1. k1 \in Nat /\ k1 <= ep /\ ep - k1 = cp + 1
        BY <3>5
      <4> HIDE DEF k1, H
      <4>2. last[ep - k1] # H(ep - k1)
        BY <3>4, <4>1
      <4>3. k1 \in wrong
        BY <4>1, <4>2
      <4>4. QED
        BY <4>3 DEF k1
    <3>7. k <= ep - (cp + 1)
      BY <3>1, <3>6
    <3>8. QED
      BY <3>2, <3>5, <3>7
  <2>7. ep \notin wrong /\ ep - ep = 0
    BY <1>2, <2>6
  <2>8. last[0] = H(0)
    BY <1>2, <2>7
  <2>9. QED
    BY <1>2, <2>1, <2>8 DEF H
<1>6. QED
  BY <1>3, <1>4, <1>5

-----------------------------------------------------------------------------
(* The cuts. *)

\* A piece whose begin is behind its end is empty, and all of a text is a piece of it.
LEMMA WholePiece ==
  ASSUME NEW t \in Seq(Byte)
  PROVE  /\ SubSeq(t, 1, Len(t)) = t
         /\ \A m \in Int, n \in Int : n < m => SubSeq(t, m, n) = <<>>
  BY SubSeqFull, SubSeqEmpty

\* Where a substr begins.
From(t, start) ==
  IF start >= 0 THEN start ELSE IF start + Len(t) < 0 THEN 0 ELSE start + Len(t)

\* substr, as long as no sum wraps.
LEMMA SubstrIs ==
  ASSUME NEW t \in Seq(Byte), 2 * Len(t) < SizeMod, NEW start \in Int, NEW count \in 0 .. AUTO,
         count = AUTO \/ From(t, start) + count < SizeMod
  PROVE  LET from == Within(From(t, start), t)
         IN  substr(t, start, count) = SubSeq(t, from + 1, Within(from + count, t))
<1> DEFINE max == Len(t)  from == From(t, start)
           want == IF count = AUTO THEN max ELSE count
           take == IF Wrap(from + want) > max THEN max - from ELSE want
<1>1. max \in Nat /\ from \in Nat /\ want \in Nat /\ SizeMod \in Nat /\ AUTO = SizeMod - 1
      /\ count \in Nat
  BY TextFacts, SizeAssumption DEF From, AUTO
<1>2. substr(t, start, count) =
        IF from > max THEN <<>> ELSE IF from + take > max THEN Outside
        ELSE SubSeq(t, from + 1, from + take)
  BY DEF substr, From
<1> HIDE DEF from
<1>3. CASE from > max
  <2>1. Within(from, t) = max /\ Within(max + count, t) = max
    BY <1>1, <1>3 DEF Within
  <2>2. SubSeq(t, max + 1, max) = <<>>
    BY <1>1, WholePiece
  <2>3. QED
    BY <1>2, <1>3, <2>1, <2>2 DEF from
<1>4. CASE ~(from > max)
  <2>1. Within(from, t) = from
    BY <1>1, <1>4 DEF Within
  <2>2. from + want < SizeMod
    BY <1>1, <1>4 DEF from
  <2>3. Wrap(from + want) = from + want
    BY <1>1, <2>2, WrapSmall
  <2>4. take = IF from + want > max THEN max - from ELSE want
    BY <2>3
  <2>5. from + take = Within(from + count, t)
    BY <1>1, <1>4, <2>4 DEF Within
  <2>6. ~(from + take > max)
    BY <1>1, <1>4, <2>4
  <2>7. QED
    BY <1>2, <1>4, <2>1, <2>5, <2>6 DEF from
<1>5. QED
  BY <1>3, <1>4

\* substr from a place in the text: a count that fits, or all there is.
LEMMA SubstrInside ==
  ASSUME NEW t \in Seq(Byte), 2 * Len(t) < SizeMod, NEW from \in 0 .. Len(t)
  PROVE  /\ substr(t, from, AUTO) = SubSeq(t, from + 1, Len(t))
         /\ \A n \in Nat : from + n <= Len(t) =>
              substr(t, from, n) = SubSeq(t, from + 1, from + n)
<1>1. Len(t) \in Nat /\ from \in Nat /\ from <= Len(t) /\ AUTO = SizeMod - 1 /\ SizeMod \in Nat
      /\ AUTO \in 0 .. AUTO /\ From(t, from) = from /\ Within(from, t) = from
  BY TextFacts, SizeAssumption DEF AUTO, From, Within
<1>2. substr(t, from, AUTO) = SubSeq(t, from + 1, Len(t))
  <2>1. Within(from + AUTO, t) = Len(t)
    BY <1>1 DEF Within
  <2>2. LET f == Within(From(t, from), t)
        IN  substr(t, from, AUTO) = SubSeq(t, f + 1, Within(f + AUTO, t))
    BY SMTT(30), <1>1, SubstrIs
  <2>3. QED
    BY <1>1, <2>1, <2>2
<1>3. ASSUME NEW n \in Nat, from + n <= Len(t)
      PROVE  substr(t, from, n) = SubSeq(t, from + 1, from + n)
  <2>1. n \in 0 .. AUTO /\ from + n < SizeMod /\ Within(from + n, t) = from + n
        /\ From(t, from) + n < SizeMod /\ from \in Int
    BY <1>1, <1>3 DEF Within
  <2>2. LET f == Within(From(t, from), t)
        IN  substr(t, from, n) = SubSeq(t, f + 1, Within(f + n, t))
    BY <1>1, <2>1, SubstrIs
  <2>3. QED
    BY <1>1, <2>1, <2>2
<1>4. QED
  BY <1>2, <1>3

\* The greater of two numbers, as a set has it.
LEMMA GreaterOfTwo ==
  ASSUME NEW a \in Int
  PROVE  Max({0, a}) = IF a < 0 THEN 0 ELSE a
<1>1. \E x \in {0, a} : \A y \in {0, a} : y <= x
  OBVIOUS
<1>2. /\ Max({0, a}) \in {0, a}
      /\ \A y \in {0, a} : y <= Max({0, a})
  BY <1>1 DEF Max
<1>3. QED
  BY <1>2

\* right counts from the end, where it is asked for no more than there is.
LEMMA RightIs ==
  ASSUME NEW t \in Seq(Byte), 2 * Len(t) < SizeMod, NEW n \in Nat, n <= Len(t)
  PROVE  right(t, n) = SubSeq(t, Len(t) - n + 1, Len(t))
<1>1. Len(t) \in Nat /\ Len(t) - n \in Nat /\ Len(t) - n \in 0 .. Len(t) /\ SizeMod \in Nat
      /\ Len(t) - n < SizeMod /\ ~(2 * (Len(t) - n) >= SizeMod)
      /\ (Len(t) - n) + n = Len(t)
  BY TextFacts, SizeAssumption
<1>2. Signed(Wrap(Len(t) - n)) = Len(t) - n
  <2>1. Len(t) - n \in 0 .. SizeMod - 1
    BY <1>1
  <2>2. Wrap(Len(t) - n) = Len(t) - n
    BY <2>1, WrapSmall
  <2>3. QED
    BY <1>1, <2>2 DEF Signed
<1> DEFINE from == Len(t) - n
<1>3. from \in 0 .. Len(t) /\ from + n <= Len(t)
  BY <1>1
<1> HIDE DEF from
<1>4. substr(t, from, n) = SubSeq(t, from + 1, from + n)
  BY <1>3, SubstrInside
<1>5. QED
  BY <1>1, <1>2, <1>4 DEF right, from

\* Where trim_left begins and trim_right ends.
LEMMA TrimFacts ==
  ASSUME NEW t \in Seq(Byte), NEW charset, NEW from \in 0 .. Len(t)
  PROVE  /\ Left(t, charset) \in 0 .. Len(t)
         /\ \A p \in 0 .. Left(t, charset) - 1 : In(t, p, charset)
         /\ Left(t, charset) # Len(t) => ~In(t, Left(t, charset), charset)
         /\ Right(t, from, charset) \in from .. Len(t)
         /\ \A p \in Right(t, from, charset) .. Len(t) - 1 : In(t, p, charset)
         /\ Right(t, from, charset) # from => ~In(t, Right(t, from, charset) - 1, charset)
<1> DEFINE n == Len(t)
           L == {p \in 0 .. n : p = n \/ ~In(t, p, charset)}
           R == {p \in from .. n : p = from \/ ~In(t, p - 1, charset)}
<1>1. n \in Nat /\ from \in Nat /\ from <= n
  BY TextFacts
<1>2. n \in L /\ L \in SUBSET Nat /\ from \in R /\ R \in SUBSET (0 .. n)
  BY <1>1
<1>3. \A p \in 0 .. n : p \in L <=> p = n \/ ~In(t, p, charset)
  OBVIOUS
<1>4. \A p \in from .. n : p \in R <=> p = from \/ ~In(t, p - 1, charset)
  OBVIOUS
<1>5. Left(t, charset) = Min(L) /\ Right(t, from, charset) = Max(R)
  BY DEF Left, Right
<1>6. \A p \in L : p \in 0 .. n
  OBVIOUS
<1>7. \A p \in R : p \in from .. n
  OBVIOUS
<1> HIDE DEF L, R
<1>8. Min(L) \in L /\ \A y \in L : Min(L) <= y
  BY <1>2, MinFacts
<1>9. Max(R) \in R /\ \A y \in R : y <= Max(R)
  BY <1>1, <1>2, MaxFacts
<1>10. ASSUME NEW p \in 0 .. Min(L) - 1 PROVE In(t, p, charset)
  <2>1. Min(L) \in 0 .. n /\ p \in 0 .. n /\ p # n /\ ~(Min(L) <= p)
    BY <1>1, <1>6, <1>8
  <2>2. p \notin L
    BY <1>8, <2>1
  <2>3. QED
    BY <1>3, <2>1, <2>2
<1>11. ASSUME NEW p \in Max(R) .. n - 1 PROVE In(t, p, charset)
  <2>1. Max(R) \in from .. n /\ p + 1 \in from .. n /\ p + 1 # from /\ ~(p + 1 <= Max(R))
        /\ (p + 1) - 1 = p
    BY <1>1, <1>7, <1>9
  <2>2. p + 1 \notin R
    BY <1>9, <2>1
  <2>3. QED
    BY <1>4, <2>1, <2>2
<1>12. QED
  BY <1>3, <1>4, <1>5, <1>6, <1>7, <1>8, <1>9, <1>10, <1>11

\* The trims, as one cut on each side.
LEMMA TrimsAre ==
  ASSUME NEW t \in Seq(Byte), 2 * Len(t) < SizeMod, NEW charset
  PROVE  /\ trim_left(t, charset) = SubSeq(t, Left(t, charset) + 1, Len(t))
         /\ trim_right(t, charset) = SubSeq(t, 1, Right(t, 0, charset))
         /\ trim(t, charset) =
              SubSeq(t, Left(t, charset) + 1, Right(t, Left(t, charset), charset))
<1> DEFINE n == Len(t)  lp == Left(t, charset)  rp == Right(t, lp, charset)
           all == Right(t, 0, charset)
<1>1. n \in Nat /\ 0 \in 0 .. n
  BY TextFacts
<1>2. lp \in 0 .. n /\ all \in 0 .. n
  BY <1>1, TrimFacts
<1>3. rp \in lp .. n
  BY <1>2, TrimFacts
<1> HIDE DEF lp, rp, all
<1>4. rp - lp \in Nat /\ lp + (rp - lp) = rp /\ lp + (rp - lp) <= n
      /\ all \in Nat /\ 0 + all = all /\ 0 + all <= n /\ 0 + 1 = 1
  BY <1>1, <1>2, <1>3
<1>5. substr(t, lp, AUTO) = SubSeq(t, lp + 1, n)
  BY <1>2, SubstrInside
<1>6. substr(t, lp, rp - lp) = SubSeq(t, lp + 1, lp + (rp - lp))
  BY <1>2, <1>4, SubstrInside
<1>7. substr(t, 0, all) = SubSeq(t, 0 + 1, 0 + all)
  BY <1>1, <1>4, SubstrInside
<1>8. QED
  BY <1>4, <1>5, <1>6, <1>7 DEF trim_left, trim_right, trim, lp, rp, all

-----------------------------------------------------------------------------
(* The calls that answer in one step, and what is known when they have. *)

FindCalls  == {"find", "find_last"}
AskCalls   == {"substr", "left", "right", "trim_left", "trim_right", "trim", "before_first",
               "after_first", "before_last", "after_last", "to_upper", "to_lower"}
OrderCalls == {"compare", "compare_n", "starts_with", "ends_with", "hash"}

Answered ==
  phase = "done" =>
    /\ job.call \in FindCalls => job \in FindJobs /\ found = Place(job)
    /\ job.call \in AskCalls =>
         job \in CutJobs \cup SepJobs \cup CaseJobs /\ answer = Answer(job)
    /\ job.call \in OrderCalls =>
         /\ job \in OrderJobs
         /\ found = IF job.call = "hash" THEN hash(job.text, job.cs) ELSE Compared(job)

\* Which calls are which.
LEMMA CallsApart ==
  /\ \A j \in FindJobs : j.call \in FindCalls
  /\ \A j \in CutJobs \cup SepJobs \cup CaseJobs : j.call \in AskCalls
  /\ \A j \in OrderJobs : j.call \in OrderCalls
  /\ \A j \in ReplaceJobs \cup SplitJobs \cup TokenJobs :
       j.call \in {"replace", "split", "tokenize"}
  /\ FindCalls \cap AskCalls = {} /\ FindCalls \cap OrderCalls = {}
  /\ AskCalls \cap OrderCalls = {}
  /\ \A k \in {"replace", "split", "tokenize"} :
       k \notin FindCalls /\ k \notin AskCalls /\ k \notin OrderCalls
<1>1. \A j \in FindJobs : j.call \in FindCalls
  BY DEF FindJobs, FindCalls
<1>2. \A j \in CutJobs \cup SepJobs \cup CaseJobs : j.call \in AskCalls
  BY DEF CutJobs, SepJobs, CaseJobs, AskCalls
<1>3. \A j \in OrderJobs : j.call \in OrderCalls
  BY DEF OrderJobs, OrderCalls
<1>4. \A j \in ReplaceJobs \cup SplitJobs \cup TokenJobs :
        j.call \in {"replace", "split", "tokenize"}
  BY DEF ReplaceJobs, SplitJobs, TokenJobs
<1>5. /\ FindCalls \cap AskCalls = {} /\ FindCalls \cap OrderCalls = {}
      /\ AskCalls \cap OrderCalls = {}
      /\ \A k \in {"replace", "split", "tokenize"} :
           k \notin FindCalls /\ k \notin AskCalls /\ k \notin OrderCalls
  BY DEF FindCalls, AskCalls, OrderCalls
<1>6. QED
  BY <1>1, <1>2, <1>3, <1>4, <1>5

\* An answer stays until it is handed over.
LEMMA NextAnswered == SCInv /\ Answered /\ [Next]_vars => Answered'
<1> SUFFICES ASSUME SCInv, Answered, [Next]_vars PROVE Answered'
  OBVIOUS
<1>1. ASSUME NEW j \in FindJobs, Find(j) PROVE Answered'
  <2>1. job' = j /\ found' = Place(j) /\ j.call \in FindCalls
    BY <1>1, CallsApart DEF Find
  <2>2. QED
    BY <2>1, CallsApart DEF Answered, Place
<1>2. ASSUME NEW j \in CutJobs \cup SepJobs \cup CaseJobs, Ask(j) PROVE Answered'
  <2>1. job' = j /\ answer' = Answer(j) /\ j.call \in AskCalls
    BY <1>2, CallsApart DEF Ask
  <2>2. Answer(j)' = Answer(j)
    BY DEF Answer
  <2>3. j.call \notin FindCalls /\ j.call \notin OrderCalls
    BY <2>1, CallsApart
  <2>4. QED
    BY <2>1, <2>2, <2>3 DEF Answered
<1>3. ASSUME NEW j \in OrderJobs, Order(j) PROVE Answered'
  <2>1. /\ job' = j /\ j.call \in OrderCalls
        /\ found' = IF j.call = "hash" THEN hash(j.text, j.cs) ELSE Compared(j)
    BY <1>3, CallsApart DEF Order
  <2>2. j.call \notin FindCalls /\ j.call \notin AskCalls
    BY <2>1, CallsApart
  <2>3. QED
    BY <2>1, <2>2 DEF Answered
<1>4. ASSUME NEW j \in ReplaceJobs, CallReplace(j) PROVE Answered'
  BY <1>4, CallsApart DEF CallReplace, Answered
<1>5. ASSUME NEW j \in SplitJobs \cup TokenJobs, CallPieces(j) PROVE Answered'
  BY <1>5 DEF CallPieces, Answered
<1>6. CASE MeasureMatch \/ Allocate \/ WriteMatch \/ SplitOne \/ Token \/ Return
  BY <1>6 DEF MeasureMatch, Allocate, WriteMatch, SplitOne, Token, Return, Answered
<1>7. CASE WriteRest \/ SplitRest \/ TokensDone
  <2>1. job' = job /\ job \in ReplaceJobs \cup SplitJobs \cup TokenJobs
    BY <1>7 DEF WriteRest, SplitRest, TokensDone, SCInv
  <2>2. QED
    BY <2>1, CallsApart DEF Answered
<1>8. CASE UNCHANGED vars
  BY <1>8 DEF vars, Answered, Place, Answer, Compared
<1>9. QED
  BY <1>1, <1>2, <1>3, <1>4, <1>5, <1>6, <1>7, <1>8 DEF Next

\* A call that answers in one step has its own answer while it is done.
THEOREM AnswersHold == Spec => []Answered
<1>1. Init => Answered
  BY DEF Init, Answered
<1>2. QED
  BY <1>1, NextAnswered, SCInvHolds, PTL DEF Spec

\* What a search is made of.
LEMMA FindJobFacts ==
  ASSUME NEW j \in FindJobs
  PROVE  /\ j.text \in Seq(Byte) /\ Needle(j.kind, j.arg) \in Seq(Byte) /\ j.n \in Nat
         /\ j.cs \in BOOLEAN
<1>1. j.text \in Texts /\ j.arg \in Needles /\ j.n \in Places /\ j.cs \in BOOLEAN
  BY DEF FindJobs
<1>2. j.text \in Seq(Byte) /\ j.arg \in Seq(Byte) /\ j.n \in Nat
  BY <1>1, TextAssumption, PlaceAssumption
<1>3. QED
  BY <1>1, <1>2, NeedleFacts

\* find and find_last of any text, of any kind of needle and from any place
\* (st_string.h:1729-1939).
THEOREM SearchesFind == Spec => []FindsFirstAndLast
<1>1. Answered => FindsFirstAndLast
  <2> SUFFICES ASSUME Answered, phase = "done", job.call \in FindCalls
               PROVE  /\ job.call = "find" =>
                           found = Lowest(Occurrences(job.text, Needle(job.kind, job.arg),
                                                      job.cs, job.n, Len(job.text)))
                      /\ job.call = "find_last" =>
                           found = Highest(Occurrences(job.text, Needle(job.kind, job.arg),
                                                       job.cs, 0, Within(job.n, job.text)))
    BY DEF FindsFirstAndLast, Done, FindCalls
  <2>1. job \in FindJobs /\ found = Place(job)
    BY DEF Answered
  <2>2. job.text \in Seq(Byte) /\ Needle(job.kind, job.arg) \in Seq(Byte) /\ job.n \in Nat
    BY <2>1, FindJobFacts
  <2>3. CASE job.call = "find"
    BY <2>1, <2>2, <2>3, FindIs DEF Place
  <2>4. CASE job.call = "find_last"
    BY <2>1, <2>2, <2>4, FindLastIs DEF Place
  <2>5. QED
    BY <2>3, <2>4
<1>2. QED
  BY <1>1, AnswersHold, PTL

\* What a cut is made of.
LEMMA CutJobFacts ==
  ASSUME NEW j \in CutJobs
  PROVE  /\ j.text \in Seq(Byte) /\ 2 * Len(j.text) < SizeMod
         /\ j.call = "substr" => j.start \in Int
         /\ j.call \in {"substr", "left", "right"} => j.n \in 0 .. AUTO
<1>1. /\ j.text \in Texts \cup Rulers
      /\ j.call = "substr" => j.start \in Offsets
      /\ j.call \in {"substr", "left", "right"} => j.n \in Counts
  BY DEF CutJobs
<1>2. QED
  BY <1>1, TextAssumption, PlaceAssumption, LengthAssumption DEF Counts

\* substr, left and right, in terms of the text.
LEMMA ClipsAre ==
  ASSUME Answered, phase = "done", job.call \in {"substr", "left", "right"}
  PROVE  LET max == Len(job.text) IN
         /\ job.call = "substr" =>
              LET from == Within(IF job.start >= 0 THEN job.start
                                 ELSE Max({0, job.start + max}), job.text)
              IN  \/ answer = SubSeq(job.text, from + 1, Within(from + job.n, job.text))
                  \/ from + job.n >= SizeMod /\ job.n # AUTO
         /\ job.call = "left" => answer = SubSeq(job.text, 1, Within(job.n, job.text))
         /\ job.call = "right" /\ job.n <= max =>
              answer = SubSeq(job.text, max - job.n + 1, max)
<1> DEFINE t == job.text  n == job.n  max == Len(t)
<1>1. job \in CutJobs /\ answer = Answer(job)
  BY DEF Answered, AskCalls, CutJobs, SepJobs, CaseJobs
<1>2. t \in Seq(Byte) /\ 2 * max < SizeMod /\ n \in 0 .. AUTO /\ max \in Nat
      /\ SizeMod \in Nat /\ AUTO = SizeMod - 1 /\ SizeMod > 1
  BY <1>1, CutJobFacts, TextFacts, SizeAssumption DEF AUTO
<1>3. CASE job.call = "substr"
  <2>1. answer = substr(t, job.start, n) /\ job.start \in Int
    BY <1>1, <1>3, CutJobFacts DEF Answer
  <2> DEFINE start == job.start
             raw == IF start >= 0 THEN start ELSE Max({0, start + max})
             from == Within(raw, t)
  <2>2. start + max \in Int /\ Max({0, start + max}) = IF start + max < 0 THEN 0 ELSE start + max
    BY <1>2, <2>1, GreaterOfTwo
  <2>3. raw = From(t, start)
    BY <2>2 DEF From
  <2>4. raw \in Nat
    BY <1>2, <2>1, <2>2
  <2> HIDE DEF raw, t, n, max, start
  <2>5. CASE n = AUTO \/ raw + n < SizeMod
    <3>1. LET f == Within(From(t, start), t)
          IN  substr(t, start, n) = SubSeq(t, f + 1, Within(f + n, t))
      BY <1>2, <2>1, <2>3, <2>5, SubstrIs DEF start, max
    <3>2. QED
      BY <1>3, <2>1, <2>3, <3>1 DEF t, n, max, start, raw
  <2>6. CASE ~(n = AUTO \/ raw + n < SizeMod)
    <3>1. CASE raw <= max
      <4>1. Within(raw, t) = raw
        BY <1>2, <2>4, <3>1 DEF Within, max
      <4>2. from + n >= SizeMod /\ n # AUTO
        BY <1>2, <2>4, <2>6, <4>1
      <4>3. QED
        BY <1>3, <4>2 DEF t, n, max, start, raw
    <3>2. CASE ~(raw <= max)
      <4>1. Within(raw, t) = max /\ Within(max + n, t) = max
        BY <1>2, <2>4, <3>2 DEF Within, max
      <4>2. substr(t, start, n) = <<>>
        <5>1. From(t, start) > max
          BY <1>2, <2>3, <2>4, <3>2
        <5>2. QED
          BY <5>1 DEF substr, From, max
      <4>3. SubSeq(t, max + 1, max) = <<>>
        BY <1>2, WholePiece
      <4>4. QED
        BY <1>3, <2>1, <4>1, <4>2, <4>3 DEF t, n, max, start, raw
    <3>3. QED
      BY <3>1, <3>2
  <2>7. QED
    BY <2>5, <2>6
<1>4. CASE job.call = "left"
  <2>1. answer = substr(t, 0, n)
    BY <1>1, <1>4 DEF Answer, left
  <2>2. From(t, 0) = 0 /\ Within(0, t) = 0 /\ (n = AUTO \/ From(t, 0) + n < SizeMod) /\ 0 + n = n
        /\ 0 \in Int
    BY <1>2 DEF From, Within
  <2>3. LET f == Within(From(t, 0), t)
        IN  substr(t, 0, n) = SubSeq(t, f + 1, Within(f + n, t))
    BY <1>2, <2>2, SubstrIs
  <2>4. answer = SubSeq(t, 0 + 1, Within(n, t))
    BY <2>1, <2>2, <2>3
  <2>5. QED
    BY <1>4, <2>4
<1>5. CASE job.call = "right"
  <2>1. answer = right(t, n)
    BY <1>1, <1>5 DEF Answer
  <2>2. n \in Nat
    BY <1>2
  <2>3. QED
    BY <1>2, <1>5, <2>1, <2>2, RightIs
<1>6. QED
  BY <1>3, <1>4, <1>5

\* The trims, in terms of the text.
LEMMA TrimsAreTight == Answered => TrimsTight
<1> SUFFICES ASSUME Answered, Done({"trim_left", "trim_right", "trim"})
             PROVE  \E cut, keep \in 0 .. Len(job.text) :
                      /\ cut <= keep
                      /\ answer = SubSeq(job.text, cut + 1, keep)
                      /\ \A p \in 0 .. Len(job.text) - 1 :
                           p < cut \/ p >= keep => In(job.text, p, job.arg)
                      /\ cut > 0 => job.call # "trim_right"
                      /\ keep < Len(job.text) => job.call # "trim_left" \/ cut = keep
                      /\ answer # <<>> =>
                           /\ job.call # "trim_right" => ~In(job.text, cut, job.arg)
                           /\ job.call # "trim_left"  => ~In(job.text, keep - 1, job.arg)
  BY DEF TrimsTight
<1> DEFINE t == job.text  n == Len(t)
           cut == IF job.call = "trim_right" THEN 0 ELSE Left(t, job.arg)
           keep == IF job.call = "trim_left" THEN n ELSE Right(t, cut, job.arg)
<1>1. /\ phase = "done" /\ job.call \in {"trim_left", "trim_right", "trim"}
      /\ job \in CutJobs /\ answer = Answer(job)
  BY DEF Done, Answered, AskCalls, CutJobs, SepJobs, CaseJobs
<1>2. t \in Seq(Byte) /\ 2 * n < SizeMod /\ n \in Nat
  BY <1>1, CutJobFacts, TextFacts
<1>3. /\ Left(t, job.arg) \in 0 .. n
      /\ \A p \in 0 .. Left(t, job.arg) - 1 : In(t, p, job.arg)
      /\ Left(t, job.arg) # n => ~In(t, Left(t, job.arg), job.arg)
  <2>1. 0 \in 0 .. n
    BY <1>2
  <2>2. QED
    BY <1>2, <2>1, TrimFacts
<1>4. cut \in 0 .. n
  BY <1>2, <1>3
<1>5. /\ Right(t, cut, job.arg) \in cut .. n
      /\ \A p \in Right(t, cut, job.arg) .. n - 1 : In(t, p, job.arg)
      /\ Right(t, cut, job.arg) # cut => ~In(t, Right(t, cut, job.arg) - 1, job.arg)
  BY <1>2, <1>4, TrimFacts
<1>6. /\ trim_left(t, job.arg) = SubSeq(t, Left(t, job.arg) + 1, n)
      /\ trim_right(t, job.arg) = SubSeq(t, 1, Right(t, 0, job.arg))
      /\ trim(t, job.arg) = SubSeq(t, Left(t, job.arg) + 1, Right(t, Left(t, job.arg), job.arg))
  BY <1>2, TrimsAre
<1>7. answer = SubSeq(t, cut + 1, keep)
  <2>1. CASE job.call = "trim_left"
    BY <1>1, <1>6, <2>1 DEF Answer
  <2>2. CASE job.call = "trim_right"
    <3>1. answer = trim_right(t, job.arg)
      BY <1>1, <2>2 DEF Answer
    <3>2. cut = 0 /\ keep = Right(t, 0, job.arg) /\ cut + 1 = 1
      BY <2>2
    <3>3. QED
      BY <1>6, <3>1, <3>2
  <2>3. CASE job.call = "trim"
    BY <1>1, <1>6, <2>3 DEF Answer
  <2>4. QED
    BY <1>1, <2>1, <2>2, <2>3
<1>8. keep \in 0 .. n /\ cut <= keep
  BY <1>2, <1>4, <1>5
<1>9. \A p \in 0 .. n - 1 : p < cut \/ p >= keep => In(t, p, job.arg)
  <2> SUFFICES ASSUME NEW p \in 0 .. n - 1, p < cut \/ p >= keep PROVE In(t, p, job.arg)
    OBVIOUS
  <2>1. CASE p < cut
    <3>1. p \in 0 .. Left(t, job.arg) - 1
      BY <1>2, <1>3, <2>1
    <3>2. QED
      BY <1>3, <3>1
  <2>2. CASE p >= keep
    <3>1. keep = Right(t, cut, job.arg) /\ keep \in Nat
      BY <1>2, <1>8, <2>2
    <3>2. p \in Right(t, cut, job.arg) .. n - 1
      BY <1>2, <2>2, <3>1
    <3>3. QED
      BY <1>5, <3>2
  <2>3. QED
    BY <2>1, <2>2
<1>10. answer # <<>> => cut < keep
  <2> SUFFICES ASSUME ~(cut < keep) PROVE answer = <<>>
    OBVIOUS
  <2>1. cut + 1 \in Int /\ keep \in Int /\ keep < cut + 1
    BY <1>4, <1>8
  <2> HIDE DEF cut, keep
  <2>2. QED
    BY <1>2, <1>7, <2>1, WholePiece
<1>11. answer # <<>> =>
         /\ job.call # "trim_right" => ~In(t, cut, job.arg)
         /\ job.call # "trim_left"  => ~In(t, keep - 1, job.arg)
  <2> SUFFICES ASSUME cut < keep
               PROVE  /\ job.call # "trim_right" => ~In(t, cut, job.arg)
                      /\ job.call # "trim_left"  => ~In(t, keep - 1, job.arg)
    BY <1>10
  <2>1. job.call # "trim_right" => cut = Left(t, job.arg) /\ Left(t, job.arg) # n
    BY <1>2, <1>4, <1>8
  <2>2. job.call # "trim_left" =>
          keep = Right(t, cut, job.arg) /\ Right(t, cut, job.arg) # cut
    BY <1>2, <1>4, <1>8
  <2>3. QED
    BY <1>3, <1>5, <2>1, <2>2
<1>12. /\ cut > 0 => job.call # "trim_right"
       /\ keep < n => job.call # "trim_left" \/ cut = keep
  BY <1>2
<1> HIDE DEF cut, keep
<1>13. QED
  BY <1>4, <1>7, <1>8, <1>9, <1>11, <1>12

\* What is on the sides of a separator, in terms of the text.
LEMMA SidesAre == Answered => SidesOfSeparator
<1> SUFFICES ASSUME Answered, phase = "done",
                    job.call \in {"before_first", "after_first", "before_last", "after_last"},
                    job.kind = "string" => Len(job.arg) = 1
             PROVE  LET sep   == Needle(job.kind, job.arg)
                        all   == Occurrences(job.text, sep, job.cs, 0, Len(job.text))
                        place == IF job.call \in {"before_first", "after_first"} THEN Lowest(all)
                                 ELSE Highest(all)
                    IN  answer =
                          IF place # -1
                          THEN IF job.call \in {"before_first", "before_last"}
                               THEN SubSeq(job.text, 1, place)
                               ELSE SubSeq(job.text, place + Len(sep) + 1, Len(job.text))
                          ELSE IF job.call \in {"before_first", "after_last"} THEN job.text
                               ELSE <<>>
  BY DEF SidesOfSeparator, Done
<1> DEFINE t == job.text  n == Len(t)  sep == Needle(job.kind, job.arg)
           all == Occurrences(t, sep, job.cs, 0, n)
           place == IF job.call \in {"before_first", "after_first"} THEN Lowest(all)
                    ELSE Highest(all)
<1>1. job \in SepJobs /\ answer = Answer(job)
  BY DEF Answered, AskCalls, CutJobs, SepJobs, CaseJobs
<1>2. /\ job.kind \in Kinds /\ Fits(job)
      /\ job.text \in Texts /\ job.arg \in Needles
  BY <1>1 DEF SepJobs
<1>3. t \in Seq(Byte) /\ job.arg \in Seq(Byte) /\ 2 * n < SizeMod /\ n \in Nat
  BY <1>2, TextAssumption, LengthAssumption, TextFacts
<1>4. sep \in Seq(Byte) /\ Len(sep) \in Nat
  BY <1>3, NeedleFacts, TextFacts
<1>5. Skip(job.kind, job.arg) = Len(sep)
  BY <1>2 DEF Kinds, Fits, Skip, Needle
<1>6. /\ find(t, 0, sep, job.cs) = Lowest(all)
      /\ find_last(t, AUTO, sep, job.cs) = Highest(all)
  <2>1. 0 \in Nat /\ AUTO \in Nat /\ Within(AUTO, t) = n
    BY <1>3, SizeAssumption DEF AUTO, Within
  <2>2. find(t, 0, sep, job.cs) = Lowest(Occurrences(t, sep, job.cs, 0, n))
    BY <1>3, <1>4, <2>1, FindIs
  <2>3. find_last(t, AUTO, sep, job.cs) =
          Highest(Occurrences(t, sep, job.cs, 0, Within(AUTO, t)))
    BY <1>3, <1>4, <2>1, FindLastIs
  <2>4. QED
    BY <2>1, <2>2, <2>3
<1>7. place = -1 \/ (place \in 0 .. n /\ place + Len(sep) \in 0 .. n)
  <2>1. n \in 0 .. n /\ 0 \in Nat /\ Len(t) \in 0 .. Len(t)
    BY <1>3
  <2>2. /\ Occurrences(t, sep, job.cs, 0, Len(t)) \in SUBSET (0 .. Len(t))
        /\ \A p \in Occurrences(t, sep, job.cs, 0, Len(t)) :
             p \in Nat /\ 0 <= p /\ p + Len(sep) <= Len(t) /\ sep # <<>>
    <3> HIDE DEF t, n, sep, all
    <3>1. QED
      BY <1>3, <1>4, <2>1, PlacesIn
  <2>3. all \in SUBSET (0 .. n) /\ \A p \in all : p \in Nat /\ p + Len(sep) <= n
    BY <2>2
  <2> HIDE DEF all
  <2>4. /\ Lowest(all) = -1 \/ Lowest(all) \in all
        /\ Highest(all) = -1 \/ Highest(all) \in all
    <3> HIDE DEF n
    <3>1. QED
      BY <1>3, <2>3, EndsFacts
  <2>5. place = -1 \/ place \in all
    BY <2>4
  <2> HIDE DEF place, sep, n
  <2>6. ASSUME place \in all PROVE place \in 0 .. n /\ place + Len(sep) \in 0 .. n
    <3>1. place \in Nat /\ place + Len(sep) <= n /\ place \in 0 .. n
      BY <2>3, <2>6
    <3>2. QED
      BY <1>3, <1>4, <3>1
  <2>7. QED
    BY <2>5, <2>6
<1>8. /\ job.call = "before_first" => answer = before_first(t, job.kind, job.arg, job.cs)
      /\ job.call = "after_first"  => answer = after_first(t, job.kind, job.arg, job.cs)
      /\ job.call = "before_last"  => answer = before_last(t, job.kind, job.arg, job.cs)
      /\ job.call = "after_last"   => answer = after_last(t, job.kind, job.arg, job.cs)
  BY <1>1 DEF Answer
<1>9. /\ job.call \in {"before_first", "before_last"} =>
           answer = IF place >= 0 THEN substr(t, 0, place)
                    ELSE IF job.call = "before_first" THEN t ELSE <<>>
      /\ job.call \in {"after_first", "after_last"} =>
           answer = IF place >= 0 THEN substr(t, place + Len(sep), AUTO)
                    ELSE IF job.call = "after_last" THEN t ELSE <<>>
  BY <1>5, <1>6, <1>8 DEF before_first, after_first, before_last, after_last, left
<1> HIDE DEF place
<1>10. CASE place = -1
  BY <1>9, <1>10 DEF place
<1>11. CASE place # -1
  <2>1. /\ place \in Nat /\ place <= n /\ place >= 0 /\ 0 \in 0 .. n /\ 0 + place <= n
        /\ 0 + 1 = 1 /\ 0 + place = place
        /\ place + Len(sep) \in 0 .. n
    BY <1>3, <1>4, <1>7, <1>11
  <2>2. substr(t, 0, place) = SubSeq(t, 0 + 1, 0 + place)
    BY <1>3, <2>1, SubstrInside
  <2>3. substr(t, place + Len(sep), AUTO) = SubSeq(t, place + Len(sep) + 1, n)
    <3> DEFINE from == place + Len(sep)
    <3>1. from \in 0 .. n
      BY <2>1
    <3> HIDE DEF from
    <3>2. substr(t, from, AUTO) = SubSeq(t, from + 1, n)
      BY <1>3, <3>1, SubstrInside
    <3>3. QED
      BY <3>2 DEF from
  <2>4. answer = IF job.call \in {"before_first", "before_last"} THEN SubSeq(t, 1, place)
                 ELSE SubSeq(t, place + Len(sep) + 1, n)
    BY <1>9, <2>1, <2>2, <2>3
  <2>5. QED
    BY <1>11, <2>4 DEF place
<1>12. QED
  BY <1>10, <1>11

\* substr, left, right, the trims and the sides of a separator, for texts of
\* any length that an ST_ssize_t can tell (st_string.h:1984-2247).
THEOREM CutsCut == Spec => []CutsAreExact
<1>1. Answered => CutsClip
  <2> SUFFICES ASSUME Answered PROVE CutsClip
    OBVIOUS
  <2>1. CASE phase = "done" /\ job.call \in {"substr", "left", "right"}
    <3>1. job.call \in {"substr", "left", "right"} /\ phase = "done"
      BY <2>1
    <3>2. QED
      BY <3>1, ClipsAre DEF CutsClip, Done
  <2>2. CASE ~(phase = "done" /\ job.call \in {"substr", "left", "right"})
    BY <2>2 DEF CutsClip, Done
  <2>3. QED
    BY <2>1, <2>2
<1>2. Answered => CutsAreExact
  BY <1>1, TrimsAreTight, SidesAre DEF CutsAreExact
<1>3. QED
  BY <1>2, AnswersHold, PTL

-----------------------------------------------------------------------------
(* The order of texts. *)

\* A number has one quotient and one remainder.
LEMMA RemainderIs ==
  ASSUME NEW a \in Int, NEW m \in Nat, m > 0, NEW q \in Int, NEW r \in 0 .. m - 1, a = q * m + r
  PROVE  a % m = r
<1>1. a = (a \div m) * m + (a % m) /\ a % m \in 0 .. m - 1 /\ a \div m \in Int
  BY SMT
<1>2. PICK p \in Int, s \in 0 .. m - 1 : p = a \div m /\ s = a % m
  BY <1>1
<1>3. (p - q) * m = r - s
  <2>1. p * m + s = q * m + r
    BY <1>1, <1>2
  <2>2. (p - q) * m = p * m - q * m
    OBVIOUS
  <2>3. p * m \in Int /\ q * m \in Int
    OBVIOUS
  <2>4. QED
    BY <2>1, <2>2, <2>3
<1>4. p - q = 0
  <2>1. PICK d \in Int : d = p - q
    OBVIOUS
  <2>2. d * m > -m /\ d * m < m
    BY <1>3, <2>1
  <2>3. d >= 1 => d * m >= m
    OBVIOUS
  <2>4. d <= -1 => d * m <= -m
    OBVIOUS
  <2>5. QED
    BY <2>1, <2>2, <2>3, <2>4
<1>5. QED
  BY <1>2, <1>3, <1>4

\* The difference of two lengths survives the way through a size_t into an
\* int, when an int holds it.
LEMMA DifferenceKept ==
  ASSUME NEW d \in Int, 2 * d < IntMod, 2 * (-d) < IntMod
  PROVE  AsInt(Wrap(d)) = d
<1>1. /\ SizeMod \in Nat /\ SizeMod > 1 /\ IntMod \in Nat /\ IntMod > 1
      /\ SizeMod % IntMod = 0
  BY SizeAssumption, IntAssumption
<1>2. PICK k \in Int : SizeMod = k * IntMod
  <2>1. SizeMod = (SizeMod \div IntMod) * IntMod + (SizeMod % IntMod) /\ SizeMod \div IntMod \in Int
    BY <1>1, SMT
  <2>2. QED
    BY <1>1, <2>1
<1>3. SizeMod >= IntMod
  <2>1. k >= 1
    <3>1. k <= 0 => k * IntMod <= 0
      BY <1>1
    <3>2. QED
      BY <1>1, <1>2, <3>1
  <2>2. k >= 1 => k * IntMod >= IntMod
    BY <1>1
  <2>3. QED
    BY <1>2, <2>1, <2>2
<1>4. CASE d >= 0
  <2>1. d \in 0 .. SizeMod - 1 /\ d \in 0 .. IntMod - 1 /\ d = 0 * SizeMod + d /\ d = 0 * IntMod + d
    BY <1>1, <1>3, <1>4
  <2>2. d % SizeMod = d /\ d % IntMod = d
    BY <1>1, <2>1, RemainderIs
  <2>3. ~(2 * d >= IntMod)
    BY <1>1
  <2>4. QED
    BY <2>2, <2>3 DEF AsInt, Wrap
<1>5. CASE d < 0
  <2>1. /\ d + SizeMod \in 0 .. SizeMod - 1 /\ d + IntMod \in 0 .. IntMod - 1
        /\ d + SizeMod \in Int
    BY <1>1, <1>3, <1>5
  <2>2. d = (-1) * SizeMod + (d + SizeMod)
    BY <1>1
  <2>3. d % SizeMod = d + SizeMod
    BY <1>1, <2>1, <2>2, RemainderIs
  <2>4. d + SizeMod = (k - 1) * IntMod + (d + IntMod)
    <3>1. (k - 1) * IntMod = k * IntMod - IntMod
      BY <1>1
    <3>2. QED
      BY <1>1, <1>2, <3>1
  <2>5. (d + SizeMod) % IntMod = d + IntMod
    <3>1. PICK q \in Int, a \in Int, r \in 0 .. IntMod - 1 :
            q = k - 1 /\ a = d + SizeMod /\ r = d + IntMod
      BY <2>1
    <3>2. a = q * IntMod + r
      BY <2>4, <3>1
    <3>3. IntMod > 0 /\ IntMod \in Nat
      BY <1>1
    <3>4. a % IntMod = r
      BY <3>2, <3>3, RemainderIs
    <3>5. QED
      BY <3>1, <3>4
  <2>6. 2 * (d + IntMod) >= IntMod /\ (d + IntMod) - IntMod = d
    BY <1>1
  <2>7. QED
    BY <2>3, <2>5, <2>6 DEF AsInt, Wrap
<1>6. QED
  BY <1>4, <1>5

\* Characters are the same when they weigh the same, and in lower case when
\* they are in upper case.
LEMMA WeightTells ==
  ASSUME NEW a \in Byte, NEW b \in Byte, NEW cs \in BOOLEAN
  PROVE  /\ Same(a, b, cs) <=> Weight(a, cs) = Weight(b, cs)
         /\ Weight(a, cs) \in Int
         /\ Same(a, b, FALSE) <=> cl_fast_upper(a) = cl_fast_upper(b)
         /\ cl_fast_lower(cl_fast_lower(a)) = cl_fast_lower(a)
         /\ cl_fast_lower(cl_fast_upper(a)) = cl_fast_lower(a)
<1>1. CASE cs = TRUE
  BY <1>1 DEF Same, Weight, AsChar, cl_fast_lower, cl_fast_upper, Byte
<1>2. CASE cs = FALSE
  BY <1>2 DEF Same, Weight, AsChar, cl_fast_lower, cl_fast_upper, Byte
<1>3. QED
  BY <1>1, <1>2

\* The lesser of two numbers.
LEMMA LesserOfTwo ==
  ASSUME NEW a \in Nat, NEW b \in Nat
  PROVE  Min({a, b}) = IF a > b THEN b ELSE a
<1>1. {a, b} \in SUBSET Nat /\ {a, b} # {}
  OBVIOUS
<1>2. Min({a, b}) \in {a, b} /\ \A y \in {a, b} : Min({a, b}) <= y
  BY <1>1, MinFacts
<1>3. QED
  BY <1>2

\* compare_cs is 0 for texts that are the same as far as it looks, and else
\* tells which of the first characters that differ weighs less.
LEMMA FirstDecides ==
  ASSUME NEW l \in Seq(Byte), NEW r \in Seq(Byte), NEW cs \in BOOLEAN, NEW n \in Nat,
         n <= Len(l), n <= Len(r)
  PROVE  \/ /\ compare_cs(l, r, n, cs) = 0
            /\ \A i \in 1 .. n : Same(l[i], r[i], cs)
         \/ \E f \in 1 .. n :
              /\ compare_cs(l, r, n, cs) = Weight(l[f], cs) - Weight(r[f], cs)
              /\ ~Same(l[f], r[f], cs)
              /\ \A i \in 1 .. f - 1 : Same(l[i], r[i], cs)
<1> DEFINE apart == {i \in 1 .. n : ~Same(l[i], r[i], cs)}
           f == Min(apart)
<1>1. compare_cs(l, r, n, cs) =
        IF apart = {} THEN 0 ELSE Weight(l[f], cs) - Weight(r[f], cs)
  BY DEF compare_cs, Weight
<1>2. CASE apart = {}
  BY <1>1, <1>2
<1>3. CASE apart # {}
  <2>1. apart \in SUBSET Nat
    OBVIOUS
  <2> HIDE DEF apart
  <2>2. f \in apart /\ \A i \in apart : f <= i
    BY <1>3, <2>1, MinFacts
  <2> HIDE DEF f
  <2>3. f \in 1 .. n /\ ~Same(l[f], r[f], cs)
    BY <2>2 DEF apart
  <2>4. ASSUME NEW i \in 1 .. f - 1 PROVE Same(l[i], r[i], cs)
    <3>1. i \in 1 .. n /\ ~(f <= i)
      BY <2>3
    <3>2. i \notin apart
      BY <2>2, <3>1
    <3>3. QED
      BY <3>1, <3>2 DEF apart
  <2>5. compare_cs(l, r, n, cs) = Weight(l[f], cs) - Weight(r[f], cs)
    BY <1>1, <1>3
  <2>6. QED
    BY <2>3, <2>4, <2>5
<1>4. QED
  BY <1>2, <1>3

\* Where the first characters that differ are, there the order is decided.
LEMMA BeforeAt ==
  ASSUME NEW s \in Seq(Byte), NEW t \in Seq(Byte), NEW cs \in BOOLEAN,
         NEW f \in Nat, f >= 1, f <= Len(s), f <= Len(t),
         Weight(s[f], cs) # Weight(t[f], cs),
         \A i \in 1 .. f - 1 : Weight(s[i], cs) = Weight(t[i], cs)
  PROVE  Before(s, t, cs) <=> Weight(s[f], cs) < Weight(t[f], cs)
<1>1. Len(s) \in Nat /\ Len(t) \in Nat /\ f \in 1 .. Len(s) /\ f \in 1 .. Len(t)
  BY TextFacts
<1>2. s[f] \in Byte /\ t[f] \in Byte /\ \A i \in 1 .. Len(s) : s[i] \in Byte
  BY <1>1, TextFacts
<1>3. Weight(s[f], cs) < Weight(t[f], cs) => Before(s, t, cs)
  BY <1>1 DEF Before
<1>4. ASSUME Before(s, t, cs) PROVE Weight(s[f], cs) < Weight(t[f], cs)
  <2>1. PICK i \in 1 .. Len(t) :
          /\ i <= Len(s) + 1
          /\ \A k \in 1 .. i - 1 : Weight(s[k], cs) = Weight(t[k], cs)
          /\ i <= Len(s) => Weight(s[i], cs) < Weight(t[i], cs)
    BY <1>4 DEF Before
  <2>2. ~(i > f)
    <3>1. i > f => f \in 1 .. i - 1
      BY <1>1
    <3>2. QED
      BY <2>1, <3>1
  <2>3. ~(i < f)
    <3> SUFFICES ASSUME i < f PROVE FALSE
      OBVIOUS
    <3>1. i \in 1 .. f - 1 /\ i <= Len(s) /\ i \in 1 .. Len(s)
      BY <1>1
    <3>2. Weight(s[i], cs) \in Int /\ Weight(s[i], cs) = Weight(t[i], cs)
      BY <1>2, <3>1, WeightTells
    <3>3. Weight(s[i], cs) < Weight(t[i], cs)
      BY <2>1, <3>1
    <3>4. QED
      BY <3>2, <3>3
  <2>4. i = f
    BY <1>1, <2>2, <2>3
  <2>5. QED
    BY <2>1, <2>4
<1>5. QED
  BY <1>3, <1>4

\* A text that begins the other one is before it.
LEMMA BeforeWhenShorter ==
  ASSUME NEW s \in Seq(Byte), NEW t \in Seq(Byte), NEW cs \in BOOLEAN,
         \A i \in 1 .. Len(s) : i <= Len(t) => Weight(s[i], cs) = Weight(t[i], cs)
  PROVE  Before(s, t, cs) <=> Len(s) < Len(t)
<1>1. /\ Len(s) \in Nat /\ Len(t) \in Nat /\ \A i \in 1 .. Len(s) : s[i] \in Byte
  BY TextFacts
<1>2. ASSUME Len(s) < Len(t) PROVE Before(s, t, cs)
  <2> DEFINE i == Len(s) + 1
  <2>1. i \in 1 .. Len(t) /\ i <= Len(s) + 1 /\ ~(i <= Len(s)) /\ i - 1 = Len(s)
    BY <1>1, <1>2
  <2>2. \A k \in 1 .. i - 1 : Weight(s[k], cs) = Weight(t[k], cs)
    BY <1>1, <1>2, <2>1
  <2> HIDE DEF i
  <2>3. QED
    BY <2>1, <2>2 DEF Before
<1>3. ASSUME Before(s, t, cs) PROVE Len(s) < Len(t)
  <2>1. PICK i \in 1 .. Len(t) :
          /\ i <= Len(s) + 1
          /\ i <= Len(s) => Weight(s[i], cs) < Weight(t[i], cs)
    BY <1>3 DEF Before
  <2>2. ~(i <= Len(s))
    <3> SUFFICES ASSUME i <= Len(s) PROVE FALSE
      OBVIOUS
    <3>1. i \in 1 .. Len(s) /\ i <= Len(t)
      BY <1>1
    <3>2. Weight(s[i], cs) \in Int /\ Weight(s[i], cs) = Weight(t[i], cs)
      BY <1>1, <3>1, WeightTells
    <3>3. QED
      BY <2>1, <3>2
  <2>3. QED
    BY <1>1, <2>1, <2>2
<1>4. QED
  BY <1>2, <1>3

\* compare is the order of texts, for lengths whose difference an int holds.
LEMMA CompareIs ==
  ASSUME NEW l \in Seq(Byte), NEW r \in Seq(Byte), NEW cs \in BOOLEAN, InInt(l, r)
  PROVE  /\ compare(l, r, cs) < 0 <=> Before(l, r, cs)
         /\ compare(l, r, cs) > 0 <=> Before(r, l, cs)
         /\ compare(l, r, cs) = 0 <=> Equal(l, r, cs)
<1> DEFINE n == Min({Len(l), Len(r)})
           cmp == compare_cs(l, r, n, cs)
<1>1. /\ Len(l) \in Nat /\ Len(r) \in Nat /\ DOMAIN l = 1 .. Len(l)
      /\ \A i \in 1 .. Len(l) : l[i] \in Byte
      /\ \A i \in 1 .. Len(r) : r[i] \in Byte
  BY TextFacts
<1>2. n \in Nat /\ n <= Len(l) /\ n <= Len(r) /\ (n = Len(l) \/ n = Len(r))
  BY <1>1, LesserOfTwo
<1>3. compare(l, r, cs) = IF cmp # 0 THEN cmp ELSE AsInt(Wrap(Len(l) - Len(r)))
  BY DEF compare
<1> HIDE DEF n
<1>4. Len(l) \in Nat /\ Len(r) \in Nat
  BY <1>1
<1>5. \A i \in 1 .. n :
        /\ i \in 1 .. Len(l) /\ i \in 1 .. Len(r)
        /\ Same(l[i], r[i], cs) <=> Weight(l[i], cs) = Weight(r[i], cs)
        /\ Weight(l[i], cs) \in Int /\ Weight(r[i], cs) \in Int
  <2> SUFFICES ASSUME NEW i \in 1 .. n
               PROVE  /\ i \in 1 .. Len(l) /\ i \in 1 .. Len(r)
                      /\ Same(l[i], r[i], cs) <=> Weight(l[i], cs) = Weight(r[i], cs)
                      /\ Weight(l[i], cs) \in Int /\ Weight(r[i], cs) \in Int
    OBVIOUS
  <2>1. i \in 1 .. Len(l) /\ i \in 1 .. Len(r)
    BY <1>1, <1>2
  <2>2. l[i] \in Byte /\ r[i] \in Byte
    BY <1>1, <2>1
  <2>3. QED
    BY <2>1, <2>2, WeightTells
<1>6. \/ cmp = 0 /\ \A i \in 1 .. n : Same(l[i], r[i], cs)
      \/ \E f \in 1 .. n :
           /\ cmp = Weight(l[f], cs) - Weight(r[f], cs)
           /\ ~Same(l[f], r[f], cs)
           /\ \A i \in 1 .. f - 1 : Same(l[i], r[i], cs)
  BY <1>2, FirstDecides
<1> HIDE DEF cmp
<1>7. CASE cmp = 0 /\ \A i \in 1 .. n : Same(l[i], r[i], cs)
  <2>1. compare(l, r, cs) = Len(l) - Len(r)
    <3>1. Len(l) - Len(r) \in Int /\ -(Len(l) - Len(r)) = Len(r) - Len(l)
      BY <1>1
    <3>2. 2 * (Len(l) - Len(r)) < IntMod /\ 2 * (-(Len(l) - Len(r))) < IntMod
      BY <3>1 DEF InInt
    <3>3. AsInt(Wrap(Len(l) - Len(r))) = Len(l) - Len(r)
      BY <3>1, <3>2, DifferenceKept
    <3>4. QED
      BY <1>3, <1>7, <3>3
  <2>2. Before(l, r, cs) <=> Len(l) < Len(r)
    <3>1. \A i \in 1 .. Len(l) : i <= Len(r) => Weight(l[i], cs) = Weight(r[i], cs)
      <4> SUFFICES ASSUME NEW i \in 1 .. Len(l), i <= Len(r)
                   PROVE  Weight(l[i], cs) = Weight(r[i], cs)
        OBVIOUS
      <4>1. i \in 1 .. n
        BY <1>2, <1>4
      <4>2. QED
        BY <1>5, <1>7, <4>1
    <3>2. QED
      BY <3>1, BeforeWhenShorter
  <2>3. Before(r, l, cs) <=> Len(r) < Len(l)
    <3>1. \A i \in 1 .. Len(r) : i <= Len(l) => Weight(r[i], cs) = Weight(l[i], cs)
      <4> SUFFICES ASSUME NEW i \in 1 .. Len(r), i <= Len(l)
                   PROVE  Weight(r[i], cs) = Weight(l[i], cs)
        OBVIOUS
      <4>1. i \in 1 .. n
        BY <1>2, <1>4
      <4>2. QED
        BY <1>5, <1>7, <4>1
    <3>2. QED
      BY <3>1, BeforeWhenShorter
  <2>4. Equal(l, r, cs) <=> Len(l) = Len(r)
    <3>1. Len(l) = Len(r) => n = Len(l)
      BY <1>2
    <3>2. QED
      BY <1>1, <1>7, <3>1 DEF Equal
  <2>5. QED
    BY <1>1, <2>1, <2>2, <2>3, <2>4
<1>8. CASE \E f \in 1 .. n :
             /\ cmp = Weight(l[f], cs) - Weight(r[f], cs)
             /\ ~Same(l[f], r[f], cs)
             /\ \A i \in 1 .. f - 1 : Same(l[i], r[i], cs)
  <2>1. PICK f \in 1 .. n :
             /\ cmp = Weight(l[f], cs) - Weight(r[f], cs)
             /\ ~Same(l[f], r[f], cs)
             /\ \A i \in 1 .. f - 1 : Same(l[i], r[i], cs)
    BY <1>8
  <2>2. f \in Nat /\ f >= 1 /\ f <= Len(l) /\ f <= Len(r)
    BY <1>2, <1>4
  <2>3. /\ Weight(l[f], cs) \in Int /\ Weight(r[f], cs) \in Int
        /\ Weight(l[f], cs) # Weight(r[f], cs)
    BY <1>5, <2>1
  <2>4. \A i \in 1 .. f - 1 : Weight(l[i], cs) = Weight(r[i], cs)
    <3> SUFFICES ASSUME NEW i \in 1 .. f - 1 PROVE Weight(l[i], cs) = Weight(r[i], cs)
      OBVIOUS
    <3>1. i \in 1 .. n
      BY <1>2, <2>2
    <3>2. QED
      BY <1>5, <2>1, <3>1
  <2>5. Before(l, r, cs) <=> Weight(l[f], cs) < Weight(r[f], cs)
    BY <2>2, <2>3, <2>4, BeforeAt
  <2>6. Before(r, l, cs) <=> Weight(r[f], cs) < Weight(l[f], cs)
    <3>1. \A i \in 1 .. f - 1 : Weight(r[i], cs) = Weight(l[i], cs)
      BY <2>4
    <3>2. QED
      BY <2>2, <2>3, <3>1, BeforeAt
  <2>7. ~Equal(l, r, cs)
    <3>1. f \in DOMAIN l
      BY <1>1, <2>2
    <3>2. QED
      BY <2>1, <3>1 DEF Equal
  <2>8. compare(l, r, cs) = Weight(l[f], cs) - Weight(r[f], cs) /\ cmp # 0
    BY <1>3, <2>1, <2>3
  <2>9. QED
    BY <2>3, <2>5, <2>6, <2>7, <2>8
<1>9. QED
  BY <1>6, <1>7, <1>8

\* What a comparison is made of.
LEMMA OrderJobFacts ==
  ASSUME NEW j \in OrderJobs
  PROVE  /\ j.text \in Words /\ j.text \in Seq(Byte) /\ j.cs \in BOOLEAN
         /\ j.call # "hash" => Needle(j.kind, j.arg) \in Seq(Byte)
         /\ j.call = "compare_n" => j.n \in Nat
<1>1. /\ j.text \in Words /\ j.cs \in BOOLEAN
      /\ j.call # "hash" => j.arg \in Words
      /\ j.call = "compare_n" => j.n \in Counts
  BY DEF OrderJobs
<1>2. j.text \in Seq(Byte) /\ (j.call # "hash" => j.arg \in Seq(Byte))
  BY <1>1, TextAssumption
<1>3. j.call = "compare_n" => j.n \in Nat
  BY <1>1, SizeAssumption DEF Counts, AUTO
<1>4. QED
  BY <1>1, <1>2, <1>3, NeedleFacts

\* What compare_n looks at.
LEMMA ClipIs ==
  ASSUME NEW t \in Seq(Byte), NEW n \in Nat
  PROVE  /\ Clip(t, n) = SubSeq(t, 1, Within(n, t))
         /\ Clip(t, n) \in Seq(Byte)
         /\ n <= Len(t) => Len(Clip(t, n)) = n
         /\ n = Len(t) => Clip(t, n) = t
<1>1. Len(t) \in Nat
  BY TextFacts
<1>2. Min({n, Len(t)}) = Within(n, t)
  BY <1>1, LesserOfTwo DEF Within
<1> DEFINE m == Within(n, t)
<1>3. m \in 0 .. Len(t) /\ 0 \in 0 .. Len(t) /\ m \in 0 .. Len(t) /\ 0 + 1 = 1 /\ m - 0 = m
      /\ (n <= Len(t) => m = n)
  BY <1>1 DEF Within
<1> HIDE DEF m
<1>4. Clip(t, n) = SubSeq(t, 1, m)
  BY <1>2 DEF Clip, m
<1>5. SubSeq(t, 0 + 1, m) \in Seq(Byte) /\ Len(SubSeq(t, 0 + 1, m)) = m - 0
  BY <1>1, <1>3, Piece
<1>6. SubSeq(t, 1, m) \in Seq(Byte) /\ Len(SubSeq(t, 1, m)) = m
  BY <1>3, <1>5
<1>7. n = Len(t) => SubSeq(t, 1, m) = t
  BY <1>1, <1>3, WholePiece
<1>8. QED
  BY <1>3, <1>4, <1>6, <1>7 DEF m

\* Equal lengths are no difference.
LEMMA SameLengthInInt ==
  ASSUME NEW s \in Seq(Byte), NEW t \in Seq(Byte), Len(s) = Len(t)
  PROVE  InInt(s, t)
<1>1. Len(s) \in Nat /\ Len(t) \in Nat
  BY TextFacts
<1>2. QED
  BY <1>1, IntAssumption DEF InInt

\* starts_with and ends_with in terms of the text.
LEMMA PartsAre ==
  ASSUME NEW t \in Seq(Byte), NEW part \in Seq(Byte), NEW cs \in BOOLEAN
  PROVE  /\ starts_with(t, part, cs) <=> Occurs(t, part, cs, 0)
         /\ ends_with(t, part, cs) <=>
              Len(t) - Len(part) >= 0 /\ Occurs(t, part, cs, Len(t) - Len(part))
<1> DEFINE n == Len(part)  at == Len(t) - n
<1>1. Len(t) \in Nat /\ n \in Nat /\ DOMAIN part = 1 .. n
  BY TextFacts
<1>2. starts_with(t, part, cs) <=> Occurs(t, part, cs, 0)
  <2>1. CASE n <= Len(t)
    <3>1. /\ Clip(t, n) = SubSeq(t, 1, n) /\ Clip(t, n) \in Seq(Byte) /\ Len(Clip(t, n)) = n
          /\ Clip(part, n) = part
      <4>1. Within(n, t) = n
        BY <1>1, <2>1 DEF Within
      <4>2. QED
        BY <1>1, <2>1, <4>1, ClipIs
    <3>2. InInt(Clip(t, n), part)
      BY <3>1, SameLengthInInt
    <3>3. compare(Clip(t, n), part, cs) = 0 <=> Equal(Clip(t, n), part, cs)
      BY <3>1, <3>2, CompareIs
    <3>4. 0 + 1 = 1 /\ 0 + n = n /\ 0 + n <= Len(t)
      BY <1>1, <2>1
    <3> HIDE DEF n
    <3>5. starts_with(t, part, cs) <=> Equal(SubSeq(t, 1, n), part, cs)
      BY <2>1, <3>1, <3>3 DEF starts_with, compare_n, n
    <3>6. Occurs(t, part, cs, 0) <=> Equal(SubSeq(t, 1, n), part, cs)
      BY <3>4 DEF Occurs, n
    <3>7. QED
      BY <3>5, <3>6
  <2>2. CASE ~(n <= Len(t))
    BY <1>1, <2>2 DEF starts_with, Occurs
  <2>3. QED
    BY <2>1, <2>2
<1>3. ends_with(t, part, cs) <=> at >= 0 /\ Occurs(t, part, cs, at)
  <2>1. CASE n <= Len(t)
    <3>1. /\ at \in 0 .. Len(t) /\ Len(t) \in at .. Len(t) /\ at + n = Len(t)
          /\ Len(t) - at = n /\ at >= 0
      BY <1>1, <2>1
    <3> DEFINE s == SubSeq(t, at + 1, Len(t))
    <3>2. s \in Seq(Byte) /\ Len(s) = n
      <4> HIDE DEF at
      <4>1. s \in Seq(Byte) /\ Len(s) = Len(t) - at
        BY <1>1, <3>1, Piece
      <4>2. QED
        BY <3>1, <4>1
    <3>3. ends_with(t, part, cs) <=> compare_cs(s, part, n, cs) = 0
      BY <2>1 DEF ends_with
    <3>4. Occurs(t, part, cs, at) <=> Equal(s, part, cs)
      <4> HIDE DEF at
      <4>1. at + n <= Len(t)
        BY <1>1, <3>1
      <4> HIDE DEF n
      <4>2. QED
        BY <3>1, <4>1 DEF Occurs, n
    <3> HIDE DEF s, at
    <3>5. DOMAIN s = 1 .. n /\ \A i \in 1 .. n : s[i] \in Byte /\ part[i] \in Byte
      BY <3>2, TextFacts
    <3>6. Equal(s, part, cs) <=> \A i \in 1 .. n : Same(s[i], part[i], cs)
      BY <3>2, <3>5 DEF Equal
    <3>7. n <= Len(s) /\ n <= Len(part)
      BY <1>1, <3>2
    <3>8. compare_cs(s, part, n, cs) = 0 <=> \A i \in 1 .. n : Same(s[i], part[i], cs)
      <4>1. \/ /\ compare_cs(s, part, n, cs) = 0
               /\ \A i \in 1 .. n : Same(s[i], part[i], cs)
            \/ \E f \in 1 .. n :
                 /\ compare_cs(s, part, n, cs) = Weight(s[f], cs) - Weight(part[f], cs)
                 /\ ~Same(s[f], part[f], cs)
                 /\ \A i \in 1 .. f - 1 : Same(s[i], part[i], cs)
        <5> HIDE DEF n
        <5>1. n \in Nat /\ n <= Len(s) /\ n <= Len(part) /\ s \in Seq(Byte)
          BY <1>1, <3>2, <3>7
        <5>2. QED
          BY ONLY FirstDecides, <5>1, part \in Seq(Byte), cs \in BOOLEAN
      <4>2. ASSUME NEW f \in 1 .. n, ~Same(s[f], part[f], cs)
            PROVE  Weight(s[f], cs) - Weight(part[f], cs) # 0
        <5>1. s[f] \in Byte /\ part[f] \in Byte
          BY <3>5
        <5>2. /\ Weight(s[f], cs) \in Int /\ Weight(part[f], cs) \in Int
              /\ Weight(s[f], cs) # Weight(part[f], cs)
          BY <4>2, <5>1, WeightTells
        <5>3. QED
          BY <5>2
      <4>3. QED
        BY <4>1, <4>2
    <3>9. QED
      BY <3>1, <3>3, <3>4, <3>6, <3>8
  <2>2. CASE ~(n <= Len(t))
    BY <1>1, <2>2 DEF ends_with
  <2>3. QED
    BY <2>1, <2>2
<1>4. QED
  BY <1>2, <1>3

\* compare, compare_n, starts_with and ends_with of any texts, with case and
\* without (st_charbuffer.h:199-215, st_string.h:1573-1658, 2071-2111).
THEOREM TextsOrdered == Spec => []OrdersTexts
<1>1. Answered => OrdersTexts
  <2> SUFFICES ASSUME Answered, phase = "done",
                      job.call \in {"compare", "compare_n", "starts_with", "ends_with"}
               PROVE  OrdersTexts
    BY DEF OrdersTexts, Done
  <2> DEFINE arg == Needle(job.kind, job.arg)
  <2>1. job \in OrderJobs /\ found = Compared(job)
    BY DEF Answered, OrderCalls
  <2>2. job.text \in Seq(Byte) /\ arg \in Seq(Byte) /\ job.cs \in BOOLEAN
    BY <2>1, OrderJobFacts
  <2>3. CASE job.call \in {"compare", "compare_n"}
    <3> DEFINE l == LeftOf(job)  r == RightOf(job)
    <3>1. l \in Seq(Byte) /\ r \in Seq(Byte) /\ found = compare(l, r, job.cs)
      <4>1. CASE job.call = "compare"
        BY <2>1, <2>2, <4>1 DEF LeftOf, RightOf, Compared
      <4>2. CASE job.call = "compare_n"
        <5>1. job.n \in Nat
          BY <2>1, <4>2, OrderJobFacts
        <5>2. /\ l = Clip(job.text, job.n) /\ r = Clip(arg, job.n)
              /\ l \in Seq(Byte) /\ r \in Seq(Byte)
          BY <2>2, <4>2, <5>1, ClipIs DEF LeftOf, RightOf
        <5>3. found = compare_n(job.text, arg, job.n, job.cs)
          BY <2>1, <4>2 DEF Compared
        <5>4. QED
          BY <5>2, <5>3 DEF compare_n
      <4>3. QED
        BY <2>3, <4>1, <4>2
    <3> HIDE DEF l, r
    <3>2. InInt(l, r) =>
            /\ found < 0 <=> Before(l, r, job.cs)
            /\ found > 0 <=> Before(r, l, job.cs)
            /\ found = 0 <=> Equal(l, r, job.cs)
      BY <2>2, <3>1, CompareIs
    <3>3. QED
      BY <2>3, <3>2 DEF OrdersTexts, Done, l, r
  <2>4. CASE job.call = "starts_with"
    <3>1. found = Number(starts_with(job.text, arg, job.cs))
      BY <2>1, <2>4 DEF Compared
    <3>2. found = 1 <=> Occurs(job.text, arg, job.cs, 0)
      BY <2>2, <3>1, PartsAre DEF Number
    <3>3. QED
      BY <2>4, <3>2 DEF OrdersTexts, Done
  <2>5. CASE job.call = "ends_with"
    <3> DEFINE at == Len(job.text) - Len(arg)
    <3>1. found = Number(ends_with(job.text, arg, job.cs))
      BY <2>1, <2>5 DEF Compared
    <3>2. found = 1 <=> at >= 0 /\ Occurs(job.text, arg, job.cs, at)
      <4>1. ends_with(job.text, arg, job.cs) <=>
              at >= 0 /\ Occurs(job.text, arg, job.cs, at)
        BY <2>2, PartsAre
      <4> HIDE DEF arg, at
      <4>2. QED
        BY <3>1, <4>1 DEF Number
    <3>3. QED
      BY <2>5, <3>2 DEF OrdersTexts, Done
  <2>6. QED
    BY <2>3, <2>4, <2>5
<1>2. QED
  BY <1>1, AnswersHold, PTL

-----------------------------------------------------------------------------
(* Hashes. *)

\* Texts that are equal without case are the same in either case, and texts
\* that are the same in either case are equal without.
LEMMA CaseForgets ==
  ASSUME NEW s \in Seq(Byte), NEW t \in Seq(Byte)
  PROVE  /\ Equal(s, t, TRUE) => s = t
         /\ Equal(s, t, FALSE) <=> to_lower(s) = to_lower(t)
         /\ Equal(s, t, FALSE) <=> to_upper(s) = to_upper(t)
         /\ to_lower(to_lower(s)) = to_lower(s)
         /\ to_lower(to_upper(s)) = to_lower(s)
<1> DEFINE n == Len(s)  m == Len(t)
<1>1. /\ n \in Nat /\ m \in Nat /\ DOMAIN s = 1 .. n /\ DOMAIN t = 1 .. m
      /\ \A i \in 1 .. n : s[i] \in Byte
      /\ \A i \in 1 .. m : t[i] \in Byte
      /\ s = [i \in 1 .. n |-> s[i]] /\ t = [i \in 1 .. m |-> t[i]]
  <2>1. s = [i \in 1 .. n |-> s[i]] /\ t = [i \in 1 .. m |-> t[i]]
    BY LenProperties
  <2>2. QED
    BY <2>1, TextFacts
<1> HIDE DEF n, m
<1>2. Equal(s, t, TRUE) => s = t
  <2> SUFFICES ASSUME Equal(s, t, TRUE) PROVE s = t
    OBVIOUS
  <2>1. n = m /\ \A i \in 1 .. n : s[i] = t[i]
    BY <1>1 DEF Equal, Same, n, m
  <2>2. QED
    BY <1>1, <2>1
<1>3. 1 .. n = 1 .. m => n = m
  BY <1>1
<1>4. Equal(s, t, FALSE) <=> n = m /\ \A i \in 1 .. n : Same(s[i], t[i], FALSE)
  BY <1>1 DEF Equal, n, m
<1>5. ASSUME n = m, NEW i \in 1 .. n
      PROVE  /\ Same(s[i], t[i], FALSE) <=> cl_fast_lower(s[i]) = cl_fast_lower(t[i])
             /\ Same(s[i], t[i], FALSE) <=> cl_fast_upper(s[i]) = cl_fast_upper(t[i])
  <2>1. s[i] \in Byte /\ t[i] \in Byte
    BY <1>1, <1>5
  <2>2. QED
    BY <2>1, WeightTells DEF Same
<1>6. /\ DOMAIN to_lower(s) = 1 .. n /\ DOMAIN to_lower(t) = 1 .. m
      /\ DOMAIN to_upper(s) = 1 .. n /\ DOMAIN to_upper(t) = 1 .. m
      /\ \A i \in 1 .. n : /\ to_lower(s)[i] = cl_fast_lower(s[i])
                           /\ to_upper(s)[i] = cl_fast_upper(s[i])
      /\ \A i \in 1 .. m : /\ to_lower(t)[i] = cl_fast_lower(t[i])
                           /\ to_upper(t)[i] = cl_fast_upper(t[i])
  BY <1>1 DEF to_lower, to_upper
<1>7. /\ to_lower(s) = [i \in 1 .. n |-> cl_fast_lower(s[i])]
      /\ to_lower(t) = [i \in 1 .. m |-> cl_fast_lower(t[i])]
      /\ to_upper(s) = [i \in 1 .. n |-> cl_fast_upper(s[i])]
      /\ to_upper(t) = [i \in 1 .. m |-> cl_fast_upper(t[i])]
  BY <1>1 DEF to_lower, to_upper
<1>8. Equal(s, t, FALSE) <=> to_lower(s) = to_lower(t)
  <2>1. ASSUME to_lower(s) = to_lower(t) PROVE Equal(s, t, FALSE)
    <3>1. n = m
      BY <1>3, <1>6, <2>1
    <3>2. \A i \in 1 .. n : cl_fast_lower(s[i]) = cl_fast_lower(t[i])
      BY <1>6, <2>1, <3>1
    <3>3. QED
      BY <1>4, <1>5, <3>1, <3>2
  <2>2. ASSUME Equal(s, t, FALSE) PROVE to_lower(s) = to_lower(t)
    <3>1. n = m /\ \A i \in 1 .. n : cl_fast_lower(s[i]) = cl_fast_lower(t[i])
      BY <1>4, <1>5, <2>2
    <3>2. QED
      BY <1>7, <3>1
  <2>3. QED
    BY <2>1, <2>2
<1>9. Equal(s, t, FALSE) <=> to_upper(s) = to_upper(t)
  <2>1. ASSUME to_upper(s) = to_upper(t) PROVE Equal(s, t, FALSE)
    <3>1. n = m
      BY <1>3, <1>6, <2>1
    <3>2. \A i \in 1 .. n : cl_fast_upper(s[i]) = cl_fast_upper(t[i])
      BY <1>6, <2>1, <3>1
    <3>3. QED
      BY <1>4, <1>5, <3>1, <3>2
  <2>2. ASSUME Equal(s, t, FALSE) PROVE to_upper(s) = to_upper(t)
    <3>1. n = m /\ \A i \in 1 .. n : cl_fast_upper(s[i]) = cl_fast_upper(t[i])
      BY <1>4, <1>5, <2>2
    <3>2. QED
      BY <1>7, <3>1
  <2>3. QED
    BY <2>1, <2>2
<1>10. to_lower(to_lower(s)) = to_lower(s) /\ to_lower(to_upper(s)) = to_lower(s)
  <2>1. /\ to_lower(to_lower(s)) = [i \in 1 .. n |-> cl_fast_lower(to_lower(s)[i])]
        /\ to_lower(to_upper(s)) = [i \in 1 .. n |-> cl_fast_lower(to_upper(s)[i])]
    <3>1. \A u : to_lower(u) = [i \in DOMAIN u |-> cl_fast_lower(u[i])]
      BY DEF to_lower
    <3>2. QED
      BY <1>6, <3>1
  <2>2. \A i \in 1 .. n : /\ cl_fast_lower(to_lower(s)[i]) = cl_fast_lower(s[i])
                          /\ cl_fast_lower(to_upper(s)[i]) = cl_fast_lower(s[i])
    BY <1>1, <1>6, WeightTells
  <2>3. QED
    BY <1>7, <2>1, <2>2
<1>11. QED
  BY <1>2, <1>8, <1>9, <1>10

\* hash and hash_i, to_lower and to_upper of any texts
\* (st_string.h:2384-2412, 2553-2605).
THEOREM HashesAgree == Spec => []HashesFollowEquality
<1>1. Answered => HashesFollowEquality
  <2> SUFFICES ASSUME Answered, phase = "done", job.call \in {"hash", "to_upper", "to_lower"}
               PROVE  HashesFollowEquality
    BY DEF HashesFollowEquality, Done
  <2>1. CASE job.call = "hash"
    <3>1. job \in OrderJobs /\ found = hash(job.text, job.cs)
      BY <2>1 DEF Answered, OrderCalls
    <3>2. job.text \in Seq(Byte) /\ job.cs \in BOOLEAN
      BY <3>1, OrderJobFacts
    <3>3. ASSUME NEW t \in Words, InInt(job.text, t), compare(job.text, t, job.cs) = 0
          PROVE  hash(t, job.cs) = found
      <4>1. t \in Seq(Byte)
        BY TextAssumption
      <4>2. Equal(job.text, t, job.cs)
        BY <3>2, <3>3, <4>1, CompareIs
      <4>3. CASE job.cs = TRUE
        <5>1. job.text = t
          BY <3>2, <4>1, <4>2, <4>3, CaseForgets
        <5>2. QED
          BY <3>1, <5>1
      <4>4. CASE job.cs = FALSE
        <5>1. Equal(job.text, t, FALSE)
          BY <4>2, <4>4
        <5>2. to_lower(job.text) = to_lower(t)
          BY <3>2, <4>1, <5>1, CaseForgets
        <5>3. QED
          BY <3>1, <4>4, <5>2 DEF hash
      <4>5. QED
        BY <3>2, <4>3, <4>4
    <3>4. QED
      BY <2>1, <3>3 DEF HashesFollowEquality, Done
  <2>2. CASE job.call \in {"to_upper", "to_lower"}
    <3>1. job \in CaseJobs /\ answer = Answer(job)
      BY <2>2 DEF Answered, AskCalls, CutJobs, SepJobs
    <3>2. job.text \in Seq(Byte)
      BY <3>1, TextAssumption DEF CaseJobs
    <3>3. answer = IF job.call = "to_lower" THEN to_lower(job.text) ELSE to_upper(job.text)
      BY <2>2, <3>1 DEF Answer
    <3>4. ASSUME NEW t \in Words, InInt(job.text, t)
          PROVE  compare(job.text, t, FALSE) = 0 <=>
                   answer = IF job.call = "to_lower" THEN to_lower(t) ELSE to_upper(t)
      <4>1. t \in Seq(Byte)
        BY TextAssumption
      <4>2. compare(job.text, t, FALSE) = 0 <=> Equal(job.text, t, FALSE)
        BY <3>2, <3>4, <4>1, CompareIs
      <4>3. /\ Equal(job.text, t, FALSE) <=> to_lower(job.text) = to_lower(t)
            /\ Equal(job.text, t, FALSE) <=> to_upper(job.text) = to_upper(t)
        <5>1. PICK s \in Seq(Byte) : s = job.text
          BY <3>2
        <5>2. /\ Equal(s, t, FALSE) <=> to_lower(s) = to_lower(t)
              /\ Equal(s, t, FALSE) <=> to_upper(s) = to_upper(t)
          BY ONLY CaseForgets, s \in Seq(Byte), <4>1
        <5>3. QED
          BY <5>1, <5>2
      <4>4. CASE job.call = "to_lower"
        BY <3>3, <4>2, <4>3, <4>4
      <4>5. CASE job.call # "to_lower"
        BY <3>3, <4>2, <4>3, <4>5
      <4>6. QED
        BY <4>4, <4>5
    <3>5. hash(answer, FALSE) = hash(job.text, FALSE)
      <4>1. to_lower(answer) = to_lower(job.text)
        BY <3>2, <3>3, CaseForgets
      <4>2. QED
        BY <4>1 DEF hash
    <3>6. QED
      BY <2>2, <3>4, <3>5 DEF HashesFollowEquality, Done
  <2>3. QED
    BY <2>1, <2>2
<1>2. QED
  BY <1>1, AnswersHold, PTL

-----------------------------------------------------------------------------
(* What replace makes of a text. *)

\* The recursion of Rewritten is one: it goes towards the end of the text.
LEMMA RewrittenIs ==
  ASSUME NEW t \in Seq(Byte), NEW from \in Seq(Byte), NEW to \in Seq(Byte), NEW cs
  PROVE  /\ Rewritten(t, from, to, cs) \in [0 .. Len(t) -> Seq(Byte)]
         /\ \A p \in 0 .. Len(t) :
              LET q == Lowest(Occurrences(t, from, cs, p, Len(t)))
              IN  Rewritten(t, from, to, cs)[p] =
                    IF q = -1 THEN SubSeq(t, p + 1, Len(t))
                    ELSE SubSeq(t, p + 1, q) \o to \o Rewritten(t, from, to, cs)[q + Len(from)]
<1> DEFINE n == Len(t)
           a == Len(from)
           Q(p) == Lowest(Occurrences(t, from, cs, p, n))
           B(g, p) == IF Q(p) = -1 THEN SubSeq(t, p + 1, n)
                      ELSE SubSeq(t, p + 1, Q(p)) \o to \o g[Q(p) + a]
           F(g) == [p \in 0 .. n |-> B(g, p)]
           rest == CHOOSE g : g = F(g)
           \* A solution from n - k on.
           Solves(g, k) == /\ g \in [n - k .. n -> Seq(Byte)]
                           /\ \A p \in n - k .. n : g[p] = B(g, p)
           wrong == {k \in Nat : k <= n /\ ~ \E g : Solves(g, k)}
<1>1. n \in Nat /\ a \in Nat /\ (from # <<>> => a > 0)
  BY TextFacts
<1>2. ASSUME NEW p \in 0 .. n
      PROVE  Q(p) = -1 \/ (Q(p) \in p .. n /\ Q(p) + a \in p + 1 .. n)
  <2>1. /\ Occurrences(t, from, cs, p, n) \in SUBSET (0 .. n)
        /\ \A q \in Occurrences(t, from, cs, p, n) :
             q \in Nat /\ p <= q /\ q + a <= n /\ from # <<>>
    <3>1. p \in Nat /\ Len(t) \in 0 .. Len(t)
      BY <1>1
    <3>2. QED
      BY <3>1, PlacesIn
  <2> DEFINE O == Occurrences(t, from, cs, p, n)
  <2> HIDE DEF O
  <2>2. Lowest(O) = -1 \/ Lowest(O) \in O
    <3>1. O \in SUBSET (0 .. n)
      BY <2>1 DEF O
    <3> HIDE DEF n
    <3>2. QED
      BY <1>1, <3>1, EndsFacts
  <2> DEFINE q == Lowest(O)
  <2> HIDE DEF q, n, a
  <2>3. q = -1 \/ (q \in Nat /\ p <= q /\ q + a <= n /\ a > 0)
    BY <1>1, <2>1, <2>2 DEF O, q
  <2>4. q = -1 \/ (q \in p .. n /\ q + a \in p + 1 .. n)
    BY <1>1, <2>3
  <2>5. QED
    BY <2>4 DEF q, O, n
<1> HIDE DEF n, a, Q
<1>3. ASSUME NEW p \in 0 .. n, NEW g, Q(p) # -1 => g[Q(p) + a] \in Seq(Byte)
      PROVE  B(g, p) \in Seq(Byte)
  <2>1. CASE Q(p) = -1
    <3>1. SubSeq(t, p + 1, n) \in Seq(Byte)
      BY <1>1, Piece DEF n
    <3>2. QED
      BY <2>1, <3>1
  <2>2. CASE Q(p) # -1
    <3>1. Q(p) \in p .. n
      BY <1>2, <2>2
    <3>2. SubSeq(t, p + 1, Q(p)) \in Seq(Byte)
      <4>1. PICK q \in p .. n : q = Q(p)
        BY <3>1
      <4>2. SubSeq(t, p + 1, q) \in Seq(Byte)
        <5>1. q <= n /\ q \in p .. Len(t) /\ p \in 0 .. Len(t) /\ Len(t) \in Nat
          BY <1>1 DEF n
        <5>2. QED
          BY <5>1, Piece
      <4>3. QED
        BY <4>1, <4>2
    <3>3. SubSeq(t, p + 1, Q(p)) \o to \in Seq(Byte)
      BY <3>2, Joined2
    <3>4. SubSeq(t, p + 1, Q(p)) \o to \o g[Q(p) + a] \in Seq(Byte)
      BY <1>3, <2>2, <3>3, Joined2
    <3>5. QED
      BY <2>2, <3>4
  <2>3. QED
    BY <2>1, <2>2
<1> HIDE DEF B
<1>4. wrong = {}
  <2> SUFFICES ASSUME wrong # {} PROVE FALSE
    OBVIOUS
  <2>1. PICK k \in wrong : \A y \in wrong : k <= y
    <3>1. wrong \in SUBSET Nat
      OBVIOUS
    <3> HIDE DEF wrong
    <3>2. QED
      BY <3>1, MinFacts
  <2>2. k \in Nat /\ k <= n /\ ~ \E g : Solves(g, k)
    OBVIOUS
  <2> DEFINE p == n - k
  <2>3. p \in 0 .. n
    BY <1>1, <2>2
  <2>4. PICK h : /\ h \in [p + 1 .. n -> Seq(Byte)]
                 /\ \A i \in p + 1 .. n : h[i] = B(h, i)
    <3>1. CASE k = 0
      <4>1. p + 1 .. n = {}
        BY <1>1, <3>1
      <4>2. [i \in p + 1 .. n |-> <<>>] \in [p + 1 .. n -> Seq(Byte)]
        BY <4>1
      <4>3. QED
        BY <4>1, <4>2
    <3>2. CASE k # 0
      <4>1. k - 1 \in Nat /\ k - 1 <= n /\ ~(k <= k - 1) /\ n - (k - 1) = p + 1
        BY <1>1, <2>2, <3>2
      <4>2. k - 1 \notin wrong
        BY <2>1, <4>1
      <4>3. \E g : Solves(g, k - 1)
        BY <4>1, <4>2
      <4> HIDE DEF p
      <4>4. QED
        BY <4>1, <4>3
    <3>3. QED
      BY <3>1, <3>2
  <2> DEFINE g == [i \in p .. n |-> IF i = p THEN B(h, p) ELSE h[i]]
  <2>5. \A i \in p .. n : i \in 0 .. n /\ (i # p => i \in p + 1 .. n)
    BY <1>1, <2>3
  <2> HIDE DEF p
  <2>6. \A i \in p .. n : Q(i) # -1 => /\ Q(i) + a \in p + 1 .. n
                                       /\ Q(i) + a \in p .. n /\ Q(i) + a # p
    <3> SUFFICES ASSUME NEW i \in p .. n, Q(i) # -1
                 PROVE  Q(i) + a \in p + 1 .. n /\ Q(i) + a \in p .. n /\ Q(i) + a # p
      OBVIOUS
    <3>1. Q(i) + a \in i + 1 .. n
      BY <1>2, <2>5
    <3>2. PICK x \in i + 1 .. n : x = Q(i) + a
      BY <3>1
    <3>3. x \in p + 1 .. n /\ x \in p .. n /\ x # p
      BY <1>1, <2>3, <3>2
    <3>4. QED
      BY <3>2, <3>3
  <2>7. \A i \in p .. n : Q(i) # -1 => g[Q(i) + a] = h[Q(i) + a]
    BY <2>6
  <2>8. ASSUME NEW i \in p .. n PROVE B(g, i) = B(h, i)
    <3>1. Q(i) # -1 => g[Q(i) + a] = h[Q(i) + a]
      BY <2>7
    <3> HIDE DEF g
    <3>2. QED
      BY <3>1 DEF B
  <2>9. \A i \in p .. n : g[i] = B(h, i)
    <3> SUFFICES ASSUME NEW i \in p .. n PROVE g[i] = B(h, i)
      OBVIOUS
    <3>1. CASE i = p
      BY <3>1
    <3>2. CASE i # p
      BY <2>4, <2>5, <3>2
    <3>3. QED
      BY <3>1, <3>2
  <2>10. g \in [p .. n -> Seq(Byte)]
    <3>1. \A i \in p .. n : B(h, i) \in Seq(Byte)
      <4> SUFFICES ASSUME NEW i \in p .. n PROVE B(h, i) \in Seq(Byte)
        OBVIOUS
      <4>1. Q(i) # -1 => h[Q(i) + a] \in Seq(Byte)
        BY <2>4, <2>6
      <4>2. QED
        BY <1>3, <2>5, <4>1
    <3>2. \A i \in p .. n : g[i] \in Seq(Byte)
      BY <2>9, <3>1
    <3> DEFINE gg == g
    <3>3. g = [i \in p .. n |-> g[i]]
      OBVIOUS
    <3> HIDE DEF g
    <3>4. QED
      BY <3>2, <3>3
  <2> HIDE DEF g
  <2>11. Solves(g, k)
    BY <2>8, <2>9, <2>10 DEF p
  <2>12. QED
    BY <2>2, <2>11
<1>5. PICK g : Solves(g, n)
  <2>1. n \notin wrong
    <3> HIDE DEF wrong
    <3>1. QED
      BY <1>4
  <2> HIDE DEF Solves
  <2>2. n \in Nat /\ n <= n
    BY <1>1
  <2>3. QED
    BY <2>1, <2>2
<1>6. g \in [0 .. n -> Seq(Byte)] /\ \A p \in 0 .. n : g[p] = B(g, p)
  <2>1. n - n = 0
    BY <1>1
  <2>2. QED
    BY <1>5, <2>1
<1>7. g = F(g)
  BY <1>6
<1>8. rest = F(rest)
  <2> HIDE DEF F
  <2>1. QED
    BY <1>7
<1> HIDE DEF rest
<1>9. \A p \in 0 .. n : rest[p] = B(rest, p)
  BY <1>8
<1> DEFINE off == {k \in Nat : k <= n /\ rest[n - k] \notin Seq(Byte)}
<1>10. off = {}
  <2> SUFFICES ASSUME off # {} PROVE FALSE
    OBVIOUS
  <2>1. PICK k \in off : \A y \in off : k <= y
    <3>1. off \in SUBSET Nat
      OBVIOUS
    <3> HIDE DEF off
    <3>2. QED
      BY <3>1, MinFacts
  <2>2. k \in Nat /\ k <= n /\ n - k \in 0 .. n /\ rest[n - k] \notin Seq(Byte)
    BY <1>1
  <2> DEFINE p == n - k
  <2>3. Q(p) # -1 => rest[Q(p) + a] \in Seq(Byte)
    <3> SUFFICES ASSUME Q(p) # -1 PROVE rest[Q(p) + a] \in Seq(Byte)
      OBVIOUS
    <3>1. Q(p) + a \in p + 1 .. n
      BY <1>2, <2>2
    <3>2. PICK x \in p + 1 .. n : x = Q(p) + a
      BY <3>1
    <3>3. n - x \in Nat /\ n - x <= n /\ ~(k <= n - x) /\ n - (n - x) = x
      BY SMTT(30), <1>1, <2>2, <3>2
    <3>4. n - x \notin off
      BY <2>1, <3>3
    <3> HIDE DEF p
    <3>5. rest[x] \in Seq(Byte)
      BY <3>3, <3>4
    <3>6. QED
      BY <3>2, <3>5
  <2>4. B(rest, p) \in Seq(Byte)
    <3> HIDE DEF p
    <3>1. QED
      BY <1>3, <2>2, <2>3 DEF p
  <2>5. QED
    BY <1>9, <2>2, <2>4
<1>11. ASSUME NEW p \in 0 .. n PROVE rest[p] \in Seq(Byte)
  <2>1. n - p \in Nat /\ n - p <= n /\ n - (n - p) = p
    BY <1>1
  <2>2. n - p \notin off
    <3> HIDE DEF off
    <3>1. QED
      BY <1>10
  <2>3. QED
    BY <2>1, <2>2
<1>12. rest \in [0 .. n -> Seq(Byte)]
  <2>1. rest = [p \in 0 .. n |-> rest[p]]
    BY <1>8
  <2> HIDE DEF off
  <2>2. QED
    BY <1>11, <2>1
<1>13. Rewritten(t, from, to, cs) = rest
  BY DEF Rewritten, rest, F, B, Q, n, a
<1>14. QED
  BY <1>9, <1>12, <1>13 DEF B, Q, n, a

\* What replace has written and what is still to come.
Rest == Rewritten(job.text, job.arg, job.to, job.cs)

Replacing ==
  /\ phase = "write" => answer \o Rest[next] = Rest[0]
  /\ phase = "done" /\ job.call = "replace" => answer = Rest[0]

\* What is to come at a place of the text, for the calls of replace.
LEMMA RestIs ==
  ASSUME NEW j \in ReplaceJobs
  PROVE  LET rest == Rewritten(j.text, j.arg, j.to, j.cs)
         IN  /\ \A p \in 0 .. Len(j.text) : rest[p] \in Seq(Byte)
             /\ \A p \in 0 .. Len(j.text) :
                  LET q == Lowest(Occurrences(j.text, j.arg, j.cs, p, Len(j.text)))
                  IN  rest[p] = IF q = -1 THEN SubSeq(j.text, p + 1, Len(j.text))
                                ELSE SubSeq(j.text, p + 1, q) \o j.to \o rest[q + Len(j.arg)]
<1> DEFINE rest == Rewritten(j.text, j.arg, j.to, j.cs)
<1>1. j.text \in Seq(Byte) /\ j.arg \in Seq(Byte) /\ j.to \in Seq(Byte)
  BY ReplaceFacts
<1>2. /\ rest \in [0 .. Len(j.text) -> Seq(Byte)]
      /\ \A p \in 0 .. Len(j.text) :
           LET q == Lowest(Occurrences(j.text, j.arg, j.cs, p, Len(j.text)))
           IN  rest[p] = IF q = -1 THEN SubSeq(j.text, p + 1, Len(j.text))
                         ELSE SubSeq(j.text, p + 1, q) \o j.to \o rest[q + Len(j.arg)]
  BY <1>1, RewrittenIs
<1> HIDE DEF rest
<1>3. \A p \in 0 .. Len(j.text) : rest[p] \in Seq(Byte)
  BY <1>2
<1>4. QED
  BY <1>2, <1>3 DEF rest

\* A call that has nothing to replace has the text for its answer, and one
\* that begins has all of it to come.
LEMMA CallReplaceReplacing ==
  ASSUME SCInv, NEW j \in ReplaceJobs, CallReplace(j)
  PROVE  Replacing'
<1> DEFINE t == j.text  rest == Rewritten(j.text, j.arg, j.to, j.cs)
<1>1. /\ t \in Seq(Byte) /\ j.arg \in Seq(Byte) /\ Len(t) \in Nat /\ 0 \in 0 .. Len(t)
      /\ Len(t) \in 0 .. Len(t)
  BY ReplaceFacts
<1>2. job' = j /\ next' = 0 /\ Rest' = rest
  BY DEF CallReplace, SCInv, Rest
<1>3. rest[0] \in Seq(Byte)
  BY <1>1, RestIs
<1>4. CASE t = <<>> \/ j.arg = <<>>
  <2>1. phase' = "done" /\ answer' = t
    BY <1>4 DEF CallReplace
  <2>2. Occurrences(t, j.arg, j.cs, 0, Len(t)) = {}
    <3>1. CASE j.arg = <<>>
      BY <3>1 DEF Occurrences
    <3>2. CASE t = <<>> /\ j.arg # <<>>
      <4>1. Len(t) = 0 /\ Len(j.arg) \in Nat /\ Len(j.arg) > 0
        BY <1>1, <3>2, TextFacts
      <4>2. 0 .. Len(t) - Len(j.arg) = {}
        BY <4>1
      <4>3. QED
        BY <4>2 DEF Occurrences
    <3>3. QED
      BY <1>4, <3>1, <3>2
  <2>3. Lowest(Occurrences(t, j.arg, j.cs, 0, Len(t))) = -1
    BY <2>2 DEF Lowest
  <2>4. rest[0] = SubSeq(t, 0 + 1, Len(t))
    BY <1>1, <2>3, RestIs
  <2>5. rest[0] = t
    BY <1>1, <2>4, WholePiece
  <2>6. QED
    BY <1>2, <2>1, <2>5 DEF Replacing
<1>5. CASE ~(t = <<>> \/ j.arg = <<>>)
  <2>1. phase' \in {"measure", "write"} /\ answer' = <<>>
    BY <1>5 DEF CallReplace, SCInv
  <2>2. <<>> \o rest[0] = rest[0]
    BY <1>3, ConcatEmptySeq
  <2>3. QED
    BY <1>2, <2>1, <2>2 DEF Replacing
<1>6. QED
  BY <1>4, <1>5

\* It does not matter in which order texts are put together.
LEMMA Associative ==
  ASSUME NEW a \in Seq(Byte), NEW s \in Seq(Byte), NEW u \in Seq(Byte)
  PROVE  (a \o s) \o u = a \o (s \o u)
  BY ConcatAssociative

\* Two texts put together.
Cat(s, t) == s \o t

\* Four texts may be put together from the left, or the last two first.
LEMMA Regrouped ==
  ASSUME NEW a \in Seq(Byte), NEW s \in Seq(Byte), NEW u \in Seq(Byte), NEW r \in Seq(Byte)
  PROVE  Cat(Cat(Cat(a, s), u), r) = Cat(a, Cat(Cat(s, u), r))
<1>1. \A x, y, z \in Seq(Byte) : Cat(Cat(x, y), z) = Cat(x, Cat(y, z))
  BY Associative DEF Cat
<1>2. Cat(s, u) \in Seq(Byte)
  BY Joined2 DEF Cat
<1>3. QED
  BY <1>1, <1>2

\* Each match takes its replacement from what is to come.
LEMMA WriteReplacing ==
  ASSUME SCInv, Replacing, WriteMatch \/ WriteRest
  PROVE  Replacing'
<1> DEFINE t == job.text
<1>1. /\ job \in ReplaceJobs /\ phase = "write" /\ next \in 0 .. Len(t)
      /\ answer \in Seq(Byte) /\ job.arg # <<>>
  BY DEF SCInv, WriteMatch, WriteRest
<1>2. /\ t \in Seq(Byte) /\ job.arg \in Seq(Byte) /\ job.to \in Seq(Byte) /\ Len(t) \in Nat
      /\ Len(t) \in 0 .. Len(t)
  BY <1>1, ReplaceFacts
<1>3. Found = Lowest(Occurrences(t, job.arg, job.cs, next, Len(t)))
  BY SMTT(30), <1>1, <1>2, FindInIsLowest DEF Found
<1>4. Rest[next] = IF Found = -1 THEN SubSeq(t, next + 1, Len(t))
                   ELSE SubSeq(t, next + 1, Found) \o job.to \o Rest[Found + Len(job.arg)]
  BY <1>1, <1>3, RestIs DEF Rest
<1>5. answer \o Rest[next] = Rest[0] /\ Rest' = Rest
  BY <1>1 DEF Replacing, Rest, WriteMatch, WriteRest
<1>6. CASE WriteMatch
  <2>1. Found # -1
    BY <1>6 DEF WriteMatch
  <2>2. PICK q \in next .. Len(t) : q = Found /\ q + Len(job.arg) \in 0 .. Len(t)
    <3>1. /\ find_in(t, next, Len(t), job.arg, job.cs) \in next .. Len(t)
          /\ find_in(t, next, Len(t), job.arg, job.cs) + Len(job.arg) <= Len(t)
      BY <1>1, <1>2, <2>1, FindInFacts DEF Found
    <3>2. Len(job.arg) \in Nat
      BY <1>1, ReplaceFacts
    <3>3. QED
      BY <1>1, <1>2, <3>1, <3>2 DEF Found
  <2> DEFINE s == SubSeq(t, next + 1, Found)
             r == Rest[Found + Len(job.arg)]
  <2>3. s \in Seq(Byte)
    BY <1>1, <1>2, <2>2, Piece
  <2>4. r \in Seq(Byte)
    BY <1>1, <2>2, RestIs DEF Rest
  <2>5. answer' = answer \o s \o job.to /\ next' = Found + Len(job.arg) /\ phase' = "write"
    BY <1>1, <1>6 DEF WriteMatch
  <2> HIDE DEF s, r
  <2>6. Cat(Cat(Cat(answer, s), job.to), r) = Cat(answer, Cat(Cat(s, job.to), r))
    BY <1>1, <1>2, <2>3, <2>4, Regrouped
  <2>7. answer' \o r = answer \o Rest[next]
    <3>1. answer' = Cat(Cat(answer, s), job.to)
      BY <2>5 DEF Cat
    <3>2. Rest[next] = Cat(Cat(s, job.to), r)
      BY <1>4, <2>1 DEF Cat, s, r
    <3>3. Cat(answer', r) = Cat(answer, Rest[next])
      BY <2>6, <3>1, <3>2
    <3>4. QED
      BY <3>3 DEF Cat
  <2>8. Rest'[next'] = r
    BY <1>5, <2>5 DEF r
  <2>9. QED
    BY <1>5, <2>5, <2>7, <2>8 DEF Replacing
<1>7. CASE WriteRest
  <2>1. Found = -1 /\ phase' = "done" /\ answer' = answer \o SubSeq(t, next + 1, Len(t))
    BY <1>7 DEF WriteRest
  <2>2. answer' = Rest[0]
    BY <1>4, <1>5, <2>1
  <2>3. QED
    BY <1>5, <2>1, <2>2 DEF Replacing
<1>8. QED
  BY <1>6, <1>7

\* Every step keeps what was said of replace.
LEMMA NextReplacing == SCInv /\ Replacing /\ [Next]_vars => Replacing'
<1> SUFFICES ASSUME SCInv, Replacing, [Next]_vars PROVE Replacing'
  OBVIOUS
<1>1. ASSUME NEW j \in FindJobs, Find(j) PROVE Replacing'
  BY <1>1, CallsApart DEF Find, Replacing
<1>2. ASSUME NEW j \in CutJobs \cup SepJobs \cup CaseJobs, Ask(j) PROVE Replacing'
  BY <1>2, CallsApart DEF Ask, Replacing
<1>3. ASSUME NEW j \in OrderJobs, Order(j) PROVE Replacing'
  BY <1>3, CallsApart DEF Order, Replacing
<1>4. ASSUME NEW j \in ReplaceJobs, CallReplace(j) PROVE Replacing'
  BY <1>4, CallReplaceReplacing
<1>5. ASSUME NEW j \in SplitJobs \cup TokenJobs, CallPieces(j) PROVE Replacing'
  BY <1>5 DEF CallPieces, Replacing
<1>6. CASE MeasureMatch \/ SplitOne \/ Token \/ Return
  BY <1>6 DEF MeasureMatch, SplitOne, Token, Return, Replacing
<1>7. CASE Allocate
  <2>1. job \in ReplaceJobs /\ answer = <<>> /\ answer' = <<>> /\ next' = 0 /\ phase' = "write"
        /\ Rest' = Rest
    BY <1>7 DEF Allocate, SCInv, Rest
  <2>2. Len(job.text) \in Nat /\ 0 \in 0 .. Len(job.text)
    BY <2>1, ReplaceFacts
  <2>3. Rest[0] \in Seq(Byte)
    BY <2>1, <2>2, RestIs DEF Rest
  <2>4. <<>> \o Rest[0] = Rest[0]
    BY <2>3, ConcatEmptySeq
  <2>5. QED
    BY <2>1, <2>4 DEF Replacing
<1>8. CASE WriteMatch \/ WriteRest
  BY <1>8, WriteReplacing
<1>9. CASE SplitRest \/ TokensDone
  <2>1. job' = job /\ job \in SplitJobs \cup TokenJobs /\ phase' = "done"
    BY <1>9 DEF SplitRest, TokensDone, SCInv
  <2>2. job.call # "replace"
    BY <2>1 DEF SplitJobs, TokenJobs
  <2>3. QED
    BY <2>1, <2>2 DEF Replacing
<1>10. CASE UNCHANGED vars
  BY <1>10 DEF vars, Replacing, Rest
<1>11. QED
  BY <1>1, <1>2, <1>3, <1>4, <1>5, <1>6, <1>7, <1>8, <1>9, <1>10 DEF Next

\* The text replace answers has each match replaced that is not within the one
\* before, and nothing else, for all texts, needles and replacements
\* (st_string.h:2275-2334).
THEOREM MatchesReplaced == Spec => []ReplacesAll
<1>1. Init => Replacing
  BY DEF Init, Replacing
<1>2. Replacing => ReplacesAll
  BY DEF Replacing, ReplacesAll, Done, Rest
<1>3. QED
  BY <1>1, <1>2, NextReplacing, SCInvHolds, PTL DEF Spec


-----------------------------------------------------------------------------
(* What split and tokenize collect. *)

\* A vector with a piece more.
LEMMA PieceAdded ==
  ASSUME NEW ps \in Seq(Seq(Byte)), NEW s \in Seq(Byte)
  PROVE  /\ Append(ps, s) \in Seq(Seq(Byte))
         /\ Len(ps) \in Nat /\ Len(Append(ps, s)) = Len(ps) + 1
         /\ \A i \in 1 .. Len(ps) : Append(ps, s)[i] = ps[i]
         /\ Append(ps, s)[Len(ps) + 1] = s
<1> DEFINE T == Seq(Byte)
<1> HIDE DEF T
<1>1. ps \in Seq(T) /\ s \in T
  BY DEF T
<1>2. Append(ps, s) \in Seq(T) /\ Len(ps) \in Nat /\ Len(Append(ps, s)) = Len(ps) + 1
      /\ Append(ps, s)[Len(ps) + 1] = s
      /\ \A i \in 1 .. Len(ps) : Append(ps, s)[i] = ps[i]
  BY <1>1, AppendProperties, LenProperties
<1>3. QED
  BY <1>2 DEF T

\* An empty splitter in a text with a NUL.
Odd == Splitter = <<>> /\ \E i \in DOMAIN job.text : job.text[i] = NUL

\* What is there of the pieces of split: where each of them begins, and what
\* comes behind the last.
SplitUpTo(at) ==
  /\ at \in [1 .. Len(pieces) + 1 -> 0 .. Len(job.text)]
  /\ at[1] = 0
  /\ \A i \in 1 .. Len(pieces) :
       LET upto == at[i] + Len(pieces[i]) IN
       /\ upto <= Len(job.text)
       /\ pieces[i] = SubSeq(job.text, at[i] + 1, upto)
       /\ Lowest(Occurrences(job.text, Splitter, job.cs, at[i], Len(job.text))) = upto
       /\ at[i + 1] = upto + Len(Splitter)

Splitting ==
  /\ pieces \in Seq(Seq(Byte))
  /\ phase = "idle" => pieces = <<>>
  /\ phase = "collect" /\ job.call = "split" =>
       /\ size \in Nat /\ size + Len(pieces) = job.n
       /\ ~Odd => \E at : SplitUpTo(at) /\ at[Len(pieces) + 1] = next
  /\ SplitsBack

\* Where split cuts next.
LEMMA SplitAtIs ==
  ASSUME SCInv, phase = "collect", job.call = "split"
  PROVE  /\ job \in SplitJobs /\ job.text \in Seq(Byte) /\ Len(job.text) \in Nat
         /\ next \in 0 .. Len(job.text) /\ Splitter \in Seq(Byte) /\ Len(Splitter) \in Nat
         /\ SplitAt # -1 => SplitAt \in next .. Len(job.text)
                            /\ SplitAt + Len(Splitter) \in 0 .. Len(job.text)
         /\ ~Odd => SplitAt =
                      Lowest(Occurrences(job.text, Splitter, job.cs, next, Len(job.text)))
<1> DEFINE t == job.text  sep == Splitter
<1>1. /\ job \in SplitJobs \cup TokenJobs /\ Len(t) \in Nat /\ next \in 0 .. Len(t)
      /\ job.arg \in Seq(Byte)
  BY AtCollect
<1>2. job \in SplitJobs /\ t \in Seq(Byte)
  BY <1>1, PiecesFacts DEF TokenJobs
<1>3. sep \in Seq(Byte) /\ Len(sep) \in Nat
  BY <1>1, NeedleFacts, LenProperties DEF Splitter
<1> HIDE DEF sep
<1>4. SplitAt = find_in(t, next, Len(t), sep, job.cs)
  BY DEF SplitAt, sep
<1>5. SplitAt # -1 => SplitAt \in next .. Len(t) /\ SplitAt + Len(sep) \in 0 .. Len(t)
  <2>1. SplitAt = -1 \/ (SplitAt \in next .. Len(t) /\ SplitAt + Len(sep) <= Len(t))
    BY <1>1, <1>3, <1>4, FindInFacts
  <2>2. QED
    BY <1>1, <1>3, <2>1
<1>6. ASSUME ~Odd
      PROVE  SplitAt = Lowest(Occurrences(t, sep, job.cs, next, Len(t)))
  <2>1. CASE sep # <<>>
    <3>1. Len(t) \in 0 .. Len(t)
      BY <1>1
    <3>2. QED
      BY <1>1, <1>2, <1>3, <1>4, <2>1, <3>1, FindInIsLowest
  <2>2. CASE sep = <<>>
    <3>1. \A i \in 1 .. Len(t) : t[i] \in Byte /\ t[i] # NUL
      BY <1>2, <1>6, <2>2, TextFacts DEF Odd, sep
    <3>2. \A i \in 1 .. Len(t) : ~Same(t[i], NUL, job.cs)
      <4>1. ASSUME NEW b \in Byte, b # NUL PROVE ~Same(b, NUL, job.cs)
        BY <4>1 DEF Same, NUL, cl_fast_lower, Byte
      <4>2. QED
        BY <3>1, <4>1
    <3>3. \A p \in next .. Len(t) - 1 : ~Same(t[p + 1], Lead(sep), job.cs)
      <4> SUFFICES ASSUME NEW p \in next .. Len(t) - 1
                   PROVE  ~Same(t[p + 1], Lead(sep), job.cs)
        OBVIOUS
      <4>1. p + 1 \in 1 .. Len(t)
        BY <1>1
      <4>2. QED
        BY <2>2, <3>2, <4>1 DEF Lead
    <3>4. SplitAt = -1
      BY <1>4, <3>3 DEF find_in
    <3>5. QED
      BY <2>2, <3>4 DEF Occurrences, Lowest
  <2>3. QED
    BY <2>1, <2>2
<1>7. QED
  BY <1>1, <1>2, <1>3, <1>5, <1>6 DEF sep

\* split begins with no piece, and the whole of its limit.
LEMMA CallPiecesSplitting ==
  ASSUME SCInv, Splitting, NEW j \in SplitJobs \cup TokenJobs, CallPieces(j)
  PROVE  Splitting'
<1>1. /\ phase = "idle" /\ job' = j /\ phase' = "collect" /\ next' = next /\ pieces' = pieces
      /\ j.call = "split" => size' = j.n
  BY DEF CallPieces
<1>2. next' = 0 /\ pieces' = <<>> /\ pieces' \in Seq(Seq(Byte)) /\ Len(pieces') = 0
  BY <1>1 DEF SCInv, Splitting
<1>3. j.text \in Seq(Byte) /\ Len(j.text) \in Nat
  BY PiecesFacts
<1>4. ~SplitsBack' => FALSE
  BY <1>1 DEF SplitsBack, Done
<1>5. ASSUME j.call = "split"
      PROVE  size' \in Nat /\ size' + Len(pieces') = j.n /\ \E at : SplitUpTo(at)' /\ at[1] = 0
  <2>1. j.n \in Nat
    BY <1>5, PlaceAssumption DEF SplitJobs, TokenJobs
  <2> DEFINE at == [i \in 1 .. 1 |-> 0]
  <2>2. at \in [1 .. 0 + 1 -> 0 .. Len(j.text)] /\ at[1] = 0 /\ 1 .. 0 = {}
    BY <1>3
  <2> HIDE DEF at
  <2>3. SplitUpTo(at)'
    BY <1>1, <1>2, <2>2 DEF SplitUpTo
  <2>4. QED
    BY <1>1, <1>2, <1>5, <2>1, <2>2, <2>3
<1>6. QED
  <2>1. Len(pieces') + 1 = 1
    BY <1>2
  <2>2. QED
    BY <1>1, <1>2, <1>4, <1>5, <2>1 DEF Splitting

\* A piece up to the first splitter.
LEMMA SplitOneSplitting ==
  ASSUME SCInv, Splitting, SplitOne
  PROVE  Splitting'
<1> DEFINE t == job.text  k == Len(pieces)  f == SplitAt
           s == SubSeq(t, next + 1, f)
<1>1. /\ phase = "collect" /\ job.call = "split" /\ size # 0 /\ f # -1
      /\ pieces' = Append(pieces, s) /\ next' = f + Len(Splitter) /\ size' = size - 1
      /\ job' = job /\ phase' = phase
  BY DEF SplitOne
<1>2. /\ t \in Seq(Byte) /\ Len(t) \in Nat /\ next \in 0 .. Len(t)
      /\ Splitter \in Seq(Byte) /\ Len(Splitter) \in Nat
      /\ f \in next .. Len(t) /\ f + Len(Splitter) \in 0 .. Len(t)
      /\ ~Odd => f = Lowest(Occurrences(t, Splitter, job.cs, next, Len(t)))
  BY <1>1, SplitAtIs
<1>3. /\ pieces \in Seq(Seq(Byte)) /\ size \in Nat /\ size + k = job.n
  BY <1>1 DEF Splitting
<1> HIDE DEF f
<1>4. s \in Seq(Byte) /\ Len(s) = f - next
  BY <1>2, Piece
<1> HIDE DEF s
<1>5. /\ pieces' \in Seq(Seq(Byte)) /\ k \in Nat /\ Len(pieces') = k + 1
      /\ \A i \in 1 .. k : pieces'[i] = pieces[i]
      /\ pieces'[k + 1] = s
  BY <1>1, <1>3, <1>4, PieceAdded
<1> HIDE DEF k
<1>6. size' \in Nat /\ size' + (k + 1) = job.n
  BY <1>1, <1>3, <1>5
<1>7. ~SplitsBack' => FALSE
  BY <1>1 DEF SplitsBack, Done
<1>8. ASSUME ~Odd PROVE \E at : SplitUpTo(at)' /\ at[k + 2] = next'
  <2>1. PICK at : SplitUpTo(at) /\ at[k + 1] = next
    BY <1>1, <1>8 DEF Splitting, k
  <2>2. /\ at \in [1 .. k + 1 -> 0 .. Len(t)] /\ at[1] = 0
        /\ \A i \in 1 .. k :
             /\ at[i] + Len(pieces[i]) <= Len(t)
             /\ pieces[i] = SubSeq(t, at[i] + 1, at[i] + Len(pieces[i]))
             /\ Lowest(Occurrences(t, Splitter, job.cs, at[i], Len(t))) = at[i] + Len(pieces[i])
             /\ at[i + 1] = at[i] + Len(pieces[i]) + Len(Splitter)
    BY <2>1 DEF SplitUpTo, k
  <2>3. PICK aa : aa = [i \in 1 .. k + 2 |-> IF i <= k + 1 THEN at[i] ELSE f + Len(Splitter)]
    OBVIOUS
  <2>4. /\ \A i \in 1 .. k + 1 : i \in 1 .. k + 2 /\ i <= k + 1 /\ aa[i] = at[i]
        /\ aa[k + 2] = f + Len(Splitter) /\ 1 \in 1 .. k + 1 /\ k + 1 \in 1 .. k + 1
    BY <1>5, <2>3
  <2>5. aa \in [1 .. (k + 1) + 1 -> 0 .. Len(t)]
    <3>1. (k + 1) + 1 = k + 2
      BY <1>5
    <3>2. ASSUME NEW i \in 1 .. k + 2
          PROVE  (IF i <= k + 1 THEN at[i] ELSE f + Len(Splitter)) \in 0 .. Len(t)
      <4>1. CASE i <= k + 1
        <5>1. i \in 1 .. k + 1
          BY <1>5, <4>1
        <5>2. QED
          BY <2>2, <4>1, <5>1
      <4>2. CASE ~(i <= k + 1)
        BY <1>2, <4>2
      <4>3. QED
        BY <4>1, <4>2
    <3>3. QED
      BY <2>3, <3>1, <3>2
  <2>6. ASSUME NEW i \in 1 .. k + 1
        PROVE  LET upto == aa[i] + Len(pieces'[i]) IN
               /\ upto <= Len(t)
               /\ pieces'[i] = SubSeq(t, aa[i] + 1, upto)
               /\ Lowest(Occurrences(t, Splitter, job.cs, aa[i], Len(t))) = upto
               /\ aa[i + 1] = upto + Len(Splitter)
    <3>1. CASE i = k + 1
      <4>1. aa[i] = next /\ pieces'[i] = s /\ aa[i + 1] = f + Len(Splitter)
        <5>1. i + 1 = k + 2
          BY <1>5, <3>1
        <5>2. QED
          BY <1>5, <2>1, <2>4, <3>1, <5>1
      <4>2. next + Len(s) = f /\ f <= Len(t)
        BY <1>2, <1>4
      <4>3. s = SubSeq(t, next + 1, f) /\ Lowest(Occurrences(t, Splitter, job.cs, next, Len(t))) = f
        BY <1>2, <1>8 DEF s
      <4>4. QED
        BY <4>1, <4>2, <4>3
    <3>2. CASE i # k + 1
      <4>1. i \in 1 .. k /\ i + 1 \in 1 .. k + 1
        BY <1>5, <3>2
      <4>2. aa[i] = at[i] /\ aa[i + 1] = at[i + 1] /\ pieces'[i] = pieces[i]
        BY <1>5, <2>4, <4>1
      <4>3. QED
        BY <2>2, <4>1, <4>2
    <3>3. QED
      BY <3>1, <3>2
  <2>7. Splitter' = Splitter
    BY <1>1 DEF Splitter
  <2>8. aa[1] = 0
    BY <2>2, <2>4
  <2>9. SplitUpTo(aa)'
    BY <1>1, <1>5, <2>5, <2>6, <2>7, <2>8 DEF SplitUpTo
  <2>10. QED
    BY <1>1, <2>4, <2>9
<1>9. Odd' = Odd
  BY <1>1 DEF Odd, Splitter
<1>10. QED
  <2>1. Len(pieces') + 1 = k + 2
    BY <1>5
  <2>2. QED
    BY <1>1, <1>5, <1>6, <1>7, <1>8, <1>9, <2>1 DEF Splitting

\* What is left of the text.
LEMMA SplitRestSplitting ==
  ASSUME SCInv, Splitting, SplitRest
  PROVE  Splitting'
<1> DEFINE t == job.text  k == Len(pieces)
           s == SubSeq(t, next + 1, Len(t))
<1>1. /\ phase = "collect" /\ job.call = "split" /\ (size = 0 \/ SplitAt = -1)
      /\ pieces' = Append(pieces, s) /\ job' = job /\ phase' = "done"
  BY DEF SplitRest
<1>2. /\ t \in Seq(Byte) /\ Len(t) \in Nat /\ next \in 0 .. Len(t)
      /\ ~Odd => SplitAt = Lowest(Occurrences(t, Splitter, job.cs, next, Len(t)))
  BY <1>1, SplitAtIs
<1>3. /\ pieces \in Seq(Seq(Byte)) /\ size \in Nat /\ size + k = job.n
  BY <1>1 DEF Splitting
<1>4. s \in Seq(Byte) /\ Len(s) = Len(t) - next
  <2>1. Len(t) \in next .. Len(t)
    BY <1>2
  <2>2. QED
    BY <1>2, <2>1, Piece
<1> HIDE DEF s
<1>5. /\ pieces' \in Seq(Seq(Byte)) /\ k \in Nat /\ Len(pieces') = k + 1
      /\ \A i \in 1 .. k : pieces'[i] = pieces[i]
      /\ pieces'[k + 1] = s
  BY <1>1, <1>3, <1>4, PieceAdded
<1> HIDE DEF k
<1>6. /\ Odd' = Odd /\ Splitter' = Splitter
  BY <1>1 DEF Odd, Splitter
<1> DEFINE Good(at) ==
             LET m       == Len(pieces')
                 upto(i) == at[i] + Len(pieces'[i])
                 stop(i) == Lowest(Occurrences(t, Splitter, job.cs, at[i], Len(t)))
             IN  /\ m \in 1 .. job.n + 1
                 /\ at[1] = 0 /\ upto(m) = Len(t)
                 /\ \A i \in 1 .. m : /\ upto(i) <= Len(t)
                                      /\ pieces'[i] = SubSeq(t, at[i] + 1, upto(i))
                 /\ \A i \in 1 .. m - 1 : stop(i) = upto(i) /\ at[i + 1] = upto(i) + Len(Splitter)
                 /\ m = job.n + 1 \/ stop(m) = -1
<1>7. ASSUME ~Odd PROVE \E at \in [1 .. Len(pieces') -> 0 .. Len(t)] : Good(at)
  <2>1. PICK at : SplitUpTo(at) /\ at[k + 1] = next
    BY <1>1, <1>7 DEF Splitting, k
  <2>2. /\ at \in [1 .. k + 1 -> 0 .. Len(t)] /\ at[1] = 0
        /\ \A i \in 1 .. k :
             /\ at[i] + Len(pieces[i]) <= Len(t)
             /\ pieces[i] = SubSeq(t, at[i] + 1, at[i] + Len(pieces[i]))
             /\ Lowest(Occurrences(t, Splitter, job.cs, at[i], Len(t))) = at[i] + Len(pieces[i])
             /\ at[i + 1] = at[i] + Len(pieces[i]) + Len(Splitter)
    BY <2>1 DEF SplitUpTo, k
  <2>3. k + 1 \in 1 .. job.n + 1 /\ (k + 1) - 1 = k
    BY <1>3, <1>5
  <2>4. /\ at[k + 1] + Len(pieces'[k + 1]) = Len(t)
        /\ pieces'[k + 1] = SubSeq(t, at[k + 1] + 1, Len(t))
    <3>1. next + Len(s) = Len(t) /\ s = SubSeq(t, next + 1, Len(t))
      BY <1>2, <1>4 DEF s
    <3>2. QED
      BY <1>5, <2>1, <3>1
  <2>5. \A i \in 1 .. k : pieces'[i] = pieces[i]
    BY <1>5
  <2>6. ASSUME NEW i \in 1 .. k + 1
        PROVE  /\ at[i] + Len(pieces'[i]) <= Len(t)
               /\ pieces'[i] = SubSeq(t, at[i] + 1, at[i] + Len(pieces'[i]))
    <3>1. CASE i = k + 1
      <4>1. /\ at[i] + Len(pieces'[i]) = Len(t)
            /\ pieces'[i] = SubSeq(t, at[i] + 1, Len(t))
        BY <2>4, <3>1
      <4>2. Len(t) <= Len(t)
        BY <1>2
      <4>3. QED
        BY <4>1, <4>2
    <3>2. CASE i # k + 1
      <4>1. i \in 1 .. k
        BY <1>5, <3>2
      <4>2. QED
        BY <2>2, <2>5, <4>1
    <3>3. QED
      BY <3>1, <3>2
  <2>7. k + 1 = job.n + 1 \/ Lowest(Occurrences(t, Splitter, job.cs, at[k + 1], Len(t))) = -1
    BY <1>1, <1>2, <1>3, <1>5, <1>7, <2>1
  <2>8. \A i \in 1 .. k :
          /\ Lowest(Occurrences(t, Splitter, job.cs, at[i], Len(t))) = at[i] + Len(pieces'[i])
          /\ at[i + 1] = at[i] + Len(pieces'[i]) + Len(Splitter)
    BY <2>2, <2>5
  <2>9. Good(at)
    BY <1>5, <2>2, <2>3, <2>4, <2>6, <2>7, <2>8
  <2>10. at \in [1 .. Len(pieces') -> 0 .. Len(t)]
    BY <1>5, <2>2
  <2> HIDE DEF Good
  <2>11. QED
    BY <2>9, <2>10
<1>8. SplitsBack'
  BY <1>1, <1>6, <1>7 DEF SplitsBack, Done, Odd
<1>9. QED
  BY <1>1, <1>5, <1>8 DEF Splitting


\* Where the delimiters begin and end, and that there is nothing else between.
LEMMA DelimitersAre ==
  ASSUME Len(job.text) \in Nat, NEW p \in 0 .. Len(job.text)
  PROVE  /\ Delimited(p) \in p .. Len(job.text)
         /\ \A q \in p .. Delimited(p) - 1 : ~In(job.text, q, job.arg)
         /\ Delimited(p) # Len(job.text) => In(job.text, Delimited(p), job.arg)
         /\ Resumed(p) \in p .. Len(job.text)
         /\ \A q \in p .. Resumed(p) - 1 : In(job.text, q, job.arg)
         /\ Resumed(p) # Len(job.text) => ~In(job.text, Resumed(p), job.arg)
<1> DEFINE n == Len(job.text)
           S == {q \in p .. n : q = n \/ In(job.text, q, job.arg)}
           T == {q \in p .. n : q = n \/ ~In(job.text, q, job.arg)}
<1>1. /\ S \in SUBSET Nat /\ T \in SUBSET Nat /\ n \in S /\ n \in T
  OBVIOUS
<1>2. /\ \A q \in p .. n : q \in S <=> q = n \/ In(job.text, q, job.arg)
      /\ \A q \in p .. n : q \in T <=> q = n \/ ~In(job.text, q, job.arg)
      /\ \A q \in S : q \in p .. n
      /\ \A q \in T : q \in p .. n
  OBVIOUS
<1>3. Delimited(p) = Min(S) /\ Resumed(p) = Min(T)
  BY DEF Delimited, Resumed
<1> HIDE DEF S, T
<1>4. /\ Min(S) \in S /\ \A q \in S : Min(S) <= q
      /\ Min(T) \in T /\ \A q \in T : Min(T) <= q
  BY <1>1, MinFacts
<1>5. ASSUME NEW q \in p .. Min(S) - 1 PROVE ~In(job.text, q, job.arg)
  <2>1. Min(S) \in p .. n /\ q \in p .. n /\ ~(Min(S) <= q)
    BY <1>2, <1>4
  <2>2. QED
    BY <1>2, <1>4, <2>1
<1>6. ASSUME NEW q \in p .. Min(T) - 1 PROVE In(job.text, q, job.arg)
  <2>1. Min(T) \in p .. n /\ q \in p .. n /\ ~(Min(T) <= q)
    BY <1>2, <1>4
  <2>2. QED
    BY <1>2, <1>4, <2>1
<1>7. QED
  BY <1>2, <1>3, <1>4, <1>5, <1>6

\* What is there of the tokens: which runs they are, all that begin before the
\* place reached.
TokensUpTo(at) ==
  /\ at \in [1 .. Len(pieces) -> Runs(job.text, job.arg)]
  /\ \A i \in 1 .. Len(pieces) :
       /\ pieces[i] = SubSeq(job.text, at[i][1] + 1, at[i][2])
       /\ at[i][2] < next \/ next = Len(job.text)
  /\ \A i, j \in 1 .. Len(pieces) : i < j => at[i][2] < at[j][1]
  /\ \A pq \in Runs(job.text, job.arg) :
       pq[1] < next => \E i \in 1 .. Len(pieces) : at[i] = pq

Tokening ==
  /\ phase = "collect" /\ job.call = "tokenize" =>
       /\ next = 0 \/ next = Len(job.text) \/ In(job.text, next - 1, job.arg)
       /\ \E at : TokensUpTo(at)
  /\ TokensAreRuns

\* What a run is.
LEMMA RunFacts ==
  ASSUME NEW t \in Seq(Byte), NEW charset, Len(t) \in Nat
  PROVE  /\ \A pq \in Runs(t, charset) :
              /\ pq[1] \in Nat /\ pq[2] \in Nat /\ pq[1] < pq[2] /\ pq[2] <= Len(t)
              /\ \A p \in pq[1] .. pq[2] - 1 : ~In(t, p, charset)
              /\ pq[1] = 0 \/ In(t, pq[1] - 1, charset)
              /\ pq[2] = Len(t) \/ In(t, pq[2], charset)
              /\ pq = <<pq[1], pq[2]>>
         /\ \A p, q \in 0 .. Len(t) :
              /\ p < q
              /\ \A r \in p .. q - 1 : ~In(t, r, charset)
              /\ p = 0 \/ In(t, p - 1, charset)
              /\ q = Len(t) \/ In(t, q, charset)
              => <<p, q>> \in Runs(t, charset)
<1>1. ASSUME NEW pq \in Runs(t, charset)
      PROVE  /\ pq[1] \in Nat /\ pq[2] \in Nat /\ pq[1] < pq[2] /\ pq[2] <= Len(t)
             /\ \A p \in pq[1] .. pq[2] - 1 : ~In(t, p, charset)
             /\ pq[1] = 0 \/ In(t, pq[1] - 1, charset)
             /\ pq[2] = Len(t) \/ In(t, pq[2], charset)
             /\ pq = <<pq[1], pq[2]>>
  BY DEF Runs
<1>2. ASSUME NEW p \in 0 .. Len(t), NEW q \in 0 .. Len(t), p < q,
             \A r \in p .. q - 1 : ~In(t, r, charset),
             p = 0 \/ In(t, p - 1, charset),
             q = Len(t) \/ In(t, q, charset)
      PROVE  <<p, q>> \in Runs(t, charset)
  <2>1. <<p, q>> \in (0 .. Len(t)) \X (0 .. Len(t)) /\ <<p, q>>[1] = p /\ <<p, q>>[2] = q
    OBVIOUS
  <2>2. QED
    BY <1>2, <2>1 DEF Runs
<1>3. QED
  BY <1>1, <1>2

\* A run that begins in one turn of tokenize is the token of that turn.
LEMMA RunOfTurn ==
  ASSUME NEW t \in Seq(Byte), NEW charset, Len(t) \in Nat,
         NEW from \in 0 .. Len(t), from # Len(t), NEW cur \in from .. Len(t),
         NEW to \in cur .. Len(t),
         \A q \in from .. cur - 1 : ~In(t, q, charset),
         cur # Len(t) => In(t, cur, charset),
         \A q \in cur .. to - 1 : In(t, q, charset)
  PROVE  /\ \A pq \in Runs(t, charset) : from <= pq[1] /\ pq[1] < to => pq = <<from, cur>>
         /\ \A pq \in Runs(t, charset) : from <= pq[1] /\ pq[1] < to => cur # from
<1> SUFFICES ASSUME NEW pq \in Runs(t, charset), from <= pq[1], pq[1] < to
             PROVE  pq = <<from, cur>> /\ cur # from
  OBVIOUS
<1>1. PICK p \in Nat, q \in Nat : p = pq[1] /\ q = pq[2] /\ pq = <<p, q>>
  BY RunFacts
<1>2. /\ p < q /\ q <= Len(t) /\ from <= p /\ p < to
      /\ \A r \in p .. q - 1 : ~In(t, r, charset)
      /\ p = 0 \/ In(t, p - 1, charset)
      /\ q = Len(t) \/ In(t, q, charset)
  BY <1>1, RunFacts
<1>3. from \in Nat /\ cur \in Nat /\ to \in Nat /\ from <= cur /\ cur <= to /\ to <= Len(t)
  OBVIOUS
<1>4. p < cur
  <2> SUFFICES ASSUME p >= cur PROVE FALSE
    BY <1>3
  <2>1. p \in cur .. to - 1 /\ p \in p .. q - 1
    BY <1>2, <1>3
  <2>2. QED
    BY <1>2, <2>1
<1>5. p = from
  <2> SUFFICES ASSUME p # from PROVE FALSE
    OBVIOUS
  <2>1. p - 1 \in from .. cur - 1 /\ p # 0
    BY <1>2, <1>3, <1>4
  <2>2. QED
    BY <1>2, <2>1
<1>6. ~(q < cur)
  <2> SUFFICES ASSUME q < cur PROVE FALSE
    OBVIOUS
  <2>1. q \in from .. cur - 1 /\ q # Len(t)
    BY <1>2, <1>3, <1>5
  <2>2. QED
    BY <1>2, <2>1
<1>7. ~(q > cur)
  <2> SUFFICES ASSUME q > cur PROVE FALSE
    OBVIOUS
  <2>1. cur \in p .. q - 1 /\ cur # Len(t)
    BY <1>2, <1>3, <1>4
  <2>2. QED
    BY <1>2, <2>1
<1>8. q = cur
  BY <1>3, <1>6, <1>7
<1>9. QED
  BY <1>1, <1>4, <1>5, <1>8

\* What a turn of tokenize sees.
LEMMA AtToken ==
  ASSUME SCInv, phase = "collect", job.call = "tokenize"
  PROVE  /\ job \in TokenJobs /\ job.text \in Seq(Byte) /\ Len(job.text) \in Nat
         /\ next \in 0 .. Len(job.text)
<1>1. job \in SplitJobs \cup TokenJobs /\ Len(job.text) \in Nat /\ next \in 0 .. Len(job.text)
  BY AtCollect
<1>2. QED
  BY <1>1, PiecesFacts DEF SplitJobs

\* A turn of tokenize takes the run that begins there, if one does.
LEMMA TokenTokening ==
  ASSUME SCInv, Splitting, Tokening, Token
  PROVE  Tokening'
<1> DEFINE t == job.text  n == Len(t)  k == Len(pieces)  runs == Runs(t, job.arg)
           cur == Delimited(next)
           s == SubSeq(t, next + 1, cur)
<1>1. /\ phase = "collect" /\ job.call = "tokenize" /\ next # n
      /\ pieces' = IF cur = next THEN pieces ELSE Append(pieces, s)
      /\ next' = Resumed(cur) /\ job' = job /\ phase' = phase
  BY DEF Token
<1>2. t \in Seq(Byte) /\ n \in Nat /\ next \in 0 .. n
  BY <1>1, AtToken
<1>3. /\ cur \in next .. n
      /\ \A q \in next .. cur - 1 : ~In(t, q, job.arg)
      /\ cur # n => In(t, cur, job.arg)
  BY <1>2, DelimitersAre
<1> HIDE DEF cur
<1>4. cur \in 0 .. n
  BY <1>2, <1>3
<1>5. /\ next' \in cur .. n
      /\ \A q \in cur .. next' - 1 : In(t, q, job.arg)
      /\ next' # n => ~In(t, next', job.arg)
  BY <1>1, <1>2, <1>4, DelimitersAre
<1>6. cur # n => cur < next'
  <2> SUFFICES ASSUME cur # n, ~(cur < next') PROVE FALSE
    OBVIOUS
  <2>1. next' = cur
    BY <1>4, <1>5
  <2>2. QED
    BY <1>3, <1>5, <2>1
<1>7. next' = n \/ In(t, next' - 1, job.arg)
  <2> SUFFICES ASSUME next' # n PROVE In(t, next' - 1, job.arg)
    OBVIOUS
  <2>1. cur # n
    BY <1>2, <1>4, <1>5
  <2>2. PICK x : x = next'
    OBVIOUS
  <2>3. cur \in Int /\ x \in Int /\ cur < x
    BY <1>2, <1>4, <1>5, <1>6, <2>1, <2>2
  <2>4. x - 1 \in cur .. x - 1
    BY <2>3
  <2>5. QED
    BY <1>5, <2>2, <2>4
<1>8. /\ next = 0 \/ In(t, next - 1, job.arg)
      /\ \E at : TokensUpTo(at)
  BY <1>1 DEF Tokening
<1>9. PICK at : TokensUpTo(at)
  BY <1>8
<1>10. /\ at \in [1 .. k -> runs]
       /\ \A i \in 1 .. k : pieces[i] = SubSeq(t, at[i][1] + 1, at[i][2])
       /\ \A i \in 1 .. k : at[i][2] < next
       /\ \A i, j \in 1 .. k : i < j => at[i][2] < at[j][1]
       /\ \A pq \in runs : pq[1] < next => \E i \in 1 .. k : at[i] = pq
  BY <1>1, <1>9 DEF TokensUpTo
<1>11. \A pq \in runs : next <= pq[1] /\ pq[1] < next' => pq = <<next, cur>> /\ cur # next
  BY <1>1, <1>2, <1>3, <1>5, RunOfTurn
<1>12. \A pq \in runs : pq[1] \in Nat /\ pq[2] \in Nat /\ pq[1] < pq[2]
  BY <1>2, RunFacts
<1>13. pieces \in Seq(Seq(Byte))
  BY DEF Splitting
<1>14. k \in Nat
  BY <1>13, LenProperties
<1> HIDE DEF runs, k
<1>15. \A i \in 1 .. k : at[i] \in runs /\ at[i][2] \in Nat /\ (at[i][2] < next' \/ next' = n)
  <2> SUFFICES ASSUME NEW i \in 1 .. k
               PROVE  at[i] \in runs /\ at[i][2] \in Nat /\ (at[i][2] < next' \/ next' = n)
    OBVIOUS
  <2>1. at[i] \in runs
    BY <1>10
  <2>2. at[i][2] \in Nat /\ at[i][2] < next
    BY <1>10, <1>12, <2>1
  <2>3. next <= next'
    BY <1>2, <1>3, <1>4, <1>5
  <2>4. QED
    BY <1>2, <1>4, <1>5, <2>1, <2>2, <2>3
<1>16. next' \in Nat /\ next \in Nat
  BY <1>2, <1>4, <1>5
<1>17. CASE cur = next
  <2>1. pieces' = pieces /\ Len(pieces') = k
    BY <1>1, <1>17 DEF k
  <2>2. \A pq \in runs : pq[1] < next' => \E i \in 1 .. k : at[i] = pq
    <3> SUFFICES ASSUME NEW pq \in runs, pq[1] < next' PROVE \E i \in 1 .. k : at[i] = pq
      OBVIOUS
    <3>1. ~(next <= pq[1])
      BY <1>11, <1>17
    <3>2. pq[1] < next
      BY <1>12, <1>16, <3>1
    <3>3. QED
      BY <1>10, <3>2
  <2>3. TokensUpTo(at)'
    BY <1>1, <1>10, <1>15, <2>1, <2>2 DEF TokensUpTo, runs
  <2>4. QED
    BY <1>1, <1>7, <2>3 DEF Tokening, TokensAreRuns, Done
<1>18. CASE cur # next
  <2>1. s \in Seq(Byte) /\ pieces' = Append(pieces, s)
    BY <1>1, <1>2, <1>3, <1>18, Piece
  <2> HIDE DEF s
  <2>2. /\ Len(pieces') = k + 1
        /\ \A i \in 1 .. k : pieces'[i] = pieces[i]
        /\ pieces'[k + 1] = s
    BY <1>13, <2>1, PieceAdded DEF k
  <2>3. <<next, cur>> \in runs
    <3>1. next < cur
      BY <1>2, <1>3, <1>18
    <3>2. \A p, q \in 0 .. n :
            /\ p < q
            /\ \A r \in p .. q - 1 : ~In(t, r, job.arg)
            /\ p = 0 \/ In(t, p - 1, job.arg)
            /\ q = n \/ In(t, q, job.arg)
            => <<p, q>> \in runs
      BY <1>2, RunFacts DEF runs
    <3>3. QED
      BY <1>2, <1>3, <1>4, <1>8, <3>1, <3>2
  <2>4. PICK aa : aa = [i \in 1 .. k + 1 |-> IF i <= k THEN at[i] ELSE <<next, cur>>]
    OBVIOUS
  <2>5. /\ \A i \in 1 .. k : i \in 1 .. k + 1 /\ aa[i] = at[i]
        /\ aa[k + 1] = <<next, cur>> /\ aa[k + 1][1] = next /\ aa[k + 1][2] = cur
        /\ k + 1 \in 1 .. k + 1
        /\ \A i \in 1 .. k + 1 : i \in 1 .. k \/ i = k + 1
    BY <1>14, <2>4
  <2>6. aa \in [1 .. k + 1 -> runs]
    <3>1. \A i \in 1 .. k + 1 : (IF i <= k THEN at[i] ELSE <<next, cur>>) \in runs
      <4> SUFFICES ASSUME NEW i \in 1 .. k + 1
                   PROVE  (IF i <= k THEN at[i] ELSE <<next, cur>>) \in runs
        OBVIOUS
      <4>1. i <= k => i \in 1 .. k
        BY <1>14
      <4>2. QED
        BY <1>10, <2>3, <4>1
    <3>2. QED
      BY <2>4, <3>1
  <2>7. ASSUME NEW i \in 1 .. k + 1
        PROVE  /\ pieces'[i] = SubSeq(t, aa[i][1] + 1, aa[i][2])
               /\ aa[i][2] < next' \/ next' = n
    <3>1. CASE i \in 1 .. k
      BY <1>10, <1>15, <2>2, <2>5, <3>1
    <3>2. CASE i = k + 1
      <4>1. cur < next' \/ next' = n
        BY <1>4, <1>5, <1>6
      <4>2. pieces'[i] = SubSeq(t, aa[i][1] + 1, aa[i][2])
        BY <2>2, <2>5, <3>2 DEF s
      <4>3. QED
        BY <2>5, <3>2, <4>1, <4>2
    <3>3. QED
      BY <2>5, <3>1, <3>2
  <2>8. ASSUME NEW i \in 1 .. k + 1, NEW j \in 1 .. k + 1, i < j
        PROVE  aa[i][2] < aa[j][1]
    <3>1. i \in 1 .. k
      BY <1>14, <2>8
    <3>2. CASE j \in 1 .. k
      BY <1>10, <2>5, <2>8, <3>1, <3>2
    <3>3. CASE j = k + 1
      BY <1>10, <2>5, <3>1, <3>3
    <3>4. QED
      BY <2>5, <3>2, <3>3
  <2>9. ASSUME NEW pq \in runs, pq[1] < next'
        PROVE  \E i \in 1 .. k + 1 : aa[i] = pq
    <3>1. CASE pq[1] < next
      <4>1. PICK i \in 1 .. k : at[i] = pq
        BY <1>10, <3>1
      <4>2. QED
        BY <2>5, <4>1
    <3>2. CASE ~(pq[1] < next)
      <4>1. next <= pq[1]
        BY <1>12, <1>16, <3>2
      <4>2. pq = <<next, cur>>
        BY <1>11, <2>9, <4>1
      <4>3. QED
        BY <2>5, <4>2
    <3>3. QED
      BY <3>1, <3>2
  <2>10. TokensUpTo(aa)'
    BY <1>1, <2>2, <2>6, <2>7, <2>8, <2>9 DEF TokensUpTo, runs
  <2>11. QED
    BY <1>1, <1>7, <2>10 DEF Tokening, TokensAreRuns, Done
<1>19. QED
  BY <1>17, <1>18

\* At the end of the text all runs have been taken.
LEMMA TokensDoneTokening ==
  ASSUME SCInv, Tokening, TokensDone
  PROVE  Tokening'
<1> DEFINE t == job.text  runs == Runs(t, job.arg)
<1>1. /\ phase = "collect" /\ job.call = "tokenize" /\ next = Len(t)
      /\ pieces' = pieces /\ job' = job /\ phase' = "done"
  BY DEF TokensDone
<1>2. t \in Seq(Byte) /\ Len(t) \in Nat
  BY <1>1, AtToken
<1>3. PICK at : TokensUpTo(at)
  BY <1>1 DEF Tokening
<1>4. \A pq \in runs : pq[1] < next
  <2>1. \A pq \in runs : pq[1] \in Nat /\ pq[2] \in Nat /\ pq[1] < pq[2] /\ pq[2] <= Len(t)
    BY <1>2, RunFacts
  <2>2. QED
    BY <1>1, <1>2, <2>1
<1>5. /\ at \in [1 .. Len(pieces) -> runs]
      /\ \A i \in 1 .. Len(pieces) : pieces[i] = SubSeq(t, at[i][1] + 1, at[i][2])
      /\ \A i, j \in 1 .. Len(pieces) : i < j => at[i][2] < at[j][1]
      /\ \A pq \in runs : \E i \in 1 .. Len(pieces) : at[i] = pq
  BY <1>3, <1>4 DEF TokensUpTo
<1>6. TokensAreRuns'
  BY <1>1, <1>5 DEF TokensAreRuns, Done
<1>7. QED
  BY <1>1, <1>6 DEF Tokening

\* tokenize begins with no token, and no run begins before the text.
LEMMA CallPiecesTokening ==
  ASSUME SCInv, Splitting, NEW j \in SplitJobs \cup TokenJobs, CallPieces(j)
  PROVE  Tokening'
<1>1. /\ phase = "idle" /\ job' = j /\ phase' = "collect" /\ next' = next /\ pieces' = pieces
  BY DEF CallPieces
<1>2. next' = 0 /\ pieces' = <<>> /\ Len(pieces') = 0 /\ 1 .. 0 = {}
  BY <1>1 DEF SCInv, Splitting
<1>3. j.text \in Seq(Byte) /\ Len(j.text) \in Nat
  BY PiecesFacts
<1>4. \A pq \in Runs(j.text, j.arg) : ~(pq[1] < 0)
  BY <1>3, RunFacts
<1> DEFINE at == [i \in {} |-> 0]
<1>5. at \in [1 .. 0 -> Runs(j.text, j.arg)]
  BY <1>2
<1> HIDE DEF at
<1>6. TokensUpTo(at)'
  BY <1>1, <1>2, <1>4, <1>5 DEF TokensUpTo
<1>7. QED
  BY <1>1, <1>2, <1>6 DEF Tokening, TokensAreRuns, Done

\* Every step keeps what was said of split and tokenize.
LEMMA NextPieces ==
  SCInv /\ Splitting /\ Tokening /\ [Next]_vars => Splitting' /\ Tokening'
<1> SUFFICES ASSUME SCInv, Splitting, Tokening, [Next]_vars PROVE Splitting' /\ Tokening'
  OBVIOUS
<1>1. ASSUME NEW j \in FindJobs \cup CutJobs \cup SepJobs \cup CaseJobs \cup OrderJobs,
             Find(j) \/ Ask(j) \/ Order(j)
      PROVE  Splitting' /\ Tokening'
  <2>1. /\ phase' = "done" /\ job' = j /\ pieces' = pieces
        /\ j.call \notin {"split", "tokenize"}
    BY <1>1, CallsApart DEF Find, Ask, Order
  <2>2. QED
    BY <2>1 DEF Splitting, Tokening, SplitsBack, TokensAreRuns, Done
<1>2. ASSUME NEW j \in ReplaceJobs, CallReplace(j) PROVE Splitting' /\ Tokening'
  <2>1. /\ phase' \in {"done", "measure", "write"} /\ job' = j /\ pieces' = pieces
        /\ j.call = "replace"
    BY <1>2 DEF CallReplace, ReplaceJobs
  <2>2. QED
    BY <2>1 DEF Splitting, Tokening, SplitsBack, TokensAreRuns, Done
<1>3. ASSUME NEW j \in SplitJobs \cup TokenJobs, CallPieces(j) PROVE Splitting' /\ Tokening'
  BY <1>3, CallPiecesSplitting, CallPiecesTokening
<1>4. CASE MeasureMatch \/ Allocate \/ WriteMatch \/ WriteRest
  <2>1. /\ phase' \in {"done", "measure", "write"} /\ job' = job /\ pieces' = pieces
        /\ job.call = "replace"
    BY <1>4 DEF MeasureMatch, Allocate, WriteMatch, WriteRest, SCInv, ReplaceJobs
  <2>2. QED
    BY <2>1 DEF Splitting, Tokening, SplitsBack, TokensAreRuns, Done
<1>5. CASE SplitOne \/ SplitRest
  <2>1. job' = job /\ job.call = "split"
    BY <1>5 DEF SplitOne, SplitRest
  <2>2. QED
    BY <1>5, <2>1, SplitOneSplitting, SplitRestSplitting DEF Tokening, TokensAreRuns, Done
<1>6. CASE Token
  <2>1. /\ phase = "collect" /\ phase' = "collect" /\ job' = job /\ job.call = "tokenize"
        /\ pieces \in Seq(Seq(Byte))
    BY <1>6 DEF Token, Splitting
  <2>2. pieces' \in Seq(Seq(Byte))
    <3> DEFINE s == SubSeq(job.text, next + 1, Delimited(next))
    <3>1. job.text \in Seq(Byte) /\ Len(job.text) \in Nat /\ next \in 0 .. Len(job.text)
      BY <2>1, AtToken
    <3>2. Delimited(next) \in next .. Len(job.text)
      BY <3>1, DelimitersFacts
    <3>3. s \in Seq(Byte)
      BY <3>1, <3>2, Piece
    <3>4. pieces' = pieces \/ pieces' = Append(pieces, s)
      BY <1>6 DEF Token
    <3> HIDE DEF s
    <3>5. QED
      BY <2>1, <3>3, <3>4, PieceAdded
  <2>3. Splitting'
    BY <2>1, <2>2 DEF Splitting, SplitsBack, Done
  <2>4. QED
    BY <1>6, <2>3, TokenTokening
<1>7. CASE TokensDone
  <2>1. phase' = "done" /\ job' = job /\ job.call = "tokenize" /\ pieces' = pieces
    BY <1>7 DEF TokensDone
  <2>2. Splitting'
    BY <2>1 DEF Splitting, SplitsBack, Done
  <2>3. QED
    BY <1>7, <2>2, TokensDoneTokening
<1>8. CASE Return
  BY <1>8, EmptySeq DEF Return, Splitting, Tokening, SplitsBack, TokensAreRuns, Done
<1>9. CASE UNCHANGED vars
  <2>1. /\ job' = job /\ phase' = phase /\ next' = next /\ size' = size /\ pieces' = pieces
    BY <1>9 DEF vars
  <2>2. \A at : (SplitUpTo(at)' <=> SplitUpTo(at)) /\ (TokensUpTo(at)' <=> TokensUpTo(at))
    BY <2>1 DEF SplitUpTo, TokensUpTo, Splitter
  <2>3. (SplitsBack' <=> SplitsBack) /\ (TokensAreRuns' <=> TokensAreRuns) /\ (Odd' <=> Odd)
    BY <2>1 DEF SplitsBack, TokensAreRuns, Odd, Done, Splitter
  <2>4. QED
    BY <2>1, <2>2, <2>3 DEF Splitting, Tokening
<1>10. QED
  BY <1>1, <1>2, <1>3, <1>4, <1>5, <1>6, <1>7, <1>8, <1>9 DEF Next

\* split cuts a text at the first splitters, and tokenize takes its runs
\* without a delimiter, all of them (st_string.h:2414-2540), for all texts.
THEOREM PiecesCollected == Spec => []PiecesAreExact
<1>1. Init => Splitting /\ Tokening
  BY EmptySeq DEF Init, Splitting, Tokening, SplitsBack, TokensAreRuns, Done
<1>2. Splitting /\ Tokening => PiecesAreExact
  BY DEF Splitting, Tokening, PiecesAreExact
<1>3. QED
  BY <1>1, <1>2, NextPieces, SCInvHolds, PTL DEF Spec
=============================================================================
