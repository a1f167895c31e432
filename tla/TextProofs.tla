------------------------------ MODULE TextProofs ------------------------------
(***************************************************************************)
(* What the operators on characters and texts do that several components   *)
(* share: reading and writing UTF-8 (UtfCode.tla), and the digits of       *)
(* numbers (Numerals.tla).  A function that is defined by recursion over a *)
(* text or over numbers exists because it does for the first so many of    *)
(* their places; that is shown for each by induction.                      *)
(***************************************************************************)
EXTENDS UtfCode, Unicode, Numerals, SequenceTheorems, WellFoundedInduction, TLAPS

-----------------------------------------------------------------------------
(* Induction *)

\* A set of numbers that holds k whenever it holds what is below k holds all.
LEMMA InductionOn ==
  ASSUME NEW G, \A k \in Nat : (\A j \in 0 .. k - 1 : j \in G) => k \in G
  PROVE  \A n \in Nat : n \in G
<1> DEFINE R == {ss \in Nat \X Nat : ss[1] < ss[2]}
           wrong == {k \in Nat : k \notin G}
<1>1. IsWellFoundedOn(R, Nat)
  BY NatLessThanWellFounded DEF OpToRel
<1>2. wrong \in SUBSET Nat
  OBVIOUS
<1>3. ASSUME wrong # {} PROVE FALSE
  <2>1. PICK x \in wrong : \A y \in wrong : ~ (<<y, x>> \in R)
    <3> HIDE DEF R, wrong
    <3> QED
      BY <1>1, <1>2, <1>3, WFMin
  <2>2. x \in Nat /\ x \notin G
    OBVIOUS
  <2>3. ASSUME NEW j \in 0 .. x - 1 PROVE j \in G
    <3>1. j \in Nat /\ j < x
      BY <2>2
    <3>2. <<j, x>> \in R
      BY <2>2, <3>1
    <3>3. j \notin wrong
      <4> HIDE DEF R, wrong
      <4> QED
        BY <2>1, <3>2
    <3> QED
      BY <3>1, <3>3
  <2> QED
    BY <2>2, <2>3
<1> QED
  BY <1>3

-----------------------------------------------------------------------------
(* Recursion *)

\* There is a function whose value at each place below n depends on its value
\* at one behind it, as what it is on the last k places gives what it is on
\* the last k + 1.
IsForward(V, n, base, step, succ) ==
  /\ n \in Nat
  /\ \A p \in Nat : base[p] \in V
  /\ \A p \in Nat : p < n => succ[p] \in Nat /\ succ[p] > p
  /\ \A p \in Nat : p < n => \A v \in V : step[p][v] \in V

\* Such a function exists.
LEMMA ForwardExists ==
  ASSUME NEW V, NEW n, NEW base, NEW step, NEW succ, IsForward(V, n, base, step, succ)
  PROVE  \E f \in [Nat -> V] :
           \A p \in Nat : f[p] = IF p < n THEN step[p][f[succ[p]]] ELSE base[p]
<1>0. /\ n \in Nat
      /\ \A p \in Nat : base[p] \in V
      /\ \A p \in Nat : p < n => succ[p] \in Nat /\ succ[p] > p
      /\ \A p \in Nat : p < n => \A v \in V : step[p][v] \in V
  BY DEF IsForward
<1> DEFINE Right(f, k) == /\ f \in [Nat -> V]
                          /\ \A p \in Nat : p + k >= n =>
                               f[p] = IF p < n THEN step[p][f[succ[p]]] ELSE base[p]
           G == {k \in Nat : k <= n => \E f : Right(f, k)}
<1>1. ASSUME NEW k \in Nat, \A j \in 0 .. k - 1 : j \in G PROVE k \in G
  <2> SUFFICES ASSUME k <= n PROVE \E f : Right(f, k)
    OBVIOUS
  <2>1. CASE k = 0
    <3> DEFINE f == [p \in Nat |-> base[p]]
    <3>1. f \in [Nat -> V]
      BY <1>0
    <3>2. \A p \in Nat : p + k >= n => ~(p < n) /\ f[p] = base[p]
      BY <1>0, <2>1
    <3> HIDE DEF f
    <3>3. Right(f, k)
      BY <3>1, <3>2
    <3> QED
      BY <3>3
  <2>2. CASE k # 0
    <3>1. k - 1 \in 0 .. k - 1 /\ k - 1 <= n /\ n - k \in Nat /\ n - k < n
      BY <1>0, <2>2
    <3>2. PICK f : Right(f, k - 1)
      BY <1>1, <3>1
    <3>3. PICK q \in Nat : q = n - k
      BY <3>1
    <3>4. PICK v : v = step[q][f[succ[q]]]
      OBVIOUS
    <3>5. v \in V
      <4>1. q < n /\ succ[q] \in Nat /\ f[succ[q]] \in V
        BY <1>0, <3>1, <3>2, <3>3
      <4> QED
        BY <1>0, <3>4, <4>1
    <3> DEFINE g == [p \in Nat |-> IF p = q THEN v ELSE f[p]]
    <3>6. g \in [Nat -> V]
      BY <3>2, <3>5
    <3>7. \A p \in Nat : g[p] = IF p = q THEN v ELSE f[p]
      OBVIOUS
    <3> HIDE DEF g
    <3>8. ASSUME NEW p \in Nat, p + k >= n
          PROVE  g[p] = IF p < n THEN step[p][g[succ[p]]] ELSE base[p]
      <4>1. p >= q
        BY <1>0, <3>3, <3>8
      <4>2. p < n => succ[p] \in Nat /\ succ[p] # q /\ g[succ[p]] = f[succ[p]]
        BY <1>0, <3>7, <4>1
      <4>3. CASE p = q
        <5>1. p < n
          BY <1>0, <3>1, <3>3, <4>3
        <5> QED
          BY <3>4, <3>7, <4>2, <4>3, <5>1
      <4>4. CASE p # q
        <5>1. p + (k - 1) >= n
          BY <1>0, <3>3, <3>8, <4>1, <4>4
        <5>2. f[p] = IF p < n THEN step[p][f[succ[p]]] ELSE base[p]
          BY <3>2, <5>1
        <5> QED
          BY <3>7, <4>2, <4>4, <5>2
      <4> QED
        BY <4>3, <4>4
    <3>9. Right(g, k)
      BY <3>6, <3>8
    <3> QED
      BY <3>9
  <2> QED
    BY <2>1, <2>2
<1>2. n \in G
  <2> HIDE DEF G
  <2> QED
    BY <1>0, <1>1, InductionOn
<1>3. PICK f : Right(f, n)
  BY <1>2
<1>4. \A p \in Nat : p + n >= n
  BY <1>0
<1> QED
  BY <1>3, <1>4

\* The first so many of the texts w, one behind the other.
IsJoin(f, n, w) == f = [i \in 0 .. n |-> IF i = 0 THEN <<>> ELSE f[i - 1] \o w[i]]

\* They can be joined one by one.
LEMMA JoinExists ==
  ASSUME NEW n \in Nat, NEW w
  PROVE  \E f : IsJoin(f, n, w)
<1> DEFINE G == {k \in Nat : \E f : IsJoin(f, k, w)}
<1>1. ASSUME NEW k \in Nat, \A j \in 0 .. k - 1 : j \in G PROVE k \in G
  <2>1. CASE k = 0
    <3>1. IsJoin([i \in 0 .. 0 |-> <<>>], 0, w)
      BY DEF IsJoin
    <3> QED
      BY <2>1, <3>1
  <2>2. CASE k # 0
    <3>1. k - 1 \in 0 .. k - 1
      BY <2>2
    <3>2. PICK g : IsJoin(g, k - 1, w)
      BY <1>1, <3>1
    <3>3. PICK v : v = g[k - 1] \o w[k]
      OBVIOUS
    <3> DEFINE f == [i \in 0 .. k |-> IF i = k THEN v ELSE g[i]]
    <3>4. \A i \in 0 .. k : f[i] = IF i = k THEN v ELSE g[i]
      OBVIOUS
    <3>5. f = [i \in 0 .. k |-> f[i]]
      OBVIOUS
    <3> HIDE DEF f
    <3>6. ASSUME NEW i \in 0 .. k PROVE f[i] = IF i = 0 THEN <<>> ELSE f[i - 1] \o w[i]
      <4>1. i # 0 => i - 1 \in 0 .. k /\ i - 1 # k
        OBVIOUS
      <4>2. i # 0 => f[i - 1] = g[i - 1]
        BY <3>4, <4>1
      <4>3. i # k => i \in 0 .. k - 1
        OBVIOUS
      <4>4. i # k => g[i] = IF i = 0 THEN <<>> ELSE g[i - 1] \o w[i]
        BY <3>2, <4>3 DEF IsJoin
      <4> QED
        BY <2>2, <3>3, <3>4, <4>2, <4>4
    <3>7. IsJoin(f, k, w)
      BY <3>5, <3>6 DEF IsJoin
    <3> QED
      BY <3>7
  <2> QED
    BY <2>1, <2>2
<1> QED
  <2> HIDE DEF G
  <2>1. n \in G
    BY <1>1, InductionOn
  <2> QED
    BY <2>1 DEF G

\* What is joined is fixed by the texts, of whatever units they are.
LEMMA JoinSame ==
  ASSUME NEW S, NEW n \in Nat, NEW m \in Nat, NEW w, NEW v, NEW f, NEW g,
         IsJoin(f, n, w), IsJoin(g, m, v), NEW k \in Nat, k <= n, k <= m,
         \A i \in 1 .. k : w[i] \in Seq(S) /\ v[i] = w[i]
  PROVE  f[k] \in Seq(S) /\ f[k] = g[k]
<1> DEFINE G == {j \in Nat : j <= k => f[j] \in Seq(S) /\ f[j] = g[j]}
<1>1. ASSUME NEW j \in Nat, \A i \in 0 .. j - 1 : i \in G PROVE j \in G
  <2> SUFFICES ASSUME j <= k PROVE f[j] \in Seq(S) /\ f[j] = g[j]
    OBVIOUS
  <2>1. j \in 0 .. n /\ j \in 0 .. m
    OBVIOUS
  <2>2. /\ f[j] = IF j = 0 THEN <<>> ELSE f[j - 1] \o w[j]
        /\ g[j] = IF j = 0 THEN <<>> ELSE g[j - 1] \o v[j]
    BY <2>1 DEF IsJoin
  <2>3. CASE j = 0
    BY <2>2, <2>3
  <2>4. CASE j # 0
    <3>1. j - 1 \in 0 .. j - 1 /\ j - 1 <= k /\ j \in 1 .. k
      BY <2>4
    <3>2. f[j - 1] \in Seq(S) /\ f[j - 1] = g[j - 1] /\ w[j] \in Seq(S) /\ v[j] = w[j]
      BY <1>1, <3>1
    <3> QED
      BY <2>2, <2>4, <3>2, ConcatProperties
  <2> QED
    BY <2>3, <2>4
<1> QED
  <2> HIDE DEF G
  <2>1. k \in G
    BY <1>1, InductionOn
  <2> QED
    BY <2>1 DEF G

-----------------------------------------------------------------------------
(* Characters *)

\* The mark of an error is beyond the last code point, so the measuring
\* functions, which do not look for it, treat errors as out of range.
LEMMA ErrorsOutOfRange ==
  ASSUME NEW ch \in Nat, char_error(ch) # success
  PROVE  ch > MaxCode
BY DEF char_error, success, ErrorBit, MaxCode

\* write_utf8 stores as much as utf8_measure says; what it refuses is given
\* the length of the replacement character.
LEMMA Utf8Measured ==
  ASSUME NEW ch \in Nat
  PROVE  /\ write_utf8(ch) \in Seq(Nat)
         /\ write_utf8(ch) # <<>> => Len(write_utf8(ch)) = utf8_measure(ch)
         /\ write_utf8(ch) = <<>> => utf8_measure(ch) = 3
         /\ ch > MaxCode => utf8_measure(ch) = 3
BY DEF write_utf8, utf8_measure, MaxCode, Bits

\* The same of write_utf16 and utf16_measure.
LEMMA Utf16Measured ==
  ASSUME NEW ch \in Nat
  PROVE  /\ write_utf16(ch) \in Seq(Nat)
         /\ write_utf16(ch) # <<>> => Len(write_utf16(ch)) = utf16_measure(ch)
         /\ write_utf16(ch) = <<>> => utf16_measure(ch) = 1
         /\ ch > MaxCode => utf16_measure(ch) = 1
BY DEF write_utf16, utf16_measure, MaxCode, Bits

-----------------------------------------------------------------------------
(* Reading *)

\* extract_utf8 passes at least one byte and none past the end.
LEMMA Utf8Read ==
  ASSUME NEW u \in Seq(Nat), NEW p \in 0 .. Len(u) - 1
  PROVE  /\ extract_utf8(u, p).ch \in Nat
         /\ extract_utf8(u, p).len \in 1 .. Len(u) - p
<1> DEFINE n == Announced(u[p + 1])
<1>1. n \in 0 .. 4
  BY DEF Announced
<1>2. CASE n # 0 /\ Whole(u, p, n)
  <2>1. n \in 1 .. Len(u) - p
    BY <1>1, <1>2 DEF Whole, Fits
  <2>2. ASSUME NEW i \in 1 .. n
        PROVE  u[p + i] \in Nat /\ Bits(u[p + i], 64) \in Nat
    <3>1. p + i \in 1 .. Len(u)
      BY <2>1
    <3>2. u[p + i] \in Nat
      BY <3>1, ElementOfSeq, Zenon
    <3> QED
      BY <3>2 DEF Bits
  <2>3. Assembled(u, p, n) \in Nat
    <3>1. n \in 1 .. 4
      BY <1>1, <1>2
    <3>2. u[p + 1] \in Nat
      BY <3>1, <2>2
    <3>3. Bits(u[p + 1], 32) \in Nat /\ Bits(u[p + 1], 16) \in Nat /\ Bits(u[p + 1], 8) \in Nat
      BY <3>2 DEF Bits
    <3>4. CASE n = 1
      BY <3>2, <3>4 DEF Assembled
    <3>5. CASE n = 2
      <4> DEFINE head   == Bits(u[p + 1], 32)
                 second == Bits(u[p + 2], 64)
      <4>1. head \in Nat /\ second \in Nat
        BY <2>2, <3>3, <3>5
      <4>2. Assembled(u, p, n) = head * 64 + second
        BY <3>5 DEF Assembled
      <4> HIDE DEF head, second
      <4> QED
        BY <4>1, <4>2
    <3>6. CASE n = 3
      <4> DEFINE head   == Bits(u[p + 1], 16)
                 second == Bits(u[p + 2], 64)
                 third  == Bits(u[p + 3], 64)
      <4>1. head \in Nat /\ second \in Nat /\ third \in Nat
        BY <2>2, <3>3, <3>6
      <4>2. Assembled(u, p, n) = head * 4096 + second * 64 + third
        BY <3>6 DEF Assembled
      <4> HIDE DEF head, second, third
      <4> QED
        BY <4>1, <4>2
    <3>7. CASE n = 4
      <4> DEFINE head   == Bits(u[p + 1], 8)
                 second == Bits(u[p + 2], 64)
                 third  == Bits(u[p + 3], 64)
                 fourth == Bits(u[p + 4], 64)
      <4>1. head \in Nat /\ second \in Nat /\ third \in Nat /\ fourth \in Nat
        BY <2>2, <3>3, <3>7
      <4>2. Assembled(u, p, n) = head * 262144 + second * 4096 + third * 64 + fourth
        BY <3>7 DEF Assembled
      <4> HIDE DEF head, second, third, fourth
      <4> QED
        BY <4>1, <4>2
    <3> QED
      BY <3>1, <3>4, <3>5, <3>6, <3>7
  <2> QED
    BY <1>2, <2>1, <2>3 DEF extract_utf8, Char
<1>3. CASE ~(n # 0 /\ Whole(u, p, n))
  BY <1>3 DEF extract_utf8, Char, error_char, ErrorBit, incomplete_utf8_seq, invalid_utf8_seq
<1> QED
  BY <1>2, <1>3

\* extract_utf16 passes one unit or two and none past the end.
LEMMA Utf16Read ==
  ASSUME NEW u \in Seq(Nat), NEW p \in 0 .. Len(u) - 1
  PROVE  /\ extract_utf16(u, p).ch \in Nat
         /\ extract_utf16(u, p).len \in 1 .. Len(u) - p
<1> DEFINE unit  == u[p + 1]
           other == u[p + 2]
<1>1. unit \in Nat
  <2>1. p + 1 \in 1 .. Len(u)
    OBVIOUS
  <2> QED
    BY <2>1, ElementOfSeq, Zenon
<1>2. CASE unit \notin High \cup Low
  BY <1>1, <1>2 DEF extract_utf16, Char
<1>3. CASE unit \in High \cup Low /\ p + 1 >= Len(u)
  <2>1. extract_utf16(u, p) = Char(error_char(incomplete_surrogate_pair), 1)
    BY <1>3 DEF extract_utf16
  <2> QED
    BY <2>1 DEF Char, error_char, ErrorBit, incomplete_surrogate_pair
<1>4. CASE unit \in High \cup Low /\ ~(p + 1 >= Len(u))
  <2>1. other \in Nat /\ 2 \in 1 .. Len(u) - p
    <3>1. p + 2 \in 1 .. Len(u)
      BY <1>4
    <3>2. other \in Nat
      BY <3>1, ElementOfSeq, Zenon
    <3> QED
      BY <3>1, <3>2
  <2>2. Pair(unit, other) \in Nat /\ Pair(other, unit) \in Nat
    <3>1. Bits(unit, 1024) \in Nat /\ Bits(other, 1024) \in Nat
      BY <1>1, <2>1 DEF Bits
    <3> QED
      BY <3>1, SMTT(30) DEF Pair
  <2>3. \/ extract_utf16(u, p) = Char(Pair(unit, other), 2)
        \/ extract_utf16(u, p) = Char(Pair(other, unit), 2)
        \/ extract_utf16(u, p) = Char(error_char(incomplete_surrogate_pair), 1)
    BY <1>4 DEF extract_utf16
  <2>4. CASE extract_utf16(u, p) = Char(Pair(unit, other), 2)
    BY <2>1, <2>2, <2>4 DEF Char
  <2>5. CASE extract_utf16(u, p) = Char(Pair(other, unit), 2)
    BY <2>1, <2>2, <2>5 DEF Char
  <2>6. CASE extract_utf16(u, p) = Char(error_char(incomplete_surrogate_pair), 1)
    BY <2>6 DEF Char, error_char, ErrorBit, incomplete_surrogate_pair
  <2> QED
    BY <2>3, <2>4, <2>5, <2>6
<1> QED
  BY <1>2, <1>3, <1>4

\* So do the loops of cleanup_utf8 and, as long as it finds no error, of
\* validate_utf8.
LEMMA Utf8Cleaned ==
  ASSUME NEW u \in Seq(Nat), NEW p \in 0 .. Len(u) - 1
  PROVE  /\ cleanup_utf8(u, p).units \in Seq(Nat)
         /\ cleanup_utf8(u, p).units # <<>>
         /\ cleanup_utf8(u, p).len \in 1 .. Len(u) - p
<1> DEFINE n == Announced(u[p + 1])
<1>1. n \in 0 .. 4
  BY DEF Announced
<1>2. CASE n # 0 /\ Whole(u, p, n)
  <2>1. n \in 1 .. Len(u) - p
    BY <1>1, <1>2 DEF Whole, Fits
  <2>2. \A i \in p + 1 .. p + n : u[i] \in Nat
    <3> SUFFICES ASSUME NEW i \in p + 1 .. p + n  PROVE u[i] \in Nat
      OBVIOUS
    <3>1. i \in 1 .. Len(u)
      BY <2>1
    <3> QED
      BY <3>1, ElementOfSeq, Zenon
  <2>3. p + 1 \in Int /\ p + n \in Int
    BY <2>1
  <2>4. /\ SubSeq(u, p + 1, p + n) \in Seq(Nat)
        /\ Len(SubSeq(u, p + 1, p + n)) =
             IF p + 1 <= p + n THEN (p + n) - (p + 1) + 1 ELSE 0
    BY <2>2, <2>3, SubSeqProperties
  <2>5. Len(SubSeq(u, p + 1, p + n)) # 0
    BY <2>1, <2>4
  <2> QED
    BY <1>2, <2>1, <2>4, <2>5, EmptySeq DEF cleanup_utf8
<1>3. CASE ~(n # 0 /\ Whole(u, p, n))
  BY <1>3 DEF cleanup_utf8, BadChar
<1> QED
  BY <1>2, <1>3

\* validate_utf8 reports one of the errors, or passes at least one byte and
\* none past the end.
LEMMA Utf8Validated ==
  ASSUME NEW u \in Seq(Nat), NEW p \in 0 .. Len(u) - 1
  PROVE  /\ validate_utf8(u, p).error \in success .. latin1_out_of_range
         /\ validate_utf8(u, p).error = success => validate_utf8(u, p).len \in 1 .. Len(u) - p
BY DEF validate_utf8, Announced, Fits, success, incomplete_utf8_seq, invalid_utf8_seq,
       latin1_out_of_range

-----------------------------------------------------------------------------
(* UTF-8 texts *)

\* What PointsFrom(u) is at p, if f is what it is from there on.
PointsAt(u, f, p) ==
  IF p >= Len(u) THEN <<>>
  ELSE <<extract_utf8(u, p).ch>> \o f[p + extract_utf8(u, p).len]

\* There is a function that reads a text from each place, as the one for the
\* last k places gives the one for k + 1.
LEMMA PointsExist ==
  ASSUME NEW u \in Seq(Nat)
  PROVE  PointsFrom(u) = [p \in Nat |-> PointsAt(u, PointsFrom(u), p)]
<1> DEFINE n == Len(u)
           Right(f, k) == /\ f = [p \in Nat |-> f[p]]
                          /\ \A p \in Nat : p + k >= n => f[p] = PointsAt(u, f, p)
           G == {k \in Nat : \E f : Right(f, k)}
<1>1. n \in Nat
  OBVIOUS
<1>2. ASSUME NEW k \in Nat, \A j \in 0 .. k - 1 : j \in G PROVE k \in G
  <2>1. CASE k = 0
    <3>1. Right([p \in Nat |-> <<>>], 0)
      BY <1>1 DEF PointsAt
    <3> QED
      BY <2>1, <3>1
  <2>2. CASE k > n
    <3>1. k - 1 \in 0 .. k - 1
      BY <2>2
    <3>2. PICK f : Right(f, k - 1)
      BY <1>2, <3>1
    <3>3. \A p \in Nat : p + k >= n => p + (k - 1) >= n
      BY <1>1, <2>2
    <3>4. Right(f, k)
      BY <3>2, <3>3
    <3> QED
      BY <3>4
  <2>3. CASE k # 0 /\ k <= n
    <3>1. k - 1 \in 0 .. k - 1 /\ n - k \in Nat /\ n - k < n
      BY <1>1, <2>3
    <3>2. PICK f : Right(f, k - 1)
      BY <1>2, <3>1
    <3> DEFINE q == n - k
               g == [f EXCEPT ![q] = PointsAt(u, f, q)]
    <3>3. g = [p \in Nat |-> IF p = q THEN PointsAt(u, f, q) ELSE f[p]]
      BY <3>1, <3>2
    <3>4. ASSUME NEW p \in Nat, p >= q PROVE PointsAt(u, g, p) = PointsAt(u, f, p)
      <4>1. CASE p >= n
        BY <4>1 DEF PointsAt
      <4>2. CASE p < n
        <5>1. extract_utf8(u, p).len \in 1 .. n - p
          BY <1>1, <4>2, Utf8Read
        <5>2. p + extract_utf8(u, p).len \in Nat /\ p + extract_utf8(u, p).len > q
          BY <1>1, <3>1, <3>4, <5>1
        <5>3. g[p + extract_utf8(u, p).len] = f[p + extract_utf8(u, p).len]
          BY <3>3, <5>2
        <5> HIDE DEF g
        <5> QED
          BY <5>3 DEF PointsAt
      <4> QED
        BY <1>1, <4>1, <4>2
    <3>5. ASSUME NEW p \in Nat, p + k >= n PROVE g[p] = PointsAt(u, g, p)
      <4>1. p >= q
        BY <1>1, <3>5
      <4>2. p # q => p + (k - 1) >= n
        BY <1>1, <3>5, <2>3
      <4>3. p # q => f[p] = PointsAt(u, f, p)
        BY <3>2, <4>2
      <4> QED
        BY <3>3, <3>4, <4>1, <4>3
    <3>6. Right(g, k)
      <4>1. g = [p \in Nat |-> g[p]]
        BY <3>3
      <4> QED
        BY <3>5, <4>1
    <3> QED
      BY <3>6
  <2> QED
    BY <1>1, <2>1, <2>2, <2>3
<1>3. n \in G
  <2> HIDE DEF G
  <2> QED
    BY <1>1, <1>2, InductionOn
<1>4. PICK f : Right(f, n)
  BY <1>3
<1>5. f = [p \in Nat |-> PointsAt(u, f, p)]
  <2>1. \A p \in Nat : f[p] = PointsAt(u, f, p)
    BY <1>1, <1>4
  <2> QED
    BY <1>4, <2>1
<1> QED
  <2>1. PointsFrom(u) = CHOOSE h : h = [p \in Nat |-> PointsAt(u, h, p)]
    BY DEF PointsFrom, PointsAt
  <2> QED
    BY <1>5, <2>1

\* A text is read character by character.
LEMMA PointsStep ==
  ASSUME NEW u \in Seq(Nat), NEW p \in Nat
  PROVE  /\ p >= Len(u) => PointsFrom(u)[p] = <<>>
         /\ p < Len(u) =>
              PointsFrom(u)[p] = <<extract_utf8(u, p).ch>> \o PointsFrom(u)[p + extract_utf8(u, p).len]
<1>1. PointsFrom(u)[p] = PointsAt(u, PointsFrom(u), p)
  BY PointsExist
<1>2. Len(u) \in Nat
  OBVIOUS
<1> QED
  BY <1>1, <1>2 DEF PointsAt

\* What is read is a text in Unicode, errors included.
LEMMA PointsType ==
  ASSUME NEW u \in Seq(Nat), NEW p \in Nat
  PROVE  PointsFrom(u)[p] \in Seq(Nat)
<1> DEFINE n == Len(u)
           G == {k \in Nat : \A q \in Nat : q + k >= n => PointsFrom(u)[q] \in Seq(Nat)}
<1>1. n \in Nat
  OBVIOUS
<1>2. ASSUME NEW k \in Nat, \A j \in 0 .. k - 1 : j \in G PROVE k \in G
  <2> SUFFICES ASSUME NEW q \in Nat, q + k >= n PROVE PointsFrom(u)[q] \in Seq(Nat)
    OBVIOUS
  <2>1. CASE q >= n
    BY <2>1, PointsStep, EmptySeq
  <2>2. CASE q < n
    <3> DEFINE len == extract_utf8(u, q).len
    <3>1. extract_utf8(u, q).ch \in Nat /\ len \in 1 .. n - q
      BY <1>1, <2>2, Utf8Read
    <3> HIDE DEF len
    <3>2. k - 1 \in 0 .. k - 1 /\ q + len \in Nat /\ (q + len) + (k - 1) >= n
      BY <1>1, <2>2, <3>1
    <3>3. PointsFrom(u)[q + len] \in Seq(Nat)
      BY <1>2, <3>2
    <3>4. PointsFrom(u)[q] = <<extract_utf8(u, q).ch>> \o PointsFrom(u)[q + len]
      BY <2>2, PointsStep DEF len
    <3> QED
      BY <3>1, <3>3, <3>4, ConcatProperties
  <2> QED
    BY <1>1, <2>1, <2>2
<1>3. n \in G
  <2> HIDE DEF G
  <2> QED
    BY <1>1, <1>2, InductionOn
<1> QED
  BY <1>1, <1>3

\* The low bits of a unit are below the power of two they are taken by.
LEMMA LowBits ==
  ASSUME NEW x \in Nat
  PROVE  /\ Bits(x, 64) \in Nat /\ Bits(x, 64) < 64
         /\ Bits(x, 32) \in Nat /\ Bits(x, 32) < 32
         /\ Bits(x, 16) \in Nat /\ Bits(x, 16) < 16
         /\ Bits(x, 8) \in Nat /\ Bits(x, 8) < 8
BY DEF Bits

\* A whole sequence reads the same wherever its bytes are, and is no error.
LEMMA WholeReads ==
  ASSUME NEW u \in Seq(Nat), NEW p \in 0 .. Len(u) - 1,
         Announced(u[p + 1]) # 0, Whole(u, p, Announced(u[p + 1]))
  PROVE  /\ extract_utf8(u, p) = Char(Assembled(u, p, Announced(u[p + 1])), Announced(u[p + 1]))
         /\ Announced(u[p + 1]) \in 1 .. Len(u) - p
         /\ char_error(extract_utf8(u, p).ch) = success
<1> DEFINE n == Announced(u[p + 1])
<1>1. n \in 1 .. 4 /\ n \in 1 .. Len(u) - p
  BY DEF Announced, Whole, Fits
<1>2. extract_utf8(u, p) = Char(Assembled(u, p, n), n)
  BY DEF extract_utf8
<1>3. ASSUME NEW i \in 1 .. n PROVE u[p + i] \in Nat /\ Bits(u[p + i], 64) \in Nat /\ Bits(u[p + i], 64) < 64
  <2>1. p + i \in 1 .. Len(u)
    BY <1>1
  <2>2. u[p + i] \in Nat
    BY <2>1, ElementOfSeq, Zenon
  <2> QED
    BY <2>2, LowBits
<1>4. u[p + 1] \in Nat
  BY <1>1, <1>3
<1>5. /\ Bits(u[p + 1], 32) \in Nat /\ Bits(u[p + 1], 32) < 32
      /\ Bits(u[p + 1], 16) \in Nat /\ Bits(u[p + 1], 16) < 16
      /\ Bits(u[p + 1], 8) \in Nat /\ Bits(u[p + 1], 8) < 8
  BY <1>4, LowBits
<1>6. Assembled(u, p, n) \in Nat /\ Assembled(u, p, n) < 2097152
  <2>1. CASE n = 1
    <3>1. u[p + 1] < 128
      BY <1>4, <2>1, SMT DEF Announced
    <3> HIDE DEF n
    <3> QED
      BY <1>4, <2>1, <3>1, SMT DEF Assembled
  <2>2. CASE n = 2
    <3> DEFINE head == Bits(u[p + 1], 32)  second == Bits(u[p + 2], 64)
    <3>1. head \in Nat /\ head < 32 /\ second \in Nat /\ second < 64
      BY <1>3, <1>5, <2>2
    <3>2. Assembled(u, p, n) = head * 64 + second
      BY <2>2 DEF Assembled
    <3> HIDE DEF head, second, n
    <3> QED
      BY <3>1, <3>2, SMT
  <2>3. CASE n = 3
    <3> DEFINE head == Bits(u[p + 1], 16)  second == Bits(u[p + 2], 64)  third == Bits(u[p + 3], 64)
    <3>1. head \in Nat /\ head < 16 /\ second \in Nat /\ second < 64 /\ third \in Nat /\ third < 64
      BY <1>3, <1>5, <2>3
    <3>2. Assembled(u, p, n) = head * 4096 + second * 64 + third
      BY <2>3 DEF Assembled
    <3> HIDE DEF head, second, third, n
    <3> QED
      BY <3>1, <3>2, SMT
  <2>4. CASE n = 4
    <3> DEFINE head == Bits(u[p + 1], 8)  second == Bits(u[p + 2], 64)  third == Bits(u[p + 3], 64)
               fourth == Bits(u[p + 4], 64)
    <3>1. /\ head \in Nat /\ head < 8 /\ second \in Nat /\ second < 64
          /\ third \in Nat /\ third < 64 /\ fourth \in Nat /\ fourth < 64
      BY <1>3, <1>5, <2>4
    <3>2. Assembled(u, p, n) = head * 262144 + second * 4096 + third * 64 + fourth
      BY <2>4 DEF Assembled
    <3> HIDE DEF head, second, third, fourth, n
    <3> QED
      BY <3>1, <3>2, SMT
  <2> QED
    BY <1>1, <2>1, <2>2, <2>3, <2>4, SMT
<1>7. char_error(Assembled(u, p, n)) = success
  <2> HIDE DEF n
  <2> QED
    BY <1>6, SMT DEF char_error, ErrorBit
<1> QED
  BY <1>1, <1>2, <1>7 DEF Char

\* What is not whole is an error, of one byte.
LEMMA BrokenReads ==
  ASSUME NEW u, NEW p, ~(Announced(u[p + 1]) # 0 /\ Whole(u, p, Announced(u[p + 1])))
  PROVE  /\ char_error(extract_utf8(u, p).ch) # success
         /\ extract_utf8(u, p).len = 1
BY DEF extract_utf8, Char, error_char, char_error, ErrorBit, success, incomplete_utf8_seq,
       invalid_utf8_seq

\* The same bytes, whole, in another text.
LEMMA WholeSame ==
  ASSUME NEW u \in Seq(Nat), NEW p \in 0 .. Len(u) - 1,
         Announced(u[p + 1]) # 0, Whole(u, p, Announced(u[p + 1])),
         NEW w \in Seq(Nat), NEW q \in Nat, q + Announced(u[p + 1]) <= Len(w),
         \A i \in 1 .. Announced(u[p + 1]) : w[q + i] = u[p + i]
  PROVE  /\ extract_utf8(w, q) = extract_utf8(u, p)
         /\ Announced(w[q + 1]) = Announced(u[p + 1])
         /\ Whole(w, q, Announced(w[q + 1]))
<1> DEFINE n == Announced(u[p + 1])
<1>1. n \in 1 .. 4
  BY DEF Announced
<1>2. w[q + 1] = u[p + 1] /\ Announced(w[q + 1]) = n
  BY <1>1
<1>3. Whole(w, q, n)
  <2> SUFFICES ASSUME NEW i \in q + 2 .. q + n PROVE w[i] \in 128 .. 191
    BY DEF Whole, Fits, Trailed
  <2>1. i - q \in 2 .. n /\ q + (i - q) = i /\ p + (i - q) \in p + 2 .. p + n
    <3>1. n \in Nat /\ p \in Nat /\ q \in Nat /\ i \in Int /\ i >= q + 2 /\ i <= q + n
      BY <1>1, SMTT(30)
    <3> QED
      BY ONLY <3>1
  <2>2. w[q + (i - q)] = u[p + (i - q)]
    BY <1>1, <2>1
  <2> QED
    BY <2>1, <2>2 DEF Whole, Trailed
<1>4. Assembled(w, q, n) = Assembled(u, p, n)
  <2>1. n >= 2 => w[q + 2] = u[p + 2]
    BY <1>1
  <2>2. n >= 3 => w[q + 3] = u[p + 3]
    BY <1>1
  <2>3. n >= 4 => w[q + 4] = u[p + 4]
    BY <1>1
  <2> HIDE DEF n
  <2> QED
    BY <1>1, <1>2, <2>1, <2>2, <2>3 DEF Assembled
<1> QED
  BY <1>1, <1>2, <1>3, <1>4 DEF extract_utf8

\* A text reads the same behind another one.
LEMMA ReadBehind ==
  ASSUME NEW u \in Seq(Nat), NEW v \in Seq(Nat), NEW q \in 0 .. Len(v) - 1
  PROVE  extract_utf8(u \o v, Len(u) + q) = extract_utf8(v, q)
<1> DEFINE w == u \o v  p == Len(u) + q  n == Announced(v[q + 1])
<1>1. w \in Seq(Nat) /\ Len(w) = Len(u) + Len(v) /\ Len(u) \in Nat /\ Len(v) \in Nat
  BY ConcatProperties
<1>2. \A i \in 1 .. Len(v) : w[Len(u) + i] = v[i]
  BY <1>1, ConcatProperties
<1>3. \A i \in Nat : q + i \in 1 .. Len(v) => w[p + i] = v[q + i]
  BY <1>1, <1>2
<1>4. w[p + 1] = v[q + 1]
  BY <1>1, <1>3
<1>5. n \in 0 .. 4
  BY DEF Announced
<1>6. CASE n # 0 /\ Whole(v, q, n)
  <2>1. p + n <= Len(w) /\ p \in Nat
    <3>1. q + n <= Len(v)
      BY <1>6 DEF Whole, Fits
    <3> HIDE DEF n, w
    <3> QED
      BY <1>1, <1>5, <3>1
  <2>2. ASSUME NEW i \in 1 .. n PROVE w[p + i] = v[q + i]
    <3>1. i \in Nat /\ q + i \in 1 .. Len(v)
      <4> HIDE DEF n
      <4> QED
        BY <1>1, <1>5, <1>6, <2>2 DEF Whole, Fits
    <3> QED
      BY <1>3, <3>1
  <2> QED
    <3>1. extract_utf8(w, p) = extract_utf8(v, q)
      <4> HIDE DEF w, p
      <4> QED
        BY <1>1, <1>6, <2>1, <2>2, WholeSame
    <3> QED
      BY <3>1
<1>7. CASE ~(n # 0 /\ Whole(v, q, n))
  <2>1. n # 0 => ~Whole(w, p, n)
    <3> SUFFICES ASSUME n # 0, Whole(w, p, n) PROVE Whole(v, q, n)
      BY <1>7
    <3>1. q + n <= Len(v)
      <4>1. p + n <= Len(w)
        BY DEF Whole, Fits
      <4> HIDE DEF n, w
      <4> QED
        BY <1>1, <1>5, <4>1
    <3>2. ASSUME NEW i \in q + 2 .. q + n PROVE v[i] \in 128 .. 191
      <4>1. i - q \in Nat /\ q + (i - q) \in 1 .. Len(v) /\ p + (i - q) \in p + 2 .. p + n
            /\ q + (i - q) = i
        <5>1. /\ n \in Nat /\ q \in Nat /\ i \in Int /\ i >= q + 2 /\ i <= q + n
              /\ p \in Nat /\ Len(v) \in Nat
          BY <1>1, <1>5
        <5> HIDE DEF n, w, p
        <5>2. i - q \in Nat /\ i - q >= 2 /\ i - q <= n /\ q + (i - q) = i /\ i >= 1
          BY <5>1
        <5>3. i <= Len(v)
          BY <3>1, <5>1
        <5>4. p + (i - q) \in p + 2 .. p + n
          BY <5>1, <5>2
        <5> QED
          BY <5>1, <5>2, <5>3, <5>4
      <4>2. w[p + (i - q)] = v[q + (i - q)]
        BY <1>3, <4>1
      <4> QED
        BY <4>1, <4>2 DEF Whole, Trailed
    <3> QED
      BY <3>1, <3>2 DEF Whole, Fits, Trailed
  <2> HIDE DEF n
  <2> QED
    BY <1>4, <1>7, <2>1 DEF extract_utf8, n
<1> QED
  BY <1>6, <1>7

\* So does all that is left of it.
LEMMA PointsBehind ==
  ASSUME NEW u \in Seq(Nat), NEW v \in Seq(Nat), NEW q \in Nat
  PROVE  PointsFrom(u \o v)[Len(u) + q] = PointsFrom(v)[q]
<1> DEFINE w == u \o v  a == Len(u)  n == Len(v)
           G == {k \in Nat : \A x \in Nat : x + k >= n => PointsFrom(w)[a + x] = PointsFrom(v)[x]}
<1>1. w \in Seq(Nat) /\ Len(w) = a + n /\ a \in Nat /\ n \in Nat
  BY ConcatProperties
<1>2. ASSUME NEW k \in Nat, \A j \in 0 .. k - 1 : j \in G PROVE k \in G
  <2> SUFFICES ASSUME NEW x \in Nat, x + k >= n PROVE PointsFrom(w)[a + x] = PointsFrom(v)[x]
    OBVIOUS
  <2>1. CASE x >= n
    <3>1. a + x \in Nat /\ a + x >= Len(w)
      BY <1>1, <2>1
    <3> HIDE DEF w, a
    <3> QED
      BY <1>1, <2>1, <3>1, PointsStep
  <2>2. CASE x < n
    <3> DEFINE len == extract_utf8(v, x).len
    <3>1. len \in 1 .. n - x
      BY <1>1, <2>2, Utf8Read
    <3>2. extract_utf8(w, a + x) = extract_utf8(v, x)
      BY <1>1, <2>2, ReadBehind
    <3>3. PointsFrom(v)[x] = <<extract_utf8(v, x).ch>> \o PointsFrom(v)[x + len]
      BY <2>2, PointsStep
    <3>4. PointsFrom(w)[a + x] = <<extract_utf8(v, x).ch>> \o PointsFrom(w)[(a + x) + len]
      <4>1. a + x \in Nat /\ a + x < Len(w)
        BY <1>1, <2>2
      <4> HIDE DEF w, a
      <4> QED
        BY <1>1, <3>2, <4>1, PointsStep
    <3> HIDE DEF len
    <3>5. k - 1 \in 0 .. k - 1 /\ x + len \in Nat /\ (x + len) + (k - 1) >= n
          /\ (a + x) + len = a + (x + len)
      BY <1>1, <2>2, <3>1
    <3>6. PointsFrom(w)[a + (x + len)] = PointsFrom(v)[x + len]
      BY <1>2, <3>5
    <3> QED
      BY <3>3, <3>4, <3>5, <3>6
  <2> QED
    BY <1>1, <2>1, <2>2
<1>3. n \in G
  <2> HIDE DEF G
  <2> QED
    BY <1>1, <1>2, InductionOn
<1> QED
  BY <1>1, <1>3

\* Texts one behind the other.
LEMMA Joined ==
  ASSUME NEW a \in Seq(Nat), NEW b \in Seq(Nat)
  PROVE  /\ a \o b \in Seq(Nat) /\ Len(a \o b) = Len(a) + Len(b)
         /\ \A i \in 1 .. Len(a) : (a \o b)[i] = a[i]
         /\ \A i \in 1 .. Len(b) : (a \o b)[Len(a) + i] = b[i]
BY ConcatProperties

\* In which order three are joined does not matter.
LEMMA JoinedInAnyOrder ==
  ASSUME NEW a \in Seq(Nat), NEW b \in Seq(Nat), NEW c \in Seq(Nat)
  PROVE  a \o (b \o c) = (a \o b) \o c
BY SMTT(60)

\* Four texts, however they are joined; the joining is named, so that the provers
\* need not look into it.
UnitTexts == Seq(Nat)
Then(a, b) == a \o b

LEMMA FourJoined ==
  ASSUME NEW a \in UnitTexts, NEW b \in UnitTexts, NEW c \in UnitTexts, NEW d \in UnitTexts
  PROVE  /\ Then(a, Then(Then(b, c), d)) = Then(Then(Then(a, b), c), d)
         /\ Then(Then(Then(a, b), c), d) = Then(Then(a, b), Then(c, d))
<1>1. \A k, l \in UnitTexts : Then(k, l) \in UnitTexts
  BY Joined DEF Then, UnitTexts
<1>2. \A k, l, n \in UnitTexts : Then(k, Then(l, n)) = Then(Then(k, l), n)
  BY JoinedInAnyOrder DEF Then, UnitTexts
<1>3. Then(a, Then(Then(b, c), d)) = Then(Then(Then(a, b), c), d)
  BY ONLY <1>1, <1>2
<1>4. Then(Then(Then(a, b), c), d) = Then(Then(a, b), Then(c, d))
  BY ONLY <1>1, <1>2
<1> QED
  BY ONLY <1>3, <1>4

\* Nothing is added by a text without units.
LEMMA JoinedToNone ==
  ASSUME NEW a \in Seq(Nat)
  PROVE  <<>> \o a = a /\ a \o <<>> = a
BY ConcatEmptySeq

\* One character by itself.
LEMMA OneCharacter ==
  ASSUME NEW c \in Nat
  PROVE  /\ Faulty(<<c>>) <=> char_error(c) # success
         /\ Repaired(<<c>>) = <<Repair(c)>>
         /\ ~Faulty(<<>>) /\ Repaired(<<>>) = <<>>
<1>1. DOMAIN <<c>> = {1} /\ <<c>>[1] = c
  OBVIOUS
<1>2. Faulty(<<c>>) <=> char_error(c) # success
  BY <1>1 DEF Faulty
<1>3. Repaired(<<c>>) = <<Repair(c)>>
  BY <1>1 DEF Repaired
<1>4. ~Faulty(<<>>) /\ Repaired(<<>>) = <<>>
  BY DEF Faulty, Repaired
<1> QED
  BY <1>2, <1>3, <1>4

\* The faults of two texts one behind the other are those of each.
LEMMA FaultsOfBoth ==
  ASSUME NEW a \in Seq(Nat), NEW b \in Seq(Nat)
  PROVE  /\ Faulty(a \o b) <=> Faulty(a) \/ Faulty(b)
         /\ Repaired(a \o b) = Repaired(a) \o Repaired(b)
         /\ Repaired(a) \in Seq(Nat)
<1> DEFINE c == a \o b
<1>1. /\ c \in Seq(Nat) /\ Len(c) = Len(a) + Len(b)
      /\ Len(a) \in Nat /\ Len(b) \in Nat
      /\ DOMAIN a = 1 .. Len(a) /\ DOMAIN b = 1 .. Len(b) /\ DOMAIN c = 1 .. Len(c)
      /\ \A i \in 1 .. Len(a) : c[i] = a[i]
      /\ \A i \in 1 .. Len(b) : c[Len(a) + i] = b[i]
  BY ConcatProperties
<1> HIDE DEF c
<1>2. \A i \in DOMAIN c : i \in DOMAIN a \/ (i - Len(a) \in DOMAIN b /\ c[i] = b[i - Len(a)])
  BY <1>1
<1>3. Faulty(c) <=> Faulty(a) \/ Faulty(b)
  <2>1. ASSUME Faulty(c) PROVE Faulty(a) \/ Faulty(b)
    <3>1. PICK i \in DOMAIN c : char_error(c[i]) # success
      BY <2>1 DEF Faulty
    <3>2. CASE i \in DOMAIN a
      <4>1. c[i] = a[i]
        BY <1>1, <3>2
      <4> QED
        BY <3>1, <3>2, <4>1 DEF Faulty
    <3>3. CASE i - Len(a) \in DOMAIN b /\ c[i] = b[i - Len(a)]
      BY <3>1, <3>3 DEF Faulty
    <3> QED
      BY <1>2, <3>1, <3>2, <3>3
  <2>2. ASSUME Faulty(a) PROVE Faulty(c)
    BY <1>1, <2>2 DEF Faulty
  <2>3. ASSUME Faulty(b) PROVE Faulty(c)
    <3>1. PICK i \in DOMAIN b : char_error(b[i]) # success
      BY <2>3 DEF Faulty
    <3>2. Len(a) + i \in DOMAIN c /\ c[Len(a) + i] = b[i]
      BY <1>1
    <3> QED
      BY <3>1, <3>2 DEF Faulty
  <2> QED
    BY <2>1, <2>2, <2>3
<1>4. ASSUME NEW s \in Seq(Nat)
      PROVE  Repaired(s) \in Seq(Nat) /\ Len(Repaired(s)) = Len(s)
             /\ \A i \in 1 .. Len(s) : Repaired(s)[i] = Repair(s[i])
  <2>1. DOMAIN s = 1 .. Len(s) /\ \A i \in 1 .. Len(s) : s[i] \in Nat
    OBVIOUS
  <2>2. \A i \in 1 .. Len(s) : Repair(s[i]) \in Nat
    BY <2>1 DEF Repair
  <2> QED
    BY <2>1, <2>2 DEF Repaired
<1>5. Repaired(c) = Repaired(a) \o Repaired(b)
  <2> DEFINE ra == Repaired(a)  rb == Repaired(b)  rc == Repaired(c)  d == ra \o rb
  <2>1. /\ ra \in Seq(Nat) /\ rb \in Seq(Nat) /\ rc \in Seq(Nat)
        /\ Len(ra) = Len(a) /\ Len(rb) = Len(b) /\ Len(rc) = Len(c)
    BY <1>1, <1>4
  <2>5. \A i \in 1 .. Len(a) : ra[i] = Repair(a[i])
    BY <1>4
  <2>6. \A i \in 1 .. Len(b) : rb[i] = Repair(b[i])
    BY <1>4
  <2>7. \A i \in 1 .. Len(c) : rc[i] = Repair(c[i])
    <3> HIDE DEF ra, rb, d
    <3> QED
      BY <1>1, <1>4
  <2> HIDE DEF ra, rb, rc
  <2>2. /\ d \in Seq(Nat) /\ Len(d) = Len(a) + Len(b)
        /\ \A i \in 1 .. Len(a) : d[i] = ra[i]
        /\ \A i \in 1 .. Len(b) : d[Len(a) + i] = rb[i]
    <3>1. /\ ra \o rb \in Seq(Nat) /\ Len(ra \o rb) = Len(ra) + Len(rb)
          /\ \A i \in 1 .. Len(ra) : (ra \o rb)[i] = ra[i]
          /\ \A i \in 1 .. Len(rb) : (ra \o rb)[Len(ra) + i] = rb[i]
      <4>1. ra \in Seq(Nat) /\ rb \in Seq(Nat)
        BY <2>1
      <4> HIDE DEF d
      <4> QED
        BY <4>1, Joined
    <3> QED
      BY <2>1, <3>1
  <2>3. Len(rc) = Len(d)
    BY <1>1, <2>1, <2>2
  <2> HIDE DEF d
  <2>4. ASSUME NEW i \in 1 .. Len(d) PROVE rc[i] = d[i]
    <3>1. rc[i] = Repair(c[i])
      BY <2>1, <2>3, <2>7
    <3>2. CASE i <= Len(a)
      <4>1. i \in 1 .. Len(a)
        BY <1>1, <2>2, <3>2
      <4> QED
        BY <1>1, <2>2, <2>5, <3>1, <4>1
    <3>3. CASE i > Len(a)
      <4>1. i - Len(a) \in 1 .. Len(b) /\ i = Len(a) + (i - Len(a))
        BY <1>1, <2>2, <3>3
      <4>2. c[i] = b[i - Len(a)] /\ d[i] = rb[i - Len(a)]
        BY <1>1, <2>2, <4>1
      <4> QED
        BY <2>6, <3>1, <4>1, <4>2
    <3> QED
      BY <1>1, <3>2, <3>3
  <2>8. rc = d
    BY <2>1, <2>2, <2>3, <2>4, SeqEqual
  <2> QED
    BY <2>8 DEF d, ra, rb, rc
<1> QED
  BY <1>3, <1>4, <1>5 DEF c

\* What is left to read at a place has the fault there or one behind it.
LEMMA FaultsAhead ==
  ASSUME NEW u \in Seq(Nat), NEW p \in 0 .. Len(u) - 1, NEW r, r = extract_utf8(u, p)
  PROVE  /\ r.ch \in Nat /\ r.len \in 1 .. Len(u) - p /\ p + r.len \in Nat
         /\ PointsFrom(u)[p + r.len] \in Seq(Nat)
         /\ PointsFrom(u)[p] = <<r.ch>> \o PointsFrom(u)[p + r.len]
         /\ Faulty(PointsFrom(u)[p]) <=>
              char_error(r.ch) # success \/ Faulty(PointsFrom(u)[p + r.len])
         /\ Repaired(PointsFrom(u)[p]) = <<Repair(r.ch)>> \o Repaired(PointsFrom(u)[p + r.len])
<1>1. r.ch \in Nat /\ r.len \in 1 .. Len(u) - p
  BY Utf8Read
<1>2. PointsFrom(u)[p] = <<r.ch>> \o PointsFrom(u)[p + r.len]
  <2>1. p \in Nat /\ p < Len(u)
    OBVIOUS
  <2> QED
    BY <2>1, PointsStep
<1>3. p + r.len \in Nat
  BY <1>1
<1>4. PICK rest : rest = PointsFrom(u)[p + r.len]
  OBVIOUS
<1>5. rest \in Seq(Nat) /\ <<r.ch>> \in Seq(Nat)
  BY <1>1, <1>3, <1>4, PointsType
<1>6. /\ Faulty(<<r.ch>> \o rest) <=> Faulty(<<r.ch>>) \/ Faulty(rest)
      /\ Repaired(<<r.ch>> \o rest) = Repaired(<<r.ch>>) \o Repaired(rest)
  BY <1>5, FaultsOfBoth
<1>7. /\ Faulty(<<r.ch>>) <=> char_error(r.ch) # success
      /\ Repaired(<<r.ch>>) = <<Repair(r.ch)>>
  BY <1>1, OneCharacter
<1> QED
  BY <1>1, <1>2, <1>3, <1>4, <1>5, <1>6, <1>7

\* What is read without a fault is whole, and reads the same whatever follows.
LEMMA PointsBefore ==
  ASSUME NEW u \in Seq(Nat), NEW v \in Seq(Nat), NEW p \in 0 .. Len(u),
         ~Faulty(PointsFrom(u)[p])
  PROVE  PointsFrom(u \o v)[p] = PointsFrom(u)[p] \o Points(v)
<1> DEFINE w == u \o v  n == Len(u)
           G == {k \in Nat : \A x \in 0 .. n : x + k >= n /\ ~Faulty(PointsFrom(u)[x]) =>
                               PointsFrom(w)[x] = PointsFrom(u)[x] \o Points(v)}
<1>1. w \in Seq(Nat) /\ Len(w) = n + Len(v) /\ n \in Nat /\ Len(v) \in Nat
      /\ \A i \in 1 .. n : w[i] = u[i]
  BY ConcatProperties
<1>2. Points(v) \in Seq(Nat) /\ PointsFrom(w)[n] = Points(v)
  <2>1. PointsFrom(w)[n + 0] = PointsFrom(v)[0]
    BY PointsBehind
  <2>2. n + 0 = n
    BY <1>1
  <2> QED
    BY <2>1, <2>2, PointsType DEF Points
<1>3. ASSUME NEW k \in Nat, \A j \in 0 .. k - 1 : j \in G PROVE k \in G
  <2> SUFFICES ASSUME NEW x \in 0 .. n, x + k >= n, ~Faulty(PointsFrom(u)[x])
               PROVE  PointsFrom(w)[x] = PointsFrom(u)[x] \o Points(v)
    OBVIOUS
  <2>1. CASE x = n
    <3>1. PointsFrom(u)[x] = <<>>
      <4>1. x \in Nat /\ x >= Len(u)
        BY <1>1, <2>1
      <4> QED
        BY <4>1, PointsStep
    <3>2. <<>> \o Points(v) = Points(v)
      BY <1>2, ConcatEmptySeq
    <3> QED
      BY <1>2, <2>1, <3>1, <3>2
  <2>2. CASE x < n
    <3>1. PICK r : r = extract_utf8(u, x)
      OBVIOUS
    <3>2. x \in 0 .. Len(u) - 1 /\ x \in Nat
      BY <1>1, <2>2
    <3>3. PICK rest : rest = PointsFrom(u)[x + r.len]
      OBVIOUS
    <3>4. /\ r.ch \in Nat /\ r.len \in 1 .. n - x /\ rest \in Seq(Nat)
          /\ PointsFrom(u)[x] = <<r.ch>> \o rest
          /\ char_error(r.ch) = success /\ ~Faulty(rest)
      <4>1. /\ r.ch \in Nat /\ r.len \in 1 .. Len(u) - x
            /\ PointsFrom(u)[x + r.len] \in Seq(Nat)
            /\ PointsFrom(u)[x] = <<r.ch>> \o PointsFrom(u)[x + r.len]
            /\ Faulty(PointsFrom(u)[x]) <=>
                 char_error(r.ch) # success \/ Faulty(PointsFrom(u)[x + r.len])
        BY ONLY u \in Seq(Nat), <3>1, <3>2, FaultsAhead
      <4> QED
        BY <3>3, <4>1
    <3> HIDE DEF w
    <3>5. PICK a : a = Announced(u[x + 1])
      OBVIOUS
    <3>6. a # 0 /\ Whole(u, x, a) /\ a \in 1 .. n - x
      <4>1. a # 0 /\ Whole(u, x, a)
        BY <3>1, <3>4, <3>5, BrokenReads
      <4> QED
        BY <3>2, <3>5, <4>1, WholeReads
    <3>7. extract_utf8(w, x) = r
      <4>1. ASSUME NEW i \in 1 .. a PROVE w[x + i] = u[x + i]
        <5>1. x + i \in 1 .. n
          BY <1>1, <3>2, <3>6
        <5> QED
          BY <1>1, <5>1
      <4>2. x + a <= Len(w)
        BY <1>1, <3>2, <3>6
      <4> QED
        BY <1>1, <3>1, <3>2, <3>5, <3>6, <4>1, <4>2, WholeSame
    <3>8. PointsFrom(w)[x] = <<r.ch>> \o PointsFrom(w)[x + r.len]
      <4>1. x < Len(w)
        BY <1>1, <3>2
      <4> QED
        BY <1>1, <3>2, <3>7, <4>1, PointsStep
    <3>9. x + r.len \in 0 .. n /\ k - 1 \in 0 .. k - 1 /\ (x + r.len) + (k - 1) >= n
      <4>1. PICK l : l = r.len
        OBVIOUS
      <4>2. l \in 1 .. n - x
        BY <3>4, <4>1
      <4>3. x + l \in 0 .. n /\ k - 1 \in 0 .. k - 1 /\ (x + l) + (k - 1) >= n
        BY <1>1, <2>2, <3>2, <4>2
      <4> QED
        BY <4>1, <4>3
    <3>10. PointsFrom(w)[x + r.len] = rest \o Points(v)
      BY <1>3, <3>3, <3>4, <3>9
    <3>11. <<r.ch>> \o (rest \o Points(v)) = (<<r.ch>> \o rest) \o Points(v)
      <4>1. PICK a1, c1 : a1 = <<r.ch>> /\ c1 = Points(v)
        OBVIOUS
      <4>2. a1 \in Seq(Nat) /\ c1 \in Seq(Nat)
        BY <1>2, <3>4, <4>1
      <4>3. a1 \o (rest \o c1) = (a1 \o rest) \o c1
        <5>1. rest \in Seq(Nat)
          BY <3>4
        <5>2. \A b \in Seq(Nat) : \A d \in Seq(Nat) : a1 \o (b \o d) = (a1 \o b) \o d
          BY ONLY <4>2, JoinedInAnyOrder
        <5> QED
          BY ONLY <4>2, <5>1, <5>2
      <4> QED
        BY <4>1, <4>3
    <3> QED
      BY <3>4, <3>8, <3>10, <3>11
  <2> QED
    BY <1>1, <2>1, <2>2
<1>4. n \in G
  <2> HIDE DEF G
  <2> QED
    BY <1>1, <1>3, InductionOn
<1> QED
  BY <1>1, <1>4

\* Behind a text without faults another one is read as it is.
LEMMA PointsOfBoth ==
  ASSUME NEW u \in Seq(Nat), NEW v \in Seq(Nat), ~Faulty(Points(u))
  PROVE  /\ Points(u \o v) = Points(u) \o Points(v)
         /\ Points(u) \in Seq(Nat) /\ Points(v) \in Seq(Nat)
         /\ Faulty(Points(u \o v)) <=> Faulty(Points(v))
<1>1. 0 \in 0 .. Len(u) /\ 0 \in Nat
  OBVIOUS
<1>2. Points(u \o v) = Points(u) \o Points(v)
  BY <1>1, PointsBefore DEF Points
<1>3. Points(u) \in Seq(Nat) /\ Points(v) \in Seq(Nat)
  BY PointsType DEF Points
<1>4. Faulty(Points(u) \o Points(v)) <=> Faulty(Points(u)) \/ Faulty(Points(v))
  <2> DEFINE a == Points(u)  b == Points(v)
  <2>1. a \in Seq(Nat) /\ b \in Seq(Nat)
    BY <1>3
  <2> HIDE DEF a, b
  <2>2. Faulty(a \o b) <=> Faulty(a) \/ Faulty(b)
    BY <2>1, FaultsOfBoth
  <2> QED
    BY <2>2 DEF a, b
<1> QED
  BY <1>2, <1>3, <1>4

\* A text of a single whole sequence is one character.
LEMMA PointsOfWhole ==
  ASSUME NEW s \in Seq(Nat), s # <<>>, Announced(s[1]) = Len(s), Whole(s, 0, Len(s))
  PROVE  Points(s) = <<Assembled(s, 0, Len(s))>> /\ ~Faulty(Points(s))
<1>1. Len(s) \in Nat /\ Len(s) # 0
  BY EmptySeq
<1>2. 0 \in 0 .. Len(s) - 1 /\ 0 + 1 = 1 /\ 0 < Len(s)
  BY <1>1
<1> DEFINE r == extract_utf8(s, 0)
<1>3. r = Char(Assembled(s, 0, Len(s)), Len(s)) /\ char_error(r.ch) = success
  BY <1>1, <1>2, WholeReads
<1>4. r.ch = Assembled(s, 0, Len(s)) /\ r.len = Len(s) /\ r.ch \in Nat
  BY <1>2, <1>3, Utf8Read DEF Char
<1>5. PointsFrom(s)[0] = <<r.ch>> \o PointsFrom(s)[0 + r.len]
  BY <1>2, PointsStep
<1>6. PointsFrom(s)[0 + r.len] = <<>>
  <2>1. 0 + r.len \in Nat /\ 0 + r.len >= Len(s)
    BY <1>1, <1>4
  <2> QED
    BY <2>1, PointsStep
<1>7. <<r.ch>> \o <<>> = <<r.ch>>
  BY <1>4, ConcatEmptySeq
<1>8. Points(s) = <<r.ch>>
  BY <1>5, <1>6, <1>7 DEF Points
<1> QED
  BY <1>3, <1>4, <1>8, OneCharacter

\* A text of no units has none.
LEMMA PointsOfNone == Points(<<>>) = <<>> /\ ~Faulty(Points(<<>>))
<1>1. <<>> \in Seq(Nat) /\ Len(<<>>) = 0
  OBVIOUS
<1>2. PointsFrom(<<>>)[0] = <<>>
  <2> DEFINE e == <<>>
  <2>1. e \in Seq(Nat) /\ 0 \in Nat /\ 0 >= Len(e)
    OBVIOUS
  <2> HIDE DEF e
  <2>2. PointsFrom(e)[0] = <<>>
    BY <2>1, PointsStep
  <2> QED
    BY <2>2 DEF e
<1> QED
  BY <1>2 DEF Points, Faulty

-----------------------------------------------------------------------------
(* Encoding and reading *)

\* A character taken apart six bits at a time.
LEMMA SixBits ==
  ASSUME NEW c \in Nat
  PROVE  /\ c \div 64 \in Nat /\ c % 64 \in Nat /\ c % 64 < 64
         /\ c = (c \div 64) * 64 + (c % 64)
         /\ (c \div 64) \div 64 = c \div 4096
         /\ (c \div 4096) \div 64 = c \div 262144
BY SMT

\* What has no more bits than are kept is kept.
LEMMA KeptBits ==
  ASSUME NEW x \in Nat
  PROVE  /\ x < 8 => Bits(240 + x, 8) = x /\ Bits(x, 8) = x
         /\ x < 16 => Bits(224 + x, 16) = x /\ Bits(x, 16) = x
         /\ x < 32 => Bits(192 + x, 32) = x /\ Bits(x, 32) = x
         /\ x < 64 => Bits(128 + x, 64) = x
         /\ Bits(x, 64) = x % 64
BY SMT DEF Bits

\* The encoding of a character is a whole sequence, of that character.
LEMMA EncodedWhole ==
  ASSUME NEW c \in Nat, c <= MaxCode
  PROVE  /\ write_utf8(c) \in Seq(Nat) /\ Len(write_utf8(c)) \in 1 .. 4
         /\ Announced(write_utf8(c)[1]) = Len(write_utf8(c))
         /\ Whole(write_utf8(c), 0, Len(write_utf8(c)))
         /\ Assembled(write_utf8(c), 0, Len(write_utf8(c))) = c
<1> DEFINE q == c \div 64  r == c % 64  q2 == c \div 4096  r2 == (c \div 64) % 64
           q3 == c \div 262144  r3 == (c \div 4096) % 64
           Right(s) == /\ s \in Seq(Nat) /\ Len(s) \in 1 .. 4
                       /\ Announced(s[1]) = Len(s)
                       /\ Whole(s, 0, Len(s))
                       /\ Assembled(s, 0, Len(s)) = c
<1>1. /\ q \in Nat /\ r \in Nat /\ r < 64 /\ c = q * 64 + r
      /\ q2 \in Nat /\ r2 \in Nat /\ r2 < 64 /\ q = q2 * 64 + r2
      /\ q3 \in Nat /\ r3 \in Nat /\ r3 < 64 /\ q2 = q3 * 64 + r3
  <2>1. q \in Nat /\ q \div 64 = q2 /\ q2 \div 64 = q3
    BY SixBits, SMT
  <2>2. q2 \in Nat /\ c = q * 64 + r /\ r \in Nat /\ r < 64
    BY <2>1, SixBits, SMT
  <2>3. q = (q \div 64) * 64 + (q % 64) /\ q % 64 \in Nat /\ q % 64 < 64
    BY <2>1, SixBits, SMT
  <2>4. q2 = (q2 \div 64) * 64 + (q2 % 64) /\ q2 % 64 \in Nat /\ q2 % 64 < 64 /\ q2 \div 64 \in Nat
    BY <2>2, SixBits, SMT
  <2> QED
    BY <2>1, <2>2, <2>3, <2>4, SMT
<1>2. CASE c < 128
  <2> DEFINE s == <<c>>
  <2>1. write_utf8(c) = s
    BY <1>2, SMT DEF write_utf8
  <2>2. s \in Seq(Nat) /\ Len(s) = 1 /\ s[1] = c
    BY SMT
  <2>3. Announced(c) = 1
    BY <1>2, SMT DEF Announced
  <2> HIDE DEF s
  <2>4. Right(s)
    BY <2>2, <2>3, SMT DEF Whole, Fits, Trailed, Assembled
  <2> QED
    BY <2>1, <2>4, SMT
<1>3. CASE 128 <= c /\ c < 2048
  <2> DEFINE s == <<192 + q, 128 + r>>
  <2>1. q < 32
    BY <1>1, <1>3, SMT
  <2>2. write_utf8(c) = <<192 + Bits(q, 32), 128 + Bits(c, 64)>>
    BY <1>3, SMT DEF write_utf8
  <2>3. Bits(q, 32) = q /\ Bits(c, 64) = r /\ Bits(192 + q, 32) = q /\ Bits(128 + r, 64) = r
    BY <1>1, <2>1, KeptBits, SMT
  <2>4. write_utf8(c) = s
    BY <2>2, <2>3, SMT
  <2> HIDE DEF q, r
  <2>5. s \in Seq(Nat) /\ Len(s) = 2 /\ s[1] = 192 + q /\ s[2] = 128 + r
    BY <1>1, SMT
  <2>6. Announced(192 + q) = 2
    BY <1>1, <2>1, SMT DEF Announced
  <2> HIDE DEF s
  <2>7. Whole(s, 0, 2)
    <3>1. 128 + r \in 128 .. 191
      BY <1>1, SMT
    <3>2. ASSUME NEW i \in 2 .. 2 PROVE s[i] \in 128 .. 191
      <4>1. i = 2
        BY SMT
      <4>2. s[2] \in 128 .. 191
        BY <2>5, <3>1, SMT
      <4> QED
        BY <4>1, <4>2, SMT
    <3>3. 0 + 2 = 2 /\ 0 + 2 = 2 /\ 2 <= Len(s)
      BY <2>5, SMT
    <3> QED
      BY <3>2, <3>3, SMT DEF Whole, Fits, Trailed
  <2>8. Assembled(s, 0, 2) = c
    <3>1. Assembled(s, 0, 2) = Bits(s[0 + 1], 32) * 64 + Bits(s[0 + 2], 64)
      BY SMT DEF Assembled
    <3> QED
      BY <1>1, <2>3, <2>5, <3>1, SMT
  <2>9. Right(s)
    BY <2>5, <2>6, <2>7, <2>8, SMT
  <2> QED
    BY <2>4, <2>9, SMT
<1>4. CASE 2048 <= c /\ c < 65536
  <2> DEFINE s == <<224 + q2, 128 + r2, 128 + r>>
  <2>1. q2 < 16
    BY <1>1, <1>4, SMT
  <2>2. write_utf8(c) = <<224 + Bits(q2, 16), 128 + Bits(q, 64), 128 + Bits(c, 64)>>
    BY <1>4, SMT DEF write_utf8
  <2>3. /\ Bits(q2, 16) = q2 /\ Bits(q, 64) = r2 /\ Bits(c, 64) = r
        /\ Bits(224 + q2, 16) = q2 /\ Bits(128 + r2, 64) = r2 /\ Bits(128 + r, 64) = r
    BY <1>1, <2>1, KeptBits, SMT
  <2>4. write_utf8(c) = s
    BY <2>2, <2>3, SMT
  <2> HIDE DEF q, r, q2, r2
  <2>5. s \in Seq(Nat) /\ Len(s) = 3 /\ s[1] = 224 + q2 /\ s[2] = 128 + r2 /\ s[3] = 128 + r
    BY <1>1, SMT
  <2>6. Announced(224 + q2) = 3
    BY <1>1, <2>1, SMT DEF Announced
  <2> HIDE DEF s
  <2>7. Whole(s, 0, 3)
    <3>1. 128 + r2 \in 128 .. 191 /\ 128 + r \in 128 .. 191
      BY <1>1, SMT
    <3>2. ASSUME NEW i \in 2 .. 3 PROVE s[i] \in 128 .. 191
      <4>1. i = 2 \/ i = 3
        BY SMT
      <4>2. s[2] \in 128 .. 191 /\ s[3] \in 128 .. 191
        BY <2>5, <3>1, SMT
      <4> QED
        BY <4>1, <4>2, SMT
    <3>3. 0 + 2 = 2 /\ 0 + 3 = 3 /\ 3 <= Len(s)
      BY <2>5, SMT
    <3> QED
      BY <3>2, <3>3, SMT DEF Whole, Fits, Trailed
  <2>8. Assembled(s, 0, 3) = c
    <3>1. Assembled(s, 0, 3) = Bits(s[0 + 1], 16) * 4096 + Bits(s[0 + 2], 64) * 64 + Bits(s[0 + 3], 64)
      BY SMT DEF Assembled
    <3> QED
      BY <1>1, <2>3, <2>5, <3>1, SMT
  <2>9. Right(s)
    BY <2>5, <2>6, <2>7, <2>8, SMT
  <2> QED
    BY <2>4, <2>9, SMT
<1>5. CASE 65536 <= c
  <2> DEFINE s == <<240 + q3, 128 + r3, 128 + r2, 128 + r>>
  <2>1. q3 < 8
    BY <1>1, <1>5, SMT DEF MaxCode
  <2>2. write_utf8(c) = <<240 + Bits(q3, 8), 128 + Bits(q2, 64), 128 + Bits(q, 64), 128 + Bits(c, 64)>>
    BY <1>5, SMT DEF write_utf8
  <2>3. /\ Bits(q3, 8) = q3 /\ Bits(q2, 64) = r3 /\ Bits(q, 64) = r2 /\ Bits(c, 64) = r
        /\ Bits(240 + q3, 8) = q3 /\ Bits(128 + r3, 64) = r3
        /\ Bits(128 + r2, 64) = r2 /\ Bits(128 + r, 64) = r
    BY <1>1, <2>1, KeptBits, SMT
  <2>4. write_utf8(c) = s
    BY <2>2, <2>3, SMT
  <2> HIDE DEF q, r, q2, r2, q3, r3
  <2>5. s \in Seq(Nat) /\ Len(s) = 4 /\ s[1] = 240 + q3 /\ s[2] = 128 + r3 /\ s[3] = 128 + r2
        /\ s[4] = 128 + r
    BY <1>1, SMT
  <2>6. Announced(240 + q3) = 4
    BY <1>1, <2>1, SMT DEF Announced
  <2> HIDE DEF s
  <2>7. Whole(s, 0, 4)
    <3>1. 128 + r3 \in 128 .. 191 /\ 128 + r2 \in 128 .. 191 /\ 128 + r \in 128 .. 191
      BY <1>1, SMT
    <3>2. ASSUME NEW i \in 2 .. 4 PROVE s[i] \in 128 .. 191
      <4>1. i = 2 \/ i = 3 \/ i = 4
        BY SMT
      <4>2. s[2] \in 128 .. 191 /\ s[3] \in 128 .. 191 /\ s[4] \in 128 .. 191
        BY <2>5, <3>1, SMT
      <4> QED
        BY <4>1, <4>2, SMT
    <3>3. 0 + 2 = 2 /\ 0 + 4 = 4 /\ 4 <= Len(s)
      BY <2>5, SMT
    <3> QED
      BY <3>2, <3>3, SMT DEF Whole, Fits, Trailed
  <2>8. Assembled(s, 0, 4) = c
    <3>1. Assembled(s, 0, 4) = Bits(s[0 + 1], 8) * 262144 + Bits(s[0 + 2], 64) * 4096
                                 + Bits(s[0 + 3], 64) * 64 + Bits(s[0 + 4], 64)
      BY SMT DEF Assembled
    <3>2. 0 + 1 = 1 /\ 0 + 2 = 2 /\ 0 + 3 = 3 /\ 0 + 4 = 4
      BY SMT
    <3>3. /\ Bits(s[0 + 1], 8) = q3 /\ Bits(s[0 + 2], 64) = r3
          /\ Bits(s[0 + 3], 64) = r2 /\ Bits(s[0 + 4], 64) = r
      BY <2>3, <2>5, <3>2, SMT
    <3>4. q3 * 262144 + r3 * 4096 + r2 * 64 + r = c
      BY <1>1, SMT
    <3> QED
      BY <3>1, <3>3, <3>4, SMT
  <2>9. Right(s)
    BY <2>5, <2>6, <2>7, <2>8, SMT
  <2> QED
    BY <2>4, <2>9, SMT
<1> QED
  BY <1>2, <1>3, <1>4, <1>5, SMT

\* It is the one the Unicode standard gives the character, in UTF-8 and in
\* UTF-16.
LEMMA EncodedByTheTables ==
  ASSUME NEW c \in Nat, c <= MaxCode
  PROVE  write_utf8(c) = UTF8(c) /\ write_utf16(c) = UTF16(c)
<1> DEFINE q == c \div 64  q2 == c \div 4096  q3 == c \div 262144
<1>1. q \in Nat /\ q2 \in Nat /\ q3 \in Nat
  BY SMT
<1>2. (c < 2048 => q < 32) /\ (c < 65536 => q2 < 16) /\ q3 < 8
  BY SMT DEF MaxCode
<1>3. /\ Bits(c, 64) = c % 64 /\ Bits(q, 64) = q % 64 /\ Bits(q2, 64) = q2 % 64
      /\ c < 2048 => Bits(q, 32) = q
      /\ c < 65536 => Bits(q2, 16) = q2
      /\ Bits(q3, 8) = q3
  BY <1>1, <1>2, KeptBits, SMT
<1>4. write_utf8(c) = UTF8(c)
  <2> HIDE DEF q, q2, q3
  <2> QED
    BY <1>3, SMT DEF write_utf8, UTF8, q, q2, q3
<1>5. write_utf16(c) = UTF16(c)
  <2>1. CASE c < 65536
    BY <2>1, SMT DEF write_utf16, UTF16
  <2>2. CASE c >= 65536
    <3> DEFINE h == (c - 65536) \div 1024  l == c % 1024
    <3>1. h \in Nat /\ h < 1024 /\ h = (c \div 1024) - 64 /\ (c - 65536) % 1024 = l
      BY <2>2, SMT DEF MaxCode
    <3>2. Bits(h, 1024) = h /\ Bits(c - 65536, 1024) = l
      BY <3>1, SMT DEF Bits
    <3>3. 55296 + h = 55232 + (c \div 1024)
      BY <3>1, SMT
    <3> QED
      BY <2>2, <3>2, <3>3, SMT DEF write_utf16, UTF16
  <2> QED
    BY <2>1, <2>2, SMT
<1> QED
  BY <1>4, <1>5, SMT

\* What write_utf8 stores reads as the character it stored.
LEMMA WrittenReads ==
  ASSUME NEW c \in Nat, c <= MaxCode
  PROVE  write_utf8(c) \in Seq(Nat) /\ Points(write_utf8(c)) = <<c>> /\ ~Faulty(Points(write_utf8(c)))
<1>1. PICK s : s = write_utf8(c)
  OBVIOUS
<1>2. /\ s \in Seq(Nat) /\ Len(s) \in 1 .. 4 /\ Announced(s[1]) = Len(s)
      /\ Whole(s, 0, Len(s)) /\ Assembled(s, 0, Len(s)) = c
  BY <1>1, EncodedWhole, SMT
<1>3. s # <<>>
  BY <1>2, SMT
<1> QED
  BY <1>1, <1>2, <1>3, PointsOfWhole

\* The replacement character is a character.
LEMMA ReplacementReads ==
  BadChar.utf8 \in Seq(Nat) /\ Points(BadChar.utf8) = <<65533>> /\ ~Faulty(Points(BadChar.utf8))
<1>1. write_utf8(65533) = BadChar.utf8
  <2>1. 65533 \div 4096 = 15 /\ 65533 \div 64 = 1023
    BY SMT
  <2>2. Bits(15, 16) = 15 /\ Bits(1023, 64) = 63 /\ Bits(65533, 64) = 61
    BY SMT DEF Bits
  <2> QED
    BY <2>1, <2>2, SMT DEF write_utf8, BadChar
<1>2. 65533 \in Nat /\ 65533 <= MaxCode
  BY SMT DEF MaxCode
<1>3. PICK c : c = 65533
  OBVIOUS
<1> QED
  BY <1>1, <1>2, <1>3, WrittenReads

\* Two bytes made of the low bits of a unit are a whole sequence.
LEMMA TwoBytesRead ==
  ASSUME NEW x \in Nat, NEW s, s = <<192 + Bits(x \div 64, 32), 128 + Bits(x, 64)>>
  PROVE  s \in Seq(Nat) /\ ~Faulty(Points(s))
<1>1. PICK h, l : h = Bits(x \div 64, 32) /\ l = Bits(x, 64)
  OBVIOUS
<1>2. h \in Nat /\ h < 32 /\ l \in Nat /\ l < 64
  <2>1. x \div 64 \in Nat
    BY SMT
  <2> QED
    BY <1>1, <2>1, LowBits, SMT
<1>3. s \in Seq(Nat) /\ Len(s) = 2 /\ s[1] = 192 + h /\ s[2] = 128 + l
  BY <1>1, <1>2, SMT
<1>4. Announced(s[1]) = 2
  BY <1>2, <1>3, SMT DEF Announced
<1>5. Whole(s, 0, 2)
  <2>1. \A i \in 0 + 2 .. 0 + 2 : i = 2
    BY SMT
  <2> QED
    BY <1>2, <1>3, <2>1, SMT DEF Whole, Fits, Trailed
<1>6. s # <<>>
  BY <1>3, SMT
<1>7. Announced(s[1]) = Len(s) /\ Whole(s, 0, Len(s))
  BY <1>3, <1>4, <1>5, Zenon
<1>8. s \in Seq(Nat)
  BY <1>3
<1> QED
  BY ONLY <1>6, <1>7, <1>8, PointsOfWhole

\* What cleanup_utf8 appends reads as what extract_utf8 finds at the place it
\* passes, with the replacement character for an error, and both pass as much.
LEMMA CleanedReads ==
  ASSUME NEW u \in Seq(Nat), NEW p \in 0 .. Len(u) - 1
  PROVE  /\ cleanup_utf8(u, p).units \in Seq(Nat)
         /\ Points(cleanup_utf8(u, p).units) = <<Repair(extract_utf8(u, p).ch)>>
         /\ ~Faulty(Points(cleanup_utf8(u, p).units))
         /\ cleanup_utf8(u, p).len = extract_utf8(u, p).len
<1>1. PICK n : n = Announced(u[p + 1])
  OBVIOUS
<1>2. CASE n # 0 /\ Whole(u, p, n)
  <2>1. PICK s : s = SubSeq(u, p + 1, p + n)
    OBVIOUS
  <2>2. cleanup_utf8(u, p) = [units |-> s, len |-> n]
    BY <1>1, <1>2, <2>1 DEF cleanup_utf8
  <2>3. /\ extract_utf8(u, p) = Char(Assembled(u, p, n), n)
        /\ n \in 1 .. Len(u) - p
        /\ char_error(extract_utf8(u, p).ch) = success
    BY <1>1, <1>2, WholeReads
  <2>4. s \in Seq(Nat) /\ Len(s) = n /\ \A i \in 1 .. n : s[0 + i] = u[p + i]
    <3>1. p + 1 \in 1 .. Len(u) /\ p + n \in 1 .. Len(u) /\ p + 1 <= p + n /\ (p + n) - (p + 1) + 1 = n
      BY <2>3
    <3>2. \A i \in p + 1 .. p + n : u[i] \in Nat
      <4> SUFFICES ASSUME NEW i \in p + 1 .. p + n PROVE u[i] \in Nat
        OBVIOUS
      <4>1. i \in 1 .. Len(u)
        BY <3>1
      <4> QED
        BY <4>1, ElementOfSeq, Zenon
    <3>3. /\ s \in Seq(Nat) /\ Len(s) = n
          /\ \A i \in 1 .. n : s[i] = u[(p + 1) + i - 1]
      BY <2>1, <3>1, <3>2, SubSeqProperties
    <3>4. \A i \in 1 .. n : (p + 1) + i - 1 = p + i /\ 0 + i = i
      BY <2>3
    <3> QED
      BY <3>3, <3>4
  <2>5. /\ extract_utf8(s, 0) = extract_utf8(u, p)
        /\ Announced(s[0 + 1]) = n
        /\ Whole(s, 0, Announced(s[0 + 1]))
    <3>1. 0 \in Nat /\ 0 + n <= Len(s)
      BY <2>3, <2>4
    <3>2. Announced(u[p + 1]) # 0 /\ Whole(u, p, Announced(u[p + 1])) /\ s \in Seq(Nat)
          /\ 0 + Announced(u[p + 1]) <= Len(s)
          /\ \A i \in 1 .. Announced(u[p + 1]) : s[0 + i] = u[p + i]
      BY <1>1, <1>2, <2>4, <3>1
    <3>3. /\ extract_utf8(s, 0) = extract_utf8(u, p)
          /\ Announced(s[0 + 1]) = Announced(u[p + 1])
          /\ Whole(s, 0, Announced(s[0 + 1]))
      BY <3>1, <3>2, WholeSame
    <3> QED
      BY <1>1, <3>3
  <2>6. s # <<>> /\ 0 + 1 = 1 /\ 0 \in 0 .. Len(s) - 1
    BY <2>3, <2>4
  <2>7. Points(s) = <<Assembled(s, 0, n)>> /\ ~Faulty(Points(s))
    BY <2>4, <2>5, <2>6, PointsOfWhole
  <2>8. extract_utf8(s, 0) = Char(Assembled(s, 0, n), n)
    BY <1>2, <2>4, <2>5, <2>6, WholeReads
  <2>9. extract_utf8(u, p).ch = Assembled(s, 0, n) /\ extract_utf8(u, p).len = n
    BY <2>5, <2>8 DEF Char
  <2>10. Repair(extract_utf8(u, p).ch) = extract_utf8(u, p).ch
    BY ONLY <2>3 DEF Repair
  <2>11. cleanup_utf8(u, p).units = s /\ cleanup_utf8(u, p).len = n
    BY ONLY <2>2
  <2> QED
    BY ONLY <2>4, <2>7, <2>9, <2>10, <2>11
<1>3. CASE ~(n # 0 /\ Whole(u, p, n))
  <2>1. cleanup_utf8(u, p) = [units |-> BadChar.utf8, len |-> 1]
    BY <1>1, <1>3 DEF cleanup_utf8
  <2>2. char_error(extract_utf8(u, p).ch) # success /\ extract_utf8(u, p).len = 1
    BY <1>1, <1>3, BrokenReads
  <2>3. Repair(extract_utf8(u, p).ch) = 65533
    BY <2>2 DEF Repair
  <2>4. PICK b, c : b = BadChar.utf8 /\ c = 65533
    OBVIOUS
  <2>5. b \in Seq(Nat) /\ Points(b) = <<c>> /\ ~Faulty(Points(b))
    BY <2>4, ReplacementReads
  <2>6. cleanup_utf8(u, p).units = b /\ cleanup_utf8(u, p).len = 1
    BY <2>1, <2>4
  <2>7. Repair(extract_utf8(u, p).ch) = c
    BY <2>3, <2>4, SMT
  <2> QED
    BY ONLY <2>2, <2>5, <2>6, <2>7
<1> QED
  BY <1>2, <1>3

\* validate_utf8 stops where extract_utf8 finds an error, and passes as much
\* where it does not.
LEMMA ValidatesTheSame ==
  ASSUME NEW u \in Seq(Nat), NEW p \in 0 .. Len(u) - 1
  PROVE  /\ validate_utf8(u, p).error = success <=> char_error(extract_utf8(u, p).ch) = success
         /\ validate_utf8(u, p).error = success => validate_utf8(u, p).len = extract_utf8(u, p).len
<1>1. PICK n : n = Announced(u[p + 1])
  OBVIOUS
<1>2. validate_utf8(u, p).error = success <=> n # 0 /\ Whole(u, p, n)
  BY <1>1 DEF validate_utf8, Whole, success, incomplete_utf8_seq, invalid_utf8_seq
<1>3. validate_utf8(u, p).len = n
  BY <1>1 DEF validate_utf8
<1>4. CASE n # 0 /\ Whole(u, p, n)
  BY <1>1, <1>2, <1>3, <1>4, WholeReads DEF Char
<1>5. CASE ~(n # 0 /\ Whole(u, p, n))
  BY <1>1, <1>2, <1>5, BrokenReads
<1> QED
  BY <1>4, <1>5

-----------------------------------------------------------------------------
(* Numbers *)

(* Quotient and remainder of a division by a base. *)
LEMMA DivisionLaw ==
  ASSUME NEW v \in Nat, NEW r \in Nat, r >= 2
  PROVE  v \div r \in Nat /\ v % r \in 0 .. r - 1 /\ v = ((v \div r) * r) + (v % r)
OBVIOUS

(* A product of naturals is a natural. *)
LEMMA ProductNatural ==
  ASSUME NEW a \in Nat, NEW b \in Nat
  PROVE  a * b \in Nat
OBVIOUS

\* A turn writes the character that stands for the digit.
LEMMA DigitCharWorth ==
  ASSUME NEW d \in 0 .. 35, NEW upper \in BOOLEAN
  PROVE  DigitChar(d, upper) \in Int /\ DigitWorth(DigitChar(d, upper)) = d
BY DEF DigitChar, DigitWorth

\* The digits read so far, for every place.
IsFold(f, n, base, w) == f = [i \in 0 .. n |-> IF i = 0 THEN 0 ELSE base * f[i - 1] + w[i]]

(* Reading digits one by one gives one number for every place. *)
LEMMA FoldExists ==
  ASSUME NEW base \in Nat, NEW w, NEW n \in Nat, \A i \in 1 .. n : w[i] \in Nat
  PROVE  \E f : IsFold(f, n, base, w)
<1> DEFINE G == {k \in Nat : k <= n => \E f : IsFold(f, k, base, w)}
<1>1. ASSUME NEW k \in Nat, \A j \in 0 .. k - 1 : j \in G PROVE k \in G
  <2>1. SUFFICES ASSUME k <= n PROVE \E f : IsFold(f, k, base, w)
    OBVIOUS
  <2>2. CASE k = 0
    <3>1. IsFold([i \in 0 .. 0 |-> 0], 0, base, w)
      BY DEF IsFold
    <3>2. QED
      BY <2>2, <3>1
  <2>3. CASE k # 0
    <3>1. k - 1 \in 0 .. k - 1 /\ k - 1 <= n
      BY <2>1, <2>3
    <3>2. PICK g : IsFold(g, k - 1, base, w)
      BY <1>1, <3>1
    <3> DEFINE f == [i \in 0 .. k |-> IF i = k THEN base * g[k - 1] + w[k] ELSE g[i]]
    <3>3. \A i \in 0 .. k : f[i] = IF i = 0 THEN 0 ELSE base * f[i - 1] + w[i]
      <4> SUFFICES ASSUME NEW i \in 0 .. k
                   PROVE  f[i] = IF i = 0 THEN 0 ELSE base * f[i - 1] + w[i]
        OBVIOUS
      <4>0. i # k => i \in 0 .. k - 1
        BY <2>3
      <4>1. i # 0 => i - 1 \in 0 .. k - 1 /\ i - 1 # k /\ i - 1 \in 0 .. k
        BY <2>3
      <4>2. i # 0 => f[i - 1] = g[i - 1]
        BY <4>1
      <4>3. i # k => f[i] = IF i = 0 THEN 0 ELSE base * g[i - 1] + w[i]
        <5> HIDE DEF f
        <5>1. i # k => f[i] = g[i]
          BY DEF f
        <5>2. i # k => g[i] = IF i = 0 THEN 0 ELSE base * g[i - 1] + w[i]
          BY <3>2, <4>0 DEF IsFold
        <5>3. QED
          BY <5>1, <5>2
      <4>4. f[k] = base * g[k - 1] + w[k]
        OBVIOUS
      <4> HIDE DEF f
      <4>5. QED
        BY <2>3, <4>2, <4>3, <4>4
    <3>4. IsFold(f, k, base, w)
      <4>1. f = [i \in 0 .. k |-> f[i]]
        OBVIOUS
      <4> HIDE DEF f
      <4>2. QED
        BY <3>3, <4>1 DEF IsFold
    <3>5. QED
      BY <3>4
  <2>4. QED
    BY <2>2, <2>3
<1> HIDE DEF G
<1>2. n \in G
  BY <1>1, InductionOn
<1>3. QED
  BY <1>2 DEF G

(* And they are numbers, each one fixed by the digits up to its place. *)
LEMMA FoldFacts ==
  ASSUME NEW base \in Nat, NEW n \in Nat, NEW m \in Nat, NEW v, NEW w, NEW f, NEW g, NEW k \in Nat,
         k <= n, k <= m, \A i \in 1 .. k : w[i] \in Nat /\ v[i] = w[i],
         IsFold(f, n, base, w), IsFold(g, m, base, v)
  PROVE  f[k] \in Nat /\ f[k] = g[k]
<1> DEFINE G == {j \in Nat : j <= k => f[j] \in Nat /\ f[j] = g[j]}
<1>1. ASSUME NEW j \in Nat, \A i \in 0 .. j - 1 : i \in G PROVE j \in G
  <2>1. SUFFICES ASSUME j <= k PROVE f[j] \in Nat /\ f[j] = g[j]
    OBVIOUS
  <2>2. CASE j = 0
    <3>1. 0 \in 0 .. n /\ 0 \in 0 .. m
      OBVIOUS
    <3>2. f[0] = 0 /\ g[0] = 0
      BY <3>1 DEF IsFold
    <3>3. QED
      BY <2>2, <3>2
  <2>3. CASE j # 0
    <3>1. j - 1 \in 0 .. j - 1 /\ j - 1 <= k /\ j \in 0 .. n /\ j \in 0 .. m /\ j \in 1 .. k
      BY <2>1, <2>3
    <3>2. f[j - 1] \in Nat /\ f[j - 1] = g[j - 1]
      BY <1>1, <3>1
    <3>3. f[j] = base * f[j - 1] + w[j] /\ g[j] = base * g[j - 1] + v[j]
      BY <2>3, <3>1 DEF IsFold
    <3>4. w[j] \in Nat /\ v[j] = w[j]
      BY <3>1
    <3>5. base * f[j - 1] \in Nat
      BY <3>2, ProductNatural
    <3>6. QED
      BY <3>2, <3>3, <3>4, <3>5
  <2>4. QED
    BY <2>2, <2>3
<1> HIDE DEF G
<1>2. k \in G
  BY <1>1, InductionOn
<1>3. QED
  BY <1>2 DEF G

\* Characters whose worth is a number.
IsDigits(d) == \A i \in 1 .. Len(d) : DigitWorth(d[i]) \in Nat

(* No digits are nothing; a digit more counts the base times what was before it. *)
LEMMA WorthFacts ==
  ASSUME NEW base \in Nat, NEW S, NEW d \in Seq(S), IsDigits(d)
  PROVE  /\ Worth(d, base) \in Nat
         /\ Worth(<<>>, base) = 0
         /\ \A c \in S : DigitWorth(c) \in Nat =>
              Worth(Append(d, c), base) = base * Worth(d, base) + DigitWorth(c)
<1> DEFINE fold(s) == CHOOSE f : IsFold(f, Len(s), base, [i \in 1 .. Len(s) |-> DigitWorth(s[i])])
<1>1. ASSUME NEW s \in Seq(S), IsDigits(s)
      PROVE  IsFold(fold(s), Len(s), base, [i \in 1 .. Len(s) |-> DigitWorth(s[i])])
  <2>1. Len(s) \in Nat /\ \A i \in 1 .. Len(s) : [j \in 1 .. Len(s) |-> DigitWorth(s[j])][i] \in Nat
    BY <1>1 DEF IsDigits
  <2> DEFINE w == [i \in 1 .. Len(s) |-> DigitWorth(s[i])]
  <2> HIDE DEF w
  <2>2. \E f : IsFold(f, Len(s), base, w)
    BY <2>1, FoldExists DEF w
  <2>3. QED
    BY <2>2 DEF w
<1>2. ASSUME NEW s \in Seq(S) PROVE Worth(s, base) = fold(s)[Len(s)]
  <2>1. ASSUME NEW f
        PROVE  IsFold(f, Len(s), base, [i \in 1 .. Len(s) |-> DigitWorth(s[i])])
               <=> f = [i \in 0 .. Len(s) |-> IF i = 0 THEN 0 ELSE base * f[i - 1] + DigitWorth(s[i])]
    <3>1. Len(s) \in Nat
      OBVIOUS
    <3>2. \A i \in 0 .. Len(s) : i # 0 => [j \in 1 .. Len(s) |-> DigitWorth(s[j])][i] = DigitWorth(s[i])
      BY <3>1
    <3> DEFINE w == [i \in 1 .. Len(s) |-> DigitWorth(s[i])]
               n == Len(s)
    <3> HIDE DEF w, n
    <3>3. [i \in 0 .. n |-> IF i = 0 THEN 0 ELSE base * f[i - 1] + w[i]]
          = [i \in 0 .. n |-> IF i = 0 THEN 0 ELSE base * f[i - 1] + DigitWorth(s[i])]
      BY <3>2 DEF w, n
    <3>4. QED
      BY <3>3 DEF IsFold, w, n
  <2>2. fold(s) = CHOOSE f : f = [i \in 0 .. Len(s) |->
                                   IF i = 0 THEN 0 ELSE base * f[i - 1] + DigitWorth(s[i])]
    BY <2>1
  <2>3. QED
    BY <2>2 DEF Worth
<1> HIDE DEF fold
<1>3. Len(d) \in Nat
  OBVIOUS
<1>4. Worth(d, base) \in Nat
  <2> DEFINE w == [i \in 1 .. Len(d) |-> DigitWorth(d[i])]
  <2>1. \A i \in 1 .. Len(d) : w[i] \in Nat /\ w[i] = w[i]
    BY DEF IsDigits
  <2>2. IsFold(fold(d), Len(d), base, w)
    BY <1>1
  <2>3. PICK n \in Nat : n = Len(d)
    OBVIOUS
  <2>4. PICK f : f = fold(d)
    OBVIOUS
  <2> HIDE DEF w
  <2>5. n <= n /\ IsFold(f, n, base, w) /\ \A i \in 1 .. n : w[i] \in Nat /\ w[i] = w[i]
    BY <2>1, <2>2, <2>3, <2>4
  <2>6. f[n] \in Nat
    BY <2>5, FoldFacts
  <2>7. QED
    BY <1>2, <2>3, <2>4, <2>6
<1>5. Worth(<<>>, base) = 0
  <2>1. <<>> \in Seq(S) /\ Len(<<>>) = 0 /\ IsDigits(<<>>)
    BY DEF IsDigits
  <2>2. IsFold(fold(<<>>), 0, base, [i \in 1 .. 0 |-> DigitWorth(<<>>[i])])
    BY <1>1, <2>1
  <2>3. fold(<<>>)[0] = 0
    BY <2>2 DEF IsFold
  <2>4. QED
    BY <1>2, <2>1, <2>3
<1>6. ASSUME NEW c \in S, DigitWorth(c) \in Nat
      PROVE  Worth(Append(d, c), base) = base * Worth(d, base) + DigitWorth(c)
  <2> DEFINE e == Append(d, c)  n == Len(d)
             v == [i \in 1 .. n |-> DigitWorth(d[i])]
             w == [i \in 1 .. n + 1 |-> DigitWorth(e[i])]
  <2>1. e \in Seq(S) /\ Len(e) = n + 1 /\ e[n + 1] = c /\ \A i \in 1 .. n : e[i] = d[i]
    OBVIOUS
  <2>2. IsDigits(e)
    <3> SUFFICES ASSUME NEW i \in 1 .. n + 1 PROVE DigitWorth(e[i]) \in Nat
      BY <2>1 DEF IsDigits
    <3>1. CASE i = n + 1
      BY <1>6, <2>1, <3>1
    <3>2. CASE i # n + 1
      <4>1. i \in 1 .. n
        BY <1>3, <3>2
      <4> HIDE DEF e
      <4>2. QED
        BY <2>1, <4>1 DEF IsDigits
    <3>3. QED
      BY <3>1, <3>2
  <2> HIDE DEF e
  <2>3. IsFold(fold(d), n, base, v) /\ IsFold(fold(e), n + 1, base, w)
    BY <1>1, <2>1, <2>2
  <2>4. \A i \in 1 .. n : w[i] \in Nat /\ v[i] = w[i]
    <3>1. \A i \in 1 .. n : i \in 1 .. n + 1
      BY <1>3
    <3>2. QED
      BY <2>1, <3>1 DEF IsDigits
  <2>5. w[n + 1] = DigitWorth(c)
    BY <1>3, <2>1
  <2> HIDE DEF v, w, n
  <2>6. n \in Nat /\ n + 1 \in Nat /\ n <= n + 1 /\ n + 1 \in 0 .. n + 1 /\ (n + 1) - 1 = n /\ n + 1 # 0
    BY <1>3 DEF n
  <2>7. fold(e)[n] = fold(d)[n]
    <3>1. PICK f : f = fold(e)
      OBVIOUS
    <3>2. PICK g : g = fold(d)
      OBVIOUS
    <3>3. PICK m \in Nat : m = n + 1
      BY <2>6
    <3>4. IsFold(f, m, base, w) /\ IsFold(g, n, base, v) /\ n <= m /\ n <= n
      BY <2>3, <2>6, <3>1, <3>2, <3>3
    <3>5. f[n] = g[n]
      BY <2>4, <2>6, <3>4, FoldFacts
    <3>6. QED
      BY <3>1, <3>2, <3>5
  <2>8. fold(e)[n + 1] = base * fold(e)[n] + DigitWorth(c)
    BY <2>3, <2>5, <2>6 DEF IsFold
  <2>9. QED
    BY <1>2, <2>1, <2>7, <2>8 DEF n, e
<1>7. QED
  BY <1>4, <1>5, <1>6

-----------------------------------------------------------------------------
(* The digits of a number *)

\* The characters that stand for the digits of a base.
DigitCodes(base) == {c \in 48 .. 122 : IsDigit(c, base)}

\* The digits left to write of a number, none of zero.
Written(v, r, u) == IF v = 0 THEN <<>> ELSE Digits(v, r, u)

\* The texts of the numbers up to n.
IsDigitsOf(f, n, r, u) ==
  f = [v \in 0 .. n |-> IF v = 0 THEN <<>> ELSE Append(f[v \div r], DigitChar(v % r, u))]

(* A quotient by two or more is smaller than what was divided. *)
LEMMA QuotientSmaller ==
  ASSUME NEW v \in Nat, v # 0, NEW r \in Nat, r >= 2, r <= 36
  PROVE  v \div r \in 0 .. v - 1 /\ v % r \in 0 .. r - 1 /\ v = r * (v \div r) + (v % r)
<1>1. r \in Nat /\ r >= 2
  OBVIOUS
<1> DEFINE q == v \div r  d == v % r
<1>2. q \in Nat /\ d \in 0 .. r - 1 /\ v = (q * r) + d
  BY <1>1, DivisionLaw
<1> HIDE DEF q, d
<1>3. q * r >= q * 2
  BY <1>1, <1>2
<1>4. q * r = r * q
  BY <1>1, <1>2
<1>5. q < v
  BY <1>1, <1>2, <1>3
<1>6. QED
  BY <1>2, <1>4, <1>5 DEF q, d

(* A digit is a character that reads as it. *)
LEMMA DigitCharIs ==
  ASSUME NEW r \in Nat, r >= 2, r <= 36, NEW d \in 0 .. r - 1, NEW u \in BOOLEAN
  PROVE  DigitChar(d, u) \in DigitCodes(r) /\ DigitWorth(DigitChar(d, u)) = d /\ d \in Nat
<1>1. d \in 0 .. 35
  OBVIOUS
<1>2. DigitWorth(DigitChar(d, u)) = d
  BY <1>1, DigitCharWorth
<1>3. DigitChar(d, u) \in 48 .. 57 \cup 65 .. 90 \cup 97 .. 122
  BY <1>1 DEF DigitChar
<1>4. d < r
  OBVIOUS
<1>5. QED
  BY <1>1, <1>2, <1>3, <1>4 DEF DigitCodes, IsDigit

(* The texts of the numbers up to n exist. *)
LEMMA DigitsExist ==
  ASSUME NEW r \in Nat, r >= 2, r <= 36, NEW u \in BOOLEAN, NEW n \in Nat
  PROVE  \E f : IsDigitsOf(f, n, r, u)
<1> DEFINE G == {k \in Nat : \E f : IsDigitsOf(f, k, r, u)}
<1>1. ASSUME NEW k \in Nat, \A j \in 0 .. k - 1 : j \in G PROVE k \in G
  <2>1. SUFFICES \E f : IsDigitsOf(f, k, r, u)
    OBVIOUS
  <2>2. CASE k = 0
    <3>1. IsDigitsOf([v \in 0 .. 0 |-> <<>>], 0, r, u)
      BY DEF IsDigitsOf
    <3>2. QED
      BY <2>2, <3>1
  <2>3. CASE k # 0
    <3>1. k - 1 \in 0 .. k - 1
      BY <2>3
    <3>2. PICK g : IsDigitsOf(g, k - 1, r, u)
      BY <1>1, <3>1
    <3> DEFINE f == [v \in 0 .. k |-> IF v = k THEN Append(g[k \div r], DigitChar(k % r, u)) ELSE g[v]]
    <3>3. ASSUME NEW v \in 0 .. k
          PROVE  f[v] = IF v = 0 THEN <<>> ELSE Append(f[v \div r], DigitChar(v % r, u))
      <4>1. v # 0 => v \div r \in 0 .. v - 1
        <5>1. v \in Nat
          OBVIOUS
        <5>2. QED
          BY <5>1, QuotientSmaller
      <4>2. v # 0 => \A q \in 0 .. v - 1 : q \in 0 .. k /\ q # k
        OBVIOUS
      <4>3. v # 0 => f[v \div r] = g[v \div r]
        BY <4>1, <4>2
      <4>4. v # k => v \in 0 .. k - 1
        OBVIOUS
      <4>5. v # k => g[v] = IF v = 0 THEN <<>> ELSE Append(g[v \div r], DigitChar(v % r, u))
        BY <3>2, <4>4 DEF IsDigitsOf
      <4>6. f[v] = IF v = k THEN Append(g[k \div r], DigitChar(k % r, u)) ELSE g[v]
        OBVIOUS
      <4> HIDE DEF f
      <4>7. CASE v = k
        BY <2>3, <4>3, <4>6, <4>7
      <4>8. CASE v # k
        BY <4>3, <4>5, <4>6, <4>8
      <4>9. QED
        BY <4>7, <4>8
    <3>4. f = [v \in 0 .. k |-> f[v]]
      OBVIOUS
    <3> HIDE DEF f
    <3>5. IsDigitsOf(f, k, r, u)
      BY <3>3, <3>4 DEF IsDigitsOf
    <3>6. QED
      BY <3>5
  <2>4. QED
    BY <2>2, <2>3
<1> HIDE DEF G
<1>2. n \in G
  BY <1>1, InductionOn
<1>3. QED
  BY <1>2 DEF G

(* Texts of digits, and the same whichever number they were made for. *)
LEMMA DigitsSame ==
  ASSUME NEW r \in Nat, r >= 2, r <= 36, NEW u \in BOOLEAN, NEW n \in Nat, NEW m \in Nat, NEW f, NEW g,
         IsDigitsOf(f, n, r, u), IsDigitsOf(g, m, r, u), NEW v \in Nat, v <= n, v <= m
  PROVE  f[v] \in Seq(DigitCodes(r)) /\ f[v] = g[v]
<1> DEFINE G == {k \in Nat : k <= n /\ k <= m => f[k] \in Seq(DigitCodes(r)) /\ f[k] = g[k]}
<1>1. ASSUME NEW k \in Nat, \A j \in 0 .. k - 1 : j \in G PROVE k \in G
  <2>1. SUFFICES ASSUME k <= n, k <= m PROVE f[k] \in Seq(DigitCodes(r)) /\ f[k] = g[k]
    OBVIOUS
  <2>2. k \in 0 .. n /\ k \in 0 .. m
    BY <2>1
  <2>3. /\ f[k] = IF k = 0 THEN <<>> ELSE Append(f[k \div r], DigitChar(k % r, u))
        /\ g[k] = IF k = 0 THEN <<>> ELSE Append(g[k \div r], DigitChar(k % r, u))
    BY <2>2 DEF IsDigitsOf
  <2>4. CASE k = 0
    BY <2>3, <2>4
  <2>5. CASE k # 0
    <3>1. k \div r \in 0 .. k - 1 /\ k % r \in 0 .. r - 1
      BY <2>5, QuotientSmaller
    <3>2. PICK q \in 0 .. k - 1 : q = k \div r
      BY <3>1
    <3>3. q <= n /\ q <= m
      BY <2>1
    <3>4. f[q] \in Seq(DigitCodes(r)) /\ f[q] = g[q]
      BY <1>1, <3>3
    <3>5. DigitChar(k % r, u) \in DigitCodes(r)
      BY <3>1, DigitCharIs
    <3> DEFINE c == DigitChar(k % r, u)
    <3> HIDE DEF c
    <3>6. f[k] = Append(f[q], c) /\ g[k] = Append(g[q], c)
      BY <2>3, <2>5, <3>2 DEF c
    <3>7. QED
      BY <3>4, <3>5, <3>6 DEF c
  <2>6. QED
    BY <2>4, <2>5
<1> HIDE DEF G
<1>2. v \in G
  BY <1>1, InductionOn
<1>3. QED
  BY <1>2 DEF G

(* The digits of a number are those of its quotient by the base, and one more. *)
LEMMA WrittenFacts ==
  ASSUME NEW r \in Nat, r >= 2, r <= 36, NEW u \in BOOLEAN, NEW v \in Nat
  PROVE  /\ Written(v, r, u) \in Seq(DigitCodes(r))
         /\ v # 0 => Written(v, r, u) = Append(Written(v \div r, r, u), DigitChar(v % r, u))
<1> DEFINE of(n) == CHOOSE f : IsDigitsOf(f, n, r, u)
<1>1. ASSUME NEW n \in Nat PROVE IsDigitsOf(of(n), n, r, u)
  BY DigitsExist
<1>2. ASSUME NEW n \in Nat, n # 0 PROVE Digits(n, r, u) = of(n)[n]
  BY <1>2 DEF Digits, IsDigitsOf
<1> HIDE DEF of
<1>3. ASSUME NEW n \in Nat PROVE Written(n, r, u) = of(n)[n]
  <2>1. of(n)[0] = <<>>
    BY <1>1 DEF IsDigitsOf
  <2>2. QED
    BY <1>2, <2>1 DEF Written
<1>4. Written(v, r, u) \in Seq(DigitCodes(r))
  <2>1. PICK f : f = of(v)
    OBVIOUS
  <2>2. IsDigitsOf(f, v, r, u) /\ v <= v
    BY <1>1, <2>1
  <2>3. f[v] \in Seq(DigitCodes(r))
    BY <2>2, DigitsSame
  <2>4. QED
    BY <1>3, <2>1, <2>3
<1>5. ASSUME v # 0
      PROVE  Written(v, r, u) = Append(Written(v \div r, r, u), DigitChar(v % r, u))
  <2>1. PICK q \in 0 .. v - 1 : q = v \div r
    BY <1>5, QuotientSmaller
  <2>2. q \in Nat /\ q <= v /\ q <= q /\ v \in 0 .. v
    OBVIOUS
  <2>3. of(v)[v] = Append(of(v)[q], DigitChar(v % r, u))
    <3> DEFINE c == DigitChar(v % r, u)
    <3> HIDE DEF c
    <3>1. of(v)[v] = Append(of(v)[v \div r], c)
      BY <1>1, <1>5, <2>2 DEF IsDigitsOf, c
    <3>2. QED
      BY <2>1, <3>1 DEF c
  <2>4. of(v)[q] = of(q)[q]
    <3>1. PICK f : f = of(v)
      OBVIOUS
    <3>2. PICK g : g = of(q)
      OBVIOUS
    <3>3. IsDigitsOf(f, v, r, u) /\ IsDigitsOf(g, q, r, u)
      BY <1>1, <2>2, <3>1, <3>2
    <3>4. f[q] = g[q]
      BY <2>2, <3>3, DigitsSame
    <3>5. QED
      BY <3>1, <3>2, <3>4
  <2>5. QED
    BY <1>3, <2>1, <2>2, <2>3, <2>4
<1>6. QED
  BY <1>4, <1>5

(* Characters of digits are worth numbers. *)
LEMMA CodesAreDigits ==
  ASSUME NEW r \in Nat, NEW d \in Seq(DigitCodes(r))
  PROVE  IsDigits(d)
<1> SUFFICES ASSUME NEW i \in 1 .. Len(d) PROVE DigitWorth(d[i]) \in Nat
  BY DEF IsDigits
<1>1. d[i] \in DigitCodes(r)
  OBVIOUS
<1>2. d[i] \in 48 .. 57 \/ d[i] \in 65 .. 90 \/ d[i] \in 97 .. 122
  BY <1>1 DEF DigitCodes, IsDigit
<1>3. PICK c \in Int : c = d[i]
  BY <1>2
<1>4. c \in 48 .. 57 \/ c \in 65 .. 90 \/ c \in 97 .. 122
  BY <1>2, <1>3
<1>5. DigitWorth(c) \in Nat
  BY <1>4 DEF DigitWorth
<1>6. QED
  BY <1>3, <1>5

(* Read again, the digits of a number are the number. *)
LEMMA WorthOfWritten ==
  ASSUME NEW r \in Nat, r >= 2, r <= 36, NEW u \in BOOLEAN, NEW v \in Nat
  PROVE  Worth(Written(v, r, u), r) = v
<1> DEFINE G == {k \in Nat : Worth(Written(k, r, u), r) = k}
<1>1. ASSUME NEW k \in Nat, \A j \in 0 .. k - 1 : j \in G PROVE k \in G
  <2>1. SUFFICES Worth(Written(k, r, u), r) = k
    OBVIOUS
  <2>2. r \in Nat
    OBVIOUS
  <2>3. CASE k = 0
    <3>1. <<>> \in Seq(DigitCodes(r)) /\ Written(0, r, u) = <<>>
      BY DEF Written
    <3>2. IsDigits(<<>>)
      BY DEF IsDigits
    <3>3. QED
      BY <2>2, <2>3, <3>1, <3>2, WorthFacts
  <2>4. CASE k # 0
    <3>1. k \div r \in 0 .. k - 1 /\ k % r \in 0 .. r - 1 /\ k = r * (k \div r) + (k % r)
      BY <2>4, QuotientSmaller
    <3>2. PICK q \in 0 .. k - 1 : q = k \div r
      BY <3>1
    <3>3. PICK c \in 0 .. r - 1 : c = k % r
      BY <3>1
    <3>4. Worth(Written(q, r, u), r) = q
      BY <1>1
    <3>5. Written(k, r, u) = Append(Written(q, r, u), DigitChar(c, u))
      BY <2>4, <3>2, <3>3, WrittenFacts
    <3>6. q \in Nat /\ Written(q, r, u) \in Seq(DigitCodes(r))
      <4>1. q \in Nat
        OBVIOUS
      <4>2. QED
        BY <4>1, WrittenFacts
    <3>7. IsDigits(Written(q, r, u))
      BY <2>2, <3>6, CodesAreDigits
    <3>8. DigitChar(c, u) \in DigitCodes(r) /\ DigitWorth(DigitChar(c, u)) = c /\ c \in Nat
      BY DigitCharIs
    <3>9. Worth(Append(Written(q, r, u), DigitChar(c, u)), r) = r * q + c
      <4> DEFINE d == Written(q, r, u)  e == DigitChar(c, u)
      <4> HIDE DEF d, e
      <4>1. d \in Seq(DigitCodes(r)) /\ IsDigits(d) /\ e \in DigitCodes(r) /\ DigitWorth(e) = c
            /\ Worth(d, r) = q
        BY <3>4, <3>6, <3>7, <3>8 DEF d, e
      <4>2. Worth(Append(d, e), r) = r * Worth(d, r) + DigitWorth(e)
        <5>1. PICK S : S = DigitCodes(r)
          OBVIOUS
        <5>2. d \in Seq(S) /\ IsDigits(d) /\ e \in S /\ DigitWorth(e) \in Nat /\ r \in Nat
          BY <2>2, <3>8, <4>1, <5>1
        <5>3. QED
          BY ONLY <5>2, WorthFacts
      <4>3. QED
        BY <4>1, <4>2 DEF d, e
    <3>10. k = r * q + c
      BY <3>1, <3>2, <3>3
    <3>11. QED
      BY <3>5, <3>9, <3>10
  <2>5. QED
    BY <2>3, <2>4
<1> HIDE DEF G
<1>2. v \in G
  BY <1>1, InductionOn
<1>3. QED
  BY <1>2 DEF G

\* A text that begins with the beginning of a character, if not at once with
\* its end.
BeginsWhole(t) == t = <<>> \/ t[1] \notin 128 .. 191

\* A fault is one still when a text follows that begins with a character.
LEMMA FaultBefore ==
  ASSUME NEW u \in Seq(Nat), NEW v \in Seq(Nat), BeginsWhole(v), NEW p \in 0 .. Len(u),
         Faulty(PointsFrom(u)[p])
  PROVE  Faulty(PointsFrom(u \o v)[p])
<1>2. PICK n \in Nat, m \in Nat : n = Len(u) /\ m = Len(v)
  BY LenProperties
<1>1. PICK w \in Seq(Nat) :
        /\ w = u \o v /\ n = Len(u) /\ m = Len(v) /\ Len(w) = n + m
        /\ \A i \in 1 .. n : w[i] = u[i]
        /\ \A i \in 1 .. m : w[n + i] = v[i]
  <2>1. PICK w : w = u \o v
    OBVIOUS
  <2>2. /\ w \in Seq(Nat) /\ Len(w) = Len(u) + Len(v)
        /\ \A i \in 1 .. Len(u) : w[i] = u[i]
        /\ \A i \in 1 .. Len(v) : w[Len(u) + i] = v[i]
    BY <2>1, Joined
  <2> QED
    BY <1>2, <2>1, <2>2
<1> DEFINE G == {k \in Nat : \A x \in 0 .. n : x + k >= n /\ Faulty(PointsFrom(u)[x]) => Faulty(PointsFrom(w)[x])}
<1>3. ASSUME NEW k \in Nat, \A j \in 0 .. k - 1 : j \in G PROVE k \in G
  <2> SUFFICES ASSUME NEW x \in 0 .. n, x + k >= n, Faulty(PointsFrom(u)[x])
               PROVE  Faulty(PointsFrom(w)[x])
    OBVIOUS
  <2>1. CASE x = n
    <3>1. PointsFrom(u)[x] = <<>>
      <4>1. x \in Nat /\ x >= Len(u)
        BY <1>1, <2>1
      <4> QED
        BY <4>1, PointsStep
    <3> QED
      BY <3>1, OneCharacter
  <2>2. CASE x < n
    <3>1. PICK a : a = Announced(u[x + 1])
      OBVIOUS
    <3>2. x \in 0 .. Len(u) - 1 /\ x \in 0 .. Len(w) - 1 /\ w[x + 1] = u[x + 1]
      BY <1>1, <2>2
    <3>3. PICK r : r = extract_utf8(u, x)
      OBVIOUS
    <3>4. PICK s : s = extract_utf8(w, x)
      OBVIOUS
    <3>5. /\ r.len \in 1 .. n - x
          /\ Faulty(PointsFrom(u)[x]) <=> char_error(r.ch) # success \/ Faulty(PointsFrom(u)[x + r.len])
      BY <1>1, <3>2, <3>3, FaultsAhead
    <3>6. Faulty(PointsFrom(w)[x]) <=> char_error(s.ch) # success \/ Faulty(PointsFrom(w)[x + s.len])
      BY <3>2, <3>4, FaultsAhead
    <3>7. CASE a # 0 /\ Whole(u, x, a)
      <4>1. a \in 1 .. n - x /\ char_error(r.ch) = success
        BY <1>1, <3>1, <3>2, <3>3, <3>7, WholeReads
      <4>2. s = r
        <5>1. \A i \in 1 .. a : w[x + i] = u[x + i]
          BY <1>1, <3>2, <4>1
        <5>2. x + a <= Len(w) /\ x \in Nat
          BY <1>1, <3>2, <4>1
        <5> QED
          BY <3>1, <3>2, <3>3, <3>4, <3>7, <5>1, <5>2, WholeSame
      <4>3. PICK l : l = r.len
        OBVIOUS
      <4>4. l \in 1 .. n - x
        BY <3>5, <4>3
      <4>5. x + l \in 0 .. n /\ k - 1 \in 0 .. k - 1 /\ (x + l) + (k - 1) >= n
        BY <2>2, <4>4
      <4>6. Faulty(PointsFrom(u)[x + l])
        BY <3>5, <4>1, <4>3
      <4>7. Faulty(PointsFrom(w)[x + l])
        BY <1>3, <4>5, <4>6
      <4> QED
        BY <3>6, <4>2, <4>3, <4>7
    <3>8. CASE ~(a # 0 /\ Whole(u, x, a))
      <4>1. a \in 0 .. 4
        BY <3>1 DEF Announced
      <4>2. ASSUME a # 0, Whole(w, x, a) PROVE Whole(u, x, a)
        <5>1. x + a <= n
          <6> SUFFICES ASSUME x + a > n PROVE FALSE
            BY <1>1, <4>1
          <6>1. m > 0 /\ n + 1 \in x + 2 .. x + a /\ 1 \in 1 .. m
            BY <1>1, <2>2, <4>1, <4>2 DEF Whole, Fits
          <6>2. w[n + 1] \in 128 .. 191
            BY <4>2, <6>1 DEF Whole, Trailed
          <6>3. v[1] \in 128 .. 191 /\ v # <<>>
            BY <1>1, <6>1, <6>2
          <6> QED
            BY <6>3 DEF BeginsWhole
        <5>2. ASSUME NEW i \in x + 2 .. x + a PROVE u[i] \in 128 .. 191
          <6>1. w[i] \in 128 .. 191
            BY <4>2 DEF Whole, Trailed
          <6>2. i \in 1 .. n
            BY <4>1, <5>1
          <6> QED
            BY <1>1, <6>1, <6>2
        <5> QED
          BY <1>1, <5>1, <5>2 DEF Whole, Fits, Trailed
      <4>3. ~(a # 0 /\ Whole(w, x, a))
        BY <3>8, <4>2
      <4>4. char_error(s.ch) # success
        BY <3>1, <3>2, <3>4, <4>3, BrokenReads
      <4> QED
        BY <3>6, <4>4
    <3> QED
      BY <3>7, <3>8
  <2> QED
    BY <1>1, <2>1, <2>2
<1>4. n \in G
  <2> HIDE DEF G
  <2> QED
    BY <1>3, InductionOn
<1>5. p \in 0 .. n /\ p + n >= n
  BY <1>1
<1> QED
  BY <1>1, <1>4, <1>5

\* The same of a whole text.
LEMMA FaultStays ==
  ASSUME NEW u \in Seq(Nat), NEW v \in Seq(Nat), BeginsWhole(v), Faulty(Points(u))
  PROVE  Faulty(Points(u \o v))
<1>1. 0 \in 0 .. Len(u)
  OBVIOUS
<1> QED
  BY <1>1, FaultBefore DEF Points

\* A byte that goes on with a character announces none, and one below 128 is
\* none of them.
LEMMA TrailFacts ==
  /\ \A c \in 128 .. 191 : c \in Nat /\ c >= 128 /\ Announced(c) = 0
  /\ \A c \in Nat : c < 128 => c \notin 128 .. 191
BY DEF Announced

\* A text without faults begins with a character.
LEMMA SoundBegins ==
  ASSUME NEW u \in Seq(Nat), ~Faulty(Points(u))
  PROVE  BeginsWhole(u)
<1> SUFFICES ASSUME u # <<>>, u[1] \in 128 .. 191 PROVE FALSE
  BY DEF BeginsWhole
<1>1. Len(u) \in Nat /\ Len(u) # 0
  BY EmptySeq
<1>2. 0 \in 0 .. Len(u) - 1 /\ 0 + 1 = 1
  BY <1>1
<1>3. Announced(u[1]) = 0
  BY TrailFacts
<1>4. char_error(extract_utf8(u, 0).ch) # success
  BY <1>2, <1>3, BrokenReads
<1> QED
  BY <1>2, <1>4, FaultsAhead DEF Points

\* A character of one byte before a text is read by itself.
LEMMA AsciiAhead ==
  ASSUME NEW c \in Nat, c < 128, NEW v \in Seq(Nat)
  PROVE  /\ <<c>> \in Seq(Nat) /\ Points(<<c>>) = <<c>> /\ ~Faulty(Points(<<c>>))
         /\ Points(<<c>> \o v) = <<c>> \o Points(v)
         /\ Faulty(Points(<<c>> \o v)) <=> Faulty(Points(v))
<1>1. PICK u : u = <<c>>
  OBVIOUS
<1>2. u \in Seq(Nat) /\ Points(u) = u /\ ~Faulty(Points(u))
  <2>1. write_utf8(c) = u
    BY <1>1 DEF write_utf8
  <2>2. c <= MaxCode
    BY DEF MaxCode
  <2> QED
    BY <1>1, <2>1, <2>2, WrittenReads
<1>3. Points(u \o v) = Points(u) \o Points(v) /\ (Faulty(Points(u \o v)) <=> Faulty(Points(v)))
  BY <1>2, PointsOfBoth
<1> QED
  BY <1>1, <1>2, <1>3

\* Two texts, when each begins with a character.
LEMMA BeginsJoined ==
  ASSUME NEW a \in Seq(Nat), NEW b \in Seq(Nat), BeginsWhole(a), BeginsWhole(b)
  PROVE  BeginsWhole(a \o b)
<1>1. CASE a = <<>>
  BY <1>1, JoinedToNone
<1>2. CASE a # <<>>
  <2>1. Len(a) \in Nat /\ Len(a) # 0
    BY <1>2, EmptySeq
  <2>2. (a \o b)[1] = a[1]
    BY <2>1, Joined
  <2> QED
    BY <1>2, <2>2 DEF BeginsWhole
<1> QED
  BY <1>1, <1>2

\* A text is what is before a place and what is behind it.
LEMMA TextParts ==
  ASSUME NEW u \in Seq(Nat), NEW p \in 0 .. Len(u)
  PROVE  LET a == SubSeq(u, 1, p)
             b == SubSeq(u, p + 1, Len(u))
         IN  /\ a \in Seq(Nat) /\ b \in Seq(Nat) /\ u = a \o b
             /\ Len(b) = Len(u) - p /\ \A i \in 1 .. Len(u) - p : b[i] = u[p + i]
<1>1. PICK n \in Nat : n = Len(u)
  BY LenProperties
<1>2. p \in Nat /\ p <= n
  BY <1>1
<1>3. PICK a, b : a = SubSeq(u, 1, p) /\ b = SubSeq(u, p + 1, n)
  OBVIOUS
<1>4. \A i \in 1 .. n : u[i] \in Nat
  BY <1>1, ElementOfSeq
<1>5. a \in Seq(Nat) /\ Len(a) = p /\ \A i \in 1 .. p : a[i] = u[i]
  <2>1. \A i \in 1 .. p : u[i] \in Nat
    BY <1>2, <1>4
  <2>2. 1 \in Int /\ p \in Int /\ (IF 1 <= p THEN p - 1 + 1 ELSE 0) = p /\ p - 1 + 1 = p
        /\ \A i \in Nat : 1 + i - 1 = i
    BY <1>2
  <2> QED
    BY <1>3, <2>1, <2>2, SubSeqProperties
<1>6. b \in Seq(Nat) /\ Len(b) = n - p /\ \A i \in 1 .. n - p : b[i] = u[p + i]
  <2>1. \A i \in p + 1 .. n : u[i] \in Nat
    BY <1>2, <1>4
  <2>2. p + 1 \in Int /\ n \in Int /\ (IF p + 1 <= n THEN n - (p + 1) + 1 ELSE 0) = n - p
        /\ n - (p + 1) + 1 = n - p /\ \A i \in Nat : (p + 1) + i - 1 = p + i
    BY <1>2
  <2> QED
    BY <1>3, <2>1, <2>2, SubSeqProperties
<1>7. PICK c : c = a \o b
  OBVIOUS
<1>8. /\ c \in Seq(Nat) /\ Len(c) = n
      /\ \A i \in 1 .. p : c[i] = a[i]
      /\ \A i \in 1 .. n - p : c[p + i] = b[i]
  <2>1. /\ c \in Seq(Nat) /\ Len(c) = Len(a) + Len(b)
        /\ \A i \in 1 .. Len(a) : c[i] = a[i]
        /\ \A i \in 1 .. Len(b) : c[Len(a) + i] = b[i]
    BY <1>5, <1>6, <1>7, Joined
  <2> QED
    BY <1>2, <1>5, <1>6, <2>1
<1>9. ASSUME NEW i \in 1 .. n PROVE c[i] = u[i]
  <2>1. CASE i <= p
    <3>1. i \in 1 .. p
      BY <1>2, <2>1
    <3> QED
      BY <1>5, <1>8, <3>1
  <2>2. CASE i > p
    <3>1. i - p \in 1 .. n - p /\ p + (i - p) = i
      BY <1>2, <2>2
    <3> QED
      BY <1>6, <1>8, <3>1
  <2> QED
    BY <1>2, <2>1, <2>2
<1>10. u = c
  BY <1>1, <1>8, <1>9, SeqEqual
<1> QED
  BY <1>1, <1>3, <1>5, <1>6, <1>7, <1>10

\* What is behind the beginning of a character has no faults, when the text
\* has none.
LEMMA SoundBehind ==
  ASSUME NEW u \in Seq(Nat), ~Faulty(Points(u)), NEW p \in 0 .. Len(u),
         p < Len(u) => u[p + 1] \notin 128 .. 191
  PROVE  ~Faulty(Points(SubSeq(u, p + 1, Len(u))))
<1>1. PICK a \in Seq(Nat), b \in Seq(Nat) :
        /\ b = SubSeq(u, p + 1, Len(u)) /\ u = a \o b
        /\ Len(b) = Len(u) - p /\ \A i \in 1 .. Len(u) - p : b[i] = u[p + i]
  BY TextParts
<1>2. BeginsWhole(b)
  <2> SUFFICES ASSUME b # <<>> PROVE b[1] \notin 128 .. 191
    BY DEF BeginsWhole
  <2>1. Len(b) \in Nat /\ Len(b) # 0 /\ Len(u) \in Nat
    BY EmptySeq
  <2>2. p < Len(u) /\ 1 \in 1 .. Len(u) - p
    BY <1>1, <2>1
  <2> QED
    BY <1>1, <2>2
<1>3. ~Faulty(Points(a))
  BY <1>1, <1>2, FaultStays
<1>4. Faulty(Points(a \o b)) <=> Faulty(Points(b))
  BY <1>3, PointsOfBoth
<1> QED
  BY <1>1, <1>4, Zenon

\* Behind a character of one byte another one begins, and if that has more
\* than one byte the next byte is one of them.
LEMMA BehindAscii ==
  ASSUME NEW u \in Seq(Nat), ~Faulty(Points(u)), NEW p \in Nat, p < Len(u), u[p + 1] < 128
  PROVE  /\ p + 1 < Len(u) => u[p + 2] \notin 128 .. 191
         /\ p + 1 < Len(u) /\ u[p + 2] >= 128 => p + 2 < Len(u) /\ u[p + 3] >= 128
<1>1. PICK n \in Nat : n = Len(u)
  BY LenProperties
<1>2. \A i \in 1 .. n : u[i] \in Nat
  BY <1>1, ElementOfSeq
<1>3. PICK b \in Seq(Nat) : b = SubSeq(u, p + 1, n) /\ Len(b) = n - p /\ \A i \in 1 .. n - p : b[i] = u[p + i]
  <2>1. p \in 0 .. Len(u)
    BY <1>1
  <2> QED
    BY <1>1, <2>1, TextParts
<1>4. ~Faulty(Points(b))
  <2>1. p \in 0 .. Len(u) /\ (p < Len(u) => u[p + 1] \notin 128 .. 191)
    <3>1. p \in 0 .. Len(u) /\ p + 1 \in 1 .. n
      BY <1>1
    <3>2. u[p + 1] \in Nat
      BY <1>2, <3>1
    <3> QED
      BY <3>1, <3>2, TrailFacts
  <2> QED
    BY <1>1, <1>3, <2>1, SoundBehind
<1>5. p + 1 \in 1 .. n /\ 1 \in 0 .. n - p
  BY <1>1
<1>6. PICK c \in Nat, d \in Seq(Nat) :
        /\ c = u[p + 1] /\ b = <<c>> \o d /\ Len(d) = n - p - 1 /\ \A i \in 1 .. n - p - 1 : d[i] = u[p + 1 + i]
  <2>1. /\ SubSeq(b, 1, 1) \in Seq(Nat) /\ SubSeq(b, 2, n - p) \in Seq(Nat)
        /\ b = SubSeq(b, 1, 1) \o SubSeq(b, 2, n - p)
        /\ Len(SubSeq(b, 2, n - p)) = n - p - 1
        /\ \A i \in 1 .. n - p - 1 : SubSeq(b, 2, n - p)[i] = b[1 + i]
    <3>1. 1 \in 0 .. Len(b) /\ 1 + 1 = 2
      BY <1>3, <1>5
    <3>2. /\ SubSeq(b, 1, 1) \in Seq(Nat) /\ SubSeq(b, 1 + 1, Len(b)) \in Seq(Nat)
          /\ b = SubSeq(b, 1, 1) \o SubSeq(b, 1 + 1, Len(b))
          /\ Len(SubSeq(b, 1 + 1, Len(b))) = Len(b) - 1
          /\ \A i \in 1 .. Len(b) - 1 : SubSeq(b, 1 + 1, Len(b))[i] = b[1 + i]
      BY <3>1, TextParts
    <3> QED
      BY <1>3, <3>1, <3>2
  <2>2. SubSeq(b, 1, 1) = <<u[p + 1]>>
    <3>1. b[1] = u[p + 1] /\ u[p + 1] \in Nat
      BY <1>2, <1>3, <1>5
    <3>2. \A i \in 1 .. 1 : b[i] \in Nat
      BY <3>1
    <3>3. PICK s : s = SubSeq(b, 1, 1)
      OBVIOUS
    <3>4. s \in Seq(Nat) /\ Len(s) = 1 /\ s[1] = b[1]
      BY <3>2, <3>3, SubSeqProperties
    <3>5. PICK x \in Nat : x = u[p + 1]
      BY <3>1
    <3>6. s = <<x>>
      BY <3>1, <3>4, <3>5
    <3> QED
      BY <3>3, <3>5, <3>6
  <2>3. \A i \in 1 .. n - p - 1 : b[1 + i] = u[p + 1 + i]
    BY <1>3, <1>5
  <2> QED
    BY <1>2, <1>5, <2>1, <2>2, <2>3
<1>7. ~Faulty(Points(d))
  BY <1>4, <1>6, AsciiAhead
<1>8. ASSUME p + 1 < n PROVE d # <<>> /\ d[1] = u[p + 2] /\ d[1] \in Nat /\ 0 \in 0 .. Len(d) - 1
  BY <1>2, <1>5, <1>6, <1>8
<1>9. ASSUME p + 1 < n PROVE u[p + 2] \notin 128 .. 191
  BY <1>7, <1>8, <1>9, SoundBegins DEF BeginsWhole
<1>10. ASSUME p + 1 < n, u[p + 2] >= 128 PROVE p + 2 < n /\ u[p + 3] >= 128
  <2>1. PICK a : a = Announced(d[1])
    OBVIOUS
  <2>2. a # 0 /\ Whole(d, 0, a)
    <3>1. char_error(extract_utf8(d, 0).ch) = success
      BY <1>7, <1>8, <1>10, FaultsAhead DEF Points
    <3>2. 0 + 1 = 1
      OBVIOUS
    <3> QED
      BY <2>1, <3>1, <3>2, BrokenReads
  <2>3. a >= 2 /\ a \in Nat
    BY <1>8, <1>10, <2>1, <2>2 DEF Announced
  <2>4. Len(d) >= 2 /\ d[2] \in 128 .. 191
    <3>1. a <= Len(d) /\ 2 \in 0 + 2 .. 0 + a
      BY <2>2, <2>3 DEF Whole, Fits
    <3> QED
      BY <2>2, <2>3, <3>1 DEF Whole, Trailed
  <2>5. p + 2 < n /\ d[2] = u[p + 3]
    <3>1. 2 \in 1 .. n - p - 1 /\ p + 1 + 2 = p + 3
      BY <1>6, <2>4
    <3> QED
      BY <1>6, <3>1
  <2> QED
    BY ONLY <2>4, <2>5, TrailFacts
<1> QED
  BY <1>1, <1>9, <1>10

=============================================================================
