------------------------- MODULE StringStreamProofs -------------------------
(***************************************************************************)
(* Proofs about StringStream.tla, for every number of streams and blocks,  *)
(* every character type, and every size of the stack and of a size_t that  *)
(* satisfies the module's assumptions.                                     *)
(***************************************************************************)
EXTENDS StringStream, SequenceTheorems, TLAPS

\* The sizes that the doubling goes through.
Rooms == CHOOSE rooms \in SUBSET (0 .. SizeMod \div 2) :
           /\ {0, StackSize} \subseteq rooms
           /\ \A r \in rooms : Wrap(2 * r) \in rooms

Cell     == Char \cup {Junk}
Array(n) == [0 .. n - 1 -> Cell]

TypeOK ==
  /\ life    \in [Streams -> Life]
  /\ m_chars \in [Streams -> Storage]
  /\ m_alloc \in [Streams -> Rooms]
  /\ m_size  \in [Streams -> Nat]
  /\ DOMAIN mem = Storage
  /\ \A s \in Streams : mem[s] \in IF Live(s) THEN Array(StackSize) ELSE {NoStorage}
  /\ \A k \in Blocks : \E n \in Nat : mem[k] \in Array(n)
  /\ corrupt \in BOOLEAN

Heap(s) == Live(s) /\ IsHeap(s)

\* A live stream that calls itself is_heap() has a block of m_alloc
\* characters that no other such stream has.
HeapOwned ==
  \A s \in Streams : Heap(s) =>
    /\ m_chars[s] \in Blocks
    /\ DOMAIN mem[m_chars[s]] = 0 .. m_alloc[s] - 1
    /\ \A c \in Streams \ {s} : ~Owns(c, m_chars[s])

NoLeak == \A k \in Blocks \ Free : \E s \in Streams : Owns(s, k)

\* m_alloc tells an open stream from a moved one, and a stream that is not
\* on the heap is in its own m_stack; what it holds has been written.
Shape ==
  \A s \in Streams :
    /\ life[s] = "moved" => m_alloc[s] = 0
    /\ life[s] = "open" =>
         /\ StackSize <= m_alloc[s] /\ m_size[s] <= m_alloc[s]
         /\ ~IsHeap(s) => m_chars[s] = s
         /\ \A i \in 0 .. m_size[s] - 1 : mem[m_chars[s]][i] \in Char

\* The append under way: big_size is m_alloc until it has proved too small.
CallOK ==
  call # NoRequest =>
    /\ call \in [stream : Streams, what : Seq(Char), n : Nat, own : BOOLEAN, big : Rooms]
    /\ Live(call.stream)
    /\ call.n = Len(call.what) \/ (call.what = <<>> /\ call.n \in HugeCounts)
    /\ call.big # m_alloc[call.stream] => Needed > m_alloc[call.stream]
    /\ life[call.stream] = "moved" => call.big = 0

IInv == TypeOK /\ HeapOwned /\ NoLeak /\ Shape /\ CallOK /\ OnlyKnownMisuse

-----------------------------------------------------------------------------
\* What DoublingAssumption says of the set chosen.
LEMMA RoomsFit ==
  /\ Rooms \subseteq 0 .. SizeMod \div 2
  /\ 0 \in Rooms /\ StackSize \in Rooms
  /\ \A r \in Rooms : Wrap(2 * r) \in Rooms
<1>1. /\ Rooms \in SUBSET (0 .. SizeMod \div 2)
      /\ {0, StackSize} \subseteq Rooms
      /\ \A r \in Rooms : Wrap(2 * r) \in Rooms
  BY DoublingAssumption DEF Rooms
<1>2. QED
  BY <1>1

\* Rooms are counted by a size_t; a count that fits in one is not changed.
LEMMA RoomsType == \A r \in Rooms : r \in Nat /\ r <= SizeMod \div 2 /\ r < SizeMod
<1>1. SizeMod \div 2 \in Nat /\ SizeMod \div 2 < SizeMod
  BY StreamAssumption
<1>2. QED
  BY <1>1, RoomsFit, StreamAssumption

(* size_t holds the wrapped value, and a value that fits as it is. *)
LEMMA WrapFits ==
  ASSUME NEW n \in Nat
  PROVE  /\ Wrap(n) \in Nat /\ Wrap(n) < SizeMod
         /\ n < SizeMod => Wrap(n) = n
  BY StreamAssumption DEF Wrap

\* What the array helpers build.
LEMMA FreshType == ASSUME NEW n \in Nat PROVE Fresh(n) \in Array(n)
  BY DEF Fresh, Array, Cell

(* A freed block is an array without elements. *)
LEMMA NoStorageType == NoStorage \in Array(0) /\ DOMAIN NoStorage = {}
  BY DEF NoStorage, Array, Cell

(* The copy in a larger block has the size of that block. *)
LEMMA EnlargedType ==
  ASSUME NEW m \in Nat, NEW arr \in Array(m), NEW n \in Nat
  PROVE  Enlarged(arr, n) \in Array(n)
  BY DEF Enlarged, Array, Cell

(* The copy in a larger block has what was in the old one. *)
LEMMA EnlargedKeeps ==
  ASSUME NEW m \in Nat, NEW arr \in Array(m), NEW n \in Nat, NEW i \in 0 .. n - 1, i < m
  PROVE  Enlarged(arr, n)[i] = arr[i]
  BY DEF Enlarged, Array

\* Only the characters from position at on are written over.
LEMMA WrittenType ==
  ASSUME NEW m \in Nat, NEW arr \in Array(m), NEW at \in Nat, NEW what \in Seq(Char)
  PROVE  Written(arr, at, what) \in Array(m)
<1>1. \A i \in 0 .. m - 1 : (at <= i /\ i < at + Len(what)) => what[i - at + 1] \in Char
  OBVIOUS
<1>2. QED
  BY <1>1 DEF Written, Array, Cell

(* What append copies stands at its place, and everything else as before. *)
LEMMA WrittenOver ==
  ASSUME NEW m \in Nat, NEW arr \in Array(m), NEW at \in Nat, NEW what \in Seq(Char),
         NEW i \in 0 .. m - 1
  PROVE  Written(arr, at, what)[i] = IF at <= i /\ i < at + Len(what) THEN what[i - at + 1]
                                     ELSE arr[i]
  BY DEF Written, Array

\* A text put where another ends makes one text of both.
LEMMA WrittenText ==
  ASSUME NEW m \in Nat, NEW arr \in Array(m), NEW at \in Nat, NEW what \in Seq(Char),
         NEW n \in 0 .. m, n = at + Len(what), \A i \in 0 .. at - 1 : arr[i] \in Char
  PROVE  \A i \in 0 .. n - 1 : Written(arr, at, what)[i] \in Char
<1> SUFFICES ASSUME NEW i \in 0 .. n - 1 PROVE Written(arr, at, what)[i] \in Char
  OBVIOUS
<1>1. i \in 0 .. m - 1 /\ Len(what) \in Nat
  OBVIOUS
<1>2. CASE at <= i
  <2>1. i < at + Len(what) /\ i - at + 1 \in 1 .. Len(what)
    BY <1>1, <1>2
  <2>2. Written(arr, at, what)[i] = what[i - at + 1]
    BY <1>1, <1>2, <2>1, WrittenOver
  <2>3. QED
    BY <2>1, <2>2, ElementOfSeq
<1>3. CASE ~(at <= i)
  <2>1. i \in 0 .. at - 1
    BY <1>1, <1>3
  <2>2. Written(arr, at, what)[i] = arr[i]
    BY <1>1, <1>3, WrittenOver
  <2>3. QED
    BY <2>1, <2>2
<1>4. QED
  BY <1>2, <1>3

(* An append of nothing writes nothing. *)
LEMMA WrittenNothing ==
  ASSUME NEW m \in Nat, NEW arr \in Array(m), NEW at \in Nat
  PROVE  Written(arr, at, <<>>) = arr
<1>1. \A i \in DOMAIN arr : ~(at <= i /\ i < at + Len(<<>>))
  BY DEF Array
<1>2. QED
  BY <1>1 DEF Written, Array

\* Rooms beyond the stack's are not empty.
LEMMA HeapNotFree ==
  ASSUME IInv, NEW s \in Streams, Heap(s)
  PROVE  m_chars[s] \in Blocks \ Free /\ m_alloc[s] \in Nat /\ m_alloc[s] > StackSize
<1>1. m_alloc[s] \in Nat /\ m_alloc[s] > StackSize
  BY RoomsType DEF IInv, TypeOK, Heap, IsHeap
<1>2. 0 \in DOMAIN mem[m_chars[s]]
  BY <1>1, StreamAssumption DEF IInv, HeapOwned
<1>3. QED
  BY <1>1, <1>2, NoStorageType DEF IInv, HeapOwned, Free

\* delete[] in a live stream frees the block it owns and nothing else.
LEMMA DeletedFrees ==
  ASSUME IInv, NEW s \in Streams, Live(s)
  PROVE  /\ DOMAIN Deleted(s) = Storage
         /\ \A c \in Streams : Deleted(s)[c] = mem[c]
         /\ \A k \in Blocks : Deleted(s)[k] = IF Owns(s, k) THEN NoStorage ELSE mem[k]
<1>1. CASE IsHeap(s)
  BY <1>1, HeapNotFree, StreamAssumption DEF IInv, TypeOK, Heap, Deleted, Owns, Storage
<1>2. CASE ~IsHeap(s)
  BY <1>2 DEF IInv, TypeOK, Deleted, Owns, Storage
<1>3. QED
  BY <1>1, <1>2

-----------------------------------------------------------------------------
\* Before any stream is constructed nothing is in use.
THEOREM InitIInv == Init => IInv
<1> SUFFICES ASSUME Init PROVE IInv
  OBVIOUS
<1>1. TypeOK
  <2>1. /\ life \in [Streams -> Life] /\ m_chars \in [Streams -> Storage]
        /\ m_size \in [Streams -> Nat] /\ corrupt \in BOOLEAN
    BY DEF Init, Life, Storage
  <2>2. m_alloc \in [Streams -> Rooms]
    BY RoomsFit DEF Init
  <2>3. DOMAIN mem = Storage /\ \A p \in Storage : mem[p] = NoStorage
    BY DEF Init
  <2>4. QED
    BY <2>1, <2>2, <2>3, NoStorageType DEF TypeOK, Init, Live, Storage
<1>2. HeapOwned /\ Shape /\ CallOK /\ OnlyKnownMisuse
  BY DEF Init, HeapOwned, Heap, Live, Shape, CallOK, OnlyKnownMisuse
<1>3. NoLeak
  BY DEF Init, NoLeak, Free, Storage
<1>4. QED
  BY <1>1, <1>2, <1>3 DEF IInv

(***************************************************************************)
(* The operations that change one stream leave the others as they were and *)
(* give back the block it had, unless that is the block it has now.        *)
(***************************************************************************)
Released(s, k) == IF Owns(s, k) THEN NoStorage ELSE mem[k]

After(s, l, p, a, n) ==
  /\ life'    = [life EXCEPT ![s] = l]
  /\ m_chars' = [m_chars EXCEPT ![s] = p]
  /\ m_alloc' = [m_alloc EXCEPT ![s] = a]
  /\ m_size'  = [m_size EXCEPT ![s] = n]
  /\ corrupt' \in BOOLEAN
  /\ DOMAIN mem' = Storage
  /\ \A c \in Streams \ {s} : mem'[c] = mem[c]

\* One stream with m_alloc a, m_size n and its text at p keeps the storage
\* of all of them in order.
LEMMA Settle ==
  ASSUME IInv, NEW s \in Streams, NEW l \in Life, NEW p \in Storage,
         NEW a \in Rooms, NEW n \in Nat,
         After(s, l, p, a, n),
         mem'[s] \in IF l = "none" THEN {NoStorage} ELSE Array(StackSize),
         l = "none" \/ a <= StackSize => \A k \in Blocks : mem'[k] = Released(s, k),
         l # "none" /\ a > StackSize =>
           /\ p \in Blocks /\ Released(s, p) = NoStorage /\ mem'[p] \in Array(a)
           /\ \A k \in Blocks \ {p} : mem'[k] = Released(s, k),
         l = "moved" => a = 0,
         l = "open" => /\ StackSize <= a /\ n <= a
                       /\ a <= StackSize => p = s
                       /\ \A i \in 0 .. n - 1 : mem'[p][i] \in Char
  PROVE  TypeOK' /\ HeapOwned' /\ NoLeak' /\ Shape'
<1> USE StreamAssumption, RoomsType DEF IInv, After
<1>1. TypeOK'
  <2>1. /\ life' \in [Streams -> Life] /\ m_chars' \in [Streams -> Storage]
        /\ m_alloc' \in [Streams -> Rooms] /\ m_size' \in [Streams -> Nat]
        /\ corrupt' \in BOOLEAN
    BY DEF TypeOK
  <2>2. \A c \in Streams : mem'[c] \in IF Live(c)' THEN Array(StackSize) ELSE {NoStorage}
    BY DEF TypeOK, Live
  <2>3. \A k \in Blocks : \E m \in Nat : Released(s, k) \in Array(m)
    BY NoStorageType DEF TypeOK, Released
  <2>4. \A k \in Blocks : \E m \in Nat : mem'[k] \in Array(m)
    BY <2>3
  <2>5. QED
    BY <2>1, <2>2, <2>4 DEF TypeOK
<1>a. ASSUME NEW c \in Streams \ {s}, Heap(c)
      PROVE  /\ ~(l # "none" /\ a > StackSize /\ p = m_chars[c])
             /\ ~Owns(s, m_chars[c]) /\ m_chars[c] \in Blocks
             /\ mem'[m_chars[c]] = mem[m_chars[c]]
  <2>1. m_chars[c] \in Blocks \ Free /\ ~Owns(s, m_chars[c])
    BY <1>a, HeapNotFree DEF HeapOwned
  <2>2. Released(s, m_chars[c]) = mem[m_chars[c]] /\ mem[m_chars[c]] # NoStorage
    BY <2>1 DEF Released, Free
  <2>3. QED
    BY <2>1, <2>2
<1>b. \A c \in Streams \ {s} :
        /\ life'[c] = life[c] /\ m_chars'[c] = m_chars[c] /\ m_alloc'[c] = m_alloc[c]
        /\ m_size'[c] = m_size[c]
        /\ \A k : Owns(c, k)' <=> Owns(c, k)
        /\ Heap(c)' <=> Heap(c)
  BY DEF TypeOK, Owns, Heap, Live, IsHeap
<1>c. /\ life'[s] = l /\ m_chars'[s] = p /\ m_alloc'[s] = a /\ m_size'[s] = n
      /\ Heap(s)' <=> l # "none" /\ a > StackSize
      /\ \A k : Owns(s, k)' <=> l # "none" /\ a > StackSize /\ p = k
  BY DEF TypeOK, Owns, Heap, Live, IsHeap
<1>2. HeapOwned'
  <2>1. ASSUME NEW c \in Streams \ {s}, Heap(c)
        PROVE  /\ DOMAIN mem'[m_chars[c]] = 0 .. m_alloc[c] - 1
               /\ \A d \in Streams \ {c} : ~Owns(d, m_chars[c])'
    BY <2>1, <1>a, <1>b, <1>c DEF HeapOwned
  <2>2. ASSUME l # "none", a > StackSize
        PROVE  /\ DOMAIN mem'[p] = 0 .. a - 1
               /\ \A d \in Streams \ {s} : ~Owns(d, p)'
    BY <2>2, <1>a, <1>b DEF Array, Owns, Heap
  <2>3. QED
    BY <1>a, <1>b, <1>c, <2>1, <2>2 DEF HeapOwned
<1>3. NoLeak'
  <2> SUFFICES ASSUME NEW k \in Blocks, mem'[k] # NoStorage
               PROVE  \E c \in Streams : Owns(c, k)'
    BY DEF NoLeak, Free
  <2>1. CASE l # "none" /\ a > StackSize /\ k = p
    BY <2>1, <1>c
  <2>2. CASE ~(l # "none" /\ a > StackSize /\ k = p)
    <3>1. mem'[k] = Released(s, k)
      BY <2>2 DEF TypeOK
    <3>2. ~Owns(s, k) /\ k \notin Free
      BY <3>1 DEF Released, Free
    <3>3. QED
      BY <3>2, <1>b DEF NoLeak
  <2>3. QED
    BY <2>1, <2>2
<1>4. Shape'
  <2>1. ASSUME NEW c \in Streams \ {s}, life[c] = "open" PROVE mem'[m_chars[c]] = mem[m_chars[c]]
    <3>1. CASE IsHeap(c)
      BY <2>1, <3>1, <1>a DEF Heap, Live
    <3>2. CASE ~IsHeap(c)
      BY <2>1, <3>2 DEF Shape
    <3>3. QED
      BY <3>1, <3>2
  <2>2. QED
    BY <1>b, <1>c, <2>1 DEF Shape, IsHeap
<1>5. QED
  BY <1>1, <1>2, <1>3, <1>4

-----------------------------------------------------------------------------
\* No operation starts while an append is under way, so what CallOK and
\* OnlyKnownMisuse say stays true.
LEMMA QuietCall ==
  ASSUME IInv, Idle, UNCHANGED <<call, corrupt>>
  PROVE  CallOK' /\ OnlyKnownMisuse'
  BY DEF Idle, CallOK, OnlyKnownMisuse

(* A new stream stands on its own stack. *)
LEMMA ConstructIInv ==
  ASSUME IInv, NEW s \in Streams, Construct(s)
  PROVE  IInv'
<1>1. After(s, "open", s, StackSize, 0)
  BY StreamAssumption DEF Construct, After, IInv, TypeOK, Storage
<1>2. mem'[s] \in Array(StackSize) /\ \A k \in Blocks : mem'[k] = Released(s, k)
  BY FreshType, StreamAssumption DEF Construct, IInv, TypeOK, Storage, Released, Owns, Live
<1>3. TypeOK' /\ HeapOwned' /\ NoLeak' /\ Shape'
  BY <1>1, <1>2, Settle, RoomsFit, StreamAssumption DEF Life, Storage
<1>4. QED
  BY <1>3, QuietCall DEF Construct, IInv

\* The destructor frees the block of its stream alone.
LEMMA DestroyIInv ==
  ASSUME IInv, NEW s \in Streams, Destroy(s)
  PROVE  IInv'
<1>1. After(s, "none", s, 0, 0)
  BY DeletedFrees DEF Destroy, After, IInv, TypeOK, Storage
<1>2. mem'[s] = NoStorage /\ \A k \in Blocks : mem'[k] = Released(s, k)
  BY DeletedFrees, StreamAssumption DEF Destroy, Storage, Released
<1>3. TypeOK' /\ HeapOwned' /\ NoLeak' /\ Shape'
  BY <1>1, <1>2, Settle, RoomsFit DEF Life, Storage
<1>4. QED
  BY <1>3, QuietCall DEF Destroy, IInv

\* A stream moved onto itself frees its block and forgets it.
LEMMA MoveSelfIInv ==
  ASSUME IInv, NEW s \in Streams, MoveAssign(s, s)
  PROVE  IInv'
<1> DEFINE p == IF IsHeap(s) THEN m_chars[s] ELSE s
<1>1. After(s, "moved", p, 0, m_size[s]) /\ p \in Storage
  BY DeletedFrees DEF MoveAssign, TakeOver, After, IInv, TypeOK, Storage
<1>2. mem'[s] \in Array(StackSize) /\ \A k \in Blocks : mem'[k] = Released(s, k)
  BY DeletedFrees, StreamAssumption
     DEF MoveAssign, TakeOver, Storage, Released, IInv, TypeOK
<1>3. m_size[s] \in Nat /\ 0 <= StackSize
  BY StreamAssumption DEF IInv, TypeOK
<1> HIDE DEF p
<1>4. TypeOK' /\ HeapOwned' /\ NoLeak' /\ Shape'
  BY <1>1, <1>2, <1>3, Settle, RoomsFit DEF Life
<1>5. QED
  BY <1>4, QuietCall DEF MoveAssign, TakeOver, IInv

\* A block passes from c to s, which has none any more; nothing else moves.
LEMMA TakeOverIInv ==
  ASSUME IInv, Idle, NEW s \in Streams, NEW c \in Streams, s # c, Live(c),
         NEW old, DOMAIN old = Storage,
         \A d \in Streams : old[d] = mem[d],
         \A k \in Blocks : old[k] = Released(s, k),
         TakeOver(s, c, old)
  PROVE  IInv'
<1> USE StreamAssumption DEF IInv
<1>a. /\ life'[s] = life[c] /\ m_alloc'[s] = m_alloc[c] /\ m_size'[s] = m_size[c]
      /\ m_chars'[s] = IF IsHeap(c) THEN m_chars[c] ELSE s
      /\ life'[c] = "moved" /\ m_alloc'[c] = 0 /\ m_chars'[c] = m_chars[c]
      /\ m_size'[c] = m_size[c] /\ mem'[s] = mem[c] /\ mem'[c] = mem[c]
      /\ \A k \in Blocks : mem'[k] = Released(s, k)
      /\ \A d \in Streams \ {s, c} :
           /\ life'[d] = life[d] /\ m_alloc'[d] = m_alloc[d] /\ m_size'[d] = m_size[d]
           /\ m_chars'[d] = m_chars[d] /\ mem'[d] = mem[d]
  BY DEF TakeOver, TypeOK, Storage
<1>1. TypeOK'
  <2>1. /\ life' \in [Streams -> Life] /\ m_chars' \in [Streams -> Storage]
        /\ m_alloc' \in [Streams -> Rooms] /\ m_size' \in [Streams -> Nat]
        /\ corrupt' \in BOOLEAN /\ DOMAIN mem' = Storage
    BY RoomsFit DEF TakeOver, TypeOK, Storage, Life
  <2>2. \A d \in Streams : mem'[d] \in IF Live(d)' THEN Array(StackSize) ELSE {NoStorage}
    BY <1>a DEF TypeOK, Live
  <2>3. \A k \in Blocks : \E m \in Nat : mem'[k] \in Array(m)
    BY <1>a, NoStorageType DEF TypeOK, Released
  <2>4. QED
    BY <2>1, <2>2, <2>3 DEF TypeOK
\* Whoever owns a block now is s, with c's, or owned it before.
<1>b. /\ ~Heap(c)'
      /\ Heap(s)' <=> Heap(c)
      /\ \A k : /\ ~Owns(c, k)'
                /\ Owns(s, k)' <=> Owns(c, k)
      /\ \A d \in Streams \ {s, c} :
           /\ Heap(d)' <=> Heap(d)
           /\ \A k : Owns(d, k)' <=> Owns(d, k)
  BY <1>a DEF Heap, Owns, Live, IsHeap
<1>c. \A d \in Streams \ {s} : Heap(d) =>
        /\ m_chars[d] \in Blocks /\ ~Owns(s, m_chars[d])
        /\ mem'[m_chars[d]] = mem[m_chars[d]]
  BY <1>a DEF HeapOwned, Released
<1>2. HeapOwned'
  <2>1. ASSUME Heap(c)
        PROVE  /\ m_chars'[s] = m_chars[c] /\ m_chars[c] \in Blocks
               /\ DOMAIN mem'[m_chars[c]] = 0 .. m_alloc[c] - 1
               /\ \A d \in Streams \ {s} : ~Owns(d, m_chars[c])'
    BY <2>1, <1>a, <1>b, <1>c DEF HeapOwned, Heap
  <2>2. ASSUME NEW d \in Streams \ {s, c}, Heap(d)
        PROVE  /\ m_chars[d] \in Blocks
               /\ DOMAIN mem'[m_chars[d]] = 0 .. m_alloc[d] - 1
               /\ \A e \in Streams \ {d} : ~Owns(e, m_chars[d])'
    <3>1. /\ m_chars[d] \in Blocks /\ DOMAIN mem'[m_chars[d]] = 0 .. m_alloc[d] - 1
          /\ \A e \in Streams \ {d} : ~Owns(e, m_chars[d])
      BY <2>2, <1>c DEF HeapOwned
    <3>2. ~Owns(c, m_chars[d])' /\ ~Owns(s, m_chars[d])'
      BY <2>2, <3>1, <1>a, <1>b DEF Owns
    <3>3. \A e \in Streams \ {d, s, c} : ~Owns(e, m_chars[d])'
      BY <3>1, <1>a, <1>b DEF Owns
    <3>4. QED
      BY <3>1, <3>2, <3>3
  <2>3. QED
    BY <1>a, <1>b, <2>1, <2>2 DEF HeapOwned
<1>3. NoLeak'
  <2> SUFFICES ASSUME NEW k \in Blocks, mem'[k] # NoStorage
               PROVE  \E d \in Streams : Owns(d, k)'
    BY DEF NoLeak, Free
  <2>1. ~Owns(s, k) /\ k \notin Free
    BY <1>a DEF Released, Free
  <2>2. PICK d \in Streams \ {s} : Owns(d, k)
    BY <2>1 DEF NoLeak
  <2>3. QED
    BY <2>2, <1>b
<1>4. Shape'
  <2>1. ASSUME NEW d \in Streams \ {s}, life[d] = "open"
        PROVE  mem'[m_chars[d]] = mem[m_chars[d]] \/ (d = c /\ ~IsHeap(c))
    <3>1. CASE IsHeap(d)
      BY <2>1, <3>1, <1>c DEF Heap, Live
    <3>2. CASE ~IsHeap(d)
      BY <2>1, <3>2, <1>a DEF Shape
    <3>3. QED
      BY <3>1, <3>2
  <2>2. ASSUME life[c] = "open" PROVE mem'[m_chars'[s]] = mem[m_chars[c]]
    <3>1. CASE IsHeap(c)
      BY <2>2, <3>1, <1>a, <1>c DEF Heap, Live
    <3>2. CASE ~IsHeap(c)
      BY <2>2, <3>2, <1>a DEF Shape
    <3>3. QED
      BY <3>1, <3>2
  <2>3. QED
    BY <1>a, <2>1, <2>2 DEF Shape, IsHeap
<1>5. QED
  BY <1>1, <1>2, <1>3, <1>4, QuietCall DEF TakeOver

(* The move constructor keeps the invariant: the source gives up its block. *)
LEMMA MoveConstructIInv ==
  ASSUME IInv, NEW s \in Streams, NEW c \in Streams, MoveConstruct(s, c)
  PROVE  IInv'
<1>1. Idle /\ s # c /\ Live(c) /\ ~Live(s) /\ TakeOver(s, c, mem)
  BY DEF MoveConstruct, Live
<1>2. DOMAIN mem = Storage /\ \A k \in Blocks : mem[k] = Released(s, k)
  BY <1>1 DEF IInv, TypeOK, Released, Owns
<1>3. QED
  BY <1>1, <1>2, TakeOverIInv

(* A move assignment keeps the invariant, to itself as well: after that the block is gone. *)
LEMMA MoveAssignIInv ==
  ASSUME IInv, NEW s \in Streams, NEW c \in Streams, MoveAssign(s, c)
  PROVE  IInv'
<1>1. CASE s = c
  BY <1>1, MoveSelfIInv
<1>2. CASE s # c
  <2>1. /\ DOMAIN Deleted(s) = Storage
        /\ \A d \in Streams : Deleted(s)[d] = mem[d]
        /\ \A k \in Blocks : Deleted(s)[k] = Released(s, k)
    BY DeletedFrees DEF MoveAssign, Released
  <2>2. QED
    BY <1>2, <2>1, TakeOverIInv DEF MoveAssign
<1>3. QED
  BY <1>1, <1>2

\* truncate() and erase() leave a shorter text where it is.
LEMMA CutIInv ==
  ASSUME IInv, NEW s \in Streams, Idle, Live(s),
         NEW n \in Nat, n <= m_size[s],
         m_size' = [m_size EXCEPT ![s] = n],
         UNCHANGED <<life, m_chars, m_alloc, mem, call, corrupt>>
  PROVE  IInv'
<1> USE StreamAssumption DEF IInv
<1>1. TypeOK'
  BY DEF TypeOK, Live
<1>2. HeapOwned' /\ NoLeak'
  BY DEF HeapOwned, NoLeak, Heap, Live, IsHeap, Owns, Free
<1>3. Shape'
  <2>1. \A c \in Streams : m_size'[c] \in Nat /\ m_size[c] \in Nat /\ m_size'[c] <= m_size[c]
    BY DEF TypeOK
  <2>2. \A c \in Streams : m_alloc[c] \in Nat
    BY RoomsType DEF TypeOK
  <2>3. QED
    BY <2>1, <2>2 DEF Shape, IsHeap
<1>4. QED
  BY <1>1, <1>2, <1>3, QuietCall

(* truncate keeps the invariant: the size only falls. *)
LEMMA TruncateIInv ==
  ASSUME IInv, NEW s \in Streams, NEW n \in 0 .. MaxSize, Truncate(s, n)
  PROVE  IInv'
<1>1. n \in Nat /\ n <= m_size[s]
  BY StreamAssumption DEF Truncate, IInv, TypeOK
<1>2. QED
  BY <1>1, CutIInv DEF Truncate

(* erase keeps the invariant, with a count beyond the size too. *)
LEMMA EraseIInv ==
  ASSUME IInv, NEW s \in Streams, NEW count \in 0 .. MaxSize, Erase(s, count)
  PROVE  IInv'
<1> DEFINE n == IF count < m_size[s] THEN m_size[s] - count ELSE 0
<1>1. n \in Nat /\ n <= m_size[s]
  BY StreamAssumption DEF IInv, TypeOK
<1>2. m_size' = [m_size EXCEPT ![s] = n]
  BY DEF Erase
<1> HIDE DEF n
<1>3. QED
  BY <1>1, <1>2, CutIInv DEF Erase

-----------------------------------------------------------------------------
\* What an open stream holds is a text.
LEMMA ContentType ==
  ASSUME IInv, NEW s \in Streams, life[s] = "open"
  PROVE  Content(s) \in Seq(Char) /\ Len(Content(s)) = m_size[s]
<1>1. m_size[s] \in Nat
  BY DEF IInv, TypeOK
<1>2. \A i \in 1 .. m_size[s] : mem[m_chars[s]][i - 1] \in Char
  BY <1>1 DEF IInv, Shape
<1>3. QED
  BY <1>1, <1>2, SeqDef DEF Content

\* An append begins with its stream's m_alloc and has done nothing yet.
LEMMA BeginIInv ==
  ASSUME IInv, NEW s \in Streams, NEW what \in Seq(Char), NEW n \in Nat, NEW own \in BOOLEAN,
         n = Len(what) \/ (what = <<>> /\ n \in HugeCounts),
         Begin(s, what, n, own)
  PROVE  IInv'
<1> USE DEF IInv
<1>1. UNCHANGED <<life, m_chars, m_alloc, m_size, mem, corrupt>> /\ ~corrupt
  BY DEF Begin, objects, Idle
<1>2. TypeOK'
  BY <1>1 DEF TypeOK, Live
<1>3. HeapOwned' /\ NoLeak' /\ Shape' /\ OnlyKnownMisuse'
  BY <1>1 DEF HeapOwned, NoLeak, Shape, OnlyKnownMisuse, Heap, Live, IsHeap, Owns, Free
<1>4. CallOK'
  BY <1>1 DEF CallOK, Begin, Live, Shape, TypeOK
<1>5. QED
  BY <1>2, <1>3, <1>4

(* Each kind of append is one Begin, of a text that is passed, or of a count too large for one. *)
LEMMA AppendBegins ==
  ASSUME IInv, NEW s \in Streams, AppendText(s) \/ AppendOwn(s) \/ AppendHuge(s)
  PROVE  \E what \in Seq(Char), n \in Nat, own \in BOOLEAN :
           /\ n = Len(what) \/ (what = <<>> /\ n \in HugeCounts)
           /\ Begin(s, what, n, own)
<1>1. CASE AppendText(s)
  <2>1. PICK what \in Texts : Begin(s, what, Len(what), FALSE)
    BY <1>1 DEF AppendText
  <2>2. what \in Seq(Char) /\ Len(what) \in Nat
    BY SeqDef, StreamAssumption DEF Texts
  <2>3. QED
    BY <2>1, <2>2
<1>2. CASE AppendOwn(s)
  <2>1. PICK n \in 1 .. m_size[s] : Begin(s, SubSeq(Content(s), 1, n), n, TRUE)
    BY <1>2 DEF AppendOwn
  <2> DEFINE what == SubSeq(Content(s), 1, n)
  <2>2. m_size[s] \in Nat /\ Content(s) \in Seq(Char) /\ Len(Content(s)) = m_size[s]
    BY <1>2, ContentType DEF AppendOwn, IInv, TypeOK
  <2>3. n \in Nat /\ \A i \in 1 .. n : Content(s)[i] \in Char
    BY <2>2
  <2>4. what \in Seq(Char) /\ n = Len(what)
    BY <2>3, SubSeqProperties
  <2>5. Begin(s, what, n, TRUE)
    BY <2>1
  <2> HIDE DEF what
  <2>6. QED
    BY <2>3, <2>4, <2>5
<1>3. CASE AppendHuge(s)
  <2>1. PICK n \in HugeCounts : Begin(s, <<>>, n, FALSE)
    BY <1>3 DEF AppendHuge
  <2>2. n \in Nat /\ <<>> \in Seq(Char)
    BY StreamAssumption
  <2>3. QED
    BY <2>1, <2>2
<1>4. QED
  BY <1>1, <1>2, <1>3

(* The begin of each kind of append keeps the invariant. *)
LEMMA AppendIInv ==
  ASSUME IInv, NEW s \in Streams, AppendText(s) \/ AppendOwn(s) \/ AppendHuge(s)
  PROVE  IInv'
  BY AppendBegins, BeginIInv

\* big_size grows only while it is too small.
LEMMA DoubleIInv ==
  ASSUME IInv, Double
  PROVE  IInv'
<1> USE DEF IInv
<1>1. UNCHANGED <<life, m_chars, m_alloc, m_size, mem, corrupt>> /\ ~corrupt
  BY DEF Double, objects
<1>2. TypeOK'
  BY <1>1 DEF TypeOK, Live
<1>3. HeapOwned' /\ NoLeak' /\ Shape' /\ OnlyKnownMisuse'
  BY <1>1 DEF HeapOwned, NoLeak, Shape, OnlyKnownMisuse, Heap, Live, IsHeap, Owns, Free
<1>4. CallOK'
  <2>1. CallOK!2 /\ call' = [call EXCEPT !.big = Wrap(2 * @)] /\ Needed > call.big
    BY DEF CallOK, Double
  <2>2. Wrap(2 * call.big) \in Rooms /\ (call.big = 0 => Wrap(2 * call.big) = 0)
    <3>1. call.big \in Rooms
      BY <2>1
    <3>2. Wrap(2 * 0) = 0
      BY WrapFits, StreamAssumption
    <3>3. QED
      BY <3>1, <3>2, RoomsFit
  <2>3. QED
    BY <1>1, <2>1, <2>2 DEF CallOK, Live, Needed
<1>5. QED
  BY <1>2, <1>3, <1>4

\* An append that new refuses is over.
LEMMA GrowThrowsIInv ==
  ASSUME IInv, GrowThrows
  PROVE  IInv'
<1> USE DEF IInv
<1>1. UNCHANGED <<life, m_chars, m_alloc, m_size, mem, corrupt>> /\ ~corrupt /\ call' = NoRequest
  BY DEF GrowThrows, objects
<1>2. TypeOK' /\ CallOK' /\ OnlyKnownMisuse'
  BY <1>1 DEF TypeOK, Live, CallOK, OnlyKnownMisuse
<1>3. HeapOwned' /\ NoLeak' /\ Shape'
  BY <1>1 DEF HeapOwned, NoLeak, Shape, Heap, Live, IsHeap, Owns, Free
<1>4. QED
  BY <1>2, <1>3

-----------------------------------------------------------------------------
(***************************************************************************)
(* The end of expand_buffer's loop: the characters are written, or memory  *)
(* is misused in one of the two known ways.                                *)
(***************************************************************************)
Ready == call # NoRequest /\ ~corrupt /\ Needed <= call.big

Fits(p) == /\ m_size[call.stream] + call.n <= call.big
           /\ call.own => p = m_chars[call.stream] \/ ~IsHeap(call.stream)

\* What is known of the append when its text fits: it is not a huge one.
LEMMA FittingCall ==
  ASSUME IInv, Ready, NEW p, Fits(p)
  PROVE  /\ call.stream \in Streams /\ Live(call.stream)
         /\ call.what \in Seq(Char) /\ call.n = Len(call.what) /\ call.n \in Nat
         /\ call.big \in Rooms /\ call.big \in Nat
         /\ m_size[call.stream] \in Nat /\ m_alloc[call.stream] \in Nat
         /\ Needed = m_size[call.stream] + call.n
<1> USE StreamAssumption
<1>1. CallOK!2
  BY DEF IInv, CallOK, Ready
<1>2. /\ call.big \in Nat /\ call.big <= SizeMod \div 2 /\ call.big < SizeMod
      /\ m_size[call.stream] \in Nat /\ m_alloc[call.stream] \in Nat
  BY <1>1, RoomsType DEF IInv, TypeOK
<1>3. call.n \notin HugeCounts
  BY <1>1, <1>2, HugeAssumption DEF Fits
<1>4. Needed = m_size[call.stream] + call.n
  <2> DEFINE sum == m_size[call.stream] + call.n
  <2>1. sum \in Nat /\ sum < SizeMod
    BY <1>1, <1>2 DEF Fits
  <2> HIDE DEF sum
  <2>2. Wrap(sum) = sum
    BY <2>1, WrapFits
  <2>3. QED
    BY <2>2 DEF Needed, sum
<1>5. QED
  BY <1>1, <1>2, <1>3, <1>4

\* When the text does not fit although its wrapped length does, or comes from
\* a block that is gone, that is misuse, and known.
LEMMA MisuseIInv ==
  ASSUME IInv, Ready, NEW p, ~Fits(p), corrupt' = TRUE, UNCHANGED <<objects, call>>
  PROVE  IInv'
<1> USE DEF IInv
<1>1. UNCHANGED <<life, m_chars, m_alloc, m_size, mem, call>>
  BY DEF objects
<1>2. CallOK!2
  BY DEF CallOK, Ready
<1>3. m_size[call.stream] + call.n >= SizeMod \/ (call.own /\ IsHeap(call.stream))
  <2>1. CASE m_size[call.stream] + call.n <= call.big
    BY <2>1, <1>2 DEF Fits
  <2>2. CASE ~(m_size[call.stream] + call.n <= call.big)
    <3>1. /\ m_size[call.stream] \in Nat /\ call.n \in Nat /\ call.big \in Nat
          /\ m_size[call.stream] + call.n \in Nat
      BY <1>2, RoomsType DEF TypeOK
    <3>2. ~(m_size[call.stream] + call.n < SizeMod)
      BY <2>2, <3>1, WrapFits DEF Ready, Needed
    <3>3. QED
      BY <3>1, <3>2, StreamAssumption
  <2>3. QED
    BY <2>1, <2>2
<1>4. TypeOK'
  BY <1>1 DEF TypeOK, Live
<1>5. HeapOwned' /\ NoLeak' /\ Shape'
  BY <1>1 DEF HeapOwned, NoLeak, Shape, Heap, Live, IsHeap, Owns, Free
<1>6. CallOK' /\ OnlyKnownMisuse'
  BY <1>1, <1>2, <1>3 DEF CallOK, OnlyKnownMisuse, Live, Needed, IsHeap, Ready
<1>7. QED
  BY <1>4, <1>5, <1>6

\* What the storage of an open stream is.
LEMMA OpenStorage ==
  ASSUME IInv, NEW s \in Streams, life[s] = "open"
  PROVE  /\ m_chars[s] \in Storage /\ mem[m_chars[s]] \in Array(m_alloc[s])
         /\ m_alloc[s] \in Nat /\ m_size[s] \in Nat /\ m_size[s] <= m_alloc[s]
         /\ m_alloc[s] > StackSize => Owns(s, m_chars[s]) /\ m_chars[s] \in Blocks
         /\ m_alloc[s] <= StackSize => m_alloc[s] = StackSize /\ m_chars[s] = s
<1> USE StreamAssumption DEF IInv
<1>1. m_alloc[s] \in Nat /\ m_size[s] \in Nat /\ m_chars[s] \in Storage
  BY RoomsType DEF TypeOK
<1>2. m_size[s] <= m_alloc[s] /\ StackSize <= m_alloc[s] /\ (~IsHeap(s) => m_chars[s] = s)
  BY DEF Shape
<1>3. CASE IsHeap(s)
  <2>1. /\ m_chars[s] \in Blocks /\ DOMAIN mem[m_chars[s]] = 0 .. m_alloc[s] - 1
        /\ Owns(s, m_chars[s])
    BY <1>3 DEF HeapOwned, Heap, Live, Owns
  <2>2. PICK m \in Nat : mem[m_chars[s]] \in Array(m)
    BY <2>1 DEF TypeOK
  <2>3. mem[m_chars[s]] \in Array(m_alloc[s])
    BY <2>1, <2>2 DEF Array
  <2>4. QED
    BY <1>1, <1>2, <1>3, <2>1, <2>3 DEF IsHeap
<1>4. CASE ~IsHeap(s)
  BY <1>1, <1>2, <1>4 DEF IsHeap, TypeOK, Live
<1>5. QED
  BY <1>3, <1>4

\* When there was room: the characters go where the text is.
LEMMA WriteInPlaceIInv ==
  ASSUME IInv, WriteInPlace
  PROVE  IInv'
<1> DEFINE s == call.stream
           p == m_chars[s]
           n == m_size[s] + call.n
<1> USE StreamAssumption
<1>1. CASE ~Fits(p)
  BY <1>1, MisuseIInv DEF WriteInPlace, Write, Fits, Ready
<1>2. CASE Fits(p)
  <2>1. /\ mem' = [mem EXCEPT ![p] = Written(mem[p], m_size[s], call.what)]
        /\ m_chars' = [m_chars EXCEPT ![s] = p]
        /\ m_alloc' = [m_alloc EXCEPT ![s] = call.big]
        /\ m_size' = [m_size EXCEPT ![s] = n]
        /\ call' = NoRequest /\ life' = life /\ corrupt' = corrupt
        /\ call.big = m_alloc[s]
    BY <1>2 DEF WriteInPlace, Write, Fits
  <2>2. Ready
    BY DEF WriteInPlace, Ready
  <2>3. /\ s \in Streams /\ Live(s) /\ m_size[s] \in Nat /\ m_alloc[s] \in Nat /\ n \in Nat
        /\ call.what \in Seq(Char) /\ call.n = Len(call.what) /\ call.n \in Nat
        /\ n <= m_alloc[s]
    BY <1>2, <2>1, <2>2, FittingCall DEF Fits
  <2>4. p \in Storage /\ m_alloc[s] \in Rooms /\ life[s] \in Life
    BY <2>3 DEF IInv, TypeOK
  <2>5. After(s, life[s], p, m_alloc[s], n)
    <3>1. \A c \in Streams \ {s} : mem'[c] = mem[c]
      <4>1. CASE life[s] = "open"
        <5>1. p \in Blocks \/ p = s
          BY <2>3, <4>1, OpenStorage
        <5>2. QED
          BY <5>1, <2>1 DEF IInv, TypeOK
      <4>2. CASE life[s] = "moved"
        <5>1. call.what = <<>>
          BY <2>3, <4>2 DEF IInv, Shape
        <5>2. PICK m \in Nat : mem[p] \in Array(m)
          BY <2>4, NoStorageType DEF IInv, TypeOK, Storage
        <5>3. Written(mem[p], m_size[s], call.what) = mem[p]
          BY <5>1, <5>2, <2>3, WrittenNothing
        <5>4. QED
          BY <2>1, <5>3 DEF IInv, TypeOK, Storage
      <4>3. QED
        BY <4>1, <4>2, <2>3, <2>4 DEF Life, Live
    <3>2. QED
      BY <3>1, <2>1, <2>3 DEF After, IInv, TypeOK
  <2>6. TypeOK' /\ HeapOwned' /\ NoLeak' /\ Shape'
    <3>1. CASE life[s] = "moved"
      <4>1. call.what = <<>> /\ m_alloc[s] = 0
        BY <2>3, <3>1 DEF IInv, Shape
      <4>2. PICK m \in Nat : mem[p] \in Array(m)
        BY <2>4, NoStorageType DEF IInv, TypeOK, Storage
      <4>3. Written(mem[p], m_size[s], call.what) = mem[p]
        BY <4>1, <4>2, <2>3, WrittenNothing
      <4>4. \A q \in Storage : mem'[q] = mem[q]
        BY <2>1, <4>3 DEF IInv, TypeOK
      <4>5. mem'[s] \in Array(StackSize) /\ \A k \in Blocks : mem'[k] = Released(s, k)
        BY <2>3, <4>1, <4>4 DEF IInv, TypeOK, Released, Owns, IsHeap, Storage
      <4> HIDE DEF s, p, n
      <4>6. QED
        BY <2>3, <2>4, <2>5, <3>1, <4>1, <4>5, Settle
    <3>2. CASE life[s] = "open"
      <4>1. /\ mem[p] \in Array(m_alloc[s])
            /\ m_alloc[s] > StackSize => Owns(s, p) /\ p \in Blocks
            /\ m_alloc[s] <= StackSize => m_alloc[s] = StackSize /\ p = s
            /\ StackSize <= m_alloc[s]
        BY <2>3, <3>2, OpenStorage DEF IInv, Shape
      <4>2. /\ mem'[p] = Written(mem[p], m_size[s], call.what)
            /\ \A q \in Storage \ {p} : mem'[q] = mem[q]
        BY <2>1, <2>4 DEF IInv, TypeOK
      <4>3. mem'[p] \in Array(m_alloc[s])
        BY <4>1, <4>2, <2>3, WrittenType
      <4>4. \A i \in 0 .. n - 1 : mem'[p][i] \in Char
        <5>1. \A i \in 0 .. m_size[s] - 1 : mem[p][i] \in Char
          BY <2>3, <3>2 DEF IInv, Shape
        <5> HIDE DEF p, s
        <5>2. n \in 0 .. m_alloc[s] /\ n = m_size[s] + Len(call.what)
          BY <2>3
        <5> HIDE DEF n
        <5>3. \A i \in 0 .. n - 1 : Written(mem[p], m_size[s], call.what)[i] \in Char
          <6>1. /\ m_alloc[s] \in Nat /\ mem[p] \in Array(m_alloc[s])
                /\ m_size[s] \in Nat /\ call.what \in Seq(Char)
            BY <2>3, <4>1
          <6>2. QED
            BY <5>1, <5>2, <6>1, WrittenText
        <5>4. QED
          BY <5>3, <4>2
      <4>5. mem'[s] \in Array(StackSize)
        BY <2>3, <4>1, <4>2, <4>3 DEF IInv, TypeOK, Storage
      <4>6. \A k \in Blocks \ {p} : mem'[k] = Released(s, k)
        BY <4>2 DEF Released, Owns, Storage
      <4>7. /\ m_alloc[s] > StackSize => Released(s, p) = NoStorage
            /\ m_alloc[s] <= StackSize => p \notin Blocks
        BY <4>1, <2>3 DEF Released
      <4> HIDE DEF s, p, n
      <4>8. QED
        BY <2>3, <2>4, <2>5, <3>2, <4>1, <4>3, <4>4, <4>5, <4>6, <4>7, Settle
    <3>3. QED
      BY <3>1, <3>2, <2>3, <2>4 DEF Life, Live
  <2>7. QED
    BY <2>1, <2>2, <2>6 DEF IInv, CallOK, OnlyKnownMisuse, Ready
<1>3. QED
  BY <1>1, <1>2

\* When there was not: the old block goes and the new one has the text of both.
LEMMA WriteGrownIInv ==
  ASSUME IInv, WriteGrown
  PROVE  IInv'
<1> DEFINE s == call.stream
           n == m_size[s] + call.n
           arr == Enlarged(mem[m_chars[s]], call.big)
<1> USE StreamAssumption
<1>1. PICK k \in Free : Write(s, arr, k, Deleted(s))
  BY DEF WriteGrown
<1>2. Ready /\ call.big # m_alloc[s] /\ k \in Blocks /\ mem[k] = NoStorage
  BY DEF WriteGrown, Ready, Free
<1>3. CASE ~Fits(k)
  BY <1>1, <1>2, <1>3, MisuseIInv DEF Write, Fits
<1>4. CASE Fits(k)
  <2>1. /\ mem' = [Deleted(s) EXCEPT ![k] = Written(arr, m_size[s], call.what)]
        /\ m_chars' = [m_chars EXCEPT ![s] = k]
        /\ m_alloc' = [m_alloc EXCEPT ![s] = call.big]
        /\ m_size' = [m_size EXCEPT ![s] = n]
        /\ call' = NoRequest /\ life' = life /\ corrupt' = corrupt
    BY <1>1, <1>4 DEF Write, Fits
  <2>2. /\ s \in Streams /\ Live(s) /\ m_size[s] \in Nat /\ m_alloc[s] \in Nat /\ n \in Nat
        /\ call.what \in Seq(Char) /\ call.n = Len(call.what) /\ call.n \in Nat
        /\ n <= call.big /\ call.big \in Nat /\ call.big \in Rooms /\ Needed = n
    BY <1>2, <1>4, FittingCall DEF Fits
  <2>3. life[s] = "open" /\ n > m_alloc[s]
    <3>1. CallOK!2
      BY <1>2 DEF IInv, CallOK, Ready
    <3>2. QED
      BY <1>2, <3>1, <2>2 DEF IInv, Shape, TypeOK, Life, Live
  <2>4. /\ mem[m_chars[s]] \in Array(m_alloc[s]) /\ m_size[s] <= m_alloc[s]
        /\ StackSize <= m_alloc[s]
    BY <2>2, <2>3, OpenStorage DEF IInv, Shape
  <2>5. call.big > StackSize
    BY <2>2, <2>3, <2>4
  <2>6. /\ arr \in Array(call.big)
        /\ \A i \in 0 .. m_size[s] - 1 : arr[i] = mem[m_chars[s]][i]
    <3>1. arr \in Array(call.big)
      BY <2>2, <2>4, EnlargedType
    <3>2. /\ m_size[s] \in Nat /\ m_alloc[s] \in Nat /\ call.big \in Nat
          /\ m_size[s] <= m_alloc[s] /\ m_alloc[s] < call.big
      BY <2>2, <2>3, <2>4
    <3>3. ASSUME NEW i \in 0 .. m_size[s] - 1 PROVE arr[i] = mem[m_chars[s]][i]
      <4>1. i \in 0 .. call.big - 1 /\ i < m_alloc[s]
        BY <3>2
      <4>2. QED
        BY <4>1, <3>2, <2>4, EnlargedKeeps
    <3>4. QED
      BY <3>1, <3>3
  <2>7. /\ DOMAIN Deleted(s) = Storage
        /\ \A c \in Streams : Deleted(s)[c] = mem[c]
        /\ \A j \in Blocks : Deleted(s)[j] = Released(s, j)
    BY <2>2, DeletedFrees DEF Released
  <2>8. /\ mem'[k] = Written(arr, m_size[s], call.what)
        /\ \A j \in Blocks \ {k} : mem'[j] = Released(s, j)
        /\ \A c \in Streams : mem'[c] = mem[c]
        /\ DOMAIN mem' = Storage
    BY <1>2, <2>1, <2>7 DEF Storage
  <2> HIDE DEF arr
  <2>9. mem'[k] \in Array(call.big)
    BY <2>2, <2>6, <2>8, WrittenType
  <2>10. \A i \in 0 .. n - 1 : mem'[k][i] \in Char
    <3>1. \A i \in 0 .. m_size[s] - 1 : arr[i] \in Char
      BY <2>2, <2>3, <2>6 DEF IInv, Shape
    <3>2. n \in 0 .. call.big /\ n = m_size[s] + Len(call.what)
      BY <2>2
    <3> HIDE DEF n, s
    <3>3. \A i \in 0 .. n - 1 : Written(arr, m_size[s], call.what)[i] \in Char
      BY <3>1, <3>2, <2>2, <2>6, WrittenText
    <3>4. QED
      BY <3>3, <2>8
  <2>11. After(s, "open", k, call.big, n)
    BY <2>1, <2>2, <2>3, <2>8 DEF After, IInv, TypeOK
  <2>12. Released(s, k) = NoStorage /\ k \in Storage
    BY <1>2 DEF Released, Storage
  <2>13. mem'[s] \in Array(StackSize)
    BY <2>2, <2>8 DEF IInv, TypeOK
  <2> HIDE DEF s, n
  <2>14. TypeOK' /\ HeapOwned' /\ NoLeak' /\ Shape'
    BY <1>2, <2>2, <2>3, <2>4, <2>5, <2>8, <2>9, <2>10, <2>11, <2>12, <2>13, Settle DEF Life
  <2>15. QED
    BY <1>2, <2>1, <2>14 DEF IInv, CallOK, OnlyKnownMisuse, Ready
<1>5. QED
  BY <1>3, <1>4

-----------------------------------------------------------------------------
\* Every operation on a stream keeps the invariant.
THEOREM NextIInv == IInv /\ [Next]_vars => IInv'
<1> SUFFICES ASSUME IInv, [Next]_vars PROVE IInv'
  OBVIOUS
<1>1. CASE UNCHANGED vars
  BY <1>1 DEF vars, objects, IInv, TypeOK, HeapOwned, NoLeak, Shape, CallOK, OnlyKnownMisuse,
              Owns, Heap, Live, IsHeap, Free, Needed
<1>2. CASE Next
  <2>1. CASE \E s \in Streams :
               \/ Construct(s)
               \/ Destroy(s)
               \/ \E c \in Streams : MoveConstruct(s, c)
               \/ \E c \in Streams : MoveAssign(s, c)
               \/ \E n \in 0 .. MaxSize : Truncate(s, n)
               \/ \E n \in 0 .. MaxSize : Erase(s, n)
               \/ AppendText(s)
               \/ AppendOwn(s)
               \/ AppendHuge(s)
    BY <2>1, ConstructIInv, DestroyIInv, MoveConstructIInv, MoveAssignIInv, TruncateIInv,
       EraseIInv, AppendIInv
  <2>2. CASE Double \/ WriteInPlace \/ WriteGrown \/ GrowThrows
    BY <2>2, DoubleIInv, WriteInPlaceIInv, WriteGrownIInv, GrowThrowsIInv
  <2>3. QED
    BY <1>2, <2>1, <2>2 DEF Next
<1>3. QED
  BY <1>1, <1>2

\* What streams do with their storage is right in every reachable state.
THEOREM IInvHolds == Spec => []IInv
  BY InitIInv, NextIInv, PTL DEF Spec

\* Every variable has its type.
THEOREM TypeCorrect == Spec => []TypeOK
  BY IInvHolds, PTL DEF IInv

\* Every block in use has one stream that will free it, whatever is moved,
\* grown, refused memory or destroyed.
THEOREM StorageOwned == Spec => []OneOwner
<1>1. IInv => OneOwner
  <2> SUFFICES ASSUME IInv PROVE OneOwner
    OBVIOUS
  <2>1. ASSUME NEW k \in Blocks \ Free
        PROVE  \E s \in Streams :
                 /\ Owns(s, k) /\ DOMAIN mem[k] = 0 .. m_alloc[s] - 1
                 /\ \A c \in Streams \ {s} : ~Owns(c, k)
    BY <2>1 DEF IInv, NoLeak, HeapOwned, Heap, Owns
  <2>2. ASSUME NEW s \in Streams, life[s] = "open"
        PROVE  /\ m_size[s] <= m_alloc[s]
               /\ IF IsHeap(s) THEN m_chars[s] \in Blocks \ Free
                               ELSE m_chars[s] = s /\ DOMAIN mem[s] = 0 .. m_alloc[s] - 1
    <3>1. CASE IsHeap(s)
      BY <2>2, <3>1, HeapNotFree, OpenStorage DEF Heap, Live
    <3>2. CASE ~IsHeap(s)
      BY <2>2, <3>2, OpenStorage, StreamAssumption DEF IsHeap, Array
    <3>3. QED
      BY <3>1, <3>2
  <2>3. QED
    BY <2>1, <2>2 DEF OneOwner
<1>2. QED
  BY <1>1, IInvHolds, PTL

\* Memory is misused only by an append of the stream's own text that has to
\* grow, or by one whose result no size_t counts.
THEOREM MisuseKnown == Spec => []OnlyKnownMisuse
  BY IInvHolds, PTL DEF IInv

-----------------------------------------------------------------------------
(***************************************************************************)
(* StringStream implements StreamText: what the steps do to the texts.     *)
(***************************************************************************)

\* A stream that is not constructed, or is open, is told from any other.
LEMMA ShownType ==
  ASSUME IInv, NEW s \in Streams
  PROVE  /\ Shown(s) = Absent <=> ~Live(s)
         /\ life[s] = "open" => /\ Shown(s) = Content(s) /\ Content(s) \in Seq(Char)
                                /\ Shown(s) \notin {Absent, Unspecified}
         /\ life[s] = "moved" => Shown(s) = Unspecified
<1>1. life[s] \in Life
  BY DEF IInv, TypeOK
<1>2. life[s] = "open" => Content(s) \in Seq(Char)
  BY ContentType
<1>3. QED
  BY <1>1, <1>2, MarksAssumption DEF Shown, Life, Live

\* The text of a stream that keeps its characters is kept.
LEMMA TextKept ==
  ASSUME IInv, NEW s \in Streams,
         life'[s] = life[s], m_chars'[s] = m_chars[s], m_size'[s] = m_size[s],
         mem'[s] = mem[s],
         Owns(s, m_chars[s]) => mem'[m_chars[s]] = mem[m_chars[s]]
  PROVE  Shown(s)' = Shown(s)
<1>1. CASE life[s] = "open"
  <2>1. mem'[m_chars[s]] = mem[m_chars[s]]
    BY <1>1 DEF IInv, Shape, Owns, Live
  <2>2. QED
    BY <1>1, <2>1 DEF Shown, Content
<1>2. CASE life[s] # "open"
  BY <1>2 DEF Shown
<1>3. QED
  BY <1>1, <1>2

\* What s gives back or fills is no other stream's.
LEMMA OthersText ==
  ASSUME IInv, NEW s \in Streams,
         \A c \in Streams \ {s} :
           /\ life'[c] = life[c] /\ m_chars'[c] = m_chars[c] /\ m_size'[c] = m_size[c]
           /\ mem'[c] = mem[c],
         \A k \in Blocks \ Free : ~Owns(s, k) => mem'[k] = mem[k]
  PROVE  \A c \in Streams \ {s} : Shown(c)' = Shown(c)
<1> SUFFICES ASSUME NEW c \in Streams \ {s} PROVE Shown(c)' = Shown(c)
  OBVIOUS
<1>1. ASSUME Owns(c, m_chars[c]) PROVE mem'[m_chars[c]] = mem[m_chars[c]]
  <2>1. Heap(c)
    BY <1>1 DEF Owns, Heap
  <2>2. m_chars[c] \in Blocks \ Free /\ ~Owns(s, m_chars[c])
    BY <2>1, HeapNotFree DEF IInv, HeapOwned
  <2>3. QED
    BY <2>2
<1>2. QED
  BY <1>1, TextKept

\* An append that has begun is one of StreamText's.
LEMMA AskedType ==
  ASSUME IInv
  PROVE  /\ Asked = NoRequest <=> call = NoRequest
         /\ call # NoRequest => /\ Asked.stream = call.stream /\ Asked.what = call.what
                                /\ call.stream \in Streams /\ call.what \in Seq(Char)
                                /\ Live(call.stream)
<1>1. CASE call = NoRequest
  BY <1>1 DEF Asked
<1>2. CASE call # NoRequest
  <2>1. CallOK!2
    BY <1>2 DEF IInv, CallOK
  <2>2. Asked = [stream |-> call.stream, what |-> call.what]
    BY <1>2 DEF Asked
  <2>3. Asked \in [stream : Streams, what : Seq(Char)]
    BY <2>1, <2>2
  <2>4. QED
    BY <1>2, <2>1, <2>2, <2>3, MarksAssumption
<1>3. QED
  BY <1>1, <1>2

\* A step that changes what one stream shows.
LEMMA TextPut ==
  ASSUME NEW s \in Streams, NEW t,
         \A c \in Streams \ {s} : Shown(c)' = Shown(c), Shown(s)' = t
  PROVE  [c \in Streams |-> Shown(c)]' = [[c \in Streams |-> Shown(c)] EXCEPT ![s] = t]
  OBVIOUS

\* One that changes nothing that is shown.
LEMMA TextSame ==
  ASSUME \A c \in Streams : Shown(c)' = Shown(c)
  PROVE  [c \in Streams |-> Shown(c)]' = [c \in Streams |-> Shown(c)]
  OBVIOUS

(* A constructor opens a text. *)
LEMMA ConstructOpens ==
  ASSUME IInv, NEW s \in Streams, Construct(s)
  PROVE  Text!Open(s)
<1>1. \A c \in Streams \ {s} : Shown(c)' = Shown(c)
  <2>1. /\ \A c \in Streams \ {s} :
             /\ life'[c] = life[c] /\ m_chars'[c] = m_chars[c] /\ m_size'[c] = m_size[c]
             /\ mem'[c] = mem[c]
        /\ \A k \in Blocks \ Free : mem'[k] = mem[k]
    BY StreamAssumption DEF Construct, IInv, TypeOK, Storage
  <2>2. QED
    BY <2>1, OthersText
<1>2. Shown(s)' = <<>>
  <2>1. life'[s] = "open" /\ m_size'[s] = 0
    BY DEF Construct, IInv, TypeOK
  <2>2. Content(s)' = <<>>
    BY <2>1 DEF Content
  <2>3. QED
    BY <2>1, <2>2 DEF Shown
<1>3. Shown(s) = Absent /\ Asked' = Asked
  BY DEF Construct, Shown, Asked
<1>4. QED
  BY <1>1, <1>2, <1>3, TextPut DEF Text!Open

(* A destructor closes its text, and no other. *)
LEMMA DestroyCloses ==
  ASSUME IInv, NEW s \in Streams, Destroy(s)
  PROVE  Text!Close(s)
<1>1. \A c \in Streams \ {s} : Shown(c)' = Shown(c)
  <2>1. /\ \A c \in Streams \ {s} :
             /\ life'[c] = life[c] /\ m_chars'[c] = m_chars[c] /\ m_size'[c] = m_size[c]
             /\ mem'[c] = mem[c]
        /\ \A k \in Blocks \ Free : ~Owns(s, k) => mem'[k] = mem[k]
    BY DeletedFrees, StreamAssumption DEF Destroy, IInv, TypeOK, Storage
  <2>2. QED
    BY <2>1, OthersText
<1>2. Shown(s)' = Absent
  BY DEF Destroy, Shown, IInv, TypeOK
<1>3. Shown(s) # Absent /\ Asked = NoRequest /\ Asked' = Asked
  BY ShownType DEF Destroy, Idle, Asked
<1>4. QED
  BY <1>1, <1>2, <1>3, TextPut DEF Text!Close

\* A stream moved into another hands its text over.
LEMMA TakeOverMoves ==
  ASSUME IInv, Idle, NEW s \in Streams, NEW c \in Streams, s # c, Live(c),
         NEW old, DOMAIN old = Storage,
         \A d \in Streams : old[d] = mem[d],
         \A k \in Blocks : old[k] = Released(s, k),
         TakeOver(s, c, old)
  PROVE  Text!Move(s, c)
<1> USE StreamAssumption
<1>1. /\ life'[s] = life[c] /\ m_size'[s] = m_size[c]
      /\ m_chars'[s] = IF IsHeap(c) THEN m_chars[c] ELSE s
      /\ life'[c] = "moved" /\ mem'[s] = mem[c]
      /\ \A k \in Blocks : mem'[k] = Released(s, k)
      /\ \A d \in Streams \ {s, c} :
           /\ life'[d] = life[d] /\ m_size'[d] = m_size[d] /\ m_chars'[d] = m_chars[d]
           /\ mem'[d] = mem[d]
  BY DEF TakeOver, IInv, TypeOK, Storage
<1>2. \A d \in Streams \ {s} : Owns(d, m_chars[d]) =>
        m_chars[d] \in Blocks /\ mem'[m_chars[d]] = mem[m_chars[d]]
  BY <1>1 DEF IInv, HeapOwned, Heap, Owns, Released
<1>3. \A d \in Streams \ {s, c} : Shown(d)' = Shown(d)
  BY <1>1, <1>2, TextKept
<1>4. Shown(s)' = Shown(c)
  <2>1. CASE life[c] = "open"
    <3>1. mem'[m_chars'[s]] = mem[m_chars[c]]
      <4>1. CASE IsHeap(c)
        BY <4>1, <2>1, <1>1, <1>2 DEF Owns, Live
      <4>2. CASE ~IsHeap(c)
        BY <4>2, <2>1, <1>1 DEF IInv, Shape
      <4>3. QED
        BY <4>1, <4>2
    <3>2. Content(s)' = Content(c)
      BY <1>1, <3>1 DEF Content
    <3>3. QED
      BY <1>1, <2>1, <3>2 DEF Shown
  <2>2. CASE life[c] # "open"
    BY <1>1, <2>2 DEF Shown
  <2>3. QED
    BY <2>1, <2>2
<1>5. Shown(c)' = Unspecified
  BY <1>1 DEF Shown
<1>6. [d \in Streams |-> Shown(d)]'
        = [[d \in Streams |-> Shown(d)] EXCEPT ![s] = Shown(c), ![c] = Unspecified]
  BY <1>3, <1>4, <1>5
<1>7. Shown(c) # Absent /\ Asked = NoRequest /\ Asked' = Asked
  BY ShownType DEF TakeOver, Idle, Asked
<1>8. QED
  BY <1>6, <1>7 DEF Text!Move

(* A move constructor moves the text. *)
LEMMA MoveConstructMoves ==
  ASSUME IInv, NEW s \in Streams, NEW c \in Streams, MoveConstruct(s, c)
  PROVE  Text!Move(s, c)
<1>1. Idle /\ s # c /\ Live(c) /\ ~Live(s) /\ TakeOver(s, c, mem)
  BY DEF MoveConstruct, Live
<1>2. DOMAIN mem = Storage /\ \A k \in Blocks : mem[k] = Released(s, k)
  BY <1>1 DEF IInv, TypeOK, Released, Owns
<1>3. QED
  BY <1>1, <1>2, TakeOverMoves

(* A move assignment moves the text; one to itself is a move to itself. *)
LEMMA MoveAssignMoves ==
  ASSUME IInv, NEW s \in Streams, NEW c \in Streams, MoveAssign(s, c)
  PROVE  IF s = c THEN Text!MoveSelf(s) ELSE Text!Move(s, c)
<1>1. /\ DOMAIN Deleted(s) = Storage
      /\ \A d \in Streams : Deleted(s)[d] = mem[d]
      /\ \A k \in Blocks : Deleted(s)[k] = Released(s, k)
  BY DeletedFrees DEF MoveAssign, Released
<1>2. CASE s = c
  <2>1. \A d \in Streams \ {s} : Shown(d)' = Shown(d)
    <3>1. /\ \A d \in Streams \ {s} :
               /\ life'[d] = life[d] /\ m_chars'[d] = m_chars[d] /\ m_size'[d] = m_size[d]
               /\ mem'[d] = mem[d]
          /\ \A k \in Blocks \ Free : ~Owns(s, k) => mem'[k] = mem[k]
      BY <1>1, <1>2, StreamAssumption
         DEF MoveAssign, TakeOver, IInv, TypeOK, Storage, Released
    <3>2. QED
      BY <3>1, OthersText
  <2>2. Shown(s)' = Unspecified
    BY <1>2 DEF MoveAssign, TakeOver, Shown, IInv, TypeOK
  <2>3. Shown(s) # Absent /\ Asked = NoRequest /\ Asked' = Asked
    BY ShownType DEF MoveAssign, TakeOver, Idle, Asked
  <2>4. Text!MoveSelf(s)
    BY <2>1, <2>2, <2>3, TextPut DEF Text!MoveSelf
  <2>5. QED
    BY <1>2, <2>4
<1>3. CASE s # c
  BY <1>1, <1>3, TakeOverMoves DEF MoveAssign
<1>4. QED
  BY <1>2, <1>3

\* truncate() and erase() leave a beginning of the text.
LEMMA CutCuts ==
  ASSUME IInv, NEW s \in Streams, Idle, Live(s),
         NEW n \in Nat, n <= m_size[s],
         m_size' = [m_size EXCEPT ![s] = n],
         UNCHANGED <<life, m_chars, m_alloc, mem, call, corrupt>>
  PROVE  Text!Cut(s) \/ UNCHANGED Text!vars
<1>1. \A c \in Streams \ {s} : Shown(c)' = Shown(c)
  BY OthersText DEF IInv, TypeOK
<1>2. Asked = NoRequest /\ Asked' = Asked
  BY DEF Idle, Asked
<1>3. CASE life[s] = "open"
  <2>1. /\ Content(s) \in Seq(Char) /\ Len(Content(s)) = m_size[s] /\ m_size[s] \in Nat
        /\ Shown(s) = Content(s) /\ Shown(s) \notin {Absent, Unspecified}
    BY <1>3, ContentType, ShownType DEF IInv, TypeOK
  <2>2. Content(s)' = SubSeq(Content(s), 1, n)
    <3>1. /\ SubSeq(Content(s), 1, n) \in Seq(Char) /\ Len(SubSeq(Content(s), 1, n)) = n
          /\ \A i \in 1 .. n : SubSeq(Content(s), 1, n)[i] = Content(s)[i]
      BY <2>1, SubSeqProperties
    <3>2. m_size'[s] = n /\ Content(s)' = [i \in 1 .. n |-> mem[m_chars[s]][i - 1]]
      BY DEF Content, IInv, TypeOK
    <3>3. \A i \in 1 .. n : Content(s)[i] = mem[m_chars[s]][i - 1]
      BY <2>1 DEF Content
    <3>4. QED
      BY <3>1, <3>2, <3>3
  <2>3. Shown(s)' = SubSeq(Shown(s), 1, n)
    BY <1>3, <2>1, <2>2 DEF Shown
  <2>4. n \in 0 .. Len(Shown(s))
    BY <2>1
  <2>5. [c \in Streams |-> Shown(c)]'
          = [[c \in Streams |-> Shown(c)] EXCEPT ![s] = SubSeq(@, 1, n)]
    BY <1>1, <2>3, TextPut
  <2>6. Text!Cut(s)
    BY <1>2, <2>1, <2>4, <2>5 DEF Text!Cut, Text!Settled
  <2>7. QED
    BY <2>6
<1>4. CASE life[s] # "open"
  <2>1. Shown(s)' = Shown(s)
    BY <1>4 DEF Shown
  <2>2. QED
    BY <1>1, <1>2, <2>1, TextSame DEF Text!vars
<1>5. QED
  BY <1>3, <1>4

\* An append is asked for, with a text.
LEMMA BeginRequests ==
  ASSUME IInv, NEW s \in Streams, NEW what \in Seq(Char), NEW n, NEW own,
         Begin(s, what, n, own)
  PROVE  Text!Request(s) \/ UNCHANGED Text!vars
<1>1. [c \in Streams |-> Shown(c)]' = [c \in Streams |-> Shown(c)]
  <2>1. \A c \in Streams : Shown(c)' = Shown(c)
    BY DEF Begin, objects, Shown, Content
  <2>2. QED
    BY <2>1, TextSame
<1>2. Asked = NoRequest /\ Shown(s) # Absent
  BY ShownType DEF Begin, Idle, Asked
<1>3. CASE call' = NoRequest
  BY <1>1, <1>2, <1>3 DEF Text!vars, Asked
<1>4. CASE call' # NoRequest
  <2>1. Asked' = [stream |-> s, what |-> what]
    BY <1>4 DEF Begin, Asked
  <2>2. QED
    BY <1>1, <1>2, <2>1 DEF Text!Request
<1>5. QED
  BY <1>3, <1>4

\* What \o does, character by character.
LEMMA ConcatAt ==
  ASSUME NEW s \in Seq(Char), NEW t \in Seq(Char)
  PROVE  /\ s \o t \in Seq(Char) /\ Len(s \o t) = Len(s) + Len(t)
         /\ \A i \in 1 .. Len(s) + Len(t) :
              (s \o t)[i] = IF i <= Len(s) THEN s[i] ELSE t[i - Len(s)]
<1>1. s \o t \in Seq(Char) /\ Len(s \o t) = Len(s) + Len(t)
  BY ConcatProperties
<1>2. \A i \in 1 .. Len(s) + Len(t) :
        (s \o t)[i] = IF i <= Len(s) THEN s[i] ELSE t[i - Len(s)]
  BY ConcatProperties
<1>3. QED
  BY <1>1, <1>2

\* The appended characters follow those that were there, wherever they went.
LEMMA ContentGrows ==
  ASSUME IInv, Ready, NEW s \in Streams, s = call.stream, life[s] = "open",
         NEW p, Fits(p),
         NEW arr \in Array(call.big),
         \A i \in 0 .. m_size[s] - 1 : arr[i] = mem[m_chars[s]][i],
         mem'[p] = Written(arr, m_size[s], call.what),
         m_chars'[s] = p, m_size'[s] = m_size[s] + call.n
  PROVE  Content(s)' = Content(s) \o call.what
<1> DEFINE m == m_size[s]
           n == m + Len(call.what)
<1>1. /\ call.what \in Seq(Char) /\ call.n = Len(call.what) /\ call.big \in Nat
      /\ m \in Nat /\ n \in Nat /\ n <= call.big
  BY FittingCall DEF Fits
<1>2. Content(s) \in Seq(Char) /\ Len(Content(s)) = m
  BY ContentType
<1> DEFINE cat == Content(s) \o call.what
<1>3. /\ cat \in Seq(Char) /\ Len(cat) = n
      /\ \A i \in 1 .. n : cat[i] = IF i <= m THEN Content(s)[i] ELSE call.what[i - m]
  <2>1. /\ cat \in Seq(Char) /\ Len(cat) = Len(Content(s)) + Len(call.what)
        /\ \A i \in 1 .. Len(Content(s)) + Len(call.what) :
             cat[i] = IF i <= Len(Content(s)) THEN Content(s)[i]
                      ELSE call.what[i - Len(Content(s))]
    <3>1. call.what \in Seq(Char) /\ Content(s) \in Seq(Char)
      BY <1>1, <1>2
    <3>2. QED
      BY <3>1, ConcatAt
  <2>2. Len(Content(s)) = m
    BY <1>2
  <2> HIDE DEF cat, m
  <2>3. QED
    BY <2>1, <2>2
<1>4. Content(s)' = [i \in 1 .. n |-> mem'[p][i - 1]]
  BY <1>1 DEF Content
<1>5. ASSUME NEW i \in 1 .. n
      PROVE  mem'[p][i - 1] = cat[i]
  <2> DEFINE j == i - 1
  <2>1. j \in 0 .. call.big - 1 /\ j - m + 1 = i - m
    BY <1>1
  <2>2. mem'[p][j] = IF m <= j /\ j < m + Len(call.what) THEN call.what[j - m + 1] ELSE arr[j]
    <3> HIDE DEF j, m, n
    <3>1. Written(arr, m, call.what)[j] = IF m <= j /\ j < m + Len(call.what)
                                          THEN call.what[j - m + 1] ELSE arr[j]
      BY <1>1, <2>1, WrittenOver
    <3>2. QED
      BY <3>1 DEF m
  <2>3. CASE i <= m
    <3>1. j \in 0 .. m - 1 /\ ~(m <= j) /\ i \in 1 .. m
      BY <1>1, <2>3
    <3>2. mem'[p][j] = mem[m_chars[s]][j]
      BY <2>2, <3>1
    <3>3. Content(s)[i] = mem[m_chars[s]][j]
      BY <3>1 DEF Content
    <3>4. QED
      BY <1>3, <2>3, <3>2, <3>3
  <2>4. CASE ~(i <= m)
    <3>1. m <= j /\ j < m + Len(call.what)
      BY <1>1, <2>4
    <3>2. QED
      BY <1>3, <2>1, <2>2, <2>4, <3>1
  <2>5. QED
    BY <2>3, <2>4
<1> HIDE DEF n, m, cat
<1>6. cat = [i \in 1 .. n |-> cat[i]]
  BY <1>3, LenProperties
<1>7. QED
  BY <1>4, <1>5, <1>6 DEF cat

\* A write that leaves a text at p grows it by what was asked for.
LEMMA WriteGrows ==
  ASSUME IInv, Ready, NEW s \in Streams, s = call.stream, NEW p, Fits(p),
         \A c \in Streams \ {s} : Shown(c)' = Shown(c),
         life' = life, call' = NoRequest,
         life[s] = "open" => Content(s)' = Content(s) \o call.what
  PROVE  Text!Grow(s)
<1>1. Asked # NoRequest /\ Asked.stream = s /\ Asked.what = call.what /\ Asked' = NoRequest
  BY AskedType DEF Ready, Asked
<1>2. life[s] \in {"open", "moved"}
  BY FittingCall DEF IInv, TypeOK, Life, Live
<1>3. CASE life[s] = "open"
  <2>1. Shown(s)' = Shown(s) \o Asked.what
    BY <1>1, <1>3 DEF Shown
  <2>2. [c \in Streams |-> Shown(c)]'
          = [[c \in Streams |-> Shown(c)] EXCEPT ![s] = @ \o Asked.what]
    BY <2>1, TextPut
  <2>3. Shown(s) \notin {Absent, Unspecified}
    BY <1>3, ShownType
  <2>4. QED
    BY <1>1, <2>2, <2>3 DEF Text!Grow, Text!Settled
<1>4. CASE life[s] = "moved"
  <2>1. Shown(s) = Unspecified /\ Shown(s)' = Shown(s)
    BY <1>4 DEF Shown
  <2>2. [c \in Streams |-> Shown(c)]' = [c \in Streams |-> Shown(c)]
    BY <2>1, TextSame
  <2>3. QED
    BY <1>1, <2>1, <2>2 DEF Text!Grow, Text!Settled
<1>5. QED
  BY <1>2, <1>3, <1>4

(* An append that fits adds its text, or none when it had none. *)
LEMMA WriteInPlaceGrows ==
  ASSUME IInv, WriteInPlace
  PROVE  (\E s \in Streams : Text!Grow(s)) \/ UNCHANGED Text!vars
<1>0. Ready /\ CallOK!2
  BY DEF WriteInPlace, Ready, IInv, CallOK
<1> DEFINE p == m_chars[call.stream]
<1>1. CASE ~Fits(p)
  <2>1. UNCHANGED <<objects, call>>
    BY <1>1 DEF WriteInPlace, Write, Fits
  <2>2. \A c \in Streams : Shown(c)' = Shown(c)
    BY <2>1 DEF objects, Shown, Content
  <2>3. QED
    BY <2>1, <2>2, TextSame DEF Text!vars, Asked
<1>2. CASE Fits(p)
  <2>1. PICK s \in Streams : s = call.stream
    BY <1>0
  <2>2. PICK q \in Storage : q = m_chars[s]
    BY <2>1 DEF IInv, TypeOK
  <2>3. /\ mem' = [mem EXCEPT ![q] = Written(mem[q], m_size[s], call.what)]
        /\ m_chars' = [m_chars EXCEPT ![s] = q]
        /\ m_size' = [m_size EXCEPT ![s] = @ + call.n]
        /\ call' = NoRequest /\ life' = life
        /\ call.big = m_alloc[s]
    BY <1>2, <2>1, <2>2 DEF WriteInPlace, Write, Fits
  <2>4. /\ Live(s) /\ call.what \in Seq(Char) /\ call.n = Len(call.what) /\ Fits(q)
        /\ m_size[s] \in Nat /\ m_size[s] + call.n <= m_alloc[s]
    BY <1>0, <1>2, <2>1, <2>2, <2>3, FittingCall DEF Fits
  <2>5. /\ \A c \in Streams \ {s} : /\ life'[c] = life[c] /\ m_chars'[c] = m_chars[c]
                                    /\ m_size'[c] = m_size[c]
        /\ m_chars'[s] = q /\ m_size'[s] = m_size[s] + call.n
        /\ mem'[q] = Written(mem[q], m_size[s], call.what)
        /\ \A r \in Storage \ {q} : mem'[r] = mem[r]
    BY <2>3 DEF IInv, TypeOK
  <2>6. CASE life[s] = "open"
    <3>1. /\ mem[q] \in Array(call.big)
          /\ Owns(s, q) \/ q = s
      BY <2>2, <2>3, <2>6, OpenStorage, StreamAssumption
    <3>2. \A c \in Streams \ {s} : Shown(c)' = Shown(c)
      <4>1. /\ \A c \in Streams \ {s} : mem'[c] = mem[c]
            /\ \A k \in Blocks \ Free : ~Owns(s, k) => mem'[k] = mem[k]
        BY <2>5, <3>1, StreamAssumption DEF IInv, HeapOwned, Heap, Owns, Storage
      <4>2. QED
        BY <2>5, <4>1, OthersText
    <3>3. Content(s)' = Content(s) \o call.what
      BY <1>0, <2>1, <2>2, <2>4, <2>5, <2>6, <3>1, ContentGrows
    <3>4. QED
      BY <1>0, <2>1, <2>3, <2>4, <3>2, <3>3, WriteGrows
  <2>7. CASE life[s] = "moved"
    <3>1. call.what = <<>>
      BY <2>4, <2>7 DEF IInv, Shape
    <3>2. PICK m \in Nat : mem[q] \in Array(m)
      BY <2>2, NoStorageType, StreamAssumption DEF IInv, TypeOK, Storage
    <3>3. mem'[q] = mem[q]
      BY <2>4, <2>5, <3>1, <3>2, WrittenNothing
    <3>4. \A c \in Streams \ {s} : Shown(c)' = Shown(c)
      BY <2>5, <3>3, OthersText DEF Storage
    <3>5. QED
      BY <1>0, <2>1, <2>3, <2>4, <2>7, <3>4, WriteGrows
  <2>8. QED
    BY <2>4, <2>6, <2>7 DEF IInv, TypeOK, Life, Live
<1>3. QED
  BY <1>1, <1>2

(* An append in a larger block adds its text to what was copied there. *)
LEMMA WriteGrownGrows ==
  ASSUME IInv, WriteGrown
  PROVE  (\E s \in Streams : Text!Grow(s)) \/ UNCHANGED Text!vars
<1>0. Ready /\ CallOK!2
  BY DEF WriteGrown, Ready, IInv, CallOK
<1>1. PICK s \in Streams : s = call.stream
  BY <1>0
<1> DEFINE arr == Enlarged(mem[m_chars[s]], call.big)
<1>2. PICK k \in Free : Write(s, arr, k, Deleted(s)) /\ call.big # m_alloc[s]
  BY <1>1 DEF WriteGrown
<1>3. CASE ~Fits(k)
  <2>1. UNCHANGED <<objects, call>>
    BY <1>1, <1>2, <1>3 DEF Write, Fits
  <2>2. \A c \in Streams : Shown(c)' = Shown(c)
    BY <2>1 DEF objects, Shown, Content
  <2>3. QED
    BY <2>1, <2>2, TextSame DEF Text!vars, Asked
<1>4. CASE Fits(k)
  <2>1. /\ mem' = [Deleted(s) EXCEPT ![k] = Written(arr, m_size[s], call.what)]
        /\ m_chars' = [m_chars EXCEPT ![s] = k]
        /\ m_size' = [m_size EXCEPT ![s] = @ + call.n]
        /\ call' = NoRequest /\ life' = life
    BY <1>1, <1>2, <1>4 DEF Write, Fits
  <2>2. /\ Live(s) /\ call.n = Len(call.what) /\ call.n \in Nat /\ call.big \in Nat
        /\ m_size[s] \in Nat /\ m_size[s] + call.n <= call.big
    BY <1>0, <1>1, <1>4, FittingCall DEF Fits
  <2>3. life[s] = "open"
    BY <1>0, <1>1, <1>2, <2>2 DEF IInv, Shape, TypeOK, Life, Live
  <2>4. mem[m_chars[s]] \in Array(m_alloc[s]) /\ m_alloc[s] \in Nat /\ m_size[s] <= m_alloc[s]
    BY <2>3, OpenStorage
  <2>5. arr \in Array(call.big)
    BY <2>2, <2>4, EnlargedType
  <2>6. \A i \in 0 .. m_size[s] - 1 : arr[i] = mem[m_chars[s]][i]
    <3>1. \A i \in 0 .. m_size[s] - 1 : i \in 0 .. call.big - 1 /\ i < m_alloc[s]
      BY <2>2, <2>4
    <3>2. QED
      BY <3>1, <2>2, <2>4, EnlargedKeeps
  <2>7. k \in Blocks /\ mem[k] = NoStorage
    BY DEF Free
  <2>8. /\ mem'[k] = Written(arr, m_size[s], call.what)
        /\ \A j \in Blocks \ {k} : mem'[j] = Released(s, j)
        /\ \A c \in Streams : mem'[c] = mem[c]
    BY <2>1, <2>2, <2>7, DeletedFrees, StreamAssumption DEF Storage, Released
  <2> HIDE DEF arr
  <2>9. /\ \A c \in Streams \ {s} : /\ life'[c] = life[c] /\ m_chars'[c] = m_chars[c]
                                    /\ m_size'[c] = m_size[c]
        /\ m_chars'[s] = k /\ m_size'[s] = m_size[s] + call.n
    BY <2>1 DEF IInv, TypeOK
  <2>10. \A c \in Streams \ {s} : Shown(c)' = Shown(c)
    <3>1. \A j \in Blocks \ Free : ~Owns(s, j) => mem'[j] = mem[j]
      BY <2>8 DEF Released
    <3>2. QED
      BY <3>1, <2>8, <2>9, OthersText
  <2>11. Content(s)' = Content(s) \o call.what
    BY <1>0, <1>1, <1>4, <2>3, <2>5, <2>6, <2>8, <2>9, ContentGrows
  <2>12. QED
    BY <1>0, <1>1, <1>4, <2>1, <2>10, <2>11, WriteGrows
<1>5. QED
  BY <1>3, <1>4

\* Every step of a stream is one StreamText allows, or changes no text.
THEOREM NextImplements == IInv /\ [Next]_vars => [Text!Next]_(Text!vars)
<1> SUFFICES ASSUME IInv, [Next]_vars PROVE Text!Next \/ UNCHANGED Text!vars
  OBVIOUS
<1>1. CASE UNCHANGED <<objects, call>>
  <2>1. \A c \in Streams : Shown(c)' = Shown(c)
    BY <1>1 DEF objects, Shown, Content
  <2>2. QED
    BY <1>1, <2>1, TextSame DEF Text!vars, Asked
<1>2. ASSUME NEW s \in Streams, Construct(s) PROVE Text!Next
  BY <1>2, ConstructOpens DEF Text!Next
<1>3. ASSUME NEW s \in Streams, Destroy(s) PROVE Text!Next
  BY <1>3, DestroyCloses DEF Text!Next
<1>4. ASSUME NEW s \in Streams, NEW c \in Streams, MoveConstruct(s, c) PROVE Text!Next
  BY <1>4, MoveConstructMoves DEF Text!Next
<1>5. ASSUME NEW s \in Streams, NEW c \in Streams, MoveAssign(s, c) PROVE Text!Next
  BY <1>5, MoveAssignMoves DEF Text!Next
<1>6. ASSUME NEW s \in Streams, NEW n \in 0 .. MaxSize, Truncate(s, n)
      PROVE  Text!Next \/ UNCHANGED Text!vars
  <2>1. n \in Nat /\ n <= m_size[s]
    BY <1>6, StreamAssumption DEF Truncate, IInv, TypeOK
  <2>2. QED
    BY <1>6, <2>1, CutCuts DEF Truncate, Text!Next
<1>7. ASSUME NEW s \in Streams, NEW count \in 0 .. MaxSize, Erase(s, count)
      PROVE  Text!Next \/ UNCHANGED Text!vars
  <2> DEFINE n == IF count < m_size[s] THEN m_size[s] - count ELSE 0
  <2>1. n \in Nat /\ n <= m_size[s]
    BY StreamAssumption DEF IInv, TypeOK
  <2>2. m_size' = [m_size EXCEPT ![s] = n]
    BY <1>7 DEF Erase
  <2> HIDE DEF n
  <2>3. QED
    BY <1>7, <2>1, <2>2, CutCuts DEF Erase, Text!Next
<1>8. ASSUME NEW s \in Streams, AppendText(s) \/ AppendOwn(s) \/ AppendHuge(s)
      PROVE  Text!Next \/ UNCHANGED Text!vars
  BY <1>8, AppendBegins, BeginRequests DEF Text!Next
<1>9. ASSUME Double PROVE UNCHANGED Text!vars
  <2>1. \A c \in Streams : Shown(c)' = Shown(c)
    BY <1>9 DEF Double, objects, Shown, Content
  <2>2. Asked' = Asked
    <3>1. /\ call # NoRequest /\ call' = [call EXCEPT !.big = Wrap(2 * @)]
          /\ call \in [stream : Streams, what : Seq(Char), n : Nat, own : BOOLEAN, big : Rooms]
      BY <1>9 DEF Double, IInv, CallOK
    <3>2. Wrap(2 * call.big) \in Nat
      BY <3>1, RoomsFit, RoomsType
    <3>3. call' # NoRequest
      BY <3>1, <3>2, MarksAssumption
    <3>4. QED
      BY <3>1, <3>3 DEF Asked
  <2>3. QED
    BY <2>1, <2>2, TextSame DEF Text!vars
<1>10. ASSUME WriteInPlace \/ WriteGrown PROVE Text!Next \/ UNCHANGED Text!vars
  BY <1>10, WriteInPlaceGrows, WriteGrownGrows DEF Text!Next
<1>11. ASSUME GrowThrows PROVE Text!Next
  <2>1. PICK s \in Streams : s = call.stream /\ call # NoRequest
    BY <1>11 DEF GrowThrows, IInv, CallOK
  <2>2. \A c \in Streams : Shown(c)' = Shown(c)
    BY <1>11 DEF GrowThrows, objects, Shown, Content
  <2>3. Asked # NoRequest /\ Asked.stream = s /\ Asked' = NoRequest
    BY <1>11, <2>1, AskedType DEF GrowThrows, Asked
  <2>4. Text!Refuse(s)
    BY <2>2, <2>3, TextSame DEF Text!Refuse
  <2>5. QED
    BY <2>4 DEF Text!Next
<1>12. QED
  BY <1>1, <1>2, <1>3, <1>4, <1>5, <1>6, <1>7, <1>8, <1>9, <1>10, <1>11 DEF Next, vars

\* A stream's text is what was appended to it, cut and moved, whichever
\* storage it went through, and a refused append leaves no trace.
THEOREM TextKeptByStreams == Spec => TextSemantics
<1>1. Init => Text!Init
  <2> SUFFICES ASSUME Init PROVE Text!Init
    OBVIOUS
  <2>1. ASSUME NEW s \in Streams PROVE Shown(s) = Absent
    <3>1. life[s] = "none"
      BY DEF Init
    <3>2. QED
      BY <3>1 DEF Shown
  <2>2. Asked = NoRequest
    BY DEF Init, Asked
  <2>3. QED
    BY <2>1, <2>2 DEF Text!Init
<1>2. QED
  BY <1>1, NextImplements, IInvHolds, PTL DEF Spec, TextSemantics, Text!Spec
=============================================================================
