--------------------------- MODULE StringBuildProofs ---------------------------
(***************************************************************************)
(* Proofs about Buffer.tla, for every number of buffers and blocks, every  *)
(* character type and every length of the local array: who owns which      *)
(* block, and that buffers are independent values.                         *)
(*                                                                         *)
(* On them rest those about StringBuild.tla, for every set of strings,     *)
(* buffers and texts: whichever of its steps a call is at, and whichever   *)
(* of them throws, the heap is in order and the values are what they       *)
(* should be.                                                              *)
(***************************************************************************)
EXTENDS StringBuild, FiniteSetTheorems, TLAPS

-----------------------------------------------------------------------------
(* Buffers *)

\* What the safety properties leave out: a short content is in the buffer's
\* own m_data, every content is terminated, and only a buffer that calls
\* itself long can be broken.
Shape ==
  \A b \in Buffers :
    /\ life[b] = "broken" => Reffed(b)
    /\ life[b] = "value" =>
         /\ ~Reffed(b) => m_chars[b] = b
         /\ mem[m_chars[b]][m_size[b]] = NUL

IInv == TypeOK /\ SoleOwner /\ NoLeak /\ Shape /\ OnlyAllocateCorrupts

-----------------------------------------------------------------------------
\* What Block, Over and Zeros are, as functions.
LEMMA BlockType ==
  ASSUME NEW n \in Nat, NEW data \in Arrays(n)
  PROVE  /\ Block(data, n) \in Arrays(n + 1)
         /\ DOMAIN Block(data, n) = 0 .. n
         /\ Block(data, n)[n] = NUL
         /\ Block(data, n) # NoStorage
<1>1. Block(data, n) \in Arrays(n + 1) /\ DOMAIN Block(data, n) = 0 .. n
  BY BufferAssumption DEF Block, Arrays
<1>2. Block(data, n)[n] = NUL
  BY DEF Block
<1>3. DOMAIN NoStorage = {} /\ n \in 0 .. n
  BY DEF NoStorage
<1>4. QED
  BY <1>1, <1>2, <1>3

\* A row of zeroed characters is an array.
LEMMA ZerosType ==
  Zeros \in Arrays(LocalLength) /\ \A i \in 0 .. LocalLength - 1 : Zeros[i] = NUL
  BY BufferAssumption DEF Zeros, Arrays

\* Characters put over an array leave an array of the same length.
LEMMA OverType ==
  ASSUME NEW arr \in Arrays(LocalLength), NEW n \in Nat, ~Long(n),
         NEW data, \A i \in 0 .. n - 1 : data[i] \in Char
  PROVE  /\ Over(arr, data, n) \in Arrays(LocalLength)
         /\ Over(arr, data, n)[n] = NUL
  BY BufferAssumption DEF Over, Arrays, Long

\* m_data, an array, is not the mark of no array.
LEMMA LocalArrayNotEmpty == \A arr \in Arrays(LocalLength) : arr # NoStorage
<1>1. DOMAIN NoStorage = {} /\ 0 \in 0 .. LocalLength - 1
  BY BufferAssumption DEF NoStorage
<1>2. QED
  BY <1>1 DEF Arrays

\* A buffer whose delete[] is legal owns what it deletes.
LEMMA DeleterOwns ==
  ASSUME IInv, NEW b \in Buffers, Live(b), Deletes(b), Reffed(b)
  PROVE  Owns(b, m_chars[b]) /\ m_chars[b] \in Blocks \ Free
  BY DEF IInv, NoLeak, Deletes, MayDelete, Owns

-----------------------------------------------------------------------------
\* Before any buffer is constructed nothing is owned and nothing is freed twice.
THEOREM InitIInv == Init => IInv
<1> SUFFICES ASSUME Init PROVE IInv
  OBVIOUS
<1>1. TypeOK
  <2>1. life \in [Buffers -> Life]
    BY DEF Init, Life
  <2>a. m_chars \in [Buffers -> Storage]
    BY DEF Init, Storage
  <2>b. m_size \in [Buffers -> 0 .. MaxSize]
    BY BufferAssumption DEF Init
  <2>c. corrupt \in BOOLEAN
    BY DEF Init
  <2>2. DOMAIN mem = Storage /\ \A p \in Storage : mem[p] = NoStorage
    BY DEF Init
  <2>3. QED
    BY <2>1, <2>a, <2>b, <2>c, <2>2 DEF Init, TypeOK, Storage
<1>2. SoleOwner /\ Shape /\ OnlyAllocateCorrupts
  BY DEF Init, SoleOwner, Shape, OnlyAllocateCorrupts, Sound
<1>3. NoLeak
  BY DEF Init, NoLeak, Free, Storage
<1>4. QED
  BY <1>1, <1>2, <1>3 DEF IInv

(***************************************************************************)
(* The operations that give b a new content release what b owned and leave *)
(* every other buffer as it was.  After(b) says so of one step; what an    *)
(* operation adds to it is where b's characters are now.                   *)
(***************************************************************************)
Released(b, k) == IF Owns(b, k) THEN NoStorage ELSE mem[k]

After(b, l, n, p) ==
  /\ life'    = [life EXCEPT ![b] = l]
  /\ m_size'  = [m_size EXCEPT ![b] = n]
  /\ m_chars' = [m_chars EXCEPT ![b] = p]
  /\ corrupt' = corrupt
  /\ DOMAIN mem' = Storage
  /\ \A c \in Buffers \ {b} : mem'[c] = mem[c]

\* No buffer but b has another content than before.
OthersKept(b) == \A c \in Buffers \ {b} : Value(c)' = Value(c)

\* What every buffer but b needs for its content to stay.
LEMMA AfterKeepsOthers ==
  ASSUME IInv, NEW b \in Buffers, NEW l, NEW n, NEW p, After(b, l, n, p),
         \A k \in Blocks : mem[k] # NoStorage /\ ~Owns(b, k) => mem'[k] = mem[k]
  PROVE  OthersKept(b)
<1> SUFFICES ASSUME NEW c \in Buffers, c # b PROVE Value(c)' = Value(c)
  BY DEF OthersKept
<1>1. life'[c] = life[c] /\ m_size'[c] = m_size[c] /\ m_chars'[c] = m_chars[c]
  BY DEF After, IInv, TypeOK
<1>2. CASE life[c] = "value"
  <2>1. mem'[m_chars[c]] = mem[m_chars[c]]
    <3>1. CASE Reffed(c)
      <4>1. m_chars[c] \in Blocks /\ DOMAIN mem[m_chars[c]] = 0 .. m_size[c]
        BY <1>2, <3>1 DEF IInv, SoleOwner, Sound
      <4>2. mem[m_chars[c]] # NoStorage
        BY <4>1, BufferAssumption DEF NoStorage, IInv, TypeOK
      <4>3. ~Owns(b, m_chars[c])
        BY <1>2, <3>1 DEF IInv, SoleOwner, Sound
      <4>4. QED
        BY <4>1, <4>2, <4>3
    <3>2. CASE ~Reffed(c)
      BY <1>2, <3>2 DEF IInv, Shape, After
    <3>3. QED
      BY <3>1, <3>2
  <2>2. Content(c)' = Content(c)
    BY <1>1, <2>1 DEF Content
  <2>3. QED
    BY <1>1, <1>2, <2>2 DEF Value
<1>3. CASE life[c] # "value"
  BY <1>1, <1>3 DEF Value
<1>4. QED
  BY <1>2, <1>3

\* b owns no block: its characters are in m_data, or it is gone, or broken.
LEMMA SettleShort ==
  ASSUME IInv, ~corrupt,
         NEW b \in Buffers, NEW l \in Life, NEW n \in 0 .. MaxSize, NEW p \in Storage,
         l \in Sound => ~Long(n),
         l = "broken" => Long(n),
         After(b, l, n, p),
         mem'[b] \in IF l = "none" THEN {NoStorage} ELSE Arrays(LocalLength),
         l = "value" => p = b /\ mem'[b][n] = NUL,
         \A k \in Blocks : mem'[k] = Released(b, k)
  PROVE  IInv' /\ OthersKept(b)
<1> USE BufferAssumption DEF IInv, After
<1>1. TypeOK'
  BY DEF TypeOK, Storage, Life, Sound, Released
<1>2. SoleOwner'
  BY DEF TypeOK, SoleOwner, Owns, Reffed, Storage, Released
<1>3. NoLeak'
  BY DEF TypeOK, NoLeak, Owns, Reffed, Storage, Free, Sound, Released
<1>4. Shape'
  BY DEF TypeOK, Shape, Reffed, Storage, SoleOwner, Sound, Released, Owns
<1>5. OnlyAllocateCorrupts'
  BY DEF OnlyAllocateCorrupts
<1>6. OthersKept(b)
  BY AfterKeepsOthers DEF Released
<1>7. QED
  BY <1>1, <1>2, <1>3, <1>4, <1>5, <1>6

\* b keeps its characters in block k, which was free or has just become so.
LEMMA SettleLong ==
  ASSUME IInv, ~corrupt,
         NEW b \in Buffers, NEW l \in Sound, NEW n \in 0 .. MaxSize, Long(n),
         NEW k \in Blocks, Released(b, k) = NoStorage,
         After(b, l, n, k),
         mem'[b] \in Arrays(LocalLength),
         mem'[k] \in Arrays(n + 1), mem'[k] # NoStorage, mem'[k][n] = NUL,
         \A j \in Blocks \ {k} : mem'[j] = Released(b, j)
  PROVE  IInv' /\ OthersKept(b)
<1> USE BufferAssumption DEF IInv, After
<1>0. DOMAIN mem'[k] = 0 .. n
  BY DEF Arrays
<1>1. TypeOK'
  BY DEF TypeOK, Storage, Life, Sound, Released
<1>a. \A c \in Buffers \ {b} : ~Owns(c, k)
  BY DEF SoleOwner, Owns, Released, TypeOK, Long, NoStorage, Reffed
<1>2. SoleOwner'
  BY <1>0, <1>a DEF TypeOK, SoleOwner, Owns, Reffed, Storage, Released
<1>3. NoLeak'
  BY DEF TypeOK, NoLeak, Owns, Reffed, Storage, Free, Sound, Released
<1>4. Shape'
  BY <1>a DEF TypeOK, Shape, Reffed, Storage, SoleOwner, Sound, Released, Owns
<1>5. OnlyAllocateCorrupts'
  BY DEF OnlyAllocateCorrupts
<1>6. OthersKept(b)
  BY AfterKeepsOthers DEF Released
<1>7. QED
  BY <1>1, <1>2, <1>3, <1>4, <1>5, <1>6
-----------------------------------------------------------------------------
\* The constructors from characters give the buffer a block of its own, or use
\* m_data.
LEMMA ConstructFromIInv ==
  ASSUME IInv, ~corrupt, NEW b \in Buffers, NEW n \in 0 .. MaxSize, NEW data \in Arrays(n),
         ConstructFrom(b, data, n)
  PROVE  IInv' /\ OthersKept(b)
<1> USE BufferAssumption
<1>a. n \in Nat /\ \A i \in 0 .. n - 1 : data[i] \in Char
  BY DEF Arrays
<1>b. \A k \in Blocks : Released(b, k) = mem[k]
  BY DEF Released, Owns, ConstructFrom, Sound
<1>1. CASE ~Long(n)
  <2>1. After(b, "value", n, b)
    BY <1>1 DEF ConstructFrom, After, IInv, TypeOK, Storage
  <2>2. mem'[b] = Over(Zeros, data, n)
    BY <1>1 DEF ConstructFrom, IInv, TypeOK, Storage
  <2>3. mem'[b] \in Arrays(LocalLength) /\ mem'[b][n] = NUL
    BY <2>2, <1>1, <1>a, OverType, ZerosType
  <2>4. \A k \in Blocks : mem'[k] = Released(b, k)
    BY <1>1, <1>b DEF ConstructFrom, IInv, TypeOK, Storage
  <2>5. QED
    BY <1>1, <2>1, <2>3, <2>4, SettleShort DEF Sound, Life, Storage
<1>2. CASE Long(n)
  <2>1. PICK k \in Free : /\ m_chars' = [m_chars EXCEPT ![b] = k]
                          /\ mem' = [mem EXCEPT ![b] = Zeros, ![k] = Block(data, n)]
    BY <1>2 DEF ConstructFrom
  <2>2. k \in Blocks /\ k # b /\ mem[k] = NoStorage
    BY DEF Free
  <2>3. After(b, "value", n, k)
    BY <2>1, <2>2 DEF ConstructFrom, After, IInv, TypeOK, Storage
  <2>4. mem'[b] = Zeros /\ mem'[k] = Block(data, n)
    BY <2>1, <2>2 DEF IInv, TypeOK, Storage
  <2>5. \A j \in Blocks \ {k} : mem'[j] = Released(b, j)
    BY <2>1, <2>2, <1>b DEF IInv, TypeOK, Storage
  <2>6. QED
    BY <1>2, <1>a, <1>b, <2>2, <2>3, <2>4, <2>5, BlockType, ZerosType, SettleLong DEF Sound
<1>3. QED
  BY <1>1, <1>2

\* What a legal copy reads out of c is a content.
LEMMA ContentType ==
  ASSUME IInv, NEW c \in Buffers, MayRead(c)
  PROVE  m_size[c] \in Nat /\ Content(c) \in Arrays(m_size[c])
<1>1. m_size[c] \in Nat /\ m_chars[c] \in Storage
  BY BufferAssumption DEF IInv, TypeOK
<1>2. \A i \in DOMAIN mem[m_chars[c]] : mem[m_chars[c]][i] \in Char
  <2>1. CASE m_chars[c] \in Buffers
    BY <2>1 DEF IInv, TypeOK, Arrays, NoStorage
  <2>2. CASE m_chars[c] \in Blocks
    BY <2>2, SMTT(30) DEF IInv, TypeOK, Arrays, NoStorage
  <2>3. QED
    BY <1>1, <2>1, <2>2 DEF Storage
<1>3. QED
  BY <1>1, <1>2 DEF MayRead, Content, Arrays

\* A legal delete[] frees the block its buffer owns and nothing else.
LEMMA DeletedReleases ==
  ASSUME IInv, NEW b \in Buffers, Live(b), Deletes(b)
  PROVE  /\ DOMAIN Deleted(b) = Storage
         /\ \A k \in Blocks : Deleted(b)[k] = Released(b, k)
         /\ \A c \in Buffers : Deleted(b)[c] = mem[c]
<1>1. CASE Reffed(b)
  <2>1. Owns(b, m_chars[b]) /\ m_chars[b] \in Blocks
    BY <1>1, DeleterOwns
  <2>2. Deleted(b) = [mem EXCEPT ![m_chars[b]] = NoStorage]
    BY <1>1 DEF Deleted
  <2>3. QED
    BY <2>1, <2>2, BufferAssumption DEF IInv, TypeOK, Storage, Released, Owns
<1>2. CASE ~Reffed(b)
  BY <1>2 DEF Deleted, Released, Owns, IInv, TypeOK, Storage
<1>3. QED
  BY <1>1, <1>2

\* The copy constructor shares no block with what it copies.
LEMMA CopyConstructIInv ==
  ASSUME IInv, ~corrupt, NEW b \in Buffers, NEW c \in Buffers, CopyConstruct(b, c)
  PROVE  IInv' /\ OthersKept(b)
<1> USE BufferAssumption
<1> DEFINE n == m_size[c]
<1>a. /\ n \in 0 .. MaxSize /\ CopyOf(c) \in Sound /\ b # c
      /\ mem[c] \in Arrays(LocalLength)
  BY DEF CopyConstruct, IInv, TypeOK, CopyOf, Sound, Live
<1>b. \A k \in Blocks : Released(b, k) = mem[k]
  BY DEF Released, Owns, CopyConstruct, Sound
<1>1. CASE ~Reffed(c)
  <2>1. After(b, CopyOf(c), n, b)
    BY <1>1 DEF CopyConstruct, After, IInv, TypeOK, Storage
  <2>2. mem'[b] = mem[c]
    BY <1>1 DEF CopyConstruct, IInv, TypeOK, Storage
  <2>3. CopyOf(c) = "value" => mem[c][n] = NUL
    BY <1>1 DEF CopyOf, IInv, Shape
  <2>4. \A k \in Blocks : mem'[k] = Released(b, k)
    BY <1>1, <1>b DEF CopyConstruct, IInv, TypeOK, Storage
  <2>5. ~Long(n)
    BY <1>1 DEF Reffed
  <2> HIDE DEF n
  <2>6. QED
    BY <1>a, <2>1, <2>2, <2>3, <2>4, <2>5, SettleShort DEF Sound, Life, Storage
<1>2. CASE Reffed(c)
  <2>1. PICK k \in Free, junk \in Garbage :
             /\ m_chars' = [m_chars EXCEPT ![b] = k]
             /\ mem' = [mem EXCEPT ![b] = junk, ![k] = Block(Content(c), n)]
    BY <1>2 DEF CopyConstruct
  <2>2. k \in Blocks /\ k # b /\ mem[k] = NoStorage
    BY DEF Free
  <2>3. After(b, CopyOf(c), n, k)
    BY <2>1, <2>2 DEF CopyConstruct, After, IInv, TypeOK, Storage
  <2>4. mem'[b] = junk /\ junk \in Arrays(LocalLength) /\ mem'[k] = Block(Content(c), n)
    BY <2>1, <2>2, GarbageAssumption DEF IInv, TypeOK, Storage
  <2>5. \A j \in Blocks \ {k} : mem'[j] = Released(b, j)
    BY <2>1, <2>2, <1>b DEF IInv, TypeOK, Storage
  <2>6. n \in Nat /\ Content(c) \in Arrays(n)
    BY <1>2, ContentType DEF CopyConstruct, Reads
  <2>7. Long(n)
    BY <1>2 DEF Reffed
  <2> HIDE DEF n
  <2>8. QED
    BY <1>a, <1>b, <2>2, <2>3, <2>4, <2>5, <2>6, <2>7, BlockType, SettleLong
<1>3. QED
  BY <1>1, <1>2

\* The move constructor passes the block on: the source no longer owns it.
LEMMA MoveConstructIInv ==
  ASSUME IInv, ~corrupt, NEW b \in Buffers, NEW c \in Buffers, MoveConstruct(b, c)
  PROVE  IInv'
<1> USE BufferAssumption DEF IInv
<1>a. b # c /\ life[c] # "none" /\ life[b] = "none"
  BY DEF MoveConstruct, Live
<1>1. TypeOK'
  BY <1>a DEF MoveConstruct, TypeOK, Storage, Life
<1>b. \A k \in Blocks : mem'[k] = mem[k]
  BY DEF MoveConstruct, TypeOK, Storage
<1>2. SoleOwner'
  BY <1>a, <1>b DEF MoveConstruct, TypeOK, SoleOwner, Owns, Reffed, Long, Sound
<1>3. NoLeak'
  BY <1>a, <1>b DEF MoveConstruct, TypeOK, NoLeak, Owns, Reffed, Long, Sound, Free
<1>4. Shape'
  BY <1>a, <1>b DEF MoveConstruct, TypeOK, Shape, Reffed, Long, Sound, SoleOwner, Storage
<1>5. OnlyAllocateCorrupts'
  BY DEF MoveConstruct, OnlyAllocateCorrupts
<1>6. QED
  BY <1>1, <1>2, <1>3, <1>4, <1>5

\* The destructor frees the block of its buffer alone.
LEMMA DestroyIInv ==
  ASSUME IInv, ~corrupt, NEW b \in Buffers, Destroy(b)
  PROVE  IInv' /\ OthersKept(b)
<1> USE BufferAssumption
<1>1. After(b, "none", 0, b)
  BY DeletedReleases DEF Destroy, After, IInv, TypeOK, Storage
<1>2. mem'[b] = NoStorage /\ \A k \in Blocks : mem'[k] = Released(b, k)
  BY DeletedReleases DEF Destroy, Storage
<1>3. QED
  BY <1>1, <1>2, SettleShort DEF Life, Sound, Storage

\* clear() frees the block of its buffer alone, and ends in the empty state.
LEMMA ClearIInv ==
  ASSUME IInv, ~corrupt, NEW b \in Buffers, Clear(b)
  PROVE  IInv' /\ OthersKept(b)
<1> USE BufferAssumption
<1>1. After(b, "value", 0, b)
  BY DeletedReleases DEF Clear, After, IInv, TypeOK, Storage
<1>2. mem'[b] = Zeros /\ \A k \in Blocks : mem'[k] = Released(b, k)
  BY DeletedReleases DEF Clear, Storage
<1>3. Zeros \in Arrays(LocalLength) /\ Zeros[0] = NUL /\ ~Long(0)
  BY ZerosType DEF Long
<1>4. QED
  BY <1>1, <1>2, <1>3, SettleShort DEF Life, Sound, Storage

\* Copy assignment frees the old block before it takes a new one.
LEMMA CopyAssignIInv ==
  ASSUME IInv, ~corrupt, NEW b \in Buffers, NEW c \in Buffers, CopyAssign(b, c)
  PROVE  IInv' /\ OthersKept(b)
<1> USE BufferAssumption
<1> DEFINE n == m_size[c]
<1>a. /\ n \in 0 .. MaxSize /\ CopyOf(c) \in Sound /\ b # c
      /\ mem[b] \in Arrays(LocalLength) /\ mem[c] \in Arrays(LocalLength)
  BY DEF CopyAssign, IInv, TypeOK, CopyOf, Sound, Live
<1>b. /\ DOMAIN Deleted(b) = Storage
      /\ \A k \in Blocks : Deleted(b)[k] = Released(b, k)
      /\ \A d \in Buffers : Deleted(b)[d] = mem[d]
  BY DeletedReleases DEF CopyAssign
<1>1. CASE ~Reffed(c)
  <2>1. mem' = [Deleted(b) EXCEPT ![b] = mem[c]]
    BY <1>1 DEF CopyAssign
  <2>2. After(b, CopyOf(c), n, b)
    BY <1>1, <1>b, <2>1 DEF CopyAssign, After, IInv, TypeOK, Storage
  <2>3. mem'[b] = mem[c] /\ \A k \in Blocks : mem'[k] = Released(b, k)
    BY <1>b, <2>1 DEF Storage
  <2>4. CopyOf(c) = "value" => mem[c][n] = NUL
    BY <1>1 DEF CopyOf, IInv, Shape
  <2>5. ~Long(n)
    BY <1>1 DEF Reffed
  <2> HIDE DEF n
  <2>6. QED
    BY <1>a, <2>2, <2>3, <2>4, <2>5, SettleShort DEF Sound, Life, Storage
<1>2. CASE Reffed(c)
  <2>1. PICK k \in { k \in Blocks : Deleted(b)[k] = NoStorage } :
             /\ m_chars' = [m_chars EXCEPT ![b] = k]
             /\ mem' = [Deleted(b) EXCEPT ![k] = Block(Content(c), n)]
    BY <1>2 DEF CopyAssign
  <2>2. k \in Blocks /\ k # b /\ Released(b, k) = NoStorage
    BY <1>b
  <2>3. After(b, CopyOf(c), n, k)
    BY <1>b, <2>1, <2>2 DEF CopyAssign, After, IInv, TypeOK, Storage
  <2>4. /\ mem'[b] = mem[b] /\ mem'[k] = Block(Content(c), n)
        /\ \A j \in Blocks \ {k} : mem'[j] = Released(b, j)
    BY <1>b, <2>1, <2>2 DEF Storage
  <2>5. n \in Nat /\ Content(c) \in Arrays(n)
    BY <1>2, ContentType DEF CopyAssign, Reads
  <2>6. Long(n)
    BY <1>2 DEF Reffed
  <2> HIDE DEF n
  <2>7. QED
    BY <1>a, <2>2, <2>3, <2>4, <2>5, <2>6, BlockType, SettleLong
<1>3. QED
  BY <1>1, <1>2

\* Copy assignment that throws at new[] has already repaired its target.
LEMMA CopyAssignThrowsIInv ==
  ASSUME IInv, ~corrupt, NEW b \in Buffers, NEW c \in Buffers, CopyAssignThrows(b, c)
  PROVE  IInv' /\ OthersKept(b)
<1> USE BufferAssumption
<1>1. After(b, "unspecified", 0, m_chars[b]) /\ m_chars[b] \in Storage
  BY DeletedReleases DEF CopyAssignThrows, After, IInv, TypeOK, Storage
<1>2. mem'[b] \in Arrays(LocalLength) /\ \A k \in Blocks : mem'[k] = Released(b, k)
  BY DeletedReleases DEF CopyAssignThrows, Live, IInv, TypeOK
<1>3. QED
  BY <1>1, <1>2, SettleShort DEF Life, Sound, Storage, Long

\* Move assignment exchanges the blocks, so each still has one owner.
LEMMA MoveAssignIInv ==
  ASSUME IInv, ~corrupt, NEW b \in Buffers, NEW c \in Buffers, MoveAssign(b, c)
  PROVE  IInv'
<1> USE BufferAssumption DEF IInv
<1>a. \A k \in Blocks : mem'[k] = mem[k]
  BY DEF MoveAssign, TypeOK, Storage
<1>1. TypeOK'
  BY DEF MoveAssign, TypeOK, Storage, Life, Live
<1>b. OnlyAllocateCorrupts'
  BY DEF MoveAssign, OnlyAllocateCorrupts
<1>2. CASE b = c
  <2>1. life' = life /\ m_size' = m_size
    BY <1>2 DEF MoveAssign, TypeOK
  <2>2. /\ \A d \in Buffers \ {b} : m_chars'[d] = m_chars[d]
        /\ m_chars'[b] = IF Reffed(b) THEN m_chars[b] ELSE b
        /\ \A d \in Buffers : mem'[d] = mem[d]
    BY <1>2 DEF MoveAssign, TypeOK, Reffed, Long, Storage
  <2>3. SoleOwner' /\ NoLeak'
    BY <1>a, <2>1, <2>2, SMTT(30) DEF SoleOwner, NoLeak, Owns, Reffed, Free, TypeOK
  <2>4. Shape'
    BY <1>a, <2>1, <2>2 DEF Shape, Reffed, TypeOK, Storage
  <2>5. QED
    BY <1>1, <1>b, <2>3, <2>4
<1>3. CASE b # c
  <2>1. /\ life'[b] = life[c] /\ m_size'[b] = m_size[c] /\ m_size'[c] = m_size[b]
        /\ life'[c] = IF life[b] = "broken" THEN "broken" ELSE "unspecified"
        /\ m_chars'[c] = m_chars[b]
        /\ m_chars'[b] = IF Reffed(c) THEN m_chars[c] ELSE b
        /\ mem'[b] = mem[c]
    BY <1>3 DEF MoveAssign, TypeOK, Reffed, Long, Storage
  <2>2. \A d \in Buffers \ {b, c} :
          /\ life'[d] = life[d] /\ m_size'[d] = m_size[d] /\ m_chars'[d] = m_chars[d]
          /\ mem'[d] = mem[d]
    BY <1>3 DEF MoveAssign, TypeOK, Storage
  <2>3. life[b] \in Life \ {"none"} /\ mem'[c] = mem[c]
    BY <1>3 DEF MoveAssign, Live, TypeOK, Storage
  <2>4. SoleOwner'
    <3>1. \A d \in Buffers \ {b} : (life'[d] \in Sound /\ Reffed(d)') =>
            \E e \in {d, b} : /\ e # c /\ Owns(e, m_chars'[d])
                             /\ m_size'[d] = m_size[e] /\ (d # c => d = e)
      BY <1>3, <2>1, <2>2, <2>3 DEF Owns, Reffed, Sound, Life
    <3>2. (life'[b] \in Sound /\ Reffed(b)') =>
            Owns(c, m_chars'[b]) /\ m_size'[b] = m_size[c]
      BY <2>1 DEF Owns, Reffed, Long
    <3>3. \A d \in Buffers : (life'[d] \in Sound /\ Reffed(d)') =>
            m_chars'[d] \in Blocks /\ DOMAIN mem'[m_chars'[d]] = 0 .. m_size'[d]
      BY <1>a, <3>1, <3>2 DEF SoleOwner, Owns
    <3>4. \A d, e \in Buffers : (d # e /\ life'[d] \in Sound /\ Reffed(d)') =>
            ~(Owns(e, m_chars[d])')
      BY <1>3, <3>1, <3>2 DEF SoleOwner, Owns
    <3>5. QED
      BY <3>3, <3>4 DEF SoleOwner, Owns
  <2>5. NoLeak'
    BY <1>a, <1>3, <2>1, <2>2, <2>3 DEF NoLeak, Free, Owns, Reffed, TypeOK, Sound, Life, Long
  <2>6. Shape'
    BY <1>a, <1>3, <2>1, <2>2, <2>3
       DEF Shape, Reffed, TypeOK, Sound, Life, Long, SoleOwner, Storage
  <2>7. QED
    BY <1>1, <1>b, <2>4, <2>5, <2>6
<1>4. QED
  BY <1>2, <1>3

\* allocate() begins by giving back what the buffer owned.
LEMMA CleanedReleases ==
  ASSUME IInv, NEW b \in Buffers, Live(b), Deletes(b)
  PROVE  /\ DOMAIN Cleaned(b) = Storage
         /\ \A k \in Blocks : Cleaned(b)[k] = Released(b, k)
         /\ \A c \in Buffers \ {b} : Cleaned(b)[c] = mem[c]
         /\ Cleaned(b)[b] \in Arrays(LocalLength)
<1>1. CASE Reffed(b)
  BY <1>1, DeletedReleases DEF Cleaned, IInv, TypeOK, Live
<1>2. CASE ~Reffed(b)
  BY <1>2, ZerosType, BufferAssumption DEF Cleaned, IInv, TypeOK, Released, Owns, Storage
<1>3. QED
  BY <1>1, <1>2

\* What allocate() does keeps the invariant, whatever it leaves in the array.
LEMMA AllocateWithIInv ==
  ASSUME IInv, ~corrupt, NEW b \in Buffers, NEW n \in 0 .. MaxSize, NEW chars,
         \A i \in 0 .. n - 1 : chars[i] \in Char,
         Long(n) => chars \in Arrays(n),
         AllocateWith(b, n, chars)
  PROVE  IInv' /\ OthersKept(b)
<1> USE BufferAssumption
<1>a. /\ DOMAIN Cleaned(b) = Storage
      /\ \A k \in Blocks : Cleaned(b)[k] = Released(b, k)
      /\ \A c \in Buffers \ {b} : Cleaned(b)[c] = mem[c]
      /\ Cleaned(b)[b] \in Arrays(LocalLength)
  BY CleanedReleases DEF AllocateWith
<1>b. n \in Nat
  OBVIOUS
<1>1. CASE ~Long(n)
  <2>1. mem' = [Cleaned(b) EXCEPT ![b] = Over(@, chars, n)]
    BY <1>1 DEF AllocateWith
  <2>2. After(b, "value", n, b)
    BY <1>1, <1>a, <2>1 DEF AllocateWith, After, IInv, TypeOK, Storage
  <2>3. /\ mem'[b] = Over(Cleaned(b)[b], chars, n)
        /\ \A k \in Blocks : mem'[k] = Released(b, k)
    BY <1>a, <2>1 DEF Storage
  <2>4. mem'[b] \in Arrays(LocalLength) /\ mem'[b][n] = NUL
    BY <1>1, <1>a, <1>b, <2>3, OverType
  <2>5. QED
    BY <1>1, <2>2, <2>3, <2>4, SettleShort DEF Sound, Life, Storage
<1>2. CASE Long(n)
  <2>1. PICK k \in { k \in Blocks : Cleaned(b)[k] = NoStorage } :
             /\ m_chars' = [m_chars EXCEPT ![b] = k]
             /\ mem' = [Cleaned(b) EXCEPT ![k] = Block(chars, n)]
    BY <1>2 DEF AllocateWith
  <2>2. k \in Blocks /\ k # b /\ Released(b, k) = NoStorage
    BY <1>a
  <2>3. After(b, "value", n, k)
    BY <1>a, <2>1, <2>2 DEF AllocateWith, After, IInv, TypeOK, Storage
  <2>4. /\ mem'[b] \in Arrays(LocalLength) /\ mem'[k] = Block(chars, n)
        /\ \A j \in Blocks \ {k} : mem'[j] = Released(b, j)
    BY <1>a, <2>1, <2>2 DEF Storage
  <2>5. QED
    BY <1>2, <1>b, <2>2, <2>3, <2>4, BlockType, SettleLong DEF Sound
<1>3. QED
  BY <1>1, <1>2

\* allocate() with its array left uninitialised is one such case.
LEMMA AllocateIInv ==
  ASSUME IInv, ~corrupt, NEW b \in Buffers, NEW n \in 0 .. MaxSize, Allocate(b, n)
  PROVE  IInv' /\ OthersKept(b)
<1>1. CASE ~Long(n) /\ AllocateWith(b, n, Cleaned(b)[b])
  <2>1. Cleaned(b)[b] \in Arrays(LocalLength)
    BY <1>1, CleanedReleases DEF AllocateWith
  <2>2. \A i \in 0 .. n - 1 : Cleaned(b)[b][i] \in Char
    BY <1>1, <2>1, BufferAssumption DEF Arrays, Long
  <2>3. QED
    BY <1>1, <2>2, AllocateWithIInv
<1>2. CASE Long(n) /\ \E junk \in Arrays(n) : AllocateWith(b, n, junk)
  <2>1. PICK junk \in Arrays(n) : AllocateWith(b, n, junk)
    BY <1>2
  <2>2. \A i \in 0 .. n - 1 : junk[i] \in Char
    BY DEF Arrays
  <2>3. QED
    BY <2>1, <2>2, AllocateWithIInv
<1>3. QED
  BY <1>1, <1>2 DEF Allocate

\* allocate() with a fill character is another one.
LEMMA AllocateFillIInv ==
  ASSUME IInv, ~corrupt, NEW b \in Buffers, NEW n \in 0 .. MaxSize, NEW ch \in Char,
         AllocateFill(b, n, ch)
  PROVE  IInv' /\ OthersKept(b)
<1> DEFINE fill == [i \in 0 .. n - 1 |-> ch]
<1>1. fill \in Arrays(n) /\ \A i \in 0 .. n - 1 : fill[i] \in Char
  BY DEF Arrays
<1>2. AllocateWith(b, n, fill)
  BY DEF AllocateFill
<1> HIDE DEF fill
<1>3. QED
  BY <1>1, <1>2, AllocateWithIInv

\* An allocate() that throws breaks its own buffer and no other.
LEMMA AllocateThrowsIInv ==
  ASSUME IInv, ~corrupt, NEW b \in Buffers, NEW n \in 0 .. MaxSize, AllocateThrows(b, n)
  PROVE  IInv' /\ OthersKept(b)
<1> USE BufferAssumption
<1>1. After(b, "broken", n, m_chars[b]) /\ m_chars[b] \in Storage
  BY CleanedReleases DEF AllocateThrows, After, IInv, TypeOK, Storage
<1>2. mem'[b] \in Arrays(LocalLength) /\ \A k \in Blocks : mem'[k] = Released(b, k)
  BY CleanedReleases DEF AllocateThrows
<1>3. Long(n)
  BY DEF AllocateThrows
<1>4. QED
  BY <1>1, <1>2, <1>3, SettleShort DEF Life, Sound

\* Writing through operator[] or data() changes characters and no ownership.
LEMMA SetAtIInv ==
  ASSUME IInv, ~corrupt, NEW b \in Buffers, NEW i \in 0 .. MaxSize - 1, NEW ch \in Char,
         SetAt(b, i, ch)
  PROVE  IInv'
<1> USE BufferAssumption DEF IInv
<1> DEFINE p == m_chars[b]
<1>1. /\ p \in Storage /\ i < m_size[b]
      /\ mem' = [mem EXCEPT ![p] = [@ EXCEPT ![i] = ch]]
      /\ life' = life /\ m_chars' = m_chars /\ m_size' = m_size /\ corrupt' = corrupt
  BY DEF SetAt, TypeOK
<1>2. /\ \A q \in Storage \ {p} : mem'[q] = mem[q]
      /\ mem'[p] = [mem[p] EXCEPT ![i] = ch]
      /\ DOMAIN mem' = Storage
  BY <1>1 DEF TypeOK
<1>3. life[b] = "value" /\ i \in DOMAIN mem[p]
  BY <1>1, SMTT(30) DEF SetAt, TypeOK, Shape, SoleOwner, Sound, Reffed, Long, Arrays
<1>4. /\ DOMAIN mem'[p] = DOMAIN mem[p] /\ mem'[p] # NoStorage
      /\ \A n \in Nat : mem[p] \in Arrays(n) => mem'[p] \in Arrays(n)
  <2>1. DOMAIN mem'[p] = DOMAIN mem[p]
    BY <1>2
  <2>2. DOMAIN NoStorage = {}
    BY DEF NoStorage
  <2>3. \A n \in Nat : mem[p] \in Arrays(n) => mem'[p] \in Arrays(n)
    BY <1>2 DEF Arrays
  <2>4. QED
    BY <1>3, <2>1, <2>2, <2>3
<1>5. \A d \in Buffers \ {b} : life[d] = "value" => m_chars[d] # p
  <2>1. CASE Reffed(b)
    BY <1>3, <2>1 DEF SoleOwner, Shape, Sound, Owns, TypeOK
  <2>2. CASE ~Reffed(b)
    BY <1>3, <2>2 DEF SoleOwner, Shape, Sound, TypeOK
  <2>3. QED
    BY <2>1, <2>2
<1>6. mem[p] # NoStorage
  BY <1>3 DEF NoStorage
<1> HIDE DEF p
<1>7. TypeOK'
  <2>1. \A d \in Buffers : mem'[d] \in IF life[d] = "none" THEN {NoStorage} ELSE Arrays(LocalLength)
    BY <1>1, <1>2, <1>4, <1>6 DEF TypeOK, Storage
  <2>2. \A k \in Blocks : mem'[k] \in {NoStorage} \cup UNION { Arrays(n + 1) : n \in 0 .. MaxSize }
    <3>1. CASE p \in Blocks
      <4>1. PICK n \in 0 .. MaxSize : mem[p] \in Arrays(n + 1)
        BY <1>6, <3>1 DEF TypeOK
      <4>2. mem'[p] \in Arrays(n + 1)
        BY <1>4, <4>1
      <4>3. QED
        BY <1>2, <4>2, <3>1 DEF TypeOK, Storage
    <3>2. CASE p \notin Blocks
      BY <1>2, <3>2 DEF TypeOK, Storage
    <3>3. QED
      BY <3>1, <3>2
  <2>3. QED
    BY <1>1, <1>2, <2>1, <2>2 DEF TypeOK
<1>a. \A q \in Storage : DOMAIN mem'[q] = DOMAIN mem[q] /\ (mem'[q] = NoStorage <=> mem[q] = NoStorage)
  BY <1>2, <1>4, <1>6
<1>8. SoleOwner' /\ NoLeak' /\ OnlyAllocateCorrupts'
  BY <1>1, <1>a DEF SoleOwner, NoLeak, Owns, Reffed, Free, OnlyAllocateCorrupts, TypeOK, Storage
<1>9. Shape'
  BY <1>1, <1>2, <1>3, <1>5 DEF Shape, Reffed, TypeOK, p
<1>10. QED
  BY <1>7, <1>8, <1>9

\* Whatever is done with a buffer that is not broken is legal.
LEMMA SoundIsLegal ==
  ASSUME IInv, NEW b \in Buffers, life[b] \in Sound
  PROVE  Deletes(b) /\ Reads(b)
<1> USE BufferAssumption DEF IInv
<1>1. CASE Reffed(b)
  <2>1. DOMAIN mem[m_chars[b]] = 0 .. m_size[b] /\ m_chars[b] \in Blocks
    BY <1>1 DEF SoleOwner
  <2>2. mem[m_chars[b]] # NoStorage /\ MayRead(b)
    BY <2>1 DEF NoStorage, MayRead, TypeOK
  <2>3. QED
    BY <1>1, <2>1, <2>2 DEF SoleOwner, Deletes, Reads, MayDelete, Free
<1>2. CASE ~Reffed(b)
  BY <1>2 DEF Deletes, Reads
<1>3. QED
  BY <1>1, <1>2

\* Only a buffer broken by allocate() can do what is not legal, so the
\* invariant, which excuses it, is kept.
LEMMA MisuseIInv ==
  ASSUME IInv, ~corrupt, NEW b \in Buffers, Misuse(b)
  PROVE  IInv'
<1> USE BufferAssumption DEF IInv
<1>1. /\ life' = life /\ m_chars' = m_chars /\ m_size' = m_size /\ mem' = mem
      /\ corrupt' = TRUE /\ Live(b) /\ (~Deletes(b) \/ ~Reads(b))
  BY DEF Misuse
<1>2. life[b] \notin Sound
  BY <1>1, SoundIsLegal
<1>3. life[b] = "broken"
  BY <1>1, <1>2 DEF Live, TypeOK, Life, Sound
<1>4. TypeOK'
  BY <1>1 DEF TypeOK
<1>5. SoleOwner' /\ NoLeak' /\ Shape' /\ OnlyAllocateCorrupts'
  BY <1>1, <1>3 DEF SoleOwner, NoLeak, Shape, OnlyAllocateCorrupts, Owns, Reffed, Free
<1>6. QED
  BY <1>4, <1>5

-----------------------------------------------------------------------------
\* Every operation on a buffer keeps the invariant.
THEOREM NextIInv == IInv /\ [Next]_vars => IInv'
<1> SUFFICES ASSUME IInv, [Next]_vars PROVE IInv'
  OBVIOUS
<1>1. CASE UNCHANGED vars
  BY <1>1 DEF vars, IInv, TypeOK, SoleOwner, NoLeak, Shape, OnlyAllocateCorrupts,
              Owns, Reffed, Free
<1>2. CASE Next
  <2>1. ~corrupt
    BY <1>2 DEF Next
  <2>2. PICK b \in Buffers :
          \/ \E n \in 0 .. MaxSize : \E data \in Arrays(n) : ConstructFrom(b, data, n)
          \/ \E c \in Buffers : CopyConstruct(b, c)
          \/ \E c \in Buffers : MoveConstruct(b, c)
          \/ Destroy(b)
          \/ Clear(b)
          \/ \E c \in Buffers : CopyAssign(b, c)
          \/ \E c \in Buffers : CopyAssignThrows(b, c)
          \/ \E c \in Buffers : MoveAssign(b, c)
          \/ \E n \in 0 .. MaxSize : Allocate(b, n)
          \/ \E n \in 0 .. MaxSize, ch \in Char : AllocateFill(b, n, ch)
          \/ \E n \in 0 .. MaxSize : AllocateThrows(b, n)
          \/ \E i \in 0 .. MaxSize - 1, ch \in Char : SetAt(b, i, ch)
          \/ Misuse(b)
    BY <1>2 DEF Next
  <2>3. QED
    BY <2>1, <2>2, ConstructFromIInv, CopyConstructIInv, MoveConstructIInv, DestroyIInv,
       ClearIInv, CopyAssignIInv, CopyAssignThrowsIInv, MoveAssignIInv, AllocateIInv,
       AllocateFillIInv, AllocateThrowsIInv, SetAtIInv, MisuseIInv
<1>3. QED
  BY <1>1, <1>2

\* What buffers do with their storage is right in every reachable state.
THEOREM IInvHolds == Spec => []IInv
  BY InitIInv, NextIInv, PTL DEF Spec

\* Every variable has its type.
THEOREM TypeCorrect == Spec => []TypeOK
  BY IInvHolds, PTL DEF IInv

\* No block has two owners, and each is big enough for its owner.
THEOREM OwnershipExclusive == Spec => []SoleOwner
  BY IInvHolds, PTL DEF IInv

\* Every block in use has an owner.
THEOREM NothingLeaks == Spec => []NoLeak
  BY IInvHolds, PTL DEF IInv

\* Only a buffer whose allocate() has thrown can misuse storage.
THEOREM CorruptionConfined == Spec => []OnlyAllocateCorrupts
  BY IInvHolds, PTL DEF IInv

\* Two contents never share storage, and each is terminated in its own.
LEMMA ContentsApart == IInv => Terminated
<1> SUFFICES ASSUME IInv, NEW b \in Buffers, life[b] = "value"
             PROVE  /\ m_size[b] \in DOMAIN mem[m_chars[b]]
                    /\ mem[m_chars[b]][m_size[b]] = NUL
                    /\ \A c \in Buffers \ {b} : life[c] = "value" => m_chars[c] # m_chars[b]
  BY DEF Terminated
<1> USE BufferAssumption DEF IInv
<1>1. mem[m_chars[b]][m_size[b]] = NUL
  BY DEF Shape
<1>2. CASE Reffed(b)
  <2>1. m_chars[b] \in Blocks /\ m_size[b] \in DOMAIN mem[m_chars[b]]
    BY <1>2 DEF SoleOwner, Sound, TypeOK
  <2>2. \A c \in Buffers \ {b} : life[c] = "value" => m_chars[c] # m_chars[b]
    BY <1>2, <2>1 DEF SoleOwner, Sound, Owns, Shape, TypeOK
  <2>3. QED
    BY <1>1, <2>1, <2>2
<1>3. CASE ~Reffed(b)
  <2>1. m_chars[b] = b
    BY <1>3 DEF Shape
  <2>2. m_size[b] \in DOMAIN mem[b]
    BY <1>3 DEF TypeOK, Arrays, Reffed, Long
  <2>3. \A c \in Buffers \ {b} : life[c] = "value" => m_chars[c] # b
    BY DEF SoleOwner, Sound, Shape, TypeOK
  <2>4. QED
    BY <1>1, <2>1, <2>2, <2>3
<1>4. QED
  BY <1>2, <1>3

\* Contents are terminated, in storage of their own.
THEOREM ContentsTerminated == Spec => []Terminated
  BY ContentsApart, IInvHolds, PTL

-----------------------------------------------------------------------------
(* Buffer implements BufferValues, a buffer's value being Value(b). *)

\* The characters of a buffer with a content are in the storage it points to.
LEMMA StoredWithin ==
  ASSUME IInv, NEW b \in Buffers, life[b] = "value"
  PROVE  MayRead(b)
<1>1. CASE Reffed(b)
  BY <1>1, BufferAssumption DEF IInv, TypeOK, SoleOwner, Sound, MayRead
<1>2. CASE ~Reffed(b)
  BY <1>2, BufferAssumption DEF IInv, TypeOK, Shape, MayRead, Arrays, Reffed, Long
<1>3. QED
  BY <1>1, <1>2

\* The content of a buffer that has one is a content.
LEMMA ValueType ==
  ASSUME IInv, NEW b \in Buffers
  PROVE  /\ life[b] = "value" => Value(b) \in Arrays(m_size[b]) /\ m_size[b] \in 0 .. MaxSize
         /\ life[b] # "none" => Value(b) # Absent
<1>1. m_size[b] \in 0 .. MaxSize
  BY DEF IInv, TypeOK
<1>2. CASE life[b] = "value"
  <2>1. MayRead(b)
    BY <1>2, StoredWithin
  <2>2. Value(b) = Content(b) /\ Content(b) \in Arrays(m_size[b])
    BY <1>2, <2>1, ContentType DEF Value
  <2>3. QED
    BY <1>1, <1>2, <2>2, MarksAssumption
<1>3. CASE life[b] # "value"
  BY <1>3, MarksAssumption DEF Value
<1>4. QED
  BY <1>2, <1>3

\* A step that changes the value of one buffer, or of two.
LEMMA ValuePut ==
  ASSUME NEW b \in Buffers, NEW v, OthersKept(b), Value(b)' = v
  PROVE  [c \in Buffers |-> Value(c)]' = [[c \in Buffers |-> Value(c)] EXCEPT ![b] = v]
  BY DEF OthersKept

(* When two buffers change and the others do not, the values change in two places. *)
LEMMA ValuesPut ==
  ASSUME NEW b \in Buffers, NEW c \in Buffers, b # c, NEW v, NEW w,
         \A d \in Buffers \ {b, c} : Value(d)' = Value(d), Value(b)' = v, Value(c)' = w
  PROVE  [d \in Buffers |-> Value(d)]' =
           [[d \in Buffers |-> Value(d)] EXCEPT ![b] = v, ![c] = w]
  OBVIOUS

\* A new buffer has the value it is constructed from.
LEMMA ConstructFromValue ==
  ASSUME IInv, NEW b \in Buffers, NEW n \in 0 .. MaxSize, NEW data \in Arrays(n),
         ConstructFrom(b, data, n)
  PROVE  life'[b] = "value" /\ Value(b)' = data
<1> USE BufferAssumption
<1>1. life'[b] = "value" /\ m_size'[b] = n
  BY DEF ConstructFrom, IInv, TypeOK
<1>2. \A i \in 0 .. n - 1 : mem'[m_chars'[b]][i] = data[i]
  <2>1. CASE ~Long(n)
    <3>1. m_chars'[b] = b /\ mem'[b] = Over(Zeros, data, n)
      BY <2>1 DEF ConstructFrom, IInv, TypeOK, Storage
    <3>2. QED
      BY <2>1, <3>1 DEF Over, Zeros, Long
  <2>2. CASE Long(n)
    <3>1. PICK k \in Free : /\ m_chars' = [m_chars EXCEPT ![b] = k]
                            /\ mem' = [mem EXCEPT ![b] = Zeros, ![k] = Block(data, n)]
      BY <2>2 DEF ConstructFrom
    <3>2. m_chars'[b] = k /\ mem'[k] = Block(data, n)
      BY <3>1 DEF IInv, TypeOK, Storage, Free
    <3>3. QED
      BY <3>2 DEF Block
  <2>3. QED
    BY <2>1, <2>2
<1>3. Content(b)' = data
  BY <1>1, <1>2 DEF Content, Arrays
<1>4. QED
  BY <1>1, <1>3 DEF Value

\* So has one whose new array is filled at once.
LEMMA AllocateValue ==
  ASSUME IInv, NEW b \in Buffers, NEW n \in 0 .. MaxSize, NEW chars \in Arrays(n),
         AllocateWith(b, n, chars)
  PROVE  life'[b] = "value" /\ Value(b)' = chars
<1> USE BufferAssumption
<1>1. life'[b] = "value" /\ m_size'[b] = n
  BY DEF AllocateWith, IInv, TypeOK
<1>a. DOMAIN Cleaned(b) = Storage /\ Cleaned(b)[b] \in Arrays(LocalLength)
  BY CleanedReleases DEF AllocateWith
<1>2. \A i \in 0 .. n - 1 : mem'[m_chars'[b]][i] = chars[i]
  <2>1. CASE ~Long(n)
    <3>1. m_chars'[b] = b /\ mem'[b] = Over(Cleaned(b)[b], chars, n)
      BY <1>a, <2>1 DEF AllocateWith, IInv, TypeOK, Storage
    <3>2. QED
      BY <1>a, <2>1, <3>1 DEF Over, Long, Arrays
  <2>2. CASE Long(n)
    <3>1. PICK k \in Blocks : /\ m_chars' = [m_chars EXCEPT ![b] = k]
                              /\ mem' = [Cleaned(b) EXCEPT ![k] = Block(chars, n)]
      BY <2>2 DEF AllocateWith
    <3>2. m_chars'[b] = k /\ mem'[k] = Block(chars, n)
      BY <1>a, <3>1 DEF IInv, TypeOK, Storage
    <3>3. QED
      BY <3>2 DEF Block
  <2>3. QED
    BY <2>1, <2>2
<1>3. Content(b)' = chars
  BY <1>1, <1>2 DEF Content, Arrays
<1>4. QED
  BY <1>1, <1>3 DEF Value

\* One that makes b what c is copies c's value.
LEMMA CopiesValue ==
  ASSUME IInv, NEW b \in Buffers, NEW c \in Buffers, life[c] # "none",
         OthersKept(b), Value(b)' = Value(c)
  PROVE  Values!Copy(b, c)
<1>1. Value(c) # Absent
  BY ValueType
<1> QED
  BY <1>1, ValuePut DEF Values!Copy, Visible

\* The copy constructor reads what it copies before anything has changed.
LEMMA CopyConstructCopies ==
  ASSUME IInv, ~corrupt, NEW b \in Buffers, NEW c \in Buffers, CopyConstruct(b, c)
  PROVE  OthersKept(b) /\ Value(b)' = Value(c) /\ Values!Copy(b, c)
<1> USE BufferAssumption
<1>1. OthersKept(b) /\ life[c] # "none" /\ b # c
  BY CopyConstructIInv DEF CopyConstruct, Live
<1>2. life'[b] = CopyOf(c) /\ m_size'[b] = m_size[c]
  BY DEF CopyConstruct, IInv, TypeOK
<1>3. ASSUME life[c] = "value"
      PROVE  \A i \in 0 .. m_size[c] - 1 : mem'[m_chars'[b]][i] = mem[m_chars[c]][i]
  <2>1. CASE ~Reffed(c)
    BY <1>3, <2>1 DEF CopyConstruct, IInv, TypeOK, Shape, Storage
  <2>2. CASE Reffed(c)
    <3>1. PICK k \in Free, junk \in Garbage :
             /\ m_chars' = [m_chars EXCEPT ![b] = k]
             /\ mem' = [mem EXCEPT ![b] = junk, ![k] = Block(Content(c), m_size[c])]
      BY <2>2 DEF CopyConstruct
    <3>2. m_chars'[b] = k /\ mem'[k] = Block(Content(c), m_size[c])
      BY <3>1 DEF IInv, TypeOK, Storage, Free
    <3>3. QED
      BY <3>2 DEF Block, Content, IInv, TypeOK
  <2>3. QED
    BY <2>1, <2>2
<1>4. Value(b)' = Value(c)
  <2>1. CASE life[c] = "value"
    <3>1. Content(b)' = Content(c)
      BY <1>2, <1>3, <2>1 DEF Content
    <3>2. QED
      BY <1>2, <2>1, <3>1 DEF Value, CopyOf
  <2>2. CASE life[c] # "value"
    BY <1>1, <1>2, <2>2 DEF Value, CopyOf
  <2>3. QED
    BY <2>1, <2>2
<1>5. QED
  BY <1>1, <1>4, CopiesValue

\* Copy assignment deletes the target's block first: the source is not in it.
LEMMA CopyAssignCopies ==
  ASSUME IInv, ~corrupt, NEW b \in Buffers, NEW c \in Buffers, CopyAssign(b, c)
  PROVE  OthersKept(b) /\ Value(b)' = Value(c) /\ Values!Copy(b, c)
<1> USE BufferAssumption
<1>1. OthersKept(b) /\ life[c] # "none" /\ b # c
  BY CopyAssignIInv DEF CopyAssign, Live
<1>2. life'[b] = CopyOf(c) /\ m_size'[b] = m_size[c]
  BY DEF CopyAssign, IInv, TypeOK
<1>a. DOMAIN Deleted(b) = Storage
  BY DeletedReleases DEF CopyAssign
<1>3. ASSUME life[c] = "value"
      PROVE  \A i \in 0 .. m_size[c] - 1 : mem'[m_chars'[b]][i] = mem[m_chars[c]][i]
  <2>1. CASE ~Reffed(c)
    BY <1>a, <1>3, <2>1 DEF CopyAssign, IInv, TypeOK, Shape, Storage
  <2>2. CASE Reffed(c)
    <3>1. PICK k \in Blocks :
             /\ m_chars' = [m_chars EXCEPT ![b] = k]
             /\ mem' = [Deleted(b) EXCEPT ![k] = Block(Content(c), m_size[c])]
      BY <2>2 DEF CopyAssign
    <3>2. m_chars'[b] = k /\ mem'[k] = Block(Content(c), m_size[c])
      BY <1>a, <3>1 DEF IInv, TypeOK, Storage
    <3>3. QED
      BY <3>2 DEF Block, Content, IInv, TypeOK
  <2>3. QED
    BY <2>1, <2>2
<1>4. Value(b)' = Value(c)
  <2>1. CASE life[c] = "value"
    <3>1. Content(b)' = Content(c)
      BY <1>2, <1>3, <2>1 DEF Content
    <3>2. QED
      BY <1>2, <2>1, <3>1 DEF Value, CopyOf
  <2>2. CASE life[c] # "value"
    BY <1>1, <1>2, <2>2 DEF Value, CopyOf
  <2>3. QED
    BY <2>1, <2>2
<1>5. QED
  BY <1>1, <1>4, CopiesValue

\* To the users of the buffers, b has taken c's value over.
Moved(b, c) ==
  /\ Value(b)' = Value(c) /\ Value(c)' = Unspecified
  /\ \A d \in Buffers \ {b, c} : Value(d)' = Value(d)

\* What both moves do: b has c's content, through c's block or in its own
\* m_data, and c has none to rely on.
LEMMA HandsOver ==
  ASSUME IInv, NEW b \in Buffers, NEW c \in Buffers, b # c, life[c] # "none",
         life'[b] = life[c], life'[c] \in {"unspecified", "broken"},
         m_size'[b] = m_size[c],
         m_chars'[b] = IF Reffed(c) THEN m_chars[c] ELSE b,
         mem'[b] = mem[c],
         \A k \in Blocks : mem'[k] = mem[k],
         \A d \in Buffers \ {b, c} :
           /\ life'[d] = life[d] /\ m_size'[d] = m_size[d] /\ m_chars'[d] = m_chars[d]
           /\ mem'[d] = mem[d]
  PROVE  Moved(b, c) /\ Values!Move(b, c)
<1>1. Value(b)' = Value(c)
  <2>1. CASE life[c] = "value"
    <3>1. mem'[m_chars'[b]] = mem[m_chars[c]]
      BY <2>1 DEF IInv, SoleOwner, Shape, Sound
    <3>2. Content(b)' = Content(c)
      BY <3>1 DEF Content
    <3>3. QED
      BY <2>1, <3>2 DEF Value
  <2>2. CASE life[c] # "value"
    BY <2>2 DEF Value
  <2>3. QED
    BY <2>1, <2>2
<1>2. Value(c)' = Unspecified
  BY DEF Value
<1>3. ASSUME NEW d \in Buffers \ {b, c} PROVE Value(d)' = Value(d)
  <2>1. CASE life[d] = "value"
    <3>1. mem'[m_chars[d]] = mem[m_chars[d]]
      BY <2>1 DEF IInv, SoleOwner, Shape, Sound
    <3>2. Content(d)' = Content(d)
      BY <3>1 DEF Content
    <3>3. QED
      BY <2>1, <3>2 DEF Value
  <2>2. CASE life[d] # "value"
    BY <2>2 DEF Value
  <2>3. QED
    BY <2>1, <2>2
<1>4. Value(c) # Absent
  BY ValueType
<1>5. Values!Move(b, c)
  BY <1>1, <1>2, <1>3, <1>4, ValuesPut DEF Values!Move, Visible
<1>6. QED
  BY <1>1, <1>2, <1>3, <1>5 DEF Moved

\* The move constructor hands the content over.
LEMMA MoveConstructMoves ==
  ASSUME IInv, NEW b \in Buffers, NEW c \in Buffers, MoveConstruct(b, c)
  PROVE  Moved(b, c) /\ Values!Move(b, c)
<1>1. b # c /\ life[c] # "none"
  BY DEF MoveConstruct, Live
<1>2. QED
  BY <1>1, HandsOver, BufferAssumption DEF MoveConstruct, IInv, TypeOK, Storage

\* So does move assignment, and onto itself it changes nothing.
LEMMA MoveAssignMoves ==
  ASSUME IInv, NEW b \in Buffers, NEW c \in Buffers, MoveAssign(b, c)
  PROVE  /\ b # c => Moved(b, c) /\ Values!Move(b, c)
         /\ b = c => \A d \in Buffers : Value(d)' = Value(d)
<1> USE BufferAssumption
<1>1. CASE b # c
  <2>1. life[b] # "none" /\ life[c] # "none"
    BY DEF MoveAssign, Live
  <2>2. /\ life'[b] = life[c] /\ m_size'[b] = m_size[c]
        /\ life'[c] \in {"unspecified", "broken"}
        /\ m_chars'[b] = IF Reffed(c) THEN m_chars[c] ELSE b
        /\ mem'[b] = mem[c]
    BY <1>1 DEF MoveAssign, IInv, TypeOK, Reffed, Storage
  <2>3. /\ \A k \in Blocks : mem'[k] = mem[k]
        /\ \A d \in Buffers \ {b, c} :
             /\ life'[d] = life[d] /\ m_size'[d] = m_size[d] /\ m_chars'[d] = m_chars[d]
             /\ mem'[d] = mem[d]
    BY <1>1 DEF MoveAssign, IInv, TypeOK, Storage
  <2>4. QED
    BY <1>1, <2>1, <2>2, <2>3, HandsOver
<1>2. CASE b = c
  <2>1. life' = life /\ m_size' = m_size
    BY <1>2 DEF MoveAssign, IInv, TypeOK
  <2>2. /\ \A d \in Buffers \ {b} : m_chars'[d] = m_chars[d]
        /\ m_chars'[b] = IF Reffed(b) THEN m_chars[b] ELSE b
        /\ \A p \in Storage : mem'[p] = mem[p]
    BY <1>2 DEF MoveAssign, IInv, TypeOK, Reffed, Long, Storage
  <2>3. \A d \in Buffers : life[d] = "value" => m_chars'[d] = m_chars[d] /\ m_chars[d] \in Storage
    BY <2>2 DEF IInv, Shape, TypeOK
  <2>4. \A d \in Buffers : Value(d)' = Value(d)
    BY <2>1, <2>2, <2>3 DEF Value, Content
  <2>5. QED
    BY <1>2, <2>4
<1>3. QED
  BY <1>1, <1>2

\* An assignment that throws costs its own target its value, and only that.
LEMMA LosesValue ==
  ASSUME IInv, NEW b \in Buffers, life[b] # "none",
         life'[b] \in {"unspecified", "broken"}, OthersKept(b)
  PROVE  Values!Lose(b)
<1>1. Value(b)' = Unspecified /\ Value(b) # Absent
  BY ValueType DEF Value
<1> QED
  BY <1>1, ValuePut DEF Values!Lose, Visible

\* The destructor ends one value.
LEMMA DropsValue ==
  ASSUME IInv, ~corrupt, NEW b \in Buffers, Destroy(b)
  PROVE  Values!Drop(b)
<1>1. OthersKept(b) /\ Value(b)' = Absent /\ Value(b) # Absent
  BY DestroyIInv, ValueType DEF Destroy, Live, Value, IInv, TypeOK
<1> QED
  BY <1>1, ValuePut DEF Values!Drop, Visible

\* A character written into one buffer is seen in no other.
LEMMA SetAtKeepsOthers ==
  ASSUME IInv, NEW b \in Buffers, NEW i, NEW ch, SetAt(b, i, ch)
  PROVE  OthersKept(b)
<1> SUFFICES ASSUME NEW c \in Buffers, c # b PROVE Value(c)' = Value(c)
  BY DEF OthersKept
<1>1. life[c] = "value" => m_chars[c] # m_chars[b]
  BY ContentsApart DEF Terminated, SetAt
<1>2. CASE life[c] = "value"
  <2>1. mem'[m_chars[c]] = mem[m_chars[c]]
    BY <1>1, <1>2 DEF SetAt, IInv, TypeOK
  <2>2. QED
    BY <1>2, <2>1 DEF SetAt, Value, Content
<1>3. CASE life[c] # "value"
  BY <1>3 DEF SetAt, Value
<1>4. QED
  BY <1>2, <1>3

\* A constructor makes the content it is given.
LEMMA MakesValue ==
  ASSUME IInv, ~corrupt, NEW b \in Buffers, NEW n \in 0 .. MaxSize, NEW data \in Arrays(n),
         ConstructFrom(b, data, n)
  PROVE  Values!Make(b, data)
<1>1. OthersKept(b) /\ Value(b)' = data
  BY ConstructFromIInv, ConstructFromValue
<1>2. Value(b) = Absent
  BY DEF ConstructFrom, Value
<1> QED
  BY <1>1, <1>2, ValuePut DEF Values!Make, Visible

\* clear() leaves no characters.
LEMMA EmptiesValue ==
  ASSUME IInv, ~corrupt, NEW b \in Buffers, Clear(b)
  PROVE  Values!Empty(b)
<1>1. OthersKept(b) /\ life[b] # "none"
  BY ClearIInv DEF Clear, Live
<1>2. life'[b] = "value" /\ m_size'[b] = 0
  BY DEF Clear, IInv, TypeOK
<1>3. Value(b)' = [i \in {} |-> 0]
  <2>1. 0 .. m_size'[b] - 1 = {}
    BY <1>2
  <2>2. Value(b)' = [i \in {} |-> mem'[m_chars'[b]][i]]
    BY <1>2, <2>1 DEF Value, Content
  <2> QED
    BY <2>2
<1>4. Value(b) # Absent
  BY <1>1, ValueType
<1> QED
  BY <1>1, <1>3, <1>4, ValuePut DEF Values!Empty, Visible

\* allocate() leaves as many characters as it was asked for, and with a fill
\* character, that one everywhere.
LEMMA ResizesValue ==
  ASSUME IInv, ~corrupt, NEW b \in Buffers, NEW n \in 0 .. MaxSize, Allocate(b, n)
  PROVE  Values!Resize(b, n)
<1>1. OthersKept(b) /\ life[b] # "none"
  BY AllocateIInv DEF Allocate, AllocateWith, Live
<1>2. Value(b) # Absent
  BY <1>1, ValueType
<1>3. Value(b)' \in Arrays(n)
  <2>1. IInv'
    BY AllocateIInv
  <2>2. life'[b] = "value" /\ m_size'[b] = n
    BY DEF Allocate, AllocateWith, IInv, TypeOK
  <2>3. (life[b] = "value" => Value(b) \in Arrays(m_size[b]) /\ m_size[b] \in 0 .. MaxSize)'
    BY <2>1, ValueType, PTL
  <2> QED
    BY <2>2, <2>3
<1> QED
  BY <1>1, <1>2, <1>3, ValuePut DEF Values!Resize, Visible, Arrays

LEMMA FillsValue ==
  ASSUME IInv, ~corrupt, NEW b \in Buffers, NEW n \in 0 .. MaxSize, NEW ch \in Char,
         AllocateFill(b, n, ch)
  PROVE  Values!Fill(b, n, ch)
<1>1. OthersKept(b) /\ life[b] # "none"
  BY AllocateFillIInv DEF AllocateFill, AllocateWith, Live
<1>2. Value(b) # Absent
  BY <1>1, ValueType
<1>3. PICK chars \in Arrays(n) : chars = [i \in 0 .. n - 1 |-> ch]
  BY DEF Arrays
<1>4. Value(b)' = chars
  BY <1>3, AllocateValue DEF AllocateFill
<1> QED
  BY <1>1, <1>2, <1>3, <1>4, ValuePut DEF Values!Fill, Visible

\* A character is stored where it is meant to be.
LEMMA PutsValue ==
  ASSUME IInv, NEW b \in Buffers, NEW i \in 0 .. MaxSize - 1, NEW ch \in Char, SetAt(b, i, ch)
  PROVE  Values!Put(b, i, ch)
<1>1. OthersKept(b)
  BY SetAtKeepsOthers
<1>2. /\ life[b] = "value" /\ i \in 0 .. m_size[b] - 1 /\ m_size[b] \in 0 .. MaxSize
      /\ life' = life /\ m_chars' = m_chars /\ m_size' = m_size
  BY DEF SetAt, IInv, TypeOK
<1>3. m_chars[b] \in Storage /\ 0 .. m_size[b] - 1 \subseteq DOMAIN mem[m_chars[b]]
  BY <1>2, StoredWithin DEF IInv, TypeOK, MayRead
<1>4. \A k \in 0 .. m_size[b] - 1 : mem'[m_chars[b]][k] = IF k = i THEN ch ELSE mem[m_chars[b]][k]
  BY <1>2, <1>3 DEF SetAt, IInv, TypeOK
<1>5. Value(b)' = [Value(b) EXCEPT ![i] = ch]
  <2>1. Value(b) = Content(b) /\ Value(b)' = Content(b)'
    BY <1>2 DEF Value
  <2>2. Content(b)' = [k \in 0 .. m_size[b] - 1 |-> IF k = i THEN ch ELSE mem[m_chars[b]][k]]
    BY <1>2, <1>4 DEF Content
  <2>3. [Content(b) EXCEPT ![i] = ch] = [k \in 0 .. m_size[b] - 1 |-> IF k = i THEN ch ELSE mem[m_chars[b]][k]]
    BY <1>2 DEF Content
  <2> QED
    BY <2>1, <2>2, <2>3
<1>6. Value(b) \in Values!Contents /\ i \in DOMAIN Value(b)
  BY <1>2, ValueType DEF Values!Contents, Arrays
<1> QED
  BY <1>1, <1>5, <1>6, ValuePut DEF Values!Put, Visible

\* Each operation does to the values what it promises.
LEMMA EachAsPromised ==
  ASSUME IInv, ~corrupt, NEW b \in Buffers
  PROVE  AsPromised(b)
<1>1. ASSUME NEW n \in 0 .. MaxSize
      PROVE  /\ \A data \in Arrays(n) : ConstructFrom(b, data, n) => Values!Make(b, data)
             /\ Allocate(b, n) => Values!Resize(b, n)
             /\ \A ch \in Char : AllocateFill(b, n, ch) => Values!Fill(b, n, ch)
             /\ AllocateThrows(b, n) => Values!Lose(b)
  <2>1. ASSUME AllocateThrows(b, n) PROVE Values!Lose(b)
    BY <2>1, AllocateThrowsIInv, LosesValue DEF AllocateThrows, Live, IInv, TypeOK
  <2> QED
    BY <2>1, MakesValue, ResizesValue, FillsValue
<1>2. ASSUME NEW c \in Buffers
      PROVE  /\ CopyConstruct(b, c) \/ CopyAssign(b, c) => Values!Copy(b, c)
             /\ CopyAssignThrows(b, c) => Values!Lose(b)
             /\ MoveConstruct(b, c) => Values!Move(b, c)
             /\ MoveAssign(b, c) => IF b = c THEN UNCHANGED Visible ELSE Values!Move(b, c)
  <2>1. ASSUME CopyAssignThrows(b, c) PROVE Values!Lose(b)
    BY <2>1, CopyAssignThrowsIInv, LosesValue DEF CopyAssignThrows, Live, IInv, TypeOK
  <2>2. ASSUME MoveAssign(b, c) PROVE IF b = c THEN UNCHANGED Visible ELSE Values!Move(b, c)
    BY <2>2, MoveAssignMoves DEF Visible
  <2> QED
    BY <2>1, <2>2, CopyConstructCopies, CopyAssignCopies, MoveConstructMoves
<1>3. \A i \in 0 .. MaxSize - 1, ch \in Char : SetAt(b, i, ch) => Values!Put(b, i, ch)
  BY PutsValue
<1> QED
  BY <1>1, <1>2, <1>3, DropsValue, EmptiesValue DEF AsPromised

\* Every step is a step of BufferValues, or one its users do not see.
THEOREM NextImplements ==
  IInv /\ [Next]_vars => [Values!Next]_Visible /\ [\A b \in Buffers : AsPromised(b)]_vars
<1> SUFFICES ASSUME IInv, [Next]_vars
             PROVE  [Values!Next]_Visible /\ [\A b \in Buffers : AsPromised(b)]_vars
  OBVIOUS
<1>1. CASE UNCHANGED vars
  BY <1>1 DEF vars, Value, Content, Visible
<1>2. CASE Next
  <2>1. ~corrupt
    BY <1>2 DEF Next
  <2>2. \A b \in Buffers : AsPromised(b)
    BY <2>1, EachAsPromised
  <2>3. ASSUME NEW b \in Buffers, NEW n \in 0 .. MaxSize, NEW data \in Arrays(n),
               ConstructFrom(b, data, n)
        PROVE  Values!Next
    <3>1. Values!Make(b, data) /\ data \in Values!Contents
      BY <2>2, <2>3 DEF AsPromised, Values!Contents, Arrays
    <3> QED
      BY <3>1 DEF Values!Next
  <2>4. ASSUME NEW b \in Buffers, NEW c \in Buffers,
               \/ CopyConstruct(b, c) \/ CopyAssign(b, c) \/ CopyAssignThrows(b, c)
               \/ MoveConstruct(b, c) \/ MoveAssign(b, c)
        PROVE  Values!Next \/ UNCHANGED Visible
    <3>1. Values!Copy(b, c) \/ Values!Move(b, c) \/ Values!Lose(b) \/ UNCHANGED Visible
      BY <2>2, <2>4 DEF AsPromised
    <3> QED
      BY <3>1 DEF Values!Next
  <2>5. ASSUME NEW b \in Buffers, Destroy(b) \/ Clear(b) PROVE Values!Next
    BY <2>2, <2>5 DEF AsPromised, Values!Next
  <2>6. ASSUME NEW b \in Buffers, NEW n \in 0 .. MaxSize, Allocate(b, n) \/ AllocateThrows(b, n)
        PROVE  Values!Next
    <3>1. Values!Resize(b, n) \/ Values!Lose(b)
      BY <2>2, <2>6 DEF AsPromised
    <3> QED
      BY <3>1 DEF Values!Next
  <2>7. ASSUME NEW b \in Buffers, NEW n \in 0 .. MaxSize, NEW ch \in Char, AllocateFill(b, n, ch)
        PROVE  Values!Next
    <3>1. Values!Fill(b, n, ch)
      BY <2>2, <2>7 DEF AsPromised
    <3> QED
      BY <3>1 DEF Values!Next
  <2>8. ASSUME NEW b \in Buffers, NEW i \in 0 .. MaxSize - 1, NEW ch \in Char, SetAt(b, i, ch)
        PROVE  Values!Next
    <3>1. Values!Put(b, i, ch)
      BY <2>2, <2>8 DEF AsPromised
    <3> QED
      BY <3>1 DEF Values!Next
  <2>9. ASSUME NEW b \in Buffers, Misuse(b) PROVE UNCHANGED Visible
    BY <2>9 DEF Misuse, Value, Content, Visible
  <2> QED
    BY <1>2, <2>2, <2>3, <2>4, <2>5, <2>6, <2>7, <2>8, <2>9 DEF Next
<1> QED
  BY <1>1, <1>2

\* Whatever happens to its storage, a buffer's content is what its user made
\* it: every operation has the effect on it that it promises, a copy's being
\* its source's content, and no operation on another buffer changes it.
THEOREM BuffersAreValues == Spec => ValueSemantics
<1>1. Init => Values!Init
  BY DEF Init, Values!Init, Value, Visible
<1> QED
  BY <1>1, NextImplements, IInvHolds, PTL DEF Spec, ValueSemantics, Values!Spec

-----------------------------------------------------------------------------
(* Strings made of buffers *)

Texts == UNION { Arrays(n) : n \in 0 .. MaxSize }

Substitutes(j) == Mode(j) = "substitute_invalid"

\* What the call is to make of its target.
Result ==
  IF Substitutes(call) THEN cleaned[Given(call, before)] ELSE Given(call, before)

\* The call takes the buffer or string it is given over, rather than copying it.
Moves(j) == j.op \in {"move", "set_move"} /\ ~Substitutes(j)

\* Nothing has been written yet.
Untouched == \A b \in Objects : Value(b) = before[b]

\* The call has done what it is for.
Built ==
  /\ Value(call.to) = Result
  /\ \A b \in Objects \ {call.to} :
       IF Moves(call) /\ b \in Operands(call) THEN Value(b) = Unspecified
       ELSE Value(b) = before[b]

\* Or it has failed, and what that may cost.
Undone ==
  \A b \in Objects :
    \/ Value(b) = before[b]
    \/ /\ b = call.to /\ call.op \in {"set", "assign"}
       /\ Value(b) = Unspecified /\ m_size[b] = 0
       /\ before[b] # Unspecified => Long(Size(before[b]))

\* l is not there, or holds the text v.
Gone(l)     == life[l] = "none"
Holds(l, v) == life[l] = "value" /\ Value(l) = v

\* The local buffer of from_utf8() holds its argument; no other call has one
\* before it has a result.
LocalReady == IF call.op = "set_utf8" THEN Holds(Local, call.data) ELSE Gone(Local)

\* The values the call began with are ones it may be given.
Allowed ==
  /\ call \in Jobs
  /\ \A b \in Operands(call) : before[b] \in Texts
  /\ call.op = "move" => call.from # call.to
  /\ Given(call, before) \in Texts
  /\ Mode(call) = "assume_valid" /\ "mode" \in DOMAIN call => Valid(Given(call, before))
  /\ call.op = "set_utf16" \/ Substitutes(call) => cleaned[Given(call, before)] \in Texts

\* What each phase relies on.
Relies ==
  /\ phase = "idle" => Gone(Local) /\ Gone(Temp)
  /\ phase # "idle" => Allowed
  /\ phase = "copy in" =>
       call.op \in {"set_utf8", "fill"} /\ Untouched /\ Gone(Local) /\ Gone(Temp)
  /\ phase = "validate" =>
       call.op \in {"set", "set_move", "set_utf8"} /\ Untouched /\ LocalReady /\ Gone(Temp)
  /\ phase = "assign" =>
       /\ call.op \in {"set", "assign", "set_move", "move", "set_utf8"}
       /\ ~Substitutes(call) /\ Untouched /\ LocalReady /\ Gone(Temp)
  /\ phase \in {"open", "build"} =>
       /\ \/ call.op \in {"set_utf16", "join"}
          \/ call.op \in {"set", "set_move", "set_utf8"} /\ Substitutes(call)
       /\ Untouched /\ LocalReady
       /\ IF phase = "open" THEN Gone(Temp) ELSE life[Temp] = "value"
  /\ phase = "raise" =>
       /\ call.op = "set_utf16" /\ Untouched /\ Gone(Local)
       /\ Holds(Temp, cleaned[call.data])
  /\ phase = "wrap" =>
       /\ call.op = "join" /\ Untouched
       /\ \/ Gone(Local) /\ Holds(Temp, Result)
          \/ Holds(Local, Result) /\ life[Temp] = "unspecified"
  /\ phase = "copy out" =>
       call.op = "to_buffer" /\ Untouched /\ Gone(Local) /\ Gone(Temp)
  /\ phase = "take" =>
       /\ ~Moves(call) /\ Untouched
       /\ \/ life[Local] # "broken" /\ Holds(Temp, Result)
          \/ Holds(Local, Result) /\ Gone(Temp)
  /\ phase = "drop"       => Built  /\ life[Local] # "broken" /\ life[Temp] # "broken"
  /\ phase = "done"       => Built  /\ Gone(Local) /\ Gone(Temp)
  /\ phase = "unwind"     => Undone /\ life[Local] # "broken"
  /\ phase = "thrown"     => Undone /\ Gone(Local) /\ Gone(Temp)
  /\ phase = "terminated" => Gone(Local) /\ Gone(Temp)

Phases == {"idle", "copy in", "validate", "assign", "open", "build", "raise", "wrap",
           "copy out", "take", "drop", "done", "unwind", "thrown", "terminated"}

BInv ==
  /\ IInv
  /\ \A b \in Objects : life[b] \in Sound
  /\ corrupt => phase = "unwind" /\ life[Temp] = "broken"
  /\ phase \in Phases
  /\ before \in [Objects -> Texts \cup {Absent, Unspecified}]
  /\ Relies

-----------------------------------------------------------------------------
(* Texts, buffers and calls *)

\* An array of n characters has size n.
LEMMA ArraySize ==
  ASSUME NEW n \in Nat, NEW v \in Arrays(n)
  PROVE  Size(v) = n
<1>1. DOMAIN v = 0 .. n - 1
  BY DEF Arrays
<1>2. Cardinality(0 .. n - 1) = n
  BY FS_Interval
<1>3. QED
  BY <1>1, <1>2 DEF Size

\* What texts are.
LEMMA TextFacts ==
  ASSUME NEW v \in Texts
  PROVE  /\ Size(v) \in 0 .. MaxSize /\ v \in Arrays(Size(v))
         /\ v # Absent /\ v # Unspecified
         /\ v \in DOMAIN cleaned
         /\ \A i \in 0 .. Size(v) - 1 : v[i] \in Char
<1>1. PICK n \in 0 .. MaxSize : v \in Arrays(n)
  BY DEF Texts
<1>2. Size(v) = n
  BY <1>1, ArraySize, BufferAssumption
<1>3. v # Absent /\ v # Unspecified
  BY <1>1, MarksAssumption
<1>4. QED
  BY <1>1, <1>2, <1>3, BuildAssumption DEF Texts, Arrays

\* One text after the other.
LEMMA JoinedFacts ==
  ASSUME NEW l \in Texts, NEW r \in Texts
  PROVE  /\ Joined(l, r) \in Arrays(Size(l) + Size(r))
         /\ Size(Joined(l, r)) = Size(l) + Size(r)
         /\ Together(Joined(l, r), l, r)
<1>1. /\ Size(l) \in Nat /\ Size(r) \in Nat
      /\ l \in [0 .. Size(l) - 1 -> Char] /\ r \in [0 .. Size(r) - 1 -> Char]
  BY TextFacts, BufferAssumption DEF Arrays
<1>2. PICK m \in Nat, n \in Nat : m = Size(l) /\ n = Size(r)
  BY <1>1
<1>3. Joined(l, r) \in Arrays(m + n)
  BY <1>1, <1>2 DEF Joined, Arrays
<1>4. Size(Joined(l, r)) = m + n
  <2>1. m + n \in Nat
    OBVIOUS
  <2>2. QED
    BY <2>1, <1>3, ArraySize
<1>5. /\ \A i \in 0 .. m - 1 : Joined(l, r)[i] = l[i]
      /\ \A i \in 0 .. n - 1 : Joined(l, r)[i + m] = r[i]
  BY <1>2 DEF Joined
<1>6. QED
  BY <1>1, <1>2, <1>3, <1>4, <1>5 DEF Together, Arrays

\* The locals of a call are no objects of the program.
LEMMA Apart ==
  /\ Objects \subseteq Buffers /\ Strings \subseteq Objects /\ CharBuffers \subseteq Objects
  /\ Local \in Buffers \ Objects /\ Temp \in Buffers \ Objects /\ Local # Temp
  BY BuildAssumption DEF Objects

\* A buffer with a content has a text for a value, of its own size.
LEMMA ValueFacts ==
  ASSUME IInv, NEW b \in Buffers
  PROVE  /\ life[b] = "value" => /\ Value(b) \in Texts /\ Value(b) = Content(b)
                                 /\ Size(Value(b)) = m_size[b]
         /\ life[b] = "unspecified" => Value(b) = Unspecified
         /\ Value(b) \in Texts \cup {Absent, Unspecified}
<1>1. CASE life[b] = "value"
  <2>1. Value(b) \in Arrays(m_size[b]) /\ m_size[b] \in 0 .. MaxSize
    BY <1>1, ValueType
  <2>2. Size(Value(b)) = m_size[b]
    BY <2>1, ArraySize, BufferAssumption
  <2>3. QED
    BY <1>1, <2>1, <2>2 DEF Texts, Value
<1>2. CASE life[b] # "value"
  BY <1>2 DEF Value
<1>3. QED
  BY <1>1, <1>2

\* What a call has, by its kind.
LEMMA JobFacts ==
  ASSUME NEW j \in Jobs
  PROVE  /\ j.op \in {"set", "set_move", "assign", "move", "set_utf8", "set_utf16", "fill",
                      "join", "to_buffer"}
         /\ j.to \in Objects
         /\ j.op \in {"set", "set_move", "assign", "move", "set_utf8", "set_utf16", "join"}
              => j.to \in Strings
         /\ j.op \in {"set", "set_move"} => j.from \in CharBuffers
         /\ j.op \in {"assign", "move", "to_buffer"} => j.from \in Strings
         /\ j.op = "to_buffer" => j.to \in CharBuffers
         /\ j.op \in {"set_utf8", "set_utf16", "fill"} => j.data \in Inputs
         /\ j.op = "join" => j.left \in Strings /\ j.right \in Strings
         /\ "mode" \in DOMAIN j <=> j.op \in {"set", "set_move", "set_utf8", "set_utf16"}
         /\ "mode" \in DOMAIN j => j.mode \in Modes
  BY DEF Jobs, Objects

\* While the call under way stays the same, so does what it is about.
LEMMA SameCall ==
  ASSUME call' = call, before' = before
  PROVE  /\ Result' = Result
         /\ Allowed' <=> Allowed
         /\ Moves(call)' <=> Moves(call)
         /\ Substitutes(call)' <=> Substitutes(call)
  BY DEF Result, Allowed, Moves, Substitutes, Mode, Given, Operands

\* What a call starts from.
LEMMA AllowedFacts ==
  ASSUME Allowed
  PROVE  /\ Given(call, before) \in Texts
         /\ Result \in Texts
         /\ call.op \in {"set_utf8", "set_utf16", "fill"} => Given(call, before) = call.data
         /\ call.op \in {"set", "set_move", "assign", "move", "to_buffer"}
              => Given(call, before) = before[call.from]
         /\ call.op = "join" => /\ Given(call, before) = Joined(before[call.left], before[call.right])
                                /\ before[call.left] \in Texts /\ before[call.right] \in Texts
         /\ call.op \in {"assign", "move", "fill", "join", "to_buffer"} => ~Substitutes(call)
<1>1. Given(call, before) \in Texts /\ Result \in Texts
  BY DEF Allowed, Result
<1>2. call \in Jobs
  BY DEF Allowed
<1>3. QED
  BY <1>1, <1>2, JobFacts DEF Allowed, Given, Substitutes, Mode, Operands

\* A step that only moves on in the call, or takes one up or puts one down.
LEMMA NoStorageTouched ==
  ASSUME BInv, UNCHANGED vars
  PROVE  /\ IInv' /\ corrupt' = corrupt
         /\ \A b \in Buffers : Value(b)' = Value(b) /\ life'[b] = life[b] /\ m_size'[b] = m_size[b]
  BY NextIInv DEF BInv, vars, Value, Content

-----------------------------------------------------------------------------
(* One lemma for each step of a call. *)

\* A call is made with the values its operands have.
LEMMA BeginAllowed ==
  ASSUME BInv, phase = "idle", NEW j \in Jobs, Begin(j)
  PROVE  Allowed' /\ before' \in [Objects -> Texts \cup {Absent, Unspecified}]
<1> DEFINE v == [b \in Objects |-> Value(b)]
<1>1. call' = j /\ before' = v
  BY DEF Begin
<1>2. v \in [Objects -> Texts \cup {Absent, Unspecified}]
  BY ValueFacts, Apart DEF BInv
<1>3. \A b \in Operands(j) : b \in Objects /\ v[b] \in Texts
  <2>1. Operands(j) \subseteq Objects
    BY JobFacts, Apart DEF Operands
  <2>2. QED
    BY <2>1, ValueFacts, Apart DEF Begin, Sensible, BInv
<1>a. /\ Size(Given(j, v)) <= MaxSize
      /\ "mode" \in DOMAIN j /\ j.mode = "assume_valid" => Valid(Given(j, v))
      /\ j.op = "set_utf16" \/ Mode(j) = "substitute_invalid" => Size(cleaned[Given(j, v)]) <= MaxSize
      /\ j.op = "move" => j.from # j.to
  BY DEF Begin, Sensible
<1> HIDE DEF v
<1>4. Given(j, v) \in Texts
  <2>1. CASE j.op = "join"
    <3>1. v[j.left] \in Texts /\ v[j.right] \in Texts
      BY <1>3, <2>1 DEF Operands
    <3>2. PICK n \in Nat : n = Size(v[j.left]) + Size(v[j.right])
      BY <3>1, TextFacts, BufferAssumption
    <3>3. Given(j, v) \in Arrays(n) /\ Size(Given(j, v)) = n
      BY <2>1, <3>1, <3>2, JoinedFacts DEF Given
    <3>4. n \in 0 .. MaxSize
      BY <3>3, <1>a, BufferAssumption
    <3>5. QED
      BY <3>3, <3>4 DEF Texts
  <2>2. CASE j.op \in {"set_utf8", "set_utf16", "fill"}
    BY <2>2, JobFacts, BuildAssumption DEF Given, Texts
  <2>3. CASE j.op \notin {"join", "set_utf8", "set_utf16", "fill"}
    BY <2>3, <1>3 DEF Given, Operands
  <2>4. QED
    BY <2>1, <2>2, <2>3
<1>5. j.op = "set_utf16" \/ Mode(j) = "substitute_invalid" => cleaned[Given(j, v)] \in Texts
  <2>1. /\ Size(cleaned[Given(j, v)]) \in Nat
        /\ cleaned[Given(j, v)] \in Arrays(Size(cleaned[Given(j, v)]))
    BY <1>4, TextFacts, BuildAssumption
  <2>2. QED
    BY <2>1, <1>a, BufferAssumption DEF Texts
<1>6. QED
  BY <1>1, <1>2, <1>3, <1>4, <1>5, <1>a DEF Allowed, Substitutes, Mode

\* Its first phase finds what it needs.
LEMMA BeginBInv ==
  ASSUME BInv, phase = "idle", NEW j \in Jobs, Begin(j)
  PROVE  BInv'
<1>1. /\ IInv' /\ corrupt' = corrupt /\ ~corrupt
      /\ \A b \in Buffers : Value(b)' = Value(b) /\ life'[b] = life[b]
  BY NoStorageTouched DEF Begin, BInv
<1>2. Allowed' /\ before' \in [Objects -> Texts \cup {Absent, Unspecified}]
  BY BeginAllowed
<1>3. Untouched' /\ Gone(Local)' /\ Gone(Temp)'
  BY <1>1, Apart DEF Begin, Untouched, Gone, BInv, Relies
<1>4. /\ phase' \in {"validate", "assign", "copy in", "open", "copy out"}
      /\ phase' = "validate" => call'.op \in {"set", "set_move"}
      /\ phase' = "assign"   => call'.op \in {"assign", "move"}
      /\ phase' = "copy in"  => call'.op \in {"set_utf8", "fill"}
      /\ phase' = "open"     => call'.op \in {"set_utf16", "join"}
      /\ phase' = "copy out" => call'.op = "to_buffer"
  BY JobFacts DEF Begin
<1>5. Relies'
  <2>1. phase' = "assign" => ~Substitutes(call)'
    BY <1>2, <1>4, JobFacts DEF Substitutes, Mode, Allowed
  <2>2. call'.op # "set_utf8" => LocalReady'
    BY <1>3 DEF LocalReady
  <2>3. QED
    BY <1>2, <1>3, <1>4, <2>1, <2>2 DEF Relies
<1>6. QED
  BY <1>1, <1>2, <1>4, <1>5, Apart DEF BInv, Phases

\* The local copy of the bytes passed in, which may not fit in memory.
LEMMA CopyInBInv ==
  ASSUME BInv, CopyIn
  PROVE  BInv'
<1> DEFINE n == Size(call.data)
<1>1. /\ phase = "copy in" /\ ~corrupt /\ Allowed /\ Untouched /\ Gone(Local) /\ Gone(Temp)
      /\ call.op \in {"set_utf8", "fill"} /\ call' = call /\ before' = before
  BY DEF CopyIn, At, Go, BInv, Relies
<1>2. /\ call.data \in Texts /\ Given(call, before) = call.data
      /\ n \in 0 .. MaxSize /\ call.data \in Arrays(n)
  BY <1>1, AllowedFacts, TextFacts
<1> HIDE DEF n
<1>3. CASE /\ ConstructFrom(Local, call.data, n)
           /\ Go(IF call.op = "fill" THEN "take" ELSE "validate")
  <2>1. IInv' /\ OthersKept(Local) /\ life'[Local] = "value" /\ Value(Local)' = call.data
    BY <1>1, <1>2, <1>3, ConstructFromIInv, ConstructFromValue, Apart DEF BInv
  <2>2. corrupt' = corrupt /\ \A b \in Buffers \ {Local} : life'[b] = life[b]
    BY <1>3 DEF ConstructFrom, BInv, IInv, TypeOK
  <2>3. Untouched' /\ Gone(Temp)'
    BY <1>1, <2>1, <2>2, Apart DEF OthersKept, Untouched, Gone
  <2>4. call.op = "fill" => ~Moves(call) /\ Result = call.data
    BY <1>1, <1>2, AllowedFacts DEF Moves, Result
  <2>5. Holds(Local, call.data)'
    BY <1>1, <2>1 DEF Holds
  <2>6. Relies'
    <3>1. CASE call.op = "fill"
      <4>1. phase' = "take" /\ Allowed' /\ ~Moves(call)' /\ Result' = call.data
        BY <1>1, <1>3, <2>4, <3>1, SameCall DEF Go
      <4>2. Holds(Local, Result)'
        BY <2>1, <4>1 DEF Holds
      <4>3. QED
        BY <2>3, <4>1, <4>2 DEF Relies
    <3>2. CASE call.op = "set_utf8"
      <4>1. phase' = "validate" /\ Allowed' /\ call'.op = "set_utf8"
        BY <1>1, <1>3, <3>2, SameCall DEF Go
      <4>2. LocalReady'
        BY <1>1, <2>5, <4>1 DEF LocalReady, Holds
      <4>3. QED
        BY <2>3, <4>1, <4>2 DEF Relies
    <3>3. QED
      BY <1>1, <3>1, <3>2
  <2>7. QED
    BY <1>1, <1>3, <2>1, <2>2, <2>6, Apart DEF Go, BInv, Phases
<1>4. CASE Go("unwind") /\ UNCHANGED vars
  <2>1. /\ IInv' /\ corrupt' = corrupt
        /\ \A b \in Buffers : Value(b)' = Value(b) /\ life'[b] = life[b] /\ m_size'[b] = m_size[b]
    BY <1>4, NoStorageTouched
  <2>2. Undone' /\ life'[Local] # "broken"
    BY <1>1, <2>1, Apart DEF Untouched, Undone, Gone
  <2>3. QED
    BY <1>1, <1>4, <2>1, <2>2, SameCall, Apart DEF Go, BInv, Relies, Phases
<1>5. QED
  BY <1>3, <1>4 DEF CopyIn, n

\* The buffer to be checked and taken is there.
LEMMA SourceFacts ==
  ASSUME BInv, Allowed, Untouched, LocalReady,
         call.op \in {"set", "assign", "set_move", "move", "set_utf8"}
  PROVE  /\ Source \in Buffers /\ life[Source] = "value"
         /\ Value(Source) = Given(call, before) /\ Content(Source) = Value(Source)
         /\ call.op \in {"set", "set_move", "set_utf8"} => Source # call.to
         /\ call.op # "set_utf8" => Source \in Operands(call)
<1>1. CASE call.op = "set_utf8"
  BY <1>1, AllowedFacts, JobFacts, ValueFacts, Apart
     DEF Source, LocalReady, Holds, BInv, Allowed
<1>2. CASE call.op # "set_utf8"
  <2>1. Source = call.from /\ call.from \in Objects /\ call.from \in Operands(call)
    BY <1>2, JobFacts, Apart DEF Source, Operands, Allowed
  <2>2. Value(Source) = Given(call, before) /\ Value(Source) \in Texts
    BY <1>2, <2>1, AllowedFacts DEF Untouched, Allowed
  <2>3. life[Source] = "value"
    BY <2>1, <2>2, ValueFacts, TextFacts, Apart DEF BInv, Sound
  <2>4. call.op \in {"set", "set_move"} => Source # call.to
    BY <2>1, JobFacts, BuildAssumption DEF Allowed
  <2>5. QED
    BY <1>2, <2>1, <2>2, <2>3, <2>4, ValueFacts, Apart DEF BInv
<1>3. QED
  BY <1>1, <1>2

\* A validation that fails has changed nothing.
LEMMA ValidateBInv ==
  ASSUME BInv, Validate
  PROVE  BInv'
<1>1. /\ phase = "validate" /\ ~corrupt /\ Allowed /\ Untouched /\ LocalReady /\ Gone(Temp)
      /\ call.op \in {"set", "set_move", "set_utf8"} /\ call' = call /\ before' = before
  BY DEF Validate, At, Go, BInv, Relies
<1>2. /\ IInv' /\ corrupt' = corrupt
      /\ \A b \in Buffers : Value(b)' = Value(b) /\ life'[b] = life[b] /\ m_size'[b] = m_size[b]
  BY NoStorageTouched DEF Validate
<1>3. /\ Untouched' /\ Undone' /\ LocalReady' /\ Gone(Temp)' /\ life'[Local] # "broken"
  BY <1>1, <1>2, Apart DEF Untouched, Undone, LocalReady, Holds, Gone
<1>4. /\ phase' \in {"unwind", "open", "assign"}
      /\ phase' = "open" => Substitutes(call)
      /\ phase' = "assign" => ~Substitutes(call)
  BY <1>1, JobFacts DEF Validate, Go, Substitutes, Mode, Allowed
<1>5. Relies'
  BY <1>1, <1>3, <1>4, SameCall DEF Relies
<1>6. QED
  BY <1>1, <1>2, <1>4, <1>5, Apart DEF BInv, Phases

\* A call that has written its result into its target is as good as done.
LEMMA Written ==
  ASSUME Allowed, ~Moves(call), Untouched, call' = call, before' = before,
         Value(call.to)' = Result,
         \A b \in Objects \ {call.to} : Value(b)' = Value(b)
  PROVE  Built'
  BY SameCall DEF Built, Untouched

\* set() and the assignments by copy.
LEMMA AssignBInv ==
  ASSUME BInv, Assign
  PROVE  BInv'
<1>1. /\ phase = "assign" /\ ~corrupt /\ Allowed /\ Untouched /\ LocalReady /\ Gone(Temp)
      /\ call.op \in {"set", "assign"} /\ ~Substitutes(call)
      /\ call' = call /\ before' = before
  BY DEF Assign, At, Go, BInv, Relies
<1>2. PICK b \in Objects : b = call.to
  BY <1>1, JobFacts DEF Allowed
<1>3. PICK c \in Buffers : c = Source
  BY <1>1, SourceFacts
<1>4. /\ life[c] = "value" /\ Value(c) = Result /\ ~Moves(call)
      /\ b \in Buffers /\ life[b] \in Sound /\ Gone(Local)
  BY <1>1, <1>2, <1>3, SourceFacts, Apart DEF Result, Moves, LocalReady, BInv
<1>5. CASE c = b /\ Go("drop") /\ UNCHANGED vars
  <2>1. /\ IInv' /\ corrupt' = corrupt
        /\ \A d \in Buffers : Value(d)' = Value(d) /\ life'[d] = life[d]
    BY <1>5, NoStorageTouched
  <2>2. Built'
    BY <1>1, <1>2, <1>4, <1>5, <2>1, Written, Apart
  <2>3. QED
    BY <1>1, <1>4, <1>5, <2>1, <2>2, SameCall, Apart DEF Go, BInv, Relies, Phases, Gone
<1>6. CASE CopyAssign(b, c) /\ Go("drop")
  <2>1. IInv' /\ OthersKept(b) /\ Value(b)' = Value(c)
    BY <1>1, <1>4, <1>6, CopyAssignIInv, CopyAssignCopies DEF BInv
  <2>2. corrupt' = corrupt /\ life'[b] \in Sound /\ \A d \in Buffers \ {b} : life'[d] = life[d]
    BY <1>4, <1>6 DEF CopyAssign, CopyOf, Sound, BInv, IInv, TypeOK
  <2>3. Built'
    BY <1>1, <1>2, <1>4, <2>1, Written, Apart DEF OthersKept
  <2>4. QED
    BY <1>1, <1>4, <1>6, <2>1, <2>2, <2>3, SameCall, Apart DEF Go, BInv, Relies, Phases, Gone
<1>7. CASE CopyAssignThrows(b, c) /\ Go("unwind")
  <2>1. IInv' /\ OthersKept(b)
    BY <1>1, <1>4, <1>7, CopyAssignThrowsIInv DEF BInv
  <2>2. /\ corrupt' = corrupt /\ life'[b] = "unspecified" /\ m_size'[b] = 0 /\ Reffed(b)
        /\ \A d \in Buffers \ {b} : life'[d] = life[d]
    BY <1>4, <1>7 DEF CopyAssignThrows, BInv, IInv, TypeOK
  <2>3. Value(b)' = Unspecified
    BY <2>2 DEF Value
  <2>4. before[b] # Unspecified => Long(Size(before[b]))
    <3>1. before[b] = Value(b)
      BY <1>1 DEF Untouched
    <3>2. QED
      BY <1>4, <2>2, <3>1, ValueFacts DEF BInv, Sound, Reffed
  <2>5. Undone'
    BY <1>1, <1>2, <2>1, <2>2, <2>3, <2>4, Apart DEF Undone, Untouched, OthersKept
  <2>6. QED
    BY <1>1, <1>4, <1>7, <2>1, <2>2, <2>5, SameCall, Apart
       DEF Go, BInv, Relies, Phases, Gone, Sound
<1>8. CASE Go("unwind") /\ UNCHANGED vars
  <2>1. /\ IInv' /\ corrupt' = corrupt
        /\ \A d \in Buffers : Value(d)' = Value(d) /\ life'[d] = life[d]
    BY <1>8, NoStorageTouched
  <2>2. Undone'
    BY <1>1, <2>1, Apart DEF Undone, Untouched
  <2>3. QED
    BY <1>1, <1>4, <1>8, <2>1, <2>2, SameCall, Apart DEF Go, BInv, Relies, Phases, Gone
<1>9. QED
  BY <1>2, <1>3, <1>5, <1>6, <1>7, <1>8 DEF Assign

\* A move into the target, from a buffer of the program or one of the call's.
LEMMA MoveIntoTarget ==
  ASSUME BInv, ~corrupt, Allowed, NEW b \in Objects, NEW c \in Buffers, b # c,
         life[c] = "value", MoveAssign(b, c)
  PROVE  /\ IInv' /\ Moved(b, c) /\ corrupt' = corrupt
         /\ life'[b] = "value" /\ life'[c] = "unspecified"
         /\ \A d \in Buffers \ {b, c} : life'[d] = life[d]
<1>1. IInv' /\ Moved(b, c)
  BY MoveAssignIInv, MoveAssignMoves, Apart DEF BInv
<1>2. life[b] \in Sound /\ b \in Buffers
  BY Apart DEF BInv
<1>3. QED
  BY <1>1, <1>2 DEF MoveAssign, BInv, IInv, TypeOK, Sound

\* set() and the assignments by move.
LEMMA AssignMovingBInv ==
  ASSUME BInv, AssignMoving
  PROVE  BInv'
<1>1. /\ phase = "assign" /\ ~corrupt /\ Allowed /\ Untouched /\ LocalReady /\ Gone(Temp)
      /\ call.op \in {"set_move", "move", "set_utf8"} /\ ~Substitutes(call)
      /\ call' = call /\ before' = before /\ phase' = "drop"
  BY DEF AssignMoving, At, Go, BInv, Relies
<1>2. PICK b \in Objects : b = call.to
  BY <1>1, JobFacts DEF Allowed
<1>3. PICK c \in Buffers : c = Source
  BY <1>1, SourceFacts
<1>4. life[c] = "value" /\ Value(c) = Result /\ b # c
  BY <1>1, <1>2, <1>3, SourceFacts DEF Result, Allowed, Source
<1>5. /\ IInv' /\ Moved(b, c) /\ corrupt' = corrupt
      /\ life'[b] = "value" /\ life'[c] = "unspecified"
      /\ \A d \in Buffers \ {b, c} : life'[d] = life[d]
  BY <1>1, <1>2, <1>3, <1>4, MoveIntoTarget DEF AssignMoving
<1>6. Built'
  <2>1. CASE call.op = "set_utf8"
    <3>1. c = Local /\ ~Moves(call)
      BY <1>3, <2>1 DEF Source, Moves
    <3>2. QED
      BY <1>1, <1>2, <1>4, <1>5, <3>1, Written, Apart DEF Moved
  <2>2. CASE call.op # "set_utf8"
    <3>1. Moves(call) /\ Operands(call) = {c}
      BY <1>1, <1>3, <2>2 DEF Moves, Operands, Source
    <3>2. Operands(call)' = Operands(call)
      BY <1>1 DEF Operands
    <3>3. QED
      BY <1>1, <1>2, <1>4, <1>5, <3>1, <3>2, SameCall, Apart DEF Built, Moved, Untouched
  <2>3. QED
    BY <2>1, <2>2
<1>7. life'[Local] # "broken" /\ life'[Temp] # "broken"
  BY <1>1, <1>2, <1>5, Apart DEF LocalReady, Holds, Gone
<1>8. QED
  BY <1>1, <1>5, <1>6, <1>7, SameCall, Apart DEF BInv, Relies, Phases, Sound

\* An empty local buffer, which needs no block.
LEMMA OpenBInv ==
  ASSUME BInv, Open
  PROVE  BInv'
<1>1. /\ phase = "open" /\ ~corrupt /\ Allowed /\ Untouched /\ LocalReady /\ Gone(Temp)
      /\ \/ call.op \in {"set_utf16", "join"}
         \/ call.op \in {"set", "set_move", "set_utf8"} /\ Substitutes(call)
      /\ call' = call /\ before' = before /\ phase' = "build"
      /\ ConstructFrom(Temp, Empty, 0)
  BY DEF Open, At, Go, BInv, Relies
<1>2. Empty \in Arrays(0) /\ 0 \in 0 .. MaxSize
  BY BufferAssumption DEF Empty, Arrays
<1>3. IInv' /\ OthersKept(Temp) /\ life'[Temp] = "value"
  BY <1>1, <1>2, ConstructFromIInv, ConstructFromValue, Apart DEF BInv
<1>4. corrupt' = corrupt /\ \A d \in Buffers \ {Temp} : life'[d] = life[d]
  BY <1>1 DEF ConstructFrom, BInv, IInv, TypeOK
<1>5. Untouched' /\ LocalReady'
  BY <1>1, <1>3, <1>4, Apart DEF Untouched, OthersKept, LocalReady, Holds, Gone
<1>6. Relies'
  BY <1>1, <1>3, <1>5, SameCall DEF Relies
<1>7. QED
  BY <1>1, <1>3, <1>4, <1>6, Apart DEF BInv, Phases

\* What is built is a text, which the call is about.
Made ==
  IF call.op = "join" THEN Joined(Content(call.left), Content(call.right))
  ELSE cleaned[IF call.op = "set_utf16" THEN call.data ELSE Content(Source)]

(* What a call has made at the end of its build phase is a text, and the one the call says. *)
LEMMA MadeFacts ==
  ASSUME BInv, phase = "build"
  PROVE  /\ Made \in Texts
         /\ Made = IF call.op = "set_utf16" THEN cleaned[call.data] ELSE Result
<1>1. /\ Allowed /\ Untouched /\ LocalReady
      /\ \/ call.op \in {"set_utf16", "join"}
         \/ call.op \in {"set", "set_move", "set_utf8"} /\ Substitutes(call)
  BY DEF BInv, Relies
<1>2. CASE call.op = "join"
  <2>1. /\ Result = Joined(before[call.left], before[call.right])
        /\ before[call.left] \in Texts /\ before[call.right] \in Texts
        /\ Result \in Texts
    BY <1>1, <1>2, AllowedFacts DEF Result
  <2>2. /\ call.left \in Objects /\ call.right \in Objects
    BY <1>1, <1>2, JobFacts, Apart DEF Allowed
  <2>3. /\ Content(call.left) = before[call.left] /\ Content(call.right) = before[call.right]
    BY <1>1, <2>1, <2>2, ValueFacts, TextFacts, Apart DEF Untouched, BInv, Sound
  <2>4. QED
    BY <1>2, <2>1, <2>3 DEF Made
<1>3. CASE call.op = "set_utf16"
  BY <1>1, <1>3, AllowedFacts DEF Made, Allowed
<1>4. CASE call.op \in {"set", "set_move", "set_utf8"} /\ Substitutes(call)
  BY <1>1, <1>4, SourceFacts, AllowedFacts DEF Made, Result
<1>5. QED
  BY <1>1, <1>2, <1>3, <1>4

\* The result is built in a local, which alone is broken when it does not fit.
LEMMA BuildBInv ==
  ASSUME BInv, Build
  PROVE  BInv'
<1> DEFINE n == Size(Made)
<1>1. /\ phase = "build" /\ ~corrupt /\ Allowed /\ Untouched /\ LocalReady /\ life[Temp] = "value"
      /\ \/ call.op \in {"set_utf16", "join"}
         \/ call.op \in {"set", "set_move", "set_utf8"} /\ Substitutes(call)
      /\ call' = call /\ before' = before
  BY DEF Build, At, Go, BInv, Relies
<1>2. /\ Made \in Arrays(n) /\ n \in 0 .. MaxSize /\ \A i \in 0 .. n - 1 : Made[i] \in Char
  BY <1>1, MadeFacts, TextFacts
<1>3. \/ /\ AllocateWith(Temp, n, Made)
         /\ Go(CASE call.op = "join"      -> "wrap"
                 [] call.op = "set_utf16" -> "raise"
                 [] OTHER                 -> "take")
      \/ AllocateThrows(Temp, n) /\ Go("unwind")
  BY DEF Build, Workplace, Made
<1>a. PICK m \in 0 .. MaxSize : m = n
  BY <1>2
<1>c. PICK v \in Arrays(m) : v = Made /\ \A i \in 0 .. m - 1 : v[i] \in Char
  BY <1>2, <1>a
<1> HIDE DEF n
<1>b. \A d \in Objects \cup {Local} : d \in Buffers \ {Temp}
  BY Apart
<1>4. CASE /\ AllocateWith(Temp, n, Made)
           /\ Go(CASE call.op = "join"      -> "wrap"
                   [] call.op = "set_utf16" -> "raise"
                   [] OTHER                 -> "take")
  <2>a. AllocateWith(Temp, m, v)
    BY <1>4, <1>a, <1>c
  <2>1. IInv' /\ OthersKept(Temp) /\ life'[Temp] = "value" /\ Value(Temp)' = v
    BY <1>1, <1>a, <1>c, <2>a, AllocateWithIInv, AllocateValue, Apart DEF BInv
  <2>2. corrupt' = corrupt /\ \A d \in Buffers \ {Temp} : life'[d] = life[d]
    BY <2>a DEF AllocateWith, BInv, IInv, TypeOK
  <2>3. Untouched' /\ LocalReady' /\ life'[Local] # "broken"
    BY <1>1, <1>b, <2>1, <2>2 DEF Untouched, OthersKept, LocalReady, Holds, Gone
  <2>4. v = IF call.op = "set_utf16" THEN cleaned[call.data] ELSE Result
    BY <1>1, <1>c, MadeFacts
  <2>5. /\ call.op = "join"      => phase' = "wrap"
        /\ call.op = "set_utf16" => phase' = "raise"
        /\ call.op \notin {"join", "set_utf16"} => phase' = "take" /\ ~Moves(call)
    BY <1>1, <1>4 DEF Go, Moves
  <2>6. Relies'
    <3>1. CASE call.op = "join"
      <4>1. Holds(Temp, Result)' /\ Gone(Local)'
        BY <1>1, <2>1, <2>3, <2>4, <3>1, SameCall DEF Holds, LocalReady
      <4>2. QED
        BY <1>1, <2>3, <2>5, <3>1, <4>1, SameCall DEF Relies
    <3>2. CASE call.op = "set_utf16"
      <4>1. Holds(Temp, cleaned[call.data])' /\ Gone(Local)'
        BY <1>1, <2>1, <2>3, <2>4, <3>2 DEF Holds, LocalReady
      <4>2. QED
        BY <1>1, <2>3, <2>5, <3>2, <4>1, SameCall DEF Relies
    <3>3. CASE call.op \notin {"join", "set_utf16"}
      <4>1. Holds(Temp, Result)'
        BY <1>1, <2>1, <2>4, <3>3, SameCall DEF Holds
      <4>2. QED
        BY <1>1, <2>3, <2>5, <3>3, <4>1, SameCall DEF Relies
    <3>4. QED
      BY <3>1, <3>2, <3>3
  <2>7. phase' \in Phases
    BY <2>5 DEF Phases
  <2>8. QED
    BY <1>1, <1>b, <2>1, <2>2, <2>6, <2>7 DEF BInv
<1>5. CASE AllocateThrows(Temp, n) /\ Go("unwind")
  <2>a. AllocateThrows(Temp, m)
    BY <1>5, <1>a
  <2>1. IInv' /\ OthersKept(Temp)
    BY <1>1, <2>a, AllocateThrowsIInv, Apart DEF BInv
  <2>2. corrupt' = corrupt /\ \A d \in Buffers \ {Temp} : life'[d] = life[d]
    BY <2>a DEF AllocateThrows, BInv, IInv, TypeOK
  <2>3. Undone' /\ life'[Local] # "broken"
    BY <1>1, <1>b, <2>1, <2>2 DEF Untouched, Undone, OthersKept, LocalReady, Holds, Gone
  <2>4. Relies'
    BY <1>1, <1>5, <2>3, SameCall DEF Go, Relies
  <2>5. QED
    BY <1>1, <1>5, <1>b, <2>1, <2>2, <2>4 DEF Go, BInv, Phases
<1>6. QED
  BY <1>3, <1>4, <1>5

\* The conversion error comes before the string is touched.
LEMMA RaiseBInv ==
  ASSUME BInv, RaiseConversionError
  PROVE  BInv'
<1>1. /\ phase = "raise" /\ ~corrupt /\ Allowed /\ Untouched /\ Gone(Local)
      /\ call.op = "set_utf16" /\ Holds(Temp, cleaned[call.data])
      /\ call' = call /\ before' = before
  BY DEF RaiseConversionError, At, Go, BInv, Relies
<1>2. /\ IInv' /\ corrupt' = corrupt
      /\ \A b \in Buffers : Value(b)' = Value(b) /\ life'[b] = life[b]
  BY NoStorageTouched DEF RaiseConversionError
<1>3. Untouched' /\ Undone' /\ life'[Local] # "broken"
  BY <1>1, <1>2, Apart DEF Untouched, Undone, Gone
<1>4. /\ phase' \in {"unwind", "take"}
      /\ phase' = "take" => ~(call.mode = "check_validity" /\ ~Valid(call.data))
  BY <1>1 DEF RaiseConversionError, Go
<1>5. phase' = "take" => Holds(Temp, Result)' /\ ~Moves(call)
  <2> SUFFICES ASSUME phase' = "take" PROVE Holds(Temp, Result)' /\ ~Moves(call)
    OBVIOUS
  <2>1. Given(call, before) = call.data /\ call.mode \in Modes /\ Mode(call) = call.mode
        /\ "mode" \in DOMAIN call
    BY <1>1, AllowedFacts, JobFacts DEF Allowed, Mode
  <2>2. Result = cleaned[call.data]
    BY <1>1, <1>4, <2>1 DEF Result, Substitutes, Allowed, Valid, Modes
  <2>3. QED
    BY <1>1, <1>2, <2>2, SameCall, Apart DEF Holds, Moves
<1>6. Relies'
  BY <1>1, <1>3, <1>4, <1>5, SameCall DEF Relies
<1>7. QED
  BY <1>1, <1>2, <1>4, <1>6, Apart DEF BInv, Phases

\* A local's end changes no other buffer.
LEMMA LocalDestroyed ==
  ASSUME BInv, ~corrupt, NEW l \in {Local, Temp}, Destroy(l)
  PROVE  /\ IInv' /\ corrupt' = corrupt /\ life'[l] = "none"
         /\ \A d \in Buffers \ {l} :
              Value(d)' = Value(d) /\ life'[d] = life[d] /\ m_size'[d] = m_size[d]
<1>1. l \in Buffers
  BY Apart
<1>2. IInv' /\ OthersKept(l)
  BY <1>1, DestroyIInv DEF BInv
<1>3. QED
  BY <1>1, <1>2 DEF Destroy, OthersKept, BInv, IInv, TypeOK

\* operator+ moves its result into the buffer of the string it returns.
LEMMA WrapBInv ==
  ASSUME BInv, Wrap
  PROVE  BInv'
<1>1. /\ phase = "wrap" /\ ~corrupt /\ Allowed /\ Untouched /\ call.op = "join"
      /\ \/ Gone(Local) /\ Holds(Temp, Result)
         \/ Holds(Local, Result) /\ life[Temp] = "unspecified"
      /\ call' = call /\ before' = before
  BY DEF Wrap, At, Go, BInv, Relies
<1>b. \A d \in Objects : d \in Buffers \ {Local, Temp}
  BY Apart
<1>2. CASE Gone(Local)
  <2>1. MoveConstruct(Local, Temp) /\ phase' = "wrap" /\ life[Temp] = "value" /\ Value(Temp) = Result
    BY <1>1, <1>2 DEF Wrap, Go, Gone, Holds
  <2>2. IInv' /\ Moved(Local, Temp)
    BY <1>1, <2>1, MoveConstructIInv, MoveConstructMoves, Apart DEF BInv
  <2>3. /\ corrupt' = corrupt /\ life'[Local] = "value" /\ life'[Temp] = "unspecified"
        /\ \A d \in Buffers \ {Local, Temp} : life'[d] = life[d]
    BY <2>1, Apart DEF MoveConstruct, BInv, IInv, TypeOK
  <2>4. Untouched' /\ Holds(Local, Result)'
    BY <1>1, <1>b, <2>1, <2>2, <2>3, SameCall DEF Untouched, Moved, Holds
  <2>5. Relies'
    BY <1>1, <2>1, <2>3, <2>4, SameCall DEF Relies
  <2>6. QED
    BY <1>1, <1>b, <2>1, <2>2, <2>3, <2>5 DEF BInv, Phases
<1>3. CASE ~Gone(Local)
  <2>1. Destroy(Temp) /\ phase' = "take" /\ Holds(Local, Result)
    BY <1>1, <1>3 DEF Wrap, Go, Gone
  <2>2. /\ IInv' /\ corrupt' = corrupt /\ life'[Temp] = "none"
        /\ \A d \in Buffers \ {Temp} : Value(d)' = Value(d) /\ life'[d] = life[d]
    BY <1>1, <2>1, LocalDestroyed
  <2>3. Untouched' /\ Holds(Local, Result)' /\ Gone(Temp)' /\ ~Moves(call)
    BY <1>1, <1>b, <2>1, <2>2, SameCall, Apart DEF Untouched, Holds, Gone, Moves
  <2>4. Relies'
    BY <1>1, <2>1, <2>3, SameCall DEF Relies
  <2>5. QED
    BY <1>1, <1>b, <2>1, <2>2, <2>4 DEF BInv, Phases
<1>4. QED
  BY <1>2, <1>3

\* to_buffer() copies the string's buffer, or ends the program.
LEMMA CopyOutBInv ==
  ASSUME BInv, CopyOut
  PROVE  BInv'
<1>1. /\ phase = "copy out" /\ ~corrupt /\ Allowed /\ Untouched /\ call.op = "to_buffer"
      /\ Gone(Local) /\ Gone(Temp) /\ call' = call /\ before' = before
  BY DEF CopyOut, At, Go, BInv, Relies
<1>b. \A d \in Objects \cup {Temp} : d \in Buffers \ {Local}
  BY Apart
<1>2. PICK c \in Objects : c = call.from
  BY <1>1, JobFacts, Apart DEF Allowed
<1>3. Value(c) = Result /\ Result \in Texts /\ life[c] = "value" /\ ~Moves(call)
  <2>1. Value(c) = Result /\ Result \in Texts
    BY <1>1, <1>2, AllowedFacts DEF Untouched, Result
  <2>2. QED
    BY <1>1, <2>1, ValueFacts, TextFacts, Apart DEF BInv, Sound, Moves
<1>4. CASE CopyConstruct(Local, c) /\ Go("take")
  <2>1. IInv' /\ OthersKept(Local) /\ Value(Local)' = Value(c)
    BY <1>1, <1>4, CopyConstructIInv, CopyConstructCopies, Apart DEF BInv
  <2>2. /\ corrupt' = corrupt /\ life'[Local] = "value"
        /\ \A d \in Buffers \ {Local} : life'[d] = life[d]
    BY <1>3, <1>4, Apart DEF CopyConstruct, CopyOf, BInv, IInv, TypeOK
  <2>3. Untouched' /\ Holds(Local, Result)' /\ Gone(Temp)'
    BY <1>1, <1>3, <1>b, <2>1, <2>2, SameCall DEF Untouched, Holds, Gone, OthersKept
  <2>4. Relies'
    BY <1>1, <1>3, <1>4, <2>3, SameCall DEF Go, Relies
  <2>5. QED
    BY <1>1, <1>4, <1>b, <2>1, <2>2, <2>4 DEF Go, BInv, Phases
<1>5. CASE Go("terminated") /\ UNCHANGED vars
  <2>1. /\ IInv' /\ corrupt' = corrupt /\ \A b \in Buffers : life'[b] = life[b]
    BY <1>5, NoStorageTouched
  <2>2. Relies'
    BY <1>1, <1>5, <2>1, SameCall, Apart DEF Go, Relies, Gone
  <2>3. QED
    BY <1>1, <1>5, <2>1, <2>2, Apart DEF Go, BInv, Phases
<1>6. QED
  BY <1>2, <1>4, <1>5 DEF CopyOut

\* The result moves into the target.
LEMMA TakeBInv ==
  ASSUME BInv, Take
  PROVE  BInv'
<1> DEFINE source == IF Live(Temp) THEN Temp ELSE Local
<1>1. /\ phase = "take" /\ ~corrupt /\ Allowed /\ Untouched /\ ~Moves(call)
      /\ \/ life[Local] # "broken" /\ Holds(Temp, Result)
         \/ Holds(Local, Result) /\ Gone(Temp)
      /\ call' = call /\ before' = before /\ phase' = "drop"
      /\ MoveAssign(call.to, source)
  BY DEF Take, At, Go, BInv, Relies
<1>2. PICK b \in Objects : b = call.to
  BY <1>1, JobFacts DEF Allowed
<1>3. PICK c \in {Local, Temp} : c = source
  OBVIOUS
<1>4. life[c] = "value" /\ Value(c) = Result /\ life[Local] # "broken" /\ life[Temp] # "broken"
  BY <1>1, <1>3 DEF Holds, Gone, Live
<1>5. b \in Buffers /\ c \in Buffers /\ b # c /\ \A d \in Objects \ {b} : d \in Buffers \ {b, c}
  BY Apart
<1>a. MoveAssign(b, c)
  BY <1>1, <1>2, <1>3
<1> HIDE DEF source
<1>6. /\ IInv' /\ Moved(b, c) /\ corrupt' = corrupt
      /\ life'[b] = "value" /\ life'[c] = "unspecified"
      /\ \A d \in Buffers \ {b, c} : life'[d] = life[d]
  BY <1>1, <1>4, <1>5, <1>a, MoveIntoTarget
<1>7. Built'
  BY <1>1, <1>2, <1>4, <1>5, <1>6, Written DEF Moved
<1>8. life'[Local] # "broken" /\ life'[Temp] # "broken"
  BY <1>3, <1>4, <1>6, Apart
<1>9. Relies'
  BY <1>1, <1>7, <1>8, SameCall DEF Relies
<1>10. QED
  BY <1>1, <1>5, <1>6, <1>9 DEF BInv, Phases, Sound

\* Only the destructor of a local whose allocate() threw misuses storage.
LEMMA DropLocalBInv ==
  ASSUME BInv, DropLocal
  PROVE  BInv'
<1> DEFINE local == IF Live(Temp) THEN Temp ELSE Local
<1>1. /\ phase \in {"drop", "unwind"} /\ ~corrupt /\ Allowed
      /\ phase = "drop"   => Built /\ life[Local] # "broken" /\ life[Temp] # "broken"
      /\ phase = "unwind" => Undone /\ life[Local] # "broken"
      /\ call' = call /\ before' = before /\ phase' = phase
      /\ Destroy(local) \/ (~Deletes(local) /\ Misuse(local))
  BY DEF DropLocal, Go, BInv, Relies
<1>2. PICK l \in {Local, Temp} : l = local
  OBVIOUS
<1> HIDE DEF local
<1>b. l \in Buffers /\ \A d \in Objects : d \in Buffers \ {Local, Temp}
  BY Apart
<1>3. CASE Destroy(l)
  <2>1. /\ IInv' /\ corrupt' = corrupt /\ life'[l] = "none"
        /\ \A d \in Buffers \ {l} :
             Value(d)' = Value(d) /\ life'[d] = life[d] /\ m_size'[d] = m_size[d]
    BY <1>1, <1>3, LocalDestroyed
  <2>2. Built => Built'
    <3>1. call.to \in Objects /\ Operands(call)' = Operands(call)
      BY <1>1, JobFacts DEF Allowed, Operands
    <3>2. QED
      BY <1>1, <1>b, <2>1, <3>1, SameCall DEF Built
  <2>3. Undone => Undone'
    BY <1>1, <1>b, <2>1 DEF Undone
  <2>4. /\ life[Local] # "broken" => life'[Local] # "broken"
        /\ life[Temp] # "broken" => life'[Temp] # "broken"
    BY <2>1, Apart
  <2>5. Relies'
    BY <1>1, <2>2, <2>3, <2>4, SameCall DEF Relies
  <2>6. QED
    BY <1>1, <1>b, <2>1, <2>5 DEF BInv, Phases
<1>4. CASE ~Deletes(l) /\ Misuse(l)
  <2>1. IInv'
    BY <1>1, <1>4, <1>b, MisuseIInv DEF BInv
  <2>2. life[l] = "broken"
    BY <1>4, <1>b, SoundIsLegal DEF Misuse, Live, BInv, IInv, TypeOK, Life, Sound
  <2>3. l = Temp /\ phase = "unwind" /\ Undone
    BY <1>1, <2>2
  <2>4. life' = life /\ m_size' = m_size /\ \A d \in Buffers : Value(d)' = Value(d)
    BY <1>4 DEF Misuse, Value, Content
  <2>5. Undone'
    BY <1>1, <1>b, <2>3, <2>4 DEF Undone
  <2>6. Relies'
    BY <1>1, <2>3, <2>4, <2>5, SameCall DEF Relies
  <2>7. QED
    BY <1>1, <2>1, <2>2, <2>3, <2>4, <2>6 DEF BInv, Phases
<1>5. QED
  BY <1>1, <1>2, <1>3, <1>4

\* The call has ended, one way or the other.
LEMMA EndBInv ==
  ASSUME BInv, End
  PROVE  BInv'
<1>1. /\ phase \in {"drop", "unwind"} /\ ~corrupt /\ Allowed /\ Gone(Local) /\ Gone(Temp)
      /\ phase = "drop"   => Built
      /\ phase = "unwind" => Undone
      /\ call' = call /\ before' = before
      /\ phase' = IF phase = "drop" THEN "done" ELSE "thrown"
  BY DEF End, Go, Live, Gone, BInv, Relies
<1>2. /\ IInv' /\ corrupt' = corrupt
      /\ \A b \in Buffers : Value(b)' = Value(b) /\ life'[b] = life[b] /\ m_size'[b] = m_size[b]
  BY NoStorageTouched DEF End
<1>3. Built => Built'
  <2>1. call.to \in Objects /\ Operands(call)' = Operands(call)
    BY <1>1, JobFacts DEF Allowed, Operands
  <2>2. QED
    BY <1>1, <1>2, <2>1, SameCall, Apart DEF Built
<1>4. (Undone => Undone') /\ Gone(Local)' /\ Gone(Temp)'
  BY <1>1, <1>2, Apart DEF Undone, Gone
<1>5. Relies'
  BY <1>1, <1>3, <1>4, SameCall DEF Relies
<1>6. QED
  BY <1>1, <1>2, <1>5, Apart DEF BInv, Phases

\* Its history goes with it.
LEMMA ReturnBInv ==
  ASSUME BInv, Return
  PROVE  BInv'
<1>1. /\ phase \in {"done", "thrown"} /\ ~corrupt /\ Gone(Local) /\ Gone(Temp)
      /\ phase' = "idle" /\ before' = [b \in Objects |-> Absent]
  BY DEF Return, BInv, Relies
<1>2. IInv' /\ corrupt' = corrupt /\ \A b \in Buffers : life'[b] = life[b]
  BY NoStorageTouched DEF Return
<1>3. Relies'
  BY <1>1, <1>2, Apart DEF Relies, Gone
<1>4. QED
  BY <1>1, <1>2, <1>3, Apart DEF BInv, Phases

\* Between calls the program writes into its own buffers.
LEMMA WriteBInv ==
  ASSUME BInv, NEW b \in CharBuffers, NEW i \in 0 .. MaxSize - 1, NEW ch \in Char,
         Write(b, i, ch)
  PROVE  BInv' /\ OthersKept(b)
<1>1. /\ phase = "idle" /\ ~corrupt /\ SetAt(b, i, ch) /\ b \in Buffers
      /\ phase' = phase /\ before' = before
  BY Apart DEF Write, progress, BInv
<1>2. IInv' /\ OthersKept(b)
  BY <1>1, SetAtIInv, SetAtKeepsOthers DEF BInv
<1>3. life' = life /\ corrupt' = corrupt
  BY <1>1 DEF SetAt
<1>4. Relies'
  BY <1>1, <1>3 DEF Relies, Gone, BInv
<1>5. QED
  BY <1>1, <1>2, <1>3, <1>4 DEF BInv

-----------------------------------------------------------------------------
\* The program starts with empty strings and buffers, and no call.
THEOREM InitBInv == BuildInit => BInv
<1> SUFFICES ASSUME BuildInit PROVE BInv
  OBVIOUS
<1>a. /\ life = [b \in Buffers |-> IF b \in Objects THEN "value" ELSE "none"]
      /\ m_chars = [b \in Buffers |-> b] /\ m_size = [b \in Buffers |-> 0]
      /\ mem = [p \in Storage |-> IF p \in Objects THEN Zeros ELSE NoStorage]
      /\ corrupt = FALSE /\ Buffers \subseteq Storage
  BY DEF BuildInit, Storage
<1>1. /\ \A b \in Objects : life[b] = "value" /\ mem[b] = Zeros
      /\ \A b \in Buffers : m_size[b] = 0 /\ m_chars[b] = b
      /\ \A b \in Buffers \ Objects : life[b] = "none"
      /\ \A p \in Storage \ Objects : mem[p] = NoStorage
      /\ DOMAIN mem = Storage
  BY <1>a, Apart
<1>b. /\ life \in [Buffers -> Life] /\ m_size \in [Buffers -> 0 .. MaxSize]
      /\ m_chars \in [Buffers -> Storage] /\ corrupt = FALSE
  <2>1. life \in [Buffers -> Life]
    BY <1>a DEF Life
  <2>2. m_size \in [Buffers -> 0 .. MaxSize]
    BY <1>a, BufferAssumption
  <2>3. m_chars \in [Buffers -> Storage]
    BY <1>a
  <2>4. QED
    BY <1>a, <2>1, <2>2, <2>3
<1>2. TypeOK
  <2>1. \A b \in Buffers : mem[b] \in IF life[b] = "none" THEN {NoStorage} ELSE Arrays(LocalLength)
    BY <1>1, ZerosType, Apart DEF Storage
  <2>2. \A k \in Blocks : mem[k] = NoStorage
    BY <1>1, Apart, BufferAssumption DEF Storage
  <2>3. QED
    BY <1>1, <1>b, <2>1, <2>2 DEF TypeOK
<1>3. \A b \in Buffers : ~Reffed(b)
  <2>1. ~Long(0)
    BY BufferAssumption DEF Long
  <2>2. QED
    BY <1>1, <2>1 DEF Reffed
<1>4. SoleOwner /\ OnlyAllocateCorrupts
  BY <1>b, <1>3 DEF SoleOwner, OnlyAllocateCorrupts
<1>5. NoLeak
  BY <1>1, Apart, BufferAssumption DEF NoLeak, Free, Storage
<1>6. Shape
  <2>1. \A b \in Objects : mem[b][0] = NUL
    <3>1. 0 \in 0 .. LocalLength - 1
      BY BufferAssumption
    <3>2. QED
      BY <1>1, <3>1, ZerosType
  <2>2. \A b \in Buffers : life[b] = "value" => mem[m_chars[b]][m_size[b]] = NUL
    BY <1>1, <2>1, Apart
  <2>3. QED
    BY <1>1, <1>3, <2>2, Apart DEF Shape
<1>7. IInv
  BY <1>2, <1>4, <1>5, <1>6 DEF IInv
<1>8. phase = "idle" /\ before \in [Objects -> Texts \cup {Absent, Unspecified}]
  BY DEF BuildInit
<1>9. Relies
  BY <1>1, <1>8, Apart DEF Relies, Gone
<1>10. QED
  BY <1>1, <1>b, <1>7, <1>8, <1>9 DEF BInv, Phases, Sound

\* Every step of every call keeps the invariant, whether it succeeds or throws.
THEOREM NextBInv == BInv /\ [BuildNext]_allvars => BInv'
<1> SUFFICES ASSUME BInv, [BuildNext]_allvars PROVE BInv'
  OBVIOUS
<1>1. CASE UNCHANGED allvars
  <2>1. /\ UNCHANGED vars /\ call' = call /\ phase' = phase /\ before' = before
    BY <1>1 DEF allvars, progress
  <2>2. /\ IInv' /\ corrupt' = corrupt
        /\ life' = life /\ m_size' = m_size /\ \A b \in Buffers : Value(b)' = Value(b)
    BY <2>1, NoStorageTouched DEF vars
  <2>3. Relies <=> Relies'
    BY <2>1 DEF vars, Relies, Untouched, Undone, Built, LocalReady, Gone, Holds, Allowed, Value,
                Content, Result, Moves, Substitutes, Mode, Given, Operands
  <2>4. QED
    BY <2>1, <2>2, <2>3 DEF BInv
<1>2. CASE BuildNext
  <2>1. ASSUME NEW j \in Jobs, phase = "idle", Begin(j) PROVE BInv'
    BY <2>1, BeginBInv
  <2>2. ASSUME NEW b \in CharBuffers, NEW i \in 0 .. MaxSize - 1, NEW ch \in Char, Write(b, i, ch)
        PROVE  BInv'
    BY <2>2, WriteBInv
  <2>3. QED
    BY <1>2, <2>1, <2>2, CopyInBInv, ValidateBInv, AssignBInv, AssignMovingBInv, OpenBInv,
       BuildBInv, RaiseBInv, WrapBInv, CopyOutBInv, TakeBInv, DropLocalBInv, EndBInv, ReturnBInv
       DEF BuildNext
<1>3. QED
  BY <1>1, <1>2

\* So it holds whenever strings are used.
THEOREM BInvHolds == BuildSpec => []BInv
  BY InitBInv, NextBInv, PTL DEF BuildSpec

\* The buffers under the strings keep all that ST::buffer relies on: each
\* block has one owner, none is lost, and every text is terminated.
THEOREM StringStorageSound == BuildSpec => [](SoleOwner /\ NoLeak /\ Terminated)
<1>1. BInv => SoleOwner /\ NoLeak /\ Terminated
  BY ContentsApart DEF BInv, IInv
<1>2. QED
  BY <1>1, BInvHolds, PTL

\* Only the local buffer of a call that is unwinding can be broken, or do harm.
THEOREM BreakageIsLocal == BuildSpec => []OnlyLocalsBreak
<1>1. BInv => OnlyLocalsBreak
  BY DEF BInv, OnlyLocalsBreak, Sound
<1>2. QED
  BY <1>1, BInvHolds, PTL

\* A call that throws leaves strings and buffers with the values they had,
\* but for the target of a copy that ran out of memory.
THEOREM FailureHarmless == BuildSpec => []UnharmedByFailure
<1>1. BInv => UnharmedByFailure
  BY DEF BInv, Relies, Undone, UnharmedByFailure
<1>2. QED
  BY <1>1, BInvHolds, PTL

\* A call that returns has made of its target what its arguments said when it
\* began, and nothing else of anything else.
THEOREM BuiltAsSaid == BuildSpec => []BuildsWhatItSays
<1>1. BInv => BuildsWhatItSays
  <2> SUFFICES ASSUME BInv, phase = "done" PROVE BuildsWhatItSays
    BY DEF BuildsWhatItSays
  <2>1. Allowed /\ Built /\ call \in Jobs
    BY DEF BInv, Relies, Allowed
  <2>2. \A b \in Objects \ {call.to} :
          IF b \in Operands(call) /\ call.op \in {"move", "set_move"}
             /\ Mode(call) # "substitute_invalid"
          THEN Value(b) = Unspecified
          ELSE Value(b) = before[b]
    BY <2>1 DEF Built, Moves, Substitutes
  <2>3. CASE call.op = "join"
    <3>1. Value(call.to) = Joined(before[call.left], before[call.right])
      BY <2>1, <2>3, AllowedFacts DEF Built, Result
    <3>2. Together(Value(call.to), before[call.left], before[call.right])
      BY <2>1, <2>3, <3>1, AllowedFacts, JoinedFacts
    <3>3. Mode(call) # "substitute_invalid"
      BY <2>1, <2>3, AllowedFacts DEF Substitutes
    <3>4. QED
      BY <2>2, <2>3, <3>2, <3>3 DEF BuildsWhatItSays
  <2>4. CASE call.op # "join"
    <3>1. /\ Mode(call) = "substitute_invalid" => Value(call.to) = cleaned[Given(call, before)]
          /\ Mode(call) # "substitute_invalid" => Value(call.to) = Given(call, before)
      BY <2>1 DEF Built, Result, Substitutes
    <3>2. QED
      BY <2>2, <2>4, <3>1 DEF BuildsWhatItSays
  <2>5. QED
    BY <2>3, <2>4
<1>2. QED
  BY <1>1, BInvHolds, PTL

\* A string's text changes in no step outside a call, as long as the program
\* does not write through a buffer it has moved from.
THEOREM StringsKeepTheirText == BuildSpec => StringsImmutable
<1>1. BInv /\ [BuildNext]_allvars =>
        [\A s \in Strings :
           phase = "idle" /\ phase' = "idle" /\ life[s] = "value" => Value(s)' = Value(s)]_allvars
  <2> SUFFICES ASSUME BInv, BuildNext, NEW s \in Strings, phase = "idle", phase' = "idle",
                      life[s] = "value"
               PROVE  Value(s)' = Value(s)
    OBVIOUS
  <2>1. ASSUME NEW j \in Jobs, Begin(j) PROVE FALSE
    BY <2>1, JobFacts DEF Begin
  <2>2. PICK b \in CharBuffers, i \in 0 .. MaxSize - 1, ch \in Char : Write(b, i, ch)
    BY <2>1 DEF BuildNext, CopyIn, Validate, Assign, AssignMoving, Open, Build,
                RaiseConversionError, Wrap, CopyOut, Take, DropLocal, End, Return, At
  <2>3. s # b /\ s \in Buffers
    BY BuildAssumption
  <2>4. QED
    BY <2>2, <2>3, WriteBInv DEF OthersKept
<1>2. QED
  BY <1>1, BInvHolds, PTL DEF BuildSpec, StringsImmutable
===============================================================================
