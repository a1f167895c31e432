------------------------------- MODULE Buffer -------------------------------
(***************************************************************************)
(* ST::buffer<char_T> (st_charbuffer.h), the storage under every ST::string*)
(* and under every conversion of the library.                              *)
(*                                                                         *)
(* A buffer of fewer than LocalLength characters keeps them in its own     *)
(* m_data; a longer one owns a block of the heap.  Nothing records which:  *)
(* is_reffed() reads it off m_size, so m_size, m_chars and the heap have   *)
(* to change in step through every copy, move, assignment, reallocation    *)
(* and exception.                                                          *)
(*                                                                         *)
(* A pointer is the storage it points to: a block, or a buffer (for that   *)
(* buffer's m_data).  Arrays are indexed from 0, as in the code.           *)
(***************************************************************************)
EXTENDS Naturals

CONSTANTS
  Buffers,      \* the buffer objects of the program
  Blocks,       \* the heap: addresses operator new may return
  Char,         \* the character type char_T
  NUL,          \* its zero, which may also occur inside a content
  LocalLength,  \* local_length: 16, or 12 for a 4-byte char_T
  MaxSize,      \* bound: the longest content
  Garbage,      \* what an m_data that nobody initialises may hold
  Absent,       \* see BufferValues
  Unspecified   \* see BufferValues

ASSUME BufferAssumption ==
  /\ Buffers \cap Blocks = {}
  /\ NUL \in Char
  /\ LocalLength \in Nat \ {0}
  /\ MaxSize \in Nat

VARIABLES
  life,     \* the state of each object, see Life
  m_chars,  \* where its characters are
  m_size,   \* how many they are
  mem,      \* the characters of every storage, m_data arrays included
  corrupt   \* storage was freed twice, or freed or read without being alive

vars == <<life, m_chars, m_size, mem, corrupt>>

Storage == Blocks \cup Buffers

(***************************************************************************)
(* "value": the content is what the last operation on it says.             *)
(* "unspecified": moved from, or an assignment to it threw: the object may *)
(* be assigned, cleared, destroyed, copied or moved, but what it holds is  *)
(* nobody's business ("Content not guaranteed", test_buffer.cpp:337).      *)
(* "broken": allocate() threw inside it, after m_size was changed.         *)
(***************************************************************************)
Life  == {"none", "value", "unspecified", "broken"}
Sound == {"value", "unspecified"}

Arrays(n) == [0 .. n - 1 -> Char]

ASSUME GarbageAssumption == Garbage \subseteq Arrays(LocalLength)

\* The marks of BufferValues are told apart from each other and from contents.
ASSUME MarksAssumption ==
  /\ Absent # Unspecified
  /\ \A n \in 0 .. MaxSize : {Absent, Unspecified} \cap Arrays(n) = {}

NoStorage == [i \in {} |-> NUL]
Zeros     == [i \in 0 .. LocalLength - 1 |-> NUL]

\* Mutant: one character too few is copied.
Block_DropsLast(data, n) == [i \in 0 .. n |-> IF i + 1 < n THEN data[i] ELSE NUL]

\* new char_T[n + 1] with the n characters of data and a terminator.
Block(data, n) == [i \in 0 .. n |-> IF i < n THEN data[i] ELSE NUL]

\* The array arr with its first n elements and the terminator overwritten.
Over(arr, data, n) ==
  [i \in DOMAIN arr |-> IF i < n THEN data[i] ELSE IF i = n THEN NUL ELSE arr[i]]

\* Mutant: is_reffed() off by one, no room for the terminator of m_data.
LongOffByOne(n) == n > LocalLength

Live(b)   == life[b] # "none"
Long(n)   == n >= LocalLength
Reffed(b) == Long(m_size[b])
Free      == { k \in Blocks : mem[k] = NoStorage }

\* b is the one that has to delete block k.
Owns(b, k) == life[b] \in Sound /\ Reffed(b) /\ m_chars[b] = k

\* delete[] m_chars is legal: a block, alive, that no other buffer owns.
MayDelete(b) ==
  /\ m_chars[b] \in Blocks \ Free
  /\ \A c \in Buffers \ {b} : ~Owns(c, m_chars[b])

\* Reading m_size characters at m_chars is legal.
MayRead(b) == 0 .. m_size[b] - 1 \subseteq DOMAIN mem[m_chars[b]]

\* The operation at hand may run delete[] on b, if it gets there.
Deletes(b) == Reffed(b) => MayDelete(b)
Reads(b)   == Reffed(b) => MayRead(b)

\* mem after "if (is_reffed()) delete[] m_chars;" in b.
Deleted(b) == IF Reffed(b) THEN [mem EXCEPT ![m_chars[b]] = NoStorage] ELSE mem

\* What a copy of c is worth.
CopyOf(c) == IF life[c] = "value" THEN "value" ELSE "unspecified"

Content(b) == [i \in 0 .. m_size[b] - 1 |-> mem[m_chars[b]][i]]

\* What b is to its user.
Value(b) ==
  CASE life[b] = "none"  -> Absent
    [] life[b] = "value" -> Content(b)
    [] OTHER             -> Unspecified

-----------------------------------------------------------------------------
Init ==
  /\ life    = [b \in Buffers |-> "none"]
  /\ m_chars = [b \in Buffers |-> b]
  /\ m_size  = [b \in Buffers |-> 0]
  /\ mem     = [p \in Storage |-> NoStorage]
  /\ corrupt = FALSE

(***************************************************************************)
(* Constructors.  The default one is ConstructFrom with no characters; the *)
(* filling one gets equal characters.  A constructor that throws leaves no *)
(* object and, as m_chars is set by the new that threw, no block: nothing  *)
(* changes.                                                                *)
(***************************************************************************)
ConstructFrom(b, data, n) ==
  /\ life[b] = "none"
  /\ life'   = [life EXCEPT ![b] = "value"]
  /\ m_size' = [m_size EXCEPT ![b] = n]
  /\ \/ /\ ~Long(n)
        /\ m_chars' = [m_chars EXCEPT ![b] = b]
        /\ mem' = [mem EXCEPT ![b] = Over(Zeros, data, n)]
     \/ /\ Long(n)
        /\ \E k \in Free :
             /\ m_chars' = [m_chars EXCEPT ![b] = k]
             /\ mem' = [mem EXCEPT ![b] = Zeros, ![k] = Block(data, n)]
  /\ UNCHANGED corrupt

\* The copy constructor leaves m_data uninitialised when the copy is long.
CopyConstruct(b, c) ==
  /\ life[b] = "none" /\ Live(c) /\ Reads(c)
  /\ life'   = [life EXCEPT ![b] = CopyOf(c)]
  /\ m_size' = [m_size EXCEPT ![b] = m_size[c]]
  /\ \/ /\ ~Reffed(c)
        /\ m_chars' = [m_chars EXCEPT ![b] = b]
        /\ mem' = [mem EXCEPT ![b] = mem[c]]
     \/ /\ Reffed(c)
        /\ \E k \in Free, junk \in Garbage :
             /\ m_chars' = [m_chars EXCEPT ![b] = k]
             /\ mem' = [mem EXCEPT ![b] = junk, ![k] = Block(Content(c), m_size[c])]
  /\ UNCHANGED corrupt

\* Mutant: the source is not emptied.
MoveConstructKeepsSource(b, c) ==
  /\ life[b] = "none" /\ Live(c)
  /\ life'    = [life EXCEPT ![b] = life[c], ![c] = "unspecified"]
  /\ m_size'  = [m_size EXCEPT ![b] = m_size[c]]
  /\ m_chars' = [m_chars EXCEPT ![b] = IF Reffed(c) THEN m_chars[c] ELSE b]
  /\ mem'     = [mem EXCEPT ![b] = mem[c]]
  /\ UNCHANGED corrupt

\* Mutant: m_data is not copied.
MoveConstructNoData(b, c) ==
  /\ life[b] = "none" /\ Live(c)
  /\ life'    = [life EXCEPT ![b] = life[c], ![c] = "unspecified"]
  /\ m_size'  = [m_size EXCEPT ![b] = m_size[c], ![c] = 0]
  /\ m_chars' = [m_chars EXCEPT ![b] = IF Reffed(c) THEN m_chars[c] ELSE b]
  /\ UNCHANGED <<mem, corrupt>>

\* The move constructor empties the source but leaves its m_chars alone.
MoveConstruct(b, c) ==
  /\ life[b] = "none" /\ Live(c)
  /\ life'    = [life EXCEPT ![b] = life[c], ![c] = "unspecified"]
  /\ m_size'  = [m_size EXCEPT ![b] = m_size[c], ![c] = 0]
  /\ m_chars' = [m_chars EXCEPT ![b] = IF Reffed(c) THEN m_chars[c] ELSE b]
  /\ mem'     = [mem EXCEPT ![b] = mem[c]]
  /\ UNCHANGED corrupt

Destroy(b) ==
  /\ Live(b) /\ Deletes(b)
  /\ life'    = [life EXCEPT ![b] = "none"]
  /\ m_chars' = [m_chars EXCEPT ![b] = b]
  /\ m_size'  = [m_size EXCEPT ![b] = 0]
  /\ mem'     = [Deleted(b) EXCEPT ![b] = NoStorage]
  /\ UNCHANGED corrupt

Clear(b) ==
  /\ Live(b) /\ Deletes(b)
  /\ life'    = [life EXCEPT ![b] = "value"]
  /\ m_chars' = [m_chars EXCEPT ![b] = b]
  /\ m_size'  = [m_size EXCEPT ![b] = 0]
  /\ mem'     = [Deleted(b) EXCEPT ![b] = Zeros]
  /\ UNCHANGED corrupt

\* Mutant: the old block is not deleted.
CopyAssignKeepsBlock(b, c) ==
  /\ b # c
  /\ Live(b) /\ Live(c) /\ Reads(c)
  /\ life'   = [life EXCEPT ![b] = CopyOf(c)]
  /\ m_size' = [m_size EXCEPT ![b] = m_size[c]]
  /\ \/ /\ ~Reffed(c)
        /\ m_chars' = [m_chars EXCEPT ![b] = b]
        /\ mem' = [mem EXCEPT ![b] = mem[c]]
     \/ /\ Reffed(c)
        /\ \E k \in Free :
             /\ m_chars' = [m_chars EXCEPT ![b] = k]
             /\ mem' = [mem EXCEPT ![k] = Block(Content(c), m_size[c])]
  /\ UNCHANGED corrupt

(***************************************************************************)
(* operator=(const buffer &): the old block goes first, then the new one   *)
(* is asked for.  When that throws, a target that owned a block has lost   *)
(* it, has size 0 and points to what it freed; any other is untouched.     *)
(***************************************************************************)
CopyAssign(b, c) ==
  /\ b # c
  /\ Live(b) /\ Deletes(b)
  /\ Live(c) /\ Reads(c)
  /\ life'   = [life EXCEPT ![b] = CopyOf(c)]
  /\ m_size' = [m_size EXCEPT ![b] = m_size[c]]
  /\ \/ /\ ~Reffed(c)
        /\ m_chars' = [m_chars EXCEPT ![b] = b]
        /\ mem' = [Deleted(b) EXCEPT ![b] = mem[c]]
     \/ /\ Reffed(c)
        /\ \E k \in { k \in Blocks : Deleted(b)[k] = NoStorage } :
             /\ m_chars' = [m_chars EXCEPT ![b] = k]
             /\ mem' = [Deleted(b) EXCEPT ![k] = Block(Content(c), m_size[c])]
  /\ UNCHANGED corrupt

\* Mutant: m_size is not reset before new is called.
CopyAssignThrowsKeepsSize(b, c) ==
  /\ b # c
  /\ Live(b) /\ Reffed(b) /\ Deletes(b)
  /\ Live(c) /\ Reffed(c)
  /\ life' = [life EXCEPT ![b] = "unspecified"]
  /\ mem'  = Deleted(b)
  /\ UNCHANGED <<m_chars, m_size, corrupt>>

CopyAssignThrows(b, c) ==
  /\ b # c
  /\ Live(b) /\ Reffed(b) /\ Deletes(b)
  /\ Live(c) /\ Reffed(c)
  /\ life'   = [life EXCEPT ![b] = "unspecified"]
  /\ m_size' = [m_size EXCEPT ![b] = 0]
  /\ mem'    = Deleted(b)
  /\ UNCHANGED <<m_chars, corrupt>>

(***************************************************************************)
(* operator=(buffer &&) swaps sizes and pointers, copies m_data one way,   *)
(* and repairs m_chars of the target only: a short value in the source     *)
(* would leave the source pointing into the target's m_data.               *)
(***************************************************************************)
MoveAssign(b, c) ==
  LET size == [m_size EXCEPT ![b] = m_size[c], ![c] = m_size[b]]
      ptr  == [m_chars EXCEPT ![b] = m_chars[c], ![c] = m_chars[b]]
  IN
  /\ Live(b) /\ Live(c)
  /\ life'    = IF b = c THEN life
                ELSE [life EXCEPT ![b] = life[c],
                        ![c] = IF life[b] = "broken" THEN "broken" ELSE "unspecified"]
  /\ m_size'  = size
  /\ m_chars' = [ptr EXCEPT ![b] = IF Long(size[b]) THEN ptr[b] ELSE b]
  /\ mem'     = [mem EXCEPT ![b] = mem[c]]
  /\ UNCHANGED corrupt

(***************************************************************************)
(* allocate(n): the characters of a new block are whatever was there; the  *)
(* local ones are zeroed only when they were in use.  allocate(n, fill)    *)
(* overwrites the first n.                                                 *)
(***************************************************************************)
Cleaned(b) == IF Reffed(b) THEN Deleted(b) ELSE [mem EXCEPT ![b] = Zeros]

AllocateWith(b, n, chars) ==
  /\ Live(b) /\ Deletes(b)
  /\ life'   = [life EXCEPT ![b] = "value"]
  /\ m_size' = [m_size EXCEPT ![b] = n]
  /\ \/ /\ ~Long(n)
        /\ m_chars' = [m_chars EXCEPT ![b] = b]
        /\ mem' = [Cleaned(b) EXCEPT ![b] = Over(@, chars, n)]
     \/ /\ Long(n)
        /\ \E k \in { k \in Blocks : Cleaned(b)[k] = NoStorage } :
             /\ m_chars' = [m_chars EXCEPT ![b] = k]
             /\ mem' = [Cleaned(b) EXCEPT ![k] = Block(chars, n)]
  /\ UNCHANGED corrupt

Allocate(b, n) ==
  \/ ~Long(n) /\ AllocateWith(b, n, Cleaned(b)[b])
  \/ Long(n) /\ \E junk \in Arrays(n) : AllocateWith(b, n, junk)

AllocateFill(b, n, ch) == AllocateWith(b, n, [i \in 0 .. n - 1 |-> ch])

\* m_size is set before new is called: when new throws, b says it owns a
\* block, and m_chars is what it was before, freed or local.
AllocateThrows(b, n) ==
  /\ Live(b) /\ Deletes(b) /\ Long(n)
  /\ life'   = [life EXCEPT ![b] = "broken"]
  /\ m_size' = [m_size EXCEPT ![b] = n]
  /\ mem'    = Cleaned(b)
  /\ UNCHANGED <<m_chars, corrupt>>

\* The user stores a character through data(), at(), operator[] or an
\* iterator of a buffer that has a content.
SetAt(b, i, ch) ==
  /\ life[b] = "value" /\ i < m_size[b]
  /\ mem' = [mem EXCEPT ![m_chars[b]] = [@ EXCEPT ![i] = ch]]
  /\ UNCHANGED <<life, m_chars, m_size, corrupt>>

\* A destructor, an assignment or a copy reaches a delete[] or a read of
\* storage that is not there: undefined behaviour, and nothing follows.
Misuse(b) ==
  /\ Live(b)
  /\ ~Deletes(b) \/ ~Reads(b)
  /\ corrupt' = TRUE
  /\ UNCHANGED <<life, m_chars, m_size, mem>>

Next ==
  /\ ~corrupt
  /\ \E b \in Buffers :
       \/ \E n \in 0 .. MaxSize : \E data \in Arrays(n) : ConstructFrom(b, data, n)
       \/ \E c \in Buffers : CopyConstruct(b, c)
       \/ \E c \in Buffers : MoveConstruct(b, c)
       \/ Destroy(b)
       \/ Clear(b)
       \/ \E c \in Buffers : CopyAssign(b, c)
       \/ \E c \in Buffers : CopyAssignThrows(b, c)
       \/ \E c \in Buffers : MoveAssign(b, c)
       \/ \E n \in 0 .. MaxSize : Allocate(b, n)
       \/ \E n \in 0 .. MaxSize, ch \in Char : AllocateFill(b, n, ch)
       \/ \E n \in 0 .. MaxSize : AllocateThrows(b, n)
       \/ \E i \in 0 .. MaxSize - 1, ch \in Char : SetAt(b, i, ch)
       \/ Misuse(b)

Spec == Init /\ [][Next]_vars

-----------------------------------------------------------------------------
TypeOK ==
  /\ life    \in [Buffers -> Life]
  /\ m_chars \in [Buffers -> Storage]
  /\ m_size  \in [Buffers -> 0 .. MaxSize]
  /\ DOMAIN mem = Storage
  /\ \A b \in Buffers : mem[b] \in IF life[b] = "none" THEN {NoStorage} ELSE Arrays(LocalLength)
  /\ \A k \in Blocks : mem[k] \in {NoStorage} \cup UNION { Arrays(n + 1) : n \in 0 .. MaxSize }
  /\ corrupt \in BOOLEAN

\* No sequence of operations makes two buffers delete one block: a block is
\* owned by at most one buffer, and it is big enough for its owner's
\* characters and their terminator.
SoleOwner ==
  \A b \in Buffers : (life[b] \in Sound /\ Reffed(b)) =>
    /\ m_chars[b] \in Blocks
    /\ DOMAIN mem[m_chars[b]] = 0 .. m_size[b]
    /\ \A c \in Buffers \ {b} : ~Owns(c, m_chars[b])

\* Whatever is moved, reassigned or interrupted by an exception, every block
\* the heap has given out has an owner that will free it.
NoLeak ==
  \A k \in Blocks \ Free : \E b \in Buffers : Owns(b, k)

\* Storage is misused only after an allocate() has thrown and left a buffer
\* that claims a block it does not have; no other sequence of calls, failing
\* ones included, frees twice or reads what was freed.
OnlyAllocateCorrupts ==
  corrupt => \E b \in Buffers : life[b] = "broken"

\* c_str() of every buffer with a content ends where size() says, and that
\* terminator is in storage no other such buffer uses.
Terminated ==
  \A b \in Buffers : life[b] = "value" =>
    /\ m_size[b] \in DOMAIN mem[m_chars[b]]
    /\ mem[m_chars[b]][m_size[b]] = NUL
    /\ \A c \in Buffers \ {b} : life[c] = "value" => m_chars[c] # m_chars[b]

Visible == [b \in Buffers |-> Value(b)]

Values == INSTANCE BufferValues WITH value <- Visible

\* What the operations on b promise, one by one.
AsPromised(b) ==
  /\ \A n \in 0 .. MaxSize :
       /\ \A data \in Arrays(n) : ConstructFrom(b, data, n) => Values!Make(b, data)
       /\ Allocate(b, n) => Values!Resize(b, n)
       /\ \A ch \in Char : AllocateFill(b, n, ch) => Values!Fill(b, n, ch)
       /\ AllocateThrows(b, n) => Values!Lose(b)
  /\ \A c \in Buffers :
       /\ CopyConstruct(b, c) \/ CopyAssign(b, c) => Values!Copy(b, c)
       /\ CopyAssignThrows(b, c) => Values!Lose(b)
       /\ MoveConstruct(b, c) => Values!Move(b, c)
       /\ MoveAssign(b, c) => IF b = c THEN UNCHANGED Visible ELSE Values!Move(b, c)
  /\ Destroy(b) => Values!Drop(b)
  /\ Clear(b) => Values!Empty(b)
  /\ \A i \in 0 .. MaxSize - 1, ch \in Char : SetAt(b, i, ch) => Values!Put(b, i, ch)

\* Every operation does to the contents what it would do in a program of
\* independent values: a copy, made or assigned, equals its source, which keeps
\* its content; a move hands the content over; what is constructed, filled or
\* stored is what was given; clear() leaves nothing; and no operation, failing
\* ones included, changes the content of a buffer it was not called with.
ValueSemantics == Values!Spec /\ [][\A b \in Buffers : AsPromised(b)]_vars
=============================================================================
