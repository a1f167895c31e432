---------------------------- MODULE StringStream ----------------------------
(***************************************************************************)
(* ST::string_stream (st_stringstream.h).  A stream writes into its own    *)
(* m_stack until that is full, then into a heap block that doubles until   *)
(* the text fits.  is_heap() reads the place off m_alloc, and a moved-from *)
(* stream is marked by m_alloc = 0.                                        *)
(*                                                                         *)
(* A pointer is the storage it points to: a block, or a stream (for that   *)
(* stream's m_stack).  Arrays are indexed from 0, texts are sequences.     *)
(* An append is a call that runs through expand_buffer's loop step by      *)
(* step; the library has no threads, so nothing else runs meanwhile.       *)
(***************************************************************************)
EXTENDS Integers, Sequences

CONSTANTS
  Streams,      \* the stream objects of the program
  Blocks,       \* the heap: addresses operator new may return
  Char,         \* char
  Junk,         \* what uninitialised memory holds
  StackSize,    \* ST_STACK_STRING_SIZE: 256
  SizeMod,      \* size_t counts modulo this: 2^64
  MaxText,      \* bound: the longest text of one append
  MaxSize,      \* bound: the longest text of a stream
  HugeCounts,   \* counts nobody has memory for, also passed to append_char
  Absent, Unspecified, NoRequest  \* see StreamText

ASSUME StreamAssumption ==
  /\ Streams \cap Blocks = {}
  /\ StackSize \in Nat \ {0}
  /\ SizeMod \in Nat /\ SizeMod > 2 * StackSize
  /\ MaxText \in Nat /\ MaxSize \in Nat
  /\ 2 * MaxSize <= SizeMod
  /\ HugeCounts \subseteq 0 .. SizeMod - 1

VARIABLES
  life,     \* "none", "open", or "moved" (moved from)
  m_chars,  \* where the text is
  m_alloc,  \* how much there is room for
  m_size,   \* how long the text is
  mem,      \* the characters of every storage
  call,     \* the append under way, or NoRequest
  corrupt   \* storage was freed or used without being there

objects == <<life, m_chars, m_alloc, m_size, mem>>
vars    == <<objects, call, corrupt>>

Storage == Blocks \cup Streams
Life    == {"none", "open", "moved"}
Texts   == UNION { [1 .. n -> Char] : n \in 0 .. MaxText }
Wrap(n) == n % SizeMod

\* 256 and 2^64 are powers of two: doubled again and again in a size_t, the
\* one never passes half of the other before it becomes 0.
ASSUME DoublingAssumption ==
  \E rooms \in SUBSET (0 .. SizeMod \div 2) :
    /\ {0, StackSize} \subseteq rooms
    /\ \A r \in rooms : Wrap(2 * r) \in rooms

\* Nor does any block have room for these.
ASSUME HugeAssumption == \A n \in HugeCounts : n > SizeMod \div 2

\* What stands for no text and for no append is neither of them.
ASSUME MarksAssumption ==
  /\ Absent # Unspecified
  /\ Absent \notin Seq(Char) /\ Unspecified \notin Seq(Char)
  /\ NoRequest \notin [stream : Streams, what : Seq(Char)]
  /\ NoRequest \notin [stream : Streams, what : Seq(Char), n : Nat, own : BOOLEAN, big : Nat]

NoStorage == [i \in {} |-> Junk]
Fresh(n)  == [i \in 0 .. n - 1 |-> Junk]

\* The array arr with the characters of what written from position at on.
Written(arr, at, what) ==
  [i \in DOMAIN arr |->
     IF at <= i /\ i < at + Len(what) THEN what[i - at + 1] ELSE arr[i]]

\* Mutant: the old text is not copied into the new block.
EnlargedEmpty(arr, n) == Fresh(n)

\* new char[n] with the first characters of arr copied in.
Enlarged(arr, n) == [i \in 0 .. n - 1 |-> IF i \in DOMAIN arr THEN arr[i] ELSE Junk]

Live(s)   == life[s] # "none"
IsHeap(s) == m_alloc[s] > StackSize
Free      == { k \in Blocks : mem[k] = NoStorage }

\* What raw_buffer(), size() and to_string() show of s.
Content(s) == [i \in 1 .. m_size[s] |-> mem[m_chars[s]][i - 1]]

\* s is the one that has to delete block k.
Owns(s, k) == Live(s) /\ IsHeap(s) /\ m_chars[s] = k

\* mem after "if (is_heap()) delete[] m_chars;" in s.
Deleted(s) == IF IsHeap(s) THEN [mem EXCEPT ![m_chars[s]] = NoStorage] ELSE mem

Idle == call = NoRequest /\ ~corrupt

-----------------------------------------------------------------------------
Init ==
  /\ life    = [s \in Streams |-> "none"]
  /\ m_chars = [s \in Streams |-> s]
  /\ m_alloc = [s \in Streams |-> 0]
  /\ m_size  = [s \in Streams |-> 0]
  /\ mem     = [p \in Storage |-> NoStorage]
  /\ call    = NoRequest
  /\ corrupt = FALSE

Construct(s) ==
  /\ Idle /\ life[s] = "none"
  /\ life'    = [life EXCEPT ![s] = "open"]
  /\ m_chars' = [m_chars EXCEPT ![s] = s]
  /\ m_alloc' = [m_alloc EXCEPT ![s] = StackSize]
  /\ m_size'  = [m_size EXCEPT ![s] = 0]
  /\ mem'     = [mem EXCEPT ![s] = Fresh(StackSize)]
  /\ UNCHANGED <<call, corrupt>>

Destroy(s) ==
  /\ Idle /\ Live(s)
  /\ life'    = [life EXCEPT ![s] = "none"]
  /\ m_chars' = [m_chars EXCEPT ![s] = s]
  /\ m_alloc' = [m_alloc EXCEPT ![s] = 0]
  /\ m_size'  = [m_size EXCEPT ![s] = 0]
  /\ mem'     = [Deleted(s) EXCEPT ![s] = NoStorage]
  /\ UNCHANGED <<call, corrupt>>

\* Mutant: the source keeps its m_alloc.
TakeOverKeepsAlloc(s, c, old) ==
  /\ life'    = [life EXCEPT ![s] = life[c], ![c] = "moved"]
  /\ m_alloc' = [m_alloc EXCEPT ![s] = m_alloc[c]]
  /\ m_size'  = [m_size EXCEPT ![s] = m_size[c]]
  /\ m_chars' = [m_chars EXCEPT ![s] = IF IsHeap(c) THEN m_chars[c] ELSE s]
  /\ mem'     = [old EXCEPT ![s] = mem[c]]
  /\ UNCHANGED <<call, corrupt>>

\* What both moves do once s has let go of its own block: the source keeps
\* its m_chars and m_size and loses its m_alloc.
TakeOver(s, c, old) ==
  /\ life'    = [life EXCEPT ![s] = life[c], ![c] = "moved"]
  /\ m_alloc' = [m_alloc EXCEPT ![s] = m_alloc[c], ![c] = 0]
  /\ m_size'  = [m_size EXCEPT ![s] = m_size[c]]
  /\ m_chars' = [m_chars EXCEPT ![s] = IF IsHeap(c) THEN m_chars[c] ELSE s]
  /\ mem'     = [old EXCEPT ![s] = mem[c]]
  /\ UNCHANGED <<call, corrupt>>

MoveConstruct(s, c) ==
  /\ Idle /\ life[s] = "none" /\ Live(c)
  /\ TakeOver(s, c, mem)

\* There is no test for s = c: a stream moved onto itself frees its block
\* and ends up moved from.
MoveAssign(s, c) ==
  /\ Idle /\ Live(s) /\ Live(c)
  /\ TakeOver(s, c, Deleted(s))

Truncate(s, n) ==
  /\ Idle /\ Live(s)
  /\ n < m_size[s]
  /\ m_size' = [m_size EXCEPT ![s] = n]
  /\ UNCHANGED <<life, m_chars, m_alloc, mem, call, corrupt>>

Erase(s, count) ==
  /\ Idle /\ Live(s)
  /\ m_size' = [m_size EXCEPT ![s] = IF count < @ THEN @ - count ELSE 0]
  /\ UNCHANGED <<life, m_chars, m_alloc, mem, call, corrupt>>

\* Mutant: the doubling starts from the text's length.
BeginFromSize(s, what, n, own) ==
  /\ Idle /\ Live(s)
  /\ call' = [stream |-> s, what |-> what, n |-> n, own |-> own, big |-> m_size[s]]
  /\ UNCHANGED <<objects, corrupt>>

(***************************************************************************)
(* append(), append_char() and every operator<< come down to n characters  *)
(* written at the end after expand_buffer(n).  own says that they are read *)
(* from the stream's own raw_buffer().  append(data, 0) returns at once,   *)
(* but an empty C string gets as far as expand_buffer(0).                  *)
(***************************************************************************)
Begin(s, what, n, own) ==
  /\ Idle /\ Live(s)
  /\ call' = [stream |-> s, what |-> what, n |-> n, own |-> own, big |-> m_alloc[s]]
  /\ UNCHANGED <<objects, corrupt>>

AppendText(s) ==
  \E what \in Texts :
    /\ m_size[s] + Len(what) <= MaxSize
    /\ Begin(s, what, Len(what), FALSE)

AppendOwn(s) ==
  /\ life[s] = "open"
  /\ \E n \in 1 .. m_size[s] :
       /\ m_size[s] + n <= MaxSize
       /\ Begin(s, SubSeq(Content(s), 1, n), n, TRUE)

AppendHuge(s) ==
  \E n \in HugeCounts : Begin(s, <<>>, n, FALSE)

\* Mutant: what the stream holds already is not counted.
NeededAddedOnly == Wrap(call.n)

\* The sum expand_buffer computes, in a size_t.
Needed == Wrap(m_size[call.stream] + call.n)

\* big_size *= 2, from m_alloc until the sum fits; in a size_t, too.
Double ==
  /\ call # NoRequest /\ ~corrupt
  /\ Needed > call.big
  /\ call' = [call EXCEPT !.big = Wrap(2 * @)]
  /\ UNCHANGED <<objects, corrupt>>

\* The n characters go to m_chars + m_size of arr, if they fit there.
Write(s, arr, p, old) ==
  IF m_size[s] + call.n <= call.big /\ (call.own => p = m_chars[s] \/ ~IsHeap(s))
  THEN /\ mem'    = [old EXCEPT ![p] = Written(arr, m_size[s], call.what)]
       /\ m_chars' = [m_chars EXCEPT ![s] = p]
       /\ m_alloc' = [m_alloc EXCEPT ![s] = call.big]
       /\ m_size' = [m_size EXCEPT ![s] = @ + call.n]
       /\ call'   = NoRequest
       /\ UNCHANGED <<life, corrupt>>
  ELSE /\ corrupt' = TRUE
       /\ UNCHANGED <<objects, call>>

\* expand_buffer had nothing to do.
WriteInPlace ==
  /\ call # NoRequest /\ ~corrupt
  /\ Needed <= call.big /\ call.big = m_alloc[call.stream]
  /\ LET s == call.stream IN Write(s, mem[m_chars[s]], m_chars[s], mem)

\* The text moves to a new block, then the old one goes.  What is appended
\* is read after that: from a freed block when it is the stream's own.
WriteGrown ==
  /\ call # NoRequest /\ ~corrupt
  /\ Needed <= call.big /\ call.big # m_alloc[call.stream]
  /\ LET s == call.stream IN
       \E k \in Free : Write(s, Enlarged(mem[m_chars[s]], call.big), k, Deleted(s))

\* new throws before anything has changed.
GrowThrows ==
  /\ call # NoRequest /\ ~corrupt
  /\ Needed <= call.big /\ call.big # m_alloc[call.stream]
  /\ call' = NoRequest
  /\ UNCHANGED <<objects, corrupt>>

Next ==
  \/ \E s \in Streams :
       \/ Construct(s)
       \/ Destroy(s)
       \/ \E c \in Streams : MoveConstruct(s, c)
       \/ \E c \in Streams : MoveAssign(s, c)
       \/ \E n \in 0 .. MaxSize : Truncate(s, n)
       \/ \E n \in 0 .. MaxSize : Erase(s, n)
       \/ AppendText(s)
       \/ AppendOwn(s)
       \/ AppendHuge(s)
  \/ Double
  \/ WriteInPlace
  \/ WriteGrown
  \/ GrowThrows

\* A call that has begun keeps running: the code is sequential.
Fairness == WF_vars(Double) /\ WF_vars(WriteInPlace) /\ WF_vars(WriteGrown \/ GrowThrows)

Spec == Init /\ [][Next]_vars /\ Fairness

-----------------------------------------------------------------------------
\* Whatever is moved, grown, refused memory or destroyed, every block in use
\* has one stream that will free it, and that stream's m_alloc is its size;
\* an open stream that owns none writes into its own m_stack.
OneOwner ==
  /\ \A k \in Blocks \ Free :
       \E s \in Streams :
         /\ Owns(s, k) /\ DOMAIN mem[k] = 0 .. m_alloc[s] - 1
         /\ \A c \in Streams \ {s} : ~Owns(c, k)
  /\ \A s \in Streams : life[s] = "open" =>
       /\ m_size[s] <= m_alloc[s]
       /\ IF IsHeap(s) THEN m_chars[s] \in Blocks \ Free
                       ELSE m_chars[s] = s /\ DOMAIN mem[s] = 0 .. m_alloc[s] - 1

\* Memory is misused in two cases only, and never by a move, a growth or a
\* failed growth: the stream's own text is appended to it and its block has
\* to grow, or the size of the result does not fit a size_t.
OnlyKnownMisuse ==
  corrupt => /\ call # NoRequest
             /\ \/ call.own /\ IsHeap(call.stream)
                \/ m_size[call.stream] + call.n >= SizeMod

\* expand_buffer returns from every append to an open stream whose text will
\* need no more than half of what a size_t counts.  (Beyond that, big_size
\* wraps to 0 and stays there, as it does for a moved-from stream.)
Growable(s) ==
  /\ call # NoRequest /\ ~corrupt
  /\ call.stream = s /\ life[s] = "open"
  /\ m_size[s] + call.n <= SizeMod \div 2

GrowthEnds == \A s \in Streams : Growable(s) ~> ~Growable(s)

\* A stream and the append under way, as StreamText has them.
Shown(s) == CASE life[s] = "none" -> Absent
              [] life[s] = "open" -> Content(s)
              [] OTHER            -> Unspecified

Asked == IF call = NoRequest THEN NoRequest
         ELSE [stream |-> call.stream, what |-> call.what]

\* A stream's text is what was appended to it, cut and moved, whichever
\* storage it went through; a refused append leaves no trace; an operation
\* changes no stream but the ones it names.
Text == INSTANCE StreamText WITH text    <- [s \in Streams |-> Shown(s)],
                                 request <- Asked

TextSemantics == Text!Spec
=============================================================================
