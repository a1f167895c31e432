---------------------------- MODULE BufferValues ----------------------------
(***************************************************************************)
(* What ST::buffer<char_T> promises its users, with no storage in sight:   *)
(* every buffer object is a value of its own.  Copying copies the value,   *)
(* moving hands it over and leaves the source with a value nobody should   *)
(* rely on, and an operation changes no buffer but the ones it names.      *)
(*                                                                         *)
(* Buffer.tla, with its heap blocks, its local arrays and its pointers,    *)
(* implements this specification.                                          *)
(***************************************************************************)
EXTENDS Naturals

CONSTANTS
  Buffers,      \* the buffer objects of the program
  Char,         \* the character type char_T
  MaxSize,      \* bound: the longest content
  Absent,       \* stands for: no object has been constructed here
  Unspecified   \* stands for: an object whose content nobody may rely on

VARIABLE value  \* value[b] is b's content, or Absent, or Unspecified

\* A content of n characters is an array indexed from 0.
Contents == UNION { [0 .. n - 1 -> Char] : n \in 0 .. MaxSize }

Init == value = [b \in Buffers |-> Absent]

\* A new object is made of the content v.
Make(b, v) ==
  /\ value[b] = Absent
  /\ value' = [value EXCEPT ![b] = v]

\* b has no characters any more.
Empty(b) ==
  /\ value[b] # Absent
  /\ value' = [value EXCEPT ![b] = [i \in {} |-> 0]]

\* b has n characters, which are whatever they are.
Resize(b, n) ==
  /\ value[b] # Absent
  /\ \E v \in [0 .. n - 1 -> Char] : value' = [value EXCEPT ![b] = v]

\* b has n characters ch.
Fill(b, n, ch) ==
  /\ value[b] # Absent
  /\ value' = [value EXCEPT ![b] = [i \in 0 .. n - 1 |-> ch]]

\* The character at place i of b becomes ch, and no other.
Put(b, i, ch) ==
  /\ value[b] \in Contents /\ i \in DOMAIN value[b]
  /\ value' = [value EXCEPT ![b] = [value[b] EXCEPT ![i] = ch]]

\* b, new or not, becomes equal to c, which keeps its value.
Copy(b, c) ==
  /\ value[c] # Absent
  /\ value' = [value EXCEPT ![b] = value[c]]

\* b takes over the value of another object c, whose own is then anything.
Move(b, c) ==
  /\ b # c
  /\ value[c] # Absent
  /\ value' = [value EXCEPT ![b] = value[c], ![c] = Unspecified]

\* An operation on b ended in an exception that cost b its value.
Lose(b) ==
  /\ value[b] # Absent
  /\ value' = [value EXCEPT ![b] = Unspecified]

\* The end of b's lifetime.
Drop(b) ==
  /\ value[b] # Absent
  /\ value' = [value EXCEPT ![b] = Absent]

Next ==
  \E b \in Buffers :
    \/ \E v \in Contents : Make(b, v)
    \/ Empty(b)
    \/ \E n \in 0 .. MaxSize : Resize(b, n)
    \/ \E n \in 0 .. MaxSize, ch \in Char : Fill(b, n, ch)
    \/ \E i \in 0 .. MaxSize - 1, ch \in Char : Put(b, i, ch)
    \/ \E c \in Buffers : Copy(b, c) \/ Move(b, c)
    \/ Lose(b)
    \/ Drop(b)

Spec == Init /\ [][Next]_value
=============================================================================
