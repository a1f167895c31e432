----------------------------- MODULE StreamText -----------------------------
(***************************************************************************)
(* What ST::string_stream promises: a stream is a text that grows at its   *)
(* end by exactly what is appended, or not at all when memory runs out,    *)
(* that truncate() and erase() cut, and that a move hands over.            *)
(*                                                                         *)
(* StringStream.tla, with its two storages and its doubling, implements    *)
(* this specification.                                                     *)
(***************************************************************************)
EXTENDS Naturals, Sequences

CONSTANTS
  Streams,      \* the stream objects of the program
  Char,         \* char
  Absent,       \* stands for: no object has been constructed here
  Unspecified,  \* stands for: an object whose text nobody may rely on
  NoRequest     \* stands for: no append is under way

VARIABLES
  text,         \* text[s] is what s holds, or Absent, or Unspecified
  request       \* the append under way, [stream, what], or NoRequest

vars == <<text, request>>

Settled(s) == text[s] \notin {Absent, Unspecified}

Init ==
  /\ text = [s \in Streams |-> Absent]
  /\ request = NoRequest

Open(s) ==
  /\ text[s] = Absent
  /\ text' = [text EXCEPT ![s] = <<>>]
  /\ UNCHANGED request

Close(s) ==
  /\ request = NoRequest /\ text[s] # Absent
  /\ text' = [text EXCEPT ![s] = Absent]
  /\ UNCHANGED request

\* s, new or not, takes over the text of c.
Move(s, c) ==
  /\ request = NoRequest /\ s # c /\ text[c] # Absent
  /\ text' = [text EXCEPT ![s] = text[c], ![c] = Unspecified]
  /\ UNCHANGED request

\* A stream moved onto itself is as good as moved from.
MoveSelf(s) ==
  /\ request = NoRequest /\ text[s] # Absent
  /\ text' = [text EXCEPT ![s] = Unspecified]
  /\ UNCHANGED request

Request(s) ==
  /\ request = NoRequest /\ text[s] # Absent
  /\ request' \in [stream : {s}, what : Seq(Char)]
  /\ UNCHANGED text

Grow(s) ==
  /\ request # NoRequest /\ request.stream = s
  /\ request' = NoRequest
  /\ text' = IF Settled(s) THEN [text EXCEPT ![s] = @ \o request.what] ELSE text

Refuse(s) ==
  /\ request # NoRequest /\ request.stream = s
  /\ request' = NoRequest
  /\ UNCHANGED text

\* truncate() and erase() leave some beginning of the text.
Cut(s) ==
  /\ request = NoRequest /\ Settled(s)
  /\ \E n \in 0 .. Len(text[s]) : text' = [text EXCEPT ![s] = SubSeq(@, 1, n)]
  /\ UNCHANGED request

Next ==
  \E s \in Streams :
    \/ Open(s) \/ Close(s)
    \/ \E c \in Streams : Move(s, c)
    \/ MoveSelf(s)
    \/ Request(s) \/ Grow(s) \/ Refuse(s)
    \/ Cut(s)

Spec == Init /\ [][Next]_vars
=============================================================================
