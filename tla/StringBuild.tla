----------------------------- MODULE StringBuild ----------------------------
(***************************************************************************)
(* How an ST::string gets its text (st_string.h): set() and the            *)
(* assignments, + and +=, and how to_buffer() hands it out.  Each is a     *)
(* call that runs through operations of Buffer on the string's m_buffer,   *)
(* on a char_buffer of the program and on its own locals, and may end      *)
(* after any of them in an exception: unicode_error from a validation,     *)
(* bad_alloc from a new.                                                   *)
(*                                                                         *)
(* A constructor is a set() on a new, empty string.                        *)
(***************************************************************************)
EXTENDS Buffer, FiniteSets

CONSTANTS
  Strings,       \* the string objects, each known by its m_buffer,
  CharBuffers,   \* the program's char_buffers,
  Local, Temp,   \* and the two buffers a call may have: Buffers is all of these
  cleaned,       \* texts to what substitute_invalid makes of them
  Inputs,        \* bound: the texts passed in
  NoCall

Size(v) == Cardinality(DOMAIN v)

ASSUME BuildAssumption ==
  /\ Buffers = Strings \cup CharBuffers \cup {Local, Temp}
  /\ Local # Temp /\ {Local, Temp} \cap (Strings \cup CharBuffers) = {}
  /\ Strings \cap CharBuffers = {}
  /\ DOMAIN cleaned = UNION { Arrays(n) : n \in 0 .. MaxSize }
  /\ Inputs \subseteq DOMAIN cleaned
  /\ \A v \in DOMAIN cleaned :
       /\ Size(cleaned[v]) \in Nat /\ cleaned[v] \in Arrays(Size(cleaned[v]))
       /\ cleaned[v] \in DOMAIN cleaned => cleaned[cleaned[v]] = cleaned[v]

VARIABLES
  call,    \* the call under way, or NoCall
  phase,   \* how far it is, or "idle", "done", "thrown", "terminated"
  before   \* history: the values when it was called

progress == <<call, phase, before>>
allvars  == <<vars, progress>>

Objects == Strings \cup CharBuffers

-----------------------------------------------------------------------------
(* Texts *)

Empty == [i \in {} |-> NUL]

Valid(v) == cleaned[v] = v

\* Mutant: the right text overwrites the left one's last character.
Joined_Over(l, r) ==
  [i \in 0 .. Size(l) + Size(r) - 1 |->
     IF i + 1 < Size(l) \/ r = Empty THEN l[i] ELSE r[IF i < Size(l) THEN 0 ELSE i - Size(l)]]

Joined(l, r) ==
  [i \in 0 .. Size(l) + Size(r) - 1 |-> IF i < Size(l) THEN l[i] ELSE r[i - Size(l)]]

-----------------------------------------------------------------------------
(* The calls.  "fill" is an assignment to a char_buffer, "join" s = l + r. *)

Modes == {"check_validity", "substitute_invalid", "assume_valid"}

Jobs ==
  [op : {"set", "set_move"}, to : Strings, from : CharBuffers, mode : Modes]
  \cup [op : {"assign", "move"}, to : Strings, from : Strings]
  \cup [op : {"set_utf8", "set_utf16"}, to : Strings, data : Inputs, mode : Modes]
  \cup [op : {"fill"}, to : CharBuffers, data : Inputs]
  \cup [op : {"join"}, to : Strings, left : Strings, right : Strings]
  \cup [op : {"to_buffer"}, to : CharBuffers, from : Strings]

Operands(j) ==
  CASE j.op = "join" -> {j.left, j.right}
    [] j.op \in {"set_utf8", "set_utf16", "fill"} -> {}
    [] OTHER -> {j.from}

\* What the call is about, given the values v.
Given(j, v) ==
  CASE j.op = "join" -> Joined(v[j.left], v[j.right])
    [] j.op \in {"set_utf8", "set_utf16", "fill"} -> j.data
    [] OTHER -> v[j.from]

Mode(j) == IF "mode" \in DOMAIN j THEN j.mode ELSE "assume_valid"

\* The program reads no object it has moved from, moves none onto itself, and
\* says assume_valid of valid text only.  MaxSize bounds the results.
Sensible(j) ==
  /\ \A b \in Operands(j) : life[b] = "value"
  /\ j.op = "move" => j.from # j.to
  /\ LET text == Given(j, [b \in Objects |-> Value(b)]) IN
       /\ Size(text) <= MaxSize
       /\ "mode" \in DOMAIN j /\ j.mode = "assume_valid" => Valid(text)
       /\ j.op = "set_utf16" \/ Mode(j) = "substitute_invalid" => Size(cleaned[text]) <= MaxSize

BuildInit ==
  /\ life    = [b \in Buffers |-> IF b \in Objects THEN "value" ELSE "none"]
  /\ m_chars = [b \in Buffers |-> b]
  /\ m_size  = [b \in Buffers |-> 0]
  /\ mem     = [p \in Storage |-> IF p \in Objects THEN Zeros ELSE NoStorage]
  /\ corrupt = FALSE
  /\ call = NoCall /\ phase = "idle"
  /\ before = [b \in Objects |-> Absent]

Begin(j) ==
  /\ phase = "idle" /\ Sensible(j)
  /\ call' = j
  /\ before' = [b \in Objects |-> Value(b)]
  /\ phase' = CASE j.op \in {"set", "set_move"}   -> "validate"
                [] j.op \in {"assign", "move"}    -> "assign"
                [] j.op \in {"set_utf8", "fill"}  -> "copy in"
                [] j.op \in {"set_utf16", "join"} -> "open"
                [] j.op = "to_buffer"             -> "copy out"
  /\ UNCHANGED vars

At(p) == phase = p /\ ~corrupt

Go(p) == phase' = p /\ UNCHANGED <<call, before>>

\* char_buffer(utf8, size): a constructor that throws leaves nothing.
CopyIn ==
  /\ At("copy in")
  /\ LET n == Size(call.data) IN
       \/ ConstructFrom(Local, call.data, n)
          /\ Go(IF call.op = "fill" THEN "take" ELSE "validate")
       \/ Long(n) /\ Go("unwind") /\ UNCHANGED vars

\* The buffer that set() is passed.
Source == IF call.op = "set_utf8" THEN Local ELSE call.from

\* Mutant: the buffer is moved before it is validated.
Validate_Late ==
  /\ At("validate")
  /\ \/ /\ call.mode = "check_validity" /\ ~Valid(Content(Source))
        /\ IF call.op = "set" THEN UNCHANGED vars ELSE MoveAssign(call.to, Source)
        /\ Go("unwind")
     \/ /\ call.mode = "substitute_invalid"
        /\ Go("open") /\ UNCHANGED vars
     \/ /\ call.mode = "check_validity" => Valid(Content(Source))
        /\ call.mode # "substitute_invalid"
        /\ Go("assign") /\ UNCHANGED vars

\* The switch of set().
Validate ==
  /\ At("validate")
  /\ \/ /\ call.mode = "check_validity" /\ ~Valid(Content(Source))
        /\ Go("unwind")
     \/ /\ call.mode = "substitute_invalid"
        /\ Go("open")
     \/ /\ call.mode = "check_validity" => Valid(Content(Source))
        /\ call.mode # "substitute_invalid"
        /\ Go("assign")
  /\ UNCHANGED vars

\* m_buffer = init: a copy, which may throw.
Assign ==
  /\ At("assign") /\ call.op \in {"set", "assign"}
  /\ LET b == call.to IN
       \/ Source = b /\ Go("drop") /\ UNCHANGED vars
       \/ CopyAssign(b, Source) /\ Go("drop")
       \/ CopyAssignThrows(b, Source) /\ Go("unwind")
       \/ Source # b /\ Reffed(Source) /\ ~Reffed(b) /\ Go("unwind") /\ UNCHANGED vars

\* m_buffer = std::move(init)
AssignMoving ==
  /\ At("assign") /\ call.op \in {"set_move", "move", "set_utf8"}
  /\ MoveAssign(call.to, Source)
  /\ Go("drop")

\* operator+, cleanup_utf8_buffer and the conversions build their result in
\* a local buffer.
Open ==
  /\ At("open")
  /\ ConstructFrom(Temp, Empty, 0)
  /\ Go("build")

\* Mutant: they build it in the string.
Workplace_Target == call.to

Workplace == Temp

Build ==
  /\ At("build")
  /\ LET text == IF call.op = "join" THEN Joined(Content(call.left), Content(call.right))
                 ELSE cleaned[IF call.op = "set_utf16" THEN call.data ELSE Content(Source)]
     IN
       \/ /\ AllocateWith(Workplace, Size(text), text)
          /\ Go(CASE call.op = "join"      -> "wrap"
                  [] call.op = "set_utf16" -> "raise"
                  [] OTHER                 -> "take")
       \/ AllocateThrows(Workplace, Size(text)) /\ Go("unwind")

\* raise_conversion_error, once the conversion is made.
RaiseConversionError ==
  /\ At("raise")
  /\ Go(IF call.mode = "check_validity" /\ ~Valid(call.data) THEN "unwind" ELSE "take")
  /\ UNCHANGED vars

\* from_validated(std::move(cat)), and cat goes.
Wrap ==
  /\ At("wrap")
  /\ IF life[Local] = "none" THEN MoveConstruct(Local, Temp) /\ Go("wrap")
     ELSE Destroy(Temp) /\ Go("take")

\* to_utf8() is noexcept: a new that throws in it ends the program.
CopyOut ==
  /\ At("copy out")
  /\ \/ CopyConstruct(Local, call.from) /\ Go("take")
     \/ Reffed(call.from) /\ Go("terminated") /\ UNCHANGED vars

\* The target takes the result over.
Take ==
  /\ At("take")
  /\ MoveAssign(call.to, IF Live(Temp) THEN Temp ELSE Local)
  /\ Go("drop")

\* Locals go in the end, the inner one first, and after an exception too.
DropLocal ==
  /\ phase \in {"drop", "unwind"} /\ ~corrupt
  /\ LET l == IF Live(Temp) THEN Temp ELSE Local IN
       /\ Live(l)
       /\ Destroy(l) \/ (~Deletes(l) /\ Misuse(l))
  /\ Go(phase)

End ==
  /\ phase \in {"drop", "unwind"} /\ ~corrupt
  /\ ~Live(Temp) /\ ~Live(Local)
  /\ Go(IF phase = "drop" THEN "done" ELSE "thrown")
  /\ UNCHANGED vars

Return ==
  /\ phase \in {"done", "thrown"}
  /\ call' = NoCall /\ phase' = "idle"
  /\ before' = [b \in Objects |-> Absent]
  /\ UNCHANGED vars

\* The program writes a character of a buffer of its own.
Write(b, i, ch) ==
  /\ phase = "idle"
  /\ SetAt(b, i, ch)
  /\ UNCHANGED progress

\* at() lets it, as long as i is below size(), which a moved-from buffer has
\* from its new owner.
WriteMovedFrom(b, i, ch) ==
  /\ phase = "idle"
  /\ life[b] = "unspecified" /\ i < m_size[b]
  /\ mem' = [mem EXCEPT ![m_chars[b]] = [@ EXCEPT ![i] = ch]]
  /\ UNCHANGED <<life, m_chars, m_size, corrupt, progress>>

BuildNext ==
  \/ phase = "idle" /\ \E j \in Jobs : Begin(j)
  \/ CopyIn \/ Validate \/ Assign \/ AssignMoving
  \/ Open \/ Build \/ RaiseConversionError \/ Wrap \/ CopyOut
  \/ Take \/ DropLocal \/ End \/ Return
  \/ \E b \in CharBuffers, i \in 0 .. MaxSize - 1, ch \in Char : Write(b, i, ch)

BuildSpec == BuildInit /\ [][BuildNext]_allvars

\* A program that also writes into buffers it has moved from.
MovedNext ==
  \/ BuildNext
  \/ \E b \in CharBuffers, i \in 0 .. MaxSize - 1, ch \in Char : WriteMovedFrom(b, i, ch)

MovedSpec == BuildInit /\ [][MovedNext]_allvars

-----------------------------------------------------------------------------
\* A call that ends in an exception has changed nothing: neither its target
\* nor, when the buffer was passed to be moved, the buffer, which the caller
\* may still use.  The one exception is a copy that runs out of memory when
\* its target held a long text, which is lost.
UnharmedByFailure ==
  phase = "thrown" =>
    \A b \in Objects :
      \/ Value(b) = before[b]
      \/ /\ b = call.to /\ call.op \in {"set", "assign"}
         /\ Value(b) = Unspecified /\ m_size[b] = 0
         /\ before[b] # Unspecified => Long(Size(before[b]))

\* A call that returns has made its target what it should be, of the values
\* its operands had when it began (the target may be one of them), and has
\* changed nothing else but a buffer or string it was passed to be moved.
Together(t, l, r) ==
  /\ Size(t) = Size(l) + Size(r)
  /\ \A i \in DOMAIN l : t[i] = l[i]
  /\ \A i \in DOMAIN r : t[i + Size(l)] = r[i]

BuildsWhatItSays ==
  phase = "done" =>
    /\ CASE call.op = "join" ->
              Together(Value(call.to), before[call.left], before[call.right])
         [] Mode(call) = "substitute_invalid" ->
              Value(call.to) = cleaned[Given(call, before)]
         [] OTHER -> Value(call.to) = Given(call, before)
    /\ \A b \in Objects \ {call.to} :
         IF b \in Operands(call) /\ call.op \in {"move", "set_move"}
            /\ Mode(call) # "substitute_invalid"
         THEN Value(b) = Unspecified
         ELSE Value(b) = before[b]

\* No string and no buffer of the program is ever left claiming a block it
\* does not have: only the local buffer of a call can be, when its
\* allocate() throws, and then its destructor is what corrupts the heap.
OnlyLocalsBreak ==
  /\ \A b \in Objects : life[b] # "broken"
  /\ corrupt => phase = "unwind" /\ life[Temp] = "broken"

\* The text of a string changes only in a call that names the string.
\* ("Strings are immutable objects", README.md:47.)
StringsImmutable ==
  [][\A s \in Strings :
       phase = "idle" /\ phase' = "idle" /\ life[s] = "value" => Value(s)' = Value(s)]_allvars
=============================================================================
