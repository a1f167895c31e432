---------------------------- MODULE MCFormatter -----------------------------
(***************************************************************************)
(* Formatter.tla on short format strings over every character the parser   *)
(* tells apart, and on fields put together from every kind of group.       *)
(***************************************************************************)
EXTENDS FormatGrammar

UpTo(chars, n) == UNION { [1 .. k -> chars] : k \in 0 .. n }

Text(s)  == Arg("text", 0, s)
AnInt(n) == Arg("int", n, <<>>)

Ab == Text(<<97, 98>>)
EAcute == <<195, 169>>

IllFormed == Arg("ill_formed", 0, <<>>)

Job(fmt, args, sink) == [fmt |-> fmt, args |-> args, sink |-> sink, mode |-> "check_validity"]

-----------------------------------------------------------------------------
(* Any characters: { } _ 0 1 9 . & - < x and "a", which is no group.  *)

Alphabet == {Open, Close, Under, Zero, 49, 57, Dot, Amp, Minus, 60, 120, 97}

Raw == UpTo(Alphabet, 3)
       \cup { <<Open>> \o f : f \in [1 .. 4 -> Alphabet \ {60}] }
       \cup { <<Open>> \o f \o <<Close, Open, Close>> : f \in UpTo(Alphabet \ {97}, 3) }

RawJobs == { Job(f, <<Ab, AnInt(-10)>>, "stream") : f \in Raw }
           \cup { Job(f, <<>>, "stream") : f \in UpTo({Open, Close, 97}, 4) }

\* Fields of all kinds of groups, { pad align width precision class # + }.
Pads    == {<<>>, <<Under, Minus>>, <<Zero>>, <<Under, Minus, Zero>>, <<Zero, Under, Minus>>}
Aligns  == {<<>>, <<60>>, <<62>>}
Widths  == {<<>>, <<51>>, <<54>>}
Options(c) == {<<>>, <<c>>}
Precisions == {<<>>, <<Dot, Zero>>, <<Dot, 49>>, <<Dot, 53>>}

Field(parts) == <<Open>> \o FlattenSeq(parts) \o <<Close>>

IntFields ==
  { Field(<<p, a, w, c, h, s>>) : p \in Pads, a \in Aligns, w \in Widths,
      c \in {<<>>, <<100>>, <<120>>, <<88>>, <<111>>, <<98>>, <<99>>},
      h \in Options(35), s \in Options(Plus) }

TextFields == { Field(<<p, a, w, d>>) : p \in Pads, a \in Aligns, w \in Widths, d \in Precisions }

FloatFields ==
  { Field(<<p, a, w, d, c, s>>) : p \in {<<>>, <<Zero>>}, a \in Aligns, w \in Widths,
      d \in Precisions, c \in {<<>>, <<102>>, <<101>>, <<69>>}, s \in Options(Plus) }

FieldJobs ==
  { Job(f, <<AnInt(n)>>, "stream") : f \in IntFields, n \in {0, 5, -5, 26, 1114112, 4194369} }
  \cup { Job(f, <<t>>, "stream") : f \in TextFields,
           t \in {Ab, Text(<<>>), IllFormed, Arg("null", 0, <<>>), Arg("bool", 0, <<>>), Arg("bool", 1, <<>>)} }
  \cup { Job(f, <<Arg("double", 0, <<51>>)>>, "stream") : f \in FloatFields }
  \cup { Job(f, <<Arg("char8", 195, <<>>)>>, "stream") :
           f \in { Field(<<w, c>>) : w \in Widths, c \in Options(99) } }
  \cup { Job(f, <<[Arg("complex", 0, <<51>>) EXCEPT !.imag = <<Minus, 51>>]>>, "stream") :
           f \in { Field(<<a, w, d, <<102>> >>) : a \in Aligns, w \in Widths, d \in Precisions } }

(* Numbers an int does not hold, or a long, as a width, a precision and an *)
(* index: 4194307, 4194304, 4194305, 2097152, 999999999, and behind spaces. *)
Wide(key) ==
  { key \o d : d \in {<<52, 49, 57, 52, 51, 48, 55>>, <<52, 49, 57, 52, 51, 48, 52>>,
                      <<52, 49, 57, 52, 51, 48, 53>>, <<50, 48, 57, 55, 49, 53, 50>>,
                      [i \in 1 .. 9 |-> 57]} }

WrapJobs ==
  { Job(f, <<a>>, "stream") :
      f \in { Field(<<n>>) : n \in Wide(<<>>) \cup Wide(<<Dot>>) \cup Wide(<<Amp>>)
                                   \cup {<<Dot, Blank, 49>>, <<Amp, 9, Plus, 49>>} },
      a \in {Ab, AnInt(-10)} }

(***************************************************************************)
(* All writers: fields and literals beyond ASCII, a precision that cuts a  *)
(* character, bytes one by one, text that is not UTF-8.                    *)
(***************************************************************************)
WriterFormats ==
  { a \o Field(<<w, p>>) \o b : a \in {<<>>, <<195, 169, Open, Open>>}, b \in {<<>>, <<195>>, <<169>>},
      p \in {<<>>, <<Dot, 49>>}, w \in {<<>>, <<51>>} }
  \cup { Field(<<c>>) \o Field(<<c>>) : c \in Options(99) }
  \cup { <<97>> \o Field(<<>>) \o Field(<<>>) \o Field(<<>>), <<Open, 97>> }

WriterArgs == { <<Text(EAcute), AnInt(233)>>, <<Text(<<195>>), Text(<<169>>)>>,
                <<Arg("char8", 195, <<>>), Arg("char8", 169, <<>>)>>, <<AnInt(8364), Text(<<65>>)>>,
                <<Text(EAcute), IllFormed>> }

WriterJobs ==
  [fmt : WriterFormats, args : WriterArgs, sink : Sinks \ {"format"}, mode : {"check_validity"}]
  \cup [fmt : WriterFormats, args : WriterArgs, sink : {"format"}, mode : Modes]

MCJobs == RawJobs \cup FieldJobs \cup WrapJobs \cup WriterJobs
=============================================================================
