--------------------------- MODULE MCStringCalls ----------------------------
(***************************************************************************)
(* StringCalls.tla on short texts over two characters that differ in their *)
(* case alone, NUL and a third, and what the operations should give,       *)
(* written without a look at their loops.                                  *)
(***************************************************************************)
EXTENDS StringCalls, Bitwise

UpTo(chars, n) == UNION { [1 .. k -> chars] : k \in 0 .. n }

MCTexts   == UpTo({0, 65, 97}, 4) \cup {<<98, 97, 65, 98, 97>>}
MCRulers  == { SubSeq(<<65, 66, 0, 67>>, 1, k) : k \in 0 .. 4 }
MCNeedles == UpTo({0, 65, 97}, 2)
MCCharsets == UpTo({65, 97}, 2)
MCReplacements == {<<>>, <<98>>, <<97, 65>>, <<98, 97, 98>>}
\* Enough to show what one operation does.
FewTexts   == UpTo({65, 97}, 3)
FewNeedles == UpTo({65}, 2)
MCOffsets == -6 .. 6
\* Upper and lower case, NUL, a bracket between the cases and a byte that is
\* negative as a char; and a text so long that an int loses the difference.
MCWords  == UpTo({0, 65, 91, 97, 195}, 2) \cup {<<97, 65, 97, 97>>, <<97, 65, 97, 97, 97>>}
MCxor(a, b) == a ^^ b
FewWords == UpTo({65}, 1)

-----------------------------------------------------------------------------
\* right(n) of a text with fewer than n characters is the whole text, as in
\* test_string.cpp:1834.
RightOfShortIsAll ==
  Done({"right"}) /\ job.n > Len(job.text) => answer = job.text

\* after_first goes on behind the separator, as in test_string.cpp:1904, in
\* each of its overloads.
AfterFirstSkipsSeparator ==
  Done({"after_first"}) =>
    LET sep   == Needle(job.kind, job.arg)
        first == Lowest(Occurrences(job.text, sep, job.cs, 0, Len(job.text)))
    IN  first # -1 => answer = SubSeq(job.text, first + Len(sep) + 1, Len(job.text))
=============================================================================
