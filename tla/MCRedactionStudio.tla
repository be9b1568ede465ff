-------------------------- MODULE MCRedactionStudio --------------------------
(***************************************************************************)
(* Instances of RedactionStudio: a text is a sequence of lines, a line a   *)
(* sequence of one-letter strings.  "w" stands for a character of two      *)
(* units, "I" for one whose lower case is two characters.                  *)
(***************************************************************************)
EXTENDS RedactionStudio

Characters == {"a", "A", "b", "-", " ", "w", "I"}
Letters    == {"a", "A", "b"}
LowerCase  == [c \in Characters |-> IF c = "A" THEN <<"a">>
                                    ELSE IF c = "I" THEN <<"b", "-">> ELSE <<c>>]

\* A text on which nothing more comes: what a person does takes acts.
Plain(t, acts) == [text |-> t, later |-> {}, acts |-> acts, suggested |-> [x \in {t} |-> {}]]
At(i) == {[line |-> 1, from |-> i, to |-> i + 1]}

Lines(chars, width) == UNION {[1..n -> chars] : n \in 0..width}

AA       == <<<<"a", " ", "a">>>>
Two      == <<<<"a", "b">>, <<"A">>>>
WideText == <<<<"w", " ", "a">>, <<"b">>>>
Smile    == <<<<"w", "b", "a", "b">>>>
Moved    == <<<<"b", "a">>>>

\* What people look for.
Finds == {<<"a">>, <<"a", "b">>, <<" ", "A", " ", "a">>, <<"I">>}

\* Every small text as it lies there; four acts on a word that occurs twice; three
\* acts on two lines, one with a suggestion, that a sync replaces; an act behind a
\* wide character.
Sittings ==
  {Plain(<<l>>, 0) : l \in Lines({"a", "-", " "}, 5) \cup Lines({"a", "I", "w", " "}, 3)}
  \cup {Plain(<<k, l>>, 0) : k, l \in Lines({"a", "A", "-", " "}, 2)}
  \cup {Plain(<<k, l, j>>, 0) : k, l, j \in Lines({"a", " "}, 1)}
  \cup {Plain(AA, 4), Plain(WideText, 1)}
  \cup {[text |-> Two, later |-> {Moved}, acts |-> 3,
         suggested |-> (Two :> At(0) @@ Moved :> At(1))]}

\* One act behind a wide character.
Emoji == {Plain(Smile, 1)}
=============================================================================
