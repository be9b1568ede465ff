-------------------------- MODULE RedactionStudio --------------------------
(***************************************************************************)
(* The redaction studio on one document: the geometry and the burn of      *)
(* domain/redaction.ts, the page of app/_components/RedactionStudio.tsx    *)
(* with its undo and redo, and finalizeRedaction of                        *)
(* services/redactionService.ts up to the artifact.                        *)
(*                                                                         *)
(* A text is a sequence of lines, a line a sequence of characters.  The    *)
(* columns of a span count UTF-16 units, as string indices do; a character *)
(* outside the basic plane is Wide: two units.                             *)
(*                                                                         *)
(* Left out: exemption reasons (a group of suggestions under one reason is *)
(* any set of them), what the scans look for (what they suggest for a text *)
(* is given), the order of the log's cards, the residual scan (a refusal   *)
(* changes nothing, and can be overridden), the PDF, what a visitor does   *)
(* while a burn is under way.  What follows the artifact is in             *)
(* RequestCase.                                                            *)
(***************************************************************************)
EXTENDS Integers, FiniteSets, SequencesExt

CONSTANTS
  Chars,          \* the characters texts are made of
  Blank,          \* the white space among them
  Wide,           \* those of two units
  WordChars,      \* letters and digits
  Lower,          \* toLowerCase: what each character becomes
  Block,          \* the glyph of a burned character
  Queries,        \* what is typed into the find box
  Environments    \* the circumstances a behaviour may start in

\* An environment: the text, what else a sync may bring (later), the spans
\* suggested for each of these texts, and the acts still to come (a bound).
Text        == Seq(Seq(Chars))
Span        == [line : Nat, from : Nat, to : Nat]

ASSUME StudioAssumption ==
  /\ Blank \in Chars \ (Wide \cup WordChars) /\ Block \notin Chars
  /\ Wide \subseteq Chars /\ WordChars \subseteq Chars
  /\ Lower \in [Chars -> Seq(Chars) \ {<<>>}]
  /\ \A c \in Chars : Blank \in ToSet(Lower[c]) <=> c = Blank
  /\ \A e \in Environments :
       /\ e = [text |-> e.text, later |-> e.later, suggested |-> e.suggested,
               acts |-> e.acts]
       /\ {e.text} \cup e.later \subseteq Text \cap DOMAIN e.suggested
       /\ \A t \in DOMAIN e.suggested : e.suggested[t] \subseteq Span
       /\ e.acts \in Nat

VARIABLES
  text,        \* documents.extractedText
  shown,       \* the lines the page was given
  redactions,  \* the page's redactions
  undo,        \* undoStack: the ids of each act
  redo,        \* redoStack: the redactions of each act taken back
  offer,       \* wordOffer
  finalized,   \* the page shows the released copy
  artifact,    \* the burned copy: its lines and the spans of its log
  past,        \* history: the page without each act of undo and those above it
  future,      \* history: the page with each act of redo and those above it
  env          \* the circumstances, and the acts still to come

history == <<past, future>>
vars    == <<text, shown, redactions, undo, redo, offer, finalized, artifact,
             history, env>>

-----------------------------------------------------------------------------
(* Geometry.                                                               *)

Units(line)   == FlattenSeq([i \in DOMAIN line |->
                   [k \in 1..(IF line[i] \in Wide THEN 2 ELSE 1) |-> <<line[i], k>>]])
Width(line)   == Len(line) + Cardinality({i \in DOMAIN line : line[i] \in Wide})
Lowered(u)    == FlattenSeq([i \in DOMAIN u |->
                   IF u[i][2] = 1 THEN Units(Lower[u[i][1]]) ELSE <<>>])
IsBlank(u)    == u[1] = Blank
IsWordChar(u) == u[1] \in WordChars

\* Units from..to-1, counted from 0, as slice does.
Slice(u, from, to) == SubSeq(u, from + 1, to)

Points(doc) == UNION {{[line |-> l, col |-> c] : c \in 0..Width(doc[l])} : l \in DOMAIN doc}

Before(p, q) == p.line < q.line \/ (p.line = q.line /\ p.col <= q.col)

\* Mutant of SpansFromDragRect: a line between the ends starts where the first does.
SpansFromDragRectStraight(doc, anchor, focus) ==
  LET from == IF Before(anchor, focus) THEN anchor ELSE focus
      to   == IF Before(anchor, focus) THEN focus ELSE anchor
      On(l) == [line |-> l,
                from |-> from.col,
                to   |-> IF l = to.line THEN to.col ELSE Width(doc[l])]
  IN FlattenSeq([i \in 1..(to.line - from.line + 1) |->
       LET s == On(from.line + i - 1) IN IF s.to > s.from THEN <<s>> ELSE <<>>])

\* spansFromDragRect: from one point to the other, line by line.
SpansFromDragRect(doc, anchor, focus) ==
  LET from == IF Before(anchor, focus) THEN anchor ELSE focus
      to   == IF Before(anchor, focus) THEN focus ELSE anchor
      On(l) == [line |-> l,
                from |-> IF l = from.line THEN from.col ELSE 0,
                to   |-> IF l = to.line THEN to.col ELSE Width(doc[l])]
  IN FlattenSeq([i \in 1..(to.line - from.line + 1) |->
       LET s == On(from.line + i - 1) IN IF s.to > s.from THEN <<s>> ELSE <<>>])

\* wordSpanAt: the unbroken run around a point; none on white space.
WordSpansAt(doc, p) ==
  LET u   == Units(doc[p.line])
      col == Min({p.col, Len(u) - 1})
  IN IF u = <<>> \/ IsBlank(u[col + 1]) THEN {}
     ELSE {s \in [line : {p.line}, from : 0..col, to : (col + 1)..Len(u)] :
             /\ \A i \in s.from..(s.to - 1) : ~IsBlank(u[i + 1])
             /\ s.from > 0 => IsBlank(u[s.from])
             /\ s.to < Len(u) => IsBlank(u[s.to + 1])}

\* The indices that indexOf finds, from the first on, each past the last match.
Scan(needle, hay) ==
  LET from[i \in 0..Len(hay)] ==
        LET at == {k \in i..(Len(hay) - Len(needle)) :
                     Slice(hay, k, k + Len(needle)) = needle}
        IN IF at = {} THEN <<>>
           ELSE <<Min(at)>> \o from[Min(at) + Len(needle)]
  IN from[0]

\* Where a needle occurs, without regard to case.
MatchesOf(doc, needle) ==
  FlattenSeq([l \in DOMAIN doc |->
    LET low == Lowered(needle)
        at  == Scan(low, Lowered(Units(doc[l])))
    IN [i \in DOMAIN at |->
          [line |-> l, from |-> at[i], to |-> at[i] + Len(low)]]])

\* Neither neighbour is a letter or digit.
AtBoundary(doc, s) ==
  LET u == Units(doc[s.line])
  IN \A i \in {s.from, s.to + 1} \cap DOMAIN u : ~IsWordChar(u[i])

\* Mutant of WordMatches: the scan stops at a match within a word.
WordMatchesUpTo(doc, word) ==
  LET all == MatchesOf(doc, word)
  IN SelectSeq(all, LAMBDA s : \A i \in DOMAIN all :
       all[i].line = s.line /\ all[i].from <= s.from => AtBoundary(doc, all[i]))

WordMatches(doc, word) ==
  LET all == MatchesOf(doc, word)
  IN FlattenSeq([i \in DOMAIN all |->
       IF AtBoundary(doc, all[i]) THEN <<all[i]>> ELSE <<>>])

\* A query without the blanks around it; one of a single unit finds nothing.
Trimmed(query) ==
  LET dark == {i \in DOMAIN query : query[i] # Blank}
  IN IF dark = {} THEN <<>> ELSE SubSeq(query, Min(dark), Max(dark))
SubstringMatches(doc, query) ==
  LET q == Units(Trimmed(query))
  IN IF Len(Lowered(q)) < 2 THEN <<>> ELSE MatchesOf(doc, q)

-----------------------------------------------------------------------------
(* The burn.                                                               *)

\* applyRedactions spreads a line into its characters: a column is one here.
ApplyRedactions(doc, spans) ==
  [l \in DOMAIN doc |-> [i \in DOMAIN doc[l] |->
     IF \E s \in spans : s.line = l /\ s.from <= i - 1 /\ i - 1 < s.to
     THEN Block ELSE doc[l][i]]]

\* redactedValues slices the string: a column is a unit here.
ValueOf(doc, s) == LET u == IF s.line \in DOMAIN doc THEN Units(doc[s.line]) ELSE <<>>
                   IN Slice(u, Min({s.from, Len(u)}), Min({s.to, Len(u)}))
RedactedValues(doc, spans) ==
  {v \in {ValueOf(doc, s) : s \in spans} : \E i \in DOMAIN v : ~IsBlank(v[i])}

FindLeaks(doc, values) ==
  {v \in values : \E l \in DOMAIN doc : v \in SubSeqs(Units(doc[l]))}

-----------------------------------------------------------------------------
(* The page.                                                               *)

NoOffer    == [word |-> <<>>, spans |-> <<>>]
NoArtifact == [of |-> <<>>, lines |-> <<>>, spans |-> {}]

Accepted == {r \in redactions : r.status = "accepted"}
Marked   == {r.span : r \in Accepted}
RedactionAt(p) == {r \in redactions : /\ r.span.line = p.line
                                      /\ r.span.from <= p.col /\ p.col < r.span.to}

\* What the page first shows of a text: its suggestions.
Initial(doc, e) == {[id |-> <<<<"ai", s>>, 1>>, span |-> s, group |-> <<>>,
                     status |-> "suggested"] : s \in e.suggested[doc]}

Init ==
  /\ env \in Environments
  /\ text = env.text /\ shown = env.text
  /\ redactions = Initial(text, env)
  /\ undo = <<>> /\ redo = <<>>
  /\ offer = NoOffer
  /\ finalized = FALSE
  /\ artifact = NoArtifact
  /\ past = <<>> /\ future = <<>>

Does == /\ ~finalized
        /\ env.acts > 0
        /\ env' = [env EXCEPT !.acts = @ - 1]
        /\ UNCHANGED <<text, shown, finalized, artifact>>

\* addAct: what has the ids of this act is replaced; no undo brings it back.
Without(bars, ids) == {r \in bars : r.id \notin ids}
AddAct(spans, key) ==
  LET ids  == {<<key, i>> : i \in DOMAIN spans}
      rest == Without(redactions, ids)
  IN /\ Does
     /\ spans # <<>>
     /\ redactions' = rest \cup
          {[id |-> <<key, i>>, span |-> spans[i], status |-> "accepted",
            group |-> IF Len(spans) > 1 THEN key ELSE <<>>] : i \in DOMAIN spans}
     /\ undo' = Append(undo, ids)
     /\ redo' = <<>>
     /\ past' = Append([i \in DOMAIN past |-> Without(past[i], ids)], rest)
     /\ future' = <<>>

\* A drag, or a selection by keys.  A drag does not start on a bar; keys may.
Select(anchor, focus) ==
  /\ AddAct(SpansFromDragRect(shown, anchor, focus), <<"drag", anchor, focus>>)
  /\ UNCHANGED offer

WordKey(word) == <<"everywhere", Lowered(word)>>

\* A double click off the bars; with shift, every other occurrence goes along.
DoubleClick(p, shift) ==
  /\ RedactionAt(p) = {}
  /\ \E span \in WordSpansAt(shown, p) :
       LET word   == ValueOf(shown, span)
           others == SelectSeq(WordMatches(shown, word),
                       LAMBDA m : /\ m # span
                                  /\ \A r \in redactions :
                                       ~(/\ r.span.line = m.line
                                         /\ r.span.from <= m.from /\ m.to <= r.span.to))
       IN IF shift /\ others # <<>>
          THEN AddAct(<<span>> \o others, WordKey(word)) /\ offer' = NoOffer
          ELSE /\ AddAct(<<span>>, <<"word", span>>)
               /\ offer' = IF others = <<>> THEN NoOffer
                           ELSE [word |-> word, spans |-> others]

RedactWordEverywhere ==
  /\ AddAct(offer.spans, WordKey(offer.word))
  /\ offer' = NoOffer

\* Just this one.
Decline ==
  /\ offer # NoOffer
  /\ offer' = NoOffer
  /\ UNCHANGED <<text, shown, redactions, undo, redo, finalized, artifact, history, env>>

RedactAllMatches(query) ==
  /\ AddAct(SubstringMatches(shown, query), <<"find", Lowered(Units(Trimmed(query)))>>)
  /\ UNCHANGED offer

\* Mutant of Undo: of an act's bars one is taken back.
UndoOneBar ==
  LET ids     == {id \in Last(undo) : id[2] = 1}
      removed == redactions \ Without(redactions, ids)
  IN /\ Does
     /\ undo # <<>>
     /\ undo' = Front(undo)
     /\ redactions' = Without(redactions, ids)
     /\ redo' = IF removed = {} THEN redo ELSE Append(redo, removed)
     /\ past' = Front(past)
     /\ future' = IF removed = {} THEN future ELSE Append(future, redactions)
     /\ UNCHANGED offer

\* undoLastAct.
Undo ==
  LET ids     == Last(undo)
      removed == redactions \ Without(redactions, ids)
  IN /\ Does
     /\ undo # <<>>
     /\ undo' = Front(undo)
     /\ redactions' = Without(redactions, ids)
     /\ redo' = IF removed = {} THEN redo ELSE Append(redo, removed)
     /\ past' = Front(past)
     /\ future' = IF removed = {} THEN future ELSE Append(future, redactions)
     /\ UNCHANGED offer

\* redoLastAct.
Redo ==
  LET act == Last(redo)
      ids == {r.id : r \in act}
  IN /\ Does
     /\ redo # <<>>
     /\ redo' = Front(redo)
     /\ undo' = Append(undo, ids)
     /\ redactions' = Without(redactions, ids) \cup act
     /\ past' = Append(past, redactions)
     /\ future' = Front(future)
     /\ UNCHANGED offer

\* Edits that are no acts: bars go, or are accepted.  The stacks stay as they are.
Edited(bars, gone, taken) ==
  (bars \ gone) \cup {[id |-> r.id, span |-> r.span, group |-> r.group,
                       status |-> "accepted"] : r \in bars \cap taken}
Edit(gone, taken) ==
  /\ Does
  /\ redactions' = Edited(redactions, gone, taken)
  /\ past' = [i \in DOMAIN past |-> Edited(past[i], gone, taken)]
  /\ future' = [i \in DOMAIN future |-> Edited(future[i], gone, taken)]
  /\ UNCHANGED <<undo, redo, offer>>

\* A card is removed, and the rest of its act with it.
RemoveCard(r) ==
  Edit(IF r.group = <<>> THEN {r} ELSE {q \in redactions : q.group = r.group}, {})

\* Some suggestions are accepted, or rejected.
Accept(some) == Edit(some, some)
Reject(some) == Edit(some, {})

-----------------------------------------------------------------------------
(* The server.                                                             *)

\* The spans of the page are burned into the text there is, and the page is given
\* that text.  With the first artifact its key changes: it starts anew.
Finalize ==
  LET lines == ApplyRedactions(text, Marked)
  IN /\ ~finalized
     /\ Marked # {}
     /\ FindLeaks(lines, RedactedValues(text, Marked)) = {}
     /\ artifact' = [of |-> text, lines |-> lines, spans |-> Marked]
     /\ finalized' = TRUE
     /\ shown' = text
     /\ offer' = NoOffer
     /\ IF artifact = NoArtifact
        THEN /\ redactions' = Initial(text, env)
             /\ undo' = <<>> /\ redo' = <<>>
             /\ past' = <<>> /\ future' = <<>>
        ELSE UNCHANGED <<redactions, undo, redo, history>>
     /\ UNCHANGED <<text, env>>

Reopen ==
  /\ finalized
  /\ finalized' = FALSE
  /\ UNCHANGED <<text, shown, redactions, undo, redo, offer, artifact, history, env>>

\* A connected source brings another text.
Sync ==
  /\ text' \in env.later
  /\ env' = [env EXCEPT !.later = @ \ {text'}]
  /\ UNCHANGED <<shown, redactions, undo, redo, offer, finalized, artifact, history>>

Next == \/ \E anchor, focus \in Points(shown) : Select(anchor, focus)
        \/ \E p \in Points(shown) : \E shift \in BOOLEAN : DoubleClick(p, shift)
        \/ RedactWordEverywhere \/ Decline
        \/ \E query \in Queries : RedactAllMatches(query)
        \/ Undo \/ Redo
        \/ \E r \in redactions : RemoveCard(r)
        \/ \E some \in SUBSET (redactions \ Accepted) \ {{}} : Accept(some) \/ Reject(some)
        \/ Finalize \/ Reopen \/ Sync

Spec == Init /\ [][Next]_vars

-----------------------------------------------------------------------------
(* What the code promises.                                                 *)

\* The characters of a line that lie wholly under a span.
Under(line, s) ==
  {i \in DOMAIN line : /\ s.from <= Width(SubSeq(line, 1, i - 1))
                       /\ Width(SubSeq(line, 1, i)) <= s.to}

\* redaction.ts:7: the release copy replaces the redacted characters, "the original
\* text is gone, not covered".  So no character that lies under a bar of the
\* artifact's log stands in its lines.
GoneNotCovered ==
  \A s \in artifact.spans : s.line \in DOMAIN artifact.of =>
    \A i \in Under(artifact.of[s.line], s) : artifact.lines[s.line][i] = Block

\* A selection covers what lies between its ends in reading order, in whichever
\* direction it was made.
SelectionCovered ==
  \A anchor, focus \in Points(shown) :
    LET spans == ToSet(SpansFromDragRect(shown, anchor, focus))
    IN \A p \in Points(shown) :
         p.col < Width(shown[p.line]) =>
           (   (\E s \in spans : s.line = p.line /\ s.from <= p.col /\ p.col < s.to)
           <=> \/ Before(anchor, p) /\ Before(p, focus) /\ p # focus
               \/ Before(focus, p) /\ Before(p, anchor) /\ p # anchor)

\* Every character of a line has one character of its width as lower case.
Even(line) == \A c \in ToSet(line) : Len(Lower[c]) = 1 /\ Width(Lower[c]) = Width(<<c>>)

\* No character is cut in two.
Whole(v) == v = <<>> \/ (v[1][2] = 1 /\ Last(v)[2] = Width(<<Last(v)[1]>>))

\* A double-clicked word is one of its own matches, and every other occurrence
\* that is a word, and cuts no character in two, is found, unless it overlaps an
\* earlier one.  Not so on a line with a character whose lower case is longer or
\* of another width, where columns are shifted.
WordsFoundEverywhere ==
  \A w \in UNION {WordSpansAt(shown, p) : p \in Points(shown)} :
    LET word  == ValueOf(shown, w)
        found == ToSet(WordMatches(shown, word))
        n     == Len(Lowered(word))
        Is(s) == /\ Whole(ValueOf(shown, s))
                 /\ Lowered(ValueOf(shown, s)) = Lowered(word)
    IN /\ Even(shown[w.line]) => w \in found
       /\ \A l \in DOMAIN shown : Even(shown[l]) => \A c \in 0..(Width(shown[l]) - n) :
            LET From(k) == [line |-> l, from |-> k, to |-> k + n]
            IN Is(From(c)) /\ AtBoundary(shown, From(c)) =>
                 \/ From(c) \in found
                 \/ \E d \in 1..(n - 1) : d <= c /\ Is(From(c - d))

\* However acts, undos, redos, removed, accepted and rejected cards follow each
\* other: undo leads to the page as it would be without the last act, and redo to
\* the page as it was before the undo, each with every edit made since, those to
\* other bars included.  One thing does not come back: a bar whose id a later act
\* took (the same search entered twice, the same selection again) is replaced by
\* that act's, and undo takes the new one without giving back the old.
UndoRedoRestore ==
  [][/\ Undo => redactions' = Last(past)
     /\ Redo => redactions' = Last(future)]_vars
=============================================================================
