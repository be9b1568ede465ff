-------------------------- MODULE RedactionStudio_proofs --------------------------
(***************************************************************************)
(* Proofs about RedactionStudio for every document and every set of        *)
(* selections, suggestions and acts: what a drag covers, what a burn       *)
(* destroys, where undo and redo lead, and where a word is found.          *)
(***************************************************************************)
EXTENDS RedactionStudio, FiniteSetTheorems, SequenceTheorems,
        WellFoundedInduction, TLAPS

-----------------------------------------------------------------------------
(* Induction over numbers.                                                *)

\* Numbers have a least one, so what holds at 0, and from each number on the next,
\* holds for all.
LEMMA Least ==
  ASSUME NEW S \in SUBSET Nat, S # {}
  PROVE  \E n \in S : \A k \in S : n <= k
<1> DEFINE R == {p \in Nat \X Nat : p[1] < p[2]}
<1>1. IsWellFoundedOn(R, Nat) BY NatLessThanWellFounded, Zenon DEF OpToRel
<1>2. PICK n \in S : \A k \in S : <<k, n>> \notin R
  <2> HIDE DEF R
  <2> QED BY <1>1, WFMin
<1>3. ASSUME NEW k \in S PROVE n <= k
  <2>1. k \in Nat /\ n \in Nat OBVIOUS
  <2>2. ~(k < n) BY <1>2, <2>1
  <2> QED BY <2>1, <2>2
<1> QED BY <1>3

\* A set that has 0, and with each number the next, has them all.
LEMMA Inductive ==
  ASSUME NEW S, 0 \in S, \A n \in Nat : n \in S => n + 1 \in S
  PROVE  \A n \in Nat : n \in S
<1> SUFFICES ASSUME Nat \ S # {} PROVE FALSE OBVIOUS
<1>1. PICK n \in Nat \ S : \A k \in Nat \ S : n <= k BY Least
<1>2. n # 0 /\ n - 1 \in Nat BY <1>1
<1>3. n - 1 \in S BY <1>1, <1>2
<1>4. (n - 1) + 1 \in S BY <1>2, <1>3
<1> QED BY <1>1, <1>4

-----------------------------------------------------------------------------
(* Sequences put together.                                                 *)

\* What FlattenSeq has come to at each of its sequences,
Flattening(u, seqs, m) ==
  u = [i \in 1..m |-> IF i = 1 THEN seqs[i] ELSE u[i - 1] \o seqs[i]]

\* There is such a function: one by one it can be carried on.
LEMMA FlatteningExists ==
  ASSUME NEW seqs, NEW m \in Nat
  PROVE  \E u : Flattening(u, seqs, m)
<1> DEFINE S == {n \in Nat : \E u : Flattening(u, seqs, n)}
<1>1. 0 \in S
  <2>1. PICK u : u = [i \in 1..0 |-> <<>>] OBVIOUS
  <2>2. \A i \in 1..0 : FALSE OBVIOUS
  <2>3. Flattening(u, seqs, 0) BY <2>1, <2>2 DEF Flattening
  <2> QED BY <2>3
<1>2. ASSUME NEW n \in Nat, n \in S PROVE n + 1 \in S
  <2>1. PICK u : Flattening(u, seqs, n) BY <1>2
  <2>2. PICK w : w = IF n + 1 = 1 THEN seqs[n + 1] ELSE u[n] \o seqs[n + 1] OBVIOUS
  <2>3. PICK v : v = [i \in 1..(n + 1) |-> IF i = n + 1 THEN w ELSE u[i]] OBVIOUS
  <2>4. \A i \in 1..n : v[i] = u[i] BY <2>3
  <2>5. \A i \in 1..n : u[i] = IF i = 1 THEN seqs[i] ELSE u[i - 1] \o seqs[i]
    BY <2>1 DEF Flattening
  <2>6. ASSUME NEW i \in 1..(n + 1)
        PROVE  v[i] = IF i = 1 THEN seqs[i] ELSE v[i - 1] \o seqs[i]
    <3>1. CASE i = n + 1
      <4>1. v[i] = w /\ (i # 1 => v[i - 1] = u[n])
        <5>1. i - 1 = n /\ (i # 1 => n \in 1..n) BY <3>1
        <5> QED BY <5>1, <2>3, <2>4, <3>1
      <4> QED BY <4>1, <2>2, <3>1
    <3>2. CASE i # n + 1
      <4>1. i \in 1..n /\ (i # 1 => i - 1 \in 1..n) BY <3>2
      <4>2. v[i] = u[i] /\ (i # 1 => v[i - 1] = u[i - 1]) BY <4>1, <2>4
      <4> QED BY <4>1, <4>2, <2>5
    <3> QED BY <3>1, <3>2
  <2>7. v = [i \in 1..(n + 1) |-> IF i = 1 THEN seqs[i] ELSE v[i - 1] \o seqs[i]]
    BY <2>3, <2>6, Zenon
  <2>8. Flattening(v, seqs, n + 1) BY <2>7 DEF Flattening
  <2> QED BY <2>8
<1>3. \A n \in Nat : n \in S
  <2> HIDE DEF S
  <2> QED BY <1>1, <1>2, Inductive
<1> QED BY <1>3

\* FlattenSeq takes the sequences one after another.
LEMMA FlattenIs ==
  ASSUME NEW S, NEW seqs \in Seq(Seq(S))
  PROVE  \E f \in [0..Len(seqs) -> Seq(S)] :
           /\ f[0] = <<>>
           /\ \A i \in 1..Len(seqs) : f[i] = f[i - 1] \o seqs[i]
           /\ FlattenSeq(seqs) = f[Len(seqs)]
<1>1. PICK m \in Nat : m = Len(seqs) OBVIOUS
<1>2. PICK c : c = CHOOSE u : Flattening(u, seqs, m) OBVIOUS
<1>3. Flattening(c, seqs, m)
  <2>1. \E u : Flattening(u, seqs, m) BY FlatteningExists
  <2> QED BY <2>1, <1>2
<1>4. FlattenSeq(seqs) = IF m = 0 THEN seqs ELSE c[m]
  <2>1. c = CHOOSE u : u = [i \in 1..Len(seqs) |->
                                IF i = 1 THEN seqs[i] ELSE u[i - 1] \o seqs[i]]
    BY <1>1, <1>2, Zenon DEF Flattening
  <2>2. FlattenSeq(seqs) = IF Len(seqs) = 0 THEN seqs ELSE c[Len(seqs)]
    <3>1. FlattenSeq(seqs) =
            IF Len(seqs) = 0 THEN seqs
            ELSE (CHOOSE u : u = [i \in 1..Len(seqs) |->
                                    IF i = 1 THEN seqs[i] ELSE u[i - 1] \o seqs[i]])[Len(seqs)]
      BY Zenon DEF FlattenSeq
    <3> QED BY <2>1, <3>1, Zenon
  <2> QED BY <1>1, <2>2
<1>5. PICK f : f = [i \in 0..m |-> IF i = 0 THEN <<>> ELSE c[i]] OBVIOUS
<1>6. \A i \in 1..m : c[i] = IF i = 1 THEN seqs[i] ELSE c[i - 1] \o seqs[i]
  BY <1>3 DEF Flattening
<1>7. f[0] = <<>> /\ \A i \in 1..m : f[i] = c[i] BY <1>5
<1>8. \A i \in 1..m : seqs[i] \in Seq(S) BY <1>1
<1>9. ASSUME NEW i \in 1..m PROVE f[i] = f[i - 1] \o seqs[i]
  <2>1. CASE i = 1
    <3>1. f[i] = seqs[i] /\ f[i - 1] = <<>> BY <2>1, <1>6, <1>7
    <3>2. <<>> \o seqs[i] = seqs[i] BY <1>8, ConcatEmptySeq
    <3> QED BY <3>1, <3>2
  <2>2. CASE i # 1
    <3>1. i - 1 \in 1..m BY <2>2
    <3> QED BY <3>1, <2>2, <1>6, <1>7
  <2> QED BY <2>1, <2>2
<1>10. \A i \in 0..m : f[i] \in Seq(S)
  <2> DEFINE T == {n \in Nat : n <= m => f[n] \in Seq(S)}
  <2>1. 0 \in T
    <3>1. <<>> \in Seq(S) BY EmptySeq
    <3> QED BY <3>1, <1>7
  <2>2. ASSUME NEW n \in Nat, n \in T PROVE n + 1 \in T
    <3>1. ASSUME n + 1 <= m PROVE f[n + 1] \in Seq(S)
      <4>1. n + 1 \in 1..m /\ (n + 1) - 1 = n /\ n <= m BY <3>1
      <4>2. f[n + 1] = f[n] \o seqs[n + 1] BY <4>1, <1>9
      <4>3. f[n] \in Seq(S) /\ seqs[n + 1] \in Seq(S) BY <2>2, <4>1, <1>8
      <4> QED BY <4>2, <4>3, ConcatProperties
    <3> QED BY <3>1
  <2>3. \A n \in Nat : n \in T
    <3> HIDE DEF T
    <3> QED BY <2>1, <2>2, Inductive
  <2> QED BY <2>3
<1>11. f \in [0..m -> Seq(S)] BY <1>5, <1>10
<1>12. FlattenSeq(seqs) = f[m]
  <2>1. m = 0 => seqs = <<>> BY <1>1, EmptySeq
  <2> QED BY <2>1, <1>4, <1>7
<1> QED BY <1>1, <1>7, <1>9, <1>11, <1>12

\* What two sequences have, one after the other.
LEMMA ConcatSet ==
  ASSUME NEW S, NEW s \in Seq(S), NEW t \in Seq(S)
  PROVE  ToSet(s \o t) = ToSet(s) \cup ToSet(t)
<1>1. /\ Len(s) \in Nat /\ Len(t) \in Nat /\ DOMAIN s = 1..Len(s) /\ DOMAIN t = 1..Len(t)
      /\ DOMAIN (s \o t) = 1..(Len(s) + Len(t))
      /\ \A i \in 1..(Len(s) + Len(t)) :
           (s \o t)[i] = IF i <= Len(s) THEN s[i] ELSE t[i - Len(s)]
  <2>1. s \o t \in Seq(S) /\ Len(s \o t) = Len(s) + Len(t) BY ConcatProperties
  <2> QED BY <2>1, ConcatProperties
<1>2. PICK u : u = s \o t OBVIOUS
<1>3. ASSUME NEW x \in ToSet(u) PROVE x \in ToSet(s) \cup ToSet(t)
  <2>1. PICK i \in 1..(Len(s) + Len(t)) : x = u[i] BY <1>1, <1>2, <1>3 DEF ToSet
  <2>2. CASE i <= Len(s)
    <3>1. i \in DOMAIN s /\ x = s[i] BY <1>1, <1>2, <2>1, <2>2
    <3> QED BY <3>1 DEF ToSet
  <2>3. CASE ~(i <= Len(s))
    <3>1. i - Len(s) \in DOMAIN t /\ x = t[i - Len(s)] BY <1>1, <1>2, <2>1, <2>3
    <3> QED BY <3>1 DEF ToSet
  <2> QED BY <2>2, <2>3
<1>4. ASSUME NEW i \in DOMAIN s PROVE s[i] \in ToSet(u)
  <2>1. i \in DOMAIN u /\ u[i] = s[i] BY <1>1, <1>2
  <2> QED BY <2>1 DEF ToSet
<1>5. ASSUME NEW i \in DOMAIN t PROVE t[i] \in ToSet(u)
  <2>1. i + Len(s) \in 1..(Len(s) + Len(t)) /\ ~(i + Len(s) <= Len(s)) BY <1>1
  <2>2. i + Len(s) \in DOMAIN u /\ u[i + Len(s)] = t[(i + Len(s)) - Len(s)] BY <1>1, <1>2, <2>1
  <2>3. (i + Len(s)) - Len(s) = i BY <1>1
  <2> QED BY <2>2, <2>3 DEF ToSet
<1>6. ToSet(s) \subseteq ToSet(u) /\ ToSet(t) \subseteq ToSet(u)
  BY <1>4, <1>5, Zenon DEF ToSet
<1> QED BY <1>2, <1>3, <1>6

\* FlattenSeq has what its sequences have.
LEMMA FlattenHas ==
  ASSUME NEW S, NEW seqs \in Seq(Seq(S))
  PROVE  /\ FlattenSeq(seqs) \in Seq(S)
         /\ \A x : x \in ToSet(FlattenSeq(seqs))
                   <=> \E i \in 1..Len(seqs) : x \in ToSet(seqs[i])
<1>1. PICK m \in Nat : m = Len(seqs) OBVIOUS
<1>2. PICK f \in [0..m -> Seq(S)] :
        /\ f[0] = <<>>
        /\ \A i \in 1..m : f[i] = f[i - 1] \o seqs[i]
        /\ FlattenSeq(seqs) = f[m]
  BY <1>1, FlattenIs
<1> DEFINE Has(n) == UNION {ToSet(seqs[i]) : i \in 1..n}
           T == {n \in Nat : n <= m => ToSet(f[n]) = Has(n)}
<1>3. 0 \in T
  <2>1. ToSet(<<>>) = {} BY DEF ToSet
  <2>2. Has(0) = {}
    <3>1. \A i \in 1..0 : FALSE OBVIOUS
    <3> QED BY <3>1
  <2> HIDE DEF Has
  <2> QED BY <2>1, <2>2, <1>2
<1>4. ASSUME NEW n \in Nat, n \in T PROVE n + 1 \in T
  <2> SUFFICES ASSUME n + 1 <= m PROVE ToSet(f[n + 1]) = Has(n + 1) OBVIOUS
  <2>1. n + 1 \in 1..m /\ n \in 0..m /\ (n + 1) - 1 = n OBVIOUS
  <2>2. f[n + 1] = f[n] \o seqs[n + 1] BY <1>2, <2>1
  <2>3. PICK s \in Seq(S), t \in Seq(S) : s = f[n] /\ t = seqs[n + 1] BY <1>1, <1>2, <2>1
  <2>4. ToSet(s \o t) = ToSet(s) \cup ToSet(t) BY ConcatSet
  <2>5. ToSet(f[n]) = Has(n) BY <1>4, <2>1
  <2>6. Has(n + 1) = Has(n) \cup ToSet(seqs[n + 1])
    <3>1. \A i : i \in 1..(n + 1) <=> i \in 1..n \/ i = n + 1 OBVIOUS
    <3> QED BY <3>1, Zenon
  <2> HIDE DEF Has
  <2> QED BY <2>2, <2>3, <2>4, <2>5, <2>6
<1>5. m \in T
  <2> HIDE DEF T
  <2> QED BY <1>3, <1>4, Inductive
<1>6. ToSet(f[m]) = Has(m) BY <1>5
<1>7. f[m] \in Seq(S) BY <1>2
<1>8. FlattenSeq(seqs) \in Seq(S) /\ ToSet(FlattenSeq(seqs)) = Has(m)
  <2> HIDE DEF Has
  <2> QED BY <1>2, <1>6, <1>7
<1>9. \A x : x \in Has(m) <=> \E i \in 1..Len(seqs) : x \in ToSet(seqs[i]) BY <1>1
<1> HIDE DEF Has
<1> QED BY <1>8, <1>9

-----------------------------------------------------------------------------
(* Selections.                                                             *)

\* A line has a width.
LEMMA WidthNat == ASSUME NEW line \in Seq(Chars) PROVE Width(line) \in Nat
<1>1. IsFiniteSet(1..Len(line)) /\ Len(line) \in Nat /\ DOMAIN line = 1..Len(line)
  BY FS_Interval
<1>2. IsFiniteSet({i \in DOMAIN line : line[i] \in Wide}) BY <1>1, FS_Subset
<1>3. Cardinality({i \in DOMAIN line : line[i] \in Wide}) \in Nat
  BY <1>2, FS_CardinalityType
<1> QED BY <1>1, <1>3 DEF Width

\* A point is a column of a line, the end of the line included.
LEMMA PointsAre ==
  ASSUME NEW doc \in Text, NEW p \in Points(doc)
  PROVE  /\ p = [line |-> p.line, col |-> p.col]
         /\ p.line \in 1..Len(doc) /\ p.col \in Nat
         /\ Width(doc[p.line]) \in Nat /\ p.col <= Width(doc[p.line])
<1>1. PICK l \in DOMAIN doc : p \in {[line |-> l, col |-> c] : c \in 0..Width(doc[l])}
  BY DEF Points
<1>2. PICK c \in 0..Width(doc[l]) : p = [line |-> l, col |-> c] BY <1>1
<1>3. l \in 1..Len(doc) /\ doc[l] \in Seq(Chars) BY DEF Text
<1>4. Width(doc[l]) \in Nat BY <1>3, WidthNat
<1> QED BY <1>2, <1>3, <1>4

\* The spans of some lines, without the empty ones.
Kept(on, first, last) ==
  FlattenSeq([i \in 1..(last - first + 1) |->
    IF on[first + i - 1].to > on[first + i - 1].from THEN <<on[first + i - 1]>> ELSE <<>>])

\* A column of a line is covered when the span of that line covers it.
LEMMA CoveredOn ==
  ASSUME NEW first \in Int, NEW last \in Int, first - 1 <= last,
         NEW on \in [first..last -> Span], \A l \in first..last : on[l].line = l,
         NEW k, NEW z \in Nat
  PROVE  (\E s \in ToSet(Kept(on, first, last)) : s.line = k /\ s.from <= z /\ z < s.to)
         <=> k \in first..last /\ on[k].from <= z /\ z < on[k].to
<1>1. PICK n \in Nat : n = last - first + 1 OBVIOUS
<1>2. PICK seqs : seqs = [i \in 1..n |->
        IF on[first + i - 1].to > on[first + i - 1].from THEN <<on[first + i - 1]>> ELSE <<>>]
  OBVIOUS
<1>3. /\ \A i \in 1..n : first + i - 1 \in first..last
      /\ \A l \in first..last : l - first + 1 \in 1..n /\ first + (l - first + 1) - 1 = l
  BY <1>1
<1>4. seqs \in Seq(Seq(Span)) /\ Len(seqs) = n
  <2>1. ASSUME NEW i \in 1..n PROVE seqs[i] \in Seq(Span)
    <3>1. on[first + i - 1] \in Span BY <1>3
    <3> QED BY <3>1, <1>2
  <2> QED BY <2>1, <1>2
<1>5. FlattenSeq(seqs) = Kept(on, first, last) BY <1>1, <1>2 DEF Kept
<1>6. \A s : s \in ToSet(Kept(on, first, last)) <=> \E i \in 1..n : s \in ToSet(seqs[i])
  BY <1>4, <1>5, FlattenHas
<1>7. \A s : ToSet(<<s>>) = {s} /\ ToSet(<<>>) = {} BY DEF ToSet
<1>8. \A i \in 1..n : \A s : s \in ToSet(seqs[i]) <=>
        s = on[first + i - 1] /\ on[first + i - 1].to > on[first + i - 1].from
  BY <1>2, <1>7
<1>9. \A s : s \in ToSet(Kept(on, first, last)) <=>
        \E l \in first..last : s = on[l] /\ on[l].to > on[l].from
  <2>1. ASSUME NEW s, NEW l \in first..last, s = on[l], on[l].to > on[l].from
        PROVE  \E i \in 1..n : s \in ToSet(seqs[i])
    <3>1. PICK i \in 1..n : first + i - 1 = l BY <1>3
    <3> QED BY <3>1, <2>1, <1>8
  <2>2. ASSUME NEW s, NEW i \in 1..n, s \in ToSet(seqs[i])
        PROVE  \E l \in first..last : s = on[l] /\ on[l].to > on[l].from
    <3>1. PICK l \in first..last : first + i - 1 = l BY <1>3
    <3> QED BY <3>1, <2>2, <1>8
  <2> QED BY <1>6, <2>1, <2>2, Zenon
<1>10. \A l \in first..last : on[l].from \in Nat /\ on[l].to \in Nat BY DEF Span
<1>11. \A u, v \in Nat : u <= z /\ z < v => v > u OBVIOUS
<1>12. \A l \in first..last : on[l].from <= z /\ z < on[l].to => on[l].to > on[l].from
  BY <1>10, <1>11, Zenon
<1>13. ASSUME NEW s \in ToSet(Kept(on, first, last)), s.line = k, s.from <= z, z < s.to
       PROVE  k \in first..last /\ on[k].from <= z /\ z < on[k].to
  <2>1. PICK l \in first..last : s = on[l] BY <1>9
  <2>2. k = l BY <1>13, <2>1
  <2> QED BY <1>13, <2>1, <2>2
<1>14. ASSUME k \in first..last, on[k].from <= z, z < on[k].to
       PROVE  on[k] \in ToSet(Kept(on, first, last)) /\ on[k].line = k
  BY <1>9, <1>12, <1>14
<1> QED BY <1>13, <1>14

\* The lines of a drag from one point on to another, the points in order, and
\* what it selects.
DragLines(doc, from, to) ==
  [l \in from.line..to.line |->
     [line |-> l,
      from |-> IF l = from.line THEN from.col ELSE 0,
      to   |-> IF l = to.line THEN to.col ELSE Width(doc[l])]]

\* With its ends in order, a drag covers what lies between them.
LEMMA DragCovers ==
  ASSUME NEW doc \in Text, NEW from \in Points(doc), NEW to \in Points(doc),
         Before(from, to), NEW p \in Points(doc), p.col < Width(doc[p.line])
  PROVE  (\E s \in ToSet(Kept(DragLines(doc, from, to), from.line, to.line)) :
             s.line = p.line /\ s.from <= p.col /\ p.col < s.to)
         <=> Before(from, p) /\ Before(p, to) /\ p # to
<1>0. PICK on : on = DragLines(doc, from, to) OBVIOUS
<1>1. PICK a \in 1..Len(doc), b \in 1..Len(doc), k \in 1..Len(doc) :
        from.line = a /\ to.line = b /\ p.line = k
  BY PointsAre
<1>2. PICK x \in Nat, y \in Nat, z \in Nat : from.col = x /\ to.col = y /\ p.col = z
  BY PointsAre
<1>3. /\ a < b \/ (a = b /\ x <= y)
      /\ \A l \in 1..Len(doc) : Width(doc[l]) \in Nat
  <2>1. \A l \in 1..Len(doc) : doc[l] \in Seq(Chars) BY DEF Text
  <2> QED BY <2>1, <1>1, <1>2, WidthNat DEF Before
<1>4. /\ a \in Int /\ b \in Int /\ a - 1 <= b /\ on \in [a..b -> Span]
      /\ \A l \in a..b : /\ on[l].line = l
                         /\ on[l].from = IF l = a THEN x ELSE 0
                         /\ on[l].to = IF l = b THEN y ELSE Width(doc[l])
  <2>1. Len(doc) \in Nat BY DEF Text
  <2>2. \A l \in a..b : l \in 1..Len(doc) BY <2>1
  <2> QED BY <2>1, <2>2, <1>0, <1>1, <1>2, <1>3 DEF Span, DragLines
<1>5. (\E s \in ToSet(Kept(on, a, b)) : s.line = k /\ s.from <= z /\ z < s.to)
      <=> k \in a..b /\ on[k].from <= z /\ z < on[k].to
  <2>1. /\ a \in Int /\ b \in Int /\ a - 1 <= b /\ z \in Nat
        /\ on \in [a..b -> Span] /\ \A l \in a..b : on[l].line = l
    BY <1>4

  <2> QED BY <2>1, CoveredOn
<1>8. p # to <=> ~(k = b /\ z = y)
  <2>1. p = [line |-> k, col |-> z] /\ to = [line |-> b, col |-> y]
    BY <1>1, <1>2, PointsAre
  <2> QED BY <2>1
<1>9. z < Width(doc[k]) BY <1>1, <1>2
<1>10. (k \in a..b /\ on[k].from <= z /\ z < on[k].to) <=>
         /\ a < k \/ (a = k /\ x <= z)
         /\ k < b \/ (k = b /\ z <= y)
         /\ ~(k = b /\ z = y)
  BY <1>1, <1>2, <1>3, <1>4, <1>9
<1>11. (Before(from, p) <=> a < k \/ (a = k /\ x <= z))
       /\ (Before(p, to) <=> k < b \/ (k = b /\ z <= y))
  BY <1>1, <1>2 DEF Before
<1> QED BY <1>0, <1>1, <1>2, <1>5, <1>8, <1>10, <1>11

\* What a drag selects is that of its lines.
LEMMA DragIs ==
  ASSUME NEW doc \in Text, NEW anchor \in Points(doc), NEW focus \in Points(doc),
         NEW from \in Points(doc), NEW to \in Points(doc),
         from = (IF Before(anchor, focus) THEN anchor ELSE focus),
         to = (IF Before(anchor, focus) THEN focus ELSE anchor)
  PROVE  SpansFromDragRect(doc, anchor, focus)
           = Kept(DragLines(doc, from, to), from.line, to.line)
<1>1. PICK a \in Nat, b \in Nat : a = from.line /\ b = to.line
  <2>1. from.line \in 1..Len(doc) /\ to.line \in 1..Len(doc) BY PointsAre
  <2> QED BY <2>1
<1>2. PICK on : on = DragLines(doc, from, to) OBVIOUS
<1> DEFINE On(l) == [line |-> l,
                     from |-> IF l = from.line THEN from.col ELSE 0,
                     to   |-> IF l = to.line THEN to.col ELSE Width(doc[l])]
<1>3. ASSUME NEW i \in 1..(b - a + 1) PROVE on[a + i - 1] = On(a + i - 1)
  <2>1. a + i - 1 \in a..b OBVIOUS
  <2> QED BY <2>1, <1>1, <1>2 DEF DragLines
<1>4. SpansFromDragRect(doc, anchor, focus) =
        FlattenSeq([i \in 1..(b - a + 1) |->
          IF On(a + i - 1).to > On(a + i - 1).from THEN <<On(a + i - 1)>> ELSE <<>>])
  BY <1>1 DEF SpansFromDragRect
<1> HIDE DEF On
<1>5. [i \in 1..(b - a + 1) |->
        IF On(a + i - 1).to > On(a + i - 1).from THEN <<On(a + i - 1)>> ELSE <<>>]
      = [i \in 1..(b - a + 1) |->
          IF on[a + i - 1].to > on[a + i - 1].from THEN <<on[a + i - 1]>> ELSE <<>>]
  BY <1>3
<1>6. Kept(on, a, b) =
        FlattenSeq([i \in 1..(b - a + 1) |->
          IF on[a + i - 1].to > on[a + i - 1].from THEN <<on[a + i - 1]>> ELSE <<>>])
  BY Zenon DEF Kept
<1>7. SpansFromDragRect(doc, anchor, focus) = Kept(on, a, b) BY <1>4, <1>5, <1>6, Zenon
<1>8. Kept(on, a, b) = Kept(DragLines(doc, from, to), from.line, to.line)
  BY <1>1, <1>2, Zenon
<1> QED BY <1>7, <1>8, Zenon

\* Reading order is total, antisymmetric and transitive.
LEMMA BeforeOrders ==
  ASSUME NEW doc \in Text, NEW p \in Points(doc), NEW q \in Points(doc)
  PROVE  /\ Before(p, q) \/ Before(q, p)
         /\ Before(p, q) /\ Before(q, p) => p = q
         /\ \A r \in Points(doc) : Before(p, r) /\ Before(r, q) => Before(p, q)
<1>1. \A r \in Points(doc) :
        r = [line |-> r.line, col |-> r.col] /\ r.line \in Nat /\ r.col \in Nat
  BY PointsAre
<1> QED BY <1>1 DEF Before

\* With its ends either way, it covers what lies between them.
LEMMA DragSelects ==
  ASSUME NEW doc \in Text, NEW anchor \in Points(doc), NEW focus \in Points(doc),
         NEW p \in Points(doc), p.col < Width(doc[p.line])
  PROVE  (\E s \in ToSet(SpansFromDragRect(doc, anchor, focus)) :
             s.line = p.line /\ s.from <= p.col /\ p.col < s.to)
         <=> \/ Before(anchor, p) /\ Before(p, focus) /\ p # focus
             \/ Before(focus, p) /\ Before(p, anchor) /\ p # anchor
<1>1. ASSUME NEW from \in Points(doc), NEW to \in Points(doc), Before(from, to),
             from = (IF Before(anchor, focus) THEN anchor ELSE focus),
             to = (IF Before(anchor, focus) THEN focus ELSE anchor)
      PROVE  (\E s \in ToSet(SpansFromDragRect(doc, anchor, focus)) :
                 s.line = p.line /\ s.from <= p.col /\ p.col < s.to)
             <=> Before(from, p) /\ Before(p, to) /\ p # to
  <2>1. SpansFromDragRect(doc, anchor, focus)
          = Kept(DragLines(doc, from, to), from.line, to.line)
    BY <1>1, DragIs
  <2>2. Before(from, to) BY <1>1
  <2>3. (\E s \in ToSet(Kept(DragLines(doc, from, to), from.line, to.line)) :
            s.line = p.line /\ s.from <= p.col /\ p.col < s.to)
        <=> Before(from, p) /\ Before(p, to) /\ p # to
    BY <2>2, DragCovers
  <2> QED BY <2>1, <2>3, Zenon
<1>2. CASE Before(anchor, focus)
  <2>1. (\E s \in ToSet(SpansFromDragRect(doc, anchor, focus)) :
            s.line = p.line /\ s.from <= p.col /\ p.col < s.to)
        <=> Before(anchor, p) /\ Before(p, focus) /\ p # focus
    BY <1>1, <1>2
  <2>2. ~(Before(focus, p) /\ Before(p, anchor) /\ p # anchor)
    BY <1>2, BeforeOrders
  <2> QED BY <2>1, <2>2
<1>3. CASE ~Before(anchor, focus)
  <2>1. Before(focus, anchor) BY <1>3, BeforeOrders
  <2>2. (\E s \in ToSet(SpansFromDragRect(doc, anchor, focus)) :
            s.line = p.line /\ s.from <= p.col /\ p.col < s.to)
        <=> Before(focus, p) /\ Before(p, anchor) /\ p # anchor
    BY <1>1, <1>3, <2>1
  <2>3. ~(Before(anchor, p) /\ Before(p, focus) /\ p # focus)
    BY <1>3, BeforeOrders
  <2> QED BY <2>2, <2>3
<1> QED BY <1>2, <1>3

\* Every step is an act, is taken back or done again, edits the cards, answers the
\* offer, or is the server's.
LEMMA Steps ==
  ASSUME Next
  PROVE  \/ \E spans, key : AddAct(spans, key)
         \/ Undo \/ Redo
         \/ \E gone, taken \in SUBSET redactions : Edit(gone, taken)
         \/ Decline \/ Finalize \/ Reopen \/ Sync
<1>1. ASSUME NEW anchor, NEW focus, Select(anchor, focus)
      PROVE  \E spans, key : AddAct(spans, key)
  BY <1>1 DEF Select
<1>2. ASSUME NEW p, NEW shift, DoubleClick(p, shift)
      PROVE  \E spans, key : AddAct(spans, key)
  BY <1>2, Zenon DEF DoubleClick
<1>3. RedactWordEverywhere => \E spans, key : AddAct(spans, key)
  BY DEF RedactWordEverywhere
<1>4. ASSUME NEW query, RedactAllMatches(query)
      PROVE  \E spans, key : AddAct(spans, key)
  BY <1>4 DEF RedactAllMatches
<1>5. ASSUME NEW r \in redactions, RemoveCard(r)
      PROVE  \E gone, taken \in SUBSET redactions : Edit(gone, taken)
  <2>1. PICK gone : gone = IF r.group = <<>> THEN {r} ELSE {q \in redactions : q.group = r.group}
    OBVIOUS
  <2>2. gone \in SUBSET redactions /\ {} \in SUBSET redactions BY <2>1
  <2>3. Edit(gone, {}) BY <1>5, <2>1 DEF RemoveCard
  <2> QED BY <2>2, <2>3
<1>6. ASSUME NEW some \in SUBSET (redactions \ Accepted) \ {{}}, Accept(some) \/ Reject(some)
      PROVE  \E gone, taken \in SUBSET redactions : Edit(gone, taken)
  <2>1. some \in SUBSET redactions /\ {} \in SUBSET redactions OBVIOUS
  <2>2. Edit(some, some) \/ Edit(some, {}) BY <1>6 DEF Accept, Reject
  <2> QED BY <2>1, <2>2
<1> QED BY <1>1, <1>2, <1>3, <1>4, <1>5, <1>6, Zenon DEF Next

-----------------------------------------------------------------------------
(* Texts.                                                                  *)

\* The texts are texts.
TextInv ==
  /\ env = [text |-> env.text, later |-> env.later, suggested |-> env.suggested,
            acts |-> env.acts]
  /\ env.later \subseteq Text
  /\ text \in Text /\ shown \in Text

\* It is so at first,
LEMMA TextInit == Init => TextInv
<1> SUFFICES ASSUME Init PROVE TextInv OBVIOUS
<1>1. env \in Environments /\ text = env.text /\ shown = env.text
  BY DEF Init
<1>2. /\ env = [text |-> env.text, later |-> env.later, suggested |-> env.suggested,
                acts |-> env.acts]
      /\ {env.text} \cup env.later \subseteq Text
  BY <1>1, StudioAssumption
<1> QED BY <1>1, <1>2 DEF TextInv

\* a step keeps it,
LEMMA TextStep == TextInv /\ [Next]_vars => TextInv'
<1> SUFFICES ASSUME TextInv, [Next]_vars PROVE TextInv' OBVIOUS
<1>1. CASE UNCHANGED <<text, shown, env>> BY <1>1 DEF TextInv
<1>2. CASE Does
  <2>1. UNCHANGED <<text, shown>> /\ env' = [env EXCEPT !.acts = env.acts - 1]
    BY <1>2 DEF Does
  <2>2. env' = [text |-> env.text, later |-> env.later, suggested |-> env.suggested,
                acts |-> env.acts - 1]
    BY <2>1 DEF TextInv
  <2> QED BY <2>1, <2>2 DEF TextInv
<1>3. CASE Finalize
  <2>1. UNCHANGED <<text, env>> /\ shown' = text BY <1>3 DEF Finalize
  <2> QED BY <2>1 DEF TextInv
<1>4. CASE Sync
  <2>1. /\ UNCHANGED shown /\ text' \in env.later
        /\ env' = [env EXCEPT !.later = env.later \ {text'}]
    BY <1>4 DEF Sync
  <2>2. env' = [text |-> env.text, later |-> env.later \ {text'},
                suggested |-> env.suggested, acts |-> env.acts]
    BY <2>1 DEF TextInv
  <2> QED BY <2>1, <2>2 DEF TextInv
<1>5. CASE UNCHANGED vars BY <1>1, <1>5 DEF vars
<1>6. CASE Next
  <2>1. \A spans, key : AddAct(spans, key) => Does BY DEF AddAct
  <2>2. /\ Undo \/ Redo => Does
        /\ \A gone, taken : Edit(gone, taken) => Does
    BY DEF Undo, Redo, Edit
  <2>3. Decline \/ Reopen => UNCHANGED <<text, shown, env>> BY DEF Decline, Reopen
  <2> QED BY <1>1, <1>2, <1>3, <1>4, <1>6, <2>1, <2>2, <2>3, Steps
<1> QED BY <1>5, <1>6

\* so it is always so.
LEMMA Texts == Spec => []TextInv
BY TextInit, TextStep, PTL DEF Spec

\* SelectionCovered: on every text a page can show, a selection covers what lies
\* between its ends, in whichever direction it was made.
THEOREM SelectionsCover == Spec => []SelectionCovered
<1>1. TextInv => SelectionCovered
  <2> SUFFICES ASSUME shown \in Text,
                      NEW anchor \in Points(shown), NEW focus \in Points(shown),
                      NEW p \in Points(shown), p.col < Width(shown[p.line])
               PROVE  (\E s \in ToSet(SpansFromDragRect(shown, anchor, focus)) :
                          s.line = p.line /\ s.from <= p.col /\ p.col < s.to)
                      <=> \/ Before(anchor, p) /\ Before(p, focus) /\ p # focus
                          \/ Before(focus, p) /\ Before(p, anchor) /\ p # anchor
    BY DEF SelectionCovered, TextInv
  <2> QED BY DragSelects
<1> QED BY <1>1, Texts, PTL

-----------------------------------------------------------------------------
(* Undo and redo.                                                          *)

\* The stacks are sequences.  The community modules' Front and Last on them.
Sequence(s) == s \in Seq(ToSet(s))

\* Append keeps the elements there are, and adds one.
LEMMA SeqAppend ==
  ASSUME NEW s, Sequence(s), NEW e
  PROVE  /\ Sequence(Append(s, e)) /\ Len(s) \in Nat
         /\ Len(Append(s, e)) = Len(s) + 1
         /\ \A i \in 1..Len(s) : Append(s, e)[i] = s[i]
         /\ Append(s, e)[Len(s) + 1] = e
<1>1. PICK S : S = ToSet(s) \cup {e} OBVIOUS
<1>2. /\ s \in Seq(ToSet(s)) /\ Len(s) \in Nat /\ DOMAIN s = 1..Len(s)
      /\ \A i \in 1..Len(s) : s[i] \in S
  BY <1>1 DEF Sequence, ToSet
<1>3. s \in Seq(S) BY <1>2
<1>4. e \in S BY <1>1
<1>5. /\ Append(s, e) \in Seq(S) /\ Len(Append(s, e)) = Len(s) + 1
      /\ DOMAIN Append(s, e) = 1..(Len(s) + 1)
      /\ \A i \in 1..Len(s) : Append(s, e)[i] = s[i]
      /\ Append(s, e)[Len(s) + 1] = e
  BY <1>3, <1>4
<1>6. PICK t : t = Append(s, e) OBVIOUS
<1>7. t \in Seq(S) /\ \A i \in 1..Len(t) : t[i] \in ToSet(t)
  BY <1>5, <1>6 DEF ToSet
<1>8. Sequence(t) BY <1>7 DEF Sequence
<1> QED BY <1>2, <1>5, <1>6, <1>8

\* Front leaves out the last element, which is Last.
LEMMA SeqFront ==
  ASSUME NEW s, Sequence(s), s # <<>>
  PROVE  /\ Sequence(Front(s)) /\ Len(s) \in Nat \ {0}
         /\ Len(Front(s)) = Len(s) - 1
         /\ \A i \in 1..(Len(s) - 1) : Front(s)[i] = s[i]
         /\ Last(s) = s[Len(s)]
<1>1. s \in Seq(ToSet(s)) /\ Len(s) \in Nat \ {0} BY DEF Sequence
<1>2. PICK t : t = Front(s) OBVIOUS
<1>3. /\ Len(t) = Len(s) - 1 /\ t \in Seq(ToSet(s)) /\ DOMAIN t = 1..(Len(s) - 1)
      /\ \A i \in 1..(Len(s) - 1) : t[i] = s[i]
  <2>1. PICK S, n : S = ToSet(s) /\ n = Len(s) OBVIOUS
  <2>2. s \in Seq(S) /\ n \in Nat /\ n - 1 \in 0..n BY <1>1, <2>1
  <2>3. t = SubSeq(s, 1, n - 1) BY <1>2, <2>1 DEF Front
  <2>4. /\ t \in Seq(S) /\ Len(t) = n - 1
        /\ \A i \in 1..(n - 1) : t[i] = s[i]
    BY <2>1, <2>2, <2>3
  <2> QED BY <2>1, <2>4
<1>4. \A i \in 1..Len(t) : t[i] \in ToSet(t) BY <1>3 DEF ToSet
<1>5. Sequence(t) BY <1>3, <1>4 DEF Sequence
<1> QED BY <1>1, <1>2, <1>3, <1>5 DEF Last

\* The empty sequence is one.
LEMMA SeqEmpty == Sequence(<<>>) /\ Len(<<>>) = 0
BY DEF Sequence

\* As long a sequence of other elements is a sequence.
LEMMA SeqMap ==
  ASSUME NEW s, Sequence(s), NEW t, t = [i \in DOMAIN s |-> t[i]]
  PROVE  Sequence(t) /\ Len(t) = Len(s)
<1>1. PICK n \in Nat : n = Len(s) /\ DOMAIN s = 1..n BY DEF Sequence
<1>2. PICK S : S = ToSet(t) OBVIOUS
<1>3. \A i \in 1..n : t[i] \in S BY <1>1, <1>2 DEF ToSet
<1>4. t = [i \in 1..n |-> t[i]] BY <1>1
<1>5. t \in [1..n -> S] BY <1>3, <1>4
<1>6. t \in Seq(S) /\ Len(t) = n BY <1>5
<1> QED BY <1>1, <1>2, <1>6 DEF Sequence

\* What the acts from one on up are made of.
Above(acts, i) == UNION {acts[j] : j \in i..Len(acts)}

\* An act put on top belongs to all of them,
LEMMA AboveGrows ==
  ASSUME NEW acts, Sequence(acts), NEW act
  PROVE  /\ \A i \in 1..Len(acts) :
              Above(Append(acts, act), i) = Above(acts, i) \cup act
         /\ Above(Append(acts, act), Len(acts) + 1) = act
<1>0. PICK a : a = Append(acts, act) OBVIOUS
<1>1. PICK n \in Nat : n = Len(acts) /\ a = Append(acts, act) BY <1>0, SeqAppend
<1>2. Len(a) = n + 1 /\ a[n + 1] = act /\ \A i \in 1..n : a[i] = acts[i]
  BY <1>1, SeqAppend
<1>3. ASSUME NEW i \in 1..n PROVE Above(a, i) = Above(acts, i) \cup act
  <2>1. i..(n + 1) = (i..n) \cup {n + 1} BY <1>1
  <2>2. \A j \in i..n : a[j] = acts[j] BY <1>2
  <2>3. {a[j] : j \in i..(n + 1)} = {acts[j] : j \in i..n} \cup {act}
    BY <1>2, <2>1, <2>2
  <2> QED BY <1>1, <1>2, <2>3 DEF Above
<1>4. (n + 1)..(n + 1) = {n + 1} BY <1>1
<1>5. {a[j] : j \in (n + 1)..(n + 1)} = {act} BY <1>2, <1>4
<1>6. Above(a, n + 1) = act BY <1>2, <1>5 DEF Above
<1> QED BY <1>1, <1>3, <1>6

\* and so the last one did.
LEMMA AboveShrinks ==
  ASSUME NEW acts, Sequence(acts), acts # <<>>
  PROVE  /\ \A i \in 1..(Len(acts) - 1) :
              Above(acts, i) = Above(Front(acts), i) \cup Last(acts)
         /\ Above(acts, Len(acts)) = Last(acts)
<1>0. PICK f, e : f = Front(acts) /\ e = Last(acts) OBVIOUS
<1>1. PICK n \in Nat \ {0} : n = Len(acts) /\ f = Front(acts) /\ e = Last(acts)
  BY <1>0, SeqFront
<1>2. Len(f) = n - 1 /\ e = acts[n] /\ \A i \in 1..(n - 1) : f[i] = acts[i]
  BY <1>1, SeqFront
<1>3. ASSUME NEW i \in 1..(n - 1) PROVE Above(acts, i) = Above(f, i) \cup e
  <2>1. i..n = (i..(n - 1)) \cup {n} BY <1>1
  <2>2. \A j \in i..(n - 1) : f[j] = acts[j] BY <1>2
  <2>3. {acts[j] : j \in i..n} = {f[j] : j \in i..(n - 1)} \cup {e}
    BY <1>2, <2>1, <2>2
  <2> QED BY <1>1, <1>2, <2>3 DEF Above
<1>4. n..n = {n} BY <1>1
<1>5. {acts[j] : j \in n..n} = {e} BY <1>2, <1>4
<1>6. Above(acts, n) = e BY <1>1, <1>5 DEF Above
<1> QED BY <1>1, <1>3, <1>6

\* The page as it would be without an act and those above it is the page without
\* the bars that carry their ids.
PastInv ==
  /\ Sequence(undo) /\ Sequence(past) /\ Len(past) = Len(undo)
  /\ \A i \in 1..Len(past) : past[i] = Without(redactions, Above(undo, i))

\* The page as it was with acts since taken back is the page with their bars; and
\* no two of these, nor one of these and one of the page, carry the same id.
IdsOf(bars)   == {r.id : r \in bars}
Apart(a, b)   == IdsOf(a) \cap IdsOf(b) = {}
FutureInv ==
  /\ Sequence(redo) /\ Sequence(future) /\ Len(future) = Len(redo)
  /\ \A i \in 1..Len(future) : future[i] = redactions \cup Above(redo, i)
  /\ \A i \in 1..Len(redo) : Apart(redo[i], redactions)
  /\ \A i, j \in 1..Len(redo) : i # j => Apart(redo[i], redo[j])

\* An act: the page without it, and without those below it and it.
LEMMA ActKeepsPast ==
  ASSUME PastInv, NEW spans, NEW key, AddAct(spans, key)
  PROVE  PastInv'
<1>1. PICK ids : ids = {<<key, i>> : i \in DOMAIN spans} OBVIOUS
<1>2. PICK new : new = {[id |-> <<key, i>>, span |-> spans[i], status |-> "accepted",
                         group |-> IF Len(spans) > 1 THEN key ELSE <<>>] : i \in DOMAIN spans}
  OBVIOUS
<1>3. PICK rest, cut : /\ rest = Without(redactions, ids)
                       /\ cut = [i \in DOMAIN past |-> Without(past[i], ids)]
  OBVIOUS
<1>4. /\ redactions' = rest \cup new /\ undo' = Append(undo, ids)
      /\ past' = Append(cut, rest)
  BY <1>1, <1>2, <1>3 DEF AddAct
<1>5. \A r \in new : r.id \in ids BY <1>1, <1>2
<1>6. PICK n \in Nat : n = Len(undo) /\ n = Len(past) /\ DOMAIN past = 1..n
  BY DEF PastInv, Sequence
<1>7. /\ Sequence(cut) /\ Len(cut) = n
      /\ \A i \in 1..n : cut[i] = Without(past[i], ids)
  <2>1. cut = [i \in DOMAIN past |-> cut[i]] BY <1>3
  <2>2. Sequence(cut) /\ Len(cut) = Len(past) BY <2>1, SeqMap DEF PastInv
  <2> QED BY <1>3, <1>6, <2>2
<1>8. /\ Sequence(undo') /\ Len(undo') = n + 1
      /\ Sequence(past') /\ Len(past') = n + 1
      /\ \A i \in 1..n : past'[i] = cut[i]
      /\ past'[n + 1] = rest
  BY <1>4, <1>6, <1>7, SeqAppend DEF PastInv
<1>9. ASSUME NEW i \in 1..(n + 1)
      PROVE  past'[i] = Without(redactions', Above(undo', i))
  <2>1. CASE i = n + 1
    <3>1. Above(undo', i) = ids BY <1>4, <1>6, <2>1, AboveGrows DEF PastInv
    <3>2. rest = Without(rest \cup new, ids) BY <1>3, <1>5 DEF Without
    <3> QED BY <1>4, <1>8, <2>1, <3>1, <3>2
  <2>2. CASE i \in 1..n
    <3>1. PICK up : up = Above(undo, i) OBVIOUS
    <3>2. Above(undo', i) = up \cup ids BY <1>4, <1>6, <2>2, <3>1, AboveGrows DEF PastInv
    <3>3. past[i] = Without(redactions, up) BY <1>6, <2>2, <3>1 DEF PastInv
    <3>4. past'[i] = Without(Without(redactions, up), ids) BY <1>7, <1>8, <2>2, <3>3
    <3>5. Without(Without(redactions, up), ids) = Without(rest \cup new, up \cup ids)
      BY <1>3, <1>5 DEF Without
    <3> QED BY <1>4, <3>2, <3>4, <3>5
  <2> QED BY <2>1, <2>2, <1>6
<1> QED BY <1>8, <1>9 DEF PastInv

\* Undo: the page is what was remembered, and there are bars to put back or none.
LEMMA UndoKeeps ==
  ASSUME PastInv, FutureInv, Undo
  PROVE  PastInv' /\ FutureInv' /\ redactions' = Last(past)
<1>1. PICK ids, removed : /\ ids = Last(undo)
                          /\ removed = redactions \ Without(redactions, ids)
  OBVIOUS
<1>2. /\ undo # <<>> /\ undo' = Front(undo) /\ redactions' = Without(redactions, ids)
      /\ redo' = IF removed = {} THEN redo ELSE Append(redo, removed)
      /\ past' = Front(past)
      /\ future' = IF removed = {} THEN future ELSE Append(future, redactions)
  BY <1>1 DEF Undo
<1>3. PICK n \in Nat : n = Len(undo) /\ n = Len(past) BY DEF PastInv, Sequence
<1>4. n # 0 /\ past # <<>> BY <1>2, <1>3, SeqEmpty, SeqFront DEF PastInv
<1>5. /\ Sequence(undo') /\ Len(undo') = n - 1
      /\ Sequence(past') /\ Len(past') = n - 1 /\ Last(past) = past[n]
      /\ \A i \in 1..(n - 1) : past'[i] = past[i]
  BY <1>2, <1>3, <1>4, SeqFront DEF PastInv
<1>6. PastInv'
  <2>1. ASSUME NEW i \in 1..(n - 1)
        PROVE  past'[i] = Without(redactions', Above(undo', i))
    <3>1. PICK up : up = Above(undo', i) OBVIOUS
    <3>2. Above(undo, i) = up \cup ids BY <1>1, <1>2, <1>3, <3>1, AboveShrinks DEF PastInv
    <3>3. i \in 1..n BY <1>3
    <3>4. past[i] = Without(redactions, up \cup ids) BY <1>3, <3>2, <3>3 DEF PastInv
    <3>5. Without(redactions, up \cup ids) = Without(Without(redactions, ids), up)
      BY DEF Without
    <3> QED BY <1>2, <1>5, <3>1, <3>4, <3>5
  <2> QED BY <1>5, <2>1 DEF PastInv
<1>7. redactions' = Last(past)
  <2>1. Above(undo, n) = ids BY <1>1, <1>2, <1>3, AboveShrinks DEF PastInv
  <2>2. n \in 1..n BY <1>4
  <2>3. past[n] = Without(redactions, ids) BY <1>3, <2>1, <2>2 DEF PastInv
  <2> QED BY <1>2, <1>5, <2>3
<1>8. FutureInv'
  <2>1. CASE removed = {}
    <3>1. redactions' = redactions BY <1>1, <1>2, <2>1 DEF Without
    <3>2. redo' = redo /\ future' = future BY <1>2, <2>1
    <3> QED BY <3>1, <3>2 DEF FutureInv
  <2>2. CASE removed # {}
    <3>1. PICK m \in Nat : m = Len(redo) /\ m = Len(future) BY DEF FutureInv, Sequence
    <3>2. redo' = Append(redo, removed) /\ future' = Append(future, redactions)
      BY <1>2, <2>2
    <3>3. /\ Sequence(redo') /\ Len(redo') = m + 1 /\ redo'[m + 1] = removed
          /\ \A i \in 1..m : redo'[i] = redo[i]
      BY <3>1, <3>2, SeqAppend DEF FutureInv
    <3>4. /\ Sequence(future') /\ Len(future') = m + 1 /\ future'[m + 1] = redactions
          /\ \A i \in 1..m : future'[i] = future[i]
      BY <3>1, <3>2, SeqAppend DEF FutureInv
    <3>5. redactions = redactions' \cup removed BY <1>1, <1>2 DEF Without
    <3>6. ASSUME NEW i \in 1..(m + 1) PROVE future'[i] = redactions' \cup Above(redo', i)
      <4>1. CASE i = m + 1
        <5>1. Above(redo', i) = removed BY <3>1, <3>2, <4>1, AboveGrows DEF FutureInv
        <5> QED BY <3>4, <3>5, <4>1, <5>1
      <4>2. CASE i \in 1..m
        <5>1. PICK up : up = Above(redo, i) OBVIOUS
        <5>2. Above(redo', i) = up \cup removed
          BY <3>1, <3>2, <4>2, <5>1, AboveGrows DEF FutureInv
        <5>3. future'[i] = redactions \cup up BY <3>1, <3>4, <4>2, <5>1 DEF FutureInv
        <5> QED BY <3>5, <5>2, <5>3
      <4> QED BY <3>1, <4>1, <4>2
    <3>7. Apart(removed, redactions')
      <4>1. \A q \in removed : q.id \in ids BY <1>1 DEF Without
      <4>2. \A r \in redactions' : r.id \notin ids BY <1>2 DEF Without
      <4> QED BY <4>1, <4>2 DEF Apart, IdsOf
    <3>8. removed \subseteq redactions /\ redactions' \subseteq redactions BY <3>5
    <3>9. \A i \in 1..m : /\ Apart(redo[i], redactions') /\ Apart(redo[i], removed)
                          /\ Apart(removed, redo[i])
      BY <3>1, <3>8 DEF FutureInv, Apart, IdsOf
    <3>10. \A i \in 1..(m + 1) : i = m + 1 \/ i \in 1..m BY <3>1
    <3>11. \A i \in 1..(m + 1) : Apart(redo'[i], redactions')
      BY <3>3, <3>7, <3>9, <3>10
    <3>12. \A i, j \in 1..(m + 1) : i # j => Apart(redo'[i], redo'[j])
      <4> SUFFICES ASSUME NEW i \in 1..(m + 1), NEW j \in 1..(m + 1), i # j
                   PROVE  Apart(redo'[i], redo'[j])
        OBVIOUS
      <4>1. CASE i = m + 1 BY <4>1, <3>3, <3>9, <3>10
      <4>2. CASE j = m + 1 BY <4>2, <3>3, <3>9, <3>10
      <4>3. CASE i \in 1..m /\ j \in 1..m BY <4>3, <3>1, <3>3 DEF FutureInv
      <4> QED BY <4>1, <4>2, <4>3, <3>10
    <3> QED BY <3>3, <3>4, <3>6, <3>11, <3>12 DEF FutureInv
  <2> QED BY <2>1, <2>2
<1> QED BY <1>6, <1>7, <1>8

\* Redo: nothing on the page carries the ids of what is put back.
LEMMA RedoKeeps ==
  ASSUME PastInv, FutureInv, Redo
  PROVE  PastInv' /\ FutureInv' /\ redactions' = Last(future)
<1>1. PICK act, ids : act = Last(redo) /\ ids = {r.id : r \in act} OBVIOUS
<1>2. /\ redo # <<>> /\ redo' = Front(redo) /\ undo' = Append(undo, ids)
      /\ redactions' = Without(redactions, ids) \cup act
      /\ past' = Append(past, redactions)
      /\ future' = Front(future)
  BY <1>1 DEF Redo
<1>3. PICK m \in Nat : m = Len(redo) /\ m = Len(future) BY DEF FutureInv, Sequence
<1>4. m # 0 /\ future # <<>> BY <1>2, <1>3, SeqEmpty, SeqFront DEF FutureInv
<1>5. /\ Sequence(redo') /\ Len(redo') = m - 1 /\ act = redo[m]
      /\ \A i \in 1..(m - 1) : redo'[i] = redo[i]
  BY <1>1, <1>2, <1>3, SeqFront DEF FutureInv
<1>6. /\ Sequence(future') /\ Len(future') = m - 1 /\ Last(future) = future[m]
      /\ \A i \in 1..(m - 1) : future'[i] = future[i]
  BY <1>2, <1>3, <1>4, SeqFront DEF FutureInv
<1>7. m \in 1..m /\ \A i \in 1..(m - 1) : i \in 1..m /\ i # m BY <1>4
<1>8. Apart(act, redactions) /\ \A i \in 1..(m - 1) : Apart(redo[i], act)
  BY <1>3, <1>5, <1>7 DEF FutureInv
<1>9. \A r \in redactions : r.id \notin ids BY <1>1, <1>8 DEF Apart, IdsOf
<1>10. redactions' = redactions \cup act BY <1>2, <1>9 DEF Without
<1>11. redactions' = Last(future)
  <2>1. Above(redo, m) = act BY <1>1, <1>2, <1>3, AboveShrinks DEF FutureInv
  <2> QED BY <1>3, <1>6, <1>7, <1>10, <2>1 DEF FutureInv
<1>12. PastInv'
  <2>1. PICK n \in Nat : n = Len(undo) /\ n = Len(past) BY DEF PastInv, Sequence
  <2>2. /\ Sequence(undo') /\ Len(undo') = n + 1
        /\ Sequence(past') /\ Len(past') = n + 1 /\ past'[n + 1] = redactions
        /\ \A i \in 1..n : past'[i] = past[i]
    BY <1>2, <2>1, SeqAppend DEF PastInv
  <2>3. \A r \in act : r.id \in ids BY <1>1
  <2>4. ASSUME NEW i \in 1..(n + 1)
        PROVE  past'[i] = Without(redactions', Above(undo', i))
    <3>1. CASE i = n + 1
      <4>1. Above(undo', i) = ids BY <1>2, <2>1, <3>1, AboveGrows DEF PastInv
      <4>2. redactions = Without(redactions \cup act, ids) BY <1>9, <2>3 DEF Without
      <4> QED BY <1>10, <2>2, <3>1, <4>1, <4>2
    <3>2. CASE i \in 1..n
      <4>1. PICK up : up = Above(undo, i) OBVIOUS
      <4>2. Above(undo', i) = up \cup ids BY <1>2, <2>1, <3>2, <4>1, AboveGrows DEF PastInv
      <4>3. past'[i] = Without(redactions, up) BY <2>1, <2>2, <3>2, <4>1 DEF PastInv
      <4>4. Without(redactions, up) = Without(redactions \cup act, up \cup ids)
        BY <1>9, <2>3 DEF Without
      <4> QED BY <1>10, <4>2, <4>3, <4>4
    <3> QED BY <2>1, <3>1, <3>2
  <2> QED BY <2>2, <2>4 DEF PastInv
<1>13. FutureInv'
  <2>1. ASSUME NEW i \in 1..(m - 1) PROVE future'[i] = redactions' \cup Above(redo', i)
    <3>1. PICK up : up = Above(redo', i) OBVIOUS
    <3>2. Above(redo, i) = up \cup act BY <1>1, <1>2, <1>3, <3>1, AboveShrinks DEF FutureInv
    <3>3. future[i] = redactions \cup (up \cup act) BY <1>3, <1>7, <3>2 DEF FutureInv
    <3> QED BY <1>6, <1>10, <3>1, <3>3
  <2>2. \A i \in 1..(m - 1) : Apart(redo'[i], redactions')
    <3>1. \A i \in 1..(m - 1) : Apart(redo[i], redactions) BY <1>3, <1>7 DEF FutureInv
    <3>2. \A a : Apart(a, redactions) /\ Apart(a, act) => Apart(a, redactions \cup act)
      BY DEF Apart, IdsOf
    <3>3. \A i \in 1..(m - 1) : Apart(redo[i], redactions \cup act) BY <1>8, <3>1, <3>2
    <3> QED BY <1>5, <1>10, <3>3
  <2>3. \A i, j \in 1..(m - 1) : i # j => Apart(redo'[i], redo'[j])
    BY <1>3, <1>5, <1>7 DEF FutureInv
  <2> QED BY <1>5, <1>6, <2>1, <2>2, <2>3 DEF FutureInv
<1> QED BY <1>11, <1>12, <1>13

\* Cards: what goes or is accepted on the page, goes or is accepted in what is
\* remembered, and nothing changes its id.
LEMMA EditKeeps ==
  ASSUME PastInv, FutureInv, NEW gone \in SUBSET redactions, NEW taken \in SUBSET redactions,
         Edit(gone, taken)
  PROVE  PastInv' /\ FutureInv'
<1>1. PICK back, on : /\ back = [i \in DOMAIN past |-> Edited(past[i], gone, taken)]
                      /\ on = [i \in DOMAIN future |-> Edited(future[i], gone, taken)]
  OBVIOUS
<1>2. /\ redactions' = Edited(redactions, gone, taken)
      /\ past' = back /\ future' = on /\ undo' = undo /\ redo' = redo
  BY <1>1 DEF Edit
<1>3. \A bars, up : Without(Edited(bars, gone, taken), up) = Edited(Without(bars, up), gone, taken)
  <2> DEFINE Taken(q) == [id |-> q.id, span |-> q.span, group |-> q.group,
                          status |-> "accepted"]
  <2>1. \A q : Taken(q).id = q.id OBVIOUS
  <2>2. \A bars : Edited(bars, gone, taken) = (bars \ gone) \cup {Taken(q) : q \in bars \cap taken}
    BY DEF Edited
  <2> HIDE DEF Taken
  <2>3. ASSUME NEW bars, NEW up
        PROVE  Without(Edited(bars, gone, taken), up) = Edited(Without(bars, up), gone, taken)
    <3>1. {r \in {Taken(q) : q \in bars \cap taken} : r.id \notin up}
          = {Taken(q) : q \in Without(bars, up) \cap taken}
      BY <2>1 DEF Without
    <3>2. {r \in bars \ gone : r.id \notin up} = Without(bars, up) \ gone BY DEF Without
    <3> QED BY <2>2, <3>1, <3>2 DEF Without
  <2> QED BY <2>3
<1>4. IdsOf(Edited(redactions, gone, taken)) \subseteq IdsOf(redactions)
  <2>1. \A q : [id |-> q.id, span |-> q.span, group |-> q.group,
                status |-> "accepted"].id = q.id
    OBVIOUS
  <2> QED BY <2>1 DEF IdsOf, Edited
<1>5. PastInv'
  <2>1. PICK n \in Nat : n = Len(undo) /\ n = Len(past) /\ DOMAIN past = 1..n
    BY DEF PastInv, Sequence
  <2>2. Sequence(back) /\ Len(back) = n
    <3>1. back = [i \in DOMAIN past |-> back[i]] BY <1>1
    <3> QED BY <2>1, <3>1, SeqMap DEF PastInv
  <2>3. ASSUME NEW i \in 1..n
        PROVE  back[i] = Without(Edited(redactions, gone, taken), Above(undo, i))
    <3>1. back[i] = Edited(past[i], gone, taken) BY <1>1, <2>1
    <3>2. past[i] = Without(redactions, Above(undo, i)) BY <2>1 DEF PastInv
    <3> QED BY <1>3, <3>1, <3>2
  <2> QED BY <1>2, <2>1, <2>2, <2>3 DEF PastInv
<1>6. FutureInv'
  <2>1. PICK m \in Nat : m = Len(redo) /\ m = Len(future) /\ DOMAIN future = 1..m
    BY DEF FutureInv, Sequence
  <2>2. Sequence(on) /\ Len(on) = m
    <3>1. on = [i \in DOMAIN future |-> on[i]] BY <1>1
    <3> QED BY <2>1, <3>1, SeqMap DEF FutureInv
  <2>3. ASSUME NEW i \in 1..m
        PROVE  on[i] = Edited(redactions, gone, taken) \cup Above(redo, i)
    <3>1. PICK up : up = Above(redo, i) OBVIOUS
    <3>2. on[i] = Edited(redactions \cup up, gone, taken)
      BY <1>1, <2>1, <3>1 DEF FutureInv
    <3>3. up \cap redactions = {}
      <4>1. \A j \in 1..m : redo[j] \cap redactions = {}
        BY <2>1 DEF FutureInv, Apart, IdsOf
      <4>2. \A j \in i..m : j \in 1..m BY <2>1
      <4> QED BY <2>1, <3>1, <4>1, <4>2 DEF Above
    <3>4. /\ (redactions \cup up) \ gone = (redactions \ gone) \cup up
          /\ (redactions \cup up) \cap taken = redactions \cap taken
      BY <3>3
    <3> QED BY <3>1, <3>2, <3>4 DEF Edited
  <2>4. \A i \in 1..m : Apart(redo[i], Edited(redactions, gone, taken))
    BY <1>4, <2>1 DEF FutureInv, Apart
  <2> QED BY <1>2, <2>1, <2>2, <2>3, <2>4 DEF FutureInv
<1> QED BY <1>5, <1>6

\* Where nothing is stacked nothing is remembered.
LEMMA EmptyStacks ==
  /\ undo' = <<>> /\ past' = <<>> => PastInv'
  /\ redo' = <<>> /\ future' = <<>> => FutureInv'
<1>1. \A i \in 1..0 : FALSE OBVIOUS
<1> QED BY <1>1, SeqEmpty DEF PastInv, FutureInv

\* Every step keeps what is remembered in accord with the stacks.
LEMMA UndoStep == PastInv /\ FutureInv /\ [Next]_vars => PastInv' /\ FutureInv'
<1> SUFFICES ASSUME PastInv, FutureInv, [Next]_vars PROVE PastInv' /\ FutureInv' OBVIOUS
<1>1. CASE UNCHANGED <<redactions, past, undo, future, redo>>
  BY <1>1 DEF PastInv, FutureInv
<1>2. ASSUME NEW spans, NEW key, AddAct(spans, key) PROVE PastInv' /\ FutureInv'
  <2>1. redo' = <<>> /\ future' = <<>> BY <1>2 DEF AddAct
  <2> QED BY <1>2, <2>1, ActKeepsPast, EmptyStacks
<1>3. CASE Undo BY <1>3, UndoKeeps
<1>4. CASE Redo BY <1>4, RedoKeeps
<1>5. ASSUME NEW gone \in SUBSET redactions, NEW taken \in SUBSET redactions, Edit(gone, taken)
      PROVE  PastInv' /\ FutureInv'
  BY <1>5, EditKeeps
<1>6. CASE Decline \/ Reopen \/ Sync BY <1>1, <1>6 DEF Decline, Reopen, Sync, history
<1>7. CASE Finalize
  <2>1. CASE artifact = NoArtifact BY <1>7, <2>1, EmptyStacks DEF Finalize
  <2>2. CASE artifact # NoArtifact BY <1>1, <1>7, <2>2 DEF Finalize, history
  <2> QED BY <2>1, <2>2
<1>8. CASE UNCHANGED vars BY <1>1, <1>8 DEF vars, history
<1> QED BY <1>2, <1>3, <1>4, <1>5, <1>6, <1>7, <1>8, Steps

\* UndoRedoRestore: after any steps on any text, undo leads to the page as it would
\* be without the last act, and redo to the page as it was before the undo, each
\* with every edit made since, but for bars whose ids a later act took.
THEOREM UndoRestores == Spec => UndoRedoRestore
<1>1. Init => PastInv /\ FutureInv
  <2>1. ASSUME Init PROVE PastInv /\ FutureInv
    <3>1. past = <<>> /\ future = <<>> /\ undo = <<>> /\ redo = <<>> BY <2>1 DEF Init
    <3>2. \A i \in 1..0 : FALSE OBVIOUS
    <3> QED BY <3>1, <3>2, SeqEmpty DEF PastInv, FutureInv
  <2> QED BY <2>1
<1>2. PastInv /\ FutureInv => [/\ Undo => redactions' = Last(past)
                               /\ Redo => redactions' = Last(future)]_vars
  BY UndoKeeps, RedoKeeps
<1> QED BY <1>1, <1>2, UndoStep, PTL DEF Spec, UndoRedoRestore

-----------------------------------------------------------------------------
(* Units.                                                                  *)

\* A text of units in which no character is cut in two.
Unit == Chars \X {1, 2}
Formed(v) ==
  /\ v \in Seq(Unit)
  /\ \A i \in 1..Len(v) : v[i][2] = 2 =>
       v[i][1] \in Wide /\ i > 1 /\ v[i - 1] = <<v[i][1], 1>>
  /\ \A i \in 1..Len(v) : v[i][2] = 1 /\ v[i][1] \in Wide =>
       i < Len(v) /\ v[i + 1] = <<v[i][1], 2>>

\* One such text after another is one,
LEMMA FormedConcat ==
  ASSUME NEW s, NEW t, Formed(s), Formed(t)
  PROVE  Formed(s \o t)
<1>1. /\ s \in Seq(Unit) /\ t \in Seq(Unit) /\ Len(s) \in Nat /\ Len(t) \in Nat
      /\ s \o t \in Seq(Unit) /\ Len(s \o t) = Len(s) + Len(t)
      /\ \A i \in 1..(Len(s) + Len(t)) :
           (s \o t)[i] = IF i <= Len(s) THEN s[i] ELSE t[i - Len(s)]
  <2>1. s \in Seq(Unit) /\ t \in Seq(Unit) BY DEF Formed
  <2> QED BY <2>1, ConcatProperties
<1>2. PICK u : u = s \o t OBVIOUS
<1>3. PICK a \in Nat, b \in Nat : a = Len(s) /\ b = Len(t) BY <1>1
<1>4. /\ \A i \in 1..a : u[i] = s[i]
      /\ \A i \in 1..b : u[a + i] = t[i]
  <2>1. ASSUME NEW i \in 1..a PROVE u[i] = s[i] BY <1>1, <1>2, <1>3
  <2>2. ASSUME NEW i \in 1..b PROVE u[a + i] = t[i]
    <3>1. a + i \in 1..(a + b) /\ ~(a + i <= a) /\ (a + i) - a = i OBVIOUS
    <3> QED BY <3>1, <1>1, <1>2, <1>3
  <2> QED BY <2>1, <2>2
<1>5. \A i \in 1..(a + b) : i \in 1..a \/ \E j \in 1..b : i = a + j
  <2>1. ASSUME NEW i \in 1..(a + b), ~(i \in 1..a) PROVE \E j \in 1..b : i = a + j
    <3>1. i - a \in 1..b /\ i = a + (i - a) BY <2>1
    <3> QED BY <3>1
  <2> QED BY <2>1
<1>6. ASSUME NEW i \in 1..(a + b), u[i][2] = 2
      PROVE  u[i][1] \in Wide /\ i > 1 /\ u[i - 1] = <<u[i][1], 1>>
  <2>1. CASE i \in 1..a
    <3>1. s[i][1] \in Wide /\ i > 1 /\ s[i - 1] = <<s[i][1], 1>>
      BY <1>3, <1>4, <1>6, <2>1 DEF Formed
    <3>2. i - 1 \in 1..a BY <2>1, <3>1
    <3> QED BY <3>1, <3>2, <2>1, <1>4
  <2>2. CASE \E j \in 1..b : i = a + j
    <3>1. PICK j \in 1..b : i = a + j BY <2>2
    <3>2. u[i] = t[j] BY <3>1, <1>4
    <3>3. t[j][1] \in Wide /\ j > 1 /\ t[j - 1] = <<t[j][1], 1>>
      BY <1>3, <1>6, <3>2 DEF Formed
    <3>4. j - 1 \in 1..b /\ a + (j - 1) = i - 1 /\ i > 1 BY <3>1, <3>3
    <3>5. u[i - 1] = t[j - 1] BY <3>4, <1>4
    <3> QED BY <3>2, <3>3, <3>4, <3>5
  <2> QED BY <2>1, <2>2, <1>5
<1>7. ASSUME NEW i \in 1..(a + b), u[i][2] = 1, u[i][1] \in Wide
      PROVE  i < a + b /\ u[i + 1] = <<u[i][1], 2>>
  <2>1. CASE i \in 1..a
    <3>1. i < a /\ s[i + 1] = <<s[i][1], 2>>
      BY <1>3, <1>4, <1>7, <2>1 DEF Formed
    <3>2. i + 1 \in 1..a /\ i < a + b BY <2>1, <3>1
    <3> QED BY <3>1, <3>2, <2>1, <1>4
  <2>2. CASE \E j \in 1..b : i = a + j
    <3>1. PICK j \in 1..b : i = a + j BY <2>2
    <3>2. u[i] = t[j] BY <3>1, <1>4
    <3>3. j < b /\ t[j + 1] = <<t[j][1], 2>>
      BY <1>3, <1>7, <3>2 DEF Formed
    <3>4. j + 1 \in 1..b /\ a + (j + 1) = i + 1 /\ i < a + b BY <3>1, <3>3
    <3>5. u[i + 1] = t[j + 1] BY <3>4, <1>4
    <3> QED BY <3>2, <3>3, <3>4, <3>5
  <2> QED BY <2>1, <2>2, <1>5
<1>8. u \in Seq(Unit) /\ Len(u) = a + b BY <1>1, <1>2, <1>3
<1>9. Formed(u) BY <1>6, <1>7, <1>8 DEF Formed
<1> QED BY <1>2, <1>9

\* and so are many.
LEMMA FormedFlatten ==
  ASSUME NEW seqs \in Seq(Seq(Unit)), \A i \in 1..Len(seqs) : Formed(seqs[i])
  PROVE  Formed(FlattenSeq(seqs))
<1>1. PICK m \in Nat : m = Len(seqs) OBVIOUS
<1>2. PICK f \in [0..m -> Seq(Unit)] :
        /\ f[0] = <<>>
        /\ \A i \in 1..m : f[i] = f[i - 1] \o seqs[i]
        /\ FlattenSeq(seqs) = f[m]
  BY <1>1, FlattenIs
<1> DEFINE T == {n \in Nat : n <= m => Formed(f[n])}
<1>3. 0 \in T
  <2>1. <<>> \in Seq(Unit) /\ Len(<<>>) = 0 BY EmptySeq
  <2>2. \A i \in 1..0 : FALSE OBVIOUS
  <2>3. Formed(<<>>) BY <2>1, <2>2 DEF Formed
  <2> QED BY <2>3, <1>2
<1>4. ASSUME NEW n \in Nat, n \in T PROVE n + 1 \in T
  <2> SUFFICES ASSUME n + 1 <= m PROVE Formed(f[n + 1]) OBVIOUS
  <2>1. n + 1 \in 1..m /\ n <= m /\ (n + 1) - 1 = n OBVIOUS
  <2>2. f[n + 1] = f[n] \o seqs[n + 1] BY <1>2, <2>1
  <2>3. Formed(f[n]) /\ Formed(seqs[n + 1]) BY <1>1, <1>4, <2>1
  <2> QED BY <2>2, <2>3, FormedConcat
<1>5. m \in T
  <2> HIDE DEF T
  <2> QED BY <1>3, <1>4, Inductive
<1> QED BY <1>2, <1>5

\* The units of one character.
UnitsOf(c) == [k \in 1..(IF c \in Wide THEN 2 ELSE 1) |-> <<c, k>>]

\* They are one, or two.
LEMMA UnitsOfIs ==
  ASSUME NEW c \in Chars
  PROVE  /\ Formed(UnitsOf(c)) /\ UnitsOf(c) \in Seq(Unit)
         /\ Len(UnitsOf(c)) = IF c \in Wide THEN 2 ELSE 1
         /\ \A k \in 1..(IF c \in Wide THEN 2 ELSE 1) : UnitsOf(c)[k] = <<c, k>>
<1>1. PICK w \in {1, 2} : w = IF c \in Wide THEN 2 ELSE 1 OBVIOUS
<1>2. PICK v : v = UnitsOf(c) OBVIOUS
<1>3. v = [k \in 1..w |-> <<c, k>>] BY <1>1, <1>2 DEF UnitsOf
<1>4. \A k \in 1..w : v[k] = <<c, k>> /\ <<c, k>> \in Unit BY <1>3 DEF Unit
<1>5. v \in Seq(Unit) /\ Len(v) = w BY <1>3, <1>4
<1>6. ASSUME NEW i \in 1..w, v[i][2] = 2
      PROVE  v[i][1] \in Wide /\ i > 1 /\ v[i - 1] = <<v[i][1], 1>>
  <2>0. v[i] = <<c, i>> BY <1>4
  <2>1. i = 2 /\ w = 2 /\ v[i][1] = c BY <1>1, <1>6, <2>0
  <2>2. 1 \in 1..w /\ i - 1 = 1 BY <2>1
  <2> QED BY <2>1, <2>2, <1>1, <1>4
<1>7. ASSUME NEW i \in 1..w, v[i][2] = 1, v[i][1] \in Wide
      PROVE  i < w /\ v[i + 1] = <<v[i][1], 2>>
  <2>0. v[i] = <<c, i>> BY <1>4
  <2>1. i = 1 /\ v[i][1] = c BY <1>7, <2>0
  <2>2. w = 2 BY <1>1, <1>7, <2>1
  <2>3. 2 \in 1..w /\ i + 1 = 2 BY <2>1, <2>2
  <2> QED BY <2>1, <2>2, <2>3, <1>4
<1>8. Formed(v) BY <1>5, <1>6, <1>7 DEF Formed
<1> QED BY <1>1, <1>2, <1>4, <1>5, <1>8

\* A line has its characters' units, and as many as it is wide.
LEMMA UnitsAre ==
  ASSUME NEW line \in Seq(Chars)
  PROVE  /\ Formed(Units(line)) /\ Units(line) \in Seq(Unit)
         /\ Len(Units(line)) = Width(line)
         /\ \A i \in 1..Len(Units(line)) : Units(line)[i][1] \in ToSet(line)
<1>1. PICK m \in Nat : m = Len(line) OBVIOUS
<1>2. PICK seqs : seqs = [i \in 1..m |-> UnitsOf(line[i])] OBVIOUS
<1>3. \A i \in 1..m : line[i] \in Chars /\ line[i] \in ToSet(line) BY <1>1 DEF ToSet
<1>4. seqs \in Seq(Seq(Unit)) /\ Len(seqs) = m /\ \A i \in 1..m : Formed(seqs[i])
  <2>1. \A i \in 1..m : Formed(seqs[i]) /\ seqs[i] \in Seq(Unit) BY <1>2, <1>3, UnitsOfIs
  <2> QED BY <1>1, <1>2, <2>1
<1>5. Units(line) = FlattenSeq(seqs)
  <2>1. DOMAIN line = 1..m BY <1>1
  <2> QED BY <2>1, <1>2 DEF Units, UnitsOf
<1>6. Formed(Units(line)) BY <1>4, <1>5, FormedFlatten
<1>7. Units(line) \in Seq(Unit) BY <1>6 DEF Formed
<1>8. PICK f \in [0..m -> Seq(Unit)] :
        /\ f[0] = <<>>
        /\ \A i \in 1..m : f[i] = f[i - 1] \o seqs[i]
        /\ FlattenSeq(seqs) = f[m]
  BY <1>4, FlattenIs
<1>9. Len(Units(line)) = Width(line)
  <2> DEFINE W(n) == {i \in 1..n : line[i] \in Wide}
             T == {n \in Nat : n <= m => Len(f[n]) = n + Cardinality(W(n))}
  <2>1. \A n \in Nat : IsFiniteSet(W(n)) /\ Cardinality(W(n)) \in Nat
    <3>1. ASSUME NEW n \in Nat PROVE IsFiniteSet(W(n)) /\ Cardinality(W(n)) \in Nat
      <4>1. IsFiniteSet(1..n) BY FS_Interval
      <4>2. W(n) \subseteq 1..n OBVIOUS
      <4> HIDE DEF W
      <4> QED BY <4>1, <4>2, FS_Subset, FS_CardinalityType
    <3> HIDE DEF W
    <3> QED BY <3>1
  <2>2. 0 \in T
    <3>1. W(0) = {}
      <4>1. \A i \in 1..0 : FALSE OBVIOUS
      <4> QED BY <4>1
    <3>2. Cardinality({}) = 0 BY FS_EmptySet
    <3>3. Len(f[0]) = 0 BY <1>8
    <3> HIDE DEF W
    <3>4. Cardinality(W(0)) = 0 BY <3>1, <3>2, Zenon
    <3>5. Len(f[0]) = 0 + Cardinality(W(0)) BY <3>3, <3>4
    <3> QED BY <3>5
  <2>3. ASSUME NEW n \in Nat, n \in T PROVE n + 1 \in T
    <3> SUFFICES ASSUME n + 1 <= m
                 PROVE  Len(f[n + 1]) = (n + 1) + Cardinality(W(n + 1))
      OBVIOUS
    <3>1. n + 1 \in 1..m /\ n <= m /\ (n + 1) - 1 = n /\ n \in 0..m OBVIOUS
    <3>2. PICK s \in Seq(Unit), t \in Seq(Unit) : s = f[n] /\ t = seqs[n + 1]
      <4>1. f[n] \in Seq(Unit) BY <1>8, <3>1
      <4>2. seqs[n + 1] \in Seq(Unit) BY <1>4, <3>1
      <4> QED BY <4>1, <4>2
    <3>3. f[n + 1] = s \o t BY <1>8, <3>1, <3>2
    <3>4. Len(s \o t) = Len(s) + Len(t) BY ConcatProperties
    <3>5. Len(s) = n + Cardinality(W(n)) BY <2>3, <3>1, <3>2
    <3>6. Len(t) = IF line[n + 1] \in Wide THEN 2 ELSE 1
      BY <1>2, <1>3, <3>1, <3>2, UnitsOfIs
    <3>7. Cardinality(W(n + 1)) =
            IF line[n + 1] \in Wide THEN Cardinality(W(n)) + 1 ELSE Cardinality(W(n))
      <4>1. \A i : i \in 1..(n + 1) <=> i \in 1..n \/ i = n + 1 OBVIOUS
      <4>2. CASE line[n + 1] \in Wide
        <5>1. W(n + 1) = W(n) \cup {n + 1} BY <4>1, <4>2
        <5>2. n + 1 \notin W(n) OBVIOUS
        <5> HIDE DEF W
        <5>3. Cardinality(W(n) \cup {n + 1}) = Cardinality(W(n)) + 1
          BY <2>1, <5>2, FS_AddElement
        <5> QED BY <4>2, <5>1, <5>3
      <4>3. CASE line[n + 1] \notin Wide
        <5>1. W(n + 1) = W(n) BY <4>1, <4>3
        <5> HIDE DEF W
        <5> QED BY <4>3, <5>1
      <4> QED BY <4>2, <4>3
    <3>8. PICK a \in Nat : a = Cardinality(W(n)) BY <2>1
    <3> HIDE DEF W
    <3>9. Len(f[n + 1]) = Len(s) + Len(t) BY <3>3, <3>4
    <3>10. Len(s) = n + a /\ Cardinality(W(n + 1)) = IF line[n + 1] \in Wide THEN a + 1 ELSE a
      BY <3>5, <3>7, <3>8
    <3>11. PICK w \in {0, 1} : w = IF line[n + 1] \in Wide THEN 1 ELSE 0 OBVIOUS
    <3>12. Len(t) = 1 + w /\ Cardinality(W(n + 1)) = a + w BY <3>6, <3>10, <3>11
    <3>13. Len(f[n + 1]) = (n + a) + (1 + w) BY <3>9, <3>10, <3>12
    <3>14. (n + a) + (1 + w) = (n + 1) + (a + w)
      <4>1. n \in Int /\ a \in Int /\ w \in Int BY <2>3, <3>8, <3>11
      <4> QED BY <4>1
    <3> QED BY <3>12, <3>13, <3>14
  <2>4. m \in T
    <3> HIDE DEF T
    <3> QED BY <2>2, <2>3, Inductive
  <2>5. Len(f[m]) = m + Cardinality(W(m)) BY <2>4
  <2>6. Width(line) = m + Cardinality(W(m)) BY <1>1 DEF Width
  <2> HIDE DEF W
  <2> QED BY <1>5, <1>8, <2>5, <2>6
<1>10. ASSUME NEW i \in 1..Len(Units(line)) PROVE Units(line)[i][1] \in ToSet(line)
  <2>1. PICK u \in Seq(Unit) : u = Units(line) BY <1>7
  <2>2. u[i] \in ToSet(u) BY <2>1 DEF ToSet
  <2>3. PICK j \in 1..m : u[i] \in ToSet(seqs[j]) BY <2>1, <2>2, <1>4, <1>5, FlattenHas
  <2>4. PICK k \in DOMAIN seqs[j] : u[i] = seqs[j][k] BY <2>3 DEF ToSet
  <2>5. seqs[j] = UnitsOf(line[j]) BY <1>2
  <2>6. u[i] = <<line[j], k>> BY <2>4, <2>5 DEF UnitsOf
  <2> QED BY <2>1, <2>6, <1>3
<1> QED BY <1>6, <1>7, <1>9, <1>10

\* The width of one character.
LEMMA WidthOne ==
  ASSUME NEW c \in Chars
  PROVE  Width(<<c>>) = IF c \in Wide THEN 2 ELSE 1
<1>1. /\ <<c>> \in Seq(Chars) /\ Len(<<c>>) = 1 /\ DOMAIN <<c>> = 1..1 /\ <<c>>[1] = c
      /\ \A i : i \in 1..1 <=> i = 1
  OBVIOUS
<1>2. Cardinality({1}) = 1 /\ Cardinality({}) = 0
  <2>1. Cardinality({} \cup {1}) = Cardinality({}) + 1 BY FS_EmptySet, FS_AddElement
  <2>2. {} \cup {1} = {1} OBVIOUS
  <2> QED BY <2>1, <2>2, FS_EmptySet
<1>3. {i \in DOMAIN <<c>> : <<c>>[i] \in Wide} = IF c \in Wide THEN {1} ELSE {} BY <1>1
<1>4. Width(<<c>>) = 1 + Cardinality(IF c \in Wide THEN {1} ELSE {})
  BY <1>1, <1>3, Zenon DEF Width
<1> QED BY <1>2, <1>4

\* What a text of units becomes in lower case is one, and its first character
\* leaves something.
LEMMA LoweredAre ==
  ASSUME NEW v \in Seq(Unit)
  PROVE  /\ Formed(Lowered(v)) /\ Lowered(v) \in Seq(Unit)
         /\ v # <<>> /\ v[1][2] = 1 => Len(Lowered(v)) >= 1
<1>1. PICK m \in Nat : m = Len(v) OBVIOUS
<1>2. PICK seqs : seqs = [i \in 1..m |->
        IF v[i][2] = 1 THEN Units(Lower[v[i][1]]) ELSE <<>>]
  OBVIOUS
<1>3. \A i \in 1..m : v[i][1] \in Chars BY <1>1 DEF Unit
<1>4. \A c \in Chars : Lower[c] \in Seq(Chars) /\ Lower[c] # <<>> BY StudioAssumption
<1>5. Formed(<<>>) /\ <<>> \in Seq(Unit)
  <2>1. <<>> \in Seq(Unit) /\ Len(<<>>) = 0 BY EmptySeq
  <2>2. \A i \in 1..0 : FALSE OBVIOUS
  <2> QED BY <2>1, <2>2 DEF Formed
<1>6. \A i \in 1..m : Formed(seqs[i]) /\ seqs[i] \in Seq(Unit)
  BY <1>2, <1>3, <1>4, <1>5, UnitsAre
<1>7. seqs \in Seq(Seq(Unit)) /\ Len(seqs) = m BY <1>1, <1>2, <1>6
<1>8. Lowered(v) = FlattenSeq(seqs)
  <2>1. DOMAIN v = 1..m BY <1>1
  <2> QED BY <2>1, <1>2 DEF Lowered
<1>9. Formed(Lowered(v)) BY <1>6, <1>7, <1>8, FormedFlatten
<1>10. PICK low \in Seq(Unit) : low = Lowered(v) BY <1>9 DEF Formed
<1>11. ASSUME v # <<>>, v[1][2] = 1 PROVE Len(low) >= 1
  <2>1. 1 \in 1..m BY <1>1, <1>11, EmptySeq
  <2>2. PICK line \in Seq(Chars) : line = Lower[v[1][1]] /\ line # <<>>
    BY <2>1, <1>3, <1>4
  <2>3. PICK u \in Seq(Unit) : u = Units(line) BY UnitsAre
  <2>4. u = seqs[1] BY <1>2, <1>11, <2>1, <2>2, <2>3
  <2>5. Len(u) >= 1
    <3>1. Len(u) = Width(line) BY <2>3, UnitsAre
    <3>2. PICK a \in Nat : a = Cardinality({i \in DOMAIN line : line[i] \in Wide})
      <4>1. IsFiniteSet(DOMAIN line) BY FS_Interval
      <4> QED BY <4>1, FS_Subset, FS_CardinalityType
    <3>3. Width(line) = Len(line) + a BY <3>2, Zenon DEF Width
    <3>4. Len(line) \in Nat \ {0} BY <2>2, EmptySeq
    <3> QED BY <3>1, <3>3, <3>4
  <2>6. u[1] \in ToSet(u) BY <2>5 DEF ToSet
  <2>7. u[1] \in ToSet(low) BY <2>1, <2>4, <2>6, <1>7, <1>8, <1>10, FlattenHas
  <2>8. \E k \in 1..Len(low) : TRUE BY <2>7 DEF ToSet
  <2> QED BY <2>8
<1> QED BY <1>9, <1>10, <1>11

-----------------------------------------------------------------------------
(* Lower case, and parts of a text.                                        *)

\* A part of a text.
LEMMA SliceIs ==
  ASSUME NEW S, NEW v \in Seq(S), NEW a \in Nat, NEW b \in Nat, a <= b, b <= Len(v)
  PROVE  /\ Slice(v, a, b) \in Seq(S)
         /\ Len(Slice(v, a, b)) = b - a
         /\ \A i \in 1..(b - a) : Slice(v, a, b)[i] = v[a + i]
<1>1. /\ a + 1 \in Int /\ b \in Int
      /\ \A i \in (a + 1)..b : v[i] \in S
  OBVIOUS
<1>2. /\ SubSeq(v, a + 1, b) \in Seq(S)
      /\ Len(SubSeq(v, a + 1, b)) = IF a + 1 <= b THEN b - (a + 1) + 1 ELSE 0
      /\ \A i \in 1..(b - (a + 1) + 1) : SubSeq(v, a + 1, b)[i] = v[(a + 1) + i - 1]
  BY <1>1, SubSeqProperties
<1>3. /\ b - (a + 1) + 1 = b - a
      /\ (IF a + 1 <= b THEN b - (a + 1) + 1 ELSE 0) = b - a
      /\ \A i \in 1..(b - a) : (a + 1) + i - 1 = a + i
  OBVIOUS
<1> QED BY <1>2, <1>3 DEF Slice

\* The same, of units, with its length named.
Part(u, a, b) ==
  \E n \in Nat : \E v \in Seq(Unit) :
    /\ n = b - a /\ n >= 1 /\ v = Slice(u, a, b) /\ Len(v) = n
    /\ \A i \in 1..n : v[i] = u[a + i]

\* It is so of every part.
LEMMA SlicePart ==
  ASSUME NEW u \in Seq(Unit), NEW a \in Nat, NEW b \in Nat, a < b, b <= Len(u)
  PROVE  Part(u, a, b)
<1>1. PICK n \in Nat : n = b - a /\ n >= 1 OBVIOUS
<1>2. a <= b /\ b <= Len(u) BY <1>1
<1>3. /\ Slice(u, a, b) \in Seq(Unit) /\ Len(Slice(u, a, b)) = b - a
      /\ \A i \in 1..(b - a) : Slice(u, a, b)[i] = u[a + i]
  BY <1>2, SliceIs
<1> QED BY <1>1, <1>3 DEF Part

\* The character has one of its width as lower case.
EvenChar(c) == Len(Lower[c]) = 1 /\ Width(Lower[c]) = Width(<<c>>)

\* A unit in lower case, where it is so.
LowUnit(x) == <<Lower[x[1]][1], x[2]>>

\* Then the units of its lower case are as many.
LEMMA LowerEven ==
  ASSUME NEW c \in Chars, EvenChar(c)
  PROVE  /\ Lower[c][1] \in Chars
         /\ Lower[c][1] \in Wide <=> c \in Wide
         /\ Units(Lower[c]) = UnitsOf(Lower[c][1])
<1>1. PICK line \in Seq(Chars) : line = Lower[c] BY StudioAssumption
<1>2. Len(line) = 1 /\ Width(line) = Width(<<c>>) BY <1>1 DEF EvenChar
<1>3. PICK d \in Chars : d = line[1] BY <1>2
<1>4. line = <<d>> BY <1>2, <1>3
<1>5. d \in Wide <=> c \in Wide BY <1>2, <1>4, WidthOne
<1>6. Units(line) = UnitsOf(d)
  <2>1. PICK seqs : seqs = [i \in 1..1 |-> UnitsOf(line[i])] OBVIOUS
  <2>2. \A i \in 1..1 : i = 1 /\ line[i] = d BY <1>3
  <2>3. seqs \in Seq(Seq(Unit)) /\ Len(seqs) = 1 /\ seqs[1] = UnitsOf(d)
    BY <2>1, <2>2, UnitsOfIs
  <2>4. Units(line) = FlattenSeq(seqs)
    <3>1. DOMAIN line = 1..1 BY <1>2
    <3> QED BY <3>1, <2>1 DEF Units, UnitsOf
  <2>5. PICK f \in [0..Len(seqs) -> Seq(Unit)] :
          /\ f[0] = <<>>
          /\ \A i \in 1..Len(seqs) : f[i] = f[i - 1] \o seqs[i]
          /\ FlattenSeq(seqs) = f[Len(seqs)]
    BY <2>3, FlattenIs
  <2>6. 1 \in 1..Len(seqs) /\ Len(seqs) = 1 /\ 1 - 1 = 0 BY <2>3
  <2>7. f[1] = <<>> \o UnitsOf(d) /\ FlattenSeq(seqs) = f[1] BY <2>3, <2>5, <2>6
  <2>8. UnitsOf(d) \in Seq(Unit) BY UnitsOfIs
  <2>9. <<>> \o UnitsOf(d) = UnitsOf(d) BY <2>8, ConcatEmptySeq
  <2> QED BY <2>4, <2>7, <2>9
<1> QED BY <1>1, <1>3, <1>5, <1>6

\* Where every character has one of its width as lower case, units keep their places.
LEMMA LoweredEven ==
  ASSUME NEW v, Formed(v), \A i \in 1..Len(v) : EvenChar(v[i][1])
  PROVE  /\ Len(Lowered(v)) = Len(v)
         /\ \A i \in 1..Len(v) : Lowered(v)[i] = LowUnit(v[i])
<1>0. v \in Seq(Unit) BY DEF Formed
<1>1. PICK m \in Nat : m = Len(v) BY <1>0
<1>2. PICK seqs : seqs = [i \in 1..m |->
        IF v[i][2] = 1 THEN Units(Lower[v[i][1]]) ELSE <<>>]
  OBVIOUS
<1>3. \A i \in 1..m : v[i][1] \in Chars /\ v[i][2] \in {1, 2} /\ v[i] = <<v[i][1], v[i][2]>>
  BY <1>0, <1>1 DEF Unit
<1>4. \A i \in 1..m :
        seqs[i] = IF v[i][2] = 1 THEN UnitsOf(Lower[v[i][1]][1]) ELSE <<>>
  BY <1>1, <1>2, <1>3, LowerEven
<1>5. \A i \in 1..m : Lower[v[i][1]][1] \in Chars BY <1>1, <1>3, LowerEven
<1>6. \A i \in 1..m : seqs[i] \in Seq(Unit)
  <2>1. <<>> \in Seq(Unit) BY EmptySeq
  <2> QED BY <2>1, <1>4, <1>5, UnitsOfIs
<1>7. seqs \in Seq(Seq(Unit)) /\ Len(seqs) = m BY <1>1, <1>2, <1>6
<1>8. Lowered(v) = FlattenSeq(seqs)
  <2>1. DOMAIN v = 1..m BY <1>0, <1>1
  <2> QED BY <2>1, <1>2 DEF Lowered
<1>9. PICK f \in [0..m -> Seq(Unit)] :
        /\ f[0] = <<>>
        /\ \A i \in 1..m : f[i] = f[i - 1] \o seqs[i]
        /\ FlattenSeq(seqs) = f[m]
  BY <1>7, FlattenIs
<1> DEFINE Opens(n) == n \in 1..m /\ v[n][2] = 1 /\ v[n][1] \in Wide
           End(n) == IF Opens(n) THEN n + 1 ELSE n
           T == {n \in Nat : n <= m =>
                   /\ Len(f[n]) = End(n)
                   /\ \A j \in 1..End(n) : f[n][j] = LowUnit(v[j])}
<1>10. 0 \in T
  <2>1. ~Opens(0) /\ Len(f[0]) = 0 /\ \A j \in 1..0 : FALSE BY <1>9
  <2> HIDE DEF Opens
  <2> QED BY <2>1
<1>11. ASSUME NEW n \in Nat, n \in T PROVE n + 1 \in T
  <2> SUFFICES ASSUME n + 1 <= m
               PROVE  /\ Len(f[n + 1]) = End(n + 1)
                      /\ \A j \in 1..End(n + 1) : f[n + 1][j] = LowUnit(v[j])
    OBVIOUS
  <2>1. n + 1 \in 1..m /\ n <= m /\ (n + 1) - 1 = n /\ n \in 0..m BY <1>1
  <2>2. PICK s \in Seq(Unit) : s = f[n] BY <1>9, <2>1
  <2>3. Len(s) = End(n) /\ \A j \in 1..End(n) : s[j] = LowUnit(v[j]) BY <1>11, <2>1, <2>2
  <2>4. f[n + 1] = s \o seqs[n + 1] BY <1>9, <2>1, <2>2
  <2>5. PICK c \in Chars, k \in {1, 2} : v[n + 1] = <<c, k>> BY <1>3, <2>1
  <2>6. CASE k = 2
    <3>1. c \in Wide /\ n + 1 > 1 /\ v[(n + 1) - 1] = <<c, 1>>
      <4>1. v[n + 1][2] = 2 /\ v[n + 1][1] = c BY <2>5, <2>6
      <4> QED BY <4>1, <1>1, <2>1 DEF Formed
    <3>2. n \in 1..m /\ v[n] = <<c, 1>> BY <2>1, <3>1
    <3>3. Opens(n) /\ ~Opens(n + 1) BY <2>5, <2>6, <3>1, <3>2
    <3>4. seqs[n + 1] = <<>>
      <4>1. v[n + 1][2] = 2 BY <2>5, <2>6
      <4> QED BY <4>1, <1>4, <2>1
    <3>5. f[n + 1] = s BY <2>4, <3>4, ConcatEmptySeq
    <3>6. End(n) = n + 1 /\ End(n + 1) = n + 1 BY <3>3
    <3> HIDE DEF End
    <3> QED BY <2>3, <3>5, <3>6
  <2>7. CASE k = 1
    <3>1. PICK d \in Chars : d = Lower[c][1]
      <4>1. v[n + 1][1] = c BY <2>5
      <4> QED BY <4>1, <1>5, <2>1
    <3>2. seqs[n + 1] = UnitsOf(d)
      <4>1. v[n + 1][2] = 1 /\ v[n + 1][1] = c BY <2>5, <2>7
      <4> QED BY <4>1, <3>1, <1>4, <2>1
    <3>3. d \in Wide <=> c \in Wide
      <4>1. v[n + 1][1] = c /\ EvenChar(v[n + 1][1]) BY <2>5, <1>1, <2>1
      <4> QED BY <4>1, <3>1, LowerEven
    <3>4. ~Opens(n)
      <4> SUFFICES ASSUME Opens(n) PROVE FALSE OBVIOUS
      <4>1. v[n + 1] = <<v[n][1], 2>> BY <1>1 DEF Formed
      <4> QED BY <4>1, <2>5, <2>7
    <3>5. Opens(n + 1) <=> c \in Wide BY <2>1, <2>5, <2>7
    <3>6. PICK w \in {1, 2} : w = IF c \in Wide THEN 2 ELSE 1 OBVIOUS
    <3>7. End(n) = n /\ End(n + 1) = n + w BY <3>4, <3>5, <3>6
    <3>8. PICK t \in Seq(Unit) : t = seqs[n + 1] BY <1>6, <2>1
    <3>9. Len(t) = w /\ \A i \in 1..w : t[i] = <<d, i>> BY <3>2, <3>3, <3>6, <3>8, UnitsOfIs
    <3>10. /\ f[n + 1] = s \o t /\ Len(s \o t) = Len(s) + Len(t)
           /\ \A j \in 1..(Len(s) + Len(t)) :
                (s \o t)[j] = IF j <= Len(s) THEN s[j] ELSE t[j - Len(s)]
      BY <2>4, <3>8, ConcatProperties
    <3>11. \A i \in 1..w : v[n + i] = <<c, i>>
      <4>1. v[n + 1] = <<c, 1>> BY <2>5, <2>7
      <4>2. w = 2 => v[n + 2] = <<c, 2>>
        <5>1. SUFFICES ASSUME w = 2 PROVE v[n + 2] = <<c, 2>> OBVIOUS
        <5>2. v[n + 1][2] = 1 /\ v[n + 1][1] = c /\ c \in Wide BY <4>1, <3>6, <5>1
        <5>3. v[(n + 1) + 1] = <<c, 2>> BY <5>2, <1>1, <2>1 DEF Formed
        <5>4. (n + 1) + 1 = n + 2 OBVIOUS
        <5> QED BY <5>3, <5>4
      <4>3. ASSUME NEW i \in 1..w PROVE i = 1 \/ (i = 2 /\ w = 2) BY <3>6
      <4> QED BY <4>1, <4>2, <4>3
    <3>12. \A i \in 1..w : LowUnit(v[n + i]) = <<d, i>>
      <4>1. \A i \in 1..w : <<c, i>>[1] = c /\ <<c, i>>[2] = i OBVIOUS
      <4> QED BY <4>1, <3>1, <3>11 DEF LowUnit
    <3> HIDE DEF End
    <3>13. Len(s) = n /\ \A j \in 1..n : s[j] = LowUnit(v[j]) BY <2>3, <3>7
    <3>14. ASSUME NEW j \in 1..(n + w) PROVE (s \o t)[j] = LowUnit(v[j])
      <4>1. w \in Nat BY <3>6
      <4>2. (s \o t)[j] = IF j <= n THEN s[j] ELSE t[j - n] BY <3>9, <3>10, <3>13
      <4>3. CASE j <= n
        <5>1. j \in 1..n BY <4>1, <4>3
        <5> QED BY <5>1, <4>2, <4>3, <3>13
      <4>4. CASE ~(j <= n)
        <5>1. PICK i \in 1..w : i = j - n BY <4>1, <4>4
        <5>2. n + i = j BY <5>1
        <5>3. t[i] = LowUnit(v[n + i]) BY <3>9, <3>12
        <5> QED BY <5>1, <5>2, <5>3, <4>2, <4>4
      <4> QED BY <4>3, <4>4
    <3>15. Len(f[n + 1]) = n + w BY <3>9, <3>10, <3>13
    <3> QED BY <3>7, <3>10, <3>14, <3>15
  <2> QED BY <2>5, <2>6, <2>7
<1>12. m \in T
  <2> HIDE DEF T
  <2> QED BY <1>10, <1>11, Inductive
<1>13. ~Opens(m)
  <2> SUFFICES ASSUME Opens(m) PROVE FALSE OBVIOUS
  <2>1. m < Len(v) BY <1>1 DEF Formed
  <2> QED BY <2>1, <1>1
<1>14. End(m) = m BY <1>13
<1>15. Len(f[m]) = End(m) /\ \A j \in 1..End(m) : f[m][j] = LowUnit(v[j]) BY <1>12
<1> HIDE DEF End
<1> QED BY <1>1, <1>8, <1>9, <1>14, <1>15

\* A text of units cuts no character in two,
LEMMA FormedWhole ==
  ASSUME NEW v, Formed(v)
  PROVE  Whole(v)
<1>0. v \in Seq(Unit) BY DEF Formed
<1> SUFFICES ASSUME v # <<>>
             PROVE  v[1][2] = 1 /\ Last(v)[2] = Width(<<Last(v)[1]>>)
  BY DEF Whole
<1>1. PICK m \in Nat \ {0} : m = Len(v) BY <1>0, EmptySeq
<1>2. PICK c \in Chars, k \in {1, 2} : v[m] = <<c, k>> BY <1>0, <1>1 DEF Unit
<1>3. v[1][2] = 1
  <2>1. 1 \in 1..m BY <1>1
  <2>2. v[1][2] # 2 BY <1>1, <2>1 DEF Formed
  <2>3. v[1] \in Unit BY <1>0, <1>1, <2>1
  <2> QED BY <2>2, <2>3 DEF Unit
<1>4. m \in 1..m /\ v[m][1] = c /\ v[m][2] = k BY <1>1, <1>2
<1>5. k = IF c \in Wide THEN 2 ELSE 1
  <2>1. k = 2 => c \in Wide BY <1>1, <1>4 DEF Formed
  <2>2. k = 1 /\ c \in Wide => m < m BY <1>1, <1>4 DEF Formed
  <2> QED BY <2>1, <2>2, <1>1, <1>2
<1>6. Last(v) = v[m] BY <1>1 DEF Last
<1> QED BY <1>2, <1>3, <1>4, <1>5, <1>6, WidthOne

\* and a part that cuts none is one.
LEMMA WholeSlice ==
  ASSUME NEW u, Formed(u), NEW a \in Nat, NEW b \in Nat, a < b, b <= Len(u),
         Whole(Slice(u, a, b))
  PROVE  Formed(Slice(u, a, b))
<1>0. u \in Seq(Unit) BY DEF Formed
<1>1. Part(u, a, b)
  BY <1>0, SlicePart
<1>2. PICK n \in Nat, v \in Seq(Unit) :
        /\ n = b - a /\ n >= 1 /\ v = Slice(u, a, b) /\ Len(v) = n
        /\ \A i \in 1..n : v[i] = u[a + i]
  BY <1>1 DEF Part
<1>3. Len(v) = n /\ \A i \in 1..n : v[i] = u[a + i] BY <1>2
<1>4. v # <<>> BY <1>2
<1>5. v[1][2] = 1 /\ Last(v)[2] = Width(<<Last(v)[1]>>) BY <1>2, <1>4 DEF Whole
<1>6. \A i \in 1..n : a + i \in 1..Len(u) BY <1>0, <1>2
<1>7. ASSUME NEW i \in 1..n, v[i][2] = 2
      PROVE  v[i][1] \in Wide /\ i > 1 /\ v[i - 1] = <<v[i][1], 1>>
  <2>1. i # 1 BY <1>5, <1>7
  <2>2. i > 1 /\ i - 1 \in 1..n /\ a + (i - 1) = (a + i) - 1 BY <2>1
  <2>3. v[i] = u[a + i] /\ v[i - 1] = u[(a + i) - 1] BY <1>3, <2>2
  <2>4. u[a + i][1] \in Wide /\ u[(a + i) - 1] = <<u[a + i][1], 1>>
    BY <1>6, <1>7, <2>3 DEF Formed
  <2> QED BY <2>2, <2>3, <2>4
<1>8. ASSUME NEW i \in 1..n, v[i][2] = 1, v[i][1] \in Wide
      PROVE  i < n /\ v[i + 1] = <<v[i][1], 2>>
  <2>1. i # n
    <3> SUFFICES ASSUME i = n PROVE FALSE OBVIOUS
    <3>1. Last(v) = v[i] BY <1>3 DEF Last
    <3>2. v[i][1] \in Chars BY <1>3 DEF Unit
    <3>3. Width(<<v[i][1]>>) = 2 BY <1>8, <3>2, WidthOne
    <3> QED BY <1>5, <1>8, <3>1, <3>3
  <2>2. i < n /\ i + 1 \in 1..n /\ a + (i + 1) = (a + i) + 1 BY <1>2, <2>1
  <2>3. v[i] = u[a + i] /\ v[i + 1] = u[(a + i) + 1] BY <1>3, <2>2
  <2>4. u[(a + i) + 1] = <<u[a + i][1], 2>>
    BY <1>6, <1>8, <2>3 DEF Formed
  <2> QED BY <2>2, <2>3, <2>4
<1>9. Formed(v) BY <1>3, <1>7, <1>8 DEF Formed
<1> QED BY <1>2, <1>9

-----------------------------------------------------------------------------
(* Matches.                                                                *)

\* The first of some indices.
LEMMA MinIs ==
  ASSUME NEW S \in SUBSET Nat, S # {}
  PROVE  Min(S) \in S /\ \A k \in S : Min(S) <= k
<1>1. \E n \in S : \A k \in S : n <= k BY Least
<1> QED BY <1>1 DEF Min

\* Where a needle occurs, from an index on,
At(needle, hay, i) ==
  {k \in i..(Len(hay) - Len(needle)) : Slice(hay, k, k + Len(needle)) = needle}

\* and what Scan has found, down to an index.
Scanning(u, needle, hay, j) ==
  u = [i \in j..Len(hay) |->
         IF At(needle, hay, i) = {} THEN <<>>
         ELSE <<Min(At(needle, hay, i))>> \o u[Min(At(needle, hay, i)) + Len(needle)]]

\* A match is within the text.
LEMMA AtIs ==
  ASSUME NEW S, NEW needle \in Seq(S), NEW hay \in Seq(S), Len(needle) >= 1,
         NEW i \in 0..Len(hay), At(needle, hay, i) # {}
  PROVE  /\ Min(At(needle, hay, i)) \in At(needle, hay, i)
         /\ \A k \in At(needle, hay, i) : Min(At(needle, hay, i)) <= k
         /\ Min(At(needle, hay, i)) \in i..(Len(hay) - Len(needle))
         /\ Min(At(needle, hay, i)) + Len(needle) \in (i + 1)..Len(hay)
<1>1. PICK n \in Nat, h \in Nat : n = Len(needle) /\ h = Len(hay) /\ n >= 1 OBVIOUS
<1>2. PICK A : A = At(needle, hay, i) OBVIOUS
<1>3. A \subseteq i..(h - n) BY <1>1, <1>2 DEF At
<1>4. A \in SUBSET Nat /\ A # {} BY <1>1, <1>2, <1>3
<1>5. Min(A) \in A /\ \A k \in A : Min(A) <= k BY <1>4, MinIs
<1>6. Min(A) \in i..(h - n) BY <1>3, <1>5
<1>7. Min(A) + n \in (i + 1)..h BY <1>1, <1>6
<1> QED BY <1>1, <1>2, <1>5, <1>6, <1>7

\* There is such a function: from the end on it can be carried down,
LEMMA ScanningExists ==
  ASSUME NEW S, NEW needle \in Seq(S), NEW hay \in Seq(S), Len(needle) >= 1
  PROVE  \E u : Scanning(u, needle, hay, 0)
<1>1. PICK n \in Nat, h \in Nat : n = Len(needle) /\ h = Len(hay) /\ n >= 1 OBVIOUS
<1> DEFINE A(i) == At(needle, hay, i)
           F(u, i) == IF A(i) = {} THEN <<>> ELSE <<Min(A(i))>> \o u[Min(A(i)) + n]
           Down(d) == \E u : u = [i \in (h - d)..h |-> F(u, i)]
           T == {d \in Nat : d <= h => Down(d)}
<1>2. \A i \in 0..h : A(i) # {} => Min(A(i)) + n \in (i + 1)..h BY <1>1, AtIs
<1> HIDE DEF A
<1>3. 0 \in T
  <2>1. A(h) = {}
    <3>1. h \in 0..h BY <1>1
    <3>2. ~(Min(A(h)) + n \in (h + 1)..h) BY <1>1
    <3> QED BY <1>2, <3>1, <3>2
  <2>2. PICK u : u = [i \in (h - 0)..h |-> <<>>] OBVIOUS
  <2>3. \A i \in (h - 0)..h : i = h BY <1>1
  <2>4. \A i \in (h - 0)..h : F(u, i) = <<>> BY <2>1, <2>3
  <2>5. u = [i \in (h - 0)..h |-> F(u, i)] BY <2>2, <2>4, Zenon
  <2> HIDE DEF F
  <2> QED BY <2>5
<1>4. ASSUME NEW d \in Nat, d \in T PROVE d + 1 \in T
  <2> HIDE DEF Down
  <2> SUFFICES ASSUME d + 1 <= h PROVE Down(d + 1) OBVIOUS
  <2>1. PICK j \in Nat : j = h - (d + 1) /\ j + 1 = h - d /\ j + 1 <= h BY <1>1
  <2>2. d <= h BY <1>1
  <2>3. PICK u : u = [i \in (j + 1)..h |-> F(u, i)]
    <3>1. Down(d) BY <1>4, <2>2
    <3>2. (j + 1)..h = (h - d)..h BY <2>1
    <3> HIDE DEF F
    <3> QED BY <3>1, <3>2 DEF Down
  <2>4. PICK w : w = F(u, j) OBVIOUS
  <2>5. PICK v : v = [i \in j..h |-> IF i = j THEN w ELSE u[i]] OBVIOUS
  <2>6. \A i \in (j + 1)..h : v[i] = u[i] /\ u[i] = F(u, i)
    <3>1. \A i \in (j + 1)..h : u[i] = F(u, i)
      <4> HIDE DEF F
      <4> QED BY <2>3
    <3>2. \A i \in (j + 1)..h : i \in j..h /\ i # j BY <1>1, <2>1
    <3> HIDE DEF F
    <3> QED BY <2>5, <3>1, <3>2
  <2>7. ASSUME NEW i \in j..h PROVE F(v, i) = F(u, i)
    <3>1. i \in 0..h BY <1>1, <2>1
    <3>2. A(i) # {} => v[Min(A(i)) + n] = u[Min(A(i)) + n]
      <4> SUFFICES ASSUME A(i) # {} PROVE v[Min(A(i)) + n] = u[Min(A(i)) + n] OBVIOUS
      <4>1. PICK k \in (i + 1)..h : k = Min(A(i)) + n BY <1>2, <3>1
      <4>2. k \in (j + 1)..h BY <1>1, <2>1, <4>1
      <4> QED BY <4>1, <4>2, <2>6
    <3> QED BY <3>2
  <2>8. ASSUME NEW i \in j..h PROVE v[i] = F(v, i)
    <3>1. CASE i = j
      <4>1. v[i] = w BY <2>5, <3>1
      <4> HIDE DEF F
      <4> QED BY <3>1, <4>1, <2>4, <2>7
    <3>2. CASE i # j
      <4>1. i \in (j + 1)..h BY <1>1, <2>1, <3>2
      <4> HIDE DEF F
      <4> QED BY <4>1, <2>6, <2>7
    <3> QED BY <3>1, <3>2
  <2>9. v = [i \in j..h |-> F(v, i)]
    <3> HIDE DEF F
    <3> QED BY <2>5, <2>8, Zenon
  <2>10. j..h = (h - (d + 1))..h BY <2>1
  <2> HIDE DEF F
  <2> QED BY <2>9, <2>10 DEF Down
<1>5. h \in T
  <2> HIDE DEF T
  <2> QED BY <1>3, <1>4, Inductive
<1>6. PICK u : u = [i \in 0..h |-> F(u, i)]
  <2>1. Down(h)
    <3> HIDE DEF Down
    <3> QED BY <1>1, <1>5
  <2>2. h - h = 0 BY <1>1
  <2> HIDE DEF F
  <2> QED BY <2>1, <2>2 DEF Down
<1>7. Scanning(u, needle, hay, 0) BY <1>1, <1>6 DEF Scanning, A
<1> QED BY <1>7

\* A scan finds matches, and every match starts within one it has found.
LEMMA ScanIs ==
  ASSUME NEW S, NEW needle \in Seq(S), NEW hay \in Seq(S), Len(needle) >= 1
  PROVE  /\ Scan(needle, hay) \in Seq(Nat)
         /\ ToSet(Scan(needle, hay)) \subseteq At(needle, hay, 0)
         /\ \A k \in At(needle, hay, 0) : \E a \in ToSet(Scan(needle, hay)) :
              a <= k /\ k < a + Len(needle)
<1>1. PICK n \in Nat, h \in Nat : n = Len(needle) /\ h = Len(hay) /\ n >= 1 OBVIOUS
<1>2. PICK u : u = CHOOSE f : Scanning(f, needle, hay, 0) OBVIOUS
<1>3. Scanning(u, needle, hay, 0)
  <2>1. \E f : Scanning(f, needle, hay, 0) BY ScanningExists
  <2> QED BY <2>1, <1>2
<1>4. Scan(needle, hay) = u[0] BY <1>2, Zenon DEF Scan, Scanning, At
<1> DEFINE A(i) == At(needle, hay, i)
           Good(i) == /\ u[i] \in Seq(Nat)
                      /\ ToSet(u[i]) \subseteq A(0)
                      /\ \A k \in A(i) : \E a \in ToSet(u[i]) : a <= k /\ k < a + n
           Down(d) == \A i \in (h - d)..h : Good(i)
           T == {d \in Nat : d <= h => Down(d)}
<1>5. \A i \in 0..h : u[i] = IF A(i) = {} THEN <<>> ELSE <<Min(A(i))>> \o u[Min(A(i)) + n]
  BY <1>1, <1>3, Zenon DEF Scanning
<1>6. \A i \in 0..h : A(i) # {} =>
        /\ Min(A(i)) \in A(i) /\ \A k \in A(i) : Min(A(i)) <= k
        /\ Min(A(i)) \in i..(h - n)
        /\ Min(A(i)) + n \in (i + 1)..h
  BY <1>1, AtIs
<1>7. /\ \A i \in 0..h : A(i) \subseteq A(0) /\ A(i) \subseteq Nat
      /\ \A i \in 0..h : \A j \in 0..h : \A k \in A(i) : k >= j => k \in A(j)
  BY <1>1 DEF At
<1> HIDE DEF A
<1>8. ASSUME NEW i \in 0..h, \A k \in (i + 1)..h : Good(k)
      PROVE  Good(i)
  <2>1. CASE A(i) = {}
    <3>1. u[i] = <<>> BY <1>5, <2>1
    <3>2. ToSet(<<>>) = {} BY DEF ToSet
    <3> QED BY <2>1, <3>1, <3>2
  <2>2. CASE A(i) # {}
    <3>1. PICK m \in Nat : /\ m = Min(A(i)) /\ m \in A(i)
                           /\ \A k \in A(i) : m <= k
                           /\ m + n \in (i + 1)..h
      BY <1>6, <1>7, <2>2
    <3>2. PICK b \in (i + 1)..h : b = m + n BY <3>1
    <3>3. Good(b) BY <1>8
    <3>4. PICK t \in Seq(Nat) : t = u[b] BY <3>3
    <3>5. u[i] = <<m>> \o t BY <1>5, <2>2, <3>1, <3>2, <3>4
    <3>6. <<m>> \in Seq(Nat) /\ ToSet(<<m>>) = {m} BY DEF ToSet
    <3>7. <<m>> \o t \in Seq(Nat) /\ ToSet(<<m>> \o t) = {m} \cup ToSet(t)
      <4>1. PICK one \in Seq(Nat) : one = <<m>> BY <3>6
      <4>2. one \o t \in Seq(Nat) BY <4>1, ConcatProperties
      <4>3. ToSet(one \o t) = ToSet(one) \cup ToSet(t)
        <5>1. PICK N : N = Nat OBVIOUS
        <5>2. one \in Seq(N) /\ t \in Seq(N) BY <3>4, <4>1, <5>1
        <5> QED BY <5>2, ConcatSet
      <4> QED BY <3>6, <4>1, <4>2, <4>3
    <3>8. m \in A(0) /\ ToSet(t) \subseteq A(0) BY <1>7, <3>1, <3>3, <3>4
    <3>9. ASSUME NEW k \in A(i)
          PROVE  \E a \in {m} \cup ToSet(t) : a <= k /\ k < a + n
      <4>1. k \in Nat /\ m <= k BY <1>7, <3>1
      <4>2. CASE k < m + n BY <4>1, <4>2
      <4>3. CASE ~(k < m + n)
        <5>1. k >= b /\ b \in 0..h BY <3>2, <4>1, <4>3
        <5>2. k \in A(b) BY <5>1, <1>7
        <5>3. PICK a \in ToSet(t) : a <= k /\ k < a + n BY <3>3, <3>4, <5>2
        <5> QED BY <5>3
      <4> QED BY <4>2, <4>3
    <3> QED BY <3>5, <3>7, <3>8, <3>9
  <2> QED BY <2>1, <2>2
<1> HIDE DEF Good
<1>9. 0 \in T
  <2>1. \A k \in (h + 1)..h : FALSE BY <1>1
  <2>2. h \in 0..h /\ \A i \in (h - 0)..h : i = h BY <1>1
  <2>3. Good(h) BY <1>8, <2>1, <2>2
  <2> QED BY <2>2, <2>3
<1>10. ASSUME NEW d \in Nat, d \in T PROVE d + 1 \in T
  <2> SUFFICES ASSUME d + 1 <= h PROVE Down(d + 1) OBVIOUS
  <2>1. PICK j \in Nat : j = h - (d + 1) /\ j + 1 = h - d /\ j + 1 <= h BY <1>1
  <2>2. \A k \in (j + 1)..h : Good(k)
    <3>1. d <= h BY <1>1
    <3> QED BY <3>1, <1>10, <2>1
  <2>3. Good(j)
    <3>1. j \in 0..h BY <1>1, <2>1
    <3> QED BY <3>1, <2>2, <1>8
  <2>4. \A i \in (h - (d + 1))..h : i = j \/ i \in (j + 1)..h BY <1>1, <2>1
  <2> QED BY <2>2, <2>3, <2>4
<1>11. h \in T
  <2> HIDE DEF T
  <2> QED BY <1>1, <1>9, <1>10, Inductive
<1>12. Good(0)
  <2>1. 0 \in (h - h)..h BY <1>1
  <2> QED BY <1>1, <1>11, <2>1
<1> QED BY <1>1, <1>4, <1>12 DEF Good, A

\* The matches of a needle are those its scans find, line by line,
LEMMA MatchesAre ==
  ASSUME NEW doc \in Text, NEW needle \in Seq(Unit), Len(Lowered(needle)) >= 1
  PROVE  /\ MatchesOf(doc, needle) \in Seq(Span)
         /\ \A s : s \in ToSet(MatchesOf(doc, needle)) <=>
              \E l \in 1..Len(doc) : \E a \in ToSet(Scan(Lowered(needle), Lowered(Units(doc[l])))) :
                s = [line |-> l, from |-> a, to |-> a + Len(Lowered(needle))]
<1>1. PICK m \in Nat : m = Len(doc) /\ DOMAIN doc = 1..m BY DEF Text
<1>2. PICK low \in Seq(Unit) : low = Lowered(needle) /\ Len(low) >= 1 BY LoweredAre
<1>3. PICK scan : scan = [l \in 1..m |-> Scan(low, Lowered(Units(doc[l])))] OBVIOUS
<1>4. \A l \in 1..m : scan[l] \in Seq(Nat)
  <2>1. ASSUME NEW l \in 1..m PROVE scan[l] \in Seq(Nat)
    <3>1. PICK line \in Seq(Chars) : line = doc[l] BY <1>1 DEF Text
    <3>2. Units(line) \in Seq(Unit) BY UnitsAre
    <3>3. Lowered(Units(line)) \in Seq(Unit) BY <3>2, LoweredAre
    <3>4. Scan(low, Lowered(Units(line))) \in Seq(Nat) BY <3>3, <1>2, ScanIs
    <3> QED BY <3>1, <3>4, <1>3
  <2> QED BY <2>1
<1> DEFINE At1(l, a) == [line |-> l, from |-> a, to |-> a + Len(low)]
<1>5. PICK seqs : seqs = [l \in 1..m |-> [i \in DOMAIN scan[l] |-> At1(l, scan[l][i])]]
  OBVIOUS
<1>6. \A l \in 1..m : /\ seqs[l] \in Seq(Span)
                      /\ ToSet(seqs[l]) = {At1(l, a) : a \in ToSet(scan[l])}
  <2>1. ASSUME NEW l \in 1..m
        PROVE  /\ seqs[l] \in Seq(Span)
               /\ ToSet(seqs[l]) = {At1(l, a) : a \in ToSet(scan[l])}
    <3>1. PICK sc \in Seq(Nat) : sc = scan[l] BY <1>4
    <3>2. PICK k \in Nat : k = Len(sc) /\ DOMAIN sc = 1..k BY <3>1
    <3>3. PICK t : t = seqs[l] OBVIOUS
    <3>4. t = [i \in 1..k |-> At1(l, sc[i])] BY <1>5, <3>1, <3>2, <3>3
    <3>5. \A i \in 1..k : At1(l, sc[i]) \in Span
      <4>1. \A i \in 1..k : sc[i] \in Nat BY <3>1, <3>2
      <4>2. l \in Nat /\ Len(low) \in Nat BY <1>1, <1>2
      <4> QED BY <4>1, <4>2 DEF Span
    <3> HIDE DEF At1
    <3>6. t \in Seq(Span) BY <3>2, <3>4, <3>5
    <3>7. ToSet(t) = {At1(l, a) : a \in ToSet(sc)}
      <4>1. DOMAIN t = 1..k /\ \A i \in 1..k : t[i] = At1(l, sc[i]) BY <3>4
      <4> QED BY <4>1, <3>2, Zenon DEF ToSet
    <3> QED BY <3>1, <3>3, <3>6, <3>7
  <2> HIDE DEF At1
  <2> QED BY <2>1
<1>7. seqs \in Seq(Seq(Span)) /\ Len(seqs) = m
  <2>1. \A l \in 1..m : seqs[l] \in Seq(Span) BY <1>6
  <2> HIDE DEF At1
  <2> QED BY <1>1, <1>5, <2>1
<1>8. MatchesOf(doc, needle) = FlattenSeq(seqs)
  <2>1. \A l \in 1..m : seqs[l] = LET at == Scan(low, Lowered(Units(doc[l])))
                                   IN [i \in DOMAIN at |->
                                         [line |-> l, from |-> at[i], to |-> at[i] + Len(low)]]
    BY <1>3, <1>5
  <2>2. seqs = [l \in 1..m |-> LET at == Scan(low, Lowered(Units(doc[l])))
                               IN [i \in DOMAIN at |->
                                     [line |-> l, from |-> at[i], to |-> at[i] + Len(low)]]]
    BY <2>1, <1>5, Zenon
  <2> QED BY <1>1, <1>2, <2>2, Zenon DEF MatchesOf
<1>9. \A s : s \in ToSet(MatchesOf(doc, needle)) <=>
               \E l \in 1..m : \E a \in ToSet(scan[l]) : s = At1(l, a)
  <2> HIDE DEF At1
  <2>1. \A s : s \in ToSet(FlattenSeq(seqs)) <=> \E l \in 1..m : s \in ToSet(seqs[l])
    BY <1>7, FlattenHas
  <2>2. \A l \in 1..m : \A s : s \in ToSet(seqs[l]) <=> \E a \in ToSet(scan[l]) : s = At1(l, a)
    BY <1>6
  <2>3. ASSUME NEW s, s \in ToSet(FlattenSeq(seqs))
        PROVE  \E l \in 1..m : \E a \in ToSet(scan[l]) : s = At1(l, a)
    <3>1. PICK l \in 1..m : s \in ToSet(seqs[l]) BY <2>1, <2>3
    <3> QED BY <2>2, <3>1
  <2>4. ASSUME NEW l \in 1..m, NEW a \in ToSet(scan[l])
        PROVE  At1(l, a) \in ToSet(FlattenSeq(seqs))
    <3>1. At1(l, a) \in ToSet(seqs[l]) BY <2>2
    <3> QED BY <2>1, <3>1
  <2> QED BY <2>3, <2>4, <1>8
<1>10. MatchesOf(doc, needle) \in Seq(Span) BY <1>7, <1>8, FlattenHas
<1>11. \A l \in 1..m : scan[l] = Scan(Lowered(needle), Lowered(Units(doc[l]))) BY <1>2, <1>3
<1> QED BY <1>1, <1>2, <1>9, <1>10, <1>11

\* and of a word those with a boundary on either side.
LEMMA WordMatchesAre ==
  ASSUME NEW doc \in Text, NEW word \in Seq(Unit), Len(Lowered(word)) >= 1
  PROVE  \A s : s \in ToSet(WordMatches(doc, word)) <=>
           s \in ToSet(MatchesOf(doc, word)) /\ AtBoundary(doc, s)
<1>1. PICK all \in Seq(Span) : all = MatchesOf(doc, word) BY MatchesAre
<1>2. PICK m \in Nat : m = Len(all) /\ DOMAIN all = 1..m BY <1>1
<1>3. PICK seqs : seqs = [i \in 1..m |-> IF AtBoundary(doc, all[i]) THEN <<all[i]>> ELSE <<>>]
  OBVIOUS
<1>4. \A i \in 1..m : all[i] \in Span BY <1>1, <1>2
<1>5. seqs \in Seq(Seq(Span)) /\ Len(seqs) = m BY <1>2, <1>3, <1>4
<1>6. WordMatches(doc, word) = FlattenSeq(seqs) BY <1>1, <1>2, <1>3, Zenon DEF WordMatches
<1>7. \A s : s \in ToSet(FlattenSeq(seqs)) <=> \E i \in 1..m : s \in ToSet(seqs[i])
  BY <1>5, FlattenHas
<1>8. \A s : ToSet(<<s>>) = {s} /\ ToSet(<<>>) = {} BY DEF ToSet
<1>9. \A i \in 1..m : \A s : s \in ToSet(seqs[i]) <=> s = all[i] /\ AtBoundary(doc, all[i])
  BY <1>3, <1>8
<1>10. \A s : s \in ToSet(all) <=> \E i \in 1..m : s = all[i] BY <1>2, Zenon DEF ToSet
<1>11. ASSUME NEW s, s \in ToSet(FlattenSeq(seqs))
       PROVE  s \in ToSet(all) /\ AtBoundary(doc, s)
  <2>1. PICK i \in 1..m : s \in ToSet(seqs[i]) BY <1>7, <1>11
  <2>2. s = all[i] /\ AtBoundary(doc, all[i]) BY <1>9, <2>1
  <2> QED BY <1>10, <2>2
<1>12. ASSUME NEW s, s \in ToSet(all), AtBoundary(doc, s)
       PROVE  s \in ToSet(FlattenSeq(seqs))
  <2>1. PICK i \in 1..m : s = all[i] BY <1>10, <1>12
  <2>2. s \in ToSet(seqs[i]) BY <1>9, <1>12, <2>1
  <2> QED BY <1>7, <2>2
<1> QED BY <1>1, <1>6, <1>11, <1>12

-----------------------------------------------------------------------------
(* Words.                                                                  *)

\* What a span within a line takes of it.
LEMMA ValueIs ==
  ASSUME NEW doc \in Text, NEW s, s.line \in 1..Len(doc), s.from \in Nat, s.to \in Nat,
         s.from <= s.to, s.to <= Len(Units(doc[s.line]))
  PROVE  ValueOf(doc, s) = Slice(Units(doc[s.line]), s.from, s.to)
<1>1. PICK u \in Seq(Unit) : u = Units(doc[s.line])
  <2>1. doc[s.line] \in Seq(Chars) BY DEF Text
  <2> QED BY <2>1, UnitsAre
<1>2. PICK a \in Nat, b \in Nat, n \in Nat :
        a = s.from /\ b = s.to /\ n = Len(u) /\ a <= b /\ b <= n
  BY <1>1
<1>3. \A x \in Nat : x <= n => Min({x, n}) = x
  <2>1. ASSUME NEW x \in Nat, x <= n PROVE Min({x, n}) = x
    <3>1. {x, n} \in SUBSET Nat /\ {x, n} # {} OBVIOUS
    <3>2. Min({x, n}) \in {x, n} /\ \A k \in {x, n} : Min({x, n}) <= k BY <3>1, MinIs
    <3>3. Min({x, n}) <= x BY <3>2
    <3> QED BY <2>1, <3>2, <3>3
  <2> QED BY <2>1
<1>4. Min({a, n}) = a /\ Min({b, n}) = b BY <1>2, <1>3
<1>5. s.line \in DOMAIN doc BY DEF Text
<1>6. ValueOf(doc, s) = Slice(u, Min({s.from, Len(u)}), Min({s.to, Len(u)}))
  BY <1>1, <1>5, Zenon DEF ValueOf
<1> QED BY <1>1, <1>2, <1>4, <1>6

\* A word is a part of a line without white space, and with some on either side.
LEMMA WordIs ==
  ASSUME NEW doc \in Text, NEW p \in Points(doc), NEW w \in WordSpansAt(doc, p)
  PROVE  \E l \in 1..Len(doc) : \E a \in Nat : \E b \in Nat :
           /\ w = [line |-> l, from |-> a, to |-> b]
           /\ a < b /\ b <= Len(Units(doc[l]))
           /\ \A i \in (a + 1)..b : Units(doc[l])[i][1] # Blank
           /\ a > 0 => Units(doc[l])[a][1] = Blank
           /\ b < Len(Units(doc[l])) => Units(doc[l])[b + 1][1] = Blank
<1>1. PICK l \in 1..Len(doc), x \in Nat : l = p.line /\ x = p.col BY PointsAre
<1>2. PICK u \in Seq(Unit) : u = Units(doc[l])
  <2>1. doc[l] \in Seq(Chars) BY DEF Text
  <2> QED BY <2>1, UnitsAre
<1>3. PICK n \in Nat : n = Len(u) OBVIOUS
<1>4. PICK col : col = Min({x, n - 1}) OBVIOUS
<1>5. /\ ~(u = <<>> \/ IsBlank(u[col + 1]))
      /\ w \in {s \in [line : {l}, from : 0..col, to : (col + 1)..n] :
                  /\ \A i \in s.from..(s.to - 1) : ~IsBlank(u[i + 1])
                  /\ s.from > 0 => IsBlank(u[s.from])
                  /\ s.to < n => IsBlank(u[s.to + 1])}
  <2>1. WordSpansAt(doc, p) =
          IF u = <<>> \/ IsBlank(u[col + 1]) THEN {}
          ELSE {s \in [line : {l}, from : 0..col, to : (col + 1)..n] :
                  /\ \A i \in s.from..(s.to - 1) : ~IsBlank(u[i + 1])
                  /\ s.from > 0 => IsBlank(u[s.from])
                  /\ s.to < n => IsBlank(u[s.to + 1])}
    BY <1>1, <1>2, <1>3, <1>4, Zenon DEF WordSpansAt
  <2> QED BY <2>1
<1>6. col \in Nat
  <2>1. n - 1 \in Nat BY <1>3, <1>5, EmptySeq
  <2>2. {x, n - 1} \in SUBSET Nat /\ {x, n - 1} # {} BY <2>1
  <2>3. Min({x, n - 1}) \in {x, n - 1} BY <2>2, MinIs
  <2> QED BY <1>4, <2>2, <2>3
<1>7. /\ w \in [line : {l}, from : 0..col, to : (col + 1)..n]
      /\ \A i \in w.from..(w.to - 1) : ~IsBlank(u[i + 1])
      /\ w.from > 0 => IsBlank(u[w.from])
      /\ w.to < n => IsBlank(u[w.to + 1])
  BY <1>5
<1>8. PICK a \in 0..col, b \in (col + 1)..n : w = [line |-> l, from |-> a, to |-> b]
  BY <1>7
<1>9. a \in Nat /\ b \in Nat /\ a < b /\ b <= n BY <1>6, <1>8
<1>10. \A i \in (a + 1)..b : u[i][1] # Blank
  <2>1. ASSUME NEW i \in (a + 1)..b PROVE u[i][1] # Blank
    <3>1. PICK j \in Int : j = i - 1 OBVIOUS
    <3>2. j \in a..(b - 1) /\ j + 1 = i BY <1>9, <3>1
    <3>3. ~IsBlank(u[j + 1]) BY <1>7, <1>8, <3>2
    <3> QED BY <3>2, <3>3 DEF IsBlank
  <2> QED BY <2>1
<1>11. (a > 0 => u[a][1] = Blank) /\ (b < n => u[b + 1][1] = Blank)
  BY <1>7, <1>8 DEF IsBlank
<1> QED BY <1>2, <1>3, <1>8, <1>9, <1>10, <1>11

\* It cuts no character in two, for white space is one unit.
LEMMA WordFormed ==
  ASSUME NEW u, Formed(u), NEW a \in Nat, NEW b \in Nat, a < b, b <= Len(u),
         \A i \in (a + 1)..b : u[i][1] # Blank,
         a > 0 => u[a][1] = Blank,
         b < Len(u) => u[b + 1][1] = Blank
  PROVE  Formed(Slice(u, a, b))
<1>0. u \in Seq(Unit) BY DEF Formed
<1>1. Part(u, a, b)
  BY <1>0, SlicePart
<1>2. PICK n \in Nat, v \in Seq(Unit) :
        /\ n = b - a /\ n >= 1 /\ v = Slice(u, a, b) /\ Len(v) = n
        /\ \A i \in 1..n : v[i] = u[a + i]
  BY <1>1 DEF Part
<1>3. Len(v) = n /\ \A i \in 1..n : v[i] = u[a + i] BY <1>2
<1>4. v[1] = u[a + 1] /\ Last(v) = u[b]
  <2>1. 1 \in 1..n /\ n \in 1..n /\ a + n = b BY <1>2
  <2> QED BY <2>1, <1>3 DEF Last
<1>5. \A i \in (a + 1)..b : i \in 1..Len(u) /\ u[i] \in Unit BY <1>0
<1>6. a + 1 \in (a + 1)..b /\ b \in (a + 1)..b OBVIOUS
<1>7. v[1][2] = 1
  <2> SUFFICES ASSUME u[a + 1][2] # 1 PROVE FALSE BY <1>4
  <2>1. u[a + 1][2] = 2 BY <1>5, <1>6 DEF Unit
  <2>2. a + 1 > 1 /\ u[(a + 1) - 1] = <<u[a + 1][1], 1>> BY <1>5, <1>6, <2>1 DEF Formed
  <2>3. a > 0 /\ (a + 1) - 1 = a BY <2>2
  <2>4. u[a][1] = u[a + 1][1] BY <2>2, <2>3
  <2> QED BY <2>3, <2>4, <1>6
<1>8. Last(v)[2] = Width(<<Last(v)[1]>>)
  <2>1. PICK c \in Chars, k \in {1, 2} : u[b] = <<c, k>> BY <1>5, <1>6 DEF Unit
  <2>2. u[b][1] = c /\ u[b][2] = k BY <2>1
  <2>3. k = 2 => c \in Wide BY <1>5, <1>6, <2>2 DEF Formed
  <2>4. ~(k = 1 /\ c \in Wide)
    <3> SUFFICES ASSUME k = 1, c \in Wide PROVE FALSE OBVIOUS
    <3>1. b < Len(u) /\ u[b + 1] = <<c, 2>> BY <1>5, <1>6, <2>2 DEF Formed
    <3>2. u[b + 1][1] = c BY <3>1
    <3> QED BY <1>6, <2>2, <3>1, <3>2
  <2>5. Width(<<c>>) = k BY <2>1, <2>3, <2>4, WidthOne
  <2> QED BY <1>4, <2>2, <2>5
<1>9. Whole(v) BY <1>7, <1>8 DEF Whole
<1> QED BY <1>2, <1>9, WholeSlice

\* The units of a line whose characters have one of their width as lower case.
LEMMA EvenLine ==
  ASSUME NEW doc \in Text, NEW l \in 1..Len(doc), Even(doc[l])
  PROVE  /\ Formed(Units(doc[l])) /\ Units(doc[l]) \in Seq(Unit)
         /\ Len(Units(doc[l])) = Width(doc[l])
         /\ \A i \in 1..Len(Units(doc[l])) :
              Units(doc[l])[i][1] \in ToSet(doc[l]) /\ EvenChar(Units(doc[l])[i][1])
         /\ Lowered(Units(doc[l])) \in Seq(Unit)
         /\ Len(Lowered(Units(doc[l]))) = Len(Units(doc[l]))
         /\ \A i \in 1..Len(Units(doc[l])) :
              Lowered(Units(doc[l]))[i] = LowUnit(Units(doc[l])[i])
<1>1. PICK line \in Seq(Chars) : line = doc[l] BY DEF Text
<1>2. PICK u \in Seq(Unit) : u = Units(line) /\ Formed(u) BY UnitsAre
<1>3. /\ Len(u) = Width(line)
      /\ \A i \in 1..Len(u) : u[i][1] \in ToSet(line)
  BY <1>2, UnitsAre
<1>4. \A i \in 1..Len(u) : EvenChar(u[i][1]) BY <1>1, <1>3 DEF Even, EvenChar
<1>5. Len(Lowered(u)) = Len(u) /\ \A i \in 1..Len(u) : Lowered(u)[i] = LowUnit(u[i])
  BY <1>2, <1>4, LoweredEven
<1>6. Lowered(u) \in Seq(Unit) BY LoweredAre
<1> QED BY <1>1, <1>2, <1>3, <1>4, <1>5, <1>6

\* On such a line every place where a word is found to start lies within a match of it.
LEMMA MatchFound ==
  ASSUME NEW doc \in Text, NEW word \in Seq(Unit), Len(Lowered(word)) >= 1,
         NEW l \in 1..Len(doc), Even(doc[l]),
         NEW k \in Nat, k + Len(Lowered(word)) <= Len(Units(doc[l])),
         \A j \in 1..Len(Lowered(word)) : LowUnit(Units(doc[l])[k + j]) = Lowered(word)[j]
  PROVE  \E a \in Nat :
           /\ a <= k /\ k < a + Len(Lowered(word))
           /\ \A j \in 1..Len(Lowered(word)) :
                LowUnit(Units(doc[l])[a + j]) = Lowered(word)[j]
           /\ [line |-> l, from |-> a, to |-> a + Len(Lowered(word))]
                \in ToSet(MatchesOf(doc, word))
<1>1. PICK low \in Seq(Unit) : low = Lowered(word) BY LoweredAre
<1>2. PICK u \in Seq(Unit) : u = Units(doc[l]) BY EvenLine
<1>3. PICK hay \in Seq(Unit) : hay = Lowered(u) BY <1>2, EvenLine
<1>4. PICK n \in Nat, h \in Nat : n = Len(low) /\ n >= 1 /\ h = Len(u) /\ k + n <= h
  BY <1>1, <1>2
<1>5. Len(hay) = h /\ \A i \in 1..h : hay[i] = LowUnit(u[i]) BY <1>2, <1>3, <1>4, EvenLine
<1>6. \A i \in Nat : i + n <= h =>
        /\ Slice(hay, i, i + n) \in Seq(Unit) /\ Len(Slice(hay, i, i + n)) = n
        /\ \A j \in 1..n : Slice(hay, i, i + n)[j] = LowUnit(u[i + j])
  <2>1. ASSUME NEW i \in Nat, i + n <= h
        PROVE  /\ Slice(hay, i, i + n) \in Seq(Unit) /\ Len(Slice(hay, i, i + n)) = n
               /\ \A j \in 1..n : Slice(hay, i, i + n)[j] = LowUnit(u[i + j])
    <3>1. PICK b \in Nat : b = i + n /\ i < b /\ b <= Len(hay) /\ b - i = n
      BY <2>1, <1>4, <1>5
    <3>2. Part(hay, i, b)
      BY <1>3, <3>1, SlicePart
    <3>3. /\ Slice(hay, i, b) \in Seq(Unit) /\ Len(Slice(hay, i, b)) = n
          /\ \A j \in 1..n : Slice(hay, i, b)[j] = hay[i + j]
      BY <3>1, <3>2 DEF Part
    <3>4. \A j \in 1..n : i + j \in 1..h BY <2>1, <1>4
    <3> QED BY <3>1, <3>3, <3>4, <1>5
  <2> QED BY <2>1
<1>7. Slice(hay, k, k + n) = low
  <2>1. PICK v \in Seq(Unit) : v = Slice(hay, k, k + n) BY <1>4, <1>6
  <2>2. Len(v) = n /\ \A j \in 1..n : v[j] = LowUnit(u[k + j]) BY <1>4, <1>6, <2>1
  <2>4. \A j \in 1..n : LowUnit(u[k + j]) = low[j] BY <1>1, <1>2, <1>4
  <2>5. Len(v) = Len(low) /\ \A j \in 1..Len(v) : v[j] = low[j]
    BY <1>4, <2>2, <2>4
  <2>3. v = low BY <1>1, <2>1, <2>5, SeqEqual
  <2> QED BY <2>1, <2>3
<1>8. k \in At(low, hay, 0)
  <2>1. k \in 0..(Len(hay) - Len(low)) BY <1>4, <1>5
  <2> QED BY <2>1, <1>4, <1>7 DEF At
<1>9. /\ Scan(low, hay) \in Seq(Nat)
      /\ ToSet(Scan(low, hay)) \subseteq At(low, hay, 0)
      /\ \A i \in At(low, hay, 0) : \E a \in ToSet(Scan(low, hay)) : a <= i /\ i < a + Len(low)
  BY <1>4, ScanIs
<1>10. PICK a \in ToSet(Scan(low, hay)) : a <= k /\ k < a + n BY <1>4, <1>8, <1>9
<1>11. a \in At(low, hay, 0) BY <1>9
<1>12. a \in Nat /\ a + n <= h /\ Slice(hay, a, a + n) = low
  <2>1. a \in 0..(Len(hay) - Len(low)) /\ Slice(hay, a, a + Len(low)) = low BY <1>11 DEF At
  <2> QED BY <2>1, <1>4, <1>5
<1>13. \A j \in 1..n : LowUnit(u[a + j]) = low[j] BY <1>6, <1>12
<1>14. [line |-> l, from |-> a, to |-> a + n] \in ToSet(MatchesOf(doc, word))
  <2>1. a \in ToSet(Scan(Lowered(word), Lowered(Units(doc[l])))) BY <1>1, <1>2, <1>3
  <2>2. Len(Lowered(word)) = n BY <1>1, <1>4
  <2> QED BY <2>1, <2>2, MatchesAre
<1> QED BY <1>1, <1>2, <1>4, <1>10, <1>12, <1>13, <1>14

\* Lower case keeps white space apart from the rest.
LEMMA BlankApart ==
  ASSUME NEW c \in Chars, c # Blank, EvenChar(c), EvenChar(Blank)
  PROVE  Lower[c][1] # Lower[Blank][1]
<1>1. Blank \in Chars BY StudioAssumption
<1>2. ASSUME NEW d \in Chars, EvenChar(d)
      PROVE  Lower[d][1] = Blank <=> d = Blank
  <2>1. PICK line \in Seq(Chars) : line = Lower[d] /\ Len(line) = 1
    BY <1>2, StudioAssumption DEF EvenChar
  <2>2. DOMAIN line = 1..1 /\ \A i \in 1..1 : i = 1 BY <2>1
  <2>3. ToSet(line) = {line[1]} BY <2>2 DEF ToSet
  <2>4. Blank \in ToSet(line) <=> d = Blank BY <2>1, StudioAssumption
  <2> QED BY <2>1, <2>3, <2>4
<1>3. Lower[Blank][1] = Blank BY <1>1, <1>2
<1>4. Lower[c][1] # Blank BY <1>2
<1> QED BY <1>3, <1>4

\* A word is some units, and has some in lower case.
LEMMA WordStarts ==
  ASSUME NEW doc \in Text, NEW p \in Points(doc), NEW w \in WordSpansAt(doc, p)
  PROVE  ValueOf(doc, w) \in Seq(Unit) /\ Len(Lowered(ValueOf(doc, w))) >= 1
<1>1. PICK l \in 1..Len(doc), a \in Nat, b \in Nat :
        /\ w = [line |-> l, from |-> a, to |-> b]
        /\ a < b /\ b <= Len(Units(doc[l]))
        /\ \A i \in (a + 1)..b : Units(doc[l])[i][1] # Blank
        /\ a > 0 => Units(doc[l])[a][1] = Blank
        /\ b < Len(Units(doc[l])) => Units(doc[l])[b + 1][1] = Blank
  BY WordIs
<1>2. PICK u \in Seq(Unit) : u = Units(doc[l]) /\ Formed(u)
  <2>1. doc[l] \in Seq(Chars) BY DEF Text
  <2> QED BY <2>1, UnitsAre
<1>3. ValueOf(doc, w) = Slice(u, a, b)
  <2>1. w.line = l /\ w.from = a /\ w.to = b /\ a <= b BY <1>1
  <2>2. w.line \in 1..Len(doc) /\ w.from <= w.to /\ w.to <= Len(Units(doc[w.line]))
    BY <1>1, <2>1
  <2>3. ValueOf(doc, w) = Slice(Units(doc[w.line]), w.from, w.to)
    BY <2>1, <2>2, ValueIs
  <2> QED BY <1>2, <2>1, <2>3
<1>4. Formed(Slice(u, a, b))
  <2>1. /\ a < b /\ b <= Len(u)
        /\ \A i \in (a + 1)..b : u[i][1] # Blank
        /\ a > 0 => u[a][1] = Blank
        /\ b < Len(u) => u[b + 1][1] = Blank
    BY <1>1, <1>2
  <2> QED BY <1>2, <2>1, WordFormed, Zenon
<1>5. Part(u, a, b)
  BY <1>1, <1>2, SlicePart
<1>6. PICK v \in Seq(Unit) : v = Slice(u, a, b) /\ v # <<>> BY <1>5 DEF Part
<1>7. v[1][2] = 1
  <2>1. Whole(v) BY <1>4, <1>6, FormedWhole
  <2> QED BY <1>6, <2>1 DEF Whole
<1>8. Len(Lowered(v)) >= 1 BY <1>6, <1>7, LoweredAre
<1> QED BY <1>3, <1>6, <1>8

\* A word is found where it was clicked.
LEMMA WordFindsItself ==
  ASSUME NEW doc \in Text, NEW p \in Points(doc), NEW w \in WordSpansAt(doc, p),
         Even(doc[w.line])
  PROVE  w \in ToSet(WordMatches(doc, ValueOf(doc, w)))
<1>1. PICK l \in 1..Len(doc), a \in Nat, b \in Nat :
        /\ w = [line |-> l, from |-> a, to |-> b]
        /\ a < b /\ b <= Len(Units(doc[l]))
        /\ \A i \in (a + 1)..b : Units(doc[l])[i][1] # Blank
        /\ a > 0 => Units(doc[l])[a][1] = Blank
        /\ b < Len(Units(doc[l])) => Units(doc[l])[b + 1][1] = Blank
  BY WordIs
<1>2. Even(doc[l]) BY <1>1
<1>3. PICK u \in Seq(Unit) : u = Units(doc[l]) /\ Formed(u) BY <1>2, EvenLine
<1>4. \A i \in 1..Len(u) : u[i][1] \in Chars /\ EvenChar(u[i][1])
  <2>1. \A i \in 1..Len(u) : EvenChar(u[i][1]) BY <1>2, <1>3, EvenLine
  <2> QED BY <2>1 DEF Unit
<1>5. PICK word : word = ValueOf(doc, w) OBVIOUS
<1>6. word = Slice(u, a, b) /\ Formed(word)
  <2>1. w.line = l /\ w.from = a /\ w.to = b /\ a <= b BY <1>1
  <2>2. w.line \in 1..Len(doc) /\ w.from <= w.to /\ w.to <= Len(Units(doc[w.line]))
    BY <1>1, <2>1
  <2>3. ValueOf(doc, w) = Slice(Units(doc[w.line]), w.from, w.to)
    BY <2>1, <2>2, ValueIs
  <2>4. word = Slice(u, a, b) BY <1>3, <1>5, <2>1, <2>3
  <2>5. Formed(Slice(u, a, b))
    <3>1. /\ a < b /\ b <= Len(u)
          /\ \A i \in (a + 1)..b : u[i][1] # Blank
          /\ a > 0 => u[a][1] = Blank
          /\ b < Len(u) => u[b + 1][1] = Blank
      BY <1>1, <1>3
    <3> QED BY <1>3, <3>1, WordFormed, Zenon
  <2> QED BY <2>4, <2>5
<1>7. Part(u, a, b)
  BY <1>1, <1>3, SlicePart
<1>8. PICK m \in Nat : /\ m = b - a /\ m >= 1 /\ a + m = b
                       /\ word \in Seq(Unit) /\ Len(word) = m
                       /\ \A i \in 1..m : word[i] = u[a + i]
  BY <1>6, <1>7 DEF Part
<1>9. \A i \in 1..m : a + i \in 1..Len(u)
  <2>1. PICK h \in Nat : h = Len(u) /\ a + m <= h BY <1>1, <1>3, <1>8
  <2>2. \A i \in 1..m : a + i \in 1..h BY <1>8, <2>1
  <2> QED BY <2>1, <2>2
<1>10. Len(Lowered(word)) = m /\ \A i \in 1..m : Lowered(word)[i] = LowUnit(u[a + i])
  <2>1. \A i \in 1..m : EvenChar(word[i][1]) BY <1>4, <1>8, <1>9
  <2>2. /\ Len(Lowered(word)) = Len(word)
        /\ \A i \in 1..Len(word) : Lowered(word)[i] = LowUnit(word[i])
    BY <2>1, <1>6, <1>8, LoweredEven
  <2> QED BY <2>2, <1>8
<1>11. PICK x \in Nat :
         /\ x <= a /\ a < x + m
         /\ \A j \in 1..m : LowUnit(u[x + j]) = LowUnit(u[a + j])
         /\ [line |-> l, from |-> x, to |-> x + m] \in ToSet(MatchesOf(doc, word))
  <2>1. /\ Len(Lowered(word)) >= 1 /\ a + Len(Lowered(word)) <= Len(Units(doc[l]))
        /\ \A j \in 1..Len(Lowered(word)) : LowUnit(Units(doc[l])[a + j]) = Lowered(word)[j]
    BY <1>1, <1>3, <1>8, <1>10
  <2>2. \E x \in Nat :
          /\ x <= a /\ a < x + Len(Lowered(word))
          /\ \A j \in 1..Len(Lowered(word)) :
               LowUnit(Units(doc[l])[x + j]) = Lowered(word)[j]
          /\ [line |-> l, from |-> x, to |-> x + Len(Lowered(word))]
               \in ToSet(MatchesOf(doc, word))
    BY <2>1, <1>2, <1>8, MatchFound, Zenon
  <2> QED BY <2>2, <1>3, <1>10
<1>12. x = a
  <2> SUFFICES ASSUME x # a PROVE FALSE OBVIOUS
  <2>1. PICK j \in 1..m : j = a - x BY <1>8, <1>11
  <2>2. x + j = a /\ a > 0 BY <1>11, <2>1
  <2>3. LowUnit(u[a]) = LowUnit(u[a + j]) BY <1>11, <2>1, <2>2
  <2>4. PICK c \in Chars : c = u[a + j][1] /\ EvenChar(c) BY <1>4, <1>9
  <2>5. c # Blank
    <3>1. a + j \in (a + 1)..b BY <1>8, <2>1
    <3> QED BY <3>1, <1>1, <1>3, <2>4
  <2>6. u[a][1] = Blank /\ EvenChar(Blank)
    <3>1. u[a][1] = Blank BY <1>1, <1>3, <2>2
    <3>2. a \in 1..Len(u) BY <1>1, <1>3, <2>2
    <3> QED BY <3>1, <3>2, <1>4
  <2>7. Lower[Blank][1] = Lower[c][1] BY <2>3, <2>4, <2>6 DEF LowUnit
  <2> QED BY <2>4, <2>5, <2>6, <2>7, BlankApart
<1>13. w \in ToSet(MatchesOf(doc, word)) BY <1>1, <1>8, <1>11, <1>12
<1>14. AtBoundary(doc, w)
  <2>1. w.line = l /\ w.from = a /\ w.to = b BY <1>1
  <2>2. ASSUME NEW i \in {a, b + 1} \cap DOMAIN u PROVE ~IsWordChar(u[i])
    <3>1. i \in 1..Len(u) BY <1>3
    <3>2. u[i][1] = Blank
      <4>1. CASE i = a BY <1>1, <1>3, <3>1, <4>1
      <4>2. CASE i = b + 1
        <5>1. b < Len(u) BY <1>3, <3>1, <4>2
        <5> QED BY <1>1, <1>3, <4>2, <5>1
      <4> QED BY <4>1, <4>2
    <3>3. Blank \notin WordChars BY StudioAssumption
    <3> QED BY <3>2, <3>3 DEF IsWordChar
  <2> QED BY <1>3, <2>1, <2>2 DEF AtBoundary
<1>15. Len(Lowered(word)) >= 1 BY <1>8, <1>10
<1> QED BY <1>5, <1>8, <1>13, <1>14, <1>15, WordMatchesAre

\* The n units from x on of a line.
Place(l, x, n) == [line |-> l, from |-> x, to |-> x + n]

\* What they are in lower case, where they cut no character in two.
Taken(doc, l, x, n) ==
  \E v \in Seq(Unit) :
    /\ v = ValueOf(doc, Place(l, x, n)) /\ Len(v) = n
    /\ \A j \in 1..n : v[j] = Units(doc[l])[x + j]
    /\ Whole(v) =>
         /\ Len(Lowered(v)) = n
         /\ \A j \in 1..n : Lowered(v)[j] = LowUnit(Units(doc[l])[x + j])

\* They are so on a line whose characters have one of their width as lower case.
LEMMA PlaceIs ==
  ASSUME NEW doc \in Text, NEW l \in 1..Len(doc), Even(doc[l]),
         NEW x \in Nat, NEW n \in Nat, n >= 1, x + n <= Len(Units(doc[l]))
  PROVE  Taken(doc, l, x, n)
<1>1. PICK u \in Seq(Unit) : u = Units(doc[l]) /\ Formed(u) BY EvenLine
<1>2. PICK h \in Nat : h = Len(u) /\ x + n <= h BY <1>1
<1>3. PICK b \in Nat : b = x + n /\ x < b /\ x <= b /\ b <= Len(u) /\ b - x = n
  BY <1>2
<1>4. \A i \in 1..h : EvenChar(u[i][1]) BY <1>1, <1>2, EvenLine
<1>5. PICK t : t = Place(l, x, n) OBVIOUS
<1>6. t.line = l /\ t.from = x /\ t.to = b BY <1>3, <1>5 DEF Place
<1>7. ValueOf(doc, t) = Slice(u, x, b)
  <2>1. t.line \in 1..Len(doc) /\ t.to <= Len(Units(doc[t.line])) BY <1>1, <1>3, <1>6
  <2>2. ValueOf(doc, t) = Slice(Units(doc[t.line]), t.from, t.to)
    BY <1>3, <1>6, <2>1, ValueIs
  <2> QED BY <1>1, <1>6, <2>2
<1>8. Part(u, x, b)
  <2>1. u \in Seq(Unit) /\ x \in Nat /\ b \in Nat /\ x < b /\ b <= Len(u) BY <1>1, <1>3
  <2> QED BY <2>1, SlicePart
<1>9. PICK v \in Seq(Unit) : /\ v = Slice(u, x, b) /\ Len(v) = n
                             /\ \A j \in 1..n : v[j] = u[x + j]
  BY <1>3, <1>8 DEF Part
<1>10. ASSUME Whole(v)
       PROVE  Len(Lowered(v)) = n /\ \A j \in 1..n : Lowered(v)[j] = LowUnit(u[x + j])
  <2>1. Formed(v) BY <1>1, <1>3, <1>9, <1>10, WholeSlice
  <2>2. \A j \in 1..n : x + j \in 1..h BY <1>2
  <2>3. \A j \in 1..Len(v) : EvenChar(v[j][1]) BY <1>4, <1>9, <2>2
  <2>4. /\ Len(Lowered(v)) = Len(v)
        /\ \A j \in 1..Len(v) : Lowered(v)[j] = LowUnit(v[j])
    BY <2>1, <2>3, LoweredEven
  <2> QED BY <1>9, <2>4
<1> QED BY <1>1, <1>5, <1>7, <1>9, <1>10 DEF Taken

\* A span that reads the same, without regard to case.
Alike(doc, word, s) == Whole(ValueOf(doc, s)) /\ Lowered(ValueOf(doc, s)) = Lowered(word)

\* So is every other occurrence that is a word, unless it overlaps an earlier one.
LEMMA OthersFound ==
  ASSUME NEW doc \in Text, NEW word \in Seq(Unit), NEW n \in Nat,
         n = Len(Lowered(word)), n >= 1,
         NEW l \in 1..Len(doc), Even(doc[l]), NEW c \in 0..(Width(doc[l]) - n),
         Alike(doc, word, Place(l, c, n)), AtBoundary(doc, Place(l, c, n))
  PROVE  \/ Place(l, c, n) \in ToSet(WordMatches(doc, word))
         \/ \E d \in 1..(n - 1) : d <= c /\ Alike(doc, word, Place(l, c - d, n))
<1>1. PICK u \in Seq(Unit) : u = Units(doc[l]) /\ Formed(u) BY EvenLine
<1>2. PICK h \in Nat : h = Len(u) /\ h = Width(doc[l]) /\ c \in Nat /\ c + n <= h
  <2>1. Len(u) = Width(doc[l]) BY <1>1, EvenLine
  <2> QED BY <2>1
<1>3. \A i \in 1..h : u[i][1] \in Chars /\ EvenChar(u[i][1])
  <2>1. \A i \in 1..h : EvenChar(u[i][1]) BY <1>1, <1>2, EvenLine
  <2>2. \A i \in 1..h : u[i] \in Unit
    <3>1. \A i \in 1..Len(u) : u[i] \in Unit BY <1>1, ElementOfSeq
    <3> QED BY <3>1, <1>2
  <2> QED BY <2>1, <2>2 DEF Unit
<1>4. PICK low \in Seq(Unit) : low = Lowered(word) /\ Formed(low) BY LoweredAre
<1>5. Len(low) = n BY <1>4
<1>6. \A x \in Nat : x + n <= h =>
        \E v \in Seq(Unit) :
          /\ v = ValueOf(doc, Place(l, x, n)) /\ Len(v) = n
          /\ \A j \in 1..n : v[j] = u[x + j]
          /\ Whole(v) =>
               /\ Len(Lowered(v)) = n
               /\ \A j \in 1..n : Lowered(v)[j] = LowUnit(u[x + j])
  <2>1. ASSUME NEW x \in Nat, x + n <= h
        PROVE  \E v \in Seq(Unit) :
                 /\ v = ValueOf(doc, Place(l, x, n)) /\ Len(v) = n
                 /\ \A j \in 1..n : v[j] = u[x + j]
                 /\ Whole(v) =>
                      /\ Len(Lowered(v)) = n
                      /\ \A j \in 1..n : Lowered(v)[j] = LowUnit(u[x + j])
    <3>1. x + n <= Len(Units(doc[l])) BY <1>1, <1>2, <2>1
    <3>2. Taken(doc, l, x, n) BY <3>1, PlaceIs
    <3> QED BY <3>2, <1>1 DEF Taken
  <2> QED BY <2>1
<1>7. \A j \in 1..n : LowUnit(u[c + j]) = low[j]
  <2>1. PICK v \in Seq(Unit) :
          /\ v = ValueOf(doc, Place(l, c, n))
          /\ Whole(v) => \A j \in 1..n : Lowered(v)[j] = LowUnit(u[c + j])
    BY <1>2, <1>6
  <2> QED BY <2>1, <1>4 DEF Alike
<1>8. PICK a \in Nat :
        /\ a <= c /\ c < a + n
        /\ \A j \in 1..n : LowUnit(u[a + j]) = low[j]
        /\ Place(l, a, n) \in ToSet(MatchesOf(doc, word))
  <2>1. /\ Len(Lowered(word)) >= 1 /\ c \in Nat
        /\ c + Len(Lowered(word)) <= Len(Units(doc[l]))
        /\ \A j \in 1..Len(Lowered(word)) : LowUnit(Units(doc[l])[c + j]) = Lowered(word)[j]
    BY <1>1, <1>2, <1>4, <1>7
  <2>2. \E x \in Nat :
          /\ x <= c /\ c < x + Len(Lowered(word))
          /\ \A j \in 1..Len(Lowered(word)) :
               LowUnit(Units(doc[l])[x + j]) = Lowered(word)[j]
          /\ [line |-> l, from |-> x, to |-> x + Len(Lowered(word))]
               \in ToSet(MatchesOf(doc, word))
    BY <2>1, MatchFound, Zenon
  <2> QED BY <2>2, <1>1, <1>4 DEF Place
<1>9. CASE a = c
  <2>1. Place(l, c, n) \in ToSet(MatchesOf(doc, word)) BY <1>8, <1>9
  <2>2. Len(Lowered(word)) >= 1 OBVIOUS
  <2>3. Place(l, c, n) \in ToSet(WordMatches(doc, word)) BY <2>1, <2>2, WordMatchesAre
  <2> QED BY <2>3
<1>10. CASE a # c
  <2>1. PICK d \in 1..(n - 1) : d = c - a /\ d <= c /\ c - d = a
    BY <1>2, <1>8, <1>10
  <2>2. a + n <= h BY <1>2, <1>8
  <2>3. PICK v \in Seq(Unit) :
          /\ v = ValueOf(doc, Place(l, a, n)) /\ Len(v) = n
          /\ \A j \in 1..n : v[j] = u[a + j]
          /\ Whole(v) =>
               /\ Len(Lowered(v)) = n
               /\ \A j \in 1..n : Lowered(v)[j] = LowUnit(u[a + j])
    BY <1>6, <2>2
  <2>4. Whole(v)
    <3>1. Whole(low) /\ low # <<>> BY <1>4, <1>5, FormedWhole
    <3>2. low[1][2] = 1 /\ low[n][2] = Width(<<low[n][1]>>)
      BY <1>5, <3>1 DEF Whole, Last
    <3>3. 1 \in 1..n /\ n \in 1..n /\ a + n \in 1..h BY <2>2
    <3>4. v[1][2] = 1
      <4>1. LowUnit(v[1]) = low[1] BY <1>8, <2>3, <3>3
      <4> QED BY <3>2, <4>1 DEF LowUnit
    <3>5. PICK e \in Chars : e = v[n][1] /\ EvenChar(e) BY <1>3, <2>3, <3>3
    <3>6. low[n][1] = Lower[e][1] /\ low[n][2] = v[n][2]
      <4>1. LowUnit(v[n]) = low[n] BY <1>8, <2>3, <3>3
      <4> QED BY <3>5, <4>1 DEF LowUnit
    <3>7. Width(<<Lower[e][1]>>) = Width(<<e>>) BY <3>5, LowerEven, WidthOne
    <3>8. Last(v) = v[n] BY <2>3 DEF Last
    <3> QED BY <3>2, <3>4, <3>5, <3>6, <3>7, <3>8 DEF Whole
  <2>5. Lowered(v) = low
    <3>1. PICK lv \in Seq(Unit) : lv = Lowered(v) BY LoweredAre
    <3>2. Len(lv) = Len(low) /\ \A j \in 1..Len(lv) : lv[j] = low[j]
      BY <1>5, <1>8, <2>3, <2>4, <3>1
    <3>3. lv = low BY <1>4, <3>1, <3>2, SeqEqual
    <3> QED BY <3>1, <3>3
  <2>6. Place(l, c - d, n) = Place(l, a, n) BY <2>1
  <2>7. Alike(doc, word, Place(l, c - d, n))
    BY <1>4, <2>3, <2>4, <2>5, <2>6 DEF Alike
  <2> QED BY <2>1, <2>7
<1> QED BY <1>9, <1>10

\* What the page finds of a word.
FoundFor(w) ==
  LET word  == ValueOf(shown, w)
      found == ToSet(WordMatches(shown, word))
      n     == Len(Lowered(word))
      Is(s) == Alike(shown, word, s)
  IN /\ Even(shown[w.line]) => w \in found
     /\ \A l \in DOMAIN shown : Even(shown[l]) => \A c \in 0..(Width(shown[l]) - n) :
          Is(Place(l, c, n)) /\ AtBoundary(shown, Place(l, c, n)) =>
            \/ Place(l, c, n) \in found
            \/ \E d \in 1..(n - 1) : d <= c /\ Is(Place(l, c - d, n))

\* It finds them all.
LEMMA FoundForAll ==
  ASSUME shown \in Text, NEW p \in Points(shown), NEW w \in WordSpansAt(shown, p)
  PROVE  FoundFor(w)
<1>1. PICK word \in Seq(Unit) : word = ValueOf(shown, w) /\ Len(Lowered(word)) >= 1
  BY WordStarts
<1>2. PICK n \in Nat : n = Len(Lowered(word)) /\ n >= 1
  <2>1. Lowered(word) \in Seq(Unit) BY LoweredAre
  <2> QED BY <1>1, <2>1
<1>3. ASSUME NEW l \in DOMAIN shown, Even(shown[l]), NEW c \in 0..(Width(shown[l]) - n),
             Alike(shown, word, Place(l, c, n)), AtBoundary(shown, Place(l, c, n))
      PROVE  \/ Place(l, c, n) \in ToSet(WordMatches(shown, word))
             \/ \E d \in 1..(n - 1) : d <= c /\ Alike(shown, word, Place(l, c - d, n))
  <2>1. l \in 1..Len(shown) BY DEF Text
  <2> QED BY <2>1, <1>1, <1>2, <1>3, OthersFound
<1>4. Even(shown[w.line]) => w \in ToSet(WordMatches(shown, word))
  BY <1>1, WordFindsItself
<1> QED BY <1>1, <1>2, <1>3, <1>4, Zenon DEF FoundFor

\* WordsFoundEverywhere: on every page a double-clicked word is one of its own
\* matches, and every other occurrence that is a word is found, unless it overlaps
\* an earlier one: on every line whose characters each have one of their width as
\* lower case, whatever the alphabet.
THEOREM WordsFound == Spec => []WordsFoundEverywhere
<1>1. TextInv => WordsFoundEverywhere
  <2> SUFFICES ASSUME TextInv PROVE WordsFoundEverywhere OBVIOUS
  <2>1. shown \in Text BY DEF TextInv
  <2>2. \A w \in UNION {WordSpansAt(shown, p) : p \in Points(shown)} : FoundFor(w)
    <3>1. ASSUME NEW w \in UNION {WordSpansAt(shown, p) : p \in Points(shown)}
          PROVE  \E p \in Points(shown) : w \in WordSpansAt(shown, p)
      OBVIOUS
    <3> QED BY <2>1, <3>1, FoundForAll, Zenon
  <2> QED BY <2>2, Zenon DEF WordsFoundEverywhere, FoundFor, Place, Alike
<1> QED BY <1>1, Texts, PTL
=============================================================================
