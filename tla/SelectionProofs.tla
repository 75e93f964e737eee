-------------------------- MODULE SelectionProofs ---------------------------
(* Proofs about module Selection, for texts of any length over any letters  *)
(* and any cursor row.                                                      *)
EXTENDS Selection, TLAPS, FiniteSetTheorems

USE TextAssumption

-----------------------------------------------------------------------------
(* Counting newlines.                                                       *)

\* A set of naturals has a least element.
LEMMA LeastNatural ==
  ASSUME NEW T \in SUBSET Nat, T # {}
  PROVE  \E x \in T : \A y \in T : x <= y
<1>1. PICK x \in T : \A y \in T : <<y, x>> \notin OpToRel(<,Nat)
  BY WFMin, NatLessThanWellFounded, Zenon
<1>2. \A y \in T : ~(y < x)
  BY <1>1 DEF OpToRel
<1>3. QED
  BY <1>2

\* An element of a sequence has the type of its elements.
LEMMA ElementType ==
  ASSUME NEW S, NEW s \in Seq(S), NEW k \in 1 .. Len(s)
  PROVE  s[k] \in S
OBVIOUS

\* A finite sequence of characters.
IsText(s) == Len(s) \in Nat /\ s \in Seq(Letters \cup {NL})

\* The newlines of s at positions from a on and before b.
Newlines(s, a, b) == {i \in 1 .. Len(s) : a <= i /\ i < b /\ s[i] = NL}

LEMMA TextsAreSequences ==
  ASSUME NEW n \in Nat, NEW s \in Texts(n)
  PROVE  IsText(s) /\ Len(s) <= n
<1>1. PICK k \in 0 .. n : s \in [1 .. k -> Letters \cup {NL}]
  BY DEF Texts
<1>2. s \in Seq(Letters \cup {NL}) /\ Len(s) = k
  BY <1>1
<1>3. QED
  BY <1>2 DEF IsText

LEMMA NewlinesFinite ==
  ASSUME NEW s, IsText(s), NEW a, NEW b
  PROVE  /\ IsFiniteSet(Newlines(s, a, b))
         /\ Cardinality(Newlines(s, a, b)) \in Nat
         /\ Cardinality(Newlines(s, a, b)) <= Len(s)
<1>1. Len(s) \in Nat
  BY DEF IsText
<1>2. IsFiniteSet(1 .. Len(s)) /\ Cardinality(1 .. Len(s)) = Len(s)
  BY <1>1, FS_Interval
<1>3. Newlines(s, a, b) \in SUBSET (1 .. Len(s))
  BY DEF Newlines
<1>4. QED
  BY <1>2, <1>3, FS_Subset, FS_CardinalityType

\* Newlines in a part of the text are as many as in its two halves.
LEMMA NewlinesSplit ==
  ASSUME NEW s, IsText(s), NEW a \in Nat, NEW b \in Nat, NEW c \in Nat, a <= b, b <= c
  PROVE  Cardinality(Newlines(s, a, c))
           = Cardinality(Newlines(s, a, b)) + Cardinality(Newlines(s, b, c))
<1> DEFINE S == Newlines(s, a, b)
           T == Newlines(s, b, c)
<1>1. Newlines(s, a, c) = S \cup T
  BY DEF Newlines
<1>2. S \cap T = {}
  BY DEF Newlines
<1>3. IsFiniteSet(S) /\ IsFiniteSet(T)
  BY NewlinesFinite
<1>4. Cardinality(S \cup T) = Cardinality(S) + Cardinality(T) - Cardinality(S \cap T)
  BY <1>3, FS_Union
<1>5. Cardinality(S \cap T) = 0
  BY <1>2, FS_EmptySet
<1>6. Cardinality(S) \in Nat /\ Cardinality(T) \in Nat
  BY NewlinesFinite
<1>7. QED
  BY <1>1, <1>4, <1>5, <1>6

\* The line of a position is one more than the newlines before it.
LEMMA LineIsCount ==
  ASSUME IsText(content), NEW i \in 1 .. Len(content) + 1
  PROVE  LineOf(i) = 1 + Cardinality(Newlines(content, 1, i))
<1> DEFINE t == SubSeq(content, 1, i - 1)
<1>1. Len(content) \in Nat /\ content \in Seq(Letters \cup {NL})
  BY DEF IsText
<1>2. PICK n \in Nat : n = i - 1 /\ n <= Len(content)
  BY <1>1
<1>3. Len(t) = n /\ \A j \in 1 .. n : t[j] = content[j]
  BY <1>1, <1>2
<1> HIDE DEF t
<1>4. {j \in 1 .. Len(t) : t[j] = NL} = Newlines(content, 1, i)
  BY <1>1, <1>2, <1>3 DEF Newlines
<1>5. QED
  BY <1>4 DEF LineOf, NewlinesIn, t

LEMMA AllNewlines ==
  ASSUME NEW s, IsText(s)
  PROVE  NewlinesIn(s) = Cardinality(Newlines(s, 1, Len(s) + 1)) /\ NewlinesIn(s) \in Nat
<1>1. {i \in 1 .. Len(s) : s[i] = NL} = Newlines(s, 1, Len(s) + 1)
  BY DEF Newlines, IsText
<1>2. QED
  BY <1>1, NewlinesFinite DEF NewlinesIn

\* Lines do not decrease along the text.
LEMMA LinesAscend ==
  ASSUME IsText(content), NEW i \in 1 .. Len(content) + 1, NEW j \in 1 .. Len(content) + 1, i <= j
  PROVE  /\ LineOf(i) \in Nat /\ LineOf(i) >= 1
         /\ LineOf(j) = LineOf(i) + Cardinality(Newlines(content, i, j))
         /\ LineOf(i) <= LineOf(j)
<1>1. i \in Nat /\ j \in Nat /\ 1 <= i
  BY DEF IsText
<1>2. /\ Cardinality(Newlines(content, 1, i)) \in Nat
      /\ Cardinality(Newlines(content, i, j)) \in Nat
  BY NewlinesFinite
<1>3. Cardinality(Newlines(content, 1, j))
        = Cardinality(Newlines(content, 1, i)) + Cardinality(Newlines(content, i, j))
  BY <1>1, NewlinesSplit
<1>4. QED
  BY <1>2, <1>3, LineIsCount

-----------------------------------------------------------------------------
(* Where the selection stands in the text, and the lines of the text.       *)

\* An occurrence lies in the text and spans as many lines as the selection has.
LEMMA OccurrenceLines ==
  ASSUME IsText(content), IsText(selection), NEW i \in 1 .. Len(content), StartsWithAt(i)
  PROVE  /\ i + Len(selection) \in 1 .. Len(content) + 1
         /\ LineOf(i + Len(selection)) = LineOf(i) + NewlinesIn(selection)
         /\ Selected(i) = LineRange(LineOf(i), LineOf(i) + SpanLines - 1)
<1>1. PICK n \in Nat : n = Len(content)
  BY DEF IsText
<1>2. PICK k \in Nat : k = Len(selection)
  BY DEF IsText
<1>3. i \in Nat /\ 1 <= i /\ i + k - 1 <= n /\ \A j \in 1 .. k : content[i + j - 1] = selection[j]
  BY <1>1, <1>2 DEF StartsWithAt
<1>4. i + k \in 1 .. n + 1 /\ i \in 1 .. n + 1 /\ i <= i + k
  BY <1>1, <1>3
<1> DEFINE S == Newlines(selection, 1, k + 1)
           T == Newlines(content, i, i + k)
           f == [j \in S |-> i + j - 1]
<1>5. f \in Bijection(S, T)
  <2>1. \A j \in S : j \in 1 .. k /\ i + j - 1 \in T
    BY <1>1, <1>2, <1>3 DEF Newlines
  <2>2. \A t \in T : t - i + 1 \in S /\ i + (t - i + 1) - 1 = t
    <3>1. ASSUME NEW t \in T PROVE t - i + 1 \in S /\ i + (t - i + 1) - 1 = t
      <4>1. t \in Nat /\ i <= t /\ t < i + k /\ content[t] = NL
        BY <1>1 DEF Newlines
      <4>2. PICK j \in 1 .. k : j = t - i + 1 /\ i + j - 1 = t
        BY <1>3, <4>1
      <4>3. selection[j] = NL
        BY <1>3, <4>1, <4>2
      <4>4. j \in S
        BY <1>2, <4>2, <4>3 DEF Newlines
      <4>5. QED
        BY <4>2, <4>4
    <3>2. QED
      BY <3>1
  <2> HIDE DEF S, T
  <2>3. f \in [S -> T]
    BY <2>1
  <2>4. \A a, b \in S : f[a] = f[b] => a = b
    BY <1>3, <2>1
  <2>5. \A t \in T : \E j \in S : f[j] = t
    BY <2>2
  <2>6. QED
    BY <2>3, <2>4, <2>5 DEF Bijection, Injection, Surjection, IsInjective
<1>6. Cardinality(T) = Cardinality(S)
  <2>1. ExistsBijection(S, T)
    BY <1>5 DEF ExistsBijection
  <2>2. QED
    BY <2>1, NewlinesFinite, FS_Bijection
<1>7. NewlinesIn(selection) = Cardinality(S) /\ NewlinesIn(selection) \in Nat
  BY <1>2, AllNewlines
<1>8. LineOf(i + k) = LineOf(i) + Cardinality(T) /\ LineOf(i) \in Nat
  BY <1>1, <1>4, LinesAscend
<1>9. LineOf(i + k) = LineOf(i) + SpanLines - 1
  BY <1>6, <1>7, <1>8 DEF SpanLines
<1>10. QED
  BY <1>1, <1>2, <1>4, <1>6, <1>7, <1>8, <1>9 DEF Selected

\* The end of a line.
LEMMA LineEnds ==
  ASSUME IsText(content), NEW i \in 1 .. Len(content)
  PROVE  /\ LineEnd(i) \in i .. Len(content)
         /\ content[LineEnd(i)] = NL \/ LineEnd(i) = Len(content)
         /\ \A j \in i .. LineEnd(i) - 1 : content[j] # NL
<1>1. Len(content) \in Nat
  BY DEF IsText
<1> DEFINE T == {e \in i .. Len(content) : content[e] = NL \/ e = Len(content)}
<1>2. T \in SUBSET Nat /\ Len(content) \in T
  BY <1>1
<1>3. PICK e \in T : \A d \in T : e <= d
  BY <1>2, LeastNatural
<1>4. \A j \in i .. e - 1 : content[j] # NL
  <2>1. SUFFICES ASSUME NEW j \in i .. e - 1, content[j] = NL PROVE FALSE
    OBVIOUS
  <2>2. j \in T
    BY <1>1, <1>3, <2>1
  <2>3. QED
    BY <1>1, <1>3, <2>1, <2>2
<1>5. \E d \in i .. Len(content) : /\ content[d] = NL \/ d = Len(content)
                                   /\ \A j \in i .. d - 1 : content[j] # NL
  BY <1>3, <1>4
<1>6. QED
  BY <1>5 DEF LineEnd

\* The positions up to the end of a line are on it, and the next line is one further.
LEMMA LineScanned ==
  ASSUME IsText(content), NEW i \in 1 .. Len(content)
  PROVE  /\ \A j \in i .. LineEnd(i) : LineOf(j) = LineOf(i)
         /\ LineEnd(i) + 1 <= Len(content) => LineOf(LineEnd(i) + 1) = LineOf(i) + 1
<1>1. PICK n \in Nat : n = Len(content)
  BY DEF IsText
<1>2. PICK e \in i .. n : e = LineEnd(i)
  BY <1>1, LineEnds
<1>3. (content[e] = NL \/ e = n) /\ \A j \in i .. e - 1 : content[j] # NL
  BY <1>1, <1>2, LineEnds
<1>4. i \in Nat /\ 1 <= i /\ i <= n /\ e \in Nat /\ i <= e /\ e <= n
  BY <1>1, <1>2
<1>5. ASSUME NEW j \in i .. e PROVE LineOf(j) = LineOf(i)
  <2>1. \A k \in 1 .. n : i <= k /\ k < j => k \in i .. e - 1
    BY <1>4
  <2>2. Newlines(content, i, j) = {}
    BY <1>1, <1>3, <2>1 DEF Newlines
  <2>3. i \in 1 .. n + 1 /\ j \in 1 .. n + 1 /\ i <= j
    BY <1>4
  <2>4. LineOf(j) = LineOf(i) + Cardinality(Newlines(content, i, j)) /\ LineOf(i) \in Nat
    BY <1>1, <2>3, LinesAscend
  <2>5. QED
    BY <2>2, <2>4, FS_EmptySet
<1>6. ASSUME e + 1 <= n PROVE LineOf(e + 1) = LineOf(i) + 1
  <2>1. content[e] = NL
    BY <1>3, <1>4, <1>6
  <2>2. Newlines(content, e, e + 1) = {e}
    BY <1>1, <1>4, <2>1 DEF Newlines
  <2>3. e \in 1 .. n + 1 /\ e + 1 \in 1 .. n + 1 /\ e <= e + 1
    BY <1>4
  <2>4. LineOf(e + 1) = LineOf(e) + Cardinality(Newlines(content, e, e + 1))
    BY <1>1, <2>3, LinesAscend
  <2>5. Cardinality({e}) = 1
    BY FS_Singleton
  <2>6. LineOf(e) = LineOf(i)
    BY <1>4, <1>5
  <2>7. QED
    BY <2>2, <2>4, <2>5, <2>6
<1>7. QED
  BY <1>1, <1>2, <1>5, <1>6

-----------------------------------------------------------------------------
(* The invariant.  The properties speak of the end of the search.  Before   *)
(* it, the matches stand for the occurrences in the lines that have been    *)
(* read, in the order of their lines; after it, the range is the cursor's   *)
(* row, the fallback or a match that was picked.                            *)

InputInv == content \in Texts(MaxContent) /\ selection \in Texts(MaxSelection) /\ row \in 0 .. MaxRow

ScanInv ==
  /\ pos \in 1 .. Len(content) + 1
  /\ line \in 1 .. pos
  /\ pos <= Len(content) => line = LineOf(pos)
  /\ matches \in Seq([start : Nat, end : Nat])
  /\ \A k \in 1 .. Len(matches) :
       matches[k].start < line /\ \E i \in Occurrences : i < pos /\ matches[k] = Selected(i)
  /\ \A i \in Occurrences : i < pos => \E k \in 1 .. Len(matches) : matches[k] = Selected(i)
  /\ \A k, m \in 1 .. Len(matches) : k < m => matches[k].start <= matches[m].start

ResultInv ==
  /\ stage \in {"scanning", "derived", "sent"}
  /\ stage = "scanning" => range = LineRange(0, 0)
  /\ stage # "scanning" =>
       \/ range = LineRange(row, row) /\ (pos = 1 \/ selection = <<>>)
       \/ range = CaretAtTail /\ matches = <<>>
       \/ \E m \in 1 .. Len(matches) : IsPicked(m) /\ range = matches[m]
  /\ wire = IF stage = "sent"
            THEN LineRange(SaturatingSub(range.start, 1), SaturatingSub(range.end, 1))
            ELSE LineRange(0, 0)

SelectionInv == InputInv /\ ScanInv /\ ResultInv

LEMMA InputTexts ==
  ASSUME InputInv
  PROVE  /\ IsText(content) /\ Len(content) <= MaxContent /\ IsText(selection)
         /\ Len(content) \in Nat /\ row \in Nat
         /\ NewlinesIn(selection) \in Nat /\ SpanLines = NewlinesIn(selection) + 1
         /\ Occurrences \subseteq 1 .. Len(content)
         /\ \A i \in Occurrences : StartsWithAt(i)
<1>1. IsText(content) /\ Len(content) <= MaxContent /\ IsText(selection)
  BY TextsAreSequences DEF InputInv
<1>2. NewlinesIn(selection) \in Nat
  BY <1>1, AllNewlines
<1>3. QED
  BY <1>1, <1>2 DEF IsText, InputInv, SpanLines, Occurrences

\* The range of an occurrence.
LEMMA OccurrenceRange ==
  ASSUME InputInv, NEW i \in Occurrences
  PROVE  /\ Selected(i) \in [start : Nat, end : Nat]
         /\ Selected(i).start = LineOf(i) /\ Selected(i).start >= 1
         /\ Selected(i).end = LineOf(i) + NewlinesIn(selection)
         /\ Selected(i).end <= NewlinesIn(content) + 1
<1>1. /\ IsText(content) /\ IsText(selection) /\ i \in 1 .. Len(content) /\ StartsWithAt(i)
      /\ Len(content) \in Nat /\ NewlinesIn(selection) \in Nat
      /\ SpanLines = NewlinesIn(selection) + 1
  BY InputTexts
<1>2. /\ i + Len(selection) \in 1 .. Len(content) + 1
      /\ LineOf(i + Len(selection)) = LineOf(i) + NewlinesIn(selection)
      /\ Selected(i) = LineRange(LineOf(i), LineOf(i) + SpanLines - 1)
  BY <1>1, OccurrenceLines
<1>3. LineOf(i) \in Nat /\ LineOf(i) >= 1
  <2>1. i \in 1 .. Len(content) + 1 /\ i <= i
    BY <1>1
  <2>2. QED
    BY <1>1, <2>1, LinesAscend
<1>4. Selected(i) = [start |-> LineOf(i), end |-> LineOf(i) + NewlinesIn(selection)]
  BY <1>1, <1>2, <1>3 DEF LineRange
<1>5. LineOf(i + Len(selection)) <= NewlinesIn(content) + 1
  <2>1. PICK e \in 1 .. Len(content) + 1 : e = i + Len(selection)
    BY <1>2
  <2>2. Len(content) + 1 \in 1 .. Len(content) + 1 /\ e <= Len(content) + 1
    BY <1>1
  <2>3. LineOf(e) <= LineOf(Len(content) + 1)
    BY <1>1, <2>2, LinesAscend
  <2>4. LineOf(Len(content) + 1) = 1 + NewlinesIn(content) /\ NewlinesIn(content) \in Nat
    BY <1>1, <2>2, LineIsCount, AllNewlines
  <2>5. QED
    BY <2>1, <2>3, <2>4
<1>6. QED
  BY <1>1, <1>2, <1>3, <1>4, <1>5

\* A step that leaves the texts alone.
LEMMA SameTexts ==
  ASSUME UNCHANGED inputs
  PROVE  /\ InputInv' <=> InputInv
         /\ Occurrences' = Occurrences
         /\ \A i \in Occurrences : Selected(i)' = Selected(i)
         /\ \A i : LineOf(i)' = LineOf(i)
         /\ SpanLines' = SpanLines
         /\ CaretAtTail' = CaretAtTail
<1>1. content' = content /\ selection' = selection /\ row' = row
  BY DEF inputs
<1>2. QED
  BY <1>1 DEF InputInv, Occurrences, StartsWithAt, Selected, LineOf, SpanLines, CaretAtTail

\* One line read: its occurrences have been added, and its number is greater than those
\* of all before.
LEMMA ScanOneLine ==
  ASSUME InputInv, ScanInv, ScanLine
  PROVE  ScanInv'
<1> DEFINE hits == {i \in pos .. LineEnd(pos) : StartsWithAt(i)}
           found == LineRange(line, line + SpanLines - 1)
           c == Cardinality(hits)
<1>1. /\ selection # <<>> /\ pos <= Len(content)
      /\ matches' = matches \o [i \in 1 .. c |-> found]
      /\ line' = line + 1 /\ pos' = LineEnd(pos) + 1 /\ UNCHANGED inputs
      /\ content' = content
  BY DEF ScanLine, inputs
<1>2. /\ Occurrences' = Occurrences
      /\ \A i \in Occurrences : Selected(i)' = Selected(i)
      /\ \A i : LineOf(i)' = LineOf(i)
  BY <1>1, SameTexts
<1>3. /\ IsText(content) /\ IsText(selection) /\ NewlinesIn(selection) \in Nat
      /\ SpanLines = NewlinesIn(selection) + 1
      /\ Occurrences \subseteq 1 .. Len(content)
  BY InputTexts
<1>4. PICK n \in Nat : n = Len(content) /\ pos \in 1 .. n /\ line \in 1 .. pos
  BY <1>1, InputTexts DEF ScanInv
<1>5. PICK e \in pos .. n : e = LineEnd(pos)
  BY <1>3, <1>4, LineEnds
<1>6. /\ \A j \in pos .. e : LineOf(j) = line
      /\ e + 1 <= n => LineOf(e + 1) = line + 1
  <2>1. line = LineOf(pos)
    BY <1>1 DEF ScanInv
  <2>2. QED
    BY <1>3, <1>4, <1>5, <2>1, LineScanned
<1>7. found \in [start : Nat, end : Nat] /\ found.start = line
  BY <1>3, <1>4 DEF LineRange
<1>8. \A i : i \in hits <=> i \in Occurrences /\ pos <= i /\ i <= e
  BY <1>1, <1>4, <1>5 DEF Occurrences
<1>9. \A i \in hits : Selected(i) = found
  <2>1. SUFFICES ASSUME NEW i \in hits PROVE Selected(i) = found
    OBVIOUS
  <2>2. i \in 1 .. n /\ StartsWithAt(i) /\ LineOf(i) = line
    BY <1>4, <1>5, <1>6
  <2>3. QED
    BY <1>3, <1>4, <2>2, OccurrenceLines
<1>10. c \in Nat /\ (c = 0 <=> hits = {})
  <2>1. IsFiniteSet(pos .. LineEnd(pos))
    BY <1>4, <1>5, FS_Interval
  <2>2. IsFiniteSet(hits)
    BY <2>1, FS_Subset
  <2>3. QED
    BY <2>2, FS_CardinalityType, FS_EmptySet
<1> HIDE DEF hits, found, c
<1>11. PICK l \in Nat : l = Len(matches) /\ matches \in Seq([start : Nat, end : Nat])
  BY DEF ScanInv
<1>12. /\ matches' \in Seq([start : Nat, end : Nat]) /\ Len(matches') = l + c
       /\ \A k \in 1 .. l : matches'[k] = matches[k]
       /\ \A k \in l + 1 .. l + c : matches'[k] = found
  <2> DEFINE new == [i \in 1 .. c |-> found]
  <2>1. new \in Seq([start : Nat, end : Nat]) /\ Len(new) = c /\ \A i \in 1 .. c : new[i] = found
    BY <1>7, <1>10
  <2> HIDE DEF new
  <2>2. matches' = matches \o new
    BY <1>1 DEF new
  <2>3. PICK d \in Nat : d = c
    BY <1>10
  <2>4. (matches \o new) \in Seq([start : Nat, end : Nat]) /\ Len(matches \o new) = l + d
    BY <1>11, <2>1, <2>3
  <2>5. \A k \in 1 .. l : (matches \o new)[k] = matches[k]
    BY <1>11, <2>1, <2>3
  <2>6. \A k \in l + 1 .. l + d : k - l \in 1 .. d /\ (matches \o new)[k] = new[k - l]
    BY <1>11, <2>1, <2>3
  <2>7. \A k \in l + 1 .. l + d : (matches \o new)[k] = found
    BY <2>1, <2>3, <2>6
  <2>8. QED
    BY <2>2, <2>3, <2>4, <2>5, <2>7
<1>13. \A k \in 1 .. l + c : k \in 1 .. l \/ k \in l + 1 .. l + c
  BY <1>10, <1>11
<1>14. pos' \in 1 .. n + 1 /\ line' \in 1 .. pos' /\ (pos' <= n => line' = LineOf(pos'))
  BY <1>1, <1>4, <1>5, <1>6
<1>15. PICK q, r \in Nat : /\ q = pos /\ r = line /\ q <= n /\ 1 <= r
                            /\ q <= e /\ pos' = e + 1 /\ line' = r + 1 /\ e \in Nat
  BY <1>1, <1>4, <1>5
<1>16. /\ \A k \in 1 .. l : matches[k].start < line
       /\ \A k \in 1 .. l : \E i \in Occurrences : i < pos /\ matches[k] = Selected(i)
       /\ \A i \in Occurrences : i < pos => \E k \in 1 .. l : matches[k] = Selected(i)
       /\ \A k, m \in 1 .. l : k < m => matches[k].start <= matches[m].start
  BY <1>11 DEF ScanInv
<1>17. \A k \in 1 .. l : matches[k].start \in Nat
  <2>1. \A k \in 1 .. l : matches[k] \in [start : Nat, end : Nat]
    BY <1>11, ElementType
  <2>2. QED
    BY <2>1
<1>18. \A i \in Occurrences : i \in Nat /\ i >= 1
  BY <1>3, <1>4
<1>19. ASSUME NEW k \in 1 .. l + c
       PROVE  /\ matches'[k].start < line'
              /\ \E i \in Occurrences : i < pos' /\ matches'[k] = Selected(i)
  <2>1. CASE k \in 1 .. l
    <3>1. matches'[k] = matches[k]
      BY <1>12, <2>1
    <3>2. PICK i \in Occurrences : i < pos /\ matches[k] = Selected(i)
      BY <1>16, <2>1
    <3>3. i < pos'
      BY <1>15, <1>18, <3>2
    <3>4. PICK x \in Nat : x = matches[k].start /\ x < r
      BY <1>15, <1>16, <1>17, <2>1
    <3>5. matches'[k].start < line'
      BY <1>15, <3>1, <3>4
    <3>6. QED
      BY <3>1, <3>2, <3>3, <3>5
  <2>2. CASE k \in l + 1 .. l + c
    <3>1. hits # {}
      BY <1>10, <1>11, <2>2
    <3>2. PICK i \in hits : TRUE
      BY <3>1
    <3>3. i \in Occurrences /\ i <= e
      BY <1>8, <3>2
    <3>4. i < pos'
      BY <1>15, <1>18, <3>3
    <3>5. matches'[k] = found /\ found = Selected(i)
      BY <1>9, <1>12, <2>2, <3>2
    <3>6. matches'[k].start < line'
      BY <1>7, <1>15, <3>5
    <3>7. QED
      BY <3>3, <3>4, <3>5, <3>6
  <2>3. QED
    BY <1>13, <2>1, <2>2
<1>20. ASSUME NEW i \in Occurrences, i < pos'
       PROVE  \E k \in 1 .. l + c : matches'[k] = Selected(i)
  <2>1. i \in Nat /\ i <= e
    BY <1>15, <1>18, <1>20
  <2>2. i < pos \/ i \in hits
    BY <1>8, <1>15, <2>1
  <2>3. CASE i < pos
    <3>1. PICK k \in 1 .. l : matches[k] = Selected(i)
      BY <1>16, <2>3
    <3>2. k \in 1 .. l + c
      BY <1>10, <1>11
    <3>3. QED
      BY <1>12, <3>1, <3>2
  <2>4. CASE i \in hits
    <3>1. l + 1 \in l + 1 .. l + c /\ l + 1 \in 1 .. l + c
      BY <1>10, <1>11, <2>4
    <3>2. QED
      BY <1>9, <1>12, <2>4, <3>1
  <2>5. QED
    BY <2>2, <2>3, <2>4
<1>21. ASSUME NEW k \in 1 .. l + c, NEW m \in 1 .. l + c, k < m
       PROVE  matches'[k].start <= matches'[m].start
  <2>1. CASE m \in 1 .. l
    <3>1. k \in 1 .. l
      BY <1>10, <1>11, <1>21, <2>1
    <3>2. matches[k].start <= matches[m].start
      BY <1>16, <1>21, <2>1, <3>1
    <3>3. QED
      BY <1>12, <2>1, <3>1, <3>2
  <2>2. CASE m \in l + 1 .. l + c
    <3>1. matches'[m].start = r
      BY <1>7, <1>12, <1>15, <2>2
    <3>2. CASE k \in 1 .. l
      <4>1. PICK x \in Nat : x = matches[k].start /\ x < r
        BY <1>15, <1>16, <1>17, <3>2
      <4>2. QED
        BY <1>12, <1>15, <3>1, <3>2, <4>1
    <3>3. CASE k \in l + 1 .. l + c
      BY <1>7, <1>12, <1>15, <3>1, <3>3
    <3>4. QED
      BY <1>13, <3>2, <3>3
  <2>3. QED
    BY <1>13, <2>1, <2>2
<1>22. Len(content') = n /\ Len(matches') = l + c
  BY <1>1, <1>4, <1>12
<1>23. /\ pos' \in 1 .. Len(content') + 1
       /\ line' \in 1 .. pos'
       /\ pos' <= Len(content') => line' = LineOf(pos')
  BY <1>14, <1>22
<1>24. \A i : LineOf(i)' = LineOf(i)
  BY <1>2
<1>25. (pos <= Len(content) => line = LineOf(pos))'
  BY <1>1, <1>23 DEF LineOf
<1>26. (\A k \in 1 .. Len(matches) :
         matches[k].start < line /\ \E i \in Occurrences : i < pos /\ matches[k] = Selected(i))'
  <2>1. SUFFICES ASSUME NEW k \in 1 .. l + c
                 PROVE  /\ matches'[k].start < line'
                        /\ \E i \in Occurrences : i < pos' /\ matches'[k] = Selected(i)'
    BY <1>2, <1>22, Zenon
  <2>2. PICK i \in Occurrences : i < pos' /\ matches'[k] = Selected(i)
    BY <1>19
  <2>3. QED
    BY <1>2, <1>19, <2>2, Zenon
<1>27. (\A i \in Occurrences : i < pos => \E k \in 1 .. Len(matches) : matches[k] = Selected(i))'
  <2>1. SUFFICES ASSUME NEW i \in Occurrences, i < pos'
                 PROVE  \E k \in 1 .. l + c : matches'[k] = Selected(i)'
    BY <1>2, <1>22, Zenon
  <2>2. PICK k \in 1 .. l + c : matches'[k] = Selected(i)
    BY <1>20, <2>1
  <2>3. QED
    BY <1>2, <2>2, Zenon
<1>28. (\A k, m \in 1 .. Len(matches) : k < m => matches[k].start <= matches[m].start)'
  BY <1>21, <1>22
<1>29. QED
  BY <1>12, <1>23, <1>25, <1>26, <1>27, <1>28 DEF ScanInv

\* A step that leaves the search alone.
LEMMA SameScan ==
  ASSUME ScanInv, UNCHANGED <<inputs, line, pos, matches>>
  PROVE  ScanInv'
<1>1. /\ content' = content /\ line' = line /\ pos' = pos /\ matches' = matches
      /\ UNCHANGED inputs
  BY DEF inputs
<1>2. /\ Occurrences' = Occurrences
      /\ \A i \in Occurrences : Selected(i)' = Selected(i)
  BY <1>1, SameTexts
<1>3. LineOf(pos)' = LineOf(pos)
  BY <1>1 DEF LineOf
<1>4. (\A k \in 1 .. Len(matches) :
        matches[k].start < line /\ \E i \in Occurrences : i < pos /\ matches[k] = Selected(i))'
  <2>1. SUFFICES ASSUME NEW k \in 1 .. Len(matches)
                 PROVE  /\ matches[k].start < line
                        /\ \E i \in Occurrences : i < pos /\ matches[k] = Selected(i)'
    BY <1>1, <1>2, Zenon
  <2>2. /\ matches[k].start < line
        /\ \E i \in Occurrences : i < pos /\ matches[k] = Selected(i)
    BY DEF ScanInv
  <2>3. PICK i \in Occurrences : i < pos /\ matches[k] = Selected(i)
    BY <2>2
  <2>4. QED
    BY <1>2, <2>2, <2>3, Zenon
<1>5. (\A i \in Occurrences : i < pos => \E k \in 1 .. Len(matches) : matches[k] = Selected(i))'
  <2>1. SUFFICES ASSUME NEW i \in Occurrences, i < pos
                 PROVE  \E k \in 1 .. Len(matches) : matches[k] = Selected(i)'
    BY <1>1, <1>2, Zenon
  <2>2. \E k \in 1 .. Len(matches) : matches[k] = Selected(i)
    BY <2>1 DEF ScanInv
  <2>3. QED
    BY <1>2, <2>2, Zenon
<1>6. QED
  BY <1>1, <1>3, <1>4, <1>5 DEF ScanInv

LEMMA SelectionInit == Init => SelectionInv
<1>1. SUFFICES ASSUME Init PROVE SelectionInv
  OBVIOUS
<1>2. InputInv
  BY <1>1 DEF Init, InputInv
<1>3. IsText(content) /\ Len(content) \in Nat /\ Occurrences \subseteq 1 .. Len(content)
  BY <1>2, InputTexts
<1>4. pos = 1 /\ line = 1 /\ matches = <<>> /\ Len(matches) = 0
  BY <1>1 DEF Init
<1>5. pos <= Len(content) => line = LineOf(pos)
  <2>1. LineOf(1) = 1 + Cardinality(Newlines(content, 1, 1))
    BY <1>3, LineIsCount
  <2>2. Newlines(content, 1, 1) = {}
    BY <1>3 DEF Newlines
  <2>3. QED
    BY <1>4, <2>1, <2>2, FS_EmptySet
<1>6. ScanInv
  <2>1. matches \in Seq([start : Nat, end : Nat])
    BY <1>4
  <2>2. \A i \in Occurrences : ~(i < pos)
    BY <1>3, <1>4
  <2>3. QED
    BY <1>3, <1>4, <1>5, <2>1, <2>2 DEF ScanInv
<1>7. ResultInv
  BY <1>1 DEF Init, ResultInv
<1>8. QED
  BY <1>2, <1>6, <1>7 DEF SelectionInv

\* A step that derives a range from what has been found.
LEMMA Derives ==
  ASSUME ResultInv, NEW r, Derived(r),
         \/ r = LineRange(row, row) /\ (pos = 1 \/ selection = <<>>)
         \/ r = CaretAtTail /\ matches = <<>>
         \/ \E m \in 1 .. Len(matches) : IsPicked(m) /\ r = matches[m]
  PROVE  ResultInv'
<1>1. /\ stage = "scanning" /\ stage' = "derived" /\ range' = r /\ wire' = wire
      /\ pos' = pos /\ matches' = matches /\ UNCHANGED inputs
      /\ content' = content /\ selection' = selection /\ row' = row
  BY DEF Derived, inputs
<1>2. CaretAtTail' = CaretAtTail
  BY <1>1, SameTexts
<1>3. \A m : IsPicked(m)' = IsPicked(m)
  BY <1>1 DEF IsPicked, Far
<1>4. wire' = LineRange(0, 0)
  BY <1>1 DEF ResultInv
<1>5. \/ range' = LineRange(row', row') /\ (pos' = 1 \/ selection' = <<>>)
      \/ range' = CaretAtTail' /\ matches' = <<>>
      \/ \E m \in 1 .. Len(matches') : IsPicked(m)' /\ range' = matches'[m]
  BY <1>1, <1>2, <1>3, Zenon
<1>6. QED
  BY <1>1, <1>4, <1>5 DEF ResultInv

LEMMA SelectionNext == SelectionInv /\ [Next]_vars => SelectionInv'
<1>1. SUFFICES ASSUME SelectionInv, [Next]_vars PROVE SelectionInv'
  OBVIOUS
<1>2. InputInv /\ ScanInv /\ ResultInv
  BY <1>1 DEF SelectionInv
<1>3. ASSUME NEW r, Derived(r) PROVE InputInv' /\ ScanInv'
  <2>1. UNCHANGED <<inputs, line, pos, matches>> /\ UNCHANGED inputs
    BY <1>3 DEF Derived
  <2>2. QED
    BY <1>2, <2>1, SameTexts, SameScan
<1>4. CASE NoText
  BY <1>2, <1>3, <1>4, Derives DEF NoText, SelectionInv
<1>5. CASE EmptySelection
  BY <1>2, <1>3, <1>5, Derives DEF EmptySelection, SelectionInv
<1>6. CASE ScanLine
  <2>1. /\ UNCHANGED inputs /\ stage = "scanning" /\ stage' = stage /\ range' = range
        /\ wire' = wire
    BY <1>6 DEF ScanLine
  <2>2. InputInv' /\ ScanInv'
    BY <1>2, <1>6, <2>1, SameTexts, ScanOneLine
  <2>3. ResultInv'
    BY <1>2, <2>1 DEF ResultInv
  <2>4. QED
    BY <2>2, <2>3 DEF SelectionInv
<1>7. CASE NotFound
  BY <1>2, <1>3, <1>7, Derives DEF NotFound, SelectionInv
<1>8. CASE Found
  <2>1. PICK m \in 1 .. Len(matches) : IsPicked(m) /\ Derived(matches[m])
    BY <1>8 DEF Found
  <2>2. QED
    BY <1>2, <1>3, <2>1, Derives DEF SelectionInv
<1>9. CASE Broadcast
  <2>1. /\ UNCHANGED <<inputs, line, pos, matches>> /\ UNCHANGED inputs
        /\ stage = "derived" /\ stage' = "sent" /\ range' = range /\ pos' = pos
        /\ matches' = matches
        /\ content' = content /\ selection' = selection /\ row' = row
        /\ wire' = LineRange(SaturatingSub(range.start, 1), SaturatingSub(range.end, 1))
    BY <1>9 DEF Broadcast, inputs
  <2>2. InputInv' /\ ScanInv' /\ CaretAtTail' = CaretAtTail
    BY <1>2, <2>1, SameTexts, SameScan
  <2>3. \A m : IsPicked(m)' = IsPicked(m)
    BY <2>1 DEF IsPicked, Far
  <2>4. \/ range' = LineRange(row', row') /\ (pos' = 1 \/ selection' = <<>>)
        \/ range' = CaretAtTail' /\ matches' = <<>>
        \/ \E m \in 1 .. Len(matches') : IsPicked(m)' /\ range' = matches'[m]
    <3>1. \/ range = LineRange(row, row) /\ (pos = 1 \/ selection = <<>>)
          \/ range = CaretAtTail /\ matches = <<>>
          \/ \E m \in 1 .. Len(matches) : IsPicked(m) /\ range = matches[m]
      BY <1>2, <2>1 DEF ResultInv
    <3>2. QED
      BY <2>1, <2>2, <2>3, <3>1, Zenon
  <2>5. ResultInv'
    BY <2>1, <2>4 DEF ResultInv
  <2>6. QED
    BY <2>2, <2>5 DEF SelectionInv
<1>10. CASE UNCHANGED vars
  <2>1. /\ UNCHANGED <<inputs, line, pos, matches>> /\ UNCHANGED inputs
        /\ stage' = stage /\ range' = range /\ pos' = pos /\ matches' = matches
        /\ content' = content /\ selection' = selection /\ row' = row /\ wire' = wire
    BY <1>10 DEF vars, inputs
  <2>2. InputInv' /\ ScanInv' /\ CaretAtTail' = CaretAtTail
    BY <1>2, <2>1, SameTexts, SameScan
  <2>3. \A m : IsPicked(m)' = IsPicked(m)
    BY <2>1 DEF IsPicked, Far
  <2>4. stage' # "scanning" =>
          \/ range' = LineRange(row', row') /\ (pos' = 1 \/ selection' = <<>>)
          \/ range' = CaretAtTail' /\ matches' = <<>>
          \/ \E m \in 1 .. Len(matches') : IsPicked(m)' /\ range' = matches'[m]
    <3>1. stage # "scanning" =>
            \/ range = LineRange(row, row) /\ (pos = 1 \/ selection = <<>>)
            \/ range = CaretAtTail /\ matches = <<>>
            \/ \E m \in 1 .. Len(matches) : IsPicked(m) /\ range = matches[m]
      BY <1>2 DEF ResultInv
    <3>2. QED
      BY <2>1, <2>2, <2>3, <3>1, Zenon
  <2>5. ResultInv'
    BY <1>2, <2>1, <2>4 DEF ResultInv
  <2>6. QED
    BY <2>2, <2>5 DEF SelectionInv
<1>11. QED
  BY <1>1, <1>4, <1>5, <1>6, <1>7, <1>8, <1>9, <1>10 DEF Next

LEMMA InvariantHolds == Spec => []SelectionInv
<1>1. QED
  BY SelectionInit, SelectionNext, PTL DEF Spec

-----------------------------------------------------------------------------
(* What a search that ran to the end of the file has found.                 *)

LEMMA SearchFound ==
  ASSUME SelectionInv, Searched
  PROVE  /\ Occurrences = {} => range = CaretAtTail
         /\ Occurrences # {} => \E m \in 1 .. Len(matches) : IsPicked(m) /\ range = matches[m]
<1>1. Len(content) \in Nat /\ Occurrences \subseteq 1 .. Len(content)
  BY InputTexts DEF SelectionInv
<1>2. /\ stage # "scanning" /\ selection # <<>> /\ pos > Len(content) /\ pos # 1
      /\ pos \in 1 .. Len(content) + 1
  BY <1>1 DEF Searched, SelectionInv, ScanInv
<1>3. \/ range = CaretAtTail /\ matches = <<>>
      \/ \E m \in 1 .. Len(matches) : IsPicked(m) /\ range = matches[m]
  BY <1>2 DEF SelectionInv, ResultInv
<1>4. /\ \A k \in 1 .. Len(matches) : \E i \in Occurrences : matches[k] = Selected(i)
      /\ \A i \in Occurrences : \E k \in 1 .. Len(matches) : matches[k] = Selected(i)
  <2>1. \A i \in Occurrences : i < pos
    BY <1>1, <1>2
  <2>2. QED
    BY <2>1 DEF SelectionInv, ScanInv
<1>5. matches = <<>> => \A k \in 1 .. Len(matches) : FALSE
  OBVIOUS
<1>6. QED
  BY <1>3, <1>4, <1>5

\* The code's distance of a range from the cursor is the one the property speaks of.
LEMMA FarIsNearness ==
  ASSUME row \in Nat, NEW r \in [start : Nat, end : Nat]
  PROVE  Far(r) = Nearness(r) /\ Far(r) \in Nat
<1>1. PICK s, e \in Nat : s = Distance(r.start, row) /\ e = Distance(r.end, row)
  BY DEF Distance
<1>2. PICK f \in {s, e} : f <= s /\ f <= e /\ f = Far(r)
  BY <1>1 DEF Far
<1>3. \A n \in {s, e} : n <= s /\ n <= e => n = f
  BY <1>2
<1>4. Nearness(r) = CHOOSE n \in {s, e} : n <= s /\ n <= e
  BY <1>1 DEF Nearness
<1>5. QED
  BY <1>2, <1>3, <1>4

\* A range that was derived from a match is that of an occurrence.
LEMMA PickedOccurrence ==
  ASSUME SelectionInv, Searched, Occurrences # {}
  PROVE  \E m \in 1 .. Len(matches), i \in Occurrences :
           IsPicked(m) /\ range = matches[m] /\ matches[m] = Selected(i)
<1>1. PICK m \in 1 .. Len(matches) : IsPicked(m) /\ range = matches[m]
  BY SearchFound
<1>2. PICK i \in Occurrences : matches[m] = Selected(i)
  BY DEF SelectionInv, ScanInv
<1>3. QED
  BY <1>1, <1>2

-----------------------------------------------------------------------------
(* The theorems.                                                            *)

LEMMA TypesHold == SelectionInv => TypeOK
<1>1. SUFFICES ASSUME SelectionInv PROVE TypeOK
  OBVIOUS
<1>2. InputInv /\ ScanInv /\ ResultInv
  BY <1>1 DEF SelectionInv
<1>3. PICK n \in Nat : n = Len(content) /\ n <= MaxContent
  BY <1>2, InputTexts
<1>4. /\ IsText(content) /\ row \in Nat /\ row <= MaxRow
      /\ NewlinesIn(selection) \in Nat /\ SpanLines = NewlinesIn(selection) + 1
  BY <1>2, InputTexts DEF InputInv
<1>5. pos \in 1 .. n + 1 /\ line \in 1 .. pos
  BY <1>2, <1>3 DEF ScanInv
<1>6. pos \in 1 .. MaxContent + 1 /\ line \in 1 .. MaxContent + 1
  BY <1>3, <1>5
<1>7. NewlinesIn(content) \in Nat /\ NewlinesIn(content) <= n
  <2>1. Cardinality(Newlines(content, 1, Len(content) + 1)) <= n
    BY <1>3, <1>4, NewlinesFinite
  <2>2. QED
    BY <1>4, <2>1, AllNewlines
<1>8. ASSUME NEW k \in 1 .. Len(matches)
      PROVE  /\ matches[k].start \in 1 .. line - 1
             /\ matches[k].start \in 0 .. MaxRow + MaxContent + 1
             /\ matches[k].end \in 0 .. MaxRow + MaxContent + 1
  <2>1. PICK i \in Occurrences : matches[k] = Selected(i) /\ matches[k].start < line
    BY <1>2 DEF ScanInv
  <2>2. PICK s, e \in Nat : /\ s = matches[k].start /\ e = matches[k].end
                            /\ 1 <= s /\ s < line /\ e <= NewlinesIn(content) + 1
    BY <1>2, <2>1, OccurrenceRange
  <2>3. QED
    BY <1>3, <1>6, <1>7, <2>2
<1>9. /\ CaretAtTail.start \in 0 .. MaxRow + MaxContent + 1
      /\ CaretAtTail.end \in 0 .. MaxRow + MaxContent + 1
  BY <1>4 DEF CaretAtTail, LineRange, AtLeast, SaturatingSub
<1>10. range.start \in 0 .. MaxRow + MaxContent + 1 /\ range.end \in 0 .. MaxRow + MaxContent + 1
  <2>1. \/ range = LineRange(0, 0)
        \/ range = LineRange(row, row)
        \/ range = CaretAtTail
        \/ \E k \in 1 .. Len(matches) : range = matches[k]
    BY <1>2 DEF ResultInv
  <2>2. QED
    BY <1>4, <1>8, <1>9, <2>1 DEF LineRange
<1>11. wire.start \in 0 .. MaxRow + MaxContent + 1 /\ wire.end \in 0 .. MaxRow + MaxContent + 1
  <2>1. \/ wire = LineRange(0, 0)
        \/ wire = LineRange(SaturatingSub(range.start, 1), SaturatingSub(range.end, 1))
    BY <1>2 DEF ResultInv
  <2>2. QED
    BY <1>10, <2>1 DEF LineRange, SaturatingSub
<1>12. QED
  BY <1>2, <1>6, <1>8, <1>10, <1>11 DEF InputInv, ResultInv, TypeOK

\* Every variable has its type, and the ranges, before and after the conversion, stay
\* within the file, the rows and the one line a caret may stand beyond them.
THEOREM SelectionTypeCorrect == Spec => []TypeOK
<1>1. QED
  BY InvariantHolds, TypesHold, PTL

LEMMA NearestIsPicked == SelectionInv => NearestOccurrence
<1>1. SUFFICES ASSUME SelectionInv, Searched, Occurrences # {}
               PROVE  \E i \in Occurrences :
                        /\ range = Selected(i)
                        /\ \A j \in Occurrences :
                             IF j < i /\ Selected(j) # Selected(i)
                             THEN Nearness(Selected(i)) < Nearness(Selected(j))
                             ELSE Nearness(Selected(i)) <= Nearness(Selected(j))
  BY DEF NearestOccurrence
<1>2. InputInv /\ ScanInv /\ row \in Nat /\ IsText(content) /\ Len(content) \in Nat
      /\ Occurrences \subseteq 1 .. Len(content)
  BY <1>1, InputTexts DEF SelectionInv
<1>3. PICK m \in 1 .. Len(matches), i \in Occurrences :
        IsPicked(m) /\ range = matches[m] /\ matches[m] = Selected(i)
  BY <1>1, PickedOccurrence
<1>4. \A j \in Occurrences : Far(Selected(j)) = Nearness(Selected(j)) /\ Far(Selected(j)) \in Nat
  BY <1>2, OccurrenceRange, FarIsNearness
<1>5. ASSUME NEW j \in Occurrences
      PROVE  IF j < i /\ Selected(j) # Selected(i)
             THEN Nearness(Selected(i)) < Nearness(Selected(j))
             ELSE Nearness(Selected(i)) <= Nearness(Selected(j))
  <2>1. PICK k \in 1 .. Len(matches) : matches[k] = Selected(j)
    <3>1. j < pos
      BY <1>1, <1>2 DEF Searched, ScanInv
    <3>2. QED
      BY <1>2, <3>1 DEF ScanInv
  <2>2. Far(Selected(i)) <= Far(Selected(j))
    BY <1>3, <2>1 DEF IsPicked
  <2>3. ASSUME j < i, Selected(j) # Selected(i) PROVE Far(Selected(i)) < Far(Selected(j))
    <3>1. PICK s, t \in Nat : /\ s = LineOf(j) /\ t = LineOf(i)
                              /\ s = matches[k].start /\ t = matches[m].start
      BY <1>2, <1>3, <2>1, OccurrenceRange
    <3>2. s # t
      <4>1. /\ Selected(j) = LineRange(LineOf(j), LineOf(j) + SpanLines - 1)
            /\ Selected(i) = LineRange(LineOf(i), LineOf(i) + SpanLines - 1)
        BY <1>2, InputTexts, OccurrenceLines
      <4>2. QED
        BY <2>3, <3>1, <4>1
    <3>3. s <= t
      <4>1. j \in 1 .. Len(content) + 1 /\ i \in 1 .. Len(content) + 1 /\ j <= i
        BY <1>2, <2>3
      <4>2. LineOf(j) <= LineOf(i)
        BY <1>2, <4>1, LinesAscend
      <4>3. QED
        BY <3>1, <4>2
    <3>4. ~(m < k) /\ m # k
      <4>1. m < k => t <= s
        BY <1>2, <3>1 DEF ScanInv
      <4>2. QED
        BY <3>1, <3>2, <3>3, <4>1
    <3>5. k \in 1 .. m - 1
      BY <3>4
    <3>6. QED
      BY <1>3, <2>1, <3>5 DEF IsPicked
  <2>4. QED
    BY <1>4, <2>2, <2>3
<1>6. QED
  BY <1>3, <1>5, Zenon

\* A selection that occurs in the file is placed at the occurrence nearest to the cursor
\* row, the first of several: whatever the file, the selection and the row are, the search
\* by lines of selection.rs finds what a search of all positions would.
THEOREM NearestIsDerived == Spec => []NearestOccurrence
<1>1. QED
  BY InvariantHolds, NearestIsPicked, PTL

LEMMA AbsentIsAtCursor == SelectionInv => AbsentEndsAtCursor
<1>1. SUFFICES ASSUME SelectionInv, Searched, Occurrences = {}
               PROVE  /\ range.end = AtLeast(row, 1)
                      /\ range.start >= 1
                      /\ range.end - range.start <= NewlinesIn(selection)
                      /\ range.start > 1 => range.end - range.start = NewlinesIn(selection)
  BY DEF AbsentEndsAtCursor
<1>2. range = CaretAtTail
  BY <1>1, SearchFound
<1>3. row \in Nat /\ NewlinesIn(selection) \in Nat /\ SpanLines = NewlinesIn(selection) + 1
  BY <1>1, InputTexts DEF SelectionInv
<1>4. PICK e \in Nat : e = AtLeast(row, 1) /\ e >= 1
  BY <1>3 DEF AtLeast
<1>5. range = LineRange(AtLeast(SaturatingSub(e, SpanLines - 1), 1), e)
  BY <1>2, <1>4 DEF CaretAtTail
<1>6. QED
  BY <1>3, <1>4, <1>5 DEF LineRange, AtLeast, SaturatingSub

\* One that does not occur ends at the cursor and spans its own lines, or those above it.
THEOREM AbsentIsPlacedAtCursor == Spec => []AbsentEndsAtCursor
<1>1. QED
  BY InvariantHolds, AbsentIsAtCursor, PTL

LEMMA WireIsInFile == SelectionInv => WireRangeIsInFile
<1>1. SUFFICES ASSUME SelectionInv, stage = "sent", Searched, Occurrences # {}
               PROVE  wire.start <= wire.end /\ wire.end <= NewlinesIn(content)
  BY DEF WireRangeIsInFile
<1>2. PICK i \in Occurrences : range = Selected(i)
  BY <1>1, PickedOccurrence
<1>3. InputInv /\ NewlinesIn(selection) \in Nat /\ NewlinesIn(content) \in Nat
  BY <1>1, InputTexts, AllNewlines DEF SelectionInv
<1>4. PICK s, e \in Nat : /\ s = range.start /\ e = range.end /\ 1 <= s
                          /\ e = s + NewlinesIn(selection) /\ e <= NewlinesIn(content) + 1
  BY <1>2, <1>3, OccurrenceRange
<1>5. wire = LineRange(SaturatingSub(s, 1), SaturatingSub(e, 1))
  BY <1>1, <1>4 DEF SelectionInv, ResultInv
<1>6. QED
  BY <1>3, <1>4, <1>5 DEF LineRange, SaturatingSub

\* A selection found in the file is announced on lines that the file has.
THEOREM AnnouncedLinesAreInFile == Spec => []WireRangeIsInFile
<1>1. QED
  BY InvariantHolds, WireIsInFile, PTL
=============================================================================
