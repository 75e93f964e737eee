----------------------------- MODULE Selection ------------------------------
(***************************************************************************)
(* How one `zcc send` turns the selected text and the cursor row into the  *)
(* line range that Claude is told: derive and search_in_file of            *)
(* selection.rs, the fallback of send.rs when the file cannot be read, and *)
(* the conversion to 0-based lines of daemon/ipc.rs.                       *)
(*                                                                         *)
(* A text is a sequence of characters, of which only the newline matters.  *)
(* Rows and lines are far below 2^32.                                      *)
(* A definition whose comment starts with "Slip" is not the code's: it is  *)
(* the one that follows it with a mistake, put in its place to see that a  *)
(* property notices.                                                       *)
(***************************************************************************)
EXTENDS Integers, Sequences, FiniteSets

CONSTANTS
  NL,            \* the newline
  Letters,       \* the other characters
  MaxContent,    \* bound on the length of the file
  MaxSelection,  \* bound on the length of the selection
  MaxRow         \* bound on the cursor row

ASSUME TextAssumption ==
  /\ NL \notin Letters
  /\ MaxContent \in Nat
  /\ MaxSelection \in Nat
  /\ MaxRow \in Nat

VARIABLES
  content,    \* the file
  selection,  \* the selected text
  row,        \* the cursor row, 1-based; the command line accepts a 0
  stage,      \* "scanning" lines, "derived", "sent"
  line,       \* line_idx + 1
  pos,        \* first character of that line
  matches,    \* the ranges found so far
  range,      \* what derive returns
  wire        \* what the daemon broadcasts

inputs == <<content, selection, row>>
vars == <<inputs, stage, line, pos, matches, range, wire>>

-----------------------------------------------------------------------------
LineRange(start, end) == [start |-> start, end |-> end]

\* The larger of two numbers, and subtraction that stops at 0.
AtLeast(n, low) == IF n < low THEN low ELSE n

SaturatingSub(m, n) == IF m < n THEN 0 ELSE m - n

Distance(m, n) == IF m < n THEN n - m ELSE m - n

\* Texts of n characters at most.
Texts(n) == UNION {[1 .. k -> Letters \cup {NL}] : k \in 0 .. n}

NewlinesIn(s) == Cardinality({i \in 1 .. Len(s) : s[i] = NL})

\* span_lines
SpanLines == NewlinesIn(selection) + 1

\* content[i..].starts_with(selection)
StartsWithAt(i) ==
  /\ i + Len(selection) - 1 <= Len(content)
  /\ \A j \in 1 .. Len(selection) : content[i + j - 1] = selection[j]

\* Last character of the line that starts at i (split_inclusive).
LineEnd(i) ==
  CHOOSE e \in i .. Len(content) :
    /\ content[e] = NL \/ e = Len(content)
    /\ \A j \in i .. e - 1 : content[j] # NL

\* Slip: measures from the start of the range only.
FarFromStart(r) == Distance(r.start, row)

\* How far a range's nearer end is from the cursor row.
Far(r) ==
  LET s == Distance(r.start, row)
      e == Distance(r.end, row)
  IN  IF s < e THEN s ELSE e

\* min_by_key takes the first of equals.
IsPicked(i) ==
  /\ \A j \in 1 .. Len(matches) : Far(matches[i]) <= Far(matches[j])
  /\ \A j \in 1 .. i - 1 : Far(matches[i]) < Far(matches[j])

\* Slip: no lower bound on the start.
CaretAtTailUnbounded == LineRange(AtLeast(row, 1) - (SpanLines - 1), AtLeast(row, 1))

\* The caret is taken to be at the end of a selection that is not in the file.
CaretAtTail ==
  LET end == AtLeast(row, 1)
  IN  LineRange(AtLeast(SaturatingSub(end, SpanLines - 1), 1), end)

-----------------------------------------------------------------------------
Init ==
  /\ content \in Texts(MaxContent)
  /\ selection \in Texts(MaxSelection)
  /\ row \in 0 .. MaxRow
  /\ stage = "scanning"
  /\ line = 1
  /\ pos = 1
  /\ matches = <<>>
  /\ range = LineRange(0, 0)
  /\ wire = LineRange(0, 0)

Derived(r) ==
  /\ stage = "scanning"
  /\ stage' = "derived"
  /\ range' = r
  /\ UNCHANGED <<inputs, line, pos, matches, wire>>

\* read_to_string fails (no file, no permission, not UTF-8), or nothing is
\* selected: the cursor row alone.
NoText ==
  /\ pos = 1
  /\ Derived(LineRange(row, row))

EmptySelection ==
  /\ selection = <<>>
  /\ Derived(LineRange(row, row))

\* One turn of the outer loop: every position of the line at which the
\* selection starts gives a match.
ScanLine ==
  LET hits == {i \in pos .. LineEnd(pos) : StartsWithAt(i)}
      found == LineRange(line, line + SpanLines - 1)
  IN  /\ stage = "scanning"
      /\ selection # <<>>
      /\ pos <= Len(content)
      /\ matches' = matches \o [i \in 1 .. Cardinality(hits) |-> found]
      /\ line' = line + 1
      /\ pos' = LineEnd(pos) + 1
      /\ UNCHANGED <<inputs, stage, range, wire>>

\* After the last line: no match, or the one that is picked.
NotFound ==
  /\ selection # <<>>
  /\ pos > Len(content)
  /\ matches = <<>>
  /\ Derived(CaretAtTail)

Found ==
  /\ selection # <<>>
  /\ pos > Len(content)
  /\ \E i \in 1 .. Len(matches) : IsPicked(i) /\ Derived(matches[i])

\* Slip: the lines are 0-based already.
BroadcastAsIs ==
  /\ stage = "derived"
  /\ stage' = "sent"
  /\ wire' = range
  /\ UNCHANGED <<inputs, line, pos, matches, range>>

\* payload_to_broadcast.
Broadcast ==
  /\ stage = "derived"
  /\ stage' = "sent"
  /\ wire' = LineRange(SaturatingSub(range.start, 1), SaturatingSub(range.end, 1))
  /\ UNCHANGED <<inputs, line, pos, matches, range>>

Next ==
  \/ NoText
  \/ EmptySelection
  \/ ScanLine
  \/ NotFound
  \/ Found
  \/ Broadcast

Spec == Init /\ [][Next]_vars

-----------------------------------------------------------------------------
(* Properties.  They speak of positions in the text, the code of lines.    *)

TypeOK ==
  /\ content \in Texts(MaxContent)
  /\ selection \in Texts(MaxSelection)
  /\ row \in 0 .. MaxRow
  /\ stage \in {"scanning", "derived", "sent"}
  /\ line \in 1 .. MaxContent + 1
  /\ pos \in 1 .. MaxContent + 1
  /\ \A i \in 1 .. Len(matches) : matches[i].start \in 1 .. line - 1
  /\ {range.start, range.end, wire.start, wire.end}
       \subseteq 0 .. MaxRow + MaxContent + 1

\* Line of the i-th character, counted from 1.
LineOf(i) == 1 + NewlinesIn(SubSeq(content, 1, i - 1))

Occurrences == {i \in 1 .. Len(content) : selection # <<>> /\ StartsWithAt(i)}

\* The lines on which the selection made at position i starts and on which the
\* caret stands after it.
Selected(i) == LineRange(LineOf(i), LineOf(i + Len(selection)))

\* How far the nearer end of a range is from the cursor row.
Nearness(r) ==
  CHOOSE n \in {Distance(r.start, row), Distance(r.end, row)} :
    n <= Distance(r.start, row) /\ n <= Distance(r.end, row)

\* The text was searched.
Searched == stage # "scanning" /\ selection # <<>> /\ pos > Len(content) /\ pos > 1

\* A selection that occurs in the file is placed at the occurrence with an end
\* nearest to the cursor row, the first one of several (selection.rs:14-16).
NearestOccurrence ==
  Searched /\ Occurrences # {} =>
    \E i \in Occurrences :
      /\ range = Selected(i)
      /\ \A j \in Occurrences :
           IF j < i /\ Selected(j) # Selected(i)
           THEN Nearness(Selected(i)) < Nearness(Selected(j))
           ELSE Nearness(Selected(i)) <= Nearness(Selected(j))

\* One that does not ends at the cursor and spans as many lines as it has, or as
\* there are above (selection.rs:16-17).
AbsentEndsAtCursor ==
  Searched /\ Occurrences = {} =>
    /\ range.end = AtLeast(row, 1)
    /\ range.start >= 1
    /\ range.end - range.start <= NewlinesIn(selection)
    /\ range.start > 1 => range.end - range.start = NewlinesIn(selection)

\* A selection found in the file is announced on lines the file has, counted from
\* 0; the caret after a final newline stands on a line of its own (ipc.rs:41-45).
WireRangeIsInFile ==
  stage = "sent" /\ Searched /\ Occurrences # {} =>
    /\ wire.start <= wire.end
    /\ wire.end <= NewlinesIn(content)
=============================================================================
