------------------------------- MODULE Frame --------------------------------
(***************************************************************************)
(* Where a match is and how a report shows it: the columns of a match in   *)
(* its line (pkg/rules/location.go), the window of a line that is printed   *)
(* with a marker under the match, the source lines around it, and wrapped   *)
(* prose (pkg/report/snippet.go).                                          *)
(*                                                                         *)
(* A text is a sequence of runes, of which only what they take on the      *)
(* screen matters: a tab and an escaped control rune take four columns, an  *)
(* escaped bidi rune six. Offsets count from 0 and columns from 1, as in    *)
(* the code. Ellipsis stands for the mark of a cut.                         *)
(***************************************************************************)
EXTENDS Integers, SequencesExt

Ellipsis == 0

-----------------------------------------------------------------------------
(***************************************************************************)
(* The line of a match, at offsets [start, end) of a text.                 *)
(***************************************************************************)
\* The offsets [start, end) of the line around an offset, without its newline.
lineSpan(text, off) ==
  LET ends == {i \in DOMAIN text : text[i] = "newline"}
  IN [start |-> Max({0} \cup {i \in ends : i <= off}),
      end |-> Min({Len(text)} \cup {i - 1 : i \in {i \in ends : i > off}})]

\* Mutant: a match is not clamped to its first line.
locateAcross(text, m, cap) ==
  LET span == lineSpan(text, m.start)
      line == SubSeq(text, span.start + 1, span.end)
      col == m.start - span.start + 1
  IN [col |-> col, endCol |-> m.end - span.start + 1, line |-> line]

\* Columns of a match, clamped to its line; a line over the cap is cut, or not
\* kept at all when the match begins behind the cut.
locate(text, m, cap) ==
  LET span == lineSpan(text, m.start)
      whole == SubSeq(text, span.start + 1, span.end)
      line == IF whole # <<>> /\ Last(whole) = "return" THEN Front(whole) ELSE whole
      lineEnd == span.start + Len(line)
      off == Min({m.start, lineEnd})
      stop == Min({Max({m.end, off}), lineEnd})
      col == off - span.start + 1
  IN [col |-> col, endCol |-> col + (stop - off),
      line |-> IF Len(line) <= cap THEN line
               ELSE IF col > cap THEN <<>> ELSE SubSeq(line, 1, cap)]

-----------------------------------------------------------------------------
(***************************************************************************)
(* The window of a line.                                                   *)
(***************************************************************************)
Columns(rune) == CASE rune \in {"tab", "control"} -> 4 [] rune = "bidi" -> 6 [] OTHER -> 1

\* What is printed for the runes from..to of a line: for each column, its rune.
Shown(line, from, to) ==
  FlattenSeq([k \in 1..(to - from + 1) |-> [c \in 1..Columns(line[from + k - 1]) |-> from + k - 1]])

clampSpan(c, e, n) ==
  LET first == Min({Max({c, 0}), n}) IN [c |-> first, e |-> Min({Max({e, first}), n})]

clip(cells, n) ==
  IF Len(cells) <= n THEN cells
  ELSE IF n < 1 THEN <<>> ELSE Append(SubSeq(cells, 1, n - 1), Ellipsis)

WindowLead == 8

\* Mutant: the mark of a cut in front takes no column.
lineFrameUnshifted(line, column, endColumn, avail) ==
  LET span == clampSpan(column - 1, endColumn - 1, Len(line))
      full == Shown(line, 1, Len(line))
      before == Len(Shown(line, 1, span.c))
      from == Min({Max({0, before - WindowLead}), Max({0, Len(full) - avail})})
  IN [text |-> SubSeq(full, from + 1, Min({Len(full), from + avail})),
      start |-> before - from + 1, width |-> Len(Shown(line, span.c + 1, span.e))]

\* The columns of a line that are printed from one on, with a mark at every cut.
cutFrom(full, from, avail) ==
  LET left == IF from > 0 THEN avail - 1 ELSE avail
      tail == from + left < Len(full)
  IN (IF from > 0 THEN <<Ellipsis>> ELSE <<>>)
     \o SubSeq(full, from + 1, Min({Len(full), from + (IF tail THEN left - 1 ELSE left)}))
     \o (IF tail THEN <<Ellipsis>> ELSE <<>>)

\* The span that is marked below it: n columns from one on, within the text.
markUnder(text, at, n) ==
  LET start == Max({0, Min({Len(text), at})})
  IN [text |-> text, start |-> start, width |-> Max({1, Min({n, Len(text) - start})})]

\* A line that does not fit begins a little before the match, or so that it ends
\* with its last column.
windowFrom(columns, before, avail) ==
  LET lead == Max({0, before - WindowLead})
  IN IF lead + avail > columns THEN Max({0, columns - avail}) ELSE lead

cutLine(full, before, matched, from, avail) ==
  markUnder(cutFrom(full, from, avail), before - from + (IF from > 0 THEN 1 ELSE 0), matched)

\* The columns of a line that are printed and the span of them that is marked.
lineFrame(line, column, endColumn, avail) ==
  LET span == clampSpan(column - 1, endColumn - 1, Len(line))
      full == Shown(line, 1, Len(line))
      before == Len(Shown(line, 1, span.c))
      matched == Len(Shown(line, span.c + 1, span.e))
  IN IF line = <<>> THEN [text |-> <<>>, start |-> 0, width |-> 0]
     ELSE IF column <= 0 THEN [text |-> clip(full, avail), start |-> 0, width |-> 0]
     ELSE IF Len(full) <= avail THEN [text |-> full, start |-> before, width |-> matched]
     ELSE cutLine(full, before, matched, windowFrom(Len(full), before, avail), avail)

-----------------------------------------------------------------------------
(***************************************************************************)
(* The frame of a finding: [first, last] source lines around it when the    *)
(* source is at hand, its own line, and whether a marker stands below.      *)
(***************************************************************************)
DefaultWidth == 100
MinWidth == 40
MaxWidth == 200

wrapWidth(width) == Min({MaxWidth, Max({MinWidth, IF width = 0 THEN DefaultWidth ELSE width})})

Digits(n) == Cardinality({d \in {1, 10, 100, 1000} : d <= n})

\* The lines of a source of n lines that have the finding, 0 when it is not at hand.
sourceLines(n, startLine) == IF startLine \in 1..n THEN n ELSE 0

\* The lines of a source of n around one.
aroundLine(n, line, context) ==
  IF n = 0 \/ context <= 0 THEN {line} ELSE Max({1, line - context})..Min({n, line + context})

drawFrame(f, n, around, frame) ==
  LET nothing == frame.text = <<>> /\ n = 0
  IN [context |-> IF nothing THEN {} ELSE (around \cap (1..n)) \ {f.startLine},
      own |-> ~nothing, text |-> frame.text, start |-> frame.start, width |-> frame.width,
      marked |-> frame.width > 0 /\ frame.start + frame.width <= Len(frame.text)]

writeFrame(f, n, context, width) ==
  LET lines == sourceLines(n, f.startLine)
      around == aroundLine(lines, f.startLine, context)
      avail == Max({MinWidth \div 2, wrapWidth(width) - Digits(Max(around \cup {1})) - 5})
  IN drawFrame(f, lines, around, lineFrame(f.line, f.column, f.endColumn, avail))

-----------------------------------------------------------------------------
\* Mutant: the space before a word is not counted.
fitsBare(line, word, width) == FoldLeft(+, 0, line) + word <= width

\* A line of words, given by their lengths, has left for one more.
fits(line, word, width) == FoldLeft(+, Len(line), line) + word <= width

\* Words are never split; one that is too long has a line of its own.
wrapLines(words, width) ==
  LET Put(lines, word) ==
        IF lines = <<>> \/ ~fits(Last(lines), word, Max({width, 8})) THEN Append(lines, <<word>>)
        ELSE Append(Front(lines), Append(Last(lines), word))
      lines == FoldLeft(Put, <<>>, words)
  IN IF lines = <<>> THEN << <<>> >> ELSE lines

-----------------------------------------------------------------------------
(***************************************************************************)
(* Properties of these functions, over texts, lines and words up to a      *)
(* number of columns.                                                      *)
(***************************************************************************)
\* The columns of a match name, in the line that is kept, what was matched up to
\* the end of the line it begins in.
LocatesMatch(text, m, cap) ==
  LET at == locate(text, m, cap)
      ends == {i \in (m.start + 1)..m.end :
                 \/ text[i] = "newline"
                 \/ text[i] = "return" /\ (i = Len(text) \/ text[i + 1] = "newline")}
      first == SubSeq(text, m.start + 1, Min({m.end} \cup {i - 1 : i \in ends}))
  IN /\ at.endCol - at.col = Len(first)
     /\ Len(first) > 0 =>
          IF at.col > cap THEN at.line = <<>>
          ELSE SubSeq(at.line, at.col, Min({at.endCol - 1, Len(at.line)}))
                 = SubSeq(first, 1, Min({Len(first), cap - at.col + 1}))

\* A printed line with its number fits the width, the line of the finding is
\* printed, the marker begins under the first rune of the match and stands under
\* nothing but the match and the mark of a cut. In a line that does not fit, the
\* last two columns are given to the second mark, and a match there with them.
MarksMatch(f, lines, width) ==
  LET matched == f.column..(Min({f.endColumn, Len(f.line) + 1}) - 1)
      full == Len(Shown(f.line, 1, Len(f.line)))
      ahead == Len(Shown(f.line, 1, f.column - 1))
  IN \A frame \in {writeFrame(f, lines, 2, width)} :
       LET span == (frame.start + 1)..(frame.start + frame.width)
           behind == full > Len(frame.text) /\ ahead > full - 3
       IN /\ Len(frame.text) + Digits(Max({f.startLine} \cup frame.context)) + 5 <= wrapWidth(width)
          /\ f.line # <<>> => frame.own
          /\ f.column > 0 /\ matched # {} /\ ~behind =>
               /\ frame.marked /\ span # {}
               /\ frame.text[frame.start + 1] = f.column
               /\ \A k \in span : frame.text[k] \in matched \cup {Ellipsis}

\* Wrapping keeps every word and their order, a line fits or is one word, and no
\* word could have stood on the line before.
WrapsWords(words, width) ==
  LET lines == wrapLines(words, width)
      Wide(line) == FoldLeft(+, Len(line) - 1, line)
  IN /\ FlattenSeq(lines) = words
     /\ \A i \in DOMAIN lines :
          /\ Len(lines[i]) <= 1 \/ Wide(lines[i]) <= Max({width, 8})
          /\ i > 1 => Wide(Append(lines[i - 1], lines[i][1])) > Max({width, 8})

\* All three, for lines with runes of every width, over and under what fits.
FramesHoldUpTo(max) ==
  /\ \A n \in 1..5 : \A text \in [1..n -> {"plain", "newline", "return"}] :
       \A first \in 0..n : \A last \in first..n : \A cap \in {2, 5} :
         LocatesMatch(text, [start |-> first, end |-> last], cap)
  /\ \A n \in {0, 3, max}, wide \in SUBSET {2, 7, max - 1}, lines \in {0, 12} :
       LET line == [i \in 1..n |-> IF i \notin wide THEN "plain" ELSE IF i = 7 THEN "tab" ELSE "bidi"]
       IN \A column \in 0..(n + 1) : \A endColumn \in column..(n + 2) :
            MarksMatch([line |-> line, column |-> column, endColumn |-> endColumn, startLine |-> 9],
                       lines, 1)
  /\ \A words \in UNION {[1..n -> {1, 3, 8, 20}] : n \in 0..4}, width \in {0, 12} :
       WrapsWords(words, width)

=============================================================================
