------------------------------ MODULE VtScreen ------------------------------
(***************************************************************************)
(* The screens of the vendored VT model, as far as the terminal engine     *)
(* depends on them: the rows of a screen, the scrollback above them, and   *)
(* the identity of every row.  A logical line keeps one number however it  *)
(* is wrapped; the rows it is wrapped into differ by their cell offset.    *)
(* Columns, rows and the cursor count from 0, the rows of a screen from 1. *)
(* Every glyph is one column wide, the scroll region is the whole screen,  *)
(* and the scrollback is limited in rows (its byte limit is left out).     *)
(***************************************************************************)
EXTENDS Naturals, Integers, Sequences, SequencesExt

Blank == [glyph |-> " ", style |-> 0, link |-> 0]

Blanks(n) == [i \in 1..n |-> Blank]

NewLine(id, seq) == [id |-> id, cells |-> <<>>, wrapped |-> FALSE, version |-> seq]

IsWhitespace(line) == \A i \in DOMAIN line.cells : line.cells[i].glyph = " "

\* The line numbers of the alternate screen start far above the primary's.
FirstId(scrollback) == IF scrollback THEN 1 ELSE 100

NewScreen(rows, scrollback, seq) ==
  [lines |-> [i \in 1..rows |-> NewLine(<<FirstId(scrollback) + i - 1, 0>>, seq)],
   next |-> FirstId(scrollback) + rows, epoch |-> 1, scrollback |-> scrollback, saved |-> <<>>]

ViewportStart(s, rows) == Len(s.lines) - rows

\* phys_row, as an index of lines: row y of the viewport.
PhysRow(s, rows, y) ==
  (IF Len(s.lines) > rows THEN Len(s.lines) - rows ELSE 0) + (IF y < 0 THEN 0 ELSE y) + 1

\* A row that the line before it was wrapped onto continues that line.
PropagateWrapped(s, cols) ==
  LET Continue(done, line) ==
        IF done # <<>> /\ Last(done).wrapped
        THEN Append(done, [line EXCEPT !.id = <<Last(done).id[1], Last(done).id[2] + cols>>])
        ELSE Append(done, line)
  IN [s EXCEPT !.lines = FoldLeft(Continue, <<>>, s.lines)]

\* An edit that breaks the order of the identities gives every row a new one.
RebaseLineIdentities(s) ==
  [s EXCEPT !.lines = [i \in DOMAIN s.lines |-> [s.lines[i] EXCEPT !.id = <<s.next + i - 1, 0>>]],
            !.next = s.next + Len(s.lines),
            !.epoch = @ + 1]

\* The end of every update: a row that stopped being a continuation and still
\* has the number of its old line forces new identities.
FinishUpdate(s, cols) ==
  LET broken == \E i \in 2..Len(s.lines) :
                  ~s.lines[i - 1].wrapped /\ s.lines[i - 1].id[1] = s.lines[i].id[1]
  IN PropagateWrapped(IF broken THEN RebaseLineIdentities(s) ELSE s, cols)

TrimHistory(s, rows, limit) ==
  LET keep == rows + (IF s.scrollback THEN limit ELSE 0)
  IN IF Len(s.lines) > keep
     THEN [s EXCEPT !.lines = SubSeq(@, Len(@) - keep + 1, Len(@))] ELSE s

\* A line feed at the bottom: the top row goes to the scrollback of the primary
\* screen, and is lost from the alternate one, where all rows move.
ScrollUp(s, rows, cols, limit, seq) ==
  LET p == PropagateWrapped(s, cols)
      moved == IF p.scrollback THEN p.lines
               ELSE [i \in DOMAIN p.lines |-> [p.lines[i] EXCEPT !.version = seq]]
  IN TrimHistory([p EXCEPT !.lines = Append(moved, NewLine(<<p.next, 0>>, seq)),
                           !.next = @ + 1], rows, limit)

\* A line inserted at row y: the last row is lost.
ScrollDown(s, rows, y, seq) ==
  LET at == PhysRow(s, rows, y)
      moved == [i \in 1..(Len(s.lines) - 1) |->
                  IF i < at THEN s.lines[i] ELSE [s.lines[i] EXCEPT !.version = seq]]
  IN RebaseLineIdentities([s EXCEPT !.lines = InsertAt(moved, at, NewLine(<<s.next, 0>>, seq)),
                                    !.next = @ + 1])

EraseScrollback(s, rows) ==
  [s EXCEPT !.lines = SubSeq(@, Len(@) - rows + 1, Len(@))]

\* The last cell carries the mark that the line goes on in the next row, so
\* writing over it, or after it, removes the mark.
SetCell(line, x, cell, seq) ==
  LET padded == line.cells \o Blanks(x - Len(line.cells))
  IN [line EXCEPT !.cells = IF x < Len(padded) THEN ReplaceAt(padded, x + 1, cell)
                            ELSE Append(padded, cell),
                  !.wrapped = @ /\ x + 1 < Len(line.cells),
                  !.version = seq]

ClearLine(line, cols, seq) ==
  [line EXCEPT !.cells = [i \in 1..(IF Len(@) > cols THEN Len(@) ELSE cols) |->
                            IF i <= cols THEN Blank ELSE @[i]],
               !.wrapped = @ /\ Len(line.cells) > cols,
               !.version = seq]

MarkWrapped(line, seq) ==
  [line EXCEPT !.cells = IF @ = <<>> THEN <<Blank>> ELSE @, !.wrapped = TRUE, !.version = seq]

\* A joined line cut into rows of the new width; trailing blanks are cut off.
Wrap(cells, id, cols, seq) ==
  LET inked == {i \in DOMAIN cells : cells[i].glyph # " "}
      end == CHOOSE i \in inked : \A j \in inked : j <= i
      count == (end + cols - 1) \div cols
      Piece(k) == [id |-> <<id[1], id[2] + (k - 1) * cols>>,
                   cells |-> SubSeq(cells, (k - 1) * cols + 1, IF k = count THEN end ELSE k * cols),
                   wrapped |-> k < count, version |-> seq]
  IN IF Len(cells) <= cols \/ inked = {}
     THEN <<[id |-> id, cells |-> cells, wrapped |-> FALSE, version |-> seq]>>
     ELSE [k \in 1..count |-> Piece(k)]

\* Where the cursor goes that was cell at of a line now cut into rows of cols
\* cells, with before rows above it.
Adjusted(at, before, x, oldCols, cols) ==
  IF at % cols = 0 /\ before + at \div cols > 0
  THEN <<IF cols < oldCols THEN x ELSE cols, before + at \div cols - 1>>
  ELSE <<at % cols, before + at \div cols>>

\* Blank rows after the last of the screen are dropped while there are too many.
DropBlankEnd(lines, most) ==
  LET needed == {i \in DOMAIN lines : i <= most \/ ~IsWhitespace(lines[i])}
  IN SubSeq(lines, 1, CHOOSE i \in needed : \A j \in needed : j <= i)

\* Join the rows of every logical line and cut it again.  The cursor, at column
\* x of row y (counted from 0 over all rows), moves with its line.
RewrapLines(lines, oldCols, rows, cols, limit, x, y, seq) ==
  LET Cut(acc, i, joined, id, at) ==
        IF lines[i].wrapped
        THEN [acc EXCEPT !.cells = joined, !.id = id, !.open = TRUE, !.at = at]
        ELSE [acc EXCEPT !.lines = @ \o Wrap(joined, id, cols, seq), !.cells = <<>>,
                         !.open = FALSE, !.at = -1,
                         !.cursor = IF at >= 0 THEN Adjusted(at, Len(acc.lines), x, oldCols, cols)
                                    ELSE @]
      Step(acc, i) ==
        Cut(acc, i, acc.cells \o lines[i].cells, IF acc.open THEN acc.id ELSE lines[i].id,
            IF i - 1 = y THEN x + Len(acc.cells) ELSE acc.at)
      start == [lines |-> <<>>, cells |-> <<>>, id |-> <<0, 0>>, open |-> FALSE, at |-> -1,
                cursor |-> <<x, y>>]
      done(acc) == [lines |-> DropBlankEnd(acc.lines, rows + limit), cursor |-> acc.cursor]
  IN done(FoldLeft(Step, start, [i \in DOMAIN lines |-> i]))

\* A row of the alternate screen is cut, never wrapped.
CutLine(line, old, new, seq) ==
  IF new.cols >= old.cols THEN [line EXCEPT !.version = seq]
  ELSE [line EXCEPT !.cells = SubSeq(line.cells \o Blanks(new.cols), 1, new.cols),
                    !.wrapped = @ /\ Len(line.cells) = new.cols, !.version = seq]

\* Missing rows are added at the bottom.
FillScreen(s, fitted, new, limit, seq) ==
  LET missing == IF Len(fitted.lines) < new.rows THEN new.rows - Len(fitted.lines) ELSE 0
      padded == fitted.lines \o [i \in 1..missing |-> NewLine(<<s.next + i - 1, 0>>, seq)]
  IN [screen |-> TrimHistory([s EXCEPT !.lines = padded, !.next = @ + missing], new.rows, limit),
      x |-> fitted.cursor[1], y |-> fitted.cursor[2] - (Len(padded) - new.rows)]

\* Blank rows below the cursor go first; then the primary screen is rewrapped,
\* the alternate one cut.
ResizeScreen(s, old, new, limit, cursor, seq) ==
  LET Fit(lines, at) ==
        IF new.cols # old.cols /\ s.scrollback
        THEN RewrapLines(lines, old.cols, new.rows, new.cols, limit, cursor.x, at, seq)
        ELSE [lines |-> IF new.cols = old.cols THEN lines
                        ELSE [i \in DOMAIN lines |-> CutLine(lines[i], old, new, seq)],
              cursor |-> <<cursor.x, at>>]
      at == PhysRow(s, old.rows, cursor.y)
  IN IF new = old THEN [screen |-> s, x |-> cursor.x, y |-> cursor.y]
     ELSE FillScreen(s, Fit(DropBlankEnd(s.lines, at), at - 1), new, limit, seq)
=============================================================================
