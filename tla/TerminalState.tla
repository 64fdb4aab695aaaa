--------------------------- MODULE TerminalState ---------------------------
(***************************************************************************)
(* The semantic terminal state that the worker sends and the client keeps: *)
(* when a state or a page of history is valid, and the two ways to send a  *)
(* state as its difference from one that the receiver has: row by row      *)
(* (reliable diffs) and cell by cell (viewport datagrams).                 *)
(*                                                                         *)
(* A state has its two screens, its tables of styles and hyperlinks and    *)
(* its attributes (modes, title, working directory, palette).  Styles,     *)
(* hyperlinks and attribute values are opaque; margins and tab stops are   *)
(* left out.                                                               *)
(***************************************************************************)
EXTENDS Naturals, Sequences, SequencesExt

Attributes == {"modes", "title", "working_directory", "palette"}

\* The order of the rows of a screen.
AnchorLess(a, b) == a[1] < b[1] \/ (a[1] = b[1] /\ a[2] < b[2])

AnchorLeq(a, b) == a = b \/ AnchorLess(a, b)

ValidCells(row, cols, styles, links) ==
  \A i \in DOMAIN row.cells :
    LET cell == row.cells[i]
    IN /\ cell.column + 1 <= cols
       /\ i > 1 => cell.column >= row.cells[i - 1].column + 1
       /\ cell.style \in 0..Len(styles)
       /\ cell.link \in 0..Len(links)

ValidRows(rows, cols, generation, styles, links) ==
  \A i \in DOMAIN rows :
    /\ rows[i].start[1] # 0
    /\ rows[i].version \in 1..generation
    /\ i > 1 => AnchorLess(rows[i - 1].start, rows[i].start)
    /\ i < Len(rows) =>
         IF rows[i].wrapped
         THEN rows[i + 1].start = <<rows[i].start[1], rows[i].start[2] + cols>>
         ELSE rows[i + 1].start[1] > rows[i].start[1]
    /\ ValidCells(rows[i], cols, styles, links)

ValidCursor(c, screen, state) ==
  /\ c.x < state.cols /\ c.y < state.rows
  /\ c.version \in 1..state.generation
  /\ LET row == screen.rows[screen.viewport + c.y + 1].start
     IN c.anchor = <<row[1], row[2] + c.x>>

ValidScreen(screen, alternate, state) ==
  /\ screen.rows # <<>>
  /\ alternate => screen.viewport = 0 /\ Len(screen.rows) = state.rows
  /\ screen.viewport + state.rows <= Len(screen.rows)
  /\ AnchorLeq(screen.oldest, screen.first)
  /\ AnchorLeq(screen.first, screen.last)
  /\ AnchorLeq(screen.last, screen.newest)
  /\ screen.rows[1].start = screen.first /\ Last(screen.rows).start = screen.last
  /\ ValidRows(screen.rows, state.cols, state.generation, state.styles, state.links)
  /\ ValidCursor(screen.cursor, screen, state)
  /\ \A i \in DOMAIN screen.saved : ValidCursor(screen.saved[i], screen, state)

\* No two entries of a table are the same.
ValidTable(t) == \A i, j \in DOMAIN t : t[i] = t[j] => i = j

Validate(state, maxRows) ==
  /\ state.generation > 0
  /\ state.rows > 0 /\ state.cols > 0
  /\ ValidTable(state.styles) /\ ValidTable(state.links)
  /\ Len(state.primary.rows) + Len(state.alternate.rows) <= maxRows
  /\ ValidScreen(state.primary, FALSE, state)
  /\ ValidScreen(state.alternate, TRUE, state)

\* A live viewport has the rows on the screen and no scrollback.
ValidateViewport(state, maxRows) ==
  /\ Validate(state, maxRows)
  /\ state.primary.viewport = 0 /\ Len(state.primary.rows) = state.rows
  /\ state.alternate.viewport = 0 /\ Len(state.alternate.rows) = state.rows

ValidateHistoryPage(page, maxPage) ==
  /\ page.generation > 0 /\ page.cols > 0
  /\ AnchorLeq(page.oldest, page.newest)
  /\ page.reset => page.rows = <<>> /\ ~page.more
  /\ page.rows = <<>> => page.styles = <<>> /\ page.links = <<>> /\ ~page.more
  /\ Len(page.rows) <= maxPage
  /\ page.rows # <<>> =>
       /\ AnchorLeq(page.oldest, page.rows[1].start)
       /\ AnchorLeq(page.rows[1].start, Last(page.rows).start)
       /\ AnchorLeq(Last(page.rows).start, page.newest)
       /\ page.more = AnchorLess(page.oldest, page.rows[1].start)
       /\ ValidTable(page.styles) /\ ValidTable(page.links)
       /\ ValidRows(page.rows, page.cols, page.generation, page.styles, page.links)

\* A state without its rows.
StateMetadata(state) ==
  [state EXCEPT !.primary.rows = <<>>, !.alternate.rows = <<>>]

Screens == {"primary", "alternate"}

-----------------------------------------------------------------------------
(* Reliable diffs: a row is named by its anchor where the base has it       *)
(* unchanged, and sent whole otherwise.                                     *)

RowByAnchor(rows, anchor) == SelectInSeq(rows, LAMBDA row : row.start = anchor)

\* Mutant: rows are compared by their version.
DiffRowVersions(base, target) ==
  [i \in DOMAIN target |->
     LET at == RowByAnchor(base, target[i].start)
     IN IF at # 0 /\ base[at].version = target[i].version
        THEN [source |-> "base", anchor |-> target[i].start]
        ELSE [source |-> "replacement", row |-> target[i]]]

DiffRows(base, target) ==
  [i \in DOMAIN target |->
     LET at == RowByAnchor(base, target[i].start)
     IN IF at # 0 /\ base[at] = target[i]
        THEN [source |-> "base", anchor |-> target[i].start]
        ELSE [source |-> "replacement", row |-> target[i]]]

ApplyRows(base, rows) ==
  [i \in DOMAIN rows |->
     IF rows[i].source = "base" THEN base[RowByAnchor(base, rows[i].anchor)] ELSE rows[i].row]

CanDiff(base, target) == base.epoch = target.epoch /\ target.generation > base.generation

TerminalStateDiff(base, target) ==
  [base |-> base.generation, metadata |-> StateMetadata(target),
   rows |-> [s \in Screens |-> DiffRows(base[s].rows, target[s].rows)]]

ApplyTerminalStateDiff(base, diff) ==
  [diff.metadata EXCEPT !.primary.rows = ApplyRows(base.primary.rows, diff.rows["primary"]),
                        !.alternate.rows = ApplyRows(base.alternate.rows, diff.rows["alternate"])]

-----------------------------------------------------------------------------
(* Viewport datagrams: the cells of a row that changed, spliced into a row  *)
(* of the base; tables and attributes that did not change are left out.     *)

\* How many cells a and b have in common at their start, and at their end.
PrefixLength(a, b) ==
  CHOOSE n \in 0..(IF Len(a) < Len(b) THEN Len(a) ELSE Len(b)) :
    /\ \A i \in 1..n : a[i] = b[i]
    /\ n < Len(a) /\ n < Len(b) => a[n + 1] # b[n + 1]

SuffixLength(a, b) == PrefixLength(Reverse(a), Reverse(b))

\* The row a patch starts from is the one with the same anchor, wherever it is.
RowPatch(base, target, i) ==
  LET at == RowByAnchor(base, target[i].start)
      from == IF at # 0 THEN at ELSE i
      old == base[from].cells
      new == target[i].cells
      prefix == PrefixLength(old, new)
      suffix == SuffixLength(SubSeq(old, prefix + 1, Len(old)), SubSeq(new, prefix + 1, Len(new)))
  IN [index |-> i, base |-> from, metadata |-> [target[i] EXCEPT !.cells = <<>>],
      start |-> prefix, delete |-> Len(old) - prefix - suffix,
      cells |-> SubSeq(new, prefix + 1, Len(new) - suffix)]

SparseRowPatches(base, target) ==
  LET changed == SelectSeq([i \in DOMAIN target |-> i], LAMBDA i : target[i] # base[i])
  IN [k \in DOMAIN changed |-> RowPatch(base, target, changed[k])]

ApplySparseRows(base, patches) ==
  LET Splice(p) ==
        LET old == base[p.base].cells
        IN [p.metadata EXCEPT !.cells = SubSeq(old, 1, p.start) \o p.cells
                                          \o SubSeq(old, p.start + p.delete + 1, Len(old))]
  IN FoldLeft(LAMBDA rows, p : [rows EXCEPT ![p.index] = Splice(p)], base, patches)

\* Patches that the receiver refuses: a row twice, or cells the base row lacks.
PatchesFit(base, patches) ==
  /\ \A i, j \in DOMAIN patches : patches[i].index = patches[j].index => i = j
  /\ \A i \in DOMAIN patches :
       /\ patches[i].index \in DOMAIN base /\ patches[i].base \in DOMAIN base
       /\ patches[i].start + patches[i].delete <= Len(base[patches[i].base].cells)

Inherited(base, target) ==
  {f \in Attributes : target.attributes[f] = base.attributes[f]}
    \union {f \in {"styles", "links"} : target[f] = base[f]}

CompactViewport(base, target) ==
  LET same == Inherited(base, target)
      bare == [StateMetadata(target) EXCEPT
                 !.styles = IF "styles" \in same THEN <<>> ELSE @,
                 !.links = IF "links" \in same THEN <<>> ELSE @,
                 !.attributes = [f \in Attributes |-> IF f \in same THEN "absent" ELSE @[f]]]
  IN [base |-> base.generation, inherited |-> same, metadata |-> bare,
      patches |-> [s \in Screens |-> SparseRowPatches(base[s].rows, target[s].rows)]]

ApplyCompactViewport(base, delta) ==
  [delta.metadata EXCEPT
     !.styles = IF "styles" \in delta.inherited THEN base.styles ELSE @,
     !.links = IF "links" \in delta.inherited THEN base.links ELSE @,
     !.attributes = [f \in Attributes |->
                       IF f \in delta.inherited THEN base.attributes[f] ELSE @[f]],
     !.primary.rows = ApplySparseRows(base.primary.rows, delta.patches["primary"]),
     !.alternate.rows = ApplySparseRows(base.alternate.rows, delta.patches["alternate"])]
=============================================================================
