--------------------------- MODULE TerminalEngine ---------------------------
(***************************************************************************)
(* The engine of one terminal: output and resizes go into the VT model,    *)
(* and the state that clients see is exported from it.  A peer holds the   *)
(* last viewport it was sent and draws it on a local terminal.             *)
(*                                                                         *)
(* term is the VT model; engine what TerminalEngine keeps beside it: its   *)
(* epoch, the identity epoch and sequence number the epoch began with, and *)
(* the cached viewport.  held is the viewport the peer has (a sequence of  *)
(* at most one), drawn what its renderer put on the local terminal.        *)
(***************************************************************************)
EXTENDS VtScreen, TerminalState

CONSTANTS
  Sizes,            \* the sizes the terminal is resized to
  Chunks,           \* the pieces of output: sequences of VT operations
  HistoryRows,      \* how many rows of scrollback are kept
  MaxIncludedRows,  \* how many rows a state may have
  MaxPageRows,      \* how many rows a history page may have
  MaxSequence       \* bound: how many updates there are

VARIABLES term, engine, held, drawn

vars == <<term, engine, held, drawn>>

Home(seq) == [x |-> 0, y |-> 0, wrap |-> FALSE, version |-> seq]

NewTerminal(size) ==
  [primary |-> NewScreen(size.rows, TRUE, 0), alternate |-> NewScreen(size.rows, FALSE, 0),
   active |-> "primary", cursor |-> Home(0), size |-> size, seq |-> 0,
   attributes |-> [f \in Attributes |-> "initial"]]

-----------------------------------------------------------------------------
(* What the VT model does with a piece of output.                           *)

ActiveLine(t, y) == PhysRow(t[t.active], t.size.rows, y)

\* set_cursor_pos: one column past the last is allowed.
MoveTo(t, x, y) ==
  [t EXCEPT !.cursor = [x |-> IF x > t.size.cols THEN t.size.cols ELSE x,
                        y |-> IF y < 0 THEN 0 ELSE IF y >= t.size.rows THEN t.size.rows - 1 ELSE y,
                        wrap |-> FALSE, version |-> t.seq]]

Feed(t, x) ==
  IF t.cursor.y = t.size.rows - 1
  THEN MoveTo([t EXCEPT ![t.active] = ScrollUp(@, t.size.rows, t.size.cols, HistoryRows, t.seq)],
              x, t.cursor.y)
  ELSE MoveTo(t, x, t.cursor.y + 1)

\* A glyph for the last column leaves the cursor on it; the next one wraps.
PrintGlyph(t, op) ==
  LET marked == [t EXCEPT ![t.active].lines[ActiveLine(t, t.cursor.y)] = MarkWrapped(@, t.seq)]
      ready == IF t.cursor.wrap THEN Feed(marked, 0) ELSE t
      cell == [glyph |-> op.glyph, style |-> op.style, link |-> op.link]
      fits == ready.cursor.x + 1 < t.size.cols
  IN [ready EXCEPT ![t.active].lines[ActiveLine(ready, ready.cursor.y)] =
                      SetCell(@, ready.cursor.x, cell, t.seq),
                   !.cursor.x = IF fits THEN @ + 1 ELSE @,
                   !.cursor.wrap = ~fits]

\* CR LF.
LineFeed(t) ==
  Feed([t EXCEPT ![t.active].lines[ActiveLine(t, t.cursor.y)].version = t.seq], 0)

EraseLine(t) ==
  [t EXCEPT ![t.active].lines[ActiveLine(t, t.cursor.y)] = ClearLine(@, t.size.cols, t.seq)]

InsertLine(t) ==
  IF t.cursor.x < t.size.cols
  THEN [t EXCEPT ![t.active] = ScrollDown(@, t.size.rows, t.cursor.y, t.seq)] ELSE t

\* Either switch marks the first rows of the primary screen as changed.
DirtyTopRows(t) ==
  [t EXCEPT !.primary.lines = [i \in DOMAIN @ |->
                                 IF i <= t.size.rows THEN [@[i] EXCEPT !.version = t.seq] ELSE @[i]]]

EnterAlternate(t) ==
  LET there == MoveTo(DirtyTopRows([t EXCEPT !.primary.saved = <<t.cursor>>, !.active = "alternate"]),
                      0, 0)
  IN IF t.active = "alternate" THEN t
     ELSE [there EXCEPT !.alternate.lines =
                          [i \in DOMAIN @ |-> ClearLine(@[i], t.size.cols, t.seq)]]

LeaveAlternate(t) ==
  LET back == DirtyTopRows([t EXCEPT !.active = "primary"])
      saved == IF t.primary.saved = <<>> THEN Home(0) ELSE t.primary.saved[1]
  IN IF t.active = "primary" THEN t
     ELSE [MoveTo(back, saved.x, saved.y) EXCEPT !.cursor.wrap = saved.wrap]

Do(t, op) ==
  CASE op.do = "print" -> PrintGlyph(t, op)
    [] op.do = "line_feed" -> LineFeed(t)
    [] op.do = "home" -> MoveTo(t, 0, 0)
    [] op.do = "erase_line" -> EraseLine(t)
    [] op.do = "insert_line" -> InsertLine(t)
    [] op.do = "erase_scrollback" -> [t EXCEPT ![t.active] = EraseScrollback(@, t.size.rows)]
    [] op.do = "enter_alternate" -> EnterAlternate(t)
    [] op.do = "leave_alternate" -> LeaveAlternate(t)
    [] op.do = "set" -> [t EXCEPT !.attributes[op.attribute] = op.value]

AstraFinishUpdate(t) ==
  [t EXCEPT !.primary = FinishUpdate(@, t.size.cols), !.alternate = FinishUpdate(@, t.size.cols)]

AdvanceBytes(t, chunk) == AstraFinishUpdate(FoldLeft(Do, [t EXCEPT !.seq = @ + 1], chunk))

\* The cursor of the screen that is not shown is its saved one.
ResizeTerminal(t, size) ==
  LET seq == t.seq + 1
      other == IF t.active = "primary" THEN "alternate" ELSE "primary"
      resized(s, cursor) == ResizeScreen(t[s], t.size, size, HistoryRows, cursor, seq)
      saved(fit) == [fit.screen EXCEPT !.saved =
                       [i \in DOMAIN @ |-> [x |-> fit.x, y |-> fit.y, wrap |-> FALSE, version |-> seq]]]
      moved(fit, otherFit) ==
        MoveTo([t EXCEPT ![t.active] = fit.screen, ![other] = saved(otherFit),
                         !.size = size, !.seq = seq], fit.x, fit.y)
      hidden == IF t[other].saved = <<>> THEN Home(0) ELSE t[other].saved[1]
  IN AstraFinishUpdate(moved(resized(t.active, t.cursor), resized(other, hidden)))

-----------------------------------------------------------------------------
(* What the engine exports.                                                 *)

IdentityEpoch(t) == <<t.primary.epoch, t.alternate.epoch>>

\* A new identity epoch starts a new state epoch (a random number in the code).
RefreshIdentityEpoch(t, e) ==
  IF e.identity = IdentityEpoch(t) THEN e
  ELSE [e EXCEPT !.epoch = @ + 1, !.identity = IdentityEpoch(t), !.start = t.seq]

Generation(t, e) == t.seq - e.start + 1

EpochRelativeVersion(n, e) == IF n <= e.start THEN 1 ELSE n - e.start + 1

\* What validate_authoritative_screens refuses to export.
AuthoritativeScreens(t) ==
  /\ ViewportStart(t.primary, t.size.rows) \in 0..HistoryRows
  /\ Len(t.alternate.lines) = t.size.rows

\* The cells of the lines that are within the screen, in the order of export.
CellsOf(lines, cols) ==
  FlattenSeq([i \in DOMAIN lines |->
                SubSeq(lines[i].cells, 1, IF Len(lines[i].cells) > cols THEN cols ELSE Len(lines[i].cells))])

\* The styles (or hyperlinks) of the cells, numbered by their first use.
TableOf(cells, field) ==
  FoldLeft(LAMBDA t, c : IF c[field] = 0 \/ Contains(t, c[field]) THEN t ELSE Append(t, c[field]),
           <<>>, cells)

IdIn(table, value) == IF value = 0 THEN 0 ELSE SelectInSeq(table, LAMBDA v : v = value)

\* Plain blanks are not exported.
ExportRow(line, cols, e, styles, links) ==
  LET cell(i) == [column |-> i - 1, glyph |-> line.cells[i].glyph,
                  style |-> IdIn(styles, line.cells[i].style), link |-> IdIn(links, line.cells[i].link)]
      shown == SelectSeq([i \in DOMAIN line.cells |-> i],
                         LAMBDA i : i <= cols /\ line.cells[i] # Blank)
  IN [start |-> line.id, version |-> EpochRelativeVersion(line.version, e), wrapped |-> line.wrapped,
      cells |-> [k \in DOMAIN shown |-> cell(shown[k])]]

\* A pending wrap is shown one column to the left.
ExportCursor(c, e, rows, viewport, size) ==
  LET pending == c.wrap \/ c.x >= size.cols
      x0 == IF pending /\ c.x > 0 THEN c.x - 1 ELSE c.x
      x == IF x0 > size.cols - 1 THEN size.cols - 1 ELSE x0
      y0 == IF c.y < 0 THEN 0 ELSE c.y
      y == IF y0 > size.rows - 1 THEN size.rows - 1 ELSE y0
      row == rows[viewport + y + 1].start
  IN [x |-> x, y |-> y, anchor |-> <<row[1], row[2] + x>>,
      version |-> EpochRelativeVersion(c.version, e), wrap_pending |-> pending /\ x + 1 = size.cols]

\* The cursor of a screen: the current one, the saved one, or the top left.
ScreenCursor(t, s) ==
  IF s = t.active THEN t.cursor
  ELSE IF t[s].saved # <<>> THEN t[s].saved[1]
  ELSE Home(t[s].lines[ViewportStart(t[s], t.size.rows) + 1].version)

\* How many rows before the first one that is exported.
IncludedStart(s, rows, budget) ==
  LET over == IF Len(s.lines) > budget THEN Len(s.lines) - budget ELSE 0
  IN IF over < ViewportStart(s, rows) THEN over ELSE ViewportStart(s, rows)

ExportScreen(t, e, s, from, styles, links) ==
  LET rows == [i \in 1..(Len(t[s].lines) - from) |->
                 ExportRow(t[s].lines[from + i], t.size.cols, e, styles, links)]
      viewport == ViewportStart(t[s], t.size.rows) - from
      cursor(c) == ExportCursor(c, e, rows, viewport, t.size)
  IN [rows |-> rows, viewport |-> viewport, cursor |-> cursor(ScreenCursor(t, s)),
      saved |-> [i \in DOMAIN t[s].saved |-> cursor(t[s].saved[i])],
      oldest |-> t[s].lines[1].id, newest |-> Last(t[s].lines).id,
      first |-> rows[1].start, last |-> Last(rows).start]

ExportState(t, e, viewportOnly) ==
  LET budget == IF viewportOnly THEN t.size.rows ELSE MaxIncludedRows - Len(t.alternate.lines)
      from == IncludedStart(t.primary, t.size.rows, budget)
      cells == CellsOf(SubSeq(t.primary.lines, from + 1, Len(t.primary.lines)) \o t.alternate.lines,
                       t.size.cols)
      styles == TableOf(cells, "style")
      links == TableOf(cells, "link")
  IN [epoch |-> e.epoch, generation |-> Generation(t, e), rows |-> t.size.rows, cols |-> t.size.cols,
      primary |-> ExportScreen(t, e, "primary", from, styles, links),
      alternate |-> ExportScreen(t, e, "alternate", 0, styles, links),
      active |-> t.active, styles |-> styles, links |-> links, attributes |-> t.attributes]

\* Mutant: the rows on the screen are taken for scrollback.
HistoryEndOnScreen(t, before) ==
  LET at == SelectInSeq(t.primary.lines, LAMBDA l : AnchorLeq(before, l.id))
  IN IF at = 0 THEN Len(t.primary.lines) ELSE at - 1

\* How many rows of the scrollback are before an anchor.
HistoryEnd(t, before) ==
  LET at == SelectInSeq(t.primary.lines, LAMBDA l : AnchorLeq(before, l.id))
      start == ViewportStart(t.primary, t.size.rows)
  IN IF at = 0 \/ at - 1 > start THEN start ELSE at - 1

\* The rows of the scrollback before an anchor, at most count of them.
HistoryPage(t, e, epoch, before, count) ==
  LET lines == t.primary.lines
      end == HistoryEnd(t, before)
      from == IF end > count THEN end - count ELSE 0
      included == SubSeq(lines, from + 1, end)
      cells == CellsOf(included, t.size.cols)
      styles == TableOf(cells, "style")
      links == TableOf(cells, "link")
      rows == [i \in DOMAIN included |-> ExportRow(included[i], t.size.cols, e, styles, links)]
      common == [epoch |-> e.epoch, generation |-> Generation(t, e), cols |-> t.size.cols,
                 oldest |-> lines[1].id, newest |-> Last(lines).id]
      page(r, st, li, more, reset) ==
        [rows |-> r, styles |-> st, links |-> li, more |-> more, reset |-> reset] @@ common
  IN IF epoch # e.epoch THEN page(<<>>, <<>>, <<>>, FALSE, TRUE)
     ELSE page(rows, styles, links, from > 0, FALSE)

-----------------------------------------------------------------------------
(* What the client draws.                                                   *)

\* A cell as it is drawn: with its style and link, not with their numbers.
Ink(state, cell) ==
  [column |-> cell.column, glyph |-> cell.glyph,
   style |-> IF cell.style = 0 THEN 0 ELSE state.styles[cell.style],
   link |-> IF cell.link = 0 THEN 0 ELSE state.links[cell.link]]

VisibleRow(state, i) ==
  LET screen == state[state.active]
  IN screen.rows[screen.viewport + i]

Picture(state) ==
  [rows |-> [i \in 1..state.rows |-> [k \in DOMAIN VisibleRow(state, i).cells |->
                                         Ink(state, VisibleRow(state, i).cells[k])]],
   cursor |-> <<state[state.active].cursor.x, state[state.active].cursor.y>>,
   modes |-> state.attributes["modes"]]

\* Mutant: the numbers of the styles are compared, not the styles.
SameNumbers(state, previous, i) ==
  /\ previous # <<>>
  /\ previous[1].rows = state.rows /\ previous[1].cols = state.cols
  /\ previous[1].active = state.active
  /\ VisibleRow(previous[1], i).cells = VisibleRow(state, i).cells

\* The previous state counts only if it had the same size and screen; a row is
\* left alone only if its cells, both tables and the palette are the same.
Unchanged(state, previous, i) ==
  /\ previous # <<>>
  /\ previous[1].rows = state.rows /\ previous[1].cols = state.cols
  /\ previous[1].active = state.active
  /\ previous[1].styles = state.styles /\ previous[1].links = state.links
  /\ previous[1].attributes["palette"] = state.attributes["palette"]
  /\ VisibleRow(previous[1], i).cells = VisibleRow(state, i).cells

Render(state, previous, rows) ==
  [Picture(state) EXCEPT !.rows = [i \in 1..state.rows |->
                                     IF Unchanged(state, previous, i) THEN rows[i] ELSE @[i]]]

\* Nothing is known of what the local terminal shows.
NotDrawn == [previous |-> <<>>, screen |-> [rows |-> <<>>, cursor |-> <<0, 0>>, modes |-> "unknown"]]

-----------------------------------------------------------------------------

NewEngine == [epoch |-> 1, identity |-> <<1, 1>>, start |-> 0, cached |-> <<>>]

Init ==
  \E size \in Sizes :
    /\ term = NewTerminal(size)
    /\ engine = NewEngine
    /\ held = <<>>
    /\ drawn = NotDrawn

Advance(chunk) ==
  /\ term.seq < MaxSequence
  /\ term' = AdvanceBytes(term, chunk)
  /\ engine' = [engine EXCEPT !.cached = <<>>]
  /\ UNCHANGED <<held, drawn>>

Resize(size) ==
  /\ term.seq < MaxSequence
  /\ size # term.size
  /\ term' = ResizeTerminal(term, size)
  /\ engine' = [engine EXCEPT !.cached = <<>>]
  /\ UNCHANGED <<held, drawn>>

\* What semantic_viewport returns, and leaves in the cache.
Viewport(t, e) ==
  IF e.cached # <<>> THEN e.cached[1] ELSE ExportState(t, RefreshIdentityEpoch(t, e), TRUE)

AfterViewport(t, e) ==
  IF e.cached # <<>> THEN e
  ELSE [RefreshIdentityEpoch(t, e) EXCEPT !.cached = <<Viewport(t, e)>>]

\* The viewport goes to the peer, which draws it.
Send ==
  /\ engine' = AfterViewport(term, engine)
  /\ held' = <<Viewport(term, engine)>>
  /\ drawn' = [previous |-> held',
               screen |-> Render(held'[1], drawn.previous, drawn.screen.rows)]
  /\ UNCHANGED term

\* A message on the local terminal: the renderer forgets what it drew.
Invalidate ==
  /\ drawn.previous # <<>>
  /\ drawn' = NotDrawn
  /\ UNCHANGED <<term, engine, held>>

Next ==
  \/ \E chunk \in Chunks : Advance(chunk)
  \/ \E size \in Sizes : Resize(size)
  \/ Send
  \/ Invalidate

Spec == Init /\ [][Next]_vars

-----------------------------------------------------------------------------
(* Properties.                                                              *)

Current == RefreshIdentityEpoch(term, engine)

\* Whatever output and resizes came before, the state, the viewport and every
\* page of history that the engine exports pass the validation that it and the
\* receiver run on them, and a cached viewport is the one it would export now.
ExportsValid ==
  LET now == Current
      viewport == ExportState(term, now, TRUE)
      page(before, count) == HistoryPage(term, now, now.epoch, before, count)
  IN /\ AuthoritativeScreens(term)
     /\ Validate(ExportState(term, now, FALSE), MaxIncludedRows)
     /\ ValidateViewport(viewport, MaxIncludedRows)
     /\ engine.cached # <<>> => engine.cached[1] = viewport
     /\ \A i \in DOMAIN term.primary.lines : \A count \in 1..MaxPageRows :
          ValidateHistoryPage(page(term.primary.lines[i].id, count), MaxPageRows)

\* A row that a peer holds and that still has its anchor and version in the same
\* epoch has not changed, so whoever compares versions misses no edit.
VersionTellsRow ==
  LET now == ExportState(term, Current, FALSE)
      same(row, state) == [k \in DOMAIN row.cells |-> Ink(state, row.cells[k])]
  IN held # <<>> /\ held[1].epoch = now.epoch =>
       \A s \in Screens : \A i \in DOMAIN held[1][s].rows :
         LET old == held[1][s].rows[i]
             at == RowByAnchor(now[s].rows, old.start)
         IN at # 0 /\ now[s].rows[at].version = old.version /\ now.cols = held[1].cols =>
              same(now[s].rows[at], now) = same(old, held[1])

\* Both ways to send a state as a difference from the one the peer holds give
\* back exactly that state, and the peer refuses neither.
DeltaExact ==
  LET target == ExportState(term, Current, TRUE)
  IN held # <<>> /\ CanDiff(held[1], target) =>
       /\ ApplyTerminalStateDiff(held[1], TerminalStateDiff(held[1], target)) = target
       /\ held[1].rows = target.rows /\ held[1].cols = target.cols =>
            LET delta == CompactViewport(held[1], target)
            IN /\ \A s \in Screens : PatchesFit(held[1][s].rows, delta.patches[s])
               /\ ApplyCompactViewport(held[1], delta) = target

\* What the engine exports can be relied on: it is valid, its versions tell the
\* truth and its differences restore it.
ExportsExact == ExportsValid /\ VersionTellsRow /\ DeltaExact

\* What is drawn, row by row where rows changed, is the whole state.
RenderExact == drawn.previous # <<>> => drawn.screen = Picture(drawn.previous[1])

\* Paging back from any row, page after page until one says there is no more,
\* gives every row of the scrollback before it, once and in order.
HistoryPagesWhole ==
  \A i \in DOMAIN term.primary.lines : \A count \in 1..MaxPageRows :
    LET lines == term.primary.lines
        now == Current
        page(before) == HistoryPage(term, now, now.epoch, before, count)
        back[n \in 0..Len(lines)] ==
          IF n = 0 THEN [rows |-> <<>>, before |-> lines[i].id, more |-> TRUE]
          ELSE LET b == back[n - 1]
                   p == page(b.before)
               IN IF ~b.more THEN b
                  ELSE [rows |-> [k \in DOMAIN p.rows |-> p.rows[k].start] \o b.rows,
                        before |-> IF p.rows = <<>> THEN b.before ELSE p.rows[1].start,
                        more |-> p.more]
        end == ViewportStart(term.primary, term.size.rows)
    IN /\ ~back[Len(lines)].more
       /\ back[Len(lines)].rows = [k \in 1..(IF i - 1 < end THEN i - 1 ELSE end) |-> lines[k].id]

\* A cursor that is about to wrap is exported in the last column and as about
\* to wrap, so that a client that prints on goes to the next line as well.
PendingWrapShown ==
  term.cursor.wrap =>
    LET c == ExportState(term, Current, TRUE)[term.active].cursor
    IN c.x = term.size.cols - 1 /\ c.wrap_pending
=============================================================================
