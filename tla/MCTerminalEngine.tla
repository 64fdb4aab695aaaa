-------------------------- MODULE MCTerminalEngine --------------------------
(***************************************************************************)
(* A terminal of two rows and two or three columns, with at most two rows  *)
(* of scrollback.                                                          *)
(***************************************************************************)
EXTENDS TerminalEngine

Glyph(g, style, link) == [do |-> "print", glyph |-> g, style |-> style, link |-> link]

Op(name) == [do |-> name]

Set(attribute, value) == [do |-> "set", attribute |-> attribute, value |-> value]

MCSizes == {[rows |-> 2, cols |-> 2], [rows |-> 2, cols |-> 3], [rows |-> 3, cols |-> 2]}

MCChunks ==
  {<<Glyph("a", 0, 0)>>,
   <<Glyph("b", 7, 0), Glyph("c", 8, 5), Glyph("a", 0, 5)>>,
   <<Glyph("c", 8, 0), Op("line_feed")>>,
   <<Op("home"), Op("erase_line")>>,
   <<Op("home"), Glyph("b", 8, 0)>>,
   <<Op("home"), Op("insert_line"), Glyph("b", 7, 0)>>,
   <<Op("enter_alternate"), Glyph("a", 7, 0)>>,
   <<Op("leave_alternate")>>,
   <<Op("erase_scrollback"), Set("palette", "other")>>,
   <<Set("modes", "mouse"), Set("title", "other")>>}

\* Terminals that have already had some output: with scrollback, with as much
\* of it as is kept, and with the alternate screen shown.
Wraps == <<Glyph("b", 7, 0), Glyph("c", 8, 5), Glyph("a", 0, 5)>>

EarlierOutput ==
  {<<Wraps, Wraps>>, <<Wraps, Wraps, Wraps>>,
   <<Wraps, <<Op("enter_alternate"), Glyph("a", 7, 0)>>>>}

MCInit ==
  \E prefix \in EarlierOutput :
    /\ term = FoldLeft(AdvanceBytes, NewTerminal([rows |-> 2, cols |-> 2]), prefix)
    /\ engine = NewEngine
    /\ held = <<>>
    /\ drawn = NotDrawn

MCSpec == MCInit /\ [][Next]_vars
=============================================================================
