----------------------------- MODULE ScreenCells -----------------------------
(***************************************************************************)
(* Surface and the AnsiRenderer that draws it (tui/surface.py,             *)
(* tui/renderer.py): a grid of cells in which a wide character takes two,  *)
(* of which only the rows and columns that differ are sent to the          *)
(* terminal.                                                               *)
(*                                                                         *)
(* Rows do not touch each other, so there is one; a style is a part of the *)
(* text of a cell.  What the terminal does with a character written over   *)
(* half of a wide one is modelled as terminals do it: the other half goes  *)
(* blank.                                                                  *)
(***************************************************************************)
EXTENDS Integers, Sequences, FiniteSets

CONSTANTS
    Widths,         \* the widths the surface may have
    MaxDraws,       \* bound: calls that draw
    None

(* Assumed where this module is instantiated. *)
SurfaceAssumption == Widths \subseteq Nat \ {0} /\ MaxDraws \in Nat

VARIABLES
    row,            \* the surface: column -> [text, width]
    previous,       \* _previous of the renderer, or None
    screen,         \* the row of the terminal
    fresh,          \* nothing was drawn since the last render
    draws,          \* for the bound
    cut,            \* history: a blit has put a wide cell across the right edge
    meant           \* history: the row an ideal terminal would show for the same calls

surfaceVars == <<row, previous, screen, fresh, draws, cut, meant>>

Narrow == {"a", "b"}
Wide == {"W"}
Cell(text, width) == [text |-> text, width |-> width]
BlankCell == Cell(" ", 1)
Rest == Cell("", 0)     \* the second column of a wide character
BlankRow(w) == [x \in 0 .. w - 1 |-> BlankCell]
Size(r) == Cardinality(DOMAIN r)
WidthOf(c) == IF c \in Wide THEN 2 ELSE 1

SurfaceInit ==
    /\ \E w \in Widths : row = BlankRow(w)
    /\ previous = None /\ screen = row /\ fresh = FALSE /\ draws = 0 /\ cut = FALSE /\ meant = row

-----------------------------------------------------------------------------
(* _erase_wide_neighbor: the other half of what is at x, if it has one, goes blank. *)
EraseNeighbor(r, x) ==
    IF r[x].width = 0 /\ x > 0 THEN [r EXCEPT ![x - 1] = BlankCell]
    ELSE IF r[x].width = 2 /\ x + 1 < Size(r) THEN [r EXCEPT ![x + 1] = BlankCell]
    ELSE r

(* set_cell, in bounds or not at all. *)
SetCell(r, x, c) ==
    LET clear == EraseNeighbor(r, x)
        w == WidthOf(c)
    IN  IF x \notin DOMAIN r THEN r
        ELSE IF w = 2 /\ x + 1 >= Size(r) THEN clear    \* after the neighbour is gone
        ELSE IF w = 2 THEN [EraseNeighbor(clear, x + 1) EXCEPT ![x] = Cell(c, 2), ![x + 1] = Rest]
        ELSE [clear EXCEPT ![x] = Cell(c, 1)]

(* What an ideal terminal shows after c is written at x: halves that are left over are blank. *)
Paint(r, x, c) ==
    LET last == x + WidthOf(c) - 1
        halved == {y \in DOMAIN r : \/ r[y].width = 0 /\ y - 1 \in x .. last
                                    \/ r[y].width = 2 /\ y + 1 \in x .. last}
    IN  IF x \notin DOMAIN r \/ last \notin DOMAIN r THEN r
        ELSE [y \in DOMAIN r |->
                IF y = x THEN Cell(c, WidthOf(c)) ELSE IF y = last THEN Rest
                ELSE IF y \in halved THEN BlankCell ELSE r[y]]

(* draw_text: clusters from column x on, clipped to limit columns; one that is left of the
   surface is skipped, and at the first that does not fit it ends. *)
Column(x, text, i) == x + (i - 1) + Cardinality({j \in 1 .. i - 1 : text[j] \in Wide})
Fits(x, text, i, limit) == Column(x, text, i) + WidthOf(text[i]) <= limit
Drawn(x, text, limit) == {i \in 1 .. Len(text) : \A j \in 1 .. i : Fits(x, text, j, limit)}
DrawWith(ideal, r, x, text, limit) ==
    LET put[i \in 0 .. Len(text)] ==
            IF i = 0 THEN r
            ELSE IF i \notin Drawn(x, text, limit) \/ Column(x, text, i) < 0 THEN put[i - 1]
            ELSE IF ideal THEN Paint(put[i - 1], Column(x, text, i), text[i])
            ELSE SetCell(put[i - 1], Column(x, text, i), text[i])
    IN  put[Len(text)]

Texts == UNION {[1 .. n -> Narrow \cup Wide] : n \in 1 .. 2}

DrawText(x, text, width) ==
    LET limit == IF width = None \/ x + width > Size(row) THEN Size(row) ELSE x + width IN
    /\ row' = DrawWith(FALSE, row, x, text, limit)
    /\ meant' = DrawWith(TRUE, meant, x, text, limit)
    /\ fresh' = FALSE
    /\ UNCHANGED <<previous, screen, cut>>

(* fill: blanks, as a list does before it draws itself. *)
Fill(from, to) ==
    LET put(r) == LET f[x \in from - 1 .. to] == IF x = from - 1 THEN r ELSE SetCell(f[x - 1], x, " ") IN f[to]
        wipe(r) == LET f[x \in from - 1 .. to] == IF x = from - 1 THEN r ELSE Paint(f[x - 1], x, " ") IN f[to]
    IN
    /\ from <= to /\ from \in DOMAIN row /\ to \in DOMAIN row
    /\ row' = put(row) /\ meant' = wipe(meant) /\ fresh' = FALSE
    /\ UNCHANGED <<previous, screen, cut>>

(* blit of one cell of another surface, which may be wide and reach over the edge. *)
Blit(x, c) ==
    /\ x \in DOMAIN row
    /\ row' = SetCell(row, x, c) /\ meant' = Paint(meant, x, c) /\ fresh' = FALSE
    /\ cut' = (cut \/ x + WidthOf(c) > Size(row))
    /\ UNCHANGED <<previous, screen>>

(* clear, or a new surface after the terminal has another size, which leaves no telling what it
   shows.  The host renders before the next change: two changes, there and back, would go
   unnoticed. *)
Clear(w) ==
    /\ w = Size(row) \/ (IF previous = None THEN TRUE ELSE Size(previous) = Size(row))
    /\ row' = BlankRow(w) /\ meant' = row' /\ fresh' = FALSE /\ cut' = FALSE
    /\ screen' = IF w = Size(row) THEN screen ELSE [x \in 0 .. w - 1 |-> Cell("?", 1)]
    /\ UNCHANGED previous

-----------------------------------------------------------------------------
(* Surface.diff: from the first column that differs to the last, with the whole of a wide cell
   at either end. *)
Differing == {x \in DOMAIN row : row[x] # previous[x]}
Left(x) == CHOOSE y \in 0 .. x : /\ row[y].width # 0 \/ y = 0
                                 /\ \A z \in y + 1 .. x : row[z].width = 0
Right(x) == CHOOSE y \in x .. Size(row) :
                /\ y = Size(row) \/ row[y].width # 0
                /\ \A z \in x .. y - 1 : row[z].width = 0
Region ==
    IF previous = None \/ Size(previous) # Size(row) THEN 0 .. Size(row) - 1
    ELSE IF Differing = {} THEN {}
    ELSE LET first == CHOOSE x \in Differing : \A y \in Differing : x <= y
             last == CHOOSE x \in Differing : \A y \in Differing : y <= x
         IN  Left(first) .. Right(last + 1) - 1

(* render: the cells of the region one after the other, but for those of width 0; the terminal's
   own cursor moves by what it is given. *)
Render ==
    LET sent == {x \in Region : row[x].width # 0}
        first == CHOOSE x \in Region : \A y \in Region : x <= y
        place(x) == first + Cardinality({y \in sent : y < x}) + Cardinality({y \in sent : y < x /\ row[y].width = 2})
        write[x \in -1 .. Size(row) - 1] ==
            IF x = -1 THEN screen
            ELSE IF x \in sent THEN Paint(write[x - 1], place(x), row[x].text)
            ELSE write[x - 1]
    IN
    /\ screen' = IF Region = {} THEN screen ELSE write[Size(row) - 1]
    /\ previous' = row /\ fresh' = TRUE
    /\ UNCHANGED <<row, draws, cut, meant>>

(* The host resets the renderer: everything is drawn again. *)
Reset ==
    /\ previous # None
    /\ previous' = None /\ fresh' = FALSE
    /\ UNCHANGED <<row, screen, draws, cut, meant>>

SurfaceNext ==
    \/ /\ draws < MaxDraws /\ draws' = draws + 1
       /\ \/ \E x \in -1 .. Size(row) - 1, text \in Texts, w \in {None, 2} : DrawText(x, text, w)
          \/ \E x, y \in DOMAIN row : Fill(x, y)
          \/ \E x \in DOMAIN row, c \in {"a", "W"} : Blit(x, c)
          \/ \E w \in Widths : Clear(w)
    \/ Render \/ Reset

SurfaceSpec == SurfaceInit /\ [][SurfaceNext]_surfaceVars

-----------------------------------------------------------------------------
(* The surface is what the calls would have left on an ideal terminal, both halves of every
   wide character together, and so is the real one after a render, although it was sent only
   what differs.  A blit that cuts a wide cell off at the right edge is left out: it takes a
   half away and puts nothing there. *)
ScreenShows ==
    ~cut => row = meant /\ (fresh => screen = row)
=============================================================================
