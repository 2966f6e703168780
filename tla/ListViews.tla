------------------------------ MODULE ListViews ------------------------------
(***************************************************************************)
(* What is seen of something longer than its place on the screen:          *)
(* Viewport (tui/screen.py) and TranscriptView (tui/widgets.py), which     *)
(* follow the end of a growing text until someone scrolls, and SelectList  *)
(* (tui/widgets.py), of whose options some cannot be chosen.               *)
(***************************************************************************)
EXTENDS Integers, Sequences, FiniteSets

CONSTANTS
    MaxLines,       \* bound: lines of the text
    MaxHeight,      \* bound: rows of either view
    MaxOptions,     \* bound: options of the list
    MaxScrolls      \* bound: keys and changes

(* Assumed where this module is instantiated. *)
ListsAssumption == {MaxLines, MaxHeight, MaxOptions, MaxScrolls} \subseteq Nat

VARIABLES
    count, height,              \* lines of the text, rows of its view
    offset, follow,             \* of the view
    shown,                      \* the view was rendered since the last change
    disabled,                   \* of the list: which options cannot be chosen
    selected, top, rows,        \* selected option and first one shown, from 0; rows of the list
    drawn,                      \* the list was rendered since the last change
    chosen,                     \* options Enter has answered
    scrolls                     \* for the bound

viewVars == <<count, height, offset, follow, shown>>
listVars == <<disabled, selected, top, rows, drawn, chosen>>
listsVars == <<viewVars, listVars, scrolls>>

Least(a, b) == IF a < b THEN a ELSE b
Most(a, b) == IF a > b THEN a ELSE b
Clamp(x, maximum) == Least(Most(0, x), maximum)

-----------------------------------------------------------------------------
(* SelectList *)

Options == Len(disabled)
Disabled(i) == disabled[i + 1]

(* How far it is from i to j, round the end of the list. *)
Distance(i, j, step) == IF step > 0 THEN (j - i + Options) % Options ELSE (i - j + Options) % Options

(* _normalize_selected: from an option that cannot be chosen on to the next one that can, in
   the direction of the key and past the end to the other one; if there is none it stays. *)
Normalize(i, step) ==
    LET at == Clamp(i, Options - 1)
        able == {j \in 0 .. Options - 1 : ~Disabled(j)}
    IN  IF Options = 0 THEN 0
        ELSE IF able = {} THEN at
        ELSE CHOOSE j \in able : \A k \in able : Distance(at, j, step) <= Distance(at, k, step)

ListsInit ==
    /\ count = 0 /\ height \in 1 .. MaxHeight
    /\ offset = 0 /\ follow = TRUE /\ shown = FALSE
    /\ \E n \in 0 .. MaxOptions : disabled \in [1 .. n -> BOOLEAN]
    /\ selected = Normalize(0, 1) /\ top = 0 /\ rows \in 1 .. MaxHeight
    /\ drawn = FALSE /\ chosen = {} /\ scrolls = 0

(* handle, for the keys that move: by one, by ten, or to an end. *)
MoveSelection(step) ==
    /\ selected' = Normalize(selected + step, IF step >= 0 THEN 1 ELSE -1)
    /\ drawn' = FALSE
    /\ UNCHANGED <<viewVars, disabled, top, rows, chosen>>

ToEnd(last) ==
    /\ selected' = IF last THEN Normalize(Options - 1, -1) ELSE Normalize(0, 1)
    /\ drawn' = FALSE
    /\ UNCHANGED <<viewVars, disabled, top, rows, chosen>>

(* A letter: the next option of those it fits that can be chosen, after the selected one. *)
Letter(fits) ==
    LET able == {j \in fits : ~Disabled(j)}
        after(j) == IF j = selected THEN Options ELSE Distance(selected, j, 1)
    IN
    /\ able # {}
    /\ selected' = CHOOSE j \in able : \A k \in able : after(j) <= after(k)
    /\ drawn' = FALSE
    /\ UNCHANGED <<viewVars, disabled, top, rows, chosen>>

Enter ==
    /\ Options > 0
    /\ chosen' = IF Disabled(selected) THEN chosen ELSE chosen \cup {selected}
    /\ UNCHANGED <<viewVars, disabled, selected, top, rows, drawn>>

(* render: the first option shown is moved as little as it takes to show the selected one. *)
DrawList(r) ==
    LET near == IF selected < top THEN selected
                ELSE IF selected >= top + r THEN selected - r + 1 ELSE top
    IN
    /\ rows' = r /\ drawn' = TRUE
    /\ top' = Clamp(near, Most(0, Options - r))
    /\ UNCHANGED <<viewVars, disabled, selected, chosen>>

-----------------------------------------------------------------------------
(* Viewport and TranscriptView *)

Maximum(n, h) == Most(0, n - h)

(* Lines are added at the end, or replaced by fewer. *)
Content(n) ==
    /\ count' = n /\ shown' = FALSE
    /\ UNCHANGED <<height, offset, follow, listVars>>

(* visible, or render: with a height of its own each time. *)
Visible(h) ==
    /\ height' = h /\ shown' = TRUE
    /\ offset' = IF follow THEN Maximum(count, h) ELSE Clamp(offset, Maximum(count, h))
    /\ UNCHANGED <<count, follow, listVars>>

(* scroll; page does it by a view less one line. *)
ScrollBy(delta) ==
    LET maximum == Maximum(count, height)
        current == IF follow THEN maximum ELSE offset
    IN
    /\ offset' = Least(maximum, Most(0, current + delta))
    /\ follow' = (offset' >= maximum)
    /\ shown' = FALSE
    /\ UNCHANGED <<count, height, listVars>>
Page(direction) == ScrollBy(direction * Most(1, height - 1))

ToTail == follow' = TRUE /\ shown' = FALSE /\ UNCHANGED <<count, height, offset, listVars>>

ListsNext ==
    /\ scrolls < MaxScrolls /\ scrolls' = scrolls + 1
    /\ \/ \E step \in {-10, -1, 1, 10} : MoveSelection(step)
       \/ \E last \in BOOLEAN : ToEnd(last)
       \/ \E fits \in SUBSET (0 .. Options - 1) : Letter(fits)
       \/ Enter \/ ToTail
       \/ \E h \in 1 .. MaxHeight : DrawList(h) \/ Visible(h)
       \/ \E n \in 0 .. MaxLines : Content(n)
       \/ \E d \in {-1, 1} : ScrollBy(d) \/ Page(d)

ListsSpec == ListsInit /\ [][ListsNext]_listsVars

-----------------------------------------------------------------------------
(* Whatever grows, shrinks or is resized between two renders: a view that follows shows the
   last line, and none leaves rows empty that could be filled.  The selected option can be chosen if any
   can, is one of those shown, and no other one is ever answered. *)
ListsSound ==
    /\ shown =>
        /\ offset \in 0 .. Maximum(count, height)
        /\ follow => offset + height >= count
    /\ (\E i \in 0 .. Options - 1 : ~Disabled(i)) => selected < Options /\ ~Disabled(selected)
    /\ drawn /\ Options > 0 =>
        /\ selected \in top .. top + rows - 1
        /\ top = 0 \/ top + rows <= Options
    /\ \A i \in chosen : ~Disabled(i)
=============================================================================
