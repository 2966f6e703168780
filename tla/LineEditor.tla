----------------------------- MODULE LineEditor -----------------------------
(***************************************************************************)
(* TextEditor (tui/editor.py) with its history, and the list of            *)
(* completions that InteractiveTui lays over it (tui/app.py,               *)
(* tui/completion.py).                                                     *)
(*                                                                         *)
(* A character is a letter, a blank, a newline or a mark that joins the    *)
(* cluster before it.  Positions are counted in characters, as Python's.   *)
(***************************************************************************)
EXTENDS Integers, Sequences, FiniteSets
LOCAL INSTANCE SequencesExt

CONSTANTS
    MaxLength,      \* bound: characters of the text
    MaxKeys,        \* bound: keys
    HistoryLimit,
    None

(* Assumed where this module is instantiated. *)
EditorAssumption == MaxLength \in Nat /\ MaxKeys \in Nat /\ HistoryLimit \in Nat \ {0}

Letter == "a"
Blank == " "
Newline == "\n"
Mark == "'"
Characters == {Letter, Blank, Newline, Mark}
Words == {<<"/", "n">>, <<"/", "m">>}    \* what completion offers

VARIABLES
    text, cursor,
    history, index, draft,  \* index is None, or the place in history that is shown
    column,                 \* _preferred_column, or None
    items, selected,        \* completions.items, and which of them is marked (from 0)
    keys,                   \* for the bound
    typed,                  \* history: the text when browsing began
    edited                  \* history: changed by hand since it was taken from the history

recall == <<history, index, draft, typed, edited>>
editorVars == <<text, cursor, recall, column, items, selected, keys>>

EditorInit ==
    /\ text = <<>> /\ cursor = 0
    /\ history = <<>> /\ index = None /\ draft = <<>> /\ column = None
    /\ items = <<>> /\ selected = 0 /\ keys = 0 /\ typed = <<>> /\ edited = FALSE

-----------------------------------------------------------------------------
(* Places in the text *)

Before(i) == SubSeq(text, 1, i)
From(i) == SubSeq(text, i + 1, Len(text))
Highest(s, none) == IF s = {} THEN none ELSE CHOOSE i \in s : \A j \in s : j <= i
Lowest(s, none) == IF s = {} THEN none ELSE CHOOSE i \in s : \A j \in s : i <= j

(* graphemes: where one cluster ends and the next begins. *)
Boundaries == {0, Len(text)} \cup {i \in 1 .. Len(text) - 1 : text[i + 1] # Mark}
Previous(i) == Highest({b \in Boundaries : b < i}, 0)
NextOne(i) == Lowest({b \in Boundaries : b > i}, i)

(* The first and the last place of the line a place is in. *)
LineStart(i) == Highest({j \in 1 .. i : text[j] = Newline}, 0)
LineEnd(i) == Lowest({j \in i + 1 .. Len(text) : text[j] = Newline}, Len(text) + 1) - 1

IsSpace(c) == c \in {Blank, Newline}
WordStart(i) ==
    LET skipped == Highest({j \in 1 .. i : ~IsSpace(text[j])}, 0)
    IN  Highest({j \in 1 .. skipped : IsSpace(text[j])}, 0)

Strip(s) ==
    LET solid == {i \in DOMAIN s : ~IsSpace(s[i])}
    IN  IF solid = {} THEN <<>> ELSE SubSeq(s, Lowest(solid, 0), Highest(solid, 0))

-----------------------------------------------------------------------------
(* A change by hand ends the browsing of history. *)
Edit(newText, newCursor) ==
    /\ text' = newText /\ cursor' = newCursor
    /\ column' = None /\ index' = None
    /\ UNCHANGED <<history, draft, typed, edited, items, selected>>

Insert(c) == Len(text) < MaxLength /\ Edit(Before(cursor) \o <<c>> \o From(cursor), cursor + 1)

(* backspace and delete do nothing at an end, not even to the preferred column. *)
Backspace == LET b == Previous(cursor) IN b # cursor /\ Edit(Before(b) \o From(cursor), b)
Delete == LET b == NextOne(cursor) IN b # cursor /\ Edit(Before(cursor) \o From(b), cursor)
DeleteWord == LET b == WordStart(cursor) IN Edit(Before(b) \o From(cursor), b)

(* Ctrl-U and Ctrl-K do not, and leave the preferred column as well. *)
Kill(newText, newCursor) ==
    /\ text' = newText /\ cursor' = newCursor
    /\ edited' = (edited \/ (index # None /\ newText # text))
    /\ UNCHANGED <<history, index, draft, typed, column, items, selected>>
KillToStart == Kill(Before(LineStart(cursor)) \o From(cursor), LineStart(cursor))
KillToEnd == Kill(Before(cursor) \o From(LineEnd(cursor)), cursor)

Move(place) ==
    /\ cursor' = place /\ column' = None
    /\ UNCHANGED <<text, recall, items, selected>>

(* move_vertical keeps to the column it began in. *)
MoveVertical(up) ==
    LET start == LineStart(cursor)
        wanted == IF column = None THEN cursor - start ELSE column
        target == IF up THEN IF start = 0 THEN 0 ELSE LineStart(start - 1)
                  ELSE IF LineEnd(cursor) = Len(text) THEN start ELSE LineEnd(cursor) + 1
        end == LineEnd(target)
    IN
    /\ Newline \in {text[i] : i \in DOMAIN text}
    /\ column' = wanted
    /\ cursor' = IF target + wanted < end THEN target + wanted ELSE end
    /\ UNCHANGED <<text, recall, items, selected>>

-----------------------------------------------------------------------------
(* History *)

Show(value) == text' = value /\ cursor' = Len(value) /\ column' = None

PreviousHistory ==
    LET i == IF index = None THEN Len(history) ELSE Highest({1, index - 1}, 1) IN
    /\ Newline \notin {text[k] : k \in DOMAIN text} /\ history # <<>>
    /\ index' = i
    /\ draft' = IF index = None THEN text ELSE draft
    /\ typed' = IF index = None THEN text ELSE typed
    /\ edited' = FALSE
    /\ Show(history[i])
    /\ UNCHANGED <<history, items, selected>>

NextHistory ==
    /\ Newline \notin {text[k] : k \in DOMAIN text} /\ index # None
    /\ IF index >= Len(history) THEN index' = None /\ Show(draft)
       ELSE index' = index + 1 /\ Show(history[index + 1])
    /\ edited' = FALSE
    /\ UNCHANGED <<history, draft, typed, items, selected>>

(* submit and remember: blanks at both ends go, and a line like the last one is not kept. *)
Submit ==
    LET value == Strip(text)
        longer == IF value # <<>> /\ (history = <<>> \/ history[Len(history)] # value)
                  THEN Append(history, value) ELSE history
    IN
    /\ history' = SubSeq(longer, Highest({1, Len(longer) - HistoryLimit + 1}, 1), Len(longer))
    /\ Show(<<>>)
    /\ index' = None /\ draft' = <<>> /\ edited' = FALSE
    /\ items' = <<>>
    /\ UNCHANGED <<typed, selected>>

(* Escape, and Ctrl-C while nothing runs: the text goes, and the list; history is still browsed. *)
Clear(withList) ==
    /\ withList \/ text # <<>>
    /\ Show(<<>>)
    /\ items' = IF withList THEN <<>> ELSE items
    /\ edited' = (index # None)
    /\ UNCHANGED <<history, index, draft, typed, selected>>

-----------------------------------------------------------------------------
(* Completions *)

ActiveToken(value) ==
    SubSeq(value, Highest({i \in DOMAIN value : IsSpace(value[i])}, 0) + 1, Len(value))

(* Tab: the list is made, here with what fits the beginning of the text, or the next item of
   the one that is there is marked.  Typing on does not make it anew. *)
Complete ==
    /\ IF items # <<>> THEN selected' = (selected + 1) % Len(items) /\ UNCHANGED items
       ELSE /\ items' \in {s \in UNION {[1 .. n -> Words] : n \in 0 .. 2} : IsInjective(s)}
            /\ selected' = 0
    /\ UNCHANGED <<text, cursor, recall, column>>

Choose(up) ==
    /\ items # <<>>
    /\ selected' = (selected + (IF up THEN Len(items) - 1 ELSE 1)) % Len(items)
    /\ UNCHANGED <<text, cursor, recall, column, items>>

(* Enter: apply_completion puts the item in the place of the word before the cursor. *)
Accept ==
    LET start == cursor - Len(ActiveToken(Before(cursor)))
        item == items[selected + 1]
    IN
    /\ items # <<>> /\ Len(text) + Len(item) <= MaxLength + 1
    /\ text' = Before(start) \o item \o From(cursor) /\ cursor' = start + Len(item)
    /\ column' = None /\ items' = <<>>
    /\ edited' = (edited \/ index # None)
    /\ UNCHANGED <<history, index, draft, typed, selected>>

Dismiss ==
    /\ items # <<>> /\ items' = <<>>
    /\ UNCHANGED <<text, cursor, recall, column, selected>>

(* Keys the list does not take go to the editor; with a list, the arrows, Enter and Escape do
   not get there. *)
Key ==
    \/ \E c \in Characters : Insert(c)
    \/ Backspace \/ Delete \/ DeleteWord \/ KillToStart \/ KillToEnd
    \/ Move(Previous(cursor)) \/ Move(NextOne(cursor))
    \/ Move(LineStart(cursor)) \/ Move(LineEnd(cursor))
    \/ Complete \/ Clear(FALSE)
    \/ /\ items = <<>>
       /\ MoveVertical(TRUE) \/ MoveVertical(FALSE) \/ PreviousHistory \/ NextHistory \/ Submit \/ Clear(TRUE)
    \/ Choose(TRUE) \/ Choose(FALSE) \/ Accept \/ Dismiss

EditorNext == keys < MaxKeys /\ keys' = keys + 1 /\ Key

EditorSpec == EditorInit /\ [][EditorNext]_editorVars

-----------------------------------------------------------------------------
(* The cursor is in the text, and the marked completion is one of the list.  While history is
   browsed, what is shown is the entry (unless it has been changed without leaving it), and
   what had been typed is kept: Down past the newest gives it back.  No two neighbours of the
   history are alike, none is blank, and it is no longer than its limit. *)
EditorSound ==
    /\ cursor \in 0 .. Len(text)
    /\ items # <<>> => selected < Len(items)
    /\ index # None =>
        /\ index \in DOMAIN history /\ draft = typed
        /\ edited \/ text = history[index]
    /\ Len(history) <= HistoryLimit
    /\ \A i \in DOMAIN history : Strip(history[i]) = history[i] /\ history[i] # <<>>
    /\ \A i \in 1 .. Len(history) - 1 : history[i] # history[i + 1]
=============================================================================
