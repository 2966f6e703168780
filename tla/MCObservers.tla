----------------------------- MODULE MCObservers -----------------------------
(***************************************************************************)
(* What stands between a run of the agent and those who follow it, for     *)
(* TLC: RpcSession (a client over RPC, or print mode), EventStream (tasks  *)
(* that iterate), InteractiveTui (a terminal) with what it is made of      *)
(* (KeyDecoding, LineEditor, ListViews, ScreenCells), and Telemetry        *)
(* (spans), side by side in one run.  They share no variable: an initial   *)
(* state picks the one that moves, and the others stay where they begin.   *)
(***************************************************************************)
EXTENDS RpcSession, EventStream, Telemetry

CONSTANTS MaxPieces, MaxLength, MaxStrokes, HistoryLimit, MaxDraws

VARIABLES
    moves,          \* which of Parts
    gated, loop, event, text, runs, cur, aborted, over, leaving, closed, stale, cut, keys,
    input, buffer, paste, events, pending, escapePending, stray, ended, fed, timeouts,
    line, cursor, history, index, draft, column, items, marked, strokes, typed, edited,
    row, previous, screen, fresh, draws, overEdge, meant,
    count, height, offset, follow, shown, disabled, selected, top, rows, drawn, chosen, scrolls

Parts == {"rpc", "stream", "tui", "spans", "keys", "editor", "cells", "lists"}

tuiVars == <<gated, loop, event, text, runs, cur, aborted, over, leaving, closed, stale, cut, keys>>
keyVars == <<input, buffer, paste, events, pending, escapePending, stray, ended, fed, timeouts>>
editVars == <<line, cursor, history, index, draft, column, items, marked, strokes, typed, edited>>
cellVars == <<row, previous, screen, fresh, draws, overEdge, meant>>
listVars == <<count, height, offset, follow, shown, disabled, selected, top, rows, drawn, chosen, scrolls>>
ownVars == <<vars, eventsVars, tuiVars, spanVars>>
screenVars == <<keyVars, editVars, cellVars, listVars>>

T == INSTANCE InteractiveTui WITH Gates <- BOOLEAN, MaxRuns <- 2, MaxKeys <- 5, exit <- leaving

K == INSTANCE KeyDecoding WITH None <- NoOne, waiting <- escapePending
D == INSTANCE LineEditor WITH
        None <- NoOne, MaxKeys <- MaxStrokes, text <- line, selected <- marked, keys <- strokes
G == INSTANCE ScreenCells WITH None <- NoOne, Widths <- {3, 4}, cut <- overEdge
V == INSTANCE ListViews WITH MaxLines <- 4, MaxHeight <- 2, MaxOptions <- 3, MaxScrolls <- 5

ASSUME T!TuiAssumption
ASSUME K!KeysAssumption /\ D!EditorAssumption /\ G!SurfaceAssumption /\ V!ListsAssumption

(* One initial state is enough for a part that does not move. *)
MCInit ==
    /\ moves \in Parts
    /\ Init /\ (moves # "rpc" => mode = "stdio" /\ model = CHOOSE m \in Models : TRUE)
    /\ EventsInit
    /\ T!Init /\ (moves # "tui" => ~gated)
    /\ SpansInit /\ (moves # "spans" => ~batching)
    /\ D!EditorInit
    /\ G!SurfaceInit /\ (moves # "cells" => DOMAIN row = 0 .. 2)
    /\ V!ListsInit /\ (moves # "lists" => height = 1 /\ rows = 1 /\ disabled = <<>>)
    /\ K!KeysInit /\ (moves # "keys" => input = <<>>)
MCNext ==
    \/ moves = "rpc" /\ Next /\ UNCHANGED <<eventsVars, tuiVars, spanVars, screenVars, moves>>
    \/ moves = "stream" /\ EventsNext /\ UNCHANGED <<vars, tuiVars, spanVars, screenVars, moves>>
    \/ moves = "tui" /\ T!Next /\ UNCHANGED <<vars, eventsVars, spanVars, screenVars, moves>>
    \/ moves = "spans" /\ SpansNext /\ UNCHANGED <<vars, eventsVars, tuiVars, screenVars, moves>>
    \/ moves = "keys" /\ K!KeysNext /\ UNCHANGED <<ownVars, editVars, cellVars, listVars, moves>>
    \/ moves = "editor" /\ D!EditorNext /\ UNCHANGED <<ownVars, keyVars, cellVars, listVars, moves>>
    \/ moves = "cells" /\ G!SurfaceNext /\ UNCHANGED <<ownVars, keyVars, editVars, listVars, moves>>
    \/ moves = "lists" /\ V!ListsNext /\ UNCHANGED <<ownVars, keyVars, editVars, cellVars, moves>>

(* The fairness of the one that moves. *)
MCSpec ==
    /\ MCInit /\ [][MCNext]_<<ownVars, screenVars, moves>>
    /\ Fairness
    /\ WF_eventsVars(moves = "stream" /\ LastEnd)
    /\ \A c \in Consumers : WF_eventsVars(moves = "stream" /\ Step(c))
    /\ WF_tuiVars(moves = "tui" /\ T!Loop)
    /\ \A i \in T!Runs :
        /\ WF_tuiVars(moves = "tui" /\ i \in aborted /\ T!Ends(i))
        /\ WF_tuiVars(moves = "tui" /\ T!Settles(i))

(* The property of InteractiveTui, about its state here. *)
ExitHappens == T!ExitHappens

(* The terminal is left as it was found (InteractiveTui), and meanwhile what is typed arrives
   (KeyDecoding), the editor keeps it (LineEditor), the screen shows it (ScreenCells), and
   what is scrolled or selected stays in sight (ListViews). *)
TerminalSound == T!ExitsCleanly /\ K!KeysSound /\ D!EditorSound /\ G!ScreenShows /\ V!ListsSound
=============================================================================
