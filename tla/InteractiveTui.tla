--------------------------- MODULE InteractiveTui ---------------------------
(***************************************************************************)
(* The interactive mode: InteractiveTui and its event loop (tui/app.py),   *)
(* the reading of keys (StdioTerminal, tui/terminal.py), commands          *)
(* (tui/commands.py) and, under --approval prompt, the question a tool     *)
(* call waits for (TuiApprovalBroker, tui/approval.py).  What is drawn,    *)
(* what the editor holds and completions are left out: an event is what    *)
(* the loop makes of one or more keys.                                     *)
(***************************************************************************)
EXTENDS Naturals, FiniteSets

CONSTANTS
    Gates,          \* the values of --approval prompt a run considers
    MaxRuns,        \* bound: prompts that become runs
    MaxKeys         \* bound: keys that are typed

(* Assumed where this module is instantiated. *)
TuiAssumption == Gates \subseteq BOOLEAN /\ MaxRuns \in Nat /\ MaxKeys \in Nat

VARIABLES
    gated,          \* tool calls ask the broker
    loop,           \* "start", "wait", "command", "closing" or "returned"
    event,          \* what read_event has for the loop, "none" while it reads
    text,           \* the editor has text
    runs,           \* per run: "none", "streaming", "asking", "settling", "ok" or "failed"
    cur,            \* _run_task, 0 for none
    aborted,        \* runs whose token is cancelled
    over,           \* the run that was done when the loop woke up, 0 for none
    exit, closed,   \* _exit_requested, with what it was for: "no", "asked" or "eof"; _input_closed
    stale,          \* a thread of a read that timed out still waits for a byte
    cut,            \* history: runs aborted because the loop ended
    keys            \* for the bound

reader == <<event, stale, keys>>
vars == <<gated, loop, event, text, runs, cur, aborted, over, exit, closed, stale, cut, keys>>

Runs == 1 .. MaxRuns
Presses == {"type", "submit", "command", "ctrl_c", "ctrl_d", "escape"}

Init ==
    /\ gated \in Gates
    /\ loop = "start" /\ event = "none" /\ text = FALSE
    /\ runs = [i \in Runs |-> "none"] /\ cur = 0 /\ aborted = {} /\ over = 0
    /\ exit = "no" /\ closed = FALSE /\ stale = FALSE
    /\ cut = {} /\ keys = 0

Over(i) == runs[i] \in {"ok", "failed"}
Idle == cur = 0 \/ Over(cur)
Streaming == {i \in Runs : runs[i] \in {"streaming", "asking"}}     \* session.is_streaming
Started == {i \in Runs : runs[i] # "none"}

-----------------------------------------------------------------------------
(* Keys.  The byte after an escape may be part of a sequence, so the read is given up after a
   while; the thread it was made in goes on waiting, and takes the next byte with it. *)
Read(e) ==
    /\ loop = "wait" /\ event = "none" /\ ~closed /\ keys < MaxKeys
    /\ keys' = keys + 1
    /\ IF stale THEN stale' = FALSE /\ UNCHANGED event
       ELSE event' = e /\ stale' = (e = "escape")
    /\ UNCHANGED <<gated, loop, text, runs, cur, aborted, over, exit, closed, cut>>

EndOfInput ==
    /\ loop = "wait" /\ event = "none"
    /\ event' = "eof" /\ stale' = FALSE
    /\ UNCHANGED <<gated, loop, text, runs, cur, aborted, over, exit, closed, cut, keys>>

-----------------------------------------------------------------------------
(* A variant with a mistake in it, as those below: a run that ends after the input has is
   taken for any other. *)
AfterForgets(done, c, ends) ==
    LET settled == done # 0 /\ c = done IN
    /\ cur' = IF settled THEN 0 ELSE c
    /\ exit' = ends
    /\ loop' = IF exit' = "no" THEN "wait" ELSE "closing"
    /\ over' = 0

(* The loop.  After(c) is what follows the handling of an event: the run that was done when
   the loop woke up is settled, unless another is _run_task by now. *)
After(done, c, ends) ==
    LET settled == done # 0 /\ c = done IN
    /\ cur' = IF settled THEN 0 ELSE c
    /\ exit' = IF ends = "no" /\ settled /\ closed THEN "eof" ELSE ends
    /\ loop' = IF exit' = "no" THEN "wait" ELSE "closing"
    /\ over' = 0

NewRun ==
    \E i \in Runs \ Started :
        /\ i = Cardinality(Started) + 1
        /\ runs' = [runs EXCEPT ![i] = "streaming"]
        /\ After(IF cur # 0 /\ Over(cur) THEN cur ELSE 0, i, "no")

NoRun(ends) == After(IF cur # 0 /\ Over(cur) THEN cur ELSE 0, cur, ends) /\ UNCHANGED runs

-----------------------------------------------------------------------------
(* run: an initial prompt is submitted, or there is none. *)
Start ==
    /\ loop = "start"
    /\ NewRun \/ NoRun("no")
    /\ UNCHANGED <<gated, reader, text, aborted, closed, cut>>

(* _submit_editor: a follow-up while the agent streams, a run otherwise; nothing for an empty
   editor or an attachment that does not resolve. *)
Submit ==
    /\ event = "submit" /\ text' = FALSE
    /\ (text /\ Streaming = {} /\ NewRun) \/ NoRun("no")
    /\ UNCHANGED <<aborted, closed>>

CtrlC ==
    /\ event = "ctrl_c"
    /\ IF Streaming # {} THEN aborted' = aborted \cup Streaming /\ NoRun("no") /\ UNCHANGED text
       ELSE text' = FALSE /\ NoRun(IF text THEN "no" ELSE "asked") /\ UNCHANGED aborted
    /\ UNCHANGED closed

Edit ==
    /\ \/ event = "type" /\ text' = TRUE /\ NoRun("no")
       \/ event = "escape" /\ text' = FALSE /\ NoRun("no")
       \/ event = "ctrl_d" /\ NoRun(IF text THEN "no" ELSE "asked") /\ UNCHANGED text
    /\ UNCHANGED <<aborted, closed>>

(* A run under way is left to end by itself. *)
Closed ==
    /\ event = "eof" /\ closed' = TRUE /\ NoRun(IF Idle THEN "eof" ELSE "no")
    /\ UNCHANGED <<text, aborted>>

(* A command holds the loop until it has been executed. *)
Command ==
    /\ event = "command" /\ text' = FALSE
    /\ loop' = "command" /\ over' = IF cur # 0 /\ Over(cur) THEN cur ELSE 0
    /\ UNCHANGED <<aborted, closed, runs, cur, exit>>

Handle ==
    /\ loop = "wait" /\ event # "none"
    /\ Submit \/ CtrlC \/ Edit \/ Closed \/ Command
    /\ event' = "none"
    /\ UNCHANGED <<gated, cut, stale, keys>>

(* Some commands end the loop. *)
CommandDone ==
    /\ loop = "command"
    /\ \E ends \in {"no", "asked"} : After(over, cur, ends)
    /\ UNCHANGED <<gated, reader, text, runs, aborted, closed, cut>>

RunDone ==
    /\ loop = "wait" /\ event = "none" /\ cur # 0 /\ Over(cur)
    /\ NoRun("no")
    /\ UNCHANGED <<gated, reader, text, aborted, closed, cut>>

(* The finally of run: the run is aborted and awaited. *)
Finally ==
    /\ loop = "closing"
    /\ IF Idle
       THEN loop' = "returned" /\ UNCHANGED <<aborted, cut>>
       ELSE /\ cur \notin cut /\ cut' = cut \cup {cur}
            /\ aborted' = aborted \cup Streaming /\ UNCHANGED loop
    /\ UNCHANGED <<gated, reader, text, runs, cur, over, exit, closed>>

-----------------------------------------------------------------------------
(* The run, as the interface sees it *)
Run(i, from, to) ==
    /\ runs[i] = from /\ runs' = [runs EXCEPT ![i] = to]
    /\ UNCHANGED <<gated, loop, reader, text, cur, aborted, over, exit, closed, cut>>

(* The gate puts a tool call to the broker and waits for decide or cancel_all: nothing in the
   program calls them, and the token is not looked at. *)
Asks(i) == gated /\ i \notin aborted /\ Run(i, "streaming", "asking")

Ends(i) == Run(i, "streaming", "settling")

(* prompt has an outcome after the agent is idle again. *)
Settles(i) == \E to \in {"ok", "failed"} : Run(i, "settling", to)

Next ==
    \/ Start \/ EndOfInput \/ Handle \/ CommandDone \/ RunDone \/ Finally
    \/ \E e \in Presses : Read(e)
    \/ \E i \in Runs : Asks(i) \/ Ends(i) \/ Settles(i)

Loop == Start \/ Handle \/ CommandDone \/ RunDone \/ Finally

(* The loop runs, commands come to an end, and so do the providers and tools of a run whose
   token is cancelled. *)
Spec ==
    /\ Init /\ [][Next]_vars
    /\ WF_vars(Loop)
    /\ \A i \in Runs : WF_vars(i \in aborted /\ Ends(i)) /\ WF_vars(Settles(i))

-----------------------------------------------------------------------------
(* When the mode returns its run is over and the agent idle (app.py:102-105).  And "EOF during
   an active run exits only after the run settles" (ARCHITECTURE.md:250): only an exit that
   was asked for, by a key or a command, cuts a run short. *)
ExitsCleanly ==
    /\ loop = "returned" => Streaming = {} /\ Idle
    /\ cut # {} => exit = "asked"

(* An exit that was asked for happens, and the end of the input is one once the run is over:
   where no tool call waits for an answer. *)
ExitHappens ==
    exit # "no" \/ (closed /\ Idle) ~> loop = "returned" \/ \E i \in Runs : runs[i] = "asking"

(* docs/tui.md: Ctrl-C aborts a running agent. *)
AbortEnds == \A i \in Runs : i \in aborted ~> Over(i)
=============================================================================
