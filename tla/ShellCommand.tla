---------------------------- MODULE ShellCommand ----------------------------
(***************************************************************************)
(* A shell command of the bash tool: LocalExecutionEnv.exec, _pump,        *)
(* _terminate and cleanup (harness/environment.py).                        *)
(*                                                                         *)
(* The shell leads a process group.  It may leave a helper in it, which    *)
(* may hold the pipes the shell wrote to.  A process may ignore SIGTERM;   *)
(* one that leaves the group, or closes its output early, is left out.     *)
(***************************************************************************)
EXTENDS Naturals

CONSTANTS
    Streams,        \* "stdout" and "stderr"
    MaxChunks,      \* bound: chunks a stream carries
    MaxErrors       \* bound: callbacks that raise and cancelled tasks

ASSUME ShellAssumption == Streams # {} /\ MaxChunks \in Nat /\ MaxErrors \in Nat

VARIABLES
    shell, helper,  \* the two processes: "none", "running", "exited"
    holds,          \* the helper has the write ends of the pipes
    stubborn,       \* processes that ignore SIGTERM
    doomed,         \* processes that have a deadly signal pending
    early,          \* process.wait() ends with the process, not with its pipes: the asyncio of
                    \* some Python versions does one, of some the other
    produced, read, \* per stream: chunks written, chunks read and kept
    pump, seen,     \* per stream "reading", "done" or "failed"; pumps no longer waited for
    at,             \* per actor: where exec and cleanup are
    handler,        \* exec is in its except clause
    reply,          \* what exec answers
    listed,         \* the process is in _processes
    token, expired, \* the signal is cancelled; the deadline has passed
    errors          \* for the bound

procs == <<shell, helper, holds, doomed>>
world == <<procs, stubborn, early>>
pipes == <<produced, read, pump>>
shellVars == <<world, pipes, seen, at, handler, reply, listed, token, expired, errors>>

Actors == {"exec", "cleanup"}
Processes == {"shell", "helper"}

ShellInit ==
    /\ shell = "none" /\ helper = "none" /\ holds = FALSE /\ doomed = {}
    /\ stubborn \in SUBSET Processes /\ early \in BOOLEAN
    /\ produced = [s \in Streams |-> 0] /\ read = [s \in Streams |-> 0]
    /\ pump = [s \in Streams |-> "reading"] /\ seen = {}
    /\ at = [a \in Actors |-> "new"] /\ handler = FALSE /\ reply = "none" /\ listed = FALSE
    /\ token = FALSE /\ expired = FALSE /\ errors = 0

Running(p) == (IF p = "shell" THEN shell ELSE helper) = "running"
PipesOpen == Running("shell") \/ (Running("helper") /\ holds)
Waited == ~Running("shell") /\ (early \/ ~PipesOpen)        \* process.wait() has ended
AllSet == {p \in Processes : Running(p)}
Move(a, pc) == at' = [at EXCEPT ![a] = pc]

-----------------------------------------------------------------------------
(* The processes *)

Write(s) ==
    /\ PipesOpen /\ produced[s] < MaxChunks
    /\ produced' = [produced EXCEPT ![s] = @ + 1]
    /\ UNCHANGED <<world, read, pump, seen, at, handler, reply, listed, token, expired, errors>>

StartHelper ==
    /\ Running("shell") /\ "shell" \notin doomed /\ helper = "none"
    /\ helper' = "running" /\ holds' \in BOOLEAN
    /\ UNCHANGED <<shell, doomed, stubborn, early, pipes, seen, at, handler, reply, listed, token, expired, errors>>

(* By itself, or for a signal. *)
Exit(p) ==
    /\ Running(p)
    /\ IF p = "shell" THEN shell' = "exited" /\ UNCHANGED helper ELSE helper' = "exited" /\ UNCHANGED shell
    /\ doomed' = doomed \ {p}
    /\ UNCHANGED <<holds, stubborn, early, pipes, seen, at, handler, reply, listed, token, expired, errors>>

-----------------------------------------------------------------------------
(* Variants with a mistake in them.  No specification uses them: the checks put each one in
   the place of the definition it resembles, to see that a property notices. *)

(* A group that outlives the grace period is left to itself. *)
GraceGivesUp(a) ==
    /\ at[a] = "grace"
    /\ Move(a, IF a = "exec" THEN "closing" ELSE "done")
    /\ UNCHANGED <<world, pipes, seen, handler, reply, listed, token, expired, errors>>

(* Waits as long as it takes for what SIGTERM was sent to. *)
GraceForever(a) ==
    /\ at[a] = "grace" /\ Waited
    /\ Move(a, IF a = "exec" THEN "closing" ELSE "done")
    /\ UNCHANGED <<world, pipes, seen, handler, reply, listed, token, expired, errors>>

-----------------------------------------------------------------------------
(* exec *)

Start ==
    /\ at["exec"] = "new"
    /\ \/ /\ ~token
          /\ shell' = "running" /\ listed' = TRUE /\ Move("exec", "wait") /\ UNCHANGED reply
       \/ /\ Move("exec", "returned") /\ UNCHANGED <<shell, listed>>
          /\ reply' = IF token THEN "aborted" ELSE "spawn_error"
    /\ UNCHANGED <<helper, holds, doomed, stubborn, early, pipes, seen, handler, token, expired, errors>>

(* A pump keeps the chunk, then hands it to the callbacks. *)
Pump(s) ==
    /\ at["exec"] \in {"wait", "grace", "reap", "collect"} /\ pump[s] = "reading"
    /\ read[s] < produced[s]
    /\ read' = [read EXCEPT ![s] = @ + 1]
    /\ UNCHANGED <<world, produced, pump, seen, at, handler, reply, listed, token, expired, errors>>

CallbackRaises(s) ==
    /\ at["exec"] \in {"wait", "grace", "reap", "collect"} /\ pump[s] = "reading"
    /\ read[s] < produced[s] /\ errors < MaxErrors
    /\ read' = [read EXCEPT ![s] = @ + 1]
    /\ pump' = [pump EXCEPT ![s] = "failed"] /\ errors' = errors + 1
    /\ UNCHANGED <<world, produced, seen, at, handler, reply, listed, token, expired>>

EndOfStream(s) ==
    /\ at["exec"] \in {"wait", "grace", "reap", "collect"} /\ pump[s] = "reading"
    /\ read[s] = produced[s] /\ ~PipesOpen
    /\ pump' = [pump EXCEPT ![s] = "done"]
    /\ UNCHANGED <<world, produced, read, seen, at, handler, reply, listed, token, expired, errors>>

Ended == {s \in Streams \ seen : pump[s] # "reading"}
Failed == {s \in Ended : pump[s] = "failed"}

(* The loop wakes up: which of the things it finds done counts is a matter of their order. *)
TimesOut ==
    /\ at["exec"] = "wait" /\ expired /\ ~Waited /\ Ended = {} /\ ~token
    /\ Move("exec", "term") /\ reply' = "timeout"
    /\ UNCHANGED <<world, pipes, seen, handler, listed, token, expired, errors>>

SeesToken ==
    /\ at["exec"] = "wait" /\ token
    /\ Move("exec", "term") /\ reply' = "aborted"
    /\ UNCHANGED <<world, pipes, seen, handler, listed, token, expired, errors>>

SeesFailure ==
    /\ at["exec"] = "wait" /\ ~token /\ Failed # {}
    /\ Move("exec", "term") /\ reply' = "callback_error"
    /\ UNCHANGED <<world, pipes, seen, handler, listed, token, expired, errors>>

SeesExit ==
    /\ at["exec"] = "wait" /\ ~token /\ Failed = {} /\ Waited
    /\ Move("exec", "collect")
    /\ UNCHANGED <<world, pipes, seen, handler, reply, listed, token, expired, errors>>

SeesEnd ==
    /\ at["exec"] = "wait" /\ ~token /\ Failed = {} /\ ~Waited /\ Ended # {}
    /\ seen' = seen \cup Ended
    /\ UNCHANGED <<world, pipes, at, handler, reply, listed, token, expired, errors>>

(* gather(stdout_task, stderr_task): neither the deadline nor the signal is looked at. *)
Collect ==
    /\ at["exec"] = "collect"
    /\ IF \E s \in Streams : pump[s] = "failed"
       THEN Move("exec", "term") /\ handler' = TRUE /\ reply' = "unknown"
       ELSE /\ \A s \in Streams : pump[s] = "done"
            /\ Move("exec", "closing") /\ reply' = "ok" /\ UNCHANGED handler
    /\ UNCHANGED <<world, pipes, seen, listed, token, expired, errors>>

(* The task is cancelled: exec makes an answer of it, once. *)
CancelExec ==
    /\ errors < MaxErrors /\ errors' = errors + 1
    /\ \/ /\ at["exec"] \in {"wait", "collect", "grace", "reap"} /\ ~handler
          /\ Move("exec", "term") /\ handler' = TRUE /\ reply' = "aborted"
       \/ /\ at["exec"] \in {"grace", "reap"} /\ handler
          /\ Move("exec", "closing") /\ reply' = "escaped" /\ UNCHANGED handler
       \/ /\ at["exec"] = "closing"
          /\ Move("exec", "returned") /\ UNCHANGED handler
          /\ reply' = IF reply = "escaped" THEN reply ELSE "cancelled"
    /\ UNCHANGED <<world, pipes, seen, listed, token, expired>>

(* finally: what still runs of the pumps and waiters is cancelled and awaited. *)
Close ==
    /\ at["exec"] = "closing"
    /\ Move("exec", "returned") /\ listed' = FALSE
    /\ UNCHANGED <<world, pipes, seen, handler, reply, token, expired, errors>>

-----------------------------------------------------------------------------
(* _terminate, for exec or cleanup *)

After(a) == IF a = "exec" THEN "closing" ELSE "done"

Term(a) ==
    /\ at[a] = "term"
    /\ IF Running("shell") THEN Move(a, "grace") /\ doomed' = doomed \cup (AllSet \ stubborn)
       ELSE Move(a, After(a)) /\ UNCHANGED doomed
    /\ UNCHANGED <<shell, helper, holds, stubborn, early, pipes, seen, handler, reply, listed, token, expired, errors>>

(* One second for process.wait(), then SIGKILL to the group, if it is still there. *)
Grace(a) ==
    /\ at[a] = "grace"
    /\ \/ Waited /\ Move(a, After(a)) /\ UNCHANGED doomed
       \/ /\ ~Waited /\ Move(a, IF AllSet = {} THEN After(a) ELSE "reap")
          /\ doomed' = doomed \cup AllSet
    /\ UNCHANGED <<shell, helper, holds, stubborn, early, pipes, seen, handler, reply, listed, token, expired, errors>>

Reap(a) ==
    /\ at[a] = "reap" /\ Waited
    /\ Move(a, After(a))
    /\ UNCHANGED <<world, pipes, seen, handler, reply, listed, token, expired, errors>>

(* cleanup: the processes of the environment that exec has not given up. *)
Cleanup ==
    /\ at["cleanup"] = "new" /\ listed
    /\ Move("cleanup", "term")
    /\ UNCHANGED <<world, pipes, seen, handler, reply, listed, token, expired, errors>>

Cancel ==
    /\ ~token /\ at["exec"] # "returned" /\ token' = TRUE
    /\ UNCHANGED <<world, pipes, seen, at, handler, reply, listed, expired, errors>>

Deadline ==
    /\ ~expired /\ at["exec"] \notin {"new", "returned"} /\ expired' = TRUE
    /\ UNCHANGED <<world, pipes, seen, at, handler, reply, listed, token, errors>>

Loop ==
    \/ TimesOut \/ SeesToken \/ SeesFailure \/ SeesExit \/ SeesEnd \/ Collect \/ Close
    \/ \E a \in Actors : Term(a) \/ Grace(a) \/ Reap(a)

ShellNext ==
    \/ Loop \/ Start \/ CancelExec \/ Cleanup \/ Cancel \/ Deadline \/ StartHelper
    \/ \E s \in Streams : Write(s) \/ Pump(s) \/ CallbackRaises(s) \/ EndOfStream(s)
    \/ \E p \in Processes : Exit(p)

Ready == Loop \/ \E s \in Streams : Pump(s) \/ EndOfStream(s)

(* The event loop runs what is ready, and a signal that cannot be ignored ends its process. *)
ShellSpec ==
    /\ ShellInit /\ [][ShellNext]_shellVars /\ WF_shellVars(Ready)
    /\ \A p \in Processes : WF_shellVars(p \in doomed /\ Exit(p))

-----------------------------------------------------------------------------
(* The shell is gone when exec has returned, whatever made it end, unless its task was
   cancelled once more while it terminated the shell, and always when cleanup is through.
   An answer that is not an error has all that was written to the pipes. *)
ShellGone ==
    /\ at["exec"] = "returned" /\ reply # "escaped" => ~Running("shell")
    /\ at["cleanup"] = "done" => ~Running("shell")
    /\ reply = "ok" => read = produced /\ ~PipesOpen

(* A deadline that passes, or a signal, ends the command, also one that ignores SIGTERM.  A
   helper that holds the pipes after its shell has gone makes exec wait for it instead, where
   process.wait() does not. *)
TimeoutEnds ==
    at["exec"] = "wait" /\ (expired \/ token)
        ~> at["exec"] = "returned" \/ (early /\ at["exec"] = "collect" /\ PipesOpen)
=============================================================================
