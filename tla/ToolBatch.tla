------------------------------ MODULE ToolBatch ------------------------------
(***************************************************************************)
(* One call of _execute_tool_batch (agent/agent_loop.py): the calls of an  *)
(* assistant message, executed one after the other or as concurrent tasks, *)
(* with the preparation hooks, progress updates, timeouts, the             *)
(* after_tool_call hook and the abort signal.                              *)
(*                                                                         *)
(* stage[i] is where the code is with call i; the controller ctl is the    *)
(* coroutine that the loop awaits.  In a sequential batch it runs a        *)
(* prepared call itself, in a parallel one a task of its own does.         *)
(***************************************************************************)
EXTENDS Naturals, Sequences

CONSTANTS
    N,              \* number of tool calls of the assistant message
    MaxUpdates,     \* bound: update tasks of one call that exist at a time
    HooksMayFail    \* after_tool_call may raise CancelledError

Calls == 1 .. N

ASSUME CallsAssumption == N \in Nat \ {0}
ASSUME UpdatesAssumption == MaxUpdates \in Nat
ASSUME HooksAssumption == HooksMayFail \in BOOLEAN

VARIABLES
    mode,       \* how the batch runs
    cancelled,  \* the signal of the run
    ctl, cur,   \* controller, and the call it prepares
    stage,      \* per call
    updates,    \* per call, update tasks that have not emitted yet
    finished,   \* tasks in the order of their completion, not yet seen by as_completed
    killed,     \* tasks with a cancellation they have not noticed yet
    pending,    \* AgentState._pending_tool_calls
    results     \* ToolResult messages appended to the context

vars == <<mode, cancelled, ctl, cur, stage, updates, finished, killed, pending, results>>
taskVars == <<updates, finished, killed>>

Preparing == {"new", "checking", "hooks", "prepared"}
Live == {"queued", "executing", "settling", "after"}
Stages == Preparing \cup Live \cup {"refused", "finished", "raised", "cancelled", "ended"}
Controls == {"preflight", "running", "unwinding", "reporting", "check", "done", "raised"}

Inline == mode # "parallel"
To(i, s) == stage' = [stage EXCEPT ![i] = s]

-----------------------------------------------------------------------------
(* Variants with a mistake in them.  No specification uses them: the checks put each one in
   the place of the action it resembles, to see that a property notices. *)

(* The signal is not looked at before execute. *)
BeginAnyway(i) ==
    /\ stage[i] = "queued" /\ i \notin killed
    /\ To(i, "executing")
    /\ UNCHANGED <<mode, cancelled, ctl, cur, taskVars, pending, results>>

(* The first exception leaves the batch with its other tasks running. *)
RaiseAtOnce ==
    /\ ctl = "running" /\ finished # <<>>
    /\ stage[Head(finished)] = "raised"
    /\ finished' = Tail(finished)
    /\ ctl' = "raised"
    /\ UNCHANGED <<mode, cancelled, cur, stage, updates, killed, pending, results>>

(* Results are reported in any order; an abort ends every batch at the next result. *)
ReportAny ==
    /\ ctl = "reporting"
    /\ \E i \in Calls : stage[i] = "ended" /\ results' = Append(results, i)
    /\ ctl' = "check"
    /\ UNCHANGED <<mode, cancelled, cur, stage, taskVars, pending>>

BreakOnAbort ==
    /\ ctl = "check"
    /\ IF Len(results) = N \/ cancelled
       THEN ctl' = "done" /\ UNCHANGED cur
       ELSE IF Inline
       THEN ctl' = "preflight" /\ cur' = cur + 1
       ELSE ctl' = "reporting" /\ UNCHANGED cur
    /\ UNCHANGED <<mode, cancelled, stage, taskVars, pending, results>>

Init ==
    /\ mode \in {"sequential", "parallel", "length"}
    /\ cancelled \in BOOLEAN
    /\ ctl = "preflight" /\ cur = 1
    /\ stage = [i \in Calls |-> "new"]
    /\ updates = [i \in Calls |-> 0]
    /\ finished = <<>>
    /\ killed = {}
    /\ pending = {}
    /\ results = <<>>

(* Agent.abort, from any other task. *)
Abort ==
    /\ ~ cancelled
    /\ ctl \notin {"done", "raised"}
    /\ cancelled' = TRUE
    /\ UNCHANGED <<mode, ctl, cur, stage, taskVars, pending, results>>

-----------------------------------------------------------------------------
(* Preparation, one call at a time in source order. *)

(* tool_execution_start; the calls of a truncated message fail without being looked at. *)
Announce ==
    /\ ctl = "preflight" /\ cur \in Calls /\ stage[cur] = "new"
    /\ pending' = pending \cup {cur}
    /\ To(cur, IF mode = "length" THEN "refused" ELSE "checking")
    /\ UNCHANGED <<mode, cancelled, ctl, cur, taskVars, results>>

(* _prepare_tool_call up to its first await: unknown tool, aborted run. *)
CheckCall ==
    /\ ctl = "preflight" /\ cur \in Calls /\ stage[cur] = "checking"
    /\ \E known \in BOOLEAN : To(cur, IF known /\ ~ cancelled THEN "hooks" ELSE "refused")
    /\ UNCHANGED <<mode, cancelled, ctl, cur, taskVars, pending, results>>

(* prepare_arguments, the schema and before_tool_call: allowed, or an error outcome. *)
AllowCall ==
    /\ ctl = "preflight" /\ cur \in Calls /\ stage[cur] = "hooks"
    /\ IF Inline
       THEN To(cur, "queued") /\ ctl' = "running" /\ UNCHANGED cur
       ELSE To(cur, "prepared") /\ cur' = cur + 1 /\ UNCHANGED ctl
    /\ UNCHANGED <<mode, cancelled, taskVars, pending, results>>

RefuseCall ==
    /\ ctl = "preflight" /\ cur \in Calls /\ stage[cur] = "hooks"
    /\ To(cur, "refused")
    /\ UNCHANGED <<mode, cancelled, ctl, cur, taskVars, pending, results>>

(* tool_execution_end of a call that never executes. *)
EndRefused ==
    /\ ctl = "preflight" /\ cur \in Calls /\ stage[cur] = "refused"
    /\ To(cur, "ended")
    /\ pending' = pending \ {cur}
    /\ IF Inline
       THEN ctl' = "reporting" /\ UNCHANGED cur
       ELSE cur' = cur + 1 /\ UNCHANGED ctl
    /\ UNCHANGED <<mode, cancelled, taskVars, results>>

(* The tasks of a parallel batch are created together, after the last preparation. *)
Spawn ==
    /\ ctl = "preflight" /\ cur = N + 1
    /\ ctl' = "running"
    /\ stage' = [i \in Calls |-> IF stage[i] = "prepared" THEN "queued" ELSE stage[i]]
    /\ UNCHANGED <<mode, cancelled, cur, taskVars, pending, results>>

-----------------------------------------------------------------------------
(* _run_prepared_tool of call i. *)

Runs(i, s) == stage[i] = s /\ i \notin killed

Begin(i) ==
    /\ Runs(i, "queued")
    /\ To(i, IF cancelled THEN "settling" ELSE "executing")
    /\ UNCHANGED <<mode, cancelled, ctl, cur, taskVars, pending, results>>

(* The tool reports progress: on_update starts a task that will emit it. *)
Progress(i) ==
    /\ stage[i] = "executing" /\ updates[i] < MaxUpdates
    /\ updates' = [updates EXCEPT ![i] = @ + 1]
    /\ UNCHANGED <<mode, cancelled, ctl, cur, stage, finished, killed, pending, results>>

EmitUpdate(i) ==
    /\ updates[i] > 0
    /\ updates' = [updates EXCEPT ![i] = @ - 1]
    /\ UNCHANGED <<mode, cancelled, ctl, cur, stage, finished, killed, pending, results>>

(* execute returns, raises, times out or observes the abort: each becomes a result. *)
Complete(i) ==
    /\ Runs(i, "executing")
    /\ To(i, "settling")
    /\ UNCHANGED <<mode, cancelled, ctl, cur, taskVars, pending, results>>

(* The finally clause awaits the update tasks. *)
Settle(i) ==
    /\ Runs(i, "settling") /\ updates[i] = 0
    /\ To(i, "after")
    /\ UNCHANGED <<mode, cancelled, ctl, cur, taskVars, pending, results>>

(* after_tool_call: its exceptions become results, except CancelledError. *)
AfterCall(i) ==
    /\ Runs(i, "after")
    /\ \/ To(i, "finished")
       \/ HooksMayFail /\ To(i, "raised")
    /\ finished' = Append(finished, i)
    /\ UNCHANGED <<mode, cancelled, ctl, cur, updates, killed, pending, results>>

(* A cancelled task notices: an execution turns it into a result and goes on, later awaits
   are left by CancelledError, and gather takes its update tasks along. *)
Notice(i) ==
    /\ i \in killed
    /\ killed' = killed \ {i}
    /\ To(i, IF stage[i] = "executing" THEN "settling" ELSE "cancelled")
    /\ updates' = [updates EXCEPT ![i] = IF stage[i] = "settling" THEN 0 ELSE @]
    /\ UNCHANGED <<mode, cancelled, ctl, cur, finished, pending, results>>

-----------------------------------------------------------------------------
(* The controller while calls execute. *)

(* tool_execution_end, in the order of completion. *)
Collect ==
    /\ ctl = "running" /\ finished # <<>>
    /\ stage[Head(finished)] = "finished"
    /\ To(Head(finished), "ended")
    /\ pending' = pending \ {Head(finished)}
    /\ finished' = Tail(finished)
    /\ ctl' = IF Inline THEN "reporting" ELSE ctl
    /\ UNCHANGED <<mode, cancelled, cur, updates, killed, results>>

(* A call raised: a parallel batch cancels its other tasks, those not yet started at once. *)
CollectRaised ==
    /\ ctl = "running" /\ finished # <<>>
    /\ stage[Head(finished)] = "raised"
    /\ finished' = Tail(finished)
    /\ IF Inline
       THEN ctl' = "raised" /\ UNCHANGED <<stage, killed>>
       ELSE /\ ctl' = "unwinding"
            /\ stage' = [i \in Calls |-> IF stage[i] = "queued" THEN "cancelled" ELSE stage[i]]
            /\ killed' = {i \in Calls : stage[i] \in Live \ {"queued"}}
    /\ UNCHANGED <<mode, cancelled, cur, updates, pending, results>>

(* gather(..., return_exceptions=True) has seen every task end. *)
Unwound ==
    /\ ctl = "unwinding"
    /\ \A i \in Calls : stage[i] \notin Live
    /\ ctl' = "raised"
    /\ UNCHANGED <<mode, cancelled, cur, stage, taskVars, pending, results>>

AllCollected ==
    /\ ctl = "running" /\ ~ Inline
    /\ \A i \in Calls : stage[i] = "ended"
    /\ ctl' = "reporting"
    /\ UNCHANGED <<mode, cancelled, cur, stage, taskVars, pending, results>>

(* The ToolResult message is emitted and appended: in source order, whatever the order of
   completion; a sequential batch reports the call it has just executed. *)
Report ==
    /\ ctl = "reporting"
    /\ results' = Append(results, IF Inline THEN cur ELSE Len(results) + 1)
    /\ ctl' = "check"
    /\ UNCHANGED <<mode, cancelled, cur, stage, taskVars, pending>>

(* On to the next call or result; an abort ends a sequential batch here. *)
NextCall ==
    /\ ctl = "check"
    /\ IF Len(results) = N \/ (mode = "sequential" /\ cancelled)
       THEN ctl' = "done" /\ UNCHANGED cur
       ELSE IF Inline
       THEN ctl' = "preflight" /\ cur' = cur + 1
       ELSE ctl' = "reporting" /\ UNCHANGED cur
    /\ UNCHANGED <<mode, cancelled, stage, taskVars, pending, results>>

-----------------------------------------------------------------------------
Control ==
    \/ Announce \/ CheckCall \/ AllowCall \/ RefuseCall \/ EndRefused \/ Spawn
    \/ Collect \/ CollectRaised \/ Unwound \/ AllCollected \/ Report \/ NextCall

Task(i) == Begin(i) \/ Settle(i) \/ AfterCall(i) \/ Notice(i)

Next ==
    \/ Abort \/ Control
    \/ \E i \in Calls : Task(i) \/ Complete(i) \/ Progress(i) \/ EmitUpdate(i)

Spec == Init /\ [][Next]_vars

(* Ready tasks run, hooks and listeners answer; a tool returns or has a timeout. *)
FairSpec ==
    /\ Spec
    /\ WF_vars(Control)
    /\ \A i \in Calls :
            WF_vars(Task(i)) /\ WF_vars(EmitUpdate(i)) /\ WF_vars(Complete(i))

-----------------------------------------------------------------------------
(* Properties *)

(* Results enter the transcript in source order, each once and only after the end event of
   its call, whatever the order in which the tasks completed. *)
ResultsInSourceOrder ==
    \A k \in DOMAIN results : results[k] = k /\ stage[k] = "ended"

(* No progress is reported for a call once its tool has been settled: the end event of a call
   is the last one the UI sees of it. *)
NoLateUpdate ==
    \A i \in Calls :
        stage[i] \in {"after", "finished", "raised", "cancelled", "ended"} => updates[i] = 0

(* "Preflight must finish before allowed tasks start": in a parallel batch nothing executes
   while another call is still being prepared (docs/audit/phase-8-12-evidence.md:68). *)
PreflightFirst ==
    mode = "parallel" /\ (\E i \in Calls : stage[i] \in Live)
        => \A j \in Calls : stage[j] \notin Preparing

(* However a batch ends, no task of it is left: none that still executes a tool, none that
   would emit an update; and if it returns, no call is still shown as pending. *)
NothingLeftRunning ==
    ctl \in {"done", "raised"} =>
        /\ \A i \in Calls : stage[i] \notin Live /\ updates[i] = 0
        /\ ctl = "done" => pending = {}

(* The three: whatever is refused, hangs, raises or is aborted, and in whatever order the tasks
   of a batch run, they stay within their phase and leave nothing behind. *)
Tidy == NoLateUpdate /\ PreflightFirst /\ NothingLeftRunning

(* Once the run is aborted no tool begins to execute. *)
AbortStartsNothing ==
    [][\A i \in Calls :
        cancelled /\ stage[i] # "executing" => stage'[i] # "executing"]_vars

Contract == INSTANCE BatchContract WITH
    appended <- Len(results),
    verdict <- IF ctl \in {"done", "raised"} THEN ctl ELSE "open"

(* The batch keeps to the rules by which AgentLoop runs it: it answers all its calls, or
   those before an abort if it is sequential, or raises; and it always ends, whichever calls
   are refused, raise, hang in their updates or are aborted. *)
KeepsContract == Contract!Spec
=============================================================================
