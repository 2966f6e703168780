--------------------------- MODULE BatchContract ---------------------------
(***************************************************************************)
(* What the loop relies on when it hands N tool calls to                   *)
(* _execute_tool_batch (agent/agent_loop.py): results are appended one by  *)
(* one; the batch ends complete, unless it runs sequentially and was       *)
(* aborted; and a parallel batch that raises has appended nothing.         *)
(* AgentLoop runs its batches by these rules; ToolBatch implements them.   *)
(***************************************************************************)
EXTENDS Naturals

CONSTANTS N, HooksMayFail

VARIABLES mode, cancelled, appended, verdict

vars == <<mode, cancelled, appended, verdict>>

Init ==
    /\ mode \in {"sequential", "parallel", "length"}
    /\ cancelled \in BOOLEAN
    /\ appended = 0
    /\ verdict = "open"

Abort ==
    /\ ~ cancelled
    /\ cancelled' = TRUE
    /\ UNCHANGED <<mode, appended, verdict>>

AppendResult ==
    /\ verdict = "open" /\ appended < N
    /\ appended' = appended + 1
    /\ UNCHANGED <<mode, cancelled, verdict>>

Return ==
    /\ verdict = "open"
    /\ \/ appended = N
       \/ mode = "sequential" /\ cancelled /\ appended > 0
    /\ verdict' = "done"
    /\ UNCHANGED <<mode, cancelled, appended>>

Raise ==
    /\ HooksMayFail
    /\ verdict = "open"
    /\ mode = "sequential" \/ (mode = "parallel" /\ appended = 0)
    /\ verdict' = "raised"
    /\ UNCHANGED <<mode, cancelled, appended>>

Next == Abort \/ AppendResult \/ Return \/ Raise

Spec == Init /\ [][Next]_vars /\ WF_vars(AppendResult \/ Return \/ Raise)
=============================================================================
