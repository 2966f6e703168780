------------------------------ MODULE Telemetry ------------------------------
(***************************************************************************)
(* The spans of a session: AgentSessionInstrumentation, which opens and    *)
(* ends them for the events of a run (telemetry/instrumentation.py), and   *)
(* TracerProvider with one processor, simple or batching, over one         *)
(* exporter (telemetry/tracing.py, telemetry/exporters.py).  An ended span *)
(* is handed on by a task of its own.  Metrics, attributes and redaction   *)
(* are left out.                                                           *)
(***************************************************************************)
EXTENDS Naturals, FiniteSets

CONSTANTS
    MaxSpans,       \* bound: spans of a session
    BatchSize,      \* max_batch_size of the batching processor
    MaxFailures     \* bound: exports that fail

ASSUME TelemetryAssumption == MaxSpans \in Nat /\ BatchSize \in Nat \ {0} /\ MaxFailures \in Nat

VARIABLES
    batching,       \* the processor is a BatchSpanProcessor
    state,          \* per span: "new", "open", "dispatched", "pending", "taken", "exported" or "lost"
    run, turn, tools,   \* the open spans of the instrumentation, 0 for none
    parent,         \* per span, 0 for none
    batch,          \* per actor: the spans it exports
    at,             \* per flush: "idle", "gather" or "export"
    gathered,       \* per flush: the tasks it waits for
    closing,        \* what the end of the program has done: see Steps
    exports,        \* history: times a span was exported
    failures        \* for the bound

slots == <<run, turn, tools>>
spanVars == <<batching, state, slots, parent, batch, at, gathered, closing, exports, failures>>

Spans == 1 .. MaxSpans
AtEvent == MaxSpans + 1         \* the flush at the end of a run, and that of close or shutdown
AtClose == MaxSpans + 2
Flushes == {AtEvent, AtClose}
Steps == <<"open", "unsubscribed", "flushed", "closed">>    \* close, its flush, shutdown

SpansInit ==
    /\ batching \in BOOLEAN
    /\ state = [s \in Spans |-> "new"] /\ parent = [s \in Spans |-> 0]
    /\ run = 0 /\ turn = 0 /\ tools = {}
    /\ batch = [a \in Spans \cup Flushes |-> {}]
    /\ at = [f \in Flushes |-> "idle"] /\ gathered = [f \in Flushes |-> {}]
    /\ closing = 1 /\ exports = [s \in Spans |-> 0] /\ failures = 0

In(names) == {s \in Spans : state[s] \in names}
Tasks == {s \in Spans : state[s] = "dispatched" \/ batch[s] # {}}
Set(spans, to) == state' = [s \in Spans |-> IF s \in spans THEN to ELSE state[s]]
Opened == ({run, turn} \ {0}) \cup tools

-----------------------------------------------------------------------------
(* Variants with a mistake in them.  No specification uses them: the checks put each one in
   the place of the definition it resembles, to see that a property notices. *)

(* The tasks under way are not waited for. *)
FlushAtOnce(f) == at' = [at EXCEPT ![f] = "gather"] /\ gathered' = [gathered EXCEPT ![f] = {}]

-----------------------------------------------------------------------------
(* Events.  A handler runs to its end before the next event, and not after unsubscribe. *)
Listening == closing = 1 /\ at[AtEvent] = "idle"

(* force_flush of the provider: first the tasks there are. *)
Flush(f) == at' = [at EXCEPT ![f] = "gather"] /\ gathered' = [gathered EXCEPT ![f] = Tasks]

OpenSpan(s, under) ==
    /\ s = Cardinality(Spans \ In({"new"})) + 1 /\ s \in Spans
    /\ parent' = [parent EXCEPT ![s] = under]

(* AgentStart: what an earlier run has left open ends first. *)
AgentStarts(s) ==
    /\ Listening /\ OpenSpan(s, 0)
    /\ state' = [x \in Spans |-> IF x = s THEN "open" ELSE IF x \in Opened THEN "dispatched" ELSE state[x]]
    /\ run' = s /\ turn' = 0 /\ tools' = {}
    /\ UNCHANGED <<batching, batch, at, gathered, closing, exports, failures>>

(* The loop ends its tool calls before the turn, and a turn before the next. *)
TurnStarts(s) ==
    /\ Listening /\ run # 0 /\ tools = {} /\ OpenSpan(s, run)
    /\ state' = [x \in Spans |-> IF x = s THEN "open" ELSE IF x = turn THEN "dispatched" ELSE state[x]]
    /\ turn' = s
    /\ UNCHANGED <<batching, run, tools, batch, at, gathered, closing, exports, failures>>

ToolStarts(s) ==
    /\ Listening /\ run # 0 /\ OpenSpan(s, IF turn # 0 THEN turn ELSE run)
    /\ Set({s}, "open") /\ tools' = tools \cup {s}
    /\ UNCHANGED <<batching, run, turn, batch, at, gathered, closing, exports, failures>>

ToolEnds(s) ==
    /\ Listening /\ s \in tools
    /\ Set({s}, "dispatched") /\ tools' = tools \ {s}
    /\ UNCHANGED <<batching, run, turn, parent, batch, at, gathered, closing, exports, failures>>

TurnEnds ==
    /\ Listening /\ turn # 0 /\ tools = {}
    /\ Set({turn}, "dispatched") /\ turn' = 0
    /\ UNCHANGED <<batching, run, tools, parent, batch, at, gathered, closing, exports, failures>>

(* AgentEnd: all that is open ends, and the handler flushes. *)
AgentEnds ==
    /\ Listening /\ run # 0
    /\ Set(Opened, "dispatched") /\ run' = 0 /\ turn' = 0 /\ tools' = {}
    /\ at' = [at EXCEPT ![AtEvent] = "gather"]
    /\ gathered' = [gathered EXCEPT ![AtEvent] = Tasks \cup Opened]
    /\ UNCHANGED <<batching, parent, batch, closing, exports, failures>>

(* close of the instrumentation, then shutdown of the provider. *)
CloseSession ==
    /\ closing = 1
    /\ closing' = 2
    /\ Set(Opened, "dispatched") /\ run' = 0 /\ turn' = 0 /\ tools' = {}
    /\ UNCHANGED <<batching, parent, batch, at, gathered, exports, failures>>

CloseFlushes ==
    /\ closing \in {2, 3} /\ at[AtClose] = "idle"
    /\ Flush(AtClose)
    /\ UNCHANGED <<batching, state, slots, parent, batch, closing, exports, failures>>

-----------------------------------------------------------------------------
(* _dispatch and on_end: the batching processor keeps the span until there are enough. *)
Dispatch(s) ==
    /\ state[s] = "dispatched"
    /\ LET due == IF batching THEN In({"pending"}) \cup {s} ELSE {s}
           take == ~batching \/ Cardinality(due) >= BatchSize
       IN /\ state' = [x \in Spans |-> IF take /\ x \in due THEN "taken"
                                        ELSE IF x = s THEN "pending" ELSE state[x]]
          /\ batch' = IF take THEN [batch EXCEPT ![s] = due] ELSE batch
    /\ UNCHANGED <<batching, slots, parent, at, gathered, closing, exports, failures>>

(* force_flush of the processor once the tasks are through: all that is pending. *)
Gathered(f) ==
    /\ at[f] = "gather" /\ gathered[f] \cap Tasks = {}
    /\ LET due == In({"pending"}) IN
       /\ Set(due, "taken") /\ batch' = [batch EXCEPT ![f] = due]
    /\ at' = [at EXCEPT ![f] = "export"]
    /\ UNCHANGED <<batching, slots, parent, gathered, closing, exports, failures>>

(* An export that fails leaves a diagnostic, and its spans are gone. *)
Export(a) ==
    /\ batch[a] # {}
    /\ \/ Set(batch[a], "exported") /\ UNCHANGED failures
          /\ exports' = [s \in Spans |-> exports[s] + (IF s \in batch[a] THEN 1 ELSE 0)]
       \/ Set(batch[a], "lost") /\ failures < MaxFailures /\ failures' = failures + 1 /\ UNCHANGED exports
    /\ batch' = [batch EXCEPT ![a] = {}]
    /\ UNCHANGED <<batching, slots, parent, at, gathered, closing>>

(* The flush of close leads to shutdown, that of shutdown to the end. *)
Flushed(f) ==
    /\ at[f] = "export" /\ batch[f] = {}
    /\ at' = [at EXCEPT ![f] = "idle"]
    /\ closing' = IF f = AtClose THEN closing + 1 ELSE closing
    /\ UNCHANGED <<batching, state, slots, parent, batch, gathered, exports, failures>>

SpansNext ==
    \/ TurnEnds \/ AgentEnds \/ CloseSession \/ CloseFlushes
    \/ \E s \in Spans : AgentStarts(s) \/ TurnStarts(s) \/ ToolStarts(s) \/ ToolEnds(s) \/ Dispatch(s)
    \/ \E f \in Flushes : Gathered(f) \/ Flushed(f)
    \/ \E a \in Spans \cup Flushes : Export(a)

SpansSpec == SpansInit /\ [][SpansNext]_spanVars

-----------------------------------------------------------------------------
(* Every span that was ever opened has ended when the provider is closed, and was exported or
   taken into an export that failed; it is exported at most once, by its own task, by that of
   a later span or by a flush; a span ends no earlier than the spans under it. *)
SpansAccounted ==
    /\ \A s \in Spans : exports[s] <= 1
    /\ Steps[closing] = "closed" /\ Tasks = {} => In({"open", "dispatched", "pending"}) = {}
    /\ \A s \in In({"open"}) : parent[s] # 0 => state[parent[s]] = "open"
=============================================================================
