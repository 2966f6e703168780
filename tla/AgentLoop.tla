------------------------------ MODULE AgentLoop ------------------------------
(***************************************************************************)
(* The stateful Agent (agent/agent.py), the two MessageQueues it owns      *)
(* (agent/queues.py) and the task it starts for every run, _run_guarded    *)
(* and _run_loop (agent/agent_loop.py).                                    *)
(*                                                                         *)
(* An action is what one task does between two points at which another     *)
(* task of the event loop can run.  Runs are numbered in the order they    *)
(* are started; run r owns the locals pc[r], inbox[r], news[r], ... of its *)
(* loop task, while queues, transcript and active signal are the Agent's.  *)
(* How one batch of tool calls executes is the subject of ToolBatch: here  *)
(* its results reach the transcript one by one, in source order.           *)
(***************************************************************************)
EXTENDS Naturals, Sequences

CONSTANTS
    Msgs,               \* identities of the messages that may be queued
    MaxRuns,            \* bound: runs started over the life of the Agent
    MaxTurns,           \* bound: turns of one run that may call tools
    MaxCalls,           \* bound: tool calls of one assistant message
    QueueModes,         \* the drain modes the embedder uses
    HooksMayFail,       \* user hooks and external queues may raise
    ProviderMayBreak,   \* a stream may end without a terminal event
    CallerMayCancel,    \* the task that awaits prompt() may be cancelled
    ContinueMayOverlap  \* continue_run() may be called during a run

ASSUME BoundsAssumption ==
    /\ MaxRuns \in Nat \ {0}
    /\ MaxTurns \in Nat
    /\ MaxCalls \in Nat
ASSUME ModesAssumption ==
    /\ QueueModes \subseteq {"all", "one-at-a-time"}
    /\ QueueModes # {}
ASSUME SwitchesAssumption ==
    /\ HooksMayFail \in BOOLEAN
    /\ ProviderMayBreak \in BOOLEAN
    /\ CallerMayCancel \in BOOLEAN
    /\ ContinueMayOverlap \in BOOLEAN

Runs == 1 .. MaxRuns
Boxes == {"steering", "followUp"}

VARIABLES
    queue, mode,                \* Agent._steering and ._follow_up: items, drain mode
    transcript,                 \* AgentState._messages
    streamingMessage,           \* AgentState._streaming_message is not None
    active,                     \* the run whose signal is _active_signal, 0: none
    started,                    \* number of runs started so far
    pc, inbox, news, base,      \* loop: control, prompts then pending_messages, new_messages,
                                \* length of the transcript when the run started
    cancelled, turn,            \* loop: signal, completed turns
    batch, kind, results,       \* loop: tool calls of the turn, how they run, results so far
    pushed, cleared,            \* history: every push in order; what clear() and reset() drop
    abortTurn                   \* history: turn[r] when run r was aborted

boxVars == <<queue, mode>>
stateVars == <<transcript, streamingMessage>>
lifeVars == <<active, started>>
batchVars == <<batch, kind, results>>
historyVars == <<pushed, cleared, abortTurn>>
loopVars == <<pc, inbox, news, base, cancelled, turn, batchVars>>
allButPc == <<boxVars, stateVars, lifeVars, inbox, news, base, cancelled, turn, batchVars,
              historyVars>>
vars == <<boxVars, stateVars, lifeVars, loopVars, historyVars>>

-----------------------------------------------------------------------------
(* Messages, as far as the properties tell them apart.  "failed" stands for *)
(* the stop reasons error and aborted, "done" for stop and toolUse.         *)

StopReasons == {"pending", "done", "length", "failed"}
Kinds == {"sequential", "parallel", "length"}

(* The ways _execute_tool_batch may run the n calls of a message with stop reason s. *)
BatchKinds(s, n) ==
    IF n = 0 THEN {"parallel"}
    ELSE IF s = "length" THEN {"length"} ELSE {"sequential", "parallel"}

Prompt(r) == [role |-> "user", run |-> r]
Queued(m) == [role |-> "queued", msg |-> m]
Assistant(r, k, n, s) == [role |-> "assistant", run |-> r, turn |-> k, calls |-> n, stop |-> s]
ToolResult(r, k, i) == [role |-> "toolResult", run |-> r, turn |-> k, call |-> i]

Message ==
    [role : {"user"}, run : Runs]
        \cup [role : {"queued"}, msg : Msgs]
        \cup [role : {"assistant"}, run : Runs, turn : Nat, calls : 0 .. MaxCalls,
              stop : StopReasons]
        \cup [role : {"toolResult"}, run : Runs, turn : Nat, call : 1 .. MaxCalls]

Front(s) == SubSeq(s, 1, Len(s) - 1)
Elems(s) == {s[i] : i \in DOMAIN s}
Sent == Elems(pushed["steering"]) \cup Elems(pushed["followUp"])

(* MessageQueue.drain: the items it returns and those it leaves. *)
Drained(q) ==
    IF mode[q] = "all" \/ queue[q] = <<>> THEN queue[q] ELSE <<Head(queue[q])>>
Remaining(q) ==
    IF mode[q] = "all" \/ queue[q] = <<>> THEN <<>> ELSE Tail(queue[q])
AsMessages(ms) == [i \in DOMAIN ms |-> Queued(ms[i])]

LoopPcs ==
    {"starting", "prompting", "turnTop", "redrain", "announce", "inject", "requesting",
     "streaming", "partial", "tools", "toolCheck", "turnEnd", "decide", "followUp", "failing", "closing"}
PcValues == LoopPcs \cup {"idle", "ended", "returned", "dead"}

IsStreaming == active # 0     \* Agent.is_streaming
Goto(r, l) == pc' = [pc EXCEPT ![r] = l]

(* _run_loop is left by an exception: what it had drained goes with it. *)
LeaveTo(r, l) ==
    /\ Goto(r, l)
    /\ inbox' = [inbox EXCEPT ![r] = <<>>]

-----------------------------------------------------------------------------
(* Variants with a mistake in them.  No specification uses them: the checks put each one in
   the place of the action it resembles, to see that a property notices. *)

(* drain() hands out messages and leaves them in the queue. *)
DrainCopies(r, q, l) ==
    /\ Goto(r, l)
    /\ inbox' = [inbox EXCEPT ![r] = AsMessages(Drained(q))]
    /\ UNCHANGED <<boxVars, stateVars, lifeVars, news, base, cancelled, turn, batchVars,
                   historyVars>>

(* push() puts the message in front. *)
PushFront(q, m) ==
    /\ m \notin Sent
    /\ queue' = [queue EXCEPT ![q] = <<m>> \o @]
    /\ pushed' = [pushed EXCEPT ![q] = Append(@, m)]
    /\ UNCHANGED <<mode, stateVars, lifeVars, loopVars, cleared, abortTurn>>

(* The signal is not looked at before the model is called. *)
RequestUnchecked(r) ==
    /\ pc[r] = "inject" /\ inbox[r] = <<>>
    /\ Goto(r, "requesting")
    /\ UNCHANGED allButPc

(* The final message is added to the partial one. *)
PartialStays(r) == news[r]

(* The batch ends one call too early. *)
OverEarly(r) == results[r] + 1 >= batch[r]

(* A failure is reported without taking the partial message down. *)
FailKeepsPartial(r) ==
    /\ pc[r] = "failing" /\ IsStreaming
    /\ transcript' = Append(transcript, Assistant(r, turn[r], 0, "failed"))
    /\ news' = [news EXCEPT ![r] = Append(@, Assistant(r, turn[r], 0, "failed"))]
    /\ Goto(r, "closing")
    /\ UNCHANGED <<boxVars, streamingMessage, lifeVars, inbox, base, cancelled, turn,
                   batchVars, historyVars>>

(* The task ends with the failure and the stream is never closed. *)
FailSilently(r) ==
    /\ pc[r] = "failing"
    /\ Goto(r, "dead")
    /\ UNCHANGED allButPc

-----------------------------------------------------------------------------
Init ==
    /\ queue = [q \in Boxes |-> <<>>]
    /\ mode \in [Boxes -> QueueModes]
    /\ transcript = <<>>
    /\ streamingMessage = FALSE
    /\ active = 0
    /\ started = 0
    /\ pc = [r \in Runs |-> "idle"]
    /\ inbox = [r \in Runs |-> <<>>]
    /\ news = [r \in Runs |-> <<>>]
    /\ base = [r \in Runs |-> 0]
    /\ cancelled = [r \in Runs |-> FALSE]
    /\ turn = [r \in Runs |-> 0]
    /\ batch = [r \in Runs |-> 0]
    /\ kind = [r \in Runs |-> "parallel"]
    /\ results = [r \in Runs |-> 0]
    /\ pushed = [q \in Boxes |-> <<>>]
    /\ cleared = {}
    /\ abortTurn = [r \in Runs |-> 0]

-----------------------------------------------------------------------------
(* Calls that other tasks make on the Agent. *)

(* steer, follow_up *)
Push(q, m) ==
    /\ m \notin Sent
    /\ queue' = [queue EXCEPT ![q] = Append(@, m)]
    /\ pushed' = [pushed EXCEPT ![q] = Append(@, m)]
    /\ UNCHANGED <<mode, stateVars, lifeVars, loopVars, cleared, abortTurn>>

(* clear_steering_queue, clear_follow_up_queue *)
ClearQueue(q) ==
    /\ queue[q] # <<>>
    /\ queue' = [queue EXCEPT ![q] = <<>>]
    /\ cleared' = cleared \cup Elems(queue[q])
    /\ UNCHANGED <<mode, stateVars, lifeVars, loopVars, pushed, abortTurn>>

(* set_steering_mode, set_follow_up_mode *)
SetMode(q) ==
    /\ \E md \in QueueModes \ {mode[q]} : mode' = [mode EXCEPT ![q] = md]
    /\ UNCHANGED <<queue, stateVars, lifeVars, loopVars, historyVars>>

Abort ==
    /\ IsStreaming
    /\ ~ cancelled[active]
    /\ cancelled' = [cancelled EXCEPT ![active] = TRUE]
    /\ abortTurn' = [abortTurn EXCEPT ![active] = turn[active]]
    /\ UNCHANGED <<boxVars, stateVars, lifeVars, pc, inbox, news, base, turn,
                   batchVars, pushed, cleared>>

Reset ==
    /\ ~ IsStreaming
    /\ transcript # <<>> \/ \E q \in Boxes : queue[q] # <<>>
    /\ transcript' = <<>>
    /\ streamingMessage' = FALSE
    /\ queue' = [q \in Boxes |-> <<>>]
    /\ cleared' = cleared \cup {m \in Msgs :
            \/ Queued(m) \in Elems(transcript)
            \/ \E q \in Boxes : m \in Elems(queue[q])}
    /\ UNCHANGED <<mode, lifeVars, loopVars, pushed, abortTurn>>

(* _start_run: nothing is awaited between the is_streaming test and the end of this step. *)
StartRun(r, prompts) ==
    /\ ~ IsStreaming
    /\ r = started + 1
    /\ started' = r
    /\ active' = r
    /\ Goto(r, "starting")
    /\ inbox' = [inbox EXCEPT ![r] = prompts]
    /\ news' = [news EXCEPT ![r] = prompts]
    /\ base' = [base EXCEPT ![r] = Len(transcript)]
    /\ UNCHANGED <<mode, stateVars, cancelled, turn, batchVars, historyVars>>

PromptCall(r) ==
    /\ StartRun(r, <<Prompt(r)>>)
    /\ UNCHANGED queue

AssistantTail ==
    IF transcript = <<>> THEN TRUE ELSE transcript[Len(transcript)].role = "assistant"

(* _drain_for_continue: steering first, follow-ups only when there is none. *)
ContinueBox == IF queue["steering"] # <<>> THEN "steering" ELSE "followUp"

ContinueCall(r) ==
    \/ /\ ~ AssistantTail
       /\ StartRun(r, <<>>)
       /\ UNCHANGED queue
    \/ /\ AssistantTail
       /\ queue[ContinueBox] # <<>>
       /\ StartRun(r, AsMessages(Drained(ContinueBox)))
       /\ queue' = [queue EXCEPT ![ContinueBox] = Remaining(ContinueBox)]

(* continue_run drains before _start_run refuses the run: the drained messages are gone. *)
ContinueRefused ==
    /\ ContinueMayOverlap
    /\ IsStreaming
    /\ AssistantTail
    /\ queue[ContinueBox] # <<>>
    /\ queue' = [queue EXCEPT ![ContinueBox] = Remaining(ContinueBox)]
    /\ UNCHANGED <<mode, stateVars, lifeVars, loopVars, historyVars>>

(* The awaiting task is cancelled: the finally of _start_run runs, the loop task goes on. *)
CancelCaller ==
    /\ CallerMayCancel
    /\ IsStreaming
    /\ active' = 0
    /\ streamingMessage' = FALSE
    /\ UNCHANGED <<boxVars, transcript, started, loopVars, historyVars>>

-----------------------------------------------------------------------------
(* The loop task of run r.  Every event goes to Agent._process_event, which *)
(* raises when no run is active and otherwise reduces it into the state of  *)
(* the Agent, whichever run that state now belongs to.                      *)

(* The calling task resumes with the result; finally of _start_run. *)
Return(r) ==
    /\ pc[r] = "ended"
    /\ active = r
    /\ active' = 0
    /\ streamingMessage' = FALSE
    /\ Goto(r, "returned")
    /\ UNCHANGED <<boxVars, transcript, started, inbox, news, base, cancelled, turn,
                   batchVars, historyVars>>

EmitStart(r) ==
    /\ pc[r] = "starting" /\ IsStreaming
    /\ Goto(r, "prompting")
    /\ UNCHANGED allButPc

EmitPrompt(r) ==
    /\ pc[r] = "prompting" /\ inbox[r] # <<>> /\ IsStreaming
    /\ transcript' = Append(transcript, Head(inbox[r]))
    /\ inbox' = [inbox EXCEPT ![r] = Tail(@)]
    /\ UNCHANGED <<boxVars, streamingMessage, lifeVars, pc, news, base, cancelled, turn,
                   batchVars, historyVars>>

(* _drain_steering, _drain_follow_up: the local queue first, then the external one, which
   may raise when the local messages are already out of their queue. *)
DrainInto(r, q, l) ==
    /\ queue' = [queue EXCEPT ![q] = Remaining(q)]
    /\ \/ /\ Goto(r, l)
          /\ inbox' = [inbox EXCEPT ![r] = AsMessages(Drained(q))]
       \/ /\ HooksMayFail
          /\ LeaveTo(r, "failing")
    /\ UNCHANGED <<mode, stateVars, lifeVars, news, base, cancelled, turn, batchVars,
                   historyVars>>

InitialDrain(r) ==
    /\ pc[r] = "prompting" /\ inbox[r] = <<>>
    /\ DrainInto(r, "steering", "turnTop")

(* prepare_next_turn runs before every turn but the first. *)
TurnTop(r) ==
    /\ pc[r] = "turnTop"
    /\ \/ /\ Goto(r, IF turn[r] = 0 THEN "inject" ELSE "redrain")
          /\ UNCHANGED inbox
       \/ /\ HooksMayFail /\ turn[r] > 0
          /\ LeaveTo(r, "failing")
    /\ UNCHANGED <<boxVars, stateVars, lifeVars, news, base, cancelled, turn,
                   batchVars, historyVars>>

KeepInbox(r) ==
    /\ pc[r] = "redrain" /\ inbox[r] # <<>>
    /\ Goto(r, "announce")
    /\ UNCHANGED allButPc

Redrain(r) ==
    /\ pc[r] = "redrain" /\ inbox[r] = <<>>
    /\ DrainInto(r, "steering", "announce")

Announce(r) ==
    /\ pc[r] = "announce" /\ IsStreaming
    /\ Goto(r, "inject")
    /\ UNCHANGED allButPc

Inject(r) ==
    /\ pc[r] = "inject" /\ inbox[r] # <<>> /\ IsStreaming
    /\ transcript' = Append(transcript, Head(inbox[r]))
    /\ news' = [news EXCEPT ![r] = Append(@, Head(inbox[r]))]
    /\ inbox' = [inbox EXCEPT ![r] = Tail(@)]
    /\ UNCHANGED <<boxVars, streamingMessage, lifeVars, pc, base, cancelled, turn,
                   batchVars, historyVars>>

(* _raise_if_cancelled, then _stream_assistant_response up to its stream_fn call. *)
Request(r) ==
    /\ pc[r] = "inject" /\ inbox[r] = <<>>
    /\ Goto(r, IF cancelled[r] THEN "failing" ELSE "requesting")
    /\ UNCHANGED allButPc

CallProvider(r) ==
    /\ pc[r] = "requesting"
    /\ \/ Goto(r, "streaming")
       \/ HooksMayFail /\ Goto(r, "failing")
    /\ UNCHANGED allButPc

(* The first event but a terminal one inserts the partial message; later ones replace it. *)
Partial(r) ==
    /\ pc[r] = "streaming" /\ IsStreaming
    /\ Goto(r, "partial")
    /\ streamingMessage' = TRUE
    /\ news' = [news EXCEPT ![r] = Append(@, Assistant(r, turn[r], 0, "pending"))]
    /\ UNCHANGED <<boxVars, transcript, lifeVars, inbox, base, cancelled, turn, batchVars,
                   historyVars>>

WithoutPartial(r) == IF pc[r] = "partial" THEN Front(news[r]) ELSE news[r]

(* The terminal message takes the place of the partial one, if there is one. *)
Finish(r, s, n) ==
    /\ pc[r] \in {"streaming", "partial"} /\ IsStreaming
    /\ n > 0 => turn[r] < MaxTurns
    /\ LET m == Assistant(r, turn[r], n, s)
       IN  /\ transcript' = Append(transcript, m)
           /\ news' = [news EXCEPT ![r] = Append(WithoutPartial(r), m)]
    /\ streamingMessage' = FALSE
    /\ Goto(r, IF s = "failed" THEN "closing" ELSE IF n > 0 THEN "tools" ELSE "turnEnd")
    /\ batch' = [batch EXCEPT ![r] = n]
    /\ results' = [results EXCEPT ![r] = 0]
    /\ \E k \in BatchKinds(s, n) : kind' = [kind EXCEPT ![r] = k]
    /\ UNCHANGED <<boxVars, lifeVars, inbox, base, cancelled, turn, historyVars>>

StreamBreaks(r) ==
    /\ ProviderMayBreak
    /\ pc[r] \in {"streaming", "partial"}
    /\ Goto(r, "failing")
    /\ UNCHANGED allButPc

-----------------------------------------------------------------------------
(* _execute_tool_batch, as far as the loop sees it. *)

AppendResult(r) ==
    /\ pc[r] = "tools" /\ IsStreaming
    /\ LET m == ToolResult(r, turn[r], results[r] + 1)
       IN  /\ transcript' = Append(transcript, m)
           /\ news' = [news EXCEPT ![r] = Append(@, m)]
    /\ results' = [results EXCEPT ![r] = @ + 1]
    /\ Goto(r, "toolCheck")
    /\ UNCHANGED <<boxVars, streamingMessage, lifeVars, inbox, base, cancelled, turn,
                   batch, kind, historyVars>>

(* A sequential batch stops after the first result that finds the run cancelled. *)
BatchOver(r) ==
    \/ results[r] = batch[r]
    \/ kind[r] = "sequential" /\ cancelled[r]

NextCall(r) ==
    /\ pc[r] = "toolCheck"
    /\ Goto(r, IF BatchOver(r) THEN "turnEnd" ELSE "tools")
    /\ UNCHANGED allButPc

(* after_tool_call raises CancelledError: a parallel batch has appended nothing yet. *)
BatchFails(r) ==
    /\ HooksMayFail
    /\ pc[r] = "tools"
    /\ kind[r] = "sequential" \/ (kind[r] = "parallel" /\ results[r] = 0)
    /\ Goto(r, "failing")
    /\ UNCHANGED allButPc

-----------------------------------------------------------------------------
EndTurn(r) ==
    /\ pc[r] = "turnEnd" /\ IsStreaming
    /\ turn' = [turn EXCEPT ![r] = @ + 1]
    /\ Goto(r, "decide")
    /\ UNCHANGED <<boxVars, stateVars, lifeVars, inbox, news, base, cancelled,
                   batchVars, historyVars>>

StopAfterTurn(r) ==
    /\ pc[r] = "decide"
    /\ \/ Goto(r, "closing")
       \/ HooksMayFail /\ Goto(r, "failing")
    /\ UNCHANGED allButPc

(* more: has_more_tool_calls.  Every result may ask to terminate, but not one that failed. *)
Decide(r, more) ==
    /\ pc[r] = "decide"
    /\ more => batch[r] > 0
    /\ ~ more => batch[r] = 0 \/ kind[r] # "length"
    /\ DrainInto(r, "steering",
                 IF more \/ Drained("steering") # <<>> THEN "turnTop" ELSE "followUp")

TakeFollowUp(r) ==
    /\ pc[r] = "followUp"
    /\ DrainInto(r, "followUp", IF Drained("followUp") # <<>> THEN "turnTop" ELSE "closing")

(* _finish_after_loop_failure up to its agent_end. *)
Fail(r) ==
    /\ pc[r] = "failing" /\ IsStreaming
    /\ LET m == Assistant(r, turn[r], 0, "failed")
       IN  /\ transcript' = Append(transcript, m)
           /\ news' = [news EXCEPT ![r] = Append(@, m)]
    /\ streamingMessage' = FALSE
    /\ Goto(r, "closing")
    /\ UNCHANGED <<boxVars, lifeVars, inbox, base, cancelled, turn, batchVars,
                   historyVars>>

Close(r) ==
    /\ pc[r] = "closing" /\ IsStreaming
    /\ Goto(r, "ended")
    /\ UNCHANGED allButPc

(* The sink raises on the next event.  Reporting that failure raises too and ends the task,
   except that a parallel batch first awaits its cancelled tool tasks. *)
NextStepEmits(r) ==
    \/ pc[r] \in {"starting", "announce", "streaming", "partial", "tools", "turnEnd",
                "failing", "closing"}
    \/ pc[r] \in {"prompting", "inject"} /\ inbox[r] # <<>>

OutsideRun(r) ==
    /\ ~ IsStreaming
    /\ NextStepEmits(r)
    /\ LeaveTo(r, IF pc[r] = "tools" /\ kind[r] = "parallel" /\ results[r] = 0
                  THEN "failing" ELSE "dead")
    /\ UNCHANGED <<boxVars, stateVars, lifeVars, news, base, cancelled, turn,
                   batchVars, historyVars>>

-----------------------------------------------------------------------------
Outcomes == {"done", "length", "failed"}

LoopStep(r) ==
    \/ Return(r)
    \/ EmitStart(r) \/ EmitPrompt(r) \/ InitialDrain(r)
    \/ TurnTop(r) \/ KeepInbox(r) \/ Redrain(r) \/ Announce(r) \/ Inject(r)
    \/ Request(r) \/ CallProvider(r) \/ Partial(r)
    \/ \E s \in Outcomes, n \in 0 .. MaxCalls : Finish(r, s, n)
    \/ StreamBreaks(r)
    \/ AppendResult(r) \/ NextCall(r) \/ BatchFails(r)
    \/ EndTurn(r) \/ StopAfterTurn(r)
    \/ \E more \in BOOLEAN : Decide(r, more)
    \/ TakeFollowUp(r) \/ Fail(r) \/ Close(r) \/ OutsideRun(r)

CallStep ==
    \/ \E q \in Boxes, m \in Msgs : Push(q, m)
    \/ \E q \in Boxes : ClearQueue(q) \/ SetMode(q)
    \/ Abort \/ Reset
    \/ \E r \in Runs : PromptCall(r) \/ ContinueCall(r)
    \/ ContinueRefused \/ CancelCaller

Next == CallStep \/ \E r \in Runs : LoopStep(r)

Spec == Init /\ [][Next]_vars

(* asyncio runs every task that is ready, and the provider, the hooks, the tools and the
   listeners that the loop awaits answer: no loop task waits for ever. *)
Fairness == \A r \in Runs : WF_vars(LoopStep(r))
FairSpec == Spec /\ Fairness

-----------------------------------------------------------------------------
(* Properties *)

(* Every variable keeps its shape: queues hold queueable messages, the transcript holds
   messages, a loop counts its calls within the batch it is running. *)
TypeOK ==
    /\ queue \in [Boxes -> Seq(Msgs)]
    /\ mode \in [Boxes -> QueueModes]
    /\ transcript \in Seq(Message)
    /\ streamingMessage \in BOOLEAN
    /\ started \in 0 .. MaxRuns
    /\ active \in 0 .. started
    /\ pc \in [Runs -> PcValues]
    /\ inbox \in [Runs -> Seq(Message)]
    /\ news \in [Runs -> Seq(Message)]
    /\ base \in [Runs -> Nat]
    /\ cancelled \in [Runs -> BOOLEAN]
    /\ turn \in [Runs -> Nat]
    /\ batch \in [Runs -> 0 .. MaxCalls]
    /\ kind \in [Runs -> Kinds]
    /\ results \in [Runs -> 0 .. MaxCalls]
    /\ pushed \in [Boxes -> Seq(Msgs)]
    /\ cleared \in SUBSET Msgs
    /\ abortTurn \in [Runs -> Nat]

(* A loop task works only while its own run is the active one: when prompt() has returned
   or raised, nothing is left behind that drains queues or writes the transcript
   ("prompt() must propagate to the low-level stream and wait for cleanup"). *)
SingleWriter == \A r \in Runs : pc[r] \in LoopPcs => active = r

(* The partial message that the UI shows exists only while its run streams or fails. *)
PartialWhileStreaming ==
    streamingMessage => active # 0 /\ pc[active] \in {"partial", "failing"}

(* Every place that holds a copy of a queued message. *)
Occurrences(s, x) == {i \in DOMAIN s : s[i] = x}
Places(m) ==
    (UNION {{<<q, 0, i>> : i \in Occurrences(queue[q], m)} : q \in Boxes})
        \cup (UNION {{<<"inbox", r, i>> : i \in Occurrences(inbox[r], Queued(m))} : r \in Runs})
        \cup {<<"transcript", 0, i>> : i \in Occurrences(transcript, Queued(m))}

(* It is somewhere. *)
Kept(m) ==
    \/ \E q \in Boxes : m \in Elems(queue[q])
    \/ \E r \in Runs : Queued(m) \in Elems(inbox[r])
    \/ Queued(m) \in Elems(transcript)

(* A steered or followed-up message is in at most one place at a time: no race of drains,
   clears, continued runs and failures shows it to the model twice. *)
QueuedOnce == \A m \in Msgs : \A p1, p2 \in Places(m) : p1 = p2

(* A run that was started and has not returned to its caller, which was cancelled. *)
Abandoned(r) == pc[r] \notin {"idle", "returned"} /\ active # r
Undisturbed == \A r \in Runs : ~ Abandoned(r)

(* What was accepted by steer() or follow_up() and not cleared is queued, in the hands of a
   loop or delivered: where nothing fails and no run is abandoned, nothing vanishes between
   drain and delivery. *)
NothingLost == Undisturbed => \A m \in Sent \ cleared : Kept(m)

(* Both: whatever fails or is cleared, and also when a caller is cancelled and its loop works
   on (see SingleWriter), a message is delivered once if its run lives. *)
DeliveredOnce == QueuedOnce /\ NothingLost

(* The model is asked with exactly the history the run started from and the messages the
   run itself reported, in that order: the transcript of the Agent and the context of its
   loop, kept by two different pieces of code, agree as long as no run is abandoned. *)
RequestSeesTranscript ==
    Undisturbed => \A r \in Runs : pc[r] = "requesting" =>
        /\ Len(transcript) = base[r] + Len(news[r])
        /\ SubSeq(transcript, base[r] + 1, Len(transcript)) = news[r]

Answered(s, i) ==
    \A j \in 1 .. s[i].calls :
        /\ i + j \in DOMAIN s
        /\ s[i + j] = ToolResult(s[i].run, s[i].turn, j)

Calling(s, r) ==
    {i \in DOMAIN s : s[i].role = "assistant" /\ s[i].run = r /\ s[i].stop # "failed"}

(* Whenever a run asks the model again, every call of its earlier turns is followed by its
   result, in source order, with nothing (no steered message either) in between. *)
NoUnresolvedAtRequest ==
    \A r \in Runs : pc[r] = "requesting" =>
        \A i \in Calling(transcript, r) : Answered(transcript, i)

(* After abort() the turn in progress may finish, but no later turn reaches the model. *)
NoTurnAfterAbort ==
    \A r \in Runs :
        cancelled[r] /\ pc[r] \in {"requesting", "streaming", "partial", "tools"}
            => turn[r] = abortTurn[r]

(* What the proofs add to make these invariants inductive: a result is due only while the
   batch is not complete, and the turn in which abort() fell stays the current one. *)
CallsDue ==
    \A r \in Runs :
        /\ pc[r] = "tools" => results[r] < batch[r]
        /\ pc[r] = "toolCheck" => results[r] <= batch[r]

AbortFreezesTurn ==
    \A r \in Runs :
        cancelled[r] /\ pc[r] \in {"requesting", "streaming", "partial", "tools", "toolCheck",
                                   "turnEnd"}
            => turn[r] = abortTurn[r]

IInv == TypeOK /\ CallsDue /\ AbortFreezesTurn

(* A run that is started returns, whatever is steered, aborted or cleared meanwhile. *)
RunSettles == \A r \in Runs : active = r ~> active # r

-----------------------------------------------------------------------------
(* The Agent as a MessageDelivery: the hand is what the active loop has drained. *)
QueuedIn(s) ==
    LET kept[i \in 0 .. Len(s)] ==
            IF i = 0 THEN <<>>
            ELSE IF s[i].role = "queued" THEN Append(kept[i - 1], s[i].msg) ELSE kept[i - 1]
    IN  kept[Len(s)]

Hand == IF active = 0 THEN <<>> ELSE QueuedIn(inbox[active])
Gone == {m \in Sent : ~ Kept(m)}

Mailbox == INSTANCE MessageDelivery WITH
    accepted <- pushed,
    waiting <- queue,
    hand <- Hand,
    delivered <- QueuedIn(transcript),
    gone <- Gone

(* Steering and follow-up messages are delivered in order and at most once, and are lost
   only with a failing run: the Agent implements MessageDelivery. *)
ImplementsMailbox == Mailbox!Spec
=============================================================================
